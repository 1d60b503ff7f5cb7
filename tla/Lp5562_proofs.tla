---------------------------- MODULE Lp5562_proofs ----------------------------
(***************************************************************************)
(* The programs of the LP5562, for every time, count and brightness: the   *)
(* range checks of ledhal.c are what the compiler needs (ProgramsFit), no  *)
(* blink ever stops (NeverStopsInABlink), and what the channel shows, at   *)
(* every step of every round, is the light asked for unless one of its     *)
(* times wraps (ShowsTheWave). First                                       *)
(* the words one by one, then the pieces programs are put together from,   *)
(* then the engine; and again, with the time that passes: what the words   *)
(* of a light are, how one step of the engine goes through a light, how    *)
(* the lights make up a round, and last the invariant WInv that says where *)
(* in its round the engine is.                                             *)
(***************************************************************************)
EXTENDS Lp5562, SequenceTheorems, TLAPS

\* A time in steps as the compiler has it.
Steps(ms) == Tenths(ms) \div Step

\* The width of a time, as a number.
LEMMA WordIsLarge == Word \in Nat /\ Word > 619164
  BY LpAssumption, SMT DEF Longest, Step, MaxStep, MaxLoop

\* Tenths of a millisecond are a number.
LEMMA TenthsNat == \A ms \in U32 : Tenths(ms) \in Nat
  BY WordIsLarge, SMT DEF Tenths, U32

\* A time that passed its check fits the branch and wait commands, and the waits
\* it is split into add up to it, rounded down to steps.
LEMMA WaitsBounded ==
  ASSUME NEW ms \in U32, InRange(ms)
  PROVE  /\ FullWaits(ms) \in 0..63 /\ LastWait(ms) \in 0..62
         /\ 63 * FullWaits(ms) + LastWait(ms) = Steps(ms)
<1> DEFINE T == Tenths(ms)
<1>1. T \in Nat /\ T <= 619164
  BY TenthsNat, SMT DEF InRange, Longest, Step, MaxStep, MaxLoop
<1>2. /\ FullWaits(ms) = T \div 9828 /\ LastWait(ms) = (T % 9828) \div 156
      /\ Steps(ms) = T \div 156
  BY SMT DEF FullWaits, LastWait, MaxStep, Step, Steps
<1> HIDE DEF T
<1>3. T \div 9828 \in 0..63 /\ (T % 9828) \div 156 \in 0..62
  BY <1>1, SMT
<1>4. 63 * (T \div 9828) + ((T % 9828) \div 156) = T \div 156
  BY <1>1, SMTT(60)
<1> QED
  BY <1>2, <1>3, <1>4

\* The word that sets the brightness: what it is and what it says.
LEMMA SetWord == \A v \in 0..255 : IsSet(SetPwm(v)) /\ SetPwm(v) \in Nat /\ SetPwm(v) % 256 = v
  BY SMT DEF IsSet, SetPwm

\* A wait command of 1 to 63 steps is one, and means what it was made for.
LEMMA WaitWord ==
  \A n \in 1..63 : IsWait(Wait(n)) /\ Wait(n) % 256 = 0 /\ Wait(n) \in Nat /\ WaitOf(Wait(n)) = n
  BY SMT DEF IsWait, Wait, WaitOf

\* No count up to 63 and no target in memory runs into the other fields.
LEMMA BranchWord ==
  \A n \in 0..63, to \in 0..15 :
    /\ Branch(n, to) \in Nat /\ IsBranch(Branch(n, to))
    /\ CountOf(Branch(n, to)) = n /\ TargetOf(Branch(n, to)) = to
<1> SUFFICES ASSUME NEW n \in 0..63, NEW to \in 0..15
             PROVE  /\ Branch(n, to) \in Nat /\ IsBranch(Branch(n, to))
                    /\ CountOf(Branch(n, to)) = n /\ TargetOf(Branch(n, to)) = to
  BY Zenon
<1> DEFINE w == 40960 + n * 128 + to
<1>1. w \in 40960..49151
  BY SMT
<1>2. Branch(n, to) = w
  BY <1>1, SMT DEF Branch
<1>3. w \div 8192 = 5
  BY <1>1, SMT
<1>4. w % 16 = to
  BY SMT
<1>5. w \div 128 = 320 + n
  BY SMT
<1>6. (320 + n) % 64 = n
  BY SMT
<1> QED
  BY <1>1, <1>2, <1>3, <1>4, <1>5, <1>6, SMTT(20) DEF IsBranch, CountOf, TargetOf

\* A command that is not the end, at word i of a program.
Command(w, i) ==
  \/ IsSet(w)
  \/ IsWait(w) /\ w % 256 = 0
  \/ IsBranch(w) /\ TargetOf(w) < i /\ CountOf(w) > 0

\* The words p make commands at word from of a program.
Fits(p, from) ==
  p \in Seq(Nat) /\ \A i \in 1..Len(p) : Command(p[i], from + i - 1)

\* Pieces that fit one after the other fit together.
LEMMA FitsTogether ==
  ASSUME NEW p, NEW q, NEW from \in Nat, Fits(p, from), Fits(q, from + Len(p))
  PROVE  Fits(p \o q, from) /\ Len(p \o q) = Len(p) + Len(q)
<1>1. p \in Seq(Nat) /\ q \in Seq(Nat) /\ p \o q \in Seq(Nat)
      /\ Len(p) \in Nat /\ Len(q) \in Nat /\ Len(p \o q) = Len(p) + Len(q)
  BY DEF Fits
<1>2. ASSUME NEW i \in 1..Len(p \o q)
      PROVE Command((p \o q)[i], from + i - 1)
  <2>1. CASE i <= Len(p)
    BY <1>1, <2>1 DEF Fits
  <2>2. CASE i > Len(p)
    <3> DEFINE j == i - Len(p)
    <3>1. j \in 1..Len(q) /\ (p \o q)[i] = q[j]
      BY <1>1, <2>2
    <3>2. from + Len(p) + j - 1 = from + i - 1
      BY <1>1
    <3> QED
      BY <3>1, <3>2 DEF Fits
  <2> QED
    BY <1>1, <2>1, <2>2
<1> QED
  BY <1>1, <1>2 DEF Fits

\* A single command.
LEMMA OneWord ==
  ASSUME NEW w \in Nat, NEW from \in Nat, Command(w, from)
  PROVE  Fits(<<w>>, from) /\ Len(<<w>>) = 1
  BY DEF Fits

\* No command.
LEMMA NoWord == ASSUME NEW from \in Nat PROVE Fits(<<>>, from) /\ Len(<<>>) = 0
  BY DEF Fits

\* Holding the light takes at most three commands, that fit where they are put.
LEMMA HoldFits ==
  ASSUME NEW ms \in U32, InRange(ms), NEW word \in 1..15
  PROVE  Fits(Hold(word, ms), word) /\ Len(Hold(word, ms)) \in 0..3
<1> DEFINE loop == IF FullWaits(ms) > 1 THEN <<Branch(FullWaits(ms) - 1, word)>> ELSE <<>>
           full == IF FullWaits(ms) > 0 THEN <<Wait(MaxStep)>> \o loop ELSE <<>>
           last == IF LastWait(ms) > 0 THEN <<Wait(LastWait(ms))>> ELSE <<>>
<1>1. FullWaits(ms) \in 0..63 /\ LastWait(ms) \in 0..62
  BY WaitsBounded
<1>2. \A from \in Nat : Fits(last, from) /\ Len(last) \in 0..1
  <2> TAKE from \in Nat
  <2>1. CASE LastWait(ms) > 0
    <3>1. LastWait(ms) \in 1..63
      BY <1>1, <2>1
    <3>2. Wait(LastWait(ms)) \in Nat /\ Command(Wait(LastWait(ms)), from)
      BY <3>1, WaitWord DEF Command
    <3> QED
      BY <2>1, <3>2, OneWord
  <2>2. CASE ~(LastWait(ms) > 0)
    BY <2>2, NoWord
  <2> QED
    BY <2>1, <2>2
<1>3. Fits(loop, word + 1) /\ Len(loop) \in 0..1
  <2>1. CASE FullWaits(ms) > 1
    <3> DEFINE n == FullWaits(ms) - 1
    <3>1. n > 0 /\ n \in 0..63 /\ word \in 0..15 /\ word < word + 1
      BY <1>1, <2>1
    <3> DEFINE b == Branch(n, word)
    <3>2. b \in Nat /\ IsBranch(b) /\ CountOf(b) = n /\ TargetOf(b) = word
      BY <3>1, BranchWord, ZenonT(30)
    <3> HIDE DEF b
    <3>3. b \in Nat /\ Command(b, word + 1)
      BY <3>1, <3>2 DEF Command
    <3> USE DEF b
    <3>4. word + 1 \in Nat
      BY <3>1
    <3> QED
      BY <2>1, <3>3, <3>4, OneWord
  <2>2. CASE ~(FullWaits(ms) > 1)
    BY <2>2, NoWord
  <2> QED
    BY <2>1, <2>2
<1>4. Fits(full, word) /\ Len(full) \in 0..2
  <2>1. CASE FullWaits(ms) > 0
    <3>1. Wait(MaxStep) \in Nat /\ Command(Wait(MaxStep), word)
      BY WaitWord DEF Command, MaxStep
    <3>2. Fits(<<Wait(MaxStep)>>, word) /\ Len(<<Wait(MaxStep)>>) = 1
      BY <3>1, OneWord
    <3> HIDE DEF loop
    <3> DEFINE one == <<Wait(MaxStep)>>
    <3>3. full = one \o loop
      BY <2>1
    <3> HIDE DEF one, full
    <3>4. Fits(one, word) /\ Len(one) = 1 /\ word \in Nat
      BY <3>2 DEF one
    <3>5. Fits(loop, word + Len(one))
      BY <3>4, <1>3
    <3>6. Fits(one \o loop, word) /\ Len(one \o loop) = Len(one) + Len(loop)
      BY <3>4, <3>5, FitsTogether
    <3> QED
      BY <1>3, <3>3, <3>4, <3>6
  <2>2. CASE ~(FullWaits(ms) > 0)
    BY <2>2, NoWord
  <2> QED
    BY <2>1, <2>2
<1>5. Hold(word, ms) = full \o last
  BY DEF Hold
<1> HIDE DEF full, last, loop
<1>6. Fits(last, word + Len(full)) /\ Len(last) \in 0..1
  BY <1>2, <1>4
<1> QED
  BY <1>4, <1>5, <1>6, FitsTogether

\* Lengths, kept apart from the sequences they are lengths of.
LEMMA Lengths ==
  /\ \A n \in 0..13 : n \in Nat /\ n + 1 \in 1..15 /\ n + 1 \in Nat
  /\ \A l \in Nat, h \in 0..3 : l + 1 + h \in (l + 1)..(l + 4)
  /\ \A m : m \in (0 + 1)..(0 + 4) => m \in 1..4 /\ m \in 0..13
  /\ \A n \in 1..4 : \A m : m \in (n + 1)..(n + 4) =>
       m \in 2..8 /\ m \in 1..14 /\ m \in Nat /\ m > 0 /\ 0 + m = m
  /\ \A m \in 2..8, k \in 0..1 : m + k \in 2..9 /\ m + k \in 0..13
  /\ \A n \in 2..9 : \A m : m \in (n + 1)..(n + 4) => m \in 1..14
  /\ \A l \in 1..14 : /\ l \in Nat /\ l + 2 \in 3..16 /\ l + 2 - 1 = l + 1
                      /\ l + 2 - 2 = l
  /\ 0 \in 0..13 /\ 0 \in 0..255 /\ 0 \in Nat
  OBVIOUS

\* A light and its time are one to four commands more.
LEMMA ThenFits ==
  ASSUME NEW p, Fits(p, 0), Len(p) \in 0..13, NEW v \in 0..255,
         NEW ms \in U32, InRange(ms)
  PROVE  /\ Fits(Then(p, v, ms), 0)
         /\ Len(Then(p, v, ms)) \in (Len(p) + 1)..(Len(p) + 4)
<1>1. Len(p) \in Nat /\ Len(p) + 1 \in Nat /\ Len(p) + 1 \in 1..15
  BY Lengths
<1> DEFINE set == <<SetPwm(v)>>
           hold == Hold(Len(p) + 1, ms)
<1>2. Fits(set, Len(p)) /\ Len(set) = 1
  <2>1. SetPwm(v) \in Nat /\ Command(SetPwm(v), Len(p))
    BY SetWord, ZenonT(30) DEF Command
  <2> QED
    BY <1>1, <2>1, OneWord
<1>3. Fits(hold, Len(p) + 1) /\ Len(hold) \in 0..3
  BY <1>1, HoldFits
<1>4. Then(p, v, ms) = (p \o set) \o hold
  BY DEF Then
<1> HIDE DEF set, hold
<1>5. Fits(p \o set, 0) /\ Len(p \o set) = Len(p) + 1
  <2>1. 0 \in Nat /\ Fits(set, 0 + Len(p))
    BY <1>1, <1>2
  <2>2. Fits(p \o set, 0) /\ Len(p \o set) = Len(p) + Len(set)
    BY <2>1, FitsTogether
  <2> QED
    BY <1>2, <2>2
<1>6. /\ Fits((p \o set) \o hold, 0)
      /\ Len((p \o set) \o hold) = Len(p \o set) + Len(hold)
  <2>1. 0 \in Nat /\ Fits(hold, 0 + Len(p \o set))
    BY <1>1, <1>3, <1>5
  <2> QED
    BY <2>1, <1>5, FitsTogether
<1>7. Len(Then(p, v, ms)) = Len(p) + 1 + Len(hold)
  BY <1>4, <1>5, <1>6
<1>8. Len(Then(p, v, ms)) \in (Len(p) + 1)..(Len(p) + 4)
  <2>1. \A n \in Nat : \A k \in 0..3 : n + 1 + k \in (n + 1)..(n + 4)
    BY SMT
  <2> QED
    BY <1>1, <1>3, <1>7, <2>1
<1> QED
  BY <1>4, <1>6, <1>8

\* What every blinking program looks like: commands, the endless branch, End.
Blinker(p) ==
  /\ p \in Seq(Nat) /\ Len(p) \in 3..Room
  /\ p[Len(p)] = End /\ p[Len(p) - 1] = Branch(0, 0)
  /\ \A i \in 1..(Len(p) - 2) : Command(p[i], i - 1)

\* No blinking program is longer than the memory.
LEMMA BlinkerLength == \A p : Blinker(p) => Len(p) <= Room
<1>1. \A p : Blinker(p) => Len(p) \in 3..Room
  BY DEF Blinker
<1>2. \A n \in 3..Room : n <= Room
  BY DEF Room
<1> QED
  BY <1>1, <1>2

\* The two words at the end of a blink.
LEMMA RestartWords ==
  /\ Restart \in Seq(Nat) /\ Len(Restart) = 2
  /\ Restart[1] = Branch(0, 0) /\ Restart[2] = End
<1>1. Branch(0, 0) \in Nat
  BY SMT DEF Branch
<1>2. End \in Nat
  BY DEF End
<1> QED
  BY <1>1, <1>2 DEF Restart

\* What appending two words does.
LEMMA TwoMore ==
  ASSUME NEW p \in Seq(Nat), NEW r \in Seq(Nat), Len(r) = 2
  PROVE  /\ p \o r \in Seq(Nat) /\ Len(p \o r) = Len(p) + 2
         /\ (p \o r)[Len(p) + 1] = r[1] /\ (p \o r)[Len(p) + 2] = r[2]
         /\ \A i \in 1..Len(p) : (p \o r)[i] = p[i]
<1>1. Len(p) \in Nat /\ p \o r \in Seq(Nat) /\ Len(p \o r) = Len(p) + 2
  <2>1. Len(p) \in Nat
    BY LenProperties
  <2>2. p \o r \in Seq(Nat) /\ Len(p \o r) = Len(p) + Len(r)
    BY ConcatProperties
  <2> QED
    BY <2>1, <2>2
<1>2. \A i \in 1..Len(p) : (p \o r)[i] = p[i]
  OBVIOUS
<1>3. (p \o r)[Len(p) + 1] = r[1]
  BY <1>1
<1>4. (p \o r)[Len(p) + 2] = r[2]
  BY <1>1
<1> QED
  BY <1>1, <1>2, <1>3, <1>4

\* Commands followed by the restart are a blinking program.
LEMMA RestartFits ==
  ASSUME NEW p, Fits(p, 0), Len(p) \in 1..14
  PROVE  Blinker(p \o Restart)
<1>1. p \in Seq(Nat) /\ \A i \in 1..Len(p) : Command(p[i], i - 1)
  <2>1. \A i \in Int : 0 + i - 1 = i - 1
    OBVIOUS
  <2> QED
    BY <2>1 DEF Fits
<1> HIDE DEF Restart
<1> DEFINE q == p \o Restart
           l == Len(p)
<1>2. l \in Nat /\ l + 2 \in 3..16 /\ l + 2 - 1 = l + 1 /\ l + 2 - 2 = l
  BY Lengths
<1>3. q \in Seq(Nat) /\ Len(q) = l + 2 /\ q[l + 1] = Branch(0, 0) /\ q[l + 2] = End
      /\ \A i \in 1..l : q[i] = p[i]
  BY <1>1, RestartWords, TwoMore
<1> HIDE DEF q, l
<1>4. Blinker(q)
  BY <1>1, <1>2, <1>3 DEF Blinker, Room, l
<1> QED
  BY <1>4 DEF q

\* The branch that repeats a sequence, where it is needed.
LEMMA RepeatFits ==
  ASSUME NEW n \in 0..64, NEW word \in Nat, word > 0
  PROVE  Fits(Repeat(n), word) /\ Len(Repeat(n)) \in 0..1
<1>1. CASE n > 1
  <2> DEFINE b == Branch(n - 1, 0)
  <2>1. n - 1 \in 0..63 /\ n - 1 > 0 /\ 0 \in 0..15
    BY <1>1
  <2>2. b \in Nat /\ IsBranch(b) /\ CountOf(b) = n - 1 /\ TargetOf(b) = 0
    BY <2>1, BranchWord, ZenonT(30)
  <2> HIDE DEF b
  <2>3. Command(b, word)
    BY <2>1, <2>2 DEF Command
  <2>4. Repeat(n) = <<b>>
    BY <1>1 DEF Repeat, b
  <2> QED
    BY <2>2, <2>3, <2>4, OneWord
<1>2. CASE ~(n > 1)
  BY <1>2, NoWord DEF Repeat
<1> QED
  BY <1>1, <1>2

\* led_setBlink's action.
LEMMA BlinkProgram ==
  ASSUME NEW on \in U32, NEW off \in U32, InRange(on), InRange(off),
         NEW v \in 0..255
  PROVE  Blinker(Then(Then(<<>>, v, on), 0, off) \o Restart)
<1> DEFINE p == Then(<<>>, v, on)
           q == Then(p, 0, off)
<1>1. Fits(<<>>, 0) /\ Len(<<>>) = 0
  BY NoWord
<1>2. Fits(p, 0) /\ Len(p) \in (0 + 1)..(0 + 4)
  BY <1>1, ThenFits, Lengths
<1> HIDE DEF p
<1>3. Len(p) \in 1..4 /\ Len(p) \in 0..13 /\ 0 \in 0..255
  BY <1>2, Lengths
<1>4. Fits(q, 0) /\ Len(q) \in (Len(p) + 1)..(Len(p) + 4)
  BY <1>2, <1>3, ThenFits
<1> HIDE DEF q
<1>5. Len(q) \in 1..14
  BY <1>3, <1>4, Lengths
<1>6. Blinker(q \o Restart)
  BY <1>4, <1>5, RestartFits
<1> QED
  BY <1>6 DEF p, q

\* led_setBlinkSequence's action.
LEMMA SequenceProgram ==
  ASSUME NEW on \in U32, NEW off1 \in U32, NEW off2 \in U32, NEW n \in 0..64,
         InRange(on), InRange(off1), InRange(off2), NEW v \in 0..255
  PROVE  Blinker(Then(Then(Then(<<>>, v, on), 0, off1) \o Repeat(n), 0, off2)
                 \o Restart)
<1> DEFINE p == Then(<<>>, v, on)
           q == Then(p, 0, off1)
           r == q \o Repeat(n)
           s == Then(r, 0, off2)
<1>1. Fits(<<>>, 0) /\ Len(<<>>) = 0
  BY NoWord
<1>2. Fits(p, 0) /\ Len(p) \in (0 + 1)..(0 + 4)
  BY <1>1, ThenFits, Lengths
<1> HIDE DEF p
<1>3. Len(p) \in 1..4 /\ Len(p) \in 0..13 /\ 0 \in 0..255
  BY <1>2, Lengths
<1>4. Fits(q, 0) /\ Len(q) \in (Len(p) + 1)..(Len(p) + 4)
  BY <1>2, <1>3, ThenFits
<1> HIDE DEF q
<1>5. Len(q) \in 2..8 /\ Len(q) \in Nat /\ Len(q) > 0 /\ 0 + Len(q) = Len(q) /\ 0 \in Nat
  BY <1>3, <1>4, Lengths
<1>6. Fits(Repeat(n), 0 + Len(q)) /\ Len(Repeat(n)) \in 0..1
  BY <1>5, RepeatFits
<1>7. Fits(r, 0) /\ Len(r) = Len(q) + Len(Repeat(n))
  BY <1>4, <1>5, <1>6, FitsTogether
<1> HIDE DEF r
<1>8. Len(r) \in 0..13 /\ Len(r) \in 2..9
  <2>1. Len(q) + Len(Repeat(n)) \in 2..9 /\ Len(q) + Len(Repeat(n)) \in 0..13
    BY <1>5, <1>6, Lengths
  <2> QED
    BY <1>7, <2>1
<1>9. Fits(s, 0) /\ Len(s) \in (Len(r) + 1)..(Len(r) + 4)
  BY <1>3, <1>7, <1>8, ThenFits, ZenonT(30)
<1> HIDE DEF s
<1>10. Len(s) \in 1..14
  BY <1>8, <1>9, Lengths
<1>11. Blinker(s \o Restart)
  BY <1>9, <1>10, RestartFits
<1> QED
  BY <1>11 DEF p, q, r, s

Blinking(a) == a.type \in {"BLINK", "SEQ_BLINK"}

\* What an accepted action is compiled into.
LEMMA Compiled ==
  ASSUME NEW a \in Action, Accepted(a), NEW v \in 0..255
  PROVE  /\ Blinking(a) => Blinker(Program(a, v))
         /\ ~Blinking(a) => /\ a.type \in {"ON", "OFF"}
                            /\ Program(a, v) = <<SetPwm(IF a.type = "ON" THEN v ELSE 0), End>>
<1>1. CASE a.type = "BLINK"
  <2>1. a.on \in U32 /\ a.off \in U32 /\ InRange(a.on) /\ InRange(a.off)
    BY <1>1 DEF Action, Accepted
  <2>2. Program(a, v) = Then(Then(<<>>, v, a.on), 0, a.off) \o Restart
    BY <1>1 DEF Program
  <2> QED
    BY <1>1, <2>1, <2>2, BlinkProgram, ZenonT(30) DEF Blinking
<1>2. CASE a.type = "SEQ_BLINK"
  <2>1. /\ a.on \in U32 /\ a.off1 \in U32 /\ a.off2 \in U32 /\ a.count \in U32
        /\ InRange(a.on) /\ InRange(a.off1) /\ InRange(a.off2) /\ a.count <= 64
    BY <1>2 DEF Action, Accepted, MaxLoop
  <2>2. \A n \in U32 : n <= 64 => n \in 0..64
    BY WordIsLarge DEF U32
  <2>3. Program(a, v) =
          Then(Then(Then(<<>>, v, a.on), 0, a.off1) \o Repeat(a.count), 0, a.off2)
          \o Restart
    BY <1>2 DEF Program
  <2>4. a.count \in 0..64
    BY <2>1, <2>2
  <2> DEFINE on == a.on
             off1 == a.off1
             off2 == a.off2
             n == a.count
  <2> HIDE DEF on, off1, off2, n
  <2>5. Blinker(Then(Then(Then(<<>>, v, on), 0, off1) \o Repeat(n), 0, off2)
                \o Restart)
    BY <2>1, <2>4, SequenceProgram, ZenonT(30) DEF on, off1, off2, n
  <2> QED
    BY <1>2, <2>3, <2>5 DEF Blinking, on, off1, off2, n
<1>3. CASE ~Blinking(a)
  <2>1. a.type \in {"ON", "OFF"}
    BY <1>3 DEF Blinking, Action
  <2> QED
    BY <1>3, <2>1 DEF Blinking, Program
<1> QED
  BY <1>1, <1>2, <1>3 DEF Blinking

\* The engine is in the program of the action: never at the End of a blink, and
\* at the End of a steady light once that is shown.
IInv ==
  /\ action \in Action /\ pwm \in 0..255
  /\ IF Blinking(action)
       THEN Blinker(program) /\ at \in 0..(Len(program) - 2)
       ELSE LET shown == IF action.type = "ON" THEN pwm ELSE 0
            IN /\ action.type \in {"ON", "OFF"}
               /\ program = <<SetPwm(shown), End>> /\ at \in 0..1
               /\ at = 1 => light = shown

\* The end of a program is none of the other commands.
LEMMA EndIsNoCommand ==
  ~IsSet(End) /\ ~IsWait(End) /\ ~IsBranch(End)
  BY SMT DEF End, IsSet, IsWait, IsBranch

\* Setting the brightness is none of the other commands.
LEMMA SetIsOneCommand ==
  \A v \in 0..255 : /\ IsSet(SetPwm(v)) /\ ~IsWait(SetPwm(v))
                    /\ ~IsBranch(SetPwm(v)) /\ SetPwm(v) % 256 = v
                    /\ SetPwm(v) # End
  BY SMT DEF SetPwm, End, IsSet, IsWait, IsBranch

\* The endless branch is none of the other commands.
LEMMA RestartIsBranch ==
  /\ ~IsSet(Branch(0, 0)) /\ ~IsWait(Branch(0, 0)) /\ IsBranch(Branch(0, 0))
  /\ CountOf(Branch(0, 0)) = 0 /\ TargetOf(Branch(0, 0)) = 0
  /\ Branch(0, 0) # End
  BY SMT DEF Branch, End, IsSet, IsWait, IsBranch, CountOf, TargetOf

\* The boot loader's light is a steady one.
LEMMA IInvInit == Init => IInv
<1> SUFFICES ASSUME Init PROVE IInv
  OBVIOUS
<1>1. action \in Action /\ ~Blinking(action) /\ action.type \in {"ON", "OFF"}
      /\ Accepted(action)
  BY DEF Init, Action, Blinking, Accepted
<1>2. pwm \in 0..255
  BY LpAssumption DEF Init
<1>3. program = <<SetPwm(IF action.type = "ON" THEN pwm ELSE 0), End>>
  <2>1. program = Program(action, pwm)
    BY DEF Init
  <2> QED
    BY <1>1, <1>2, <2>1, Compiled, ZenonT(30)
<1>4. at = 0
  BY DEF Init
<1> QED
  BY <1>1, <1>2, <1>3, <1>4 DEF IInv

\* What is loaded is the program of the action applied.
LEMMA IInvApply == IInv /\ Apply => IInv'
<1> SUFFICES ASSUME NEW a \in Asked, NEW v \in Lights, Accepted(a), Load(a, v)
             PROVE  IInv'
  BY DEF Apply
<1>1. a \in Action /\ v \in 0..255
  BY LpAssumption
<1>2. action' = a /\ pwm' = v /\ program' = Program(a, v) /\ at' = 0
  BY DEF Load
<1>3. CASE Blinking(a)
  <2>1. Blinker(program')
    BY <1>1, <1>2, <1>3, Compiled, ZenonT(30)
  <2>2. 0 \in 0..(Len(program') - 2)
    BY <2>1 DEF Blinker
  <2> QED
    BY <1>1, <1>2, <1>3, <2>1, <2>2 DEF IInv
<1>4. CASE ~Blinking(a)
  <2>1. a.type \in {"ON", "OFF"}
        /\ program' = <<SetPwm(IF a.type = "ON" THEN v ELSE 0), End>>
    BY <1>1, <1>2, <1>4, Compiled, ZenonT(30)
  <2> QED
    BY <1>1, <1>2, <1>4, <2>1 DEF IInv
<1> QED
  BY <1>3, <1>4

\* The program counter stays inside the program, and before its End.
LEMMA IInvEngine == IInv /\ Engine => IInv'
<1> SUFFICES ASSUME IInv, Engine PROVE IInv'
  OBVIOUS
<1>1. UNCHANGED <<action, pwm, program>>
  BY DEF Engine, Set, Sleep, Jump, askVars
<1>2. CASE Blinking(action)
  <2>1. Blinker(program) /\ at \in 0..(Len(program) - 2)
    BY <1>2 DEF IInv
  <2>2. Here = program[at + 1]
    BY <2>1 DEF Here, Blinker
  <2>3. CASE at = Len(program) - 2
    <3>1. Here = Branch(0, 0)
      <4>1. at + 1 = Len(program) - 1
        BY <2>1, <2>3 DEF Blinker
      <4> QED
        BY <2>1, <2>2, <4>1 DEF Blinker
    <3>2. at' = 0
      BY <3>1, RestartIsBranch DEF Engine, Set, Sleep, Jump
    <3> QED
      BY <1>1, <1>2, <2>1, <3>2 DEF IInv, Blinker
  <2>4. CASE at # Len(program) - 2
    <3>1. at \in Nat /\ at + 1 \in 1..(Len(program) - 2) /\ at + 1 - 1 = at
      BY <2>1, <2>4 DEF Blinker
    <3>2. Command(Here, at)
      BY <2>1, <2>2, <3>1 DEF Blinker
    <3>3. Here \in Nat
      <4>1. program \in Seq(Nat)
        BY <2>1 DEF Blinker
      <4>2. at + 1 \in 1..Len(program)
        <5> DEFINE l == Len(program)
        <5>1. l \in Nat
          BY <4>1
        <5> HIDE DEF l
        <5>2. at + 1 \in 1..l
          BY <3>1, <5>1 DEF l
        <5> QED
          BY <5>2 DEF l
      <4> QED
        BY <2>2, <4>1, <4>2
    <3>4. TargetOf(Here) \in Nat
      BY <3>3, SMT DEF TargetOf
    <3>5. at' = at + 1 \/ (IsBranch(Here) /\ at' = TargetOf(Here))
      BY DEF Engine, Set, Sleep, Jump
    <3>6. IsBranch(Here) => TargetOf(Here) < at
      <4>1. IsBranch(Here) => ~IsSet(Here) /\ ~IsWait(Here)
        BY <3>3, SMT DEF IsBranch, IsSet, IsWait
      <4> QED
        BY <3>2, <4>1 DEF Command
    <3>7. \A a, t, l \in Nat :
            a + 1 \in 1..(l - 2) => /\ a + 1 \in 0..(l - 2)
                                    /\ t < a => t \in 0..(l - 2)
      OBVIOUS
    <3>8. Len(program) \in Nat
      BY <2>1 DEF Blinker
    <3>9. at' \in 0..(Len(program) - 2)
      BY <3>1, <3>4, <3>5, <3>6, <3>7, <3>8
    <3> QED
      BY <1>1, <1>2, <2>1, <3>9 DEF IInv
  <2> QED
    BY <2>3, <2>4
<1>3. CASE ~Blinking(action)
  <2> DEFINE shown == IF action.type = "ON" THEN pwm ELSE 0
  <2>1. /\ action.type \in {"ON", "OFF"} /\ program = <<SetPwm(shown), End>>
        /\ at \in 0..1 /\ shown \in 0..255
    BY <1>3 DEF IInv
  <2> HIDE DEF shown
  <2>2. Len(program) = 2 /\ program[1] = SetPwm(shown) /\ program[2] = End
    BY <2>1
  <2>3. CASE at = 1
    <3>1. Here = End
      BY <2>2, <2>3 DEF Here
    <3> QED
      BY <3>1, EndIsNoCommand DEF Engine, Set, Sleep, Jump
  <2>4. CASE at = 0
    <3>1. Here = SetPwm(shown)
      BY <2>2, <2>4 DEF Here
    <3>2. IsSet(Here) /\ ~IsWait(Here) /\ ~IsBranch(Here) /\ Here % 256 = shown
      BY <2>1, <3>1, SetIsOneCommand, ZenonT(30)
    <3>3. light' = Here % 256 /\ at' = at + 1
      BY <3>2 DEF Engine, Set, Sleep, Jump
    <3>4. light' = shown /\ at' = 1
      BY <2>4, <3>2, <3>3
    <3> QED
      BY <1>1, <1>3, <2>1, <3>4 DEF IInv, shown
  <2> QED
    BY <2>1, <2>3, <2>4
<1> QED
  BY <1>2, <1>3

\* The invariant holds for ever.
LEMMA EngineInvariance == Spec => []IInv
<1>1. IInv /\ [Next]_vars => IInv'
  <2>1. IInv /\ UNCHANGED vars => IInv'
    BY DEF IInv, vars, askVars
  <2> QED
    BY <2>1, IInvApply, IInvEngine DEF Next
<1> QED
  BY <1>1, IInvInit, PTL DEF Spec

\* Whatever is asked for, wrapped times included: an accepted action compiles into
\* whole commands of the engine that fit its memory.
THEOREM ProgramsFit == Spec => []ProgramFits
<1>1. IInv => ProgramFits
  <2> SUFFICES ASSUME IInv PROVE ProgramFits
    OBVIOUS
  <2>1. CASE Blinking(action)
    <3>1. Blinker(program)
      BY <2>1 DEF IInv
    <3>2. ASSUME NEW i \in 1..Len(program) PROVE WordFits(program[i], i - 1)
      <4>1. Len(program) \in Nat
        BY <3>1 DEF Blinker
      <4>2. CASE i \in 1..(Len(program) - 2)
        BY <3>1, <4>2 DEF Blinker, Command, WordFits
      <4>3. CASE i = Len(program) - 1
        <5>1. program[i] = Branch(0, 0)
          BY <3>1, <4>3 DEF Blinker
        <5>2. 0 < i - 1
          BY <3>1, <4>3 DEF Blinker
        <5> QED
          BY <5>1, <5>2, RestartIsBranch DEF WordFits
      <4>4. CASE i = Len(program)
        BY <3>1, <4>4 DEF Blinker, WordFits
      <4> QED
        BY <4>1, <4>2, <4>3, <4>4
    <3>3. Len(program) <= Room
      BY <3>1, BlinkerLength
    <3> QED
      BY <3>2, <3>3 DEF ProgramFits
  <2>2. CASE ~Blinking(action)
    <3> DEFINE shown == IF action.type = "ON" THEN pwm ELSE 0
    <3>1. program = <<SetPwm(shown), End>> /\ shown \in 0..255
      BY <2>2 DEF IInv
    <3> HIDE DEF shown
    <3>2. Len(program) = 2 /\ program[1] = SetPwm(shown) /\ program[2] = End
      BY <3>1
    <3>3. WordFits(program[1], 0) /\ WordFits(program[2], 1)
      <4>1. IsSet(SetPwm(shown))
        BY <3>1, SetIsOneCommand, ZenonT(30)
      <4> QED
        BY <3>2, <4>1 DEF WordFits
    <3> QED
      BY <3>2, <3>3 DEF ProgramFits, Room
  <2> QED
    BY <2>1, <2>2
<1> QED
  BY <1>1, EngineInvariance, PTL

\* The engine stops only on a steady light, which it then shows.
THEOREM NeverStopsInABlink == Spec => []StopsWhenSteady
<1>1. IInv => StopsWhenSteady
  <2> SUFFICES ASSUME IInv, Here = End
               PROVE  /\ action.type \in {"ON", "OFF"}
                      /\ light = IF action.type = "ON" THEN pwm ELSE 0
    BY DEF StopsWhenSteady
  <2>1. ~Blinking(action)
    <3> SUFFICES ASSUME Blinking(action) PROVE FALSE
      OBVIOUS
    <3>1. Blinker(program) /\ at \in 0..(Len(program) - 2)
      BY DEF IInv
    <3>2. Here = program[at + 1] /\ at + 1 \in 1..(Len(program) - 1) /\ at + 1 - 1 = at
      BY <3>1 DEF Here, Blinker
    <3>3. CASE at + 1 = Len(program) - 1
      BY <3>1, <3>2, <3>3, RestartIsBranch DEF Blinker
    <3>4. CASE at + 1 \in 1..(Len(program) - 2)
      <4>1. Command(End, at)
        BY <3>1, <3>2, <3>4 DEF Blinker
      <4> QED
        BY <4>1, EndIsNoCommand DEF Command
    <3> QED
      BY <3>1, <3>2, <3>3, <3>4 DEF Blinker
  <2> DEFINE shown == IF action.type = "ON" THEN pwm ELSE 0
  <2>2. /\ action.type \in {"ON", "OFF"} /\ program = <<SetPwm(shown), End>>
        /\ at \in 0..1 /\ shown \in 0..255 /\ (at = 1 => light = shown)
    BY <2>1 DEF IInv
  <2> HIDE DEF shown
  <2>3. Len(program) = 2 /\ program[1] = SetPwm(shown)
    BY <2>2
  <2>4. at # 0
    <3> SUFFICES ASSUME at = 0 PROVE FALSE
      OBVIOUS
    <3>1. Here = SetPwm(shown)
      BY <2>3 DEF Here
    <3> QED
      BY <2>2, <3>1, SetIsOneCommand, ZenonT(30)
  <2>5. at = 1
    BY <2>2, <2>4
  <2> QED
    BY <2>2, <2>5 DEF shown
<1> QED
  BY <1>1, EngineInvariance, PTL
-----------------------------------------------------------------------------
(* What a hold shows: the words of a light, read back from the program.    *)

\* How many words the longest wait and its loop take, and a whole hold.
Loops(n)      == IF n = 0 THEN 0 ELSE IF n = 1 THEN 1 ELSE 2
HoldLen(ms)   == Loops(FullWaits(ms)) + (IF LastWait(ms) > 0 THEN 1 ELSE 0)
After(s, ms)  == s + 1 + HoldLen(ms)

\* At word s of p the light is set to v, and held for ms.
Shows(p, s, v, ms) ==
  /\ p[s + 1] = SetPwm(v)
  /\ FullWaits(ms) > 0 => p[s + 2] = Wait(MaxStep)
  /\ FullWaits(ms) > 1 => p[s + 3] = Branch(FullWaits(ms) - 1, s + 1)
  /\ LastWait(ms) > 0  => p[s + 2 + Loops(FullWaits(ms))] = Wait(LastWait(ms))

\* What is appended comes after what was there.
LEMMA Appended ==
  ASSUME NEW p \in Seq(Nat), NEW q \in Seq(Nat)
  PROVE  /\ p \o q \in Seq(Nat) /\ Len(p \o q) = Len(p) + Len(q)
         /\ Len(p) \in Nat /\ Len(q) \in Nat
         /\ \A i \in 1..Len(p) : (p \o q)[i] = p[i]
         /\ \A i \in 1..Len(q) : (p \o q)[Len(p) + i] = q[i]
<1>1. Len(p) \in Nat /\ Len(q) \in Nat /\ p \o q \in Seq(Nat)
      /\ Len(p \o q) = Len(p) + Len(q)
  BY LenProperties, ConcatProperties
<1>2. \A i \in 1..Len(p) : (p \o q)[i] = p[i]
  BY <1>1
<1>3. \A i \in 1..Len(q) : (p \o q)[Len(p) + i] = q[i]
  BY <1>1
<1> QED
  BY <1>1, <1>2, <1>3

\* One word or none.
LEMMA Short ==
  ASSUME NEW w \in Nat
  PROVE  /\ <<w>> \in Seq(Nat) /\ Len(<<w>>) = 1 /\ <<w>>[1] = w
         /\ <<>> \in Seq(Nat) /\ Len(<<>>) = 0
  OBVIOUS

\* The loop of a hold takes no word, one or two.
LEMMA LoopsNumber ==
  \A n \in 0..63 : /\ Loops(n) \in 0..2 /\ (n = 0 => Loops(n) = 0)
                   /\ (n = 1 => Loops(n) = 1) /\ (n > 1 => Loops(n) = 2)
                   /\ (n > 0 => Loops(n) >= 1)
  BY DEF Loops

\* The words of a hold, one by one.
LEMMA HoldWords ==
  ASSUME NEW ms \in U32, InRange(ms), NEW word \in 1..15
  PROVE  /\ Hold(word, ms) \in Seq(Nat) /\ Len(Hold(word, ms)) = HoldLen(ms)
         /\ FullWaits(ms) > 0 => Hold(word, ms)[1] = Wait(MaxStep)
         /\ FullWaits(ms) > 1 => Hold(word, ms)[2] = Branch(FullWaits(ms) - 1, word)
         /\ LastWait(ms) > 0 =>
              Hold(word, ms)[1 + Loops(FullWaits(ms))] = Wait(LastWait(ms))
<1> DEFINE F == FullWaits(ms)
           L == LastWait(ms)
           w == Wait(MaxStep)
           b == Branch(F - 1, word)
           l == Wait(L)
           loop == IF F > 1 THEN <<b>> ELSE <<>>
           full == IF F > 0 THEN <<w>> \o loop ELSE <<>>
           last == IF L > 0 THEN <<l>> ELSE <<>>
           h == full \o last
<1>1. F \in 0..63 /\ L \in 0..62
  BY WaitsBounded
<1>2. w \in Nat /\ l \in Nat
  BY <1>1, SMT DEF Wait, MaxStep
<1>3. b \in Nat
  BY <1>1, SMT DEF Branch
<1>4. Hold(word, ms) = h
  BY DEF Hold
<1>5. HoldLen(ms) = Loops(F) + (IF L > 0 THEN 1 ELSE 0)
  BY DEF HoldLen
<1> HIDE DEF w, b, l, F, L
<1>6. /\ Loops(F) \in 0..2 /\ (F = 0 => Loops(F) = 0)
      /\ (F = 1 => Loops(F) = 1) /\ (F > 1 => Loops(F) = 2)
  BY <1>1, LoopsNumber
<1>7. loop \in Seq(Nat) /\ Len(loop) = (IF F > 1 THEN 1 ELSE 0) /\ (F > 1 => loop[1] = b)
  BY <1>3, Short
<1> HIDE DEF loop
<1>8. /\ full \in Seq(Nat) /\ Len(full) = Loops(F)
      /\ F > 0 => full[1] = w
      /\ F > 1 => full[2] = b
  <2>1. CASE F = 0
    BY <1>2, <2>1, <1>6, Short
  <2>2. CASE F > 0
    <3> DEFINE one == <<w>>
               q == one \o loop
    <3>1. full = q
      BY <2>2
    <3>2. one \in Seq(Nat) /\ Len(one) = 1 /\ one[1] = w
      BY <1>2, Short
    <3> HIDE DEF one, full
    <3>3. /\ q \in Seq(Nat) /\ Len(q) = Len(one) + Len(loop)
          /\ \A i \in 1..Len(one) : q[i] = one[i]
          /\ \A i \in 1..Len(loop) : q[Len(one) + i] = loop[i]
      BY <3>2, <1>7, Appended
    <3> HIDE DEF q
    <3> DEFINE m == Len(loop)
               n == Len(q)
    <3>4. m = (IF F > 1 THEN 1 ELSE 0) /\ n = 1 + m
      BY <3>2, <3>3, <1>7
    <3>5. q[1] = w
      BY <3>2, <3>3
    <3> HIDE DEF m, n
    <3>6. F > 1 => 1 \in 1..m /\ 1 + 1 = 2
      BY <3>4
    <3>7. F > 1 => q[2] = b
      BY <3>2, <3>3, <3>6, <1>7 DEF m
    <3>8. n = Loops(F)
      BY <3>4, <1>1, <1>6, <2>2
    <3> QED
      BY <3>1, <3>3, <3>5, <3>7, <3>8 DEF n
  <2>3. F = 0 \/ F > 0
    BY <1>1
  <2> QED
    BY <2>1, <2>2, <2>3
<1>9. /\ last \in Seq(Nat) /\ Len(last) = (IF L > 0 THEN 1 ELSE 0)
      /\ L > 0 => last[1] = l
  BY <1>2, Short
<1> HIDE DEF full, last
<1>10. /\ h \in Seq(Nat) /\ Len(h) = Len(full) + Len(last)
       /\ \A i \in 1..Len(full) : h[i] = full[i]
       /\ \A i \in 1..Len(last) : h[Len(full) + i] = last[i]
  BY <1>8, <1>9, Appended
<1> HIDE DEF h
<1> DEFINE m == Len(full)
           n == Len(last)
<1>11. m = Loops(F) /\ n = IF L > 0 THEN 1 ELSE 0
  BY <1>8, <1>9
<1>12. Len(h) = m + n
  BY <1>10
<1> HIDE DEF m, n
<1>13. /\ F > 0 => 1 \in 1..m
       /\ F > 1 => 2 \in 1..m
       /\ L > 0 => 1 \in 1..n
       /\ m + 1 = 1 + Loops(F)
       /\ m + n = HoldLen(ms)
  BY <1>1, <1>5, <1>6, <1>11
<1>14. F > 0 => h[1] = w
  BY <1>13, <1>8, <1>10 DEF m
<1>15. F > 1 => h[2] = b
  <2>1. F > 1 => F > 0
    BY <1>1
  <2> QED
    BY <2>1, <1>13, <1>8, <1>10 DEF m
<1>16. L > 0 => h[m + 1] = l
  BY <1>13, <1>9, <1>10 DEF m, n
<1> QED
  BY <1>4, <1>10, <1>12, <1>13, <1>14, <1>15, <1>16 DEF w, b, l, F, L

\* How many words a hold takes.
LEMMA HoldLength ==
  ASSUME NEW ms \in U32, InRange(ms)
  PROVE  /\ HoldLen(ms) \in 0..3 /\ Loops(FullWaits(ms)) \in 0..2
         /\ HoldLen(ms) = Loops(FullWaits(ms)) + (IF LastWait(ms) > 0 THEN 1 ELSE 0)
         /\ (FullWaits(ms) > 0 => Loops(FullWaits(ms)) >= 1)
         /\ (FullWaits(ms) > 1 => Loops(FullWaits(ms)) = 2)
         /\ (FullWaits(ms) = 0 => Loops(FullWaits(ms)) = 0)
         /\ (FullWaits(ms) = 1 => Loops(FullWaits(ms)) = 1)
         /\ FullWaits(ms) \in 0..63 /\ LastWait(ms) \in 0..62
<1>1. FullWaits(ms) \in 0..63 /\ LastWait(ms) \in 0..62
  BY WaitsBounded
<1> DEFINE n == Loops(FullWaits(ms))
<1>2. /\ n \in 0..2 /\ (FullWaits(ms) > 0 => n >= 1) /\ (FullWaits(ms) > 1 => n = 2)
      /\ (FullWaits(ms) = 0 => n = 0) /\ (FullWaits(ms) = 1 => n = 1)
  BY <1>1, LoopsNumber
<1>3. HoldLen(ms) = n + (IF LastWait(ms) > 0 THEN 1 ELSE 0)
  BY DEF HoldLen
<1> HIDE DEF n
<1>4. HoldLen(ms) \in 0..3
  BY <1>2, <1>3
<1> QED
  BY <1>1, <1>2, <1>3, <1>4 DEF n

\* Then puts the light at the end, and keeps what is there.
LEMMA ThenShows ==
  ASSUME NEW p \in Seq(Nat), Len(p) \in 0..13, NEW v \in 0..255,
         NEW ms \in U32, InRange(ms)
  PROVE  /\ Then(p, v, ms) \in Seq(Nat) /\ Len(Then(p, v, ms)) = After(Len(p), ms)
         /\ \A i \in 1..Len(p) : Then(p, v, ms)[i] = p[i]
         /\ Shows(Then(p, v, ms), Len(p), v, ms)
<1> DEFINE s == Len(p)
           w == SetPwm(v)
           one == <<w>>
           h == Hold(s + 1, ms)
           q == p \o one
           F == FullWaits(ms)
           L == LastWait(ms)
           k == Loops(F)
           t == q \o h
<1>0. s \in 0..13 /\ Len(p) = s
  OBVIOUS
<1> HIDE DEF s
<1>1. /\ HoldLen(ms) \in 0..3 /\ k \in 0..2
      /\ HoldLen(ms) = k + (IF L > 0 THEN 1 ELSE 0)
      /\ (F > 0 => k >= 1) /\ (F > 1 => k = 2)
      /\ F \in 0..63 /\ L \in 0..62
  BY HoldLength
<1>2. /\ h \in Seq(Nat) /\ Len(h) = HoldLen(ms)
      /\ F > 0 => h[1] = Wait(MaxStep)
      /\ F > 1 => h[2] = Branch(F - 1, s + 1)
      /\ L > 0 => h[1 + k] = Wait(L)
  <2>1. s + 1 \in 1..15
    BY <1>0
  <2> QED
    BY <2>1, HoldWords
<1>3. w \in Nat
  BY SMT DEF SetPwm
<1>4. Then(p, v, ms) = t
  BY DEF Then, s
<1>5. one \in Seq(Nat) /\ Len(one) = 1 /\ one[1] = w
  BY <1>3, Short
<1> HIDE DEF w, h, one, F, L, k
<1>6. /\ q \in Seq(Nat) /\ Len(q) = s + 1
      /\ \A i \in 1..s : q[i] = p[i]
      /\ q[s + 1] = w
  <2>1. /\ q \in Seq(Nat) /\ Len(q) = Len(p) + Len(one)
        /\ \A i \in 1..Len(p) : q[i] = p[i]
        /\ \A i \in 1..Len(one) : q[Len(p) + i] = one[i]
    BY <1>5, Appended
  <2> HIDE DEF q
  <2> QED
    BY <2>1, <1>0, <1>5
<1> HIDE DEF q
<1>8. /\ t \in Seq(Nat) /\ Len(t) = s + 1 + HoldLen(ms)
      /\ \A i \in 1..(s + 1) : t[i] = q[i]
      /\ \A i \in 1..HoldLen(ms) : t[s + 1 + i] = h[i]
  <2>1. /\ t \in Seq(Nat) /\ Len(t) = Len(q) + Len(h)
        /\ \A i \in 1..Len(q) : t[i] = q[i]
        /\ \A i \in 1..Len(h) : t[Len(q) + i] = h[i]
    BY <1>2, <1>6, Appended
  <2> HIDE DEF t
  <2> QED
    BY <2>1, <1>2, <1>6
<1> HIDE DEF t
<1>9. /\ s + 1 \in 1..(s + 1) /\ \A i \in 1..s : i \in 1..(s + 1)
      /\ F > 0 => 1 \in 1..HoldLen(ms) /\ s + 1 + 1 = s + 2
      /\ F > 1 => 2 \in 1..HoldLen(ms) /\ s + 1 + 2 = s + 3
      /\ L > 0 => 1 + k \in 1..HoldLen(ms)
      /\ s + 1 + (1 + k) = s + 2 + k
  BY <1>0, <1>1
<1>10. t[s + 1] = w /\ \A i \in 1..s : t[i] = p[i]
  BY <1>6, <1>8, <1>9
<1>11. F > 0 => t[s + 2] = h[1]
  BY <1>8, <1>9
<1>12. F > 1 => t[s + 3] = h[2]
  BY <1>8, <1>9
<1>13. L > 0 => t[s + 2 + k] = h[1 + k]
  <2> HAVE L > 0
  <2>1. t[s + 1 + (1 + k)] = h[1 + k]
    BY <1>8, <1>9
  <2> QED
    BY <2>1, <1>9
<1>14. F > 1 => F > 0
  BY <1>1
<1>15. Shows(t, s, v, ms)
  BY <1>2, <1>10, <1>11, <1>12, <1>13, <1>14 DEF Shows, w, F, L, k
<1> QED
  BY <1>4, <1>8, <1>10, <1>15 DEF After, s

\* What is appended later changes nothing of it.
LEMMA ShowsStill ==
  ASSUME NEW p, NEW q, NEW s \in Nat, NEW v, NEW ms \in U32, InRange(ms),
         Shows(p, s, v, ms), NEW l \in Nat, After(s, ms) <= l, \A i \in 1..l : q[i] = p[i]
  PROVE  Shows(q, s, v, ms)
<1> DEFINE F == FullWaits(ms)
           k == Loops(F)
<1>1. /\ k \in 0..2 /\ F \in 0..63 /\ LastWait(ms) \in 0..62
      /\ HoldLen(ms) = k + (IF LastWait(ms) > 0 THEN 1 ELSE 0)
      /\ (F > 0 => k >= 1) /\ (F > 1 => k = 2)
  BY HoldLength
<1>2. s + 1 + HoldLen(ms) <= l
  BY DEF After
<1> HIDE DEF F, k
<1>3. /\ s + 1 \in 1..l /\ (F > 0 => s + 2 \in 1..l) /\ (F > 1 => s + 3 \in 1..l)
      /\ LastWait(ms) > 0 => s + 2 + k \in 1..l
  BY <1>1, <1>2
<1> QED
  BY <1>3 DEF Shows, F, k

-----------------------------------------------------------------------------
(* Where the lights of a program are.                                      *)

\* How long a blink is off between two lights, and how often it is lit.
OffTime(a)  == IF a.type = "BLINK" THEN a.off ELSE a.off1
Times(a)    == IF a.type = "BLINK" \/ a.count = 0 THEN 1 ELSE a.count

\* The word after word e, if a branch for n beats is at e.
Past(e, n)  == e + (IF n > 1 THEN 1 ELSE 0)

\* The words where the light goes off, where it has been off, where the beats are
\* counted (no word of memory if there is but one), where the rest begins, and
\* where the round is over.
DarkAt(a)   == After(0, a.on)
BeatEnd(a)  == After(DarkAt(a), OffTime(a))
RepeatAt(a) == IF Times(a) > 1 THEN BeatEnd(a) ELSE Room
RestAt(a)   == Past(BeatEnd(a), Times(a))
EndAt(a)    == IF a.type = "BLINK" THEN BeatEnd(a) ELSE After(RestAt(a), a.off2)

\* The program p shows a with brightness v.
LaidOut(p, a, v) ==
  /\ Len(p) = EndAt(a) + 2
  /\ Shows(p, 0, v, a.on)
  /\ Shows(p, DarkAt(a), 0, OffTime(a))
  /\ Times(a) > 1 => p[RepeatAt(a) + 1] = Branch(Times(a) - 1, 0)
  /\ a.type = "SEQ_BLINK" => Shows(p, RestAt(a), 0, a.off2)
  /\ p[EndAt(a) + 1] = Branch(0, 0)

\* Where a light that starts at word s ends.
LEMMA AfterRange ==
  ASSUME NEW ms \in U32, InRange(ms), NEW s \in Nat
  PROVE  After(s, ms) \in (s + 1)..(s + 4)
<1>1. HoldLen(ms) \in 0..3
  BY HoldLength
<1> QED
  BY <1>1 DEF After

\* The light and the dark of a beat.
LEMMA BeatShows ==
  ASSUME NEW on \in U32, NEW off \in U32, InRange(on), InRange(off), NEW v \in 0..255
  PROVE  LET d == After(0, on)
             e == After(d, off)
             p == Then(Then(<<>>, v, on), 0, off)
         IN  /\ p \in Seq(Nat) /\ Len(p) = e /\ d \in 1..4 /\ e \in 2..8 /\ d < e
             /\ Shows(p, 0, v, on) /\ Shows(p, d, 0, off)
<1> DEFINE d == After(0, on)
           e == After(d, off)
           q == Then(<<>>, v, on)
           p == Then(q, 0, off)
<1>1. d \in 1..4
  <2>1. d \in (0 + 1)..(0 + 4)
    BY AfterRange
  <2> HIDE DEF d
  <2> QED
    BY <2>1
<1>2. q \in Seq(Nat) /\ Len(q) = d /\ Shows(q, 0, v, on)
  <2>1. <<>> \in Seq(Nat) /\ Len(<<>>) = 0 /\ 0 \in 0..13
    OBVIOUS
  <2> QED
    BY <2>1, ThenShows, ZenonT(30)
<1>3. After(0, on) = d
  OBVIOUS
<1> HIDE DEF d, q
<1>4. e \in 2..8 /\ d < e
  <2>1. d \in Nat
    BY <1>1
  <2>2. e \in (d + 1)..(d + 4)
    BY <2>1, AfterRange
  <2> HIDE DEF e
  <2> QED
    BY <1>1, <2>2
<1>5. p \in Seq(Nat) /\ Len(p) = e /\ Shows(p, d, 0, off) /\ \A i \in 1..d : p[i] = q[i]
  <2>1. d \in 0..13 /\ 0 \in 0..255
    BY <1>1
  <2> QED
    BY <2>1, <1>2, ThenShows, ZenonT(30)
<1> HIDE DEF p
<1>6. Shows(p, 0, v, on)
  <2>1. 0 \in Nat /\ d \in Nat /\ After(0, on) <= d
    BY <1>1, <1>3
  <2> QED
    BY <2>1, <1>2, <1>5, ShowsStill
<1> QED
  BY <1>1, <1>4, <1>5, <1>6 DEF d, p, q

\* Words put after a light change nothing of it.
LEMMA ShowsBefore ==
  ASSUME NEW p \in Seq(Nat), NEW r \in Seq(Nat), NEW s \in Nat, NEW v,
         NEW ms \in U32, InRange(ms), Shows(p, s, v, ms), After(s, ms) <= Len(p)
  PROVE  Shows(p \o r, s, v, ms)
<1>1. Len(p) \in Nat /\ \A i \in 1..Len(p) : (p \o r)[i] = p[i]
  BY Appended
<1> QED
  BY <1>1, ShowsStill

\* The endless branch at the end.
LEMMA RestartShows ==
  ASSUME NEW p \in Seq(Nat)
  PROVE  Len(p \o Restart) = Len(p) + 2 /\ (p \o Restart)[Len(p) + 1] = Branch(0, 0)
<1> HIDE DEF Restart
<1>1. Restart \in Seq(Nat) /\ Len(Restart) = 2 /\ Restart[1] = Branch(0, 0)
  BY RestartWords
<1>2. /\ Len(p \o Restart) = Len(p) + Len(Restart)
      /\ \A i \in 1..Len(Restart) : (p \o Restart)[Len(p) + i] = Restart[i]
  BY <1>1, Appended
<1>3. 1 \in 1..Len(Restart)
  BY <1>1
<1> QED
  BY <1>1, <1>2, <1>3

\* led_setBlink's program, word by word.
LEMMA BlinkLayout ==
  ASSUME NEW on \in U32, NEW off \in U32, InRange(on), InRange(off), NEW v \in 0..255
  PROVE  LET d == After(0, on)
             e == After(d, off)
             p == Then(Then(<<>>, v, on), 0, off) \o Restart
         IN  /\ Len(p) = e + 2 /\ Shows(p, 0, v, on) /\ Shows(p, d, 0, off)
             /\ p[e + 1] = Branch(0, 0)
<1> DEFINE d == After(0, on)
           e == After(d, off)
           q == Then(Then(<<>>, v, on), 0, off)
           p == q \o Restart
<1>1. /\ q \in Seq(Nat) /\ Len(q) = e /\ d \in 1..4 /\ e \in 2..8 /\ d < e
      /\ Shows(q, 0, v, on) /\ Shows(q, d, 0, off)
  BY BeatShows, ZenonT(30)
<1>2. After(0, on) = d /\ After(d, off) = e
  OBVIOUS
<1> HIDE DEF d, e, q
<1>3. Restart \in Seq(Nat)
  BY RestartWords
<1>4. 0 \in Nat /\ d \in Nat /\ After(0, on) <= Len(q) /\ After(d, off) <= Len(q)
  BY <1>1, <1>2
<1>5. Shows(p, 0, v, on) /\ Shows(p, d, 0, off)
  BY <1>1, <1>3, <1>4, ShowsBefore
<1>6. Len(p) = e + 2 /\ p[e + 1] = Branch(0, 0)
  <2>1. Len(p) = Len(q) + 2 /\ p[Len(q) + 1] = Branch(0, 0)
    BY <1>1, RestartShows
  <2> QED
    BY <2>1, <1>1
<1> QED
  BY <1>5, <1>6 DEF d, e, q

\* The words of a sequence of n beats and a rest.
SequenceWords(p, v, on, off1, n, off2) ==
  LET d == After(0, on)
      e == After(d, off1)
      f == Past(e, n)
      g == After(f, off2)
  IN  /\ Len(p) = g + 2 /\ Shows(p, 0, v, on) /\ Shows(p, d, 0, off1)
      /\ n > 1 => p[e + 1] = Branch(n - 1, 0)
      /\ Shows(p, f, 0, off2) /\ p[g + 1] = Branch(0, 0)

\* led_setBlinkSequence's program, word by word.
LEMMA SequenceLayout ==
  ASSUME NEW on \in U32, NEW off1 \in U32, NEW off2 \in U32, NEW n, n \in 0..64,
         InRange(on), InRange(off1), InRange(off2), NEW v \in 0..255
  PROVE  SequenceWords(Then(Then(Then(<<>>, v, on), 0, off1) \o Repeat(n), 0, off2)
                       \o Restart, v, on, off1, n, off2)
<1> DEFINE d == After(0, on)
           e == After(d, off1)
           f == Past(e, n)
           g == After(f, off2)
           q == Then(Then(<<>>, v, on), 0, off1)
           r == q \o Repeat(n)
           t == Then(r, 0, off2)
           p == t \o Restart
<1>1. /\ q \in Seq(Nat) /\ Len(q) = e /\ d \in 1..4 /\ e \in 2..8 /\ d < e
      /\ Shows(q, 0, v, on) /\ Shows(q, d, 0, off1)
  BY BeatShows, ZenonT(30)
<1>2. After(0, on) = d /\ After(d, off1) = e
  OBVIOUS
<1> HIDE DEF d, e, q
<1>3. /\ Repeat(n) \in Seq(Nat) /\ Len(Repeat(n)) = (IF n > 1 THEN 1 ELSE 0)
      /\ n > 1 => Repeat(n)[1] = Branch(n - 1, 0)
  <2>1. Branch(n - 1, 0) \in Nat
    BY SMT DEF Branch
  <2> QED
    BY <2>1, Short DEF Repeat
<1>4. Restart \in Seq(Nat)
  BY RestartWords
<1>5. f \in 2..9 /\ f <= e + 1 /\ e <= f /\ (n > 1 => f = e + 1) /\ (~(n > 1) => f = e)
  BY <1>1 DEF Past
<1> HIDE DEF f
<1>6. g \in (f + 1)..(f + 4)
  <2>1. f \in Nat
    BY <1>5
  <2> QED
    BY <2>1, AfterRange
<1>7. After(f, off2) = g
  OBVIOUS
<1> HIDE DEF g
<1>8. /\ 0 \in Nat /\ d \in Nat /\ f \in Nat /\ f \in 0..13 /\ g \in Nat /\ 0 \in 0..255
      /\ d <= e /\ e <= e /\ e <= f /\ f <= g /\ g <= g /\ d <= f /\ d <= g /\ e <= g
  BY <1>1, <1>5, <1>6
<1>9. \A i \in 1..f : i \in 1..g
  BY <1>8
<1>10. n > 1 => e + 1 \in 1..f
  BY <1>1, <1>5
<1>11. r \in Seq(Nat) /\ Len(r) = f /\ Shows(r, 0, v, on) /\ Shows(r, d, 0, off1)
  <2>1. Shows(r, 0, v, on) /\ Shows(r, d, 0, off1)
    BY <1>1, <1>2, <1>3, <1>8, ShowsBefore
  <2>2. r \in Seq(Nat) /\ Len(r) = Len(q) + Len(Repeat(n))
    BY <1>1, <1>3, Appended
  <2> HIDE DEF r
  <2>3. Len(r) = f
    <3> DEFINE lr == Len(r)
    <3>1. lr = e + (IF n > 1 THEN 1 ELSE 0)
      BY <2>2, <1>1, <1>3
    <3> HIDE DEF lr
    <3>2. lr = f
      BY <3>1, <1>1, <1>5
    <3> QED
      BY <3>2 DEF lr
  <2> QED
    BY <2>1, <2>2, <2>3
<1>12. n > 1 => r[e + 1] = Branch(n - 1, 0)
  <2>1. \A i \in 1..Len(Repeat(n)) : r[Len(q) + i] = Repeat(n)[i]
    BY <1>1, <1>3, Appended
  <2> HIDE DEF r
  <2>2. HAVE n > 1
  <2>3. 1 \in 1..Len(Repeat(n))
    BY <1>3, <2>2
  <2> QED
    BY <2>1, <2>2, <2>3, <1>1, <1>3
<1> HIDE DEF r
<1>13. /\ t \in Seq(Nat) /\ Len(t) = g /\ Shows(t, f, 0, off2)
       /\ \A i \in 1..f : t[i] = r[i]
  BY <1>7, <1>8, <1>11, ThenShows, ZenonT(30)
<1> HIDE DEF t
<1>14. Shows(t, 0, v, on) /\ Shows(t, d, 0, off1)
  BY <1>2, <1>8, <1>11, <1>13, ShowsStill
<1>15. Shows(p, 0, v, on) /\ Shows(p, d, 0, off1) /\ Shows(p, f, 0, off2)
  BY <1>2, <1>4, <1>7, <1>8, <1>13, <1>14, ShowsBefore
<1>16. Len(p) = g + 2 /\ p[g + 1] = Branch(0, 0)
  <2>1. Len(p) = Len(t) + 2 /\ p[Len(t) + 1] = Branch(0, 0)
    BY <1>13, RestartShows
  <2> QED
    BY <2>1, <1>13
<1>17. n > 1 => p[e + 1] = Branch(n - 1, 0)
  <2>1. \A i \in 1..Len(t) : p[i] = t[i]
    BY <1>4, <1>13, Appended
  <2> HIDE DEF p
  <2> QED
    BY <2>1, <1>9, <1>10, <1>12, <1>13
<1> QED
  BY <1>15, <1>16, <1>17 DEF d, e, f, g, q, r, t, SequenceWords

\* An accepted blink is laid out as asked, and how often it is lit fits a branch.
LEMMA Layout ==
  ASSUME NEW a \in Action, Accepted(a), Blinking(a), NEW v \in 0..255
  PROVE  LaidOut(Program(a, v), a, v)
<1>1. CASE a.type = "BLINK"
  <2>1. a.on \in U32 /\ a.off \in U32 /\ InRange(a.on) /\ InRange(a.off)
    BY <1>1 DEF Action, Accepted
  <2>2. Program(a, v) = Then(Then(<<>>, v, a.on), 0, a.off) \o Restart
    BY <1>1 DEF Program
  <2> DEFINE on == a.on
             off == a.off
             p == Then(Then(<<>>, v, on), 0, off) \o Restart
             d == After(0, on)
             e == After(d, off)
  <2> HIDE DEF on, off
  <2>3. /\ Len(p) = e + 2 /\ Shows(p, 0, v, on) /\ Shows(p, d, 0, off)
        /\ p[e + 1] = Branch(0, 0)
    BY <2>1, BlinkLayout, ZenonT(30) DEF on, off
  <2>5. p = Program(a, v) /\ d = DarkAt(a)
    BY <2>2 DEF on, off, DarkAt
  <2> HIDE DEF p, d
  <2>4. EndAt(a) = e /\ OffTime(a) = off /\ ~(Times(a) > 1) /\ a.type # "SEQ_BLINK"
    BY <1>1, <2>5 DEF EndAt, BeatEnd, OffTime, Times, off
  <2>6. LaidOut(p, a, v)
    BY <2>3, <2>4, <2>5 DEF LaidOut, on
  <2> QED
    BY <2>5, <2>6
<1>2. CASE a.type = "SEQ_BLINK"
  <2>1. /\ a.on \in U32 /\ a.off1 \in U32 /\ a.off2 \in U32 /\ a.count \in U32
        /\ InRange(a.on) /\ InRange(a.off1) /\ InRange(a.off2) /\ a.count <= 64
    BY <1>2 DEF Action, Accepted, MaxLoop
  <2>2. \A n \in U32 : n <= 64 => n \in 0..64
    BY WordIsLarge DEF U32
  <2>3. a.count \in 0..64
    BY <2>1, <2>2
  <2>4. Program(a, v) =
          Then(Then(Then(<<>>, v, a.on), 0, a.off1) \o Repeat(a.count), 0, a.off2)
          \o Restart
    BY <1>2 DEF Program
  <2> DEFINE on == a.on
             off1 == a.off1
             off2 == a.off2
             n == a.count
             p == Then(Then(Then(<<>>, v, on), 0, off1) \o Repeat(n), 0, off2) \o Restart
             d == After(0, on)
             e == After(d, off1)
             f == Past(e, n)
             g == After(f, off2)
  <2>5. on \in U32 /\ off1 \in U32 /\ off2 \in U32 /\ n \in 0..64
        /\ InRange(on) /\ InRange(off1) /\ InRange(off2)
    BY <2>1, <2>3
  <2> HIDE DEF on, off1, off2, n
  <2>6. SequenceWords(p, v, on, off1, n, off2)
    BY <2>5, SequenceLayout, ZenonT(30)
  <2>7. p = Program(a, v) /\ d = DarkAt(a)
    BY <2>4 DEF on, off1, off2, n, DarkAt
  <2> HIDE DEF p, d
  <2>8. (Times(a) > 1 <=> n > 1) /\ (n > 1 => Times(a) = n)
    BY <1>2, <2>5 DEF Times, n
  <2>9. OffTime(a) = off1 /\ BeatEnd(a) = e
    BY <1>2, <2>7 DEF OffTime, BeatEnd, off1
  <2> HIDE DEF e
  <2>12. Past(e, Times(a)) = Past(e, n)
    BY <2>8 DEF Past
  <2>10. RestAt(a) = f /\ EndAt(a) = g /\ (n > 1 => RepeatAt(a) = e)
    BY <1>2, <2>8, <2>9, <2>12 DEF RestAt, EndAt, RepeatAt, off2
  <2> HIDE DEF f, g
  <2>11. LaidOut(p, a, v)
    BY <2>6, <2>7, <2>8, <2>9, <2>10 DEF LaidOut, on, off2, SequenceWords, d, e, f, g
  <2> QED
    BY <2>7, <2>11
<1> QED
  BY <1>1, <1>2 DEF Blinking

-----------------------------------------------------------------------------
(* One command of the engine.                                              *)

\* Counters of the branches.
Counters == [0..(Room - 1) -> 0..MaxLoop]

\* The clock, that stops at its bound.
Later(c, n) == IF c + n <= ClockBound THEN c + n ELSE ClockBound

\* The engine sets the light.
LEMMA SetStep ==
  ASSUME NEW v \in 0..255, Here = SetPwm(v), Engine
  PROVE  /\ at' = at + 1 /\ light' = v /\ jumps' = jumps /\ clock' = clock
         /\ UNCHANGED askVars
<1>1. IsSet(Here) /\ ~IsWait(Here) /\ ~IsBranch(Here) /\ Here % 256 = v
  BY SetIsOneCommand, ZenonT(30)
<1> QED
  BY <1>1 DEF Engine, Set, Sleep, Jump

\* Waiting is none of the other commands.
LEMMA WaitIsOneCommand ==
  \A n \in 1..63 : /\ IsWait(Wait(n)) /\ ~IsSet(Wait(n)) /\ ~IsBranch(Wait(n))
                   /\ WaitOf(Wait(n)) = n
  BY SMT DEF Wait, IsSet, IsWait, IsBranch, WaitOf

\* The engine waits.
LEMMA WaitStep ==
  ASSUME NEW n \in 1..63, Here = Wait(n), Engine
  PROVE  /\ at' = at + 1 /\ clock' = Later(clock, n) /\ jumps' = jumps /\ light' = light
         /\ UNCHANGED askVars
  BY WaitIsOneCommand DEF Engine, Set, Sleep, Jump, Later

\* A branch is none of the other commands.
LEMMA BranchIsOneCommand ==
  ASSUME NEW n \in 1..63, NEW to \in 0..15
  PROVE  /\ IsBranch(Branch(n, to)) /\ ~IsSet(Branch(n, to)) /\ ~IsWait(Branch(n, to))
         /\ CountOf(Branch(n, to)) = n /\ TargetOf(Branch(n, to)) = to /\ n # 0
<1>1. n \in 0..63 /\ n # 0
  OBVIOUS
<1>2. /\ IsBranch(Branch(n, to)) /\ Branch(n, to) \in Nat
      /\ CountOf(Branch(n, to)) = n /\ TargetOf(Branch(n, to)) = to
  BY <1>1, BranchWord, ZenonT(30)
<1>3. \A w \in Nat : IsBranch(w) => ~IsSet(w) /\ ~IsWait(w)
  BY SMT DEF IsBranch, IsSet, IsWait
<1> QED
  BY <1>1, <1>2, <1>3

\* The engine branches, and counts: to the target n times, on the next.
LEMMA BranchStep ==
  ASSUME NEW n \in 1..63, NEW to \in 0..15, Here = Branch(n, to), Engine
  PROVE  /\ light' = light /\ clock' = clock /\ UNCHANGED askVars
         /\ jumps[at] < n  => at' = to /\ jumps' = [jumps EXCEPT ![at] = jumps[at] + 1]
         /\ ~(jumps[at] < n) => at' = at + 1 /\ jumps' = [jumps EXCEPT ![at] = 0]
<1>1. /\ IsBranch(Here) /\ ~IsSet(Here) /\ ~IsWait(Here)
      /\ CountOf(Here) = n /\ TargetOf(Here) = to /\ n # 0
  BY BranchIsOneCommand, ZenonT(30)
<1> QED
  BY <1>1 DEF Engine, Set, Sleep, Jump

\* The engine starts over.
LEMMA RestartStep ==
  ASSUME Here = Branch(0, 0), Engine
  PROVE  /\ at' = 0 /\ clock' = 0 /\ light' = light /\ jumps' = jumps
         /\ UNCHANGED askVars
  BY RestartIsBranch DEF Engine, Set, Sleep, Jump

\* No branch but the one at word r is being counted.
Quiet(js, r) == \A i \in 0..(Room - 1) : js[i] # 0 => i = r

\* The engine, with its counters js, is at word pc of the light of ms that starts at
\* word s: no branch is being counted but its own and the one at r.
In(pc, js, s, ms, r) ==
  /\ pc \in s..(After(s, ms) - 1)
  /\ \A i \in 0..(Room - 1) : js[i] # 0 =>
       \/ i = r
       \/ i = s + 2 /\ pc \in {s + 1, s + 2} /\ FullWaits(ms) > 1 /\ js[i] < FullWaits(ms)

\* The steps of that light's time that are over, when its own branch counts j.
Elapsed(pc, j, s, ms) ==
  IF pc = s THEN 0
  ELSE IF pc = s + 1 /\ FullWaits(ms) > 0
         THEN IF FullWaits(ms) > 1 THEN MaxStep * j ELSE 0
  ELSE IF pc = s + 2 /\ FullWaits(ms) > 1 THEN MaxStep * (j + 1)
  ELSE MaxStep * FullWaits(ms)

\* What has elapsed at each word.
LEMMA ElapsedAt ==
  ASSUME NEW ms \in U32, InRange(ms), NEW s \in 0..9,
         NEW pc, pc \in 0..15, NEW j, j \in 0..63
  PROVE  /\ pc = s => Elapsed(pc, j, s, ms) = 0
         /\ pc = s + 1 /\ FullWaits(ms) > 1 => Elapsed(pc, j, s, ms) = 63 * j
         /\ pc = s + 1 /\ FullWaits(ms) = 1 => Elapsed(pc, j, s, ms) = 0
         /\ pc = s + 2 /\ FullWaits(ms) > 1 => Elapsed(pc, j, s, ms) = 63 * (j + 1)
         /\ pc = s + 1 + Loops(FullWaits(ms)) /\ pc # s =>
              Elapsed(pc, j, s, ms) = 63 * FullWaits(ms)
<1> DEFINE F == FullWaits(ms)
           k == Loops(F)
<1>1. F \in 0..63 /\ k \in 0..2
      /\ (F = 0 => k = 0) /\ (F = 1 => k = 1) /\ (F > 1 => k = 2)
  BY HoldLength
<1>2. Elapsed(pc, j, s, ms) =
        IF pc = s THEN 0
        ELSE IF pc = s + 1 /\ F > 0 THEN IF F > 1 THEN 63 * j ELSE 0
        ELSE IF pc = s + 2 /\ F > 1 THEN 63 * (j + 1)
        ELSE 63 * F
  BY DEF Elapsed, MaxStep
<1> HIDE DEF F, k
<1>3. /\ pc = s => Elapsed(pc, j, s, ms) = 0
      /\ pc = s + 1 /\ F > 1 => Elapsed(pc, j, s, ms) = 63 * j
      /\ pc = s + 1 /\ F = 1 => Elapsed(pc, j, s, ms) = 0
      /\ pc = s + 2 /\ F > 1 => Elapsed(pc, j, s, ms) = 63 * (j + 1)
      /\ pc = s + 1 + k /\ pc # s => Elapsed(pc, j, s, ms) = 63 * F
  BY <1>1, <1>2
<1> QED
  BY <1>3 DEF F, k

\* What has elapsed after the first word, by the number of long waits.
LEMMA ElapsedLater ==
  ASSUME NEW ms \in U32, InRange(ms), NEW s \in 0..9, NEW j, j \in 0..63
  PROVE  /\ FullWaits(ms) > 1 =>
              /\ Elapsed(s + 1, j, s, ms) = 63 * j
              /\ Elapsed(s + 2, j, s, ms) = 63 * (j + 1)
              /\ Elapsed(s + 3, j, s, ms) = 63 * FullWaits(ms)
         /\ FullWaits(ms) = 1 =>
              Elapsed(s + 1, j, s, ms) = 0 /\ Elapsed(s + 2, j, s, ms) = 63
         /\ FullWaits(ms) = 0 => Elapsed(s + 1, j, s, ms) = 0
<1> DEFINE F == FullWaits(ms)
           E(pc) == Elapsed(pc, j, s, ms)
           e1 == E(s + 1)
           e2 == E(s + 2)
           e3 == E(s + 3)
<1>1. F \in 0..63
  BY HoldLength
<1>2. \A pc : E(pc) =
        IF pc = s THEN 0
        ELSE IF pc = s + 1 /\ F > 0 THEN IF F > 1 THEN 63 * j ELSE 0
        ELSE IF pc = s + 2 /\ F > 1 THEN 63 * (j + 1)
        ELSE 63 * F
  BY DEF Elapsed, MaxStep
<1>3. /\ s + 1 # s /\ s + 2 # s /\ s + 3 # s /\ s + 2 # s + 1 /\ s + 3 # s + 1
      /\ s + 3 # s + 2
  OBVIOUS
<1> HIDE DEF F, E
<1>4. e1 = IF F > 0 THEN IF F > 1 THEN 63 * j ELSE 0 ELSE 63 * F
  BY <1>2, <1>3
<1>5. e2 = IF F > 1 THEN 63 * (j + 1) ELSE 63 * F
  BY <1>2, <1>3
<1>6. e3 = 63 * F
  BY <1>2, <1>3
<1> HIDE DEF e1, e2, e3
<1>7. /\ F > 1 => e1 = 63 * j /\ e2 = 63 * (j + 1) /\ e3 = 63 * F
      /\ F = 1 => e1 = 0 /\ e2 = 63
      /\ F = 0 => e1 = 0
  BY <1>1, <1>4, <1>5, <1>6
<1> QED
  BY <1>7 DEF e1, e2, e3, E, F

\* Where the engine is in a light.
LEMMA InIs ==
  ASSUME NEW ms \in U32, InRange(ms), NEW s \in 0..9,
         NEW r, NEW js, NEW pc, In(pc, js, s, ms, r)
  PROVE  /\ pc \in s..(s + HoldLen(ms))
         /\ \A i \in 0..15 : js[i] # 0 =>
              \/ i = r
              \/ /\ i = s + 2 /\ pc \in {s + 1, s + 2}
                 /\ FullWaits(ms) > 1 /\ js[i] < FullWaits(ms)
<1> DEFINE h == HoldLen(ms)
<1>1. h \in 0..3 /\ pc \in s..(s + 1 + h - 1)
  BY HoldLength DEF In, After
<1> HIDE DEF h
<1>2. pc \in s..(s + h)
  BY <1>1
<1> USE DEF h
<1> QED
  BY <1>2 DEF In, Room

\* And what shows that it is there.
LEMMA IsIn ==
  ASSUME NEW ms \in U32, InRange(ms), NEW s \in 0..9,
         NEW r, NEW js, NEW pc, pc \in s..(s + HoldLen(ms)),
         \A i \in 0..15 : js[i] # 0 =>
              \/ i = r
              \/ /\ i = s + 2 /\ pc \in {s + 1, s + 2}
                 /\ FullWaits(ms) > 1 /\ js[i] < FullWaits(ms)
  PROVE  In(pc, js, s, ms, r)
<1> DEFINE h == HoldLen(ms)
           A == After(s, ms)
<1>1. h \in 0..3 /\ A = s + 1 + h /\ pc \in s..(s + h)
  BY HoldLength DEF After
<1> HIDE DEF h, A
<1>2. pc \in s..(A - 1)
  BY <1>1
<1> USE DEF A
<1> QED
  BY <1>2 DEF In, Room

\* A quiet engine.
LEMMA QuietIs ==
  \A js, r : Quiet(js, r) <=> \A i \in 0..15 : js[i] # 0 => i = r
  BY DEF Quiet, Room

\* Counters count to 63.
LEMMA CountersAre ==
  ASSUME NEW js \in Counters
  PROVE  \A i \in 0..15 : js[i] \in 0..63
  BY DEF Counters, Room, MaxLoop

\* What they are, in numbers.
LEMMA CountersAsSet == Counters = [0..15 -> 0..63]
  BY DEF Counters, Room, MaxLoop

\* The counters with that of word x at n.
SetTo(js, x, n) == [js EXCEPT ![x] = n]

\* It is one more, and the others are what they were.
LEMMA CounterSet ==
  ASSUME NEW js \in Counters, NEW x, x \in 0..15, NEW n, n \in 0..63
  PROVE  /\ SetTo(js, x, n) \in Counters
         /\ SetTo(js, x, n)[x] = n
         /\ \A i \in 0..15 : i # x => SetTo(js, x, n)[i] = js[i]
  BY CountersAsSet DEF SetTo

\* One step of a light: it goes on, or is over, and time passes, or does not.
\* e and f are the steps of its time that are over before and after.
Goes(s, ms, r, v, e, f) ==
  /\ e \in 0..f /\ f \in 0..Steps(ms) /\ jumps' \in Counters /\ at' # s
  /\ r \in 0..15 => jumps'[r] = jumps[r]
  /\ \/ In(at', jumps', s, ms, r) /\ f = Elapsed(at', jumps'[s + 2], s, ms)
     \/ at' = After(s, ms) /\ Quiet(jumps', r) /\ f = Steps(ms)
  /\ \/ at = s  /\ light' = v /\ clock' = clock /\ f = e
     \/ at # s /\ light' = light /\ clock' = clock /\ f = e
     \/ at # s /\ light' = light /\ f > e /\ clock' = Later(clock, f - e)

\* The engine plays the light v of ms at word s of its program.
Playing(s, ms, r, v) ==
  /\ Shows(program, s, v, ms) /\ After(s, ms) <= Len(program) /\ Len(program) \in 0..16
  /\ ~(r \in s..(After(s, ms) - 1))
  /\ In(at, jumps, s, ms, r) /\ jumps \in Counters

\* A light is shown for its time.
LEMMA LightGoes ==
  ASSUME NEW s \in 0..9, NEW ms \in U32, InRange(ms), NEW v \in 0..255, NEW r \in 0..16,
         Playing(s, ms, r, v), Engine
  PROVE  \E f \in Nat : Goes(s, ms, r, v, Elapsed(at, jumps[s + 2], s, ms), f)
<1> DEFINE F == FullWaits(ms)
           L == LastWait(ms)
           k == Loops(F)
           h == HoldLen(ms)
           j == jumps[s + 2]
           e == Elapsed(at, j, s, ms)
           S == Steps(ms)
           A == After(s, ms)
<1>1. /\ h \in 0..3 /\ k \in 0..2 /\ h = k + (IF L > 0 THEN 1 ELSE 0)
      /\ (F > 0 => k >= 1) /\ (F > 1 => k = 2) /\ (F = 0 => k = 0) /\ (F = 1 => k = 1)
      /\ F \in 0..63 /\ L \in 0..62
  BY HoldLength
<1>2. A = s + 1 + h
  BY DEF After
<1>3. S = 63 * F + L
  BY WaitsBounded
<1>4. F = FullWaits(ms) /\ L = LastWait(ms) /\ A = After(s, ms) /\ S = Steps(ms)
  OBVIOUS
<1> HIDE DEF F, L, k, h, S, A
<1>5. /\ at \in s..(s + h)
      /\ \A i \in 0..15 : jumps[i] # 0 =>
           i = r \/ (i = s + 2 /\ at \in {s + 1, s + 2} /\ F > 1 /\ jumps[i] < F)
  <2>1. In(at, jumps, s, ms, r)
    BY DEF Playing
  <2> QED
    BY <2>1, InIs DEF F, h
<1>6. at \in 0..12 /\ s + 2 \in 0..15 /\ s + 1 \in 0..15 /\ s + 3 \in 0..15
  BY <1>1, <1>5
<1>7. Here = program[at + 1]
  <2>1. at < Len(program)
    BY <1>1, <1>2, <1>4, <1>5 DEF Playing
  <2> QED
    BY <2>1 DEF Here
<1>8. /\ program[s + 1] = SetPwm(v)
      /\ F > 0 => program[s + 2] = Wait(63)
      /\ F > 1 => program[s + 3] = Branch(F - 1, s + 1)
      /\ L > 0 => program[s + 2 + k] = Wait(L)
  BY DEF Playing, Shows, F, L, k, MaxStep
<1>9. j \in 0..63 /\ \A i \in 0..15 : jumps[i] \in 0..63
  BY <1>6, CountersAre DEF Playing
<1> HIDE DEF j
<1>10. F > 1 => r # s + 2
  BY <1>1, <1>2, <1>4 DEF Playing
<1>11. (F > 1 /\ j # 0 => at \in {s + 1, s + 2} /\ j < F)
  BY <1>5, <1>6, <1>10 DEF j
<1>12. /\ at = s => e = 0
       /\ at = s + 1 /\ F > 1 => e = 63 * j
       /\ at = s + 1 /\ F = 1 => e = 0
       /\ at = s + 2 /\ F > 1 => e = 63 * (j + 1)
       /\ at = s + 1 + k /\ at # s => e = 63 * F
  <2>1. at \in 0..15
    BY <1>6
  <2> QED
    BY <2>1, <1>9, ElapsedAt DEF F, k
<1> HIDE DEF e
<1>13. ASSUME NEW i, i \in 0..63
       PROVE  /\ F > 1 => /\ Elapsed(s + 1, i, s, ms) = 63 * i
                          /\ Elapsed(s + 2, i, s, ms) = 63 * (i + 1)
                          /\ Elapsed(s + 3, i, s, ms) = 63 * F
              /\ F = 1 => Elapsed(s + 1, i, s, ms) = 0 /\ Elapsed(s + 2, i, s, ms) = 63
              /\ F = 0 => Elapsed(s + 1, i, s, ms) = 0
  BY <1>13, ElapsedLater DEF F
<1>14. ASSUME NEW pc, NEW js, pc \in s..(s + h),
              \A i \in 0..15 : js[i] # 0 =>
                i = r \/ (i = s + 2 /\ pc \in {s + 1, s + 2} /\ F > 1 /\ js[i] < F)
       PROVE  In(pc, js, s, ms, r)
  BY <1>14, IsIn DEF F, h
<1>15. SUFFICES \E f \in Nat : Goes(s, ms, r, v, e, f)
  BY DEF e, j
<1>16. CASE at = s
  <2>1. at' = s + 1 /\ light' = v /\ jumps' = jumps /\ clock' = clock
    BY <1>7, <1>8, <1>16, SetStep
  <2>2. \A i \in 0..15 : jumps[i] # 0 => i = r
    BY <1>5, <1>16
  <2>3. e = 0 /\ (F > 1 => j = 0)
    BY <1>11, <1>12, <1>16
  <2>4. 0 \in 0..S
    BY <1>1, <1>3
  <2>5. CASE h = 0
    <3>1. S = 0 /\ at' = A
      BY <1>1, <1>2, <1>3, <2>1, <2>5
    <3>2. Quiet(jumps', r)
      BY <2>1, <2>2, QuietIs
    <3>3. Goes(s, ms, r, v, 0, 0)
      BY <1>4, <1>16, <2>1, <2>4, <3>1, <3>2 DEF Goes, Playing
    <3> QED
      BY <2>3, <3>3
  <2>6. CASE h # 0
    <3>1. s + 1 \in s..(s + h)
      BY <1>1, <2>6
    <3>2. In(at', jumps', s, ms, r)
      BY <1>14, <2>1, <2>2, <3>1
    <3>3. Elapsed(s + 1, j, s, ms) = 0
      <4>1. CASE F > 1
        BY <1>9, <1>13, <2>3, <4>1
      <4>2. CASE F = 1
        BY <1>9, <1>13, <4>2
      <4>3. CASE F = 0
        BY <1>9, <1>13, <4>3
      <4> QED
        BY <1>1, <4>1, <4>2, <4>3
    <3>4. Goes(s, ms, r, v, 0, 0)
      BY <1>4, <1>16, <2>1, <2>4, <3>2, <3>3 DEF Goes, j, Playing
    <3> QED
      BY <2>3, <3>4
  <2> QED
    BY <2>5, <2>6
<1>17. CASE at = s + 1 /\ F > 1
  <2>0. at + 1 = s + 2 /\ F > 0 /\ 63 \in 1..63
    BY <1>1, <1>17
  <2>1. Here = Wait(63)
    BY <1>7, <1>8, <2>0
  <2>2. at' = s + 2 /\ light' = light /\ jumps' = jumps /\ clock' = Later(clock, 63)
    BY <2>0, <2>1, WaitStep
  <2>3. e = 63 * j /\ j < F
    BY <1>1, <1>9, <1>11, <1>12, <1>17
  <2>4. s + 2 \in s..(s + h)
    BY <1>1, <1>17
  <2>5. In(s + 2, jumps, s, ms, r)
    BY <1>5, <1>14, <1>17, <2>4
  <2>6. Elapsed(s + 2, j, s, ms) = 63 * (j + 1)
    BY <1>9, <1>13, <1>17
  <2> DEFINE f == 63 * (j + 1)
  <2>7. e \in 0..f /\ f \in 0..S /\ f > e /\ f - e = 63 /\ f \in Nat
    BY <1>1, <1>3, <1>9, <2>3
  <2> HIDE DEF f
  <2>8. Goes(s, ms, r, v, e, f)
    BY <1>4, <1>17, <2>2, <2>5, <2>6, <2>7 DEF Goes, f, j, Playing
  <2> QED
    BY <2>7, <2>8
<1>18. CASE at = s + 1 /\ F = 1
  <2>0. at + 1 = s + 2 /\ F > 0 /\ 63 \in 1..63
    BY <1>1, <1>18
  <2>1. Here = Wait(63)
    BY <1>7, <1>8, <2>0
  <2>2. at' = s + 2 /\ light' = light /\ jumps' = jumps /\ clock' = Later(clock, 63)
    BY <2>0, <2>1, WaitStep
  <2>3. e = 0
    BY <1>12, <1>18
  <2>4. \A i \in 0..15 : jumps[i] # 0 => i = r
    BY <1>5, <1>18
  <2>5. 0 \in 0..63 /\ 63 \in 0..S /\ 63 > 0 /\ 63 - 0 = 63 /\ 63 \in Nat
    BY <1>1, <1>3, <1>18
  <2>6. CASE L > 0
    <3>1. s + 2 \in s..(s + h)
      BY <1>1, <1>18, <2>6
    <3>2. In(s + 2, jumps, s, ms, r)
      BY <1>14, <2>4, <3>1
    <3>3. Elapsed(s + 2, j, s, ms) = 63
      BY <1>9, <1>13, <1>18
    <3>4. Goes(s, ms, r, v, 0, 63)
      BY <1>4, <1>18, <2>2, <2>5, <3>2, <3>3 DEF Goes, j, Playing
    <3> QED
      BY <2>3, <2>5, <3>4
  <2>7. CASE L = 0
    <3>1. A = s + 2 /\ S = 63
      BY <1>1, <1>2, <1>3, <1>18, <2>7
    <3>2. Quiet(jumps, r)
      BY <2>4, QuietIs
    <3>3. Goes(s, ms, r, v, 0, 63)
      BY <1>4, <1>18, <2>2, <2>5, <3>1, <3>2 DEF Goes, Playing
    <3> QED
      BY <2>3, <2>5, <3>3
  <2> QED
    BY <1>1, <2>6, <2>7
<1>19. CASE at = s + 2 /\ F > 1
  <2> DEFINE n == F - 1
  <2>0. at + 1 = s + 3 /\ n \in 1..63 /\ s + 1 \in 0..15
    BY <1>1, <1>6, <1>19
  <2>1. Here = Branch(n, s + 1)
    BY <1>7, <1>8, <1>19, <2>0
  <2>2. /\ light' = light /\ clock' = clock
        /\ j < n => at' = s + 1 /\ jumps' = [jumps EXCEPT ![s + 2] = j + 1]
        /\ ~(j < n) => at' = s + 3 /\ jumps' = [jumps EXCEPT ![s + 2] = 0]
    <3> HIDE DEF n
    <3>1. j = jumps[at]
      BY <1>19 DEF j
    <3> DEFINE to == s + 1
    <3> HIDE DEF to
    <3>2. to \in 0..15 /\ Here = Branch(n, to)
      BY <2>0, <2>1 DEF to
    <3>3. /\ light' = light /\ clock' = clock
          /\ jumps[at] < n => at' = to /\ jumps' = [jumps EXCEPT ![at] = jumps[at] + 1]
          /\ ~(jumps[at] < n) => at' = at + 1 /\ jumps' = [jumps EXCEPT ![at] = 0]
      BY <2>0, <3>2, BranchStep, ZenonT(30)
    <3> QED
      BY <1>19, <2>0, <3>1, <3>3 DEF to
  <2>3. e = 63 * (j + 1) /\ j < F
    BY <1>1, <1>11, <1>12, <1>19
  <2>4. e \in 0..e /\ e \in 0..S /\ e \in Nat
    BY <1>1, <1>3, <1>9, <2>3
  <2>5. r # s + 2
    BY <1>10, <1>19
  <2>8. jumps \in Counters
    BY DEF Playing
  <2>6. CASE j < n
    <3> DEFINE i == j + 1
               js == SetTo(jumps, s + 2, i)
    <3>1. i \in 0..63 /\ i < F
      BY <1>1, <1>9, <2>6
    <3> HIDE DEF i
    <3>2. /\ js \in Counters /\ js[s + 2] = i
          /\ \A x \in 0..15 : x # s + 2 => js[x] = jumps[x]
      BY <1>6, <2>8, <3>1, CounterSet
    <3>3. at' = s + 1 /\ jumps' = js
      BY <2>2, <2>6 DEF i, SetTo
    <3> HIDE DEF js
    <3>4. s + 1 \in s..(s + h)
      BY <1>1, <1>19
    <3>5. \A x \in 0..15 : js[x] # 0 => x = r \/ (x = s + 2 /\ js[x] < F)
      BY <1>5, <3>1, <3>2
    <3>6. In(s + 1, js, s, ms, r)
      BY <1>14, <1>19, <3>4, <3>5
    <3>7. Elapsed(s + 1, i, s, ms) = e
      <4>1. Elapsed(s + 1, i, s, ms) = 63 * i
        BY <1>13, <1>19, <3>1
      <4> QED
        BY <2>3, <4>1 DEF i
    <3>8. r \in 0..15 => js[r] = jumps[r]
      BY <2>5, <3>2
    <3>9. Goes(s, ms, r, v, e, e)
      BY <1>4, <1>19, <2>2, <2>4, <3>2, <3>3, <3>6, <3>7, <3>8 DEF Goes, Playing
    <3> QED
      BY <2>4, <3>9
  <2>7. CASE ~(j < n)
    <3> DEFINE js == SetTo(jumps, s + 2, 0)
    <3>1. 0 \in 0..63 /\ e = 63 * F
      BY <1>1, <1>9, <2>3, <2>7
    <3>2. /\ js \in Counters /\ js[s + 2] = 0
          /\ \A x \in 0..15 : x # s + 2 => js[x] = jumps[x]
      BY <1>6, <2>8, <3>1, CounterSet
    <3>3. at' = s + 3 /\ jumps' = js
      BY <2>2, <2>7 DEF SetTo
    <3> HIDE DEF js
    <3>4. \A x \in 0..15 : js[x] # 0 => x = r
      BY <1>5, <3>2
    <3>5. r \in 0..15 => js[r] = jumps[r]
      BY <2>5, <3>2
    <3>6. CASE L > 0
      <4>1. s + 3 \in s..(s + h)
        BY <1>1, <1>19, <3>6
      <4>2. In(s + 3, js, s, ms, r)
        BY <1>14, <3>4, <4>1
      <4>3. Elapsed(s + 3, 0, s, ms) = e
        BY <1>13, <1>19, <3>1
      <4>4. Goes(s, ms, r, v, e, e)
        BY <1>4, <1>19, <2>2, <2>4, <3>2, <3>3, <3>5, <4>2, <4>3 DEF Goes, Playing
      <4> QED
        BY <2>4, <4>4
    <3>7. CASE L = 0
      <4>1. A = s + 3 /\ S = e
        BY <1>1, <1>2, <1>3, <1>19, <3>1, <3>7
      <4>2. Quiet(js, r)
        BY <3>4, QuietIs
      <4>3. Goes(s, ms, r, v, e, e)
        BY <1>4, <1>19, <2>2, <2>4, <3>2, <3>3, <3>5, <4>1, <4>2 DEF Goes, Playing
      <4> QED
        BY <2>4, <4>3
    <3> QED
      BY <1>1, <3>6, <3>7
  <2> QED
    BY <2>6, <2>7
<1>20. CASE at = s + 1 + k /\ at # s /\ L > 0 /\ ~(at = s + 1 /\ F > 0) /\ ~(at = s + 2 /\ F > 1)
  <2>1. Here = Wait(L) /\ L \in 1..63
    <3>1. at + 1 = s + 2 + k
      BY <1>1, <1>20
    <3> QED
      BY <1>1, <1>7, <1>8, <1>20, <3>1
  <2>2. at' = at + 1 /\ light' = light /\ jumps' = jumps /\ clock' = Later(clock, L)
    BY <2>1, WaitStep
  <2>3. e = 63 * F
    BY <1>12, <1>20
  <2>4. \A i \in 0..15 : jumps[i] # 0 => i = r
    BY <1>1, <1>5, <1>20
  <2>5. Quiet(jumps, r)
    BY <2>4, QuietIs
  <2>6. at + 1 = A /\ at + 1 # s
    BY <1>1, <1>2, <1>20
  <2>7. e \in 0..S /\ S \in 0..S /\ S > e /\ S - e = L /\ S \in Nat
    BY <1>1, <1>3, <1>20, <2>3
  <2>8. Goes(s, ms, r, v, e, S)
    BY <1>4, <1>20, <2>2, <2>5, <2>6, <2>7 DEF Goes, Playing
  <2> QED
    BY <2>7, <2>8
<1>21. \/ at = s
       \/ at = s + 1 /\ F > 1
       \/ at = s + 1 /\ F = 1
       \/ at = s + 2 /\ F > 1
       \/ /\ at = s + 1 + k /\ at # s /\ L > 0
          /\ ~(at = s + 1 /\ F > 0) /\ ~(at = s + 2 /\ F > 1)
  BY <1>1, <1>5
<1> QED
  BY <1>16, <1>17, <1>18, <1>19, <1>20, <1>21

-----------------------------------------------------------------------------
(* The round of a blink, in steps.                                         *)

\* A round of n beats B and a rest R.
Round(n, B, R) == n * B + R

\* A beat, the rest and a round of a blink, in steps.
BeatOf(a)  == Steps(a.on) + Steps(OffTime(a))
RestOf(a)  == IF a.type = "BLINK" THEN 0 ELSE Steps(a.off2)
RoundOf(a) == Round(Times(a), BeatOf(a), RestOf(a))

\* The longest accepted time, in steps.
MaxHold == MaxStep * MaxLoop

\* The bounds of the code, in terms of it.
LEMMA MaxHoldIs ==
  MaxHold \in Nat /\ Longest = 156 * MaxHold
  /\ ClockBound = 64 * (MaxHold + MaxHold) + MaxHold + 1
  BY SMT DEF MaxHold, Longest, ClockBound, Step, MaxStep, MaxLoop

\* An accepted time is no longer.
LEMMA StepsBounded ==
  ASSUME NEW ms \in U32, InRange(ms)
  PROVE  Steps(ms) \in 0..MaxHold
<1> DEFINE T == Tenths(ms)
           M == MaxHold
<1>1. T \in Nat /\ T <= 156 * M /\ M \in Nat
  BY TenthsNat, MaxHoldIs DEF InRange
<1>2. Steps(ms) = T \div 156
  BY DEF Steps, Step
<1> HIDE DEF T, M
<1>3. T \div 156 \in 0..M
  BY <1>1, SMT
<1> QED
  BY <1>2, <1>3 DEF M

\* Beats in a round: where they start and end, and what is left of a time.
LEMMA BeatsInRound ==
  ASSUME NEW b \in Nat, NEW n \in Nat, b < n, NEW B \in Nat
  PROVE  /\ b * B \in Nat /\ n * B \in Nat /\ b * B + B <= n * B
         /\ (b + 1) * B = b * B + B
         /\ \A x \in Nat : x < B => (b * B + x) % B = x
<1>1. b * B \in Nat /\ n * B \in Nat
  BY SMT
<1>2. (b + 1) * B = b * B + B
  BY SMT
<1>3. b * B + B <= n * B
  BY SMT
<1>4. ASSUME NEW x \in Nat, x < B PROVE (b * B + x) % B = x
  BY <1>4, SMT
<1> QED
  BY <1>1, <1>2, <1>3, <1>4

\* No beats are longer than the longest.
LEMMA BeatsBounded ==
  ASSUME NEW n \in 1..64, NEW M \in Nat, NEW B \in 0..(M + M)
  PROVE  n * B \in Nat /\ n * B <= 64 * (M + M)
<1>1. n * B \in Nat
  BY SMT
<1>2. n * B <= 64 * B
  BY SMT
<1>3. 64 * B <= 64 * (M + M)
  BY SMT
<1> DEFINE P == n * B
<1>4. P \in Nat /\ P <= 64 * B
  BY <1>1, <1>2
<1> HIDE DEF P
<1>5. P <= 64 * (M + M)
  BY <1>3, <1>4
<1> QED
  BY <1>4, <1>5 DEF P

\* No round is longer than the bound of the clock.
LEMMA RoundBounded ==
  ASSUME NEW n \in 1..64, NEW B \in 0..(MaxHold + MaxHold), NEW R \in 0..MaxHold
  PROVE  Round(n, B, R) \in Nat /\ Round(n, B, R) < ClockBound
<1> DEFINE P == n * B
           M == MaxHold
           C == ClockBound
<1>1. M \in Nat /\ C = 64 * (M + M) + M + 1 /\ R \in 0..M
  BY MaxHoldIs
<1>2. P \in Nat /\ P <= 64 * (M + M)
  BY <1>1, BeatsBounded
<1>3. Round(n, B, R) = P + R
  BY DEF Round
<1> HIDE DEF P, M, C
<1>4. P + R \in Nat /\ P + R < C
  BY <1>1, <1>2
<1> QED
  BY <1>3, <1>4 DEF C

\* What is known of an accepted blink.
Timed(a) ==
  /\ a.on \in U32 /\ InRange(a.on) /\ OffTime(a) \in U32 /\ InRange(OffTime(a))
  /\ Times(a) \in 1..64
  /\ a.type = "BLINK" \/ (a.type = "SEQ_BLINK" /\ a.off2 \in U32 /\ InRange(a.off2))
  /\ a.type = "BLINK" => Times(a) = 1

\* The checks of the setters are what is known.
LEMMA AcceptedTimed ==
  ASSUME NEW a \in Action, Accepted(a), Blinking(a)
  PROVE  Timed(a)
<1>1. CASE a.type = "BLINK"
  <2>1. a.on \in U32 /\ a.off \in U32 /\ InRange(a.on) /\ InRange(a.off)
    BY <1>1 DEF Action, Accepted
  <2> QED
    BY <1>1, <2>1 DEF Timed, OffTime, Times
<1>2. CASE a.type = "SEQ_BLINK"
  <2>1. /\ a.on \in U32 /\ a.off1 \in U32 /\ a.off2 \in U32 /\ a.count \in U32
        /\ InRange(a.on) /\ InRange(a.off1) /\ InRange(a.off2) /\ a.count <= 64
    BY <1>2 DEF Action, Accepted, MaxLoop
  <2>2. \A n \in U32 : n <= 64 => n = 0 \/ n \in 1..64
    BY WordIsLarge DEF U32
  <2>3. a.count = 0 \/ a.count \in 1..64
    BY <2>1, <2>2
  <2>4. Times(a) = IF a.count = 0 THEN 1 ELSE a.count
    BY <1>2 DEF Times
  <2>5. Times(a) \in 1..64
    <3> DEFINE n == a.count
    <3>1. 1 \in 1..64
      OBVIOUS
    <3> QED
      BY <2>3, <2>4, <3>1
  <2>6. OffTime(a) = a.off1
    BY <1>2 DEF OffTime
  <2> QED
    BY <1>2, <2>1, <2>5, <2>6 DEF Timed
<1> QED
  BY <1>1, <1>2 DEF Blinking

\* Where the parts of an accepted blink are.
LEMMA Parts ==
  ASSUME NEW a, Timed(a)
  PROVE  /\ After(0, a.on) = DarkAt(a) /\ After(DarkAt(a), OffTime(a)) = BeatEnd(a)
         /\ DarkAt(a) \in 1..4 /\ BeatEnd(a) \in 2..8 /\ DarkAt(a) < BeatEnd(a)
         /\ Times(a) > 1  => RepeatAt(a) = BeatEnd(a) /\ RestAt(a) = BeatEnd(a) + 1
         /\ Times(a) <= 1 => RepeatAt(a) = 16 /\ RestAt(a) = BeatEnd(a)
         /\ RepeatAt(a) \in 2..16 /\ RestAt(a) \in 2..9
         /\ RepeatAt(a) = BeatEnd(a) \/ RepeatAt(a) = 16
         /\ a.type = "BLINK" => EndAt(a) = BeatEnd(a)
         /\ a.type = "SEQ_BLINK" => After(RestAt(a), a.off2) = EndAt(a) /\ EndAt(a) > RestAt(a)
         /\ EndAt(a) \in 2..13
<1> DEFINE d == DarkAt(a)
           e == BeatEnd(a)
           f == RestAt(a)
           g == EndAt(a)
           n == Times(a)
           r == RepeatAt(a)
<1>1. After(0, a.on) = d /\ After(d, OffTime(a)) = e
  BY DEF DarkAt, BeatEnd
<1>2. f = e + (IF n > 1 THEN 1 ELSE 0) /\ r = (IF n > 1 THEN e ELSE 16) /\ n \in 1..64
  BY DEF RestAt, Past, RepeatAt, Room, Timed
<1>3. (a.type = "BLINK" => g = e) /\ (a.type = "SEQ_BLINK" => After(f, a.off2) = g)
  BY DEF EndAt
<1>4. d \in 1..4
  <2>1. After(0, a.on) \in (0 + 1)..(0 + 4)
    BY AfterRange DEF Timed
  <2>2. d \in (0 + 1)..(0 + 4)
    BY <2>1, <1>1
  <2> HIDE DEF d
  <2> QED
    BY <2>2
<1> HIDE DEF d, e, f, g, n, r
<1>5. e \in 2..8 /\ d < e
  <2>1. d \in Nat
    BY <1>4
  <2>2. After(d, OffTime(a)) \in (d + 1)..(d + 4)
    BY <2>1, AfterRange DEF Timed
  <2> QED
    BY <2>2, <1>1, <1>4
<1>6. /\ n > 1 => r = e /\ f = e + 1
      /\ n <= 1 => r = 16 /\ f = e
      /\ r \in 2..16 /\ f \in 2..9 /\ (r = e \/ r = 16)
  BY <1>2, <1>5
<1>7. CASE a.type = "BLINK"
  <2>1. g \in 2..13
    BY <1>3, <1>5, <1>7
  <2> QED
    BY <1>1, <1>3, <1>4, <1>5, <1>6, <1>7, <2>1 DEF d, e, f, g, n, r
<1>8. CASE a.type = "SEQ_BLINK"
  <2>1. f \in Nat
    BY <1>6
  <2>2. After(f, a.off2) \in (f + 1)..(f + 4)
    BY <2>1, <1>8, AfterRange DEF Timed
  <2>3. g \in 2..13 /\ g > f
    BY <2>2, <1>3, <1>6, <1>8
  <2> QED
    BY <1>1, <1>3, <1>4, <1>5, <1>6, <1>8, <2>3 DEF d, e, f, g, n, r
<1> QED
  BY <1>7, <1>8 DEF Timed

\* How long a round is.
LEMMA Rounds ==
  ASSUME NEW a, Timed(a)
  PROVE  /\ Steps(a.on) \in Nat /\ Steps(OffTime(a)) \in Nat /\ RestOf(a) \in Nat
         /\ BeatOf(a) \in Nat /\ BeatOf(a) = Steps(a.on) + Steps(OffTime(a))
         /\ RoundOf(a) \in Nat /\ RoundOf(a) < ClockBound
<1> DEFINE on == Steps(a.on)
           off == Steps(OffTime(a))
           R == RestOf(a)
           B == BeatOf(a)
           n == Times(a)
           M == MaxHold
<1>1. on \in 0..M /\ off \in 0..M
  <2>1. a.on \in U32 /\ InRange(a.on) /\ OffTime(a) \in U32 /\ InRange(OffTime(a))
    BY DEF Timed
  <2> QED
    BY <2>1, StepsBounded
<1>2. R \in 0..M
  <2>1. CASE a.type = "BLINK"
    BY <2>1, MaxHoldIs DEF RestOf
  <2>2. CASE a.type = "SEQ_BLINK"
    <3>1. a.off2 \in U32 /\ InRange(a.off2)
      BY <2>2 DEF Timed
    <3>2. RestOf(a) = Steps(a.off2)
      BY <2>2 DEF RestOf
    <3> QED
      BY <3>1, <3>2, StepsBounded
  <2> QED
    BY <2>1, <2>2 DEF Timed
<1>3. B = on + off /\ n \in 1..64
  BY DEF BeatOf, Timed
<1>4. RoundOf(a) = Round(n, B, R)
  BY DEF RoundOf
<1> HIDE DEF on, off, R, B, n, M
<1>5. B \in 0..(M + M) /\ M \in Nat
  <2>1. M \in Nat
    BY MaxHoldIs DEF M
  <2> QED
    BY <1>1, <1>3, <2>1
<1>6. Round(n, B, R) \in Nat /\ Round(n, B, R) < ClockBound
  BY <1>2, <1>3, <1>5, RoundBounded DEF M
<1>7. on \in Nat /\ off \in Nat /\ R \in Nat /\ B \in Nat
  BY <1>1, <1>2, <1>5
<1> QED
  BY <1>3, <1>4, <1>6, <1>7 DEF on, off, R, B, n

-----------------------------------------------------------------------------
(* Where the engine is in a round, and what a step does to the light.      *)

\* The beats of the round that are over.
Beats(a, js) == IF Times(a) > 1 THEN js[RepeatAt(a)] ELSE 0

\* The light is on,
Lit(a, v, pc, js, l, c) ==
  /\ In(pc, js, 0, a.on, RepeatAt(a)) /\ Beats(a, js) < Times(a)
  /\ c = Beats(a, js) * BeatOf(a) + Elapsed(pc, js[2], 0, a.on)
  /\ pc # 0 => l = v

\* or off between two beats,
Dark(a, pc, js, l, c) ==
  /\ In(pc, js, DarkAt(a), OffTime(a), RepeatAt(a)) /\ Beats(a, js) < Times(a)
  /\ c = Beats(a, js) * BeatOf(a) + Steps(a.on)
         + Elapsed(pc, js[DarkAt(a) + 2], DarkAt(a), OffTime(a))
  /\ pc # DarkAt(a) => l = 0

\* or another beat is counted,
Repeating(a, pc, js, c) ==
  /\ Times(a) > 1 /\ pc = RepeatAt(a) /\ Quiet(js, RepeatAt(a))
  /\ Beats(a, js) < Times(a) /\ c = Beats(a, js) * BeatOf(a) + BeatOf(a)

\* or the light is off after the last beat,
Resting(a, pc, js, l, c) ==
  /\ a.type = "SEQ_BLINK" /\ In(pc, js, RestAt(a), a.off2, Room)
  /\ c = Times(a) * BeatOf(a) + Elapsed(pc, js[RestAt(a) + 2], RestAt(a), a.off2)
  /\ pc # RestAt(a) => l = 0

\* or the round is over.
Over(a, pc, js, c) ==
  pc = EndAt(a) /\ Quiet(js, Room) /\ c = RoundOf(a)

\* The light at time t of a round.
Glow(a, v, t) ==
  IF t < Times(a) * BeatOf(a) /\ t % BeatOf(a) < Steps(a.on) THEN v ELSE 0

\* What a step does to light and clock: time stands still, or passes while the light
\* is what it should be, or the round is over and starts again.
Moves(a, v) ==
  \/ clock' = clock
  \/ /\ clock' > clock /\ clock' \in 0..RoundOf(a) /\ light' = light
     /\ \A t \in clock..(clock' - 1) : light = Glow(a, v, t)
  \/ clock = RoundOf(a) /\ clock' = 0 /\ light' = light

\* A step of a light that began at time base.
LEMMA LightTimed ==
  ASSUME NEW s, NEW ms, NEW r, NEW v, NEW e \in Nat, NEW f \in Nat, Goes(s, ms, r, v, e, f),
         NEW base \in Nat, clock = base + e, Steps(ms) \in Nat,
         base + Steps(ms) < ClockBound, ClockBound \in Nat, at # s => light = v
  PROVE  /\ clock' = base + f /\ light' = v /\ e <= f /\ f <= Steps(ms)
         /\ clock' = clock \/ (clock' > clock /\ light' = light /\ light = v)
<1> DEFINE S == Steps(ms)
           C == ClockBound
<1>1. e \in 0..f /\ f \in 0..S
  BY DEF Goes
<1>2. base + e + (f - e) = base + f /\ base + f <= C /\ e <= f /\ f <= S
      /\ (f > e => base + f > base + e)
  <2> HIDE DEF S, C
  <2>1. S \in Nat /\ C \in Nat /\ base + S < C
    BY DEF S, C
  <2> QED
    BY <1>1, <2>1
<1>3. Later(clock, f - e) = base + f
  BY <1>2 DEF Later
<1>4. CASE at = s /\ light' = v /\ clock' = clock /\ f = e
  BY <1>2, <1>4
<1>5. CASE at # s /\ light' = light /\ clock' = clock /\ f = e
  BY <1>2, <1>5
<1>6. CASE at # s /\ light' = light /\ f > e /\ clock' = Later(clock, f - e)
  BY <1>2, <1>3, <1>6
<1> QED
  BY <1>4, <1>5, <1>6 DEF Goes

\* While the light is on it should be.
LEMMA GlowsLit ==
  ASSUME NEW a, NEW v, Timed(a), NEW b \in Nat, b < Times(a),
         NEW t \in Nat, b * BeatOf(a) <= t, t < b * BeatOf(a) + Steps(a.on)
  PROVE  Glow(a, v, t) = v
<1> DEFINE B == BeatOf(a)
           n == Times(a)
           on == Steps(a.on)
<1>1. B \in Nat /\ on \in Nat /\ on <= B /\ n \in Nat
  <2>1. n \in Nat
    BY DEF Timed
  <2>2. \A x, y \in Nat : x <= x + y
    OBVIOUS
  <2> QED
    BY <2>1, <2>2, Rounds
<1> HIDE DEF B, n, on
<1>2. b * B \in Nat /\ n * B \in Nat /\ b * B + B <= n * B
      /\ \A x \in Nat : x < B => (b * B + x) % B = x
  BY <1>1, BeatsInRound DEF n
<1> DEFINE P == b * B
           Q == n * B
           x == t - P
<1>3. P \in Nat /\ Q \in Nat /\ P + B <= Q /\ P <= t /\ t < P + on
      /\ \A y \in Nat : y < B => (P + y) % B = y
  BY <1>2 DEF B, on
<1> HIDE DEF P, Q
<1>4. x \in Nat /\ x < on /\ x < B /\ P + x = t /\ t < Q
  BY <1>1, <1>3
<1>5. t % B = x
  BY <1>3, <1>4
<1>6. t < Q /\ t % B < on
  BY <1>4, <1>5
<1> QED
  BY <1>6 DEF Glow, Q, B, n, on

\* While it is off between beats it should not be.
LEMMA GlowsDark ==
  ASSUME NEW a, NEW v, Timed(a), NEW b \in Nat, b < Times(a),
         NEW t \in Nat, b * BeatOf(a) + Steps(a.on) <= t, t < b * BeatOf(a) + BeatOf(a)
  PROVE  Glow(a, v, t) = 0
<1> DEFINE B == BeatOf(a)
           n == Times(a)
           on == Steps(a.on)
<1>1. B \in Nat /\ on \in Nat /\ n \in Nat
  <2>1. n \in Nat
    BY DEF Timed
  <2> QED
    BY <2>1, Rounds
<1> HIDE DEF B, n, on
<1>2. b * B \in Nat /\ \A x \in Nat : x < B => (b * B + x) % B = x
  BY <1>1, BeatsInRound DEF n
<1> DEFINE P == b * B
           x == t - P
<1>3. P \in Nat /\ P + on <= t /\ t < P + B
      /\ \A y \in Nat : y < B => (P + y) % B = y
  BY <1>2 DEF B, on
<1> HIDE DEF P
<1>4. x \in Nat /\ x >= on /\ x < B /\ P + x = t
  BY <1>1, <1>3
<1>5. t % B = x
  BY <1>3, <1>4
<1>6. ~(t % B < on)
  BY <1>1, <1>4, <1>5
<1> QED
  BY <1>6 DEF Glow, B, on

\* The rest is dark.
LEMMA GlowsRest ==
  ASSUME NEW a, NEW v, Timed(a), NEW t \in Nat, Times(a) * BeatOf(a) <= t
  PROVE  Glow(a, v, t) = 0
<1> DEFINE Q == Times(a) * BeatOf(a)
<1>1. Q \in Nat
  <2>1. Times(a) \in Nat
    BY DEF Timed
  <2>2. BeatOf(a) \in Nat
    BY Rounds
  <2> QED
    BY <2>1, <2>2
<1> HIDE DEF Q
<1>2. Q <= t
  BY DEF Q
<1>3. ~(t < Q)
  BY <1>1, <1>2
<1> QED
  BY <1>3 DEF Glow, Q

\* The bound of the clock is a number.
LEMMA ClockBoundNat == ClockBound \in Nat
  BY SMT DEF ClockBound, MaxLoop, MaxStep

\* Where a beat begins and ends in its round.
LEMMA BeatBase ==
  ASSUME NEW a, Timed(a), NEW js \in Counters, Beats(a, js) < Times(a)
  PROVE  /\ Beats(a, js) \in Nat /\ Times(a) \in Nat
         /\ BeatOf(a) \in Nat /\ Steps(a.on) \in Nat /\ Steps(OffTime(a)) \in Nat
         /\ BeatOf(a) = Steps(a.on) + Steps(OffTime(a))
         /\ RoundOf(a) \in Nat /\ ClockBound \in Nat /\ RoundOf(a) < ClockBound
         /\ Beats(a, js) * BeatOf(a) \in Nat
         /\ Beats(a, js) * BeatOf(a) + BeatOf(a) <= RoundOf(a)
         /\ (Beats(a, js) + 1) * BeatOf(a) = Beats(a, js) * BeatOf(a) + BeatOf(a)
<1> DEFINE n == Times(a)
           b == Beats(a, js)
           B == BeatOf(a)
           R == RestOf(a)
<1>1. n \in 1..64 /\ n \in Nat
  BY DEF Timed
<1>2. /\ Steps(a.on) \in Nat /\ Steps(OffTime(a)) \in Nat /\ R \in Nat /\ B \in Nat
      /\ B = Steps(a.on) + Steps(OffTime(a)) /\ RoundOf(a) \in Nat /\ RoundOf(a) < ClockBound
  BY Rounds
<1>3. b \in Nat
  <2>1. CASE n > 1
    <3>1. RepeatAt(a) \in 0..15
      BY <2>1, Parts
    <3> QED
      BY <2>1, <3>1, CountersAre DEF Beats
  <2>2. CASE ~(n > 1)
    BY <2>2 DEF Beats
  <2> QED
    BY <2>1, <2>2
<1>4. RoundOf(a) = n * B + R
  BY DEF RoundOf, Round
<1> HIDE DEF n, b, B, R
<1>5. b < n
  BY DEF b, n
<1>6. b * B \in Nat /\ n * B \in Nat /\ b * B + B <= n * B /\ (b + 1) * B = b * B + B
  BY <1>1, <1>2, <1>3, <1>5, BeatsInRound
<1> DEFINE P == b * B
           Q == n * B
<1>7. P \in Nat /\ Q \in Nat /\ P + B <= Q /\ RoundOf(a) = Q + R
  BY <1>4, <1>6
<1> HIDE DEF P, Q
<1>8. P + B <= RoundOf(a)
  BY <1>2, <1>7
<1> QED
  BY <1>1, <1>2, <1>3, <1>6, <1>7, <1>8, ClockBoundNat DEF n, b, B, R, P

\* The beats counted are those of the branch that counts them.
LEMMA BeatsKept ==
  ASSUME NEW a, Timed(a), NEW js, NEW js2,
         RepeatAt(a) \in 0..15 => js2[RepeatAt(a)] = js[RepeatAt(a)]
  PROVE  Beats(a, js2) = Beats(a, js)
<1>1. Times(a) > 1 => RepeatAt(a) \in 0..15
  BY Parts
<1> QED
  BY <1>1 DEF Beats

\* A light that has just begun.
LEMMA Begins ==
  ASSUME NEW ms \in U32, InRange(ms), NEW s, s \in 0..9, NEW r, NEW js \in Counters, Quiet(js, r)
  PROVE  In(s, js, s, ms, r) /\ Elapsed(s, js[s + 2], s, ms) = 0
<1>1. PICK x \in 0..9 : x = s
  OBVIOUS
<1>2. In(x, js, x, ms, r)
  <2>1. x \in x..(x + HoldLen(ms))
    <3> DEFINE h == HoldLen(ms)
    <3>1. h \in 0..3
      BY HoldLength
    <3> HIDE DEF h
    <3>2. x \in x..(x + h)
      BY <3>1
    <3> QED
      BY <3>2 DEF h
  <2>2. \A i \in 0..15 : js[i] # 0 => i = r
    BY QuietIs
  <2> QED
    BY <2>1, <2>2, IsIn
<1>3. Elapsed(x, js[x + 2], x, ms) = 0
  BY DEF Elapsed
<1> QED
  BY <1>1, <1>2, <1>3

\* A step while the light is on.
LEMMA LitStep ==
  ASSUME NEW a, Timed(a), NEW v \in 0..255, LaidOut(program, a, v), Len(program) \in 0..16,
         jumps \in Counters, Lit(a, v, at, jumps, light, clock), Engine
  PROVE  /\ \/ Lit(a, v, at', jumps', light', clock')
            \/ Dark(a, at', jumps', light', clock')
         /\ Moves(a, v) /\ jumps' \in Counters /\ light' = v
<1> DEFINE on == a.on
           r == RepeatAt(a)
           b == Beats(a, jumps)
           base == b * BeatOf(a)
           S == Steps(on)
           e == Elapsed(at, jumps[2], 0, on)
           d == DarkAt(a)
<1>1. on \in U32 /\ InRange(on) /\ OffTime(a) \in U32 /\ InRange(OffTime(a))
  BY DEF Timed
<1>2. /\ After(0, on) = d /\ d \in 1..4 /\ d \in 0..9 /\ r \in 2..16 /\ r \in 0..16
      /\ EndAt(a) \in 2..13 /\ ~(r \in 0..(d - 1)) /\ d <= EndAt(a) + 2
  <2>1. d \in 1..4 /\ BeatEnd(a) \in 2..8 /\ d < BeatEnd(a) /\ EndAt(a) \in 2..13
        /\ r \in 2..16 /\ (r = BeatEnd(a) \/ r = 16)
    BY Parts
  <2>2. After(0, on) = d
    BY Parts
  <2> DEFINE m == BeatEnd(a)
             g == EndAt(a)
  <2> HIDE DEF d, r, m, g
  <2>3. d \in 0..9 /\ d <= g + 2 /\ r \in 0..16 /\ ~(r \in 0..(d - 1))
    BY <2>1 DEF m, g
  <2> QED
    BY <2>1, <2>2, <2>3 DEF g
<1>3. /\ In(at, jumps, 0, on, r) /\ b < Times(a) /\ clock = base + e
      /\ at # 0 => light = v
  BY DEF Lit
<1>4. /\ b \in Nat /\ base \in Nat /\ BeatOf(a) \in Nat /\ S \in Nat /\ S <= BeatOf(a)
      /\ base + BeatOf(a) <= RoundOf(a) /\ RoundOf(a) < ClockBound
      /\ RoundOf(a) \in Nat /\ ClockBound \in Nat
  <2>1. \A x, y \in Nat : x <= x + y
    OBVIOUS
  <2> QED
    BY <1>3, <2>1, BeatBase
<1>5. /\ Shows(program, 0, v, on) /\ Len(program) = EndAt(a) + 2
  BY DEF LaidOut
<1>6. Playing(0, on, r, v)
  BY <1>2, <1>3, <1>5 DEF Playing
<1> HIDE DEF on, r, b, S, d
<1>7. PICK f \in Nat : Goes(0, on, r, v, e, f)
  <2>1. 0 \in 0..9 /\ 0 + 2 = 2
    OBVIOUS
  <2>2. \E f \in Nat : Goes(0, on, r, v, Elapsed(at, jumps[0 + 2], 0, on), f)
    BY <1>1, <1>2, <1>6, <2>1, LightGoes, ZenonT(30)
  <2> QED
    BY <2>1, <2>2
<1> HIDE DEF e
<1>8. e \in Nat
  BY <1>7 DEF Goes
<1> DEFINE P == base
<1>9. P \in Nat /\ clock = P + e /\ P + BeatOf(a) <= RoundOf(a)
  BY <1>3, <1>4
<1> HIDE DEF base, P
<1>10. P + S <= RoundOf(a) /\ P + S < ClockBound
  BY <1>4, <1>9
<1>11. /\ clock' = P + f /\ light' = v /\ e <= f /\ f <= S
       /\ clock' = clock \/ (clock' > clock /\ light' = light /\ light = v)
  BY <1>3, <1>4, <1>7, <1>8, <1>9, <1>10, LightTimed DEF S
<1>12. Beats(a, jumps') = b
  BY <1>7, <1>2, BeatsKept DEF Goes, b, r
<1>13. jumps' \in Counters /\ at' # 0
  BY <1>7 DEF Goes
<1>14. Moves(a, v)
  <2>1. CASE clock' = clock
    BY <2>1 DEF Moves
  <2>2. CASE clock' > clock /\ light' = light /\ light = v
    <3>1. clock' \in 0..RoundOf(a)
      BY <1>4, <1>9, <1>10, <1>11
    <3>2. ASSUME NEW t \in clock..(clock' - 1) PROVE Glow(a, v, t) = v
      <4>1. t \in (P + e)..(P + f - 1)
        BY <1>9, <1>11
      <4>2. t \in Nat /\ P <= t /\ t < P + S
        BY <4>1, <1>4, <1>8, <1>9, <1>11
      <4> QED
        BY <4>2, <1>3, <1>4, GlowsLit DEF P, base, S, on, b
    <3> QED
      BY <2>2, <3>1, <3>2 DEF Moves
  <2> QED
    BY <1>11, <2>1, <2>2
<1>15. CASE In(at', jumps', 0, on, r) /\ f = Elapsed(at', jumps'[2], 0, on)
  BY <1>3, <1>11, <1>12, <1>13, <1>14, <1>15 DEF Lit, P, base, on, r
<1>16. CASE at' = d /\ Quiet(jumps', r) /\ f = S
  <2>1. In(d, jumps', d, OffTime(a), r) /\ Elapsed(d, jumps'[d + 2], d, OffTime(a)) = 0
    BY <1>1, <1>2, <1>13, <1>16, Begins
  <2>2. P + S + 0 = P + f
    BY <1>4, <1>9, <1>16
  <2>3. Dark(a, at', jumps', light', clock')
    BY <1>3, <1>11, <1>12, <1>16, <2>1, <2>2 DEF Dark, P, base, S, d, r, on
  <2> QED
    BY <1>11, <1>13, <1>14, <2>3
<1>17. \/ In(at', jumps', 0, on, r) /\ f = Elapsed(at', jumps'[2], 0, on)
       \/ at' = d /\ Quiet(jumps', r) /\ f = S
  <2>1. 0 + 2 = 2
    OBVIOUS
  <2> QED
    BY <1>2, <1>7, <2>1 DEF Goes, S
<1> QED
  BY <1>15, <1>16, <1>17

\* After the last beat, the rest begins or the round is over.
LEMMA LastBeat ==
  ASSUME NEW a, Timed(a), NEW js \in Counters, Quiet(js, Room), NEW l, NEW c,
         c = Times(a) * BeatOf(a)
  PROVE  Resting(a, RestAt(a), js, l, c) \/ (Over(a, RestAt(a), js, c))
<1>1. Times(a) * BeatOf(a) \in Nat
  <2>1. Times(a) \in Nat /\ BeatOf(a) \in Nat
    BY Rounds DEF Timed
  <2> QED
    BY <2>1
<1> DEFINE Q == Times(a) * BeatOf(a)
<1>2. Q \in Nat /\ c = Q /\ Q + 0 = Q
  BY <1>1
<1> HIDE DEF Q
<1>3. CASE a.type = "BLINK"
  <2>1. EndAt(a) = BeatEnd(a) /\ RestAt(a) = BeatEnd(a)
    BY <1>3, Parts DEF Timed
  <2>2. RoundOf(a) = Q + 0
    BY <1>3 DEF RoundOf, Round, RestOf, Q
  <2> QED
    BY <1>2, <2>1, <2>2 DEF Over
<1>4. CASE a.type = "SEQ_BLINK"
  <2>1. a.off2 \in U32 /\ InRange(a.off2) /\ RestAt(a) \in 0..9
    BY <1>4, Parts DEF Timed
  <2>2. /\ In(RestAt(a), js, RestAt(a), a.off2, Room)
        /\ Elapsed(RestAt(a), js[RestAt(a) + 2], RestAt(a), a.off2) = 0
    BY <2>1, Begins
  <2> QED
    BY <1>2, <1>4, <2>2 DEF Resting, Q
<1> QED
  BY <1>3, <1>4 DEF Timed

\* There is one beat, or there are more.
LEMMA OneBeatOrMore ==
  ASSUME NEW a, Timed(a)
  PROVE  /\ Times(a) > 1 \/ Times(a) <= 1
         /\ \A b \in Nat : b < Times(a) /\ Times(a) <= 1 => Times(a) = b + 1
<1> DEFINE n == Times(a)
<1>1. n \in 1..64
  BY DEF Timed
<1> HIDE DEF n
<1>2. /\ n > 1 \/ n <= 1
      /\ \A b \in Nat : b < n /\ n <= 1 => n = b + 1
  BY <1>1
<1> QED
  BY <1>2 DEF n

\* A step while the light is off between two beats.
LEMMA DarkStep ==
  ASSUME NEW a, Timed(a), NEW v, LaidOut(program, a, v), Len(program) \in 0..16,
         jumps \in Counters, Dark(a, at, jumps, light, clock), Engine
  PROVE  /\ \/ Dark(a, at', jumps', light', clock')
            \/ Repeating(a, at', jumps', clock')
            \/ Resting(a, at', jumps', light', clock')
            \/ Over(a, at', jumps', clock')
         /\ Moves(a, v) /\ jumps' \in Counters /\ light' = 0
<1> DEFINE off == OffTime(a)
           r == RepeatAt(a)
           b == Beats(a, jumps)
           base == b * BeatOf(a)
           on == Steps(a.on)
           S == Steps(off)
           d == DarkAt(a)
           m == BeatEnd(a)
           e == Elapsed(at, jumps[d + 2], d, off)
<1>1. off \in U32 /\ InRange(off) /\ Times(a) \in 1..64
  BY DEF Timed
<1>2. /\ After(d, off) = m /\ d \in 0..9 /\ r \in 0..16 /\ ~(r \in d..(m - 1))
      /\ m <= EndAt(a) + 2
  <2>1. d \in 1..4 /\ m \in 2..8 /\ d < m /\ EndAt(a) \in 2..13
        /\ r \in 2..16 /\ (r = m \/ r = 16) /\ RestAt(a) \in 2..9
        /\ After(d, off) = m
        /\ (a.type = "BLINK" => EndAt(a) = m) /\ (a.type = "SEQ_BLINK" => EndAt(a) > RestAt(a))
        /\ (RestAt(a) = m \/ RestAt(a) = m + 1)
        /\ (a.type = "BLINK" \/ a.type = "SEQ_BLINK")
    <3>1. Times(a) > 1 \/ Times(a) <= 1
      BY OneBeatOrMore
    <3>2. d \in 1..4 /\ m \in 2..8 /\ d < m /\ EndAt(a) \in 2..13
          /\ r \in 2..16 /\ (r = m \/ r = 16) /\ RestAt(a) \in 2..9
          /\ After(d, off) = m
      BY Parts
    <3>3. (a.type = "BLINK" => EndAt(a) = m) /\ (a.type = "SEQ_BLINK" => EndAt(a) > RestAt(a))
      BY Parts
    <3>4. RestAt(a) = m \/ RestAt(a) = m + 1
      BY <3>1, Parts
    <3>5. a.type = "BLINK" \/ a.type = "SEQ_BLINK"
      BY DEF Timed
    <3> QED
      BY <3>2, <3>3, <3>4, <3>5
  <2> DEFINE g == EndAt(a)
             q == RestAt(a)
  <2> HIDE DEF d, r, m, g, q
  <2>2. g \in 2..13 /\ q \in 2..9 /\ (g = m \/ g > q) /\ (q = m \/ q = m + 1)
    BY <2>1 DEF g, q
  <2>3. d \in 0..9 /\ r \in 0..16 /\ ~(r \in d..(m - 1)) /\ m <= g + 2
    BY <2>1, <2>2
  <2> QED
    BY <2>1, <2>3 DEF g
<1>3. /\ In(at, jumps, d, off, r) /\ b < Times(a) /\ clock = base + on + e
      /\ at # d => light = 0
  BY DEF Dark
<1>4. /\ b \in Nat /\ base \in Nat /\ BeatOf(a) \in Nat /\ S \in Nat /\ on \in Nat
      /\ BeatOf(a) = on + S
      /\ base + BeatOf(a) <= RoundOf(a) /\ RoundOf(a) < ClockBound
      /\ RoundOf(a) \in Nat /\ ClockBound \in Nat
      /\ (b + 1) * BeatOf(a) = base + BeatOf(a)
  BY <1>3, BeatBase
<1>5. Shows(program, d, 0, off) /\ Len(program) = EndAt(a) + 2
  BY DEF LaidOut
<1>6. Playing(d, off, r, 0)
  BY <1>2, <1>3, <1>5 DEF Playing
<1> HIDE DEF off, r, b, S, d, on, m
<1>7. PICK f \in Nat : Goes(d, off, r, 0, e, f)
  <2>1. 0 \in 0..255 /\ off \in U32 /\ InRange(off) /\ d \in 0..9 /\ r \in 0..16
    BY <1>1, <1>2
  <2>2. \E f \in Nat : Goes(d, off, r, 0, Elapsed(at, jumps[d + 2], d, off), f)
    BY <1>6, <2>1, LightGoes, ZenonT(30)
  <2> QED
    BY <2>2
<1> HIDE DEF e
<1>8. e \in Nat
  BY <1>7 DEF Goes
<1> DEFINE P == base + on
<1>9. P \in Nat /\ clock = P + e /\ P + S <= RoundOf(a) /\ P + S < ClockBound
      /\ P + S = base + BeatOf(a)
  <2> HIDE DEF base
  <2> QED
    BY <1>3, <1>4
<1> HIDE DEF base, P
<1>10. /\ clock' = P + f /\ light' = 0 /\ e <= f /\ f <= S
       /\ clock' = clock \/ (clock' > clock /\ light' = light /\ light = 0)
  BY <1>3, <1>4, <1>7, <1>8, <1>9, LightTimed DEF S
<1>11. Beats(a, jumps') = b
  BY <1>7, <1>2, BeatsKept DEF Goes, b, r
<1>12. jumps' \in Counters /\ at' # d
  BY <1>7 DEF Goes
<1>13. Moves(a, v)
  <2>1. CASE clock' = clock
    BY <2>1 DEF Moves
  <2>2. CASE clock' > clock /\ light' = light /\ light = 0
    <3>1. clock' \in 0..RoundOf(a)
      BY <1>4, <1>9, <1>10
    <3>2. ASSUME NEW t \in clock..(clock' - 1) PROVE Glow(a, v, t) = 0
      <4>1. t \in (P + e)..(P + f - 1)
        BY <1>9, <1>10
      <4>2. t \in Nat /\ P <= t /\ t < P + S
        BY <4>1, <1>4, <1>8, <1>9, <1>10
      <4>3. base + on <= t /\ t < base + BeatOf(a)
        BY <4>2, <1>9 DEF P
      <4> QED
        BY <4>2, <4>3, <1>3, <1>4, GlowsDark DEF base, on, b
    <3> QED
      BY <2>2, <3>1, <3>2 DEF Moves
  <2> QED
    BY <1>10, <2>1, <2>2
<1>14. CASE In(at', jumps', d, off, r) /\ f = Elapsed(at', jumps'[d + 2], d, off)
  BY <1>3, <1>10, <1>11, <1>12, <1>13, <1>14 DEF Dark, P, base, on, r, d, off
<1>15. CASE at' = m /\ Quiet(jumps', r) /\ f = S
  <2>1. clock' = base + BeatOf(a)
    BY <1>9, <1>10, <1>15
  <2>2. CASE Times(a) > 1
    <3>1. r = m
      BY <2>2, Parts DEF r, m
    <3>2. Repeating(a, at', jumps', clock')
      BY <1>3, <1>11, <1>15, <2>1, <2>2, <3>1 DEF Repeating, base, r
    <3> QED
      BY <1>10, <1>12, <1>13, <3>2
  <2>3. CASE Times(a) <= 1
    <3>1. r = Room /\ RestAt(a) = m
      BY <2>3, Parts DEF r, m, Room
    <3>2. Times(a) = b + 1
      BY <1>3, <1>4, <2>3, OneBeatOrMore
    <3>3. clock' = Times(a) * BeatOf(a)
      BY <1>4, <2>1, <3>2
    <3>4. \/ Resting(a, RestAt(a), jumps', light', clock')
          \/ Over(a, RestAt(a), jumps', clock')
      BY <1>12, <1>15, <3>1, <3>3, LastBeat
    <3> QED
      BY <1>10, <1>12, <1>13, <1>15, <3>1, <3>4
  <2> QED
    BY <2>2, <2>3, OneBeatOrMore
<1> QED
  BY <1>2, <1>7, <1>14, <1>15 DEF Goes, S

\* A beat has been counted: another follows, or the round's last one is over.
LEMMA RepeatStep ==
  ASSUME NEW a, Timed(a), NEW v, LaidOut(program, a, v), Len(program) \in 0..16,
         jumps \in Counters, Repeating(a, at, jumps, clock), Engine
  PROVE  /\ \/ Lit(a, v, at', jumps', light', clock')
            \/ Resting(a, at', jumps', light', clock')
            \/ Over(a, at', jumps', clock')
         /\ Moves(a, v) /\ jumps' \in Counters /\ light' = light
<1> DEFINE r == RepeatAt(a)
           n == Times(a)
           b == Beats(a, jumps)
           B == BeatOf(a)
<1>1. /\ n > 1 /\ at = r /\ Quiet(jumps, r) /\ b < n /\ clock = b * B + B
      /\ b = jumps[r]
  BY DEF Repeating, Beats
<1>2. /\ r = BeatEnd(a) /\ RestAt(a) = r + 1 /\ r \in 2..8 /\ EndAt(a) \in 2..13
      /\ (a.type = "SEQ_BLINK" => EndAt(a) > RestAt(a)) /\ n \in 1..64
      /\ (a.type = "BLINK" => n = 1)
  <2>1. n \in 1..64 /\ (a.type = "BLINK" => n = 1)
    BY DEF Timed
  <2> QED
    BY <1>1, <2>1, Parts
<1>3. Here = Branch(n - 1, 0) /\ n - 1 \in 1..63
  <2> DEFINE g == EndAt(a)
             q == RestAt(a)
  <2>1. program[r + 1] = Branch(n - 1, 0) /\ Len(program) = g + 2
    BY <1>1 DEF LaidOut
  <2>2. a.type = "SEQ_BLINK"
    <3> HIDE DEF n
    <3>1. ~(n = 1)
      BY <1>1, <1>2
    <3> QED
      BY <1>2, <3>1 DEF Timed
  <2>3. g > q /\ q = r + 1 /\ r \in 2..8 /\ g \in 2..13
    BY <1>2, <2>2
  <2> HIDE DEF g, q, r, n
  <2>4. r < Len(program) /\ n - 1 \in 1..63
    BY <1>1, <1>2, <2>1, <2>3
  <2> QED
    BY <1>1, <2>1, <2>4 DEF Here
<1> DEFINE m == n - 1
<1>4. /\ light' = light /\ clock' = clock
      /\ jumps[at] < m  => at' = 0 /\ jumps' = [jumps EXCEPT ![at] = jumps[at] + 1]
      /\ ~(jumps[at] < m) => at' = at + 1 /\ jumps' = [jumps EXCEPT ![at] = 0]
  <2>1. m \in 1..63 /\ 0 \in 0..15 /\ Here = Branch(m, 0)
    BY <1>3
  <2> HIDE DEF m
  <2> QED
    BY <2>1, BranchStep, ZenonT(30)
<1>5. Moves(a, v)
  BY <1>4 DEF Moves
<1>6. /\ b \in Nat /\ B \in Nat /\ b * B \in Nat /\ (b + 1) * B = b * B + B
      /\ b \in 0..63 /\ r \in 0..15 /\ m \in 1..63 /\ n = m + 1
  <2>1. b < Times(a)
    BY <1>1
  <2>2. b \in Nat /\ B \in Nat /\ b * B \in Nat /\ (b + 1) * B = b * B + B
    BY <2>1, BeatBase
  <2>3. m \in 1..63 /\ r \in 0..15
    BY <1>2, <1>3
  <2>4. n = m + 1
    <3> HIDE DEF n
    <3> QED
      BY <1>2
  <2> QED
    BY <1>1, <2>2, <2>3, <2>4, CountersAre, ZenonT(30)
<1> HIDE DEF r, n, b, B, m
<1>7. CASE b < m
  <2> DEFINE i == b + 1
             js == SetTo(jumps, r, i)
  <2>1. i \in 0..63 /\ i < n
    BY <1>6, <1>7
  <2>2. i * B = b * B + B
    BY <1>6
  <2> HIDE DEF i
  <2>3. /\ js \in Counters /\ js[r] = i
        /\ \A x \in 0..15 : x # r => js[x] = jumps[x]
    <3>1. r \in 0..15 /\ i \in 0..63
      BY <1>6, <2>1
    <3> QED
      BY <3>1, CountersAsSet DEF js, SetTo
  <2>4. at' = 0 /\ jumps' = js
    BY <1>1, <1>4, <1>7 DEF i, SetTo
  <2> HIDE DEF js
  <2>5. Quiet(js, r)
    BY <1>1, <2>3, QuietIs
  <2>6. In(0, js, 0, a.on, r) /\ Elapsed(0, js[2], 0, a.on) = 0
    <3>1. a.on \in U32 /\ InRange(a.on) /\ 0 \in 0..9 /\ 0 + 2 = 2
      BY DEF Timed
    <3>2. In(0, js, 0, a.on, r) /\ Elapsed(0, js[0 + 2], 0, a.on) = 0
      BY <2>3, <2>5, <3>1, Begins
    <3> QED
      BY <3>1, <3>2
  <2>7. Beats(a, js) = i
    BY <1>1, <2>3 DEF Beats, r, n
  <2>8. clock' = i * B + 0
    <3> DEFINE P == b * B
    <3>1. P \in Nat /\ B \in Nat
      BY <1>6
    <3>2. clock' = P + B /\ i * B = P + B
      BY <1>1, <1>4, <2>2
    <3> HIDE DEF P
    <3> QED
      BY <3>1, <3>2
  <2>9. Lit(a, v, at', jumps', light', clock')
    BY <2>1, <2>4, <2>6, <2>7, <2>8 DEF Lit, r, n, B
  <2> QED
    BY <1>4, <1>5, <2>3, <2>4, <2>9
<1>8. CASE ~(b < m)
  <2> DEFINE js == SetTo(jumps, r, 0)
  <2>1. b + 1 = n
    BY <1>1, <1>6, <1>8
  <2>2. /\ js \in Counters /\ js[r] = 0
        /\ \A x \in 0..15 : x # r => js[x] = jumps[x]
    <3>1. r \in 0..15 /\ 0 \in 0..63
      BY <1>6
    <3>2. /\ SetTo(jumps, r, 0) \in Counters /\ SetTo(jumps, r, 0)[r] = 0
          /\ \A x \in 0..15 : x # r => SetTo(jumps, r, 0)[x] = jumps[x]
      BY <3>1, CountersAsSet DEF SetTo
    <3> QED
      BY <3>2
  <2>3. at' = r + 1 /\ jumps' = js
    BY <1>1, <1>4, <1>8 DEF SetTo
  <2> HIDE DEF js
  <2>4. Quiet(js, Room)
    BY <1>1, <2>2, QuietIs
  <2>5. clock' = Times(a) * BeatOf(a)
    BY <1>1, <1>4, <1>6, <2>1 DEF n, B
  <2>6. \/ Resting(a, RestAt(a), jumps', light', clock')
        \/ Over(a, RestAt(a), jumps', clock')
    BY <2>2, <2>3, <2>4, <2>5, LastBeat
  <2> QED
    BY <1>2, <1>4, <1>5, <2>2, <2>3, <2>6
<1> QED
  BY <1>7, <1>8

\* How often a light is shown is a number.
LEMMA TimesNat ==
  ASSUME NEW a, Timed(a)
  PROVE  Times(a) \in Nat
<1> DEFINE n == Times(a)
<1>1. n \in 1..64
  BY DEF Timed
<1> HIDE DEF n
<1>2. n \in Nat
  BY <1>1
<1> QED
  BY <1>2 DEF n

\* A step while the light is off after the last beat.
LEMMA RestStep ==
  ASSUME NEW a, Timed(a), NEW v, LaidOut(program, a, v), Len(program) \in 0..16,
         jumps \in Counters, Resting(a, at, jumps, light, clock), Engine
  PROVE  /\ \/ Resting(a, at', jumps', light', clock')
            \/ Over(a, at', jumps', clock')
         /\ Moves(a, v) /\ jumps' \in Counters /\ light' = 0
<1> DEFINE off == a.off2
           s == RestAt(a)
           g == EndAt(a)
           S == Steps(off)
           P == Times(a) * BeatOf(a)
           e == Elapsed(at, jumps[s + 2], s, off)
<1>1. /\ a.type = "SEQ_BLINK" /\ In(at, jumps, s, off, Room) /\ clock = P + e
      /\ at # s => light = 0
  BY DEF Resting
<1>2. off \in U32 /\ InRange(off)
  BY <1>1 DEF Timed
<1>3. After(s, off) = g /\ g \in 2..13 /\ s \in 0..9 /\ s \in 2..9
  BY <1>1, Parts
<1>4. /\ S \in Nat /\ P \in Nat /\ RoundOf(a) = P + S /\ RoundOf(a) < ClockBound
      /\ RoundOf(a) \in Nat /\ ClockBound \in Nat
  <2>1. /\ RestOf(a) \in Nat /\ BeatOf(a) \in Nat /\ RoundOf(a) \in Nat
        /\ RoundOf(a) < ClockBound
    BY Rounds
  <2>2. RestOf(a) = S
    BY <1>1 DEF RestOf
  <2>3. RoundOf(a) = P + S
    BY <2>2 DEF RoundOf, Round
  <2>4. P \in Nat
    <3>1. Times(a) \in Nat
      BY TimesNat
    <3> QED
      BY <2>1, <3>1
  <2> QED
    BY <2>1, <2>2, <2>3, <2>4, ClockBoundNat
<1>5. Shows(program, s, 0, off) /\ Len(program) = g + 2
  BY <1>1 DEF LaidOut
<1>6. Playing(s, off, Room, 0)
  <2> HIDE DEF s, g
  <2>1. ~(Room \in s..(g - 1)) /\ g <= g + 2
    BY <1>3 DEF Room
  <2> QED
    BY <1>1, <1>3, <1>5, <2>1 DEF Playing
<1> HIDE DEF off, s, g, S, P
<1>7. PICK f \in Nat : Goes(s, off, Room, 0, e, f)
  <2>1. 0 \in 0..255 /\ Room \in 0..16
    BY DEF Room
  <2>2. \E f \in Nat : Goes(s, off, Room, 0, Elapsed(at, jumps[s + 2], s, off), f)
    BY <1>2, <1>3, <1>6, <2>1, LightGoes, ZenonT(30)
  <2> QED
    BY <2>2
<1> HIDE DEF e
<1>8. e \in Nat
  BY <1>7 DEF Goes
<1>9. P + S < ClockBound
  BY <1>4
<1>10. /\ clock' = P + f /\ light' = 0 /\ e <= f /\ f <= S
       /\ clock' = clock \/ (clock' > clock /\ light' = light /\ light = 0)
  BY <1>1, <1>4, <1>7, <1>8, <1>9, LightTimed DEF S
<1>11. jumps' \in Counters /\ at' # s
  BY <1>7 DEF Goes
<1>12. Moves(a, v)
  <2>1. CASE clock' = clock
    BY <2>1 DEF Moves
  <2>2. CASE clock' > clock /\ light' = light /\ light = 0
    <3>1. clock' \in 0..RoundOf(a)
      BY <1>4, <1>10
    <3>2. ASSUME NEW t \in clock..(clock' - 1) PROVE Glow(a, v, t) = 0
      <4>1. t \in Nat /\ P <= t
        BY <1>1, <1>4, <1>8, <1>10
      <4> QED
        BY <4>1, GlowsRest DEF P
    <3> QED
      BY <2>2, <3>1, <3>2 DEF Moves
  <2> QED
    BY <1>10, <2>1, <2>2
<1>13. CASE In(at', jumps', s, off, Room) /\ f = Elapsed(at', jumps'[s + 2], s, off)
  BY <1>1, <1>10, <1>11, <1>12, <1>13 DEF Resting, P, s, off
<1>14. CASE at' = g /\ Quiet(jumps', Room) /\ f = S
  BY <1>4, <1>10, <1>11, <1>12, <1>14 DEF Over, g
<1> QED
  BY <1>3, <1>7, <1>13, <1>14 DEF Goes, S

\* A round begins when the light is about to be set, with no beat counted.
LEMMA RoundBegins ==
  ASSUME NEW a, Timed(a), NEW js \in Counters, Quiet(js, Room), NEW v, NEW l
  PROVE  Lit(a, v, 0, js, l, 0)
<1>1. Beats(a, js) = 0
  <2>1. CASE Times(a) > 1
    <3> DEFINE r == RepeatAt(a)
    <3>1. r = BeatEnd(a) /\ BeatEnd(a) \in 2..8
      BY <2>1, Parts
    <3>2. r \in 0..15 /\ r # Room
      BY <3>1 DEF Room
    <3> HIDE DEF r
    <3>3. js[r] = 0
      BY <3>2, QuietIs
    <3> QED
      BY <2>1, <3>3 DEF Beats, r
  <2>2. CASE ~(Times(a) > 1)
    BY <2>2 DEF Beats
  <2> QED
    BY <2>1, <2>2
<1>2. In(0, js, 0, a.on, RepeatAt(a)) /\ Elapsed(0, js[2], 0, a.on) = 0
  <2>1. \A i \in 0..15 : i # 16
    OBVIOUS
  <2>2. Quiet(js, RepeatAt(a))
    BY <2>1, QuietIs DEF Room
  <2>3. a.on \in U32 /\ InRange(a.on) /\ 0 \in 0..9 /\ 0 + 2 = 2
    BY DEF Timed
  <2>4. In(0, js, 0, a.on, RepeatAt(a)) /\ Elapsed(0, js[0 + 2], 0, a.on) = 0
    BY <2>2, <2>3, Begins
  <2> QED
    BY <2>3, <2>4
<1>3. 0 < Times(a) /\ 0 * BeatOf(a) + 0 = 0
  <2> DEFINE n == Times(a)
             B == BeatOf(a)
  <2>1. n \in 1..64
    BY DEF Timed
  <2>2. B \in Nat
    BY Rounds
  <2> HIDE DEF n, B
  <2>3. 0 < n /\ 0 * B + 0 = 0
    BY <2>1, <2>2
  <2> QED
    BY <2>3 DEF n, B
<1> QED
  BY <1>1, <1>2, <1>3 DEF Lit

\* The round is over, and the next one begins.
LEMMA OverStep ==
  ASSUME NEW a, Timed(a), NEW v, LaidOut(program, a, v), Len(program) \in 0..16,
         jumps \in Counters, Over(a, at, jumps, clock), Engine
  PROVE  /\ Lit(a, v, at', jumps', light', clock')
         /\ Moves(a, v) /\ jumps' \in Counters /\ light' = light
<1>1. at = EndAt(a) /\ Quiet(jumps, Room) /\ clock = RoundOf(a)
  BY DEF Over
<1>2. Here = Branch(0, 0)
  <2> DEFINE g == EndAt(a)
  <2>1. g \in 2..13
    BY Parts
  <2>2. program[g + 1] = Branch(0, 0) /\ Len(program) = g + 2
    BY DEF LaidOut
  <2>3. at = g
    BY <1>1
  <2> HIDE DEF g
  <2>4. at < Len(program)
    BY <2>1, <2>2, <2>3
  <2> QED
    BY <2>2, <2>3, <2>4 DEF Here
<1>3. at' = 0 /\ clock' = 0 /\ light' = light /\ jumps' = jumps
  BY <1>2, RestartStep
<1>4. Moves(a, v)
  BY <1>1, <1>3 DEF Moves
<1>5. Lit(a, v, at', jumps', light', clock')
  BY <1>1, <1>3, RoundBegins
<1> QED
  BY <1>3, <1>4, <1>5

-----------------------------------------------------------------------------
(* The invariant of the engine, and the theorems.                          *)

\* Where the engine is in the round of a blink.
Phase(a, v, pc, js, l, c) ==
  \/ Lit(a, v, pc, js, l, c)
  \/ Dark(a, pc, js, l, c)
  \/ Repeating(a, pc, js, c)
  \/ Resting(a, pc, js, l, c)
  \/ Over(a, pc, js, c)

\* A step of the engine, anywhere in the round.
LEMMA PhaseStep ==
  ASSUME NEW a, Timed(a), NEW v \in 0..255, LaidOut(program, a, v), Len(program) \in 0..16,
         jumps \in Counters, Phase(a, v, at, jumps, light, clock), Engine
  PROVE  /\ Phase(a, v, at', jumps', light', clock')
         /\ Moves(a, v) /\ jumps' \in Counters /\ light' \in {light, v, 0}
<1>1. CASE Lit(a, v, at, jumps, light, clock)
  BY <1>1, LitStep, ZenonT(30) DEF Phase
<1>2. CASE Dark(a, at, jumps, light, clock)
  BY <1>2, DarkStep DEF Phase
<1>3. CASE Repeating(a, at, jumps, clock)
  BY <1>3, RepeatStep DEF Phase
<1>4. CASE Resting(a, at, jumps, light, clock)
  BY <1>4, RestStep DEF Phase
<1>5. CASE Over(a, at, jumps, clock)
  BY <1>5, OverStep DEF Phase
<1> QED
  BY <1>1, <1>2, <1>3, <1>4, <1>5 DEF Phase

\* The light asked for by a with brightness v.
WaveOf(a, v) ==
  IF Blinking(a)
    THEN [lit |-> v, steady |-> FALSE, on |-> Steps(a.on), off |-> Steps(OffTime(a)),
          count |-> Times(a), rest |-> RestOf(a), free |-> FALSE]
    ELSE [lit |-> IF a.type = "ON" THEN v ELSE 0, steady |-> TRUE,
          on |-> 0, off |-> 0, count |-> 1, rest |-> 0, free |-> FALSE]

\* No time of a wraps: the compiler works on the caller's times.
Unwrapped(a) ==
  /\ a.type = "BLINK" => 10 * a.on < Word /\ 10 * a.off < Word
  /\ a.type = "SEQ_BLINK" => 10 * a.on < Word /\ 10 * a.off1 < Word /\ 10 * a.off2 < Word

\* That is what the property exempts no more.
LEMMA NotWrapped ==
  ASSUME NEW a, ~Wrapped(a), Blinking(a) => Timed(a) PROVE Unwrapped(a)
<1>1. ASSUME NEW ms \in U32, ~Wraps(ms) PROVE 10 * ms < Word
  <2>1. 10 * ms \in Nat /\ Word \in Nat
    BY WordIsLarge, SMT DEF U32
  <2> QED
    BY <1>1, <2>1, SMT DEF Wraps
<1>2. ASSUME a.type = "BLINK" PROVE 10 * a.on < Word /\ 10 * a.off < Word
  <2>1. a.on \in U32 /\ a.off \in U32 /\ ~Wraps(a.on) /\ ~Wraps(a.off)
    BY <1>2 DEF Wrapped, Timed, Blinking, OffTime
  <2> QED
    BY <2>1, <1>1
<1>3. ASSUME a.type = "SEQ_BLINK"
      PROVE  10 * a.on < Word /\ 10 * a.off1 < Word /\ 10 * a.off2 < Word
  <2>1. /\ a.on \in U32 /\ a.off1 \in U32 /\ a.off2 \in U32
        /\ ~Wraps(a.on) /\ ~Wraps(a.off1) /\ ~Wraps(a.off2)
    BY <1>3 DEF Wrapped, Timed, Blinking, OffTime
  <2> QED
    BY <2>1, <1>1
<1> QED
  BY <1>2, <1>3 DEF Unwrapped

\* Such a time is compiled as it was asked for.
LEMMA StepsAsAsked ==
  ASSUME NEW ms \in U32, 10 * ms < Word PROVE AskedSteps(ms) = Steps(ms)
<1>1. 10 * ms \in Nat /\ Word \in Nat
  BY WordIsLarge, SMT DEF U32
<1>2. Tenths(ms) = 10 * ms
  BY <1>1, SMT DEF Tenths
<1> QED
  BY <1>2 DEF AskedSteps, Steps

\* The light asked for is the light compiled.
LEMMA UnwrappedSteps ==
  ASSUME NEW a, Unwrapped(a), Blinking(a) => Timed(a)
  PROVE  /\ a.type = "BLINK" =>
              AskedSteps(a.on) = Steps(a.on) /\ AskedSteps(a.off) = Steps(a.off)
         /\ a.type = "SEQ_BLINK" =>
              /\ AskedSteps(a.on) = Steps(a.on) /\ AskedSteps(a.off1) = Steps(a.off1)
              /\ AskedSteps(a.off2) = Steps(a.off2)
<1>1. ASSUME a.type = "BLINK"
      PROVE  AskedSteps(a.on) = Steps(a.on) /\ AskedSteps(a.off) = Steps(a.off)
  <2>1. a.on \in U32 /\ a.off \in U32 /\ 10 * a.on < Word /\ 10 * a.off < Word
    BY <1>1 DEF Unwrapped, Timed, Blinking, OffTime
  <2> QED
    BY <2>1, StepsAsAsked
<1>2. ASSUME a.type = "SEQ_BLINK"
      PROVE  /\ AskedSteps(a.on) = Steps(a.on) /\ AskedSteps(a.off1) = Steps(a.off1)
             /\ AskedSteps(a.off2) = Steps(a.off2)
  <2>1. /\ a.on \in U32 /\ a.off1 \in U32 /\ a.off2 \in U32
        /\ 10 * a.on < Word /\ 10 * a.off1 < Word /\ 10 * a.off2 < Word
    BY <1>2 DEF Unwrapped, Timed, Blinking, OffTime
  <2> QED
    BY <2>1, StepsAsAsked
<1> QED
  BY <1>1, <1>2

\* That is what the abstract specification is asked for.
LEMMA AskedWaveIs ==
  ASSUME ~Wrapped(action), Blinking(action) => Timed(action)
  PROVE  AskedWave = WaveOf(action, pwm)
<1>u. Unwrapped(action)
  BY NotWrapped
<1>1. CASE action.type = "BLINK"
  BY <1>1, <1>u, UnwrappedSteps DEF AskedWave, WaveOf, Blinking, OffTime, Times, RestOf
<1>2. CASE action.type = "SEQ_BLINK"
  BY <1>2, <1>u, UnwrappedSteps DEF AskedWave, WaveOf, Blinking, OffTime, Times, RestOf
<1>3. CASE ~Blinking(action)
  BY <1>3 DEF AskedWave, WaveOf, Blinking
<1> QED
  BY <1>1, <1>2, <1>3 DEF Blinking

\* The light of a blink: its round, and what is seen at a time of it.
LEMMA BlinkWave ==
  ASSUME NEW a, Timed(a), Blinking(a), NEW v \in Lights
  PROVE  /\ WaveOf(a, v) \in Waves!Wave
         /\ Waves!Period(WaveOf(a, v)) = RoundOf(a)
         /\ \A t : Waves!At(WaveOf(a, v), t) = Glow(a, v, t)
<1> DEFINE on == Steps(a.on)
           off == Steps(OffTime(a))
           n == Times(a)
           R == RestOf(a)
           w == WaveOf(a, v)
<1>1. /\ on \in Nat /\ off \in Nat /\ n \in Nat /\ R \in Nat
      /\ BeatOf(a) = on + off /\ RoundOf(a) = n * BeatOf(a) + R
  <2>1. n \in Nat
    BY TimesNat
  <2>2. on \in Nat /\ off \in Nat /\ R \in Nat /\ BeatOf(a) = on + off
    BY Rounds
  <2> QED
    BY <2>1, <2>2 DEF RoundOf, Round
<1>2. w = [lit |-> v, steady |-> FALSE, on |-> on, off |-> off, count |-> n, rest |-> R,
               free |-> FALSE]
  BY DEF WaveOf
<1> HIDE DEF on, off, n, R, w
<1>3. w \in Waves!Wave
  BY <1>1, <1>2 DEF Waves!Wave
<1>4. /\ w.lit = v /\ w.steady = FALSE /\ w.on = on /\ w.off = off
      /\ w.count = n /\ w.rest = R
  BY <1>2
<1>5. Waves!Beat(w) = BeatOf(a)
  BY <1>1, <1>4 DEF Waves!Beat
<1>6. Waves!Period(w) = RoundOf(a)
  BY <1>1, <1>4, <1>5 DEF Waves!Period
<1>7. \A t : Waves!At(w, t) = Glow(a, v, t)
  BY <1>4, <1>5 DEF Waves!At, Glow, n, on
<1> QED
  BY <1>3, <1>6, <1>7 DEF w

\* A steady light.
LEMMA SteadyWave ==
  ASSUME NEW a, ~Blinking(a), NEW v \in Lights
  PROVE  /\ WaveOf(a, v) \in Waves!Wave /\ WaveOf(a, v).steady
         /\ Waves!At(WaveOf(a, v), 0) = IF a.type = "ON" THEN v ELSE 0
<1> DEFINE l == IF a.type = "ON" THEN v ELSE 0
           w == WaveOf(a, v)
<1>1. l \in Lights
  BY LpAssumption
<1>2. w = [lit |-> l, steady |-> TRUE, on |-> 0, off |-> 0, count |-> 1, rest |-> 0,
           free |-> FALSE]
  BY DEF WaveOf
<1> HIDE DEF l, w
<1>3. w \in Waves!Wave
  BY <1>1, <1>2 DEF Waves!Wave
<1>4. w.lit = l /\ w.steady = TRUE
  BY <1>2
<1>5. Waves!At(w, 0) = l
  BY <1>4 DEF Waves!At
<1> QED
  BY <1>3, <1>4, <1>5 DEF w, l

\* The engine is somewhere in the round of the blink its program was compiled from;
\* no time passes for a steady light.
WInv ==
  /\ IInv
  /\ action \in Asked \cup [type : {"ON", "OFF"}] /\ Accepted(action)
  /\ pwm \in Lights /\ light \in Lights /\ jumps \in Counters
  /\ IF Blinking(action)
       THEN /\ LaidOut(program, action, pwm)
            /\ Phase(action, pwm, at, jumps, light, clock)
            /\ clock \in 0..RoundOf(action)
       ELSE clock = 0

\* No branch has been taken yet.
LEMMA NoneTaken == NoJumps \in Counters /\ Quiet(NoJumps, Room)
  BY DEF NoJumps, Counters, Quiet, Room, MaxLoop

\* The boot loader's light is a steady one.
LEMMA WInvInit == Init => WInv
<1> SUFFICES ASSUME Init PROVE WInv
  OBVIOUS
<1>1. IInv
  BY IInvInit
<1>2. action \in [type : {"ON", "OFF"}] /\ ~Blinking(action) /\ Accepted(action)
  BY DEF Init, Blinking, Accepted
<1>3. pwm \in Lights /\ light \in Lights /\ jumps \in Counters /\ clock = 0
  BY LpAssumption, NoneTaken DEF Init
<1> QED
  BY <1>1, <1>2, <1>3 DEF WInv

\* A blink is laid out, and its first round begins.
LEMMA WInvApply ==
  ASSUME WInv, NEW a \in Asked, NEW v \in Lights, Accepted(a), Load(a, v), light' = light
  PROVE  WInv'
<1>1. IInv'
  BY IInvApply DEF WInv, Apply
<1>2. /\ action' = a /\ pwm' = v /\ program' = Program(a, v) /\ at' = 0
      /\ jumps' = NoJumps /\ clock' = 0
  BY DEF Load
<1>3. light \in Lights
  BY DEF WInv
<1>4. a \in Action /\ v \in 0..255
  BY LpAssumption
<1>5. CASE Blinking(a)
  <2>1. Timed(a)
    BY <1>4, <1>5, AcceptedTimed
  <2>2. LaidOut(Program(a, v), a, v)
    BY <1>4, <1>5, Layout
  <2>3. Lit(a, v, 0, NoJumps, light', 0)
    BY <2>1, NoneTaken, RoundBegins
  <2>4. 0 \in 0..RoundOf(a)
    <3>1. RoundOf(a) \in Nat
      BY <2>1, Rounds
    <3> QED
      BY <3>1
  <2> QED
    BY <1>1, <1>2, <1>3, <1>5, <2>2, <2>3, <2>4, NoneTaken DEF WInv, Phase
<1>6. CASE ~Blinking(a)
  BY <1>1, <1>2, <1>3, <1>6, NoneTaken DEF WInv
<1> QED
  BY <1>5, <1>6

\* What is known while a blink is shown.
LEMMA BlinkKnown ==
  ASSUME WInv, Blinking(action)
  PROVE  /\ Timed(action) /\ pwm \in 0..255 /\ pwm \in Lights
         /\ LaidOut(program, action, pwm) /\ Len(program) \in 0..16
         /\ jumps \in Counters /\ Phase(action, pwm, at, jumps, light, clock)
         /\ clock \in 0..RoundOf(action) /\ at \in 0..15
<1>1. action \in Action /\ pwm \in 0..255 /\ Blinker(program) /\ at \in 0..(Len(program) - 2)
  BY DEF WInv, IInv
<1>2. Timed(action)
  BY <1>1, AcceptedTimed DEF WInv
<1>3. Len(program) \in 0..16
  <2> DEFINE l == Len(program)
  <2>1. l \in 3..16
    BY <1>1 DEF Blinker, Room
  <2> HIDE DEF l
  <2>2. l \in 0..16
    BY <2>1
  <2> QED
    BY <2>2 DEF l
<1>4. at \in 0..15
  <2> DEFINE l == Len(program)
  <2> HIDE DEF l
  <2>1. l \in 0..16 /\ at \in 0..(l - 2)
    BY <1>1, <1>3 DEF l
  <2> QED
    BY <2>1
<1> QED
  BY <1>1, <1>2, <1>3, <1>4 DEF WInv

\* The steps of the engine that shows a steady light.
LEMMA SteadyStep ==
  ASSUME WInv, ~Blinking(action), Engine
  PROVE  /\ light' \in Lights /\ clock' = clock /\ jumps' = jumps /\ UNCHANGED askVars
<1> DEFINE shown == IF action.type = "ON" THEN pwm ELSE 0
<1>1. /\ program = <<SetPwm(shown), End>> /\ at \in 0..1
  BY DEF WInv, IInv
<1>2. shown \in Lights /\ shown \in 0..255
  BY LpAssumption DEF WInv
<1> HIDE DEF shown
<1>3. Len(program) = 2 /\ program[1] = SetPwm(shown) /\ program[2] = End
  BY <1>1
<1>4. CASE at = 1
  <2>1. Here = End
    BY <1>3, <1>4 DEF Here
  <2> QED
    BY <2>1, EndIsNoCommand DEF Engine, Set, Sleep, Jump
<1>5. CASE at = 0
  <2>1. Here = SetPwm(shown)
    BY <1>3, <1>5 DEF Here
  <2> QED
    BY <1>2, <2>1, SetStep
<1> QED
  BY <1>1, <1>4, <1>5

\* The engine goes through the round.
LEMMA WInvEngine == WInv /\ Engine => WInv'
<1> SUFFICES ASSUME WInv, Engine PROVE WInv'
  OBVIOUS
<1>1. IInv'
  BY IInvEngine DEF WInv
<1>2. UNCHANGED askVars
  BY DEF Engine, Set, Sleep, Jump
<1>3. /\ action \in Asked \cup [type : {"ON", "OFF"}] /\ Accepted(action) /\ pwm \in Lights
      /\ light \in Lights
  BY DEF WInv
<1>4. CASE Blinking(action)
  <2>1. /\ Timed(action) /\ pwm \in 0..255
        /\ LaidOut(program, action, pwm) /\ Len(program) \in 0..16
        /\ jumps \in Counters /\ Phase(action, pwm, at, jumps, light, clock)
        /\ clock \in 0..RoundOf(action)
    BY <1>4, BlinkKnown
  <2>2. /\ Phase(action, pwm, at', jumps', light', clock')
        /\ Moves(action, pwm) /\ jumps' \in Counters /\ light' \in {light, pwm, 0}
    BY <2>1, PhaseStep, ZenonT(30)
  <2>3. clock' \in 0..RoundOf(action)
    <3>1. 0 \in 0..RoundOf(action)
      <4>1. RoundOf(action) \in Nat
        BY <2>1, Rounds
      <4> QED
        BY <4>1
    <3> QED
      BY <2>1, <2>2, <3>1 DEF Moves
  <2>4. light' \in Lights
    BY <1>3, <2>2, LpAssumption
  <2> QED
    BY <1>1, <1>2, <1>3, <1>4, <2>1, <2>2, <2>3, <2>4 DEF WInv, askVars
<1>5. CASE ~Blinking(action)
  <2>1. clock = 0 /\ jumps \in Counters
    BY <1>5 DEF WInv
  <2> QED
    BY <1>1, <1>2, <1>3, <1>5, <2>1, SteadyStep DEF WInv, askVars
<1> QED
  BY <1>4, <1>5

\* The invariant holds for ever.
LEMMA WaveInvariance == Spec => []WInv
<1>1. WInv /\ [Next]_vars => WInv'
  <2>1. WInv /\ UNCHANGED vars => WInv'
    <3> SUFFICES ASSUME WInv, UNCHANGED vars PROVE WInv'
      OBVIOUS
    <3>1. IInv'
      BY DEF WInv, IInv, vars, askVars
    <3> QED
      BY <3>1 DEF WInv, vars, askVars
  <2>2. WInv /\ Apply => WInv'
    BY WInvApply DEF Apply
  <2> QED
    BY <2>1, <2>2, WInvEngine DEF Next
<1> QED
  BY <1>1, WInvInit, PTL DEF Spec

\* The clock's bound is not zero.
LEMMA ClockBoundPositive == 0 \in 0..(ClockBound - 1)
<1> DEFINE C == ClockBound
<1>1. C \in Nat /\ C > 0
  BY SMT DEF ClockBound, MaxLoop, MaxStep
<1> HIDE DEF C
<1>2. 0 \in 0..(C - 1)
  BY <1>1
<1> QED
  BY <1>2 DEF C

\* What is asked for next.
LEMMA NextWaveIs ==
  ASSUME NEW a, NEW v, ~Wrapped(a), Blinking(a) => Timed(a), action' = a, pwm' = v
  PROVE  AskedWave' = WaveOf(a, v)
<1>u. Unwrapped(a)
  BY NotWrapped
<1>1. CASE a.type = "BLINK"
  BY <1>1, <1>u, UnwrappedSteps DEF AskedWave, WaveOf, Blinking, OffTime, Times, RestOf
<1>2. CASE a.type = "SEQ_BLINK"
  BY <1>2, <1>u, UnwrappedSteps DEF AskedWave, WaveOf, Blinking, OffTime, Times, RestOf
<1>3. CASE ~Blinking(a)
  BY <1>3 DEF AskedWave, WaveOf, Blinking
<1> QED
  BY <1>1, <1>2, <1>3 DEF Blinking

\* Every value is of its type, and no round of any accepted light lasts longer than
\* the longest that led_setBlinkSequence accepts.
THEOREM LpTypeCorrect == Spec => []TypeOK
<1>1. WInv => TypeOK
  <2> SUFFICES ASSUME WInv PROVE TypeOK
    OBVIOUS
  <2>1. /\ action \in Asked \cup [type : {"ON", "OFF"}] /\ pwm \in Lights
        /\ light \in Lights /\ jumps \in [0..(Room - 1) -> 0..MaxLoop]
    BY DEF WInv, Counters
  <2>2. at \in 0..15 /\ clock \in 0..(ClockBound - 1)
    <3>1. CASE Blinking(action)
      <4>1. Timed(action) /\ clock \in 0..RoundOf(action) /\ at \in 0..15
        BY <3>1, BlinkKnown
      <4> DEFINE C == ClockBound
                 R == RoundOf(action)
      <4>2. R \in Nat /\ R < C /\ C \in Nat
        BY <4>1, Rounds, ClockBoundNat
      <4> HIDE DEF C, R
      <4>3. clock \in 0..(C - 1)
        BY <4>1, <4>2 DEF R
      <4> QED
        BY <4>1, <4>3 DEF C
    <3>2. CASE ~Blinking(action)
      <4>1. clock = 0 /\ at \in 0..1
        BY <3>2 DEF WInv, IInv
      <4>2. at \in 0..15
        BY <4>1
      <4> QED
        BY <4>1, <4>2, ClockBoundPositive
    <3> QED
      BY <3>1, <3>2
  <2> QED
    BY <2>1, <2>2 DEF TypeOK, Room
<1> QED
  BY <1>1, WaveInvariance, PTL

\* The engine implements the light asked for (LedWave): at every step of every round
\* the channel is lit when, and as brightly as, the milliseconds of the caller of
\* led_setBlink or led_setBlinkSequence say, and a round ends neither early nor late.
\* Nothing is said of an action with a time that wraps (Wrapped), but of any other
\* one, also where it comes after such a one.
THEOREM ShowsTheWave == Spec => WaveSpec
<1>1. Init => Waves!Init
  <2> SUFFICES ASSUME Init PROVE Waves!Init
    OBVIOUS
  <2>1. /\ ~Blinking(action) /\ pwm \in Lights /\ clock = 0
        /\ light = IF action.type = "OFF" THEN 0 ELSE pwm
        /\ action.type \in {"ON", "OFF"}
    BY DEF Init, Blinking
  <2>2. /\ AskedWave \in Waves!Wave /\ AskedWave.steady
        /\ Waves!At(AskedWave, 0) = IF action.type = "ON" THEN pwm ELSE 0
    <3>1. ~Wrapped(action)
      BY <2>1 DEF Wrapped
    <3> QED
      BY <2>1, <3>1, SteadyWave, AskedWaveIs
  <2> QED
    BY <2>1, <2>2 DEF Waves!Init
<1>2. WInv /\ Apply => Waves!Next
  <2> SUFFICES ASSUME WInv, NEW a \in Asked, NEW v \in Lights, Accepted(a), Load(a, v),
                      light' = light
               PROVE  Waves!Next
    BY DEF Apply
  <2>1. action' = a /\ pwm' = v /\ clock' = 0
    BY DEF Load
  <2>2. AskedWave' = IF Wrapped(a) THEN AnyLight ELSE WaveOf(a, v)
    <3>1. Blinking(a) => Timed(a)
      BY LpAssumption, AcceptedTimed
    <3>2. CASE Wrapped(a)
      BY <2>1, <3>2 DEF AskedWave
    <3> QED
      BY <2>1, <3>1, <3>2, NextWaveIs
  <2>3. WaveOf(a, v) \in Waves!Wave
    <3>1. CASE Blinking(a)
      <4>1. a \in Action
        BY LpAssumption
      <4>2. Timed(a)
        BY <3>1, <4>1, AcceptedTimed
      <4> QED
        BY <3>1, <4>2, BlinkWave
    <3>2. CASE ~Blinking(a)
      BY <3>2, SteadyWave
    <3> QED
      BY <3>1, <3>2
  <2>4. light' \in Lights
    BY DEF WInv
  <2>5. AnyLight \in Waves!Wave
    BY LpAssumption DEF AnyLight, Waves!Wave
  <2> QED
    BY <2>1, <2>2, <2>3, <2>4, <2>5 DEF Waves!Next, Waves!Ask
<1>3. WInv /\ Engine => Waves!Next
  <2> SUFFICES ASSUME WInv, Engine PROVE Waves!Next
    OBVIOUS
  <2>1. AskedWave' = AskedWave
    <3>1. action' = action /\ pwm' = pwm
      BY DEF Engine, Set, Sleep, Jump, askVars
    <3> QED
      BY <3>1 DEF AskedWave
  <2>2. light' \in Lights
    BY WInvEngine DEF WInv
  <2>3. action' = action
    BY DEF Engine, Set, Sleep, Jump, askVars
  <2>4. CASE clock' = clock
    BY <2>1, <2>2, <2>4 DEF Waves!Next, Waves!Turn
  <2>5. CASE Wrapped(action)
    <3>1. AskedWave = AnyLight /\ AskedWave.free
      BY <2>5 DEF AskedWave, AnyLight
    <3>2. clock' \in Nat
      <4>1. CASE Blinking(action)
        <5> DEFINE R == RoundOf(action)
        <5>1. clock' \in 0..R
          BY <2>3, <4>1, WInvEngine DEF WInv
        <5>2. R \in Nat
          BY <4>1, BlinkKnown, Rounds
        <5> HIDE DEF R
        <5> QED
          BY <5>1, <5>2
      <4>2. CASE ~Blinking(action)
        BY <4>2, SteadyStep DEF WInv
      <4> QED
        BY <4>1, <4>2
    <3> QED
      BY <2>1, <2>2, <3>1, <3>2 DEF Waves!Next, Waves!Stray
  <2>6. CASE clock' # clock /\ ~Wrapped(action)
    <3>1. Blinking(action)
      BY <2>6, SteadyStep
    <3>2. /\ Timed(action) /\ pwm \in 0..255 /\ pwm \in Lights
          /\ LaidOut(program, action, pwm) /\ Len(program) \in 0..16
          /\ jumps \in Counters /\ Phase(action, pwm, at, jumps, light, clock)
      BY <3>1, BlinkKnown
    <3>3. Moves(action, pwm)
      BY <3>2, PhaseStep, ZenonT(30)
    <3>4. /\ Waves!Period(AskedWave) = RoundOf(action)
          /\ \A t : Waves!At(AskedWave, t) = Glow(action, pwm, t)
      BY <2>6, <3>1, <3>2, BlinkWave, AskedWaveIs
    <3>5. CASE /\ clock' > clock /\ clock' \in 0..RoundOf(action) /\ light' = light
               /\ \A t \in clock..(clock' - 1) : light = Glow(action, pwm, t)
      <4>1. clock' <= RoundOf(action)
        BY <3>5
      <4>2. \A t \in clock..(clock' - 1) : light = Waves!At(AskedWave, t)
        BY <3>4, <3>5
      <4> QED
        BY <2>1, <3>4, <3>5, <4>1, <4>2 DEF Waves!Next, Waves!Pass
    <3>6. CASE clock = RoundOf(action) /\ clock' = 0 /\ light' = light
      BY <2>1, <3>4, <3>6 DEF Waves!Next, Waves!Again
    <3> QED
      BY <2>6, <3>3, <3>5, <3>6 DEF Moves
  <2> QED
    BY <2>4, <2>5, <2>6
<1>4. WInv /\ [Next]_vars => [Waves!Next]_(Waves!waveVars)
  <2>1. UNCHANGED vars => UNCHANGED Waves!waveVars
    BY DEF vars, askVars, Waves!waveVars, AskedWave
  <2> QED
    BY <1>2, <1>3, <2>1 DEF Next
<1> QED
  BY <1>1, <1>4, WaveInvariance, PTL DEF Spec, WaveSpec, Waves!Spec
=============================================================================
