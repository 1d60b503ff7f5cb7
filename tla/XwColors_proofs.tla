---------------------------- MODULE XwColors_proofs ----------------------------
(***************************************************************************)
(* How processes come by the colours of the XW, for any number of          *)
(* processes and colours: no table filled in part or from the stack is     *)
(* taken for one, and who has the files for itself gets its colours.       *)
(***************************************************************************)
EXTENDS XwColors, TLAPS

\* Attempts count from one; one that is being made is one of those the call was
\* told to make.
Attempts ==
  \A p \in Procs : /\ count[p] >= 1
                   /\ pc[p] \in {"get", "fill"} => count[p] <= retry[p]

\* A grep makes lines of lines.
LEMMA GrepLines ==
  ASSUME NEW q \in Seq(Colors) \cup {NoFile}, NEW l \in Colors
  PROVE  /\ (IF l = 1 \/ q = NoFile THEN <<>> ELSE q) \o <<l>> \in Seq(Colors)
         /\ (IF l = 1 \/ q = NoFile THEN <<>> ELSE q) \o <<>> \in Seq(Colors)
OBVIOUS

\* A parse makes a table of a table, and of N lines a whole one.
LEMMA ParsedTables ==
  ASSUME NEW t \in [Colors -> Entry], NEW lines \in Seq(Colors)
  PROVE  /\ Parsed(t, lines) \subseteq [Colors -> Entry]
         /\ Len(lines) >= N => Parsed(t, lines) = {[c \in Colors |-> Whole(lines[c])]}
<1> DEFINE k == Len(lines)
<1> DEFINE read == [c \in Colors |-> IF c <= k THEN Whole(lines[c]) ELSE t[c]]
<1>1. N \in Nat /\ N > 1 /\ k \in Nat
  BY XwAssumption
<1>2. \A c \in Colors : c <= k => lines[c] \in Colors
  BY <1>1 DEF Colors
<1>3. \A c \in Colors : Whole(c) \in Entry /\ <<"torn", c>> \in Entry
  BY DEF Whole, Entry
<1>4. Junk \in Entry
  BY DEF Entry
<1>5. read \in [Colors -> Entry]
  BY <1>2, <1>3
<1>6. CASE k >= N
  <2>1. \A c \in Colors : c <= k
    BY <1>1, <1>6 DEF Colors
  <2>2. read = [c \in Colors |-> Whole(lines[c])]
    BY <2>1
  <2>3. Parsed(t, lines) = {read}
    BY <1>6 DEF Parsed
  <2> QED
    BY <1>5, <2>2, <2>3
<1>7. CASE k > 0 /\ ~(k >= N)
  <2>1. Parsed(t, lines) = {[read EXCEPT ![k + 1] = <<"torn", lines[k]>>]}
    BY <1>7 DEF Parsed
  <2>2. k \in Colors
    BY <1>1, <1>7 DEF Colors
  <2>3. <<"torn", lines[k]>> \in Entry
    BY <1>1, <1>2, <1>3, <2>2
  <2> HIDE DEF read
  <2> QED
    BY <1>5, <1>7, <2>1, <2>3
<1>8. CASE k = 0
  <2>1. Parsed(t, lines) =
          {t, [t EXCEPT ![1] = Junk], [t EXCEPT ![1] = Junk, ![2] = Junk]}
    BY <1>1, <1>8 DEF Parsed
  <2>2. /\ t \in [Colors -> Entry] /\ [t EXCEPT ![1] = Junk] \in [Colors -> Entry]
        /\ [t EXCEPT ![1] = Junk, ![2] = Junk] \in [Colors -> Entry]
    BY <1>4
  <2>3. ~(k >= N)
    BY <1>1, <1>8
  <2> QED
    BY <2>1, <2>2, <2>3
<1> QED
  BY <1>1, <1>6, <1>7, <1>8

\* The variables start in their ranges,
LEMMA InitTypes == Init => TypeOK /\ Attempts
<1> SUFFICES ASSUME Init PROVE TypeOK /\ Attempts
  OBVIOUS
<1>1. 1 \in Colors /\ N \in Nat /\ InitRetries \in Nat
  BY XwAssumption DEF Colors
<1>2. DefaultTable \in [Colors -> Entry]
  BY DEF DefaultTable, Entry
<1> QED
  BY <1>1, <1>2 DEF Init, TypeOK, Attempts, Labels, Outside

\* and every step keeps them there.
LEMMA TypesKept == TypeOK /\ Attempts /\ [Next]_vars => TypeOK' /\ Attempts'
<1> SUFFICES ASSUME TypeOK, Attempts, [Next]_vars PROVE TypeOK' /\ Attempts'
  OBVIOUS
<1> USE DEF TypeOK, Attempts, Labels, Outside
<1>0. 1 \in Colors /\ N \in Nat /\ InitRetries \in Nat /\ InitRetries > 0
  BY XwAssumption DEF Colors
<1>a. \A p \in Procs : retry[p] \in Nat /\ retry[p] > 0 /\ count[p] \in Nat
  BY <1>0
<1>1. ASSUME NEW p \in Procs, NEW r \in {1, InitRetries}, Call(p, r)
      PROVE  TypeOK' /\ Attempts'
  BY <1>0, <1>1 DEF Call, fileVars
<1>2. ASSUME NEW p \in Procs, ledmgr_init(p) PROVE TypeOK' /\ Attempts'
  <2>1. CASE Call(p, InitRetries)
    BY <1>1, <2>1
  <2>2. CASE ~Call(p, InitRetries)
    BY <1>2, <2>2 DEF ledmgr_init, fileVars
  <2> QED
    BY <2>1, <2>2
<1>3. ASSUME NEW p \in Procs, Request(p) PROVE TypeOK' /\ Attempts'
  BY <1>1, <1>3 DEF Request
<1>4. ASSUME NEW p \in Procs, Access(p) PROVE TypeOK' /\ Attempts'
  <2>1. /\ pc' = [pc EXCEPT ![p] = pc'[p]] /\ pc'[p] \in {"parse", "get", "grep"}
        /\ pc'[p] = "get" => ~(count[p] > retry[p])
    BY <1>4 DEF Access, Goto
  <2>2. pc' \in [Procs -> Labels]
    BY <2>1
  <2>3. UNCHANGED <<retry, count>>
    BY <1>4 DEF Access
  <2>4. Attempts'
    <3> SUFFICES ASSUME NEW q \in Procs, pc'[q] \in {"get", "fill"}
                 PROVE  count[q] <= retry[q]
      BY <2>3
    <3>1. CASE q = p
      BY <1>a, <2>1, <3>1
    <3>2. CASE q # p
      BY <2>1, <3>2
    <3> QED
      BY <3>1, <3>2
  <2> QED
    BY <1>4, <2>2, <2>4 DEF Access, fileVars
<1>5. ASSUME NEW p \in Procs, GetFails(p) PROVE TypeOK' /\ Attempts'
  <2>1. count' \in [Procs -> Nat] /\ \A q \in Procs : count'[q] <= retry[q] + 1
    BY <1>5, <1>a DEF GetFails
  <2>2. pc' \in [Procs -> Labels] /\ Attempts'
    BY <1>5, <1>a DEF GetFails, Goto
  <2> QED
    BY <1>5, <2>1, <2>2 DEF GetFails, fileVars
<1>6. ASSUME NEW p \in Procs, Get(p) \/ Fill(p) PROVE TypeOK' /\ Attempts'
  BY <1>6 DEF Get, Fill, Goto
<1>7. ASSUME NEW p \in Procs, Grep(p) PROVE TypeOK' /\ Attempts'
  <2>1. conf' \in Seq(Colors)
    BY <1>7, GrepLines DEF Grep
  <2>2. line' \in [Procs -> Colors]
    BY <1>0, <1>7 DEF Grep, Colors
  <2> QED
    BY <1>7, <2>1, <2>2 DEF Grep, Goto
<1>8. ASSUME NEW p \in Procs, Parse(p) PROVE TypeOK' /\ Attempts'
  <2>1. table' \in [Procs -> [Colors -> Entry]] /\ inited' \in [Procs -> BOOLEAN]
    <3>1. CASE conf = NoFile
      BY <1>8, <3>1 DEF Parse
    <3>2. CASE conf # NoFile
      <4>1. PICK t \in Parsed(table[p], conf) : table' = [table EXCEPT ![p] = t]
        BY <1>8, <3>2 DEF Parse
      <4>2. conf \in Seq(Colors) /\ table[p] \in [Colors -> Entry]
        BY <3>2
      <4>3. t \in [Colors -> Entry]
        BY <4>1, <4>2, ParsedTables
      <4>4. table' \in [Procs -> [Colors -> Entry]]
        BY <4>1, <4>3
      <4>5. inited' \in [Procs -> BOOLEAN]
        <5> DEFINE b == Len(conf) >= N
        <5>1. inited' = [inited EXCEPT ![p] = b]
          BY <1>8, <3>2 DEF Parse
        <5>2. b \in BOOLEAN
          OBVIOUS
        <5> HIDE DEF b
        <5> QED
          BY <5>1, <5>2
      <4> QED
        BY <4>4, <4>5
    <3> QED
      BY <3>1, <3>2
  <2>2. count' \in [Procs -> Nat] /\ \A q \in Procs : count'[q] <= retry'[q] + 1
    BY <1>8, <1>0, <1>a DEF Parse, Leave
  <2>3. pc' \in [Procs -> Labels] /\ retry' \in [Procs -> {1, InitRetries}]
    BY <1>8 DEF Parse, Leave, Goto
  <2>4. Attempts'
    BY <1>8, <1>a DEF Parse, Leave, Goto
  <2>5. solo' \in [Procs -> BOOLEAN] /\ owner' \in Procs \cup {Nobody}
    BY <1>8 DEF Parse, Leave
  <2> QED
    BY <1>8, <2>1, <2>2, <2>3, <2>4, <2>5 DEF Parse, Leave, fileVars
<1>9. ASSUME NEW p \in Procs, Die(p) PROVE TypeOK' /\ Attempts'
  <2>1. DefaultTable \in [Colors -> Entry]
    BY DEF DefaultTable, Entry
  <2> QED
    BY <1>0, <1>9, <2>1 DEF Die, Goto, fileVars
<1>10. CASE UNCHANGED vars
  BY <1>10 DEF vars, fileVars, callVars
<1> QED
  BY <1>2, <1>3, <1>4, <1>5, <1>6, <1>7, <1>8, <1>9, <1>10 DEF Next, Step

\* Both hold in every reachable state.
THEOREM XwTypeInvariance == Spec => [](TypeOK /\ Attempts)
BY InitTypes, TypesKept, PTL DEF Spec

\* Type correctness; a call makes no more attempts than it was told to.
THEOREM XwTypeCorrect == Spec => []TypeOK
BY XwTypeInvariance, PTL

-----------------------------------------------------------------------------
\* Only the parse of N lines makes a process believe in its colours.
LEMMA NothingTornStep == TypeOK /\ NothingTornKept /\ [Next]_vars => NothingTornKept'
<1> SUFFICES ASSUME TypeOK, NothingTornKept, [Next]_vars PROVE NothingTornKept'
  OBVIOUS
<1>1. ASSUME UNCHANGED <<table, inited>> PROVE NothingTornKept'
  BY <1>1 DEF NothingTornKept
<1>2. ASSUME NEW p \in Procs, ledmgr_init(p) \/ Request(p) PROVE NothingTornKept'
  BY <1>1, <1>2 DEF ledmgr_init, Request, Call
<1>3. ASSUME NEW p \in Procs, Access(p) \/ GetFails(p) \/ Get(p) \/ Fill(p) \/ Grep(p)
      PROVE  NothingTornKept'
  BY <1>1, <1>3 DEF Access, GetFails, Get, Fill, Grep
<1>4. ASSUME NEW p \in Procs, Parse(p), conf # NoFile PROVE NothingTornKept'
  <2>1. PICK t \in Parsed(table[p], conf) : table' = [table EXCEPT ![p] = t]
    BY <1>4 DEF Parse
  <2>2. inited' = [inited EXCEPT ![p] = Len(conf) >= N]
    BY <1>4 DEF Parse
  <2>3. conf \in Seq(Colors) /\ table[p] \in [Colors -> Entry]
    BY <1>4 DEF TypeOK
  <2>4. inited'[p] => \A c \in Colors : table'[p][c][1] = "line"
    <3> SUFFICES ASSUME inited'[p] PROVE \A c \in Colors : table'[p][c][1] = "line"
      OBVIOUS
    <3>1. Len(conf) >= N
      BY <2>2 DEF TypeOK
    <3>2. table'[p] = [c \in Colors |-> Whole(conf[c])]
      BY <2>1, <2>3, <3>1, ParsedTables DEF TypeOK
    <3> QED
      BY <3>2 DEF Whole
  <2> QED
    BY <2>1, <2>2, <2>4 DEF NothingTornKept, TypeOK
<1>5. ASSUME NEW p \in Procs, Parse(p), conf = NoFile PROVE NothingTornKept'
  BY <1>1, <1>5 DEF Parse
<1>6. ASSUME NEW p \in Procs, Die(p) PROVE NothingTornKept'
  BY <1>6 DEF Die, NothingTornKept, TypeOK
<1>7. CASE UNCHANGED vars
  BY <1>1, <1>7 DEF vars
<1> QED
  BY <1>2, <1>3, <1>4, <1>5, <1>6, <1>7 DEF Next, Step

\* No process takes a table filled in part, or from the stack, for its colours.
THEOREM NothingTorn == Spec => []NothingTornKept
<1>1. Init => NothingTornKept
  BY DEF Init, NothingTornKept
<1> QED
  BY <1>1, NothingTornStep, XwTypeCorrect, PTL DEF Spec
-----------------------------------------------------------------------------
\* The lines q are those of the first l colours.
InOrder(q, l) == q \in Seq(Colors) /\ Len(q) = l /\ \A i \in 1..l : q[i] = i

\* Who has been alone still is, and so is who was the last to leave.
StillAlone ==
  /\ \A p \in Procs : solo[p] =>
       pc[p] \notin Outside /\ \A o \in Procs \ {p} : pc[o] \in Outside
  /\ owner # Nobody => \A o \in Procs : pc[o] \in Outside

\* What holds whoever is at work: before the first copy there is nothing to
\* grep; greps start at the first line; who believes in its colours is done.
Anyway ==
  /\ copy = "absent" => conf = NoFile /\ \A p \in Procs : pc[p] \notin {"fill", "grep"}
  /\ \A p \in Procs : /\ pc[p] # "grep" => line[p] = 1
                      /\ pc[p] # "idle" => ~inited[p]

\* The lines q are what greps up to the l-th make of a copy like c.
Grepped(c, q, l) == \/ c = "full" /\ InOrder(q, l)
                    \/ c = "empty" /\ q = <<>>

\* How far a process that is alone has got.
SoloWork ==
  \A p \in Procs : solo[p] =>
    /\ pc[p] = "get" => copy = "absent"
    /\ pc[p] = "access" /\ count[p] > retry[p] => copy = "absent"
    /\ pc[p] = "grep" /\ line[p] > 1 => Grepped(copy, conf, line[p] - 1)
    /\ pc[p] = "parse" => copy = "absent" \/ Grepped(copy, conf, N)

\* All of it, with the promise.
SoloInv == StillAlone /\ Anyway /\ SoloWork /\ SoloGetsColors

\* One line more.
LEMMA OneLineMore ==
  ASSUME NEW l \in Colors, NEW q \in Seq(Colors) \cup {NoFile},
         l > 1 => InOrder(q, l - 1)
  PROVE  InOrder((IF l = 1 \/ q = NoFile THEN <<>> ELSE q) \o <<l>>, l)
<1>1. l \in Nat /\ l > 0 /\ NoFile \notin Seq(Colors)
  BY XwAssumption DEF Colors
<1>2. CASE l = 1
  <2>1. <<>> \o <<l>> = <<1>> /\ <<1>> \in Seq(Colors)
    BY <1>2
  <2> QED
    BY <1>2, <2>1 DEF InOrder
<1>3. CASE l > 1
  <2> DEFINE r == q \o <<l>>
  <2>1. q \in Seq(Colors) /\ Len(q) = l - 1 /\ \A i \in 1..(l - 1) : q[i] = i
    BY <1>3 DEF InOrder
  <2>2. r \in Seq(Colors) /\ Len(r) = Len(q) + 1
    BY <2>1
  <2>3. \A i \in 1..(Len(q) + 1) : r[i] = IF i <= Len(q) THEN q[i] ELSE l
    BY <2>1
  <2> HIDE DEF r
  <2>4. InOrder(r, l)
    BY <1>1, <2>1, <2>2, <2>3 DEF InOrder
  <2> QED
    BY <1>1, <1>3, <2>1, <2>4 DEF r
<1> QED
  BY <1>1, <1>2, <1>3

\* A call starts alone where everybody else is outside.
LEMMA SoloCall ==
  ASSUME TypeOK, SoloInv, NEW p \in Procs, NEW r \in {1, InitRetries}, Call(p, r),
         pc[p] \in Outside, ~inited[p]
  PROVE  SoloInv'
<1> USE DEF SoloInv, TypeOK
<1>1. pc' = [pc EXCEPT ![p] = "access"] /\ count'[p] = 1 /\ retry'[p] = r
  BY DEF Call
<1>2. r \in Nat /\ ~(1 > r)
  BY XwAssumption
<1>3. \A q \in Procs : solo'[q] => q = p /\ \A o \in Procs : pc[o] \in Outside
  BY DEF Call
<1>4. owner' = Nobody /\ UNCHANGED <<copy, conf, line, table, inited>>
  BY DEF Call, fileVars
<1>5. StillAlone'
  BY <1>1, <1>3, <1>4 DEF StillAlone, Outside
<1>6. Anyway'
  BY <1>1, <1>4 DEF Anyway, Outside
<1>7. SoloWork'
  BY <1>1, <1>2, <1>3 DEF SoloWork
<1>8. SoloGetsColors'
  BY <1>4 DEF SoloGetsColors
<1> QED
  BY <1>5, <1>6, <1>7, <1>8

\* Who is alone goes on as it should, and nobody else can take a step.
LEMMA SoloStep ==
  ASSUME TypeOK, Attempts, SoloInv, NEW p \in Procs, Step(p), pc[p] # "parse"
  PROVE  SoloInv'
<1> USE DEF SoloInv
<1>1. pc[p] \notin Outside /\ UNCHANGED <<retry, table, inited, solo, owner>>
  BY DEF Step, Access, GetFails, Get, Fill, Grep, Parse, Outside
<1>2. owner = Nobody /\ (\A q \in Procs \ {p} : ~solo[q])
  BY <1>1 DEF StillAlone
<1>3. /\ pc' = [pc EXCEPT ![p] = pc'[p]]
      /\ pc'[p] \in {"access", "get", "fill", "grep", "parse"}
  BY DEF Step, Access, GetFails, Get, Fill, Grep, Parse, Goto, TypeOK
<1>4. StillAlone'
  BY <1>1, <1>2, <1>3 DEF StillAlone, Outside, TypeOK
<1>5. SoloGetsColors'
  BY <1>1, <1>2 DEF SoloGetsColors
<1>6. ASSUME solo[p] => /\ pc'[p] = "get" => copy' = "absent"
                        /\ pc'[p] = "access" /\ count'[p] > retry[p] => copy' = "absent"
                        /\ pc'[p] = "grep" /\ line'[p] > 1 => Grepped(copy', conf', line'[p] - 1)
                        /\ pc'[p] = "parse" => copy' = "absent" \/ Grepped(copy', conf', N)
      PROVE  SoloWork'
  <2> SUFFICES ASSUME NEW q \in Procs, solo'[q]
               PROVE  /\ pc'[q] = "get" => copy' = "absent"
                      /\ pc'[q] = "access" /\ count'[q] > retry'[q] => copy' = "absent"
                      /\ pc'[q] = "grep" /\ line'[q] > 1
                           => Grepped(copy', conf', line'[q] - 1)
                      /\ pc'[q] = "parse" => copy' = "absent" \/ Grepped(copy', conf', N)
    BY DEF SoloWork
  <2>1. q = p /\ retry' = retry /\ solo[p]
    BY <1>1, <1>2
  <2> QED
    BY <1>6, <2>1
<1>7. retry[p] \in Nat /\ count[p] \in Nat /\ line[p] \in Colors /\ N \in Nat
  <2>1. InitRetries \in Nat /\ N \in Nat
    BY XwAssumption
  <2>2. retry[p] \in {1, InitRetries} /\ count[p] \in Nat /\ line[p] \in Colors
    BY DEF TypeOK
  <2> QED
    BY <2>1, <2>2
<1>8. CASE Access(p)
  <2>1. /\ UNCHANGED <<copy, conf, count, line>> /\ pc[p] = "access"
        /\ pc'[p] = IF count[p] > retry[p] THEN "parse"
                    ELSE IF copy = "absent" THEN "get" ELSE "grep"
    BY <1>8 DEF Access, Goto, fileVars, TypeOK
  <2>2. Anyway'
    BY <1>1, <1>3, <2>1 DEF Anyway, TypeOK
  <2>3. line[p] = 1
    BY <2>1 DEF Anyway
  <2>4. SoloWork'
    BY <1>6, <2>1, <2>3 DEF SoloWork
  <2> QED
    BY <1>4, <1>5, <2>2, <2>4
<1>9. CASE GetFails(p)
  <2>1. UNCHANGED <<copy, conf, line>> /\ pc[p] = "get" /\ pc'[p] = "access"
    BY <1>9 DEF GetFails, Goto, fileVars, TypeOK
  <2>2. Anyway'
    BY <1>1, <1>3, <2>1 DEF Anyway, TypeOK
  <2>3. SoloWork'
    BY <1>6, <2>1 DEF SoloWork
  <2> QED
    BY <1>4, <1>5, <2>2, <2>3
<1>10. CASE Get(p) \/ Fill(p)
  <2>1. /\ UNCHANGED <<conf, line, count>> /\ copy' # "absent"
        /\ pc[p] \in {"get", "fill"} /\ pc'[p] \in {"fill", "access"}
    BY <1>10 DEF Get, Fill, Goto, TypeOK
  <2>2. Anyway'
    BY <1>1, <1>3, <2>1 DEF Anyway, TypeOK
  <2>3. count[p] <= retry[p]
    BY <2>1 DEF Attempts
  <2>4. ~(count'[p] > retry[p])
    BY <1>7, <2>1, <2>3
  <2>5. SoloWork'
    BY <1>6, <2>1, <2>4
  <2> QED
    BY <1>4, <1>5, <2>2, <2>5
<1>11. CASE Grep(p)
  <2> DEFINE l == line[p]
  <2>1. /\ pc[p] = "grep" /\ copy' = copy /\ count' = count
        /\ pc'[p] = IF l < N THEN "grep" ELSE "parse"
        /\ line' = [line EXCEPT ![p] = IF l < N THEN l + 1 ELSE 1]
        /\ conf' = (IF l = 1 \/ conf = NoFile THEN <<>> ELSE conf)
                   \o (IF copy = "full" THEN <<l>> ELSE <<>>)
    BY <1>11 DEF Grep, Goto, TypeOK
  <2>2. copy \in {"empty", "full"} /\ conf \in Seq(Colors) \cup {NoFile}
    BY <2>1 DEF Anyway, TypeOK
  <2>3. line'[p] = IF l < N THEN l + 1 ELSE 1
    BY <2>1 DEF TypeOK
  <2>4. Anyway'
    BY <1>1, <1>3, <2>1, <2>2, <2>3 DEF Anyway, TypeOK
  <2>5. solo[p] => Grepped(copy', conf', l)
    <3> SUFFICES ASSUME solo[p] PROVE Grepped(copy', conf', l)
      OBVIOUS
    <3>1. l > 1 => Grepped(copy, conf, l - 1)
      BY <2>1 DEF SoloWork
    <3>2. CASE copy = "full"
      <4>1. conf' = (IF l = 1 \/ conf = NoFile THEN <<>> ELSE conf) \o <<l>>
        BY <2>1, <3>2
      <4>2. l > 1 => InOrder(conf, l - 1)
        BY <3>1, <3>2 DEF Grepped
      <4>3. InOrder(conf', l)
        BY <1>7, <2>2, <4>1, <4>2, OneLineMore
      <4>4. copy' = "full"
        BY <2>1, <3>2
      <4> QED
        BY <4>3, <4>4 DEF Grepped
    <3>3. CASE copy = "empty"
      <4>1. l > 1 => conf = <<>>
        BY <3>1, <3>3 DEF Grepped
      <4>2. conf' = <<>> \o <<>>
        BY <1>7, <2>1, <3>3, <4>1 DEF Colors
      <4>3. conf' = <<>> /\ copy' = "empty"
        BY <2>1, <3>3, <4>2
      <4> QED
        BY <4>3 DEF Grepped
    <3> QED
      BY <2>2, <3>2, <3>3
  <2>6. CASE l < N
    <3>1. line'[p] - 1 = l
      BY <1>7, <2>3, <2>6 DEF Colors
    <3>2. solo[p] => Grepped(copy', conf', line'[p] - 1)
      BY <2>5, <3>1
    <3> QED
      BY <1>4, <1>5, <1>6, <2>1, <2>4, <2>6, <3>2
  <2>7. CASE l = N
    <3>1. pc'[p] = "parse" /\ (solo[p] => Grepped(copy', conf', N))
      BY <1>7, <2>1, <2>5, <2>7
    <3> QED
      BY <1>4, <1>5, <1>6, <2>4, <3>1
  <2> QED
    BY <1>7, <2>6, <2>7 DEF Colors
<1> QED
  BY <1>8, <1>9, <1>10, <1>11 DEF Step, Parse

\* An empty file is no absent one, and has too few lines.
LEMMA EmptyFile == <<>> # NoFile /\ ~(Len(<<>>) >= N)
<1>1. N \in Nat /\ N > 0 /\ NoFile \notin Seq(Colors)
  BY XwAssumption
<1>2. <<>> # NoFile
  <2>1. <<>> \in Seq(Colors)
    OBVIOUS
  <2> QED
    BY <1>1, <2>1, Zenon
<1>3. ~(Len(<<>>) >= N)
  BY <1>1
<1> QED
  BY <1>2, <1>3, Zenon

\* What it has found when it leaves is what there was.
LEMMA SoloParse ==
  ASSUME TypeOK, SoloInv, NEW p \in Procs, Parse(p) PROVE SoloInv'
<1> USE DEF SoloInv
<1>1. /\ pc[p] = "parse" /\ UNCHANGED <<copy, conf, line>>
      /\ pc' = [pc EXCEPT ![p] = "idle"] /\ solo' = [solo EXCEPT ![p] = FALSE]
      /\ owner' = IF solo[p] THEN p ELSE Nobody
  BY DEF Parse, Leave, Goto, fileVars
<1>2. \A q \in Procs \ {p} : inited'[q] = inited[q] /\ solo'[q] = solo[q]
  BY <1>1 DEF Parse, TypeOK
<1>3. \A q \in Procs \ {p} : ~solo[q]
  BY <1>1 DEF StillAlone, Outside
<1>4. StillAlone'
  BY <1>1, <1>2, <1>3, XwAssumption DEF StillAlone, Outside, TypeOK
<1>5. Anyway'
  BY <1>1, <1>2 DEF Anyway, TypeOK
<1>6. SoloWork'
  BY <1>1, <1>2, <1>3 DEF SoloWork, TypeOK
<1>7. SoloGetsColors'
  <2> SUFFICES ASSUME solo[p]
               PROVE  IF copy = "full"
                        THEN inited'[p] /\ table'[p] = [c \in Colors |-> Whole(c)]
                        ELSE ~inited'[p]
    BY <1>1 DEF SoloGetsColors
  <2>1. copy = "absent" \/ Grepped(copy, conf, N)
    BY <1>1 DEF SoloWork
  <2>2. CASE copy = "absent"
    <3>1. conf = NoFile /\ ~inited[p]
      BY <1>1, <2>2 DEF Anyway
    <3> QED
      BY <2>2, <3>1 DEF Parse
  <2>3. CASE copy = "empty" /\ conf = <<>>
    <3>3. conf # NoFile /\ ~(Len(conf) >= N)
      BY <2>3, EmptyFile, Zenon
    <3> QED
      BY <2>3, <3>3 DEF Parse, TypeOK
  <2>4. CASE copy = "full" /\ InOrder(conf, N)
    <3>1. /\ conf # NoFile /\ conf \in Seq(Colors) /\ Len(conf) >= N
          /\ \A c \in Colors : conf[c] = c
      BY <2>4, XwAssumption DEF InOrder, Colors
    <3>2. table[p] \in [Colors -> Entry]
      BY DEF TypeOK
    <3>3. Parsed(table[p], conf) = {[c \in Colors |-> Whole(conf[c])]}
      BY <3>1, <3>2, ParsedTables
    <3>4. [c \in Colors |-> Whole(conf[c])] = [c \in Colors |-> Whole(c)]
      BY <3>1
    <3>5. PICK t \in Parsed(table[p], conf) : table' = [table EXCEPT ![p] = t]
      BY <3>1 DEF Parse
    <3>6. table'[p] = [c \in Colors |-> Whole(c)]
      BY <3>3, <3>4, <3>5 DEF TypeOK
    <3>7. inited'[p]
      BY <3>1 DEF Parse, TypeOK
    <3> QED
      BY <2>4, <3>6, <3>7
  <2> QED
    BY <2>1, <2>2, <2>3, <2>4 DEF Grepped
<1> QED
  BY <1>4, <1>5, <1>6, <1>7

\* Who dies gives up what it claimed, and nobody else's claim.
LEMMA SoloDie == ASSUME TypeOK, SoloInv, NEW p \in Procs, Die(p) PROVE SoloInv'
<1> USE DEF SoloInv
<1>1. /\ pc' = [pc EXCEPT ![p] = "start"] /\ solo' = [solo EXCEPT ![p] = FALSE]
      /\ line' = [line EXCEPT ![p] = 1] /\ inited' = [inited EXCEPT ![p] = FALSE]
      /\ owner' = IF owner = p THEN Nobody ELSE owner
      /\ UNCHANGED <<copy, conf>>
  BY DEF Die, Goto, fileVars
<1>2. \A q \in Procs \ {p} : /\ table'[q] = table[q] /\ retry'[q] = retry[q]
                             /\ count'[q] = count[q]
  BY DEF Die, TypeOK
<1>3. StillAlone'
  BY <1>1 DEF StillAlone, Outside, TypeOK
<1>4. Anyway'
  BY <1>1 DEF Anyway, TypeOK
<1>5. SoloWork'
  BY <1>1, <1>2 DEF SoloWork, Grepped, InOrder, TypeOK
<1>6. SoloGetsColors'
  BY <1>1, <1>2 DEF SoloGetsColors, TypeOK
<1> QED
  BY <1>3, <1>4, <1>5, <1>6

\* A process that had the files for itself gets the colours of the XW if there
\* is a whole copy of them, and knows that it has none if there is not.
THEOREM SoloGets == Spec => []SoloGetsColors
<1>1. Init => SoloInv
  BY DEF Init, SoloInv, StillAlone, Anyway, SoloWork, SoloGetsColors
<1>2. TypeOK /\ Attempts /\ SoloInv /\ [Next]_vars => SoloInv'
  <2> SUFFICES ASSUME TypeOK, Attempts, SoloInv, [Next]_vars PROVE SoloInv'
    OBVIOUS
  <2>1. ASSUME NEW p \in Procs, ledmgr_init(p) PROVE SoloInv'
    <3>1. pc[p] = "start" /\ ~inited[p]
      BY <2>1 DEF ledmgr_init, SoloInv, Anyway
    <3>2. CASE Call(p, InitRetries)
      BY <3>1, <3>2, SoloCall DEF Outside
    <3>3. CASE ~Call(p, InitRetries)
      <4>1. /\ pc' = [pc EXCEPT ![p] = "idle"]
            /\ UNCHANGED <<copy, conf, retry, count, line, table, inited, solo, owner>>
        BY <2>1, <3>3 DEF ledmgr_init, fileVars
      <4>2. StillAlone'
        BY <3>1, <4>1 DEF SoloInv, StillAlone, Outside, TypeOK
      <4>3. Anyway'
        BY <3>1, <4>1 DEF SoloInv, Anyway, TypeOK
      <4>4. SoloWork'
        BY <3>1, <4>1 DEF SoloInv, SoloWork, Grepped, InOrder, TypeOK
      <4>5. SoloGetsColors'
        BY <4>1 DEF SoloInv, SoloGetsColors
      <4> QED
        BY <4>2, <4>3, <4>4, <4>5 DEF SoloInv
    <3> QED
      BY <3>2, <3>3
  <2>2. ASSUME NEW p \in Procs, Request(p) PROVE SoloInv'
    BY <2>2, SoloCall DEF Request, Outside
  <2>3. ASSUME NEW p \in Procs, Step(p) PROVE SoloInv'
    <3>1. CASE pc[p] = "parse"
      BY <2>3, <3>1, SoloParse DEF Step, Access, GetFails, Get, Fill, Grep
    <3>2. CASE pc[p] # "parse"
      BY <2>3, <3>2, SoloStep
    <3> QED
      BY <3>1, <3>2
  <2>4. ASSUME NEW p \in Procs, Die(p) PROVE SoloInv'
    BY <2>4, SoloDie
  <2>5. CASE UNCHANGED vars
    BY <2>5 DEF vars, fileVars, callVars, SoloInv, StillAlone, Anyway, SoloWork,
                SoloGetsColors, Grepped, InOrder
  <2> QED
    BY <2>1, <2>2, <2>3, <2>4, <2>5 DEF Next
<1>3. SoloInv => SoloGetsColors
  BY DEF SoloInv
<1> QED
  BY <1>1, <1>2, <1>3, XwTypeInvariance, PTL DEF Spec
-----------------------------------------------------------------------------
(* Why led_xw_init ends, as InitReturns says it does, though the attempt   *)
(* that fetches the file does not count: nothing removes the copy, so it   *)
(* is fetched once, by this call or by another process.                    *)

\* A bound on the steps p's call has still to make: two for every attempt left
\* while there is no copy, and the lines to grep.
Left(p) ==
  CASE pc[p] = "parse"  -> 1
    [] pc[p] = "grep"   -> N + 2 - line[p]
    [] pc[p] = "fill"   -> N + 3
    [] pc[p] = "get"    -> IF copy # "absent" THEN N + 4
                           ELSE N + 5 + 2 * (retry[p] - count[p])
    [] pc[p] = "access" -> IF count[p] > retry[p] THEN 2
                           ELSE IF copy # "absent" THEN N + 2
                           ELSE N + 6 + 2 * (retry[p] - count[p])
    [] OTHER            -> 0

Longest == N + 4 + 2 * InitRetries

\* A step of p shortens its call, and no other process lengthens it, whatever
\* it does to the two files.
Shortens ==
  \A p \in Procs : pc[p] \notin Outside =>
    /\ Left(p) \in 1..Longest /\ Left(p)' <= Left(p)
    /\ Step(p) => Left(p)' < Left(p)

\* Left is positive in a call, and a call starts with at most Longest steps.
InRange ==
  \A p \in Procs : /\ Left(p) \in 0..Longest
                   /\ pc[p] \notin Outside => Left(p) > 0

\* It is so in every state.
LEMMA LeftRange == TypeOK /\ Attempts => InRange
<1> SUFFICES ASSUME TypeOK, Attempts, NEW p \in Procs
             PROVE  /\ Left(p) \in 0..Longest
                    /\ pc[p] \notin Outside => Left(p) > 0
  BY Zenon DEF InRange
<1>1. /\ N \in Nat /\ N > 1 /\ InitRetries \in Nat /\ InitRetries > 0
      /\ line[p] \in Nat /\ line[p] >= 1 /\ line[p] <= N
      /\ count[p] \in Nat /\ retry[p] \in Nat /\ retry[p] <= InitRetries
  BY XwAssumption DEF TypeOK, Colors
<1>2. pc[p] \in Labels
  BY DEF TypeOK
<1>3. pc[p] \in {"get", "fill"} => count[p] <= retry[p]
  BY DEF Attempts
<1>4. count[p] >= 1
  BY DEF Attempts
<1> QED
  BY <1>1, <1>2, <1>3, <1>4 DEF Left, Longest, Labels, Outside

\* A step of p shortens the call of p.
LEMMA OwnStep ==
  ASSUME TypeOK, Attempts, NEW p \in Procs, Step(p) PROVE Left(p)' < Left(p)
<1>1. /\ N \in Nat /\ N > 1 /\ line[p] \in Nat /\ line[p] >= 1 /\ line[p] <= N
      /\ count[p] \in Nat /\ retry[p] \in Nat
  <2>1. line[p] \in 1..N /\ retry[p] \in {1, InitRetries} /\ count[p] \in Nat
    BY DEF TypeOK, Colors
  <2> QED
    BY <2>1, XwAssumption
<1>2. pc' = [pc EXCEPT ![p] = pc'[p]] /\ pc \in [Procs -> Labels]
  BY DEF Step, Access, GetFails, Get, Fill, Grep, Parse, Leave, Goto, TypeOK
<1>3. CASE Access(p)
  BY <1>1, <1>3 DEF Access, Goto, Left, TypeOK, fileVars
<1>4. CASE GetFails(p)
  <2>1. /\ pc[p] = "get" /\ pc'[p] = "access" /\ copy' = copy
        /\ retry'[p] = retry[p] /\ count'[p] = count[p] + 1
    BY <1>4 DEF GetFails, Goto, TypeOK, fileVars
  <2>2. count[p] <= retry[p]
    BY <2>1 DEF Attempts
  <2> QED
    BY <1>1, <2>1, <2>2 DEF Left
<1>5. CASE Get(p)
  <2>1. pc[p] = "get" /\ pc'[p] = "fill" /\ count[p] <= retry[p]
    BY <1>5 DEF Get, Goto, TypeOK, Attempts
  <2> QED
    BY <1>1, <2>1 DEF Left
<1>6. CASE Fill(p)
  BY <1>1, <1>6 DEF Fill, Goto, Left, TypeOK
<1>7. CASE Grep(p)
  <2>1. /\ pc[p] = "grep"
        /\ line[p] < N => pc'[p] = "grep" /\ line'[p] = line[p] + 1
        /\ ~(line[p] < N) => pc'[p] = "parse"
    BY <1>7 DEF Grep, Goto, TypeOK
  <2> QED
    BY <1>1, <2>1 DEF Left
<1>8. CASE Parse(p)
  BY <1>8 DEF Parse, Leave, Goto, Left, TypeOK
<1> QED
  BY <1>3, <1>4, <1>5, <1>6, <1>7, <1>8 DEF Step

\* What another process does leaves p's place in its call alone, and the copy,
\* once there, there.
LEMMA OthersStep ==
  ASSUME TypeOK, Attempts, NEW p \in Procs, NEW q \in Procs \ {p},
         ledmgr_init(q) \/ Request(q) \/ Step(q) \/ Die(q)
  PROVE  Left(p)' <= Left(p)
<1>1. /\ pc'[p] = pc[p] /\ retry'[p] = retry[p] /\ count'[p] = count[p]
      /\ line'[p] = line[p]
  <2> USE DEF TypeOK
  <2>1. CASE ledmgr_init(q) \/ Request(q)
    BY <2>1 DEF ledmgr_init, Request, Call
  <2>2. CASE Access(q) \/ GetFails(q) \/ Get(q) \/ Fill(q)
    BY <2>2 DEF Access, GetFails, Get, Fill, Goto
  <2>3. CASE Grep(q) \/ Parse(q)
    BY <2>3 DEF Grep, Parse, Leave, Goto
  <2>4. CASE Die(q)
    BY <2>4 DEF Die, Goto
  <2> QED
    BY <2>1, <2>2, <2>3, <2>4 DEF Step
<1>2. copy # "absent" => copy' # "absent"
  <2>1. CASE ledmgr_init(q) \/ Request(q) \/ Die(q)
    BY <2>1 DEF ledmgr_init, Request, Call, Die, fileVars
  <2>2. CASE Step(q)
    BY <2>2 DEF Step, Access, GetFails, Get, Fill, Grep, Parse, Leave, fileVars
  <2> QED
    BY <2>1, <2>2
<1>3. /\ N \in Nat /\ N > 1 /\ line[p] \in Nat /\ count[p] \in Nat
      /\ retry[p] \in Nat /\ pc[p] \in Labels
  BY XwAssumption DEF TypeOK, Colors
<1>4. pc[p] \in {"get", "fill"} => count[p] <= retry[p]
  BY DEF Attempts
<1> QED
  BY <1>1, <1>2, <1>3, <1>4 DEF Left, Labels, Outside

\* Every step shortens the call it belongs to and lengthens none.
LEMMA ShortensStep ==
  TypeOK /\ Attempts /\ TypeOK' /\ Attempts' /\ [Next]_vars => [Shortens]_vars
<1> SUFFICES ASSUME TypeOK, Attempts, TypeOK', Attempts', Next,
                    NEW p \in Procs, pc[p] \notin Outside
             PROVE  /\ Left(p) \in 1..Longest /\ Left(p)' <= Left(p)
                    /\ Step(p) => Left(p)' < Left(p)
  BY DEF Shortens
<1>1. Left(p) \in 1..Longest
  <2>1. Left(p) \in 0..Longest /\ Left(p) > 0
    BY LeftRange, Zenon DEF InRange
  <2> QED
    BY <2>1
<1>2. Left(p)' \in 0..Longest
  <2>1. InRange'
    BY LeftRange, PTL
  <2> QED
    BY <2>1, Zenon DEF InRange
<1>3. Longest \in Nat
  BY XwAssumption DEF Longest
<1>4. CASE Step(p)
  <2>1. Left(p)' < Left(p)
    BY <1>4, OwnStep
  <2> QED
    BY <1>1, <1>2, <1>3, <2>1
<1>5. CASE Die(p)
  <2>1. pc'[p] = "start"
    BY <1>5 DEF Die, Goto, TypeOK
  <2>2. Left(p)' = 0
    BY <2>1 DEF Left
  <2>3. ~Step(p)
    BY <2>1, <1>5 DEF Die, Step, Access, GetFails, Get, Fill, Grep, Parse, Leave, Goto, TypeOK
  <2> QED
    BY <1>1, <1>3, <2>2, <2>3
<1>6. ~ledmgr_init(p) /\ ~Request(p)
  BY DEF ledmgr_init, Request, Outside
<1>7. CASE ~Step(p) /\ ~Die(p)
  <2>1. PICK q \in Procs \ {p} : ledmgr_init(q) \/ Request(q) \/ Step(q) \/ Die(q)
    BY <1>6, <1>7 DEF Next
  <2>2. Left(p)' <= Left(p)
    BY <2>1, OthersStep
  <2> QED
    BY <1>1, <1>7, <2>2
<1> QED
  BY <1>4, <1>5, <1>7

\* led_xw_init makes at most N + 4 + 2 * InitRetries steps, whatever the other
\* processes do to the copy and to the file in /tmp: the attempt that does not
\* count cannot make it go round for ever.
THEOREM InitShortens == Spec => [][Shortens]_vars
BY ShortensStep, XwTypeInvariance, PTL DEF Spec
=============================================================================
