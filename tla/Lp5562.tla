------------------------------- MODULE Lp5562 -------------------------------
(***************************************************************************)
(* led_transfer_command_to_lp5562_program of ledhal.c: the action of a LED *)
(* compiled into a program of 16-bit words for an engine of the LP5562,    *)
(* and the engine that runs it. The three engines have the same program    *)
(* but for the brightness of their channel; this is one of them.           *)
(***************************************************************************)
EXTENDS Integers, Sequences

CONSTANTS
  Word,      \* 2^32: times are uint32_t
  Lights,    \* brightnesses (pwm) of the channel, 0 among them
  Asked      \* the actions callers ask for, with times in ms

Step     == 156               \* 15.6 ms, in tenths of a ms
MaxStep  == 63                \* the longest wait command
MaxLoop  == 63                \* the largest count of a branch command
Room     == 16                \* words in an engine's memory
Longest  == Step * MaxStep * MaxLoop

U32 == 0..(Word - 1)

Action == [type : {"ON", "OFF"}]
          \cup [type : {"BLINK"}, on : U32, off : U32]
          \cup [type : {"SEQ_BLINK"}, on : U32, off1 : U32, count : U32, off2 : U32]

ASSUME LpAssumption ==
  /\ Word \in Nat /\ Word > Longest
  /\ Lights \subseteq 0..255 /\ 0 \in Lights
  /\ Asked \subseteq Action

\* ontime * 10, in uint32_t
Tenths(ms) == (10 * ms) % Word

\* Mutant: no check.
AnyTime(ms) == TRUE

\* The check of a time: one of Word / 10 ms and more comes out small, and passes.
InRange(ms) == Tenths(ms) <= Longest

\* What led_setOnOff, led_setBlink and led_setBlinkSequence accept.
Accepted(a) ==
  CASE a.type = "BLINK"     -> InRange(a.on) /\ InRange(a.off)
    [] a.type = "SEQ_BLINK" -> /\ InRange(a.on) /\ InRange(a.off1) /\ InRange(a.off2)
                               /\ a.count <= MaxLoop + 1
    [] OTHER                -> TRUE
-----------------------------------------------------------------------------
(* The compiler.                                                           *)

SetPwm(v)       == 64 * 256 + v                                \* 40vv
Wait(n)         == (64 + n) * 256                              \* n | 1 << 6, 00
Branch(n, to)   == (10 * 4096 + n * 128 + to) % 65536          \* uint16_t
End             == 13 * 4096                                   \* D000

FullWaits(ms) == Tenths(ms) \div (MaxStep * Step)
LastWait(ms)  == (Tenths(ms) % (MaxStep * Step)) \div Step

\* Mutant: a wait is repeated once too often.
HoldTooLong(word, ms) ==
  (IF FullWaits(ms) > 0
     THEN <<Wait(MaxStep)>> \o
          (IF FullWaits(ms) > 1 THEN <<Branch(FullWaits(ms), word)>> ELSE <<>>)
     ELSE <<>>)
  \o (IF LastWait(ms) > 0 THEN <<Wait(LastWait(ms))>> ELSE <<>>)

\* Hold the light for ms: the longest wait, repeated, and what is left over.
\* The wait repeated is the one at that word of the program.
Hold(word, ms) ==
  (IF FullWaits(ms) > 0
     THEN <<Wait(MaxStep)>> \o
          (IF FullWaits(ms) > 1 THEN <<Branch(FullWaits(ms) - 1, word)>> ELSE <<>>)
     ELSE <<>>)
  \o (IF LastWait(ms) > 0 THEN <<Wait(LastWait(ms))>> ELSE <<>>)

\* Program so far, then the light v for ms.
Then(program, v, ms) ==
  program \o <<SetPwm(v)>> \o Hold(Len(program) + 1, ms)

\* Mutant: once too often.
RepeatOnceMore(n) == IF n > 1 THEN <<Branch(n, 0)>> ELSE <<>>

\* All words so far, n times in all.
Repeat(n) == IF n > 1 THEN <<Branch(n - 1, 0)>> ELSE <<>>

\* Mutant: the branch back to the start is forgotten.
RestartLost == <<End>>

\* A000D000: from word 0 again, for ever.
Restart == <<Branch(0, 0), End>>

\* led_transfer_command_to_lp5562_program, for a channel of brightness v
Program(a, v) ==
  CASE a.type = "BLINK" ->
         Then(Then(<<>>, v, a.on), 0, a.off) \o Restart
    [] a.type = "SEQ_BLINK" ->
         Then(Then(Then(<<>>, v, a.on), 0, a.off1) \o Repeat(a.count), 0, a.off2)
         \o Restart
    [] a.type = "OFF" -> <<SetPwm(0), End>>
    [] OTHER          -> <<SetPwm(v), End>>
-----------------------------------------------------------------------------
(* The engine, as its data sheet has it: an external.                      *)

VARIABLES
  action, pwm,   \* history: what the program was compiled from
  program,       \* the engine's memory
  at,            \* its program counter
  jumps,         \* jumps[i]: how often the branch at word i has been taken
  light,         \* what the channel shows
  clock          \* history: steps of 15.6 ms since it was sent to word 0

askVars == <<action, pwm, program>>
vars    == <<askVars, at, jumps, light, clock>>

Here == IF at < Len(program) THEN program[at + 1] ELSE End

IsBranch(w) == w \div 8192 = 5
IsWait(w)   == w \div 256 \in 65..127
IsSet(w)    == w \div 256 = 64

WaitOf(w)   == (w \div 256) - 64
CountOf(w)  == (w \div 128) % 64
TargetOf(w) == w % 16

NoJumps == [i \in 0..(Room - 1) |-> 0]

Load(a, v) ==
  /\ action' = a /\ pwm' = v /\ program' = Program(a, v)
  /\ at' = 0 /\ jumps' = NoJumps /\ clock' = 0

\* led_init asks for a steady light.
Init ==
  /\ action \in [type : {"ON", "OFF"}] /\ pwm \in Lights /\ program = Program(action, pwm)
  /\ at = 0 /\ jumps = NoJumps /\ clock = 0
  /\ light = IF action.type = "OFF" THEN 0 ELSE pwm

\* led_apply_lp5562_setting: stop, load, run. The light stays until it is set.
Apply == /\ \E a \in Asked, v \in Lights : Accepted(a) /\ Load(a, v)
         /\ UNCHANGED light

Set == /\ IsSet(Here)
       /\ light' = Here % 256 /\ at' = at + 1
       /\ UNCHANGED <<askVars, jumps, clock>>

\* The longest round of any accepted action, and a step more.
ClockBound == (MaxLoop + 1) * 2 * (MaxStep * MaxLoop) + MaxStep * MaxLoop + 1

Sleep == /\ IsWait(Here)
         /\ clock' = IF clock + WaitOf(Here) <= ClockBound
                       THEN clock + WaitOf(Here) ELSE ClockBound
         /\ at' = at + 1
         /\ UNCHANGED <<askVars, jumps, light>>

\* A branch of count 0 is taken for ever, another count times in a row.
Jump ==
  /\ IsBranch(Here)
  /\ IF CountOf(Here) = 0 \/ jumps[at] < CountOf(Here)
       THEN /\ at' = TargetOf(Here)
            /\ jumps' = IF CountOf(Here) = 0 THEN jumps
                        ELSE [jumps EXCEPT ![at] = @ + 1]
       ELSE at' = at + 1 /\ jumps' = [jumps EXCEPT ![at] = 0]
  /\ clock' = IF CountOf(Here) = 0 /\ TargetOf(Here) = 0 THEN 0 ELSE clock
  /\ UNCHANGED <<askVars, light>>

Engine == Set \/ Sleep \/ Jump
Next   == Apply \/ Engine
Spec   == Init /\ [][Next]_vars

\* A running engine is clocked.
FairSpec == Spec /\ WF_vars(Engine)
-----------------------------------------------------------------------------
\* Type correctness; no round lasts longer than the longest that is accepted.
TypeOK ==
  /\ action \in Asked \cup [type : {"ON", "OFF"}] /\ pwm \in Lights
  /\ at \in 0..(Room - 1) /\ jumps \in [0..(Room - 1) -> 0..MaxLoop]
  /\ light \in Lights /\ clock \in 0..(ClockBound - 1)

\* A command the engine has, that does what its word was put together for: no
\* field has overflowed into another, and only the restart loops for ever.
WordFits(w, i) ==
  \/ IsSet(w)
  \/ IsWait(w) /\ w % 256 = 0
  \/ IsBranch(w) /\ TargetOf(w) < i /\ (w = Branch(0, 0) \/ CountOf(w) > 0)
  \/ w = End

\* The range checks of the setters are enough for the compiler: every program
\* fits the engine's memory (and LED_LP5562_COMMAND_LEN) and is made of whole
\* commands, also for a time that passed its check because it wrapped.
ProgramFits ==
  /\ Len(program) <= Room
  /\ \A i \in 1..Len(program) : WordFits(program[i], i - 1)

\* The engine stops at the end of a steady light's program, showing it, and
\* never in a blink.
StopsWhenSteady ==
  Here = End => /\ action.type \in {"ON", "OFF"}
                /\ light = IF action.type = "ON" THEN pwm ELSE 0

\* What a caller asks for is its milliseconds, whatever becomes of them in a word.
AskedSteps(ms) == (10 * ms) \div Step

\* A time that ten times over does not fit its word: it should have been refused,
\* but wraps past the check, and the light blinks at what is left of it.
Wraps(ms) == 10 * ms >= Word
Wrapped(a) == \/ a.type = "BLINK" /\ (Wraps(a.on) \/ Wraps(a.off))
              \/ a.type = "SEQ_BLINK" /\ (Wraps(a.on) \/ Wraps(a.off1) \/ Wraps(a.off2))

AnyLight == [lit |-> 0, steady |-> TRUE, on |-> 0, off |-> 0, count |-> 1, rest |-> 0,
             free |-> TRUE]

\* The light asked for, in steps. A sequence of count 0 is shown once.
AskedWave ==
  IF Wrapped(action) THEN AnyLight
  ELSE CASE action.type = "BLINK" ->
              [lit |-> pwm, steady |-> FALSE, on |-> AskedSteps(action.on),
               off |-> AskedSteps(action.off), count |-> 1, rest |-> 0, free |-> FALSE]
         [] action.type = "SEQ_BLINK" ->
              [lit |-> pwm, steady |-> FALSE, on |-> AskedSteps(action.on),
               off |-> AskedSteps(action.off1), rest |-> AskedSteps(action.off2),
               count |-> IF action.count = 0 THEN 1 ELSE action.count, free |-> FALSE]
         [] OTHER ->
              [lit |-> IF action.type = "ON" THEN pwm ELSE 0, steady |-> TRUE,
               on |-> 0, off |-> 0, count |-> 1, rest |-> 0, free |-> FALSE]

\* The engine implements the light asked for: at every step of every round the
\* channel is lit when, and as brightly as, the caller's milliseconds say
\* (ledhal.h:120), rounded down to steps, and a round ends neither early nor
\* late. Nothing is promised of a light with a time that wraps.
Waves == INSTANCE LedWave WITH wave <- AskedWave
WaveSpec == Waves!Spec

\* Liveness: rounds end. No loop of the program is entered for ever.
RoundsEnd == []<>(clock = 0)
=============================================================================
