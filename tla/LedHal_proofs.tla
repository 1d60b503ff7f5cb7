---------------------------- MODULE LedHal_proofs ----------------------------
(***************************************************************************)
(* The configuration file of a LED, for any set of callers, of calls and   *)
(* of values, with crashes and I/O errors: the lock excludes, no update is *)
(* lost, and the file is the atomic store of LedStore.                     *)
(***************************************************************************)
EXTENDS LedHal, TLAPS

\* Up to the lock, a caller's record is untouched; from the open on there is a
\* file, and nobody removes it; a caller that rewrites never reads.
Locals ==
  \A p \in Procs :
    /\ pc[p] \in {"idle", "stat", "open", "lock"} => cfg[p] = DefaultConfig
    /\ pc[p] \in {"lock", "read", "write"} => file # Absent
    /\ pc[p] = "read" => ~Rewrites(call[p])

\* A setter about to write may: what is in the file does not refuse it. The
\* check of state and the write are one critical section.
CheckStillHolds ==
  \A p \in Procs :
    pc[p] = "write" /\ ~Rewrites(call[p]) =>
      /\ call[p].op \in Setter
      /\ file = Empty \/ ~RefusedWhen(call[p], file.state)

IInv == TypeOK /\ LockIsHeld /\ Locals /\ NothingStale /\ CheckStillHolds

\* A default configuration is one, and a setter makes configurations of them.
LEMMA ConfigFacts ==
  /\ DefaultConfig \in Config
  /\ \A c \in Call, f \in Config : Updated(c, f) \in Config
  /\ Contents(Empty) \subseteq Config
  /\ NoCall \in Call
<1>1. Default \in Field /\ Junk \in Field
  BY ConfigAssumption DEF Field
<1>2. DefaultConfig \in Config
  BY <1>1 DEF DefaultConfig, Config
<1>3. ASSUME NEW c \in Call, NEW f \in Config PROVE Updated(c, f) \in Config
  <2>1. c.arg \in Field
    BY <1>3 DEF Call, Field
  <2> QED
    BY <2>1 DEF Updated, Config
<1>4. Contents(Empty) \subseteq Config
  BY <1>1 DEF Contents, Config
<1>5. NoCall \in Call
  BY ConfigAssumption DEF NoCall, Call, Op
<1> QED
  BY <1>2, <1>3, <1>4, <1>5

\* What a caller reads from a file that exists is a configuration.
LEMMA ContentsAreConfigs ==
  ASSUME TypeOK, file # Absent PROVE Contents(file) \subseteq Config
<1>1. CASE file = Empty
  BY <1>1, ConfigFacts
<1>2. CASE file # Empty
  BY <1>2 DEF Contents, TypeOK
<1> QED
  BY <1>1, <1>2

\* The system starts with everybody outside, and records clean.
LEMMA InitInv == Init => IInv
<1> SUFFICES ASSUME Init PROVE IInv
  OBVIOUS
<1>1. file \in {Absent, Empty} \cup Config
  BY ConfigFacts, HalAssumption DEF Init
<1>2. chip \in Look
  BY HalAssumption DEF Init
<1>3. TypeOK
  BY <1>1, <1>2, ConfigFacts DEF Init, TypeOK, Label, Error, MaxTries
<1>4. LockIsHeld
  BY HalAssumption DEF Init, LockIsHeld, Holding
<1>5. Locals /\ NothingStale /\ CheckStillHolds
  BY DEF Init, Locals, NothingStale, CheckStillHolds
<1> QED
  BY <1>3, <1>4, <1>5 DEF IInv

-----------------------------------------------------------------------------
(* One lemma per kind of conjunct. The steps that only move one caller's   *)
(* locals are treated together: they leave the file and the lock alone.    *)

\* Every step keeps the types.
LEMMA TypesKept == IInv /\ [Next]_vars => TypeOK'
<1> SUFFICES ASSUME IInv, [Next]_vars PROVE TypeOK'
  OBVIOUS
<1> USE ConfigFacts DEF IInv
<1>1. ASSUME NEW p \in Procs, NEW c \in Calls[led], Begin(p, c) PROVE TypeOK'
  BY <1>1, HalAssumption
     DEF Begin, Return, Goto, TypeOK, Label, Error, MaxTries
<1>2. ASSUME NEW p \in Procs, Stat(p) PROVE TypeOK'
  BY <1>2 DEF Stat, Return, Goto, Proceed, TypeOK, Label, Error, MaxTries
<1>3. ASSUME NEW p \in Procs, Open(p) PROVE TypeOK'
  BY <1>3 DEF Open, Return, Goto, Proceed, TypeOK, Label, Error, MaxTries
<1>4. ASSUME NEW p \in Procs, Lock(p) PROVE TypeOK'
  BY <1>4 DEF Lock, Locked, Return, Goto, Proceed, TypeOK, Label, Error, MaxTries
<1>5. ASSUME NEW p \in Procs, Read(p) PROVE TypeOK'
  <2>1. Contents(file) \subseteq Config
    BY <1>5, ContentsAreConfigs DEF Read, Locals
  <2>2. ASSUME NEW f \in Contents(file), Took(p, f) PROVE TypeOK'
    <3>1. Updated(call[p], f) \in Config
      BY <2>1 DEF TypeOK
    <3> QED
      BY <1>5, <2>2, <3>1 DEF Read, Took, Goto, TypeOK, Label
  <2>3. ASSUME NEW e \in Error, Fail(p, e) PROVE TypeOK'
    BY <1>5, <2>3 DEF Read, Fail, Goto, TypeOK, Label
  <2> QED
    BY <1>5, <2>2, <2>3 DEF Read, Error
<1>6. ASSUME NEW p \in Procs, Write(p) PROVE TypeOK'
  BY <1>6 DEF Write, Fail, Goto, Proceed, TypeOK, Label, Error
<1>7. ASSUME NEW p \in Procs, Unlock(p) PROVE TypeOK'
  BY <1>7 DEF Unlock, Return, Goto, Proceed, TypeOK, Label, Error, MaxTries
<1>8. ASSUME NEW p \in Procs, Currents(p) PROVE TypeOK'
  <2>1. cfg[p].current \in Field
    BY DEF TypeOK, Config
  <2> QED
    BY <1>8, <2>1
       DEF Currents, Return, Goto, Proceed, TypeOK, Look, Label, Error, MaxTries
<1>9. ASSUME NEW p \in Procs, Program(p) \/ Brightness(p) PROVE TypeOK'
  <2>1. cfg[p].pwm \in Field /\ cfg[p].action \in Field
    BY DEF TypeOK, Config
  <2>2. chip' \in Look
    BY <1>9, <2>1 DEF Program, Brightness, ShowPwm, TypeOK, Look
  <2>3. \E e \in Error : Return(p, e)
    BY <1>9 DEF Program, Brightness, Error
  <2> QED
    BY <1>9, <2>2, <2>3
       DEF Program, Brightness, Return, Goto, TypeOK, Label, Error, MaxTries
<1>10. ASSUME NEW p \in Procs, Crash(p) PROVE TypeOK'
  BY <1>10 DEF Crash, Return, Goto, TypeOK, Label, Error, MaxTries
<1>11. CASE UNCHANGED vars
  BY <1>11 DEF vars, procVars, TypeOK
<1> QED
  BY <1>1, <1>2, <1>3, <1>4, <1>5, <1>6, <1>7, <1>8, <1>9, <1>10, <1>11
     DEF Next, Step

\* A step that takes one caller into or out of the critical section takes the
\* lock with it.
LEMMA LockKept == IInv /\ [Next]_vars => LockIsHeld'
<1> SUFFICES ASSUME IInv, [Next]_vars PROVE LockIsHeld'
  OBVIOUS
<1> USE HalAssumption DEF IInv, LockIsHeld, Holding
<1>1. ASSUME NEW p \in Procs, NEW c \in Calls[led], Begin(p, c) PROVE LockIsHeld'
  BY <1>1 DEF Begin, Return, Goto, TypeOK
<1>2. ASSUME NEW p \in Procs, Stat(p) PROVE LockIsHeld'
  BY <1>2 DEF Stat, Return, Goto, Proceed, TypeOK
<1>3. ASSUME NEW p \in Procs, Open(p) PROVE LockIsHeld'
  BY <1>3 DEF Open, Return, Goto, Proceed, TypeOK
<1>4. ASSUME NEW p \in Procs, Lock(p) PROVE LockIsHeld'
  BY <1>4 DEF Lock, Locked, Return, Goto, Proceed, TypeOK
<1>5. ASSUME NEW p \in Procs, Read(p) PROVE LockIsHeld'
  BY <1>5 DEF Read, Took, Fail, Goto, TypeOK
<1>6. ASSUME NEW p \in Procs, Write(p) PROVE LockIsHeld'
  BY <1>6 DEF Write, Fail, Goto, Proceed, TypeOK
<1>7. ASSUME NEW p \in Procs, Unlock(p) PROVE LockIsHeld'
  BY <1>7 DEF Unlock, Return, Goto, Proceed, TypeOK
<1>8. ASSUME NEW p \in Procs, Currents(p) PROVE LockIsHeld'
  BY <1>8 DEF Currents, Return, Goto, Proceed, TypeOK
<1>9. ASSUME NEW p \in Procs, Program(p) \/ Brightness(p) PROVE LockIsHeld'
  BY <1>9 DEF Program, Brightness, Return, Goto, TypeOK
<1>10. ASSUME NEW p \in Procs, Crash(p) PROVE LockIsHeld'
  BY <1>10 DEF Crash, Return, Goto, TypeOK
<1>11. CASE UNCHANGED vars
  BY <1>11 DEF vars, procVars
<1> QED
  BY <1>1, <1>2, <1>3, <1>4, <1>5, <1>6, <1>7, <1>8, <1>9, <1>10, <1>11
     DEF Next, Step

\* A file once there stays, and a caller's record is clean until it is locked.
LEMMA LocalsKept == IInv /\ [Next]_vars => Locals'
<1> SUFFICES ASSUME IInv, [Next]_vars PROVE Locals'
  OBVIOUS
<1> USE DEF IInv, Locals
<1>1. ASSUME NEW p \in Procs, NEW c \in Calls[led], Begin(p, c) PROVE Locals'
  BY <1>1 DEF Begin, Return, Goto, TypeOK
<1>2. ASSUME NEW p \in Procs, Stat(p) PROVE Locals'
  BY <1>2 DEF Stat, Return, Goto, Proceed, TypeOK
<1>3. ASSUME NEW p \in Procs, Open(p) PROVE Locals'
  BY <1>3, ConfigAssumption
     DEF Open, Opens, Rewrites, Return, Goto, Proceed, TypeOK
<1>4. ASSUME NEW p \in Procs, Lock(p) PROVE Locals'
  BY <1>4 DEF Lock, Locked, Return, Goto, Proceed, TypeOK
<1>5. ASSUME NEW p \in Procs, Read(p) PROVE Locals'
  BY <1>5 DEF Read, Took, Fail, Goto, TypeOK
<1>6. ASSUME NEW p \in Procs, Write(p) PROVE Locals'
  BY <1>6, ConfigAssumption DEF Write, Fail, Goto, Proceed, TypeOK
<1>7. ASSUME NEW p \in Procs, Unlock(p) PROVE Locals'
  BY <1>7 DEF Unlock, Return, Goto, Proceed, TypeOK
<1>8. ASSUME NEW p \in Procs, Currents(p) PROVE Locals'
  BY <1>8 DEF Currents, Return, Goto, Proceed, TypeOK
<1>9. ASSUME NEW p \in Procs, Program(p) \/ Brightness(p) PROVE Locals'
  BY <1>9 DEF Program, Brightness, Return, Goto, TypeOK
<1>10. ASSUME NEW p \in Procs, Crash(p) PROVE Locals'
  BY <1>10 DEF Crash, Return, Goto, TypeOK
<1>11. CASE UNCHANGED vars
  BY <1>11 DEF vars, procVars
<1> QED
  BY <1>1, <1>2, <1>3, <1>4, <1>5, <1>6, <1>7, <1>8, <1>9, <1>10, <1>11
     DEF Next, Step

\* What a caller about to write holds stays the change of what is in the file:
\* the others are outside the critical section, where all they can do to the
\* file is to truncate it.
LEMMA WritersKept == IInv /\ [Next]_vars => NothingStale' /\ CheckStillHolds'
<1> DEFINE Fresh == NothingStale /\ CheckStillHolds
<1> SUFFICES ASSUME IInv, [Next]_vars PROVE Fresh'
  OBVIOUS
<1> USE DEF IInv, NothingStale, CheckStillHolds
<1>1. ASSUME NEW p \in Procs, NEW c \in Calls[led], Begin(p, c) PROVE Fresh'
  BY <1>1 DEF Begin, Return, Goto, TypeOK
<1>2. ASSUME NEW p \in Procs, Stat(p) PROVE Fresh'
  BY <1>2 DEF Stat, Return, Goto, Proceed, TypeOK
<1>3. ASSUME NEW p \in Procs, Open(p) PROVE Fresh'
  BY <1>3 DEF Open, Return, Goto, Proceed, TypeOK
<1>4. ASSUME NEW p \in Procs, Lock(p) PROVE Fresh'
  BY <1>4 DEF Lock, Locked, Return, Goto, Proceed, TypeOK, Locals
<1>5. ASSUME NEW p \in Procs, Read(p) PROVE Fresh'
  <2>1. ~Rewrites(call[p]) /\ file # Absent /\ call[p] \in Call
    BY <1>5 DEF Read, Locals, TypeOK
  <2>2. ASSUME NEW f \in Contents(file), Took(p, f),
               ~RefusedWhen(call[p], f.state)
        PROVE Fresh'
    <3>1. file # Empty => f = file
      BY DEF Contents
    <3>2. UNCHANGED <<file, call>>
      BY <1>5, <2>2 DEF Read, Took
    <3>3. ASSUME pc'[p] = "write"
          PROVE /\ call[p].op \in Setter
                /\ cfg'[p] = Updated(call[p], f)
      BY <2>1, <2>2, <3>3 DEF Took, Goto, Rewrites, Call, Op, TypeOK
    <3>4. \A q \in Procs \ {p} : pc'[q] = pc[q] /\ cfg'[q] = cfg[q]
      BY <2>2 DEF Took, Goto, TypeOK
    <3> QED
      BY <2>1, <2>2, <3>1, <3>2, <3>3, <3>4
  <2>3. ASSUME NEW e \in Error, Fail(p, e) PROVE Fresh'
    BY <1>5, <2>3 DEF Read, Fail, Goto, TypeOK
  <2> QED
    BY <1>5, <2>2, <2>3 DEF Read, Error
<1>6. ASSUME NEW p \in Procs, Write(p) PROVE Fresh'
  <2>1. \A q \in Procs : pc'[q] # "write"
    BY <1>6 DEF Write, Fail, Goto, Proceed, TypeOK, LockIsHeld, Holding
  <2> QED
    BY <2>1
<1>7. ASSUME NEW p \in Procs, Unlock(p) PROVE Fresh'
  BY <1>7 DEF Unlock, Return, Goto, Proceed, TypeOK
<1>8. ASSUME NEW p \in Procs, Currents(p) PROVE Fresh'
  BY <1>8 DEF Currents, Return, Goto, Proceed, TypeOK
<1>9. ASSUME NEW p \in Procs, Program(p) \/ Brightness(p) PROVE Fresh'
  BY <1>9 DEF Program, Brightness, Return, Goto, TypeOK
<1>10. ASSUME NEW p \in Procs, Crash(p) PROVE Fresh'
  BY <1>10 DEF Crash, Return, Goto, TypeOK
<1>11. CASE UNCHANGED vars
  BY <1>11 DEF vars, procVars
<1> QED
  BY <1>1, <1>2, <1>3, <1>4, <1>5, <1>6, <1>7, <1>8, <1>9, <1>10, <1>11
     DEF Next, Step

\* The inductive invariant holds in every reachable state of any instance.
THEOREM HalInvariance == Spec => []IInv
<1>1. Init => IInv
  BY InitInv
<1>2. IInv /\ [Next]_vars => IInv'
  BY TypesKept, LockKept, LocalsKept, WritersKept DEF IInv
<1> QED
  BY <1>1, <1>2, PTL DEF Spec

\* The variables stay in their ranges; a caller is never left with no attempt.
THEOREM HalTypeCorrect == Spec => []TypeOK
<1>1. IInv => TypeOK
  BY DEF IInv
<1> QED
  BY <1>1, HalInvariance, PTL

\* read_led_config and write_led_config exclude each other between any callers,
\* and no path out of a function keeps the lock.
THEOREM MutualExclusion == Spec => []LockIsHeld
<1>1. IInv => LockIsHeld
  BY DEF IInv
<1> QED
  BY <1>1, HalInvariance, PTL

\* A setter writes back the change of what the file then holds, truncation apart.
THEOREM NoStaleWrite == Spec => []NothingStale
<1>1. IInv => NothingStale
  BY DEF IInv
<1> QED
  BY <1>1, HalInvariance, PTL

-----------------------------------------------------------------------------
\* The store speaks of the configurations and calls this module speaks of.
LEMMA StoreWords ==
  /\ Store!Config = Config /\ Store!Call = Call /\ Store!Setter = Setter
  /\ Store!DefaultConfig = DefaultConfig
  /\ \A c, f : Store!Updated(c, f) = Updated(c, f)
  /\ \A c, b : Store!RefusedWhen(c, b) <=> RefusedWhen(c, b)
<1>1. Store!Config = Config
  BY DEF Config, Field, Store!Config, Store!Field
<1>2. Store!Setter = Setter
  BY DEF Setter, Store!Setter
<1>3. Store!Call = Call
  BY <1>2 DEF Call, Op, Store!Call, Store!Op
<1>4. Store!DefaultConfig = DefaultConfig
  BY DEF DefaultConfig, Store!DefaultConfig
<1>5. \A c, f : Store!Updated(c, f) = Updated(c, f)
  BY DEF Updated, Store!Updated
<1>6. \A c, b : Store!RefusedWhen(c, b) <=> RefusedWhen(c, b)
  BY DEF RefusedWhen, Store!RefusedWhen
<1> QED
  BY <1>1, <1>2, <1>3, <1>4, <1>5, <1>6

\* A step of ledhal.c is a step of the store, or leaves the file alone.
LEMMA StoreStep == IInv /\ [Next]_vars => [Store!Next]_file
<1> SUFFICES ASSUME IInv, [Next]_vars, file' # file PROVE Store!Next
  OBVIOUS
<1> USE StoreWords DEF IInv
<1>1. ASSUME NEW p \in Procs, Open(p) PROVE Store!Next
  BY <1>1 DEF Open, Store!Next, Store!Truncate
<1>2. ASSUME NEW p \in Procs, Write(p) PROVE Store!Next
  <2>1. file' = cfg[p] /\ cfg[p] \in Config /\ file # Absent /\ call[p] \in Call
    BY <1>2 DEF Write, TypeOK, Locals
  <2>2. CASE Rewrites(call[p])
    BY <1>2, <2>1, <2>2 DEF Write, NothingStale, Store!Next, Store!Rewrite
  <2>3. CASE file = Empty
    BY <2>1, <2>3 DEF Store!Next, Store!Refill
  <2>4. CASE ~Rewrites(call[p]) /\ file # Empty
    <3>1. file \in Config
      BY <2>1, <2>4 DEF TypeOK
    <3>2. Store!Set(call[p])
      BY <1>2, <2>1, <2>4, <3>1
         DEF Write, NothingStale, CheckStillHolds, Store!Set
    <3> QED
      BY <2>1, <3>2 DEF Store!Next
  <2> QED
    BY <2>2, <2>3, <2>4
<1>3. \A p \in Procs : Open(p) \/ Write(p) \/ ~Step(p)
  BY DEF Step, Stat, Lock, Read, Unlock, Currents, Program, Brightness
<1>4. \A p \in Procs : ~Crash(p) /\ \A c \in Calls[led] : ~Begin(p, c)
  BY DEF Crash, Begin
<1>5. ~UNCHANGED vars
  BY DEF vars
<1> QED
  BY <1>1, <1>2, <1>3, <1>4, <1>5 DEF Next

\* Whatever the callers, their interleaving, crashes and I/O errors: the file
\* is the store of LedStore, whose only changes are one setter's change of a
\* whole configuration, the defaults, a truncation and the refill it calls for.
THEOREM HalImplementsStore == Spec => StoreSpec
<1>1. Init => Store!Init
  BY StoreWords, ConfigFacts, HalAssumption DEF Init, Store!Init
<1> QED
  BY <1>1, StoreStep, HalInvariance, PTL DEF Spec, StoreSpec, Store!Spec
-----------------------------------------------------------------------------
\* Where the file is made beforehand and nobody calls led_init or led_reset.
UsersOnly == Start = {DefaultConfig} /\ \A l \in Leds : \A c \in Calls[l] : ~Rewrites(c)

Clean == {f \in Config : f.current # Junk /\ f.pwm # Junk /\ f.action # Junk}

Whole == /\ file \in Clean
         /\ \A p \in Procs : ~Rewrites(call[p]) /\ cfg[p] \in Clean

WInv == IInv /\ UsersOnly /\ Whole

\* A setter leaves a clean configuration clean: no call asks for junk.
LEMMA CleanFacts ==
  /\ DefaultConfig \in Clean /\ ~Rewrites(NoCall)
  /\ \A c \in Call, f \in Clean : Updated(c, f) \in Clean
<1>1. DefaultConfig \in Clean /\ ~Rewrites(NoCall)
  BY ConfigFacts, ConfigAssumption
     DEF Clean, DefaultConfig, Rewrites, NoCall
<1>2. ASSUME NEW c \in Call, NEW f \in Clean PROVE Updated(c, f) \in Clean
  <2>1. c.arg # Junk /\ f \in Config /\ Updated(c, f) \in Config
    BY ConfigFacts, ConfigAssumption DEF Call, Clean
  <2> QED
    BY <2>1 DEF Clean, Updated, Config
<1> QED
  BY <1>1, <1>2

\* Nothing empties the file, so nothing but configurations is read from it.
LEMMA WholeKept == WInv /\ [Next]_vars => Whole'
<1> SUFFICES ASSUME WInv, [Next]_vars PROVE Whole'
  OBVIOUS
<1> USE CleanFacts, HalAssumption DEF WInv, IInv, UsersOnly, Whole
<1>1. ASSUME NEW p \in Procs, NEW c \in Calls[led], Begin(p, c) PROVE Whole'
  BY <1>1 DEF Begin, Return, TypeOK
<1>2. ASSUME NEW p \in Procs, Stat(p) PROVE Whole'
  BY <1>2 DEF Stat, Return, Proceed, TypeOK
<1>3. ASSUME NEW p \in Procs, Open(p) PROVE Whole'
  BY <1>3 DEF Open, Return, Proceed, TypeOK
<1>4. ASSUME NEW p \in Procs, Lock(p) PROVE Whole'
  BY <1>4 DEF Lock, Locked, Return, Proceed, TypeOK
<1>5. ASSUME NEW p \in Procs, Read(p) PROVE Whole'
  <2>1. Contents(file) = {file}
    BY ConfigAssumption DEF Contents, Clean
  <2> QED
    BY <1>5, <2>1 DEF Read, Took, Fail, TypeOK
<1>6. ASSUME NEW p \in Procs, Write(p) PROVE Whole'
  BY <1>6 DEF Write, Fail, Proceed, TypeOK
<1>7. ASSUME NEW p \in Procs, Unlock(p) PROVE Whole'
  BY <1>7 DEF Unlock, Return, Proceed, TypeOK
<1>8. ASSUME NEW p \in Procs, Currents(p) PROVE Whole'
  BY <1>8 DEF Currents, Return, Proceed, TypeOK
<1>9. ASSUME NEW p \in Procs, Program(p) \/ Brightness(p) PROVE Whole'
  BY <1>9 DEF Program, Brightness, Return, TypeOK
<1>10. ASSUME NEW p \in Procs, Crash(p) PROVE Whole'
  BY <1>10 DEF Crash, Return, TypeOK
<1>11. CASE UNCHANGED vars
  BY <1>11 DEF vars, procVars
<1> QED
  BY <1>1, <1>2, <1>3, <1>4, <1>5, <1>6, <1>7, <1>8, <1>9, <1>10, <1>11
     DEF Next, Step

\* Without truncation there is junk nowhere.
LEMMA WholeAlways == Spec /\ UsersOnly => []WInv
<1>1. Init /\ UsersOnly => WInv
  BY InitInv, CleanFacts DEF WInv, Whole, UsersOnly, Init
<1>2. IInv /\ [Next]_vars => IInv'
  BY TypesKept, LockKept, LocalsKept, WritersKept DEF IInv
<1>3. WInv /\ [Next]_vars => WInv'
  BY <1>2, WholeKept DEF WInv, UsersOnly
<1> QED
  BY <1>1, <1>3, PTL DEF Spec

\* Where nobody initialises or resets a file that exists, "0 success" of
\* read_led_config means that it has read: junk is never written back.
THEOREM UsersReadWhole == Spec /\ UsersOnly => []ReadSuccessMeansRead
<1>1. WInv => ReadSuccessMeansRead
  BY DEF WInv, Whole, Clean, ReadSuccessMeansRead
<1> QED
  BY <1>1, WholeAlways, PTL

\* A step of a setter keeps the look of a disabled LED; any other step that
\* changes the file is led_init's or led_reset's.
LEMMA FrozenStep ==
  IInv /\ IInv' /\ [Next]_vars =>
    [(file \in Config /\ ~file.state)
        => \/ file' \in Config /\ LookOf(file') = LookOf(file)
           \/ RewriteStep]_file
<1> SUFFICES ASSUME IInv, IInv', [Next]_vars, file' # file,
                    file \in Config, ~file.state, ~RewriteStep
             PROVE  file' \in Config /\ LookOf(file') = LookOf(file)
  OBVIOUS
<1> USE DEF IInv
<1>1. PICK p \in Procs : Open(p) \/ Write(p)
  <2>1. \A p \in Procs : Open(p) \/ Write(p) \/ ~Step(p)
    BY DEF Step, Stat, Lock, Read, Unlock, Currents, Program, Brightness
  <2>2. \A p \in Procs : ~Crash(p) /\ \A c \in Calls[led] : ~Begin(p, c)
    BY DEF Crash, Begin
  <2>3. ~UNCHANGED vars
    BY DEF vars
  <2> QED
    BY <2>1, <2>2, <2>3 DEF Next
<1>2. pc[p] \in {"open", "write"} /\ pc'[p] # pc[p]
  BY <1>1 DEF Open, Write, Proceed, Return, Fail, Goto, TypeOK
<1>3. ~Rewrites(call[p])
  BY <1>2 DEF RewriteStep
<1>4. pc[p] = "write" /\ file' = cfg[p] /\ file # Empty
  BY <1>1, <1>3, ConfigAssumption DEF Open, Write
<1>5. /\ file' = Updated(call[p], file) /\ file' \in Config
      /\ call[p].op \in Setter /\ ~RefusedWhen(call[p], file.state)
  BY <1>3, <1>4 DEF NothingStale, CheckStillHolds, TypeOK
<1>6. call[p].op \in {"enable", "disable"}
  BY <1>5 DEF RefusedWhen, Setter
<1> QED
  BY <1>5, <1>6 DEF Updated, LookOf, Config

\* Whatever the callers, their interleaving, crashes and I/O errors: no setter
\* slips past the check of state; only led_init and led_reset, which do not look
\* at it, change the look of a disabled LED.
THEOREM UsersRespectDisabled == Spec => DisabledIsFrozen
<1> QED
  BY FrozenStep, HalInvariance, PTL DEF Spec, DisabledIsFrozen
-----------------------------------------------------------------------------
(* Why a call ends, as CallsReturn says it does: each system call it makes *)
(* leaves it fewer to make, and no other caller can give it more.          *)

\* The most system calls p's call has still to make.
Left(p) == CASE pc[p] = "stat"     -> 10
             [] pc[p] = "open"     -> 9
             [] pc[p] = "lock"     -> 5 + tries[p]
             [] pc[p] = "read"     -> 5
             [] pc[p] = "write"    -> 4
             [] pc[p] = "unlock"   -> 3
             [] pc[p] = "currents" -> 2
             [] pc[p] \in {"program", "brightness"} -> 1
             [] OTHER              -> 0

\* A step of p's call shortens it; what any other caller does, with the lock or
\* the file or by its death, does not lengthen it.
Shortens ==
  \A p \in Procs : pc[p] # "idle" =>
    /\ Left(p) \in 1..10 /\ Left(p)' <= Left(p)
    /\ Step(p) => Left(p)' < Left(p)

\* A step of p shortens the call of p.
LEMMA OwnStep == ASSUME TypeOK, NEW p \in Procs, Step(p) PROVE Left(p)' < Left(p)
<1> USE DEF Left, TypeOK, MaxTries
<1>0. tries[p] \in 1..3
  OBVIOUS
<1>1. CASE Stat(p)
  BY <1>1 DEF Stat, Return, Proceed, Goto
<1>2. CASE Open(p)
  BY <1>2 DEF Open, Return, Proceed, Goto
<1>3. CASE Lock(p)
  BY <1>0, <1>3 DEF Lock, Locked, Return, Proceed, Goto
<1>4. CASE Read(p)
  BY <1>4 DEF Read, Took, Fail, Goto
<1>5. CASE Write(p)
  BY <1>5 DEF Write, Fail, Proceed, Goto
<1>6. CASE Unlock(p)
  BY <1>6 DEF Unlock, Return, Proceed, Goto
<1>7. CASE Currents(p)
  BY <1>7 DEF Currents, Return, Proceed, Goto
<1>8. CASE Program(p) \/ Brightness(p)
  BY <1>8 DEF Program, Brightness, Return, Goto
<1> QED
  BY <1>1, <1>2, <1>3, <1>4, <1>5, <1>6, <1>7, <1>8 DEF Step

\* A caller's place in its call, and the attempts it has left, are its own.
LEMMA PlaceKept ==
  ASSUME TypeOK, NEW p \in Procs, NEW q \in Procs \ {p},
         Step(q) \/ Crash(q) \/ \E c \in Calls[led] : Begin(q, c)
  PROVE  pc'[p] = pc[p] /\ tries'[p] = tries[p]
<1> USE DEF TypeOK
<1>1. CASE \E c \in Calls[led] : Begin(q, c)
  BY <1>1 DEF Begin, Return, Goto
<1>2. CASE Crash(q)
  BY <1>2 DEF Crash, Return, Goto
<1>3. CASE Stat(q) \/ Open(q)
  BY <1>3 DEF Stat, Open, Proceed, Return, Goto
<1>4. CASE Lock(q)
  BY <1>4 DEF Lock, Locked, Proceed, Return, Goto
<1>5. CASE Read(q)
  BY <1>5 DEF Read, Took, Fail, Goto
<1>6. CASE Write(q) \/ Unlock(q)
  BY <1>6 DEF Write, Unlock, Fail, Proceed, Return, Goto
<1>7. CASE Currents(q) \/ Program(q) \/ Brightness(q)
  BY <1>7 DEF Currents, Program, Brightness, Proceed, Return, Goto
<1> QED
  BY <1>1, <1>2, <1>3, <1>4, <1>5, <1>6, <1>7 DEF Step

\* Every step of the HAL shortens the call it belongs to and lengthens none.
LEMMA ShortensStep == TypeOK /\ TypeOK' /\ [Next]_vars => [Shortens]_vars
<1> SUFFICES ASSUME TypeOK, TypeOK', Next, NEW p \in Procs, pc[p] # "idle"
             PROVE  /\ Left(p) \in 1..10 /\ Left(p)' <= Left(p)
                    /\ Step(p) => Left(p)' < Left(p)
  BY DEF Shortens
<1>1. Left(p) \in 1..10
  BY DEF Left, TypeOK, Label, MaxTries
<1>2. CASE Step(p)
  <2>1. Left(p)' < Left(p)
    BY <1>2, OwnStep
  <2>2. Left(p)' \in 0..10
    BY DEF Left, TypeOK, Label, MaxTries
  <2> QED
    BY <1>1, <2>1, <2>2
<1>3. CASE Crash(p)
  <2>1. pc'[p] = "idle"
    BY <1>3 DEF Crash, Return, Goto, TypeOK
  <2> QED
    BY <1>1, <2>1 DEF Left
<1>4. ASSUME NEW q \in Procs \ {p},
             Step(q) \/ Crash(q) \/ \E c \in Calls[led] : Begin(q, c)
      PROVE  Left(p)' = Left(p)
  <2>1. pc'[p] = pc[p] /\ tries'[p] = tries[p]
    BY <1>4, PlaceKept
  <2> QED
    BY <2>1 DEF Left
<1>5. \A c \in Calls[led] : ~Begin(p, c)
  BY DEF Begin
<1>6. CASE ~Step(p) /\ ~Crash(p)
  <2>1. Left(p)' = Left(p)
    BY <1>4, <1>5, <1>6 DEF Next
  <2> QED
    BY <1>1, <1>6, <2>1
<1> QED
  BY <1>2, <1>3, <1>6

\* A call is at most ten system calls, whatever the other callers do meanwhile:
\* a call that goes on returns, in a time no other caller can lengthen.
THEOREM CallsShorten == Spec => [][Shortens]_vars
BY ShortensStep, HalTypeCorrect, PTL DEF Spec
=============================================================================
