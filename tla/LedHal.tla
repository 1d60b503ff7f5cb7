------------------------------- MODULE LedHal -------------------------------
(***************************************************************************)
(* ledhal.c for one LED: its functions as the system calls they make, run  *)
(* by several callers at once (ledmgrmain and ledtest are two processes,   *)
(* each may have threads). They share the configuration file, the flock    *)
(* on it and the device. A call that is not led_init is                    *)
(*    open; lock (three attempts); read; check; write; unlock              *)
(* led_reset truncates at open and does not read; led_applySettings does   *)
(* not write and goes on to the device after it has unlocked: here to an   *)
(* LP5562 or to the brightness of the IR LED. Where the front panel is an  *)
(* AW210xx (ledhal.c:1385) it starts a background job instead and returns  *)
(* before the LED shows anything: LedDevice is about that.                 *)
(***************************************************************************)
EXTENDS LedConfig, Naturals

CONSTANTS
  Procs,       \* the callers: each opens the file for itself
  Nobody,      \* holds the lock when no caller does
  Leds,        \* the kinds of LED explored, a subset of Kind
  Calls,       \* Calls[l]: the calls explored for LED l, a subset of Call
  Start,       \* what the file may hold at the beginning
  StartLook,   \* what the LED may show then: what the boot loader left
  Crashers,    \* callers that may die in the middle of a call
  Live,        \* callers the scheduler is fair to
  IoMayFail    \* BOOLEAN: may a read, a write or the device fail?

\* ledId_t and the device behind it: a front panel (the two are alike) with an
\* LP5562, or the IR LED of the camera.
Kind == {"LP5562", "CAMERA_IR"}

\* What a LED shows: the parts of a configuration that reach the device.
Look  == [current : Field, pwm : Field, action : Field]

ASSUME HalAssumption ==
  /\ Leds \subseteq Kind
  /\ Nobody \notin Procs
  /\ Calls \in [Leds -> SUBSET Call]
  /\ Start \subseteq {Absent, Empty, DefaultConfig}
  /\ StartLook \subseteq Look
  /\ Crashers \subseteq Procs /\ Live \subseteq Procs
  /\ IoMayFail \in BOOLEAN

MaxTries == 3    \* lock_led_config

VARIABLES
  led,     \* the LED all this is about
  file,    \* Absent, Empty or a configuration
  lock,    \* who holds LOCK_EX
  pc,      \* pc[p]: the next system call of p's current call
  call,    \* call[p]: the function p is in, or was last in
  tries,   \* tries[p]: lock attempts left
  cfg,     \* cfg[p]: p's local led_config
  ret,     \* ret[p]: what p's last call returned, or is about to return
  chip     \* what the LED shows: a configuration's currents, PWMs and action

procVars == <<pc, call, tries, cfg, ret>>
vars     == <<led, file, lock, procVars, chip>>

Label == {"idle", "stat", "open", "lock", "read", "write", "unlock",
          "currents", "program", "brightness"}
Holding == {"read", "write", "unlock"}
Error == {"NONE", "OPERATION_NOT_SUPPORTED", "UNKNOWN"}

LookOf(c) == [current |-> c.current, pwm |-> c.pwm, action |-> c.action]

NoCall == [op |-> "apply", arg |-> Default]

Init ==
  /\ led \in Leds
  /\ file \in Start
  /\ lock = Nobody
  /\ pc    = [p \in Procs |-> "idle"]
  /\ call  = [p \in Procs |-> NoCall]
  /\ tries = [p \in Procs |-> MaxTries]
  /\ cfg   = [p \in Procs |-> DefaultConfig]
  /\ ret   = [p \in Procs |-> "NONE"]
  /\ chip \in StartLook

Goto(p, label) == pc' = [pc EXCEPT ![p] = label]

\* The function goes on to its next system call, changing none of its locals.
Proceed(p, label) == Goto(p, label) /\ UNCHANGED <<call, tries, cfg, ret>>

\* The function returns e; its locals are gone.
Return(p, e) ==
  /\ Goto(p, "idle")
  /\ call'  = [call EXCEPT ![p] = NoCall]
  /\ tries' = [tries EXCEPT ![p] = MaxTries]
  /\ cfg'   = [cfg EXCEPT ![p] = DefaultConfig]
  /\ ret'   = [ret EXCEPT ![p] = e]

\* Mutant: an error path that forgets the lock.
FailLocked(p, e) == Return(p, e)

\* The function will return e once it has given the lock back.
Fail(p, e) ==
  /\ Goto(p, "unlock")
  /\ ret' = [ret EXCEPT ![p] = e]
  /\ UNCHANGED <<call, tries, cfg>>

IsIR == led = "CAMERA_IR"

\* The IR LED has no colour and does not blink.
NotSupported(c) == IsIR /\ c.op \in {"color", "blink"}

\* A function is called: led_init first looks at the file's size. What the LED
\* cannot do is refused before the file is touched.
Begin(p, c) ==
  /\ pc[p] = "idle"
  /\ \/ NotSupported(c) /\ Return(p, "OPERATION_NOT_SUPPORTED")
     \/ /\ ~NotSupported(c)
        /\ Goto(p, IF c.op = "init" THEN "stat" ELSE "open")
        /\ call' = [call EXCEPT ![p] = c]
        /\ ret' = [ret EXCEPT ![p] = "NONE"]
        /\ UNCHANGED <<tries, cfg>>
  /\ UNCHANGED <<led, file, lock, chip>>

\* led_init: a file of the right size is a configuration already written.
Stat(p) ==
  /\ pc[p] = "stat"
  /\ \/ file \in Config /\ Return(p, "NONE")
     \/ file \notin Config /\ Proceed(p, "open")
  /\ UNCHANGED <<led, file, lock, chip>>

\* The mode each function opens the file with: led_init O_CREAT|O_EXCL,
\* led_reset O_CREAT|O_TRUNC, the others an existing file. Opening needs no lock.
Opens(p) == CASE call[p].op = "init"  -> file = Absent
              [] call[p].op = "reset" -> TRUE
              [] OTHER                -> file # Absent

\* Mutant: every function truncates the file it opens.
OpenTruncates(p) ==
  /\ pc[p] = "open"
  /\ \/ Opens(p) /\ file' = Empty /\ Proceed(p, "lock")
     \/ ~Opens(p) /\ Return(p, "UNKNOWN") /\ UNCHANGED file
  /\ UNCHANGED <<led, lock, chip>>

Open(p) ==
  /\ pc[p] = "open"
  /\ \/ /\ Opens(p)
        /\ file' = IF Rewrites(call[p]) THEN Empty ELSE file
        /\ Proceed(p, "lock")
     \/ ~Opens(p) /\ Return(p, "UNKNOWN") /\ UNCHANGED file
  /\ UNCHANGED <<led, lock, chip>>

\* Granted the lock: what is rewritten need not be read.
Locked(p) ==
  /\ lock' = p
  /\ Proceed(p, IF Rewrites(call[p]) THEN "write" ELSE "read")

\* Mutants: the lock is taken whoever has it; waited for without end; tried for
\* once too often.
LockAnyway(p)  == pc[p] = "lock" /\ Locked(p) /\ UNCHANGED <<led, file, chip>>
LockForever(p) ==
  pc[p] = "lock" /\ lock = Nobody /\ Locked(p) /\ UNCHANGED <<led, file, chip>>
LockOnceMore(p) ==
  /\ pc[p] = "lock"
  /\ \/ lock = Nobody /\ Locked(p)
     \/ /\ lock # Nobody /\ tries[p] > 0
        /\ tries' = [tries EXCEPT ![p] = @ - 1]
        /\ UNCHANGED <<lock, pc, call, cfg, ret>>
     \/ lock # Nobody /\ tries[p] <= 0 /\ Return(p, "UNKNOWN") /\ UNCHANGED lock
  /\ UNCHANGED <<led, file, chip>>

\* lock_led_config: flock(LOCK_EX|LOCK_NB), at most three times.
Lock(p) ==
  /\ pc[p] = "lock"
  /\ \/ lock = Nobody /\ Locked(p)
     \/ /\ lock # Nobody /\ tries[p] > 1
        /\ tries' = [tries EXCEPT ![p] = @ - 1]
        /\ UNCHANGED <<lock, pc, call, cfg, ret>>
     \/ lock # Nobody /\ tries[p] <= 1 /\ Return(p, "UNKNOWN") /\ UNCHANGED lock
  /\ UNCHANGED <<led, file, chip>>

\* read_led_config gave f: the caller's copy, updated, and what comes next.
Took(p, f) ==
  /\ cfg' = [cfg EXCEPT ![p] = Updated(call[p], f)]
  /\ Goto(p, IF call[p].op = "apply" THEN "unlock" ELSE "write")
  /\ UNCHANGED <<call, tries, ret>>

\* Mutants: the configuration of a disabled LED is not protected; the lock is
\* given back once the configuration is read.
ReadUnchecked(p) == /\ pc[p] = "read"
                    /\ \E f \in Contents(file) : Took(p, f)
                    /\ UNCHANGED <<led, file, lock, chip>>
ReadThenUnlock(p) == /\ pc[p] = "read"
                     /\ \E f \in Contents(file) : Took(p, f)
                     /\ lock' = Nobody
                     /\ UNCHANGED <<led, file, chip>>

\* read_led_config and the check of state.
Read(p) ==
  /\ pc[p] = "read"
  /\ \/ \E f \in Contents(file) :
          \/ RefusedWhen(call[p], f.state) /\ Fail(p, "OPERATION_NOT_SUPPORTED")
          \/ ~RefusedWhen(call[p], f.state) /\ Took(p, f)
     \/ IoMayFail /\ Fail(p, "UNKNOWN")
  /\ UNCHANGED <<led, file, lock, chip>>

\* write_led_config
Write(p) ==
  /\ pc[p] = "write"
  /\ \/ file' = cfg[p] /\ Proceed(p, "unlock")
     \/ IoMayFail /\ Fail(p, "UNKNOWN") /\ UNCHANGED file
  /\ UNCHANGED <<led, lock, chip>>

\* flock(LOCK_UN) and close. Only led_applySettings has more to do.
Unlock(p) ==
  /\ pc[p] = "unlock"
  /\ lock' = Nobody
  /\ IF call[p].op = "apply" /\ ret[p] = "NONE"
       THEN Proceed(p, IF IsIR THEN "brightness" ELSE "currents")
       ELSE Return(p, ret[p])
  /\ UNCHANGED <<led, file, chip>>

\* led_apply_lp5562_setting: the currents go to the LP5562 over I2C,
Currents(p) ==
  /\ pc[p] = "currents"
  /\ \/ chip' = [chip EXCEPT !.current = cfg[p].current] /\ Proceed(p, "program")
     \/ IoMayFail /\ Return(p, "UNKNOWN") /\ UNCHANGED chip
  /\ UNCHANGED <<led, file, lock>>

\* What is left of the look when the currents are written.
ShowPwm(p) == chip' = [chip EXCEPT !.pwm = cfg[p].pwm, !.action = cfg[p].action]

\* then the PWMs and the action as programs of its engines, through sysfs, by
\* shell commands nobody checks.
Program(p) ==
  /\ pc[p] = "program"
  /\ ShowPwm(p) /\ Return(p, "NONE")
  /\ UNCHANGED <<led, file, lock>>

\* led_apply_irled_setting: brightness and action of the IR LED are one number,
\* 0 unless it is on.
Brightness(p) ==
  /\ pc[p] = "brightness"
  /\ \/ ShowPwm(p) /\ Return(p, "NONE")
     \/ IoMayFail /\ Return(p, "UNKNOWN") /\ UNCHANGED chip
  /\ UNCHANGED <<led, file, lock>>

\* The process dies: the kernel closes its file and with it drops the lock.
Crash(p) ==
  /\ p \in Crashers /\ pc[p] # "idle"
  /\ lock' = IF lock = p THEN Nobody ELSE lock
  /\ Return(p, "UNKNOWN")
  /\ UNCHANGED <<led, file, chip>>

Step(p) == \/ Stat(p) \/ Open(p) \/ Lock(p) \/ Read(p) \/ Write(p) \/ Unlock(p)
           \/ Currents(p) \/ Program(p) \/ Brightness(p)

Next == \E p \in Procs : \/ \E c \in Calls[led] : Begin(p, c)
                         \/ Step(p)
                         \/ Crash(p)

Spec == Init /\ [][Next]_vars

\* A call goes on unless the scheduler forgets the process, as it may forget a
\* stopped one. Nobody has to make a call.
FairSpec == Spec /\ \A p \in Live : WF_vars(Step(p))
-----------------------------------------------------------------------------
TypeOK ==
  /\ led \in Leds
  /\ file \in {Absent, Empty} \cup Config
  /\ lock \in Procs \cup {Nobody}
  /\ pc \in [Procs -> Label]
  /\ call \in [Procs -> Call]
  /\ tries \in [Procs -> 1..MaxTries]
  /\ cfg \in [Procs -> Config]
  /\ ret \in [Procs -> Error]
  /\ chip \in Look

\* The lock is held by the one caller that is between flock and its release:
\* read_led_config and write_led_config never run for two callers at once, and
\* no path out of a function, error path or death, keeps it.
LockIsHeld == \A p \in Procs : pc[p] \in Holding <=> lock = p

\* A caller about to write holds the change of what is in the file now, not of
\* what was there when it was read - unless led_reset or led_init truncated the
\* file in between, which they do before they ask for the lock.
NothingStale ==
  \A p \in Procs :
    pc[p] = "write" =>
      IF Rewrites(call[p]) THEN cfg[p] = DefaultConfig
      ELSE file = Empty \/ cfg[p] = Updated(call[p], file)

\* The file behaves as the store it is meant to be: concurrent setters of
\* different fields never undo each other.
Store == INSTANCE LedStore
StoreSpec == Store!Spec

\* read_led_config answers "0 success" (ledhal.c:214) only when it has read: no
\* caller writes back a field that came from neither the file nor its call.
\* It holds as long as nobody truncates the file of a caller at work.
ReadSuccessMeansRead ==
  \A p \in Procs : pc[p] = "write" =>
    /\ cfg[p].current # Junk /\ cfg[p].pwm # Junk /\ cfg[p].action # Junk

\* A step of led_init or led_reset at which they truncate or write.
RewriteStep == \E p \in Procs : /\ Rewrites(call[p])
                                /\ pc[p] \in {"open", "write"} /\ pc'[p] # pc[p]

\* "if LED is disabled, you cannot set it's config" (ledhal.c:164): whatever the
\* callers do to the file of a disabled LED, only its state may change - but for
\* led_init and led_reset, which truncate and write without a look at state.
DisabledIsFrozen ==
  [][(file \in Config /\ ~file.state)
        => \/ file' \in Config /\ LookOf(file') = LookOf(file)
           \/ RewriteStep]_file

\* No caller waits for another: a call of a scheduled process returns even when
\* a stopped one sits on the lock for ever.
CallsReturn == \A p \in Live : pc[p] # "idle" ~> pc[p] = "idle"
=============================================================================
