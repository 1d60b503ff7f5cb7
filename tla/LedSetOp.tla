------------------------------ MODULE LedSetOp ------------------------------
(***************************************************************************)
(* ledmgr_setOp of ledmgr.c over ledhal.c: one request is a script of HAL  *)
(* calls whose results nobody looks at, run under a mutex that the threads *)
(* of a process share and other processes do not (ledmgrmain and ledtest   *)
(* each have their own). Every HAL call is the one of LedHal, system call  *)
(* by system call, on a front panel with an LP5562: an AW210xx gets its    *)
(* look from background jobs, which LedDevice is about.                    *)
(***************************************************************************)
EXTENDS LedHal, Sequences

CONSTANTS
  ProcessOf,     \* the process of each thread
  Requests,      \* the requests explored: looks, and Off
  Off,           \* LED_MGR_OP_NO_LIGHT
  OffAction,     \* the action of setOnOff("off")
  NoRequest

Process == {ProcessOf[t] : t \in Procs}

\* SOLID_LIGHT and the blinks give all three parts of a look: brightness and
\* colour by g_ledColorVal, the action by g_ledOpVal.
ASSUME SetOpAssumption ==
  /\ ProcessOf \in [Procs -> Process]
  /\ OffAction \in Values
  /\ Requests \subseteq [current : Values, pwm : Values, action : Values] \cup {Off}
  /\ NoRequest \notin Requests
  /\ Off \notin [current : Values, pwm : Values, action : Values]
  /\ Leds = {"LP5562"} /\ Calls = [l \in Leds |-> Call]

VARIABLES
  mutex,      \* mutex[q]: the thread of q that holds ledinitmutex, or Nobody
  asked,      \* asked[t]: the request t carries out, or NoRequest
  todo,       \* todo[t]: the HAL calls still to make
  solo        \* history: has t had the HAL for itself since it took the mutex?

setOpVars == <<mutex, asked, todo, solo>>
allVars   == <<vars, setOpVars>>

Do(op, arg) == [op |-> op, arg |-> arg]

\* Mutant: the brightness of the last request is kept.
ScriptNoReset(r) ==
  IF r = Off
    THEN <<Do("init", Default), Do("action", OffAction), Do("apply", Default)>>
    ELSE <<Do("init", Default), Do("brightness", r.pwm), Do("color", r.current),
           Do("action", r.action), Do("apply", Default)>>

\* The switch of ledmgr_setOp: SOLID_LIGHT ends in setOnOff("on"), the blinks
\* in setBlink or setBlinkSequence. A front panel takes all three alike: here
\* they are one call.
Script(r) ==
  IF r = Off
    THEN <<Do("init", Default), Do("action", OffAction), Do("apply", Default)>>
    ELSE <<Do("init", Default), Do("reset", Default),
           Do("brightness", r.pwm), Do("color", r.current),
           Do("action", r.action), Do("apply", Default)>>

Working(t) == asked[t] # NoRequest

InitAll == /\ Init
           /\ mutex = [q \in Process |-> Nobody]
           /\ asked = [t \in Procs |-> NoRequest]
           /\ todo  = [t \in Procs |-> <<>>]
           /\ solo  = [t \in Procs |-> FALSE]

\* The calls of a request start here, once the mutex is had.
Accept(t, r) ==
  /\ asked' = [asked EXCEPT ![t] = r]
  /\ todo'  = [todo EXCEPT ![t] = Script(r)]
  /\ solo'  = IF \E u \in Procs \ {t} : Working(u)
                THEN [u \in Procs |-> FALSE]
                ELSE [solo EXCEPT ![t] = TRUE]
  /\ UNCHANGED vars

\* Mutant: the mutex is not looked at.
SetOpAnyway(t, r) ==
  /\ ~Working(t)
  /\ mutex' = [mutex EXCEPT ![ProcessOf[t]] = t]
  /\ Accept(t, r)

\* ledmgr_setOp up to pthread_mutex_trylock. Where the mutex is taken it returns
\* LED_MGR_ERR_BUSY, and nothing has changed.
SetOp(t, r) ==
  /\ ~Working(t) /\ mutex[ProcessOf[t]] = Nobody
  /\ mutex' = [mutex EXCEPT ![ProcessOf[t]] = t]
  /\ Accept(t, r)

\* The next HAL call of the script: its result is thrown away.
HalCall(t) ==
  /\ Working(t) /\ todo[t] # <<>>
  /\ Begin(t, Head(todo[t]))
  /\ todo' = [todo EXCEPT ![t] = Tail(@)]
  /\ UNCHANGED <<mutex, asked, solo>>

HalStep(t) == Step(t) /\ UNCHANGED setOpVars

\* Mutant: an early return that keeps the mutex.
FinishKeeping(t) ==
  /\ Working(t) /\ todo[t] = <<>> /\ pc[t] = "idle"
  /\ asked' = [asked EXCEPT ![t] = NoRequest]
  /\ solo'  = [solo EXCEPT ![t] = FALSE]
  /\ UNCHANGED <<vars, todo, mutex>>

\* pthread_mutex_unlock and return.
Finish(t) ==
  /\ Working(t) /\ todo[t] = <<>> /\ pc[t] = "idle"
  /\ mutex' = [mutex EXCEPT ![ProcessOf[t]] = Nobody]
  /\ asked' = [asked EXCEPT ![t] = NoRequest]
  /\ solo'  = [solo EXCEPT ![t] = FALSE]
  /\ UNCHANGED <<vars, todo>>

\* The process dies in the middle of t's request, and is started again.
Die(t) ==
  /\ Working(t) /\ t \in Crashers
  /\ Crash(t) \/ (pc[t] = "idle" /\ UNCHANGED vars)
  /\ mutex' = [mutex EXCEPT ![ProcessOf[t]] = Nobody]
  /\ asked' = [asked EXCEPT ![t] = NoRequest]
  /\ todo'  = [todo EXCEPT ![t] = <<>>]
  /\ solo'  = [solo EXCEPT ![t] = FALSE]

NextAll == \E t \in Procs : \/ \E r \in Requests : SetOp(t, r)
                            \/ HalCall(t)
                            \/ HalStep(t)
                            \/ Finish(t)
                            \/ Die(t)

SetOpSpec == InitAll /\ [][NextAll]_allVars

\* Live threads are scheduled: none of the calls of a request blocks. The others
\* may stop for ever, also in a critical section of the HAL.
FairSetOpSpec ==
  /\ SetOpSpec
  /\ \A t \in Live : WF_allVars(HalCall(t) \/ HalStep(t) \/ Finish(t))
-----------------------------------------------------------------------------
\* The mutex names the thread whose request is under way, and the HAL is only
\* called with it.
SetOpTypeOK ==
  /\ TypeOK
  /\ mutex \in [Process -> Procs \cup {Nobody}]
  /\ \A t \in Procs : /\ asked[t] \in Requests \cup {NoRequest}
                      /\ Working(t) <=> mutex[ProcessOf[t]] = t
                      /\ ~Working(t) => pc[t] = "idle" /\ todo[t] = <<>>

\* The threads of one process never meet at the file: lock_led_config gets the
\* lock at its first attempt, so the results ledmgr_setOp ignores are no errors.
NeverContended == \A t \in Procs : pc[t] = "lock" => lock = Nobody

\* Seen from the threads of one process, requests are carried out one after the
\* other and wholly: the mutex is all the exclusion a process needs.
Inside == {t \in Procs : Working(t)}
Want   == IF Inside = {} THEN NoRequest ELSE asked[CHOOSE t \in Inside : TRUE]
Panel  == INSTANCE LedPanel WITH want <- Want, shown <- chip
PanelSpec == Panel!Spec

\* A request other than Off that had the HAL for itself has, when ledmgr_setOp
\* is about to return, taken effect on the file and on the LED - whatever dead
\* or competing processes had left in the file. led_reset is what heals it.
SoloTakesEffect ==
  \A t \in Procs :
    Working(t) /\ todo[t] = <<>> /\ pc[t] = "idle" /\ solo[t] /\ asked[t] # Off
      => /\ chip = asked[t]
         /\ file \in Config /\ file.state /\ LookOf(file) = asked[t]

\* Liveness: a process does not stay BUSY. Its mutex becomes free again, also
\* when another process has stopped with the lock of the file, or come in between
\* and left it empty or locked at every attempt.
NeverBusyForEver ==
  \A t \in Live : mutex[ProcessOf[t]] # Nobody ~> mutex[ProcessOf[t]] = Nobody
=============================================================================
