--------------------------- MODULE LedSetOp_proofs ---------------------------
(***************************************************************************)
(* ledmgr_setOp for any threads of any processes: it only ever uses the    *)
(* HAL as LedHal says, so what is proved there holds for it; the mutex     *)
(* keeps the threads of a process from meeting at the file; and a light    *)
(* that had the HAL for itself takes effect.                               *)
(***************************************************************************)
EXTENDS LedSetOp, LedHal_proofs

\* The variables of ledmgr_setOp are of their types.
SetOpTypes ==
  /\ mutex \in [Process -> Procs \cup {Nobody}]
  /\ asked \in [Procs -> Requests \cup {NoRequest}]
  /\ todo \in [Procs -> Seq(Call)]
  /\ solo \in [Procs -> BOOLEAN]

\* The part of SetOpTypeOK that says what the mutex is for.
MutexOK ==
  \A t \in Procs : /\ Working(t) <=> mutex[ProcessOf[t]] = t
                   /\ ~Working(t) => pc[t] = "idle" /\ todo[t] = <<>>

\* Every script is made of calls of the HAL.
LEMMA ScriptCalls ==
  \A r \in Requests : /\ Script(r) \in Seq(Call) /\ r # NoRequest
                      /\ r # Off => /\ Len(Script(r)) = 6
                                    /\ r \in [current : Values, pwm : Values,
                                              action : Values]
<1> SUFFICES ASSUME NEW r \in Requests
             PROVE  /\ Script(r) \in Seq(Call) /\ r # NoRequest
                    /\ r # Off => /\ Len(Script(r)) = 6
                                  /\ r \in [current : Values, pwm : Values,
                                            action : Values]
  OBVIOUS
<1> DEFINE Good == [current : Values, pwm : Values, action : Values]
<1>1. r # NoRequest /\ (r # Off => r \in Good)
  BY SetOpAssumption
<1>2. \A op \in Op, a \in Values : Do(op, a) \in Call
  BY DEF Do, Call
<1>3. Default \in Values /\ OffAction \in Values
  BY ConfigAssumption, SetOpAssumption
<1>4. {"init", "reset", "brightness", "color", "action", "apply"} \subseteq Op
  BY DEF Op, Setter
<1>5. CASE r = Off
  BY <1>1, <1>2, <1>3, <1>4, <1>5 DEF Script
<1>6. CASE r # Off
  <2>1. r.pwm \in Values /\ r.current \in Values /\ r.action \in Values
    BY <1>1, <1>6
  <2>2. /\ Do("init", Default) \in Call /\ Do("reset", Default) \in Call
        /\ Do("brightness", r.pwm) \in Call /\ Do("color", r.current) \in Call
        /\ Do("action", r.action) \in Call /\ Do("apply", Default) \in Call
    BY <1>2, <1>3, <1>4, <2>1
  <2> QED
    BY <1>1, <1>6, <2>2 DEF Script
<1> QED
  BY <1>5, <1>6

\* ledmgr_setOp starts as the HAL does, with nothing asked for.
LEMMA InitSetOp == InitAll => Init /\ SetOpTypes /\ MutexOK
<1> SUFFICES ASSUME InitAll PROVE Init /\ SetOpTypes /\ MutexOK
  OBVIOUS
<1>1. Init /\ SetOpTypes
  BY DEF InitAll, SetOpTypes
<1>2. \A t \in Procs : ProcessOf[t] \in Process /\ Nobody # t
  BY HalAssumption DEF Process
<1> QED
  BY <1>1, <1>2 DEF InitAll, Init, MutexOK, Working

\* What ledmgr_setOp does with the HAL is a step of LedHal, or none.
LEMMA SetOpUsesHal == SetOpTypes /\ TypeOK /\ [NextAll]_allVars => [Next]_vars
<1> SUFFICES ASSUME SetOpTypes, TypeOK, [NextAll]_allVars PROVE [Next]_vars
  OBVIOUS
<1>1. Calls[led] = Call
  BY SetOpAssumption DEF TypeOK
<1>2. ASSUME NEW t \in Procs, HalCall(t) PROVE Next
  <2>1. todo[t] \in Seq(Call) /\ todo[t] # <<>>
    BY <1>2 DEF HalCall, SetOpTypes
  <2>2. Head(todo[t]) \in Calls[led]
    BY <1>1, <2>1
  <2> QED
    BY <1>2, <2>2 DEF HalCall, Next
<1>3. ASSUME NEW t \in Procs, HalStep(t) PROVE Next
  BY <1>3 DEF HalStep, Next
<1>4. ASSUME NEW t \in Procs, NEW r \in Requests, SetOp(t, r) PROVE UNCHANGED vars
  BY <1>4 DEF SetOp, Accept
<1>5. ASSUME NEW t \in Procs, Finish(t) PROVE UNCHANGED vars
  BY <1>5 DEF Finish, vars
<1>6. ASSUME NEW t \in Procs, Die(t) PROVE [Next]_vars
  BY <1>6 DEF Die, Next
<1>7. CASE UNCHANGED allVars
  BY <1>7 DEF allVars
<1> QED
  BY <1>2, <1>3, <1>4, <1>5, <1>6, <1>7 DEF NextAll

\* ledmgr_setOp's own variables keep their types.
LEMMA SetOpTypesKept == SetOpTypes /\ [NextAll]_allVars => SetOpTypes'
<1> SUFFICES ASSUME SetOpTypes, [NextAll]_allVars PROVE SetOpTypes'
  OBVIOUS
<1> USE DEF SetOpTypes
<1>1. ASSUME NEW t \in Procs, NEW r \in Requests, SetOp(t, r) PROVE SetOpTypes'
  <2>1. Script(r) \in Seq(Call)
    BY ScriptCalls
  <2>2. todo' \in [Procs -> Seq(Call)] /\ asked' \in [Procs -> Requests \cup {NoRequest}]
    BY <1>1, <2>1 DEF SetOp, Accept
  <2>3. mutex' \in [Process -> Procs \cup {Nobody}]
    BY <1>1 DEF SetOp
  <2>4. solo' \in [Procs -> BOOLEAN]
    BY <1>1 DEF SetOp, Accept
  <2> QED
    BY <2>2, <2>3, <2>4
<1>2. ASSUME NEW t \in Procs, HalCall(t) PROVE SetOpTypes'
  <2>1. Tail(todo[t]) \in Seq(Call)
    BY <1>2 DEF HalCall
  <2> QED
    BY <1>2, <2>1 DEF HalCall
<1>3. ASSUME NEW t \in Procs, HalStep(t) PROVE SetOpTypes'
  BY <1>3 DEF HalStep, setOpVars
<1>4. ASSUME NEW t \in Procs, Finish(t) PROVE SetOpTypes'
  BY <1>4 DEF Finish
<1>5. ASSUME NEW t \in Procs, Die(t) PROVE SetOpTypes'
  <2>1. <<>> \in Seq(Call)
    OBVIOUS
  <2> QED
    BY <1>5, <2>1 DEF Die
<1>6. CASE UNCHANGED allVars
  BY <1>6 DEF allVars, setOpVars
<1> QED
  BY <1>1, <1>2, <1>3, <1>4, <1>5, <1>6 DEF NextAll

\* The composition: whatever ledmgr_setOp does, in any threads of any processes
\* and with any crashes, the HAL sees a behaviour of LedHal.
THEOREM UsesTheHal == SetOpSpec => Spec /\ []SetOpTypes
<1>1. InitAll => Init /\ SetOpTypes
  BY InitSetOp
<1>2. SetOpTypes /\ IInv /\ [NextAll]_allVars => [Next]_vars
  BY SetOpUsesHal DEF IInv
<1>3. IInv /\ [Next]_vars => IInv'
  BY TypesKept, LockKept, LocalsKept, WritersKept DEF IInv
<1>4. InitAll => IInv
  BY <1>1, InitInv
<1> QED
  BY <1>1, <1>2, <1>3, <1>4, SetOpTypesKept, PTL DEF SetOpSpec, Spec

-----------------------------------------------------------------------------
\* A call under way moves its own caller alone.
LEMMA OthersKept ==
  ASSUME TypeOK, NEW t \in Procs,
         Step(t) \/ Crash(t) \/ (\E c \in Call : Begin(t, c))
  PROVE  \A u \in Procs \ {t} : /\ pc'[u] = pc[u] /\ call'[u] = call[u]
                                /\ cfg'[u] = cfg[u] /\ ret'[u] = ret[u]
<1>1. CASE \E c \in Call : Begin(t, c)
  BY <1>1 DEF Begin, Return, Goto, TypeOK
<1>2. CASE Crash(t)
  BY <1>2 DEF Crash, Return, Goto, TypeOK
<1>3. CASE Stat(t) \/ Open(t)
  BY <1>3 DEF Stat, Open, Proceed, Return, Goto, TypeOK
<1>4. CASE Lock(t)
  BY <1>4 DEF Lock, Locked, Proceed, Return, Goto, TypeOK
<1>5. CASE Read(t)
  BY <1>5 DEF Read, Took, Fail, Goto, TypeOK
<1>6. CASE Write(t) \/ Unlock(t)
  BY <1>6 DEF Write, Unlock, Fail, Proceed, Return, Goto, TypeOK
<1>7. CASE Currents(t) \/ Program(t) \/ Brightness(t)
  BY <1>7 DEF Currents, Program, Brightness, Proceed, Return, Goto, TypeOK
<1> QED
  BY <1>1, <1>2, <1>3, <1>4, <1>5, <1>6, <1>7 DEF Step

\* Only a call under way takes a step, and so only under a request.
LEMMA StepIsInACall == \A t \in Procs : Step(t) => pc[t] # "idle"
BY DEF Step, Stat, Open, Lock, Read, Write, Unlock, Currents, Program,
       Brightness

\* Every way into a request takes the mutex, and every way out gives it back.
LEMMA MutexKept == SetOpTypes /\ TypeOK /\ MutexOK /\ [NextAll]_allVars => MutexOK'
<1> SUFFICES ASSUME SetOpTypes, TypeOK, MutexOK, [NextAll]_allVars PROVE MutexOK'
  OBVIOUS
<1> USE DEF MutexOK, Working
<1>1. \A t \in Procs : ProcessOf[t] \in Process /\ Nobody # t
  BY HalAssumption DEF Process
<1>2. ASSUME NEW t \in Procs, NEW r \in Requests, SetOp(t, r) PROVE MutexOK'
  <2>1. r # NoRequest
    BY SetOpAssumption
  <2>2. UNCHANGED pc
    BY <1>2 DEF SetOp, Accept, vars, procVars
  <2> QED
    BY <1>1, <1>2, <2>1, <2>2 DEF SetOp, Accept, SetOpTypes
<1>3. ASSUME NEW t \in Procs, HalCall(t) PROVE MutexOK'
  <2>1. Head(todo[t]) \in Call
    BY <1>3 DEF HalCall, SetOpTypes
  <2>2. \A u \in Procs \ {t} : pc'[u] = pc[u] /\ todo'[u] = todo[u]
    BY <1>3, <2>1, OthersKept DEF HalCall, SetOpTypes
  <2> QED
    BY <1>3, <2>2 DEF HalCall
<1>4. ASSUME NEW t \in Procs, HalStep(t) PROVE MutexOK'
  <2>1. Working(t)
    BY <1>4, StepIsInACall DEF HalStep
  <2>2. \A u \in Procs \ {t} : pc'[u] = pc[u]
    BY <1>4, OthersKept DEF HalStep
  <2> QED
    BY <1>4, <2>1, <2>2 DEF HalStep, setOpVars
<1>5. ASSUME NEW t \in Procs, Finish(t) PROVE MutexOK'
  <2>1. UNCHANGED pc
    BY <1>5 DEF Finish, vars, procVars
  <2> QED
    BY <1>1, <1>5, <2>1 DEF Finish, SetOpTypes
<1>6. ASSUME NEW t \in Procs, Die(t) PROVE MutexOK'
  <2>1. pc'[t] = "idle" /\ \A u \in Procs \ {t} : pc'[u] = pc[u]
    <3>1. CASE Crash(t)
      BY <3>1, OthersKept DEF Crash, Return, Goto, TypeOK
    <3>2. CASE pc[t] = "idle" /\ UNCHANGED vars
      BY <3>2 DEF vars, procVars
    <3> QED
      BY <1>6, <3>1, <3>2 DEF Die
  <2> QED
    BY <1>1, <1>6, <2>1 DEF Die, SetOpTypes
<1>7. CASE UNCHANGED allVars
  BY <1>7 DEF allVars, setOpVars, vars, procVars
<1> QED
  BY <1>2, <1>3, <1>4, <1>5, <1>6, <1>7 DEF NextAll

\* What is known of ledmgr_setOp and the HAL under it in every state.
AllInv == IInv /\ SetOpTypes /\ MutexOK

\* It holds in every reachable state of any threads of any processes.
THEOREM SetOpInvariance == SetOpSpec => []AllInv
<1>1. InitAll => MutexOK
  BY InitSetOp
<1>2. SetOpTypes /\ IInv /\ MutexOK /\ [NextAll]_allVars => MutexOK'
  BY MutexKept DEF IInv
<1> QED
  BY <1>1, <1>2, UsesTheHal, HalInvariance, PTL DEF SetOpSpec, AllInv

\* The mutex names the thread at work, and the HAL is only called with it.
THEOREM SetOpTypeCorrect == SetOpSpec => []SetOpTypeOK
<1>1. AllInv => SetOpTypeOK
  <2> SUFFICES ASSUME AllInv PROVE SetOpTypeOK
    OBVIOUS
  <2>1. TypeOK /\ mutex \in [Process -> Procs \cup {Nobody}]
    BY DEF AllInv, IInv, SetOpTypes
  <2>2. \A t \in Procs : asked[t] \in Requests \cup {NoRequest}
    BY DEF AllInv, SetOpTypes
  <2> QED
    BY <2>1, <2>2 DEF AllInv, MutexOK, SetOpTypeOK
<1> QED
  BY <1>1, SetOpInvariance, PTL

\* The threads of one process find the lock of the file free, any number of
\* them: who holds it holds the mutex too.
THEOREM OneProcessNeverContends ==
  ASSUME \A t, u \in Procs : ProcessOf[t] = ProcessOf[u]
  PROVE  SetOpSpec => []NeverContended
<1>1. AllInv => NeverContended
  <2> SUFFICES ASSUME AllInv, NEW t \in Procs, pc[t] = "lock", lock # Nobody
               PROVE  FALSE
    BY DEF NeverContended
  <2>1. lock \in Procs /\ pc[lock] \in Holding
    BY DEF AllInv, IInv, TypeOK, LockIsHeld
  <2>2. Working(t) /\ Working(lock)
    BY <2>1 DEF AllInv, MutexOK, Holding
  <2>3. lock = t
    BY <2>1, <2>2 DEF AllInv, MutexOK
  <2> QED
    BY <2>1, <2>3 DEF Holding
<1> QED
  BY <1>1, SetOpInvariance, PTL

-----------------------------------------------------------------------------
(* A light that has the HAL for itself takes effect, where the file system *)
(* and the device do not fail.                                             *)

\* How many of the calls of t's request have been made.
CallsMade(t) == Len(Script(asked[t])) - Len(todo[t])

\* A thread at work is on its script: the call under way is the one last taken
\* from it, and what is left is the rest of it.
OnScript ==
  \A t \in Procs : Working(t) =>
    /\ Len(todo[t]) \in 0..Len(Script(asked[t]))
    /\ \A i \in 1..Len(todo[t]) : todo[t][i] = Script(asked[t])[CallsMade(t) + i]
    /\ pc[t] # "idle" => CallsMade(t) > 0 /\ call[t] = Script(asked[t])[CallsMade(t)]

\* Where the functions of ledhal.c part, and where no error has been met yet.
Shape ==
  \A t \in Procs :
    /\ pc[t] = "stat" => call[t].op = "init"
    /\ pc[t] \in {"currents", "program"} => call[t].op = "apply"
    /\ pc[t] # "brightness"
    /\ pc[t] \in {"stat", "open", "lock", "read"} => ret[t] = "NONE"

\* Nobody but t carries out a request.
Alone(t) == \A u \in Procs \ {t} : ~Working(u)

\* The k-th call of t's request is through with the file.
Past(t, k) == CallsMade(t) > k \/ (CallsMade(t) = k /\ pc[t] \in {"unlock", "idle"})

\* What the calls of a light have achieved so far: led_reset, the second one,
\* leaves a configuration whatever was there, each setter adds its part, and
\* led_applySettings carries all of it to the LED.
LightProgress(t) ==
  /\ Past(t, 2) => file \in Config /\ file.state
  /\ Past(t, 3) => file.pwm = asked[t].pwm
  /\ Past(t, 4) => file.current = asked[t].current
  /\ Past(t, 5) => file.action = asked[t].action
  /\ CallsMade(t) = 6 =>
       /\ pc[t] \in {"unlock", "currents", "program"} => cfg[t] = file /\ ret[t] = "NONE"
       /\ pc[t] = "program" => chip.current = asked[t].current
       /\ pc[t] = "idle" => chip = asked[t]

\* Who has the HAL for itself is alone with it, and a light gets on as it should.
SoloInv ==
  \A t \in Procs : Working(t) /\ solo[t] =>
    Alone(t) /\ (asked[t] # Off => LightProgress(t))

\* The six calls of a light.
LEMMA LightScript ==
  \A r \in Requests \ {Off} :
    /\ Len(Script(r)) = 6
    /\ Script(r)[1] = Do("init", Default) /\ Script(r)[2] = Do("reset", Default)
    /\ Script(r)[3] = Do("brightness", r.pwm) /\ Script(r)[4] = Do("color", r.current)
    /\ Script(r)[5] = Do("action", r.action) /\ Script(r)[6] = Do("apply", Default)
BY DEF Script

\* What is left of a sequence when its head is taken.
LEMMA TailFacts ==
  ASSUME NEW S, NEW q \in Seq(S), q # <<>>
  PROVE  /\ Len(Tail(q)) = Len(q) - 1 /\ Len(q) > 0
         /\ \A i \in 1..Len(Tail(q)) : Tail(q)[i] = q[i + 1]
         /\ Head(q) = q[1]
OBVIOUS

\* A call keeps what it was called with until it returns.
LEMMA StepKeepsCall ==
  \A t \in Procs : TypeOK /\ Step(t) => pc'[t] = "idle" \/ call'[t] = call[t]
<1> SUFFICES ASSUME NEW t \in Procs, TypeOK, Step(t)
             PROVE  pc'[t] = "idle" \/ call'[t] = call[t]
  OBVIOUS
<1>1. CASE Stat(t) \/ Open(t)
  BY <1>1 DEF Stat, Open, Proceed, Return, Goto, TypeOK
<1>2. CASE Lock(t) \/ Read(t)
  BY <1>2 DEF Lock, Locked, Read, Took, Fail, Proceed, Return, Goto, TypeOK
<1>3. CASE Write(t) \/ Unlock(t)
  BY <1>3 DEF Write, Unlock, Fail, Proceed, Return, Goto, TypeOK
<1>4. CASE Currents(t) \/ Program(t) \/ Brightness(t)
  BY <1>4 DEF Currents, Program, Brightness, Proceed, Return, Goto, TypeOK
<1> QED
  BY <1>1, <1>2, <1>3, <1>4 DEF Step

\* Who takes a step, and what it is: the steps of the others leave a thread's
\* request and its call as they were.
LEMMA OthersKeptAll ==
  ASSUME AllInv, NEW t \in Procs, NEW u \in Procs \ {t},
         \/ \E r \in Requests : SetOp(u, r)
         \/ HalCall(u) \/ HalStep(u) \/ Finish(u) \/ Die(u)
  PROVE  /\ asked'[t] = asked[t] /\ todo'[t] = todo[t]
         /\ pc'[t] = pc[t] /\ call'[t] = call[t] /\ cfg'[t] = cfg[t] /\ ret'[t] = ret[t]
<1> USE DEF AllInv, IInv
<1>1. ASSUME NEW r \in Requests, SetOp(u, r)
      PROVE  UNCHANGED <<pc, call, cfg, ret>> /\ asked'[t] = asked[t] /\ todo'[t] = todo[t]
  BY <1>1 DEF SetOp, Accept, vars, procVars, SetOpTypes
<1>2. CASE HalCall(u)
  <2>1. Head(todo[u]) \in Call
    BY <1>2 DEF HalCall, SetOpTypes
  <2> QED
    BY <1>2, <2>1, OthersKept DEF HalCall, SetOpTypes
<1>3. CASE HalStep(u)
  BY <1>3, OthersKept DEF HalStep, setOpVars
<1>4. CASE Finish(u)
  BY <1>4 DEF Finish, vars, procVars, SetOpTypes
<1>5. CASE Die(u)
  <2>1. CASE Crash(u)
    BY <1>5, <2>1, OthersKept DEF Die, SetOpTypes
  <2>2. CASE UNCHANGED vars
    BY <1>5, <2>2 DEF Die, vars, procVars, SetOpTypes
  <2> QED
    BY <1>5, <2>1, <2>2 DEF Die
<1> QED
  BY <1>1, <1>2, <1>3, <1>4, <1>5

\* A thread stays on its script.
LEMMA OnScriptKept == AllInv /\ OnScript /\ [NextAll]_allVars => OnScript'
<1> DEFINE Follows(t) ==
      /\ Len(todo[t]) \in 0..Len(Script(asked[t]))
      /\ \A i \in 1..Len(todo[t]) : todo[t][i] = Script(asked[t])[CallsMade(t) + i]
      /\ pc[t] # "idle" => CallsMade(t) > 0 /\ call[t] = Script(asked[t])[CallsMade(t)]
<1> SUFFICES ASSUME AllInv, OnScript, [NextAll]_allVars, NEW t \in Procs, Working(t)'
             PROVE  Follows(t)'
  BY DEF OnScript
<1>1. ASSUME Working(t), todo'[t] = todo[t], asked'[t] = asked[t],
             pc'[t] = "idle" \/ (pc'[t] = pc[t] /\ call'[t] = call[t])
                             \/ (pc[t] # "idle" /\ call'[t] = call[t])
      PROVE  Follows(t)'
  BY <1>1 DEF OnScript, CallsMade
<1>2. ASSUME NEW u \in Procs \ {t},
             \/ \E r \in Requests : SetOp(u, r)
             \/ HalCall(u) \/ HalStep(u) \/ Finish(u) \/ Die(u)
      PROVE  Follows(t)'
  BY <1>1, <1>2, OthersKeptAll DEF Working
<1>3. ASSUME NEW r \in Requests, SetOp(t, r) PROVE Follows(t)'
  <2>1. todo'[t] = Script(r) /\ asked'[t] = r /\ pc'[t] = "idle"
    BY <1>3 DEF SetOp, Accept, vars, procVars, AllInv, SetOpTypes, MutexOK
  <2>2. Len(Script(r)) \in Nat
    BY ScriptCalls
  <2>3. CallsMade(t)' = 0
    BY <2>1, <2>2 DEF CallsMade
  <2> QED
    BY <2>1, <2>2, <2>3
<1>4. CASE HalCall(t)
  <2> DEFINE s == Script(asked[t])
  <2>1. /\ Working(t) /\ asked'[t] = asked[t] /\ todo'[t] = Tail(todo[t])
        /\ todo[t] \in Seq(Call) /\ todo[t] # <<>> /\ s \in Seq(Call)
    BY <1>4, ScriptCalls DEF HalCall, AllInv, SetOpTypes, Working
  <2>2. call'[t] = Head(todo[t])
    <3>1. Head(todo[t]) \in Call /\ ~NotSupported(Head(todo[t]))
      BY <2>1, SetOpAssumption DEF AllInv, IInv, TypeOK, NotSupported, IsIR
    <3> QED
      BY <1>4, <3>1 DEF HalCall, Begin, AllInv, IInv, TypeOK
  <2>3. /\ Len(todo'[t]) = Len(todo[t]) - 1 /\ Len(todo[t]) > 0
        /\ \A i \in 1..Len(todo'[t]) : todo'[t][i] = todo[t][i + 1]
        /\ Head(todo[t]) = todo[t][1]
    BY <2>1, TailFacts
  <2>4. Len(todo[t]) \in 0..Len(s) /\ Len(s) \in Nat /\ Len(todo[t]) \in Nat
    BY <2>1 DEF OnScript
  <2>5. CallsMade(t)' = CallsMade(t) + 1 /\ CallsMade(t) \in Nat
    <3>1. CallsMade(t)' = Len(s) - Len(todo'[t])
      BY <2>1 DEF CallsMade
    <3>2. CallsMade(t) = Len(s) - Len(todo[t])
      BY DEF CallsMade
    <3> QED
      BY <2>3, <2>4, <3>1, <3>2
  <2>6. \A i \in 1..Len(todo[t]) : todo[t][i] = s[CallsMade(t) + i]
    BY <2>1 DEF OnScript
  <2>7. call'[t] = s[CallsMade(t)']
    BY <2>2, <2>3, <2>4, <2>5, <2>6
  <2>8. ASSUME NEW i \in 1..Len(todo'[t]) PROVE todo'[t][i] = s[CallsMade(t)' + i]
    <3>1. i + 1 \in 1..Len(todo[t]) /\ CallsMade(t) + (i + 1) = CallsMade(t)' + i
      BY <2>3, <2>4, <2>5
    <3> QED
      BY <2>3, <2>6, <3>1
  <2>9. CallsMade(t)' > 0 /\ Len(todo'[t]) \in 0..Len(s)
    BY <2>3, <2>4, <2>5
  <2> QED
    BY <2>1, <2>7, <2>8, <2>9
<1>5. CASE HalStep(t)
  <2>1. pc[t] # "idle" /\ (pc'[t] = "idle" \/ call'[t] = call[t])
    BY <1>5, StepIsInACall, StepKeepsCall DEF HalStep, AllInv, IInv
  <2>2. Working(t)
    BY <2>1 DEF AllInv, MutexOK
  <2> QED
    BY <1>1, <1>5, <2>1, <2>2 DEF HalStep, setOpVars
<1>6. CASE Finish(t) \/ Die(t)
  BY <1>6 DEF Finish, Die, Working, AllInv, SetOpTypes
<1>7. CASE UNCHANGED allVars
  BY <1>1, <1>7 DEF allVars, vars, procVars, setOpVars, Working
<1> QED
  BY <1>2, <1>3, <1>4, <1>5, <1>6, <1>7 DEF NextAll

\* The functions of ledhal.c keep their shape.
LEMMA ShapeKept == TypeOK /\ Shape /\ [Next]_vars => Shape'
<1> SUFFICES ASSUME TypeOK, Shape, [Next]_vars PROVE Shape'
  OBVIOUS
<1>0. ~IsIR
  BY SetOpAssumption DEF IsIR, TypeOK
<1> USE DEF TypeOK, Shape
<1>1. ASSUME NEW p \in Procs, NEW c \in Calls[led], Begin(p, c) PROVE Shape'
  BY <1>1 DEF Begin, Return, Goto
<1>2. ASSUME NEW p \in Procs, Stat(p) \/ Open(p) PROVE Shape'
  BY <1>2 DEF Stat, Open, Proceed, Return, Goto
<1>3. ASSUME NEW p \in Procs, Lock(p) PROVE Shape'
  BY <1>3 DEF Lock, Locked, Proceed, Return, Goto
<1>4. ASSUME NEW p \in Procs, Read(p) PROVE Shape'
  BY <1>4 DEF Read, Took, Fail, Goto
<1>5. ASSUME NEW p \in Procs, Write(p) \/ Unlock(p) PROVE Shape'
  BY <1>0, <1>5 DEF Write, Unlock, Fail, Proceed, Return, Goto
<1>6. ASSUME NEW p \in Procs, Currents(p) \/ Program(p) \/ Brightness(p) PROVE Shape'
  BY <1>6 DEF Currents, Program, Brightness, Proceed, Return, Goto
<1>7. ASSUME NEW p \in Procs, Crash(p) PROVE Shape'
  BY <1>7 DEF Crash, Return, Goto
<1>8. CASE UNCHANGED vars
  BY <1>8 DEF vars, procVars
<1> QED
  BY <1>1, <1>2, <1>3, <1>4, <1>5, <1>6, <1>7, <1>8 DEF Next, Step

\* Which call of a light is under way says where it stands in its script.
LEMMA WhichCall ==
  ASSUME AllInv, OnScript, NEW t \in Procs, Working(t), asked[t] # Off, pc[t] # "idle"
  PROVE  /\ CallsMade(t) \in 1..6 /\ call[t] \in Call
         /\ CallsMade(t) = 1 <=> call[t].op = "init"
         /\ CallsMade(t) = 2 <=> call[t].op = "reset"
         /\ CallsMade(t) = 3 <=> call[t].op = "brightness"
         /\ CallsMade(t) = 4 <=> call[t].op = "color"
         /\ CallsMade(t) = 5 <=> call[t].op = "action"
         /\ CallsMade(t) = 6 <=> call[t].op = "apply"
         /\ CallsMade(t) = 3 => call[t].arg = asked[t].pwm
         /\ CallsMade(t) = 4 => call[t].arg = asked[t].current
         /\ CallsMade(t) = 5 => call[t].arg = asked[t].action
<1>1. asked[t] \in Requests \ {Off}
  BY DEF AllInv, SetOpTypes, Working
<1>2. Len(Script(asked[t])) = 6
  BY <1>1, LightScript
<1>3. Len(todo[t]) \in 0..6 /\ CallsMade(t) > 0 /\ call[t] = Script(asked[t])[CallsMade(t)]
  BY <1>2 DEF OnScript
<1>4. CallsMade(t) \in 1..6
  BY <1>2, <1>3 DEF CallsMade
<1>5. call[t] \in Call
  BY DEF AllInv, IInv, TypeOK
<1> DEFINE s == Script(asked[t])
<1>6. /\ s[1].op = "init" /\ s[2].op = "reset" /\ s[3].op = "brightness"
      /\ s[4].op = "color" /\ s[5].op = "action" /\ s[6].op = "apply"
      /\ s[3].arg = asked[t].pwm /\ s[4].arg = asked[t].current
      /\ s[5].arg = asked[t].action
  <2>1. \A op, a : Do(op, a).op = op /\ Do(op, a).arg = a
    BY DEF Do
  <2>2. /\ s[1] = Do("init", Default) /\ s[2] = Do("reset", Default)
        /\ s[3] = Do("brightness", asked[t].pwm)
        /\ s[4] = Do("color", asked[t].current)
        /\ s[5] = Do("action", asked[t].action) /\ s[6] = Do("apply", Default)
    BY <1>1, LightScript
  <2> QED
    BY <2>1, <2>2
<1>7. call[t] = s[CallsMade(t)]
  BY <1>3
<1> DEFINE c == call[t]
<1> DEFINE n == CallsMade(t)
<1>8. /\ n = 1 => c.op = "init"
      /\ n = 2 => c.op = "reset"
      /\ n = 3 => c.op = "brightness" /\ c.arg = asked[t].pwm
      /\ n = 4 => c.op = "color" /\ c.arg = asked[t].current
      /\ n = 5 => c.op = "action" /\ c.arg = asked[t].action
      /\ n = 6 => c.op = "apply"
  BY <1>6, <1>7
<1>9. n = 1 \/ n = 2 \/ n = 3 \/ n = 4 \/ n = 5 \/ n = 6
  BY <1>4
<1> HIDE DEF s, c, n
<1>10. /\ n = 1 <=> c.op = "init"
       /\ n = 2 <=> c.op = "reset"
       /\ n = 3 <=> c.op = "brightness"
       /\ n = 4 <=> c.op = "color"
       /\ n = 5 <=> c.op = "action"
       /\ n = 6 <=> c.op = "apply"
  BY <1>8, <1>9
<1> QED
  BY <1>4, <1>5, <1>8, <1>10 DEF c, n

\* The work of a light that is alone goes on as it should, step by step.
LEMMA LightStep ==
  ASSUME ~IoMayFail, AllInv, OnScript, Shape, NEW t \in Procs,
         Working(t), asked[t] # Off, Alone(t), LightProgress(t), HalStep(t)
  PROVE  LightProgress(t)'
<1> DEFINE n == CallsMade(t)
<1>1. asked' = asked /\ CallsMade(t)' = n
  BY DEF HalStep, setOpVars, CallsMade
<1>2. pc[t] # "idle" /\ Step(t)
  BY StepIsInACall DEF HalStep
<1>3. /\ n \in 1..6 /\ call[t] \in Call
      /\ n = 1 <=> call[t].op = "init"
      /\ n = 2 <=> call[t].op = "reset"
      /\ n = 3 <=> call[t].op = "brightness"
      /\ n = 4 <=> call[t].op = "color"
      /\ n = 5 <=> call[t].op = "action"
      /\ n = 6 <=> call[t].op = "apply"
      /\ n = 3 => call[t].arg = asked[t].pwm
      /\ n = 4 => call[t].arg = asked[t].current
      /\ n = 5 => call[t].arg = asked[t].action
  BY <1>2, WhichCall
<1>4. file \in {Absent, Empty} \cup Config /\ TypeOK
  BY DEF AllInv, IInv, TypeOK
<1>5. Rewrites(call[t]) <=> n \in {1, 2}
  BY <1>3 DEF Rewrites
<1>6. n > 2 => file \in Config /\ file.state /\ file # Absent /\ file # Empty
  BY <1>3, ConfigAssumption DEF LightProgress, Past
<1> HIDE DEF n
<1>7. CASE Stat(t)
  <2>1. n = 1
    BY <1>3, <1>7 DEF Stat, Shape
  <2> QED
    BY <1>1, <2>1 DEF LightProgress, Past, n
<1>8. CASE Open(t)
  <2>1. CASE n \in {1, 2} /\ pc'[t] = "lock"
    BY <1>1, <2>1 DEF LightProgress, Past, n
  <2>2. CASE n = 1
    BY <1>1, <2>2 DEF LightProgress, Past, n
  <2>3. n > 1 => Opens(t)
    BY <1>3, <1>6 DEF Opens
  <2>4. pc'[t] = "lock" \/ n = 1
    BY <1>3, <1>4, <1>8, <2>3 DEF Open, Proceed, Goto, TypeOK
  <2>5. CASE n > 2
    <3>1. file' = file /\ pc'[t] = "lock" /\ pc[t] = "open"
      BY <1>5, <1>8, <2>3, <2>4, <2>5 DEF Open
    <3> QED
      BY <1>1, <1>3, <3>1, <2>5 DEF LightProgress, Past, n
  <2> QED
    BY <1>3, <2>1, <2>2, <2>4, <2>5
<1>9. CASE Lock(t)
  <2>1. lock = Nobody
    <3> SUFFICES ASSUME lock # Nobody PROVE FALSE
      OBVIOUS
    <3>1. lock \in Procs /\ pc[lock] \in Holding
      BY DEF AllInv, IInv, TypeOK, LockIsHeld
    <3>2. Working(lock) /\ lock # t
      BY <1>9, <3>1 DEF AllInv, MutexOK, Holding, Lock
    <3> QED
      BY <3>1, <3>2 DEF Alone
  <2>2. file' = file /\ pc'[t] \in {"read", "write"} /\ pc[t] = "lock"
    BY <1>4, <1>9, <2>1 DEF Lock, Locked, Proceed, Goto, TypeOK
  <2> QED
    BY <1>1, <2>2 DEF LightProgress, Past, n
<1>10. CASE Read(t)
  <2>1. n > 2 /\ pc[t] = "read"
    BY <1>3, <1>5, <1>10 DEF AllInv, IInv, Locals, Read
  <2>2. Contents(file) = {file} /\ ~RefusedWhen(call[t], file.state)
    BY <1>6, <2>1 DEF Contents, RefusedWhen
  <2>3. Took(t, file) /\ UNCHANGED <<file, chip>>
    BY <1>10, <2>2 DEF Read
  <2>4. /\ pc'[t] = IF n = 6 THEN "unlock" ELSE "write"
        /\ cfg'[t] = Updated(call[t], file) /\ ret'[t] = ret[t]
    BY <1>3, <1>4, <2>3 DEF Took, Goto, TypeOK
  <2>5. ret[t] = "NONE"
    BY <2>1 DEF Shape
  <2>6. n = 6 => cfg'[t] = file
    BY <1>3, <2>4 DEF Updated
  <2> QED
    BY <1>1, <1>3, <2>1, <2>3, <2>4, <2>5, <2>6 DEF LightProgress, Past, n
<1>11. CASE Write(t)
  <2>1. file' = cfg[t] /\ pc'[t] = "unlock" /\ pc[t] = "write"
    BY <1>4, <1>11 DEF Write, Proceed, Goto, TypeOK
  <2>2. n \in 1..5
    BY <1>3, <1>5, <2>1 DEF AllInv, IInv, CheckStillHolds, Setter
  <2>3. n \in {1, 2} => cfg[t] = DefaultConfig
    BY <1>5, <2>1 DEF AllInv, IInv, NothingStale
  <2>4. n \in 3..5 => cfg[t] = Updated(call[t], file)
    BY <1>5, <1>6, <2>1 DEF AllInv, IInv, NothingStale
  <2>5. cfg[t] \in Config
    BY <1>4 DEF TypeOK
  <2>6. CASE n \in {1, 2}
    BY <1>1, <2>1, <2>3, <2>5, <2>6 DEF LightProgress, Past, n, DefaultConfig
  <2>7. CASE n = 3
    <3>1. cfg[t] = [file EXCEPT !.pwm = asked[t].pwm]
      BY <1>3, <2>4, <2>7 DEF Updated
    <3>2. cfg[t].state /\ cfg[t].pwm = asked[t].pwm
      BY <1>6, <2>7, <3>1 DEF Config
    <3> QED
      BY <1>1, <2>1, <2>5, <2>7, <3>2 DEF LightProgress, Past, n
  <2>8. CASE n = 4
    <3>1. cfg[t] = [file EXCEPT !.current = asked[t].current]
      BY <1>3, <2>4, <2>8 DEF Updated
    <3>2. cfg[t].state /\ cfg[t].current = asked[t].current /\ cfg[t].pwm = file.pwm
      BY <1>6, <2>8, <3>1 DEF Config
    <3>3. file.pwm = asked[t].pwm
      BY <2>8 DEF LightProgress, Past, n
    <3> QED
      BY <1>1, <2>1, <2>5, <2>8, <3>2, <3>3 DEF LightProgress, Past, n
  <2>9. CASE n = 5
    <3>1. cfg[t] = [file EXCEPT !.action = asked[t].action]
      BY <1>3, <2>4, <2>9 DEF Updated
    <3>2. /\ cfg[t].state /\ cfg[t].action = asked[t].action
          /\ cfg[t].pwm = file.pwm /\ cfg[t].current = file.current
      BY <1>6, <2>9, <3>1 DEF Config
    <3>3. file.pwm = asked[t].pwm /\ file.current = asked[t].current
      BY <2>9 DEF LightProgress, Past, n
    <3> QED
      BY <1>1, <2>1, <2>5, <2>9, <3>2, <3>3 DEF LightProgress, Past, n
  <2> QED
    BY <2>2, <2>6, <2>7, <2>8, <2>9
<1>12. CASE Unlock(t)
  <2>1. file' = file /\ chip' = chip /\ pc[t] = "unlock"
    BY <1>12 DEF Unlock
  <2>2. CASE n = 6
    <3>1. ret[t] = "NONE" /\ cfg[t] = file
      BY <2>1, <2>2 DEF LightProgress, n
    <3>2. ~IsIR
      BY <1>4, SetOpAssumption DEF IsIR, TypeOK
    <3>3. pc'[t] = "currents" /\ cfg'[t] = cfg[t] /\ ret'[t] = ret[t]
      BY <1>3, <1>4, <1>12, <2>2, <3>1, <3>2 DEF Unlock, Proceed, Goto, TypeOK
    <3> QED
      BY <1>1, <2>1, <2>2, <3>1, <3>3 DEF LightProgress, Past, n
  <2>3. CASE n # 6
    <3>1. pc'[t] = "idle"
      BY <1>3, <1>4, <1>12, <2>3 DEF Unlock, Return, Goto, TypeOK
    <3> QED
      BY <1>1, <1>3, <2>1, <2>3, <3>1 DEF LightProgress, Past, n
  <2> QED
    BY <2>2, <2>3
<1>13. CASE Currents(t)
  <2>1. n = 6 /\ pc[t] = "currents"
    BY <1>3, <1>13 DEF Currents, Shape
  <2>2. /\ cfg[t] = file /\ ret[t] = "NONE"
        /\ file.current = asked[t].current
    BY <2>1 DEF LightProgress, Past, n
  <2>3. /\ chip' = [chip EXCEPT !.current = cfg[t].current]
        /\ pc'[t] = "program" /\ cfg' = cfg /\ ret' = ret /\ file' = file
    BY <1>4, <1>13 DEF Currents, Proceed, Goto, TypeOK
  <2>4. chip'.current = asked[t].current
    BY <1>4, <2>2, <2>3 DEF TypeOK, Look
  <2> QED
    BY <1>1, <2>1, <2>2, <2>3, <2>4 DEF LightProgress, Past, n
<1>14. CASE Program(t)
  <2>1. n = 6 /\ pc[t] = "program"
    BY <1>3, <1>14 DEF Program, Shape
  <2>2. /\ cfg[t] = file /\ chip.current = asked[t].current
        /\ file.pwm = asked[t].pwm /\ file.action = asked[t].action
    BY <2>1 DEF LightProgress, Past, n
  <2>3. /\ chip' = [chip EXCEPT !.pwm = cfg[t].pwm, !.action = cfg[t].action]
        /\ pc'[t] = "idle" /\ file' = file
    BY <1>4, <1>14 DEF Program, ShowPwm, Return, Goto, TypeOK
  <2>4. asked[t] \in [current : Values, pwm : Values, action : Values]
    BY ScriptCalls DEF AllInv, SetOpTypes, Working
  <2>5. chip' = asked[t]
    BY <1>4, <2>2, <2>3, <2>4 DEF TypeOK, Look
  <2> QED
    BY <1>1, <2>1, <2>3, <2>5 DEF LightProgress, Past, n
<1>15. ~Brightness(t)
  BY DEF Brightness, Shape
<1> QED
  BY <1>2, <1>7, <1>8, <1>9, <1>10, <1>11, <1>12, <1>13, <1>14, <1>15 DEF Step

\* A thread takes the next call from its script.
LEMMA NextCall ==
  ASSUME AllInv, OnScript, NEW t \in Procs, HalCall(t)
  PROVE  /\ CallsMade(t) \in Nat /\ CallsMade(t)' = CallsMade(t) + 1
         /\ Working(t) /\ pc[t] = "idle" /\ UNCHANGED <<file, chip, asked>>
         /\ pc'[t] = IF Head(todo[t]).op = "init" THEN "stat" ELSE "open"
         /\ Head(todo[t]) = Script(asked[t])[CallsMade(t)']
<1>1. /\ todo[t] \in Seq(Call) /\ todo[t] # <<>> /\ todo'[t] = Tail(todo[t])
      /\ Working(t) /\ pc[t] = "idle" /\ UNCHANGED <<file, chip, asked>>
  BY DEF HalCall, Begin, AllInv, SetOpTypes
<1>2. Head(todo[t]) \in Call /\ ~NotSupported(Head(todo[t]))
  BY <1>1, SetOpAssumption DEF AllInv, IInv, TypeOK, NotSupported, IsIR
<1>3. pc'[t] = IF Head(todo[t]).op = "init" THEN "stat" ELSE "open"
  BY <1>2 DEF HalCall, Begin, Goto, AllInv, IInv, TypeOK
<1>4. Script(asked[t]) \in Seq(Call)
  BY <1>1, ScriptCalls DEF AllInv, SetOpTypes, Working
<1>5. Len(todo'[t]) = Len(todo[t]) - 1 /\ Len(todo[t]) > 0 /\ Head(todo[t]) = todo[t][1]
  BY <1>1, TailFacts
<1>6. /\ Len(todo[t]) \in 0..Len(Script(asked[t]))
      /\ Len(Script(asked[t])) \in Nat /\ Len(todo[t]) \in Nat
  BY <1>1, <1>4 DEF OnScript
<1>7. CallsMade(t)' = Len(Script(asked[t])) - Len(todo'[t])
  BY <1>1 DEF CallsMade
<1>8. CallsMade(t) = Len(Script(asked[t])) - Len(todo[t])
  BY DEF CallsMade
<1>9. CallsMade(t) \in Nat /\ CallsMade(t)' = CallsMade(t) + 1
  BY <1>5, <1>6, <1>7, <1>8
<1>10. todo[t][1] = Script(asked[t])[CallsMade(t) + 1]
  BY <1>1, <1>5, <1>6 DEF OnScript
<1> QED
  BY <1>1, <1>3, <1>5, <1>9, <1>10

\* The next call of a light finds what the calls before it have achieved.
LEMMA LightCall ==
  ASSUME AllInv, OnScript, NEW t \in Procs, HalCall(t), LightProgress(t)
  PROVE  LightProgress(t)'
<1>1. /\ CallsMade(t) \in Nat /\ CallsMade(t)' = CallsMade(t) + 1
      /\ pc[t] = "idle" /\ UNCHANGED <<file, chip, asked>>
      /\ pc'[t] \in {"stat", "open"}
  BY NextCall
<1> QED
  BY <1>1 DEF LightProgress, Past

\* Who is alone stays so until somebody else's request, which ends its claim.
LEMMA SoloKept ==
  ASSUME ~IoMayFail
  PROVE  AllInv /\ OnScript /\ Shape /\ SoloInv /\ [NextAll]_allVars => SoloInv'
<1> SUFFICES ASSUME AllInv, OnScript, Shape, SoloInv, [NextAll]_allVars,
                    NEW t \in Procs, Working(t)', solo'[t]
             PROVE  Alone(t)' /\ (asked'[t] # Off => LightProgress(t)')
  BY DEF SoloInv
<1>1. ASSUME NEW u \in Procs \ {t},
             \/ \E r \in Requests : SetOp(u, r)
             \/ HalCall(u) \/ HalStep(u) \/ Finish(u) \/ Die(u)
      PROVE  FALSE
  <2>1. Working(t)
    BY <1>1, OthersKeptAll DEF Working
  <2>2. ASSUME NEW r \in Requests, SetOp(u, r) PROVE FALSE
    BY <2>1, <2>2 DEF SetOp, Accept
  <2>3. CASE HalCall(u) \/ HalStep(u) \/ Finish(u) \/ Die(u)
    <3>1. Working(u)
      BY <2>3, StepIsInACall DEF HalCall, HalStep, Finish, Die, AllInv, MutexOK
    <3>2. solo[t]
      BY <2>3 DEF HalCall, HalStep, Finish, Die, setOpVars, AllInv, SetOpTypes
    <3> QED
      BY <2>1, <3>1, <3>2 DEF SoloInv, Alone
  <2> QED
    BY <1>1, <2>2, <2>3
<1>2. ASSUME NEW r \in Requests, SetOp(t, r)
      PROVE  Alone(t)' /\ LightProgress(t)'
  <2>1. \A u \in Procs \ {t} : ~Working(u)
    BY <1>2 DEF SetOp, Accept
  <2>2. Alone(t)'
    BY <1>2, <2>1 DEF SetOp, Accept, Alone, Working, AllInv, SetOpTypes
  <2>3. todo'[t] = Script(r) /\ asked'[t] = r
    BY <1>2 DEF SetOp, Accept, AllInv, SetOpTypes
  <2>4. Len(Script(r)) \in Nat
    BY ScriptCalls
  <2>5. CallsMade(t)' = 0
    BY <2>3, <2>4 DEF CallsMade
  <2> QED
    BY <2>2, <2>5 DEF LightProgress, Past
<1>3. ASSUME Working(t), solo[t], asked' = asked PROVE Alone(t)'
  BY <1>3 DEF SoloInv, Alone, Working
<1>4. CASE HalCall(t)
  <2>1. Working(t) /\ solo[t] /\ asked' = asked /\ Alone(t)'
    BY <1>3, <1>4 DEF HalCall
  <2>2. ASSUME asked[t] # Off PROVE LightProgress(t)'
    BY <1>4, <2>1, <2>2, LightCall DEF SoloInv
  <2> QED
    BY <2>1, <2>2
<1>5. CASE HalStep(t)
  <2>1. Working(t) /\ solo[t] /\ asked' = asked /\ Alone(t) /\ Alone(t)'
    BY <1>3, <1>5 DEF HalStep, setOpVars, Working, SoloInv
  <2> QED
    BY <1>5, <2>1, LightStep DEF SoloInv
<1>6. CASE Finish(t) \/ Die(t)
  BY <1>6 DEF Finish, Die, Working, AllInv, SetOpTypes
<1>7. CASE UNCHANGED allVars
  <2>1. Working(t) /\ solo[t] /\ asked' = asked /\ Alone(t)'
    BY <1>3, <1>7 DEF allVars, setOpVars, Working
  <2>2. LightProgress(t) => LightProgress(t)'
    BY <1>7 DEF allVars, setOpVars, vars, procVars, LightProgress, Past, CallsMade
  <2> QED
    BY <2>1, <2>2 DEF SoloInv
<1> QED
  BY <1>1, <1>2, <1>4, <1>5, <1>6, <1>7 DEF NextAll

\* A light that had the HAL for itself has taken effect on the file and on the
\* LED when ledmgr_setOp returns, for any number of threads and processes that
\* may die at any point, and whatever they have left in the file.
THEOREM SoloSucceeds ==
  ASSUME ~IoMayFail PROVE SetOpSpec => []SoloTakesEffect
<1> DEFINE J == OnScript /\ Shape /\ SoloInv
<1>1. InitAll => J
  <2> SUFFICES ASSUME InitAll PROVE J
    OBVIOUS
  <2>1. \A t \in Procs : ~Working(t) /\ pc[t] = "idle"
    BY DEF InitAll, Init, Working
  <2> QED
    BY <2>1 DEF OnScript, Shape, SoloInv
<1>2. AllInv /\ J /\ [NextAll]_allVars => J'
  BY OnScriptKept, ShapeKept, SoloKept, SetOpUsesHal DEF AllInv, IInv
<1>3. AllInv /\ J => SoloTakesEffect
  <2> SUFFICES ASSUME AllInv, J, NEW t \in Procs, Working(t), todo[t] = <<>>,
                      pc[t] = "idle", solo[t], asked[t] # Off
               PROVE  /\ chip = asked[t]
                      /\ file \in Config /\ file.state /\ LookOf(file) = asked[t]
    BY DEF SoloTakesEffect
  <2>1. asked[t] \in Requests \ {Off}
    BY DEF AllInv, SetOpTypes, Working
  <2>2. CallsMade(t) = 6
    BY <2>1, LightScript DEF CallsMade
  <2>3. LightProgress(t)
    BY DEF SoloInv
  <2>4. /\ chip = asked[t] /\ file \in Config /\ file.state
        /\ file.pwm = asked[t].pwm /\ file.current = asked[t].current
        /\ file.action = asked[t].action
    BY <2>2, <2>3 DEF LightProgress, Past
  <2>5. asked[t] \in [current : Values, pwm : Values, action : Values]
    BY <2>1, ScriptCalls
  <2> QED
    BY <2>4, <2>5 DEF LookOf
<1> HIDE DEF J
<1> QED
  BY <1>1, <1>2, <1>3, SetOpInvariance, PTL DEF SetOpSpec
-----------------------------------------------------------------------------
(* Why a process does not stay BUSY, as NeverBusyForEver says: a request   *)
(* is a script of at most six calls, and each of them is short.            *)

\* A bound on the steps t has still to make under its request: eleven for every
\* call of the script, what is left of the one under way, and the return.
CallsLeft(t)    == Len(todo[t])
OneIfWorking(t) == IF Working(t) THEN 1 ELSE 0
ToGo(t)         == 11 * CallsLeft(t) + Left(t) + OneIfWorking(t)

\* A request starts with a bounded rest. A step of its thread shortens that; the
\* other threads, and the other processes at the lock or the file, never
\* lengthen it.
RequestShortens ==
  \A t \in Procs :
    /\ ~Working(t) /\ Working(t)' => ToGo(t)' <= 67
    /\ Working(t) => /\ ToGo(t) \in Nat \ {0} /\ ToGo(t)' <= ToGo(t)
                     /\ HalCall(t) \/ HalStep(t) \/ Finish(t) => ToGo(t)' < ToGo(t)

\* The three parts of ToGo.
LEMMA ToGoParts ==
  SetOpTypes /\ TypeOK =>
    \A t \in Procs : /\ CallsLeft(t) \in Nat /\ Left(t) \in 0..10
                     /\ pc[t] = "idle" => Left(t) = 0
<1> SUFFICES ASSUME SetOpTypes, TypeOK, NEW t \in Procs
             PROVE  /\ CallsLeft(t) \in Nat /\ Left(t) \in 0..10
                    /\ pc[t] = "idle" => Left(t) = 0
  BY Zenon
<1>1. todo[t] \in Seq(Call)
  BY DEF SetOpTypes
<1>2. pc[t] \in Label /\ tries[t] \in 1..3
  BY DEF TypeOK, MaxTries
<1> QED
  BY <1>1, <1>2 DEF Left, Label, CallsLeft

\* The same after a step; a thread at work has one step more.
LEMMA ToGoRange ==
  ASSUME AllInv, AllInv', NEW t \in Procs
  PROVE  /\ CallsLeft(t) \in Nat /\ Left(t) \in 0..10
         /\ CallsLeft(t)' \in Nat /\ Left(t)' \in 0..10
         /\ pc[t] = "idle" => Left(t) = 0
         /\ pc'[t] = "idle" => Left(t)' = 0
         /\ OneIfWorking(t) = IF Working(t) THEN 1 ELSE 0
         /\ OneIfWorking(t)' = IF Working(t)' THEN 1 ELSE 0
<1>1. /\ CallsLeft(t) \in Nat /\ Left(t) \in 0..10
      /\ pc[t] = "idle" => Left(t) = 0
  BY ToGoParts DEF AllInv, IInv
<1>2. CallsLeft(t)' \in Nat
  BY DEF AllInv, SetOpTypes, CallsLeft
<1>3. Left(t)' \in 0..10 /\ (pc'[t] = "idle" => Left(t)' = 0)
  <2>1. pc'[t] \in Label /\ tries'[t] \in 1..3
    BY DEF AllInv, IInv, TypeOK, MaxTries
  <2> QED
    BY <2>1 DEF Left, Label
<1> QED
  BY <1>1, <1>2, <1>3, Zenon DEF OneIfWorking

\* Each step a request makes shortens it.
LEMMA OwnToGo ==
  ASSUME AllInv, AllInv', NEW t \in Procs, Working(t),
         HalCall(t) \/ HalStep(t) \/ Finish(t)
  PROVE  ToGo(t)' < ToGo(t)
<1>1. /\ CallsLeft(t) \in Nat /\ Left(t) \in 0..10
      /\ CallsLeft(t)' \in Nat /\ Left(t)' \in 0..10
      /\ pc[t] = "idle" => Left(t) = 0
      /\ pc'[t] = "idle" => Left(t)' = 0
  BY ToGoRange
<1>2. OneIfWorking(t) = 1
  BY DEF OneIfWorking
<1>3. CASE HalCall(t)
  <2>1. pc[t] = "idle" /\ OneIfWorking(t)' = 1
    BY <1>3 DEF HalCall, Begin, Working, OneIfWorking
  <2>2. CallsLeft(t)' = CallsLeft(t) - 1
    <3>1. todo[t] \in Seq(Call) /\ todo[t] # <<>>
      BY <1>3 DEF HalCall, AllInv, SetOpTypes
    <3>2. todo'[t] = Tail(todo[t])
      BY <1>3 DEF HalCall, AllInv, SetOpTypes
    <3> QED
      BY <3>1, <3>2 DEF CallsLeft
  <2> QED
    BY <1>1, <1>2, <2>1, <2>2 DEF ToGo
<1>4. CASE HalStep(t)
  <2>1. Left(t)' < Left(t)
    BY <1>4, OwnStep DEF HalStep, AllInv, IInv
  <2>2. CallsLeft(t)' = CallsLeft(t) /\ OneIfWorking(t)' = 1
    BY <1>2, <1>4 DEF HalStep, setOpVars, Working, CallsLeft, OneIfWorking
  <2> QED
    BY <1>1, <1>2, <2>1, <2>2 DEF ToGo
<1>5. CASE Finish(t)
  <2>1. pc'[t] = "idle" /\ pc[t] = "idle" /\ ~Working(t)'
    BY <1>5 DEF Finish, vars, procVars, Working, AllInv, SetOpTypes
  <2>2. CallsLeft(t)' = CallsLeft(t) /\ OneIfWorking(t)' = 0
    BY <1>5, <2>1 DEF Finish, CallsLeft, OneIfWorking
  <2> QED
    BY <1>1, <1>2, <2>1, <2>2 DEF ToGo
<1> QED
  BY <1>3, <1>4, <1>5

\* No other thread's step touches it.
LEMMA OthersToGo ==
  ASSUME AllInv, NEW t \in Procs, NEW u \in Procs \ {t},
         \/ \E r \in Requests : SetOp(u, r)
         \/ HalCall(u) \/ HalStep(u) \/ Finish(u) \/ Die(u)
  PROVE  ToGo(t)' = ToGo(t) /\ (Working(t)' <=> Working(t))
<1>1. asked'[t] = asked[t] /\ todo'[t] = todo[t]
  BY OthersKeptAll
<1>2. pc'[t] = pc[t] /\ tries'[t] = tries[t]
  <2>1. CASE (\E r \in Requests : SetOp(u, r)) \/ Finish(u)
    BY <2>1 DEF SetOp, Accept, Finish, vars, procVars
  <2>2. CASE HalStep(u)
    BY <2>2, PlaceKept DEF HalStep, AllInv, IInv
  <2>3. CASE HalCall(u)
    <3>1. todo[u] \in Seq(Call) /\ todo[u] # <<>>
      BY <2>3 DEF HalCall, AllInv, SetOpTypes
    <3>2. Head(todo[u]) \in Calls[led]
      BY <3>1, SetOpAssumption DEF AllInv, IInv, TypeOK
    <3> QED
      BY <2>3, <3>2, PlaceKept DEF HalCall, AllInv, IInv
  <2>4. CASE Die(u)
    <3>1. CASE Crash(u)
      BY <3>1, PlaceKept DEF AllInv, IInv
    <3>2. CASE UNCHANGED vars
      BY <3>2 DEF vars, procVars
    <3> QED
      BY <2>4, <3>1, <3>2 DEF Die
  <2> QED
    BY <2>1, <2>2, <2>3, <2>4
<1>3. Left(t)' = Left(t)
  BY <1>2 DEF Left
<1>4. CallsLeft(t)' = CallsLeft(t) /\ OneIfWorking(t)' = OneIfWorking(t)
  BY <1>1 DEF CallsLeft, OneIfWorking, Working
<1> QED
  BY <1>1, <1>3, <1>4 DEF ToGo, Working

\* Every step of a process keeps to that.
LEMMA RequestStep == AllInv /\ AllInv' /\ [NextAll]_allVars => [RequestShortens]_allVars
<1> SUFFICES ASSUME AllInv, AllInv', NextAll, NEW t \in Procs
             PROVE  /\ ~Working(t) /\ Working(t)' => ToGo(t)' <= 67
                    /\ Working(t) =>
                         /\ ToGo(t) \in Nat \ {0} /\ ToGo(t)' <= ToGo(t)
                         /\ HalCall(t) \/ HalStep(t) \/ Finish(t) => ToGo(t)' < ToGo(t)
  BY DEF RequestShortens
<1> DEFINE Own == HalCall(t) \/ HalStep(t) \/ Finish(t)
<1>1. /\ CallsLeft(t) \in Nat /\ Left(t) \in 0..10
      /\ CallsLeft(t)' \in Nat /\ Left(t)' \in 0..10
      /\ OneIfWorking(t) \in 0..1 /\ OneIfWorking(t)' \in 0..1
      /\ Working(t) => OneIfWorking(t) = 1
  <2>1. OneIfWorking(t) \in 0..1 /\ OneIfWorking(t)' \in 0..1
    BY DEF OneIfWorking
  <2>2. Working(t) => OneIfWorking(t) = 1
    BY DEF OneIfWorking
  <2> QED
    BY <2>1, <2>2, ToGoRange
<1>2. ToGo(t) \in Nat /\ (Working(t) => ToGo(t) \in Nat \ {0})
  BY <1>1 DEF ToGo
<1>3. ToGo(t)' \in Nat
  BY <1>1 DEF ToGo
<1>4. CASE Own /\ Working(t)
  <2>1. ToGo(t)' < ToGo(t)
    BY <1>4, OwnToGo
  <2> QED
    BY <1>2, <1>3, <1>4, <2>1
<1>5. ASSUME NEW r \in Requests, SetOp(t, r)
      PROVE  ~Working(t) /\ ToGo(t)' <= 67
  <2>1. ~Working(t)
    BY <1>5 DEF SetOp
  <2>2. pc'[t] = "idle"
    BY <1>5, <2>1 DEF SetOp, Accept, vars, procVars, AllInv, MutexOK
  <2>3. todo'[t] = Script(r)
    BY <1>5 DEF SetOp, Accept, AllInv, SetOpTypes
  <2>4. Len(Script(r)) \in 0..6
    BY DEF Script
  <2>5. CallsLeft(t)' \in 0..6 /\ Left(t)' = 0
    BY <2>2, <2>3, <2>4, ToGoRange DEF CallsLeft
  <2>6. ToGo(t)' <= 67
    <3>1. ToGo(t)' = 11 * CallsLeft(t)' + 0 + OneIfWorking(t)'
      BY <2>5 DEF ToGo
    <3>2. CallsLeft(t)' \in 0..6 /\ OneIfWorking(t)' \in 0..1
      BY <1>1, <2>5
    <3> QED
      BY <3>1, <3>2
  <2> QED
    BY <2>1, <2>6
<1>6. CASE Die(t)
  <2>1. Working(t) /\ ~Working(t)' /\ todo'[t] = <<>>
    BY <1>6 DEF Die, Working, AllInv, SetOpTypes
  <2>2. pc'[t] = "idle"
    BY <1>6 DEF Die, Crash, Return, Goto, vars, procVars, AllInv, IInv, TypeOK
  <2>3. CallsLeft(t)' = 0 /\ OneIfWorking(t)' = 0 /\ Left(t)' = 0
    BY <2>1, <2>2, ToGoRange DEF CallsLeft, OneIfWorking
  <2>4. ToGo(t)' = 0
    BY <2>3 DEF ToGo
  <2> QED
    BY <1>2, <2>1, <2>4
<1>7. ASSUME NEW u \in Procs \ {t},
             \/ \E r \in Requests : SetOp(u, r)
             \/ HalCall(u) \/ HalStep(u) \/ Finish(u) \/ Die(u)
      PROVE  ToGo(t)' = ToGo(t) /\ (Working(t)' <=> Working(t))
  BY <1>7, OthersToGo
<1>8. CASE \E u \in Procs \ {t} : \/ \E r \in Requests : SetOp(u, r)
                                  \/ HalCall(u) \/ HalStep(u) \/ Finish(u) \/ Die(u)
  <2>1. ToGo(t)' = ToGo(t) /\ (Working(t)' <=> Working(t))
    BY <1>7, <1>8
  <2>2. CASE ~(Own /\ Working(t))
    BY <1>2, <2>1, <2>2
  <2> QED
    BY <1>4, <2>2
<1>9. CASE ~Working(t) /\ Own
  <2>1. ~HalCall(t) /\ ~Finish(t)
    BY <1>9 DEF HalCall, Finish
  <2>2. ~HalStep(t)
    BY <1>9, StepIsInACall DEF HalStep, AllInv, MutexOK
  <2> QED
    BY <1>9, <2>1, <2>2
<1>10. CASE \E r \in Requests : SetOp(t, r)
  BY <1>5, <1>10
<1> QED
  BY <1>4, <1>6, <1>8, <1>9, <1>10, Zenon DEF NextAll

\* The last step: whatever the other processes do, and wherever one has stopped,
\* a request that is carried on gives the mutex back within 67 steps.
THEOREM RequestsShorten == SetOpSpec => [][RequestShortens]_allVars
BY RequestStep, SetOpInvariance, PTL DEF SetOpSpec
=============================================================================
