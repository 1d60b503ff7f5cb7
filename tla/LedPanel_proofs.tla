---------------------------- MODULE LedPanel_proofs ----------------------------
(***************************************************************************)
(* ledmgr_setOp carries out requests one at a time and wholly, as LedPanel *)
(* promises to the threads of one process - any number of them, where      *)
(* nobody dies, no read or write fails and the file at boot is absent or a *)
(* default one. The front panel is an LP5562, and may show anything at     *)
(* boot.                                                                   *)
(***************************************************************************)
EXTENDS LedSetOp_proofs

\* Where the promise holds.
TroubleFree ==
  /\ \A t, u \in Procs : ProcessOf[t] = ProcessOf[u]
  /\ Crashers = {} /\ ~IoMayFail
  /\ Start \subseteq {Absent, DefaultConfig}

\* The file, and with it the next led_applySettings, agrees with the LED, or is
\* as led_init makes it.
Agrees == file.current \in {chip.current, Default} /\ file.pwm \in {chip.pwm, Default}

\* Between two requests: the file is still to come, or it agrees with the LED.
Rest == file = Absent \/ (file \in Config /\ file.state /\ Agrees)

\* What the calls of NO_LIGHT have achieved so far: led_init has made the file
\* where there was none; the colour and the brightness stay what they are.
OffProgress(t) ==
  /\ CallsMade(t) = 0 => Rest
  /\ CallsMade(t) = 1 =>
       /\ pc[t] = "stat" => Rest
       /\ pc[t] = "open" => file = Absent
  /\ Past(t, 1) => file \in Config /\ file.state /\ Agrees
  /\ Past(t, 2) => file.action = OffAction
  /\ CallsMade(t) = 3 =>
       /\ pc[t] \in {"unlock", "currents", "program"} => cfg[t] = file /\ ret[t] = "NONE"
       /\ pc[t] = "idle" => chip.action = OffAction

\* The file and the LED at any moment, by what is being carried out.
PanelInv ==
  /\ (\A t \in Procs : ~Working(t)) => Rest
  /\ \A t \in Procs : Working(t) => IF asked[t] = Off THEN OffProgress(t)
                                                      ELSE LightProgress(t)

\* One thread of the process works at a time.
LEMMA OneAtATime ==
  ASSUME TroubleFree, AllInv, NEW t \in Procs, Working(t) PROVE Alone(t)
BY DEF TroubleFree, AllInv, MutexOK, Alone

\* Which call of NO_LIGHT is under way says where it stands in its script.
LEMMA WhichOffCall ==
  ASSUME AllInv, OnScript, NEW t \in Procs, asked[t] = Off, pc[t] # "idle"
  PROVE  /\ CallsMade(t) \in 1..3 /\ call[t] \in Call
         /\ CallsMade(t) = 1 <=> call[t].op = "init"
         /\ CallsMade(t) = 2 <=> call[t].op = "action"
         /\ CallsMade(t) = 3 <=> call[t].op = "apply"
         /\ CallsMade(t) = 2 => call[t].arg = OffAction
<1> DEFINE s == Script(asked[t])
<1>1. Working(t)
  BY DEF AllInv, MutexOK
<1>2. /\ Len(s) = 3 /\ s[1] = Do("init", Default) /\ s[2] = Do("action", OffAction)
      /\ s[3] = Do("apply", Default)
  BY DEF Script
<1>3. \A op, a : Do(op, a).op = op /\ Do(op, a).arg = a
  BY DEF Do
<1>4. /\ s[1].op = "init" /\ s[2].op = "action" /\ s[3].op = "apply"
      /\ s[2].arg = OffAction
  BY <1>2, <1>3
<1>5. Len(todo[t]) \in 0..3 /\ CallsMade(t) > 0 /\ call[t] = s[CallsMade(t)]
  BY <1>1, <1>2 DEF OnScript
<1>6. CallsMade(t) \in 1..3
  BY <1>2, <1>5 DEF CallsMade
<1>7. call[t] \in Call
  BY DEF AllInv, IInv, TypeOK
<1> DEFINE c == call[t]
<1> DEFINE n == CallsMade(t)
<1>8. /\ n = 1 => c.op = "init"
      /\ n = 2 => c.op = "action" /\ c.arg = OffAction
      /\ n = 3 => c.op = "apply"
  BY <1>4, <1>5
<1>9. n = 1 \/ n = 2 \/ n = 3
  BY <1>6
<1> HIDE DEF s, c, n
<1>10. /\ n = 1 <=> c.op = "init"
       /\ n = 2 <=> c.op = "action"
       /\ n = 3 <=> c.op = "apply"
  BY <1>8, <1>9
<1> QED
  BY <1>6, <1>7, <1>8, <1>10 DEF c, n

\* The next call of NO_LIGHT finds what the calls before it have achieved.
LEMMA OffCall ==
  ASSUME AllInv, OnScript, NEW t \in Procs, HalCall(t), asked[t] = Off, OffProgress(t)
  PROVE  OffProgress(t)'
<1>1. /\ CallsMade(t) \in Nat /\ CallsMade(t)' = CallsMade(t) + 1
      /\ pc[t] = "idle" /\ UNCHANGED <<file, chip, asked>>
      /\ pc'[t] = IF Head(todo[t]).op = "init" THEN "stat" ELSE "open"
      /\ Head(todo[t]) = Script(asked[t])[CallsMade(t)']
  BY NextCall
<1>2. CallsMade(t) = 0 => pc'[t] = "stat"
  <2>1. Script(asked[t])[1] = Do("init", Default)
    BY DEF Script
  <2>2. Do("init", Default).op = "init"
    BY DEF Do
  <2> QED
    BY <1>1, <2>1, <2>2
<1>3. pc'[t] \in {"stat", "open"}
  BY <1>1
<1> QED
  BY <1>1, <1>2, <1>3 DEF OffProgress, Past, Rest, Agrees

\* The work of NO_LIGHT goes on as it should, step by step.
LEMMA OffStep ==
  ASSUME ~IoMayFail, AllInv, OnScript, Shape, NEW t \in Procs,
         Working(t), asked[t] = Off, Alone(t), OffProgress(t), HalStep(t)
  PROVE  OffProgress(t)'
<1> DEFINE n == CallsMade(t)
<1>1. asked' = asked /\ CallsMade(t)' = n
  BY DEF HalStep, setOpVars, CallsMade
<1>2. pc[t] # "idle" /\ Step(t)
  BY StepIsInACall DEF HalStep
<1>3. /\ n \in 1..3 /\ call[t] \in Call
      /\ n = 1 <=> call[t].op = "init"
      /\ n = 2 <=> call[t].op = "action"
      /\ n = 3 <=> call[t].op = "apply"
      /\ n = 2 => call[t].arg = OffAction
  BY <1>2, WhichOffCall
<1>4. file \in {Absent, Empty} \cup Config /\ TypeOK /\ led = "LP5562"
  BY SetOpAssumption DEF AllInv, IInv, TypeOK
<1>5. Rewrites(call[t]) <=> n = 1
  BY <1>3 DEF Rewrites
<1>6. n > 1 => /\ file \in Config /\ file.state /\ Agrees
               /\ file # Absent /\ file # Empty
  BY <1>3, ConfigAssumption DEF OffProgress, Past
<1> HIDE DEF n
<1>7. CASE Stat(t)
  <2>1. n = 1 /\ pc[t] = "stat" /\ UNCHANGED <<file, chip>>
    BY <1>3, <1>7 DEF Stat, Shape
  <2>2. Rest
    BY <2>1 DEF OffProgress, n
  <2>3. CASE file \in Config
    <3>1. pc'[t] = "idle"
      BY <1>4, <1>7, <2>3 DEF Stat, Return, Goto, TypeOK
    <3>2. file # Absent
      BY <2>3, ConfigAssumption
    <3> QED
      BY <1>1, <2>1, <2>2, <2>3, <3>1, <3>2 DEF OffProgress, Past, Rest, Agrees, n
  <2>4. CASE file \notin Config
    <3>1. pc'[t] = "open"
      BY <1>4, <1>7, <2>4 DEF Stat, Proceed, Goto, TypeOK
    <3> QED
      BY <1>1, <2>1, <2>2, <2>4, <3>1 DEF OffProgress, Past, Rest, n
  <2> QED
    BY <2>3, <2>4
<1>8. CASE Open(t)
  <2>1. n = 1 => file = Absent
    BY <1>8 DEF Open, OffProgress, n
  <2>2. Opens(t)
    BY <1>3, <1>6, <2>1 DEF Opens
  <2>3. pc'[t] = "lock" /\ pc[t] = "open" /\ chip' = chip /\ (n > 1 => file' = file)
    BY <1>4, <1>5, <1>8, <2>2 DEF Open, Proceed, Goto, TypeOK
  <2> QED
    BY <1>1, <1>3, <2>1, <2>3 DEF OffProgress, Past, Agrees, n
<1>9. CASE Lock(t)
  <2>1. lock = Nobody
    <3> SUFFICES ASSUME lock # Nobody PROVE FALSE
      OBVIOUS
    <3>1. lock \in Procs /\ pc[lock] \in Holding
      BY DEF AllInv, IInv, TypeOK, LockIsHeld
    <3>2. Working(lock) /\ lock # t
      BY <1>9, <3>1 DEF AllInv, MutexOK, Holding, Lock
    <3> QED
      BY <3>1, <3>2 DEF Alone
  <2>2. UNCHANGED <<file, chip>> /\ pc'[t] \in {"read", "write"} /\ pc[t] = "lock"
    BY <1>4, <1>9, <2>1 DEF Lock, Locked, Proceed, Goto, TypeOK
  <2> QED
    BY <1>1, <1>3, <2>2 DEF OffProgress, Past, Agrees, n
<1>10. CASE Read(t)
  <2>1. n > 1 /\ pc[t] = "read"
    BY <1>3, <1>5, <1>10 DEF AllInv, IInv, Locals, Read
  <2>2. Contents(file) = {file} /\ ~RefusedWhen(call[t], file.state)
    BY <1>6, <2>1 DEF Contents, RefusedWhen
  <2>3. Took(t, file) /\ UNCHANGED <<file, chip>>
    BY <1>10, <2>2 DEF Read
  <2>4. /\ pc'[t] = IF n = 3 THEN "unlock" ELSE "write"
        /\ cfg'[t] = Updated(call[t], file) /\ ret'[t] = ret[t]
    BY <1>3, <1>4, <2>3 DEF Took, Goto, TypeOK
  <2>5. ret[t] = "NONE"
    BY <2>1 DEF Shape
  <2>6. n = 3 => cfg'[t] = file
    BY <1>3, <2>4 DEF Updated
  <2> QED
    BY <1>1, <1>3, <2>1, <2>3, <2>4, <2>5, <2>6 DEF OffProgress, Past, Agrees, n
<1>11. CASE Write(t)
  <2>1. file' = cfg[t] /\ pc'[t] = "unlock" /\ pc[t] = "write" /\ chip' = chip
    BY <1>4, <1>11 DEF Write, Proceed, Goto, TypeOK
  <2>2. n \in 1..2
    BY <1>3, <1>5, <2>1 DEF AllInv, IInv, CheckStillHolds, Setter
  <2>3. CASE n = 1
    <3>1. cfg[t] = DefaultConfig
      BY <1>5, <2>1, <2>3 DEF AllInv, IInv, NothingStale
    <3>2. /\ file' \in Config /\ file'.state /\ file'.current = Default
          /\ file'.pwm = Default
      BY <2>1, <3>1, ConfigFacts DEF DefaultConfig
    <3> QED
      BY <1>1, <2>1, <2>3, <3>2 DEF OffProgress, Past, Agrees, n
  <2>4. CASE n = 2
    <3>1. cfg[t] = Updated(call[t], file)
      BY <1>5, <1>6, <2>1, <2>4 DEF AllInv, IInv, NothingStale
    <3>2. cfg[t] = [file EXCEPT !.action = OffAction]
      BY <1>3, <2>4, <3>1 DEF Updated
    <3>3. /\ cfg[t].state /\ cfg[t].action = OffAction
          /\ cfg[t].pwm = file.pwm /\ cfg[t].current = file.current
      BY <1>6, <2>4, <3>2 DEF Config
    <3>4. cfg[t] \in Config
      BY <1>4 DEF TypeOK
    <3> QED
      BY <1>1, <1>6, <2>1, <2>4, <3>3, <3>4 DEF OffProgress, Past, Agrees, n
  <2> QED
    BY <2>2, <2>3, <2>4
<1>12. CASE Unlock(t)
  <2>1. file' = file /\ chip' = chip /\ pc[t] = "unlock"
    BY <1>12 DEF Unlock
  <2>2. CASE n = 3
    <3>1. ret[t] = "NONE" /\ cfg[t] = file
      BY <2>1, <2>2 DEF OffProgress, n
    <3>2. pc'[t] = "currents" /\ cfg'[t] = cfg[t] /\ ret'[t] = ret[t]
      BY <1>3, <1>4, <1>12, <2>2, <3>1 DEF Unlock, Proceed, Goto, TypeOK, IsIR
    <3> QED
      BY <1>1, <2>1, <2>2, <3>1, <3>2 DEF OffProgress, Past, Agrees, n
  <2>3. CASE n # 3
    <3>1. pc'[t] = "idle"
      BY <1>3, <1>4, <1>12, <2>3 DEF Unlock, Return, Goto, TypeOK
    <3> QED
      BY <1>1, <1>3, <2>1, <2>3, <3>1 DEF OffProgress, Past, Agrees, n
  <2> QED
    BY <2>2, <2>3
<1>13. CASE Currents(t)
  <2>1. n = 3 /\ pc[t] = "currents"
    BY <1>3, <1>13 DEF Currents, Shape
  <2>2. cfg[t] = file /\ ret[t] = "NONE"
    BY <2>1 DEF OffProgress, n
  <2>3. /\ chip' = [chip EXCEPT !.current = cfg[t].current]
        /\ pc'[t] = "program" /\ cfg' = cfg /\ ret' = ret /\ file' = file
    BY <1>4, <1>13 DEF Currents, Proceed, Goto, TypeOK
  <2>4. chip'.current = file.current /\ chip'.pwm = chip.pwm
    BY <1>4, <1>6, <2>1, <2>2, <2>3 DEF TypeOK, Look, Agrees
  <2> QED
    BY <1>1, <2>1, <2>2, <2>3, <2>4 DEF OffProgress, Past, Agrees, n
<1>14. CASE Program(t)
  <2>1. n = 3 /\ pc[t] = "program"
    BY <1>3, <1>14 DEF Program, Shape
  <2>2. cfg[t] = file /\ file.action = OffAction
    BY <2>1 DEF OffProgress, Past, n
  <2>3. /\ chip' = [chip EXCEPT !.pwm = cfg[t].pwm, !.action = cfg[t].action]
        /\ pc'[t] = "idle" /\ file' = file
    BY <1>4, <1>14 DEF Program, ShowPwm, Return, Goto, TypeOK
  <2>4. /\ chip'.current = chip.current /\ chip'.pwm = file.pwm
        /\ chip'.action = OffAction
    BY <1>4, <1>6, <2>1, <2>2, <2>3 DEF TypeOK, Look, Agrees
  <2> QED
    BY <1>1, <2>1, <2>3, <2>4 DEF OffProgress, Past, Agrees, n
<1>15. ~Brightness(t)
  BY DEF Brightness, Shape
<1> QED
  BY <1>2, <1>7, <1>8, <1>9, <1>10, <1>11, <1>12, <1>13, <1>14, <1>15 DEF Step

\* What a thread has achieved when its request is through.
LEMMA WhenThrough ==
  ASSUME AllInv, PanelInv, NEW t \in Procs, Working(t), todo[t] = <<>>, pc[t] = "idle"
  PROVE  /\ file \in Config /\ file.state /\ Agrees
         /\ asked[t] = Off => chip.action = OffAction
         /\ asked[t] # Off => chip = asked[t]
<1>1. asked[t] \in Requests
  BY DEF AllInv, SetOpTypes, Working
<1>2. CASE asked[t] = Off
  <2>1. CallsMade(t) = 3
    BY <1>2 DEF CallsMade, Script
  <2> QED
    BY <1>2, <2>1 DEF PanelInv, OffProgress, Past
<1>3. CASE asked[t] # Off
  <2>1. CallsMade(t) = 6
    BY <1>1, <1>3, LightScript DEF CallsMade
  <2> QED
    BY <1>3, <2>1 DEF PanelInv, LightProgress, Past, Agrees
<1> QED
  BY <1>2, <1>3

\* Between requests and within them, the file and the LED stay as described.
LEMMA PanelKept ==
  ASSUME TroubleFree, AllInv, OnScript, Shape, PanelInv, [NextAll]_allVars
  PROVE  PanelInv'
<1>1. ASSUME NEW t \in Procs, NEW r \in Requests, SetOp(t, r) PROVE PanelInv'
  <2>1. \A u \in Procs : ~Working(u)
    BY <1>1, HalAssumption DEF SetOp, TroubleFree, AllInv, MutexOK
  <2>2. Rest /\ UNCHANGED <<file, chip>> /\ pc'[t] = "idle"
    BY <1>1, <2>1 DEF PanelInv, SetOp, Accept, vars, procVars, AllInv, MutexOK
  <2>3. /\ asked'[t] = r /\ todo'[t] = Script(r) /\ r # NoRequest
        /\ \A u \in Procs \ {t} : ~Working(u)'
    BY <1>1, <2>1, SetOpAssumption DEF SetOp, Accept, AllInv, SetOpTypes, Working
  <2>4. Len(Script(r)) \in Nat
    BY ScriptCalls
  <2>5. CallsMade(t)' = 0
    BY <2>3, <2>4 DEF CallsMade
  <2>6. OffProgress(t)' /\ LightProgress(t)'
    BY <2>2, <2>5 DEF OffProgress, LightProgress, Past, Rest, Agrees
  <2> QED
    BY <2>3, <2>6 DEF PanelInv, Working
<1>2. ASSUME NEW t \in Procs, Working(t), asked' = asked,
             asked[t] = Off => OffProgress(t)', asked[t] # Off => LightProgress(t)'
      PROVE  PanelInv'
  <2>1. Alone(t)
    BY <1>2, OneAtATime
  <2> QED
    BY <1>2, <2>1 DEF PanelInv, Alone, Working
<1>3. ASSUME NEW t \in Procs, HalCall(t) PROVE PanelInv'
  <2>1. Working(t) /\ asked' = asked
    BY <1>3 DEF HalCall
  <2>2. asked[t] = Off => OffProgress(t)'
    BY <1>3, <2>1, OffCall DEF PanelInv
  <2>3. asked[t] # Off => LightProgress(t)'
    BY <1>3, <2>1, LightCall DEF PanelInv
  <2> QED
    BY <1>2, <2>1, <2>2, <2>3
<1>4. ASSUME NEW t \in Procs, HalStep(t) PROVE PanelInv'
  <2>1. Working(t) /\ asked' = asked
    BY <1>4, StepIsInACall DEF HalStep, setOpVars, AllInv, MutexOK
  <2>2. Alone(t) /\ ~IoMayFail
    BY <2>1, OneAtATime DEF TroubleFree
  <2>3. asked[t] = Off => OffProgress(t)'
    BY <1>4, <2>1, <2>2, OffStep DEF PanelInv
  <2>4. asked[t] # Off => LightProgress(t)'
    BY <1>4, <2>1, <2>2, LightStep DEF PanelInv
  <2> QED
    BY <1>2, <2>1, <2>3, <2>4
<1>5. ASSUME NEW t \in Procs, Finish(t) PROVE PanelInv'
  <2>1. Working(t) /\ todo[t] = <<>> /\ pc[t] = "idle" /\ UNCHANGED <<file, chip>>
    BY <1>5 DEF Finish, vars
  <2>2. \A u \in Procs : ~Working(u)'
    BY <1>5, <2>1, OneAtATime DEF Finish, Alone, Working, AllInv, SetOpTypes
  <2>3. file \in Config /\ file.state /\ Agrees
    BY <2>1, WhenThrough
  <2>4. Rest'
    BY <2>1, <2>3 DEF Rest, Agrees
  <2> QED
    BY <2>2, <2>4 DEF PanelInv
<1>6. ASSUME NEW t \in Procs, Die(t) PROVE FALSE
  BY <1>6 DEF Die, TroubleFree
<1>7. CASE UNCHANGED allVars
  <2>1. UNCHANGED <<file, chip, pc, cfg, ret, asked, todo>>
    BY <1>7 DEF allVars, setOpVars, vars, procVars
  <2>2. Rest => Rest'
    BY <2>1 DEF Rest, Agrees
  <2>3. ASSUME NEW t \in Procs PROVE OffProgress(t) => OffProgress(t)'
    BY <2>1, <2>2 DEF OffProgress, Past, Agrees, CallsMade
  <2>4. ASSUME NEW t \in Procs PROVE LightProgress(t) => LightProgress(t)'
    BY <2>1 DEF LightProgress, Past, CallsMade
  <2> QED
    BY <2>1, <2>2, <2>3, <2>4 DEF PanelInv, Working
<1> QED
  BY <1>1, <1>3, <1>4, <1>5, <1>6, <1>7 DEF NextAll

-----------------------------------------------------------------------------
\* Whose request it is that is being carried out.
LEMMA WantIs ==
  ASSUME NEW f, NEW t \in Procs, f[t] # NoRequest,
         \A u \in Procs \ {t} : f[u] = NoRequest
  PROVE  /\ {u \in Procs : f[u] # NoRequest} # {}
         /\ f[CHOOSE u \in {v \in Procs : f[v] # NoRequest} : TRUE] = f[t]
<1>1. {u \in Procs : f[u] # NoRequest} = {t}
  OBVIOUS
<1> QED
  BY <1>1

\* What is being carried out, by who is at work: before a step, and after it.
LEMMA WantBefore ==
  /\ (\A t \in Procs : ~Working(t)) => Want = NoRequest
  /\ \A t \in Procs : Working(t) /\ Alone(t) => Want = asked[t]
<1>1. (\A t \in Procs : ~Working(t)) => Want = NoRequest
  BY DEF Want, Inside
<1>2. ASSUME NEW t \in Procs, Working(t), Alone(t) PROVE Want = asked[t]
  BY <1>2, WantIs DEF Want, Inside, Working, Alone
<1> QED
  BY <1>1, <1>2

\* The same of the state after a step.
LEMMA WantAfter ==
  /\ (\A t \in Procs : ~Working(t)') => Want' = NoRequest
  /\ \A t \in Procs : Working(t)' /\ Alone(t)' => Want' = asked'[t]
<1>1. (\A t \in Procs : ~Working(t)') => Want' = NoRequest
  BY DEF Want, Inside
<1>2. ASSUME NEW t \in Procs, Working(t)', Alone(t)' PROVE Want' = asked'[t]
  BY <1>2, WantIs DEF Want, Inside, Working, Alone
<1> QED
  BY <1>1, <1>2

\* Only led_applySettings of the request being carried out paints the LED.
LEMMA PaintStep ==
  ASSUME TroubleFree, AllInv, OnScript, Shape, PanelInv, NEW t \in Procs, HalStep(t)
  PROVE  \/ chip' = chip
         \/ /\ Working(t) /\ DOMAIN chip' = DOMAIN chip
            /\ \A f \in DOMAIN chip' :
                 chip'[f] \in {chip[f]} \cup Panel!Target(asked[t], f)
<1>1. TypeOK /\ pc[t] # "idle" /\ Working(t) /\ asked[t] \in Requests /\ Step(t)
  BY StepIsInACall DEF HalStep, AllInv, IInv, MutexOK, SetOpTypes, Working
<1>2. CASE ~Currents(t) /\ ~Program(t)
  BY <1>1, <1>2 DEF Step, Stat, Open, Lock, Read, Write, Unlock, Brightness, Shape
<1>3. CASE Currents(t) \/ Program(t)
  <2>1. call[t].op = "apply" /\ pc[t] \in {"currents", "program"}
    BY <1>3 DEF Currents, Program, Shape
  <2>2. CASE asked[t] = Off
    <3>1. CallsMade(t) = 3
      BY <1>1, <2>1, <2>2, WhichOffCall
    <3>2. /\ cfg[t] = file /\ Agrees /\ file.action = OffAction
      BY <1>1, <2>1, <2>2, <3>1 DEF PanelInv, OffProgress, Past
    <3>3. /\ Panel!Target(asked[t], "action") = {OffAction}
          /\ Panel!Target(asked[t], "current") = {chip.current, Default}
          /\ Panel!Target(asked[t], "pwm") = {chip.pwm, Default}
      BY <2>2 DEF Panel!Target
    <3>4. \/ chip' = chip
          \/ chip' = [chip EXCEPT !.current = file.current]
          \/ chip' = [chip EXCEPT !.pwm = file.pwm, !.action = OffAction]
      BY <1>3, <3>2 DEF Currents, Program, ShowPwm
    <3> QED
      BY <1>1, <3>2, <3>3, <3>4 DEF TypeOK, Look, Agrees
  <2>3. CASE asked[t] # Off
    <3>1. CallsMade(t) = 6
      BY <1>1, <2>1, <2>3, WhichCall
    <3>2. /\ cfg[t] = file /\ file.current = asked[t].current
          /\ file.pwm = asked[t].pwm /\ file.action = asked[t].action
      BY <1>1, <2>1, <2>3, <3>1 DEF PanelInv, LightProgress, Past
    <3>3. \A f : Panel!Target(asked[t], f) = {asked[t][f]}
      BY <2>3 DEF Panel!Target
    <3>4. \/ chip' = chip
          \/ chip' = [chip EXCEPT !.current = asked[t].current]
          \/ chip' = [chip EXCEPT !.pwm = asked[t].pwm, !.action = asked[t].action]
      BY <1>3, <3>2 DEF Currents, Program, ShowPwm
    <3>5. chip \in Look
      BY <1>1 DEF TypeOK
    <3>6. CASE chip' = [chip EXCEPT !.current = asked[t].current]
      <4>1. DOMAIN chip' = DOMAIN chip
        BY <3>6
      <4>2. \A f \in DOMAIN chip' : chip'[f] \in {chip[f], asked[t][f]}
        BY <3>5, <3>6 DEF Look
      <4> QED
        BY <1>1, <3>3, <4>1, <4>2
    <3>7. CASE chip' = [chip EXCEPT !.pwm = asked[t].pwm, !.action = asked[t].action]
      <4>1. DOMAIN chip' = DOMAIN chip
        BY <3>7
      <4>2. \A f \in DOMAIN chip' : chip'[f] \in {chip[f], asked[t][f]}
        BY <3>5, <3>7 DEF Look
      <4> QED
        BY <1>1, <3>3, <4>1, <4>2
    <3> QED
      BY <3>4, <3>6, <3>7
  <2> QED
    BY <2>2, <2>3
<1> QED
  BY <1>2, <1>3

\* A step of ledmgr_setOp is a step of the panel, or none.
LEMMA PanelStep ==
  ASSUME TroubleFree, AllInv, AllInv', OnScript, Shape, PanelInv, [NextAll]_allVars
  PROVE  [Panel!Next]_(Panel!panelVars)
<1> SUFFICES Panel!Next \/ (Want' = Want /\ chip' = chip)
  BY DEF Panel!panelVars
<1>1. ASSUME NEW t \in Procs, NEW r \in Requests, SetOp(t, r)
      PROVE  Panel!Accept(r)
  <2>1. \A u \in Procs : ~Working(u)
    BY <1>1, HalAssumption DEF SetOp, TroubleFree, AllInv, MutexOK
  <2>2. /\ Working(t)' /\ Alone(t)' /\ asked'[t] = r /\ chip' = chip
    BY <1>1, <2>1, SetOpAssumption
       DEF SetOp, Accept, AllInv, SetOpTypes, Working, Alone, vars
  <2> QED
    BY <2>1, <2>2, WantBefore, WantAfter DEF Panel!Accept
<1>2. ASSUME NEW t \in Procs, Working(t), asked' = asked
      PROVE  Want = asked[t] /\ Want' = Want /\ asked[t] # NoRequest
  <2>1. Alone(t) /\ Working(t)' /\ Alone(t)'
    BY <1>2, OneAtATime DEF Alone, Working
  <2> QED
    BY <1>2, <2>1, WantBefore, WantAfter DEF Working
<1>3. ASSUME NEW t \in Procs, HalCall(t) PROVE Want' = Want /\ chip' = chip
  BY <1>2, <1>3 DEF HalCall, Begin
<1>4. ASSUME NEW t \in Procs, HalStep(t)
      PROVE  Panel!Paint \/ (Want' = Want /\ chip' = chip)
  <2>1. Working(t) /\ asked' = asked
    BY <1>4, StepIsInACall DEF HalStep, setOpVars, AllInv, MutexOK
  <2>2. Want = asked[t] /\ Want' = Want /\ Want # NoRequest
    BY <1>2, <2>1
  <2> QED
    BY <1>4, <2>2, PaintStep DEF Panel!Paint
<1>5. ASSUME NEW t \in Procs, Finish(t) PROVE Panel!Done
  <2>1. Working(t) /\ todo[t] = <<>> /\ pc[t] = "idle" /\ UNCHANGED chip
    BY <1>5 DEF Finish, vars
  <2>2. Alone(t) /\ \A u \in Procs : ~Working(u)'
    BY <1>5, <2>1, OneAtATime DEF Finish, Alone, Working, AllInv, SetOpTypes
  <2>3. Want = asked[t] /\ Want # NoRequest /\ Want' = NoRequest
    BY <2>1, <2>2, WantBefore, WantAfter DEF Working
  <2>4. \A f \in DOMAIN chip : chip[f] \in Panel!Target(asked[t], f)
    <3>1. chip \in Look
      BY DEF AllInv, IInv, TypeOK
    <3>2. CASE asked[t] = Off
      BY <2>1, <3>1, <3>2, WhenThrough DEF Panel!Target, Look
    <3>3. CASE asked[t] # Off
      BY <2>1, <3>3, WhenThrough DEF Panel!Target
    <3> QED
      BY <3>2, <3>3
  <2> QED
    BY <2>1, <2>3, <2>4 DEF Panel!Done
<1>6. ASSUME NEW t \in Procs, Die(t) PROVE FALSE
  BY <1>6 DEF Die, TroubleFree
<1>7. CASE UNCHANGED allVars
  BY <1>7 DEF allVars, setOpVars, vars, Want, Inside, Working
<1> QED
  BY <1>1, <1>3, <1>4, <1>5, <1>6, <1>7 DEF NextAll, Panel!Next

\* The threads of one process see an LED on an LP5562 that carries out one
\* request of ledmgr_setOp after the other, each to its end.
THEOREM ImplementsPanel == ASSUME TroubleFree PROVE SetOpSpec => PanelSpec
<1> DEFINE J == OnScript /\ Shape /\ PanelInv
<1>1. InitAll => J /\ Want = NoRequest
  <2> SUFFICES ASSUME InitAll PROVE J /\ Want = NoRequest
    OBVIOUS
  <2>1. \A t \in Procs : ~Working(t) /\ pc[t] = "idle"
    BY DEF InitAll, Init, Working
  <2>2. file = Absent \/ file = DefaultConfig
    BY DEF InitAll, Init, TroubleFree
  <2>3. Rest
    <3>1. /\ DefaultConfig \in Config /\ DefaultConfig.state
          /\ DefaultConfig.current = Default /\ DefaultConfig.pwm = Default
      BY ConfigFacts DEF DefaultConfig
    <3> QED
      BY <2>2, <3>1 DEF Rest, Agrees
  <2> QED
    BY <2>1, <2>3, WantBefore DEF OnScript, Shape, PanelInv
<1>2. AllInv /\ J /\ [NextAll]_allVars => J'
  BY OnScriptKept, ShapeKept, PanelKept, SetOpUsesHal DEF AllInv, IInv
<1>3. AllInv /\ AllInv' /\ J /\ [NextAll]_allVars => [Panel!Next]_(Panel!panelVars)
  BY PanelStep
<1> HIDE DEF J
<1> QED
  BY <1>1, <1>2, <1>3, SetOpInvariance, PTL DEF SetOpSpec, PanelSpec, Panel!Spec
=============================================================================
