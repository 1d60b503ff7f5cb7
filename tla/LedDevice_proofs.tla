--------------------------- MODULE LedDevice_proofs ---------------------------
(***************************************************************************)
(* Proofs about LedDevice, for any number of processes, channels, looks    *)
(* and outstanding echoes.                                                 *)
(***************************************************************************)
EXTENDS LedDevice, TLAPS

LpLabels == {"current", "stop", "select", "start", "data", "end", "run"}
AwLabels == {"kill", "send"}
Looping  == {"current", "select", "start", "data", "end"}

\* A process at work has a configuration, is on the path of the chip there is,
\* and has its index at 1 outside the loops.
OnItsWay ==
  \A p \in Procs :
    /\ pc[p] # "idle" => want[p] \in Looks
    /\ pc[p] \in LpLabels => chip = "lp5562"
    /\ pc[p] \in AwLabels => chip = "aw210xx"
    /\ pc[p] \notin Looping => channel[p] = 1

Inv == TypeOK /\ OnItsWay

\* Nobody uses the device at the start.
LEMMA InitInv == Init => Inv
<1> SUFFICES ASSUME Init PROVE Inv
  OBVIOUS
<1>1. 1 \in Channels /\ 0 \in 0..MaxLate
  BY DeviceAssumption DEF Channels
<1>2. Blank \in Programs
  BY DEF Programs
<1>3. TypeOK
  BY <1>1, <1>2, Zenon DEF Init, TypeOK, Labels
<1>4. OnItsWay
  BY DEF Init, OnItsWay, LpLabels, AwLabels, Looping
<1> QED BY <1>3, <1>4 DEF Inv

\* One more channel, or the first again, is a channel.
LEMMA NextIsChannel ==
  ASSUME NEW c \in Channels
  PROVE  (IF c < N THEN c + 1 ELSE 1) \in Channels
BY DeviceAssumption DEF Channels

\* A call that returns keeps what it did to the device.
LEMMA ReturnKeeps ==
  ASSUME TypeOK, NEW p \in Procs, NEW o, Return(p, o)
  PROVE  /\ pc' \in [Procs -> Labels] /\ channel' \in [Procs -> Channels]
         /\ want' \in [Procs -> Looks \cup {NoLook}]
         /\ solo' \in [Procs -> BOOLEAN] /\ clean' \in [Procs -> BOOLEAN]
         /\ owner' = o
         /\ pc'[p] = "idle" /\ channel'[p] = 1 /\ want'[p] = NoLook /\ solo'[p] = FALSE
         /\ \A q \in Procs \ {p} : /\ pc'[q] = pc[q] /\ channel'[q] = channel[q]
                                   /\ want'[q] = want[q] /\ solo'[q] = solo[q]
                                   /\ clean'[q] = clean[q]
<1>1. 1 \in Channels
  BY DeviceAssumption DEF Channels
<1> QED BY <1>1 DEF Return, TypeOK, Labels

\* Going on to the next channel keeps what was done to the ones before.
LEMMA NextChannelKeeps ==
  ASSUME TypeOK, NEW p \in Procs, NEW a \in Labels, NEW b \in Labels, Advance(p, a, b)
  PROVE  /\ pc' \in [Procs -> Labels] /\ channel' \in [Procs -> Channels]
         /\ pc'[p] = IF channel[p] < N THEN a ELSE b
         /\ channel'[p] = IF channel[p] < N THEN channel[p] + 1 ELSE 1
         /\ \A q \in Procs \ {p} : pc'[q] = pc[q] /\ channel'[q] = channel[q]
<1>1. channel[p] \in Channels
  BY DEF TypeOK
<1>2. (IF channel[p] < N THEN channel[p] + 1 ELSE 1) \in Channels
  BY <1>1, NextIsChannel
<1> QED BY <1>2 DEF Advance, TypeOK

\* The owner a call makes of its process is one.
LEMMA SucceedKeeps ==
  ASSUME TypeOK, NEW p \in Procs, want[p] \in Looks, Succeed(p)
  PROVE  /\ Return(p, owner')
         /\ owner' \in Owners \cup {NoOwner}
         /\ owner' # NoOwner =>
              /\ solo[p]
              /\ owner' = [by |-> p, look |-> want[p], clean |-> clean[p]]
<1>1. [by |-> p, look |-> want[p], clean |-> clean[p]] \in Owners
  BY DEF Owners, TypeOK
<1> QED BY <1>1 DEF Succeed, Return

\* A process at work that loses a command goes on, alone no more, or returns; the
\* chip is as before.
LEMMA LostKeeps ==
  ASSUME Inv, NEW p \in Procs, Lost(p)
  PROVE  /\ UNCHANGED <<chip, lpVars, awVars>> /\ pc[p] # "idle"
         /\ Return(p, NoOwner)
            \/ /\ UNCHANGED <<want, clean, owner>>
               /\ solo' = [solo EXCEPT ![p] = FALSE]
               /\ pc' \in [Procs -> Labels] /\ channel' \in [Procs -> Channels]
               /\ pc'[p] # "idle"
               /\ pc'[p] \in LpLabels => pc[p] \in LpLabels
               /\ pc'[p] \in AwLabels => pc[p] \in AwLabels
               /\ pc'[p] \notin Looping => channel'[p] = 1
               /\ \A q \in Procs \ {p} : pc'[q] = pc[q] /\ channel'[q] = channel[q]
<1> USE DEF Inv
<1>1. UNCHANGED <<chip, lpVars, awVars>>
  BY DEF Lost
<1>2. CASE pc[p] \in {"run", "send"} /\ Return(p, NoOwner)
  BY <1>1, <1>2
<1>3. ASSUME pc[p] = "current", Advance(p, "current", "stop"),
             solo' = [solo EXCEPT ![p] = FALSE]
      PROVE  pc' \in [Procs -> Labels] /\ channel' \in [Procs -> Channels]
             /\ UNCHANGED <<want, clean, owner>>
             /\ pc'[p] \in {"current", "stop"}
             /\ (pc'[p] = "stop" => channel'[p] = 1)
             /\ \A q \in Procs \ {p} : pc'[q] = pc[q] /\ channel'[q] = channel[q]
  <2>1. TypeOK /\ {"current", "stop"} \subseteq Labels
    BY DEF Labels
  <2>2. UNCHANGED <<want, clean, owner>>
    BY <1>3 DEF Advance
  <2>3. /\ pc' \in [Procs -> Labels] /\ channel' \in [Procs -> Channels]
        /\ pc'[p] = IF channel[p] < N THEN "current" ELSE "stop"
        /\ channel'[p] = IF channel[p] < N THEN channel[p] + 1 ELSE 1
        /\ \A q \in Procs \ {p} : pc'[q] = pc[q] /\ channel'[q] = channel[q]
    BY <1>3, <2>1, NextChannelKeeps
  <2> QED BY <2>2, <2>3
<1>4. ASSUME pc[p] = "end", Advance(p, "select", "run"),
             solo' = [solo EXCEPT ![p] = FALSE]
      PROVE  pc' \in [Procs -> Labels] /\ channel' \in [Procs -> Channels]
             /\ UNCHANGED <<want, clean, owner>>
             /\ pc'[p] \in {"select", "run"}
             /\ (pc'[p] = "run" => channel'[p] = 1)
             /\ \A q \in Procs \ {p} : pc'[q] = pc[q] /\ channel'[q] = channel[q]
  <2>1. TypeOK /\ {"select", "run"} \subseteq Labels
    BY DEF Labels
  <2>2. UNCHANGED <<want, clean, owner>>
    BY <1>4 DEF Advance
  <2>3. /\ pc' \in [Procs -> Labels] /\ channel' \in [Procs -> Channels]
        /\ pc'[p] = IF channel[p] < N THEN "select" ELSE "run"
        /\ channel'[p] = IF channel[p] < N THEN channel[p] + 1 ELSE 1
        /\ \A q \in Procs \ {p} : pc'[q] = pc[q] /\ channel'[q] = channel[q]
    BY <1>4, <2>1, NextChannelKeeps
  <2> QED BY <2>2, <2>3
<1>5. ASSUME NEW f \in Following, pc[p] = f[1], pc' = [pc EXCEPT ![p] = f[2]],
             UNCHANGED <<channel, want, clean, owner>>
      PROVE  /\ pc' \in [Procs -> Labels] /\ channel' \in [Procs -> Channels]
             /\ \A q \in Procs \ {p} : pc'[q] = pc[q] /\ channel'[q] = channel[q]
             /\ pc[p] \in {"stop", "kill"} => channel'[p] = 1
             /\ \/ pc[p] = "kill" /\ pc'[p] = "send"
                \/ pc[p] \in LpLabels /\ pc'[p] \in {"select", "start", "data", "end"}
  <2>1. \/ f[1] = "kill" /\ f[2] = "send"
        \/ f[1] \in LpLabels /\ f[2] \in {"select", "start", "data", "end"}
    BY DEF Following, LpLabels
  <2>2. f[2] \in Labels
    BY <2>1 DEF Labels
  <2>3. pc[p] \in {"stop", "kill"} => channel[p] = 1
    BY DEF OnItsWay, Looping
  <2> QED BY <1>5, <2>1, <2>2, <2>3 DEF TypeOK
<1>6. CASE ~(pc[p] \in {"run", "send"} /\ Return(p, NoOwner))
  <2>1. solo' = [solo EXCEPT ![p] = FALSE]
    BY <1>6 DEF Lost
  <2>2. CASE pc[p] = "current" /\ Advance(p, "current", "stop")
    BY <1>1, <1>3, <2>1, <2>2 DEF LpLabels, AwLabels, Looping
  <2>3. CASE pc[p] = "end" /\ Advance(p, "select", "run")
    BY <1>1, <1>4, <2>1, <2>3 DEF LpLabels, AwLabels, Looping
  <2>4. CASE /\ \E f \in Following : pc[p] = f[1] /\ pc' = [pc EXCEPT ![p] = f[2]]
             /\ UNCHANGED <<channel, want, clean, owner>>
    <3>1. PICK f \in Following : pc[p] = f[1] /\ pc' = [pc EXCEPT ![p] = f[2]]
      BY <2>4
    <3> QED BY <1>1, <1>5, <2>1, <2>4, <3>1 DEF LpLabels, AwLabels, Looping
  <2> QED BY <1>6, <2>2, <2>3, <2>4 DEF Lost
<1> QED BY <1>2, <1>6

\* Every step keeps the types and the places of the processes.
LEMMA NextInv == Inv /\ [Next]_vars => Inv'
<1> SUFFICES ASSUME Inv, [Next]_vars PROVE Inv'
  OBVIOUS
<1> USE DEF Inv
<1>w. \A p \in Procs : pc[p] # "idle" => want[p] \in Looks
  BY DEF OnItsWay
<1>1. ASSUME NEW p \in Procs, NEW l \in Asked[chip], Begin(p, l) PROVE Inv'
  <2>1. l \in Looks
    BY DeviceAssumption DEF TypeOK
  <2>2. TypeOK'
    BY <2>1, <1>1 DEF Begin, lpVars, awVars, NoneLate, TypeOK, Labels
  <2>3. OnItsWay'
    BY <2>1, <1>1 DEF Begin, OnItsWay, LpLabels, AwLabels, Looping, TypeOK
  <2> QED BY <2>2, <2>3
<1>2. ASSUME NEW p \in Procs, Crash(p) PROVE Inv'
  <2>1. Return(p, NoOwner)
    BY <1>2 DEF Crash
  <2>2. TypeOK'
    BY <1>2, <2>1, ReturnKeeps DEF Crash, lpVars, awVars, TypeOK
  <2>3. OnItsWay'
    BY <1>2, <2>1, ReturnKeeps DEF Crash, OnItsWay, LpLabels, AwLabels, Looping
  <2> QED BY <2>2, <2>3
<1>3. ASSUME NEW p \in Procs, NoI2c(p) PROVE Inv'
  <2>1. Return(p, NoOwner)
    BY <1>3 DEF NoI2c
  <2>2. TypeOK'
    BY <1>3, <2>1, ReturnKeeps DEF NoI2c, Command, lpVars, awVars, TypeOK
  <2>3. OnItsWay'
    BY <1>3, <2>1, ReturnKeeps
    DEF NoI2c, Command, OnItsWay, LpLabels, AwLabels, Looping
  <2> QED BY <2>2, <2>3
<1>4. ASSUME NEW p \in Procs, Current(p) PROVE Inv'
  <2>1. NextChannel(p, "current", "stop") /\ pc[p] = "current" /\ chip' = chip
    BY <1>4 DEF Current, Command
  <2>2. /\ pc' \in [Procs -> Labels] /\ channel' \in [Procs -> Channels]
        /\ pc'[p] = IF channel[p] < N THEN "current" ELSE "stop"
        /\ channel'[p] = IF channel[p] < N THEN channel[p] + 1 ELSE 1
        /\ \A q \in Procs \ {p} : pc'[q] = pc[q] /\ channel'[q] = channel[q]
    BY <2>1, NextChannelKeeps DEF NextChannel, Labels
  <2>3. UNCHANGED <<want, solo, clean, owner>>
    BY <2>1 DEF NextChannel, Advance
  <2>4. current' \in [Channels -> Looks \cup {NoLook}]
    BY <1>4, <2>1, <1>w DEF Current, TypeOK
  <2>5. TypeOK'
    BY <1>4, <2>1, <2>2, <2>3, <2>4 DEF Current, awVars, TypeOK
  <2>6. OnItsWay'
    BY <2>1, <2>2, <2>3 DEF OnItsWay, LpLabels, AwLabels, Looping
  <2> QED BY <2>5, <2>6
<1>5. ASSUME NEW p \in Procs, Stop(p) PROVE Inv'
  <2>1. TypeOK'
    BY <1>5 DEF Stop, Command, Goto, awVars, TypeOK, Labels
  <2>2. OnItsWay'
    BY <1>5 DEF Stop, Command, Goto, OnItsWay, LpLabels, AwLabels, Looping, TypeOK
  <2> QED BY <2>1, <2>2
<1>6. ASSUME NEW p \in Procs, Select(p) PROVE Inv'
  <2>1. TypeOK'
    BY <1>6 DEF Select, Command, Goto, awVars, TypeOK, Labels
  <2>2. OnItsWay'
    BY <1>6 DEF Select, Command, Goto, OnItsWay, LpLabels, AwLabels, Looping, TypeOK
  <2> QED BY <2>1, <2>2
<1>7. ASSUME NEW p \in Procs, StartLoading(p) PROVE Inv'
  <2>1. TypeOK'
    BY <1>7 DEF StartLoading, Command, Goto, awVars, TypeOK, Labels, Programs
  <2>2. OnItsWay'
    BY <1>7
    DEF StartLoading, Command, Goto, OnItsWay, LpLabels, AwLabels, Looping, TypeOK
  <2> QED BY <2>1, <2>2
<1>8. ASSUME NEW p \in Procs, Data(p) PROVE Inv'
  <2>1. Program(channel[p], want[p]) \in Programs
    BY <1>8, <1>w DEF Data, Command, Program, Programs, TypeOK
  <2>2. TypeOK'
    BY <1>8, <2>1 DEF Data, Command, Goto, awVars, TypeOK, Labels
  <2>3. OnItsWay'
    BY <1>8 DEF Data, Command, Goto, OnItsWay, LpLabels, AwLabels, Looping, TypeOK
  <2> QED BY <2>2, <2>3
<1>9. ASSUME NEW p \in Procs, EndLoading(p) PROVE Inv'
  <2>1. NextChannel(p, "select", "run") /\ pc[p] = "end" /\ chip' = chip
    BY <1>9 DEF EndLoading, Command
  <2>2. /\ pc' \in [Procs -> Labels] /\ channel' \in [Procs -> Channels]
        /\ pc'[p] = IF channel[p] < N THEN "select" ELSE "run"
        /\ channel'[p] = IF channel[p] < N THEN channel[p] + 1 ELSE 1
        /\ \A q \in Procs \ {p} : pc'[q] = pc[q] /\ channel'[q] = channel[q]
    BY <2>1, NextChannelKeeps DEF NextChannel, Labels
  <2>3. UNCHANGED <<want, solo, clean, owner>>
    BY <2>1 DEF NextChannel, Advance
  <2>4. engine' \in [Channels -> Programs]
    BY <1>9 DEF EndLoading, TypeOK
  <2>5. TypeOK'
    BY <1>9, <2>1, <2>2, <2>3, <2>4 DEF EndLoading, awVars, TypeOK
  <2>6. OnItsWay'
    BY <2>1, <2>2, <2>3 DEF OnItsWay, LpLabels, AwLabels, Looping
  <2> QED BY <2>5, <2>6
<1>10. ASSUME NEW p \in Procs, Run(p) PROVE Inv'
  <2>1. pc[p] = "run" /\ Succeed(p) /\ chip' = chip
    BY <1>10 DEF Run, Command
  <2>2. Return(p, owner') /\ owner' \in Owners \cup {NoOwner}
    BY <2>1, <1>w, SucceedKeeps
  <2>3. TypeOK'
    BY <1>10, <2>1, <2>2, ReturnKeeps DEF Run, awVars, TypeOK
  <2>4. OnItsWay'
    BY <2>1, <2>2, ReturnKeeps DEF OnItsWay, LpLabels, AwLabels, Looping
  <2> QED BY <2>3, <2>4
<1>11. ASSUME NEW p \in Procs, Kill(p) PROVE Inv'
  <2>1. TypeOK'
    BY <1>11 DEF Kill, Command, Goto, lpVars, TypeOK, Labels
  <2>2. OnItsWay'
    BY <1>11 DEF Kill, Command, Goto, OnItsWay, LpLabels, AwLabels, Looping, TypeOK
  <2> QED BY <2>1, <2>2
<1>12. ASSUME NEW p \in Procs, Send(p) PROVE Inv'
  <2>1. pc[p] = "send" /\ Succeed(p) /\ chip' = chip /\ want[p] \in Looks
    BY <1>12, <1>w DEF Send, Command
  <2>2. Return(p, owner') /\ owner' \in Owners \cup {NoOwner}
    BY <2>1, SucceedKeeps
  <2>3. /\ late' \in [Steady -> 0..MaxLate]
        /\ script' \in [Procs -> Looks \cup {NoLook}]
    BY <1>12, <2>1, DeviceAssumption DEF Send, TypeOK
  <2>4. TypeOK'
    BY <1>12, <2>1, <2>2, <2>3, ReturnKeeps DEF Send, lpVars, TypeOK
  <2>5. OnItsWay'
    BY <2>1, <2>2, ReturnKeeps DEF OnItsWay, LpLabels, AwLabels, Looping
  <2> QED BY <2>4, <2>5
<1>13. ASSUME NEW p \in Procs, ScriptWrites(p) PROVE Inv'
  <2>1. TypeOK'
    BY <1>13 DEF ScriptWrites, applyVars, lpVars, TypeOK
  <2>2. OnItsWay'
    BY <1>13 DEF ScriptWrites, applyVars, OnItsWay
  <2> QED BY <2>1, <2>2
<1>14. ASSUME NEW l \in Steady, Land(l) PROVE Inv'
  <2>1. late' \in [Steady -> 0..MaxLate]
    BY <1>14, DeviceAssumption DEF Land, TypeOK
  <2>2. TypeOK'
    BY <1>14, <2>1 DEF Land, applyVars, lpVars, TypeOK, Looks
  <2>3. OnItsWay'
    BY <1>14 DEF Land, applyVars, OnItsWay
  <2> QED BY <2>2, <2>3
<1>15. ASSUME NEW p \in Procs, Lost(p) PROVE Inv'
  <2>1. CASE Return(p, NoOwner)
    <3>1. TypeOK'
      BY <1>15, <2>1, LostKeeps, ReturnKeeps DEF lpVars, awVars, TypeOK
    <3>2. OnItsWay'
      BY <1>15, <2>1, LostKeeps, ReturnKeeps DEF OnItsWay, LpLabels, AwLabels, Looping
    <3> QED BY <3>1, <3>2
  <2>2. CASE ~Return(p, NoOwner)
    <3>1. TypeOK'
      BY <1>15, <2>2, LostKeeps DEF lpVars, awVars, TypeOK
    <3>2. OnItsWay'
      BY <1>15, <1>w, <2>2, LostKeeps DEF OnItsWay
    <3> QED BY <3>1, <3>2
  <2> QED BY <2>1, <2>2
<1>16. CASE UNCHANGED vars
  BY <1>16 DEF vars, lpVars, awVars, TypeOK, OnItsWay
<1> QED
  BY <1>1, <1>2, <1>3, <1>4, <1>5, <1>6, <1>7, <1>8, <1>9, <1>10, <1>11, <1>12,
     <1>13, <1>14, <1>15, <1>16 DEF Next, Step

\* LedDevice is type correct: no loop runs past its last channel.
THEOREM TypeCorrect == Spec => []TypeOK
<1>1. Inv => TypeOK
  BY DEF Inv
<1> QED BY InitInv, NextInv, <1>1, PTL DEF Spec
-----------------------------------------------------------------------------
(* A process that is alone with the device: how far it has come.           *)

Alone == \A p \in Procs : solo[p] =>
           pc[p] # "idle" /\ \A q \in Procs \ {p} : pc[q] = "idle"

OwnerRests == owner # NoOwner => \A p \in Procs : pc[p] = "idle"

\* What the commands given so far have done, whatever was there before.
LpWork(p) ==
  /\ pc[p] = "current" => \A c \in Channels : c < channel[p] => current[c] = want[p]
  /\ pc[p] \in LpLabels \ {"current"} => \A c \in Channels : current[c] = want[p]
  /\ pc[p] \in {"select", "start", "data", "end"} =>
       \A c \in Channels : c < channel[p] => engine[c] = Program(c, want[p])
  /\ pc[p] \in {"start", "data", "end"} => selected = channel[p]
  /\ pc[p] \in {"data", "end"} => loading
  /\ pc[p] = "end" => buffer = Program(channel[p], want[p])
  /\ pc[p] = "run" => \A c \in Channels : engine[c] = Program(c, want[p])

AwWork(p) ==
  /\ pc[p] = "send" => script = [q \in Procs |-> NoLook]
  /\ pc[p] \in AwLabels /\ clean[p] => NoneLate

SoloInv == /\ Alone /\ OwnerRests
           /\ \A p \in Procs : solo[p] => LpWork(p) /\ AwWork(p)
           /\ SoloRunsItsPrograms /\ SoloHasTheLastWord

\* Nobody claims to have been alone at the start.
LEMMA InitSolo == Init => SoloInv
BY DEF Init, SoloInv, Alone, OwnerRests, SoloRunsItsPrograms, SoloHasTheLastWord

\* While a process is at work nobody else is alone, and there is no owner.
LEMMA AtWork ==
  ASSUME Inv, SoloInv, NEW p \in Procs, pc[p] # "idle"
  PROVE  owner = NoOwner /\ \A q \in Procs \ {p} : ~solo[q]
BY DEF SoloInv, Alone, OwnerRests

\* A command in the middle keeps SoloInv if it does its part.
LEMMA MiddleStep ==
  ASSUME Inv, SoloInv, NEW p \in Procs, pc[p] # "idle", pc'[p] # "idle",
         \A q \in Procs \ {p} : pc'[q] = pc[q],
         UNCHANGED <<solo, owner>>,
         solo[p] => LpWork(p)' /\ AwWork(p)'
  PROVE  SoloInv'
<1>1. owner' = NoOwner /\ \A q \in Procs \ {p} : ~solo'[q]
  BY AtWork
<1>2. Alone'
  BY <1>1 DEF SoloInv, Alone
<1>3. OwnerRests' /\ SoloRunsItsPrograms' /\ SoloHasTheLastWord'
  BY <1>1 DEF OwnerRests, SoloRunsItsPrograms, SoloHasTheLastWord, NoOwner
<1>4. \A q \in Procs : solo'[q] => LpWork(q)' /\ AwWork(q)'
  BY <1>1
<1> QED BY <1>2, <1>3, <1>4 DEF SoloInv

\* So does one that returns, if it makes nobody an owner who is none.
LEMMA LastStep ==
  ASSUME Inv, SoloInv, NEW p \in Procs, pc[p] # "idle", NEW o, Return(p, o),
         o # NoOwner => solo[p] /\ SoloRunsItsPrograms' /\ SoloHasTheLastWord'
  PROVE  SoloInv'
<1> USE DEF Inv
<1>1. \A q \in Procs : ~solo'[q]
  BY AtWork, ReturnKeeps
<1>2. owner' = o /\ pc'[p] = "idle" /\ \A q \in Procs \ {p} : pc'[q] = pc[q]
  BY ReturnKeeps
<1>3. OwnerRests'
  BY <1>2 DEF SoloInv, Alone, OwnerRests
<1>4. SoloRunsItsPrograms' /\ SoloHasTheLastWord'
  <2>1. CASE o = NoOwner
    BY <1>2, <2>1 DEF SoloRunsItsPrograms, SoloHasTheLastWord, NoOwner
  <2> QED BY <2>1
<1> QED BY <1>1, <1>3, <1>4 DEF SoloInv, Alone

\* Every step keeps the claims of those who are alone.
LEMMA NextSolo == Inv /\ SoloInv /\ [Next]_vars => SoloInv'
<1> SUFFICES ASSUME Inv, SoloInv, [Next]_vars PROVE SoloInv'
  OBVIOUS
<1>w. ASSUME NEW p \in Procs, solo[p] PROVE LpWork(p) /\ AwWork(p)
  BY <1>w DEF SoloInv
<1>1. ASSUME NEW p \in Procs, NEW l \in Asked[chip], Begin(p, l) PROVE SoloInv'
  <2>1. owner' = NoOwner /\ \A q \in Procs : solo'[q] =>
          q = p /\ \A r \in Procs : pc[r] = "idle"
    BY <1>1 DEF Begin
  <2>2. /\ pc'[p] \in {"current", "kill"} /\ channel'[p] = 1
        /\ clean'[p] = NoneLate
        /\ \A q \in Procs \ {p} : pc'[q] = pc[q]
    BY <1>1 DEF Begin, Inv, TypeOK, OnItsWay, Looping
  <2>3. Alone' /\ OwnerRests' /\ SoloRunsItsPrograms' /\ SoloHasTheLastWord'
    BY <2>1, <2>2
    DEF Alone, OwnerRests, SoloRunsItsPrograms, SoloHasTheLastWord, NoOwner
  <2>4. LpWork(p)'
    BY <2>2, DeviceAssumption DEF LpWork, Channels, LpLabels
  <2>5. AwWork(p)'
    BY <1>1, <2>2 DEF AwWork, AwLabels, NoneLate, Begin, awVars
  <2> QED BY <2>1, <2>3, <2>4, <2>5 DEF SoloInv
<1>2. ASSUME NEW p \in Procs, Crash(p) PROVE SoloInv'
  BY <1>2, LastStep DEF Crash
<1>3. ASSUME NEW p \in Procs, NoI2c(p) PROVE SoloInv'
  BY <1>3, LastStep DEF NoI2c, Command
<1>4. ASSUME NEW p \in Procs, Current(p) PROVE SoloInv'
  <2>1. NextChannel(p, "current", "stop") /\ pc[p] = "current"
    BY <1>4 DEF Current, Command
  <2>2. /\ pc'[p] = IF channel[p] < N THEN "current" ELSE "stop"
        /\ channel'[p] = IF channel[p] < N THEN channel[p] + 1 ELSE 1
        /\ \A q \in Procs \ {p} : pc'[q] = pc[q]
    BY <2>1, NextChannelKeeps DEF NextChannel, Inv, Labels
  <2>3. want' = want /\ UNCHANGED <<solo, owner>>
    BY <2>1 DEF NextChannel, Advance
  <2>4. /\ current'[channel[p]] = want[p]
        /\ \A c \in Channels : c # channel[p] => current'[c] = current[c]
        /\ channel[p] \in Channels
    BY <1>4 DEF Current, Inv, TypeOK
  <2>5. ASSUME solo[p] PROVE LpWork(p)'
    <3>1. \A c \in Channels : c < channel[p] => current[c] = want[p]
      BY <1>w, <2>1, <2>5 DEF LpWork
    <3>2. \A c \in Channels : c <= channel[p] => current'[c] = want[p]
      BY <2>4, <3>1 DEF Channels
    <3>3. CASE channel[p] < N
      BY <2>2, <2>3, <2>4, <3>2, <3>3, DeviceAssumption DEF LpWork, LpLabels, Channels
    <3>4. CASE ~(channel[p] < N)
      <4>1. \A c \in Channels : current'[c] = want[p]
        BY <2>4, <3>2, <3>4, DeviceAssumption DEF Channels
      <4> QED BY <2>2, <2>3, <3>4, <4>1 DEF LpWork
    <3> QED BY <3>3, <3>4
  <2>6. AwWork(p)'
    BY <2>2 DEF AwWork, AwLabels
  <2> QED BY <2>1, <2>2, <2>3, <2>5, <2>6, MiddleStep
<1>5. ASSUME NEW p \in Procs, Stop(p) PROVE SoloInv'
  <2>1. /\ pc[p] = "stop" /\ pc'[p] = "select" /\ channel'[p] = 1
        /\ UNCHANGED <<want, current, solo, owner>>
        /\ \A q \in Procs \ {p} : pc'[q] = pc[q]
    BY <1>5 DEF Stop, Command, Goto, Inv, TypeOK, OnItsWay, Looping
  <2>2. ASSUME solo[p] PROVE LpWork(p)'
    BY <1>w, <2>1, <2>2, DeviceAssumption DEF LpWork, LpLabels, Channels
  <2>3. AwWork(p)'
    BY <2>1 DEF AwWork, AwLabels
  <2> QED BY <2>1, <2>2, <2>3, MiddleStep
<1>6. ASSUME NEW p \in Procs, Select(p) PROVE SoloInv'
  <2>1. /\ pc[p] = "select" /\ pc'[p] = "start" /\ selected' = channel[p]
        /\ UNCHANGED <<channel, want, current, engine, solo, owner>>
        /\ \A q \in Procs \ {p} : pc'[q] = pc[q]
    BY <1>6 DEF Select, Command, Goto, Inv, TypeOK
  <2>2. ASSUME solo[p] PROVE LpWork(p)'
    BY <1>w, <2>1, <2>2 DEF LpWork, LpLabels
  <2>3. AwWork(p)'
    BY <2>1 DEF AwWork, AwLabels
  <2> QED BY <2>1, <2>2, <2>3, MiddleStep
<1>7. ASSUME NEW p \in Procs, StartLoading(p) PROVE SoloInv'
  <2>1. /\ pc[p] = "start" /\ pc'[p] = "data" /\ loading'
        /\ UNCHANGED <<channel, want, current, selected, engine, solo, owner>>
        /\ \A q \in Procs \ {p} : pc'[q] = pc[q]
    BY <1>7 DEF StartLoading, Command, Goto, Inv, TypeOK
  <2>2. ASSUME solo[p] PROVE LpWork(p)'
    BY <1>w, <2>1, <2>2 DEF LpWork, LpLabels
  <2>3. AwWork(p)'
    BY <2>1 DEF AwWork, AwLabels
  <2> QED BY <2>1, <2>2, <2>3, MiddleStep
<1>8. ASSUME NEW p \in Procs, Data(p) PROVE SoloInv'
  <2>1. /\ pc[p] = "data" /\ pc'[p] = "end"
        /\ loading => buffer' = Program(channel[p], want[p])
        /\ UNCHANGED <<channel, want, current, selected, loading, engine, solo, owner>>
        /\ \A q \in Procs \ {p} : pc'[q] = pc[q]
    BY <1>8 DEF Data, Command, Goto, Inv, TypeOK
  <2>2. ASSUME solo[p] PROVE LpWork(p)'
    BY <1>w, <2>1, <2>2 DEF LpWork, LpLabels
  <2>3. AwWork(p)'
    BY <2>1 DEF AwWork, AwLabels
  <2> QED BY <2>1, <2>2, <2>3, MiddleStep
<1>9. ASSUME NEW p \in Procs, EndLoading(p) PROVE SoloInv'
  <2>1. NextChannel(p, "select", "run") /\ pc[p] = "end"
    BY <1>9 DEF EndLoading, Command
  <2>2. /\ pc'[p] = IF channel[p] < N THEN "select" ELSE "run"
        /\ channel'[p] = IF channel[p] < N THEN channel[p] + 1 ELSE 1
        /\ \A q \in Procs \ {p} : pc'[q] = pc[q]
    BY <2>1, NextChannelKeeps DEF NextChannel, Inv, Labels
  <2>3. want' = want /\ current' = current /\ UNCHANGED <<solo, owner>>
    BY <1>9, <2>1 DEF NextChannel, Advance, EndLoading
  <2>4. channel[p] \in Channels
    BY DEF Inv, TypeOK
  <2>5. ASSUME solo[p] PROVE LpWork(p)'
    <3>1. /\ \A c \in Channels : c < channel[p] => engine[c] = Program(c, want[p])
          /\ \A c \in Channels : current[c] = want[p]
          /\ loading /\ selected = channel[p] /\ buffer = Program(channel[p], want[p])
      BY <1>w, <2>1, <2>5 DEF LpWork, LpLabels
    <3>2. engine' = [engine EXCEPT ![channel[p]] = Program(channel[p], want[p])]
      BY <1>9, <3>1 DEF EndLoading
    <3>3. /\ engine'[channel[p]] = Program(channel[p], want[p])
          /\ \A c \in Channels : c # channel[p] => engine'[c] = engine[c]
      BY <2>4, <3>2 DEF Inv, TypeOK
    <3>4. \A c \in Channels : c <= channel[p] => engine'[c] = Program(c, want[p])
      BY <2>4, <3>1, <3>3 DEF Channels
    <3>5. CASE channel[p] < N
      <4>1. \A c \in Channels : c < channel'[p] => engine'[c] = Program(c, want[p])
        BY <2>2, <2>4, <3>4, <3>5, DeviceAssumption DEF Channels
      <4> QED BY <2>2, <2>3, <3>1, <3>5, <4>1 DEF LpWork, LpLabels
    <3>6. CASE ~(channel[p] < N)
      <4>1. \A c \in Channels : engine'[c] = Program(c, want[p])
        BY <2>4, <3>4, <3>6, DeviceAssumption DEF Channels
      <4> QED BY <2>2, <2>3, <3>1, <3>6, <4>1 DEF LpWork, LpLabels
    <3> QED BY <3>5, <3>6
  <2>6. AwWork(p)'
    BY <2>2 DEF AwWork, AwLabels
  <2> QED BY <2>1, <2>2, <2>3, <2>5, <2>6, MiddleStep
<1>10. ASSUME NEW p \in Procs, Run(p) PROVE SoloInv'
  <2>1. pc[p] = "run" /\ Succeed(p) /\ UNCHANGED <<chip, current, engine>> /\ running'
    BY <1>10 DEF Run, Command
  <2>2. want[p] \in Looks /\ chip = "lp5562"
    BY <2>1 DEF Inv, OnItsWay, LpLabels
  <2>3. Return(p, owner') /\ (owner' # NoOwner => solo[p] /\ owner'.look = want[p])
    BY <2>1, <2>2, SucceedKeeps DEF Inv
  <2>4. ASSUME solo[p] PROVE \A c \in Channels : /\ current[c] = want[p]
                                                 /\ engine[c] = Program(c, want[p])
    BY <1>w, <2>1, <2>4 DEF LpWork, LpLabels
  <2>5. owner' # NoOwner => SoloRunsItsPrograms' /\ SoloHasTheLastWord'
    BY <2>1, <2>2, <2>3, <2>4 DEF SoloRunsItsPrograms, SoloHasTheLastWord
  <2> QED BY <2>1, <2>3, <2>5, LastStep
<1>11. ASSUME NEW p \in Procs, Kill(p) PROVE SoloInv'
  <2>1. /\ pc[p] = "kill" /\ pc'[p] = "send" /\ script' = [q \in Procs |-> NoLook]
        /\ UNCHANGED <<clean, late, solo, owner>>
        /\ \A q \in Procs \ {p} : pc'[q] = pc[q]
    BY <1>11 DEF Kill, Command, Goto, Inv, TypeOK
  <2>2. LpWork(p)'
    BY <2>1 DEF LpWork, LpLabels
  <2>3. ASSUME solo[p] PROVE AwWork(p)'
    BY <1>w, <2>1, <2>3 DEF AwWork, AwLabels, NoneLate
  <2> QED BY <2>1, <2>2, <2>3, MiddleStep
<1>12. ASSUME NEW p \in Procs, Send(p) PROVE SoloInv'
  <2>1. pc[p] = "send" /\ Succeed(p) /\ chip' = chip
    BY <1>12 DEF Send, Command
  <2>2. want[p] \in Looks /\ chip = "aw210xx"
    BY <2>1 DEF Inv, OnItsWay, AwLabels
  <2>3. /\ Return(p, owner')
        /\ owner' # NoOwner =>
             solo[p] /\ owner' = [by |-> p, look |-> want[p], clean |-> clean[p]]
    BY <2>1, <2>2, SucceedKeeps DEF Inv
  <2>4. ASSUME solo[p] PROVE script = [q \in Procs |-> NoLook] /\ (clean[p] => NoneLate)
    BY <1>w, <2>1, <2>4 DEF AwWork, AwLabels
  <2>5. ASSUME owner' # NoOwner PROVE SoloHasTheLastWord'
    <3>1. /\ owner'.by = p /\ owner'.look = want[p] /\ owner'.clean = clean[p]
          /\ script = [q \in Procs |-> NoLook] /\ (clean[p] => NoneLate)
      BY <2>3, <2>4, <2>5
    <3>2. CASE want[p] \in Steady
      <4>1. /\ late' = [late EXCEPT ![want[p]] = @ + 1] /\ script' = script
            /\ want[p] \notin Blinking
        BY <1>12, <3>2, DeviceAssumption DEF Send
      <4>2. late[want[p]] \in Nat /\ late'[want[p]] = late[want[p]] + 1
        BY <3>2, <4>1 DEF Inv, TypeOK
      <4>3. late'[want[p]] > 0
        BY <4>2
      <4>4. \A l \in Steady : l # want[p] => late'[l] = late[l]
        BY <4>1 DEF Inv, TypeOK
      <4>5. clean[p] => \A l \in Steady : late'[l] > 0 => l = want[p]
        BY <3>1, <4>4 DEF NoneLate
      <4>6. ~NoneLate'
        BY <3>2, <4>3 DEF NoneLate
      <4> QED BY <3>1, <4>1, <4>5, <4>6 DEF SoloHasTheLastWord
    <3>3. CASE want[p] \in Blinking
      <4>1. /\ script' = [script EXCEPT ![p] = want[p]] /\ late' = late
            /\ want[p] \notin Steady
        BY <1>12, <3>3, DeviceAssumption DEF Send
      <4>2. script' = [q \in Procs |-> IF q = p THEN want[p] ELSE NoLook]
        BY <3>1, <4>1
      <4>3. clean[p] => \A l \in Steady : ~(late'[l] > 0)
        BY <3>1, <4>1 DEF NoneLate
      <4> QED BY <3>1, <3>3, <4>1, <4>2, <4>3 DEF SoloHasTheLastWord
    <3> QED BY <2>2, <3>2, <3>3 DEF Looks
  <2>6. SoloRunsItsPrograms'
    BY <2>1, <2>2 DEF SoloRunsItsPrograms
  <2> QED BY <2>1, <2>3, <2>5, <2>6, LastStep
<1>13. ASSUME NEW p \in Procs, ScriptWrites(p) PROVE SoloInv'
  <2>1. /\ UNCHANGED <<chip, pc, channel, want, lpVars, solo, clean, owner, late, script>>
        /\ script[p] # NoLook
    BY <1>13 DEF ScriptWrites, applyVars
  <2>2. /\ Alone' /\ OwnerRests' /\ SoloRunsItsPrograms'
        /\ \A q \in Procs : solo'[q] => LpWork(q)' /\ AwWork(q)'
    BY <2>1 DEF SoloInv, Alone, OwnerRests, SoloRunsItsPrograms, LpWork, AwWork,
                NoneLate, lpVars
  <2>3. SoloHasTheLastWord'
    BY <2>1, DeviceAssumption DEF SoloInv, SoloHasTheLastWord, NoneLate
  <2> QED BY <2>2, <2>3 DEF SoloInv
<1>14. ASSUME NEW l \in Steady, Land(l) PROVE SoloInv'
  <2>1. /\ UNCHANGED <<chip, pc, channel, want, lpVars, solo, clean, owner, script>>
        /\ late[l] > 0 /\ late' = [late EXCEPT ![l] = @ - 1] /\ light' = l
    BY <1>14 DEF Land, applyVars
  <2>2. \A k \in Steady : late[k] = 0 => late'[k] = 0
    BY <2>1 DEF Inv, TypeOK
  <2>3. /\ Alone' /\ OwnerRests' /\ SoloRunsItsPrograms'
        /\ \A q \in Procs : solo'[q] => LpWork(q)' /\ AwWork(q)'
    BY <2>1, <2>2 DEF SoloInv, Alone, OwnerRests, SoloRunsItsPrograms, LpWork, AwWork,
                      NoneLate, lpVars
  <2>4. \A k \in Steady : late'[k] > 0 => late[k] > 0
    BY <2>1 DEF Inv, TypeOK
  <2>5. SoloHasTheLastWord'
    BY <2>1, <2>4 DEF SoloInv, SoloHasTheLastWord
  <2> QED BY <2>3, <2>5 DEF SoloInv
<1>15. ASSUME NEW p \in Procs, Lost(p) PROVE SoloInv'
  <2>1. CASE Return(p, NoOwner)
    BY <1>15, <2>1, LostKeeps, LastStep
  <2>2. CASE ~Return(p, NoOwner)
    <3>1. owner = NoOwner /\ \A q \in Procs \ {p} : ~solo[q]
      BY <1>15, LostKeeps, AtWork
    <3>2. owner' = NoOwner /\ solo' = [solo EXCEPT ![p] = FALSE]
      BY <1>15, <2>2, <3>1, LostKeeps
    <3>3. \A q \in Procs : ~solo'[q]
      BY <3>1, <3>2 DEF Inv, TypeOK
    <3> QED BY <3>2, <3>3 DEF SoloInv, Alone, OwnerRests, SoloRunsItsPrograms,
                              SoloHasTheLastWord, NoOwner
  <2> QED BY <2>1, <2>2
<1>16. CASE UNCHANGED vars
  BY <1>16 DEF vars, lpVars, awVars, SoloInv, Alone, OwnerRests, LpWork, AwWork,
               NoneLate, SoloRunsItsPrograms, SoloHasTheLastWord
<1> QED
  BY <1>1, <1>2, <1>3, <1>4, <1>5, <1>6, <1>7, <1>8, <1>9, <1>10, <1>11, <1>12,
     <1>13, <1>14, <1>15, <1>16 DEF Next, Step

\* Both invariants hold in every reachable state.
LEMMA AlwaysSolo == Spec => [](Inv /\ SoloInv)
BY InitInv, NextInv, InitSolo, NextSolo, PTL DEF Spec

\* Whatever crashes and other processes have left of an LP5562, a process that
\* has it for itself leaves every engine running the program of its channel.
THEOREM LpTakesEffect == Spec => []SoloRunsItsPrograms
<1>1. SoloInv => SoloRunsItsPrograms
  BY DEF SoloInv
<1> QED BY AlwaysSolo, <1>1, PTL

\* On an AW210xx it leaves no script but its own, and no echo that could
\* overwrite its look if none was outstanding.
THEOREM AwTakesEffect == Spec => []SoloHasTheLastWord
<1>1. SoloInv => SoloHasTheLastWord
  BY DEF SoloInv
<1> QED BY AlwaysSolo, <1>1, PTL
=============================================================================
