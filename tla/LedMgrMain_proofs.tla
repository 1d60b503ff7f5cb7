------------------------- MODULE LedMgrMain_proofs -------------------------
(***************************************************************************)
(* What LedMgrMain guarantees for every set of routers and every set of    *)
(* surroundings: its type invariant, the soundness of its dispatch and of  *)
(* its decisions, and that it implements LedLifecycle.                     *)
(***************************************************************************)
EXTENDS LedMgrMain, TLAPS

-----------------------------------------------------------------------------
(* The handler tables.                                                     *)

Clause == [when : Seq(Probes \X {"yes", "no"}), goto : LedState]

\* Every handler is a list of clauses of one or two calls, each with a branch
\* to a state, and at most five of them. No condition makes one call twice.
TableShape(s, h) ==
  /\ h \in Seq(Clause)
  /\ Len(h) \in 0..5
  /\ h = <<>> \/ Len(h) # 0
  /\ \A c \in 1..Len(h) : Len(h[c].when) \in 1..2
  /\ \A c \in 1..Len(h) : Len(h[c].when) = 2 => h[c].when[1][1] # h[c].when[2][1]
  /\ \A c \in 1..Len(h) : h[c].goto = s \/ h[c].goto \in Lifecycle!Edges[s]

\* The tables of ledmgrmain.c:223-359 have that shape, and a branch stays in
\* the state of its handler or follows an edge of the life cycle.
LEMMA HandlerShape ==
  ASSUME NEW s \in LedState
  PROVE  TableShape(s, get_next_state[s])
<1>1. CASE s = "BOOT_UP"
  <2>1. get_next_state[s] = bootup_st_handler
    BY <1>1, SMT DEF get_next_state, LedState
  <2>2. bootup_st_handler \in Seq(Clause)
    BY SMT DEF bootup_st_handler, Clause, If, Yes, No, Probes, LedState
  <2>3. /\ Len(bootup_st_handler) \in 0..5
        /\ Len(bootup_st_handler) # 0
    BY SMT DEF bootup_st_handler
  <2>4. \A c \in 1..Len(bootup_st_handler) :
          /\ Len(bootup_st_handler[c].when) \in 1..2
          /\ Len(bootup_st_handler[c].when) = 2 =>
               bootup_st_handler[c].when[1][1] # bootup_st_handler[c].when[2][1]
    BY SMT DEF bootup_st_handler, If, Yes, No
  <2>5. \A c \in 1..Len(bootup_st_handler) :
          bootup_st_handler[c].goto = s \/ bootup_st_handler[c].goto \in Lifecycle!Edges[s]
    BY <1>1, SMT DEF bootup_st_handler, If, Yes, No, Lifecycle!Edges, Lifecycle!LedState
  <2>6. QED  BY <2>1, <2>2, <2>3, <2>4, <2>5 DEF TableShape
<1>2. CASE s = "READY_TO_PAIR"
  <2>1. get_next_state[s] = ready_to_pair_st_handler
    BY <1>2, SMT DEF get_next_state, LedState
  <2>2. ready_to_pair_st_handler \in Seq(Clause)
    BY SMT DEF ready_to_pair_st_handler, Clause, If, Yes, No, Probes, LedState
  <2>3. /\ Len(ready_to_pair_st_handler) \in 0..5
        /\ Len(ready_to_pair_st_handler) # 0
    BY SMT DEF ready_to_pair_st_handler
  <2>4. \A c \in 1..Len(ready_to_pair_st_handler) :
          /\ Len(ready_to_pair_st_handler[c].when) \in 1..2
          /\ Len(ready_to_pair_st_handler[c].when) = 2 =>
               ready_to_pair_st_handler[c].when[1][1] # ready_to_pair_st_handler[c].when[2][1]
    BY SMT DEF ready_to_pair_st_handler, If, Yes, No
  <2>5. \A c \in 1..Len(ready_to_pair_st_handler) :
          ready_to_pair_st_handler[c].goto = s \/ ready_to_pair_st_handler[c].goto \in Lifecycle!Edges[s]
    BY <1>2, SMT DEF ready_to_pair_st_handler, If, Yes, No, Lifecycle!Edges, Lifecycle!LedState
  <2>6. QED  BY <2>1, <2>2, <2>3, <2>4, <2>5 DEF TableShape
<1>3. CASE s = "NOT_PROVISIONED"
  <2>1. get_next_state[s] = not_provisioned_st_handler
    BY <1>3, SMT DEF get_next_state, LedState
  <2>2. not_provisioned_st_handler \in Seq(Clause)
    BY SMT DEF not_provisioned_st_handler, Clause, If, Yes, No, Probes, LedState
  <2>3. /\ Len(not_provisioned_st_handler) \in 0..5
        /\ Len(not_provisioned_st_handler) # 0
    BY SMT DEF not_provisioned_st_handler
  <2>4. \A c \in 1..Len(not_provisioned_st_handler) :
          /\ Len(not_provisioned_st_handler[c].when) \in 1..2
          /\ Len(not_provisioned_st_handler[c].when) = 2 =>
               not_provisioned_st_handler[c].when[1][1] # not_provisioned_st_handler[c].when[2][1]
    BY SMT DEF not_provisioned_st_handler, If, Yes, No
  <2>5. \A c \in 1..Len(not_provisioned_st_handler) :
          not_provisioned_st_handler[c].goto = s \/ not_provisioned_st_handler[c].goto \in Lifecycle!Edges[s]
    BY <1>3, SMT DEF not_provisioned_st_handler, If, Yes, No, Lifecycle!Edges, Lifecycle!LedState
  <2>6. QED  BY <2>1, <2>2, <2>3, <2>4, <2>5 DEF TableShape
<1>4. CASE s = "TROUBLE_CONNECTING"
  <2>1. get_next_state[s] = trouble_connect_st_handler
    BY <1>4, SMT DEF get_next_state, LedState
  <2>2. trouble_connect_st_handler \in Seq(Clause)
    BY SMT DEF trouble_connect_st_handler, Clause, If, Yes, No, Probes, LedState
  <2>3. /\ Len(trouble_connect_st_handler) \in 0..5
        /\ Len(trouble_connect_st_handler) # 0
    BY SMT DEF trouble_connect_st_handler
  <2>4. \A c \in 1..Len(trouble_connect_st_handler) :
          /\ Len(trouble_connect_st_handler[c].when) \in 1..2
          /\ Len(trouble_connect_st_handler[c].when) = 2 =>
               trouble_connect_st_handler[c].when[1][1] # trouble_connect_st_handler[c].when[2][1]
    BY SMT DEF trouble_connect_st_handler, If, Yes, No
  <2>5. \A c \in 1..Len(trouble_connect_st_handler) :
          trouble_connect_st_handler[c].goto = s \/ trouble_connect_st_handler[c].goto \in Lifecycle!Edges[s]
    BY <1>4, SMT DEF trouble_connect_st_handler, If, Yes, No, Lifecycle!Edges, Lifecycle!LedState
  <2>6. QED  BY <2>1, <2>2, <2>3, <2>4, <2>5 DEF TableShape
<1>5. CASE s = "WORKING_NORMALLY"
  <2>1. get_next_state[s] = working_normally_st_handler
    BY <1>5, SMT DEF get_next_state, LedState
  <2>2. working_normally_st_handler \in Seq(Clause)
    BY SMT DEF working_normally_st_handler, Clause, If, Yes, No, Probes, LedState
  <2>3. /\ Len(working_normally_st_handler) \in 0..5
        /\ Len(working_normally_st_handler) # 0
    BY SMT DEF working_normally_st_handler
  <2>4. \A c \in 1..Len(working_normally_st_handler) :
          /\ Len(working_normally_st_handler[c].when) \in 1..2
          /\ Len(working_normally_st_handler[c].when) = 2 =>
               working_normally_st_handler[c].when[1][1] # working_normally_st_handler[c].when[2][1]
    BY SMT DEF working_normally_st_handler, If, Yes, No
  <2>5. \A c \in 1..Len(working_normally_st_handler) :
          working_normally_st_handler[c].goto = s \/ working_normally_st_handler[c].goto \in Lifecycle!Edges[s]
    BY <1>5, SMT DEF working_normally_st_handler, If, Yes, No, Lifecycle!Edges, Lifecycle!LedState
  <2>6. QED  BY <2>1, <2>2, <2>3, <2>4, <2>5 DEF TableShape
<1>6. CASE s = "2_WAY_VOICE"
  <2>1. get_next_state[s] = two_way_voice_st_handler
    BY <1>6, SMT DEF get_next_state, LedState
  <2>2. two_way_voice_st_handler \in Seq(Clause)
    BY SMT DEF two_way_voice_st_handler, Clause, If, Yes, No, Probes, LedState
  <2>3. /\ Len(two_way_voice_st_handler) \in 0..5
        /\ Len(two_way_voice_st_handler) # 0
    BY SMT DEF two_way_voice_st_handler
  <2>4. \A c \in 1..Len(two_way_voice_st_handler) :
          /\ Len(two_way_voice_st_handler[c].when) \in 1..2
          /\ Len(two_way_voice_st_handler[c].when) = 2 =>
               two_way_voice_st_handler[c].when[1][1] # two_way_voice_st_handler[c].when[2][1]
    BY SMT DEF two_way_voice_st_handler, If, Yes, No
  <2>5. \A c \in 1..Len(two_way_voice_st_handler) :
          two_way_voice_st_handler[c].goto = s \/ two_way_voice_st_handler[c].goto \in Lifecycle!Edges[s]
    BY <1>6, SMT DEF two_way_voice_st_handler, If, Yes, No, Lifecycle!Edges, Lifecycle!LedState
  <2>6. QED  BY <2>1, <2>2, <2>3, <2>4, <2>5 DEF TableShape
<1>7. CASE s \in {"INCORRECT_XW", "FACTORY_DOWNLOAD_MODE"}
  <2>1. get_next_state[s] = <<>>
    BY <1>7, SMT DEF get_next_state, LedState
  <2>2. QED  BY <2>1, SMT DEF TableShape
<1>8. QED
  BY <1>1, <1>2, <1>3, <1>4, <1>5, <1>6, <1>7 DEF LedState

-----------------------------------------------------------------------------
(* The inductive invariant.                                                *)

InHandler == pc \in {"check", "portal"}
Returned  == pc \in {"sleep", "poll", "set_state", "set_xw"} \cup DOMAIN TrapCycle

\* A running handler is at a call of its own table.
Position ==
  InHandler => /\ cur_state \in LedState /\ next_state = cur_state
               /\ clause \in 1..Len(Handler) /\ lit \in 1..Len(Conds)
               /\ pc = "portal" => Call[1] = "connected"

\* The first call of the condition under evaluation went the way the second one
\* needs.
Observed == InHandler /\ lit = 2 => saw[Conds[1][1]] = Conds[1][2]

\* What the conditions already passed over leave behind.
Passed ==
  InHandler => /\ cur_state = "READY_TO_PAIR" /\ clause > 1 => saw["bt"] = "no"
               /\ cur_state = "BOOT_UP" /\ clause > 2 => saw["booting"] = "no"

\* A handler that chose another state did so in a clause all of whose calls went
\* its way.
Reason(c) ==
  /\ Handler[c].goto = next_state
  /\ \A k \in 1..Len(Handler[c].when) : saw[Handler[c].when[k][1]] = Handler[c].when[k][2]
Reasons ==
  Returned /\ cur_state \in LedState /\ next_state # cur_state =>
     \E c \in 1..Len(Handler) : Reason(c)

\* Which state main() is about, at each point of its loop.
Route ==
  /\ cur_state = UNKNOWN => next_state = "BOOT_UP"
  /\ pc = "set_xw" => next_state \notin {"BOOT_UP", "INCORRECT_XW"}
  /\ InTrap => next_state = "INCORRECT_XW"

IInv == /\ TypeOK /\ DispatchInRange /\ Position /\ Observed /\ Passed
        /\ Reasons /\ ProvisioningRules /\ Route

\* What the two tables behind ProvisioningRules say about the calls whose
\* answers it relies on.
LEMMA PairingTable ==
  /\ Len(get_next_state["READY_TO_PAIR"]) = 4
  /\ \A c \in 1..4 :
       LET d == get_next_state["READY_TO_PAIR"][c]
       IN  /\ c = 1 => d.when = <<<<"bt", "yes">>>>
           /\ c > 1 => /\ d.when[1][1] # "bt"
                       /\ Len(d.when) = 2 => d.when[2][1] # "bt"
           /\ d.goto # "READY_TO_PAIR" =>
                /\ c > 1
                /\ Len(d.when) = 2
                /\ d.when[1] = <<"not_onboard", "no">> \/ d.when[2] = <<"not_onboard", "no">>
<1>1. get_next_state["READY_TO_PAIR"] = ready_to_pair_st_handler
  BY SMT DEF get_next_state, LedState
<1>2. QED
  BY <1>1, SMT DEF ready_to_pair_st_handler, If, Yes, No

\* The same for the boot handler and the end of the boot.
LEMMA BootTable ==
  /\ Len(get_next_state["BOOT_UP"]) = 5
  /\ \A c \in 1..5 :
       LET d == get_next_state["BOOT_UP"][c]
       IN  /\ c = 2 => d.when = <<<<"booting", "yes">>>>
           /\ c > 2 => /\ d.when[1][1] # "booting"
                       /\ Len(d.when) = 2 => d.when[2][1] # "booting"
           /\ d.goto \in {"WORKING_NORMALLY", "TROUBLE_CONNECTING"} =>
                /\ c > 2
                /\ Len(d.when) = 2
                /\ d.when[1] = <<"not_provisioned", "no">> \/ d.when[2] = <<"not_provisioned", "no">>
<1>1. get_next_state["BOOT_UP"] = bootup_st_handler
  BY SMT DEF get_next_state, LedState
<1>2. QED
  BY <1>1, SMT DEF bootup_st_handler, If, Yes, No

-----------------------------------------------------------------------------
(* A call answers.                                                         *)

\* What a step that moves within a handler, or returns from it, must give.
HandlerInv ==
  /\ pc \in {"check", "sleep"} /\ next_state \in LedState
  /\ clause \in 1..5 /\ lit \in 1..2 /\ saw \in [Probes -> {"unseen", "yes", "no"}]
  /\ DispatchInRange /\ Position /\ Observed /\ Passed
  /\ Reasons /\ ProvisioningRules /\ Route

\* One answer, of whatever call, keeps the handler on its table and its reasons
\* recorded: the step shared by the four actions that answer a call.
LEMMA AnswerKeeps ==
  ASSUME IInv, InHandler, NEW a \in {"yes", "no"}, Answered(a), UNCHANGED cur_state
  PROVE  HandlerInv'
<1> DEFINE m == Len(Handler)
           n == Len(Conds)
<1>1. /\ cur_state \in LedState /\ next_state = cur_state
      /\ clause \in 1..m /\ lit \in 1..n
      /\ Handler' = Handler
  BY DEF IInv, Position, Handler
<1>2. TableShape(cur_state, Handler)
  BY <1>1, HandlerShape DEF Handler
<1>3. /\ m \in 0..5 /\ n \in 1..2
      /\ n = 2 => Conds[1][1] # Conds[2][1]
  BY <1>1, <1>2 DEF TableShape, Conds
<1>4. /\ Handler \in Seq(Clause) /\ Handler[clause] \in Clause
      /\ Conds \in Seq(Probes \X {"yes", "no"})
      /\ Handler[clause].goto \in LedState
      /\ Call \in Probes \X {"yes", "no"}
  <2>1. Handler \in Seq(Clause)
    BY <1>2 DEF TableShape
  <2>2. Handler[clause] \in Clause
    BY <1>1, <2>1
  <2>3. /\ Conds \in Seq(Probes \X {"yes", "no"})
        /\ Handler[clause].goto \in LedState
    BY <2>2 DEF Clause, Conds
  <2>4. QED  BY <1>1, <2>1, <2>2, <2>3 DEF Call
<1>5. /\ m = Len(Handler) /\ n = Len(Conds)
  OBVIOUS
<1>6. Call[1] \in Probes /\ Call[2] \in {"yes", "no"}
  BY <1>4
<1>7. /\ saw' = [saw EXCEPT ![Call[1]] = a]
      /\ saw \in [Probes -> {"unseen", "yes", "no"}]
  BY DEF Answered, IInv, TypeOK
<1>8. /\ saw' \in [Probes -> {"unseen", "yes", "no"}]
      /\ saw'[Call[1]] = a
      /\ \A p \in Probes : p # Call[1] => saw'[p] = saw[p]
  BY <1>6, <1>7
<1> HIDE DEF m, n
<1>9. /\ clause \in 1..5 /\ m \in 1..5
      /\ lit = 1 \/ (lit = 2 /\ n = 2)
  BY <1>1, <1>3
<1>10. ASSUME cur_state = "READY_TO_PAIR"
       PROVE  /\ clause = 1 => Conds = <<<<"bt", "yes">>>>
              /\ clause > 1 => Call[1] # "bt"
              /\ Handler[clause].goto # "READY_TO_PAIR" =>
                   /\ clause > 1 /\ n = 2
                   /\ Conds[1] = <<"not_onboard", "no">> \/ Conds[2] = <<"not_onboard", "no">>
  <2>1. Handler = get_next_state["READY_TO_PAIR"]
    BY <1>10 DEF Handler
  <2>2. clause \in 1..Len(get_next_state["READY_TO_PAIR"])
    BY <1>1, <1>5, <2>1
  <2>3. /\ clause = 1 => Conds = <<<<"bt", "yes">>>>
        /\ clause > 1 => /\ Conds[1][1] # "bt"
                         /\ n = 2 => Conds[2][1] # "bt"
        /\ Handler[clause].goto # "READY_TO_PAIR" =>
             /\ clause > 1 /\ n = 2
             /\ Conds[1] = <<"not_onboard", "no">> \/ Conds[2] = <<"not_onboard", "no">>
    BY <1>5, <2>1, <2>2, PairingTable DEF Conds
  <2>4. QED  BY <1>9, <2>3 DEF Call
<1>11. ASSUME cur_state = "BOOT_UP"
       PROVE  /\ clause = 2 => Conds = <<<<"booting", "yes">>>>
              /\ clause > 2 => Call[1] # "booting"
              /\ Handler[clause].goto \in {"WORKING_NORMALLY", "TROUBLE_CONNECTING"} =>
                   /\ clause > 2 /\ n = 2
                   /\ Conds[1] = <<"not_provisioned", "no">> \/ Conds[2] = <<"not_provisioned", "no">>
  <2>1. Handler = get_next_state["BOOT_UP"]
    BY <1>11 DEF Handler
  <2>2. clause \in 1..Len(get_next_state["BOOT_UP"])
    BY <1>1, <1>5, <2>1
  <2>3. /\ clause = 2 => Conds = <<<<"booting", "yes">>>>
        /\ clause > 2 => /\ Conds[1][1] # "booting"
                         /\ n = 2 => Conds[2][1] # "booting"
        /\ Handler[clause].goto \in {"WORKING_NORMALLY", "TROUBLE_CONNECTING"} =>
             /\ clause > 2 /\ n = 2
             /\ Conds[1] = <<"not_provisioned", "no">> \/ Conds[2] = <<"not_provisioned", "no">>
    BY <1>5, <2>1, <2>2, BootTable DEF Conds
  <2>4. QED  BY <1>9, <2>3 DEF Call
<1>12. CASE a = Call[2] /\ lit < n
  <2>1. /\ lit = 1 /\ lit' = 2 /\ pc' = "check" /\ n = 2
        /\ UNCHANGED <<clause, next_state, cur_state>>
    BY <1>3, <1>5, <1>9, <1>12 DEF Answered
  <2>2. Conds' = Conds
    BY <1>1, <2>1 DEF Conds
  <2>3. DispatchInRange' /\ Route' /\ Reasons' /\ ProvisioningRules'
    BY <1>1, <2>1 DEF DispatchInRange, Route, Reasons, ProvisioningRules,
       Returned, InTrap, TrapCycle, Leaving, UNKNOWN, LedState
  <2>4. Position'
    <3>1. clause \in 1..m /\ 2 \in 1..n
      BY <1>1, <2>1
    <3>2. QED  BY <1>1, <1>5, <2>1, <2>2, <3>1 DEF Position, InHandler
  <2>5. Observed'
    BY <1>8, <1>12, <2>1, <2>2 DEF Observed, Call
  <2>6. Passed'
    <3>1. CASE cur_state = "READY_TO_PAIR"
      <4>1. clause > 1 => saw["bt"] = "no" /\ Call[1] # "bt"
        BY <1>10, <3>1 DEF IInv, Passed
      <4>2. QED  BY <1>8, <2>1, <3>1, <4>1 DEF Passed, Probes
    <3>2. CASE cur_state = "BOOT_UP"
      <4>1. clause > 2 => saw["booting"] = "no" /\ Call[1] # "booting"
        BY <1>11, <3>2 DEF IInv, Passed
      <4>2. QED  BY <1>8, <2>1, <3>2, <4>1 DEF Passed, Probes
    <3>3. QED  BY <2>1, <3>1, <3>2 DEF Passed
  <2>7. QED
    BY <1>1, <1>8, <1>9, <2>1, <2>3, <2>4, <2>5, <2>6 DEF HandlerInv
<1>13. CASE a = Call[2] /\ ~(lit < n)
  <2>1. /\ pc' = "sleep" /\ next_state' = Handler[clause].goto
        /\ clause' = 1 /\ lit' = 1 /\ cur_state' = cur_state
    BY <1>5, <1>13 DEF Answered, Return
  <2>2. \A k \in 1..n : saw'[Conds[k][1]] = Conds[k][2]
    <3>1. saw'[Conds[lit][1]] = Conds[lit][2]
      BY <1>8, <1>13 DEF Call
    <3>2. CASE n = 1
      BY <1>9, <3>1, <3>2
    <3>3. CASE n = 2
      <4>1. lit = 2 /\ saw[Conds[1][1]] = Conds[1][2]
        BY <1>9, <1>13, <3>3 DEF IInv, Observed
      <4>2. Conds[1] \in Probes \X {"yes", "no"}
        <5>1. 1 \in 1..n
          BY <3>3
        <5>2. QED  BY <1>4, <1>5, <5>1
      <4>3. saw'[Conds[1][1]] = saw[Conds[1][1]]
        BY <1>3, <1>8, <3>3, <4>1, <4>2 DEF Call
      <4>4. QED  BY <3>1, <3>3, <4>1, <4>3
    <3>4. QED  BY <1>3, <3>2, <3>3
  <2>3. Reasons'
    <3>1. PICK c : c = clause
      OBVIOUS
    <3>2. Reason(c)'
      BY <1>1, <1>5, <2>1, <2>2, <3>1 DEF Reason, Conds
    <3>3. QED  BY <1>1, <1>5, <2>1, <3>1, <3>2 DEF Reasons
  <2>4. ProvisioningRules'
    <3>1. CASE cur_state = "READY_TO_PAIR"
      <4>1. ASSUME Handler[clause].goto # "READY_TO_PAIR"
            PROVE  saw'["not_onboard"] = "no" /\ saw'["bt"] = "no"
        BY <1>8, <1>10, <2>2, <3>1, <4>1 DEF IInv, Passed, Probes
      <4>2. QED  BY <2>1, <3>1, <4>1 DEF ProvisioningRules, Leaving
    <3>2. CASE cur_state = "BOOT_UP"
      <4>1. ASSUME Handler[clause].goto \in {"WORKING_NORMALLY", "TROUBLE_CONNECTING"}
            PROVE  saw'["not_provisioned"] = "no" /\ saw'["booting"] = "no"
        BY <1>8, <1>11, <2>2, <3>2, <4>1 DEF IInv, Passed, Probes
      <4>2. QED  BY <2>1, <3>2, <4>1 DEF ProvisioningRules, Leaving
    <3>3. QED  BY <2>1, <3>1, <3>2 DEF ProvisioningRules, Leaving
  <2>5. DispatchInRange' /\ Position' /\ Observed' /\ Passed' /\ Route'
    BY <1>1, <2>1 DEF DispatchInRange, Position, Observed, Passed, Route, InHandler,
       InTrap, TrapCycle, LedState, UNKNOWN
  <2>6. QED
    BY <1>4, <1>8, <2>1, <2>3, <2>4, <2>5 DEF HandlerInv
<1>14. CASE a # Call[2] /\ clause < m
  <2>1. /\ pc' = "check" /\ clause' = clause + 1 /\ lit' = 1
        /\ UNCHANGED <<next_state, cur_state>>
    BY <1>5, <1>14 DEF Answered
  <2>2. clause' \in 1..m
    BY <1>1, <1>3, <1>14, <2>1
  <2>3. Position'
    <3>1. Len(Handler[clause'].when) \in 1..2
      BY <1>2, <1>5, <2>2 DEF TableShape
    <3>2. Conds' = Handler[clause'].when
      BY <1>1 DEF Conds
    <3>3. PICK q : q = Len(Conds')
      OBVIOUS
    <3>4. 1 \in 1..q
      <4>1. q \in 1..2
        BY <3>1, <3>2, <3>3
      <4>2. QED  BY <4>1
    <3>5. QED  BY <1>1, <1>5, <2>1, <2>2, <3>3, <3>4 DEF Position, InHandler
  <2>4. Passed'
    <3>1. CASE cur_state = "READY_TO_PAIR"
      <4>1. clause' > 1 => saw'["bt"] = "no"
        <5>1. CASE clause = 1
          <6>1. Conds = <<<<"bt", "yes">>>>
            BY <1>10, <3>1, <5>1
          <6>2. n = 1
            BY <1>5, <6>1
          <6>3. Call = <<"bt", "yes">>
            BY <1>9, <6>1, <6>2 DEF Call
          <6>4. QED  BY <1>8, <1>14, <6>3
        <5>2. CASE clause > 1
          BY <1>8, <1>10, <3>1, <5>2 DEF IInv, Passed, Probes
        <5>3. QED  BY <1>9, <5>1, <5>2
      <4>2. QED  BY <2>1, <3>1, <4>1 DEF Passed
    <3>2. CASE cur_state = "BOOT_UP"
      <4>1. clause' > 2 => saw'["booting"] = "no"
        <5>1. CASE clause = 2
          <6>1. Conds = <<<<"booting", "yes">>>>
            BY <1>11, <3>2, <5>1
          <6>2. n = 1
            BY <1>5, <6>1
          <6>3. Call = <<"booting", "yes">>
            BY <1>9, <6>1, <6>2 DEF Call
          <6>4. QED  BY <1>8, <1>14, <6>3
        <5>2. CASE clause > 2
          BY <1>8, <1>11, <3>2, <5>2 DEF IInv, Passed, Probes
        <5>3. QED  BY <1>9, <2>1, <5>1, <5>2
      <4>2. QED  BY <2>1, <3>2, <4>1 DEF Passed
    <3>3. QED  BY <2>1, <3>1, <3>2 DEF Passed
  <2>5. DispatchInRange' /\ Observed' /\ Reasons' /\ ProvisioningRules' /\ Route'
    BY <1>1, <2>1 DEF DispatchInRange, Observed, Reasons, ProvisioningRules, Route,
       Returned, Leaving, InTrap, TrapCycle, LedState, UNKNOWN
  <2>6. clause' \in 1..5
    BY <1>3, <2>2
  <2>7. QED
    BY <1>1, <1>8, <2>1, <2>3, <2>4, <2>5, <2>6 DEF HandlerInv
<1>15. CASE a # Call[2] /\ ~(clause < m)
  <2>1. /\ pc' = "sleep" /\ next_state' = cur_state
        /\ clause' = 1 /\ lit' = 1 /\ cur_state' = cur_state
    BY <1>5, <1>15 DEF Answered, Return
  <2>2. /\ DispatchInRange' /\ Position' /\ Observed' /\ Passed' /\ Route'
        /\ Reasons' /\ ProvisioningRules'
    BY <1>1, <2>1 DEF DispatchInRange, Position, Observed, Passed, Route, InHandler,
       Reasons, ProvisioningRules, Leaving, InTrap, TrapCycle, LedState, UNKNOWN
  <2>3. QED  BY <1>1, <1>8, <2>1, <2>2 DEF HandlerInv
<1>16. QED  BY <1>12, <1>13, <1>14, <1>15

-----------------------------------------------------------------------------
(* The invariant is inductive.                                             *)

\* The looks the C tables know.
LEMMA LookTypes ==
  /\ \A s \in LedState : Look[s] \in {Look[t] : t \in LedState}
  /\ \A c \in DOMAIN TrapCycle :
       /\ TrapCycle[c] \in DOMAIN TrapCycle
       /\ TrapLook[c] \in {Look["INCORRECT_XW"], <<"SOLID", "RED">>}
<1>1. Look["INCORRECT_XW"] = <<"SOLID", "AMBER">>
  BY DEF Look, LedState
<1>2. QED  BY <1>1 DEF TrapCycle, TrapLook

\* A call to the XW, and where main() goes after the last one of a request.
XwTypeOK ==
  /\ xwPanel \in {Look[s] : s \in LedState} \cup {<<"SOLID", "RED">>, Dark, Mixed}
  /\ xwSent \in 0..5 /\ xwWhole \in BOOLEAN /\ timely \in BOOLEAN

LEMMA XwCallTypes ==
  ASSUME NEW look \in {Look[s] : s \in LedState} \cup {<<"SOLID", "RED">>},
         XwTypeOK, led_xw_setOp(look)
  PROVE  /\ XwTypeOK'
         /\ LastXwCall(look) => xwSent' = 0
         /\ ~LastXwCall(look) => xwSent' = xwSent + 1
<1>1. PICK executed \in Executes :
        /\ xwPanel' \in {xwPanel, look, Mixed}
        /\ \/ LastXwCall(look) /\ xwSent' = 0 /\ xwWhole' = TRUE
           \/ /\ ~LastXwCall(look) /\ xwSent' = xwSent + 1
              /\ xwWhole' = (xwWhole /\ executed)
        /\ UNCHANGED timely
  BY DEF led_xw_setOp
<1>2. XwCalls(look) \in {5, 6}
  BY DEF XwCalls
<1>3. ~LastXwCall(look) => xwSent + 1 \in 0..5
  <2>1. xwSent \in 0..5
    BY DEF XwTypeOK
  <2>2. QED  BY <1>2, <2>1 DEF LastXwCall
<1>4. xwWhole' \in BOOLEAN /\ timely' \in BOOLEAN
  BY <1>1 DEF XwTypeOK
<1>5. QED  BY <1>1, <1>3, <1>4 DEF XwTypeOK

\* The daemon starts as the invariant has it.
LEMMA InitInv == Init => IInv
<1> SUFFICES ASSUME Init PROVE IInv
  OBVIOUS
<1>1. Look["BOOT_UP"] \in {Look[s] : s \in LedState}
  BY LookTypes DEF LedState
<1>2. env.route \in Routers \cup {NoRoute}
  BY EnvAssumption DEF Init, Surroundings
<1>3. TypeOK
  <2>1. saw \in [Probes -> {"unseen", "yes", "no"}]
    BY DEF Init
  <2>2. xw_current_state \in {0, 1} /\ xw_next_state \in {0, 1}
    BY DEF Init, xw_isconnected
  <2>3. /\ panel \in {Look[s] : s \in LedState} \cup {<<"SOLID", "RED">>} \cup Spoilt
        /\ xwPanel \in {Look[s] : s \in LedState} \cup {<<"SOLID", "RED">>, Dark, Mixed}
    BY <1>1 DEF Init
  <2>4. /\ env \in Env /\ gateway \in Routers \cup {NoRoute}
        /\ pc = "poll" /\ cur_state = UNKNOWN /\ next_state \in LedState
        /\ bt_state \in BOOLEAN /\ audio_state \in BOOLEAN
    BY <1>2 DEF Init, LedState
  <2>5. clause \in 1..5 /\ lit \in 1..2 /\ sleep_time \in {1, 15}
    BY DEF Init
  <2>6. xwWhole \in BOOLEAN /\ timely \in BOOLEAN
    BY DEF Init
  <2>7. xwSent \in 0..5 /\ xwSent = 0
    BY DEF Init
  <2>8. QED  BY <2>1, <2>2, <2>3, <2>4, <2>5, <2>6, <2>7 DEF TypeOK
<1>4. DispatchInRange /\ Position /\ Observed /\ Passed /\ Reasons /\ ProvisioningRules /\ Route
  BY DEF Init, DispatchInRange, Position, Observed, Passed, Reasons, ProvisioningRules,
     Route, InHandler, Leaving, InTrap, TrapCycle, UNKNOWN, LedState
<1>5. QED  BY <1>3, <1>4 DEF IInv

\* Every step of the daemon and of its surroundings keeps the invariant.
LEMMA NextInv == IInv /\ [Next]_vars => IInv'
<1> SUFFICES ASSUME IInv, [Next]_vars PROVE IInv'
  OBVIOUS
<1> USE DEF mainVars, netVars, threadVars, evalVars, panels, xwVars
<1>1. ASSUME UNCHANGED <<pc, cur_state, next_state, clause, lit, saw>>
      PROVE  /\ DispatchInRange' /\ Position' /\ Observed' /\ Passed'
             /\ Reasons' /\ ProvisioningRules' /\ Route'
  BY <1>1 DEF IInv, DispatchInRange, Position, Observed, Passed, Reasons, Reason,
     ProvisioningRules, Route, InHandler, Returned, Leaving, InTrap, Handler, Conds, Call
<1>2. CASE Poll
  <2>1. TypeOK'
    BY <1>2 DEF Poll, IInv, TypeOK, xw_isconnected
  <2>2. pc = "poll" /\ pc' \in {"set_state", "dispatch"}
        /\ UNCHANGED <<cur_state, next_state, clause, lit, saw>>
    BY <1>2 DEF Poll
  <2>3. Reasons' /\ ProvisioningRules'
    BY <2>2 DEF IInv, Reasons, Reason, ProvisioningRules, Returned, Leaving, Handler
  <2>4. pc' = "dispatch" => cur_state = next_state
    BY <1>2 DEF Poll, MustSet
  <2>5. DispatchInRange' /\ Position' /\ Observed' /\ Passed' /\ Route'
    BY <2>2, <2>4 DEF IInv, TypeOK, DispatchInRange, Position, Observed, Passed, Route,
       InHandler, InTrap, TrapCycle, UNKNOWN, LedState
  <2>6. QED  BY <2>1, <2>3, <2>5 DEF IInv
<1>3. CASE SetState
  <2>1. /\ pc = "set_state" /\ pc' \in {"dispatch", "set_xw", "amber_xw"}
        /\ UNCHANGED <<next_state, clause, lit, saw>>
    BY <1>3 DEF SetState
  <2>2. /\ next_state = "BOOT_UP" =>
             pc' = "dispatch" /\ cur_state' = next_state /\ UNCHANGED panel
                /\ xw_current_state' = xw_next_state
        /\ next_state # "BOOT_UP" =>
             /\ pc' = IF next_state = "INCORRECT_XW" THEN "amber_xw" ELSE "set_xw"
             /\ UNCHANGED <<cur_state, xw_current_state>>
             /\ panel' \in {Look[next_state]} \cup Spoilt
    BY <1>3 DEF SetState, Adopt, ledmgr_setOp
  <2>3. TypeOK'
    BY <1>3, <2>1, <2>2, LookTypes DEF SetState, IInv, TypeOK, TrapCycle
  <2>4. Reasons' /\ ProvisioningRules'
    BY <2>1, <2>2 DEF IInv, Reasons, Reason, ProvisioningRules, Returned, Leaving, Handler
  <2>5. DispatchInRange' /\ Position' /\ Observed' /\ Passed' /\ Route'
    BY <2>1, <2>2 DEF IInv, DispatchInRange, Position, Observed, Passed, Route,
       InHandler, InTrap, TrapCycle, UNKNOWN, LedState
  <2>6. QED  BY <2>3, <2>4, <2>5 DEF IInv
<1>4. CASE SetXw
  <2>1. /\ pc = "set_xw" /\ UNCHANGED <<next_state, clause, lit, saw>>
        /\ led_xw_setOp(Look[next_state])
        /\ LastXwCall(Look[next_state]) => pc' = "dispatch" /\ Adopt
        /\ ~LastXwCall(Look[next_state]) =>
             UNCHANGED <<pc, cur_state, xw_current_state>>
    BY <1>4 DEF SetXw
  <2>2. XwTypeOK' /\ (xwSent' # 0 => pc' = "set_xw")
    <3>1. next_state \in LedState /\ XwTypeOK
      BY DEF IInv, TypeOK, XwTypeOK
    <3>2. Look[next_state] \in {Look[s] : s \in LedState} \cup {<<"SOLID", "RED">>}
      BY <3>1
    <3>3. QED  BY <2>1, <3>1, <3>2, XwCallTypes
  <2>3. TypeOK'
    BY <1>4, <2>1, <2>2 DEF SetXw, Adopt, XwTypeOK, IInv, TypeOK
  <2>4. CASE LastXwCall(Look[next_state])
    <3>1. pc = "set_xw" /\ pc' = "dispatch" /\ cur_state' = next_state
          /\ UNCHANGED <<next_state, clause, lit, saw>>
      BY <2>1, <2>4 DEF Adopt
    <3>2. /\ Reasons' /\ ProvisioningRules' /\ DispatchInRange'
          /\ Position' /\ Observed' /\ Passed' /\ Route'
      BY <3>1 DEF IInv, TypeOK, Reasons, ProvisioningRules, DispatchInRange, Position,
         Observed, Passed, Route, Returned, Leaving, InHandler, InTrap, TrapCycle,
         UNKNOWN, LedState
    <3>3. QED  BY <2>3, <3>2 DEF IInv
  <2>5. CASE ~LastXwCall(Look[next_state])
    BY <1>1, <2>1, <2>3, <2>5 DEF IInv
  <2>6. QED  BY <2>4, <2>5
<1>5. CASE Alternate
  <2>1. /\ pc \in DOMAIN TrapCycle /\ pc' \in DOMAIN TrapCycle
        /\ UNCHANGED <<cur_state, next_state, clause, lit, saw>>
    BY <1>5, LookTypes DEF Alternate, TrapCycle
  <2>2. TypeOK'
    <3>1. TrapLook[pc] \in {Look[s] : s \in LedState} \cup {<<"SOLID", "RED">>}
      BY <2>1, LookTypes DEF LedState
    <3>2. CASE pc \in {"amber_cam", "red_cam"} /\ ledmgr_setOp(TrapLook[pc]) /\ UNCHANGED xwVars
      BY <1>5, <2>1, <3>1, <3>2 DEF Alternate, ledmgr_setOp, IInv, TypeOK
    <3>3. CASE /\ pc \in {"amber_xw", "red_xw"}
               /\ pc' = IF LastXwCall(TrapLook[pc]) THEN TrapCycle[pc] ELSE pc
               /\ led_xw_setOp(TrapLook[pc]) /\ UNCHANGED panel
      <4>1. XwTypeOK
        BY DEF IInv, TypeOK, XwTypeOK
      <4>2. XwTypeOK' /\ (xwSent' # 0 => pc' = pc)
        BY <3>1, <3>3, <4>1, XwCallTypes
      <4>3. QED  BY <1>5, <2>1, <3>3, <4>2 DEF Alternate, IInv, TypeOK, XwTypeOK
    <3>4. QED  BY <1>5, <3>2, <3>3 DEF Alternate
  <2>3. Reasons' /\ ProvisioningRules'
    BY <2>1 DEF IInv, Reasons, Reason, ProvisioningRules, Returned, Leaving, Handler
  <2>4. DispatchInRange' /\ Position' /\ Observed' /\ Passed' /\ Route'
    BY <2>1 DEF IInv, DispatchInRange, Position, Observed, Passed, Route,
       InHandler, InTrap, TrapCycle
  <2>5. QED  BY <2>2, <2>3, <2>4 DEF IInv
<1>6. CASE Dispatch
  <2>1. /\ cur_state \in LedState /\ cur_state = next_state
        /\ UNCHANGED cur_state /\ Handler' = Handler
    BY <1>6 DEF Dispatch, IInv, DispatchInRange, TypeOK, Handler
  <2>2. /\ pc' \in {"check", "sleep"} /\ clause' = 1 /\ lit' = 1
        /\ next_state' = next_state /\ saw' = [p \in Probes |-> "unseen"]
        /\ pc' = "check" => Handler # <<>>
    BY <1>6, <2>1 DEF Dispatch, Return
  <2>3. TypeOK'
    <3>1. saw' \in [Probes -> {"unseen", "yes", "no"}]
      BY <2>2
    <3>2. QED  BY <1>6, <2>1, <2>2, <3>1 DEF Dispatch, IInv, TypeOK
  <2>4. pc' = "check" => clause' \in 1..Len(Handler') /\ lit' \in 1..Len(Conds')
    <3>1. SUFFICES ASSUME Handler # <<>>
                   PROVE  1 \in 1..Len(Handler) /\ 1 \in 1..Len(Handler[1].when)
      BY <2>1, <2>2 DEF Conds
    <3>2. TableShape(cur_state, Handler)
      BY <2>1, HandlerShape DEF Handler
    <3>3. PICK m, n : m = Len(Handler) /\ n = Len(Handler[1].when)
      OBVIOUS
    <3>4. m \in 1..5
      BY <3>1, <3>2, <3>3 DEF TableShape
    <3>5. n \in 1..2
      BY <3>2, <3>3, <3>4 DEF TableShape
    <3>6. QED  BY <3>3, <3>4, <3>5
  <2>5. /\ Reasons' /\ ProvisioningRules' /\ DispatchInRange'
        /\ Position' /\ Observed' /\ Passed' /\ Route'
    BY <2>1, <2>2, <2>4 DEF Reasons, ProvisioningRules, DispatchInRange, Position,
       Observed, Passed, Route, Returned, Leaving, InHandler, InTrap, TrapCycle,
       UNKNOWN, LedState
  <2>6. QED  BY <2>3, <2>5 DEF IInv
<1>7. CASE ReadFact
  <2>1. HandlerInv'
    BY <1>7, AnswerKeeps DEF ReadFact, Answer, InHandler
  <2>2. TypeOK'
    BY <1>7, <2>1 DEF ReadFact, HandlerInv, IInv, TypeOK
  <2>3. QED  BY <2>1, <2>2 DEF HandlerInv, IInv
<1>8. CASE Ping
  <2>1. CASE PingAnswered
    <3>1. HandlerInv'
      BY <1>8, <2>1, AnswerKeeps DEF Ping, InHandler
    <3>2. TypeOK'
      BY <1>8, <2>1, <3>1 DEF Ping, HandlerInv, IInv, TypeOK
    <3>3. QED  BY <3>1, <3>2 DEF HandlerInv, IInv
  <2>2. CASE ~PingAnswered
    <3>1. /\ pc = "check" /\ pc' = "portal" /\ Call[1] = "connected"
          /\ UNCHANGED <<next_state, cur_state, clause, lit, saw>>
      BY <1>8, <2>2 DEF Ping
    <3>2. TypeOK'
      BY <1>8, <2>2, <3>1 DEF Ping, IInv, TypeOK
    <3>3. Handler' = Handler /\ Conds' = Conds /\ Call' = Call
      BY <3>1 DEF Handler, Conds, Call
    <3>4. Position' /\ Observed' /\ Passed' /\ DispatchInRange'
      BY <3>1, <3>3 DEF IInv, Position, Observed, Passed, DispatchInRange, InHandler
    <3>5. Reasons' /\ ProvisioningRules' /\ Route'
      BY <3>1 DEF IInv, Reasons, ProvisioningRules, Route, Returned, Leaving, InTrap, TrapCycle
    <3>6. QED  BY <3>2, <3>4, <3>5 DEF IInv
  <2>3. QED  BY <2>1, <2>2
<1>9. CASE StateFinder
  <2>1. HandlerInv'
    BY <1>9, AnswerKeeps DEF StateFinder, Answer, InHandler
  <2>2. TypeOK'
    BY <1>9, <2>1 DEF StateFinder, HandlerInv, IInv, TypeOK
  <2>3. QED  BY <2>1, <2>2 DEF HandlerInv, IInv
<1>10. CASE FindGateway
  <2>1. HandlerInv'
    BY <1>10, AnswerKeeps DEF FindGateway, InHandler
  <2>2. env.route \in Routers \cup {NoRoute}
    BY EnvAssumption DEF IInv, TypeOK, Surroundings
  <2>3. TypeOK'
    BY <1>10, <2>1, <2>2 DEF FindGateway, HandlerInv, IInv, TypeOK
  <2>4. QED  BY <2>1, <2>3 DEF HandlerInv, IInv
<1>11. CASE WakeUp
  <2>1. /\ pc = "sleep" /\ pc' = "poll"
        /\ UNCHANGED <<cur_state, next_state, clause, lit, saw>>
    BY <1>11 DEF WakeUp
  <2>2. TypeOK'
    BY <1>11 DEF WakeUp, IInv, TypeOK
  <2>3. Reasons' /\ ProvisioningRules'
    BY <2>1 DEF IInv, Reasons, Reason, ProvisioningRules, Returned, Leaving, Handler
  <2>4. DispatchInRange' /\ Position' /\ Observed' /\ Passed' /\ Route'
    BY <2>1 DEF IInv, DispatchInRange, Position, Observed, Passed, Route,
       InHandler, InTrap, TrapCycle
  <2>5. QED  BY <2>2, <2>3, <2>4 DEF IInv
<1>12. CASE onBTActive
  <2>1. TypeOK'
    BY <1>12 DEF onBTActive, IInv, TypeOK
  <2>2. QED  BY <1>1, <1>12, <2>1 DEF onBTActive, IInv
<1>13. CASE onTwoWayAudio
  <2>1. TypeOK'
    BY <1>13 DEF onTwoWayAudio, IInv, TypeOK
  <2>2. QED  BY <1>1, <1>13, <2>1 DEF onTwoWayAudio, IInv
<1>14. CASE EnvStep
  <2>1. env' \in Env
    BY <1>14 DEF EnvStep, Near, Env
  <2>2. TypeOK'
    BY <1>14, <2>1 DEF EnvStep, IInv, TypeOK
  <2>3. QED  BY <1>1, <1>14, <2>2 DEF EnvStep, IInv
<1>15. CASE UNCHANGED vars
  <2>1. TypeOK'
    BY <1>15 DEF vars, IInv, TypeOK
  <2>2. QED  BY <1>1, <1>15, <2>1 DEF vars, IInv
<1>16. QED
  BY <1>2, <1>3, <1>4, <1>5, <1>6, <1>7, <1>8, <1>9, <1>10, <1>11, <1>12, <1>13,
     <1>14, <1>15 DEF Next, Daemon

-----------------------------------------------------------------------------
(* The theorems.                                                           *)

\* The invariant holds in every reachable state.
THEOREM Invariance == Spec => []IInv
<1>1. Init => IInv
  BY InitInv
<1>2. IInv /\ [Next]_vars => IInv'
  BY NextInv
<1>3. QED  BY <1>1, <1>2, PTL DEF Spec

\* Every variable of the daemon keeps its type, for every set of surroundings.
THEOREM TypeCorrect == Spec => []TypeOK
<1>1. IInv => TypeOK
  BY DEF IInv
<1>2. QED  BY <1>1, Invariance, PTL

\* main() never indexes get_next_state[] with LED_MGR_STATE_UNKNOWN, nor with
\* another state than the one it has set.
THEOREM DispatchSafe == Spec => []DispatchInRange
<1>1. IInv => DispatchInRange
  BY DEF IInv
<1>2. QED  BY <1>1, Invariance, PTL

\* Pairing is left, and boot is announced over, only on the provisioning each
\* of them asks for, however the files move during a handler.
THEOREM ProvisioningSafe == Spec => []ProvisioningRules
<1>1. IInv => ProvisioningRules
  BY DEF IInv
<1>2. QED  BY <1>1, Invariance, PTL

\* Clause d asks for answer w of call p.
Asks(d, p, w) == d.when[1] = <<p, w>> \/ (Len(d.when) = 2 /\ d.when[2] = <<p, w>>)

\* What a clause that leads elsewhere asks for, whatever the handler: the fact
\* its state stands for.
LEMMA TableReasons ==
  ASSUME NEW s \in LedState, NEW c \in 1..Len(get_next_state[s]),
         get_next_state[s][c].goto # s
  PROVE  LET d == get_next_state[s][c]
         IN  \/ d.goto = "WORKING_NORMALLY"   /\ Asks(d, "connected", "yes")
             \/ d.goto = "TROUBLE_CONNECTING" /\ Asks(d, "connected", "no")
             \/ d.goto = "2_WAY_VOICE"        /\ Asks(d, "voice", "yes")
             \/ d.goto = "INCORRECT_XW"       /\ Asks(d, "incompatible", "yes")
             \/ /\ d.goto = "READY_TO_PAIR"
                /\ Asks(d, "bt", "yes") \/ Asks(d, "pairing", "yes")
<1> USE DEF If, Yes, No, Asks
<1>1. CASE s = "BOOT_UP"
  <2>1. get_next_state[s] = bootup_st_handler
    BY <1>1, SMT DEF get_next_state, LedState
  <2>2. QED  BY <1>1, <2>1, SMT DEF bootup_st_handler
<1>2. CASE s = "READY_TO_PAIR"
  <2>1. get_next_state[s] = ready_to_pair_st_handler
    BY <1>2, SMT DEF get_next_state, LedState
  <2>2. QED  BY <1>2, <2>1, SMT DEF ready_to_pair_st_handler
<1>3. CASE s = "NOT_PROVISIONED"
  <2>1. get_next_state[s] = not_provisioned_st_handler
    BY <1>3, SMT DEF get_next_state, LedState
  <2>2. QED  BY <1>3, <2>1, SMT DEF not_provisioned_st_handler
<1>4. CASE s = "TROUBLE_CONNECTING"
  <2>1. get_next_state[s] = trouble_connect_st_handler
    BY <1>4, SMT DEF get_next_state, LedState
  <2>2. QED  BY <1>4, <2>1, SMT DEF trouble_connect_st_handler
<1>5. CASE s = "WORKING_NORMALLY"
  <2>1. get_next_state[s] = working_normally_st_handler
    BY <1>5, SMT DEF get_next_state, LedState
  <2>2. QED  BY <1>5, <2>1, SMT DEF working_normally_st_handler
<1>6. CASE s = "2_WAY_VOICE"
  <2>1. get_next_state[s] = two_way_voice_st_handler
    BY <1>6, SMT DEF get_next_state, LedState
  <2>2. QED  BY <1>6, <2>1, SMT DEF two_way_voice_st_handler
<1>7. CASE s \in {"INCORRECT_XW", "FACTORY_DOWNLOAD_MODE"}
  <2>1. get_next_state[s] = <<>>
    BY <1>7, SMT DEF get_next_state, LedState
  <2>2. QED  BY <2>1, SMT
<1>8. QED
  BY <1>1, <1>2, <1>3, <1>4, <1>5, <1>6, <1>7 DEF LedState

\* Every state the daemon announces rests on what its handler saw in that
\* evaluation, for every interleaving of the surroundings with it.
THEOREM DecisionsSafe == Spec => []DecisionJustified
<1>1. IInv => DecisionJustified
  <2> SUFFICES ASSUME IInv, NEW s \in LedState, Leaving(s)
               PROVE  CASE next_state = "WORKING_NORMALLY"   -> saw["connected"] = "yes"
                        [] next_state = "TROUBLE_CONNECTING" -> saw["connected"] = "no"
                        [] next_state = "2_WAY_VOICE"        -> saw["voice"] = "yes"
                        [] next_state = "INCORRECT_XW"       -> saw["incompatible"] = "yes"
                        [] next_state = "READY_TO_PAIR"      ->
                             saw["bt"] = "yes" \/ saw["pairing"] = "yes"
                        [] OTHER                             -> FALSE
    BY DEF DecisionJustified
  <2>1. /\ cur_state = s /\ next_state # s
        /\ Handler = get_next_state[s]
    BY DEF Leaving, Handler
  <2>2. PICK c \in 1..Len(get_next_state[s]) : Reason(c)
    BY <2>1 DEF IInv, Reasons, Returned, Leaving
  <2> DEFINE d == get_next_state[s][c]
  <2>3. /\ d.goto = next_state /\ Len(d.when) \in 1..2
        /\ \A k \in 1..Len(d.when) : saw[d.when[k][1]] = d.when[k][2]
    BY <2>1, <2>2, HandlerShape DEF Reason, TableShape
  <2>4. \A p, w : Asks(d, p, w) => saw[p] = w
    <3>1. PICK n : n = Len(d.when)
      OBVIOUS
    <3>2. n \in 1..2 /\ \A k \in 1..n : saw[d.when[k][1]] = d.when[k][2]
      BY <2>3, <3>1
    <3>3. 1 \in 1..n /\ (n = 2 => 2 \in 1..n)
      BY <3>2
    <3>4. QED  BY <3>1, <3>2, <3>3 DEF Asks
  <2>5. QED
    BY <2>1, <2>3, <2>4, TableReasons
<1>2. QED  BY <1>1, Invariance, PTL

-----------------------------------------------------------------------------
(* The daemon implements its life cycle.                                   *)

\* The look of the C tables is one the life cycle gives the state.
LEMMA LookIsTold ==
  /\ \A s \in LedState : Look[s] \in Lifecycle!Looks[s]
  /\ \A c \in DOMAIN TrapCycle : TrapLook[c] \in Lifecycle!Looks["INCORRECT_XW"]
  /\ LedState = Lifecycle!LedState
BY DEF Look, LedState, TrapLook, TrapCycle, Lifecycle!Looks, Lifecycle!LedState

\* Each step of the daemon is a step of the life cycle or leaves it alone.
LEMMA StoryStep == IInv /\ [Next]_vars => [Lifecycle!Next]_Lifecycle!lifecycleVars
<1> SUFFICES ASSUME IInv, [Next]_vars
             PROVE  \/ Lifecycle!Next
                    \/ Announced' = Announced /\ panel' = panel
  BY DEF Lifecycle!lifecycleVars
<1> USE DEF mainVars, netVars, threadVars, evalVars, panels, xwVars
<1>1. ASSUME UNCHANGED <<cur_state, next_state, panel>>,
             pc' # "set_xw" /\ pc # "set_xw" /\ ~InTrap /\ ~InTrap'
      PROVE  Announced' = Announced /\ panel' = panel
  BY <1>1 DEF Announced
<1>2. ASSUME UNCHANGED <<pc, cur_state, next_state, panel>>
      PROVE  Announced' = Announced /\ panel' = panel
  BY <1>2 DEF Announced, InTrap
<1>3. CASE Poll
  BY <1>1, <1>3 DEF Poll, InTrap, TrapCycle
<1>4. CASE SetState
  <2>1. pc = "set_state" /\ next_state \in LedState /\ UNCHANGED next_state
    BY <1>4 DEF SetState, IInv, TypeOK
  <2>2. CASE next_state = "BOOT_UP"
    <3>1. /\ pc' = "dispatch" /\ UNCHANGED panel /\ cur_state' = next_state
      BY <1>4, <2>2 DEF SetState, Adopt
    <3>2. cur_state = UNKNOWN \/ cur_state = "BOOT_UP"
      <4>1. CASE cur_state \in LedState /\ cur_state # "BOOT_UP"
        <5>1. PICK c \in 1..Len(Handler) : Reason(c)
          BY <2>1, <2>2, <4>1 DEF IInv, Reasons, Returned
        <5>2. Handler[c].goto = "BOOT_UP" /\ TableShape(cur_state, Handler)
          BY <2>2, <4>1, <5>1, HandlerShape DEF Reason, Handler
        <5>3. "BOOT_UP" \in Lifecycle!Edges[cur_state]
          BY <4>1, <5>1, <5>2 DEF TableShape
        <5>4. QED  BY <4>1, <5>3, SMT DEF Lifecycle!Edges, Lifecycle!LedState, LedState
      <4>2. QED  BY <4>1 DEF IInv, TypeOK
    <3>3. QED  BY <2>1, <2>2, <3>1, <3>2 DEF Announced, InTrap, TrapCycle, UNKNOWN
  <2>3. CASE next_state # "BOOT_UP"
    <3>1. /\ pc' = IF next_state = "INCORRECT_XW" THEN "amber_xw" ELSE "set_xw"
          /\ UNCHANGED cur_state
          /\ panel' \in {Look[next_state]} \cup Spoilt
      BY <1>4, <2>3 DEF SetState, ledmgr_setOp
    <3>2. Announced' = next_state /\ Lifecycle!Told(next_state)
      BY <2>1, <3>1, LookIsTold DEF Announced, InTrap, TrapCycle, Lifecycle!Told
    <3>3. cur_state \in LedState /\ Announced = cur_state
      BY <2>1, <2>3 DEF Announced, InTrap, TrapCycle, IInv, TypeOK, Route, UNKNOWN, LedState
    <3>4. CASE next_state = cur_state
      BY <3>2, <3>3, <3>4 DEF Lifecycle!Next, Lifecycle!Refresh
    <3>5. CASE next_state # cur_state
      <4>1. PICK c \in 1..Len(Handler) : Reason(c)
        BY <2>1, <3>3, <3>5 DEF IInv, Reasons, Returned
      <4>2. next_state \in Lifecycle!Edges[cur_state]
        BY <3>3, <3>5, <4>1, HandlerShape DEF Reason, Handler, TableShape
      <4>3. Lifecycle!Enter(next_state)
        BY <3>2, <3>3, <4>2 DEF Lifecycle!Enter
      <4>4. QED  BY <2>1, <4>3, LookIsTold DEF Lifecycle!Next
    <3>6. QED  BY <3>4, <3>5
  <2>4. QED  BY <2>2, <2>3
<1>5. CASE SetXw
  <2>1. CASE LastXwCall(Look[next_state])
    BY <1>5, <2>1 DEF SetXw, Adopt, Announced, InTrap, TrapCycle, IInv, TypeOK,
       UNKNOWN, LedState
  <2>2. CASE ~LastXwCall(Look[next_state])
    BY <1>2, <1>5, <2>2 DEF SetXw
  <2>3. QED  BY <2>1, <2>2
<1>6. CASE Alternate
  <2>1. Announced = "INCORRECT_XW" /\ Announced' = "INCORRECT_XW"
    BY <1>6, LookTypes DEF Alternate, Announced, InTrap, TrapCycle
  <2>2. \/ panel' \in {TrapLook[pc]} \cup Spoilt
        \/ UNCHANGED panel
    BY <1>6 DEF Alternate, ledmgr_setOp
  <2>3. Lifecycle!Told("INCORRECT_XW") \/ UNCHANGED panel
    BY <1>6, <2>2, LookIsTold DEF Alternate, TrapCycle, Lifecycle!Told
  <2>4. QED  BY <2>1, <2>3 DEF Lifecycle!Next, Lifecycle!Refresh
<1>7. CASE Dispatch
  <2>1. next_state' = cur_state \/ UNCHANGED next_state
    BY <1>7 DEF Dispatch, Return
  <2>2. QED  BY <1>7, <2>1 DEF Dispatch, Return, Announced, InTrap, TrapCycle
<1>8. ASSUME Answered("yes") \/ Answered("no"), InHandler, UNCHANGED <<cur_state, panel>>
      PROVE  Announced' = Announced /\ panel' = panel
  <2>1. pc' \in {"check", "sleep"}
    BY <1>8, AnswerKeeps DEF HandlerInv
  <2>2. QED  BY <1>8, <2>1 DEF Announced, InTrap, TrapCycle, InHandler
<1>9. CASE ReadFact
  BY <1>8, <1>9 DEF ReadFact, Answer, InHandler
<1>10. CASE Ping
  <2>1. CASE PingAnswered
    BY <1>8, <1>10, <2>1 DEF Ping, InHandler
  <2>2. CASE ~PingAnswered
    BY <1>1, <1>10, <2>2 DEF Ping, InTrap, TrapCycle
  <2>3. QED  BY <2>1, <2>2
<1>11. CASE StateFinder
  BY <1>8, <1>11 DEF StateFinder, Answer, InHandler
<1>12. CASE FindGateway
  BY <1>8, <1>12 DEF FindGateway, InHandler
<1>13. CASE WakeUp
  BY <1>1, <1>13 DEF WakeUp, InTrap, TrapCycle
<1>14. CASE onBTActive \/ onTwoWayAudio \/ EnvStep \/ UNCHANGED vars
  BY <1>2, <1>14 DEF onBTActive, onTwoWayAudio, EnvStep, vars
<1>15. QED
  BY <1>3, <1>4, <1>5, <1>6, <1>7, <1>9, <1>10, <1>11, <1>12, <1>13, <1>14
     DEF Next, Daemon

\* What the panel is told follows the graph of the life cycle, whatever a failing
\* driver makes of it, and a request of which nothing was lost in the driver
\* leaves the look of the state reached: where Spoilt is {}, the panel shows no
\* other.
THEOREM StoryHolds == Spec => Story
<1>1. Init => Lifecycle!Init
  BY LookIsTold DEF Init, Lifecycle!Init, Announced, InTrap, TrapCycle, LedState
<1>2. IInv /\ [Next]_vars => [Lifecycle!Next]_Lifecycle!lifecycleVars
  BY StoryStep
<1>3. QED  BY <1>1, <1>2, Invariance, PTL DEF Spec, Story, Lifecycle!Spec
-----------------------------------------------------------------------------
(* Why the daemon goes on polling, on which all its liveness rests: but    *)
(* for the loop of an incompatible XW, main() goes round in few steps.     *)

\* A bound on the steps to the next sleep: two for each call a handler may still
\* make (a ping and its backup), one for each call to the XW and each stage of
\* the loop before it.
CallsAhead == 6 * (5 - clause) + 2 * (2 - lit)
ToSleep == CASE pc = "poll"      -> 37
             [] pc = "set_state" -> 36
             [] pc = "set_xw"    -> 35 - xwSent
             [] pc = "dispatch"  -> 29
             [] pc = "check"     -> CallsAhead + 2
             [] pc = "portal"    -> CallsAhead + 1
             [] OTHER            -> 0

\* Whatever is found on the way, and whatever moves meanwhile, each step of the
\* daemon brings it nearer to its sleep, and no message and no change of the
\* surroundings takes it farther away.
NearerToSleep ==
  /\ ToSleep \in 0..37 /\ (ToSleep = 0 <=> pc = "sleep" \/ InTrap)
  /\ Daemon /\ ToSleep # 0 => ToSleep' < ToSleep
  /\ onBTActive \/ onTwoWayAudio \/ EnvStep => ToSleep' = ToSleep

\* A call that is answered, or backed up, leaves fewer to make.
LEMMA AnswerIsNearer ==
  ASSUME TypeOK, TypeOK', pc \in {"check", "portal"}, NEW a, Answered(a)
  PROVE  ToSleep' < ToSleep
<1>1. clause \in 1..5 /\ lit \in 1..2 /\ clause' \in 1..5 /\ lit' \in 1..2
  BY DEF TypeOK
<1>2. \/ pc' = "check" /\ clause' = clause /\ lit' = lit + 1
      \/ pc' = "check" /\ clause' = clause + 1 /\ lit' = 1
      \/ pc' = "sleep"
  BY DEF Answered, Return
<1> QED
  BY <1>1, <1>2 DEF ToSleep, CallsAhead

\* The steps of the loop, one by one.
LEMMA LoopIsShort == IInv /\ IInv' /\ [Next]_vars => [NearerToSleep]_vars
<1> SUFFICES ASSUME IInv, IInv', Next PROVE NearerToSleep
  OBVIOUS
<1>1. TypeOK /\ TypeOK'
  BY DEF IInv
<1>2. /\ clause \in 1..5 /\ lit \in 1..2
      /\ pc \in {"poll", "set_state", "set_xw", "dispatch", "check", "portal",
                 "sleep"} \cup DOMAIN TrapCycle
      /\ DOMAIN TrapCycle = {"amber_cam", "amber_xw", "red_cam", "red_xw"}
  BY <1>1, LookTypes DEF TypeOK, TrapCycle
<1>7. xwSent \in 0..5 /\ xwSent' \in 0..5
  BY <1>1 DEF TypeOK
<1>3. ToSleep \in 0..37 /\ (ToSleep = 0 <=> pc = "sleep" \/ InTrap)
  BY <1>2, <1>7 DEF ToSleep, CallsAhead, InTrap
<1>4. ASSUME Daemon, ToSleep # 0 PROVE ToSleep' < ToSleep
  <2>1. CASE Poll
    BY <2>1 DEF Poll, ToSleep
  <2>2. CASE SetState
    <3>1. xwSent' = 0
      BY <1>1, <2>2 DEF SetState, xwVars, TypeOK
    <3>2. QED  BY <2>2, <3>1 DEF SetState, ToSleep
  <2>3. CASE SetXw
    <3>1. CASE LastXwCall(Look[next_state])
      BY <1>7, <2>3, <3>1 DEF SetXw, ToSleep
    <3>2. CASE ~LastXwCall(Look[next_state])
      <4>1. pc = "set_xw" /\ pc' = "set_xw" /\ xwSent' = xwSent + 1
        BY <2>3, <3>2 DEF SetXw, led_xw_setOp
      <4>2. QED  BY <1>7, <4>1 DEF ToSleep
    <3>3. QED  BY <3>1, <3>2
  <2>4. CASE Alternate
    BY <1>3, <1>4, <2>4 DEF Alternate, InTrap, TrapCycle
  <2>5. CASE Dispatch
    <3>1. /\ pc = "dispatch"
          /\ \/ pc' = "sleep"
             \/ pc' = "check" /\ clause' = 1 /\ lit' = 1
      BY <2>5 DEF Dispatch, Return
    <3> QED
      BY <3>1 DEF ToSleep, CallsAhead
  <2>6. CASE ReadFact \/ StateFinder \/ FindGateway
    BY <1>1, <2>6, AnswerIsNearer DEF ReadFact, StateFinder, FindGateway
  <2>7. CASE Ping
    <3>1. CASE PingAnswered
      BY <1>1, <2>7, <3>1, AnswerIsNearer DEF Ping
    <3>2. CASE ~PingAnswered
      <4>1. pc = "check" /\ pc' = "portal" /\ clause' = clause /\ lit' = lit
        BY <2>7, <3>2 DEF Ping, evalVars
      <4> QED
        BY <1>2, <4>1 DEF ToSleep, CallsAhead
    <3> QED
      BY <3>1, <3>2
  <2>8. CASE WakeUp
    BY <1>4, <2>8 DEF WakeUp, ToSleep
  <2> QED
    BY <1>4, <2>1, <2>2, <2>3, <2>4, <2>5, <2>6, <2>7, <2>8 DEF Daemon
<1>5. ASSUME onBTActive \/ onTwoWayAudio \/ EnvStep PROVE ToSleep' = ToSleep
  <2>1. UNCHANGED <<pc, clause, lit, xwSent>>
    BY <1>5 DEF onBTActive, onTwoWayAudio, EnvStep, evalVars, panels, xwVars
  <2> QED
    BY <2>1 DEF ToSleep, CallsAhead
<1> QED
  BY <1>3, <1>4, <1>5 DEF NearerToSleep

\* From anywhere outside the loop of an incompatible XW, main() sleeps within 37
\* steps, for any surroundings and however they change: no handler runs for
\* ever, and no answer keeps the daemon from polling again.
THEOREM LoopsShortly == Spec => [][NearerToSleep]_vars
BY LoopIsShort, Invariance, PTL DEF Spec
=============================================================================
