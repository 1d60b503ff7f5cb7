----------------------------- MODULE LedMgrMain -----------------------------
(***************************************************************************)
(* The daemon of ledmgrmain.c: the loop of main() with the state handlers  *)
(* it dispatches to, the rtMessage thread that writes bt_state and         *)
(* audio_state under its feet, and the camera's surroundings (marker       *)
(* files, router, XW) that change between any two reads of a handler.      *)
(*                                                                         *)
(* A handler is a list of clauses, each a conjunction of calls in C        *)
(* evaluation order; one step evaluates one call, so that everything else  *)
(* may move between two calls of the same condition.                       *)
(***************************************************************************)
EXTENDS Naturals, Sequences, FiniteSets

CONSTANTS
  Routers,      \* default gateways the camera can be given
  NoRoute,      \* getDefaultGateway() found none (NULL)
  Worlds,       \* the surroundings explored: subsets of Surroundings, of
                \* which the camera stays in one
  Spoilt        \* looks the camera's panel may be left with by a request of
                \* which some HAL call failed: {} where none fails

(***************************************************************************)
(* The surroundings: /tmp/.incorrect_hardware, /tmp/.bootup_complete, one  *)
(* of the two pairing files, who provisioned the camera (nobody, the       *)
(* administrator name of system.conf, the on-board marker files), the      *)
(* default route, whether its router answers pings, whether stateFinder()  *)
(* finds a way out, and the XW behind the broker: answering "connected",   *)
(* answering "not connected", or not answering at all.                     *)
(***************************************************************************)
Surroundings ==
  [incorrect_hardware : BOOLEAN, bootup_complete : BOOLEAN, pairing : BOOLEAN,
   prov : {"none", "admin", "onboard"}, route : Routers \cup {NoRoute},
   lan : BOOLEAN, internet : BOOLEAN, xw : {"up", "down", "silent"}]

Env == UNION Worlds

ASSUME EnvAssumption ==
  /\ NoRoute \notin Routers
  /\ Env # {} /\ Env \subseteq Surroundings

\* One file appears, one cable is pulled: the surroundings change one fact at
\* a time. A world may tie facts together by leaving states out.
Near(e) ==
  LET Changed == {[e EXCEPT ![f] = ~@] : f \in DOMAIN e \ {"prov", "route", "xw"}}
            \cup {[e EXCEPT !.prov = v] : v \in {"none", "admin", "onboard"} \ {e.prov}}
            \cup {[e EXCEPT !.route = v] : v \in (Routers \cup {NoRoute}) \ {e.route}}
            \cup {[e EXCEPT !.xw = v] : v \in {"up", "down", "silent"} \ {e.xw}}
  IN UNION {W \cap Changed : W \in {V \in Worlds : e \in V}}

VARIABLES
  env,               \* the surroundings
  pc,                \* where main() is
  cur_state, next_state, xw_current_state, xw_next_state,   \* locals of main
  sleep_time, gateway,                                      \* globals
  bt_state, audio_state,        \* globals written by the rtMessage thread
  clause, lit,       \* the condition the running handler is evaluating
  saw,               \* history: last answer to each call in this evaluation
  panel,             \* the look of the camera's front panel
  xwPanel,           \* the look of the XW's
  xwSent,            \* calls made of the request to the XW that is under way
  xwWhole,           \* history: has the XW executed them all?
  timely             \* history: has it stayed up since it was there for the
                     \* next poll of a main() that knew it as gone?

netVars    == <<sleep_time, gateway>>
threadVars == <<bt_state, audio_state>>
mainVars   == <<cur_state, xw_current_state, xw_next_state>>
xwVars     == <<xwPanel, xwSent, xwWhole, timely>>
panels     == <<panel, xwVars>>
evalVars   == <<clause, lit, saw>>
vars == <<env, pc, next_state, mainVars, netVars, threadVars, evalVars, panels>>

LedState == {"BOOT_UP", "INCORRECT_XW", "READY_TO_PAIR", "NOT_PROVISIONED",
             "TROUBLE_CONNECTING", "WORKING_NORMALLY", "2_WAY_VOICE",
             "FACTORY_DOWNLOAD_MODE"}
UNKNOWN == "UNKNOWN"

-----------------------------------------------------------------------------
(* The state handlers.                                                     *)

Yes(p) == <<p, "yes">>
No(p)  == <<p, "no">>
If(conds, s) == [when |-> conds, goto |-> s]

\* Mutant: a camera that still boots is said to be in no state.
BootsIntoUnknown == <<
  If(<<Yes("incompatible")>>,                       "INCORRECT_XW"),
  If(<<Yes("booting")>>,                            UNKNOWN)>>

bootup_st_handler == <<
  If(<<Yes("incompatible")>>,                       "INCORRECT_XW"),
  If(<<Yes("booting")>>,                            "BOOT_UP"),
  If(<<Yes("pairing"), Yes("not_provisioned")>>,    "READY_TO_PAIR"),
  If(<<No("not_provisioned"), No("connected")>>,    "TROUBLE_CONNECTING"),
  If(<<Yes("connected"), No("not_provisioned")>>,   "WORKING_NORMALLY")>>

\* Mutant: pairing ends on the administrator's name, as booting does.
PairingEndsOnName == <<
  If(<<Yes("bt")>>,                                 "READY_TO_PAIR"),
  If(<<Yes("pairing"), Yes("not_provisioned")>>,    "READY_TO_PAIR"),
  If(<<No("not_provisioned"), No("connected")>>,    "TROUBLE_CONNECTING"),
  If(<<Yes("connected"), No("not_provisioned")>>,   "WORKING_NORMALLY")>>

ready_to_pair_st_handler == <<
  If(<<Yes("bt")>>,                                 "READY_TO_PAIR"),
  If(<<Yes("pairing"), Yes("not_onboard")>>,        "READY_TO_PAIR"),
  If(<<No("not_onboard"), No("connected")>>,        "TROUBLE_CONNECTING"),
  If(<<Yes("connected"), No("not_onboard")>>,       "WORKING_NORMALLY")>>

not_provisioned_st_handler == <<
  If(<<Yes("pairing")>>,                            "READY_TO_PAIR"),
  If(<<Yes("connected"), Yes("not_provisioned")>>,  "NOT_PROVISIONED"),
  If(<<Yes("connected"), No("not_provisioned")>>,   "WORKING_NORMALLY"),
  If(<<No("connected")>>,                           "TROUBLE_CONNECTING")>>

trouble_connect_st_handler == <<
  If(<<Yes("bt")>>,                                 "READY_TO_PAIR"),
  If(<<Yes("connected")>>,                          "WORKING_NORMALLY")>>

\* Mutant: the connection is not asked for before trouble is announced.
TroubleUnseen == <<
  If(<<Yes("bt")>>,                                 "READY_TO_PAIR"),
  If(<<No("voice")>>,                               "TROUBLE_CONNECTING"),
  If(<<Yes("voice")>>,                              "2_WAY_VOICE")>>

working_normally_st_handler == <<
  If(<<Yes("bt")>>,                                 "READY_TO_PAIR"),
  If(<<No("connected"), No("voice")>>,              "TROUBLE_CONNECTING"),
  If(<<Yes("voice")>>,                              "2_WAY_VOICE")>>

\* Mutants: Bluetooth interrupts a voice call; a call ends because the camera is
\* connected; a call hides that it is not.
BluetoothInterrupts == <<If(<<Yes("bt")>>, "READY_TO_PAIR")>>
CallEndsAnyway == <<If(<<Yes("connected")>>, "WORKING_NORMALLY")>>
CallHidesTrouble == <<If(<<Yes("connected"), No("voice")>>, "WORKING_NORMALLY")>>

two_way_voice_st_handler == <<
  If(<<Yes("connected"), No("voice")>>,             "WORKING_NORMALLY"),
  If(<<No("not_provisioned"), No("connected")>>,    "TROUBLE_CONNECTING")>>

\* The dispatch table. Two handlers return their own state at once, and there
\* is no entry for UNKNOWN.
get_next_state == [s \in LedState |->
  CASE s = "BOOT_UP"            -> bootup_st_handler
    [] s = "READY_TO_PAIR"      -> ready_to_pair_st_handler
    [] s = "NOT_PROVISIONED"    -> not_provisioned_st_handler
    [] s = "TROUBLE_CONNECTING" -> trouble_connect_st_handler
    [] s = "WORKING_NORMALLY"   -> working_normally_st_handler
    [] s = "2_WAY_VOICE"        -> two_way_voice_st_handler
    [] OTHER                    -> <<>>]

Probes == {"incompatible", "booting", "pairing", "not_provisioned",
           "not_onboard", "bt", "voice", "connected"}

\* The answer of every call but is_camera_connected: a read of a file or of a
\* global, at the instant it is made.
Holds(p) ==
  CASE p = "incompatible"    -> env.incorrect_hardware
    [] p = "booting"         -> ~env.bootup_complete
    [] p = "pairing"         -> env.pairing
    [] p = "not_provisioned" -> env.prov = "none"
    [] p = "not_onboard"     -> env.prov # "onboard"
    [] p = "bt"              -> bt_state
    [] OTHER                 -> audio_state

Answer(b) == IF b THEN "yes" ELSE "no"

Handler == get_next_state[cur_state]
Conds   == Handler[clause].when
Call    == Conds[lit]

\* The running handler returns s.
Return(s) == next_state' = s /\ pc' = "sleep" /\ clause' = 1 /\ lit' = 1

\* The current call answered a: short-circuit evaluation of the condition, the
\* next "else if" when it is false, the state of its branch when it is true. A
\* handler that runs out of conditions returns the state it handles.
Answered(a) ==
  /\ saw' = [saw EXCEPT ![Call[1]] = a]
  /\ IF a = Call[2]
     THEN IF lit < Len(Conds)
          THEN lit' = lit + 1 /\ pc' = "check" /\ UNCHANGED <<clause, next_state>>
          ELSE Return(Handler[clause].goto)
     ELSE IF clause < Len(Handler)
          THEN /\ clause' = clause + 1 /\ lit' = 1 /\ pc' = "check"
               /\ UNCHANGED next_state
          ELSE Return(cur_state)

-----------------------------------------------------------------------------
(* The looks.                                                              *)

Dark  == <<"DARK", "NONE">>
Mixed == <<"MIXED", "MIXED">>      \* of several requests, or of part of one

Look == [s \in LedState |->
   CASE s = "READY_TO_PAIR"         -> <<"BLINK", "WHITE">>
     [] s = "NOT_PROVISIONED"       -> <<"BLINK", "AMBER">>
     [] s = "TROUBLE_CONNECTING"    -> <<"BLINK", "AMBER">>
     [] s = "WORKING_NORMALLY"      -> <<"SOLID", "BLUE">>
     [] s = "2_WAY_VOICE"           -> <<"BLINK", "BLUE">>
     [] s = "FACTORY_DOWNLOAD_MODE" -> <<"BLINK", "GREEN">>
     [] s = "INCORRECT_XW"          -> <<"SOLID", "AMBER">>
     [] OTHER                       -> <<"BOOT", "WHITE">>]

\* ledmgr_setOp on the camera's panel. Each result of its HAL calls is ignored:
\* where one fails, the others still go on to change the look.
ledmgr_setOp(look) == panel' \in {look} \cup Spoilt

\* The remote calls of led_xw_setOp: init, reset, brightness, colour, blink
\* unless the light is solid, apply.
XwCalls(look) == IF look[1] = "SOLID" THEN 5 ELSE 6

LastXwCall(look) == xwSent + 1 >= XwCalls(look)

\* Does the XW execute a call made now? One that does not answer may all the same.
Executes == CASE env.xw = "up"   -> {TRUE}
              [] env.xw = "down" -> {FALSE}
              [] OTHER           -> BOOLEAN

\* led_xw_setOp: its next call. Each may be lost alone, results are ignored, and
\* only of calls that were all executed is the look known.
led_xw_setOp(look) ==
  \E executed \in Executes :
    /\ xwPanel' = CASE ~executed                       -> xwPanel
                    [] LastXwCall(look) /\ xwWhole     -> look
                    [] OTHER                           -> Mixed
    /\ IF LastXwCall(look)
       THEN xwSent' = 0 /\ xwWhole' = TRUE
       ELSE xwSent' = xwSent + 1 /\ xwWhole' = (xwWhole /\ executed)
    /\ UNCHANGED timely

\* xw_isconnected: its result stays 1 when the remote call fails.
xw_isconnected(e) == IF e.xw = "down" THEN 0 ELSE 1

-----------------------------------------------------------------------------
(* main().                                                                 *)

Init ==
  /\ env \in Env
  /\ gateway = env.route                            \* getDefaultGateway()
  /\ xw_current_state = xw_isconnected(env) /\ xw_next_state = 0
  /\ cur_state = UNKNOWN /\ next_state = "BOOT_UP"
  /\ sleep_time = 1
  /\ bt_state = FALSE /\ audio_state = FALSE
  /\ pc = "poll" /\ clause = 1 /\ lit = 1
  /\ saw = [p \in Probes |-> "unseen"]
  /\ panel = Look["BOOT_UP"]
  /\ xwPanel = Dark /\ xwSent = 0 /\ xwWhole = TRUE /\ timely = FALSE

\* Mutants: only the XW, or only the state, makes setState run.
OnlyForXw(xw) == xw_current_state # xw
OnlyForState(xw) == next_state # cur_state

\* ledmgr_setState is called for a new state, and again when the XW came or
\* went.
MustSet(xw) == next_state # cur_state \/ xw_current_state # xw

\* The head of the loop: is the XW there, and is there anything to set?
Poll ==
  /\ pc = "poll"
  /\ xw_next_state' = xw_isconnected(env)
  /\ pc' = IF MustSet(xw_isconnected(env)) THEN "set_state" ELSE "dispatch"
  /\ UNCHANGED <<env, cur_state, next_state, xw_current_state, netVars,
                 threadVars, evalVars, panels>>

\* main() takes over the state it has set and the XW answer it acted on.
Adopt == cur_state' = next_state /\ xw_current_state' = xw_next_state

\* ledmgr_setState, camera part. BOOT_UP only logs, and returns. The loop for
\* an incompatible XW has no way out.
SetState ==
  /\ pc = "set_state"
  /\ IF next_state = "BOOT_UP"
     THEN Adopt /\ pc' = "dispatch" /\ UNCHANGED panel
     ELSE /\ ledmgr_setOp(Look[next_state])
          /\ pc' = IF next_state = "INCORRECT_XW" THEN "amber_xw" ELSE "set_xw"
          /\ UNCHANGED <<cur_state, xw_current_state>>
  /\ UNCHANGED <<env, next_state, xw_next_state, netVars, threadVars, evalVars,
                 xwVars>>

\* ledmgr_setState, XW part, call by call, and the return to main().
SetXw ==
  /\ pc = "set_xw"
  /\ led_xw_setOp(Look[next_state])
  /\ IF LastXwCall(Look[next_state])
     THEN Adopt /\ pc' = "dispatch"
     ELSE UNCHANGED <<pc, cur_state, xw_current_state>>
  /\ UNCHANGED <<env, next_state, xw_next_state, netVars, threadVars, evalVars,
                 panel>>

\* ledmgr_setState for an incompatible XW, from its first XW call on: amber and
\* red in turn, for ever.
TrapCycle == [amber_cam |-> "amber_xw", amber_xw |-> "red_cam",
              red_cam |-> "red_xw", red_xw |-> "amber_cam"]
TrapLook == [amber_cam |-> <<"SOLID", "AMBER">>, amber_xw |-> <<"SOLID", "AMBER">>,
             red_cam |-> <<"SOLID", "RED">>, red_xw |-> <<"SOLID", "RED">>]

Alternate ==
  /\ \/ /\ pc \in {"amber_cam", "red_cam"} /\ pc' = TrapCycle[pc]
        /\ ledmgr_setOp(TrapLook[pc]) /\ UNCHANGED xwVars
     \/ /\ pc \in {"amber_xw", "red_xw"}
        /\ pc' = IF LastXwCall(TrapLook[pc]) THEN TrapCycle[pc] ELSE pc
        /\ led_xw_setOp(TrapLook[pc]) /\ UNCHANGED panel
  /\ UNCHANGED <<env, next_state, mainVars, netVars, threadVars, evalVars>>

\* next_state = (*get_next_state[cur_state])(): enter the handler.
Dispatch ==
  /\ pc = "dispatch"
  /\ saw' = [p \in Probes |-> "unseen"]
  /\ IF Handler = <<>> THEN Return(cur_state)
     ELSE pc' = "check" /\ clause' = 1 /\ lit' = 1 /\ UNCHANGED next_state
  /\ UNCHANGED <<env, mainVars, netVars, threadVars, panels>>

\* A call that reads a marker file or a global.
ReadFact ==
  /\ pc = "check" /\ Call[1] # "connected"
  /\ Answered(Answer(Holds(Call[1])))
  /\ UNCHANGED <<env, mainVars, netVars, threadVars, panels>>

PingAnswered == env.lan /\ env.route = gateway

\* is_camera_connected with a gateway: ping it, and adapt the sleep.
Ping ==
  /\ pc = "check" /\ Call[1] = "connected" /\ gateway # NoRoute
  /\ IF PingAnswered
     THEN sleep_time' = 1 /\ Answered("yes")
     ELSE /\ sleep_time' = 15 /\ pc' = "portal"
          /\ UNCHANGED <<next_state, evalVars>>
  /\ UNCHANGED <<env, mainVars, gateway, threadVars, panels>>

\* The backup after a lost ping: stateFinder() asks whether the network leads
\* anywhere.
StateFinder ==
  /\ pc = "portal"
  /\ Answered(Answer(env.internet))
  /\ UNCHANGED <<env, mainVars, netVars, threadVars, panels>>

\* Mutant: a missing gateway is never looked for again.
GatewayForgotten ==
  /\ pc = "check" /\ Call[1] = "connected" /\ gateway = NoRoute
  /\ Answered("no")
  /\ UNCHANGED <<env, mainVars, netVars, threadVars, panels>>

\* is_camera_connected without a gateway: look for one, and say "no" this time.
FindGateway ==
  /\ pc = "check" /\ Call[1] = "connected" /\ gateway = NoRoute
  /\ gateway' = env.route
  /\ Answered("no")
  /\ UNCHANGED <<env, mainVars, sleep_time, threadVars, panels>>

\* sleep(sleep_time) ends.
WakeUp ==
  /\ pc = "sleep" /\ pc' = "poll"
  /\ UNCHANGED <<env, next_state, mainVars, netVars, threadVars, evalVars, panels>>

Daemon ==
  \/ Poll \/ SetState \/ SetXw \/ Alternate \/ Dispatch
  \/ ReadFact \/ Ping \/ StateFinder \/ FindGateway \/ WakeUp

-----------------------------------------------------------------------------
(* The rtMessage thread and the surroundings.                              *)

onBTActive ==
  /\ bt_state' \in BOOLEAN
  /\ UNCHANGED <<env, pc, next_state, mainVars, netVars, audio_state, evalVars, panels>>

onTwoWayAudio ==
  /\ audio_state' \in BOOLEAN
  /\ UNCHANGED <<env, pc, next_state, mainVars, netVars, bt_state, evalVars, panels>>

\* ledmgr_setState is under way, or due on what the poll has seen.
Setting == pc \in {"set_state", "set_xw"} \cup DOMAIN TrapCycle

\* The surroundings change one fact. An XW that goes down loses its look, and
\* what it has executed of a request.
EnvStep ==
  /\ env' \in Near(env)
  /\ xwPanel' = IF env'.xw = "down" THEN Dark ELSE xwPanel
  /\ xwWhole' = (xwWhole /\ (env'.xw = "down" => xwSent = 0))
  /\ timely' = /\ env'.xw = "up"
               /\ timely \/ (env.xw # "up" /\ xw_current_state = 0 /\ ~Setting)
  /\ UNCHANGED <<pc, next_state, mainVars, netVars, threadVars, evalVars, panel, xwSent>>

Next == Daemon \/ onBTActive \/ onTwoWayAudio \/ EnvStep

Spec == Init /\ [][Next]_vars

\* The daemon is a process the kernel schedules, and nothing it waits for is
\* unbounded: ping -W, the 2000 ms of an RPC, sleep. Messages and surroundings
\* owe nothing.
FairSpec == Spec /\ WF_vars(Daemon)

-----------------------------------------------------------------------------
(* Correctness.                                                            *)

InTrap == pc \in DOMAIN TrapCycle

\* Type correctness: every variable stays in the set the C declarations and
\* the enumerations of ledmgr.h give it.
TypeOK ==
  /\ env \in Env
  /\ pc \in {"poll", "set_state", "set_xw", "dispatch", "check", "portal",
             "sleep"} \cup DOMAIN TrapCycle
  /\ cur_state \in LedState \cup {UNKNOWN} /\ next_state \in LedState
  /\ xw_current_state \in {0, 1} /\ xw_next_state \in {0, 1}
  /\ sleep_time \in {1, 15} /\ gateway \in Routers \cup {NoRoute}
  /\ bt_state \in BOOLEAN /\ audio_state \in BOOLEAN
  /\ clause \in 1..5 /\ lit \in 1..2
  /\ saw \in [Probes -> {"unseen", "yes", "no"}]
  /\ panel \in {Look[s] : s \in LedState} \cup {<<"SOLID", "RED">>} \cup Spoilt
  /\ xwPanel \in {Look[s] : s \in LedState} \cup {<<"SOLID", "RED">>, Dark, Mixed}
  /\ xwSent \in 0..5 /\ xwWhole \in BOOLEAN /\ timely \in BOOLEAN
  /\ xwSent # 0 => pc \in {"set_xw", "amber_xw", "red_xw"}

\* The dispatch table has no entry for LED_MGR_STATE_UNKNOWN, the value
\* cur_state starts with: the handler called is always that of the state that
\* was last set, and main() never indexes the table with a state it has not.
DispatchInRange ==
  pc \in {"dispatch", "check", "portal"} =>
     cur_state # UNKNOWN /\ cur_state = next_state

\* A handler has returned another state than the one it handles.
Leaving(s) ==
  /\ pc \in {"sleep", "poll", "set_state", "set_xw"} \cup DOMAIN TrapCycle
  /\ cur_state = s /\ next_state # s

\* A change of state rests on what its handler saw, in this evaluation and not
\* in an earlier one: whatever moved between two calls of a condition, or
\* between the conditions of an "else if" chain, the state chosen agrees with
\* the last answer of each fact it stands for.
DecisionJustified ==
  \A s \in LedState : Leaving(s) =>
    CASE next_state = "WORKING_NORMALLY"   -> saw["connected"] = "yes"
      [] next_state = "TROUBLE_CONNECTING" -> saw["connected"] = "no"
      [] next_state = "2_WAY_VOICE"        -> saw["voice"] = "yes"
      [] next_state = "INCORRECT_XW"       -> saw["incompatible"] = "yes"
      [] next_state = "READY_TO_PAIR"      -> saw["bt"] = "yes" \/ saw["pairing"] = "yes"
      [] OTHER                             -> FALSE

\* The camera does not leave pairing on the strength of system.conf: only the
\* on-board marker files count once READY_TO_PAIR is reached, and Bluetooth
\* must have been seen idle. The boot handler, by contrast, counts the
\* administrator's name as provisioning before it announces any network state.
ProvisioningRules ==
  /\ Leaving("READY_TO_PAIR") => saw["not_onboard"] = "no" /\ saw["bt"] = "no"
  /\ Leaving("BOOT_UP") /\ next_state \in {"WORKING_NORMALLY", "TROUBLE_CONNECTING"} =>
       saw["not_provisioned"] = "no" /\ saw["booting"] = "no"

\* Liveness: once nothing changes around it any more, the daemon comes to rest
\* in one state: no set of inputs makes two handlers pass the camera to each
\* other for ever.
Settles ==
  <>[][UNCHANGED <<env, bt_state, audio_state>>]_vars
    => \E s \in LedState : <>[](cur_state = s)

\* Booted, with the right XW and nobody pairing or talking.
Quiet == /\ env.bootup_complete /\ ~env.incorrect_hardware
         /\ ~bt_state /\ ~audio_state

\* Liveness: a quiet provisioned camera whose network leads somewhere ends up
\* working normally, whatever happened before, a gateway that is not known yet
\* or no longer the right one included.
WorkingWhenOnline ==
  <>[](Quiet /\ env.prov = "onboard" /\ env.internet /\ env.route # NoRoute)
    => <>[](cur_state = "WORKING_NORMALLY" \/ InTrap)

\* The comment in is_camera_connected: the camera's status is determined by a
\* ping of its gateway. So a camera that stays on one gateway, which answers
\* pings, ends up working.
GatewayDecides ==
  (\E r \in Routers :
     <>[](Quiet /\ env.prov = "onboard" /\ env.lan /\ env.route = r))
    => <>[](cur_state = "WORKING_NORMALLY" \/ InTrap)

\* Liveness: cut off from everything it ends up in trouble, also when a voice
\* call is going on, and asks the gateway it knows, if any, every 15 s only.
\* (A call that starts and stops between the two reads of audio_state in
\* working_normally_st_handler, every time, would hide it.)
TroubleWhenCutOff ==
  (/\ <>[](/\ env.bootup_complete /\ ~env.incorrect_hardware /\ ~bt_state
           /\ env.prov = "onboard" /\ ~env.internet /\ ~env.lan)
   /\ <>[]audio_state \/ <>[]~audio_state)
    => <>[](\/ /\ cur_state = "TROUBLE_CONNECTING"
               /\ gateway # NoRoute => sleep_time = 15
            \/ InTrap)

\* While it is not being told another, the XW shows what the camera has announced.
XwInStep ==
  xwSent = 0 /\ cur_state \in LedState \ {"BOOT_UP"} => xwPanel = Look[cur_state]

\* Liveness: an XW that comes up before main() polls again, that main() last
\* knew as gone, and that stays, catches up with the camera: the request that is
\* due is made, and from then on each one reaches it whole. (One that comes up
\* after the poll, in the middle of a request, executes the rest of it and may
\* be left with a mixed look.)
XwCatchesUp ==
  <>[](env.xw = "up" /\ timely) => <>[](XwInStep \/ InTrap)

\* What main() has announced: setState is under way for next_state once the
\* camera's panel is done.
Announced ==
  IF InTrap THEN "INCORRECT_XW"
  ELSE IF pc = "set_xw" THEN next_state
  ELSE IF cur_state = UNKNOWN THEN "BOOT_UP" ELSE cur_state

\* The daemon implements the life cycle: the panel's story follows its graph,
\* whatever the driver does, and a request of which no HAL call failed leaves
\* the look of the state announced.
Lifecycle == INSTANCE LedLifecycle WITH st <- Announced, shown <- panel
Story == Lifecycle!Spec
=============================================================================
