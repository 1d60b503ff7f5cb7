---------------------------- MODULE MCLedMgrMain ----------------------------
(***************************************************************************)
(* Small surroundings for the daemon. Each set leaves out the facts that   *)
(* its run does not need, so that the ones it needs can move freely.       *)
(***************************************************************************)
EXTENDS LedMgrMain

CONSTANTS r1, r2

Facts == [incorrect_hardware : BOOLEAN, bootup_complete : BOOLEAN,
          pairing : BOOLEAN, prov : {"none", "admin", "onboard"},
          route : {r1, r2, NoRoute}, lan : BOOLEAN, internet : BOOLEAN,
          xw : {"up", "down", "silent"}]

\* Everything about the camera moves, a first route included; the XW is there.
\* A router that is not there does not answer, and only a booted camera gets
\* through to the internet.
CameraEnv == {e \in Facts : /\ e.route # r2 /\ e.xw = "up"
                            /\ (e.lan => e.route = r1)
                            /\ (e.incorrect_hardware => ~e.internet)
                            /\ (e.internet => e.bootup_complete /\ e.route = r1)}

\* Every fact that decides a state, with two routers and one that answers pings
\* only from the route the camera is on; the XW stays. Once provisioned the
\* camera may be given the other router, with a way out behind each.
SettleEnv == {e \in Facts : /\ e.xw = "up" /\ ~e.incorrect_hardware
                            /\ (e.lan \/ e.internet => e.route # NoRoute)
                            /\ (e.route = r2 => e.prov = "onboard")}

\* The XW comes and goes, or stops answering, while a camera boots and gains or
\* loses its network.
XwEnv == {e \in Facts : /\ e.route = r2 /\ ~e.incorrect_hardware
                        /\ ~e.internet /\ ~e.pairing /\ e.prov = "admin"}

\* Two routers and no way out but them; a provisioned camera, compatible XW.
RoamEnv == {e \in Facts : /\ e.xw = "up" /\ ~e.incorrect_hardware /\ ~e.pairing
                          /\ e.prov = "onboard" /\ ~e.internet}

\* Settling, and beside it the coming and going of the XW.
RestWorlds  == {SettleEnv, XwEnv}
CameraWorld == {CameraEnv}
RoamWorld   == {RoamEnv}

\* What may come of a request in part: the blink of one state in the colour of
\* the reset, or the colour of another with the blink lost.
LostParts == {<<"BLINK", "DEFAULT">>, <<"SOLID", "GREEN">>}
Nothing   == {}
=============================================================================
