---------------------------- MODULE LedLifecycle ----------------------------
(***************************************************************************)
(* What the LED manager promises to somebody who looks at the camera: the  *)
(* front panel is told a story that follows a fixed graph of states, and,  *)
(* but for requests the driver has spoilt, it shows the look of the state  *)
(* the story has reached.                                                  *)
(*                                                                         *)
(* The graph is the one the handlers of get_next_state[] can produce       *)
(* (ledmgrmain.c:118-127, 223-359), written down once, without the order   *)
(* of their tests, their probes or the scheduling of the daemon.           *)
(***************************************************************************)

CONSTANT Spoilt    \* what a panel may be left with by a request of which some
                   \* part was lost in the driver: {} if nothing ever is

VARIABLES st,      \* the state the story is in
          shown    \* the look of the camera's front panel

lifecycleVars == <<st, shown>>

LedState == {"BOOT_UP", "INCORRECT_XW", "READY_TO_PAIR", "NOT_PROVISIONED",
             "TROUBLE_CONNECTING", "WORKING_NORMALLY", "2_WAY_VOICE",
             "FACTORY_DOWNLOAD_MODE"}

\* The looks ledmgr_setState gives a state: an operation and a colour. Booting
\* keeps the look of the boot loader; an incompatible XW alternates two.
Looks == [s \in LedState |->
   CASE s = "BOOT_UP"               -> {<<"BOOT", "WHITE">>}
     [] s = "INCORRECT_XW"          -> {<<"SOLID", "AMBER">>, <<"SOLID", "RED">>}
     [] s = "READY_TO_PAIR"         -> {<<"BLINK", "WHITE">>}
     [] s = "NOT_PROVISIONED"       -> {<<"BLINK", "AMBER">>}
     [] s = "TROUBLE_CONNECTING"    -> {<<"BLINK", "AMBER">>}
     [] s = "WORKING_NORMALLY"      -> {<<"SOLID", "BLUE">>}
     [] s = "2_WAY_VOICE"           -> {<<"BLINK", "BLUE">>}
     [] OTHER                       -> {<<"BLINK", "GREEN">>}]

\* Where the story may go from each state, other than staying there. Nothing
\* leads to NOT_PROVISIONED or FACTORY_DOWNLOAD_MODE.
Edges == [s \in LedState |->
   CASE s = "BOOT_UP"            -> {"INCORRECT_XW", "READY_TO_PAIR",
                                     "TROUBLE_CONNECTING", "WORKING_NORMALLY"}
     [] s = "READY_TO_PAIR"      -> {"TROUBLE_CONNECTING", "WORKING_NORMALLY"}
     [] s = "NOT_PROVISIONED"    -> {"READY_TO_PAIR", "TROUBLE_CONNECTING",
                                     "WORKING_NORMALLY"}
     [] s = "TROUBLE_CONNECTING" -> {"READY_TO_PAIR", "WORKING_NORMALLY"}
     [] s = "WORKING_NORMALLY"   -> {"READY_TO_PAIR", "TROUBLE_CONNECTING",
                                     "2_WAY_VOICE"}
     [] s = "2_WAY_VOICE"        -> {"WORKING_NORMALLY", "TROUBLE_CONNECTING"}
     [] OTHER                    -> {}]

\* The look a panel has after it was told to show state s.
Told(s) == shown' \in Looks[s] \cup Spoilt

Init == st = "BOOT_UP" /\ shown \in Looks["BOOT_UP"]

Enter(s) == s \in Edges[st] /\ st' = s /\ Told(s)

Refresh == UNCHANGED st /\ Told(st)

Next == Refresh \/ \E s \in LedState : Enter(s)

Spec == Init /\ [][Next]_lifecycleVars
=============================================================================
