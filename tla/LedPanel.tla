------------------------------ MODULE LedPanel ------------------------------
(***************************************************************************)
(* What ledmgr_setOp promises to the threads of one process, on a panel    *)
(* that led_applySettings has written when it returns, an LP5562: requests *)
(* are carried out one at a time, and when one is done the LED shows what  *)
(* it asked for. Meanwhile the LED may show part of it. A request made     *)
(* while another is carried out is refused and leaves no trace.            *)
(***************************************************************************)

CONSTANTS
  Requests,       \* what can be asked for: a look, or Off
  Off,            \* LED_MGR_OP_NO_LIGHT: action only
  OffAction,      \* the action of a dark LED
  Default,        \* the colour and brightness led_init gives a new LED
  NoRequest

VARIABLES
  want,    \* the request being carried out, or NoRequest
  shown    \* the look of the LED: current, pwm, action

panelVars == <<want, shown>>

\* What request r makes of part f of a look. Off asks for no colour and no
\* brightness: they stay, or are the default ones if led_init came first.
Target(r, f) == IF r # Off           THEN {r[f]}
                ELSE IF f = "action" THEN {OffAction}
                ELSE {shown[f], Default}

Accept(r) == want = NoRequest /\ want' = r /\ UNCHANGED shown

\* Every part of the look is still the old one, or already the new one.
Paint == /\ want # NoRequest /\ UNCHANGED want
         /\ DOMAIN shown' = DOMAIN shown
         /\ \A f \in DOMAIN shown' : shown'[f] \in {shown[f]} \cup Target(want, f)

Done == /\ want # NoRequest /\ want' = NoRequest
        /\ \A f \in DOMAIN shown : shown[f] \in Target(want, f)
        /\ UNCHANGED shown

Next == (\E r \in Requests : Accept(r)) \/ Paint \/ Done

\* From any look: the boot loader's.
Spec == want = NoRequest /\ [][Next]_panelVars
=============================================================================
