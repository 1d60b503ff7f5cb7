-------------------------------- MODULE XwLink --------------------------------
(***************************************************************************)
(* A request for the XW: led_xw_setOp of ledmgr.c, the remote calls of     *)
(* ledmgr_rtmsg.c it is made of, and the XW that executes them. A call     *)
(* waits 2 s for its answer and its result is ignored, so each may be      *)
(* executed at once, late, after the next ones were sent, or not at all.   *)
(* Requests come from main(), one after the other: the mutex is free.      *)
(***************************************************************************)
EXTENDS Naturals, Sequences

CONSTANTS
  Entries,    \* what led_xw_init can leave in g_xwledColorVal for a colour
  Ops,        \* the operations explored
  Blank,      \* the colour of an XW nobody has told one
  MaxInbox    \* bound: calls sent and not executed

LedMgrOp == {"SOLID_LIGHT", "BLINK", "SLOW_BLINK", "DOUBLE_BLINK", "FAST_BLINK",
             "NO_LIGHT"}

ASSUME LinkAssumption ==
  Blank \notin Entries /\ Ops \subseteq LedMgrOp /\ MaxInbox \in Nat \ {0}

VARIABLES
  todo,      \* the calls the request under way has still to make
  up,        \* is the XW connected?
  inbox,     \* calls sent and not executed, oldest first
  xw,        \* the XW's configuration
  shown,     \* what it shows
  request,   \* history: what the last request asked for
  whole      \* history: has nothing of it been lost?

vars == <<todo, up, inbox, xw, shown, request, whole>>

\* g_ledOpVal: on, off and long off time, in ms
Times == [SOLID_LIGHT |-> <<0, 0, 0>>, NO_LIGHT |-> <<0, 0, 0>>,
          BLINK |-> <<500, 1000, 0>>, SLOW_BLINK |-> <<200, 400, 0>>,
          FAST_BLINK |-> <<100, 100, 0>>, DOUBLE_BLINK |-> <<200, 100, 1000>>]

\* An action: its type, on time, off time.
Steady(type)     == [type |-> type, ontime |-> 0, offtime |-> 0]
Blink(type, s, t) == [type |-> type, ontime |-> s, offtime |-> t]

\* The calls, as the field of the XW's configuration they set, and its values.
xw_led_init             == [sets |-> "nothing"]
xw_led_reset            == [sets |-> "all"]
xw_led_applySettings    == [sets |-> "shown"]
xw_led_setBrightness(c) == [sets |-> "pwm", to |-> {c}]
xw_led_setColor(c)      == [sets |-> "current", to |-> {c}]
xw_led_setOnOff(type)   == [sets |-> "action", to |-> {Steady(type)}]

\* The parameters come in this order.
xw_led_setBlink(offtime, ontime) ==
  [sets |-> "action", to |-> {Blink("BLINK", ontime, offtime)}]

\* Both off times go into the message under one name: which one an XW reads is
\* not the sender's choice.
xw_led_setBlinkSequence(ontime, offtime1, count, offtime2) ==
  [sets |-> "action",
   to   |-> {Blink("SEQ_BLINK", ontime, t) : t \in {offtime1, offtime2}}]

\* What each operation does after the light is painted.
Action(op) ==
  LET ontime == Times[op][1]
      offtime == Times[op][2]
      longofftime == Times[op][3]
  IN  CASE op = "SOLID_LIGHT"  -> <<>>
        [] op = "NO_LIGHT"     -> <<xw_led_setOnOff("OFF")>>
        [] op = "DOUBLE_BLINK" ->
             <<xw_led_setBlinkSequence(ontime, offtime, 2, longofftime)>>
        [] OTHER               -> <<xw_led_setBlink(ontime, offtime)>>

Paint(c) == <<xw_led_setBrightness(c), xw_led_setColor(c)>>

\* Mutants: a solid light is not reset, as it sets all else; reset comes last.
ScriptSolidKept(op, c) ==
  <<xw_led_init>>
  \o (IF op \in {"NO_LIGHT", "SOLID_LIGHT"} THEN <<>> ELSE <<xw_led_reset>>)
  \o (IF op = "NO_LIGHT" THEN <<>> ELSE Paint(c))
  \o Action(op) \o <<xw_led_applySettings>>
ScriptResetLate(op, c) ==
  <<xw_led_init>>
  \o (IF op = "NO_LIGHT" THEN <<>> ELSE Paint(c) \o <<xw_led_reset>>)
  \o Action(op) \o <<xw_led_applySettings>>

\* led_xw_setOp. Nothing turns a solid light on but the reset.
Script(op, c) ==
  <<xw_led_init>>
  \o (IF op = "NO_LIGHT" THEN <<>> ELSE <<xw_led_reset>> \o Paint(c))
  \o Action(op) \o <<xw_led_applySettings>>

Default   == [pwm |-> Blank, current |-> Blank, action |-> Steady("ON")]
Dark      == [Default EXCEPT !.action = Steady("OFF")]
NoRequest == [op |-> "NO_LIGHT", rgb |-> Blank]

Init == /\ todo = <<>> /\ inbox = <<>> /\ up \in BOOLEAN
        /\ xw = Default /\ shown = Dark
        /\ request = NoRequest /\ whole = FALSE

\* Mutant: the mutex is not looked at, and two requests mix.
SetOpAnyway(op, c) ==
  /\ todo' = todo \o Script(op, c)
  /\ request' = [op |-> op, rgb |-> c] /\ whole' = TRUE
  /\ UNCHANGED <<up, inbox, xw, shown>>

\* led_xw_setOp is called; led_xw_init(1) has left c for the colour.
led_xw_setOp(op, c) ==
  /\ todo = <<>> /\ todo' = Script(op, c)
  /\ request' = [op |-> op, rgb |-> c] /\ whole' = TRUE
  /\ UNCHANGED <<up, inbox, xw, shown>>

\* rtConnection_SendRequest, to an XW that is connected
Send == /\ todo # <<>> /\ up /\ Len(inbox) < MaxInbox
        /\ inbox' = Append(inbox, Head(todo)) /\ todo' = Tail(todo)
        /\ UNCHANGED <<up, xw, shown, request, whole>>

\* or to none: the call fails, and nobody looks.
SendFails == /\ todo # <<>> /\ ~up
             /\ todo' = Tail(todo) /\ whole' = FALSE
             /\ UNCHANGED <<up, inbox, xw, shown, request>>
-----------------------------------------------------------------------------
(* The XW.                                                                 *)

\* It executes a call, whether or not the caller still waits for the answer.
Execute ==
  /\ inbox # <<>> /\ inbox' = Tail(inbox)
  /\ LET m == Head(inbox) IN
       \/ m.sets = "nothing" /\ UNCHANGED <<xw, shown>>
       \/ m.sets = "all"     /\ xw' = Default /\ UNCHANGED shown
       \/ m.sets = "shown"   /\ shown' = xw /\ UNCHANGED xw
       \/ /\ m.sets \in {"pwm", "current", "action"}
          /\ \E v \in m.to : xw' = [xw EXCEPT ![m.sets] = v]
          /\ UNCHANGED shown
  /\ UNCHANGED <<todo, up, request, whole>>

\* It is pulled out, or restarts: what was sent to it is gone.
GoDown == /\ up /\ up' = FALSE /\ inbox' = <<>> /\ whole' = FALSE
          /\ xw' = Default /\ shown' = Dark
          /\ UNCHANGED <<todo, request>>

ComeUp == ~up /\ up' = TRUE /\ UNCHANGED <<todo, inbox, xw, shown, request, whole>>

Next == \/ \E op \in Ops, c \in Entries : led_xw_setOp(op, c)
        \/ Send \/ SendFails \/ Execute \/ GoDown \/ ComeUp

Spec == Init /\ [][Next]_vars
-----------------------------------------------------------------------------
Kind(op) == CASE op = "SOLID_LIGHT" -> "ON" [] op = "NO_LIGHT" -> "OFF"
              [] op = "DOUBLE_BLINK" -> "SEQ_BLINK" [] OTHER -> "BLINK"

\* The look has the colour, the brightness and the kind of light asked for.
Fits(look, r) == /\ look.action.type = Kind(r.op)
                 /\ r.op # "NO_LIGHT" => look.pwm = r.rgb /\ look.current = r.rgb

\* Type correctness; a request is never longer than its longest script.
TypeOK ==
  /\ Len(todo) <= 6 /\ Len(inbox) <= MaxInbox
  /\ up \in BOOLEAN /\ whole \in BOOLEAN
  /\ request \in [op : Ops \cup {"NO_LIGHT"}, rgb : Entries \cup {Blank}]
  /\ \A l \in {xw, shown} : /\ l.pwm \in Entries \cup {Blank}
                            /\ l.current \in Entries \cup {Blank}
                            /\ l.action.type \in {"ON", "OFF", "BLINK", "SEQ_BLINK"}

\* Once a request of which nothing was lost is executed, however late, the XW
\* shows it: nothing of the looks before is left, a blink under a solid light
\* included, for which no call turns the light on.
ShowsLastRequest ==
  whole /\ todo = <<>> /\ inbox = <<>> => Fits(shown, request)

\* The on and off times of led_xw_setOp reach the XW as what they are.
TimesAsAsked ==
  whole /\ todo = <<>> /\ inbox = <<>> /\ Kind(request.op) = "BLINK" =>
    /\ shown.action.ontime = Times[request.op][1]
    /\ shown.action.offtime = Times[request.op][2]
=============================================================================
