------------------------------ MODULE LedConfig ------------------------------
(***************************************************************************)
(* The configuration of one LED as ledhal.c keeps it: a Led_Config record  *)
(* in a file of the RAM disk (/mnt/ramdisk/tmp/.LED_config_id_<id>), and   *)
(* what each function of ledhal.h does to it. No state: the modules about  *)
(* the file, its users and the device behind it extend this one.           *)
(***************************************************************************)

CONSTANTS
  Values,    \* what callers ask for: colours, brightnesses, blink patterns
  Default,   \* the value led_init and led_reset put in every field
  Junk,      \* a field nobody wrote: read_led_config left the stack as it was
  Absent,    \* no file
  Empty      \* a file of length 0

Field == Values \cup {Junk}

\* Led_Config: state, the currents (colour) and PWMs (brightness) of the three
\* channels, and the action. The IR LED's brightness is its pwm.
Config == [state : BOOLEAN, current : Field, pwm : Field, action : Field]

ASSUME ConfigAssumption ==
  /\ Default \in Values /\ Junk \notin Values
  /\ Absent # Empty /\ Absent \notin Config /\ Empty \notin Config

\* A call: "action" is setOnOff, "blink" is setBlink or setBlinkSequence. All
\* three set the action.
Setter == {"enable", "disable", "color", "brightness", "action", "blink"}
Op     == {"init", "reset", "apply"} \cup Setter
Call   == [op : Op, arg : Values]

\* led_init and led_reset write a whole configuration and read none.
Rewrites(c) == c.op \in {"init", "reset"}

DefaultConfig ==
  [state |-> TRUE, current |-> Default, pwm |-> Default, action |-> Default]

\* "led is disabled, does not support configure"
RefusedWhen(c, state) == c.op \in {"color", "brightness", "action", "blink"} /\ ~state

\* The configuration a setter writes back over the one it read.
Updated(c, f) ==
  CASE c.op = "enable"     -> [f EXCEPT !.state = TRUE]
    [] c.op = "disable"    -> [f EXCEPT !.state = FALSE]
    [] c.op = "color"      -> [f EXCEPT !.current = c.arg]
    [] c.op = "brightness" -> [f EXCEPT !.pwm = c.arg]
    [] c.op \in {"action", "blink"} -> [f EXCEPT !.action = c.arg]
    [] OTHER               -> f

\* What read_led_config can leave in the caller's record: the file's, or, from
\* an empty file, whatever the record held before it was written to.
Contents(file) ==
  IF file = Empty
    THEN [state : BOOLEAN, current : {Junk}, pwm : {Junk}, action : {Junk}]
    ELSE {file}
=============================================================================
