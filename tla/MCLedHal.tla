------------------------------ MODULE MCLedHal ------------------------------
(* Small instances of LedHal: who calls what, and from which file.          *)
EXTENDS LedHal

CONSTANT Other   \* a value that is not the default

Calling(ops, args) == [op : ops, arg : args]
Plain(ops) == Calling(ops, {Default})

\* Of the IR LED every function but led_setOnOff, which differs from
\* led_setBrightness in its field only; of a front panel the setters of a look
\* (setBlink as setOnOff) and the device they go to.
EveryCall == [CAMERA_IR |-> Plain({"init", "reset", "enable", "disable", "apply"})
                            \cup Calling({"color", "blink", "brightness"}, {Other}),
              LP5562 |-> Plain({"apply"})
                         \cup Calling({"color", "brightness", "action"}, {Other})]

\* One caller resets the LED while another sets its colour.
ResetCalls == [LP5562 |-> Plain({"reset"}) \cup Calling({"color"}, {Other})]

Made  == {DefaultConfig}
AnyFile == {Absent, Empty, DefaultConfig}

Factory == {LookOf(DefaultConfig)}

FrontPanel == {"LP5562"}
BothLeds   == {"LP5562", "CAMERA_IR"}
=============================================================================
