----------------------------- MODULE MCLedSetOp -----------------------------
(* Small instances of LedSetOp: threads of one process, or two processes.   *)
EXTENDS LedSetOp

CONSTANTS Blue, Amber, Blinking   \* beside the default, which is lit and steady

OneProcess == [t \in Procs |-> "ledmgrmain"]
OneEach    == [t \in Procs |-> t]

SolidBlue  == [current |-> Blue, pwm |-> Blue, action |-> Default]
BlinkAmber == [current |-> Amber, pwm |-> Amber, action |-> Blinking]

Lights  == {SolidBlue, BlinkAmber}
AllReqs == Lights \cup {Off}
Light   == {SolidBlue}

AnyCall == [l \in Leds |-> Call]
AtBoot  == {Absent, DefaultConfig}
AnyFile == {Absent, Empty, DefaultConfig}

\* The look of the defaults, or one that no file says anything of.
Factory == {LookOf(DefaultConfig)}
AnyLook == Factory \cup {BlinkAmber}

FrontPanel == {"LP5562"}
=============================================================================
