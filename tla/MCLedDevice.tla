---------------------------- MODULE MCLedDevice ----------------------------
(***************************************************************************)
(* LedDevice for two processes, two channels and three looks. Two channels *)
(* are enough for an engine to be loaded with another's program, and two   *)
(* steady looks for one echo to overtake the other.                        *)
(***************************************************************************)
EXTENDS LedDevice

CONSTANTS lit, off, blink

LedAsked == [lp5562 |-> {lit, blink}, aw210xx |-> {lit, off, blink}]
=============================================================================
