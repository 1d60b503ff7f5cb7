------------------------------- MODULE LedWave -------------------------------
(***************************************************************************)
(* What a caller of ledhal.h is promised to see: a light that is on for so *)
(* long, off for so long, so many times over, then off for longer, and     *)
(* again from the start. Time is counted in steps of the LED chip. Of some *)
(* lights nothing is promised.                                             *)
(***************************************************************************)
EXTENDS Naturals

CONSTANT Lights      \* the brightnesses a light can have, 0 for dark

\* A light that does not blink is on for ever: its round never ends. One that is
\* free may show anything.
Wave == [lit : Lights, steady : BOOLEAN, on : Nat, off : Nat, count : Nat, rest : Nat,
         free : BOOLEAN]

VARIABLES
  wave,    \* what is asked for
  light,   \* what is shown
  clock    \* time since the round began

waveVars == <<wave, light, clock>>

Beat(w)   == w.on + w.off
Period(w) == w.count * Beat(w) + w.rest

\* The light at time t of a round.
At(w, t) ==
  IF w.steady \/ (t < w.count * Beat(w) /\ t % Beat(w) < w.on) THEN w.lit ELSE 0

Init == /\ wave \in {w \in Wave : w.steady}
        /\ light = At(wave, 0) /\ clock = 0

Ask == wave' \in Wave /\ light' \in Lights /\ clock' = 0

\* The light may change at an instant, and is right whenever time passes.
Turn == light' \in Lights /\ UNCHANGED <<wave, clock>>

Pass == /\ clock' > clock /\ clock' <= Period(wave)
        /\ \A t \in clock..(clock' - 1) : light = At(wave, t)
        /\ UNCHANGED <<wave, light>>

Again == clock = Period(wave) /\ clock' = 0 /\ UNCHANGED <<wave, light>>

Stray == wave.free /\ light' \in Lights /\ clock' \in Nat /\ UNCHANGED wave

Next == Ask \/ Turn \/ Pass \/ Again \/ Stray

Spec == Init /\ [][Next]_waveVars
=============================================================================
