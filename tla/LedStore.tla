------------------------------ MODULE LedStore ------------------------------
(***************************************************************************)
(* What the configuration file of a LED promises to the processes that     *)
(* share it: a change is one call's change of what the file held at that   *)
(* moment, or the defaults of led_init or led_reset, or its truncation by  *)
(* one of these two. No change of a whole configuration is ever lost.      *)
(***************************************************************************)
EXTENDS LedConfig

VARIABLE file

Init == file \in {Absent, Empty} \cup Config

\* led_init's O_CREAT and led_reset's O_CREAT|O_TRUNC
Truncate == file' = Empty

Rewrite == file # Absent /\ file' = DefaultConfig

\* A setter changes its own field, of an enabled LED or of the state itself.
Set(c) == /\ c.op \in Setter
          /\ file \in Config /\ ~RefusedWhen(c, file.state)
          /\ file' = Updated(c, file)

\* What fills an empty file is anybody's guess: junk a setter took for the
\* configuration, or the one a setter had read before the truncation.
Refill == file = Empty /\ file' \in Config

Next == Truncate \/ Rewrite \/ Refill \/ \E c \in Call : Set(c)

Spec == Init /\ [][Next]_file
=============================================================================
