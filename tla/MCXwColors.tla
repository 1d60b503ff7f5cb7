----------------------------- MODULE MCXwColors -----------------------------
(***************************************************************************)
(* XwColors for the daemon and a second process that may fetch the file,   *)
(* too. Three colours: the first grep, the last and one in between.        *)
(***************************************************************************)
EXTENDS XwColors
=============================================================================
