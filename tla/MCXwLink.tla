------------------------------ MODULE MCXwLink ------------------------------
(* Two colours, every operation, room for a whole request on its way.      *)
EXTENDS XwLink

AllOps == LedMgrOp
=============================================================================
