--------------------------- MODULE MCToolApprovals ---------------------------
(***************************************************************************)
(* Instance of ToolApprovals for TLC: a call of each kind, a read and a     *)
(* side effect on the same resource.                                        *)
(***************************************************************************)
EXTENDS ToolApprovals
=============================================================================
