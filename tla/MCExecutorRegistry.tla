------------------------- MODULE MCExecutorRegistry -------------------------
(***************************************************************************)
(* Instance of ExecutorRegistry for TLC: a Run rp, its child rc in a Session  *)
(* of its own, both background with one slot between them, and a manual     *)
(* compaction of the Session of rp.                                           *)
(***************************************************************************)
EXTENDS ExecutorRegistry

CONSTANTS ep, ec, ez, rp, rc, s1, s2

MCRunOf == [e \in {ep, ec, ez} |-> CASE e = ep -> rp [] e = ec -> rc [] OTHER -> NoRun]
MCSessionOf == [e \in {ep, ec, ez} |-> IF e = ec THEN s2 ELSE s1]
MCParent == [r \in {rp, rc} |-> IF r = rc THEN rp ELSE NoRun]
=============================================================================
