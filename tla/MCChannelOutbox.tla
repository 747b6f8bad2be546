-------------------------- MODULE MCChannelOutbox --------------------------
(***************************************************************************)
(* Instance of ChannelOutbox for TLC.  Deliveries are interchangeable, and  *)
(* so are the workers, but a run with a temporal property uses no symmetry. *)
(***************************************************************************)
EXTENDS ChannelOutbox
=============================================================================
