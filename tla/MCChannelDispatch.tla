-------------------------- MODULE MCChannelDispatch --------------------------
(* Instances of ChannelDispatch for TLC: a stream's event, one the adapter  *)
(* refuses, and a hook.                                                     *)
EXTENDS ChannelDispatch

CONSTANTS good, bad, hook
==============================================================================
