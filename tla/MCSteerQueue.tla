---------------------------- MODULE MCSteerQueue -----------------------------
(* SteerQueue on a small instance. *)
EXTENDS SteerQueue
=============================================================================
