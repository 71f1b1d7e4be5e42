---------------------------- MODULE MCServeTunnel ----------------------------
(* ServeTunnel on a small instance. *)
EXTENDS ServeTunnel
=============================================================================
