------------------------------ MODULE MCSurface ------------------------------
(* Surface on a small instance. *)
EXTENDS Surface
=============================================================================
