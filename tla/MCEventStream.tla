---------------------------- MODULE MCEventStream ----------------------------
(* EventStream on a small instance. *)
EXTENDS EventStream, TLC

\* Browsers are interchangeable, and so are responses.
Symmetry == Permutations(Clients) \cup Permutations(Responses)
=============================================================================
