--------------------------- MODULE MCWorkerChannel ---------------------------
(* WorkerChannel on a small instance. *)
EXTENDS WorkerChannel, TLC

\* Responses are interchangeable; so are session ids.
Symmetry == Permutations(Streams) \cup Permutations(Sessions)
=============================================================================
