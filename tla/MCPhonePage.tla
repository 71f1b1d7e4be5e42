------------------------------ MODULE MCPhonePage ------------------------------
(* PhonePage on a small instance. *)
EXTENDS PhonePage, TLC

\* Sessions are interchangeable.
Symmetry == Permutations(Sessions)
=============================================================================
