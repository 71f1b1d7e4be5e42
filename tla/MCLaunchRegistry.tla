-------------------------- MODULE MCLaunchRegistry --------------------------
(* LaunchRegistry on a small instance. *)
EXTENDS LaunchRegistry, TLC

\* Ids are random and interchangeable, and so are places that are launched in.
Symmetry == Permutations(Ids)

\* A run about a server that is up looks no further than its shutdown.
BeforeShutdown == ~closing
=============================================================================
