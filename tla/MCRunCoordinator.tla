-------------------------- MODULE MCRunCoordinator --------------------------
(***************************************************************************)
(* RunCoordinator on small sets.  The identities of Entries and Clients    *)
(* only matter up to renaming, where no liveness is checked.               *)
(***************************************************************************)
EXTENDS RunCoordinator, TLC

Symmetry == Permutations(Keys) \cup Permutations(Entries) \cup Permutations(Clients)
=============================================================================
