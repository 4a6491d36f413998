----------------------------- MODULE MCEventLog -----------------------------
(***************************************************************************)
(* EventLog on small sets; everything but numbers is symmetric.            *)
(***************************************************************************)
EXTENDS EventLog, TLC

Symmetry == Permutations(Aggregates) \cup Permutations(Ids)
            \cup Permutations(Owners) \cup Permutations(Fibers)
            \cup Permutations(Streams)
=============================================================================
