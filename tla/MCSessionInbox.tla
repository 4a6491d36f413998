--------------------------- MODULE MCSessionInbox ---------------------------
(***************************************************************************)
(* SessionInbox on small sets; everything but numbers is symmetric.        *)
(***************************************************************************)
EXTENDS SessionInbox, TLC

Symmetry == Permutations(Sessions) \cup Permutations(Ids)
            \cup Permutations(Contents) \cup Permutations(Clients)
            \cup Permutations(Promoters)
=============================================================================
