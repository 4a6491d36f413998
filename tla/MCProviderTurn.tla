--------------------------- MODULE MCProviderTurn ---------------------------
(***************************************************************************)
(* A Session of one provider turn with two calls, and the drains after it: *)
(* they recover what it left and stop before a second turn.  A turn writes *)
(* only its own calls, so that a second one repeats the first beside a     *)
(* history that no longer changes.                                         *)
(***************************************************************************)
EXTENDS ProviderTurn
=============================================================================
