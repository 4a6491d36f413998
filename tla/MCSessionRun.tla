---------------------------- MODULE MCSessionRun ----------------------------
(***************************************************************************)
(* SessionRun on small sets, chosen in the .cfg.  Liveness is checked, so  *)
(* that nothing is permuted.                                               *)
(***************************************************************************)
EXTENDS SessionRun
=============================================================================
