--------------------------- MODULE MCOdpsSidecar ---------------------------
(***************************************************************************)
(* OdpsSidecar on small sets.                                              *)
(***************************************************************************)
EXTENDS OdpsSidecar, TLC
=============================================================================
