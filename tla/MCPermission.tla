---------------------------- MODULE MCPermission ----------------------------
(***************************************************************************)
(* Permission on small sets: two requests of one Session, which save what  *)
(* they name when always allowed; one of another Session, by ask, that     *)
(* needs the approvals of both; and one that names a denied resource.      *)
(***************************************************************************)
EXTENDS Permission, TLC

CONSTANTS r1, r2, r3, r4, s1, s2, x, y, z

MCSessionOf == r1 :> s1 @@ r2 :> s1 @@ r3 :> s2 @@ r4 :> s1
MCWants == r1 :> {x} @@ r2 :> {y} @@ r3 :> {x, y} @@ r4 :> {x, y, z}
MCSaves == r1 :> {x} @@ r2 :> {y} @@ r3 :> {} @@ r4 :> {}

\* The clients are alike, and so are r1 with x and r2 with y.
Symmetry ==
  Permutations(Repliers) \cup {r1 :> r2 @@ r2 :> r1 @@ x :> y @@ y :> x}

\* Bound: only the Session of r3 is deleted; no approval covers the others but
\* their own.
DeletedSessions == gone \subseteq {s2}
=============================================================================
