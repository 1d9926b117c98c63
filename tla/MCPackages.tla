----------------------------- MODULE MCPackages -----------------------------
(* Small instances of Packages for TLC. *)
EXTENDS Packages, TLC

CONSTANTS r1, r2, r3

TwoReleases   == r1 :> 1 @@ r2 :> 2
ThreeReleases == r1 :> 1 @@ r2 :> 2 @@ r3 :> 3
=============================================================================
