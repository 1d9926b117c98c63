--------------------------- MODULE MCContentUpdate --------------------------
(* Small instances of ContentUpdate for TLC. *)
EXTENDS ContentUpdate, TLC

CONSTANTS c1, c2, bootDir, dir1, dir2

OneRelease    == c1 :> 1
OneReleaseDir == c1 :> dir1
TwoReleases == c1 :> 1 @@ c2 :> 2
TwoDirs     == c1 :> dir1 @@ c2 :> dir2
=============================================================================
