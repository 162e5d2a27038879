---------------------------- MODULE MCJmlHashmap ----------------------------
(* JmlHashmap on a few keys whose hashes collide. *)
EXTENDS JmlHashmap, TLC

CONSTANTS k1, k2, k3

MCKeys == {k1, k2, k3}

(* All three share a home in an array of two or four slots, the last one,
   so that probes wrap; growing to eight slots sets the third apart.       *)
MCHash == (k1 :> 3) @@ (k2 :> 3) @@ (k3 :> 7)
=============================================================================
