------------------------------ MODULE MCCluster ------------------------------
(* Two nodes on two rings of eight positions; each is the other's         *)
(* predecessor and successor on both rings, so either may accuse the      *)
(* other and every caller is a neighbour.                                  *)
EXTENDS Cluster, TLC

CONSTANTS x, y

MCRings == {1, 2}
MCPos == [r \in MCRings |-> IF r = 1 THEN (x :> 0 @@ y :> 3) ELSE (x :> 0 @@ y :> 5)]
(* the CA's certificates at start: both nodes know each other, or x is   *)
(* the first node and knows nobody                                         *)
MCInitX == {x}
MCInitY == {y}
=============================================================================
