------------------------------- MODULE MCRing -------------------------------
(* Ring positions for model checking: eight positions on the hash ring,    *)
(* the local node's id at position 3 (it never leaves its own rings).     *)
EXTENDS Ring

MCPositions == 0..7
MCPinned    == {3}
=============================================================================
