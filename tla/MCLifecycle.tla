----------------------------- MODULE MCLifecycle -----------------------------
(* Two rings, one gossip data id and two blobs: enough for ShutDownNode's  *)
(* remove loop to be part way, and for a second addGossip to meet a stored *)
(* entry.                                                                  *)
EXTENDS Lifecycle

CONSTANTS d1, x, y

MCRingNums == {1, 2}
MCDataIds == {d1}
MCBlobs == {x, y}
=============================================================================
