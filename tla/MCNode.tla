------------------------------- MODULE MCNode -------------------------------
(* Local node l with three remote peers on two rings of eight positions:   *)
(*   ring 1:  l 0, a 2, b 3, c 5   (a is b's predecessor)                 *)
(*   ring 2:  l 0, c 1, b 4, a 6   (c is b's predecessor)                 *)
(* so b can be accused by two authorised accusers and a is ranked above c *)
(* (closer to b).  b is Local's neighbour only when a or c is not live.    *)
EXTENDS Node, TLC

CONSTANTS l, a, b, c

MCPeers == {a, b, c}
MCRings == {1, 2}
MCPos == [r \in MCRings |->
           IF r = 1 THEN (l :> 0 @@ a :> 2 @@ b :> 3 @@ c :> 5)
                    ELSE (l :> 0 @@ c :> 1 @@ b :> 4 @@ a :> 6)]
MCInitialView == {a, b}

(* gossip items: the certificates of c and of Local; notes of b (epochs 1, 2, one forged) and *)
(* of a; accusations of b by a and by c, a forged one, and accusations of  *)
(* Local                                                                   *)
MCItems ==
  {[kind |-> "cert", id |-> x] : x \in {c, l}}
  \cup {[kind |-> "note", id |-> b, epoch |-> e, valid |-> TRUE] : e \in 1..2}
  \cup {[kind |-> "note", id |-> b, epoch |-> 2, valid |-> FALSE],
        [kind |-> "note", id |-> a, epoch |-> 1, valid |-> TRUE]}
  \cup {[kind |-> "acc", accused |-> b, accuser |-> x, epoch |-> e, valid |-> TRUE]
          : x \in {a, c}, e \in 1..2}
  \cup {[kind |-> "acc", accused |-> b, accuser |-> a, epoch |-> 1, valid |-> FALSE]}
  \cup {[kind |-> "acc", accused |-> l, accuser |-> a, epoch |-> e, valid |-> TRUE]
          : e \in 1..2}

(* a smaller item set for the two-handler runs: b's notes and the         *)
(* accusations of b by a and c                                             *)
MCRaceItems ==
  {[kind |-> "note", id |-> b, epoch |-> e, valid |-> TRUE] : e \in 1..2}
  \cup {[kind |-> "acc", accused |-> b, accuser |-> x, epoch |-> e, valid |-> TRUE]
          : x \in {a, c}, e \in 1..2}

MCHandlers1 == {1}
MCHandlers2 == {1, 2}
=============================================================================
