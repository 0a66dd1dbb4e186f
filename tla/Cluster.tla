------------------------------- MODULE Cluster -------------------------------
(***************************************************************************)
(* Two ifrit nodes, X and Y, gossiping with each other.  Each is an        *)
(* instance of Node (its view, live set, notes, accusations, timeouts,     *)
(* epoch and Spread handler); this module adds what connects them:         *)
(*  - the gossip a node sends, built by collectGossipContent (node.go      *)
(*    142-174) from its own view: every view peer's certificate, its note  *)
(*    if any and its accusation if any, and the node's own note as         *)
(*    OwnNote;                                                             *)
(*  - the receiver's Spread (udp.go 135-206), which merges the message's   *)
(*    certificates, notes and accusations (udp.go 201-203);                *)
(*  - the monitor's accusation of its ring predecessor after failed pings  *)
(*    (spec 4.4; the pinger is Pinger.tla, the protocol's Monitor is not   *)
(*    in the repository).                                                  *)
(* A message is delivered one item per Spread call.  With two nodes each   *)
(* is always the other's neighbour, so splitting a message only adds      *)
(* interleavings of the items, which the merges of Node already allow.     *)
(***************************************************************************)
EXTENDS Naturals

CONSTANTS
  X, Y,        \* the two nodes
  Rings,       \* ring indices
  Pos,         \* Pos[r][n]: position of node n on ring r
  RingSpace,   \* size of the hash space
  MaxEpoch,    \* bound on the epochs of notes and accusations
  InitX, InitY, \* the certificates the CA hands each node at start (NewNode)
  None         \* nil

Nodes == {X, Y}

VARIABLES
  viewX, liveX, noteX, accX, timerX, epochX, hsX, seenX,
  viewY, liveY, noteY, accY, timerY, epochY, hsY, seenY

xVars == <<viewX, liveX, noteX, accX, timerX, epochX, hsX, seenX>>
yVars == <<viewY, liveY, noteY, accY, timerY, epochY, hsY, seenY>>
vars == <<xVars, yVars>>

(* the items a node with id n may be sent: anything but an accusation it  *)
(* made itself                                                             *)
ItemsFor(n) ==
  [kind : {"cert"}, id : Nodes]
  \cup [kind : {"note"}, id : Nodes, epoch : 1..MaxEpoch, valid : {TRUE}]
  \cup [kind : {"acc"}, accused : Nodes, accuser : Nodes \ {n},
        epoch : 1..MaxEpoch, valid : {TRUE}]

NX == INSTANCE Node WITH Local <- X, Peers <- {Y}, InitialView <- InitX,
        Handlers <- {1}, Items <- ItemsFor(X),
        view <- viewX, live <- liveX, note <- noteX, acc <- accX,
        timer <- timerX, epoch <- epochX, hs <- hsX, seen <- seenX

NY == INSTANCE Node WITH Local <- Y, Peers <- {X}, InitialView <- InitY,
        Handlers <- {1}, Items <- ItemsFor(Y),
        view <- viewY, live <- liveY, note <- noteY, acc <- accY,
        timer <- timerY, epoch <- epochY, hs <- hsY, seen <- seenY

-----------------------------------------------------------------------------
(* collectGossipContent: for each view peer createPbInfo's certificate,    *)
(* note (when not nil) and accusation (when not nil); then OwnNote, the    *)
(* sender's own note at its current epoch.                                 *)
collectGossipContent(self, vw, nt, ac, ep) ==
  [certificates |-> {[kind |-> "cert", id |-> p] : p \in vw},
   notes |-> {[kind |-> "note", id |-> p, epoch |-> nt[p], valid |-> TRUE]
                : p \in {q \in vw : nt[q] /= 0}},
   accusations |-> {[kind |-> "acc", accused |-> p, accuser |-> ac[p].accuser,
                     epoch |-> ac[p].epoch, valid |-> TRUE]
                      : p \in {q \in vw : ac[q] /= None}},
   ownNote |-> [kind |-> "note", id |-> self, epoch |-> ep, valid |-> TRUE]]

(* what Spread merges of a message: GetCertificates, GetNotes,             *)
(* GetAccusations; args.OwnNote is not read                                *)
SpreadItems(msg) == msg.certificates \cup msg.notes \cup msg.accusations

(* The gossip loop of the sender calls Spread on each of its current      *)
(* neighbours (spec 4.6 step 2); the item reaches the receiver's handler   *)
(* goroutine, which NX / NY then run.                                      *)
GossipXY(it) ==
  /\ Y \in NX!getNeighbours
  /\ it \in SpreadItems(collectGossipContent(X, viewX, noteX, accX, epochX))
  /\ hsY[1].pc = "idle"
  /\ hsY' = [hsY EXCEPT ![1] = [pc |-> "spread", call |-> [caller |-> X, item |-> it]]]
  /\ UNCHANGED <<xVars, viewY, liveY, noteY, accY, timerY, epochY, seenY>>

GossipYX(it) ==
  /\ X \in NY!getNeighbours
  /\ it \in SpreadItems(collectGossipContent(Y, viewY, noteY, accY, epochY))
  /\ hsX[1].pc = "idle"
  /\ hsX' = [hsX EXCEPT ![1] = [pc |-> "spread", call |-> [caller |-> Y, item |-> it]]]
  /\ UNCHANGED <<yVars, viewX, liveX, noteX, accX, timerX, epochX, seenX>>

(* sending an item of kind k; a node's view holds only the other node, so *)
(* its content has at most one item of each kind                          *)
SendXY(k) == \E it \in ItemsFor(Y) : it.kind = k /\ GossipXY(it)
SendYX(k) == \E it \in ItemsFor(X) : it.kind = k /\ GossipYX(it)

(* Spec 4.4: after pingLimit failed pings of its live predecessor the      *)
(* monitor accuses it at the epoch of its latest note, records the         *)
(* accusation on the peer and starts its timeout (spec 4.5).  Pings are    *)
(* lost, so this happens to a running node too (Pinger.tla).              *)
AccuseXY(e) ==
  /\ Y \in liveX /\ accX[Y] = None /\ e >= noteX[Y]
  /\ accX' = [accX EXCEPT ![Y] = [epoch |-> e, accuser |-> X]]
  /\ timerX' = timerX \cup {Y}
  /\ UNCHANGED <<viewX, liveX, noteX, epochX, hsX, seenX, yVars>>

AccuseYX(e) ==
  /\ X \in liveY /\ accY[X] = None /\ e >= noteY[X]
  /\ accY' = [accY EXCEPT ![X] = [epoch |-> e, accuser |-> Y]]
  /\ timerY' = timerY \cup {X}
  /\ UNCHANGED <<viewY, liveY, noteY, epochY, hsY, seenY, xVars>>

-----------------------------------------------------------------------------
Init == NX!Init /\ NY!Init

StepX == (NX!Serve(1) \/ NX!Expire(Y)) /\ UNCHANGED yVars
StepY == (NY!Serve(1) \/ NY!Expire(X)) /\ UNCHANGED xVars

Next ==
  \/ StepX \/ StepY
  \/ \E k \in {"cert", "note", "acc"} : SendXY(k) \/ SendYX(k)
  \/ \E e \in 1..MaxEpoch : AccuseXY(e) \/ AccuseYX(e)

(* Handler goroutines run to the end and the timeout loops tick (as in     *)
(* Node).  Each gossip loop sends its whole content every interval for as  *)
(* long as the node runs, so an item that stays in the content is sent     *)
(* again and again: strong fairness per item, since the receiving handler  *)
(* is busy at times.  Accusations depend on lost pings and are not fair.   *)
Fairness ==
  /\ WF_vars(NX!Serve(1) /\ UNCHANGED yVars) /\ WF_vars(NY!Serve(1) /\ UNCHANGED xVars)
  /\ WF_vars(NX!Expire(Y) /\ UNCHANGED yVars) /\ WF_vars(NY!Expire(X) /\ UNCHANGED xVars)
  /\ \A k \in {"cert", "note", "acc"} : SF_vars(SendXY(k)) /\ SF_vars(SendYX(k))

Spec == Init /\ [][Next]_vars /\ Fairness

-----------------------------------------------------------------------------
(* Spec 4.3 step 1, 4.3 step 5 and 4.6 step 1: a node that is accused      *)
(* raises its epoch, re-signs its note and gossips it; the accuser takes   *)
(* that note as a rebuttal (or as the peer's newer note).  So each epoch a *)
(* node reaches is eventually acted on by the other node, as long as the   *)
(* node keeps the other live and so keeps gossiping to it.  About          *)
(* collectGossipContent, which sends the local note only as OwnNote, and   *)
(* Spread, which merges certificates, notes and accusations.               *)
RebuttalReachesAccuser ==
  \A e \in 2..MaxEpoch :
    /\ [](X \in liveY) => ((epochY >= e) ~> (seenX[Y] >= e))
    /\ [](Y \in liveX) => ((epochX >= e) ~> (seenY[X] >= e))

=============================================================================
