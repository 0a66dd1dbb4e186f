-------------------------------- MODULE Node --------------------------------
(***************************************************************************)
(* The membership engine of one ifrit node, seen from that node (Local):   *)
(* its view of the remote peers, the live subset, the note and accusation  *)
(* stored on each peer, the timeout map and its own epoch.                 *)
(*                                                                         *)
(* Concurrent actors:                                                      *)
(*  - Handlers: gRPC goroutines each serving one Spread call (udp.go       *)
(*    135-206) and the merges it makes (evalCertificate, evalNote,         *)
(*    evalAccusation).  Every lock-protected access of the code (a view    *)
(*    map lookup or insert, a peer's getNote / setNote / getAccusation /   *)
(*    setAccusation / removeAccusation, a timeout map access) is its own   *)
(*    step, so handlers interleave wherever the Go code lets them.         *)
(*  - the timeout loop (node.go 129-140), which evicts a peer whose        *)
(*    accusation timer has run out.                                        *)
(* Remote nodes are the environment: a Spread call carries one gossip      *)
(* item (certificate, note or accusation) chosen from Items; delivery is   *)
(* unordered, duplicated and arbitrarily delayed.  Signatures are          *)
(* abstracted to a flag saying whether they verify.                        *)
(*                                                                         *)
(* Rings hold the live peers and Local (spec 4.1/4.2); a peer's position   *)
(* on ring r is Pos[r][p].                                                 *)
(***************************************************************************)
EXTENDS Integers, FiniteSets, FiniteSetsExt

CONSTANTS
  Local,        \* this node's id
  Peers,        \* ids of the remote nodes
  Rings,        \* ring indices 1..numRings
  Pos,          \* Pos[r][p]: position of id p on ring r
  RingSpace,    \* size of the hash space; positions are taken modulo it
  MaxEpoch,     \* bound on the epochs carried by notes and accusations
  Handlers,     \* concurrent Spread handler goroutines
  InitialView,  \* certificates handed out by the CA at start (NewNode)
  Items,        \* the gossip items remote nodes may send
  None          \* nil

Ids == Peers \cup {Local}
Epochs == 1..MaxEpoch

ASSUME /\ Local \notin Peers
       /\ InitialView \subseteq Peers
       /\ Pos \in [Rings -> [Ids -> 0..(RingSpace - 1)]]
       /\ \A r \in Rings : \A x, y \in Ids : x /= y => Pos[r][x] /= Pos[r][y]

(* Gossip items: a certificate, a signed note, a signed accusation        *)
CertItem == [kind : {"cert"}, id : Ids]
NoteItem == [kind : {"note"}, id : Ids, epoch : Epochs, valid : BOOLEAN]
AccItem  == [kind : {"acc"}, accused : Ids, accuser : Peers, epoch : Epochs,
             valid : BOOLEAN]
ASSUME Items \subseteq CertItem \cup NoteItem \cup AccItem

(* A Spread call: the TLS-authenticated caller and the item it gossips     *)
Call == [caller : Peers, item : Items]

(* an accusation stored on a peer: by a remote accuser, or by Local's own *)
(* monitor (spec 4.4)                                                      *)
Accusation == [epoch : Epochs, accuser : Ids]

VARIABLES
  view,    \* ids in viewMap
  live,    \* ids in liveMap
  note,    \* note[p]: epoch of p's recentNote, 0 when nil
  acc,     \* acc[p]: p's accusation, or None
  timer,   \* ids in the timeout map
  epoch,   \* Local's own note epoch
  hs,      \* hs[h]: program counter and call of handler h
  seen     \* history: highest note epoch of p this node acted on

vars == <<view, live, note, acc, timer, epoch, hs, seen>>

Idle == [pc |-> "idle", call |-> None]

-----------------------------------------------------------------------------
(* Rings.  A ring contains the live peers and Local.                       *)

Members == live \cup {Local}

(* forward distance from x to y on ring r *)
Dist(r, x, y) == (Pos[r][y] - Pos[r][x]) % RingSpace

(* predecessor / successor of y among the ids S on ring r; y itself when   *)
(* it is alone                                                             *)
Pred(r, S, y) ==
  IF S \ {y} = {} THEN y
  ELSE CHOOSE x \in S \ {y} : \A z \in S \ {y} : Dist(r, x, y) <= Dist(r, z, y)

Succ(r, S, y) ==
  IF S \ {y} = {} THEN y
  ELSE CHOOSE x \in S \ {y} : \A z \in S \ {y} : Dist(r, y, x) <= Dist(r, y, z)

(* view.isPrev: x is y's predecessor on some ring                          *)
isPrev(x, y) == \E r \in Rings : Pred(r, Members, y) = x

(* view.shouldBeNeighbours: id would be Local's predecessor or successor   *)
(* on some ring                                                            *)
shouldBeNeighbours(id) ==
  \E r \in Rings :
    id \in {Pred(r, Members \cup {id}, Local), Succ(r, Members \cup {id}, Local)}

(* view.getNeighbours: Local's predecessor and successor on every ring,   *)
(* the recipients of its gossip (spec 4.6 step 2)                          *)
getNeighbours ==
  ({Pred(r, Members, Local) : r \in Rings} \cup {Succ(r, Members, Local) : r \in Rings})
    \ {Local}

(* view.isHigherRank: x is closer than y to the accused (shortest forward  *)
(* distance over the rings)                                                *)
RankDist(x, pivot) == Min({Dist(r, x, pivot) : r \in Rings})

isHigherRank(x, y, pivot) == RankDist(x, pivot) < RankDist(y, pivot)

-----------------------------------------------------------------------------
(* NewNode (node.go 374-385): the CA's known certificates are evaluated    *)
(* into the view and every view peer is made live, before any note.        *)
Init ==
  /\ view = InitialView
  /\ live = InitialView
  /\ note = [p \in Peers |-> 0]
  /\ acc = [p \in Peers |-> None]
  /\ timer = {}
  /\ epoch = 1
  /\ hs = [h \in Handlers |-> Idle]
  /\ seen = [p \in Peers |-> 0]

Item(h) == hs[h].call.item

Goto(h, pc) == hs' = [hs EXCEPT ![h].pc = pc]

Return(h) == hs' = [hs EXCEPT ![h] = Idle]

(* a new Spread call reaches an idle handler *)
Receive(h) ==
  /\ hs[h].pc = "idle"
  /\ \E c \in Call : hs' = [hs EXCEPT ![h] = [pc |-> "spread", call |-> c]]
  /\ UNCHANGED <<view, live, note, acc, timer, epoch, seen>>

(* Spread, caller not a neighbour: an unknown caller becomes a view and    *)
(* live peer; its neighbours' certificates are returned, nothing merged.   *)
SpreadNotNeighbour(h) ==
  LET c == hs[h].call.caller IN
  /\ hs[h].pc = "spread"
  /\ ~shouldBeNeighbours(c)
  /\ view' = view \cup {c}
  /\ live' = IF c \in view THEN live ELSE live \cup {c}
  /\ Return(h)
  /\ UNCHANGED <<note, acc, timer, epoch, seen>>

(* Spread, caller a neighbour: add an unknown caller, then merge the item  *)
(* (mergeCertificates, mergeNotes, mergeAccusations in that order).        *)
SpreadNeighbour(h) ==
  LET c == hs[h].call.caller IN
  /\ hs[h].pc = "spread"
  /\ shouldBeNeighbours(c)
  /\ view' = view \cup {c}
  /\ live' = IF c \in view THEN live ELSE live \cup {c}
  /\ Goto(h, Item(h).kind)
  /\ UNCHANGED <<note, acc, timer, epoch, seen>>

(* mutant: evalCertificate without the check against Local's own id *)
EvalCertificateNoSelfCheck(h) ==
  /\ hs[h].pc = "cert"
  /\ view' = view \cup {Item(h).id}
  /\ Return(h)
  /\ UNCHANGED <<live, note, acc, timer, epoch, seen>>

(* evalCertificate: a certificate of an unknown id other than Local adds a *)
(* view peer, not a live one.                                              *)
EvalCertificate(h) ==
  LET id == Item(h).id IN
  /\ hs[h].pc = "cert"
  /\ view' = IF id /= Local THEN view \cup {id} ELSE view
  /\ Return(h)
  /\ UNCHANGED <<live, note, acc, timer, epoch, seen>>

-----------------------------------------------------------------------------
(* mergeNotes / evalNote.                                                  *)

(* mutant: a note of an accused peer is taken as a plain note when it    *)
(* does not rebut the accusation                                          *)
NoteLookupIgnoreAcc(h) ==
  LET n == Item(h) IN
  /\ hs[h].pc = "note"
  /\ IF n.id = Local \/ n.id \notin view \/ ~n.valid THEN Return(h)
     ELSE IF acc[n.id] /= None /\ acc[n.id].epoch < n.epoch THEN Goto(h, "r_timer")
     ELSE Goto(h, "n_get")
  /\ UNCHANGED <<view, live, note, acc, timer, epoch, seen>>

(* Local's own note is skipped; otherwise getViewPeer, validateSignature   *)
(* and getAccusation choose the branch.                                    *)
NoteLookup(h) ==
  LET n == Item(h) IN
  /\ hs[h].pc = "note"
  /\ IF n.id = Local \/ n.id \notin view \/ ~n.valid THEN Return(h)
     ELSE IF acc[n.id] = None THEN Goto(h, "n_get")
     ELSE IF acc[n.id].epoch < n.epoch THEN Goto(h, "r_timer")
     ELSE Return(h)
  /\ UNCHANGED <<view, live, note, acc, timer, epoch, seen>>

(* not accused: getNote, keep the note only if it is more recent *)
NoteRead(h) ==
  LET n == Item(h) IN
  /\ hs[h].pc = "n_get"
  /\ IF note[n.id] < n.epoch THEN Goto(h, "n_set") ELSE Return(h)
  /\ UNCHANGED <<view, live, note, acc, timer, epoch, seen>>

NoteStore(h) ==
  LET n == Item(h) IN
  /\ hs[h].pc = "n_set"
  /\ note' = [note EXCEPT ![n.id] = n.epoch]
  /\ seen' = [seen EXCEPT ![n.id] = Max({@, n.epoch})]
  /\ Goto(h, "n_live")
  /\ UNCHANGED <<view, live, acc, timer, epoch>>

(* getLivePeer nil => addLivePeer *)
NoteLive(h) ==
  /\ hs[h].pc = "n_live"
  /\ live' = live \cup {Item(h).id}
  /\ Return(h)
  /\ UNCHANGED <<view, note, acc, timer, epoch, seen>>

(* mutant: the rebuttal leaves the timeout running *)
RebutTimerNoDelete(h) ==
  /\ hs[h].pc = "r_timer"
  /\ Goto(h, "r_acc")
  /\ UNCHANGED <<view, live, note, acc, timer, epoch, seen>>

(* accused and the note is newer than the accusation: rebuttal.  The code  *)
(* deletes the timeout, removes the accusation and adds the peer to the    *)
(* live set; it does not store the note.                                   *)
RebutTimer(h) ==
  LET n == Item(h) IN
  /\ hs[h].pc = "r_timer"
  /\ timer' = timer \ {n.id}
  /\ Goto(h, "r_acc")
  /\ UNCHANGED <<view, live, note, acc, epoch, seen>>

RebutAccusation(h) ==
  LET n == Item(h) IN
  /\ hs[h].pc = "r_acc"
  /\ acc' = [acc EXCEPT ![n.id] = None]
  /\ seen' = [seen EXCEPT ![n.id] = Max({@, n.epoch})]
  /\ Goto(h, "r_live")
  /\ UNCHANGED <<view, live, note, timer, epoch>>

RebutLive(h) ==
  /\ hs[h].pc = "r_live"
  /\ live' = live \cup {Item(h).id}
  /\ Return(h)
  /\ UNCHANGED <<view, note, acc, timer, epoch, seen>>

-----------------------------------------------------------------------------
(* mergeAccusations / evalAccusation.                                      *)

(* peer.setEpoch: Local's epoch becomes the given value                    *)
setEpoch(e) == epoch' = e

(* an accusation against Local: setEpoch(epoch + 1) and Rebuttal, which    *)
(* re-signs Local's note with that epoch and gossips it                    *)
AccSelf(h) ==
  LET a == Item(h) IN
  /\ hs[h].pc = "acc"
  /\ a.accused = Local
  /\ setEpoch(a.epoch + 1)
  /\ Return(h)
  /\ UNCHANGED <<view, live, note, acc, timer, seen>>

(* getLivePeer(accused) and getNote: only a live peer whose note is older  *)
(* than the accusation (or nil) can be accused                             *)
AccLookup(h) ==
  LET a == Item(h) IN
  /\ hs[h].pc = "acc"
  /\ a.accused /= Local
  /\ IF a.accused \in live /\ (note[a.accused] = 0 \/ a.epoch > note[a.accused])
     THEN Goto(h, "a_rank") ELSE Return(h)
  /\ UNCHANGED <<view, live, note, acc, timer, epoch, seen>>

(* getLivePeer(accuser), getAccusation and the rank test against a stored  *)
(* accusation, then validateSignature                                      *)
AccRank(h) ==
  LET a == Item(h) IN
  /\ hs[h].pc = "a_rank"
  /\ IF /\ a.accuser \in live
        /\ \/ acc[a.accused] = None
           \/ isHigherRank(a.accuser, acc[a.accused].accuser, a.accused)
        /\ a.valid
     THEN Goto(h, "a_prev") ELSE Return(h)
  /\ UNCHANGED <<view, live, note, acc, timer, epoch, seen>>

(* isPrev: only the accused's predecessor may accuse it *)
AccPrev(h) ==
  LET a == Item(h) IN
  /\ hs[h].pc = "a_prev"
  /\ IF isPrev(a.accuser, a.accused) THEN Goto(h, "a_set") ELSE Return(h)
  /\ UNCHANGED <<view, live, note, acc, timer, epoch, seen>>

AccSet(h) ==
  LET a == Item(h) IN
  /\ hs[h].pc = "a_set"
  /\ acc' = [acc EXCEPT ![a.accused] = [epoch |-> a.epoch, accuser |-> a.accuser]]
  /\ Goto(h, "a_timer")
  /\ UNCHANGED <<view, live, note, timer, epoch, seen>>

(* mutant: the timerExist test inverted, so no timer is ever started *)
AccTimerInverted(h) ==
  /\ hs[h].pc = "a_timer"
  /\ Return(h)
  /\ UNCHANGED <<view, live, note, acc, timer, epoch, seen>>

(* timerExist, else startTimer *)
AccTimer(h) ==
  /\ hs[h].pc = "a_timer"
  /\ timer' = timer \cup {Item(h).accused}
  /\ Return(h)
  /\ UNCHANGED <<view, live, note, acc, epoch, seen>>

-----------------------------------------------------------------------------
(* Timeouts of the correct protocol, run by the timeout loop: a timer that *)
(* has run out removes its peer from the live set (and so from the rings); *)
(* the peer stays in the view (spec 3).  Time is abstracted: any running   *)
(* timer may expire.                                                       *)
Expire(p) ==
  /\ p \in timer
  /\ live' = live \ {p}
  /\ timer' = timer \ {p}
  /\ UNCHANGED <<view, note, acc, epoch, hs, seen>>

(* one step of a handler that is serving a call *)
Serve(h) ==
  \/ SpreadNotNeighbour(h) \/ SpreadNeighbour(h) \/ EvalCertificate(h)
  \/ NoteLookup(h) \/ NoteRead(h) \/ NoteStore(h) \/ NoteLive(h)
  \/ RebutTimer(h) \/ RebutAccusation(h) \/ RebutLive(h)
  \/ AccSelf(h) \/ AccLookup(h) \/ AccRank(h) \/ AccPrev(h) \/ AccSet(h)
  \/ AccTimer(h)

Next ==
  \/ \E h \in Handlers : Receive(h) \/ Serve(h)
  \/ \E p \in Peers : Expire(p)

(* A goroutine that is serving a call keeps running, and the timeout loop  *)
(* keeps ticking; new calls need not arrive.                               *)
Fairness ==
  /\ \A h \in Handlers : WF_vars(Serve(h))
  /\ \A p \in Peers : WF_vars(Expire(p))

Spec == Init /\ [][Next]_vars /\ Fairness

-----------------------------------------------------------------------------
PCs == {"idle", "spread", "cert", "note", "n_get", "n_set", "n_live",
        "r_timer", "r_acc", "r_live", "acc", "a_rank", "a_prev", "a_set",
        "a_timer"}

TypeOK ==
  /\ view \subseteq Peers
  /\ live \subseteq view
  /\ note \in [Peers -> 0..MaxEpoch]
  /\ acc \in [Peers -> Accusation \cup {None}]
  /\ timer \subseteq Peers
  /\ epoch \in 1..(MaxEpoch + 1)
  /\ hs \in [Handlers -> [pc : PCs, call : Call \cup {None}]]
  /\ seen \in [Peers -> 0..MaxEpoch]

(* A running timeout always belongs to a peer that holds an accusation:    *)
(* the timeout loop never evicts a peer whose accusation was rebutted.     *)
(* About evalNote's rebuttal (deleteTimeout, then removeAccusation) and    *)
(* evalAccusation (setAccusation, then timerExist/startTimer).             *)
TimerOnlyForAccused == \A p \in timer : acc[p] /= None

(* Spec invariant 3: a peer's stored note never goes back to an older      *)
(* epoch (evalNote's getNote ... setNote).                                 *)
NoteEpochMonotone == [][\A p \in Peers : note'[p] >= note[p]]_vars

(* An accused peer that is live is eventually either cleared or evicted:   *)
(* every accusation recorded by evalAccusation has a timer, or a rebuttal  *)
(* under way.                                                              *)
AccusedLiveResolves ==
  \A p \in Peers : (acc[p] /= None /\ p \in live) ~> (acc[p] = None \/ p \notin live)

(* Spec 4.3: an accusation is stale once the accused has a note of a later *)
(* epoch; no stored accusation is older than a note this node accepted     *)
(* (stored, or used as rebuttal) for that peer.                            *)
StaleAccusationRejected ==
  \A p \in Peers : acc[p] /= None => acc[p].epoch >= seen[p]

(* Spec invariant 4: a stored accusation is never replaced by one from a  *)
(* lower-ranked accuser (farther from the accused).  About                 *)
(* evalAccusation's getAccusation / isHigherRank test, taken several steps *)
(* before setAccusation.                                                   *)
AccuserRankNeverWorsens ==
  [][\A p \in Peers :
       acc[p] /= None /\ acc'[p] /= None
         => ~isHigherRank(acc[p].accuser, acc'[p].accuser, p)]_vars

(* The node implements the view contract of Membership.tla: read as ids   *)
(* and epochs, every step of a handler or of the timeout loop is a        *)
(* Learn, Join, StoreNote, Accuse, Rebut or Evict, or leaves the view     *)
(* unchanged.  About the order of the merges' lookups and writes, the     *)
(* rebuttal path and the timeout loop's eviction.                         *)
AccEpoch(p) == IF acc[p] = None THEN 0 ELSE acc[p].epoch

View == INSTANCE Membership WITH acc <- [p \in Peers |-> AccEpoch(p)]

NodeRefinesMembership == View!Spec

=============================================================================
