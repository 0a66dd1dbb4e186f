----------------------------- MODULE Membership -----------------------------
(***************************************************************************)
(* What a node's view promises, one merge at a time (spec 3, 4.3-4.5 and   *)
(* invariants 1-3 of spec 8), stated over ids and epochs only: no rings,   *)
(* handlers, locks or timers.                                              *)
(*  - the view only grows, and the live set is part of it;                 *)
(*  - a peer's note only grows, and it is stored only while the peer is    *)
(*    not accused;                                                         *)
(*  - an accusation is recorded only above the peer's stored note;         *)
(*  - a peer becomes live only while it holds no accusation, and leaves    *)
(*    the live set only while it holds one (the removal timeout).          *)
(* Where the code is known to differ from the spec this module states the *)
(* code's weaker promise and says so: an evicted peer stays in the view,  *)
(* and an accused peer stays live until its timeout (README section 5);   *)
(* a rebuttal clears the accusation without storing the note              *)
(* (StaleAccusationRejected, Node.tla).                                   *)
(***************************************************************************)
EXTENDS Naturals

CONSTANTS Peers, MaxEpoch

VARIABLES
  view,  \* the known peers
  live,  \* the peers held live
  note,  \* note[p]: epoch of p's stored note, 0 for none
  acc    \* acc[p]: epoch of p's standing accusation, 0 for none

vars == <<view, live, note, acc>>

Epochs == 1..MaxEpoch

Init ==
  /\ view \subseteq Peers
  /\ live = view
  /\ note = [p \in Peers |-> 0]
  /\ acc = [p \in Peers |-> 0]

(* a certificate makes a peer known *)
Learn(p) ==
  /\ view' = view \cup {p}
  /\ UNCHANGED <<live, note, acc>>

(* a peer without an accusation is made live (and known, if it was not)   *)
Join(p) ==
  /\ acc[p] = 0
  /\ view' = view \cup {p}
  /\ live' = live \cup {p}
  /\ UNCHANGED <<note, acc>>

(* a newer note of a known, unaccused peer is stored *)
StoreNote(p, e) ==
  /\ p \in view /\ acc[p] = 0 /\ e > note[p]
  /\ note' = [note EXCEPT ![p] = e]
  /\ UNCHANGED <<view, live, acc>>

(* an accusation of a known peer at an epoch above its stored note stands *)
(* (it may replace one already standing)                                  *)
Accuse(p, e) ==
  /\ p \in view /\ e > note[p]
  /\ acc' = [acc EXCEPT ![p] = e]
  /\ UNCHANGED <<view, live, note>>

(* a rebuttal clears a standing accusation *)
Rebut(p) ==
  /\ acc[p] /= 0
  /\ acc' = [acc EXCEPT ![p] = 0]
  /\ UNCHANGED <<view, live, note>>

(* the removal timeout of a standing accusation drops the peer from the   *)
(* live set                                                                *)
Evict(p) ==
  /\ acc[p] /= 0
  /\ live' = live \ {p}
  /\ UNCHANGED <<view, note, acc>>

Next ==
  \E p \in Peers :
    \/ Learn(p) \/ Join(p) \/ Rebut(p) \/ Evict(p)
    \/ \E e \in Epochs : StoreNote(p, e) \/ Accuse(p, e)

Spec == Init /\ [][Next]_vars
=============================================================================
