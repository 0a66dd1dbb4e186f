-------------------------------- MODULE Ring --------------------------------
(***************************************************************************)
(* One consistent-hash ring of a node's view: a Go slice of ring ids kept  *)
(* sorted by position (src/node/sort.go).  A ring id is abstracted to its  *)
(* position on the ring, a natural number; cmpId compares positions.       *)
(*                                                                         *)
(* insert and search are the binary searches of sort.go, written as        *)
(* recursive operators over the loop variables currIdx and maxIdx with Go  *)
(* indices (0-based); s[i+1] is the Go slice element slice[i].  A read     *)
(* outside the slice is the Go runtime panic, returned as the error        *)
(* "panic".                                                                *)
(*                                                                         *)
(* The ring as a state machine adds ids with insert and removes them with  *)
(* search followed by a delete (the view's ring add/remove, spec 4.1).     *)
(***************************************************************************)
EXTENDS Integers, Sequences, SequencesExt

CONSTANTS
  Positions,   \* positions of the ids that may join the ring
  Pinned       \* ids that are never removed (the local node's own id)

ASSUME Positions \subseteq Nat /\ Pinned \subseteq Positions

VARIABLE ring   \* the sorted slice of ring ids

vars == <<ring>>

NoIdx == -1

(* slice[i] in Go; undefined outside 0..len-1 *)
At(s, i) == s[i + 1]

InSlice(s, i) == 0 <= i /\ i < Len(s)

(* ringId.cmpId: -1, 0 or 1 as the position of a is below, equal to or    *)
(* above that of b.                                                        *)
cmpId(a, b) == IF a < b THEN -1 ELSE IF a = b THEN 0 ELSE 1

(* Mutants of the binary searches, used to show that the properties below *)
(* can fail: insert without the final "currIdx += 1" adjustment; insert    *)
(* that writes newId after slice[currIdx] but returns the unadjusted       *)
(* index; search that compares slice[maxIdx] instead of slice[currIdx].    *)
RECURSIVE insertLoopNoAdjust(_, _, _, _)
insertLoopNoAdjust(s, newId, currIdx, maxIdx) ==
  IF currIdx >= maxIdx
  THEN IF ~InSlice(s, currIdx) THEN [idx |-> NoIdx, err |-> "panic"]
       ELSE [idx |-> currIdx, err |-> "none"]
  ELSE LET mid == (currIdx + maxIdx) \div 2
       IN  IF cmpId(At(s, mid), newId) = -1
           THEN insertLoopNoAdjust(s, newId, mid + 1, maxIdx)
           ELSE insertLoopNoAdjust(s, newId, currIdx, mid - 1)

insertStaleIdx(s, newId) ==
  LET r == IF Len(s) = 0 THEN [idx |-> 0, err |-> "none"]
           ELSE insertLoopNoAdjust(s, newId, 0, Len(s) - 1)
      placed == IF Len(s) > 0 /\ r.err = "none" /\ At(s, r.idx) < newId
                THEN r.idx + 1 ELSE r.idx
  IN  [slice |-> IF r.err = "none" THEN InsertAt(s, placed + 1, newId) ELSE s,
       idx   |-> r.idx,
       err   |-> r.err]

RECURSIVE searchLoopCheckMax(_, _, _, _)
searchLoopCheckMax(s, searchId, currIdx, maxIdx) ==
  IF currIdx >= maxIdx
  THEN IF ~InSlice(s, maxIdx) THEN [idx |-> NoIdx, err |-> "panic"]
       ELSE IF cmpId(At(s, maxIdx), searchId) = 0
            THEN [idx |-> maxIdx, err |-> "none"]
            ELSE [idx |-> NoIdx, err |-> "notfound"]
  ELSE LET mid == (currIdx + maxIdx) \div 2
           cmp == cmpId(At(s, mid), searchId)
       IN  CASE cmp = -1 -> searchLoopCheckMax(s, searchId, mid + 1, maxIdx)
             [] cmp = 1  -> searchLoopCheckMax(s, searchId, currIdx, mid - 1)
             [] OTHER    -> [idx |-> mid, err |-> "none"]

(* The loop of insert (sort.go 25-44).  When currIdx >= maxIdx the slice   *)
(* has been grown by one and shifted right from currIdx, so slice[currIdx] *)
(* still holds the old element there; the result is the index newId is     *)
(* written to.  Reading past the old slice reads the appended nil.         *)
RECURSIVE insertLoop(_, _, _, _)
insertLoop(s, newId, currIdx, maxIdx) ==
  IF currIdx >= maxIdx
  THEN IF ~InSlice(s, currIdx) THEN [idx |-> NoIdx, err |-> "panic"]
       ELSE IF cmpId(At(s, currIdx), newId) = -1
            THEN [idx |-> currIdx + 1, err |-> "none"]
            ELSE [idx |-> currIdx, err |-> "none"]
  ELSE LET mid == (currIdx + maxIdx) \div 2
       IN  IF cmpId(At(s, mid), newId) = -1
           THEN insertLoop(s, newId, mid + 1, maxIdx)
           ELSE insertLoop(s, newId, currIdx, mid - 1)

(* insert (sort.go 15-45): an empty slice gets newId appended at index 0.  *)
insertIdx(s, newId) ==
  IF Len(s) - 1 = -1 THEN [idx |-> 0, err |-> "none"]
  ELSE insertLoop(s, newId, 0, Len(s) - 1)

insert(s, newId) ==
  LET r == insertIdx(s, newId)
  IN  [slice |-> IF r.err = "none" THEN InsertAt(s, r.idx + 1, newId) ELSE s,
       idx   |-> r.idx,
       err   |-> r.err]

(* search (sort.go 48-74), including the read of slice[currIdx] when the   *)
(* slice is empty (currIdx = 0 > maxIdx = -1).                             *)
RECURSIVE searchLoop(_, _, _, _)
searchLoop(s, searchId, currIdx, maxIdx) ==
  IF currIdx >= maxIdx
  THEN IF ~InSlice(s, currIdx) THEN [idx |-> NoIdx, err |-> "panic"]
       ELSE IF cmpId(At(s, currIdx), searchId) = 0
            THEN [idx |-> currIdx, err |-> "none"]
            ELSE [idx |-> NoIdx, err |-> "notfound"]
  ELSE LET mid == (currIdx + maxIdx) \div 2
           cmp == cmpId(At(s, mid), searchId)
       IN  CASE cmp = -1 -> searchLoop(s, searchId, mid + 1, maxIdx)
             [] cmp = 1  -> searchLoop(s, searchId, currIdx, mid - 1)
             [] OTHER    -> [idx |-> mid, err |-> "none"]

search(s, searchId) == searchLoop(s, searchId, 0, Len(s) - 1)

-----------------------------------------------------------------------------

Init == ring = SetToSortSeq(Pinned, <)

(* ring add: an id not yet on the ring is inserted at its position *)
AddId(x) ==
  /\ x \notin ToSet(ring)
  /\ LET r == insert(ring, x) IN
       /\ r.err = "none"
       /\ ring' = r.slice

(* ring remove: search for the id, delete it when found; a failed search   *)
(* (errIdNotFound) leaves the ring unchanged; the error is returned.      *)
RemoveId(x) ==
  /\ x \notin Pinned
  /\ LET r == search(ring, x) IN
       /\ r.err /= "panic"
       /\ ring' = IF r.err = "none" THEN RemoveAt(ring, r.idx + 1) ELSE ring

Next == \E x \in Positions : AddId(x) \/ RemoveId(x)

Spec == Init /\ [][Next]_vars

-----------------------------------------------------------------------------

(* Spec invariant 5: after any sequence of binary-search inserts and       *)
(* removes the ring holds each id once, in strictly increasing position.   *)
RingSorted == IsSorted(ring, <)

(* Spec invariant 6: inserting an absent id into the current ring and then *)
(* searching for it finds it at the index insert returned.                 *)
InsertThenSearch ==
  \A x \in Positions \ ToSet(ring) :
    LET r == insert(ring, x) IN
      /\ r.err = "none"
      /\ search(r.slice, x) = [idx |-> r.idx, err |-> "none"]

(* search agrees with the slice: an id on the ring is found at its index,  *)
(* any other id gives errIdNotFound (never a runtime panic).               *)
SearchAgreesWithRing ==
  \A x \in Positions :
    search(ring, x) =
      IF x \in ToSet(ring)
      THEN [idx |-> SelectInSeq(ring, LAMBDA y : y = x) - 1, err |-> "none"]
      ELSE [idx |-> NoIdx, err |-> "notfound"]

=============================================================================
