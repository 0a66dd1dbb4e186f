# TLA+ models of ifrit's membership engine

ifrit is a Fireflies-style membership service: every node keeps a view of the
other nodes, a live subset, signed *notes* (a node's epoch-stamped claim to be
alive) and signed *accusations* (a ring predecessor's claim that a node is
dead). It exchanges them by gossip and evicts accused nodes that do not rebut
in time. This directory holds TLA+ models of the repository's code, the TLC
configurations that check them, and `PROJECT.json`. That file lists the
components, the runs, the mutants, the map from definitions to source lines,
the findings and the hazards.

## 1. Inventory

| component | source | state | operations |
|---|---|---|---|
| Ring slice | `src/node/sort.go` | a slice of ring ids sorted by position | `insert` (binary-search insert), `search` (binary search, `errIdNotFound`) |
| Gossip merge (Spread handler) | `src/udp/udp.go` 113-404 | the node's `viewMap`, `liveMap`, each peer's `recentNote` and `accusation`, the timeout map, the local epoch | `Spread` (authenticate caller, neighbour test, add caller, merge), `mergeCertificates`/`evalCertificate`, `mergeNotes`/`evalNote`, `mergeAccusations`/`evalAccusation`, `Monitor` (empty reply) |
| Node start-up and loops | `src/lib/node/node.go` | the `Node` struct: exit channel, wait group, protocol slot, gossip data map, gossip timeout | `NewNode` (known certificates become view and live peers; local note epoch 1), `Start`, `gossipLoop`, `monitor`, `checkTimeouts`, `ShutDownNode`, `collectGossipContent` |
| Gossip data map | `node.go` 215-268 | `gossipDataMap` under its own lock | `getGossipData`, `gossipExists`, `addGossip`, `AppendGossipData` |
| Protocol slot, gossip interval | `node.go` 176-209 | `protocol`, `gossipTimeout`, each under a lock | `setProtocol`/`getProtocol`, `setGossipTimeout`/`getGossipTimeout` |
| UDP pinger transport | `src/udp/udp.go` 1-112 | a UDP socket | `Send` (5 s deadline, one reply of at most 256 bytes), `Serve` (sign each request, reply) |
| Gossip exchange | `node.go` 142-174, `udp.go` 201-203 | the message a node sends | `collectGossipContent` (view peers' certificates, notes, accusations; the own note as `OwnNote`), the receiver's merge |
| Client façade, configuration | `src/unnamed/part_000` | the config file's defaults | `NewClient`, `readConfig`, wrappers around the node |

Code the repository calls but does not contain: the view's maps and ring
queries (`isPrev`, `shouldBeNeighbours`, `isHigherRank`, `findNeighbours`,
`addLivePeer`...), the peer methods (`setNote`, `setAccusation`, `setEpoch`...),
the timeout methods (`startTimer`, `deleteTimeout`, `timerExist`) and the
`correct` protocol (`Monitor`, `Gossip`, `Rebuttal`, `Timeouts`). Where a model
needs them they are written from `spec.md` and marked `spec_modelled` in the
map.

**How the parts interact.** gRPC runs every `Spread` call in its own goroutine.
The handler reads and writes the shared view through many separately locked
calls, and none of those locks is held across a whole `evalNote` or
`evalAccusation`. Three loops run beside the handlers: gossip, monitor and
timeouts. The timeout loop removes a peer whose accusation timer has expired.
The rings are built from the live set. So every eviction and every new live
peer changes who is whose predecessor. It also changes who may accuse whom and
which callers count as neighbours.

**What is hard.** The handlers interleave with each other and with the timeout
loop, so check-then-act sequences on a peer can be overtaken. Gossip delivers
items late, duplicated and out of order, so an old accusation or note can come
back. A rebuttal races the removal timeout. The binary searches have boundary
cases: an empty slice, and the last element.

**What makes each part correct.**
- Ring: the slice stays strictly sorted. `search` finds exactly the ids on the
  ring, at the index `insert` returned, and reports `errIdNotFound` for any
  other id.
- Merge: a stored note never goes back to an older epoch (spec invariant 3).
  An accusation older than a note this node accepted is rejected (spec 4.3).
  A running timer belongs to an accused peer, so a rebutted peer is never
  evicted (spec 4.5). An accused live peer is eventually cleared or evicted.
  The local epoch never decreases (spec 4.3 step 1). The live set is contained
  in the view (spec invariant 1).
- Loops: no protocol step runs after
  `ShutDownNode` returned, and `ShutDownNode` returns. Gossip data handed to
  the node is stored. A step runs on full rings and open transports (spec 4.8).
- Pinger: a dead target is accused. The Serve loop returns after shutdown.
- Gossip between nodes: an accused node's rebuttal reaches its accuser
  (spec 4.3, 4.6).

## 2. Plan

Done so far:

1. `Node`: the Spread handler and its merges at lock granularity, with N
   concurrent handlers and the timeout loop. With one handler it refines
   the abstract view contract `Membership`.
2. `Ring`: `insert`/`search`, with the ring as an add/remove machine.
3. `Lifecycle`: `Start`, the three loops, `ShutDownNode`, the protocol slot
   and the gossip data map.
4. `Pinger`: `Send`/`Serve` over a lossy network, with the monitor's failure
   count from spec 4.4.
5. `Cluster`: two `Node` instances composed by gossip, with the monitor's
   accusation, each gossiping to its current neighbours. A violation run
   checks that rebuttals reach the accuser. Whether an accusation reaches the
   accused before its timeout is a timing question that abstract time cannot
   answer, so no run checks it.

Next, in order of value:

- `Cluster` with the Partners reply and three nodes, once the reply side
  exists in the code. This would check that views converge.
- `Membership` refined by each node of `Cluster`. With the rebuttal finding
  below, a cluster-wide refinement that includes rebuttals fails today.
- Calls carrying several items in one handler, in `Node`.

## 3. Modules and how they map to the code

### Ring (`src/node/sort.go`)
`insertLoop` and `searchLoop` are the two `for` loops, written as RECURSIVE
operators over `currIdx`/`maxIdx` with Go's 0-based indices. `At(s, i)` is
`slice[i]`. Any index outside the slice yields the result `err = "panic"`,
which stands for the Go runtime panic. `insert` returns the new slice and the
index written. The state machine has one variable, `ring`. `AddId` inserts an
absent id, and `RemoveId` searches and deletes (spec 4.1). `Pinned` holds the
local node's id, which never leaves its own rings.

### Node (`src/udp/udp.go` 113-404, `src/lib/node/node.go`)
This is the view of one node, `Local`. The variables are:

- `view` and `live`: the key sets of `viewMap` and `liveMap`.
- `note[p]`: the epoch of `recentNote`, with 0 for nil.
- `acc[p]`: the accusation's epoch and accuser, or `None`.
- `timer`: the keys of the timeout map.
- `epoch`: the local note's epoch.
- `hs[h]`: the program counter and current call of handler goroutine `h`.
- `seen`: a history variable holding the highest note epoch of each peer that
  this node stored or used as a rebuttal.

A call is a caller plus one gossip item: a certificate, a note or an
accusation. A signature is a flag saying whether it verifies.

Each action is one locked access of the code:

| action | code |
|---|---|
| `Receive` | a Spread call arrives at an idle goroutine |
| `SpreadNotNeighbour` / `SpreadNeighbour` | `Spread`: the neighbour test and the add of an unknown caller (view and live) |
| `EvalCertificate` | `evalCertificate` |
| `NoteLookup` | `getViewPeer`, signature check, `getAccusation`, branch |
| `NoteRead` / `NoteStore` / `NoteLive` | `getNote` and the epoch compare / `setNote` / `getLivePeer`+`addLivePeer` |
| `RebutTimer` / `RebutAccusation` / `RebutLive` | `deleteTimeout` / `removeAccusation` / `addLivePeer` |
| `AccSelf` | an accusation of `Local`: `setEpoch(epoch+1)`, `Rebuttal` |
| `AccLookup` | `getLivePeer(accused)`, `getNote`, the epoch test |
| `AccRank` | `getLivePeer(accuser)`, `getAccusation`, `isHigherRank`, signature |
| `AccPrev` / `AccSet` / `AccTimer` | `isPrev` / `setAccusation` / `timerExist`+`startTimer` |
| `Expire(p)` | the timeout loop's `Timeouts`, from spec 4.5: the peer leaves the live set and the rings; the timer is cleared |

Modelled from `spec.md`:

- The rings hold `live ∪ {Local}`. Positions are the constants `Pos[r][p]`.
- `isPrev(x, y)`: x is y's predecessor on some ring. The accusation carries no
  ring index in this code.
- `shouldBeNeighbours(id)`: id would be `Local`'s predecessor or successor on
  some ring.
- `isHigherRank(x, y, accused)`: x has the shorter forward distance to the
  accused, taking the minimum over all rings. The call site passes no pivot;
  spec 3 says the rank is measured relative to the accused.
- Eviction keeps the peer in the view, following spec 3 ("evicted peers leave
  the live set but remain in the view"). Spec 4.5 and scenario S6 instead say
  the peer is dropped from the view. The spec contradicts itself here, and the
  timeout code is not in the repository.
- `setEpoch(e)` assigns e.

### Membership (abstract view)
`Membership` states what a node's view promises, one merge at a time. It has
no rings, handlers, locks or timers. Its variables are `view`, `live`, `note[p]`
(epoch, 0 for none) and `acc[p]` (epoch of the standing accusation, 0 for
none). The actions, taken from spec 3, 4.3-4.5 and invariants 1-3 of spec 8:

- `Learn(p)`: a peer becomes known.
- `Join(p)`: a peer becomes live, only while it has no accusation.
- `StoreNote(p, e)`: a newer note, only for a known, unaccused peer.
- `Accuse(p, e)`: an accusation, only above the stored note.
- `Rebut(p)`: the accusation is cleared.
- `Evict(p)`: the peer leaves the live set, only while accused.

Where the code is already known to differ from the spec, the module states
the code's weaker promise. An evicted peer stays in the view. An accused peer
stays live until its timeout. A rebuttal does not store the note.

`Node` maps onto it with `View == INSTANCE Membership WITH acc <- [p |->
AccEpoch(p)]`. The other variables map by name. `NodeRefinesMembership ==
View!Spec` is checked in the run `node_seq`.

### Lifecycle (`node.go` 103-140, 176-188, 215-268, 329-431)
The actors are goroutines of the code:

- the caller of `Start`;
- the three loops `gossipLoop`, `monitor` and `checkTimeouts`;
- the caller of `ShutDownNode`;
- application goroutines calling `AppendGossipData`, and calls of `addGossip`
  (unexported, with no caller in the repository, modelled as its own action).

| variable | code |
|---|---|
| `startPc` | where `Start` is: before `setProtocol`, spawning, `<-done`, `<-exitChan`, returned |
| `protocol` | the protocol slot, `nil` until `setProtocol` |
| `loopPc[l]` | loop `l`: entering its select, waiting, in a protocol step (`tick`), exited, or panicked on a nil protocol |
| `wg` | the WaitGroup counter |
| `exitClosed`, `done` | `exitChan` closed, the `done` channel signalled |
| `shutPc` | where `ShutDownNode` is: removing rings, waiting, returned |
| `rings` | ring numbers the local node has not been removed from |
| `transports` | gRPC server and pinger: not started, up, shut down |
| `dataPanic` | an `addGossip` has panicked |
| `appendRes` | history: the last `AppendGossipData` call and its error |

`LoopTick` is `case <-time.After(...)`: `getProtocol()` and the call on it.
When `exitChan` was closed while the timer ran, both cases are ready and Go
picks either, so `LoopTick` stays enabled next to `LoopExit`. `NewNode` never
makes `gossipDataMap`, so the map is nil for the node's life. `addGossip`
always panics. `AppendGossipData` reads into a nil slice, so it returns an
error for every reader. A panic ends the process: `Next` is disabled once
`Crashed`.

### Pinger (`udp.go` 1-112)
The local node monitors one target. `Send` dials a fresh socket for each ping.
A datagram is tagged `"cur"` (to the current socket) or `"old"` (to a socket
`Send` has closed). The host discards anything that reaches a closed socket.

| variable | code |
|---|---|
| `mPc` | the monitor goroutine: idle, in `Write`, in `Read` |
| `failures`, `accused` | consecutive failed pings, and the accusation at `PingLimit` (spec 4.4) |
| `reqs`, `rep` | requests in flight; a reply to the current socket in flight |
| `alive`, `tPc` | the target process, and its Serve loop: reading, or answering `"cur"`/`"old"` |
| `exitClosed`, `connClosed`, `sPc` | the local Serve loop's exit channel, its conn, and where it is |

`SendWrite`, `SendRead` and `SendTimeout` are `Send`'s write, its read before
the deadline, and the deadline error. `CloseSocket` is the deferred
`c.Close()`. `ServeRead`/`ServeReply` are the target's `ReadFrom` and
`signMsg`+`WriteTo`. `ServeSelect`, `ServeIncoming` and `ServeReadError` are
the local loop's select, a packet from another node, and `ReadFrom` on the
closed conn. `CloseExit` and `Shutdown` are the pinger's shutdown. The
counting of failures follows spec 4.4, because the pinger and `Monitor` are
not in the repository.

### Cluster (`node.go` 142-174, `udp.go` 135-206)
Two instances of `Node`, `NX` and `NY`, each with its own copy of the
variables (`viewX`, `noteX`, ... `seenY`). Each node's `Peers` is the other
node. The composition adds three things:

- `collectGossipContent`: the certificates, notes and accusations of the view
  peers, plus the node's own note as `ownNote`.
- `SpreadItems`: what `Spread` merges. That is `GetCertificates`, `GetNotes`
  and `GetAccusations`. `OwnNote` is not among them.
- `GossipXY(it)`: the sender's gossip loop calls `Spread` with one item, on
  a current neighbour only (`Y \in NX!getNeighbours`, spec 4.6 step 2: the
  gossip loop sends to `n.getNeighbours()`, `udp.go:162`). `NY!Serve` then
  runs the handler.
- `AccuseXY(e)`: the monitor accuses the other node after failed pings (spec
  4.4). It records the accusation and starts the timer. `Pinger` shows that
  this happens to a running node when pings are lost.

A node that has evicted the other has no neighbours left and stops
gossiping. While it keeps the other live, delivering a message as one call
per item only adds interleavings the handler already allows.

### MC modules
`MCRing` uses positions 0..7 with the local id at 3. `MCNode` has the local
node `l` and peers `a`, `b`, `c` on two rings of eight positions:

- ring 1: l 0, a 2, b 3, c 5
- ring 2: l 0, c 1, b 4, a 6

So a is b's predecessor on ring 1 and c is b's predecessor on ring 2. Both may
accuse b, and a is ranked higher than c. b is not a neighbour of l while a and
c are both live. `InitialView = {a, b}`, so c joins by its certificate or by
calling. Epochs are 1..2. `MCItems` holds:

- the certificates of c and of l,
- b's notes (one of them forged) and a's note,
- accusations of b by a and by c (one forged),
- accusations of l.

The two-handler runs use `MCRaceItems`, which keeps only b's notes and the
accusations of b, to keep the state space small.

`MCLifecycle` has two rings, one data id and two blobs. `MCPinger` has
`PingLimit = 3`, the default `ping_limit`. `MCCluster` places two nodes on two
rings of eight positions, with epochs 1..2 for accusations. Each node starts
knowing the other. `MCClusterRebuttal.cfg` sets `CHECK_DEADLOCK FALSE`: once
both nodes have evicted each other neither has a neighbour, and both gossip
loops send nothing, which is the code's real behaviour.

## 4. Runs

| run | cfg | expect | what it shows |
|---|---|---|---|
| ring | MCRing.cfg | pass | `RingSorted`, `InsertThenSearch`, `SearchAgreesWithRing` hold on every ring reachable by adds and removes (128 states) |
| node_seq | MCNode.cfg | pass | one Spread call in flight, interleaved with the timeout loop. `TypeOK`, `TimerOnlyForAccused`, the liveness `AccusedLiveResolves` and `NodeRefinesMembership` hold (36 624 states) |
| node_note_race | MCNodeNoteRace.cfg | violation | two handlers: `getNote`…`setNote` lets an older note overwrite a newer one |
| node_rank_race | MCNodeRankRace.cfg | violation | two handlers: the rank test (`udp.go:271`) and `setAccusation` (`udp.go:310`) have no lock between them, so a lower-ranked accuser's accusation is stored over a higher-ranked one, against spec invariant 4 (13 steps) |
| node_timer_race | MCNodeTimerRace.cfg | violation | two handlers: a rebuttal between `setAccusation` and `startTimer` leaves a timer on a rebutted peer |
| node_resolve_race | MCNodeResolveRace.cfg | violation | two handlers: a note handler re-adds an evicted, accused peer to the live set, so it stays live and accused with no timer forever |
| node_stale_accusation | MCNodeStale.cfg | violation | one handler: the rebuttal note is not stored, so the rebutted accusation is accepted again |
| pinger | MCPinger.cfg | pass | with lost and late datagrams and a target that may die: `DeadTargetAccused`, and the liveness `ServeReturns` (2 780 states) |
| lifecycle | MCLifecycle.cfg | pass | `Start` and `ShutDownNode` in any order against the three loops: `TypeOK`, `NoTickAfterShutDown`, and the liveness `ShutDownReturns` (7 280 states) |
| lifecycle_shutdown_order | MCLifecycleShutDownOrder.cfg | violation | `ShutDownOrder`: a protocol step runs after `ShutDownNode` has stripped the rings, or after `Start` has shut the transports down |
| lifecycle_gossip_data | MCLifecycleGossipData.cfg | violation | `GossipDataAccepted`: `addGossip` panics on the nil map; `AppendGossipData` never takes data |
| cluster_rebuttal | MCClusterRebuttal.cfg | violation | `RebuttalReachesAccuser`: a fair lasso in which Y accuses X at epoch 2, X's handler raises its epoch to 3, Y's timeout evicts X, and X, which keeps Y live and keeps gossiping to it, never gets the epoch-3 note to Y |

The passing run `node_seq` and the three race runs together say where the
trouble is. The handler code is correct when its steps run one call at a time
against the timeout loop. It stops being correct as soon as two gRPC calls for
the same peer overlap. gRPC serves calls concurrently, and `Spread` takes no
lock across a merge, so the code allows such overlaps. The sequential
violation, `node_stale_accusation`, happens even without concurrency. The
same holds for the rank test: `AccuserRankNeverWorsens` holds with one
handler (checked while building the model) and fails with two
(`node_rank_race`). `NodeRefinesMembership` fails
with two handlers as well, through the races above.

The `cluster_rebuttal` counterexample is a cycle of gossip. X's gossip carries
its epoch-3 note only as `OwnNote`, and Y's `Spread` drops it. The `Notes`
list can never carry it either: it holds notes stored on view peers, and only
`evalNote` stores one. So between ifrit nodes no note ever arrives. As a check
of the model, merging `OwnNote` in `SpreadItems` makes the property hold (78 748
states, with accusation epochs kept below the bound and the own note given
fairness of its own, as a separate item).

**Bounds.**

- Three peers and two rings are the fewest that give the accused two
  authorised accusers of different rank, plus a caller that is sometimes not a
  neighbour.
- Two epochs are enough for "newer" and "older".
- Two handlers are enough for any race between two calls.
- Lifecycle: two rings show the remove loop half done. Three loops, one
  `Start` call and one `ShutDownNode` call cover every order of the calls.
- Pinger: `"cur"`/`"old"` tell apart every datagram that matters, since a
  closed socket's datagrams are all alike. `PingLimit = 3` lets failures and
  successes alternate.
- Cluster: two nodes are the fewest for an accuser and an accused. An
  accusation at epoch 2 and the rebuttal at 3 are the first that lie above the
  initial notes.
- Every counterexample above needs at most about 20 steps, and the state
  spaces are explored to completion.

**Fairness.** Every handler goroutine that is serving a call keeps running
(`WF` on `Serve(h)`). The timeout loop ticks forever (`checkTimeouts` runs
`time.After` in a loop), so `WF` is on each `Expire(p)`. New calls are not
fair: remote nodes may stop gossiping.

- Lifecycle: goroutines that have started keep running, so `WF` is on `Start`'s
  and `ShutDownNode`'s internal steps and on each loop. The application's
  calls and `httpHandler`'s `done` are not fair.
- Pinger: the monitor loop ticks, `Send` ends by its deadline, and a running
  target serves (`WF`). Losses, crashes and incoming pings are not fair.
- Cluster: handlers and timeout loops as in `Node`. A gossip loop sends its
  whole content every interval, forever, so each item is sent again and
  again. The receiving handler is busy at times, so this is strong fairness
  (`SF`) per item. Since a node's view holds only the other node, there is at
  most one item of each kind in `SpreadItems` (the own note is not among
  them, since `Spread` does not merge it), and `SF` per kind is `SF` per item.
  Accusations are not fair.

## 5. Spec-code divergences noted without a run

- `search` on an empty slice sets `maxIdx = -1` and reads `slice[0]`
  (`sort.go:55`), which panics. Spec 4.1 and property 6 say a search for an
  absent id returns `errIdNotFound`. While the node runs, the view keeps the
  local id in every ring, and `Ring` keeps it pinned. But `ShutDownNode`'s
  `n.remove` (`node.go:391`) takes the local id out of every ring while the
  loops still tick, and `lifecycle_shutdown_order` shows protocol steps
  running on the stripped rings: a ring can be empty then, which the `Ring`
  model does not reach.
- An accusation of the local node calls `setEpoch(epoch+1)` from the
  accusation's epoch alone (`udp.go:253`). Spec 4.3 step 1 says
  `max(currentEpoch, epoch) + 1`. A delayed older accusation lowers the local
  epoch, below notes the node has already issued. A single handler reaches it
  in six steps.
- `NewNode` binds the UDP socket first (`udp.NewServer`, `node.go:276`). Every
  later error return (`node.go` 285-369) drops the server without
  `Shutdown`, so each failed `NewNode` leaks a bound port. `NewServer` itself
  leaks its conn when `LookupHost` fails after `ListenUDP` (`udp.go:33`). This
  is construction I/O with no interleaving, so it is not modelled.
- `Send` reads at most 256 bytes (`udp.go:64`). A longer signed reply would be
  cut off. Spec 6 bounds both messages to 256 bytes, so this is not modelled.

- `evalAccusation` accepts an accusation only if its epoch is strictly greater
  than the stored note's (`udp.go:262`). Spec 3 and 4.3 accept epoch ≥ note
  epoch.
- `evalAccusation` does not remove the accused from the live set. Spec 4.3
  step 7 and invariant 2 say accused peers are not live. Here an accused peer
  stays live until its timer expires.
- The signed note payload is `fmt.Sprintf("%v")` of `{Epoch, Id}`, without the
  mask (`udp.go:335-339`). Spec 3 includes the mask.
- `Spread` adds an unknown caller to the live set, without a note, in both
  branches (`udp.go:172-173`, `197-198`). Spec 9 says the stub must not be
  live until a signed note arrives.

## 6. Not modelled, and why

- The client façade and configuration are glue and I/O.
- The CA, certificate parsing and cryptography are out of scope in spec 1.
  Signatures are flags.
- Masks are not modelled, because this code neither stores nor signs them.
- Authentication errors in `Spread` (no peer, no TLS, no certificate) return
  before any state change, so they are not modelled.
- `setGossipTimeout` has no caller and sets a duration. Time is abstract.
- The race of two handlers adding the same id (`udp.go:395`, `191-199`). The
  outcome depends on `addViewPeer`/`addLivePeer`, which are not in the
  repository.
- Application gossip data in messages, and the `Partners` reply: their
  receiving side is not in the repository, and the data map is always nil.
- The pinger's own shutdown and the protocol's `Monitor` are not in the
  repository. `Pinger` follows spec 4.4 for them.
