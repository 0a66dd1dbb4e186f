------------------------------ MODULE Lifecycle ------------------------------
(***************************************************************************)
(* The life of an ifrit Node object (src/lib/node/node.go): Start, the     *)
(* three periodic loops it spawns (gossipLoop, monitor, checkTimeouts),    *)
(* ShutDownNode, the protocol slot the loops dispatch through, and the     *)
(* application gossip data map.                                            *)
(*                                                                         *)
(* Actors, each a goroutine of the code:                                   *)
(*  - the caller of Start, which runs Start to its end;                    *)
(*  - the three loops, each a select between the closed exitChan and a     *)
(*    timer; a timer firing runs one step of the current protocol          *)
(*    (getProtocol().Gossip / Monitor / Timeouts);                         *)
(*  - the caller of ShutDownNode;                                          *)
(*  - callers of AppendGossipData (the application) and of addGossip      *)
(*    (unexported, with no caller in the repository), each atomic under    *)
(*    gossipDataMutex.                                                     *)
(* Time is abstract: a loop's timer may fire whenever the loop waits.      *)
(* A protocol step is not modelled in detail (Node.tla models its          *)
(* effect); here it is the interval in which it runs, reading the rings    *)
(* and using the transports.                                               *)
(***************************************************************************)
EXTENDS Naturals, FiniteSets

CONSTANTS
  RingNums,   \* ring numbers of ringMap
  DataIds,    \* ids of application gossip data
  Blobs,      \* gossip data contents
  None        \* nil

(* the periodic loops Start spawns, named after their functions *)
Loops == {"gossipLoop", "monitor", "checkTimeouts"}

(* what a Reader passed to AppendGossipData holds: nothing, or a blob *)
Readers == {"empty"} \cup Blobs

VARIABLES
  startPc,    \* where the Start goroutine is
  protocol,   \* the protocol slot: "nil" or "correct"
  loopPc,     \* loopPc[l]: where loop l is
  wg,         \* the WaitGroup counter
  exitClosed, \* exitChan has been closed
  done,       \* httpHandler has signalled the done channel
  shutPc,     \* where the ShutDownNode goroutine is
  rings,      \* ring numbers the local node has not been removed from
  transports, \* "up" after Start launches server and pinger, "down" after shutdown
  dataPanic,  \* an addGossip call has panicked, ending the process
  appendRes   \* history: the last AppendGossipData call and its result

startVars == <<startPc, protocol, transports, done>>  \* Start's goroutine and what it launches
loopVars  == <<loopPc, wg>>
shutVars  == <<shutPc, exitClosed, rings>>           \* ShutDownNode's goroutine
dataVars  == <<dataPanic, appendRes>>
vars == <<startVars, loopVars, shutVars, dataVars>>

-----------------------------------------------------------------------------
(* NewNode (node.go 329-347): the node exists, nothing runs yet, the       *)
(* protocol slot is nil.  The Node literal does not make gossipDataMap,    *)
(* and nothing in the repository does, so the map is a nil map for the     *)
(* node's whole life; it has no variable of its own.                       *)
Init ==
  /\ startPc = "new"
  /\ protocol = "nil"
  /\ loopPc = [l \in Loops |-> "none"]
  /\ wg = 0
  /\ exitClosed = FALSE
  /\ done = FALSE
  /\ shutPc = "none"
  /\ rings = RingNums
  /\ transports = "none"
  /\ dataPanic = FALSE
  /\ appendRes = None

-----------------------------------------------------------------------------
(* Start (node.go 398-431).                                                *)

(* mutant: Start may be called again while it runs, spawning the loops    *)
(* a second time                                                           *)
StartCallAgain ==
  /\ startPc /= "setProtocol"
  /\ startPc' = "setProtocol"
  /\ UNCHANGED <<protocol, transports, done, loopVars, shutVars, dataVars>>

(* the application calls Start *)
StartCall ==
  /\ startPc = "new"
  /\ startPc' = "setProtocol"
  /\ UNCHANGED <<protocol, transports, done, loopVars, shutVars, dataVars>>

(* setProtocol(correct{}) under protocolMutex *)
setProtocol ==
  /\ startPc = "setProtocol"
  /\ protocol' = "correct"
  /\ startPc' = "spawn"
  /\ UNCHANGED <<transports, done, loopVars, shutVars, dataVars>>

(* go server.Start(), go pinger.serve(), wg.Add(3), go each loop *)
StartSpawn ==
  /\ startPc = "spawn"
  /\ transports' = "up"
  /\ wg' = wg + 3
  /\ loopPc' = [l \in Loops |-> "enter"]
  /\ startPc' = "waitDone"
  /\ UNCHANGED <<protocol, done, shutVars, dataVars>>

(* httpHandler signals done (its code is not in the repository) *)
HttpDone ==
  /\ startPc /= "new"
  /\ ~done
  /\ done' = TRUE
  /\ UNCHANGED <<startPc, protocol, transports, loopVars, shutVars, dataVars>>

(* <-done *)
StartWaitDone ==
  /\ startPc = "waitDone"
  /\ done
  /\ startPc' = "waitExit"
  /\ UNCHANGED <<protocol, transports, done, loopVars, shutVars, dataVars>>

(* <-n.exitChan, then server.ShutDown() and pinger.shutdown() *)
StartShutDown ==
  /\ startPc = "waitExit"
  /\ exitClosed
  /\ transports' = "down"
  /\ startPc' = "returned"
  /\ UNCHANGED <<protocol, done, loopVars, shutVars, dataVars>>

-----------------------------------------------------------------------------
(* gossipLoop, monitor, checkTimeouts (node.go 103-140): one iteration of  *)
(* the for-select.                                                         *)

(* the select is entered with a fresh timer (time.After of getGossipTimeout *)
(* or the fixed interval): a closed exitChan is the only ready case.       *)
LoopEnter(l) ==
  /\ loopPc[l] = "enter"
  /\ IF exitClosed THEN /\ loopPc' = [loopPc EXCEPT ![l] = "exited"]
                        /\ wg' = wg - 1
                   ELSE /\ loopPc' = [loopPc EXCEPT ![l] = "select"]
                        /\ UNCHANGED wg
  /\ UNCHANGED <<startVars, shutVars, dataVars>>

(* mutant: the exit case returns without wg.Done() *)
LoopExitNoDone(l) ==
  /\ loopPc[l] = "select"
  /\ exitClosed
  /\ loopPc' = [loopPc EXCEPT ![l] = "exited"]
  /\ UNCHANGED <<startVars, wg, shutVars, dataVars>>

(* case <-n.exitChan: wg.Done() and return *)
LoopExit(l) ==
  /\ loopPc[l] = "select"
  /\ exitClosed
  /\ loopPc' = [loopPc EXCEPT ![l] = "exited"]
  /\ wg' = wg - 1
  /\ UNCHANGED <<startVars, shutVars, dataVars>>

(* case <-time.After(...): getProtocol() under protocolMutex, then the     *)
(* call on it; a nil protocol interface panics.  When exitChan was closed  *)
(* while the timer was running both cases may be ready and Go picks either.*)
LoopTick(l) ==
  /\ loopPc[l] = "select"
  /\ loopPc' = [loopPc EXCEPT ![l] = IF protocol = "nil" THEN "panic" ELSE "tick"]
  /\ UNCHANGED <<startVars, wg, shutVars, dataVars>>

(* the protocol step returns and the loop starts its next iteration *)
LoopStep(l) ==
  /\ loopPc[l] = "tick"
  /\ loopPc' = [loopPc EXCEPT ![l] = "enter"]
  /\ UNCHANGED <<startVars, wg, shutVars, dataVars>>

-----------------------------------------------------------------------------
(* ShutDownNode (node.go 390-396).                                         *)

(* the application calls ShutDownNode, once *)
ShutDownCall ==
  /\ shutPc = "none"
  /\ shutPc' = "remove"
  /\ UNCHANGED <<startVars, loopVars, exitClosed, rings, dataVars>>

(* for each ring of ringMap: n.remove(ringNum) *)
ShutRemove(r) ==
  /\ shutPc = "remove"
  /\ r \in rings
  /\ rings' = rings \ {r}
  /\ UNCHANGED <<startVars, loopVars, shutPc, exitClosed, dataVars>>

(* close(n.exitChan) once the range over ringMap is finished *)
ShutClose ==
  /\ shutPc = "remove"
  /\ rings = {}
  /\ exitClosed' = TRUE
  /\ shutPc' = "wait"
  /\ UNCHANGED <<startVars, loopVars, rings, dataVars>>

(* mutant: ShutDownNode returns without wg.Wait() *)
ShutNoWait ==
  /\ shutPc = "wait"
  /\ shutPc' = "returned"
  /\ UNCHANGED <<startVars, loopVars, exitClosed, rings, dataVars>>

(* n.wg.Wait() returns when the counter is zero *)
ShutWait ==
  /\ shutPc = "wait"
  /\ wg = 0
  /\ shutPc' = "returned"
  /\ UNCHANGED <<startVars, loopVars, exitClosed, rings, dataVars>>

-----------------------------------------------------------------------------
(* The gossip data map (node.go 215-268), each call under gossipDataMutex; *)
(* the map is nil (see Init).                                              *)

(* addGossip: the id is absent from the nil map, and the assignment to it  *)
(* panics ("assignment to entry in nil map").                              *)
addGossip(data, id) ==
  /\ dataPanic' = TRUE
  /\ UNCHANGED <<startVars, loopVars, shutVars, appendRes>>

(* AppendGossipData: data.Read(bytes) with bytes a nil slice reads zero    *)
(* bytes.  An io.Reader asked for zero bytes returns (0, nil), or          *)
(* (0, io.EOF) when it is exhausted; either way the call returns an error  *)
(* (the read error, or errNoData) before it writes the map.               *)
AppendGossipData(id, reader) ==
  /\ \E err \in IF reader = "empty" THEN {"EOF", "errNoData"} ELSE {"errNoData"} :
       appendRes' = [id |-> id, reader |-> reader, err |-> err]
  /\ UNCHANGED <<startVars, loopVars, shutVars, dataPanic>>

-----------------------------------------------------------------------------
(* one step of a loop goroutine *)
Loop(l) == LoopEnter(l) \/ LoopExit(l) \/ LoopTick(l) \/ LoopStep(l)

(* the internal steps of Start and of ShutDownNode once called *)
StartStep == setProtocol \/ StartSpawn \/ StartWaitDone \/ StartShutDown

ShutDownStep == (\E r \in RingNums : ShutRemove(r)) \/ ShutClose \/ ShutWait

(* calls made by the application, and httpHandler *)
Environment ==
  \/ StartCall \/ ShutDownCall \/ HttpDone
  \/ \E d \in DataIds, b \in Blobs : addGossip(b, d)
  \/ \E d \in DataIds, rd \in Readers : AppendGossipData(d, rd)

(* a panic in any goroutine ends the process *)
Crashed == dataPanic \/ \E l \in Loops : loopPc[l] = "panic"

Next ==
  /\ ~Crashed
  /\ \/ Environment
     \/ StartStep
     \/ ShutDownStep
     \/ \E l \in Loops : Loop(l)

(* Goroutines that have begun keep running and timers keep firing; the     *)
(* application need not call anything, and httpHandler need not signal.    *)
Fairness ==
  /\ WF_vars(StartStep)
  /\ WF_vars(ShutDownStep)
  /\ \A l \in Loops : WF_vars(Loop(l))

Spec == Init /\ [][Next]_vars /\ Fairness

-----------------------------------------------------------------------------
TypeOK ==
  /\ startPc \in {"new", "setProtocol", "spawn", "waitDone", "waitExit", "returned"}
  /\ protocol \in {"nil", "correct"}
  /\ loopPc \in [Loops -> {"none", "enter", "select", "tick", "exited", "panic"}]
  /\ wg \in 0..3
  /\ exitClosed \in BOOLEAN /\ done \in BOOLEAN
  /\ shutPc \in {"none", "remove", "wait", "returned"}
  /\ rings \subseteq RingNums
  /\ transports \in {"none", "up", "down"}
  /\ dataPanic \in BOOLEAN
  /\ appendRes \in {None} \cup [id : DataIds, reader : Readers, err : {"EOF", "errNoData", "nil"}]

(* Once ShutDownNode has returned no protocol step is running, whether     *)
(* ShutDownNode ran before, during or after Start: wg.Wait covers every    *)
(* loop Start counted with wg.Add, and a loop spawned later sees the       *)
(* closed exitChan first.                                                  *)
NoTickAfterShutDown == shutPc = "returned" => \A l \in Loops : loopPc[l] /= "tick"

(* Every ShutDownNode that has closed exitChan returns, unless the process *)
(* has crashed: each loop leaves its select and calls wg.Done.             *)
ShutDownReturns == (shutPc = "wait") ~> (shutPc = "returned" \/ Crashed)

(* Spec 4.8: on shutdown the signal is closed and every task finishes     *)
(* before anything else is torn down, so a protocol step always runs on    *)
(* the full rings and open transports.  About ShutDownNode's remove loop   *)
(* before close(exitChan), and Start's server.ShutDown / pinger.shutdown   *)
(* right after <-exitChan.                                                 *)
ShutDownOrder ==
  \A l \in Loops : loopPc[l] = "tick" => rings = RingNums /\ transports = "up"

(* Gossip data the application hands to the node is taken: addGossip      *)
(* returns without crashing the node, and AppendGossipData with a reader   *)
(* holding data returns nil.                                               *)
GossipDataAccepted ==
  /\ ~dataPanic
  /\ appendRes /= None /\ appendRes.reader /= "empty" => appendRes.err = "nil"

=============================================================================
