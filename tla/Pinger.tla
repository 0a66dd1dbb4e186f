------------------------------- MODULE Pinger -------------------------------
(***************************************************************************)
(* Liveness probing over the unreliable channel (src/udp/udp.go 1-112) and *)
(* the monitor that drives it (spec 4.4; the pinger and the protocol's     *)
(* Monitor are not in the repository).                                     *)
(*                                                                         *)
(* The local node monitors one target, its predecessor on a ring.  Each    *)
(* monitor tick pings it with Server.Send: a fresh connected UDP socket,   *)
(* a write, and one read under a 5 s deadline.  The target's Server.Serve  *)
(* loop reads a request, signs it and writes the reply back to the socket  *)
(* it came from.  Datagrams may be lost, and may arrive after the deadline.*)
(* A reply arriving at a socket Send has closed is discarded by the host,  *)
(* so a datagram is only told apart as belonging to the current Send's     *)
(* socket ("cur") or to a closed one ("old").                              *)
(*                                                                         *)
(* The local node's own Serve loop and its shutdown are modelled as well:  *)
(* Serve checks exitChan only between two blocking reads.                  *)
(***************************************************************************)
EXTENDS Naturals

CONSTANTS
  PingLimit   \* consecutive failed pings after which the target is accused

ASSUME PingLimit \in Nat \ {0}

VARIABLES
  mPc,        \* the monitor goroutine: "idle", "write" (socket dialled), "read"
  failures,   \* consecutive failed pings of the target
  accused,    \* the local node has accused the target
  reqs,       \* requests in flight to the target: subset of {"cur", "old"}
  rep,        \* a reply to the current socket is in flight
  alive,      \* the target process is running
  tPc,        \* the target's Serve loop: "read", or the socket it answers
  exitClosed, \* the local Serve loop's exitChan is closed
  connClosed, \* the local server's conn is closed (Server.Shutdown)
  sPc         \* the local Serve loop: "select", "read" or "returned"

vars == <<mPc, failures, accused, reqs, rep, alive, tPc, exitClosed,
          connClosed, sPc>>

monitorVars == <<mPc, failures, accused>>
targetVars == <<alive, tPc>>
serverVars == <<exitClosed, connClosed, sPc>>

Init ==
  /\ mPc = "idle"
  /\ failures = 0
  /\ accused = FALSE
  /\ reqs = {}
  /\ rep = FALSE
  /\ alive = TRUE
  /\ tPc = "read"
  /\ exitClosed = FALSE
  /\ connClosed = FALSE
  /\ sPc = "select"

-----------------------------------------------------------------------------
(* The monitor (spec 4.4) around Server.Send (udp.go 43-73).               *)

(* a failed ping: one more consecutive failure; at PingLimit the local     *)
(* node accuses the target                                                 *)
Failed ==
  /\ failures' = IF failures < PingLimit THEN failures + 1 ELSE failures
  /\ accused' = (accused \/ failures + 1 >= PingLimit)

(* the deferred c.Close(): whatever is still addressed to the socket will  *)
(* reach a closed port                                                     *)
CloseSocket ==
  /\ reqs' = IF "cur" \in reqs THEN (reqs \ {"cur"}) \cup {"old"} ELSE reqs
  /\ rep' = FALSE
  /\ tPc' = IF tPc = "cur" THEN "old" ELSE tPc

(* mutant: every monitor tick starts counting failures afresh *)
MonitorTickResets ==
  /\ mPc = "idle"
  /\ mPc' = "write"
  /\ failures' = 0
  /\ UNCHANGED <<accused, reqs, rep, targetVars, serverVars>>

(* a monitor tick pings the target: ResolveUDPAddr, DialUDP of a fresh     *)
(* socket, SetDeadline(now + 5 s)                                          *)
MonitorTick ==
  /\ mPc = "idle"
  /\ mPc' = "write"
  /\ UNCHANGED <<failures, accused, reqs, rep, targetVars, serverVars>>

(* c.Write(data): the request leaves, or Write fails and Send returns the  *)
(* error                                                                   *)
SendWrite ==
  /\ mPc = "write"
  /\ \/ /\ reqs' = reqs \cup {"cur"}
        /\ mPc' = "read"
        /\ UNCHANGED <<failures, accused, rep, tPc>>
     \/ /\ Failed
        /\ mPc' = "idle"
        /\ CloseSocket
  /\ UNCHANGED <<alive, serverVars>>

(* c.Read: the reply arrives before the deadline; the ping succeeded *)
SendRead ==
  /\ mPc = "read"
  /\ rep
  /\ failures' = 0
  /\ mPc' = "idle"
  /\ CloseSocket
  /\ UNCHANGED <<accused, alive, serverVars>>

(* c.Read returns the deadline error: no reply within 5 s, though one may  *)
(* still be on its way                                                     *)
SendTimeout ==
  /\ mPc = "read"
  /\ Failed
  /\ mPc' = "idle"
  /\ CloseSocket
  /\ UNCHANGED <<alive, serverVars>>

-----------------------------------------------------------------------------
(* The network and the target.                                            *)

(* a request or a reply is lost *)
LoseReq(m) ==
  /\ m \in reqs
  /\ reqs' = reqs \ {m}
  /\ UNCHANGED <<monitorVars, rep, targetVars, serverVars>>

LoseRep ==
  /\ rep
  /\ rep' = FALSE
  /\ UNCHANGED <<monitorVars, reqs, targetVars, serverVars>>

(* the target process dies *)
Crash ==
  /\ alive
  /\ alive' = FALSE
  /\ UNCHANGED <<monitorVars, reqs, rep, tPc, serverVars>>

(* the target's Serve: ReadFrom returns a request *)
ServeRead(m) ==
  /\ alive
  /\ tPc = "read"
  /\ m \in reqs
  /\ reqs' = reqs \ {m}
  /\ tPc' = m
  /\ UNCHANGED <<monitorVars, rep, alive, serverVars>>

(* signMsg and WriteTo the request's address; a reply to a closed socket   *)
(* is discarded, and a failed write is logged and skipped                  *)
ServeReply ==
  /\ alive
  /\ tPc \in {"cur", "old"}
  /\ \/ rep' = (rep \/ tPc = "cur")
     \/ UNCHANGED rep
  /\ tPc' = "read"
  /\ UNCHANGED <<monitorVars, reqs, alive, serverVars>>

-----------------------------------------------------------------------------
(* The local Serve loop (udp.go 75-105) and Server.Shutdown (111-113).     *)

(* mutant: the select without its exitChan case *)
ServeSelectNoExit ==
  /\ sPc = "select"
  /\ sPc' = "read"
  /\ UNCHANGED <<monitorVars, reqs, rep, targetVars, exitClosed, connClosed>>

(* select: a closed exitChan returns, otherwise the default case blocks in *)
(* ReadFrom                                                                *)
ServeSelect ==
  /\ sPc = "select"
  /\ sPc' = IF exitClosed THEN "returned" ELSE "read"
  /\ UNCHANGED <<monitorVars, reqs, rep, targetVars, exitClosed, connClosed>>

(* ReadFrom returns a ping from another node, which is signed and         *)
(* answered; the loop continues                                            *)
ServeIncoming ==
  /\ sPc = "read"
  /\ ~connClosed
  /\ sPc' = "select"
  /\ UNCHANGED <<monitorVars, reqs, rep, targetVars, exitClosed, connClosed>>

(* ReadFrom on the closed conn fails at once; logged, and the loop         *)
(* continues                                                               *)
ServeReadError ==
  /\ sPc = "read"
  /\ connClosed
  /\ sPc' = "select"
  /\ UNCHANGED <<monitorVars, reqs, rep, targetVars, exitClosed, connClosed>>

(* the pinger's shutdown closes exitChan and, by Server.Shutdown, the conn *)
CloseExit ==
  /\ ~exitClosed
  /\ exitClosed' = TRUE
  /\ UNCHANGED <<monitorVars, reqs, rep, targetVars, connClosed, sPc>>

Shutdown ==
  /\ ~connClosed
  /\ connClosed' = TRUE
  /\ UNCHANGED <<monitorVars, reqs, rep, targetVars, exitClosed, sPc>>

-----------------------------------------------------------------------------
(* the monitor goroutine's steps; one Send at a time *)
Monitor == MonitorTick \/ SendWrite \/ SendRead \/ SendTimeout

(* the target's Serve loop *)
Target == (\E m \in {"cur", "old"} : ServeRead(m)) \/ ServeReply

(* what nobody controls: losses, the target's death, pings from other      *)
(* nodes, and the pinger's shutdown                                        *)
Environment ==
  \/ \E m \in {"cur", "old"} : LoseReq(m)
  \/ LoseRep \/ Crash \/ ServeIncoming \/ CloseExit \/ Shutdown

Next ==
  \/ Monitor \/ Target \/ Environment
  \/ ServeSelect \/ ServeReadError

(* The monitor loop keeps ticking and each Send returns by its deadline;   *)
(* a running target keeps serving; the local Serve loop keeps looping.     *)
(* Losses, crashes and incoming pings are not fair.                        *)
Fairness ==
  /\ WF_vars(MonitorTick) /\ WF_vars(SendWrite)
  /\ WF_vars(SendRead \/ SendTimeout)
  /\ WF_vars(Target)
  /\ WF_vars(ServeSelect) /\ WF_vars(ServeReadError)

Spec == Init /\ [][Next]_vars /\ Fairness

-----------------------------------------------------------------------------
(* Completeness of failure detection (spec 4.4): a target that has died is *)
(* eventually accused by its monitor, whatever replies were still in       *)
(* flight: each Send ends by its deadline, and failures accumulate to      *)
(* PingLimit.                                                              *)
DeadTargetAccused == (~alive) ~> accused

(* Once the pinger has closed both exitChan and the conn, the Serve loop   *)
(* returns; it sees exitChan only between reads, and the closed conn ends  *)
(* the blocking ReadFrom.                                                  *)
ServeReturns == (exitClosed /\ connClosed) ~> (sPc = "returned")

=============================================================================
