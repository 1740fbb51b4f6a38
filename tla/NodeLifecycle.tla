--------------------------- MODULE NodeLifecycle ----------------------------
(***************************************************************************)
(* cmd/messenger: a node starts, serves the write path of ChatLog, is told *)
(* to stop, drains and exits, or dies.  net/http's Server is modelled from *)
(* its use: Shutdown closes the listener, waits for the connections whose  *)
(* request is being served and for those that were opened but sent nothing *)
(* yet (for at most five seconds), and not for hijacked ones.              *)
(***************************************************************************)
EXTENDS ChatLog

\* With the in-memory store a process starts from an empty log.
ASSUME DurableAssumption == Backend = "scylla"

VARIABLES
    phase,    \* of each node: "serving", "draining" (inside Shutdown), or how its
              \* last process ended, "clean" or "failed"
    silent,   \* a connection that sent nothing yet is open, by node
    stream    \* a WebSocket of the node: "none", "upgrading" or "hijacked"

nodeVars == <<phase, silent, stream>>
lifeVars == <<vars, nodeVars>>

LifeInit ==
    /\ Init
    /\ phase = [n \in Nodes |-> "clean"]
    /\ silent = [n \in Nodes |-> FALSE]
    /\ stream = [n \in Nodes |-> "none"]

Running(n) == phase[n] \in {"serving", "draining"}

Busy(n) == \E p \in Procs : NodeOf[p] = n /\ pc[p] # "idle"

-----------------------------------------------------------------------------
(***************************************************************************)
(* Starting.                                                               *)
(***************************************************************************)

\* The store, the cache and the broker are connected and the listener is open.
Start(n) ==
    /\ ~ Running(n)
    /\ phase' = [phase EXCEPT ![n] = "serving"]
    /\ UNCHANGED <<vars, silent, stream>>

\* ScyllaDB or RabbitMQ cannot be reached, or the address is in use: log.Fatalf.
StartFails(n) ==
    /\ ~ Running(n)
    /\ phase' = [phase EXCEPT ![n] = "failed"]
    /\ UNCHANGED <<vars, silent, stream>>

-----------------------------------------------------------------------------
(***************************************************************************)
(* Serving.                                                                *)
(***************************************************************************)

Connect(n) ==
    /\ phase[n] = "serving" /\ ~ silent[n]
    /\ silent' = [silent EXCEPT ![n] = TRUE]
    /\ UNCHANGED <<vars, phase, stream>>

\* A request comes in on a new connection, or on one that was silent: the only
\* kind that Shutdown still lets in.
Request(n) ==
    \/ phase[n] = "serving" /\ UNCHANGED <<phase, silent>>
    \/ /\ Running(n) /\ silent[n]
       /\ silent' = [silent EXCEPT ![n] = FALSE]
       /\ UNCHANGED phase

\* A request that validation turns away ends as it begins: nothing waits for it.
Send(p, r) == Accept(p, r) /\ Request(NodeOf[p]) /\ UNCHANGED stream

OpenStream(n) ==
    /\ Request(n)
    /\ stream[n] = "none"
    /\ stream' = [stream EXCEPT ![n] = "upgrading"]
    /\ UNCHANGED vars

\* The subscription and the upgrade succeed, or one of them fails.
Handshake(n) ==
    /\ stream[n] = "upgrading"
    /\ \E s \in {"hijacked", "none"} : stream' = [stream EXCEPT ![n] = s]
    /\ UNCHANGED <<vars, phase, silent>>

\* The client goes away.
CloseStream(n) ==
    /\ stream[n] = "hijacked"
    /\ stream' = [stream EXCEPT ![n] = "none"]
    /\ UNCHANGED <<vars, phase, silent>>

-----------------------------------------------------------------------------
(***************************************************************************)
(* Stopping.                                                               *)
(***************************************************************************)

\* SIGINT or SIGTERM cancels the context and Shutdown begins.
Signal(n) ==
    /\ phase[n] = "serving"
    /\ phase' = [phase EXCEPT ![n] = "draining"]
    /\ UNCHANGED <<vars, silent, stream>>

\* Shutdown gives up on a connection that has been silent for five seconds.
SilentExpires(n) ==
    /\ phase[n] = "draining" /\ silent[n]
    /\ silent' = [silent EXCEPT ![n] = FALSE]
    /\ UNCHANGED <<vars, phase, stream>>

\* The process ends, with its goroutines, mutexes and connections.
Ends(n, how) ==
    /\ phase' = [phase EXCEPT ![n] = how]
    /\ silent' = [silent EXCEPT ![n] = FALSE]
    /\ stream' = [stream EXCEPT ![n] = "none"]
    /\ Dies(n)

\* Shutdown that waits for every connection, the WebSockets included.
DrainedOfStreams(n) ==
    /\ phase[n] = "draining"
    /\ ~ Busy(n) /\ ~ silent[n] /\ stream[n] = "none"
    /\ Ends(n, "clean")

\* Shutdown returns nil: every connection but the hijacked ones is closed.
Drained(n) ==
    /\ phase[n] = "draining"
    /\ ~ Busy(n) /\ ~ silent[n] /\ stream[n] # "upgrading"
    /\ Ends(n, "clean")

\* shutdownTimeout passes first.
DeadlinePasses(n) == phase[n] = "draining" /\ Ends(n, "failed")

\* ListenAndServe fails: nothing is drained.
ListenerFails(n) == phase[n] = "serving" /\ Ends(n, "failed")

Killed(n) == "crash" \in Faults /\ Running(n) /\ Ends(n, "failed")

-----------------------------------------------------------------------------
LifeNext ==
    \/ \E n \in Nodes :
        \/ Start(n) \/ StartFails(n) \/ Connect(n)
        \/ OpenStream(n) \/ Handshake(n) \/ CloseStream(n)
        \/ Signal(n) \/ SilentExpires(n) \/ Drained(n)
        \/ DeadlinePasses(n) \/ ListenerFails(n) \/ Killed(n)
    \/ \E p \in Procs, r \in Requests : Send(p, r)
    \/ /\ UNCHANGED nodeVars
       /\ \/ \E p \in Procs : Lock(p) \/ Step(p)
          \/ \E w \in limbo : LateAppend(w)
          \/ \E w \in lateSnaps : LateSave(w)

(***************************************************************************)
(* A running goroutine is scheduled and every call on the store, the cache *)
(* or the broker ends, by a result or by its timeout; sync.Mutex hands     *)
(* itself to a waiter that it has kept waiting, so a goroutine that again  *)
(* and again finds the mutex free gets it.  Shutdown polls until its       *)
(* connections are gone, the five seconds of a silent connection pass and  *)
(* a handshake ends.  Nothing makes a client close its stream, a signal    *)
(* come, a node start or the deadline pass.                                *)
(***************************************************************************)
LifeFairness ==
    /\ \A p \in Procs : WF_lifeVars(Step(p) /\ UNCHANGED nodeVars)
                        /\ SF_lifeVars(Lock(p) /\ UNCHANGED nodeVars)
    /\ \A n \in Nodes : /\ WF_lifeVars(Drained(n)) /\ WF_lifeVars(SilentExpires(n))
                        /\ WF_lifeVars(Handshake(n))

LifeSpec == LifeInit /\ [][LifeNext]_lifeVars /\ LifeFairness

-----------------------------------------------------------------------------
(***************************************************************************)
(* Properties.                                                             *)
(***************************************************************************)

(***************************************************************************)
(* A request that was let in is answered, although the store, the broker   *)
(* and the cache fail and although the node is told to stop meanwhile; only*)
(* a process that does not exit cleanly takes requests with it (log.go     *)
(* Append's deferred Unlock; main.go runUntilShutdown: "drains in-flight   *)
(* requests").                                                             *)
(***************************************************************************)
AllAnswered ==
    \A p \in Procs :
        (pc[p] # "idle") ~> (response[p] # Unanswered \/ phase[NodeOf[p]] = "failed")

(***************************************************************************)
(* A node that is told to stop stops, without the help of its deadline:    *)
(* neither goroutines that wait for each other's mutex, nor connections    *)
(* that never send anything, nor open WebSockets keep Shutdown waiting     *)
(* (main.go runUntilShutdown).                                             *)
(***************************************************************************)
ShutdownCompletes == \A n \in Nodes : (phase[n] = "draining") ~> ~ Running(n)
=============================================================================
