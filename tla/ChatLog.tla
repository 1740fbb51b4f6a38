------------------------------ MODULE ChatLog -------------------------------
(***************************************************************************)
(* The write path: internal/api's send handlers, internal/service's Submit *)
(* and internal/chatlog's Append and snapshot, over internal/storage,      *)
(* internal/cache and internal/broker.                                     *)
(*                                                                         *)
(* A process is a goroutine that serves one request at a time on its node. *)
(* A step is one call on a shared object: a chat mutex, the store, the     *)
(* cache or the broker.  The deferred Unlock is part of the step that      *)
(* returns.                                                                *)
(***************************************************************************)
EXTENDS Chain, Merkle

CONSTANTS
    Nodes,            \* running messenger processes
    Procs,            \* request goroutines
    NodeOf,           \* the node a goroutine runs on
    Chats,
    Requests,         \* send requests: [Path, Cap, Msg]
    SnapshotInterval, \* models.SnapshotInterval
    MaxAppends,       \* bound: requests that get past validation
    Faults,           \* what may fail: "query", "write", "broker", "cache", "crash"
    None              \* no goroutine, no value

ASSUME NodeAssumption == NodeOf \in [Procs -> Nodes]

ASSUME NoneAssumption == None \notin Procs

ASSUME IntervalAssumption == SnapshotInterval \in Nat \ {0}

ASSUME RequestAssumption ==
    \A r \in Requests : /\ r.Path \in Chats /\ r.Cap \in Nat
                        /\ {"ChatID", "Signature"} \subseteq DOMAIN r.Msg

\* Without ScyllaDB a node has its own store, which dies with it and never fails.
ASSUME MemoryAssumption ==
    Backend = "memory" => /\ \A m, n \in Nodes : m = n
                          /\ Faults \cap {"query", "write", "crash"} = {}

VARIABLES
    rows,       \* log_entries, by chat and sequence
    snaps,      \* snapshots, by chat and index
    limbo,      \* inserts that timed out and may still be applied
    lateSnaps,  \* snapshot writes that timed out and may still be applied
    lock,       \* Log.locks of each node: the holder of each chat's mutex
    pc,         \* where each goroutine is
    msg,        \* the message it appends
    entry,      \* the entry it has built
    snap,       \* the snapshot it is building
    response,   \* its last response: its status (0: none) and, if it is 201, the entry
    roots,      \* the cache's latest Merkle root of each chat
    published,  \* events handed to the broker, by chat
    appends     \* requests that got past validation

\* No response to the request being served, or to one that a crash has cut short.
Unanswered == [Status |-> 0, Entry |-> None]

store  == <<rows, snaps, limbo, lateSnaps>>
local  == <<msg, entry, snap>>
vars   == <<rows, snaps, limbo, lateSnaps, lock, pc, msg, entry, snap, response,
            roots, published, appends>>

Init ==
    /\ rows = [c \in Chats |-> EmptyTable]
    /\ snaps = [c \in Chats |-> EmptyTable]
    /\ limbo = {}
    /\ lateSnaps = {}
    /\ lock = [n \in Nodes |-> [c \in Chats |-> None]]
    /\ pc = [p \in Procs |-> "idle"]
    /\ msg = [p \in Procs |-> None]
    /\ entry = [p \in Procs |-> None]
    /\ snap = [p \in Procs |-> None]
    /\ response = [p \in Procs |-> Unanswered]
    /\ roots = [c \in Chats |-> None]
    /\ published = [c \in Chats |-> <<>>]
    /\ appends = 0

-----------------------------------------------------------------------------
(***************************************************************************)
(* Validation, before the chat is locked.                                  *)
(***************************************************************************)

\* The chat is taken from the path, not the body.
decodeSignedMessage(r) == [r.Msg EXCEPT !.ChatID = r.Path]

\* What Submit and the head of Append let through.
Accepts(m, cap) ==
    /\ cap > 0 => m.Content <= cap
    /\ supportedVersion(m.SchemaVersion)
    /\ VerifyMessage(m)

Respond(p, status, e) ==
    response' = [response EXCEPT ![p] = [Status |-> status, Entry |-> e]]

\* A required field is missing.
BadRequest(p, r) ==
    /\ pc[p] = "idle"
    /\ r.Msg.Signature = NoSignature
    /\ Respond(p, 400, None)
    /\ UNCHANGED <<store, lock, pc, local, roots, published, appends>>

Reject(p, r) ==
    /\ pc[p] = "idle"
    /\ r.Msg.Signature # NoSignature
    /\ ~ Accepts(decodeSignedMessage(r), r.Cap)
    /\ Respond(p, 422, None)
    /\ UNCHANGED <<store, lock, pc, local, roots, published, appends>>

Accept(p, r) ==
    /\ pc[p] = "idle"
    /\ r.Msg.Signature # NoSignature
    /\ Accepts(decodeSignedMessage(r), r.Cap)
    /\ appends < MaxAppends
    /\ appends' = appends + 1
    /\ msg' = [msg EXCEPT ![p] = decodeSignedMessage(r)]
    /\ response' = [response EXCEPT ![p] = Unanswered]
    /\ pc' = [pc EXCEPT ![p] = "lock"]
    /\ UNCHANGED <<store, lock, entry, snap, roots, published>>

-----------------------------------------------------------------------------
(***************************************************************************)
(* Append, holding the chat's mutex.                                       *)
(***************************************************************************)

Chat(p) == msg[p].ChatID

Goto(p, label) == pc' = [pc EXCEPT ![p] = label]

\* An error return that forgets to unlock.
ReturnLocked(p, status) ==
    /\ Goto(p, "idle")
    /\ lock' = IF status = 201 THEN [lock EXCEPT ![NodeOf[p]][Chat(p)] = None] ELSE lock
    /\ Respond(p, status, IF status = 201 THEN entry[p] ELSE None)
    /\ msg' = [msg EXCEPT ![p] = None]
    /\ entry' = [entry EXCEPT ![p] = None]
    /\ snap' = [snap EXCEPT ![p] = None]

\* `return` from Append, with its deferred Unlock, and the response.
Return(p, status) ==
    /\ Goto(p, "idle")
    /\ lock' = [lock EXCEPT ![NodeOf[p]][Chat(p)] = None]
    /\ Respond(p, status, IF status = 201 THEN entry[p] ELSE None)
    /\ msg' = [msg EXCEPT ![p] = None]
    /\ entry' = [entry EXCEPT ![p] = None]
    /\ snap' = [snap EXCEPT ![p] = None]

\* Append without the per-chat mutex.
LockNothing(p) ==
    /\ pc[p] = "lock"
    /\ Goto(p, "readTip")
    /\ UNCHANGED <<store, lock, local, response, roots, published, appends>>

Lock(p) ==
    /\ pc[p] = "lock"
    /\ lock[NodeOf[p]][Chat(p)] = None
    /\ lock' = [lock EXCEPT ![NodeOf[p]][Chat(p)] = p]
    /\ Goto(p, "readTip")
    /\ UNCHANGED <<store, local, response, roots, published, appends>>

ReadTip(p) ==
    /\ pc[p] = "readTip"
    /\ entry' = [entry EXCEPT ![p] = NextEntry(rows[Chat(p)], msg[p])]
    /\ Goto(p, "append")
    /\ UNCHANGED <<store, lock, msg, snap, response, roots, published, appends>>

\* An adapter that does not look at `applied`.
AppendEntryUnchecked(p) ==
    /\ pc[p] = "append"
    /\ rows' = IF AppendApplies(rows[Chat(p)], entry[p])
               THEN [rows EXCEPT ![Chat(p)] = Put(@, entry[p].Sequence, Stored(entry[p]))]
               ELSE rows
    /\ Goto(p, "publish")
    /\ UNCHANGED <<snaps, limbo, lateSnaps, lock, local, response, roots, published, appends>>

\* AppendEntry applied, or refused because the position is taken.
AppendEntry(p) ==
    /\ pc[p] = "append"
    /\ \/ /\ AppendApplies(rows[Chat(p)], entry[p])
          /\ rows' = [rows EXCEPT ![Chat(p)] = Put(@, entry[p].Sequence, Stored(entry[p]))]
          /\ Goto(p, "publish")
          /\ UNCHANGED <<lock, local, response>>
       \/ /\ ~ AppendApplies(rows[Chat(p)], entry[p])
          /\ Return(p, 422)
          /\ UNCHANGED rows
    /\ UNCHANGED <<snaps, limbo, lateSnaps, roots, published, appends>>

Event(kind, e) == [Kind |-> kind, Sequence |-> e.Sequence, EntryHash |-> e.EntryHash]

\* Publish's error is ignored, so with RabbitMQ an event may be lost.
Publish(c, event) ==
    \/ published' = [published EXCEPT ![c] = Append(@, event)]
    \/ "broker" \in Faults /\ UNCHANGED published

\* The window fills at this entry.
Seals(e) == (e.Sequence + 1) % SnapshotInterval = 0

PublishEntry(p) ==
    /\ pc[p] = "publish"
    /\ Publish(Chat(p), Event("entry_appended", entry[p]))
    /\ \/ /\ Seals(entry[p])
          /\ Goto(p, "readSnapshot")
          /\ UNCHANGED <<lock, local, response>>
       \/ /\ ~ Seals(entry[p])
          /\ Return(p, 201)
    /\ UNCHANGED <<store, roots, appends>>

-----------------------------------------------------------------------------
(***************************************************************************)
(* snapshot, still holding the mutex.                                      *)
(***************************************************************************)

\* A window that starts at the entry the previous snapshot ended with.
NextSnapshotOverlapping(table, tip) ==
    [SnapshotIndex |-> IF IsEmpty(table) THEN 0 ELSE Latest(table).SnapshotIndex + 1,
     FromSequence  |-> IF IsEmpty(table) THEN 0 ELSE Latest(table).ToSequence,
     ToSequence    |-> tip.Sequence,
     MerkleRoot    |-> None,
     LastEntryHash |-> tip.EntryHash]

\* A window of the last SnapshotInterval entries, whatever the latest one covers.
NextSnapshotFixedWindow(table, tip) ==
    [SnapshotIndex |-> IF IsEmpty(table) THEN 0 ELSE Latest(table).SnapshotIndex + 1,
     FromSequence  |-> tip.Sequence + 1 - SnapshotInterval,
     ToSequence    |-> tip.Sequence,
     MerkleRoot    |-> None,
     LastEntryHash |-> tip.EntryHash]

\* The snapshot that follows the latest one and ends at tip, without its root.
NextSnapshot(table, tip) ==
    [SnapshotIndex |-> IF IsEmpty(table) THEN 0 ELSE Latest(table).SnapshotIndex + 1,
     FromSequence  |-> IF IsEmpty(table) THEN 0 ELSE Latest(table).ToSequence + 1,
     ToSequence    |-> tip.Sequence,
     MerkleRoot    |-> None,
     LastEntryHash |-> tip.EntryHash]

ReadSnapshot(p) ==
    /\ pc[p] = "readSnapshot"
    /\ snap' = [snap EXCEPT ![p] = NextSnapshot(snaps[Chat(p)], entry[p])]
    /\ Goto(p, "readWindow")
    /\ UNCHANGED <<store, lock, msg, entry, response, roots, published, appends>>

Hashes(entries) == [i \in DOMAIN entries |-> entries[i].EntryHash]

ReadWindow(p) ==
    /\ pc[p] = "readWindow"
    /\ LET window == EntriesSince(rows[Chat(p)], snap[p].FromSequence)
       IN  snap' = [snap EXCEPT ![p].MerkleRoot = Root(Hashes(window))]
    /\ Goto(p, "saveSnapshot")
    /\ UNCHANGED <<store, lock, msg, entry, response, roots, published, appends>>

\* The snapshot as it is written, with the node whose clock stamps the write.
Stamped(p) == [k \in DOMAIN snap[p] \cup {"Node"} |->
                 IF k = "Node" THEN NodeOf[p] ELSE snap[p][k]]

Save(c, s) == \E table \in SavedSnapshot(snaps[c], s) : snaps' = [snaps EXCEPT ![c] = table]

SaveSnapshot(p) ==
    /\ pc[p] = "saveSnapshot"
    /\ Save(Chat(p), Stamped(p))
    /\ Goto(p, "cacheRoot")
    /\ UNCHANGED <<rows, limbo, lateSnaps, lock, local, response, roots, published, appends>>

\* Redis' errors are ignored.
CacheRoot(p) ==
    /\ pc[p] = "cacheRoot"
    /\ \/ roots' = [roots EXCEPT ![Chat(p)] = snap[p].MerkleRoot]
       \/ "cache" \in Faults /\ UNCHANGED roots
    /\ Goto(p, "publishSnapshot")
    /\ UNCHANGED <<store, lock, local, response, published, appends>>

PublishSnapshot(p) ==
    /\ pc[p] = "publishSnapshot"
    /\ Publish(Chat(p), Event("snapshot_created", entry[p]))
    /\ Return(p, 201)
    /\ UNCHANGED <<store, roots, appends>>

-----------------------------------------------------------------------------
(***************************************************************************)
(* Failures of the ScyllaDB cluster and of nodes.                          *)
(***************************************************************************)

\* A query fails: the tip, the latest snapshot or the window is not read.
ReadFails(p) ==
    /\ "query" \in Faults
    /\ pc[p] \in {"readTip", "readSnapshot", "readWindow"}
    /\ Return(p, 422)
    /\ UNCHANGED <<store, roots, published, appends>>

\* The insert times out: the error says nothing about whether it is applied.
AppendTimesOut(p) ==
    /\ "write" \in Faults
    /\ pc[p] = "append"
    /\ limbo' = limbo \cup {[Chat |-> Chat(p), Entry |-> entry[p]]}
    /\ Return(p, 422)
    /\ UNCHANGED <<rows, snaps, lateSnaps, roots, published, appends>>

\* A lightweight transaction completes after its client gave up on it.
LateAppend(w) ==
    /\ AppendApplies(rows[w.Chat], w.Entry)
    /\ rows' = [rows EXCEPT ![w.Chat] = Put(@, w.Entry.Sequence, Stored(w.Entry))]
    /\ limbo' = limbo \ {w}
    /\ UNCHANGED <<snaps, lateSnaps, lock, pc, local, response, roots, published, appends>>

\* The snapshot's upsert times out.
SaveTimesOut(p) ==
    /\ "write" \in Faults
    /\ pc[p] = "saveSnapshot"
    /\ lateSnaps' = lateSnaps \cup {[Chat |-> Chat(p), Snap |-> Stamped(p)]}
    /\ Return(p, 422)
    /\ UNCHANGED <<rows, snaps, limbo, roots, published, appends>>

\* The upsert reaches the replicas after its client gave up on it.
LateSave(w) ==
    /\ Save(w.Chat, w.Snap)
    /\ lateSnaps' = lateSnaps \ {w}
    /\ UNCHANGED <<rows, limbo, lock, pc, local, response, roots, published, appends>>

\* A node's process ends, and its goroutines and mutexes with it.
Dies(n) ==
    LET here == {p \in Procs : NodeOf[p] = n}
        Reset(f, v) == [p \in Procs |-> IF p \in here THEN v ELSE f[p]]
        inFlight == {p \in here : pc[p] # "idle"}
    IN  /\ pc' = Reset(pc, "idle")
        /\ msg' = Reset(msg, None)
        /\ entry' = Reset(entry, None)
        /\ snap' = Reset(snap, None)
        /\ response' = [p \in Procs |-> IF p \in inFlight THEN Unanswered ELSE response[p]]
        /\ lock' = [lock EXCEPT ![n] = [c \in Chats |-> None]]
        /\ UNCHANGED <<store, roots, published, appends>>

\* A node dies in the middle of requests, and starts again.
Crash(n) ==
    /\ "crash" \in Faults
    /\ \E p \in Procs : NodeOf[p] = n /\ pc[p] # "idle"
    /\ Dies(n)

-----------------------------------------------------------------------------
\* A goroutine past the mutex: a step of Append or of snapshot.
Step(p) ==
    \/ ReadTip(p) \/ AppendEntry(p) \/ PublishEntry(p)
    \/ ReadSnapshot(p) \/ ReadWindow(p) \/ SaveSnapshot(p)
    \/ CacheRoot(p) \/ PublishSnapshot(p)
    \/ ReadFails(p) \/ AppendTimesOut(p) \/ SaveTimesOut(p)

Next ==
    \/ \E p \in Procs :
        \/ \E r \in Requests : BadRequest(p, r) \/ Reject(p, r) \/ Accept(p, r)
        \/ Lock(p)
        \/ Step(p)
    \/ \E w \in limbo : LateAppend(w)
    \/ \E w \in lateSnaps : LateSave(w)
    \/ \E n \in Nodes : Crash(n)

Spec == Init /\ [][Next]_vars

-----------------------------------------------------------------------------
(***************************************************************************)
(* Properties.                                                             *)
(***************************************************************************)

Labels == {"idle", "lock", "readTip", "append", "publish", "readSnapshot", "readWindow",
           "saveSnapshot", "cacheRoot", "publishSnapshot"}

\* Labels of a goroutine that holds a chat's mutex.
Holding == Labels \ {"idle", "lock"}

\* Labels at which Append has built its entry.
Built == Holding \ {"readTip"}

IsEntry(e) ==
    /\ DOMAIN e = {"Sequence", "Message", "PrevHash", "EntryHash"}
    /\ e.Sequence \in Nat

(***************************************************************************)
(* The shape of the tables and of each goroutine's local variables, and    *)
(* who holds the mutexes (log.go Append, snapshot).                        *)
(***************************************************************************)
TypeOK ==
    /\ DOMAIN rows = Chats /\ \A c \in Chats : DOMAIN rows[c] \subseteq Nat
    /\ DOMAIN snaps = Chats
    /\ \A w \in limbo : w.Chat \in Chats /\ IsEntry(w.Entry)
    /\ \A w \in lateSnaps : w.Chat \in Chats
    /\ pc \in [Procs -> Labels]
    /\ DOMAIN msg = Procs /\ DOMAIN entry = Procs
    /\ DOMAIN snap = Procs /\ DOMAIN response = Procs
    /\ \A p \in Procs : pc[p] # "idle" => Chat(p) \in Chats
    /\ \A p \in Procs : pc[p] \in Built => IsEntry(entry[p])
    /\ lock \in [Nodes -> [Chats -> Procs \cup {None}]]
    /\ DOMAIN roots = Chats /\ DOMAIN published = Chats
    /\ appends \in Nat

Contiguous(table) == DOMAIN table = 0 .. Cardinality(DOMAIN table) - 1

\* e may stand at position s of the table: it is chained to the row before it.
LinkedAt(table, s, e) ==
    /\ e.Sequence = s
    /\ IF s = 0 THEN e.PrevHash = GenesisHash
       ELSE s - 1 \in DOMAIN table /\ e.PrevHash = table[s - 1].EntryHash

(***************************************************************************)
(* Every chat is one unbroken hash chain from genesis, without gaps: two   *)
(* Appends that read the same tip, on one node or on several, an insert    *)
(* that is applied after its Append failed, a crash between any two steps, *)
(* never fork it or leave a hole in it (log.go Append, AppendEntry).       *)
(***************************************************************************)
ChainOK ==
    \A c \in Chats :
        /\ Contiguous(rows[c])
        /\ \A s \in DOMAIN rows[c] : LinkedAt(rows[c], s, rows[c][s])

(***************************************************************************)
(* What every Append relies on between reading the tip and writing, and a  *)
(* timed-out insert for as long as it may still be applied: the entry is   *)
(* linked to the stored row before its position, so that it can only go to *)
(* the end of the log or to a position taken since (log.go Append).        *)
(***************************************************************************)
PendingLinked ==
    /\ \A p \in Procs : pc[p] = "append" =>
            LinkedAt(rows[Chat(p)], entry[p].Sequence, entry[p])
    /\ \A w \in limbo : LinkedAt(rows[w.Chat], w.Entry.Sequence, w.Entry)

(***************************************************************************)
(* No step removes or rewrites a stored entry (storage.go and scylla.go    *)
(* AppendEntry: "entries are inserted with IF NOT EXISTS and never updated *)
(* or deleted").                                                           *)
(***************************************************************************)
AppendOnly == [][\A c \in Chats : IsRestriction(rows[c], rows'[c])]_vars

(***************************************************************************)
(* An entry a client was told is created (201) is in its chat at the       *)
(* position it was told, and stays there (server.go handleSend, log.go     *)
(* Append).                                                                *)
(***************************************************************************)
AckDurable ==
    \A p \in Procs :
        LET e == response[p].Entry
            c == e.Message.ChatID
        IN  response[p].Status = 201 =>
                e.Sequence \in DOMAIN rows[c] /\ rows[c][e.Sequence] = Stored(e)

(***************************************************************************)
(* Every stored entry passes what Verify checks of it on its own, and is   *)
(* the very message some client signed, in the chat it was signed for: a   *)
(* message posted to another chat, changed, or read back from storage as   *)
(* something else than was signed, would not be (server.go                 *)
(* decodeSignedMessage, log.go Append, Verify).                            *)
(***************************************************************************)
AllAuthentic ==
    \A c \in Chats : \A s \in DOMAIN rows[c] :
        LET e == rows[c][s]
        IN  /\ e.Message.ChatID = c
            /\ \E r \in Requests : r.Msg = e.Message
            /\ supportedVersion(e.Message.SchemaVersion)
            /\ VerifyMessage(e.Message)
            /\ e.EntryHash = ComputeHash(e)

\* The positions before the i-th at which a sequence of events tells of an entry.
EntryEvents(events, i) == {j \in 1 .. i - 1 : events[j].Kind = "entry_appended"}

(***************************************************************************)
(* A client that is told of an entry can fetch it: the entry is stored     *)
(* before its event is published (log.go Append).                          *)
(***************************************************************************)
EventsBacked ==
    \A c \in Chats : \A i \in DOMAIN published[c] :
        LET ev == published[c][i]
        IN  /\ ev.Sequence \in DOMAIN rows[c]
            /\ ev.EntryHash = rows[c][ev.Sequence].EntryHash

(***************************************************************************)
(* On one node a chat's events are published in log order, each entry      *)
(* once, because Publish happens under the chat's mutex (log.go Append).   *)
(***************************************************************************)
PublishedInOrder ==
    \A c \in Chats : \A i \in DOMAIN published[c] :
        LET ev == published[c][i]
        IN  ev.Kind = "entry_appended" =>
                ev.Sequence = Cardinality(EntryEvents(published[c], i))

\* The stored entries a snapshot says it covers.
Covered(c, sn) ==
    [i \in 1 .. sn.ToSequence + 1 - sn.FromSequence |-> rows[c][sn.FromSequence + i - 1]]

(***************************************************************************)
(* A snapshot's root is the Merkle root of exactly the entries FromSequence*)
(* to ToSequence, and LastEntryHash is the hash of the last of them        *)
(* (log.go snapshot; message.go: "captures the Merkle root of a contiguous *)
(* range of log entries").                                                 *)
(***************************************************************************)
SnapshotRange ==
    \A c \in Chats : \A k \in DOMAIN snaps[c] :
        LET sn == snaps[c][k]
        IN  /\ sn.FromSequence <= sn.ToSequence
            /\ sn.FromSequence .. sn.ToSequence \subseteq DOMAIN rows[c]
            /\ sn.MerkleRoot = Root(Hashes(Covered(c, sn)))
            /\ sn.LastEntryHash = rows[c][sn.ToSequence].EntryHash

(***************************************************************************)
(* The snapshots tile the log: the k-th covers the k-th SnapshotInterval   *)
(* entries, which is what ProveInclusion takes for granted when it divides *)
(* by SnapshotInterval; and while nobody holds the chat's mutex no full    *)
(* window is unsealed and the cache holds the latest root (log.go          *)
(* snapshot).                                                              *)
(***************************************************************************)
SnapshotsTile ==
    \A c \in Chats :
        /\ \A k \in DOMAIN snaps[c] :
              /\ snaps[c][k].SnapshotIndex = k
              /\ snaps[c][k].FromSequence = k * SnapshotInterval
              /\ snaps[c][k].ToSequence = (k + 1) * SnapshotInterval - 1
        /\ (\A n \in Nodes : lock[n][c] = None) =>
              /\ DOMAIN snaps[c] =
                    0 .. (Cardinality(DOMAIN rows[c]) \div SnapshotInterval) - 1
              /\ ~ IsEmpty(snaps[c]) => roots[c] = Latest(snaps[c]).MerkleRoot

(***************************************************************************)
(* On one node no entry is left out of the snapshots: each starts no later *)
(* than where the one before it ends, whichever snapshots fail, time out,  *)
(* or replace others when they are applied late (log.go snapshot,          *)
(* scylla.go SaveSnapshot).                                                *)
(***************************************************************************)
SnapshotsCover ==
    \A c \in Chats : \A k \in DOMAIN snaps[c] :
        IF k = 0 THEN snaps[c][k].FromSequence = 0
        ELSE /\ k - 1 \in DOMAIN snaps[c]
             /\ snaps[c][k].FromSequence <= snaps[c][k - 1].ToSequence + 1
=============================================================================
