---------------------------- MODULE OneNodeProofs ----------------------------
(***************************************************************************)
(* Proofs about what the chat mutex gives on one node, for any goroutines, *)
(* chats, requests and snapshot interval and with both adapters: the       *)
(* snapshots' ranges and roots, and the order of the events.               *)
(***************************************************************************)
EXTENDS ChatLogProofs

USE DEF Goto, Respond, store, local

OneNode == \A m, n \in Nodes : m = n

-----------------------------------------------------------------------------
(***************************************************************************)
(* The mutex: a goroutine that is past Lock is the holder.                 *)
(***************************************************************************)
MutexInv == \A p \in Procs : pc[p] \in Holding => lock[NodeOf[p]][Chat(p)] = p

(***************************************************************************)
(* A goroutine whose step takes and releases no mutex keeps it.            *)
(***************************************************************************)
LEMMA KeepMutex ==
    ASSUME MutexInv, lock' = lock,
           \A q \in Procs : pc'[q] \in Holding => pc[q] \in Holding /\ msg'[q] = msg[q]
    PROVE  MutexInv'
BY DEF MutexInv, Chat

(***************************************************************************)
(* Returning unlocks the goroutine's own mutex and no other (log.go        *)
(* Append's deferred Unlock).                                              *)
(***************************************************************************)
LEMMA ReturnMutex ==
    ASSUME IInv, MutexInv, NEW p \in Procs, NEW status, pc[p] \in Holding, Return(p, status)
    PROVE  MutexInv'
<1> SUFFICES ASSUME NEW q \in Procs, pc'[q] \in Holding
             PROVE  lock'[NodeOf[q]][msg'[q].ChatID] = q
  BY DEF MutexInv, Chat
<1>1. q # p
  BY DEF Return, IInv, TypeOK, Holding
<1>2. pc'[q] = pc[q] /\ msg'[q] = msg[q]
  BY <1>1 DEF Return, IInv, TypeOK
<1>3. lock[NodeOf[q]][Chat(q)] = q /\ lock[NodeOf[p]][Chat(p)] = p
  BY <1>2 DEF MutexInv
<1>4. /\ NodeOf[q] \in Nodes /\ NodeOf[p] \in Nodes /\ Chat(q) \in Chats /\ Chat(p) \in Chats
  BY <1>2, NodeAssumption DEF IInv, TypeOK, Holding
<1>5. lock'[NodeOf[q]][Chat(q)] = lock[NodeOf[q]][Chat(q)]
  BY <1>1, <1>3, <1>4 DEF Return, IInv, TypeOK
<1> QED BY <1>2, <1>3, <1>5 DEF Chat

(***************************************************************************)
(* No step breaks mutual exclusion (log.go lockChat, Append).              *)
(***************************************************************************)
LEMMA NextMutex == IInv /\ MutexInv /\ [Next]_vars => MutexInv'
<1> SUFFICES ASSUME IInv, MutexInv, [Next]_vars PROVE MutexInv'
  OBVIOUS
<1> USE DEF Labels, Holding
<1>1. ASSUME NEW p \in Procs, NEW r \in Requests,
             BadRequest(p, r) \/ Reject(p, r) \/ Accept(p, r)
      PROVE  MutexInv'
  <2>1. lock' = lock /\ \A q \in Procs : pc'[q] \in Holding => pc[q] \in Holding /\ msg'[q] = msg[q]
    BY <1>1 DEF BadRequest, Reject, Accept, IInv, TypeOK
  <2> QED BY <2>1, KeepMutex
<1>2. ASSUME NEW p \in Procs, Lock(p) PROVE MutexInv'
  <2> SUFFICES ASSUME NEW q \in Procs, pc'[q] \in Holding
               PROVE  lock'[NodeOf[q]][Chat(q)] = q
    BY <1>2 DEF MutexInv, Chat, Lock
  <2>1. NodeOf[p] \in Nodes /\ NodeOf[q] \in Nodes /\ Chat(p) \in Chats
    BY <1>2, NodeAssumption DEF IInv, TypeOK, Lock
  <2>2. CASE q = p
    BY <1>2, <2>1, <2>2 DEF Lock, IInv, TypeOK
  <2>3. CASE q # p
    <3>1. pc[q] \in Holding
      BY <1>2, <2>3 DEF Lock, IInv, TypeOK
    <3>2. lock[NodeOf[q]][Chat(q)] = q /\ Chat(q) \in Chats /\ q # None
      BY <3>1, NoneAssumption DEF MutexInv, IInv, TypeOK
    <3>3. lock[NodeOf[p]][Chat(p)] = None
      BY <1>2 DEF Lock
    <3> QED BY <1>2, <2>1, <3>2, <3>3 DEF Lock, IInv, TypeOK
  <2> QED BY <2>2, <2>3
<1>3. ASSUME NEW p \in Procs, Step(p) PROVE MutexInv'
  <2>0. ASSUME NEW status, Return(p, status), pc[p] \in Holding PROVE MutexInv'
    BY <2>0, ReturnMutex
  <2>1. CASE ReadTip(p) \/ ReadSnapshot(p) \/ ReadWindow(p) \/ SaveSnapshot(p) \/ CacheRoot(p)
    <3>1. lock' = lock /\ \A q \in Procs : pc'[q] \in Holding => pc[q] \in Holding /\ msg'[q] = msg[q]
      BY <2>1 DEF ReadTip, ReadSnapshot, ReadWindow, SaveSnapshot, CacheRoot, IInv, TypeOK
    <3> QED BY <3>1, KeepMutex
  <2>2. CASE AppendEntry(p) \/ PublishEntry(p)
    <3>1. CASE \E status : Return(p, status)
      BY <2>0, <2>2, <3>1 DEF AppendEntry, PublishEntry
    <3>2. CASE ~ \E status : Return(p, status)
      <4>1. lock' = lock /\ \A q \in Procs : pc'[q] \in Holding => pc[q] \in Holding /\ msg'[q] = msg[q]
        BY <2>2, <3>2 DEF AppendEntry, PublishEntry, IInv, TypeOK
      <4> QED BY <4>1, KeepMutex
    <3> QED BY <3>1, <3>2
  <2>3. CASE PublishSnapshot(p) \/ ReadFails(p) \/ AppendTimesOut(p) \/ SaveTimesOut(p)
    BY <2>0, <2>3 DEF PublishSnapshot, ReadFails, AppendTimesOut, SaveTimesOut
  <2> QED BY <1>3, <2>1, <2>2, <2>3 DEF Step
<1>4. ASSUME NEW w \in limbo, LateAppend(w) PROVE MutexInv'
  BY <1>4, KeepMutex DEF LateAppend
<1>5. ASSUME NEW w \in lateSnaps, LateSave(w) PROVE MutexInv'
  BY <1>5, KeepMutex DEF LateSave
<1>6. ASSUME NEW n \in Nodes, Crash(n) PROVE MutexInv'
  <2> SUFFICES ASSUME NEW q \in Procs, pc'[q] \in Holding
               PROVE  lock'[NodeOf[q]][msg'[q].ChatID] = q
    BY DEF MutexInv, Chat
  <2>1. NodeOf[q] # n /\ pc'[q] = pc[q] /\ msg'[q] = msg[q]
    BY <1>6 DEF Crash, Dies
  <2>2. NodeOf[q] \in Nodes /\ lock'[NodeOf[q]] = lock[NodeOf[q]]
    BY <1>6, <2>1, NodeAssumption DEF Crash, Dies, IInv, TypeOK
  <2> QED BY <2>1, <2>2 DEF MutexInv, Chat
<1>7. CASE UNCHANGED vars
  BY <1>7, KeepMutex DEF vars
<1> QED BY <1>1, <1>2, <1>3, <1>4, <1>5, <1>6, <1>7 DEF Next

(***************************************************************************)
(* The chat mutex excludes: for any number of nodes, at most one goroutine *)
(* of a node is past Lock in a chat (log.go lockChat).                     *)
(***************************************************************************)
THEOREM MutexHolds == Spec => []MutexInv
<1>1. Init => MutexInv
  BY DEF Init, MutexInv, Holding
<1>2. IInv /\ MutexInv /\ [Next]_vars => MutexInv'
  BY NextMutex
<1> QED BY <1>1, <1>2, IInvHolds, PTL DEF Spec

-----------------------------------------------------------------------------
(***************************************************************************)
(* On one node nothing is appended to a chat behind the back of a          *)
(* goroutine that has inserted its entry: the entry stays the last one.    *)
(***************************************************************************)
After == Built \ {"append"}

ProcTail(p) ==
    pc[p] \in After =>
        /\ DOMAIN rows[Chat(p)] = 0 .. entry[p].Sequence
        /\ \A w \in limbo : w.Chat = Chat(p) => w.Entry.Sequence <= entry[p].Sequence

TailInv == \A p \in Procs : ProcTail(p)

(***************************************************************************)
(* Two goroutines of one node are not in one chat at the same time.        *)
(***************************************************************************)
LEMMA Excluded ==
    ASSUME OneNode, MutexInv, NEW p \in Procs, NEW q \in Procs,
           pc[p] \in Holding, pc[q] \in Holding, Chat(p) = Chat(q)
    PROVE  p = q
<1>1. NodeOf[p] = NodeOf[q]
  BY NodeAssumption DEF OneNode
<1> QED BY <1>1 DEF MutexInv

(***************************************************************************)
(* An insert that is let through goes to the end of its chat: a pending    *)
(* insert's position is at most the length of the log.                     *)
(***************************************************************************)
LEMMA InsertAtEnd ==
    ASSUME NEW table, NEW n \in Nat, ChainOfLength(table, n),
           NEW e, IsEntry(e), LinkedAt(table, e.Sequence, e)
    PROVE  /\ e.Sequence <= n
           /\ AppendApplies(table, e) => /\ e.Sequence = n
                                        /\ DOMAIN Put(table, e.Sequence, Stored(e)) = 0 .. n
<1>1. e.Sequence \in Nat /\ DOMAIN table = 0 .. n - 1
  BY DEF IsEntry, ChainOfLength
<1>2. e.Sequence = 0 \/ e.Sequence - 1 \in 0 .. n - 1
  BY <1>1 DEF LinkedAt
<1>3. e.Sequence <= n
  BY <1>1, <1>2
<1>4. ASSUME AppendApplies(table, e) PROVE e.Sequence = n
  <2>1. CASE Memory
    BY <1>1, <1>4, <2>1, SizeOfInterval DEF AppendApplies, SliceAppends, SliceLen
  <2>2. CASE ~ Memory
    BY <1>1, <1>3, <1>4, <2>2 DEF AppendApplies, RowInserts
  <2> QED BY <2>1, <2>2
<1>5. ASSUME AppendApplies(table, e) PROVE DOMAIN Put(table, e.Sequence, Stored(e)) = 0 .. n
  <2>1. DOMAIN Put(table, e.Sequence, Stored(e)) = 0 .. n - 1 \cup {n}
    BY <1>1, <1>4, <1>5 DEF Put
  <2>2. 0 .. n - 1 \cup {n} = 0 .. n
    OBVIOUS
  <2> QED BY <2>1, <2>2
<1> QED BY <1>3, <1>4, <1>5

(***************************************************************************)
(* A goroutine keeps its tail in a step that leaves its chat's rows and    *)
(* the inserts that timed out there alone.                                 *)
(***************************************************************************)
LEMMA KeepTail ==
    ASSUME NEW q \in Procs, ProcTail(q),
           pc'[q] \in After => /\ pc[q] \in After /\ entry'[q] = entry[q] /\ msg'[q] = msg[q]
                              /\ rows'[Chat(q)] = rows[Chat(q)]
                              /\ \A w \in limbo' : w.Chat = Chat(q) => w \in limbo
    PROVE  ProcTail(q)'
BY DEF ProcTail, Chat

(***************************************************************************)
(* Every step on one node keeps the tails.                                 *)
(***************************************************************************)
LEMMA NextTail ==
    ASSUME OneNode
    PROVE  IInv /\ MutexInv /\ TailInv /\ [Next]_vars => TailInv'
<1> SUFFICES ASSUME IInv, MutexInv, TailInv, [Next]_vars, NEW q \in Procs PROVE ProcTail(q)'
  BY DEF TailInv
<1> USE DEF Labels, Holding, Built, After
<1>0. ProcTail(q)
  BY DEF TailInv
<1>1. ASSUME NEW p \in Procs, NEW r \in Requests,
             BadRequest(p, r) \/ Reject(p, r) \/ Accept(p, r)
      PROVE  ProcTail(q)'
  BY <1>0, <1>1, KeepTail DEF BadRequest, Reject, Accept, IInv, TypeOK
<1>2. ASSUME NEW p \in Procs, Lock(p) \/ Step(p), ~ AppendEntry(p), ~ AppendTimesOut(p)
      PROVE  ProcTail(q)'
  <2>1. rows' = rows /\ limbo' = limbo
    BY <1>2 DEF Step, Lock, ReadTip, PublishEntry, ReadSnapshot, ReadWindow, SaveSnapshot,
                CacheRoot, PublishSnapshot, ReadFails, SaveTimesOut
  <2>2. CASE q # p
    BY <1>0, <1>2, <2>1, <2>2, OthersUntouched, KeepTail
  <2>3. CASE q = p
    <3>1. pc'[p] \in After => pc[p] \in After /\ entry'[p] = entry[p] /\ msg'[p] = msg[p]
      <4>0. ASSUME NEW status, Return(p, status) PROVE pc'[p] \notin After
        BY <4>0 DEF Return, IInv, TypeOK
      <4>1. CASE Lock(p) \/ ReadTip(p) \/ ReadSnapshot(p) \/ ReadWindow(p) \/ SaveSnapshot(p)
                 \/ CacheRoot(p)
        BY <4>1 DEF Lock, ReadTip, ReadSnapshot, ReadWindow, SaveSnapshot, CacheRoot, IInv, TypeOK
      <4>2. CASE PublishEntry(p)
        BY <4>0, <4>2 DEF PublishEntry, IInv, TypeOK
      <4>3. CASE PublishSnapshot(p) \/ ReadFails(p) \/ SaveTimesOut(p)
        BY <4>0, <4>3 DEF PublishSnapshot, ReadFails, SaveTimesOut
      <4> QED BY <1>2, <4>1, <4>2, <4>3 DEF Step
    <3> QED BY <1>0, <2>1, <2>3, <3>1, KeepTail
  <2> QED BY <2>2, <2>3
<1>3. ASSUME NEW p \in Procs, AppendEntry(p) PROVE ProcTail(q)'
  <2>1. /\ pc[p] = "append" /\ Chat(p) \in Chats /\ IsEntry(entry[p]) /\ limbo' = limbo
        /\ LinkedAt(rows[Chat(p)], entry[p].Sequence, entry[p])
    BY <1>3 DEF AppendEntry, IInv, TypeOK, PendingLinked
  <2>2. PICK n \in Nat : ChainOfLength(rows[Chat(p)], n)
    BY <2>1 DEF IInv, Chained
  <2>3. CASE AppendApplies(rows[Chat(p)], entry[p])
    <3>1. /\ rows' = [rows EXCEPT ![Chat(p)] = Put(@, entry[p].Sequence, Stored(entry[p]))]
          /\ entry' = entry /\ msg' = msg
          /\ pc' = [pc EXCEPT ![p] = "publish"]
      BY <1>3, <2>3 DEF AppendEntry
    <3>2. /\ rows'[Chat(p)] = Put(rows[Chat(p)], entry[p].Sequence, Stored(entry[p]))
          /\ \A d \in Chats : d # Chat(p) => rows'[d] = rows[d]
      BY <2>1, <3>1 DEF IInv, TypeOK
    <3>3. CASE q = p
      <4>1. DOMAIN rows'[Chat(p)] = 0 .. entry[p].Sequence /\ entry[p].Sequence = n
        BY <2>1, <2>2, <2>3, <3>2, InsertAtEnd
      <4>2. ASSUME NEW w \in limbo, w.Chat = Chat(p) PROVE w.Entry.Sequence <= n
        <5>1. IsEntry(w.Entry) /\ LinkedAt(rows[Chat(p)], w.Entry.Sequence, w.Entry)
          BY <4>2 DEF IInv, TypeOK, PendingLinked
        <5> QED BY <2>2, <5>1, InsertAtEnd
      <4> QED BY <2>1, <3>1, <3>3, <4>1, <4>2 DEF ProcTail, Chat
    <3>4. CASE q # p
      <4>1. pc'[q] = pc[q]
        BY <3>1, <3>4 DEF IInv, TypeOK
      <4>2. ASSUME pc[q] \in After PROVE Chat(q) \in Chats /\ Chat(q) # Chat(p)
        BY <2>1, <3>4, <4>2, Excluded DEF IInv, TypeOK
      <4> QED BY <1>0, <2>1, <3>1, <3>2, <4>1, <4>2, KeepTail
    <3> QED BY <3>3, <3>4
  <2>4. CASE ~ AppendApplies(rows[Chat(p)], entry[p])
    <3>1. Return(p, 422) /\ rows' = rows
      BY <1>3, <2>4 DEF AppendEntry
    <3>2. /\ pc'[p] = "idle"
          /\ q # p => pc'[q] = pc[q] /\ entry'[q] = entry[q] /\ msg'[q] = msg[q]
      BY <3>1 DEF Return, IInv, TypeOK
    <3> QED BY <1>0, <2>1, <3>1, <3>2, KeepTail
  <2> QED BY <2>3, <2>4
<1>4. ASSUME NEW p \in Procs, AppendTimesOut(p) PROVE ProcTail(q)'
  <2>1. /\ pc[p] = "append" /\ rows' = rows /\ Return(p, 422)
        /\ limbo' = limbo \cup {[Chat |-> Chat(p), Entry |-> entry[p]]}
    BY <1>4 DEF AppendTimesOut
  <2>2. /\ pc'[p] = "idle"
        /\ q # p => pc'[q] = pc[q] /\ entry'[q] = entry[q] /\ msg'[q] = msg[q]
    BY <2>1 DEF Return, IInv, TypeOK
  <2>3. ASSUME pc'[q] \in After, NEW w \in limbo', w.Chat = Chat(q) PROVE w \in limbo
    <3>1. pc[q] \in Holding /\ q # p
      BY <2>2, <2>3
    <3>2. Chat(q) # Chat(p)
      BY <2>1, <3>1, Excluded
    <3> QED BY <2>1, <2>3, <3>2
  <2> QED BY <1>0, <2>1, <2>2, <2>3, KeepTail
<1>5. ASSUME NEW w \in limbo, LateAppend(w) PROVE ProcTail(q)'
  <2>1. /\ w.Chat \in Chats /\ IsEntry(w.Entry)
        /\ LinkedAt(rows[w.Chat], w.Entry.Sequence, w.Entry)
        /\ AppendApplies(rows[w.Chat], w.Entry)
        /\ rows' = [rows EXCEPT ![w.Chat] = Put(@, w.Entry.Sequence, Stored(w.Entry))]
        /\ limbo' \subseteq limbo /\ pc' = pc /\ entry' = entry /\ msg' = msg
    BY <1>5 DEF LateAppend, IInv, TypeOK, PendingLinked
  <2>2. PICK n \in Nat : ChainOfLength(rows[w.Chat], n)
    BY <2>1 DEF IInv, Chained
  <2>3. w.Entry.Sequence = n /\ w.Entry.Sequence \notin DOMAIN rows[w.Chat]
    <3>1. w.Entry.Sequence = n
      BY <2>1, <2>2, InsertAtEnd
    <3>2. DOMAIN rows[w.Chat] = 0 .. n - 1
      BY <2>2 DEF ChainOfLength
    <3>3. n \notin 0 .. n - 1
      OBVIOUS
    <3> QED BY <3>1, <3>2, <3>3
  <2>4. ASSUME pc[q] \in After PROVE w.Chat # Chat(q)
    <3>1. IsEntry(entry[q])
      BY <2>4 DEF IInv, TypeOK
    <3> QED BY <1>0, <2>2, <2>3, <2>4, <3>1 DEF ProcTail, IsEntry
  <2>5. ASSUME pc[q] \in After PROVE rows'[Chat(q)] = rows[Chat(q)]
    BY <2>1, <2>4, <2>5 DEF IInv, TypeOK
  <2> QED BY <1>0, <2>1, <2>5, KeepTail
<1>6. ASSUME NEW w \in lateSnaps, LateSave(w) PROVE ProcTail(q)'
  BY <1>0, <1>6, KeepTail DEF LateSave
<1>7. ASSUME NEW n \in Nodes, Crash(n) PROVE ProcTail(q)'
  <2>1. /\ rows' = rows /\ limbo' = limbo
        /\ pc'[q] \in After => pc'[q] = pc[q] /\ entry'[q] = entry[q] /\ msg'[q] = msg[q]
    BY <1>7 DEF Crash, Dies
  <2> QED BY <1>0, <2>1, KeepTail
<1>8. CASE UNCHANGED vars
  BY <1>0, <1>8, KeepTail DEF vars
<1> QED BY <1>1, <1>2, <1>3, <1>4, <1>5, <1>6, <1>7, <1>8 DEF Next, Step

-----------------------------------------------------------------------------
(***************************************************************************)
(* The ranges of the snapshots.  SnapshotsCover alone is not inductive: a  *)
(* snapshot that is being built, or that timed out and may still replace   *)
(* another, must fit the ones stored too, and no end of a snapshot may     *)
(* reach the entry that is about to be sealed.                             *)
(***************************************************************************)
Sealing  == {"publish", "readSnapshot", "readWindow", "saveSnapshot"}
InWindow == {"readWindow", "saveSnapshot"}

SnapFields == {"SnapshotIndex", "FromSequence", "ToSequence", "MerkleRoot", "LastEntryHash"}

InRange(log, sn) ==
    /\ sn.SnapshotIndex \in Nat /\ sn.FromSequence \in Nat /\ sn.ToSequence \in Nat
    /\ sn.FromSequence <= sn.ToSequence /\ sn.ToSequence \in DOMAIN log

\* It starts no later than where the one before it ends.
Joins(table, sn) ==
    IF sn.SnapshotIndex = 0 THEN sn.FromSequence = 0
    ELSE /\ sn.SnapshotIndex - 1 \in DOMAIN table
         /\ sn.FromSequence <= table[sn.SnapshotIndex - 1].ToSequence + 1

FitsIn(log, table, sn) == InRange(log, sn) /\ Joins(table, sn)

Fits(c, sn) == FitsIn(rows[c], snaps[c], sn)

ChatSnaps(c) ==
    /\ \E m \in Nat : DOMAIN snaps[c] = 0 .. m - 1
    /\ \A k \in DOMAIN snaps[c] :
          Fits(c, snaps[c][k]) /\ snaps[c][k].SnapshotIndex = k /\ snaps[c][k].Node \in Nodes

LateFits == \A w \in lateSnaps : Fits(w.Chat, w.Snap) /\ w.Snap.Node \in Nodes /\ ~ Memory

\* Where the snapshots of a chat end, those that may still be applied included.
EndsBefore(table, late, c, s) ==
    /\ \A k \in DOMAIN table : table[k].ToSequence < s
    /\ \A w \in late : w.Chat = c => w.Snap.ToSequence < s

Sealer(p) ==
    /\ pc[p] \in Sealing => EndsBefore(snaps[Chat(p)], lateSnaps, Chat(p), entry[p].Sequence)
    /\ pc[p] \in InWindow =>
          /\ Fits(Chat(p), snap[p]) /\ DOMAIN snap[p] = SnapFields
          /\ snap[p].ToSequence = entry[p].Sequence
          /\ snap[p].LastEntryHash = entry[p].EntryHash
          /\ Memory => snap[p].SnapshotIndex = Cardinality(DOMAIN snaps[Chat(p)])

CoverInv == (\A c \in Chats : ChatSnaps(c)) /\ LateFits /\ \A p \in Procs : Sealer(p)

\* What a step does to a chat's snapshots: none is lost, and an end only moves on.
SnapsGrow(c) ==
    /\ DOMAIN snaps[c] \subseteq DOMAIN snaps'[c]
    /\ \A k \in DOMAIN snaps[c] : /\ snaps'[c][k].ToSequence \in Nat
                                  /\ snaps[c][k].ToSequence <= snaps'[c][k].ToSequence

(***************************************************************************)
(* A snapshot that fits goes on fitting while logs and snapshots grow.     *)
(***************************************************************************)
LEMMA FitsStable ==
    ASSUME RowsExtend, NEW c \in Chats, ChatSnaps(c), SnapsGrow(c), NEW sn, Fits(c, sn)
    PROVE  Fits(c, sn)'
<1>1. InRange(rows'[c], sn)
  BY DEF Fits, FitsIn, InRange, RowsExtend, IsRestriction
<1>2. CASE sn.SnapshotIndex = 0
  BY <1>1, <1>2 DEF Fits, FitsIn, Joins
<1>3. CASE sn.SnapshotIndex # 0
  <2> DEFINE j == sn.SnapshotIndex - 1
  <2>1. /\ j \in DOMAIN snaps[c] /\ j \in DOMAIN snaps'[c]
        /\ sn.FromSequence <= snaps[c][j].ToSequence + 1
        /\ snaps'[c][j].ToSequence \in Nat
        /\ snaps[c][j].ToSequence <= snaps'[c][j].ToSequence
        /\ sn.FromSequence \in Nat /\ snaps[c][j].ToSequence \in Nat
    BY <1>3 DEF Fits, FitsIn, Joins, InRange, SnapsGrow, ChatSnaps
  <2>2. sn.FromSequence <= snaps'[c][j].ToSequence + 1
    BY <2>1
  <2> QED BY <1>1, <1>3, <2>1, <2>2 DEF Fits, FitsIn, Joins
<1> QED BY <1>2, <1>3

\* A step that leaves the snapshots alone only grows them.
LEMMA SnapsStay ==
    ASSUME NEW c \in Chats, ChatSnaps(c), snaps'[c] = snaps[c]
    PROVE  SnapsGrow(c)
<1>1. ASSUME NEW k \in DOMAIN snaps[c] PROVE snaps[c][k].ToSequence \in Nat
  BY DEF ChatSnaps, Fits, FitsIn, InRange
<1> QED BY <1>1 DEF SnapsGrow

(***************************************************************************)
(* Saving a snapshot that fits adds it at the end, or replaces, on one     *)
(* node, one that ends earlier (scylla.go and storage.go SaveSnapshot).    *)
(***************************************************************************)
LEMMA SaveEffect ==
    ASSUME OneNode, IInv, NEW c \in Chats, ChatSnaps(c), NEW sn, Fits(c, sn),
           sn.Node \in Nodes, Memory => sn.SnapshotIndex = Cardinality(DOMAIN snaps[c]),
           Save(c, sn)
    PROVE  /\ SnapsGrow(c) /\ \A d \in Chats : d # c => snaps'[d] = snaps[d]
           /\ \E m \in Nat : DOMAIN snaps'[c] = 0 .. m - 1
           /\ \A k \in DOMAIN snaps'[c] :
                 \/ k \in DOMAIN snaps[c] /\ snaps'[c][k] = snaps[c][k]
                 \/ k = sn.SnapshotIndex /\ snaps'[c][k] = sn
<1> DEFINE i == sn.SnapshotIndex
           old == snaps[c]
<1>1. PICK table \in SavedSnapshot(old, sn) : snaps' = [snaps EXCEPT ![c] = table]
  BY DEF Save
<1>2. snaps'[c] = table /\ \A d \in Chats : d # c => snaps'[d] = snaps[d]
  BY <1>1 DEF IInv, TypeOK
<1>3. PICK m \in Nat : DOMAIN old = 0 .. m - 1
  BY DEF ChatSnaps
<1>4. i \in 0 .. m /\ sn.ToSequence \in Nat
  <2>1. i \in Nat /\ (i = 0 \/ i - 1 \in 0 .. m - 1) /\ sn.ToSequence \in Nat
    BY <1>3 DEF Fits, FitsIn, InRange, Joins
  <2> HIDE DEF i
  <2> QED BY <2>1
<1>5. /\ table \in {old, Put(old, i, sn)}
      /\ table # old /\ i \in DOMAIN old => old[i].ToSequence < sn.ToSequence
  <2>1. CASE Memory
    <3>1. i = m /\ SliceLen(old) = m
      BY <1>3, <2>1, SizeOfInterval DEF SliceLen
    <3>2. i \notin DOMAIN old
      BY <1>3, <3>1
    <3> QED BY <1>1, <2>1, <3>1, <3>2 DEF SavedSnapshot, SliceSave
  <2>2. CASE ~ Memory
    <3>1. table \in RowSaves(old, sn)
      BY <1>1, <2>2 DEF SavedSnapshot
    <3>2. CASE i \notin DOMAIN old
      BY <3>1, <3>2 DEF RowSaves
    <3>3. CASE i \in DOMAIN old
      <4>1. old[i].Node = sn.Node
        BY <3>3 DEF ChatSnaps, OneNode
      <4>2. table \in IF old[i].ToSequence < sn.ToSequence THEN {Put(old, i, sn)} ELSE {old}
        BY <3>1, <3>3, <4>1 DEF RowSaves
      <4> QED BY <4>2
    <3> QED BY <3>2, <3>3
  <2> QED BY <2>1, <2>2
<1>6. \A k \in DOMAIN old : old[k].ToSequence \in Nat
  BY DEF ChatSnaps, Fits, FitsIn, InRange
<1>7. CASE table = old
  BY <1>2, <1>3, <1>7, SnapsStay
<1>8. CASE table = Put(old, i, sn) /\ table # old
  <2>1. /\ DOMAIN table = DOMAIN old \cup {i} /\ table[i] = sn
        /\ \A k \in DOMAIN old : k # i => table[k] = old[k]
    BY <1>8 DEF Put
  <2>2. \E l \in Nat : DOMAIN table = 0 .. l - 1
    <3>1. CASE i = m
      <4>1. 0 .. m - 1 \cup {m} = 0 .. (m + 1) - 1
        OBVIOUS
      <4> HIDE DEF i
      <4> QED BY <1>3, <2>1, <3>1, <4>1
    <3>2. CASE i # m
      <4> HIDE DEF i
      <4>1. i \in 0 .. m - 1
        BY <1>4, <3>2
      <4> QED BY <1>3, <2>1, <4>1
    <3> QED BY <3>1, <3>2
  <2> HIDE DEF i
  <2>3. ASSUME NEW k \in DOMAIN old
        PROVE  table[k].ToSequence \in Nat /\ old[k].ToSequence <= table[k].ToSequence
    <3>1. CASE k = i
      BY <1>4, <1>5, <1>6, <1>8, <2>1, <3>1
    <3>2. CASE k # i
      BY <1>6, <2>1, <3>2
    <3> QED BY <3>1, <3>2
  <2>4. SnapsGrow(c)
    <3>1. \A k \in DOMAIN old :
             table[k].ToSequence \in Nat /\ old[k].ToSequence <= table[k].ToSequence
      BY <2>3
    <3>2. DOMAIN old \subseteq DOMAIN table
      BY <2>1
    <3> QED BY ONLY <1>2, <3>1, <3>2 DEF SnapsGrow
  <2>5. \A k \in DOMAIN table : (k \in DOMAIN old /\ table[k] = old[k]) \/ (k = i /\ table[k] = sn)
    BY <2>1
  <2> QED BY <1>2, <2>2, <2>4, <2>5 DEF i
<1> QED BY <1>5, <1>7, <1>8

(***************************************************************************)
(* Saving keeps the chat's snapshots fitting, and lets no end come near an *)
(* entry that is being sealed.                                             *)
(***************************************************************************)
LEMMA SaveKeeps ==
    ASSUME OneNode, IInv, RowsExtend, NEW c \in Chats, \A d \in Chats : ChatSnaps(d), NEW sn,
           Fits(c, sn), sn.Node \in Nodes,
           Memory => sn.SnapshotIndex = Cardinality(DOMAIN snaps[c]), Save(c, sn)
    PROVE  /\ \A d \in Chats : ChatSnaps(d)' /\ SnapsGrow(d)
           /\ \A d \in Chats : d # c => snaps'[d] = snaps[d]
           /\ \A s : (\A k \in DOMAIN snaps[c] : snaps[c][k].ToSequence < s) /\ sn.ToSequence < s
                     => \A k \in DOMAIN snaps'[c] : snaps'[c][k].ToSequence < s
<1>1. /\ SnapsGrow(c) /\ \A d \in Chats : d # c => snaps'[d] = snaps[d]
      /\ \E m \in Nat : DOMAIN snaps'[c] = 0 .. m - 1
      /\ \A k \in DOMAIN snaps'[c] :
            \/ k \in DOMAIN snaps[c] /\ snaps'[c][k] = snaps[c][k]
            \/ k = sn.SnapshotIndex /\ snaps'[c][k] = sn
  BY SaveEffect
<1>2. ASSUME NEW d \in Chats PROVE SnapsGrow(d)
  BY <1>1, SnapsStay
<1>3. ASSUME NEW d \in Chats PROVE ChatSnaps(d)'
  <2>1. ASSUME NEW s, FitsIn(rows[d], snaps[d], s) PROVE FitsIn(rows'[d], snaps'[d], s)
    BY <1>2, <2>1, FitsStable DEF Fits
  <2>2. CASE d # c
    BY <1>1, <2>1, <2>2 DEF ChatSnaps, Fits
  <2>3. CASE d = c
    <3>1. ASSUME NEW k \in DOMAIN snaps'[c]
          PROVE  /\ FitsIn(rows'[c], snaps'[c], snaps'[c][k]) /\ snaps'[c][k].SnapshotIndex = k
                 /\ snaps'[c][k].Node \in Nodes
      <4>1. CASE k \in DOMAIN snaps[c] /\ snaps'[c][k] = snaps[c][k]
        BY <2>1, <2>3, <4>1 DEF ChatSnaps, Fits
      <4>2. CASE k = sn.SnapshotIndex /\ snaps'[c][k] = sn
        BY <2>1, <2>3, <4>2 DEF Fits
      <4> QED BY <1>1, <4>1, <4>2
    <3> QED BY <1>1, <2>3, <3>1 DEF ChatSnaps, Fits
  <2> QED BY <2>2, <2>3
<1>4. ASSUME NEW s, \A k \in DOMAIN snaps[c] : snaps[c][k].ToSequence < s, sn.ToSequence < s,
             NEW k \in DOMAIN snaps'[c]
      PROVE  snaps'[c][k].ToSequence < s
  BY <1>1, <1>4
<1> QED BY <1>1, <1>2, <1>3, <1>4

(***************************************************************************)
(* A goroutine that does not move on keeps what it knows of its window     *)
(* while logs and snapshots grow, unless an end gets past it.              *)
(***************************************************************************)
LEMMA KeepSealer ==
    ASSUME IInv, RowsExtend, NEW q \in Procs, Sealer(q), \A c \in Chats : ChatSnaps(c),
           pc'[q] \in Sealing =>
               /\ pc[q] \in Sealing /\ entry'[q] = entry[q] /\ msg'[q] = msg[q]
               /\ EndsBefore(snaps'[Chat(q)], lateSnaps', Chat(q), entry[q].Sequence),
           pc'[q] \in InWindow =>
               /\ pc[q] \in InWindow /\ SnapsGrow(Chat(q))
               /\ DOMAIN snap'[q] = DOMAIN snap[q]
               /\ snap'[q].SnapshotIndex = snap[q].SnapshotIndex
               /\ snap'[q].FromSequence = snap[q].FromSequence
               /\ snap'[q].ToSequence = snap[q].ToSequence
               /\ snap'[q].LastEntryHash = snap[q].LastEntryHash
               /\ Memory => DOMAIN snaps'[Chat(q)] = DOMAIN snaps[Chat(q)]
    PROVE  Sealer(q)'
<1>1. pc'[q] \in InWindow => pc'[q] \in Sealing
  BY DEF InWindow, Sealing
<1>2. ASSUME pc'[q] \in Sealing
      PROVE  EndsBefore(snaps'[msg'[q].ChatID], lateSnaps', msg'[q].ChatID, entry'[q].Sequence)
  BY <1>2 DEF Chat
<1>3. ASSUME pc'[q] \in InWindow
      PROVE  /\ FitsIn(rows'[msg'[q].ChatID], snaps'[msg'[q].ChatID], snap'[q])
             /\ DOMAIN snap'[q] = SnapFields
             /\ snap'[q].ToSequence = entry'[q].Sequence
             /\ snap'[q].LastEntryHash = entry'[q].EntryHash
             /\ Memory => snap'[q].SnapshotIndex = Cardinality(DOMAIN snaps'[msg'[q].ChatID])
  <2>1. /\ Chat(q) \in Chats /\ msg'[q].ChatID = Chat(q) /\ entry'[q] = entry[q]
        /\ Fits(Chat(q), snap[q])
    BY <1>1, <1>3 DEF IInv, TypeOK, Chat, Sealer, InWindow
  <2>2. FitsIn(rows'[Chat(q)], snaps'[Chat(q)], snap[q])
    BY <1>3, <2>1, FitsStable DEF Fits
  <2>3. FitsIn(rows'[Chat(q)], snaps'[Chat(q)], snap'[q])
    BY <1>3, <2>2 DEF FitsIn, InRange, Joins
  <2> QED BY <1>3, <2>1, <2>3 DEF Sealer
<1> QED BY <1>2, <1>3 DEF Sealer, Fits, Chat, Memory

(***************************************************************************)
(* A step that writes no snapshot keeps the snapshots fitting.             *)
(***************************************************************************)
LEMMA QuietCover ==
    ASSUME IInv, RowsExtend, CoverInv, snaps' = snaps, lateSnaps' = lateSnaps
    PROVE  (\A c \in Chats : ChatSnaps(c)' /\ SnapsGrow(c)) /\ LateFits'
<1>1. ASSUME NEW c \in Chats PROVE SnapsGrow(c)
  BY SnapsStay DEF CoverInv
<1>2. ASSUME NEW c \in Chats, NEW sn, FitsIn(rows[c], snaps[c], sn)
      PROVE  FitsIn(rows'[c], snaps'[c], sn)
  BY <1>1, <1>2, FitsStable DEF CoverInv, Fits
<1>3. ASSUME NEW c \in Chats PROVE ChatSnaps(c)'
  BY <1>2 DEF CoverInv, ChatSnaps, Fits
<1>4. LateFits'
  <2>1. \A w \in lateSnaps : w.Chat \in Chats
    BY DEF IInv, TypeOK
  <2> QED BY <1>2, <2>1 DEF CoverInv, LateFits, Fits, Memory
<1> QED BY <1>1, <1>3, <1>4

(***************************************************************************)
(* The window ReadSnapshot opens starts where the latest snapshot ends and *)
(* ends with the entry that was appended (log.go snapshot).                *)
(***************************************************************************)
LEMMA OpenWindow ==
    ASSUME IInv, NEW c \in Chats, ChatSnaps(c), NEW e, IsEntry(e), e.Sequence \in DOMAIN rows[c],
           \A k \in DOMAIN snaps[c] : snaps[c][k].ToSequence < e.Sequence
    PROVE  LET sn == NextSnapshot(snaps[c], e)
           IN  /\ Fits(c, sn) /\ DOMAIN sn = SnapFields
               /\ sn.ToSequence = e.Sequence /\ sn.LastEntryHash = e.EntryHash
               /\ sn.SnapshotIndex = Cardinality(DOMAIN snaps[c])
<1> DEFINE sn == NextSnapshot(snaps[c], e)
           table == snaps[c]
<1>1. PICK m \in Nat : DOMAIN table = 0 .. m - 1
  BY DEF ChatSnaps
<1>2. Cardinality(DOMAIN table) = m
  BY <1>1, SizeOfInterval
<1>3. DOMAIN sn = SnapFields /\ sn.ToSequence = e.Sequence /\ sn.LastEntryHash = e.EntryHash
  BY DEF NextSnapshot, SnapFields
<1>4. e.Sequence \in Nat
  BY DEF IsEntry
<1>5. CASE m = 0
  <2>1. IsEmpty(table)
    BY <1>1, <1>5 DEF IsEmpty
  <2>2. sn.SnapshotIndex = 0 /\ sn.FromSequence = 0
    BY <2>1 DEF NextSnapshot
  <2> HIDE DEF sn
  <2>3. Fits(c, sn)
    BY <1>3, <1>4, <2>2 DEF Fits, FitsIn, InRange, Joins
  <2> QED BY <1>2, <1>3, <1>5, <2>2, <2>3 DEF sn
<1>6. CASE m # 0
  <2>1. ~ IsEmpty(table) /\ m - 1 \in DOMAIN table
    BY <1>1, <1>6 DEF IsEmpty
  <2>2. Latest(table) = table[m - 1]
    BY <1>1, <1>2, <1>6, MaxOfInterval DEF Latest, SliceLast, SliceLen, RowLast
  <2>3. /\ table[m - 1].SnapshotIndex = m - 1 /\ table[m - 1].ToSequence \in Nat
        /\ table[m - 1].ToSequence < e.Sequence
    BY <2>1 DEF ChatSnaps, Fits, FitsIn, InRange
  <2>4. sn.SnapshotIndex = m /\ sn.FromSequence = table[m - 1].ToSequence + 1
    BY <1>6, <2>1, <2>2, <2>3 DEF NextSnapshot
  <2> HIDE DEF sn
  <2>5. InRange(rows[c], sn)
    BY <1>3, <1>4, <2>3, <2>4 DEF InRange
  <2>6. Joins(table, sn)
    BY <1>6, <2>1, <2>3, <2>4 DEF Joins
  <2> QED BY <1>2, <1>3, <2>4, <2>5, <2>6 DEF sn, Fits, FitsIn
<1> QED BY <1>5, <1>6
(***************************************************************************)
(* A goroutine that stands still keeps what it knows while nobody writes a *)
(* snapshot of its chat.                                                   *)
(***************************************************************************)
LEMMA StillSealer ==
    ASSUME IInv, RowsExtend, NEW q \in Procs, Sealer(q), \A c \in Chats : ChatSnaps(c),
           pc'[q] \in Sealing =>
               /\ pc'[q] = pc[q] /\ entry'[q] = entry[q] /\ msg'[q] = msg[q]
               /\ snap'[q] = snap[q] /\ snaps'[Chat(q)] = snaps[Chat(q)]
               /\ \A w \in lateSnaps' : w.Chat = Chat(q) => w \in lateSnaps
    PROVE  Sealer(q)'
<1>1. CASE pc'[q] \notin Sealing
  BY <1>1 DEF Sealer, Sealing, InWindow
<1>2. CASE pc'[q] \in Sealing
  <2>1. Chat(q) \in Chats
    BY <1>2 DEF IInv, TypeOK, Sealing
  <2>2. SnapsGrow(Chat(q))
    BY <1>2, <2>1, SnapsStay
  <2>3. EndsBefore(snaps'[Chat(q)], lateSnaps', Chat(q), entry[q].Sequence)
    BY <1>2 DEF Sealer, EndsBefore
  <2> QED BY <1>2, <2>2, <2>3, KeepSealer
<1> QED BY <1>1, <1>2

\* A goroutine's step leaves the snapshot another one is sealing alone.
LEMMA OthersSnap ==
    ASSUME IInv, NEW p \in Procs, NEW q \in Procs, q # p, Lock(p) \/ Step(p)
    PROVE  snap'[q] = snap[q]
<1>1. ASSUME NEW status, Return(p, status) PROVE snap'[q] = snap[q]
  BY <1>1 DEF Return, IInv, TypeOK
<1>2. CASE Lock(p) \/ ReadTip(p) \/ ReadSnapshot(p) \/ ReadWindow(p) \/ SaveSnapshot(p) \/ CacheRoot(p)
  BY <1>2 DEF Lock, ReadTip, ReadSnapshot, ReadWindow, SaveSnapshot, CacheRoot, IInv, TypeOK
<1>3. CASE AppendEntry(p) \/ PublishEntry(p)
  BY <1>1, <1>3 DEF AppendEntry, PublishEntry
<1>4. CASE PublishSnapshot(p) \/ ReadFails(p) \/ AppendTimesOut(p) \/ SaveTimesOut(p)
  BY <1>1, <1>4 DEF PublishSnapshot, ReadFails, AppendTimesOut, SaveTimesOut
<1> QED BY <1>2, <1>3, <1>4 DEF Step

(***************************************************************************)
(* An entry that is inserted comes after the end of every snapshot of its  *)
(* chat (log.go Append).                                                   *)
(***************************************************************************)
LEMMA InsertAfterEnds ==
    ASSUME IInv, CoverInv, NEW p \in Procs, AppendEntry(p),
           AppendApplies(rows[Chat(p)], entry[p])
    PROVE  EndsBefore(snaps[Chat(p)], lateSnaps, Chat(p), entry[p].Sequence)
<1>1. /\ Chat(p) \in Chats /\ IsEntry(entry[p])
      /\ LinkedAt(rows[Chat(p)], entry[p].Sequence, entry[p])
  BY DEF AppendEntry, IInv, TypeOK, PendingLinked, Built, Holding, Labels
<1>2. PICK n \in Nat : ChainOfLength(rows[Chat(p)], n)
  BY <1>1 DEF IInv, Chained
<1>3. entry[p].Sequence = n
  BY <1>1, <1>2, InsertAtEnd
<1>4. \A s \in DOMAIN rows[Chat(p)] : s < n
  BY <1>2 DEF ChainOfLength
<1>5. ASSUME NEW k \in DOMAIN snaps[Chat(p)] PROVE snaps[Chat(p)][k].ToSequence < n
  BY <1>1, <1>4 DEF CoverInv, ChatSnaps, Fits, FitsIn, InRange
<1>6. ASSUME NEW w \in lateSnaps, w.Chat = Chat(p) PROVE w.Snap.ToSequence < n
  BY <1>4, <1>6 DEF CoverInv, LateFits, Fits, FitsIn, InRange
<1> QED BY <1>3, <1>5, <1>6 DEF EndsBefore

(***************************************************************************)
(* A step of a goroutine that writes no snapshot keeps its own knowledge.  *)
(***************************************************************************)
LEMMA QuietStep ==
    ASSUME IInv, RowsExtend, TailInv, CoverInv, NEW p \in Procs, Lock(p) \/ Step(p),
           ~ SaveSnapshot(p), ~ SaveTimesOut(p)
    PROVE  CoverInv'
<1> USE DEF Sealing, InWindow, Labels, Holding, Built
<1>0. ASSUME NEW status, Return(p, status) PROVE pc'[p] \notin Sealing
  BY <1>0 DEF Return, IInv, TypeOK
<1>1. snaps' = snaps /\ lateSnaps' = lateSnaps
  BY DEF Step, Lock, ReadTip, AppendEntry, PublishEntry, ReadSnapshot, ReadWindow, CacheRoot,
         PublishSnapshot, ReadFails, AppendTimesOut
<1>2. (\A c \in Chats : ChatSnaps(c)' /\ SnapsGrow(c)) /\ LateFits'
  BY <1>1, QuietCover
<1>3. ASSUME NEW q \in Procs, q # p PROVE Sealer(q)'
  BY <1>1, <1>3, OthersUntouched, OthersSnap, StillSealer DEF CoverInv
<1>4. Sealer(p) /\ \A c \in Chats : ChatSnaps(c)
  BY DEF CoverInv
<1>5. pc[p] \in Labels /\ pc[p] # "idle" => Chat(p) \in Chats
  BY DEF IInv, TypeOK
<1>6. ASSUME pc'[p] \notin Sealing PROVE Sealer(p)'
  BY <1>6 DEF Sealer
<1>7. ASSUME AppendEntry(p) /\ pc'[p] \in Sealing PROVE Sealer(p)'
  <2>1. AppendApplies(rows[Chat(p)], entry[p])
    BY <1>0, <1>7 DEF AppendEntry
  <2>2. pc'[p] = "publish" /\ entry'[p] = entry[p] /\ msg'[p] = msg[p]
    BY <1>7, <2>1 DEF AppendEntry, IInv, TypeOK
  <2>3. EndsBefore(snaps[Chat(p)], lateSnaps, Chat(p), entry[p].Sequence)
    BY <1>7, <2>1, InsertAfterEnds
  <2> QED BY <1>1, <2>2, <2>3 DEF Sealer, Chat
<1>8. ASSUME PublishEntry(p) /\ pc'[p] \in Sealing PROVE Sealer(p)'
  <2>1. pc[p] = "publish" /\ pc'[p] = "readSnapshot" /\ entry'[p] = entry[p] /\ msg'[p] = msg[p]
    BY <1>0, <1>8 DEF PublishEntry, IInv, TypeOK
  <2> QED BY <1>1, <1>4, <2>1 DEF Sealer, Chat
<1>9. ASSUME ReadSnapshot(p) PROVE Sealer(p)'
  <2>1. /\ pc[p] = "readSnapshot" /\ pc'[p] = "readWindow" /\ entry' = entry /\ msg' = msg
        /\ snap'[p] = NextSnapshot(snaps[Chat(p)], entry[p]) /\ rows' = rows
    BY <1>9 DEF ReadSnapshot, IInv, TypeOK
  <2>2. /\ Chat(p) \in Chats /\ IsEntry(entry[p]) /\ entry[p].Sequence \in DOMAIN rows[Chat(p)]
    <3>1. IsEntry(entry[p]) /\ DOMAIN rows[Chat(p)] = 0 .. entry[p].Sequence
      BY <2>1 DEF IInv, TypeOK, TailInv, ProcTail, After
    <3> QED BY <1>5, <2>1, <3>1 DEF IsEntry
  <2>3. EndsBefore(snaps[Chat(p)], lateSnaps, Chat(p), entry[p].Sequence)
    BY <1>4, <2>1 DEF Sealer
  <2>4. /\ Fits(Chat(p), snap'[p]) /\ DOMAIN snap'[p] = SnapFields
        /\ snap'[p].ToSequence = entry[p].Sequence
        /\ snap'[p].LastEntryHash = entry[p].EntryHash
        /\ snap'[p].SnapshotIndex = Cardinality(DOMAIN snaps[Chat(p)])
    BY <1>4, <2>1, <2>2, <2>3, OpenWindow DEF EndsBefore
  <2> QED BY <1>1, <2>1, <2>3, <2>4 DEF Sealer, Chat, Fits
<1>10. ASSUME ReadWindow(p) PROVE Sealer(p)'
  <2>1. /\ pc[p] = "readWindow" /\ pc'[p] = "saveSnapshot" /\ entry' = entry /\ msg' = msg
        /\ snap' = [snap EXCEPT ![p].MerkleRoot =
                      Root(Hashes(EntriesSince(rows[Chat(p)], snap[p].FromSequence)))]
    BY <1>10 DEF ReadWindow, IInv, TypeOK
  <2>2. /\ DOMAIN snap'[p] = DOMAIN snap[p]
        /\ snap'[p].SnapshotIndex = snap[p].SnapshotIndex
        /\ snap'[p].FromSequence = snap[p].FromSequence
        /\ snap'[p].ToSequence = snap[p].ToSequence
        /\ snap'[p].LastEntryHash = snap[p].LastEntryHash
    BY <1>4, <2>1 DEF Sealer, SnapFields, IInv, TypeOK
  <2>3. EndsBefore(snaps[Chat(p)], lateSnaps, Chat(p), entry[p].Sequence)
    BY <1>4, <2>1 DEF Sealer
  <2> QED BY <1>1, <1>2, <1>4, <1>5, <2>1, <2>2, <2>3, KeepSealer
<1>11. pc'[p] \in Sealing =>
          AppendEntry(p) \/ PublishEntry(p) \/ ReadSnapshot(p) \/ ReadWindow(p)
  <2>1. CASE Lock(p) \/ ReadTip(p) \/ CacheRoot(p)
    BY <2>1 DEF Lock, ReadTip, CacheRoot, IInv, TypeOK
  <2>2. CASE PublishSnapshot(p) \/ ReadFails(p) \/ AppendTimesOut(p)
    BY <1>0, <2>2 DEF PublishSnapshot, ReadFails, AppendTimesOut
  <2> QED BY <2>1, <2>2 DEF Step
<1>12. Sealer(p)'
  BY <1>6, <1>7, <1>8, <1>9, <1>10, <1>11
<1> QED BY <1>2, <1>3, <1>12 DEF CoverInv

(***************************************************************************)
(* What is written is the snapshot that was built (log.go snapshot).       *)
(***************************************************************************)
LEMMA StampedKeeps ==
    ASSUME NEW p \in Procs, DOMAIN snap[p] = SnapFields
    PROVE  /\ Stamped(p).Node = NodeOf[p]
           /\ Stamped(p).SnapshotIndex = snap[p].SnapshotIndex
           /\ Stamped(p).FromSequence = snap[p].FromSequence
           /\ Stamped(p).ToSequence = snap[p].ToSequence
           /\ Stamped(p).MerkleRoot = snap[p].MerkleRoot
           /\ Stamped(p).LastEntryHash = snap[p].LastEntryHash
BY DEF Stamped, SnapFields

\* The snapshot about to be saved starts where the one before its index ends.
LEMMA StampedFits ==
    ASSUME IInv, CoverInv, NEW p \in Procs, pc[p] = "saveSnapshot"
    PROVE  /\ Chat(p) \in Chats /\ Fits(Chat(p), Stamped(p)) /\ Stamped(p).Node \in Nodes
           /\ Memory => Stamped(p).SnapshotIndex = Cardinality(DOMAIN snaps[Chat(p)])
           /\ Stamped(p).ToSequence = entry[p].Sequence
<1>1. /\ Fits(Chat(p), snap[p]) /\ DOMAIN snap[p] = SnapFields
      /\ Memory => snap[p].SnapshotIndex = Cardinality(DOMAIN snaps[Chat(p)])
      /\ snap[p].ToSequence = entry[p].Sequence
  BY DEF CoverInv, Sealer, InWindow
<1>2. Chat(p) \in Chats /\ NodeOf[p] \in Nodes
  BY NodeAssumption DEF IInv, TypeOK
<1> QED BY <1>1, <1>2, StampedKeeps DEF Fits, FitsIn, InRange, Joins

(***************************************************************************)
(* Writing the snapshot, whether the answer comes or the write times out   *)
(* (log.go snapshot, scylla.go SaveSnapshot).                              *)
(***************************************************************************)
LEMMA SaveStep ==
    ASSUME OneNode, IInv, MutexInv, RowsExtend, CoverInv, NEW p \in Procs,
           SaveSnapshot(p) \/ SaveTimesOut(p)
    PROVE  CoverInv'
<1> USE DEF Sealing, InWindow, Labels, Holding
<1> DEFINE c == Chat(p)
           sn == Stamped(p)
<1>1. pc[p] = "saveSnapshot" /\ \A d \in Chats : ChatSnaps(d)
  BY DEF SaveSnapshot, SaveTimesOut, CoverInv
<1>2. /\ c \in Chats /\ Fits(c, sn) /\ sn.Node \in Nodes
      /\ Memory => sn.SnapshotIndex = Cardinality(DOMAIN snaps[c])
  BY <1>1, StampedFits
<1> HIDE DEF sn
<1>3. /\ \A d \in Chats : ChatSnaps(d)' /\ SnapsGrow(d)
      /\ \A d \in Chats : d # c => snaps'[d] = snaps[d]
      /\ \A w \in lateSnaps' : \/ w \in lateSnaps
                               \/ w.Chat = c /\ w.Snap = sn /\ ~ Memory
  <2>1. CASE SaveSnapshot(p)
    <3>1. Save(c, sn) /\ lateSnaps' = lateSnaps
      BY <2>1 DEF SaveSnapshot, sn
    <3> QED BY <1>1, <1>2, <3>1, SaveKeeps
  <2>2. CASE SaveTimesOut(p)
    <3>1. ~ Memory
      BY <2>2, MemoryAssumption DEF SaveTimesOut, Memory
    <3>2. snaps' = snaps /\ lateSnaps' = lateSnaps \cup {[Chat |-> c, Snap |-> sn]}
      BY <2>2 DEF SaveTimesOut, sn
    <3>3. \A d \in Chats : SnapsGrow(d)
      BY <1>1, <3>2, SnapsStay
    <3>4. ASSUME NEW d \in Chats, NEW s, FitsIn(rows[d], snaps[d], s)
          PROVE  FitsIn(rows'[d], snaps'[d], s)
      BY <1>1, <3>3, <3>4, FitsStable DEF Fits
    <3>5. ASSUME NEW d \in Chats PROVE ChatSnaps(d)'
      BY <1>1, <3>2, <3>4 DEF ChatSnaps, Fits
    <3> HIDE DEF c
    <3> QED BY <3>1, <3>2, <3>3, <3>5
  <2> QED BY <2>1, <2>2
<1>4. LateFits'
  <2>1. ASSUME NEW d \in Chats, NEW s, FitsIn(rows[d], snaps[d], s)
        PROVE  FitsIn(rows'[d], snaps'[d], s)
    BY <1>1, <1>3, <2>1, FitsStable DEF Fits
  <2>2. ASSUME NEW w \in lateSnaps'
        PROVE  FitsIn(rows'[w.Chat], snaps'[w.Chat], w.Snap) /\ w.Snap.Node \in Nodes /\ ~ Memory
    <3>1. CASE w \in lateSnaps
      BY <2>1, <3>1 DEF CoverInv, LateFits, Fits, IInv, TypeOK
    <3>2. CASE w.Chat = c /\ w.Snap = sn /\ ~ Memory
      BY <1>2, <2>1, <3>2 DEF Fits
    <3> QED BY <1>3, <3>1, <3>2
  <2> QED BY <2>2 DEF LateFits, Fits, Memory
<1>5. ASSUME NEW q \in Procs PROVE Sealer(q)'
  <2>1. CASE q = p
    <3>1. pc'[p] \notin Sealing
      BY DEF SaveSnapshot, SaveTimesOut, Return, IInv, TypeOK
    <3> QED BY <2>1, <3>1 DEF Sealer
  <2>2. CASE q # p
    <3>1. /\ pc'[q] = pc[q] /\ entry'[q] = entry[q] /\ msg'[q] = msg[q]
          /\ snap'[q] = snap[q]
      BY <2>2, OthersUntouched, OthersSnap DEF Step
    <3>2. ASSUME pc[q] \in Sealing
          PROVE  /\ snaps'[Chat(q)] = snaps[Chat(q)]
                 /\ \A w \in lateSnaps' : w.Chat = Chat(q) => w \in lateSnaps
      <4>1. Chat(q) # c
        BY <1>1, <2>2, <3>2, Excluded
      <4>2. Chat(q) \in Chats
        BY <3>2 DEF IInv, TypeOK
      <4> HIDE DEF c
      <4> QED BY <1>3, <4>1, <4>2
    <3> QED BY <1>1, <3>1, <3>2, StillSealer DEF CoverInv
  <2> QED BY <2>1, <2>2
<1> QED BY <1>3, <1>4, <1>5 DEF CoverInv

(***************************************************************************)
(* A snapshot write that is applied late (scylla.go SaveSnapshot).         *)
(***************************************************************************)
LEMMA LateSaveCover ==
    ASSUME OneNode, IInv, RowsExtend, CoverInv, NEW w \in lateSnaps, LateSave(w)
    PROVE  CoverInv'
<1>1. /\ w.Chat \in Chats /\ Fits(w.Chat, w.Snap) /\ w.Snap.Node \in Nodes /\ ~ Memory
      /\ Save(w.Chat, w.Snap) /\ lateSnaps' = lateSnaps \ {w}
      /\ pc' = pc /\ entry' = entry /\ msg' = msg /\ snap' = snap
      /\ \A d \in Chats : ChatSnaps(d)
  BY DEF IInv, TypeOK, CoverInv, LateFits, LateSave
<1>2. /\ \A d \in Chats : ChatSnaps(d)' /\ SnapsGrow(d)
      /\ \A d \in Chats : d # w.Chat => snaps'[d] = snaps[d]
      /\ \A s : /\ \A k \in DOMAIN snaps[w.Chat] : snaps[w.Chat][k].ToSequence < s
                /\ w.Snap.ToSequence < s
                => \A k \in DOMAIN snaps'[w.Chat] : snaps'[w.Chat][k].ToSequence < s
  BY <1>1, SaveKeeps
<1>3. LateFits'
  <2>1. ASSUME NEW v \in lateSnaps PROVE FitsIn(rows'[v.Chat], snaps'[v.Chat], v.Snap)
    BY <1>1, <1>2, FitsStable DEF Fits, IInv, TypeOK, CoverInv, LateFits
  <2> QED BY <1>1, <2>1 DEF CoverInv, LateFits, Fits, Memory
<1>4. ASSUME NEW q \in Procs PROVE Sealer(q)'
  <2>1. ASSUME pc[q] \in Sealing
        PROVE  /\ Chat(q) \in Chats
               /\ EndsBefore(snaps'[Chat(q)], lateSnaps', Chat(q), entry[q].Sequence)
    <3>1. EndsBefore(snaps[Chat(q)], lateSnaps, Chat(q), entry[q].Sequence) /\ Chat(q) \in Chats
      BY <2>1 DEF CoverInv, Sealer, IInv, TypeOK, Sealing
    <3>2. CASE Chat(q) = w.Chat
      <4>1. \A k \in DOMAIN snaps'[Chat(q)] : snaps'[Chat(q)][k].ToSequence < entry[q].Sequence
        BY <1>2, <3>1, <3>2 DEF EndsBefore
      <4> QED BY <1>1, <3>1, <4>1 DEF EndsBefore
    <3>3. CASE Chat(q) # w.Chat
      BY <1>1, <1>2, <3>1, <3>3 DEF EndsBefore
    <3> QED BY <3>2, <3>3
  <2>2. pc[q] \in InWindow => pc[q] \in Sealing
    BY DEF InWindow, Sealing
  <2> QED BY <1>1, <1>2, <2>1, <2>2, KeepSealer DEF CoverInv
<1> QED BY <1>2, <1>3, <1>4 DEF CoverInv

(***************************************************************************)
(* Every step on one node keeps the snapshots covering.                    *)
(***************************************************************************)
LEMMA NextCover ==
    ASSUME OneNode
    PROVE  IInv /\ MutexInv /\ TailInv /\ CoverInv /\ [Next]_vars => CoverInv'
<1> SUFFICES ASSUME IInv, MutexInv, TailInv, CoverInv, [Next]_vars PROVE CoverInv'
  OBVIOUS
<1> USE DEF Sealing
<1>0. RowsExtend
  BY StepExtends
<1>1. ASSUME snaps' = snaps, lateSnaps' = lateSnaps,
             \A q \in Procs : pc'[q] \in Sealing =>
                 /\ pc'[q] = pc[q] /\ entry'[q] = entry[q] /\ msg'[q] = msg[q]
                 /\ snap'[q] = snap[q]
      PROVE  CoverInv'
  <2>1. \A q \in Procs : Sealer(q)'
    BY <1>0, <1>1, StillSealer DEF CoverInv
  <2> QED BY <1>0, <1>1, <2>1, QuietCover DEF CoverInv
<1>2. ASSUME NEW p \in Procs, NEW r \in Requests,
             BadRequest(p, r) \/ Reject(p, r) \/ Accept(p, r)
      PROVE  CoverInv'
  BY <1>1, <1>2 DEF BadRequest, Reject, Accept, IInv, TypeOK
<1>3. ASSUME NEW p \in Procs, Lock(p) \/ Step(p) PROVE CoverInv'
  BY <1>0, <1>3, QuietStep, SaveStep
<1>4. ASSUME NEW w \in limbo, LateAppend(w) PROVE CoverInv'
  BY <1>1, <1>4 DEF LateAppend
<1>5. ASSUME NEW w \in lateSnaps, LateSave(w) PROVE CoverInv'
  BY <1>0, <1>5, LateSaveCover
<1>6. ASSUME NEW n \in Nodes, Crash(n) PROVE CoverInv'
  <2>1. \A q \in Procs : pc'[q] \in Sealing =>
           /\ pc'[q] = pc[q] /\ entry'[q] = entry[q] /\ msg'[q] = msg[q] /\ snap'[q] = snap[q]
    BY <1>6 DEF Crash, Dies
  <2> QED BY <1>1, <1>6, <2>1 DEF Crash, Dies
<1>7. CASE UNCHANGED vars
  BY <1>1, <1>7 DEF vars
<1> QED BY <1>2, <1>3, <1>4, <1>5, <1>6, <1>7 DEF Next

\* Mutual exclusion, the tips and the snapshots' places are invariant together.
LEMMA CoverInvHolds ==
    ASSUME OneNode
    PROVE  Spec => [](IInv /\ MutexInv /\ TailInv /\ CoverInv)
<1>1. Init => MutexInv /\ TailInv
  BY DEF Init, MutexInv, TailInv, ProcTail, After, Built, Holding
<1>2. Init => CoverInv
  <2> SUFFICES ASSUME Init PROVE CoverInv
    OBVIOUS
  <2>1. ASSUME NEW c \in Chats PROVE ChatSnaps(c)
    <3>1. DOMAIN snaps[c] = {} /\ {} = 0 .. 0 - 1
      BY DEF Init, EmptyTable
    <3> QED BY <3>1 DEF ChatSnaps
  <2> QED BY <2>1 DEF Init, CoverInv, LateFits, Sealer, Sealing, InWindow
<1>3. IInv /\ MutexInv /\ TailInv /\ CoverInv /\ [Next]_vars
        => MutexInv' /\ TailInv' /\ CoverInv'
  BY NextMutex, NextTail, NextCover
<1> QED BY <1>1, <1>2, <1>3, IInvHolds, PTL DEF Spec

(***************************************************************************)
(* SnapshotsCover holds on one node, whatever fails: queries, writes that  *)
(* time out and are applied late, events, crashes (log.go snapshot,        *)
(* scylla.go SaveSnapshot).                                                *)
(***************************************************************************)
THEOREM CoverHolds == ASSUME OneNode PROVE Spec => []SnapshotsCover
<1>1. CoverInv => SnapshotsCover
  <2> SUFFICES ASSUME CoverInv, NEW c \in Chats, NEW k \in DOMAIN snaps[c]
               PROVE  Joins(snaps[c], snaps[c][k]) /\ snaps[c][k].SnapshotIndex = k
    BY DEF SnapshotsCover, Joins
  <2> QED BY DEF CoverInv, ChatSnaps, Fits, FitsIn
<1> QED BY <1>1, CoverInvHolds, PTL

-----------------------------------------------------------------------------
(***************************************************************************)
(* The roots of the snapshots.  Sequences are uint64 and ScyllaDB's bigint *)
(* is signed: the window is read right as long as no log is longer than    *)
(* 2^63 entries.                                                           *)
(***************************************************************************)
ShortLogs == Memory \/ \A c \in Chats : \A s \in DOMAIN rows[c] : s < SignBit

RangeOf(log, sn) ==
    [i \in 1 .. sn.ToSequence + 1 - sn.FromSequence |-> log[sn.FromSequence + i - 1]]

Sealed(log, sn) ==
    /\ sn.MerkleRoot = Root(Hashes(RangeOf(log, sn)))
    /\ sn.LastEntryHash = log[sn.ToSequence].EntryHash

RootInv ==
    /\ \A c \in Chats : \A k \in DOMAIN snaps[c] : Sealed(rows[c], snaps[c][k])
    /\ \A w \in lateSnaps : Sealed(rows[w.Chat], w.Snap)
    /\ \A p \in Procs : pc[p] = "saveSnapshot" => Sealed(rows[Chat(p)], snap[p])

(***************************************************************************)
(* The range query returns the entries from `from` to the last, in order   *)
(* (storage.go EntriesSince, scylla.go EntriesSince).                      *)
(***************************************************************************)
LEMMA WindowEntries ==
    ASSUME NEW table, NEW t \in Nat, DOMAIN table = 0 .. t, NEW from \in 0 .. t,
           Memory \/ from < SignBit
    PROVE  EntriesSince(table, from) = [i \in 1 .. t + 1 - from |-> table[from + i - 1]]
<1>1. Cardinality(0 .. t) = t + 1
  <2>1. 0 .. t = 0 .. (t + 1) - 1
    OBVIOUS
  <2> QED BY <2>1, SizeOfInterval
<1>2. CASE Memory
  <2>1. SliceLen(table) = t + 1 /\ ~ (from >= t + 1)
    BY <1>1 DEF SliceLen
  <2> QED BY <1>2, <2>1 DEF EntriesSince, SliceSince
<1>3. CASE ~ Memory
  <2> DEFINE keys == {s \in DOMAIN table : s >= Int64(from)}
  <2>1. keys = from .. t
    BY <1>3 DEF Int64
  <2>2. Cardinality(from .. t) = t + 1 - from
    <3>1. Cardinality(from .. t) = IF from > t THEN 0 ELSE t - from + 1
      BY FS_Interval
    <3> QED BY <3>1
  <2>3. ASSUME NEW s \in from .. t PROVE Cardinality({u \in from .. t : u < s}) = s - from
    <3>1. {u \in from .. t : u < s} = from .. s - 1
      OBVIOUS
    <3>2. Cardinality(from .. s - 1) = IF from > s - 1 THEN 0 ELSE (s - 1) - from + 1
      BY FS_Interval
    <3>3. (IF from > s - 1 THEN 0 ELSE (s - 1) - from + 1) = s - from
      OBVIOUS
    <3>4. Cardinality(from .. s - 1) = s - from
      BY <3>2, <3>3
    <3> QED BY <3>1, <3>4, Zenon
  <2> DEFINE rank(K, s) == Cardinality({u \in K : u < s})
             At(K, j) == CHOOSE s \in K : rank(K, s) = j
             Sorted(K) == [i \in 1 .. Cardinality(K) |-> table[At(K, i - 1)]]
  <2>4. ASSUME NEW i \in 1 .. t + 1 - from PROVE At(from .. t, i - 1) = from + i - 1
    <3>1. \A s \in from .. t : rank(from .. t, s) = s - from
      BY <2>3
    <3> HIDE DEF rank
    <3>2. from + i - 1 \in from .. t /\ rank(from .. t, from + i - 1) = i - 1
      BY <3>1
    <3>3. At(from .. t, i - 1) \in from .. t /\ rank(from .. t, At(from .. t, i - 1)) = i - 1
      BY <3>2
    <3> QED BY <3>1, <3>3
  <2>5. RowsSince(table, from) = Sorted(keys)
    BY DEF RowsSince
  <2>6. RowsSince(table, from) = [i \in 1 .. t + 1 - from |-> table[from + i - 1]]
    <3>1. Sorted(keys) = Sorted(from .. t)
      <4> HIDE DEF Sorted
      <4> QED BY <2>1
    <3> HIDE DEF At
    <3> QED BY <2>2, <2>4, <2>5, <3>1
  <2> QED BY <1>3, <2>6 DEF EntriesSince
<1> QED BY <1>2, <1>3

(***************************************************************************)
(* A root stays the root of its range while the log grows.                 *)
(***************************************************************************)
LEMMA SealedStable ==
    ASSUME IInv, RowsExtend, NEW c \in Chats, NEW sn, InRange(rows[c], sn), Sealed(rows[c], sn)
    PROVE  Sealed(rows'[c], sn)
<1>1. PICK n \in Nat : DOMAIN rows[c] = 0 .. n - 1
  BY DEF IInv, Chained, ChainOfLength
<1>2. /\ sn.FromSequence \in Nat /\ sn.ToSequence \in Nat /\ sn.ToSequence \in DOMAIN rows[c]
  BY DEF InRange
<1>3. \A s \in DOMAIN rows[c] : rows'[c][s] = rows[c][s]
  BY DEF RowsExtend, IsRestriction
<1>4. \A f, t \in Nat : t \in 0 .. n - 1 => \A i \in 1 .. t + 1 - f : f + i - 1 \in 0 .. n - 1
  OBVIOUS
<1>5. \A i \in 1 .. sn.ToSequence + 1 - sn.FromSequence :
         sn.FromSequence + i - 1 \in DOMAIN rows[c]
  BY <1>1, <1>2, <1>4
<1>6. RangeOf(rows'[c], sn) = RangeOf(rows[c], sn)
  BY <1>3, <1>5 DEF RangeOf
<1> QED BY <1>2, <1>3, <1>6 DEF Sealed

(***************************************************************************)
(* ReadWindow computes the root of the range (log.go snapshot).            *)
(***************************************************************************)
LEMMA WindowSealed ==
    ASSUME IInv, AckInv, TailInv, CoverInv, ShortLogs, NEW p \in Procs, ReadWindow(p)
    PROVE  Sealed(rows[Chat(p)], snap'[p])
<1> USE DEF Built, Holding, Labels
<1> DEFINE log == rows[Chat(p)]
           from == snap[p].FromSequence
           t == entry[p].Sequence
<1>1. /\ pc[p] = "readWindow" /\ Chat(p) \in Chats /\ IsEntry(entry[p])
      /\ DOMAIN log = 0 .. t /\ log[t] = Stored(entry[p])
      /\ Fits(Chat(p), snap[p]) /\ DOMAIN snap[p] = SnapFields
      /\ snap[p].ToSequence = t
      /\ snap[p].LastEntryHash = entry[p].EntryHash
  BY DEF ReadWindow, IInv, TypeOK, TailInv, ProcTail, After, AckInv, ProcAck, CoverInv,
         Sealer, InWindow
<1>2. t \in Nat /\ from \in 0 .. t
  <2>1. t \in Nat /\ from \in Nat /\ from <= t
    BY <1>1 DEF IsEntry, Fits, FitsIn, InRange
  <2> HIDE DEF t, from
  <2> QED BY <2>1
<1>3. Memory \/ from < SignBit
  BY <1>1, <1>2 DEF ShortLogs
<1>4. snap' = [snap EXCEPT ![p].MerkleRoot = Root(Hashes(EntriesSince(log, from)))]
  BY DEF ReadWindow
<1>5. /\ snap'[p].MerkleRoot = Root(Hashes(EntriesSince(log, from)))
      /\ snap'[p].FromSequence = from /\ snap'[p].ToSequence = t
      /\ snap'[p].LastEntryHash = entry[p].EntryHash
  BY <1>1, <1>4 DEF SnapFields, IInv, TypeOK
<1>6. EntriesSince(log, from) = [i \in 1 .. t + 1 - from |-> log[from + i - 1]]
  <2> HIDE DEF log, from, t
  <2> QED BY <1>1, <1>2, <1>3, WindowEntries
<1>7. log[t].EntryHash = entry[p].EntryHash
  BY <1>1, StoredKeeps
<1> QED BY <1>5, <1>6, <1>7 DEF Sealed, RangeOf

(***************************************************************************)
(* A step on one node keeps the roots.                                     *)
(***************************************************************************)
LEMMA NextRoot ==
    ASSUME OneNode
    PROVE  IInv /\ AckInv /\ TailInv /\ CoverInv /\ ShortLogs /\ RootInv /\ [Next]_vars => RootInv'
<1> SUFFICES ASSUME IInv, AckInv, TailInv, CoverInv, ShortLogs, RootInv, [Next]_vars
             PROVE  RootInv'
  OBVIOUS
<1>0. RowsExtend
  BY StepExtends
<1>1. /\ \A c \in Chats : \A k \in DOMAIN snaps[c] : Sealed(rows'[c], snaps[c][k])
      /\ \A w \in lateSnaps : Sealed(rows'[w.Chat], w.Snap)
      /\ \A p \in Procs : pc[p] = "saveSnapshot" => Sealed(rows'[Chat(p)], snap[p])
  <2>1. ASSUME NEW c \in Chats, NEW k \in DOMAIN snaps[c] PROVE Sealed(rows'[c], snaps[c][k])
    BY <1>0, SealedStable DEF RootInv, CoverInv, ChatSnaps, Fits, FitsIn
  <2>2. ASSUME NEW w \in lateSnaps PROVE Sealed(rows'[w.Chat], w.Snap)
    BY <1>0, SealedStable DEF RootInv, CoverInv, LateFits, Fits, FitsIn, IInv, TypeOK
  <2>3. ASSUME NEW p \in Procs, pc[p] = "saveSnapshot" PROVE Sealed(rows'[Chat(p)], snap[p])
    BY <1>0, <2>3, SealedStable
       DEF RootInv, CoverInv, Sealer, InWindow, Fits, FitsIn, IInv, TypeOK
  <2> QED BY <2>1, <2>2, <2>3
<1>2. ASSUME snaps' = snaps, lateSnaps' = lateSnaps,
             \A q \in Procs : pc'[q] = "saveSnapshot" =>
                 /\ pc[q] = "saveSnapshot" /\ msg'[q] = msg[q] /\ snap'[q] = snap[q]
      PROVE  RootInv'
  BY <1>1, <1>2 DEF RootInv, Chat
<1>3. ASSUME NEW p \in Procs, NEW r \in Requests,
             BadRequest(p, r) \/ Reject(p, r) \/ Accept(p, r)
      PROVE  RootInv'
  BY <1>2, <1>3 DEF BadRequest, Reject, Accept, IInv, TypeOK
<1>4. ASSUME NEW p \in Procs, Lock(p) \/ Step(p) PROVE RootInv'
  <2>0. ASSUME NEW q \in Procs, q # p
        PROVE  pc'[q] = pc[q] /\ msg'[q] = msg[q] /\ snap'[q] = snap[q]
    BY <1>4, <2>0, OthersUntouched, OthersSnap
  <2>1. CASE pc'[p] # "saveSnapshot" /\ ~ SaveSnapshot(p) /\ ~ SaveTimesOut(p)
    <3>1. snaps' = snaps /\ lateSnaps' = lateSnaps
      BY <1>4, <2>1 DEF Step, Lock, ReadTip, AppendEntry, PublishEntry, ReadSnapshot, ReadWindow,
           CacheRoot, PublishSnapshot, ReadFails, AppendTimesOut
    <3> QED BY <1>2, <2>0, <2>1, <3>1
  <2>2. CASE ReadWindow(p)
    <3>1. snaps' = snaps /\ lateSnaps' = lateSnaps /\ rows' = rows /\ msg' = msg
      BY <2>2 DEF ReadWindow
    <3>2. Sealed(rows'[Chat(p)], snap'[p])
      BY <2>2, <3>1, WindowSealed
    <3>3. ASSUME NEW q \in Procs, pc'[q] = "saveSnapshot" PROVE Sealed(rows'[Chat(q)], snap'[q])
      BY <1>1, <2>0, <3>2, <3>3
    <3> QED BY <1>1, <3>1, <3>3 DEF RootInv, Chat
  <2>3. CASE SaveSnapshot(p) \/ SaveTimesOut(p)
    <3> DEFINE c == Chat(p)
               sn == Stamped(p)
    <3>1. pc[p] = "saveSnapshot" /\ DOMAIN snap[p] = SnapFields
      BY <2>3 DEF SaveSnapshot, SaveTimesOut, CoverInv, Sealer, InWindow
    <3>2. /\ c \in Chats /\ Fits(c, sn) /\ sn.Node \in Nodes
          /\ Memory => sn.SnapshotIndex = Cardinality(DOMAIN snaps[c])
      BY <3>1, StampedFits
    <3>3. Sealed(rows'[c], sn)
      BY <1>1, <3>1, StampedKeeps DEF Sealed, RangeOf
    <3>4. ASSUME NEW q \in Procs, pc'[q] = "saveSnapshot" PROVE Sealed(rows'[msg'[q].ChatID], snap'[q])
      <4>1. q # p
        BY <2>3, <3>4 DEF SaveSnapshot, SaveTimesOut, Return, IInv, TypeOK
      <4> QED BY <1>1, <2>0, <3>4, <4>1 DEF Chat
    <3> HIDE DEF sn
    <3>5. CASE SaveSnapshot(p)
      <4>1. Save(c, sn) /\ lateSnaps' = lateSnaps
        BY <3>5 DEF SaveSnapshot, sn
      <4>2. /\ \A d \in Chats : d # c => snaps'[d] = snaps[d]
            /\ \A k \in DOMAIN snaps'[c] :
                  \/ k \in DOMAIN snaps[c] /\ snaps'[c][k] = snaps[c][k]
                  \/ k = sn.SnapshotIndex /\ snaps'[c][k] = sn
        BY <3>2, <4>1, SaveEffect DEF CoverInv
      <4>3. ASSUME NEW d \in Chats, NEW k \in DOMAIN snaps'[d] PROVE Sealed(rows'[d], snaps'[d][k])
        <5> HIDE DEF c
        <5> QED BY <1>1, <3>3, <4>2
      <4> QED BY <1>1, <3>4, <4>1, <4>3 DEF RootInv, Chat
    <3>6. CASE SaveTimesOut(p)
      <4>1. snaps' = snaps /\ lateSnaps' = lateSnaps \cup {[Chat |-> c, Snap |-> sn]}
        BY <3>6 DEF SaveTimesOut, sn
      <4>2. ASSUME NEW w \in lateSnaps' PROVE Sealed(rows'[w.Chat], w.Snap)
        <5> HIDE DEF c
        <5> QED BY <1>1, <3>3, <4>1
      <4> QED BY <1>1, <3>4, <4>1, <4>2 DEF RootInv, Chat
    <3> QED BY <2>3, <3>5, <3>6
  <2>4. pc'[p] = "saveSnapshot" => ReadWindow(p) \/ SaveSnapshot(p) \/ SaveTimesOut(p)
    <3>1. ASSUME NEW status, Return(p, status) PROVE pc'[p] # "saveSnapshot"
      BY <3>1 DEF Return, IInv, TypeOK
    <3>2. CASE Lock(p) \/ ReadTip(p) \/ ReadSnapshot(p) \/ CacheRoot(p)
      BY <3>2 DEF Lock, ReadTip, ReadSnapshot, CacheRoot, IInv, TypeOK
    <3>3. CASE AppendEntry(p) \/ PublishEntry(p)
      BY <3>1, <3>3 DEF AppendEntry, PublishEntry, IInv, TypeOK
    <3>4. CASE PublishSnapshot(p) \/ ReadFails(p) \/ AppendTimesOut(p)
      BY <3>1, <3>4 DEF PublishSnapshot, ReadFails, AppendTimesOut
    <3> QED BY <1>4, <3>2, <3>3, <3>4 DEF Step
  <2> QED BY <2>1, <2>2, <2>3, <2>4
<1>5. ASSUME NEW w \in limbo, LateAppend(w) PROVE RootInv'
  BY <1>2, <1>5 DEF LateAppend
<1>6. ASSUME NEW w \in lateSnaps, LateSave(w) PROVE RootInv'
  <2>1. /\ w.Chat \in Chats /\ Fits(w.Chat, w.Snap) /\ w.Snap.Node \in Nodes /\ ~ Memory
        /\ Save(w.Chat, w.Snap) /\ lateSnaps' = lateSnaps \ {w}
        /\ pc' = pc /\ msg' = msg /\ snap' = snap /\ ChatSnaps(w.Chat)
    BY <1>6 DEF IInv, TypeOK, CoverInv, LateFits, LateSave
  <2>2. /\ \A d \in Chats : d # w.Chat => snaps'[d] = snaps[d]
        /\ \A k \in DOMAIN snaps'[w.Chat] :
              \/ k \in DOMAIN snaps[w.Chat] /\ snaps'[w.Chat][k] = snaps[w.Chat][k]
              \/ k = w.Snap.SnapshotIndex /\ snaps'[w.Chat][k] = w.Snap
    BY <2>1, SaveEffect
  <2>3. ASSUME NEW d \in Chats, NEW k \in DOMAIN snaps'[d] PROVE Sealed(rows'[d], snaps'[d][k])
    BY <1>1, <2>2
  <2> QED BY <1>1, <2>1, <2>3 DEF RootInv, Chat
<1>7. ASSUME NEW n \in Nodes, Crash(n) PROVE RootInv'
  <2>1. \A q \in Procs : pc'[q] = "saveSnapshot" =>
           /\ pc[q] = "saveSnapshot" /\ msg'[q] = msg[q] /\ snap'[q] = snap[q]
    BY <1>7 DEF Crash, Dies
  <2> QED BY <1>2, <1>7, <2>1 DEF Crash, Dies
<1>8. CASE UNCHANGED vars
  BY <1>2, <1>8 DEF vars
<1> QED BY <1>3, <1>4, <1>5, <1>6, <1>7, <1>8 DEF Next

\* Roots are those of their windows, at every step.
LEMMA RootInvHolds ==
    ASSUME OneNode
    PROVE  Spec /\ []ShortLogs => [](IInv /\ CoverInv /\ RootInv)
<1>1. Init => AckInv /\ RootInv
  BY DEF Init, AckInv, ProcAck, Unanswered, Built, Holding, Labels, RootInv, EmptyTable
<1>2. IInv /\ AckInv /\ [Next]_vars => AckInv'
  BY StepExtends, NextAck
<1>3. IInv /\ AckInv /\ TailInv /\ CoverInv /\ ShortLogs /\ RootInv /\ [Next]_vars => RootInv'
  BY NextRoot
<1> QED BY <1>1, <1>2, <1>3, CoverInvHolds, PTL DEF Spec

(***************************************************************************)
(* SnapshotRange holds on one node, whatever fails, for as long as no log  *)
(* outgrows a signed 64-bit sequence (log.go snapshot).                    *)
(***************************************************************************)
THEOREM RangeHolds == ASSUME OneNode PROVE Spec /\ []ShortLogs => []SnapshotRange
<1>1. IInv /\ CoverInv /\ RootInv => SnapshotRange
  <2> SUFFICES ASSUME IInv, CoverInv, RootInv, NEW c \in Chats, NEW k \in DOMAIN snaps[c]
               PROVE  LET sn == snaps[c][k]
                      IN  /\ sn.FromSequence <= sn.ToSequence
                          /\ sn.FromSequence .. sn.ToSequence \subseteq DOMAIN rows[c]
                          /\ sn.MerkleRoot = Root(Hashes(Covered(c, sn)))
                          /\ sn.LastEntryHash = rows[c][sn.ToSequence].EntryHash
    BY DEF SnapshotRange
  <2>1. InRange(rows[c], snaps[c][k]) /\ Sealed(rows[c], snaps[c][k])
    BY DEF CoverInv, ChatSnaps, Fits, FitsIn, RootInv
  <2>2. PICK n \in Nat : DOMAIN rows[c] = 0 .. n - 1
    BY DEF IInv, Chained, ChainOfLength
  <2>3. \A f, t \in Nat : t \in 0 .. n - 1 => f .. t \subseteq 0 .. n - 1
    OBVIOUS
  <2>4. snaps[c][k].FromSequence .. snaps[c][k].ToSequence \subseteq DOMAIN rows[c]
    BY <2>1, <2>2, <2>3 DEF InRange
  <2>5. Covered(c, snaps[c][k]) = RangeOf(rows[c], snaps[c][k])
    BY DEF Covered, RangeOf
  <2> QED BY <2>1, <2>4, <2>5 DEF InRange, Sealed
<1> QED BY <1>1, RootInvHolds, PTL

-----------------------------------------------------------------------------
(***************************************************************************)
(* The tiling.  Facts about multiples of the interval come first: the      *)
(* provers need them one at a time.                                        *)
(***************************************************************************)
LEMMA MultiplesApart ==
    ASSUME NEW i \in Nat, NEW m \in Nat, NEW b \in Nat \ {0}, i < m
    PROVE  i * b + b <= m * b
<1>1. m - i - 1 \in Nat /\ m = i + 1 + (m - i - 1)
  OBVIOUS
<1>2. PICK d \in Nat : m = i + 1 + d
  BY <1>1
<1>3. m * b = (i + 1 + d) * b
  BY <1>2
<1>4. (i + 1 + d) * b = i * b + b + d * b /\ d * b \in Nat /\ i * b \in Nat
  OBVIOUS
<1> QED BY <1>3, <1>4

\* The quotient of n by b, from its two bounds.
LEMMA QuotientOf ==
    ASSUME NEW n \in Nat, NEW m \in Nat, NEW b \in Nat \ {0}, m * b <= n, n < m * b + b,
           NEW q, q = n \div b
    PROVE  q = m
<1>1. q \in Int /\ q >= 0
  OBVIOUS
<1>2. b * q <= n
  BY <1>1
<1>3. n - b * q < b
  BY <1>1
<1>4. b * q = q * b /\ q * b \in Nat /\ m * b \in Nat
  BY <1>1
<1>5. q < m => q * b + b <= m * b
  BY <1>1, MultiplesApart
<1>6. m < q => m * b + b <= q * b
  BY <1>1, MultiplesApart
<1> QED BY <1>1, <1>2, <1>3, <1>4, <1>5, <1>6

\* Of the numbers above a multiple and up to the next, the next alone is a multiple.
LEMMA NextMultiple ==
    ASSUME NEW n \in Nat, NEW m \in Nat, NEW b \in Nat \ {0}, NEW r, r = n % b,
           m * b < n, n <= m * b + b
    PROVE  r = 0 <=> n = m * b + b
<1>1. PICK q : q = n \div b
  OBVIOUS
<1>2. q \in Int /\ q >= 0 /\ r \in Int /\ 0 <= r /\ r < b
  BY <1>1
<1>3. n = b * q + r
  BY <1>1, <1>2, Z3T(20)
<1>4. b * q = q * b /\ q * b \in Nat /\ m * b \in Nat
  BY <1>2
<1>5. q < m => q * b + b <= m * b
  BY <1>2, MultiplesApart
<1>6. q = m => q * b = m * b
  OBVIOUS
<1>7. (m + 1) * b = m * b + b
  OBVIOUS
<1>8. q = m + 1 => q * b = m * b + b
  BY <1>7
<1>9. m + 1 < q => (m + 1) * b + b <= q * b
  BY <1>2, MultiplesApart
<1> HIDE <1>1
<1> QED BY <1>2, <1>3, <1>4, <1>5, <1>6, <1>7, <1>8, <1>9

(***************************************************************************)
(* The invariant: m windows of a chat of n entries are sealed, which is    *)
(* all the full ones unless somebody is about to seal the last.            *)
(***************************************************************************)
Reliable == Faults \subseteq {"broker"}

Tiles(log, table, n, m) ==
    /\ DOMAIN log = 0 .. n - 1 /\ DOMAIN table = 0 .. m - 1
    /\ \A k \in 0 .. m - 1 : /\ table[k].FromSequence = k * SnapshotInterval
                             /\ table[k].ToSequence = (k + 1) * SnapshotInterval - 1
    /\ m * SnapshotInterval <= n /\ n <= m * SnapshotInterval + SnapshotInterval

InChat(c, labels) == \E p \in Procs : pc[p] \in labels /\ Chat(p) = c

ChatTiled(c) ==
    \E n, m \in Nat :
        /\ Tiles(rows[c], snaps[c], n, m)
        /\ InChat(c, Sealing) \/ n < m * SnapshotInterval + SnapshotInterval
        /\ InChat(c, {"cacheRoot"}) \/ m = 0 \/ roots[c] = snaps[c][m - 1].MerkleRoot

Tiler(p) ==
    /\ pc[p] \in Sealing \ {"publish"} => Seals(entry[p])
    /\ pc[p] \in InWindow =>
          /\ snap[p].SnapshotIndex = Cardinality(DOMAIN snaps[Chat(p)])
          /\ snap[p].FromSequence = snap[p].SnapshotIndex * SnapshotInterval
    /\ pc[p] = "cacheRoot" =>
          \E m \in Nat : /\ DOMAIN snaps[Chat(p)] = 0 .. m
                         /\ snap[p].MerkleRoot = snaps[Chat(p)][m].MerkleRoot

TileInv ==
    /\ limbo = {} /\ lateSnaps = {}
    /\ \A c \in Chats : ChatTiled(c)
    /\ \A p \in Procs : Tiler(p)

(***************************************************************************)
(* A chat stays tiled in a step that writes nothing there and takes nobody *)
(* out of the stages in between.                                           *)
(***************************************************************************)
LEMMA KeepTiled ==
    ASSUME NEW c \in Chats, ChatTiled(c), rows'[c] = rows[c], snaps'[c] = snaps[c],
           roots'[c] = roots[c], InChat(c, Sealing) => InChat(c, Sealing)',
           InChat(c, {"cacheRoot"}) => InChat(c, {"cacheRoot"})'
    PROVE  ChatTiled(c)'
<1>1. PICK n, m \in Nat :
          /\ Tiles(rows[c], snaps[c], n, m)
          /\ InChat(c, Sealing) \/ n < m * SnapshotInterval + SnapshotInterval
          /\ InChat(c, {"cacheRoot"}) \/ m = 0 \/ roots[c] = snaps[c][m - 1].MerkleRoot
  BY DEF ChatTiled
<1>2. Tiles(rows'[c], snaps'[c], n, m)
  BY <1>1
<1>3. /\ InChat(c, Sealing)' \/ n < m * SnapshotInterval + SnapshotInterval
      /\ InChat(c, {"cacheRoot"})' \/ m = 0 \/ roots'[c] = snaps'[c][m - 1].MerkleRoot
  BY <1>1
<1> HIDE DEF InChat, Tiles
<1> QED BY <1>2, <1>3 DEF ChatTiled

\* A goroutine that does not move keeps what it knows of its window.
LEMMA KeepTiler ==
    ASSUME NEW q \in Procs, Tiler(q),
           pc'[q] \in Sealing \cup {"cacheRoot"} =>
               /\ pc'[q] = pc[q] /\ entry'[q] = entry[q] /\ msg'[q] = msg[q]
               /\ snap'[q] = snap[q] /\ snaps'[Chat(q)] = snaps[Chat(q)]
    PROVE  Tiler(q)'
<1> USE DEF Sealing, InWindow
<1>1. pc'[q] \in Sealing \ {"publish"} => Seals(entry'[q])
  BY DEF Tiler
<1>2. pc'[q] \in InWindow =>
          /\ snap'[q].SnapshotIndex = Cardinality(DOMAIN snaps'[msg'[q].ChatID])
          /\ snap'[q].FromSequence = snap'[q].SnapshotIndex * SnapshotInterval
  BY DEF Tiler, Chat
<1>3. pc'[q] = "cacheRoot" =>
          \E m \in Nat : /\ DOMAIN snaps'[msg'[q].ChatID] = 0 .. m
                         /\ snap'[q].MerkleRoot = snaps'[msg'[q].ChatID][m].MerkleRoot
  BY DEF Tiler, Chat
<1> QED BY <1>1, <1>2, <1>3 DEF Tiler, Seals, Chat

(***************************************************************************)
(* A goroutine writes in its own chat only.                                *)
(***************************************************************************)
LEMMA StepElsewhere ==
    ASSUME IInv, NEW p \in Procs, Lock(p) \/ Step(p), NEW c \in Chats, c # Chat(p)
    PROVE  rows'[c] = rows[c] /\ snaps'[c] = snaps[c] /\ roots'[c] = roots[c]
<1>1. CASE AppendEntry(p)
  <2>1. Chat(p) \in Chats /\ snaps' = snaps /\ roots' = roots
    BY <1>1 DEF AppendEntry, IInv, TypeOK
  <2>2. \/ rows' = rows
        \/ rows' = [rows EXCEPT ![Chat(p)] = Put(@, entry[p].Sequence, Stored(entry[p]))]
    BY <1>1 DEF AppendEntry
  <2> QED BY <2>1, <2>2 DEF IInv, TypeOK
<1>2. CASE SaveSnapshot(p)
  BY <1>2 DEF SaveSnapshot, Save, IInv, TypeOK
<1>3. CASE CacheRoot(p)
  BY <1>3 DEF CacheRoot, IInv, TypeOK
<1>4. CASE ~ AppendEntry(p) /\ ~ SaveSnapshot(p) /\ ~ CacheRoot(p)
  BY <1>4 DEF Step, Lock, ReadTip, PublishEntry, ReadSnapshot, ReadWindow, PublishSnapshot,
              ReadFails, AppendTimesOut, SaveTimesOut
<1> QED BY <1>1, <1>2, <1>3, <1>4

\* Whoever is in a stage that the goroutine p is not in stays there.
LEMMA OthersStay ==
    ASSUME IInv, NEW p \in Procs, Lock(p) \/ Step(p), NEW c, NEW labels,
           pc[p] \notin labels \/ Chat(p) # c, InChat(c, labels)
    PROVE  InChat(c, labels)'
<1>1. PICK q \in Procs : pc[q] \in labels /\ Chat(q) = c
  BY DEF InChat
<1>2. q # p
  BY <1>1
<1>3. pc'[q] = pc[q] /\ msg'[q] = msg[q]
  BY <1>2, OthersUntouched
<1> QED BY <1>1, <1>3 DEF InChat, Chat

(***************************************************************************)
(* The window a goroutine is about to seal is the next one.                *)
(***************************************************************************)
LEMMA WindowIsNext ==
    ASSUME IInv, TailInv, CoverInv, NEW p \in Procs, pc[p] \in Sealing, Seals(entry[p]),
           NEW n \in Nat, NEW m \in Nat, Tiles(rows[Chat(p)], snaps[Chat(p)], n, m)
    PROVE  n = entry[p].Sequence + 1 /\ n = m * SnapshotInterval + SnapshotInterval
<1> USE DEF Sealing, Labels, Holding, Built, After
<1> DEFINE s == entry[p].Sequence
           b == SnapshotInterval
<1>1. s \in Nat /\ Chat(p) \in Chats /\ DOMAIN rows[Chat(p)] = 0 .. s
  BY DEF IInv, TypeOK, IsEntry, TailInv, ProcTail
<1>2. /\ DOMAIN rows[Chat(p)] = 0 .. n - 1 /\ m * b <= n /\ n <= m * b + b
      /\ DOMAIN snaps[Chat(p)] = 0 .. m - 1
      /\ \A k \in 0 .. m - 1 : snaps[Chat(p)][k].ToSequence = (k + 1) * b - 1
  BY DEF Tiles
<1>3. \A k \in DOMAIN snaps[Chat(p)] : snaps[Chat(p)][k].ToSequence < s
  BY DEF CoverInv, Sealer, EndsBefore
<1> HIDE DEF s
<1>4. n = s + 1
  <2>1. 0 .. s = 0 .. n - 1
    BY <1>1, <1>2
  <2>2. s \in 0 .. n - 1 /\ n \notin 0 .. n - 1 /\ (n # 0 => n - 1 \in 0 .. s)
    BY <1>1, <2>1
  <2> QED BY <1>1, <2>2
<1>5. b \in Nat \ {0}
  BY IntervalAssumption
<1> HIDE DEF b
<1>6. m * b < n
  <2>1. CASE m = 0
    BY <1>1, <1>4, <1>5, <2>1
  <2>2. CASE m # 0
    <3>1. m - 1 \in 0 .. m - 1 /\ (m - 1) + 1 = m
      BY <2>2
    <3>2. snaps[Chat(p)][m - 1].ToSequence = m * b - 1
      BY <1>2, <3>1
    <3>3. m * b - 1 < s
      BY <1>2, <1>3, <3>1, <3>2
    <3>4. m * b \in Nat
      BY <1>5
    <3> QED BY <1>1, <1>4, <3>3, <3>4
  <2> QED BY <2>1, <2>2
<1>7. (s + 1) % b = 0
  BY DEF Seals, s, b
<1>8. n % b = 0
  BY <1>4, <1>7
<1>9. n = m * b + b
  BY <1>2, <1>5, <1>6, <1>8, NextMultiple
<1> QED BY <1>4, <1>9 DEF s, b

(***************************************************************************)
(* Appending fills the current window by one entry (log.go Append).        *)
(***************************************************************************)
LEMMA AppendTiles ==
    ASSUME OneNode, IInv, MutexInv, NEW p \in Procs, NEW c \in Chats, c = Chat(p),
           ChatTiled(c), AppendEntry(p)
    PROVE  ChatTiled(c)'
<1> USE DEF Sealing, Labels, Holding, Built
<1> DEFINE b == SnapshotInterval
<1>1. /\ pc[p] = "append" /\ c \in Chats /\ IsEntry(entry[p])
      /\ LinkedAt(rows[c], entry[p].Sequence, entry[p])
      /\ snaps' = snaps /\ roots' = roots
  BY DEF AppendEntry, IInv, TypeOK, PendingLinked
<1>2. ~ InChat(c, Sealing) /\ ~ InChat(c, {"cacheRoot"})
  BY <1>1, Excluded DEF InChat
<1>3. CASE ~ AppendApplies(rows[c], entry[p])
  <2>1. rows' = rows
    BY <1>3 DEF AppendEntry
  <2> QED BY <1>1, <1>2, <2>1, KeepTiled
<1>4. CASE AppendApplies(rows[c], entry[p])
  <2>1. PICK n, m \in Nat :
            /\ Tiles(rows[c], snaps[c], n, m) /\ n < m * b + b
            /\ m = 0 \/ roots[c] = snaps[c][m - 1].MerkleRoot
    BY <1>2 DEF ChatTiled
  <2>2. PICK l \in Nat : ChainOfLength(rows[c], l)
    BY <1>1 DEF IInv, Chained
  <2>3. DOMAIN rows[c] = 0 .. l - 1 /\ DOMAIN rows[c] = 0 .. n - 1
    BY <2>1, <2>2 DEF ChainOfLength, Tiles
  <2>4. l = n
    <3>1. Cardinality(0 .. l - 1) = l /\ Cardinality(0 .. n - 1) = n
      BY SizeOfInterval
    <3> QED BY <2>3, <3>1
  <2>5. rows'[c] = Put(rows[c], entry[p].Sequence, Stored(entry[p]))
        /\ pc'[p] \in Sealing /\ msg' = msg
    BY <1>1, <1>4 DEF AppendEntry, IInv, TypeOK
  <2>6. DOMAIN rows'[c] = 0 .. (n + 1) - 1
    <3>1. DOMAIN rows'[c] = 0 .. n
      BY <1>1, <1>4, <2>2, <2>4, <2>5, InsertAtEnd
    <3>2. n = (n + 1) - 1
      OBVIOUS
    <3> QED BY <3>1, <3>2
  <2>7. b \in Nat \ {0} /\ m * b \in Nat
    BY IntervalAssumption
  <2>8. Tiles(rows'[c], snaps'[c], n + 1, m)
    <3>1. m * b <= n + 1 /\ n + 1 <= m * b + b
      <4>1. m * b <= n /\ n < m * b + b
        BY <2>1 DEF Tiles
      <4> HIDE DEF b
      <4> QED BY <2>7, <4>1
    <3> QED BY <1>1, <2>1, <2>6, <3>1 DEF Tiles
  <2>9. InChat(c, Sealing)'
    <3>1. pc'[p] \in Sealing /\ msg'[p].ChatID = c
      BY <2>5 DEF Chat
    <3> QED BY <3>1 DEF InChat, Chat
  <2>10. n + 1 \in Nat /\ (m = 0 \/ roots'[c] = snaps'[c][m - 1].MerkleRoot)
    BY <1>1, <2>1
  <2> HIDE DEF InChat, Tiles
  <2> QED BY <2>8, <2>9, <2>10 DEF ChatTiled
<1> QED BY <1>3, <1>4

(***************************************************************************)
(* Append returns without a snapshot only when the window is not full      *)
(* (log.go Append).                                                        *)
(***************************************************************************)
LEMMA PublishTiles ==
    ASSUME OneNode, IInv, MutexInv, TailInv, CoverInv, NEW p \in Procs,
           NEW c \in Chats, c = Chat(p), ChatTiled(c), PublishEntry(p)
    PROVE  ChatTiled(c)'
<1> USE DEF Sealing, Labels, Holding, Built
<1> DEFINE b == SnapshotInterval
<1>1. /\ pc[p] = "publish" /\ c \in Chats /\ rows' = rows /\ snaps' = snaps /\ roots' = roots
      /\ IsEntry(entry[p]) /\ DOMAIN rows[c] = 0 .. entry[p].Sequence
  BY DEF PublishEntry, IInv, TypeOK, TailInv, ProcTail, After
<1>2. InChat(c, {"cacheRoot"}) => InChat(c, {"cacheRoot"})'
  BY <1>1, OthersStay DEF Step
<1>3. CASE Seals(entry[p])
  <2>1. pc'[p] \in Sealing /\ msg'[p].ChatID = c
    BY <1>3 DEF PublishEntry, Chat, IInv, TypeOK
  <2>2. InChat(c, Sealing)'
    <3> QED BY <2>1 DEF InChat, Chat
  <2> QED BY <1>1, <1>2, <2>2, KeepTiled
<1>4. CASE ~ Seals(entry[p])
  <2>1. PICK n, m \in Nat :
            /\ Tiles(rows[c], snaps[c], n, m)
            /\ InChat(c, {"cacheRoot"}) \/ m = 0 \/ roots[c] = snaps[c][m - 1].MerkleRoot
    BY DEF ChatTiled
  <2>2. DOMAIN rows[c] = 0 .. n - 1 /\ m * b <= n /\ n <= m * b + b
    BY <2>1 DEF Tiles
  <2>3. b \in Nat \ {0} /\ m * b \in Nat
    BY IntervalAssumption
  <2>4. n = entry[p].Sequence + 1
    <3>1. entry[p].Sequence \in Nat /\ 0 .. entry[p].Sequence = 0 .. n - 1
      BY <1>1, <2>2 DEF IsEntry
    <3>2. \A s \in Nat : 0 .. s = 0 .. n - 1 => n = s + 1
      <4> TAKE s \in Nat
      <4> HAVE 0 .. s = 0 .. n - 1
      <4>1. s \in 0 .. n - 1 /\ n \notin 0 .. n - 1 /\ (n # 0 => n - 1 \in 0 .. s)
        OBVIOUS
      <4> QED BY <4>1
    <3> QED BY <3>1, <3>2
  <2>5. (entry[p].Sequence + 1) % b # 0
    BY <1>4 DEF Seals
  <2>6. n % b # 0
    BY <2>4, <2>5
  <2> HIDE DEF b
  <2>7. n # m * b + b
    <3>1. CASE m * b < n
      BY <2>2, <2>3, <2>6, <3>1, NextMultiple
    <3>2. CASE n = m * b
      BY <2>3, <3>2
    <3> QED BY <2>2, <2>3, <3>1, <3>2
  <2>8. n < m * b + b
    BY <2>2, <2>3, <2>7
  <2>9. Tiles(rows'[c], snaps'[c], n, m)
        /\ (InChat(c, {"cacheRoot"})' \/ m = 0 \/ roots'[c] = snaps'[c][m - 1].MerkleRoot)
    BY <1>1, <1>2, <2>1
  <2> HIDE DEF InChat, Tiles
  <2> QED BY <2>8, <2>9 DEF ChatTiled, b
<1> QED BY <1>3, <1>4

(***************************************************************************)
(* Saving the snapshot seals the window that is full (log.go snapshot).    *)
(***************************************************************************)
LEMMA SaveTiles ==
    ASSUME OneNode, IInv, MutexInv, TailInv, CoverInv, NEW p \in Procs,
           NEW c \in Chats, c = Chat(p), ChatTiled(c), Tiler(p), SaveSnapshot(p)
    PROVE  ChatTiled(c)' /\ Tiler(p)'
<1> USE DEF Sealing, InWindow, Labels, Holding, Built
<1> DEFINE b == SnapshotInterval
           sn == Stamped(p)
<1>1. /\ pc[p] = "saveSnapshot" /\ c \in Chats /\ DOMAIN snap[p] = SnapFields
      /\ pc'[p] = "cacheRoot" /\ msg' = msg /\ snap' = snap /\ rows' = rows
      /\ Seals(entry[p])
  BY DEF SaveSnapshot, IInv, TypeOK, CoverInv, Sealer, Tiler
<1>2. PICK n, m \in Nat : Tiles(rows[c], snaps[c], n, m)
  BY DEF ChatTiled
<1>3. n = entry[p].Sequence + 1 /\ n = m * b + b
  BY <1>1, <1>2, WindowIsNext
<1>4. DOMAIN snaps[c] = 0 .. m - 1 /\ Cardinality(DOMAIN snaps[c]) = m
  BY <1>2, SizeOfInterval DEF Tiles
<1>5. /\ sn.SnapshotIndex = m /\ sn.FromSequence = m * b
      /\ sn.ToSequence = entry[p].Sequence /\ sn.MerkleRoot = snap[p].MerkleRoot
  BY <1>1, <1>4, StampedKeeps DEF Tiler, CoverInv, Sealer
<1>6. snaps'[c] = Put(snaps[c], m, sn)
  <2>1. PICK table \in SavedSnapshot(snaps[c], sn) : snaps' = [snaps EXCEPT ![c] = table]
    BY DEF SaveSnapshot, Save
  <2>2. m \notin DOMAIN snaps[c]
    BY <1>4
  <2> HIDE DEF sn
  <2>3. table = Put(snaps[c], m, sn)
    BY <1>4, <1>5, <2>1, <2>2 DEF SavedSnapshot, SliceSave, SliceLen, RowSaves
  <2> QED BY <1>1, <2>1, <2>3 DEF IInv, TypeOK
<1> HIDE DEF sn
<1>7. /\ DOMAIN snaps'[c] = 0 .. m /\ snaps'[c][m] = sn
      /\ \A k \in 0 .. m - 1 : snaps'[c][k] = snaps[c][k]
  <2>1. 0 .. m - 1 \cup {m} = 0 .. m /\ \A k \in 0 .. m - 1 : k # m
    OBVIOUS
  <2> QED BY <1>4, <1>6, <2>1 DEF Put
<1>8. Tiler(p)'
  <2>1. \E l \in Nat : /\ DOMAIN snaps'[msg'[p].ChatID] = 0 .. l
                       /\ snap'[p].MerkleRoot = snaps'[msg'[p].ChatID][l].MerkleRoot
    BY <1>1, <1>5, <1>7 DEF Chat
  <2> QED BY <1>1, <2>1 DEF Tiler, Chat
<1>9. Tiles(rows'[c], snaps'[c], n, m + 1)
  <2>1. b \in Nat \ {0} /\ m * b \in Nat /\ (m + 1) * b = m * b + b
    BY IntervalAssumption
  <2>2. DOMAIN rows[c] = 0 .. n - 1
    BY <1>2 DEF Tiles
  <2>3. DOMAIN snaps'[c] = 0 .. (m + 1) - 1
    <3>1. m = (m + 1) - 1
      OBVIOUS
    <3> QED BY <1>7, <3>1
  <2>4. ASSUME NEW k \in 0 .. (m + 1) - 1
        PROVE  snaps'[c][k].FromSequence = k * b /\ snaps'[c][k].ToSequence = (k + 1) * b - 1
    <3>1. CASE k = m
      <4>1. entry[p].Sequence = (m + 1) * b - 1
        <5>1. entry[p].Sequence \in Nat
          BY <1>1 DEF IInv, TypeOK, IsEntry
        <5> HIDE DEF b
        <5> QED BY <1>3, <2>1, <5>1
      <4> QED BY <1>5, <1>7, <3>1, <4>1
    <3>2. CASE k # m
      <4>1. k \in 0 .. m - 1
        BY <3>2
      <4> QED BY <1>2, <1>7, <4>1 DEF Tiles
    <3> QED BY <3>1, <3>2
  <2>5. (m + 1) * b <= n /\ n <= (m + 1) * b + b
    <3> HIDE DEF b
    <3> QED BY <1>3, <2>1
  <2> QED BY <1>1, <2>2, <2>3, <2>4, <2>5 DEF Tiles
<1>10. n < (m + 1) * b + b
  <2>1. b \in Nat \ {0} /\ m * b \in Nat /\ (m + 1) * b = m * b + b
    BY IntervalAssumption
  <2> HIDE DEF b
  <2> QED BY <1>3, <2>1
<1>11. InChat(c, {"cacheRoot"})' /\ m + 1 \in Nat
  <2>1. pc'[p] = "cacheRoot" /\ msg'[p].ChatID = c
    BY <1>1 DEF Chat
  <2> QED BY <2>1 DEF InChat, Chat
<1>12. ChatTiled(c)'
  <2> HIDE DEF InChat, Tiles
  <2> QED BY <1>9, <1>10, <1>11 DEF ChatTiled
<1> QED BY <1>8, <1>12

(***************************************************************************)
(* What a step does to its own chat when nothing fails but the broker.     *)
(***************************************************************************)
LEMMA StepTiles ==
    ASSUME OneNode, Reliable, IInv, MutexInv, TailInv, CoverInv, NEW p \in Procs,
           NEW c \in Chats, c = Chat(p), ChatTiled(c), Tiler(p), Lock(p) \/ Step(p)
    PROVE  ChatTiled(c)'
<1> USE DEF Sealing, InWindow, Labels, Holding, Built
<1>1. CASE AppendEntry(p) \/ PublishEntry(p) \/ SaveSnapshot(p)
  BY <1>1, AppendTiles, PublishTiles, SaveTiles
<1>2. CASE Lock(p) \/ ReadTip(p) \/ PublishSnapshot(p)
  <2>1. /\ pc[p] \notin Sealing /\ pc[p] \notin {"cacheRoot"}
        /\ rows' = rows /\ snaps' = snaps /\ roots' = roots
    BY <1>2 DEF Lock, ReadTip, PublishSnapshot
  <2>2. /\ InChat(c, Sealing) => InChat(c, Sealing)'
        /\ InChat(c, {"cacheRoot"}) => InChat(c, {"cacheRoot"})'
    BY <2>1, OthersStay
  <2> QED BY <2>1, <2>2, KeepTiled
<1>3. CASE ReadSnapshot(p) \/ ReadWindow(p)
  <2>1. /\ pc[p] \notin {"cacheRoot"} /\ pc'[p] \in Sealing /\ msg'[p].ChatID = c
        /\ rows' = rows /\ snaps' = snaps /\ roots' = roots
    BY <1>3 DEF ReadSnapshot, ReadWindow, Chat, IInv, TypeOK
  <2>2. InChat(c, Sealing)'
    BY <2>1 DEF InChat, Chat
  <2>3. InChat(c, {"cacheRoot"}) => InChat(c, {"cacheRoot"})'
    BY <2>1, OthersStay
  <2> QED BY <2>1, <2>2, <2>3, KeepTiled
<1>4. CASE CacheRoot(p)
  <2>1. /\ pc[p] = "cacheRoot" /\ rows' = rows /\ snaps' = snaps
        /\ roots'[c] = snap[p].MerkleRoot
    BY <1>4 DEF CacheRoot, Reliable, IInv, TypeOK
  <2>2. PICK n, m \in Nat :
            /\ Tiles(rows[c], snaps[c], n, m)
            /\ InChat(c, Sealing) \/ n < m * SnapshotInterval + SnapshotInterval
    BY DEF ChatTiled
  <2>3. InChat(c, Sealing) => InChat(c, Sealing)'
    BY <2>1, OthersStay
  <2>4. PICK l \in Nat : DOMAIN snaps[c] = 0 .. l /\ snap[p].MerkleRoot = snaps[c][l].MerkleRoot
    BY <2>1 DEF Tiler
  <2>5. l = m - 1
    <3>1. 0 .. l = 0 .. m - 1
      BY <2>2, <2>4 DEF Tiles
    <3>2. l \in 0 .. m - 1 /\ (m # 0 => m - 1 \in 0 .. l)
      BY <3>1
    <3> QED BY <3>2
  <2>6. /\ Tiles(rows'[c], snaps'[c], n, m)
        /\ InChat(c, Sealing)' \/ n < m * SnapshotInterval + SnapshotInterval
        /\ roots'[c] = snaps'[c][m - 1].MerkleRoot
    BY <2>1, <2>2, <2>3, <2>4, <2>5
  <2> HIDE DEF Tiles, InChat
  <2> QED BY <2>6 DEF ChatTiled
<1>5. ~ ReadFails(p) /\ ~ AppendTimesOut(p) /\ ~ SaveTimesOut(p)
  BY DEF Reliable, ReadFails, AppendTimesOut, SaveTimesOut
<1> QED BY <1>1, <1>2, <1>3, <1>4, <1>5 DEF Step

(***************************************************************************)
(* The window that is opened is the next tile (log.go snapshot).           *)
(***************************************************************************)
LEMMA OpenTile ==
    ASSUME OneNode, IInv, TailInv, CoverInv, NEW p \in Procs, ChatTiled(Chat(p)), Tiler(p),
           ReadSnapshot(p)
    PROVE  Tiler(p)'
<1> USE DEF Sealing, InWindow, Labels, Holding, Built, After
<1> DEFINE table == snaps[Chat(p)]
           b == SnapshotInterval
           sn == NextSnapshot(table, entry[p])
<1>1. /\ pc[p] = "readSnapshot" /\ pc'[p] = "readWindow" /\ entry' = entry /\ msg' = msg
      /\ snap'[p] = sn /\ snaps' = snaps /\ Chat(p) \in Chats /\ Seals(entry[p])
  BY DEF ReadSnapshot, IInv, TypeOK, Tiler
<1>2. PICK n, m \in Nat : Tiles(rows[Chat(p)], table, n, m)
  BY DEF ChatTiled
<1>3. /\ DOMAIN table = 0 .. m - 1
      /\ \A k \in 0 .. m - 1 : table[k].ToSequence = (k + 1) * b - 1
  BY <1>2 DEF Tiles
<1>4. sn.SnapshotIndex = Cardinality(DOMAIN table)
  <2>1. /\ IsEntry(entry[p]) /\ entry[p].Sequence \in DOMAIN rows[Chat(p)]
        /\ \A k \in DOMAIN table : table[k].ToSequence < entry[p].Sequence
    <3>1. IsEntry(entry[p]) /\ DOMAIN rows[Chat(p)] = 0 .. entry[p].Sequence
      BY <1>1 DEF IInv, TypeOK, TailInv, ProcTail
    <3>2. EndsBefore(table, lateSnaps, Chat(p), entry[p].Sequence)
      BY <1>1 DEF CoverInv, Sealer
    <3> QED BY <3>1, <3>2 DEF IsEntry, EndsBefore
  <2> QED BY <1>1, <2>1, OpenWindow DEF CoverInv
<1>5. Cardinality(DOMAIN table) = m /\ m * b \in Nat
  BY <1>3, SizeOfInterval, IntervalAssumption
<1>6. sn.FromSequence = m * b
  <2>1. CASE m = 0
    <3>1. IsEmpty(table) /\ 0 * b = 0
      BY <1>3, <2>1, IntervalAssumption DEF IsEmpty
    <3> QED BY <2>1, <3>1 DEF NextSnapshot
  <2>2. CASE m # 0
    <3>1. ~ IsEmpty(table) /\ m - 1 \in 0 .. m - 1 /\ (m - 1) + 1 = m
      BY <1>3, <2>2 DEF IsEmpty
    <3>2. Latest(table) = table[m - 1]
      BY <1>3, <1>5, <2>2, MaxOfInterval DEF Latest, SliceLast, SliceLen, RowLast
    <3>3. Latest(table).ToSequence = m * b - 1
      BY <1>3, <3>1, <3>2
    <3>4. sn.FromSequence = Latest(table).ToSequence + 1
      BY <3>1 DEF NextSnapshot
    <3> HIDE DEF b
    <3> QED BY <1>5, <3>3, <3>4
  <2> QED BY <2>1, <2>2
<1>7. /\ snap'[p].SnapshotIndex = Cardinality(DOMAIN snaps'[msg'[p].ChatID])
      /\ snap'[p].FromSequence = snap'[p].SnapshotIndex * b
  BY <1>1, <1>4, <1>5, <1>6 DEF Chat
<1>8. Seals(entry'[p])
  BY <1>1
<1> QED BY <1>1, <1>7, <1>8 DEF Tiler, Seals, Chat

(***************************************************************************)
(* Every step on one node with a reliable store and cache keeps the tiling.*)
(***************************************************************************)
LEMMA NextTile ==
    ASSUME OneNode, Reliable
    PROVE  IInv /\ MutexInv /\ TailInv /\ CoverInv /\ TileInv /\ [Next]_vars => TileInv'
<1> SUFFICES ASSUME IInv, MutexInv, TailInv, CoverInv, TileInv, [Next]_vars PROVE TileInv'
  OBVIOUS
<1> USE DEF Sealing, InWindow, Labels, Holding, Built
<1>1. ASSUME rows' = rows, snaps' = snaps, roots' = roots, limbo' = limbo, lateSnaps' = lateSnaps,
             \A q \in Procs : pc[q] # "idle" \/ pc'[q] \in Sealing \cup {"cacheRoot"} =>
                 /\ pc'[q] = pc[q] /\ entry'[q] = entry[q] /\ msg'[q] = msg[q]
                 /\ snap'[q] = snap[q]
      PROVE  TileInv'
  <2>1. ASSUME NEW c \in Chats, NEW labels, "idle" \notin labels, InChat(c, labels)
        PROVE  InChat(c, labels)'
    <3>1. PICK q \in Procs : pc[q] \in labels /\ Chat(q) = c
      BY <2>1 DEF InChat
    <3>2. pc'[q] = pc[q] /\ msg'[q] = msg[q]
      BY <1>1, <2>1, <3>1
    <3> QED BY <3>1, <3>2 DEF InChat, Chat
  <2>2. \A c \in Chats : ChatTiled(c)'
    BY <1>1, <2>1, KeepTiled DEF TileInv
  <2>3. \A q \in Procs : Tiler(q)'
    BY <1>1, KeepTiler DEF TileInv
  <2> QED BY <1>1, <2>2, <2>3 DEF TileInv
<1>2. ASSUME NEW p \in Procs, NEW r \in Requests,
             BadRequest(p, r) \/ Reject(p, r) \/ Accept(p, r)
      PROVE  TileInv'
  BY <1>1, <1>2 DEF BadRequest, Reject, Accept, IInv, TypeOK
<1>3. ASSUME NEW p \in Procs, Lock(p) \/ Step(p) PROVE TileInv'
  <2>1. pc[p] # "idle" /\ Chat(p) \in Chats
    BY <1>3 DEF Step, Lock, ReadTip, AppendEntry, PublishEntry, ReadSnapshot, ReadWindow,
           SaveSnapshot, CacheRoot, PublishSnapshot, ReadFails, AppendTimesOut, SaveTimesOut,
           IInv, TypeOK
  <2>2. ~ ReadFails(p) /\ ~ AppendTimesOut(p) /\ ~ SaveTimesOut(p)
    BY DEF Reliable, ReadFails, AppendTimesOut, SaveTimesOut
  <2>3. limbo' = limbo /\ lateSnaps' = lateSnaps
    BY <1>3, <2>2 DEF Step, Lock, ReadTip, AppendEntry, PublishEntry, ReadSnapshot, ReadWindow,
           SaveSnapshot, CacheRoot, PublishSnapshot
  <2>4. ASSUME NEW c \in Chats PROVE ChatTiled(c)'
    <3>1. CASE c = Chat(p)
      BY <1>3, <3>1, StepTiles DEF TileInv
    <3>2. CASE c # Chat(p)
      BY <1>3, <3>2, StepElsewhere, OthersStay, KeepTiled DEF TileInv
    <3> QED BY <3>1, <3>2
  <2>5. ASSUME NEW q \in Procs, q # p PROVE Tiler(q)'
    <3>1. pc'[q] = pc[q] /\ entry'[q] = entry[q] /\ msg'[q] = msg[q] /\ snap'[q] = snap[q]
      BY <1>3, <2>5, OthersUntouched, OthersSnap
    <3>2. ASSUME pc[q] \in Sealing \cup {"cacheRoot"} PROVE snaps'[Chat(q)] = snaps[Chat(q)]
      <4>1. Chat(q) \in Chats
        BY <3>2 DEF IInv, TypeOK
      <4>2. CASE Chat(q) # Chat(p)
        BY <1>3, <4>1, <4>2, StepElsewhere
      <4>3. CASE Chat(q) = Chat(p)
        <5>1. pc[p] \notin Holding
          BY <2>5, <3>2, <4>3, Excluded
        <5>2. Lock(p)
          BY <1>3, <2>2, <5>1 DEF Step, ReadTip, AppendEntry, PublishEntry, ReadSnapshot,
             ReadWindow, SaveSnapshot, CacheRoot, PublishSnapshot
        <5> QED BY <5>2 DEF Lock
      <4> QED BY <4>2, <4>3
    <3> QED BY <3>1, <3>2, KeepTiler DEF TileInv
  <2>6. Tiler(p)'
    <3>0. Tiler(p) /\ ChatTiled(Chat(p))
      BY <2>1 DEF TileInv
    <3>1. ASSUME NEW status, Return(p, status) PROVE Tiler(p)'
      <4>1. pc'[p] = "idle"
        BY <3>1 DEF Return, IInv, TypeOK
      <4> QED BY <4>1 DEF Tiler
    <3>2. CASE Lock(p) \/ ReadTip(p) \/ CacheRoot(p)
      <4>1. pc'[p] \notin Sealing \cup {"cacheRoot"}
        BY <3>2 DEF Lock, ReadTip, CacheRoot, IInv, TypeOK
      <4> QED BY <4>1 DEF Tiler
    <3>3. CASE AppendEntry(p)
      <4>1. CASE \E status : Return(p, status)
        BY <3>1, <4>1
      <4>2. CASE pc'[p] = "publish"
        BY <4>2 DEF Tiler
      <4> QED BY <3>3, <4>1, <4>2 DEF AppendEntry, IInv, TypeOK
    <3>4. CASE PublishEntry(p)
      <4>1. CASE \E status : Return(p, status)
        BY <3>1, <4>1
      <4>2. CASE pc'[p] = "readSnapshot" /\ Seals(entry[p]) /\ entry' = entry
        BY <4>2 DEF Tiler, Seals
      <4> QED BY <3>4, <4>1, <4>2 DEF PublishEntry, IInv, TypeOK
    <3>5. CASE ReadSnapshot(p)
      BY <3>0, <3>5, OpenTile
    <3>6. CASE ReadWindow(p)
      <4>1. /\ pc[p] = "readWindow" /\ pc'[p] = "saveSnapshot" /\ entry' = entry /\ msg' = msg
            /\ snaps' = snaps /\ DOMAIN snap[p] = SnapFields
            /\ snap' = [snap EXCEPT ![p].MerkleRoot =
                          Root(Hashes(EntriesSince(rows[Chat(p)], snap[p].FromSequence)))]
        BY <3>6 DEF ReadWindow, IInv, TypeOK, CoverInv, Sealer
      <4>2. /\ snap'[p].SnapshotIndex = snap[p].SnapshotIndex
            /\ snap'[p].FromSequence = snap[p].FromSequence
        BY <4>1 DEF SnapFields, IInv, TypeOK
      <4> QED BY <3>0, <4>1, <4>2 DEF Tiler, Seals, Chat
    <3>7. CASE SaveSnapshot(p)
      BY <2>1, <3>0, <3>7, SaveTiles
    <3>8. CASE PublishSnapshot(p)
      BY <3>1, <3>8 DEF PublishSnapshot
    <3> QED BY <1>3, <2>2, <3>2, <3>3, <3>4, <3>5, <3>6, <3>7, <3>8 DEF Step
  <2> QED BY <2>3, <2>4, <2>5, <2>6 DEF TileInv
<1>4. limbo = {} /\ lateSnaps = {} /\ \A n \in Nodes : ~ Crash(n)
  BY DEF TileInv, Reliable, Crash
<1>5. CASE UNCHANGED vars
  BY <1>1, <1>5 DEF vars
<1> QED BY <1>2, <1>3, <1>4, <1>5 DEF Next

\* The windows are full and sealed in order, at every step.
LEMMA TileInvHolds ==
    ASSUME OneNode, Reliable
    PROVE  Spec => [](IInv /\ MutexInv /\ CoverInv /\ TileInv)
<1>1. Init => TileInv
  <2> SUFFICES ASSUME Init PROVE TileInv
    OBVIOUS
  <2>1. ASSUME NEW c \in Chats PROVE ChatTiled(c)
    <3>1. /\ DOMAIN rows[c] = {} /\ DOMAIN snaps[c] = {} /\ 0 .. 0 - 1 = {}
          /\ 0 * SnapshotInterval = 0 /\ 0 < 0 + SnapshotInterval /\ 0 <= 0 + SnapshotInterval
      BY IntervalAssumption DEF Init, EmptyTable
    <3>2. Tiles(rows[c], snaps[c], 0, 0) /\ 0 < 0 * SnapshotInterval + SnapshotInterval
      BY <3>1 DEF Tiles
    <3> HIDE DEF Tiles
    <3> QED BY <3>2 DEF ChatTiled
  <2> QED BY <2>1 DEF Init, TileInv, Tiler, Sealing, InWindow
<1>2. IInv /\ MutexInv /\ TailInv /\ CoverInv /\ TileInv /\ [Next]_vars => TileInv'
  BY NextTile
<1> QED BY <1>1, <1>2, CoverInvHolds, PTL DEF Spec

(***************************************************************************)
(* SnapshotsTile holds on one node whose store and cache do not fail, with *)
(* either adapter and whatever the broker loses (log.go snapshot).         *)
(***************************************************************************)
THEOREM TileHolds == ASSUME OneNode, Reliable PROVE Spec => []SnapshotsTile
<1>1. IInv /\ MutexInv /\ CoverInv /\ TileInv => SnapshotsTile
  <2> SUFFICES ASSUME IInv, MutexInv, CoverInv, TileInv, NEW c \in Chats
               PROVE  /\ \A k \in DOMAIN snaps[c] :
                            /\ snaps[c][k].SnapshotIndex = k
                            /\ snaps[c][k].FromSequence = k * SnapshotInterval
                            /\ snaps[c][k].ToSequence = (k + 1) * SnapshotInterval - 1
                      /\ (\A n \in Nodes : lock[n][c] = None) =>
                            /\ DOMAIN snaps[c] =
                                  0 .. (Cardinality(DOMAIN rows[c]) \div SnapshotInterval) - 1
                            /\ ~ IsEmpty(snaps[c]) => roots[c] = Latest(snaps[c]).MerkleRoot
    BY DEF SnapshotsTile
  <2>1. PICK n, m \in Nat :
            /\ Tiles(rows[c], snaps[c], n, m)
            /\ InChat(c, Sealing) \/ n < m * SnapshotInterval + SnapshotInterval
            /\ InChat(c, {"cacheRoot"}) \/ m = 0 \/ roots[c] = snaps[c][m - 1].MerkleRoot
    BY DEF TileInv, ChatTiled
  <2>2. \A k \in DOMAIN snaps[c] : snaps[c][k].SnapshotIndex = k
    BY DEF CoverInv, ChatSnaps
  <2>3. /\ DOMAIN rows[c] = 0 .. n - 1 /\ DOMAIN snaps[c] = 0 .. m - 1
        /\ m * SnapshotInterval <= n
    BY <2>1 DEF Tiles
  <2>4. ASSUME \A x \in Nodes : lock[x][c] = None
        PROVE  /\ DOMAIN snaps[c] = 0 .. (Cardinality(DOMAIN rows[c]) \div SnapshotInterval) - 1
               /\ ~ IsEmpty(snaps[c]) => roots[c] = Latest(snaps[c]).MerkleRoot
    <3>1. ~ InChat(c, Sealing) /\ ~ InChat(c, {"cacheRoot"})
      BY <2>4, NodeAssumption, NoneAssumption
         DEF InChat, MutexInv, Sealing, Holding, Labels
    <3>2. n \div SnapshotInterval = m
      BY <2>1, <2>3, <3>1, IntervalAssumption, QuotientOf
    <3>3. Cardinality(DOMAIN rows[c]) = n /\ Cardinality(DOMAIN snaps[c]) = m
      BY <2>3, SizeOfInterval
    <3>4. ASSUME ~ IsEmpty(snaps[c]) PROVE roots[c] = Latest(snaps[c]).MerkleRoot
      <4>1. m # 0
        BY <2>3, <3>4 DEF IsEmpty
      <4>2. Latest(snaps[c]) = snaps[c][m - 1]
        BY <2>3, <3>3, <4>1, MaxOfInterval DEF Latest, SliceLast, SliceLen, RowLast
      <4> QED BY <2>1, <3>1, <4>1, <4>2
    <3> QED BY <2>3, <3>2, <3>3, <3>4
  <2> QED BY <2>1, <2>2, <2>3, <2>4 DEF Tiles
<1> QED BY <1>1, TileInvHolds, PTL

-----------------------------------------------------------------------------
(***************************************************************************)
(* The order of the events.  A chat's events tell of all its entries but   *)
(* the one that is about to be published.                                  *)
(***************************************************************************)
InOrder(events) ==
    \A i \in 1 .. Len(events) :
        events[i].Kind = "entry_appended" =>
            events[i].Sequence = Cardinality(EntryEvents(events, i))

Told(events) == Cardinality(EntryEvents(events, Len(events) + 1))

ChatOrder(c) ==
    /\ \E S : published[c] \in Seq(S)
    /\ InOrder(published[c])
    /\ \E n \in Nat :
          /\ DOMAIN rows[c] = 0 .. n - 1
          /\ IF InChat(c, {"publish"}) THEN n = Told(published[c]) + 1 ELSE n = Told(published[c])

OrderInv == limbo = {} /\ \A c \in Chats : ChatOrder(c)

\* No insert is cut short or applied late, and no event is lost.
Delivers == Faults \cap {"write", "crash", "broker"} = {}

(***************************************************************************)
(* Handing one more event to the broker.                                   *)
(***************************************************************************)
LEMMA AppendEvent ==
    ASSUME NEW S, NEW events \in Seq(S), InOrder(events), NEW ev,
           ev.Kind = "entry_appended" => ev.Sequence = Told(events)
    PROVE  /\ InOrder(Append(events, ev)) /\ Told(events) \in Nat
           /\ Told(Append(events, ev)) =
                 IF ev.Kind = "entry_appended" THEN Told(events) + 1 ELSE Told(events)
<1> DEFINE new == Append(events, ev)
           len == Len(events)
           old == EntryEvents(events, len + 1)
<1>1. /\ len \in Nat /\ Len(new) = len + 1 /\ new[len + 1] = ev
      /\ \A j \in 1 .. len : new[j] = events[j]
  <2>1. events \in Seq(S \cup {ev})
    BY SeqMonotonic
  <2> QED BY <2>1, AppendProperties
<1> HIDE DEF new, len
<1>2. \A i \in 1 .. len + 1 : EntryEvents(new, i) = EntryEvents(events, i)
  <2> SUFFICES ASSUME NEW i \in 1 .. len + 1 PROVE EntryEvents(new, i) = EntryEvents(events, i)
    OBVIOUS
  <2>1. \A j \in 1 .. i - 1 : new[j] = events[j]
    BY <1>1
  <2> QED BY <2>1 DEF EntryEvents
<1>3. IsFiniteSet(old) /\ Told(events) = Cardinality(old) /\ Told(events) \in Nat
  <2>1. IsFiniteSet(1 .. len) /\ old \subseteq 1 .. len
    BY <1>1, FS_Interval DEF EntryEvents
  <2>2. IsFiniteSet(old)
    BY <2>1, FS_Subset
  <2> QED BY <2>2, FS_CardinalityType DEF Told, len
<1>4. InOrder(new)
  <2> SUFFICES ASSUME NEW i \in 1 .. len + 1, new[i].Kind = "entry_appended"
               PROVE  new[i].Sequence = Cardinality(EntryEvents(new, i))
    BY <1>1 DEF InOrder
  <2>1. CASE i = len + 1
    BY <1>1, <1>2, <1>3, <2>1
  <2>2. CASE i # len + 1
    <3>1. i \in 1 .. len
      BY <1>1, <2>2
    <3> QED BY <1>1, <1>2, <3>1 DEF InOrder, len
  <2> QED BY <2>1, <2>2
<1>5. Told(new) = Cardinality(EntryEvents(new, len + 2))
  BY <1>1 DEF Told
<1>6. EntryEvents(new, len + 2) = IF ev.Kind = "entry_appended" THEN old \cup {len + 1} ELSE old
  <2>1. (len + 2) - 1 = len + 1 /\ (len + 1) - 1 = len
    BY <1>1
  <2>2. 1 .. len + 1 = 1 .. len \cup {len + 1} /\ len + 1 \notin 1 .. len
    BY <1>1
  <2> QED BY <1>1, <2>1, <2>2 DEF EntryEvents
<1>7. Cardinality(old \cup {len + 1}) = Cardinality(old) + 1
  <2>1. len + 1 \notin old
    BY <1>1 DEF EntryEvents
  <2> HIDE DEF old
  <2> QED BY <1>3, <2>1, FS_AddElement
<1> QED BY <1>3, <1>4, <1>5, <1>6, <1>7 DEF new

(***************************************************************************)
(* A chat keeps its order when its log and its events are left alone and   *)
(* nobody starts or ends publishing.                                       *)
(***************************************************************************)
LEMMA KeepOrder ==
    ASSUME NEW c \in Chats, ChatOrder(c), rows'[c] = rows[c], published'[c] = published[c],
           InChat(c, {"publish"})' <=> InChat(c, {"publish"})
    PROVE  ChatOrder(c)'
<1>1. PICK S : published[c] \in Seq(S)
  BY DEF ChatOrder
<1>2. PICK n \in Nat :
          /\ DOMAIN rows[c] = 0 .. n - 1
          /\ IF InChat(c, {"publish"}) THEN n = Told(published[c]) + 1 ELSE n = Told(published[c])
  BY DEF ChatOrder
<1>3. /\ published'[c] \in Seq(S) /\ InOrder(published'[c])
      /\ DOMAIN rows'[c] = 0 .. n - 1
      /\ IF InChat(c, {"publish"})' THEN n = Told(published'[c]) + 1 ELSE n = Told(published'[c])
  BY <1>1, <1>2 DEF ChatOrder
<1> HIDE DEF InChat, InOrder, Told
<1> QED BY <1>3 DEF ChatOrder

\* A step of p changes whether somebody publishes in a chat only if p is in it.
LEMMA PublisherIsOwn ==
    ASSUME IInv, NEW p \in Procs, Lock(p) \/ Step(p), NEW c \in Chats,
           \/ c # Chat(p)
           \/ pc[p] # "publish" /\ pc'[p] # "publish"
    PROVE  InChat(c, {"publish"})' <=> InChat(c, {"publish"})
<1>1. \A q \in Procs : q # p => pc'[q] = pc[q] /\ msg'[q] = msg[q]
  BY OthersUntouched
<1>2. pc'[p] = "publish" => msg'[p] = msg[p]
  <2>1. ASSUME NEW status, Return(p, status) PROVE pc'[p] # "publish"
    BY <2>1 DEF Return, IInv, TypeOK
  <2>2. CASE AppendEntry(p) \/ PublishEntry(p)
    BY <2>1, <2>2 DEF AppendEntry, PublishEntry
  <2>3. CASE PublishSnapshot(p) \/ ReadFails(p) \/ AppendTimesOut(p) \/ SaveTimesOut(p)
    BY <2>1, <2>3 DEF PublishSnapshot, ReadFails, AppendTimesOut, SaveTimesOut
  <2>4. CASE Lock(p) \/ ReadTip(p) \/ ReadSnapshot(p) \/ ReadWindow(p) \/ SaveSnapshot(p)
             \/ CacheRoot(p)
    BY <2>4 DEF Lock, ReadTip, ReadSnapshot, ReadWindow, SaveSnapshot, CacheRoot
  <2> QED BY <2>2, <2>3, <2>4 DEF Step
<1> QED BY <1>1, <1>2 DEF InChat, Chat

(***************************************************************************)
(* The entry appended is the one that is not told of yet (log.go Append).  *)
(***************************************************************************)
LEMMA AppendInOrder ==
    ASSUME OneNode, IInv, MutexInv, NEW p \in Procs, NEW c \in Chats, c = Chat(p), ChatOrder(c),
           AppendEntry(p)
    PROVE  ChatOrder(c)'
<1> USE DEF Labels, Holding, Built
<1>1. /\ pc[p] = "append" /\ IsEntry(entry[p]) /\ published' = published
      /\ LinkedAt(rows[c], entry[p].Sequence, entry[p])
  BY DEF AppendEntry, IInv, TypeOK, PendingLinked
<1>2. CASE ~ AppendApplies(rows[c], entry[p])
  <2>1. Return(p, 422) /\ rows' = rows
    BY <1>2 DEF AppendEntry
  <2>2. pc'[p] # "publish"
    BY <2>1 DEF Return, IInv, TypeOK
  <2> QED BY <1>1, <2>1, <2>2, PublisherIsOwn, KeepOrder DEF Step
<1>3. CASE AppendApplies(rows[c], entry[p])
  <2>1. ~ InChat(c, {"publish"})
    BY <1>1, Excluded DEF InChat
  <2>2. PICK n \in Nat : DOMAIN rows[c] = 0 .. n - 1 /\ n = Told(published[c])
    BY <2>1 DEF ChatOrder
  <2>3. PICK l \in Nat : ChainOfLength(rows[c], l)
    BY DEF IInv, Chained
  <2>4. l = n
    <3>1. Cardinality(0 .. l - 1) = l /\ Cardinality(0 .. n - 1) = n
      BY SizeOfInterval
    <3> QED BY <2>2, <2>3, <3>1 DEF ChainOfLength
  <2>5. /\ rows'[c] = Put(rows[c], entry[p].Sequence, Stored(entry[p]))
        /\ pc'[p] = "publish" /\ msg' = msg
    BY <1>1, <1>3 DEF AppendEntry, IInv, TypeOK
  <2>6. DOMAIN rows'[c] = 0 .. n /\ n = (n + 1) - 1
    BY <1>1, <1>3, <2>3, <2>4, <2>5, InsertAtEnd
  <2>7. InChat(c, {"publish"})'
    BY <2>5 DEF InChat, Chat
  <2>8. /\ n + 1 \in Nat /\ DOMAIN rows'[c] = 0 .. (n + 1) - 1
        /\ n + 1 = Told(published'[c]) + 1
    BY <1>1, <2>2, <2>6
  <2>9. (\E S : published'[c] \in Seq(S)) /\ InOrder(published'[c])
    BY <1>1 DEF ChatOrder
  <2> HIDE DEF InChat, InOrder, Told
  <2> QED BY <2>7, <2>8, <2>9 DEF ChatOrder
<1> QED BY <1>2, <1>3

(***************************************************************************)
(* Publishing under the mutex tells of the entry that comes next (log.go   *)
(* Append), and a snapshot's event of none.                                *)
(***************************************************************************)
LEMMA PublishInOrder ==
    ASSUME OneNode, Delivers, IInv, MutexInv, TailInv, NEW p \in Procs, NEW c \in Chats,
           c = Chat(p), ChatOrder(c), PublishEntry(p) \/ PublishSnapshot(p)
    PROVE  ChatOrder(c)'
<1> USE DEF Labels, Holding, Built, After
<1> DEFINE kind == IF pc[p] = "publish" THEN "entry_appended" ELSE "snapshot_created"
           ev == Event(kind, entry[p])
           events == published[c]
<1>1. /\ pc[p] \in {"publish", "publishSnapshot"} /\ rows' = rows
      /\ published'[c] = Append(events, ev) /\ pc'[p] # "publish"
  BY DEF PublishEntry, PublishSnapshot, Publish, Delivers, Return, IInv, TypeOK
<1>2. /\ IsEntry(entry[p]) /\ entry[p].Sequence \in Nat
      /\ DOMAIN rows[c] = 0 .. entry[p].Sequence
  BY <1>1 DEF IInv, TypeOK, TailInv, ProcTail, IsEntry
<1>3. PICK S : events \in Seq(S)
  BY DEF ChatOrder
<1>4. PICK n \in Nat :
          /\ DOMAIN rows[c] = 0 .. n - 1
          /\ IF InChat(c, {"publish"}) THEN n = Told(events) + 1 ELSE n = Told(events)
  BY DEF ChatOrder
<1>5. InChat(c, {"publish"}) <=> pc[p] = "publish"
  BY <1>1, Excluded DEF InChat
<1>6. ~ InChat(c, {"publish"})'
  <2>1. ASSUME NEW q \in Procs, pc'[q] = "publish", msg'[q].ChatID = c PROVE FALSE
    <3>1. q # p
      BY <1>1, <2>1
    <3>2. pc[q] = "publish" /\ Chat(q) = c
      BY <2>1, <3>1, OthersUntouched DEF Step, Chat
    <3> QED BY <1>1, <3>1, <3>2, Excluded
  <2> QED BY <2>1 DEF InChat, Chat
<1>7. ev.Kind = kind /\ ev.Sequence = entry[p].Sequence
  BY DEF Event
<1>8. n = entry[p].Sequence + 1
  <2>1. \A s \in Nat : 0 .. s = 0 .. n - 1 => n = s + 1
    <3> TAKE s \in Nat
    <3> HAVE 0 .. s = 0 .. n - 1
    <3>1. s \in 0 .. n - 1 /\ n \notin 0 .. n - 1 /\ (n # 0 => n - 1 \in 0 .. s)
      OBVIOUS
    <3> QED BY <3>1
  <2> QED BY <1>2, <1>4, <2>1
<1>9. Told(events) \in Nat
  <2>1. /\ IsFiniteSet(1 .. Len(events))
        /\ EntryEvents(events, Len(events) + 1) \subseteq 1 .. Len(events)
    BY <1>3, FS_Interval, LenProperties DEF EntryEvents
  <2> QED BY <2>1, FS_Subset, FS_CardinalityType DEF Told
<1>10. kind = "entry_appended" => ev.Sequence = Told(events)
  BY <1>2, <1>4, <1>5, <1>7, <1>8, <1>9
<1>11. InOrder(events)
  BY DEF ChatOrder
<1> HIDE DEF ev, events, InChat, InOrder, Told
<1>12. /\ InOrder(Append(events, ev))
       /\ Told(Append(events, ev)) = IF kind = "entry_appended" THEN Told(events) + 1 ELSE Told(events)
  BY <1>3, <1>7, <1>10, <1>11, AppendEvent
<1>13. Append(events, ev) \in Seq(S \cup {ev})
  BY <1>3, AppendedEvents
<1>14. n = Told(published'[c])
  BY <1>1, <1>4, <1>5, <1>12
<1> QED BY <1>1, <1>4, <1>6, <1>12, <1>13, <1>14 DEF ChatOrder

(***************************************************************************)
(* Every step keeps the order.                                             *)
(***************************************************************************)
LEMMA NextOrder ==
    ASSUME OneNode, Delivers
    PROVE  IInv /\ MutexInv /\ TailInv /\ OrderInv /\ [Next]_vars => OrderInv'
<1> SUFFICES ASSUME IInv, MutexInv, TailInv, OrderInv, [Next]_vars PROVE OrderInv'
  OBVIOUS
<1>1. ASSUME rows' = rows, published' = published, limbo' = limbo,
             \A q \in Procs : /\ pc'[q] = "publish" <=> pc[q] = "publish"
                              /\ pc[q] = "publish" => msg'[q] = msg[q]
      PROVE  OrderInv'
  <2>1. ASSUME NEW c \in Chats PROVE InChat(c, {"publish"})' <=> InChat(c, {"publish"})
    BY <1>1 DEF InChat, Chat
  <2> QED BY <1>1, <2>1, KeepOrder DEF OrderInv
<1>2. ASSUME NEW p \in Procs, NEW r \in Requests,
             BadRequest(p, r) \/ Reject(p, r) \/ Accept(p, r)
      PROVE  OrderInv'
  <2>1. ASSUME NEW q \in Procs
        PROVE  (pc'[q] = "publish" <=> pc[q] = "publish") /\ (pc[q] = "publish" => msg'[q] = msg[q])
    BY <1>2 DEF BadRequest, Reject, Accept, IInv, TypeOK
  <2> QED BY <1>1, <1>2, <2>1 DEF BadRequest, Reject, Accept
<1>3. ASSUME NEW p \in Procs, Lock(p) \/ Step(p) PROVE OrderInv'
  <2>1. ~ AppendTimesOut(p) /\ ~ SaveTimesOut(p)
    BY DEF Delivers, AppendTimesOut, SaveTimesOut
  <2>2. limbo' = limbo
    BY <1>3, <2>1 DEF Step, Lock, ReadTip, AppendEntry, PublishEntry, ReadSnapshot, ReadWindow,
         SaveSnapshot, CacheRoot, PublishSnapshot, ReadFails
  <2>3. ASSUME NEW c \in Chats, c # Chat(p) PROVE ChatOrder(c)'
    <3>1. rows'[c] = rows[c]
      BY <1>3, <2>3, StepElsewhere
    <3>2. published'[c] = published[c]
      <4>1. CASE PublishEntry(p) \/ PublishSnapshot(p)
        BY <2>3, <4>1 DEF PublishEntry, PublishSnapshot, Publish, IInv, TypeOK
      <4>2. CASE ~ PublishEntry(p) /\ ~ PublishSnapshot(p)
        BY <1>3, <2>1, <4>2 DEF Step, Lock, ReadTip, AppendEntry, ReadSnapshot, ReadWindow,
             SaveSnapshot, CacheRoot, ReadFails
      <4> QED BY <4>1, <4>2
    <3>3. InChat(c, {"publish"})' <=> InChat(c, {"publish"})
      BY <1>3, <2>3, PublisherIsOwn
    <3> QED BY <3>1, <3>2, <3>3, KeepOrder DEF OrderInv
  <2>4. ASSUME NEW c \in Chats, c = Chat(p) PROVE ChatOrder(c)'
    <3>0. ChatOrder(c)
      BY DEF OrderInv
    <3>1. CASE AppendEntry(p)
      BY <2>4, <3>0, <3>1, AppendInOrder
    <3>2. CASE PublishEntry(p) \/ PublishSnapshot(p)
      BY <2>4, <3>0, <3>2, PublishInOrder
    <3>3. CASE Lock(p) \/ ReadTip(p) \/ ReadSnapshot(p) \/ ReadWindow(p) \/ SaveSnapshot(p)
               \/ CacheRoot(p) \/ ReadFails(p)
      <4>1. rows' = rows /\ published' = published /\ pc[p] # "publish" /\ pc'[p] # "publish"
        BY <3>3 DEF Lock, ReadTip, ReadSnapshot, ReadWindow, SaveSnapshot, CacheRoot, ReadFails,
             Return, IInv, TypeOK
      <4> QED BY <1>3, <3>0, <4>1, PublisherIsOwn, KeepOrder
    <3> QED BY <1>3, <2>1, <3>1, <3>2, <3>3 DEF Step
  <2> QED BY <2>2, <2>3, <2>4 DEF OrderInv
<1>4. ASSUME NEW w \in lateSnaps, LateSave(w) PROVE OrderInv'
  BY <1>1, <1>4 DEF LateSave
<1>5. limbo = {} /\ \A n \in Nodes : ~ Crash(n)
  BY DEF OrderInv, Delivers, Crash
<1>6. CASE UNCHANGED vars
  BY <1>1, <1>6 DEF vars
<1> QED BY <1>2, <1>3, <1>4, <1>5, <1>6 DEF Next

(***************************************************************************)
(* PublishedInOrder holds on one node that does not crash, as long as      *)
(* inserts are answered and no event is lost: queries, snapshots and the   *)
(* cache may fail (log.go Append).                                         *)
(***************************************************************************)
THEOREM InOrderHolds == ASSUME OneNode, Delivers PROVE Spec => []PublishedInOrder
<1>1. Init => OrderInv
  <2> SUFFICES ASSUME Init, NEW c \in Chats PROVE ChatOrder(c)
    BY DEF Init, OrderInv
  <2>1. published[c] = <<>> /\ DOMAIN rows[c] = 0 .. 0 - 1 /\ ~ InChat(c, {"publish"})
    BY DEF Init, EmptyTable, InChat
  <2>2. published[c] \in Seq({}) /\ Len(published[c]) = 0
    BY <2>1
  <2>3. Told(published[c]) = 0
    <3>1. EntryEvents(published[c], 0 + 1) = {}
      BY DEF EntryEvents
    <3> QED BY <2>2, <3>1, FS_EmptySet DEF Told
  <2>4. InOrder(published[c])
    BY <2>2 DEF InOrder
  <2> HIDE DEF InChat, InOrder, Told
  <2> QED BY <2>1, <2>2, <2>3, <2>4 DEF ChatOrder
<1>2. OrderInv => PublishedInOrder
  <2> SUFFICES ASSUME OrderInv, NEW c \in Chats, NEW i \in DOMAIN published[c]
               PROVE  published[c][i].Kind = "entry_appended" =>
                          published[c][i].Sequence = Cardinality(EntryEvents(published[c], i))
    BY DEF PublishedInOrder
  <2>1. InOrder(published[c]) /\ \E S : published[c] \in Seq(S)
    BY DEF OrderInv, ChatOrder
  <2>2. i \in 1 .. Len(published[c])
    BY <2>1, LenProperties
  <2> QED BY <2>1, <2>2 DEF InOrder
<1>3. IInv /\ MutexInv /\ TailInv /\ OrderInv /\ [Next]_vars => OrderInv'
  BY NextOrder
<1> QED BY <1>1, <1>2, <1>3, CoverInvHolds, PTL DEF Spec
=============================================================================
