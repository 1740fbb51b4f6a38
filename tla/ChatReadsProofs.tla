--------------------------- MODULE ChatReadsProofs ---------------------------
(***************************************************************************)
(* Proofs about the read path, for any readers beside any writers.         *)
(***************************************************************************)
EXTENDS ChatReads, OneNodeProofs, MerkleProofs

USE DEF Goto, Respond, store, local

-----------------------------------------------------------------------------
(***************************************************************************)
(* Where snapshots start and end, on any number of nodes: after a stored   *)
(* entry and at one, with its hash, and under indexes without a gap.       *)
(* Snapshots of several nodes may overlap and replace each other; this     *)
(* much stays true of each.                                                *)
(***************************************************************************)
Ends(log, table, sn) ==
    /\ sn.SnapshotIndex \in Nat
    /\ sn.SnapshotIndex = 0 \/ sn.SnapshotIndex - 1 \in DOMAIN table
    /\ sn.FromSequence \in Nat
    /\ sn.FromSequence = 0 \/ sn.FromSequence - 1 \in DOMAIN log
    /\ sn.ToSequence \in DOMAIN log
    /\ sn.LastEntryHash = log[sn.ToSequence].EntryHash

TableEnds(log, table) ==
    /\ \E m \in Nat : DOMAIN table = 0 .. m - 1
    /\ \A k \in DOMAIN table : table[k].SnapshotIndex = k /\ Ends(log, table, table[k])

ProcEnds(p) ==
    pc[p] \in InWindow =>
        /\ Ends(rows[Chat(p)], snaps[Chat(p)], snap[p]) /\ DOMAIN snap[p] = SnapFields
        /\ Memory => snap[p].SnapshotIndex = Cardinality(DOMAIN snaps[Chat(p)])

EndInv ==
    /\ \A c \in Chats : TableEnds(rows[c], snaps[c])
    /\ \A w \in lateSnaps : Ends(rows[w.Chat], snaps[w.Chat], w.Snap) /\ ~ Memory
    /\ \A p \in Procs : ProcEnds(p)

\* The in-memory store is a node's own.
LEMMA MemoryIsOneNode == Memory => OneNode
BY MemoryAssumption DEF Memory, OneNode

(***************************************************************************)
(* An end stays one while logs and tables grow.                            *)
(***************************************************************************)
LEMMA EndsStable ==
    ASSUME RowsExtend, NEW c \in Chats, DOMAIN snaps[c] \subseteq DOMAIN snaps'[c],
           NEW sn, Ends(rows[c], snaps[c], sn)
    PROVE  Ends(rows'[c], snaps'[c], sn)
BY DEF Ends, RowsExtend, IsRestriction

(***************************************************************************)
(* Saving a snapshot puts it at its index or leaves the table as it is     *)
(* (scylla.go and storage.go SaveSnapshot).                                *)
(***************************************************************************)
LEMMA SaveEnds ==
    ASSUME IInv, RowsExtend, NEW c \in Chats, TableEnds(rows[c], snaps[c]), NEW sn,
           Ends(rows[c], snaps[c], sn),
           Memory => sn.SnapshotIndex = Cardinality(DOMAIN snaps[c]), Save(c, sn)
    PROVE  /\ TableEnds(rows'[c], snaps'[c]) /\ DOMAIN snaps[c] \subseteq DOMAIN snaps'[c]
           /\ \A d \in Chats : d # c => snaps'[d] = snaps[d]
<1> DEFINE i == sn.SnapshotIndex
           old == snaps[c]
           written == Put(old, i, sn)
<1>1. PICK table \in SavedSnapshot(old, sn) : snaps' = [snaps EXCEPT ![c] = table]
  BY DEF Save
<1>2. snaps'[c] = table /\ \A d \in Chats : d # c => snaps'[d] = snaps[d]
  BY <1>1 DEF IInv, TypeOK
<1>3. table \in {old, written}
  BY <1>1 DEF SavedSnapshot, SliceSave, SliceLen, RowSaves
<1>4. DOMAIN old \subseteq DOMAIN table
  BY <1>3 DEF Put
<1>5. \A s : Ends(rows[c], old, s) => Ends(rows'[c], table, s)
  BY <1>2, <1>4, EndsStable
<1>6. CASE table = old
  BY <1>2, <1>4, <1>5, <1>6 DEF TableEnds
<1>7. CASE table = written
  <2>1. PICK m \in Nat : DOMAIN old = 0 .. m - 1
    BY DEF TableEnds
  <2>2. i \in Nat /\ (i = 0 \/ i - 1 \in 0 .. m - 1)
    BY <2>1 DEF Ends
  <2>3. /\ DOMAIN table = DOMAIN old \cup {i} /\ table[i] = sn
        /\ \A k \in DOMAIN old : k # i => table[k] = old[k]
    BY <1>7 DEF Put
  <2> HIDE DEF i, old, written
  <2>4. \E l \in Nat : DOMAIN table = 0 .. l - 1
    <3>1. CASE i = m
      <4>1. 0 .. m - 1 \cup {m} = 0 .. (m + 1) - 1
        OBVIOUS
      <4>2. DOMAIN table = 0 .. (m + 1) - 1
        BY <2>1, <2>3, <3>1, <4>1, Zenon
      <4> QED BY <4>2
    <3>2. CASE i # m
      <4>1. i \in 0 .. m - 1
        BY <2>2, <3>2
      <4>2. DOMAIN table = 0 .. m - 1
        BY <2>1, <2>3, <4>1, Zenon
      <4> QED BY <4>2
    <3> QED BY <3>1, <3>2
  <2>5. ASSUME NEW k \in DOMAIN table
        PROVE  table[k].SnapshotIndex = k /\ Ends(rows'[c], table, table[k])
    <3>1. CASE k = i
      BY <1>5, <2>3, <3>1 DEF i, old
    <3>2. CASE k # i
      BY <1>5, <2>3, <3>2 DEF TableEnds, old
    <3> QED BY <3>1, <3>2
  <2> QED BY <1>2, <1>4, <2>4, <2>5 DEF TableEnds, old
<1> QED BY <1>3, <1>6, <1>7

(***************************************************************************)
(* The snapshot ReadSnapshot opens ends at the entry just stored (log.go   *)
(* snapshot).                                                              *)
(***************************************************************************)
LEMMA OpenEnds ==
    ASSUME NEW log, DOMAIN log \subseteq Nat, NEW table, TableEnds(log, table),
           NEW e, IsEntry(e), e.Sequence \in DOMAIN log, log[e.Sequence] = Stored(e)
    PROVE  LET sn == NextSnapshot(table, e)
           IN  /\ Ends(log, table, sn) /\ DOMAIN sn = SnapFields
               /\ sn.SnapshotIndex = Cardinality(DOMAIN table)
<1> DEFINE sn == NextSnapshot(table, e)
<1>1. PICK m \in Nat : DOMAIN table = 0 .. m - 1
  BY DEF TableEnds
<1>2. Cardinality(DOMAIN table) = m
  BY <1>1, SizeOfInterval
<1>3. /\ DOMAIN sn = SnapFields /\ sn.ToSequence = e.Sequence /\ sn.LastEntryHash = e.EntryHash
      /\ e.EntryHash = log[e.Sequence].EntryHash
  BY StoredKeeps DEF NextSnapshot, SnapFields
<1>4. /\ sn.SnapshotIndex = m /\ sn.FromSequence \in Nat
      /\ sn.FromSequence = 0 \/ sn.FromSequence - 1 \in DOMAIN log
  <2>1. CASE m = 0
    BY <1>1, <2>1 DEF NextSnapshot, IsEmpty
  <2>2. CASE m # 0
    <3>1. ~ IsEmpty(table) /\ m - 1 \in DOMAIN table
      BY <1>1, <2>2 DEF IsEmpty
    <3>2. Latest(table) = table[m - 1]
      BY <1>1, <1>2, <2>2, MaxOfInterval DEF Latest, SliceLast, SliceLen, RowLast
    <3>3. table[m - 1].SnapshotIndex = m - 1
      BY <3>1 DEF TableEnds
    <3>4. sn.SnapshotIndex = (m - 1) + 1 /\ sn.FromSequence = table[m - 1].ToSequence + 1
      BY <3>1, <3>2, <3>3 DEF NextSnapshot
    <3>5. table[m - 1].ToSequence \in DOMAIN log
      BY <3>1 DEF TableEnds, Ends
    <3>6. \A t \in Nat : t + 1 \in Nat /\ (t + 1) - 1 = t
      OBVIOUS
    <3> HIDE DEF sn
    <3> QED BY <3>4, <3>5, <3>6
  <2> QED BY <2>1, <2>2
<1> HIDE DEF sn
<1>5. Ends(log, table, sn)
  BY <1>1, <1>3, <1>4 DEF Ends
<1> QED BY <1>2, <1>3, <1>4, <1>5 DEF sn

\* A goroutine that does not move keeps what it knows of its snapshot's ends.
LEMMA KeepEnds ==
    ASSUME IInv, RowsExtend, NEW q \in Procs, ProcEnds(q),
           pc'[q] \in InWindow =>
               /\ pc[q] \in InWindow /\ msg'[q] = msg[q]
               /\ DOMAIN snap'[q] = DOMAIN snap[q]
               /\ snap'[q].SnapshotIndex = snap[q].SnapshotIndex
               /\ snap'[q].FromSequence = snap[q].FromSequence
               /\ snap'[q].ToSequence = snap[q].ToSequence
               /\ snap'[q].LastEntryHash = snap[q].LastEntryHash
               /\ DOMAIN snaps[Chat(q)] \subseteq DOMAIN snaps'[Chat(q)]
               /\ Memory => DOMAIN snaps'[Chat(q)] = DOMAIN snaps[Chat(q)]
    PROVE  ProcEnds(q)'
<1> SUFFICES ASSUME pc'[q] \in InWindow
             PROVE  /\ Ends(rows'[msg'[q].ChatID], snaps'[msg'[q].ChatID], snap'[q])
                    /\ DOMAIN snap'[q] = SnapFields
                    /\ Memory => snap'[q].SnapshotIndex =
                                    Cardinality(DOMAIN snaps'[msg'[q].ChatID])
  BY DEF ProcEnds, Memory, Chat
<1>1. Chat(q) \in Chats /\ msg'[q].ChatID = Chat(q)
  BY DEF IInv, TypeOK, InWindow, Chat
<1>2. Ends(rows'[Chat(q)], snaps'[Chat(q)], snap[q])
  BY <1>1, EndsStable DEF ProcEnds
<1>3. Ends(rows'[Chat(q)], snaps'[Chat(q)], snap'[q])
  BY <1>2 DEF Ends
<1> QED BY <1>1, <1>3 DEF ProcEnds

(***************************************************************************)
(* Every step, on any number of nodes, keeps the ends.                     *)
(***************************************************************************)
LEMMA NextEnds == IInv /\ AckInv /\ MutexInv /\ EndInv /\ [Next]_vars => EndInv'
<1> SUFFICES ASSUME IInv, AckInv, MutexInv, EndInv, [Next]_vars PROVE EndInv'
  OBVIOUS
<1> USE DEF InWindow, Labels, Holding, Built
<1>0. RowsExtend
  BY StepExtends
<1>1. ASSUME snaps' = snaps, lateSnaps' = lateSnaps, \A q \in Procs : ProcEnds(q)'
      PROVE  EndInv'
  <2>1. ASSUME NEW c \in Chats, NEW sn, Ends(rows[c], snaps[c], sn)
        PROVE  Ends(rows'[c], snaps'[c], sn)
    BY <1>0, <1>1, <2>1, EndsStable
  <2>2. \A c \in Chats : TableEnds(rows'[c], snaps'[c])
    BY <1>1, <2>1 DEF EndInv, TableEnds
  <2>3. \A w \in lateSnaps' : Ends(rows'[w.Chat], snaps'[w.Chat], w.Snap) /\ ~ Memory
    BY <1>1, <2>1 DEF EndInv, IInv, TypeOK
  <2> QED BY <1>1, <2>2, <2>3 DEF EndInv, Memory
<1>2. ASSUME NEW q \in Procs, snaps' = snaps,
             pc'[q] \in InWindow => pc[q] \in InWindow /\ msg'[q] = msg[q] /\ snap'[q] = snap[q]
      PROVE  ProcEnds(q)'
  BY <1>0, <1>2, KeepEnds DEF EndInv
<1>3. ASSUME NEW p \in Procs, NEW r \in Requests,
             BadRequest(p, r) \/ Reject(p, r) \/ Accept(p, r)
      PROVE  EndInv'
  <2>1. /\ snaps' = snaps /\ lateSnaps' = lateSnaps
        /\ \A q \in Procs : pc'[q] \in InWindow =>
              pc[q] \in InWindow /\ msg'[q] = msg[q] /\ snap'[q] = snap[q]
    BY <1>3 DEF BadRequest, Reject, Accept, IInv, TypeOK
  <2> QED BY <1>1, <1>2, <2>1
<1>4. ASSUME NEW p \in Procs, Lock(p) \/ Step(p) PROVE EndInv'
  <2>0. ASSUME NEW q \in Procs, q # p
        PROVE  pc'[q] = pc[q] /\ msg'[q] = msg[q] /\ snap'[q] = snap[q]
    BY <1>4, <2>0, OthersUntouched, OthersSnap
  <2>1. ASSUME ~ SaveSnapshot(p), ~ SaveTimesOut(p)
        PROVE  snaps' = snaps /\ lateSnaps' = lateSnaps
    BY <1>4, <2>1 DEF Step, Lock, ReadTip, AppendEntry, PublishEntry, ReadSnapshot, ReadWindow,
         CacheRoot, PublishSnapshot, ReadFails, AppendTimesOut
  <2>2. ASSUME pc'[p] \notin InWindow PROVE ProcEnds(p)'
    BY <2>2 DEF ProcEnds
  <2>3. ASSUME ReadSnapshot(p) PROVE ProcEnds(p)'
    <3>1. /\ pc[p] = "readSnapshot" /\ snap'[p] = NextSnapshot(snaps[Chat(p)], entry[p])
          /\ msg' = msg /\ snaps' = snaps /\ rows' = rows
      BY <2>3 DEF ReadSnapshot, IInv, TypeOK
    <3>2. /\ Chat(p) \in Chats /\ IsEntry(entry[p])
          /\ entry[p].Sequence \in DOMAIN rows[Chat(p)]
          /\ rows[Chat(p)][entry[p].Sequence] = Stored(entry[p])
          /\ DOMAIN rows[Chat(p)] \subseteq Nat
      BY <3>1 DEF IInv, TypeOK, AckInv, ProcAck
    <3>3. TableEnds(rows[Chat(p)], snaps[Chat(p)])
      BY <3>2 DEF EndInv
    <3>4. /\ Ends(rows[Chat(p)], snaps[Chat(p)], snap'[p]) /\ DOMAIN snap'[p] = SnapFields
          /\ snap'[p].SnapshotIndex = Cardinality(DOMAIN snaps[Chat(p)])
      BY <3>1, <3>2, <3>3, OpenEnds
    <3> QED BY <3>1, <3>4 DEF ProcEnds, Chat, Memory
  <2>4. ASSUME ReadWindow(p) PROVE ProcEnds(p)'
    <3>1. /\ pc[p] = "readWindow" /\ msg' = msg /\ snaps' = snaps
          /\ snap' = [snap EXCEPT ![p].MerkleRoot =
                        Root(Hashes(EntriesSince(rows[Chat(p)], snap[p].FromSequence)))]
      BY <2>4 DEF ReadWindow
    <3>2. ProcEnds(p) /\ DOMAIN snap[p] = SnapFields
      BY <3>1 DEF EndInv, ProcEnds
    <3>3. /\ DOMAIN snap'[p] = DOMAIN snap[p]
          /\ snap'[p].SnapshotIndex = snap[p].SnapshotIndex
          /\ snap'[p].ToSequence = snap[p].ToSequence
          /\ snap'[p].LastEntryHash = snap[p].LastEntryHash
      BY <3>1, <3>2 DEF SnapFields, IInv, TypeOK
    <3> QED BY <1>0, <3>1, <3>2, <3>3, KeepEnds
  <2>5. CASE ~ SaveSnapshot(p) /\ ~ SaveTimesOut(p)
    <3>1. pc'[p] \in InWindow => ReadSnapshot(p) \/ ReadWindow(p)
      <4>1. ASSUME NEW status, Return(p, status) PROVE pc'[p] \notin InWindow
        BY <4>1 DEF Return, IInv, TypeOK
      <4>2. CASE Lock(p) \/ ReadTip(p) \/ CacheRoot(p)
        BY <4>2 DEF Lock, ReadTip, CacheRoot, IInv, TypeOK
      <4>3. CASE AppendEntry(p) \/ PublishEntry(p)
        BY <4>1, <4>3 DEF AppendEntry, PublishEntry, IInv, TypeOK
      <4>4. CASE PublishSnapshot(p) \/ ReadFails(p) \/ AppendTimesOut(p)
        BY <4>1, <4>4 DEF PublishSnapshot, ReadFails, AppendTimesOut
      <4> QED BY <1>4, <2>5, <4>2, <4>3, <4>4 DEF Step
    <3> QED BY <1>1, <1>2, <2>0, <2>1, <2>2, <2>3, <2>4, <2>5, <3>1
  <2>6. CASE SaveSnapshot(p) \/ SaveTimesOut(p)
    <3> DEFINE c == Chat(p)
               sn == Stamped(p)
    <3>1. /\ pc[p] = "saveSnapshot" /\ c \in Chats /\ DOMAIN snap[p] = SnapFields
          /\ Ends(rows[c], snaps[c], snap[p]) /\ TableEnds(rows[c], snaps[c])
          /\ Memory => snap[p].SnapshotIndex = Cardinality(DOMAIN snaps[c])
      BY <2>6 DEF SaveSnapshot, SaveTimesOut, EndInv, ProcEnds, IInv, TypeOK
    <3>2. /\ Ends(rows[c], snaps[c], sn)
          /\ Memory => sn.SnapshotIndex = Cardinality(DOMAIN snaps[c])
      BY <3>1, StampedKeeps DEF Ends
    <3>3. pc'[p] \notin InWindow
      BY <2>6 DEF SaveSnapshot, SaveTimesOut, Return, IInv, TypeOK
    <3> HIDE DEF sn
    <3>4. CASE SaveSnapshot(p)
      <4>1. Save(c, sn) /\ lateSnaps' = lateSnaps
        BY <3>4 DEF SaveSnapshot, sn
      <4>2. /\ TableEnds(rows'[c], snaps'[c]) /\ DOMAIN snaps[c] \subseteq DOMAIN snaps'[c]
            /\ \A d \in Chats : d # c => snaps'[d] = snaps[d]
        BY <1>0, <3>1, <3>2, <4>1, SaveEnds
      <4>3. ASSUME NEW d \in Chats PROVE DOMAIN snaps[d] \subseteq DOMAIN snaps'[d]
        <5> HIDE DEF c
        <5> QED BY <4>2
      <4>4. ASSUME NEW d \in Chats, NEW s, Ends(rows[d], snaps[d], s)
            PROVE  Ends(rows'[d], snaps'[d], s)
        BY <1>0, <4>3, <4>4, EndsStable
      <4>5. ASSUME NEW d \in Chats PROVE TableEnds(rows'[d], snaps'[d])
        <5>1. CASE d = c
          BY <4>2, <5>1
        <5>2. CASE d # c
          BY <4>2, <4>4, <5>2 DEF EndInv, TableEnds
        <5> QED BY <5>1, <5>2
      <4>6. \A w \in lateSnaps' : Ends(rows'[w.Chat], snaps'[w.Chat], w.Snap) /\ ~ Memory
        BY <4>1, <4>4 DEF EndInv, IInv, TypeOK
      <4>7. ASSUME NEW q \in Procs PROVE ProcEnds(q)'
        <5>1. CASE q = p
          BY <3>3, <5>1 DEF ProcEnds
        <5>2. CASE q # p
          <6>1. ASSUME pc[q] \in InWindow, Memory PROVE snaps'[Chat(q)] = snaps[Chat(q)]
            <7>1. Chat(q) \in Chats
              BY <6>1 DEF IInv, TypeOK
            <7>2. Chat(q) # c
              BY <3>1, <5>2, <6>1, MemoryIsOneNode, Excluded
            <7> QED BY <4>2, <7>1, <7>2
          <6>2. pc[q] \in InWindow => Chat(q) \in Chats
            BY DEF IInv, TypeOK
          <6>3. ProcEnds(q)
            BY DEF EndInv
          <6> HIDE DEF c
          <6> QED BY <1>0, <2>0, <4>3, <5>2, <6>1, <6>2, <6>3, KeepEnds
        <5> QED BY <5>1, <5>2
      <4> QED BY <4>5, <4>6, <4>7 DEF EndInv, Memory
    <3>5. CASE SaveTimesOut(p)
      <4>1. ~ Memory
        BY <3>5, MemoryAssumption DEF SaveTimesOut, Memory
      <4>2. snaps' = snaps /\ lateSnaps' = lateSnaps \cup {[Chat |-> c, Snap |-> sn]}
        BY <3>5 DEF SaveTimesOut, sn
      <4>3. ASSUME NEW d \in Chats, NEW s, Ends(rows[d], snaps[d], s)
            PROVE  Ends(rows'[d], snaps'[d], s)
        BY <1>0, <4>2, <4>3, EndsStable
      <4>4. \A d \in Chats : TableEnds(rows'[d], snaps'[d])
        BY <4>2, <4>3 DEF EndInv, TableEnds
      <4>5. ASSUME NEW w \in lateSnaps' PROVE Ends(rows'[w.Chat], snaps'[w.Chat], w.Snap)
        <5>1. CASE w \in lateSnaps
          BY <4>3, <5>1 DEF EndInv, IInv, TypeOK
        <5>2. CASE w = [Chat |-> c, Snap |-> sn]
          <6>1. w.Chat = c /\ w.Snap = sn
            BY <5>2
          <6> QED BY <3>1, <3>2, <4>3, <6>1
        <5> QED BY <4>2, <5>1, <5>2
      <4>6. \A q \in Procs : ProcEnds(q)'
        BY <1>2, <2>0, <2>2, <3>3, <4>2
      <4> QED BY <4>1, <4>4, <4>5, <4>6 DEF EndInv, Memory
    <3> QED BY <2>6, <3>4, <3>5
  <2> QED BY <2>5, <2>6
<1>5. ASSUME NEW w \in limbo, LateAppend(w) PROVE EndInv'
  BY <1>1, <1>2, <1>5 DEF LateAppend
<1>6. ASSUME NEW w \in lateSnaps, LateSave(w) PROVE EndInv'
  <2>1. /\ w.Chat \in Chats /\ Ends(rows[w.Chat], snaps[w.Chat], w.Snap) /\ ~ Memory
        /\ TableEnds(rows[w.Chat], snaps[w.Chat])
        /\ Save(w.Chat, w.Snap) /\ lateSnaps' = lateSnaps \ {w}
        /\ pc' = pc /\ msg' = msg /\ snap' = snap
    BY <1>6 DEF IInv, TypeOK, EndInv, LateSave
  <2>2. /\ TableEnds(rows'[w.Chat], snaps'[w.Chat])
        /\ DOMAIN snaps[w.Chat] \subseteq DOMAIN snaps'[w.Chat]
        /\ \A d \in Chats : d # w.Chat => snaps'[d] = snaps[d]
    BY <1>0, <2>1, SaveEnds
  <2>3. ASSUME NEW d \in Chats PROVE DOMAIN snaps[d] \subseteq DOMAIN snaps'[d]
    BY <2>2
  <2>4. ASSUME NEW d \in Chats, NEW s, Ends(rows[d], snaps[d], s)
        PROVE  Ends(rows'[d], snaps'[d], s)
    BY <1>0, <2>3, <2>4, EndsStable
  <2>5. ASSUME NEW d \in Chats PROVE TableEnds(rows'[d], snaps'[d])
    <3>1. CASE d # w.Chat
      <4>1. TableEnds(rows[d], snaps[d]) /\ snaps'[d] = snaps[d]
        BY <2>2, <3>1 DEF EndInv
      <4> QED BY <2>4, <4>1 DEF TableEnds
    <3> QED BY <2>2, <3>1
  <2>6. \A v \in lateSnaps' : Ends(rows'[v.Chat], snaps'[v.Chat], v.Snap)
    BY <2>1, <2>4 DEF EndInv, IInv, TypeOK
  <2>7. ASSUME NEW q \in Procs PROVE ProcEnds(q)'
    <3>1. pc[q] \in InWindow => Chat(q) \in Chats
      BY DEF IInv, TypeOK
    <3> QED BY <1>0, <2>1, <2>3, <3>1, KeepEnds DEF EndInv
  <2> QED BY <2>1, <2>5, <2>6, <2>7 DEF EndInv, Memory
<1>7. ASSUME NEW n \in Nodes, Crash(n) PROVE EndInv'
  <2>1. \A q \in Procs : pc'[q] \in InWindow =>
           /\ pc[q] \in InWindow /\ msg'[q] = msg[q] /\ snap'[q] = snap[q]
    BY <1>7 DEF Crash, Dies
  <2> QED BY <1>1, <1>2, <1>7, <2>1 DEF Crash, Dies
<1>8. CASE UNCHANGED vars
  BY <1>1, <1>2, <1>8 DEF vars
<1> QED BY <1>3, <1>4, <1>5, <1>6, <1>7, <1>8 DEF Next

-----------------------------------------------------------------------------
(***************************************************************************)
(* Readers.  They write nothing, so what holds of the write path alone     *)
(* holds beside them; and what a reader has in hand, or answers, says      *)
(* which of its queries came last.                                         *)
(***************************************************************************)
ReadBy(r) ==
    \/ \E c \in Chats :
        \/ Verify(r, c)
        \/ SyncSnapshot(r, c)
        \/ \E s \in Positions(c) :
              Message(r, c, s) \/ VerifyEntry(r, c, s) \/ ProveInclusion(r, c, s)
        \/ \E from \in FromParams, limit \in LimitParams : History(r, c, from, limit)
    \/ \E from \in FromParams, limit \in LimitParams : BadParameter(r, from, limit)
    \/ HistoryNext(r) \/ VerifyPrev(r) \/ ProveWindow(r) \/ SyncEntries(r) \/ SyncTip(r)
    \/ QueryFails(r)

\* What a step of a reader puts into its query and its answer.
Puts(r, op, told) ==
    /\ UNCHANGED vars /\ DOMAIN query' = Readers
    /\ query'[r] = None \/ query'[r].Op = op
    /\ answer'[r] = None \/ answer'[r].Op = told
    /\ \A q \in Readers : q # r => query'[q] = query[q] /\ answer'[q] = None

\* A reader that asks again: its next query, and no answer yet.
LEMMA AskPuts ==
    ASSUME DOMAIN query = Readers, NEW r \in Readers, NEW q, Continue(r, q), NEW told
    PROVE  Puts(r, q.Op, told) /\ query'[r] = q /\ answer'[r] = None
BY DEF Continue, NoAnswer, Puts

\* A reader that is answered: the answer, and no query.
LEMMA AnswerPuts ==
    ASSUME DOMAIN query = Readers, NEW r \in Readers, NEW a, Answer(r, a), NEW op
    PROVE  Puts(r, op, a.Op) /\ query'[r] = None /\ answer'[r] = a
BY DEF Answer, Puts

\* A first query is put as any other.
LEMMA BeginContinues == ASSUME NEW r, NEW q, Begin(r, q) PROVE Continue(r, q)
BY DEF Begin, Continue

\* The operation of each of the queries (log.go History, Entry, Verify, VerifyEntry,
\* ProveInclusion, Sync).
LEMMA OpOfStart ==
    ASSUME DOMAIN query = Readers, NEW r \in Readers, NEW c, NEW s
    PROVE  /\ Verify(r, c) => Puts(r, "none", "verify")
           /\ SyncSnapshot(r, c) => Puts(r, "syncEntries", "none")
           /\ Message(r, c, s) => Puts(r, "none", "message")
           /\ VerifyEntry(r, c, s) => Puts(r, "verifyPrev", "verifyEntry")
           /\ ProveInclusion(r, c, s) => Puts(r, "proof", "proof")
<1>1. ASSUME NEW op, NEW told, NEW q, Begin(r, q), q.Op = op PROVE Puts(r, op, told)
  BY <1>1, AskPuts, BeginContinues
<1>2. ASSUME NEW op, NEW told, NEW a, Answer(r, a), a.Op = told PROVE Puts(r, op, told)
  BY <1>2, AnswerPuts
<1>3. Verify(r, c) => Puts(r, "none", "verify")
  BY <1>2 DEF Verify
<1>4. SyncSnapshot(r, c) => Puts(r, "syncEntries", "none")
  BY <1>1 DEF SyncSnapshot
<1>5. Message(r, c, s) => Puts(r, "none", "message")
  BY <1>2 DEF Message
<1>6. VerifyEntry(r, c, s) => Puts(r, "verifyPrev", "verifyEntry")
  BY <1>1, <1>2 DEF VerifyEntry
<1>7. ProveInclusion(r, c, s) => Puts(r, "proof", "proof")
  BY <1>1, <1>2 DEF ProveInclusion
<1> QED BY <1>3, <1>4, <1>5, <1>6, <1>7

\* Which queries and answers the pages of the history leave.
LEMMA OpOfHistory ==
    ASSUME DOMAIN query = Readers, NEW r \in Readers, NEW c, NEW from, NEW limit
    PROVE  /\ History(r, c, from, limit) \/ HistoryNext(r) => Puts(r, "history", "history")
           /\ BadParameter(r, from, limit) => Puts(r, "none", "history")
<1>1. ASSUME NEW op, NEW told, NEW q, Continue(r, q), q.Op = op PROVE Puts(r, op, told)
  BY <1>1, AskPuts
<1>2. ASSUME NEW op, NEW told, NEW a, Answer(r, a), a.Op = told PROVE Puts(r, op, told)
  BY <1>2, AnswerPuts
<1>3. ASSUME NEW d, NEW start, NEW n, NEW read, NEW f, HistoryPage(r, d, start, n, read, f)
      PROVE  Puts(r, "history", "history")
  BY <1>1, <1>2, <1>3 DEF HistoryPage
<1>4. BadParameter(r, from, limit) => Puts(r, "none", "history")
  BY <1>2 DEF BadParameter
<1> QED BY <1>3, <1>4 DEF History, HistoryNext

\* Which queries and answers a second query leaves.
LEMMA OpOfGoOn ==
    ASSUME DOMAIN query = Readers, NEW r \in Readers
    PROVE  /\ VerifyPrev(r) => Puts(r, "none", "verifyEntry")
           /\ ProveWindow(r) => Puts(r, "none", "proof")
           /\ SyncEntries(r) => Puts(r, "syncTip", "none")
           /\ SyncTip(r) => Puts(r, "none", "sync")
           /\ QueryFails(r) => Puts(r, "none", "failed")
<1>1. ASSUME NEW op, NEW told, NEW q, Continue(r, q), q.Op = op PROVE Puts(r, op, told)
  BY <1>1, AskPuts
<1>2. ASSUME NEW op, NEW told, NEW a, Answer(r, a), a.Op = told PROVE Puts(r, op, told)
  BY <1>2, AnswerPuts
<1>3. VerifyPrev(r) => Puts(r, "none", "verifyEntry")
  BY <1>2 DEF VerifyPrev
<1>4. ProveWindow(r) => Puts(r, "none", "proof")
  BY <1>2 DEF ProveWindow
<1>5. SyncEntries(r) => Puts(r, "syncTip", "none")
  BY <1>1 DEF SyncEntries
<1>6. SyncTip(r) => Puts(r, "none", "sync")
  BY <1>2 DEF SyncTip
<1>7. QueryFails(r) => Puts(r, "none", "failed")
  BY <1>2 DEF QueryFails
<1> QED BY <1>3, <1>4, <1>5, <1>6, <1>7

\* Every step of a reader leaves a query or an answer.
LEMMA ReadPuts ==
    ASSUME DOMAIN query = Readers, NEW r \in Readers, ReadBy(r)
    PROVE  \E op, told : Puts(r, op, told)
<1>1. ASSUME NEW c \in Chats, NEW s \in Positions(c),
             Message(r, c, s) \/ VerifyEntry(r, c, s) \/ ProveInclusion(r, c, s)
      PROVE  \E op, told : Puts(r, op, told)
  BY <1>1, OpOfStart
<1>2. ASSUME NEW c \in Chats, Verify(r, c) \/ SyncSnapshot(r, c)
      PROVE  \E op, told : Puts(r, op, told)
  BY <1>2, OpOfStart
<1>3. ASSUME NEW c \in Chats, NEW from \in FromParams, NEW limit \in LimitParams,
             History(r, c, from, limit)
      PROVE  \E op, told : Puts(r, op, told)
  BY <1>3, OpOfHistory
<1>4. ASSUME NEW from \in FromParams, NEW limit \in LimitParams, BadParameter(r, from, limit)
      PROVE  \E op, told : Puts(r, op, told)
  BY <1>4, OpOfHistory
<1>5. ASSUME HistoryNext(r) PROVE \E op, told : Puts(r, op, told)
  BY <1>5, OpOfHistory
<1>6. ASSUME VerifyPrev(r) \/ ProveWindow(r) \/ SyncEntries(r) \/ SyncTip(r) \/ QueryFails(r)
      PROVE  \E op, told : Puts(r, op, told)
  BY <1>6, OpOfGoOn
<1> QED BY <1>1, <1>2, <1>3, <1>4, <1>5, <1>6 DEF ReadBy

Tells(r, op) == answer[r] # None /\ answer[r].Op = op

Queried == DOMAIN query = Readers

(***************************************************************************)
(* The step that left a query or an answer is known from its operation.    *)
(***************************************************************************)
LEMMA LastQuery ==
    ASSUME Queried, NEW r \in Readers, ReadBy(r)
    PROVE  /\ At(r, "history")' => \/ HistoryNext(r)
                                   \/ \E c \in Chats, from \in FromParams, limit \in LimitParams :
                                           History(r, c, from, limit)
           /\ At(r, "verifyPrev")' => \E c \in Chats : \E s \in Positions(c) : VerifyEntry(r, c, s)
           /\ At(r, "proof")' => \E c \in Chats : \E s \in Positions(c) : ProveInclusion(r, c, s)
           /\ At(r, "syncEntries")' => \E c \in Chats : SyncSnapshot(r, c)
           /\ At(r, "syncTip")' => SyncEntries(r)
           /\ Tells(r, "history")' =>
                 \/ HistoryNext(r)
                 \/ \E c \in Chats, from \in FromParams, limit \in LimitParams :
                         History(r, c, from, limit)
                 \/ \E from \in FromParams, limit \in LimitParams : BadParameter(r, from, limit)
           /\ Tells(r, "message")' => \E c \in Chats : \E s \in Positions(c) : Message(r, c, s)
           /\ Tells(r, "verify")' => \E c \in Chats : Verify(r, c)
           /\ Tells(r, "verifyEntry")' =>
                 VerifyPrev(r) \/ \E c \in Chats : \E s \in Positions(c) : VerifyEntry(r, c, s)
           /\ Tells(r, "proof")' =>
                 ProveWindow(r) \/ \E c \in Chats : \E s \in Positions(c) : ProveInclusion(r, c, s)
           /\ Tells(r, "sync")' => SyncTip(r)
<1>0. ASSUME NEW op, NEW told, Puts(r, op, told)
      PROVE  (\A o : At(r, o)' => o = op) /\ (\A o : Tells(r, o)' => o = told)
  BY <1>0 DEF Puts, At, Tells
<1>1. CASE \E c \in Chats : Verify(r, c)
  <2>1. Puts(r, "none", "verify")
    BY <1>1, OpOfStart DEF Queried
  <2> QED BY <1>0, <1>1, <2>1
<1>2. CASE \E c \in Chats : SyncSnapshot(r, c)
  <2>1. Puts(r, "syncEntries", "none")
    BY <1>2, OpOfStart DEF Queried
  <2> QED BY <1>0, <1>2, <2>1
<1>3. CASE \E c \in Chats : \E s \in Positions(c) : Message(r, c, s)
  <2>1. Puts(r, "none", "message")
    BY <1>3, OpOfStart DEF Queried
  <2> QED BY <1>0, <1>3, <2>1
<1>4. CASE \E c \in Chats : \E s \in Positions(c) : VerifyEntry(r, c, s)
  <2>1. Puts(r, "verifyPrev", "verifyEntry")
    BY <1>4, OpOfStart DEF Queried
  <2> QED BY <1>0, <1>4, <2>1
<1>5. CASE \E c \in Chats : \E s \in Positions(c) : ProveInclusion(r, c, s)
  <2>1. Puts(r, "proof", "proof")
    BY <1>5, OpOfStart DEF Queried
  <2> QED BY <1>0, <1>5, <2>1
<1>6. CASE \/ HistoryNext(r)
           \/ \E c \in Chats, from \in FromParams, limit \in LimitParams :
                   History(r, c, from, limit)
  <2>1. Puts(r, "history", "history")
    BY <1>6, OpOfHistory DEF Queried
  <2> QED BY <1>0, <1>6, <2>1
<1>7. CASE \E from \in FromParams, limit \in LimitParams : BadParameter(r, from, limit)
  <2>1. Puts(r, "none", "history")
    BY <1>7, OpOfHistory DEF Queried
  <2> QED BY <1>0, <1>7, <2>1
<1>8. CASE VerifyPrev(r)
  <2>1. Puts(r, "none", "verifyEntry")
    BY <1>8, OpOfGoOn DEF Queried
  <2> QED BY <1>0, <1>8, <2>1
<1>9. CASE ProveWindow(r)
  <2>1. Puts(r, "none", "proof")
    BY <1>9, OpOfGoOn DEF Queried
  <2> QED BY <1>0, <1>9, <2>1
<1>10. CASE SyncEntries(r)
  <2>1. Puts(r, "syncTip", "none")
    BY <1>10, OpOfGoOn DEF Queried
  <2> QED BY <1>0, <1>10, <2>1
<1>11. CASE SyncTip(r)
  <2>1. Puts(r, "none", "sync")
    BY <1>11, OpOfGoOn DEF Queried
  <2> QED BY <1>0, <1>11, <2>1
<1>12. CASE QueryFails(r)
  <2>1. Puts(r, "none", "failed")
    BY <1>12, OpOfGoOn DEF Queried
  <2> QED BY <1>0, <2>1
<1> QED BY <1>1, <1>2, <1>3, <1>4, <1>5, <1>6, <1>7, <1>8, <1>9, <1>10, <1>11, <1>12 DEF ReadBy

\* A step of the read path is a step of one reader.
LEMMA ReadSplit == ReadNext => \E r \in Readers : ReadBy(r)
BY DEF ReadNext, ReadBy

\* A step of the whole is one of the write path, or one that leaves it alone.
LEMMA AllSplit ==
    Queried /\ [AllNext]_allVars =>
        /\ Queried'
        /\ [Next]_vars
        /\ \/ UNCHANGED <<vars, readVars>>
           \/ Next /\ NoAnswer /\ UNCHANGED query
           \/ \E r \in Readers : ReadBy(r) /\ \E op, told : Puts(r, op, told)
<1> SUFFICES ASSUME Queried, [AllNext]_allVars
             PROVE  /\ Queried'
                    /\ [Next]_vars
                    /\ \/ UNCHANGED <<vars, readVars>>
                       \/ Next /\ NoAnswer /\ UNCHANGED query
                       \/ \E r \in Readers : ReadBy(r) /\ \E op, told : Puts(r, op, told)
  OBVIOUS
<1>1. CASE ReadNext
  <2>1. PICK r \in Readers : ReadBy(r)
    BY <1>1, ReadSplit
  <2>2. PICK op, told : Puts(r, op, told)
    BY <2>1, ReadPuts DEF Queried
  <2> QED BY <2>1, <2>2 DEF Puts, Queried
<1>2. CASE Next /\ NoAnswer /\ UNCHANGED query
  BY <1>2 DEF Queried
<1>3. CASE UNCHANGED allVars
  BY <1>3 DEF Queried, allVars, readVars
<1> QED BY <1>1, <1>2, <1>3 DEF AllNext

\* What holds of the write path alone holds beside the readers.
LEMMA AllIsSpec == AllSpec => Spec /\ []Queried
<1>1. AllInit => Init /\ Queried
  BY DEF AllInit, ReadInit, Queried
<1>2. Queried /\ [AllNext]_allVars => Queried' /\ [Next]_vars
  BY AllSplit
<1> QED BY <1>1, <1>2, PTL DEF AllSpec, Spec

-----------------------------------------------------------------------------
(***************************************************************************)
(* The range query, from any position: what is at or after it, in order.   *)
(* With ScyllaDB a position of SignBit or more is turned negative, and     *)
(* the query returns the log from its beginning.                           *)
(***************************************************************************)
From(log, from, n) == [i \in 1 .. n - from |-> log[from + i - 1]]

\* EntriesSince returns the rows from that position on, for both adapters.
LEMMA EntriesFrom ==
    ASSUME NEW table, NEW n \in Nat, DOMAIN table = 0 .. n - 1, NEW from \in Nat,
           Memory \/ from < SignBit
    PROVE  EntriesSince(table, from) = From(table, from, n)
<1>1. CASE from < n
  <2> DEFINE t == n - 1
  <2>1. t \in Nat /\ from \in 0 .. t /\ DOMAIN table = 0 .. t /\ t + 1 - from = n - from
    BY <1>1
  <2> HIDE DEF t
  <2> QED BY <2>1, WindowEntries DEF From
<1>2. CASE ~ (from < n)
  <2>1. 1 .. n - from = {}
    BY <1>2
  <2>2. EntriesSince(table, from) = [i \in {} |-> table[from + i - 1]]
    <3>1. CASE Memory
      <4>1. SliceLen(table) = n
        BY SizeOfInterval DEF SliceLen
      <4>2. EntriesSince(table, from) = <<>>
        BY <1>2, <3>1, <4>1 DEF EntriesSince, SliceSince
      <4> QED BY <4>2
    <3>2. CASE ~ Memory
      <4> DEFINE keys == {s \in DOMAIN table : s >= Int64(from)}
                 Ranked(K, i) == CHOOSE s \in K : Cardinality({u \in K : u < s}) = i - 1
      <4>1. keys = {}
        BY <1>2, <3>2 DEF Int64
      <4>2. Cardinality({}) = 0 /\ 1 .. 0 = {}
        BY FS_EmptySet
      <4>3. EntriesSince(table, from) = [i \in 1 .. Cardinality(keys) |-> table[Ranked(keys, i)]]
        BY <3>2 DEF EntriesSince, RowsSince
      <4> HIDE DEF Ranked
      <4>4. EntriesSince(table, from) = [i \in {} |-> table[Ranked({}, i)]]
        BY <4>1, <4>2, <4>3
      <4> QED BY <4>4
    <3> QED BY <3>1, <3>2
  <2> QED BY <2>1, <2>2 DEF From
<1> QED BY <1>1, <1>2

-----------------------------------------------------------------------------
(***************************************************************************)
(* Sync.  Between its queries a reader holds the end of a snapshot and     *)
(* then entries that follow it; both stay true of the log because entries  *)
(* are never rewritten.  The position after the snapshot must not wrap, so *)
(* logs are a little shorter than ShortLogs asks.                          *)
(***************************************************************************)
ReadableLogs == Memory \/ \A c \in Chats : \A s \in DOMAIN rows[c] : s + 1 < SignBit

After1(sn) == IF sn = None THEN 0 ELSE sn.ToSequence + 1

SnapEnds(log, sn) ==
    sn # None => sn.ToSequence \in DOMAIN log /\ sn.LastEntryHash = log[sn.ToSequence].EntryHash

\* The entries new are those of the log from a position on, up to some end.
Follows(log, sn, new) ==
    /\ SnapEnds(log, sn)
    /\ \E n \in Nat : /\ After1(sn) <= n /\ 0 .. n - 1 \subseteq DOMAIN log
                      /\ new = From(log, After1(sn), n)

SyncAsks(r) ==
    /\ At(r, "syncEntries") =>
          query[r].Chat \in Chats /\ SnapEnds(rows[query[r].Chat], query[r].Snap)
    /\ At(r, "syncTip") =>
          /\ query[r].Chat \in Chats
          /\ Follows(rows[query[r].Chat], query[r].Snap, query[r].Entries)

SyncTells(r) ==
    Tells(r, "sync") =>
        LET log == rows[answer[r].Chat]
        IN  /\ answer[r].Chat \in Chats
            /\ Follows(log, answer[r].Snapshot, answer[r].NewEntries)
            /\ answer[r].CurrentHash = IF IsEmpty(log) THEN GenesisHash ELSE Latest(log).EntryHash

SyncInv == \A r \in Readers : SyncAsks(r) /\ SyncTells(r)

\* Entries that follow a snapshot still do when the log has grown.
LEMMA FollowsStable ==
    ASSUME IInv, RowsExtend, NEW c \in Chats, NEW sn, NEW new, Follows(rows[c], sn, new)
    PROVE  Follows(rows'[c], sn, new)
<1>1. SnapEnds(rows'[c], sn)
  BY DEF Follows, SnapEnds, RowsExtend, IsRestriction
<1>2. PICK n \in Nat : /\ After1(sn) <= n /\ 0 .. n - 1 \subseteq DOMAIN rows[c]
                       /\ new = From(rows[c], After1(sn), n)
  BY DEF Follows
<1>3. DOMAIN rows[c] \subseteq DOMAIN rows'[c] /\ \A s \in DOMAIN rows[c] : rows'[c][s] = rows[c][s]
  BY DEF RowsExtend, IsRestriction
<1>4. After1(sn) \in Nat
  BY DEF After1, Follows, SnapEnds, IInv, TypeOK
<1>5. \A a \in Nat : \A i \in 1 .. n - a : a + i - 1 \in 0 .. n - 1
  OBVIOUS
<1>6. From(rows'[c], After1(sn), n) = From(rows[c], After1(sn), n)
  BY <1>2, <1>3, <1>4, <1>5 DEF From
<1> QED BY <1>1, <1>2, <1>3, <1>6 DEF Follows

(***************************************************************************)
(* The entries SyncEntries reads follow the snapshot (log.go Sync).        *)
(***************************************************************************)
LEMMA ReadsFollow ==
    ASSUME IInv, ReadableLogs, NEW c \in Chats, NEW sn, SnapEnds(rows[c], sn)
    PROVE  Follows(rows[c], sn, EntriesSince(rows[c], After1(sn)))
<1>1. PICK n \in Nat : DOMAIN rows[c] = 0 .. n - 1
  BY DEF IInv, Chained, ChainOfLength
<1>2. After1(sn) \in Nat /\ After1(sn) <= n
  <2>1. CASE sn = None
    BY <2>1 DEF After1
  <2>2. CASE sn # None
    <3>1. sn.ToSequence \in 0 .. n - 1
      BY <1>1, <2>2 DEF SnapEnds
    <3> QED BY <2>2, <3>1 DEF After1
  <2> QED BY <2>1, <2>2
<1>3. Memory \/ After1(sn) < SignBit
  <2>1. CASE sn = None
    BY <2>1, SignBitAssumption DEF After1
  <2>2. CASE sn # None
    BY <2>2 DEF After1, SnapEnds, ReadableLogs
  <2> QED BY <2>1, <2>2
<1>4. EntriesSince(rows[c], After1(sn)) = From(rows[c], After1(sn), n)
  BY <1>1, <1>2, <1>3, EntriesFrom
<1> QED BY <1>1, <1>2, <1>4 DEF Follows

(***************************************************************************)
(* The latest snapshot, if there is one, ends in the log.                  *)
(***************************************************************************)
LEMMA LatestEnds ==
    ASSUME NEW log, NEW table, TableEnds(log, table), ~ IsEmpty(table)
    PROVE  SnapEnds(log, Latest(table))
<1>1. PICK m \in Nat : DOMAIN table = 0 .. m - 1
  BY DEF TableEnds
<1>2. m # 0 /\ m - 1 \in DOMAIN table
  BY <1>1 DEF IsEmpty
<1>3. Latest(table) = table[m - 1]
  BY <1>1, <1>2, MaxOfInterval, SizeOfInterval DEF Latest, SliceLast, SliceLen, RowLast
<1> QED BY <1>2, <1>3 DEF TableEnds, Ends, SnapEnds

\* A step of a reader keeps what Sync knows between its queries.
LEMMA SyncStep ==
    ASSUME Queried, IInv, EndInv, ReadableLogs, NEW r \in Readers, SyncAsks(r), ReadBy(r)
    PROVE  SyncAsks(r)' /\ SyncTells(r)'
<1>1. ASSUME NEW c \in Chats, SyncSnapshot(r, c) PROVE SyncAsks(r)' /\ SyncTells(r)'
  <2> DEFINE sn == IF IsEmpty(snaps[c]) THEN None ELSE Latest(snaps[c])
  <2>1. /\ query'[r] = [Op |-> "syncEntries", Chat |-> c, Snap |-> sn]
        /\ answer'[r] = None /\ UNCHANGED vars
    BY <1>1 DEF SyncSnapshot, Begin, NoAnswer, Queried
  <2>2. SnapEnds(rows[c], sn)
    BY LatestEnds DEF EndInv, SnapEnds
  <2> HIDE DEF sn
  <2>3. query'[r].Op = "syncEntries" /\ query'[r].Chat = c /\ query'[r].Snap = sn
    BY <2>1
  <2> QED BY <2>1, <2>2, <2>3 DEF SyncAsks, SyncTells, At, Tells, vars
<1>2. ASSUME SyncEntries(r) PROVE SyncAsks(r)' /\ SyncTells(r)'
  <2> DEFINE q == query[r]
             new == EntriesSince(rows[q.Chat], After1(q.Snap))
  <2>1. /\ query'[r] = [Op |-> "syncTip", Chat |-> q.Chat, Snap |-> q.Snap, Entries |-> new]
        /\ answer'[r] = None /\ UNCHANGED vars
    BY <1>2 DEF SyncEntries, Continue, NoAnswer, Queried, After1
  <2>2. q.Chat \in Chats /\ SnapEnds(rows[q.Chat], q.Snap)
    BY <1>2 DEF SyncEntries, SyncAsks
  <2>3. Follows(rows[q.Chat], q.Snap, new)
    BY <2>2, ReadsFollow
  <2>4. /\ query'[r].Op = "syncTip" /\ query'[r].Chat = q.Chat /\ query'[r].Snap = q.Snap
        /\ query'[r].Entries = new
    BY <2>1
  <2> QED BY <2>1, <2>2, <2>3, <2>4 DEF SyncAsks, SyncTells, At, Tells, vars
<1>3. ASSUME SyncTip(r) PROVE SyncAsks(r)' /\ SyncTells(r)'
  <2> DEFINE q == query[r]
             log == rows[q.Chat]
             tip == IF IsEmpty(log) THEN GenesisHash ELSE Latest(log).EntryHash
  <2>1. /\ answer'[r] = [Op |-> "sync", Chat |-> q.Chat, Status |-> 200, Snapshot |-> q.Snap,
                         NewEntries |-> q.Entries, CurrentHash |-> tip]
        /\ query'[r] = None /\ UNCHANGED vars
    BY <1>3 DEF SyncTip, Answer, Queried
  <2>2. q.Chat \in Chats /\ Follows(log, q.Snap, q.Entries)
    BY <1>3 DEF SyncTip, SyncAsks
  <2> HIDE DEF tip
  <2>3. /\ answer'[r].Chat = q.Chat /\ answer'[r].Snapshot = q.Snap
        /\ answer'[r].NewEntries = q.Entries /\ answer'[r].CurrentHash = tip
    BY <2>1
  <2> QED BY <2>1, <2>2, <2>3 DEF SyncAsks, SyncTells, At, Tells, vars, tip, Latest, Memory
<1>4. ASSUME ~ At(r, "syncEntries")', ~ At(r, "syncTip")', ~ Tells(r, "sync")'
      PROVE  SyncAsks(r)' /\ SyncTells(r)'
  BY <1>4 DEF SyncAsks, SyncTells
<1> QED BY <1>1, <1>2, <1>3, <1>4, LastQuery

\* So does a step of anybody else.
LEMMA KeepSync ==
    ASSUME IInv, RowsExtend, NEW q \in Readers, SyncAsks(q), query'[q] = query[q]
    PROVE  SyncAsks(q)'
<1>1. ASSUME At(q, "syncEntries")
      PROVE  query[q].Chat \in Chats /\ SnapEnds(rows'[query[q].Chat], query[q].Snap)
  BY <1>1 DEF SyncAsks, SnapEnds, RowsExtend, IsRestriction
<1>2. ASSUME At(q, "syncTip")
      PROVE  /\ query[q].Chat \in Chats
             /\ Follows(rows'[query[q].Chat], query[q].Snap, query[q].Entries)
  BY <1>2, FollowsStable DEF SyncAsks
<1> QED BY <1>1, <1>2 DEF SyncAsks, At

\* The invariant of Sync, for every step.
LEMMA NextSync ==
    Queried /\ IInv /\ EndInv /\ ReadableLogs /\ SyncInv /\ [AllNext]_allVars => SyncInv'
<1> SUFFICES ASSUME Queried, IInv, EndInv, ReadableLogs, SyncInv, [AllNext]_allVars,
                    NEW q \in Readers
             PROVE  SyncAsks(q)' /\ SyncTells(q)'
  BY DEF SyncInv
<1>0. [Next]_vars /\ RowsExtend /\ SyncAsks(q) /\ SyncTells(q)
  BY AllSplit, StepExtends DEF SyncInv
<1>1. CASE UNCHANGED <<vars, readVars>>
  BY <1>0, <1>1 DEF vars, readVars, SyncAsks, SyncTells, At, Tells
<1>2. CASE Next /\ NoAnswer /\ UNCHANGED query
  <2>1. query'[q] = query[q] /\ answer'[q] = None
    BY <1>2 DEF NoAnswer
  <2> QED BY <1>0, <2>1, KeepSync DEF SyncTells, Tells
<1>3. ASSUME NEW r \in Readers, ReadBy(r), NEW op, NEW told, Puts(r, op, told)
      PROVE  SyncAsks(q)' /\ SyncTells(q)'
  <2>1. CASE q = r
    BY <1>0, <1>3, <2>1, SyncStep
  <2>2. CASE q # r
    <3>1. query'[q] = query[q] /\ answer'[q] = None
      BY <1>3, <2>2 DEF Puts
    <3> QED BY <1>0, <3>1, KeepSync DEF SyncTells, Tells
  <2> QED BY <2>1, <2>2
<1> QED BY <1>1, <1>2, <1>3, AllSplit

(***************************************************************************)
(* What the write path keeps, on any number of nodes.                      *)
(***************************************************************************)
LEMMA WritesKeep == Spec => [](IInv /\ AckInv /\ MutexInv /\ EndInv)
<1>1. Init => AckInv /\ MutexInv /\ EndInv
  <2> SUFFICES ASSUME Init PROVE AckInv /\ MutexInv /\ EndInv
    OBVIOUS
  <2>1. AckInv /\ MutexInv
    BY DEF Init, AckInv, ProcAck, Unanswered, Built, Holding, Labels, MutexInv
  <2>2. ASSUME NEW c \in Chats PROVE TableEnds(rows[c], snaps[c])
    <3>1. DOMAIN snaps[c] = {} /\ {} = 0 .. 0 - 1
      BY DEF Init, EmptyTable
    <3> QED BY <3>1 DEF TableEnds
  <2> QED BY <2>1, <2>2 DEF Init, EndInv, ProcEnds, InWindow
<1>2. IInv /\ AckInv /\ MutexInv /\ EndInv /\ [Next]_vars => (AckInv /\ MutexInv /\ EndInv)'
  BY StepExtends, NextAck, NextMutex, NextEnds
<1> QED BY <1>1, <1>2, IInvHolds, PTL DEF Spec

\* The invariant of Sync holds.
LEMMA SyncInvHolds == AllSpec /\ []ReadableLogs => [](IInv /\ SyncInv)
<1>1. AllInit => SyncInv
  BY DEF AllInit, ReadInit, SyncInv, SyncAsks, SyncTells, At, Tells
<1>2. Queried /\ IInv /\ EndInv /\ ReadableLogs /\ SyncInv /\ [AllNext]_allVars => SyncInv'
  BY NextSync
<1> QED BY <1>1, <1>2, AllIsSpec, WritesKeep, PTL DEF AllSpec

(***************************************************************************)
(* A sync bundle is never ahead of its current_hash, whatever is appended  *)
(* and snapshotted while it is read, on any number of nodes and whatever   *)
(* fails (log.go Sync).                                                    *)
(***************************************************************************)
THEOREM SyncNotAheadHolds == AllSpec /\ []ReadableLogs => []SyncNotAhead
<1>1. IInv /\ SyncInv => SyncNotAhead
  <2> SUFFICES ASSUME IInv, SyncInv, NEW r \in Readers, Answered(r, "sync", 200)
               PROVE  LET a     == answer[r]
                          first == IF a.Snapshot = None THEN 0 ELSE a.Snapshot.ToSequence + 1
                          next  == first + Len(a.NewEntries)
                      IN  \/ next = 0 /\ a.CurrentHash = GenesisHash
                          \/ \E s \in DOMAIN rows[a.Chat] :
                                s + 1 >= next /\ rows[a.Chat][s].EntryHash = a.CurrentHash
    BY DEF SyncNotAhead
  <2> DEFINE a == answer[r]
             log == rows[a.Chat]
             first == After1(a.Snapshot)
  <2>1. /\ a.Chat \in Chats /\ Follows(log, a.Snapshot, a.NewEntries)
        /\ a.CurrentHash = IF IsEmpty(log) THEN GenesisHash ELSE Latest(log).EntryHash
    BY DEF SyncInv, SyncTells, Answered, Tells
  <2>2. PICK n \in Nat : /\ first <= n /\ 0 .. n - 1 \subseteq DOMAIN log
                         /\ a.NewEntries = From(log, first, n)
    BY <2>1 DEF Follows
  <2>3. PICK m \in Nat : DOMAIN log = 0 .. m - 1
    BY <2>1 DEF IInv, Chained, ChainOfLength
  <2>4. first \in Nat
    BY <2>1, <2>3 DEF After1, Follows, SnapEnds
  <2>5. Len(a.NewEntries) = n - first
    <3> HIDE DEF first
    <3>1. n - first \in Nat
      BY <2>2, <2>4
    <3>2. DOMAIN a.NewEntries = 1 .. n - first
      BY <2>2 DEF From
    <3>3. Len(From(log, first, n)) = n - first
      BY <3>1 DEF From
    <3> QED BY <2>2, <3>3
  <2>6. first + Len(a.NewEntries) = n
    <3> HIDE DEF first
    <3> QED BY <2>4, <2>5
  <2>7. n <= m
    BY <2>2, <2>3
  <2>8. CASE m = 0
    <3>1. IsEmpty(log) /\ n = 0
      BY <2>3, <2>7, <2>8 DEF IsEmpty
    <3> QED BY <2>1, <2>6, <3>1 DEF After1
  <2>9. CASE m # 0
    <3>1. ~ IsEmpty(log) /\ m - 1 \in DOMAIN log
      BY <2>3, <2>9 DEF IsEmpty
    <3>2. Latest(log) = log[m - 1]
      BY <2>3, <2>9, MaxOfInterval, SizeOfInterval DEF Latest, SliceLast, SliceLen, RowLast
    <3>3. log[m - 1].EntryHash = a.CurrentHash
      BY <2>1, <3>1, <3>2
    <3>4. (m - 1) + 1 >= n
      BY <2>7
    <3> QED BY <2>6, <3>1, <3>3, <3>4 DEF After1
  <2> QED BY <2>8, <2>9
<1> QED BY <1>1, SyncInvHolds, PTL

-----------------------------------------------------------------------------
(***************************************************************************)
(* What Verify checks holds of every stored entry (log.go Verify).         *)
(***************************************************************************)
PrevOf(log, s) == IF s = 0 THEN GenesisHash ELSE log[s - 1].EntryHash

\* A stored row passes the checks of Verify and of VerifyEntry.
LEMMA StoredIntact ==
    ASSUME IInv, AuthInv, NEW c \in Chats, NEW s \in DOMAIN rows[c]
    PROVE  /\ EntryIntact(rows[c][s], s, PrevOf(rows[c], s))
           /\ SelfIntact(rows[c][s]) /\ EntryVerifies(rows[c][s], PrevOf(rows[c], s))
<1>1. PICK n \in Nat : ChainOfLength(rows[c], n)
  BY DEF IInv, Chained
<1>2. LinkedAt(rows[c], s, rows[c][s])
  BY <1>1 DEF ChainOfLength
<1>3. Authentic(c, rows[c][s].Message) /\ Hashed(rows[c][s])
  BY DEF AuthInv
<1> QED BY <1>2, <1>3
        DEF LinkedAt, Authentic, Hashed, EntryIntact, SelfIntact, EntryVerifies, PrevOf

\* Rows are authentic at every step.
LEMMA AuthInvHolds == ASSUME SignsItsBody, Aligned PROVE Spec => []AuthInv
<1>1. Init => AuthInv
  BY DEF Init, AuthInv, EmptyTable, Built, Holding
<1>2. IInv /\ AuthInv /\ [Next]_vars => AuthInv'
  BY NextAuth
<1> QED BY <1>1, <1>2, IInvHolds, PTL DEF Spec

(***************************************************************************)
(* A sync bundle can be replayed from its snapshot, whatever is appended   *)
(* and snapshotted while it is read, on any number of nodes and whatever   *)
(* fails, for clients that sign what they post (log.go Sync).              *)
(***************************************************************************)
THEOREM SyncReplaysHolds ==
    ASSUME SignsItsBody, Aligned
    PROVE  AllSpec /\ []ReadableLogs => []SyncReplays
<1>1. IInv /\ AuthInv /\ SyncInv => SyncReplays
  <2> SUFFICES ASSUME IInv, AuthInv, SyncInv, NEW r \in Readers, Answered(r, "sync", 200),
                      NEW i \in DOMAIN answer[r].NewEntries
               PROVE  LET sn    == answer[r].Snapshot
                          new   == answer[r].NewEntries
                          first == IF sn = None THEN 0 ELSE sn.ToSequence + 1
                          base  == IF sn = None THEN GenesisHash ELSE sn.LastEntryHash
                      IN  EntryIntact(new[i], first + i - 1,
                                      IF i = 1 THEN base ELSE new[i - 1].EntryHash)
    BY DEF SyncReplays
  <2> DEFINE a == answer[r]
             sn == a.Snapshot
             new == a.NewEntries
             log == rows[a.Chat]
             first == After1(sn)
             base == IF sn = None THEN GenesisHash ELSE sn.LastEntryHash
             s == first + i - 1
  <2>1. a.Chat \in Chats /\ Follows(log, sn, new)
    BY DEF SyncInv, SyncTells, Answered, Tells
  <2>2. PICK n \in Nat : /\ first <= n /\ 0 .. n - 1 \subseteq DOMAIN log
                         /\ new = From(log, first, n)
    BY <2>1 DEF Follows
  <2>3. first \in Nat
    BY <2>1 DEF After1, Follows, SnapEnds, IInv, TypeOK
  <2>4. /\ i \in 1 .. n - first /\ new[i] = log[s]
        /\ i # 1 => i - 1 \in 1 .. n - first /\ new[i - 1] = log[s - 1]
    <3> HIDE DEF first
    <3>1. DOMAIN new = 1 .. n - first
      BY <2>2 DEF From
    <3>2. i \in 1 .. n - first
      BY <3>1
    <3>3. new[i] = log[s]
      BY <2>2, <3>2 DEF From
    <3>4. i # 1 => i - 1 \in 1 .. n - first /\ first + (i - 1) - 1 = s - 1
      BY <2>3, <3>2
    <3> HIDE DEF s
    <3>5. i # 1 => new[i - 1] = log[s - 1]
      BY <2>2, <3>4 DEF From
    <3> QED BY <3>2, <3>3, <3>4, <3>5
  <2>5. s \in DOMAIN log /\ s \in Nat /\ (i # 1 => s # 0) /\ (i = 1 => s = first)
    <3> HIDE DEF first
    <3> QED BY <2>2, <2>3, <2>4
  <2>6. PrevOf(log, s) = IF i = 1 THEN base ELSE new[i - 1].EntryHash
    <3>1. CASE i # 1
      <4> HIDE DEF s
      <4> QED BY <2>4, <2>5, <3>1 DEF PrevOf
    <3>2. CASE i = 1 /\ sn = None
      BY <2>5, <3>2 DEF After1, PrevOf
    <3>3. CASE i = 1 /\ sn # None
      <4>1. s = sn.ToSequence + 1 /\ sn.ToSequence \in Nat
        BY <2>1, <2>5, <3>3 DEF After1, Follows, SnapEnds, IInv, TypeOK
      <4>2. sn.LastEntryHash = log[sn.ToSequence].EntryHash
        BY <2>1, <3>3 DEF Follows, SnapEnds
      <4> HIDE DEF s
      <4>3. s # 0 /\ s - 1 = sn.ToSequence
        BY <4>1
      <4> QED BY <3>3, <4>2, <4>3 DEF PrevOf
    <3> QED BY <3>1, <3>2, <3>3
  <2>7. EntryIntact(log[s], s, PrevOf(log, s))
    <3> HIDE DEF s
    <3> QED BY <2>1, <2>5, StoredIntact
  <2> HIDE DEF base
  <2>8. EntryIntact(new[i], s, IF i = 1 THEN base ELSE new[i - 1].EntryHash)
    BY <2>4, <2>6, <2>7
  <2> QED BY <2>8 DEF base, After1
<1> QED BY <1>1, SyncInvHolds, AuthInvHolds, AllIsSpec, PTL

-----------------------------------------------------------------------------
(***************************************************************************)
(* The integrity checks.                                                   *)
(***************************************************************************)
VerifyAsks(r) ==
    At(r, "verifyPrev") =>
        LET q == query[r]
        IN  /\ q.Chat \in Chats /\ q.Seq \in DOMAIN rows[q.Chat] /\ q.Seq # 0
            /\ q.Entry = rows[q.Chat][q.Seq]

VerifyTells(r) ==
    /\ Answered(r, "verify", 200) => answer[r].Valid
    /\ Answered(r, "verifyEntry", 200) => answer[r].Valid
    /\ Answered(r, "verifyEntry", 404) => ~ answer[r].Present
    /\ Answered(r, "message", 404) =>
          answer[r].Chat \in Chats /\ answer[r].Seq \notin DOMAIN rows[answer[r].Chat]

VerifyInv == \A r \in Readers : VerifyAsks(r) /\ VerifyTells(r)

\* A position is found when it is stored (storage.go and scylla.go Entry).
LEMMA HasIffStored ==
    ASSUME IInv, ReadableLogs, NEW c \in Chats, NEW s \in Positions(c)
    PROVE  s \in Nat /\ (Has(rows[c], s) <=> s \in DOMAIN rows[c])
<1>1. PICK n \in Nat : DOMAIN rows[c] = 0 .. n - 1
  BY DEF IInv, Chained, ChainOfLength
<1>2. Cardinality(DOMAIN rows[c]) = n
  BY <1>1, SizeOfInterval
<1>3. s \in 0 .. n
  BY <1>2 DEF Positions
<1>4. ~ Memory => n < SignBit
  <2>1. CASE n = 0
    BY <2>1, SignBitAssumption
  <2>2. CASE n # 0
    <3>1. n - 1 \in DOMAIN rows[c] /\ (n - 1) + 1 = n
      BY <1>1, <2>2
    <3> QED BY <3>1 DEF ReadableLogs
  <2> QED BY <2>1, <2>2
<1>5. CASE Memory
  BY <1>1, <1>2, <1>3, <1>5 DEF Has, SliceHas, SliceLen
<1>6. CASE ~ Memory
  <2>1. Int64(s) = s
    BY <1>3, <1>4, <1>6, SignBitAssumption DEF Int64
  <2> QED BY <1>3, <1>6, <2>1 DEF Has, RowHas
<1> QED BY <1>5, <1>6

\* The whole log, read at once, passes Verify.
LEMMA VerifyWhole ==
    ASSUME IInv, AuthInv, NEW c \in Chats
    PROVE  LogIntact(EntriesSince(rows[c], 0))
<1>1. PICK n \in Nat : DOMAIN rows[c] = 0 .. n - 1
  BY DEF IInv, Chained, ChainOfLength
<1> DEFINE all == EntriesSince(rows[c], 0)
<1>2. all = From(rows[c], 0, n)
  BY <1>1, SignBitAssumption, EntriesFrom
<1>3. DOMAIN all = 1 .. n /\ \A i \in 1 .. n : all[i] = rows[c][i - 1]
  BY <1>2 DEF From
<1> HIDE DEF all
<1> SUFFICES ASSUME NEW i \in 1 .. n PROVE EntryIntact(all[i], i - 1, PrevHashAt(all, i))
  BY <1>3 DEF LogIntact, all
<1>4. i - 1 \in DOMAIN rows[c] /\ all[i] = rows[c][i - 1]
  BY <1>1, <1>3
<1>5. PrevHashAt(all, i) = PrevOf(rows[c], i - 1)
  <2>1. CASE i = 1
    BY <2>1 DEF PrevHashAt, PrevOf
  <2>2. CASE i # 1
    <3>1. i - 1 \in 1 .. n /\ all[i - 1] = rows[c][(i - 1) - 1] /\ i - 1 # 0
      BY <1>3, <2>2
    <3> QED BY <2>2, <3>1 DEF PrevHashAt, PrevOf
  <2> QED BY <2>1, <2>2
<1> QED BY <1>4, <1>5, StoredIntact

\* A step of a reader keeps what the integrity checks know between their queries.
LEMMA VerifyStep ==
    ASSUME Queried, IInv, AuthInv, ReadableLogs, NEW r \in Readers, VerifyAsks(r), ReadBy(r)
    PROVE  VerifyAsks(r)' /\ VerifyTells(r)'
<1>1. ASSUME NEW c \in Chats, Verify(r, c) PROVE VerifyAsks(r)' /\ VerifyTells(r)'
  <2> DEFINE valid == LogIntact(EntriesSince(rows[c], 0))
  <2>1. /\ answer'[r] = [Op |-> "verify", Chat |-> c, Status |-> 200, Valid |-> valid]
        /\ query'[r] = None
    BY <1>1 DEF Verify, Answer, Queried
  <2>2. valid = TRUE
    BY VerifyWhole
  <2> HIDE DEF valid
  <2>3. answer'[r].Op = "verify" /\ answer'[r].Valid = TRUE
    BY <2>1, <2>2
  <2> QED BY <2>1, <2>3 DEF VerifyAsks, VerifyTells, At, Answered
<1>2. ASSUME NEW c \in Chats, NEW s \in Positions(c), Message(r, c, s)
      PROVE  VerifyAsks(r)' /\ VerifyTells(r)'
  <2> DEFINE found == Has(rows[c], s)
  <2>1. /\ answer'[r] = [Op |-> "message", Chat |-> c, Seq |-> s,
                         Status |-> IF found THEN 200 ELSE 404,
                         Entry |-> IF found THEN rows[c][s] ELSE None]
        /\ query'[r] = None /\ rows' = rows
    BY <1>2 DEF Message, Answer, Queried, vars
  <2>2. found <=> s \in DOMAIN rows[c]
    BY HasIffStored
  <2> HIDE DEF found
  <2>3. /\ answer'[r].Op = "message" /\ answer'[r].Chat = c /\ answer'[r].Seq = s
        /\ answer'[r].Status = IF found THEN 200 ELSE 404
    BY <2>1
  <2> QED BY <2>1, <2>2, <2>3 DEF VerifyAsks, VerifyTells, At, Answered
<1>3. ASSUME NEW c \in Chats, NEW s \in Positions(c), VerifyEntry(r, c, s)
      PROVE  VerifyAsks(r)' /\ VerifyTells(r)'
  <2>1. s \in Nat /\ (Has(rows[c], s) <=> s \in DOMAIN rows[c])
    BY HasIffStored
  <2>2. CASE ~ Has(rows[c], s)
    <3>1. /\ answer'[r] = [Op |-> "verifyEntry", Chat |-> c, Seq |-> s, Status |-> 404,
                           Present |-> FALSE]
          /\ query'[r] = None
      BY <1>3, <2>2 DEF VerifyEntry, Answer, Queried
    <3>2. answer'[r].Op = "verifyEntry" /\ answer'[r].Status = 404 /\ answer'[r].Present = FALSE
      BY <3>1
    <3> QED BY <3>1, <3>2 DEF VerifyAsks, VerifyTells, At, Answered
  <2>3. CASE Has(rows[c], s) /\ s # 0
    <3>1. SelfIntact(rows[c][s]) /\ s > 0
      BY <2>1, <2>3, StoredIntact
    <3>2. Begin(r, [Op |-> "verifyPrev", Chat |-> c, Seq |-> s, Entry |-> rows[c][s]])
      BY <1>3, <2>3, <3>1 DEF VerifyEntry
    <3>3. /\ query'[r] = [Op |-> "verifyPrev", Chat |-> c, Seq |-> s, Entry |-> rows[c][s]]
          /\ answer'[r] = None /\ rows' = rows
      BY <3>2 DEF Begin, NoAnswer, Queried, vars
    <3>4. query'[r].Chat = c /\ query'[r].Seq = s /\ query'[r].Entry = rows[c][s]
      BY <3>3
    <3> QED BY <2>1, <2>3, <3>3, <3>4 DEF VerifyAsks, VerifyTells, Answered
  <2>4. CASE Has(rows[c], s) /\ s = 0
    <3> DEFINE valid == EntryVerifies(rows[c][s], GenesisHash)
    <3>1. /\ answer'[r] = [Op |-> "verifyEntry", Chat |-> c, Seq |-> s, Status |-> 200,
                           Valid |-> valid]
          /\ query'[r] = None
      <4>1. ~ (SelfIntact(rows[c][s]) /\ s > 0)
        BY <2>4
      <4>2. Answer(r, [Op |-> "verifyEntry", Chat |-> c, Seq |-> s, Status |-> 200,
                       Valid |-> valid])
        BY <1>3, <2>4, <4>1 DEF VerifyEntry
      <4> HIDE DEF valid
      <4> QED BY <4>2 DEF Answer, Queried
    <3>2. valid = TRUE
      BY <2>1, <2>4, StoredIntact DEF PrevOf, EntryVerifies, SelfIntact
    <3> HIDE DEF valid
    <3>3. answer'[r].Op = "verifyEntry" /\ answer'[r].Status = 200 /\ answer'[r].Valid = TRUE
      BY <3>1, <3>2
    <3> QED BY <3>1, <3>3 DEF VerifyAsks, VerifyTells, At, Answered
  <2> QED BY <2>2, <2>3, <2>4
<1>4. ASSUME VerifyPrev(r) PROVE VerifyAsks(r)' /\ VerifyTells(r)'
  <2> DEFINE q == query[r]
             prev == q.Seq - 1
             found == Has(rows[q.Chat], prev)
             valid == EntryVerifies(q.Entry, rows[q.Chat][prev].EntryHash)
             status == IF found THEN 200 ELSE 404
             sound == found /\ valid
  <2>1. /\ answer'[r] = [Op |-> "verifyEntry", Chat |-> q.Chat, Seq |-> q.Seq, Present |-> TRUE,
                         Status |-> status, Valid |-> sound]
        /\ query'[r] = None
    BY <1>4 DEF VerifyPrev, Answer, Queried
  <2>2. /\ q.Chat \in Chats /\ q.Seq \in DOMAIN rows[q.Chat] /\ q.Seq # 0
        /\ q.Entry = rows[q.Chat][q.Seq]
    BY <1>4 DEF VerifyAsks, VerifyPrev
  <2>3. PICK n \in Nat : DOMAIN rows[q.Chat] = 0 .. n - 1
    BY <2>2 DEF IInv, Chained, ChainOfLength
  <2>4. \A s \in 0 .. n - 1 : s # 0 => s - 1 \in 0 .. n - 1 /\ s - 1 \in 0 .. n
    OBVIOUS
  <2>5. prev \in DOMAIN rows[q.Chat] /\ prev \in Positions(q.Chat)
    BY <2>2, <2>3, <2>4, SizeOfInterval DEF Positions
  <2>6. found
    <3> HIDE DEF prev
    <3> QED BY <2>2, <2>5, HasIffStored
  <2>7. valid
    BY <2>2, StoredIntact DEF PrevOf
  <2>8. sound = TRUE /\ status = 200
    BY <2>6, <2>7
  <2> HIDE DEF sound, status
  <2>9. answer'[r].Op = "verifyEntry" /\ answer'[r].Status = 200 /\ answer'[r].Valid = TRUE
    BY <2>1, <2>8
  <2> QED BY <2>1, <2>9 DEF VerifyAsks, VerifyTells, At, Answered
<1>5. ASSUME ~ At(r, "verifyPrev")', ~ Tells(r, "verify")', ~ Tells(r, "verifyEntry")',
             ~ Tells(r, "message")'
      PROVE  VerifyAsks(r)' /\ VerifyTells(r)'
  BY <1>5 DEF VerifyAsks, VerifyTells, Answered, Tells
<1> QED BY <1>1, <1>2, <1>3, <1>4, <1>5, LastQuery

\* So does a step of anybody else.
LEMMA KeepVerify ==
    ASSUME IInv, RowsExtend, NEW q \in Readers, VerifyAsks(q), query'[q] = query[q]
    PROVE  VerifyAsks(q)'
BY DEF VerifyAsks, At, RowsExtend, IsRestriction

\* The invariant of the integrity checks, for every step.
LEMMA NextVerify ==
    Queried /\ IInv /\ AuthInv /\ ReadableLogs /\ VerifyInv /\ [AllNext]_allVars => VerifyInv'
<1> SUFFICES ASSUME Queried, IInv, AuthInv, ReadableLogs, VerifyInv, [AllNext]_allVars,
                    NEW q \in Readers
             PROVE  VerifyAsks(q)' /\ VerifyTells(q)'
  BY DEF VerifyInv
<1>0. [Next]_vars /\ RowsExtend /\ VerifyAsks(q) /\ VerifyTells(q)
  BY AllSplit, StepExtends DEF VerifyInv
<1>1. CASE UNCHANGED <<vars, readVars>>
  BY <1>0, <1>1 DEF vars, readVars, VerifyAsks, VerifyTells, At, Answered
<1>2. CASE Next /\ NoAnswer /\ UNCHANGED query
  <2>1. query'[q] = query[q] /\ answer'[q] = None
    BY <1>2 DEF NoAnswer
  <2> QED BY <1>0, <2>1, KeepVerify DEF VerifyTells, Answered
<1>3. ASSUME NEW r \in Readers, ReadBy(r), NEW op, NEW told, Puts(r, op, told)
      PROVE  VerifyAsks(q)' /\ VerifyTells(q)'
  <2>1. CASE q = r
    BY <1>0, <1>3, <2>1, VerifyStep
  <2>2. CASE q # r
    <3>1. query'[q] = query[q] /\ answer'[q] = None
      BY <1>3, <2>2 DEF Puts
    <3> QED BY <1>0, <3>1, KeepVerify DEF VerifyTells, Answered
  <2> QED BY <2>1, <2>2
<1> QED BY <1>1, <1>2, <1>3, AllSplit

(***************************************************************************)
(* No false alarm, whatever is appended between the queries of a check, on *)
(* any number of nodes and whatever fails, for clients that sign what they *)
(* post (log.go Verify, VerifyEntry, Entry).                               *)
(***************************************************************************)
THEOREM NoFalseAlarmHolds ==
    ASSUME SignsItsBody, Aligned
    PROVE  AllSpec /\ []ReadableLogs => []NoFalseAlarm
<1>1. AllInit => VerifyInv
  BY DEF AllInit, ReadInit, VerifyInv, VerifyAsks, VerifyTells, At, Answered
<1>2. Queried /\ IInv /\ AuthInv /\ ReadableLogs /\ VerifyInv /\ [AllNext]_allVars => VerifyInv'
  BY NextVerify
<1>3. VerifyInv /\ AckInv /\ EventsBacked => NoFalseAlarm
  <2> SUFFICES ASSUME VerifyInv, AckInv, EventsBacked, NEW r \in Readers,
                      Answered(r, "message", 404)
               PROVE  /\ \A i \in DOMAIN published[answer[r].Chat] :
                             published[answer[r].Chat][i].Sequence # answer[r].Seq
                      /\ \A p \in Procs : response[p].Status = 201 =>
                             LET e == response[p].Entry
                             IN  <<e.Message.ChatID, e.Sequence>> # <<answer[r].Chat, answer[r].Seq>>
    BY DEF NoFalseAlarm, VerifyInv, VerifyTells
  <2>1. answer[r].Chat \in Chats /\ answer[r].Seq \notin DOMAIN rows[answer[r].Chat]
    BY DEF VerifyInv, VerifyTells
  <2>2. \A i \in DOMAIN published[answer[r].Chat] :
           published[answer[r].Chat][i].Sequence # answer[r].Seq
    BY <2>1 DEF EventsBacked
  <2>3. ASSUME NEW p \in Procs, response[p].Status = 201
        PROVE  response[p].Entry.Message.ChatID # answer[r].Chat \/ response[p].Entry.Sequence # answer[r].Seq
    BY <2>1, <2>3 DEF AckInv, ProcAck
  <2> QED BY <2>2, <2>3
<1> QED BY <1>1, <1>2, <1>3, AllIsSpec, WritesKeep, AuthInvHolds, EventsHold, PTL DEF AllSpec

-----------------------------------------------------------------------------
(***************************************************************************)
(* Inclusion proofs, on one node whose store and cache do not fail: the    *)
(* division finds the snapshot that covers an entry because the snapshots  *)
(* tile the log, and the window read later still gives its root because    *)
(* entries are never rewritten.                                            *)
(***************************************************************************)
ProofAsks(r) ==
    (At(r, "proof") /\ query[r].WasCovered) =>
        LET q == query[r]
        IN  /\ q.Chat \in Chats /\ InRange(rows[q.Chat], q.Snap) /\ Sealed(rows[q.Chat], q.Snap)
            /\ q.Seq \in q.Snap.FromSequence .. q.Snap.ToSequence

ProofTells(r) == (Tells(r, "proof") /\ answer[r].WasCovered) => answer[r].Status = 200

ProofInv == \A r \in Readers : ProofAsks(r) /\ ProofTells(r)

(***************************************************************************)
(* The snapshot ProveInclusion asks for is the one that covers the entry.  *)
(***************************************************************************)
LEMMA IndexFinds ==
    ASSUME IInv, CoverInv, TileInv, RootInv, ReadableLogs, NEW c \in Chats,
           NEW s \in Positions(c), NEW j \in DOMAIN snaps[c],
           s \in snaps[c][j].FromSequence .. snaps[c][j].ToSequence
    PROVE  /\ SnapIndex(s) = j /\ Has(snaps[c], j)
           /\ InRange(rows[c], snaps[c][j]) /\ Sealed(rows[c], snaps[c][j])
<1>1. PICK n, m \in Nat : Tiles(rows[c], snaps[c], n, m)
  BY DEF TileInv, ChatTiled
<1>2. /\ DOMAIN rows[c] = 0 .. n - 1 /\ DOMAIN snaps[c] = 0 .. m - 1
      /\ snaps[c][j].FromSequence = j * SnapshotInterval
      /\ snaps[c][j].ToSequence = (j + 1) * SnapshotInterval - 1
  BY <1>1 DEF Tiles
<1>3. j \in Nat /\ j < m
  BY <1>2
<1>4. s \in Nat
  <2>1. Cardinality(DOMAIN rows[c]) = n
    BY <1>2, SizeOfInterval
  <2> QED BY <2>1 DEF Positions
<1>5. InRange(rows[c], snaps[c][j]) /\ Sealed(rows[c], snaps[c][j])
  BY DEF CoverInv, ChatSnaps, Fits, FitsIn, RootInv
<1>6. /\ j * SnapshotInterval \in Nat
      /\ (j + 1) * SnapshotInterval = j * SnapshotInterval + SnapshotInterval
  BY <1>3, IntervalAssumption
<1>7. j * SnapshotInterval <= s /\ s < j * SnapshotInterval + SnapshotInterval
  <2>1. \A a \in Nat : s \in a .. (a + SnapshotInterval) - 1 => a <= s /\ s < a + SnapshotInterval
    BY <1>4, IntervalAssumption
  <2> QED BY <1>2, <1>6, <2>1
<1>8. SnapIndex(s) = j
  BY <1>3, <1>4, <1>7, IntervalAssumption, QuotientOf DEF SnapIndex
<1>9. Has(snaps[c], j)
  <2>1. CASE Memory
    BY <1>2, <1>3, <2>1, SizeOfInterval DEF Has, SliceHas, SliceLen
  <2>2. CASE ~ Memory
    <3>1. snaps[c][j].ToSequence \in DOMAIN rows[c] /\ snaps[c][j].ToSequence \in Nat
      BY <1>5 DEF InRange
    <3>2. snaps[c][j].ToSequence + 1 < SignBit
      BY <2>2, <3>1 DEF ReadableLogs
    <3>3. j + 1 <= (j + 1) * SnapshotInterval
      <4>1. j * SnapshotInterval >= j
        <5>1. PICK b \in Nat : SnapshotInterval = b + 1
          <6>1. SnapshotInterval - 1 \in Nat /\ SnapshotInterval = (SnapshotInterval - 1) + 1
            BY IntervalAssumption
          <6> QED BY <6>1
        <5>2. j * (b + 1) = j * b + j /\ j * b \in Nat
          BY <1>3
        <5> QED BY <1>3, <5>1, <5>2
      <4> QED BY <1>3, <1>6, <4>1, IntervalAssumption
    <3>4. \A x \in Nat : j + 1 <= x /\ (x - 1) + 1 < SignBit => j < SignBit
      BY <1>3, SignBitAssumption
    <3>5. (j + 1) * SnapshotInterval \in Nat
      BY <1>6, IntervalAssumption
    <3>6. j < SignBit
      BY <1>2, <3>2, <3>3, <3>4, <3>5
    <3>7. Int64(j) = j
      BY <3>6 DEF Int64
    <3> QED BY <2>2, <3>7 DEF Has, RowHas
  <2> QED BY <2>1, <2>2
<1> QED BY <1>5, <1>8, <1>9

(***************************************************************************)
(* From a snapshot and the log it seals ProveInclusion makes a proof.      *)
(***************************************************************************)
LEMMA WindowProves ==
    ASSUME IInv, ReadableLogs, NEW c \in Chats, NEW sn, InRange(rows[c], sn), Sealed(rows[c], sn),
           NEW s \in sn.FromSequence .. sn.ToSequence
    PROVE  ProofAnswer(sn, EntriesSince(rows[c], sn.FromSequence), s).Status = 200
<1> DEFINE log == rows[c]
           from == sn.FromSequence
           to == sn.ToSequence
           window == EntriesSince(log, from)
           size == to + 1 - from
           leaves == [i \in 1 .. size |-> window[i].EntryHash]
           idx == s - from
<1>1. PICK n \in Nat : DOMAIN log = 0 .. n - 1
  BY DEF IInv, Chained, ChainOfLength
<1>2. from \in Nat /\ to \in Nat /\ from <= to /\ to \in DOMAIN log
  BY DEF InRange
<1>3. Memory \/ from < SignBit
  <2>1. CASE ~ Memory
    <3>1. to + 1 < SignBit
      BY <1>2, <2>1 DEF ReadableLogs
    <3> HIDE DEF from, to
    <3> QED BY <1>2, <3>1, SignBitAssumption
  <2> QED BY <2>1
<1>4. window = From(log, from, n)
  BY <1>1, <1>2, <1>3, EntriesFrom
<1> HIDE DEF from, to, log
<1>5. /\ size \in Nat /\ size > 0 /\ size <= n - from /\ n - from \in Nat
      /\ s \in from .. to /\ idx \in 0 .. size - 1
  BY <1>1, <1>2 DEF from, to
<1> HIDE DEF size, idx, window
<1>6. Len(window) = n - from /\ \A i \in 1 .. n - from : window[i] = log[from + i - 1]
  BY <1>4, <1>5 DEF From
<1>7. leaves = Hashes(RangeOf(log, sn))
  <2>1. \A i \in 1 .. size : window[i] = log[from + i - 1]
    BY <1>5, <1>6
  <2>2. RangeOf(log, sn) = [i \in 1 .. size |-> log[from + i - 1]]
    BY DEF RangeOf, size, from, to
  <2> QED BY <2>1, <2>2 DEF Hashes
<1>8. Len(leaves) = size
  BY <1>5
<1>9. Root(leaves) = sn.MerkleRoot
  BY <1>7 DEF Sealed, log
<1> HIDE DEF leaves
<1>10. Proof(leaves, idx).Root = sn.MerkleRoot
  BY <1>5, <1>8, <1>9 DEF Proof
<1>11. ~ (size < 0) /\ ~ (size >= 0 /\ Len(window) < size)
  BY <1>5, <1>6
<1>12. ProofAnswer(sn, window, s) =
         CASE size < 0 -> [Status |-> NoResponse]
           [] size >= 0 /\ Len(window) < size -> [Status |-> 500]
           [] OTHER ->
                IF Proof(leaves, idx).Root # sn.MerkleRoot THEN [Status |-> 500]
                ELSE IF idx \notin 0 .. size - 1 THEN [Status |-> NoResponse]
                ELSE [Status |-> 200, EntryHash |-> leaves[idx + 1],
                      MerkleRoot |-> sn.MerkleRoot, Path |-> Proof(leaves, idx).Path]
  BY DEF ProofAnswer, size, idx, leaves, from, to
<1>13. ProofAnswer(sn, window, s) =
         [Status |-> 200, EntryHash |-> leaves[idx + 1], MerkleRoot |-> sn.MerkleRoot,
          Path |-> Proof(leaves, idx).Path]
  BY <1>5, <1>10, <1>11, <1>12
<1>14. ProofAnswer(sn, window, s).Status = 200
  BY <1>13
<1> QED BY <1>14 DEF window, log, from

\* A step of a reader keeps what ProveInclusion knows between its queries.
LEMMA ProofStep ==
    ASSUME Queried, IInv, CoverInv, TileInv, RootInv, ReadableLogs, NEW r \in Readers,
           ProofAsks(r), ReadBy(r)
    PROVE  ProofAsks(r)' /\ ProofTells(r)'
<1>1. ASSUME NEW c \in Chats, NEW s \in Positions(c), ProveInclusion(r, c, s)
      PROVE  ProofAsks(r)' /\ ProofTells(r)'
  <2> DEFINE k == SnapIndex(s)
             covered == \E j \in DOMAIN snaps[c] :
                          s \in snaps[c][j].FromSequence .. snaps[c][j].ToSequence
  <2>1. ASSUME covered
        PROVE  /\ Has(snaps[c], k) /\ InRange(rows[c], snaps[c][k]) /\ Sealed(rows[c], snaps[c][k])
               /\ s \in snaps[c][k].FromSequence .. snaps[c][k].ToSequence
    BY <2>1, IndexFinds
  <2>2. covered = TRUE \/ covered = FALSE
    OBVIOUS
  <2>3. CASE ~ Has(snaps[c], k)
    <3>1. covered = FALSE
      BY <2>1, <2>3
    <3>2. Answer(r, [Op |-> "proof", Chat |-> c, Seq |-> s, WasCovered |-> covered,
                     Status |-> 409])
      BY <1>1, <2>3 DEF ProveInclusion
    <3> HIDE DEF covered
    <3>3. /\ answer'[r] = [Op |-> "proof", Chat |-> c, Seq |-> s, WasCovered |-> covered,
                           Status |-> 409]
          /\ query'[r] = None
      BY <3>2 DEF Answer, Queried
    <3>4. answer'[r].WasCovered = FALSE
      BY <3>1, <3>3
    <3> QED BY <3>3, <3>4 DEF ProofAsks, ProofTells, At
  <2>4. CASE Has(snaps[c], k)
    <3>1. Begin(r, [Op |-> "proof", Chat |-> c, Seq |-> s, WasCovered |-> covered,
                    Snap |-> snaps[c][k]])
      BY <1>1, <2>4 DEF ProveInclusion
    <3> HIDE DEF covered, k
    <3>2. /\ query'[r] = [Op |-> "proof", Chat |-> c, Seq |-> s, WasCovered |-> covered,
                          Snap |-> snaps[c][k]]
          /\ answer'[r] = None /\ rows' = rows
      BY <3>1 DEF Begin, NoAnswer, Queried, vars
    <3>3. /\ query'[r].Chat = c /\ query'[r].Seq = s /\ query'[r].Snap = snaps[c][k]
          /\ query'[r].WasCovered = covered
      BY <3>2
    <3>4. query'[r].WasCovered => covered
      BY <2>2, <3>3
    <3> QED BY <2>1, <3>2, <3>3, <3>4 DEF ProofAsks, ProofTells, Tells
  <2> QED BY <2>3, <2>4
<1>2. ASSUME ProveWindow(r) PROVE ProofAsks(r)' /\ ProofTells(r)'
  <2> DEFINE q == query[r]
             a == ProofAnswer(q.Snap, EntriesSince(rows[q.Chat], q.Snap.FromSequence), q.Seq)
  <2>1. At(r, "proof") /\ Answer(r, [Op |-> "proof", Chat |-> q.Chat, Seq |-> q.Seq,
                          WasCovered |-> q.WasCovered, Status |-> a.Status, Proof |-> a])
    BY <1>2 DEF ProveWindow
  <2>2. q.WasCovered => a.Status = 200
    BY <2>1, WindowProves DEF ProofAsks
  <2> HIDE DEF a
  <2>3. /\ answer'[r] = [Op |-> "proof", Chat |-> q.Chat, Seq |-> q.Seq,
                         WasCovered |-> q.WasCovered, Status |-> a.Status, Proof |-> a]
        /\ query'[r] = None
    BY <2>1 DEF Answer, Queried
  <2>4. answer'[r].WasCovered = q.WasCovered /\ answer'[r].Status = a.Status
    BY <2>3
  <2> QED BY <2>2, <2>3, <2>4 DEF ProofAsks, ProofTells, At
<1>3. ASSUME ~ At(r, "proof")', ~ Tells(r, "proof")' PROVE ProofAsks(r)' /\ ProofTells(r)'
  BY <1>3 DEF ProofAsks, ProofTells
<1> QED BY <1>1, <1>2, <1>3, LastQuery

\* So does a step of anybody else.
LEMMA KeepProof ==
    ASSUME IInv, RowsExtend, NEW q \in Readers, ProofAsks(q), query'[q] = query[q]
    PROVE  ProofAsks(q)'
<1> SUFFICES ASSUME At(q, "proof"), query[q].WasCovered
             PROVE  /\ InRange(rows'[query[q].Chat], query[q].Snap)
                    /\ Sealed(rows'[query[q].Chat], query[q].Snap)
  BY DEF ProofAsks, At
<1>1. /\ query[q].Chat \in Chats /\ InRange(rows[query[q].Chat], query[q].Snap)
      /\ Sealed(rows[query[q].Chat], query[q].Snap)
  BY DEF ProofAsks
<1>2. InRange(rows'[query[q].Chat], query[q].Snap)
  BY <1>1 DEF InRange, RowsExtend, IsRestriction
<1> QED BY <1>1, <1>2, SealedStable

\* The invariant of ProveInclusion on one node, for every step.
LEMMA NextProof ==
    /\ Queried /\ IInv /\ CoverInv /\ TileInv /\ RootInv /\ ReadableLogs /\ ProofInv
    /\ [AllNext]_allVars
    => ProofInv'
<1> SUFFICES ASSUME Queried, IInv, CoverInv, TileInv, RootInv, ReadableLogs, ProofInv,
                    [AllNext]_allVars, NEW q \in Readers
             PROVE  ProofAsks(q)' /\ ProofTells(q)'
  BY DEF ProofInv
<1>0. [Next]_vars /\ RowsExtend /\ ProofAsks(q) /\ ProofTells(q)
  BY AllSplit, StepExtends DEF ProofInv
<1>1. CASE UNCHANGED <<vars, readVars>>
  BY <1>0, <1>1 DEF vars, readVars, ProofAsks, ProofTells, At, Tells
<1>2. CASE Next /\ NoAnswer /\ UNCHANGED query
  <2>1. query'[q] = query[q] /\ answer'[q] = None
    BY <1>2 DEF NoAnswer
  <2> QED BY <1>0, <2>1, KeepProof DEF ProofTells, Tells
<1>3. ASSUME NEW r \in Readers, ReadBy(r), NEW op, NEW told, Puts(r, op, told)
      PROVE  ProofAsks(q)' /\ ProofTells(q)'
  <2>1. CASE q = r
    BY <1>0, <1>3, <2>1, ProofStep
  <2>2. CASE q # r
    <3>1. query'[q] = query[q] /\ answer'[q] = None
      BY <1>3, <2>2 DEF Puts
    <3> QED BY <1>0, <3>1, KeepProof DEF ProofTells, Tells
  <2> QED BY <2>1, <2>2
<1> QED BY <1>1, <1>2, <1>3, AllSplit

(***************************************************************************)
(* On one node whose store and cache do not fail, an entry that a sealed   *)
(* snapshot covers is proved, whatever is appended between the two queries *)
(* (log.go ProveInclusion).                                                *)
(***************************************************************************)
THEOREM CoveredIsProvedHolds ==
    ASSUME OneNode, Reliable
    PROVE  AllSpec /\ []ReadableLogs => []CoveredIsProved
<1>1. AllInit => ProofInv
  BY DEF AllInit, ReadInit, ProofInv, ProofAsks, ProofTells, At, Tells
<1>2. /\ Queried /\ IInv /\ CoverInv /\ TileInv /\ RootInv /\ ReadableLogs /\ ProofInv
      /\ [AllNext]_allVars
      => ProofInv'
  BY NextProof
<1>3. IInv /\ ReadableLogs => ShortLogs
  <2> SUFFICES ASSUME IInv, ReadableLogs, ~ Memory, NEW c \in Chats, NEW s \in DOMAIN rows[c]
               PROVE  s < SignBit
    BY DEF ShortLogs
  <2>1. s \in Nat /\ s + 1 < SignBit
    BY DEF IInv, TypeOK, ReadableLogs
  <2> QED BY <2>1, SignBitAssumption
<1>4. ProofInv => CoveredIsProved
  BY DEF ProofInv, ProofTells, Tells, CoveredIsProved
<1> QED BY <1>1, <1>2, <1>3, <1>4, AllIsSpec, RootInvHolds, TileInvHolds, PTL DEF AllSpec

-----------------------------------------------------------------------------
(***************************************************************************)
(* History, page by page.  Between two pages a reader has all entries from *)
(* its first one up to next_from, which stay what they are.                *)
(***************************************************************************)

\* Without the memory store, a page is asked for from below 2^63.
FromsFit == Memory \/ \A from \in FromParams : from \in Nat => from < SignBit

HistoryAsks(r) ==
    At(r, "history") =>
        LET q == query[r]
        IN  /\ q.Chat \in Chats /\ q.Limit \in Nat \ {0}
            /\ q.Start \in Nat
            /\ q.Next \in Nat /\ q.Start < q.Next
            /\ 0 .. q.Next - 1 \subseteq DOMAIN rows[q.Chat]
            /\ q.Read = From(rows[q.Chat], q.Start, q.Next)

HistoryTells(r) ==
    Answered(r, "history", 200) =>
        LET a == answer[r]
        IN  /\ a.Chat \in Chats /\ a.Start \in Nat
            /\ \E n \in Nat : /\ DOMAIN rows[a.Chat] = 0 .. n - 1
                              /\ a.Read = From(rows[a.Chat], a.Start, n)

HistoryInv == \A r \in Readers : HistoryAsks(r) /\ HistoryTells(r)

\* The larger of two numbers.
LEMMA MaxOfTwo == ASSUME NEW a \in Int, NEW b \in Int PROVE Max({a, b}) = IF a >= b THEN a ELSE b
<1> DEFINE m == IF a >= b THEN a ELSE b
<1>1. m \in {a, b} /\ \A y \in {a, b} : m >= y
  OBVIOUS
<1>2. \A x \in {a, b} : (\A y \in {a, b} : x >= y) => x = m
  OBVIOUS
<1> HIDE DEF m
<1>3. Max({a, b}) = m
  BY <1>1, <1>2 DEF Max
<1> QED BY <1>3 DEF m

\* The smaller of two positive numbers is positive.
LEMMA MinOfTwo == ASSUME NEW a \in Nat \ {0}, NEW b \in Nat \ {0} PROVE Min({a, b}) \in Nat \ {0}
<1> DEFINE m == IF a <= b THEN a ELSE b
<1>1. m \in {a, b} /\ \A y \in {a, b} : m <= y
  OBVIOUS
<1> HIDE DEF m
<1>2. Min({a, b}) \in {a, b}
  BY <1>1 DEF Min
<1> QED BY <1>2

Values(log) == {log[s] : s \in Nat}

IsFrom(x, log, a, b) ==
    /\ x \in Seq(Values(log)) /\ Len(x) = b - a
    /\ \A i \in 1 .. b - a : x[i] = log[a + i - 1]

\* A stretch of the log is a sequence of its rows.
LEMMA FromIsSeq ==
    ASSUME NEW log, NEW a \in Nat, NEW b \in Nat, a <= b
    PROVE  IsFrom(From(log, a, b), log, a, b)
<1>1. b - a \in Nat /\ \A i \in 1 .. b - a : a + i - 1 \in Nat
  OBVIOUS
<1>2. \A i \in 1 .. b - a : log[a + i - 1] \in Values(log)
  BY <1>1 DEF Values
<1>3. From(log, a, b) \in [1 .. b - a -> Values(log)]
  BY <1>2 DEF From
<1>4. Len(From(log, a, b)) = b - a
  BY <1>1 DEF From
<1>5. From(log, a, b) \in Seq(Values(log))
  BY <1>1, <1>3
<1>6. \A i \in 1 .. b - a : From(log, a, b)[i] = log[a + i - 1]
  BY DEF From
<1> QED BY <1>4, <1>5, <1>6 DEF IsFrom

(***************************************************************************)
(* Adjacent stretches of the log join.                                     *)
(***************************************************************************)
LEMMA PagesJoin ==
    ASSUME NEW log, NEW a \in Nat, NEW b \in Nat, NEW e \in Nat, a <= b, b <= e
    PROVE  From(log, a, b) \o From(log, b, e) = From(log, a, e)
<1> DEFINE S == Values(log)
           x == From(log, a, b)
           y == From(log, b, e)
           z == From(log, a, e)
<1>1. x \in Seq(S) /\ Len(x) = b - a /\ \A i \in 1 .. b - a : x[i] = log[a + i - 1]
  <2>1. a <= b
    OBVIOUS
  <2>2. IsFrom(x, log, a, b)
    BY <2>1, FromIsSeq
  <2> QED BY <2>2 DEF IsFrom
<1>2. y \in Seq(S) /\ Len(y) = e - b /\ \A i \in 1 .. e - b : y[i] = log[b + i - 1]
  <2>1. b <= e
    OBVIOUS
  <2>2. IsFrom(y, log, b, e)
    BY <2>1, FromIsSeq
  <2> QED BY <2>2 DEF IsFrom
<1>3. z \in Seq(S) /\ Len(z) = e - a /\ \A i \in 1 .. e - a : z[i] = log[a + i - 1]
  <2>1. a <= e
    OBVIOUS
  <2>2. IsFrom(z, log, a, e)
    BY <2>1, FromIsSeq
  <2> QED BY <2>2 DEF IsFrom
<1> HIDE DEF S, x, y, z
<1>4. /\ x \o y \in Seq(S) /\ Len(x \o y) = Len(x) + Len(y)
      /\ \A i \in 1 .. Len(x) + Len(y) : (x \o y)[i] = IF i <= Len(x) THEN x[i] ELSE y[i - Len(x)]
  BY <1>1, <1>2, ConcatProperties
<1>5. Len(x \o y) = e - a
  BY <1>1, <1>2, <1>4
<1>6. ASSUME NEW i \in 1 .. e - a PROVE (x \o y)[i] = z[i]
  <2>1. z[i] = log[a + i - 1]
    BY <1>3
  <2>2. CASE i <= b - a
    BY <1>1, <1>2, <1>4, <2>1, <2>2
  <2>3. CASE ~ (i <= b - a)
    <3>1. i - (b - a) \in 1 .. e - b /\ b + (i - (b - a)) - 1 = a + i - 1
      BY <2>3
    <3>2. (x \o y)[i] = y[i - (b - a)]
      BY <1>1, <1>2, <1>4, <2>3
    <3>3. y[i - (b - a)] = log[b + (i - (b - a)) - 1]
      BY <1>2, <3>1
    <3> QED BY <2>1, <3>1, <3>2, <3>3
  <2> QED BY <2>2, <2>3
<1>7. x \o y = z
  BY <1>3, <1>4, <1>5, <1>6, SeqEqual
<1> QED BY <1>7 DEF x, y, z

(***************************************************************************)
(* A page is the stretch of the log from its first entry on, of at most    *)
(* limit entries (log.go History).                                         *)
(***************************************************************************)
LEMMA PageIs ==
    ASSUME NEW log, NEW f \in Nat, NEW n \in Nat, f <= n, NEW limit \in Nat \ {0},
           NEW e, e = IF n - f > limit THEN f + limit ELSE n
    PROVE  /\ Page(From(log, f, n), limit) = From(log, f, e)
           /\ e \in Nat /\ f <= e /\ e <= n /\ (e - f = limit \/ (e - f < limit /\ e = n))
<1> DEFINE S == Values(log)
           x == From(log, f, n)
<1>1. x \in Seq(S) /\ Len(x) = n - f /\ \A i \in 1 .. n - f : x[i] = log[f + i - 1]
  <2>1. f <= n
    OBVIOUS
  <2>2. IsFrom(x, log, f, n)
    BY <2>1, FromIsSeq
  <2> QED BY <2>2 DEF IsFrom
<1>2. e \in Nat /\ f <= e /\ e <= n /\ (e - f = limit \/ (e - f < limit /\ e = n))
  OBVIOUS
<1>3. CASE n - f > limit
  <2> DEFINE z == From(log, f, e)
             u == SubSeq(x, 1, limit)
  <2>1. z \in Seq(S) /\ Len(z) = e - f /\ \A i \in 1 .. e - f : z[i] = log[f + i - 1]
    <3>1. IsFrom(z, log, f, e)
      BY <1>2, FromIsSeq
    <3> QED BY <3>1 DEF IsFrom
  <2>2. e - f = limit
    BY <1>3
  <2> HIDE DEF S, x, z
  <2>3. \A i \in 1 .. limit : x[i] \in S
    BY <1>1, <1>3
  <2>4. u \in Seq(S) /\ Len(u) = limit /\ \A i \in 1 .. limit : u[i] = x[i]
    <3>1. /\ u \in Seq(S) /\ Len(u) = IF 1 <= limit THEN limit - 1 + 1 ELSE 0
          /\ \A i \in 1 .. limit - 1 + 1 : u[i] = x[1 + i - 1]
      BY <2>3, SubSeqProperties
    <3>2. limit - 1 + 1 = limit /\ 1 <= limit /\ \A i \in 1 .. limit : 1 + i - 1 = i
      OBVIOUS
    <3> QED BY <3>1, <3>2
  <2>5. \A i \in 1 .. limit : u[i] = z[i]
    BY <1>1, <1>3, <2>1, <2>2, <2>4
  <2> HIDE DEF u
  <2>6. u = z
    BY <2>1, <2>2, <2>4, <2>5, SeqEqual
  <2>7. Page(x, limit) = u
    BY <1>1, <1>3 DEF Page, u
  <2> QED BY <1>2, <2>6, <2>7 DEF x, z
<1>4. CASE ~ (n - f > limit)
  <2>1. e = n
    BY <1>4
  <2> HIDE DEF x
  <2>2. Page(x, limit) = x
    BY <1>1, <1>4 DEF Page
  <2> QED BY <1>2, <2>1, <2>2 DEF x
<1> QED BY <1>3, <1>4

\* A page taken of entries, added to what was read of a log of n entries since first.
Continues(log, n, first, limit, entries, read) ==
    LET page == Page(entries, limit)
        next == NextFrom(page, limit)
        all  == read \o page
    IN  /\ next = None => all = From(log, first, n)
        /\ next # None => /\ next \in Nat /\ first < next /\ next <= n
                          /\ all = From(log, first, next)

(***************************************************************************)
(* One request of a client that has read the log from first to from        *)
(* (server.go handleHistory).                                              *)
(***************************************************************************)
LEMMA PageContinues ==
    ASSUME IInv, NEW c \in Chats, NEW n \in Nat, DOMAIN rows[c] = 0 .. n - 1,
           NEW limit \in Nat \ {0}, NEW first \in Nat, NEW f \in Nat, first <= f,
           first = f \/ f <= n,
           NEW entries, entries = From(rows[c], f, n),
           NEW read, read = From(rows[c], first, f)
    PROVE  Continues(rows[c], n, first, limit, entries, read)
<1> DEFINE log == rows[c]
           page == Page(entries, limit)
           next == NextFrom(page, limit)
           all == read \o page
<1> SUFFICES /\ next = None => all = From(log, first, n)
             /\ next # None => /\ next \in Nat /\ first < next /\ next <= n
                               /\ all = From(log, first, next)
  BY DEF Continues
<1>0. ChainOfLength(log, n)
  <2>1. PICK k \in Nat : ChainOfLength(log, k)
    BY DEF IInv, Chained
  <2>2. 0 .. k - 1 = 0 .. n - 1
    BY <2>1 DEF ChainOfLength
  <2>3. k = n
    BY <2>2, SizeOfInterval
  <2> QED BY <2>1, <2>3
<1>1. CASE f <= n
  <2> DEFINE e == IF n - f > limit THEN f + limit ELSE n
  <2>1. page = From(log, f, e)
    BY <1>1, PageIs
  <2>2. e \in Nat /\ f <= e /\ e <= n /\ (e - f = limit \/ (e - f < limit /\ e = n))
    BY <1>1
  <2> HIDE DEF e, page
  <2>3. IsFrom(page, log, f, e)
    BY <2>1, <2>2, FromIsSeq
  <2>4. Len(page) = e - f
    BY <2>3 DEF IsFrom
  <2>5. all = From(log, first, e)
    BY <2>1, <2>2, PagesJoin
  <2>6. CASE e - f = limit
    <3>1. Len(page) = limit /\ Len(page) > 0
      BY <2>4, <2>6
    <3>2. page[Len(page)] = log[e - 1]
      <4>1. e - f \in 1 .. e - f /\ f + (e - f) - 1 = e - 1
        BY <2>2, <2>6
      <4>2. page[e - f] = log[f + (e - f) - 1]
        BY <2>3, <4>1 DEF IsFrom
      <4> QED BY <2>4, <4>1, <4>2
    <3>3. e - 1 \in 0 .. n - 1
      BY <2>2, <2>6
    <3>4. log[e - 1].Sequence = e - 1
      BY <1>0, <3>3 DEF ChainOfLength, LinkedAt
    <3>5. next = (e - 1) + 1
      BY <3>1, <3>2, <3>4 DEF NextFrom
    <3>6. next = e
      BY <2>2, <3>5
    <3>7. first < e
      BY <2>2, <2>6
    <3> HIDE DEF next, all
    <3>8. next # None
      BY <2>2, <3>6, ParamAssumption
    <3> QED BY <2>2, <2>5, <3>6, <3>7, <3>8 DEF next, all, page
  <2>7. CASE e - f < limit /\ e = n
    <3>1. Len(page) # limit
      BY <2>2, <2>4, <2>7
    <3>2. next = None
      BY <3>1 DEF NextFrom
    <3> HIDE DEF next, all
    <3> QED BY <2>5, <2>7, <3>2 DEF next, all, page
  <2> QED BY <2>2, <2>6, <2>7
<1>2. CASE ~ (f <= n)
  <2>1. 1 .. n - f = {} /\ 1 .. n - first = {} /\ 1 .. f - first = {}
    BY <1>2
  <2>2. From(log, f, n) = <<>> /\ From(log, first, n) = <<>> /\ From(log, first, f) = <<>>
    <3>1. \A a, b : 1 .. b - a = {} => From(log, a, b) = [i \in {} |-> log[a + i - 1]]
      BY DEF From
    <3>2. \A a : [i \in {} |-> log[a + i - 1]] = <<>>
      OBVIOUS
    <3> QED BY <2>1, <3>1, <3>2
  <2>3. page = <<>>
    <3>1. Len(<<>>) = 0 /\ ~ (0 > limit)
      OBVIOUS
    <3> QED BY <2>2, <3>1 DEF Page
  <2>4. next = None
    BY <2>3 DEF NextFrom
  <2>5. all = <<>>
    BY <2>2, <2>3
  <2> HIDE DEF next, all
  <2> QED BY <2>2, <2>4, <2>5 DEF next, all, page
<1> QED BY <1>1, <1>2

\* One more page: what was read is the log up to the next from.
LEMMA HistoryPageStep ==
    ASSUME Queried, IInv, NEW r \in Readers, NEW c \in Chats, NEW n \in Nat,
           DOMAIN rows[c] = 0 .. n - 1, NEW start, NEW limit \in Nat \ {0},
           start \in Nat, NEW f \in Nat, start <= f,
           start = f \/ f <= n, NEW from,
           EntriesSince(rows[c], from) = From(rows[c], f, n),
           NEW read, read = From(rows[c], start, f),
           HistoryPage(r, c, start, limit, read, from)
    PROVE  HistoryAsks(r)' /\ HistoryTells(r)'
<1> DEFINE page == Page(EntriesSince(rows[c], from), limit)
           next == NextFrom(page, limit)
           all  == read \o page
<1>1. /\ next = None => all = From(rows[c], start, n)
      /\ next # None => /\ next \in Nat /\ start < next /\ next <= n
                        /\ all = From(rows[c], start, next)
  <2> DEFINE entries == EntriesSince(rows[c], from)
             first == start
  <2>1. /\ first \in Nat /\ first <= f /\ (first = f \/ f <= n)
        /\ entries = From(rows[c], f, n) /\ read = From(rows[c], first, f)
    OBVIOUS
  <2> HIDE DEF entries, first
  <2>2. Continues(rows[c], n, first, limit, entries, read)
    BY <2>1, PageContinues
  <2> QED BY <2>2 DEF Continues, entries, first
<1>2. \/ /\ next # None
         /\ Continue(r, [Op |-> "history", Chat |-> c, Start |-> start, Limit |-> limit,
                         Read |-> all, Next |-> next])
      \/ /\ next = None
         /\ Answer(r, [Op |-> "history", Chat |-> c, Start |-> start, Status |-> 200,
                       Read |-> all])
  BY DEF HistoryPage
<1> HIDE DEF next, all
<1>3. CASE next # None /\ Continue(r, [Op |-> "history", Chat |-> c, Start |-> start,
                                       Limit |-> limit, Read |-> all, Next |-> next])
  <2>1. /\ query'[r] = [Op |-> "history", Chat |-> c, Start |-> start, Limit |-> limit,
                        Read |-> all, Next |-> next]
        /\ answer'[r] = None /\ rows' = rows
    BY <1>3 DEF Continue, NoAnswer, Queried, vars
  <2>2. /\ query'[r].Chat = c /\ query'[r].Start = start /\ query'[r].Limit = limit
        /\ query'[r].Read = all /\ query'[r].Next = next
    BY <2>1
  <2>3. 0 .. next - 1 \subseteq DOMAIN rows[c]
    BY <1>1, <1>3
  <2> QED BY <1>1, <1>3, <2>1, <2>2, <2>3 DEF HistoryAsks, HistoryTells, Answered
<1>4. CASE next = None /\ Answer(r, [Op |-> "history", Chat |-> c, Start |-> start,
                                     Status |-> 200, Read |-> all])
  <2>1. /\ answer'[r] = [Op |-> "history", Chat |-> c, Start |-> start, Status |-> 200,
                         Read |-> all]
        /\ query'[r] = None /\ rows' = rows
    BY <1>4 DEF Answer, Queried, vars
  <2>2. answer'[r].Chat = c /\ answer'[r].Start = start /\ answer'[r].Read = all
    BY <2>1
  <2> QED BY <1>1, <1>4, <2>1, <2>2 DEF HistoryAsks, HistoryTells, At
<1> QED BY <1>2, <1>3, <1>4

\* A step of a reader keeps what it has read of the history.
LEMMA HistoryStep ==
    ASSUME Queried, IInv, ReadableLogs, FromsFit, NEW r \in Readers, HistoryAsks(r), ReadBy(r)
    PROVE  HistoryAsks(r)' /\ HistoryTells(r)'
<1>0. ASSUME NEW c \in Chats PROVE \E n \in Nat : DOMAIN rows[c] = 0 .. n - 1
  BY <1>0 DEF IInv, Chained, ChainOfLength
<1>1. ASSUME NEW c \in Chats, NEW rawFrom \in FromParams, NEW rawLimit \in LimitParams,
             History(r, c, rawFrom, rawLimit)
      PROVE  HistoryAsks(r)' /\ HistoryTells(r)'
  <2> DEFINE from == parseUintQuery(rawFrom, 0)
             asked == parseUintQuery(rawLimit, defaultHistoryLimit)
             limit == Min({asked, maxHistoryLimit})
  <2>1. HistoryPage(r, c, from, limit, <<>>, from)
    BY <1>1 DEF History
  <2>2. from \in Nat /\ (Memory \/ from < SignBit)
    <3>1. 0 \in Nat /\ 0 < SignBit
      BY SignBitAssumption
    <3>2. rawFrom # Garbage
      BY <1>1 DEF History
    <3>3. rawFrom = None \/ rawFrom \in Nat
      BY <3>2, ParamAssumption, SignBitAssumption
    <3> QED BY <3>1, <3>3, FromsFit DEF FromsFit, parseUintQuery
  <2>3. asked \in Nat \ {0}
    <3>1. rawLimit # Garbage /\ rawLimit # 0
      BY <1>1 DEF History
    <3> QED BY <3>1, ParamAssumption, LimitAssumption DEF parseUintQuery
  <2> HIDE DEF asked
  <2>4. limit \in Nat \ {0}
    BY <2>3, MinOfTwo, LimitAssumption
  <2> HIDE DEF from, limit
  <2>5. PICK n \in Nat : DOMAIN rows[c] = 0 .. n - 1
    BY <1>0
  <2> DEFINE f == from
  <2>6. f \in Nat /\ EntriesSince(rows[c], from) = From(rows[c], f, n)
    BY <2>2, <2>5, EntriesFrom
  <2>7. <<>> = From(rows[c], f, f)
    <3> HIDE DEF f
    <3>1. 1 .. f - f = {}
      BY <2>6
    <3>2. From(rows[c], f, f) = [i \in {} |-> rows[c][f + i - 1]]
      BY <3>1 DEF From
    <3> QED BY <3>2
  <2>8. f <= f
    BY <2>6
  <2> QED BY <2>1, <2>4, <2>5, <2>6, <2>7, <2>8, HistoryPageStep
<1>2. ASSUME HistoryNext(r) PROVE HistoryAsks(r)' /\ HistoryTells(r)'
  <2> DEFINE q == query[r]
             c == q.Chat
             f == q.Next
  <2>1. At(r, "history") /\ HistoryPage(r, c, q.Start, q.Limit, q.Read, f)
    BY <1>2 DEF HistoryNext
  <2>2. /\ c \in Chats /\ q.Limit \in Nat \ {0} /\ q.Start \in Nat
        /\ f \in Nat /\ q.Start < f
        /\ 0 .. f - 1 \subseteq DOMAIN rows[c]
        /\ q.Read = From(rows[c], q.Start, f)
    BY <2>1 DEF HistoryAsks
  <2> HIDE DEF c, f
  <2>3. PICK n \in Nat : DOMAIN rows[c] = 0 .. n - 1
    BY <1>0, <2>2
  <2>4. f - 1 \in DOMAIN rows[c]
    BY <2>2
  <2>5. f <= n
    BY <2>2, <2>3, <2>4
  <2>6. Memory \/ f < SignBit
    <3>1. Memory \/ (f - 1) + 1 < SignBit
      BY <2>2, <2>4 DEF ReadableLogs
    <3> QED BY <2>2, <3>1
  <2>7. EntriesSince(rows[c], f) = From(rows[c], f, n)
    BY <2>2, <2>3, <2>6, EntriesFrom
  <2>8. q.Start <= f
    BY <2>2
  <2> QED BY <2>1, <2>2, <2>3, <2>5, <2>7, <2>8, HistoryPageStep
<1>3. ASSUME NEW from \in FromParams, NEW limit \in LimitParams, BadParameter(r, from, limit)
      PROVE  HistoryAsks(r)' /\ HistoryTells(r)'
  <2>1. answer'[r] = [Op |-> "history", Status |-> 400] /\ query'[r] = None
    BY <1>3 DEF BadParameter, Answer, Queried
  <2>2. answer'[r].Status = 400
    BY <2>1
  <2> QED BY <2>1, <2>2 DEF HistoryAsks, HistoryTells, Answered, At
<1>4. ASSUME ~ At(r, "history")', ~ Tells(r, "history")' PROVE HistoryAsks(r)' /\ HistoryTells(r)'
  BY <1>4 DEF HistoryAsks, HistoryTells, Tells, Answered
<1> QED BY <1>1, <1>2, <1>3, <1>4, LastQuery

\* So does a step of anybody else.
LEMMA KeepHistory ==
    ASSUME IInv, RowsExtend, NEW q \in Readers, HistoryAsks(q), query'[q] = query[q]
    PROVE  HistoryAsks(q)'
<1> SUFFICES ASSUME At(q, "history")
             PROVE  /\ 0 .. query[q].Next - 1 \subseteq DOMAIN rows'[query[q].Chat]
                    /\ query[q].Read = From(rows'[query[q].Chat], query[q].Start,
                                            query[q].Next)
  BY DEF HistoryAsks, At
<1> DEFINE c == query[q].Chat
           first == query[q].Start
           next == query[q].Next
<1>1. /\ c \in Chats /\ first \in Nat /\ next \in Nat /\ first < next
      /\ 0 .. next - 1 \subseteq DOMAIN rows[c]
      /\ query[q].Read = From(rows[c], first, next)
  BY DEF HistoryAsks
<1> HIDE DEF c, first, next
<1>2. DOMAIN rows[c] \subseteq DOMAIN rows'[c] /\ \A s \in DOMAIN rows[c] : rows'[c][s] = rows[c][s]
  BY <1>1 DEF RowsExtend, IsRestriction
<1>3. \A i \in 1 .. next - first : first + i - 1 \in 0 .. next - 1
  BY <1>1
<1>4. \A i \in 1 .. next - first : rows'[c][first + i - 1] = rows[c][first + i - 1]
  BY <1>1, <1>2, <1>3
<1>5. From(rows'[c], first, next) = From(rows[c], first, next)
  BY <1>4 DEF From
<1>6. 0 .. next - 1 \subseteq DOMAIN rows'[c]
  BY <1>1, <1>2
<1> QED BY <1>1, <1>5, <1>6 DEF c, first, next

\* The invariant of the history, for every step.
LEMMA NextHistory ==
    ASSUME FromsFit
    PROVE  Queried /\ IInv /\ ReadableLogs /\ HistoryInv /\ [AllNext]_allVars => HistoryInv'
<1> SUFFICES ASSUME Queried, IInv, ReadableLogs, HistoryInv, [AllNext]_allVars, NEW q \in Readers
             PROVE  HistoryAsks(q)' /\ HistoryTells(q)'
  BY DEF HistoryInv
<1>0. [Next]_vars /\ RowsExtend /\ HistoryAsks(q) /\ HistoryTells(q)
  BY AllSplit, StepExtends DEF HistoryInv
<1>1. CASE UNCHANGED <<vars, readVars>>
  BY <1>0, <1>1 DEF vars, readVars, HistoryAsks, HistoryTells, At, Answered
<1>2. CASE Next /\ NoAnswer /\ UNCHANGED query
  <2>1. query'[q] = query[q] /\ answer'[q] = None
    BY <1>2 DEF NoAnswer
  <2> QED BY <1>0, <2>1, KeepHistory DEF HistoryTells, Answered
<1>3. ASSUME NEW r \in Readers, ReadBy(r), NEW op, NEW told, Puts(r, op, told)
      PROVE  HistoryAsks(q)' /\ HistoryTells(q)'
  <2>1. CASE q = r
    BY <1>0, <1>3, <2>1, HistoryStep
  <2>2. CASE q # r
    <3>1. query'[q] = query[q] /\ answer'[q] = None
      BY <1>3, <2>2 DEF Puts
    <3> QED BY <1>0, <3>1, KeepHistory DEF HistoryTells, Answered
  <2> QED BY <2>1, <2>2
<1> QED BY <1>1, <1>2, <1>3, AllSplit

(***************************************************************************)
(* A client that follows next_from to its end has every entry from its     *)
(* first `from` to the end of the log, in order and each once, whatever    *)
(* was appended between its pages (server.go handleHistory, log.go         *)
(* History); with ScyllaDB, if that first `from` is below 2^63.            *)
(***************************************************************************)
THEOREM HistoryCompleteHolds ==
    ASSUME FromsFit
    PROVE  AllSpec /\ []ReadableLogs => []HistoryComplete
<1>1. AllInit => HistoryInv
  BY DEF AllInit, ReadInit, HistoryInv, HistoryAsks, HistoryTells, At, Answered
<1>2. Queried /\ IInv /\ ReadableLogs /\ HistoryInv /\ [AllNext]_allVars => HistoryInv'
  BY NextHistory
<1>3. HistoryInv => HistoryComplete
  <2> SUFFICES ASSUME HistoryInv, NEW r \in Readers, Answered(r, "history", 200)
               PROVE  LET a     == answer[r]
                          first == a.Start
                          end   == Cardinality(DOMAIN rows[a.Chat])
                      IN  a.Read = [i \in 1 .. Max({0, end - first}) |-> rows[a.Chat][first + i - 1]]
    BY DEF HistoryComplete
  <2> DEFINE a == answer[r]
             log == rows[a.Chat]
             first == a.Start
  <2>1. /\ first \in Nat
        /\ \E n \in Nat : DOMAIN log = 0 .. n - 1 /\ a.Read = From(log, first, n)
    BY DEF HistoryInv, HistoryTells
  <2>2. PICK n \in Nat : DOMAIN log = 0 .. n - 1 /\ a.Read = From(log, first, n)
    BY <2>1
  <2> HIDE DEF first, log
  <2>3. Cardinality(DOMAIN log) = n
    BY <2>2, SizeOfInterval
  <2>4. n - first \in Int /\ Max({0, n - first}) = IF 0 >= n - first THEN 0 ELSE n - first
    BY <2>1, MaxOfTwo
  <2>5. 1 .. Max({0, n - first}) = 1 .. n - first
    BY <2>4
  <2>6. a.Read = [i \in 1 .. Max({0, Cardinality(DOMAIN log) - first}) |-> log[first + i - 1]]
    BY <2>2, <2>3, <2>5 DEF From
  <2> QED BY <2>6 DEF first, log
<1> QED BY <1>1, <1>2, <1>3, AllIsSpec, SyncInvHolds, PTL DEF AllSpec

-----------------------------------------------------------------------------
(***************************************************************************)
(* A proof that is returned, on any number of nodes.  Snapshots of several *)
(* nodes may replace each other between the two queries; the answer is     *)
(* computed from one of them, and refused unless its root is met.          *)
(***************************************************************************)

\* The part of a log that a snapshot names starts after a stored entry.
Placed(log, sn) ==
    /\ sn.FromSequence \in Nat
    /\ sn.FromSequence = 0 \/ sn.FromSequence - 1 \in DOMAIN log
    /\ sn.ToSequence \in DOMAIN log

IsSound(log, s, a) ==
    /\ s \in DOMAIN log
    /\ a.EntryHash = log[s].EntryHash
    /\ VerifyProof(a.EntryHash, a.Path, a.MerkleRoot)

SoundAsks(r) ==
    At(r, "proof") =>
        /\ query[r].Chat \in Chats /\ query[r].Seq \in Nat
        /\ Placed(rows[query[r].Chat], query[r].Snap)

SoundTells(r) ==
    Answered(r, "proof", 200) => IsSound(rows[answer[r].Chat], answer[r].Seq, answer[r].Proof)

SoundInv == \A r \in Readers : SoundAsks(r) /\ SoundTells(r)

(***************************************************************************)
(* An answer 200 of ProveInclusion names the entry asked for, with a path  *)
(* that leads from it to the snapshot's root.                              *)
(***************************************************************************)
LEMMA AnswerSound ==
    ASSUME IInv, ReadableLogs, NEW c \in Chats, NEW sn, Placed(rows[c], sn), NEW s \in Nat,
           ProofAnswer(sn, EntriesSince(rows[c], sn.FromSequence), s).Status = 200
    PROVE  IsSound(rows[c], s, ProofAnswer(sn, EntriesSince(rows[c], sn.FromSequence), s))
<1> DEFINE log == rows[c]
           from == sn.FromSequence
           to == sn.ToSequence
           window == EntriesSince(log, from)
           size == to + 1 - from
           leaves == [i \in 1 .. size |-> window[i].EntryHash]
           idx == s - from
           a == ProofAnswer(sn, window, s)
<1>1. PICK n \in Nat : DOMAIN log = 0 .. n - 1
  BY DEF IInv, Chained, ChainOfLength
<1>2. from \in Nat /\ (from = 0 \/ from - 1 \in DOMAIN log) /\ to \in DOMAIN log
  BY DEF Placed
<1> HIDE DEF from, to, log
<1>3. from <= n /\ n - from \in Nat /\ to \in Nat /\ to <= n - 1
  BY <1>1, <1>2
<1>4. Memory \/ from < SignBit
  <2>1. CASE ~ Memory /\ from # 0
    <3>1. (from - 1) + 1 < SignBit
      BY <1>2, <2>1 DEF ReadableLogs, log
    <3> QED BY <1>2, <3>1
  <2> QED BY <2>1, SignBitAssumption
<1>5. window = From(log, from, n)
  BY <1>1, <1>2, <1>4, EntriesFrom
<1>6. size \in Int /\ idx \in Int
  BY <1>2, <1>3
<1> HIDE DEF window
<1>7. Len(window) = n - from /\ \A i \in 1 .. n - from : window[i] = log[from + i - 1]
  BY <1>3, <1>5 DEF From
<1>8. a = CASE size < 0 -> [Status |-> NoResponse]
            [] size >= 0 /\ Len(window) < size -> [Status |-> 500]
            [] OTHER ->
                 IF Proof(leaves, idx).Root # sn.MerkleRoot THEN [Status |-> 500]
                 ELSE IF idx \notin 0 .. size - 1 THEN [Status |-> NoResponse]
                 ELSE [Status |-> 200, EntryHash |-> leaves[idx + 1],
                       MerkleRoot |-> sn.MerkleRoot, Path |-> Proof(leaves, idx).Path]
  BY DEF ProofAnswer, from, to
<1>9. a.Status = 200
  BY DEF from, window, log
<1> HIDE DEF size, leaves, idx, a
<1>10. /\ ~ (size < 0) /\ ~ (size >= 0 /\ Len(window) < size)
       /\ Proof(leaves, idx).Root = sn.MerkleRoot /\ idx \in 0 .. size - 1
  <2>1. [Status |-> NoResponse].Status # 200 /\ [Status |-> 500].Status # 200
    BY DEF NoResponse
  <2>2. ~ (size < 0)
    BY <1>8, <1>9, <2>1
  <2>3. ~ (size >= 0 /\ Len(window) < size)
    BY <1>8, <1>9, <2>1, <2>2
  <2>4. a = IF Proof(leaves, idx).Root # sn.MerkleRoot THEN [Status |-> 500]
            ELSE IF idx \notin 0 .. size - 1 THEN [Status |-> NoResponse]
            ELSE [Status |-> 200, EntryHash |-> leaves[idx + 1],
                  MerkleRoot |-> sn.MerkleRoot, Path |-> Proof(leaves, idx).Path]
    BY <1>8, <2>2, <2>3
  <2> QED BY <1>9, <2>1, <2>2, <2>3, <2>4
<1>11. a = [Status |-> 200, EntryHash |-> leaves[idx + 1],
            MerkleRoot |-> sn.MerkleRoot, Path |-> Proof(leaves, idx).Path]
  BY <1>8, <1>10
<1>12. /\ a.EntryHash = leaves[idx + 1] /\ a.MerkleRoot = sn.MerkleRoot
       /\ a.Path = Proof(leaves, idx).Path
  BY <1>11
<1>13. size \in Nat /\ size > 0 /\ size <= n - from
  BY <1>3, <1>6, <1>7, <1>10
<1>14. IsLayer(leaves) /\ Len(leaves) = size
  <2> DEFINE T == {window[i].EntryHash : i \in 1 .. size}
  <2>1. leaves \in [1 .. size -> T]
    BY DEF leaves
  <2> HIDE DEF T
  <2>2. leaves \in Seq(T)
    BY <1>13, <2>1
  <2>3. Len(leaves) = size
    BY <1>13 DEF leaves
  <2> QED BY <1>13, <2>2, <2>3 DEF IsLayer
<1>15. VerifyProof(leaves[idx + 1], Proof(leaves, idx).Path, Root(leaves))
  BY <1>10, <1>14, ProofVerifies
<1>16. Proof(leaves, idx).Root = Root(leaves)
  BY <1>10, <1>14 DEF Proof
<1>17. /\ s \in DOMAIN log /\ idx + 1 \in 1 .. size /\ idx + 1 \in 1 .. n - from
       /\ from + (idx + 1) - 1 = s
  BY <1>1, <1>2, <1>3, <1>10, <1>13 DEF idx
<1>18. leaves[idx + 1] = log[s].EntryHash
  <2>1. window[idx + 1] = log[s]
    BY <1>7, <1>17
  <2> QED BY <1>17, <2>1 DEF leaves
<1>19. IsSound(log, s, a)
  BY <1>10, <1>12, <1>15, <1>16, <1>17, <1>18 DEF IsSound
<1> QED BY <1>19 DEF a, window, from, log

\* A position that may be asked for is a bigint column's (scylla.go).
LEMMA PositionFits ==
    ASSUME IInv, ReadableLogs, ~ Memory, NEW c \in Chats, NEW s \in Positions(c)
    PROVE  s < SignBit
<1>1. PICK n \in Nat : DOMAIN rows[c] = 0 .. n - 1
  BY DEF IInv, Chained, ChainOfLength
<1>2. s \in 0 .. n
  BY <1>1, SizeOfInterval DEF Positions
<1>3. CASE n = 0
  BY <1>2, <1>3, SignBitAssumption
<1>4. CASE n # 0
  <2>1. n - 1 \in DOMAIN rows[c] /\ (n - 1) + 1 = n
    BY <1>1, <1>4
  <2>2. n < SignBit
    BY <2>1 DEF ReadableLogs
  <2> QED BY <1>2, <2>2, SignBitAssumption
<1> QED BY <1>3, <1>4

\* A step of a reader keeps what it knows of the snapshot it proves against.
LEMMA SoundStep ==
    ASSUME Queried, IInv, EndInv, ReadableLogs, NEW r \in Readers, SoundAsks(r), ReadBy(r)
    PROVE  SoundAsks(r)' /\ SoundTells(r)'
<1>1. ASSUME NEW c \in Chats, NEW s \in Positions(c), ProveInclusion(r, c, s)
      PROVE  SoundAsks(r)' /\ SoundTells(r)'
  <2> DEFINE k == SnapIndex(s)
             covered == \E j \in DOMAIN snaps[c] :
                          s \in snaps[c][j].FromSequence .. snaps[c][j].ToSequence
  <2>1. s \in Nat
    BY DEF Positions
  <2>2. CASE ~ Has(snaps[c], k)
    <3>1. Answer(r, [Op |-> "proof", Chat |-> c, Seq |-> s, WasCovered |-> covered,
                     Status |-> 409])
      BY <1>1, <2>2 DEF ProveInclusion
    <3> HIDE DEF covered
    <3>2. /\ answer'[r] = [Op |-> "proof", Chat |-> c, Seq |-> s, WasCovered |-> covered,
                           Status |-> 409]
          /\ query'[r] = None
      BY <3>1 DEF Answer, Queried
    <3>3. answer'[r].Status = 409
      BY <3>2
    <3> QED BY <3>2, <3>3 DEF SoundAsks, SoundTells, At, Answered
  <2>3. CASE Has(snaps[c], k)
    <3>1. Begin(r, [Op |-> "proof", Chat |-> c, Seq |-> s, WasCovered |-> covered,
                    Snap |-> snaps[c][k]])
      BY <1>1, <2>3 DEF ProveInclusion
    <3> HIDE DEF covered, k
    <3>2. /\ query'[r] = [Op |-> "proof", Chat |-> c, Seq |-> s, WasCovered |-> covered,
                          Snap |-> snaps[c][k]]
          /\ answer'[r] = None /\ rows' = rows
      BY <3>1 DEF Begin, NoAnswer, Queried, vars
    <3>3. query'[r].Chat = c /\ query'[r].Seq = s /\ query'[r].Snap = snaps[c][k]
      BY <3>2
    <3>4. k \in DOMAIN snaps[c]
      <4>1. PICK m \in Nat : DOMAIN snaps[c] = 0 .. m - 1
        BY DEF EndInv, TableEnds
      <4>2. Cardinality(DOMAIN snaps[c]) = m
        BY <4>1, SizeOfInterval
      <4>3. k \in Nat /\ k <= s
        <5> DEFINE b == SnapshotInterval
        <5>1. b \in Nat \ {0}
          BY IntervalAssumption
        <5> HIDE DEF b
        <5>2. s \div b \in Nat /\ s \div b <= s
          BY <2>1, <5>1
        <5> QED BY <5>2 DEF k, SnapIndex, b
      <4>4. CASE Memory
        BY <2>3, <4>1, <4>2, <4>3, <4>4 DEF Has, SliceHas, SliceLen
      <4>5. CASE ~ Memory
        <5>1. s < SignBit
          BY <4>5, PositionFits
        <5>2. Int64(k) = k
          BY <2>1, <4>3, <5>1, SignBitAssumption DEF Int64
        <5> QED BY <2>3, <4>5, <5>2 DEF Has, RowHas
      <4> QED BY <4>4, <4>5
    <3>5. Placed(rows[c], snaps[c][k])
      BY <3>4 DEF EndInv, TableEnds, Ends, Placed
    <3> QED BY <2>1, <3>2, <3>3, <3>5 DEF SoundAsks, SoundTells, Answered
  <2> QED BY <2>2, <2>3
<1>2. ASSUME ProveWindow(r) PROVE SoundAsks(r)' /\ SoundTells(r)'
  <2> DEFINE q == query[r]
             a == ProofAnswer(q.Snap, EntriesSince(rows[q.Chat], q.Snap.FromSequence), q.Seq)
  <2>1. At(r, "proof") /\ Answer(r, [Op |-> "proof", Chat |-> q.Chat, Seq |-> q.Seq,
                          WasCovered |-> q.WasCovered, Status |-> a.Status, Proof |-> a])
    BY <1>2 DEF ProveWindow
  <2>2. a.Status = 200 => IsSound(rows[q.Chat], q.Seq, a)
    BY <2>1, AnswerSound DEF SoundAsks
  <2> HIDE DEF a
  <2>3. /\ answer'[r] = [Op |-> "proof", Chat |-> q.Chat, Seq |-> q.Seq,
                         WasCovered |-> q.WasCovered, Status |-> a.Status, Proof |-> a]
        /\ query'[r] = None /\ rows' = rows
    BY <2>1 DEF Answer, Queried, vars
  <2>4. /\ answer'[r].Chat = q.Chat /\ answer'[r].Seq = q.Seq
        /\ answer'[r].Status = a.Status /\ answer'[r].Proof = a
    BY <2>3
  <2> QED BY <2>2, <2>3, <2>4 DEF SoundAsks, SoundTells, At, Answered
<1>3. ASSUME ~ At(r, "proof")', ~ Tells(r, "proof")' PROVE SoundAsks(r)' /\ SoundTells(r)'
  BY <1>3 DEF SoundAsks, SoundTells, Tells, Answered
<1> QED BY <1>1, <1>2, <1>3, LastQuery

\* So does a step of anybody else.
LEMMA KeepSound ==
    ASSUME RowsExtend, NEW q \in Readers, SoundAsks(q), query'[q] = query[q]
    PROVE  SoundAsks(q)'
BY DEF SoundAsks, At, Placed, RowsExtend, IsRestriction

\* The invariant of ProveInclusion on any number of nodes, for every step.
LEMMA NextSound ==
    Queried /\ IInv /\ EndInv /\ ReadableLogs /\ SoundInv /\ [AllNext]_allVars => SoundInv'
<1> SUFFICES ASSUME Queried, IInv, EndInv, ReadableLogs, SoundInv, [AllNext]_allVars,
                    NEW q \in Readers
             PROVE  SoundAsks(q)' /\ SoundTells(q)'
  BY DEF SoundInv
<1>0. [Next]_vars /\ RowsExtend /\ SoundAsks(q) /\ SoundTells(q)
  BY AllSplit, StepExtends DEF SoundInv
<1>1. CASE UNCHANGED <<vars, readVars>>
  BY <1>0, <1>1 DEF vars, readVars, SoundAsks, SoundTells, At, Answered
<1>2. CASE Next /\ NoAnswer /\ UNCHANGED query
  <2>1. query'[q] = query[q] /\ answer'[q] = None
    BY <1>2 DEF NoAnswer
  <2> QED BY <1>0, <2>1, KeepSound DEF SoundTells, Answered
<1>3. ASSUME NEW r \in Readers, ReadBy(r), NEW op, NEW told, Puts(r, op, told)
      PROVE  SoundAsks(q)' /\ SoundTells(q)'
  <2>1. CASE q = r
    BY <1>0, <1>3, <2>1, SoundStep
  <2>2. CASE q # r
    <3>1. query'[q] = query[q] /\ answer'[q] = None
      BY <1>3, <2>2 DEF Puts
    <3> QED BY <1>0, <3>1, KeepSound DEF SoundTells, Answered
  <2> QED BY <2>1, <2>2
<1> QED BY <1>1, <1>2, <1>3, AllSplit

(***************************************************************************)
(* Whatever nodes append and seal meanwhile, a proof that is returned is a *)
(* proof of the stored entry asked for and verifies against the root it    *)
(* comes with (log.go ProveInclusion, tree.go Proof and VerifyProof).      *)
(***************************************************************************)
THEOREM ProofSoundHolds == AllSpec /\ []ReadableLogs => []ProofSound
<1>1. AllInit => SoundInv
  BY DEF AllInit, ReadInit, SoundInv, SoundAsks, SoundTells, At, Answered
<1>2. Queried /\ IInv /\ EndInv /\ ReadableLogs /\ SoundInv /\ [AllNext]_allVars => SoundInv'
  BY NextSound
<1>3. SoundInv => ProofSound
  BY DEF SoundInv, SoundTells, IsSound, ProofSound
<1> QED BY <1>1, <1>2, <1>3, AllIsSpec, WritesKeep, PTL DEF AllSpec
=============================================================================
