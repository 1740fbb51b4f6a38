--------------------------- MODULE ChatLogProofs ----------------------------
(***************************************************************************)
(* Proofs about the write path, for every set of nodes, goroutines, chats  *)
(* and requests, every snapshot interval, both storage adapters and every  *)
(* set of faults.                                                          *)
(***************************************************************************)
EXTENDS ChatLogRefines, FiniteSetTheorems, SequenceTheorems, TLAPS

USE DEF Goto, Respond, store, local

-----------------------------------------------------------------------------
(***************************************************************************)
(* Facts about the operators of the model.                                 *)
(***************************************************************************)

(***************************************************************************)
(* The greatest key of a contiguous table is its size minus one (Latest,   *)
(* LastEntry).                                                             *)
(***************************************************************************)
LEMMA MaxOfInterval ==
    ASSUME NEW n \in Nat \ {0}
    PROVE  Max(0 .. n - 1) = n - 1
<1>1. n - 1 \in 0 .. n - 1 /\ \A y \in 0 .. n - 1 : n - 1 >= y
  OBVIOUS
<1>2. \A x \in 0 .. n - 1 : (\A y \in 0 .. n - 1 : x >= y) => x = n - 1
  OBVIOUS
<1> QED BY <1>1, <1>2 DEF Max

(***************************************************************************)
(* A contiguous table has as many rows as its length (SliceLen).           *)
(***************************************************************************)
LEMMA SizeOfInterval ==
    ASSUME NEW n \in Nat
    PROVE  Cardinality(0 .. n - 1) = n
<1>1. Cardinality(0 .. n - 1) = IF 0 > n - 1 THEN 0 ELSE (n - 1) - 0 + 1
  BY FS_Interval
<1> QED BY <1>1

(***************************************************************************)
(* Storing an entry keeps its position and its hashes, whatever the        *)
(* adapter does to the timestamp (scylla.go AppendEntry).                  *)
(***************************************************************************)
LEMMA StoredKeeps ==
    ASSUME NEW e, IsEntry(e)
    PROVE  /\ IsEntry(Stored(e))
           /\ Stored(e).Sequence = e.Sequence
           /\ Stored(e).PrevHash = e.PrevHash
           /\ Stored(e).EntryHash = e.EntryHash
BY DEF Stored, RowOf, IsEntry

-----------------------------------------------------------------------------
(***************************************************************************)
(* The inductive invariant.  ChainOK alone is not inductive: an insert     *)
(* keeps the chain only if its entry was built on the row before its       *)
(* position, which is what PendingLinked says of the entries still to be   *)
(* inserted.  Contiguity is stated with the length as a witness.           *)
(***************************************************************************)
ChainOfLength(table, n) ==
    /\ DOMAIN table = 0 .. n - 1
    /\ \A s \in 0 .. n - 1 : LinkedAt(table, s, table[s])

Chained == \A c \in Chats : \E n \in Nat : ChainOfLength(rows[c], n)

IInv == TypeOK /\ Chained /\ PendingLinked

(***************************************************************************)
(* The invariant implies the property: the length is the cardinality.      *)
(***************************************************************************)
LEMMA ChainedImpliesChainOK == Chained => ChainOK
<1> SUFFICES ASSUME Chained, NEW c \in Chats
             PROVE  /\ Contiguous(rows[c])
                    /\ \A s \in DOMAIN rows[c] : LinkedAt(rows[c], s, rows[c][s])
  BY DEF ChainOK
<1>1. PICK n \in Nat : ChainOfLength(rows[c], n)
  BY DEF Chained
<1>2. Cardinality(0 .. n - 1) = n
  BY SizeOfInterval
<1> QED BY <1>1, <1>2 DEF ChainOfLength, Contiguous

(***************************************************************************)
(* The entry ReadTip builds fits the log it was built from (log.go Append).*)
(***************************************************************************)
LEMMA NextEntryLinked ==
    ASSUME NEW table, NEW n \in Nat, ChainOfLength(table, n), NEW m
    PROVE  LET e == NextEntry(table, m)
           IN  IsEntry(e) /\ e.Message = m /\ LinkedAt(table, e.Sequence, e)
<1> DEFINE e == NextEntry(table, m)
<1>1. CASE n = 0
  <2>1. IsEmpty(table)
    BY <1>1 DEF ChainOfLength, IsEmpty
  <2>2. e.Sequence = 0 /\ e.PrevHash = GenesisHash /\ e.Message = m /\ IsEntry(e)
    BY <2>1 DEF NextEntry, IsEntry
  <2> QED BY <2>2 DEF LinkedAt
<1>2. CASE n # 0
  <2>1. ~ IsEmpty(table)
    BY <1>2 DEF ChainOfLength, IsEmpty
  <2>2. Latest(table) = table[n - 1]
    BY <1>2, MaxOfInterval, SizeOfInterval
       DEF ChainOfLength, Latest, SliceLast, SliceLen, RowLast
  <2>3. Latest(table).Sequence = n - 1
    BY <1>2, <2>2 DEF ChainOfLength, LinkedAt
  <2>4. /\ e.Sequence = n /\ e.PrevHash = Latest(table).EntryHash
        /\ e.Message = m /\ IsEntry(e)
    BY <1>2, <2>1, <2>3 DEF NextEntry, IsEntry
  <2> QED BY <1>2, <2>2, <2>4 DEF LinkedAt, ChainOfLength
<1> QED BY <1>1, <1>2

(***************************************************************************)
(* Storing a linked entry that AppendEntry's condition lets through keeps  *)
(* the chain, one longer, and loses nothing that was linked to it (both    *)
(* adapters' AppendEntry).                                                 *)
(***************************************************************************)
LEMMA AppendKeepsChain ==
    ASSUME NEW table, NEW n \in Nat, ChainOfLength(table, n),
           NEW e, IsEntry(e), LinkedAt(table, e.Sequence, e), AppendApplies(table, e)
    PROVE  LET new == Put(table, e.Sequence, Stored(e))
           IN  /\ ChainOfLength(new, n + 1)
               /\ DOMAIN table \subseteq DOMAIN new
               /\ \A s \in DOMAIN table : new[s] = table[s]
<1> DEFINE new == Put(table, e.Sequence, Stored(e))
<1>1. e.Sequence = n
  <2>1. CASE Memory
    BY <2>1, SizeOfInterval DEF AppendApplies, SliceAppends, SliceLen, ChainOfLength
  <2>2. CASE ~ Memory
    BY <2>2 DEF AppendApplies, RowInserts, LinkedAt, IsEntry, ChainOfLength
  <2> QED BY <2>1, <2>2
<1>2. /\ DOMAIN new = 0 .. n
      /\ new[n] = Stored(e)
      /\ \A s \in 0 .. n - 1 : new[s] = table[s]
  <2>1. DOMAIN new = DOMAIN table \cup {e.Sequence} /\ new[e.Sequence] = Stored(e)
    BY DEF Put
  <2>2. \A s \in DOMAIN table : s # e.Sequence => new[s] = table[s]
    BY DEF Put
  <2>3. DOMAIN table = 0 .. n - 1
    BY DEF ChainOfLength
  <2> HIDE DEF new
  <2> QED BY <1>1, <2>1, <2>2, <2>3
<1>3. ASSUME NEW s \in 0 .. n PROVE LinkedAt(new, s, new[s])
  <2>1. CASE s = n
    BY <2>1, <1>1, <1>2, StoredKeeps DEF LinkedAt, ChainOfLength
  <2>2. CASE s # n
    BY <2>2, <1>2 DEF LinkedAt, ChainOfLength
  <2> QED BY <2>1, <2>2
<1> QED BY <1>2, <1>3 DEF ChainOfLength

(***************************************************************************)
(* An entry linked to a table is linked to every extension of it.          *)
(***************************************************************************)
LEMMA LinkedInExtension ==
    ASSUME NEW table, NEW new, DOMAIN table \subseteq DOMAIN new,
           \A s \in DOMAIN table : new[s] = table[s],
           NEW e, LinkedAt(table, e.Sequence, e)
    PROVE  LinkedAt(new, e.Sequence, e)
BY DEF LinkedAt

-----------------------------------------------------------------------------
(***************************************************************************)
(* Every step preserves the invariant.                                     *)
(***************************************************************************)

(***************************************************************************)
(* A step that writes no row and brings no new entry to the point of being *)
(* inserted keeps the chain and the pending entries.                       *)
(***************************************************************************)
LEMMA RowsUnchanged ==
    ASSUME Chained, PendingLinked, rows' = rows, limbo' = limbo,
           \A p \in Procs : pc'[p] = "append" =>
               pc[p] = "append" /\ entry'[p] = entry[p] /\ msg'[p] = msg[p]
    PROVE  Chained' /\ PendingLinked'
BY DEF Chained, PendingLinked, Chat

(***************************************************************************)
(* Returning from Append keeps the types (log.go Append's deferred Unlock).*)
(***************************************************************************)
LEMMA ReturnTyped ==
    ASSUME TypeOK, NEW p \in Procs, NEW status, pc[p] # "idle", Return(p, status),
           rows' = rows, DOMAIN snaps' = Chats, DOMAIN roots' = Chats,
           DOMAIN published' = Chats, appends' = appends,
           \A w \in limbo' : w.Chat \in Chats /\ IsEntry(w.Entry),
           \A w \in lateSnaps' : w.Chat \in Chats
    PROVE  /\ TypeOK'
           /\ \A q \in Procs : pc'[q] = "append" =>
                   pc[q] = "append" /\ entry'[q] = entry[q] /\ msg'[q] = msg[q]
<1>1. /\ pc' \in [Procs -> Labels] /\ pc'[p] = "idle"
      /\ \A q \in Procs : q # p => /\ pc'[q] = pc[q] /\ entry'[q] = entry[q]
                                  /\ msg'[q] = msg[q]
  BY DEF TypeOK, Return, Labels
<1>2. DOMAIN msg' = Procs /\ DOMAIN entry' = Procs /\ DOMAIN snap' = Procs
      /\ DOMAIN response' = Procs
  BY DEF TypeOK, Return
<1>3. lock' \in [Nodes -> [Chats -> Procs \cup {None}]]
  BY NodeAssumption DEF TypeOK, Return
<1>4. \A q \in Procs : /\ pc'[q] # "idle" => msg'[q].ChatID \in Chats
                       /\ pc'[q] \in Built => IsEntry(entry'[q])
  BY <1>1 DEF TypeOK, Chat, Built, Holding
<1> QED BY <1>1, <1>2, <1>3, <1>4 DEF TypeOK, Chat

(***************************************************************************)
(* The initial state satisfies the invariant: every log is empty.          *)
(***************************************************************************)
LEMMA InitIInv == Init => IInv
<1> SUFFICES ASSUME Init PROVE IInv
  OBVIOUS
<1>1. TypeOK
  BY DEF Init, TypeOK, EmptyTable, Labels, Built, Holding
<1>2. Chained
  <2>1. ASSUME NEW c \in Chats PROVE ChainOfLength(rows[c], 0)
    BY DEF Init, EmptyTable, ChainOfLength
  <2> QED BY <2>1 DEF Chained
<1>3. PendingLinked
  BY DEF Init, PendingLinked
<1> QED BY <1>1, <1>2, <1>3 DEF IInv

(***************************************************************************)
(* Validation touches nothing but the goroutine itself (server.go          *)
(* handleSend, service.go Submit).                                         *)
(***************************************************************************)
LEMMA ValidationIInv ==
    ASSUME IInv, NEW p \in Procs, NEW r \in Requests,
           BadRequest(p, r) \/ Reject(p, r) \/ Accept(p, r)
    PROVE  IInv'
<1>1. CASE BadRequest(p, r) \/ Reject(p, r)
  <2>1. TypeOK'
    BY <1>1 DEF IInv, TypeOK, BadRequest, Reject, Chat
  <2>2. Chained' /\ PendingLinked'
    BY <1>1, RowsUnchanged DEF IInv, BadRequest, Reject
  <2> QED BY <2>1, <2>2 DEF IInv
<1>2. CASE Accept(p, r)
  <2>1. decodeSignedMessage(r).ChatID \in Chats
    BY RequestAssumption DEF decodeSignedMessage
  <2>2. /\ pc' \in [Procs -> Labels] /\ pc'[p] = "lock" /\ entry' = entry
        /\ msg'[p] = decodeSignedMessage(r)
        /\ \A q \in Procs : q # p => pc'[q] = pc[q] /\ msg'[q] = msg[q]
    BY <1>2 DEF IInv, TypeOK, Accept, Labels
  <2>3. \A q \in Procs : /\ pc'[q] # "idle" => msg'[q].ChatID \in Chats
                         /\ pc'[q] \in Built => IsEntry(entry'[q])
    BY <2>1, <2>2 DEF IInv, TypeOK, Chat, Built, Holding
  <2>4. TypeOK'
    BY <1>2, <2>2, <2>3 DEF IInv, TypeOK, Accept, Chat
  <2>5. Chained' /\ PendingLinked'
    BY <1>2, <2>2, RowsUnchanged DEF IInv, Accept
  <2> QED BY <2>4, <2>5 DEF IInv
<1> QED BY <1>1, <1>2

(***************************************************************************)
(* A step that only moves the goroutine on, between two points at which it *)
(* has built its entry, keeps the invariant.                               *)
(***************************************************************************)
LEMMA MoveIInv ==
    ASSUME IInv, NEW p \in Procs, NEW label \in Labels \ {"append"},
           pc[p] \in Built \/ (pc[p] # "idle" /\ label \notin Built), Goto(p, label),
           rows' = rows, limbo' = limbo, lateSnaps' = lateSnaps, msg' = msg,
           entry' = entry, DOMAIN snap' = Procs, DOMAIN response' = Procs,
           lock' \in [Nodes -> [Chats -> Procs \cup {None}]],
           DOMAIN snaps' = Chats, DOMAIN roots' = Chats, DOMAIN published' = Chats,
           appends' = appends
    PROVE  IInv'
<1>1. /\ pc' \in [Procs -> Labels] /\ pc'[p] = label
      /\ \A q \in Procs : q # p => pc'[q] = pc[q]
  BY DEF IInv, TypeOK
<1>2. \A q \in Procs : /\ pc'[q] # "idle" => msg[q].ChatID \in Chats
                       /\ pc'[q] \in Built => IsEntry(entry[q])
  BY <1>1 DEF IInv, TypeOK, Chat, Built, Holding
<1>3. TypeOK'
  BY <1>1, <1>2 DEF IInv, TypeOK, Chat
<1>4. Chained' /\ PendingLinked'
  BY <1>1, RowsUnchanged DEF IInv
<1> QED BY <1>3, <1>4 DEF IInv

(***************************************************************************)
(* ReadTip brings an entry to the point of being inserted: it is linked to *)
(* the tip that was read.                                                  *)
(***************************************************************************)
LEMMA ReadTipIInv ==
    ASSUME IInv, NEW p \in Procs, ReadTip(p)
    PROVE  IInv'
<1> DEFINE e == NextEntry(rows[Chat(p)], msg[p])
<1>1. Chat(p) \in Chats
  BY DEF IInv, TypeOK, ReadTip
<1>2. PICK n \in Nat : ChainOfLength(rows[Chat(p)], n)
  BY <1>1 DEF IInv, Chained
<1>3. IsEntry(e) /\ LinkedAt(rows[Chat(p)], e.Sequence, e)
  BY <1>2, NextEntryLinked
<1>4. /\ pc' \in [Procs -> Labels] /\ pc'[p] = "append" /\ entry'[p] = e
      /\ msg' = msg /\ rows' = rows /\ limbo' = limbo
      /\ \A q \in Procs : q # p => pc'[q] = pc[q] /\ entry'[q] = entry[q]
  BY DEF IInv, TypeOK, ReadTip, Labels
<1> HIDE DEF e
<1>5. \A q \in Procs : /\ pc'[q] # "idle" => msg[q].ChatID \in Chats
                       /\ pc'[q] \in Built => IsEntry(entry'[q])
  BY <1>1, <1>3, <1>4 DEF IInv, TypeOK, Chat
<1>6. TypeOK'
  BY <1>4, <1>5 DEF IInv, TypeOK, Chat, ReadTip
<1>7. Chained'
  BY <1>4 DEF IInv, Chained
<1>8. PendingLinked'
  BY <1>3, <1>4 DEF IInv, PendingLinked, Chat
<1> QED BY <1>6, <1>7, <1>8 DEF IInv

(***************************************************************************)
(* Inserting a linked entry keeps every chat chained and every pending     *)
(* entry linked (scylla.go and storage.go AppendEntry).                    *)
(***************************************************************************)
LEMMA InsertIInv ==
    ASSUME IInv, NEW c \in Chats, NEW e, IsEntry(e), LinkedAt(rows[c], e.Sequence, e),
           AppendApplies(rows[c], e),
           rows' = [rows EXCEPT ![c] = Put(@, e.Sequence, Stored(e))],
           limbo' \subseteq limbo,
           \A p \in Procs : pc'[p] = "append" => pc[p] = "append",
           entry' = entry, msg' = msg
    PROVE  /\ DOMAIN rows' = Chats /\ \A d \in Chats : DOMAIN rows'[d] \subseteq Nat
           /\ Chained' /\ PendingLinked'
<1> DEFINE new == Put(rows[c], e.Sequence, Stored(e))
<1>1. PICK n \in Nat : ChainOfLength(rows[c], n)
  BY DEF IInv, Chained
<1>2. /\ ChainOfLength(new, n + 1)
      /\ DOMAIN rows[c] \subseteq DOMAIN new
      /\ \A s \in DOMAIN rows[c] : new[s] = rows[c][s]
  BY <1>1, AppendKeepsChain
<1>3. /\ DOMAIN rows' = Chats /\ rows'[c] = new
      /\ \A d \in Chats : d # c => rows'[d] = rows[d]
  BY DEF IInv, TypeOK
<1> HIDE DEF new
<1>4. \A d \in Chats : /\ DOMAIN rows[d] \subseteq DOMAIN rows'[d]
                       /\ \A s \in DOMAIN rows[d] : rows'[d][s] = rows[d][s]
  BY <1>2, <1>3
<1>5. Chained'
  <2>1. ASSUME NEW d \in Chats PROVE \E k \in Nat : ChainOfLength(rows'[d], k)
    <3>1. CASE d = c
      BY <3>1, <1>2, <1>3
    <3>2. CASE d # c
      BY <3>2, <1>3 DEF IInv, Chained
    <3> QED BY <3>1, <3>2
  <2> QED BY <2>1 DEF Chained
<1>6. \A d \in Chats : DOMAIN rows'[d] \subseteq Nat
  BY <1>5 DEF Chained, ChainOfLength
<1>7. PendingLinked'
  <2>1. ASSUME NEW p \in Procs, pc'[p] = "append"
        PROVE  LinkedAt(rows'[Chat(p)], entry[p].Sequence, entry[p])
    <3>1. Chat(p) \in Chats /\ LinkedAt(rows[Chat(p)], entry[p].Sequence, entry[p])
      BY <2>1 DEF IInv, TypeOK, PendingLinked
    <3> QED BY <3>1, <1>4, LinkedInExtension
  <2>2. ASSUME NEW w \in limbo PROVE LinkedAt(rows'[w.Chat], w.Entry.Sequence, w.Entry)
    <3>1. w.Chat \in Chats /\ LinkedAt(rows[w.Chat], w.Entry.Sequence, w.Entry)
      BY DEF IInv, TypeOK, PendingLinked
    <3> QED BY <3>1, <1>4, LinkedInExtension
  <2> QED BY <2>1, <2>2 DEF PendingLinked, Chat
<1> QED BY <1>3, <1>5, <1>6, <1>7

(***************************************************************************)
(* AppendEntry writes a linked entry, or refuses and returns.              *)
(***************************************************************************)
LEMMA AppendEntryIInv ==
    ASSUME IInv, NEW p \in Procs, AppendEntry(p)
    PROVE  IInv'
<1>1. /\ Chat(p) \in Chats /\ IsEntry(entry[p]) /\ pc[p] = "append"
      /\ LinkedAt(rows[Chat(p)], entry[p].Sequence, entry[p])
  BY DEF IInv, TypeOK, PendingLinked, AppendEntry, Built, Holding, Labels
<1>2. CASE AppendApplies(rows[Chat(p)], entry[p])
  <2>1. /\ rows' = [rows EXCEPT ![Chat(p)] = Put(@, entry[p].Sequence, Stored(entry[p]))]
        /\ Goto(p, "publish")
        /\ UNCHANGED <<snaps, limbo, lateSnaps, lock, local, response, roots, published,
                        appends>>
    BY <1>2 DEF AppendEntry
  <2>2. /\ pc' \in [Procs -> Labels] /\ pc'[p] = "publish"
        /\ \A q \in Procs : q # p => pc'[q] = pc[q]
    BY <2>1 DEF IInv, TypeOK, Labels
  <2>3. /\ DOMAIN rows' = Chats /\ \A d \in Chats : DOMAIN rows'[d] \subseteq Nat
        /\ Chained' /\ PendingLinked'
    <3>1. \A q \in Procs : pc'[q] = "append" => pc[q] = "append"
      BY <2>2
    <3> QED BY <1>1, <1>2, <2>1, <3>1, InsertIInv
  <2>4. \A q \in Procs : /\ pc'[q] # "idle" => msg[q].ChatID \in Chats
                         /\ pc'[q] \in Built => IsEntry(entry[q])
    BY <1>1, <2>2 DEF IInv, TypeOK, Chat
  <2>5. TypeOK'
    BY <2>1, <2>2, <2>3, <2>4 DEF IInv, TypeOK, Chat
  <2> QED BY <2>3, <2>5 DEF IInv
<1>3. CASE ~ AppendApplies(rows[Chat(p)], entry[p])
  <2>1. Return(p, 422) /\ UNCHANGED <<rows, snaps, limbo, lateSnaps, roots, published, appends>>
    BY <1>3 DEF AppendEntry
  <2>2. /\ TypeOK'
        /\ \A q \in Procs : pc'[q] = "append" =>
                pc[q] = "append" /\ entry'[q] = entry[q] /\ msg'[q] = msg[q]
    <3>1. pc[p] # "idle"
      BY <1>1
    <3> QED BY <2>1, <3>1, ReturnTyped DEF IInv, TypeOK
  <2> QED BY <2>1, <2>2, RowsUnchanged DEF IInv
<1> QED BY <1>2, <1>3

(***************************************************************************)
(* A return that writes no row keeps the invariant.                        *)
(***************************************************************************)
LEMMA ReturnIInv ==
    ASSUME IInv, NEW p \in Procs, NEW status, pc[p] # "idle", Return(p, status),
           rows' = rows, limbo' = limbo, \A w \in lateSnaps' : w.Chat \in Chats,
           DOMAIN snaps' = Chats, DOMAIN roots' = Chats, DOMAIN published' = Chats,
           appends' = appends
    PROVE  IInv'
<1>1. /\ TypeOK'
      /\ \A q \in Procs : pc'[q] = "append" =>
              pc[q] = "append" /\ entry'[q] = entry[q] /\ msg'[q] = msg[q]
  BY ReturnTyped DEF IInv, TypeOK
<1> QED BY <1>1, RowsUnchanged DEF IInv

(***************************************************************************)
(* The steps after the insert, and failed reads, write no row.             *)
(***************************************************************************)
LEMMA OtherStepIInv ==
    ASSUME IInv, NEW p \in Procs,
           \/ Lock(p) \/ PublishEntry(p) \/ ReadSnapshot(p) \/ ReadWindow(p)
           \/ SaveSnapshot(p) \/ CacheRoot(p) \/ PublishSnapshot(p)
           \/ ReadFails(p) \/ SaveTimesOut(p)
    PROVE  IInv'
<1> USE DEF Labels, Built, Holding
<1>0. ASSUME NEW c, NEW event, Publish(c, event) PROVE DOMAIN published' = Chats
  BY <1>0 DEF Publish, IInv, TypeOK
<1>1. CASE Lock(p)
  <2>1. lock' \in [Nodes -> [Chats -> Procs \cup {None}]]
    BY <1>1, NodeAssumption DEF Lock, IInv, TypeOK
  <2> QED BY <1>1, <2>1, MoveIInv DEF Lock, IInv, TypeOK
<1>2. CASE PublishEntry(p)
  <2>1. DOMAIN published' = Chats
    BY <1>0, <1>2 DEF PublishEntry
  <2>2. CASE Seals(entry[p])
    BY <1>2, <2>1, <2>2, MoveIInv DEF PublishEntry, IInv, TypeOK
  <2>3. CASE ~ Seals(entry[p])
    BY <1>2, <2>1, <2>3, ReturnIInv DEF PublishEntry, IInv, TypeOK
  <2> QED BY <2>2, <2>3
<1>3. CASE ReadSnapshot(p)
  BY <1>3, MoveIInv DEF ReadSnapshot, IInv, TypeOK
<1>4. CASE ReadWindow(p)
  BY <1>4, MoveIInv DEF ReadWindow, IInv, TypeOK
<1>5. CASE SaveSnapshot(p)
  <2>1. DOMAIN snaps' = Chats
    BY <1>5 DEF SaveSnapshot, Save, IInv, TypeOK
  <2> QED BY <1>5, <2>1, MoveIInv DEF SaveSnapshot, IInv, TypeOK
<1>6. CASE CacheRoot(p)
  BY <1>6, MoveIInv DEF CacheRoot, IInv, TypeOK
<1>7. CASE PublishSnapshot(p)
  <2>1. DOMAIN published' = Chats
    BY <1>0, <1>7 DEF PublishSnapshot
  <2> QED BY <1>7, <2>1, ReturnIInv DEF PublishSnapshot, IInv, TypeOK
<1>8. CASE ReadFails(p)
  BY <1>8, ReturnIInv DEF ReadFails, IInv, TypeOK
<1>9. CASE SaveTimesOut(p)
  <2>1. \A w \in lateSnaps' : w.Chat \in Chats
    BY <1>9 DEF SaveTimesOut, IInv, TypeOK
  <2> QED BY <1>9, <2>1, ReturnIInv DEF SaveTimesOut, IInv, TypeOK
<1> QED BY <1>1, <1>2, <1>3, <1>4, <1>5, <1>6, <1>7, <1>8, <1>9

(***************************************************************************)
(* A timed-out insert stays linked while it waits, and may be applied      *)
(* late, because it is still conditional on its position being free.       *)
(***************************************************************************)
LEMMA TimeoutIInv ==
    ASSUME IInv, NEW p \in Procs, AppendTimesOut(p)
    PROVE  IInv'
<1> DEFINE w == [Chat |-> Chat(p), Entry |-> entry[p]]
<1>1. /\ Chat(p) \in Chats /\ IsEntry(entry[p]) /\ pc[p] # "idle"
      /\ LinkedAt(rows[Chat(p)], entry[p].Sequence, entry[p])
  BY DEF IInv, TypeOK, PendingLinked, AppendTimesOut, Built, Holding, Labels
<1>2. limbo' = limbo \cup {w} /\ rows' = rows
  BY DEF AppendTimesOut
<1>3. w.Chat = Chat(p) /\ w.Entry = entry[p]
  OBVIOUS
<1> HIDE DEF w
<1>4. \A v \in limbo' : v.Chat \in Chats /\ IsEntry(v.Entry)
  BY <1>1, <1>2, <1>3 DEF IInv, TypeOK
<1>5. /\ TypeOK'
      /\ \A q \in Procs : pc'[q] = "append" =>
              pc[q] = "append" /\ entry'[q] = entry[q] /\ msg'[q] = msg[q]
  BY <1>1, <1>4, ReturnTyped DEF AppendTimesOut, IInv, TypeOK
<1>6. Chained'
  BY <1>2 DEF IInv, Chained
<1>7. PendingLinked'
  BY <1>1, <1>2, <1>3, <1>5 DEF IInv, PendingLinked, Chat
<1> QED BY <1>5, <1>6, <1>7 DEF IInv

(***************************************************************************)
(* A timed-out insert that is applied late is an insert like any other: its*)
(* entry is still linked to the row before its position (scylla.go         *)
(* AppendEntry).                                                           *)
(***************************************************************************)
LEMMA LateAppendIInv ==
    ASSUME IInv, NEW w \in limbo, LateAppend(w)
    PROVE  IInv'
<1>1. /\ w.Chat \in Chats /\ IsEntry(w.Entry)
      /\ LinkedAt(rows[w.Chat], w.Entry.Sequence, w.Entry)
  BY DEF IInv, TypeOK, PendingLinked
<1>2. /\ DOMAIN rows' = Chats /\ \A d \in Chats : DOMAIN rows'[d] \subseteq Nat
      /\ Chained' /\ PendingLinked'
  BY <1>1, InsertIInv DEF LateAppend
<1>3. TypeOK'
  BY <1>2 DEF LateAppend, IInv, TypeOK, Chat
<1> QED BY <1>2, <1>3 DEF IInv

(***************************************************************************)
(* A snapshot that is applied late touches no entry (scylla.go             *)
(* SaveSnapshot).                                                          *)
(***************************************************************************)
LEMMA LateSaveIInv ==
    ASSUME IInv, NEW w \in lateSnaps, LateSave(w)
    PROVE  IInv'
<1>1. DOMAIN snaps' = Chats
  BY DEF LateSave, Save, IInv, TypeOK
<1>2. TypeOK'
  BY <1>1 DEF LateSave, IInv, TypeOK, Chat
<1>3. Chained' /\ PendingLinked'
  BY RowsUnchanged DEF LateSave, IInv
<1> QED BY <1>2, <1>3 DEF IInv

(***************************************************************************)
(* A crash loses local state only.                                         *)
(***************************************************************************)
LEMMA CrashIInv ==
    ASSUME IInv, NEW n \in Nodes, Crash(n)
    PROVE  IInv'
<1>1. /\ pc' \in [Procs -> Labels]
      /\ \A q \in Procs : pc'[q] # "idle" =>
              pc'[q] = pc[q] /\ entry'[q] = entry[q] /\ msg'[q] = msg[q]
      /\ DOMAIN msg' = Procs /\ DOMAIN entry' = Procs
      /\ DOMAIN snap' = Procs /\ DOMAIN response' = Procs
  BY DEF Crash, Dies, IInv, TypeOK, Labels
<1>2. lock' \in [Nodes -> [Chats -> Procs \cup {None}]]
  BY DEF Crash, Dies, IInv, TypeOK
<1>3. UNCHANGED <<rows, snaps, limbo, lateSnaps, roots, published, appends>>
  BY DEF Crash, Dies
<1>4. \A q \in Procs : /\ pc'[q] # "idle" => msg'[q].ChatID \in Chats
                       /\ pc'[q] \in Built => IsEntry(entry'[q])
  BY <1>1 DEF IInv, TypeOK, Chat, Built, Holding
<1>5. TypeOK'
  BY <1>1, <1>2, <1>3, <1>4 DEF IInv, TypeOK, Chat
<1>6. Chained' /\ PendingLinked'
  BY <1>1, <1>3, RowsUnchanged DEF IInv
<1> QED BY <1>5, <1>6 DEF IInv

(***************************************************************************)
(* Every step of the system preserves the invariant.                       *)
(***************************************************************************)
LEMMA NextIInv == IInv /\ [Next]_vars => IInv'
<1> SUFFICES ASSUME IInv, [Next]_vars PROVE IInv'
  OBVIOUS
<1>1. ASSUME NEW p \in Procs, NEW r \in Requests,
             BadRequest(p, r) \/ Reject(p, r) \/ Accept(p, r)
      PROVE  IInv'
  BY <1>1, ValidationIInv
<1>2. ASSUME NEW p \in Procs, Lock(p) \/ Step(p) PROVE IInv'
  BY <1>2, ReadTipIInv, AppendEntryIInv, OtherStepIInv, TimeoutIInv DEF Step
<1>3. ASSUME NEW w \in limbo, LateAppend(w) PROVE IInv'
  BY <1>3, LateAppendIInv
<1>4. ASSUME NEW w \in lateSnaps, LateSave(w) PROVE IInv'
  BY <1>4, LateSaveIInv
<1>5. ASSUME NEW n \in Nodes, Crash(n) PROVE IInv'
  BY <1>5, CrashIInv
<1>6. CASE UNCHANGED vars
  BY <1>6 DEF IInv, TypeOK, Chained, PendingLinked, Chat, vars
<1> QED BY <1>1, <1>2, <1>3, <1>4, <1>5, <1>6 DEF Next

(***************************************************************************)
(* The inductive invariant holds in every state.                           *)
(***************************************************************************)
LEMMA IInvHolds == Spec => []IInv
<1>1. Init => IInv
  BY InitIInv
<1>2. IInv /\ [Next]_vars => IInv'
  BY NextIInv
<1> QED BY <1>1, <1>2, PTL DEF Spec

-----------------------------------------------------------------------------
(***************************************************************************)
(* The theorems.                                                           *)
(***************************************************************************)

(***************************************************************************)
(* The write path keeps its types: in particular a goroutine that is past  *)
(* validation works on one of the chats (log.go Append).                   *)
(***************************************************************************)
THEOREM TypeCorrect == Spec => []TypeOK
<1>1. IInv => TypeOK
  BY DEF IInv
<1> QED BY <1>1, IInvHolds, PTL

(***************************************************************************)
(* Every chat is one gapless hash chain, for any number of nodes sharing   *)
(* the store, with timeouts, late inserts and crashes (log.go Append,      *)
(* scylla.go AppendEntry).                                                 *)
(***************************************************************************)
THEOREM ChainHolds == Spec => []ChainOK
<1>1. IInv => ChainOK
  BY ChainedImpliesChainOK DEF IInv
<1> QED BY <1>1, IInvHolds, PTL

(***************************************************************************)
(* Between reading the tip and inserting, and for as long as a timed-out   *)
(* insert may be applied, an entry stays linked to the row before its      *)
(* position (log.go Append).                                               *)
(***************************************************************************)
THEOREM PendingHolds == Spec => []PendingLinked
<1>1. IInv => PendingLinked
  BY DEF IInv
<1> QED BY <1>1, IInvHolds, PTL

\* What AppendOnly asks of a step.
RowsExtend == \A c \in Chats : IsRestriction(rows[c], rows'[c])

(***************************************************************************)
(* No step rewrites or removes a row: AppendEntry's condition is false at  *)
(* a position that is taken.                                               *)
(***************************************************************************)
LEMMA StepExtends == IInv /\ [Next]_vars => RowsExtend
<1> SUFFICES ASSUME IInv, [Next]_vars PROVE RowsExtend
  OBVIOUS
<1>1. ASSUME rows' = rows PROVE RowsExtend
  BY <1>1 DEF RowsExtend, IsRestriction
<1>2. ASSUME NEW c \in Chats, NEW e, IsEntry(e), LinkedAt(rows[c], e.Sequence, e),
             AppendApplies(rows[c], e),
             rows' = [rows EXCEPT ![c] = Put(@, e.Sequence, Stored(e))]
      PROVE  RowsExtend
  <2> DEFINE new == Put(rows[c], e.Sequence, Stored(e))
  <2>1. PICK n \in Nat : ChainOfLength(rows[c], n)
    BY DEF IInv, Chained
  <2>2. /\ DOMAIN rows[c] \subseteq DOMAIN new
        /\ \A s \in DOMAIN rows[c] : new[s] = rows[c][s]
    BY <1>2, <2>1, AppendKeepsChain
  <2>3. rows'[c] = new /\ \A d \in Chats : d # c => rows'[d] = rows[d]
    BY <1>2 DEF IInv, TypeOK
  <2> HIDE DEF new
  <2> QED BY <2>2, <2>3 DEF RowsExtend, IsRestriction
<1>3. ASSUME NEW p \in Procs, AppendEntry(p) PROVE RowsExtend
  <2>1. /\ Chat(p) \in Chats /\ IsEntry(entry[p])
        /\ LinkedAt(rows[Chat(p)], entry[p].Sequence, entry[p])
    BY <1>3 DEF IInv, TypeOK, PendingLinked, AppendEntry, Built, Holding, Labels
  <2>2. CASE rows' = rows
    BY <2>2, <1>1
  <2>3. CASE AppendApplies(rows[Chat(p)], entry[p])
    BY <1>2, <1>3, <2>1, <2>3 DEF AppendEntry
  <2> QED BY <1>3, <2>2, <2>3 DEF AppendEntry
<1>4. ASSUME NEW w \in limbo, LateAppend(w) PROVE RowsExtend
  <2>1. /\ w.Chat \in Chats /\ IsEntry(w.Entry)
        /\ LinkedAt(rows[w.Chat], w.Entry.Sequence, w.Entry)
    BY DEF IInv, TypeOK, PendingLinked
  <2> QED BY <1>2, <1>4, <2>1 DEF LateAppend
<1>5. ASSUME NEW p \in Procs, Lock(p) \/ Step(p), ~ AppendEntry(p) PROVE rows' = rows
  BY <1>5 DEF Step, Lock, ReadTip, PublishEntry, ReadSnapshot, ReadWindow, SaveSnapshot,
              CacheRoot, PublishSnapshot, ReadFails, AppendTimesOut, SaveTimesOut
<1>6. ASSUME NEW p \in Procs, NEW r \in Requests,
             BadRequest(p, r) \/ Reject(p, r) \/ Accept(p, r)
      PROVE  rows' = rows
  BY <1>6 DEF BadRequest, Reject, Accept
<1>7. ASSUME NEW n \in Nodes, Crash(n) PROVE rows' = rows
  BY <1>7 DEF Crash, Dies
<1>8. ASSUME NEW w \in lateSnaps, LateSave(w) PROVE rows' = rows
  BY <1>8 DEF LateSave
<1>9. CASE UNCHANGED vars
  BY <1>9, <1>1 DEF vars
<1> QED BY <1>1, <1>3, <1>4, <1>5, <1>6, <1>7, <1>8, <1>9 DEF Next, Step

(***************************************************************************)
(* A stored entry is never removed or rewritten, whatever nodes, timeouts  *)
(* and crashes do (scylla.go: "never updated or deleted").                 *)
(***************************************************************************)
THEOREM AppendOnlyHolds == Spec => AppendOnly
<1>1. IInv /\ [Next]_vars => [RowsExtend]_vars
  BY StepExtends
<1>2. Spec => [][RowsExtend]_vars
  BY <1>1, IInvHolds, PTL DEF Spec
<1> QED BY <1>2 DEF AppendOnly, RowsExtend

-----------------------------------------------------------------------------
(***************************************************************************)
(* Acknowledged entries.  AckDurable needs to know, before the response is *)
(* sent, that what the goroutine has written is still there, which in turn *)
(* needs that rows only extend.                                            *)
(***************************************************************************)
ProcAck(p) ==
    /\ pc[p] \in Built => entry[p].Message = msg[p]
    /\ pc[p] \in Built \ {"append"} =>
            /\ entry[p].Sequence \in DOMAIN rows[Chat(p)]
            /\ rows[Chat(p)][entry[p].Sequence] = Stored(entry[p])
    /\ response[p].Status = 201 =>
            LET e == response[p].Entry
                c == e.Message.ChatID
            IN  /\ c \in Chats
                /\ e.Sequence \in DOMAIN rows[c] /\ rows[c][e.Sequence] = Stored(e)

AckInv == \A p \in Procs : ProcAck(p)

(***************************************************************************)
(* A goroutine that neither writes nor answers 201 in a step keeps what it *)
(* knows.                                                                  *)
(***************************************************************************)
LEMMA KeepAck ==
    ASSUME IInv, RowsExtend, NEW p \in Procs, ProcAck(p),
           pc'[p] \in Built => /\ pc[p] \in Built /\ (pc'[p] = "append" \/ pc[p] # "append")
                              /\ entry'[p] = entry[p] /\ msg'[p] = msg[p],
           response'[p].Status = 201 => response'[p] = response[p]
    PROVE  ProcAck(p)'
<1>1. pc'[p] \in Built => entry'[p].Message = msg'[p]
  BY DEF ProcAck
<1>2. ASSUME pc'[p] \in Built \ {"append"}
      PROVE  /\ entry'[p].Sequence \in DOMAIN rows'[msg'[p].ChatID]
             /\ rows'[msg'[p].ChatID][entry'[p].Sequence] = Stored(entry'[p])
  <2>1. Chat(p) \in Chats /\ pc[p] \in Built \ {"append"}
    BY <1>2 DEF IInv, TypeOK, Built, Holding
  <2> QED BY <1>2, <2>1 DEF ProcAck, RowsExtend, IsRestriction, Chat
<1>3. ASSUME response'[p].Status = 201
      PROVE  LET e == response'[p].Entry
                 c == e.Message.ChatID
             IN  /\ c \in Chats
                 /\ e.Sequence \in DOMAIN rows'[c] /\ rows'[c][e.Sequence] = Stored(e)
  BY <1>3 DEF ProcAck, RowsExtend, IsRestriction
<1> QED BY <1>1, <1>2, <1>3 DEF ProcAck, Chat, Stored

(***************************************************************************)
(* A goroutine that answers 201 has its entry stored.                      *)
(***************************************************************************)
LEMMA ReturnAck ==
    ASSUME IInv, NEW p \in Procs, ProcAck(p), pc[p] \in Built \ {"append"},
           Return(p, 201), rows' = rows
    PROVE  ProcAck(p)'
<1>1. pc'[p] = "idle" /\ response'[p] = [Status |-> 201, Entry |-> entry[p]]
  BY DEF Return, IInv, TypeOK
<1>2. entry[p].Message.ChatID = Chat(p) /\ Chat(p) \in Chats
  BY DEF ProcAck, Chat, IInv, TypeOK, Built, Holding
<1>3. response'[p].Entry = entry[p]
  BY <1>1
<1> QED BY <1>1, <1>2, <1>3 DEF ProcAck, Stored, Built, Holding

(***************************************************************************)
(* What a step of p itself does to what p knows.                           *)
(***************************************************************************)
LEMMA StepAck ==
    ASSUME IInv, RowsExtend, NEW p \in Procs, ProcAck(p), Lock(p) \/ Step(p)
    PROVE  ProcAck(p)'
<1> USE DEF Labels, Built, Holding
<1>0. ASSUME NEW status, Return(p, status), status # 201 PROVE ProcAck(p)'
  <2>1. pc'[p] = "idle" /\ response'[p].Status = status
    BY <1>0 DEF Return, IInv, TypeOK
  <2> QED BY <1>0, <2>1, KeepAck
<1>1. CASE Lock(p)
  BY <1>1, KeepAck DEF Lock, IInv, TypeOK
<1>2. CASE ReadTip(p)
  <2>1. PICK n \in Nat : ChainOfLength(rows[Chat(p)], n)
    BY <1>2 DEF ReadTip, IInv, TypeOK, Chained
  <2>2. NextEntry(rows[Chat(p)], msg[p]).Message = msg[p]
    BY <2>1, NextEntryLinked
  <2>3. /\ pc'[p] = "append" /\ entry'[p].Message = msg[p]
        /\ UNCHANGED <<msg, response, rows>>
    BY <1>2, <2>2 DEF ReadTip, IInv, TypeOK
  <2> QED BY <2>3 DEF ProcAck, Stored
<1>3. CASE AppendEntry(p)
  <2>1. CASE AppendApplies(rows[Chat(p)], entry[p])
    <3>1. /\ pc[p] = "append" /\ Chat(p) \in Chats /\ pc'[p] = "publish"
          /\ UNCHANGED <<local, response>>
          /\ rows' = [rows EXCEPT ![Chat(p)] = Put(@, entry[p].Sequence, Stored(entry[p]))]
      BY <1>3, <2>1 DEF AppendEntry, IInv, TypeOK
    <3>2. rows'[Chat(p)] = Put(rows[Chat(p)], entry[p].Sequence, Stored(entry[p]))
      BY <3>1 DEF IInv, TypeOK
    <3>3. /\ entry[p].Sequence \in DOMAIN rows'[Chat(p)]
          /\ rows'[Chat(p)][entry[p].Sequence] = Stored(entry[p])
      BY <3>2 DEF Put
    <3>4. response[p].Status = 201 =>
            LET e == response[p].Entry
                c == e.Message.ChatID
            IN  /\ c \in Chats
                /\ e.Sequence \in DOMAIN rows'[c] /\ rows'[c][e.Sequence] = Stored(e)
      BY DEF ProcAck, RowsExtend, IsRestriction
    <3> QED BY <3>1, <3>3, <3>4 DEF ProcAck, Chat, Stored
  <2>2. CASE ~ AppendApplies(rows[Chat(p)], entry[p])
    BY <1>0, <1>3, <2>2 DEF AppendEntry
  <2> QED BY <2>1, <2>2
<1>4. CASE PublishEntry(p)
  <2>1. CASE Seals(entry[p])
    BY <1>4, <2>1, KeepAck DEF PublishEntry, IInv, TypeOK
  <2>2. CASE ~ Seals(entry[p])
    BY <1>4, <2>2, ReturnAck DEF PublishEntry
  <2> QED BY <2>1, <2>2
<1>5. CASE ReadSnapshot(p) \/ ReadWindow(p) \/ SaveSnapshot(p) \/ CacheRoot(p)
  BY <1>5, KeepAck DEF ReadSnapshot, ReadWindow, SaveSnapshot, CacheRoot, IInv, TypeOK
<1>6. CASE PublishSnapshot(p)
  BY <1>6, ReturnAck DEF PublishSnapshot
<1>7. CASE ReadFails(p) \/ AppendTimesOut(p) \/ SaveTimesOut(p)
  BY <1>0, <1>7 DEF ReadFails, AppendTimesOut, SaveTimesOut
<1> QED BY <1>1, <1>2, <1>3, <1>4, <1>5, <1>6, <1>7 DEF Step

(***************************************************************************)
(* A goroutine's step leaves the local state of the others alone.          *)
(***************************************************************************)
LEMMA OthersUntouched ==
    ASSUME IInv, NEW p \in Procs, NEW q \in Procs, q # p,
           Lock(p) \/ Step(p)
    PROVE  /\ pc'[q] = pc[q] /\ entry'[q] = entry[q] /\ msg'[q] = msg[q]
           /\ response'[q] = response[q]
<1>1. ASSUME NEW status, Return(p, status)
      PROVE  /\ pc'[q] = pc[q] /\ entry'[q] = entry[q] /\ msg'[q] = msg[q]
             /\ response'[q] = response[q]
  BY <1>1 DEF Return, IInv, TypeOK
<1>2. CASE Lock(p) \/ ReadTip(p) \/ ReadSnapshot(p) \/ ReadWindow(p) \/ SaveSnapshot(p)
           \/ CacheRoot(p)
  BY <1>2 DEF Lock, ReadTip, ReadSnapshot, ReadWindow, SaveSnapshot, CacheRoot, IInv, TypeOK
<1>3. CASE AppendEntry(p)
  BY <1>1, <1>3 DEF AppendEntry, IInv, TypeOK
<1>4. CASE PublishEntry(p)
  BY <1>1, <1>4 DEF PublishEntry, IInv, TypeOK
<1>5. CASE PublishSnapshot(p) \/ ReadFails(p) \/ AppendTimesOut(p) \/ SaveTimesOut(p)
  BY <1>1, <1>5 DEF PublishSnapshot, ReadFails, AppendTimesOut, SaveTimesOut
<1> QED BY <1>2, <1>3, <1>4, <1>5 DEF Step

(***************************************************************************)
(* Every step keeps what each goroutine knows of its own entry: the steps of*)
(* the goroutine itself by StepAck, the others' because rows only extend.  *)
(***************************************************************************)
LEMMA NextAck == IInv /\ AckInv /\ RowsExtend /\ [Next]_vars => AckInv'
<1> SUFFICES ASSUME IInv, AckInv, RowsExtend, [Next]_vars, NEW q \in Procs
             PROVE  ProcAck(q)'
  BY DEF AckInv
<1>0. ProcAck(q)
  BY DEF AckInv
<1>1. ASSUME NEW p \in Procs, Lock(p) \/ Step(p) PROVE ProcAck(q)'
  <2>1. CASE q = p
    BY <1>0, <1>1, <2>1, StepAck
  <2>2. CASE q # p
    <3>1. /\ pc'[q] = pc[q] /\ entry'[q] = entry[q] /\ msg'[q] = msg[q]
          /\ response'[q] = response[q]
      BY <1>1, <2>2, OthersUntouched
    <3> QED BY <1>0, <3>1, KeepAck
  <2> QED BY <2>1, <2>2
<1>2. ASSUME NEW p \in Procs, NEW r \in Requests,
             BadRequest(p, r) \/ Reject(p, r) \/ Accept(p, r)
      PROVE  ProcAck(q)'
  <2>1. /\ pc'[q] \in Built => pc'[q] = pc[q] /\ entry'[q] = entry[q] /\ msg'[q] = msg[q]
        /\ response'[q].Status = 201 => response'[q] = response[q]
    BY <1>2 DEF BadRequest, Reject, Accept, Unanswered, IInv, TypeOK, Built, Holding,
                Labels
  <2> QED BY <1>0, <2>1, KeepAck
<1>3. ASSUME NEW w \in limbo, LateAppend(w) PROVE ProcAck(q)'
  BY <1>0, <1>3, KeepAck DEF LateAppend
<1>4. ASSUME NEW n \in Nodes, Crash(n) PROVE ProcAck(q)'
  <2>1. /\ pc'[q] \in Built => pc'[q] = pc[q] /\ entry'[q] = entry[q] /\ msg'[q] = msg[q]
        /\ response'[q].Status # 0 => response'[q] = response[q]
    BY <1>4 DEF Crash, Dies, Unanswered, Built, Holding, Labels
  <2> QED BY <1>0, <2>1, KeepAck
<1>5. ASSUME NEW w \in lateSnaps, LateSave(w) PROVE ProcAck(q)'
  BY <1>0, <1>5, KeepAck DEF LateSave
<1>6. CASE UNCHANGED vars
  BY <1>0, <1>6, KeepAck DEF vars
<1> QED BY <1>1, <1>2, <1>3, <1>4, <1>5, <1>6 DEF Next

(***************************************************************************)
(* An entry acknowledged with 201 is stored at the position the response   *)
(* names, and remains there (server.go handleSend).                        *)
(***************************************************************************)
THEOREM AckHolds == Spec => []AckDurable
<1>1. Init => AckInv
  BY DEF Init, AckInv, ProcAck, Unanswered, Built, Holding, Labels
<1>2. IInv /\ AckInv /\ [Next]_vars => AckInv'
  BY StepExtends, NextAck
<1>3. AckInv => AckDurable
  BY DEF AckInv, ProcAck, AckDurable
<1> QED BY <1>1, <1>2, <1>3, IInvHolds, PTL DEF Spec
-----------------------------------------------------------------------------
(***************************************************************************)
(* Events.  EventsBacked needs to know that a goroutine about to publish   *)
(* has its entry stored, which AckInv says, and that rows only extend.     *)
(***************************************************************************)
Backed(c, ev) ==
    /\ ev.Sequence \in DOMAIN rows[c]
    /\ ev.EntryHash = rows[c][ev.Sequence].EntryHash

EventInv ==
    \A c \in Chats : \E S : /\ published[c] \in Seq(S)
                            /\ \A ev \in S : Backed(c, ev)

(***************************************************************************)
(* A sequence of events with one more is a sequence over one more event.   *)
(***************************************************************************)
LEMMA AppendedEvents ==
    ASSUME NEW S, NEW s \in Seq(S), NEW ev
    PROVE  Append(s, ev) \in Seq(S \cup {ev})
<1>1. s \in Seq(S \cup {ev})
  BY SeqMonotonic
<1> QED BY <1>1, AppendProperties

(***************************************************************************)
(* A goroutine that publishes tells of an entry that is stored (log.go     *)
(* Append, snapshot: Publish after AppendEntry).                           *)
(***************************************************************************)
LEMMA PublishesStored ==
    ASSUME IInv, AckInv, NEW p \in Procs, pc[p] \in Built \ {"append"}, NEW kind
    PROVE  Backed(Chat(p), Event(kind, entry[p]))
<1>1. /\ entry[p].Sequence \in DOMAIN rows[Chat(p)]
      /\ rows[Chat(p)][entry[p].Sequence] = Stored(entry[p])
  BY DEF AckInv, ProcAck
<1>2. IsEntry(entry[p])
  BY DEF IInv, TypeOK
<1>3. Stored(entry[p]).EntryHash = entry[p].EntryHash
  BY <1>2, StoredKeeps
<1>4. /\ Event(kind, entry[p]).Sequence = entry[p].Sequence
      /\ Event(kind, entry[p]).EntryHash = entry[p].EntryHash
  BY DEF Event
<1> QED BY <1>1, <1>3, <1>4 DEF Backed

(***************************************************************************)
(* Every step keeps the events backed: those that publish by the entry     *)
(* they tell of, all of them because rows only extend.                     *)
(***************************************************************************)
LEMMA NextEvents == IInv /\ AckInv /\ EventInv /\ RowsExtend /\ [Next]_vars => EventInv'
<1> SUFFICES ASSUME IInv, AckInv, EventInv, RowsExtend, [Next]_vars, NEW c \in Chats
             PROVE  \E S : /\ published'[c] \in Seq(S)
                           /\ \A ev \in S : Backed(c, ev)'
  BY DEF EventInv
<1>1. PICK S : published[c] \in Seq(S) /\ \A ev \in S : Backed(c, ev)
  BY DEF EventInv
<1>2. ASSUME NEW ev, Backed(c, ev) PROVE Backed(c, ev)'
  BY <1>2 DEF Backed, RowsExtend, IsRestriction
<1>3. ASSUME published'[c] = published[c]
      PROVE  \E T : published'[c] \in Seq(T) /\ \A ev \in T : Backed(c, ev)'
  BY <1>1, <1>2, <1>3
<1>4. ASSUME NEW p \in Procs, NEW kind, pc[p] \in Built \ {"append"},
             Publish(Chat(p), Event(kind, entry[p]))
      PROVE  \E T : published'[c] \in Seq(T) /\ \A ev \in T : Backed(c, ev)'
  <2> DEFINE new == Event(kind, entry[p])
  <2>1. CASE published'[c] = published[c]
    BY <1>3, <2>1
  <2>2. CASE published'[c] # published[c]
    <3>1. c = Chat(p) /\ published'[c] = Append(published[c], new)
      BY <1>4, <2>2 DEF Publish, IInv, TypeOK
    <3>2. Backed(c, new)
      BY <1>4, <3>1, PublishesStored
    <3> HIDE DEF new
    <3>3. published'[c] \in Seq(S \cup {new})
      BY <1>1, <3>1, AppendedEvents
    <3>4. \A ev \in S \cup {new} : Backed(c, ev)'
      BY <1>1, <1>2, <3>2
    <3> QED BY <3>3, <3>4
  <2> QED BY <2>1, <2>2
<1>5. ASSUME NEW p \in Procs, PublishEntry(p) \/ PublishSnapshot(p)
      PROVE  \E T : published'[c] \in Seq(T) /\ \A ev \in T : Backed(c, ev)'
  <2>1. pc[p] \in Built \ {"append"} /\ \E kind : Publish(Chat(p), Event(kind, entry[p]))
    BY <1>5 DEF PublishEntry, PublishSnapshot, Built, Holding, Labels
  <2> QED BY <1>4, <2>1
<1>6. ASSUME NEW p \in Procs, Lock(p) \/ Step(p), ~ PublishEntry(p), ~ PublishSnapshot(p)
      PROVE  published' = published
  BY <1>6 DEF Step, Lock, ReadTip, AppendEntry, ReadSnapshot, ReadWindow, SaveSnapshot,
              CacheRoot, ReadFails, AppendTimesOut, SaveTimesOut
<1>7. ASSUME NEW p \in Procs, NEW r \in Requests,
             BadRequest(p, r) \/ Reject(p, r) \/ Accept(p, r)
      PROVE  published' = published
  BY <1>7 DEF BadRequest, Reject, Accept
<1>8. ASSUME NEW w \in limbo, LateAppend(w) PROVE published' = published
  BY <1>8 DEF LateAppend
<1>9. ASSUME NEW w \in lateSnaps, LateSave(w) PROVE published' = published
  BY <1>9 DEF LateSave
<1>10. ASSUME NEW n \in Nodes, Crash(n) PROVE published' = published
  BY <1>10 DEF Crash, Dies
<1>11. CASE UNCHANGED vars
  BY <1>3, <1>11 DEF vars
<1> QED BY <1>3, <1>5, <1>6, <1>7, <1>8, <1>9, <1>10, <1>11 DEF Next, Step

(***************************************************************************)
(* A client that is told of an entry, or of a snapshot that ends with it,  *)
(* finds it stored with the hash it was told, whatever other nodes,        *)
(* timeouts and crashes do (log.go Append, snapshot).                      *)
(***************************************************************************)
THEOREM EventsHold == Spec => []EventsBacked
<1>1. Init => AckInv /\ EventInv
  <2>1. Init => AckInv
    BY DEF Init, AckInv, ProcAck, Unanswered, Built, Holding, Labels
  <2>2. ASSUME Init, NEW c \in Chats PROVE published[c] \in Seq({})
    BY <2>2 DEF Init
  <2> QED BY <2>1, <2>2 DEF EventInv
<1>2. IInv /\ AckInv /\ EventInv /\ [Next]_vars => (AckInv /\ EventInv)'
  BY StepExtends, NextAck, NextEvents
<1>3. EventInv => EventsBacked
  <2> SUFFICES ASSUME EventInv, NEW c \in Chats, NEW i \in DOMAIN published[c]
               PROVE  Backed(c, published[c][i])
    BY DEF EventsBacked, Backed
  <2>1. PICK S : published[c] \in Seq(S) /\ \A ev \in S : Backed(c, ev)
    BY DEF EventInv
  <2>2. published[c][i] \in S
    BY <2>1
  <2> QED BY <2>1, <2>2
<1> QED BY <1>1, <1>2, <1>3, IInvHolds, PTL DEF Spec

-----------------------------------------------------------------------------
(***************************************************************************)
(* Authenticity.  It rests on what clients send: a signature that passes   *)
(* is over the chat that the body names, and, with ScyllaDB, timestamps    *)
(* are in whole milliseconds, as models.NewMessage and the web client make *)
(* them.                                                                   *)
(***************************************************************************)
SignsItsBody ==
    \A r \in Requests : VerifyMessage(decodeSignedMessage(r)) => decodeSignedMessage(r) = r.Msg

Aligned == Memory \/ \A r \in Requests : Truncate(r.Msg.Timestamp) = r.Msg.Timestamp

\* What Append lets through, and where it goes.
Authentic(c, m) ==
    /\ m.ChatID = c
    /\ \E r \in Requests : r.Msg = m
    /\ supportedVersion(m.SchemaVersion)
    /\ VerifyMessage(m)
    /\ m = [k \in DOMAIN m |-> m[k]]

Hashed(e) == e.EntryHash = ComputeHash(e)

AuthInv ==
    /\ \A p \in Procs : pc[p] # "idle" => Authentic(Chat(p), msg[p])
    /\ \A p \in Procs : pc[p] \in Built => entry[p].Message = msg[p] /\ Hashed(entry[p])
    /\ \A w \in limbo : Authentic(w.Chat, w.Entry.Message) /\ Hashed(w.Entry)
    /\ \A c \in Chats : \A s \in DOMAIN rows[c] :
          Authentic(c, rows[c][s].Message) /\ Hashed(rows[c][s])

(***************************************************************************)
(* What is accepted is what was posted (server.go decodeSignedMessage,     *)
(* log.go Append).                                                         *)
(***************************************************************************)
LEMMA AcceptedAuthentic ==
    ASSUME SignsItsBody, NEW r \in Requests, Accepts(decodeSignedMessage(r), r.Cap)
    PROVE  Authentic(r.Path, decodeSignedMessage(r))
<1> DEFINE m == decodeSignedMessage(r)
<1>1. m.ChatID = r.Path /\ m = [k \in DOMAIN m |-> m[k]]
  BY RequestAssumption DEF decodeSignedMessage
<1>2. supportedVersion(m.SchemaVersion) /\ VerifyMessage(m) /\ m = r.Msg
  BY DEF Accepts, SignsItsBody
<1> HIDE DEF m
<1> QED BY <1>1, <1>2 DEF Authentic, m

(***************************************************************************)
(* An entry that is read back is the one that was written (scylla.go       *)
(* AppendEntry, EntriesSince).                                             *)
(***************************************************************************)
LEMMA StoredAuthentic ==
    ASSUME Aligned, NEW e, IsEntry(e), NEW c, Authentic(c, e.Message), Hashed(e)
    PROVE  Authentic(c, Stored(e).Message) /\ Hashed(Stored(e))
<1>1. CASE Memory
  BY <1>1 DEF Stored
<1>2. CASE ~ Memory
  <2> DEFINE m == e.Message
  <2>1. Truncate(m.Timestamp) = m.Timestamp /\ m = [k \in DOMAIN m |-> m[k]]
    BY <1>2 DEF Aligned, Authentic
  <2>2. /\ Stored(e).Message = [m EXCEPT !.Timestamp = Truncate(m.Timestamp)]
        /\ Stored(e).Sequence = e.Sequence /\ Stored(e).PrevHash = e.PrevHash
        /\ Stored(e).EntryHash = e.EntryHash
    BY <1>2 DEF Stored, RowOf, IsEntry
  <2>3. [m EXCEPT !.Timestamp = m.Timestamp] = [k \in DOMAIN m |-> m[k]]
    OBVIOUS
  <2>4. Stored(e).Message = m
    BY <2>1, <2>2, <2>3
  <2> QED BY <2>2, <2>4 DEF Hashed, ComputeHash
<1> QED BY <1>1, <1>2

(***************************************************************************)
(* The entry ReadTip builds carries its own hash (log.go Append).          *)
(***************************************************************************)
LEMMA NextEntryHashed ==
    ASSUME NEW table, NEW m
    PROVE  NextEntry(table, m).Message = m /\ Hashed(NextEntry(table, m))
BY DEF NextEntry, Hashed, ComputeHash

(***************************************************************************)
(* Every step keeps the messages authentic.                                *)
(***************************************************************************)
LEMMA NextAuth ==
    ASSUME SignsItsBody, Aligned
    PROVE  IInv /\ AuthInv /\ [Next]_vars => AuthInv'
<1> SUFFICES ASSUME IInv, AuthInv, [Next]_vars PROVE AuthInv'
  OBVIOUS
<1> USE DEF Labels, Built, Holding
<1>1. ASSUME rows' = rows, limbo' = limbo,
             \A q \in Procs :
                 /\ pc'[q] # "idle" => pc[q] # "idle" /\ msg'[q] = msg[q]
                 /\ pc'[q] \in Built => pc[q] \in Built /\ entry'[q] = entry[q]
      PROVE  AuthInv'
  BY <1>1 DEF AuthInv, Chat
<1>2. ASSUME NEW p \in Procs, NEW status, Return(p, status), rows' = rows,
             \A w \in limbo' : w \in limbo \/ w = [Chat |-> Chat(p), Entry |-> entry[p]],
             pc[p] \in Built \/ limbo' = limbo
      PROVE  AuthInv'
  <2>1. ASSUME NEW q \in Procs, pc'[q] # "idle"
        PROVE  pc'[q] = pc[q] /\ msg'[q] = msg[q] /\ entry'[q] = entry[q]
    BY <1>2, <2>1 DEF Return, IInv, TypeOK
  <2>2. ASSUME NEW w \in limbo' PROVE Authentic(w.Chat, w.Entry.Message) /\ Hashed(w.Entry)
    <3>1. CASE w \in limbo
      BY <3>1 DEF AuthInv
    <3>2. CASE w \notin limbo
      <4>1. w = [Chat |-> Chat(p), Entry |-> entry[p]] /\ pc[p] \in Built
        BY <1>2, <3>2
      <4>2. w.Chat = Chat(p) /\ w.Entry = entry[p]
        BY <4>1
      <4> QED BY <4>1, <4>2 DEF AuthInv
    <3> QED BY <3>1, <3>2
  <2>3. \A q \in Procs : pc'[q] # "idle" => Authentic(msg'[q].ChatID, msg'[q])
    BY <2>1 DEF AuthInv, Chat
  <2>4. \A q \in Procs : pc'[q] \in Built => entry'[q].Message = msg'[q] /\ Hashed(entry'[q])
    BY <2>1 DEF AuthInv
  <2>5. \A c \in Chats : \A s \in DOMAIN rows'[c] :
           Authentic(c, rows'[c][s].Message) /\ Hashed(rows'[c][s])
    BY <1>2 DEF AuthInv
  <2> HIDE DEF Hashed, Authentic
  <2> QED BY <2>2, <2>3, <2>4, <2>5 DEF AuthInv, Chat, Hashed
<1>3. ASSUME NEW c \in Chats, NEW e, IsEntry(e), Authentic(c, e.Message), Hashed(e),
             rows' = [rows EXCEPT ![c] = Put(@, e.Sequence, Stored(e))],
             \A w \in limbo' : w \in limbo, msg' = msg, entry' = entry,
             \A q \in Procs : /\ pc'[q] # "idle" => pc[q] # "idle"
                              /\ pc'[q] \in Built => pc[q] \in Built
      PROVE  AuthInv'
  <2>1. Authentic(c, Stored(e).Message) /\ Hashed(Stored(e))
    BY <1>3, StoredAuthentic
  <2>2. ASSUME NEW d \in Chats, NEW s \in DOMAIN rows'[d]
        PROVE  Authentic(d, rows'[d][s].Message) /\ Hashed(rows'[d][s])
    <3>1. CASE d # c
      <4>1. rows'[d] = rows[d]
        BY <1>3, <3>1 DEF IInv, TypeOK
      <4> QED BY <4>1 DEF AuthInv
    <3>2. CASE d = c
      <4>1. rows'[c] = Put(rows[c], e.Sequence, Stored(e))
        BY <1>3 DEF IInv, TypeOK
      <4>2. \/ rows'[c][s] = Stored(e)
            \/ s \in DOMAIN rows[c] /\ rows'[c][s] = rows[c][s]
        BY <3>2, <4>1 DEF Put
      <4> QED BY <2>1, <3>2, <4>2 DEF AuthInv
    <3> QED BY <3>1, <3>2
  <2> QED BY <1>3, <2>2 DEF AuthInv, Chat
<1>4. ASSUME NEW p \in Procs, NEW r \in Requests,
             BadRequest(p, r) \/ Reject(p, r) \/ Accept(p, r)
      PROVE  AuthInv'
  <2>1. CASE BadRequest(p, r) \/ Reject(p, r)
    BY <1>1, <2>1 DEF BadRequest, Reject
  <2>2. CASE Accept(p, r)
    <3>1. Authentic(r.Path, decodeSignedMessage(r))
      BY <2>2, AcceptedAuthentic DEF Accept
    <3>2. /\ msg'[p] = decodeSignedMessage(r) /\ pc'[p] = "lock" /\ entry' = entry
          /\ rows' = rows /\ limbo' = limbo
          /\ \A q \in Procs : q # p => pc'[q] = pc[q] /\ msg'[q] = msg[q]
      BY <2>2 DEF Accept, IInv, TypeOK
    <3>3. msg'[p].ChatID = r.Path
      BY <3>1, <3>2 DEF Authentic
    <3>4. ASSUME NEW q \in Procs, pc'[q] # "idle" PROVE Authentic(msg'[q].ChatID, msg'[q])
      <4>1. CASE q = p
        BY <3>1, <3>2, <3>3, <4>1
      <4>2. CASE q # p
        BY <3>2, <3>4, <4>2 DEF AuthInv, Chat
      <4> QED BY <4>1, <4>2
    <3>5. ASSUME NEW q \in Procs, pc'[q] \in Built
          PROVE  entry'[q].Message = msg'[q] /\ Hashed(entry'[q])
      BY <3>2, <3>5 DEF AuthInv
    <3> HIDE DEF Hashed, Authentic
    <3> QED BY <3>2, <3>4, <3>5 DEF AuthInv, Chat, Hashed
  <2> QED BY <1>4, <2>1, <2>2
<1>5. ASSUME NEW p \in Procs, Lock(p) \/ Step(p) PROVE AuthInv'
  <2>1. CASE \/ Lock(p) \/ ReadSnapshot(p) \/ ReadWindow(p) \/ SaveSnapshot(p) \/ CacheRoot(p)
             \/ PublishEntry(p) /\ ~ \E status : Return(p, status)
    <3>1. /\ rows' = rows /\ limbo' = limbo /\ msg' = msg /\ entry' = entry
          /\ \A q \in Procs : /\ pc'[q] # "idle" => pc[q] # "idle"
                              /\ pc'[q] \in Built => pc[q] \in Built
      BY <2>1 DEF Lock, ReadSnapshot, ReadWindow, SaveSnapshot, CacheRoot, PublishEntry, IInv, TypeOK
    <3> QED BY <1>1, <3>1
  <2>2. CASE ReadTip(p)
    <3> DEFINE e == NextEntry(rows[Chat(p)], msg[p])
    <3>1. /\ entry'[p] = e /\ msg' = msg /\ rows' = rows /\ limbo' = limbo
          /\ pc[p] = "readTip" /\ pc'[p] = "append"
          /\ \A q \in Procs : q # p => pc'[q] = pc[q] /\ entry'[q] = entry[q]
      BY <2>2 DEF ReadTip, IInv, TypeOK
    <3>2. e.Message = msg[p] /\ Hashed(e)
      BY NextEntryHashed
    <3> HIDE DEF e, Hashed, Authentic
    <3>3. ASSUME NEW q \in Procs, pc'[q] \in Built
          PROVE  entry'[q].Message = msg'[q] /\ Hashed(entry'[q])
      <4>1. CASE q = p
        BY <3>1, <3>2, <4>1
      <4>2. CASE q # p
        BY <3>1, <3>3, <4>2 DEF AuthInv
      <4> QED BY <4>1, <4>2
    <3>4. \A q \in Procs : pc'[q] # "idle" => Authentic(msg'[q].ChatID, msg'[q])
      BY <3>1 DEF AuthInv, Chat
    <3> QED BY <3>1, <3>3, <3>4 DEF AuthInv, Chat, Hashed
  <2>3. CASE AppendEntry(p)
    <3>1. CASE AppendApplies(rows[Chat(p)], entry[p])
      <4>1. /\ pc[p] = "append" /\ Chat(p) \in Chats /\ IsEntry(entry[p])
            /\ Authentic(Chat(p), entry[p].Message) /\ Hashed(entry[p])
        BY <2>3 DEF AppendEntry, AuthInv, IInv, TypeOK
      <4>2. /\ rows' = [rows EXCEPT ![Chat(p)] = Put(@, entry[p].Sequence, Stored(entry[p]))]
            /\ limbo' = limbo /\ msg' = msg /\ entry' = entry
            /\ \A q \in Procs : /\ pc'[q] # "idle" => pc[q] # "idle"
                                /\ pc'[q] \in Built => pc[q] \in Built
        BY <2>3, <3>1 DEF AppendEntry, IInv, TypeOK
      <4> QED BY <1>3, <4>1, <4>2
    <3>2. CASE ~ AppendApplies(rows[Chat(p)], entry[p])
      BY <1>2, <2>3, <3>2 DEF AppendEntry
    <3> QED BY <3>1, <3>2
  <2>4. CASE \/ PublishSnapshot(p) \/ ReadFails(p) \/ SaveTimesOut(p)
             \/ PublishEntry(p) /\ \E status : Return(p, status)
    <3>1. rows' = rows /\ limbo' = limbo /\ \E status : Return(p, status)
      BY <2>4 DEF PublishSnapshot, ReadFails, SaveTimesOut, PublishEntry
    <3> QED BY <1>2, <3>1
  <2>5. CASE AppendTimesOut(p)
    BY <1>2, <2>5 DEF AppendTimesOut
  <2> QED BY <1>5, <2>1, <2>2, <2>3, <2>4, <2>5 DEF Step
<1>6. ASSUME NEW w \in limbo, LateAppend(w) PROVE AuthInv'
  <2>1. /\ w.Chat \in Chats /\ IsEntry(w.Entry)
        /\ Authentic(w.Chat, w.Entry.Message) /\ Hashed(w.Entry)
    BY DEF AuthInv, IInv, TypeOK
  <2> QED BY <1>3, <1>6, <2>1 DEF LateAppend
<1>7. ASSUME NEW w \in lateSnaps, LateSave(w) PROVE AuthInv'
  BY <1>1, <1>7 DEF LateSave
<1>8. ASSUME NEW n \in Nodes, Crash(n) PROVE AuthInv'
  <2>1. \A q \in Procs :
           /\ pc'[q] # "idle" => pc[q] # "idle" /\ msg'[q] = msg[q]
           /\ pc'[q] \in Built => pc[q] \in Built /\ entry'[q] = entry[q]
    BY <1>8 DEF Crash, Dies
  <2> QED BY <1>1, <1>8, <2>1 DEF Crash, Dies
<1>9. CASE UNCHANGED vars
  BY <1>1, <1>9 DEF vars
<1> QED BY <1>4, <1>5, <1>6, <1>7, <1>8, <1>9 DEF Next

(***************************************************************************)
(* AllAuthentic holds on any number of nodes, with timeouts, late inserts  *)
(* and crashes, for clients that sign the body they post with timestamps   *)
(* the store can hold (server.go decodeSignedMessage, log.go Append).      *)
(***************************************************************************)
THEOREM AuthenticHolds == ASSUME SignsItsBody, Aligned PROVE Spec => []AllAuthentic
<1>1. Init => AuthInv
  BY DEF Init, AuthInv, EmptyTable, Built, Holding
<1>2. IInv /\ AuthInv /\ [Next]_vars => AuthInv'
  BY NextAuth
<1>3. AuthInv => AllAuthentic
  BY DEF AuthInv, AllAuthentic, Authentic, Hashed
<1> QED BY <1>1, <1>2, <1>3, IInvHolds, PTL DEF Spec

-----------------------------------------------------------------------------
(***************************************************************************)
(* The write path implements AppendOnlyLog.                                *)
(***************************************************************************)


(***************************************************************************)
(* What the mapping needs beside IInv and AckInv: the messages on their    *)
(* way to the log have a signature field, which identifies them.           *)
(***************************************************************************)
MsgInv ==
    /\ \A p \in Procs : pc[p] # "idle" => "Signature" \in DOMAIN msg[p]
    /\ \A w \in limbo : "Signature" \in DOMAIN w.Entry.Message

RefInv == IInv /\ AckInv /\ MsgInv

-----------------------------------------------------------------------------
(***************************************************************************)
(* Decoding and storing keep the identity of a message (server.go          *)
(* decodeSignedMessage, scylla.go AppendEntry).                            *)
(***************************************************************************)
LEMMA DecodedIdentity ==
    ASSUME NEW r \in Requests
    PROVE  LET m == decodeSignedMessage(r)
           IN  /\ "Signature" \in DOMAIN m /\ Identity(m) = Identity(r.Msg)
               /\ m.ChatID = r.Path
BY RequestAssumption DEF decodeSignedMessage, Identity

\* Storing a message, which truncates its timestamp, keeps its signature.
LEMMA StoredIdentity ==
    ASSUME NEW e, IsEntry(e), "Signature" \in DOMAIN e.Message
    PROVE  Identity(Stored(e).Message) = Identity(e.Message)
<1>1. CASE Memory
  BY <1>1 DEF Stored
<1>2. CASE ~ Memory
  <2>1. Stored(e).Message = [e.Message EXCEPT !.Timestamp = Truncate(@)]
    BY <1>2 DEF Stored, RowOf, IsEntry
  <2> QED BY <2>1 DEF Identity
<1> QED BY <1>1, <1>2

(***************************************************************************)
(* Every step keeps the signature fields.                                  *)
(***************************************************************************)
LEMMA NextMsg == IInv /\ AckInv /\ MsgInv /\ [Next]_vars => MsgInv'
<1> SUFFICES ASSUME IInv, AckInv, MsgInv, [Next]_vars PROVE MsgInv'
  OBVIOUS
<1>0. ASSUME limbo' \subseteq limbo,
             \A q \in Procs : pc'[q] = "idle" \/ (pc[q] # "idle" /\ msg'[q] = msg[q])
      PROVE  MsgInv'
  BY <1>0 DEF MsgInv
<1>1. ASSUME NEW p \in Procs, NEW status, Return(p, status)
      PROVE  \A q \in Procs : pc'[q] = "idle" \/ (pc'[q] = pc[q] /\ msg'[q] = msg[q])
  BY <1>1 DEF Return, IInv, TypeOK
<1>2. ASSUME NEW p \in Procs, Lock(p) \/ Step(p), ~ AppendTimesOut(p) PROVE MsgInv'
  <2>1. limbo' = limbo
    BY <1>2 DEF Step, Lock, ReadTip, AppendEntry, PublishEntry, ReadSnapshot, ReadWindow,
                SaveSnapshot, CacheRoot, PublishSnapshot, ReadFails, SaveTimesOut
  <2>2. pc[p] # "idle"
    BY <1>2 DEF Step, Lock, ReadTip, AppendEntry, PublishEntry, ReadSnapshot, ReadWindow,
                SaveSnapshot, CacheRoot, PublishSnapshot, ReadFails, SaveTimesOut
  <2>3. msg' = msg \/ \E status : Return(p, status)
    BY <1>2 DEF Step, Lock, ReadTip, AppendEntry, PublishEntry, ReadSnapshot, ReadWindow,
                SaveSnapshot, CacheRoot, PublishSnapshot, ReadFails, SaveTimesOut
  <2>4. CASE msg' = msg
    <3>1. \A q \in Procs : q # p => pc'[q] = pc[q]
      BY <1>2, OthersUntouched
    <3> QED BY <1>0, <2>1, <2>2, <2>4, <3>1
  <2>5. CASE \E status : Return(p, status)
    BY <1>0, <1>1, <2>1, <2>5
  <2> QED BY <2>3, <2>4, <2>5
<1>3. ASSUME NEW p \in Procs, AppendTimesOut(p) PROVE MsgInv'
  <2>1. entry[p].Message = msg[p] /\ "Signature" \in DOMAIN msg[p]
    BY <1>3 DEF AppendTimesOut, AckInv, ProcAck, MsgInv, Built, Holding, Labels
  <2>2. limbo' = limbo \cup {[Chat |-> Chat(p), Entry |-> entry[p]]}
    BY <1>3 DEF AppendTimesOut
  <2>3. \A q \in Procs : pc'[q] = "idle" \/ (pc'[q] = pc[q] /\ msg'[q] = msg[q])
    BY <1>1, <1>3 DEF AppendTimesOut
  <2> QED BY <2>1, <2>2, <2>3 DEF MsgInv
<1>4. ASSUME NEW p \in Procs, NEW r \in Requests, BadRequest(p, r) \/ Reject(p, r)
      PROVE  MsgInv'
  BY <1>0, <1>4 DEF BadRequest, Reject, IInv, TypeOK
<1>5. ASSUME NEW p \in Procs, NEW r \in Requests, Accept(p, r) PROVE MsgInv'
  <2>1. /\ msg'[p] = decodeSignedMessage(r) /\ limbo' = limbo
        /\ \A q \in Procs : q # p => pc'[q] = pc[q] /\ msg'[q] = msg[q]
    BY <1>5 DEF Accept, IInv, TypeOK
  <2> QED BY <2>1, DecodedIdentity DEF MsgInv
<1>6. ASSUME NEW w \in limbo, LateAppend(w) PROVE MsgInv'
  BY <1>6 DEF LateAppend, MsgInv
<1>7. ASSUME NEW w \in lateSnaps, LateSave(w) PROVE MsgInv'
  BY <1>7 DEF LateSave, MsgInv
<1>8. ASSUME NEW n \in Nodes, Crash(n) PROVE MsgInv'
  <2>1. /\ limbo' = limbo
        /\ \A q \in Procs : pc'[q] = "idle" \/ (pc'[q] = pc[q] /\ msg'[q] = msg[q])
    BY <1>8 DEF Crash, Dies, IInv, TypeOK
  <2> QED BY <2>1 DEF MsgInv
<1>9. CASE UNCHANGED vars
  BY <1>9 DEF vars, MsgInv
<1> QED BY <1>2, <1>3, <1>4, <1>5, <1>6, <1>7, <1>8, <1>9 DEF Next, Step

-----------------------------------------------------------------------------
(***************************************************************************)
(* The mapping, step by step.                                              *)
(***************************************************************************)

(***************************************************************************)
(* A goroutine whose local state does not change keeps its abstract call   *)
(* and acknowledgement.                                                    *)
(***************************************************************************)
LEMMA MappedKept ==
    ASSUME NEW q \in Procs, pc'[q] = pc[q], msg'[q] = msg[q], entry'[q] = entry[q],
           response'[q] = response[q]
    PROVE  CallOf(q)' = CallOf(q) /\ AckOf(q)' = AckOf(q)
BY DEF CallOf, AckOf, Chat

(***************************************************************************)
(* Requests that end without 201 and without a trace are failed calls.     *)
(***************************************************************************)
LEMMA FailStep ==
    ASSUME NEW P \in SUBSET Procs, rows' = rows, limbo' = limbo,
           \A q \in Procs : q \notin P => CallOf(q)' = CallOf(q) /\ AckOf(q)' = AckOf(q),
           \A q \in P : pc'[q] = "idle" /\ response'[q].Status # 201
    PROVE  Abs!Fail(P)
<1>1. AbsCall' = [q \in Procs |-> IF q \in P THEN Abs!NoCall ELSE AbsCall[q]]
  BY DEF AbsCall, CallOf, Abs!NoCall
<1>2. AbsAck' = [q \in Procs |-> IF q \in P THEN None ELSE AbsAck[q]]
  BY DEF AbsAck, AckOf
<1>3. AbsAbandoned' = AbsAbandoned \cup {<<AbsCall[q].Chat, AbsCall[q].Msg>> : q \in {}}
  BY DEF AbsAbandoned
<1>4. AbsLog' = AbsLog
  BY DEF AbsLog
<1>5. {} \in SUBSET {q \in P : AbsCall[q].State = "open"}
  OBVIOUS
<1> QED BY <1>1, <1>2, <1>3, <1>4, <1>5 DEF Abs!Fail

(***************************************************************************)
(* An error return is a failed call.                                       *)
(***************************************************************************)
LEMMA ReturnFails ==
    ASSUME IInv, NEW p \in Procs, NEW status, status # 201, Return(p, status),
           rows' = rows, limbo' = limbo
    PROVE  Abs!Fail({p})
<1>1. pc'[p] = "idle" /\ response'[p].Status = status
  BY DEF Return, IInv, TypeOK
<1>2. ASSUME NEW q \in Procs, q # p PROVE CallOf(q)' = CallOf(q) /\ AckOf(q)' = AckOf(q)
  <2>1. /\ pc'[q] = pc[q] /\ msg'[q] = msg[q] /\ entry'[q] = entry[q]
        /\ response'[q] = response[q]
    BY <1>2 DEF Return, IInv, TypeOK
  <2> QED BY <2>1, MappedKept
<1> QED BY <1>1, <1>2, FailStep

(***************************************************************************)
(* An insert that is applied appends its message at the end of the         *)
(* abstract log (scylla.go and storage.go AppendEntry).                    *)
(***************************************************************************)
LEMMA ExtendStep ==
    ASSUME IInv, NEW c \in Chats, NEW e, IsEntry(e), LinkedAt(rows[c], e.Sequence, e),
           AppendApplies(rows[c], e), "Signature" \in DOMAIN e.Message,
           rows' = [rows EXCEPT ![c] = Put(@, e.Sequence, Stored(e))]
    PROVE  Abs!Extend(c, Identity(e.Message)) /\ Abs!End(c) = e.Sequence
<1> DEFINE new == Put(rows[c], e.Sequence, Stored(e))
<1>1. PICK n \in Nat : ChainOfLength(rows[c], n)
  BY DEF IInv, Chained
<1>2. /\ ChainOfLength(new, n + 1)
      /\ \A s \in DOMAIN rows[c] : new[s] = rows[c][s]
  BY <1>1, AppendKeepsChain
<1>3. DOMAIN rows[c] = 0 .. n - 1 /\ DOMAIN new = 0 .. n
  BY <1>1, <1>2 DEF ChainOfLength
<1>4. new[e.Sequence] = Stored(e) /\ DOMAIN new = DOMAIN rows[c] \cup {e.Sequence}
  BY DEF Put
<1>5. rows'[c] = new /\ \A d \in Chats : d # c => rows'[d] = rows[d]
  BY DEF IInv, TypeOK
<1>6. DOMAIN rows = Chats /\ DOMAIN rows' = Chats
  BY DEF IInv, TypeOK
<1> HIDE DEF new
<1>7. e.Sequence = n
  <2>1. n \in DOMAIN new /\ n \notin DOMAIN rows[c]
    BY <1>3
  <2> QED BY <1>4, <2>1
<1>8. Abs!End(c) = n
  <2>1. DOMAIN AbsLog[c] = 0 .. n - 1
    BY <1>3 DEF AbsLog
  <2>2. Abs!Cardinality(0 .. n - 1) = Cardinality(0 .. n - 1)
    BY DEF Cardinality, Abs!Cardinality
  <2> QED BY <2>1, <2>2, SizeOfInterval DEF Abs!End
<1>9. Identity(Stored(e).Message) = Identity(e.Message)
  BY StoredIdentity
<1>10. AbsLog'[c] = [s \in 0 .. n |-> IF s = n THEN Identity(e.Message) ELSE AbsLog[c][s]]
  <2>1. AbsLog'[c] = [s \in 0 .. n |-> Identity(new[s].Message)]
    BY <1>3, <1>5 DEF AbsLog
  <2>2. ASSUME NEW s \in 0 .. n, s # n PROVE Identity(new[s].Message) = AbsLog[c][s]
    BY <1>2, <1>3, <2>2 DEF AbsLog
  <2>3. Identity(new[n].Message) = Identity(e.Message)
    BY <1>4, <1>7, <1>9
  <2> QED BY <2>1, <2>2, <2>3
<1>11. \A d \in Chats : d # c => AbsLog'[d] = AbsLog[d]
  BY <1>5 DEF AbsLog
<1>12. AbsLog = [d \in Chats |-> AbsLog[d]] /\ AbsLog' = [d \in Chats |-> AbsLog'[d]]
  BY DEF AbsLog
<1> HIDE DEF AbsLog
<1> QED BY <1>7, <1>8, <1>10, <1>11, <1>12 DEF Abs!Extend

(***************************************************************************)
(* An answer 201 acknowledges the committed call, with the position of its *)
(* own message (server.go handleSend, log.go Append).                      *)
(***************************************************************************)
LEMMA AcknowledgeStep ==
    ASSUME RefInv, NEW p \in Procs, pc[p] \in Built \ {"append"}, Return(p, 201),
           rows' = rows, limbo' = limbo
    PROVE  Abs!Acknowledge(p)
<1>1. pc'[p] = "idle" /\ response'[p] = [Status |-> 201, Entry |-> entry[p]]
  BY DEF Return, RefInv, IInv, TypeOK
<1>2. entry[p].Message = msg[p]
  BY DEF RefInv, AckInv, ProcAck
<1>3. CallOf(p) = [State |-> "committed", Chat |-> Chat(p), Msg |-> Identity(msg[p]),
                   At |-> entry[p].Sequence]
  BY DEF CallOf, Uncommitted, Built, Holding, Labels
<1>4. CallOf(p)' = Abs!NoCall
  BY <1>1 DEF CallOf, Abs!NoCall
<1>5. AckOf(p)' = CallOf(p)
  BY <1>1, <1>2, <1>3 DEF AckOf, Chat
<1>6. ASSUME NEW q \in Procs, q # p PROVE CallOf(q)' = CallOf(q) /\ AckOf(q)' = AckOf(q)
  <2>1. /\ pc'[q] = pc[q] /\ msg'[q] = msg[q] /\ entry'[q] = entry[q]
        /\ response'[q] = response[q]
    BY <1>6 DEF Return, RefInv, IInv, TypeOK
  <2> QED BY <2>1, MappedKept
<1>7. AbsLog' = AbsLog /\ AbsAbandoned' = AbsAbandoned
  BY DEF AbsLog, AbsAbandoned
<1>8. AbsCall[p].State = "committed"
  BY <1>3 DEF AbsCall
<1>9. AbsCall' = [AbsCall EXCEPT ![p] = Abs!NoCall]
  BY <1>4, <1>6 DEF AbsCall
<1>10. AbsAck' = [AbsAck EXCEPT ![p] = AbsCall[p]]
  BY <1>5, <1>6 DEF AbsAck, AbsCall
<1> QED BY <1>7, <1>8, <1>9, <1>10 DEF Abs!Acknowledge

(***************************************************************************)
(* A request that passes validation submits its message to the chat of its *)
(* path (server.go decodeSignedMessage).                                   *)
(***************************************************************************)
LEMMA SubmitStep ==
    ASSUME RefInv, NEW p \in Procs, NEW r \in Requests, Accept(p, r)
    PROVE  Abs!Submit(p, r.Path, Identity(r.Msg))
<1>1. /\ pc[p] = "idle" /\ pc'[p] = "lock" /\ msg'[p] = decodeSignedMessage(r)
      /\ response'[p] = Unanswered
  BY DEF Accept, RefInv, IInv, TypeOK
<1>2. CallOf(p)' = [State |-> "open", Chat |-> r.Path, Msg |-> Identity(r.Msg), At |-> None]
  BY <1>1, DecodedIdentity DEF CallOf, Uncommitted, Chat
<1>3. AckOf(p)' = None /\ CallOf(p).State = "none"
  BY <1>1 DEF AckOf, CallOf, Unanswered
<1>4. ASSUME NEW q \in Procs, q # p PROVE CallOf(q)' = CallOf(q) /\ AckOf(q)' = AckOf(q)
  <2>1. /\ pc'[q] = pc[q] /\ msg'[q] = msg[q] /\ entry'[q] = entry[q]
        /\ response'[q] = response[q]
    BY <1>4 DEF Accept, RefInv, IInv, TypeOK
  <2> QED BY <2>1, MappedKept
<1>5. AbsLog' = AbsLog /\ AbsAbandoned' = AbsAbandoned
  BY DEF AbsLog, AbsAbandoned, Accept
<1>6. AbsCall[p].State = "none" /\ AbsAck' = [AbsAck EXCEPT ![p] = None]
  BY <1>3, <1>4 DEF AbsCall, AbsAck
<1>7. AbsCall' = [AbsCall EXCEPT ![p] = [State |-> "open", Chat |-> r.Path,
                                        Msg |-> Identity(r.Msg), At |-> None]]
  BY <1>2, <1>4 DEF AbsCall
<1> QED BY <1>5, <1>6, <1>7 DEF Abs!Submit

(***************************************************************************)
(* A goroutine that keeps its message and stays on the same side of the    *)
(* insert changes nothing that callers see.                                *)
(***************************************************************************)
LEMMA SilentStep ==
    ASSUME IInv, NEW p \in Procs, Lock(p) \/ Step(p), rows' = rows, limbo' = limbo,
           msg'[p] = msg[p], response'[p] = response[p],
           \/ pc[p] \in Uncommitted /\ pc'[p] \in Uncommitted
           \/ pc[p] \in Built \ {"append"} /\ pc'[p] \in Built \ {"append"} /\ entry'[p] = entry[p]
    PROVE  UNCHANGED Abs!absVars
<1>1. CallOf(p)' = CallOf(p) /\ AckOf(p)' = AckOf(p)
  BY DEF CallOf, AckOf, Chat, Uncommitted, Built, Holding, Labels
<1>2. ASSUME NEW q \in Procs, q # p PROVE CallOf(q)' = CallOf(q) /\ AckOf(q)' = AckOf(q)
  BY <1>2, OthersUntouched, MappedKept
<1>3. AbsCall' = AbsCall /\ AbsAck' = AbsAck
  BY <1>1, <1>2 DEF AbsCall, AbsAck
<1>4. AbsLog' = AbsLog /\ AbsAbandoned' = AbsAbandoned
  BY DEF AbsLog, AbsAbandoned
<1> QED BY <1>3, <1>4 DEF Abs!absVars

(***************************************************************************)
(* The insert that is applied commits the call.                            *)
(***************************************************************************)
LEMMA CommitStep ==
    ASSUME RefInv, NEW p \in Procs, AppendEntry(p), AppendApplies(rows[Chat(p)], entry[p])
    PROVE  Abs!Commit(p)
<1>1. /\ pc[p] = "append" /\ Chat(p) \in Chats /\ IsEntry(entry[p])
      /\ LinkedAt(rows[Chat(p)], entry[p].Sequence, entry[p])
  BY DEF AppendEntry, RefInv, IInv, TypeOK, PendingLinked, Built, Holding, Labels
<1>2. entry[p].Message = msg[p] /\ "Signature" \in DOMAIN msg[p]
  BY <1>1 DEF RefInv, AckInv, ProcAck, MsgInv, Built, Holding, Labels
<1>3. /\ pc'[p] = "publish" /\ UNCHANGED <<msg, entry, response, limbo>>
      /\ rows' = [rows EXCEPT ![Chat(p)] = Put(@, entry[p].Sequence, Stored(entry[p]))]
      /\ \A q \in Procs : q # p => pc'[q] = pc[q]
  BY DEF AppendEntry, RefInv, IInv, TypeOK
<1>4. Abs!Extend(Chat(p), Identity(msg[p])) /\ Abs!End(Chat(p)) = entry[p].Sequence
  BY <1>1, <1>2, <1>3, ExtendStep DEF RefInv
<1>5. CallOf(p) = [State |-> "open", Chat |-> Chat(p), Msg |-> Identity(msg[p]), At |-> None]
  BY <1>1 DEF CallOf, Uncommitted
<1>6. CallOf(p)' = [State |-> "committed", Chat |-> Chat(p), Msg |-> Identity(msg[p]),
                    At |-> entry[p].Sequence]
  BY <1>3 DEF CallOf, Uncommitted, Chat
<1>7. ASSUME NEW q \in Procs, q # p PROVE CallOf(q)' = CallOf(q)
  BY <1>3, <1>7, MappedKept
<1>8. AbsAck' = AbsAck /\ AbsAbandoned' = AbsAbandoned
  BY <1>3 DEF AbsAck, AckOf, AbsAbandoned
<1>9. AbsCall[p] = CallOf(p)
  BY DEF AbsCall
<1>10. AbsCall' = [AbsCall EXCEPT ![p] = CallOf(p)']
  BY <1>7 DEF AbsCall
<1>11. /\ AbsCall[p].State = "open" /\ AbsCall[p].Chat = Chat(p)
       /\ AbsCall[p].Msg = Identity(msg[p])
  BY <1>5, <1>9
<1>12. AbsCall' = [AbsCall EXCEPT ![p] =
                     [State |-> "committed", Chat |-> AbsCall[p].Chat, Msg |-> AbsCall[p].Msg,
                      At |-> Abs!End(AbsCall[p].Chat)]]
  BY <1>4, <1>6, <1>10, <1>11
<1>13. Abs!Extend(AbsCall[p].Chat, AbsCall[p].Msg)
  BY <1>4, <1>11
<1> QED BY <1>8, <1>11, <1>12, <1>13 DEF Abs!Commit

(***************************************************************************)
(* An insert that times out fails its call and abandons its message        *)
(* (scylla.go AppendEntry's error).                                        *)
(***************************************************************************)
LEMMA AbandonStep ==
    ASSUME RefInv, NEW p \in Procs, AppendTimesOut(p)
    PROVE  Abs!Fail({p})
<1>1. pc[p] = "append" /\ entry[p].Message = msg[p]
  BY DEF AppendTimesOut, RefInv, AckInv, ProcAck, Built, Holding, Labels
<1>2. /\ pc'[p] = "idle" /\ response'[p].Status = 422 /\ rows' = rows
      /\ limbo' = limbo \cup {[Chat |-> Chat(p), Entry |-> entry[p]]}
  BY DEF AppendTimesOut, Return, RefInv, IInv, TypeOK
<1>3. ASSUME NEW q \in Procs, q # p PROVE CallOf(q)' = CallOf(q) /\ AckOf(q)' = AckOf(q)
  BY <1>3, OthersUntouched, MappedKept DEF RefInv, Step
<1>4. AbsCall[p] = [State |-> "open", Chat |-> Chat(p), Msg |-> Identity(msg[p]), At |-> None]
  BY <1>1 DEF AbsCall, CallOf, Uncommitted
<1>5. AbsCall' = [q \in Procs |-> IF q \in {p} THEN Abs!NoCall ELSE AbsCall[q]]
  BY <1>2, <1>3 DEF AbsCall, CallOf, Abs!NoCall
<1>6. AbsAck' = [q \in Procs |-> IF q \in {p} THEN None ELSE AbsAck[q]]
  BY <1>2, <1>3 DEF AbsAck, AckOf
<1>7. AbsAbandoned' = AbsAbandoned \cup {<<AbsCall[q].Chat, AbsCall[q].Msg>> : q \in {p}}
  <2>1. {<<AbsCall[q].Chat, AbsCall[q].Msg>> : q \in {p}} = {<<Chat(p), Identity(entry[p].Message)>>}
    BY <1>1, <1>4
  <2> HIDE DEF AbsCall
  <2> DEFINE new == [Chat |-> Chat(p), Entry |-> entry[p]]
  <2>2. AbsAbandoned' = AbsAbandoned \cup {<<Chat(p), Identity(entry[p].Message)>>}
    <3>1. new.Chat = Chat(p) /\ new.Entry = entry[p] /\ limbo' = limbo \cup {new}
      BY <1>2
    <3> HIDE DEF new
    <3> QED BY <3>1 DEF AbsAbandoned
  <2> QED BY <2>1, <2>2
<1>8. AbsLog' = AbsLog
  BY <1>2 DEF AbsLog
<1>9. {p} \in SUBSET {q \in {p} : AbsCall[q].State = "open"}
  BY <1>4
<1> QED BY <1>5, <1>6, <1>7, <1>8, <1>9 DEF Abs!Fail

(***************************************************************************)
(* An insert applied after its call failed commits an abandoned message.   *)
(***************************************************************************)
LEMMA LateStep ==
    ASSUME RefInv, NEW w \in limbo, LateAppend(w)
    PROVE  \E a \in AbsAbandoned : Abs!LateCommit(a)
<1> DEFINE a == <<w.Chat, Identity(w.Entry.Message)>>
<1>1. a \in AbsAbandoned
  BY DEF AbsAbandoned
<1>2. /\ w.Chat \in Chats /\ IsEntry(w.Entry) /\ "Signature" \in DOMAIN w.Entry.Message
      /\ LinkedAt(rows[w.Chat], w.Entry.Sequence, w.Entry)
  BY DEF RefInv, IInv, TypeOK, PendingLinked, MsgInv
<1>3. Abs!Extend(w.Chat, Identity(w.Entry.Message))
  BY <1>2, ExtendStep DEF LateAppend, RefInv
<1>4. AbsAbandoned' \in {AbsAbandoned, AbsAbandoned \ {a}}
  <2>1. limbo' = limbo \ {w}
    BY DEF LateAppend
  <2>2. CASE \E x \in limbo : x # w /\ <<x.Chat, Identity(x.Entry.Message)>> = a
    <3>1. AbsAbandoned' = AbsAbandoned
      BY <2>1, <2>2 DEF AbsAbandoned
    <3> QED BY <3>1
  <2>3. CASE ~ \E x \in limbo : x # w /\ <<x.Chat, Identity(x.Entry.Message)>> = a
    <3>1. AbsAbandoned' = AbsAbandoned \ {a}
      BY <2>1, <2>3 DEF AbsAbandoned
    <3> QED BY <3>1
  <2> QED BY <2>2, <2>3
<1>5. AbsCall' = AbsCall /\ AbsAck' = AbsAck
  BY DEF LateAppend, AbsCall, CallOf, AbsAck, AckOf, Chat
<1>6. Abs!LateCommit(a)
  BY <1>3, <1>4, <1>5 DEF Abs!LateCommit
<1> QED BY <1>1, <1>6

(***************************************************************************)
(* A crash fails the calls in flight on the node, and only those.          *)
(***************************************************************************)
LEMMA CrashStep ==
    ASSUME RefInv, NEW n \in Nodes, Crash(n)
    PROVE  \E P \in SUBSET Procs : Abs!Fail(P)
<1> DEFINE P == {p \in Procs : NodeOf[p] = n /\ pc[p] # "idle"}
<1>1. rows' = rows /\ limbo' = limbo
  BY DEF Crash, Dies
<1>2. \A q \in P : pc'[q] = "idle" /\ response'[q].Status # 201
  BY DEF Crash, Dies, Unanswered
<1>3. ASSUME NEW q \in Procs, q \notin P PROVE CallOf(q)' = CallOf(q) /\ AckOf(q)' = AckOf(q)
  <2>1. response'[q] = response[q]
    BY <1>3 DEF Crash, Dies
  <2>2. AckOf(q)' = AckOf(q)
    BY <2>1 DEF AckOf
  <2>3. CASE pc[q] = "idle"
    <3>1. pc'[q] = "idle"
      BY <2>3 DEF Crash, Dies
    <3> QED BY <2>2, <2>3, <3>1 DEF CallOf
  <2>4. CASE pc[q] # "idle"
    <3>1. pc'[q] = pc[q] /\ msg'[q] = msg[q] /\ entry'[q] = entry[q]
      BY <1>3, <2>4 DEF Crash, Dies
    <3> QED BY <2>1, <3>1, MappedKept
  <2> QED BY <2>3, <2>4
<1> HIDE DEF P
<1>4. P \in SUBSET Procs
  BY DEF P
<1>5. Abs!Fail(P)
  BY <1>1, <1>2, <1>3, <1>4, FailStep
<1> QED BY <1>4, <1>5

(***************************************************************************)
(* Every step of the write path is a step of the abstract log, or changes  *)
(* nothing its callers see.                                                *)
(***************************************************************************)
LEMMA NextRefines == RefInv /\ [Next]_vars => [Abs!Next]_(Abs!absVars)
<1> SUFFICES ASSUME RefInv, [Next]_vars PROVE Abs!Next \/ UNCHANGED Abs!absVars
  OBVIOUS
<1>0. IInv
  BY DEF RefInv
<1>f. ASSUME NEW p \in Procs, Abs!Fail({p}) PROVE Abs!Next
  <2>1. {p} \in SUBSET Procs
    OBVIOUS
  <2> QED BY <1>f, <2>1 DEF Abs!Next
<1>1. ASSUME NEW p \in Procs, NEW r \in Requests, BadRequest(p, r) \/ Reject(p, r)
      PROVE  Abs!Next
  <2>1. /\ rows' = rows /\ limbo' = limbo /\ pc'[p] = "idle" /\ response'[p].Status # 201
        /\ UNCHANGED <<pc, msg, entry>>
        /\ \A q \in Procs : q # p => response'[q] = response[q]
    BY <1>0, <1>1 DEF BadRequest, Reject, IInv, TypeOK
  <2>2. \A q \in Procs : q \notin {p} => CallOf(q)' = CallOf(q) /\ AckOf(q)' = AckOf(q)
    BY <2>1, MappedKept
  <2>3. Abs!Fail({p})
    BY <2>1, <2>2, FailStep
  <2> QED BY <1>f, <2>3
<1>2. ASSUME NEW p \in Procs, NEW r \in Requests, Accept(p, r) PROVE Abs!Next
  <2>1. r.Path \in Chats /\ Identity(r.Msg) \in {Identity(x.Msg) : x \in Requests}
    BY RequestAssumption
  <2>2. Abs!Submit(p, r.Path, Identity(r.Msg))
    BY <1>2, SubmitStep
  <2> QED BY <2>1, <2>2 DEF Abs!Next
<1>3. ASSUME NEW p \in Procs, Lock(p) \/ Step(p) PROVE Abs!Next \/ UNCHANGED Abs!absVars
  <2>1. CASE Lock(p) \/ ReadTip(p)
    BY <1>0, <1>3, <2>1, SilentStep DEF Lock, ReadTip, IInv, TypeOK, Uncommitted
  <2>2. CASE AppendEntry(p)
    <3>1. CASE AppendApplies(rows[Chat(p)], entry[p])
      BY <2>2, <3>1, CommitStep DEF Abs!Next
    <3>2. CASE ~ AppendApplies(rows[Chat(p)], entry[p])
      <4>1. Return(p, 422) /\ rows' = rows /\ limbo' = limbo
        BY <2>2, <3>2 DEF AppendEntry
      <4>2. Abs!Fail({p})
        BY <1>0, <4>1, ReturnFails
      <4> QED BY <1>f, <4>2
    <3> QED BY <3>1, <3>2
  <2>3. CASE PublishEntry(p)
    <3>1. CASE Seals(entry[p])
      BY <1>0, <1>3, <2>3, <3>1, SilentStep
         DEF PublishEntry, IInv, TypeOK, Built, Holding, Labels
    <3>2. CASE ~ Seals(entry[p])
      <4>1. Abs!Acknowledge(p)
        BY <2>3, <3>2, AcknowledgeStep DEF PublishEntry, Built, Holding, Labels
      <4> QED BY <4>1 DEF Abs!Next
    <3> QED BY <3>1, <3>2
  <2>4. CASE ReadSnapshot(p) \/ ReadWindow(p) \/ SaveSnapshot(p) \/ CacheRoot(p)
    BY <1>0, <1>3, <2>4, SilentStep
       DEF ReadSnapshot, ReadWindow, SaveSnapshot, CacheRoot, IInv, TypeOK, Built, Holding,
           Labels
  <2>5. CASE PublishSnapshot(p)
    <3>1. Abs!Acknowledge(p)
      BY <2>5, AcknowledgeStep DEF PublishSnapshot, Built, Holding, Labels
    <3> QED BY <3>1 DEF Abs!Next
  <2>6. CASE ReadFails(p) \/ SaveTimesOut(p)
    <3>1. Return(p, 422) /\ rows' = rows /\ limbo' = limbo
      BY <2>6 DEF ReadFails, SaveTimesOut
    <3>2. Abs!Fail({p})
      BY <1>0, <3>1, ReturnFails
    <3> QED BY <1>f, <3>2
  <2>7. CASE AppendTimesOut(p)
    BY <1>f, <2>7, AbandonStep
  <2> QED BY <1>3, <2>1, <2>2, <2>3, <2>4, <2>5, <2>6, <2>7 DEF Step
<1>4. ASSUME NEW w \in limbo, LateAppend(w) PROVE Abs!Next
  BY <1>4, LateStep DEF Abs!Next
<1>5. ASSUME NEW w \in lateSnaps, LateSave(w) PROVE UNCHANGED Abs!absVars
  BY <1>5 DEF LateSave, Abs!absVars, AbsLog, AbsCall, CallOf, AbsAck, AckOf, AbsAbandoned, Chat
<1>6. ASSUME NEW n \in Nodes, Crash(n) PROVE Abs!Next
  BY <1>6, CrashStep DEF Abs!Next
<1>7. CASE UNCHANGED vars
  BY <1>7 DEF vars, Abs!absVars, AbsLog, AbsCall, CallOf, AbsAck, AckOf, AbsAbandoned, Chat
<1> QED BY <1>1, <1>2, <1>3, <1>4, <1>5, <1>6, <1>7 DEF Next

(***************************************************************************)
(* The goroutines of any number of nodes, over either adapter and under    *)
(* any of the faults, implement the append-only log their callers are      *)
(* promised (server.go handleSend, log.go Append, AppendEntry).            *)
(***************************************************************************)
THEOREM ImplementsHolds == Spec => Implements
<1>1. Init => Abs!Init
  <2> SUFFICES ASSUME Init PROVE Abs!Init
    OBVIOUS
  <2>1. AbsLog = [c \in Chats |-> [s \in {} |-> None]]
    BY DEF Init, AbsLog, EmptyTable
  <2>2. AbsCall = [p \in Procs |-> Abs!NoCall] /\ AbsAck = [p \in Procs |-> None]
    BY DEF Init, AbsCall, CallOf, AbsAck, AckOf, Unanswered, Abs!NoCall
  <2>3. AbsAbandoned = {}
    BY DEF Init, AbsAbandoned
  <2> QED BY <2>1, <2>2, <2>3 DEF Abs!Init
<1>2. Init => AckInv /\ MsgInv
  BY DEF Init, AckInv, ProcAck, MsgInv, Unanswered, Built, Holding, Labels
<1>3. IInv /\ AckInv /\ MsgInv /\ [Next]_vars => (AckInv /\ MsgInv)'
  BY StepExtends, NextAck, NextMsg
<1>4. IInv /\ AckInv /\ MsgInv /\ [Next]_vars => [Abs!Next]_(Abs!absVars)
  BY NextRefines DEF RefInv
<1> QED BY <1>1, <1>2, <1>3, <1>4, IInvHolds, PTL DEF Spec, Implements, Abs!Spec
=============================================================================
