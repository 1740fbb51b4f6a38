----------------------------- MODULE ChatReads ------------------------------
(***************************************************************************)
(* The read path: History, Entry, Verify, VerifyEntry, ProveInclusion and  *)
(* Sync of internal/chatlog with their handlers in internal/api, running   *)
(* beside the write path of ChatLog.                                       *)
(*                                                                         *)
(* Readers take no mutex: each of their queries is a step of its own, and  *)
(* what the log becomes between two queries is visible to the second.      *)
(***************************************************************************)
EXTENDS ChatLog

CONSTANTS
    Readers,              \* goroutines that serve read requests
    defaultHistoryLimit,
    maxHistoryLimit,
    FromParams,           \* values of ?from=: a number, None (absent) or Garbage
    LimitParams,          \* values of ?limit=
    Garbage               \* a parameter that is no unsigned integer

ASSUME LimitAssumption ==
    defaultHistoryLimit \in Nat \ {0} /\ maxHistoryLimit \in Nat \ {0}

\* A parameter is a uint64, absent or malformed.
ASSUME ParamAssumption ==
    /\ FromParams \subseteq 0 .. 2 * SignBit - 1 \cup {None, Garbage}
    /\ LimitParams \subseteq Nat \cup {None, Garbage}
    /\ None \notin Nat

VARIABLES
    query,   \* the read a reader is in the middle of, with what it has read
    answer   \* the response of the last step, with what it answered

readVars == <<query, answer>>
allVars  == <<vars, readVars>>

ReadInit == query = [r \in Readers |-> None] /\ answer = [r \in Readers |-> None]

NoAnswer == answer' = [r \in Readers |-> None]

Begin(r, q) ==
    /\ query[r] = None
    /\ query' = [query EXCEPT ![r] = q]
    /\ NoAnswer
    /\ UNCHANGED vars

Continue(r, q) == query' = [query EXCEPT ![r] = q] /\ NoAnswer /\ UNCHANGED vars

Answer(r, a) ==
    /\ query' = [query EXCEPT ![r] = None]
    /\ answer' = [[q \in Readers |-> None] EXCEPT ![r] = a]
    /\ UNCHANGED vars

At(r, op) == query[r] # None /\ query[r].Op = op

-----------------------------------------------------------------------------
(***************************************************************************)
(* History: pages of the log.  A client that reads a chat asks for a page  *)
(* and then, as long as next_from names one, for the next; what it has     *)
(* read so far is kept in the query.                                       *)
(***************************************************************************)

parseUintQuery(raw, fallback) == IF raw = None THEN fallback ELSE raw

\* The first limit of the entries since from.
Page(entries, limit) ==
    IF Len(entries) > limit THEN SubSeq(entries, 1, limit) ELSE entries

\* A cursor at the last entry of the page, which the next page repeats.
NextFromLast(page, limit) ==
    IF Len(page) = limit THEN page[Len(page)].Sequence ELSE None

\* A full page implies there may be more.
NextFrom(page, limit) ==
    IF Len(page) = limit /\ Len(page) > 0 THEN page[Len(page)].Sequence + 1 ELSE None

BadParameter(r, rawFrom, rawLimit) ==
    /\ query[r] = None
    /\ rawFrom = Garbage \/ rawLimit \in {Garbage, 0}
    /\ Answer(r, [Op |-> "history", Status |-> 400])

\* One request: the page that follows what was read of the chat since start.
HistoryPage(r, c, start, limit, read, from) ==
    LET page == Page(EntriesSince(rows[c], from), limit)
        next == NextFrom(page, limit)
        all  == read \o page
    IN  \/ /\ next # None
           /\ Continue(r, [Op |-> "history", Chat |-> c, Start |-> start, Limit |-> limit,
                           Read |-> all, Next |-> next])
        \/ /\ next = None
           /\ Answer(r, [Op |-> "history", Chat |-> c, Start |-> start, Status |-> 200,
                         Read |-> all])

History(r, c, rawFrom, rawLimit) ==
    /\ query[r] = None
    /\ rawFrom # Garbage /\ rawLimit \notin {Garbage, 0}
    /\ LET from  == parseUintQuery(rawFrom, 0)
           limit == Min({parseUintQuery(rawLimit, defaultHistoryLimit), maxHistoryLimit})
       IN  HistoryPage(r, c, from, limit, <<>>, from)

HistoryNext(r) ==
    /\ At(r, "history")
    /\ LET q == query[r]
       IN  HistoryPage(r, q.Chat, q.Start, q.Limit, q.Read, q.Next)

\* A single message.
Message(r, c, s) ==
    /\ query[r] = None
    /\ LET found == Has(rows[c], s)
       IN  Answer(r, [Op |-> "message", Chat |-> c, Seq |-> s,
                      Status |-> IF found THEN 200 ELSE 404,
                      Entry |-> IF found THEN rows[c][s] ELSE None])

-----------------------------------------------------------------------------
(***************************************************************************)
(* Verify: one query, then a walk over its result.                         *)
(***************************************************************************)

Verify(r, c) ==
    /\ query[r] = None
    /\ Answer(r, [Op |-> "verify", Chat |-> c, Status |-> 200,
                  Valid |-> LogIntact(EntriesSince(rows[c], 0))])

-----------------------------------------------------------------------------
(***************************************************************************)
(* VerifyEntry: the entry, then its predecessor.  Present records whether   *)
(* the entry was there when a 404 is answered.                             *)
(***************************************************************************)

VerifyEntry(r, c, s) ==
    /\ query[r] = None
    /\ \/ /\ ~ Has(rows[c], s)
          /\ Answer(r, [Op |-> "verifyEntry", Chat |-> c, Seq |-> s, Status |-> 404,
                        Present |-> FALSE])
       \/ /\ Has(rows[c], s)
          /\ LET e == rows[c][s]
             IN  \/ /\ SelfIntact(e) /\ s > 0
                    /\ Begin(r, [Op |-> "verifyPrev", Chat |-> c, Seq |-> s, Entry |-> e])
                 \/ /\ ~ (SelfIntact(e) /\ s > 0)
                    /\ Answer(r, [Op |-> "verifyEntry", Chat |-> c, Seq |-> s, Status |-> 200,
                                  Valid |-> EntryVerifies(e, GenesisHash)])

VerifyPrev(r) ==
    /\ At(r, "verifyPrev")
    /\ LET q == query[r]
           prev  == q.Seq - 1
           found == Has(rows[q.Chat], prev)
       IN  Answer(r, [Op |-> "verifyEntry", Chat |-> q.Chat, Seq |-> q.Seq, Present |-> TRUE,
                      Status |-> IF found THEN 200 ELSE 404,
                      Valid |-> found /\ EntryVerifies(q.Entry, rows[q.Chat][prev].EntryHash)])

-----------------------------------------------------------------------------
(***************************************************************************)
(* ProveInclusion: the snapshot the division names, then its window.       *)
(* WasCovered records whether some snapshot covered the entry then.        *)
(***************************************************************************)

\* The index of the snapshot that covers a sequence, and its off-by-one.
SnapIndexOfNext(s) == (s + 1) \div SnapshotInterval

SnapIndex(s) == s \div SnapshotInterval

ProveInclusion(r, c, s) ==
    /\ query[r] = None
    /\ LET k == SnapIndex(s)
           covered == \E j \in DOMAIN snaps[c] :
                        s \in snaps[c][j].FromSequence .. snaps[c][j].ToSequence
       IN  \/ /\ ~ Has(snaps[c], k)
              /\ Answer(r, [Op |-> "proof", Chat |-> c, Seq |-> s, WasCovered |-> covered,
                            Status |-> 409])
           \/ /\ Has(snaps[c], k)
              /\ Begin(r, [Op |-> "proof", Chat |-> c, Seq |-> s, WasCovered |-> covered,
                           Snap |-> snaps[c][k]])

\* A panic: net/http closes the connection without a response.
NoResponse == 0

\* An answer that names the last entry of the window in place of the one asked for.
ProofAnswerOfTip(sn, window, s) ==
    LET size   == sn.ToSequence + 1 - sn.FromSequence
        leaves == [i \in 1 .. size |-> window[i].EntryHash]
    IN  [Status |-> 200, EntryHash |-> sn.LastEntryHash, MerkleRoot |-> sn.MerkleRoot,
         Path |-> Proof(leaves, size - 1).Path]

\* The answer from the snapshot and the entries since its start: an error, a
\* panic (a negative slice size, or no leaf at an index the empty root matches)
\* or the proof.
ProofAnswer(sn, window, s) ==
    LET size   == sn.ToSequence + 1 - sn.FromSequence
        leaves == [i \in 1 .. size |-> window[i].EntryHash]
        localIdx == s - sn.FromSequence
        proof  == Proof(leaves, localIdx)
    IN  CASE size < 0 -> [Status |-> NoResponse]
          [] size >= 0 /\ Len(window) < size -> [Status |-> 500]
          [] OTHER ->
               IF proof.Root # sn.MerkleRoot THEN [Status |-> 500]
               ELSE IF localIdx \notin 0 .. size - 1 THEN [Status |-> NoResponse]
               ELSE [Status |-> 200, EntryHash |-> leaves[localIdx + 1],
                     MerkleRoot |-> sn.MerkleRoot, Path |-> proof.Path]

ProveWindow(r) ==
    /\ At(r, "proof")
    /\ LET q == query[r]
           a == ProofAnswer(q.Snap, EntriesSince(rows[q.Chat], q.Snap.FromSequence), q.Seq)
       IN  Answer(r, [Op |-> "proof", Chat |-> q.Chat, Seq |-> q.Seq,
                      WasCovered |-> q.WasCovered, Status |-> a.Status, Proof |-> a])

-----------------------------------------------------------------------------
(***************************************************************************)
(* Sync: the latest snapshot, the entries after it, the tip.               *)
(***************************************************************************)

SyncSnapshot(r, c) ==
    Begin(r, [Op |-> "syncEntries", Chat |-> c,
              Snap |-> IF IsEmpty(snaps[c]) THEN None ELSE Latest(snaps[c])])

\* Entries from the snapshot's last one on.
SyncEntriesFromTip(r) ==
    /\ At(r, "syncEntries")
    /\ LET q == query[r]
           from == IF q.Snap = None THEN 0 ELSE q.Snap.ToSequence
       IN  Continue(r, [Op |-> "syncTip", Chat |-> q.Chat, Snap |-> q.Snap,
                        Entries |-> EntriesSince(rows[q.Chat], from)])

SyncEntries(r) ==
    /\ At(r, "syncEntries")
    /\ LET q == query[r]
           from == IF q.Snap = None THEN 0 ELSE q.Snap.ToSequence + 1
       IN  Continue(r, [Op |-> "syncTip", Chat |-> q.Chat, Snap |-> q.Snap,
                        Entries |-> EntriesSince(rows[q.Chat], from)])

\* The hash of the snapshot in place of that of the tip.
SyncTipOfSnapshot(r) ==
    /\ At(r, "syncTip")
    /\ LET q == query[r]
       IN  Answer(r, [Op |-> "sync", Chat |-> q.Chat, Status |-> 200,
                      Snapshot |-> q.Snap, NewEntries |-> q.Entries,
                      CurrentHash |-> IF q.Snap = None THEN GenesisHash
                                      ELSE q.Snap.LastEntryHash])

SyncTip(r) ==
    /\ At(r, "syncTip")
    /\ LET q == query[r]
       IN  Answer(r, [Op |-> "sync", Chat |-> q.Chat, Status |-> 200,
                      Snapshot |-> q.Snap, NewEntries |-> q.Entries,
                      CurrentHash |-> IF IsEmpty(rows[q.Chat]) THEN GenesisHash
                                      ELSE Latest(rows[q.Chat]).EntryHash])

\* A query of a read fails, its first or a later one.
QueryFails(r) ==
    /\ "query" \in Faults
    /\ Answer(r, [Op |-> "failed", Status |-> 500])

-----------------------------------------------------------------------------
\* Positions worth asking for: those of the log and the one after it.
Positions(c) == 0 .. Cardinality(DOMAIN rows[c])

ReadNext ==
    \E r \in Readers :
        \/ \E c \in Chats :
            \/ Verify(r, c)
            \/ SyncSnapshot(r, c)
            \/ \E s \in Positions(c) :
                  Message(r, c, s) \/ VerifyEntry(r, c, s) \/ ProveInclusion(r, c, s)
            \/ \E from \in FromParams, limit \in LimitParams : History(r, c, from, limit)
        \/ \E from \in FromParams, limit \in LimitParams : BadParameter(r, from, limit)
        \/ HistoryNext(r) \/ VerifyPrev(r) \/ ProveWindow(r) \/ SyncEntries(r) \/ SyncTip(r)
        \/ QueryFails(r)

AllInit == Init /\ ReadInit
AllNext == (Next /\ NoAnswer /\ UNCHANGED query) \/ ReadNext
AllSpec == AllInit /\ [][AllNext]_allVars

-----------------------------------------------------------------------------
(***************************************************************************)
(* Properties.                                                             *)
(***************************************************************************)

Answered(r, op, status) ==
    answer[r] # None /\ answer[r].Op = op /\ answer[r].Status = status

(***************************************************************************)
(* A sync bundle can be replayed, whatever is appended while it is being   *)
(* read: its entries continue the snapshot (or genesis) without a gap,     *)
(* each linked to the one before (log.go Sync: "replay NewEntries from the *)
(* snapshot tip").                                                         *)
(***************************************************************************)
SyncReplays ==
    \A r \in Readers : Answered(r, "sync", 200) =>
        LET sn    == answer[r].Snapshot
            new   == answer[r].NewEntries
            first == IF sn = None THEN 0 ELSE sn.ToSequence + 1
            base  == IF sn = None THEN GenesisHash ELSE sn.LastEntryHash
        IN  \A i \in DOMAIN new :
                EntryIntact(new[i], first + i - 1,
                            IF i = 1 THEN base ELSE new[i - 1].EntryHash)

(***************************************************************************)
(* The bundle is never ahead of its current_hash, which is the tip read     *)
(* last: the entries end at that hash, or at a stored entry before it, and *)
(* then the participant can fetch what was appended in between (log.go     *)
(* Sync).                                                                  *)
(***************************************************************************)
SyncNotAhead ==
    \A r \in Readers : Answered(r, "sync", 200) =>
        LET a     == answer[r]
            first == IF a.Snapshot = None THEN 0 ELSE a.Snapshot.ToSequence + 1
            next  == first + Len(a.NewEntries)
        IN  \/ next = 0 /\ a.CurrentHash = GenesisHash
            \/ \E s \in DOMAIN rows[a.Chat] :
                    s + 1 >= next /\ rows[a.Chat][s].EntryHash = a.CurrentHash

(***************************************************************************)
(* A proof that is returned is a proof of the entry asked for: its hash is *)
(* the stored entry's and the path leads from it to the root of a snapshot *)
(* (log.go ProveInclusion: "merkle.VerifyProof(EntryHash, Proof,           *)
(* MerkleRoot)").                                                          *)
(***************************************************************************)
ProofSound ==
    \A r \in Readers : Answered(r, "proof", 200) =>
        LET a == answer[r].Proof
            c == answer[r].Chat
            s == answer[r].Seq
        IN  /\ s \in DOMAIN rows[c]
            /\ a.EntryHash = rows[c][s].EntryHash
            /\ VerifyProof(a.EntryHash, a.Path, a.MerkleRoot)

(***************************************************************************)
(* An entry that a sealed snapshot covers when it is asked for is proved   *)
(* (log.go ProveInclusion: "against the snapshot whose window contains     *)
(* it"; README.md: "Proofs become available once the covering snapshot is  *)
(* sealed").                                                               *)
(***************************************************************************)
CoveredIsProved ==
    \A r \in Readers :
        (answer[r] # None /\ answer[r].Op = "proof" /\ answer[r].WasCovered)
            => answer[r].Status = 200

(***************************************************************************)
(* A client that follows next_from reads the chat as it is: what it has    *)
(* read when next_from is null is every entry from its first `from` to the *)
(* end of the log at that moment, in order, each once, however many were   *)
(* appended between the pages, and nothing when `from` is beyond the end   *)
(* (server.go handleHistory, log.go History; storage.go EntriesSince:      *)
(* "returns entries with sequence >= fromSequence, in order").             *)
(***************************************************************************)
HistoryComplete ==
    \A r \in Readers : Answered(r, "history", 200) =>
        LET a     == answer[r]
            first == a.Start
            end   == Cardinality(DOMAIN rows[a.Chat])
        IN  a.Read = [i \in 1 .. Max({0, end - first}) |-> rows[a.Chat][first + i - 1]]

(***************************************************************************)
(* No false alarm: the integrity checks never report a log that only       *)
(* Append has written as invalid, nor a stored message as missing, while   *)
(* the log is being appended to, and a message of which an event or an     *)
(* answer 201 told is found (log.go Verify, VerifyEntry, Entry).           *)
(***************************************************************************)
NoFalseAlarm ==
    \A r \in Readers :
        /\ Answered(r, "verify", 200) => answer[r].Valid
        /\ Answered(r, "verifyEntry", 200) => answer[r].Valid
        /\ Answered(r, "verifyEntry", 404) => ~ answer[r].Present
        /\ Answered(r, "message", 404) =>
               /\ \A i \in DOMAIN published[answer[r].Chat] :
                      published[answer[r].Chat][i].Sequence # answer[r].Seq
               /\ \A p \in Procs : response[p].Status = 201 =>
                      LET e == response[p].Entry
                      IN  <<e.Message.ChatID, e.Sequence>> # <<answer[r].Chat, answer[r].Seq>>
=============================================================================
