------------------------------- MODULE Chain --------------------------------
(***************************************************************************)
(* internal/chatlog's decisions that read no shared state: how an entry is *)
(* chained to the tip of a log, and what the integrity checks ask of it.   *)
(***************************************************************************)
EXTENDS Storage

supportedVersion(v) == v = CurrentSchemaVersion

\* Entries whose hash is never computed, and entries that all start a chain.
NextEntryUnhashed(table, m) ==
    [Sequence |-> IF IsEmpty(table) THEN 0 ELSE Latest(table).Sequence + 1,
     Message |-> m, PrevHash |-> GenesisHash]

NextEntryUnlinked(table, m) ==
    LET new == [Sequence |-> IF IsEmpty(table) THEN 0 ELSE Latest(table).Sequence + 1,
                Message |-> m, PrevHash |-> GenesisHash]
    IN  [Sequence |-> new.Sequence, Message |-> m, PrevHash |-> new.PrevHash,
         EntryHash |-> ComputeHash(new)]

\* The entry that puts m after the tip of a log.
NextEntry(table, m) ==
    LET new == IF IsEmpty(table)
               THEN [Sequence |-> 0, Message |-> m, PrevHash |-> GenesisHash]
               ELSE [Sequence |-> Latest(table).Sequence + 1, Message |-> m,
                     PrevHash |-> Latest(table).EntryHash]
    IN  [Sequence |-> new.Sequence, Message |-> m, PrevHash |-> new.PrevHash,
         EntryHash |-> ComputeHash(new)]

\* What VerifyEntry checks of an entry by itself.
SelfIntact(e) ==
    /\ supportedVersion(e.Message.SchemaVersion)
    /\ ComputeHash(e) = e.EntryHash
    /\ VerifyMessage(e.Message)

\* A check that takes an entry at its word that it starts the chain.
EntryVerifiesLoosely(e, prevHash) == SelfIntact(e) /\ e.PrevHash \in {prevHash, GenesisHash}

\* What VerifyEntry reports, given the hash of the row before.
EntryVerifies(e, prevHash) == SelfIntact(e) /\ e.PrevHash = prevHash

\* Checks that count positions from one, or do not look at the link.
EntryIntactFromOne(e, i, prevHash) ==
    /\ e.Sequence = i + 1
    /\ e.PrevHash = prevHash
    /\ supportedVersion(e.Message.SchemaVersion)
    /\ ComputeHash(e) = e.EntryHash
    /\ VerifyMessage(e.Message)

EntryIntactUnlinked(e, i, prevHash) ==
    /\ e.Sequence = i
    /\ supportedVersion(e.Message.SchemaVersion)
    /\ ComputeHash(e) = e.EntryHash
    /\ VerifyMessage(e.Message)

\* What Verify checks of the entry at index i (from 0), given its predecessor's
\* hash.
EntryIntact(e, i, prevHash) ==
    /\ e.Sequence = i
    /\ e.PrevHash = prevHash
    /\ supportedVersion(e.Message.SchemaVersion)
    /\ ComputeHash(e) = e.EntryHash
    /\ VerifyMessage(e.Message)

\* The hash the entry at index i (from 1) must be linked to.
PrevHashAt(entries, i) == IF i = 1 THEN GenesisHash ELSE entries[i - 1].EntryHash

LogIntact(entries) ==
    \A i \in DOMAIN entries : EntryIntact(entries[i], i - 1, PrevHashAt(entries, i))
=============================================================================
