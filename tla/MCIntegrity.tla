---------------------------- MODULE MCIntegrity -----------------------------
(***************************************************************************)
(* What the hashes commit to.  Checks the Merkle operators against their   *)
(* reference meaning for every leaf sequence over LeafIds of length at     *)
(* most MaxLeaves, and the integrity checks for every table of at most     *)
(* MaxEntries entries, whoever wrote it.  The state is a leaf sequence or  *)
(* a table; a step adds a leaf or an entry.                                *)
(***************************************************************************)
EXTENDS Chain, Merkle, Functions

CONSTANTS LeafIds,     \* identifies the entry a leaf hash was computed from
          MaxLeaves,   \* bound on the window length
          MaxEntries   \* bound on the length of a table

ASSUME BoundAssumption == MaxLeaves \in Nat /\ MaxEntries \in Nat

VARIABLES leaves, entries

LeafHash(i) == <<i, 0, 0>>

Init == leaves = <<>> /\ entries = <<>>

AddLeaf ==
    /\ entries = <<>> /\ Len(leaves) < MaxLeaves
    /\ \E i \in LeafIds : leaves' = Append(leaves, LeafHash(i))
    /\ UNCHANGED entries

\* Messages that Append accepts, and two that it does not: one changed after it
\* was signed and one of another schema version.
Acceptable == {SignMessage(NewMessage("c1", id, "alice", 1, 2), "alice") : id \in {"a", "b"}}

Unacceptable ==
    LET m == NewMessage("c1", "a", "alice", 1, 2)
    IN  {[SignMessage(m, "alice") EXCEPT !.Content = 2],
         SignMessage([m EXCEPT !.SchemaVersion = CurrentSchemaVersion + 1], "alice")}

\* The fields of an entry that somebody may have stored after these: its own
\* position or one beside it, any link, its own hash or that of another.
AddEntry ==
    LET n == Len(entries)
        known == {entries[i].EntryHash : i \in 1 .. n}
    IN  /\ leaves = <<>> /\ n < MaxEntries
        /\ \E s \in {n, n + 1} \cup {Max({0, n - 1})}, m \in Acceptable \cup Unacceptable,
              prev \in known \cup {GenesisHash} :
              LET own == ComputeHash([Sequence |-> s, Message |-> m, PrevHash |-> prev])
              IN  \E h \in known \cup {own} :
                      entries' = Append(entries, [Sequence |-> s, Message |-> m,
                                                  PrevHash |-> prev, EntryHash |-> h])
        /\ UNCHANGED leaves

Next == AddLeaf \/ AddEntry

Spec == Init /\ [][Next]_<<leaves, entries>>

-----------------------------------------------------------------------------
\* Windows as the log produces them: the entry hashes of distinct sequences.
DistinctWindows == UNION { { [k \in 1..n |-> LeafHash(f[k])] : f \in Injection(1..n, LeafIds) }
                           : n \in 0..MaxLeaves }

(***************************************************************************)
(* Every proof that Proof returns verifies against the root that Root      *)
(* computes, at every index and for every window length, odd layers        *)
(* included (tree.go Proof, VerifyProof).                                  *)
(***************************************************************************)
ProofsVerify ==
    \A i \in 0 .. Len(leaves) - 1 :
        VerifyProof(leaves[i + 1], Proof(leaves, i).Path, Root(leaves))

(***************************************************************************)
(* A proof is bound to its leaf: the path of one entry never verifies a     *)
(* different entry of the window (tree.go VerifyProof).                    *)
(***************************************************************************)
ProofsBindLeaf ==
    \A i \in 0 .. Len(leaves) - 1 : \A j \in LeafIds :
        VerifyProof(LeafHash(j), Proof(leaves, i).Path, Root(leaves))
            => LeafHash(j) = leaves[i + 1]

(***************************************************************************)
(* A root determines its window: two windows of distinct entries with the  *)
(* same root are equal, whatever their lengths, although odd layers repeat *)
(* a node (tree.go Root; this is what makes a snapshot prove that no       *)
(* message is missing).                                                    *)
(***************************************************************************)
RootDeterminesWindow ==
    (entries = <<>> /\ leaves \in DistinctWindows) =>
        \A other \in DistinctWindows : Root(other) = Root(leaves) => other = leaves

-----------------------------------------------------------------------------
\* The log that Append builds of these messages.
Appended(ms) ==
    LET table[n \in 0 .. Len(ms)] ==
            IF n = 0 THEN EmptyTable
            ELSE Put(table[n - 1], n - 1, NextEntry(table[n - 1], ms[n]))
    IN  [i \in 1 .. Len(ms) |-> table[Len(ms)][i - 1]]

HonestLogs == {Appended(ms) : ms \in UNION {[1 .. n -> Acceptable] : n \in 0 .. MaxEntries}}

(***************************************************************************)
(* Verify accepts exactly the logs that Append can have written: an entry  *)
(* that is changed, moved, repeated or inserted is noticed, one that is    *)
(* removed unless nothing follows it, and nothing that was appended is     *)
(* reported (log.go Verify; README.md: "Tamper-evident message history").  *)
(***************************************************************************)
VerifyExact == LogIntact(entries) <=> entries \in HonestLogs

(***************************************************************************)
(* The hash of the tip commits to the whole log: no other log with the     *)
(* same tip passes Verify, so comparing current_hash compares histories    *)
(* (message.go ComputeHash; log.go Sync).                                  *)
(***************************************************************************)
TipCommits ==
    (entries # <<>> /\ LogIntact(entries)) =>
        \A other \in HonestLogs \ {<<>>} :
            Last(other).EntryHash = Last(entries).EntryHash => other = entries

(***************************************************************************)
(* Checking every message checks the log: for a table whose rows are at    *)
(* their own positions, Verify reports it valid exactly when VerifyEntry   *)
(* reports each of its entries valid (log.go Verify, VerifyEntry).         *)
(***************************************************************************)
EachEntryVerifies ==
    (\A i \in DOMAIN entries : entries[i].Sequence = i - 1) =>
        (LogIntact(entries) <=>
            \A i \in DOMAIN entries : EntryVerifies(entries[i], PrevHashAt(entries, i)))
=============================================================================
