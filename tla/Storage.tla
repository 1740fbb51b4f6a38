------------------------------ MODULE Storage -------------------------------
(***************************************************************************)
(* internal/storage: the persistence port and its two adapters.            *)
(*                                                                         *)
(* A chat's table of entries is a function from sequence to entry and its  *)
(* table of snapshots a function from index to snapshot.  For the          *)
(* in-memory adapter these are slices, position by position from 0; for    *)
(* the ScyllaDB adapter the rows of a partition, by clustering key.        *)
(***************************************************************************)
EXTENDS SignedMessages, Integers, Sequences, FiniteSets, FiniteSetsExt

CONSTANTS
    Backend,    \* "memory" or "scylla"
    SignBit     \* 2^63: the first uint64 that int64() makes negative

ASSUME BackendAssumption == Backend \in {"memory", "scylla"}

ASSUME SignBitAssumption == SignBit \in Nat \ {0}

EmptyTable == [s \in {} |-> {}]

IsEmpty(table) == DOMAIN table = {}

Put(table, key, value) ==
    [k \in DOMAIN table \cup {key} |-> IF k = key THEN value ELSE table[k]]

-----------------------------------------------------------------------------
(***************************************************************************)
(* InMemoryStorage: every operation is atomic under the store's mutex.     *)
(***************************************************************************)

SliceLen(slice) == Cardinality(DOMAIN slice)

SliceAppends(slice, e) == SliceLen(slice) = e.Sequence

SliceLast(slice) == slice[SliceLen(slice) - 1]

SliceSince(slice, from) ==
    IF from >= SliceLen(slice) THEN <<>>
    ELSE [i \in 1 .. SliceLen(slice) - from |-> slice[from + i - 1]]

SliceSave(slice, snap) == Put(slice, SliceLen(slice), snap)

SliceHas(slice, i) == i < SliceLen(slice)

-----------------------------------------------------------------------------
(***************************************************************************)
(* Scylla: every operation is one query.                                   *)
(***************************************************************************)

Int64(u) == IF u < SignBit THEN u ELSE u - 2 * SignBit

\* A CQL timestamp has millisecond precision.
RowOf(e) == [e EXCEPT !.Message.Timestamp = Truncate(@)]

\* INSERT ... IF NOT EXISTS.
RowInserts(rows, e) == e.Sequence \notin DOMAIN rows

\* ORDER BY the clustering key DESC LIMIT 1.
RowLast(rows) == rows[Max(DOMAIN rows)]

RowsSince(rows, from) ==
    LET keys == {s \in DOMAIN rows : s >= Int64(from)}
    IN  [i \in 1 .. Cardinality(keys) |->
            rows[CHOOSE s \in keys : Cardinality({t \in keys : t < s}) = i - 1]]

\* An upsert.  The row keeps the write with the later timestamp, which the
\* writing node's clock gives it: a node's own snapshots of an index are written
\* in the order of their ends, those of two nodes in any order.
RowSaves(rows, snap) ==
    LET written == Put(rows, snap.SnapshotIndex, snap)
        old     == rows[snap.SnapshotIndex]
    IN  IF snap.SnapshotIndex \notin DOMAIN rows THEN {written}
        ELSE IF old.Node # snap.Node THEN {written, rows}
        ELSE IF old.ToSequence < snap.ToSequence THEN {written} ELSE {rows}

RowHas(rows, key) == Int64(key) \in DOMAIN rows

-----------------------------------------------------------------------------
(***************************************************************************)
(* The port.                                                               *)
(***************************************************************************)

Memory == Backend = "memory"

Stored(e) == IF Memory THEN e ELSE RowOf(e)

\* An append without the contiguity check or the lightweight transaction.
Unconditional(rows, e) == TRUE

\* AppendEntry's condition.
AppendApplies(rows, e) == IF Memory THEN SliceAppends(rows, e) ELSE RowInserts(rows, e)

\* LastEntry and LatestSnapshot, of a table that is not empty.
Latest(table) == IF Memory THEN SliceLast(table) ELSE RowLast(table)

\* A range query with `sequence > ?`: the first entry of the window is lost.
EntriesAfter(rows, from) ==
    IF Memory THEN SliceSince(rows, from + 1) ELSE RowsSince(rows, from + 1)

\* The entries with sequence >= from, in order.
EntriesSince(rows, from) == IF Memory THEN SliceSince(rows, from) ELSE RowsSince(rows, from)

\* The tables SaveSnapshot may leave.
SavedSnapshot(snaps, snap) ==
    IF Memory THEN {SliceSave(snaps, snap)} ELSE RowSaves(snaps, snap)

\* Entry and SnapshotAt find something at the key.
Has(table, key) == IF Memory THEN SliceHas(table, key) ELSE RowHas(table, key)
=============================================================================
