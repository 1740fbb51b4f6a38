--------------------------- MODULE IntegrityProofs ---------------------------
(***************************************************************************)
(* What the hashes commit to, for any number of leaves and of entries: the *)
(* properties of MCIntegrity without its bounds.                           *)
(***************************************************************************)
EXTENDS MCIntegrity, MerkleProofs, FiniteSetTheorems

-----------------------------------------------------------------------------
(***************************************************************************)
(* The Merkle operators, on the leaf hashes of a run.                      *)
(***************************************************************************)
LeafHashes == {LeafHash(i) : i \in LeafIds}

LeavesOK == leaves \in Seq(LeafHashes)

\* Leaves are leaf hashes.
LEMMA LeavesOKHolds == Spec => []LeavesOK
<1>1. Init => LeavesOK
  BY DEF Init, LeavesOK
<1>2. LeavesOK /\ [Next]_<<leaves, entries>> => LeavesOK'
  <2> SUFFICES ASSUME LeavesOK, [Next]_<<leaves, entries>> PROVE LeavesOK'
    OBVIOUS
  <2>1. CASE AddLeaf
    <3>1. PICK i \in LeafIds : leaves' = Append(leaves, LeafHash(i))
      BY <2>1 DEF AddLeaf
    <3>2. LeafHash(i) \in LeafHashes
      BY DEF LeafHashes
    <3> QED BY <3>1, <3>2 DEF LeavesOK
  <2>2. CASE UNCHANGED leaves
    BY <2>2 DEF LeavesOK
  <2> QED BY <2>1, <2>2 DEF Next, AddEntry
<1> QED BY <1>1, <1>2, PTL DEF Spec

\* A window with an index is a layer.
LEMMA LeavesAreLayer ==
    ASSUME LeavesOK, NEW i \in 0 .. Len(leaves) - 1
    PROVE  IsLayer(leaves)
<1>1. Len(leaves) \in Nat
  BY DEF LeavesOK
<1>2. Len(leaves) > 0
  BY <1>1
<1>3. \E T : leaves \in Seq(T)
  BY DEF LeavesOK
<1> QED BY <1>2, <1>3 DEF IsLayer

(***************************************************************************)
(* Every proof that Proof returns verifies against Root, at every index    *)
(* and for every window length (tree.go Proof, VerifyProof).               *)
(***************************************************************************)
THEOREM ProofsVerifyHolds == Spec => []ProofsVerify
<1>1. LeavesOK => ProofsVerify
  BY LeavesAreLayer, ProofVerifies DEF ProofsVerify
<1> QED BY <1>1, LeavesOKHolds, PTL

(***************************************************************************)
(* The path of one entry never verifies another one (tree.go VerifyProof). *)
(***************************************************************************)
THEOREM ProofsBindLeafHolds == Spec => []ProofsBindLeaf
<1>1. LeavesOK => ProofsBindLeaf
  <2> SUFFICES ASSUME LeavesOK, NEW i \in 0 .. Len(leaves) - 1, NEW j \in LeafIds,
                      VerifyProof(LeafHash(j), Proof(leaves, i).Path, Root(leaves))
               PROVE  LeafHash(j) = leaves[i + 1]
    BY DEF ProofsBindLeaf
  <2>1. IsLayer(leaves)
    BY LeavesAreLayer
  <2> DEFINE x == LeafHash(j)
  <2>2. VerifyProof(x, Proof(leaves, i).Path, Root(leaves))
    OBVIOUS
  <2> HIDE DEF x
  <2>3. x = leaves[i + 1]
    BY <2>1, <2>2, ProofBindsLeaf
  <2> QED BY <2>3 DEF x
<1> QED BY <1>1, LeavesOKHolds, PTL

\* A window of distinct entries is empty or a layer of distinct leaves.
LEMMA WindowIs ==
    ASSUME NEW w \in DistinctWindows
    PROVE  w = <<>> \/ (IsLayer(w) /\ Distinct(w) /\ NotANode(w))
<1>1. PICK n \in 0 .. MaxLeaves :
        w \in {[k \in 1 .. n |-> LeafHash(f[k])] : f \in Injection(1 .. n, LeafIds)}
  BY DEF DistinctWindows
<1>2. PICK f \in Injection(1 .. n, LeafIds) : w = [k \in 1 .. n |-> LeafHash(f[k])]
  BY <1>1
<1>3. n \in Nat
  BY <1>1, BoundAssumption
<1>4. f \in [1 .. n -> LeafIds] /\ \A a, b \in 1 .. n : f[a] = f[b] => a = b
  BY <1>2 DEF Injection, IsInjective
<1>5. CASE n = 0
  <2>1. 1 .. n = {}
    BY <1>5
  <2>2. w = [k \in {} |-> LeafHash(f[k])]
    BY <1>2, <2>1
  <2> QED BY <2>2
<1>6. CASE n # 0
  <2>1. w \in [1 .. n -> LeafHashes]
    BY <1>2, <1>4 DEF LeafHashes
  <2>2. w \in Seq(LeafHashes)
    BY <1>3, <2>1
  <2>3. Len(w) = n
    BY <1>2, <1>3
  <2>4. IsLayer(w)
    <3>1. \E T : w \in Seq(T)
      BY <2>2
    <3>2. Len(w) > 0
      BY <1>3, <1>6, <2>3
    <3> QED BY <3>1, <3>2 DEF IsLayer
  <2>5. \A k \in 1 .. n : w[k] = <<f[k], 0, 0>>
    BY <1>2 DEF LeafHash
  <2>6. \A x, y : <<x, 0, 0>> = <<y, 0, 0>> => x = y
    OBVIOUS
  <2>7. Distinct(w)
    BY <1>4, <2>3, <2>5, <2>6 DEF Distinct
  <2>8. \A x, y, z : <<x, 0, 0>> # <<y, z>>
    OBVIOUS
  <2>9. NotANode(w)
    BY <2>3, <2>5, <2>8 DEF NotANode
  <2> QED BY <2>4, <2>7, <2>9
<1> QED BY <1>5, <1>6

\* The root of some leaves is a leaf or the hash of a node, never the empty root.
LEMMA RootNotEmpty ==
    ASSUME NEW w \in DistinctWindows, w # <<>>
    PROVE  Root(w) # EmptyRoot
<1> DEFINE h == Height(w)
           L == Layers(w)
           m == Len(w)
<1>1. IsLayer(w)
  BY WindowIs
<1>2. /\ h \in 0 .. m /\ m \in Nat \ {0} /\ L[0] = w /\ Len(L[h]) = 1
      /\ \A k \in 0 .. m - 1 : L[k + 1] = NextLayer(L[k])
      /\ \A k \in 0 .. m : IsLayer(L[k])
  BY <1>1, HeightIs, LayersStep, LayersShrink
<1>3. Root(w) = L[h][1]
  BY DEF Root
<1> HIDE DEF h, L
<1>4. CASE h = 0
  <2>1. PICK n \in 0 .. MaxLeaves : \E f \in Injection(1 .. n, LeafIds) :
                                       w = [k \in 1 .. n |-> LeafHash(f[k])]
    BY DEF DistinctWindows
  <2>2. PICK f \in Injection(1 .. n, LeafIds) : w = [k \in 1 .. n |-> LeafHash(f[k])]
    BY <2>1
  <2>3. n \in Nat /\ Len(w) = n
    BY <2>1, <2>2, BoundAssumption
  <2>4. 1 \in 1 .. n
    BY <1>2, <2>3
  <2>5. w[1] = <<f[1], 0, 0>>
    BY <2>2, <2>4 DEF LeafHash
  <2>6. \A x : <<x, 0, 0>> # <<"">>
    OBVIOUS
  <2> QED BY <1>2, <1>3, <1>4, <2>5, <2>6 DEF EmptyRoot
<1>5. CASE h # 0
  <2> DEFINE P == L[h - 1]
  <2>1. h - 1 \in 0 .. m - 1 /\ h - 1 \in 0 .. m /\ (h - 1) + 1 = h
    BY <1>2, <1>5
  <2>2. L[h] = NextLayer(P) /\ IsLayer(P)
    BY <1>2, <2>1
  <2> HIDE DEF P
  <2>3. Len(P) \in Nat \ {0}
    BY <2>2, PadIs
  <2>4. 1 \in 1 .. Half(Len(P))
    BY <2>3, HalfOf
  <2>5. L[h][1] = <<Pad(P)[2*1 - 1], Pad(P)[2*1]>>
    BY <2>2, <2>4, NextLayerIs
  <2>6. \A x, y : <<x, y>> # <<"">>
    OBVIOUS
  <2> QED BY <1>3, <2>5, <2>6 DEF EmptyRoot
<1> QED BY <1>4, <1>5

(***************************************************************************)
(* A root determines its window, whatever the lengths: this is what makes  *)
(* a snapshot prove that no message is missing (tree.go Root).             *)
(***************************************************************************)
THEOREM RootDeterminesWindowHolds == Spec => []RootDeterminesWindow
<1>1. RootDeterminesWindow
  <2> SUFFICES ASSUME leaves \in DistinctWindows, NEW other \in DistinctWindows,
                      Root(other) = Root(leaves)
               PROVE  other = leaves
    BY DEF RootDeterminesWindow
  <2>1. Root(<<>>) = EmptyRoot
    BY DEF Root
  <2>2. CASE leaves = <<>> \/ other = <<>>
    BY <2>1, <2>2, RootNotEmpty
  <2>3. CASE leaves # <<>> /\ other # <<>>
    BY <2>3, WindowIs, RootDetermines
  <2> QED BY <2>2, <2>3
<1> QED BY <1>1, PTL

-----------------------------------------------------------------------------
(***************************************************************************)
(* The log that Append builds, entry by entry (log.go Append).             *)
(***************************************************************************)

\* The entry of message m at index i of a log, whose hash is computed over the rest.
EntryOf(i, m, prev) ==
    [Sequence |-> i - 1, Message |-> m, PrevHash |-> prev,
     EntryHash |-> ComputeHash([Sequence |-> i - 1, Message |-> m, PrevHash |-> prev])]

ChainOf(a, ms, n) ==
    /\ a = [i \in 1 .. n |-> a[i]]
    /\ \A i \in 1 .. n : a[i] = EntryOf(i, ms[i], PrevHashAt(a, i))

\* The latest row of a table without gaps.
LEMMA LastOfTable ==
    ASSUME NEW table, NEW k \in Nat, DOMAIN table = 0 .. k - 1, k # 0
    PROVE  ~ IsEmpty(table) /\ Latest(table) = table[k - 1]
<1>1. Cardinality(0 .. k - 1) = k
  <2>1. Cardinality(0 .. k - 1) = IF 0 > k - 1 THEN 0 ELSE (k - 1) - 0 + 1
    BY FS_Interval
  <2> QED BY <2>1
<1>2. Max(0 .. k - 1) = k - 1
  <2>1. k - 1 \in 0 .. k - 1 /\ \A y \in 0 .. k - 1 : k - 1 >= y
    OBVIOUS
  <2>2. \A x \in 0 .. k - 1 : (\A y \in 0 .. k - 1 : x >= y) => x = k - 1
    OBVIOUS
  <2> QED BY <2>1, <2>2 DEF Max
<1>3. 0 \in DOMAIN table
  OBVIOUS
<1> QED BY <1>1, <1>2, <1>3 DEF IsEmpty, Latest, SliceLast, SliceLen, RowLast

TablesAre(f, ms, n) ==
    f = [k \in 0 .. n |-> IF k = 0 THEN EmptyTable
                          ELSE Put(f[k - 1], k - 1, NextEntry(f[k - 1], ms[k]))]

\* The tables that Appended builds one after the other exist.
LEMMA TablesExist ==
    ASSUME NEW ms, NEW n \in Nat
    PROVE  \E f : TablesAre(f, ms, n)
<1> DEFINE S == {m \in Nat : \E f : TablesAre(f, ms, m)}
           Grown(t, k) == Put(t, k - 1, NextEntry(t, ms[k]))
<1>1. 0 \in S
  <2> DEFINE f == [k \in 0 .. 0 |-> EmptyTable]
  <2>1. f = [k \in 0 .. 0 |-> IF k = 0 THEN EmptyTable ELSE Grown(f[k - 1], k)]
    <3> HIDE DEF Grown
    <3> QED OBVIOUS
  <2> HIDE DEF f
  <2> QED BY <2>1 DEF TablesAre
<1>2. ASSUME NEW m \in 0 .. n - 1, m \in S PROVE m + 1 \in S
  <2>1. PICK g : g = [k \in 0 .. m |-> IF k = 0 THEN EmptyTable ELSE Grown(g[k - 1], k)]
    BY <1>2 DEF TablesAre
  <2>2. m \in Nat
    OBVIOUS
  <2> HIDE DEF Grown
  <2> DEFINE f == [k \in 0 .. m + 1 |-> IF k = 0 THEN EmptyTable ELSE Grown(g[k - 1], k)]
  <2>3. ASSUME NEW k \in 0 .. m + 1
        PROVE  f[k] = IF k = 0 THEN EmptyTable ELSE Grown(f[k - 1], k)
    <3>1. CASE k = 0
      BY <3>1
    <3>2. CASE k # 0
      <4>1. k - 1 \in 0 .. m /\ k - 1 \in 0 .. m + 1
        BY <3>2, <2>2
      <4>2. g[k - 1] = IF k - 1 = 0 THEN EmptyTable ELSE Grown(g[k - 1 - 1], k - 1)
        BY <2>1, <4>1
      <4>3. f[k - 1] = g[k - 1]
        BY <4>1, <4>2
      <4> QED BY <3>2, <4>3
    <3> QED BY <3>1, <3>2
  <2>4. f = [k \in 0 .. m + 1 |-> f[k]]
    OBVIOUS
  <2> HIDE DEF f
  <2>5. f = [k \in 0 .. m + 1 |-> IF k = 0 THEN EmptyTable ELSE Grown(f[k - 1], k)]
    BY <2>3, <2>4
  <2>6. TablesAre(f, ms, m + 1)
    BY <2>5 DEF TablesAre, Grown
  <2>7. m + 1 \in Nat
    BY <2>2
  <2> QED BY <2>6, <2>7
<1>3. 0 .. n \subseteq S
  <2> HIDE DEF S
  <2> QED BY <1>1, <1>2, UpTo
<1> QED BY <1>3

\* A table of k entries, each chained to the one before.
Built(t, ms, k) ==
    /\ DOMAIN t = 0 .. k - 1
    /\ \A s \in 0 .. k - 1 :
          t[s] = EntryOf(s + 1, ms[s + 1], IF s = 0 THEN GenesisHash ELSE t[s - 1].EntryHash)

\* Appending one message to such a table.
LEMMA BuildStep ==
    ASSUME NEW t, NEW ms, NEW k \in Nat, Built(t, ms, k)
    PROVE  Built(Put(t, k, NextEntry(t, ms[k + 1])), ms, k + 1)
<1> DEFINE prev == IF k = 0 THEN GenesisHash ELSE t[k - 1].EntryHash
           e == NextEntry(t, ms[k + 1])
           u == Put(t, k, e)
<1>1. e = EntryOf(k + 1, ms[k + 1], prev)
  <2>1. (k + 1) - 1 = k
    OBVIOUS
  <2>2. CASE k = 0
    <3>1. IsEmpty(t)
      BY <2>2 DEF Built, IsEmpty
    <3> QED BY <2>1, <2>2, <3>1 DEF NextEntry, EntryOf
  <2>3. CASE k # 0
    <3>1. ~ IsEmpty(t) /\ Latest(t) = t[k - 1]
      BY <2>3, LastOfTable DEF Built
    <3>2. k - 1 \in 0 .. k - 1 /\ ((k - 1) + 1) - 1 = k - 1 /\ (k - 1) + 1 = k
      BY <2>3
    <3>3. t[k - 1].Sequence = k - 1
      <4>1. \A x, p : EntryOf(k, x, p).Sequence = k - 1
        BY DEF EntryOf
      <4>2. \E x, p : t[k - 1] = EntryOf((k - 1) + 1, x, p)
        BY <3>2 DEF Built
      <4> QED BY <3>2, <4>1, <4>2
    <3> QED BY <2>1, <2>3, <3>1, <3>2, <3>3 DEF NextEntry, EntryOf
  <2> QED BY <2>2, <2>3
<1> HIDE DEF e
<1>2. DOMAIN t = 0 .. k - 1
  BY DEF Built
<1>3. DOMAIN u = 0 .. (k + 1) - 1 /\ u[k] = e /\ \A s \in 0 .. k - 1 : u[s] = t[s]
  BY <1>2 DEF Put
<1> HIDE DEF u
<1>4. ASSUME NEW s \in 0 .. (k + 1) - 1
      PROVE  u[s] = EntryOf(s + 1, ms[s + 1], IF s = 0 THEN GenesisHash ELSE u[s - 1].EntryHash)
  <2>1. CASE s = k
    <3>1. k # 0 => k - 1 \in 0 .. k - 1
      OBVIOUS
    <3>2. prev = IF k = 0 THEN GenesisHash ELSE u[k - 1].EntryHash
      BY <1>3, <3>1
    <3> QED BY <1>1, <1>3, <2>1, <3>2
  <2>2. CASE s # k
    <3>1. s \in 0 .. k - 1 /\ (s # 0 => s - 1 \in 0 .. k - 1)
      BY <2>2
    <3>2. u[s] = t[s] /\ (s # 0 => u[s - 1] = t[s - 1])
      BY <1>3, <3>1
    <3>3. t[s] = EntryOf(s + 1, ms[s + 1], IF s = 0 THEN GenesisHash ELSE t[s - 1].EntryHash)
      BY <3>1 DEF Built
    <3> QED BY <3>2, <3>3
  <2> QED BY <2>1, <2>2
<1>5. Built(u, ms, k + 1)
  BY <1>3, <1>4 DEF Built
<1> QED BY <1>5 DEF u, e

\* Appended is the chain of its messages.
LEMMA AppendedIsChain ==
    ASSUME NEW ms, Len(ms) \in Nat
    PROVE  ChainOf(Appended(ms), ms, Len(ms))
<1> DEFINE n == Len(ms)
           f == CHOOSE g : TablesAre(g, ms, n)
           S == {k \in Nat : Built(f[k], ms, k)}
           a == [i \in 1 .. n |-> f[n][i - 1]]
<1>1. n \in Nat
  OBVIOUS
<1>2. TablesAre(f, ms, n)
  <2> HIDE DEF n
  <2>1. \E g : TablesAre(g, ms, n)
    BY <1>1, TablesExist
  <2> QED BY <2>1
<1>3. Appended(ms) = a
  BY DEF Appended, TablesAre
<1> HIDE DEF n, f
<1>4. f[0] = EmptyTable
  BY <1>1, <1>2 DEF TablesAre
<1>5. 0 \in S
  BY <1>4 DEF Built, EmptyTable
<1>6. ASSUME NEW k \in 0 .. n - 1, k \in S PROVE k + 1 \in S
  <2>1. k \in Nat /\ k + 1 \in 0 .. n /\ k + 1 # 0 /\ (k + 1) - 1 = k /\ k + 1 \in Nat
    BY <1>1
  <2>2. f[k + 1] = Put(f[k], k, NextEntry(f[k], ms[k + 1]))
    BY <1>2, <2>1 DEF TablesAre
  <2>3. Built(f[k], ms, k)
    BY <1>6
  <2>4. Built(f[k + 1], ms, k + 1)
    BY <2>1, <2>2, <2>3, BuildStep
  <2> QED BY <2>1, <2>4
<1>7. Built(f[n], ms, n)
  <2>1. n \in 0 .. n
    BY <1>1
  <2> HIDE DEF S
  <2>2. 0 .. n \subseteq S
    BY <1>1, <1>5, <1>6, UpTo
  <2> QED BY <2>1, <2>2 DEF S
<1>8. ASSUME NEW i \in 1 .. n PROVE a[i] = EntryOf(i, ms[i], PrevHashAt(a, i))
  <2> DEFINE t == f[n]
  <2>1. /\ i - 1 \in 0 .. n - 1 /\ (i - 1) + 1 = i /\ (i = 1 <=> i - 1 = 0)
        /\ (i # 1 => i - 1 \in 1 .. n)
    BY <1>1
  <2>2. t[i - 1] = EntryOf(i, ms[i], IF i = 1 THEN GenesisHash ELSE t[(i - 1) - 1].EntryHash)
    BY <1>7, <2>1 DEF Built
  <2>3. a[i] = t[i - 1] /\ (i # 1 => a[i - 1] = t[(i - 1) - 1])
    BY <2>1
  <2> HIDE DEF a, t
  <2>4. PrevHashAt(a, i) = IF i = 1 THEN GenesisHash ELSE t[(i - 1) - 1].EntryHash
    BY <2>3 DEF PrevHashAt
  <2> QED BY <2>2, <2>3, <2>4
<1>9. a = [i \in 1 .. n |-> a[i]]
  OBVIOUS
<1> HIDE DEF a
<1>10. ChainOf(a, ms, n)
  BY <1>8, <1>9 DEF ChainOf
<1> QED BY <1>3, <1>10 DEF n

\* The messages determine the log.
LEMMA ChainUnique ==
    ASSUME NEW a, NEW b, NEW ms, NEW n \in Nat, ChainOf(a, ms, n), ChainOf(b, ms, n)
    PROVE  a = b
<1> DEFINE S == {k \in Nat : k = 0 \/ a[k] = b[k]}
<1>1. 0 \in S
  OBVIOUS
<1>2. ASSUME NEW k \in 0 .. n - 1, k \in S PROVE k + 1 \in S
  <2>1. k + 1 \in 1 .. n /\ (k + 1) - 1 = k /\ (k + 1 = 1 <=> k = 0) /\ k + 1 \in Nat
    OBVIOUS
  <2>2. PrevHashAt(a, k + 1) = PrevHashAt(b, k + 1)
    BY <1>2, <2>1 DEF PrevHashAt
  <2>3. /\ a[k + 1] = EntryOf(k + 1, ms[k + 1], PrevHashAt(a, k + 1))
        /\ b[k + 1] = EntryOf(k + 1, ms[k + 1], PrevHashAt(b, k + 1))
    BY <2>1 DEF ChainOf
  <2> QED BY <2>1, <2>2, <2>3
<1>3. 0 .. n \subseteq S
  <2> HIDE DEF S
  <2> QED BY <1>1, <1>2, UpTo
<1>4. \A k \in 1 .. n : a[k] = b[k]
  BY <1>3
<1>5. a = [i \in 1 .. n |-> a[i]] /\ b = [i \in 1 .. n |-> b[i]]
  BY DEF ChainOf
<1> QED BY <1>4, <1>5

-----------------------------------------------------------------------------
(***************************************************************************)
(* Verify, on any table.  The rows have the fields of an entry and some    *)
(* message, changed or not; nothing else is known of them.                 *)
(***************************************************************************)
Known(m) == m \in Acceptable \cup Unacceptable

IsRow(e) ==
    /\ e = [Sequence |-> e.Sequence, Message |-> e.Message, PrevHash |-> e.PrevHash,
            EntryHash |-> e.EntryHash]
    /\ Known(e.Message)

EntriesOK ==
    /\ \E n \in 0 .. MaxEntries : entries = [i \in 1 .. n |-> entries[i]]
    /\ \A i \in DOMAIN entries : IsRow(entries[i])

\* A table is made of rows with the messages of the run.
LEMMA EntriesOKHolds == Spec => []EntriesOK
<1>1. Init => EntriesOK
  <2> SUFFICES ASSUME Init PROVE EntriesOK
    OBVIOUS
  <2>1. entries = <<>>
    BY DEF Init
  <2>2. 0 \in 0 .. MaxEntries /\ 1 .. 0 = {}
    BY BoundAssumption
  <2>3. entries = [i \in {} |-> entries[i]]
    BY <2>1
  <2>4. entries = [i \in 1 .. 0 |-> entries[i]]
    BY <2>2, <2>3
  <2>5. DOMAIN entries = {}
    BY <2>3
  <2> QED BY <2>2, <2>4, <2>5 DEF EntriesOK
<1>2. EntriesOK /\ [Next]_<<leaves, entries>> => EntriesOK'
  <2> SUFFICES ASSUME EntriesOK, [Next]_<<leaves, entries>> PROVE EntriesOK'
    OBVIOUS
  <2>1. CASE UNCHANGED entries
    BY <2>1 DEF EntriesOK
  <2>2. CASE AddEntry
    <3>1. PICK n \in 0 .. MaxEntries : entries = [i \in 1 .. n |-> entries[i]]
      BY DEF EntriesOK
    <3>2. n \in Nat /\ n + 1 \in Nat
      BY <3>1, BoundAssumption
    <3>3. Len(entries) = n /\ DOMAIN entries = 1 .. n
      BY <3>1, <3>2
    <3>4. PICK s, m, prev, h :
             /\ Known(m)
             /\ entries' = Append(entries, [Sequence |-> s, Message |-> m,
                                            PrevHash |-> prev, EntryHash |-> h])
      BY <2>2 DEF AddEntry, Known
    <3> DEFINE e == [Sequence |-> s, Message |-> m, PrevHash |-> prev, EntryHash |-> h]
    <3>5. IsRow(e)
      BY <3>4 DEF IsRow
    <3>6. n + 1 \in 0 .. MaxEntries
      BY <2>2, <3>2, <3>3, BoundAssumption DEF AddEntry
    <3>7. entries' = [i \in 1 .. n + 1 |-> IF i = n + 1 THEN e ELSE entries[i]]
      BY <3>3, <3>4
    <3> HIDE DEF e
    <3>8. /\ DOMAIN entries' = 1 .. n + 1 /\ entries' = [i \in 1 .. n + 1 |-> entries'[i]]
          /\ \A i \in 1 .. n + 1 : entries'[i] = IF i = n + 1 THEN e ELSE entries[i]
      BY <3>7
    <3>9. \A i \in 1 .. n : IsRow(entries[i])
      BY <3>3 DEF EntriesOK
    <3>10. ASSUME NEW i \in 1 .. n + 1 PROVE IsRow(entries'[i])
      <4>1. i = n + 1 \/ i \in 1 .. n
        BY <3>2
      <4> QED BY <3>5, <3>8, <3>9, <4>1
    <3> QED BY <3>6, <3>8, <3>10 DEF EntriesOK
  <2> QED BY <2>1, <2>2 DEF Next, AddLeaf
<1> QED BY <1>1, <1>2, PTL DEF Spec

-----------------------------------------------------------------------------
\* What Verify asks of a message alone.
Genuine(m) == supportedVersion(m.SchemaVersion) /\ VerifyMessage(m)

\* A message made and signed as its sender does is genuine,
LEMMA AcceptableGenuine == \A m \in Acceptable : Genuine(m)
<1> SUFFICES ASSUME NEW id \in {"a", "b"}
             PROVE  Genuine(SignMessage(NewMessage("c1", id, "alice", 1, 2), "alice"))
  BY DEF Acceptable
<1> DEFINE m == NewMessage("c1", id, "alice", 1, 2)
           sig == Sign("alice", SigningPayload(m))
           signed == [m EXCEPT !.Signature = sig]
<1>1. signed = SignMessage(m, "alice")
  BY DEF SignMessage
<1>2. DOMAIN m = {"SchemaVersion", "MessageID", "ChatID", "Content", "Timestamp", "PublicKey",
                  "Signature"}
      /\ m.SchemaVersion = CurrentSchemaVersion /\ m.PublicKey = "alice"
  BY DEF NewMessage
<1> HIDE DEF m
<1>3. /\ signed.SchemaVersion = CurrentSchemaVersion /\ signed.PublicKey = "alice"
      /\ SigningPayload(signed) = SigningPayload(m)
  BY <1>2 DEF SigningPayload
<1>4. signed.Signature = sig
  BY <1>2
<1>5. sig # NoSignature
  BY DEF Sign, NoSignature
<1> HIDE DEF signed
<1>6. Genuine(signed)
  BY <1>3, <1>4, <1>5 DEF Genuine, VerifyMessage, supportedVersion
<1> QED BY <1>1, <1>6 DEF m

\* one changed after it was signed, or of another version, is not.
LEMMA UnacceptableNot == \A m \in Unacceptable : ~ Genuine(m)
<1> DEFINE m == NewMessage("c1", "a", "alice", 1, 2)
           fields == {"SchemaVersion", "MessageID", "ChatID", "Content", "Timestamp", "PublicKey",
                      "Signature"}
           sig == Sign("alice", SigningPayload(m))
           edited == [SignMessage(m, "alice") EXCEPT !.Content = 2]
           newer == [m EXCEPT !.SchemaVersion = CurrentSchemaVersion + 1]
<1>1. Unacceptable = {edited, SignMessage(newer, "alice")}
  BY DEF Unacceptable
<1>2. DOMAIN m = fields /\ m.Content = 1
  BY DEF NewMessage
<1> HIDE DEF m
<1>3. ~ Genuine(edited)
  <2>1. edited = [[m EXCEPT !.Signature = sig] EXCEPT !.Content = 2]
    BY DEF SignMessage
  <2>2. edited.Content = 2 /\ edited.Signature = sig
    BY <1>2, <2>1
  <2> HIDE DEF edited
  <2>3. SigningPayload(m) # SigningPayload(edited)
    BY <1>2, <2>2 DEF SigningPayload
  <2>4. sig # Sign(edited.PublicKey, SigningPayload(edited))
    BY <2>3 DEF Sign
  <2> QED BY <2>2, <2>4 DEF Genuine, VerifyMessage
<1>4. ~ Genuine(SignMessage(newer, "alice"))
  <2>1. DOMAIN newer = fields /\ newer.SchemaVersion = CurrentSchemaVersion + 1
    BY <1>2
  <2> HIDE DEF newer
  <2>2. SignMessage(newer, "alice").SchemaVersion = CurrentSchemaVersion + 1
    BY <2>1 DEF SignMessage
  <2> QED BY <2>2 DEF Genuine, supportedVersion, CurrentSchemaVersion
<1> QED BY <1>1, <1>3, <1>4

\* The logs that Append can have written are the chains of accepted messages.
LEMMA HonestIs ==
    ASSUME NEW log
    PROVE  log \in HonestLogs <=>
             \E n \in 0 .. MaxEntries : \E ms \in [1 .. n -> Acceptable] : ChainOf(log, ms, n)
<1>1. ASSUME NEW n \in 0 .. MaxEntries, NEW ms \in [1 .. n -> Acceptable]
      PROVE  n \in Nat /\ Len(ms) = n /\ ChainOf(Appended(ms), ms, n)
  <2>1. n \in Nat /\ Len(ms) = n
    BY BoundAssumption
  <2> QED BY <2>1, AppendedIsChain
<1>2. ASSUME log \in HonestLogs
      PROVE  \E n \in 0 .. MaxEntries : \E ms \in [1 .. n -> Acceptable] : ChainOf(log, ms, n)
  <2>1. PICK n \in 0 .. MaxEntries : \E ms \in [1 .. n -> Acceptable] : log = Appended(ms)
    BY <1>2 DEF HonestLogs
  <2> QED BY <1>1, <2>1
<1>3. ASSUME NEW n \in 0 .. MaxEntries, NEW ms \in [1 .. n -> Acceptable], ChainOf(log, ms, n)
      PROVE  log \in HonestLogs
  <2>1. log = Appended(ms)
    BY <1>1, <1>3, ChainUnique
  <2> QED BY <2>1 DEF HonestLogs
<1> QED BY <1>2, <1>3

\* An entry that Append chains is intact, and an intact row is one of these.
LEMMA EntryOfIntact ==
    ASSUME NEW i, NEW m, NEW prev, Genuine(m)
    PROVE  EntryIntact(EntryOf(i, m, prev), i - 1, prev)
<1> DEFINE e == EntryOf(i, m, prev)
<1>1. /\ e.Sequence = i - 1 /\ e.Message = m /\ e.PrevHash = prev
      /\ e.EntryHash = ComputeHash([Sequence |-> i - 1, Message |-> m, PrevHash |-> prev])
  BY DEF EntryOf
<1> HIDE DEF e
<1>2. ComputeHash(e) = e.EntryHash
  BY <1>1 DEF ComputeHash
<1>3. EntryIntact(e, i - 1, prev)
  BY <1>1, <1>2 DEF EntryIntact, Genuine
<1> QED BY <1>3 DEF e

\* The other way round.
LEMMA IntactIsEntryOf ==
    ASSUME NEW e, IsRow(e), NEW i, NEW prev, EntryIntact(e, i - 1, prev)
    PROVE  Genuine(e.Message) /\ e = EntryOf(i, e.Message, prev)
<1>1. e.Sequence = i - 1 /\ e.PrevHash = prev /\ ComputeHash(e) = e.EntryHash
  BY DEF EntryIntact
<1>2. ComputeHash([Sequence |-> i - 1, Message |-> e.Message, PrevHash |-> prev]) = e.EntryHash
  BY <1>1 DEF ComputeHash
<1>3. e = [Sequence |-> e.Sequence, Message |-> e.Message, PrevHash |-> e.PrevHash,
           EntryHash |-> e.EntryHash]
  BY DEF IsRow
<1>4. e = EntryOf(i, e.Message, prev)
  BY <1>1, <1>2, <1>3 DEF EntryOf
<1> QED BY <1>4 DEF EntryIntact, Genuine

\* Verify is exact on tables made of rows.
LEMMA ExactOK == EntriesOK => VerifyExact
<1> SUFFICES ASSUME EntriesOK PROVE LogIntact(entries) <=> entries \in HonestLogs
  BY DEF VerifyExact
<1>1. PICK n \in 0 .. MaxEntries : entries = [i \in 1 .. n |-> entries[i]]
  BY DEF EntriesOK
<1>2. DOMAIN entries = 1 .. n /\ \A i \in 1 .. n : IsRow(entries[i])
  BY <1>1 DEF EntriesOK
<1>3. ASSUME LogIntact(entries) PROVE entries \in HonestLogs
  <2> DEFINE ms == [i \in 1 .. n |-> entries[i].Message]
  <2>1. ASSUME NEW i \in 1 .. n
        PROVE  /\ entries[i].Message \in Acceptable
               /\ entries[i] = EntryOf(i, entries[i].Message, PrevHashAt(entries, i))
    <3>1. EntryIntact(entries[i], i - 1, PrevHashAt(entries, i)) /\ IsRow(entries[i])
      BY <1>2, <1>3 DEF LogIntact
    <3>2. /\ Genuine(entries[i].Message)
          /\ entries[i] = EntryOf(i, entries[i].Message, PrevHashAt(entries, i))
      BY <3>1, IntactIsEntryOf
    <3> QED BY <3>1, <3>2, UnacceptableNot DEF IsRow, Known
  <2>2. ms \in [1 .. n -> Acceptable]
    BY <2>1
  <2>3. ChainOf(entries, ms, n)
    BY <1>1, <2>1 DEF ChainOf
  <2> HIDE DEF ms
  <2> QED BY <2>2, <2>3, HonestIs
<1>4. ASSUME entries \in HonestLogs PROVE LogIntact(entries)
  <2>0. PICK k \in 0 .. MaxEntries : \E ms \in [1 .. k -> Acceptable] : ChainOf(entries, ms, k)
    BY <1>4, HonestIs
  <2>1. PICK ms \in [1 .. k -> Acceptable] : ChainOf(entries, ms, k)
    BY <2>0
  <2>2. DOMAIN entries = 1 .. k
    BY <2>1 DEF ChainOf
  <2>3. ASSUME NEW i \in 1 .. k PROVE EntryIntact(entries[i], i - 1, PrevHashAt(entries, i))
    <3>1. entries[i] = EntryOf(i, ms[i], PrevHashAt(entries, i)) /\ Genuine(ms[i])
      BY <2>1, AcceptableGenuine DEF ChainOf
    <3> QED BY <3>1, EntryOfIntact
  <2> QED BY <2>2, <2>3 DEF LogIntact
<1> QED BY <1>3, <1>4

(***************************************************************************)
(* Verify accepts exactly the logs that Append can have written (log.go    *)
(* Verify; README.md: "Tamper-evident message history").                   *)
(***************************************************************************)
THEOREM VerifyExactHolds == Spec => []VerifyExact
BY ExactOK, EntriesOKHolds, PTL

(***************************************************************************)
(* For rows at their own positions, checking every message checks the log  *)
(* (log.go Verify, VerifyEntry).                                           *)
(***************************************************************************)
THEOREM EachEntryVerifiesHolds == Spec => []EachEntryVerifies
<1>1. EachEntryVerifies
  BY DEF EachEntryVerifies, LogIntact, EntryIntact, EntryVerifies, SelfIntact
<1> QED BY <1>1, PTL

-----------------------------------------------------------------------------
(***************************************************************************)
(* The hash of an entry determines it, and with it the hash before it.     *)
(***************************************************************************)
LEMMA HashDetermines ==
    ASSUME NEW i \in Nat, NEW m \in Acceptable, NEW prev,
           NEW j \in Nat, NEW l \in Acceptable, NEW before,
           EntryOf(i, m, prev).EntryHash = EntryOf(j, l, before).EntryHash
    PROVE  i = j /\ prev = before /\ m = l
<1>1. \A x, y, z : EntryOf(x, y, z).EntryHash =
                     <<x - 1, z, << SigningPayload(y), y.Signature >> >>
  BY DEF EntryOf, ComputeHash
<1>2. <<i - 1, prev, << SigningPayload(m), m.Signature >> >> =
      <<j - 1, before, << SigningPayload(l), l.Signature >> >>
  BY <1>1
<1>3. i - 1 = j - 1 /\ prev = before /\ SigningPayload(m) = SigningPayload(l)
  BY <1>2
<1>7. i = j
  BY <1>3
<1>4. m.MessageID = l.MessageID
  BY <1>3 DEF SigningPayload
<1>5. \A id : SignMessage(NewMessage("c1", id, "alice", 1, 2), "alice").MessageID = id
  BY DEF SignMessage, NewMessage
<1>6. m = l
  BY <1>4, <1>5 DEF Acceptable
<1> QED BY <1>3, <1>6, <1>7

\* Backwards from the tip: each entry determines the hash before it.
LEMMA TipDetermines ==
    ASSUME NEW n \in Nat \ {0}, NEW a, NEW ms \in [1 .. n -> Acceptable], ChainOf(a, ms, n),
           NEW k \in Nat \ {0}, NEW b, NEW ls \in [1 .. k -> Acceptable], ChainOf(b, ls, k),
           a[n].EntryHash = b[k].EntryHash
    PROVE  a = b
<1> DEFINE S == {j \in Nat : j < n => a[n - j].EntryHash = b[n - j].EntryHash}
<1>1. ASSUME NEW i \in 1 .. n, NEW j \in 1 .. k, a[i].EntryHash = b[j].EntryHash
      PROVE  i = j /\ PrevHashAt(a, i) = PrevHashAt(b, j) /\ ms[i] = ls[j] /\ a[i] = b[j]
  <2>1. /\ a[i] = EntryOf(i, ms[i], PrevHashAt(a, i))
        /\ b[j] = EntryOf(j, ls[j], PrevHashAt(b, j))
    BY DEF ChainOf
  <2> DEFINE m == ms[i]
             l == ls[j]
             prev == PrevHashAt(a, i)
             before == PrevHashAt(b, j)
  <2>2. m \in Acceptable /\ l \in Acceptable /\ i \in Nat /\ j \in Nat
    OBVIOUS
  <2>3. EntryOf(i, m, prev).EntryHash = EntryOf(j, l, before).EntryHash
    BY <1>1, <2>1
  <2>4. i = j /\ prev = before /\ m = l
    <3> HIDE DEF m, l, prev, before
    <3> QED BY <2>2, <2>3, HashDetermines
  <2> QED BY <2>1, <2>4
<1>2. n \in 1 .. n /\ k \in 1 .. k
  OBVIOUS
<1>3. n = k
  BY <1>1, <1>2
<1>4. 0 \in S
  BY <1>3
<1>5. ASSUME NEW j \in 0 .. n - 1, j \in S PROVE j + 1 \in S
  <2> SUFFICES ASSUME j + 1 < n
               PROVE  a[n - (j + 1)].EntryHash = b[n - (j + 1)].EntryHash
    OBVIOUS
  <2>1. n - j \in 1 .. n /\ n - j # 1 /\ (n - j) - 1 = n - (j + 1) /\ j < n
    OBVIOUS
  <2>2. a[n - j].EntryHash = b[n - j].EntryHash
    BY <1>5, <2>1
  <2>3. PrevHashAt(a, n - j) = PrevHashAt(b, n - j)
    BY <1>1, <1>3, <2>1, <2>2
  <2>4. /\ PrevHashAt(a, n - j) = a[n - (j + 1)].EntryHash
        /\ PrevHashAt(b, n - j) = b[n - (j + 1)].EntryHash
    BY <2>1 DEF PrevHashAt
  <2> QED BY <2>3, <2>4
<1>6. 0 .. n \subseteq S
  <2> HIDE DEF S
  <2> QED BY <1>4, <1>5, UpTo
<1>7. ASSUME NEW i \in 1 .. n PROVE a[i] = b[i]
  <2>1. n - i \in 0 .. n /\ n - i < n /\ n - (n - i) = i
    OBVIOUS
  <2>2. a[i].EntryHash = b[i].EntryHash
    BY <1>6, <2>1
  <2> QED BY <1>1, <1>3, <2>2
<1>8. a = [i \in 1 .. n |-> a[i]] /\ b = [i \in 1 .. n |-> b[i]]
  BY <1>3 DEF ChainOf
<1> QED BY <1>7, <1>8

(***************************************************************************)
(* The hash of the tip commits to the whole log: no other log with that    *)
(* tip passes Verify, so comparing current_hash compares histories         *)
(* (message.go ComputeHash; log.go Sync).                                  *)
(***************************************************************************)
THEOREM TipCommitsHolds == Spec => []TipCommits
<1>1. EntriesOK => TipCommits
  <2> SUFFICES ASSUME EntriesOK, entries # <<>>, LogIntact(entries),
                      NEW other \in HonestLogs, other # <<>>,
                      Last(other).EntryHash = Last(entries).EntryHash
               PROVE  other = entries
    BY DEF TipCommits
  <2>0. ASSUME NEW log \in HonestLogs, log # <<>>
        PROVE  \E n \in Nat \ {0} : \E ms \in [1 .. n -> Acceptable] :
                   ChainOf(log, ms, n) /\ Last(log) = log[n]
    <3>0. PICK n \in 0 .. MaxEntries : \E ms \in [1 .. n -> Acceptable] : ChainOf(log, ms, n)
      BY <2>0, HonestIs
    <3>1. PICK ms \in [1 .. n -> Acceptable] : ChainOf(log, ms, n)
      BY <3>0
    <3>2. n \in Nat
      BY <3>1, BoundAssumption
    <3>3. log = [i \in 1 .. n |-> log[i]]
      BY <3>1 DEF ChainOf
    <3>4. n # 0
      <4> SUFFICES ASSUME n = 0 PROVE FALSE
        OBVIOUS
      <4>1. 1 .. n = {}
        OBVIOUS
      <4>2. log = [i \in {} |-> log[i]]
        BY <3>3, <4>1
      <4> QED BY <2>0, <4>2
    <3>5. Len(log) = n
      BY <3>2, <3>3
    <3> QED BY <3>1, <3>2, <3>4, <3>5 DEF Last
  <2>1. entries \in HonestLogs
    BY ExactOK DEF VerifyExact
  <2>2. PICK n \in Nat \ {0} : \E ms \in [1 .. n -> Acceptable] :
               ChainOf(entries, ms, n) /\ Last(entries) = entries[n]
    BY <2>0, <2>1
  <2>3. PICK ms \in [1 .. n -> Acceptable] : ChainOf(entries, ms, n)
    BY <2>2
  <2>4. PICK k \in Nat \ {0} : \E ls \in [1 .. k -> Acceptable] :
               ChainOf(other, ls, k) /\ Last(other) = other[k]
    BY <2>0
  <2>5. PICK ls \in [1 .. k -> Acceptable] : ChainOf(other, ls, k)
    BY <2>4
  <2>6. entries[n].EntryHash = other[k].EntryHash
    BY <2>2, <2>4
  <2>7. entries = other
    BY <2>3, <2>5, <2>6, TipDetermines
  <2> QED BY <2>7
<1> QED BY <1>1, EntriesOKHolds, PTL
=============================================================================
