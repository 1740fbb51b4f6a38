------------------------------- MODULE Merkle -------------------------------
(***************************************************************************)
(* internal/merkle/tree.go: roots and inclusion proofs over the ordered    *)
(* entry hashes of a snapshot window.                                      *)
(*                                                                         *)
(* SHA-256 is modelled as a collision-free constructor: a hash is the      *)
(* tuple of the parts it was computed from.  Entry hashes are triples (see *)
(* SignedMessages), node hashes are pairs, the genesis hash is <<>> and    *)
(* the root of no leaves is <<"">>, so no two kinds are ever equal.        *)
(***************************************************************************)
EXTENDS Naturals, Sequences, SequencesExt

\* A copy-and-paste slip: the right operand is not hashed.
hashPairLeftTwice(left, right) == <<left, left>>

hashPair(left, right) == <<left, right>>

EmptyRoot == <<"">>

\* An odd layer duplicates its last node.
Pad(layer) == IF Len(layer) % 2 = 1 THEN Append(layer, Last(layer)) ELSE layer

NextLayer(layer) ==
    LET even == Pad(layer)
    IN  [i \in 1 .. Len(even) \div 2 |-> hashPair(even[2*i - 1], even[2*i])]

\* layers[k] is the layer after k rounds of the loop; n leaves need fewer than
\* n + 1 rounds.
Layers(leaves) ==
    LET layers[k \in 0 .. Len(leaves)] ==
            IF k = 0 THEN leaves ELSE NextLayer(layers[k - 1])
    IN  layers

\* A loop that stops one round early, at two nodes.
HeightStopsEarly(leaves) ==
    CHOOSE h \in 0 .. Len(leaves) :
        /\ Len(Layers(leaves)[h]) <= 2
        /\ \A k \in 0 .. h - 1 : Len(Layers(leaves)[k]) > 2

\* The number of rounds the loop `for len(layer) > 1` makes.
Height(leaves) ==
    CHOOSE h \in 0 .. Len(leaves) :
        /\ Len(Layers(leaves)[h]) = 1
        /\ \A k \in 0 .. h - 1 : Len(Layers(leaves)[k]) > 1

Root(leaves) ==
    IF leaves = <<>> THEN EmptyRoot ELSE Layers(leaves)[Height(leaves)][1]

\* A proof step that takes its sibling from the unpadded layer, so the last
\* node of an odd layer is paired with its left neighbour.
ProofNodeUnpadded(layer, idx) ==
    IF idx % 2 = 0 /\ idx + 1 < Len(layer)
    THEN [Hash |-> layer[idx + 2], IsLeft |-> FALSE]
    ELSE [Hash |-> layer[IF idx = 0 THEN 1 ELSE idx], IsLeft |-> TRUE]

\* One step of an inclusion proof: the sibling of (0-based) node idx.
ProofNode(layer, idx) ==
    IF idx % 2 = 0
    THEN [Hash |-> Pad(layer)[idx + 2], IsLeft |-> FALSE]
    ELSE [Hash |-> Pad(layer)[idx],     IsLeft |-> TRUE]

\* idx after k rounds, which halve it.
Halves(index, rounds) ==
    LET idx[k \in 0 .. rounds] == IF k = 0 THEN index ELSE idx[k - 1] \div 2
    IN  idx

\* Proof and root for the leaf at the 0-based index; the empty proof and root
\* when the index is out of range.
Proof(leaves, index) ==
    IF index \notin 0 .. Len(leaves) - 1
    THEN [Path |-> <<>>, Root |-> EmptyRoot]
    ELSE LET rounds == Height(leaves)
         IN  [Path |-> [k \in 1 .. rounds |->
                            ProofNode(Layers(leaves)[k - 1], Halves(index, rounds)[k - 1])],
              Root |-> Root(leaves)]

\* The hash that the first nodes of a path make of a leaf.
RunningHash(leaf, path) ==
    LET running[k \in 0 .. Len(path)] ==
            IF k = 0 THEN leaf
            ELSE IF path[k].IsLeft THEN hashPair(path[k].Hash, running[k - 1])
                                   ELSE hashPair(running[k - 1], path[k].Hash)
    IN  running

VerifyProof(leaf, path, root) == root = RunningHash(leaf, path)[Len(path)]
=============================================================================
