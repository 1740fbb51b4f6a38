---------------------------- MODULE MerkleProofs ----------------------------
(***************************************************************************)
(* What the Merkle operators compute, for every sequence of leaves.        *)
(*                                                                         *)
(* The recursive functions of Merkle are defined by CHOOSE; that they      *)
(* exist, and what they compute, is shown by induction over a set of       *)
(* natural numbers, which rests on the least element of such a set.        *)
(***************************************************************************)
EXTENDS Merkle, Integers, WellFoundedInduction, SequenceTheorems, TLAPS

\* Every nonempty set of natural numbers has a least element.
LEMMA LeastNat ==
    ASSUME NEW T, T \subseteq Nat, T # {}
    PROVE  \E x \in T : \A y \in T : x <= y
<1>1. IsWellFoundedOn(OpToRel(<, Nat), Nat)
  BY NatLessThanWellFounded
<1>2. PICK x \in T : \A y \in T : ~ (<<y, x>> \in OpToRel(<, Nat))
  BY <1>1, WFMin
<1>3. \A y \in T : ~ (y < x)
  BY <1>2 DEF OpToRel
<1> QED BY <1>3

\* Induction: a set with 0 that is closed under successor, up to a bound.
LEMMA UpTo ==
    ASSUME NEW n \in Nat, NEW S, 0 \in S, \A k \in 0 .. n - 1 : k \in S => k + 1 \in S
    PROVE  0 .. n \subseteq S
<1> SUFFICES ASSUME (0 .. n) \ S # {} PROVE FALSE
  OBVIOUS
<1>1. PICK x \in (0 .. n) \ S : \A y \in (0 .. n) \ S : x <= y
  <2>1. (0 .. n) \ S \subseteq Nat
    OBVIOUS
  <2> QED BY <2>1, LeastNat
<1>2. x # 0 /\ x - 1 \in 0 .. n - 1 /\ x - 1 \in 0 .. n /\ ~ (x <= x - 1) /\ (x - 1) + 1 = x
  BY <1>1
<1>3. x - 1 \in S
  BY <1>1, <1>2
<1> QED BY <1>1, <1>2, <1>3

-----------------------------------------------------------------------------
\* The loop that computes Layers does what its recursive definition says.
LayersAre(f, leaves, n) ==
    f = [k \in 0 .. n |-> IF k = 0 THEN leaves ELSE NextLayer(f[k - 1])]

\* Such a function exists for every number of rounds,
LEMMA LayersExist ==
    ASSUME NEW leaves, NEW n \in Nat
    PROVE  \E f : LayersAre(f, leaves, n)
<1> DEFINE S == {m \in Nat : \E f : LayersAre(f, leaves, m)}
<1>1. 0 \in S
  <2> DEFINE f == [k \in 0 .. 0 |-> leaves]
  <2>1. f = [k \in 0 .. 0 |-> IF k = 0 THEN leaves ELSE NextLayer(f[k - 1])]
    OBVIOUS
  <2> HIDE DEF f
  <2> QED BY <2>1 DEF LayersAre
<1>2. ASSUME NEW m \in 0 .. n - 1, m \in S PROVE m + 1 \in S
  <2>1. PICK g : LayersAre(g, leaves, m)
    BY <1>2
  <2>2. m \in Nat
    OBVIOUS
  <2> DEFINE f == [k \in 0 .. m + 1 |-> IF k = 0 THEN leaves ELSE NextLayer(g[k - 1])]
  <2>3. ASSUME NEW k \in 0 .. m + 1 PROVE f[k] = IF k = 0 THEN leaves ELSE NextLayer(f[k - 1])
    <3>1. CASE k = 0
      BY <3>1
    <3>2. CASE k # 0
      <4>1. k - 1 \in 0 .. m /\ k - 1 \in 0 .. m + 1
        BY <3>2, <2>2
      <4>2. g[k - 1] = IF k - 1 = 0 THEN leaves ELSE NextLayer(g[k - 1 - 1])
        BY <2>1, <4>1 DEF LayersAre
      <4>3. f[k - 1] = g[k - 1]
        BY <4>1, <4>2
      <4> QED BY <3>2, <4>3
    <3> QED BY <3>1, <3>2
  <2>4. f = [k \in 0 .. m + 1 |-> f[k]]
    OBVIOUS
  <2> HIDE DEF f
  <2>5. f = [k \in 0 .. m + 1 |-> IF k = 0 THEN leaves ELSE NextLayer(f[k - 1])]
    BY <2>3, <2>4
  <2>6. m + 1 \in Nat
    BY <2>2
  <2> QED BY <2>5, <2>6 DEF LayersAre
<1>3. 0 .. n \subseteq S
  <2> HIDE DEF S
  <2> QED BY <1>1, <1>2, UpTo
<1> QED BY <1>3

\* so Layers is one.
LEMMA LayersDef ==
    ASSUME NEW leaves, Len(leaves) \in Nat
    PROVE  LayersAre(Layers(leaves), leaves, Len(leaves))
<1> DEFINE n == Len(leaves)
           f == CHOOSE g : g = [k \in 0 .. n |-> IF k = 0 THEN leaves ELSE NextLayer(g[k - 1])]
<1>1. \E g : g = [k \in 0 .. n |-> IF k = 0 THEN leaves ELSE NextLayer(g[k - 1])]
  BY LayersExist DEF LayersAre
<1>2. f = [k \in 0 .. n |-> IF k = 0 THEN leaves ELSE NextLayer(f[k - 1])]
  BY <1>1
<1>3. Layers(leaves) = f
  BY DEF Layers
<1> HIDE DEF f
<1> QED BY <1>2, <1>3 DEF LayersAre

-----------------------------------------------------------------------------
(***************************************************************************)
(* One round: an odd layer is padded, then halved.                         *)
(***************************************************************************)
IsLayer(layer) == (\E T : layer \in Seq(T)) /\ Len(layer) > 0

\* The length of the next layer.
Half(n) == (n + 1) \div 2

\* An odd layer gains a copy of its last node, an even one stays.
LEMMA PadIs ==
    ASSUME NEW layer, IsLayer(layer)
    PROVE  /\ Len(layer) \in Nat \ {0}
           /\ Len(Pad(layer)) = 2 * Half(Len(layer))
           /\ \A i \in 1 .. Len(layer) : Pad(layer)[i] = layer[i]
           /\ Len(layer) % 2 = 1 => Pad(layer)[Len(layer) + 1] = layer[Len(layer)]
<1>1. PICK T : layer \in Seq(T)
  BY DEF IsLayer
<1>2. Len(layer) \in Nat \ {0}
  BY <1>1 DEF IsLayer
<1> DEFINE n == Len(layer)
           e == layer[n]
<1>3. Last(layer) = e
  BY DEF Last
<1>4. e \in T
  BY <1>1, <1>2
<1>5. CASE n % 2 = 1
  <2>1. Pad(layer) = Append(layer, e)
    BY <1>3, <1>5 DEF Pad
  <2>2. /\ Len(Append(layer, e)) = n + 1
        /\ \A i \in 1 .. n : Append(layer, e)[i] = layer[i]
        /\ Append(layer, e)[n + 1] = e
    BY <1>1, <1>2, <1>4, AppendProperties
  <2>3. n + 1 = 2 * Half(n)
    BY <1>2, <1>5 DEF Half
  <2> QED BY <1>2, <2>1, <2>2, <2>3
<1>6. CASE n % 2 # 1
  <2>1. Pad(layer) = layer
    BY <1>6 DEF Pad
  <2>2. n = 2 * Half(n)
    BY <1>2, <1>6 DEF Half
  <2> QED BY <1>2, <1>6, <2>1, <2>2
<1> QED BY <1>5, <1>6

\* The next layer is half as long and made of the pairs.
LEMMA NextLayerIs ==
    ASSUME NEW layer, IsLayer(layer)
    PROVE  /\ IsLayer(NextLayer(layer))
           /\ Len(NextLayer(layer)) = Half(Len(layer))
           /\ \A i \in 1 .. Half(Len(layer)) :
                  NextLayer(layer)[i] = <<Pad(layer)[2*i - 1], Pad(layer)[2*i]>>
<1> DEFINE even == Pad(layer)
           h == Half(Len(layer))
           N == NextLayer(layer)
           Node(i) == <<even[2*i - 1], even[2*i]>>
<1>1. Len(layer) \in Nat \ {0} /\ Len(even) = 2 * h
  BY PadIs
<1>2. h \in Nat \ {0}
  BY <1>1 DEF Half
<1>3. Len(even) \div 2 = h
  <2> HIDE DEF even, h
  <2> QED BY <1>1, <1>2
<1>4. N = [i \in 1 .. Len(even) \div 2 |-> Node(i)]
  BY DEF NextLayer, hashPair
<1> HIDE DEF even, h, N
<1>5. N = [i \in 1 .. h |-> Node(i)]
  BY <1>3, <1>4
<1> HIDE DEF Node
<1> DEFINE U == {Node(i) : i \in 1 .. h}
<1>6. N \in [1 .. h -> U]
  BY <1>5
<1> HIDE DEF U
<1>7. N \in Seq(U)
  BY <1>2, <1>6
<1>8. Len(N) = h
  BY <1>2, <1>5
<1>9. \A i \in 1 .. h : N[i] = Node(i)
  BY <1>5
<1>10. \E V : N \in Seq(V)
  BY <1>7
<1>11. IsLayer(N)
  BY <1>2, <1>8, <1>10 DEF IsLayer
<1> QED BY <1>8, <1>9, <1>11 DEF Node, N, h, even

-----------------------------------------------------------------------------
(***************************************************************************)
(* The rounds: every layer is one, and each is about half of the one       *)
(* before, so one of them is a single node.                                *)
(***************************************************************************)
LEMMA LayersStep ==
    ASSUME NEW leaves, IsLayer(leaves)
    PROVE  /\ Len(leaves) \in Nat \ {0}
           /\ Layers(leaves)[0] = leaves
           /\ \A k \in 0 .. Len(leaves) - 1 :
                  Layers(leaves)[k + 1] = NextLayer(Layers(leaves)[k])
<1> DEFINE n == Len(leaves)
           L == Layers(leaves)
<1>1. n \in Nat \ {0}
  BY PadIs
<1>2. L = [k \in 0 .. n |-> IF k = 0 THEN leaves ELSE NextLayer(L[k - 1])]
  BY <1>1, LayersDef DEF LayersAre
<1> HIDE DEF n, L
<1>3. L[0] = leaves
  BY <1>1, <1>2
<1>4. ASSUME NEW k \in 0 .. n - 1 PROVE L[k + 1] = NextLayer(L[k])
  <2>1. k + 1 \in 0 .. n /\ k + 1 # 0 /\ (k + 1) - 1 = k
    BY <1>1
  <2>2. L[k + 1] = IF k + 1 = 0 THEN leaves ELSE NextLayer(L[(k + 1) - 1])
    BY <1>2, <2>1
  <2> QED BY <2>1, <2>2
<1> QED BY <1>1, <1>3, <1>4 DEF n, L

\* Layers shrink until one node is left.
LEMMA LayersShrink ==
    ASSUME NEW leaves, IsLayer(leaves)
    PROVE  \A k \in 0 .. Len(leaves) :
               /\ IsLayer(Layers(leaves)[k])
               /\ Len(Layers(leaves)[k]) = 1 \/ Len(Layers(leaves)[k]) <= Len(leaves) - k
<1> DEFINE n == Len(leaves)
           L == Layers(leaves)
           S == {k \in Nat : IsLayer(L[k]) /\ (Len(L[k]) = 1 \/ Len(L[k]) <= n - k)}
<1>1. /\ n \in Nat \ {0} /\ L[0] = leaves
      /\ \A k \in 0 .. n - 1 : L[k + 1] = NextLayer(L[k])
  BY LayersStep
<1> HIDE DEF n, L
<1>2. 0 \in S
  BY <1>1 DEF n
<1>3. ASSUME NEW k \in 0 .. n - 1, k \in S PROVE k + 1 \in S
  <2>1. L[k + 1] = NextLayer(L[k]) /\ IsLayer(L[k]) /\ k \in Nat /\ k + 1 \in Nat
    BY <1>1, <1>3
  <2>2. IsLayer(L[k + 1]) /\ Len(L[k + 1]) = Half(Len(L[k])) /\ Len(L[k]) \in Nat \ {0}
    BY <2>1, NextLayerIs, PadIs
  <2>3. \A a \in Nat \ {0} : /\ Half(a) \in Nat
                            /\ (a = 1 => Half(a) = 1) /\ (a # 1 => Half(a) <= a - 1)
    BY DEF Half
  <2>4. Len(L[k]) = 1 \/ Len(L[k]) <= n - k
    BY <1>3
  <2>5. Len(L[k + 1]) = 1 \/ Len(L[k + 1]) <= n - (k + 1)
    <3> DEFINE a == Len(L[k])
               b == Len(L[k + 1])
    <3>1. a \in Nat \ {0} /\ b = Half(a) /\ (a = 1 \/ a <= n - k)
      BY <2>2, <2>4
    <3> HIDE DEF a, b
    <3>2. b = 1 \/ b <= n - (k + 1)
      BY <1>1, <2>1, <2>3, <3>1
    <3> QED BY <3>2 DEF b
  <2> QED BY <2>1, <2>2, <2>5
<1>4. 0 .. n \subseteq S
  <2> HIDE DEF S
  <2> QED BY <1>1, <1>2, <1>3, UpTo
<1> QED BY <1>4 DEF n, L

(***************************************************************************)
(* The loop `for len(layer) > 1` ends, after Height rounds, at one node.   *)
(***************************************************************************)
LEMMA HeightIs ==
    ASSUME NEW leaves, IsLayer(leaves)
    PROVE  /\ Height(leaves) \in 0 .. Len(leaves)
           /\ Len(Layers(leaves)[Height(leaves)]) = 1
           /\ \A k \in 0 .. Height(leaves) - 1 : Len(Layers(leaves)[k]) > 1
<1> DEFINE n == Len(leaves)
           L == Layers(leaves)
           T == {k \in 0 .. n : Len(L[k]) = 1}
<1>0. n \in Nat \ {0}
  BY PadIs
<1>1. \A k \in 0 .. n : IsLayer(L[k]) /\ (Len(L[k]) = 1 \/ Len(L[k]) <= n - k)
  BY LayersShrink
<1>2. \A k \in 0 .. n : Len(L[k]) \in Nat \ {0}
  BY <1>1, PadIs
<1> HIDE DEF n, L
<1>3. n \in T
  <2>1. n \in 0 .. n /\ n - n = 0
    BY <1>0
  <2> QED BY <1>1, <1>2, <2>1
<1>4. T \subseteq Nat
  OBVIOUS
<1> HIDE DEF T
<1>5. PICK h \in T : \A k \in T : h <= k
  BY <1>3, <1>4, LeastNat
<1>6. /\ h \in 0 .. n /\ Len(L[h]) = 1
      /\ \A k \in 0 .. h - 1 : Len(L[k]) > 1
  <2>1. h \in 0 .. n /\ Len(L[h]) = 1
    BY <1>5 DEF T
  <2>2. ASSUME NEW k \in 0 .. h - 1 PROVE Len(L[k]) > 1
    <3>1. k \in 0 .. n /\ ~ (h <= k)
      BY <1>0, <2>1
    <3>2. k \notin T
      BY <1>5, <3>1
    <3>3. Len(L[k]) # 1 /\ Len(L[k]) \in Nat \ {0}
      BY <1>2, <3>1, <3>2 DEF T
    <3>4. \A x \in Nat \ {0} : x # 1 => x > 1
      OBVIOUS
    <3> QED BY <3>3, <3>4
  <2> QED BY <2>1, <2>2
<1>7. \E g \in 0 .. n : Len(L[g]) = 1 /\ \A k \in 0 .. g - 1 : Len(L[k]) > 1
  BY <1>6
<1> DEFINE g == CHOOSE x \in 0 .. n : Len(L[x]) = 1 /\ \A k \in 0 .. x - 1 : Len(L[k]) > 1
<1>8. g \in 0 .. n /\ Len(L[g]) = 1 /\ \A k \in 0 .. g - 1 : Len(L[k]) > 1
  BY <1>7
<1>9. Height(leaves) = g
  BY DEF Height, n, L
<1> HIDE DEF g
<1> QED BY <1>8, <1>9 DEF n, L

-----------------------------------------------------------------------------
(***************************************************************************)
(* The other two loops: idx is halved, and the running hash is hashed with *)
(* one sibling after the other.                                            *)
(***************************************************************************)
HalvesAre(f, index, n) ==
    f = [k \in 0 .. n |-> IF k = 0 THEN index ELSE f[k - 1] \div 2]

\* Such a function exists for every number of rounds,
LEMMA HalvesExist ==
    ASSUME NEW index, NEW n \in Nat
    PROVE  \E f : HalvesAre(f, index, n)
<1> DEFINE S == {m \in Nat : \E f : HalvesAre(f, index, m)}
<1>1. 0 \in S
  <2> DEFINE f == [k \in 0 .. 0 |-> index]
  <2>1. f = [k \in 0 .. 0 |-> IF k = 0 THEN index ELSE f[k - 1] \div 2]
    OBVIOUS
  <2> HIDE DEF f
  <2> QED BY <2>1 DEF HalvesAre
<1>2. ASSUME NEW m \in 0 .. n - 1, m \in S PROVE m + 1 \in S
  <2>1. PICK g : HalvesAre(g, index, m)
    BY <1>2
  <2>2. m \in Nat
    OBVIOUS
  <2> DEFINE f == [k \in 0 .. m + 1 |-> IF k = 0 THEN index ELSE g[k - 1] \div 2]
  <2>3. ASSUME NEW k \in 0 .. m + 1 PROVE f[k] = IF k = 0 THEN index ELSE f[k - 1] \div 2
    <3>1. CASE k = 0
      BY <3>1
    <3>2. CASE k # 0
      <4>1. k - 1 \in 0 .. m /\ k - 1 \in 0 .. m + 1
        BY <3>2, <2>2
      <4>2. g[k - 1] = IF k - 1 = 0 THEN index ELSE g[k - 1 - 1] \div 2
        BY <2>1, <4>1 DEF HalvesAre
      <4>3. f[k - 1] = g[k - 1]
        BY <4>1, <4>2
      <4> QED BY <3>2, <4>3
    <3> QED BY <3>1, <3>2
  <2>4. f = [k \in 0 .. m + 1 |-> f[k]]
    OBVIOUS
  <2> HIDE DEF f
  <2>5. f = [k \in 0 .. m + 1 |-> IF k = 0 THEN index ELSE f[k - 1] \div 2]
    BY <2>3, <2>4
  <2>6. m + 1 \in Nat
    BY <2>2
  <2> QED BY <2>5, <2>6 DEF HalvesAre
<1>3. 0 .. n \subseteq S
  <2> HIDE DEF S
  <2> QED BY <1>1, <1>2, UpTo
<1> QED BY <1>3

\* so Halves is one.
LEMMA HalvesDef ==
    ASSUME NEW index, NEW rounds, rounds \in Nat
    PROVE  /\ Halves(index, rounds)[0] = index
           /\ \A k \in 1 .. rounds : Halves(index, rounds)[k] = Halves(index, rounds)[k - 1] \div 2
<1> DEFINE n == rounds
           f == CHOOSE g : g = [k \in 0 .. n |-> IF k = 0 THEN index ELSE g[k - 1] \div 2]
<1>1. \E g : g = [k \in 0 .. n |-> IF k = 0 THEN index ELSE g[k - 1] \div 2]
  BY HalvesExist DEF HalvesAre
<1>2. f = [k \in 0 .. n |-> IF k = 0 THEN index ELSE f[k - 1] \div 2]
  BY <1>1
<1>3. Halves(index, rounds) = f
  BY DEF Halves
<1> HIDE DEF f, n
<1>4. f[0] = index
  BY <1>2 DEF n
<1>5. ASSUME NEW k \in 1 .. n PROVE f[k] = f[k - 1] \div 2
  <2>1. k \in 0 .. n /\ k # 0
    BY DEF n
  <2> QED BY <1>2, <2>1
<1> QED BY <1>3, <1>4, <1>5 DEF n

HashWith(node, running) ==
    IF node.IsLeft THEN hashPair(node.Hash, running) ELSE hashPair(running, node.Hash)

RunningAre(f, leaf, path, n) ==
    f = [k \in 0 .. n |-> IF k = 0 THEN leaf ELSE HashWith(path[k], f[k - 1])]

\* Such a function exists for every length of a path,
LEMMA RunningExist ==
    ASSUME NEW leaf, NEW path, NEW n \in Nat
    PROVE  \E f : RunningAre(f, leaf, path, n)
<1> DEFINE S == {m \in Nat : \E f : RunningAre(f, leaf, path, m)}
<1>1. 0 \in S
  <2> DEFINE f == [k \in 0 .. 0 |-> leaf]
  <2>1. f = [k \in 0 .. 0 |-> IF k = 0 THEN leaf ELSE HashWith(path[k], f[k - 1])]
    OBVIOUS
  <2> HIDE DEF f
  <2> QED BY <2>1 DEF RunningAre
<1>2. ASSUME NEW m \in 0 .. n - 1, m \in S PROVE m + 1 \in S
  <2>1. PICK g : RunningAre(g, leaf, path, m)
    BY <1>2
  <2>2. m \in Nat
    OBVIOUS
  <2> DEFINE f == [k \in 0 .. m + 1 |-> IF k = 0 THEN leaf ELSE HashWith(path[k], g[k - 1])]
  <2>3. ASSUME NEW k \in 0 .. m + 1 PROVE f[k] = IF k = 0 THEN leaf ELSE HashWith(path[k], f[k - 1])
    <3>1. CASE k = 0
      BY <3>1
    <3>2. CASE k # 0
      <4>1. k - 1 \in 0 .. m /\ k - 1 \in 0 .. m + 1
        BY <3>2, <2>2
      <4>2. g[k - 1] = IF k - 1 = 0 THEN leaf ELSE HashWith(path[k - 1], g[k - 1 - 1])
        BY <2>1, <4>1 DEF RunningAre
      <4>3. f[k - 1] = g[k - 1]
        BY <4>1, <4>2
      <4> QED BY <3>2, <4>3
    <3> QED BY <3>1, <3>2
  <2>4. f = [k \in 0 .. m + 1 |-> f[k]]
    OBVIOUS
  <2> HIDE DEF f
  <2>5. f = [k \in 0 .. m + 1 |-> IF k = 0 THEN leaf ELSE HashWith(path[k], f[k - 1])]
    BY <2>3, <2>4
  <2>6. m + 1 \in Nat
    BY <2>2
  <2> QED BY <2>5, <2>6 DEF RunningAre
<1>3. 0 .. n \subseteq S
  <2> HIDE DEF S
  <2> QED BY <1>1, <1>2, UpTo
<1> QED BY <1>3

\* so RunningHash is one.
LEMMA RunningDef ==
    ASSUME NEW leaf, NEW path, Len(path) \in Nat
    PROVE  /\ RunningHash(leaf, path)[0] = leaf
           /\ \A k \in 1 .. Len(path) : RunningHash(leaf, path)[k] = HashWith(path[k], RunningHash(leaf, path)[k - 1])
<1> DEFINE n == Len(path)
           f == CHOOSE g : g = [k \in 0 .. n |-> IF k = 0 THEN leaf ELSE HashWith(path[k], g[k - 1])]
<1>1. \E g : g = [k \in 0 .. n |-> IF k = 0 THEN leaf ELSE HashWith(path[k], g[k - 1])]
  <2>1. n \in Nat
    OBVIOUS
  <2> HIDE DEF n
  <2>2. \E g : RunningAre(g, leaf, path, n)
    BY <2>1, RunningExist
  <2> QED BY <2>2 DEF RunningAre
<1>2. f = [k \in 0 .. n |-> IF k = 0 THEN leaf ELSE HashWith(path[k], f[k - 1])]
  BY <1>1
<1>3. RunningHash(leaf, path) = f
  BY DEF RunningHash, HashWith
<1> HIDE DEF f, n
<1>4. f[0] = leaf
  BY <1>2 DEF n
<1>5. ASSUME NEW k \in 1 .. n PROVE f[k] = HashWith(path[k], f[k - 1])
  <2>1. k \in 0 .. n /\ k # 0
    BY DEF n
  <2> QED BY <1>2, <2>1
<1> QED BY <1>3, <1>4, <1>5 DEF n

-----------------------------------------------------------------------------
(***************************************************************************)
(* One step of a proof: hashed with its sibling, a node gives the node of  *)
(* the next layer at half its index.                                       *)
(***************************************************************************)
LEMMA SiblingLeads ==
    ASSUME NEW layer, IsLayer(layer), NEW j \in 0 .. Len(layer) - 1
    PROVE  /\ HashWith(ProofNode(layer, j), layer[j + 1]) = NextLayer(layer)[j \div 2 + 1]
           /\ j \div 2 \in 0 .. Len(NextLayer(layer)) - 1
<1> DEFINE n == Len(layer)
           even == Pad(layer)
           i == j \div 2 + 1
<1>1. /\ n \in Nat \ {0} /\ \A x \in 1 .. n : even[x] = layer[x]
      /\ Len(NextLayer(layer)) = Half(n)
      /\ \A x \in 1 .. Half(n) : NextLayer(layer)[x] = <<even[2*x - 1], even[2*x]>>
  BY PadIs, NextLayerIs
<1>2. j \in 0 .. n - 1
  OBVIOUS
<1> HIDE DEF n
<1>3. i \in 1 .. Half(n) /\ j \div 2 \in 0 .. Half(n) - 1 /\ j + 1 \in 1 .. n
  BY <1>1, <1>2 DEF Half
<1>4. NextLayer(layer)[i] = <<even[2*i - 1], even[2*i]>> /\ even[j + 1] = layer[j + 1]
  BY <1>1, <1>3
<1>5. CASE j % 2 = 0
  <2>1. 2*i - 1 = j + 1 /\ 2*i = j + 2
    BY <1>1, <1>2, <1>5
  <2> HIDE DEF even, i
  <2> DEFINE node == [Hash |-> even[j + 2], IsLeft |-> FALSE]
  <2>2. ProofNode(layer, j) = node
    BY <1>5 DEF ProofNode, even
  <2>3. node.IsLeft = FALSE /\ node.Hash = even[j + 2]
    OBVIOUS
  <2> HIDE DEF node
  <2>4. HashWith(node, layer[j + 1]) = <<layer[j + 1], even[j + 2]>>
    BY <2>3 DEF HashWith, hashPair
  <2>5. NextLayer(layer)[i] = <<layer[j + 1], even[j + 2]>>
    BY <1>4, <2>1
  <2> QED BY <1>1, <1>3, <2>2, <2>4, <2>5 DEF i
<1>6. CASE j % 2 # 0
  <2>1. 2*i - 1 = j /\ 2*i = j + 1
    BY <1>1, <1>2, <1>6
  <2> HIDE DEF even, i
  <2> DEFINE node == [Hash |-> even[j], IsLeft |-> TRUE]
  <2>2. ProofNode(layer, j) = node
    BY <1>6 DEF ProofNode, even
  <2>3. node.IsLeft = TRUE /\ node.Hash = even[j]
    OBVIOUS
  <2> HIDE DEF node
  <2>4. HashWith(node, layer[j + 1]) = <<even[j], layer[j + 1]>>
    BY <2>3 DEF HashWith, hashPair
  <2>5. NextLayer(layer)[i] = <<even[j], layer[j + 1]>>
    BY <1>4, <2>1
  <2> QED BY <1>1, <1>3, <2>2, <2>4, <2>5 DEF i
<1> QED BY <1>5, <1>6

\* A proof has one node per round: the sibling in that round's layer.
LEMMA ProofIs ==
    ASSUME NEW leaves, IsLayer(leaves), NEW index \in 0 .. Len(leaves) - 1
    PROVE  LET h    == Height(leaves)
               path == Proof(leaves, index).Path
           IN  /\ Proof(leaves, index).Root = Root(leaves)
               /\ h \in Nat /\ Len(path) = h
               /\ \A k \in 1 .. h :
                     path[k] = ProofNode(Layers(leaves)[k - 1], Halves(index, h)[k - 1])
<1> DEFINE h == Height(leaves)
           p == [k \in 1 .. h |-> ProofNode(Layers(leaves)[k - 1], Halves(index, h)[k - 1])]
<1>1. h \in Nat
  BY HeightIs, PadIs
<1>2. Proof(leaves, index) = [Path |-> p, Root |-> Root(leaves)]
  BY DEF Proof
<1> HIDE DEF h
<1>3. Len(p) = h /\ \A k \in 1 .. h :
                        p[k] = ProofNode(Layers(leaves)[k - 1], Halves(index, h)[k - 1])
  BY <1>1
<1> HIDE DEF p
<1>4. Proof(leaves, index).Path = p /\ Proof(leaves, index).Root = Root(leaves)
  BY <1>2
<1> QED BY <1>1, <1>3, <1>4 DEF h

(***************************************************************************)
(* The running hash of a leaf with its own path climbs from layer to layer *)
(* along the indexes of its ancestors.                                     *)
(***************************************************************************)
LEMMA PathClimbs ==
    ASSUME NEW leaves, IsLayer(leaves), NEW index \in 0 .. Len(leaves) - 1
    PROVE  LET h    == Height(leaves)
               path == Proof(leaves, index).Path
           IN  \A k \in 0 .. h :
                   /\ Halves(index, h)[k] \in 0 .. Len(Layers(leaves)[k]) - 1
                   /\ RunningHash(leaves[index + 1], path)[k]
                        = Layers(leaves)[k][Halves(index, h)[k] + 1]
<1> DEFINE n == Len(leaves)
           L == Layers(leaves)
           h == Height(leaves)
           path == Proof(leaves, index).Path
           idx == Halves(index, h)
           run == RunningHash(leaves[index + 1], path)
           S == {k \in Nat : idx[k] \in 0 .. Len(L[k]) - 1 /\ run[k] = L[k][idx[k] + 1]}
<1>1. /\ n \in Nat \ {0} /\ L[0] = leaves /\ h \in 0 .. n
      /\ \A k \in 0 .. n - 1 : L[k + 1] = NextLayer(L[k])
      /\ \A k \in 0 .. n : IsLayer(L[k])
  BY LayersStep, HeightIs, LayersShrink
<1>2. /\ h \in Nat /\ Len(path) = h
      /\ \A k \in 1 .. h : path[k] = ProofNode(L[k - 1], idx[k - 1])
  BY ProofIs
<1>3. idx[0] = index /\ \A k \in 1 .. h : idx[k] = idx[k - 1] \div 2
  <2> HIDE DEF h
  <2> QED BY <1>2, HalvesDef
<1>4. run[0] = leaves[index + 1] /\ \A k \in 1 .. h : run[k] = HashWith(path[k], run[k - 1])
  <2>1. Len(path) \in Nat
    BY <1>2
  <2> HIDE DEF path, h
  <2>2. run[0] = leaves[index + 1]
        /\ \A k \in 1 .. Len(path) : run[k] = HashWith(path[k], run[k - 1])
    BY <2>1, RunningDef
  <2> QED BY <1>2, <2>2
<1>5. index \in 0 .. n - 1
  OBVIOUS
<1> HIDE DEF n, L, h, path, idx, run
<1>6. 0 \in S
  BY <1>1, <1>3, <1>4, <1>5 DEF n
<1>7. ASSUME NEW k \in 0 .. h - 1, k \in S PROVE k + 1 \in S
  <2>1. /\ k \in 0 .. n - 1 /\ k \in 0 .. n /\ k \in Nat
        /\ k + 1 \in 1 .. h /\ (k + 1) - 1 = k /\ k + 1 \in Nat
    BY <1>1
  <2>2. /\ L[k + 1] = NextLayer(L[k]) /\ IsLayer(L[k])
        /\ path[k + 1] = ProofNode(L[k], idx[k])
        /\ idx[k + 1] = idx[k] \div 2
        /\ run[k + 1] = HashWith(path[k + 1], run[k])
    BY <1>1, <1>2, <1>3, <1>4, <2>1
  <2>3. idx[k] \in 0 .. Len(L[k]) - 1 /\ run[k] = L[k][idx[k] + 1]
    BY <1>7
  <2>4. /\ HashWith(ProofNode(L[k], idx[k]), L[k][idx[k] + 1]) = NextLayer(L[k])[idx[k] \div 2 + 1]
        /\ idx[k] \div 2 \in 0 .. Len(NextLayer(L[k])) - 1
    BY <2>2, <2>3, SiblingLeads
  <2>5. idx[k + 1] \in 0 .. Len(L[k + 1]) - 1
    BY <2>2, <2>4
  <2>6. run[k + 1] = L[k + 1][idx[k + 1] + 1]
    BY <2>2, <2>3, <2>4
  <2> QED BY <2>1, <2>5, <2>6
<1>8. 0 .. h \subseteq S
  <2> HIDE DEF S
  <2> QED BY <1>2, <1>6, <1>7, UpTo
<1> QED BY <1>8 DEF L, h, path, idx, run

(***************************************************************************)
(* Every proof that Proof returns verifies against the root, at every      *)
(* index of every nonempty window (tree.go Proof, VerifyProof).            *)
(***************************************************************************)
THEOREM ProofVerifies ==
    ASSUME NEW leaves, IsLayer(leaves), NEW index \in 0 .. Len(leaves) - 1
    PROVE  VerifyProof(leaves[index + 1], Proof(leaves, index).Path, Root(leaves))
<1> DEFINE h == Height(leaves)
           L == Layers(leaves)
           path == Proof(leaves, index).Path
           run == RunningHash(leaves[index + 1], path)
           i == Halves(index, h)[h]
<1>1. h \in Nat /\ Len(path) = h
  BY ProofIs
<1>2. Len(L[h]) = 1
  BY HeightIs
<1>3. i \in 0 .. Len(L[h]) - 1 /\ run[h] = L[h][i + 1]
  <2>1. h \in 0 .. h
    BY <1>1
  <2> QED BY <2>1, PathClimbs
<1>4. leaves # <<>>
  BY DEF IsLayer
<1>5. Root(leaves) = L[h][1]
  BY <1>4 DEF Root
<1> HIDE DEF h, L, path, run, i
<1>6. i + 1 = 1
  BY <1>2, <1>3
<1>7. Root(leaves) = run[Len(path)]
  BY <1>1, <1>3, <1>5, <1>6
<1> QED BY <1>7 DEF VerifyProof, run, path

-----------------------------------------------------------------------------
(***************************************************************************)
(* A path carries different hashes to different roots.                     *)
(***************************************************************************)
LEMMA RunningInjective ==
    ASSUME NEW x, NEW y, NEW path, Len(path) \in Nat,
           RunningHash(x, path)[Len(path)] = RunningHash(y, path)[Len(path)]
    PROVE  x = y
<1> DEFINE n == Len(path)
           f == RunningHash(x, path)
           g == RunningHash(y, path)
           S == {j \in Nat : f[n - j] = g[n - j]}
<1>1. n \in Nat /\ f[n] = g[n]
  OBVIOUS
<1>2. /\ f[0] = x /\ \A k \in 1 .. n : f[k] = HashWith(path[k], f[k - 1])
      /\ g[0] = y /\ \A k \in 1 .. n : g[k] = HashWith(path[k], g[k - 1])
  BY RunningDef
<1> HIDE DEF n, f, g
<1>3. \A node, u, v : HashWith(node, u) = HashWith(node, v) => u = v
  BY DEF HashWith, hashPair
<1>4. 0 \in S
  BY <1>1
<1>5. ASSUME NEW j \in 0 .. n - 1, j \in S PROVE j + 1 \in S
  <2>1. n - j \in 1 .. n /\ (n - j) - 1 = n - (j + 1) /\ j + 1 \in Nat
    BY <1>1
  <2>2. /\ f[n - j] = HashWith(path[n - j], f[n - (j + 1)])
        /\ g[n - j] = HashWith(path[n - j], g[n - (j + 1)])
    BY <1>2, <2>1
  <2>3. f[n - j] = g[n - j]
    BY <1>5
  <2>4. f[n - (j + 1)] = g[n - (j + 1)]
    BY <1>3, <2>2, <2>3
  <2> QED BY <2>1, <2>4
<1>6. n \in S
  <2>1. n \in 0 .. n
    BY <1>1
  <2> HIDE DEF S
  <2>2. 0 .. n \subseteq S
    BY <1>1, <1>4, <1>5, UpTo
  <2> QED BY <2>1, <2>2
<1>7. n - n = 0
  BY <1>1
<1> QED BY <1>2, <1>6, <1>7

(***************************************************************************)
(* A path is bound to its leaf: it leads no other hash to the root.        *)
(***************************************************************************)
THEOREM ProofBindsLeaf ==
    ASSUME NEW leaves, IsLayer(leaves), NEW index \in 0 .. Len(leaves) - 1, NEW x,
           VerifyProof(x, Proof(leaves, index).Path, Root(leaves))
    PROVE  x = leaves[index + 1]
<1> DEFINE path == Proof(leaves, index).Path
           leaf == leaves[index + 1]
<1>1. Len(path) \in Nat
  BY ProofIs
<1>2. VerifyProof(leaf, path, Root(leaves)) /\ VerifyProof(x, path, Root(leaves))
  BY ProofVerifies
<1> HIDE DEF path, leaf
<1>3. RunningHash(x, path)[Len(path)] = RunningHash(leaf, path)[Len(path)]
  BY <1>2 DEF VerifyProof
<1>4. x = leaf
  BY <1>1, <1>3, RunningInjective
<1> QED BY <1>4 DEF leaf

-----------------------------------------------------------------------------
(***************************************************************************)
(* Layers of distinct nodes: halving keeps them distinct, and then the     *)
(* layer can be told from its half, although an odd one repeats a node.    *)
(***************************************************************************)
Distinct(layer) == \A i, j \in 1 .. Len(layer) : layer[i] = layer[j] => i = j

\* Half, for even and for odd lengths.
LEMMA HalfOf ==
    ASSUME NEW n \in Nat \ {0}
    PROVE  /\ Half(n) \in Nat \ {0}
           /\ n = 2 * Half(n) \/ (n = 2 * Half(n) - 1 /\ n % 2 = 1)
           /\ \A i \in 1 .. Half(n) : 2*i - 1 \in 1 .. n
BY DEF Half

\* Pairs are equal when their parts are.
LEMMA PairsEqual == \A a, b, c, d : <<a, b>> = <<c, d>> => a = c /\ b = d
OBVIOUS

\* Node i of the next layer is hashed from node 2i - 1 and its sibling.
LEMMA Siblings ==
    ASSUME NEW layer, IsLayer(layer), NEW i \in 1 .. Half(Len(layer))
    PROVE  /\ 2*i - 1 \in 1 .. Len(layer)
           /\ NextLayer(layer)[i] = <<layer[2*i - 1], Pad(layer)[2*i]>>
<1> DEFINE n == Len(layer)
<1>1. /\ n \in Nat \ {0} /\ \A x \in 1 .. n : Pad(layer)[x] = layer[x]
      /\ \A x \in 1 .. Half(n) : NextLayer(layer)[x] = <<Pad(layer)[2*x - 1], Pad(layer)[2*x]>>
  BY PadIs, NextLayerIs
<1>2. i \in 1 .. Half(n)
  OBVIOUS
<1> HIDE DEF n
<1>3. 2*i - 1 \in 1 .. n
  BY <1>1, <1>2, HalfOf
<1>4. NextLayer(layer)[i] = <<Pad(layer)[2*i - 1], Pad(layer)[2*i]>>
  BY <1>1, <1>2
<1>5. Pad(layer)[2*i - 1] = layer[2*i - 1]
  BY <1>1, <1>3
<1> QED BY <1>3, <1>4, <1>5 DEF n

\* The pairs of distinct nodes are distinct.
LEMMA DistinctKept ==
    ASSUME NEW layer, IsLayer(layer), Distinct(layer)
    PROVE  Distinct(NextLayer(layer))
<1> DEFINE N == NextLayer(layer)
<1>1. Len(N) = Half(Len(layer))
  BY NextLayerIs
<1> SUFFICES ASSUME NEW i \in 1 .. Half(Len(layer)), NEW j \in 1 .. Half(Len(layer)), N[i] = N[j]
             PROVE  i = j
  BY <1>1 DEF Distinct
<1>2. /\ 2*i - 1 \in 1 .. Len(layer) /\ N[i] = <<layer[2*i - 1], Pad(layer)[2*i]>>
      /\ 2*j - 1 \in 1 .. Len(layer) /\ N[j] = <<layer[2*j - 1], Pad(layer)[2*j]>>
  BY Siblings
<1>3. layer[2*i - 1] = layer[2*j - 1]
  <2>1. <<layer[2*i - 1], Pad(layer)[2*i]>> = <<layer[2*j - 1], Pad(layer)[2*j]>>
    BY <1>2
  <2> QED BY <2>1, PairsEqual
<1>4. 2*i - 1 = 2*j - 1
  BY <1>2, <1>3 DEF Distinct
<1>5. i \in Int /\ j \in Int
  OBVIOUS
<1> QED BY <1>4, <1>5

\* A layer of distinct nodes is no longer than another with the same pairs.
LEMMA SameHalves ==
    ASSUME NEW a, IsLayer(a), NEW b, IsLayer(b), Distinct(b), NextLayer(a) = NextLayer(b)
    PROVE  ~ (Len(a) < Len(b))
<1> DEFINE n == Len(a)
           m == Len(b)
           h == Half(n)
<1>1. /\ n \in Nat \ {0} /\ m \in Nat \ {0} /\ Half(m) = h
      /\ \A i \in 1 .. m : Pad(b)[i] = b[i]
      /\ n % 2 = 1 => Pad(a)[n + 1] = a[n]
  BY PadIs, NextLayerIs
<1> HIDE DEF n, m
<1> SUFFICES ASSUME n < m PROVE FALSE
  BY DEF n, m
<1>2. h \in Nat \ {0} /\ m = 2*h /\ n = 2*h - 1 /\ n % 2 = 1
  BY <1>1, HalfOf
<1>3. h \in 1 .. Half(n) /\ h \in 1 .. Half(m)
  BY <1>1, <1>2
<1>4. /\ NextLayer(a)[h] = <<a[2*h - 1], Pad(a)[2*h]>>
      /\ NextLayer(b)[h] = <<b[2*h - 1], Pad(b)[2*h]>>
  BY <1>3, Siblings DEF n, m
<1>5. a[2*h - 1] = b[2*h - 1] /\ Pad(a)[2*h] = Pad(b)[2*h]
  BY <1>4, PairsEqual
<1> HIDE DEF h
<1>6. n + 1 = 2*h /\ 2*h \in 1 .. m /\ 2*h - 1 \in 1 .. m /\ 2*h # 2*h - 1
  BY <1>2
<1>7. b[2*h] = b[2*h - 1]
  <2>1. Pad(a)[2*h] = a[2*h - 1]
    BY <1>1, <1>2, <1>6
  <2>2. Pad(b)[2*h] = b[2*h]
    BY <1>1, <1>6
  <2> QED BY <1>5, <2>1, <2>2
<1> QED BY <1>6, <1>7 DEF Distinct, m

\* The next layer determines a layer of distinct nodes.
LEMMA HalvesDetermine ==
    ASSUME NEW a, IsLayer(a), Distinct(a), NEW b, IsLayer(b), Distinct(b),
           NextLayer(a) = NextLayer(b)
    PROVE  a = b
<1> DEFINE n == Len(a)
<1>1. n \in Nat \ {0} /\ Len(b) \in Nat \ {0}
  BY PadIs
<1>2. Len(b) = n
  <2>1. ~ (Len(a) < Len(b)) /\ ~ (Len(b) < Len(a))
    BY SameHalves
  <2> QED BY <1>1, <2>1
<1>3. /\ \A i \in 1 .. n : Pad(a)[i] = a[i]
      /\ \A i \in 1 .. n : Pad(b)[i] = b[i]
  BY <1>2, PadIs
<1> HIDE DEF n
<1>4. ASSUME NEW x \in 1 .. n PROVE a[x] = b[x]
  <2> DEFINE i == Half(x)
  <2>1. i \in 1 .. Half(n) /\ (x = 2*i \/ x = 2*i - 1)
    BY <1>1 DEF Half
  <2> HIDE DEF i
  <2>2. /\ NextLayer(a)[i] = <<a[2*i - 1], Pad(a)[2*i]>>
        /\ NextLayer(b)[i] = <<b[2*i - 1], Pad(b)[2*i]>>
    BY <1>2, <2>1, Siblings DEF n
  <2>3. a[2*i - 1] = b[2*i - 1] /\ Pad(a)[2*i] = Pad(b)[2*i]
    BY <2>2, PairsEqual
  <2>4. CASE x = 2*i
    BY <1>3, <2>3, <2>4
  <2>5. CASE x = 2*i - 1
    BY <2>3, <2>5
  <2> QED BY <2>1, <2>4, <2>5
<1>5. PICK T, U : a \in Seq(T) /\ b \in Seq(U)
  BY DEF IsLayer
<1>6. a = [x \in 1 .. n |-> a[x]] /\ b = [x \in 1 .. n |-> b[x]]
  BY <1>2, <1>5 DEF n
<1> QED BY <1>4, <1>6

-----------------------------------------------------------------------------
(***************************************************************************)
(* From the root down: two windows of distinct leaves with one root have   *)
(* the same layers, as far as both have them.                              *)
(***************************************************************************)
LEMMA DistinctLayers ==
    ASSUME NEW leaves, IsLayer(leaves), Distinct(leaves)
    PROVE  \A k \in 0 .. Len(leaves) : Distinct(Layers(leaves)[k])
<1> DEFINE n == Len(leaves)
           L == Layers(leaves)
           S == {k \in Nat : Distinct(L[k])}
<1>1. /\ n \in Nat \ {0} /\ L[0] = leaves
      /\ \A k \in 0 .. n - 1 : L[k + 1] = NextLayer(L[k])
      /\ \A k \in 0 .. n : IsLayer(L[k])
  BY LayersStep, LayersShrink
<1> HIDE DEF n, L
<1>2. 0 \in S
  BY <1>1
<1>3. ASSUME NEW k \in 0 .. n - 1, k \in S PROVE k + 1 \in S
  <2>1. k \in 0 .. n /\ k + 1 \in Nat
    BY <1>1
  <2>2. IsLayer(L[k]) /\ Distinct(L[k]) /\ L[k + 1] = NextLayer(L[k])
    BY <1>1, <1>3, <2>1
  <2>3. Distinct(L[k + 1])
    BY <2>2, DistinctKept
  <2> QED BY <2>1, <2>3
<1>4. 0 .. n \subseteq S
  <2> HIDE DEF S
  <2> QED BY <1>1, <1>2, <1>3, UpTo
<1> QED BY <1>4 DEF n, L

\* From one root downwards, the layers of two windows are the same.
LEMMA LayersFromRoot ==
    ASSUME NEW a, IsLayer(a), Distinct(a), NEW b, IsLayer(b), Distinct(b),
           Root(a) = Root(b), Height(a) <= Height(b)
    PROVE  a = Layers(b)[Height(b) - Height(a)]
<1> DEFINE A == Layers(a)
           B == Layers(b)
           n == Len(a)
           m == Len(b)
           h == Height(a)
           g == Height(b)
           S == {j \in Nat : A[h - j] = B[g - j]}
<1>1. /\ n \in Nat \ {0} /\ A[0] = a /\ h \in 0 .. n /\ Len(A[h]) = 1
      /\ \A k \in 0 .. n - 1 : A[k + 1] = NextLayer(A[k])
      /\ \A k \in 0 .. n : IsLayer(A[k]) /\ Distinct(A[k])
  BY LayersStep, HeightIs, LayersShrink, DistinctLayers
<1>2. /\ m \in Nat \ {0} /\ g \in 0 .. m /\ Len(B[g]) = 1
      /\ \A k \in 0 .. m - 1 : B[k + 1] = NextLayer(B[k])
      /\ \A k \in 0 .. m : IsLayer(B[k]) /\ Distinct(B[k])
  BY LayersStep, HeightIs, LayersShrink, DistinctLayers
<1>3. A[h][1] = B[g][1]
  <2>1. a # <<>> /\ b # <<>>
    BY DEF IsLayer
  <2> QED BY <2>1 DEF Root
<1>4. h <= g
  OBVIOUS
<1> HIDE DEF A, B, n, m, h, g
<1>5. 0 \in S
  <2>1. h - 0 = h /\ g - 0 = g /\ IsLayer(A[h]) /\ IsLayer(B[g])
    BY <1>1, <1>2
  <2>2. PICK T, U : A[h] \in Seq(T) /\ B[g] \in Seq(U)
    BY <2>1 DEF IsLayer
  <2>3. A[h] = <<A[h][1]>> /\ B[g] = <<B[g][1]>>
    BY <1>1, <1>2, <2>2
  <2> QED BY <1>3, <2>1, <2>3
<1>6. ASSUME NEW j \in 0 .. h - 1, j \in S PROVE j + 1 \in S
  <2> DEFINE x == h - (j + 1)
             y == g - (j + 1)
  <2>1. /\ x \in 0 .. n - 1 /\ x \in 0 .. n /\ x + 1 = h - j
        /\ y \in 0 .. m - 1 /\ y \in 0 .. m /\ y + 1 = g - j
        /\ j + 1 \in Nat
    BY <1>1, <1>2, <1>4
  <2> HIDE DEF x, y
  <2>2. /\ A[h - j] = NextLayer(A[x]) /\ B[g - j] = NextLayer(B[y])
        /\ IsLayer(A[x]) /\ Distinct(A[x]) /\ IsLayer(B[y]) /\ Distinct(B[y])
    BY <1>1, <1>2, <2>1
  <2>3. NextLayer(A[x]) = NextLayer(B[y])
    BY <1>6, <2>2
  <2>4. A[x] = B[y]
    BY <2>2, <2>3, HalvesDetermine
  <2> QED BY <2>1, <2>4 DEF x, y
<1>7. h \in Nat /\ h \in 0 .. h /\ h - h = 0
  BY <1>1
<1>8. h \in S
  <2> HIDE DEF S
  <2>1. 0 .. h \subseteq S
    BY <1>5, <1>6, <1>7, UpTo
  <2> QED BY <1>7, <2>1
<1> QED BY <1>1, <1>7, <1>8 DEF B, g, h

\* No leaf is the hash of a node: entry hashes are triples (message.go ComputeHash).
NotANode(layer) == \A i \in 1 .. Len(layer) : \A x, y : layer[i] # <<x, y>>

\* A window whose leaves are not node hashes is no layer of a higher tree.
LEMMA SameHeight ==
    ASSUME NEW a, IsLayer(a), Distinct(a), NotANode(a), NEW b, IsLayer(b), Distinct(b),
           Root(a) = Root(b), Height(a) <= Height(b)
    PROVE  a = b
<1> DEFINE d == Height(b) - Height(a)
           B == Layers(b)
           m == Len(b)
<1>1. a = B[d]
  BY LayersFromRoot
<1>0. Height(a) \in Nat
  BY HeightIs, PadIs
<1>2. /\ Height(b) \in 0 .. m /\ m \in Nat \ {0} /\ B[0] = b
      /\ \A k \in 0 .. m - 1 : B[k + 1] = NextLayer(B[k])
      /\ \A k \in 0 .. m : IsLayer(B[k])
  BY HeightIs, LayersStep, LayersShrink
<1>3. d \in 0 .. m
  BY <1>0, <1>2
<1> HIDE DEF d, B, m
<1>4. CASE d = 0
  BY <1>1, <1>2, <1>4
<1>5. CASE d # 0
  <2> DEFINE N == NextLayer(B[d - 1])
  <2>1. d - 1 \in 0 .. m - 1 /\ d - 1 \in 0 .. m /\ (d - 1) + 1 = d
    BY <1>2, <1>3, <1>5
  <2>2. a = N /\ IsLayer(B[d - 1])
    BY <1>1, <1>2, <2>1
  <2>3. Len(B[d - 1]) \in Nat \ {0}
    BY <2>2, PadIs
  <2>4. 1 \in 1 .. Half(Len(B[d - 1])) /\ Len(N) = Half(Len(B[d - 1]))
    BY <2>2, <2>3, HalfOf, NextLayerIs
  <2>5. N[1] = <<Pad(B[d - 1])[2*1 - 1], Pad(B[d - 1])[2*1]>>
    BY <2>2, <2>4, NextLayerIs
  <2> HIDE DEF N
  <2> QED BY <2>2, <2>4, <2>5 DEF NotANode
<1> QED BY <1>4, <1>5

(***************************************************************************)
(* A root determines its window: windows of distinct entry hashes with the *)
(* same root are equal, whatever their lengths (tree.go Root).             *)
(***************************************************************************)
THEOREM RootDetermines ==
    ASSUME NEW a, IsLayer(a), Distinct(a), NotANode(a),
           NEW b, IsLayer(b), Distinct(b), NotANode(b), Root(a) = Root(b)
    PROVE  a = b
<1>1. Height(a) \in Nat /\ Height(b) \in Nat
  BY HeightIs, PadIs
<1>2. CASE Height(a) <= Height(b)
  BY <1>2, SameHeight
<1>3. CASE Height(b) <= Height(a)
  BY <1>3, SameHeight
<1> QED BY <1>1, <1>2, <1>3
=============================================================================
