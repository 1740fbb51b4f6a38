--------------------------- MODULE ChatClientProofs ---------------------------
(***************************************************************************)
(* What a chat view shows, for any number of requests in flight, any page  *)
(* size and any length of the log.  MerkleProofs is extended for UpTo, the *)
(* induction that the filter of appendEntries needs.                       *)
(***************************************************************************)
EXTENDS ChatClient, MerkleProofs

-----------------------------------------------------------------------------
(***************************************************************************)
(* The filter of appendEntries.                                            *)
(***************************************************************************)
Keep(kept, e, seen) == IF e \in seen THEN kept ELSE Append(kept, e)

KeptAre(f, entries, seen, n) ==
    f = [k \in 0 .. n |-> IF k = 0 THEN <<>> ELSE Keep(f[k - 1], entries[k], seen)]

\* Such a function exists for every number of entries,
LEMMA KeptExist ==
    ASSUME NEW entries, NEW seen, NEW n \in Nat
    PROVE  \E f : KeptAre(f, entries, seen, n)
<1> DEFINE S == {m \in Nat : \E f : KeptAre(f, entries, seen, m)}
<1>1. 0 \in S
  <2> DEFINE f == [k \in 0 .. 0 |-> <<>>]
  <2>1. f = [k \in 0 .. 0 |-> IF k = 0 THEN <<>> ELSE Keep(f[k - 1], entries[k], seen)]
    OBVIOUS
  <2> HIDE DEF f
  <2> QED BY <2>1 DEF KeptAre
<1>2. ASSUME NEW m \in 0 .. n - 1, m \in S PROVE m + 1 \in S
  <2>1. PICK g : KeptAre(g, entries, seen, m)
    BY <1>2
  <2>2. m \in Nat
    OBVIOUS
  <2> DEFINE f == [k \in 0 .. m + 1 |-> IF k = 0 THEN <<>> ELSE Keep(g[k - 1], entries[k], seen)]
  <2>3. ASSUME NEW k \in 0 .. m + 1
        PROVE  f[k] = IF k = 0 THEN <<>> ELSE Keep(f[k - 1], entries[k], seen)
    <3>1. CASE k = 0
      BY <3>1
    <3>2. CASE k # 0
      <4>1. k - 1 \in 0 .. m /\ k - 1 \in 0 .. m + 1
        BY <3>2, <2>2
      <4>2. g[k - 1] = IF k - 1 = 0 THEN <<>> ELSE Keep(g[k - 1 - 1], entries[k - 1], seen)
        BY <2>1, <4>1 DEF KeptAre
      <4>3. f[k - 1] = g[k - 1]
        BY <4>1, <4>2
      <4> QED BY <3>2, <4>3
    <3> QED BY <3>1, <3>2
  <2>4. f = [k \in 0 .. m + 1 |-> f[k]]
    OBVIOUS
  <2> HIDE DEF f
  <2>5. f = [k \in 0 .. m + 1 |-> IF k = 0 THEN <<>> ELSE Keep(f[k - 1], entries[k], seen)]
    BY <2>3, <2>4
  <2>6. m + 1 \in Nat
    BY <2>2
  <2> QED BY <2>5, <2>6 DEF KeptAre
<1>3. 0 .. n \subseteq S
  <2> HIDE DEF S
  <2> QED BY <1>1, <1>2, UpTo
<1> QED BY <1>3

\* so Kept is one.
LEMMA KeptDef ==
    ASSUME NEW entries, Len(entries) \in Nat, NEW seen
    PROVE  /\ Kept(entries, seen)[0] = <<>>
           /\ \A k \in 1 .. Len(entries) :
                  Kept(entries, seen)[k] = Keep(Kept(entries, seen)[k - 1], entries[k], seen)
<1> DEFINE n == Len(entries)
           f == CHOOSE g : g = [k \in 0 .. n |->
                    IF k = 0 THEN <<>> ELSE Keep(g[k - 1], entries[k], seen)]
<1>1. \E g : g = [k \in 0 .. n |-> IF k = 0 THEN <<>> ELSE Keep(g[k - 1], entries[k], seen)]
  <2>1. n \in Nat
    OBVIOUS
  <2> HIDE DEF n
  <2>2. \E g : KeptAre(g, entries, seen, n)
    BY <2>1, KeptExist
  <2> QED BY <2>2 DEF KeptAre
<1>2. f = [k \in 0 .. n |-> IF k = 0 THEN <<>> ELSE Keep(f[k - 1], entries[k], seen)]
  BY <1>1
<1>3. Kept(entries, seen) = f
  BY DEF Kept, Keep
<1> HIDE DEF f, n
<1>4. f[0] = <<>>
  BY <1>2 DEF n
<1>5. ASSUME NEW k \in 1 .. n PROVE f[k] = Keep(f[k - 1], entries[k], seen)
  <2>1. k \in 0 .. n /\ k # 0
    BY DEF n
  <2> QED BY <1>2, <2>1
<1> QED BY <1>3, <1>4, <1>5 DEF n

\* A page of the history, or one entry: consecutive sequences.
Run(from, n) == [i \in 1 .. n |-> from + i - 1]

\* The entries of a run.
LEMMA RunIs ==
    ASSUME NEW from \in Nat, NEW n \in Nat
    PROVE  /\ Run(from, n) \in Seq(Nat) /\ Len(Run(from, n)) = n
           /\ \A k \in 1 .. n : Run(from, n)[k] = from + k - 1
<1>1. \A k \in 1 .. n : from + k - 1 \in Nat
  OBVIOUS
<1> QED BY <1>1 DEF Run

\* These are the k first of a run, each once, without those that were seen.
Keeps(s, from, k, seen) ==
    /\ s \in Seq(Nat)
    /\ \A j \in 1 .. Len(s) : s[j] >= from /\ s[j] < from + k /\ s[j] \notin seen
    /\ \A i, j \in 1 .. Len(s) : s[i] = s[j] => i = j
    /\ \A x \in Nat : x >= from /\ x < from + k /\ x \notin seen => \E j \in 1 .. Len(s) : s[j] = x

\* One more entry: kept at the end, or seen.
LEMMA KeepsOne ==
    ASSUME NEW s, NEW from \in Nat, NEW k \in Nat, NEW seen, Keeps(s, from, k, seen)
    PROVE  Keeps(Keep(s, from + k, seen), from, k + 1, seen)
<1> DEFINE e == from + k
<1>1. e \in Nat
  OBVIOUS
<1>2. /\ s \in Seq(Nat) /\ Len(s) \in Nat
      /\ \A j \in 1 .. Len(s) : s[j] \in Nat /\ s[j] >= from /\ s[j] < e /\ s[j] \notin seen
      /\ \A i, j \in 1 .. Len(s) : s[i] = s[j] => i = j
      /\ \A x \in Nat : x >= from /\ x < e /\ x \notin seen => \E j \in 1 .. Len(s) : s[j] = x
  BY DEF Keeps
<1>3. \A x \in Nat : x < from + (k + 1) <=> x < e \/ x = e
  OBVIOUS
<1>4. e >= from
  OBVIOUS
<1> HIDE DEF e
<1>5. CASE e \in seen
  <2>1. Keeps(s, from, k + 1, seen)
    BY <1>2, <1>3, <1>5 DEF Keeps
  <2> QED BY <1>5, <2>1 DEF Keep, e
<1>6. CASE e \notin seen
  <2> DEFINE t == Append(s, e)
  <2>1. t \in Seq(Nat) /\ Len(t) = Len(s) + 1 /\ t[Len(s) + 1] = e
        /\ \A j \in 1 .. Len(s) : t[j] = s[j]
    BY <1>1, <1>2
  <2> HIDE DEF t
  <2>2. ASSUME NEW j \in 1 .. Len(t) PROVE j \in 1 .. Len(s) \/ j = Len(s) + 1
    BY <1>2, <2>1
  <2>3. \A j \in 1 .. Len(t) : t[j] >= from /\ t[j] < from + (k + 1) /\ t[j] \notin seen
    <3> SUFFICES ASSUME NEW j \in 1 .. Len(t)
                 PROVE  t[j] \in Nat /\ t[j] >= from /\ (t[j] < e \/ t[j] = e) /\ t[j] \notin seen
      BY <1>3
    <3> QED BY <1>1, <1>2, <1>4, <1>6, <2>1, <2>2
  <2>4. \A i, j \in 1 .. Len(t) : t[i] = t[j] => i = j
    <3> SUFFICES ASSUME NEW i \in 1 .. Len(t), NEW j \in 1 .. Len(t), t[i] = t[j] PROVE i = j
      OBVIOUS
    <3>1. \A x \in 1 .. Len(s) : s[x] # e
      BY <1>1, <1>2
    <3>2. CASE i \in 1 .. Len(s) /\ j \in 1 .. Len(s)
      BY <1>2, <2>1, <3>2
    <3>3. CASE i = Len(s) + 1 /\ j \in 1 .. Len(s)
      BY <2>1, <3>1, <3>3
    <3>4. CASE i \in 1 .. Len(s) /\ j = Len(s) + 1
      BY <2>1, <3>1, <3>4
    <3> QED BY <2>2, <3>2, <3>3, <3>4
  <2>5. ASSUME NEW x \in Nat, x >= from, x < from + (k + 1), x \notin seen
        PROVE  \E j \in 1 .. Len(t) : t[j] = x
    <3>1. CASE x < e
      <4>1. PICK j \in 1 .. Len(s) : s[j] = x
        BY <1>2, <2>5, <3>1
      <4>2. j \in 1 .. Len(t) /\ t[j] = x
        BY <1>2, <2>1, <4>1
      <4> QED BY <4>2
    <3>2. CASE x = e
      <4>1. Len(s) + 1 \in 1 .. Len(t)
        BY <1>2, <2>1
      <4> QED BY <2>1, <3>2, <4>1
    <3> QED BY <1>3, <2>5, <3>1, <3>2
  <2>6. Keeps(t, from, k + 1, seen)
    BY <2>1, <2>3, <2>4, <2>5 DEF Keeps
  <2> QED BY <1>6, <2>6 DEF Keep, e, t
<1> QED BY <1>5, <1>6

\* What Fresh keeps of a run.
LEMMA FreshKeeps ==
    ASSUME NEW from \in Nat, NEW n \in Nat, NEW seen
    PROVE  Keeps(Fresh(Run(from, n), seen), from, n, seen)
<1> DEFINE run == Run(from, n)
           f == Kept(run, seen)
           S == {k \in Nat : Keeps(f[k], from, k, seen)}
<1>1. Len(run) = n /\ \A k \in 1 .. n : run[k] = from + k - 1
  BY RunIs
<1> HIDE DEF run
<1>2. f[0] = <<>> /\ \A k \in 1 .. n : f[k] = Keep(f[k - 1], run[k], seen)
  BY <1>1, KeptDef
<1> HIDE DEF f
<1>3. 0 \in S
  <2>1. Keeps(<<>>, from, 0, seen)
    BY DEF Keeps
  <2> QED BY <1>2, <2>1
<1>4. ASSUME NEW k \in 0 .. n - 1, k \in S PROVE k + 1 \in S
  <2>1. k \in Nat /\ k + 1 \in 1 .. n /\ (k + 1) - 1 = k /\ k + 1 \in Nat
        /\ from + (k + 1) - 1 = from + k
    OBVIOUS
  <2>2. run[k + 1] = from + k
    BY <1>1, <2>1
  <2>3. f[k + 1] = Keep(f[k], from + k, seen)
    BY <1>2, <2>1, <2>2
  <2>4. Keeps(f[k], from, k, seen)
    BY <1>4
  <2>5. Keeps(f[k + 1], from, k + 1, seen)
    BY <2>1, <2>3, <2>4, KeepsOne
  <2> QED BY <2>1, <2>5
<1>5. 0 .. n \subseteq S
  <2> HIDE DEF S
  <2> QED BY <1>3, <1>4, UpTo
<1>6. Keeps(f[n], from, n, seen)
  BY <1>5
<1>7. Fresh(run, seen) = f[n]
  BY <1>1 DEF Fresh, f
<1> QED BY <1>6, <1>7 DEF run

\* How far a run of k from there reaches beyond q.
Beyond(from, k, q) == IF from + k <= q THEN 0 ELSE from + k - q

\* What Fresh keeps of a run when all before q were seen.
LEMMA FreshExtends ==
    ASSUME NEW q \in Nat, NEW from \in 0 .. q, NEW n \in Nat
    PROVE  Fresh(Run(from, n), 0 .. q - 1) = Run(q, Beyond(from, n, q))
<1> DEFINE run == Run(from, n)
           f == Kept(run, 0 .. q - 1)
           S == {k \in Nat : f[k] = Run(q, Beyond(from, k, q))}
<1>0. from \in Nat
  OBVIOUS
<1>1. Len(run) = n /\ \A k \in 1 .. n : run[k] = from + k - 1
  BY <1>0, RunIs
<1> HIDE DEF run
<1>2. f[0] = <<>> /\ \A k \in 1 .. n : f[k] = Keep(f[k - 1], run[k], 0 .. q - 1)
  BY <1>1, KeptDef
<1> HIDE DEF f
<1>3. 0 \in S
  <2>1. Run(q, 0) = <<>>
    BY DEF Run
  <2>2. Beyond(from, 0, q) = 0
    BY DEF Beyond
  <2> QED BY <1>2, <2>1, <2>2
<1>4. ASSUME NEW k \in 0 .. n - 1, k \in S PROVE k + 1 \in S
  <2> DEFINE b == Beyond(from, k, q)
             e == from + k
  <2>1. k \in Nat /\ k + 1 \in 1 .. n /\ (k + 1) - 1 = k /\ k + 1 \in Nat
        /\ from + (k + 1) - 1 = e /\ e \in Nat /\ from + (k + 1) = e + 1
    BY <1>0
  <2>2. f[k + 1] = Keep(Run(q, b), e, 0 .. q - 1)
    BY <1>1, <1>2, <1>4, <2>1
  <2>3. CASE e < q
    <3>1. e \in 0 .. q - 1 /\ b = 0 /\ Beyond(from, k + 1, q) = 0
      BY <2>1, <2>3 DEF Beyond
    <3> QED BY <2>1, <2>2, <3>1 DEF Keep
  <2>4. CASE ~ (e < q)
    <3>1. e \notin 0 .. q - 1 /\ b \in Nat /\ e = q + b /\ Beyond(from, k + 1, q) = b + 1
      BY <2>1, <2>4 DEF Beyond
    <3> HIDE DEF b, e
    <3>2. Append(Run(q, b), q + b) = Run(q, b + 1)
      <4>1. /\ Run(q, b) \in Seq(Nat) /\ Len(Run(q, b)) = b
            /\ \A j \in 1 .. b : Run(q, b)[j] = q + j - 1
        BY <3>1, RunIs
      <4>2. q + b \in Nat /\ b + 1 \in Nat /\ q + (b + 1) - 1 = q + b
        BY <3>1
      <4>3. /\ Run(q, b + 1) \in Seq(Nat) /\ Len(Run(q, b + 1)) = b + 1
            /\ \A j \in 1 .. b + 1 : Run(q, b + 1)[j] = q + j - 1
        BY <4>2, RunIs
      <4> DEFINE t == Append(Run(q, b), q + b)
      <4>4. /\ t \in Seq(Nat) /\ Len(t) = b + 1 /\ t[b + 1] = q + b
            /\ \A j \in 1 .. b : t[j] = Run(q, b)[j]
        BY <4>1, <4>2
      <4> HIDE DEF t
      <4>5. \A j \in 1 .. b + 1 : t[j] = Run(q, b + 1)[j]
        <5> SUFFICES ASSUME NEW j \in 1 .. b + 1 PROVE t[j] = q + j - 1
          BY <4>3
        <5>1. j \in 1 .. b \/ j = b + 1
          BY <3>1
        <5> QED BY <4>1, <4>2, <4>4, <5>1
      <4>6. t = Run(q, b + 1)
        BY <4>3, <4>4, <4>5, SeqEqual
      <4> QED BY <4>6 DEF t
    <3> QED BY <2>1, <2>2, <3>1, <3>2 DEF Keep
  <2> QED BY <2>3, <2>4
<1>5. 0 .. n \subseteq S
  <2> HIDE DEF S
  <2> QED BY <1>3, <1>4, UpTo
<1>6. f[n] = Run(q, Beyond(from, n, q))
  BY <1>5
<1>7. Fresh(run, 0 .. q - 1) = f[n]
  BY <1>1 DEF Fresh, f
<1> QED BY <1>6, <1>7 DEF run

-----------------------------------------------------------------------------
(***************************************************************************)
(* The invariant: the cursor is one past the newest entry shown, which is  *)
(* in the log; a fetch starts no further than the cursor, and what it      *)
(* brings is consecutive and in the log.                                   *)
(***************************************************************************)
ViewOK ==
    /\ messages \in Seq(Nat) /\ nextSeq \in Nat
    /\ \A k \in 1 .. Len(messages) : messages[k] < nextSeq
    /\ nextSeq # 0 => \E k \in 1 .. Len(messages) : messages[k] + 1 = nextSeq
    /\ \A j, k \in 1 .. Len(messages) : messages[j] = messages[k] => j = k

Asked(r, cursor) ==
    /\ r = [Kind |-> r.Kind, From |-> r.From, Answer |-> r.Answer]
    /\ r.Kind \in {"load", "live", "send"}
    /\ r.From \in 0 .. cursor

Answers(r, size) ==
    IF r.Kind = "send" THEN r.Answer \in 0 .. size - 1
    ELSE \E n \in Nat : r.From + n <= size /\ r.Answer.Messages = Run(r.From, n)

RequestsOK ==
    /\ req = [s \in Slots |-> req[s]]
    /\ \A s \in Slots :
        req[s] # None =>
            Asked(req[s], nextSeq) /\ (req[s].Answer # None => Answers(req[s], len))

ClientInv == len \in Nat /\ nextSeq <= len /\ ViewOK /\ RequestsOK /\ ShownIsPrefix

-----------------------------------------------------------------------------
\* Math.max of two sequences.
LEMMA MaxPair ==
    ASSUME NEW a \in Nat, NEW b \in Nat
    PROVE  Max({a, b}) = IF a >= b THEN a ELSE b
<1> DEFINE S == {a, b}
           m == IF a >= b THEN a ELSE b
<1>1. m \in S /\ \A y \in S : m >= y
  OBVIOUS
<1>2. \A x \in S : (\A y \in S : x >= y) => x = m
  OBVIOUS
<1>3. Max(S) = CHOOSE x \in S : \A y \in S : x >= y
  BY DEF Max
<1> HIDE DEF S, m
<1>4. Max(S) = m
  BY <1>1, <1>2, <1>3
<1> QED BY <1>4 DEF S, m

(***************************************************************************)
(* Appending a run that is in the log.                                     *)
(***************************************************************************)
LEMMA AppendRun ==
    ASSUME ViewOK, len \in Nat, nextSeq <= len,
           NEW from \in Nat, NEW n \in Nat, from + n <= len, appendEntries(Run(from, n))
    PROVE  ViewOK' /\ nextSeq <= nextSeq' /\ nextSeq' <= len
<1> DEFINE run == Run(from, n)
           seen == {messages[k] : k \in DOMAIN messages}
           new == Fresh(run, seen)
           q == nextSeq
           N == Len(messages)
           M == Len(new)
<1>1. /\ messages \in Seq(Nat) /\ q \in Nat /\ N \in Nat /\ DOMAIN messages = 1 .. N
      /\ \A k \in 1 .. N : messages[k] \in Nat /\ messages[k] < q
      /\ \A j, k \in 1 .. N : messages[j] = messages[k] => j = k
  BY DEF ViewOK
<1>2. run \in Seq(Nat) /\ Len(run) = n /\ \A k \in 1 .. n : run[k] = from + k - 1
  BY RunIs
<1>3. Keeps(new, from, n, seen)
  BY FreshKeeps
<1>4. /\ new \in Seq(Nat) /\ M \in Nat
      /\ \A k \in 1 .. M : new[k] \in Nat /\ new[k] < from + n /\ new[k] \notin seen
      /\ \A i, j \in 1 .. M : new[i] = new[j] => i = j
      /\ \A x \in Nat : x >= from /\ x < from + n /\ x \notin seen => \E j \in 1 .. M : new[j] = x
  <2> HIDE DEF seen, new
  <2> QED BY <1>3 DEF Keeps
<1>5. CASE run = <<>>
  <2>1. UNCHANGED <<messages, nextSeq>>
    BY <1>5 DEF appendEntries
  <2> QED BY <2>1 DEF ViewOK
<1>6. CASE run # <<>>
  <2>0. n # 0
    <3> SUFFICES ASSUME n = 0 PROVE FALSE
      OBVIOUS
    <3> QED BY <1>2, <1>6
  <2>1. /\ messages' = messages \o new
        /\ nextSeq' = Max({nextSeq, run[Len(run)] + 1})
    BY <1>6 DEF appendEntries
  <2>2. run[Len(run)] + 1 = from + n
    BY <1>2, <2>0
  <2>3. nextSeq' = IF q >= from + n THEN q ELSE from + n
    <3>1. from + n \in Nat
      OBVIOUS
    <3> QED BY <1>1, <2>1, <2>2, <3>1, MaxPair
  <2>4. /\ messages' \in Seq(Nat) /\ Len(messages') = N + M
        /\ \A k \in 1 .. N : messages'[k] = messages[k]
        /\ \A k \in 1 .. M : messages'[N + k] = new[k]
    <3> HIDE DEF new
    <3> QED BY <1>1, <1>4, <2>1, ConcatProperties
  <2>5. \A k \in 1 .. N : messages[k] \in seen
    BY <1>1
  <2>6. \A x \in seen : x < q
    BY <1>1
  <2> HIDE DEF run, seen, new, q, N, M
  <2>7. ASSUME nextSeq' # q, from + n - 1 \notin seen
        PROVE  \E k \in 1 .. N + M : messages'[k] + 1 = from + n
    <3>1. from + n - 1 \in Nat /\ from + n - 1 >= from /\ from + n - 1 < from + n
          /\ (from + n - 1) + 1 = from + n
      BY <2>0
    <3>2. PICK j \in 1 .. M : new[j] = from + n - 1
      BY <1>4, <2>7, <3>1
    <3>3. N + j \in 1 .. N + M /\ messages'[N + j] = from + n - 1
      BY <1>1, <1>4, <2>4, <3>2
    <3> QED BY <3>1, <3>3
  <2>8. ASSUME NEW k \in 1 .. N + M
        PROVE  k \in 1 .. N \/ (k - N \in 1 .. M /\ N + (k - N) = k)
    BY <1>1, <1>4
  <2>9. \A k \in 1 .. Len(messages') : messages'[k] < nextSeq'
    <3> SUFFICES ASSUME NEW k \in 1 .. N + M PROVE messages'[k] < nextSeq'
      BY <2>4
    <3>1. CASE k \in 1 .. N
      BY <1>1, <2>3, <2>4, <3>1
    <3>2. CASE k - N \in 1 .. M /\ N + (k - N) = k
      <4>1. messages'[k] = new[k - N] /\ new[k - N] \in Nat /\ new[k - N] < from + n
        BY <1>4, <2>4, <3>2
      <4> QED BY <1>1, <2>3, <4>1
    <3> QED BY <2>8, <3>1, <3>2
  <2>10. \A j, k \in 1 .. Len(messages') : messages'[j] = messages'[k] => j = k
    <3> SUFFICES ASSUME NEW j \in 1 .. N + M, NEW k \in 1 .. N + M, messages'[j] = messages'[k]
                 PROVE  j = k
      BY <2>4
    <3>0. ASSUME NEW x \in 1 .. N, NEW y \in 1 .. M PROVE messages'[x] # messages'[N + y]
      BY <1>4, <2>4, <2>5
    <3>1. CASE j \in 1 .. N /\ k \in 1 .. N
      BY <1>1, <2>4, <3>1
    <3>2. CASE j \in 1 .. N /\ k - N \in 1 .. M /\ N + (k - N) = k
      BY <3>0, <3>2
    <3>3. CASE k \in 1 .. N /\ j - N \in 1 .. M /\ N + (j - N) = j
      BY <3>0, <3>3
    <3>4. CASE j - N \in 1 .. M /\ N + (j - N) = j /\ k - N \in 1 .. M /\ N + (k - N) = k
      <4>1. new[j - N] = new[k - N]
        BY <2>4, <3>4
      <4>2. j - N = k - N
        BY <1>4, <3>4, <4>1
      <4> QED BY <3>4, <4>2
    <3> QED BY <2>8, <3>1, <3>2, <3>3, <3>4
  <2>11. nextSeq' # 0 => \E k \in 1 .. Len(messages') : messages'[k] + 1 = nextSeq'
    <3>1. CASE nextSeq' = q
      <4> SUFFICES ASSUME q # 0 PROVE \E k \in 1 .. N + M : messages'[k] + 1 = q
        BY <2>4, <3>1
      <4>1. PICK k \in 1 .. N : messages[k] + 1 = q
        BY DEF ViewOK, q, N
      <4>2. k \in 1 .. N + M
        BY <1>1, <1>4
      <4> QED BY <2>4, <4>1, <4>2
    <3>2. CASE nextSeq' # q
      <4>1. nextSeq' = from + n /\ ~ (q >= from + n)
        BY <2>3, <3>2
      <4>2. from + n - 1 \notin seen
        <5>1. from + n - 1 \in Nat /\ ~ (from + n - 1 < q)
          BY <1>1, <2>0, <4>1
        <5> QED BY <2>6, <5>1
      <4> QED BY <2>4, <2>7, <3>2, <4>1, <4>2
    <3> QED BY <3>1, <3>2
  <2>12. nextSeq' \in Nat /\ nextSeq <= nextSeq' /\ nextSeq' <= len
    BY <1>1, <2>3 DEF q
  <2> QED BY <2>4, <2>9, <2>10, <2>11, <2>12 DEF ViewOK
<1> QED BY <1>5, <1>6

(***************************************************************************)
(* A view that shows a prefix of the log and fetches from no further than  *)
(* its cursor shows a longer prefix.                                       *)
(***************************************************************************)
LEMMA AppendExtends ==
    ASSUME nextSeq \in Nat, messages = Run(0, nextSeq),
           NEW from \in 0 .. nextSeq, NEW n \in Nat, appendEntries(Run(from, n))
    PROVE  messages' = Run(0, nextSeq')
<1> DEFINE run == Run(from, n)
           seen == {messages[k] : k \in DOMAIN messages}
           q == nextSeq
           b == Beyond(from, n, q)
<1>1. /\ messages \in Seq(Nat) /\ Len(messages) = q /\ DOMAIN messages = 1 .. q
      /\ \A k \in 1 .. q : messages[k] = k - 1
  <2>1. /\ Run(0, q) \in Seq(Nat) /\ Len(Run(0, q)) = q
        /\ \A k \in 1 .. q : Run(0, q)[k] = 0 + k - 1
    BY RunIs
  <2>2. \A k \in 1 .. q : 0 + k - 1 = k - 1
    OBVIOUS
  <2> HIDE DEF q
  <2>3. messages = Run(0, q)
    BY DEF q
  <2>4. DOMAIN messages = 1 .. q
    BY <2>3 DEF Run
  <2> QED BY <2>1, <2>2, <2>3, <2>4
<1>2. seen = 0 .. q - 1
  <2>1. ASSUME NEW x \in seen PROVE x \in 0 .. q - 1
    BY <1>1
  <2>2. ASSUME NEW x \in 0 .. q - 1 PROVE x \in seen
    <3>1. x + 1 \in 1 .. q /\ (x + 1) - 1 = x
      OBVIOUS
    <3> QED BY <1>1, <3>1
  <2> QED BY <2>1, <2>2
<1>3. Len(run) = n /\ \A k \in 1 .. n : run[k] = from + k - 1
  BY RunIs
<1>4. CASE run = <<>>
  <2>1. UNCHANGED <<messages, nextSeq>>
    BY <1>4 DEF appendEntries
  <2> QED BY <2>1
<1>5. CASE run # <<>>
  <2>0. n # 0
    <3> SUFFICES ASSUME n = 0 PROVE FALSE
      OBVIOUS
    <3> QED BY <1>3, <1>5 DEF Run
  <2>1. /\ messages' = messages \o Fresh(run, seen)
        /\ nextSeq' = Max({nextSeq, run[Len(run)] + 1})
    BY <1>5 DEF appendEntries
  <2>2. messages' = messages \o Run(q, b)
    BY <1>2, <2>1, FreshExtends
  <2>3. run[Len(run)] + 1 = from + n /\ from + n \in Nat
    BY <1>3, <2>0
  <2>4. nextSeq' = IF q >= from + n THEN q ELSE from + n
    BY <2>1, <2>3, MaxPair
  <2>5. b \in Nat /\ nextSeq' = q + b
    BY <2>4 DEF Beyond
  <2> HIDE DEF b, q
  <2>6. q \in Nat /\ q + b \in Nat /\ 0 \in Nat
    BY <2>5 DEF q
  <2>7. Run(q, b) \in Seq(Nat) /\ Len(Run(q, b)) = b /\ \A k \in 1 .. b : Run(q, b)[k] = q + k - 1
    BY <2>5, <2>6, RunIs
  <2>8. /\ Run(0, q + b) \in Seq(Nat) /\ Len(Run(0, q + b)) = q + b
        /\ \A k \in 1 .. q + b : Run(0, q + b)[k] = 0 + k - 1
    BY <2>6, RunIs
  <2>9. /\ messages' \in Seq(Nat) /\ Len(messages') = q + b
        /\ \A k \in 1 .. q : messages'[k] = messages[k]
        /\ \A k \in 1 .. b : messages'[q + k] = Run(q, b)[k]
    <3> DEFINE t == Run(q, b)
    <3> HIDE DEF t
    <3>1. t \in Seq(Nat) /\ Len(t) = b /\ messages' = messages \o t
      BY <2>2, <2>7 DEF t
    <3>2. /\ messages' \in Seq(Nat) /\ Len(messages') = q + b
          /\ \A k \in 1 .. q : messages'[k] = messages[k]
          /\ \A k \in 1 .. b : messages'[q + k] = t[k]
      <4>1. /\ messages \o t \in Seq(Nat)
            /\ Len(messages \o t) = q + b
            /\ \A i \in 1 .. q + b :
                   (messages \o t)[i] = IF i <= q THEN messages[i] ELSE t[i - q]
        <5>1. messages \in Seq(Nat) /\ t \in Seq(Nat) /\ Len(messages) = q /\ Len(t) = b
          BY <1>1, <3>1
        <5>2. /\ messages \o t \in Seq(Nat)
              /\ Len(messages \o t) = Len(messages) + Len(t)
              /\ \A i \in 1 .. Len(messages) + Len(t) : (messages \o t)[i] =
                     IF i <= Len(messages) THEN messages[i] ELSE t[i - Len(messages)]
          BY <5>1, ConcatProperties
        <5> QED BY <5>1, <5>2
      <4>2. \A k \in 1 .. q : k \in 1 .. q + b /\ k <= q
        BY <2>5, <2>6
      <4>3. \A k \in 1 .. b : q + k \in 1 .. q + b /\ ~ (q + k <= q) /\ (q + k) - q = k
        BY <2>5, <2>6
      <4> QED BY <3>1, <4>1, <4>2, <4>3
    <3> QED BY <3>2 DEF t
  <2>10. ASSUME NEW k \in 1 .. q + b PROVE messages'[k] = k - 1
    <3>1. CASE k \in 1 .. q
      BY <1>1, <2>9, <3>1
    <3>2. CASE k \notin 1 .. q
      <4>1. k - q \in 1 .. b /\ q + (k - q) = k /\ q + (k - q) - 1 = k - 1
        BY <2>5, <2>6, <3>2
      <4> QED BY <2>7, <2>9, <4>1
    <3> QED BY <3>1, <3>2
  <2>11. \A k \in 1 .. q + b : messages'[k] = Run(0, q + b)[k]
    BY <2>8, <2>10
  <2>12. messages' = Run(0, q + b)
    BY <2>8, <2>9, <2>11, SeqEqual
  <2> QED BY <2>5, <2>12
<1> QED BY <1>4, <1>5

\* A prefix of the log is a run from 0.
LEMMA PrefixIsRun ==
    ASSUME nextSeq \in Nat
    PROVE  ShownIsPrefix <=> (~ sent => messages = Run(0, nextSeq))
<1>1. [k \in 1 .. nextSeq |-> k - 1] = Run(0, nextSeq)
  BY DEF Run
<1> QED BY <1>1 DEF ShownIsPrefix

\* The same, after a step.
LEMMA PrefixIsRunNext ==
    ASSUME nextSeq' \in Nat
    PROVE  ShownIsPrefix' <=> (~ sent' => messages' = Run(0, nextSeq'))
<1>1. [k \in 1 .. nextSeq' |-> k - 1] = Run(0, nextSeq')
  BY DEF Run
<1> QED BY <1>1 DEF ShownIsPrefix

-----------------------------------------------------------------------------
\* A view that has just been mounted.
LEMMA InitClientInv == Init => ClientInv
<1> SUFFICES ASSUME Init PROVE ClientInv
  OBVIOUS
<1>1. len \in Nat /\ nextSeq = 0 /\ messages = <<>>
  BY BoundAssumption DEF Init
<1>2. ViewOK
  BY <1>1 DEF ViewOK
<1>3. ShownIsPrefix
  BY <1>1 DEF ShownIsPrefix
<1>4. RequestsOK
  <2>1. PICK s \in Slots :
          req = [t \in Slots |-> IF t = s THEN [Kind |-> "load", From |-> 0, Answer |-> None]
                                          ELSE None]
    BY DEF Init
  <2>2. Asked([Kind |-> "load", From |-> 0, Answer |-> None], nextSeq)
    BY <1>1 DEF Asked
  <2>3. \A t \in Slots : req[t] # None => Asked(req[t], nextSeq) /\ req[t].Answer = None
    BY <2>1, <2>2
  <2> QED BY <2>1, <2>3 DEF RequestsOK
<1> QED BY <1>1, <1>2, <1>3, <1>4 DEF ClientInv

\* A request stays as good when the log and the cursor grow.
LEMMA RequestKept ==
    ASSUME NEW r, NEW q \in Nat, NEW size \in Nat, Asked(r, q), r.Answer # None => Answers(r, size),
           NEW p \in Nat, q <= p, NEW larger \in Nat, size <= larger
    PROVE  Asked(r, p) /\ (r.Answer # None => Answers(r, larger))
<1>1. Asked(r, p) /\ r.From \in Nat
  BY DEF Asked
<1>2. ASSUME Answers(r, size) PROVE Answers(r, larger)
  <2>1. CASE r.Kind = "send"
    <3>1. r.Answer \in 0 .. size - 1
      BY <1>2, <2>1 DEF Answers
    <3>2. r.Answer \in 0 .. larger - 1
      BY <3>1
    <3> QED BY <2>1, <3>2 DEF Answers
  <2>2. CASE r.Kind # "send"
    <3>1. PICK n \in Nat : r.From + n <= size /\ r.Answer.Messages = Run(r.From, n)
      BY <1>2, <2>2 DEF Answers
    <3>2. r.From + n <= larger
      BY <1>1, <3>1
    <3> QED BY <2>2, <3>1, <3>2 DEF Answers
  <2> QED BY <2>1, <2>2
<1> QED BY <1>1, <1>2

\* Every request but the one in slot s is left alone, and that one is given up.
LEMMA FreeOK ==
    ASSUME ClientInv, NEW s \in Slots, Free(s), len' = len, nextSeq' \in Nat, nextSeq <= nextSeq'
    PROVE  RequestsOK'
<1>1. req' = [req EXCEPT ![s] = None] /\ req = [t \in Slots |-> req[t]]
  BY DEF Free, ClientInv, RequestsOK
<1>2. req' = [t \in Slots |-> req'[t]]
  BY <1>1
<1>3. ASSUME NEW t \in Slots, req'[t] # None
      PROVE  Asked(req'[t], nextSeq') /\ (req'[t].Answer # None => Answers(req'[t], len'))
  <2>1. req'[t] = req[t] /\ req[t] # None
    BY <1>1, <1>3
  <2> DEFINE r == req[t]
  <2>2. Asked(r, nextSeq) /\ (r.Answer # None => Answers(r, len))
    BY <2>1 DEF ClientInv, RequestsOK
  <2>3. nextSeq \in Nat /\ len \in Nat /\ len <= len'
    BY DEF ClientInv, ViewOK
  <2> HIDE DEF r
  <2>4. Asked(r, nextSeq') /\ (r.Answer # None => Answers(r, len'))
    BY <2>2, <2>3, RequestKept
  <2> QED BY <2>1, <2>4 DEF r
<1> QED BY <1>2, <1>3 DEF RequestsOK

\* The request in slot s is replaced by r, the log and the cursor may grow.
LEMMA PutOK ==
    ASSUME ClientInv, NEW s \in Slots, NEW r, req' = [req EXCEPT ![s] = r],
           len' \in Nat, len <= len', nextSeq' = nextSeq,
           Asked(r, nextSeq) /\ (r.Answer # None => Answers(r, len'))
    PROVE  RequestsOK'
<1>1. req = [t \in Slots |-> req[t]]
  BY DEF ClientInv, RequestsOK
<1>2. req' = [t \in Slots |-> req'[t]]
  BY <1>1
<1>3. ASSUME NEW t \in Slots, req'[t] # None
      PROVE  Asked(req'[t], nextSeq') /\ (req'[t].Answer # None => Answers(req'[t], len'))
  <2>1. CASE t = s
    BY <1>1, <2>1
  <2>2. CASE t # s
    <3>1. req'[t] = req[t] /\ req[t] # None
      BY <1>1, <1>3, <2>2
    <3> DEFINE o == req[t]
    <3>2. Asked(o, nextSeq) /\ (o.Answer # None => Answers(o, len))
      BY <3>1 DEF ClientInv, RequestsOK
    <3>3. nextSeq \in Nat /\ len \in Nat /\ nextSeq <= nextSeq
      BY DEF ClientInv, ViewOK
    <3> HIDE DEF o
    <3>4. Asked(o, nextSeq) /\ (o.Answer # None => Answers(o, len'))
      BY <3>2, <3>3, RequestKept
    <3> QED BY <3>1, <3>4 DEF o
  <2> QED BY <2>1, <2>2
<1> QED BY <1>2, <1>3 DEF RequestsOK

\* A request starts at the cursor.
LEMMA StartOK ==
    ASSUME ClientInv, NEW s \in Slots, NEW kind \in {"load", "live", "send"}, Start(s, kind),
           UNCHANGED <<len, nextSeq>>
    PROVE  RequestsOK'
<1> DEFINE r == [Kind |-> kind, From |-> nextSeq, Answer |-> None]
<1>1. req' = [req EXCEPT ![s] = r]
  BY DEF Start, Request
<1>2. r.Kind = kind /\ r.From = nextSeq /\ r.Answer = None
      /\ r = [Kind |-> r.Kind, From |-> r.From, Answer |-> r.Answer]
  OBVIOUS
<1>3. nextSeq \in 0 .. nextSeq /\ len \in Nat /\ len' \in Nat /\ len <= len' /\ nextSeq' = nextSeq
  BY DEF ClientInv, ViewOK
<1> HIDE DEF r
<1>4. Asked(r, nextSeq)
  BY <1>2, <1>3 DEF Asked
<1> QED BY <1>1, <1>2, <1>3, <1>4, PutOK

\* What a step that leaves the view alone has to keep.
LEMMA ViewKept ==
    ASSUME ClientInv, UNCHANGED <<messages, nextSeq, sent>>, len' \in Nat, len <= len', RequestsOK'
    PROVE  ClientInv'
<1>1. ViewOK' /\ nextSeq \in Nat /\ len \in Nat /\ nextSeq <= len
  BY DEF ClientInv, ViewOK
<1>2. ShownIsPrefix'
  BY DEF ClientInv, ShownIsPrefix
<1>3. nextSeq' <= len'
  BY <1>1
<1> QED BY <1>1, <1>2, <1>3 DEF ClientInv

\* The log grows while requests are under way.
LEMMA RequestsKept ==
    ASSUME ClientInv, UNCHANGED <<nextSeq, req>>, len' \in Nat, len <= len'
    PROVE  RequestsOK'
<1>1. req' = [t \in Slots |-> req'[t]]
  BY DEF ClientInv, RequestsOK
<1>2. ASSUME NEW t \in Slots, req[t] # None
      PROVE  Asked(req[t], nextSeq) /\ (req[t].Answer # None => Answers(req[t], len'))
  <2> DEFINE r == req[t]
  <2>1. Asked(r, nextSeq) /\ (r.Answer # None => Answers(r, len))
    BY <1>2 DEF ClientInv, RequestsOK
  <2>2. nextSeq \in Nat /\ len \in Nat /\ nextSeq <= nextSeq
    BY DEF ClientInv, ViewOK
  <2> HIDE DEF r
  <2>3. Asked(r, nextSeq) /\ (r.Answer # None => Answers(r, len'))
    BY <2>1, <2>2, RequestKept
  <2> QED BY <2>3 DEF r
<1> QED BY <1>1, <1>2 DEF RequestsOK

-----------------------------------------------------------------------------
\* An append makes the log one longer.
LEMMA GrowOK ==
    ASSUME ClientInv, Grow
    PROVE  len \in Nat /\ len' = len + 1 /\ len' \in Nat /\ len <= len'
BY DEF Grow, ClientInv

\* A page is a run of the log from where the request starts.
LEMMA ServeHistoryOK ==
    ASSUME ClientInv, NEW s \in Slots, ServeHistory(s)
    PROVE  ClientInv'
<1> DEFINE o == req[s]
           page == Page(o.From)
           r == [o EXCEPT !.Answer = page]
           last == IF len < o.From + PageSize THEN len ELSE o.From + PageSize
           n == last - o.From
<1>1. /\ UNCHANGED <<len, messages, nextSeq, sent>>
      /\ req' = [req EXCEPT ![s].Answer = page]
      /\ o # None /\ o.Kind \in {"load", "live"}
  BY DEF ServeHistory, Answering, view
<1>2. Asked(o, nextSeq) /\ len \in Nat /\ nextSeq \in Nat /\ nextSeq <= len /\ len' \in Nat /\ len <= len'
      /\ len' = len
  BY <1>1 DEF ClientInv, RequestsOK, ViewOK
<1>3. req' = [req EXCEPT ![s] = r]
  BY <1>1
<1>4. o.From \in Nat /\ o.From <= len /\ PageSize \in Nat
  BY <1>2, PageAssumption DEF Asked
<1>5. n \in Nat /\ o.From + n <= len
  BY <1>2, <1>4
<1>6. page.Messages = Run(o.From, n)
  BY DEF Page, Run
<1>7. o = [Kind |-> o.Kind, From |-> o.From, Answer |-> o.Answer] /\ o.From \in 0 .. nextSeq
  BY <1>2 DEF Asked
<1> HIDE DEF o, page, n
<1>8. r = [Kind |-> o.Kind, From |-> o.From, Answer |-> page]
  BY <1>7
<1> HIDE DEF r
<1>9. r.Kind = o.Kind /\ r.From = o.From /\ r.Answer = page
      /\ r = [Kind |-> r.Kind, From |-> r.From, Answer |-> r.Answer]
  BY <1>8
<1>10. Asked(r, nextSeq)
  BY <1>1, <1>7, <1>9 DEF Asked
<1>11. Answers(r, len)
  BY <1>1, <1>5, <1>6, <1>9 DEF Answers
<1>12. RequestsOK'
  BY <1>1, <1>2, <1>3, <1>10, <1>11, PutOK
<1> QED BY <1>1, <1>2, <1>12, ViewKept

\* A send is answered with its position, which is then in the log.
LEMMA ServeSendOK ==
    ASSUME ClientInv, NEW s \in Slots, ServeSend(s)
    PROVE  ClientInv'
<1> DEFINE o == req[s]
           r == [o EXCEPT !.Answer = len]
<1>1. /\ UNCHANGED <<messages, nextSeq, sent>>
      /\ req' = [req EXCEPT ![s].Answer = len] /\ Grow
      /\ o # None /\ o.Kind = "send"
  BY DEF ServeSend, Answering, view
<1>2. Asked(o, nextSeq)
  BY <1>1 DEF ClientInv, RequestsOK
<1>3. len \in Nat /\ len' = len + 1 /\ len' \in Nat /\ len <= len'
  BY <1>1, GrowOK
<1>4. req' = [req EXCEPT ![s] = r]
  BY <1>1
<1>5. o = [Kind |-> o.Kind, From |-> o.From, Answer |-> o.Answer] /\ o.From \in 0 .. nextSeq
  BY <1>2 DEF Asked
<1> HIDE DEF o
<1>6. r = [Kind |-> o.Kind, From |-> o.From, Answer |-> len]
  BY <1>5
<1> HIDE DEF r
<1>7. r.Kind = o.Kind /\ r.From = o.From /\ r.Answer = len
      /\ r = [Kind |-> r.Kind, From |-> r.From, Answer |-> r.Answer]
  BY <1>6
<1>8. Asked(r, nextSeq)
  BY <1>1, <1>5, <1>7 DEF Asked
<1>9. len \in 0 .. len' - 1
  BY <1>3
<1>10. Answers(r, len')
  BY <1>1, <1>7, <1>9 DEF Answers
<1>11. RequestsOK'
  BY <1>1, <1>3, <1>4, <1>8, <1>10, PutOK
<1> QED BY <1>1, <1>3, <1>11, ViewKept

\* An answer of the history is appended to the view.
LEMMA PageOK ==
    ASSUME ClientInv, NEW s \in Slots, req[s] # None, req[s].Kind \in {"load", "live"},
           req[s].Answer # None, appendEntries(req[s].Answer.Messages), Free(s),
           UNCHANGED <<len, sent>>
    PROVE  ClientInv'
<1> DEFINE from == req[s].From
<1>1. Asked(req[s], nextSeq) /\ Answers(req[s], len)
  BY DEF ClientInv, RequestsOK
<1>2. /\ len \in Nat /\ nextSeq \in Nat /\ nextSeq <= len /\ ViewOK
      /\ ~ sent => messages = Run(0, nextSeq)
  BY PrefixIsRun DEF ClientInv, ViewOK
<1>3. from \in 0 .. nextSeq /\ from \in Nat
  BY <1>1, <1>2 DEF Asked
<1>4. PICK n \in Nat : from + n <= len /\ req[s].Answer.Messages = Run(from, n)
  BY <1>1 DEF Answers
<1>5. appendEntries(Run(from, n))
  BY <1>4
<1> HIDE DEF from
<1>6. ViewOK' /\ nextSeq <= nextSeq' /\ nextSeq' <= len
  BY <1>2, <1>3, <1>4, <1>5, AppendRun
<1>7. nextSeq' \in Nat
  BY <1>6 DEF ViewOK
<1>8. ~ sent => messages' = Run(0, nextSeq')
  BY <1>2, <1>3, <1>5, AppendExtends
<1>9. ShownIsPrefix'
  BY <1>7, <1>8, PrefixIsRunNext
<1>10. RequestsOK'
  BY <1>6, <1>7, FreeOK
<1> QED BY <1>2, <1>6, <1>9, <1>10 DEF ClientInv

\* The view shows the entry it has sent.
LEMMA SendDoneOK ==
    ASSUME ClientInv, NEW s \in Slots, SendDone(s)
    PROVE  ClientInv'
<1> DEFINE e == req[s].Answer
<1>1. /\ req[s] # None /\ req[s].Kind = "send" /\ e # None /\ appendEntries(<<e>>)
      /\ sent' = TRUE /\ Free(s) /\ len' = len
  BY DEF SendDone, Answered
<1>2. e \in 0 .. len - 1
  BY <1>1 DEF ClientInv, RequestsOK, Answers
<1>3. len \in Nat /\ nextSeq \in Nat /\ nextSeq <= len /\ ViewOK
  BY DEF ClientInv, ViewOK
<1> HIDE DEF e
<1>4. e \in Nat /\ e + 1 <= len /\ 1 \in Nat
  BY <1>2, <1>3
<1>5. <<e>> = Run(e, 1)
  <2>1. /\ Run(e, 1) \in Seq(Nat) /\ Len(Run(e, 1)) = 1
        /\ \A k \in 1 .. 1 : Run(e, 1)[k] = e + k - 1
    BY <1>4, RunIs
  <2>2. <<e>> \in Seq(Nat) /\ Len(<<e>>) = 1 /\ <<e>>[1] = e
    BY <1>4
  <2>3. \A k \in 1 .. 1 : <<e>>[k] = Run(e, 1)[k]
    BY <1>4, <2>1, <2>2
  <2> QED BY <2>1, <2>2, <2>3, SeqEqual
<1>6. ViewOK' /\ nextSeq <= nextSeq' /\ nextSeq' <= len
  BY <1>1, <1>3, <1>4, <1>5, AppendRun
<1>7. nextSeq' \in Nat
  BY <1>6 DEF ViewOK
<1>8. ShownIsPrefix'
  BY <1>1 DEF ShownIsPrefix
<1>9. RequestsOK'
  BY <1>1, <1>6, <1>7, FreeOK
<1> QED BY <1>1, <1>3, <1>6, <1>8, <1>9 DEF ClientInv

-----------------------------------------------------------------------------
\* Every step keeps the invariant.
LEMMA NextClientInv == ClientInv /\ [Next]_vars => ClientInv'
<1> SUFFICES ASSUME ClientInv, [Next]_vars PROVE ClientInv'
  OBVIOUS
<1>0. len \in Nat /\ nextSeq \in Nat /\ len <= len /\ nextSeq <= nextSeq
  BY DEF ClientInv, ViewOK
<1>1. CASE OtherAppends
  <2>1. Grow /\ UNCHANGED <<messages, nextSeq, sent, req>>
    BY <1>1 DEF OtherAppends, view
  <2> QED BY <2>1, GrowOK, RequestsKept, ViewKept
<1>2. CASE Connect \/ StreamFails \/ UNCHANGED vars
  <2>1. UNCHANGED <<len, messages, nextSeq, sent, req>>
    BY <1>2 DEF Connect, StreamFails, vars
  <2> QED BY <1>0, <2>1, RequestsKept, ViewKept
<1>3. ASSUME NEW s \in Slots, ServeHistory(s) \/ ServeSend(s) PROVE ClientInv'
  BY <1>3, ServeHistoryOK, ServeSendOK
<1>4. ASSUME NEW s \in Slots, LoadMore(s) \/ OnEvent(s) \/ Send(s) PROVE ClientInv'
  <2>1. UNCHANGED <<len, messages, nextSeq, sent>>
    BY <1>4 DEF LoadMore, OnEvent, Send, view
  <2>2. \E kind \in {"load", "live", "send"} : Start(s, kind)
    BY <1>4 DEF LoadMore, OnEvent, Send
  <2>3. RequestsOK'
    BY <2>1, <2>2, StartOK
  <2> QED BY <1>0, <2>1, <2>3, ViewKept
<1>5. ASSUME NEW s \in Slots, Free(s), UNCHANGED <<len, messages, nextSeq, sent>> PROVE ClientInv'
  <2>1. RequestsOK'
    BY <1>0, <1>5, FreeOK
  <2> QED BY <1>0, <1>5, <2>1, ViewKept
<1>6. ASSUME NEW s \in Slots, PageLoaded(s) PROVE ClientInv'
  <2>1. /\ req[s] # None /\ req[s].Kind = "load" /\ req[s].Answer # None /\ Free(s)
        /\ UNCHANGED <<len, sent>>
        /\ UNCHANGED <<messages, nextSeq>> \/ appendEntries(req[s].Answer.Messages)
    BY <1>6 DEF PageLoaded, Answered
  <2> QED BY <1>5, <2>1, PageOK
<1>7. ASSUME NEW s \in Slots, PageLive(s) PROVE ClientInv'
  <2>1. /\ req[s] # None /\ req[s].Kind = "live" /\ req[s].Answer # None /\ Free(s)
        /\ UNCHANGED <<len, sent>>
        /\ UNCHANGED <<messages, nextSeq>> \/ appendEntries(req[s].Answer.Messages)
    BY <1>7 DEF PageLive, Answered
  <2> QED BY <1>5, <2>1, PageOK
<1>8. ASSUME NEW s \in Slots, RequestFails(s) PROVE ClientInv'
  BY <1>5, <1>8 DEF RequestFails
<1> QED BY <1>1, <1>2, <1>3, <1>4, <1>6, <1>7, <1>8, SendDoneOK DEF Next

\* The invariant holds.
LEMMA ClientInvHolds == Spec => []ClientInv
<1>1. Init => ClientInv
  BY InitClientInv
<1>2. ClientInv /\ [Next]_vars => ClientInv'
  BY NextClientInv
<1> QED BY <1>1, <1>2, PTL DEF Spec

(***************************************************************************)
(* No entry is shown twice, whatever the order in which the answers of     *)
(* overlapping fetches and sends arrive (useChat.ts appendEntries).        *)
(***************************************************************************)
THEOREM NoDuplicatesHolds == Spec => []NoDuplicates
<1>1. ClientInv => NoDuplicates
  BY DEF ClientInv, ViewOK, NoDuplicates
<1> QED BY <1>1, ClientInvHolds, PTL

(***************************************************************************)
(* The cursor stays one past the newest entry shown and never runs ahead   *)
(* of the log (useChat.ts nextSeqRef).                                     *)
(***************************************************************************)
THEOREM CursorHolds == Spec => []CursorAtNewest
<1>1. ClientInv => CursorAtNewest
  <2> SUFFICES ASSUME ClientInv PROVE CursorAtNewest
    OBVIOUS
  <2> DEFINE S == {messages[k] : k \in DOMAIN messages}
             N == Len(messages)
  <2>1. /\ N \in Nat /\ DOMAIN messages = 1 .. N /\ nextSeq \in Nat /\ nextSeq <= len
        /\ \A k \in 1 .. N : messages[k] \in Nat /\ messages[k] < nextSeq
        /\ nextSeq # 0 => \E k \in 1 .. N : messages[k] + 1 = nextSeq
    BY DEF ClientInv, ViewOK
  <2>2. CASE messages = <<>>
    <3>1. nextSeq = 0
      BY <2>1, <2>2
    <3> QED BY <2>1, <2>2, <3>1 DEF CursorAtNewest
  <2>3. CASE messages # <<>>
    <3>0. N # 0
      BY <2>3 DEF ClientInv, ViewOK
    <3>1. nextSeq # 0
      <4>1. 1 \in 1 .. N
        BY <2>1, <3>0
      <4> QED BY <2>1, <4>1
    <3>2. PICK k \in 1 .. N : messages[k] + 1 = nextSeq
      BY <2>1, <3>1
    <3> DEFINE m == messages[k]
    <3>3. m \in S /\ \A y \in S : m >= y
      BY <2>1, <3>2
    <3>4. \A x \in S : (\A y \in S : x >= y) => x = m
      <4>1. S \subseteq Nat
        BY <2>1
      <4> HIDE DEF S, m
      <4> QED BY <3>3, <4>1
    <3>5. Max(S) = CHOOSE x \in S : \A y \in S : x >= y
      BY DEF Max
    <3>6. Max(S) = m
      <4> HIDE DEF S, m
      <4> QED BY <3>3, <3>4, <3>5
    <3> QED BY <2>1, <2>3, <3>2, <3>6 DEF CursorAtNewest
  <2> QED BY <2>2, <2>3
<1> QED BY <1>1, ClientInvHolds, PTL

(***************************************************************************)
(* Until it shows an entry of its own, a view shows a prefix of the log,   *)
(* in order: failed, repeated and reordered fetches leave no hole          *)
(* (useChat.ts loadMore and the stream effect).                            *)
(***************************************************************************)
THEOREM PrefixHolds == Spec => []ShownIsPrefix
<1>1. ClientInv => ShownIsPrefix
  BY DEF ClientInv
<1> QED BY <1>1, ClientInvHolds, PTL
=============================================================================
