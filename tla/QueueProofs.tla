----------------------------- MODULE QueueProofs -----------------------------
(***************************************************************************)
(* Proofs about Queue, for any finite set of addresses: the linked list is *)
(* well formed, uses no freed entry, and is a FIFO queue.                  *)
(***************************************************************************)
EXTENDS Queue, FiniteSetTheorems, SequenceTheorems, TLAPS

(***************************************************************************)
(* The pointers h and nx lead through the entries of s, once each, and end *)
(* there.                                                                  *)
(***************************************************************************)
Chain(s, h, nx) ==
    /\ s \in Seq(Entry)
    /\ \A i, j \in 1 .. Len(s) : s[i] = s[j] => i = j
    /\ h = IF Len(s) = 0 THEN NULL ELSE s[1]
    /\ \A i \in 1 .. Len(s) :
          nx[s[i]] = IF i = Len(s) THEN NULL ELSE s[i + 1]

-----------------------------------------------------------------------------
(* Following the pointers of a list.                                       *)

\* Induction over the numbers up to n: a set that holds 0 and each successor
\* of its numbers holds them all.  If k were missing, taking the successor
\* would map the numbers of the set below k into those that are not 0, and
\* there is one less of these.
LEMMA IntervalInduction ==
    ASSUME NEW n \in Nat, NEW S, 0 \in S,
           \A i \in 0 .. n - 1 : i \in S => i + 1 \in S
    PROVE  0 .. n \subseteq S
<1> SUFFICES ASSUME NEW k \in 0 .. n, k \notin S
             PROVE  FALSE
  OBVIOUS
<1> DEFINE A == {i \in 0 .. k : i \in S}
           B == A \ {0}
           f == [i \in A |-> i + 1]
<1>1. IsFiniteSet(A)
  <2>1. IsFiniteSet(0 .. k)
    BY FS_Interval
  <2> QED
    BY <2>1, FS_Subset
<1>2. 0 \in A
  OBVIOUS
<1>3. IsFiniteSet(B) /\ Cardinality(B) = Cardinality(A) - 1
  BY <1>1, <1>2, FS_RemoveElement
<1>4. Cardinality(A) \in Nat
  BY <1>1, FS_CardinalityType
<1>5. f \in [A -> B]
  <2> SUFFICES ASSUME NEW i \in A
               PROVE  i + 1 \in B
    OBVIOUS
  <2>1. i \in 0 .. k /\ i \in S /\ i # k
    OBVIOUS
  <2>2. i \in 0 .. n - 1 /\ i + 1 \in 0 .. k /\ i + 1 # 0
    BY <2>1
  <2> QED
    BY <2>1, <2>2
<1>6. PICK x \in A, y \in A : x # y /\ f[x] = f[y]
  <2>1. Cardinality(B) < Cardinality(A)
    BY <1>3, <1>4
  <2> HIDE DEF A, B, f
  <2> QED
    BY <1>1, <1>3, <1>5, <2>1, FS_PigeonHole
<1>7. x + 1 = y + 1 /\ x \in Int /\ y \in Int
  BY <1>6
<1> QED
  BY <1>6, <1>7

\* A list is not longer than there are addresses.
LEMMA ChainLength ==
    ASSUME NEW s, NEW h, NEW nx, Chain(s, h, nx)
    PROVE  /\ Cardinality(Entry) \in Nat
           /\ Len(s) \in 0 .. Cardinality(Entry)
<1>1. s \in Seq(Entry) /\ Len(s) \in Nat
      /\ \A i, j \in 1 .. Len(s) : s[i] = s[j] => i = j
  BY LenProperties DEF Chain
<1>2. IsFiniteSet(Entry) /\ Cardinality(Entry) \in Nat
  BY QueueAssumption, FS_CardinalityType DEF QueueAssumption
<1>3. IsFiniteSet(1 .. Len(s)) /\ Cardinality(1 .. Len(s)) = Len(s)
  <2> DEFINE n == Len(s)
  <2>1. n \in Nat /\ n \in Int /\ 1 \in Int
    BY <1>1
  <2> HIDE DEF n
  <2>2. IsFiniteSet(1 .. n)
        /\ Cardinality(1 .. n) = IF 1 > n THEN 0 ELSE n - 1 + 1
    BY <2>1, FS_Interval
  <2>3. Cardinality(1 .. n) = n
    BY <2>1, <2>2
  <2> QED
    BY <2>2, <2>3 DEF n
<1>4. s \in [1 .. Len(s) -> Entry]
  BY <1>1, LenProperties
<1>5. ~ Cardinality(Entry) < Len(s)
  <2> SUFFICES ASSUME Cardinality(Entry) < Len(s)
               PROVE  FALSE
    OBVIOUS
  <2>1. \E x, y \in 1 .. Len(s) : x # y /\ s[x] = s[y]
    BY <1>2, <1>3, <1>4, FS_PigeonHole
  <2> QED
    BY <1>1, <2>1
<1> QED
  BY <1>1, <1>2, <1>5

\* The n-th pointer is the n-th entry, and NULL from the end on.
LEMMA LinkFollowsChain ==
    ASSUME NEW s, Chain(s, head, next)
    PROVE  \A n \in Nat : Link[n] = IF n < Len(s) THEN s[n + 1] ELSE NULL
<1> DEFINE f == [n \in Nat |-> IF n < Len(s) THEN s[n + 1] ELSE NULL]
<1>1. s \in Seq(Entry) /\ Len(s) \in Nat
  BY LenProperties DEF Chain
<1>2. \A n \in Nat : n < Len(s) => s[n + 1] \in Entry /\ s[n + 1] # NULL
  BY <1>1, QueueAssumption DEF QueueAssumption
<1>3. f = [n \in Nat |-> IF n = 0 THEN head
                         ELSE IF f[n - 1] = NULL THEN NULL
                         ELSE next[f[n - 1]]]
  <2> SUFFICES ASSUME NEW n \in Nat
               PROVE  f[n] = IF n = 0 THEN head
                             ELSE IF f[n - 1] = NULL THEN NULL
                             ELSE next[f[n - 1]]
    OBVIOUS
  <2>1. CASE n = 0
    BY <1>1, <2>1 DEF Chain
  <2>2. CASE n # 0 /\ n - 1 < Len(s)
    <3>1. f[n - 1] = s[n] /\ n \in 1 .. Len(s) /\ n - 1 \in Nat
      BY <1>1, <2>2
    <3>2. f[n - 1] # NULL
      BY <1>2, <2>2, <3>1
    <3>3. next[s[n]] = IF n = Len(s) THEN NULL ELSE s[n + 1]
      BY <3>1 DEF Chain
    <3>4. n < Len(s) <=> n # Len(s)
      BY <1>1, <3>1
    <3> QED
      BY <2>2, <3>1, <3>2, <3>3, <3>4
  <2>3. CASE n # 0 /\ ~(n - 1 < Len(s))
    <3>1. n - 1 \in Nat /\ ~(n < Len(s))
      BY <1>1, <2>3
    <3>2. f[n - 1] = NULL /\ f[n] = NULL
      BY <2>3, <3>1
    <3> QED
      BY <2>3, <3>2
  <2> QED
    BY <2>1, <2>2, <2>3
<1> HIDE DEF f
<1>4. Link = [n \in Nat |-> IF n = 0 THEN head
                            ELSE IF Link[n - 1] = NULL THEN NULL
                            ELSE next[Link[n - 1]]]
  BY <1>3 DEF Link
<1>5. ASSUME NEW n \in Nat
      PROVE  Link[n] = f[n]
  <2> DEFINE S == {i \in Nat : Link[i] = f[i]}
  <2>1. 0 \in S
    BY <1>3, <1>4
  <2>2. ASSUME NEW i \in 0 .. n - 1, i \in S
        PROVE  i + 1 \in S
    <3>1. i + 1 \in Nat /\ i + 1 # 0 /\ (i + 1) - 1 = i
      OBVIOUS
    <3>2. /\ Link[i + 1] = IF Link[i] = NULL THEN NULL ELSE next[Link[i]]
          /\ f[i + 1] = IF f[i] = NULL THEN NULL ELSE next[f[i]]
      BY <1>3, <1>4, <3>1
    <3> QED
      BY <2>2, <3>1, <3>2
  <2> HIDE DEF S
  <2>3. 0 .. n \subseteq S
    BY <2>1, <2>2, IntervalInduction
  <2> QED
    BY <2>3 DEF S
<1> QED
  BY <1>5 DEF f

\* Contents is the sequence that the pointers lead through.
LEMMA ContentsOfChain ==
    ASSUME NEW s, Chain(s, head, next)
    PROVE  Acyclic /\ Contents = s
<1>1. s \in Seq(Entry) /\ Len(s) \in Nat /\ Cardinality(Entry) \in Nat
      /\ Len(s) <= Cardinality(Entry)
  BY ChainLength DEF Chain
<1>2. \A n \in Nat : Link[n] = IF n < Len(s) THEN s[n + 1] ELSE NULL
  BY LinkFollowsChain
<1>3. \A n \in Nat : n < Len(s) => s[n + 1] # NULL
  BY <1>1, QueueAssumption DEF QueueAssumption
<1>4. Acyclic
  BY <1>1, <1>2 DEF Acyclic
<1>5. Length = Len(s)
  <2>1. {n \in 0 .. Cardinality(Entry) - 1 : Link[n] # NULL}
          = 0 .. Len(s) - 1
    BY <1>1, <1>2, <1>3
  <2>2. Cardinality(0 .. Len(s) - 1) = Len(s)
    <3> DEFINE n == Len(s) - 1
    <3>1. n \in Int /\ 0 \in Int /\ n + 1 = Len(s) /\ n + 1 \in Nat
      BY <1>1
    <3> HIDE DEF n
    <3>2. Cardinality(0 .. n) = IF 0 > n THEN 0 ELSE n - 0 + 1
      BY <3>1, FS_Interval
    <3>3. Cardinality(0 .. n) = n + 1
      BY <3>1, <3>2
    <3> QED
      BY <3>1, <3>3 DEF n
  <2> QED
    BY <2>1, <2>2 DEF Length
<1>6. Contents = [i \in 1 .. Len(s) |-> s[i]]
  <2>1. \A i \in 1 .. Len(s) : Link[i - 1] = s[i]
    <3> SUFFICES ASSUME NEW i \in 1 .. Len(s)
                 PROVE  Link[i - 1] = s[i]
      OBVIOUS
    <3>1. i - 1 \in Nat /\ i - 1 < Len(s) /\ (i - 1) + 1 = i
      BY <1>1
    <3> QED
      BY <1>2, <3>1
  <2> QED
    BY <1>5, <2>1 DEF Contents
<1>7. s = [i \in 1 .. Len(s) |-> s[i]]
  BY <1>1, LenProperties
<1> QED
  BY <1>4, <1>6, <1>7

-----------------------------------------------------------------------------
(* What storing a pointer does to a list.                                  *)

LEMMA ChainEntries ==
    ASSUME NEW s, NEW h, NEW nx, Chain(s, h, nx)
    PROVE  /\ s \in Seq(Entry) /\ Len(s) \in Nat /\ DOMAIN s = 1 .. Len(s)
           /\ Range(s) = {s[i] : i \in 1 .. Len(s)}
           /\ Range(s) \subseteq Entry /\ NULL \notin Range(s)
           /\ h = NULL <=> Len(s) = 0
           /\ Len(s) = 0 <=> s = <<>>
<1>1. s \in Seq(Entry) /\ Len(s) \in Nat /\ DOMAIN s = 1 .. Len(s)
  BY LenProperties DEF Chain
<1>2. Range(s) = {s[i] : i \in 1 .. Len(s)}
  BY <1>1 DEF Range
<1>3. \A i \in 1 .. Len(s) : s[i] \in Entry /\ s[i] # NULL
  BY <1>1, QueueAssumption DEF QueueAssumption
<1>4. Len(s) = 0 <=> s = <<>>
  BY <1>1, EmptySeq
<1>5. h = IF Len(s) = 0 THEN NULL ELSE s[1]
  BY DEF Chain
<1>6. Len(s) # 0 => 1 \in 1 .. Len(s)
  BY <1>1
<1> QED
  BY <1>1, <1>2, <1>3, <1>4, <1>5, <1>6

\* A pointer of an entry that is not in the list changes nothing.
LEMMA ChainFrame ==
    ASSUME NEW s, NEW h, NEW nx \in [Entry -> Pointer], Chain(s, h, nx),
           NEW q \in Entry, q \notin Range(s), NEW v
    PROVE  Chain(s, h, [nx EXCEPT ![q] = v])
<1>1. /\ s \in Seq(Entry) /\ Len(s) \in Nat
      /\ Range(s) = {s[i] : i \in 1 .. Len(s)}
  BY ChainEntries
<1>2. \A i \in 1 .. Len(s) : s[i] \in Entry /\ s[i] # q
  BY <1>1
<1>3. \A i \in 1 .. Len(s) : [nx EXCEPT ![q] = v][s[i]] = nx[s[i]]
  BY <1>2
<1> QED
  BY <1>3 DEF Chain

\* Nor does a pointer that is stored again.
LEMMA ChainSameStore ==
    ASSUME NEW nx \in [Entry -> Pointer], NEW q \in Entry, nx[q] = NULL
    PROVE  [nx EXCEPT ![q] = NULL] = nx
  OBVIOUS

\* An entry becomes the whole of an empty list.
LEMMA ChainOfOne ==
    ASSUME NEW nx, NEW q \in Entry, nx[q] = NULL
    PROVE  Chain(<<q>>, q, nx) /\ Range(<<q>>) = {q}
<1>1. /\ <<q>> \in Seq(Entry) /\ Len(<<q>>) = 1 /\ <<q>>[1] = q
      /\ DOMAIN <<q>> = 1 .. 1
  OBVIOUS
<1> QED
  BY <1>1 DEF Chain, Range

\* The last entry's pointer to a new entry puts that one at the end.
LEMMA ChainAppend ==
    ASSUME NEW s, NEW h, NEW nx \in [Entry -> Pointer], Chain(s, h, nx),
           Len(s) # 0, NEW q \in Entry, q \notin Range(s), nx[q] = NULL
    PROVE  /\ Chain(Append(s, q), h, [nx EXCEPT ![s[Len(s)]] = q])
           /\ Range(Append(s, q)) = Range(s) \cup {q}
           /\ Len(Append(s, q)) = Len(s) + 1
           /\ Append(s, q)[Len(s) + 1] = q
           /\ Append(s, q)[Len(s)] = s[Len(s)]
<1> DEFINE t == Append(s, q)
           n == Len(s)
           ny == [nx EXCEPT ![s[n]] = q]
<1>1. /\ s \in Seq(Entry) /\ n \in Nat /\ DOMAIN s = 1 .. n
      /\ Range(s) = {s[i] : i \in 1 .. n}
  BY ChainEntries
<1>2. /\ t \in Seq(Entry) /\ Len(t) = n + 1
      /\ \A i \in 1 .. n : t[i] = s[i]
      /\ t[n + 1] = q
  BY <1>1, AppendProperties
<1>3. DOMAIN t = 1 .. n + 1
  BY <1>2, LenProperties
<1>4. /\ \A i, j \in 1 .. n : s[i] = s[j] => i = j
      /\ h = IF n = 0 THEN NULL ELSE s[1]
      /\ \A i \in 1 .. n : nx[s[i]] = IF i = n THEN NULL ELSE s[i + 1]
  BY DEF Chain
<1>5. /\ n \in 1 .. n /\ n # 0
      /\ \A i \in 1 .. n : s[i] \in Entry /\ s[i] # q
      /\ \A i \in 1 .. n + 1 : i \in 1 .. n \/ i = n + 1
      /\ 1 \in 1 .. n
      /\ \A i \in 1 .. n : i + 1 \in 1 .. n + 1 /\ i # n + 1
                           /\ (i # n => i + 1 \in 1 .. n)
  <2>1. n # 0
    OBVIOUS
  <2>2. \A i \in 1 .. n : s[i] \in Entry /\ s[i] # q
    BY <1>1
  <2> HIDE DEF t, n
  <2>3. n \in 1 .. n /\ 1 \in 1 .. n
    BY <1>1, <2>1
  <2>4. \A i \in 1 .. n : i + 1 \in 1 .. n + 1 /\ i # n + 1
                         /\ (i # n => i + 1 \in 1 .. n)
    BY <1>1
  <2>5. \A i \in 1 .. n + 1 : i \in 1 .. n \/ i = n + 1
    BY <1>1
  <2> QED
    BY <2>1, <2>2, <2>3, <2>4, <2>5
<1> HIDE DEF t, n
<1>6. Range(t) = Range(s) \cup {q}
  BY <1>1, <1>2, <1>3, <1>5 DEF Range
<1>7. \A i, j \in 1 .. n + 1 : t[i] = t[j] => i = j
  BY <1>2, <1>4, <1>5
<1>8. ny[q] = NULL /\ ny[s[n]] = q
      /\ \A i \in 1 .. n : i # n => ny[s[i]] = nx[s[i]]
  BY <1>4, <1>5
<1>9. \A i \in 1 .. n + 1 : ny[t[i]] = IF i = n + 1 THEN NULL ELSE t[i + 1]
  <2> SUFFICES ASSUME NEW i \in 1 .. n + 1
               PROVE  ny[t[i]] = IF i = n + 1 THEN NULL ELSE t[i + 1]
    OBVIOUS
  <2>1. CASE i = n + 1
    BY <1>2, <1>8, <2>1
  <2>2. CASE i \in 1 .. n /\ i = n
    BY <1>2, <1>5, <1>8, <2>2
  <2>3. CASE i \in 1 .. n /\ i # n
    BY <1>2, <1>4, <1>5, <1>8, <2>3
  <2> QED
    BY <1>5, <2>1, <2>2, <2>3
<1>10. n + 1 # 0 /\ t[1] = s[1]
  BY <1>1, <1>2, <1>5
<1>11. Chain(t, h, ny)
  BY <1>2, <1>4, <1>5, <1>7, <1>9, <1>10 DEF Chain
<1> QED
  BY <1>2, <1>5, <1>6, <1>11 DEF t, n

\* Moving the head on takes the first entry out.
LEMMA ChainTail ==
    ASSUME NEW s, NEW h, NEW nx, Chain(s, h, nx), Len(s) # 0
    PROVE  /\ Chain(Tail(s), nx[h], nx)
           /\ Range(Tail(s)) = Range(s) \ {h}
           /\ h = s[1] /\ h = Head(s)
           /\ Tail(s) = RemoveAt(s, 1)
           /\ Len(Tail(s)) = Len(s) - 1
           /\ Len(s) # 1 => Tail(s)[Len(s) - 1] = s[Len(s)]
<1> DEFINE t == Tail(s)
           n == Len(s)
<1>1. /\ s \in Seq(Entry) /\ n \in Nat /\ DOMAIN s = 1 .. n
      /\ Range(s) = {s[i] : i \in 1 .. n} /\ s # <<>>
  BY ChainEntries
<1>2. /\ t \in Seq(Entry) /\ Len(t) = n - 1
      /\ \A i \in 1 .. n - 1 : t[i] = s[i + 1]
  BY <1>1, HeadTailProperties
<1>3. DOMAIN t = 1 .. n - 1
  BY <1>2, LenProperties
<1>4. /\ \A i, j \in 1 .. n : s[i] = s[j] => i = j
      /\ h = IF n = 0 THEN NULL ELSE s[1]
      /\ \A i \in 1 .. n : nx[s[i]] = IF i = n THEN NULL ELSE s[i + 1]
  BY DEF Chain
<1>5. /\ n # 0 /\ 1 \in 1 .. n
      /\ \A i \in 1 .. n - 1 : i + 1 \in 1 .. n /\ i + 1 # 1
                               /\ (i = n - 1 <=> i + 1 = n)
                               /\ (i # n - 1 => i + 1 \in 1 .. n - 1)
      /\ \A i \in 1 .. n : i # 1 => i - 1 \in 1 .. n - 1 /\ (i - 1) + 1 = i
      /\ n - 1 = 0 <=> n = 1
      /\ n # 1 => n - 1 \in 1 .. n - 1 /\ 1 \in 1 .. n - 1
      /\ (n - 1) + 1 = n /\ 1 + 1 = 2
      /\ \A i, j \in 1 .. n - 1 : i + 1 = j + 1 => i = j
  <2>1. n # 0
    OBVIOUS
  <2> HIDE DEF t, n
  <2>2. /\ n # 0 /\ 1 \in 1 .. n
        /\ n - 1 = 0 <=> n = 1
        /\ n # 1 => n - 1 \in 1 .. n - 1 /\ 1 \in 1 .. n - 1
        /\ (n - 1) + 1 = n /\ 1 + 1 = 2
    BY <1>1, <2>1
  <2>3. \A i \in 1 .. n - 1 : i + 1 \in 1 .. n /\ i + 1 # 1
                             /\ (i = n - 1 <=> i + 1 = n)
                             /\ (i # n - 1 => i + 1 \in 1 .. n - 1)
    BY <1>1
  <2>4. \A i \in 1 .. n : i # 1 => i - 1 \in 1 .. n - 1 /\ (i - 1) + 1 = i
    BY <1>1
  <2>5. \A i, j \in 1 .. n - 1 : i + 1 = j + 1 => i = j
    BY <1>1
  <2> QED
    BY <2>2, <2>3, <2>4, <2>5
<1> HIDE DEF t, n
<1>6. Range(t) = Range(s) \ {h}
  <2>1. Range(t) = {t[i] : i \in 1 .. n - 1}
    BY <1>3 DEF Range
  <2>2. \A i \in 1 .. n : i # 1 => s[i] # s[1]
    BY <1>4, <1>5
  <2>3. \A i \in 1 .. n : i # 1 => s[i] = t[i - 1]
    BY <1>2, <1>5
  <2>4. Range(t) \subseteq Range(s) \ {h}
    BY <1>1, <1>2, <1>4, <1>5, <2>1, <2>2
  <2>5. Range(s) \ {h} \subseteq Range(t)
    BY <1>1, <1>4, <1>5, <2>1, <2>3
  <2> QED
    BY <2>4, <2>5
<1>7. \A i, j \in 1 .. n - 1 : t[i] = t[j] => i = j
  BY <1>2, <1>4, <1>5
<1>8. nx[h] = IF n - 1 = 0 THEN NULL ELSE t[1]
  BY <1>2, <1>4, <1>5
<1>9. \A i \in 1 .. n - 1 : nx[t[i]] = IF i = n - 1 THEN NULL ELSE t[i + 1]
  BY <1>2, <1>4, <1>5
<1>10. Chain(t, nx[h], nx)
  BY <1>2, <1>7, <1>8, <1>9 DEF Chain
<1>11. h = Head(s)
  BY <1>1, <1>4, <1>5
<1>12. t = RemoveAt(s, 1)
  <2>1. 1 - 1 = 0 /\ 1 + 1 = 2
    OBVIOUS
  <2>2. SubSeq(s, 1, 0) = <<>>
    BY SubSeqEmpty
  <2>3. t = SubSeq(s, 2, Len(s))
    BY <1>1, TailIsSubSeq DEF t
  <2>4. <<>> \o t = t
    BY <1>2, ConcatEmptySeq
  <2> QED
    BY <2>1, <2>2, <2>3, <2>4 DEF RemoveAt
<1>13. n # 1 => t[n - 1] = s[n]
  BY <1>2, <1>5
<1> QED
  BY <1>2, <1>4, <1>5, <1>6, <1>10, <1>11, <1>12, <1>13 DEF t, n

\* The pointer past an entry behind the first takes it out of the list.
LEMMA ChainRemove ==
    ASSUME NEW s, NEW h, NEW nx \in [Entry -> Pointer], Chain(s, h, nx),
           NEW k \in 1 .. Len(s), k + 1 \in 1 .. Len(s)
    PROVE  LET t == RemoveAt(s, k + 1)
           IN  /\ Chain(t, h, [nx EXCEPT ![s[k]] = nx[s[k + 1]]])
               /\ Range(t) = Range(s) \ {s[k + 1]}
               /\ Len(t) = Len(s) - 1
               /\ \A i \in 1 .. k : t[i] = s[i]
               /\ k + 1 # Len(s) => t[Len(s) - 1] = s[Len(s)]
<1> DEFINE t == RemoveAt(s, k + 1)
           n == Len(s)
           ny == [nx EXCEPT ![s[k]] = nx[s[k + 1]]]
<1>1. /\ s \in Seq(Entry) /\ n \in Nat /\ DOMAIN s = 1 .. n
      /\ Range(s) = {s[i] : i \in 1 .. n}
  BY ChainEntries
<1>2. /\ t \in Seq(Entry) /\ Len(t) = n - 1
      /\ \A i \in 1 .. n - 1 : t[i] = IF i <= k THEN s[i] ELSE s[i + 1]
  <2> DEFINE a == SubSeq(s, 1, k)
             b == SubSeq(s, k + 2, n)
  <2>1. a \in Seq(Entry) /\ Len(a) = k /\ \A i \in 1 .. k : a[i] = s[i]
    BY <1>1
  <2>2. /\ b \in Seq(Entry) /\ Len(b) = n - k - 1
        /\ \A i \in 1 .. n - k - 1 : b[i] = s[i + k + 1]
    <3>0. n \in Nat /\ k \in Nat /\ k + 1 <= n
      BY <1>1
    <3>1. /\ k + 2 \in Int /\ n \in Int
          /\ n - (k + 2) + 1 = n - k - 1
          /\ (k + 2 <= n) \/ n - k - 1 = 0
          /\ \A i \in k + 2 .. n : i \in 1 .. n
          /\ \A i \in 1 .. n - k - 1 : (k + 2) + i - 1 = i + k + 1
      <4> HIDE DEF n
      <4>1. \A i \in k + 2 .. n : i \in 1 .. n
        BY <3>0
      <4>2. \A i \in 1 .. n - k - 1 : (k + 2) + i - 1 = i + k + 1
        BY <3>0
      <4>3. /\ k + 2 \in Int /\ n \in Int
            /\ n - (k + 2) + 1 = n - k - 1
            /\ (k + 2 <= n) \/ n - k - 1 = 0
        BY <3>0
      <4> QED
        BY <4>1, <4>2, <4>3
    <3>2. \A i \in k + 2 .. n : s[i] \in Entry
      <4>1. \A i \in 1 .. n : s[i] \in Entry
        BY <1>1
      <4> QED
        BY <3>1, <4>1
    <3>3. /\ b \in Seq(Entry)
          /\ Len(b) = IF k + 2 <= n THEN n - (k + 2) + 1 ELSE 0
          /\ \A i \in 1 .. n - (k + 2) + 1 : b[i] = s[(k + 2) + i - 1]
      <4> HIDE DEF n
      <4> PICK m : m = k + 2
        OBVIOUS
      <4>1. m \in Int /\ n \in Int /\ (\A i \in m .. n : s[i] \in Entry)
        BY <3>1, <3>2
      <4>2. b = SubSeq(s, m, n)
        OBVIOUS
      <4> HIDE DEF b
      <4>3. /\ b \in Seq(Entry)
            /\ Len(b) = IF m <= n THEN n - m + 1 ELSE 0
            /\ \A i \in 1 .. n - m + 1 : b[i] = s[m + i - 1]
        BY <4>1, <4>2, SubSeqProperties
      <4> QED
        BY <4>3
    <3> QED
      BY <3>1, <3>3
  <2>3. t = a \o b
    BY <1>1 DEF RemoveAt
  <2> HIDE DEF a, b, t, n
  <2>4. t \in Seq(Entry) /\ Len(t) = Len(a) + Len(b)
        /\ \A i \in 1 .. Len(a) + Len(b) :
              t[i] = IF i <= Len(a) THEN a[i] ELSE b[i - Len(a)]
    <3>1. /\ a \o b \in Seq(Entry) /\ Len(a \o b) = Len(a) + Len(b)
          /\ \A i \in 1 .. Len(a) + Len(b) :
                (a \o b)[i] = IF i <= Len(a) THEN a[i] ELSE b[i - Len(a)]
      <4>1. a \in Seq(Entry) /\ b \in Seq(Entry)
        BY <2>1, <2>2
      <4> HIDE DEF a, b
      <4> QED
        BY <4>1, ConcatProperties
    <3> QED
      BY <2>3, <3>1
  <2>5. k \in Nat /\ Len(t) = n - 1
    BY <1>1, <2>1, <2>2, <2>4
  <2> SUFFICES ASSUME NEW i \in 1 .. n - 1
               PROVE  t[i] = IF i <= k THEN s[i] ELSE s[i + 1]
    BY <2>4, <2>5
  <2>6. i \in 1 .. Len(a) + Len(b)
    BY <1>1, <2>1, <2>2, <2>5
  <2>7. CASE i <= k
    BY <2>1, <2>4, <2>5, <2>6, <2>7
  <2>8. CASE ~(i <= k)
    <3>1. i - k \in 1 .. n - k - 1 /\ (i - k) + k + 1 = i + 1
      BY <1>1, <2>5, <2>8
    <3>2. t[i] = b[i - k]
      BY <2>1, <2>4, <2>6, <2>8
    <3> QED
      BY <2>2, <2>8, <3>1, <3>2
  <2> QED
    BY <2>7, <2>8
<1>3. DOMAIN t = 1 .. n - 1
  BY <1>2, LenProperties
<1>4. /\ \A i, j \in 1 .. n : s[i] = s[j] => i = j
      /\ h = IF n = 0 THEN NULL ELSE s[1]
      /\ \A i \in 1 .. n : nx[s[i]] = IF i = n THEN NULL ELSE s[i + 1]
  BY DEF Chain
<1>5. k \in 1 .. n - 1 /\ k + 1 \in 1 .. n /\ n # 0 /\ n - 1 # 0
      /\ 1 \in 1 .. n - 1 /\ 1 <= k /\ k \in 1 .. n
  BY <1>1
<1> HIDE DEF t, n
<1>6. Range(t) = Range(s) \ {s[k + 1]}
  <2>1. Range(t) = {t[i] : i \in 1 .. n - 1}
    BY <1>3 DEF Range
  <2>2. \A i \in 1 .. n : i # k + 1 =>
           \/ i <= k /\ i \in 1 .. n - 1
           \/ ~(i - 1 <= k) /\ i - 1 \in 1 .. n - 1 /\ (i - 1) + 1 = i
    BY <1>1, <1>5
  <2>3. \A i \in 1 .. n - 1 : /\ i \in 1 .. n /\ i + 1 \in 1 .. n
                              /\ i <= k => i # k + 1
                              /\ ~(i <= k) => i + 1 # k + 1
    BY <1>1, <1>5
  <2>4. Range(t) \subseteq Range(s) \ {s[k + 1]}
    BY <1>1, <1>2, <1>4, <1>5, <2>1, <2>3
  <2>5. Range(s) \ {s[k + 1]} \subseteq Range(t)
    <3> SUFFICES ASSUME NEW i \in 1 .. n, i # k + 1
                 PROVE  s[i] \in Range(t)
      BY <1>1
    <3>1. CASE i <= k /\ i \in 1 .. n - 1
      BY <1>2, <2>1, <3>1
    <3>2. CASE ~(i - 1 <= k) /\ i - 1 \in 1 .. n - 1 /\ (i - 1) + 1 = i
      BY <1>2, <2>1, <3>2
    <3> QED
      BY <2>2, <3>1, <3>2
  <2> QED
    BY <2>4, <2>5
<1>7. \A i, j \in 1 .. n - 1 : t[i] = t[j] => i = j
  <2> SUFFICES ASSUME NEW i \in 1 .. n - 1, NEW j \in 1 .. n - 1,
                      t[i] = t[j]
               PROVE  i = j
    OBVIOUS
  <2>1. /\ i \in 1 .. n /\ i + 1 \in 1 .. n /\ j \in 1 .. n
        /\ j + 1 \in 1 .. n
    BY <1>1
  <2>2. IF i <= k THEN (IF j <= k THEN i = j ELSE i = j + 1)
        ELSE (IF j <= k THEN i + 1 = j ELSE i + 1 = j + 1)
    BY <1>2, <1>4, <2>1
  <2> QED
    BY <1>1, <1>5, <2>2
<1>8. \A i \in 1 .. n - 1 : ny[t[i]] = IF i = n - 1 THEN NULL ELSE t[i + 1]
  <2> SUFFICES ASSUME NEW i \in 1 .. n - 1
               PROVE  ny[t[i]] = IF i = n - 1 THEN NULL ELSE t[i + 1]
    OBVIOUS
  <2>1. i \in 1 .. n /\ i + 1 \in 1 .. n
        /\ (i # n - 1 => i + 1 \in 1 .. n - 1)
        /\ (i = n - 1 <=> i + 1 = n)
        /\ i # n
    BY <1>1
  <2>2. \A j \in 1 .. n : s[j] \in Entry
    BY <1>1 DEF n
  <2>3. CASE i = k
    <3>1. t[i] = s[k] /\ ny[s[k]] = nx[s[k + 1]]
      BY <1>2, <1>5, <2>2, <2>3
    <3>2. nx[s[k + 1]] = IF k + 1 = n THEN NULL ELSE s[(k + 1) + 1]
      BY <1>4, <1>5
    <3>3. i # n - 1 => t[i + 1] = s[(i + 1) + 1]
      <4>1. ~(i + 1 <= k)
        BY <1>1, <1>5, <2>3
      <4> QED
        BY <1>2, <2>1, <4>1
    <3> QED
      BY <2>1, <2>3, <3>1, <3>2, <3>3
  <2>4. CASE i <= k /\ i # k
    <3>1. i + 1 <= k /\ i # n - 1
      BY <1>1, <1>5, <2>4
    <3>2. t[i] = s[i] /\ t[i + 1] = s[i + 1]
      BY <1>2, <2>1, <2>4, <3>1
    <3>3. s[i] # s[k]
      BY <1>4, <1>5, <2>1, <2>4
    <3> QED
      BY <1>4, <1>5, <2>1, <2>2, <3>1, <3>2, <3>3
  <2>5. CASE ~(i <= k)
    <3>1. ~(i + 1 <= k) /\ i + 1 # k
      BY <1>1, <1>5, <2>5
    <3>2. t[i] = s[i + 1] /\ (i # n - 1 => t[i + 1] = s[(i + 1) + 1])
      BY <1>2, <2>1, <2>5, <3>1
    <3>3. s[i + 1] # s[k]
      BY <1>4, <1>5, <2>1, <3>1
    <3>4. ny[s[i + 1]] = nx[s[i + 1]]
      BY <1>5, <2>1, <2>2, <3>3
    <3> QED
      BY <1>4, <2>1, <3>2, <3>4
  <2> QED
    BY <2>3, <2>4, <2>5
<1>9. h = s[1] /\ t[1] = s[1]
  BY <1>2, <1>4, <1>5
<1>10. Chain(t, h, ny)
  BY <1>2, <1>5, <1>7, <1>8, <1>9 DEF Chain
<1>11. \A i \in 1 .. k : t[i] = s[i]
  <2>1. \A i \in 1 .. k : i \in 1 .. n - 1 /\ i <= k
    BY <1>1, <1>5
  <2> QED
    BY <1>2, <2>1
<1>12. k + 1 # n => t[n - 1] = s[n]
  <2>1. k + 1 # n => n - 1 \in 1 .. n - 1 /\ ~(n - 1 <= k) /\ (n - 1) + 1 = n
    BY <1>1, <1>5
  <2> QED
    BY <1>2, <2>1
<1> QED
  BY <1>2, <1>6, <1>10, <1>11, <1>12 DEF t, n

-----------------------------------------------------------------------------
(* The inductive invariant: what the list, the critical sections and the   *)
(* threads' pointers are at every point of a put and of a free.            *)

\* Who is in which critical section.
Locking ==
    /\ csec = "process" <=> pc["process"] \in {"link", "tail", "head"}
    /\ csec = "comm_w" <=>
           list = "w_in_messages" /\ pc["comm_w"] # "idle"
    /\ csec_out_connection = "comm_w" <=>
           list = "w_out_messages" /\ pc["comm_w"] # "idle"

\* Nobody puts into the list while the walk has taken the last entry out and
\* not yet moved the tail.
TailBehind(s) ==
    /\ list = "w_in_messages" /\ pc["comm_w"] = "walk"
    /\ qe["comm_w"] \notin Range(s)
    /\ m_qe = NULL
    /\ tail = qe["comm_w"]

\* s is in the list, and the tail is the last entry but for the steps of a
\* put and of the walk.
ListInv(s) ==
    /\ Chain(s, head, next)
    /\ Range(s) \subseteq allocated
    /\ \/ pc["process"] \in {"tail", "head"}
       \/ tail = (IF Len(s) = 0 THEN NULL ELSE s[Len(s)])
       \/ TailBehind(s)

\* The entry that process puts: allocated, not in the list before it is
\* linked, and its last entry after that.  Into an empty list it gets with
\* the store of the head only.
PutInv(s) ==
    LET q == qe["process"]
    IN  /\ q = NULL <=> pc["process"] = "idle"
        /\ q # NULL => /\ q \in allocated /\ q # qe["comm_w"]
                       /\ next[q] = NULL
        /\ pc["process"] \in {"enter", "link"} => q \notin Range(s)
        /\ pc["process"] = "tail" =>
               IF tail = NULL THEN Len(s) = 0
               ELSE Len(s) > 1 /\ s[Len(s)] = q /\ s[Len(s) - 1] = tail
        /\ pc["process"] = "head" =>
               tail = q /\ (Len(s) # 0 => s[Len(s)] = q)

\* The entry that comm_w frees: taken from w_out_messages by q_get, in
\* w_in_messages until q_free unlinks it.
FreeInv(s) ==
    LET e == qe["comm_w"]
    IN  /\ e = NULL <=> pc["comm_w"] = "idle"
        /\ e # NULL => e \in allocated
        /\ list = "w_out_messages" => e \notin Range(s)
        /\ list = "w_in_messages" /\ pc["comm_w"] \in {"head", "unlink"} =>
               e \in Range(s)
        /\ pc["comm_w"] = "assert" => list = "w_out_messages"
        /\ pc["comm_w"] = "free" => e \notin Range(s)

\* Where the walk is: at neighbours in the list, and in w_in_messages not yet
\* behind the entry.
WalkInv(s) ==
    /\ {m_qe, m_qe_prev} \subseteq Range(s) \cup {NULL}
    /\ pc["comm_w"] \notin {"walk", "free"} => m_qe = NULL /\ m_qe_prev = NULL
    /\ pc["comm_w"] = "walk" => Len(s) # 0 /\ m_qe_prev # NULL
    /\ pc["comm_w"] = "walk" /\ list = "w_in_messages" =>
           /\ m_qe = next[m_qe_prev]
           /\ \A i, j \in 1 .. Len(s) :
                 s[i] = qe["comm_w"] /\ s[j] = m_qe_prev => j < i

ContentsInv(s) == ListInv(s) /\ PutInv(s) /\ FreeInv(s) /\ WalkInv(s)

QueueInv == TypeOK /\ Locking /\ \E s \in {Contents} : ContentsInv(s)

-----------------------------------------------------------------------------
(* The invariant holds initially, and every step preserves it.             *)

LEMMA InitQueueInv == Init => QueueInv
<1> SUFFICES ASSUME Init PROVE QueueInv
  OBVIOUS
<1>1. TypeOK
  BY DEF Init, TypeOK, Pointer, Thread
<1>2. Locking
  BY QueueAssumption DEF Init, Locking, QueueAssumption, Thread
<1>3. <<>> \in Seq(Entry) /\ Len(<<>>) = 0 /\ Range(<<>>) = {}
  BY EmptySeq DEF Range
<1>4. Chain(<<>>, head, next)
  BY <1>3 DEF Init, Chain
<1>5. Contents = <<>>
  BY <1>4, ContentsOfChain
<1>6. ContentsInv(<<>>)
  <2>1. ListInv(<<>>)
    BY <1>3, <1>4 DEF Init, ListInv
  <2>2. PutInv(<<>>)
    BY DEF Init, PutInv, Thread
  <2>3. FreeInv(<<>>)
    <3>1. qe["comm_w"] = NULL /\ pc["comm_w"] = "idle" /\ Range(<<>>) = {}
      BY <1>3 DEF Init, Thread
    <3> QED
      BY <3>1 DEF FreeInv
  <2>4. WalkInv(<<>>)
    BY DEF Init, WalkInv
  <2> QED
    BY <2>1, <2>2, <2>3, <2>4 DEF ContentsInv
<1> QED
  BY <1>1, <1>2, <1>5, <1>6 DEF QueueInv

\* What q_free does to the list before it walks: nothing, or it takes the
\* first entry out, or it starts at the head.
FreeUnlinkStores ==
    \/ /\ head = NULL
       /\ pc'["comm_w"] = "free"
       /\ UNCHANGED <<head, tail, m_qe, m_qe_prev>>
    \/ /\ head # NULL /\ head = qe["comm_w"]
       /\ pc'["comm_w"] = "free"
       /\ head' = IF head = tail THEN NULL ELSE next[head]
       /\ tail' = IF head = tail THEN NULL ELSE tail
       /\ UNCHANGED <<m_qe, m_qe_prev>>
    \/ /\ head # NULL /\ head # qe["comm_w"]
       /\ pc'["comm_w"] = "walk"
       /\ m_qe' = next[head] /\ m_qe_prev' = head
       /\ UNCHANGED <<head, tail>>

LEMMA FreeUnlinkCases ==
    ASSUME TypeOK, FreeUnlink, qe["comm_w"] # NULL
    PROVE  FreeUnlinkStores
<1>1. CASE head = NULL /\ Goes("comm_w", "unlink", "free")
           /\ UNCHANGED <<head, tail, walk_vars>>
  BY <1>1 DEF TypeOK, Goes, walk_vars, FreeUnlinkStores
<1>2. CASE /\ qe["comm_w"] = head
           /\ Goes("comm_w", "unlink", "free")
           /\ head' = IF qe["comm_w"] = tail THEN NULL ELSE next[head]
           /\ tail' = IF qe["comm_w"] = tail THEN NULL ELSE tail
           /\ UNCHANGED walk_vars
  BY <1>2 DEF TypeOK, Goes, walk_vars, FreeUnlinkStores
<1>3. CASE /\ head # NULL /\ qe["comm_w"] # head
           /\ Goes("comm_w", "unlink", "walk")
           /\ m_qe_prev' = head
           /\ m_qe' = next[head]
           /\ UNCHANGED <<head, tail>>
  BY <1>3 DEF TypeOK, Goes, FreeUnlinkStores
<1> QED
  BY <1>1, <1>2, <1>3 DEF FreeUnlink

\* No step puts anything else into a variable.
LEMMA StepTypeOK == QueueInv /\ [Next]_vars => TypeOK'
<1> SUFFICES ASSUME TypeOK, Locking, [Next]_vars,
                    qe["comm_w"] = NULL <=> pc["comm_w"] = "idle"
             PROVE  TypeOK'
  BY DEF QueueInv, ContentsInv, FreeInv
<1> USE QueueAssumption
    DEF QueueAssumption, TypeOK, Locking, Goes, Pointer, Thread,
        list_vars, walk_vars, lock_vars
<1>1. ASSUME NEW e \in Entry, Alloc(e) \/ Find(e) PROVE TypeOK'
  BY <1>1 DEF Alloc, Find
<1>2. CASE EnterPut
  BY <1>2 DEF EnterPut
<1>3. CASE PutLink
  BY <1>3 DEF PutLink
<1>4. CASE PutTail
  BY <1>4 DEF PutTail
<1>5. CASE PutHead
  BY <1>5 DEF PutHead
<1>6. CASE Get
  BY <1>6 DEF Get
<1>7. CASE FreeHead
  BY <1>7 DEF FreeHead
<1>8. CASE FreeAssert
  BY <1>8 DEF FreeAssert
<1>9. CASE FreeUnlink
  <2>1. /\ pc' \in [process : {"idle", "enter", "link", "tail", "head"},
                   comm_w : {"idle", "head", "assert", "unlink", "walk",
                             "free"}]
        /\ pc'["comm_w"] # "idle" /\ pc'["process"] = pc["process"]
    BY <1>9 DEF FreeUnlink
  <2>2. head' \in Pointer /\ tail' \in Pointer
        /\ m_qe' \in Pointer /\ m_qe_prev' \in Pointer
    <3>1. head # NULL => head \in Entry /\ next[head] \in Pointer
      OBVIOUS
    <3>2. qe["comm_w"] # NULL
      BY <1>9 DEF FreeUnlink
    <3>3. FreeUnlinkStores
      BY <1>9, <3>2, FreeUnlinkCases
    <3> QED
      BY <3>1, <3>3 DEF FreeUnlinkStores
  <2> QED
    BY <1>9, <2>1, <2>2 DEF FreeUnlink
<1>10. CASE FreeWalk
  BY <1>10 DEF FreeWalk
<1>11. CASE FreeEntry
  BY <1>11 DEF FreeEntry
<1>12. CASE FreeMessages
  BY <1>12 DEF FreeMessages
<1>13. CASE UNCHANGED vars
  BY <1>13 DEF vars
<1> QED
  BY <1>1, <1>2, <1>3, <1>4, <1>5, <1>6, <1>7, <1>8, <1>9, <1>10, <1>11,
     <1>12, <1>13
  DEF Next

\* A critical section has the owner that the threads' places say.
LEMMA StepLocking == QueueInv /\ [Next]_vars => Locking'
<1> SUFFICES ASSUME TypeOK, Locking, [Next]_vars PROVE Locking'
  BY DEF QueueInv
<1> USE QueueAssumption
    DEF QueueAssumption, TypeOK, Locking, Goes, Thread,
        list_vars, walk_vars, lock_vars
<1>1. ASSUME NEW e \in Entry, Alloc(e) \/ Find(e) PROVE Locking'
  BY <1>1 DEF Alloc, Find
<1>2. CASE EnterPut
  BY <1>2 DEF EnterPut
<1>3. CASE PutLink
  BY <1>3 DEF PutLink
<1>4. CASE PutTail
  BY <1>4 DEF PutTail
<1>5. CASE PutHead
  BY <1>5 DEF PutHead
<1>6. CASE Get
  BY <1>6 DEF Get
<1>7. CASE FreeHead
  BY <1>7 DEF FreeHead
<1>8. CASE FreeAssert
  BY <1>8 DEF FreeAssert
<1>9. CASE FreeUnlink
  BY <1>9 DEF FreeUnlink
<1>10. CASE FreeWalk
  BY <1>10 DEF FreeWalk
<1>11. CASE FreeEntry
  BY <1>11 DEF FreeEntry
<1>12. CASE FreeMessages
  BY <1>12 DEF FreeMessages
<1>13. CASE UNCHANGED vars
  BY <1>13 DEF vars
<1> QED
  BY <1>1, <1>2, <1>3, <1>4, <1>5, <1>6, <1>7, <1>8, <1>9, <1>10, <1>11,
     <1>12, <1>13
  DEF Next

\* The first entry, where it points, and the last one.
LEMMA ChainEnds ==
    ASSUME NEW s, NEW h, NEW nx, Chain(s, h, nx), Len(s) # 0
    PROVE  /\ 1 \in 1 .. Len(s) /\ Len(s) \in 1 .. Len(s)
           /\ h = s[1] /\ h \in Range(s) /\ s[Len(s)] \in Range(s)
           /\ nx[h] = IF Len(s) = 1 THEN NULL ELSE s[2]
           /\ nx[h] \in Range(s) \cup {NULL}
           /\ \A i, j \in 1 .. Len(s) : s[i] = s[j] => i = j
<1> DEFINE n == Len(s)
<1>1. n \in Nat /\ n # 0 /\ Range(s) = {s[i] : i \in 1 .. n}
  BY ChainEntries
<1>2. /\ \A i, j \in 1 .. n : s[i] = s[j] => i = j
      /\ h = IF n = 0 THEN NULL ELSE s[1]
      /\ \A i \in 1 .. n : nx[s[i]] = IF i = n THEN NULL ELSE s[i + 1]
  BY DEF Chain
<1> HIDE DEF n
<1>3. /\ 1 \in 1 .. n /\ n \in 1 .. n /\ 1 + 1 = 2
      /\ n # 1 => 2 \in 1 .. n
  BY <1>1
<1>4. nx[h] = IF n = 1 THEN NULL ELSE s[2]
  BY <1>1, <1>2, <1>3
<1>5. nx[h] \in Range(s) \cup {NULL}
  BY <1>1, <1>3, <1>4
<1> QED
  BY <1>1, <1>2, <1>3, <1>4, <1>5 DEF n

-----------------------------------------------------------------------------
(* Steps that leave the list alone.                                        *)

LEMMA ListFacts ==
    ASSUME NEW s, ContentsInv(s)
    PROVE  /\ s \in Seq(Entry) /\ Len(s) \in Nat
           /\ Range(s) = {s[i] : i \in 1 .. Len(s)}
           /\ Range(s) \subseteq Entry /\ NULL \notin Range(s)
           /\ Chain(s, head, next) /\ NULL \notin Entry \cup Thread
           /\ head = NULL <=> Len(s) = 0
           /\ ListInv(s) /\ PutInv(s) /\ FreeInv(s) /\ WalkInv(s)
  BY ChainEntries, QueueAssumption
  DEF ContentsInv, ListInv, QueueAssumption

\* Entering the critical section changes nothing of the list.
LEMMA EnterPutKeeps ==
    ASSUME TypeOK, Locking, NEW s, ContentsInv(s),
           EnterPut
    PROVE  ContentsInv(s)'
<1> USE DEF TypeOK, Locking, Goes, Thread, Pointer, list_vars, walk_vars,
            lock_vars
<1>1. ListInv(s)'
  BY ListFacts DEF ListInv, TailBehind, EnterPut
<1>2. PutInv(s)'
  BY ListFacts DEF PutInv, EnterPut
<1>3. FreeInv(s)'
  BY ListFacts DEF FreeInv, EnterPut
<1>4. WalkInv(s)'
  BY ListFacts DEF WalkInv, EnterPut
<1> QED
  BY <1>1, <1>2, <1>3, <1>4 DEF ContentsInv

\* comm_w finds an entry of w_in_messages.
LEMMA FindKeeps ==
    ASSUME TypeOK, Locking, NEW s, ContentsInv(s),
           NEW e \in Range(s), Find(e)
    PROVE  ContentsInv(s)'
<1> USE DEF TypeOK, Locking, Goes, Thread, Pointer, list_vars, walk_vars,
            lock_vars
<1>1. ListInv(s)'
  BY ListFacts DEF ListInv, TailBehind, Find
<1>2. PutInv(s)'
  BY ListFacts DEF PutInv, ListInv, Find
<1>3. FreeInv(s)'
  BY ListFacts DEF FreeInv, ListInv, Find
<1>4. WalkInv(s)'
  BY ListFacts DEF WalkInv, Find
<1> QED
  BY <1>1, <1>2, <1>3, <1>4 DEF ContentsInv

\* q_free finds the list empty only for an entry of w_out_messages.
LEMMA FreeHeadKeeps ==
    ASSUME TypeOK, Locking, NEW s, ContentsInv(s),
           FreeHead
    PROVE  ContentsInv(s)'
<1> USE DEF TypeOK, Locking, Goes, Thread, Pointer, list_vars, walk_vars,
            lock_vars
<1>1. ListInv(s)'
  BY ListFacts DEF ListInv, TailBehind, FreeHead
<1>2. PutInv(s)'
  BY ListFacts DEF PutInv, FreeHead
<1>3. FreeInv(s)'
  BY ListFacts DEF FreeInv, FreeHead
<1>4. WalkInv(s)'
  BY ListFacts DEF WalkInv, FreeHead
<1> QED
  BY <1>1, <1>2, <1>3, <1>4 DEF ContentsInv

\* The assertion changes nothing.
LEMMA FreeAssertKeeps ==
    ASSUME TypeOK, Locking, NEW s, ContentsInv(s),
           FreeAssert
    PROVE  ContentsInv(s)'
<1> USE DEF TypeOK, Locking, Goes, Thread, Pointer, list_vars, walk_vars,
            lock_vars
<1>1. ListInv(s)'
  BY ListFacts DEF ListInv, TailBehind, FreeAssert
<1>2. PutInv(s)'
  BY ListFacts DEF PutInv, FreeAssert
<1>3. FreeInv(s)'
  BY ListFacts DEF FreeInv, FreeAssert
<1>4. WalkInv(s)'
  BY ListFacts DEF WalkInv, FreeAssert
<1> QED
  BY <1>1, <1>2, <1>3, <1>4 DEF ContentsInv

\* The entry that is freed is not in the list.
LEMMA FreeEntryKeeps ==
    ASSUME TypeOK, Locking, NEW s, ContentsInv(s),
           FreeEntry
    PROVE  ContentsInv(s)'
<1> USE DEF TypeOK, Locking, Goes, Thread, Pointer, list_vars, walk_vars,
            lock_vars
<1>1. ListInv(s)'
  BY ListFacts DEF ListInv, FreeInv, TailBehind, FreeEntry
<1>2. PutInv(s)'
  BY ListFacts DEF PutInv, FreeEntry
<1>3. FreeInv(s)'
  BY ListFacts DEF FreeInv, FreeEntry
<1>4. WalkInv(s)'
  BY ListFacts DEF WalkInv, FreeEntry
<1> QED
  BY <1>1, <1>2, <1>3, <1>4 DEF ContentsInv

\* A new entry is not in the list.
LEMMA AllocKeeps ==
    ASSUME TypeOK, Locking, NEW s, ContentsInv(s),
           NEW e \in Entry, Alloc(e)
    PROVE  ContentsInv(s)'
<1> USE DEF TypeOK, Locking, Goes, Thread, Pointer, list_vars, walk_vars,
            lock_vars
<1>1. e \notin Range(s) /\ e # NULL
  BY ListFacts DEF ListInv, Alloc
<1>2. Chain(s, head', next')
  BY <1>1, ListFacts, ChainFrame DEF Alloc
<1>3. ListInv(s)'
  BY <1>2, ListFacts DEF ListInv, TailBehind, Alloc
<1>4. PutInv(s)'
  BY <1>1, ListFacts DEF PutInv, FreeInv, Alloc
<1>5. FreeInv(s)'
  BY <1>1, ListFacts DEF FreeInv, Alloc
<1>6. \A q \in Range(s) : next'[q] = next[q]
  BY <1>1, ListFacts DEF Alloc
<1>7. WalkInv(s)'
  BY <1>1, <1>6, ListFacts DEF WalkInv, Alloc
<1> QED
  BY <1>3, <1>4, <1>5, <1>7 DEF ContentsInv

\* PutTail makes the last entry the tail, and an entry that is to become the
\* only one.
LEMMA PutTailKeeps ==
    ASSUME TypeOK, Locking, NEW s, ContentsInv(s),
           PutTail
    PROVE  ContentsInv(s)'
<1> USE DEF TypeOK, Locking, Goes, Thread, Pointer, list_vars, walk_vars,
            lock_vars
<1>1. next' = next
  <2>1. next[qe["process"]] = NULL
    BY ListFacts DEF PutInv, PutTail
  <2>2. qe["process"] \in Entry
    BY ListFacts DEF PutInv, PutTail
  <2> QED
    BY <2>1, <2>2, ChainSameStore DEF PutTail
<1>2. ListInv(s)'
  BY <1>1, ListFacts DEF ListInv, PutTail
<1>3. PutInv(s)'
  BY <1>1, ListFacts DEF PutInv, PutTail
<1>4. FreeInv(s)'
  BY ListFacts DEF FreeInv, PutTail
<1>5. WalkInv(s)'
  BY <1>1, ListFacts DEF WalkInv, PutTail
<1> QED
  BY <1>2, <1>3, <1>4, <1>5 DEF ContentsInv

-----------------------------------------------------------------------------
(* Steps that put an entry into the list or take one out.                  *)

\* With the critical section free nobody is in the middle of anything.
LEMMA NobodyInList ==
    ASSUME TypeOK, Locking, NEW s, ContentsInv(s),
           csec = NULL \/ csec = "comm_w"
    PROVE  /\ pc["process"] \in {"idle", "enter"}
           /\ \/ tail = (IF Len(s) = 0 THEN NULL ELSE s[Len(s)])
              \/ TailBehind(s)
           /\ qe["process"] \notin Range(s)
<1> USE DEF TypeOK, Locking, Thread
<1>1. pc["process"] \in {"idle", "enter"}
  BY ListFacts
<1> QED
  BY <1>1, ListFacts DEF ListInv, PutInv

\* Into an empty list the entry is not linked yet.
LEMMA PutLinkEmptyKeeps ==
    ASSUME TypeOK, Locking, NEW s, ContentsInv(s),
           PutLink, tail = NULL
    PROVE  ContentsInv(s)'
<1> USE DEF TypeOK, Locking, Goes, Thread, Pointer, list_vars, walk_vars,
            lock_vars
<1>1. Len(s) = 0 /\ next' = next
  BY ListFacts DEF ListInv, TailBehind, PutLink
<1>2. ListInv(s)'
  BY <1>1, ListFacts DEF ListInv, TailBehind, PutLink
<1>3. PutInv(s)'
  BY <1>1, ListFacts DEF PutInv, PutLink
<1>4. FreeInv(s)'
  BY ListFacts DEF FreeInv, PutLink
<1>5. WalkInv(s)'
  BY <1>1, ListFacts DEF WalkInv, PutLink
<1> QED
  BY <1>2, <1>3, <1>4, <1>5 DEF ContentsInv

\* The pointer of the last entry puts the new one at the end.
LEMMA PutLinkKeeps ==
    ASSUME TypeOK, Locking, NEW s, ContentsInv(s),
           PutLink, tail # NULL, NEW t, t = Append(s, qe["process"])
    PROVE  ContentsInv(t)'
<1> USE DEF TypeOK, Locking, Goes, Thread, Pointer, list_vars, walk_vars,
            lock_vars
<1> DEFINE q == qe["process"]
<1>1. /\ q \in Entry /\ q \notin Range(s) /\ q # NULL /\ next[q] = NULL
      /\ q # qe["comm_w"] /\ q \in allocated
  BY ListFacts DEF PutInv, PutLink
<1>2. Len(s) # 0 /\ tail = s[Len(s)]
  BY ListFacts DEF ListInv, TailBehind, PutLink
<1>3. /\ Chain(t, head, [next EXCEPT ![tail] = q])
      /\ Range(t) = Range(s) \cup {q}
      /\ Len(t) = Len(s) + 1
      /\ t[Len(s) + 1] = q
      /\ t[Len(s)] = tail
  <2>1. next \in [Entry -> Pointer] /\ Chain(s, head, next)
    BY ListFacts
  <2>2. t = Append(s, q)
    OBVIOUS
  <2>3. Len(s) # 0 /\ tail = s[Len(s)] /\ q \in Entry /\ q \notin Range(s)
        /\ next[q] = NULL
    BY <1>1, <1>2
  <2> HIDE DEF q, TypeOK, Locking
  <2>4. /\ Chain(Append(s, q), head, [next EXCEPT ![s[Len(s)]] = q])
        /\ Range(Append(s, q)) = Range(s) \cup {q}
        /\ Len(Append(s, q)) = Len(s) + 1
        /\ Append(s, q)[Len(s) + 1] = q
        /\ Append(s, q)[Len(s)] = s[Len(s)]
    BY <2>1, <2>3, ChainAppend
  <2> QED
    BY <2>2, <2>3, <2>4
<1>4. next' = [next EXCEPT ![tail] = q] /\ head' = head /\ tail' = tail
  BY DEF PutLink
<1>5. tail # q /\ next'[q] = NULL
  <2>1. tail \in Range(s)
    BY <1>2, ListFacts
  <2> QED
    BY <1>1, <1>4, <2>1
<1>6. ListInv(t)'
  BY <1>1, <1>3, <1>4, ListFacts DEF ListInv, PutLink
<1>7. PutInv(t)'
  <2>1. Len(t) > 1 /\ Len(t) - 1 = Len(s)
    BY <1>2, <1>3, ListFacts
  <2> QED
    BY <1>1, <1>3, <1>4, <1>5, <2>1, ListFacts DEF PutInv, PutLink
<1>8. FreeInv(t)'
  BY <1>1, <1>3, ListFacts DEF FreeInv, PutLink
<1>9. WalkInv(t)'
  <2>1. Len(t) # 0
    BY <1>3, ListFacts
  <2> QED
    BY <1>3, <2>1, ListFacts DEF WalkInv, PutLink
<1> QED
  BY <1>6, <1>7, <1>8, <1>9 DEF ContentsInv

\* The head is stored only when the list was empty.
LEMMA PutHeadLinkedKeeps ==
    ASSUME TypeOK, Locking, NEW s, ContentsInv(s),
           PutHead, head # NULL
    PROVE  ContentsInv(s)'
<1> USE DEF TypeOK, Locking, Goes, Thread, Pointer, list_vars, walk_vars,
            lock_vars
<1>1. Len(s) # 0 /\ tail = s[Len(s)] /\ head' = head
  BY ListFacts DEF PutInv, PutHead
<1>2. ListInv(s)'
  BY <1>1, ListFacts DEF ListInv, PutHead
<1>3. PutInv(s)'
  BY ListFacts DEF PutInv, PutHead
<1>4. FreeInv(s)'
  BY ListFacts DEF FreeInv, PutHead
<1>5. WalkInv(s)'
  BY ListFacts DEF WalkInv, PutHead
<1> QED
  BY <1>2, <1>3, <1>4, <1>5 DEF ContentsInv

\* The head makes the entry the only one.
LEMMA PutHeadKeeps ==
    ASSUME TypeOK, Locking, NEW s, ContentsInv(s),
           PutHead, head = NULL, NEW t, t = <<qe["process"]>>
    PROVE  ContentsInv(t)'
<1> USE DEF TypeOK, Locking, Goes, Thread, Pointer, list_vars, walk_vars,
            lock_vars
<1> DEFINE q == qe["process"]
<1>1. /\ q \in Entry /\ q # NULL /\ next[q] = NULL /\ tail = q
      /\ q # qe["comm_w"] /\ q \in allocated /\ Len(s) = 0 /\ Range(s) = {}
  BY ListFacts DEF PutInv, PutHead
<1>2. Chain(t, q, next) /\ Range(t) = {q} /\ Len(t) = 1 /\ t[1] = q
  BY <1>1, ChainOfOne
<1>3. head' = q /\ tail' = tail /\ next' = next
  BY DEF PutHead
<1>4. ListInv(t)'
  BY <1>1, <1>2, <1>3 DEF ListInv, PutHead
<1>5. PutInv(t)'
  BY <1>2, ListFacts DEF PutInv, PutHead
<1>6. FreeInv(t)'
  BY <1>1, <1>2, ListFacts DEF FreeInv, PutHead
<1>7. WalkInv(t)'
  BY <1>1, <1>2, ListFacts DEF WalkInv, PutHead
<1> QED
  BY <1>4, <1>5, <1>6, <1>7 DEF ContentsInv

\* q_get takes the first entry.
LEMMA GetKeeps ==
    ASSUME TypeOK, Locking, NEW s, ContentsInv(s),
           Get, NEW t, t = Tail(s)
    PROVE  ContentsInv(t)'
<1> USE DEF TypeOK, Locking, Goes, Thread, Pointer, list_vars, walk_vars,
            lock_vars
<1>1. Len(s) # 0 /\ pc["process"] \in {"idle", "enter"}
      /\ tail = s[Len(s)] /\ qe["process"] \notin Range(s)
  BY ListFacts, NobodyInList DEF Get, TailBehind
<1>2. /\ Chain(t, next[head], next) /\ Range(t) = Range(s) \ {head}
      /\ head = s[1] /\ Len(t) = Len(s) - 1
      /\ Len(s) # 1 => t[Len(s) - 1] = s[Len(s)]
  BY <1>1, ListFacts, ChainTail
<1>3. tail = head <=> Len(s) = 1
  <2>1. 1 \in 1 .. Len(s) /\ Len(s) \in 1 .. Len(s)
    BY <1>1, ListFacts
  <2> QED
    BY <1>1, <1>2, <2>1, ListFacts DEF Chain
<1>4. head \in Range(s) /\ head \in Entry /\ head \in allocated /\ head # NULL
  BY ListFacts DEF Get, ListInv, Chain
<1>5. ListInv(t)'
  <2>1. tail' = IF Len(t) = 0 THEN NULL ELSE t[Len(t)]
    BY <1>1, <1>2, <1>3, ListFacts DEF Get
  <2> QED
    BY <1>1, <1>2, <2>1, ListFacts DEF ListInv, Get
<1>6. PutInv(t)'
  BY <1>1, <1>2, <1>4, ListFacts DEF PutInv, Get
<1>7. FreeInv(t)'
  BY <1>2, <1>4, ListFacts DEF FreeInv, Get
<1>8. WalkInv(t)'
  BY ListFacts DEF WalkInv, Get
<1> QED
  BY <1>5, <1>6, <1>7, <1>8 DEF ContentsInv

\* The cleanup thread empties the list while comm_w has no entry of it.
LEMMA FreeMessagesKeeps ==
    ASSUME TypeOK, Locking, NEW s, ContentsInv(s),
           FreeMessages, Contents = s
    PROVE  ContentsInv(<<>>)'
<1> USE DEF TypeOK, Locking, Goes, Thread, Pointer, list_vars, walk_vars,
            lock_vars
<1>1. /\ pc["comm_w"] = "idle" /\ pc["process"] \in {"idle", "enter"}
      /\ qe["process"] \notin Range(s)
  BY ListFacts, NobodyInList DEF FreeMessages
<1>2. <<>> \in Seq(Entry) /\ Len(<<>>) = 0 /\ Range(<<>>) = {}
  BY EmptySeq DEF Range
<1>3. ListInv(<<>>)'
  BY <1>2 DEF ListInv, Chain, FreeMessages
<1>4. PutInv(<<>>)'
  BY <1>1, <1>2, ListFacts DEF PutInv, FreeMessages
<1>5. FreeInv(<<>>)'
  BY <1>1, <1>2, ListFacts DEF FreeInv, FreeMessages
<1>6. WalkInv(<<>>)'
  BY <1>1, <1>2, ListFacts DEF WalkInv, FreeMessages
<1> QED
  BY <1>3, <1>4, <1>5, <1>6 DEF ContentsInv

\* q_free looks at the head: it unlinks the entry there, if it is the first, or
\* starts to walk.
LEMMA FreeUnlinkOthersKeeps ==
    ASSUME TypeOK, Locking, NEW s, ContentsInv(s),
           FreeUnlink, head # qe["comm_w"]
    PROVE  ContentsInv(s)'
<1> USE DEF TypeOK, Locking, Goes, Thread, Pointer, list_vars, walk_vars,
            lock_vars
<1>1. FreeUnlinkStores
  <2>1. qe["comm_w"] # NULL
    BY ListFacts DEF FreeInv, FreeUnlink
  <2> QED
    BY <2>1, FreeUnlinkCases
<1>2. /\ pc["comm_w"] = "unlink" /\ pc'["process"] = pc["process"]
      /\ UNCHANGED <<list, next, allocated, qe, head, tail>>
  BY <1>1 DEF FreeUnlink, FreeUnlinkStores
<1>3. ListInv(s)'
  BY <1>2, ListFacts DEF ListInv, TailBehind
<1>4. PutInv(s)'
  BY <1>2, ListFacts DEF PutInv
<1>5. CASE head = NULL
  <2>1. pc'["comm_w"] = "free" /\ m_qe' = m_qe /\ m_qe_prev' = m_qe_prev
    BY <1>1, <1>5 DEF FreeUnlinkStores
  <2>2. Range(s) = {}
    BY <1>5, ListFacts
  <2>3. FreeInv(s)'
    BY <1>2, <2>1, <2>2, ListFacts DEF FreeInv
  <2>4. WalkInv(s)'
    BY <1>2, <2>1, ListFacts DEF WalkInv
  <2> QED
    BY <1>3, <1>4, <2>3, <2>4 DEF ContentsInv
<1>6. CASE head # NULL
  <2>1. pc'["comm_w"] = "walk" /\ m_qe' = next[head] /\ m_qe_prev' = head
    BY <1>1, <1>6 DEF FreeUnlinkStores
  <2>2. FreeInv(s)'
    BY <1>2, <2>1, ListFacts DEF FreeInv
  <2>3. /\ Len(s) # 0 /\ 1 \in 1 .. Len(s) /\ head = s[1]
        /\ \A i, j \in 1 .. Len(s) : s[i] = s[j] => i = j
    BY <1>6, ListFacts, ChainEnds
  <2>4. next[head] \in Range(s) \cup {NULL}
    BY <1>6, ListFacts, ChainEnds
  <2>5. \A i, j \in 1 .. Len(s) : s[i] = qe["comm_w"] /\ s[j] = head => j < i
    <3> SUFFICES ASSUME NEW i \in 1 .. Len(s), NEW j \in 1 .. Len(s),
                        s[i] = qe["comm_w"], s[j] = head
                 PROVE  j < i
      OBVIOUS
    <3>1. j = 1 /\ i # 1
      BY <2>3
    <3> QED
      BY <3>1, ListFacts
  <2>6. head \in Range(s)
    BY <2>3, ListFacts
  <2>7. WalkInv(s)'
    BY <1>2, <1>6, <2>1, <2>3, <2>4, <2>5, <2>6, ListFacts DEF WalkInv
  <2> QED
    BY <1>3, <1>4, <2>2, <2>7 DEF ContentsInv
<1> QED
  BY <1>5, <1>6

\* The first entry is unlinked by the head, and the tail of a list that is
\* empty then.
LEMMA FreeUnlinkHeadKeeps ==
    ASSUME TypeOK, Locking, NEW s, ContentsInv(s),
           FreeUnlink, head = qe["comm_w"], NEW t, t = Tail(s)
    PROVE  /\ ContentsInv(t)'
           /\ list = "w_in_messages" /\ Len(s) # 0
<1> USE DEF TypeOK, Locking, Goes, Thread, Pointer, list_vars, walk_vars,
            lock_vars
<1>1. FreeUnlinkStores /\ head # NULL
  <2>1. qe["comm_w"] # NULL
    BY ListFacts DEF FreeInv, FreeUnlink
  <2> QED
    BY <2>1, FreeUnlinkCases
<1>2. /\ pc["comm_w"] = "unlink" /\ pc'["comm_w"] = "free"
      /\ pc'["process"] = pc["process"]
      /\ UNCHANGED <<list, next, allocated, qe, m_qe, m_qe_prev>>
      /\ head' = IF head = tail THEN NULL ELSE next[head]
      /\ tail' = IF head = tail THEN NULL ELSE tail
  BY <1>1 DEF FreeUnlink, FreeUnlinkStores
<1>3. /\ Len(s) # 0 /\ head = s[1]
      /\ \A i, j \in 1 .. Len(s) : s[i] = s[j] => i = j
      /\ next[head] = IF Len(s) = 1 THEN NULL ELSE s[2]
      /\ head \in Range(s) /\ 1 \in 1 .. Len(s) /\ Len(s) \in 1 .. Len(s)
  BY <1>1, ListFacts, ChainEnds
<1>4. list = "w_in_messages"
  BY <1>3, ListFacts DEF FreeInv
<1>5. /\ pc["process"] \in {"idle", "enter"} /\ tail = s[Len(s)]
      /\ qe["process"] \notin Range(s)
  BY <1>2, <1>3, <1>4, NobodyInList DEF TailBehind
<1>6. head = tail <=> Len(s) = 1
  BY <1>3, <1>5, ListFacts
<1>7. head' = next[head]
  BY <1>2, <1>3, <1>6
<1>8. /\ Chain(t, next[head], next) /\ Range(t) = Range(s) \ {head}
      /\ Len(t) = Len(s) - 1
      /\ Len(s) # 1 => t[Len(s) - 1] = s[Len(s)]
  BY <1>3, ListFacts, ChainTail
<1>9. ListInv(t)'
  <2>1. tail' = IF Len(t) = 0 THEN NULL ELSE t[Len(t)]
    <3>1. Len(t) = 0 <=> Len(s) = 1
      BY <1>8, ListFacts
    <3> QED
      BY <1>2, <1>5, <1>6, <1>8, <3>1
  <2> QED
    BY <1>2, <1>7, <1>8, <2>1, ListFacts DEF ListInv
<1>10. PutInv(t)'
  BY <1>2, <1>5, <1>8, ListFacts DEF PutInv
<1>11. FreeInv(t)'
  BY <1>2, <1>8, ListFacts DEF FreeInv
<1>12. WalkInv(t)'
  BY <1>2, ListFacts DEF WalkInv
<1> QED
  BY <1>3, <1>4, <1>9, <1>10, <1>11, <1>12 DEF ContentsInv

\* Where the walk through w_in_messages is.
LEMMA WalkPosition ==
    ASSUME TypeOK, Locking, NEW s, ContentsInv(s),
           pc["comm_w"] = "walk"
    PROVE  \E k \in 1 .. Len(s) :
              /\ m_qe_prev = s[k]
              /\ list = "w_in_messages" =>
                    /\ m_qe = IF k = Len(s) THEN NULL ELSE s[k + 1]
                    /\ \A i \in 1 .. Len(s) : s[i] = qe["comm_w"] => k < i
<1>1. m_qe_prev \in Range(s)
  BY ListFacts DEF WalkInv
<1>2. PICK k \in 1 .. Len(s) : m_qe_prev = s[k]
  BY <1>1, ListFacts
<1>3. list = "w_in_messages" => m_qe = IF k = Len(s) THEN NULL ELSE s[k + 1]
  BY <1>2, ListFacts DEF WalkInv, Chain
<1>4. list = "w_in_messages" =>
        \A i \in 1 .. Len(s) : s[i] = qe["comm_w"] => k < i
  BY <1>2, ListFacts DEF WalkInv
<1> QED
  BY <1>2, <1>3, <1>4

\* The walk has come to the end: the tail is moved back if it was the entry.
LEMMA FreeWalkEndKeeps ==
    ASSUME TypeOK, Locking, NEW s, ContentsInv(s),
           FreeWalk, m_qe = NULL
    PROVE  ContentsInv(s)'
<1> USE DEF TypeOK, Locking, Goes, Thread, Pointer, list_vars, walk_vars,
            lock_vars
<1>1. /\ pc["comm_w"] = "walk" /\ pc'["comm_w"] = "free"
      /\ pc'["process"] = pc["process"]
      /\ UNCHANGED <<list, next, allocated, qe, head, m_qe, m_qe_prev>>
      /\ tail' = IF qe["comm_w"] # head /\ qe["comm_w"] = tail
                  THEN m_qe_prev ELSE tail
  BY DEF FreeWalk
<1>2. PICK k \in 1 .. Len(s) :
        /\ m_qe_prev = s[k]
        /\ list = "w_in_messages" =>
              /\ m_qe = IF k = Len(s) THEN NULL ELSE s[k + 1]
              /\ \A i \in 1 .. Len(s) : s[i] = qe["comm_w"] => k < i
  BY <1>1, WalkPosition
<1>3. qe["comm_w"] \notin Range(s) /\ (list = "w_in_messages" => k = Len(s))
  <2>1. CASE list = "w_out_messages"
    BY <2>1, ListFacts DEF FreeInv
  <2>2. CASE list = "w_in_messages"
    <3>1. k # Len(s) => k + 1 \in 1 .. Len(s)
      BY ListFacts
    <3>2. k = Len(s)
      BY <1>2, <2>2, <3>1, ListFacts
    <3>3. \A i \in 1 .. Len(s) : ~(k < i)
      BY <3>2, ListFacts
    <3> QED
      BY <1>2, <2>2, <3>2, <3>3, ListFacts
  <2> QED
    BY <2>1, <2>2
<1>4. Len(s) # 0 /\ s[Len(s)] \in Range(s) /\ head \in Range(s)
  <2>1. Len(s) # 0 /\ Len(s) \in 1 .. Len(s) /\ 1 \in 1 .. Len(s)
    BY <1>1, ListFacts DEF WalkInv
  <2> QED
    BY <2>1, ListFacts DEF Chain
<1>5. CASE tail = qe["comm_w"]
  <2>1. TailBehind(s)
    <3>1. (tail # NULL /\ tail # qe["process"]) \/ pc["process"] = "idle"
      BY <1>1, <1>5, ListFacts DEF PutInv, FreeInv
    <3>2. pc["process"] = "tail" => tail \in Range(s)
      <4>1. ASSUME pc["process"] = "tail"
            PROVE  tail \in Range(s)
        <5>1. tail # NULL /\ Len(s) > 1 /\ s[Len(s) - 1] = tail
          BY <1>1, <1>5, <4>1, ListFacts DEF PutInv, FreeInv
        <5>2. Len(s) - 1 \in 1 .. Len(s)
          BY <5>1, ListFacts
        <5> QED
          BY <5>1, <5>2, ListFacts
      <4> QED
        BY <4>1
    <3> QED
      BY <1>1, <1>3, <1>4, <1>5, <3>1, <3>2, ListFacts DEF ListInv, PutInv
  <2>2. tail' = s[Len(s)]
    BY <1>1, <1>2, <1>3, <1>4, <1>5, <2>1 DEF TailBehind
  <2>3. ListInv(s)'
    BY <1>1, <1>4, <2>2, ListFacts DEF ListInv
  <2>4. PutInv(s)'
    BY <1>1, <2>1, ListFacts DEF PutInv, TailBehind
  <2> QED
    BY <1>1, <1>3, <2>3, <2>4, ListFacts DEF ContentsInv, FreeInv, WalkInv
<1>6. CASE tail # qe["comm_w"]
  <2>1. tail' = tail
    BY <1>1, <1>6
  <2>2. ListInv(s)'
    BY <1>1, <1>6, <2>1, ListFacts DEF ListInv, TailBehind
  <2>3. PutInv(s)'
    BY <1>1, <2>1, ListFacts DEF PutInv
  <2> QED
    BY <1>1, <1>3, <2>2, <2>3, ListFacts DEF ContentsInv, FreeInv, WalkInv
<1> QED
  BY <1>5, <1>6

\* The walk goes on to the next entry.
LEMMA FreeWalkOnKeeps ==
    ASSUME TypeOK, Locking, NEW s, ContentsInv(s),
           FreeWalk, m_qe # NULL, m_qe # qe["comm_w"]
    PROVE  ContentsInv(s)'
<1> USE DEF TypeOK, Locking, Goes, Thread, Pointer, list_vars, walk_vars,
            lock_vars
<1>1. /\ pc["comm_w"] = "walk" /\ pc' = pc
      /\ UNCHANGED <<list, next, allocated, qe, head, tail>>
      /\ m_qe_prev' = m_qe /\ m_qe' = next[m_qe]
  BY DEF FreeWalk
<1>2. ListInv(s)'
  BY <1>1, ListFacts DEF ListInv, TailBehind
<1>3. PutInv(s)'
  BY <1>1, ListFacts DEF PutInv
<1>4. FreeInv(s)'
  BY <1>1, ListFacts DEF FreeInv
<1>5. PICK m \in 1 .. Len(s) : m_qe = s[m]
  BY ListFacts DEF WalkInv
<1>6. next[m_qe] \in Range(s) \cup {NULL}
  <2>1. m # Len(s) => m + 1 \in 1 .. Len(s)
    BY ListFacts
  <2> QED
    BY <1>5, <2>1, ListFacts DEF Chain
<1>7. list = "w_in_messages" =>
        \A i, j \in 1 .. Len(s) : s[i] = qe["comm_w"] /\ s[j] = m_qe => j < i
  <2> SUFFICES ASSUME list = "w_in_messages",
                      NEW i \in 1 .. Len(s), NEW j \in 1 .. Len(s),
                      s[i] = qe["comm_w"], s[j] = m_qe
               PROVE  j < i
    OBVIOUS
  <2>1. PICK k \in 1 .. Len(s) :
          /\ m_qe_prev = s[k]
          /\ list = "w_in_messages" =>
                /\ m_qe = IF k = Len(s) THEN NULL ELSE s[k + 1]
                /\ \A l \in 1 .. Len(s) : s[l] = qe["comm_w"] => k < l
    BY <1>1, WalkPosition
  <2>2. k # Len(s) /\ k + 1 \in 1 .. Len(s) /\ s[j] = s[k + 1] /\ k < i
    BY <2>1, ListFacts
  <2>3. j = k + 1 /\ i # j
    BY <2>2, ListFacts DEF Chain
  <2> QED
    BY <2>2, <2>3, ListFacts
<1>8. WalkInv(s)'
  BY <1>1, <1>5, <1>6, <1>7, ListFacts DEF WalkInv
<1> QED
  BY <1>2, <1>3, <1>4, <1>8 DEF ContentsInv

\* The walk has found the entry, and the pointer of the one before goes past
\* it.
LEMMA FreeWalkUnlinkKeeps ==
    ASSUME TypeOK, Locking, NEW s, ContentsInv(s),
           FreeWalk, m_qe = qe["comm_w"]
    PROVE  /\ list = "w_in_messages"
           /\ \E k \in 1 .. Len(s) :
                 /\ s[k] = qe["comm_w"]
                 /\ ContentsInv(RemoveAt(s, k))'
<1> USE DEF TypeOK, Locking, Goes, Thread, Pointer, list_vars, walk_vars,
            lock_vars
<1>1. /\ pc["comm_w"] = "walk" /\ pc' = pc /\ m_qe # NULL
      /\ UNCHANGED <<list, allocated, qe, head, tail, m_qe_prev>>
      /\ next' = [next EXCEPT ![m_qe_prev] = next[m_qe]]
      /\ m_qe' = next[m_qe]
  BY ListFacts DEF FreeWalk, FreeInv
<1>2. m_qe \in Range(s) /\ list = "w_in_messages"
  BY <1>1, ListFacts DEF WalkInv, FreeInv
<1>3. PICK k \in 1 .. Len(s) :
        /\ m_qe_prev = s[k]
        /\ m_qe = IF k = Len(s) THEN NULL ELSE s[k + 1]
  BY <1>1, <1>2, WalkPosition
<1>4. k + 1 \in 1 .. Len(s) /\ m_qe = s[k + 1] /\ s[k + 1] = qe["comm_w"]
  BY <1>1, <1>3, ListFacts
<1> DEFINE t == RemoveAt(s, k + 1)
<1>5. /\ Chain(t, head, [next EXCEPT ![s[k]] = next[s[k + 1]]])
      /\ Range(t) = Range(s) \ {s[k + 1]}
      /\ Len(t) = Len(s) - 1
      /\ \A i \in 1 .. k : t[i] = s[i]
      /\ k + 1 # Len(s) => t[Len(s) - 1] = s[Len(s)]
  <2>1. next \in [Entry -> Pointer] /\ Chain(s, head, next)
    BY ListFacts
  <2> QED
    BY <1>4, <2>1, ChainRemove
<1> HIDE DEF t
<1>6. Chain(t, head', next')
  BY <1>1, <1>3, <1>4, <1>5
<1>7. /\ pc["process"] \in {"idle", "enter"} /\ tail = s[Len(s)]
      /\ qe["process"] \notin Range(s)
  BY <1>1, <1>2, <1>4, ListFacts, NobodyInList DEF TailBehind
<1>8. next'[m_qe_prev] = next[m_qe] /\ m_qe_prev \in Entry
  BY <1>1, <1>3, ListFacts
<1>9. next[m_qe] = IF k + 1 = Len(s) THEN NULL ELSE s[(k + 1) + 1]
  <2>1. \A i \in 1 .. Len(s) :
          next[s[i]] = IF i = Len(s) THEN NULL ELSE s[i + 1]
    BY ListFacts DEF Chain
  <2> QED
    BY <1>4, <2>1
<1>10. next[m_qe] \in Range(t) \cup {NULL}
  <2>1. k + 1 # Len(s) => /\ (k + 1) + 1 \in 1 .. Len(s)
                          /\ (k + 1) + 1 # k + 1
    BY <1>4, ListFacts
  <2>2. k + 1 # Len(s) => s[(k + 1) + 1] # s[k + 1]
    BY <1>4, <2>1, ListFacts DEF Chain
  <2> QED
    BY <1>5, <1>9, <2>1, <2>2, ListFacts
<1>11. Len(t) # 0 /\ m_qe_prev \in Range(t)
  <2>1. Len(s) - 1 # 0 /\ k # k + 1
    BY <1>4, ListFacts
  <2>2. s[k] # s[k + 1]
    BY <1>4, <2>1, ListFacts DEF Chain
  <2> QED
    BY <1>3, <1>5, <2>1, <2>2, ListFacts
<1>12. ListInv(t)'
  <2>1. CASE k + 1 = Len(s)
    <3>1. TailBehind(t)'
      BY <1>1, <1>2, <1>4, <1>5, <1>7, <1>9, <2>1, ListFacts DEF TailBehind
    <3> QED
      BY <1>1, <1>5, <1>6, <3>1, ListFacts DEF ListInv
  <2>2. CASE k + 1 # Len(s)
    <3>1. tail' = IF Len(t) = 0 THEN NULL ELSE t[Len(t)]
      BY <1>1, <1>5, <1>7, <1>11, <2>2, ListFacts
    <3> QED
      BY <1>1, <1>5, <1>6, <3>1, ListFacts DEF ListInv
  <2> QED
    BY <2>1, <2>2
<1>13. PutInv(t)'
  <2>1. qe["process"] # NULL => next'[qe["process"]] = next[qe["process"]]
    BY <1>1, <1>3, <1>7, ListFacts
  <2> QED
    BY <1>1, <1>5, <1>7, <2>1, ListFacts DEF PutInv
<1>14. FreeInv(t)'
  BY <1>1, <1>2, <1>5, ListFacts DEF FreeInv
<1>15. WalkInv(t)'
  <2>1. qe["comm_w"] \notin Range(t)
    BY <1>4, <1>5
  <2>2. \A i \in 1 .. Len(t) : t[i] \in Range(t)
    <3>1. DOMAIN t = 1 .. Len(t)
      BY <1>6, ChainEntries
    <3> QED
      BY <3>1 DEF Range
  <2> QED
    BY <1>1, <1>8, <1>10, <1>11, <2>1, <2>2, ListFacts DEF WalkInv
<1>16. ContentsInv(t)'
  BY <1>12, <1>13, <1>14, <1>15 DEF ContentsInv
<1> QED
  BY <1>2, <1>4, <1>16 DEF t

-----------------------------------------------------------------------------
(* Every step of the list is a step of the queue of module Fifo.           *)

fifo_vars == <<Contents, qe["comm_w"], list = "w_in_messages">>

\* What the invariant says of the contents determines them.
LEMMA ContentsDetermined ==
    ASSUME NEW t
    PROVE  ContentsInv(t)' => Contents' = t
<1>1. ContentsInv(t) => Contents = t
  BY ContentsOfChain DEF ContentsInv, ListInv
<1>2. (ContentsInv(t) => Contents = t)'
  BY <1>1, PTL
<1> QED
  BY <1>2

\* process: the entry is in the queue with the store of the pointer to it,
\* which is the pointer of the last entry, or the head.
LEMMA PutSimulates ==
    ASSUME TypeOK, Locking, NEW s, ContentsInv(s), s = Contents,
           \/ \E e \in Entry : Alloc(e)
           \/ EnterPut \/ PutLink \/ PutTail \/ PutHead
    PROVE  /\ \E t : ContentsInv(t)' /\ Contents' = t
           /\ [Abstract!Next]_fifo_vars
<1>1. UNCHANGED <<qe["comm_w"], list>>
  BY DEF Alloc, EnterPut, PutLink, PutTail, PutHead, TypeOK, Thread, Goes
<1>2. ASSUME ContentsInv(s)'
      PROVE  /\ \E t : ContentsInv(t)' /\ Contents' = t
             /\ [Abstract!Next]_fifo_vars
  BY <1>1, <1>2, ContentsDetermined DEF fifo_vars
<1>3. ASSUME NEW q \in Entry, q \notin Range(s), q # qe["comm_w"],
             ContentsInv(Append(s, q))'
      PROVE  /\ \E t : ContentsInv(t)' /\ Contents' = t
             /\ [Abstract!Next]_fifo_vars
  <2>1. Contents' = Append(s, q)
    BY <1>3, ContentsDetermined
  <2>2. Abstract!Put(q)
    BY <1>1, <1>3, <2>1 DEF Abstract!Put, Abstract!Range, Range
  <2>3. UNCHANGED (list = "w_in_messages")
    BY <1>1
  <2> QED
    BY <1>3, <2>1, <2>2, <2>3 DEF Abstract!Next
<1> PICK q : q = qe["process"]
  OBVIOUS
<1>4. CASE \E e \in Entry : Alloc(e)
  BY <1>2, <1>4, AllocKeeps
<1>5. CASE EnterPut
  BY <1>2, <1>5, EnterPutKeeps
<1>6. CASE PutTail
  BY <1>2, <1>6, PutTailKeeps
<1>7. CASE PutLink /\ tail = NULL
  BY <1>2, <1>7, PutLinkEmptyKeeps
<1>8. CASE PutLink /\ tail # NULL
  <2>1. q \in Entry /\ q \notin Range(s) /\ q # qe["comm_w"]
    BY <1>8, ListFacts DEF TypeOK, Thread, Pointer, Goes, PutLink, PutInv
  <2>2. ContentsInv(Append(s, q))'
    BY <1>8, PutLinkKeeps
  <2> QED
    BY <1>3, <2>1, <2>2
<1>9. CASE PutHead /\ head # NULL
  BY <1>2, <1>9, PutHeadLinkedKeeps
<1>10. CASE PutHead /\ head = NULL
  <2>1. q \in Entry /\ q # qe["comm_w"]
    BY <1>10, ListFacts DEF TypeOK, Thread, Pointer, Goes, PutHead, PutInv
  <2>2. s = <<>> /\ Range(s) = {}
    BY <1>10, ListFacts, ChainEntries
  <2>3. ContentsInv(<<q>>)' /\ <<q>> = Append(<<>>, q)
    BY <1>10, PutHeadKeeps
  <2> QED
    BY <1>3, <2>1, <2>2, <2>3
<1> QED
  BY <1>4, <1>5, <1>6, <1>7, <1>8, <1>9, <1>10

\* comm_w takes a message: the first one with q_get, any one by searching.
LEMMA TakeSimulates ==
    ASSUME TypeOK, Locking, NEW s, ContentsInv(s), s = Contents,
           Get \/ \E e \in Entry : Find(e)
    PROVE  /\ \E t : ContentsInv(t)' /\ Contents' = t
           /\ [Abstract!Next]_fifo_vars
<1>1. qe["comm_w"] = NULL
  BY ListFacts DEF Get, Find, Goes, FreeInv
<1>2. CASE Get
  <2>1. ContentsInv(Tail(s))'
    BY <1>2, GetKeeps
  <2>2. Contents' = Tail(s)
    BY <2>1, ContentsDetermined
  <2>3. s # <<>> /\ head = Head(s)
    BY <1>2, ListFacts, ChainEntries, ChainTail DEF Get
  <2>4. /\ list = "w_out_messages" /\ qe'["comm_w"] = head
        /\ UNCHANGED list
    BY <1>2 DEF Get, TypeOK, Thread
  <2>5. Abstract!Get /\ UNCHANGED (list = "w_in_messages")
    BY <1>1, <2>2, <2>3, <2>4 DEF Abstract!Get
  <2> QED
    BY <2>1, <2>2, <2>5 DEF Abstract!Next
<1>3. ASSUME NEW e \in Entry, Find(e)
      PROVE  /\ \E t : ContentsInv(t)' /\ Contents' = t
             /\ [Abstract!Next]_fifo_vars
  <2>1. e \in Range(s)
    BY <1>3 DEF Find
  <2>2. ContentsInv(s)' /\ Contents' = s
    BY <1>3, <2>1, FindKeeps, ContentsDetermined
  <2>3. /\ list = "w_in_messages" /\ qe'["comm_w"] = e
        /\ UNCHANGED list
    BY <1>3 DEF Find, TypeOK, Thread
  <2>4. Abstract!Find /\ UNCHANGED (list = "w_in_messages")
    BY <1>1, <2>1, <2>2, <2>3 DEF Abstract!Find, Abstract!Range, Range
  <2> QED
    BY <2>2, <2>4 DEF Abstract!Next
<1> QED
  BY <1>2, <1>3

\* comm_w frees the message: the queue loses it with one store of a pointer,
\* or has lost it before, and the message is free at the end.
LEMMA FreeSimulates ==
    ASSUME TypeOK, Locking, NEW s, ContentsInv(s), s = Contents,
           FreeHead \/ FreeAssert \/ FreeUnlink \/ FreeWalk \/ FreeEntry
    PROVE  /\ \E t : ContentsInv(t)' /\ Contents' = t
           /\ [Abstract!Next]_fifo_vars
<1>1. CASE FreeEntry
  <2>1. ContentsInv(s)' /\ Contents' = s
    BY <1>1, FreeEntryKeeps, ContentsDetermined
  <2>2. qe["comm_w"] # NULL /\ qe["comm_w"] \notin Range(s)
    BY <1>1, ListFacts DEF FreeEntry, Goes, FreeInv
  <2>3. qe'["comm_w"] = NULL /\ UNCHANGED list
    BY <1>1 DEF FreeEntry, TypeOK, Thread
  <2>4. Abstract!Free /\ UNCHANGED (list = "w_in_messages")
    BY <2>1, <2>2, <2>3 DEF Abstract!Free, Abstract!Range, Range
  <2> QED
    BY <2>1, <2>4 DEF Abstract!Next
<1>2. ~FreeEntry => UNCHANGED <<qe, list>>
  BY DEF FreeHead, FreeAssert, FreeUnlink, FreeWalk
<1>3. ASSUME ~FreeEntry, ContentsInv(s)'
      PROVE  /\ \E t : ContentsInv(t)' /\ Contents' = t
             /\ [Abstract!Next]_fifo_vars
  BY <1>2, <1>3, ContentsDetermined DEF fifo_vars
<1>4. ASSUME ~FreeEntry, list = "w_in_messages", NEW k \in 1 .. Len(s),
             s[k] = qe["comm_w"], ContentsInv(RemoveAt(s, k))'
      PROVE  /\ \E t : ContentsInv(t)' /\ Contents' = t
             /\ [Abstract!Next]_fifo_vars
  <2>1. Contents' = RemoveAt(s, k)
    BY <1>4, ContentsDetermined
  <2>2. k \in DOMAIN s
    BY ListFacts, ChainEntries
  <2>3. Abstract!Unlink /\ UNCHANGED (list = "w_in_messages")
    BY <1>2, <1>4, <2>1, <2>2 DEF Abstract!Unlink, Abstract!RemoveAt, RemoveAt
  <2> QED
    BY <1>4, <2>1, <2>3 DEF Abstract!Next
<1>5. CASE ~FreeEntry /\ FreeHead
  BY <1>3, <1>5, FreeHeadKeeps
<1>6. CASE ~FreeEntry /\ FreeAssert
  BY <1>3, <1>6, FreeAssertKeeps
<1>7. CASE ~FreeEntry /\ FreeUnlink
  <2>1. CASE head # qe["comm_w"]
    BY <1>3, <1>7, <2>1, FreeUnlinkOthersKeeps
  <2>2. CASE head = qe["comm_w"]
    <3>1. /\ ContentsInv(Tail(s))'
          /\ list = "w_in_messages" /\ Len(s) # 0
      BY <1>7, <2>2, FreeUnlinkHeadKeeps
    <3>2. 1 \in 1 .. Len(s) /\ s[1] = qe["comm_w"] /\ Tail(s) = RemoveAt(s, 1)
      BY <2>2, <3>1, ListFacts, ChainEnds, ChainTail
    <3> QED
      BY <1>4, <1>7, <3>1, <3>2
  <2> QED
    BY <2>1, <2>2
<1>8. CASE ~FreeEntry /\ FreeWalk
  <2>1. CASE m_qe = NULL
    BY <1>3, <1>8, <2>1, FreeWalkEndKeeps
  <2>2. CASE m_qe # NULL /\ m_qe # qe["comm_w"]
    BY <1>3, <1>8, <2>2, FreeWalkOnKeeps
  <2>3. CASE m_qe # NULL /\ m_qe = qe["comm_w"]
    BY <1>4, <1>8, <2>3, FreeWalkUnlinkKeeps
  <2> QED
    BY <2>1, <2>2, <2>3
<1> QED
  BY <1>1, <1>5, <1>6, <1>7, <1>8

\* The cleanup thread empties the queue.
LEMMA ClearSimulates ==
    ASSUME TypeOK, Locking, NEW s, ContentsInv(s), s = Contents, FreeMessages
    PROVE  /\ \E t : ContentsInv(t)' /\ Contents' = t
           /\ [Abstract!Next]_fifo_vars
<1>1. ContentsInv(<<>>)' /\ Contents' = <<>>
  BY FreeMessagesKeeps, ContentsDetermined
<1>2. qe["comm_w"] = NULL /\ UNCHANGED <<qe, list>>
  BY ListFacts, QueueAssumption
  DEF FreeMessages, Locking, TypeOK, Thread, FreeInv, QueueAssumption
<1>3. Abstract!Clear /\ UNCHANGED (list = "w_in_messages")
  BY <1>1, <1>2 DEF Abstract!Clear
<1> QED
  BY <1>1, <1>3 DEF Abstract!Next

LEMMA StepSimulates ==
    ASSUME QueueInv, [Next]_vars
    PROVE  QueueInv' /\ [Abstract!Next]_fifo_vars
<1>1. TypeOK /\ Locking /\ TypeOK' /\ Locking'
  BY StepTypeOK, StepLocking DEF QueueInv
<1>2. PICK s : s = Contents /\ ContentsInv(s)
  BY DEF QueueInv
<1>3. /\ \E t : ContentsInv(t)' /\ Contents' = t
      /\ [Abstract!Next]_fifo_vars
  <2>1. CASE UNCHANGED vars
    <3>1. ContentsInv(s)' /\ UNCHANGED <<qe, list>>
      BY <1>2, <2>1
      DEF vars, list_vars, lock_vars, walk_vars, ContentsInv, ListInv, PutInv,
          FreeInv, WalkInv, TailBehind
    <3> QED
      BY <1>2, <3>1, ContentsDetermined DEF fifo_vars
  <2>2. CASE \/ \E e \in Entry : Alloc(e)
             \/ EnterPut \/ PutLink \/ PutTail \/ PutHead
    BY <1>1, <1>2, <2>2, PutSimulates
  <2>3. CASE Get \/ \E e \in Entry : Find(e)
    BY <1>1, <1>2, <2>3, TakeSimulates
  <2>4. CASE FreeHead \/ FreeAssert \/ FreeUnlink \/ FreeWalk \/ FreeEntry
    BY <1>1, <1>2, <2>4, FreeSimulates
  <2>5. CASE FreeMessages
    BY <1>1, <1>2, <2>5, ClearSimulates
  <2> QED
    BY <2>1, <2>2, <2>3, <2>4, <2>5 DEF Next
<1> QED
  BY <1>1, <1>3 DEF QueueInv

LEMMA QueueInvCorrect == Spec => []QueueInv
<1>1. QueueInv /\ [Next]_vars => QueueInv'
  BY StepSimulates
<1> QED
  BY <1>1, InitQueueInv, PTL DEF Spec

-----------------------------------------------------------------------------
(* The results.                                                            *)

\* Every variable has its type, and a critical section is left when the
\* operation is over that entered it.
THEOREM QueueTypeCorrect == Spec => []TypeOK
<1>1. QueueInv => TypeOK
  BY DEF QueueInv
<1> QED
  BY <1>1, QueueInvCorrect, PTL

\* The list has an end, and its tail is its last entry whenever nobody is in
\* its critical section.
THEOREM WellFormedCorrect == Spec => []WellFormed
<1>1. ASSUME QueueInv PROVE WellFormed
  <2>1. PICK s : s = Contents /\ ContentsInv(s)
    BY <1>1 DEF QueueInv
  <2>2. TypeOK /\ Locking
    BY <1>1 DEF QueueInv
  <2>3. Acyclic
    BY <2>1, ListFacts, ContentsOfChain
  <2>4. ASSUME csec = NULL
        PROVE  IF s = <<>> THEN tail = NULL ELSE tail = Last(s)
    <3>1. tail = IF Len(s) = 0 THEN NULL ELSE s[Len(s)]
      <4>1. ~TailBehind(s)
        BY <2>2, <2>4, QueueAssumption
        DEF Locking, TailBehind, Thread, QueueAssumption
      <4> QED
        BY <2>1, <2>2, <2>4, <4>1, NobodyInList
    <3>2. Len(s) = 0 <=> s = <<>>
      BY <2>1, ListFacts, ChainEntries
    <3> QED
      BY <3>1, <3>2 DEF Last
  <2> QED
    BY <2>1, <2>3, <2>4 DEF WellFormed
<1> QED
  BY <1>1, QueueInvCorrect, PTL

\* Neither the list, nor its tail, nor the walk of q_free holds an entry that
\* was freed, although the walk is outside of the critical section.
THEOREM NoUseAfterFreeCorrect == Spec => []NoUseAfterFree
<1>1. ASSUME QueueInv PROVE NoUseAfterFree
  <2>1. PICK s : s = Contents /\ ContentsInv(s)
    BY <1>1 DEF QueueInv
  <2>2. Range(s) \subseteq allocated
    BY <2>1, ListFacts DEF ListInv
  <2>3. {m_qe, m_qe_prev} \subseteq allocated \cup {NULL}
    BY <2>1, <2>2, ListFacts DEF WalkInv
  <2>4. ASSUME tail # NULL
        PROVE  tail \in allocated
    <3>1. CASE pc["process"] = "tail"
      <4>1. Len(s) > 1 /\ s[Len(s) - 1] = tail
        BY <2>1, <2>4, <3>1, ListFacts DEF PutInv
      <4>2. Len(s) - 1 \in 1 .. Len(s)
        BY <2>1, <4>1, ListFacts
      <4> QED
        BY <2>1, <2>2, <4>1, <4>2, ListFacts
    <3>2. CASE pc["process"] = "head"
      BY <2>1, <2>4, <3>2, ListFacts DEF PutInv
    <3>3. CASE tail = (IF Len(s) = 0 THEN NULL ELSE s[Len(s)])
      <4>1. Len(s) # 0
        BY <2>4, <3>3
      <4>2. s[Len(s)] \in Range(s)
        BY <2>1, <4>1, ListFacts, ChainEnds
      <4> QED
        BY <2>2, <3>3, <4>1, <4>2
    <3>4. CASE TailBehind(s)
      BY <2>1, <2>4, <3>4, ListFacts DEF TailBehind, FreeInv
    <3> QED
      BY <2>1, <3>1, <3>2, <3>3, <3>4, ListFacts DEF ListInv
  <2> QED
    BY <2>1, <2>2, <2>3, <2>4 DEF NoUseAfterFree
<1> QED
  BY <1>1, QueueInvCorrect, PTL

\* Of the assertions of q_put and q_free only the one that an empty queue has
\* no tail can fail, and only while a message is put into w_out_messages.
THEOREM AssertionsHoldCorrect == Spec => []AssertionsHold
<1>1. ASSUME QueueInv PROVE AssertionsHold
  <2>1. PICK s : s = Contents /\ ContentsInv(s)
    BY <1>1 DEF QueueInv
  <2>2. TypeOK /\ Locking
    BY <1>1 DEF QueueInv
  <2>3. pc["process"] = "link" /\ tail # NULL => head # NULL
    BY <2>1, <2>2, ListFacts, QueueAssumption
    DEF ListInv, TailBehind, Locking, Thread, QueueAssumption
  <2>4. pc["comm_w"] = "assert" => tail = NULL \/ PutSeen
    BY <2>1, ListFacts DEF ListInv, PutInv, FreeInv, TailBehind, PutSeen
  <2>5. pc["comm_w"] = "unlink" /\ head = qe["comm_w"] => tail # NULL
    <3> SUFFICES ASSUME pc["comm_w"] = "unlink", head = qe["comm_w"]
                 PROVE  tail # NULL
      OBVIOUS
    <3>1. Len(s) # 0
      BY <2>1, ListFacts DEF FreeInv
    <3>2. s[Len(s)] \in Range(s) /\ head \in Range(s)
      BY <2>1, <3>1, ListFacts, ChainEnds
    <3>3. csec = "comm_w"
      BY <2>1, <2>2, <3>2, ListFacts DEF FreeInv, Locking, TypeOK
    <3> QED
      BY <2>1, <2>2, <3>1, <3>2, <3>3, ListFacts, NobodyInList DEF TailBehind
  <2>6. pc["comm_w"] = "walk" =>
          head # NULL /\ tail # NULL /\ m_qe_prev # NULL
    <3> SUFFICES ASSUME pc["comm_w"] = "walk"
                 PROVE  head # NULL /\ tail # NULL /\ m_qe_prev # NULL
      OBVIOUS
    <3>1. Len(s) # 0 /\ m_qe_prev # NULL
      BY <2>1, ListFacts DEF WalkInv
    <3>2. s[Len(s)] \in Range(s)
      BY <2>1, <3>1, ListFacts, ChainEnds
    <3>3. tail # NULL
      BY <2>1, <3>1, <3>2, ListFacts DEF ListInv, PutInv, FreeInv, TailBehind
    <3> QED
      BY <2>1, <3>1, <3>3, ListFacts
  <2> QED
    BY <2>3, <2>4, <2>5, <2>6 DEF AssertionsHold
<1> QED
  BY <1>1, QueueInvCorrect, PTL

\* The linked list implements the queue of module Fifo.
THEOREM ImplementsFifoCorrect == Spec => ImplementsFifo
<1>1. Init => Abstract!Init
  <2> SUFFICES ASSUME Init PROVE Abstract!Init
    OBVIOUS
  <2>1. Chain(<<>>, head, next)
    BY EmptySeq DEF Init, Chain
  <2>2. Contents = <<>>
    BY <2>1, ContentsOfChain
  <2> QED
    BY <2>2 DEF Init, Abstract!Init, Thread
<1>2. QueueInv /\ [Next]_vars =>
        [Abstract!Next]_<<Contents, qe["comm_w"], list = "w_in_messages">>
  BY StepSimulates DEF fifo_vars
<1> QED
  BY <1>1, <1>2, QueueInvCorrect, PTL DEF Spec, ImplementsFifo, Abstract!Spec
=============================================================================
