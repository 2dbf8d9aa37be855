----------------------------- MODULE WireProofs -----------------------------
(***************************************************************************)
(* Proofs about Codec and Wire, for any sizes of bytes, words and buffers  *)
(* and any messages: however the bytes are cut into pieces, the PDUs that  *)
(* are read are those that were sent.                                      *)
(***************************************************************************)
EXTENDS Wire, SequenceTheorems, WellFoundedInduction, TLAPS

-----------------------------------------------------------------------------
(* Induction, and functions that are defined by recursion.                 *)

LEMMA LeastNumber ==
    ASSUME NEW T, T \subseteq Nat, T # {}
    PROVE  \E x \in T : \A y \in T : x <= y
<1>1. PICK x \in T : \A y \in T : ~(<<y, x>> \in OpToRel(<, Nat))
  BY NatLessThanWellFounded, WFMin
<1>2. \A y \in T : ~(y < x)
  BY <1>1 DEF OpToRel
<1> QED
  BY <1>2

LEMMA Induction ==
    ASSUME NEW S, 0 \in S, \A i \in Nat : i \in S => i + 1 \in S
    PROVE  \A n \in Nat : n \in S
<1> SUFFICES ASSUME NEW n \in Nat, n \notin S
             PROVE  FALSE
  OBVIOUS
<1> DEFINE T == {k \in Nat : k \notin S}
<1>1. PICK x \in T : \A y \in T : x <= y
  BY LeastNumber
<1>2. x # 0 /\ x - 1 \in Nat /\ x - 1 \notin T
  BY <1>1
<1> QED
  BY <1>2, x - 1 + 1 = x

\* The first n + 1 values of the function that starts with c and goes on by g.
Begins(a, n, D, c, g) ==
    /\ a \in [0 .. n -> D]
    /\ a[0] = c
    /\ \A i \in 1 .. n : a[i] = g[i][a[i - 1]]

LEMMA BeginsUnique ==
    ASSUME NEW D, NEW c \in D, NEW g \in [Nat -> [D -> D]],
           NEW m \in Nat, NEW a, Begins(a, m, D, c, g),
           NEW n \in Nat, NEW b, Begins(b, n, D, c, g)
    PROVE  \A i \in Nat : i <= m /\ i <= n => a[i] = b[i]
<1> DEFINE S == {i \in Nat : i <= m /\ i <= n => a[i] = b[i]}
<1>1. 0 \in S
  BY DEF Begins
<1>2. ASSUME NEW i \in Nat, i \in S PROVE i + 1 \in S
  <2> SUFFICES ASSUME i + 1 <= m, i + 1 <= n PROVE a[i + 1] = b[i + 1]
    OBVIOUS
  <2>1. a[i] = b[i]
    BY <1>2
  <2>2. i + 1 \in 1 .. m /\ i + 1 \in 1 .. n /\ i + 1 - 1 = i
    OBVIOUS
  <2> QED
    BY <2>1, <2>2 DEF Begins
<1> HIDE DEF S
<1>3. \A i \in Nat : i \in S
  BY <1>1, <1>2, Induction
<1> QED
  BY <1>3 DEF S

LEMMA BeginsExists ==
    ASSUME NEW D, NEW c \in D, NEW g \in [Nat -> [D -> D]]
    PROVE  \A n \in Nat : \E a : Begins(a, n, D, c, g)
<1> DEFINE S == {n \in Nat : \E a : Begins(a, n, D, c, g)}
<1>1. 0 \in S
  <2>1. Begins([i \in 0 .. 0 |-> c], 0, D, c, g)
    BY DEF Begins
  <2> QED
    BY <2>1
<1>2. ASSUME NEW n \in Nat, n \in S PROVE n + 1 \in S
  <2>1. PICK a : Begins(a, n, D, c, g)
    BY <1>2
  <2> DEFINE b == [i \in 0 .. n + 1 |-> IF i = n + 1 THEN g[n + 1][a[n]] ELSE a[i]]
  <2>2. \A i \in 0 .. n : a[i] \in D /\ b[i] = a[i]
    BY <2>1 DEF Begins
  <2>3. b[n + 1] = g[n + 1][a[n]] /\ b[n + 1] \in D
    <3>1. n \in 0 .. n /\ n + 1 \in 0 .. n + 1 /\ n + 1 \in Nat
      OBVIOUS
    <3>2. b[n + 1] = g[n + 1][a[n]]
      BY <3>1
    <3>3. g[n + 1] \in [D -> D] /\ a[n] \in D
      BY <2>2, <3>1
    <3> QED
      BY <3>2, <3>3
  <2>4. b \in [0 .. n + 1 -> D]
    <3>1. \A i \in 0 .. n + 1 : b[i] \in D
      <4> SUFFICES ASSUME NEW i \in 0 .. n + 1 PROVE b[i] \in D
        OBVIOUS
      <4>1. i = n + 1 \/ i \in 0 .. n
        OBVIOUS
      <4> QED
        BY <2>2, <2>3, <4>1
    <3> QED
      BY <3>1
  <2>5. ASSUME NEW i \in 1 .. n + 1 PROVE b[i] = g[i][b[i - 1]]
    <3>1. i - 1 \in 0 .. n /\ b[i - 1] = a[i - 1]
      BY <2>2
    <3>2. CASE i = n + 1
      BY <2>3, <3>1, <3>2
    <3>3. CASE i # n + 1
      <4>1. i \in 1 .. n /\ i \in 0 .. n
        BY <3>3
      <4>2. b[i] = a[i] /\ a[i] = g[i][a[i - 1]]
        BY <2>1, <2>2, <4>1 DEF Begins
      <4> QED
        BY <3>1, <4>2
    <3> QED
      BY <3>2, <3>3
  <2>6. b[0] = c
    BY <2>1, <2>2 DEF Begins
  <2> HIDE DEF b
  <2>7. Begins(b, n + 1, D, c, g)
    BY <2>4, <2>5, <2>6 DEF Begins
  <2> QED
    BY <2>7
<1> HIDE DEF S
<1>3. \A n \in Nat : n \in S
  BY <1>1, <1>2, Induction
<1> QED
  BY <1>3 DEF S

\* All its values.
Continues(f, D, c, g) ==
    /\ f \in [Nat -> D]
    /\ f[0] = c
    /\ \A n \in Nat \ {0} : f[n] = g[n][f[n - 1]]

\* A function can be defined by recursion on the natural numbers.
LEMMA Recursion ==
    ASSUME NEW D, NEW c \in D, NEW g \in [Nat -> [D -> D]]
    PROVE  \E f : Continues(f, D, c, g)
<1> DEFINE a == [n \in Nat |-> CHOOSE b : Begins(b, n, D, c, g)]
           f == [n \in Nat |-> a[n][n]]
<1>1. \A n \in Nat : Begins(a[n], n, D, c, g)
  BY BeginsExists
<1> HIDE DEF a
<1>2. \A n \in Nat : f[n] = a[n][n] /\ f[n] \in D
  BY <1>1 DEF Begins
<1>3. f \in [Nat -> D]
  BY <1>2
<1>4. f[0] = c
  BY <1>1, <1>2 DEF Begins
<1>5. ASSUME NEW n \in Nat \ {0} PROVE f[n] = g[n][f[n - 1]]
  <2>1. n - 1 \in Nat /\ n - 1 <= n /\ n \in 1 .. n
    OBVIOUS
  <2>2. Begins(a[n - 1], n - 1, D, c, g) /\ Begins(a[n], n, D, c, g)
    BY <1>1, <2>1
  <2>3. a[n][n - 1] = a[n - 1][n - 1]
    BY <2>1, <2>2, BeginsUnique
  <2>4. a[n][n] = g[n][a[n][n - 1]]
    BY <2>1, <2>2 DEF Begins
  <2> QED
    BY <1>2, <2>1, <2>3, <2>4
<1> HIDE DEF f
<1> QED
  BY <1>3, <1>4, <1>5 DEF Continues


-----------------------------------------------------------------------------
(* The concatenation of the sequences of a sequence. *)

\* f holds the concatenations of the first sequences of ss.
Flattens(f, ss, S) ==
    /\ f \in [0 .. Len(ss) -> Seq(S)]
    /\ f[0] = <<>>
    /\ \A i \in 0 .. Len(ss) - 1 : f[i + 1] = f[i] \o ss[i + 1]

LEMMA FlattensExists ==
    ASSUME NEW S, NEW ss \in Seq(Seq(S))
    PROVE  \E f : Flattens(f, ss, S)
<1>1. PICK m \in Nat : m = Len(ss)
  BY LenProperties
<1>2. \A i \in 1 .. m : ss[i] \in Seq(S)
  BY <1>1, ElementOfSeq
<1>3. PICK e \in Seq(S) : e = <<>>
  BY EmptySeq
<1> DEFINE piece == [i \in Nat |-> IF i \in 1 .. m THEN ss[i] ELSE e]
           g == [i \in Nat |-> [s \in Seq(S) |-> s \o piece[i]]]
<1>4. \A i \in Nat : piece[i] \in Seq(S)
  BY <1>2
<1>5. \A i \in 1 .. m : piece[i] = ss[i]
  OBVIOUS
<1> HIDE DEF piece
<1>6. \A i \in Nat, s \in Seq(S) : s \o piece[i] \in Seq(S)
  BY <1>4, ConcatProperties
<1>7. g \in [Nat -> [Seq(S) -> Seq(S)]]
  BY <1>6
<1>8. \A i \in Nat, s \in Seq(S) : g[i][s] = s \o piece[i]
  OBVIOUS
<1> HIDE DEF g
<1>9. PICK f \in [Nat -> Seq(S)] : /\ f[0] = e
                                   /\ \A n \in Nat \ {0} : f[n] = g[n][f[n - 1]]
  <2>1. \E f : Continues(f, Seq(S), e, g)
    BY <1>3, <1>7, Recursion
  <2> QED
    BY <2>1 DEF Continues
<1> DEFINE h == [i \in 0 .. Len(ss) |-> f[i]]
<1>10. \A i \in 0 .. m : h[i] = f[i] /\ f[i] \in Seq(S)
  BY <1>1, <1>9
<1>11. h \in [0 .. Len(ss) -> Seq(S)] /\ h[0] = <<>>
  BY <1>1, <1>3, <1>9, <1>10
<1> HIDE DEF h
<1>12. ASSUME NEW i \in 0 .. m - 1 PROVE h[i + 1] = h[i] \o ss[i + 1]
  <2>1. PICK j \in 1 .. m : j = i + 1 /\ j - 1 = i
    OBVIOUS
  <2>2. j \in Nat \ {0} /\ i \in 0 .. m /\ j \in 0 .. m
    OBVIOUS
  <2>3. h[j] = f[j] /\ h[i] = f[i] /\ f[i] \in Seq(S)
    BY <1>10, <2>2
  <2>4. f[j] = g[j][f[j - 1]]
    BY <1>9, <2>2
  <2>5. g[j][f[i]] = f[i] \o piece[j]
    BY <1>8, <2>2, <2>3
  <2> QED
    BY <1>5, <2>1, <2>3, <2>4, <2>5, Zenon
<1>13. Len(ss) - 1 = m - 1
  BY <1>1
<1> QED
  BY <1>11, <1>12, <1>13, Zenon DEF Flattens

LEMMA FlattenSeqIs ==
    ASSUME NEW S, NEW ss \in Seq(Seq(S)), NEW f, Flattens(f, ss, S)
    PROVE  FlattenSeq(ss) = f[Len(ss)]
<1>1. PICK m \in Nat : m = Len(ss)
  BY LenProperties
<1>2. \A i \in 1 .. m : ss[i] \in Seq(S)
  BY <1>1, ElementOfSeq
<1>3. /\ f \in [0 .. m -> Seq(S)] /\ f[0] = <<>>
      /\ \A i \in 0 .. m - 1 : f[i + 1] = f[i] \o ss[i + 1]
  BY <1>1, Zenon DEF Flattens
<1>4. CASE m = 0
  <2>1. ss = <<>>
    BY <1>1, <1>4, EmptySeq
  <2> QED
    BY <1>1, <1>3, <1>4, <2>1 DEF FlattenSeq
<1>5. CASE m # 0
  <2> DEFINE recursive(h) == h = [i \in 1 .. Len(ss) |->
                                    IF i = 1 THEN ss[i] ELSE h[i - 1] \o ss[i]]
             k == CHOOSE h : recursive(h)
             h0 == [i \in 1 .. Len(ss) |-> f[i]]
  <2>1. ASSUME NEW i \in 1 .. m, NEW j \in 0 .. m - 1, j = i - 1, i = j + 1
        PROVE  f[i] = IF i = 1 THEN ss[i] ELSE f[j] \o ss[i]
    <3>1. f[i] = f[j] \o ss[i]
      BY <1>3, <2>1, Zenon
    <3>2. CASE i = 1
      <4>1. f[j] = <<>> /\ ss[i] \in Seq(S)
        BY <1>2, <1>3, <2>1, <3>2
      <4>2. <<>> \o ss[i] = ss[i]
        BY <4>1, ConcatEmptySeq
      <4> QED
        BY <3>1, <3>2, <4>1, <4>2, Zenon
    <3> QED
      BY <3>1, <3>2, Zenon
  <2>2. recursive(h0)
    <3>1. ASSUME NEW i \in 1 .. Len(ss)
          PROVE  f[i] = IF i = 1 THEN ss[i] ELSE h0[i - 1] \o ss[i]
      <4>1. PICK j \in 0 .. m - 1 : j = i - 1 /\ i = j + 1 /\ i \in 1 .. m
        BY <1>1
      <4>2. f[i] = IF i = 1 THEN ss[i] ELSE f[j] \o ss[i]
        BY <2>1, <4>1
      <4>3. i # 1 => h0[i - 1] = f[j]
        <5>1. i # 1 => i - 1 \in 1 .. Len(ss)
          BY <1>1
        <5> QED
          BY <4>1, <5>1
      <4> HIDE DEF h0
      <4> QED
        BY <4>2, <4>3, Zenon
    <3> QED
      BY <3>1, Zenon
  <2>3. recursive(k)
    BY <2>2, Zenon
  <2>4. FlattenSeq(ss) = k[Len(ss)]
    BY <1>1, <1>5, Zenon DEF FlattenSeq
  <2>5. \A i \in 1 .. m : k[i] = IF i = 1 THEN ss[i] ELSE k[i - 1] \o ss[i]
    <3> HIDE DEF k
    <3> QED
      BY <1>1, <2>3, Zenon
  <2> DEFINE T == {i \in Nat : i \in 1 .. m => k[i] = f[i]}
  <2> HIDE DEF k
  <2>6. 0 \in T
    OBVIOUS
  <2>7. ASSUME NEW i \in Nat, i \in T PROVE i + 1 \in T
    <3> SUFFICES ASSUME i + 1 \in 1 .. m PROVE k[i + 1] = f[i + 1]
      OBVIOUS
    <3>1. PICK j \in 1 .. m : j = i + 1 /\ j - 1 = i /\ i \in 0 .. m - 1
      OBVIOUS
    <3>2. f[j] = IF j = 1 THEN ss[j] ELSE f[i] \o ss[j]
      BY <2>1, <3>1
    <3>3. k[j] = IF j = 1 THEN ss[j] ELSE k[i] \o ss[j]
      BY <2>5, <3>1, Zenon
    <3>4. j # 1 => k[i] = f[i]
      BY <2>7, <3>1
    <3>5. k[j] = f[j]
      BY <3>2, <3>3, <3>4, Zenon
    <3> QED
      BY <3>1, <3>5
  <2> HIDE DEF T
  <2>8. m \in T
    BY <2>6, <2>7, Induction
  <2>9. k[m] = f[m]
    BY <1>5, <2>8 DEF T
  <2> QED
    BY <1>1, <2>4, <2>9
<1> QED
  BY <1>4, <1>5

LEMMA FlattenSeqEmpty == FlattenSeq(<<>>) = <<>>
BY DEF FlattenSeq

LEMMA FlattenSeqAppend ==
    ASSUME NEW S, NEW ss \in Seq(Seq(S)), NEW s \in Seq(S)
    PROVE  /\ FlattenSeq(ss) \in Seq(S)
           /\ FlattenSeq(Append(ss, s)) = FlattenSeq(ss) \o s
<1> DEFINE tt == Append(ss, s)
<1>1. PICK m \in Nat : m = Len(ss)
  BY LenProperties
<1>2. /\ tt \in Seq(Seq(S)) /\ Len(tt) = m + 1
      /\ \A i \in 1 .. m : tt[i] = ss[i]
      /\ tt[m + 1] = s
  BY <1>1, AppendProperties
<1> HIDE DEF tt
<1>3. PICK f : Flattens(f, tt, S)
  BY <1>2, FlattensExists
<1>4. f \in [0 .. m + 1 -> Seq(S)] /\ f[0] = <<>>
  BY <1>2, <1>3 DEF Flattens
<1>5. \A i \in 0 .. m : f[i + 1] = f[i] \o tt[i + 1]
  <2>1. Len(tt) - 1 = m
    BY <1>2
  <2> QED
    BY <1>3, <2>1, Zenon DEF Flattens
<1> DEFINE h == [i \in 0 .. Len(ss) |-> f[i]]
<1>6. \A i \in 0 .. m : h[i] = f[i] /\ f[i] \in Seq(S)
  <2> SUFFICES ASSUME NEW i \in 0 .. m PROVE h[i] = f[i] /\ f[i] \in Seq(S)
    OBVIOUS
  <2>1. i \in 0 .. m + 1
    OBVIOUS
  <2>2. f[i] \in Seq(S)
    BY <1>4, <2>1
  <2>3. i \in 0 .. Len(ss)
    BY <1>1
  <2> QED
    BY <2>2, <2>3
<1>7. h \in [0 .. Len(ss) -> Seq(S)] /\ h[0] = <<>>
  BY <1>1, <1>4, <1>6
<1> HIDE DEF h
<1>8. ASSUME NEW i \in 0 .. Len(ss) - 1 PROVE h[i + 1] = h[i] \o ss[i + 1]
  <2>1. i + 1 \in 0 .. m /\ i \in 0 .. m
    BY <1>1
  <2>2. h[i + 1] = f[i + 1] /\ h[i] = f[i]
    BY <1>6, <2>1
  <2>3. tt[i + 1] = ss[i + 1]
    BY <1>1, <1>2
  <2> QED
    BY <1>5, <2>1, <2>2, <2>3, Zenon
<1>9. Flattens(h, ss, S)
  BY <1>7, <1>8, Zenon DEF Flattens
<1>10. FlattenSeq(ss) = f[m] /\ f[m] \in Seq(S)
  <2>1. FlattenSeq(ss) = h[Len(ss)]
    BY <1>9, FlattenSeqIs
  <2>2. h[m] = f[m] /\ f[m] \in Seq(S)
    BY <1>6
  <2> QED
    BY <1>1, <2>1, <2>2, Zenon
<1>11. FlattenSeq(tt) = f[m + 1]
  <2>1. FlattenSeq(tt) = f[Len(tt)]
    BY <1>2, <1>3, FlattenSeqIs
  <2> QED
    BY <1>2, <2>1
<1>12. f[m + 1] = f[m] \o s
  <2>1. m \in 0 .. m
    OBVIOUS
  <2> QED
    BY <1>2, <1>5, <2>1, Zenon
<1> QED
  BY <1>10, <1>11, <1>12, Zenon DEF tt

-----------------------------------------------------------------------------
(* Numbers. *)

LEMMA DivMod ==
    ASSUME NEW a \in Int, NEW d \in Nat \ {0}
    PROVE  /\ a \div d \in Int /\ a % d \in 0 .. d - 1
           /\ a = d * (a \div d) + (a % d)
OBVIOUS

LEMMA DivUnique ==
    ASSUME NEW d \in Nat \ {0}, NEW q \in Int, NEW r \in 0 .. d - 1,
           NEW a \in Int, a = d * q + r
    PROVE  a \div d = q /\ a % d = r
OBVIOUS

LEMMA RadixType ==
    /\ Radix \in Nat \ {0} /\ Radix >= 2 /\ WORD_SIZE \in Nat \ {0}
    /\ BUFFER_KSIZE \in Nat /\ 0 \in Byte /\ Byte \subseteq Nat
BY CodecAssumption DEF CodecAssumption, Byte

\* Values is what its definition says.
LEMMA ValuesProperties ==
    /\ Values \in [Nat -> Nat \ {0}]
    /\ Values[0] = 1
    /\ \A n \in Nat : Values[n + 1] = Radix * Values[n]
<1> DEFINE D == Nat \ {0}
           g == [n \in Nat |-> [v \in D |-> Radix * v]]
           recursive(h) == h = [n \in Nat |-> IF n = 0 THEN 1 ELSE Radix * h[n - 1]]
<1>1. g \in [Nat -> [D -> D]] /\ 1 \in D
  BY RadixType
<1>2. \A n \in Nat, v \in D : g[n][v] = Radix * v
  OBVIOUS
<1> HIDE DEF g, D
<1>3. PICK f : Continues(f, D, 1, g)
  BY <1>1, Recursion
<1>4. recursive(f)
  <2>1. f \in [Nat -> D] /\ f[0] = 1
    BY <1>3 DEF Continues
  <2>2. ASSUME NEW n \in Nat, n # 0 PROVE f[n] = Radix * f[n - 1]
    <3>1. n - 1 \in Nat /\ f[n - 1] \in D /\ f[n] = g[n][f[n - 1]]
      BY <1>3, <2>1, <2>2 DEF Continues
    <3> QED
      BY <1>2, <3>1
  <2> QED
    BY <2>1, <2>2
<1>5. recursive(Values)
  <2> HIDE DEF recursive
  <2>1. recursive(CHOOSE h : recursive(h))
    BY <1>4
  <2>2. Values = CHOOSE h : recursive(h)
    BY DEF Values, recursive
  <2> QED
    BY <2>1, <2>2
<1>6. Values[0] = 1 /\ \A n \in Nat : Values[n + 1] = Radix * Values[n]
  <2>1. \A n \in Nat : Values[n] = IF n = 0 THEN 1 ELSE Radix * Values[n - 1]
    <3> HIDE DEF Values
    <3> QED
      BY <1>5
  <2>2. ASSUME NEW n \in Nat PROVE Values[n + 1] = Radix * Values[n]
    <3>1. n + 1 \in Nat /\ n + 1 # 0 /\ n + 1 - 1 = n
      OBVIOUS
    <3> QED
      BY <2>1, <3>1
  <2> QED
    BY <2>1, <2>2
<1> DEFINE T == {n \in Nat : Values[n] \in Nat \ {0}}
<1>7. 0 \in T /\ \A n \in Nat : n \in T => n + 1 \in T
  BY <1>6, RadixType
<1> HIDE DEF T
<1>8. \A n \in Nat : n \in T
  BY <1>7, Induction
<1>9. DOMAIN Values = Nat /\ Values = [n \in Nat |-> Values[n]]
  BY <1>5
<1> QED
  BY <1>6, <1>8, <1>9 DEF T

-----------------------------------------------------------------------------
(* Frames. *)

\* What a header can announce.
Pdu == {p \in Seq(Byte) : Len(p) \in 1 .. Radix * Radix - 1}

LEMMA PduType == Pdu \subseteq Seq(Byte)
BY DEF Pdu

LEMMA FrameProperties ==
    ASSUME NEW p \in Pdu
    PROVE  /\ p \in Seq(Byte) /\ Len(p) \in Nat \ {0}
           /\ Frame(p) \in Seq(Byte)
           /\ Len(Frame(p)) = Len(p) + 2
           /\ HeaderAt(Frame(p), 1) = Len(p)
           /\ \A i \in 1 .. Len(p) : Frame(p)[i + 2] = p[i]
<1>1. PICK n \in 1 .. Radix * Radix - 1 : n = Len(p)
  BY DEF Pdu
<1>2. p \in Seq(Byte) /\ Radix \in Nat \ {0}
  BY RadixType DEF Pdu
<1>3. PICK q \in Int, r \in 0 .. Radix - 1 :
         q = n \div Radix /\ r = n % Radix /\ n = Radix * q + r
  <2>1. /\ n \div Radix \in Int /\ n % Radix \in 0 .. Radix - 1
        /\ n = Radix * (n \div Radix) + (n % Radix)
    BY <1>1, <1>2
  <2> QED
    BY <2>1
<1>4. q \in 0 .. Radix - 1
  <2>1. q >= 0
    BY <1>2, <1>3
  <2>2. ~(q >= Radix)
    <3> SUFFICES ASSUME q >= Radix PROVE FALSE
      OBVIOUS
    <3>1. Radix * q >= Radix * Radix
      BY <1>2, <1>3
    <3> QED
      BY <1>2, <1>3, <3>1
  <2> QED
    BY <1>2, <1>3, <2>1, <2>2
<1>5. PICK h : h = <<q, r>>
  OBVIOUS
<1>6. h \in Seq(Byte) /\ Len(h) = 2 /\ h[1] = q /\ h[2] = r
  <2>1. q \in Byte /\ r \in Byte
    BY <1>3, <1>4 DEF Byte
  <2> QED
    BY <1>5, <2>1
<1>7. Frame(p) = h \o p
  BY <1>1, <1>3, <1>5, Zenon DEF Frame
<1>8. /\ h \o p \in Seq(Byte)
      /\ Len(h \o p) = 2 + n
      /\ \A i \in 1 .. 2 + n : (h \o p)[i] = IF i <= 2 THEN h[i] ELSE p[i - 2]
  <2>1. /\ h \o p \in Seq(Byte)
        /\ Len(h \o p) = Len(h) + Len(p)
        /\ \A i \in 1 .. Len(h) + Len(p) :
              (h \o p)[i] = IF i <= Len(h) THEN h[i] ELSE p[i - Len(h)]
    BY <1>2, <1>6, ConcatProperties
  <2> QED
    BY <1>1, <1>6, <2>1
<1>9. Frame(p)[1] = q /\ Frame(p)[2] = r
  <2>1. 1 \in 1 .. 2 + n /\ 2 \in 1 .. 2 + n
    BY <1>1
  <2> QED
    BY <1>6, <1>7, <1>8, <2>1
<1>10. HeaderAt(Frame(p), 1) = n
  BY <1>2, <1>3, <1>9 DEF HeaderAt
<1>11. ASSUME NEW i \in 1 .. n PROVE Frame(p)[i + 2] = p[i]
  <2>1. i + 2 \in 1 .. 2 + n /\ ~(i + 2 <= 2) /\ i + 2 - 2 = i
    OBVIOUS
  <2> QED
    BY <1>7, <1>8, <2>1
<1> QED
  BY <1>1, <1>2, <1>7, <1>8, <1>10, <1>11

LEMMA FramesEmpty == Frames(<<>>) = <<>>
<1>1. [i \in DOMAIN <<>> |-> Frame(<<>>[i])] = <<>>
  OBVIOUS
<1> QED
  BY <1>1, FlattenSeqEmpty, Zenon DEF Frames

LEMMA FramesAppend ==
    ASSUME NEW ps \in Seq(Pdu), NEW p \in Pdu
    PROVE  /\ Frames(ps) \in Seq(Byte)
           /\ Frames(Append(ps, p)) = Frames(ps) \o Frame(p)
<1> DEFINE framed(s) == [i \in DOMAIN s |-> Frame(s[i])]
<1>1. PICK n \in Nat : n = Len(ps)
  BY LenProperties
<1>2. /\ DOMAIN ps = 1 .. n /\ \A i \in 1 .. n : ps[i] \in Pdu
  BY <1>1, LenProperties, ElementOfSeq
<1>3. PICK qs : qs = Append(ps, p)
  OBVIOUS
<1>4. /\ qs \in Seq(Pdu) /\ Len(qs) = n + 1 /\ DOMAIN qs = 1 .. n + 1
      /\ qs[n + 1] = p /\ \A i \in 1 .. n : qs[i] = ps[i]
  BY <1>1, <1>3, AppendProperties, LenProperties
<1>5. framed(ps) \in Seq(Seq(Byte)) /\ Len(framed(ps)) = n
  <2>1. \A i \in 1 .. n : Frame(ps[i]) \in Seq(Byte)
    BY <1>2, FrameProperties
  <2> QED
    BY <1>2, <2>1
<1>6. Frame(p) \in Seq(Byte)
  BY FrameProperties
<1>7. framed(qs) = Append(framed(ps), Frame(p))
  <2>1. \A i \in 1 .. n + 1 :
           Append(framed(ps), Frame(p))[i] = IF i = n + 1 THEN Frame(p) ELSE framed(ps)[i]
    BY <1>5, <1>6, AppendProperties
  <2>2. /\ Append(framed(ps), Frame(p)) \in Seq(Seq(Byte))
        /\ Len(Append(framed(ps), Frame(p))) = n + 1
    BY <1>5, <1>6, AppendProperties
  <2>3. \A i \in 1 .. n + 1 : framed(qs)[i] = Frame(qs[i]) /\ framed(qs)[i] \in Seq(Byte)
    BY <1>2, <1>4, FrameProperties
  <2>4. framed(qs) \in Seq(Seq(Byte)) /\ Len(framed(qs)) = n + 1
    BY <1>4, <2>3
  <2>5. \A i \in 1 .. n + 1 : framed(qs)[i] = Append(framed(ps), Frame(p))[i]
    <3> SUFFICES ASSUME NEW i \in 1 .. n + 1
                 PROVE  framed(qs)[i] = Append(framed(ps), Frame(p))[i]
      OBVIOUS
    <3>1. CASE i = n + 1
      BY <1>4, <2>1, <2>3, <3>1
    <3>2. CASE i # n + 1
      <4>1. i \in 1 .. n
        BY <3>2
      <4>2. framed(ps)[i] = Frame(ps[i])
        BY <1>2, <4>1
      <4> QED
        BY <1>4, <2>1, <2>3, <3>2, <4>1, <4>2
    <3> QED
      BY <3>1, <3>2
  <2> HIDE DEF framed
  <2> QED
    BY <2>2, <2>4, <2>5, SeqEqual
<1>8. Frames(ps) = FlattenSeq(framed(ps)) /\ Frames(qs) = FlattenSeq(framed(qs))
  BY Zenon DEF Frames
<1> HIDE DEF framed
<1>9. /\ FlattenSeq(framed(ps)) \in Seq(Byte)
      /\ FlattenSeq(Append(framed(ps), Frame(p))) = FlattenSeq(framed(ps)) \o Frame(p)
  BY <1>5, <1>6, FlattenSeqAppend
<1> QED
  BY <1>3, <1>7, <1>8, <1>9, Zenon

LEMMA BytesAssociative ==
    \A s, t, u \in Seq(Byte) : (s \o t) \o u = s \o (t \o u)
BY ConcatAssociative

LEMMA FramesType ==
    ASSUME NEW ps \in Seq(Pdu)
    PROVE  Frames(ps) \in Seq(Byte)
<1>1. PICK p : p = <<0>>
  OBVIOUS
<1>2. p \in Pdu
  <2>1. 0 \in Byte /\ 1 \in 1 .. Radix * Radix - 1
    BY RadixType
  <2> QED
    BY <1>1, <2>1 DEF Pdu
<1> QED
  BY <1>2, FramesAppend

\* The frames of two sequences of PDUs, one after the other.
LEMMA FramesConcat ==
    ASSUME NEW ps \in Seq(Pdu), NEW qs \in Seq(Pdu)
    PROVE  Frames(ps \o qs) = Frames(ps) \o Frames(qs)
<1> DEFINE T == {n \in Nat : \A rs \in Seq(Pdu) :
                    Len(rs) = n => Frames(ps \o rs) = Frames(ps) \o Frames(rs)}
<1>1. \A rs \in Seq(Pdu) : Frames(rs) \in Seq(Byte)
  BY FramesType
<1>2. 0 \in T
  <2> SUFFICES ASSUME NEW rs \in Seq(Pdu), Len(rs) = 0
               PROVE  Frames(ps \o rs) = Frames(ps) \o Frames(rs)
    OBVIOUS
  <2>1. rs = <<>>
    BY EmptySeq
  <2>2. ps \o <<>> = ps
    BY ConcatEmptySeq
  <2>3. Frames(ps) \o <<>> = Frames(ps)
    BY <1>1, ConcatEmptySeq
  <2> QED
    BY <2>1, <2>2, <2>3, FramesEmpty, Zenon
<1>3. ASSUME NEW n \in Nat, n \in T PROVE n + 1 \in T
  <2> SUFFICES ASSUME NEW rs \in Seq(Pdu), Len(rs) = n + 1
               PROVE  Frames(ps \o rs) = Frames(ps) \o Frames(rs)
    OBVIOUS
  <2>1. rs # <<>>
    BY EmptySeq
  <2>2. PICK us \in Seq(Pdu), p \in Pdu : rs = Append(us, p)
    BY <2>1, SequenceEmptyOrAppend
  <2>3. Len(us) = n
    <3>1. Len(rs) = Len(us) + 1 /\ Len(us) \in Nat
      BY <2>2, AppendProperties, LenProperties
    <3> QED
      BY <3>1
  <2>4. Frames(ps \o us) = Frames(ps) \o Frames(us)
    BY <1>3, <2>3
  <2>5. ps \o rs = Append(ps \o us, p) /\ ps \o us \in Seq(Pdu)
    <3>1. ps \o us \in Seq(Pdu) /\ <<p>> \in Seq(Pdu)
      BY ConcatProperties
    <3>2. rs = us \o <<p>> /\ Append(ps \o us, p) = (ps \o us) \o <<p>>
      BY <2>2, <3>1, AppendIsConcat
    <3>3. (ps \o us) \o <<p>> = ps \o (us \o <<p>>)
      BY <3>1, ConcatAssociative
    <3> QED
      BY <3>1, <3>2, <3>3, Zenon
  <2>6. /\ Frames(Append(ps \o us, p)) = Frames(ps \o us) \o Frame(p)
        /\ Frames(Append(us, p)) = Frames(us) \o Frame(p)
    BY <2>5, FramesAppend
  <2>7. (Frames(ps) \o Frames(us)) \o Frame(p) = Frames(ps) \o (Frames(us) \o Frame(p))
    <3>1. PICK x \in Seq(Byte), y \in Seq(Byte), z \in Seq(Byte) :
             x = Frames(ps) /\ y = Frames(us) /\ z = Frame(p)
      BY <1>1, FrameProperties
    <3>2. (x \o y) \o z = x \o (y \o z)
      BY BytesAssociative
    <3> QED
      BY <3>1, <3>2, Zenon
  <2> QED
    BY <2>2, <2>4, <2>5, <2>6, <2>7, Zenon
<1> HIDE DEF T
<1>4. \A n \in Nat : n \in T
  BY <1>2, <1>3, Induction
<1>5. Len(qs) \in Nat
  BY LenProperties
<1> QED
  BY <1>4, <1>5 DEF T

LEMMA CompleteFits ==
    ASSUME NEW b \in Seq(Byte), NEW x \in 1 .. Len(b) + 1, CompleteAt(b, x)
    PROVE  /\ HeaderAt(b, x) \in Nat \ {0}
           /\ x + 2 + HeaderAt(b, x) \in x + 3 .. Len(b) + 1
<1>1. PICK n \in Nat : n = Len(b)
  BY LenProperties
<1>2. n - x + 1 >= 2 /\ HeaderAt(b, x) > 0 /\ HeaderAt(b, x) <= n - x + 1 - 2
  BY <1>1 DEF CompleteAt, PDU_HEADER_LENGTH
<1>3. x \in 1 .. n /\ x + 1 \in 1 .. n
  BY <1>1, <1>2
<1>4. b[x] \in Nat /\ b[x + 1] \in Nat
  BY <1>1, <1>3, RadixType, ElementOfSeq
<1>5. HeaderAt(b, x) \in Nat
  BY <1>4, RadixType DEF HeaderAt
<1> QED
  BY <1>1, <1>2, <1>5

\* Boundary is what its definition says.
LEMMA BoundaryProperties ==
    ASSUME NEW b \in Seq(Byte)
    PROVE  /\ Boundary(b) \in [Nat -> 1 .. Len(b) + 1]
           /\ Boundary(b)[0] = 1
           /\ \A n \in Nat :
                 Boundary(b)[n + 1] =
                    IF CompleteAt(b, Boundary(b)[n])
                      THEN Boundary(b)[n] + 2 + HeaderAt(b, Boundary(b)[n])
                      ELSE Boundary(b)[n]
<1>1. PICK m \in Nat : m = Len(b)
  BY LenProperties
<1> DEFINE D == 1 .. m + 1
           next(x) == IF CompleteAt(b, x) THEN x + 2 + HeaderAt(b, x) ELSE x
           g == [n \in Nat |-> [x \in D |-> next(x)]]
           recursive(h) ==
               h = [n \in Nat |->
                      IF n = 0 THEN 1
                      ELSE IF CompleteAt(b, h[n - 1])
                             THEN h[n - 1] + PDU_HEADER_LENGTH + HeaderAt(b, h[n - 1])
                             ELSE h[n - 1]]
<1>2. \A x \in D : next(x) \in D
  <2> SUFFICES ASSUME NEW x \in D, CompleteAt(b, x) PROVE x + 2 + HeaderAt(b, x) \in D
    OBVIOUS
  <2>1. x + 2 + HeaderAt(b, x) \in x + 3 .. m + 1
    BY <1>1, CompleteFits
  <2> QED
    BY <2>1
<1> HIDE DEF next
<1>3. g \in [Nat -> [D -> D]] /\ 1 \in D
  BY <1>2
<1>4. \A n \in Nat, x \in D : g[n][x] = next(x)
  OBVIOUS
<1> HIDE DEF g
<1>5. PICK f : Continues(f, D, 1, g)
  BY <1>3, Recursion
<1>6. f \in [Nat -> D] /\ f[0] = 1
  BY <1>5 DEF Continues
<1>7. ASSUME NEW n \in Nat, n # 0 PROVE f[n] = next(f[n - 1])
  <2>1. n - 1 \in Nat /\ f[n - 1] \in D
    BY <1>6, <1>7
  <2>2. f[n] = g[n][f[n - 1]]
    BY <1>5, <1>7 DEF Continues
  <2> QED
    BY <1>4, <2>1, <2>2
<1>8. recursive(f)
  <2> DEFINE r == [n \in Nat |->
                      IF n = 0 THEN 1
                      ELSE IF CompleteAt(b, f[n - 1])
                             THEN f[n - 1] + PDU_HEADER_LENGTH + HeaderAt(b, f[n - 1])
                             ELSE f[n - 1]]
  <2>1. \A n \in Nat : f[n] = r[n]
    BY <1>6, <1>7 DEF next, PDU_HEADER_LENGTH
  <2>2. f = [n \in Nat |-> f[n]] /\ r = [n \in Nat |-> r[n]]
    BY <1>6
  <2> HIDE DEF r
  <2>3. f = r
    BY <2>1, <2>2
  <2> QED
    BY <2>3 DEF r
<1>9. PICK a : a = Boundary(b)
  OBVIOUS
<1>10. recursive(a)
  <2> HIDE DEF recursive
  <2>1. recursive(CHOOSE h : recursive(h))
    BY <1>8
  <2>2. Boundary(b) = CHOOSE h : recursive(h)
    BY DEF Boundary, recursive
  <2> QED
    BY <1>9, <2>1, <2>2
<1>11. a[0] = 1
  BY <1>10
<1>12. ASSUME NEW n \in Nat PROVE a[n + 1] = next(a[n])
  <2>1. PICK k \in Nat : k = n + 1 /\ k # 0 /\ k - 1 = n
    OBVIOUS
  <2>2. a[k] = IF CompleteAt(b, a[k - 1])
                 THEN a[k - 1] + PDU_HEADER_LENGTH + HeaderAt(b, a[k - 1])
                 ELSE a[k - 1]
    BY <1>10, <2>1
  <2> QED
    BY <2>1, <2>2 DEF next, PDU_HEADER_LENGTH
<1> DEFINE T == {n \in Nat : a[n] \in D}
<1>13. 0 \in T /\ \A n \in Nat : n \in T => n + 1 \in T
  <2>1. 0 \in T
    BY <1>11
  <2>2. ASSUME NEW n \in Nat, n \in T PROVE n + 1 \in T
    <3>1. a[n] \in D /\ a[n + 1] = next(a[n])
      BY <1>12, <2>2
    <3>2. next(a[n]) \in D
      BY <1>2, <3>1
    <3> QED
      BY <3>1, <3>2
  <2> QED
    BY <2>1, <2>2
<1> HIDE DEF T
<1>14. \A n \in Nat : a[n] \in D
  <2>1. \A n \in Nat : n \in T
    BY <1>13, Induction
  <2> QED
    BY <2>1 DEF T
<1>15. a \in [Nat -> D]
  BY <1>10, <1>14
<1> QED
  BY <1>1, <1>9, <1>11, <1>12, <1>15 DEF next

\* The loop ends, after PduCount steps.
LEMMA PduCountProperties ==
    ASSUME NEW b \in Seq(Byte)
    PROVE  /\ PduCount(b) \in Nat
           /\ ~CompleteAt(b, Boundary(b)[PduCount(b)])
           /\ \A i \in 0 .. PduCount(b) - 1 : CompleteAt(b, Boundary(b)[i])
<1>1. PICK m \in Nat : m = Len(b)
  BY LenProperties
<1>2. PICK a : a = Boundary(b)
  OBVIOUS
<1>3. /\ \A n \in Nat : a[n] \in 1 .. m + 1
      /\ a[0] = 1
      /\ \A n \in Nat : a[n + 1] = IF CompleteAt(b, a[n])
                                     THEN a[n] + 2 + HeaderAt(b, a[n]) ELSE a[n]
  BY <1>1, <1>2, BoundaryProperties
<1> DEFINE T == {n \in Nat : n <= m /\ ~CompleteAt(b, a[n])}
           U == {n \in Nat : n <= m => a[n] >= n + 1}
<1>4. T # {}
  <2> SUFFICES ASSUME \A n \in 0 .. m : CompleteAt(b, a[n]) PROVE FALSE
    OBVIOUS
  <2>1. 0 \in U
    <3>1. a[0] >= 0 + 1
      BY <1>3
    <3> QED
      BY <3>1
  <2>2. ASSUME NEW n \in Nat, n \in U PROVE n + 1 \in U
    <3> SUFFICES ASSUME n + 1 <= m PROVE a[n + 1] >= n + 2
      OBVIOUS
    <3>1. PICK x \in 1 .. m + 1 : x = a[n]
      BY <1>3
    <3>2. x >= n + 1
      BY <2>2, <3>1
    <3>3. n \in 0 .. m
      OBVIOUS
    <3>4. CompleteAt(b, x)
      BY <3>1, <3>3
    <3>5. x \in 1 .. Len(b) + 1
      BY <1>1
    <3>6. x + 2 + HeaderAt(b, x) >= x + 3
      BY <1>1, <3>4, <3>5, CompleteFits
    <3>7. a[n + 1] = x + 2 + HeaderAt(b, x)
      BY <1>3, <3>1, <3>4
    <3>8. x + 2 + HeaderAt(b, x) >= n + 2
      BY <3>2, <3>4, <3>5, <3>6, CompleteFits
    <3> QED
      BY <3>7, <3>8
  <2> HIDE DEF U
  <2>3. m \in U
    BY <2>1, <2>2, Induction
  <2>4. a[m] = m + 1
    <3>1. a[m] \in 1 .. m + 1
      BY <1>3
    <3>2. a[m] >= m + 1
      BY <2>3 DEF U
    <3> QED
      BY <3>1, <3>2
  <2>5. CompleteAt(b, m + 1)
    BY <2>4
  <2> QED
    BY <1>1, <2>5 DEF CompleteAt, PDU_HEADER_LENGTH
<1>5. PICK n \in T : \A k \in T : n <= k
  BY <1>4, LeastNumber
<1>6. n \in 0 .. m /\ ~CompleteAt(b, a[n]) /\ \A i \in 0 .. n - 1 : CompleteAt(b, a[i])
  BY <1>5
<1> DEFINE isCount(k) == /\ ~CompleteAt(b, a[k])
                         /\ \A i \in 0 .. k - 1 : CompleteAt(b, a[i])
<1>7. PduCount(b) = CHOOSE k \in 0 .. m : isCount(k)
  BY <1>1, <1>2, Zenon DEF PduCount
<1>8. PduCount(b) \in 0 .. m /\ isCount(PduCount(b))
  <2> HIDE DEF T
  <2>1. isCount(n)
    BY <1>6
  <2> HIDE DEF isCount
  <2> QED
    BY <1>6, <1>7, <2>1
<1> QED
  BY <1>2, <1>8

\* What is read of any bytes.
LEMMA ReadingType ==
    ASSUME NEW b \in Seq(Byte)
    PROVE  /\ PdusIn(b) \in Seq(Seq(Byte))
           /\ Len(PdusIn(b)) = PduCount(b)
           /\ RestOf(b) \in Seq(Byte)
           /\ Len(RestOf(b)) <= Len(b)
           /\ ~CompleteAt(RestOf(b), 1)
<1>1. PICK m \in Nat : m = Len(b)
  BY LenProperties
<1>2. PICK a : a = Boundary(b)
  OBVIOUS
<1>3. PICK c \in Nat : c = PduCount(b)
  BY PduCountProperties
<1>4. \A n \in Nat : a[n] \in 1 .. m + 1
  BY <1>1, <1>2, BoundaryProperties
<1>5. \A i \in 1 .. m : b[i] \in Byte
  BY <1>1, ElementOfSeq
<1>6. ASSUME NEW i \in 1 .. c
      PROVE  SubSeq(b, a[i - 1] + PDU_HEADER_LENGTH, a[i] - 1) \in Seq(Byte)
  <2>1. a[i - 1] \in 1 .. m + 1 /\ a[i] \in 1 .. m + 1
    BY <1>4
  <2>2. PICK x \in Int, y \in Int : x = a[i - 1] + PDU_HEADER_LENGTH /\ y = a[i] - 1
    BY <2>1 DEF PDU_HEADER_LENGTH
  <2>3. \A k \in x .. y : b[k] \in Byte
    BY <1>5, <2>1, <2>2 DEF PDU_HEADER_LENGTH
  <2>4. SubSeq(b, x, y) \in Seq(Byte)
    BY <2>3, SubSeqProperties
  <2> QED
    BY <2>2, <2>4
<1>7. PdusIn(b) = [i \in 1 .. c |->
                     SubSeq(b, a[i - 1] + PDU_HEADER_LENGTH, a[i] - 1)]
  BY <1>2, <1>3, Zenon DEF PdusIn
<1>8. PdusIn(b) \in Seq(Seq(Byte)) /\ Len(PdusIn(b)) = c
  BY <1>6, <1>7
<1>9. PICK x \in 1 .. m + 1 : x = a[c]
  BY <1>4
<1>10. RestOf(b) = SubSeq(b, x, m)
  BY <1>1, <1>2, <1>3, <1>9, Zenon DEF RestOf
<1>11. PICK r : r = SubSeq(b, x, m)
  OBVIOUS
<1>12. r \in Seq(Byte) /\ Len(r) = m - x + 1 /\ \A i \in 1 .. m - x + 1 : r[i] = b[x + i - 1]
  <2>1. \A k \in x .. m : b[k] \in Byte
    BY <1>5
  <2>2. /\ SubSeq(b, x, m) \in Seq(Byte)
        /\ Len(SubSeq(b, x, m)) = IF x <= m THEN m - x + 1 ELSE 0
        /\ \A i \in 1 .. m - x + 1 : SubSeq(b, x, m)[i] = b[x + i - 1]
    BY <2>1, SubSeqProperties
  <2> QED
    BY <1>11, <2>2
<1>13. ~CompleteAt(b, x)
  BY <1>2, <1>3, <1>9, PduCountProperties
<1>14. ~CompleteAt(r, 1)
  <2> SUFFICES ASSUME CompleteAt(r, 1) PROVE CompleteAt(b, x)
    BY <1>13
  <2>1. m - x + 1 >= 2 /\ HeaderAt(r, 1) > 0 /\ HeaderAt(r, 1) <= m - x + 1 - 2
    BY <1>12 DEF CompleteAt, PDU_HEADER_LENGTH
  <2>2. r[1] = b[x] /\ r[2] = b[x + 1]
    <3>1. 1 \in 1 .. m - x + 1 /\ 2 \in 1 .. m - x + 1 /\ x + 1 - 1 = x /\ x + 2 - 1 = x + 1
      BY <2>1
    <3> QED
      BY <1>12, <3>1
  <2>3. HeaderAt(r, 1) = HeaderAt(b, x)
    BY <2>2 DEF HeaderAt
  <2> QED
    BY <1>1, <2>1, <2>3 DEF CompleteAt, PDU_HEADER_LENGTH
<1> QED
  BY <1>1, <1>3, <1>8, <1>10, <1>11, <1>12, <1>14

LEMMA FramesFirst ==
    ASSUME NEW q \in Pdu, NEW rest \in Seq(Pdu)
    PROVE  Frames(<<q>> \o rest) = Frame(q) \o Frames(rest)
<1>1. <<>> \in Seq(Pdu) /\ <<q>> \in Seq(Pdu)
  BY EmptySeq
<1>2. Append(<<>>, q) = <<q>>
  OBVIOUS
<1>3. Frames(Append(<<>>, q)) = Frames(<<>>) \o Frame(q)
  BY <1>1, FramesAppend
<1>4. <<>> \o Frame(q) = Frame(q)
  <2>1. Frame(q) \in Seq(Byte)
    BY FrameProperties
  <2> QED
    BY <2>1, ConcatEmptySeq
<1>5. Frames(<<q>>) = Frame(q)
  BY <1>2, <1>3, <1>4, FramesEmpty, Zenon
<1>6. Frames(<<q>> \o rest) = Frames(<<q>>) \o Frames(rest)
  BY <1>1, FramesConcat
<1> QED
  BY <1>5, <1>6, Zenon

\* After what is done the bytes of b and z are the frames of q and rest.
Continued(b, z, done, q, rest) == b \o z = done \o Frames(<<q>> \o rest)

\* The frame that starts at position x of what has arrived.
LEMMA FrameAt ==
    ASSUME NEW b \in Seq(Byte), NEW z \in Seq(Byte), NEW done \in Seq(Byte),
           NEW q \in Pdu, NEW rest \in Seq(Pdu),
           Continued(b, z, done, q, rest),
           NEW x \in 1 .. Len(b) + 1, x = Len(done) + 1
    PROVE  /\ CompleteAt(b, x) => /\ HeaderAt(b, x) = Len(q)
                                  /\ SubSeq(b, x + 2, x + 1 + Len(q)) = q
           /\ x + 1 + Len(q) <= Len(b) => CompleteAt(b, x)
<1>1. PICK m \in Nat, l \in Nat, k \in Nat, d \in Nat :
         m = Len(b) /\ l = Len(q) /\ k = Len(Frames(rest)) /\ d = Len(done)
  BY FramesType, LenProperties, FrameProperties
<1>2. PICK f \in Seq(Byte) : /\ f = Frame(q) /\ Len(f) = l + 2 /\ HeaderAt(f, 1) = l
                             /\ \A i \in 1 .. l : f[i + 2] = q[i]
  BY <1>1, FrameProperties
<1>3. PICK g \in Seq(Byte) : g = Frames(rest)
  BY FramesType
<1>4. PICK w \in Seq(Byte) : w = f \o g /\ Len(w) = l + 2 + k
                             /\ \A i \in 1 .. l + 2 : w[i] = f[i]
  <2>1. /\ f \o g \in Seq(Byte) /\ Len(f \o g) = Len(f) + Len(g)
        /\ \A i \in 1 .. Len(f) + Len(g) :
              (f \o g)[i] = IF i <= Len(f) THEN f[i] ELSE g[i - Len(f)]
    BY ConcatProperties
  <2>2. Len(f) = l + 2 /\ Len(g) = k
    BY <1>1, <1>2, <1>3
  <2>3. \A i \in 1 .. l + 2 : (f \o g)[i] = f[i]
    <3> SUFFICES ASSUME NEW i \in 1 .. l + 2 PROVE (f \o g)[i] = f[i]
      OBVIOUS
    <3>1. i \in 1 .. Len(f) + Len(g) /\ i <= Len(f)
      BY <2>2
    <3> QED
      BY <2>1, <3>1
  <2> QED
    BY <2>1, <2>2, <2>3
<1>5. b \o z = done \o w
  BY <1>2, <1>3, <1>4, FramesFirst, Zenon DEF Continued
<1>6. ASSUME NEW i \in 1 .. l + 2, d + i <= m PROVE b[d + i] = f[i]
  <2>1. /\ Len(b \o z) = Len(b) + Len(z)
        /\ \A j \in 1 .. Len(b) + Len(z) :
              (b \o z)[j] = IF j <= Len(b) THEN b[j] ELSE z[j - Len(b)]
    BY ConcatProperties
  <2>2. /\ Len(done \o w) = Len(done) + Len(w)
        /\ \A j \in 1 .. Len(done) + Len(w) :
              (done \o w)[j] = IF j <= Len(done) THEN done[j] ELSE w[j - Len(done)]
    BY ConcatProperties
  <2>3. PICK j \in Nat : j = d + i /\ j - d = i /\ ~(j <= d)
    OBVIOUS
  <2>4. Len(z) \in Nat
    BY LenProperties
  <2>5. j \in 1 .. Len(b) + Len(z) /\ j <= Len(b)
    BY <1>1, <1>6, <2>3, <2>4
  <2>6. j \in 1 .. Len(done) + Len(w) /\ ~(j <= Len(done)) /\ j - Len(done) = i
    BY <1>1, <1>4, <2>3
  <2>7. (b \o z)[j] = b[j] /\ (done \o w)[j] = w[i]
    BY <2>1, <2>2, <2>5, <2>6
  <2> QED
    BY <1>4, <1>5, <2>3, <2>7
<1>7. x = d + 1 /\ l >= 1
  BY <1>1, FrameProperties
<1>8. ASSUME d + 2 <= m PROVE HeaderAt(b, x) = l
  <2>1. b[d + 1] = f[1] /\ b[d + 2] = f[2]
    <3>1. 1 \in 1 .. l + 2 /\ 2 \in 1 .. l + 2 /\ d + 1 <= m
      BY <1>8
    <3> QED
      BY <1>6, <1>8, <3>1
  <2>2. x + 1 = d + 2
    BY <1>7
  <2> QED
    BY <1>2, <1>7, <2>1, <2>2 DEF HeaderAt
<1>9. ASSUME CompleteAt(b, x)
      PROVE  HeaderAt(b, x) = l /\ SubSeq(b, x + 2, x + 1 + l) = q
  <2>1. m - x + 1 >= 2 /\ HeaderAt(b, x) <= m - x + 1 - 2
    BY <1>1, <1>9 DEF CompleteAt, PDU_HEADER_LENGTH
  <2>2. HeaderAt(b, x) = l
    BY <1>7, <1>8, <2>1
  <2>3. d + 2 + l <= m
    BY <1>7, <2>1, <2>2
  <2>4. PICK u \in Int, v \in Int : u = x + 2 /\ v = x + 1 + l
    <3>1. x + 2 \in Int /\ x + 1 + l \in Int
      BY <1>7
    <3> QED
      BY <3>1
  <2>5. \A i \in 1 .. m : b[i] \in Byte
    BY <1>1, ElementOfSeq
  <2>6. \A i \in u .. v : b[i] \in Byte
    BY <1>7, <2>3, <2>4, <2>5
  <2>7. /\ SubSeq(b, u, v) \in Seq(Byte)
        /\ Len(SubSeq(b, u, v)) = IF u <= v THEN v - u + 1 ELSE 0
        /\ \A i \in 1 .. v - u + 1 : SubSeq(b, u, v)[i] = b[u + i - 1]
    BY <2>6, SubSeqProperties
  <2>8. v - u + 1 = l /\ u <= v
    BY <1>7, <2>4
  <2>9. ASSUME NEW i \in 1 .. l PROVE SubSeq(b, u, v)[i] = q[i]
    <3>1. u + i - 1 = d + (i + 2) /\ i + 2 \in 1 .. l + 2 /\ d + (i + 2) <= m
      BY <1>7, <2>3, <2>4
    <3>2. b[d + (i + 2)] = f[i + 2]
      BY <1>6, <3>1
    <3>3. SubSeq(b, u, v)[i] = b[u + i - 1]
      BY <2>7, <2>8
    <3> QED
      BY <1>2, <3>1, <3>2, <3>3
  <2>10. SubSeq(b, u, v) = q
    BY <1>1, <2>7, <2>8, <2>9, FrameProperties, SeqEqual
  <2> QED
    BY <2>2, <2>4, <2>10
<1>10. ASSUME x + 1 + l <= m PROVE CompleteAt(b, x)
  BY <1>1, <1>7, <1>8, <1>10 DEF CompleteAt, PDU_HEADER_LENGTH
<1> QED
  BY <1>1, <1>9, <1>10

LEMMA ConcatCut ==
    ASSUME NEW S, NEW b \in Seq(S), NEW z \in Seq(S), NEW d \in Seq(S), NEW r \in Seq(S),
           b \o z = d \o r, Len(d) <= Len(b)
    PROVE  SubSeq(b, Len(d) + 1, Len(b)) \o z = r
<1>1. PICK m \in Nat, k \in Nat, n \in Nat, l \in Nat :
         m = Len(b) /\ k = Len(d) /\ n = Len(z) /\ l = Len(r)
  BY LenProperties
<1>2. k <= m
  BY <1>1
<1>3. \A i \in 1 .. m : b[i] \in S
  BY <1>1, ElementOfSeq
<1>4. \A i \in k + 1 .. m : b[i] \in S
  BY <1>3
<1>5. PICK c : c = SubSeq(b, k + 1, m)
  OBVIOUS
<1>6. c \in Seq(S) /\ Len(c) = m - k /\ \A i \in 1 .. m - k : c[i] = b[k + i]
  <2>1. /\ SubSeq(b, k + 1, m) \in Seq(S)
        /\ Len(SubSeq(b, k + 1, m)) = IF k + 1 <= m THEN m - (k + 1) + 1 ELSE 0
        /\ \A i \in 1 .. m - (k + 1) + 1 : SubSeq(b, k + 1, m)[i] = b[(k + 1) + i - 1]
    BY <1>4, SubSeqProperties
  <2>2. \A i \in 1 .. m - k : c[i] = b[k + i]
    <3> SUFFICES ASSUME NEW i \in 1 .. m - k PROVE c[i] = b[k + i]
      OBVIOUS
    <3>1. (k + 1) + i - 1 = k + i /\ i \in 1 .. m - (k + 1) + 1
      OBVIOUS
    <3> QED
      BY <1>5, <2>1, <3>1
  <2> QED
    BY <1>2, <1>5, <2>1, <2>2
<1>7. /\ c \o z \in Seq(S) /\ Len(c \o z) = Len(c) + Len(z)
      /\ \A i \in 1 .. Len(c) + Len(z) :
            (c \o z)[i] = IF i <= Len(c) THEN c[i] ELSE z[i - Len(c)]
  BY <1>6, ConcatProperties
<1>8. /\ Len(b \o z) = Len(b) + Len(z)
      /\ \A i \in 1 .. Len(b) + Len(z) :
            (b \o z)[i] = IF i <= Len(b) THEN b[i] ELSE z[i - Len(b)]
  BY ConcatProperties
<1>9. /\ Len(d \o r) = Len(d) + Len(r)
      /\ \A i \in 1 .. Len(d) + Len(r) :
            (d \o r)[i] = IF i <= Len(d) THEN d[i] ELSE r[i - Len(d)]
  BY ConcatProperties
<1>10. m + n = k + l
  BY <1>1, <1>8, <1>9
<1>11. ASSUME NEW i \in 1 .. l PROVE (c \o z)[i] = r[i]
  <2>1. PICK j \in Nat : j = k + i /\ j - k = i /\ ~(j <= k)
    OBVIOUS
  <2>2. j \in 1 .. Len(b) + Len(z) /\ j \in 1 .. Len(d) + Len(r)
        /\ ~(j <= Len(d)) /\ j - Len(d) = i
    BY <1>1, <1>10, <2>1
  <2>3. (d \o r)[j] = r[i]
    BY <1>9, <2>2
  <2>4. (b \o z)[j] = IF j <= m THEN b[j] ELSE z[j - m]
    BY <1>1, <1>8, <2>2
  <2>5. i \in 1 .. Len(c) + Len(z)
    BY <1>1, <1>6, <1>10
  <2>6. (c \o z)[i] = IF i <= m - k THEN c[i] ELSE z[i - (m - k)]
    BY <1>6, <1>7, <2>5
  <2>7. CASE j <= m
    <3>1. i \in 1 .. m - k /\ c[i] = b[j]
      BY <1>6, <2>1, <2>7
    <3>2. (c \o z)[i] = b[j] /\ (b \o z)[j] = b[j]
      BY <2>4, <2>6, <2>7, <3>1
    <3> QED
      BY <2>3, <3>2, Zenon
  <2>8. CASE ~(j <= m)
    <3>1. ~(i <= m - k) /\ i - (m - k) = j - m
      BY <2>1, <2>8
    <3> QED
      BY <2>3, <2>4, <2>6, <2>8, <3>1
  <2> QED
    BY <2>7, <2>8
<1>12. Len(c \o z) = l
  BY <1>1, <1>2, <1>6, <1>7, <1>10
<1>13. c \o z = r
  BY <1>1, <1>7, <1>11, <1>12, SeqEqual
<1> QED
  BY <1>1, <1>5, <1>13

\* Cutting a sequence in two, and moving the cut.
LEMMA Cut ==
    ASSUME NEW S, NEW ps \in Seq(S), NEW i \in 0 .. Len(ps)
    PROVE  /\ SubSeq(ps, 1, i) \in Seq(S) /\ Len(SubSeq(ps, 1, i)) = i
           /\ SubSeq(ps, i + 1, Len(ps)) \in Seq(S)
           /\ SubSeq(ps, 1, i) \o SubSeq(ps, i + 1, Len(ps)) = ps
           /\ i < Len(ps) =>
                 /\ ps[i + 1] \in S
                 /\ SubSeq(ps, 1, i + 1) = Append(SubSeq(ps, 1, i), ps[i + 1])
                 /\ SubSeq(ps, i + 1, Len(ps)) =
                       <<ps[i + 1]>> \o SubSeq(ps, i + 2, Len(ps))
<1>1. PICK n \in Nat : n = Len(ps)
  BY LenProperties
<1>2. \A k \in 1 .. n : ps[k] \in S
  BY <1>1, ElementOfSeq
<1>3. i \in Nat /\ i <= n
  BY <1>1
<1>4. SubSeq(ps, 1, i) \in Seq(S) /\ Len(SubSeq(ps, 1, i)) = i
  <2>1. \A k \in 1 .. i : ps[k] \in S
    BY <1>2, <1>3
  <2>2. /\ SubSeq(ps, 1, i) \in Seq(S)
        /\ Len(SubSeq(ps, 1, i)) = IF 1 <= i THEN i - 1 + 1 ELSE 0
    BY <1>3, <2>1, SubSeqProperties
  <2> QED
    BY <1>3, <2>2
<1>5. SubSeq(ps, i + 1, n) \in Seq(S)
  <2>1. \A k \in i + 1 .. n : ps[k] \in S
    BY <1>2, <1>3
  <2> QED
    BY <1>3, <2>1, SubSeqProperties
<1>6. SubSeq(ps, 1, i) \o SubSeq(ps, i + 1, n) = ps
  <2>1. /\ 1 \in 1 .. Len(ps) + 1 /\ i \in 1 - 1 .. Len(ps) /\ n \in i .. Len(ps)
    BY <1>1, <1>3
  <2>2. SubSeq(ps, 1, i) \o SubSeq(ps, i + 1, n) = SubSeq(ps, 1, n)
    BY <2>1, ConcatAdjacentSubSeq
  <2>3. SubSeq(ps, 1, n) = ps
    BY <1>1, SubSeqFull
  <2> QED
    BY <2>2, <2>3, Zenon
<1>7. ASSUME i < n
      PROVE  /\ ps[i + 1] \in S
             /\ SubSeq(ps, 1, i + 1) = Append(SubSeq(ps, 1, i), ps[i + 1])
             /\ SubSeq(ps, i + 1, n) = <<ps[i + 1]>> \o SubSeq(ps, i + 2, n)
  <2>1. PICK j \in 1 .. n : j = i + 1 /\ j - 1 = i /\ j + 1 = i + 2
    BY <1>3, <1>7
  <2>2. ps[j] \in S
    BY <1>2
  <2>3. 1 \in 1 .. Len(ps) /\ j \in 1 .. Len(ps) /\ n \in j .. Len(ps)
    BY <1>1
  <2>4. SubSeq(ps, 1, j) = SubSeq(ps, 1, j - 1) \o <<ps[j]>>
    BY <2>3, SubSeqRecursiveSecond
  <2>5. Append(SubSeq(ps, 1, i), ps[j]) = SubSeq(ps, 1, i) \o <<ps[j]>>
    BY <1>4, <2>2, AppendIsConcat
  <2>6. SubSeq(ps, j, n) = <<ps[j]>> \o SubSeq(ps, j + 1, n)
    BY <2>3, SubSeqRecursiveFirst
  <2> QED
    BY <2>1, <2>2, <2>4, <2>5, <2>6, Zenon
<1> QED
  BY <1>1, <1>4, <1>5, <1>6, <1>7

(***************************************************************************)
(* What is read of the beginning b of the frames of ps are the first PDUs  *)
(* of ps, and what is left is a beginning of the frames of the others.     *)
(***************************************************************************)
LEMMA Reading ==
    ASSUME NEW b \in Seq(Byte), NEW z \in Seq(Byte), NEW ps \in Seq(Pdu),
           b \o z = Frames(ps)
    PROVE  /\ PduCount(b) \in 0 .. Len(ps)
           /\ PdusIn(b) = SubSeq(ps, 1, PduCount(b))
           /\ RestOf(b) \o z = Frames(SubSeq(ps, PduCount(b) + 1, Len(ps)))
<1>1. PICK m \in Nat, n \in Nat : m = Len(b) /\ n = Len(ps)
  BY LenProperties
<1>2. PICK a : a = Boundary(b)
  OBVIOUS
<1>3. /\ \A i \in Nat : a[i] \in 1 .. m + 1
      /\ a[0] = 1
      /\ \A i \in Nat : a[i + 1] = IF CompleteAt(b, a[i])
                                     THEN a[i] + 2 + HeaderAt(b, a[i]) ELSE a[i]
  BY <1>1, <1>2, BoundaryProperties
<1>4. PICK c \in Nat : c = PduCount(b) /\ \A i \in 0 .. c - 1 : CompleteAt(b, a[i])
  BY <1>2, PduCountProperties
<1> DEFINE at(i) == i <= n /\ a[i] = Len(Frames(SubSeq(ps, 1, i))) + 1
           T == {i \in Nat : i <= c => at(i)}
<1>5. ASSUME NEW i \in Nat, i < c, at(i)
      PROVE  /\ at(i + 1)
             /\ SubSeq(b, a[i] + PDU_HEADER_LENGTH, a[i + 1] - 1) = ps[i + 1]
  <2>1. i \in 0 .. Len(ps) /\ i \in 0 .. c - 1
    BY <1>1, <1>5
  <2>2. PICK p \in Seq(Pdu), r \in Seq(Pdu) :
           /\ p = SubSeq(ps, 1, i) /\ r = SubSeq(ps, i + 1, Len(ps))
           /\ p \o r = ps
    <3>1. /\ SubSeq(ps, 1, i) \in Seq(Pdu)
          /\ SubSeq(ps, i + 1, Len(ps)) \in Seq(Pdu)
          /\ SubSeq(ps, 1, i) \o SubSeq(ps, i + 1, Len(ps)) = ps
      BY <2>1, Cut, Zenon
    <3> QED
      BY <3>1, Zenon
  <2>3. PICK done \in Seq(Byte), d \in Nat : done = Frames(p) /\ d = Len(done)
    BY FramesType, LenProperties
  <2>4. Frames(ps) = done \o Frames(r)
    BY <2>2, <2>3, FramesConcat, Zenon
  <2>5. PICK x \in 1 .. m + 1 : x = a[i] /\ x = d + 1 /\ CompleteAt(b, x)
    BY <1>3, <1>4, <1>5, <2>1, <2>2, <2>3
  <2>6. i < n
    <3> SUFFICES ASSUME i = n PROVE FALSE
      BY <1>5
    <3>1. r = <<>>
      <4>1. SubSeq(ps, i + 1, i) = <<>>
        BY SubSeqEmpty
      <4> QED
        BY <1>1, <2>2, <4>1
    <3>2. done \o <<>> = done
      BY ConcatEmptySeq
    <3>3. b \o z = done
      BY <2>4, <3>1, <3>2, FramesEmpty, Zenon
    <3>4. Len(b \o z) = Len(b) + Len(z) /\ Len(z) \in Nat
      BY ConcatProperties, LenProperties
    <3>5. d >= m
      BY <1>1, <2>3, <3>3, <3>4
    <3> QED
      BY <1>1, <2>5, <3>5 DEF CompleteAt, PDU_HEADER_LENGTH
  <2>7. PICK q \in Pdu : /\ q = ps[i + 1]
                         /\ SubSeq(ps, 1, i + 1) = Append(p, q)
                         /\ r = <<q>> \o SubSeq(ps, i + 2, Len(ps))
    <3>1. i < Len(ps)
      BY <1>1, <2>6
    <3>2. /\ ps[i + 1] \in Pdu
          /\ SubSeq(ps, 1, i + 1) = Append(SubSeq(ps, 1, i), ps[i + 1])
          /\ SubSeq(ps, i + 1, Len(ps)) =
                <<ps[i + 1]>> \o SubSeq(ps, i + 2, Len(ps))
      BY <2>1, <3>1, Cut, Zenon
    <3> QED
      BY <2>2, <3>2, Zenon
  <2>8. PICK t \in Seq(Pdu) : t = SubSeq(ps, i + 2, Len(ps))
    <3>1. PICK j \in 0 .. Len(ps) : j = i + 1 /\ j + 1 = i + 2
      BY <1>1, <2>6
    <3>2. SubSeq(ps, j + 1, Len(ps)) \in Seq(Pdu)
      BY Cut
    <3> QED
      BY <3>1, <3>2
  <2>9. Continued(b, z, done, q, t)
    BY <2>4, <2>7, <2>8, Zenon DEF Continued
  <2>10. x \in 1 .. Len(b) + 1 /\ x = Len(done) + 1
    BY <1>1, <2>3, <2>5
  <2>11. HeaderAt(b, x) = Len(q) /\ SubSeq(b, x + 2, x + 1 + Len(q)) = q
    BY <2>5, <2>9, <2>10, FrameAt
  <2>12. PICK l \in Nat : l = Len(q)
    BY FrameProperties
  <2>13. a[i + 1] = x + 2 + l
    BY <1>3, <2>5, <2>11, <2>12
  <2>14. Len(Frames(SubSeq(ps, 1, i + 1))) = d + (l + 2)
    <3>1. Frames(Append(p, q)) = done \o Frame(q)
      BY <2>3, FramesAppend
    <3>2. Len(done \o Frame(q)) = Len(done) + Len(Frame(q))
      BY FrameProperties, ConcatProperties
    <3>3. Len(Frame(q)) = l + 2
      BY <2>12, FrameProperties
    <3> QED
      BY <2>3, <2>7, <3>1, <3>2, <3>3
  <2>15. at(i + 1)
    <3>1. x = d + 1
      BY <2>5
    <3>2. PICK y \in Nat, j \in Nat : y = d + (l + 2) /\ j = i + 1
      OBVIOUS
    <3>3. x + 2 + l = y + 1 /\ j <= n
      BY <2>6, <3>1, <3>2
    <3>4. Len(Frames(SubSeq(ps, 1, j))) = y
      BY <2>14, <3>2, Zenon
    <3>5. a[j] = y + 1
      BY <2>13, <3>2, <3>3
    <3> QED
      BY <3>2, <3>3, <3>4, <3>5
  <2>16. a[i] + PDU_HEADER_LENGTH = x + 2 /\ a[i + 1] - 1 = x + 1 + l
    BY <2>5, <2>13 DEF PDU_HEADER_LENGTH
  <2> HIDE DEF at
  <2> QED
    BY <2>7, <2>11, <2>12, <2>15, <2>16
<1>6. 0 \in T
  <2>1. SubSeq(ps, 1, 0) = <<>>
    BY SubSeqEmpty
  <2>2. Len(<<>>) = 0
    OBVIOUS
  <2>3. Len(Frames(SubSeq(ps, 1, 0))) = 0
    BY <2>1, <2>2, FramesEmpty, Zenon
  <2>4. a[0] = Len(Frames(SubSeq(ps, 1, 0))) + 1 /\ 0 <= n
    BY <1>3, <2>3
  <2> QED
    BY <2>4
<1> HIDE DEF at
<1>7. ASSUME NEW i \in Nat, i \in T PROVE i + 1 \in T
  BY <1>5, <1>7
<1> HIDE DEF T
<1>8. \A i \in Nat : i <= c => at(i)
  <2>1. \A i \in Nat : i \in T
    BY <1>6, <1>7, Induction
  <2> QED
    BY <2>1 DEF T
<1>9. c \in 0 .. Len(ps) /\ a[c] = Len(Frames(SubSeq(ps, 1, c))) + 1
  BY <1>1, <1>8 DEF at
<1>10. PdusIn(b) = SubSeq(ps, 1, c)
  <2>1. PdusIn(b) = [i \in 1 .. c |->
                       SubSeq(b, a[i - 1] + PDU_HEADER_LENGTH, a[i] - 1)]
    BY <1>2, <1>4, Zenon DEF PdusIn
  <2>2. \A i \in 1 .. c : PdusIn(b)[i] = ps[i]
    <3> SUFFICES ASSUME NEW i \in 1 .. c PROVE PdusIn(b)[i] = ps[i]
      OBVIOUS
    <3>1. PICK j \in Nat : j = i - 1 /\ j + 1 = i /\ j < c
      OBVIOUS
    <3>2. at(j)
      BY <1>8, <3>1
    <3>3. SubSeq(b, a[j] + PDU_HEADER_LENGTH, a[j + 1] - 1) = ps[j + 1]
      BY <1>5, <3>1, <3>2
    <3>4. PdusIn(b)[i] = SubSeq(b, a[i - 1] + PDU_HEADER_LENGTH, a[i] - 1)
      BY <2>1
    <3> QED
      BY <3>1, <3>3, <3>4
  <2>3. PdusIn(b) \in Seq(Seq(Byte)) /\ Len(PdusIn(b)) = c
    BY <1>4, ReadingType
  <2>4. /\ SubSeq(ps, 1, c) \in Seq(Seq(Byte)) /\ Len(SubSeq(ps, 1, c)) = c
        /\ \A i \in 1 .. c : SubSeq(ps, 1, c)[i] = ps[i]
    <3>1. \A i \in 1 .. c : ps[i] \in Seq(Byte)
      <4>1. \A i \in 1 .. n : ps[i] \in Pdu
        BY <1>1, ElementOfSeq
      <4> QED
        BY <1>1, <1>9, <4>1, PduType
    <3>2. PICK k \in Int, o \in Int : k = 1 /\ o = c
      OBVIOUS
    <3>3. \A i \in k .. o : ps[i] \in Seq(Byte)
      BY <3>1, <3>2
    <3>4. /\ SubSeq(ps, k, o) \in Seq(Seq(Byte))
          /\ Len(SubSeq(ps, k, o)) = IF k <= o THEN o - k + 1 ELSE 0
          /\ \A i \in 1 .. o - k + 1 : SubSeq(ps, k, o)[i] = ps[k + i - 1]
      BY <3>3, SubSeqProperties
    <3>5. \A i \in 1 .. c : SubSeq(ps, k, o)[i] = ps[i]
      <4> SUFFICES ASSUME NEW i \in 1 .. c PROVE SubSeq(ps, k, o)[i] = ps[i]
        OBVIOUS
      <4>1. i \in 1 .. o - k + 1 /\ k + i - 1 = i
        BY <3>2
      <4> QED
        BY <3>4, <4>1
    <3>6. Len(SubSeq(ps, k, o)) = c
      BY <3>2, <3>4
    <3> QED
      BY <3>2, <3>4, <3>5, <3>6
  <2> QED
    BY <2>2, <2>3, <2>4, SeqEqual
<1>11. RestOf(b) \o z = Frames(SubSeq(ps, c + 1, Len(ps)))
  <2>1. PICK p \in Seq(Pdu), r \in Seq(Pdu) :
           /\ p = SubSeq(ps, 1, c) /\ r = SubSeq(ps, c + 1, Len(ps))
           /\ p \o r = ps
    <3>1. /\ SubSeq(ps, 1, c) \in Seq(Pdu)
          /\ SubSeq(ps, c + 1, Len(ps)) \in Seq(Pdu)
          /\ SubSeq(ps, 1, c) \o SubSeq(ps, c + 1, Len(ps)) = ps
      BY <1>9, Cut, Zenon
    <3> QED
      BY <3>1, Zenon
  <2>2. PICK done \in Seq(Byte), left \in Seq(Byte) :
           done = Frames(p) /\ left = Frames(r)
    BY FramesType
  <2>3. b \o z = done \o left
    BY <2>1, <2>2, FramesConcat, Zenon
  <2>4. a[c] = Len(done) + 1 /\ Len(done) <= Len(b)
    <3>1. Len(done) \in Nat /\ a[c] \in 1 .. m + 1
      BY <1>3, LenProperties
    <3> QED
      BY <1>1, <1>9, <2>1, <2>2, <3>1
  <2>5. RestOf(b) = SubSeq(b, a[c], Len(b))
    BY <1>2, <1>4, Zenon DEF RestOf
  <2>6. SubSeq(b, Len(done) + 1, Len(b)) \o z = left
    BY <2>3, <2>4, ConcatCut
  <2> QED
    BY <2>1, <2>2, <2>4, <2>5, <2>6, Zenon
<1> QED
  BY <1>4, <1>9, <1>10, <1>11

-----------------------------------------------------------------------------
(* Messages. *)

LEMMA SintType ==
    ASSUME NEW v \in asn1SccSint
    PROVE  /\ v \in Int
           /\ Values[WORD_SIZE] \div 2 \in Nat
           /\ -(Values[WORD_SIZE] \div 2) <= v /\ v < Values[WORD_SIZE] \div 2
<1>1. PICK h \in Nat : h = Values[WORD_SIZE] \div 2
  <2>1. PICK w \in Nat : w = Values[WORD_SIZE]
    BY RadixType, ValuesProperties
  <2> QED
    BY <2>1
<1>2. v \in -h .. h - 1
  BY <1>1 DEF asn1SccSint
<1> QED
  BY <1>1, <1>2

LEMMA IntegerLength ==
    ASSUME NEW v \in asn1SccSint
    PROVE  /\ GetLengthInBytesOfSInt(v) \in 1 .. WORD_SIZE
           /\ -(Values[GetLengthInBytesOfSInt(v)] \div 2) <= v
           /\ v < Values[GetLengthInBytesOfSInt(v)] \div 2
<1> DEFINE half == [n \in Nat |-> Values[n] \div 2]
           size == IF v >= 0 THEN v ELSE -v - 1
           T == {n \in Nat : n >= 1 /\ size < half[n]}
           isLength(n) == /\ size < Values[n] \div 2
                          /\ n > 1 => size >= Values[n - 1] \div 2
<1>1. \A n \in Nat : half[n] \in Nat /\ half[n] = Values[n] \div 2
  <2> SUFFICES ASSUME NEW n \in Nat PROVE half[n] \in Nat
    OBVIOUS
  <2>1. Values[n] \in Nat
    BY ValuesProperties
  <2> QED
    BY <2>1
<1>2. v \in Int /\ -half[WORD_SIZE] <= v /\ v < half[WORD_SIZE]
  BY <1>1, SintType, RadixType
<1> HIDE DEF half
<1>3. size \in Nat
  BY <1>2
<1>4. WORD_SIZE \in T
  BY <1>1, <1>2, RadixType
<1>5. PICK n \in T : \A k \in T : n <= k
  BY <1>4, LeastNumber
<1>6. n \in 1 .. WORD_SIZE /\ size < half[n]
  BY <1>4, <1>5, RadixType
<1>7. n > 1 => size >= half[n - 1]
  <2> SUFFICES ASSUME n > 1, size < half[n - 1] PROVE FALSE
    BY <1>1, <1>3, <1>6, RadixType
  <2>1. n - 1 \in T
    BY <1>6
  <2> QED
    BY <1>5, <1>6, <2>1
<1>8. isLength(n)
  <2>1. n \in Nat /\ (n > 1 => n - 1 \in Nat)
    BY <1>6, RadixType
  <2> QED
    BY <1>1, <1>6, <1>7, <2>1
<1>9. GetLengthInBytesOfSInt(v) = CHOOSE k \in 1 .. WORD_SIZE : isLength(k)
  BY DEF GetLengthInBytesOfSInt, GetLengthSIntHelper
<1>10. PICK l : l = GetLengthInBytesOfSInt(v)
  OBVIOUS
<1>11. l \in 1 .. WORD_SIZE /\ isLength(l)
  <2> HIDE DEF isLength, T
  <2> QED
    BY <1>6, <1>8, <1>9, <1>10
<1>12. l \in Nat /\ size < half[l]
  BY <1>1, <1>11, RadixType
<1>13. half[l] \in Nat
  BY <1>1, <1>12
<1>14. -half[l] <= v /\ v < half[l]
  BY <1>2, <1>12, <1>13
<1> QED
  BY <1>1, <1>10, <1>11, <1>12, <1>14

LEMMA ValuesProduct ==
    \A a, b \in Nat : Values[a + b] = Values[a] * Values[b]
<1> SUFFICES ASSUME NEW a \in Nat
             PROVE  \A b \in Nat : Values[a + b] = Values[a] * Values[b]
  OBVIOUS
<1> DEFINE T == {b \in Nat : Values[a + b] = Values[a] * Values[b]}
<1>1. 0 \in T
  <2>1. PICK x \in Nat : x = Values[a]
    BY ValuesProperties
  <2>2. a + 0 = a /\ Values[0] = 1 /\ x * 1 = x
    BY ValuesProperties
  <2> QED
    BY <2>1, <2>2
<1>2. ASSUME NEW b \in Nat, b \in T PROVE b + 1 \in T
  <2>1. PICK x \in Nat, y \in Nat, r \in Nat :
           x = Values[a] /\ y = Values[b] /\ r = Radix
    BY ValuesProperties, RadixType
  <2>2. a + b \in Nat /\ a + (b + 1) = (a + b) + 1
    OBVIOUS
  <2>3. Values[a + (b + 1)] = r * Values[a + b] /\ Values[b + 1] = r * y
    BY <2>1, <2>2, ValuesProperties
  <2>4. Values[a + b] = x * y
    BY <1>2, <2>1
  <2>5. r * (x * y) = x * (r * y)
    OBVIOUS
  <2> QED
    BY <2>1, <2>3, <2>4, <2>5
<1> HIDE DEF T
<1>3. \A b \in Nat : b \in T
  BY <1>1, <1>2, Induction
<1> QED
  BY <1>3 DEF T

LEMMA DivTwice ==
    ASSUME NEW v \in Nat, NEW c \in Nat \ {0}, NEW d \in Nat \ {0}
    PROVE  (v \div c) \div d = v \div (c * d)
<1>1. PICK q \in Int, r \in 0 .. c - 1 : q = v \div c /\ v = c * q + r
  BY DivMod
<1>2. PICK t \in Int, u \in 0 .. d - 1 : t = q \div d /\ q = d * t + u
  BY DivMod
<1>3. PICK e \in Nat \ {0} : e = c * d
  OBVIOUS
<1>4. PICK w \in Int : w = c * u + r
  OBVIOUS
<1>5. v = e * t + w
  <2>1. v = c * (d * t + u) + r
    BY <1>1, <1>2
  <2>2. c * (d * t + u) = (c * d) * t + c * u
    OBVIOUS
  <2> QED
    BY <1>3, <1>4, <2>1, <2>2
<1>6. w \in 0 .. e - 1
  <2>1. c * u >= 0 /\ c * u <= c * (d - 1)
    OBVIOUS
  <2>2. c * (d - 1) = e - c
    BY <1>3
  <2> QED
    BY <1>3, <1>4, <2>1, <2>2
<1>7. v \div e = t
  BY <1>3, <1>5, <1>6, DivUnique
<1> QED
  BY <1>1, <1>2, <1>3, <1>7

\* The digits of -u - 1 are the turned ones of u.
LEMMA Turned ==
    ASSUME NEW u \in Int, NEW d \in Nat \ {0}
    PROVE  ((-u - 1) \div d) % Radix = Radix - 1 - ((u \div d) % Radix)
<1>1. PICK q \in Int, r \in 0 .. d - 1 : q = u \div d /\ u = d * q + r
  BY DivMod
<1>2. PICK x \in Nat \ {0} : x = Radix
  BY RadixType
<1>3. PICK t \in Int, y \in 0 .. x - 1 : y = q % x /\ q = x * t + y
  BY DivMod
<1>4. (-u - 1) \div d = -q - 1
  <2>1. -u - 1 = d * (-q - 1) + (d - 1 - r)
    BY <1>1
  <2>2. d - 1 - r \in 0 .. d - 1 /\ -q - 1 \in Int /\ -u - 1 \in Int
    OBVIOUS
  <2> QED
    BY <2>1, <2>2, DivUnique
<1>5. (-q - 1) % x = x - 1 - y
  <2>1. -q - 1 = x * (-t - 1) + (x - 1 - y)
    BY <1>3
  <2>2. PICK a \in Int, b \in Int, c \in 0 .. x - 1 :
           a = -q - 1 /\ b = -t - 1 /\ c = x - 1 - y
    OBVIOUS
  <2>3. a = x * b + c
    BY <2>1, <2>2
  <2>4. a % x = c
    BY <2>3, DivUnique
  <2> QED
    BY <2>2, <2>4
<1> QED
  BY <1>1, <1>2, <1>3, <1>4, <1>5

\* The digits below the h-th do not change with what is above them.
LEMMA LowerDigits ==
    ASSUME NEW a \in Int, NEW k \in Int, NEW h \in Nat, NEW j \in 0 .. h - 1
    PROVE  ((a + Values[h] * k) \div Values[j]) % Radix
              = (a \div Values[j]) % Radix
<1>1. PICK x \in Nat \ {0}, vj \in Nat \ {0}, w \in Nat \ {0} :
         x = Radix /\ vj = Values[j] /\ w = Values[h - j - 1]
  <2>1. h - j - 1 \in Nat /\ j \in Nat
    OBVIOUS
  <2> QED
    BY <2>1, ValuesProperties, RadixType
<1>2. Values[h] = vj * (x * w)
  <2>1. h - j - 1 \in Nat /\ j \in Nat /\ h - j \in Nat /\ j + (h - j) = h
        /\ h - j = (h - j - 1) + 1
    OBVIOUS
  <2>2. Values[h - j] = x * w
    BY <1>1, <2>1, ValuesProperties
  <2> QED
    BY <1>1, <2>1, <2>2, ValuesProduct
<1>3. PICK q \in Int, r \in 0 .. vj - 1 : q = a \div vj /\ a = vj * q + r
  BY DivMod
<1>4. PICK t \in Int, y \in 0 .. x - 1 : y = q % x /\ q = x * t + y
  BY DivMod
<1>5. PICK b \in Int : b = a + Values[h] * k
  <2>1. PICK z \in Nat : z = Values[h]
    BY ValuesProperties
  <2> QED
    BY <2>1
<1>6. b \div vj = q + (x * w) * k
  <2>1. b = vj * (q + (x * w) * k) + r
    <3>1. b = (vj * q + r) + (vj * (x * w)) * k
      BY <1>2, <1>3, <1>5
    <3>2. (vj * (x * w)) * k = vj * ((x * w) * k)
      OBVIOUS
    <3>3. vj * (q + (x * w) * k) = vj * q + vj * ((x * w) * k)
      OBVIOUS
    <3> QED
      BY <3>1, <3>2, <3>3
  <2>2. q + (x * w) * k \in Int
    OBVIOUS
  <2> QED
    BY <2>1, <2>2, DivUnique
<1>7. (q + (x * w) * k) % x = y
  <2>1. q + (x * w) * k = x * (t + w * k) + y
    <3>1. (x * w) * k = x * (w * k) /\ x * (t + w * k) = x * t + x * (w * k)
      OBVIOUS
    <3> QED
      BY <1>4, <3>1
  <2>2. PICK c \in Int, d \in Int : c = q + (x * w) * k /\ d = t + w * k
    OBVIOUS
  <2>3. c = x * d + y
    BY <2>1, <2>2
  <2>4. c % x = y
    BY <2>3, DivUnique
  <2> QED
    BY <2>2, <2>4
<1> QED
  BY <1>1, <1>3, <1>4, <1>5, <1>6, <1>7

\* The i-th of the n bytes of v.
Digit(v, n, i) == (v \div Values[n - i]) % Radix

LEMMA DigitType ==
    ASSUME NEW v \in Int, NEW n \in Nat, NEW i \in 1 .. n
    PROVE  Digit(v, n, i) \in Byte
<1>1. PICK w \in Nat \ {0} : w = Values[n - i]
  <2>1. n - i \in Nat
    OBVIOUS
  <2> QED
    BY <2>1, ValuesProperties
<1>2. v \div w \in Int
  BY DivMod
<1>3. (v \div w) % Radix \in 0 .. Radix - 1
  BY <1>2, RadixType
<1> QED
  BY <1>1, <1>3 DEF Digit, Byte

\* The bytes of n that are before the last h, and the last h.
Upper(b, n, h) == [i \in 1 .. n - h |-> b[i]]
Lower(b, n, h) == [i \in 1 .. h |-> b[n - h + i]]

\* Both halves of a word, whatever their bytes are.
LEMMA Halves ==
    ASSUME NEW n \in Nat, NEW h \in 0 .. n, NEW b,
           \A i \in 1 .. n : b[i] \in Byte
    PROVE  /\ Upper(b, n, h) \o Lower(b, n, h) \in Seq(Byte)
           /\ Len(Upper(b, n, h) \o Lower(b, n, h)) = n
           /\ \A i \in 1 .. n : (Upper(b, n, h) \o Lower(b, n, h))[i] = b[i]
<1>0. PICK f, g : f = Upper(b, n, h) /\ g = Lower(b, n, h)
  OBVIOUS
<1>1. PICK m \in Nat : m = n - h
  OBVIOUS
<1>2. f \in Seq(Byte) /\ Len(f) = m /\ \A i \in 1 .. m : f[i] = b[i]
  BY <1>0, <1>1 DEF Upper
<1>3. g \in Seq(Byte) /\ Len(g) = h /\ \A i \in 1 .. h : g[i] = b[m + i]
  <2>1. \A i \in 1 .. h : m + i \in 1 .. n
    BY <1>1
  <2>2. g = [i \in 1 .. h |-> b[m + i]]
    BY <1>0, <1>1, Zenon DEF Lower
  <2>3. \A i \in 1 .. h : b[m + i] \in Byte
    BY <2>1, Zenon
  <2>4. \A i \in 1 .. h : g[i] = b[m + i]
    BY <2>2, Zenon
  <2>5. g \in [1 .. h -> Byte]
    BY <2>2, <2>3, Zenon
  <2>6. h \in Nat
    OBVIOUS
  <2>7. g \in Seq(Byte) /\ Len(g) = h
    BY <2>5, <2>6
  <2> QED
    BY <2>4, <2>7
<1>4. /\ f \o g \in Seq(Byte) /\ Len(f \o g) = m + h
      /\ \A i \in 1 .. m + h :
            (f \o g)[i] = IF i <= m THEN f[i] ELSE g[i - m]
  <2>1. /\ f \o g \in Seq(Byte) /\ Len(f \o g) = Len(f) + Len(g)
        /\ \A i \in 1 .. Len(f) + Len(g) :
              (f \o g)[i] = IF i <= Len(f) THEN f[i] ELSE g[i - Len(f)]
    <3>1. f \in Seq(Byte) /\ g \in Seq(Byte)
      BY <1>2, <1>3
    <3> QED
      BY <3>1, ConcatProperties, Zenon
  <2>2. Len(f) = m /\ Len(g) = h
    BY <1>2, <1>3
  <2> QED
    BY <2>1, <2>2, Zenon
<1>5. m + h = n
  BY <1>1
<1>6. ASSUME NEW i \in 1 .. n PROVE (f \o g)[i] = b[i]
  <2>1. CASE i <= m
    BY <1>2, <1>4, <1>5, <2>1
  <2>2. CASE ~(i <= m)
    <3>1. i - m \in 1 .. h /\ m + (i - m) = i
      BY <1>1, <2>2
    <3> QED
      BY <1>3, <1>4, <1>5, <2>2, <3>1
  <2> QED
    BY <2>1, <2>2
<1> QED
  BY <1>0, <1>4, <1>5, <1>6, Zenon

\* A number that reaches the upper half of a word is longer than the lower one.
LEMMA LongerThanHalf ==
    ASSUME NEW u \in Nat, NEW n \in Nat, NEW h \in Nat,
           u < Values[n], u >= Values[h]
    PROVE  h \in 0 .. n
<1> SUFFICES ASSUME n < h PROVE FALSE
  OBVIOUS
<1>1. PICK x \in Nat \ {0}, y \in Nat \ {0}, z \in Nat \ {0} :
         x = Values[n] /\ y = Values[h - n] /\ z = Values[h]
  <2>1. h - n \in Nat
    OBVIOUS
  <2> QED
    BY <2>1, ValuesProperties
<1>2. z = x * y
  <2>1. h - n \in Nat /\ n + (h - n) = h
    OBVIOUS
  <2> QED
    BY <1>1, <2>1, ValuesProduct
<1>3. x * y >= x
  BY <1>1
<1> QED
  BY <1>1, <1>2, <1>3

\* The word-wise encodings have the bytes of the number, and of -u - 1.
LEMMA NonNegativeEncoded ==
    ASSUME NEW u \in Nat, NEW n \in Nat, u < Values[n]
    PROVE  LET e == EncodeNonNegativeInteger(u, n)
               d == EncodeNonNegativeIntegerNeg(u, n)
           IN  /\ e \in Seq(Byte) /\ Len(e) = n
               /\ \A i \in 1 .. n : e[i] = Digit(u, n, i)
               /\ d \in Seq(Byte) /\ Len(d) = n
               /\ \A i \in 1 .. n : d[i] = Digit(-u - 1, n, i)
<1>1. PICK h \in Nat : h = WORD_SIZE \div 2
  BY RadixType
<1>2. PICK w \in Nat \ {0} : w = HalfWord /\ w = Values[h]
  BY <1>1, ValuesProperties DEF HalfWord
<1>3. PICK b : b = [i \in 1 .. n |-> Digit(u, n, i)]
  OBVIOUS
<1>4. PICK c : c = [i \in 1 .. n |-> Digit(-u - 1, n, i)]
  OBVIOUS
<1>5. /\ \A i \in 1 .. n : b[i] \in Byte /\ b[i] = Digit(u, n, i)
      /\ \A i \in 1 .. n : c[i] \in Byte /\ c[i] = Digit(-u - 1, n, i)
  <2>1. -u - 1 \in Int /\ u \in Int
    OBVIOUS
  <2> QED
    BY <1>3, <1>4, <2>1, DigitType
\* Every byte of c is the turned one of b.
<1>6. ASSUME NEW i \in 1 .. n PROVE c[i] = Radix - 1 - b[i]
  <2>1. n - i \in Nat
    OBVIOUS
  <2>2. Values[n - i] \in Nat \ {0}
    BY <2>1, ValuesProperties
  <2> QED
    BY <1>3, <1>4, <2>2, Turned DEF Digit
<1>7. ASSUME u < w
      PROVE  EncodeNonNegativeInteger(u, n) = b /\ EncodeNonNegativeIntegerNeg(u, n) = c
  <2>1. EncodeNonNegativeInteger32Neg(u, n, FALSE) = b
    BY <1>3 DEF EncodeNonNegativeInteger32Neg, AppendByte, Digit
  <2>2. EncodeNonNegativeInteger32Neg(u, n, TRUE) = [i \in 1 .. n |-> Radix - 1 - b[i]]
    BY <1>3 DEF EncodeNonNegativeInteger32Neg, AppendByte, Digit
  <2>3. EncodeNonNegativeInteger32Neg(u, n, TRUE) = c
    BY <1>4, <1>6, <2>2
  <2> QED
    BY <1>2, <1>7, <2>1, <2>3, Zenon
    DEF EncodeNonNegativeInteger, EncodeNonNegativeIntegerNeg
<1>8. CASE u < w
  BY <1>3, <1>4, <1>5, <1>7, <1>8
<1>9. CASE ~(u < w)
  <2>1. h \in 0 .. n
    BY <1>2, <1>9, LongerThanHalf
  <2>2. PICK hi \in Int, lo \in 0 .. w - 1 :
           hi = u \div w /\ lo = u % w /\ u = w * hi + lo
    <3>1. u \in Int
      OBVIOUS
    <3>2. /\ u \div w \in Int /\ u % w \in 0 .. w - 1
          /\ u = w * (u \div w) + (u % w)
      BY <3>1, DivMod, Zenon
    <3> QED
      BY <3>2, Zenon
  <2>3. hi \in Nat
    <3> SUFFICES ASSUME hi <= -1 PROVE FALSE
      BY <2>2
    <3>1. w * hi <= -w
      OBVIOUS
    <3> QED
      BY <2>2, <3>1
  <2>4. ASSUME NEW i \in 1 .. n - h
        PROVE  (hi \div Values[n - h - i]) % Radix = b[i]
    <3>1. n - h - i \in Nat /\ h + (n - h - i) = n - i /\ i \in 1 .. n
      BY <2>1
    <3>2. PICK d \in Nat \ {0} : d = Values[n - h - i]
      BY <3>1, ValuesProperties
    <3>3. Values[n - i] = w * d
      BY <1>2, <3>1, <3>2, ValuesProduct
    <3>4. hi \div d = u \div (w * d)
      BY <2>2, DivTwice
    <3> QED
      BY <1>5, <3>1, <3>2, <3>3, <3>4 DEF Digit
  <2>5. ASSUME NEW i \in 1 .. h
        PROVE  (lo \div Values[h - i]) % Radix = b[n - h + i]
    <3>1. h - i \in 0 .. h - 1 /\ n - (n - h + i) = h - i /\ n - h + i \in 1 .. n
      BY <2>1
    <3>2. u = lo + Values[h] * hi
      BY <1>2, <2>2
    <3>3. (u \div Values[h - i]) % Radix = (lo \div Values[h - i]) % Radix
      BY <2>2, <3>1, <3>2, LowerDigits
    <3> QED
      BY <1>5, <3>1, <3>3 DEF Digit
  <2>6. ASSUME NEW i \in 1 .. h
        PROVE  ((w - 1 - lo) \div Values[h - i]) % Radix = c[n - h + i]
    <3>1. h - i \in 0 .. h - 1 /\ n - (n - h + i) = h - i /\ n - h + i \in 1 .. n
      BY <2>1
    <3>2. PICK a \in Int, k \in Int : a = -u - 1 /\ k = hi + 1
      OBVIOUS
    <3>3. w - 1 - lo = a + Values[h] * k
      <4>1. w * (hi + 1) = w * hi + w
        OBVIOUS
      <4>2. PICK z \in Int : z = w * hi
        OBVIOUS
      <4>3. u = z + lo
        BY <2>2, <4>2
      <4>4. w * k = z + w
        BY <3>2, <4>1, <4>2
      <4>5. PICK y \in Int : y = w * k
        OBVIOUS
      <4>6. w - 1 - lo = a + y
        BY <3>2, <4>3, <4>4, <4>5
      <4> QED
        BY <1>2, <4>5, <4>6, Zenon
    <3>4. ((w - 1 - lo) \div Values[h - i]) % Radix = (a \div Values[h - i]) % Radix
      BY <3>1, <3>2, <3>3, LowerDigits
    <3> QED
      BY <1>5, <3>1, <3>2, <3>4 DEF Digit
  <2>7. PICK f, g, k, l :
           /\ f = EncodeNonNegativeInteger32Neg(hi, n - h, FALSE)
           /\ g = EncodeNonNegativeInteger32Neg(lo, h, FALSE)
           /\ k = EncodeNonNegativeInteger32Neg(hi, n - h, TRUE)
           /\ l = EncodeNonNegativeInteger32Neg(w - 1 - lo, h, FALSE)
    OBVIOUS
  <2>8. f = Upper(b, n, h)
    BY <2>4, <2>7 DEF Upper, EncodeNonNegativeInteger32Neg, AppendByte
  <2>9. g = Lower(b, n, h)
    BY <2>5, <2>7 DEF Lower, EncodeNonNegativeInteger32Neg, AppendByte
  <2>10. k = Upper(c, n, h)
    <3>1. k = [i \in 1 .. n - h |-> Radix - 1 - b[i]]
      BY <2>4, <2>7 DEF EncodeNonNegativeInteger32Neg, AppendByte
    <3>2. \A i \in 1 .. n - h : Radix - 1 - b[i] = c[i]
      BY <1>6, <2>1
    <3> QED
      BY <3>1, <3>2 DEF Upper
  <2>11. l = Lower(c, n, h)
    BY <2>6, <2>7 DEF Lower, EncodeNonNegativeInteger32Neg, AppendByte
  <2>12. EncodeNonNegativeInteger(u, n) = f \o g
    BY <1>1, <1>2, <1>9, <2>2, <2>7, Zenon DEF EncodeNonNegativeInteger
  <2>13. EncodeNonNegativeIntegerNeg(u, n) = k \o l
    BY <1>1, <1>2, <1>9, <2>2, <2>7, Zenon DEF EncodeNonNegativeIntegerNeg
  <2>14. f \o g \in Seq(Byte) /\ Len(f \o g) = n
         /\ \A i \in 1 .. n : (f \o g)[i] = b[i]
    <3>1. \A i \in 1 .. n : b[i] \in Byte
      BY <1>5
    <3>2. /\ Upper(b, n, h) \o Lower(b, n, h) \in Seq(Byte)
          /\ Len(Upper(b, n, h) \o Lower(b, n, h)) = n
          /\ \A i \in 1 .. n : (Upper(b, n, h) \o Lower(b, n, h))[i] = b[i]
      BY <2>1, <3>1, Halves
    <3> QED
      BY <2>8, <2>9, <3>2, Zenon
  <2>15. k \o l \in Seq(Byte) /\ Len(k \o l) = n
         /\ \A i \in 1 .. n : (k \o l)[i] = c[i]
    <3>1. \A i \in 1 .. n : c[i] \in Byte
      BY <1>5
    <3>2. /\ Upper(c, n, h) \o Lower(c, n, h) \in Seq(Byte)
          /\ Len(Upper(c, n, h) \o Lower(c, n, h)) = n
          /\ \A i \in 1 .. n : (Upper(c, n, h) \o Lower(c, n, h))[i] = c[i]
      BY <2>1, <3>1, Halves
    <3> QED
      BY <2>10, <2>11, <3>2, Zenon
  <2> QED
    BY <1>5, <2>12, <2>13, <2>14, <2>15
<1> QED
  BY <1>8, <1>9

LEMMA IntegerEncoded ==
    ASSUME NEW v \in asn1SccSint
    PROVE  /\ EncodeUnConstraintWholeNumber(v) \in Seq(Byte)
           /\ Len(EncodeUnConstraintWholeNumber(v)) = GetLengthInBytesOfSInt(v) + 1
           /\ EncodeUnConstraintWholeNumber(v)[1] = GetLengthInBytesOfSInt(v)
           /\ \A i \in 1 .. GetLengthInBytesOfSInt(v) :
                 EncodeUnConstraintWholeNumber(v)[i + 1] =
                    (v \div Values[GetLengthInBytesOfSInt(v) - i]) % Radix
<1>1. PICK n \in 1 .. WORD_SIZE : n = GetLengthInBytesOfSInt(v)
  BY IntegerLength
<1>2. PICK h : h = <<n>>
  OBVIOUS
<1>3. n \in Byte /\ n \in Nat
  BY RadixType, CodecAssumption DEF CodecAssumption, Byte
<1>4. h \in Seq(Byte) /\ Len(h) = 1 /\ h[1] = n
  BY <1>2, <1>3
<1>5. PICK e : e = IF v >= 0 THEN EncodeNonNegativeInteger(v, n)
                   ELSE EncodeNonNegativeIntegerNeg(-v - 1, n)
  OBVIOUS
<1>6. v \in Int /\ v < Values[n] /\ -v - 1 < Values[n]
  <2>1. PICK w \in Nat \ {0} : w = Values[n]
    BY <1>3, ValuesProperties
  <2>2. v \in Int /\ -(w \div 2) <= v /\ v < w \div 2
    BY <1>1, <2>1, IntegerLength, SintType
  <2> QED
    BY <2>1, <2>2
<1>7. e \in Seq(Byte) /\ Len(e) = n /\ \A i \in 1 .. n : e[i] = (v \div Values[n - i]) % Radix
  <2>1. CASE v >= 0
    <3>1. v \in Nat /\ e = EncodeNonNegativeInteger(v, n)
      BY <1>5, <1>6, <2>1
    <3> QED
      BY <1>3, <1>6, <3>1, NonNegativeEncoded DEF Digit
  <2>2. CASE ~(v >= 0)
    <3>1. PICK u \in Nat : u = -v - 1
      BY <1>6, <2>2
    <3>2. e = EncodeNonNegativeIntegerNeg(u, n) /\ v = -u - 1
      BY <1>5, <1>6, <2>2, <3>1
    <3> QED
      BY <1>3, <1>6, <3>1, <3>2, NonNegativeEncoded DEF Digit
  <2> QED
    BY <2>1, <2>2
<1>8. EncodeUnConstraintWholeNumber(v) = h \o e
  BY <1>1, <1>2, <1>5, Zenon DEF EncodeUnConstraintWholeNumber
<1>9. /\ h \o e \in Seq(Byte) /\ Len(h \o e) = Len(h) + Len(e)
      /\ \A i \in 1 .. Len(h) + Len(e) :
            (h \o e)[i] = IF i <= Len(h) THEN h[i] ELSE e[i - Len(h)]
  BY <1>4, <1>7, ConcatProperties
<1>10. Len(h \o e) = n + 1
  BY <1>3, <1>4, <1>7, <1>9
<1>11. (h \o e)[1] = n
  BY <1>3, <1>4, <1>7, <1>9
<1>12. ASSUME NEW i \in 1 .. n PROVE (h \o e)[i + 1] = (v \div Values[n - i]) % Radix
  <2>1. i + 1 \in 1 .. Len(h) + Len(e) /\ ~(i + 1 <= Len(h)) /\ i + 1 - Len(h) = i
    BY <1>3, <1>4, <1>7
  <2>2. (h \o e)[i + 1] = e[i]
    BY <1>9, <2>1
  <2> QED
    BY <1>7, <2>2
<1> QED
  BY <1>1, <1>8, <1>9, <1>10, <1>11, <1>12

LEMMA OctetsEncoded ==
    ASSUME NEW s \in Seq(Byte), IsConstraintValid(s)
    PROVE  /\ Len(s) \in 1 .. Radix
           /\ OctetString_Encode(s) \in Seq(Byte)
           /\ Len(OctetString_Encode(s)) = Len(s) + 1
           /\ OctetString_Encode(s)[1] = Len(s) - 1
           /\ \A i \in 1 .. Len(s) : OctetString_Encode(s)[i + 1] = s[i]
<1>1. PICK n \in 1 .. Radix : n = Len(s)
  BY DEF IsConstraintValid
<1>2. PICK h : h = <<n - 1>>
  OBVIOUS
<1>3. n - 1 \in Byte /\ n \in Nat
  BY RadixType DEF Byte
<1>4. h \in Seq(Byte) /\ Len(h) = 1 /\ h[1] = n - 1
  BY <1>2, <1>3
<1>5. OctetString_Encode(s) = h \o s
  BY <1>1, <1>2, Zenon DEF OctetString_Encode, EncodeConstraintWholeNumber
<1>6. /\ h \o s \in Seq(Byte) /\ Len(h \o s) = Len(h) + Len(s)
      /\ \A i \in 1 .. Len(h) + Len(s) :
            (h \o s)[i] = IF i <= Len(h) THEN h[i] ELSE s[i - Len(h)]
  BY <1>4, ConcatProperties
<1>7. Len(h \o s) = n + 1 /\ (h \o s)[1] = n - 1
  BY <1>1, <1>3, <1>4, <1>6
<1>8. ASSUME NEW i \in 1 .. n PROVE (h \o s)[i + 1] = s[i]
  <2>1. i + 1 \in 1 .. Len(h) + Len(s) /\ ~(i + 1 <= Len(h)) /\ i + 1 - Len(h) = i
    BY <1>1, <1>3, <1>4
  <2> QED
    BY <1>6, <2>1
<1> QED
  BY <1>1, <1>5, <1>6, <1>7, <1>8

InputMessage ==
    {m \in [invokeid : asn1SccSint, command : Seq(Byte)] :
        IsConstraintValid(m.command)}

OutputMessage ==
    {m \in [invokeid : asn1SccSint, command : Seq(Byte), result : Seq(Byte)] :
        IsConstraintValid(m.command) /\ IsConstraintValid(m.result)}

LEMMA MessageTypes ==
    /\ Requests \subseteq InputMessage /\ Replies \subseteq OutputMessage
BY WireAssumption DEF WireAssumption, InputMessage, OutputMessage

\* Every message fits the buffer with its header, and the header its length.
LEMMA InputEncoded ==
    ASSUME NEW m \in InputMessage
    PROVE  /\ InputType_Encode(m) \in Pdu
           /\ Len(InputType_Encode(m)) + 2 <= BUFFER_KSIZE
<1>1. m.invokeid \in asn1SccSint /\ m.command \in Seq(Byte) /\ IsConstraintValid(m.command)
  BY DEF InputMessage
<1>2. PICK e \in Seq(Byte), n \in 1 .. WORD_SIZE :
         e = EncodeUnConstraintWholeNumber(m.invokeid) /\ Len(e) = n + 1
  BY <1>1, IntegerLength, IntegerEncoded
<1>3. PICK c \in Seq(Byte), k \in 1 .. Radix :
         c = OctetString_Encode(m.command) /\ Len(c) = k + 1
  BY <1>1, OctetsEncoded
<1>4. InputType_Encode(m) = e \o c
  BY <1>2, <1>3, Zenon DEF InputType_Encode
<1>5. e \o c \in Seq(Byte) /\ Len(e \o c) = Len(e) + Len(c)
  BY ConcatProperties
<1>6. PICK l \in Nat : l = Len(e \o c) /\ l = n + 1 + (k + 1)
  BY <1>2, <1>3, <1>5, RadixType
<1>7. l >= 1 /\ l + 2 <= BUFFER_KSIZE /\ l <= Radix * Radix - 1
  <2>1. 2 + 3 + WORD_SIZE + 2 * Radix <= BUFFER_KSIZE /\ BUFFER_KSIZE <= Radix * Radix
    BY CodecAssumption DEF CodecAssumption, PDU_HEADER_LENGTH
  <2>2. Radix * Radix \in Nat
    BY RadixType
  <2> QED
    BY <1>6, <2>1, <2>2, RadixType
<1> QED
  BY <1>4, <1>5, <1>6, <1>7 DEF Pdu

LEMMA OutputEncoded ==
    ASSUME NEW m \in OutputMessage
    PROVE  /\ OutputType_Encode(m) \in Pdu
           /\ Len(OutputType_Encode(m)) + 2 <= BUFFER_KSIZE
<1>1. /\ m.invokeid \in asn1SccSint
      /\ m.command \in Seq(Byte) /\ IsConstraintValid(m.command)
      /\ m.result \in Seq(Byte) /\ IsConstraintValid(m.result)
  BY DEF OutputMessage
<1>2. PICK e \in Seq(Byte), n \in 1 .. WORD_SIZE :
         e = EncodeUnConstraintWholeNumber(m.invokeid) /\ Len(e) = n + 1
  BY <1>1, IntegerLength, IntegerEncoded
<1>3. PICK c \in Seq(Byte), k \in 1 .. Radix :
         c = OctetString_Encode(m.command) /\ Len(c) = k + 1
  BY <1>1, OctetsEncoded
<1>4. PICK r \in Seq(Byte), j \in 1 .. Radix :
         r = OctetString_Encode(m.result) /\ Len(r) = j + 1
  BY <1>1, OctetsEncoded
<1>5. OutputType_Encode(m) = (e \o c) \o r
  BY <1>2, <1>3, <1>4, Zenon DEF OutputType_Encode
<1>6. PICK f \in Seq(Byte) : f = e \o c /\ Len(f) = Len(e) + Len(c)
  BY ConcatProperties
<1>7. f \o r \in Seq(Byte) /\ Len(f \o r) = Len(f) + Len(r)
  BY ConcatProperties
<1>8. PICK l \in Nat : l = Len(f \o r) /\ l = (n + 1) + (k + 1) + (j + 1)
  BY <1>2, <1>3, <1>4, <1>6, <1>7, RadixType
<1>9. l >= 1 /\ l + 2 <= BUFFER_KSIZE /\ l <= Radix * Radix - 1
  <2>1. 2 + 3 + WORD_SIZE + 2 * Radix <= BUFFER_KSIZE /\ BUFFER_KSIZE <= Radix * Radix
    BY CodecAssumption DEF CodecAssumption, PDU_HEADER_LENGTH
  <2>2. Radix * Radix \in Nat
    BY RadixType
  <2> QED
    BY <1>8, <2>1, <2>2, RadixType
<1> QED
  BY <1>5, <1>6, <1>7, <1>8, <1>9 DEF Pdu

LEMMA PdusType ==
    /\ \A s \in Seq(Requests) : InputPdus(s) \in Seq(Pdu) /\ Len(InputPdus(s)) = Len(s)
    /\ \A s \in Seq(Replies) : OutputPdus(s) \in Seq(Pdu) /\ Len(OutputPdus(s)) = Len(s)
<1>1. ASSUME NEW s \in Seq(Requests)
      PROVE  InputPdus(s) \in Seq(Pdu) /\ Len(InputPdus(s)) = Len(s)
  <2>1. PICK n \in Nat : n = Len(s) /\ DOMAIN s = 1 .. n
    BY LenProperties
  <2>2. \A i \in 1 .. n : s[i] \in InputMessage
    BY <2>1, ElementOfSeq, MessageTypes
  <2>3. \A i \in 1 .. n : InputType_Encode(s[i]) \in Pdu
    BY <2>2, InputEncoded
  <2>4. InputPdus(s) = [i \in 1 .. n |-> InputType_Encode(s[i])]
    BY <2>1 DEF InputPdus
  <2> QED
    BY <2>1, <2>3, <2>4
<1>2. ASSUME NEW s \in Seq(Replies)
      PROVE  OutputPdus(s) \in Seq(Pdu) /\ Len(OutputPdus(s)) = Len(s)
  <2>1. PICK n \in Nat : n = Len(s) /\ DOMAIN s = 1 .. n
    BY LenProperties
  <2>2. \A i \in 1 .. n : s[i] \in OutputMessage
    BY <2>1, ElementOfSeq, MessageTypes
  <2>3. \A i \in 1 .. n : OutputType_Encode(s[i]) \in Pdu
    BY <2>2, OutputEncoded
  <2>4. OutputPdus(s) = [i \in 1 .. n |-> OutputType_Encode(s[i])]
    BY <2>1 DEF OutputPdus
  <2> QED
    BY <2>1, <2>3, <2>4
<1> QED
  BY <1>1, <1>2

LEMMA PdusAppend ==
    /\ \A s \in Seq(Requests), m \in Requests :
          InputPdus(Append(s, m)) = Append(InputPdus(s), InputType_Encode(m))
    /\ \A s \in Seq(Replies), m \in Replies :
          OutputPdus(Append(s, m)) = Append(OutputPdus(s), OutputType_Encode(m))
<1>1. ASSUME NEW s \in Seq(Requests), NEW m \in Requests
      PROVE  InputPdus(Append(s, m)) = Append(InputPdus(s), InputType_Encode(m))
  <2>1. PICK n \in Nat : n = Len(s) /\ DOMAIN s = 1 .. n
    BY LenProperties
  <2>2. PICK t \in Seq(Requests) : /\ t = Append(s, m) /\ Len(t) = n + 1
                                   /\ \A i \in 1 .. n : t[i] = s[i]
                                   /\ t[n + 1] = m
    BY <2>1, AppendProperties
  <2>3. PICK p \in Seq(Pdu), e \in Pdu :
           p = InputPdus(s) /\ e = InputType_Encode(m) /\ Len(p) = n
    BY <2>1, PdusType, InputEncoded, MessageTypes
  <2>4. /\ Append(p, e) \in Seq(Pdu) /\ Len(Append(p, e)) = n + 1
        /\ \A i \in 1 .. n : Append(p, e)[i] = p[i]
        /\ Append(p, e)[n + 1] = e
    BY <2>3, AppendProperties
  <2>5. InputPdus(t) \in Seq(Pdu) /\ Len(InputPdus(t)) = n + 1
    BY <2>2, PdusType
  <2>6. \A i \in 1 .. n : p[i] = InputType_Encode(s[i])
    BY <2>1, <2>3 DEF InputPdus
  <2>7. \A i \in 1 .. n + 1 : InputPdus(t)[i] = InputType_Encode(t[i])
    <3>1. DOMAIN t = 1 .. n + 1
      BY <2>2, LenProperties
    <3> QED
      BY <3>1 DEF InputPdus
  <2>8. ASSUME NEW i \in 1 .. n + 1 PROVE InputPdus(t)[i] = Append(p, e)[i]
    <3>1. i = n + 1 \/ i \in 1 .. n
      OBVIOUS
    <3> QED
      BY <2>2, <2>3, <2>4, <2>6, <2>7, <3>1
  <2>9. InputPdus(t) = Append(p, e)
    BY <2>4, <2>5, <2>8, SeqEqual
  <2> QED
    BY <2>2, <2>3, <2>9
<1>2. ASSUME NEW s \in Seq(Replies), NEW m \in Replies
      PROVE  OutputPdus(Append(s, m)) = Append(OutputPdus(s), OutputType_Encode(m))
  <2>1. PICK n \in Nat : n = Len(s) /\ DOMAIN s = 1 .. n
    BY LenProperties
  <2>2. PICK t \in Seq(Replies) : /\ t = Append(s, m) /\ Len(t) = n + 1
                                  /\ \A i \in 1 .. n : t[i] = s[i]
                                  /\ t[n + 1] = m
    BY <2>1, AppendProperties
  <2>3. PICK p \in Seq(Pdu), e \in Pdu :
           p = OutputPdus(s) /\ e = OutputType_Encode(m) /\ Len(p) = n
    BY <2>1, PdusType, OutputEncoded, MessageTypes
  <2>4. /\ Append(p, e) \in Seq(Pdu) /\ Len(Append(p, e)) = n + 1
        /\ \A i \in 1 .. n : Append(p, e)[i] = p[i]
        /\ Append(p, e)[n + 1] = e
    BY <2>3, AppendProperties
  <2>5. OutputPdus(t) \in Seq(Pdu) /\ Len(OutputPdus(t)) = n + 1
    BY <2>2, PdusType
  <2>6. \A i \in 1 .. n : p[i] = OutputType_Encode(s[i])
    BY <2>1, <2>3 DEF OutputPdus
  <2>7. \A i \in 1 .. n + 1 : OutputPdus(t)[i] = OutputType_Encode(t[i])
    <3>1. DOMAIN t = 1 .. n + 1
      BY <2>2, LenProperties
    <3> QED
      BY <3>1 DEF OutputPdus
  <2>8. ASSUME NEW i \in 1 .. n + 1 PROVE OutputPdus(t)[i] = Append(p, e)[i]
    <3>1. i = n + 1 \/ i \in 1 .. n
      OBVIOUS
    <3> QED
      BY <2>2, <2>3, <2>4, <2>6, <2>7, <3>1
  <2>9. OutputPdus(t) = Append(p, e)
    BY <2>4, <2>5, <2>8, SeqEqual
  <2> QED
    BY <2>2, <2>3, <2>9
<1> QED
  BY <1>1, <1>2

-----------------------------------------------------------------------------
(* What is encoded is decoded. *)

LEMMA HalfValues ==
    ASSUME NEW n \in Nat
    PROVE  /\ Radix \div 2 \in Nat \ {0} /\ Radix = 2 * (Radix \div 2)
           /\ Values[n + 1] \div 2 = (Radix \div 2) * Values[n]
           /\ Values[n + 1] = 2 * (Values[n + 1] \div 2)
<1>1. PICK h \in Nat \ {0} : h = Radix \div 2 /\ Radix = 2 * h
  <2>1. Radix % 2 = 0
    BY CodecAssumption DEF CodecAssumption
  <2>2. Radix = 2 * (Radix \div 2) + (Radix % 2) /\ Radix \div 2 \in Int
    BY RadixType, DivMod
  <2> QED
    BY <2>1, <2>2, RadixType
<1>2. PICK w \in Nat \ {0} : w = Values[n]
  BY ValuesProperties
<1>3. PICK u \in Nat : u = h * w
  OBVIOUS
<1>4. Values[n + 1] = 2 * u
  <2>1. Values[n + 1] = (2 * h) * w
    BY <1>1, <1>2, ValuesProperties
  <2>2. (2 * h) * w = 2 * (h * w)
    OBVIOUS
  <2> QED
    BY <1>3, <2>1, <2>2
<1>5. (2 * u) \div 2 = u
  OBVIOUS
<1> QED
  BY <1>1, <1>2, <1>3, <1>4, <1>5

LEMMA WordIs ==
    ASSUME NEW v \in asn1SccSint
    PROVE  Word(v) = v
<1>1. PICK k \in Nat : WORD_SIZE = k + 1
  <2>1. WORD_SIZE - 1 \in Nat /\ WORD_SIZE = (WORD_SIZE - 1) + 1
    BY RadixType
  <2> QED
    BY <2>1, Zenon
<1>2. PICK half \in Nat : half = Values[WORD_SIZE] \div 2
  BY SintType
<1>3. PICK w \in Nat \ {0} : w = Values[WORD_SIZE]
  BY ValuesProperties, RadixType
<1>4. w = 2 * half
  BY <1>1, <1>2, <1>3, HalfValues
<1>5. v \in Int /\ -half <= v /\ v < half
  BY <1>2, SintType
<1>6. PICK r \in 0 .. w - 1 : r = v + half
  BY <1>4, <1>5
<1>7. r % w = r
  BY DivUnique
<1> QED
  BY <1>2, <1>3, <1>5, <1>6, <1>7 DEF Word

LEMMA Shifted ==
    ASSUME NEW v \in asn1SccSint, NEW d \in Nat \ {0}
    PROVE  v \div d \in asn1SccSint
<1>1. PICK half \in Nat : half = Values[WORD_SIZE] \div 2
  BY SintType
<1>2. v \in Int /\ -half <= v /\ v < half
  BY <1>1, SintType
<1>3. PICK q \in Int, r \in 0 .. d - 1 : q = v \div d /\ v = d * q + r
  BY <1>2, DivMod
<1>4. -half <= q
  <2> SUFFICES ASSUME q < -half PROVE FALSE
    OBVIOUS
  <2>1. d * q <= d * (-half - 1)
    OBVIOUS
  <2>2. d * (-half - 1) = -(d * half) - d /\ d * half >= half
    OBVIOUS
  <2>3. d * q \in Int /\ d * half \in Nat
    OBVIOUS
  <2> QED
    BY <1>2, <1>3, <2>1, <2>2, <2>3
<1>5. q < half
  <2> SUFFICES ASSUME q >= half PROVE FALSE
    OBVIOUS
  <2>1. d * q >= d * half /\ d * half >= half
    OBVIOUS
  <2>2. d * q \in Int /\ d * half \in Nat
    OBVIOUS
  <2> QED
    BY <1>2, <1>3, <2>1, <2>2
<1> QED
  BY <1>1, <1>3, <1>4, <1>5 DEF asn1SccSint

\* One more byte of v.
LEMMA NextByte ==
    ASSUME NEW v \in Int, NEW k \in Nat
    PROVE  (v \div Values[k + 1]) * Radix + ((v \div Values[k]) % Radix)
              = v \div Values[k]
<1>1. PICK w \in Nat \ {0} : w = Values[k]
  BY ValuesProperties
<1>2. PICK x \in Nat \ {0} : x = Radix
  BY RadixType
<1>3. PICK q \in Int : q = v \div w
  OBVIOUS
<1>4. Values[k + 1] = w * x
  BY <1>1, <1>2, ValuesProperties
<1>5. (v \div w) \div x = v \div (w * x)
  OBVIOUS
<1>6. q = x * (q \div x) + (q % x) /\ q \div x \in Int
  BY DivMod
<1>7. x * (q \div x) = (q \div x) * x
  BY <1>6
<1> QED
  BY <1>1, <1>2, <1>3, <1>4, <1>5, <1>6, <1>7

\* The first byte has the sign.
LEMMA SignByte ==
    ASSUME NEW v \in Int, NEW k \in Nat,
           -(Values[k + 1] \div 2) <= v, v < Values[k + 1] \div 2
    PROVE  (IF (v \div Values[k]) % Radix >= Radix \div 2 THEN -1 ELSE 0)
              = v \div Values[k + 1]
<1>1. PICK w \in Nat \ {0} : w = Values[k]
  BY ValuesProperties
<1>2. PICK h \in Nat \ {0} : h = Radix \div 2 /\ Radix = 2 * h
  BY HalfValues
<1>3. Values[k + 1] \div 2 = h * w /\ Values[k + 1] = 2 * (h * w)
  BY <1>1, <1>2, HalfValues
<1>4. PICK a \in Nat \ {0} : a = h * w
  OBVIOUS
<1>5. PICK q \in Int, r \in 0 .. w - 1 : q = v \div w /\ v = w * q + r
  BY DivMod
<1>6. -a <= v /\ v < a /\ Values[k + 1] = 2 * a
  BY <1>3, <1>4
<1>7. -h <= q /\ q < h
  <2>1. ASSUME q >= h PROVE FALSE
    <3>1. w * q >= w * h /\ w * h = a
      BY <1>4, <2>1
    <3> QED
      BY <1>5, <1>6, <3>1
  <2>2. ASSUME q < -h PROVE FALSE
    <3>1. w * q <= w * (-h - 1) /\ w * (-h - 1) = -a - w
      BY <1>4, <2>2
    <3> QED
      BY <1>5, <1>6, <3>1
  <2> QED
    BY <2>1, <2>2
<1>8. CASE v >= 0
  <2>1. q >= 0
    <3> SUFFICES ASSUME q <= -1 PROVE FALSE
      OBVIOUS
    <3>1. w * q <= -w
      OBVIOUS
    <3> QED
      BY <1>5, <1>8, <3>1
  <2>2. q % (2 * h) = q
    BY <1>7, <2>1
  <2>3. v \div (2 * a) = 0
    BY <1>6, <1>8
  <2> QED
    BY <1>1, <1>2, <1>5, <1>6, <1>7, <2>2, <2>3
<1>9. CASE v < 0
  <2>1. q <= -1
    <3> SUFFICES ASSUME q >= 0 PROVE FALSE
      OBVIOUS
    <3>1. w * q >= 0
      OBVIOUS
    <3> QED
      BY <1>5, <1>9, <3>1
  <2>2. PICK d \in Nat \ {0} : d = 2 * h
    OBVIOUS
  <2>3. PICK b \in 0 .. d - 1 : b = q + d
    BY <1>7, <2>1, <2>2
  <2>4. q = d * (-1) + b
    BY <2>3
  <2>5. q % d = b
    BY <2>4, DivUnique
  <2>6. PICK e \in Nat \ {0} : e = 2 * a
    OBVIOUS
  <2>7. PICK c \in 0 .. e - 1 : c = v + e
    BY <1>6, <1>9, <2>6
  <2>8. v = e * (-1) + c
    BY <2>7
  <2>9. v \div e = -1
    BY <2>8, DivUnique
  <2>10. (v \div Values[k]) % Radix = b /\ b >= Radix \div 2
    <3>1. (v \div Values[k]) % Radix = q % d
      BY <1>1, <1>2, <1>5, <2>2, Zenon
    <3>2. b >= h
      BY <1>7, <2>2, <2>3
    <3> QED
      BY <1>2, <2>5, <3>1, <3>2
  <2>11. v \div Values[k + 1] = -1
    BY <1>6, <2>6, <2>9
  <2> QED
    BY <1>2, <2>10, <2>11
<1> QED
  BY <1>8, <1>9

LEMMA IntegerDecoded ==
    ASSUME NEW v \in asn1SccSint, NEW stream,
           NEW n \in 1 .. WORD_SIZE, n = GetLengthInBytesOfSInt(v),
           \A i \in 1 .. n : stream[i + 1] = (v \div Values[n - i]) % Radix
    PROVE  DecodeInteger(stream, 2, n) = v
<1> DEFINE recursive(f) ==
               f = [i \in 0 .. n |->
                      IF i = 0
                        THEN IF stream[2] >= Radix \div 2 THEN -1 ELSE 0
                        ELSE Word(f[i - 1] * Radix + stream[2 + i - 1])]
           h == [i \in 0 .. n |-> v \div Values[n - i]]
<1>1. n \in Nat \ {0} /\ v \in Int
  BY RadixType, SintType
<1>2. \A i \in 0 .. n : h[i] = v \div Values[n - i] /\ h[i] \in asn1SccSint
  <2> SUFFICES ASSUME NEW i \in 0 .. n PROVE v \div Values[n - i] \in asn1SccSint
    OBVIOUS
  <2>1. PICK w \in Nat \ {0} : w = Values[n - i]
    <3>1. n - i \in Nat
      BY <1>1
    <3> QED
      BY <3>1, ValuesProperties
  <2> QED
    BY <2>1, Shifted
<1>3. h[0] = IF stream[2] >= Radix \div 2 THEN -1 ELSE 0
  <2>1. PICK k \in Nat : n = k + 1 /\ k = n - 1
    BY <1>1
  <2>2. 1 \in 1 .. n /\ 0 \in 0 .. n
    BY <1>1
  <2>3. stream[2] = (v \div Values[k]) % Radix
    BY <2>1, <2>2
  <2>4. -(Values[k + 1] \div 2) <= v /\ v < Values[k + 1] \div 2
    BY <2>1, IntegerLength
  <2>5. h[0] = v \div Values[k + 1]
    BY <1>1, <1>2, <2>1, <2>2
  <2> QED
    BY <1>1, <2>3, <2>4, <2>5, SignByte
<1>4. ASSUME NEW i \in 1 .. n
      PROVE  h[i] = Word(h[i - 1] * Radix + stream[2 + i - 1])
  <2>1. PICK k \in Nat : k = n - i /\ k + 1 = n - (i - 1)
    BY <1>1
  <2>2. i - 1 \in 0 .. n /\ i \in 0 .. n /\ 2 + i - 1 = i + 1
    BY <1>1
  <2>3. stream[2 + i - 1] = (v \div Values[k]) % Radix
    BY <2>1, <2>2
  <2>4. h[i] = v \div Values[k] /\ h[i] \in asn1SccSint
    BY <1>2, <2>1, <2>2
  <2>5. h[i - 1] = v \div Values[k + 1]
    BY <1>2, <2>1, <2>2
  <2>6. h[i - 1] * Radix + stream[2 + i - 1] = h[i]
    BY <1>1, <2>3, <2>4, <2>5, NextByte
  <2> QED
    BY <2>4, <2>6, WordIs
<1>5. recursive(h)
  <2> DEFINE r == [i \in 0 .. n |->
                      IF i = 0
                        THEN IF stream[2] >= Radix \div 2 THEN -1 ELSE 0
                        ELSE Word(h[i - 1] * Radix + stream[2 + i - 1])]
  <2>1. h = [i \in 0 .. n |-> h[i]] /\ r = [i \in 0 .. n |-> r[i]]
    OBVIOUS
  <2> HIDE DEF h
  <2>2. \A i \in 0 .. n : h[i] = r[i]
    BY <1>1, <1>3, <1>4
  <2>3. h = r
    <3> HIDE DEF r
    <3> QED
      BY <2>1, <2>2
  <2> QED
    BY <2>3
<1> HIDE DEF h
<1>6. PICK f : recursive(f) /\ DecodeInteger(stream, 2, n) = f[n]
  <2> DEFINE value == CHOOSE f : recursive(f)
  <2>1. DecodeInteger(stream, 2, n) = IF n = 0 THEN 0 ELSE value[n]
    BY DEF DecodeInteger
  <2> HIDE DEF recursive
  <2>2. recursive(value)
    BY <1>5
  <2> QED
    BY <1>1, <2>1, <2>2
<1> DEFINE T == {i \in Nat : i <= n => f[i] = h[i]}
<1>7. 0 \in T
  BY <1>1, <1>3, <1>6
<1>8. ASSUME NEW i \in Nat, i \in T PROVE i + 1 \in T
  <2> SUFFICES ASSUME i + 1 <= n PROVE f[i + 1] = h[i + 1]
    OBVIOUS
  <2>1. PICK j \in 1 .. n : j = i + 1 /\ j - 1 = i
    BY <1>1
  <2>2. f[j - 1] = h[j - 1]
    BY <1>1, <1>8, <2>1
  <2>3. j \in 0 .. n /\ j # 0
    BY <1>1
  <2>4. f[j] = Word(f[j - 1] * Radix + stream[2 + j - 1])
    BY <1>6, <2>3
  <2> QED
    BY <1>4, <2>1, <2>2, <2>4
<1> HIDE DEF T
<1>9. n \in T
  BY <1>1, <1>7, <1>8, Induction
<1>10. f[n] = h[n]
  BY <1>1, <1>9 DEF T
<1>11. h[n] = v
  <2>1. n \in 0 .. n /\ n - n = 0
    BY <1>1
  <2>2. h[n] = v \div Values[0]
    BY <1>2, <2>1
  <2> QED
    BY <1>1, <2>2, ValuesProperties
<1> QED
  BY <1>6, <1>10, <1>11

LEMMA OctetsDecoded ==
    ASSUME NEW s \in Seq(Byte), NEW stream, NEW at \in Nat,
           stream[at] = Len(s) - 1,
           \A i \in 1 .. Len(s) : stream[at + i] = s[i]
    PROVE  DecodeOctets(stream, at) = s
<1>1. PICK n \in Nat : n = Len(s)
  BY LenProperties
<1>2. DecodeConstraintWholeNumber(stream[at]) = n
  BY <1>1 DEF DecodeConstraintWholeNumber
<1>3. DecodeOctets(stream, at) = [i \in 1 .. n |-> stream[at + i]]
  BY <1>2, Zenon DEF DecodeOctets
<1>4. s = [i \in 1 .. n |-> s[i]]
  BY <1>1
<1> QED
  BY <1>1, <1>3, <1>4

\* In a stream that begins with a message, its fields are where the decoders
\* look for them.
LEMMA BitStreamIs ==
    ASSUME NEW p \in Seq(Byte), Len(p) <= BUFFER_KSIZE
    PROVE  \A i \in 1 .. Len(p) : BitStream(p)[i] = p[i]
<1>1. PICK n \in Nat : n = Len(p)
  BY LenProperties
<1> QED
  BY <1>1, RadixType DEF BitStream

\* u consists of the n bytes of s and the k bytes of t.
Joined(u, s, n, t, k) ==
    /\ u \in Seq(Byte) /\ Len(u) = n + k
    /\ \A i \in 1 .. n : u[i] = s[i]
    /\ \A i \in 1 .. k : u[n + i] = t[i]

LEMMA ConcatJoined ==
    ASSUME NEW s \in Seq(Byte), NEW t \in Seq(Byte),
           NEW n \in Nat, n = Len(s), NEW k \in Nat, k = Len(t)
    PROVE  Joined(s \o t, s, n, t, k)
<1>1. /\ s \o t \in Seq(Byte) /\ Len(s \o t) = n + k
      /\ \A i \in 1 .. n + k : (s \o t)[i] = IF i <= n THEN s[i] ELSE t[i - n]
  BY ConcatProperties
<1>2. \A i \in 1 .. n : (s \o t)[i] = s[i]
  BY <1>1
<1>3. ASSUME NEW i \in 1 .. k PROVE (s \o t)[n + i] = t[i]
  <2>1. n + i \in 1 .. n + k /\ ~(n + i <= n) /\ n + i - n = i
    OBVIOUS
  <2> QED
    BY <1>1, <2>1
<1> QED
  BY <1>1, <1>2, <1>3, Zenon DEF Joined

(***************************************************************************)
(* InputType_Decode (messages.c) is the inverse of InputType_Encode: for   *)
(* every message within the constraints, of any size and with any invokeid.*)
(***************************************************************************)
THEOREM InputDecoded ==
    ASSUME NEW m \in InputMessage
    PROVE  InputType_Decode(InputType_Encode(m)) = m
<1>1. /\ m.invokeid \in asn1SccSint
      /\ m.command \in Seq(Byte) /\ IsConstraintValid(m.command)
      /\ m = [invokeid |-> m.invokeid, command |-> m.command]
  BY DEF InputMessage
<1>2. PICK v \in asn1SccSint, cs \in Seq(Byte) :
         v = m.invokeid /\ cs = m.command
  BY <1>1, Zenon
<1>3. PICK n \in 1 .. WORD_SIZE : n = GetLengthInBytesOfSInt(v)
  BY IntegerLength
<1>4. PICK e \in Seq(Byte) : e = EncodeUnConstraintWholeNumber(v)
  BY IntegerEncoded
<1>5. /\ Len(e) = n + 1 /\ e[1] = n
      /\ \A i \in 1 .. n : e[i + 1] = (v \div Values[n - i]) % Radix
  BY <1>3, <1>4, IntegerEncoded
<1>6. PICK c \in Seq(Byte), k \in 1 .. Radix :
         /\ c = OctetString_Encode(cs) /\ k = Len(cs)
         /\ Len(c) = k + 1 /\ c[1] = k - 1
         /\ \A i \in 1 .. k : c[i + 1] = cs[i]
  BY <1>1, <1>2, OctetsEncoded
<1>7. n \in Nat \ {0} /\ k \in Nat \ {0}
  BY RadixType
<1>8. PICK p \in Seq(Byte) :
         /\ p = e \o c /\ Len(p) = n + k + 2
         /\ \A i \in 1 .. n + 1 : p[i] = e[i]
         /\ \A i \in 1 .. k + 1 : p[n + 1 + i] = c[i]
  <2>1. PICK a \in Nat : a = n + 1 /\ a = Len(e)
    BY <1>5, <1>7
  <2>2. PICK b \in Nat : b = k + 1 /\ b = Len(c)
    BY <1>6, <1>7
  <2>3. a = Len(e) /\ b = Len(c)
    BY <2>1, <2>2, Zenon
  <2>4. PICK p : p = e \o c /\ Joined(p, e, a, c, b)
    BY <2>3, ConcatJoined, Zenon
  <2>5. a + b = n + k + 2
    BY <1>7, <2>1, <2>2
  <2>6. /\ p \in Seq(Byte) /\ Len(p) = a + b
        /\ \A i \in 1 .. a : p[i] = e[i]
        /\ \A i \in 1 .. b : p[a + i] = c[i]
    BY <2>4, Zenon DEF Joined
  <2>7. /\ \A i \in 1 .. n + 1 : p[i] = e[i]
        /\ \A i \in 1 .. k + 1 : p[n + 1 + i] = c[i]
    BY <2>1, <2>2, <2>6
  <2> QED
    BY <2>4, <2>5, <2>6, <2>7, Zenon
<1>9. p = InputType_Encode(m)
  BY <1>2, <1>4, <1>6, <1>8, Zenon DEF InputType_Encode
<1>10. PICK stream : stream = BitStream(p)
  OBVIOUS
<1>11. \A i \in 1 .. n + k + 2 : stream[i] = p[i]
  <2>1. Len(p) <= BUFFER_KSIZE
    BY <1>7, <1>8, <1>9, InputEncoded, RadixType
  <2> QED
    BY <1>8, <1>10, <2>1, BitStreamIs
<1>12. \A i \in 1 .. n + 1 : stream[i] = e[i]
  <2> SUFFICES ASSUME NEW i \in 1 .. n + 1 PROVE stream[i] = e[i]
    OBVIOUS
  <2>1. i \in 1 .. n + k + 2
    BY <1>7
  <2> QED
    BY <1>8, <1>11, <2>1
<1>13. \A i \in 1 .. k + 1 : stream[n + 1 + i] = c[i]
  <2> SUFFICES ASSUME NEW i \in 1 .. k + 1 PROVE stream[n + 1 + i] = c[i]
    OBVIOUS
  <2>1. n + 1 + i \in 1 .. n + k + 2
    BY <1>7
  <2> QED
    BY <1>8, <1>11, <2>1
<1>14. stream[1] = n
  BY <1>5, <1>7, <1>12
<1>15. DecodeInteger(stream, 2, n) = v
  <2>1. \A i \in 1 .. n : stream[i + 1] = (v \div Values[n - i]) % Radix
    <3> SUFFICES ASSUME NEW i \in 1 .. n
                 PROVE  stream[i + 1] = (v \div Values[n - i]) % Radix
      OBVIOUS
    <3>1. i + 1 \in 1 .. n + 1
      BY <1>7
    <3> QED
      BY <1>5, <1>12, <3>1
  <2> QED
    BY <1>3, <2>1, IntegerDecoded
<1>16. DecodeOctets(stream, n + 2) = cs
  <2>1. PICK at \in Nat : at = n + 2
    BY <1>7
  <2>2. stream[at] = k - 1
    <3>1. 1 \in 1 .. k + 1 /\ n + 1 + 1 = at
      BY <1>7, <2>1
    <3> QED
      BY <1>6, <1>13, <3>1
  <2>3. ASSUME NEW i \in 1 .. k PROVE stream[at + i] = cs[i]
    <3>1. i + 1 \in 1 .. k + 1 /\ n + 1 + (i + 1) = at + i
      BY <1>7, <2>1
    <3>2. stream[n + 1 + (i + 1)] = c[i + 1]
      BY <1>13, <3>1
    <3> QED
      BY <1>6, <3>1, <3>2
  <2> QED
    BY <1>6, <2>1, <2>2, <2>3, OctetsDecoded
<1>17. InputType_Decode(p) = [invokeid |-> v, command |-> cs]
  BY <1>10, <1>14, <1>15, <1>16, Zenon DEF InputType_Decode
<1> QED
  BY <1>1, <1>2, <1>9, <1>17, Zenon

(***************************************************************************)
(* OutputType_Decode (messages.c) is the inverse of OutputType_Encode.     *)
(***************************************************************************)
THEOREM OutputDecoded ==
    ASSUME NEW m \in OutputMessage
    PROVE  OutputType_Decode(OutputType_Encode(m)) = m
<1>1. /\ m.invokeid \in asn1SccSint
      /\ m.command \in Seq(Byte) /\ IsConstraintValid(m.command)
      /\ m.result \in Seq(Byte) /\ IsConstraintValid(m.result)
      /\ m = [invokeid |-> m.invokeid, command |-> m.command, result |-> m.result]
  BY DEF OutputMessage
<1>2. PICK v \in asn1SccSint, cs \in Seq(Byte), rs \in Seq(Byte) :
         v = m.invokeid /\ cs = m.command /\ rs = m.result
  BY <1>1, Zenon
<1>3. PICK n \in 1 .. WORD_SIZE : n = GetLengthInBytesOfSInt(v)
  BY IntegerLength
<1>4. PICK e \in Seq(Byte) : e = EncodeUnConstraintWholeNumber(v)
  BY IntegerEncoded
<1>5. /\ Len(e) = n + 1 /\ e[1] = n
      /\ \A i \in 1 .. n : e[i + 1] = (v \div Values[n - i]) % Radix
  BY <1>3, <1>4, IntegerEncoded
<1>6. PICK c \in Seq(Byte), k \in 1 .. Radix :
         /\ c = OctetString_Encode(cs) /\ k = Len(cs)
         /\ Len(c) = k + 1 /\ c[1] = k - 1
         /\ \A i \in 1 .. k : c[i + 1] = cs[i]
  BY <1>1, <1>2, OctetsEncoded
<1>7. PICK r \in Seq(Byte), j \in 1 .. Radix :
         /\ r = OctetString_Encode(rs) /\ j = Len(rs)
         /\ Len(r) = j + 1 /\ r[1] = j - 1
         /\ \A i \in 1 .. j : r[i + 1] = rs[i]
  <2>1. rs \in Seq(Byte) /\ IsConstraintValid(rs)
    BY <1>1, <1>2, Zenon
  <2>2. /\ Len(rs) \in 1 .. Radix
        /\ OctetString_Encode(rs) \in Seq(Byte)
        /\ Len(OctetString_Encode(rs)) = Len(rs) + 1
        /\ OctetString_Encode(rs)[1] = Len(rs) - 1
        /\ \A i \in 1 .. Len(rs) : OctetString_Encode(rs)[i + 1] = rs[i]
    BY <2>1, OctetsEncoded, Zenon
  <2> QED
    BY <2>2, Zenon
<1>8. n \in Nat \ {0} /\ k \in Nat \ {0} /\ j \in Nat \ {0}
  BY RadixType
<1>9. PICK f \in Seq(Byte) :
         /\ f = e \o c /\ Len(f) = n + k + 2
         /\ \A i \in 1 .. n + 1 : f[i] = e[i]
         /\ \A i \in 1 .. k + 1 : f[n + 1 + i] = c[i]
  <2>1. PICK a \in Nat : a = n + 1 /\ a = Len(e)
    BY <1>5, <1>8
  <2>2. PICK b \in Nat : b = k + 1 /\ b = Len(c)
    BY <1>6, <1>8
  <2>3. a = Len(e) /\ b = Len(c)
    BY <2>1, <2>2, Zenon
  <2>4. PICK f : f = e \o c /\ Joined(f, e, a, c, b)
    BY <2>3, ConcatJoined, Zenon
  <2>5. a + b = n + k + 2
    BY <1>8, <2>1, <2>2
  <2>6. /\ f \in Seq(Byte) /\ Len(f) = a + b
        /\ \A i \in 1 .. a : f[i] = e[i]
        /\ \A i \in 1 .. b : f[a + i] = c[i]
    BY <2>4, Zenon DEF Joined
  <2>7. /\ \A i \in 1 .. n + 1 : f[i] = e[i]
        /\ \A i \in 1 .. k + 1 : f[n + 1 + i] = c[i]
    BY <2>1, <2>2, <2>6
  <2> QED
    BY <2>4, <2>5, <2>6, <2>7, Zenon
<1>10. PICK p \in Seq(Byte) :
         /\ p = f \o r /\ Len(p) = n + k + j + 3
         /\ \A i \in 1 .. n + k + 2 : p[i] = f[i]
         /\ \A i \in 1 .. j + 1 : p[n + k + 2 + i] = r[i]
  <2>1. PICK a \in Nat : a = n + k + 2 /\ a = Len(f)
    BY <1>8, <1>9
  <2>2. PICK b \in Nat : b = j + 1 /\ b = Len(r)
    BY <1>7, <1>8
  <2>3. a = Len(f) /\ b = Len(r)
    BY <2>1, <2>2, Zenon
  <2>4. PICK p : p = f \o r /\ Joined(p, f, a, r, b)
    BY <2>3, ConcatJoined, Zenon
  <2>5. a + b = n + k + j + 3
    BY <1>8, <2>1, <2>2
  <2>6. /\ p \in Seq(Byte) /\ Len(p) = a + b
        /\ \A i \in 1 .. a : p[i] = f[i]
        /\ \A i \in 1 .. b : p[a + i] = r[i]
    BY <2>4, Zenon DEF Joined
  <2>7. /\ \A i \in 1 .. n + k + 2 : p[i] = f[i]
        /\ \A i \in 1 .. j + 1 : p[n + k + 2 + i] = r[i]
    BY <2>1, <2>2, <2>6
  <2> QED
    BY <2>4, <2>5, <2>6, <2>7, Zenon
<1>11. p = OutputType_Encode(m)
  BY <1>2, <1>4, <1>6, <1>7, <1>9, <1>10, Zenon DEF OutputType_Encode
<1>12. PICK stream : stream = BitStream(p)
  OBVIOUS
<1>13. \A i \in 1 .. n + k + j + 3 : stream[i] = p[i]
  <2>1. Len(p) <= BUFFER_KSIZE
    BY <1>8, <1>10, <1>11, OutputEncoded, RadixType
  <2> QED
    BY <1>10, <1>12, <2>1, BitStreamIs
<1>14. \A i \in 1 .. n + 1 : stream[i] = e[i]
  <2> SUFFICES ASSUME NEW i \in 1 .. n + 1 PROVE stream[i] = e[i]
    OBVIOUS
  <2>1. i \in 1 .. n + k + 2 /\ i \in 1 .. n + k + j + 3
    BY <1>8
  <2> QED
    BY <1>9, <1>10, <1>13, <2>1
<1>15. \A i \in 1 .. k + 1 : stream[n + 1 + i] = c[i]
  <2> SUFFICES ASSUME NEW i \in 1 .. k + 1 PROVE stream[n + 1 + i] = c[i]
    OBVIOUS
  <2>1. n + 1 + i \in 1 .. n + k + 2 /\ n + 1 + i \in 1 .. n + k + j + 3
    BY <1>8
  <2> QED
    BY <1>9, <1>10, <1>13, <2>1
<1>16. \A i \in 1 .. j + 1 : stream[n + k + 2 + i] = r[i]
  <2> SUFFICES ASSUME NEW i \in 1 .. j + 1 PROVE stream[n + k + 2 + i] = r[i]
    OBVIOUS
  <2>1. n + k + 2 + i \in 1 .. n + k + j + 3
    BY <1>8
  <2> QED
    BY <1>10, <1>13, <2>1
<1>17. stream[1] = n
  BY <1>5, <1>8, <1>14
<1>18. DecodeInteger(stream, 2, n) = v
  <2>1. \A i \in 1 .. n : stream[i + 1] = (v \div Values[n - i]) % Radix
    <3> SUFFICES ASSUME NEW i \in 1 .. n
                 PROVE  stream[i + 1] = (v \div Values[n - i]) % Radix
      OBVIOUS
    <3>1. i + 1 \in 1 .. n + 1
      BY <1>8
    <3> QED
      BY <1>5, <1>14, <3>1
  <2> QED
    BY <1>3, <2>1, IntegerDecoded
<1>19. DecodeOctets(stream, n + 2) = cs
  <2>1. PICK at \in Nat : at = n + 2
    BY <1>8
  <2>2. stream[at] = k - 1
    <3>1. 1 \in 1 .. k + 1 /\ n + 1 + 1 = at
      BY <1>8, <2>1
    <3> QED
      BY <1>6, <1>15, <3>1
  <2>3. ASSUME NEW i \in 1 .. k PROVE stream[at + i] = cs[i]
    <3>1. i + 1 \in 1 .. k + 1 /\ n + 1 + (i + 1) = at + i
      BY <1>8, <2>1
    <3>2. stream[n + 1 + (i + 1)] = c[i + 1]
      BY <1>15, <3>1
    <3> QED
      BY <1>6, <3>1, <3>2
  <2> QED
    BY <1>6, <2>1, <2>2, <2>3, OctetsDecoded
<1>20. DecodeOctets(stream, n + 3 + k) = rs
  <2>1. PICK at \in Nat : at = n + 3 + k
    BY <1>8
  <2>2. stream[at] = j - 1
    <3>1. 1 \in 1 .. j + 1 /\ n + k + 2 + 1 = at
      BY <1>8, <2>1
    <3> QED
      BY <1>7, <1>16, <3>1
  <2>3. ASSUME NEW i \in 1 .. j PROVE stream[at + i] = rs[i]
    <3>1. i + 1 \in 1 .. j + 1 /\ n + k + 2 + (i + 1) = at + i
      BY <1>8, <2>1
    <3>2. stream[n + k + 2 + (i + 1)] = r[i + 1]
      BY <1>16, <3>1
    <3> QED
      BY <1>7, <3>1, <3>2
  <2> QED
    BY <1>7, <2>1, <2>2, <2>3, OctetsDecoded
<1>21. OutputType_Decode(p) = [invokeid |-> v, command |-> cs, result |-> rs]
  BY <1>6, <1>12, <1>17, <1>18, <1>19, <1>20, Zenon DEF OutputType_Decode
<1> QED
  BY <1>1, <1>2, <1>11, <1>21, Zenon

-----------------------------------------------------------------------------
(* The inductive invariant. *)

\* A late read finds no connection, and without one the r_buffer is empty
\* unless such a read has filled it.
OldBytesAreStale ==
    /\ late_read => ~is_out_connection_OK
    /\ ~is_out_connection_OK /\ ~stale => r_buffer = <<>>

\* The server gets what it has and the rest, which is in the w_buffer until
\* comm_w ends.
ToSend(rest) ==
    /\ to_server \o rest = Frames(InputPdus(written))
    /\ comm_w_ended \/ rest = w_buffer

RequestsKept == \E rest \in Seq(Byte) : ToSend(rest)

\* The PDUs not yet read are rest, and lost are the bytes that a broken
\* connection does not deliver.
Awaited(rest, lost) ==
    /\ OutputPdus(replied) = read_pdus \o rest
    /\ (r_buffer \o from_server) \o lost = Frames(rest)
    /\ broken \/ lost = <<>>

RepliesKept ==
    is_out_connection_OK /\ ~stale =>
        /\ read_pdus \in Seq(Pdu)
        /\ \E rest \in Seq(Pdu), lost \in Seq(Byte) : Awaited(rest, lost)
        /\ ~CompleteAt(r_buffer, 1)

WireInv ==
    /\ TypeOK
    /\ OldBytesAreStale
    /\ RequestsKept
    /\ RepliesKept

LEMMA InitWireInv == Init => WireInv
<1> SUFFICES ASSUME Init PROVE WireInv
  OBVIOUS
<1>1. TypeOK
  <2>1. MaxRequests \in Nat /\ MaxReplies \in Nat /\ MaxFailures \in Nat
    BY WireAssumption DEF WireAssumption
  <2>2. /\ <<>> \in Seq(Byte) /\ Len(<<>>) = 0 /\ <<>> \in Seq(Seq(Byte))
        /\ <<>> \in Seq(Replies) /\ <<>> \in Seq(Requests)
    BY EmptySeq
  <2>3. /\ is_out_connection_OK \in BOOLEAN /\ late_read \in BOOLEAN
        /\ do_cleanup \in BOOLEAN /\ broken \in BOOLEAN /\ stale \in BOOLEAN
        /\ comm_w_ended \in BOOLEAN
    BY DEF Init
  <2>4. /\ r_buffer \in Seq(Byte) /\ Len(r_buffer) <= BUFFER_KSIZE
        /\ w_buffer \in Seq(Byte) /\ Len(w_buffer) <= BUFFER_KSIZE
        /\ from_server \in Seq(Byte) /\ to_server \in Seq(Byte)
        /\ read_pdus \in Seq(Seq(Byte))
        /\ replied \in Seq(Replies) /\ written \in Seq(Requests)
    BY <2>2, RadixType DEF Init
  <2>5. /\ request_count \in 0 .. MaxRequests
        /\ reply_count \in 0 .. MaxReplies
        /\ failures \in 0 .. MaxFailures
    BY <2>1 DEF Init
  <2> QED
    BY <2>3, <2>4, <2>5 DEF TypeOK
<1>2. OldBytesAreStale /\ RepliesKept
  BY DEF Init, OldBytesAreStale, RepliesKept
<1>3. RequestsKept
  <2>1. InputPdus(<<>>) = <<>>
    BY DEF InputPdus
  <2>2. <<>> \o <<>> = <<>>
    OBVIOUS
  <2>3. <<>> \in Seq(Byte)
    BY EmptySeq
  <2> QED
    BY <2>1, <2>2, <2>3, FramesEmpty, Zenon DEF Init, RequestsKept, ToSend
<1> QED
  BY <1>1, <1>2, <1>3 DEF WireInv

LEMMA StepTypeOK == TypeOK /\ [Next]_vars => TypeOK'
<1> SUFFICES ASSUME TypeOK, [Next]_vars PROVE TypeOK'
  OBVIOUS
<1> USE DEF TypeOK
<1>1. MaxRequests \in Nat /\ MaxReplies \in Nat /\ MaxFailures \in Nat /\ BUFFER_KSIZE \in Nat
  BY WireAssumption, RadixType DEF WireAssumption
<1>2. ASSUME NEW m \in Requests, WriteDataToOutBuffer(m) PROVE TypeOK'
  <2>1. PICK p \in Pdu : p = InputType_Encode(m) /\ Len(p) + 2 <= BUFFER_KSIZE
    BY InputEncoded, MessageTypes
  <2>2. w_buffer' \in Seq(Byte) /\ Len(w_buffer') <= BUFFER_KSIZE
    BY <1>2, <2>1, FrameProperties DEF WriteDataToOutBuffer
  <2>3. written' \in Seq(Requests)
    BY <1>2, AppendProperties DEF WriteDataToOutBuffer
  <2>4. request_count' \in 0 .. MaxRequests
    BY <1>1, <1>2 DEF WriteDataToOutBuffer
  <2> QED
    BY <1>2, <2>2, <2>3, <2>4
    DEF WriteDataToOutBuffer, status_vars, read_vars
<1>3. ASSUME NEW bytes \in 1 .. BUFFER_KSIZE, WriteData(bytes) PROVE TypeOK'
  <2>1. PICK n \in Nat : n = Len(w_buffer) /\ n <= BUFFER_KSIZE
    BY LenProperties
  <2>2. bytes \in 0 .. Len(w_buffer)
    BY <1>3, <2>1 DEF WriteData
  <2>3. SubSeq(w_buffer, 1, bytes) \in Seq(Byte)
    BY <2>2, Cut
  <2>4. to_server' \in Seq(Byte)
    BY <1>3, <2>3, ConcatProperties DEF WriteData
  <2>5. w_buffer' \in Seq(Byte) /\ Len(w_buffer') <= BUFFER_KSIZE
    <3>1. \A i \in 1 .. n : w_buffer[i] \in Byte
      BY <2>1, ElementOfSeq
    <3>2. \A i \in bytes + 1 .. n : w_buffer[i] \in Byte
      BY <3>1
    <3>3. /\ SubSeq(w_buffer, bytes + 1, n) \in Seq(Byte)
          /\ Len(SubSeq(w_buffer, bytes + 1, n)) =
                IF bytes + 1 <= n THEN n - (bytes + 1) + 1 ELSE 0
      BY <3>2, SubSeqProperties
    <3>4. w_buffer' = SubSeq(w_buffer, bytes + 1, n)
      BY <1>3, <2>1 DEF WriteData
    <3> QED
      BY <1>1, <2>1, <3>3, <3>4
  <2> QED
    BY <1>3, <2>4, <2>5 DEF WriteData, status_vars, read_vars, count_vars
<1>4. ASSUME NEW bytes \in 1 .. BUFFER_KSIZE, ReadData(bytes) PROVE TypeOK'
  <2>1. PICK n \in Nat, k \in Nat : n = Len(from_server) /\ k = Len(r_buffer)
    BY LenProperties
  <2>2. bytes \in 1 .. n /\ bytes <= BUFFER_KSIZE - k
    BY <1>4, <2>1 DEF ReadData
  <2>3. bytes \in 0 .. Len(from_server)
    BY <2>1, <2>2
  <2>4. PICK x \in Seq(Byte) : x = SubSeq(from_server, 1, bytes) /\ Len(x) = bytes
    <3>1. /\ SubSeq(from_server, 1, bytes) \in Seq(Byte)
          /\ Len(SubSeq(from_server, 1, bytes)) = bytes
      BY <2>3, Cut
    <3> QED
      BY <3>1
  <2>5. from_server' \in Seq(Byte)
    <3>1. from_server' = SubSeq(from_server, bytes + 1, Len(from_server))
      BY <1>4 DEF ReadData
    <3> QED
      BY <2>3, <3>1, Cut
  <2>6. PICK b \in Seq(Byte) : b = r_buffer \o x /\ Len(b) = Len(r_buffer) + Len(x)
    BY ConcatProperties
  <2>7. Len(b) <= BUFFER_KSIZE /\ Len(b) \in Nat
    BY <1>1, <2>1, <2>2, <2>4, <2>6
  <2>8. read_pdus' = read_pdus \o PdusIn(b) /\ r_buffer' = RestOf(b)
    BY <1>4, <2>4, <2>6, Zenon DEF ReadData
  <2>9. read_pdus' \in Seq(Seq(Byte))
    BY <2>8, ReadingType, ConcatProperties
  <2>10. r_buffer' \in Seq(Byte) /\ Len(r_buffer') <= BUFFER_KSIZE
    <3>1. RestOf(b) \in Seq(Byte) /\ Len(RestOf(b)) <= Len(b)
      BY ReadingType
    <3>2. Len(RestOf(b)) \in Nat
      BY <3>1, LenProperties
    <3> QED
      BY <1>1, <2>7, <2>8, <3>1, <3>2
  <2>11. stale' \in BOOLEAN /\ late_read' \in BOOLEAN
    BY <1>4, Zenon DEF ReadData
  <2> QED
    BY <1>4, <2>5, <2>9, <2>10, <2>11 DEF ReadData, write_vars, count_vars
<1>5. CASE ReadFullBuffer
  BY <1>5 DEF ReadFullBuffer, read_vars, write_vars, count_vars
<1>6. CASE Fails
  <2>1. from_server' \in Seq(Byte) /\ broken' \in BOOLEAN
    BY <1>6, EmptySeq DEF Fails
  <2>2. failures' \in 0 .. MaxFailures
    BY <1>1, <1>6 DEF Fails
  <2> QED
    BY <1>6, <2>1, <2>2 DEF Fails, write_vars
<1>7. CASE Cleanup
  <2>1. /\ <<>> \in Seq(Byte) /\ Len(<<>>) = 0
        /\ <<>> \in Seq(Requests)
    BY EmptySeq
  <2>2. /\ r_buffer' \in Seq(Byte) /\ Len(r_buffer') <= BUFFER_KSIZE
        /\ w_buffer' \in Seq(Byte) /\ Len(w_buffer') <= BUFFER_KSIZE
        /\ to_server' \in Seq(Byte) /\ written' \in Seq(Requests)
    BY <1>1, <1>7, <2>1 DEF Cleanup
  <2> QED
    BY <1>7, <2>2 DEF Cleanup, count_vars
<1>8. CASE ConnectToOutput
  <2>1. stale' \in BOOLEAN
    BY <1>8, Zenon DEF ConnectToOutput
  <2>2. /\ from_server' \in Seq(Byte) /\ read_pdus' \in Seq(Seq(Byte))
        /\ replied' \in Seq(Replies)
    BY <1>8, EmptySeq DEF ConnectToOutput
  <2> QED
    BY <1>8, <2>1, <2>2 DEF ConnectToOutput, write_vars, count_vars
<1>9. ASSUME NEW m \in Replies, ServerSends(m) PROVE TypeOK'
  <2>1. Frame(OutputType_Encode(m)) \in Seq(Byte)
    BY OutputEncoded, MessageTypes, FrameProperties
  <2>2. from_server' \in Seq(Byte)
    BY <1>9, <2>1, ConcatProperties DEF ServerSends
  <2>3. replied' \in Seq(Replies)
    BY <1>9, AppendProperties DEF ServerSends
  <2>4. reply_count' \in 0 .. MaxReplies
    BY <1>1, <1>9 DEF ServerSends
  <2> QED
    BY <1>9, <2>2, <2>3, <2>4 DEF ServerSends, status_vars, write_vars
<1>10. CASE Idle \/ UNCHANGED vars
  BY <1>10 DEF Idle, vars, status_vars, read_vars, write_vars, count_vars
<1>11. ASSUME NEW bytes \in 0 .. BUFFER_KSIZE, LastWrite(bytes) PROVE TypeOK'
  <2>1. PICK n \in Nat : n = Len(w_buffer) /\ n <= BUFFER_KSIZE
    BY LenProperties
  <2>2. bytes \in 0 .. Len(w_buffer)
    BY <1>11, Zenon DEF LastWrite
  <2>3. SubSeq(w_buffer, 1, bytes) \in Seq(Byte)
    BY <2>2, Cut
  <2>4. to_server' \in Seq(Byte)
    <3>1. to_server \o SubSeq(w_buffer, 1, bytes) \in Seq(Byte)
      BY <2>3, ConcatProperties
    <3> QED
      BY <1>11, <3>1, Zenon DEF LastWrite
  <2>5. w_buffer' \in Seq(Byte) /\ Len(w_buffer') <= BUFFER_KSIZE
    <3>1. \A i \in 1 .. n : w_buffer[i] \in Byte
      BY <2>1, ElementOfSeq
    <3>2. \A i \in bytes + 1 .. n : w_buffer[i] \in Byte
      BY <3>1
    <3>3. /\ SubSeq(w_buffer, bytes + 1, n) \in Seq(Byte)
          /\ Len(SubSeq(w_buffer, bytes + 1, n)) =
                IF bytes + 1 <= n THEN n - (bytes + 1) + 1 ELSE 0
      BY <3>2, SubSeqProperties
    <3>4. w_buffer' = SubSeq(w_buffer, bytes + 1, n)
      BY <1>11, <2>1, Zenon DEF LastWrite
    <3> QED
      BY <1>1, <2>1, <3>3, <3>4
  <2>6. from_server' \in Seq(Byte)
    BY <1>11, EmptySeq, Zenon DEF LastWrite
  <2>7. broken' \in BOOLEAN /\ comm_w_ended' \in BOOLEAN
    BY <1>11, Zenon DEF LastWrite
  <2>8. /\ is_out_connection_OK' = is_out_connection_OK /\ late_read' = late_read
        /\ do_cleanup' = do_cleanup /\ r_buffer' = r_buffer
        /\ read_pdus' = read_pdus /\ replied' = replied /\ stale' = stale
        /\ written' = written /\ request_count' = request_count
        /\ reply_count' = reply_count /\ failures' = failures
    BY <1>11, Zenon DEF LastWrite, count_vars
  <2> QED
    BY <2>4, <2>5, <2>6, <2>7, <2>8
<1> QED
  BY <1>2, <1>3, <1>4, <1>5, <1>6, <1>7, <1>8, <1>9, <1>10,
     <1>11 DEF Next

LEMMA PdusAssociative ==
    \A s, t, u \in Seq(Pdu) : (s \o t) \o u = s \o (t \o u)
BY ConcatAssociative

LEMMA StepOldBytesAreStale ==
    TypeOK /\ OldBytesAreStale /\ [Next]_vars => OldBytesAreStale'
<1> SUFFICES ASSUME TypeOK, OldBytesAreStale, [Next]_vars PROVE OldBytesAreStale'
  OBVIOUS
<1> USE DEF OldBytesAreStale
<1>1. /\ is_out_connection_OK \in BOOLEAN /\ late_read \in BOOLEAN /\ stale \in BOOLEAN
  BY DEF TypeOK
<1>2. ASSUME NEW m \in Requests, WriteDataToOutBuffer(m) PROVE OldBytesAreStale'
  BY <1>2, Zenon DEF WriteDataToOutBuffer, status_vars, read_vars
<1>3. ASSUME NEW bytes \in 1 .. BUFFER_KSIZE, WriteData(bytes) PROVE OldBytesAreStale'
  BY <1>3, Zenon DEF WriteData, status_vars, read_vars
<1>4. ASSUME NEW bytes \in 1 .. BUFFER_KSIZE, ReadData(bytes) PROVE OldBytesAreStale'
  BY <1>4, Zenon DEF ReadData
<1>5. CASE ReadFullBuffer
  BY <1>5, Zenon DEF ReadFullBuffer, read_vars
<1>6. CASE Fails
  BY <1>6, Zenon DEF Fails
<1>7. CASE Cleanup
  BY <1>7, Zenon DEF Cleanup
<1>8. CASE ConnectToOutput
  BY <1>8, Zenon DEF ConnectToOutput
<1>9. ASSUME NEW m \in Replies, ServerSends(m) PROVE OldBytesAreStale'
  BY <1>9, Zenon DEF ServerSends, status_vars
<1>10. CASE Idle \/ UNCHANGED vars
  BY <1>10 DEF Idle, vars, status_vars, read_vars
<1>11. ASSUME NEW bytes \in 0 .. BUFFER_KSIZE, LastWrite(bytes)
      PROVE  OldBytesAreStale'
  BY <1>11, Zenon DEF LastWrite
<1> QED
  BY <1>2, <1>3, <1>4, <1>5, <1>6, <1>7, <1>8, <1>9, <1>10,
     <1>11 DEF Next

LEMMA StepRequestsKept ==
    TypeOK /\ RequestsKept /\ [Next]_vars => RequestsKept'
<1> SUFFICES ASSUME TypeOK, RequestsKept, [Next]_vars PROVE RequestsKept'
  OBVIOUS
<1>0. PICK rest \in Seq(Byte) : ToSend(rest)
  BY Zenon DEF RequestsKept
<1>1. /\ w_buffer \in Seq(Byte) /\ to_server \in Seq(Byte) /\ written \in Seq(Requests)
  BY DEF TypeOK
<1>2. ASSUME NEW m \in Requests, WriteDataToOutBuffer(m) PROVE RequestsKept'
  <2>1. PICK p \in Pdu : p = InputType_Encode(m)
    BY InputEncoded, MessageTypes
  <2>2. /\ w_buffer = <<>> /\ w_buffer' = Frame(p)
        /\ written' = Append(written, m) /\ to_server' = to_server
    BY <1>2, <2>1, Zenon DEF WriteDataToOutBuffer
  <2>3. to_server = Frames(InputPdus(written))
    <3>1. to_server \o <<>> = to_server
      BY <1>1, ConcatEmptySeq
    <3>2. rest = <<>>
      BY <1>0, <1>2, <2>2, Zenon DEF ToSend, WriteDataToOutBuffer
    <3> QED
      BY <1>0, <3>1, <3>2, Zenon DEF ToSend
  <2>4. InputPdus(written') = Append(InputPdus(written), p)
    BY <1>1, <2>1, <2>2, PdusAppend
  <2>5. Frames(Append(InputPdus(written), p)) = Frames(InputPdus(written)) \o Frame(p)
    <3>1. InputPdus(written) \in Seq(Pdu)
      BY <1>1, PdusType
    <3> QED
      BY <3>1, FramesAppend
  <2>6. Frame(p) \in Seq(Byte)
    BY FrameProperties
  <2>7. to_server' \o Frame(p) = Frames(InputPdus(written'))
    BY <2>2, <2>3, <2>4, <2>5, Zenon
  <2> QED
    BY <2>2, <2>6, <2>7, Zenon DEF RequestsKept, ToSend
<1>3. ASSUME NEW bytes \in 1 .. BUFFER_KSIZE, WriteData(bytes) PROVE RequestsKept'
  <2>1. bytes \in 0 .. Len(w_buffer)
    <3>1. Len(w_buffer) \in Nat /\ bytes \in 1 .. Len(w_buffer)
      BY <1>1, <1>3, LenProperties DEF WriteData
    <3> QED
      BY <3>1
  <2>2. PICK x \in Seq(Byte), y \in Seq(Byte) :
           /\ x = SubSeq(w_buffer, 1, bytes)
           /\ y = SubSeq(w_buffer, bytes + 1, Len(w_buffer))
           /\ x \o y = w_buffer
    <3>1. /\ SubSeq(w_buffer, 1, bytes) \in Seq(Byte)
          /\ SubSeq(w_buffer, bytes + 1, Len(w_buffer)) \in Seq(Byte)
          /\ SubSeq(w_buffer, 1, bytes) \o SubSeq(w_buffer, bytes + 1, Len(w_buffer))
                = w_buffer
      BY <1>1, <2>1, Cut, Zenon
    <3> QED
      BY <3>1, Zenon
  <2>3. to_server' = to_server \o x /\ w_buffer' = y /\ written' = written
    BY <1>3, <2>2, Zenon DEF WriteData
  <2>4. (to_server \o x) \o y = to_server \o (x \o y)
    BY <1>1, BytesAssociative
  <2>5. rest = w_buffer
    BY <1>0, <1>3, Zenon DEF ToSend, WriteData
  <2>6. to_server' \o y = Frames(InputPdus(written'))
    BY <1>0, <2>2, <2>3, <2>4, <2>5, Zenon DEF ToSend
  <2> QED
    BY <2>3, <2>6, Zenon DEF RequestsKept, ToSend
<1>4. ASSUME NEW bytes \in 1 .. BUFFER_KSIZE, ReadData(bytes) PROVE RequestsKept'
  BY <1>4, Zenon DEF RequestsKept, ToSend, ReadData, write_vars
<1>5. CASE ReadFullBuffer
  BY <1>5, Zenon DEF RequestsKept, ToSend, ReadFullBuffer, write_vars
<1>6. CASE Fails
  BY <1>6, Zenon DEF RequestsKept, ToSend, Fails, write_vars
<1>7. CASE Cleanup
  <2>1. InputPdus(<<>>) = <<>>
    BY DEF InputPdus
  <2>2. <<>> \o <<>> = <<>>
    OBVIOUS
  <2>3. <<>> \in Seq(Byte)
    BY EmptySeq
  <2>4. w_buffer' = <<>> /\ to_server' = <<>> /\ written' = <<>>
    BY <1>7, Zenon DEF Cleanup
  <2> QED
    BY <2>1, <2>2, <2>3, <2>4, FramesEmpty, Zenon DEF RequestsKept, ToSend
<1>8. CASE ConnectToOutput
  BY <1>8, Zenon DEF RequestsKept, ToSend, ConnectToOutput, write_vars
<1>9. ASSUME NEW m \in Replies, ServerSends(m) PROVE RequestsKept'
  BY <1>9, Zenon DEF RequestsKept, ToSend, ServerSends, write_vars
<1>10. CASE Idle \/ UNCHANGED vars
  BY <1>10, Zenon DEF RequestsKept, ToSend, Idle, vars, write_vars
\* What comm_w leaves in the w_buffer, or gives to an old socket, is the rest.
<1>11. ASSUME NEW bytes \in 0 .. BUFFER_KSIZE, LastWrite(bytes) PROVE RequestsKept'
  <2>1. comm_w_ended' = TRUE /\ written' = written /\ ~comm_w_ended
    BY <1>11, Zenon DEF LastWrite
  <2>2. CASE is_out_connection_OK
    <3>1. bytes \in 0 .. Len(w_buffer)
      BY <1>11, Zenon DEF LastWrite
    <3>2. PICK x \in Seq(Byte), y \in Seq(Byte) :
             x = SubSeq(w_buffer, 1, bytes) /\ x \o y = w_buffer
      <4>1. /\ SubSeq(w_buffer, 1, bytes) \in Seq(Byte)
            /\ SubSeq(w_buffer, bytes + 1, Len(w_buffer)) \in Seq(Byte)
            /\ SubSeq(w_buffer, 1, bytes) \o SubSeq(w_buffer, bytes + 1, Len(w_buffer))
                  = w_buffer
        BY <1>1, <3>1, Cut, Zenon
      <4> QED
        BY <4>1, Zenon
    <3>3. to_server' = to_server \o x
      BY <1>11, <2>2, <3>2, Zenon DEF LastWrite
    <3>4. (to_server \o x) \o y = to_server \o (x \o y)
      BY <1>1, BytesAssociative
    <3>5. to_server' \o y = Frames(InputPdus(written'))
      BY <1>0, <2>1, <3>2, <3>3, <3>4, Zenon DEF ToSend
    <3> QED
      BY <2>1, <3>5, Zenon DEF RequestsKept, ToSend
  <2>3. CASE ~is_out_connection_OK
    <3>1. to_server' = to_server
      BY <1>11, <2>3, Zenon DEF LastWrite
    <3> QED
      BY <1>0, <2>1, <3>1, Zenon DEF RequestsKept, ToSend
  <2> QED
    BY <2>2, <2>3
<1> QED
  BY <1>2, <1>3, <1>4, <1>5, <1>6, <1>7, <1>8, <1>9, <1>10,
     <1>11 DEF Next

LEMMA StepRepliesKept ==
    TypeOK /\ OldBytesAreStale /\ RepliesKept /\ [Next]_vars => RepliesKept'
<1> SUFFICES ASSUME TypeOK, OldBytesAreStale, RepliesKept, [Next]_vars
             PROVE  RepliesKept'
  OBVIOUS
<1>1. /\ is_out_connection_OK \in BOOLEAN /\ late_read \in BOOLEAN /\ stale \in BOOLEAN
      /\ broken \in BOOLEAN
      /\ r_buffer \in Seq(Byte) /\ from_server \in Seq(Byte) /\ replied \in Seq(Replies)
  BY DEF TypeOK
<1>2. ASSUME NEW m \in Requests, WriteDataToOutBuffer(m) PROVE RepliesKept'
  BY <1>2, Zenon DEF RepliesKept, Awaited, WriteDataToOutBuffer, status_vars, read_vars
<1>3. ASSUME NEW bytes \in 1 .. BUFFER_KSIZE, WriteData(bytes) PROVE RepliesKept'
  BY <1>3, Zenon DEF RepliesKept, Awaited, WriteData, status_vars, read_vars
<1>4. ASSUME NEW bytes \in 1 .. BUFFER_KSIZE, ReadData(bytes) PROVE RepliesKept'
  <2> SUFFICES ASSUME is_out_connection_OK', ~stale'
               PROVE  /\ read_pdus' \in Seq(Pdu)
                      /\ \E rest \in Seq(Pdu), lost \in Seq(Byte) : Awaited(rest, lost)'
                      /\ ~CompleteAt(r_buffer, 1)'
    BY Zenon DEF RepliesKept
  <2>1. is_out_connection_OK /\ ~stale
    BY <1>4, Zenon DEF ReadData
  <2>2. PICK rest \in Seq(Pdu), lost \in Seq(Byte) : Awaited(rest, lost)
    BY <2>1, Zenon DEF RepliesKept
  <2>3. read_pdus \in Seq(Pdu)
    BY <2>1, Zenon DEF RepliesKept
  <2>4. bytes \in 0 .. Len(from_server)
    <3>1. Len(from_server) \in Nat /\ bytes \in 1 .. Len(from_server)
      BY <1>1, <1>4, LenProperties DEF ReadData
    <3> QED
      BY <3>1
  <2>5. PICK x \in Seq(Byte), y \in Seq(Byte) :
           /\ x = SubSeq(from_server, 1, bytes)
           /\ y = SubSeq(from_server, bytes + 1, Len(from_server))
           /\ x \o y = from_server
    <3>1. /\ SubSeq(from_server, 1, bytes) \in Seq(Byte)
          /\ SubSeq(from_server, bytes + 1, Len(from_server)) \in Seq(Byte)
          /\ SubSeq(from_server, 1, bytes)
                \o SubSeq(from_server, bytes + 1, Len(from_server)) = from_server
      BY <1>1, <2>4, Cut, Zenon
    <3> QED
      BY <3>1, Zenon
  <2>6. PICK b \in Seq(Byte) : b = r_buffer \o x
    BY <1>1, ConcatProperties
  <2>7. /\ from_server' = y /\ read_pdus' = read_pdus \o PdusIn(b)
        /\ r_buffer' = RestOf(b) /\ broken' = broken /\ replied' = replied
    BY <1>4, <2>5, <2>6, Zenon DEF ReadData
  <2>8. PICK z \in Seq(Byte) : z = y \o lost
    BY ConcatProperties
  <2>9. b \o z = Frames(rest)
    <3>1. (r_buffer \o from_server) \o lost = Frames(rest)
      BY <2>2, Zenon DEF Awaited
    <3>2. (r_buffer \o x) \o y = r_buffer \o (x \o y)
      <4>1. PICK s \in Seq(Byte) : s = r_buffer
        BY <1>1
      <4>2. (s \o x) \o y = s \o (x \o y)
        BY BytesAssociative
      <4> QED
        BY <4>1, <4>2, Zenon
    <3>3. (b \o y) \o lost = b \o (y \o lost)
      BY BytesAssociative
    <3> QED
      BY <2>5, <2>6, <2>8, <3>1, <3>2, <3>3, Zenon
  <2>10. PICK c \in 0 .. Len(rest) : c = PduCount(b)
    BY <2>9, Reading, Zenon
  <2>11. PICK p \in Seq(Pdu), r \in Seq(Pdu) :
            /\ p = SubSeq(rest, 1, c) /\ r = SubSeq(rest, c + 1, Len(rest))
            /\ p \o r = rest
    <3>1. /\ SubSeq(rest, 1, c) \in Seq(Pdu)
          /\ SubSeq(rest, c + 1, Len(rest)) \in Seq(Pdu)
          /\ SubSeq(rest, 1, c) \o SubSeq(rest, c + 1, Len(rest)) = rest
      BY Cut, Zenon
    <3> QED
      BY <3>1, Zenon
  <2>12. PdusIn(b) = p /\ RestOf(b) \o z = Frames(r)
    BY <2>9, <2>10, <2>11, Reading, Zenon
  <2>13. RestOf(b) \in Seq(Byte) /\ ~CompleteAt(RestOf(b), 1)
    BY ReadingType
  <2>14. read_pdus' \in Seq(Pdu)
    BY <2>3, <2>7, <2>12, ConcatProperties
  <2>15. OutputPdus(replied)' = read_pdus' \o r
    <3>1. OutputPdus(replied) = read_pdus \o rest
      BY <2>2, Zenon DEF Awaited
    <3>2. (read_pdus \o p) \o r = read_pdus \o (p \o r)
      BY <2>3, PdusAssociative
    <3> QED
      BY <2>7, <2>11, <2>12, <3>1, <3>2, Zenon
  <2>16. (r_buffer' \o from_server') \o lost = Frames(r)
    <3>1. PICK left \in Seq(Byte) : left = RestOf(b)
      BY <2>13
    <3>2. (left \o y) \o lost = left \o (y \o lost)
      BY BytesAssociative
    <3> QED
      BY <2>7, <2>8, <2>12, <3>1, <3>2, Zenon
  <2>17. broken' \/ lost = <<>>
    BY <2>2, <2>7, Zenon DEF Awaited
  <2>18. Awaited(r, lost)'
    BY <2>15, <2>16, <2>17, Zenon DEF Awaited
  <2> QED
    BY <2>7, <2>13, <2>14, <2>18, Zenon
<1>5. CASE ReadFullBuffer
  BY <1>5, Zenon DEF RepliesKept, Awaited, ReadFullBuffer, read_vars
<1>6. CASE Fails
  <2> SUFFICES ASSUME is_out_connection_OK', ~stale'
               PROVE  /\ read_pdus' \in Seq(Pdu)
                      /\ \E rest \in Seq(Pdu), lost \in Seq(Byte) : Awaited(rest, lost)'
                      /\ ~CompleteAt(r_buffer, 1)'
    BY Zenon DEF RepliesKept
  <2>1. /\ is_out_connection_OK /\ ~stale
        /\ r_buffer' = r_buffer /\ read_pdus' = read_pdus /\ replied' = replied
        /\ \/ broken' = TRUE /\ from_server' = <<>>
           \/ broken' = broken /\ from_server' = from_server
    BY <1>6, Zenon DEF Fails
  <2>2. PICK rest \in Seq(Pdu), lost \in Seq(Byte) : Awaited(rest, lost)
    BY <2>1, Zenon DEF RepliesKept
  <2>3. read_pdus' \in Seq(Pdu) /\ ~CompleteAt(r_buffer, 1)'
    BY <2>1, Zenon DEF RepliesKept
  <2>4. CASE broken' = TRUE /\ from_server' = <<>>
    <3>1. PICK gone \in Seq(Byte) : gone = from_server \o lost
      BY <1>1, ConcatProperties
    <3>2. (r_buffer \o from_server) \o lost = r_buffer \o (from_server \o lost)
      BY <1>1, BytesAssociative
    <3>3. r_buffer \o <<>> = r_buffer
      BY <1>1, ConcatEmptySeq
    <3>4. (r_buffer' \o from_server') \o gone = Frames(rest)
      BY <2>1, <2>2, <2>4, <3>1, <3>2, <3>3, Zenon DEF Awaited
    <3>5. Awaited(rest, gone)'
      BY <2>1, <2>2, <2>4, <3>4, Zenon DEF Awaited
    <3> QED
      BY <2>3, <3>5, Zenon
  <2>5. CASE broken' = broken /\ from_server' = from_server
    <3>1. Awaited(rest, lost)'
      BY <2>1, <2>2, <2>5, Zenon DEF Awaited
    <3> QED
      BY <2>3, <3>1, Zenon
  <2> QED
    BY <2>1, <2>4, <2>5, Zenon
<1>7. CASE Cleanup
  BY <1>7, Zenon DEF RepliesKept, Cleanup
<1>8. CASE ConnectToOutput
  <2> SUFFICES ASSUME ~stale'
               PROVE  /\ read_pdus' \in Seq(Pdu)
                      /\ \E rest \in Seq(Pdu), lost \in Seq(Byte) : Awaited(rest, lost)'
                      /\ ~CompleteAt(r_buffer, 1)'
    BY Zenon DEF RepliesKept
  <2>1. /\ r_buffer' = r_buffer /\ from_server' = <<>>
        /\ read_pdus' = <<>> /\ replied' = <<>>
    BY <1>8, Zenon DEF ConnectToOutput
  <2>2. r_buffer = <<>>
    BY <1>8, Zenon DEF ConnectToOutput, OldBytesAreStale
  <2>3. <<>> \in Seq(Pdu) /\ <<>> \in Seq(Byte)
    BY EmptySeq
  <2>4. OutputPdus(<<>>) = <<>> /\ <<>> \o <<>> = <<>>
    BY DEF OutputPdus
  <2>5. Awaited(<<>>, <<>>)'
    BY <2>1, <2>2, <2>4, FramesEmpty, Zenon DEF Awaited
  <2>6. ~CompleteAt(<<>>, 1)
    BY DEF CompleteAt, PDU_HEADER_LENGTH
  <2> QED
    BY <2>1, <2>2, <2>3, <2>5, <2>6, Zenon
<1>9. ASSUME NEW m \in Replies, ServerSends(m) PROVE RepliesKept'
  <2> SUFFICES ASSUME is_out_connection_OK', ~stale'
               PROVE  /\ read_pdus' \in Seq(Pdu)
                      /\ \E rest \in Seq(Pdu), lost \in Seq(Byte) : Awaited(rest, lost)'
                      /\ ~CompleteAt(r_buffer, 1)'
    BY Zenon DEF RepliesKept
  <2>1. PICK p \in Pdu : p = OutputType_Encode(m)
    BY OutputEncoded, MessageTypes
  <2>2. /\ is_out_connection_OK /\ ~stale /\ ~broken
        /\ r_buffer' = r_buffer /\ read_pdus' = read_pdus /\ broken' = broken
        /\ replied' = Append(replied, m)
        /\ from_server' = from_server \o Frame(p)
    BY <1>9, <2>1, Zenon DEF ServerSends, status_vars
  <2>3. PICK rest \in Seq(Pdu), lost \in Seq(Byte) : Awaited(rest, lost)
    BY <2>2, Zenon DEF RepliesKept
  <2>4. read_pdus \in Seq(Pdu) /\ ~CompleteAt(r_buffer, 1)
    BY <2>2, Zenon DEF RepliesKept
  <2>5. lost = <<>> /\ r_buffer \o from_server = Frames(rest)
    <3>1. lost = <<>>
      BY <2>2, <2>3, Zenon DEF Awaited
    <3>2. r_buffer \o from_server \in Seq(Byte)
      BY <1>1, ConcatProperties
    <3>3. (r_buffer \o from_server) \o <<>> = r_buffer \o from_server
      BY <3>2, ConcatEmptySeq
    <3> QED
      BY <2>3, <3>1, <3>3, Zenon DEF Awaited
  <2>6. PICK more \in Seq(Pdu) : more = Append(rest, p)
    BY AppendProperties
  <2>7. OutputPdus(replied)' = read_pdus' \o more
    <3>1. OutputPdus(Append(replied, m)) = Append(OutputPdus(replied), p)
      BY <1>1, <2>1, PdusAppend
    <3>2. OutputPdus(replied) = read_pdus \o rest /\ OutputPdus(replied) \in Seq(Pdu)
      BY <1>1, <2>3, PdusType, Zenon DEF Awaited
    <3>3. /\ Append(OutputPdus(replied), p) = OutputPdus(replied) \o <<p>>
          /\ Append(rest, p) = rest \o <<p>>
      BY <3>2, AppendIsConcat
    <3>4. <<p>> \in Seq(Pdu)
      OBVIOUS
    <3>5. (read_pdus \o rest) \o <<p>> = read_pdus \o (rest \o <<p>>)
      BY <2>4, <3>4, PdusAssociative
    <3> QED
      BY <2>2, <2>6, <3>1, <3>2, <3>3, <3>5, Zenon
  <2>8. (r_buffer' \o from_server') \o <<>> = Frames(more)
    <3>1. Frame(p) \in Seq(Byte)
      BY FrameProperties
    <3>2. (r_buffer \o from_server) \o Frame(p) = r_buffer \o (from_server \o Frame(p))
      BY <1>1, <3>1, BytesAssociative
    <3>3. Frames(Append(rest, p)) = Frames(rest) \o Frame(p)
      BY FramesAppend
    <3>4. Frames(more) \in Seq(Byte)
      BY FramesType
    <3>5. Frames(more) \o <<>> = Frames(more)
      BY <3>4, ConcatEmptySeq
    <3> QED
      BY <2>2, <2>5, <2>6, <3>2, <3>3, <3>5, Zenon
  <2>9. Awaited(more, lost)'
    BY <2>5, <2>7, <2>8, Zenon DEF Awaited
  <2> QED
    BY <2>2, <2>4, <2>9, Zenon
<1>10. CASE Idle \/ UNCHANGED vars
  BY <1>10, Zenon DEF RepliesKept, Awaited, Idle, vars, status_vars, read_vars
\* shutdown_connection takes all that the server has sent off the socket.
<1>11. ASSUME NEW bytes \in 0 .. BUFFER_KSIZE, LastWrite(bytes) PROVE RepliesKept'
  <2> SUFFICES ASSUME is_out_connection_OK', ~stale'
               PROVE  /\ read_pdus' \in Seq(Pdu)
                      /\ \E rest \in Seq(Pdu), lost \in Seq(Byte) : Awaited(rest, lost)'
                      /\ ~CompleteAt(r_buffer, 1)'
    BY Zenon DEF RepliesKept
  <2>1. /\ is_out_connection_OK /\ ~stale
        /\ r_buffer' = r_buffer /\ read_pdus' = read_pdus /\ replied' = replied
        /\ broken' = TRUE /\ from_server' = <<>>
    BY <1>11, Zenon DEF LastWrite
  <2>2. PICK rest \in Seq(Pdu), lost \in Seq(Byte) : Awaited(rest, lost)
    BY <2>1, Zenon DEF RepliesKept
  <2>3. read_pdus' \in Seq(Pdu) /\ ~CompleteAt(r_buffer, 1)'
    BY <2>1, Zenon DEF RepliesKept
  <2>4. PICK gone \in Seq(Byte) : gone = from_server \o lost
    BY <1>1, ConcatProperties
  <2>5. (r_buffer \o from_server) \o lost = r_buffer \o (from_server \o lost)
    BY <1>1, BytesAssociative
  <2>6. r_buffer \o <<>> = r_buffer
    BY <1>1, ConcatEmptySeq
  <2>7. (r_buffer' \o from_server') \o gone = Frames(rest)
    BY <2>1, <2>2, <2>4, <2>5, <2>6, Zenon DEF Awaited
  <2>8. Awaited(rest, gone)'
    BY <2>1, <2>2, <2>7, Zenon DEF Awaited
  <2> QED
    BY <2>3, <2>8, Zenon
<1> QED
  BY <1>2, <1>3, <1>4, <1>5, <1>6, <1>7, <1>8, <1>9, <1>10,
     <1>11 DEF Next

LEMMA WireInvCorrect == Spec => []WireInv
<1>1. Init => WireInv
  BY InitWireInv
<1>2. WireInv /\ [Next]_vars => WireInv'
  BY StepTypeOK, StepOldBytesAreStale, StepRequestsKept, StepRepliesKept
     DEF WireInv
<1> QED
  BY <1>1, <1>2, PTL DEF Spec

-----------------------------------------------------------------------------
(* The properties of the run. *)

(***************************************************************************)
(* The variables keep their types: in particular, nothing is written       *)
(* beyond the end of r_buffer (read_data, dispatcher.c:376) or of w_buffer *)
(* (write_pdu_to_send_buffer, pdu.c:59), whatever the messages are.        *)
(***************************************************************************)
THEOREM WireTypeCorrect == Spec => []TypeOK
<1>1. WireInv => TypeOK
  BY Zenon DEF WireInv
<1> QED
  BY <1>1, WireInvCorrect, PTL

LEMMA PrefixOfConcat ==
    ASSUME NEW S, NEW s \in Seq(S), NEW t \in Seq(S)
    PROVE  IsPrefix(s, s \o t)
<1>1. PICK u \in Seq(S) : u = s \o t
  BY ConcatProperties
<1>2. /\ Len(u) = Len(s) + Len(t)
      /\ \A i \in 1 .. Len(s) : u[i] = s[i]
  BY <1>1, ConcatProperties
<1>3. SubSeq(s, 1, Len(s)) = SubSeq(u, 1, Len(s))
  BY <1>2
<1> QED
  BY <1>1, <1>2, <1>3 DEF IsPrefix

(***************************************************************************)
(* On every connection the server receives a beginning of the frames of    *)
(* the requests, whatever parts send takes (write_data,                    *)
(* dispatcher.c:774-784), whatever a cleanup interrupts, and from the last *)
(* write of comm_w (921), too; and until that write the w_buffer has all   *)
(* that is still to be sent.                                               *)
(***************************************************************************)
THEOREM RequestsIntactCorrect == Spec => []RequestsIntact
<1>1. WireInv => RequestsIntact
  <2> SUFFICES ASSUME WireInv
               PROVE  /\ IsPrefix(to_server, Frames(InputPdus(written)))
                      /\ ~comm_w_ended =>
                            to_server \o w_buffer = Frames(InputPdus(written))
    BY Zenon DEF RequestsIntact
  <2>1. to_server \in Seq(Byte)
    BY Zenon DEF WireInv, TypeOK
  <2>2. PICK rest \in Seq(Byte) : ToSend(rest)
    BY Zenon DEF WireInv, RequestsKept
  <2>3. IsPrefix(to_server, to_server \o rest)
    BY <2>1, PrefixOfConcat
  <2>4. IsPrefix(to_server, Frames(InputPdus(written)))
    BY <2>2, <2>3, Zenon DEF ToSend
  <2>5. ASSUME ~comm_w_ended PROVE to_server \o w_buffer = Frames(InputPdus(written))
    BY <2>2, <2>5, Zenon DEF ToSend
  <2> QED
    BY <2>4, <2>5, Zenon
<1> QED
  BY <1>1, WireInvCorrect, PTL

(***************************************************************************)
(* However recv cuts the replies into pieces, the PDUs that                *)
(* read_pdus_from_recv_buffer (pdu.c:24-54) takes out of them are those    *)
(* the server sent, in order, none twice and none left out, and no         *)
(* complete one stays in the buffer.                                       *)
(***************************************************************************)
THEOREM FramesIntactCorrect == Spec => []FramesIntact
<1>1. WireInv => FramesIntact
  <2> SUFFICES ASSUME WireInv, is_out_connection_OK, ~stale
               PROVE  /\ IsPrefix(read_pdus, OutputPdus(replied))
                      /\ IsPrefix(Frames(read_pdus) \o r_buffer,
                                  Frames(OutputPdus(replied)))
                      /\ ~CompleteAt(r_buffer, 1)
    BY Zenon DEF FramesIntact
  <2>1. r_buffer \in Seq(Byte) /\ from_server \in Seq(Byte)
    BY Zenon DEF WireInv, TypeOK
  <2>2. read_pdus \in Seq(Pdu) /\ ~CompleteAt(r_buffer, 1)
    BY Zenon DEF WireInv, RepliesKept
  <2>3. PICK rest \in Seq(Pdu), lost \in Seq(Byte) : Awaited(rest, lost)
    BY Zenon DEF WireInv, RepliesKept
  <2>4. IsPrefix(read_pdus, OutputPdus(replied))
    BY <2>2, <2>3, PrefixOfConcat, Zenon DEF Awaited
  <2>5. PICK left \in Seq(Byte) : left = from_server \o lost
    BY <2>1, ConcatProperties
  <2>6. Frames(rest) = r_buffer \o left
    BY <2>1, <2>3, <2>5, BytesAssociative, Zenon DEF Awaited
  <2>7. Frames(OutputPdus(replied)) = Frames(read_pdus) \o (r_buffer \o left)
    BY <2>2, <2>3, <2>6, FramesConcat, Zenon DEF Awaited
  <2>8. Frames(read_pdus) \in Seq(Byte)
    BY <2>2, FramesType
  <2>9. Frames(OutputPdus(replied)) = (Frames(read_pdus) \o r_buffer) \o left
    BY <2>1, <2>7, <2>8, BytesAssociative, Zenon
  <2>10. Frames(read_pdus) \o r_buffer \in Seq(Byte)
    BY <2>1, <2>8, ConcatProperties
  <2>11. IsPrefix(Frames(read_pdus) \o r_buffer, Frames(OutputPdus(replied)))
    BY <2>9, <2>10, PrefixOfConcat, Zenon
  <2> QED
    BY <2>2, <2>4, <2>11, Zenon
<1> QED
  BY <1>1, WireInvCorrect, PTL

(***************************************************************************)
(* A PDU that is not complete always leaves room in r_buffer for the rest  *)
(* of it, so that recv (dispatcher.c:376) is never called for zero bytes   *)
(* and its result 0 means that the server has closed the connection.       *)
(***************************************************************************)
THEOREM BufferHasRoomCorrect == Spec => []BufferHasRoom
<1>1. WireInv => BufferHasRoom
  <2> SUFFICES ASSUME WireInv, is_out_connection_OK, ~stale,
                      ~(Len(r_buffer) < BUFFER_KSIZE)
               PROVE  FALSE
    BY Zenon DEF BufferHasRoom
  <2>1. /\ r_buffer \in Seq(Byte) /\ from_server \in Seq(Byte)
        /\ replied \in Seq(Replies)
    BY Zenon DEF WireInv, TypeOK
  <2>2. read_pdus \in Seq(Pdu) /\ ~CompleteAt(r_buffer, 1)
    BY Zenon DEF WireInv, RepliesKept
  <2>3. PICK rest \in Seq(Pdu), lost \in Seq(Byte) : Awaited(rest, lost)
    BY Zenon DEF WireInv, RepliesKept
  <2>4. PICK left \in Seq(Byte) : left = from_server \o lost
    BY <2>1, ConcatProperties
  <2>5. Frames(rest) = r_buffer \o left
    BY <2>1, <2>3, <2>4, BytesAssociative, Zenon DEF Awaited
  <2>6. Len(r_buffer) \in Nat \ {0}
    BY <2>1, CodecAssumption DEF PDU_HEADER_LENGTH
  <2>7. Len(rest) # 0
    <3> SUFFICES ASSUME rest = <<>> PROVE FALSE
      OBVIOUS
    <3>1. r_buffer \o left = <<>>
      BY <2>5, FramesEmpty
    <3>2. Len(r_buffer \o left) = Len(r_buffer) + Len(left)
      BY <2>1, ConcatProperties
    <3>3. Len(r_buffer \o left) = 0
      BY <3>1
    <3> QED
      BY <2>6, <3>2, <3>3
  <2>8. PICK q \in Pdu, tail \in Seq(Pdu) : rest = <<q>> \o tail
    <3>1. rest = <<Head(rest)>> \o Tail(rest)
      BY <2>7
    <3>2. Head(rest) \in Pdu /\ Tail(rest) \in Seq(Pdu)
      BY <2>7
    <3> QED
      BY <3>1, <3>2, Zenon
  <2>9. Len(q) + 2 <= BUFFER_KSIZE
    <3>1. OutputPdus(replied) = read_pdus \o rest
      BY <2>3, Zenon DEF Awaited
    <3>2. Len(rest) \in Nat \ {0} /\ rest[1] = q
      BY <2>7, <2>8
    <3>3. PICK n \in Nat : n = Len(read_pdus)
      BY <2>2
    <3>4. /\ Len(read_pdus \o rest) = n + Len(rest)
          /\ (read_pdus \o rest)[n + 1] = rest[1]
      BY <2>2, <3>2, <3>3
    <3>5. n + 1 \in 1 .. Len(replied)
      BY <2>1, <3>1, <3>2, <3>4, PdusType
    <3>6. q = OutputType_Encode(replied[n + 1])
      <4>1. PICK j \in 1 .. Len(replied) : j = n + 1
        BY <3>5
      <4>2. j \in DOMAIN replied
        BY <2>1, <4>1
      <4>3. OutputPdus(replied)[j] = OutputType_Encode(replied[j])
        BY <4>2, Zenon DEF OutputPdus
      <4> QED
        BY <3>1, <3>2, <3>4, <4>1, <4>3, Zenon
    <3>7. replied[n + 1] \in OutputMessage
      BY <2>1, <3>5, MessageTypes
    <3> QED
      BY <3>6, <3>7, OutputEncoded
  <2>10. Continued(r_buffer, left, <<>>, q, tail)
    <3>1. PICK bytes \in Seq(Byte) : bytes = Frames(rest)
      BY FramesType
    <3>2. <<>> \o bytes = bytes
      BY <3>1, ConcatEmptySeq
    <3> QED
      BY <2>5, <2>8, <3>1, <3>2, Zenon DEF Continued
  <2>11. <<>> \in Seq(Byte) /\ Len(<<>>) = 0 /\ 1 \in 1 .. Len(r_buffer) + 1
    BY <2>6, EmptySeq
  <2>12. 1 + 1 + Len(q) <= Len(r_buffer) => CompleteAt(r_buffer, 1)
    <3>1. PICK done \in Seq(Byte) : done = <<>>
      BY <2>11, Zenon
    <3>2. Continued(r_buffer, left, done, q, tail)
      BY <2>10, <3>1, Zenon
    <3>3. PICK x \in 1 .. Len(r_buffer) + 1 : x = 1
      BY <2>11, Zenon
    <3>4. x = Len(done) + 1
      BY <2>11, <3>1, <3>3
    <3>5. x + 1 + Len(q) <= Len(r_buffer) => CompleteAt(r_buffer, x)
      BY <2>1, <3>2, <3>4, FrameAt, Zenon
    <3> QED
      BY <3>3, <3>5, Zenon
  <2> QED
    BY <2>2, <2>6, <2>9, <2>12, PduType, RadixType
<1> QED
  BY <1>1, WireInvCorrect, PTL

(***************************************************************************)
(* The client gets what the server sent: a reply that was read decodes to  *)
(* the message that the server encoded (protocol.c:165-193), and encoding  *)
(* it again with the invokeid of the client changes nothing else of it and *)
(* makes a PDU that fits the buffers, whatever the invokeid.               *)
(***************************************************************************)
THEOREM ContentsKeptCorrect == Spec => []ContentsKept
<1>1. WireInv => ContentsKept
  <2> SUFFICES ASSUME WireInv, is_out_connection_OK, ~stale,
                      NEW i \in DOMAIN read_pdus
               PROVE  LET m == OutputType_Decode(read_pdus[i])
                      IN  /\ m = replied[i]
                          /\ \A id \in asn1SccSint :
                               LET pdu == Reencoded(read_pdus[i], id)
                               IN  /\ OutputType_Decode(pdu)
                                         = [m EXCEPT !.invokeid = id]
                                   /\ Len(Frame(pdu)) <= BUFFER_KSIZE
    BY Zenon DEF ContentsKept
  <2>1. replied \in Seq(Replies)
    BY Zenon DEF WireInv, TypeOK
  <2>2. read_pdus \in Seq(Pdu)
    BY Zenon DEF WireInv, RepliesKept
  <2>3. PICK rest \in Seq(Pdu), lost \in Seq(Byte) : Awaited(rest, lost)
    BY Zenon DEF WireInv, RepliesKept
  <2>4. OutputPdus(replied) = read_pdus \o rest
    BY <2>3, Zenon DEF Awaited
  <2>5. PICK n \in Nat, k \in Nat : n = Len(read_pdus) /\ k = Len(rest)
    BY <2>2, <2>3
  <2>6. i \in 1 .. n /\ Len(read_pdus \o rest) = n + k /\ (read_pdus \o rest)[i] = read_pdus[i]
    BY <2>2, <2>5
  <2>7. i \in DOMAIN replied
    <3>1. Len(replied) = n + k
      BY <2>1, <2>4, <2>6, PdusType
    <3> QED
      BY <2>1, <2>6, <3>1
  <2>8. PICK m \in OutputMessage : m = replied[i]
    BY <2>1, <2>7, MessageTypes
  <2>9. read_pdus[i] = OutputType_Encode(m)
    <3>1. OutputPdus(replied)[i] = OutputType_Encode(replied[i])
      BY <2>7, Zenon DEF OutputPdus
    <3> QED
      BY <2>4, <2>6, <2>8, <3>1, Zenon
  <2>10. OutputType_Decode(read_pdus[i]) = m
    BY <2>9, OutputDecoded, Zenon
  <2>11. ASSUME NEW id \in asn1SccSint
         PROVE  /\ OutputType_Decode(Reencoded(read_pdus[i], id))
                      = [m EXCEPT !.invokeid = id]
                /\ Len(Frame(Reencoded(read_pdus[i], id))) <= BUFFER_KSIZE
    <3>1. PICK r \in OutputMessage : r = [m EXCEPT !.invokeid = id]
      BY DEF OutputMessage
    <3>2. Reencoded(read_pdus[i], id) = OutputType_Encode(r)
      BY <2>10, <3>1, Zenon DEF Reencoded
    <3>3. PICK p \in Pdu : p = OutputType_Encode(r) /\ Len(p) + 2 <= BUFFER_KSIZE
      BY OutputEncoded
    <3>4. Len(Frame(p)) <= BUFFER_KSIZE
      BY <3>3, FrameProperties
    <3>5. OutputType_Decode(OutputType_Encode(r)) = r
      BY OutputDecoded, Zenon
    <3> QED
      BY <3>1, <3>2, <3>3, <3>4, <3>5, Zenon
  <2> QED
    BY <2>8, <2>10, <2>11, Zenon
<1> QED
  BY <1>1, WireInvCorrect, PTL

=============================================================================
