---------------------------- MODULE LoggingProofs ----------------------------
(***************************************************************************)
(* Proofs about Logging, for any number of threads, log sizes, saved logs  *)
(* and starts of the program.                                              *)
(***************************************************************************)
EXTENDS Logging, TLAPS, FiniteSetTheorems, SequenceTheorems,
        WellFoundedInduction

-----------------------------------------------------------------------------
(* Numbers. *)

\* Every set of natural numbers that is not empty has a least element.
LEMMA LeastNumber ==
    ASSUME NEW T \in SUBSET Nat, T # {}
    PROVE  \E x \in T : \A y \in T : x <= y
<1> DEFINE R == {ss \in Nat \X Nat : ss[1] < ss[2]}
<1>1. IsWellFoundedOn(R, Nat)
  <2>1. OpToRel(<, Nat) = R
    BY DEF OpToRel
  <2> QED
    BY <2>1, NatLessThanWellFounded
<1>2. PICK x \in T : \A y \in T : <<y, x>> \notin R
  <2> HIDE DEF R
  <2> QED
    BY <1>1, WFMin
<1>3. ASSUME NEW y \in T PROVE x <= y
  <2>1. y \in Nat /\ x \in Nat /\ <<y, x>> \in Nat \X Nat
    OBVIOUS
  <2>2. ~(y < x)
    BY <1>2, <2>1
  <2> QED
    BY <2>1, <2>2
<1> QED
  BY <1>3

LEMMA Induction ==
    ASSUME NEW S, 0 \in S, \A i \in Nat : i \in S => i + 1 \in S
    PROVE  \A n \in Nat : n \in S
<1> SUFFICES ASSUME NEW n \in Nat, n \notin S
             PROVE  FALSE
  OBVIOUS
<1> DEFINE T == {k \in Nat : k \notin S}
<1>1. PICK x \in T : \A y \in T : x <= y
  BY LeastNumber
<1>2. x # 0 /\ x - 1 \in Nat /\ x - 1 \notin T
  BY <1>1
<1> QED
  BY <1>2, x - 1 + 1 = x

-----------------------------------------------------------------------------
(* Texts: what a file and its parts consist of. *)

\* The provers do not know that this literal is in STRING.
Symbol == STRING \cup {"localhost"}

Text == Seq(Symbol)

LEMMA MinIs ==
    ASSUME NEW I \in SUBSET Nat, I # {}
    PROVE  Min(I) \in I /\ \A i \in I : Min(I) <= i
<1>1. PICK x \in I : \A y \in I : x <= y
  BY LeastNumber
<1> QED
  BY <1>1 DEF Min

LEMMA MaxIs ==
    ASSUME NEW n \in Nat, NEW I \in SUBSET (0 .. n), I # {}
    PROVE  Max(I) \in I /\ \A i \in I : i <= Max(I)
<1> DEFINE T == {k \in Nat : \A i \in I : i <= k}
<1>1. n \in T
  OBVIOUS
<1>2. PICK x \in T : \A y \in T : x <= y
  BY <1>1, LeastNumber
<1>3. x \in I
  <2> SUFFICES ASSUME x \notin I PROVE FALSE
    OBVIOUS
  <2>1. PICK i \in I : TRUE
    OBVIOUS
  <2>2. x - 1 \in T
    <3>1. x # 0 /\ x - 1 \in Nat
      BY <1>2, <2>1
    <3> QED
      BY <1>2, <3>1
  <2> QED
    BY <1>2, <2>2
<1>4. \A i \in I : x >= i
  BY <1>2
<1>5. \E m \in I : \A i \in I : m >= i
  BY <1>3, <1>4
<1>6. Max(I) \in I /\ \A i \in I : Max(I) >= i
  BY <1>5 DEF Max
<1> QED
  BY <1>6

\* The first place of a symbol in a text, or zero.
FirstOf(s, ch) == SelectInSeq(s, LAMBDA c : c = ch)

LEMMA FirstOfIs ==
    ASSUME NEW s \in Text, NEW ch
    PROVE  /\ FirstOf(s, ch) \in 0 .. Len(s)
           /\ FirstOf(s, ch) # 0 => s[FirstOf(s, ch)] = ch
           /\ \A i \in 1 .. Len(s) :
                 s[i] = ch => FirstOf(s, ch) # 0 /\ FirstOf(s, ch) <= i
<1> DEFINE I == {i \in 1 .. Len(s) : s[i] = ch}
<1>1. PICK n \in Nat : n = Len(s)
  BY LenProperties DEF Text
<1>2. FirstOf(s, ch) = IF I # {} THEN Min(I) ELSE 0
  BY DEF FirstOf, SelectInSeq
<1>3. I \in SUBSET Nat /\ I \subseteq 1 .. n
  BY <1>1
<1>4. I # {} => Min(I) \in I /\ \A i \in I : Min(I) <= i
  BY <1>3, MinIs
<1>5. CASE I = {}
  BY <1>1, <1>2, <1>5
<1>6. CASE I # {}
  <2>1. FirstOf(s, ch) \in I /\ \A i \in I : FirstOf(s, ch) <= i
    BY <1>2, <1>4, <1>6
  <2> QED
    BY <1>1, <2>1
<1> QED
  BY <1>5, <1>6

LEMMA SplitIs ==
    ASSUME NEW s \in Text, NEW ch
    PROVE  /\ Split(s, ch).found = (FirstOf(s, ch) # 0)
           /\ Split(s, ch).key = SubSeq(s, 1, FirstOf(s, ch) - 1)
           /\ Split(s, ch).value = SubSeq(s, FirstOf(s, ch) + 1, Len(s))
           /\ Split(s, ch).found \in BOOLEAN
           /\ Split(s, ch).key \in Text /\ Split(s, ch).value \in Text
<1>1. PICK d \in 0 .. Len(s) : d = FirstOf(s, ch)
  BY FirstOfIs
<1>2. Split(s, ch) = [found |-> d # 0, key |-> SubSeq(s, 1, d - 1),
                      value |-> SubSeq(s, d + 1, Len(s))]
  BY <1>1 DEF Split, FirstOf
<1>3. PICK n \in Nat : n = Len(s)
  BY LenProperties DEF Text
<1>4. SubSeq(s, 1, d - 1) \in Text /\ SubSeq(s, d + 1, Len(s)) \in Text
  BY <1>3 DEF Text
<1>5. PICK f \in BOOLEAN : f = (d # 0)
  BY Zenon
<1>6. PICK k, v : k = SubSeq(s, 1, d - 1) /\ v = SubSeq(s, d + 1, Len(s))
  OBVIOUS
<1>7. Split(s, ch) = [found |-> f, key |-> k, value |-> v]
  BY <1>2, <1>5, <1>6, Zenon
<1>8. Split(s, ch).found = f /\ Split(s, ch).key = k /\ Split(s, ch).value = v
  BY <1>7
<1> QED
  BY <1>1, <1>4, <1>5, <1>6, <1>8, Zenon

LEMMA TrimType ==
    ASSUME NEW s \in Text
    PROVE  trim_ws(s) \in Text
<1> DEFINE I == {i \in DOMAIN s : s[i] \notin Blank}
<1>1. PICK n \in Nat : n = Len(s) /\ DOMAIN s = 1 .. n
  BY LenProperties DEF Text
<1>2. trim_ws(s) = IF I = {} THEN <<>> ELSE SubSeq(s, Min(I), Max(I))
  BY DEF trim_ws
<1>3. <<>> \in Text
  BY EmptySeq DEF Text
<1>4. I \in SUBSET Nat /\ I \in SUBSET (0 .. n)
  BY <1>1
<1>5. CASE I # {}
  <2>1. PICK a \in 1 .. n, b \in 1 .. n : a = Min(I) /\ b = Max(I)
    <3>1. Min(I) \in I
      BY <1>4, <1>5, MinIs
    <3>2. Max(I) \in I
      BY <1>4, <1>5, MaxIs
    <3> QED
      BY <1>1, <3>1, <3>2
  <2>2. SubSeq(s, a, b) \in Text
    BY <1>1 DEF Text
  <2> QED
    BY <1>2, <1>5, <2>1, <2>2
<1> QED
  BY <1>2, <1>3, <1>5

-----------------------------------------------------------------------------
(* The types of what is read. *)

AddressValue == [ip : Text, port : Port]

ConfigValue ==
    [LOG_INFO : BOOLEAN, LOG_DEBUG : BOOLEAN, LOG_ERROR : BOOLEAN,
     CONNECTION_IN : AddressValue, CONNECTION_OUT : AddressValue,
     aborted : BOOLEAN]

LEMMA DefaultType == Default \in ConfigValue
<1>1. "localhost" \in Symbol
  BY DEF Symbol
<1>2. PICK host \in Text : host = <<"localhost">>
  <2>1. PICK h \in Symbol : h = "localhost"
    BY <1>1, Zenon
  <2>2. <<h>> \in Text
    BY DEF Text
  <2> QED
    BY <2>1, <2>2, Zenon
<1>0. 27014 \in Port /\ 27015 \in Port
  BY SMT DEF Port, ShortValues
<1>3. Default \in
         [LOG_INFO : BOOLEAN, LOG_DEBUG : BOOLEAN, LOG_ERROR : BOOLEAN,
          CONNECTION_IN : AddressValue, CONNECTION_OUT : AddressValue,
          aborted : BOOLEAN]
  BY <1>0, <1>2, SMT DEF Default, AddressValue
<1> QED
  BY <1>3 DEF ConfigValue

LEMMA ShortType ==
    ASSUME NEW n \in Nat
    PROVE  Short(n) \in Port
<1>1. ShortValues \in Nat /\ ShortValues > 0
  BY DEF ShortValues
<1>2. PICK m \in Nat : m = IF n < INT_MAX THEN n ELSE INT_MAX
  BY DEF INT_MAX
<1>3. m % ShortValues \in 0 .. ShortValues - 1
  BY <1>1
<1> QED
  BY <1>2, <1>3, Zenon DEF Short, Port

LEMMA ShortSame ==
    ASSUME NEW n \in Port
    PROVE  Short(n) = n
<1>1. ShortValues \in Nat /\ ShortValues < INT_MAX
  BY DEF ShortValues, INT_MAX
<1>2. INT_MAX \in Nat
  BY DEF INT_MAX
<1>3. n \in 0 .. ShortValues - 1
  BY DEF Port
<1>4. n < INT_MAX /\ n % ShortValues = n
  BY <1>1, <1>2, <1>3
<1> QED
  BY <1>4 DEF Short

LEMMA AtoiIs ==
    ASSUME NEW s
    PROVE  atoi(s) = IF s # <<>> /\ s[1] \in DOMAIN Number
                       THEN Short(Number[s[1]]) ELSE 0
BY DEF atoi

LEMMA AtoiType ==
    ASSUME NEW s
    PROVE  atoi(s) \in Port
<1>1. CASE s # <<>> /\ s[1] \in DOMAIN Number
  <2>1. Number[s[1]] \in Nat
    BY <1>1, ConfigAssumption, Zenon DEF ConfigAssumption
  <2> QED
    BY <1>1, <2>1, ShortType, AtoiIs
<1>2. CASE ~(s # <<>> /\ s[1] \in DOMAIN Number)
  <2>1. 0 \in Port
    BY SMT DEF Port, ShortValues
  <2> QED
    BY <1>2, <2>1, AtoiIs
<1> QED
  BY <1>1, <1>2, Zenon

LEMMA AddressType ==
    ASSUME NEW c \in ConfigValue, NEW name \in Address, NEW input \in Text
    PROVE  read_ip_address(c, name, input) \in ConfigValue
<1> DEFINE pair == Split(input, ":")
<1>1. pair.key \in Text /\ pair.value \in Text
  BY SplitIs
<1>2. PICK ip \in Text, port \in Port :
         ip = trim_ws(pair.key) /\ port = atoi(trim_ws(pair.value))
  BY <1>1, TrimType, AtoiType
<1>3. [c EXCEPT !["aborted"] = TRUE] \in ConfigValue
  BY DEF ConfigValue
<1>4. PICK a \in AddressValue : a = [ip |-> ip, port |-> port]
  BY DEF AddressValue
<1>5. [c EXCEPT ![name] = a] \in ConfigValue
  BY DEF ConfigValue, Address
<1>6. read_ip_address(c, name, input)
         = IF ~pair.found THEN c
           ELSE IF Len(ip) >= MAX_IP_ADDR_LEN
                  THEN [c EXCEPT !.aborted = TRUE]
           ELSE [c EXCEPT ![name] = a]
  BY <1>2, <1>4, Zenon DEF read_ip_address
<1> QED
  BY <1>3, <1>5, <1>6, Zenon

LEMMA LineType ==
    ASSUME NEW c \in ConfigValue, NEW line \in Text
    PROVE  read_config_line(c, line) \in ConfigValue
<1> DEFINE pair == Split(line, "=")
<1>1. pair.key \in Text /\ pair.value \in Text
  BY SplitIs
<1>2. PICK key \in Text, value \in Text :
         key = trim_ws(pair.key) /\ value = trim_ws(pair.value)
  BY <1>1, TrimType
<1>3. PICK flag \in BOOLEAN : flag = (value = <<"TRUE">>)
  BY Zenon
<1>4. ASSUME NEW k \in Flag PROVE [c EXCEPT ![k] = flag] \in ConfigValue
  BY DEF ConfigValue, Flag
<1>5. ASSUME NEW k \in Address
      PROVE  read_ip_address(c, k, value) \in ConfigValue
  BY AddressType
<1>6. read_config_line(c, line)
         = IF c.aborted \/ ~pair.found \/ Len(key) # 1 THEN c
           ELSE IF key[1] \in Flag THEN [c EXCEPT ![key[1]] = flag]
           ELSE IF key[1] \in Address THEN read_ip_address(c, key[1], value)
           ELSE c
  BY <1>2, <1>3, Zenon DEF read_config_line
<1> QED
  BY <1>4, <1>5, <1>6, Zenon

\* f holds the configuration after each of the lines ls.
Reads(f, ls) ==
    /\ f \in [0 .. Len(ls) -> ConfigValue]
    /\ f[0] = Default
    /\ \A i \in 1 .. Len(ls) : f[i] = read_config_line(f[i - 1], ls[i])

\* FoldLeft goes over the sets of lines.
Iterates(h, ls, m) ==
    h = [s \in SUBSET (1 .. m) |->
            IF s = {} THEN Default
            ELSE read_config_line(h[s \ {Max(s)}], ls[Max(s)])]

LEMMA IteratesExists ==
    ASSUME NEW m \in Nat, NEW ls, \A i \in 1 .. m : ls[i] \in Text
    PROVE  \E h : Iterates(h, ls, m)
<1> DEFINE T == {k \in Nat : k <= m => \E h : Iterates(h, ls, k)}
<1>1. 0 \in T
  <2> DEFINE h == [s \in SUBSET (1 .. 0) |-> Default]
  <2>1. \A s \in SUBSET (1 .. 0) : s = {}
    OBVIOUS
  <2>2. Iterates(h, ls, 0)
    BY <2>1 DEF Iterates
  <2> QED
    BY <2>2
<1>2. ASSUME NEW k \in Nat, k \in T PROVE k + 1 \in T
  <2> SUFFICES ASSUME k + 1 <= m PROVE \E h : Iterates(h, ls, k + 1)
    OBVIOUS
  <2>1. PICK a : Iterates(a, ls, k)
    BY <1>2
  <2> DEFINE b == [s \in SUBSET (1 .. k + 1) |->
                     IF k + 1 \in s
                       THEN read_config_line(a[s \ {k + 1}], ls[k + 1])
                       ELSE a[s]]
  <2>2. ASSUME NEW s \in SUBSET (1 .. k + 1)
        PROVE  b[s] = IF s = {} THEN Default
                      ELSE read_config_line(b[s \ {Max(s)}], ls[Max(s)])
    <3>1. CASE k + 1 \in s
      <4>1. Max(s) = k + 1
        <5>1. Max(s) \in s /\ \A i \in s : i <= Max(s)
          <6>1. s \in SUBSET (0 .. k + 1) /\ s # {} /\ k + 1 \in Nat
            BY <3>1
          <6> QED
            BY <6>1, MaxIs
        <5>2. Max(s) \in 1 .. k + 1 /\ k + 1 <= Max(s)
          BY <3>1, <5>1
        <5> QED
          BY <5>2
      <4>2. PICK r \in SUBSET (1 .. k + 1) : r = s \ {k + 1} /\ k + 1 \notin r
        <5>1. s \ {k + 1} \in SUBSET (1 .. k + 1) /\ k + 1 \notin s \ {k + 1}
          OBVIOUS
        <5> QED
          BY <5>1, Zenon
      <4>3. b[r] = a[r]
        BY <4>2
      <4>4. b[s] = read_config_line(a[r], ls[k + 1])
        BY <3>1, <4>2
      <4> HIDE DEF b
      <4> QED
        BY <3>1, <4>1, <4>2, <4>3, <4>4, Zenon
    <3>2. CASE k + 1 \notin s
      <4>1. s \in SUBSET (1 .. k)
        BY <3>2
      <4>2. b[s] = a[s]
        BY <3>2
      <4>3. a[s] = IF s = {} THEN Default
                   ELSE read_config_line(a[s \ {Max(s)}], ls[Max(s)])
        BY <2>1, <4>1, Zenon DEF Iterates
      <4>4. PICK r : r = s \ {Max(s)} /\ r \in SUBSET (1 .. k + 1) /\ k + 1 \notin r
        BY <3>2
      <4>5. b[r] = a[r]
        BY <4>4
      <4> HIDE DEF b
      <4> QED
        BY <4>2, <4>3, <4>4, <4>5, Zenon
    <3> QED
      BY <3>1, <3>2
  <2>3. b = [s \in SUBSET (1 .. k + 1) |-> b[s]]
    OBVIOUS
  <2>4. Iterates(b, ls, k + 1)
    <3> HIDE DEF b
    <3> QED
      BY <2>2, <2>3 DEF Iterates
  <2> QED
    BY <2>4, Zenon
<1> HIDE DEF T
<1>3. m \in T
  BY <1>1, <1>2, Induction
<1> QED
  BY <1>3 DEF T

LEMMA ReadsExists ==
    ASSUME NEW ls \in Seq(Text)
    PROVE  \E f : /\ Reads(f, ls)
                  /\ FoldLeft(read_config_line, Default, ls) = f[Len(ls)]
<1>1. PICK m \in Nat : m = Len(ls) /\ DOMAIN ls = 1 .. m
  BY LenProperties
<1>2. \A i \in 1 .. m : ls[i] \in Text
  BY <1>1, ElementOfSeq
<1>3. PICK h : /\ Iterates(h, ls, m)
               /\ FoldLeft(read_config_line, Default, ls) = h[1 .. m]
  <2> DEFINE recursive(h) ==
                h = [s \in SUBSET DOMAIN ls |->
                       IF s = {} THEN Default
                       ELSE read_config_line(h[s \ {Max(s)}], ls[Max(s)])]
             k == CHOOSE h : recursive(h)
  <2>1. FoldLeft(read_config_line, Default, ls) = k[DOMAIN ls]
    BY DEF FoldLeft, MapThenFoldSet
  <2>2. \E h : recursive(h)
    <3>1. PICK h : Iterates(h, ls, m)
      BY <1>1, <1>2, IteratesExists
    <3>2. recursive(h)
      BY <1>1, <3>1, Zenon DEF Iterates
    <3> QED
      BY <3>2
  <2>3. recursive(k)
    <3> HIDE DEF recursive
    <3> QED
      BY <2>2
  <2>4. Iterates(k, ls, m)
    <3> HIDE DEF k
    <3> QED
      BY <1>1, <2>3, Zenon DEF Iterates
  <2> QED
    BY <1>1, <2>1, <2>4, Zenon
<1> DEFINE f == [i \in 0 .. m |-> h[1 .. i]]
<1>4. f[0] = Default /\ \A i \in 0 .. m : f[i] = h[1 .. i]
  <2>1. 1 .. 0 = {} /\ {} \in SUBSET (1 .. m)
    OBVIOUS
  <2>2. h[{}] = Default
    BY <1>3, <2>1, Zenon DEF Iterates
  <2> QED
    BY <2>1, <2>2
<1>5. ASSUME NEW i \in 1 .. m PROVE f[i] = read_config_line(f[i - 1], ls[i])
  <2>1. PICK s : s = 1 .. i /\ s \in SUBSET (1 .. m) /\ s # {}
    OBVIOUS
  <2>2. Max(s) = i
    <3>1. Max(s) \in s /\ \A j \in s : j <= Max(s)
      <4>1. i \in Nat /\ s \in SUBSET (0 .. i)
        BY <2>1
      <4> QED
        BY <2>1, <4>1, MaxIs
    <3> QED
      BY <2>1, <3>1
  <2>3. s \ {i} = 1 .. i - 1
    BY <2>1
  <2>4. h[s] = read_config_line(h[s \ {Max(s)}], ls[Max(s)])
    BY <1>3, <2>1, Zenon DEF Iterates
  <2>5. f[i] = h[s] /\ f[i - 1] = h[1 .. i - 1]
    BY <1>4, <2>1
  <2> QED
    BY <2>2, <2>3, <2>4, <2>5, Zenon
<1> HIDE DEF f
<1> DEFINE T == {i \in Nat : i <= m => f[i] \in ConfigValue}
<1>6. 0 \in T
  BY <1>4, DefaultType
<1>7. ASSUME NEW i \in Nat, i \in T PROVE i + 1 \in T
  <2> SUFFICES ASSUME i + 1 <= m PROVE f[i + 1] \in ConfigValue
    OBVIOUS
  <2>1. PICK j \in 1 .. m : j = i + 1 /\ j - 1 = i
    OBVIOUS
  <2>2. f[j - 1] \in ConfigValue
    BY <1>7, <2>1
  <2> QED
    BY <1>2, <1>5, <2>1, <2>2, LineType
<1> HIDE DEF T
<1>8. \A i \in 0 .. m : f[i] \in ConfigValue
  <2>1. \A i \in Nat : i \in T
    BY <1>6, <1>7, Induction
  <2> QED
    BY <2>1 DEF T
<1>9. f \in [0 .. m -> ConfigValue]
  BY <1>8 DEF f
<1>10. Reads(f, ls)
  BY <1>1, <1>4, <1>5, <1>9 DEF Reads
<1>11. FoldLeft(read_config_line, Default, ls) = f[Len(ls)]
  BY <1>1, <1>3, <1>4
<1> QED
  BY <1>10, <1>11, Zenon

-----------------------------------------------------------------------------
(* The lines of a file. *)

EndOf(file, i) ==
    SelectInSubSeq(file, i, Len(file), LAMBDA ch : ch \in LineEnd)

LEMMA EndIs ==
    ASSUME NEW file \in Text, NEW i \in Nat, i >= 1
    PROVE  EndOf(file, i) = 0 \/ EndOf(file, i) \in i .. Len(file)
<1>1. PICK n \in Nat : n = Len(file)
  BY LenProperties DEF Text
<1> DEFINE I == {j \in i .. n : file[j] \in LineEnd}
<1>2. EndOf(file, i) = IF I # {} THEN Min(I) ELSE 0
  BY <1>1 DEF EndOf, SelectInSubSeq
<1>3. I \in SUBSET Nat /\ I \subseteq i .. n
  BY <1>1
<1>4. I # {} => Min(I) \in I
  BY <1>3, MinIs
<1> QED
  BY <1>1, <1>2, <1>3, <1>4

\* A line, and the rest of the lines.
FirstAndRest(line, rest) == <<line>> \o rest

LinesFrom(f, file, i) ==
    IF EndOf(file, i) = 0 THEN <<SubSeq(file, i, Len(file))>>
    ELSE FirstAndRest(SubSeq(file, i, EndOf(file, i) - 1),
                      f[EndOf(file, i) + 1])

\* f holds the lines that start at each place from a on.
Lines(f, file, a) ==
    f = [i \in a .. Len(file) + 1 |-> LinesFrom(f, file, i)]

LEMMA LinesExist ==
    ASSUME NEW file \in Text
    PROVE  \E f : Lines(f, file, 1)
<1>1. PICK n \in Nat : n = Len(file)
  BY LenProperties DEF Text
<1> DEFINE T == {k \in Nat : k <= n => \E f : Lines(f, file, n + 1 - k)}
<1>2. 0 \in T
  <2>1. \A f, g : LinesFrom(f, file, n + 1) = LinesFrom(g, file, n + 1)
    <3>1. EndOf(file, n + 1) = 0
      <4>1. n + 1 \in Nat /\ n + 1 >= 1 /\ n + 1 .. n = {}
        OBVIOUS
      <4> QED
        BY <1>1, <4>1, EndIs
    <3> QED
      BY <3>1 DEF LinesFrom
  <2> DEFINE f == [i \in n + 1 .. n + 1 |-> LinesFrom(<<>>, file, i)]
  <2>2. f = [i \in n + 1 .. n + 1 |-> LinesFrom(f, file, i)]
    <3>1. \A i \in n + 1 .. n + 1 : i = n + 1
      OBVIOUS
    <3>2. \A i \in n + 1 .. n + 1 :
             LinesFrom(<<>>, file, i) = LinesFrom(f, file, i)
      BY <2>1, <3>1, Zenon
    <3> QED
      BY <3>2
  <2> HIDE DEF f
  <2>3. n + 1 - 0 = n + 1
    OBVIOUS
  <2>4. Lines(f, file, n + 1 - 0)
    BY <1>1, <2>2, <2>3, Zenon DEF Lines
  <2> QED
    BY <2>4
<1>3. ASSUME NEW k \in Nat, k \in T PROVE k + 1 \in T
  <2> SUFFICES ASSUME k + 1 <= n
               PROVE  \E f : Lines(f, file, n + 1 - (k + 1))
    OBVIOUS
  <2>1. PICK b \in 1 .. n : b = n + 1 - (k + 1) /\ n + 1 - k = b + 1
    OBVIOUS
  <2>2. PICK f : Lines(f, file, b + 1)
    BY <1>3, <2>1
  <2>3. PICK e : e = EndOf(file, b)
    OBVIOUS
  <2>4. e = 0 \/ e \in b .. n
    BY <1>1, <2>3, EndIs
  <2> DEFINE D == b + 1 .. n + 1
             g == [i \in b .. n + 1 |->
                     IF i = b THEN LinesFrom(f, file, b) ELSE f[i]]
  <2>5. \A i \in D : g[i] = f[i]
    OBVIOUS
  <2>6. \A i \in b .. n + 1 : i = b \/ i \in D
    OBVIOUS
  <2>7. ASSUME NEW i \in b .. n + 1
        PROVE  LinesFrom(g, file, i) = LinesFrom(f, file, i)
    <3>1. EndOf(file, i) = 0 \/ EndOf(file, i) \in i .. n
      BY <1>1, EndIs
    <3>2. CASE EndOf(file, i) = 0
      BY <3>2, Zenon DEF LinesFrom
    <3>3. CASE EndOf(file, i) # 0
      <4>1. EndOf(file, i) + 1 \in D
        BY <3>1, <3>3
      <4>2. g[EndOf(file, i) + 1] = f[EndOf(file, i) + 1]
        BY <2>5, <4>1, Zenon
      <4> HIDE DEF g
      <4> QED
        BY <4>2 DEF LinesFrom
    <3> QED
      BY <3>2, <3>3
  <2>8. ASSUME NEW i \in b .. n + 1
        PROVE  g[i] = LinesFrom(g, file, i)
    <3>1. CASE i = b
      BY <2>7, <3>1, Zenon
    <3>2. CASE i # b
      <4>1. i \in D
        BY <2>6, <3>2
      <4>2. f[i] = LinesFrom(f, file, i)
        BY <1>1, <2>2, <4>1, Zenon DEF Lines
      <4> HIDE DEF g
      <4> QED
        BY <2>5, <2>7, <4>1, <4>2, Zenon
    <3> QED
      BY <3>1, <3>2
  <2>9. g = [i \in b .. n + 1 |-> g[i]]
    OBVIOUS
  <2> HIDE DEF g
  <2>10. g = [i \in b .. n + 1 |-> LinesFrom(g, file, i)]
    BY <2>8, <2>9
  <2>11. Lines(g, file, b)
    BY <1>1, <2>10, Zenon DEF Lines
  <2> QED
    BY <2>1, <2>11, Zenon
<1> HIDE DEF T
<1>4. n \in T
  BY <1>2, <1>3, Induction
<1>5. \E f : Lines(f, file, n + 1 - n)
  BY <1>4 DEF T
<1>6. n + 1 - n = 1
  OBVIOUS
<1> QED
  BY <1>5, <1>6, Zenon

\* What read_lines returns.
LEMMA ReadLinesIs ==
    ASSUME NEW file \in Text
    PROVE  \E f : Lines(f, file, 1) /\ read_lines(file) = f[1]
<1> DEFINE recursive(f) ==
              f = [i \in 1 .. Len(file) + 1 |->
                     IF EndOf(file, i) = 0 THEN <<SubSeq(file, i, Len(file))>>
                     ELSE <<SubSeq(file, i, EndOf(file, i) - 1)>>
                            \o f[EndOf(file, i) + 1]]
           k == CHOOSE f : recursive(f)
<1>1. read_lines(file) = k[1]
  BY DEF read_lines, EndOf
<1>2. \A f : Lines(f, file, 1) <=> recursive(f)
  BY Zenon DEF Lines, LinesFrom, FirstAndRest
<1>3. \E f : recursive(f)
  BY <1>2, LinesExist
<1>4. recursive(k)
  <2> HIDE DEF recursive
  <2> QED
    BY <1>3
<1> QED
  BY <1>1, <1>2, <1>4

LEMMA LinesType ==
    ASSUME NEW file \in Text, NEW f, Lines(f, file, 1),
           NEW n \in Nat, n = Len(file)
    PROVE  \A i \in 1 .. n + 1 : f[i] \in Seq(Text)
<1>1. \A i \in 1 .. n + 1 : f[i] = LinesFrom(f, file, i)
  BY Zenon DEF Lines
<1>2. \A a, b \in Nat : a >= 1 /\ b <= n => SubSeq(file, a, b) \in Text
  BY DEF Text
<1>3. ASSUME NEW i \in 1 .. n + 1,
             \A j \in 1 .. n + 1 : i < j => f[j] \in Seq(Text)
      PROVE  f[i] \in Seq(Text)
  <2>1. PICK e : e = EndOf(file, i)
    OBVIOUS
  <2>2. e = 0 \/ e \in i .. n
    BY <2>1, EndIs
  <2>3. CASE e = 0
    <3>1. SubSeq(file, i, n) \in Text
      BY <1>2
    <3>2. f[i] = <<SubSeq(file, i, n)>>
      BY <1>1, <2>1, <2>3, Zenon DEF LinesFrom
    <3> QED
      BY <3>1, <3>2
  <2>4. CASE e # 0
    <3>1. SubSeq(file, i, e - 1) \in Text
      <4>1. i \in Nat /\ e - 1 \in Nat /\ i >= 1 /\ e - 1 <= n
        BY <2>2, <2>4
      <4> QED
        BY <1>2, <4>1, Zenon
    <3>2. e + 1 \in 1 .. n + 1 /\ i < e + 1
      BY <2>2, <2>4
    <3>3. PICK line \in Text, rest \in Seq(Text) :
             line = SubSeq(file, i, e - 1) /\ rest = f[e + 1]
      BY <1>3, <3>1, <3>2
    <3>4. f[i] = FirstAndRest(line, rest)
      BY <1>1, <2>1, <2>4, <3>3, Zenon DEF LinesFrom
    <3>5. <<line>> \o rest \in Seq(Text)
      OBVIOUS
    <3> QED
      BY <3>4, <3>5, Zenon DEF FirstAndRest
  <2> QED
    BY <2>3, <2>4
<1> DEFINE T == {k \in Nat : k <= n =>
                    \A j \in 1 .. n + 1 : n + 1 - k <= j => f[j] \in Seq(Text)}
<1>4. 0 \in T
  <2>1. \A j \in 1 .. n + 1 : n + 1 - 0 <= j => j = n + 1
    OBVIOUS
  <2>2. \A j \in 1 .. n + 1 : ~(n + 1 < j)
    OBVIOUS
  <2>3. f[n + 1] \in Seq(Text)
    BY <1>3, <2>2
  <2> QED
    BY <2>1, <2>3
<1>5. ASSUME NEW k \in Nat, k \in T PROVE k + 1 \in T
  <2> SUFFICES ASSUME k + 1 <= n, NEW j \in 1 .. n + 1, n + 1 - (k + 1) <= j
               PROVE  f[j] \in Seq(Text)
    OBVIOUS
  <2>1. \A i \in 1 .. n + 1 : j < i => n + 1 - k <= i
    OBVIOUS
  <2>2. \A i \in 1 .. n + 1 : n + 1 - k <= i => f[i] \in Seq(Text)
    BY <1>5
  <2>3. \A i \in 1 .. n + 1 : j < i => f[i] \in Seq(Text)
    BY <2>1, <2>2, Zenon
  <2> HIDE DEF T
  <2> QED
    BY <1>3, <2>3, Zenon
<1> HIDE DEF T
<1>6. n \in T
  BY <1>4, <1>5, Induction
<1>7. \A j \in 1 .. n + 1 : n + 1 - n <= j => f[j] \in Seq(Text)
  BY <1>6 DEF T
<1> QED
  BY <1>7

LEMMA ReadLinesType ==
    ASSUME NEW file \in Text
    PROVE  read_lines(file) \in Seq(Text)
<1>1. PICK n \in Nat : n = Len(file)
  BY LenProperties DEF Text
<1>2. PICK f : Lines(f, file, 1) /\ read_lines(file) = f[1]
  BY ReadLinesIs
<1>3. 1 \in 1 .. n + 1
  OBVIOUS
<1> QED
  BY <1>1, <1>2, <1>3, LinesType

-----------------------------------------------------------------------------
(* The inductive invariant. *)

\* TypeOK without the contents of global_config.
LogTypeOK ==
    /\ environment \in Environment
    /\ phase \in {"begin", "config", "up", "ended"}
    /\ log \in (SUBSET Line) \cup {Missing}
    /\ saved \in [Index -> (SUBSET Line) \cup {Missing}]
    /\ index_file \in Index \cup {Missing, Empty, Unreadable}
    /\ stream \in [Slot -> {"closed", "log", "index_r", "index_w"}]
    /\ log_file \in Slot \cup {NULL}
    /\ pc \in [Thread -> {"idle", "test", "open", "write", "size"}
                             \cup Resetting]
    /\ index \in [Thread -> Index \cup {NULL}]
    /\ findex \in [Thread -> Slot \cup {NULL}]
    /\ lines \in 0 .. MaxLines
    /\ removed \subseteq Line
    /\ raced \in BOOLEAN /\ torn \in BOOLEAN /\ refused \in BOOLEAN
    /\ died \in BOOLEAN
    /\ starts \in 1 .. MaxStarts

\* Until the configuration is read main logs alone.
Alone ==
    /\ phase \in {"begin", "ended"} =>
           /\ \A t \in Thread : pc[t] = "idle"
           /\ \A s \in Slot : stream[s] = "closed"
           /\ log_file = NULL
    /\ phase = "config" => \A t \in Thread \ {Main} : pc[t] = "idle"

\* The threads that are going to write a line, and those that wrote one and
\* may reset the log for it.
Writing == {t \in Thread : pc[t] \in {"test", "open", "write"}}
Full == {t \in Thread : pc[t] \in {"size", "close", "read_index"}}

LinesBounded == lines + Cardinality(Writing) <= environment.lines

\* Every reset has a line of its own, and so has every index.
Numbered ==
    /\ Cardinality(Full) <= lines
    /\ index_file \in Nat => index_file + Cardinality(Full) <= lines
    /\ \A t \in Thread :
           pc[t] \in {"rename", "close_index", "open_index", "write_index",
                      "remove"} =>
               index[t] \in Index /\ index[t] + Cardinality(Full) <= lines

\* One stream writes the log, and the streams of the index file belong to the
\* threads that opened them.
StreamsOwned ==
    /\ \A s1, s2 \in Slot :
           stream[s1] = "log" /\ stream[s2] = "log" => s1 = s2
    /\ \A s \in Slot : stream[s] = "log" => log # Missing
    /\ \A s \in Slot :
           stream[s] = "index_r" =>
               \E t \in Thread :
                   pc[t] \in {"rename", "close_index"} /\ findex[t] = s
    /\ \A s \in Slot :
           stream[s] = "index_w" =>
               \E t \in Thread : pc[t] = "write_index" /\ findex[t] = s
    /\ \A t \in Thread : pc[t] = "write_index" => findex[t] \in Slot

\* Without a race, who has closed the log is alone.
OneResets ==
    /\ \A t, u \in Thread :
           pc[t] \in Resetting /\ pc[u] \in Resetting => t = u
    /\ \A t, u \in Thread :
           pc[t] \in Resetting \ {"close"} /\ t # u => pc[u] = "idle"

Past == {t \in Thread : pc[t] \in Resetting \ {"close"}}

\* ... the log is open or was refused, but for the resets ...
LogOpen ==
    IF log_file = NULL
      THEN /\ \A s \in Slot : stream[s] = "closed"
           /\ \A t \in Thread : \/ pc[t] \in {"idle", "test", "open"}
                                \/ refused /\ pc[t] = "write"
      ELSE /\ \A s \in Slot :
                  stream[s] = IF s = log_file THEN "log" ELSE "closed"
           /\ \A t \in Thread : pc[t] # "open"

\* ... in which one file is open at most.
LogClosed(t) ==
    /\ log_file # NULL
    /\ \A s \in Slot :
           stream[s] = IF pc[t] \in {"rename", "close_index"} /\ findex[t] = s
                         THEN "index_r"
                       ELSE IF pc[t] = "write_index" /\ findex[t] = s
                         THEN "index_w"
                       ELSE "closed"

StreamsQuiet ==
    /\ Past = {} => LogOpen
    /\ \A t \in Past : LogClosed(t)

\* Without a race and an end in the wrong moment, the index file says which
\* logs are saved.
LastIndex == IF index_file \in Nat THEN index_file ELSE 0

\* The saved logs are numbered from first to last.
SavedFrom(first, last) ==
    \A i \in Index : saved[i] # Missing => first <= i /\ i <= last

IndexQuiet ==
    /\ (\A t \in Thread : pc[t] # "write_index") =>
           index_file \in Nat \cup {Missing}
    /\ (\A t \in Thread : pc[t] \notin Tearing) =>
           SavedFrom(LastIndex + 1 - MAX_NO_LOG_FILES, LastIndex)
    /\ \A t \in Thread :
         /\ pc[t] = "rename" => index[t] = LastIndex + 1
         /\ pc[t] \in {"close_index", "open_index"} =>
                /\ index[t] = LastIndex + 1
                /\ SavedFrom(LastIndex + 1 - MAX_NO_LOG_FILES, LastIndex + 1)
         /\ pc[t] = "write_index" =>
                /\ index_file = Empty
                /\ SavedFrom(index[t] - MAX_NO_LOG_FILES, index[t])
         /\ pc[t] = "remove" =>
                /\ index_file = index[t]
                /\ SavedFrom(index[t] - MAX_NO_LOG_FILES, index[t])
         /\ pc[t] \in Tearing \cup {"reopen"} => log = Missing

LogInv ==
    /\ LogTypeOK
    /\ Alone
    /\ LinesBounded
    /\ Numbered
    /\ StreamsOwned
    /\ LoggingDoesNotEndProgram
    /\ raced \/ (OneResets /\ StreamsQuiet)
    /\ raced \/ torn \/ IndexQuiet
    /\ LinesKept

-----------------------------------------------------------------------------
(* Numbers and sets of threads. *)

\* When one thread goes on, it is the only one to enter or leave a part of the
\* code.
LEMMA ThreadMoves ==
    ASSUME NEW f, NEW g, NEW t \in Thread, NEW S,
           \A u \in Thread : u # t => g[u] = f[u],
           NEW A, A = {u \in Thread : f[u] \in S},
           NEW B, B = {u \in Thread : g[u] \in S}
    PROVE  /\ Cardinality(A) \in Nat /\ Cardinality(B) \in Nat
           /\ (f[t] \in S <=> g[t] \in S) => B = A
           /\ f[t] \notin S /\ g[t] \in S =>
                  Cardinality(B) = Cardinality(A) + 1
           /\ f[t] \in S /\ g[t] \notin S =>
                  Cardinality(A) = Cardinality(B) + 1
<1>1. IsFiniteSet(A) /\ IsFiniteSet(B)
  BY LoggingAssumption, FS_Subset DEF LoggingAssumption
<1>2. Cardinality(A) \in Nat /\ Cardinality(B) \in Nat
  BY <1>1, FS_CardinalityType
<1>4. (f[t] \in S <=> g[t] \in S) => B = A
  OBVIOUS
<1>5. ASSUME f[t] \notin S, g[t] \in S PROVE Cardinality(B) = Cardinality(A) + 1
  <2>1. B = A \cup {t} /\ t \notin A
    BY <1>5
  <2> QED
    BY <1>1, <2>1, FS_AddElement
<1>6. ASSUME f[t] \in S, g[t] \notin S PROVE Cardinality(A) = Cardinality(B) + 1
  <2>1. A = B \cup {t} /\ t \notin B
    BY <1>6
  <2> QED
    BY <1>1, <2>1, FS_AddElement
<1> QED
  BY <1>2, <1>4, <1>5, <1>6

\* The slots are numbers, and NULL is none of them.
LEMMA Slots ==
    /\ Cardinality(Thread) \in Nat
    /\ Slot \subseteq Nat /\ 1 \in Slot /\ NULL \notin Slot
    /\ IsFiniteSet(Slot) /\ Cardinality(Slot) = Cardinality(Thread) + 2
    /\ \A s \in Slot : 1 <= s
    /\ Index \subseteq Nat /\ Line \subseteq Nat
<1>1. Cardinality(Thread) \in Nat
  BY LoggingAssumption, FS_CardinalityType DEF LoggingAssumption
<1>2. IsFiniteSet(Slot) /\ Cardinality(Slot) = Cardinality(Thread) + 2
  BY <1>1, FS_Interval DEF Slot
<1> QED
  BY <1>1, <1>2, LoggingAssumption DEF LoggingAssumption, Slot, Index, Line

\* fopen_s takes a slot that is closed, if there is one.
LEMMA FreeSlotIsClosed ==
    ASSUME NEW s \in Slot, stream[s] = "closed"
    PROVE  FreeSlot \in Slot /\ stream[FreeSlot] = "closed"
<1> DEFINE T == {u \in Slot : stream[u] = "closed"}
<1>1. T # {} /\ T \in SUBSET Nat
  BY Slots
<1>2. \E x \in T : \A y \in T : x <= y
  BY <1>1, LeastNumber
<1>3. FreeSlot \in T
  BY <1>2 DEF FreeSlot, Min
<1> QED
  BY <1>3

\* There is always one for a thread that opens a file: each of the others has
\* one file open at most, and there is one log.
LEMMA SlotForEveryOpen ==
    ASSUME LogTypeOK, StreamsOwned, NEW t \in Thread,
           pc[t] \in {"open", "read_index", "open_index", "reopen"}
    PROVE  FreeSlot \in Slot /\ stream[FreeSlot] = "closed"
<1> SUFFICES ASSUME \A s \in Slot : stream[s] # "closed" PROVE FALSE
  BY FreeSlotIsClosed
<1> DEFINE user == [s \in Slot |->
               IF stream[s] = "log" THEN t
               ELSE CHOOSE u \in Thread \ {t} : findex[u] = s]
<1>1. ASSUME NEW s \in Slot, stream[s] # "log"
      PROVE  \E u \in Thread \ {t} : findex[u] = s
  BY <1>1 DEF LogTypeOK, StreamsOwned
<1>2. \A s \in Slot :
          /\ user[s] \in Thread
          /\ IF stream[s] = "log" THEN user[s] = t
             ELSE user[s] # t /\ findex[user[s]] = s
  BY <1>1
<1>3. user \in [Slot -> Thread]
  BY <1>2
<1> HIDE DEF user
<1>4. \E x, y \in Slot : x # y /\ user[x] = user[y]
  <2>1. Cardinality(Thread) < Cardinality(Slot)
    BY Slots
  <2>2. IsFiniteSet(Slot) /\ IsFiniteSet(Thread)
    BY Slots, LoggingAssumption DEF LoggingAssumption
  <2> QED
    BY <1>3, <2>1, <2>2, FS_PigeonHole
<1> QED
  BY <1>2, <1>4 DEF StreamsOwned

-----------------------------------------------------------------------------
(* The steps. *)

LEMMA ThreadCounts ==
    ASSUME NEW f, NEW S
    PROVE  LET A == {u \in Thread : f[u] \in S}
           IN  /\ Cardinality(A) \in Nat
               /\ (\E t \in Thread : f[t] \in S) => Cardinality(A) >= 1
               /\ (\A t \in Thread : f[t] \notin S) => Cardinality(A) = 0
<1> DEFINE A == {u \in Thread : f[u] \in S}
<1>1. IsFiniteSet(A)
  BY LoggingAssumption, FS_Subset DEF LoggingAssumption
<1>2. Cardinality(A) \in Nat /\ (Cardinality(A) = 0 <=> A = {})
  BY <1>1, FS_CardinalityType, FS_EmptySet
<1>3. (\E t \in Thread : f[t] \in S) <=> A # {}
  OBVIOUS
<1>4. /\ Cardinality(A) \in Nat
      /\ A # {} => Cardinality(A) >= 1
      /\ A = {} => Cardinality(A) = 0
  <2> HIDE DEF A
  <2> QED
    BY <1>2
<1> QED
  BY <1>3, <1>4

\* How the lines that are going to be written, and the resets that may be
\* made for them, change when a thread goes on.
LEMMA GoesCounts ==
    ASSUME LogTypeOK, NEW t \in Thread, NEW from, NEW to, Goes(t, from, to)
    PROVE  LET W == {"test", "open", "write"}
               F == {"size", "close", "read_index"}
           IN  /\ (from \in W <=> to \in W) => Writing' = Writing
               /\ from \notin W /\ to \in W =>
                      Cardinality(Writing)' = Cardinality(Writing) + 1
               /\ from \in W /\ to \notin W =>
                      Cardinality(Writing) = Cardinality(Writing)' + 1
               /\ (from \in F <=> to \in F) => Full' = Full
               /\ from \notin F /\ to \in F =>
                      Cardinality(Full)' = Cardinality(Full) + 1
               /\ from \in F /\ to \notin F =>
                      Cardinality(Full) = Cardinality(Full)' + 1
<1> DEFINE W == {"test", "open", "write"}
           F == {"size", "close", "read_index"}
           L == {"idle", "test", "open", "write", "size"} \cup Resetting
<1>1. pc \in [Thread -> L] /\ pc[t] = from /\ pc' = [pc EXCEPT ![t] = to]
  BY DEF Goes, LogTypeOK
<1> HIDE DEF L
<1>2. /\ (from \in W <=> to \in W) => Writing' = Writing
      /\ from \notin W /\ to \in W =>
             Cardinality(Writing)' = Cardinality(Writing) + 1
      /\ from \in W /\ to \notin W =>
             Cardinality(Writing) = Cardinality(Writing)' + 1
  <2>1. Writing = {u \in Thread : pc[u] \in W}
    BY DEF Writing
  <2>2. Writing' = {u \in Thread : pc'[u] \in W}
    BY DEF Writing
  <2>3. pc'[t] = to /\ \A u \in Thread : u # t => pc'[u] = pc[u]
    BY <1>1
  <2> HIDE DEF W
  <2> QED
    BY <1>1, <2>1, <2>2, <2>3, ThreadMoves
<1>3. /\ (from \in F <=> to \in F) => Full' = Full
      /\ from \notin F /\ to \in F =>
             Cardinality(Full)' = Cardinality(Full) + 1
      /\ from \in F /\ to \notin F =>
             Cardinality(Full) = Cardinality(Full)' + 1
  <2>1. Full = {u \in Thread : pc[u] \in F}
    BY DEF Full
  <2>2. Full' = {u \in Thread : pc'[u] \in F}
    BY DEF Full
  <2>3. pc'[t] = to /\ \A u \in Thread : u # t => pc'[u] = pc[u]
    BY <1>1
  <2> HIDE DEF F
  <2> QED
    BY <1>1, <2>1, <2>2, <2>3, ThreadMoves
<1> QED
  BY <1>2, <1>3

LEMMA Counts ==
    /\ Cardinality(Writing) \in Nat /\ Cardinality(Full) \in Nat
    /\ (\E t \in Thread : pc[t] \in {"test", "open", "write"}) =>
           Cardinality(Writing) >= 1
    /\ (\E t \in Thread : pc[t] \in {"size", "close", "read_index"}) =>
           Cardinality(Full) >= 1
    /\ (\A t \in Thread : pc[t] = "idle") =>
           Cardinality(Writing) = 0 /\ Cardinality(Full) = 0
<1>1. /\ Cardinality(Writing) \in Nat
      /\ (\E t \in Thread : pc[t] \in {"test", "open", "write"}) =>
             Cardinality(Writing) >= 1
      /\ (\A t \in Thread : pc[t] \notin {"test", "open", "write"}) =>
             Cardinality(Writing) = 0
  BY ThreadCounts DEF Writing
<1>2. /\ Cardinality(Full) \in Nat
      /\ (\E t \in Thread : pc[t] \in {"size", "close", "read_index"}) =>
             Cardinality(Full) >= 1
      /\ (\A t \in Thread : pc[t] \notin {"size", "close", "read_index"}) =>
             Cardinality(Full) = 0
  BY ThreadCounts DEF Full
<1> QED
  BY <1>1, <1>2

LEMMA CountsNext ==
    /\ Cardinality(Writing)' \in Nat /\ Cardinality(Full)' \in Nat
    /\ (\A t \in Thread : pc'[t] = "idle") =>
           Cardinality(Writing)' = 0 /\ Cardinality(Full)' = 0
<1>1. (/\ Cardinality(Writing) \in Nat /\ Cardinality(Full) \in Nat
       /\ (\A t \in Thread : pc[t] = "idle") =>
              Cardinality(Writing) = 0 /\ Cardinality(Full) = 0)'
  BY Counts, PTL
<1> QED
  BY <1>1

LEMMA InitLogInv ==
    ASSUME Init
    PROVE  LogInv
<1> USE DEF Init
<1>1. LogTypeOK
  <2>1. /\ environment \in Environment
        /\ phase \in {"begin", "config", "up", "ended"}
        /\ log \in (SUBSET Line) \cup {Missing}
        /\ index_file \in Index \cup {Missing, Empty, Unreadable}
        /\ log_file \in Slot \cup {NULL}
    OBVIOUS
  <2>4. saved \in [Index -> (SUBSET Line) \cup {Missing}]
    OBVIOUS
  <2>5. stream \in [Slot -> {"closed", "log", "index_r", "index_w"}]
    OBVIOUS
  <2>2. /\ pc \in [Thread -> {"idle", "test", "open", "write", "size"}
                                 \cup Resetting]
        /\ index \in [Thread -> Index \cup {NULL}]
        /\ findex \in [Thread -> Slot \cup {NULL}]
        /\ raced \in BOOLEAN /\ torn \in BOOLEAN /\ refused \in BOOLEAN
    /\ died \in BOOLEAN
        /\ removed \subseteq Line
    OBVIOUS
  <2>3. lines \in 0 .. MaxLines /\ starts \in 1 .. MaxStarts
    BY LoggingAssumption DEF LoggingAssumption
  <2> QED
    BY <2>1, <2>2, <2>3, <2>4, <2>5 DEF LogTypeOK
<1>2. Alone
  BY DEF Alone
<1>3. Cardinality(Writing) = 0 /\ Cardinality(Full) = 0
  BY Counts
<1>4. LinesBounded /\ Numbered
  <2>1. environment.lines \in Nat
    BY LoggingAssumption DEF LoggingAssumption
  <2> QED
    BY <1>3, <2>1, LoggingAssumption
    DEF LinesBounded, Numbered, LoggingAssumption
<1>5. StreamsOwned /\ LoggingDoesNotEndProgram
  BY DEF StreamsOwned, LoggingDoesNotEndProgram
<1>6. OneResets /\ StreamsQuiet
  BY DEF OneResets, StreamsQuiet, Past, LogOpen, Resetting
<1>7. IndexQuiet
  BY DEF IndexQuiet, SavedFrom, Tearing
<1>8. LinesKept
  BY DEF LinesKept
<1> QED
  BY <1>1, <1>2, <1>4, <1>5, <1>6, <1>7, <1>8 DEF LogInv

LEMMA StepLogType ==
    ASSUME LogInv, [Next]_vars
    PROVE  LogTypeOK'
<1> USE DEF LogTypeOK
<1>0. LogTypeOK
  BY DEF LogInv
<1>1. CASE LogBegin
  BY <1>0, <1>1 DEF LogBegin, Goes, disk_vars, history_vars
<1>2. CASE ReadConfig
  BY <1>0, <1>2
  DEF ReadConfig, disk_vars, thread_vars, history_vars
<1>3. ASSUME NEW t \in Thread, NEW flag \in Flag, Log(t, flag)
      PROVE  LogTypeOK'
  BY <1>0, <1>3 DEF Log, Goes, start_vars, disk_vars, history_vars
<1>4. ASSUME NEW t \in Thread, TestLogFile(t) PROVE LogTypeOK'
  BY <1>0, <1>4 DEF TestLogFile, Goes, start_vars, disk_vars, history_vars
<1>5. ASSUME NEW t \in Thread, OpenLogFile(t) PROVE LogTypeOK'
  <2>1. FreeSlot \in Slot
    BY <1>0, <1>5, SlotForEveryOpen DEF LogInv, OpenLogFile, Goes
  <2>2. stream' \in [Slot -> {"closed", "log", "index_r", "index_w"}]
    BY <1>0, <1>5, <2>1 DEF OpenLogFile, Opened
  <2>3. log' \in (SUBSET Line) \cup {Missing}
    BY <1>0, <1>5 DEF OpenLogFile
  <2> QED
    BY <1>0, <1>5, <2>1, <2>2, <2>3
    DEF OpenLogFile, Goes, start_vars, history_vars
<1>6. ASSUME NEW t \in Thread, WriteLine(t) PROVE LogTypeOK'
  <2>1. lines + Cardinality(Writing) <= environment.lines
    BY DEF LogInv, LinesBounded
  <2>2. environment.lines \in 0 .. MaxLines
    BY <1>0, LoggingAssumption DEF LoggingAssumption
  <2>3. Cardinality(Writing) \in Nat /\ Cardinality(Writing) >= 1
    BY <1>6, Counts DEF WriteLine, Goes
  <2>4. lines' \in Line /\ lines' \in 0 .. MaxLines
    BY <1>0, <1>6, <2>1, <2>2, <2>3, LoggingAssumption
    DEF WriteLine, Line, LoggingAssumption
  <2>5. stream[log_file] = "log" => log \in SUBSET Line
    BY <1>0, <1>6 DEF LogInv, StreamsOwned, WriteLine
  <2>6. log' \in (SUBSET Line) \cup {Missing}
    BY <1>0, <1>6, <2>4, <2>5 DEF WriteLine
  <2> QED
    BY <1>0, <1>6, <2>4, <2>6 DEF WriteLine, Goes, start_vars
<1>7. ASSUME NEW t \in Thread, TestSize(t) PROVE LogTypeOK'
  BY <1>0, <1>7
  DEF TestSize, Goes, start_vars, disk_vars, history_vars, Resetting
<1>8. ASSUME NEW t \in Thread, CloseLogFile(t) PROVE LogTypeOK'
  BY <1>0, <1>8
  DEF CloseLogFile, Closed, Goes, start_vars, disk_vars, history_vars,
      Resetting
<1>9. ASSUME NEW t \in Thread, ReadIndex(t) PROVE LogTypeOK'
  <2>1. FreeSlot \in Slot
    BY <1>0, <1>9, SlotForEveryOpen DEF LogInv, ReadIndex, Goes
  <2>2. stream' \in [Slot -> {"closed", "log", "index_r", "index_w"}]
    BY <1>0, <1>9, <2>1 DEF ReadIndex, Opened
  <2>3. findex' \in [Thread -> Slot \cup {NULL}]
    BY <1>0, <1>9, <2>1 DEF ReadIndex
  <2>4. Cardinality(Full) \in Nat /\ Cardinality(Full) >= 1
    BY <1>9, Counts DEF ReadIndex, Goes
  <2>5. index_file \in Nat => index_file + Cardinality(Full) <= lines
    BY DEF LogInv, Numbered
  <2>6. index_file \in Index => index_file + 1 \in Index
    BY <1>0, <2>4, <2>5, LoggingAssumption DEF Index, LoggingAssumption
  <2>7. 1 \in Index
    BY LoggingAssumption DEF LoggingAssumption, Index
  <2>8. index' \in [Thread -> Index \cup {NULL}]
    BY <1>0, <1>9, <2>6, <2>7 DEF ReadIndex
  <2> QED
    BY <1>0, <1>9, <2>2, <2>3, <2>8
    DEF ReadIndex, Goes, start_vars, disk_vars, history_vars, Resetting
<1>10. ASSUME NEW t \in Thread, RenameLog(t) PROVE LogTypeOK'
  BY <1>0, <1>10
  DEF RenameLog, Goes, start_vars, history_vars, Resetting
<1>11. ASSUME NEW t \in Thread, CloseIndex(t) PROVE LogTypeOK'
  BY <1>0, <1>11
  DEF CloseIndex, Closed, Goes, start_vars, disk_vars, history_vars,
      Resetting
<1>12. ASSUME NEW t \in Thread, OpenIndex(t) PROVE LogTypeOK'
  <2>1. FreeSlot \in Slot
    BY <1>0, <1>12, SlotForEveryOpen DEF LogInv, OpenIndex, Goes
  <2> QED
    BY <1>0, <1>12, <2>1
    DEF OpenIndex, Opened, Goes, start_vars, history_vars, Resetting
<1>13. ASSUME NEW t \in Thread, WriteIndex(t) PROVE LogTypeOK'
  <2>1. index[t] \in Index
    BY <1>13 DEF LogInv, Numbered, WriteIndex, Goes
  <2> QED
    BY <1>0, <1>13, <2>1
    DEF WriteIndex, Closed, Goes, start_vars, history_vars, Resetting
<1>14. ASSUME NEW t \in Thread, RemoveOldest(t) PROVE LogTypeOK'
  <2> DEFINE oldest == index[t] - MAX_NO_LOG_FILES
  <2>1. index[t] \in Index
    BY <1>14 DEF LogInv, Numbered, RemoveOldest, Goes
  <2>2. index[t] > MAX_NO_LOG_FILES => oldest \in Index
    BY <2>1, LoggingAssumption DEF Index, LoggingAssumption
  <2>3. /\ saved' \in [Index -> (SUBSET Line) \cup {Missing}]
        /\ removed' \subseteq Line
    <3> HIDE DEF oldest
    <3>1. IF index[t] > MAX_NO_LOG_FILES /\ saved[oldest] # Missing
            THEN /\ saved' = [saved EXCEPT ![oldest] = Missing]
                 /\ removed' = removed \cup saved[oldest]
            ELSE UNCHANGED <<saved, removed>>
      BY <1>14 DEF RemoveOldest, oldest
    <3> QED
      BY <1>0, <2>2, <3>1
  <2> QED
    BY <1>0, <1>14, <2>3 DEF RemoveOldest, Goes, start_vars, Resetting
<1>15. ASSUME NEW t \in Thread, ReopenLogFile(t) PROVE LogTypeOK'
  <2>1. FreeSlot \in Slot
    BY <1>0, <1>15, SlotForEveryOpen DEF LogInv, ReopenLogFile, Goes
  <2>2. stream' \in [Slot -> {"closed", "log", "index_r", "index_w"}]
    BY <1>0, <1>15, <2>1 DEF ReopenLogFile, Opened
  <2>3. log' \in (SUBSET Line) \cup {Missing}
    BY <1>0, <1>15 DEF ReopenLogFile
  <2> QED
    BY <1>0, <1>15, <2>1, <2>2, <2>3
    DEF ReopenLogFile, Goes, start_vars, history_vars
<1>16. ASSUME Ends, died' \in BOOLEAN PROVE LogTypeOK'
  BY <1>0, <1>16 DEF Ends, disk_vars
<1>17. CASE Restart
  BY <1>0, <1>17, LoggingAssumption
  DEF Restart, disk_vars, thread_vars, history_vars, LoggingAssumption
<1>18. CASE UNCHANGED vars
  BY <1>0, <1>18
  DEF vars, start_vars, disk_vars, thread_vars, history_vars
<1> QED
  BY <1>0, <1>1, <1>2, <1>3, <1>4, <1>5, <1>6, <1>7, <1>8, <1>9, <1>10,
     <1>11, <1>12, <1>13, <1>14, <1>15, <1>16, <1>17, <1>18
  DEF Next, LogPrintf, ResetLogFile, RuntimeError, Exit

LEMMA GoesOnAlone ==
    ASSUME LogInv, NEW t \in Thread, NEW from, NEW to, Goes(t, from, to),
           from # "idle", UNCHANGED phase
    PROVE  Alone'
BY DEF LogInv, LogTypeOK, Alone, Goes

LEMMA StepAlone ==
    ASSUME LogInv, [Next]_vars
    PROVE  Alone'
<1>0. LogTypeOK /\ Alone
  BY DEF LogInv
<1>1. CASE LogBegin
  BY <1>0, <1>1 DEF LogBegin, Goes, Alone, LogTypeOK
<1>2. CASE ReadConfig
  BY <1>0, <1>2 DEF ReadConfig, Alone, LogTypeOK, thread_vars
<1>3. ASSUME NEW t \in Thread, NEW flag \in Flag, Log(t, flag)
      PROVE  Alone'
  BY <1>3 DEF Log, Alone, start_vars
<1>4. ASSUME NEW t \in Thread, LogPrintf(t), \A flag \in Flag : ~Log(t, flag)
      PROVE  Alone'
  BY <1>4, GoesOnAlone
  DEF LogPrintf, TestLogFile, OpenLogFile, WriteLine, TestSize, start_vars
<1>5. ASSUME NEW t \in Thread, ResetLogFile(t) PROVE Alone'
  BY <1>5, GoesOnAlone
  DEF ResetLogFile, CloseLogFile, ReadIndex, RenameLog, CloseIndex, OpenIndex,
      WriteIndex, RemoveOldest, ReopenLogFile, start_vars
<1>6. ASSUME Ends PROVE Alone'
  BY <1>6 DEF Ends, Alone
<1>7. CASE Restart
  BY <1>0, <1>7 DEF Restart, Alone, thread_vars
<1>8. CASE UNCHANGED vars
  BY <1>0, <1>8 DEF vars, start_vars, thread_vars, Alone
<1> QED
  BY <1>1, <1>2, <1>3, <1>4, <1>5, <1>6, <1>7, <1>8
  DEF Next, RuntimeError, Exit

LEMMA StepLinesBounded ==
    ASSUME LogInv, [Next]_vars
    PROVE  LinesBounded'
<1>0. LogTypeOK /\ LinesBounded /\ Alone
  BY DEF LogInv
<1>a. /\ lines \in Nat /\ environment.lines \in Nat
      /\ Cardinality(Writing) \in Nat /\ Cardinality(Writing)' \in Nat
      /\ lines + Cardinality(Writing) <= environment.lines
  BY <1>0, Counts, CountsNext, LoggingAssumption
  DEF LogTypeOK, LoggingAssumption, LinesBounded
<1>b. SUFFICES lines' + Cardinality(Writing)' <= environment'.lines
  BY DEF LinesBounded
<1>1. CASE LogBegin
  <2>1. Main \in Thread
    BY LoggingAssumption DEF LoggingAssumption
  <2>2. Cardinality(Writing) = 0
    BY <1>0, <1>1, Counts DEF LogBegin, Alone
  <2>3. Goes(Main, "idle", "test")
    BY <1>1 DEF LogBegin
  <2>4. Cardinality(Writing)' = 1
    BY <1>0, <2>1, <2>2, <2>3, GoesCounts
  <2>5. lines < environment.lines /\ UNCHANGED <<lines, environment>>
    BY <1>1 DEF LogBegin, history_vars
  <2> QED
    BY <1>a, <2>4, <2>5
<1>2. CASE ReadConfig
  <2>1. UNCHANGED <<Writing, lines, environment>>
    BY <1>2 DEF ReadConfig, thread_vars, history_vars, Writing
  <2> QED
    BY <1>a, <2>1
<1>3. ASSUME NEW t \in Thread, NEW flag \in Flag, Log(t, flag)
      PROVE  lines' + Cardinality(Writing)' <= environment'.lines
  <2>1. Cardinality(Writing)' = Cardinality(Writing) + 1
    BY <1>0, <1>3, GoesCounts DEF Log
  <2>2. /\ lines + Cardinality(Writing) < environment.lines
        /\ UNCHANGED <<lines, environment>>
    BY <1>3 DEF Log, Writing, start_vars, history_vars
  <2> QED
    BY <1>a, <2>1, <2>2
<1>4. ASSUME NEW t \in Thread, TestLogFile(t) \/ OpenLogFile(t) \/ TestSize(t)
      PROVE  lines' + Cardinality(Writing)' <= environment'.lines
  <2>1. UNCHANGED <<Writing, lines, environment>>
    BY <1>0, <1>4, GoesCounts
    DEF TestLogFile, OpenLogFile, TestSize, start_vars, history_vars
  <2> QED
    BY <1>a, <2>1
<1>5. ASSUME NEW t \in Thread, WriteLine(t)
      PROVE  lines' + Cardinality(Writing)' <= environment'.lines
  <2>1. Cardinality(Writing) = Cardinality(Writing)' + 1
    BY <1>0, <1>5, GoesCounts DEF WriteLine
  <2>2. lines' = lines + 1 /\ UNCHANGED environment
    BY <1>5 DEF WriteLine, start_vars
  <2> QED
    BY <1>a, <2>1, <2>2
<1>6. ASSUME NEW t \in Thread, ResetLogFile(t)
      PROVE  lines' + Cardinality(Writing)' <= environment'.lines
  <2>1. UNCHANGED <<lines, environment>>
    BY <1>6
    DEF ResetLogFile, CloseLogFile, ReadIndex, RenameLog, CloseIndex,
        OpenIndex, WriteIndex, RemoveOldest, ReopenLogFile, start_vars,
        history_vars
  <2>2. UNCHANGED Writing
    BY <1>0, <1>6, GoesCounts
    DEF ResetLogFile, CloseLogFile, ReadIndex, RenameLog, CloseIndex,
        OpenIndex, WriteIndex, RemoveOldest, ReopenLogFile
  <2> QED
    BY <1>a, <2>1, <2>2
<1>7. ASSUME Ends
      PROVE  lines' + Cardinality(Writing)' <= environment'.lines
  <2>1. Cardinality(Writing)' = 0
    BY <1>7, CountsNext DEF Ends
  <2>2. UNCHANGED <<lines, environment>>
    BY <1>7 DEF Ends
  <2> QED
    BY <1>a, <2>1, <2>2
<1>8. CASE Restart
  <2>1. UNCHANGED <<Writing, lines, environment>>
    BY <1>8 DEF Restart, thread_vars, history_vars, Writing
  <2> QED
    BY <1>a, <2>1
<1>9. CASE UNCHANGED vars
  <2>1. UNCHANGED <<Writing, lines, environment>>
    BY <1>9 DEF vars, start_vars, thread_vars, history_vars, Writing
  <2> QED
    BY <1>a, <2>1
<1> QED
  BY <1>1, <1>2, <1>3, <1>4, <1>5, <1>6, <1>7, <1>8, <1>9
  DEF Next, LogPrintf, RuntimeError, Exit

LEMMA GoesOneResets ==
    ASSUME LogTypeOK, NEW t \in Thread, NEW from, NEW to, Goes(t, from, to),
           ~raced', to \in Resetting \ {"close"} => from \in Resetting
    PROVE  /\ OneResets'
           /\ \A u \in Thread \ {t} : pc[u] \notin Resetting
           /\ from \in Resetting => \A u \in Thread \ {t} : pc[u] = "idle"
BY DEF LogTypeOK, Goes, OneResets

LEMMA StepOneResets ==
    ASSUME LogInv, [Next]_vars, ~raced'
    PROVE  OneResets'
<1>0. LogTypeOK
  BY DEF LogInv
<1>a. Main \in Thread
  BY LoggingAssumption DEF LoggingAssumption
<1>1. CASE LogBegin
  BY <1>0, <1>a, <1>1, GoesOneResets DEF LogBegin, Resetting
<1>2. CASE UNCHANGED <<pc, raced>>
  BY <1>2 DEF LogInv, OneResets
<1>3. ASSUME NEW t \in Thread, LogPrintf(t) PROVE OneResets'
  BY <1>0, <1>3, GoesOneResets
  DEF LogPrintf, Log, TestLogFile, OpenLogFile, WriteLine, TestSize, Resetting
<1>4. ASSUME NEW t \in Thread, ResetLogFile(t) PROVE OneResets'
  BY <1>0, <1>4, GoesOneResets
  DEF ResetLogFile, CloseLogFile, ReadIndex, RenameLog, CloseIndex, OpenIndex,
      WriteIndex, RemoveOldest, ReopenLogFile, Resetting
<1>5. ASSUME Ends PROVE OneResets'
  BY <1>5 DEF Ends, OneResets, Resetting
<1> QED
  BY <1>1, <1>2, <1>3, <1>4, <1>5
  DEF Next, ReadConfig, Restart, RuntimeError, Exit, vars, thread_vars

LEMMA StepDied ==
    ASSUME LogInv, [Next]_vars
    PROVE  LoggingDoesNotEndProgram'
<1>1. ASSUME NEW t \in Thread, pc[t] \in {"write", "size", "close"}, Dangling
      PROVE  raced \/ refused
  <2> SUFFICES ASSUME ~raced, ~refused PROVE FALSE
    BY DEF LogInv, LogTypeOK
  <2>1. OneResets /\ StreamsQuiet
    BY DEF LogInv
  <2>2. Past = {}
    BY <1>1, <2>1 DEF OneResets, Past, Resetting
  <2>3. LogOpen
    BY <2>1, <2>2 DEF StreamsQuiet
  <2>4. LogTypeOK
    BY DEF LogInv
  <2> QED
    BY <1>1, <2>3, <2>4 DEF LogOpen, Dangling, LogTypeOK
<1>2. raced \/ refused => raced' \/ refused'
  BY DEF Next, vars, start_vars, thread_vars, history_vars, LogBegin, ReadConfig, LogPrintf,
         Log, TestLogFile, OpenLogFile, WriteLine, TestSize, ResetLogFile,
         CloseLogFile, ReadIndex, RenameLog, CloseIndex, OpenIndex, WriteIndex,
         RemoveOldest, ReopenLogFile, RuntimeError, Exit, Ends, Restart, Goes
<1>3. UNCHANGED died \/ \E t \in Thread : RuntimeError(t)
  BY DEF Next, vars, start_vars, LogBegin, ReadConfig, LogPrintf, Log,
         TestLogFile, OpenLogFile, WriteLine, TestSize, ResetLogFile,
         CloseLogFile, ReadIndex, RenameLog, CloseIndex, OpenIndex, WriteIndex,
         RemoveOldest, ReopenLogFile, Exit, Restart
<1> QED
  BY <1>1, <1>2, <1>3
  DEF LogInv, LoggingDoesNotEndProgram, RuntimeError, Ends

\* What a step needs to leave Numbered: f resets before the step, n after it,
\* and l lines.
LEMMA KeepsNumbered ==
    ASSUME LogInv, NEW n \in Nat, n = Cardinality(Full)',
           NEW f \in Nat, f = Cardinality(Full), NEW l \in Nat, l = lines',
           \/ n <= f /\ lines <= l
           \/ n = f + 1 /\ l = lines + 1,
           \/ index_file' \notin Nat
           \/ index_file' = index_file
           \/ \E t \in Thread : /\ pc[t] = "write_index"
                               /\ index_file' = index[t],
           \A t \in Thread :
               pc'[t] \in {"rename", "close_index", "open_index",
                           "write_index", "remove"} =>
                   \/ /\ pc[t] \in {"rename", "close_index", "open_index",
                                    "write_index", "remove"}
                      /\ index'[t] = index[t]
                   \/ index'[t] \in Index /\ index'[t] + n <= l
    PROVE  Numbered'
<1>1. lines \in Nat /\ Numbered
  BY DEF LogInv, LogTypeOK
<1>2. f <= lines
  BY <1>1 DEF Numbered
<1>3. n <= l
  BY <1>1, <1>2
<1>4. ASSUME NEW i \in Nat, i + f <= lines PROVE i + n <= l
  BY <1>1, <1>4
<1>5. ASSUME index_file' \in Nat PROVE index_file' + n <= l
  <2>1. CASE index_file' = index_file
    BY <1>1, <1>4, <1>5, <2>1 DEF Numbered
  <2>2. ASSUME NEW t \in Thread, pc[t] = "write_index", index_file' = index[t]
        PROVE  index_file' + n <= l
    BY <1>1, <1>4, <1>5, <2>2 DEF Numbered
  <2> QED
    BY <1>5, <2>1, <2>2
<1>6. ASSUME NEW t \in Thread,
             pc'[t] \in {"rename", "close_index", "open_index",
                         "write_index", "remove"}
      PROVE  index'[t] \in Index /\ index'[t] + n <= l
  <2>1. CASE /\ pc[t] \in {"rename", "close_index", "open_index",
                           "write_index", "remove"}
             /\ index'[t] = index[t]
    BY <1>1, <1>4, <2>1, Slots DEF Numbered
  <2> QED
    BY <1>6, <2>1
<1> QED
  BY <1>3, <1>5, <1>6 DEF Numbered

LEMMA StepNumbered ==
    ASSUME LogInv, [Next]_vars
    PROVE  Numbered'
<1>0. LogTypeOK
  BY DEF LogInv
<1> DEFINE f == Cardinality(Full)
           n == Cardinality(Full)'
           l == lines'
<1>a. f \in Nat /\ n \in Nat /\ lines \in Nat /\ l \in Nat
  BY <1>0, StepLogType, Counts, CountsNext DEF LogTypeOK
<1>b. f <= lines
  BY DEF LogInv, Numbered
<1>1. CASE UNCHANGED <<pc, index_file, index, lines>>
  <2>1. n = f
    BY <1>1 DEF Full
  <2> HIDE DEF f, n, l
  <2> QED
    BY <1>1, <1>a, <2>1, KeepsNumbered DEF f, n, l
<1>2. CASE LogBegin
  <2>1. Main \in Thread
    BY LoggingAssumption DEF LoggingAssumption
  <2>2. n = f
    BY <1>0, <1>2, <2>1, GoesCounts DEF LogBegin
  <2>3. UNCHANGED <<index_file, index, lines>>
    BY <1>2 DEF LogBegin, disk_vars, history_vars
  <2>4. \A t \in Thread : pc'[t] = "test" \/ pc'[t] = pc[t]
    BY <1>0, <1>2 DEF LogBegin, Goes, LogTypeOK
  <2> HIDE DEF f, n, l
  <2> QED
    BY <1>a, <2>2, <2>3, <2>4, KeepsNumbered DEF f, n, l
<1>3. ASSUME NEW t \in Thread, NEW from, NEW to, Goes(t, from, to),
             UNCHANGED <<index_file, index, lines>>,
             to \in {"size", "close", "read_index"} =>
                 from \in {"size", "close", "read_index"},
             to \in {"rename", "close_index", "open_index", "write_index",
                    "remove"} =>
                 from \in {"rename", "close_index", "open_index",
                          "write_index", "remove"}
      PROVE  Numbered'
  <2>1. n = f \/ f = n + 1
    BY <1>0, <1>3, GoesCounts
  <2>2. \A u \in Thread : u # t => pc'[u] = pc[u]
    BY <1>0, <1>3 DEF Goes, LogTypeOK
  <2>3. pc[t] = from /\ pc'[t] = to
    BY <1>0, <1>3 DEF Goes, LogTypeOK
  <2> HIDE DEF f, n, l
  <2>4. n <= f
    BY <1>a, <2>1
  <2>5. l = lines
    BY <1>3 DEF l
  <2>6. \A u \in Thread :
            pc'[u] \in {"rename", "close_index", "open_index", "write_index",
                        "remove"} =>
                pc[u] \in {"rename", "close_index", "open_index",
                           "write_index", "remove"}
    BY <1>3, <2>2, <2>3
  <2>7. index_file' = index_file /\ index' = index
    BY <1>3
  <2>8. lines <= l
    BY <1>a, <2>5
  <2> QED
    BY <1>a, <2>4, <2>6, <2>7, <2>8, KeepsNumbered DEF f, n, l
<1>4. ASSUME NEW t \in Thread, NEW flag \in Flag, Log(t, flag)
      PROVE  Numbered'
  BY <1>3, <1>4 DEF Log, disk_vars, history_vars
<1>5. ASSUME NEW t \in Thread, TestLogFile(t) PROVE Numbered'
  <2> DEFINE to == IF log_file = NULL THEN "open" ELSE "write"
  <2>1. to \in {"open", "write"} /\ Goes(t, "test", to)
    BY <1>5 DEF TestLogFile
  <2>2. UNCHANGED <<index_file, index, lines>>
    BY <1>5 DEF TestLogFile, disk_vars, history_vars
  <2> HIDE DEF to
  <2> QED
    BY <1>3, <2>1, <2>2
<1>6. ASSUME NEW t \in Thread, OpenLogFile(t) PROVE Numbered'
  BY <1>3, <1>6 DEF OpenLogFile, history_vars
<1>7. ASSUME NEW t \in Thread, WriteLine(t) PROVE Numbered'
  <2>1. n = f + 1
    BY <1>0, <1>7, GoesCounts DEF WriteLine
  <2>2. l = lines + 1
    BY <1>7 DEF WriteLine
  <2>3. UNCHANGED index
    BY <1>7 DEF WriteLine
  <2>4. index_file' \notin Nat \/ index_file' = index_file
    BY <1>7, LoggingAssumption DEF WriteLine, LoggingAssumption
  <2>5. \A u \in Thread : pc'[u] = "size" \/ pc'[u] = pc[u]
    BY <1>0, <1>7 DEF WriteLine, Goes, LogTypeOK
  <2> HIDE DEF f, n, l
  <2> QED
    BY <1>a, <2>1, <2>2, <2>3, <2>4, <2>5, KeepsNumbered DEF f, n, l
<1>8. ASSUME NEW t \in Thread, TestSize(t) PROVE Numbered'
  <2> DEFINE to == IF /\ stream[log_file] = "log"
                      /\ Cardinality(log) > MAX_LOG_SIZE
                     THEN "close" ELSE "idle"
  <2>1. to \in {"close", "idle"} /\ Goes(t, "size", to)
    BY <1>8 DEF TestSize
  <2>2. UNCHANGED <<index_file, index, lines>>
    BY <1>8 DEF TestSize, disk_vars, history_vars
  <2> HIDE DEF to
  <2> QED
    BY <1>3, <2>1, <2>2
<1>9. ASSUME NEW t \in Thread,
             \/ CloseLogFile(t) \/ RenameLog(t) \/ CloseIndex(t)
             \/ RemoveOldest(t) \/ ReopenLogFile(t)
      PROVE  Numbered'
  BY <1>3, <1>9
  DEF CloseLogFile, RenameLog, CloseIndex, RemoveOldest, ReopenLogFile,
      disk_vars, history_vars
<1>10. ASSUME NEW t \in Thread, ReadIndex(t) PROVE Numbered'
  <2>1. f = n + 1
    BY <1>0, <1>10, GoesCounts DEF ReadIndex
  <2>2. UNCHANGED <<index_file, lines>>
    BY <1>10 DEF ReadIndex, disk_vars, history_vars
  <2>3. index_file \in Nat => index_file + f <= lines
    BY DEF LogInv, Numbered
  <2>4. \/ index'[t] = 1
        \/ index_file \in Nat /\ index'[t] = index_file + 1
    BY <1>0, <1>10, Slots DEF ReadIndex, LogTypeOK
  <2>5. pc'[t] = "rename" /\ \A u \in Thread : u # t => pc'[u] = pc[u]
    BY <1>0, <1>10 DEF ReadIndex, Goes, LogTypeOK
  <2>6. \A u \in Thread : u # t => index'[u] = index[u]
    BY <1>0, <1>10 DEF ReadIndex, LogTypeOK
  <2>7. lines <= MaxLines
    BY <1>0, LoggingAssumption DEF LogTypeOK, LoggingAssumption
  <2> HIDE DEF f, n
  <2>8. index'[t] \in Index /\ index'[t] + n <= lines
    BY <1>a, <1>b, <2>1, <2>3, <2>4, <2>7, LoggingAssumption
    DEF Index, LoggingAssumption
  <2>9. l = lines
    BY <2>2 DEF l
  <2> HIDE DEF l
  <2>10. n <= f /\ lines <= l
    BY <1>a, <2>1, <2>9
  <2> QED
    BY <1>a, <2>2, <2>5, <2>6, <2>8, <2>9, <2>10, KeepsNumbered DEF f, n, l
<1>11. ASSUME NEW t \in Thread, OpenIndex(t) PROVE Numbered'
  <2> DEFINE to == IF IndexOpensToWrite THEN "write_index" ELSE "remove"
  <2>1. /\ to \in {"write_index", "remove"} /\ pc[t] = "open_index"
        /\ Goes(t, "open_index", to)
    BY <1>11 DEF OpenIndex, Goes
  <2>2. UNCHANGED <<index, lines>>
    BY <1>11 DEF OpenIndex, history_vars
  <2>3. index_file' \notin Nat \/ index_file' = index_file
    BY <1>11, LoggingAssumption DEF OpenIndex, LoggingAssumption
  <2> HIDE DEF to
  <2>4. n = f
    BY <1>0, <2>1, GoesCounts
  <2>5. \A u \in Thread : u # t => pc'[u] = pc[u]
    BY <1>0, <2>1 DEF Goes, LogTypeOK
  <2>6. \A u \in Thread :
            pc'[u] \in {"rename", "close_index", "open_index", "write_index",
                        "remove"} =>
                pc[u] \in {"rename", "close_index", "open_index",
                           "write_index", "remove"}
    BY <2>1, <2>5
  <2>7. l = lines
    BY <2>2 DEF l
  <2> HIDE DEF f, n, l
  <2>8. n <= f /\ lines <= l
    BY <1>a, <2>4, <2>7
  <2> QED
    BY <1>a, <2>2, <2>3, <2>6, <2>8, KeepsNumbered DEF f, n, l
<1>12. ASSUME NEW t \in Thread, WriteIndex(t) PROVE Numbered'
  <2>1. n = f
    BY <1>0, <1>12, GoesCounts DEF WriteIndex
  <2>2. UNCHANGED <<index, lines>>
    BY <1>12 DEF WriteIndex, history_vars
  <2>3. pc[t] = "write_index" /\ index_file' \in {index_file, index[t]}
    BY <1>12 DEF WriteIndex, Goes
  <2>4. \A u \in Thread :
            pc'[u] \in {"rename", "close_index", "open_index", "write_index",
                        "remove"} =>
                pc[u] \in {"rename", "close_index", "open_index",
                           "write_index", "remove"}
    BY <1>0, <1>12 DEF WriteIndex, Goes, LogTypeOK
  <2>5. l = lines
    BY <2>2 DEF l
  <2> HIDE DEF f, n, l
  <2>6. n <= f /\ lines <= l
    BY <1>a, <2>1, <2>5
  <2> QED
    BY <1>a, <2>2, <2>3, <2>4, <2>6, KeepsNumbered DEF f, n, l
<1>13. ASSUME Ends PROVE Numbered'
  <2>1. n = 0 /\ \A u \in Thread : pc'[u] = "idle"
    BY <1>13, CountsNext DEF Ends
  <2>2. UNCHANGED <<index_file, lines>>
    BY <1>13 DEF Ends, disk_vars
  <2>3. l = lines
    BY <2>2 DEF l
  <2> HIDE DEF f, n, l
  <2>4. n <= f /\ lines <= l
    BY <1>a, <2>1, <2>3
  <2> QED
    BY <1>a, <2>1, <2>2, <2>4, KeepsNumbered DEF f, n, l
<1>14. CASE ReadConfig \/ Restart \/ UNCHANGED vars
  BY <1>1, <1>14
  DEF ReadConfig, Restart, vars, disk_vars, thread_vars, history_vars
<1> QED
  BY <1>2, <1>4, <1>5, <1>6, <1>7, <1>8, <1>9, <1>10, <1>11, <1>12, <1>13,
     <1>14
  DEF Next, LogPrintf, ResetLogFile, RuntimeError, Exit

LEMMA StepStreamsOwned ==
    ASSUME LogInv, [Next]_vars
    PROVE  StreamsOwned'
<1> USE DEF StreamsOwned
<1>0. LogTypeOK /\ LogTypeOK' /\ StreamsOwned
  BY StepLogType DEF LogInv
<1>a. NULL \notin Slot
  BY Slots
<1>b. \A S \in SUBSET Line : S # Missing
  BY LoggingAssumption DEF LoggingAssumption, Line
<1>1. CASE UNCHANGED <<stream, log, pc, findex>>
  BY <1>0, <1>1
\* The step of a thread that opens and closes nothing.
<1>2. ASSUME NEW t \in Thread, NEW from, NEW to, Goes(t, from, to),
             UNCHANGED <<stream, log, findex>>,
             from \notin {"rename", "close_index", "write_index"},
             to # "write_index"
      PROVE  StreamsOwned'
  <2>1. pc[t] = from /\ pc'[t] = to
        /\ \A u \in Thread : u # t => pc'[u] = pc[u]
    BY <1>0, <1>2 DEF Goes, LogTypeOK
  <2> QED
    BY <1>0, <1>2, <2>1
\* All streams are closed.
<1>3. ASSUME \A s \in Slot : stream'[s] = "closed",
             \A t \in Thread : pc'[t] # "write_index"
      PROVE  StreamsOwned'
  BY <1>3
<1>4. CASE LogBegin
  <2>1. Main \in Thread
    BY LoggingAssumption DEF LoggingAssumption
  <2> QED
    BY <1>2, <1>4, <2>1 DEF LogBegin, disk_vars
<1>5. CASE ReadConfig
  <2>1. CASE phase' = "ended"
    <3>1. \A t \in Thread : pc'[t] = "idle"
      <4>1. phase = "config" /\ pc[Main] = "idle" /\ UNCHANGED pc
        BY <1>5 DEF ReadConfig, thread_vars
      <4> QED
        BY <4>1 DEF LogInv, Alone
    <3> QED
      BY <1>3, <1>5, <2>1, <3>1 DEF ReadConfig
  <2>2. CASE phase' # "ended"
    BY <1>1, <1>5, <2>2 DEF ReadConfig, disk_vars, thread_vars
  <2> QED
    BY <2>1, <2>2
<1>6. ASSUME NEW t \in Thread, NEW flag \in Flag, Log(t, flag)
      PROVE  StreamsOwned'
  BY <1>2, <1>6 DEF Log, disk_vars
<1>7. ASSUME NEW t \in Thread, TestLogFile(t) PROVE StreamsOwned'
  <2>1. PICK to \in {"open", "write"} : Goes(t, "test", to)
    BY <1>7 DEF TestLogFile
  <2>2. UNCHANGED <<stream, log, findex>>
    BY <1>7 DEF TestLogFile, disk_vars
  <2> QED
    BY <1>2, <2>1, <2>2
\* A thread opens the log.
<1>8. ASSUME NEW t \in Thread, OpenLogFile(t) \/ ReopenLogFile(t)
      PROVE  StreamsOwned'
  <2>1. pc[t] \in {"open", "reopen"} /\ pc'[t] \in {"write", "idle"}
        /\ \A u \in Thread : u # t => pc'[u] = pc[u]
    BY <1>0, <1>8 DEF OpenLogFile, ReopenLogFile, Goes, LogTypeOK
  <2>2. UNCHANGED findex
    BY <1>8 DEF OpenLogFile, ReopenLogFile
  <2>3. CASE LogOpens /\ stream' = Opened("log") /\ log' # Missing
    <3>1. FreeSlot \in Slot /\ stream[FreeSlot] = "closed"
      BY <1>0, <2>1, SlotForEveryOpen
    <3>2. \A s \in Slot : stream[s] # "log"
      BY <2>3 DEF LogOpens, Open
    <3>3. \A s \in Slot :
              stream'[s] = IF s = FreeSlot THEN "log" ELSE stream[s]
      BY <1>0, <2>3, <3>1 DEF LogTypeOK, Opened
    <3> QED
      BY <1>0, <2>1, <2>2, <2>3, <3>2, <3>3
  <2>4. CASE UNCHANGED <<stream, log>>
    BY <1>0, <2>1, <2>2, <2>4
  <2>5. {} # Missing
    BY <1>b
  <2> QED
    BY <1>8, <2>3, <2>4, <2>5 DEF OpenLogFile, ReopenLogFile
<1>9. ASSUME NEW t \in Thread, WriteLine(t) PROVE StreamsOwned'
  <2>1. pc[t] = "write" /\ pc'[t] = "size"
        /\ \A u \in Thread : u # t => pc'[u] = pc[u]
    BY <1>0, <1>9 DEF WriteLine, Goes, LogTypeOK
  <2>2. UNCHANGED <<stream, findex>>
    BY <1>9 DEF WriteLine
  <2>3. ASSUME NEW s \in Slot, stream[s] = "log" PROVE log' # Missing
    <3>1. log \in SUBSET Line
      BY <1>0, <2>3 DEF LogTypeOK
    <3>2. log' = log \/ log' = log \cup {lines'}
      BY <1>9 DEF WriteLine
    <3>3. log' = log \cup {lines'} => log' # Missing
      <4>1. lines' >= 1 /\ lines' \in 0 .. MaxLines
        BY <1>0, <1>9 DEF WriteLine, LogTypeOK
      <4>2. lines' \in Line
        BY <4>1, LoggingAssumption DEF Line, LoggingAssumption
      <4> QED
        BY <1>b, <3>1, <4>2
    <3> QED
      BY <1>b, <3>1, <3>2, <3>3
  <2> QED
    BY <1>0, <2>1, <2>2, <2>3
<1>10. ASSUME NEW t \in Thread, TestSize(t) PROVE StreamsOwned'
  <2>1. PICK to \in {"close", "idle"} : Goes(t, "size", to)
    BY <1>10 DEF TestSize
  <2>2. UNCHANGED <<stream, log, findex>>
    BY <1>10 DEF TestSize, disk_vars
  <2> QED
    BY <1>2, <2>1, <2>2
<1>11. ASSUME NEW t \in Thread, CloseLogFile(t) PROVE StreamsOwned'
  <2>1. pc[t] = "close" /\ pc'[t] = "read_index"
        /\ \A u \in Thread : u # t => pc'[u] = pc[u]
    BY <1>0, <1>11 DEF CloseLogFile, Goes, LogTypeOK
  <2>2. \A s \in Slot : stream'[s] \in {"closed", stream[s]}
    BY <1>0, <1>11 DEF CloseLogFile, Closed, LogTypeOK
  <2>3. UNCHANGED <<log, findex>>
    BY <1>11 DEF CloseLogFile, disk_vars
  <2> QED
    BY <1>0, <2>1, <2>2, <2>3
<1>12. ASSUME NEW t \in Thread, ReadIndex(t) PROVE StreamsOwned'
  <2>1. pc[t] = "read_index" /\ pc'[t] = "rename"
        /\ \A u \in Thread : u # t => pc'[u] = pc[u]
    BY <1>0, <1>12 DEF ReadIndex, Goes, LogTypeOK
  <2>2. FreeSlot \in Slot /\ stream[FreeSlot] = "closed"
    BY <1>0, <2>1, SlotForEveryOpen
  <2>3. UNCHANGED log /\ \A u \in Thread : u # t => findex'[u] = findex[u]
    BY <1>0, <1>12 DEF ReadIndex, disk_vars, LogTypeOK
  <2>4. CASE IndexOpensToRead
    <3>1. findex'[t] = FreeSlot
          /\ \A s \in Slot :
                 stream'[s] = IF s = FreeSlot THEN "index_r" ELSE stream[s]
      BY <1>0, <1>12, <2>2, <2>4 DEF ReadIndex, Opened, LogTypeOK
    <3> QED
      BY <1>0, <2>1, <2>3, <3>1
  <2>5. CASE ~IndexOpensToRead
    <3>1. UNCHANGED stream
      BY <1>12, <2>5 DEF ReadIndex
    <3> QED
      BY <1>0, <2>1, <2>3, <3>1
  <2> QED
    BY <2>4, <2>5
<1>13. ASSUME NEW t \in Thread, RenameLog(t) PROVE StreamsOwned'
  <2>1. pc[t] = "rename" /\ pc'[t] = "close_index"
        /\ \A u \in Thread : u # t => pc'[u] = pc[u]
    BY <1>0, <1>13 DEF RenameLog, Goes, LogTypeOK
  <2>2. UNCHANGED <<stream, findex>>
    BY <1>13 DEF RenameLog
  <2>3. \A s \in Slot : stream[s] = "log" => log' = log
    BY <1>13 DEF RenameLog, Open
  <2> QED
    BY <1>0, <2>1, <2>2, <2>3
\* A thread closes its stream of the index file.
<1>14. ASSUME NEW t \in Thread, CloseIndex(t) \/ WriteIndex(t)
       PROVE  StreamsOwned'
  <2>1. pc'[t] \in {"open_index", "remove"}
        /\ \A u \in Thread : u # t => pc'[u] = pc[u]
    BY <1>0, <1>14 DEF CloseIndex, WriteIndex, Goes, LogTypeOK
  <2>2. UNCHANGED <<log, findex>>
    BY <1>14 DEF CloseIndex, WriteIndex, disk_vars
  <2>3. \A s \in Slot :
            stream'[s] = IF s = findex[t] THEN "closed" ELSE stream[s]
    BY <1>0, <1>14, <1>a DEF CloseIndex, WriteIndex, Closed, LogTypeOK
  <2> QED
    BY <1>0, <2>1, <2>2, <2>3
<1>15. ASSUME NEW t \in Thread, OpenIndex(t) PROVE StreamsOwned'
  <2>1. /\ pc[t] = "open_index"
        /\ pc'[t] = IF IndexOpensToWrite THEN "write_index" ELSE "remove"
        /\ \A u \in Thread : u # t => pc'[u] = pc[u]
    BY <1>0, <1>15 DEF OpenIndex, Goes, LogTypeOK
  <2>2. FreeSlot \in Slot /\ stream[FreeSlot] = "closed"
    BY <1>0, <2>1, SlotForEveryOpen
  <2>3. UNCHANGED log
    BY <1>15 DEF OpenIndex
  <2>4. CASE IndexOpensToWrite
    <3>1. findex'[t] = FreeSlot
          /\ \A s \in Slot :
                 stream'[s] = IF s = FreeSlot THEN "index_w" ELSE stream[s]
      BY <1>0, <1>15, <2>2, <2>4 DEF OpenIndex, Opened, LogTypeOK
    <3>2. \A u \in Thread : u # t => findex'[u] = findex[u]
      BY <1>0, <1>15, <2>4 DEF OpenIndex, LogTypeOK
    <3> QED
      BY <1>0, <2>1, <2>2, <2>3, <2>4, <3>1, <3>2
  <2>5. CASE ~IndexOpensToWrite
    <3>1. UNCHANGED <<stream, findex>>
      BY <1>15, <2>5 DEF OpenIndex
    <3> QED
      BY <1>0, <2>1, <2>3, <2>5, <3>1
  <2> QED
    BY <2>4, <2>5
<1>16. ASSUME NEW t \in Thread, RemoveOldest(t) PROVE StreamsOwned'
  BY <1>2, <1>16 DEF RemoveOldest
<1>17. ASSUME Ends PROVE StreamsOwned'
  BY <1>3, <1>17 DEF Ends
<1>18. CASE Restart \/ UNCHANGED vars
  BY <1>1, <1>18 DEF Restart, vars, disk_vars, thread_vars
<1> QED
  BY <1>4, <1>5, <1>6, <1>7, <1>8, <1>9, <1>10, <1>11, <1>12, <1>13, <1>14,
     <1>15, <1>16, <1>17, <1>18
  DEF Next, LogPrintf, ResetLogFile, RuntimeError, Exit

\* A thread that logs without a race finds no other one in a reset, and one in
\* a reset is alone.
LEMMA GoesQuiet ==
    ASSUME LogInv, NEW t \in Thread, NEW from, NEW to, Goes(t, from, to),
           ~raced'
    PROVE  /\ OneResets /\ StreamsQuiet /\ pc[t] = from
           /\ \A u \in Thread : pc'[u] = IF u = t THEN to ELSE pc[u]
           /\ \A u \in Thread \ {t} : pc[u] \notin Resetting
           /\ from \in Resetting => \A u \in Thread \ {t} : pc[u] = "idle"
           /\ from \notin Resetting \ {"close"} => Past = {} /\ LogOpen
           /\ from \in Resetting \ {"close"} => Past = {t} /\ LogClosed(t)
           /\ to \notin Resetting \ {"close"} => Past' = {}
           /\ to \in Resetting \ {"close"} => Past' = {t}
<1>1. /\ OneResets /\ StreamsQuiet /\ pc[t] = from
      /\ \A u \in Thread : pc'[u] = IF u = t THEN to ELSE pc[u]
      /\ \A u \in Thread \ {t} : pc[u] \notin Resetting
      /\ from \in Resetting => \A u \in Thread \ {t} : pc[u] = "idle"
  BY DEF LogInv, LogTypeOK, Goes
<1>2. /\ from \notin Resetting \ {"close"} => Past = {}
      /\ from \in Resetting \ {"close"} => Past = {t}
      /\ to \notin Resetting \ {"close"} => Past' = {}
      /\ to \in Resetting \ {"close"} => Past' = {t}
  BY <1>1 DEF Past
<1> QED
  BY <1>1, <1>2 DEF StreamsQuiet

LEMMA StepStreamsQuiet ==
    ASSUME LogInv, [Next]_vars, ~raced'
    PROVE  StreamsQuiet'
<1>0. LogTypeOK /\ Alone /\ Alone'
  BY StepAlone DEF LogInv
<1>a. Main \in Thread /\ NULL \notin Slot
  BY LoggingAssumption, Slots DEF LoggingAssumption
<1>b. ASSUME Past' = {}, LogOpen' PROVE StreamsQuiet'
  BY <1>b DEF StreamsQuiet
<1>c. ASSUME NEW t \in Thread, Past' = {t}, LogClosed(t)' PROVE StreamsQuiet'
  BY <1>c DEF StreamsQuiet
<1>1. CASE LogBegin
  <2>1. Past' = {}
    BY <1>a, <1>1, GoesQuiet DEF LogBegin, Resetting
  <2>2. LogOpen'
    BY <1>0, <1>a, <1>1
    DEF LogBegin, Goes, Alone, LogOpen, disk_vars, LogTypeOK
  <2> QED
    BY <1>b, <2>1, <2>2
<1>2. CASE ReadConfig
  <2>1. \A t \in Thread : pc[t] = "idle"
    BY <1>0, <1>2 DEF ReadConfig, Alone
  <2>2. Past = {} /\ Past' = {}
    BY <1>2, <2>1 DEF ReadConfig, thread_vars, Past, Resetting
  <2>3. LogOpen /\ phase = "config" /\ pc[Main] = "idle"
    BY <1>2, <2>2 DEF LogInv, StreamsQuiet, ReadConfig, thread_vars
  <2>4. LogOpen'
    BY <1>2, <2>1, <2>3 DEF ReadConfig, LogOpen, thread_vars
  <2> QED
    BY <1>b, <2>2, <2>4
<1>3. ASSUME NEW t \in Thread, NEW flag \in Flag, Log(t, flag)
      PROVE  StreamsQuiet'
  <2>1. LogOpen /\ Past' = {}
        /\ \A u \in Thread : pc'[u] = IF u = t THEN "test" ELSE pc[u]
    BY <1>3, GoesQuiet DEF Log, Resetting
  <2>2. LogOpen'
    BY <1>3, <2>1 DEF Log, LogOpen, history_vars
  <2> QED
    BY <1>b, <2>1, <2>2
<1>4. ASSUME NEW t \in Thread, TestLogFile(t) PROVE StreamsQuiet'
  <2>1. PICK to : /\ to = IF log_file = NULL THEN "open" ELSE "write"
                  /\ Goes(t, "test", to)
    BY <1>4 DEF TestLogFile
  <2>2. LogOpen /\ Past' = {} /\ pc[t] = "test"
        /\ \A u \in Thread : pc'[u] = IF u = t THEN to ELSE pc[u]
    BY <2>1, GoesQuiet DEF Resetting
  <2>3. LogOpen'
    BY <1>a, <1>4, <2>1, <2>2 DEF TestLogFile, LogOpen, history_vars
  <2> QED
    BY <1>b, <2>2, <2>3
<1>5. ASSUME NEW t \in Thread, OpenLogFile(t) PROVE StreamsQuiet'
  <2>1. LogOpen /\ Past' = {} /\ pc[t] = "open"
        /\ \A u \in Thread : pc'[u] = IF u = t THEN "write" ELSE pc[u]
    BY <1>5, GoesQuiet DEF OpenLogFile, Resetting
  <2>2. log_file = NULL /\ \A s \in Slot : stream[s] = "closed"
    BY <2>1 DEF LogOpen
  <2>3. \A u \in Thread \ {t} : pc[u] # "open"
    BY <1>5 DEF OpenLogFile, Goes
  <2>4. FreeSlot \in Slot
    BY <1>0, <2>1, SlotForEveryOpen DEF LogInv
  <2>5. LogOpens
    BY <2>2 DEF LogOpens, Open
  <2>6. CASE log_file' = FreeSlot /\ stream' = Opened("log")
    <3>1. \A s \in Slot :
              stream'[s] = IF s = FreeSlot THEN "log" ELSE "closed"
      BY <1>0, <2>2, <2>4, <2>6 DEF Opened, LogTypeOK
    <3>2. LogOpen'
      BY <1>a, <2>1, <2>3, <2>4, <2>6, <3>1 DEF LogOpen
    <3> QED
      BY <1>b, <2>1, <3>2
  <2>7. CASE log_file' = NULL /\ UNCHANGED stream /\ refused'
    <3>1. \A u \in Thread : \/ pc'[u] \in {"idle", "test", "open"}
                            \/ pc'[u] = "write"
      BY <2>1, <2>2 DEF LogOpen
    <3>2. LogOpen'
      BY <2>2, <2>7, <3>1 DEF LogOpen
    <3> QED
      BY <1>b, <2>1, <3>2
  <2> QED
    BY <1>5, <2>5, <2>6, <2>7 DEF OpenLogFile
<1>6. ASSUME NEW t \in Thread, WriteLine(t) \/ TestSize(t)
      PROVE  StreamsQuiet'
  <2>1. PICK from, to : /\ from \in {"write", "size"}
                        /\ to \in {"size", "close", "idle"}
                        /\ Goes(t, from, to)
    BY <1>6 DEF WriteLine, TestSize
  <2>2. LogOpen /\ Past' = {}
        /\ \A u \in Thread : pc'[u] = IF u = t THEN to ELSE pc[u]
    BY <2>1, GoesQuiet DEF Resetting
  <2>3. log_file # NULL /\ UNCHANGED <<stream, log_file>>
    BY <1>6 DEF WriteLine, TestSize
  <2>4. LogOpen'
    BY <2>1, <2>2, <2>3 DEF LogOpen
  <2> QED
    BY <1>b, <2>2, <2>4
<1>7. ASSUME NEW t \in Thread, CloseLogFile(t) PROVE StreamsQuiet'
  <2>1. LogOpen /\ Past' = {t} /\ pc'[t] = "read_index"
    BY <1>7, GoesQuiet DEF CloseLogFile, Resetting
  <2>2. log_file # NULL /\ UNCHANGED log_file
    BY <1>7 DEF CloseLogFile
  <2>3. \A s \in Slot : stream'[s] = "closed"
    BY <1>0, <1>7, <2>1, <2>2 DEF CloseLogFile, Closed, LogOpen, LogTypeOK
  <2>4. LogClosed(t)'
    BY <2>1, <2>2, <2>3 DEF LogClosed
  <2> QED
    BY <1>c, <2>1, <2>4
<1>8. ASSUME NEW t \in Thread, ReadIndex(t) PROVE StreamsQuiet'
  <2>1. /\ LogClosed(t) /\ Past' = {t}
        /\ pc[t] = "read_index" /\ pc'[t] = "rename"
    BY <1>8, GoesQuiet DEF ReadIndex, Resetting
  <2>2. FreeSlot \in Slot
    BY <1>0, <2>1, SlotForEveryOpen DEF LogInv
  <2>3. log_file # NULL /\ UNCHANGED log_file
        /\ \A s \in Slot : stream[s] = "closed"
    BY <1>8, <2>1 DEF ReadIndex, LogClosed
  <2>4. \/ findex'[t] = NULL /\ UNCHANGED stream
        \/ /\ findex'[t] = FreeSlot
           /\ \A s \in Slot :
                  stream'[s] = IF s = FreeSlot THEN "index_r" ELSE stream[s]
    BY <1>0, <1>8, <2>2 DEF ReadIndex, Opened, LogTypeOK
  <2>5. LogClosed(t)'
    BY <1>a, <2>1, <2>3, <2>4 DEF LogClosed
  <2> QED
    BY <1>c, <2>1, <2>5
<1>9. ASSUME NEW t \in Thread, RenameLog(t) PROVE StreamsQuiet'
  <2>1. /\ LogClosed(t) /\ Past' = {t}
        /\ pc[t] = "rename" /\ pc'[t] = "close_index"
    BY <1>9, GoesQuiet DEF RenameLog, Resetting
  <2>2. LogClosed(t)'
    BY <1>9, <2>1 DEF RenameLog, LogClosed
  <2> QED
    BY <1>c, <2>1, <2>2
<1>10. ASSUME NEW t \in Thread, CloseIndex(t) \/ WriteIndex(t)
       PROVE  StreamsQuiet'
  <2>1. PICK from, to : /\ from \in {"close_index", "write_index"}
                        /\ to \in {"open_index", "remove"}
                        /\ Goes(t, from, to)
    BY <1>10 DEF CloseIndex, WriteIndex
  <2>2. /\ LogClosed(t) /\ Past' = {t} /\ pc[t] = from /\ pc'[t] = to
    BY <2>1, GoesQuiet DEF Resetting
  <2>3. /\ UNCHANGED <<log_file, findex>>
        /\ \A s \in Slot :
               stream'[s] = IF s = findex[t] THEN "closed" ELSE stream[s]
    BY <1>0, <1>10, <1>a DEF CloseIndex, WriteIndex, Closed, LogTypeOK
  <2>4. \A s \in Slot : stream'[s] = "closed"
    BY <2>1, <2>2, <2>3 DEF LogClosed
  <2>5. LogClosed(t)'
    BY <2>1, <2>2, <2>3, <2>4 DEF LogClosed
  <2> QED
    BY <1>c, <2>2, <2>5
<1>11. ASSUME NEW t \in Thread, OpenIndex(t) PROVE StreamsQuiet'
  <2>1. PICK to : /\ to = IF IndexOpensToWrite THEN "write_index" ELSE "remove"
                  /\ Goes(t, "open_index", to)
    BY <1>11 DEF OpenIndex
  <2>2. /\ LogClosed(t) /\ Past' = {t}
        /\ pc[t] = "open_index" /\ pc'[t] = to
    BY <2>1, GoesQuiet DEF Resetting
  <2>3. FreeSlot \in Slot
    BY <1>0, <2>2, SlotForEveryOpen DEF LogInv
  <2>4. log_file # NULL /\ UNCHANGED log_file
        /\ \A s \in Slot : stream[s] = "closed"
    BY <1>11, <2>2 DEF OpenIndex, LogClosed
  <2>5. IndexOpensToWrite
    BY <2>4 DEF IndexOpensToWrite, Open
  <2>6. /\ findex'[t] = FreeSlot
        /\ \A s \in Slot :
               stream'[s] = IF s = FreeSlot THEN "index_w" ELSE stream[s]
    BY <1>0, <1>11, <2>3, <2>5 DEF OpenIndex, Opened, LogTypeOK
  <2>7. LogClosed(t)'
    BY <2>1, <2>2, <2>4, <2>5, <2>6 DEF LogClosed
  <2> QED
    BY <1>c, <2>2, <2>7
<1>12. ASSUME NEW t \in Thread, RemoveOldest(t) PROVE StreamsQuiet'
  <2>1. /\ LogClosed(t) /\ Past' = {t}
        /\ pc[t] = "remove" /\ pc'[t] = "reopen"
    BY <1>12, GoesQuiet DEF RemoveOldest, Resetting
  <2>2. LogClosed(t)'
    BY <1>12, <2>1 DEF RemoveOldest, LogClosed
  <2> QED
    BY <1>c, <2>1, <2>2
<1>13. ASSUME NEW t \in Thread, ReopenLogFile(t) PROVE StreamsQuiet'
  <2>1. /\ LogClosed(t) /\ Past' = {} /\ pc[t] = "reopen"
        /\ \A u \in Thread : pc'[u] = "idle"
    BY <1>13, GoesQuiet DEF ReopenLogFile, Resetting
  <2>2. FreeSlot \in Slot
    BY <1>0, <2>1, SlotForEveryOpen DEF LogInv
  <2>3. \A s \in Slot : stream[s] = "closed"
    BY <2>1 DEF LogClosed
  <2>4. LogOpens
    BY <2>3 DEF LogOpens, Open
  <2>5. ASSUME log_file' = FreeSlot, stream' = Opened("log") PROVE LogOpen'
    <3>1. \A s \in Slot :
              stream'[s] = IF s = FreeSlot THEN "log" ELSE "closed"
      BY <1>0, <2>2, <2>3, <2>5 DEF Opened, LogTypeOK
    <3> QED
      BY <1>a, <2>1, <2>2, <2>5, <3>1 DEF LogOpen
  <2>6. ASSUME log_file' = NULL, UNCHANGED stream PROVE LogOpen'
    BY <2>1, <2>3, <2>6 DEF LogOpen
  <2>7. LogOpen'
    BY <1>13, <2>4, <2>5, <2>6 DEF ReopenLogFile
  <2> QED
    BY <1>b, <2>1, <2>7
<1>14. ASSUME Ends PROVE StreamsQuiet'
  <2>1. Past' = {}
    BY <1>14 DEF Ends, Past, Resetting
  <2>2. LogOpen'
    BY <1>14 DEF Ends, LogOpen
  <2> QED
    BY <1>b, <2>1, <2>2
<1>15. CASE Restart
  <2>1. \A t \in Thread : pc'[t] = "idle"
    BY <1>0, <1>15 DEF Restart, Alone
  <2>2. LogOpen'
    BY <1>0, <1>15, <2>1
    DEF Restart, Alone, LogOpen, thread_vars
  <2>3. Past' = {}
    BY <2>1 DEF Past, Resetting
  <2> QED
    BY <1>b, <2>2, <2>3
<1>16. CASE UNCHANGED vars
  <2>1. StreamsQuiet
    BY <1>16 DEF LogInv, vars, thread_vars
  <2> QED
    BY <1>16, <2>1
    DEF StreamsQuiet, Past, LogOpen, LogClosed, vars, thread_vars, history_vars
<1> QED
  BY <1>1, <1>2, <1>3, <1>4, <1>5, <1>6, <1>7, <1>8, <1>9, <1>10, <1>11,
     <1>12, <1>13, <1>14, <1>15, <1>16
  DEF Next, LogPrintf, ResetLogFile, RuntimeError, Exit

LEMMA StepIndexQuiet ==
    ASSUME LogInv, [Next]_vars, ~raced', ~torn'
    PROVE  IndexQuiet'
<1>0. LogTypeOK /\ Alone /\ LogInv
  BY DEF LogInv
<1>a. Main \in Thread /\ NULL \notin Slot
  BY LoggingAssumption, Slots DEF LoggingAssumption
<1>b. /\ Index \subseteq Nat
      /\ MAX_NO_LOG_FILES \in Nat
      /\ Missing \notin Nat /\ Empty \notin Nat /\ Unreadable \notin Nat
      /\ Empty # Missing /\ Unreadable # Missing
  BY LoggingAssumption, Slots DEF LoggingAssumption
<1>c. LastIndex \in Nat
  BY DEF LastIndex
<1>d. ~raced /\ ~torn => IndexQuiet
  BY DEF LogInv
\* A step in which no log is reset, before the step or after it.
<1>1. ASSUME ~raced, ~torn, UNCHANGED <<saved, index_file>>,
             \A t \in Thread : pc[t] \notin Tearing,
             \A t \in Thread : pc'[t] \notin Tearing \cup {"rename", "reopen"}
      PROVE  IndexQuiet'
  BY <1>1, <1>d DEF IndexQuiet, LastIndex, SavedFrom, Tearing
<1>2. ASSUME NEW t \in Thread, NEW from, NEW to, Goes(t, from, to),
             from \in {"idle", "test", "open", "write", "size", "close"},
             to \in {"idle", "test", "open", "write", "size", "close",
                    "read_index"},
             UNCHANGED <<torn, saved, index_file>>
      PROVE  IndexQuiet'
  <2>1. \A u \in Thread : pc'[u] = IF u = t THEN to ELSE pc[u]
    BY <1>0, <1>2, GoesQuiet
  <2>2. \A u \in Thread \ {t} : pc[u] \notin Resetting
    BY <1>0, <1>2, GoesQuiet
  <2>3. pc[t] = from /\ ~raced /\ ~torn
    BY <1>2 DEF Goes
  <2> QED
    BY <1>1, <1>2, <2>1, <2>2, <2>3 DEF Tearing, Resetting
\* A step of a reset: nobody else is in the code.
<1>3. ASSUME NEW t \in Thread, NEW from, NEW to, Goes(t, from, to),
             from \in Resetting \ {"close"}, UNCHANGED torn
      PROVE  /\ ~raced /\ ~torn /\ IndexQuiet /\ LogClosed(t)
             /\ pc[t] = from /\ pc'[t] = to
             /\ \A u \in Thread \ {t} : pc[u] = "idle" /\ pc'[u] = "idle"
  <2>1. ~raced /\ ~torn
    BY <1>3 DEF Goes
  <2> QED
    BY <1>0, <1>3, <1>d, <2>1, GoesQuiet
<1>4. CASE LogBegin
  BY <1>a, <1>2, <1>4 DEF LogBegin, disk_vars, history_vars
<1>5. CASE ReadConfig
  <2>1. /\ ~raced /\ ~torn /\ UNCHANGED <<saved, index_file, pc>>
        /\ \A t \in Thread : pc[t] = "idle"
    BY <1>0, <1>5
    DEF ReadConfig, Alone, disk_vars, thread_vars, history_vars
  <2> QED
    BY <1>1, <2>1 DEF Tearing
<1>6. ASSUME NEW t \in Thread, NEW flag \in Flag, Log(t, flag)
      PROVE  IndexQuiet'
  BY <1>2, <1>6 DEF Log, disk_vars, history_vars
<1>7. ASSUME NEW t \in Thread, TestLogFile(t) \/ OpenLogFile(t) \/ TestSize(t)
      PROVE  IndexQuiet'
  <2>1. PICK from \in {"test", "open", "size"},
             to \in {"open", "write", "close", "idle"} : Goes(t, from, to)
    BY <1>7 DEF TestLogFile, OpenLogFile, TestSize
  <2>2. UNCHANGED <<torn, saved, index_file>>
    BY <1>7 DEF TestLogFile, OpenLogFile, TestSize, disk_vars, history_vars
  <2> QED
    BY <1>2, <2>1, <2>2
<1>8. ASSUME NEW t \in Thread, WriteLine(t) PROVE IndexQuiet'
  <2>1. Goes(t, "write", "size") /\ log_file # NULL
        /\ UNCHANGED <<torn, saved, stream, log_file>>
    BY <1>8 DEF WriteLine
  <2>2. LogOpen
    BY <1>0, <2>1, GoesQuiet DEF Resetting
  <2>3. stream[log_file] = "log"
    BY <1>0, <2>1, <2>2 DEF LogOpen, LogTypeOK
  <2>4. UNCHANGED index_file
    BY <1>8, <2>3 DEF WriteLine
  <2> QED
    BY <1>2, <2>1, <2>4
<1>9. ASSUME NEW t \in Thread, CloseLogFile(t) PROVE IndexQuiet'
  BY <1>2, <1>9 DEF CloseLogFile, disk_vars, history_vars
<1>10. ASSUME NEW t \in Thread, ReadIndex(t) PROVE IndexQuiet'
  <2>1. /\ IndexQuiet /\ LogClosed(t)
        /\ pc[t] = "read_index" /\ pc'[t] = "rename"
        /\ \A u \in Thread \ {t} : pc[u] = "idle" /\ pc'[u] = "idle"
    BY <1>3, <1>10 DEF ReadIndex, Resetting, history_vars
  <2>2. UNCHANGED <<saved, index_file>>
    BY <1>10 DEF ReadIndex, disk_vars
  <2>3. \A u \in Thread :
            pc[u] \notin Tearing /\ pc[u] # "write_index"
              /\ pc'[u] \notin Tearing
    BY <2>1 DEF Tearing
  <2>4. /\ index_file \in Nat \cup {Missing}
        /\ SavedFrom(LastIndex + 1 - MAX_NO_LOG_FILES, LastIndex)
    BY <2>1, <2>3 DEF IndexQuiet
  <2>5. IndexOpensToRead <=> index_file # Missing
    BY <2>1 DEF LogClosed, IndexOpensToRead, Open
  <2>6. index'[t] = LastIndex + 1
    BY <1>0, <1>10, <1>b, <2>4, <2>5 DEF ReadIndex, LastIndex, LogTypeOK
  <2>7. UNCHANGED LastIndex
    BY <2>2 DEF LastIndex
  <2>8. SavedFrom(LastIndex + 1 - MAX_NO_LOG_FILES, LastIndex)'
    BY <2>2, <2>4, <2>7 DEF SavedFrom
  <2> QED
    BY <2>1, <2>2, <2>3, <2>4, <2>6, <2>7, <2>8 DEF IndexQuiet, Tearing
<1>11. ASSUME NEW t \in Thread, RenameLog(t) PROVE IndexQuiet'
  <2>1. /\ IndexQuiet /\ LogClosed(t)
        /\ pc[t] = "rename" /\ pc'[t] = "close_index"
        /\ \A u \in Thread \ {t} : pc[u] = "idle" /\ pc'[u] = "idle"
    BY <1>3, <1>11 DEF RenameLog, Resetting, history_vars
  <2>2. UNCHANGED <<index, index_file, LastIndex>>
    BY <1>11 DEF RenameLog, LastIndex
  <2>3. /\ index_file \in Nat \cup {Missing} /\ index[t] = LastIndex + 1
        /\ SavedFrom(LastIndex + 1 - MAX_NO_LOG_FILES, LastIndex)
    BY <2>1 DEF IndexQuiet, Tearing
  <2>4. index[t] \in Index
    BY <1>0, <2>1 DEF LogInv, Numbered
  <2>5. saved[index[t]] = Missing
    BY <1>b, <1>c, <2>3, <2>4 DEF SavedFrom
  <2>6. ~Open("log")
    BY <2>1 DEF LogClosed, Open
  <2>7. log' = Missing
        /\ \A i \in Index : saved'[i] # Missing =>
                                saved[i] # Missing \/ i = LastIndex + 1
    BY <1>0, <1>11, <2>3, <2>5, <2>6 DEF RenameLog, LogTypeOK
  <2> DEFINE last == LastIndex
             m == MAX_NO_LOG_FILES
  <2>8. \A i \in Index : saved'[i] # Missing =>
                             last + 1 - m <= i /\ i <= last + 1
    <3>1. \A i \in Index : saved[i] # Missing =>
                               last + 1 - m <= i /\ i <= last
      BY <2>3 DEF SavedFrom
    <3>2. last \in Nat /\ m \in Nat
      BY <1>b, <1>c
    <3>3. \A i \in Index : saved'[i] # Missing =>
                               saved[i] # Missing \/ i = last + 1
      BY <2>7
    <3> HIDE DEF last, m
    <3> QED
      BY <1>b, <3>1, <3>2, <3>3
  <2>9. SavedFrom(LastIndex + 1 - MAX_NO_LOG_FILES, LastIndex + 1)'
    BY <2>2, <2>8 DEF SavedFrom
  <2> QED
    BY <2>1, <2>2, <2>3, <2>7, <2>9 DEF IndexQuiet, Tearing
<1>12. ASSUME NEW t \in Thread, CloseIndex(t) PROVE IndexQuiet'
  <2>1. /\ IndexQuiet
        /\ pc[t] = "close_index" /\ pc'[t] = "open_index"
        /\ \A u \in Thread \ {t} : pc[u] = "idle" /\ pc'[u] = "idle"
    BY <1>3, <1>12 DEF CloseIndex, Resetting, history_vars
  <2>2. UNCHANGED <<index, index_file, LastIndex, saved, log>>
    BY <1>12 DEF CloseIndex, LastIndex, disk_vars
  <2> QED
    BY <2>1, <2>2 DEF IndexQuiet, SavedFrom, Tearing
<1>13. ASSUME NEW t \in Thread, OpenIndex(t) PROVE IndexQuiet'
  <2>1. /\ IndexQuiet /\ LogClosed(t) /\ pc[t] = "open_index"
        /\ pc'[t] = IF IndexOpensToWrite THEN "write_index" ELSE "remove"
        /\ \A u \in Thread \ {t} : pc[u] = "idle" /\ pc'[u] = "idle"
    BY <1>3, <1>13 DEF OpenIndex, Resetting, history_vars
  <2>2. IndexOpensToWrite
    BY <2>1 DEF LogClosed, IndexOpensToWrite, Open
  <2>3. /\ pc'[t] = "write_index" /\ index_file' = Empty
        /\ UNCHANGED <<index, saved, log>>
    BY <1>13, <2>1, <2>2 DEF OpenIndex
  <2>4. /\ index[t] = LastIndex + 1 /\ log = Missing
        /\ SavedFrom(LastIndex + 1 - MAX_NO_LOG_FILES, LastIndex + 1)
    BY <2>1 DEF IndexQuiet, Tearing
  <2>5. SavedFrom(index[t] - MAX_NO_LOG_FILES, index[t])'
    <3>1. /\ index[t] = LastIndex + 1
          /\ index[t] - MAX_NO_LOG_FILES = LastIndex + 1 - MAX_NO_LOG_FILES
      BY <1>b, <1>c, <2>4
    <3>2. SavedFrom(index[t] - MAX_NO_LOG_FILES, index[t])
      BY <2>4, <3>1 DEF SavedFrom
    <3> QED
      BY <2>3, <3>2 DEF SavedFrom
  <2> QED
    BY <2>1, <2>3, <2>4, <2>5 DEF IndexQuiet, Tearing
<1>14. ASSUME NEW t \in Thread, WriteIndex(t) PROVE IndexQuiet'
  <2>1. /\ IndexQuiet /\ LogClosed(t)
        /\ pc[t] = "write_index" /\ pc'[t] = "remove"
        /\ \A u \in Thread \ {t} : pc[u] = "idle" /\ pc'[u] = "idle"
    BY <1>3, <1>14 DEF WriteIndex, Resetting, history_vars
  <2>2. findex[t] \in Slot /\ index[t] \in Index
    BY <1>0, <2>1 DEF LogInv, StreamsOwned, Numbered
  <2>3. index_file = Empty /\ log = Missing
        /\ SavedFrom(index[t] - MAX_NO_LOG_FILES, index[t])
    BY <2>1 DEF IndexQuiet, Tearing
  <2>4. stream[findex[t]] = "index_w"
    BY <2>1, <2>2 DEF LogClosed
  <2>5. index_file' = index[t] /\ UNCHANGED <<index, saved, log>>
    BY <1>14, <2>3, <2>4 DEF WriteIndex
  <2>6. SavedFrom(index[t] - MAX_NO_LOG_FILES, index[t])'
    BY <2>3, <2>5 DEF SavedFrom
  <2>7. index_file' \in Nat
    BY <1>b, <2>2, <2>5
  <2> QED
    BY <2>1, <2>3, <2>5, <2>6, <2>7 DEF IndexQuiet, Tearing
<1>15. ASSUME NEW t \in Thread, RemoveOldest(t) PROVE IndexQuiet'
  <2>1. /\ IndexQuiet /\ pc[t] = "remove" /\ pc'[t] = "reopen"
        /\ \A u \in Thread \ {t} : pc[u] = "idle" /\ pc'[u] = "idle"
    BY <1>3, <1>15 DEF RemoveOldest, Resetting
  <2>2. index_file = index[t] /\ log = Missing
        /\ SavedFrom(index[t] - MAX_NO_LOG_FILES, index[t])
    BY <2>1 DEF IndexQuiet, Tearing
  <2>3. UNCHANGED <<index, index_file, log>>
    BY <1>15 DEF RemoveOldest
  <2>4. index[t] \in Index
    BY <1>0, <2>1 DEF LogInv, Numbered
  <2> DEFINE last == index[t]
             m == MAX_NO_LOG_FILES
  <2>5. last \in Nat /\ last \in Index /\ m \in Nat
    BY <1>b, <2>4
  <2>6. \A i \in Index : saved[i] # Missing => last - m <= i /\ i <= last
    BY <2>2 DEF SavedFrom
  <2>7. IF last > m /\ saved[last - m] # Missing
          THEN saved' = [saved EXCEPT ![last - m] = Missing]
          ELSE UNCHANGED saved
    BY <1>15 DEF RemoveOldest
  <2>8. \A i \in Index : 1 <= i /\ i \in Nat
    BY LoggingAssumption DEF Index, LoggingAssumption
  <2>9. \A i \in Index : saved'[i] # Missing =>
                             last + 1 - m <= i /\ i <= last
    <3> HIDE DEF last, m
    <3>1. ASSUME NEW i \in Index, saved'[i] # Missing
          PROVE  last + 1 - m <= i /\ i <= last
      <4>1. saved[i] # Missing /\ (last > m => i # last - m)
        BY <1>0, <2>7, <3>1 DEF LogTypeOK
      <4> QED
        BY <2>5, <2>6, <2>8, <4>1
    <3> QED
      BY <3>1
  <2>10. index_file' \in Nat /\ LastIndex' = index[t]
    BY <1>b, <2>2, <2>3, <2>4 DEF LastIndex
  <2>11. SavedFrom(LastIndex + 1 - MAX_NO_LOG_FILES, LastIndex)'
    BY <2>9, <2>10 DEF SavedFrom
  <2> QED
    BY <2>1, <2>2, <2>3, <2>10, <2>11 DEF IndexQuiet, Tearing
<1>16. ASSUME NEW t \in Thread, ReopenLogFile(t) PROVE IndexQuiet'
  <2>1. /\ ~raced /\ ~torn /\ pc[t] = "reopen" /\ pc'[t] = "idle"
        /\ \A u \in Thread \ {t} : pc[u] = "idle" /\ pc'[u] = "idle"
    BY <1>3, <1>16 DEF ReopenLogFile, Resetting, history_vars
  <2>2. UNCHANGED <<saved, index_file>>
    BY <1>16 DEF ReopenLogFile
  <2> QED
    BY <1>1, <2>1, <2>2 DEF Tearing
<1>17. ASSUME Ends PROVE IndexQuiet'
  BY <1>1, <1>17 DEF Ends, disk_vars, Tearing
<1>18. CASE Restart \/ UNCHANGED vars
  <2>1. /\ ~raced /\ ~torn
        /\ UNCHANGED <<log, saved, index_file, pc, index>>
    BY <1>18 DEF Restart, vars, disk_vars, thread_vars, history_vars
  <2> QED
    BY <1>d, <2>1 DEF IndexQuiet, LastIndex, SavedFrom
<1> QED
  BY <1>4, <1>5, <1>6, <1>7, <1>8, <1>9, <1>10, <1>11, <1>12, <1>13, <1>14,
     <1>15, <1>16, <1>17, <1>18
  DEF Next, LogPrintf, ResetLogFile, RuntimeError, Exit

LEMMA StepLinesKept ==
    ASSUME LogInv, [Next]_vars
    PROVE  LinesKept'
<1> SUFFICES ASSUME ~raced', ~torn'
             PROVE  1 .. lines' \subseteq Kept' \cup removed'
  BY DEF LinesKept
<1>0. LogTypeOK /\ LogTypeOK' /\ LogInv
  BY StepLogType DEF LogInv
<1>a. ~raced /\ ~torn
  BY <1>0
  DEF Next, vars, thread_vars, history_vars, LogBegin, ReadConfig, LogPrintf,
      Log, TestLogFile, OpenLogFile, WriteLine, TestSize, ResetLogFile,
      CloseLogFile, ReadIndex, RenameLog, CloseIndex, OpenIndex, WriteIndex,
      RemoveOldest, ReopenLogFile, RuntimeError, Exit, Ends, Restart, Goes,
      LogTypeOK
<1>b. /\ 1 .. lines \subseteq Kept \cup removed
      /\ IndexQuiet /\ OneResets /\ StreamsQuiet
  BY <1>a DEF LogInv, LinesKept
\* What Kept is.
<1>c. \A n : n \in Kept <=> \/ log # Missing /\ n \in log
                            \/ \E i \in Index : /\ saved[i] # Missing
                                                /\ n \in saved[i]
  BY DEF Kept
<1>d. \A n : n \in Kept' <=> \/ log' # Missing /\ n \in log'
                             \/ \E i \in Index : /\ saved'[i] # Missing
                                                 /\ n \in saved'[i]
  BY DEF Kept
<1>1. CASE UNCHANGED <<log, saved, removed, lines>>
  BY <1>1, <1>b DEF Kept
<1>2. ASSUME NEW t \in Thread, OpenLogFile(t)
      PROVE  1 .. lines' \subseteq Kept' \cup removed'
  <2>1. /\ UNCHANGED <<saved, removed, lines>>
        /\ log # Missing => log' = log
    BY <1>2 DEF OpenLogFile, history_vars
  <2> QED
    BY <1>b, <1>c, <1>d, <2>1
<1>3. ASSUME NEW t \in Thread, WriteLine(t)
      PROVE  1 .. lines' \subseteq Kept' \cup removed'
  <2>1. LogOpen
    BY <1>0, <1>3, GoesQuiet DEF WriteLine, Resetting
  <2>2. log_file \in Slot /\ stream[log_file] = "log"
    BY <1>0, <1>3, <2>1 DEF WriteLine, LogOpen, LogTypeOK
  <2>3. /\ log' = log \cup {lines'} /\ lines' = lines + 1
        /\ UNCHANGED <<saved, removed>>
    BY <1>3, <2>2 DEF WriteLine
  <2>4. log # Missing /\ log' # Missing
    BY <1>0, <2>2, StepStreamsOwned, <1>3 DEF LogInv, StreamsOwned, WriteLine
  <2>5. lines \in Nat
    BY <1>0 DEF LogTypeOK
  <2>6. ASSUME NEW n \in 1 .. lines' PROVE n \in Kept' \cup removed'
    <3>1. n \in 1 .. lines \/ n = lines'
      BY <2>3, <2>5
    <3> QED
      BY <1>b, <1>c, <1>d, <2>3, <2>4, <3>1
  <2> QED
    BY <2>6
<1>4. ASSUME NEW t \in Thread, RenameLog(t)
      PROVE  1 .. lines' \subseteq Kept' \cup removed'
  <2>1. UNCHANGED <<removed, lines>>
    BY <1>4 DEF RenameLog, history_vars
  <2>2. index[t] \in Index
    BY <1>0, <1>4 DEF LogInv, Numbered, RenameLog, Goes
  <2>3. CASE UNCHANGED <<saved, log>>
    BY <1>1, <2>1, <2>3
  <2>4. CASE /\ log # Missing /\ saved[index[t]] = Missing
             /\ saved' = [saved EXCEPT ![index[t]] = log]
    <3>1. saved'[index[t]] = log
          /\ \A i \in Index : saved[i] # Missing => saved'[i] = saved[i]
      BY <1>0, <2>2, <2>4 DEF LogTypeOK
    <3> QED
      BY <1>b, <1>c, <1>d, <2>1, <2>2, <2>4, <3>1
  <2> QED
    BY <1>4, <2>3, <2>4 DEF RenameLog
<1>5. ASSUME NEW t \in Thread, RemoveOldest(t)
      PROVE  1 .. lines' \subseteq Kept' \cup removed'
  <2> DEFINE oldest == index[t] - MAX_NO_LOG_FILES
  <2>1. UNCHANGED <<log, lines>>
    BY <1>5 DEF RemoveOldest
  <2>2. CASE UNCHANGED <<saved, removed>>
    BY <1>1, <2>1, <2>2
  <2>3. CASE /\ saved' = [saved EXCEPT ![oldest] = Missing]
             /\ removed' = removed \cup saved[oldest]
    <3> HIDE DEF oldest
    <3>1. \A i \in Index : i # oldest => saved'[i] = saved[i]
      BY <1>0, <2>3 DEF LogTypeOK
    <3> QED
      BY <1>b, <1>c, <1>d, <2>1, <2>3, <3>1
  <2> QED
    BY <1>5, <2>2, <2>3 DEF RemoveOldest
<1>6. ASSUME NEW t \in Thread, ReopenLogFile(t)
      PROVE  1 .. lines' \subseteq Kept' \cup removed'
  <2>1. log = Missing
    BY <1>b, <1>6 DEF IndexQuiet, ReopenLogFile, Goes
  <2>2. UNCHANGED <<saved, removed, lines>>
    BY <1>6 DEF ReopenLogFile, history_vars
  <2> QED
    BY <1>b, <1>c, <1>d, <2>1, <2>2
<1> QED
  BY <1>1, <1>2, <1>3, <1>4, <1>5, <1>6
  DEF Next, vars, disk_vars, history_vars, LogBegin, ReadConfig, LogPrintf,
      Log, TestLogFile, TestSize, ResetLogFile, CloseLogFile, ReadIndex,
      CloseIndex, OpenIndex, WriteIndex, RuntimeError, Exit, Ends, Restart

\* All of the invariant, whatever the threads and the ends of the program do.
THEOREM LogInvCorrect == Spec => []LogInv
<1>1. Init => LogInv
  BY InitLogInv
<1>2. LogInv /\ [Next]_vars => LogInv'
  <2> SUFFICES ASSUME LogInv, [Next]_vars PROVE LogInv'
    OBVIOUS
  <2>1. /\ LogTypeOK' /\ Alone' /\ LinesBounded' /\ Numbered'
        /\ StreamsOwned' /\ LoggingDoesNotEndProgram' /\ LinesKept'
    BY StepLogType, StepAlone, StepLinesBounded, StepNumbered,
       StepStreamsOwned, StepDied, StepLinesKept
  <2>2. raced' \/ (OneResets' /\ StreamsQuiet')
    BY StepOneResets, StepStreamsQuiet
  <2>3. raced' \/ torn' \/ IndexQuiet'
    BY StepIndexQuiet
  <2> QED
    BY <2>1, <2>2, <2>3 DEF LogInv
<1> QED
  BY <1>1, <1>2, PTL DEF Spec

-----------------------------------------------------------------------------
(* The theorems. *)

(***************************************************************************)
(* A line is lost only with a saved log that was removed for its age       *)
(* (logging.c:34-57), unless a thread logged during a reset, two opened    *)
(* the log at once or the program ended between the rename and the remove: *)
(* however many threads log, however often the log is refused, and         *)
(* wherever else the program ends and starts again.                        *)
(***************************************************************************)
THEOREM LinesKeptCorrect == Spec => []LinesKept
<1>1. LogInv => LinesKept
  BY DEF LogInv
<1> QED
  BY <1>1, LogInvCorrect, PTL

(***************************************************************************)
(* The C runtime ends the program for a log_file that is NULL or closed    *)
(* only after a thread has logged during the reset of another one, two     *)
(* have opened the log at once, or an open in log_printf was refused       *)
(* (logging.c:34-57, 69-92).  A reset that could not open the log again    *)
(* does not suffice.                                                       *)
(***************************************************************************)
THEOREM LoggingDoesNotEndProgramCorrect == Spec => []LoggingDoesNotEndProgram
<1>1. LogInv => LoggingDoesNotEndProgram
  BY DEF LogInv
<1> QED
  BY <1>1, LogInvCorrect, PTL

\* What is saved has numbers from an interval.
LEMMA SavedCounted ==
    ASSUME NEW first \in Int, NEW last \in Nat, SavedFrom(first, last),
           NEW m \in Nat, first + m = last + 1
    PROVE  Cardinality({i \in Index : saved[i] # Missing}) <= m
<1> DEFINE T == {i \in Index : saved[i] # Missing}
<1>1. T \subseteq first .. last
  <2>1. \A i \in Index : i \in Int
    BY Slots
  <2> QED
    BY <2>1 DEF SavedFrom
<1>2. IsFiniteSet(first .. last) /\ Cardinality(first .. last) <= m
  BY FS_Interval
<1> HIDE DEF T
<1>3. Cardinality(T) <= Cardinality(first .. last) /\ IsFiniteSet(T)
  BY <1>1, <1>2, FS_Subset
<1>4. Cardinality(T) \in Nat /\ Cardinality(first .. last) \in Nat
  BY <1>2, <1>3, FS_CardinalityType
<1>5. Cardinality(T) <= m
  BY <1>2, <1>3, <1>4
<1> QED
  BY <1>5 DEF T

(***************************************************************************)
(* There are MAX_NO_LOG_FILES saved logs at most, and one more while the   *)
(* oldest one is about to be removed (logging.c:55), unless threads raced  *)
(* or the program ended in between.                                        *)
(***************************************************************************)
THEOREM SavedLogsBoundedCorrect == Spec => []SavedLogsBounded
<1>1. ASSUME LogInv PROVE SavedLogsBounded
  <2> DEFINE count == Cardinality({i \in Index : saved[i] # Missing})
             m == MAX_NO_LOG_FILES
  <2> SUFFICES ASSUME ~raced, ~torn
               PROVE  count <= m + (IF \E t \in Thread : pc[t] \in Tearing
                                      THEN 1 ELSE 0)
    BY DEF SavedLogsBounded
  <2>0. IndexQuiet /\ Numbered
    BY <1>1 DEF LogInv
  <2>1. LastIndex \in Nat /\ m \in Nat
    BY LoggingAssumption DEF LastIndex, LoggingAssumption
  <2>2. CASE \A t \in Thread : pc[t] \notin Tearing
    <3>1. SavedFrom(LastIndex + 1 - m, LastIndex)
      BY <2>0, <2>2 DEF IndexQuiet
    <3>2. LastIndex + 1 - m \in Int /\ (LastIndex + 1 - m) + m = LastIndex + 1
      BY <2>1
    <3>3. count <= m
      BY <2>1, <3>1, <3>2, SavedCounted
    <3> HIDE DEF m, count
    <3> QED
      BY <2>1, <2>2, <3>3
  <2>3. ASSUME NEW t \in Thread, pc[t] \in Tearing PROVE count <= m + 1
    <3>1. PICK last \in Nat : SavedFrom(last - m, last)
      <4>1. CASE pc[t] \in {"close_index", "open_index"}
        <5>1. SavedFrom(LastIndex + 1 - m, LastIndex + 1)
          BY <2>0, <4>1 DEF IndexQuiet
        <5> QED
          BY <2>1, <5>1
      <4>2. CASE pc[t] \in {"write_index", "remove"}
        <5>1. SavedFrom(index[t] - m, index[t]) /\ index[t] \in Nat
          BY <2>0, <4>2, Slots DEF IndexQuiet, Numbered
        <5> QED
          BY <5>1
      <4> QED
        BY <2>3, <4>1, <4>2 DEF Tearing
    <3>2. last - m \in Int /\ m + 1 \in Nat /\ (last - m) + (m + 1) = last + 1
      BY <2>1
    <3> QED
      BY <3>1, <3>2, SavedCounted
  <2> QED
    BY <2>2, <2>3
<1> QED
  BY <1>1, LogInvCorrect, PTL

-----------------------------------------------------------------------------
(* The configuration. *)

LEMMA ReadConfigType ==
    ASSUME NEW file \in Text
    PROVE  read_config(file) \in ConfigValue
<1>1. PICK ls \in Seq(Text) : ls = read_lines(file)
  BY ReadLinesType
<1>2. PICK f : /\ Reads(f, ls)
               /\ FoldLeft(read_config_line, Default, ls) = f[Len(ls)]
  BY ReadsExists
<1>3. PICK n \in Nat : n = Len(ls)
  BY LenProperties
<1>4. f[n] \in ConfigValue
  BY <1>2, <1>3 DEF Reads
<1>5. read_config(file) = f[n]
  BY <1>1, <1>2, <1>3 DEF read_config
<1> QED
  BY <1>4, <1>5

-----------------------------------------------------------------------------
(* Parts of texts. *)

LEMMA PartIs ==
    ASSUME NEW s \in Text, NEW x \in Nat \ {0}, NEW y \in Nat, y <= Len(s)
    PROVE  /\ SubSeq(s, x, y) \in Text
           /\ Len(SubSeq(s, x, y)) = IF x <= y THEN y - x + 1 ELSE 0
           /\ \A p \in x .. y : /\ p - x + 1 \in 1 .. Len(SubSeq(s, x, y))
                                /\ SubSeq(s, x, y)[p - x + 1] = s[p]
           /\ \A i \in 1 .. Len(SubSeq(s, x, y)) :
                 x + i - 1 \in x .. y /\ SubSeq(s, x, y)[i] = s[x + i - 1]
<1>1. PICK n \in Nat : n = Len(s)
  BY LenProperties DEF Text
<1>2. \A i \in 1 .. n : s[i] \in Symbol
  BY <1>1, ElementOfSeq DEF Text
<1>3. \A i \in x .. y : s[i] \in Symbol
  BY <1>1, <1>2
<1>4. PICK t : t = SubSeq(s, x, y)
  OBVIOUS
<1>5. /\ t \in Seq(Symbol)
      /\ Len(t) = IF x <= y THEN y - x + 1 ELSE 0
      /\ \A i \in 1 .. y - x + 1 : t[i] = s[x + i - 1]
  BY <1>3, <1>4, SubSeqProperties
<1>6. ASSUME NEW p \in x .. y
      PROVE  p - x + 1 \in 1 .. Len(t) /\ t[p - x + 1] = s[p]
  <2>1. PICK i \in 1 .. y - x + 1 : i = p - x + 1 /\ x + i - 1 = p
    OBVIOUS
  <2> QED
    BY <1>5, <2>1
<1>7. ASSUME NEW i \in 1 .. Len(t)
      PROVE  x + i - 1 \in x .. y /\ t[i] = s[x + i - 1]
  BY <1>5
<1> QED
  BY <1>4, <1>5, <1>6, <1>7 DEF Text

LEMMA PartOfPart ==
    ASSUME NEW s \in Text, NEW x \in Nat \ {0}, NEW y \in Nat, y <= Len(s),
           NEW a \in Nat, NEW b \in Nat, x <= a, b <= y
    PROVE  SubSeq(SubSeq(s, x, y), a - x + 1, b - x + 1) = SubSeq(s, a, b)
<1>1. PICK n \in Nat : n = Len(s)
  BY LenProperties DEF Text
<1>2. CASE a <= b
  <2>1. /\ x \in 1 .. Len(s) /\ y \in x - 1 .. Len(s)
        /\ a - x + 1 \in 1 .. (y - x) + 1
        /\ b - x + 1 \in (a - x + 1) - 1 .. (y - x) + 1
    BY <1>1, <1>2
  <2>2. PICK i \in Int, j \in Int : i = a - x + 1 /\ j = b - x + 1
    OBVIOUS
  <2>3. SubSeq(SubSeq(s, x, y), i, j) = SubSeq(s, (x + i) - 1, (x + j) - 1)
    BY <2>1, <2>2, SubSeqOfSubSeq DEF Text
  <2>4. (x + i) - 1 = a /\ (x + j) - 1 = b
    BY <2>2
  <2> QED
    BY <2>2, <2>3, <2>4
<1>3. CASE b < a
  <2>1. SubSeq(s, a, b) = <<>>
    BY <1>3, SubSeqEmpty
  <2>2. b - x + 1 < a - x + 1 /\ a - x + 1 \in Int /\ b - x + 1 \in Int
    BY <1>3
  <2>3. SubSeq(SubSeq(s, x, y), a - x + 1, b - x + 1) = <<>>
    BY <2>2, SubSeqEmpty
  <2> QED
    BY <2>1, <2>3
<1> QED
  BY <1>2, <1>3

\* The places of what is not blank.
Inked(s, x, y) == {p \in x .. y : s[p] \notin Blank}

\* trim_ws cuts a part down to a smaller one.
LEMMA TrimIs ==
    ASSUME NEW s \in Text, NEW x \in Nat \ {0}, NEW y \in Nat, y <= Len(s)
    PROVE  trim_ws(SubSeq(s, x, y))
             = IF Inked(s, x, y) = {} THEN <<>>
               ELSE SubSeq(s, Min(Inked(s, x, y)), Max(Inked(s, x, y)))
<1> DEFINE t == SubSeq(s, x, y)
           I == {i \in DOMAIN t : t[i] \notin Blank}
           J == Inked(s, x, y)
<1>1. PICK n \in Nat : n = Len(t) /\ DOMAIN t = 1 .. n
  BY PartIs, LenProperties DEF Text
<1>2. trim_ws(t) = IF I = {} THEN <<>> ELSE SubSeq(t, Min(I), Max(I))
  BY DEF trim_ws
<1>3. /\ \A p \in x .. y : p - x + 1 \in DOMAIN t /\ t[p - x + 1] = s[p]
      /\ \A i \in DOMAIN t : x + i - 1 \in x .. y /\ t[i] = s[x + i - 1]
  BY <1>1, PartIs
<1>4. /\ \A p \in J : p - x + 1 \in I
      /\ \A i \in I : x + i - 1 \in J
  BY <1>3 DEF Inked
<1>5. /\ I \in SUBSET Nat /\ I \in SUBSET (0 .. n)
      /\ J \in SUBSET Nat /\ J \in SUBSET (0 .. y) /\ J \subseteq x .. y
  BY <1>1 DEF Inked
<1> HIDE DEF I, J, t
<1>6. CASE J = {}
  BY <1>2, <1>4, <1>6 DEF t, J
<1>7. CASE J # {}
  <2>1. I # {}
    BY <1>4, <1>7
  <2>2. Min(I) \in I /\ (\A i \in I : Min(I) <= i)
        /\ Max(I) \in I /\ (\A i \in I : i <= Max(I))
    BY <1>5, <2>1, MinIs, MaxIs
  <2>3. Min(J) \in J /\ (\A i \in J : Min(J) <= i)
        /\ Max(J) \in J /\ (\A i \in J : i <= Max(J))
    BY <1>5, <1>7, MinIs, MaxIs
  <2>4. PICK a \in x .. y, b \in x .. y : a = Min(J) /\ b = Max(J)
    BY <1>5, <2>3
  <2>5. PICK c \in Nat, d \in Nat : c = Min(I) /\ d = Max(I)
    BY <1>5, <2>2
  <2>6. c = a - x + 1 /\ d = b - x + 1
    <3>1. c <= a - x + 1 /\ a <= x + c - 1
      BY <1>4, <2>2, <2>3, <2>4, <2>5
    <3>2. b - x + 1 <= d /\ x + d - 1 <= b
      BY <1>4, <2>2, <2>3, <2>4, <2>5
    <3> QED
      BY <3>1, <3>2
  <2>7. SubSeq(t, a - x + 1, b - x + 1) = SubSeq(s, a, b)
    <3>1. a \in Nat /\ b \in Nat /\ x <= a /\ b <= y
      BY <2>4
    <3> QED
      BY <3>1, PartOfPart DEF t
  <2> QED
    BY <1>2, <1>7, <2>1, <2>4, <2>5, <2>6, <2>7 DEF t, J
<1> QED
  BY <1>6, <1>7

\* Blanks around a part make no difference.
LEMMA TrimSame ==
    ASSUME NEW s \in Text, NEW x \in Nat \ {0}, NEW y \in Nat, y <= Len(s),
           NEW a \in Nat \ {0}, NEW b \in Nat, b <= Len(s),
           Inked(s, x, y) = Inked(s, a, b)
    PROVE  trim_ws(SubSeq(s, x, y)) = trim_ws(SubSeq(s, a, b))
BY TrimIs

\* The places of a symbol.
Places(s, x, y, ch) == {p \in x .. y : s[p] = ch}

LEMMA SplitPart ==
    ASSUME NEW s \in Text, NEW x \in Nat \ {0}, NEW y \in Nat, y <= Len(s),
           NEW ch, NEW K, K = Places(s, x, y, ch)
    PROVE  LET pair == Split(SubSeq(s, x, y), ch)
           IN  /\ pair.found = (K # {})
               /\ K # {} => /\ Min(K) \in K /\ \A p \in K : Min(K) <= p
                            /\ pair.key = SubSeq(s, x, Min(K) - 1)
                            /\ pair.value = SubSeq(s, Min(K) + 1, y)
<1> DEFINE t == SubSeq(s, x, y)
           d == FirstOf(t, ch)
<1>1. PICK n \in Nat : n = Len(t)
  BY PartIs, LenProperties DEF Text
<1>2. /\ t \in Text
      /\ n = IF x <= y THEN y - x + 1 ELSE 0
      /\ \A p \in x .. y : p - x + 1 \in 1 .. n /\ t[p - x + 1] = s[p]
      /\ \A i \in 1 .. n : x + i - 1 \in x .. y /\ t[i] = s[x + i - 1]
  BY <1>1, PartIs
<1>3. /\ d \in 0 .. n
      /\ d # 0 => t[d] = ch
      /\ \A i \in 1 .. n : t[i] = ch => d # 0 /\ d <= i
  BY <1>1, <1>2, FirstOfIs
<1>4. /\ Split(t, ch).found = (d # 0)
      /\ Split(t, ch).key = SubSeq(t, 1, d - 1)
      /\ Split(t, ch).value = SubSeq(t, d + 1, n)
  BY <1>1, <1>2, SplitIs
<1> HIDE DEF t, d
<1>5. K # {} <=> d # 0
  <2>1. ASSUME NEW p \in K PROVE d # 0
    BY <1>2, <1>3 DEF Places
  <2>2. ASSUME d # 0 PROVE x + d - 1 \in K
    BY <1>2, <1>3, <2>2 DEF Places
  <2> QED
    BY <2>1, <2>2
<1>6. ASSUME K # {}
      PROVE  /\ Min(K) \in K /\ \A p \in K : Min(K) <= p
             /\ SubSeq(t, 1, d - 1) = SubSeq(s, x, Min(K) - 1)
             /\ SubSeq(t, d + 1, n) = SubSeq(s, Min(K) + 1, y)
  <2>1. K \in SUBSET Nat /\ K \subseteq x .. y
    BY DEF Places
  <2>2. Min(K) \in K /\ \A p \in K : Min(K) <= p
    BY <1>6, <2>1, MinIs
  <2>3. PICK m \in x .. y : m = Min(K)
    BY <2>1, <2>2
  <2>4. m = x + d - 1
    <3>1. x + d - 1 \in K
      BY <1>2, <1>3, <1>5, <1>6 DEF Places
    <3>2. m <= x + d - 1
      BY <2>2, <2>3, <3>1
    <3>3. m - x + 1 \in 1 .. n /\ t[m - x + 1] = ch
      BY <1>2, <2>2, <2>3 DEF Places
    <3>4. d <= m - x + 1
      BY <1>3, <3>3
    <3> QED
      BY <1>3, <3>2, <3>4
  <2>5. SubSeq(t, 1, d - 1) = SubSeq(s, x, m - 1)
    <3>1. x - x + 1 = 1 /\ (m - 1) - x + 1 = d - 1
      BY <1>3, <2>4
    <3>2. x <= x /\ m - 1 \in Nat /\ m - 1 <= y
      BY <2>3
    <3>3. SubSeq(t, x - x + 1, (m - 1) - x + 1) = SubSeq(s, x, m - 1)
      BY <3>2, PartOfPart DEF t
    <3> QED
      BY <3>1, <3>3, Zenon
  <2>6. SubSeq(t, d + 1, n) = SubSeq(s, m + 1, y)
    <3>1. (m + 1) - x + 1 = d + 1 /\ y - x + 1 = n
      BY <1>2, <1>3, <2>3, <2>4
    <3>2. m + 1 \in Nat /\ x <= m + 1
      BY <2>3
    <3>3. SubSeq(t, (m + 1) - x + 1, y - x + 1) = SubSeq(s, m + 1, y)
      BY <3>2, PartOfPart DEF t
    <3> QED
      BY <3>1, <3>3, Zenon
  <2> QED
    BY <2>2, <2>3, <2>5, <2>6
<1> QED
  BY <1>4, <1>5, <1>6 DEF t

LEMMA WholePart ==
    ASSUME NEW s \in Text
    PROVE  Len(s) \in Nat /\ SubSeq(s, 1, Len(s)) = s
BY LenProperties, SubSeqFull DEF Text

LEMMA BlankOrInked ==
    ASSUME NEW s, NEW x, NEW y, NEW p \in x .. y
    PROVE  s[p] \in Blank <=> p \notin Inked(s, x, y)
BY DEF Inked

\* trim_ws cuts off blanks, and only blanks.
LEMMA TrimCuts ==
    ASSUME NEW s \in Text, NEW n \in Nat, n = Len(s)
    PROVE  \E a \in 1 .. n + 1, b \in 0 .. n :
               /\ trim_ws(s) = SubSeq(s, a, b)
               /\ \A p \in 1 .. n : p < a \/ p > b => s[p] \in Blank
               /\ a <= b => s[a] \notin Blank /\ s[b] \notin Blank
<1> DEFINE J == Inked(s, 1, n)
<1>1. trim_ws(s) = IF J = {} THEN <<>> ELSE SubSeq(s, Min(J), Max(J))
  <2>1. trim_ws(SubSeq(s, 1, n)) = IF J = {} THEN <<>>
                                   ELSE SubSeq(s, Min(J), Max(J))
    BY TrimIs
  <2> QED
    BY <2>1, WholePart
<1>2. J \in SUBSET Nat /\ J \in SUBSET (0 .. n) /\ J \subseteq 1 .. n
  BY DEF Inked
<1>3. \A p \in 1 .. n : s[p] \in Blank <=> p \notin J
  BY BlankOrInked
<1> HIDE DEF J
<1>4. CASE J = {}
  <2>1. SubSeq(s, 1, 0) = <<>>
    BY SubSeqEmpty
  <2>2. PICK a \in 1 .. n + 1, b \in 0 .. n : a = 1 /\ b = 0
    OBVIOUS
  <2>3. trim_ws(s) = SubSeq(s, a, b)
    BY <1>1, <1>4, <2>1, <2>2
  <2> QED
    BY <1>3, <1>4, <2>2, <2>3
<1>5. CASE J # {}
  <2>1. Min(J) \in J /\ (\A i \in J : Min(J) <= i)
        /\ Max(J) \in J /\ (\A i \in J : i <= Max(J))
    BY <1>2, <1>5, MinIs, MaxIs
  <2>2. PICK a \in 1 .. n, b \in 1 .. n : a = Min(J) /\ b = Max(J)
    BY <1>2, <2>1
  <2>3. trim_ws(s) = SubSeq(s, a, b)
    BY <1>1, <1>5, <2>2
  <2>4. \A p \in 1 .. n : p < a \/ p > b => s[p] \in Blank
    BY <1>3, <2>1, <2>2
  <2>5. s[a] \notin Blank /\ s[b] \notin Blank
    BY <1>3, <2>1, <2>2
  <2>6. a \in 1 .. n + 1 /\ b \in 0 .. n
    BY <2>2
  <2> QED
    BY <2>3, <2>4, <2>5, <2>6
<1> QED
  BY <1>4, <1>5

\* trim_ws does what its reader expects.
LEMMA StripsIs ==
    ASSUME NEW str \in Text, NEW s
    PROVE  Strips(str, s) <=> s = trim_ws(str)
<1>1. PICK n \in Nat : n = Len(str) /\ DOMAIN str = 1 .. n
  BY LenProperties DEF Text
<1>2. PICK a \in 1 .. n + 1, b \in 0 .. n :
         /\ trim_ws(str) = SubSeq(str, a, b)
         /\ \A p \in 1 .. n : p < a \/ p > b => str[p] \in Blank
         /\ a <= b => str[a] \notin Blank /\ str[b] \notin Blank
  BY <1>1, TrimCuts
<1>3. ASSUME NEW i \in 1 .. n + 1, NEW j \in 0 .. n
      PROVE  /\ i > j => SubSeq(str, i, j) = <<>>
             /\ i <= j => /\ SubSeq(str, i, j) # <<>>
                          /\ SubSeq(str, i, j)[1] = str[i]
                          /\ SubSeq(str, i, j)[Len(SubSeq(str, i, j))] = str[j]
  <2>1. i > j => SubSeq(str, i, j) = <<>>
    BY SubSeqEmpty
  <2>2. ASSUME i <= j
        PROVE  /\ SubSeq(str, i, j) # <<>>
               /\ SubSeq(str, i, j)[1] = str[i]
               /\ SubSeq(str, i, j)[Len(SubSeq(str, i, j))] = str[j]
    <3>1. PICK t : t = SubSeq(str, i, j)
      OBVIOUS
    <3>2. /\ t \in Text
          /\ Len(t) = IF i <= j THEN j - i + 1 ELSE 0
          /\ \A p \in i .. j :
                p - i + 1 \in 1 .. Len(t) /\ t[p - i + 1] = str[p]
      BY <1>1, <3>1, PartIs
    <3>3. Len(t) = j - i + 1 /\ t[i - i + 1] = str[i] /\ t[j - i + 1] = str[j]
      BY <2>2, <3>2
    <3>4. i - i + 1 = 1 /\ Len(t) # 0
      BY <2>2, <3>3
    <3>5. t # <<>>
      BY <3>2, <3>4, EmptySeq
    <3> QED
      BY <3>1, <3>3, <3>4, <3>5
  <2> QED
    BY <2>1, <2>2
<1>4. ASSUME s = trim_ws(str) PROVE Strips(str, s)
  <2>1. s = SubSeq(str, a, b)
    BY <1>2, <1>4
  <2>2. s # <<>> => s[1] \notin Blank /\ s[Len(s)] \notin Blank
    <3>1. CASE a <= b
      BY <1>2, <1>3, <2>1, <3>1
    <3>2. CASE a > b
      BY <1>3, <2>1, <3>2
    <3> QED
      BY <3>1, <3>2
  <2> QED
    BY <1>1, <1>2, <2>1, <2>2 DEF Strips
<1>5. ASSUME Strips(str, s) PROVE s = trim_ws(str)
  <2>1. PICK i \in 1 .. n + 1, j \in 0 .. n :
           /\ s = SubSeq(str, i, j)
           /\ \A p \in 1 .. n : p < i \/ p > j => str[p] \in Blank
           /\ s # <<>> => s[1] \notin Blank /\ s[Len(s)] \notin Blank
    BY <1>1, <1>5 DEF Strips
  <2>2. i <= j => str[i] \notin Blank /\ str[j] \notin Blank
    BY <1>3, <2>1
  <2>3. CASE i <= j
    <3>1. i \in 1 .. n /\ j \in 1 .. n
      BY <2>3
    <3>2. a <= i /\ i <= b /\ a <= j /\ j <= b
      BY <1>2, <2>2, <2>3, <3>1
    <3>3. a \in 1 .. n /\ b \in 1 .. n /\ a <= b
      BY <3>1, <3>2
    <3>4. i <= a /\ b <= j
      BY <1>2, <2>1, <3>3
    <3>5. a = i /\ b = j
      BY <3>2, <3>4
    <3> QED
      BY <1>2, <2>1, <3>5
  <2>4. CASE i > j
    <3>1. ~(a <= b)
      <4> SUFFICES ASSUME a <= b PROVE FALSE
        OBVIOUS
      <4>1. a \in 1 .. n
        OBVIOUS
      <4> QED
        BY <1>2, <2>1, <2>4, <4>1
    <3> QED
      BY <1>2, <1>3, <2>1, <2>4, <3>1
  <2> QED
    BY <2>3, <2>4
<1> QED
  BY <1>4, <1>5

\* Trimming a text that is one symbol and blanks.
LEMMA TrimOne ==
    ASSUME NEW s \in Text, NEW k, trim_ws(s) = <<k>>, NEW p \in 1 .. Len(s)
    PROVE  s[p] = k \/ s[p] \in Blank
<1>1. PICK n \in Nat : n = Len(s)
  BY LenProperties DEF Text
<1>2. PICK a \in 1 .. n + 1, b \in 0 .. n :
         /\ trim_ws(s) = SubSeq(s, a, b)
         /\ \A q \in 1 .. n : q < a \/ q > b => s[q] \in Blank
  BY <1>1, TrimCuts
<1>3. PICK t : t = SubSeq(s, a, b)
  OBVIOUS
<1>4. t = <<k>>
  BY <1>2, <1>3
<1>5. /\ Len(t) = IF a <= b THEN b - a + 1 ELSE 0
      /\ \A q \in a .. b : t[q - a + 1] = s[q]
  BY <1>1, <1>3, PartIs
<1>6. Len(t) = 1 /\ t[1] = k
  BY <1>4
<1>7. a = b
  <2>1. 1 = IF a <= b THEN b - a + 1 ELSE 0
    BY <1>5, <1>6, Zenon
  <2> QED
    BY <2>1
<1>8. a - a + 1 = 1 /\ a \in a .. b
  BY <1>7
<1>9. s[a] = k
  BY <1>5, <1>6, <1>8
<1> QED
  BY <1>1, <1>2, <1>7, <1>9

LEMMA PortIs ==
    ASSUME NEW s \in Text
    PROVE  PortIn(s) \in Port => atoi(trim_ws(s)) = PortIn(s)
<1>1. PICK n \in Nat : n = Len(s) /\ DOMAIN s = 1 .. n
  BY LenProperties DEF Text
<1> DEFINE I == {i \in DOMAIN s : s[i] \notin Blank}
<1>2. PICK a \in 1 .. n + 1, b \in 0 .. n :
         /\ trim_ws(s) = SubSeq(s, a, b)
         /\ \A q \in 1 .. n : q < a \/ q > b => s[q] \in Blank
         /\ a <= b => s[a] \notin Blank /\ s[b] \notin Blank
  BY <1>1, TrimCuts
<1>3. PortIn(s) = IF I # {} /\ s[Min(I)] \in DOMAIN Number
                   THEN Number[s[Min(I)]] ELSE 0
  BY DEF PortIn
<1>4. PICK t : t = SubSeq(s, a, b)
  OBVIOUS
<1>5. /\ t \in Text
      /\ Len(t) = IF a <= b THEN b - a + 1 ELSE 0
      /\ \A q \in a .. b : q - a + 1 \in 1 .. Len(t) /\ t[q - a + 1] = s[q]
  BY <1>1, <1>4, PartIs
<1>6. CASE a <= b
  <2>1. a \in I /\ \A i \in I : a <= i
    BY <1>1, <1>2, <1>6
  <2>2. I \in SUBSET Nat /\ I # {}
    BY <1>1, <2>1
  <2>3. Min(I) \in I /\ \A i \in I : Min(I) <= i
    BY <2>2, MinIs
  <2>4. Min(I) = a
    <3>1. PICK m \in Nat : m = Min(I)
      BY <2>2, <2>3
    <3>2. m <= a /\ a <= m
      BY <2>1, <2>3, <3>1
    <3> QED
      BY <3>1, <3>2
  <2>5. PICK c : c = s[a]
    OBVIOUS
  <2>6. PortIn(s) = IF c \in DOMAIN Number THEN Number[c] ELSE 0
    BY <1>3, <2>2, <2>4, <2>5
  <2>7. a - a + 1 = 1 /\ a \in a .. b
    BY <1>6
  <2>8. t[1] = c /\ 1 \in 1 .. Len(t)
    BY <1>5, <2>5, <2>7
  <2>9. t # <<>>
    BY <2>8
  <2>10. atoi(t) = IF c \in DOMAIN Number THEN Short(Number[c]) ELSE 0
    BY <2>8, <2>9, AtoiIs, Zenon
  <2>11. CASE c \in DOMAIN Number
    BY <1>2, <1>4, <2>6, <2>10, <2>11, ShortSame
  <2>12. CASE c \notin DOMAIN Number
    BY <1>2, <1>4, <2>6, <2>10, <2>12, Zenon
  <2> QED
    BY <2>11, <2>12
<1>7. CASE a > b
  <2>1. I = {}
    BY <1>1, <1>2, <1>7
  <2>2. t = <<>>
    BY <1>4, <1>7, SubSeqEmpty
  <2>3. atoi(t) = 0
    BY <2>2, AtoiIs, Zenon
  <2> QED
    BY <1>2, <1>3, <1>4, <2>1, <2>3, Zenon
<1> QED
  BY <1>6, <1>7

\* Splitting a value after trimming it comes to the same parts.
LEMMA AddressParts ==
    ASSUME NEW v \in Text, NEW ch, ch \notin Blank
    PROVE  LET pair == Split(trim_ws(v), ch)
               whole == Split(v, ch)
           IN  /\ pair.found = whole.found
               /\ whole.found =>
                    /\ trim_ws(pair.key) = trim_ws(whole.key)
                    /\ trim_ws(pair.value) = trim_ws(whole.value)
<1>1. PICK n \in Nat : n = Len(v)
  BY LenProperties DEF Text
<1>2. PICK a \in 1 .. n + 1, b \in 0 .. n :
         /\ trim_ws(v) = SubSeq(v, a, b)
         /\ \A q \in 1 .. n : q < a \/ q > b => v[q] \in Blank
  BY <1>1, TrimCuts
<1>3. PICK K : K = Places(v, 1, n, ch)
  OBVIOUS
<1>4. K = Places(v, a, b, ch)
  <2>1. \A q \in K : q \in a .. b
    BY <1>2, <1>3 DEF Places
  <2> QED
    BY <1>3, <2>1 DEF Places
<1>5. SubSeq(v, 1, n) = v
  BY <1>1, WholePart
<1> DEFINE pair == Split(SubSeq(v, a, b), ch)
           whole == Split(SubSeq(v, 1, n), ch)
<1>6. /\ pair.found = (K # {}) /\ whole.found = (K # {})
      /\ K # {} => /\ Min(K) \in K
                   /\ pair.key = SubSeq(v, a, Min(K) - 1)
                   /\ pair.value = SubSeq(v, Min(K) + 1, b)
                   /\ whole.key = SubSeq(v, 1, Min(K) - 1)
                   /\ whole.value = SubSeq(v, Min(K) + 1, n)
  <2>1. /\ a \in Nat \ {0} /\ b \in Nat /\ b <= Len(v)
        /\ 1 \in Nat \ {0} /\ n \in Nat /\ n <= Len(v)
    BY <1>1
  <2>2. /\ pair.found = (K # {})
        /\ K # {} => /\ Min(K) \in K
                     /\ pair.key = SubSeq(v, a, Min(K) - 1)
                     /\ pair.value = SubSeq(v, Min(K) + 1, b)
    BY <1>4, <2>1, SplitPart
  <2>3. /\ whole.found = (K # {})
        /\ K # {} => /\ whole.key = SubSeq(v, 1, Min(K) - 1)
                     /\ whole.value = SubSeq(v, Min(K) + 1, n)
    BY <1>3, <2>1, SplitPart
  <2> HIDE DEF pair, whole
  <2> QED
    BY <2>2, <2>3, Zenon
<1>7. ASSUME K # {}
      PROVE  /\ trim_ws(pair.key) = trim_ws(whole.key)
             /\ trim_ws(pair.value) = trim_ws(whole.value)
  <2>1. PICK m \in 1 .. n : m = Min(K) /\ m \in a .. b
    BY <1>3, <1>4, <1>6, <1>7 DEF Places
  <2>2. Inked(v, a, m - 1) = Inked(v, 1, m - 1)
    BY <1>2, <2>1 DEF Inked
  <2>3. Inked(v, m + 1, b) = Inked(v, m + 1, n)
    BY <1>2, <2>1 DEF Inked
  <2>4. /\ a \in Nat \ {0} /\ 1 \in Nat \ {0} /\ m + 1 \in Nat \ {0}
        /\ m - 1 \in Nat /\ m - 1 <= n /\ b \in Nat /\ b <= n
    BY <2>1
  <2>5. trim_ws(SubSeq(v, a, m - 1)) = trim_ws(SubSeq(v, 1, m - 1))
    BY <1>1, <2>2, <2>4, TrimSame
  <2>6. trim_ws(SubSeq(v, m + 1, b)) = trim_ws(SubSeq(v, m + 1, n))
    BY <1>1, <2>3, <2>4, TrimSame
  <2> HIDE DEF pair, whole
  <2> QED
    BY <1>6, <1>7, <2>1, <2>5, <2>6
<1> QED
  BY <1>2, <1>5, <1>6, <1>7

-----------------------------------------------------------------------------
(* A line of a file. *)

\* The last place of the line that place i is on.
Stop(file, i) == IF EndOf(file, i) = 0 THEN Len(file) ELSE EndOf(file, i) - 1

LEMMA StopIs ==
    ASSUME NEW file \in Text, NEW n \in Nat, n = Len(file),
           NEW i \in 1 .. n + 1
    PROVE  /\ Stop(file, i) \in 0 .. n /\ i - 1 <= Stop(file, i)
           /\ \A p \in i .. Stop(file, i) : file[p] \notin LineEnd
           /\ EndOf(file, i) = 0 => Stop(file, i) = n
           /\ EndOf(file, i) # 0 => /\ Stop(file, i) < n
                                    /\ EndOf(file, i) = Stop(file, i) + 1
                                    /\ file[Stop(file, i) + 1] \in LineEnd
           /\ Stop(file, i) < n => file[Stop(file, i) + 1] \in LineEnd
<1> DEFINE I == {j \in i .. n : file[j] \in LineEnd}
<1>1. EndOf(file, i) = IF I # {} THEN Min(I) ELSE 0
  BY DEF EndOf, SelectInSubSeq
<1>2. I \in SUBSET Nat /\ I \subseteq i .. n
  OBVIOUS
<1>3. \A p \in i .. n : p \in I <=> file[p] \in LineEnd
  OBVIOUS
<1> HIDE DEF I
<1>4. CASE I = {}
  <2>1. EndOf(file, i) = 0 /\ Stop(file, i) = n
    BY <1>1, <1>4 DEF Stop
  <2> QED
    BY <1>3, <1>4, <2>1
<1>5. CASE I # {}
  <2>1. Min(I) \in I /\ \A p \in I : Min(I) <= p
    BY <1>2, <1>5, MinIs
  <2>2. PICK m \in i .. n : m = Min(I)
    BY <1>2, <2>1
  <2>3. EndOf(file, i) = m /\ m # 0
    BY <1>1, <1>5, <2>2
  <2>4. Stop(file, i) = m - 1
    BY <2>3 DEF Stop
  <2>5. m - 1 \in 0 .. n /\ i - 1 <= m - 1 /\ m - 1 < n /\ m = m - 1 + 1
    OBVIOUS
  <2>6. \A p \in i .. m - 1 : p \in i .. n /\ p \notin I
    BY <2>1, <2>2
  <2>7. file[m] \in LineEnd
    BY <1>3, <2>1, <2>2
  <2> QED
    BY <1>3, <2>3, <2>4, <2>5, <2>6, <2>7
<1> QED
  BY <1>4, <1>5

StartsAt(file, i) == i = 1 \/ file[i - 1] \in LineEnd

\* The assignments on the lines that read_line returns, and their values.
Assigned(file, k) ==
    {e \in DOMAIN file :
        /\ file[e] = "="
        /\ \E i \in 1 .. e : /\ i = 1 \/ file[i - 1] \in LineEnd
                             /\ \A p \in i .. e : file[p] \notin LineEnd
                             /\ Strips(SubSeq(file, i, e - 1), <<k>>)}

AssignedValue(file, e) ==
    LET R == {j \in e .. Len(file) : \A p \in e .. j : file[p] \notin LineEnd}
    IN  SubSeq(file, e + 1, Max(R))

\* The assignments on a line are what trim_ws finds in front of a "=".
LEMMA AssignedOnLine ==
    ASSUME NEW file \in Text, NEW n \in Nat, n = Len(file),
           NEW i \in 1 .. n + 1, StartsAt(file, i),
           NEW e \in i .. Stop(file, i), NEW k
    PROVE  e \in Assigned(file, k) <=>
               file[e] = "=" /\ trim_ws(SubSeq(file, i, e - 1)) = <<k>>
<1>1. PICK t \in 0 .. n : /\ t = Stop(file, i)
                          /\ \A p \in i .. t : file[p] \notin LineEnd
  BY StopIs
<1>2. DOMAIN file = 1 .. n
  BY LenProperties DEF Text
<1>3. e \in DOMAIN file /\ e \in i .. t /\ e \in Nat /\ e - 1 \in Nat
  BY <1>1, <1>2
<1>4. e \in Assigned(file, k) <=>
         /\ file[e] = "="
         /\ \E j \in 1 .. e : /\ j = 1 \/ file[j - 1] \in LineEnd
                              /\ \A p \in j .. e : file[p] \notin LineEnd
                              /\ Strips(SubSeq(file, j, e - 1), <<k>>)
  BY <1>3 DEF Assigned
<1>5. ASSUME NEW j \in 1 .. e, j = 1 \/ file[j - 1] \in LineEnd,
             \A p \in j .. e : file[p] \notin LineEnd
      PROVE  j = i
  <2>1. ~(j < i)
    <3> SUFFICES ASSUME j < i PROVE FALSE
      OBVIOUS
    <3>1. i # 1 /\ i - 1 \in j .. e
      BY <1>3
    <3> QED
      BY <1>5, <3>1 DEF StartsAt
  <2>2. ~(i < j)
    <3> SUFFICES ASSUME i < j PROVE FALSE
      OBVIOUS
    <3>1. j # 1 /\ j - 1 \in i .. t
      BY <1>3
    <3> QED
      BY <1>1, <1>5, <3>1
  <2> QED
    BY <2>1, <2>2
<1>6. /\ i \in 1 .. e
      /\ i = 1 \/ file[i - 1] \in LineEnd
      /\ \A p \in i .. e : file[p] \notin LineEnd
  BY <1>1, <1>3 DEF StartsAt
<1>7. SubSeq(file, i, e - 1) \in Text
  <2>1. i \in Nat \ {0} /\ e - 1 \in Nat /\ e - 1 <= Len(file)
    BY <1>1, <1>3
  <2> QED
    BY <2>1, PartIs
<1>8. Strips(SubSeq(file, i, e - 1), <<k>>)
         <=> trim_ws(SubSeq(file, i, e - 1)) = <<k>>
  BY <1>7, StripsIs
<1> QED
  BY <1>4, <1>5, <1>6, <1>8

\* A key has no "=" in it: it is what is in front of the first one.
LEMMA KeyIsFirst ==
    ASSUME NEW file \in Text, NEW i \in Nat \ {0}, NEW e \in Nat,
           i <= e, e <= Len(file), NEW k, k # "=",
           trim_ws(SubSeq(file, i, e - 1)) = <<k>>
    PROVE  \A p \in i .. e - 1 : file[p] # "="
<1> SUFFICES ASSUME NEW p \in i .. e - 1, file[p] = "=" PROVE FALSE
  OBVIOUS
<1>1. PICK n \in Nat : n = Len(file)
  BY LenProperties DEF Text
<1>2. e - 1 \in Nat /\ e - 1 <= Len(file)
  BY <1>1
<1>3. PICK s \in Text : s = SubSeq(file, i, e - 1)
  BY <1>2, PartIs
<1>4. p - i + 1 \in 1 .. Len(s) /\ s[p - i + 1] = file[p]
  BY <1>2, <1>3, PartIs
<1>5. s[p - i + 1] = k \/ s[p - i + 1] \in Blank
  BY <1>3, <1>4, TrimOne
<1> QED
  BY <1>4, <1>5 DEF Blank

Before(file, k, p) == {e \in Assigned(file, k) : e < p}

\* The assignment that a line adds to those before it, if any.
LEMMA NewAssignment ==
    ASSUME NEW file \in Text, NEW n \in Nat, n = Len(file),
           NEW i \in 1 .. n + 1, StartsAt(file, i),
           NEW t, t = Stop(file, i), NEW k, k # "=",
           NEW K, K = Places(file, i, t, "=")
    PROVE  /\ K # {} /\ trim_ws(SubSeq(file, i, Min(K) - 1)) = <<k>> =>
                 Before(file, k, t + 2) = Before(file, k, i) \cup {Min(K)}
           /\ ~(K # {} /\ trim_ws(SubSeq(file, i, Min(K) - 1)) = <<k>>) =>
                 Before(file, k, t + 2) = Before(file, k, i)
<1>1. /\ t \in 0 .. n /\ i - 1 <= t
      /\ t < n => file[t + 1] \in LineEnd
  BY StopIs
<1>2. K \in SUBSET Nat /\ K \subseteq i .. t
  BY <1>1 DEF Places
<1>3. K # {} => Min(K) \in K /\ \A p \in K : Min(K) <= p
  BY <1>2, MinIs
<1> DEFINE assigns == K # {} /\ trim_ws(SubSeq(file, i, Min(K) - 1)) = <<k>>
<1>4. \A e \in Assigned(file, k) : e \in 1 .. n /\ file[e] = "="
  <2>1. DOMAIN file = 1 .. n
    BY LenProperties DEF Text
  <2> QED
    BY <2>1 DEF Assigned
<1>5. ASSUME NEW e \in i .. t, e \in Assigned(file, k)
      PROVE  assigns /\ e = Min(K)
  <2>1. file[e] = "=" /\ trim_ws(SubSeq(file, i, e - 1)) = <<k>>
    BY <1>5, AssignedOnLine
  <2>2. e \in K
    BY <2>1 DEF Places
  <2>3. \A p \in i .. e - 1 : file[p] # "="
    <3>1. i \in Nat \ {0} /\ e \in Nat /\ i <= e /\ e <= Len(file)
      BY <1>1
    <3> QED
      BY <2>1, <3>1, KeyIsFirst
  <2>4. PICK m \in i .. t : m = Min(K) /\ m <= e /\ file[m] = "="
    BY <1>2, <1>3, <2>2 DEF Places
  <2>5. m = e
    BY <2>3, <2>4
  <2> QED
    BY <2>1, <2>2, <2>4, <2>5
<1>6. ASSUME assigns PROVE Min(K) \in Assigned(file, k) /\ Min(K) \in i .. t
  <2>1. PICK m \in i .. t : m = Min(K) /\ file[m] = "="
    BY <1>2, <1>3, <1>6 DEF Places
  <2>2. trim_ws(SubSeq(file, i, m - 1)) = <<k>>
    BY <1>6, <2>1
  <2>3. m \in Assigned(file, k)
    BY <2>1, <2>2, AssignedOnLine
  <2> QED
    BY <2>1, <2>3
<1>7. ASSUME NEW e \in Assigned(file, k)
      PROVE  e < t + 2 <=> e < i \/ e \in i .. t
  <2>1. e \in 1 .. n /\ file[e] = "="
    BY <1>4
  <2>2. e # t + 1
    <3> SUFFICES ASSUME e = t + 1 PROVE FALSE
      OBVIOUS
    <3>1. file[t + 1] \in LineEnd
      BY <1>1, <2>1
    <3> QED
      BY <2>1, <3>1 DEF LineEnd
  <2> QED
    BY <1>1, <2>1, <2>2
<1> HIDE DEF assigns
<1>8. \A e : e \in Before(file, k, t + 2)
                <=> e \in Assigned(file, k) /\ e < t + 2
  BY DEF Before
<1>9. \A e : e \in Before(file, k, i) <=> e \in Assigned(file, k) /\ e < i
  BY DEF Before
<1>10. CASE assigns
  <2>1. ASSUME NEW e \in Before(file, k, t + 2)
        PROVE  e \in Before(file, k, i) \/ e = Min(K)
    BY <1>5, <1>7, <1>8, <1>9, Zenon
  <2>2. ASSUME NEW e \in Before(file, k, i) PROVE e \in Before(file, k, t + 2)
    BY <1>7, <1>8, <1>9, Zenon
  <2>3. Min(K) \in Before(file, k, t + 2)
    BY <1>6, <1>7, <1>8, <1>10, Zenon
  <2>4. Before(file, k, t + 2) = Before(file, k, i) \cup {Min(K)}
    BY <2>1, <2>2, <2>3, Zenon
  <2> QED
    BY <1>10, <2>4 DEF assigns
<1>11. CASE ~assigns
  <2>1. ASSUME NEW e \in Before(file, k, t + 2) PROVE e \in Before(file, k, i)
    BY <1>5, <1>7, <1>8, <1>9, <1>11, Zenon
  <2>2. ASSUME NEW e \in Before(file, k, i) PROVE e \in Before(file, k, t + 2)
    BY <1>7, <1>8, <1>9, Zenon
  <2>3. Before(file, k, t + 2) = Before(file, k, i)
    BY <2>1, <2>2, Zenon
  <2> QED
    BY <1>11, <2>3 DEF assigns
<1> QED
  BY <1>10, <1>11

LEMMA ValueOnLine ==
    ASSUME NEW file \in Text, NEW n \in Nat, n = Len(file),
           NEW i \in 1 .. n + 1, NEW t, t = Stop(file, i), NEW e \in i .. t
    PROVE  /\ AssignedValue(file, e) = SubSeq(file, e + 1, t)
           /\ AssignedValue(file, e) \in Text
<1>1. /\ t \in 0 .. n
      /\ \A p \in i .. t : file[p] \notin LineEnd
      /\ t < n => file[t + 1] \in LineEnd
  BY StopIs
<1> DEFINE R == {j \in e .. n : \A p \in e .. j : file[p] \notin LineEnd}
<1>2. AssignedValue(file, e) = SubSeq(file, e + 1, Max(R))
  BY DEF AssignedValue
<1>3. t \in R
  BY <1>1
<1>4. \A j \in R : j <= t
  <2> SUFFICES ASSUME NEW j \in R, t < j PROVE FALSE
    BY <1>1
  <2>1. t < n /\ t + 1 \in e .. j
    BY <1>1
  <2> QED
    BY <1>1, <2>1
<1>5. R \in SUBSET (0 .. n)
  BY <1>1
<1> HIDE DEF R
<1>6. Max(R) = t
  <2>1. Max(R) \in R /\ \A j \in R : j <= Max(R)
    BY <1>3, <1>5, MaxIs
  <2>2. PICK m \in 0 .. n : m = Max(R)
    BY <1>5, <2>1
  <2>3. m <= t /\ t <= m
    BY <1>3, <1>4, <2>1, <2>2
  <2> QED
    BY <1>1, <2>2, <2>3
<1>7. SubSeq(file, e + 1, t) \in Text
  <2>1. e + 1 \in Nat \ {0} /\ t \in Nat /\ t <= Len(file)
    BY <1>1
  <2> QED
    BY <2>1, PartIs
<1> QED
  BY <1>2, <1>6, <1>7

-----------------------------------------------------------------------------
(* What the lines up to a place say. *)

FlagFrom(file, k, A) ==
    IF A = {} THEN Default[k] ELSE Strips(AssignedValue(file, Max(A)), <<"TRUE">>)

WithAddress(file, A) == {e \in A : IsAddress(AssignedValue(file, e))}

AddressFrom(a, file, k, B) ==
    IF B = {} THEN a = Default[k] ELSE StandsFor(AssignedValue(file, Max(B)), a)

\* c is what the lines before place p of the file say.
Written(c, file, p) ==
    /\ \A k \in Flag : c[k] = FlagFrom(file, k, Before(file, k, p))
    /\ \A k \in Address :
          AddressFrom(c[k], file, k, WithAddress(file, Before(file, k, p)))

LEMMA NewMax ==
    ASSUME NEW n \in Nat, NEW A \in SUBSET (0 .. n), NEW m \in 0 .. n,
           \A e \in A : e < m
    PROVE  Max(A \cup {m}) = m
<1>1. A \cup {m} \in SUBSET (0 .. n) /\ A \cup {m} # {}
  OBVIOUS
<1>2. /\ Max(A \cup {m}) \in A \cup {m}
      /\ \A e \in A \cup {m} : e <= Max(A \cup {m})
  BY <1>1, MaxIs
<1>3. PICK x \in 0 .. n : x = Max(A \cup {m})
  BY <1>2
<1>4. m <= x /\ (x = m \/ x < m)
  BY <1>2, <1>3
<1> QED
  BY <1>3, <1>4

\* What read_ip_address makes of a value.
LEMMA AddressRead ==
    ASSUME NEW c \in ConfigValue, NEW k \in Address, NEW v \in Text
    PROVE  LET d == read_ip_address(c, k, trim_ws(v))
           IN  \/ d.aborted
               \/ ~IsAddress(v) /\ d = c
               \/ /\ IsAddress(v)
                  /\ \E a \in AddressValue :
                        d = [c EXCEPT ![k] = a] /\ StandsFor(v, a)
<1> DEFINE d == read_ip_address(c, k, trim_ws(v))
           pair == Split(trim_ws(v), ":")
           whole == Split(v, ":")
           I == {i \in DOMAIN v : v[i] = ":"}
<1>1. PICK n \in Nat : n = Len(v) /\ DOMAIN v = 1 .. n
  BY LenProperties DEF Text
<1>2. PICK m : m = FirstOf(v, ":")
  OBVIOUS
<1>3. /\ m \in 0 .. n
      /\ m # 0 => v[m] = ":"
      /\ \A i \in 1 .. n : v[i] = ":" => m # 0 /\ m <= i
  BY <1>1, <1>2, FirstOfIs
<1>4. /\ whole.found = (m # 0)
      /\ whole.key = SubSeq(v, 1, m - 1)
      /\ whole.value = SubSeq(v, m + 1, n)
      /\ whole.key \in Text /\ whole.value \in Text
  BY <1>1, <1>2, SplitIs
<1>5. /\ pair.found = whole.found
      /\ whole.found => /\ trim_ws(pair.key) = trim_ws(whole.key)
                        /\ trim_ws(pair.value) = trim_ws(whole.value)
  BY AddressParts DEF Blank
<1>6. IsAddress(v) <=> m # 0
  BY <1>1, <1>3 DEF IsAddress, Contains
<1>7. PICK ip \in Text, port \in Port :
         ip = trim_ws(pair.key) /\ port = atoi(trim_ws(pair.value))
  <2>1. trim_ws(v) \in Text
    BY TrimType
  <2>2. pair.key \in Text /\ pair.value \in Text
    BY <2>1, SplitIs
  <2> QED
    BY <2>2, TrimType, AtoiType
<1>8. PICK a \in AddressValue : a = [ip |-> ip, port |-> port]
  BY DEF AddressValue
<1>9. d = IF ~pair.found THEN c
          ELSE IF Len(ip) >= MAX_IP_ADDR_LEN
                 THEN [c EXCEPT !.aborted = TRUE]
          ELSE [c EXCEPT ![k] = a]
  BY <1>7, <1>8, Zenon DEF read_ip_address
<1>10. [c EXCEPT !.aborted = TRUE].aborted
  BY DEF ConfigValue
<1>11. ASSUME m # 0 PROVE StandsFor(v, a)
  <2>1. Min(I) = m
    <3>1. m \in I /\ I \in SUBSET Nat
      BY <1>1, <1>3, <1>11
    <3>2. Min(I) \in I /\ \A i \in I : Min(I) <= i
      BY <3>1, MinIs
    <3>3. PICK x \in 1 .. n : x = Min(I)
      BY <1>1, <3>2
    <3>4. x <= m /\ m <= x
      BY <1>1, <1>3, <3>1, <3>2, <3>3
    <3> QED
      BY <1>3, <3>3, <3>4
  <2>2. a.ip = ip /\ a.port = port
    BY <1>8
  <2>3. Strips(SubSeq(v, 1, m - 1), a.ip)
    <3>1. ip = trim_ws(whole.key) /\ whole.key = SubSeq(v, 1, m - 1)
      BY <1>4, <1>5, <1>7, <1>11
    <3>2. SubSeq(v, 1, m - 1) \in Text
      BY <1>4
    <3> HIDE DEF whole
    <3> QED
      BY <2>2, <3>1, <3>2, StripsIs
  <2>4. LET written == PortIn(SubSeq(v, m + 1, n))
        IN  written \in Port => a.port = written
    <3>1. port = atoi(trim_ws(whole.value)) /\ whole.value = SubSeq(v, m + 1, n)
      BY <1>4, <1>5, <1>7, <1>11
    <3>2. SubSeq(v, m + 1, n) \in Text
      BY <1>4
    <3> HIDE DEF whole
    <3> QED
      BY <2>2, <3>1, <3>2, PortIs
  <2> HIDE DEF I
  <2>5. StandsFor(v, a)
           <=> /\ Strips(SubSeq(v, 1, Min(I) - 1), a.ip)
               /\ PortIn(SubSeq(v, Min(I) + 1, Len(v))) \in Port =>
                      a.port = PortIn(SubSeq(v, Min(I) + 1, Len(v)))
    BY Zenon DEF StandsFor, I
  <2> QED
    BY <1>1, <2>1, <2>3, <2>4, <2>5, Zenon
<1> HIDE DEF d, pair, whole
<1>12. CASE m = 0
  BY <1>4, <1>5, <1>6, <1>9, <1>12, Zenon DEF d
<1>13. CASE m # 0
  BY <1>4, <1>5, <1>6, <1>9, <1>10, <1>11, <1>13, Zenon DEF d
<1> QED
  BY <1>12, <1>13

\* An assignment is the last one up to the line behind it.
LEMMA LastAssignment ==
    ASSUME NEW file \in Text, NEW n \in Nat, n = Len(file),
           NEW i \in 1 .. n + 1, StartsAt(file, i),
           NEW t, t = Stop(file, i), NEW k, k # "=",
           NEW K, K = Places(file, i, t, "="), K # {}, NEW m, m = Min(K),
           trim_ws(SubSeq(file, i, m - 1)) = <<k>>
    PROVE  LET v == SubSeq(file, m + 1, t)
               A == Before(file, k, t + 2)
               B == WithAddress(file, A)
           IN  /\ v \in Text /\ AssignedValue(file, m) = v
               /\ A # {} /\ Max(A) = m
               /\ IsAddress(v) => B # {} /\ Max(B) = m
               /\ ~IsAddress(v) => B = WithAddress(file, Before(file, k, i))
<1>1. t \in 0 .. n /\ i - 1 <= t
  BY StopIs
<1>2. m \in i .. t
  <2>1. K \in SUBSET Nat /\ K \subseteq i .. t
    BY <1>1 DEF Places
  <2> QED
    BY <2>1, MinIs
<1>3. /\ AssignedValue(file, m) = SubSeq(file, m + 1, t)
      /\ AssignedValue(file, m) \in Text
  BY <1>2, ValueOnLine
<1> DEFINE v == SubSeq(file, m + 1, t)
           A == Before(file, k, t + 2)
           C == Before(file, k, i)
           B == WithAddress(file, A)
<1>4. A = C \cup {m}
  <2>1. K # {} /\ trim_ws(SubSeq(file, i, Min(K) - 1)) = <<k>>
    OBVIOUS
  <2> QED
    BY <2>1, NewAssignment
<1>5. \A e \in C : e \in 0 .. n /\ e < m
  <2>1. DOMAIN file = 1 .. n
    BY LenProperties DEF Text
  <2>2. \A e \in C : e \in DOMAIN file /\ e < i
    BY DEF Before, Assigned
  <2> QED
    BY <1>2, <2>1, <2>2
<1>6. m \in 0 .. n
  BY <1>1, <1>2
<1> HIDE DEF A, C, v
<1>7. A # {} /\ Max(A) = m
  BY <1>4, <1>5, <1>6, NewMax
<1>8. ASSUME IsAddress(v) PROVE B # {} /\ Max(B) = m
  <2>1. B = WithAddress(file, C) \cup {m}
    BY <1>3, <1>4, <1>8 DEF v, WithAddress
  <2>2. \A e \in WithAddress(file, C) : e \in 0 .. n /\ e < m
    BY <1>5 DEF WithAddress
  <2>3. WithAddress(file, C) \in SUBSET (0 .. n)
    BY <2>2
  <2> QED
    BY <1>6, <2>1, <2>2, <2>3, NewMax
<1>9. ASSUME ~IsAddress(v) PROVE B = WithAddress(file, C)
  BY <1>3, <1>4, <1>9 DEF v, WithAddress
<1> QED
  BY <1>3, <1>7, <1>8, <1>9 DEF A, C, v

LEMMA OneSymbol ==
    ASSUME NEW s \in Text
    PROVE  Len(s) = 1 <=> s = <<s[1]>>
<1>1. ASSUME Len(s) = 1 PROVE s = <<s[1]>>
  <2>1. s \in [1 .. 1 -> Symbol]
    BY <1>1, LenProperties DEF Text
  <2> QED
    BY <1>1, <2>1, LenProperties DEF Text
<1>2. ASSUME s = <<s[1]>> PROVE Len(s) = 1
  <2>1. PICK c : c = s[1]
    OBVIOUS
  <2>2. s = <<c>>
    BY <1>2, <2>1
  <2> QED
    BY <2>2
<1> QED
  BY <1>1, <1>2

\* Reading a line adds what it says to what the lines before it say.
LEMMA StepLine ==
    ASSUME NEW file \in Text, NEW n \in Nat, n = Len(file),
           NEW i \in 1 .. n + 1, StartsAt(file, i),
           NEW t, t = Stop(file, i),
           NEW c \in ConfigValue, c.aborted \/ Written(c, file, i),
           NEW d, d = read_config_line(c, SubSeq(file, i, t))
    PROVE  d.aborted \/ Written(d, file, t + 2)
<1>1. t \in 0 .. n /\ i - 1 <= t
  BY StopIs
<1>2. PICK K : K = Places(file, i, t, "=")
  OBVIOUS
<1>3. PICK m : m = Min(K)
  OBVIOUS
<1> DEFINE pair == Split(SubSeq(file, i, t), "=")
<1>4. /\ pair.found = (K # {})
      /\ K # {} => /\ m \in i .. t
                   /\ pair.key = SubSeq(file, i, m - 1)
                   /\ pair.value = SubSeq(file, m + 1, t)
  <2>1. i \in Nat \ {0} /\ t \in Nat /\ t <= Len(file)
    BY <1>1
  <2>2. K \subseteq i .. t
    BY <1>2 DEF Places
  <2> HIDE DEF pair
  <2>3. /\ pair.found = (K # {})
        /\ K # {} => /\ Min(K) \in K
                     /\ pair.key = SubSeq(file, i, Min(K) - 1)
                     /\ pair.value = SubSeq(file, Min(K) + 1, t)
    BY <1>2, <2>1, SplitPart DEF pair
  <2> QED
    BY <1>3, <2>2, <2>3
<1>5. PICK key, value, rest :
         /\ key = trim_ws(pair.key) /\ rest = pair.value
         /\ value = trim_ws(rest)
  OBVIOUS
<1>6. PICK flag \in BOOLEAN : flag = (value = <<"TRUE">>)
  BY Zenon
<1>7. d = IF c.aborted \/ ~pair.found \/ Len(key) # 1 THEN c
          ELSE IF key[1] \in Flag THEN [c EXCEPT ![key[1]] = flag]
          ELSE IF key[1] \in Address THEN read_ip_address(c, key[1], value)
          ELSE c
  BY <1>5, <1>6, Zenon DEF read_config_line
<1> HIDE DEF pair
<1>8. \A k \in Flag \cup Address : k # "="
  BY DEF Flag, Address
<1>9. K # {} => key \in Text /\ (Len(key) = 1 <=> key = <<key[1]>>)
  <2> SUFFICES ASSUME K # {}
               PROVE  key \in Text /\ (Len(key) = 1 <=> key = <<key[1]>>)
    OBVIOUS
  <2>1. i \in Nat \ {0} /\ m - 1 \in Nat /\ m - 1 <= Len(file)
    BY <1>1, <1>4
  <2>2. key \in Text
    BY <1>4, <1>5, <2>1, PartIs, TrimType
  <2> QED
    BY <2>2, OneSymbol
\* The keys that the line says nothing about.
<1>10. ASSUME NEW k \in Flag \cup Address, ~(K # {} /\ key = <<k>>)
       PROVE  Before(file, k, t + 2) = Before(file, k, i)
  <2>1. k # "="
    BY <1>8
  <2>2. ~(K # {} /\ trim_ws(SubSeq(file, i, Min(K) - 1)) = <<k>>)
    BY <1>3, <1>4, <1>5, <1>10, Zenon
  <2> QED
    BY <1>2, <2>1, <2>2, NewAssignment
<1>11. CASE c.aborted
  BY <1>7, <1>11
<1>12. CASE ~c.aborted /\ (K = {} \/ Len(key) # 1)
  <2>1. d = c /\ Written(c, file, i)
    BY <1>4, <1>7, <1>12
  <2>2. \A k \in Flag \cup Address : ~(K # {} /\ key = <<k>>)
    BY <1>9, <1>12
  <2>3. \A k \in Flag \cup Address :
           Before(file, k, t + 2) = Before(file, k, i)
    BY <1>10, <2>2
  <2> QED
    BY <2>1, <2>3 DEF Written
<1>13. ASSUME ~c.aborted, K # {}, Len(key) = 1
       PROVE  d.aborted \/ Written(d, file, t + 2)
  <2>1. PICK x : x = key[1] /\ key = <<x>>
    BY <1>9, <1>13
  <2>2. \A k \in Flag \cup Address : key = <<k>> <=> k = x
    BY <2>1
  <2>3. Written(c, file, i)
    BY <1>13
  <2>4. d = IF x \in Flag THEN [c EXCEPT ![x] = flag]
            ELSE IF x \in Address THEN read_ip_address(c, x, value)
            ELSE c
    BY <1>4, <1>7, <1>13, <2>1, Zenon
  <2>5. \A k \in Flag \cup Address :
           k # x => Before(file, k, t + 2) = Before(file, k, i)
    BY <1>10, <2>2
  <2>6. ASSUME x \in Flag \cup Address
        PROVE  /\ rest \in Text /\ AssignedValue(file, m) = rest
               /\ Before(file, x, t + 2) # {}
               /\ Max(Before(file, x, t + 2)) = m
               /\ IsAddress(rest) =>
                     /\ WithAddress(file, Before(file, x, t + 2)) # {}
                     /\ Max(WithAddress(file, Before(file, x, t + 2))) = m
               /\ ~IsAddress(rest) =>
                     WithAddress(file, Before(file, x, t + 2))
                       = WithAddress(file, Before(file, x, i))
    <3>1. x # "="
      BY <1>8, <2>6
    <3>2. trim_ws(SubSeq(file, i, m - 1)) = <<x>>
      BY <1>4, <1>5, <1>13, <2>1
    <3>3. rest = SubSeq(file, m + 1, t)
      BY <1>4, <1>5, <1>13
    <3> QED
      BY <1>2, <1>3, <1>13, <3>1, <3>2, <3>3, LastAssignment
  <2>7. CASE x \in Flag
    <3>1. d = [c EXCEPT ![x] = flag] /\ x \notin Address
      BY <2>4, <2>7 DEF Flag, Address
    <3>2. /\ d[x] = flag
          /\ \A k \in Flag \cup Address : k # x => d[k] = c[k]
      BY <2>7, <3>1 DEF ConfigValue, Flag, Address
    <3>3. Strips(rest, <<"TRUE">>) <=> <<"TRUE">> = value
      BY <1>5, <2>6, <2>7, StripsIs
    <3>4. d[x] = FlagFrom(file, x, Before(file, x, t + 2))
      <4>1. Strips(rest, <<"TRUE">>) \in BOOLEAN
        BY DEF Strips
      <4> QED
        BY <1>6, <2>6, <2>7, <3>2, <3>3, <4>1, Zenon DEF FlagFrom
    <3>5. ASSUME NEW k \in Flag
          PROVE  d[k] = FlagFrom(file, k, Before(file, k, t + 2))
      <4>1. CASE k = x
        BY <3>4, <4>1
      <4>2. CASE k # x
        BY <2>3, <2>5, <3>2, <4>2 DEF Written
      <4> QED
        BY <4>1, <4>2
    <3>6. ASSUME NEW k \in Address
          PROVE  AddressFrom(d[k], file, k,
                             WithAddress(file, Before(file, k, t + 2)))
      BY <2>3, <2>5, <3>1, <3>2 DEF Written
    <3> QED
      BY <3>5, <3>6, Zenon DEF Written
  <2>8. CASE x \in Address
    <3>1. d = read_ip_address(c, x, trim_ws(rest)) /\ x \notin Flag
      BY <1>5, <2>4, <2>8 DEF Flag, Address
    <3>2. \/ d.aborted
          \/ ~IsAddress(rest) /\ d = c
          \/ /\ IsAddress(rest)
             /\ \E a \in AddressValue :
                   d = [c EXCEPT ![x] = a] /\ StandsFor(rest, a)
      <4>1. rest \in Text
        BY <2>6, <2>8
      <4> QED
        BY <2>8, <3>1, <4>1, AddressRead
    <3>3. CASE ~IsAddress(rest) /\ d = c
      <4>1. ASSUME NEW k \in Flag
            PROVE  d[k] = FlagFrom(file, k, Before(file, k, t + 2))
        BY <2>3, <2>5, <3>1, <3>3 DEF Written
      <4>2. ASSUME NEW k \in Address
            PROVE  AddressFrom(d[k], file, k,
                               WithAddress(file, Before(file, k, t + 2)))
        <5>1. WithAddress(file, Before(file, k, t + 2))
                = WithAddress(file, Before(file, k, i))
          BY <2>5, <2>6, <2>8, <3>3
        <5> QED
          BY <2>3, <3>3, <5>1 DEF Written
      <4> QED
        BY <4>1, <4>2, Zenon DEF Written
    <3>4. ASSUME IsAddress(rest), NEW a \in AddressValue,
                 d = [c EXCEPT ![x] = a], StandsFor(rest, a)
          PROVE  Written(d, file, t + 2)
      <4>1. /\ d[x] = a
            /\ \A k \in Flag \cup Address : k # x => d[k] = c[k]
        BY <2>8, <3>4 DEF ConfigValue, Flag, Address
      <4>2. ASSUME NEW k \in Flag
            PROVE  d[k] = FlagFrom(file, k, Before(file, k, t + 2))
        BY <2>3, <2>5, <3>1, <4>1 DEF Written
      <4>3. AddressFrom(d[x], file, x,
                        WithAddress(file, Before(file, x, t + 2)))
        BY <2>6, <2>8, <3>4, <4>1, Zenon DEF AddressFrom
      <4>4. ASSUME NEW k \in Address
            PROVE  AddressFrom(d[k], file, k,
                               WithAddress(file, Before(file, k, t + 2)))
        <5>1. CASE k = x
          BY <4>3, <5>1
        <5>2. CASE k # x
          BY <2>3, <2>5, <4>1, <5>2 DEF Written
        <5> QED
          BY <5>1, <5>2
      <4> QED
        BY <4>2, <4>4, Zenon DEF Written
    <3> QED
      BY <3>2, <3>3, <3>4
  <2>9. CASE x \notin Flag \cup Address
    <3>1. d = c
      BY <2>4, <2>9
    <3>2. \A k \in Flag \cup Address :
             Before(file, k, t + 2) = Before(file, k, i)
      BY <2>5, <2>9
    <3> QED
      BY <2>3, <3>1, <3>2 DEF Written
  <2> QED
    BY <2>7, <2>8, <2>9
<1> QED
  BY <1>11, <1>12, <1>13

LEMMA Prepended ==
    ASSUME NEW line \in Text, NEW rest \in Seq(Text),
           NEW q \in Nat, q = Len(rest)
    PROVE  /\ Len(FirstAndRest(line, rest)) = q + 1
           /\ FirstAndRest(line, rest)[1] = line
           /\ \A x \in 1 .. q : FirstAndRest(line, rest)[x + 1] = rest[x]
<1>1. PICK one \in Seq(Text) : one = <<line>> /\ Len(one) = 1 /\ one[1] = line
  <2>1. PICK one : one = <<line>>
    OBVIOUS
  <2>2. one \in Seq(Text) /\ Len(one) = 1 /\ one[1] = line
    BY <2>1
  <2> QED
    BY <2>1, <2>2
<1>2. PICK s : s = one \o rest
  OBVIOUS
<1>3. /\ Len(s) = Len(one) + Len(rest)
      /\ \A x \in 1 .. Len(one) + Len(rest) :
            s[x] = IF x <= Len(one) THEN one[x] ELSE rest[x - Len(one)]
  BY <1>2, ConcatProperties, Zenon
<1>4. /\ Len(s) = 1 + q
      /\ \A x \in 1 .. 1 + q : s[x] = IF x <= 1 THEN one[x] ELSE rest[x - 1]
  BY <1>1, <1>3
<1>5. s[1] = line
  BY <1>1, <1>4
<1>6. ASSUME NEW x \in 1 .. q PROVE s[x + 1] = rest[x]
  <2>1. x + 1 \in 1 .. 1 + q /\ ~(x + 1 <= 1) /\ (x + 1) - 1 = x
    OBVIOUS
  <2> QED
    BY <1>4, <2>1
<1>7. s = FirstAndRest(line, rest)
  BY <1>1, <1>2, Zenon DEF FirstAndRest
<1> QED
  BY <1>4, <1>5, <1>6, <1>7

\* The first of the lines from a place on, and what is behind it.
LEMMA FirstLine ==
    ASSUME NEW file \in Text, NEW f, Lines(f, file, 1),
           NEW n \in Nat, n = Len(file), NEW i \in 1 .. n + 1,
           NEW t, t = Stop(file, i)
    PROVE  /\ Len(f[i]) \in Nat \ {0}
           /\ f[i][1] = SubSeq(file, i, t)
           /\ EndOf(file, i) = 0 => t = n /\ Len(f[i]) = 1
           /\ EndOf(file, i) # 0 =>
                 /\ t + 2 \in 1 .. n + 1 /\ StartsAt(file, t + 2)
                 /\ Len(f[i]) = Len(f[t + 2]) + 1
                 /\ \A x \in 1 .. Len(f[t + 2]) : f[i][x + 1] = f[t + 2][x]
<1>1. /\ t \in 0 .. n
      /\ EndOf(file, i) = 0 => t = n
      /\ EndOf(file, i) # 0 => /\ t < n /\ EndOf(file, i) = t + 1
                               /\ file[t + 1] \in LineEnd
  BY StopIs
<1>2. \A j \in 1 .. n + 1 : f[j] = LinesFrom(f, file, j)
  BY Zenon DEF Lines
<1>3. \A j \in 1 .. n + 1 : f[j] \in Seq(Text)
  BY LinesType
<1>4. PICK line \in Text : line = SubSeq(file, i, t)
  <2>1. i \in Nat \ {0} /\ t \in Nat /\ t <= Len(file)
    BY <1>1
  <2> QED
    BY <2>1, PartIs
<1>5. CASE EndOf(file, i) = 0
  <2>1. f[i] = <<line>>
    BY <1>1, <1>2, <1>4, <1>5, Zenon DEF LinesFrom
  <2>2. Len(f[i]) = 1 /\ f[i][1] = line
    BY <2>1
  <2> QED
    BY <1>1, <1>4, <1>5, <2>2
<1>6. CASE EndOf(file, i) # 0
  <2>1. /\ t + 2 \in 1 .. n + 1 /\ (t + 1) + 1 = t + 2 /\ (t + 1) - 1 = t
        /\ (t + 2) - 1 = t + 1
    BY <1>1, <1>6
  <2>2. PICK rest \in Seq(Text) : rest = f[t + 2]
    BY <1>3, <2>1
  <2>3. f[i] = FirstAndRest(line, rest)
    BY <1>1, <1>2, <1>4, <1>6, <2>1, <2>2, Zenon DEF LinesFrom
  <2>4. PICK q \in Nat : q = Len(rest)
    BY LenProperties
  <2>5. /\ Len(f[i]) = q + 1
        /\ f[i][1] = line
        /\ \A x \in 1 .. q : f[i][x + 1] = rest[x]
    <3>1. /\ Len(FirstAndRest(line, rest)) = q + 1
          /\ FirstAndRest(line, rest)[1] = line
          /\ \A x \in 1 .. q : FirstAndRest(line, rest)[x + 1] = rest[x]
      BY <2>2, <2>4, Prepended
    <3> QED
      BY <2>3, <3>1, Zenon
  <2>6. StartsAt(file, t + 2)
    BY <1>1, <1>6, <2>1 DEF StartsAt
  <2>7. q + 1 \in Nat \ {0} /\ Len(f[t + 2]) = q
    BY <2>2, <2>4
  <2>8. \A x \in 1 .. Len(f[t + 2]) : f[i][x + 1] = f[t + 2][x]
    BY <2>2, <2>4, <2>5, Zenon
  <2>9. Len(f[i]) = Len(f[t + 2]) + 1 /\ Len(f[i]) \in Nat \ {0}
    BY <2>5, <2>7
  <2>10. f[i][1] = SubSeq(file, i, t)
    BY <1>4, <2>5
  <2> QED
    BY <1>6, <2>1, <2>6, <2>8, <2>9, <2>10, Zenon
<1> QED
  BY <1>5, <1>6

\* What the whole file says.
\* Unless a line is cut that could be an assignment, the lines that read_line
\* returns say what the lines of the file say.
LEMMA NothingCut ==
    ASSUME NEW file \in Text, ~HasCutLine(file)
    PROVE  \A k : /\ Assigned(file, k) = Assignments(file, k)
                  /\ \A e \in Assignments(file, k) :
                         AssignedValue(file, e) = ValueAt(file, e)
<1>1. PICK n \in Nat : n = Len(file) /\ DOMAIN file = 1 .. n
  BY LenProperties DEF Text
<1>2. ASSUME NEW e \in 1 .. n, file[e] = "=", NEW i \in 1 .. e
      PROVE  /\ SameLine(file, i, e) <=> \A p \in i .. e : file[p] \notin LineEnd
             /\ SameLine(file, i, e) =>
                    (i = 1 \/ file[i - 1] = "newline"
                       <=> i = 1 \/ file[i - 1] \in LineEnd)
  <2>1. ASSUME NEW j \in 1 .. e, file[j] = "char 255",
               \A p \in j + 1 .. e : file[p] # "newline"
        PROVE  FALSE
    <3>1. SameLine(file, e, j)
      <4>1. \A p \in e .. j : p = e
        OBVIOUS
      <4> QED
        BY <1>2, <4>1, Zenon DEF SameLine
    <3>2. SameLine(file, j, e)
      <4>1. ASSUME NEW p \in j .. e PROVE file[p] # "newline"
        <5>1. p = j \/ p \in j + 1 .. e
          OBVIOUS
        <5> QED
          BY <2>1, <5>1
      <4> QED
        BY <4>1 DEF SameLine
    <3>3. e \in DOMAIN file /\ j \in DOMAIN file
      BY <1>1
    <3> QED
      BY <1>2, <2>1, <3>1, <3>2, <3>3, Zenon DEF HasCutLine
  <2>2. ASSUME SameLine(file, i, e), NEW p \in i .. e PROVE file[p] # "char 255"
    <3>1. p \in 1 .. e /\ \A q \in p + 1 .. e : q \in i .. e
      OBVIOUS
    <3> QED
      BY <2>1, <2>2, <3>1 DEF SameLine
  <2>3. ASSUME SameLine(file, i, e), i # 1 PROVE file[i - 1] # "char 255"
    <3>1. i - 1 \in 1 .. e /\ \A q \in (i - 1) + 1 .. e : q \in i .. e
      BY <2>3
    <3> QED
      BY <2>1, <2>3, <3>1 DEF SameLine
  <2> QED
    BY <2>2, <2>3 DEF SameLine, LineEnd
<1>3. ASSUME NEW e \in 1 .. n, file[e] = "=", NEW j \in e .. n
      PROVE  SameLine(file, e, j) <=> \A p \in e .. j : file[p] \notin LineEnd
  <2>1. ASSUME SameLine(file, e, j), NEW p \in e .. j, file[p] = "char 255"
        PROVE  FALSE
    <3>1. e \in DOMAIN file /\ p \in DOMAIN file
      BY <1>1
    <3>2. (\A x \in e .. p : x \in e .. j) /\ \A x \in p .. e : x = e
      OBVIOUS
    <3>3. SameLine(file, e, p) /\ SameLine(file, p, e)
      BY <1>3, <2>1, <3>2, Zenon DEF SameLine
    <3> QED
      BY <1>3, <2>1, <3>1, <3>3, Zenon DEF HasCutLine
  <2> QED
    BY <2>1 DEF SameLine, LineEnd
<1>4. ASSUME NEW k, NEW e PROVE e \in Assigned(file, k) <=> e \in Assignments(file, k)
  <2>1. CASE e \in 1 .. n /\ file[e] = "="
    <3> DEFINE Key(i) == Strips(SubSeq(file, i, e - 1), <<k>>)
    <3>1. e \in Assigned(file, k)
             <=> \E i \in 1 .. e : /\ i = 1 \/ file[i - 1] \in LineEnd
                                   /\ \A p \in i .. e : file[p] \notin LineEnd
                                   /\ Key(i)
      BY <1>1, <2>1, Zenon DEF Assigned
    <3>2. e \in Assignments(file, k)
             <=> \E i \in 1 .. e : /\ i = 1 \/ file[i - 1] = "newline"
                                   /\ SameLine(file, i, e)
                                   /\ Key(i)
      BY <1>1, <2>1, Zenon DEF Assignments
    <3> HIDE DEF Key
    <3> QED
      BY <1>2, <2>1, <3>1, <3>2, Zenon
  <2>2. CASE ~(e \in 1 .. n /\ file[e] = "=")
    BY <1>1, <2>2, Zenon DEF Assigned, Assignments
  <2> QED
    BY <2>1, <2>2
<1>5. ASSUME NEW k, NEW e \in Assignments(file, k)
      PROVE  AssignedValue(file, e) = ValueAt(file, e)
  <2>1. e \in 1 .. n /\ file[e] = "="
    BY <1>1, Zenon DEF Assignments
  <2>2. {j \in e .. Len(file) : \A p \in e .. j : file[p] \notin LineEnd}
          = {j \in e .. Len(file) : SameLine(file, e, j)}
    BY <1>1, <1>3, <2>1, Zenon
  <2> QED
    BY <2>2, Zenon DEF AssignedValue, ValueAt
<1>6. ASSUME NEW k PROVE Assigned(file, k) = Assignments(file, k)
  <2>1. /\ Assigned(file, k) \subseteq Assignments(file, k)
        /\ Assignments(file, k) \subseteq Assigned(file, k)
    BY <1>4
  <2> QED
    BY <2>1
<1> QED
  BY <1>5, <1>6, Zenon

LEMMA WrittenAll ==
    ASSUME NEW file \in Text, NEW n \in Nat, n = Len(file), NEW c,
           Written(c, file, n + 2), ~HasCutLine(file)
    PROVE  IsAsWritten(c, file)
<1>1. \A k : Before(file, k, n + 2) = Assigned(file, k)
  <2>1. DOMAIN file = 1 .. n
    BY LenProperties DEF Text
  <2>2. ASSUME NEW k, NEW e \in Assigned(file, k) PROVE e < n + 2
    <3>1. e \in 1 .. n
      BY <2>1 DEF Assigned
    <3> QED
      BY <3>1
  <2> QED
    BY <2>2 DEF Before
<1>2. \A k : /\ Assigned(file, k) = Assignments(file, k)
             /\ \A e \in Assignments(file, k) :
                    AssignedValue(file, e) = ValueAt(file, e)
  BY NothingCut
<1>3. ASSUME NEW k, NEW A \in SUBSET Assignments(file, k), A # {}
      PROVE  Max(A) \in A /\ AssignedValue(file, Max(A)) = ValueAt(file, Max(A))
  <2>1. Assignments(file, k) \subseteq DOMAIN file
    BY Zenon DEF Assignments
  <2>2. DOMAIN file = 1 .. n
    BY LenProperties DEF Text
  <2>3. A \in SUBSET (0 .. n)
    BY <2>1, <2>2
  <2>4. Max(A) \in A
    BY <1>3, <2>3, MaxIs
  <2> QED
    BY <1>2, <2>4
<1>4. ASSUME NEW k \in Flag PROVE c[k] = FlagIn(file, k)
  <2>1. c[k] = FlagFrom(file, k, Assignments(file, k))
    BY <1>1, <1>2, Zenon DEF Written
  <2>2. CASE Assignments(file, k) = {}
    BY <2>1, <2>2, Zenon DEF FlagFrom, FlagIn
  <2>3. CASE Assignments(file, k) # {}
    <3>1. PICK m : m = Max(Assignments(file, k))
      OBVIOUS
    <3>2. AssignedValue(file, m) = ValueAt(file, m)
      BY <1>3, <2>3, <3>1
    <3> QED
      BY <2>1, <2>3, <3>1, <3>2, Zenon DEF FlagFrom, FlagIn
  <2> QED
    BY <2>2, <2>3
<1>5. ASSUME NEW k \in Address PROVE HasAddress(c, file, k)
  <2> DEFINE A == {e \in Assignments(file, k) : IsAddress(ValueAt(file, e))}
  <2>1. AddressFrom(c[k], file, k, WithAddress(file, Assignments(file, k)))
    BY <1>1, <1>2, Zenon DEF Written
  <2>2. WithAddress(file, Assignments(file, k)) = A
    <3>1. \A e \in Assignments(file, k) :
              IsAddress(AssignedValue(file, e)) <=> IsAddress(ValueAt(file, e))
      BY <1>2, Zenon
    <3> QED
      BY <3>1 DEF WithAddress
  <2>3. HasAddress(c, file, k)
          <=> IF A = {} THEN c[k] = Default[k]
              ELSE StandsFor(ValueAt(file, Max(A)), c[k])
    BY Zenon DEF HasAddress
  <2>4. A \in SUBSET Assignments(file, k)
    OBVIOUS
  <2> HIDE DEF A
  <2>5. CASE A = {}
    BY <2>1, <2>2, <2>3, <2>5, Zenon DEF AddressFrom
  <2>6. CASE A # {}
    <3>1. PICK m : m = Max(A)
      OBVIOUS
    <3>2. AssignedValue(file, m) = ValueAt(file, m)
      BY <1>3, <2>4, <2>6, <3>1
    <3> QED
      BY <2>1, <2>2, <2>3, <2>6, <3>1, <3>2, Zenon DEF AddressFrom
  <2> QED
    BY <2>5, <2>6
<1> QED
  BY <1>4, <1>5 DEF IsAsWritten

LEMMA WrittenNone ==
    ASSUME NEW file \in Text
    PROVE  Written(Default, file, 1)
<1>1. \A k : Before(file, k, 1) = {}
  <2>1. PICK n \in Nat : n = Len(file) /\ DOMAIN file = 1 .. n
    BY LenProperties DEF Text
  <2>2. ASSUME NEW k, NEW e \in Assigned(file, k) PROVE ~(e < 1)
    <3>1. e \in 1 .. n
      BY <2>1 DEF Assigned
    <3> QED
      BY <3>1
  <2> QED
    BY <2>2 DEF Before
<1> QED
  BY <1>1, Zenon DEF Written, FlagFrom, AddressFrom, WithAddress

\* read_config reads what is written, or ends the program.
LEMMA ReadConfigIs ==
    ASSUME NEW file \in Text
    PROVE  \/ read_config(file).aborted
           \/ HasCutLine(file)
           \/ IsAsWritten(read_config(file), file)
<1>1. PICK n \in Nat : n = Len(file)
  BY LenProperties DEF Text
<1>2. PICK f : Lines(f, file, 1) /\ read_lines(file) = f[1]
  BY ReadLinesIs
<1>3. 1 \in 1 .. n + 1
  OBVIOUS
<1>4. PICK ls \in Seq(Text) : ls = f[1]
  BY <1>1, <1>2, <1>3, LinesType
<1>5. PICK m \in Nat \ {0} : m = Len(ls)
  BY <1>1, <1>2, <1>3, <1>4, FirstLine
<1>6. PICK g : /\ Reads(g, ls)
               /\ FoldLeft(read_config_line, Default, ls) = g[m]
  BY <1>5, ReadsExists
<1>7. /\ g[0] = Default
      /\ \A j \in 0 .. m : g[j] \in ConfigValue
      /\ \A j \in 1 .. m : g[j] = read_config_line(g[j - 1], ls[j])
  BY <1>5, <1>6 DEF Reads
<1>8. read_config(file) = g[m]
  BY <1>2, <1>4, <1>6 DEF read_config
\* The lines behind the first j of them start at place i.
<1> DEFINE Rest(i, j) ==
              /\ StartsAt(file, i)
              /\ Len(f[i]) = m - j
              /\ \A x \in 1 .. m - j : ls[j + x] = f[i][x]
              /\ g[j].aborted \/ Written(g[j], file, i)
<1>9. Rest(1, 0)
  <2>1. StartsAt(file, 1)
    BY DEF StartsAt
  <2>2. Len(f[1]) = m - 0 /\ \A x \in 1 .. m - 0 : ls[0 + x] = f[1][x]
    BY <1>4, <1>5
  <2>3. Written(g[0], file, 1)
    BY <1>7, WrittenNone
  <2> QED
    BY <2>1, <2>2, <2>3
<1>10. ASSUME NEW j \in 0 .. m - 1, NEW i \in 1 .. n + 1, Rest(i, j),
              NEW t, t = Stop(file, i)
       PROVE  /\ g[j + 1].aborted \/ Written(g[j + 1], file, t + 2)
              /\ j + 1 < m => t + 2 \in 1 .. n + 1 /\ Rest(t + 2, j + 1)
              /\ j + 1 = m => t = n
  <2>1. /\ Len(f[i]) \in Nat \ {0}
        /\ f[i][1] = SubSeq(file, i, t)
        /\ EndOf(file, i) = 0 => t = n /\ Len(f[i]) = 1
        /\ EndOf(file, i) # 0 =>
              /\ t + 2 \in 1 .. n + 1 /\ StartsAt(file, t + 2)
              /\ Len(f[i]) = Len(f[t + 2]) + 1
              /\ \A x \in 1 .. Len(f[t + 2]) : f[i][x + 1] = f[t + 2][x]
    <3>1. t = Stop(file, i) /\ i \in 1 .. n + 1
      BY <1>10
    <3>2. Lines(f, file, 1) /\ n \in Nat /\ n = Len(file) /\ file \in Text
      BY <1>1, <1>2
    <3> HIDE DEF Rest
    <3> QED
      BY <3>1, <3>2, FirstLine
  <2>2. ls[j + 1] = SubSeq(file, i, t)
    <3>1. 1 \in 1 .. m - j
      OBVIOUS
    <3> QED
      BY <1>10, <2>1, <3>1
  <2>3. g[j + 1] = read_config_line(g[j], SubSeq(file, i, t))
    <3>1. j + 1 \in 1 .. m /\ (j + 1) - 1 = j
      OBVIOUS
    <3> QED
      BY <1>7, <2>2, <3>1
  <2>4. g[j] \in ConfigValue
    BY <1>7
  <2>5. g[j + 1].aborted \/ Written(g[j + 1], file, t + 2)
    BY <1>1, <1>10, <2>3, <2>4, StepLine
  <2>6. ASSUME EndOf(file, i) # 0
        PROVE  j + 1 < m /\ Len(f[t + 2]) = m - (j + 1)
    <3>1. Len(f[t + 2]) \in Nat \ {0}
      BY <1>1, <1>2, <2>1, <2>6, FirstLine
    <3>2. PICK l \in Nat \ {0} : l = Len(f[t + 2])
      BY <3>1
    <3>3. m - j = l + 1
      BY <1>10, <2>1, <2>6, <3>2
    <3> QED
      BY <3>2, <3>3
  <2>7. ASSUME EndOf(file, i) = 0 PROVE j + 1 = m /\ t = n
    BY <1>10, <2>1, <2>7
  <2>8. ASSUME EndOf(file, i) # 0
        PROVE  t + 2 \in 1 .. n + 1 /\ Rest(t + 2, j + 1)
    <3>1. ASSUME NEW x \in 1 .. m - (j + 1)
          PROVE  ls[(j + 1) + x] = f[t + 2][x]
      <4>1. /\ x + 1 \in 1 .. m - j /\ j + (x + 1) = (j + 1) + x
        OBVIOUS
      <4>2. ls[j + (x + 1)] = f[i][x + 1]
        BY <1>10, <4>1
      <4>3. f[i][x + 1] = f[t + 2][x]
        BY <2>1, <2>6, <2>8
      <4> QED
        BY <4>1, <4>2, <4>3
    <3> QED
      BY <2>1, <2>5, <2>6, <2>8, <3>1
  <2> HIDE DEF Rest
  <2> QED
    BY <2>5, <2>6, <2>7, <2>8
<1> DEFINE T == {j \in Nat : j < m => \E i \in 1 .. n + 1 : Rest(i, j)}
<1> HIDE DEF Rest
<1>11. 0 \in T
  BY <1>3, <1>9
<1>12. ASSUME NEW j \in Nat, j \in T PROVE j + 1 \in T
  <2> SUFFICES ASSUME j + 1 < m PROVE \E i \in 1 .. n + 1 : Rest(i, j + 1)
    OBVIOUS
  <2>1. PICK i \in 1 .. n + 1 : Rest(i, j)
    BY <1>12
  <2>2. j \in 0 .. m - 1
    OBVIOUS
  <2> QED
    BY <1>10, <2>1, <2>2
<1> HIDE DEF T
<1>13. m - 1 \in T
  <2>1. m - 1 \in Nat
    OBVIOUS
  <2> QED
    BY <1>11, <1>12, <2>1, Induction
<1>14. PICK i \in 1 .. n + 1 : Rest(i, m - 1)
  BY <1>13 DEF T
<1>15. m - 1 \in 0 .. m - 1 /\ (m - 1) + 1 = m
  OBVIOUS
<1>16. g[m].aborted \/ Written(g[m], file, n + 2)
  BY <1>10, <1>14, <1>15
<1> QED
  BY <1>1, <1>8, <1>16, WrittenAll

-----------------------------------------------------------------------------
(* What is in global_config. *)

ConfigInv ==
    /\ config \in ConfigValue
    /\ phase = "up" => /\ environment.file \in Text
                       /\ \/ HasCutLine(environment.file)
                          \/ IsAsWritten(config, environment.file)

LEMMA FilesAreTexts ==
    ASSUME NEW e \in Environment, e.file # Missing
    PROVE  e.file \in Text
<1>1. e.file \in Seq(STRING)
  BY LoggingAssumption DEF LoggingAssumption
<1>2. STRING \subseteq Symbol
  BY DEF Symbol
<1>3. PICK n \in Nat : e.file \in [1 .. n -> STRING]
  BY <1>1
<1>4. e.file \in [1 .. n -> Symbol]
  BY <1>2, <1>3
<1> QED
  BY <1>4 DEF Text

LEMMA ConfigInvCorrect == Spec => []ConfigInv
<1>1. Init => ConfigInv
  BY DefaultType DEF Init, ConfigInv
<1>2. LogInv /\ ConfigInv /\ [Next]_vars => ConfigInv'
  <2> SUFFICES ASSUME LogInv, ConfigInv, [Next]_vars PROVE ConfigInv'
    OBVIOUS
  <2>1. environment \in Environment /\ environment' = environment
    BY DEF LogInv, LogTypeOK, Next, vars, start_vars, LogBegin, ReadConfig,
           LogPrintf, Log, TestLogFile, OpenLogFile, WriteLine, TestSize,
           ResetLogFile, CloseLogFile, ReadIndex, RenameLog, CloseIndex,
           OpenIndex, WriteIndex, RemoveOldest, ReopenLogFile, RuntimeError,
           Exit, Ends, Restart
  <2>2. CASE ReadConfig
    <3>1. CASE environment.file = Missing
      BY <2>1, <2>2, <3>1 DEF ReadConfig, ConfigInv
    <3>2. CASE environment.file # Missing
      <4>1. environment.file \in Text
        BY <2>1, <3>2, FilesAreTexts
      <4>2. config' = read_config(environment.file)
        BY <2>2, <3>2 DEF ReadConfig
      <4>3. config' \in ConfigValue
        BY <4>1, <4>2, ReadConfigType
      <4>4. phase' = "up" => ~config'.aborted
        BY <2>2, <3>2 DEF ReadConfig
      <4>5. \/ config'.aborted
            \/ HasCutLine(environment.file)
            \/ IsAsWritten(config', environment.file)
        BY <4>1, <4>2, ReadConfigIs
      <4> QED
        BY <2>1, <4>1, <4>3, <4>4, <4>5 DEF ConfigInv
    <3> QED
      BY <3>1, <3>2
  <2>3. CASE Restart
    BY <2>3, DefaultType DEF Restart, ConfigInv
  <2>4. ASSUME ~ReadConfig, ~Restart
        PROVE  config' = config /\ (phase' = "up" => phase = "up")
    BY <2>4
    DEF Next, vars, start_vars, LogBegin, LogPrintf, Log, TestLogFile,
        OpenLogFile, WriteLine, TestSize, ResetLogFile, CloseLogFile,
        ReadIndex, RenameLog, CloseIndex, OpenIndex, WriteIndex, RemoveOldest,
        ReopenLogFile, RuntimeError, Exit, Ends
  <2> QED
    BY <2>1, <2>2, <2>3, <2>4 DEF ConfigInv
<1> QED
  BY <1>1, <1>2, LogInvCorrect, PTL DEF Spec

\* The types of the variables, of global_config, too.
THEOREM LoggingTypeCorrect == Spec => []TypeOK
<1>1. ASSUME LogInv, ConfigInv PROVE TypeOK
  <2>1. DOMAIN config = DOMAIN Default
    BY <1>1, DefaultType DEF ConfigInv, ConfigValue
  <2>2. ASSUME NEW k \in Address PROVE config[k].port \in Port
    BY <1>1, <2>2 DEF ConfigInv, ConfigValue, Address, AddressValue
  <2>4. LogTypeOK
    BY <1>1 DEF LogInv
  <2> QED
    BY <2>1, <2>2, <2>4, Zenon DEF TypeOK, LogTypeOK
<1> QED
  BY <1>1, LogInvCorrect, ConfigInvCorrect, PTL

\* Once main has read the configuration, global_config is what muxer.config
\* says (global.c:37-81), for any file in which no line with a "=" is cut at a
\* character 255; of a port above 65535 nothing is said.
THEOREM ConfigAsWrittenCorrect == Spec => []ConfigAsWritten
<1>1. ConfigInv => ConfigAsWritten
  BY DEF ConfigInv, ConfigAsWritten
<1> QED
  BY <1>1, ConfigInvCorrect, PTL

-----------------------------------------------------------------------------
(* The buffer of read_line. *)

LEMMA DivMod ==
    ASSUME NEW a \in Int, NEW d \in Nat \ {0}
    PROVE  /\ a \div d \in Int /\ a % d \in 0 .. d - 1
           /\ a = d * (a \div d) + (a % d)
OBVIOUS

LEMMA DivUnique ==
    ASSUME NEW d \in Nat \ {0}, NEW q \in Int, NEW r \in 0 .. d - 1,
           NEW a \in Int, a = d * q + r
    PROVE  a \div d = q /\ a % d = r
OBVIOUS

LEMMA NextRemainder ==
    ASSUME NEW n \in Nat, NEW d \in Nat \ {0}
    PROVE  (n + 1) % d = IF (n % d) + 1 = d THEN 0 ELSE (n % d) + 1
<1>0. /\ n \div d \in Int /\ n % d \in 0 .. d - 1
      /\ n = d * (n \div d) + (n % d)
  <2>1. n \in Int
    OBVIOUS
  <2> QED
    BY <2>1, DivMod, Zenon
<1>1. PICK q \in Int, r \in 0 .. d - 1 : r = n % d /\ n = d * q + r
  BY <1>0, Zenon
<1>2. PICK m \in Int : m = d * q /\ n = m + r
  BY <1>1
<1>3. CASE r + 1 = d
  <2>1. d * (q + 1) = m + d
    BY <1>2
  <2>2. q + 1 \in Int /\ 0 \in 0 .. d - 1 /\ n + 1 \in Int
    OBVIOUS
  <2>3. n + 1 = d * (q + 1) + 0
    <3>1. n + 1 = (m + d) + 0
      BY <1>2, <1>3
    <3> QED
      BY <2>1, <3>1, Zenon
  <2>4. (n + 1) % d = 0
    <3>1. PICK a \in Int, p \in Int, z \in 0 .. d - 1 :
             a = n + 1 /\ p = q + 1 /\ z = 0
      BY <2>2, Zenon
    <3>2. a = d * p + z
      BY <2>3, <3>1, Zenon
    <3>3. a % d = z
      BY <3>2, DivUnique
    <3> QED
      BY <3>1, <3>3, Zenon
  <2> QED
    BY <1>1, <1>3, <2>4, Zenon
<1>4. CASE r + 1 # d
  <2>1. r + 1 \in 0 .. d - 1 /\ n + 1 \in Int
    BY <1>4
  <2>2. n + 1 = d * q + (r + 1)
    <3>1. n + 1 = m + (r + 1)
      BY <1>2
    <3> QED
      BY <1>2, <3>1, Zenon
  <2>3. (n + 1) % d = r + 1
    <3>1. PICK a \in Int, z \in 0 .. d - 1 : a = n + 1 /\ z = r + 1
      BY <2>1, Zenon
    <3>2. a = d * q + z
      BY <2>2, <3>1, Zenon
    <3>3. a % d = z
      BY <3>2, DivUnique
    <3> QED
      BY <3>1, <3>3, Zenon
  <2> QED
    BY <1>1, <1>4, <2>3, Zenon
<1> QED
  BY <1>3, <1>4, Zenon

\* The smallest multiple of MAX_BUF_LEN, but zero, that n characters fit into.
BufferFor(n) ==
    LET r == n % MAX_BUF_LEN
    IN  IF n = 0 THEN MAX_BUF_LEN
        ELSE IF r = 0 THEN n
        ELSE n - r + MAX_BUF_LEN

Grown(size, n) == size + (IF n = size THEN MAX_BUF_LEN ELSE 0)

LEMMA BufferForNext ==
    ASSUME NEW n \in Nat
    PROVE  BufferFor(n + 1) = Grown(BufferFor(n), n)
<1> DEFINE d == MAX_BUF_LEN
<1>1. PICK r \in 0 .. d - 1, s \in 0 .. d - 1 :
         /\ r = n % d /\ s = (n + 1) % d
         /\ s = IF r + 1 = d THEN 0 ELSE r + 1
  <2>1. d \in Nat \ {0}
    BY ConfigAssumption DEF ConfigAssumption
  <2>2. n % d \in 0 .. d - 1 /\ (n + 1) % d \in 0 .. d - 1
    BY <2>1, DivMod
  <2> QED
    BY <2>1, <2>2, NextRemainder
<1>2. d \in Nat \ {0}
  BY ConfigAssumption DEF ConfigAssumption
<1>3. BufferFor(n) = IF n = 0 THEN d ELSE IF r = 0 THEN n ELSE n - r + d
  BY <1>1 DEF BufferFor
<1>4. BufferFor(n + 1) = IF s = 0 THEN n + 1 ELSE n + 1 - s + d
  <2>1. n + 1 # 0
    OBVIOUS
  <2> QED
    BY <1>1, <2>1 DEF BufferFor
<1>5. n = 0 => r = 0
  <2>1. 0 = d * 0 + 0 /\ 0 \in 0 .. d - 1
    BY <1>2
  <2>2. 0 % d = 0
    BY <1>2, <2>1, DivUnique
  <2> QED
    BY <1>1, <2>2
<1> HIDE DEF d
<1> QED
  BY <1>1, <1>2, <1>3, <1>4, <1>5 DEF Grown, d

\* The buffer has the size that it should have, before the NUL is stored.
LEMMA BufferSize ==
    ASSUME NEW n \in Nat
    PROVE  max_line_len[n] = BufferFor(n)
<1> DEFINE recursive(f) ==
              f = [k \in Nat |-> IF k = 0 THEN MAX_BUF_LEN
                                 ELSE f[k - 1] + (IF k - 1 = f[k - 1]
                                                    THEN MAX_BUF_LEN ELSE 0)]
           f == CHOOSE f : recursive(f)
           g == [k \in Nat |-> BufferFor(k)]
<1>1. max_line_len = f
  BY DEF max_line_len
<1>2. recursive(g)
  <2>1. ASSUME NEW k \in Nat
        PROVE  BufferFor(k) = IF k = 0 THEN MAX_BUF_LEN
                              ELSE Grown(g[k - 1], k - 1)
    <3>1. CASE k = 0
      BY <3>1 DEF BufferFor
    <3>2. CASE k # 0
      <4>1. PICK j \in Nat : j = k - 1 /\ k = j + 1
        BY <3>2
      <4> QED
        BY <3>2, <4>1, BufferForNext
    <3> QED
      BY <3>1, <3>2
  <2> QED
    BY <2>1, Zenon DEF Grown
<1>3. recursive(f)
  <2> HIDE DEF recursive
  <2> QED
    BY <1>2
<1>4. /\ f[0] = MAX_BUF_LEN
      /\ \A k \in Nat : f[k + 1] = Grown(f[k], k)
  <2>1. \A k \in Nat : f[k] = IF k = 0 THEN MAX_BUF_LEN
                              ELSE Grown(f[k - 1], k - 1)
    <3> HIDE DEF f
    <3> QED
      BY <1>3, Zenon DEF Grown
  <2>2. \A k \in Nat : k + 1 \in Nat /\ k + 1 # 0 /\ k + 1 - 1 = k
    OBVIOUS
  <2> HIDE DEF f
  <2> QED
    BY <2>1, <2>2
<1> HIDE DEF f, recursive
<1> DEFINE T == {k \in Nat : f[k] = BufferFor(k)}
<1>5. 0 \in T
  BY <1>4 DEF BufferFor
<1>6. ASSUME NEW k \in Nat, k \in T PROVE k + 1 \in T
  BY <1>4, <1>6, BufferForNext
<1> HIDE DEF T
<1>7. n \in T
  BY <1>5, <1>6, Induction
<1> QED
  BY <1>1, <1>7 DEF T

(***************************************************************************)
(* read_line (config.c:26-37) writes behind its buffer only the NUL of a   *)
(* line whose length is a multiple of MAX_BUF_LEN, whatever the size of    *)
(* the buffer, the number of lines and their lengths.                      *)
(***************************************************************************)
THEOREM LinesFitTheirBufferCorrect == Spec => []LinesFitTheirBuffer
<1>1. ASSUME NEW line \in Text, Overruns(line)
      PROVE  line # <<>> /\ Len(line) % MAX_BUF_LEN = 0
  <2>1. PICK n \in Nat : n = Len(line)
    BY LenProperties DEF Text
  <2>2. PICK d \in Nat \ {0} : d = MAX_BUF_LEN
    BY ConfigAssumption DEF ConfigAssumption
  <2>3. PICK r \in 0 .. d - 1 : r = n % d
    BY DivMod
  <2>4. n >= (IF n = 0 THEN d ELSE IF r = 0 THEN n ELSE n - r + d)
    BY <1>1, <2>1, <2>2, <2>3, BufferSize DEF Overruns, BufferFor
  <2>5. n # 0 /\ r = 0
    BY <2>4
  <2>6. line # <<>>
    BY <2>1, <2>5, EmptySeq
  <2> QED
    BY <2>1, <2>2, <2>3, <2>5, <2>6
<1>2. ASSUME ConfigInv PROVE LinesFitTheirBuffer
  <2> SUFFICES ASSUME phase = "up",
                      NEW line \in Range(read_lines(environment.file)),
                      Overruns(line)
               PROVE  line # <<>> /\ Len(line) % MAX_BUF_LEN = 0
    BY DEF LinesFitTheirBuffer
  <2>1. PICK ls \in Seq(Text) : ls = read_lines(environment.file)
    BY <1>2, ReadLinesType DEF ConfigInv
  <2>2. line \in Text
    BY <2>1, ElementOfSeq DEF Range
  <2> QED
    BY <1>1, <2>2
<1> QED
  BY <1>2, ConfigInvCorrect, PTL
=============================================================================
