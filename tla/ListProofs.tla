----------------------------- MODULE ListProofs -----------------------------
(***************************************************************************)
(* What the operators on lists do that several components use: orders of    *)
(* last use, and packets of words.                                          *)
(***************************************************************************)
EXTENDS UseOrder, WireFormat, FiniteSetTheorems, SequenceTheorems, WellFoundedInduction, TLAPS

-----------------------------------------------------------------------------
(* Numbers *)

\* A set of numbers that is not empty has a least element: the first fit, the
\* first place and the first unused entry exist.
LEMMA LeastElement ==
  ASSUME NEW S \in SUBSET Nat, S # {}
  PROVE  \E m \in S : \A n \in S : m <= n
<1> DEFINE R == {ss \in Nat \X Nat : ss[1] < ss[2]}
<1>1. IsWellFoundedOn(R, Nat)
  BY NatLessThanWellFounded, Zenon DEF OpToRel
<1> HIDE DEF R
<1>2. PICK m \in S : \A n \in S : ~(<<n, m>> \in R)
  BY <1>1, WFMin
<1>3. \A n \in S : ~(n < m)
  BY <1>2 DEF R
<1> QED
  BY <1>3

\* A set that holds m, and with every number below n the next one, holds them
\* all: induction, for properties that are sets.
LEMMA Stepwise ==
  ASSUME NEW m \in Nat, NEW n \in Nat, NEW S, m \in S,
         \A j \in m + 1 .. n : j - 1 \in S => j \in S
  PROVE  \A j \in m .. n : j \in S
<1> DEFINE left == {j \in m .. n : j \notin S}
<1> SUFFICES ASSUME left # {}
             PROVE  FALSE
  OBVIOUS
<1>1. left \in SUBSET Nat
  OBVIOUS
<1> HIDE DEF left
<1>2. PICK j \in left : \A i \in left : j <= i
  BY <1>1, LeastElement
<1>3. j \in m + 1 .. n /\ j \notin S
  BY <1>2 DEF left
<1>4. j - 1 \in m .. n /\ ~(j <= j - 1)
  BY <1>3
<1>5. j - 1 \in S
  BY <1>2, <1>4 DEF left
<1> QED
  BY <1>3, <1>5

\* Every member of a set of positions is the n-th for some n.
LEMMA NthExists ==
  ASSUME NEW L \in Nat, NEW S \in SUBSET (1 .. L), NEW n \in 1 .. Cardinality(S)
  PROVE  \E i \in S : Cardinality({j \in S : j <= i}) = n
<1> DEFINE upto(i) == {j \in S : j <= i}
           c(i) == Cardinality(upto(i))
           enough == {i \in Nat : c(i) >= n}
<1>0. \A j \in S : j \in Nat /\ 1 <= j /\ j <= L
  OBVIOUS
<1>1. IsFiniteSet(S)
  <2>1. IsFiniteSet(1 .. L)
    BY FS_Interval
  <2> QED
    BY <2>1, FS_Subset
<1> HIDE DEF upto
<1>2. ASSUME NEW i \in Nat
      PROVE  IsFiniteSet(upto(i)) /\ c(i) \in Nat
  <2>1. upto(i) \in SUBSET S
    BY DEF upto
  <2> QED
    BY <1>1, <2>1, FS_Subset, FS_CardinalityType
<1>3. upto(L) = S
  BY <1>0 DEF upto
<1>4. L \in enough
  <2>1. n \in Nat /\ Cardinality(S) \in Nat /\ Cardinality(S) >= n
    BY <1>1, FS_CardinalityType
  <2> QED
    BY <1>3, <2>1
<1>5. PICK m \in enough : \A i \in enough : m <= i
  BY <1>4, LeastElement
<1>14. m \in Nat /\ c(m) >= n /\ \A i \in Nat : c(i) >= n => m <= i
  BY <1>5
<1> HIDE DEF enough, c
<1>6. n \in Nat /\ n >= 1
  BY <1>1, FS_CardinalityType
<1>7. m # 0
  <2>1. upto(0) = {}
    <3>1. \A j \in S : ~(j <= 0)
      BY <1>0
    <3> QED
      BY <3>1 DEF upto
  <2>2. c(0) = 0
    BY <2>1, FS_EmptySet DEF c
  <2> QED
    BY <1>14, <1>6, <2>2
<1>8. m - 1 \in Nat /\ m \in Nat
  BY <1>14, <1>7
<1>9. c(m - 1) < n /\ c(m) >= n
  <2>1. ~(m <= m - 1)
    BY <1>8
  <2> QED
    BY <1>2, <1>14, <1>6, <1>8, <2>1
<1>10. m \in S
  <2> SUFFICES ASSUME m \notin S
               PROVE  FALSE
    OBVIOUS
  <2>1. upto(m) = upto(m - 1)
    <3>1. \A j \in S : j <= m <=> j <= m - 1
      BY <1>0, <1>8
    <3> QED
      BY <3>1 DEF upto
  <2> QED
    BY <1>2, <1>6, <1>8, <1>9, <2>1 DEF c
<1>11. c(m) = c(m - 1) + 1
  <2>1. upto(m) = upto(m - 1) \cup {m} /\ m \notin upto(m - 1)
    <3>1. \A j \in S : j <= m <=> (j <= m - 1 \/ j = m)
      BY <1>0, <1>8
    <3>2. ~(m <= m - 1) /\ m <= m
      BY <1>8
    <3> QED
      BY <1>10, <3>1, <3>2 DEF upto
  <2> QED
    BY <1>2, <1>8, <2>1, FS_AddElement DEF c
<1>12. c(m) = n
  BY <1>2, <1>6, <1>8, <1>9, <1>11
<1> QED
  BY <1>10, <1>12 DEF upto, c

-----------------------------------------------------------------------------
(* Orders of last use: lists without repetition *)

(* Pushing a new element, as release and a failed load do.                 *)
LEMMA AppendLists ==
  ASSUME NEW S, NEW list, Lists(list, S), NEW x, x \notin S
  PROVE  Lists(Append(list, x), S \cup {x})
<1>1. /\ list \in Seq(S) /\ list \in Seq(S \cup {x})
      /\ \A i \in 1 .. Len(list) : list[i] # x
  BY DEF Lists
<1>2. /\ Append(list, x) \in Seq(S \cup {x})
      /\ Len(Append(list, x)) = Len(list) + 1
      /\ Append(list, x)[Len(list) + 1] = x
      /\ \A i \in 1 .. Len(list) : Append(list, x)[i] = list[i]
  BY <1>1
<1>3. Len(list) \in Nat
  BY <1>1
<1>4. \A y \in S \cup {x} : \E i \in DOMAIN Append(list, x) : Append(list, x)[i] = y
  <2>1. \A y \in S : \E i \in 1 .. Len(list) : list[i] = y
    BY <1>1 DEF Lists
  <2>2. DOMAIN Append(list, x) = 1 .. Len(list) + 1
    BY <1>2
  <2>3. ASSUME NEW y \in S
        PROVE  \E i \in DOMAIN Append(list, x) : Append(list, x)[i] = y
    <3>1. PICK i \in 1 .. Len(list) : list[i] = y
      BY <2>1
    <3>2. i \in DOMAIN Append(list, x)
      BY <1>3, <2>2
    <3> QED
      BY <1>2, <3>1, <3>2
  <2> QED
    BY <1>2, <1>3, <2>2, <2>3
<1>5. \A i, j \in DOMAIN Append(list, x) :
        Append(list, x)[i] = Append(list, x)[j] => i = j
  <2>1. \A i, j \in 1 .. Len(list) : list[i] = list[j] => i = j
    BY <1>1 DEF Lists
  <2> QED
    BY <1>1, <1>2, <1>3, <2>1
<1> QED
  BY <1>2, <1>4, <1>5 DEF Lists

(* Dropping one element, wherever it is.                                   *)
LEMMA DropLists ==
  ASSUME NEW S, NEW order, Lists(order, S), NEW c \in S
  PROVE  Lists(Drop(order, c), S \ {c})
<1> DEFINE n == Len(order)
           p == Position(order, c)
           d == Drop(order, c)
<1>1. order \in Seq(S) /\ n \in Nat /\ DOMAIN order = 1 .. n
  BY DEF Lists
<1>2. /\ \A i, j \in 1 .. n : order[i] = order[j] => i = j
      /\ \A y \in S : \E i \in 1 .. n : order[i] = y
      /\ \A i \in 1 .. n : order[i] \in S
  BY <1>1 DEF Lists
<1>3. p \in 1 .. n /\ order[p] = c
  BY <1>1, <1>2 DEF Position
<1>4. /\ d = [i \in 1 .. n - 1 |-> IF i < p THEN order[i] ELSE order[i + 1]]
      /\ n - 1 \in Nat
  BY <1>1, <1>3 DEF Drop
<1> HIDE DEF n, p, d
<1>5. \A i \in 1 .. n - 1 : d[i] \in S \ {c}
  BY <1>1, <1>2, <1>3, <1>4
<1>6. d \in Seq(S \ {c}) /\ DOMAIN d = 1 .. n - 1
  BY <1>4, <1>5
<1>7. \A y \in S \ {c} : \E i \in 1 .. n - 1 : d[i] = y
  <2> SUFFICES ASSUME NEW y \in S, y # c
               PROVE  \E i \in 1 .. n - 1 : d[i] = y
    OBVIOUS
  <2>1. PICK i \in 1 .. n : order[i] = y
    BY <1>2
  <2>2. i # p
    BY <1>3, <2>1
  <2>3. CASE i < p
    BY <1>1, <1>3, <1>4, <2>1, <2>3
  <2>4. CASE i > p
    <3>1. i - 1 \in 1 .. n - 1 /\ ~(i - 1 < p) /\ (i - 1) + 1 = i
      BY <1>1, <1>3, <2>1, <2>4
    <3> QED
      BY <1>4, <2>1, <3>1
  <2> QED
    BY <1>1, <1>3, <2>1, <2>2, <2>3, <2>4
<1>8. \A i, j \in 1 .. n - 1 : d[i] = d[j] => i = j
  BY <1>1, <1>2, <1>3, <1>4
<1> QED
  BY <1>6, <1>7, <1>8 DEF Lists, d

(* An access moves the context to the end of the order.                    *)
LEMMA TouchLists ==
  ASSUME NEW S, NEW order, Lists(order, S), NEW c \in S
  PROVE  Lists(Touch(order, c), S)
<1>1. Lists(Drop(order, c), S \ {c})
  BY DropLists
<1>2. Lists(Append(Drop(order, c), c), (S \ {c}) \cup {c})
  BY <1>1, AppendLists
<1>3. (S \ {c}) \cup {c} = S
  OBVIOUS
<1> QED
  BY <1>2, <1>3 DEF Touch

-----------------------------------------------------------------------------
(* Words *)

\* std::bit_cast there and back.
LEMMA WordRoundTrip ==
  ASSUME NEW i \in SignedWords
  PROVE  ToWord(i) \in Nat /\ FromWord(ToWord(i)) = i
<1>1. i \in Int /\ -WordRange <= 2 * i /\ 2 * i < WordRange /\ WordRange \in Nat \ {0}
  BY WireAssumption DEF SignedWords
<1>2. CASE i >= 0
  <2>1. ToWord(i) = i
    BY <1>1, <1>2 DEF ToWord
  <2> QED
    BY <1>1, <1>2, <2>1 DEF FromWord
<1>3. CASE i < 0
  <2>1. ToWord(i) = i + WordRange
    BY <1>1, <1>3 DEF ToWord
  <2> QED
    BY <1>1, <1>3, <2>1 DEF FromWord
<1> QED
  BY <1>1, <1>2, <1>3

-----------------------------------------------------------------------------
(* Where the parts of a message are *)

\* The words of t are in p, after the first o words.
Within(p, o, t) ==
  /\ o + Len(t) <= Len(p)
  /\ \A i \in 1 .. Len(t) : p[o + i] = t[i]

\* Two lists, one behind the other: each is found where it was put.
LEMMA ConcatWithin ==
  ASSUME NEW p \in Seq(Int), NEW t \in Seq(Int)
  PROVE  /\ p \o t \in Seq(Int) /\ Len(p \o t) = Len(p) + Len(t)
         /\ Within(p \o t, 0, p) /\ Within(p \o t, Len(p), t)
BY DEF Within

\* What is appended leaves the parts before it where they are.
LEMMA WithinMore ==
  ASSUME NEW p \in Seq(Int), NEW s \in Seq(Int), NEW t \in Seq(Int), NEW o \in Nat, Within(p, o, t)
  PROVE  Within(p \o s, o, t)
<1>1. /\ Len(p \o s) = Len(p) + Len(s) /\ \A i \in 1 .. Len(p) : (p \o s)[i] = p[i]
      /\ Len(p) \in Nat /\ Len(s) \in Nat /\ Len(t) \in Nat
  OBVIOUS
<1>2. \A i \in 1 .. Len(t) : o + i \in 1 .. Len(p)
  BY <1>1 DEF Within
<1> QED
  BY <1>1, <1>2 DEF Within

\* finish_message changes the size of the payload in the header, nothing else.
LEMMA FinishIs ==
  ASSUME NEW p \in Seq(Int), Len(p) >= HeaderSize, FinishMessage(p) # NoPacket
  PROVE  /\ FinishMessage(p) \in Seq(Int) /\ Len(FinishMessage(p)) = Len(p) /\ Len(p) <= MaxMessage
         /\ FinishMessage(p)[HeaderSize] = Len(p) - HeaderSize
         /\ \A i \in 1 .. Len(p) : i # HeaderSize => FinishMessage(p)[i] = p[i]
<1>1. Len(p) <= MaxMessage /\ FinishMessage(p) = [p EXCEPT ![HeaderSize] = Len(p) - HeaderSize]
  BY WireAssumption DEF FinishMessage
<1> QED
  BY <1>1 DEF HeaderSize

\* finish_message writes into the header only.
LEMMA WithinFinish ==
  ASSUME NEW p \in Seq(Int), FinishMessage(p) # NoPacket, NEW o \in Nat, o >= HeaderSize,
         NEW t \in Seq(Int), Within(p, o, t)
  PROVE  Within(FinishMessage(p), o, t)
<1>1. Len(p) \in Nat /\ Len(t) \in Nat /\ o + Len(t) <= Len(p)
  BY DEF Within
<1>2. \A i \in 1 .. Len(t) : o + i \in 1 .. Len(p) /\ o + i # HeaderSize
  BY <1>1 DEF HeaderSize
<1>3. Len(p) >= HeaderSize
  BY <1>1 DEF HeaderSize
<1> QED
  BY <1>1, <1>2, <1>3, FinishIs DEF Within

\* What the reader makes of a string that the writer has put there.
LEMMA WithinString ==
  ASSUME NEW p \in Seq(Int), NEW o \in Nat, NEW s \in Text, Within(p, o, Written(s)), Writable(s)
  PROVE  /\ p[o + 1] = Len(s) /\ StringAt(p, o + 1) /\ Characters(p, o + 1) = s
         /\ After(p, o + 1) = o + 2 + Len(s)
<1> DEFINE L == Len(s)
<1>1. /\ Written(s) \in Seq(Int) /\ Len(Written(s)) = L + 1 /\ L \in Nat
      /\ Written(s)[1] = L /\ \A i \in 1 .. L : Written(s)[i + 1] = s[i]
  BY DEF Written, Text
<1>2. o + L + 1 <= Len(p) /\ Len(p) \in Nat /\ p[o + 1] = L
  BY <1>1 DEF Within
<1>3. ASSUME NEW i \in 1 .. L
      PROVE  p[o + 1 + i] = s[i]
  <2>1. i + 1 \in 1 .. Len(Written(s)) /\ o + (i + 1) = o + 1 + i
    BY <1>1
  <2>2. p[o + (i + 1)] = Written(s)[i + 1]
    BY <2>1 DEF Within
  <2> QED
    BY <1>1, <2>1, <2>2
<1>4. /\ SubSeq(p, o + 1 + 1, o + 1 + L) \in Seq(Int) /\ Len(SubSeq(p, o + 1 + 1, o + 1 + L)) = L
      /\ \A i \in 1 .. L : SubSeq(p, o + 1 + 1, o + 1 + L)[i] = p[o + 1 + i]
  <2> DEFINE a == o + 1 + 1
             b == o + 1 + L
  <2>1. a \in 1 .. Len(p) + 1 /\ b \in 0 .. Len(p) /\ b - a + 1 = L /\ a - 1 = o + 1
    BY <1>1, <1>2
  <2> HIDE DEF a, b
  <2>2. SubSeq(p, a, b) \in Seq(Int) /\ Len(SubSeq(p, a, b)) = L
    <3>1. SubSeq(p, a, b) = [i \in 1 .. L |-> p[a - 1 + i]]
      BY <1>1, <2>1, SubSeqProperties
    <3>2. \A i \in 1 .. L : p[a - 1 + i] \in Int
      BY <1>1, <2>1
    <3> QED
      BY <1>1, <3>1, <3>2
  <2>3. \A i \in 1 .. L : SubSeq(p, a, b)[i] = p[a - 1 + i]
    BY <1>1, <2>1
  <2> QED
    BY <2>1, <2>2, <2>3 DEF a, b
<1>5. Characters(p, o + 1) = s
  BY <1>1, <1>2, <1>3, <1>4 DEF Characters, Text
<1>6. StringAt(p, o + 1)
  BY <1>1, <1>2 DEF StringAt, Words, Writable
<1>7. After(p, o + 1) = o + 2 + L
  <2> DEFINE j == o + 1
  <2>1. j \in Nat /\ j + 1 - 1 <= Len(p) /\ p[j] = L
    BY <1>1, <1>2
  <2> HIDE DEF j
  <2>2. After(p, j) = j + 1 + L
    BY <2>1 DEF After, Words
  <2> QED
    BY <1>1, <2>2 DEF j
<1> QED
  BY <1>2, <1>5, <1>6, <1>7

\* SubSeq reads such a part back.
LEMMA WithinSubSeq ==
  ASSUME NEW p \in Seq(Int), NEW o \in Nat, NEW t \in Seq(Int), Within(p, o, t)
  PROVE  SubSeq(p, o + 1, o + Len(t)) = t
<1> DEFINE a == o + 1
           b == o + Len(t)
           s == SubSeq(p, a, b)
<1>1. /\ a \in 1 .. Len(p) + 1 /\ b \in 0 .. Len(p) /\ b - a + 1 = Len(t) /\ a - 1 = o
      /\ Len(t) \in Nat /\ Len(p) \in Nat
  <2>1. Len(t) \in Nat /\ Len(p) \in Nat /\ o + Len(t) <= Len(p)
    BY DEF Within
  <2> QED
    BY <2>1
<1> HIDE DEF a, b
<1>2. s \in Seq(Int) /\ Len(s) = Len(t)
  <2>1. \A i \in a .. b : p[i] \in Int
    BY <1>1
  <2> QED
    BY <1>1, <2>1, SubSeqProperties
<1>3. \A i \in 1 .. Len(t) : s[i] = p[o + i]
  BY <1>1
<1> HIDE DEF s
<1>4. \A i \in 1 .. Len(t) : s[i] = t[i]
  BY <1>3 DEF Within
<1>5. s = t
  BY <1>2, <1>4, SeqEqual
<1> QED
  BY <1>5 DEF a, b, s

\* Writer::string writes a length and then the characters.
LEMMA WrittenIs ==
  ASSUME NEW s \in Text
  PROVE  Written(s) \in Seq(Int) /\ Len(Written(s)) = Len(s) + 1 /\ Len(s) \in Nat
BY DEF Written, Text

-----------------------------------------------------------------------------
(* Headers and references *)

\* The words of a header and of the fields that follow it.
Headed(p, magic, version, type, t) ==
  /\ Len(p) \in HeaderSize .. MaxMessage /\ Len(p) >= HeaderSize + Len(t)
  /\ p[1] = magic /\ p[2] = version /\ p[3] = type /\ p[4] = Len(p) - HeaderSize
  /\ \A i \in 1 .. Len(t) : p[HeaderSize + i] = t[i]

\* A packet that begins with a header is one the decoder accepts as such.
LEMMA HeaderWithin ==
  ASSUME NEW q \in Seq(Int), NEW type \in Int, NEW version \in Int, NEW magic \in Int, NEW t \in Seq(Int),
         Within(q, 0, Header(magic, version, type) \o t), FinishMessage(q) # NoPacket
  PROVE  Headed(FinishMessage(q), magic, version, type, t)
<1> DEFINE h == Header(magic, version, type) \o t
<1>1. /\ h \in Seq(Int) /\ Len(h) = 4 + Len(t) /\ Len(t) \in Nat /\ h[1] = magic /\ h[2] = version /\ h[3] = type
      /\ \A i \in 1 .. Len(t) : h[4 + i] = t[i]
  BY DEF Header
<1> HIDE DEF h
<1>2. Len(h) <= Len(q) /\ \A i \in 1 .. Len(h) : q[i] = h[i]
  <2>1. 0 + Len(h) <= Len(q) /\ \A i \in 1 .. Len(h) : q[0 + i] = h[i]
    BY DEF Within, h
  <2> QED
    BY <1>1, <2>1
<1>3. Len(q) >= HeaderSize /\ Len(q) \in Nat
  BY <1>1, <1>2 DEF HeaderSize
<1>4. /\ FinishMessage(q) \in Seq(Int) /\ Len(FinishMessage(q)) = Len(q) /\ Len(q) <= MaxMessage
      /\ FinishMessage(q)[4] = Len(q) - HeaderSize
      /\ \A i \in 1 .. Len(q) : i # 4 => FinishMessage(q)[i] = q[i]
  BY <1>3, FinishIs DEF HeaderSize
<1>5. \A i \in 1 .. Len(h) : i # 4 => FinishMessage(q)[i] = h[i]
  <2>1. \A i \in 1 .. Len(h) : i \in 1 .. Len(q)
    <3> DEFINE m == Len(h)
               n == Len(q)
    <3>1. m \in Nat /\ n \in Nat /\ m <= n
      BY <1>1, <1>2, <1>3
    <3> HIDE DEF m, n
    <3>2. \A i \in 1 .. m : i \in 1 .. n
      BY <3>1
    <3> QED
      BY <3>2 DEF m, n
  <2> QED
    BY <1>2, <1>4, <2>1
<1>6. FinishMessage(q)[1] = magic /\ FinishMessage(q)[2] = version /\ FinishMessage(q)[3] = type
  BY <1>1, <1>5
<1>7. ASSUME NEW i \in 1 .. Len(t)
      PROVE  FinishMessage(q)[HeaderSize + i] = t[i]
  <2>1. 4 + i \in 1 .. Len(h) /\ 4 + i # 4
    BY <1>1
  <2>2. FinishMessage(q)[4 + i] = h[4 + i]
    BY <1>5, <2>1
  <2> QED
    BY <1>1, <2>2 DEF HeaderSize
<1> QED
  BY <1>1, <1>2, <1>3, <1>4, <1>6, <1>7, WireAssumption DEF HeaderSize, Headed

\* Seven words that hold a reference.
LEMMA WithinReference ==
  ASSUME NEW p \in Seq(Int), NEW o \in Nat, NEW ref \in References, Within(p, o, ReferenceWords(ref))
  PROVE  ReferenceAt(p, o + 1) = ref
<1> DEFINE t == ReferenceWords(ref)
           w == o + 1
<1>1. /\ Len(t) = 7 /\ t[1] = ref.region /\ t[2] = ref.size /\ t[3] = ref.offset /\ t[4] = ref.length
      /\ t[5] = ref.type /\ t[6] = ref.flags /\ t[7] = ref.version
  BY DEF ReferenceWords
<1>2. \A i \in 1 .. 7 : p[o + i] = t[i]
  BY <1>1 DEF Within
<1>3. /\ w = o + 1 /\ w + 1 = o + 2 /\ w + 2 = o + 3 /\ w + 3 = o + 4 /\ w + 4 = o + 5 /\ w + 5 = o + 6
      /\ w + 6 = o + 7
  OBVIOUS
<1> HIDE DEF t, w
<1>4. /\ p[w] = t[1] /\ p[w + 1] = t[2] /\ p[w + 2] = t[3] /\ p[w + 3] = t[4] /\ p[w + 4] = t[5]
      /\ p[w + 5] = t[6] /\ p[w + 6] = t[7]
  BY <1>2, <1>3
<1>5. ReferenceAt(p, w) = ref
  BY <1>1, <1>4 DEF ReferenceAt, References
<1> QED
  BY <1>5 DEF w
=============================================================================
