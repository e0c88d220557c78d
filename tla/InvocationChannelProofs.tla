----------------------- MODULE InvocationChannelProofs -----------------------
(***************************************************************************)
(* Proofs about the invocation protocol and the invocation channel.  First  *)
(* what the decoders make of what the encoders write; then the invariant of *)
(* the calls, their threads and the shared memory; last the refinement.     *)
(***************************************************************************)
EXTENDS InvocationChannel, ListProofs

-----------------------------------------------------------------------------
(* Responses *)

\* A message of five parts.
Parts(whole, a, b, c, d, e) ==
  /\ whole \in Seq(Int) /\ Len(whole) = Len(a) + Len(b) + Len(c) + Len(d) + Len(e)
  /\ Within(whole, 0, a) /\ Within(whole, Len(a), b) /\ Within(whole, Len(a) + Len(b), c)
  /\ Within(whole, Len(a) + Len(b) + Len(c), d)
  /\ Within(whole, Len(a) + Len(b) + Len(c) + Len(d), e)

\* Five lists, one behind the other: each is found where it was put.
LEMMA FiveParts ==
  ASSUME NEW a \in Seq(Int), NEW b \in Seq(Int), NEW c \in Seq(Int), NEW d \in Seq(Int), NEW e \in Seq(Int)
  PROVE  Parts(a \o b \o c \o d \o e, a, b, c, d, e)
<1> DEFINE ab == a \o b
           abc == ab \o c
           abcd == abc \o d
           q == abcd \o e
<1>1. ab \in Seq(Int) /\ Len(ab) = Len(a) + Len(b) /\ Within(ab, 0, a) /\ Within(ab, Len(a), b)
  BY ConcatWithin
<1>0. Len(a) \in Nat /\ Len(b) \in Nat /\ Len(c) \in Nat /\ Len(d) \in Nat /\ Len(e) \in Nat
  OBVIOUS
<1> HIDE DEF ab
<1>2. /\ abc \in Seq(Int) /\ Len(abc) = Len(ab) + Len(c) /\ Within(abc, 0, a) /\ Within(abc, Len(a), b)
      /\ Within(abc, Len(ab), c)
  BY <1>0, <1>1, ConcatWithin, WithinMore
<1> HIDE DEF abc
<1>3. /\ abcd \in Seq(Int) /\ Len(abcd) = Len(abc) + Len(d) /\ Within(abcd, 0, a) /\ Within(abcd, Len(a), b)
      /\ Within(abcd, Len(ab), c) /\ Within(abcd, Len(abc), d)
  <2>1. Len(ab) \in Nat /\ 0 \in Nat
    BY <1>1
  <2>2. abcd \in Seq(Int) /\ Len(abcd) = Len(abc) + Len(d) /\ Within(abcd, Len(abc), d)
    BY <1>2, ConcatWithin
  <2>3. Within(abcd, 0, a) /\ Within(abcd, Len(a), b) /\ Within(abcd, Len(ab), c)
    BY <1>0, <1>2, <2>1, WithinMore, Zenon
  <2> QED
    BY <2>2, <2>3
<1> HIDE DEF abcd
<1>4. /\ q \in Seq(Int) /\ Len(q) = Len(abcd) + Len(e) /\ Within(q, 0, a) /\ Within(q, Len(a), b)
      /\ Within(q, Len(ab), c) /\ Within(q, Len(abc), d) /\ Within(q, Len(abcd), e)
  <2>1. Len(ab) \in Nat /\ Len(abc) \in Nat /\ 0 \in Nat
    BY <1>1, <1>2
  <2>2. q \in Seq(Int) /\ Len(q) = Len(abcd) + Len(e) /\ Within(q, Len(abcd), e)
    BY <1>3, ConcatWithin
  <2>3. Within(q, 0, a) /\ Within(q, Len(a), b) /\ Within(q, Len(ab), c) /\ Within(q, Len(abc), d)
    BY <1>0, <1>3, <2>1, WithinMore, Zenon
  <2> QED
    BY <2>2, <2>3
<1>5. /\ Len(ab) = Len(a) + Len(b) /\ Len(abc) = Len(a) + Len(b) + Len(c)
      /\ Len(abcd) = Len(a) + Len(b) + Len(c) + Len(d)
  BY <1>1, <1>2, <1>3
<1> HIDE DEF q
<1>6. /\ Len(q) = Len(a) + Len(b) + Len(c) + Len(d) + Len(e)
      /\ Within(q, Len(a) + Len(b), c) /\ Within(q, Len(a) + Len(b) + Len(c), d)
      /\ Within(q, Len(a) + Len(b) + Len(c) + Len(d), e)
  BY <1>4, <1>5
<1>7. Parts(q, a, b, c, d, e)
  BY <1>4, <1>6 DEF Parts
<1> QED
  BY <1>7 DEF q, abcd, abc, ab

\* decode_invocation_response reads back every field of what
\* encode_invocation_response has written, the message and the optional
\* reference included.
THEOREM ResponseRoundTrip ==
  ASSUME NEW r \in InvocationResponses, r.outputAvailable \/ r.output = NoReference,
         EncodeResponse(r) # NoPacket
  PROVE  DecodeResponse(EncodeResponse(r)) = r /\ EncodeResponse(r) \in Seq(Int) /\ r.agent # 0
<1> DEFINE L == Len(r.message)
           available == Flag(r.outputAvailable)
           hit == Flag(r.cacheHit)
           fields == <<r.agent, ToWord(r.process), r.status, r.context>>
           fixed == Header(InvocationMagic, InvocationVersion, ResponseMessage) \o fields
           metrics == r.counters \o <<hit>>
           output == IF r.outputAvailable THEN ReferenceWords(r.output) ELSE <<>>
           q == fixed \o Written(r.message) \o metrics \o <<available>> \o output
           p == EncodeResponse(r)
           m == 10 + L
<1>1. /\ r.agent # 0 /\ r.status \in Statuses /\ Writable(r.message)
      /\ r.outputAvailable => ValidReference(r.output)
      /\ p = FinishMessage(q)
  BY DEF EncodeResponse
<1>2. /\ r.agent \in Nat /\ r.process \in SignedWords /\ r.status \in Nat /\ r.context \in Nat
      /\ r.message \in Text /\ r.counters \in Seq(Nat) /\ Len(r.counters) = 6
      /\ r.cacheHit \in BOOLEAN /\ r.outputAvailable \in BOOLEAN /\ r.output \in References
      /\ L \in Nat
  BY DEF InvocationResponses, Counters, Text
<1>3. /\ ToWord(r.process) \in Nat /\ FromWord(ToWord(r.process)) = r.process
      /\ available \in {0, 1} /\ (available = 1 <=> r.outputAvailable)
      /\ hit \in {0, 1} /\ (hit = 1 <=> r.cacheHit)
  BY <1>2, WordRoundTrip DEF Flag
<1>4. /\ fields \in Seq(Int) /\ Len(fields) = 4 /\ fields[1] = r.agent /\ fields[2] = ToWord(r.process)
      /\ fields[3] = r.status /\ fields[4] = r.context
  BY <1>2, <1>3
<1> HIDE DEF available, hit, fields
<1>5. fixed \in Seq(Int) /\ Len(fixed) = 8
  <2> DEFINE H == Header(InvocationMagic, InvocationVersion, ResponseMessage)
  <2>1. H \in Seq(Int) /\ Len(H) = 4
    BY DEF Header, InvocationMagic, InvocationVersion, ResponseMessage
  <2> HIDE DEF H
  <2>2. \A s, t \in Seq(Int) : s \o t \in Seq(Int) /\ Len(s \o t) = Len(s) + Len(t)
    OBVIOUS
  <2>3. fields \in Seq(Int) /\ Len(fields) = 4
    BY <1>4
  <2>4. H \o fields \in Seq(Int) /\ Len(H \o fields) = Len(H) + Len(fields)
    BY <2>1, <2>2, <2>3, Zenon
  <2>5. Len(H \o fields) = 8
    BY <2>1, <2>3, <2>4
  <2> QED
    BY <2>4, <2>5 DEF H
<1>6. /\ metrics \in Seq(Int) /\ Len(metrics) = 7 /\ metrics[7] = hit
      /\ Within(metrics, 0, r.counters) /\ r.counters \in Seq(Int) /\ <<hit>> \in Seq(Int)
  <2>1. r.counters \in Seq(Int) /\ <<hit>> \in Seq(Int) /\ Len(<<hit>>) = 1
    BY <1>2, <1>3
  <2> DEFINE H == <<hit>>
             c == r.counters
  <2>2. H \in Seq(Int) /\ Len(H) = 1 /\ H[1] = hit /\ c \in Seq(Int) /\ Len(c) = 6 /\ metrics = c \o H
    BY <1>2, <2>1
  <2> HIDE DEF H, c, metrics
  <2>3. metrics \in Seq(Int) /\ Len(metrics) = 7 /\ Within(metrics, 0, c) /\ Within(metrics, 6, H)
    <3>1. c \in Seq(Int) /\ H \in Seq(Int) /\ metrics = c \o H
      BY <2>2
    <3>2. /\ metrics \in Seq(Int) /\ Len(metrics) = Len(c) + Len(H)
          /\ Within(metrics, 0, c) /\ Within(metrics, Len(c), H)
      BY <3>1, ConcatWithin, Zenon
    <3> QED
      BY <2>2, <3>2
  <2>4. metrics[6 + 1] = H[1]
    BY <2>2, <2>3 DEF Within
  <2> QED
    BY <2>1, <2>2, <2>3, <2>4 DEF c
<1>7. output \in Seq(Int) /\ Len(output) = available * ReferenceSize
  <2>1. CASE r.outputAvailable
    <3>1. ReferenceWords(r.output) \in Seq(Int) /\ Len(ReferenceWords(r.output)) = 7
      BY <1>2 DEF ReferenceWords, References
    <3>2. output = ReferenceWords(r.output)
      BY <2>1, Zenon
    <3>3. available = 1
      BY <1>3, <2>1, Zenon
    <3> HIDE DEF output, available
    <3> QED
      BY <3>1, <3>2, <3>3 DEF ReferenceSize
  <2>2. CASE ~r.outputAvailable
    <3>1. output = <<>>
      BY <2>2, Zenon
    <3>2. available = 0
      BY <1>3, <2>2
    <3> HIDE DEF output, available
    <3> QED
      BY <3>1, <3>2 DEF ReferenceSize
  <2> QED
    BY <1>2, <2>1, <2>2
<1>8. Written(r.message) \in Seq(Int) /\ Len(Written(r.message)) = L + 1
  BY <1>2 DEF Written, Text
<1>9. <<available>> \in Seq(Int) /\ Len(<<available>>) = 1
  BY <1>3
<1> HIDE DEF fixed, metrics, output
<1>10. /\ q \in Seq(Int) /\ Len(q) = 17 + L + Len(output)
       /\ Within(q, 0, fixed) /\ Within(q, 8, Written(r.message)) /\ Within(q, 9 + L, metrics)
       /\ Within(q, 16 + L, <<available>>) /\ Within(q, 17 + L, output)
  <2> DEFINE W == Written(r.message)
             A == <<available>>
  <2>1. /\ q \in Seq(Int) /\ Len(q) = Len(fixed) + Len(W) + Len(metrics) + Len(A) + Len(output)
        /\ Within(q, 0, fixed) /\ Within(q, Len(fixed), W) /\ Within(q, Len(fixed) + Len(W), metrics)
        /\ Within(q, Len(fixed) + Len(W) + Len(metrics), A)
        /\ Within(q, Len(fixed) + Len(W) + Len(metrics) + Len(A), output)
    <3>1. W \in Seq(Int) /\ A \in Seq(Int) /\ q = fixed \o W \o metrics \o A \o output
      BY <1>8, <1>9
    <3> HIDE DEF W, A, q
    <3>2. fixed \in Seq(Int) /\ metrics \in Seq(Int) /\ output \in Seq(Int)
      BY <1>5, <1>6, <1>7
    <3>3. Parts(fixed \o W \o metrics \o A \o output, fixed, W, metrics, A, output)
      BY <3>1, <3>2, FiveParts, Zenon
    <3>4. Parts(q, fixed, W, metrics, A, output)
      BY <3>1, <3>3, Zenon
    <3> QED
      BY <3>4 DEF Parts
  <2>2. /\ Len(fixed) = 8 /\ Len(fixed) + Len(W) = 9 + L /\ Len(fixed) + Len(W) + Len(metrics) = 16 + L
        /\ Len(fixed) + Len(W) + Len(metrics) + Len(A) = 17 + L /\ Len(output) \in Nat
    BY <1>2, <1>5, <1>6, <1>7, <1>8, <1>9
  <2> HIDE DEF q, W, A
  <2> QED
    BY <2>1, <2>2 DEF W, A
<1> HIDE DEF q, p
<1>0. FinishMessage(q) # NoPacket
  BY <1>1 DEF p
<1>11. /\ p \in Seq(Int) /\ Len(p) = 17 + L + Len(output) /\ Len(p) \in HeaderSize .. MaxMessage
       /\ p[1] = InvocationMagic /\ p[2] = InvocationVersion /\ p[3] = ResponseMessage
       /\ p[4] = Len(p) - HeaderSize
       /\ \A i \in 1 .. 4 : p[HeaderSize + i] = fields[i]
  <2>1. Len(output) \in Nat
    BY <1>7
  <2>2. Len(q) >= HeaderSize
    BY <1>2, <1>10, <2>1 DEF HeaderSize
  <2>3. p \in Seq(Int) /\ Len(p) = Len(q)
    BY <1>1, <1>10, <1>0, <2>2, FinishIs
  <2>4. InvocationMagic \in Int /\ InvocationVersion \in Int /\ ResponseMessage \in Int
    BY DEF InvocationMagic, InvocationVersion, ResponseMessage
  <2>5. Within(q, 0, Header(InvocationMagic, InvocationVersion, ResponseMessage) \o fields)
    BY <1>10 DEF fixed
  <2>6. /\ Len(p) \in HeaderSize .. MaxMessage
        /\ p[1] = InvocationMagic /\ p[2] = InvocationVersion /\ p[3] = ResponseMessage
        /\ p[4] = Len(p) - HeaderSize
        /\ \A i \in 1 .. Len(fields) : p[HeaderSize + i] = fields[i]
    <3>1. Headed(FinishMessage(q), InvocationMagic, InvocationVersion, ResponseMessage, fields)
      <4>1. q \in Seq(Int) /\ fields \in Seq(Int)
        BY <1>4, <1>10
      <4> QED
        BY <1>0, <2>4, <2>5, <4>1, HeaderWithin, Zenon
    <3> QED
      BY <1>1, <3>1 DEF Headed
  <2> QED
    BY <1>4, <1>10, <2>3, <2>6
<1>12. p[5] = r.agent /\ p[6] = ToWord(r.process) /\ p[7] = r.status /\ p[8] = r.context
  <2>1. /\ p[HeaderSize + 1] = fields[1] /\ p[HeaderSize + 2] = fields[2]
        /\ p[HeaderSize + 3] = fields[3] /\ p[HeaderSize + 4] = fields[4]
    BY <1>11
  <2> QED
    BY <1>4, <2>1 DEF HeaderSize
<1>13. /\ Within(p, 8, Written(r.message)) /\ Within(p, 9 + L, metrics)
       /\ Within(p, 16 + L, <<available>>) /\ Within(p, 17 + L, output)
  <2>1. \A o \in Nat, t \in Seq(Int) : o >= HeaderSize /\ Within(q, o, t) => Within(p, o, t)
    BY <1>0, <1>1, <1>10, WithinFinish
  <2>2. /\ 8 \in Nat /\ 9 + L \in Nat /\ 16 + L \in Nat /\ 17 + L \in Nat
        /\ 8 >= HeaderSize /\ 9 + L >= HeaderSize /\ 16 + L >= HeaderSize /\ 17 + L >= HeaderSize
    BY <1>2 DEF HeaderSize
  <2> QED
    BY <1>6, <1>7, <1>8, <1>9, <1>10, <2>1, <2>2, Zenon
<1>14. /\ StringAt(p, HeaderSize + 5) /\ Characters(p, HeaderSize + 5) = r.message
       /\ After(p, HeaderSize + 5) = m
  <2>1. StringAt(p, 8 + 1) /\ Characters(p, 8 + 1) = r.message /\ After(p, 8 + 1) = 8 + 2 + L
    BY <1>1, <1>2, <1>11, <1>13, WithinString
  <2> QED
    BY <1>2, <2>1 DEF HeaderSize
<1>15. p[m + 6] = hit /\ p[m + 7] = available /\ SubSeq(p, m, m + 5) = r.counters
  <2>1. p[16 + L] = hit
    <3>1. p[9 + L + 7] = metrics[7]
      BY <1>6, <1>13 DEF Within
    <3>2. 9 + L + 7 = 16 + L
      BY <1>2
    <3> QED
      BY <1>6, <3>1, <3>2
  <2>2. p[16 + L + 1] = available
    BY <1>9, <1>13 DEF Within
  <2>3. Within(p, 9 + L, r.counters)
    <3>1. Len(r.counters) = 6 /\ \A i \in 1 .. 6 : metrics[0 + i] = r.counters[i]
      BY <1>2, <1>6 DEF Within
    <3>2. \A i \in 1 .. 7 : p[9 + L + i] = metrics[i]
      BY <1>6, <1>13 DEF Within
    <3>3. 9 + L + 6 <= Len(p)
      BY <1>2, <1>7, <1>11
    <3>4. \A i \in 1 .. 6 : p[9 + L + i] = r.counters[i]
      BY <3>1, <3>2
    <3> QED
      BY <3>1, <3>3, <3>4 DEF Within
  <2>4. SubSeq(p, 9 + L + 1, 9 + L + Len(r.counters)) = r.counters
    <3>1. 9 + L \in Nat
      BY <1>2
    <3> QED
      BY <1>6, <1>11, <2>3, <3>1, WithinSubSeq, Zenon
  <2>5. m = 9 + L + 1 /\ m + 5 = 9 + L + Len(r.counters) /\ m + 6 = 16 + L /\ m + 7 = 16 + L + 1
    BY <1>2
  <2> QED
    BY <2>1, <2>2, <2>4, <2>5
<1>16. r.outputAvailable => ReferenceAt(p, m + 8) = r.output
  <2> SUFFICES ASSUME r.outputAvailable
               PROVE  ReferenceAt(p, m + 8) = r.output
    OBVIOUS
  <2>1. Within(p, 17 + L, ReferenceWords(r.output)) /\ 17 + L \in Nat
    BY <1>2, <1>13 DEF output
  <2>2. ReferenceAt(p, 17 + L + 1) = r.output
    BY <1>2, <1>11, <2>1, WithinReference
  <2>3. 17 + L + 1 = m + 8
    BY <1>2
  <2> QED
    BY <2>2, <2>3
<1>17. Len(p) = m + 7 + available * ReferenceSize /\ Len(p) >= m + 7 /\ m \in Nat
  <2>1. CASE available = 0
    BY <1>2, <1>7, <1>11, <2>1 DEF ReferenceSize
  <2>2. CASE available = 1
    BY <1>2, <1>7, <1>11, <2>2 DEF ReferenceSize
  <2> QED
    BY <1>3, <2>1, <2>2
<1>18. /\ HeaderOK(p, InvocationMagic, InvocationVersion, {ResponseMessage})
       /\ Words(p, HeaderSize + 1, 4) /\ Words(p, m, 8)
  BY <1>11, <1>17 DEF HeaderOK, Words, HeaderSize
<1> HIDE DEF m, L
<1>19. DecodeResponse(p) =
         [agent |-> p[5], process |-> FromWord(p[6]), status |-> p[7],
          context |-> p[8], message |-> r.message,
          counters |-> r.counters, cacheHit |-> p[m + 6] = 1,
          outputAvailable |-> p[m + 7] = 1,
          output |-> IF p[m + 7] = 1 THEN ReferenceAt(p, m + 8) ELSE NoReference]
  <2>1. /\ p[7] \in Statuses /\ p[m + 6] <= 1 /\ p[m + 7] <= 1 /\ p[5] # 0
        /\ Len(p) = m + 7 + p[m + 7] * ReferenceSize
        /\ p[m + 7] = 1 => ValidReference(ReferenceAt(p, m + 8))
    BY <1>1, <1>3, <1>12, <1>15, <1>16, <1>17
  <2> QED
    BY <1>14, <1>15, <1>18, <2>1 DEF DecodeResponse
<1>20. /\ (p[m + 6] = 1) = r.cacheHit /\ (p[m + 7] = 1) = r.outputAvailable
       /\ (IF p[m + 7] = 1 THEN ReferenceAt(p, m + 8) ELSE NoReference) = r.output
  BY <1>2, <1>3, <1>15, <1>16
<1>21. DecodeResponse(p) =
         [agent |-> r.agent, process |-> r.process, status |-> r.status,
          context |-> r.context, message |-> r.message, counters |-> r.counters, cacheHit |-> r.cacheHit,
          outputAvailable |-> r.outputAvailable, output |-> r.output]
  BY <1>3, <1>12, <1>19, <1>20
<1>22. r = [agent |-> r.agent, process |-> r.process, status |-> r.status,
            context |-> r.context, message |-> r.message, counters |-> r.counters, cacheHit |-> r.cacheHit,
            outputAvailable |-> r.outputAvailable, output |-> r.output]
  BY DEF InvocationResponses
<1> QED
  BY <1>1, <1>11, <1>21, <1>22 DEF p

-----------------------------------------------------------------------------
(* Requests *)

\* A message of six parts.
SixPartsOf(whole, a, b, c, d, e, f) ==
  /\ whole \in Seq(Int) /\ Len(whole) = Len(a) + Len(b) + Len(c) + Len(d) + Len(e) + Len(f)
  /\ Within(whole, 0, a) /\ Within(whole, Len(a), b) /\ Within(whole, Len(a) + Len(b), c)
  /\ Within(whole, Len(a) + Len(b) + Len(c), d)
  /\ Within(whole, Len(a) + Len(b) + Len(c) + Len(d), e)
  /\ Within(whole, Len(a) + Len(b) + Len(c) + Len(d) + Len(e), f)

\* The same of six.
LEMMA SixParts ==
  ASSUME NEW a \in Seq(Int), NEW b \in Seq(Int), NEW c \in Seq(Int), NEW d \in Seq(Int), NEW e \in Seq(Int),
         NEW f \in Seq(Int)
  PROVE  SixPartsOf(a \o b \o c \o d \o e \o f, a, b, c, d, e, f)
<1> DEFINE w == a \o b \o c \o d \o e
           q == w \o f
           la == Len(a) + Len(b)
           lb == la + Len(c)
           lc == lb + Len(d)
           ld == lc + Len(e)
<1>1. Parts(w, a, b, c, d, e)
  BY FiveParts
<1>2. Len(a) \in Nat /\ la \in Nat /\ lb \in Nat /\ lc \in Nat /\ ld \in Nat /\ 0 \in Nat /\ Len(f) \in Nat
  OBVIOUS
<1>3. /\ w \in Seq(Int) /\ Len(w) = ld /\ Within(w, 0, a) /\ Within(w, Len(a), b) /\ Within(w, la, c)
      /\ Within(w, lb, d) /\ Within(w, lc, e)
  BY <1>1 DEF Parts
<1> HIDE DEF w, la, lb, lc, ld
<1>4. q \in Seq(Int) /\ Len(q) = Len(w) + Len(f) /\ Within(q, Len(w), f)
  BY <1>3, ConcatWithin
<1>5. /\ Within(q, 0, a) /\ Within(q, Len(a), b) /\ Within(q, la, c)
      /\ Within(q, lb, d) /\ Within(q, lc, e)
  BY <1>2, <1>3, WithinMore, Zenon
<1> HIDE DEF q
<1>6. SixPartsOf(q, a, b, c, d, e, f)
  BY <1>2, <1>3, <1>4, <1>5 DEF SixPartsOf, la, lb, lc, ld
<1> QED
  BY <1>6 DEF q, w

\* The words of the inputs, and what the decoder makes of them.
WordsOf(ins) ==
  [i \in 1 .. Len(ins) * InputSize |->
     InputWords(ins[1 + ((i - 1) \div InputSize)])[1 + ((i - 1) % InputSize)]]

\* An input is written as eight words.
LEMMA InputWordsAre ==
  ASSUME NEW input \in Inputs
  PROVE  /\ InputWords(input) \in Seq(Int) /\ Len(InputWords(input)) = 8
         /\ InputWords(input)[1] = input.producer
         /\ \A i \in 1 .. 7 : InputWords(input)[1 + i] = ReferenceWords(input.reference)[i]
<1> DEFINE t == ReferenceWords(input.reference)
           h == <<input.producer>>
<1>1. input.producer \in Nat /\ input.reference \in References
  BY DEF Inputs
<1>2. t \in Seq(Int) /\ Len(t) = 7
  BY <1>1 DEF ReferenceWords, References
<1>3. h \in Seq(Int) /\ Len(h) = 1 /\ h[1] = input.producer
  BY <1>1
<1>4. InputWords(input) = h \o t
  BY DEF InputWords
<1> HIDE DEF t, h
<1>5. \A s, u \in Seq(Int) : /\ s \o u \in Seq(Int) /\ Len(s \o u) = Len(s) + Len(u)
                             /\ \A i \in 1 .. Len(s) : (s \o u)[i] = s[i]
                             /\ \A i \in 1 .. Len(u) : (s \o u)[Len(s) + i] = u[i]
  OBVIOUS
<1>6. /\ h \o t \in Seq(Int) /\ Len(h \o t) = Len(h) + Len(t)
      /\ \A i \in 1 .. Len(h) : (h \o t)[i] = h[i]
      /\ \A i \in 1 .. Len(t) : (h \o t)[Len(h) + i] = t[i]
  BY <1>2, <1>3, <1>5, Zenon
<1> DEFINE q == h \o t
<1>7. /\ q \in Seq(Int) /\ Len(q) = Len(h) + Len(t)
      /\ \A i \in 1 .. Len(h) : q[i] = h[i]
      /\ \A i \in 1 .. Len(t) : q[Len(h) + i] = t[i]
  BY <1>6, Zenon
<1> HIDE DEF q
<1>8. /\ q \in Seq(Int) /\ Len(q) = 8 /\ q[1] = input.producer /\ \A i \in 1 .. 7 : q[1 + i] = t[i]
  BY <1>2, <1>3, <1>7
<1> QED
  BY <1>4, <1>8 DEF q, t

\* The inputs of a request are written one behind the other.
LEMMA WordsOfAre ==
  ASSUME NEW ins \in Seq(Inputs)
  PROVE  /\ WordsOf(ins) \in Seq(Int) /\ Len(WordsOf(ins)) = Len(ins) * 8
         /\ \A j \in 1 .. Len(ins), x \in 1 .. 8 :
              WordsOf(ins)[(j - 1) * 8 + x] = InputWords(ins[j])[x]
<1> DEFINE n == Len(ins)
           W(i) == InputWords(ins[1 + ((i - 1) \div InputSize)])[1 + ((i - 1) % InputSize)]
<1>1. n \in Nat /\ InputSize = 8 /\ n * 8 \in Nat
  BY DEF InputSize, ReferenceSize
<1>2. ASSUME NEW i \in 1 .. n * 8
      PROVE  W(i) \in Int
  <2> DEFINE a == 1 + ((i - 1) \div 8)
             b == 1 + ((i - 1) % 8)
  <2>1. a \in 1 .. n /\ b \in 1 .. 8
    BY <1>1
  <2> HIDE DEF a, b
  <2>2. ins[a] \in Inputs
    BY <2>1
  <2>3. InputWords(ins[a]) \in Seq(Int) /\ Len(InputWords(ins[a])) = 8
    BY <2>2, InputWordsAre
  <2>4. InputWords(ins[a])[b] \in Int
    BY <2>1, <2>3
  <2> QED
    BY <1>1, <2>4 DEF a, b
<1>3. WordsOf(ins) = [i \in 1 .. n * 8 |-> W(i)]
  BY <1>1 DEF WordsOf
<1>4. ASSUME NEW j \in 1 .. n, NEW x \in 1 .. 8
      PROVE  WordsOf(ins)[(j - 1) * 8 + x] = InputWords(ins[j])[x]
  <2> DEFINE i == (j - 1) * 8 + x
  <2>1. i \in 1 .. n * 8 /\ 1 + ((i - 1) \div 8) = j /\ 1 + ((i - 1) % 8) = x
    BY <1>1
  <2> HIDE DEF i
  <2>2. WordsOf(ins)[i] = W(i)
    BY <1>3, <2>1
  <2>3. W(i) = InputWords(ins[j])[x]
    BY <1>1, <2>1
  <2> QED
    BY <2>2, <2>3 DEF i
<1> HIDE DEF W
<1>5. WordsOf(ins) \in Seq(Int) /\ Len(WordsOf(ins)) = n * 8
  BY <1>1, <1>2, <1>3
<1> QED
  BY <1>4, <1>5

\* The inputs of a request are read back as they were written.
LEMMA WithinInputs ==
  ASSUME NEW p \in Seq(Int), NEW o \in Nat, NEW ins \in Seq(Inputs), Within(p, o, WordsOf(ins))
  PROVE  [j \in 1 .. Len(ins) |-> InputAt(p, o + 1 + (j - 1) * InputSize)] = ins
<1>1. /\ Len(ins) \in Nat /\ WordsOf(ins) \in Seq(Int) /\ Len(WordsOf(ins)) = Len(ins) * 8
      /\ \A j \in 1 .. Len(ins), x \in 1 .. 8 :
           WordsOf(ins)[(j - 1) * 8 + x] = InputWords(ins[j])[x]
  BY WordsOfAre
<1>2. \A i \in 1 .. Len(ins) * 8 : p[o + i] = WordsOf(ins)[i]
  BY <1>1 DEF Within
<1>0. o + Len(ins) * 8 <= Len(p)
  BY <1>1 DEF Within
<1>3. ASSUME NEW j \in 1 .. Len(ins)
      PROVE  InputAt(p, o + 1 + (j - 1) * InputSize) = ins[j]
  <2> DEFINE e == o + 1 + (j - 1) * InputSize
             t == ReferenceWords(ins[j].reference)
  <2>1. ins[j] \in Inputs /\ ins[j].reference \in References
    <3>1. ins[j] \in Inputs
      BY ElementOfSeq
    <3>2. \A x \in Inputs : x.reference \in References
      BY DEF Inputs
    <3> QED
      BY <3>1, <3>2
  <2>2. ASSUME NEW x \in 1 .. 8
        PROVE  p[o + ((j - 1) * 8 + x)] = InputWords(ins[j])[x]
    <3>1. (j - 1) * 8 + x \in 1 .. Len(ins) * 8
      <4> DEFINE n == Len(ins)
      <4>1. n \in Nat /\ j \in 1 .. n
        BY <1>1
      <4> HIDE DEF n
      <4>2. (j - 1) * 8 + x \in 1 .. n * 8
        BY <4>1
      <4> QED
        BY <4>2 DEF n
    <3>2. WordsOf(ins)[(j - 1) * 8 + x] = InputWords(ins[j])[x]
      BY <1>1
    <3> QED
      BY <1>2, <3>1, <3>2
  <2>3. /\ Len(InputWords(ins[j])) = 8 /\ InputWords(ins[j])[1] = ins[j].producer
        /\ \A i \in 1 .. 7 : InputWords(ins[j])[1 + i] = t[i]
    BY <2>1, InputWordsAre
  <2>4. e \in Nat /\ e = o + ((j - 1) * 8 + 1) /\ \A i \in 1 .. 7 : e + i = o + ((j - 1) * 8 + (1 + i))
    BY <1>1 DEF InputSize, ReferenceSize
  <2>5. p[e] = ins[j].producer
    BY <2>2, <2>3, <2>4
  <2>6. \A i \in 1 .. 7 : p[e + i] = t[i]
    <3> SUFFICES ASSUME NEW i \in 1 .. 7
                 PROVE  p[e + i] = t[i]
      OBVIOUS
    <3>1. 1 + i \in 1 .. 8
      OBVIOUS
    <3>2. p[o + ((j - 1) * 8 + (1 + i))] = InputWords(ins[j])[1 + i]
      BY <2>2, <3>1
    <3> QED
      BY <2>3, <2>4, <3>2
  <2>7. Len(t) = 7 /\ e + 7 <= Len(p)
    <3>1. e + 7 <= o + Len(ins) * 8
      BY <1>1 DEF InputSize, ReferenceSize
    <3>2. Len(t) = 7
      BY DEF ReferenceWords
    <3>3. Len(p) \in Nat /\ e + 7 \in Nat /\ o + Len(ins) * 8 \in Nat
      <4>1. Len(p) \in Nat
        OBVIOUS
      <4>2. \A x \in Nat : x + 7 \in Nat /\ o + x * 8 \in Nat
        OBVIOUS
      <4> QED
        BY <1>1, <2>4, <4>1, <4>2, Zenon
    <3>4. \A x, y, z \in Nat : x <= y /\ y <= z => x <= z
      OBVIOUS
    <3>5. e + 7 <= Len(p)
      BY <1>0, <3>1, <3>3, <3>4, Zenon
    <3> QED
      BY <3>2, <3>5
  <2> HIDE DEF e, t
  <2>8. Within(p, e, t)
    BY <2>6, <2>7 DEF Within
  <2>9. ReferenceAt(p, e + 1) = ins[j].reference
    BY <2>1, <2>4, <2>8, WithinReference DEF t
  <2>10. InputAt(p, e) = [producer |-> ins[j].producer, reference |-> ins[j].reference]
    BY <2>5, <2>9 DEF InputAt
  <2>11. InputAt(p, e) = ins[j]
    BY <2>1, <2>10 DEF Inputs
  <2> QED
    BY <2>11 DEF e
<1> DEFINE g == [j \in 1 .. Len(ins) |-> InputAt(p, o + 1 + (j - 1) * InputSize)]
<1>4. g = [j \in 1 .. Len(ins) |-> ins[j]]
  BY <1>3
<1>5. ins = [j \in 1 .. Len(ins) |-> ins[j]]
  OBVIOUS
<1> QED
  BY <1>4, <1>5

\* What the reader finds in a finished request.
RequestLayout(p, fields, target, operation, payload, ins) ==
  LET i == HeaderSize + 9
      j == After(p, i)
      k == After(p, j)
      end == After(p, k)
  IN  /\ p \in Seq(Int)
      /\ Headed(p, InvocationMagic, InvocationVersion, RequestMessage, fields)
      /\ StringAt(p, i) /\ StringAt(p, j) /\ StringAt(p, k)
      /\ p[i] = Len(target) /\ p[j] = Len(operation)
      /\ Characters(p, i) = target /\ Characters(p, j) = operation /\ Characters(p, k) = payload
      /\ Words(p, end, 1) /\ p[end] = Len(ins) /\ Len(p) = end + Len(ins) * InputSize
      /\ [n \in 1 .. Len(ins) |-> InputAt(p, end + 1 + (n - 1) * InputSize)] = ins

\* Where encode_invocation_request puts the parts of a request.
LEMMA RequestLaidOut ==
  ASSUME NEW fields \in Seq(Int), Len(fields) = 8, NEW target \in Text, NEW operation \in Text,
         NEW payload \in Text, NEW ins \in Seq(Inputs),
         Writable(target), Writable(operation), Writable(payload),
         NEW q,
         q = (Header(InvocationMagic, InvocationVersion, RequestMessage) \o fields) \o Written(target)
               \o Written(operation) \o Written(payload) \o <<Len(ins)>> \o WordsOf(ins),
         FinishMessage(q) # NoPacket
  PROVE  RequestLayout(FinishMessage(q), fields, target, operation, payload, ins)
<1> DEFINE h == Header(InvocationMagic, InvocationVersion, RequestMessage)
           fixed == h \o fields
           W1 == Written(target)
           W2 == Written(operation)
           W3 == Written(payload)
           N == <<Len(ins)>>
           I == WordsOf(ins)
           p == FinishMessage(q)
           n == Len(ins)
           t1 == Len(target)
           t2 == Len(operation)
           t3 == Len(payload)
           o2 == 13 + t1
           o3 == 14 + t1 + t2
           o4 == 15 + t1 + t2 + t3
           e == 16 + t1 + t2 + t3
<1>1. h \in Seq(Int) /\ Len(h) = 4 /\ InvocationMagic \in Int /\ InvocationVersion \in Int /\ RequestMessage \in Int
  BY DEF Header, InvocationMagic, InvocationVersion, RequestMessage
<1>2. fixed \in Seq(Int) /\ Len(fixed) = 12
  <2>1. \A s, t \in Seq(Int) : s \o t \in Seq(Int) /\ Len(s \o t) = Len(s) + Len(t)
    OBVIOUS
  <2> HIDE DEF h
  <2>2. h \o fields \in Seq(Int) /\ Len(h \o fields) = Len(h) + Len(fields)
    BY <1>1, <2>1, Zenon
  <2> QED
    BY <1>1, <2>2
<1>3. /\ W1 \in Seq(Int) /\ Len(W1) = t1 + 1 /\ t1 \in Nat
      /\ W2 \in Seq(Int) /\ Len(W2) = t2 + 1 /\ t2 \in Nat
      /\ W3 \in Seq(Int) /\ Len(W3) = t3 + 1 /\ t3 \in Nat
  BY WrittenIs
<1>4. n \in Nat /\ N \in Seq(Int) /\ Len(N) = 1 /\ N[1] = n
  OBVIOUS
<1>5. I \in Seq(Int) /\ Len(I) = n * 8
  BY WordsOfAre
<1> HIDE DEF fixed, W1, W2, W3, N, I, p, n, t1, t2, t3
<1>6. SixPartsOf(q, fixed, W1, W2, W3, N, I)
  <2>1. SixPartsOf(fixed \o W1 \o W2 \o W3 \o N \o I, fixed, W1, W2, W3, N, I)
    BY <1>2, <1>3, <1>4, <1>5, SixParts, Zenon
  <2>2. q = fixed \o W1 \o W2 \o W3 \o N \o I
    BY DEF fixed, W1, W2, W3, N, I
  <2> QED
    BY <2>1, <2>2, Zenon
<1>7. /\ q \in Seq(Int) /\ Len(q) = e + n * 8
      /\ Within(q, 0, fixed) /\ Within(q, 12, W1) /\ Within(q, o2, W2) /\ Within(q, o3, W3)
      /\ Within(q, o4, N) /\ Within(q, e, I)
  <2>1. /\ Len(fixed) = 12 /\ Len(fixed) + Len(W1) = o2 /\ Len(fixed) + Len(W1) + Len(W2) = o3
        /\ Len(fixed) + Len(W1) + Len(W2) + Len(W3) = o4
        /\ Len(fixed) + Len(W1) + Len(W2) + Len(W3) + Len(N) = e
        /\ Len(fixed) + Len(W1) + Len(W2) + Len(W3) + Len(N) + Len(I) = e + n * 8
    BY <1>2, <1>3, <1>4, <1>5
  <2> HIDE DEF o2, o3, o4, e
  <2> QED
    BY <1>6, <2>1 DEF SixPartsOf
<1>8. /\ Headed(p, InvocationMagic, InvocationVersion, RequestMessage, fields)
      /\ p \in Seq(Int) /\ Len(p) = Len(q)
  <2>1. Within(q, 0, Header(InvocationMagic, InvocationVersion, RequestMessage) \o fields)
    BY <1>7 DEF fixed
  <2>2. q \in Seq(Int)
    BY <1>7
  <2>3. Headed(p, InvocationMagic, InvocationVersion, RequestMessage, fields)
    BY <1>1, <2>1, <2>2, HeaderWithin, Zenon DEF p
  <2>4. Len(q) >= HeaderSize
    BY <1>3, <1>4, <1>7 DEF HeaderSize
  <2>5. p \in Seq(Int) /\ Len(p) = Len(q)
    BY <2>2, <2>4, FinishIs DEF p
  <2> QED
    BY <2>3, <2>5
<1>9. /\ 12 \in Nat /\ o2 \in Nat /\ o3 \in Nat /\ o4 \in Nat /\ e \in Nat
      /\ 12 >= HeaderSize /\ o2 >= HeaderSize /\ o3 >= HeaderSize /\ o4 >= HeaderSize /\ e >= HeaderSize
  BY <1>3 DEF HeaderSize
<1>10. /\ Within(p, 12, W1) /\ Within(p, o2, W2) /\ Within(p, o3, W3)
       /\ Within(p, o4, N) /\ Within(p, e, I)
  <2>1. \A o \in Nat, t \in Seq(Int) : o >= HeaderSize /\ Within(q, o, t) => Within(p, o, t)
    BY <1>7, WithinFinish DEF p
  <2> HIDE DEF o2, o3, o4, e
  <2> QED
    BY <1>3, <1>4, <1>5, <1>7, <1>9, <2>1, Zenon
<1>11. ASSUME NEW o \in Nat, NEW s \in Text, Within(p, o, Written(s)), Writable(s)
       PROVE  /\ p[o + 1] = Len(s) /\ StringAt(p, o + 1) /\ Characters(p, o + 1) = s
              /\ After(p, o + 1) = o + 2 + Len(s)
  BY <1>8, <1>11, WithinString
<1>12. /\ p[13] = t1 /\ StringAt(p, 13) /\ Characters(p, 13) = target /\ After(p, 13) = o2 + 1
  <2>1. /\ p[12 + 1] = t1 /\ StringAt(p, 12 + 1) /\ Characters(p, 12 + 1) = target
        /\ After(p, 12 + 1) = 12 + 2 + t1
    BY <1>9, <1>10, <1>11 DEF W1, t1
  <2> QED
    BY <1>3, <2>1
<1>13. /\ p[o2 + 1] = t2 /\ StringAt(p, o2 + 1) /\ Characters(p, o2 + 1) = operation /\ After(p, o2 + 1) = o3 + 1
  <2>1. o2 + 2 + t2 = o3 + 1
    BY <1>3
  <2> HIDE DEF o2, o3
  <2>2. /\ p[o2 + 1] = t2 /\ StringAt(p, o2 + 1) /\ Characters(p, o2 + 1) = operation
        /\ After(p, o2 + 1) = o2 + 2 + t2
    BY <1>9, <1>10, <1>11 DEF W2, t2
  <2> QED
    BY <2>1, <2>2
<1>14. /\ StringAt(p, o3 + 1) /\ Characters(p, o3 + 1) = payload /\ After(p, o3 + 1) = e
  <2>1. o3 + 2 + t3 = e
    BY <1>3
  <2> HIDE DEF o3, e
  <2>2. /\ StringAt(p, o3 + 1) /\ Characters(p, o3 + 1) = payload
        /\ After(p, o3 + 1) = o3 + 2 + t3
    BY <1>9, <1>10, <1>11 DEF W3, t3
  <2> QED
    BY <2>1, <2>2
<1>15. Words(p, e, 1) /\ p[e] = n /\ Len(p) = e + n * InputSize
  <2>1. o4 + 1 <= Len(p) /\ p[o4 + 1] = n
    BY <1>4, <1>10 DEF Within
  <2>2. o4 + 1 = e /\ e + 1 - 1 = e
    BY <1>3
  <2> HIDE DEF o4, e
  <2> QED
    BY <1>7, <1>8, <2>1, <2>2 DEF Words, InputSize, ReferenceSize
<1>16. [x \in 1 .. n |-> InputAt(p, e + 1 + (x - 1) * InputSize)] = ins
  <2> HIDE DEF e
  <2> QED
    BY <1>8, <1>9, <1>10, WithinInputs DEF I, n
<1> HIDE DEF o2, o3, e
<1>17. RequestLayout(p, fields, target, operation, payload, ins)
  <2>1. HeaderSize + 9 = 13
    BY DEF HeaderSize
  <2> QED
    BY <1>8, <1>12, <1>13, <1>14, <1>15, <1>16, <2>1 DEF RequestLayout, t1, t2, n
<1> QED
  BY <1>17 DEF p

\* decode_invocation_request reads back every field of what
\* encode_invocation_request has written: the priority with its sign, the
\* three strings and every input, whatever their number and lengths.
THEOREM RequestRoundTrip ==
  ASSUME NEW r \in InvocationRequests, EncodeRequest(r) # NoPacket
  PROVE  DecodeRequest(EncodeRequest(r)) = r /\ EncodeRequest(r) \in Seq(Int) /\ r.agent # 0
<1> DEFINE fields == <<r.agent, r.parent, r.kind, r.context, ToWord(r.priority), r.cpu, r.memory, r.timeout>>
           h == Header(InvocationMagic, InvocationVersion, RequestMessage)
           q == (h \o fields) \o Written(r.target) \o Written(r.operation) \o Written(r.payload)
                  \o <<Len(r.inputs)>> \o WordsOf(r.inputs)
           p == EncodeRequest(r)
           i == HeaderSize + 9
           j == After(p, i)
           k == After(p, j)
           end == After(p, k)
           ins == [x \in 1 .. p[end] |-> InputAt(p, end + 1 + (x - 1) * InputSize)]
<1>1. Encodable(r) /\ p = FinishMessage(q)
  BY DEF EncodeRequest, WordsOf
<1>2. /\ r.agent \in Nat /\ r.parent \in Nat /\ r.kind \in Nat /\ r.context \in Nat
      /\ r.priority \in SignedWords /\ r.cpu \in Nat /\ r.memory \in Nat /\ r.timeout \in Timeouts
      /\ r.target \in Text /\ r.operation \in Text /\ r.payload \in Text /\ r.inputs \in Seq(Inputs)
  BY DEF InvocationRequests
<1>3. ToWord(r.priority) \in Nat /\ FromWord(ToWord(r.priority)) = r.priority /\ r.timeout \in Int
  BY <1>2, WordRoundTrip DEF Timeouts
<1>4. /\ fields \in Seq(Int) /\ Len(fields) = 8
      /\ fields[1] = r.agent /\ fields[2] = r.parent /\ fields[3] = r.kind /\ fields[4] = r.context
      /\ fields[5] = ToWord(r.priority) /\ fields[6] = r.cpu /\ fields[7] = r.memory /\ fields[8] = r.timeout
  BY <1>2, <1>3
<1>5. /\ r.agent # 0 /\ r.target # <<>> /\ r.operation # <<>> /\ Len(r.inputs) <= MaxInputs /\ r.timeout >= 0
      /\ Writable(r.target) /\ Writable(r.operation) /\ Writable(r.payload) /\ r.kind \in Kinds
      /\ \A x \in DOMAIN r.inputs : ValidInput(r.inputs[x])
  BY <1>1 DEF Encodable
<1> HIDE DEF fields, p
<1>6. RequestLayout(p, fields, r.target, r.operation, r.payload, r.inputs)
  <2>1. FinishMessage(q) # NoPacket
    BY <1>1 DEF p
  <2>2. fields \in Seq(Int) /\ Len(fields) = 8
    BY <1>4
  <2>3. RequestLayout(FinishMessage(q), fields, r.target, r.operation, r.payload, r.inputs)
    BY <1>2, <1>5, <2>1, <2>2, RequestLaidOut, Zenon
  <2> QED
    BY <1>1, <2>3
<1> HIDE DEF h, q
<1>7. /\ p \in Seq(Int) /\ Headed(p, InvocationMagic, InvocationVersion, RequestMessage, fields)
      /\ StringAt(p, i) /\ StringAt(p, j) /\ StringAt(p, k)
      /\ p[i] = Len(r.target) /\ p[j] = Len(r.operation)
      /\ Characters(p, i) = r.target /\ Characters(p, j) = r.operation /\ Characters(p, k) = r.payload
      /\ Words(p, end, 1) /\ p[end] = Len(r.inputs) /\ Len(p) = end + Len(r.inputs) * InputSize
      /\ [n \in 1 .. Len(r.inputs) |-> InputAt(p, end + 1 + (n - 1) * InputSize)] = r.inputs
  BY <1>6, Zenon DEF RequestLayout
<1>8. ins = r.inputs
  <2>1. p[end] = Len(r.inputs)
    BY <1>7
  <2>2. [n \in 1 .. Len(r.inputs) |-> InputAt(p, end + 1 + (n - 1) * InputSize)] = r.inputs
    BY <1>7
  <2> HIDE DEF end
  <2> QED
    BY <2>1, <2>2
<1>9. /\ p[5] = r.agent /\ p[6] = r.parent /\ p[7] = r.kind /\ p[8] = r.context
      /\ p[9] = ToWord(r.priority) /\ p[10] = r.cpu /\ p[11] = r.memory /\ p[12] = r.timeout
  <2>1. \A x \in 1 .. 8 : p[HeaderSize + x] = fields[x]
    BY <1>4, <1>7 DEF Headed
  <2>2. /\ p[HeaderSize + 1] = fields[1] /\ p[HeaderSize + 2] = fields[2] /\ p[HeaderSize + 3] = fields[3]
        /\ p[HeaderSize + 4] = fields[4] /\ p[HeaderSize + 5] = fields[5] /\ p[HeaderSize + 6] = fields[6]
        /\ p[HeaderSize + 7] = fields[7] /\ p[HeaderSize + 8] = fields[8]
    BY <2>1
  <2> QED
    BY <1>4, <2>2 DEF HeaderSize
<1>10. HeaderOK(p, InvocationMagic, InvocationVersion, {RequestMessage}) /\ Words(p, HeaderSize + 1, 8)
  BY <1>4, <1>7 DEF Headed, HeaderOK, Words, HeaderSize
<1>11. p[i] # 0 /\ p[j] # 0
  <2>1. \A s \in Text : s # <<>> => Len(s) # 0
    BY EmptySeq DEF Text
  <2> HIDE DEF i, j
  <2> QED
    BY <1>2, <1>5, <1>7, <2>1
<1>12. /\ p[end] <= MaxInputs /\ p[7] \in Kinds /\ p[12] <= MaxTimeout /\ p[5] # 0
       /\ Len(p) = end + p[end] * InputSize
  <2>1. r.timeout <= MaxTimeout
    BY <1>2 DEF Timeouts
  <2> HIDE DEF end
  <2> QED
    BY <1>5, <1>7, <1>9, <2>1
<1>13. \A x \in 1 .. p[end] : ValidInput(ins[x])
  <2>1. DOMAIN r.inputs = 1 .. Len(r.inputs)
    BY <1>2
  <2> HIDE DEF ins, end
  <2> QED
    BY <1>5, <1>7, <1>8, <2>1
<1>14. DecodeRequest(p) =
         [agent |-> p[5], parent |-> p[6], kind |-> p[7], context |-> p[8],
          priority |-> FromWord(p[9]), cpu |-> p[10], memory |-> p[11],
          timeout |-> p[12], target |-> Characters(p, i),
          operation |-> Characters(p, j), payload |-> Characters(p, k), inputs |-> ins]
  BY <1>7, <1>10, <1>11, <1>12, <1>13, Zenon DEF DecodeRequest
<1> HIDE DEF ins, end, k, j, i
<1>15. DecodeRequest(p) =
         [agent |-> r.agent, parent |-> r.parent, kind |-> r.kind, context |-> r.context,
          priority |-> r.priority, cpu |-> r.cpu, memory |-> r.memory,
          timeout |-> r.timeout, target |-> r.target,
          operation |-> r.operation, payload |-> r.payload, inputs |-> r.inputs]
  BY <1>3, <1>7, <1>8, <1>9, <1>14
<1>16. r = [agent |-> r.agent, parent |-> r.parent, kind |-> r.kind, context |-> r.context,
            priority |-> r.priority, cpu |-> r.cpu, memory |-> r.memory,
            timeout |-> r.timeout, target |-> r.target,
            operation |-> r.operation, payload |-> r.payload, inputs |-> r.inputs]
  BY DEF InvocationRequests
<1> QED
  BY <1>5, <1>7, <1>15, <1>16 DEF p

-----------------------------------------------------------------------------
(* Calls and agents *)

\* Calls, regions and producers have names that are not null.
LEMMA CallsAre ==
  /\ Regions = Calls /\ Producers = Agents /\ NoRegion \notin Calls
  /\ \A k \in Calls : k \in Nat \ {0} /\ AgentOf(k) \in Agents
  /\ \A a \in Agents : a \in Nat \ {0}
<1>1. Regions = Calls /\ Producers = Agents /\ NoRegion \notin Calls
  BY ChannelAssumption, RegionAssumption
<1>2. AgentCount \in Nat \ {0} /\ RetryLimit \in [Agents -> Nat]
  BY ChannelAssumption
<1>3. ASSUME NEW k \in Calls
      PROVE  k \in Nat \ {0} /\ AgentOf(k) \in Agents
  <2>1. PICK a \in Agents : k \in {a + n * AgentCount : n \in 0 .. RetryLimit[a]}
    BY DEF Calls
  <2>2. PICK n \in 0 .. RetryLimit[a] : k = a + n * AgentCount
    BY <2>1
  <2>3. a \in Nat \ {0} /\ n \in Nat
    BY <1>2 DEF Agents
  <2>4. n * AgentCount \in Nat
    BY <1>2, <2>3
  <2>5. k \in Nat \ {0}
    BY <2>2, <2>3, <2>4
  <2> QED
    BY <1>2, <2>5 DEF AgentOf, Agents
<1>4. \A a \in Agents : a \in Nat \ {0}
  BY <1>2 DEF Agents
<1> QED
  BY <1>1, <1>3, <1>4

\* The calls can be counted.
LEMMA CallsFinite == IsFiniteSet(Calls)
<1> DEFINE of(a) == {a + n * AgentCount : n \in 0 .. RetryLimit[a]}
           All == {of(a) : a \in Agents}
<1>1. IsFiniteSet(Agents)
  BY ChannelAssumption, FS_Interval DEF Agents
<1>2. IsFiniteSet(All)
  <2> DEFINE f == [a \in Agents |-> of(a)]
  <2>1. f \in Surjection(Agents, All)
    BY DEF Surjection
  <2> QED
    BY <1>1, <2>1, FS_Surjection
<1>3. ASSUME NEW a \in Agents
      PROVE  IsFiniteSet(of(a))
  <2> DEFINE S == 0 .. RetryLimit[a]
             f == [n \in S |-> a + n * AgentCount]
  <2>1. IsFiniteSet(S)
    BY ChannelAssumption, FS_Interval
  <2>2. f \in Surjection(S, of(a))
    BY DEF Surjection
  <2> QED
    BY <2>1, <2>2, FS_Surjection
<1> HIDE DEF of
<1>4. \A S \in All : IsFiniteSet(S)
  BY <1>3
<1>5. IsFiniteSet(UNION All)
  BY <1>2, <1>4, FS_UNION
<1> QED
  BY <1>5 DEF Calls, of

-----------------------------------------------------------------------------
(* What execute_invocation and handle_client build *)

\* The dependencies attached to a request have a result.
LEMMA AttachedIs ==
  ASSUME NEW a \in Agents
  PROVE  /\ Attached(a) \in Seq(Agents)
         /\ \A i \in DOMAIN Attached(a) : store[Attached(a)[i]] # NoRegion
<1> DEFINE D == Dependencies[a]
           from == {i \in DOMAIN D : store[D[i]] # NoRegion}
           nth(n) == CHOOSE i \in from : Cardinality({j \in from : j <= i}) = n
           N == Cardinality(from)
<1>1. D \in Seq(Agents) /\ DOMAIN D = 1 .. Len(D) /\ Len(D) \in Nat
  BY ChannelAssumption
<1>2. from \in SUBSET (1 .. Len(D))
  BY <1>1
<1>3. N \in Nat
  <2>1. IsFiniteSet(1 .. Len(D))
    BY <1>1, FS_Interval
  <2> QED
    BY <1>2, <2>1, FS_Subset, FS_CardinalityType
<1>4. Attached(a) = [n \in 1 .. N |-> D[nth(n)]]
  BY DEF Attached
<1>5. ASSUME NEW n \in 1 .. N
      PROVE  nth(n) \in from
  <2> HIDE DEF from
  <2>1. \E i \in from : Cardinality({j \in from : j <= i}) = n
    BY <1>1, <1>2, NthExists
  <2> QED
    BY <2>1
<1>6. ASSUME NEW n \in 1 .. N
      PROVE  D[nth(n)] \in Agents /\ store[D[nth(n)]] # NoRegion
  <2> HIDE DEF nth
  <2>1. nth(n) \in DOMAIN D /\ store[D[nth(n)]] # NoRegion
    BY <1>5
  <2> QED
    BY <1>1, <2>1
<1> HIDE DEF nth, N, D
<1>7. Attached(a) \in Seq(Agents) /\ DOMAIN Attached(a) = 1 .. N
  BY <1>3, <1>4, <1>6
<1> QED
  BY <1>4, <1>6, <1>7

\* Flags are numbers again after one is set or cleared.
LEMMA FlagsAre ==
  ASSUME NEW flags \in Nat
  PROVE  /\ WithFlag(flags, Truncated) \in Nat /\ WithFlag(flags, Immutable) \in Nat
         /\ WithoutFlag(flags, Immutable) \in Nat
<1>1. HasFlag(flags, Immutable) => flags >= 2
  BY DEF HasFlag, Immutable
<1> QED
  BY <1>1 DEF WithFlag, WithoutFlag, Truncated, Immutable

\* A stored result has a reference.
LEMMA StoredReferenceIs ==
  ASSUME NEW d \in Agents, told[store[d]] \in InvocationResponses
  PROVE  StoredReference(d) \in References
<1> DEFINE out == told[store[d]].output
           over == MaxOutput > 0 /\ out.length > MaxOutput
           length == IF over THEN MaxOutput ELSE out.length
           cut == IF over THEN WithFlag(out.flags, Truncated) ELSE out.flags
<1>1. out \in References
  BY DEF InvocationResponses
<1> HIDE DEF out
<1>2. out.flags \in Nat /\ out.length \in Nat
  BY <1>1 DEF References
<1>3. length \in Nat /\ cut \in Nat
  BY <1>2, FlagsAre, ChannelAssumption
<1> HIDE DEF length, cut
<1>4. WithFlag(cut, Immutable) \in Nat /\ (IF length = 0 THEN 1 ELSE length) \in Nat
  BY <1>3, FlagsAre
<1>5. StoredReference(d) = [out EXCEPT !.size = IF length = 0 THEN 1 ELSE length,
                                       !.length = length, !.flags = WithFlag(cut, Immutable)]
  BY DEF StoredReference, out, length, cut
<1> QED
  BY <1>1, <1>3, <1>4, <1>5 DEF References

\* execute_invocation builds a request of its agent.
LEMMA BuildRequestIs ==
  ASSUME NEW a \in Agents, NEW spec \in Specs[a], StoreExact
  PROVE  BuildRequest(a, spec) \in InvocationRequests /\ BuildRequest(a, spec).agent = a
<1> DEFINE from == Attached(a)
           ins == [i \in DOMAIN from |-> [producer |-> from[i], reference |-> StoredReference(from[i])]]
<1>1. from \in Seq(Agents) /\ DOMAIN from = 1 .. Len(from) /\ Len(from) \in Nat
  BY AttachedIs
<1>2. ASSUME NEW i \in DOMAIN from
      PROVE  [producer |-> from[i], reference |-> StoredReference(from[i])] \in Inputs
  <2>1. from[i] \in Agents
    BY <1>1
  <2>2. store[from[i]] # NoRegion
    BY AttachedIs
  <2>3. from[i] \in Nat
    BY <2>1, CallsAre
  <2> HIDE DEF from
  <2>4. StoredReference(from[i]) \in References
    BY <2>1, <2>2, StoredReferenceIs DEF StoreExact
  <2> QED
    BY <2>3, <2>4 DEF Inputs
<1> HIDE DEF from
<1>3. ins \in Seq(Inputs)
  BY <1>1, <1>2
<1>4. spec \in InvocationSpecs /\ a \in Nat
  BY ChannelAssumption, CallsAre
<1>5. BuildRequest(a, spec) =
        [agent |-> a, parent |-> spec.parent, kind |-> spec.kind, context |-> spec.context,
         priority |-> spec.priority, cpu |-> spec.cpu, memory |-> spec.memory,
         timeout |-> spec.timeout, target |-> spec.target, operation |-> spec.operation,
         payload |-> spec.payload, inputs |-> ins]
  BY DEF BuildRequest, from
<1> HIDE DEF ins
<1>6. BuildRequest(a, spec) \in InvocationRequests
  BY <1>3, <1>4, <1>5 DEF InvocationSpecs, InvocationRequests
<1> QED
  BY <1>5, <1>6

\* handle_client builds a response to the request it has read.
LEMMA ResponseIs ==
  ASSUME NEW k \in Calls, NEW result \in HandlerResults, seen[k] \in InvocationRequests
  PROVE  /\ Response(k, result) \in InvocationResponses /\ Response(k, result).agent = seen[k].agent
         /\ Response(k, result).outputAvailable \/ Response(k, result).output = NoReference
         /\ Response(k, result).outputAvailable => Response(k, result).output.region = k /\ result.hasOutput
<1> DEFINE fits == result.hasOutput /\ result.length <= result.size
           bad == IF result.hasOutput THEN ~fits ELSE result.length # 0
           out == [region |-> k, size |-> result.size, offset |-> 0, length |-> result.length,
                   type |-> result.type, flags |-> WithoutFlag(result.flags, Immutable), version |-> 1]
           process == IF result.process >= 0 THEN result.process ELSE ServerPid
           status == IF bad THEN Failed ELSE result.status
           message == IF bad THEN <<>> ELSE result.message
           output == IF fits THEN out ELSE NoReference
<1>1. /\ result \in InvocationHandlerResults /\ ServerPid \in SignedWords /\ k \in Nat
      /\ seen[k].agent \in Nat
  BY ChannelAssumption, CallsAre DEF InvocationRequests
<1>2. /\ result.status \in Nat /\ result.message \in Text /\ result.context \in Nat
      /\ result.process \in SignedWords /\ result.counters \in Counters /\ result.cacheHit \in BOOLEAN
      /\ result.hasOutput \in BOOLEAN /\ result.size \in Nat /\ result.length \in Nat
      /\ result.type \in Nat /\ result.flags \in Nat
  BY <1>1 DEF InvocationHandlerResults
<1>3. WithoutFlag(result.flags, Immutable) \in Nat
  BY <1>2, FlagsAre
<1>4. out \in References /\ NoReference \in References /\ out.region = k
  BY <1>1, <1>2, <1>3 DEF References, NoReference
<1>5. fits \in BOOLEAN /\ (fits => result.hasOutput)
  BY <1>2
<1>6. process \in SignedWords /\ status \in Nat /\ message \in Text
  BY <1>1, <1>2 DEF Failed, Text
<1> HIDE DEF out
<1>7. output \in References /\ (fits => output.region = k) /\ (fits \/ output = NoReference)
  BY <1>4
<1>8. Response(k, result) =
        [agent |-> seen[k].agent, process |-> process, status |-> status, message |-> message,
         context |-> result.context, counters |-> result.counters, cacheHit |-> result.cacheHit,
         outputAvailable |-> fits, output |-> output]
  BY Zenon DEF Response, out
<1> HIDE DEF fits, bad, process, status, message, output
<1>9. Response(k, result) \in InvocationResponses
  BY <1>1, <1>2, <1>5, <1>6, <1>7, <1>8 DEF InvocationResponses
<1>10. /\ Response(k, result).agent = seen[k].agent /\ Response(k, result).outputAvailable = fits
       /\ Response(k, result).output = output
  BY <1>8
<1> QED
  BY <1>5, <1>7, <1>9, <1>10

-----------------------------------------------------------------------------
(* What arrives is what was sent *)

\* What a client decodes is the response its thread has built.
LEMMA ReceivedIs ==
  ASSUME ChannelInv, NEW k \in Calls, toClient[k] # NoPacket
  PROVE  /\ Received(k) = answer[k] /\ answer[k] # NoResponse /\ answer[k] \in InvocationResponses
         /\ answer[k].outputAvailable \in BOOLEAN
         /\ answer[k].outputAvailable => answer[k].output.region = k
<1>1. CallExact(k) /\ AnswerExact(k) /\ answer[k] \in InvocationResponses \cup {NoResponse}
  BY DEF ChannelInv, ChannelTypeOK
<1>2. answer[k] # NoResponse /\ toClient[k] = responsePacket[k]
  BY <1>1 DEF CallExact
<1>3. /\ answer[k] \in InvocationResponses /\ responsePacket[k] = EncodeResponse(answer[k])
      /\ answer[k].outputAvailable \/ answer[k].output = NoReference
      /\ answer[k].outputAvailable => answer[k].output.region = k
  BY <1>1, <1>2 DEF AnswerExact
<1>4. DecodeResponse(EncodeResponse(answer[k])) = answer[k]
  BY <1>2, <1>3, ResponseRoundTrip
<1>5. \A r \in InvocationResponses : r.outputAvailable \in BOOLEAN
  BY DEF InvocationResponses
<1> QED
  BY <1>2, <1>3, <1>4, <1>5 DEF Received

\* What a thread decodes is the request its client has built.
LEMMA SentIs ==
  ASSUME ChannelInv, NEW k \in Calls, toServer[k] # NoPacket
  PROVE  DecodeRequest(toServer[k]) = request[k] /\ request[k] \in InvocationRequests
<1>1. CallExact(k) /\ request[k] \in InvocationRequests \cup {NoRequest}
  BY DEF ChannelInv, ChannelTypeOK
<1>2. /\ caller[k] # "new" /\ toServer[k] = requestPacket[k] /\ requestPacket[k] = EncodeRequest(request[k])
      /\ request[k] # NoRequest
  BY <1>1 DEF CallExact
<1> QED
  BY <1>1, <1>2, RequestRoundTrip

-----------------------------------------------------------------------------
(* What a step leaves alone *)

\* A call of which nothing changes.
LEMMA CallFrame ==
  ASSUME NEW j \in Calls, CallExact(j), AnswerExact(j),
         caller'[j] = caller[j], request'[j] = request[j], requestPacket'[j] = requestPacket[j],
         told'[j] = told[j], toServer'[j] = toServer[j], toClient'[j] = toClient[j],
         thread'[j] = thread[j], seen'[j] = seen[j], answer'[j] = answer[j],
         responsePacket'[j] = responsePacket[j]
  PROVE  CallExact(j)' /\ AnswerExact(j)'
BY DEF CallExact, AnswerExact

\* The server's books, when no connection is accepted or done with.
LEMMA BooksFrame ==
  ASSUME BacklogExact, ClientsCounted, UNCHANGED <<server, backlog, activeClients>>,
         \A j \in Calls : (thread'[j] = "queued" <=> thread[j] = "queued")
                           /\ (thread'[j] \in Working <=> thread[j] \in Working)
  PROVE  BacklogExact' /\ ClientsCounted'
<1>1. BacklogExact'
  BY DEF BacklogExact
<1>2. {j \in Calls : thread'[j] \in Working} = {j \in Calls : thread[j] \in Working}
  OBVIOUS
<1>3. ClientsCounted'
  BY <1>2 DEF ClientsCounted
<1> QED
  BY <1>1, <1>3

\* FailCall keeps the invariant.
LEMMA FailCallStep ==
  ASSUME ChannelInv, NEW k \in Calls, caller[k] \in {"built", "connected", "sent"}, FailCall(k)
  PROVE  ChannelInv'
<1> USE DEF threadVars, serverVars
<1>0. /\ caller' = [caller EXCEPT ![k] = "done"]
      /\ told' = [told EXCEPT ![k] = Error]
      /\ toClient' = [toClient EXCEPT ![k] = NoPacket]
      /\ held' = held \ (Holds({"dup", "client"}, k) \cup (IF toClient[k] = NoPacket THEN {} ELSE As("wire", k, {k})))
      /\ writable' = writable \ (Holds({"dup", "client"}, k) \cup (IF toClient[k] = NoPacket THEN {} ELSE As("wire", k, {k})))
      /\ UNCHANGED <<sealed, request, requestPacket, toServer, thread, seen, answer, responsePacket, server, stopAsked,
                     backlog, activeClients, store>>
  BY DEF FailCall, Exchange
<1>T. ChannelTypeOK
  BY DEF ChannelInv
<1>1. ChannelTypeOK'
  <2>1. SharedTypeOK'
    BY <1>0, <1>T DEF ChannelTypeOK, SharedTypeOK
  <2>2. /\ caller' \in [Calls -> CallerStages] /\ told' \in [Calls -> InvocationResponses \cup {Open, Error}]
        /\ toClient' \in [Calls -> Seq(Int)]
    BY <1>0, <1>T DEF ChannelTypeOK, CallerStages, NoPacket
  <2> QED
    BY <1>0, <1>T, <2>1, <2>2 DEF ChannelTypeOK
<1>2. ASSUME NEW j \in Calls
      PROVE  CallExact(j)' /\ AnswerExact(j)'
  <2>0. CallExact(j) /\ AnswerExact(j)
    BY DEF ChannelInv
  <2>1. CASE j # k
    BY <1>0, <1>T, <2>0, <2>1, CallFrame DEF ChannelTypeOK
  <2>2. CASE j = k
    BY <1>0, <1>T, <2>0, <2>2 DEF ChannelTypeOK, CallExact, AnswerExact
  <2> QED
    BY <2>1, <2>2
<1>3. StoreExact'
  BY <1>0, <1>T, CallsAre DEF ChannelInv, ChannelTypeOK, SharedTypeOK, StoreExact
<1>4. HeldExact'
  <2> SUFFICES ASSUME NEW role \in Roles, NEW j \in Calls, NEW r \in Regions, <<role, j, r>> \in held'
               PROVE  HoldExact(role, j, r)'
    BY DEF HeldExact
  <2>1. HoldExact(role, j, r)
    BY <1>0 DEF ChannelInv, HeldExact
  <2>2. /\ j = k => role \notin {"dup", "client"}
        /\ j = k /\ role = "wire" /\ r = k => toClient[k] = NoPacket
    BY <1>0 DEF Holds, As
  <2>3. CASE j # k
    BY <1>0, <1>T, <2>1, <2>3 DEF ChannelTypeOK, HoldExact
  <2>4. CASE j = k
    BY <1>0, <1>T, <2>1, <2>2, <2>4 DEF ChannelTypeOK, HoldExact
  <2> QED
    BY <2>3, <2>4
<1>5. WritableExact'
  BY <1>0, <1>T, CallsAre DEF ChannelInv, ChannelTypeOK, SharedTypeOK, WritableExact, MayWrite
<1>6. SealedExact'
  BY <1>0, <1>T, CallsAre DEF ChannelInv, ChannelTypeOK, SharedTypeOK, SealedExact
<1>7. BacklogExact' /\ ClientsCounted'
  BY <1>0, BooksFrame DEF ChannelInv
<1> QED
  BY <1>1, <1>2, <1>3, <1>4, <1>5, <1>6, <1>7 DEF ChannelInv

\* EncodeResponseFails keeps the invariant.
LEMMA EncodeResponseFailsStep ==
  ASSUME ChannelInv, NEW k \in Calls, EncodeResponseFails(k)
  PROVE  ChannelInv'
<1>0. /\ thread[k] = "respond"
      /\ thread' = [thread EXCEPT ![k] = "close"]
      /\ responsePacket[k] = NoPacket
      /\ UNCHANGED <<caller, request, requestPacket, told, toServer, toClient, seen, answer, responsePacket, server, stopAsked, backlog, activeClients, held, writable, sealed, store>>
  BY DEF EncodeResponseFails, LeaveHandler, threadVars, wireVars, clientVars, serverVars, sharedVars, memoryVars
<1>T. ChannelTypeOK
  BY DEF ChannelInv
<1>1. ChannelTypeOK'
  <2>1. SharedTypeOK'
    BY <1>0, <1>T, CallsAre DEF ChannelTypeOK, SharedTypeOK, Holds, As, Entry, Roles
  <2>2. /\ thread' \in [Calls -> ThreadStages]
    BY <1>0, <1>T DEF ChannelTypeOK, CallerStages, ThreadStages, NoPacket
  <2> QED
    BY <1>0, <1>T, <2>1, <2>2 DEF ChannelTypeOK
<1>2. ASSUME NEW j \in Calls
      PROVE  CallExact(j)' /\ AnswerExact(j)'
  <2>0. CallExact(j) /\ AnswerExact(j)
    BY DEF ChannelInv
  <2>1. CASE j # k
    BY <1>0, <1>T, <2>0, <2>1, CallFrame DEF ChannelTypeOK
  <2>2. CASE j = k
    BY <1>0, <1>T, <2>0, <2>2 DEF ChannelTypeOK, CallExact, AnswerExact, Working, ServerEndOpen, ClientEndOpen
  <2> QED
    BY <2>1, <2>2
<1>3. StoreExact'
  BY <1>0, <1>T, CallsAre DEF ChannelInv, ChannelTypeOK, SharedTypeOK, StoreExact
<1>4. HeldExact'
  <2> SUFFICES ASSUME NEW role \in Roles, NEW j \in Calls, NEW r \in Regions, <<role, j, r>> \in held'
               PROVE  HoldExact(role, j, r)'
    BY DEF HeldExact
  <2>1. <<role, j, r>> \in held => HoldExact(role, j, r)
    BY DEF ChannelInv, HeldExact
  <2>2. /\ <<role, j, r>> \in held
    BY <1>0 DEF Holds, As, Entry
  <2>3. CASE j # k
    BY <1>0, <1>T, <2>1, <2>2, <2>3 DEF ChannelTypeOK, HoldExact
  <2>4. CASE j = k
    BY <1>0, <1>T, <2>1, <2>2, <2>4 DEF ChannelTypeOK, HoldExact
  <2> QED
    BY <2>3, <2>4
<1>5. WritableExact'
  BY <1>0, <1>T, CallsAre DEF ChannelInv, ChannelTypeOK, SharedTypeOK, WritableExact, MayWrite
<1>6. SealedExact'
  BY <1>0, <1>T, CallsAre DEF ChannelInv, ChannelTypeOK, SharedTypeOK, SealedExact
<1>7. BacklogExact' /\ ClientsCounted'
  BY <1>0, <1>T, BooksFrame DEF ChannelInv, ChannelTypeOK, Working
<1> QED
  BY <1>1, <1>2, <1>3, <1>4, <1>5, <1>6, <1>7 DEF ChannelInv

\* ReleaseOutput keeps the invariant.
LEMMA ReleaseOutputStep ==
  ASSUME ChannelInv, NEW k \in Calls, ReleaseOutput(k)
  PROVE  ChannelInv'
<1>0. /\ thread[k] = "respond"
      /\ thread' = [thread EXCEPT ![k] = "send"]
      /\ responsePacket[k] # NoPacket
      /\ writable' = writable \ Holds({"server"}, k)
      /\ UNCHANGED <<caller, request, requestPacket, told, toServer, toClient, seen, answer, responsePacket, server, stopAsked, backlog, activeClients, held, sealed, store>>
  BY DEF ReleaseOutput, Unmap, threadVars, wireVars, clientVars, serverVars, sharedVars, memoryVars
<1>T. ChannelTypeOK
  BY DEF ChannelInv
<1>1. ChannelTypeOK'
  <2>1. SharedTypeOK'
    BY <1>0, <1>T, CallsAre DEF ChannelTypeOK, SharedTypeOK, Holds, As, Entry, Roles
  <2>2. /\ thread' \in [Calls -> ThreadStages]
    BY <1>0, <1>T DEF ChannelTypeOK, CallerStages, ThreadStages, NoPacket
  <2> QED
    BY <1>0, <1>T, <2>1, <2>2 DEF ChannelTypeOK
<1>2. ASSUME NEW j \in Calls
      PROVE  CallExact(j)' /\ AnswerExact(j)'
  <2>0. CallExact(j) /\ AnswerExact(j)
    BY DEF ChannelInv
  <2>1. CASE j # k
    BY <1>0, <1>T, <2>0, <2>1, CallFrame DEF ChannelTypeOK
  <2>2. CASE j = k
    BY <1>0, <1>T, <2>0, <2>2 DEF ChannelTypeOK, CallExact, AnswerExact, Working, ServerEndOpen, ClientEndOpen
  <2> QED
    BY <2>1, <2>2
<1>3. StoreExact'
  BY <1>0, <1>T, CallsAre DEF ChannelInv, ChannelTypeOK, SharedTypeOK, StoreExact
<1>4. HeldExact'
  <2> SUFFICES ASSUME NEW role \in Roles, NEW j \in Calls, NEW r \in Regions, <<role, j, r>> \in held'
               PROVE  HoldExact(role, j, r)'
    BY DEF HeldExact
  <2>1. <<role, j, r>> \in held => HoldExact(role, j, r)
    BY DEF ChannelInv, HeldExact
  <2>2. /\ <<role, j, r>> \in held
    BY <1>0 DEF Holds, As, Entry
  <2>3. CASE j # k
    BY <1>0, <1>T, <2>1, <2>2, <2>3 DEF ChannelTypeOK, HoldExact
  <2>4. CASE j = k
    BY <1>0, <1>T, <2>1, <2>2, <2>4 DEF ChannelTypeOK, HoldExact
  <2> QED
    BY <2>3, <2>4
<1>5. WritableExact'
  <2> SUFFICES ASSUME NEW role \in Roles, NEW j \in Calls, NEW r \in Regions, <<role, j, r>> \in writable'
               PROVE  MayWrite(role, j)'
    BY DEF WritableExact
  <2>1. <<role, j, r>> \in writable => MayWrite(role, j)
    BY DEF ChannelInv, WritableExact
  <2>2. /\ <<role, j, r>> \in writable
        /\ j = k => role # "server"
    BY <1>0 DEF Holds, As, Entry
  <2> QED
    BY <1>0, <1>T, <2>1, <2>2 DEF ChannelTypeOK, MayWrite
<1>6. SealedExact'
  BY <1>0, <1>T, CallsAre DEF ChannelInv, ChannelTypeOK, SharedTypeOK, SealedExact
<1>7. BacklogExact' /\ ClientsCounted'
  BY <1>0, <1>T, BooksFrame DEF ChannelInv, ChannelTypeOK, Working
<1> QED
  BY <1>1, <1>2, <1>3, <1>4, <1>5, <1>6, <1>7 DEF ChannelInv

\* SendResponseFails keeps the invariant.
LEMMA SendResponseFailsStep ==
  ASSUME ChannelInv, NEW k \in Calls, SendResponseFails(k)
  PROVE  ChannelInv'
<1>0. /\ thread[k] = "send"
      /\ thread' = [thread EXCEPT ![k] = "close"]
      /\ UNCHANGED <<caller, request, requestPacket, told, toServer, toClient, seen, answer, responsePacket, server, stopAsked, backlog, activeClients, held, writable, sealed, store>>
  BY DEF SendResponseFails, LeaveHandler, threadVars, wireVars, clientVars, serverVars, sharedVars, memoryVars
<1>T. ChannelTypeOK
  BY DEF ChannelInv
<1>1. ChannelTypeOK'
  <2>1. SharedTypeOK'
    BY <1>0, <1>T, CallsAre DEF ChannelTypeOK, SharedTypeOK, Holds, As, Entry, Roles
  <2>2. /\ thread' \in [Calls -> ThreadStages]
    BY <1>0, <1>T DEF ChannelTypeOK, CallerStages, ThreadStages, NoPacket
  <2> QED
    BY <1>0, <1>T, <2>1, <2>2 DEF ChannelTypeOK
<1>2. ASSUME NEW j \in Calls
      PROVE  CallExact(j)' /\ AnswerExact(j)'
  <2>0. CallExact(j) /\ AnswerExact(j)
    BY DEF ChannelInv
  <2>1. CASE j # k
    BY <1>0, <1>T, <2>0, <2>1, CallFrame DEF ChannelTypeOK
  <2>2. CASE j = k
    BY <1>0, <1>T, <2>0, <2>2 DEF ChannelTypeOK, CallExact, AnswerExact, Working, ServerEndOpen, ClientEndOpen
  <2> QED
    BY <2>1, <2>2
<1>3. StoreExact'
  BY <1>0, <1>T, CallsAre DEF ChannelInv, ChannelTypeOK, SharedTypeOK, StoreExact
<1>4. HeldExact'
  <2> SUFFICES ASSUME NEW role \in Roles, NEW j \in Calls, NEW r \in Regions, <<role, j, r>> \in held'
               PROVE  HoldExact(role, j, r)'
    BY DEF HeldExact
  <2>1. <<role, j, r>> \in held => HoldExact(role, j, r)
    BY DEF ChannelInv, HeldExact
  <2>2. /\ <<role, j, r>> \in held
    BY <1>0 DEF Holds, As, Entry
  <2>3. CASE j # k
    BY <1>0, <1>T, <2>1, <2>2, <2>3 DEF ChannelTypeOK, HoldExact
  <2>4. CASE j = k
    BY <1>0, <1>T, <2>1, <2>2, <2>4 DEF ChannelTypeOK, HoldExact
  <2> QED
    BY <2>3, <2>4
<1>5. WritableExact'
  BY <1>0, <1>T, CallsAre DEF ChannelInv, ChannelTypeOK, SharedTypeOK, WritableExact, MayWrite
<1>6. SealedExact'
  BY <1>0, <1>T, CallsAre DEF ChannelInv, ChannelTypeOK, SharedTypeOK, SealedExact
<1>7. BacklogExact' /\ ClientsCounted'
  BY <1>0, <1>T, BooksFrame DEF ChannelInv, ChannelTypeOK, Working
<1> QED
  BY <1>1, <1>2, <1>3, <1>4, <1>5, <1>6, <1>7 DEF ChannelInv

\* CloseClient keeps the invariant.
LEMMA CloseClientStep ==
  ASSUME ChannelInv, NEW k \in Calls, CloseClient(k)
  PROVE  ChannelInv'
<1>0. /\ thread[k] = "close"
      /\ thread' = [thread EXCEPT ![k] = "leave"]
      /\ held' = held \ Holds({"view", "server"}, k)
      /\ writable' = writable \ Holds({"view", "server"}, k)
      /\ UNCHANGED <<caller, request, requestPacket, told, toServer, toClient, seen, answer, responsePacket, server, stopAsked, backlog, activeClients, sealed, store>>
  BY DEF CloseClient, Exchange, threadVars, wireVars, clientVars, serverVars, sharedVars, memoryVars
<1>T. ChannelTypeOK
  BY DEF ChannelInv
<1>1. ChannelTypeOK'
  <2>1. SharedTypeOK'
    BY <1>0, <1>T, CallsAre DEF ChannelTypeOK, SharedTypeOK, Holds, As, Entry, Roles
  <2>2. /\ thread' \in [Calls -> ThreadStages]
    BY <1>0, <1>T DEF ChannelTypeOK, CallerStages, ThreadStages, NoPacket
  <2> QED
    BY <1>0, <1>T, <2>1, <2>2 DEF ChannelTypeOK
<1>2. ASSUME NEW j \in Calls
      PROVE  CallExact(j)' /\ AnswerExact(j)'
  <2>0. CallExact(j) /\ AnswerExact(j)
    BY DEF ChannelInv
  <2>1. CASE j # k
    BY <1>0, <1>T, <2>0, <2>1, CallFrame DEF ChannelTypeOK
  <2>2. CASE j = k
    BY <1>0, <1>T, <2>0, <2>2 DEF ChannelTypeOK, CallExact, AnswerExact, Working, ServerEndOpen, ClientEndOpen
  <2> QED
    BY <2>1, <2>2
<1>3. StoreExact'
  BY <1>0, <1>T, CallsAre DEF ChannelInv, ChannelTypeOK, SharedTypeOK, StoreExact
<1>4. HeldExact'
  <2> SUFFICES ASSUME NEW role \in Roles, NEW j \in Calls, NEW r \in Regions, <<role, j, r>> \in held'
               PROVE  HoldExact(role, j, r)'
    BY DEF HeldExact
  <2>1. <<role, j, r>> \in held => HoldExact(role, j, r)
    BY DEF ChannelInv, HeldExact
  <2>2. /\ <<role, j, r>> \in held
        /\ j = k => role \notin {"view", "server"}
    BY <1>0 DEF Holds, As, Entry
  <2>3. CASE j # k
    BY <1>0, <1>T, <2>1, <2>2, <2>3 DEF ChannelTypeOK, HoldExact
  <2>4. CASE j = k
    BY <1>0, <1>T, <2>1, <2>2, <2>4 DEF ChannelTypeOK, HoldExact
  <2> QED
    BY <2>3, <2>4
<1>5. WritableExact'
  <2> SUFFICES ASSUME NEW role \in Roles, NEW j \in Calls, NEW r \in Regions, <<role, j, r>> \in writable'
               PROVE  MayWrite(role, j)'
    BY DEF WritableExact
  <2>1. <<role, j, r>> \in writable => MayWrite(role, j)
    BY DEF ChannelInv, WritableExact
  <2>2. /\ <<role, j, r>> \in writable
        /\ j = k => role # "server"
    BY <1>0 DEF Holds, As, Entry
  <2> QED
    BY <1>0, <1>T, <2>1, <2>2 DEF ChannelTypeOK, MayWrite
<1>6. SealedExact'
  BY <1>0, <1>T, CallsAre DEF ChannelInv, ChannelTypeOK, SharedTypeOK, SealedExact
<1>7. BacklogExact' /\ ClientsCounted'
  BY <1>0, <1>T, BooksFrame DEF ChannelInv, ChannelTypeOK, Working
<1> QED
  BY <1>1, <1>2, <1>3, <1>4, <1>5, <1>6, <1>7 DEF ChannelInv

\* ReceiveRequest keeps the invariant.
LEMMA ReceiveRequestStep ==
  ASSUME ChannelInv, NEW k \in Calls, ReceiveRequest(k)
  PROVE  ChannelInv'
<1>0. /\ thread[k] = "receive" /\ toServer[k] # NoPacket
      /\ thread' = [thread EXCEPT ![k] = "handle"]
      /\ toServer' = [toServer EXCEPT ![k] = NoPacket]
      /\ seen' = [seen EXCEPT ![k] = DecodeRequest(toServer[k])]
      /\ held' = (held \ Holds({"wire"}, k)) \cup As("view", k, HeldAs("wire", k))
      /\ writable' = writable \ Holds({"wire"}, k)
      /\ UNCHANGED <<caller, request, requestPacket, told, toClient, answer, responsePacket, server, stopAsked, backlog, activeClients, sealed, store>>
  BY DEF ReceiveRequest, TakePacket, Exchange, threadVars, wireVars, clientVars, serverVars, sharedVars, memoryVars
<1>T. ChannelTypeOK
  BY DEF ChannelInv
<1>P. DecodeRequest(toServer[k]) = request[k] /\ request[k] \in InvocationRequests
  BY <1>0, SentIs
<1>1. ChannelTypeOK'
  <2>1. SharedTypeOK'
    <3>1. /\ held \subseteq Roles \X Regions \X Regions /\ writable \subseteq held
          /\ sealed \subseteq Regions /\ store \in [Producers -> Regions \cup {NoRegion}]
      BY <1>T DEF ChannelTypeOK, SharedTypeOK
    <3>2. As("view", k, HeldAs("wire", k)) \subseteq Roles \X Regions \X Regions
      BY CallsAre DEF As, HeldAs, Roles
    <3> QED
      BY <1>0, <3>1, <3>2 DEF SharedTypeOK
  <2>2. /\ thread' \in [Calls -> ThreadStages]
        /\ toServer' \in [Calls -> Seq(Int)]
        /\ seen' \in [Calls -> InvocationRequests \cup {NoRequest}]
    BY <1>0, <1>T, <1>P DEF ChannelTypeOK, CallerStages, ThreadStages, NoPacket
  <2> QED
    BY <1>0, <1>T, <2>1, <2>2 DEF ChannelTypeOK
<1>2. ASSUME NEW j \in Calls
      PROVE  CallExact(j)' /\ AnswerExact(j)'
  <2>0. CallExact(j) /\ AnswerExact(j)
    BY DEF ChannelInv
  <2>1. CASE j # k
    BY <1>0, <1>T, <2>0, <2>1, CallFrame DEF ChannelTypeOK
  <2>2. CASE j = k
    BY <1>0, <1>T, <1>P, <2>0, <2>2 DEF ChannelTypeOK, CallExact, AnswerExact, Working, ServerEndOpen, ClientEndOpen
  <2> QED
    BY <2>1, <2>2
<1>3. StoreExact'
  BY <1>0, <1>T, <1>P, CallsAre DEF ChannelInv, ChannelTypeOK, SharedTypeOK, StoreExact
<1>4. HeldExact'
  <2> SUFFICES ASSUME NEW role \in Roles, NEW j \in Calls, NEW r \in Regions, <<role, j, r>> \in held'
               PROVE  HoldExact(role, j, r)'
    BY DEF HeldExact
  <2>1. <<role, j, r>> \in held => HoldExact(role, j, r)
    BY DEF ChannelInv, HeldExact
  <2>2. /\ <<role, j, r>> \in held \/ (role = "view" /\ j = k)
        /\ j = k => role # "wire"
    <3>1. <<role, j, r>> \in held \ Holds({"wire"}, k) \/ <<role, j, r>> \in As("view", k, HeldAs("wire", k))
      BY <1>0
    <3> QED
      BY <3>1 DEF As, Holds
  <2>3. CASE j # k
    BY <1>0, <1>T, <2>1, <2>2, <2>3 DEF ChannelTypeOK, HoldExact
  <2>4. CASE j = k
    BY <1>0, <1>T, <1>P, <2>1, <2>2, <2>4 DEF ChannelTypeOK, HoldExact
  <2> QED
    BY <2>3, <2>4
<1>5. WritableExact'
  <2> SUFFICES ASSUME NEW role \in Roles, NEW j \in Calls, NEW r \in Regions, <<role, j, r>> \in writable'
               PROVE  MayWrite(role, j)'
    BY DEF WritableExact
  <2>1. <<role, j, r>> \in writable => MayWrite(role, j)
    BY DEF ChannelInv, WritableExact
  <2>2. /\ <<role, j, r>> \in writable
    BY <1>0, <1>P DEF Holds, As, Entry
  <2> QED
    BY <1>0, <1>T, <1>P, <2>1, <2>2 DEF ChannelTypeOK, MayWrite
<1>6. SealedExact'
  BY <1>0, <1>T, <1>P, CallsAre DEF ChannelInv, ChannelTypeOK, SharedTypeOK, SealedExact
<1>7. BacklogExact' /\ ClientsCounted'
  BY <1>0, <1>T, BooksFrame DEF ChannelInv, ChannelTypeOK, Working
<1> QED
  BY <1>1, <1>2, <1>3, <1>4, <1>5, <1>6, <1>7 DEF ChannelInv

\* ReceiveRequestFails keeps the invariant.
LEMMA ReceiveRequestFailsStep ==
  ASSUME ChannelInv, NEW k \in Calls, ReceiveRequestFails(k)
  PROVE  ChannelInv'
<1>0. /\ thread[k] = "receive" /\ (toServer[k] # NoPacket \/ caller[k] = "done")
      /\ thread' = [thread EXCEPT ![k] = "close"]
      /\ toServer' = [toServer EXCEPT ![k] = NoPacket]
      /\ held' = held \ Holds({"wire"}, k)
      /\ writable' = writable \ Holds({"wire"}, k)
      /\ UNCHANGED <<caller, request, requestPacket, told, toClient, seen, answer, responsePacket, server, stopAsked, backlog, activeClients, sealed, store>>
  BY DEF ReceiveRequestFails, TakePacket, Exchange, threadVars, wireVars, clientVars, serverVars, sharedVars, memoryVars
<1>T. ChannelTypeOK
  BY DEF ChannelInv
<1>1. ChannelTypeOK'
  <2>1. SharedTypeOK'
    BY <1>0, <1>T, CallsAre DEF ChannelTypeOK, SharedTypeOK, Holds, As, Entry, Roles
  <2>2. /\ thread' \in [Calls -> ThreadStages]
        /\ toServer' \in [Calls -> Seq(Int)]
    BY <1>0, <1>T DEF ChannelTypeOK, CallerStages, ThreadStages, NoPacket
  <2> QED
    BY <1>0, <1>T, <2>1, <2>2 DEF ChannelTypeOK
<1>2. ASSUME NEW j \in Calls
      PROVE  CallExact(j)' /\ AnswerExact(j)'
  <2>0. CallExact(j) /\ AnswerExact(j)
    BY DEF ChannelInv
  <2>1. CASE j # k
    BY <1>0, <1>T, <2>0, <2>1, CallFrame DEF ChannelTypeOK
  <2>2. CASE j = k
    BY <1>0, <1>T, <2>0, <2>2 DEF ChannelTypeOK, CallExact, AnswerExact, Working, ServerEndOpen, ClientEndOpen
  <2> QED
    BY <2>1, <2>2
<1>3. StoreExact'
  BY <1>0, <1>T, CallsAre DEF ChannelInv, ChannelTypeOK, SharedTypeOK, StoreExact
<1>4. HeldExact'
  <2> SUFFICES ASSUME NEW role \in Roles, NEW j \in Calls, NEW r \in Regions, <<role, j, r>> \in held'
               PROVE  HoldExact(role, j, r)'
    BY DEF HeldExact
  <2>1. <<role, j, r>> \in held => HoldExact(role, j, r)
    BY DEF ChannelInv, HeldExact
  <2>2. /\ <<role, j, r>> \in held
        /\ j = k => role # "wire"
    BY <1>0 DEF Holds, As, Entry
  <2>3. CASE j # k
    BY <1>0, <1>T, <2>1, <2>2, <2>3 DEF ChannelTypeOK, HoldExact
  <2>4. CASE j = k
    BY <1>0, <1>T, <2>1, <2>2, <2>4 DEF ChannelTypeOK, HoldExact
  <2> QED
    BY <2>3, <2>4
<1>5. WritableExact'
  <2> SUFFICES ASSUME NEW role \in Roles, NEW j \in Calls, NEW r \in Regions, <<role, j, r>> \in writable'
               PROVE  MayWrite(role, j)'
    BY DEF WritableExact
  <2>1. <<role, j, r>> \in writable => MayWrite(role, j)
    BY DEF ChannelInv, WritableExact
  <2>2. /\ <<role, j, r>> \in writable
    BY <1>0 DEF Holds, As, Entry
  <2> QED
    BY <1>0, <1>T, <2>1, <2>2 DEF ChannelTypeOK, MayWrite
<1>6. SealedExact'
  BY <1>0, <1>T, CallsAre DEF ChannelInv, ChannelTypeOK, SharedTypeOK, SealedExact
<1>7. BacklogExact' /\ ClientsCounted'
  BY <1>0, <1>T, BooksFrame DEF ChannelInv, ChannelTypeOK, Working
<1> QED
  BY <1>1, <1>2, <1>3, <1>4, <1>5, <1>6, <1>7 DEF ChannelInv

\* Handle keeps the invariant.
LEMMA HandleStep ==
  ASSUME ChannelInv, NEW k \in Calls, NEW result \in HandlerResults, Handle(k, result)
  PROVE  ChannelInv'
<1>0. /\ thread[k] = "handle"
      /\ thread' = [thread EXCEPT ![k] = "respond"]
      /\ answer' = [answer EXCEPT ![k] = Response(k, result)]
      /\ responsePacket' = [responsePacket EXCEPT ![k] = EncodeResponse(Response(k, result))]
      /\ held' = held \cup (IF result.hasOutput THEN As("server", k, {k}) ELSE {})
      /\ writable' = writable \cup (IF result.hasOutput THEN As("server", k, {k}) ELSE {})
      /\ UNCHANGED <<caller, request, requestPacket, told, toServer, toClient, seen, server, stopAsked, backlog, activeClients, sealed, store>>
  BY DEF Handle, ExchangeWritable, threadVars, wireVars, clientVars, serverVars, sharedVars, memoryVars
<1>T. ChannelTypeOK
  BY DEF ChannelInv
<1>P. seen[k] = request[k] /\ seen[k] \in InvocationRequests /\ seen[k].agent = AgentOf(k) /\ toClient[k] = NoPacket
  <2>1. CallExact(k) /\ request[k] \in InvocationRequests \cup {NoRequest}
    BY <1>T DEF ChannelInv, ChannelTypeOK
  <2> QED
    BY <1>0, <2>1 DEF CallExact
<1> DEFINE R == Response(k, result)
<1>R. /\ R \in InvocationResponses /\ R.agent = AgentOf(k)
      /\ R.outputAvailable \/ R.output = NoReference
      /\ R.outputAvailable => R.output.region = k
  BY <1>P, ResponseIs
<1>E. EncodeResponse(R) \in Seq(Int)
  <2>1. CASE EncodeResponse(R) = NoPacket
    BY <2>1 DEF NoPacket
  <2>2. CASE EncodeResponse(R) # NoPacket
    BY <1>R, <2>2, ResponseRoundTrip
  <2> QED
    BY <2>1, <2>2
<1>N. R # NoResponse
  <2>1. AgentOf(k) # 0 /\ NoResponse.agent = 0
    BY CallsAre DEF NoResponse
  <2> HIDE DEF R
  <2> QED
    BY <1>R, <2>1
<1> HIDE DEF R
<1>F. /\ answer' = [answer EXCEPT ![k] = R] /\ responsePacket' = [responsePacket EXCEPT ![k] = EncodeResponse(R)]
  BY <1>0 DEF R
<1>1. ChannelTypeOK'
  <2>1. SharedTypeOK'
    <3>1. /\ held \subseteq Roles \X Regions \X Regions /\ writable \subseteq held
          /\ sealed \subseteq Regions /\ store \in [Producers -> Regions \cup {NoRegion}]
      BY <1>T DEF ChannelTypeOK, SharedTypeOK
    <3>2. As("server", k, {k}) \subseteq Roles \X Regions \X Regions
      BY CallsAre DEF As, Roles
    <3> QED
      BY <1>0, <3>1, <3>2 DEF SharedTypeOK
  <2>2. /\ thread' \in [Calls -> ThreadStages]
        /\ answer' \in [Calls -> InvocationResponses \cup {NoResponse}]
        /\ responsePacket' \in [Calls -> Seq(Int)]
    BY <1>0, <1>T, <1>P, <1>R, <1>E, <1>N, <1>F DEF ChannelTypeOK, CallerStages, ThreadStages, NoPacket
  <2> QED
    BY <1>0, <1>T, <2>1, <2>2 DEF ChannelTypeOK
<1>2. ASSUME NEW j \in Calls
      PROVE  CallExact(j)' /\ AnswerExact(j)'
  <2>0. CallExact(j) /\ AnswerExact(j)
    BY DEF ChannelInv
  <2>1. CASE j # k
    BY <1>0, <1>T, <2>0, <2>1, CallFrame DEF ChannelTypeOK
  <2>2. CASE j = k
    BY <1>0, <1>T, <1>P, <1>R, <1>E, <1>N, <1>F, <2>0, <2>2 DEF ChannelTypeOK, CallExact, AnswerExact, Working, ServerEndOpen, ClientEndOpen
  <2> QED
    BY <2>1, <2>2
<1>3. StoreExact'
  BY <1>0, <1>T, <1>P, <1>R, <1>E, <1>N, <1>F, CallsAre DEF ChannelInv, ChannelTypeOK, SharedTypeOK, StoreExact
<1>4. HeldExact'
  <2> SUFFICES ASSUME NEW role \in Roles, NEW j \in Calls, NEW r \in Regions, <<role, j, r>> \in held'
               PROVE  HoldExact(role, j, r)'
    BY DEF HeldExact
  <2>1. <<role, j, r>> \in held => HoldExact(role, j, r)
    BY DEF ChannelInv, HeldExact
  <2>2. /\ <<role, j, r>> \in held \/ (role = "server" /\ j = k /\ r = k)
    <3>1. <<role, j, r>> \in held \/ <<role, j, r>> \in As("server", k, {k})
      BY <1>0, Zenon
    <3> QED
      BY <3>1 DEF As
  <2>3. CASE j # k
    BY <1>0, <1>T, <2>1, <2>2, <2>3 DEF ChannelTypeOK, HoldExact
  <2>4. CASE j = k
    BY <1>0, <1>T, <1>P, <1>R, <1>E, <1>N, <1>F, <2>1, <2>2, <2>4 DEF ChannelTypeOK, HoldExact
  <2> QED
    BY <2>3, <2>4
<1>5. WritableExact'
  <2> SUFFICES ASSUME NEW role \in Roles, NEW j \in Calls, NEW r \in Regions, <<role, j, r>> \in writable'
               PROVE  MayWrite(role, j)'
    BY DEF WritableExact
  <2>1. <<role, j, r>> \in writable => MayWrite(role, j)
    BY DEF ChannelInv, WritableExact
  <2>2. /\ <<role, j, r>> \in writable \/ (role = "server" /\ j = k)
    <3>1. <<role, j, r>> \in writable \/ <<role, j, r>> \in As("server", k, {k})
      BY <1>0, Zenon
    <3> QED
      BY <3>1 DEF As
  <2> QED
    BY <1>0, <1>T, <1>P, <1>R, <1>E, <1>N, <1>F, <2>1, <2>2 DEF ChannelTypeOK, MayWrite
<1>6. SealedExact'
  BY <1>0, <1>T, <1>P, <1>R, <1>E, <1>N, <1>F, CallsAre DEF ChannelInv, ChannelTypeOK, SharedTypeOK, SealedExact
<1>7. BacklogExact' /\ ClientsCounted'
  BY <1>0, <1>T, BooksFrame DEF ChannelInv, ChannelTypeOK, Working
<1> QED
  BY <1>1, <1>2, <1>3, <1>4, <1>5, <1>6, <1>7 DEF ChannelInv

\* SendResponse keeps the invariant.
LEMMA SendResponseStep ==
  ASSUME ChannelInv, NEW k \in Calls, SendResponse(k)
  PROVE  ChannelInv'
<1>0. /\ thread[k] = "send" /\ caller[k] \in {"connected", "sent"}
      /\ thread' = [thread EXCEPT ![k] = "close"]
      /\ toClient' = [toClient EXCEPT ![k] = responsePacket[k]]
      /\ held' = held \cup (IF answer[k].outputAvailable THEN As("wire", k, {k}) ELSE {})
      /\ writable' = writable
      /\ UNCHANGED <<caller, request, requestPacket, told, toServer, seen, answer, responsePacket, server, stopAsked, backlog, activeClients, sealed, store>>
  BY DEF SendResponse, ClientEndOpen, Exchange, threadVars, wireVars, clientVars, serverVars, sharedVars, memoryVars
<1>T. ChannelTypeOK
  BY DEF ChannelInv
<1>P. caller[k] = "sent" /\ responsePacket[k] # NoPacket /\ answer[k] # NoResponse
  <2>1. CallExact(k)
    BY DEF ChannelInv
  <2> QED
    BY <1>0, <2>1 DEF CallExact
<1>1. ChannelTypeOK'
  <2>1. SharedTypeOK'
    <3>1. /\ held \subseteq Roles \X Regions \X Regions /\ writable \subseteq held
          /\ sealed \subseteq Regions /\ store \in [Producers -> Regions \cup {NoRegion}]
      BY <1>T DEF ChannelTypeOK, SharedTypeOK
    <3>2. As("wire", k, {k}) \subseteq Roles \X Regions \X Regions
      BY CallsAre DEF As, Roles
    <3> QED
      BY <1>0, <3>1, <3>2 DEF SharedTypeOK
  <2>2. /\ thread' \in [Calls -> ThreadStages]
        /\ toClient' \in [Calls -> Seq(Int)]
    BY <1>0, <1>T, <1>P DEF ChannelTypeOK, CallerStages, ThreadStages, NoPacket
  <2> QED
    BY <1>0, <1>T, <2>1, <2>2 DEF ChannelTypeOK
<1>2. ASSUME NEW j \in Calls
      PROVE  CallExact(j)' /\ AnswerExact(j)'
  <2>0. CallExact(j) /\ AnswerExact(j)
    BY DEF ChannelInv
  <2>1. CASE j # k
    BY <1>0, <1>T, <2>0, <2>1, CallFrame DEF ChannelTypeOK
  <2>2. CASE j = k
    BY <1>0, <1>T, <1>P, <2>0, <2>2 DEF ChannelTypeOK, CallExact, AnswerExact, Working, ServerEndOpen, ClientEndOpen
  <2> QED
    BY <2>1, <2>2
<1>3. StoreExact'
  BY <1>0, <1>T, <1>P, CallsAre DEF ChannelInv, ChannelTypeOK, SharedTypeOK, StoreExact
<1>4. HeldExact'
  <2> SUFFICES ASSUME NEW role \in Roles, NEW j \in Calls, NEW r \in Regions, <<role, j, r>> \in held'
               PROVE  HoldExact(role, j, r)'
    BY DEF HeldExact
  <2>1. <<role, j, r>> \in held => HoldExact(role, j, r)
    BY DEF ChannelInv, HeldExact
  <2>2. /\ <<role, j, r>> \in held \/ (role = "wire" /\ j = k /\ r = k)
    <3>1. <<role, j, r>> \in held \/ <<role, j, r>> \in As("wire", k, {k})
      BY <1>0, Zenon
    <3> QED
      BY <3>1 DEF As
  <2>3. CASE j # k
    BY <1>0, <1>T, <2>1, <2>2, <2>3 DEF ChannelTypeOK, HoldExact
  <2>4. CASE j = k
    BY <1>0, <1>T, <1>P, <2>1, <2>2, <2>4 DEF ChannelTypeOK, HoldExact
  <2> QED
    BY <2>3, <2>4
<1>5. WritableExact'
  <2> SUFFICES ASSUME NEW role \in Roles, NEW j \in Calls, NEW r \in Regions, <<role, j, r>> \in writable'
               PROVE  MayWrite(role, j)'
    BY DEF WritableExact
  <2>1. <<role, j, r>> \in writable => MayWrite(role, j)
    BY DEF ChannelInv, WritableExact
  <2>2. /\ <<role, j, r>> \in writable
    BY <1>0, <1>P DEF Holds, As, Entry
  <2> QED
    BY <1>0, <1>T, <1>P, <2>1, <2>2 DEF ChannelTypeOK, MayWrite
<1>6. SealedExact'
  BY <1>0, <1>T, <1>P, CallsAre DEF ChannelInv, ChannelTypeOK, SharedTypeOK, SealedExact
<1>7. BacklogExact' /\ ClientsCounted'
  BY <1>0, <1>T, BooksFrame DEF ChannelInv, ChannelTypeOK, Working
<1> QED
  BY <1>1, <1>2, <1>3, <1>4, <1>5, <1>6, <1>7 DEF ChannelInv

\* The connections being served are counted.
LEMMA WorkingIs ==
  ASSUME ChannelInv
  PROVE  /\ IsFiniteSet({j \in Calls : thread[j] \in Working})
         /\ activeClients = Cardinality({j \in Calls : thread[j] \in Working})
         /\ activeClients \in Nat
         /\ activeClients = 0 => \A j \in Calls : thread[j] \notin Working
<1> DEFINE W == {j \in Calls : thread[j] \in Working}
<1>1. IsFiniteSet(W)
  <2>1. W \in SUBSET Calls
    OBVIOUS
  <2> QED
    BY <2>1, CallsFinite, FS_Subset
<1>2. activeClients = Cardinality(W)
  BY DEF ChannelInv, ClientsCounted
<1>3. activeClients \in Nat
  BY DEF ChannelInv, ChannelTypeOK
<1>4. activeClients = 0 => W = {}
  BY <1>1, <1>2, FS_EmptySet
<1> QED
  BY <1>1, <1>2, <1>3, <1>4

\* CountDown keeps the invariant.
LEMMA CountDownStep ==
  ASSUME ChannelInv, NEW k \in Calls, CountDown(k)
  PROVE  ChannelInv'
<1>0. /\ thread[k] = "leave"
      /\ thread' = [thread EXCEPT ![k] = "notify"]
      /\ activeClients' = activeClients - 1
      /\ UNCHANGED <<caller, request, requestPacket, told, toServer, toClient, seen, answer, responsePacket, server, stopAsked, backlog, held, writable, sealed, store>>
  BY DEF CountDown, threadVars, wireVars, clientVars, serverVars, sharedVars, memoryVars
<1>T. ChannelTypeOK
  BY DEF ChannelInv
<1>P. activeClients # 0
  BY <1>0, WorkingIs DEF Working
<1>1. ChannelTypeOK'
  <2>1. SharedTypeOK'
    BY <1>0, <1>T, <1>P, CallsAre DEF ChannelTypeOK, SharedTypeOK, Holds, As, Entry, Roles
  <2>2. /\ thread' \in [Calls -> ThreadStages]
        /\ activeClients' \in Nat
    BY <1>0, <1>T, <1>P DEF ChannelTypeOK, CallerStages, ThreadStages, NoPacket
  <2> QED
    BY <1>0, <1>T, <2>1, <2>2 DEF ChannelTypeOK
<1>2. ASSUME NEW j \in Calls
      PROVE  CallExact(j)' /\ AnswerExact(j)'
  <2>0. CallExact(j) /\ AnswerExact(j)
    BY DEF ChannelInv
  <2>1. CASE j # k
    BY <1>0, <1>T, <2>0, <2>1, CallFrame DEF ChannelTypeOK
  <2>2. CASE j = k
    BY <1>0, <1>T, <1>P, <2>0, <2>2 DEF ChannelTypeOK, CallExact, AnswerExact, Working, ServerEndOpen, ClientEndOpen
  <2> QED
    BY <2>1, <2>2
<1>3. StoreExact'
  BY <1>0, <1>T, <1>P, CallsAre DEF ChannelInv, ChannelTypeOK, SharedTypeOK, StoreExact
<1>4. HeldExact'
  <2> SUFFICES ASSUME NEW role \in Roles, NEW j \in Calls, NEW r \in Regions, <<role, j, r>> \in held'
               PROVE  HoldExact(role, j, r)'
    BY DEF HeldExact
  <2>1. <<role, j, r>> \in held => HoldExact(role, j, r)
    BY DEF ChannelInv, HeldExact
  <2>2. /\ <<role, j, r>> \in held
    BY <1>0, <1>P DEF Holds, As, Entry
  <2>3. CASE j # k
    BY <1>0, <1>T, <2>1, <2>2, <2>3 DEF ChannelTypeOK, HoldExact
  <2>4. CASE j = k
    BY <1>0, <1>T, <1>P, <2>1, <2>2, <2>4 DEF ChannelTypeOK, HoldExact
  <2> QED
    BY <2>3, <2>4
<1>5. WritableExact'
  <2> SUFFICES ASSUME NEW role \in Roles, NEW j \in Calls, NEW r \in Regions, <<role, j, r>> \in writable'
               PROVE  MayWrite(role, j)'
    BY DEF WritableExact
  <2>1. <<role, j, r>> \in writable => MayWrite(role, j)
    BY DEF ChannelInv, WritableExact
  <2>2. /\ <<role, j, r>> \in writable
    BY <1>0, <1>P DEF Holds, As, Entry
  <2> QED
    BY <1>0, <1>T, <1>P, <2>1, <2>2 DEF ChannelTypeOK, MayWrite
<1>6. SealedExact'
  BY <1>0, <1>T, <1>P, CallsAre DEF ChannelInv, ChannelTypeOK, SharedTypeOK, SealedExact
<1>7. BacklogExact' /\ ClientsCounted'
  <2> DEFINE W == {j \in Calls : thread[j] \in Working}
  <2>1. BacklogExact'
    BY <1>0, <1>P, <1>T DEF ChannelInv, ChannelTypeOK, BacklogExact
  <2>2. W' = W \ {k} /\ k \in W
    BY <1>0, <1>T DEF ChannelTypeOK, Working
  <2>3. IsFiniteSet(W) /\ activeClients = Cardinality(W) /\ activeClients \in Nat
    BY WorkingIs
  <2>4. MaxClients \in Nat /\ activeClients <= MaxClients
    BY ChannelAssumption DEF ChannelInv, ClientsCounted
  <2> HIDE DEF W
  <2>5. Cardinality(W') = activeClients - 1
    BY <2>2, <2>3, FS_RemoveElement
  <2>6. activeClients' = Cardinality(W') /\ activeClients' <= MaxClients
    BY <1>0, <2>3, <2>4, <2>5
  <2> QED
    BY <2>1, <2>6 DEF ClientsCounted, W
<1> QED
  BY <1>1, <1>2, <1>3, <1>4, <1>5, <1>6, <1>7 DEF ChannelInv

\* NotifyStop keeps the invariant.
LEMMA NotifyStopStep ==
  ASSUME ChannelInv, NEW k \in Calls, NotifyStop(k)
  PROVE  ChannelInv'
<1>0. /\ thread[k] = "notify"
      /\ thread' = [thread EXCEPT ![k] = "gone"]
      /\ server' = IF server = "asleep" THEN "check" ELSE server
      /\ UNCHANGED <<caller, request, requestPacket, told, toServer, toClient, seen, answer, responsePacket, stopAsked, backlog, activeClients, held, writable, sealed, store>>
  BY DEF NotifyStop, threadVars, wireVars, clientVars, serverVars, sharedVars, memoryVars
<1>T. ChannelTypeOK
  BY DEF ChannelInv
<1>1. ChannelTypeOK'
  <2>1. SharedTypeOK'
    BY <1>0, <1>T, CallsAre DEF ChannelTypeOK, SharedTypeOK, Holds, As, Entry, Roles
  <2>2. /\ thread' \in [Calls -> ThreadStages]
        /\ server' \in {"down", "serving", "check", "asleep", "stopped"}
    BY <1>0, <1>T DEF ChannelTypeOK, CallerStages, ThreadStages, NoPacket
  <2> QED
    BY <1>0, <1>T, <2>1, <2>2 DEF ChannelTypeOK
<1>2. ASSUME NEW j \in Calls
      PROVE  CallExact(j)' /\ AnswerExact(j)'
  <2>0. CallExact(j) /\ AnswerExact(j)
    BY DEF ChannelInv
  <2>1. CASE j # k
    BY <1>0, <1>T, <2>0, <2>1, CallFrame DEF ChannelTypeOK
  <2>2. CASE j = k
    BY <1>0, <1>T, <2>0, <2>2 DEF ChannelTypeOK, CallExact, AnswerExact, Working, ServerEndOpen, ClientEndOpen
  <2> QED
    BY <2>1, <2>2
<1>3. StoreExact'
  BY <1>0, <1>T, CallsAre DEF ChannelInv, ChannelTypeOK, SharedTypeOK, StoreExact
<1>4. HeldExact'
  <2> SUFFICES ASSUME NEW role \in Roles, NEW j \in Calls, NEW r \in Regions, <<role, j, r>> \in held'
               PROVE  HoldExact(role, j, r)'
    BY DEF HeldExact
  <2>1. <<role, j, r>> \in held => HoldExact(role, j, r)
    BY DEF ChannelInv, HeldExact
  <2>2. /\ <<role, j, r>> \in held
    BY <1>0 DEF Holds, As, Entry
  <2>3. CASE j # k
    BY <1>0, <1>T, <2>1, <2>2, <2>3 DEF ChannelTypeOK, HoldExact
  <2>4. CASE j = k
    BY <1>0, <1>T, <2>1, <2>2, <2>4 DEF ChannelTypeOK, HoldExact
  <2> QED
    BY <2>3, <2>4
<1>5. WritableExact'
  <2> SUFFICES ASSUME NEW role \in Roles, NEW j \in Calls, NEW r \in Regions, <<role, j, r>> \in writable'
               PROVE  MayWrite(role, j)'
    BY DEF WritableExact
  <2>1. <<role, j, r>> \in writable => MayWrite(role, j)
    BY DEF ChannelInv, WritableExact
  <2>2. /\ <<role, j, r>> \in writable
    BY <1>0 DEF Holds, As, Entry
  <2> QED
    BY <1>0, <1>T, <2>1, <2>2 DEF ChannelTypeOK, MayWrite
<1>6. SealedExact'
  BY <1>0, <1>T, CallsAre DEF ChannelInv, ChannelTypeOK, SharedTypeOK, SealedExact
<1>7. BacklogExact' /\ ClientsCounted'
  <2> DEFINE W == {j \in Calls : thread[j] \in Working}
  <2>1. BacklogExact'
    BY <1>0, <1>T DEF ChannelInv, ChannelTypeOK, BacklogExact
  <2>2. W' = W
    BY <1>0, <1>T DEF ChannelTypeOK, Working
  <2> QED
    BY <1>0, <2>1, <2>2 DEF ChannelInv, ClientsCounted
<1> QED
  BY <1>1, <1>2, <1>3, <1>4, <1>5, <1>6, <1>7 DEF ChannelInv

\* StartServer keeps the invariant.
LEMMA StartServerStep ==
  ASSUME ChannelInv, StartServer
  PROVE  ChannelInv'
<1>0. /\ server = "down" /\ server' = "serving"
      /\ UNCHANGED <<caller, request, requestPacket, told, toServer, toClient, thread, seen, answer, responsePacket, stopAsked, backlog, activeClients, held, writable, sealed, store>>
  BY DEF StartServer, threadVars, wireVars, clientVars, serverVars, sharedVars, memoryVars
<1>T. ChannelTypeOK
  BY DEF ChannelInv
<1>1. ChannelTypeOK'
  <2>1. SharedTypeOK'
    BY <1>0, <1>T, CallsAre DEF ChannelTypeOK, SharedTypeOK, Holds, As, Entry, Roles
  <2>2. /\ server' \in {"down", "serving", "check", "asleep", "stopped"}
    BY <1>0, <1>T DEF ChannelTypeOK, CallerStages, ThreadStages, NoPacket
  <2> QED
    BY <1>0, <1>T, <2>1, <2>2 DEF ChannelTypeOK
<1>2. ASSUME NEW j \in Calls
      PROVE  CallExact(j)' /\ AnswerExact(j)'
  BY <1>0, CallFrame DEF ChannelInv
<1>3. StoreExact'
  BY <1>0, <1>T, CallsAre DEF ChannelInv, ChannelTypeOK, SharedTypeOK, StoreExact
<1>4. HeldExact'
  BY <1>0 DEF ChannelInv, HeldExact, HoldExact
<1>5. WritableExact'
  BY <1>0 DEF ChannelInv, WritableExact, MayWrite
<1>6. SealedExact'
  BY <1>0, <1>T, CallsAre DEF ChannelInv, ChannelTypeOK, SharedTypeOK, SealedExact
<1>7. BacklogExact' /\ ClientsCounted'
  <2>1. BacklogExact'
    BY <1>0, <1>T DEF ChannelInv, ChannelTypeOK, BacklogExact
  <2>2. ClientsCounted'
    BY <1>0 DEF ChannelInv, ClientsCounted
  <2> QED
    BY <2>1, <2>2
<1> QED
  BY <1>1, <1>2, <1>3, <1>4, <1>5, <1>6, <1>7 DEF ChannelInv

\* AskStop keeps the invariant.
LEMMA AskStopStep ==
  ASSUME ChannelInv, AskStop
  PROVE  ChannelInv'
<1>0. /\ stopAsked' = TRUE
      /\ UNCHANGED <<caller, request, requestPacket, told, toServer, toClient, thread, seen, answer, responsePacket, server, backlog, activeClients, held, writable, sealed, store>>
  BY DEF AskStop, threadVars, wireVars, clientVars, serverVars, sharedVars, memoryVars
<1>T. ChannelTypeOK
  BY DEF ChannelInv
<1>1. ChannelTypeOK'
  <2>1. SharedTypeOK'
    BY <1>0, <1>T, CallsAre DEF ChannelTypeOK, SharedTypeOK, Holds, As, Entry, Roles
  <2>2. /\ stopAsked' \in BOOLEAN
    BY <1>0, <1>T DEF ChannelTypeOK, CallerStages, ThreadStages, NoPacket
  <2> QED
    BY <1>0, <1>T, <2>1, <2>2 DEF ChannelTypeOK
<1>2. ASSUME NEW j \in Calls
      PROVE  CallExact(j)' /\ AnswerExact(j)'
  BY <1>0, CallFrame DEF ChannelInv
<1>3. StoreExact'
  BY <1>0, <1>T, CallsAre DEF ChannelInv, ChannelTypeOK, SharedTypeOK, StoreExact
<1>4. HeldExact'
  BY <1>0 DEF ChannelInv, HeldExact, HoldExact
<1>5. WritableExact'
  BY <1>0 DEF ChannelInv, WritableExact, MayWrite
<1>6. SealedExact'
  BY <1>0, <1>T, CallsAre DEF ChannelInv, ChannelTypeOK, SharedTypeOK, SealedExact
<1>7. BacklogExact' /\ ClientsCounted'
  <2>1. BacklogExact'
    BY <1>0, <1>T DEF ChannelInv, ChannelTypeOK, BacklogExact
  <2>2. ClientsCounted'
    BY <1>0 DEF ChannelInv, ClientsCounted
  <2> QED
    BY <2>1, <2>2
<1> QED
  BY <1>1, <1>2, <1>3, <1>4, <1>5, <1>6, <1>7 DEF ChannelInv

\* WaitForClients keeps the invariant.
LEMMA WaitForClientsStep ==
  ASSUME ChannelInv, WaitForClients
  PROVE  ChannelInv'
<1>0. /\ server = "check"
      /\ server' = IF activeClients = 0 THEN "stopped" ELSE "asleep"
      /\ UNCHANGED <<caller, request, requestPacket, told, toServer, toClient, thread, seen, answer, responsePacket, stopAsked, backlog, activeClients, held, writable, sealed, store>>
  BY DEF WaitForClients, threadVars, wireVars, clientVars, serverVars, sharedVars, memoryVars
<1>T. ChannelTypeOK
  BY DEF ChannelInv
<1>1. ChannelTypeOK'
  <2>1. SharedTypeOK'
    BY <1>0, <1>T, CallsAre DEF ChannelTypeOK, SharedTypeOK, Holds, As, Entry, Roles
  <2>2. /\ server' \in {"down", "serving", "check", "asleep", "stopped"}
    BY <1>0, <1>T DEF ChannelTypeOK, CallerStages, ThreadStages, NoPacket
  <2> QED
    BY <1>0, <1>T, <2>1, <2>2 DEF ChannelTypeOK
<1>2. ASSUME NEW j \in Calls
      PROVE  CallExact(j)' /\ AnswerExact(j)'
  BY <1>0, CallFrame DEF ChannelInv
<1>3. StoreExact'
  BY <1>0, <1>T, CallsAre DEF ChannelInv, ChannelTypeOK, SharedTypeOK, StoreExact
<1>4. HeldExact'
  BY <1>0 DEF ChannelInv, HeldExact, HoldExact
<1>5. WritableExact'
  BY <1>0 DEF ChannelInv, WritableExact, MayWrite
<1>6. SealedExact'
  BY <1>0, <1>T, CallsAre DEF ChannelInv, ChannelTypeOK, SharedTypeOK, SealedExact
<1>7. BacklogExact' /\ ClientsCounted'
  <2>1. BacklogExact'
    BY <1>0, <1>T DEF ChannelInv, ChannelTypeOK, BacklogExact
  <2>2. ClientsCounted'
    BY <1>0 DEF ChannelInv, ClientsCounted
  <2> QED
    BY <2>1, <2>2
<1> QED
  BY <1>1, <1>2, <1>3, <1>4, <1>5, <1>6, <1>7 DEF ChannelInv

\* The first connection that waits.

\* The first connection that waits.
LEMMA FirstWaits ==
  ASSUME ChannelInv, backlog # <<>>
  PROVE  /\ Head(backlog) \in Calls /\ thread[Head(backlog)] = "queued" /\ Tail(backlog) \in Seq(Calls)
         /\ \A i, j \in DOMAIN Tail(backlog) : Tail(backlog)[i] = Tail(backlog)[j] => i = j
         /\ \A k \in Calls : (\E i \in DOMAIN Tail(backlog) : Tail(backlog)[i] = k)
                               <=> (thread[k] = "queued" /\ k # Head(backlog))
<1> DEFINE B == backlog
           T == Tail(backlog)
           n == Len(backlog)
<1>1. B \in Seq(Calls) /\ BacklogExact
  BY DEF ChannelInv, ChannelTypeOK
<1>2. /\ \A i, j \in DOMAIN B : B[i] = B[j] => i = j
      /\ \A k \in Calls : thread[k] = "queued" <=> \E i \in DOMAIN B : B[i] = k
  BY <1>1 DEF BacklogExact
<1>3. /\ Head(B) \in Calls /\ Head(B) = B[1] /\ T \in Seq(Calls) /\ Len(T) = n - 1 /\ n \in Nat /\ n >= 1
      /\ DOMAIN B = 1 .. n /\ DOMAIN T = 1 .. n - 1
      /\ \A i \in 1 .. n - 1 : T[i] = B[i + 1]
  BY <1>1, HeadTailProperties
<1>7. Head(backlog) = Head(B) /\ Tail(backlog) = T
  OBVIOUS
<1> HIDE DEF T, n, B
<1>4. thread[Head(B)] = "queued"
  BY <1>2, <1>3
<1>5. ASSUME NEW i \in DOMAIN T, NEW j \in DOMAIN T, T[i] = T[j]
      PROVE  i = j
  <2>1. i + 1 \in DOMAIN B /\ j + 1 \in DOMAIN B /\ B[i + 1] = B[j + 1] /\ i \in Nat /\ j \in Nat
    BY <1>3, <1>5
  <2>2. i + 1 = j + 1
    BY <1>2, <2>1
  <2> QED
    BY <2>1, <2>2
<1>6. ASSUME NEW k \in Calls
      PROVE  (\E i \in DOMAIN T : T[i] = k) <=> (thread[k] = "queued" /\ k # Head(B))
  <2>1. ASSUME NEW i \in DOMAIN T, T[i] = k
        PROVE  thread[k] = "queued" /\ k # Head(B)
    <3>1. i + 1 \in DOMAIN B /\ B[i + 1] = k /\ i + 1 # 1 /\ 1 \in DOMAIN B
      BY <1>3, <2>1
    <3> QED
      BY <1>2, <1>3, <3>1
  <2>2. ASSUME thread[k] = "queued", k # Head(B)
        PROVE  \E i \in DOMAIN T : T[i] = k
    <3>1. PICK i \in DOMAIN B : B[i] = k
      BY <1>2, <2>2
    <3>2. i # 1
      BY <1>3, <2>2, <3>1
    <3>3. i - 1 \in DOMAIN T /\ i - 1 + 1 = i
      BY <1>3, <3>2
    <3>4. T[i - 1] = k
      BY <1>3, <3>1, <3>3
    <3> QED
      BY <3>3, <3>4
  <2> QED
    BY <2>1, <2>2
<1> QED
  BY <1>3, <1>4, <1>5, <1>6, <1>7

\* Accept keeps the invariant.
LEMMA AcceptStep ==
  ASSUME ChannelInv, Accept
  PROVE  ChannelInv'
<1>0. /\ server = "serving" /\ backlog # <<>> /\ activeClients < MaxClients
      /\ backlog' = Tail(backlog)
      /\ activeClients' = activeClients + 1
      /\ thread' = [thread EXCEPT ![Head(backlog)] = "receive"]
      /\ UNCHANGED <<caller, request, requestPacket, told, toServer, toClient, seen, answer, responsePacket, server, stopAsked, held, writable, sealed, store>>
  BY DEF Accept, threadVars, wireVars, clientVars, serverVars, sharedVars, memoryVars
<1>T. ChannelTypeOK
  BY DEF ChannelInv
<1> DEFINE k == Head(backlog)
<1>P. /\ k \in Calls /\ thread[k] = "queued" /\ Tail(backlog) \in Seq(Calls) /\ activeClients \in Nat
  BY <1>0, FirstWaits, WorkingIs
<1>F. thread' = [thread EXCEPT ![k] = "receive"]
  BY <1>0
<1>B. /\ \A i, j \in DOMAIN Tail(backlog) : Tail(backlog)[i] = Tail(backlog)[j] => i = j
      /\ \A j \in Calls : (\E i \in DOMAIN Tail(backlog) : Tail(backlog)[i] = j)
                            <=> (thread[j] = "queued" /\ j # k)
  BY <1>0, FirstWaits
<1> HIDE DEF k
<1>1. ChannelTypeOK'
  <2>1. SharedTypeOK'
    BY <1>0, <1>T, <1>P, <1>F, CallsAre DEF ChannelTypeOK, SharedTypeOK, Holds, As, Entry, Roles
  <2>2. /\ thread' \in [Calls -> ThreadStages]
        /\ activeClients' \in Nat
        /\ backlog' \in Seq(Calls)
    BY <1>0, <1>T, <1>P, <1>F DEF ChannelTypeOK, CallerStages, ThreadStages, NoPacket
  <2> QED
    BY <1>0, <1>T, <2>1, <2>2 DEF ChannelTypeOK
<1>2. ASSUME NEW j \in Calls
      PROVE  CallExact(j)' /\ AnswerExact(j)'
  <2>0. CallExact(j) /\ AnswerExact(j)
    BY DEF ChannelInv
  <2>1. CASE j # k
    BY <1>0, <1>F, <1>T, <2>0, <2>1, CallFrame DEF ChannelTypeOK
  <2>2. CASE j = k
    BY <1>0, <1>T, <1>P, <1>F, <2>0, <2>2 DEF ChannelTypeOK, CallExact, AnswerExact, Working, ServerEndOpen, ClientEndOpen
  <2> QED
    BY <2>1, <2>2
<1>3. StoreExact'
  BY <1>0, <1>T, <1>P, <1>F, CallsAre DEF ChannelInv, ChannelTypeOK, SharedTypeOK, StoreExact
<1>4. HeldExact'
  <2> SUFFICES ASSUME NEW role \in Roles, NEW j \in Calls, NEW r \in Regions, <<role, j, r>> \in held'
               PROVE  HoldExact(role, j, r)'
    BY DEF HeldExact
  <2>1. <<role, j, r>> \in held => HoldExact(role, j, r)
    BY DEF ChannelInv, HeldExact
  <2>2. /\ <<role, j, r>> \in held
    BY <1>0, <1>P, <1>F DEF Holds, As, Entry
  <2>3. CASE j # k
    BY <1>0, <1>F, <1>T, <2>1, <2>2, <2>3 DEF ChannelTypeOK, HoldExact
  <2>4. CASE j = k
    BY <1>0, <1>T, <1>P, <1>F, <2>1, <2>2, <2>4 DEF ChannelTypeOK, HoldExact
  <2> QED
    BY <2>3, <2>4
<1>5. WritableExact'
  <2> SUFFICES ASSUME NEW role \in Roles, NEW j \in Calls, NEW r \in Regions, <<role, j, r>> \in writable'
               PROVE  MayWrite(role, j)'
    BY DEF WritableExact
  <2>1. <<role, j, r>> \in writable => MayWrite(role, j)
    BY DEF ChannelInv, WritableExact
  <2>2. /\ <<role, j, r>> \in writable
    BY <1>0, <1>P, <1>F DEF Holds, As, Entry
  <2> QED
    BY <1>0, <1>T, <1>P, <1>F, <2>1, <2>2 DEF ChannelTypeOK, MayWrite
<1>6. SealedExact'
  BY <1>0, <1>T, <1>P, <1>F, CallsAre DEF ChannelInv, ChannelTypeOK, SharedTypeOK, SealedExact
<1>7. BacklogExact' /\ ClientsCounted'
  <2> DEFINE W == {j \in Calls : thread[j] \in Working}
  <2>1. BacklogExact'
    <3> DEFINE T == Tail(backlog)
    <3> HIDE DEF T
    <3>1. \A j \in Calls : thread'[j] = "queued" <=> (thread[j] = "queued" /\ j # k)
      BY <1>P, <1>F, <1>T DEF ChannelTypeOK
    <3>2. backlog' = T /\ server' = "serving"
      BY <1>0 DEF T
    <3>3. /\ \A i, j \in DOMAIN T : T[i] = T[j] => i = j
          /\ \A j \in Calls : (\E i \in DOMAIN T : T[i] = j) <=> (thread[j] = "queued" /\ j # k)
      BY <1>B DEF T
    <3> QED
      BY <3>1, <3>2, <3>3 DEF BacklogExact
  <2>2. W' = W \cup {k} /\ k \notin W
    BY <1>P, <1>F, <1>T DEF ChannelTypeOK, Working
  <2>3. IsFiniteSet(W) /\ activeClients = Cardinality(W) /\ activeClients \in Nat
    BY WorkingIs
  <2>4. MaxClients \in Nat
    BY ChannelAssumption
  <2> HIDE DEF W
  <2>5. Cardinality(W') = activeClients + 1
    BY <2>2, <2>3, FS_AddElement
  <2>6. activeClients' = Cardinality(W') /\ activeClients' <= MaxClients
    BY <1>0, <2>3, <2>4, <2>5
  <2> QED
    BY <2>1, <2>6 DEF ClientsCounted, W
<1> QED
  BY <1>1, <1>2, <1>3, <1>4, <1>5, <1>6, <1>7 DEF ChannelInv

\* Connections that wait are closed.
LEMMA HangupStep ==
  ASSUME ChannelInv, NEW ks, \A j \in Calls : j \in ks => thread[j] = "queued", Hangup(ks),
         UNCHANGED <<seen, answer, responsePacket, stopAsked, activeClients, clientVars, toClient, store>>,
         backlog' \in Seq(Calls), server' \in {"serving", "check"}, BacklogExact'
  PROVE  ChannelInv'
<1>0. /\ thread' = [j \in Calls |-> IF j \in ks THEN "gone" ELSE thread[j]]
      /\ toServer' = [j \in Calls |-> IF j \in ks THEN NoPacket ELSE toServer[j]]
      /\ held' = held \ ({"wire"} \X ks \X Regions)
      /\ writable' = writable \ ({"wire"} \X ks \X Regions)
      /\ UNCHANGED <<caller, request, requestPacket, told, toClient, seen, answer, responsePacket, stopAsked, activeClients, sealed, store>>
  BY DEF Hangup, Exchange, clientVars
<1>T. ChannelTypeOK
  BY DEF ChannelInv
<1>1. ChannelTypeOK'
  <2>1. SharedTypeOK'
    BY <1>0, <1>T, CallsAre DEF ChannelTypeOK, SharedTypeOK, Holds, As, Entry, Roles
  <2>2. /\ thread' \in [Calls -> ThreadStages]
        /\ toServer' \in [Calls -> Seq(Int)]
    BY <1>0, <1>T DEF ChannelTypeOK, CallerStages, ThreadStages, NoPacket
  <2> QED
    BY <1>0, <1>T, <2>1, <2>2 DEF ChannelTypeOK
<1>2. ASSUME NEW j \in Calls
      PROVE  CallExact(j)' /\ AnswerExact(j)'
  <2>0. CallExact(j) /\ AnswerExact(j)
    BY DEF ChannelInv
  <2>1. CASE j \notin ks
    BY <1>0, <1>T, <2>0, <2>1, CallFrame DEF ChannelTypeOK
  <2>2. CASE j \in ks
    BY <1>0, <1>T, <2>0, <2>2 DEF ChannelTypeOK, CallExact, AnswerExact, Working, ServerEndOpen, ClientEndOpen
  <2> QED
    BY <2>1, <2>2
<1>3. StoreExact'
  BY <1>0, <1>T, CallsAre DEF ChannelInv, ChannelTypeOK, SharedTypeOK, StoreExact
<1>4. HeldExact'
  <2> SUFFICES ASSUME NEW role \in Roles, NEW j \in Calls, NEW r \in Regions, <<role, j, r>> \in held'
               PROVE  HoldExact(role, j, r)'
    BY DEF HeldExact
  <2>1. <<role, j, r>> \in held => HoldExact(role, j, r)
    BY DEF ChannelInv, HeldExact
  <2>2. /\ <<role, j, r>> \in held
        /\ j \in ks => role # "wire"
    BY <1>0
  <2>3. CASE j \notin ks
    BY <1>0, <1>T, <2>1, <2>2, <2>3 DEF ChannelTypeOK, HoldExact
  <2>4. CASE j \in ks
    BY <1>0, <1>T, <2>1, <2>2, <2>4 DEF ChannelTypeOK, HoldExact
  <2> QED
    BY <2>3, <2>4
<1>5. WritableExact'
  <2> SUFFICES ASSUME NEW role \in Roles, NEW j \in Calls, NEW r \in Regions, <<role, j, r>> \in writable'
               PROVE  MayWrite(role, j)'
    BY DEF WritableExact
  <2>1. <<role, j, r>> \in writable => MayWrite(role, j)
    BY DEF ChannelInv, WritableExact
  <2>2. /\ <<role, j, r>> \in writable
    BY <1>0
  <2> QED
    BY <1>0, <1>T, <2>1, <2>2 DEF ChannelTypeOK, MayWrite
<1>6. SealedExact'
  BY <1>0, <1>T, CallsAre DEF ChannelInv, ChannelTypeOK, SharedTypeOK, SealedExact
<1>7. BacklogExact' /\ ClientsCounted'
  <2>1. {j \in Calls : thread'[j] \in Working} = {j \in Calls : thread[j] \in Working}
    BY <1>0, <1>T DEF ChannelTypeOK, Working
  <2> QED
    BY <1>0, <2>1 DEF ChannelInv, ClientsCounted
<1> QED
  BY <1>1, <1>2, <1>3, <1>4, <1>5, <1>6, <1>7 DEF ChannelInv

\* TurnAway keeps the invariant.
LEMMA TurnAwayStep ==
  ASSUME ChannelInv, TurnAway
  PROVE  ChannelInv'
<1> DEFINE k == Head(backlog)
           T == Tail(backlog)
<1>0. /\ server = "serving" /\ server' = "serving" /\ backlog # <<>> /\ backlog' = T /\ Hangup({k})
      /\ UNCHANGED <<seen, answer, responsePacket, stopAsked, activeClients, clientVars, toClient, store>>
  BY DEF TurnAway
<1>1. /\ k \in Calls /\ thread[k] = "queued" /\ T \in Seq(Calls)
      /\ \A i, j \in DOMAIN T : T[i] = T[j] => i = j
      /\ \A j \in Calls : (\E i \in DOMAIN T : T[i] = j) <=> (thread[j] = "queued" /\ j # k)
  BY <1>0, FirstWaits
<1> HIDE DEF k, T
<1>2. \A j \in Calls : thread'[j] = "queued" <=> (thread[j] = "queued" /\ j # k)
  BY <1>0 DEF Hangup
<1>3. BacklogExact'
  BY <1>0, <1>1, <1>2 DEF BacklogExact
<1> QED
  BY <1>0, <1>1, <1>3, HangupStep

\* CloseListener keeps the invariant.
LEMMA CloseListenerStep ==
  ASSUME ChannelInv, CloseListener
  PROVE  ChannelInv'
<1> DEFINE ks == {backlog[i] : i \in DOMAIN backlog}
<1>0. /\ server = "serving" /\ server' = "check" /\ backlog' = <<>> /\ Hangup(ks)
      /\ UNCHANGED <<seen, answer, responsePacket, stopAsked, activeClients, clientVars, toClient, store>>
  BY DEF CloseListener
<1>1. \A j \in Calls : j \in ks <=> thread[j] = "queued"
  BY DEF ChannelInv, BacklogExact
<1> HIDE DEF ks
<1>2. \A j \in Calls : thread'[j] # "queued"
  BY <1>0, <1>1 DEF Hangup
<1>3. BacklogExact'
  BY <1>0, <1>2 DEF BacklogExact
<1> QED
  BY <1>0, <1>1, <1>3, HangupStep

\* Connect keeps the invariant.
LEMMA ConnectStep ==
  ASSUME ChannelInv, NEW k \in Calls, Connect(k)
  PROVE  ChannelInv'
<1>0. /\ caller[k] = "built" /\ requestPacket[k] # NoPacket /\ server = "serving"
      /\ caller' = [caller EXCEPT ![k] = "connected"]
      /\ thread' = [thread EXCEPT ![k] = "queued"]
      /\ backlog' = Append(backlog, k)
      /\ UNCHANGED <<request, requestPacket, told, toServer, toClient, seen, answer, responsePacket, server, stopAsked, activeClients, held, writable, sealed, store>>
  BY DEF Connect, threadVars, wireVars, clientVars, serverVars, sharedVars, memoryVars
<1>T. ChannelTypeOK
  BY DEF ChannelInv
<1>P. thread[k] = "none"
  <2>1. CallExact(k)
    BY DEF ChannelInv
  <2> QED
    BY <1>0, <2>1 DEF CallExact
<1>1. ChannelTypeOK'
  <2>1. SharedTypeOK'
    BY <1>0, <1>T, <1>P, CallsAre DEF ChannelTypeOK, SharedTypeOK, Holds, As, Entry, Roles
  <2>2. /\ caller' \in [Calls -> CallerStages]
        /\ thread' \in [Calls -> ThreadStages]
        /\ backlog' \in Seq(Calls)
    BY <1>0, <1>T, <1>P DEF ChannelTypeOK, CallerStages, ThreadStages, NoPacket
  <2> QED
    BY <1>0, <1>T, <2>1, <2>2 DEF ChannelTypeOK
<1>2. ASSUME NEW j \in Calls
      PROVE  CallExact(j)' /\ AnswerExact(j)'
  <2>0. CallExact(j) /\ AnswerExact(j)
    BY DEF ChannelInv
  <2>1. CASE j # k
    BY <1>0, <1>T, <2>0, <2>1, CallFrame DEF ChannelTypeOK
  <2>2. CASE j = k
    BY <1>0, <1>T, <1>P, <2>0, <2>2 DEF ChannelTypeOK, CallExact, AnswerExact, Working, ServerEndOpen, ClientEndOpen
  <2> QED
    BY <2>1, <2>2
<1>3. StoreExact'
  BY <1>0, <1>T, <1>P, CallsAre DEF ChannelInv, ChannelTypeOK, SharedTypeOK, StoreExact
<1>4. HeldExact'
  <2> SUFFICES ASSUME NEW role \in Roles, NEW j \in Calls, NEW r \in Regions, <<role, j, r>> \in held'
               PROVE  HoldExact(role, j, r)'
    BY DEF HeldExact
  <2>1. <<role, j, r>> \in held => HoldExact(role, j, r)
    BY DEF ChannelInv, HeldExact
  <2>2. /\ <<role, j, r>> \in held
    BY <1>0, <1>P DEF Holds, As, Entry
  <2>3. CASE j # k
    BY <1>0, <1>T, <2>1, <2>2, <2>3 DEF ChannelTypeOK, HoldExact
  <2>4. CASE j = k
    BY <1>0, <1>T, <1>P, <2>1, <2>2, <2>4 DEF ChannelTypeOK, HoldExact
  <2> QED
    BY <2>3, <2>4
<1>5. WritableExact'
  <2> SUFFICES ASSUME NEW role \in Roles, NEW j \in Calls, NEW r \in Regions, <<role, j, r>> \in writable'
               PROVE  MayWrite(role, j)'
    BY DEF WritableExact
  <2>1. <<role, j, r>> \in writable => MayWrite(role, j)
    BY DEF ChannelInv, WritableExact
  <2>2. /\ <<role, j, r>> \in writable
    BY <1>0, <1>P DEF Holds, As, Entry
  <2> QED
    BY <1>0, <1>T, <1>P, <2>1, <2>2 DEF ChannelTypeOK, MayWrite
<1>6. SealedExact'
  BY <1>0, <1>T, <1>P, CallsAre DEF ChannelInv, ChannelTypeOK, SharedTypeOK, SealedExact
<1>7. BacklogExact' /\ ClientsCounted'
  <2> DEFINE n == Len(backlog)
             A == Append(backlog, k)
  <2>1. /\ n \in Nat /\ DOMAIN backlog = 1 .. n /\ DOMAIN A = 1 .. n + 1 /\ A[n + 1] = k
        /\ \A i \in 1 .. n : A[i] = backlog[i]
    BY <1>T DEF ChannelTypeOK
  <2>2. /\ \A i, j \in DOMAIN backlog : backlog[i] = backlog[j] => i = j
        /\ \A j \in Calls : thread[j] = "queued" <=> \E i \in DOMAIN backlog : backlog[i] = j
    BY DEF ChannelInv, BacklogExact
  <2> HIDE DEF n, A
  <2>3. \A i \in 1 .. n : A[i] # k
    BY <1>P, <2>1, <2>2
  <2>4. \A i, j \in DOMAIN A : A[i] = A[j] => i = j
    <3> SUFFICES ASSUME NEW i \in DOMAIN A, NEW j \in DOMAIN A, A[i] = A[j]
                 PROVE  i = j
      OBVIOUS
    <3>1. (i \in 1 .. n \/ i = n + 1) /\ (j \in 1 .. n \/ j = n + 1)
      BY <2>1
    <3> QED
      BY <2>1, <2>2, <2>3, <3>1
  <2>5. ASSUME NEW j \in Calls
        PROVE  thread'[j] = "queued" <=> \E i \in DOMAIN A : A[i] = j
    <3>1. (\E i \in DOMAIN A : A[i] = j) <=> ((\E i \in DOMAIN backlog : backlog[i] = j) \/ j = k)
      <4>1. DOMAIN A = (1 .. n) \cup {n + 1}
        BY <2>1
      <4> QED
        BY <2>1, <4>1
    <3>2. thread'[j] = "queued" <=> (thread[j] = "queued" \/ j = k)
      BY <1>0, <1>T DEF ChannelTypeOK
    <3> QED
      BY <2>2, <3>1, <3>2
  <2>6. backlog' = A /\ server' = "serving"
    BY <1>0 DEF A
  <2>7. BacklogExact'
    BY <2>4, <2>5, <2>6 DEF BacklogExact
  <2>8. {j \in Calls : thread'[j] \in Working} = {j \in Calls : thread[j] \in Working}
    BY <1>0, <1>P, <1>T DEF ChannelTypeOK, Working
  <2> QED
    BY <1>0, <2>7, <2>8 DEF ChannelInv, ClientsCounted
<1> QED
  BY <1>1, <1>2, <1>3, <1>4, <1>5, <1>6, <1>7 DEF ChannelInv

\* SendRequest keeps the invariant.
LEMMA SendRequestStep ==
  ASSUME ChannelInv, NEW k \in Calls, SendRequest(k)
  PROVE  ChannelInv'
<1>0. /\ caller[k] = "connected" /\ ServerEndOpen(k)
      /\ caller' = [caller EXCEPT ![k] = "sent"]
      /\ toServer' = [toServer EXCEPT ![k] = requestPacket[k]]
      /\ held' = held \cup As("wire", k, HeldAs("dup", k))
      /\ writable' = writable
      /\ UNCHANGED <<request, requestPacket, told, toClient, thread, seen, answer, responsePacket, server, stopAsked, backlog, activeClients, sealed, store>>
  BY DEF SendRequest, Exchange, threadVars, wireVars, clientVars, serverVars, sharedVars, memoryVars
<1>T. ChannelTypeOK
  BY DEF ChannelInv
<1>P. thread[k] \in {"queued", "receive"}
  <2>1. CallExact(k)
    BY DEF ChannelInv
  <2> QED
    BY <1>0, <2>1 DEF CallExact, ServerEndOpen, Working
<1>1. ChannelTypeOK'
  <2>1. SharedTypeOK'
    <3>1. /\ held \subseteq Roles \X Regions \X Regions /\ writable \subseteq held
          /\ sealed \subseteq Regions /\ store \in [Producers -> Regions \cup {NoRegion}]
      BY <1>T DEF ChannelTypeOK, SharedTypeOK
    <3>2. As("wire", k, HeldAs("dup", k)) \subseteq Roles \X Regions \X Regions
      BY CallsAre DEF As, HeldAs, Roles
    <3> QED
      BY <1>0, <3>1, <3>2 DEF SharedTypeOK
  <2>2. /\ caller' \in [Calls -> CallerStages]
        /\ toServer' \in [Calls -> Seq(Int)]
    BY <1>0, <1>T, <1>P DEF ChannelTypeOK, CallerStages, ThreadStages, NoPacket
  <2> QED
    BY <1>0, <1>T, <2>1, <2>2 DEF ChannelTypeOK
<1>2. ASSUME NEW j \in Calls
      PROVE  CallExact(j)' /\ AnswerExact(j)'
  <2>0. CallExact(j) /\ AnswerExact(j)
    BY DEF ChannelInv
  <2>1. CASE j # k
    BY <1>0, <1>T, <2>0, <2>1, CallFrame DEF ChannelTypeOK
  <2>2. CASE j = k
    BY <1>0, <1>T, <1>P, <2>0, <2>2 DEF ChannelTypeOK, CallExact, AnswerExact, Working, ServerEndOpen, ClientEndOpen
  <2> QED
    BY <2>1, <2>2
<1>3. StoreExact'
  BY <1>0, <1>T, <1>P, CallsAre DEF ChannelInv, ChannelTypeOK, SharedTypeOK, StoreExact
<1>4. HeldExact'
  <2> SUFFICES ASSUME NEW role \in Roles, NEW j \in Calls, NEW r \in Regions, <<role, j, r>> \in held'
               PROVE  HoldExact(role, j, r)'
    BY DEF HeldExact
  <2>1. <<role, j, r>> \in held => HoldExact(role, j, r)
    BY DEF ChannelInv, HeldExact
  <2>2. /\ <<role, j, r>> \in held \/ (role = "wire" /\ j = k)
    <3>1. <<role, j, r>> \in held \/ <<role, j, r>> \in As("wire", k, HeldAs("dup", k))
      BY <1>0, Zenon
    <3> QED
      BY <3>1 DEF As
  <2>3. CASE j # k
    BY <1>0, <1>T, <2>1, <2>2, <2>3 DEF ChannelTypeOK, HoldExact
  <2>4. CASE j = k
    BY <1>0, <1>T, <1>P, <2>1, <2>2, <2>4 DEF ChannelTypeOK, HoldExact
  <2> QED
    BY <2>3, <2>4
<1>5. WritableExact'
  <2> SUFFICES ASSUME NEW role \in Roles, NEW j \in Calls, NEW r \in Regions, <<role, j, r>> \in writable'
               PROVE  MayWrite(role, j)'
    BY DEF WritableExact
  <2>1. <<role, j, r>> \in writable => MayWrite(role, j)
    BY DEF ChannelInv, WritableExact
  <2>2. /\ <<role, j, r>> \in writable
    BY <1>0, <1>P DEF Holds, As, Entry
  <2> QED
    BY <1>0, <1>T, <1>P, <2>1, <2>2 DEF ChannelTypeOK, MayWrite
<1>6. SealedExact'
  BY <1>0, <1>T, <1>P, CallsAre DEF ChannelInv, ChannelTypeOK, SharedTypeOK, SealedExact
<1>7. BacklogExact' /\ ClientsCounted'
  BY <1>0, <1>T, BooksFrame DEF ChannelInv, ChannelTypeOK, Working
<1> QED
  BY <1>1, <1>2, <1>3, <1>4, <1>5, <1>6, <1>7 DEF ChannelInv

\* ReceiveResponse keeps the invariant.
LEMMA ReceiveResponseStep ==
  ASSUME ChannelInv, NEW k \in Calls, ReceiveResponse(k)
  PROVE  ChannelInv'
<1>0. /\ caller[k] = "sent" /\ toClient[k] # NoPacket
      /\ caller' = [caller EXCEPT ![k] = "received"]
      /\ held' = (held \ As("wire", k, {k})) \cup (IF Received(k).outputAvailable THEN As("client", k, {Received(k).output.region}) ELSE {})
      /\ writable' = (writable \ As("wire", k, {k})) \cup (IF Received(k).outputAvailable THEN As("client", k, {Received(k).output.region}) ELSE {})
      /\ UNCHANGED <<request, requestPacket, told, toServer, toClient, thread, seen, answer, responsePacket, server, stopAsked, backlog, activeClients, sealed, store>>
  BY DEF ReceiveResponse, ExchangeWritable, threadVars, wireVars, clientVars, serverVars, sharedVars, memoryVars
<1>T. ChannelTypeOK
  BY DEF ChannelInv
<1>P. /\ Received(k) = answer[k] /\ answer[k].outputAvailable \in BOOLEAN
      /\ answer[k].outputAvailable => answer[k].output.region = k
  BY <1>0, ReceivedIs
<1> DEFINE new == IF Received(k).outputAvailable THEN As("client", k, {Received(k).output.region}) ELSE {}
<1>N. new \subseteq As("client", k, {k})
  <2>1. CASE answer[k].outputAvailable
    BY <1>P, <2>1
  <2>2. CASE ~answer[k].outputAvailable
    BY <1>P, <2>2
  <2> QED
    BY <2>1, <2>2
<1>F. held' = (held \ As("wire", k, {k})) \cup new /\ writable' = (writable \ As("wire", k, {k})) \cup new
  BY <1>0
<1>Q. thread[k] \in {"close", "leave", "notify", "gone"}
  <2>1. CallExact(k)
    BY DEF ChannelInv
  <2> QED
    BY <1>0, <2>1 DEF CallExact
<1> HIDE DEF new
<1>1. ChannelTypeOK'
  <2>1. SharedTypeOK'
    <3>1. /\ held \subseteq Roles \X Regions \X Regions /\ writable \subseteq held
          /\ sealed \subseteq Regions /\ store \in [Producers -> Regions \cup {NoRegion}]
      BY <1>T DEF ChannelTypeOK, SharedTypeOK
    <3>2. As("client", k, {k}) \subseteq Roles \X Regions \X Regions
      BY CallsAre DEF As, HeldAs, Roles
    <3> QED
      BY <1>0, <3>1, <3>2, <1>F, <1>N DEF SharedTypeOK
  <2>2. /\ caller' \in [Calls -> CallerStages]
    BY <1>0, <1>T, <1>P, <1>N, <1>F, <1>Q DEF ChannelTypeOK, CallerStages, ThreadStages, NoPacket
  <2> QED
    BY <1>0, <1>T, <2>1, <2>2 DEF ChannelTypeOK
<1>2. ASSUME NEW j \in Calls
      PROVE  CallExact(j)' /\ AnswerExact(j)'
  <2>0. CallExact(j) /\ AnswerExact(j)
    BY DEF ChannelInv
  <2>1. CASE j # k
    BY <1>0, <1>T, <2>0, <2>1, CallFrame DEF ChannelTypeOK
  <2>2. CASE j = k
    BY <1>0, <1>T, <1>P, <1>N, <1>F, <1>Q, <2>0, <2>2 DEF ChannelTypeOK, CallExact, AnswerExact, Working, ServerEndOpen, ClientEndOpen
  <2> QED
    BY <2>1, <2>2
<1>3. StoreExact'
  BY <1>0, <1>T, <1>P, <1>N, <1>F, <1>Q, CallsAre DEF ChannelInv, ChannelTypeOK, SharedTypeOK, StoreExact
<1>4. HeldExact'
  <2> SUFFICES ASSUME NEW role \in Roles, NEW j \in Calls, NEW r \in Regions, <<role, j, r>> \in held'
               PROVE  HoldExact(role, j, r)'
    BY DEF HeldExact
  <2>1. <<role, j, r>> \in held => HoldExact(role, j, r)
    BY DEF ChannelInv, HeldExact
  <2>2. /\ <<role, j, r>> \in held \/ (role = "client" /\ j = k /\ r = k)
        /\ j = k /\ r = k => role # "wire"
    <3>1. \/ <<role, j, r>> \in held /\ <<role, j, r>> \notin As("wire", k, {k})
          \/ <<role, j, r>> \in As("client", k, {k})
      BY <1>F, <1>N, Zenon
    <3> QED
      BY <3>1 DEF As
  <2>3. CASE j # k
    BY <1>0, <1>T, <2>1, <2>2, <2>3 DEF ChannelTypeOK, HoldExact
  <2>4. CASE j = k
    BY <1>0, <1>T, <1>P, <1>N, <1>F, <1>Q, <2>1, <2>2, <2>4 DEF ChannelTypeOK, HoldExact
  <2> QED
    BY <2>3, <2>4
<1>5. WritableExact'
  <2> SUFFICES ASSUME NEW role \in Roles, NEW j \in Calls, NEW r \in Regions, <<role, j, r>> \in writable'
               PROVE  MayWrite(role, j)'
    BY DEF WritableExact
  <2>1. <<role, j, r>> \in writable => MayWrite(role, j)
    BY DEF ChannelInv, WritableExact
  <2>2. /\ <<role, j, r>> \in writable \/ role = "client"
    <3>1. <<role, j, r>> \in writable \/ <<role, j, r>> \in As("client", k, {k})
      BY <1>F, <1>N, Zenon
    <3> QED
      BY <3>1 DEF As
  <2> QED
    BY <1>0, <1>T, <1>P, <1>N, <1>F, <1>Q, <2>1, <2>2 DEF ChannelTypeOK, MayWrite
<1>6. SealedExact'
  BY <1>0, <1>T, <1>P, <1>N, <1>F, <1>Q, CallsAre DEF ChannelInv, ChannelTypeOK, SharedTypeOK, SealedExact
<1>7. BacklogExact' /\ ClientsCounted'
  BY <1>0, <1>T, BooksFrame DEF ChannelInv, ChannelTypeOK, Working
<1> QED
  BY <1>1, <1>2, <1>3, <1>4, <1>5, <1>6, <1>7 DEF ChannelInv

\* Conclude keeps the invariant.
LEMMA ConcludeStep ==
  ASSUME ChannelInv, NEW k \in Calls, caller[k] = "received", NEW outcome \in InvocationResponses \cup {Error},
         Exchange(Holds({"dup", "client"}, k), {}), UNCHANGED store, Conclude(k, outcome)
  PROVE  ChannelInv'
<1>0. /\ caller' = [caller EXCEPT ![k] = "done"]
      /\ told' = [told EXCEPT ![k] = outcome]
      /\ toClient' = [toClient EXCEPT ![k] = NoPacket]
      /\ held' = held \ Holds({"dup", "client"}, k)
      /\ writable' = writable \ Holds({"dup", "client"}, k)
      /\ UNCHANGED <<request, requestPacket, toServer, thread, seen, answer, responsePacket, server, stopAsked, backlog, activeClients, sealed, store>>
  BY DEF Conclude, Exchange, threadVars, wireVars, clientVars, serverVars, sharedVars, memoryVars
<1>T. ChannelTypeOK
  BY DEF ChannelInv
<1>P. CallExact(k)
  BY DEF ChannelInv
<1>Q. toClient[k] # NoPacket /\ thread[k] \in {"close", "leave", "notify", "gone"}
  BY <1>P DEF CallExact
<1>1. ChannelTypeOK'
  <2>1. SharedTypeOK'
    BY <1>0, <1>T, <1>Q, CallsAre DEF ChannelTypeOK, SharedTypeOK, Holds, As, Entry, Roles
  <2>2. /\ caller' \in [Calls -> CallerStages]
        /\ told' \in [Calls -> InvocationResponses \cup {Open, Error}]
        /\ toClient' \in [Calls -> Seq(Int)]
    BY <1>0, <1>T, <1>Q DEF ChannelTypeOK, CallerStages, ThreadStages, NoPacket
  <2> QED
    BY <1>0, <1>T, <2>1, <2>2 DEF ChannelTypeOK
<1>2. ASSUME NEW j \in Calls
      PROVE  CallExact(j)' /\ AnswerExact(j)'
  <2>0. CallExact(j) /\ AnswerExact(j)
    BY DEF ChannelInv
  <2>1. CASE j # k
    BY <1>0, <1>T, <2>0, <2>1, CallFrame DEF ChannelTypeOK
  <2>2. CASE j = k
    BY <1>0, <1>T, <1>Q, <2>0, <2>2 DEF ChannelTypeOK, CallExact, AnswerExact, Working, ServerEndOpen, ClientEndOpen
  <2> QED
    BY <2>1, <2>2
<1>3. StoreExact'
  BY <1>0, <1>T, <1>Q, CallsAre DEF ChannelInv, ChannelTypeOK, SharedTypeOK, StoreExact
<1>4. HeldExact'
  <2> SUFFICES ASSUME NEW role \in Roles, NEW j \in Calls, NEW r \in Regions, <<role, j, r>> \in held'
               PROVE  HoldExact(role, j, r)'
    BY DEF HeldExact
  <2>1. <<role, j, r>> \in held => HoldExact(role, j, r)
    BY DEF ChannelInv, HeldExact
  <2>2. /\ <<role, j, r>> \in held
        /\ j = k => role \notin {"dup", "client"}
    BY <1>0, <1>Q DEF Holds, As, Entry
  <2>3. CASE j # k
    BY <1>0, <1>T, <2>1, <2>2, <2>3 DEF ChannelTypeOK, HoldExact
  <2>4. CASE j = k
    BY <1>0, <1>T, <1>Q, <2>1, <2>2, <2>4 DEF ChannelTypeOK, HoldExact
  <2> QED
    BY <2>3, <2>4
<1>5. WritableExact'
  <2> SUFFICES ASSUME NEW role \in Roles, NEW j \in Calls, NEW r \in Regions, <<role, j, r>> \in writable'
               PROVE  MayWrite(role, j)'
    BY DEF WritableExact
  <2>1. <<role, j, r>> \in writable => MayWrite(role, j)
    BY DEF ChannelInv, WritableExact
  <2>2. /\ <<role, j, r>> \in writable
    BY <1>0, <1>Q DEF Holds, As, Entry
  <2> QED
    BY <1>0, <1>T, <1>Q, <2>1, <2>2 DEF ChannelTypeOK, MayWrite
<1>6. SealedExact'
  BY <1>0, <1>T, <1>Q, CallsAre DEF ChannelInv, ChannelTypeOK, SharedTypeOK, SealedExact
<1>7. BacklogExact' /\ ClientsCounted'
  BY <1>0, <1>T, BooksFrame DEF ChannelInv, ChannelTypeOK, Working
<1> QED
  BY <1>1, <1>2, <1>3, <1>4, <1>5, <1>6, <1>7 DEF ChannelInv

\* ConcludeWithOutput keeps the invariant.
LEMMA ConcludeWithOutputStep ==
  ASSUME ChannelInv, NEW k \in Calls, ConcludeWithOutput(k)
  PROVE  ChannelInv'
<1>0. /\ caller[k] = "received" /\ Received(k).outputAvailable
      /\ caller' = [caller EXCEPT ![k] = "done"]
      /\ told' = [told EXCEPT ![k] = Received(k)]
      /\ toClient' = [toClient EXCEPT ![k] = NoPacket]
      /\ PublishRegion(AgentOf(k), Received(k).output.region, k, Holds({"dup"}, k))
      /\ UNCHANGED <<request, requestPacket, toServer, thread, seen, answer, responsePacket, server, stopAsked, backlog, activeClients>>
  BY DEF ConcludeWithOutput, Conclude, threadVars, wireVars, clientVars, serverVars, sharedVars, memoryVars
<1>T. ChannelTypeOK
  BY DEF ChannelInv
<1> DEFINE a == AgentOf(k)
<1>P. CallExact(k)
  BY DEF ChannelInv
<1>Q. toClient[k] # NoPacket /\ thread[k] \in {"close", "leave", "notify", "gone"} /\ responsePacket[k] # NoPacket
  BY <1>0, <1>P DEF CallExact
<1>R. Received(k) \in InvocationResponses /\ Received(k).output.region = k
  BY <1>0, <1>Q, ReceivedIs
<1>A. /\ a \in Agents /\ k \in Regions /\ k # NoRegion /\ Producers = Agents /\ Regions = Calls
      /\ store \in [Agents -> Calls \cup {NoRegion}]
  BY <1>T, CallsAre DEF ChannelTypeOK, SharedTypeOK
<1>F. /\ held' = (held \ (Holds({"dup"}, k) \cup Entry(a) \cup Holds({"client"}, k))) \cup As("store", k, {k})
      /\ writable' = writable \ Holds({"client"}, k) /\ sealed' = sealed \cup {k}
      /\ store' = [store EXCEPT ![a] = k]
  BY <1>0, <1>R DEF PublishRegion
<1> HIDE DEF a
<1>1. ChannelTypeOK'
  <2>1. SharedTypeOK'
    <3>1. /\ held \subseteq Roles \X Regions \X Regions /\ writable \subseteq held
          /\ sealed \subseteq Regions /\ store \in [Producers -> Regions \cup {NoRegion}]
      BY <1>T DEF ChannelTypeOK, SharedTypeOK
    <3>2. As("store", k, {k}) \subseteq Roles \X Regions \X Regions
      BY CallsAre DEF As, Roles
    <3>3. held' \subseteq Roles \X Regions \X Regions /\ sealed' \subseteq Regions
      BY <1>F, <1>A, <3>1, <3>2
    <3>4. store' \in [Producers -> Regions \cup {NoRegion}]
      BY <1>F, <1>A, <3>1
    <3>5. ASSUME NEW h \in writable'
          PROVE  h \in held'
      <4>1. h \in writable /\ h \notin Holds({"client"}, k) /\ h \in held /\ h \in Roles \X Regions \X Regions
        BY <1>F, <3>1
      <4>2. PICK role \in Roles, j \in Regions, r \in Regions : h = <<role, j, r>>
        BY <4>1
      <4>3. MayWrite(role, j)
        BY <4>1, <4>2, CallsAre DEF ChannelInv, WritableExact
      <4>4. role \notin {"dup", "store"}
        BY <4>3 DEF MayWrite
      <4>5. h \notin Holds({"dup"}, k) /\ h \notin Entry(a)
        BY <4>2, <4>4 DEF Holds, Entry
      <4> QED
        BY <1>F, <4>1, <4>5
    <3> QED
      BY <3>3, <3>4, <3>5 DEF SharedTypeOK
  <2>2. /\ caller' \in [Calls -> CallerStages]
        /\ told' \in [Calls -> InvocationResponses \cup {Open, Error}]
        /\ toClient' \in [Calls -> Seq(Int)]
    BY <1>0, <1>T, <1>Q, <1>R, <1>A, <1>F DEF ChannelTypeOK, CallerStages, ThreadStages, NoPacket
  <2> QED
    BY <1>0, <1>T, <2>1, <2>2 DEF ChannelTypeOK
<1>2. ASSUME NEW j \in Calls
      PROVE  CallExact(j)' /\ AnswerExact(j)'
  <2>0. CallExact(j) /\ AnswerExact(j)
    BY DEF ChannelInv
  <2>1. CASE j # k
    BY <1>0, <1>T, <2>0, <2>1, CallFrame DEF ChannelTypeOK
  <2>2. CASE j = k
    BY <1>0, <1>T, <1>Q, <1>R, <1>A, <1>F, <2>0, <2>2 DEF ChannelTypeOK, CallExact, AnswerExact, Working, ServerEndOpen, ClientEndOpen
  <2> QED
    BY <2>1, <2>2
<1>3. StoreExact'
  <2> SUFFICES ASSUME NEW b \in Agents, store'[b] # NoRegion
               PROVE  /\ AgentOf(store'[b]) = b /\ caller'[store'[b]] = "done"
                      /\ told'[store'[b]] \in InvocationResponses /\ store'[b] \in sealed'
    BY DEF StoreExact
  <2>1. CASE b = a
    <3>1. store'[b] = k /\ AgentOf(k) = b
      BY <1>A, <1>F, <2>1 DEF a
    <3> QED
      BY <1>0, <1>R, <1>T, <1>F, <3>1 DEF ChannelTypeOK
  <2>2. CASE b # a
    <3>1. store'[b] = store[b] /\ store[b] \in Calls
      BY <1>A, <1>F, <2>2
    <3>2. /\ AgentOf(store[b]) = b /\ caller[store[b]] = "done" /\ told[store[b]] \in InvocationResponses
          /\ store[b] \in sealed
      BY <3>1 DEF ChannelInv, StoreExact
    <3>3. store[b] # k
      BY <1>0, <3>2
    <3> QED
      BY <1>0, <1>F, <1>T, <3>1, <3>2, <3>3 DEF ChannelTypeOK
  <2> QED
    BY <2>1, <2>2
<1>4. HeldExact'
  <2> SUFFICES ASSUME NEW role \in Roles, NEW j \in Calls, NEW r \in Regions, <<role, j, r>> \in held'
               PROVE  HoldExact(role, j, r)'
    BY DEF HeldExact
  <2>1. CASE <<role, j, r>> \in As("store", k, {k})
    <3>1. role = "store" /\ j = k /\ r = k
      BY <2>1 DEF As
    <3>2. store'[AgentOf(k)] = k
      BY <1>A, <1>F DEF a
    <3> QED
      BY <3>1, <3>2 DEF HoldExact
  <2>2. CASE <<role, j, r>> \notin As("store", k, {k})
    <3>1. <<role, j, r>> \in held /\ HoldExact(role, j, r)
      BY <1>F, <2>2 DEF ChannelInv, HeldExact
    <3>2. j = k => role \notin {"dup", "client"}
      BY <1>F, <2>2 DEF Holds
    <3>3. role = "store" => j # store[a]
      BY <1>F, <2>2 DEF Entry, Holds
    <3>4. role = "store" => AgentOf(j) # a /\ store'[AgentOf(j)] = store[AgentOf(j)]
      <4> HAVE role = "store"
      <4>1. r = j /\ store[AgentOf(j)] = j
        BY <3>1 DEF HoldExact
      <4>2. AgentOf(j) # a
        BY <3>3, <4>1
      <4>3. AgentOf(j) \in Agents
        BY CallsAre
      <4> QED
        BY <1>A, <1>F, <4>2, <4>3
    <3> HIDE DEF a
    <3>5. CASE j # k
      BY <1>0, <1>T, <3>1, <3>4, <3>5 DEF ChannelTypeOK, HoldExact
    <3>6. CASE j = k
      BY <1>0, <1>Q, <1>T, <3>1, <3>2, <3>4, <3>6 DEF ChannelTypeOK, HoldExact
    <3> QED
      BY <3>5, <3>6
  <2> QED
    BY <2>1, <2>2
<1>5. WritableExact'
  <2> SUFFICES ASSUME NEW role \in Roles, NEW j \in Calls, NEW r \in Regions, <<role, j, r>> \in writable'
               PROVE  MayWrite(role, j)'
    BY DEF WritableExact
  <2>1. <<role, j, r>> \in writable => MayWrite(role, j)
    BY DEF ChannelInv, WritableExact
  <2>2. /\ <<role, j, r>> \in writable
    BY <1>0, <1>Q, <1>R, <1>A, <1>F DEF Holds, As, Entry
  <2> QED
    BY <1>0, <1>T, <1>Q, <1>R, <1>A, <1>F, <2>1, <2>2 DEF ChannelTypeOK, MayWrite
<1>6. SealedExact'
  BY <1>0, <1>T, <1>Q, <1>R, <1>A, <1>F, CallsAre DEF ChannelInv, ChannelTypeOK, SharedTypeOK, SealedExact
<1>7. BacklogExact' /\ ClientsCounted'
  BY <1>0, <1>T, BooksFrame DEF ChannelInv, ChannelTypeOK, Working
<1> QED
  BY <1>1, <1>2, <1>3, <1>4, <1>5, <1>6, <1>7 DEF ChannelInv

\* ReleaseResult keeps the invariant.
LEMMA ReleaseResultStep ==
  ASSUME ChannelInv, NEW a \in Agents, ReleaseResult(a)
  PROVE  ChannelInv'
<1>0. /\ held' = held \ Entry(a)
      /\ writable' = writable \ Entry(a)
      /\ store' = [store EXCEPT ![a] = NoRegion]
      /\ UNCHANGED <<caller, request, requestPacket, told, toServer, toClient, thread, seen, answer, responsePacket, server, stopAsked, backlog, activeClients, sealed>>
  BY DEF ReleaseResult, EraseResult, Exchange, threadVars, wireVars, clientVars, serverVars, sharedVars, memoryVars
<1>T. ChannelTypeOK
  BY DEF ChannelInv
<1>A. /\ Producers = Agents /\ Regions = Calls /\ store \in [Agents -> Calls \cup {NoRegion}]
  BY <1>T, CallsAre DEF ChannelTypeOK, SharedTypeOK
<1>1. ChannelTypeOK'
  <2>1. SharedTypeOK'
    <3>1. /\ held \subseteq Roles \X Regions \X Regions /\ writable \subseteq held
          /\ sealed \subseteq Regions /\ store \in [Producers -> Regions \cup {NoRegion}]
      BY <1>T DEF ChannelTypeOK, SharedTypeOK
    <3> QED
      BY <1>0, <3>1 DEF SharedTypeOK
  <2> QED
    BY <1>0, <1>T, <2>1 DEF ChannelTypeOK
<1>2. ASSUME NEW j \in Calls
      PROVE  CallExact(j)' /\ AnswerExact(j)'
  BY <1>0, CallFrame DEF ChannelInv
<1>3. StoreExact'
  <2> SUFFICES ASSUME NEW b \in Agents, store'[b] # NoRegion
               PROVE  /\ AgentOf(store'[b]) = b /\ caller'[store'[b]] = "done"
                      /\ told'[store'[b]] \in InvocationResponses /\ store'[b] \in sealed'
    BY DEF StoreExact
  <2>1. b # a /\ store'[b] = store[b] /\ store[b] \in Calls
    BY <1>A, <1>0
  <2>2. /\ AgentOf(store[b]) = b /\ caller[store[b]] = "done" /\ told[store[b]] \in InvocationResponses
        /\ store[b] \in sealed
    BY <2>1 DEF ChannelInv, StoreExact
  <2> QED
    BY <1>0, <1>T, <2>1, <2>2 DEF ChannelTypeOK
<1>4. HeldExact'
  <2> SUFFICES ASSUME NEW role \in Roles, NEW j \in Calls, NEW r \in Regions, <<role, j, r>> \in held'
               PROVE  HoldExact(role, j, r)'
    BY DEF HeldExact
  <2>2. <<role, j, r>> \in held /\ <<role, j, r>> \notin Entry(a)
    BY <1>0
  <2> QED
    <3>1. HoldExact(role, j, r)
      BY <2>2 DEF ChannelInv, HeldExact
    <3>2. role = "store" => j # store[a]
      BY <1>0, <2>2 DEF Entry, Holds, As
    <3>3. role = "store" => AgentOf(j) # a /\ store'[AgentOf(j)] = store[AgentOf(j)]
      <4> HAVE role = "store"
      <4>1. r = j /\ store[AgentOf(j)] = j
        BY <3>1 DEF HoldExact
      <4>2. AgentOf(j) # a
        BY <3>2, <4>1
      <4>3. AgentOf(j) \in Agents
        BY CallsAre
      <4> QED
        BY <1>A, <1>0, <4>2, <4>3
    <3> QED
      BY <1>0, <3>1, <3>3 DEF HoldExact
<1>5. WritableExact'
  BY <1>0 DEF ChannelInv, WritableExact, MayWrite
<1>6. SealedExact'
  BY <1>0, <1>T, <1>A, CallsAre DEF ChannelInv, ChannelTypeOK, SharedTypeOK, SealedExact
<1>7. BacklogExact' /\ ClientsCounted'
  BY <1>0, <1>T, BooksFrame DEF ChannelInv, ChannelTypeOK, Working
<1> QED
  BY <1>1, <1>2, <1>3, <1>4, <1>5, <1>6, <1>7 DEF ChannelInv

\* Begin keeps the invariant.
LEMMA BeginStep ==
  ASSUME ChannelInv, NEW k \in Calls, NEW spec \in Specs[AgentOf(k)], Begin(k, spec)
  PROVE  ChannelInv'
<1>0. /\ caller[k] = "new"
      /\ caller' = [caller EXCEPT ![k] = "built"]
      /\ request' = [request EXCEPT ![k] = BuildRequest(AgentOf(k), spec)]
      /\ requestPacket' = [requestPacket EXCEPT ![k] = EncodeRequest(BuildRequest(AgentOf(k), spec))]
      /\ EraseAndAcquire(AgentOf(k), {Attached(AgentOf(k))[i] : i \in DOMAIN Attached(AgentOf(k))}, k)
      /\ UNCHANGED <<told, toServer, toClient, thread, seen, answer, responsePacket, server, stopAsked, backlog, activeClients>>
  BY DEF Begin, MayBegin, threadVars, wireVars, clientVars, serverVars, sharedVars, memoryVars
<1>T. ChannelTypeOK
  BY DEF ChannelInv
<1>A. /\ Producers = Agents /\ Regions = Calls /\ store \in [Agents -> Calls \cup {NoRegion}]
  BY <1>T, CallsAre DEF ChannelTypeOK, SharedTypeOK
<1> DEFINE a == AgentOf(k)
           from == {Attached(a)[i] : i \in DOMAIN Attached(a)}
           taken == {store[d] : d \in from}
           R == BuildRequest(a, spec)
<1>a. a \in Agents /\ a # 0
  BY CallsAre
<1>D. taken \subseteq Calls
  <2>1. \A i \in DOMAIN Attached(a) : Attached(a)[i] \in Agents /\ store[Attached(a)[i]] # NoRegion
    <3>1. Attached(a) \in Seq(Agents) /\ \A i \in DOMAIN Attached(a) : store[Attached(a)[i]] # NoRegion
      BY <1>a, AttachedIs
    <3>2. \A s \in Seq(Agents) : \A i \in DOMAIN s : s[i] \in Agents
      OBVIOUS
    <3> QED
      BY <3>1, <3>2, Zenon
  <2> QED
    BY <1>A, <2>1
<1>F. /\ held' = (held \ Entry(a)) \cup As("dup", k, taken) /\ writable' = writable \ Entry(a) /\ sealed' = sealed
      /\ store' = [store EXCEPT ![a] = NoRegion]
  BY <1>0, Zenon DEF EraseAndAcquire, Exchange
<1>R. R \in InvocationRequests /\ R.agent = a
  BY <1>a, BuildRequestIs DEF ChannelInv
<1>E. EncodeRequest(R) \in Seq(Int)
  <2>1. CASE EncodeRequest(R) = NoPacket
    BY <2>1 DEF NoPacket
  <2>2. CASE EncodeRequest(R) # NoPacket
    BY <1>R, <2>2, RequestRoundTrip
  <2> QED
    BY <2>1, <2>2
<1>N. R # NoRequest
  <2>1. NoRequest.agent = 0
    BY DEF NoRequest
  <2> HIDE DEF R
  <2> QED
    BY <1>a, <1>R, <2>1
<1>G. /\ request' = [request EXCEPT ![k] = R] /\ requestPacket' = [requestPacket EXCEPT ![k] = EncodeRequest(R)]
  BY <1>0
<1>H. R.agent = AgentOf(k)
  BY <1>R
<1> HIDE DEF R, taken, from, a
<1>1. ChannelTypeOK'
  <2>1. SharedTypeOK'
    <3>1. /\ held \subseteq Roles \X Regions \X Regions /\ writable \subseteq held
          /\ sealed \subseteq Regions /\ store \in [Producers -> Regions \cup {NoRegion}]
      BY <1>T DEF ChannelTypeOK, SharedTypeOK
    <3>2. As("dup", k, taken) \subseteq Roles \X Regions \X Regions
      BY <1>A, <1>D DEF As, Roles
    <3> QED
      BY <1>A, <1>F, <3>1, <3>2 DEF SharedTypeOK
  <2>2. /\ caller' \in [Calls -> CallerStages]
        /\ request' \in [Calls -> InvocationRequests \cup {NoRequest}]
        /\ requestPacket' \in [Calls -> Seq(Int)]
    BY <1>0, <1>T, <1>R, <1>E, <1>N, <1>G, <1>H, <1>F DEF ChannelTypeOK, CallerStages, ThreadStages, NoPacket
  <2> QED
    BY <1>0, <1>T, <2>1, <2>2 DEF ChannelTypeOK
<1>2. ASSUME NEW j \in Calls
      PROVE  CallExact(j)' /\ AnswerExact(j)'
  <2>0. CallExact(j) /\ AnswerExact(j)
    BY DEF ChannelInv
  <2>1. CASE j # k
    BY <1>0, <1>G, <1>T, <2>0, <2>1, CallFrame DEF ChannelTypeOK
  <2>2. CASE j = k
    BY <1>0, <1>T, <1>R, <1>E, <1>N, <1>G, <1>H, <1>F, <2>0, <2>2 DEF ChannelTypeOK, CallExact, AnswerExact, Working, ServerEndOpen, ClientEndOpen
  <2> QED
    BY <2>1, <2>2
<1>3. StoreExact'
  <2> SUFFICES ASSUME NEW b \in Agents, store'[b] # NoRegion
               PROVE  /\ AgentOf(store'[b]) = b /\ caller'[store'[b]] = "done"
                      /\ told'[store'[b]] \in InvocationResponses /\ store'[b] \in sealed'
    BY DEF StoreExact
  <2>1. b # a /\ store'[b] = store[b] /\ store[b] \in Calls
    BY <1>A, <1>a, <1>F
  <2>2. /\ AgentOf(store[b]) = b /\ caller[store[b]] = "done" /\ told[store[b]] \in InvocationResponses
        /\ store[b] \in sealed
    BY <2>1 DEF ChannelInv, StoreExact
  <2>3. store[b] # k
    BY <1>0, <2>2
  <2> QED
    BY <1>0, <1>F, <1>T, <2>1, <2>2, <2>3 DEF ChannelTypeOK
<1>4. HeldExact'
  <2> SUFFICES ASSUME NEW role \in Roles, NEW j \in Calls, NEW r \in Regions, <<role, j, r>> \in held'
               PROVE  HoldExact(role, j, r)'
    BY DEF HeldExact
  <2>1. CASE <<role, j, r>> \in As("dup", k, taken)
    <3>1. role = "dup" /\ j = k /\ caller'[k] = "built"
      BY <1>0, <1>T, <2>1 DEF As, ChannelTypeOK
    <3> QED
      BY <3>1 DEF HoldExact
  <2>2. CASE <<role, j, r>> \notin As("dup", k, taken)
    <3>0. <<role, j, r>> \in held /\ <<role, j, r>> \notin Entry(a)
      BY <1>F, <2>2
    <3>1. HoldExact(role, j, r)
      BY <3>0 DEF ChannelInv, HeldExact
    <3>2. role = "store" => j # store[a]
      BY <3>0 DEF Entry, Holds
    <3>3. role = "store" => AgentOf(j) # a /\ store'[AgentOf(j)] = store[AgentOf(j)]
      <4> HAVE role = "store"
      <4>1. r = j /\ store[AgentOf(j)] = j
        BY <3>1 DEF HoldExact
      <4>2. AgentOf(j) # a
        BY <3>2, <4>1
      <4>3. AgentOf(j) \in Agents
        BY CallsAre
      <4> QED
        BY <1>A, <1>a, <1>F, <4>2, <4>3
    <3>4. CASE j # k
      BY <1>0, <1>T, <3>1, <3>3, <3>4 DEF ChannelTypeOK, HoldExact
    <3>5. CASE j = k
      BY <1>0, <1>T, <3>1, <3>3, <3>5 DEF ChannelTypeOK, HoldExact
    <3> QED
      BY <3>4, <3>5
  <2> QED
    BY <2>1, <2>2
<1>5. WritableExact'
  BY <1>0, <1>F DEF ChannelInv, WritableExact, MayWrite
<1>6. SealedExact'
  BY <1>0, <1>T, <1>R, <1>E, <1>N, <1>G, <1>H, <1>F, CallsAre DEF ChannelInv, ChannelTypeOK, SharedTypeOK, SealedExact
<1>7. BacklogExact' /\ ClientsCounted'
  BY <1>0, <1>T, BooksFrame DEF ChannelInv, ChannelTypeOK, Working
<1> QED
  BY <1>1, <1>2, <1>3, <1>4, <1>5, <1>6, <1>7 DEF ChannelInv

-----------------------------------------------------------------------------
(* The invariant *)

\* Before the server starts, the invariant holds.
LEMMA ChannelInvInit ==
  ASSUME ChannelInit
  PROVE  ChannelInv
<1> USE DEF ChannelInit, SharedInit
<1>0. \A k \in Calls : request[k] = NoRequest /\ answer[k] = NoResponse /\ toServer[k] = NoPacket /\ toClient[k] = NoPacket
  OBVIOUS
<1>1. ChannelTypeOK
  <2>1. SharedTypeOK
    BY DEF SharedTypeOK
  <2>2. /\ caller \in [Calls -> CallerStages] /\ thread \in [Calls -> ThreadStages]
        /\ request \in [Calls -> InvocationRequests \cup {NoRequest}]
        /\ seen \in [Calls -> InvocationRequests \cup {NoRequest}]
        /\ answer \in [Calls -> InvocationResponses \cup {NoResponse}]
        /\ told \in [Calls -> InvocationResponses \cup {Open, Error}]
    BY DEF CallerStages, ThreadStages
  <2>3. /\ requestPacket \in [Calls -> Seq(Int)] /\ responsePacket \in [Calls -> Seq(Int)]
        /\ toServer \in [Calls -> Seq(Int)] /\ toClient \in [Calls -> Seq(Int)]
    BY DEF NoPacket
  <2>4. backlog \in Seq(Calls)
    OBVIOUS
  <2> QED
    BY <2>1, <2>2, <2>3, <2>4 DEF ChannelTypeOK
<1>2. ASSUME NEW k \in Calls
      PROVE  CallExact(k) /\ AnswerExact(k)
  BY DEF CallExact, AnswerExact
<1>3. StoreExact
  BY CallsAre DEF StoreExact
<1>4. HeldExact /\ WritableExact /\ SealedExact
  BY DEF HeldExact, WritableExact, SealedExact
<1>5. BacklogExact
  BY DEF BacklogExact
<1>6. ClientsCounted
  <2>1. {k \in Calls : thread[k] \in Working} = {}
    BY DEF Working
  <2>2. Cardinality({}) = 0
    BY FS_EmptySet
  <2>3. activeClients = 0 /\ 0 <= MaxClients
    BY ChannelAssumption
  <2> QED
    BY <2>1, <2>2, <2>3 DEF ClientsCounted
<1> QED
  BY <1>1, <1>2, <1>3, <1>4, <1>5, <1>6 DEF ChannelInv

\* Every step of a client keeps the invariant.
LEMMA CallerStepKeeps ==
  ASSUME ChannelInv, NEW k \in Calls, CallerStep(k) \/ GiveUp(k)
  PROVE  ChannelInv'
<1>1. CASE EncodeFails(k) \/ ConnectFails(k) \/ SendRequestFails(k) \/ Disconnected(k)
           \/ ReceiveResponseFails(k) \/ GiveUp(k)
  BY <1>1, FailCallStep
    DEF EncodeFails, ConnectFails, SendRequestFails, Disconnected, ReceiveResponseFails, GiveUp
<1>2. CASE Connect(k)
  BY <1>2, ConnectStep
<1>3. CASE SendRequest(k)
  BY <1>3, SendRequestStep
<1>4. CASE ReceiveResponse(k)
  BY <1>4, ReceiveResponseStep
<1>5. CASE ConcludeWithoutOutput(k)
  <2>1. /\ caller[k] = "received" /\ Exchange(Holds({"dup", "client"}, k), {}) /\ UNCHANGED store
        /\ Conclude(k, Received(k))
    BY <1>5 DEF ConcludeWithoutOutput
  <2>2. CallExact(k)
    BY DEF ChannelInv
  <2>3. toClient[k] # NoPacket
    BY <2>1, <2>2 DEF CallExact
  <2>4. Received(k) \in InvocationResponses \cup {Error}
    BY <2>3, ReceivedIs
  <2> QED
    BY <2>1, <2>4, ConcludeStep
<1>6. CASE ConcludeWithOutput(k)
  BY <1>6, ConcludeWithOutputStep
<1>7. CASE PublishFails(k)
  BY <1>7, ConcludeStep DEF PublishFails
<1> QED
  BY <1>1, <1>2, <1>3, <1>4, <1>5, <1>6, <1>7 DEF CallerStep

\* Every step of a thread of the server keeps the invariant.
LEMMA ThreadStepKeeps ==
  ASSUME ChannelInv, NEW k \in Calls, ThreadStep(k)
  PROVE  ChannelInv'
<1>1. CASE ReceiveRequest(k)
  BY <1>1, ReceiveRequestStep
<1>2. CASE ReceiveRequestFails(k)
  BY <1>2, ReceiveRequestFailsStep
<1>3. CASE \E result \in HandlerResults : Handle(k, result)
  BY <1>3, HandleStep
<1>4. CASE EncodeResponseFails(k)
  BY <1>4, EncodeResponseFailsStep
<1>5. CASE ReleaseOutput(k)
  BY <1>5, ReleaseOutputStep
<1>6. CASE SendResponse(k)
  BY <1>6, SendResponseStep
<1>7. CASE SendResponseFails(k)
  BY <1>7, SendResponseFailsStep
<1>8. CASE CloseClient(k)
  BY <1>8, CloseClientStep
<1>9. CASE CountDown(k)
  BY <1>9, CountDownStep
<1>10. CASE NotifyStop(k)
  BY <1>10, NotifyStopStep
<1> QED
  BY <1>1, <1>2, <1>3, <1>4, <1>5, <1>6, <1>7, <1>8, <1>9, <1>10 DEF ThreadStep

\* A step that changes nothing keeps the invariant.
LEMMA ChannelInvStutter ==
  ASSUME ChannelInv, UNCHANGED channelVars
  PROVE  ChannelInv'
<1>0. /\ UNCHANGED <<caller, request, requestPacket, told, toServer, toClient, thread, seen, answer, responsePacket>>
      /\ UNCHANGED <<server, stopAsked, backlog, activeClients, held, writable, sealed, store>>
  BY DEF channelVars, clientVars, threadVars, wireVars, serverVars, sharedVars
<1>1. ChannelTypeOK'
  BY <1>0 DEF ChannelInv, ChannelTypeOK, SharedTypeOK
<1>2. ASSUME NEW k \in Calls
      PROVE  CallExact(k)' /\ AnswerExact(k)'
  BY <1>0, CallFrame DEF ChannelInv
<1>3. StoreExact' /\ SealedExact'
  BY <1>0 DEF ChannelInv, StoreExact, SealedExact
<1>4. HeldExact' /\ WritableExact'
  BY <1>0 DEF ChannelInv, HeldExact, HoldExact, WritableExact, MayWrite
<1>5. BacklogExact' /\ ClientsCounted'
  BY <1>0, BooksFrame DEF ChannelInv
<1> QED
  BY <1>1, <1>2, <1>3, <1>4, <1>5 DEF ChannelInv

\* Every step of clients, threads and server keeps the invariant.
LEMMA ChannelNextKeeps ==
  ASSUME ChannelInv, [ChannelNext]_channelVars
  PROVE  ChannelInv'
<1>1. CASE \E k \in Calls : CallerStep(k) \/ GiveUp(k)
  BY <1>1, CallerStepKeeps
<1>2. CASE \E k \in Calls : ThreadStep(k)
  BY <1>2, ThreadStepKeeps
<1>3. CASE ServeStep
  BY <1>3, AcceptStep, TurnAwayStep, CloseListenerStep, WaitForClientsStep DEF ServeStep
<1>4. CASE \E k \in Calls : \E spec \in Specs[AgentOf(k)] : Begin(k, spec)
  BY <1>4, BeginStep
<1>5. CASE \E a \in Agents : ReleaseResult(a)
  BY <1>5, ReleaseResultStep
<1>6. CASE StartServer \/ AskStop
  BY <1>6, StartServerStep, AskStopStep
<1>7. CASE UNCHANGED channelVars
  BY <1>7, ChannelInvStutter
<1> QED
  BY <1>1, <1>2, <1>3, <1>4, <1>5, <1>6, <1>7 DEF ChannelNext, CodeStep

\* How far client and server of a call can be apart, what each holds and what
\* the server counts: the invariant that the others follow from.
THEOREM ChannelInvariant == ChannelSpec => []ChannelInv
<1>1. ChannelInit => ChannelInv
  BY ChannelInvInit
<1>2. ChannelInv /\ [ChannelNext]_channelVars => ChannelInv'
  BY ChannelNextKeeps
<1> QED
  BY <1>1, <1>2, PTL DEF ChannelSpec

\* active_clients_ is what is being served, within the limit, and stop has
\* waited for every handle_client.
THEOREM ChannelStopWaits == ChannelSpec => []StopWaits
<1>1. ASSUME ChannelInv
      PROVE  StopWaits
  <2>1. activeClients = Cardinality({k \in Calls : thread[k] \in Working}) /\ activeClients <= MaxClients
    BY <1>1 DEF ChannelInv, ClientsCounted
  <2>2. ASSUME server = "stopped", NEW k \in Calls
        PROVE  ~ServerEndOpen(k)
    <3>1. backlog = <<>> /\ activeClients = 0 /\ (thread[k] = "queued" => \E i \in DOMAIN backlog : backlog[i] = k)
      BY <1>1, <2>2 DEF ChannelInv, BacklogExact
    <3>2. thread[k] # "queued"
      BY <3>1
    <3>3. thread[k] \notin Working
      BY <1>1, <3>1, WorkingIs
    <3> QED
      BY <3>2, <3>3 DEF ServerEndOpen
  <2> QED
    BY <2>1, <2>2 DEF StopWaits
<1> QED
  BY <1>1, ChannelInvariant, PTL

\* What is held when a call and its connection are over is the published
\* result, on every path of execute_invocation and handle_client.
THEOREM ChannelNothingLeaks == ChannelSpec => []NothingLeaks
<1>1. ASSUME ChannelInv
      PROVE  NothingLeaks
  <2> SUFFICES ASSUME NEW h \in held
               PROVE  \/ h[1] = "store" /\ h[2] = h[3] /\ store[AgentOf(h[2])] = h[3]
                      \/ caller[h[2]] # "done"
                      \/ ServerEndOpen(h[2])
    BY DEF NothingLeaks
  <2>1. held \subseteq Roles \X Regions \X Regions
    BY <1>1 DEF ChannelInv, ChannelTypeOK, SharedTypeOK
  <2>2. PICK role \in Roles, k \in Regions, r \in Regions : h = <<role, k, r>>
    BY <2>1
  <2>3. HoldExact(role, k, r)
    BY <1>1, <2>2, CallsAre DEF ChannelInv, HeldExact
  <2>4. h[1] = role /\ h[2] = k /\ h[3] = r
    BY <2>2
  <2>5. \/ role = "store" /\ k = r /\ store[AgentOf(k)] = r
        \/ caller[k] # "done"
        \/ ServerEndOpen(k)
    BY <2>3 DEF HoldExact, ServerEndOpen, Working
  <2> QED
    BY <2>4, <2>5
<1> QED
  BY <1>1, ChannelInvariant, PTL

\* A published result is sealed and nobody can write to it, and the backend
\* has unmapped an output before the runtime seals it.
THEOREM ChannelResultsImmutable == ChannelSpec => []ResultsImmutable
<1>1. ASSUME ChannelInv
      PROVE  ResultsImmutable
  <2>0. /\ held \subseteq Roles \X Regions \X Regions /\ writable \subseteq held /\ Regions = Calls
        /\ store \in [Producers -> Regions \cup {NoRegion}] /\ Producers = Agents
    BY <1>1, CallsAre DEF ChannelInv, ChannelTypeOK, SharedTypeOK
  <2> DEFINE Writes(h, role) ==
               /\ h = <<role, h[3], h[3]>> /\ h[3] \in Calls
               /\ role = "client" => caller[h[3]] = "received"
               /\ role = "server" => thread[h[3]] = "respond" \/ (thread[h[3]] = "close" /\ responsePacket[h[3]] = NoPacket)
  <2>1. ASSUME NEW h \in writable
        PROVE  \E role \in {"server", "client"} : Writes(h, role)
    <3>1. PICK role \in Roles, k \in Regions, r \in Regions : h = <<role, k, r>>
      BY <2>0
    <3>2. HoldExact(role, k, r) /\ MayWrite(role, k)
      BY <1>1, <2>0, <3>1 DEF ChannelInv, HeldExact, WritableExact
    <3>3. /\ role \in {"server", "client"} /\ k = r
          /\ role = "client" => caller[r] = "received"
          /\ role = "server" => thread[r] = "respond" \/ (thread[r] = "close" /\ responsePacket[r] = NoPacket)
      BY <3>2 DEF HoldExact, MayWrite
    <3>4. h[3] = r /\ r \in Calls
      BY <2>0, <3>1
    <3> QED
      BY <3>1, <3>3, <3>4
  <2> HIDE DEF Writes
  <2>2. ASSUME NEW a \in Agents, store[a] # NoRegion
        PROVE  store[a] \in sealed /\ \A h \in writable : h[3] # store[a]
    <3>1. store[a] \in sealed
      BY <1>1, <2>2 DEF ChannelInv, StoreExact
    <3>2. /\ caller[store[a]] = "done" /\ thread[store[a]] \in {"close", "leave", "notify", "gone"}
          /\ responsePacket[store[a]] # NoPacket
      BY <1>1, <3>1 DEF ChannelInv, SealedExact
    <3>3. ASSUME NEW h \in writable, h[3] = store[a]
          PROVE  FALSE
      <4>1. PICK role \in {"server", "client"} : Writes(h, role)
        BY <2>1, <3>3
      <4>2. caller[h[3]] = "done" /\ thread[h[3]] \in {"close", "leave", "notify", "gone"}
            /\ responsePacket[h[3]] # NoPacket
        BY <3>2, <3>3
      <4> QED
        BY <4>1, <4>2 DEF Writes
    <3> QED
      BY <3>1, <3>3
  <2>3. ASSUME NEW k \in Calls, caller[k] = "received", Received(k).outputAvailable
        PROVE  Sealable(Received(k).output.region, k)
    <3>1. CallExact(k)
      BY <1>1 DEF ChannelInv
    <3>2. /\ toClient[k] # NoPacket /\ thread[k] \in {"close", "leave", "notify", "gone"} /\ responsePacket[k] # NoPacket
      BY <2>3, <3>1 DEF CallExact
    <3>3. Received(k).output.region = k
      BY <1>1, <2>3, <3>2, ReceivedIs
    <3>4. k \notin sealed
      BY <1>1, <2>3 DEF ChannelInv, SealedExact
    <3>5. ASSUME NEW h \in writable, h[3] = k
          PROVE  h = <<"client", k, k>>
      <4>1. PICK role \in {"server", "client"} : Writes(h, role)
        BY <2>1, <3>5
      <4>2. thread[h[3]] \in {"close", "leave", "notify", "gone"} /\ responsePacket[h[3]] # NoPacket
        BY <3>2, <3>5
      <4>3. role = "client"
        BY <4>1, <4>2 DEF Writes
      <4> QED
        BY <4>1, <4>3, <3>5 DEF Writes
    <3> QED
      BY <3>3, <3>4, <3>5 DEF Sealable
  <2> QED
    BY <2>2, <2>3 DEF ResultsImmutable
<1> QED
  BY <1>1, ChannelInvariant, PTL

-----------------------------------------------------------------------------
(* The refinement of RemoteCall: what one step of the channel does to what  *)
(* was asked, executed and answered.                                        *)

ExecutedOf(k) == IF answer[k] = NoResponse THEN NoRequest
                                           ELSE [request |-> seen[k], reply |-> answer[k]]
Executed == [k \in Calls |-> ExecutedOf(k)]

\* A record of a request and a reply is not the mark for "not executed".
LEMMA ExecutedIsSomething ==
  ASSUME NEW r, NEW s
  PROVE  [request |-> r, reply |-> s] # NoRequest
<1>1. "request" \in DOMAIN [request |-> r, reply |-> s]
  OBVIOUS
<1>2. "request" \notin DOMAIN NoRequest
  BY DEF NoRequest
<1> QED
  BY <1>1, <1>2

\* A step that touches neither requests nor answers is invisible to a caller.
LEMMA RemoteStutter ==
  ASSUME UNCHANGED <<request, told, seen, answer>>
  PROVE  UNCHANGED <<request, Executed, told>>
BY DEF Executed, ExecutedOf

\* To read a request executes nothing yet.
LEMMA RemoteRead ==
  ASSUME ChannelInv, NEW k \in Calls, ReceiveRequest(k)
  PROVE  UNCHANGED <<request, Executed, told>>
<1>1. /\ UNCHANGED <<request, told, answer>> /\ answer[k] = NoResponse
      /\ \A j \in Calls : j # k => seen'[j] = seen[j]
  BY DEF ReceiveRequest, clientVars, ChannelInv, ChannelTypeOK, CallExact
<1>2. \A j \in Calls : ExecutedOf(j)' = ExecutedOf(j)
  BY <1>1 DEF ExecutedOf
<1> QED
  BY <1>1, <1>2 DEF Executed

\* A call begins: it asks.
LEMMA RemoteBegin ==
  ASSUME ChannelInv, NEW k \in Calls, NEW spec, Begin(k, spec)
  PROVE  /\ request[k] = NoRequest
         /\ request' = [request EXCEPT ![k] = request'[k]]
         /\ UNCHANGED <<Executed, told>>
<1>1. caller[k] = "new" /\ UNCHANGED <<seen, answer, told>>
  BY DEF Begin, MayBegin, threadVars
<1>2. request[k] = NoRequest
  BY <1>1 DEF ChannelInv, CallExact
<1>3. PICK r \in {BuildRequest(AgentOf(k), spec)} : request' = [request EXCEPT ![k] = r]
  BY DEF Begin
<1>4. request \in [Calls -> InvocationRequests \cup {NoRequest}]
  BY DEF ChannelInv, ChannelTypeOK
<1>5. request'[k] = r
  BY <1>3, <1>4
<1>6. UNCHANGED Executed
  BY <1>1 DEF Executed, ExecutedOf
<1> QED
  BY <1>1, <1>2, <1>3, <1>5, <1>6

\* The handler runs: the call is executed, once, with what was asked.
LEMMA RemoteHandle ==
  ASSUME ChannelInv, NEW k \in Calls, NEW result \in HandlerResults, Handle(k, result)
  PROVE  /\ request[k] # NoRequest
         /\ Executed[k] = NoRequest
         /\ Executed' = [Executed EXCEPT ![k] = Executed'[k]]
         /\ Executed'[k] # NoRequest
         /\ Executed'[k].request = request[k]
         /\ UNCHANGED <<request, told>>
<1>1. /\ thread[k] = "handle" /\ UNCHANGED <<request, told, seen>> /\ thread' = [thread EXCEPT ![k] = "respond"]
      /\ answer' = [answer EXCEPT ![k] = Response(k, result)]
  BY DEF Handle, clientVars
<1>2. /\ seen[k] = request[k] /\ caller[k] # "new" /\ answer[k] = NoResponse
      /\ (caller[k] = "new" <=> request[k] = NoRequest)
  BY <1>1 DEF ChannelInv, CallExact
<1>3. answer'[k] # NoResponse
  <2>1. ChannelInv'
    BY HandleStep
  <2>2. thread'[k] = "respond"
    BY <1>1 DEF ChannelInv, ChannelTypeOK
  <2> QED
    BY <2>1, <2>2 DEF ChannelInv, CallExact
<1>4. \A j \in Calls : j # k => answer'[j] = answer[j]
  BY <1>1 DEF ChannelInv, ChannelTypeOK
<1>5. \A j \in Calls : j # k => ExecutedOf(j)' = ExecutedOf(j)
  BY <1>1, <1>4 DEF ExecutedOf
<1>6. ExecutedOf(k)' = [request |-> seen[k], reply |-> answer'[k]] /\ ExecutedOf(k) = NoRequest
  BY <1>1, <1>2, <1>3 DEF ExecutedOf
<1>7. Executed'[k] = ExecutedOf(k)' /\ Executed[k] = ExecutedOf(k)
  BY DEF Executed
<1>8. Executed' = [Executed EXCEPT ![k] = Executed'[k]]
  BY <1>5, <1>7 DEF Executed
<1>9. ExecutedOf(k)' # NoRequest /\ ExecutedOf(k)'.request = request[k]
  BY <1>2, <1>6, ExecutedIsSomething
<1> QED
  BY <1>1, <1>2, <1>6, <1>7, <1>8, <1>9

\* A call concludes: its caller is told what the execution returned.
LEMMA RemoteConclude ==
  ASSUME ChannelInv, NEW k \in Calls, caller[k] = "received", Conclude(k, Received(k))
  PROVE  /\ told[k] = Open
         /\ Executed[k] # NoRequest
         /\ told' = [told EXCEPT ![k] = Executed[k].reply]
         /\ UNCHANGED <<request, Executed>>
<1>1. told[k] = Open /\ toClient[k] # NoPacket
  BY DEF ChannelInv, CallExact
<1>2. Received(k) = answer[k] /\ answer[k] # NoResponse
  BY <1>1, ReceivedIs
<1>3. told' = [told EXCEPT ![k] = Received(k)] /\ UNCHANGED <<request, seen, answer>>
  BY DEF Conclude, threadVars
<1>4. Executed[k] = [request |-> seen[k], reply |-> answer[k]]
  BY <1>2 DEF Executed, ExecutedOf
<1>5. Executed[k] # NoRequest /\ Executed[k].reply = answer[k]
  BY <1>4, ExecutedIsSomething
<1>6. UNCHANGED Executed
  BY <1>3 DEF Executed, ExecutedOf
<1> QED
  BY <1>1, <1>2, <1>3, <1>5, <1>6

\* A call fails: its caller is told so, whatever the server does.
LEMMA RemoteFail ==
  ASSUME ChannelInv, NEW k \in Calls, caller[k] \in {"built", "connected", "sent", "received"},
         told' = [told EXCEPT ![k] = Error], UNCHANGED <<request, seen, answer>>
  PROVE  Remote!Refuse(k)
<1>1. told[k] = Open /\ request[k] # NoRequest
  BY DEF ChannelInv, CallExact
<1>2. UNCHANGED Executed
  BY DEF Executed, ExecutedOf
<1> QED
  BY <1>1, <1>2 DEF Remote!Refuse, Executed, ExecutedOf

\* Every step of a client is one of RemoteCall, or invisible to it.
LEMMA RemoteCallerStep ==
  ASSUME ChannelInv, NEW k \in Calls, CallerStep(k) \/ GiveUp(k)
  PROVE  Remote!CallNext \/ UNCHANGED Remote!callVars
<1>1. CASE EncodeFails(k) \/ ConnectFails(k) \/ SendRequestFails(k) \/ Disconnected(k)
           \/ ReceiveResponseFails(k) \/ GiveUp(k)
  <2>1. caller[k] \in {"built", "connected", "sent", "received"} /\ FailCall(k)
    BY <1>1
      DEF EncodeFails, ConnectFails, SendRequestFails, Disconnected, ReceiveResponseFails, GiveUp
  <2>2. told' = [told EXCEPT ![k] = Error] /\ UNCHANGED <<request, seen, answer>>
    BY <2>1 DEF FailCall, threadVars
  <2> QED
    BY <2>1, <2>2, RemoteFail DEF Remote!CallNext
<1>2. CASE PublishFails(k)
  <2>1. caller[k] = "received" /\ told' = [told EXCEPT ![k] = Error] /\ UNCHANGED <<request, seen, answer>>
    BY <1>2 DEF PublishFails, Conclude, threadVars
  <2> QED
    BY <2>1, RemoteFail DEF Remote!CallNext
<1>3. CASE ConcludeWithoutOutput(k) \/ ConcludeWithOutput(k)
  <2>1. caller[k] = "received" /\ Conclude(k, Received(k))
    BY <1>3 DEF ConcludeWithoutOutput, ConcludeWithOutput
  <2> QED
    BY <2>1, RemoteConclude DEF Remote!CallNext, Remote!Answer, Executed, ExecutedOf
<1>4. CASE Connect(k) \/ SendRequest(k) \/ ReceiveResponse(k)
  <2>1. UNCHANGED <<request, told, seen, answer>>
    BY <1>4 DEF Connect, SendRequest, ReceiveResponse, threadVars
  <2> QED
    BY <2>1, RemoteStutter DEF Remote!callVars, Executed, ExecutedOf
<1> QED
  BY <1>1, <1>2, <1>3, <1>4 DEF CallerStep

\* Every step of a thread is one of RemoteCall, or invisible to it.
LEMMA RemoteThreadStep ==
  ASSUME ChannelInv, NEW k \in Calls, ThreadStep(k)
  PROVE  Remote!CallNext \/ UNCHANGED Remote!callVars
<1>1. CASE ReceiveRequest(k)
  BY <1>1, RemoteRead DEF Remote!callVars, Executed, ExecutedOf
<1>2. CASE \E result \in HandlerResults : Handle(k, result)
  <2>1. PICK result \in HandlerResults : Handle(k, result)
    BY <1>2
  <2> QED
    BY <2>1, RemoteHandle
      DEF Remote!CallNext, Remote!Execute, Remote!OnlyAt, Executed, ExecutedOf
<1>3. CASE \/ ReceiveRequestFails(k) \/ EncodeResponseFails(k) \/ ReleaseOutput(k) \/ SendResponse(k)
           \/ SendResponseFails(k) \/ CloseClient(k) \/ CountDown(k) \/ NotifyStop(k)
  <2>1. UNCHANGED <<request, told, seen, answer>>
    BY <1>3 DEF ReceiveRequestFails, EncodeResponseFails, ReleaseOutput, SendResponse,
                SendResponseFails, CloseClient, CountDown, NotifyStop, clientVars
  <2> QED
    BY <2>1, RemoteStutter DEF Remote!callVars, Executed, ExecutedOf
<1> QED
  BY <1>1, <1>2, <1>3 DEF ThreadStep

\* Every step of the channel is one of RemoteCall, or invisible to it.
LEMMA RemoteStep ==
  ASSUME ChannelInv, [ChannelNext]_channelVars
  PROVE  [Remote!CallNext]_(Remote!callVars)
<1>1. CASE \E k \in Calls : CallerStep(k) \/ GiveUp(k)
  BY <1>1, RemoteCallerStep
<1>2. CASE \E k \in Calls : ThreadStep(k)
  BY <1>2, RemoteThreadStep
<1>3. CASE \E k \in Calls : \E spec \in Specs[AgentOf(k)] : Begin(k, spec)
  BY <1>3, RemoteBegin DEF Remote!CallNext, Remote!Ask, Remote!OnlyAt, Executed, ExecutedOf
<1>4. CASE ServeStep \/ (\E a \in Agents : ReleaseResult(a)) \/ StartServer \/ AskStop \/ UNCHANGED channelVars
  <2>1. UNCHANGED <<request, told, seen, answer>>
    BY <1>4 DEF ServeStep, Accept, TurnAway, CloseListener, WaitForClients, ReleaseResult, StartServer,
                AskStop, channelVars, clientVars, threadVars
  <2> QED
    BY <2>1, RemoteStutter DEF Remote!callVars, Executed, ExecutedOf
<1> QED
  BY <1>1, <1>2, <1>3, <1>4 DEF ChannelNext, CodeStep

\* Whatever the packets, the retries, the late answers and the order of the
\* threads: a call is executed at most once, with the request of its caller,
\* and a caller is told the answer the handler gave to this call, or a failure.
THEOREM ChannelImplementsRemoteCall == ChannelSpec => ImplementsRemoteCall
<1>1. ChannelInit => Remote!CallInit
  BY DEF ChannelInit, Remote!CallInit
<1>2. ChannelInv /\ [ChannelNext]_channelVars => [Remote!CallNext]_(Remote!callVars)
  BY RemoteStep
<1> QED
  BY <1>1, <1>2, ChannelInvariant, PTL DEF ChannelSpec, ImplementsRemoteCall, Remote!CallSpec
=============================================================================
