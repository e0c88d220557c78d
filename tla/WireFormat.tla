----------------------------- MODULE WireFormat -----------------------------
(***************************************************************************)
(* What invocation_protocol.cpp and control_protocol.cpp have in common:    *)
(* the Writer and the Reader, the message header, references to shared      *)
(* memory.  A packet is a sequence of words: one for every integer of the   *)
(* code, whatever its width, and one for every character; sizes are counted *)
(* in words.  The empty packet stands for an encoder that returned false.   *)
(***************************************************************************)
EXTENDS Integers, Sequences

CONSTANTS
  MaxString,      \* kMaxStringSize
  MaxMessage,     \* kMaxInvocationMessageSize, kMaxControlMessageSize
  WordRange,      \* 2^32 or 2^64: the values of an unsigned word
  MaxTimeout,     \* the largest int64_t
  MaxDataType     \* SharedDataType::json_utf8

ASSUME WireAssumption ==
  /\ MaxString \in Nat
  /\ MaxMessage \in Nat
  /\ WordRange \in Nat \ {0}
  /\ MaxTimeout \in Nat
  /\ MaxDataType \in Nat

NoPacket == <<>>
HeaderSize == 4

\* The mutant reads a signed integer as an unsigned one.
FromWordUnsigned(w) == w

\* std::bit_cast between a signed integer and the unsigned word on the wire.
ToWord(i) == i % WordRange
FromWord(w) == IF 2 * w >= WordRange THEN w - WordRange ELSE w

\* The signed integers of that width.
SignedWords == {i \in Int : -WordRange <= 2 * i /\ 2 * i < WordRange}

Text == Seq(Nat)
Flag(b) == IF b THEN 1 ELSE 0

-----------------------------------------------------------------------------
(* Writer *)

\* Writer::string: the size, then the characters.  The check of the size of the
\* message so far is subsumed by the one of finish_message.
Written(s) == <<Len(s)>> \o s
Writable(s) == Len(s) <= MaxString

\* encode_header: the size of the payload is filled in by finish_message.
Header(magic, version, type) == <<magic, version, type, 0>>

FinishMessage(p) ==
  IF Len(p) > MaxMessage THEN NoPacket ELSE [p EXCEPT ![HeaderSize] = Len(p) - HeaderSize]

-----------------------------------------------------------------------------
(* Reader: i is the position of the next word. *)

HeaderOK(p, magic, version, types) ==
  /\ Len(p) \in HeaderSize .. MaxMessage
  /\ p[1] = magic
  /\ p[2] = version
  /\ p[3] \in types
  /\ p[4] = Len(p) - HeaderSize

\* Reader::integer, n times: there are n words from position i.
Words(p, i, n) == i + n - 1 <= Len(p)

\* The mutant takes the size for the first character.
CharactersFromSize(p, i) == SubSeq(p, i, i + p[i] - 1)

\* Reader::string: whether there is one, its characters, and what follows it.
StringAt(p, i) == Words(p, i, 1) /\ p[i] <= MaxString /\ Words(p, i + 1, p[i])
Characters(p, i) == SubSeq(p, i + 1, i + p[i])
After(p, i) == [j \in Nat |-> j + 1 + IF Words(p, j, 1) THEN p[j] ELSE 0][i]

-----------------------------------------------------------------------------
(* SharedBufferRef *)

ReferenceSize == 7
Truncated == 1      \* shared_buffer_truncated
Immutable == 2      \* shared_buffer_immutable

References ==
  [region : Nat, size : Nat, offset : Nat, length : Nat, type : Nat, flags : Nat, version : Nat]

HasFlag(flags, bit) == (flags \div bit) % 2 = 1
WithFlag(flags, bit) == IF HasFlag(flags, bit) THEN flags ELSE flags + bit
WithoutFlag(flags, bit) == IF HasFlag(flags, bit) THEN flags - bit ELSE flags

InBounds(r) ==
  /\ r.version = 1
  /\ r.region # 0
  /\ r.size # 0
  /\ r.offset <= r.size
  /\ r.length <= r.size - r.offset

ValidReference(r) == InBounds(r) /\ r.type <= MaxDataType

ReferenceWords(r) ==
  <<r.region, r.size, r.offset, r.length, r.type, r.flags, r.version>>

NoReference == [region |-> 0, size |-> 0, offset |-> 0, length |-> 0,
                type |-> 0, flags |-> 0, version |-> 0]

ReferenceAt(p, i) ==
  [region |-> p[i], size |-> p[i + 1], offset |-> p[i + 2], length |-> p[i + 3],
   type |-> p[i + 4], flags |-> p[i + 5], version |-> p[i + 6]]
=============================================================================
