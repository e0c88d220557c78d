------------------------- MODULE InvocationProtocol -------------------------
(***************************************************************************)
(* The messages between the runtime and the model/tool backend:             *)
(* invocation_protocol.cpp.  The order of the fields, every check of the    *)
(* encoders and of the decoders and their limits are the code's; the six    *)
(* counters of the metrics are one tuple.                                   *)
(***************************************************************************)
EXTENDS WireFormat

CONSTANTS MaxInputs    \* kMaxInvocationInputs

ASSUME InvocationAssumption == MaxInputs \in Nat

InvocationMagic == 86              \* kInvocationProtocolMagic, one word
InvocationVersion == 1              \* kInvocationProtocolVersion
RequestMessage == 1
ResponseMessage == 2
Kinds == {1, 2}                      \* model, tool
OK == 0
Failed == 2
Cancelled == 3
Statuses == 0 .. 4                   \* ok, rejected, failed, cancelled, busy

InputSize == 1 + ReferenceSize
InputWords(input) == <<input.producer>> \o ReferenceWords(input.reference)
InputAt(p, i) == [producer |-> p[i], reference |-> ReferenceAt(p, i + 1)]

\* InvocationRequest and InvocationResponse.
Inputs == [producer : Nat, reference : References]
Timeouts == {t \in Int : t <= MaxTimeout}
InvocationRequests ==
  [agent : Nat, parent : Nat, kind : Nat, context : Nat, priority : SignedWords, cpu : Nat,
   memory : Nat, timeout : Timeouts, target : Text, operation : Text, payload : Text,
   inputs : Seq(Inputs)]

Counters == {c \in Seq(Nat) : Len(c) = 6}
InvocationResponses ==
  [agent : Nat, process : SignedWords, status : Nat, context : Nat, message : Text,
   counters : Counters, cacheHit : BOOLEAN, outputAvailable : BOOLEAN, output : References]

NoRequest == [agent |-> 0]
NoResponse == [agent |-> 0]

-----------------------------------------------------------------------------
(* Requests *)

ValidInput(input) == input.producer # 0 /\ ValidReference(input.reference)

\* The checks of encode_invocation_request.
Encodable(r) ==
  /\ r.agent # 0
  /\ r.target # <<>>
  /\ r.operation # <<>>
  /\ Len(r.inputs) <= MaxInputs
  /\ r.timeout >= 0
  /\ Writable(r.target) /\ Writable(r.operation) /\ Writable(r.payload)
  /\ r.kind \in Kinds
  /\ \A j \in DOMAIN r.inputs : ValidInput(r.inputs[j])

EncodeRequest(r) ==
  LET n == Len(r.inputs)
      fixed == Header(InvocationMagic, InvocationVersion, RequestMessage)
                 \o <<r.agent, r.parent, r.kind, r.context, ToWord(r.priority),
                      r.cpu, r.memory, r.timeout>>
      named == fixed \o Written(r.target) \o Written(r.operation) \o Written(r.payload)
      inputs == [i \in 1 .. n * InputSize |->
                   InputWords(r.inputs[1 + ((i - 1) \div InputSize)])[1 + ((i - 1) % InputSize)]]
  IN  IF Encodable(r) THEN FinishMessage(named \o <<n>> \o inputs) ELSE NoPacket

DecodeRequest(p) ==
  LET target == HeaderSize + 9
      operation == After(p, target)
      payload == After(p, operation)
      end == After(p, payload)           \* the number of inputs, then the inputs
      inputs == [j \in 1 .. p[end] |-> InputAt(p, end + 1 + (j - 1) * InputSize)]
  IN  IF /\ HeaderOK(p, InvocationMagic, InvocationVersion, {RequestMessage})
         /\ Words(p, HeaderSize + 1, 8)
         /\ StringAt(p, target) /\ StringAt(p, operation) /\ StringAt(p, payload)
         /\ Words(p, end, 1)
         /\ p[end] <= MaxInputs
         /\ p[7] \in Kinds
         /\ p[12] <= MaxTimeout
         /\ p[5] # 0
         /\ p[target] # 0 /\ p[operation] # 0
         /\ Len(p) = end + p[end] * InputSize
         /\ \A j \in 1 .. p[end] : ValidInput(inputs[j])
      THEN [agent |-> p[5], parent |-> p[6], kind |-> p[7], context |-> p[8],
            priority |-> FromWord(p[9]), cpu |-> p[10], memory |-> p[11],
            timeout |-> p[12], target |-> Characters(p, target),
            operation |-> Characters(p, operation), payload |-> Characters(p, payload),
            inputs |-> inputs]
      ELSE NoRequest

-----------------------------------------------------------------------------
(* Responses *)

EncodeResponse(r) ==
  LET fixed == Header(InvocationMagic, InvocationVersion, ResponseMessage)
                 \o <<r.agent, ToWord(r.process), r.status, r.context>>
      metrics == r.counters \o <<Flag(r.cacheHit)>>
      output == IF r.outputAvailable THEN ReferenceWords(r.output) ELSE <<>>
  IN  IF /\ r.agent # 0
         /\ r.status \in Statuses
         /\ r.outputAvailable => ValidReference(r.output)
         /\ Writable(r.message)
      THEN FinishMessage(fixed \o Written(r.message) \o metrics \o <<Flag(r.outputAvailable)>> \o output)
      ELSE NoPacket

DecodeResponse(p) ==
  LET message == HeaderSize + 5
      m == After(p, message)                  \* the metrics: six counters and a flag
      output == ReferenceAt(p, m + 8)
  IN  IF /\ HeaderOK(p, InvocationMagic, InvocationVersion, {ResponseMessage})
         /\ Words(p, HeaderSize + 1, 4)
         /\ p[7] \in Statuses
         /\ StringAt(p, message)
         /\ Words(p, m, 8)
         /\ p[m + 6] <= 1
         /\ p[m + 7] <= 1
         /\ Len(p) = m + 7 + p[m + 7] * ReferenceSize
         /\ p[m + 7] = 1 => ValidReference(output)
         /\ p[5] # 0
      THEN [agent |-> p[5], process |-> FromWord(p[6]), status |-> p[7],
            context |-> p[8], message |-> Characters(p, message),
            counters |-> SubSeq(p, m, m + 5), cacheHit |-> p[m + 6] = 1,
            outputAvailable |-> p[m + 7] = 1,
            output |-> IF p[m + 7] = 1 THEN output ELSE NoReference]
      ELSE NoResponse
=============================================================================
