--------------------------- MODULE ControlProtocol ---------------------------
(***************************************************************************)
(* The messages between agentctl and agentd: control_protocol.cpp.  Every   *)
(* request carries a whole task, every response a list of agents and, for   *)
(* the operation result, a reference to shared memory.  Strings and lists   *)
(* have a variable length: where a field begins is found by reading all the *)
(* fields before it.  The six counters of the metrics are one tuple.        *)
(***************************************************************************)
EXTENDS WireFormat
Seqs == INSTANCE SequencesExt

CONSTANTS MaxElements    \* kMaxCollectionElements

ASSUME ControlAssumption == MaxElements \in Nat

ControlMagic == 65        \* kControlProtocolMagic, one word
ControlVersion == 3       \* kControlProtocolVersion

Ping == 1
Submit == 2
Spawn == 3
Status == 4
List == 5
Cancel == 6
Shutdown == 7
Result == 8
ReleaseResult == 9
Operations == Ping .. ReleaseResult

InvocationKinds == {1, 2}   \* model, tool
AgentStates == 0 .. 10      \* AgentState, created to cancelled

NoInvocation == [kind |-> 0]
NoTask == [id |-> -1]
NoControlRequest == [operation |-> 0]
NoControlResponse == [success |-> "none"]

-----------------------------------------------------------------------------
(* Tasks *)

HasInvocation(task) == task.invocation # NoInvocation

\* AgentTaskSpec; a task that is not an invocation has a command.
Invocations == [kind : Nat, context : Nat, target : Text, operation : Text, payload : Text]
Tasks ==
  [id : Nat, parent : Nat, priority : Int, cpu : Nat, memory : Nat,
   timeout : {t \in Int : t <= MaxTimeout}, retries : Nat, name : Text, kind : Text,
   dependencies : Seq(Nat), command : Seq(Text), invocation : Invocations \cup {NoInvocation}]

\* The checks of encode_task.
EncodableTask(task) ==
  /\ FromWord(ToWord(task.priority)) = task.priority
  /\ task.timeout >= 0
  /\ HasInvocation(task) =>
       /\ task.command = <<>>
       /\ task.invocation.target # <<>>
       /\ task.invocation.operation # <<>>
       /\ task.invocation.kind \in InvocationKinds
       /\ \A s \in {task.invocation.target, task.invocation.operation,
                    task.invocation.payload} : Writable(s)
  /\ Writable(task.name) /\ Writable(task.kind)
  /\ Len(task.dependencies) <= MaxElements
  /\ Len(task.command) <= MaxElements
  /\ \A i \in DOMAIN task.command : Writable(task.command[i])

TaskWords(task) ==
  LET call == task.invocation
  IN  <<task.id, task.parent, ToWord(task.priority), task.cpu, task.memory,
        task.timeout, task.retries>>
        \o Written(task.name) \o Written(task.kind)
        \o <<Len(task.dependencies)>> \o task.dependencies
        \o <<Len(task.command)>>
        \o Seqs!FlattenSeq([i \in DOMAIN task.command |-> Written(task.command[i])])
        \o <<Flag(HasInvocation(task))>>
        \o IF HasInvocation(task)
           THEN <<call.kind, call.context>>
                  \o Written(call.target) \o Written(call.operation) \o Written(call.payload)
           ELSE <<>>

\* Where the strings of a list of n begin, the first one at i, and what follows.
Starts(p, i, n) ==
  LET start[j \in 0 .. n] == IF j = 0 THEN i ELSE After(p, start[j - 1]) IN start

\* decode_task at position i.  The packet ends with the task.
TaskAt(p, i) ==
  LET name == i + 7
      kind == After(p, name)
      dependencies == After(p, kind)
      arguments == dependencies + 1 + p[dependencies]
      starts == Starts(p, arguments + 1, p[arguments])
      flag == starts[p[arguments]]
      target == flag + 3
      operation == After(p, target)
      payload == After(p, operation)
      invoked == p[flag] = 1
  IN  IF /\ Words(p, i, 7)
         /\ StringAt(p, name) /\ StringAt(p, kind)
         /\ p[i + 5] <= MaxTimeout
         /\ Words(p, dependencies, 1) /\ p[dependencies] <= MaxElements
         /\ Words(p, dependencies + 1, p[dependencies])
         /\ Words(p, arguments, 1) /\ p[arguments] <= MaxElements
         /\ \A j \in 1 .. p[arguments] : StringAt(p, starts[j - 1])
         /\ Words(p, flag, 1) /\ p[flag] <= 1
         /\ invoked =>
              /\ Words(p, flag + 1, 2) /\ p[flag + 1] \in InvocationKinds
              /\ StringAt(p, target) /\ StringAt(p, operation) /\ StringAt(p, payload)
              /\ p[target] # 0 /\ p[operation] # 0
         /\ Len(p) = IF invoked THEN After(p, payload) - 1 ELSE flag
      THEN [id |-> p[i], parent |-> p[i + 1], priority |-> FromWord(p[i + 2]),
            cpu |-> p[i + 3], memory |-> p[i + 4], timeout |-> p[i + 5],
            retries |-> p[i + 6],
            name |-> Characters(p, name), kind |-> Characters(p, kind),
            dependencies |-> SubSeq(p, dependencies + 1, dependencies + p[dependencies]),
            command |-> [j \in 1 .. p[arguments] |-> Characters(p, starts[j - 1])],
            invocation |->
              IF invoked
              THEN [kind |-> p[flag + 1], context |-> p[flag + 2],
                    target |-> Characters(p, target), operation |-> Characters(p, operation),
                    payload |-> Characters(p, payload)]
              ELSE NoInvocation]
      ELSE NoTask

ControlRequests == [operation : Operations, target : Nat, task : Tasks]

EncodeControlRequest(r) ==
  IF EncodableTask(r.task)
  THEN FinishMessage(Header(ControlMagic, ControlVersion, r.operation)
                \o <<r.target>> \o TaskWords(r.task))
  ELSE NoPacket

DecodeControlRequest(p) ==
  LET task == TaskAt(p, HeaderSize + 2)
  IN  IF /\ HeaderOK(p, ControlMagic, ControlVersion, Operations)
         /\ Words(p, HeaderSize + 1, 1)
         /\ task # NoTask
      THEN [operation |-> p[3], target |-> p[HeaderSize + 1], task |-> task]
      ELSE NoControlRequest

-----------------------------------------------------------------------------
(* Responses *)

\* ControlAgentInfo and ControlResponse.
Counters == {c \in Seq(Nat) : Len(c) = 6}
AgentInfos ==
  [id : Nat, parent : Nat, state : AgentStates, process : SignedWords, unresolved : Int,
   retries : Nat, context : Nat, counters : Counters, cacheHit : BOOLEAN,
   name : Text, kind : Text, error : Text]
ControlResponses ==
  {r \in [success : BOOLEAN, message : Text, agents : Seq(AgentInfos), available : BOOLEAN,
          result : References] :
     IF r.available THEN InBounds(r.result) ELSE r.result = NoReference}

\* make_control_info: what a snapshot of the scheduler is reduced to.
MakeControlInfo(s) ==
  [id |-> s.spec.id, parent |-> s.spec.parent, state |-> s.state, process |-> s.process,
   unresolved |-> s.unresolved, retries |-> s.retries, context |-> s.context,
   counters |-> s.counters, cacheHit |-> s.cacheHit,
   name |-> s.spec.name, kind |-> s.spec.kind, error |-> s.error]

AgentWords(a) ==
  <<a.id, a.parent, a.state, ToWord(a.process), a.unresolved, a.retries, a.context>>
    \o a.counters \o <<Flag(a.cacheHit)>>
    \o Written(a.name) \o Written(a.kind) \o Written(a.error)

\* decode_agent at position i: whether there is one, and what follows it.
AgentFixed == 14
NameOf(i) == i + AgentFixed
KindOf(p, i) == After(p, NameOf(i))
ErrorOf(p, i) == After(p, KindOf(p, i))
AfterAgent(p, i) == After(p, ErrorOf(p, i))

AgentOK(p, i) ==
  /\ Words(p, i, AgentFixed)
  /\ p[i + 13] <= 1
  /\ StringAt(p, NameOf(i)) /\ StringAt(p, KindOf(p, i)) /\ StringAt(p, ErrorOf(p, i))
  /\ p[i + 2] \in AgentStates

AgentAt(p, i) ==
  [id |-> p[i], parent |-> p[i + 1], state |-> p[i + 2], process |-> FromWord(p[i + 3]),
   unresolved |-> p[i + 4], retries |-> p[i + 5], context |-> p[i + 6],
   counters |-> SubSeq(p, i + 7, i + 12), cacheHit |-> p[i + 13] = 1,
   name |-> Characters(p, NameOf(i)), kind |-> Characters(p, KindOf(p, i)),
   error |-> Characters(p, ErrorOf(p, i))]

\* Where the agents of a list of n begin, the first one at i, and what follows.
AgentStarts(p, i, n) ==
  LET start[j \in 0 .. n] == IF j = 0 THEN i ELSE AfterAgent(p, start[j - 1]) IN start

EncodeControlResponse(r) ==
  IF /\ Len(r.agents) <= MaxElements
     /\ Writable(r.message)
     /\ \A i \in DOMAIN r.agents :
          \A s \in {r.agents[i].name, r.agents[i].kind, r.agents[i].error} : Writable(s)
  THEN FinishMessage(Header(ControlMagic, ControlVersion, Ping)
                \o <<Flag(r.success)>> \o Written(r.message) \o <<Len(r.agents)>>
                \o Seqs!FlattenSeq([i \in DOMAIN r.agents |-> AgentWords(r.agents[i])])
                \o <<Flag(r.available)>>
                \o IF r.available THEN ReferenceWords(r.result) ELSE <<>>)
  ELSE NoPacket

DecodeControlResponse(p) ==
  LET message == HeaderSize + 2
      count == After(p, message)
      starts == AgentStarts(p, count + 1, p[count])
      flag == starts[p[count]]
      available == p[flag] = 1
  IN  IF /\ HeaderOK(p, ControlMagic, ControlVersion, Operations)
         /\ Words(p, HeaderSize + 1, 1) /\ p[HeaderSize + 1] <= 1
         /\ StringAt(p, message)
         /\ Words(p, count, 1) /\ p[count] <= MaxElements
         /\ \A j \in 1 .. p[count] : AgentOK(p, starts[j - 1])
         /\ Words(p, flag, 1) /\ p[flag] <= 1
         /\ available => Words(p, flag + 1, ReferenceSize) /\ InBounds(ReferenceAt(p, flag + 1))
         /\ Len(p) = flag + IF available THEN ReferenceSize ELSE 0
      THEN [success |-> p[HeaderSize + 1] = 1, message |-> Characters(p, message),
            agents |-> [j \in 1 .. p[count] |-> AgentAt(p, starts[j - 1])],
            available |-> available,
            result |-> IF available THEN ReferenceAt(p, flag + 1) ELSE NoReference]
      ELSE NoControlResponse
=============================================================================
