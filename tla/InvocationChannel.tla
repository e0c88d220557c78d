------------------------- MODULE InvocationChannel -------------------------
(***************************************************************************)
(* Calls of the model/tool backend: execute_invocation of runtime.cpp with  *)
(* InvocationClient on one side, InvocationServer with one thread per       *)
(* connection on the other (invocation_channel.cpp), and the result store   *)
(* between the calls of different agents (shared_memory.cpp).               *)
(*                                                                          *)
(* A call is one attempt; the scheduler makes the next attempt of an agent  *)
(* when the last one has failed.  The handler is the callback the backend   *)
(* registers: it is given a request once and returns any of its results.    *)
(* Peer credentials are left out: all processes run under one user.         *)
(***************************************************************************)
EXTENDS InvocationProtocol, SharedResults, FiniteSets

CONSTANTS
  AgentCount,       \* agents are 1 .. AgentCount
  RetryLimit,       \* RetryLimit[a]: attempts after the first
  Dependencies,     \* Dependencies[a]: sequence of agents whose results a takes in
  Specs,            \* Specs[a]: what a may ask, a set of InvocationSpec records
  HandlerResults,   \* what the handler may return
  MaxClients,       \* kMaxConcurrentInvocationClients
  MaxOutput,        \* config_.max_agent_output_bytes
  Backlog,          \* the second argument of listen
  ServerPid         \* getpid of the backend

Agents == 1 .. AgentCount
AgentOf(k) == 1 + ((k - 1) % AgentCount)
Calls == UNION {{a + n * AgentCount : n \in 0 .. RetryLimit[a]} : a \in Agents}

\* What an agent may ask (InvocationSpec, with what its task adds), and what a
\* handler may return (InvocationHandlerResult).
InvocationSpecs ==
  [parent : Nat, kind : Nat, context : Nat, priority : SignedWords, cpu : Nat, memory : Nat,
   timeout : Timeouts, target : Text, operation : Text, payload : Text]
InvocationHandlerResults ==
  [status : Nat, message : Text, context : Nat, process : SignedWords, counters : Counters,
   cacheHit : BOOLEAN, hasOutput : BOOLEAN, size : Nat, length : Nat, type : Nat, flags : Nat]

ASSUME ChannelAssumption ==
  /\ AgentCount \in Nat \ {0}
  /\ RetryLimit \in [Agents -> Nat]
  /\ MaxClients \in Nat
  /\ MaxOutput \in Nat
  /\ Backlog \in Nat \ {0}
  /\ Regions = Calls
  /\ Producers = Agents
  /\ Dependencies \in [Agents -> Seq(Agents)]
  /\ \A a \in Agents : Specs[a] \subseteq InvocationSpecs
  /\ HandlerResults \subseteq InvocationHandlerResults
  /\ ServerPid \in SignedWords

VARIABLES
  caller,         \* where execute_invocation is for each call
  request,        \* the request it has built
  requestPacket,  \* the request encoded
  told,           \* what invoke and the publication came to
  toServer,       \* the packet on its way to the server, and
  toClient,       \* the one on its way back
  thread,         \* where the server is with the connection of each call
  seen,           \* what the handler was given
  answer,         \* the response the server made of what the handler returned
  responsePacket, \* that response encoded
  server,         \* where serve and stop are
  stopAsked,      \* what external_stop returns
  backlog,        \* connections that have not been accepted
  activeClients   \* active_clients_

clientVars == <<caller, request, requestPacket, told>>
threadVars == <<thread, seen, answer, responsePacket>>
wireVars == <<toServer, toClient>>
serverVars == <<server, stopAsked, backlog, activeClients>>
channelVars == <<clientVars, threadVars, wireVars, serverVars, sharedVars>>

Open == [status |-> -1]     \* told: the call has not returned
Error == [status |-> -2]    \* told: execute_invocation failed without an answer

CallerStages == {"new", "built", "connected", "sent", "received", "done"}
ThreadStages == {"none", "queued", "receive", "handle", "respond", "send",
                 "close", "leave", "notify", "gone"}
Working == {"receive", "handle", "respond", "send", "close", "leave"}

ChannelTypeOK ==
  /\ SharedTypeOK
  /\ caller \in [Calls -> CallerStages]
  /\ thread \in [Calls -> ThreadStages]
  /\ server \in {"down", "serving", "check", "asleep", "stopped"}
  /\ stopAsked \in BOOLEAN
  /\ backlog \in Seq(Calls)
  /\ activeClients \in Nat
  /\ {request, seen} \subseteq [Calls -> InvocationRequests \cup {NoRequest}]
  /\ answer \in [Calls -> InvocationResponses \cup {NoResponse}]
  /\ told \in [Calls -> InvocationResponses \cup {Open, Error}]
  /\ {requestPacket, responsePacket, toServer, toClient} \subseteq [Calls -> Seq(Int)]

ServerEndOpen(k) == thread[k] \in {"queued"} \cup (Working \ {"leave"})
ClientEndOpen(k) == caller[k] \in {"connected", "sent"}
Succeeded(k) == told[k].status = OK

-----------------------------------------------------------------------------
(* The caller *)

\* An attempt begins when the one before has failed and the dependencies are
\* completed; the result of an earlier attempt is erased.
MayBegin(k) ==
  /\ caller[k] = "new"
  /\ k > AgentCount =>
       /\ caller[k - AgentCount] = "done"
       /\ ~Succeeded(k - AgentCount)
  /\ \A i \in DOMAIN Dependencies[AgentOf(k)] :
       \E j \in Calls : AgentOf(j) = Dependencies[AgentOf(k)][i] /\ Succeeded(j)

\* The dependencies that have a result, in the order of the list.
Attached(a) ==
  LET from == {i \in DOMAIN Dependencies[a] : store[Dependencies[a][i]] # NoRegion}
      nth(n) == CHOOSE i \in from : Cardinality({j \in from : j <= i}) = n
  IN  [n \in 1 .. Cardinality(from) |-> Dependencies[a][nth(n)]]

\* The reference in the store: the length that was kept, at least one word of
\* memory, sealed.
StoredReference(d) ==
  LET out == told[store[d]].output
      over == MaxOutput > 0 /\ out.length > MaxOutput
      length == IF over THEN MaxOutput ELSE out.length
      cut == IF over THEN WithFlag(out.flags, Truncated) ELSE out.flags
  IN  [out EXCEPT !.size = IF length = 0 THEN 1 ELSE length,
                  !.length = length,
                  !.flags = WithFlag(cut, Immutable)]

BuildRequest(a, spec) ==
  LET from == Attached(a)
  IN  [agent |-> a, parent |-> spec.parent, kind |-> spec.kind, context |-> spec.context,
       priority |-> spec.priority, cpu |-> spec.cpu, memory |-> spec.memory,
       timeout |-> spec.timeout, target |-> spec.target, operation |-> spec.operation,
       payload |-> spec.payload,
       inputs |-> [i \in DOMAIN from |-> [producer |-> from[i],
                                          reference |-> StoredReference(from[i])]]]

Begin(k, spec) ==
  LET a == AgentOf(k)
      inputs == {Attached(a)[i] : i \in DOMAIN Attached(a)}
  IN  /\ MayBegin(k)
      /\ caller' = [caller EXCEPT ![k] = "built"]
      /\ \E r \in {BuildRequest(a, spec)} :
           /\ request' = [request EXCEPT ![k] = r]
           /\ requestPacket' = [requestPacket EXCEPT ![k] = EncodeRequest(r)]
      /\ EraseAndAcquire(a, inputs, k)
      /\ UNCHANGED <<told, wireVars, threadVars, serverVars>>

\* The mutant forgets the inputs.
FailCallKeepingInputs(k) ==
  /\ caller' = [caller EXCEPT ![k] = "done"]
  /\ told' = [told EXCEPT ![k] = Error]
  /\ toClient' = [toClient EXCEPT ![k] = NoPacket]
  /\ Exchange(Holds({"client"}, k)
                \cup (IF toClient[k] = NoPacket THEN {} ELSE As("wire", k, {k})), {})
  /\ UNCHANGED <<request, requestPacket, toServer, threadVars, serverVars, store>>

\* Every way out of invoke that returns false: the socket is closed, which
\* drops what is still on the way to the client, and the inputs are let go.
FailCall(k) ==
  /\ caller' = [caller EXCEPT ![k] = "done"]
  /\ told' = [told EXCEPT ![k] = Error]
  /\ toClient' = [toClient EXCEPT ![k] = NoPacket]
  /\ Exchange(Holds({"dup", "client"}, k)
                \cup (IF toClient[k] = NoPacket THEN {} ELSE As("wire", k, {k})), {})
  /\ UNCHANGED <<request, requestPacket, toServer, threadVars, serverVars, store>>

EncodeFails(k) == caller[k] = "built" /\ requestPacket[k] = NoPacket /\ FailCall(k)

Connect(k) ==
  /\ caller[k] = "built"
  /\ requestPacket[k] # NoPacket
  /\ server = "serving"
  /\ Len(backlog) < Backlog
  /\ caller' = [caller EXCEPT ![k] = "connected"]
  /\ thread' = [thread EXCEPT ![k] = "queued"]
  /\ backlog' = Append(backlog, k)
  /\ UNCHANGED <<request, requestPacket, told, wireVars, seen, answer, responsePacket, server, stopAsked, activeClients,
                 sharedVars>>

ConnectFails(k) ==
  caller[k] = "built" /\ requestPacket[k] # NoPacket /\ server # "serving" /\ FailCall(k)

\* send_packet: the descriptors of the inputs travel with the packet.
SendRequest(k) ==
  /\ caller[k] = "connected"
  /\ ServerEndOpen(k)
  /\ caller' = [caller EXCEPT ![k] = "sent"]
  /\ toServer' = [toServer EXCEPT ![k] = requestPacket[k]]
  /\ Exchange({}, As("wire", k, HeldAs("dup", k)))
  /\ UNCHANGED <<request, requestPacket, told, toClient, threadVars, serverVars, store>>

SendRequestFails(k) == caller[k] = "connected" /\ ~ServerEndOpen(k) /\ FailCall(k)

\* wait_for_response: cancelled or past the deadline, whatever has arrived.
GiveUp(k) == caller[k] = "sent" /\ FailCall(k)

Disconnected(k) ==
  caller[k] = "sent" /\ toClient[k] = NoPacket /\ ~ServerEndOpen(k) /\ FailCall(k)

\* The response as the caller reads it; the packet stays in its buffer.
Received(k) == DecodeResponse(toClient[k])

\* receive_packet, decode_invocation_response and map_existing.
ReceiveResponse(k) ==
  /\ caller[k] = "sent"
  /\ toClient[k] # NoPacket
  /\ \E response \in {Received(k)} :
       /\ response.agent = request[k].agent
       /\ ExchangeWritable(As("wire", k, {k}),
                           IF response.outputAvailable
                           THEN As("client", k, {response.output.region}) ELSE {})
  /\ caller' = [caller EXCEPT ![k] = "received"]
  /\ UNCHANGED <<request, requestPacket, told, wireVars, threadVars, serverVars, store>>

\* The response cannot be decoded or mapped, or is another agent's.
ReceiveResponseFails(k) == caller[k] = "sent" /\ toClient[k] # NoPacket /\ FailCall(k)

\* What is left of execute_invocation once invoke has returned true.
Conclude(k, outcome) ==
  /\ caller' = [caller EXCEPT ![k] = "done"]
  /\ told' = [told EXCEPT ![k] = outcome]
  /\ toClient' = [toClient EXCEPT ![k] = NoPacket]
  /\ UNCHANGED <<request, requestPacket, toServer, threadVars, serverVars>>

ConcludeWithoutOutput(k) ==
  /\ caller[k] = "received"
  /\ Received(k).status # OK \/ ~Received(k).outputAvailable
  /\ Exchange(Holds({"dup", "client"}, k), {})
  /\ UNCHANGED store
  /\ Conclude(k, Received(k))

\* publish: resize, seal, insert.
ConcludeWithOutput(k) ==
  /\ caller[k] = "received"
  /\ Received(k).status = OK
  /\ Received(k).outputAvailable
  /\ Received(k).output.offset = 0
  /\ PublishRegion(AgentOf(k), Received(k).output.region, k, Holds({"dup"}, k))
  /\ Conclude(k, Received(k))

\* The resize or the mapping fails, or the region cannot be sealed.
PublishFails(k) ==
  /\ caller[k] = "received"
  /\ Received(k).status = OK
  /\ Received(k).outputAvailable
  /\ Exchange(Holds({"dup", "client"}, k), {})
  /\ UNCHANGED store
  /\ Conclude(k, Error)

\* release_result: a client of the runtime gives the result of an agent up.
ReleaseResult(a) ==
  /\ EraseResult(a)
  /\ UNCHANGED <<clientVars, wireVars, threadVars, serverVars>>

-----------------------------------------------------------------------------
(* The threads of the server *)

\* handle_client is about to return without having sent a response.
LeaveHandler(k) ==
  /\ thread' = [thread EXCEPT ![k] = "close"]
  /\ UNCHANGED memoryVars

\* The packet has been read, and the descriptors that came with it.
TakePacket(k) == toServer' = [toServer EXCEPT ![k] = NoPacket]

\* receive_packet, decode_invocation_request and the mapping of the inputs: a
\* descriptor has come for each attachment, two for a dependency listed twice.
ReceiveRequest(k) ==
  /\ thread[k] = "receive"
  /\ toServer[k] # NoPacket
  /\ \E r \in {DecodeRequest(toServer[k])} :
       /\ r # NoRequest
       /\ Len(request[k].inputs) = Len(r.inputs)
       /\ seen' = [seen EXCEPT ![k] = r]
  /\ TakePacket(k)
  /\ thread' = [thread EXCEPT ![k] = "handle"]
  /\ Exchange(Holds({"wire"}, k), As("view", k, HeldAs("wire", k)))
  /\ UNCHANGED <<answer, responsePacket, toClient, clientVars, serverVars, store>>

\* The peer is gone, the packet is refused, or an input cannot be mapped.
ReceiveRequestFails(k) ==
  /\ thread[k] = "receive"
  /\ toServer[k] # NoPacket \/ caller[k] = "done"
  /\ TakePacket(k)
  /\ thread' = [thread EXCEPT ![k] = "close"]
  /\ Exchange(Holds({"wire"}, k), {})
  /\ UNCHANGED <<seen, answer, responsePacket, toClient, clientVars, serverVars, store>>

\* What handle_client makes of the result: an output that does not fit its
\* region, or a length without an output, turns the answer into a failure.
Response(k, result) ==
  LET fits == result.hasOutput /\ result.length <= result.size
      bad == IF result.hasOutput THEN ~fits ELSE result.length # 0
  IN  [agent |-> seen[k].agent,
       process |-> IF result.process >= 0 THEN result.process ELSE ServerPid,
       status |-> IF bad THEN Failed ELSE result.status,
       message |-> IF bad THEN <<>> ELSE result.message,
       context |-> result.context,
       counters |-> result.counters,
       cacheHit |-> result.cacheHit,
       outputAvailable |-> fits,
       output |-> IF fits
                  THEN [region |-> k, size |-> result.size, offset |-> 0,
                        length |-> result.length, type |-> result.type,
                        flags |-> WithoutFlag(result.flags, Immutable), version |-> 1]
                  ELSE NoReference]

\* The handler runs and returns; it may notice that its caller has hung up.
Handle(k, result) ==
  /\ thread[k] = "handle"
  /\ result.status = Cancelled => ~ClientEndOpen(k)
  /\ \E r \in {Response(k, result)} :
       /\ answer' = [answer EXCEPT ![k] = r]
       /\ responsePacket' = [responsePacket EXCEPT ![k] = EncodeResponse(r)]
  /\ thread' = [thread EXCEPT ![k] = "respond"]
  /\ ExchangeWritable({}, IF result.hasOutput THEN As("server", k, {k}) ELSE {})
  /\ UNCHANGED <<seen, wireVars, clientVars, serverVars, store>>

\* The caller is told nothing although the handler has run.
EncodeResponseFails(k) ==
  /\ thread[k] = "respond"
  /\ responsePacket[k] = NoPacket
  /\ LeaveHandler(k)
  /\ UNCHANGED <<seen, answer, responsePacket, wireVars, clientVars, serverVars, store>>

\* The mutant keeps the mapping.
ReleaseOutputMapped(k) ==
  /\ thread[k] = "respond"
  /\ responsePacket[k] # NoPacket
  /\ thread' = [thread EXCEPT ![k] = "send"]
  /\ UNCHANGED <<seen, answer, responsePacket, wireVars, clientVars, serverVars, sharedVars>>

\* release_descriptor takes the writable mapping away before the packet leaves.
ReleaseOutput(k) ==
  /\ thread[k] = "respond"
  /\ responsePacket[k] # NoPacket
  /\ thread' = [thread EXCEPT ![k] = "send"]
  /\ Unmap(Holds({"server"}, k))
  /\ UNCHANGED <<seen, answer, responsePacket, wireVars, clientVars, serverVars, store>>

SendResponse(k) ==
  /\ thread[k] = "send"
  /\ ClientEndOpen(k)
  /\ toClient' = [toClient EXCEPT ![k] = responsePacket[k]]
  /\ thread' = [thread EXCEPT ![k] = "close"]
  /\ Exchange({}, IF answer[k].outputAvailable THEN As("wire", k, {k}) ELSE {})
  /\ UNCHANGED <<seen, answer, responsePacket, toServer, clientVars, serverVars, store>>

SendResponseFails(k) ==
  /\ thread[k] = "send"
  /\ ~ClientEndOpen(k)
  /\ LeaveHandler(k)
  /\ UNCHANGED <<seen, answer, responsePacket, wireVars, clientVars, serverVars, store>>

\* What handle_client still holds goes when it returns; then close(client),
\* then the counter, then the condition variable.
CloseClient(k) ==
  /\ thread[k] = "close"
  /\ thread' = [thread EXCEPT ![k] = "leave"]
  /\ Exchange(Holds({"view", "server"}, k), {})
  /\ UNCHANGED <<seen, answer, responsePacket, wireVars, clientVars, serverVars, store>>

CountDown(k) ==
  /\ thread[k] = "leave"
  /\ thread' = [thread EXCEPT ![k] = "notify"]
  /\ activeClients' = activeClients - 1
  /\ UNCHANGED <<seen, answer, responsePacket, wireVars, clientVars, server, stopAsked, backlog, sharedVars>>

\* The mutant leaves the sleeping stop alone.
NotifyNobody(k) ==
  /\ thread[k] = "notify"
  /\ thread' = [thread EXCEPT ![k] = "gone"]
  /\ UNCHANGED <<seen, answer, responsePacket, wireVars, clientVars, serverVars, sharedVars>>

NotifyStop(k) ==
  /\ thread[k] = "notify"
  /\ thread' = [thread EXCEPT ![k] = "gone"]
  /\ server' = IF server = "asleep" THEN "check" ELSE server
  /\ UNCHANGED <<seen, answer, responsePacket, wireVars, clientVars, stopAsked, backlog, activeClients,
                 sharedVars>>

-----------------------------------------------------------------------------
(* serve and stop *)

StartServer ==
  /\ server = "down"
  /\ server' = "serving"
  /\ UNCHANGED <<stopAsked, backlog, activeClients, clientVars, threadVars, wireVars, sharedVars>>

AskStop ==
  /\ ~stopAsked
  /\ stopAsked' = TRUE
  /\ UNCHANGED <<server, backlog, activeClients, clientVars, threadVars, wireVars, sharedVars>>

\* The server ends of some connections are closed with what they hold.
Hangup(ks) ==
  /\ thread' = [k \in Calls |-> IF k \in ks THEN "gone" ELSE thread[k]]
  /\ toServer' = [k \in Calls |-> IF k \in ks THEN NoPacket ELSE toServer[k]]
  /\ Exchange({"wire"} \X ks \X Regions, {})

Accept ==
  LET k == Head(backlog)
  IN  /\ server = "serving"
      /\ ~stopAsked
      /\ backlog # <<>>
      /\ activeClients < MaxClients
      /\ backlog' = Tail(backlog)
      /\ activeClients' = activeClients + 1
      /\ thread' = [thread EXCEPT ![k] = "receive"]
      /\ UNCHANGED <<seen, answer, responsePacket, server, stopAsked, clientVars, wireVars, sharedVars>>

\* Too many clients, or the thread cannot be made: the connection is closed.
TurnAway ==
  /\ server = "serving"
  /\ ~stopAsked
  /\ backlog # <<>>
  /\ backlog' = Tail(backlog)
  /\ Hangup({Head(backlog)})
  /\ UNCHANGED <<seen, answer, responsePacket, server, stopAsked, activeClients, clientVars, toClient, store>>

\* The loop of serve ends and stop closes the listener.
CloseListener ==
  /\ server = "serving"
  /\ stopAsked
  /\ server' = "check"
  /\ backlog' = <<>>
  /\ Hangup({backlog[i] : i \in DOMAIN backlog})
  /\ UNCHANGED <<seen, answer, responsePacket, stopAsked, activeClients, clientVars, toClient, store>>

\* The mutant takes any wake-up for the end of the last client.
WaitForOneClient ==
  /\ server = "check"
  /\ \/ activeClients > 0 /\ (\A k \in Calls : thread[k] # "gone") /\ server' = "asleep"
     \/ (activeClients = 0 \/ \E k \in Calls : thread[k] = "gone") /\ server' = "stopped"
  /\ UNCHANGED <<stopAsked, backlog, activeClients, clientVars, threadVars, wireVars, sharedVars>>

\* clients_cv_.wait: the predicate is evaluated before every sleep.
WaitForClients ==
  /\ server = "check"
  /\ server' = IF activeClients = 0 THEN "stopped" ELSE "asleep"
  /\ UNCHANGED <<stopAsked, backlog, activeClients, clientVars, threadVars, wireVars, sharedVars>>

-----------------------------------------------------------------------------
ChannelInit ==
  /\ caller = [k \in Calls |-> "new"]
  /\ request = [k \in Calls |-> NoRequest]
  /\ requestPacket = [k \in Calls |-> NoPacket]
  /\ responsePacket = [k \in Calls |-> NoPacket]
  /\ told = [k \in Calls |-> Open]
  /\ toServer = [k \in Calls |-> NoPacket]
  /\ toClient = [k \in Calls |-> NoPacket]
  /\ thread = [k \in Calls |-> "none"]
  /\ seen = [k \in Calls |-> NoRequest]
  /\ answer = [k \in Calls |-> NoResponse]
  /\ server = "down"
  /\ stopAsked = FALSE
  /\ backlog = <<>>
  /\ activeClients = 0
  /\ SharedInit

\* What the code does once it is under way, whatever the environment decides.
CallerStep(k) ==
  \/ EncodeFails(k) \/ Connect(k) \/ ConnectFails(k)
  \/ SendRequest(k) \/ SendRequestFails(k) \/ Disconnected(k)
  \/ ReceiveResponse(k) \/ ReceiveResponseFails(k)
  \/ ConcludeWithoutOutput(k) \/ ConcludeWithOutput(k) \/ PublishFails(k)

ThreadStep(k) ==
  \/ ReceiveRequest(k) \/ ReceiveRequestFails(k)
  \/ \E result \in HandlerResults : Handle(k, result)
  \/ EncodeResponseFails(k) \/ ReleaseOutput(k)
  \/ SendResponse(k) \/ SendResponseFails(k)
  \/ CloseClient(k) \/ CountDown(k) \/ NotifyStop(k)

ServeStep == Accept \/ TurnAway \/ CloseListener \/ WaitForClients

CodeStep == ServeStep \/ \E k \in Calls : CallerStep(k) \/ ThreadStep(k)

ChannelNext ==
  \/ CodeStep
  \/ \E k \in Calls : \E spec \in Specs[AgentOf(k)] : Begin(k, spec)
  \/ \E k \in Calls : GiveUp(k)
  \/ \E a \in Agents : ReleaseResult(a)
  \/ StartServer
  \/ AskStop

\* The processes do not stop while one of their threads can go on; handlers
\* return.  No thread repeats a step, so that this is all the fairness needed.
ChannelFairness == WF_channelVars(CodeStep)

ChannelSpec == ChannelInit /\ [][ChannelNext]_channelVars /\ ChannelFairness

-----------------------------------------------------------------------------
Remote == INSTANCE RemoteCall WITH
  Attempts <- Calls, Nothing <- NoRequest, Untold <- Open, Failure <- Error,
  asked <- request, answered <- told,
  executed <- [k \in Calls |-> IF answer[k] = NoResponse THEN NoRequest
                                ELSE [request |-> seen[k], reply |-> answer[k]]]

\* Every call is executed at most once, with exactly the request its caller
\* built, and a caller is told an answer only if it is the one the handler
\* gave to this call: encoding, decoding, attempts that time out, retries and
\* late answers never mix two calls.
ImplementsRemoteCall == Remote!CallSpec

\* A published result is sealed and nobody can write to it; and whenever the
\* runtime is about to seal an output, the backend has already unmapped it.
ResultsImmutable ==
  /\ \A a \in Agents : store[a] # NoRegion =>
       store[a] \in sealed /\ \A h \in writable : h[3] # store[a]
  /\ \A k \in Calls : caller[k] = "received" /\ Received(k).outputAvailable =>
       Sealable(Received(k).output.region, k)

\* No descriptor and no mapping outlives its use: what a finished call and a
\* finished connection still hold is the published result, however they ended.
NothingLeaks ==
  \A h \in held :
    \/ h[1] = "store" /\ h[2] = h[3] /\ store[AgentOf(h[2])] = h[3]
    \/ caller[h[2]] # "done"
    \/ ServerEndOpen(h[2])

\* active_clients_ is the number of connections being served, at most the
\* limit, and stop has waited for all of them: it returns when no handler
\* runs, nothing is mapped and every connection is closed.
StopWaits ==
  /\ activeClients = Cardinality({k \in Calls : thread[k] \in Working})
  /\ activeClients <= MaxClients
  /\ server = "stopped" => \A k \in Calls : ~ServerEndOpen(k)

\* A call that has begun comes to an end, also without a deadline and also
\* when the server stops, turns it away or drops its answer; and a server
\* that is asked to stop does stop.
CallsReturn ==
  /\ \A k \in Calls : caller[k] = "built" ~> caller[k] = "done"
  /\ (server = "serving" /\ stopAsked) ~> server = "stopped"
-----------------------------------------------------------------------------
(* The inductive invariant behind the three invariants and the refinement. *)

\* How far the two sides of call k can be apart, and what each has in hand.
CallExact(k) ==
  /\ caller[k] = "new" <=> request[k] = NoRequest
  /\ caller[k] # "new" => request[k].agent = AgentOf(k) /\ requestPacket[k] = EncodeRequest(request[k])
  /\ caller[k] # "done" => told[k] = Open
  /\ caller[k] \in {"new", "built"} => thread[k] = "none"
  /\ caller[k] = "connected" => thread[k] \in {"queued", "receive", "gone"}
  /\ caller[k] \in {"connected", "sent", "received"} => requestPacket[k] # NoPacket
  /\ toServer[k] # NoPacket =>
       /\ toServer[k] = requestPacket[k]
       /\ thread[k] \in {"queued", "receive"}
       /\ caller[k] \in {"sent", "done"}
  /\ thread[k] \in {"handle", "respond", "send"} => seen[k] = request[k] /\ caller[k] \in {"sent", "done"}
  /\ thread[k] \in {"none", "queued", "receive", "handle"} => answer[k] = NoResponse
  /\ thread[k] \in {"respond", "send"} => answer[k] # NoResponse
  /\ thread[k] = "send" => responsePacket[k] # NoPacket
  /\ toClient[k] # NoPacket =>
       /\ answer[k] # NoResponse
       /\ toClient[k] = responsePacket[k]
       /\ caller[k] \in {"sent", "received"}
       /\ thread[k] \in {"close", "leave", "notify", "gone"}
  /\ caller[k] = "received" => toClient[k] # NoPacket

\* The answer of the handler, with its output in the region of this call.
AnswerExact(k) ==
  answer[k] # NoResponse =>
    /\ answer[k].agent = AgentOf(k)
    /\ responsePacket[k] = EncodeResponse(answer[k])
    /\ answer[k].outputAvailable \/ answer[k].output = NoReference
    /\ answer[k].outputAvailable => answer[k].output.region = k

\* A result is the output of a call of its agent that has succeeded.
StoreExact ==
  \A a \in Agents : store[a] # NoRegion =>
    /\ AgentOf(store[a]) = a
    /\ caller[store[a]] = "done"
    /\ told[store[a]] \in InvocationResponses
    /\ store[a] \in sealed

\* When each role holds a region, and which.
HoldExact(role, k, r) ==
  \/ role = "dup" /\ caller[k] \in {"built", "connected", "sent", "received"}
  \/ role = "client" /\ r = k /\ caller[k] = "received"
  \/ role = "wire" /\ thread[k] \in {"queued", "receive"}
  \/ role = "wire" /\ r = k /\ toClient[k] # NoPacket /\ caller[k] = "sent"
  \/ role = "view" /\ thread[k] \in {"handle", "respond", "send", "close"}
  \/ role = "server" /\ r = k /\ thread[k] \in {"respond", "send", "close"}
  \/ role = "store" /\ r = k /\ store[AgentOf(k)] = r

HeldExact == \A role \in Roles, k \in Calls, r \in Regions : <<role, k, r>> \in held => HoldExact(role, k, r)

\* Only a handler's output and a client's copy of it are mapped for writing,
\* the former until the response leaves.
MayWrite(role, k) ==
  \/ role = "client"
  \/ role = "server" /\ thread[k] = "respond"
  \/ role = "server" /\ thread[k] = "close" /\ responsePacket[k] = NoPacket

WritableExact == \A role \in Roles, k \in Calls, r \in Regions : <<role, k, r>> \in writable => MayWrite(role, k)

SealedExact ==
  \A k \in sealed :
    /\ caller[k] = "done"
    /\ thread[k] \in {"close", "leave", "notify", "gone"}
    /\ responsePacket[k] # NoPacket

\* The backlog is the connections that wait to be accepted, each once, and
\* there is one only while the server serves.
BacklogExact ==
  /\ \A i, j \in DOMAIN backlog : backlog[i] = backlog[j] => i = j
  /\ \A k \in Calls : thread[k] = "queued" <=> \E i \in DOMAIN backlog : backlog[i] = k
  /\ server # "serving" => backlog = <<>>
  /\ server = "stopped" => activeClients = 0

ClientsCounted ==
  /\ activeClients = Cardinality({k \in Calls : thread[k] \in Working})
  /\ activeClients <= MaxClients

ChannelInv ==
  /\ ChannelTypeOK
  /\ \A k \in Calls : CallExact(k) /\ AnswerExact(k)
  /\ StoreExact
  /\ HeldExact
  /\ WritableExact
  /\ SealedExact
  /\ BacklogExact
  /\ ClientsCounted
=============================================================================
