---------------------------- MODULE ControlDaemon ----------------------------
(***************************************************************************)
(* agentd and its clients: AgentDaemon and ControlClient of                 *)
(* control_channel.cpp.  Several daemons may be started on one socket path, *)
(* at the same time or one after the other, and each may crash; a crash     *)
(* leaves the path behind.  A daemon serves one connection after the other. *)
(*                                                                          *)
(* The runtime behind a daemon is AgentRuntime; here it is a table of       *)
(* agents, each executed in one step, and of results.  Every process has    *)
(* the same user and nothing but sockets is found at the path.              *)
(***************************************************************************)
EXTENDS ControlProtocol, FiniteSets

CONSTANTS
  Daemons,        \* processes; each is started at most once
  Nobody,         \* no socket at the path, no connection
  CallCount,      \* calls of ControlClient are 1 .. CallCount
  Requests,       \* Requests[k]: what call k may ask
  Foreign,        \* calls that may come from a program other than this client
  AgentIds,       \* ids of agents, without 0
  ControlBacklog, \* the second argument of listen
  LongError       \* the error of a failed agent

Calls == 1 .. CallCount
Connections == Calls \cup Daemons     \* a daemon connects once, to probe

ASSUME DaemonAssumption ==
  /\ Nobody \notin Connections /\ Calls \cap Daemons = {}
  /\ CallCount \in Nat
  /\ \A k \in Calls : Requests[k] \subseteq ControlRequests
  /\ Foreign \subseteq Calls
  /\ IsFiniteSet(AgentIds) /\ AgentIds \subseteq Nat \ {0}
  /\ ControlBacklog \in Nat \ {0}
  /\ LongError \in Text
  /\ WordRange >= 2

VARIABLES
  path,           \* the daemon whose socket is at the path
  phase,          \* where start, serve and stop are
  running,        \* running_, and what external_stop says
  backlog,          \* connections that have not been accepted
  current,        \* the connection of handle_client
  nodes,          \* the agents of each runtime: their snapshots
  results,        \* the agents with a published result
  call,           \* where exchange is for each call
  asked,          \* what it asks
  requestPacket,  \* the request encoded
  toDaemon,       \* the packet on its way to the daemon, and
  toCaller,       \* the one on its way back
  attached,       \* calls that send a descriptor with their packet
  seen,           \* what was dispatched
  answer,         \* the response to it
  responsePacket, \* that response encoded
  told,           \* what exchange returned
  overlap         \* history: has a start met another start or a stop?

daemonVars == <<path, phase, running, backlog, current, overlap>>
runtimeVars == <<nodes, results>>
callVars == <<call, asked, requestPacket, told, attached>>
controlWire == <<toDaemon, toCaller>>
servedVars == <<seen, answer, responsePacket>>
controlVars == <<daemonVars, runtimeVars, callVars, controlWire, servedVars>>

Untold == [success |-> "open"]
Failure == [success |-> "failure"]
NoNode == [state |-> -1]

\* AgentState
WaitingDependency == 1
Ready == 2
Completed == 8
Failed == 9
Cancelled == 10
Terminal == {Completed, Failed, Cancelled}

Starting == {"lstat", "probe", "unlink", "bind", "listen"}
Serving == {"poll", "receive", "reply"}
Stopping == {"close", "remove", "join"}
Phases == {"off", "down"} \cup Starting \cup Serving \cup Stopping

ControlTypeOK ==
  /\ path \in Daemons \cup {Nobody}
  /\ phase \in [Daemons -> Phases]
  /\ running \in [Daemons -> BOOLEAN]
  /\ backlog \in [Daemons -> Seq(Connections)]
  /\ current \in [Daemons -> Connections \cup {Nobody}]
  /\ results \in [Daemons -> SUBSET AgentIds]
  /\ call \in [Calls -> {"new", "built", "connected", "sent", "done"}]
  /\ attached \subseteq Calls
  /\ overlap \in BOOLEAN

SomeStarting == \E d \in Daemons : phase[d] \in Starting
Changing(d) ==
  \/ phase[d] \in Starting \cup Stopping
  \/ phase[d] \in Serving /\ ~running[d]
Listening(d) == phase[d] \in Serving \cup {"close"}
CallerOpen(c) == c \in Calls /\ call[c] \in {"connected", "sent"}
\* The daemon's end of the connection of call k.
DaemonOpen(k) ==
  \E d \in Daemons : current[d] = k \/ \E i \in DOMAIN backlog[d] : backlog[d][i] = k

-----------------------------------------------------------------------------
(* AgentDaemon::start and open_socket *)

Goto(d, s) == phase' = [phase EXCEPT ![d] = s]

\* start has failed: the runtime is stopped again and agentd exits.
GiveUpStart(d) ==
  /\ Goto(d, "down")
  /\ running' = [running EXCEPT ![d] = FALSE]
  /\ UNCHANGED <<current, overlap, runtimeVars, callVars, controlWire, servedVars>>

StartDaemon(d) ==
  /\ phase[d] = "off"
  /\ Goto(d, "lstat")
  /\ running' = [running EXCEPT ![d] = TRUE]
  /\ overlap' = (overlap \/ \E e \in Daemons : Changing(e))
  /\ UNCHANGED <<path, backlog, current, runtimeVars, callVars, controlWire, servedVars>>

StartStep(d, from, to) ==
  /\ phase[d] = from
  /\ Goto(d, to)
  /\ UNCHANGED <<running, current, overlap, runtimeVars, callVars, controlWire, servedVars>>

FindNoPath(d) == path = Nobody /\ StartStep(d, "lstat", "bind") /\ UNCHANGED <<path, backlog>>
FindPath(d) == path # Nobody /\ StartStep(d, "lstat", "probe") /\ UNCHANGED <<path, backlog>>

\* Somebody accepts connections: the probe is one of them, and is closed.
ProbeAnswered(d) ==
  /\ phase[d] = "probe"
  /\ path # Nobody
  /\ Listening(path)
  /\ Len(backlog[path]) < ControlBacklog
  /\ backlog' = [backlog EXCEPT ![path] = Append(@, d)]
  /\ UNCHANGED path
  /\ GiveUpStart(d)

\* The mutant takes every socket it finds for a stale one.
ProbeRefusedAlways(d) == StartStep(d, "probe", "unlink") /\ UNCHANGED <<path, backlog>>

\* ECONNREFUSED, or ENOENT if the path has gone in the meantime.
ProbeRefused(d) ==
  /\ path # Nobody => ~Listening(path)
  /\ StartStep(d, "probe", "unlink")
  /\ UNCHANGED <<path, backlog>>

UnlinkStale(d) ==
  path # Nobody /\ StartStep(d, "unlink", "bind") /\ path' = Nobody /\ UNCHANGED backlog

UnlinkFails(d) == phase[d] = "unlink" /\ path = Nobody /\ GiveUpStart(d) /\ UNCHANGED <<path, backlog>>

Bind(d) == path = Nobody /\ StartStep(d, "bind", "listen") /\ path' = d /\ UNCHANGED backlog

BindFails(d) == phase[d] = "bind" /\ path # Nobody /\ GiveUpStart(d) /\ UNCHANGED <<path, backlog>>

\* chmod of whatever is at the path, then listen.
Listen(d) == path # Nobody /\ StartStep(d, "listen", "poll") /\ UNCHANGED <<path, backlog>>

ListenFails(d) == phase[d] = "listen" /\ path = Nobody /\ GiveUpStart(d) /\ UNCHANGED <<path, backlog>>

-----------------------------------------------------------------------------
(* ControlClient::exchange *)

Begin(k, request) ==
  /\ call[k] = "new"
  /\ \A j \in 1 .. k - 1 : call[j] # "new"
  /\ call' = [call EXCEPT ![k] = "built"]
  /\ asked' = [asked EXCEPT ![k] = request]
  /\ requestPacket' = [requestPacket EXCEPT ![k] = EncodeControlRequest(request)]
  /\ UNCHANGED <<told, attached, daemonVars, runtimeVars, controlWire, servedVars>>

\* exchange returns: the socket is closed with what it holds.
Return(k, response) ==
  /\ call' = [call EXCEPT ![k] = "done"]
  /\ told' = [told EXCEPT ![k] = response]
  /\ toCaller' = [toCaller EXCEPT ![k] = NoPacket]
  /\ UNCHANGED <<asked, requestPacket, attached, toDaemon, daemonVars, runtimeVars, servedVars>>

EncodeFails(k) == call[k] = "built" /\ requestPacket[k] = NoPacket /\ Return(k, Failure)

Connect(k) ==
  /\ call[k] = "built"
  /\ requestPacket[k] # NoPacket
  /\ path # Nobody
  /\ Listening(path)
  /\ Len(backlog[path]) < ControlBacklog
  /\ call' = [call EXCEPT ![k] = "connected"]
  /\ backlog' = [backlog EXCEPT ![path] = Append(@, k)]
  /\ UNCHANGED <<path, phase, running, current, overlap, asked, requestPacket, told, attached,
                 runtimeVars, controlWire, servedVars>>

\* No path, nobody listens, or the backlog stays full for five seconds.
ConnectFails(k) ==
  /\ call[k] = "built"
  /\ requestPacket[k] # NoPacket
  /\ \/ path = Nobody
     \/ path # Nobody /\ (~Listening(path) \/ Len(backlog[path]) >= ControlBacklog)
  /\ Return(k, Failure)

Post(k, packet) ==
  /\ call[k] = "connected"
  /\ DaemonOpen(k)
  /\ call' = [call EXCEPT ![k] = "sent"]
  /\ toDaemon' = [toDaemon EXCEPT ![k] = packet]
  /\ UNCHANGED <<asked, requestPacket, told, toCaller, daemonVars, runtimeVars, servedVars>>

SendRequest(k) == Post(k, requestPacket[k]) /\ UNCHANGED attached

\* Another program sends another version of the protocol, or a descriptor.
SendOtherVersion(k) ==
  /\ k \in Foreign
  /\ Post(k, [requestPacket[k] EXCEPT ![2] = ControlVersion + 1])
  /\ UNCHANGED attached

SendDescriptor(k) ==
  /\ k \in Foreign
  /\ Post(k, requestPacket[k])
  /\ attached' = attached \cup {k}

SendFails(k) == call[k] = "connected" /\ ~DaemonOpen(k) /\ Return(k, Failure)

Receive(k) ==
  /\ call[k] = "sent"
  /\ toCaller[k] # NoPacket
  /\ \E response \in {DecodeControlResponse(toCaller[k])} :
       Return(k, IF response = NoControlResponse THEN Failure ELSE response)

\* The daemon has closed the connection.
ReceiveFails(k) ==
  call[k] = "sent" /\ toCaller[k] = NoPacket /\ ~DaemonOpen(k) /\ Return(k, Failure)

\* SO_RCVTIMEO: five seconds without an answer.  The request is still queued.
ReceiveTimesOut(k) == call[k] = "sent" /\ toCaller[k] = NoPacket /\ Return(k, Failure)

-----------------------------------------------------------------------------
(* dispatch *)

Exists(d, id) == id \in AgentIds /\ nodes[d][id] # NoNode

\* What submit_batch_locked of the scheduler asks of a single task.
Admissible(d, task) ==
  /\ task.id \in AgentIds /\ ~Exists(d, task.id)
  /\ \A i \in DOMAIN task.dependencies : Exists(d, task.dependencies[i])

Succeeds(d, r) ==
  CASE r.operation = Submit -> Admissible(d, r.task)
    [] r.operation = Spawn -> Exists(d, r.target) /\ Admissible(d, r.task)
    [] r.operation = Status -> Exists(d, r.target)
    [] r.operation = Cancel -> Exists(d, r.target) /\ nodes[d][r.target].state \notin Terminal
    [] r.operation \in {Result, ReleaseResult} -> r.target \in results[d]
    [] OTHER -> TRUE

\* How often j depends on id.
Edges(d, id, j) == {i \in DOMAIN nodes[d][j].spec.dependencies :
                      nodes[d][j].spec.dependencies[i] = id}
Successors(d, id) == {j \in AgentIds : Exists(d, j) /\ Edges(d, id, j) # {}}
LiveSuccessors(d, id) == {j \in Successors(d, id) : nodes[d][j].state \notin Terminal}
LiveDescendants(d, id) ==
  {j \in AgentIds : \A js \in SUBSET AgentIds :
     (\A i \in {id} \cup js : LiveSuccessors(d, i) \subseteq js) => j \in js}

\* The snapshots after a submission, a completion, and an end that takes the
\* live descendants of the agent with it; the error of each names the agent it
\* was reached through, where there are several one of them.
Submitted(d, task) ==
  LET open == {i \in DOMAIN task.dependencies : nodes[d][task.dependencies[i]].state # Completed}
      node == [spec |-> task, state |-> IF open = {} THEN Ready ELSE WaitingDependency,
               process |-> -1, unresolved |-> Cardinality(open), retries |-> 0, context |-> 0,
               counters |-> <<0, 0, 0, 0, 0, 0>>, cacheHit |-> FALSE, error |-> <<>>]
  IN  [nodes[d] EXCEPT ![task.id] = node]

AfterCompletion(d, id) ==
  LET Resolved(j) == LET open == nodes[d][j].unresolved - Cardinality(Edges(d, id, j))
                     IN  [nodes[d][j] EXCEPT !.unresolved = open,
                                             !.state = IF open = 0 /\ @ = WaitingDependency
                                                       THEN Ready ELSE @]
  IN  [j \in AgentIds |-> IF j = id THEN [nodes[d][j] EXCEPT !.state = Completed]
                          ELSE IF j \in Successors(d, id) THEN Resolved(j)
                          ELSE nodes[d][j]]

AfterEnd(d, id, state, error) ==
  LET taken == LiveDescendants(d, id)
      Through(j) == CHOOSE i \in {id} \cup taken : j \in LiveSuccessors(d, i)
  IN  [j \in AgentIds |->
         IF j = id THEN [nodes[d][j] EXCEPT !.state = state, !.error = error]
         ELSE IF j \in taken
         THEN [nodes[d][j] EXCEPT !.state = Cancelled, !.error = <<Through(j)>>]
         ELSE nodes[d][j]]

NodesAfter(d, r) ==
  CASE r.operation = Submit -> Submitted(d, r.task)
    [] r.operation = Spawn -> Submitted(d, [r.task EXCEPT !.parent = r.target])
    [] r.operation = Cancel -> AfterEnd(d, r.target, Cancelled, nodes[d][r.target].error)
    [] OTHER -> nodes[d]

\* Results are published with one word of sealed memory.
ResultReference(id) ==
  [region |-> id, size |-> 1, offset |-> 0, length |-> 1, type |-> 0,
   flags |-> Immutable, version |-> 1]

\* snapshots: every agent, sorted by its id.
Listed(d) ==
  LET ids == {id \in AgentIds : Exists(d, id)}
  IN  [n \in 1 .. Cardinality(ids) |->
         CHOOSE id \in ids : Cardinality({j \in ids : j <= id}) = n]

Dispatched(d, r) ==
  LET ok == Succeeds(d, r)
      shown == CASE r.operation = Status /\ ok -> <<r.target>>
                 [] r.operation = List -> Listed(d)
                 [] OTHER -> <<>>
      fetched == r.operation = Result /\ ok
  IN  [success |-> ok,
       message |-> IF ok THEN <<>> ELSE <<r.operation>>,
       agents |-> [i \in DOMAIN shown |-> MakeControlInfo(nodes[d][shown[i]])],
       available |-> fetched,
       result |-> IF fetched THEN ResultReference(r.target) ELSE NoReference]

\* A response without success; also the fallback for one that cannot be encoded.
Refusal == [success |-> FALSE, message |-> <<0>>, agents |-> <<>>,
            available |-> FALSE, result |-> NoReference]

\* The response is encoded, or in its place one that can be.
Respond(k, response) ==
  \E packet \in {EncodeControlResponse(response)} :
    LET sent == IF packet = NoPacket THEN Refusal ELSE response
    IN  /\ answer' = [answer EXCEPT ![k] = sent]
        /\ responsePacket' = [responsePacket EXCEPT ![k] =
                                IF packet = NoPacket THEN EncodeControlResponse(Refusal) ELSE packet]

-----------------------------------------------------------------------------
(* AgentDaemon::serve and handle_client *)

Accept(d) ==
  /\ phase[d] = "poll"
  /\ running[d]
  /\ backlog[d] # <<>>
  /\ current' = [current EXCEPT ![d] = Head(backlog[d])]
  /\ backlog' = [backlog EXCEPT ![d] = Tail(@)]
  /\ Goto(d, "receive")
  /\ UNCHANGED <<path, running, overlap, runtimeVars, callVars, controlWire, servedVars>>

Arrived(d) == current[d] \in Calls /\ toDaemon[current[d]] # NoPacket

\* The mutant waits without a timeout.
RecvReturnsWithData(d) == phase[d] = "receive" /\ (Arrived(d) \/ ~CallerOpen(current[d]))

\* recvmsg returns: there is a packet, the caller is gone, or SO_RCVTIMEO has
\* passed, so that nothing is required of the caller.
RecvReturns(d) == phase[d] = "receive"

\* receive_packet, decode_control_request, dispatch and the encoding.
Handle(d) ==
  LET k == current[d]
  IN  /\ RecvReturns(d)
      /\ Goto(d, "reply")
      /\ Arrived(d)
      /\ k \notin attached
      /\ \E r \in {DecodeControlRequest(toDaemon[k])} :
           /\ r # NoControlRequest
           /\ seen' = [seen EXCEPT ![k] = r]
           /\ Respond(k, Dispatched(d, r))
           /\ nodes' = [nodes EXCEPT ![d] = IF Succeeds(d, r) THEN NodesAfter(d, r) ELSE @]
           /\ results' = [results EXCEPT ![d] =
                            IF r.operation = ReleaseResult THEN @ \ {r.target} ELSE @]
           /\ running' = [running EXCEPT ![d] = r.operation # Shutdown /\ @]
           /\ overlap' = (overlap \/ (r.operation = Shutdown /\ SomeStarting))
      /\ toDaemon' = [toDaemon EXCEPT ![k] = NoPacket]
      /\ UNCHANGED <<path, backlog, current, callVars, toCaller>>

\* A packet that is refused, a caller that is gone, or five seconds without one.
RefuseRequest(d) ==
  LET k == current[d]
  IN  /\ RecvReturns(d)
      /\ Goto(d, "reply")
      /\ Arrived(d) => k \in attached \/ DecodeControlRequest(toDaemon[k]) = NoControlRequest
      /\ toDaemon' = [j \in Calls |-> IF j = k THEN NoPacket ELSE toDaemon[j]]
      /\ IF k \in Calls THEN Respond(k, Refusal) ELSE UNCHANGED <<answer, responsePacket>>
      /\ UNCHANGED <<path, running, backlog, current, overlap, runtimeVars, callVars, toCaller, seen>>

\* send_packet, whose result is ignored, and close.
Reply(d) ==
  LET k == current[d]
  IN  /\ phase[d] = "reply"
      /\ toCaller' = [j \in Calls |->
                        IF j = k /\ CallerOpen(k) THEN responsePacket[k]
                        ELSE toCaller[j]]
      /\ toDaemon' = [j \in Calls |-> IF j = k THEN NoPacket ELSE toDaemon[j]]
      /\ current' = [current EXCEPT ![d] = Nobody]
      /\ Goto(d, "poll")
      /\ UNCHANGED <<path, running, backlog, overlap, runtimeVars, callVars, servedVars>>

\* The signal handler of agentd.
AskStop(d) ==
  /\ phase[d] \in Serving
  /\ running[d]
  /\ running' = [running EXCEPT ![d] = FALSE]
  /\ overlap' = (overlap \/ SomeStarting)
  /\ UNCHANGED <<path, phase, backlog, current, runtimeVars, callVars, controlWire, servedVars>>

LeaveLoop(d) ==
  /\ phase[d] = "poll"
  /\ ~running[d]
  /\ Goto(d, "close")
  /\ UNCHANGED <<path, running, backlog, current, overlap, runtimeVars, callVars, controlWire,
                 servedVars>>

\* The kernel closes the daemon's ends of the connections in ks.
Dropped(ks) == toDaemon' = [k \in Calls |-> IF k \in ks THEN NoPacket ELSE toDaemon[k]]
Pending(d) == {current[d]} \cup {backlog[d][i] : i \in DOMAIN backlog[d]}

\* stop: close the listener, unlink the path, stop the runtime.
CloseListener(d) ==
  /\ phase[d] = "close"
  /\ backlog' = [backlog EXCEPT ![d] = <<>>]
  /\ Dropped(Pending(d))
  /\ Goto(d, "remove")
  /\ UNCHANGED <<path, running, current, overlap, runtimeVars, callVars, toCaller, servedVars>>

RemovePath(d) ==
  /\ phase[d] = "remove"
  /\ path' = Nobody
  /\ Goto(d, "join")
  /\ UNCHANGED <<running, backlog, current, overlap, runtimeVars, callVars, controlWire, servedVars>>

StopRuntime(d) ==
  /\ phase[d] = "join"
  /\ Goto(d, "down")
  /\ UNCHANGED <<path, running, backlog, current, overlap, runtimeVars, callVars, controlWire,
                 servedVars>>

\* The process is killed.  The path stays.
Crash(d) ==
  /\ phase[d] \notin {"off", "down"}
  /\ Goto(d, "down")
  /\ running' = [running EXCEPT ![d] = FALSE]
  /\ backlog' = [backlog EXCEPT ![d] = <<>>]
  /\ current' = [current EXCEPT ![d] = Nobody]
  /\ Dropped(Pending(d))
  /\ UNCHANGED <<path, overlap, runtimeVars, callVars, toCaller, servedVars>>

\* A worker of the runtime executes an agent: the result of an earlier attempt is
\* erased, and this one publishes its own, also if its command fails, or has none;
\* the agent completes, is queued again, or fails for good.
FinishAgent(d, id) ==
  /\ phase[d] \in Serving
  /\ Exists(d, id)
  /\ nodes[d][id].state = Ready
  /\ \/ nodes' = [nodes EXCEPT ![d] = AfterCompletion(d, id)]
     \/ /\ nodes[d][id].retries < nodes[d][id].spec.retries
        /\ nodes' = [nodes EXCEPT ![d][id].retries = @ + 1, ![d][id].error = LongError]
     \/ /\ nodes[d][id].retries >= nodes[d][id].spec.retries
        /\ nodes' = [nodes EXCEPT ![d] = AfterEnd(d, id, Failed, LongError)]
  /\ \E published \in {{}, {id}} :
       results' = [results EXCEPT ![d] = (@ \ {id}) \cup published]
  /\ UNCHANGED <<daemonVars, callVars, controlWire, servedVars>>

-----------------------------------------------------------------------------
ControlInit ==
  /\ path = Nobody
  /\ phase = [d \in Daemons |-> "off"]
  /\ running = [d \in Daemons |-> FALSE]
  /\ backlog = [d \in Daemons |-> <<>>]
  /\ current = [d \in Daemons |-> Nobody]
  /\ nodes = [d \in Daemons |-> [id \in AgentIds |-> NoNode]]
  /\ results = [d \in Daemons |-> {}]
  /\ call = [k \in Calls |-> "new"]
  /\ asked = [k \in Calls |-> NoControlRequest]
  /\ requestPacket = [k \in Calls |-> NoPacket]
  /\ responsePacket = [k \in Calls |-> NoPacket]
  /\ toDaemon = [k \in Calls |-> NoPacket]
  /\ toCaller = [k \in Calls |-> NoPacket]
  /\ attached = {}
  /\ seen = [k \in Calls |-> NoControlRequest]
  /\ answer = [k \in Calls |-> NoControlResponse]
  /\ told = [k \in Calls |-> Untold]
  /\ overlap = FALSE

OpenSocket(d) ==
  \/ FindNoPath(d) \/ FindPath(d) \/ ProbeAnswered(d) \/ ProbeRefused(d)
  \/ UnlinkStale(d) \/ UnlinkFails(d) \/ Bind(d) \/ BindFails(d) \/ Listen(d) \/ ListenFails(d)

Serve(d) ==
  \/ Accept(d) \/ Handle(d) \/ RefuseRequest(d) \/ Reply(d)
  \/ LeaveLoop(d) \/ CloseListener(d) \/ RemovePath(d) \/ StopRuntime(d)

ClientStep(k) ==
  \/ EncodeFails(k) \/ Connect(k) \/ ConnectFails(k)
  \/ SendRequest(k) \/ SendOtherVersion(k) \/ SendDescriptor(k) \/ SendFails(k)
  \/ Receive(k) \/ ReceiveFails(k) \/ ReceiveTimesOut(k)

ControlNext ==
  \/ \E d \in Daemons :
       \/ StartDaemon(d) \/ OpenSocket(d) \/ Serve(d) \/ AskStop(d) \/ Crash(d)
       \/ \E id \in AgentIds : FinishAgent(d, id)
  \/ \E k \in Calls : ClientStep(k) \/ \E request \in Requests[k] : Begin(k, request)

\* When a step of Serve(d) other than StopRuntime is possible: poll and accept
\* return when there is something to accept, recvmsg as above.  Fairness is stated
\* with Leave, which is enabled in the same states and taken by the same steps.
\* Nothing is assumed of the join of the workers in StopRuntime.
Busy(d) ==
  \/ RecvReturns(d)
  \/ phase[d] \in {"reply", "close", "remove"}
  \/ phase[d] = "poll" /\ (~running[d] \/ backlog[d] # <<>>)

Leave(d) == Busy(d) /\ \E s \in Phases \ {phase[d]} : Goto(d, s)

ControlFairness == \A d \in Daemons : WF_phase(Leave(d))

ControlSpec == ControlInit /\ [][ControlNext]_controlVars /\ ControlFairness

-----------------------------------------------------------------------------
Control == INSTANCE RemoteCall WITH
  Attempts <- Calls, Nothing <- NoControlRequest,
  executed <- [k \in Calls |-> IF seen[k] = NoControlRequest THEN NoControlRequest
                                ELSE [request |-> seen[k], reply |-> answer[k]]],
  answered <- [k \in Calls |-> IF told[k] = Refusal /\ seen[k] = NoControlRequest
                                THEN Failure ELSE told[k]]

\* Every call of a control client is dispatched at most once, by one daemon,
\* with exactly the request its caller built, and a caller that is told more
\* than a refusal is told what dispatch answered to this call: whatever list
\* of agents, task or reference is on the wire, whichever daemon crashes, and
\* also when the caller has given up and asks again.
ControlImplementsRemoteCall == Control!CallSpec

\* A daemon that serves is the one clients find at the path, unless a start
\* has overlapped with another start or with a stop: a second agentd, and one
\* started after a crash, replace only a socket nobody listens on.
SocketKept ==
  ~overlap => \A d \in Daemons : Listening(d) /\ running[d] => path = d

\* What keeps it so, as long as no start has overlapped: while one daemon is
\* starting no other starts or stops; one that has found no listener, or no
\* path, is alone; its socket is at the path before it listens; and at most
\* one daemon is between listen and the end of stop.
Alone == {"unlink", "bind", "listen"}
SocketInv ==
  /\ ControlTypeOK
  /\ SocketKept
  /\ \A d \in Daemons : phase[d] \in Stopping => ~running[d]
  /\ ~overlap =>
       /\ \A d, e \in Daemons : d # e /\ phase[d] \in Starting => ~Changing(e)
       /\ \A d, e \in Daemons : phase[d] \in Alone => phase[e] \notin Serving \cup Stopping
       /\ \A d \in Daemons : phase[d] = "listen" => path = d
       /\ \A d, e \in Daemons : {phase[d], phase[e]} \subseteq Serving \cup Stopping => d = e

\* No client can keep the daemon from the others, however long it is silent:
\* a request that was sent is taken up or its connection is closed, and a
\* daemon that was asked to stop, by a signal or by shutdown, closes its socket
\* and removes the path.  Whether it then exits depends on its runtime, whose
\* stop may wait for ever: StopReturns of AgentRuntime.
DaemonResponds ==
  /\ \A k \in Calls : (toDaemon[k] # NoPacket) ~> (toDaemon[k] = NoPacket)
  /\ \A d \in Daemons : (phase[d] \in Serving /\ ~running[d]) ~> (phase[d] \in {"join", "down"})
=============================================================================
