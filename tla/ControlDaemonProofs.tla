------------------------ MODULE ControlDaemonProofs ------------------------
(***************************************************************************)
(* Proofs about agentd and its clients: the messages are read back as they *)
(* were written, the socket stays where clients find it, and every call is *)
(* executed at most once, with what was asked.                             *)
(***************************************************************************)
EXTENDS ControlDaemon, ListProofs

-----------------------------------------------------------------------------
(* ControlDaemon: types *)

\* What a step of a daemon may do to the variables of the daemons.
LEMMA DaemonTypes ==
  ASSUME ControlTypeOK, NEW d \in Daemons,
         path' \in Daemons \cup {Nobody}, overlap' \in BOOLEAN,
         \E s \in Phases : phase' = [phase EXCEPT ![d] = s],
         \E b \in BOOLEAN : running' = [running EXCEPT ![d] = b],
         backlog' \in [Daemons -> Seq(Connections)],
         \E c \in Connections \cup {Nobody} : current' = [current EXCEPT ![d] = c],
         results' = results, UNCHANGED callVars
  PROVE  ControlTypeOK'
BY DEF ControlTypeOK, callVars

\* start and the steps of open_socket keep the types.
LEMMA StartTypes ==
  ASSUME ControlTypeOK, NEW d \in Daemons, StartDaemon(d) \/ OpenSocket(d)
  PROVE  ControlTypeOK'
<1> DEFINE Rest == results' = results /\ UNCHANGED callVars /\ UNCHANGED current
           Back == backlog' \in [Daemons -> Seq(Connections)]
           Path == path' \in Daemons \cup {Nobody}
<1>0. current = [current EXCEPT ![d] = current[d]] /\ current[d] \in Connections \cup {Nobody}
  BY DEF ControlTypeOK
<1>1. running = [running EXCEPT ![d] = running[d]] /\ running[d] \in BOOLEAN
  BY DEF ControlTypeOK
<1>2. ASSUME NEW s \in Phases, phase' = [phase EXCEPT ![d] = s], Rest, Back, Path, overlap' \in BOOLEAN,
             running' = running \/ \E b \in BOOLEAN : running' = [running EXCEPT ![d] = b]
      PROVE  ControlTypeOK'
  <2>1. \E b \in BOOLEAN : running' = [running EXCEPT ![d] = b]
    BY <1>1, <1>2
  <2>2. \E c \in Connections \cup {Nobody} : current' = [current EXCEPT ![d] = c]
    BY <1>0, <1>2
  <2> QED
    BY <1>2, <2>1, <2>2, DaemonTypes
<1>3. CASE StartDaemon(d)
  BY <1>2, <1>3 DEF StartDaemon, Goto, Phases, Starting, ControlTypeOK, runtimeVars
<1>4. ASSUME NEW from, NEW to \in Starting \cup Serving, StartStep(d, from, to), Path, Back
      PROVE  ControlTypeOK'
  BY <1>2, <1>4 DEF StartStep, Goto, Phases, Starting, Serving, ControlTypeOK, runtimeVars
<1>5. ASSUME GiveUpStart(d), Path, Back
      PROVE  ControlTypeOK'
  BY <1>2, <1>5 DEF GiveUpStart, Goto, Phases, ControlTypeOK, runtimeVars
<1>6. UNCHANGED backlog => Back
  BY DEF ControlTypeOK
<1>7. UNCHANGED path => Path
  BY DEF ControlTypeOK
<1>8. CASE ProbeAnswered(d)
  <2>1. path \in Daemons /\ d \in Connections /\ backlog' = [backlog EXCEPT ![path] = Append(@, d)]
    BY <1>8 DEF ProbeAnswered, ControlTypeOK, Connections
  <2>2. Back
    BY <2>1 DEF ControlTypeOK
  <2> QED
    BY <1>5, <1>7, <1>8, <2>2 DEF ProbeAnswered
<1>9. CASE UnlinkStale(d) \/ Bind(d)
  <2>1. Path /\ Back
    BY <1>6, <1>9 DEF UnlinkStale, Bind
  <2> QED
    BY <1>4, <1>9, <2>1 DEF UnlinkStale, Bind, Starting
<1>10. CASE FindNoPath(d) \/ FindPath(d) \/ ProbeRefused(d) \/ Listen(d)
  BY <1>4, <1>6, <1>7, <1>10 DEF FindNoPath, FindPath, ProbeRefused, Listen, Starting, Serving
<1>11. CASE UnlinkFails(d) \/ BindFails(d) \/ ListenFails(d)
  BY <1>5, <1>6, <1>7, <1>11 DEF UnlinkFails, BindFails, ListenFails
<1> QED
  BY <1>3, <1>8, <1>9, <1>10, <1>11 DEF OpenSocket

\* serve, stop and a crash keep the types.
LEMMA ServeTypes ==
  ASSUME ControlTypeOK, NEW d \in Daemons, Serve(d) \/ AskStop(d) \/ Crash(d)
  PROVE  ControlTypeOK'
<1>1. CASE Accept(d)
  <2>1. Head(backlog[d]) \in Connections /\ Tail(backlog[d]) \in Seq(Connections)
    BY <1>1 DEF Accept, ControlTypeOK
  <2> QED
    BY <1>1, <2>1 DEF Accept, Goto, ControlTypeOK, Phases, Serving, callVars, runtimeVars
<1>2. CASE Handle(d)
  BY <1>2 DEF Handle, Goto, ControlTypeOK, Phases, Serving, callVars
<1>3. CASE RefuseRequest(d)
  BY <1>3 DEF RefuseRequest, Goto, ControlTypeOK, Phases, Serving, callVars, runtimeVars
<1>4. CASE Reply(d)
  BY <1>4 DEF Reply, Goto, ControlTypeOK, Phases, Serving, callVars, runtimeVars
<1>5. CASE LeaveLoop(d)
  BY <1>5 DEF LeaveLoop, Goto, ControlTypeOK, Phases, Stopping, callVars, runtimeVars
<1>6. CASE CloseListener(d)
  BY <1>6 DEF CloseListener, Goto, ControlTypeOK, Phases, Stopping, callVars, runtimeVars
<1>7. CASE RemovePath(d)
  BY <1>7 DEF RemovePath, Goto, ControlTypeOK, Phases, Stopping, callVars, runtimeVars
<1>8. CASE StopRuntime(d)
  BY <1>8 DEF StopRuntime, Goto, ControlTypeOK, Phases, callVars, runtimeVars
<1>9. CASE AskStop(d)
  BY <1>9 DEF AskStop, ControlTypeOK, callVars, runtimeVars
<1>10. CASE Crash(d)
  BY <1>10 DEF Crash, Goto, ControlTypeOK, Phases, callVars, runtimeVars
<1> QED
  BY <1>1, <1>2, <1>3, <1>4, <1>5, <1>6, <1>7, <1>8, <1>9, <1>10 DEF Serve

\* Steps of the clients and of the workers.
LEMMA OtherTypes ==
  ASSUME ControlTypeOK,
         \/ \E k \in Calls : ClientStep(k) \/ \E request \in Requests[k] : Begin(k, request)
         \/ \E d \in Daemons, id \in AgentIds : FinishAgent(d, id)
  PROVE  ControlTypeOK'
<1>1. ASSUME NEW k \in Calls, NEW response, Return(k, response)
      PROVE  ControlTypeOK'
  BY <1>1 DEF Return, ControlTypeOK, daemonVars, runtimeVars
<1>2. ASSUME NEW k \in Calls, Connect(k)
      PROVE  ControlTypeOK'
  <2>1. path \in Daemons /\ k \in Connections
    BY <1>2 DEF Connect, ControlTypeOK, Connections
  <2> QED
    BY <1>2, <2>1 DEF Connect, ControlTypeOK, runtimeVars
<1>3. ASSUME NEW k \in Calls, NEW packet, Post(k, packet), UNCHANGED attached \/ attached' = attached \cup {k}
      PROVE  ControlTypeOK'
  BY <1>3 DEF Post, ControlTypeOK, daemonVars, runtimeVars
<1>4. ASSUME NEW k \in Calls, NEW request, Begin(k, request)
      PROVE  ControlTypeOK'
  BY <1>4 DEF Begin, ControlTypeOK, daemonVars, runtimeVars
<1>5. ASSUME NEW d \in Daemons, NEW id \in AgentIds, FinishAgent(d, id)
      PROVE  ControlTypeOK'
  <2>1. PICK published \in {{}, {id}} :
          results' = [results EXCEPT ![d] = (results[d] \ {id}) \cup published]
    BY <1>5, Zenon DEF FinishAgent
  <2>2. results' \in [Daemons -> SUBSET AgentIds]
    <3>1. /\ results \in [Daemons -> SUBSET AgentIds]
          /\ (results[d] \ {id}) \cup published \in SUBSET AgentIds
      BY DEF ControlTypeOK
    <3> QED
      BY <2>1, <3>1
  <2>3. UNCHANGED <<daemonVars, callVars>>
    BY <1>5, Zenon DEF FinishAgent
  <2> QED
    BY <2>2, <2>3 DEF ControlTypeOK, daemonVars, callVars
<1>6. ASSUME NEW k \in Calls, SendRequest(k) \/ SendOtherVersion(k) \/ SendDescriptor(k)
      PROVE  ControlTypeOK'
  BY <1>3, <1>6 DEF SendRequest, SendOtherVersion, SendDescriptor
<1>7. ASSUME NEW k \in Calls,
             EncodeFails(k) \/ ConnectFails(k) \/ SendFails(k) \/ Receive(k) \/ ReceiveFails(k) \/ ReceiveTimesOut(k)
      PROVE  ControlTypeOK'
  BY <1>1, <1>7, Zenon DEF EncodeFails, ConnectFails, SendFails, Receive, ReceiveFails, ReceiveTimesOut
<1> QED
  BY <1>2, <1>4, <1>5, <1>6, <1>7 DEF ClientStep

\* Every step of daemons and clients keeps the types.
LEMMA ControlTypesStep ==
  ASSUME ControlTypeOK, [ControlNext]_controlVars
  PROVE  ControlTypeOK'
<1>1. CASE UNCHANGED controlVars
  BY <1>1 DEF controlVars, daemonVars, runtimeVars, callVars, ControlTypeOK
<1> QED
  BY <1>1, StartTypes, ServeTypes, OtherTypes DEF ControlNext

-----------------------------------------------------------------------------
(* ControlDaemon: the socket *)

\* The part of the invariant that is about who starts, listens and stops.
SocketParts ==
  /\ SocketKept
  /\ \A d \in Daemons : phase[d] \in Stopping => ~running[d]
  /\ ~overlap =>
       /\ \A d, e \in Daemons : d # e /\ phase[d] \in Starting => ~Changing(e)
       /\ \A d, e \in Daemons : phase[d] \in Alone => phase[e] \notin Serving \cup Stopping
       /\ \A d \in Daemons : phase[d] = "listen" => path = d
       /\ \A d, e \in Daemons : {phase[d], phase[e]} \subseteq Serving \cup Stopping => d = e

\* A step that leaves the path and the phases alone keeps the invariant.
LEMMA SocketUnchanged ==
  ASSUME SocketParts, UNCHANGED <<path, phase, running, overlap>>
  PROVE  SocketParts'
BY DEF SocketParts, SocketKept, Listening, Changing

\* start and open_socket: a daemon binds only a path that nobody listens at.
LEMMA StartKeepsSocket ==
  ASSUME SocketInv, NEW d \in Daemons, StartDaemon(d) \/ OpenSocket(d)
  PROVE  SocketParts'
<1>0. /\ phase \in [Daemons -> Phases] /\ running \in [Daemons -> BOOLEAN] /\ overlap \in BOOLEAN
      /\ SocketParts /\ path \in Daemons \cup {Nobody} /\ Nobody \notin Daemons
  BY DaemonAssumption DEF SocketInv, SocketParts, ControlTypeOK, Connections
<1>1. CASE StartDaemon(d)
  <2>1. ~overlap' => ~overlap /\ \A e \in Daemons : ~Changing(e)
    BY <1>1, Zenon DEF StartDaemon
  <2>2. /\ phase[d] = "off" /\ phase' = [phase EXCEPT ![d] = "lstat"]
        /\ running' = [running EXCEPT ![d] = TRUE] /\ path' = path
    BY <1>1 DEF StartDaemon, Goto
  <2>3. \A e \in Daemons : e # d => Changing(e)' = Changing(e)
    BY <1>0, <2>2 DEF Changing
  <2> QED
    BY <1>0, <2>1, <2>2, <2>3 DEF SocketParts, SocketKept, Listening, Changing, Alone, Starting, Serving, Stopping
<1> USE <1>0 DEF SocketParts, SocketKept, Listening, Changing, Alone, Starting, Serving, Stopping, Goto
<1>2. CASE FindNoPath(d)
  BY <1>2 DEF FindNoPath, StartStep
<1>3. CASE FindPath(d)
  BY <1>3 DEF FindPath, StartStep
<1>4. CASE ProbeAnswered(d)
  BY <1>4 DEF ProbeAnswered, GiveUpStart
<1>5. CASE ProbeRefused(d)
  BY <1>5 DEF ProbeRefused, StartStep
<1>6. CASE UnlinkStale(d)
  BY <1>6 DEF UnlinkStale, StartStep
<1>7. CASE Bind(d)
  BY <1>7 DEF Bind, StartStep
<1>8. CASE Listen(d)
  BY <1>8 DEF Listen, StartStep
<1>9. CASE UnlinkFails(d) \/ BindFails(d) \/ ListenFails(d)
  BY <1>9 DEF UnlinkFails, BindFails, ListenFails, GiveUpStart
<1> QED
  BY <1>1, <1>2, <1>3, <1>4, <1>5, <1>6, <1>7, <1>8, <1>9 DEF OpenSocket

\* serve and stop: a daemon unlinks its own socket only.
LEMMA ServeKeepsSocket ==
  ASSUME SocketInv, NEW d \in Daemons, Serve(d) \/ AskStop(d) \/ Crash(d)
  PROVE  SocketParts'
<1>0. /\ phase \in [Daemons -> Phases] /\ running \in [Daemons -> BOOLEAN] /\ overlap \in BOOLEAN
      /\ SocketParts /\ path \in Daemons \cup {Nobody} /\ Nobody \notin Daemons
  BY DaemonAssumption DEF SocketInv, SocketParts, ControlTypeOK, Connections
<1>1. CASE Handle(d)
  <2>1. PICK shut \in BOOLEAN : /\ running' = [running EXCEPT ![d] = ~shut /\ running[d]]
                                /\ overlap' = (overlap \/ (shut /\ SomeStarting))
    <3>1. PICK r : /\ running' = [running EXCEPT ![d] = r.operation # Shutdown /\ running[d]]
                   /\ overlap' = (overlap \/ (r.operation = Shutdown /\ SomeStarting))
      BY <1>1, Zenon DEF Handle
    <3> QED
      BY <3>1
  <2>2. phase[d] = "receive" /\ phase' = [phase EXCEPT ![d] = "reply"] /\ path' = path
    BY <1>1 DEF Handle, RecvReturns, Goto
  <2> QED
    BY <1>0, <2>1, <2>2 DEF SomeStarting, SocketParts, SocketKept, Listening, Changing, Alone, Starting,
                            Serving, Stopping
<1> USE <1>0 DEF SocketParts, SocketKept, Listening, Changing, Alone, Starting, Serving, Stopping, Goto
<1>2. CASE Accept(d)
  BY <1>2 DEF Accept
<1>3. CASE RefuseRequest(d)
  BY <1>3 DEF RefuseRequest, RecvReturns
<1>4. CASE Reply(d)
  BY <1>4 DEF Reply
<1>5. CASE LeaveLoop(d)
  BY <1>5 DEF LeaveLoop
<1>6. CASE CloseListener(d)
  BY <1>6 DEF CloseListener
<1>7. CASE RemovePath(d)
  BY <1>7 DEF RemovePath
<1>8. CASE StopRuntime(d)
  BY <1>8 DEF StopRuntime
<1>9. CASE AskStop(d)
  BY <1>9 DEF AskStop, SomeStarting
<1>10. CASE Crash(d)
  BY <1>10 DEF Crash
<1> QED
  BY <1>1, <1>2, <1>3, <1>4, <1>5, <1>6, <1>7, <1>8, <1>9, <1>10 DEF Serve

\* Clients and agents do not touch the path.
LEMMA OthersKeepSocket ==
  ASSUME SocketInv,
         \/ \E k \in Calls : ClientStep(k) \/ \E request \in Requests[k] : Begin(k, request)
         \/ \E d \in Daemons, id \in AgentIds : FinishAgent(d, id)
         \/ UNCHANGED controlVars
  PROVE  SocketParts'
<1>1. UNCHANGED <<path, phase, running, overlap>>
  BY Zenon DEF ClientStep, EncodeFails, Connect, ConnectFails, SendRequest, SendOtherVersion, SendDescriptor,
         SendFails, Receive, ReceiveFails, ReceiveTimesOut, Begin, FinishAgent, Return, Post,
         daemonVars, controlVars
<1> QED
  BY <1>1, SocketUnchanged DEF SocketInv, SocketParts

\* Every start, stop and crash of every daemon on the path, in every order:
\* the invariant that open_socket's probe, unlink, bind and listen keep.
LEMMA SocketSafety == ControlInit /\ [][ControlNext]_controlVars => []SocketInv
<1>1. ControlInit => SocketInv
  <2> SUFFICES ASSUME ControlInit
               PROVE  SocketInv
    OBVIOUS
  <2>1. ControlTypeOK
    <3>1. /\ path \in Daemons \cup {Nobody} /\ attached \subseteq Calls /\ overlap \in BOOLEAN
          /\ running \in [Daemons -> BOOLEAN]
      BY DEF ControlInit
    <3>2. phase \in [Daemons -> Phases] /\ call \in [Calls -> {"new", "built", "connected", "sent", "done"}]
      BY DEF ControlInit, Phases
    <3>3. backlog \in [Daemons -> Seq(Connections)]
      BY DEF ControlInit
    <3>4. current \in [Daemons -> Connections \cup {Nobody}] /\ results \in [Daemons -> SUBSET AgentIds]
      BY DEF ControlInit
    <3> QED
      BY <3>1, <3>2, <3>3, <3>4 DEF ControlTypeOK
  <2>2. SocketParts
    BY DEF ControlInit, SocketParts, SocketKept, Listening, Alone, Starting, Serving, Stopping
  <2> QED
    BY <2>1, <2>2 DEF SocketInv, SocketParts
<1>2. SocketInv /\ [ControlNext]_controlVars => SocketInv'
  <2> SUFFICES ASSUME SocketInv, [ControlNext]_controlVars
               PROVE  SocketInv'
    OBVIOUS
  <2>1. ControlTypeOK'
    BY ControlTypesStep DEF SocketInv
  <2>2. SocketParts'
    BY StartKeepsSocket, ServeKeepsSocket, OthersKeepSocket DEF ControlNext
  <2> QED
    BY <2>1, <2>2 DEF SocketInv, SocketParts
<1> QED
  BY <1>1, <1>2, PTL

\* The same of the daemons as they are scheduled.
THEOREM SocketInvariant == ControlSpec => []SocketInv
BY SocketSafety, PTL DEF ControlSpec

\* Phases, queues, connections, results and calls of the control plane keep
\* their types.
THEOREM ControlTypes == ControlSpec => []ControlTypeOK
<1>1. SocketInv => ControlTypeOK
  BY DEF SocketInv
<1> QED
  BY <1>1, SocketInvariant, PTL

\* For any number of daemons and clients: unless a start overlaps another start
\* or a stop, the daemon that serves is the one that is found at the path.
THEOREM DaemonSocketKept == ControlSpec => []SocketKept
<1>1. SocketInv => SocketKept
  BY DEF SocketInv
<1> QED
  BY <1>1, SocketInvariant, PTL

-----------------------------------------------------------------------------
(* ControlProtocol: lists *)

\* FlattenSeq puts one part behind the other: off[j] words are those of the
\* first j parts.
PartsAt(p, parts, off) ==
  /\ off \in [0 .. Len(parts) -> Nat]
  /\ off[0] = 0
  /\ \A j \in 1 .. Len(parts) :
       off[j] = off[j - 1] + Len(parts[j]) /\ Within(p, off[j - 1], parts[j])

\* The function that FlattenSeq chooses.
Flattens(f, parts) ==
  f = [i \in 1 .. Len(parts) |-> IF i = 1 THEN parts[i] ELSE f[i - 1] \o parts[i]]

\* There is a function as FlattenSeq chooses one, for any number of parts.
LEMMA FlattenExists ==
  ASSUME NEW parts \in Seq(Seq(Int))
  PROVE  \E f : Flattens(f, parts)
<1> DEFINE n == Len(parts)
           upTo(f, m) == f = [i \in 1 .. m |-> IF i = 1 THEN parts[i] ELSE f[i - 1] \o parts[i]]
           S == {m \in 0 .. n : \E f : upTo(f, m)}
<1>0. n \in Nat
  OBVIOUS
<1>1. 0 \in S
  <2> DEFINE f == [i \in {} |-> 0]
  <2>1. 1 .. 0 = {}
    OBVIOUS
  <2>2. f = [i \in {} |-> IF i = 1 THEN parts[i] ELSE f[i - 1] \o parts[i]]
    BY Zenon
  <2>3. upTo(f, 0)
    BY <2>1, <2>2, Zenon
  <2>4. \E g : upTo(g, 0)
    BY <2>3, Zenon
  <2> HIDE DEF upTo, n
  <2> QED
    BY <1>0, <2>4
<1>2. ASSUME NEW m \in 0 + 1 .. n, m - 1 \in S
      PROVE  m \in S
  <2>1. PICK f : upTo(f, m - 1)
    BY <1>2, Zenon
  <2> DEFINE E(h, i) == IF i = 1 THEN parts[i] ELSE h[i - 1] \o parts[i]
             g == [i \in 1 .. m |-> E(f, i)]
  <2>2. f = [i \in 1 .. m - 1 |-> E(f, i)]
    BY <2>1, Zenon
  <2>3. \A i \in 1 .. m - 1 : i \in 1 .. m
    BY <1>0
  <2>4. \A i \in 1 .. m - 1 : f[i] = E(f, i)
    <3> HIDE DEF E
    <3> QED
      BY <2>2, Zenon
  <2>5. \A i \in 1 .. m - 1 : g[i] = f[i]
    <3> HIDE DEF E
    <3> QED
      BY <2>3, <2>4, Zenon
  <2>6. \A i \in 1 .. m : i # 1 => i - 1 \in 1 .. m - 1
    BY <1>0
  <2>7. \A i \in 1 .. m : E(g, i) = E(f, i)
    <3> HIDE DEF g
    <3> QED
      BY <2>5, <2>6, Zenon
  <2>8. g = [i \in 1 .. m |-> E(g, i)]
    <3> HIDE DEF E
    <3> QED
      BY <2>7, Zenon
  <2>9. \E h : upTo(h, m)
    BY <2>8, Zenon
  <2> HIDE DEF upTo, n
  <2> QED
    BY <2>9
<1> HIDE DEF S
<1>3. \A j \in 0 + 1 .. n : j - 1 \in S => j \in S
  BY <1>2, Zenon
<1>4. n \in S
  <2>1. \A j \in 0 .. n : j \in S
    <3> HIDE DEF n
    <3> QED
      BY <1>0, <1>1, <1>3, Stepwise
  <2> QED
    BY <1>0, <2>1
<1> QED
  BY <1>4, Zenon DEF S, Flattens

\* FlattenSeq puts every part where the lengths of those before it say.
LEMMA FlattenedAre ==
  ASSUME NEW parts \in Seq(Seq(Int))
  PROVE  /\ Seqs!FlattenSeq(parts) \in Seq(Int)
         /\ \E off : /\ PartsAt(Seqs!FlattenSeq(parts), parts, off)
                     /\ off[Len(parts)] = Len(Seqs!FlattenSeq(parts))
<1> DEFINE n == Len(parts)
           p == Seqs!FlattenSeq(parts)
<1>0. n \in Nat /\ \A i \in 1 .. n : parts[i] \in Seq(Int)
  OBVIOUS
<1>1. CASE n = 0
  <2>1. p = <<>>
    BY <1>1 DEF Seqs!FlattenSeq
  <2> DEFINE off == [j \in 0 .. 0 |-> 0]
  <2>2. off \in [0 .. 0 -> Nat] /\ off[0] = 0 /\ \A j \in 1 .. 0 : FALSE
    OBVIOUS
  <2> HIDE DEF off
  <2>3. PartsAt(p, parts, off) /\ off[n] = Len(p)
    BY <1>1, <2>1, <2>2 DEF PartsAt
  <2>4. p \in Seq(Int)
    BY <2>1
  <2> QED
    BY <2>3, <2>4
<1>2. CASE n # 0
  <2>1. \E f : Flattens(f, parts)
    BY FlattenExists
  <2>2. PICK f : Flattens(f, parts) /\ p = f[n]
    BY <1>2, <2>1, Zenon DEF Seqs!FlattenSeq, Flattens
  <2>3. /\ n \in 1 .. n
        /\ f[1] = parts[1]
        /\ \A i \in 2 .. n : f[i] = f[i - 1] \o parts[i]
    <3> DEFINE E(i) == IF i = 1 THEN parts[i] ELSE f[i - 1] \o parts[i]
    <3>1. f = [i \in 1 .. n |-> E(i)]
      BY <2>2 DEF Flattens
    <3>2. \A i \in 1 .. n : f[i] = E(i)
      <4> HIDE DEF E
      <4> QED
        BY <3>1, Zenon
    <3>3. n \in 1 .. n /\ 1 \in 1 .. n /\ \A i \in 2 .. n : i \in 1 .. n /\ i # 1
      BY <1>0, <1>2
    <3> HIDE DEF n
    <3> QED
      BY <3>2, <3>3, Zenon
  <2> HIDE DEF p, n
  <2>4. ASSUME NEW i \in 2 .. n, f[i - 1] \in Seq(Int)
        PROVE  /\ f[i] \in Seq(Int) /\ Len(f[i]) = Len(f[i - 1]) + Len(parts[i])
               /\ Within(f[i], 0, f[i - 1]) /\ Within(f[i], Len(f[i - 1]), parts[i])
    <3>0. i \in 1 .. n
      BY <1>0
    <3>1. i \in 1 .. n /\ f[i] = f[i - 1] \o parts[i]
      BY <2>3, <3>0, Zenon
    <3> DEFINE g == f[i - 1]
               h == parts[i]
    <3>2. g \in Seq(Int) /\ h \in Seq(Int) /\ f[i] = g \o h
      BY <1>0, <2>4, <3>1
    <3> HIDE DEF g, h
    <3>3. /\ f[i] \in Seq(Int) /\ Len(f[i]) = Len(g) + Len(h)
          /\ Within(f[i], 0, g) /\ Within(f[i], Len(g), h)
      BY <3>2, ConcatWithin
    <3> QED
      BY <3>3 DEF g, h
  <2>5. \A i \in 1 .. n : f[i] \in Seq(Int)
    <3> DEFINE S == {i \in 1 .. n : f[i] \in Seq(Int)}
    <3>1. 1 \in S
      BY <1>0, <1>2, <2>3
    <3>2. ASSUME NEW i \in 1 + 1 .. n, i - 1 \in S
          PROVE  i \in S
      <4>1. i \in 2 .. n /\ i \in 1 .. n
        BY <1>0
      <4>2. f[i - 1] \in Seq(Int)
        BY <3>2
      <4> QED
        BY <2>4, <4>1, <4>2
    <3> HIDE DEF S
    <3>3. \A i \in 1 .. n : i \in S
      BY <1>0, <3>1, <3>2, Stepwise
    <3> QED
      BY <3>3 DEF S
  <2> DEFINE off == [j \in 0 .. n |-> IF j = 0 THEN 0 ELSE Len(f[j])]
  <2>6. off \in [0 .. n -> Nat] /\ off[0] = 0 /\ off[n] = Len(p)
    BY <1>0, <1>2, <2>2, <2>5
  <2>7. ASSUME NEW j \in 1 .. n
        PROVE  off[j] = off[j - 1] + Len(parts[j]) /\ Within(f[j], off[j - 1], parts[j])
    <3>1. CASE j = 1
      <4>1. off[1] = Len(parts[1]) /\ off[0] = 0 /\ f[1] = parts[1] /\ Len(parts[1]) \in Nat /\ parts[1] \in Seq(Int)
        BY <1>0, <1>2, <2>3
      <4> HIDE DEF off
      <4>2. Within(f[1], 0, parts[1])
        BY <4>1 DEF Within
      <4> QED
        BY <3>1, <4>1, <4>2
    <3>2. CASE j # 1
      <4>1. j \in 2 .. n /\ off[j] = Len(f[j]) /\ off[j - 1] = Len(f[j - 1]) /\ f[j - 1] \in Seq(Int)
        BY <1>0, <2>5, <3>2
      <4> HIDE DEF off
      <4> QED
        BY <2>4, <4>1
    <3> QED
      BY <3>1, <3>2
  <2>8. ASSUME NEW j \in 1 .. n
        PROVE  Within(p, off[j - 1], parts[j])
    <3> DEFINE S == {i \in j .. n : Within(f[i], off[j - 1], parts[j])}
    <3>0. off[j - 1] \in Nat
      BY <1>0, <2>6
    <3> HIDE DEF off
    <3>1. j \in S
      BY <1>0, <2>7
    <3>2. ASSUME NEW i \in j + 1 .. n, i - 1 \in S
          PROVE  i \in S
      <4>1. /\ i \in 2 .. n /\ i \in j .. n /\ i - 1 \in 1 .. n /\ f[i - 1] \in Seq(Int) /\ parts[j] \in Seq(Int)
            /\ parts[i] \in Seq(Int)
        BY <1>0, <2>5
      <4>2. Within(f[i - 1] \o parts[i], off[j - 1], parts[j])
        BY <3>0, <3>2, <4>1, WithinMore
      <4> QED
        BY <2>3, <4>1, <4>2
    <3> HIDE DEF S
    <3>3. n \in S
      <4>1. j \in Nat /\ n \in j .. n
        BY <1>0
      <4> QED
        BY <1>0, <3>1, <3>2, <4>1, Stepwise
    <3> QED
      BY <2>2, <3>3 DEF S
  <2>9. PartsAt(p, parts, off)
    <3> HIDE DEF off
    <3> QED
      BY <2>6, <2>7, <2>8 DEF PartsAt, n
  <2>10. p \in Seq(Int)
    BY <1>0, <1>2, <2>2, <2>3, <2>5
  <2> QED
    BY <2>6, <2>9, <2>10 DEF p, n
<1> QED
  BY <1>1, <1>2

\* A part of a part.
LEMMA WithinWithin ==
  ASSUME NEW p \in Seq(Int), NEW q \in Seq(Int), NEW t \in Seq(Int), NEW o \in Nat, NEW m \in Nat,
         Within(p, o, q), Within(q, m, t)
  PROVE  Within(p, o + m, t)
<1>1. Len(p) \in Nat /\ Len(q) \in Nat /\ Len(t) \in Nat /\ o + Len(q) <= Len(p) /\ m + Len(t) <= Len(q)
  BY DEF Within
<1>2. ASSUME NEW i \in 1 .. Len(t)
      PROVE  p[o + m + i] = t[i]
  <2>1. m + i \in 1 .. Len(q) /\ o + (m + i) = o + m + i
    BY <1>1
  <2>2. p[o + (m + i)] = q[m + i] /\ q[m + i] = t[i]
    BY <2>1, Zenon DEF Within
  <2> QED
    BY <2>1, <2>2
<1>3. o + m + Len(t) <= Len(p)
  BY <1>1
<1> QED
  BY <1>2, <1>3, Zenon DEF Within

\* The two parts of a concatenation.
LEMMA Split ==
  ASSUME NEW p \in Seq(Int), NEW o \in Nat, NEW s \in Seq(Int), NEW t \in Seq(Int), Within(p, o, s \o t)
  PROVE  /\ Within(p, o, s) /\ Within(p, o + Len(s), t)
         /\ s \o t \in Seq(Int) /\ Len(s \o t) = Len(s) + Len(t) /\ o + Len(s) \in Nat
<1>1. /\ s \o t \in Seq(Int) /\ Len(s \o t) = Len(s) + Len(t)
      /\ Within(s \o t, 0, s) /\ Within(s \o t, Len(s), t)
  BY ConcatWithin
<1>2. Len(s) \in Nat /\ 0 \in Nat /\ o + 0 = o /\ o + Len(s) \in Nat
  OBVIOUS
<1>3. Within(p, o + 0, s) /\ Within(p, o + Len(s), t)
  BY <1>1, <1>2, WithinWithin
<1> QED
  BY <1>1, <1>2, <1>3

\* The positions are those of any list that goes from one string to the next.
LEMMA StartsAre ==
  ASSUME NEW p, NEW n \in Nat, NEW a, NEW g, g = [j \in 0 .. n |-> g[j]], g[0] = a,
         \A j \in 1 .. n : g[j] = After(p, g[j - 1])
  PROVE  Starts(p, a, n) = g
<1> DEFINE E(h, j) == IF j = 0 THEN a ELSE After(p, h[j - 1])
           s == Starts(p, a, n)
<1>1. \A j \in 0 .. n : j = 0 \/ j \in 1 .. n
  OBVIOUS
<1>2. \A j \in 0 .. n : g[j] = E(g, j)
  <2>1. \A j \in 1 .. n : j # 0
    OBVIOUS
  <2> QED
    BY <1>1, <2>1, Zenon
<1>3. g = [j \in 0 .. n |-> E(g, j)]
  <2> HIDE DEF E
  <2> QED
    BY <1>2, Zenon
<1>4. s = [j \in 0 .. n |-> E(s, j)]
  BY <1>3, Zenon DEF Starts
<1> HIDE DEF s
<1>5. \A j \in 0 .. n : s[j] = E(s, j)
  <2> HIDE DEF E
  <2> QED
    BY <1>4, Zenon
<1> DEFINE S == {j \in 0 .. n : s[j] = g[j]}
<1>6. 0 \in S
  BY <1>5
<1>7. ASSUME NEW j \in 0 + 1 .. n, j - 1 \in S
      PROVE  j \in S
  <2>1. j \in 0 .. n /\ j \in 1 .. n /\ j # 0
    OBVIOUS
  <2>2. s[j - 1] = g[j - 1]
    BY <1>7, Zenon
  <2> QED
    BY <1>5, <2>1, <2>2, Zenon
<1> HIDE DEF S
<1>8. \A j \in 0 .. n : j \in S
  BY <1>6, <1>7, Stepwise
<1>9. \A j \in 0 .. n : s[j] = g[j]
  BY <1>8, Zenon DEF S
<1>10. s = [j \in 0 .. n |-> s[j]]
  <2> HIDE DEF E
  <2> QED
    BY <1>4, Zenon
<1>11. s = g
  BY <1>9, <1>10, Zenon
<1> QED
  BY <1>11 DEF s

\* The places of a list of agents are determined by the first one.
LEMMA AgentStartsAre ==
  ASSUME NEW p, NEW n \in Nat, NEW a, NEW g, g = [j \in 0 .. n |-> g[j]], g[0] = a,
         \A j \in 1 .. n : g[j] = AfterAgent(p, g[j - 1])
  PROVE  AgentStarts(p, a, n) = g
<1> DEFINE E(h, j) == IF j = 0 THEN a ELSE AfterAgent(p, h[j - 1])
           s == AgentStarts(p, a, n)
<1>1. \A j \in 0 .. n : j = 0 \/ j \in 1 .. n
  OBVIOUS
<1>2. \A j \in 0 .. n : g[j] = E(g, j)
  <2>1. \A j \in 1 .. n : j # 0
    OBVIOUS
  <2> QED
    BY <1>1, <2>1, Zenon
<1>3. g = [j \in 0 .. n |-> E(g, j)]
  <2> HIDE DEF E
  <2> QED
    BY <1>2, Zenon
<1>4. s = [j \in 0 .. n |-> E(s, j)]
  BY <1>3, Zenon DEF AgentStarts
<1> HIDE DEF s
<1>5. \A j \in 0 .. n : s[j] = E(s, j)
  <2> HIDE DEF E
  <2> QED
    BY <1>4, Zenon
<1> DEFINE S == {j \in 0 .. n : s[j] = g[j]}
<1>6. 0 \in S
  BY <1>5
<1>7. ASSUME NEW j \in 0 + 1 .. n, j - 1 \in S
      PROVE  j \in S
  <2>1. j \in 0 .. n /\ j \in 1 .. n /\ j # 0
    OBVIOUS
  <2>2. s[j - 1] = g[j - 1]
    BY <1>7, Zenon
  <2> QED
    BY <1>5, <2>1, <2>2, Zenon
<1> HIDE DEF S
<1>8. \A j \in 0 .. n : j \in S
  BY <1>6, <1>7, Stepwise
<1>9. \A j \in 0 .. n : s[j] = g[j]
  BY <1>8, Zenon DEF S
<1>10. s = [j \in 0 .. n |-> s[j]]
  <2> HIDE DEF E
  <2> QED
    BY <1>4, Zenon
<1>11. s = g
  BY <1>9, <1>10, Zenon
<1> QED
  BY <1>11 DEF s

\* The words of a list of strings, and what the decoder finds in it.
StringWords(texts) == Seqs!FlattenSeq([i \in DOMAIN texts |-> Written(texts[i])])
WritableTexts(texts) == \A i \in DOMAIN texts : Writable(texts[i])

\* A list of strings is read back as it was written.
LEMMA StringsAt ==
  ASSUME NEW p \in Seq(Int), NEW o \in Nat, NEW texts \in Seq(Text),
         WritableTexts(texts), Within(p, o, StringWords(texts))
  PROVE  LET starts == Starts(p, o + 1, Len(texts))
         IN  /\ starts[Len(texts)] = o + 1 + Len(StringWords(texts))
             /\ \A j \in 1 .. Len(texts) : /\ StringAt(p, starts[j - 1])
                                           /\ Characters(p, starts[j - 1]) = texts[j]
<1> DEFINE n == Len(texts)
           parts == [i \in DOMAIN texts |-> Written(texts[i])]
           q == StringWords(texts)
<1>1. n \in Nat /\ DOMAIN texts = 1 .. n /\ \A i \in 1 .. n : texts[i] \in Text /\ Writable(texts[i])
  BY DEF WritableTexts
<1>2. \A i \in 1 .. n : /\ Written(texts[i]) \in Seq(Int) /\ Len(Written(texts[i])) = Len(texts[i]) + 1
                        /\ Len(texts[i]) \in Nat
  BY <1>1, WrittenIs
<1>3. parts \in Seq(Seq(Int)) /\ Len(parts) = n /\ \A i \in 1 .. n : parts[i] = Written(texts[i])
  BY <1>1, <1>2
<1>4. q = Seqs!FlattenSeq(parts)
  BY DEF StringWords
<1> HIDE DEF parts, q, n
<1>5. q \in Seq(Int)
  BY <1>3, <1>4, FlattenedAre
<1>6. PICK off : PartsAt(q, parts, off) /\ off[n] = Len(q)
  BY <1>3, <1>4, FlattenedAre
<1>7. /\ off \in [0 .. n -> Nat] /\ off[0] = 0
      /\ \A j \in 1 .. n : off[j] = off[j - 1] + Len(parts[j]) /\ Within(q, off[j - 1], parts[j])
  BY <1>3, <1>6 DEF PartsAt
<1> DEFINE g == [j \in 0 .. n |-> o + 1 + off[j]]
<1>8. ASSUME NEW j \in 1 .. n
      PROVE  /\ g[j] = After(p, g[j - 1])
             /\ StringAt(p, g[j - 1]) /\ Characters(p, g[j - 1]) = texts[j]
  <2> DEFINE tx == texts[j]
             w == off[j - 1]
             v == off[j]
             k == o + w
  <2>1. j \in 0 .. n /\ j - 1 \in 0 .. n
    BY <1>1
  <2>2. w \in Nat /\ v \in Nat
    BY <1>7, <2>1
  <2>3. g[j - 1] = o + 1 + w /\ g[j] = o + 1 + v
    BY <2>1, Zenon
  <2>4. /\ tx \in Text /\ Writable(tx) /\ Written(tx) \in Seq(Int) /\ Len(tx) \in Nat
        /\ Len(Written(tx)) = Len(tx) + 1
    BY <1>1, <1>2, Zenon
  <2>5. v = w + Len(Written(tx)) /\ Within(q, w, Written(tx))
    <3>1. parts[j] = Written(texts[j])
      BY <1>3, Zenon
    <3> QED
      BY <1>7, <3>1, Zenon
  <2> HIDE DEF tx, w, v, g
  <2>6. k \in Nat /\ o + 1 + w = k + 1 /\ o + 1 + v = k + 2 + Len(tx)
    BY <2>2, <2>4, <2>5
  <2>7. Within(p, k, Written(tx))
    <3>1. Within(p, o, q)
      BY DEF q
    <3> QED
      BY <1>5, <2>2, <2>4, <2>5, <3>1, WithinWithin, Zenon
  <2> HIDE DEF k
  <2>8. StringAt(p, k + 1) /\ Characters(p, k + 1) = tx /\ After(p, k + 1) = k + 2 + Len(tx)
    BY <2>4, <2>6, <2>7, WithinString, Zenon
  <2> QED
    BY <2>3, <2>6, <2>8, Zenon DEF tx
<1>9. Starts(p, o + 1, n) = g
  <2>1. g[0] = o + 1 /\ g = [j \in 0 .. n |-> g[j]]
    BY <1>1, <1>7
  <2>2. \A j \in 1 .. n : g[j] = After(p, g[j - 1])
    <3> HIDE DEF g
    <3> QED
      BY <1>8, Zenon
  <2> HIDE DEF g
  <2> QED
    <3> DEFINE a == o + 1
    <3>1. n \in Nat /\ g[0] = a /\ g = [j \in 0 .. n |-> g[j]]
      BY <1>1, <2>1, Zenon
    <3> HIDE DEF a
    <3>2. Starts(p, a, n) = g
      BY <2>2, <3>1, StartsAre
    <3> QED
      BY <3>2 DEF a
<1>10. g[n] = o + 1 + Len(q)
  <2>1. n \in 0 .. n
    BY <1>1
  <2> QED
    BY <1>6, <2>1, Zenon
<1> HIDE DEF g
<1> QED
  BY <1>8, <1>9, <1>10, Zenon DEF n, q

-----------------------------------------------------------------------------
(* ControlProtocol: agents *)

WritableAgent(a) == Writable(a.name) /\ Writable(a.kind) /\ Writable(a.error)

\* decode_agent returns the agent that encode_agent has written.
LEMMA AgentRoundTrip ==
  ASSUME NEW p \in Seq(Int), NEW o \in Nat, NEW a \in AgentInfos, Within(p, o, AgentWords(a)),
         WritableAgent(a)
  PROVE  /\ AgentOK(p, o + 1) /\ AgentAt(p, o + 1) = a
         /\ AfterAgent(p, o + 1) = o + 1 + Len(AgentWords(a))
<1>1. /\ a.id \in Nat /\ a.parent \in Nat /\ a.state \in AgentStates /\ a.state \in Int
      /\ a.process \in SignedWords /\ a.unresolved \in Int /\ a.retries \in Nat /\ a.context \in Nat
      /\ a.counters \in Seq(Nat) /\ Len(a.counters) = 6 /\ a.cacheHit \in BOOLEAN
      /\ a.name \in Text /\ a.kind \in Text /\ a.error \in Text
  BY DEF AgentInfos, Counters, AgentStates
<1>0. Writable(a.name) /\ Writable(a.kind) /\ Writable(a.error)
  BY DEF WritableAgent
<1>2. ToWord(a.process) \in Nat /\ FromWord(ToWord(a.process)) = a.process
  BY <1>1, WordRoundTrip
<1>3. Flag(a.cacheHit) \in 0 .. 1 /\ (Flag(a.cacheHit) = 1) = a.cacheHit
  BY <1>1 DEF Flag
<1> DEFINE f7 == <<a.id, a.parent, a.state, ToWord(a.process), a.unresolved, a.retries, a.context>>
           c == a.counters
           f1 == <<Flag(a.cacheHit)>>
           ns == a.name
           ks == a.kind
           es == a.error
           nm == Written(ns)
           kd == Written(ks)
           er == Written(es)
           u2 == f7 \o c
           u3 == u2 \o f1
           u4 == u3 \o nm
           u5 == u4 \o kd
           u6 == u5 \o er
           ln == Len(nm)
           lk == Len(kd)
           le == Len(er)
<1>4. /\ f7 \in Seq(Int) /\ Len(f7) = 7 /\ f7[1] = a.id /\ f7[2] = a.parent /\ f7[3] = a.state
      /\ f7[4] = ToWord(a.process) /\ f7[5] = a.unresolved /\ f7[6] = a.retries /\ f7[7] = a.context
  BY <1>1, <1>2
<1>5. c \in Seq(Int) /\ Len(c) = 6
  BY <1>1
<1>6. f1 \in Seq(Int) /\ Len(f1) = 1 /\ f1[1] = Flag(a.cacheHit)
  BY <1>3
<1>7. /\ nm \in Seq(Int) /\ ln = Len(ns) + 1 /\ Len(ns) \in Nat /\ ln \in Nat
      /\ kd \in Seq(Int) /\ lk = Len(ks) + 1 /\ Len(ks) \in Nat /\ lk \in Nat
      /\ er \in Seq(Int) /\ le = Len(es) + 1 /\ Len(es) \in Nat /\ le \in Nat
  <2>1. ns \in Text /\ ks \in Text /\ es \in Text
    BY <1>1
  <2> HIDE DEF ns, ks, es, nm, kd, er
  <2>2. /\ nm \in Seq(Int) /\ ln = Len(ns) + 1 /\ Len(ns) \in Nat
        /\ kd \in Seq(Int) /\ lk = Len(ks) + 1 /\ Len(ks) \in Nat
        /\ er \in Seq(Int) /\ le = Len(es) + 1 /\ Len(es) \in Nat
    BY <2>1, WrittenIs, Zenon DEF nm, kd, er
  <2> QED
    BY <2>2
<1>8. AgentWords(a) = u6
  BY DEF AgentWords
<1> HIDE DEF f7, c, f1, ns, ks, es, nm, kd, er, ln, lk, le
<1>9. /\ u2 \in Seq(Int) /\ Len(u2) = 13
  <2>1. u2 \in Seq(Int) /\ Len(u2) = Len(f7) + Len(c)
    BY <1>4, <1>5, ConcatWithin, Zenon
  <2> HIDE DEF u2
  <2>2. Len(f7) = 7 /\ Len(c) = 6
    BY <1>4, <1>5, Zenon
  <2> QED
    BY <2>1, <2>2
<1> HIDE DEF u2
<1>10. /\ u3 \in Seq(Int) /\ Len(u3) = 14
  <2>1. u3 \in Seq(Int) /\ Len(u3) = Len(u2) + Len(f1)
    BY <1>6, <1>9, ConcatWithin, Zenon
  <2> HIDE DEF u3
  <2>2. Len(f1) = 1 /\ Len(u2) = 13
    BY <1>6, <1>9, Zenon
  <2> QED
    BY <2>1, <2>2
<1> HIDE DEF u3
<1>11. /\ u4 \in Seq(Int) /\ Len(u4) = 14 + ln
  BY <1>7, <1>10, ConcatWithin, Zenon DEF ln
<1> HIDE DEF u4
<1>12. /\ u5 \in Seq(Int) /\ Len(u5) = 14 + ln + lk
  BY <1>7, <1>11, ConcatWithin, Zenon DEF lk
<1> HIDE DEF u5
<1>13. /\ Within(p, o, u5) /\ Within(p, o + (14 + ln + lk), er) /\ Len(u6) = 14 + ln + lk + le
  <2>1. Within(p, o, u5 \o er)
    BY <1>8
  <2> QED
    <3>1. Within(p, o, u5) /\ Within(p, o + Len(u5), er)
      BY <1>7, <1>12, <2>1, Split, Zenon
    <3>2. Len(u6) = Len(u5) + Len(er)
      BY <1>7, <1>12, ConcatWithin, Zenon
    <3> HIDE DEF u6
    <3> QED
      BY <1>12, <3>1, <3>2, Zenon DEF le
<1>14. Within(p, o, u4) /\ Within(p, o + (14 + ln), kd)
  <2>1. Within(p, o, u4 \o kd)
    BY <1>13 DEF u5
  <2> QED
    <3>1. Within(p, o, u4) /\ Within(p, o + Len(u4), kd)
      BY <1>7, <1>11, <2>1, Split, Zenon
    <3> QED
      BY <1>11, <3>1, Zenon
<1>15. /\ Within(p, o, u3) /\ Within(p, o + 14, nm) /\ Within(p, o, f7) /\ Within(p, o + 7, c)
       /\ Within(p, o + 13, f1)
  <2>1. Within(p, o, u3 \o nm)
    BY <1>14 DEF u4
  <2>2. Within(p, o, u3) /\ Within(p, o + 14, nm)
    BY <1>7, <1>10, <2>1, Split, Zenon
  <2>3. Within(p, o, u2 \o f1)
    BY <2>2 DEF u3
  <2>4. Within(p, o, u2) /\ Within(p, o + 13, f1)
    BY <1>6, <1>9, <2>3, Split, Zenon
  <2>5. Within(p, o, f7 \o c)
    BY <2>4 DEF u2
  <2>6. Within(p, o, f7) /\ Within(p, o + 7, c)
    BY <1>4, <1>5, <2>5, Split, Zenon
  <2> QED
    BY <2>2, <2>4, <2>6
<1> DEFINE i == o + 1
<1>16. /\ p[i] = a.id /\ p[i + 1] = a.parent /\ p[i + 2] = a.state /\ p[i + 3] = ToWord(a.process)
       /\ p[i + 4] = a.unresolved /\ p[i + 5] = a.retries /\ p[i + 6] = a.context
  <2>1. \A j \in 1 .. 7 : p[o + j] = f7[j]
    BY <1>4, <1>15 DEF Within
  <2>2. /\ i = o + 1 /\ i + 1 = o + 2 /\ i + 2 = o + 3 /\ i + 3 = o + 4 /\ i + 4 = o + 5 /\ i + 5 = o + 6
        /\ i + 6 = o + 7
    OBVIOUS
  <2> HIDE DEF i
  <2>3. /\ p[i] = f7[1] /\ p[i + 1] = f7[2] /\ p[i + 2] = f7[3] /\ p[i + 3] = f7[4]
        /\ p[i + 4] = f7[5] /\ p[i + 5] = f7[6] /\ p[i + 6] = f7[7]
    BY <2>1, <2>2
  <2> QED
    BY <1>4, <2>3, Zenon
<1>17. SubSeq(p, i + 7, i + 12) = a.counters
  <2>1. i + 7 = o + 7 + 1 /\ i + 12 = o + 7 + Len(c) /\ o + 7 \in Nat
    BY <1>5
  <2>2. SubSeq(p, o + 7 + 1, o + 7 + Len(c)) = c
    BY <1>5, <1>15, <2>1, WithinSubSeq
  <2> HIDE DEF i
  <2> QED
    BY <2>1, <2>2, Zenon DEF c
<1>18. p[i + 13] = Flag(a.cacheHit)
  <2>0. 1 \in 1 .. Len(f1)
    BY <1>6
  <2>1. p[o + 13 + 1] = f1[1]
    BY <1>15, <2>0, Zenon DEF Within
  <2>2. o + 13 + 1 = i + 13
    OBVIOUS
  <2> HIDE DEF i
  <2> QED
    BY <1>6, <2>1, <2>2, Zenon
<1>19. NameOf(i) = o + 14 + 1
  BY DEF NameOf, AgentFixed
<1>20. ns \in Text /\ ks \in Text /\ es \in Text /\ Writable(ns) /\ Writable(ks) /\ Writable(es)
  BY <1>0, <1>1, Zenon DEF ns, ks, es
<1>21. /\ StringAt(p, NameOf(i)) /\ Characters(p, NameOf(i)) = ns
       /\ KindOf(p, i) = o + (14 + ln) + 1
  <2> DEFINE m == o + 14
  <2>1. m \in Nat /\ m + 2 + Len(ns) = o + (14 + ln) + 1
    BY <1>7
  <2>2. Within(p, m, Written(ns))
    BY <1>15 DEF nm
  <2> HIDE DEF m, i
  <2>3. StringAt(p, m + 1) /\ Characters(p, m + 1) = ns /\ After(p, m + 1) = m + 2 + Len(ns)
    BY <1>20, <2>1, <2>2, WithinString, Zenon
  <2> QED
    BY <1>19, <2>1, <2>3, Zenon DEF KindOf, m
<1>22. /\ StringAt(p, KindOf(p, i)) /\ Characters(p, KindOf(p, i)) = ks
       /\ ErrorOf(p, i) = o + (14 + ln + lk) + 1
  <2> DEFINE m == o + (14 + ln)
  <2>1. m \in Nat /\ m + 2 + Len(ks) = o + (14 + ln + lk) + 1
    BY <1>7
  <2>2. Within(p, m, Written(ks))
    BY <1>14 DEF kd
  <2> HIDE DEF m, i
  <2>3. StringAt(p, m + 1) /\ Characters(p, m + 1) = ks /\ After(p, m + 1) = m + 2 + Len(ks)
    BY <1>20, <2>1, <2>2, WithinString, Zenon
  <2> QED
    BY <1>21, <2>1, <2>3, Zenon DEF ErrorOf, m
<1>23. /\ StringAt(p, ErrorOf(p, i)) /\ Characters(p, ErrorOf(p, i)) = es
       /\ AfterAgent(p, i) = o + 1 + Len(AgentWords(a))
  <2> DEFINE m == o + (14 + ln + lk)
  <2>1. m \in Nat /\ m + 2 + Len(es) = o + 1 + Len(u6)
    <3> HIDE DEF u6
    <3> QED
      BY <1>7, <1>13
  <2>2. Within(p, m, Written(es))
    BY <1>13 DEF er
  <2> HIDE DEF m, i, u6
  <2>3. StringAt(p, m + 1) /\ Characters(p, m + 1) = es /\ After(p, m + 1) = m + 2 + Len(es)
    BY <1>20, <2>1, <2>2, WithinString, Zenon
  <2> QED
    BY <1>8, <1>22, <2>1, <2>3, Zenon DEF AfterAgent, m
<1>24. Words(p, i, AgentFixed)
  BY <1>10, <1>15 DEF Within, Words, AgentFixed
<1> HIDE DEF i
<1>25. AgentOK(p, i)
  <2>1. p[i + 13] <= 1
    BY <1>3, <1>18
  <2> QED
    BY <1>1, <1>16, <1>21, <1>22, <1>23, <1>24, <2>1, Zenon DEF AgentOK
<1>26. AgentAt(p, i) = a
  <2>1. a = [id |-> a.id, parent |-> a.parent, state |-> a.state, process |-> a.process,
             unresolved |-> a.unresolved, retries |-> a.retries, context |-> a.context,
             counters |-> a.counters, cacheHit |-> a.cacheHit, name |-> a.name, kind |-> a.kind,
             error |-> a.error]
    BY DEF AgentInfos
  <2>2. (p[i + 13] = 1) = a.cacheHit
    BY <1>3, <1>18
  <2>3. FromWord(p[i + 3]) = a.process
    BY <1>2, <1>16, Zenon
  <2>4. /\ Characters(p, NameOf(i)) = a.name /\ Characters(p, KindOf(p, i)) = a.kind
        /\ Characters(p, ErrorOf(p, i)) = a.error
    BY <1>21, <1>22, <1>23, Zenon DEF ns, ks, es
  <2> QED
    BY <1>16, <1>17, <2>1, <2>2, <2>3, <2>4, Zenon DEF AgentAt
<1> QED
  BY <1>23, <1>25, <1>26 DEF i

-----------------------------------------------------------------------------
(* ControlProtocol: tasks *)

\* One step through a concatenation, from its end.
LEMMA Joined ==
  ASSUME NEW s \in Seq(Int), NEW t \in Seq(Int), NEW m \in Nat, Len(s) = m
  PROVE  /\ s \o t \in Seq(Int) /\ Len(s \o t) = m + Len(t) /\ Len(t) \in Nat /\ m + Len(t) \in Nat
<1>1. s \o t \in Seq(Int) /\ Len(s \o t) = Len(s) + Len(t)
  BY ConcatWithin, Zenon
<1>2. Len(t) \in Nat /\ m + Len(t) \in Nat
  OBVIOUS
<1> QED
  BY <1>1, <1>2, Zenon

\* The first of two parts is where both are, the second one behind it.
LEMMA Peel ==
  ASSUME NEW p \in Seq(Int), NEW o \in Nat, NEW s \in Seq(Int), NEW t \in Seq(Int), NEW m \in Nat,
         Len(s) = m, Within(p, o, s \o t)
  PROVE  Within(p, o, s) /\ Within(p, o + m, t) /\ o + m \in Nat
<1>1. Within(p, o, s) /\ Within(p, o + Len(s), t)
  BY Split, Zenon
<1> QED
  BY <1>1

\* The words of an invocation, and what the decoder finds in them.
CallWords(asks) ==
  <<asks.kind, asks.context>> \o Written(asks.target) \o Written(asks.operation) \o Written(asks.payload)
WritableCall(asks) == Writable(asks.target) /\ Writable(asks.operation) /\ Writable(asks.payload)

\* The invocation of a task is read back as it was written.
LEMMA CallAt ==
  ASSUME NEW p \in Seq(Int), NEW o \in Nat, NEW asks \in Invocations, WritableCall(asks),
         Within(p, o, CallWords(asks))
  PROVE  LET target == o + 3
             operation == After(p, target)
             payload == After(p, operation)
         IN  /\ p[o + 1] = asks.kind /\ p[o + 2] = asks.context
             /\ StringAt(p, target) /\ StringAt(p, operation) /\ StringAt(p, payload)
             /\ Characters(p, target) = asks.target /\ Characters(p, operation) = asks.operation
             /\ Characters(p, payload) = asks.payload
             /\ p[target] = Len(asks.target) /\ p[operation] = Len(asks.operation)
             /\ After(p, payload) = o + Len(CallWords(asks)) + 1
<1> DEFINE ts == asks.target
           ns == asks.operation
           ls == asks.payload
           f2 == <<asks.kind, asks.context>>
           tg == Written(ts)
           op == Written(ns)
           pl == Written(ls)
           lt == Len(tg)
           lo == Len(op)
           lp == Len(pl)
           u2 == f2 \o tg
           u3 == u2 \o op
           u4 == u3 \o pl
<1>1. /\ asks.kind \in Nat /\ asks.context \in Nat /\ ts \in Text /\ ns \in Text /\ ls \in Text
      /\ Writable(ts) /\ Writable(ns) /\ Writable(ls)
  BY DEF Invocations, WritableCall
<1>2. f2 \in Seq(Int) /\ Len(f2) = 2 /\ f2[1] = asks.kind /\ f2[2] = asks.context
  BY <1>1
<1>3. CallWords(asks) = u4
  BY DEF CallWords
<1> HIDE DEF f2, ts, ns, ls, tg, op, pl
<1>4. /\ tg \in Seq(Int) /\ lt = Len(ts) + 1 /\ Len(ts) \in Nat
      /\ op \in Seq(Int) /\ lo = Len(ns) + 1 /\ Len(ns) \in Nat
      /\ pl \in Seq(Int) /\ lp = Len(ls) + 1 /\ Len(ls) \in Nat
  BY <1>1, WrittenIs, Zenon DEF tg, op, pl
<1> HIDE DEF lt, lo, lp
<1>5. lt \in Nat /\ lo \in Nat /\ lp \in Nat
  BY <1>4
<1>6. u2 \in Seq(Int) /\ Len(u2) = 2 + lt /\ 2 + lt \in Nat
  BY <1>2, <1>4, <1>5, Joined DEF lt
<1> HIDE DEF u2
<1>7. u3 \in Seq(Int) /\ Len(u3) = 2 + lt + lo /\ 2 + lt + lo \in Nat
  BY <1>4, <1>5, <1>6, Joined, Zenon DEF lo
<1> HIDE DEF u3
<1>8. Len(u4) = 2 + lt + lo + lp
  <2> DEFINE m == 2 + lt + lo
  <2>1. m \in Nat /\ Len(u3) = m /\ u3 \in Seq(Int)
    BY <1>7, Zenon
  <2> HIDE DEF m
  <2>2. Len(u3 \o pl) = m + Len(pl)
    BY <1>4, <2>1, Joined
  <2> QED
    BY <2>2 DEF m, lp
<1> HIDE DEF u4
<1>9. Within(p, o, u3) /\ Within(p, o + (2 + lt + lo), pl)
  <2>1. Within(p, o, u3 \o pl)
    BY <1>3 DEF u4
  <2> QED
    BY <1>4, <1>7, <2>1, Peel, Zenon
<1>10. Within(p, o, u2) /\ Within(p, o + (2 + lt), op)
  <2>1. Within(p, o, u2 \o op)
    BY <1>9 DEF u3
  <2> QED
    BY <1>4, <1>6, <2>1, Peel, Zenon
<1>11. Within(p, o, f2) /\ Within(p, o + 2, tg)
  <2>1. Within(p, o, f2 \o tg)
    BY <1>10 DEF u2
  <2>2. 2 \in Nat
    OBVIOUS
  <2> QED
    BY <1>2, <1>4, <2>1, <2>2, Peel, Zenon
<1>12. p[o + 1] = asks.kind /\ p[o + 2] = asks.context
  <2>1. 1 \in 1 .. Len(f2) /\ 2 \in 1 .. Len(f2)
    BY <1>2
  <2>2. p[o + 1] = f2[1] /\ p[o + 2] = f2[2]
    BY <1>11, <2>1, Zenon DEF Within
  <2> QED
    BY <1>2, <2>2, Zenon
<1> DEFINE target == o + 3
           operation == After(p, target)
           payload == After(p, operation)
<1>13. /\ StringAt(p, target) /\ Characters(p, target) = ts /\ p[target] = Len(ts)
       /\ operation = o + (2 + lt) + 1
  <2> DEFINE m == o + 2
  <2>1. m \in Nat /\ m + 1 = target /\ m + 2 + Len(ts) = o + (2 + lt) + 1
    BY <1>4
  <2>2. Within(p, m, Written(ts))
    BY <1>11 DEF tg
  <2> HIDE DEF m, target
  <2>3. /\ StringAt(p, m + 1) /\ Characters(p, m + 1) = ts /\ After(p, m + 1) = m + 2 + Len(ts)
        /\ p[m + 1] = Len(ts)
    BY <1>1, <2>1, <2>2, WithinString, Zenon
  <2> QED
    BY <2>1, <2>3, Zenon
<1> HIDE DEF target, operation
<1>14. /\ StringAt(p, operation) /\ Characters(p, operation) = ns /\ p[operation] = Len(ns)
       /\ payload = o + (2 + lt + lo) + 1
  <2> DEFINE m == o + (2 + lt)
  <2>1. m \in Nat /\ m + 2 + Len(ns) = o + (2 + lt + lo) + 1
    BY <1>4, <1>5
  <2>2. Within(p, m, Written(ns))
    BY <1>10 DEF op
  <2>4. m + 1 = operation
    BY <1>13, Zenon
  <2> HIDE DEF m
  <2>3. /\ StringAt(p, m + 1) /\ Characters(p, m + 1) = ns /\ After(p, m + 1) = m + 2 + Len(ns)
        /\ p[m + 1] = Len(ns)
    BY <1>1, <2>1, <2>2, WithinString, Zenon
  <2> QED
    BY <2>1, <2>3, <2>4, Zenon
<1> HIDE DEF payload
<1>15. /\ StringAt(p, payload) /\ Characters(p, payload) = ls
       /\ After(p, payload) = o + Len(CallWords(asks)) + 1
  <2> DEFINE m == o + (2 + lt + lo)
  <2>1. m \in Nat /\ m + 2 + Len(ls) = o + (2 + lt + lo + lp) + 1
    BY <1>4, <1>5
  <2>2. Within(p, m, Written(ls))
    BY <1>9 DEF pl
  <2>4. m + 1 = payload
    BY <1>14, Zenon
  <2> HIDE DEF m
  <2>3. StringAt(p, m + 1) /\ Characters(p, m + 1) = ls /\ After(p, m + 1) = m + 2 + Len(ls)
    BY <1>1, <2>1, <2>2, WithinString, Zenon
  <2> QED
    BY <1>3, <1>8, <2>1, <2>3, <2>4, Zenon
<1> QED
  BY <1>12, <1>13, <1>14, <1>15, Zenon DEF target, operation, payload, ts, ns, ls

\* The packet ends with the words of t.
EndsWith(p, o, t) == Within(p, o, t) /\ Len(p) = o + Len(t)

\* decode_task gives back the task that encode_task has written.
LEMMA TaskRoundTrip ==
  ASSUME NEW p \in Seq(Int), NEW o \in Nat, NEW task \in Tasks, EncodableTask(task),
         EndsWith(p, o, TaskWords(task))
  PROVE  TaskAt(p, o + 1) = task
<1> DEFINE inv == task.invocation
           has == HasInvocation(task)
           pr == ToWord(task.priority)
           ns == task.name
           ks == task.kind
           dp == task.dependencies
           cm == task.command
           nd == Len(dp)
           nc == Len(cm)
           f7 == <<task.id, task.parent, pr, task.cpu, task.memory, task.timeout, task.retries>>
           nm == Written(ns)
           kd == Written(ks)
           c1 == <<nd>>
           c2 == <<nc>>
           fl == StringWords(cm)
           g1 == <<Flag(has)>>
           tl == IF has THEN CallWords(inv) ELSE <<>>
           u2 == f7 \o nm
           u3 == u2 \o kd
           u4 == u3 \o c1
           u5 == u4 \o dp
           u6 == u5 \o c2
           u7 == u6 \o fl
           u8 == u7 \o g1
           u9 == u8 \o tl
<1>1. /\ task.id \in Nat /\ task.parent \in Nat /\ task.priority \in Int /\ task.cpu \in Nat
      /\ task.memory \in Nat /\ task.timeout \in Int /\ task.timeout <= MaxTimeout /\ task.retries \in Nat
      /\ ns \in Text /\ ks \in Text /\ dp \in Seq(Nat) /\ cm \in Seq(Text)
      /\ (inv \in Invocations \/ inv = NoInvocation)
  BY DEF Tasks
<1>2. /\ FromWord(pr) = task.priority /\ task.timeout >= 0 /\ Writable(ns) /\ Writable(ks)
      /\ nd <= MaxElements /\ nc <= MaxElements /\ WritableTexts(cm)
  BY Zenon DEF EncodableTask, WritableTexts
<1>3. has => /\ cm = <<>> /\ inv.target # <<>> /\ inv.operation # <<>> /\ inv.kind \in InvocationKinds
             /\ WritableCall(inv) /\ inv \in Invocations
  BY <1>1, Zenon DEF EncodableTask, WritableCall, HasInvocation
<1>4. has \/ inv = NoInvocation
  BY Zenon DEF HasInvocation
<1>5. pr \in Nat
  <2> DEFINE x == task.priority
  <2>1. x \in Int
    BY <1>1
  <2> HIDE DEF x
  <2>2. ToWord(x) \in Nat
    BY <2>1, WireAssumption DEF ToWord
  <2> QED
    BY <2>2 DEF x
<1>6. TaskWords(task) = u9
  BY Zenon DEF TaskWords, StringWords, CallWords
<1>7. Flag(has) \in 0 .. 1 /\ (has <=> Flag(has) = 1)
  BY DEF Flag
<1> HIDE DEF inv, has, pr, ns, ks, dp, cm
<1>8. /\ f7 \in Seq(Int) /\ Len(f7) = 7 /\ f7[1] = task.id /\ f7[2] = task.parent /\ f7[3] = pr
      /\ f7[4] = task.cpu /\ f7[5] = task.memory /\ f7[6] = task.timeout /\ f7[7] = task.retries
  BY <1>1, <1>5
<1> DEFINE ln == Len(nm)
           lk == Len(kd)
           lf == Len(fl)
           l2 == 7 + ln
           l3 == l2 + lk
           l4 == l3 + 1
           l5 == l4 + nd
           l6 == l5 + 1
           l7 == l6 + lf
           l8 == l7 + 1
<1> HIDE DEF f7
<1>9. nm \in Seq(Int) /\ ln = Len(ns) + 1 /\ Len(ns) \in Nat /\ kd \in Seq(Int) /\ lk = Len(ks) + 1 /\ Len(ks) \in Nat
  BY <1>1, WrittenIs, Zenon
<1> HIDE DEF nm, kd
<1>10. ln \in Nat /\ lk \in Nat /\ nd \in Nat /\ nc \in Nat /\ dp \in Seq(Int)
  <2>1. dp \in Seq(Int) /\ nd \in Nat /\ nc \in Nat
    BY <1>1
  <2> HIDE DEF ln, lk, nd, nc
  <2> QED
    BY <1>9, <2>1
<1>11. fl \in Seq(Int) /\ lf \in Nat
  <2>1. fl \in Seq(Int)
    <3> DEFINE parts == [i \in DOMAIN cm |-> Written(cm[i])]
    <3>1. DOMAIN cm = 1 .. nc /\ \A i \in 1 .. nc : cm[i] \in Text
      BY <1>1
    <3>2. \A i \in 1 .. nc : Written(cm[i]) \in Seq(Int)
      BY <3>1, WrittenIs
    <3>3. parts \in Seq(Seq(Int))
      BY <1>10, <3>1, <3>2
    <3> HIDE DEF parts
    <3>4. Seqs!FlattenSeq(parts) \in Seq(Int)
      BY <3>3, FlattenedAre
    <3> QED
      BY <3>4 DEF parts, StringWords
  <2> HIDE DEF fl
  <2> QED
    BY <2>1
<1> HIDE DEF nd, nc, fl
<1>12. c1 \in Seq(Int) /\ Len(c1) = 1 /\ c1[1] = nd /\ c2 \in Seq(Int) /\ Len(c2) = 1 /\ c2[1] = nc
  BY <1>10
<1>13. g1 \in Seq(Int) /\ Len(g1) = 1 /\ g1[1] = Flag(has)
  BY <1>7
<1>14. tl \in Seq(Int) /\ Len(tl) \in Nat
  <2>1. CASE has
    <3>1. CallWords(inv) \in Seq(Int)
      BY <1>3, <2>1 DEF CallWords, Invocations, Written, Text
    <3> HIDE DEF tl
    <3> QED
      BY <2>1, <3>1 DEF tl
  <2>2. CASE ~has
    BY <2>2
  <2> QED
    BY <2>1, <2>2
<1> HIDE DEF c1, c2, g1, tl, ln, lk, lf
<1>15. /\ l2 \in Nat /\ l3 \in Nat /\ l4 \in Nat /\ l5 \in Nat /\ l6 \in Nat /\ l7 \in Nat /\ l8 \in Nat
       /\ l3 = l2 + lk /\ l4 = l3 + 1 /\ l5 = l4 + nd /\ l6 = l5 + 1 /\ l7 = l6 + lf /\ l8 = l7 + 1 /\ l2 = 7 + ln
  BY <1>10, <1>11
<1> HIDE DEF l2, l3, l4, l5, l6, l7, l8
<1>16. /\ o + l2 \in Nat /\ o + l3 \in Nat /\ o + l4 \in Nat /\ o + l5 \in Nat /\ o + l6 \in Nat
       /\ o + l7 \in Nat /\ o + l8 \in Nat
  <2>1. /\ l2 \in Nat /\ l3 \in Nat /\ l4 \in Nat /\ l5 \in Nat /\ l6 \in Nat /\ l7 \in Nat /\ l8 \in Nat
    BY <1>15, Zenon
  <2> QED
    BY <2>1
<1>17. /\ o + l6 + 1 + lf = o + l7 + 1
  <2>1. l6 \in Nat /\ lf \in Nat /\ l7 = l6 + lf
    BY <1>11, <1>15, Zenon
  <2> QED
    BY <2>1
<1>18. 1 \in 1 .. Len(c1) /\ 1 \in 1 .. Len(c2) /\ 1 \in 1 .. Len(g1)
  <2>1. 1 \in 1 .. 1
    OBVIOUS
  <2> QED
    BY <1>12, <1>13, <2>1, Zenon
<1>22. u2 \in Seq(Int) /\ Len(u2) = l2
  <2>1. 7 \in Nat
    OBVIOUS
  <2>2. u2 \in Seq(Int) /\ Len(u2) = 7 + Len(nm)
    <3>1. f7 \in Seq(Int) /\ Len(f7) = 7 /\ nm \in Seq(Int)
      BY <1>8, <1>9, Zenon
    <3>2. u2 \in Seq(Int) /\ Len(u2) = Len(f7) + Len(nm)
      BY <3>1, ConcatWithin, Zenon
    <3> QED
      BY <3>1, <3>2, Zenon
  <2> QED
    BY <2>2 DEF l2, ln
<1> HIDE DEF u2
<1>23. u3 \in Seq(Int) /\ Len(u3) = l3
  BY <1>9, <1>15, <1>22, Joined DEF lk
<1> HIDE DEF u3
<1>24. u4 \in Seq(Int) /\ Len(u4) = l4
  <2>1. u4 \in Seq(Int) /\ Len(u4) = l3 + Len(c1)
    BY <1>12, <1>15, <1>23, Joined, Zenon
  <2> QED
    BY <1>12, <1>15, <2>1, Zenon
<1> HIDE DEF u4
<1>25. u5 \in Seq(Int) /\ Len(u5) = l5
  BY <1>10, <1>15, <1>24, Joined DEF nd
<1> HIDE DEF u5
<1>26. u6 \in Seq(Int) /\ Len(u6) = l6
  <2>1. u6 \in Seq(Int) /\ Len(u6) = l5 + Len(c2)
    BY <1>12, <1>15, <1>25, Joined, Zenon
  <2> QED
    BY <1>12, <1>15, <2>1, Zenon
<1> HIDE DEF u6
<1>27. u7 \in Seq(Int) /\ Len(u7) = l7
  BY <1>11, <1>15, <1>26, Joined DEF lf
<1> HIDE DEF u7
<1>28. u8 \in Seq(Int) /\ Len(u8) = l8
  <2>1. u8 \in Seq(Int) /\ Len(u8) = l7 + Len(g1)
    BY <1>13, <1>15, <1>27, Joined, Zenon
  <2> QED
    BY <1>13, <1>15, <2>1, Zenon
<1> HIDE DEF u8
<1>29. Len(p) = o + (l8 + Len(tl)) /\ Within(p, o, u9)
  <2>1. Len(u9) = l8 + Len(tl)
    BY <1>14, <1>15, <1>28, Joined, Zenon
  <2> HIDE DEF u9
  <2> QED
    BY <1>6, <2>1, Zenon DEF EndsWith
<1>38. Within(p, o, u8) /\ Within(p, o + l8, tl)
  <2>1. Within(p, o, u8 \o tl)
    BY <1>29
  <2> QED
    BY <1>14, <1>15, <1>28, <2>1, Peel, Zenon
<1>37. Within(p, o, u7) /\ Within(p, o + l7, g1)
  <2>1. Within(p, o, u7 \o g1)
    BY <1>38 DEF u8
  <2> QED
    BY <1>13, <1>15, <1>27, <2>1, Peel, Zenon
<1>36. Within(p, o, u6) /\ Within(p, o + l6, fl)
  <2>1. Within(p, o, u6 \o fl)
    BY <1>37 DEF u7
  <2> QED
    BY <1>11, <1>15, <1>26, <2>1, Peel, Zenon
<1>35. Within(p, o, u5) /\ Within(p, o + l5, c2)
  <2>1. Within(p, o, u5 \o c2)
    BY <1>36 DEF u6
  <2> QED
    BY <1>12, <1>15, <1>25, <2>1, Peel, Zenon
<1>34. Within(p, o, u4) /\ Within(p, o + l4, dp)
  <2>1. Within(p, o, u4 \o dp)
    BY <1>35 DEF u5
  <2> QED
    BY <1>10, <1>15, <1>24, <2>1, Peel, Zenon
<1>33. Within(p, o, u3) /\ Within(p, o + l3, c1)
  <2>1. Within(p, o, u3 \o c1)
    BY <1>34 DEF u4
  <2> QED
    BY <1>12, <1>15, <1>23, <2>1, Peel, Zenon
<1>32. Within(p, o, u2) /\ Within(p, o + l2, kd)
  <2>1. Within(p, o, u2 \o kd)
    BY <1>33 DEF u3
  <2> QED
    BY <1>9, <1>15, <1>22, <2>1, Peel, Zenon
<1>31. Within(p, o, f7) /\ Within(p, o + 7, nm)
  <2>1. Within(p, o, f7 \o nm)
    BY <1>32 DEF u2
  <2>2. 7 \in Nat
    OBVIOUS
  <2> QED
    BY <1>8, <1>9, <2>1, <2>2, Peel, Zenon
<1> HIDE DEF u9
<1> DEFINE i == o + 1
           name == i + 7
           kind == After(p, name)
           dependencies == After(p, kind)
           arguments == dependencies + 1 + p[dependencies]
           starts == Starts(p, arguments + 1, p[arguments])
           flag == starts[p[arguments]]
           target == flag + 3
           operation == After(p, target)
           payload == After(p, operation)
           invoked == p[flag] = 1
<1>41. /\ p[i] = task.id /\ p[i + 1] = task.parent /\ p[i + 2] = pr /\ p[i + 3] = task.cpu
       /\ p[i + 4] = task.memory /\ p[i + 5] = task.timeout /\ p[i + 6] = task.retries
  <2>1. \A j \in 1 .. 7 : p[o + j] = f7[j]
    BY <1>8, <1>31 DEF Within
  <2>2. /\ i = o + 1 /\ i + 1 = o + 2 /\ i + 2 = o + 3 /\ i + 3 = o + 4 /\ i + 4 = o + 5 /\ i + 5 = o + 6
        /\ i + 6 = o + 7
    OBVIOUS
  <2> HIDE DEF i
  <2>3. /\ p[i] = f7[1] /\ p[i + 1] = f7[2] /\ p[i + 2] = f7[3] /\ p[i + 3] = f7[4]
        /\ p[i + 4] = f7[5] /\ p[i + 5] = f7[6] /\ p[i + 6] = f7[7]
    BY <2>1, <2>2
  <2> QED
    BY <1>8, <2>3, Zenon
<1>42. name = o + 7 + 1 /\ Words(p, i, 7)
  <2>1. name = o + 7 + 1
    OBVIOUS
  <2>2. Words(p, i, 7)
    BY <1>8, <1>31 DEF Words, Within
  <2> QED
    BY <2>1, <2>2
<1> HIDE DEF i, name
<1>43. StringAt(p, name) /\ Characters(p, name) = ns /\ kind = o + l2 + 1
  <2> DEFINE m == o + 7
  <2>1. m \in Nat /\ m + 2 + Len(ns) = o + l2 + 1
    BY <1>9, <1>15
  <2>2. Within(p, m, Written(ns))
    BY <1>31 DEF nm
  <2> HIDE DEF m
  <2>3. StringAt(p, m + 1) /\ Characters(p, m + 1) = ns /\ After(p, m + 1) = m + 2 + Len(ns)
    BY <1>1, <1>2, <2>1, <2>2, WithinString, Zenon
  <2> QED
    BY <1>42, <2>1, <2>3, Zenon DEF m
<1> HIDE DEF kind
<1>44. StringAt(p, kind) /\ Characters(p, kind) = ks /\ dependencies = o + l3 + 1
  <2> DEFINE m == o + l2
  <2>1. m \in Nat /\ m + 2 + Len(ks) = o + l3 + 1
    BY <1>9, <1>15
  <2>2. Within(p, m, Written(ks))
    BY <1>32 DEF kd
  <2> HIDE DEF m
  <2>3. StringAt(p, m + 1) /\ Characters(p, m + 1) = ks /\ After(p, m + 1) = m + 2 + Len(ks)
    BY <1>1, <1>2, <2>1, <2>2, WithinString, Zenon
  <2> QED
    BY <1>43, <2>1, <2>3, Zenon DEF m
<1> HIDE DEF dependencies
<1>45. /\ p[dependencies] = nd /\ Words(p, dependencies, 1) /\ Words(p, dependencies + 1, nd)
       /\ SubSeq(p, dependencies + 1, dependencies + nd) = dp /\ arguments = o + l5 + 1
  <2>1. 1 \in 1 .. Len(c1) /\ o + l3 \in Nat /\ o + l4 \in Nat
    BY <1>16, <1>18, Zenon
  <2>2. p[o + l3 + 1] = c1[1]
    BY <1>33, <2>1, Zenon DEF Within
  <2>3. p[dependencies] = nd
    BY <1>12, <1>44, <2>2, Zenon
  <2>4. o + l4 + nd <= Len(p) /\ SubSeq(p, o + l4 + 1, o + l4 + nd) = dp
    BY <1>10, <1>34, <2>1, WithinSubSeq, Zenon DEF Within, nd
  <2>5. dependencies \in Nat /\ dependencies + 1 = o + l4 + 1 /\ dependencies + nd = o + l4 + nd
    BY <1>10, <1>15, <1>44
  <2>6. Words(p, dependencies, 1) /\ Words(p, dependencies + 1, nd)
    <3>1. Len(p) \in Nat
      OBVIOUS
    <3> QED
      BY <1>10, <2>4, <2>5, <3>1 DEF Words
  <2>7. SubSeq(p, dependencies + 1, dependencies + nd) = dp
    BY <2>4, <2>5, Zenon
  <2>8. dependencies + 1 + nd = o + l5 + 1
    BY <1>10, <1>15, <1>44
  <2> QED
    BY <2>3, <2>6, <2>7, <2>8, Zenon
<1> HIDE DEF arguments
<1>46. p[arguments] = nc /\ Words(p, arguments, 1) /\ arguments + 1 = o + l6 + 1
  <2>1. 1 \in 1 .. Len(c2) /\ o + l5 \in Nat
    BY <1>16, <1>18, Zenon
  <2>2. p[o + l5 + 1] = c2[1] /\ o + l5 + Len(c2) <= Len(p)
    BY <1>35, <2>1, Zenon DEF Within
  <2>3. p[arguments] = nc
    BY <1>12, <1>45, <2>2, Zenon
  <2>4. o + l5 + 1 <= Len(p)
    BY <1>12, <2>2, Zenon
  <2>5. Words(p, arguments, 1)
    BY <1>45, <2>1, <2>4 DEF Words
  <2>6. arguments + 1 = o + l6 + 1
    BY <1>15, <1>45
  <2> QED
    BY <2>3, <2>5, <2>6, Zenon
<1>47. /\ flag = o + l7 + 1
       /\ \A j \in 1 .. nc : StringAt(p, starts[j - 1]) /\ Characters(p, starts[j - 1]) = cm[j]
  <2> DEFINE m == o + l6
             first == Starts(p, m + 1, Len(cm))
  <2>1. m \in Nat /\ m + 1 + lf = o + l7 + 1
    BY <1>16, <1>17, Zenon
  <2>2. Within(p, m, StringWords(cm))
    BY <1>36 DEF fl
  <2> HIDE DEF m
  <2>3. /\ first[Len(cm)] = m + 1 + Len(StringWords(cm))
        /\ \A j \in 1 .. Len(cm) : StringAt(p, first[j - 1]) /\ Characters(p, first[j - 1]) = cm[j]
    BY <1>1, <1>2, <2>1, <2>2, StringsAt, Zenon
  <2>4. starts = first
    BY <1>46, Zenon DEF nc, m
  <2> HIDE DEF starts, first
  <2> QED
    BY <1>46, <2>1, <2>3, <2>4, Zenon DEF nc, lf, fl
<1> HIDE DEF starts, flag
<1>48. p[flag] = Flag(has) /\ Words(p, flag, 1) /\ (invoked <=> has)
  <2>1. 1 \in 1 .. Len(g1) /\ o + l7 \in Nat
    BY <1>16, <1>18, Zenon
  <2>2. p[o + l7 + 1] = g1[1] /\ o + l7 + Len(g1) <= Len(p)
    BY <1>37, <2>1, Zenon DEF Within
  <2>3. p[flag] = Flag(has)
    BY <1>13, <1>47, <2>2, Zenon
  <2>4. o + l7 + 1 <= Len(p)
    BY <1>13, <2>2, Zenon
  <2>5. Words(p, flag, 1)
    BY <1>47, <2>1, <2>4 DEF Words
  <2> QED
    BY <1>7, <2>3, <2>5, Zenon
<1>49. has => /\ Words(p, flag + 1, 2) /\ p[flag + 1] = inv.kind /\ p[flag + 2] = inv.context
              /\ StringAt(p, target) /\ StringAt(p, operation) /\ StringAt(p, payload)
              /\ Characters(p, target) = inv.target /\ Characters(p, operation) = inv.operation
              /\ Characters(p, payload) = inv.payload
              /\ p[target] # 0 /\ p[operation] # 0
              /\ Len(p) = After(p, payload) - 1
  <2> SUFFICES ASSUME has
               PROVE  /\ Words(p, flag + 1, 2) /\ p[flag + 1] = inv.kind /\ p[flag + 2] = inv.context
                      /\ StringAt(p, target) /\ StringAt(p, operation) /\ StringAt(p, payload)
                      /\ Characters(p, target) = inv.target /\ Characters(p, operation) = inv.operation
                      /\ Characters(p, payload) = inv.payload
                      /\ p[target] # 0 /\ p[operation] # 0
                      /\ Len(p) = After(p, payload) - 1
    OBVIOUS
  <2> DEFINE m == o + l8
             tw == CallWords(inv)
             lw == Len(tw)
             ts == inv.target
             os == inv.operation
  <2>1. tl = tw /\ inv \in Invocations /\ WritableCall(inv) /\ Within(p, m, tw)
    BY <1>3, <1>38, Zenon DEF tl
  <2>2. m \in Nat /\ flag = m
    <3>1. l8 = l7 + 1 /\ l7 \in Nat /\ l8 \in Nat
      BY <1>15, Zenon
    <3> QED
      BY <1>47, <3>1
  <2>3. m + 1 = flag + 1 /\ m + 2 = flag + 2 /\ m + 3 = target
    BY <2>2, Zenon
  <2>4. Len(p) = m + lw /\ lw \in Nat
    <3>1. l8 \in Nat /\ Len(p) = o + (l8 + lw) /\ lw \in Nat
      BY <1>14, <1>15, <1>29, <2>1, Zenon
    <3> HIDE DEF lw
    <3> QED
      BY <3>1
  <2> HIDE DEF m, target
  <2>5. /\ p[m + 1] = inv.kind /\ p[m + 2] = inv.context
        /\ StringAt(p, target) /\ StringAt(p, operation) /\ StringAt(p, payload)
        /\ Characters(p, target) = inv.target /\ Characters(p, operation) = inv.operation
        /\ Characters(p, payload) = inv.payload
        /\ p[target] = Len(ts) /\ p[operation] = Len(os)
        /\ After(p, payload) = m + lw + 1
    BY <2>1, <2>2, <2>3, CallAt, Zenon
  <2>6. Len(ts) # 0 /\ Len(os) # 0
    <3>1. ts \in Seq(Nat) /\ os \in Seq(Nat) /\ ts # <<>> /\ os # <<>>
      BY <1>3, <2>1 DEF Invocations, Text
    <3> HIDE DEF ts, os
    <3> QED
      BY <3>1
  <2> HIDE DEF operation, payload, ts, os
  <2>7. Len(p) = After(p, payload) - 1
    <3> HIDE DEF lw
    <3> QED
      BY <2>2, <2>4, <2>5
  <2>8. Words(p, flag + 1, 2)
    <3>1. lw >= 2
      BY <2>1 DEF CallWords, Written, Invocations, Text
    <3> HIDE DEF lw
    <3> QED
      BY <2>2, <2>4, <3>1 DEF Words
  <2> QED
    BY <2>3, <2>5, <2>6, <2>7, <2>8, Zenon
<1>50. ~has => Len(p) = flag
  <2>1. ~has => Len(tl) = 0
    BY DEF tl
  <2>2. l8 \in Nat /\ l7 \in Nat /\ l8 = l7 + 1
    BY <1>15, Zenon
  <2> HIDE DEF flag
  <2> QED
    BY <1>29, <1>47, <2>1, <2>2
<1>51. /\ Words(p, i, 7)
       /\ StringAt(p, name) /\ StringAt(p, kind)
       /\ p[i + 5] <= MaxTimeout
       /\ Words(p, dependencies, 1) /\ p[dependencies] <= MaxElements
       /\ Words(p, dependencies + 1, p[dependencies])
       /\ Words(p, arguments, 1) /\ p[arguments] <= MaxElements
       /\ \A j \in 1 .. p[arguments] : StringAt(p, starts[j - 1])
       /\ Words(p, flag, 1) /\ p[flag] <= 1
       /\ invoked =>
            /\ Words(p, flag + 1, 2) /\ p[flag + 1] \in InvocationKinds
            /\ StringAt(p, target) /\ StringAt(p, operation) /\ StringAt(p, payload)
            /\ p[target] # 0 /\ p[operation] # 0
       /\ Len(p) = IF invoked THEN After(p, payload) - 1 ELSE flag
  <2> HIDE DEF target, operation, payload
  <2>1. p[flag] <= 1
    BY <1>7, <1>48
  <2>2. p[i + 5] <= MaxTimeout
    BY <1>1, <1>41, Zenon
  <2>3. p[dependencies] <= MaxElements /\ p[arguments] <= MaxElements
    BY <1>2, <1>45, <1>46, Zenon
  <2> HIDE DEF invoked
  <2> QED
    BY <1>3, <1>42, <1>43, <1>44, <1>45, <1>46, <1>47, <1>48, <1>49, <1>50, <2>1, <2>2, <2>3, Zenon
<1> DEFINE decoded ==
      [id |-> p[i], parent |-> p[i + 1], priority |-> FromWord(p[i + 2]),
       cpu |-> p[i + 3], memory |-> p[i + 4], timeout |-> p[i + 5],
       retries |-> p[i + 6],
       name |-> Characters(p, name), kind |-> Characters(p, kind),
       dependencies |-> SubSeq(p, dependencies + 1, dependencies + p[dependencies]),
       command |-> [j \in 1 .. p[arguments] |-> Characters(p, starts[j - 1])],
       invocation |->
         IF invoked
         THEN [kind |-> p[flag + 1], context |-> p[flag + 2],
               target |-> Characters(p, target), operation |-> Characters(p, operation),
               payload |-> Characters(p, payload)]
         ELSE NoInvocation]
<1>52. decoded = task
  <2> HIDE DEF target, operation, payload
  <2>1. task = [id |-> task.id, parent |-> task.parent, priority |-> task.priority, cpu |-> task.cpu,
                memory |-> task.memory, timeout |-> task.timeout, retries |-> task.retries,
                name |-> task.name, kind |-> task.kind, dependencies |-> task.dependencies,
                command |-> task.command, invocation |-> task.invocation]
    BY DEF Tasks
  <2>2. [j \in 1 .. p[arguments] |-> Characters(p, starts[j - 1])] = cm
    <3>1. cm = [j \in 1 .. nc |-> cm[j]]
      BY <1>1 DEF nc
    <3> QED
      BY <1>46, <1>47, <3>1, Zenon
  <2> DEFINE called == IF invoked
                       THEN [kind |-> p[flag + 1], context |-> p[flag + 2],
                             target |-> Characters(p, target), operation |-> Characters(p, operation),
                             payload |-> Characters(p, payload)]
                       ELSE NoInvocation
  <2>3. called = inv
    <3>1. CASE has
      <4>1. inv = [kind |-> inv.kind, context |-> inv.context, target |-> inv.target,
                   operation |-> inv.operation, payload |-> inv.payload]
        BY <1>3, <3>1 DEF Invocations
      <4> HIDE DEF invoked
      <4> QED
        BY <1>48, <1>49, <3>1, <4>1, Zenon
    <3>2. CASE ~has
      BY <1>4, <1>48, <3>2, Zenon
    <3> QED
      BY <3>1, <3>2
  <2>4. FromWord(p[i + 2]) = task.priority
    BY <1>2, <1>41, Zenon
  <2>5. SubSeq(p, dependencies + 1, dependencies + p[dependencies]) = dp
    BY <1>45, Zenon
  <2> HIDE DEF called
  <2>6. decoded = [id |-> p[i], parent |-> p[i + 1], priority |-> task.priority,
                   cpu |-> p[i + 3], memory |-> p[i + 4], timeout |-> p[i + 5],
                   retries |-> p[i + 6], name |-> ns, kind |-> ks, dependencies |-> dp,
                   command |-> cm, invocation |-> inv]
    BY <1>43, <1>44, <2>2, <2>3, <2>4, <2>5, Zenon DEF called
  <2> HIDE DEF decoded
  <2> QED
    BY <1>41, <2>1, <2>6, Zenon DEF ns, ks, dp, cm, inv
<1>53. TaskAt(p, i) = decoded
  BY <1>51, Zenon DEF TaskAt, name, kind, dependencies, arguments, starts, flag
<1> HIDE DEF decoded
<1> QED
  BY <1>52, <1>53, Zenon DEF i

\* encode_task writes words.
LEMMA TaskWordsAre ==
  ASSUME NEW task \in Tasks
  PROVE  TaskWords(task) \in Seq(Int)
<1> DEFINE pr == ToWord(task.priority)
           cm == task.command
           parts == [i \in DOMAIN cm |-> Written(cm[i])]
           fl == Seqs!FlattenSeq(parts)
           asks == task.invocation
           tl == IF HasInvocation(task)
                 THEN <<asks.kind, asks.context>>
                        \o Written(asks.target) \o Written(asks.operation) \o Written(asks.payload)
                 ELSE <<>>
           has == Flag(HasInvocation(task))
<1>1. /\ task.id \in Nat /\ task.parent \in Nat /\ task.cpu \in Nat /\ task.memory \in Nat
      /\ task.timeout \in Int /\ task.retries \in Nat /\ task.priority \in Int
      /\ task.name \in Text /\ task.kind \in Text /\ task.dependencies \in Seq(Nat) /\ cm \in Seq(Text)
      /\ (asks \in Invocations \/ asks = NoInvocation)
  BY DEF Tasks
<1>2. pr \in Int
  <2> DEFINE x == task.priority
  <2>1. x \in Int
    BY <1>1
  <2> HIDE DEF x
  <2>2. ToWord(x) \in Int
    BY <2>1, WireAssumption DEF ToWord
  <2> QED
    BY <2>2 DEF x
<1>3. fl \in Seq(Int)
  <2>1. Len(cm) \in Nat /\ DOMAIN cm = 1 .. Len(cm) /\ \A i \in 1 .. Len(cm) : cm[i] \in Text
    BY <1>1
  <2>2. \A i \in 1 .. Len(cm) : Written(cm[i]) \in Seq(Int)
    BY <2>1, WrittenIs
  <2>3. parts \in Seq(Seq(Int))
    BY <2>1, <2>2
  <2> HIDE DEF parts
  <2> QED
    BY <2>3, FlattenedAre
<1>4. tl \in Seq(Int)
  <2>1. CASE HasInvocation(task)
    <3>1. asks \in Invocations
      BY <1>1, <2>1 DEF HasInvocation
    <3> HIDE DEF asks
    <3>2. <<asks.kind, asks.context>> \o Written(asks.target) \o Written(asks.operation)
            \o Written(asks.payload) \in Seq(Int)
      BY <3>1 DEF Invocations, Written, Text
    <3> QED
      BY <2>1, <3>2, Zenon
  <2>2. CASE ~HasInvocation(task)
    <3>1. <<>> \in Seq(Int)
      OBVIOUS
    <3> QED
      BY <2>2, <3>1, Zenon
  <2> QED
    BY <2>1, <2>2
<1>5. has \in Int
  BY DEF Flag
<1> DEFINE ns == Written(task.name)
           ks == Written(task.kind)
           dp == task.dependencies
           nd == Len(dp)
           nc == Len(cm)
<1>6. ns \in Seq(Int) /\ ks \in Seq(Int) /\ dp \in Seq(Int) /\ nd \in Int /\ nc \in Int
  <2>1. ns \in Seq(Int) /\ ks \in Seq(Int)
    BY <1>1, WrittenIs
  <2> HIDE DEF ns, ks
  <2> QED
    BY <1>1, <2>1
<1> DEFINE f7 == <<task.id, task.parent, pr, task.cpu, task.memory, task.timeout, task.retries>>
<1>7. f7 \in Seq(Int)
  <2> HIDE DEF pr
  <2> QED
    BY <1>1, <1>2
<1>8. TaskWords(task) = f7 \o ns \o ks \o <<nd>> \o dp \o <<nc>> \o fl \o <<has>> \o tl
  BY Zenon DEF TaskWords
<1> HIDE DEF f7, ns, ks, dp, nd, nc, fl, has, tl
<1>9. f7 \o ns \o ks \o <<nd>> \o dp \o <<nc>> \o fl \o <<has>> \o tl \in Seq(Int)
  BY <1>3, <1>4, <1>5, <1>6, <1>7
<1> QED
  BY <1>8, <1>9

\* A request as it is before finish_message: the header, the target, the task.
LEMMA RequestWords ==
  ASSUME NEW r \in ControlRequests
  PROVE  LET h == Header(ControlMagic, ControlVersion, r.operation) \o <<r.target>>
             tw == TaskWords(r.task)
             q == h \o tw
         IN  /\ q \in Seq(Int) /\ Len(q) = 5 + Len(tw) /\ Len(tw) \in Nat /\ tw \in Seq(Int)
             /\ Within(q, 0, h) /\ Within(q, 5, tw)
<1> DEFINE task == r.task
           tw == TaskWords(task)
           ta == <<r.target>>
           hd == Header(ControlMagic, ControlVersion, r.operation)
           q == hd \o ta \o tw
           lt == Len(tw)
<1>1. r.operation \in Operations /\ r.target \in Nat /\ task \in Tasks
  BY DEF ControlRequests
<1>2. tw \in Seq(Int)
  BY <1>1, TaskWordsAre
<1>4. r.operation \in Int /\ ControlVersion \in Int /\ ControlMagic \in Int
  BY <1>1 DEF Operations, Ping, ReleaseResult, ControlVersion, ControlMagic
<1>5. ta \in Seq(Int) /\ Len(ta) = 1 /\ ta[1] = r.target
  BY <1>1
<1>6. hd \in Seq(Int) /\ Len(hd) = 4
  BY <1>4 DEF Header
<1> HIDE DEF task, tw, ta, hd
<1>7. hd \o ta \in Seq(Int) /\ Len(hd \o ta) = 5
  <2>1. hd \o ta \in Seq(Int) /\ Len(hd \o ta) = Len(hd) + Len(ta)
    BY <1>5, <1>6, ConcatWithin, Zenon
  <2> DEFINE u == hd \o ta
  <2> HIDE DEF u
  <2>2. Len(u) = 4 + 1
    BY <1>5, <1>6, <2>1, Zenon DEF u
  <2>3. Len(u) = 5
    BY <2>2
  <2> QED
    BY <2>1, <2>3 DEF u
<1>8. /\ q \in Seq(Int) /\ Len(q) = 5 + lt /\ lt \in Nat /\ Within(q, 0, hd \o ta) /\ Within(q, 5, tw)
  <2> DEFINE u == hd \o ta
  <2>1. u \in Seq(Int) /\ Len(u) = 5
    BY <1>7
  <2> HIDE DEF u
  <2>2. /\ u \o tw \in Seq(Int) /\ Len(u \o tw) = Len(u) + Len(tw)
        /\ Within(u \o tw, 0, u) /\ Within(u \o tw, Len(u), tw)
    BY <1>2, <2>1, ConcatWithin, Zenon
  <2>3. lt \in Nat
    BY <1>2
  <2> QED
    BY <2>1, <2>2, <2>3, Zenon DEF u
<1> QED
  BY <1>2, <1>8, Zenon DEF q, lt, tw, ta, hd, task

\* What a daemon decodes is what its client has encoded: every task that can be
\* written is read back, whatever its strings, lists and invocation.
THEOREM ControlRequestRoundTrip ==
  ASSUME NEW r \in ControlRequests, EncodeControlRequest(r) # NoPacket
  PROVE  DecodeControlRequest(EncodeControlRequest(r)) = r
<1> DEFINE task == r.task
           tw == TaskWords(task)
           ta == <<r.target>>
           hd == Header(ControlMagic, ControlVersion, r.operation)
           q == hd \o ta \o tw
           p == FinishMessage(q)
           lt == Len(tw)
<1>1. r.operation \in Operations /\ r.target \in Nat /\ task \in Tasks
  BY DEF ControlRequests
<1>2. EncodableTask(task) /\ EncodeControlRequest(r) = p /\ p # NoPacket
  BY Zenon DEF EncodeControlRequest
<1>3. /\ tw \in Seq(Int) /\ q \in Seq(Int) /\ Len(q) = 5 + lt /\ lt \in Nat
      /\ Within(q, 0, hd \o ta) /\ Within(q, 5, tw)
  BY RequestWords, Zenon
<1>4. r.operation \in Int /\ ControlVersion \in Int /\ ControlMagic \in Int
  BY <1>1 DEF Operations, Ping, ReleaseResult, ControlVersion, ControlMagic
<1>5. ta \in Seq(Int) /\ Len(ta) = 1 /\ ta[1] = r.target
  BY <1>1
<1> HIDE DEF task, tw, ta, hd
<1>8. /\ q \in Seq(Int) /\ Len(q) = 5 + lt /\ lt \in Nat /\ Within(q, 0, hd \o ta) /\ Within(q, 5, tw)
  BY <1>3, Zenon
<1> HIDE DEF q, lt
<1>9. Headed(p, ControlMagic, ControlVersion, r.operation, ta)
  BY <1>2, <1>4, <1>5, <1>8, HeaderWithin, Zenon DEF hd
<1>10. p \in Seq(Int) /\ Len(p) = Len(q)
  <2>1. Len(q) >= HeaderSize
    BY <1>8 DEF HeaderSize
  <2> QED
    BY <1>2, <1>8, <2>1, FinishIs, Zenon
<1>11. EndsWith(p, 5, tw)
  <2>1. 5 \in Nat /\ 5 >= HeaderSize
    BY DEF HeaderSize
  <2>2. Within(p, 5, tw)
    BY <1>2, <1>3, <1>8, <2>1, WithinFinish
  <2> HIDE DEF p
  <2>3. Len(p) = 5 + Len(tw)
    BY <1>8, <1>10, Zenon DEF lt
  <2> QED
    BY <2>2, <2>3, Zenon DEF EndsWith
<1> HIDE DEF p
<1>12. TaskAt(p, 6) = task
  <2>1. 5 \in Nat /\ 5 + 1 = 6
    OBVIOUS
  <2>2. TaskAt(p, 5 + 1) = task
    BY <1>1, <1>2, <1>10, <1>11, <2>1, TaskRoundTrip DEF tw
  <2> QED
    BY <2>1, <2>2
<1>13. task # NoTask
  <2>1. task.id \in Nat /\ NoTask.id = -1
    BY <1>1 DEF Tasks, NoTask
  <2>2. -1 \notin Nat
    OBVIOUS
  <2> QED
    BY <2>1, <2>2, Zenon
<1>14. /\ HeaderOK(p, ControlMagic, ControlVersion, Operations) /\ p[3] = r.operation /\ p[5] = r.target
       /\ Words(p, 5, 1)
  <2>1. 1 \in 1 .. Len(ta) /\ 4 + 1 = 5
    BY <1>5
  <2>2. p[5] = r.target
    BY <1>5, <1>9, <2>1 DEF Headed, HeaderSize
  <2>3. HeaderOK(p, ControlMagic, ControlVersion, Operations) /\ p[3] = r.operation
    BY <1>1, <1>9, Zenon DEF Headed, HeaderOK
  <2>4. Words(p, 5, 1)
    BY <1>8, <1>10 DEF Words
  <2> QED
    BY <2>2, <2>3, <2>4
<1>15. DecodeControlRequest(p) = [operation |-> r.operation, target |-> r.target, task |-> task]
  <2>1. HeaderSize + 1 = 5 /\ HeaderSize + 2 = 6
    BY DEF HeaderSize
  <2> QED
    BY <1>12, <1>13, <1>14, <2>1 DEF DecodeControlRequest
<1>16. r = [operation |-> r.operation, target |-> r.target, task |-> task]
  BY DEF ControlRequests, task
<1> QED
  BY <1>2, <1>15, <1>16, Zenon

-----------------------------------------------------------------------------
(* ControlProtocol: responses *)

\* encode_agent writes words.
LEMMA AgentWordsAre ==
  ASSUME NEW a \in AgentInfos
  PROVE  AgentWords(a) \in Seq(Int) /\ Len(AgentWords(a)) \in Nat
<1> DEFINE pr == ToWord(a.process)
           nm == Written(a.name)
           kd == Written(a.kind)
           er == Written(a.error)
           c == a.counters
           hit == Flag(a.cacheHit)
           f7 == <<a.id, a.parent, a.state, pr, a.unresolved, a.retries, a.context>>
<1>1. /\ a.id \in Nat /\ a.parent \in Nat /\ a.state \in Int /\ a.process \in SignedWords
      /\ a.unresolved \in Int /\ a.retries \in Nat /\ a.context \in Nat /\ c \in Seq(Int)
      /\ a.name \in Text /\ a.kind \in Text /\ a.error \in Text
  BY DEF AgentInfos, Counters, AgentStates
<1>2. pr \in Int /\ hit \in Int
  <2>1. pr \in Nat
    BY <1>1, WordRoundTrip, Zenon
  <2>2. hit \in Int
    BY DEF Flag
  <2> HIDE DEF pr
  <2> QED
    BY <2>1, <2>2
<1>3. nm \in Seq(Int) /\ kd \in Seq(Int) /\ er \in Seq(Int)
  BY <1>1, WrittenIs, Zenon
<1> HIDE DEF pr, nm, kd, er, hit
<1>4. f7 \in Seq(Int)
  BY <1>1, <1>2
<1>5. AgentWords(a) = f7 \o c \o <<hit>> \o nm \o kd \o er
  BY Zenon DEF AgentWords, pr, nm, kd, er, hit
<1> HIDE DEF f7, c
<1> DEFINE w == f7 \o c \o <<hit>> \o nm \o kd \o er
<1>6. w \in Seq(Int)
  BY <1>1, <1>2, <1>3, <1>4
<1> HIDE DEF w
<1>7. Len(w) \in Nat
  BY <1>6
<1> QED
  BY <1>5, <1>6, <1>7, Zenon DEF w

\* The words of a list of agents, and what the decoder finds in it.
AgentListWords(agents) == Seqs!FlattenSeq([i \in DOMAIN agents |-> AgentWords(agents[i])])
WritableAgents(agents) == \A i \in DOMAIN agents : WritableAgent(agents[i])

\* A list of agents is read back as it was written.
LEMMA AgentsAt ==
  ASSUME NEW p \in Seq(Int), NEW o \in Nat, NEW agents \in Seq(AgentInfos),
         WritableAgents(agents), Within(p, o, AgentListWords(agents))
  PROVE  LET starts == AgentStarts(p, o + 1, Len(agents))
         IN  /\ starts[Len(agents)] = o + 1 + Len(AgentListWords(agents))
             /\ \A j \in 1 .. Len(agents) : /\ AgentOK(p, starts[j - 1])
                                            /\ AgentAt(p, starts[j - 1]) = agents[j]
<1> DEFINE n == Len(agents)
           parts == [i \in DOMAIN agents |-> AgentWords(agents[i])]
           q == AgentListWords(agents)
<1>1. n \in Nat /\ DOMAIN agents = 1 .. n /\ \A i \in 1 .. n : agents[i] \in AgentInfos /\ WritableAgent(agents[i])
  BY DEF WritableAgents
<1>2. \A i \in 1 .. n : AgentWords(agents[i]) \in Seq(Int) /\ Len(AgentWords(agents[i])) \in Nat
  BY <1>1, AgentWordsAre
<1>3. parts \in Seq(Seq(Int)) /\ Len(parts) = n /\ \A i \in 1 .. n : parts[i] = AgentWords(agents[i])
  BY <1>1, <1>2
<1>4. q = Seqs!FlattenSeq(parts)
  BY DEF AgentListWords
<1> HIDE DEF parts, q, n
<1>5. q \in Seq(Int)
  BY <1>3, <1>4, FlattenedAre
<1>6. PICK off : PartsAt(q, parts, off) /\ off[n] = Len(q)
  BY <1>3, <1>4, FlattenedAre
<1>7. /\ off \in [0 .. n -> Nat] /\ off[0] = 0
      /\ \A j \in 1 .. n : off[j] = off[j - 1] + Len(parts[j]) /\ Within(q, off[j - 1], parts[j])
  BY <1>3, <1>6 DEF PartsAt
<1> DEFINE g == [j \in 0 .. n |-> o + 1 + off[j]]
<1>8. ASSUME NEW j \in 1 .. n
      PROVE  /\ g[j] = AfterAgent(p, g[j - 1])
             /\ AgentOK(p, g[j - 1]) /\ AgentAt(p, g[j - 1]) = agents[j]
  <2> DEFINE ag == agents[j]
             w == off[j - 1]
             v == off[j]
             k == o + w
             aw == AgentWords(ag)
             lw == Len(aw)
  <2>1. j \in 0 .. n /\ j - 1 \in 0 .. n
    BY <1>1
  <2>2. w \in Nat /\ v \in Nat
    BY <1>7, <2>1
  <2>3. g[j - 1] = o + 1 + w /\ g[j] = o + 1 + v
    BY <2>1, Zenon
  <2>4. ag \in AgentInfos /\ WritableAgent(ag) /\ aw \in Seq(Int) /\ lw \in Nat
    BY <1>1, <1>2, Zenon
  <2>5. v = w + lw /\ Within(q, w, aw)
    <3>1. parts[j] = AgentWords(agents[j])
      BY <1>3, Zenon
    <3> QED
      BY <1>7, <3>1, Zenon
  <2> HIDE DEF ag, w, v, g, aw, lw
  <2>6. k \in Nat /\ o + 1 + w = k + 1 /\ o + 1 + v = k + 1 + lw
    BY <2>2, <2>4, <2>5
  <2>7. Within(p, k, aw)
    <3>1. Within(p, o, q)
      BY DEF q
    <3> QED
      BY <1>5, <2>2, <2>4, <2>5, <3>1, WithinWithin, Zenon
  <2> HIDE DEF k
  <2>8. AgentOK(p, k + 1) /\ AgentAt(p, k + 1) = ag /\ AfterAgent(p, k + 1) = k + 1 + lw
    BY <2>4, <2>6, <2>7, AgentRoundTrip, Zenon DEF aw, lw
  <2> QED
    BY <2>3, <2>6, <2>8, Zenon DEF ag
<1>9. AgentStarts(p, o + 1, n) = g
  <2>1. g[0] = o + 1 /\ g = [j \in 0 .. n |-> g[j]]
    BY <1>1, <1>7
  <2>2. \A j \in 1 .. n : g[j] = AfterAgent(p, g[j - 1])
    <3> HIDE DEF g
    <3> QED
      BY <1>8, Zenon
  <2> HIDE DEF g
  <2> QED
    <3> DEFINE a == o + 1
    <3>1. n \in Nat /\ g[0] = a /\ g = [j \in 0 .. n |-> g[j]]
      BY <1>1, <2>1, Zenon
    <3> HIDE DEF a
    <3>2. AgentStarts(p, a, n) = g
      BY <2>2, <3>1, AgentStartsAre
    <3> QED
      BY <3>2 DEF a
<1>10. g[n] = o + 1 + Len(q)
  <2>1. n \in 0 .. n
    BY <1>1
  <2> QED
    BY <1>6, <2>1, Zenon
<1> HIDE DEF g
<1> QED
  BY <1>8, <1>9, <1>10, Zenon DEF n, q

\* The agents of a response are a list of words.
LEMMA AgentListAre ==
  ASSUME NEW agents \in Seq(AgentInfos)
  PROVE  AgentListWords(agents) \in Seq(Int) /\ Len(AgentListWords(agents)) \in Nat
<1> DEFINE n == Len(agents)
           parts == [i \in DOMAIN agents |-> AgentWords(agents[i])]
           q == Seqs!FlattenSeq(parts)
<1>1. n \in Nat /\ DOMAIN agents = 1 .. n /\ \A i \in 1 .. n : agents[i] \in AgentInfos
  OBVIOUS
<1>2. \A i \in 1 .. n : AgentWords(agents[i]) \in Seq(Int)
  BY <1>1, AgentWordsAre
<1>3. parts \in Seq(Seq(Int))
  BY <1>1, <1>2
<1> HIDE DEF parts
<1>4. q \in Seq(Int)
  BY <1>3, FlattenedAre
<1> HIDE DEF q
<1>5. Len(q) \in Nat
  BY <1>4
<1> QED
  BY <1>4, <1>5, Zenon DEF AgentListWords, q, parts

\* What a client decodes is what its daemon has encoded: every response that
\* can be written is read back, with all its agents and its reference.
THEOREM ControlResponseRoundTrip ==
  ASSUME NEW r \in ControlResponses, EncodeControlResponse(r) # NoPacket
  PROVE  DecodeControlResponse(EncodeControlResponse(r)) = r
<1> DEFINE text == r.message
           agents == r.agents
           there == r.available
           ref == r.result
           nc == Len(agents)
           hd == Header(ControlMagic, ControlVersion, Ping)
           f1 == <<Flag(r.success)>>
           ms == Written(text)
           c1 == <<nc>>
           fl == AgentListWords(agents)
           g1 == <<Flag(there)>>
           tl == IF there THEN ReferenceWords(ref) ELSE <<>>
           u1 == hd \o f1
           u2 == u1 \o ms
           u3 == u2 \o c1
           u4 == u3 \o fl
           u5 == u4 \o g1
           q == u5 \o tl
           p == FinishMessage(q)
<1>1. /\ r.success \in BOOLEAN /\ text \in Text /\ agents \in Seq(AgentInfos) /\ there \in BOOLEAN
      /\ ref \in References /\ (there => InBounds(ref)) /\ (~there => ref = NoReference)
      /\ r = [success |-> r.success, message |-> r.message, agents |-> r.agents,
              available |-> r.available, result |-> r.result]
  BY DEF ControlResponses
<1>2. EncodeControlResponse(r) = p /\ p # NoPacket /\ nc <= MaxElements /\ Writable(text) /\ WritableAgents(agents)
  BY Zenon DEF EncodeControlResponse, AgentListWords, WritableAgents, WritableAgent
<1>3. /\ Flag(r.success) \in 0 .. 1 /\ (r.success = (Flag(r.success) = 1))
      /\ Flag(there) \in 0 .. 1 /\ (there = (Flag(there) = 1))
  BY <1>1 DEF Flag
<1>4. Ping \in Int /\ Ping \in Operations /\ ControlVersion \in Int /\ ControlMagic \in Int
  BY DEF Operations, Ping, ReleaseResult, ControlVersion, ControlMagic
<1>5. hd \in Seq(Int) /\ Len(hd) = 4
  BY <1>4 DEF Header
<1>6. f1 \in Seq(Int) /\ Len(f1) = 1 /\ f1[1] = Flag(r.success)
  BY <1>3
<1>7. g1 \in Seq(Int) /\ Len(g1) = 1 /\ g1[1] = Flag(there)
  BY <1>3
<1>8. nc \in Nat
  BY <1>1
<1> DEFINE lm == Len(ms)
           lf == Len(fl)
           l2 == 5 + lm
           l3 == l2 + 1
           l4 == l3 + lf
           l5 == l4 + 1
<1>9. tl \in Seq(Int) /\ Len(tl) = (IF there THEN 7 ELSE 0)
  <2>1. CASE there
    <3> HIDE DEF ref, there
    <3>1. ReferenceWords(ref) \in Seq(Int) /\ Len(ReferenceWords(ref)) = 7
      BY <1>1, <2>1 DEF References, ReferenceWords
    <3> QED
      BY <2>1, <3>1, Zenon
  <2>2. CASE ~there
    BY <2>2
  <2> QED
    BY <2>1, <2>2
<1> HIDE DEF text, agents, there, ref
<1>10. ms \in Seq(Int) /\ lm = Len(text) + 1 /\ Len(text) \in Nat
  BY <1>1, WrittenIs, Zenon
<1>11. fl \in Seq(Int) /\ lf \in Nat
  BY <1>1, AgentListAre, Zenon
<1> HIDE DEF nc, hd, f1, g1, ms, fl, tl, lm, lf
<1>12. c1 \in Seq(Int) /\ Len(c1) = 1 /\ c1[1] = nc
  BY <1>8
<1> HIDE DEF c1
<1>13. /\ l2 \in Nat /\ l3 \in Nat /\ l4 \in Nat /\ l5 \in Nat /\ l2 >= 4 /\ l3 >= 4 /\ l4 >= 4 /\ l5 >= 4
       /\ l3 = l2 + 1 /\ l4 = l3 + lf /\ l5 = l4 + 1 /\ l2 = 5 + lm /\ lm \in Nat
  <2>1. lm \in Nat
    BY <1>10
  <2> QED
    BY <1>11, <2>1
<1> HIDE DEF l2, l3, l4, l5
<1>20. 5 \in Nat /\ 0 \in Nat /\ 4 + 1 = 5
  OBVIOUS
<1>21. u1 \in Seq(Int) /\ Len(u1) = 5
  <2>1. u1 \in Seq(Int) /\ Len(u1) = Len(hd) + Len(f1)
    BY <1>5, <1>6, ConcatWithin, Zenon
  <2> QED
    BY <1>5, <1>6, <1>20, <2>1, Zenon
<1> HIDE DEF u1
<1>22. u2 \in Seq(Int) /\ Len(u2) = l2
  <2>1. u2 \in Seq(Int) /\ Len(u2) = Len(u1) + Len(ms)
    BY <1>10, <1>21, ConcatWithin, Zenon
  <2> QED
    BY <1>13, <1>21, <2>1, Zenon DEF lm
<1> HIDE DEF u2
<1>23. u3 \in Seq(Int) /\ Len(u3) = l3
  <2>1. u3 \in Seq(Int) /\ Len(u3) = Len(u2) + Len(c1)
    BY <1>12, <1>22, ConcatWithin, Zenon
  <2> QED
    BY <1>12, <1>13, <1>22, <2>1, Zenon
<1> HIDE DEF u3
<1>24. u4 \in Seq(Int) /\ Len(u4) = l4
  <2>1. u4 \in Seq(Int) /\ Len(u4) = Len(u3) + Len(fl)
    BY <1>11, <1>23, ConcatWithin, Zenon
  <2> QED
    BY <1>13, <1>23, <2>1, Zenon DEF lf
<1> HIDE DEF u4
<1>25. u5 \in Seq(Int) /\ Len(u5) = l5
  <2>1. u5 \in Seq(Int) /\ Len(u5) = Len(u4) + Len(g1)
    BY <1>7, <1>24, ConcatWithin, Zenon
  <2> QED
    BY <1>7, <1>13, <1>24, <2>1, Zenon
<1> HIDE DEF u5
<1>26. q \in Seq(Int) /\ Len(q) = l5 + Len(tl) /\ Within(q, 0, u5) /\ Within(q, l5, tl)
  <2>1. q \in Seq(Int) /\ Len(q) = Len(u5) + Len(tl) /\ Within(q, 0, u5) /\ Within(q, Len(u5), tl)
    BY <1>9, <1>25, ConcatWithin, Zenon
  <2> QED
    BY <1>25, <2>1, Zenon
<1> HIDE DEF q
<1>27. 0 + 5 = 5 /\ 0 + l2 = l2 /\ 0 + l3 = l3 /\ 0 + l4 = l4 /\ 0 + l5 = l5
  <2>1. l2 \in Nat /\ l3 \in Nat /\ l4 \in Nat /\ l5 \in Nat
    BY <1>13, Zenon
  <2> QED
    BY <2>1
<1>28. Within(q, 0, u4) /\ Within(q, l4, g1)
  <2>1. Within(q, 0, u4 \o g1)
    BY <1>26 DEF u5
  <2>2. Within(q, 0, u4) /\ Within(q, 0 + l4, g1)
    BY <1>7, <1>13, <1>20, <1>24, <1>26, <2>1, Peel, Zenon
  <2> QED
    BY <1>27, <2>2, Zenon
<1>29. Within(q, 0, u3) /\ Within(q, l3, fl)
  <2>1. Within(q, 0, u3 \o fl)
    BY <1>28 DEF u4
  <2>2. Within(q, 0, u3) /\ Within(q, 0 + l3, fl)
    BY <1>11, <1>13, <1>20, <1>23, <1>26, <2>1, Peel, Zenon
  <2> QED
    BY <1>27, <2>2, Zenon
<1>30. Within(q, 0, u2) /\ Within(q, l2, c1)
  <2>1. Within(q, 0, u2 \o c1)
    BY <1>29 DEF u3
  <2>2. Within(q, 0, u2) /\ Within(q, 0 + l2, c1)
    BY <1>12, <1>13, <1>20, <1>22, <1>26, <2>1, Peel, Zenon
  <2> QED
    BY <1>27, <2>2, Zenon
<1>31. Within(q, 0, hd \o f1) /\ Within(q, 5, ms)
  <2>1. Within(q, 0, u1 \o ms)
    BY <1>30 DEF u2
  <2>2. Within(q, 0, u1) /\ Within(q, 0 + 5, ms)
    BY <1>10, <1>20, <1>21, <1>26, <2>1, Peel, Zenon
  <2> QED
    BY <1>27, <2>2, Zenon DEF u1
<1>32. Headed(p, ControlMagic, ControlVersion, Ping, f1)
  BY <1>2, <1>4, <1>6, <1>26, <1>31, HeaderWithin, Zenon DEF hd
<1>33. p \in Seq(Int) /\ Len(p) = Len(q) /\ Len(p) \in Nat
  <2>1. l5 \in Nat /\ Len(q) = l5 + Len(tl) /\ Len(tl) \in Nat /\ l5 >= 4
    BY <1>9, <1>13, <1>26
  <2>2. Len(q) >= HeaderSize /\ Len(q) \in Nat
    BY <2>1 DEF HeaderSize
  <2> QED
    BY <1>2, <1>26, <2>2, FinishIs, Zenon
<1>34. HeaderSize = 4 /\ 5 >= 4
  BY DEF HeaderSize
<1>35. /\ Within(p, 5, ms) /\ Within(p, l2, c1) /\ Within(p, l3, fl) /\ Within(p, l4, g1) /\ Within(p, l5, tl)
  <2>1. Within(p, 5, ms)
    BY <1>2, <1>10, <1>20, <1>26, <1>31, <1>34, WithinFinish, Zenon
  <2>2. Within(p, l2, c1) /\ Within(p, l3, fl)
    BY <1>2, <1>11, <1>12, <1>13, <1>26, <1>29, <1>30, <1>34, WithinFinish, Zenon
  <2>3. Within(p, l4, g1) /\ Within(p, l5, tl)
    BY <1>2, <1>7, <1>9, <1>13, <1>26, <1>28, <1>34, WithinFinish, Zenon
  <2> QED
    BY <2>1, <2>2, <2>3
<1> HIDE DEF p
<1> DEFINE message == HeaderSize + 2
           count == After(p, message)
           starts == AgentStarts(p, count + 1, p[count])
           flag == starts[p[count]]
           available == p[flag] = 1
<1>41. /\ HeaderOK(p, ControlMagic, ControlVersion, Operations) /\ p[HeaderSize + 1] = Flag(r.success)
       /\ Words(p, HeaderSize + 1, 1)
  <2>1. 1 \in 1 .. Len(f1)
    <3>1. 1 \in 1 .. 1
      OBVIOUS
    <3> QED
      BY <1>6, <3>1, Zenon
  <2>2. p[HeaderSize + 1] = Flag(r.success)
    BY <1>6, <1>32, <2>1, Zenon DEF Headed
  <2>3. HeaderOK(p, ControlMagic, ControlVersion, Operations)
    BY <1>4, <1>32, Zenon DEF Headed, HeaderOK
  <2>4. Len(p) >= HeaderSize + 1
    BY <1>6, <1>32, Zenon DEF Headed
  <2>5. Words(p, HeaderSize + 1, 1)
    BY <1>33, <2>4 DEF Words, HeaderSize
  <2> QED
    BY <2>2, <2>3, <2>5
<1>42. StringAt(p, message) /\ Characters(p, message) = text /\ count = l2 + 1
  <2>1. message = 5 + 1
    BY DEF HeaderSize
  <2> HIDE DEF message
  <2>2. StringAt(p, 5 + 1) /\ Characters(p, 5 + 1) = text /\ After(p, 5 + 1) = 5 + 2 + Len(text)
    BY <1>1, <1>2, <1>20, <1>33, <1>35, WithinString, Zenon DEF ms
  <2>3. 5 + 2 + Len(text) = l2 + 1
    BY <1>10, <1>13
  <2> QED
    BY <2>1, <2>2, <2>3, Zenon
<1> HIDE DEF message, count
<1>43. p[count] = nc /\ Words(p, count, 1) /\ count + 1 = l3 + 1
  <2>1. 1 \in 1 .. Len(c1)
    <3>1. 1 \in 1 .. 1
      OBVIOUS
    <3> QED
      BY <1>12, <3>1, Zenon
  <2>2. p[l2 + 1] = c1[1] /\ l2 + Len(c1) <= Len(p)
    BY <1>35, <2>1, Zenon DEF Within
  <2>3. l2 \in Nat /\ l3 = l2 + 1 /\ l2 + 1 <= Len(p)
    BY <1>12, <1>13, <2>2, Zenon
  <2>4. Words(p, count, 1) /\ count + 1 = l3 + 1
    BY <1>33, <1>42, <2>3 DEF Words
  <2> QED
    BY <1>12, <1>42, <2>2, <2>4, Zenon
<1>44. /\ flag = l4 + 1
       /\ \A j \in 1 .. nc : AgentOK(p, starts[j - 1]) /\ AgentAt(p, starts[j - 1]) = agents[j]
  <2> DEFINE first == AgentStarts(p, l3 + 1, Len(agents))
  <2>1. /\ first[Len(agents)] = l3 + 1 + Len(AgentListWords(agents))
        /\ \A j \in 1 .. Len(agents) : AgentOK(p, first[j - 1]) /\ AgentAt(p, first[j - 1]) = agents[j]
    BY <1>1, <1>2, <1>13, <1>33, <1>35, AgentsAt, Zenon DEF fl
  <2>2. starts = first
    BY <1>43, Zenon DEF nc
  <2> HIDE DEF starts, first
  <2>3. l3 + 1 + lf = l4 + 1
    <3>1. l3 \in Nat /\ lf \in Nat /\ l4 = l3 + lf
      BY <1>11, <1>13, Zenon
    <3> QED
      BY <3>1
  <2> QED
    BY <1>43, <2>1, <2>2, <2>3, Zenon DEF nc, lf, fl
<1> HIDE DEF starts, flag
<1>45. p[flag] = Flag(there) /\ Words(p, flag, 1) /\ available = there /\ flag = l5
  <2>1. 1 \in 1 .. Len(g1)
    <3>1. 1 \in 1 .. 1
      OBVIOUS
    <3> QED
      BY <1>7, <3>1, Zenon
  <2>2. p[l4 + 1] = g1[1] /\ l4 + Len(g1) <= Len(p)
    BY <1>35, <2>1, Zenon DEF Within
  <2>3. l4 \in Nat /\ l5 = l4 + 1 /\ l4 + 1 <= Len(p)
    BY <1>7, <1>13, <2>2, Zenon
  <2>4. Words(p, flag, 1)
    BY <1>33, <1>44, <2>3 DEF Words
  <2>5. p[flag] = Flag(there)
    BY <1>7, <1>44, <2>2, Zenon
  <2>6. available = there
    BY <1>3, <2>5, Zenon
  <2> QED
    BY <1>44, <2>3, <2>4, <2>5, <2>6, Zenon
<1>46. Len(p) = flag + IF available THEN ReferenceSize ELSE 0
  <2>1. Len(p) = l5 + IF there THEN 7 ELSE 0
    BY <1>9, <1>26, <1>33, Zenon
  <2> HIDE DEF available
  <2> QED
    BY <1>45, <2>1, Zenon DEF ReferenceSize
<1>47. available => Words(p, flag + 1, ReferenceSize) /\ ReferenceAt(p, flag + 1) = ref
  <2> SUFFICES ASSUME available
               PROVE  Words(p, flag + 1, ReferenceSize) /\ ReferenceAt(p, flag + 1) = ref
    OBVIOUS
  <2>1. there /\ tl = ReferenceWords(ref) /\ l5 \in Nat
    BY <1>13, <1>45, Zenon DEF tl
  <2>2. ReferenceAt(p, l5 + 1) = ref
    BY <1>1, <1>33, <1>35, <2>1, WithinReference, Zenon
  <2>3. Len(p) = l5 + 7
    BY <1>45, <1>46, <2>1, Zenon DEF ReferenceSize
  <2>4. Words(p, l5 + 1, 7)
    BY <2>1, <2>3 DEF Words
  <2> QED
    BY <1>45, <2>2, <2>4, Zenon DEF ReferenceSize
<1> DEFINE decoded ==
      [success |-> p[HeaderSize + 1] = 1, message |-> Characters(p, message),
       agents |-> [j \in 1 .. p[count] |-> AgentAt(p, starts[j - 1])],
       available |-> available,
       result |-> IF available THEN ReferenceAt(p, flag + 1) ELSE NoReference]
<1>48. DecodeControlResponse(p) = decoded
  <2> HIDE DEF available
  <2>1. p[HeaderSize + 1] <= 1 /\ p[flag] <= 1
    <3>1. Flag(r.success) <= 1 /\ Flag(there) <= 1
      BY <1>3
    <3> QED
      BY <1>41, <1>45, <3>1, Zenon
  <2>2. p[count] <= MaxElements
    BY <1>2, <1>43, Zenon
  <2>3. \A j \in 1 .. p[count] : AgentOK(p, starts[j - 1])
    BY <1>43, <1>44, Zenon
  <2>4. available => Words(p, flag + 1, ReferenceSize) /\ InBounds(ReferenceAt(p, flag + 1))
    BY <1>1, <1>45, <1>47, Zenon
  <2> QED
    BY <1>41, <1>42, <1>43, <1>45, <1>46, <2>1, <2>2, <2>3, <2>4, Zenon
       DEF DecodeControlResponse, message, count, starts, flag, available
<1>49. decoded = r
  <2>1. [j \in 1 .. p[count] |-> AgentAt(p, starts[j - 1])] = agents
    <3>1. agents = [j \in 1 .. nc |-> agents[j]]
      BY <1>1 DEF nc
    <3> QED
      BY <1>43, <1>44, <3>1, Zenon
  <2>2. (p[HeaderSize + 1] = 1) = r.success
    BY <1>3, <1>41, Zenon
  <2> DEFINE result == IF available THEN ReferenceAt(p, flag + 1) ELSE NoReference
  <2>3. result = ref
    BY <1>1, <1>45, <1>47, Zenon
  <2>4. available = there
    BY <1>45
  <2> HIDE DEF result, available
  <2>5. decoded = [success |-> r.success, message |-> text, agents |-> agents, available |-> there, result |-> ref]
    BY <1>42, <2>1, <2>2, <2>3, <2>4, Zenon DEF result
  <2> HIDE DEF decoded
  <2> QED
    BY <1>1, <2>5, Zenon DEF text, agents, there, ref
<1> QED
  BY <1>2, <1>48, <1>49, Zenon

-----------------------------------------------------------------------------
(* ControlDaemon: connections, packets and agents *)

\* A snapshot of the runtime; the nodes of each daemon are such, or NoNode.
Snapshots ==
  [spec : Tasks, state : AgentStates, process : SignedWords, unresolved : Int, retries : Nat,
   context : Nat, counters : Counters, cacheHit : BOOLEAN, error : Text]
NodesTyped == nodes \in [Daemons -> [AgentIds -> Snapshots \cup {NoNode}]]

\* The connections a daemon holds: the one it serves, then those in its backlog.
Sockets(d) == 0 .. Len(backlog[d])
ConnectionIn(d, i) == IF i = 0 THEN current[d] ELSE backlog[d][i]
OpenAt(k) == \E d \in Daemons : \E i \in Sockets(d) : ConnectionIn(d, i) = k

\* Every call is held at most once, and after it has connected; until its
\* request is taken up nothing has been dispatched for it.
OpenOnce ==
  \A d, e \in Daemons : \A i \in Sockets(d), j \in Sockets(e) :
    ConnectionIn(d, i) \in Calls /\ ConnectionIn(d, i) = ConnectionIn(e, j) => d = e /\ i = j
OpenConnected == \A k \in Calls : OpenAt(k) => call[k] \notin {"new", "built"}
OpenUnseen ==
  \A d \in Daemons : \A i \in Sockets(d) :
    ConnectionIn(d, i) \in Calls /\ (i # 0 \/ phase[d] = "receive") => seen[ConnectionIn(d, i)] = NoControlRequest

\* The packets are what the encoders make of the request and of the answer.
OtherVersion(packet) == [packet EXCEPT ![2] = ControlVersion + 1]
Packets ==
  /\ asked \in [Calls -> ControlRequests \cup {NoControlRequest}]
  /\ seen \in [Calls -> ControlRequests \cup {NoControlRequest}]
  /\ answer \in [Calls -> ControlResponses \cup {NoControlResponse}]
  /\ requestPacket = [k \in Calls |-> IF asked[k] = NoControlRequest THEN NoPacket
                                      ELSE EncodeControlRequest(asked[k])]
  /\ responsePacket = [k \in Calls |-> IF answer[k] = NoControlResponse THEN NoPacket
                                       ELSE EncodeControlResponse(answer[k])]
  /\ toDaemon = [k \in Calls |-> toDaemon[k]]
  /\ toCaller = [k \in Calls |-> toCaller[k]]
  /\ told = [k \in Calls |-> told[k]]

\* Where a call is, and what has been done for it.
CallOK(k) ==
  /\ call[k] = "new" <=> asked[k] = NoControlRequest
  /\ call[k] = "done" <=> told[k] # Untold
  /\ call[k] \in {"connected", "sent"} => requestPacket[k] # NoPacket
  /\ toDaemon[k] # NoPacket =>
       /\ toDaemon[k] \in {requestPacket[k], OtherVersion(requestPacket[k])}
       /\ requestPacket[k] # NoPacket
       /\ call[k] \in {"sent", "done"}
  /\ seen[k] # NoControlRequest =>
       /\ seen[k] = asked[k]
       /\ answer[k] # NoControlResponse
       /\ call[k] \in {"sent", "done"}
  /\ seen[k] = NoControlRequest => answer[k] \in {NoControlResponse, Refusal}
  /\ toCaller[k] # NoPacket =>
       /\ toCaller[k] = responsePacket[k]
       /\ call[k] \in {"connected", "sent"}
       /\ ~OpenAt(k)
  /\ told[k] \notin {Untold, Failure} => told[k] = answer[k] /\ ~OpenAt(k)

ControlInv ==
  /\ NodesTyped /\ OpenOnce /\ OpenConnected /\ OpenUnseen /\ Packets
  /\ \A k \in Calls : CallOK(k)

\* The values that say that there is nothing are not among the others.
LEMMA Distinct ==
  /\ NoControlRequest \notin ControlRequests
  /\ NoControlResponse \notin ControlResponses
  /\ Untold \notin ControlResponses /\ Failure \notin ControlResponses
  /\ Untold # Failure
  /\ NoNode \notin Snapshots
<1>1. NoControlRequest \notin ControlRequests
  <2>1. ASSUME NEW r \in ControlRequests
        PROVE  r.operation # 0
    BY DEF ControlRequests, Operations, Ping, ReleaseResult
  <2>2. NoControlRequest.operation = 0
    BY DEF NoControlRequest
  <2> QED
    BY <2>1, <2>2
<1>2. ASSUME NEW r \in ControlResponses
      PROVE  "message" \in DOMAIN r
  BY DEF ControlResponses
<1>3. /\ DOMAIN NoControlResponse = {"success"} /\ DOMAIN Untold = {"success"} /\ DOMAIN Failure = {"success"}
  BY DEF NoControlResponse, Untold, Failure
<1>4. "message" \notin {"success"}
  OBVIOUS
<1>5. NoControlResponse \notin ControlResponses /\ Untold \notin ControlResponses /\ Failure \notin ControlResponses
  BY <1>2, <1>3, <1>4, Zenon
<1>6. Untold # Failure
  <2>1. Untold.success = "open" /\ Failure.success = "failure"
    BY DEF Untold, Failure
  <2> QED
    BY <2>1
<1>7. NoNode \notin Snapshots
  <2>1. ASSUME NEW s \in Snapshots
        PROVE  s.state # -1
    BY DEF Snapshots, AgentStates
  <2>2. NoNode.state = -1
    BY DEF NoNode
  <2> QED
    BY <2>1, <2>2
<1> QED
  BY <1>1, <1>5, <1>6, <1>7

\* What handle_client answers to a request it cannot decode is a response.
LEMMA RefusalIs ==
  Refusal \in ControlResponses
<1>1. /\ FALSE \in BOOLEAN /\ <<0>> \in Text /\ <<>> \in Seq(AgentInfos) /\ NoReference \in References
  BY DEF Text, NoReference, References
<1> QED
  BY <1>1 DEF Refusal, ControlResponses

\* What an agent in the table is.
LEMMA ExistingNode ==
  ASSUME NodesTyped, NEW d \in Daemons, NEW id, Exists(d, id)
  PROVE  id \in AgentIds /\ nodes[d][id] \in Snapshots /\ id \in Nat /\ id # 0
BY DaemonAssumption DEF Exists, NodesTyped

\* Edges are the positions of a list, so that there is a number of them.
LEMMA EdgesCounted ==
  ASSUME NodesTyped, NEW d \in Daemons, NEW id, NEW j, Exists(d, j)
  PROVE  Cardinality(Edges(d, id, j)) \in Nat
<1>1. nodes[d][j] \in Snapshots
  BY ExistingNode
<1> DEFINE list == nodes[d][j].spec.dependencies
<1>2. list \in Seq(Nat)
  BY <1>1 DEF Snapshots, Tasks
<1>3. Edges(d, id, j) \subseteq DOMAIN list
  BY DEF Edges
<1> HIDE DEF list
<1>4. DOMAIN list = 1 .. Len(list) /\ Len(list) \in Nat
  BY <1>2
<1>5. IsFiniteSet(1 .. Len(list))
  BY <1>4, FS_Interval
<1> QED
  BY <1>3, <1>4, <1>5, FS_Subset, FS_CardinalityType

\* A live descendant was reached through another agent or the first one.
LEMMA ReachedThrough ==
  ASSUME NEW d \in Daemons, NEW id, NEW j \in LiveDescendants(d, id)
  PROVE  j \in AgentIds /\ \E i \in {id} \cup LiveDescendants(d, id) : j \in LiveSuccessors(d, i)
<1> DEFINE taken == LiveDescendants(d, id)
           closed(js) == \A i \in {id} \cup js : LiveSuccessors(d, i) \subseteq js
<1>1. taken \in SUBSET AgentIds /\ \A js \in SUBSET AgentIds : closed(js) => j \in js
  BY Zenon DEF LiveDescendants
<1>2. ASSUME NEW i \in {id} \cup taken
      PROVE  LiveSuccessors(d, i) \subseteq taken
  <2>1. ASSUME NEW s \in LiveSuccessors(d, i), NEW js \in SUBSET AgentIds, closed(js)
        PROVE  s \in js
    <3>1. i \in {id} \cup js
      <4>1. i \in taken => i \in js
        BY <2>1, Zenon DEF LiveDescendants
      <4> QED
        BY <4>1
    <3> QED
      BY <2>1, <3>1, Zenon
  <2>2. \A s \in LiveSuccessors(d, i) : s \in AgentIds
    BY DEF LiveSuccessors, Successors
  <2> QED
    BY <2>1, <2>2, Zenon DEF LiveDescendants
<1> SUFFICES ASSUME \A i \in {id} \cup taken : j \notin LiveSuccessors(d, i)
             PROVE  FALSE
  BY <1>1
<1> DEFINE rest == taken \ {j}
<1>3. closed(rest)
  <2> SUFFICES ASSUME NEW i \in {id} \cup rest, NEW s \in LiveSuccessors(d, i)
               PROVE  s \in rest
    BY Zenon
  <2>1. i \in {id} \cup taken
    BY Zenon
  <2>2. s \in taken /\ s # j
    BY <1>2, <2>1, Zenon
  <2> QED
    BY <2>2
<1>4. j \in rest
  <2>1. rest \in SUBSET AgentIds
    BY <1>1
  <2> HIDE DEF rest, taken
  <2> QED
    BY <1>1, <1>3, <2>1, Zenon
<1> QED
  BY <1>4

\* A finite set of numbers has a bound.
LEMMA FiniteBound ==
  ASSUME NEW S \in SUBSET Nat, IsFiniteSet(S)
  PROVE  \E L \in Nat : \A s \in S : s <= L
<1>1. PICK n \in Nat : ExistsBijection(1 .. n, S)
  BY FS_NatBijection
<1>0. n \in Nat
  OBVIOUS
<1> DEFINE I == 1 .. n
<1>2. PICK f \in Bijection(I, S) : TRUE
  BY <1>1, Zenon DEF ExistsBijection
<1>3. f \in [I -> S] /\ \A s \in S : \E i \in I : f[i] = s
  <2>1. f \in Surjection(I, S)
    BY <1>2, Zenon DEF Bijection
  <2> HIDE DEF I
  <2> QED
    BY <2>1, SMT DEF Surjection
<1> DEFINE bounds(L, j) == \A i \in 1 .. j : f[i] <= L
           T == {j \in 0 .. n : \E L \in Nat : bounds(L, j)}
<1>4. 0 \in T
  <2>1. bounds(0, 0)
    OBVIOUS
  <2> QED
    BY <2>1
<1>5. ASSUME NEW j \in 0 + 1 .. n, j - 1 \in T
      PROVE  j \in T
  <2>1. PICK L \in Nat : bounds(L, j - 1)
    BY <1>5
  <2>2. f[j] \in Nat
    <3>1. j \in I
      BY <1>0
    <3> HIDE DEF I
    <3>2. f[j] \in S
      BY <1>3, <3>1, Zenon
    <3> QED
      BY <3>2
  <2> DEFINE M == IF f[j] <= L THEN L ELSE f[j]
  <2>3. M \in Nat
    BY <2>2
  <2>4. bounds(M, j)
    <3> SUFFICES ASSUME NEW i \in 1 .. j
                 PROVE  f[i] <= M
      OBVIOUS
    <3>1. CASE i = j
      BY <2>2, <3>1
    <3>2. CASE i # j
      <4>1. i \in 1 .. j - 1 /\ i \in 1 .. n
        BY <3>2
      <4>2. f[i] <= L /\ f[i] \in Nat
        BY <1>3, <2>1, <4>1
      <4> QED
        BY <2>2, <4>2
    <3> QED
      BY <3>1, <3>2
  <2> HIDE DEF M, bounds
  <2> QED
    BY <2>3, <2>4
<1> HIDE DEF T
<1>6. \A j \in 0 .. n : j \in T
  BY <1>4, <1>5, Stepwise
<1>7. n \in T
  BY <1>6
<1>8. PICK L \in Nat : bounds(L, n)
  BY <1>7 DEF T
<1> QED
  BY <1>3, <1>8

\* snapshots lists agents that exist.
LEMMA ListedIs ==
  ASSUME NEW d \in Daemons
  PROVE  Listed(d) \in Seq({id \in AgentIds : Exists(d, id)})
<1> DEFINE ids == {id \in AgentIds : Exists(d, id)}
           C(n, id) == Cardinality({j \in ids : j <= id}) = n
<1>1. AgentIds \in SUBSET Nat /\ IsFiniteSet(AgentIds) /\ 0 \notin AgentIds
  BY DaemonAssumption
<1>2. PICK L \in Nat : \A s \in AgentIds : s <= L
  BY <1>1, FiniteBound, Zenon
<1>3. ids \in SUBSET (1 .. L)
  <2>1. ids \subseteq AgentIds
    OBVIOUS
  <2> HIDE DEF ids
  <2>2. \A id \in AgentIds : id \in Nat /\ id # 0
    BY <1>1
  <2>3. \A id \in AgentIds : id \in 1 .. L
    BY <1>2, <2>2
  <2> QED
    BY <2>1, <2>3
<1>4. IsFiniteSet(ids)
  BY <1>1, FS_Subset
<1>5. Cardinality(ids) \in Nat
  BY <1>4, FS_CardinalityType
<1> HIDE DEF ids
<1>6. \A n \in 1 .. Cardinality(ids) : \E id \in ids : C(n, id)
  BY <1>2, <1>3, NthExists, Zenon
<1> DEFINE pick(n) == CHOOSE id \in ids : C(n, id)
<1> HIDE DEF C
<1>7. \A n \in 1 .. Cardinality(ids) : pick(n) \in ids
  BY <1>6, Zenon
<1> HIDE DEF pick
<1>8. [n \in 1 .. Cardinality(ids) |-> pick(n)] \in Seq(ids)
  BY <1>5, <1>7
<1>9. Listed(d) = [n \in 1 .. Cardinality(ids) |-> pick(n)]
  BY Zenon DEF Listed, ids, pick, C
<1> QED
  BY <1>8, <1>9, Zenon DEF ids

\* The process id of an agent without a process can be sent.
LEMMA SmallWords ==
  -1 \in SignedWords
BY WireAssumption, DaemonAssumption DEF SignedWords

\* submit_batch_locked adds an agent.
LEMMA SubmittedTyped ==
  ASSUME NodesTyped, NEW d \in Daemons, NEW task \in Tasks, Admissible(d, task)
  PROVE  Submitted(d, task) \in [AgentIds -> Snapshots \cup {NoNode}]
<1> DEFINE list == task.dependencies
           open == {i \in DOMAIN list : nodes[d][list[i]].state # Completed}
           node == [spec |-> task, state |-> IF open = {} THEN Ready ELSE WaitingDependency,
                    process |-> -1, unresolved |-> Cardinality(open), retries |-> 0, context |-> 0,
                    counters |-> <<0, 0, 0, 0, 0, 0>>, cacheHit |-> FALSE, error |-> <<>>]
<1>1. list \in Seq(Nat)
  BY DEF Tasks
<1>2. Cardinality(open) \in Int
  <2>1. open \subseteq DOMAIN list
    OBVIOUS
  <2>2. DOMAIN list = 1 .. Len(list) /\ Len(list) \in Nat
    BY <1>1
  <2> HIDE DEF open, list
  <2>3. IsFiniteSet(1 .. Len(list))
    BY <2>2, FS_Interval
  <2>4. Cardinality(open) \in Nat
    BY <2>1, <2>2, <2>3, FS_Subset, FS_CardinalityType
  <2> QED
    BY <2>4
<1> HIDE DEF open
<1>3. node \in Snapshots
  <2>1. Ready \in AgentStates /\ WaitingDependency \in AgentStates
    BY DEF Ready, WaitingDependency, AgentStates
  <2>2. <<0, 0, 0, 0, 0, 0>> \in Counters /\ <<>> \in Text
    BY DEF Counters, Text
  <2> DEFINE zeros == <<0, 0, 0, 0, 0, 0>>
             empty == <<>>
             n == Cardinality(open)
             s == IF open = {} THEN Ready ELSE WaitingDependency
  <2>3. s \in AgentStates /\ zeros \in Counters /\ empty \in Text /\ n \in Int
    BY <1>2, <2>1, <2>2
  <2> HIDE DEF zeros, empty, n, s
  <2>4. [spec |-> task, state |-> s, process |-> -1, unresolved |-> n, retries |-> 0, context |-> 0,
         counters |-> zeros, cacheHit |-> FALSE, error |-> empty] \in Snapshots
    BY <2>3, SmallWords DEF Snapshots
  <2> QED
    BY <2>4, Zenon DEF zeros, empty, n, s
<1>4. Submitted(d, task) = [nodes[d] EXCEPT ![task.id] = node]
  BY Zenon DEF Submitted, open, list
<1> HIDE DEF node
<1>5. nodes[d] \in [AgentIds -> Snapshots \cup {NoNode}]
  BY DEF NodesTyped
<1> QED
  BY <1>3, <1>4, <1>5

\* One agent of the table is changed to another snapshot.
LEMMA NodeChanged ==
  ASSUME NodesTyped, NEW d \in Daemons, NEW table \in [AgentIds -> Snapshots \cup {NoNode}],
         nodes' = [nodes EXCEPT ![d] = table]
  PROVE  NodesTyped'
BY DEF NodesTyped

\* A completed agent is taken from what its successors wait for.
LEMMA CompletedTyped ==
  ASSUME NodesTyped, NEW d \in Daemons, NEW id, Exists(d, id)
  PROVE  AfterCompletion(d, id) \in [AgentIds -> Snapshots \cup {NoNode}]
<1> DEFINE Resolved(j) == LET open == nodes[d][j].unresolved - Cardinality(Edges(d, id, j))
                          IN  [nodes[d][j] EXCEPT !.unresolved = open,
                                                  !.state = IF open = 0 /\ @ = WaitingDependency
                                                            THEN Ready ELSE @]
           node(j) == IF j = id THEN [nodes[d][j] EXCEPT !.state = Completed]
                      ELSE IF j \in Successors(d, id) THEN Resolved(j)
                      ELSE nodes[d][j]
<1>1. ASSUME NEW j \in AgentIds
      PROVE  node(j) \in Snapshots \cup {NoNode}
  <2>1. CASE j = id
    <3>1. nodes[d][j] \in Snapshots
      BY <2>1, ExistingNode
    <3>2. [nodes[d][j] EXCEPT !.state = Completed] \in Snapshots
      BY <3>1 DEF Snapshots, Completed, AgentStates
    <3> QED
      BY <2>1, <3>2
  <2>2. CASE j # id /\ j \in Successors(d, id)
    <3>1. Exists(d, j)
      BY <2>2 DEF Successors
    <3>2. nodes[d][j] \in Snapshots /\ Cardinality(Edges(d, id, j)) \in Nat
      BY <3>1, ExistingNode, EdgesCounted
    <3> DEFINE c == Cardinality(Edges(d, id, j))
               s == nodes[d][j]
    <3>3. c \in Nat /\ s \in Snapshots
      BY <3>2
    <3>4. Ready \in AgentStates
      BY DEF Ready, AgentStates
    <3> HIDE DEF c, s
    <3>5. [s EXCEPT !.unresolved = s.unresolved - c,
                    !.state = IF s.unresolved - c = 0 /\ @ = WaitingDependency THEN Ready ELSE @] \in Snapshots
      <4> DEFINE u == s.unresolved - c
                 t == IF u = 0 /\ s.state = WaitingDependency THEN Ready ELSE s.state
      <4>1. u \in Int /\ t \in AgentStates
        <5>1. s.unresolved \in Int /\ s.state \in AgentStates
          BY <3>3 DEF Snapshots
        <5> QED
          BY <3>3, <3>4, <5>1
      <4> HIDE DEF u, t
      <4>2. [s EXCEPT !.unresolved = u, !.state = t] \in Snapshots
        BY <3>3, <4>1 DEF Snapshots
      <4> QED
        BY <4>2, Zenon DEF u, t
    <3>6. Resolved(j) \in Snapshots
      BY <3>5, Zenon DEF c, s
    <3> QED
      BY <2>2, <3>6, Zenon
  <2>3. CASE j # id /\ j \notin Successors(d, id)
    BY <2>3 DEF NodesTyped
  <2> QED
    BY <2>1, <2>2, <2>3
<1>2. AfterCompletion(d, id) = [j \in AgentIds |-> node(j)]
  BY Zenon DEF AfterCompletion
<1> HIDE DEF node
<1> QED
  BY <1>1, <1>2

\* An agent ends and its live descendants are cancelled.
LEMMA EndedTyped ==
  ASSUME NodesTyped, NEW d \in Daemons, NEW id, Exists(d, id), NEW state \in AgentStates, NEW error \in Text
  PROVE  AfterEnd(d, id, state, error) \in [AgentIds -> Snapshots \cup {NoNode}]
<1> DEFINE taken == LiveDescendants(d, id)
           Through(j) == CHOOSE i \in {id} \cup taken : j \in LiveSuccessors(d, i)
           node(j) == IF j = id THEN [nodes[d][j] EXCEPT !.state = state, !.error = error]
                      ELSE IF j \in taken
                      THEN [nodes[d][j] EXCEPT !.state = Cancelled, !.error = <<Through(j)>>]
                      ELSE nodes[d][j]
<1>1. ASSUME NEW j \in AgentIds
      PROVE  node(j) \in Snapshots \cup {NoNode}
  <2>1. CASE j = id
    <3>1. nodes[d][j] \in Snapshots
      BY <2>1, ExistingNode
    <3>2. [nodes[d][j] EXCEPT !.state = state, !.error = error] \in Snapshots
      BY <3>1 DEF Snapshots
    <3> QED
      BY <2>1, <3>2
  <2>2. CASE j # id /\ j \in taken
    <3>1. \E i \in {id} \cup taken : j \in LiveSuccessors(d, i)
      BY <2>2, ReachedThrough, Zenon
    <3>2. Through(j) \in {id} \cup taken
      BY <3>1, Zenon
    <3>3. id \in Nat /\ taken \subseteq Nat
      <4>1. id \in Nat
        BY ExistingNode
      <4>2. taken \subseteq AgentIds
        BY Zenon DEF LiveDescendants
      <4>3. AgentIds \subseteq Nat
        BY DaemonAssumption
      <4> HIDE DEF taken
      <4> QED
        BY <4>1, <4>2, <4>3
    <3> DEFINE t == Through(j)
               s == nodes[d][j]
    <3>4. t \in Nat
      <4> HIDE DEF taken
      <4>1. t \in {id} \cup taken
        BY <3>2, Zenon
      <4> HIDE DEF t
      <4> QED
        BY <3>3, <4>1
    <3>5. s \in Snapshots
      <4>1. j \in LiveSuccessors(d, t)
        BY <3>1, Zenon
      <4>2. Exists(d, j)
        <5> HIDE DEF t
        <5> QED
          BY <4>1 DEF LiveSuccessors, Successors
      <4> QED
        BY <4>2, ExistingNode
    <3> HIDE DEF t, s
    <3>6. [s EXCEPT !.state = Cancelled, !.error = <<t>>] \in Snapshots
      <4>1. <<t>> \in Text
        BY <3>4 DEF Text
      <4> DEFINE tt == <<t>>
      <4>2. tt \in Text
        BY <4>1
      <4> HIDE DEF tt
      <4>3. [s EXCEPT !.state = Cancelled, !.error = tt] \in Snapshots
        <5>1. Cancelled \in AgentStates
          BY DEF Cancelled, AgentStates
        <5> QED
          BY <3>5, <4>2, <5>1 DEF Snapshots
      <4> QED
        BY <4>3 DEF tt
    <3> QED
      BY <2>2, <3>6, Zenon DEF t, s
  <2>3. CASE j # id /\ j \notin taken
    <3> HIDE DEF taken
    <3>1. nodes[d][j] \in Snapshots \cup {NoNode}
      BY Zenon DEF NodesTyped
    <3>2. node(j) = nodes[d][j]
      BY <2>3, Zenon
    <3> QED
      BY <3>1, <3>2, Zenon
  <2> QED
    BY <2>1, <2>2, <2>3, Zenon
<1>2. AfterEnd(d, id, state, error) = [j \in AgentIds |-> node(j)]
  BY Zenon DEF AfterEnd
<1> HIDE DEF node
<1> QED
  BY <1>1, <1>2

\* A request of another version of the protocol is refused.
LEMMA OtherVersionRefused ==
  ASSUME NEW r \in ControlRequests, EncodeControlRequest(r) # NoPacket
  PROVE  /\ DecodeControlRequest(OtherVersion(EncodeControlRequest(r))) = NoControlRequest
         /\ DecodeControlRequest(EncodeControlRequest(r)) = r
<1> DEFINE h == Header(ControlMagic, ControlVersion, r.operation) \o <<r.target>>
           tw == TaskWords(r.task)
           q == h \o tw
           p == FinishMessage(q)
           o == OtherVersion(p)
<1>1. q \in Seq(Int) /\ Len(q) = 5 + Len(tw) /\ Len(tw) \in Nat
  BY RequestWords, Zenon
<1>2. EncodeControlRequest(r) = p /\ p # NoPacket
  BY Zenon DEF EncodeControlRequest
<1> HIDE DEF q, tw, h
<1>3. p \in Seq(Int) /\ Len(p) = Len(q)
  <2>1. Len(q) >= HeaderSize
    BY <1>1 DEF HeaderSize
  <2> QED
    BY <1>1, <1>2, <2>1, FinishIs, Zenon
<1> HIDE DEF p
<1>4. o[2] # ControlVersion
  <2>1. 2 \in DOMAIN p
    BY <1>1, <1>3
  <2>2. o[2] = ControlVersion + 1
    BY <2>1 DEF OtherVersion
  <2>3. ControlVersion + 1 # ControlVersion
    BY DEF ControlVersion
  <2> QED
    BY <2>2, <2>3, Zenon
<1> HIDE DEF o
<1>5. ~HeaderOK(o, ControlMagic, ControlVersion, Operations)
  BY <1>4, Zenon DEF HeaderOK
<1>6. DecodeControlRequest(o) = NoControlRequest
  BY <1>5, Zenon DEF DecodeControlRequest
<1> QED
  BY <1>2, <1>6, ControlRequestRoundTrip, Zenon DEF o

\* A snapshot is reduced to what a client is shown of it.
LEMMA InfoTyped ==
  ASSUME NEW s \in Snapshots
  PROVE  MakeControlInfo(s) \in AgentInfos
<1>1. s.spec.id \in Nat /\ s.spec.parent \in Nat /\ s.spec.name \in Text /\ s.spec.kind \in Text
  BY DEF Snapshots, Tasks
<1>2. /\ s.state \in AgentStates /\ s.process \in SignedWords /\ s.unresolved \in Int /\ s.retries \in Nat
      /\ s.context \in Nat /\ s.counters \in Counters /\ s.cacheHit \in BOOLEAN /\ s.error \in Text
  BY DEF Snapshots
<1> QED
  BY <1>1, <1>2, Zenon DEF MakeControlInfo, AgentInfos

\* What a request needs to succeed.
LEMMA SucceedsIs ==
  ASSUME NEW d, NEW r
  PROVE  /\ Succeeds(d, r) \in BOOLEAN
         /\ Succeeds(d, r) =>
              /\ r.operation = Submit => Admissible(d, r.task)
              /\ r.operation = Spawn => Admissible(d, r.task)
              /\ r.operation \in {Status, Cancel} => Exists(d, r.target)
              /\ r.operation = Result => r.target \in results[d]
<1> DEFINE op == r.operation
           cancellable == Exists(d, r.target) /\ nodes[d][r.target].state \notin Terminal
           spawned == Exists(d, r.target) /\ Admissible(d, r.task)
           admitted == Admissible(d, r.task)
           exists == Exists(d, r.target)
           held == r.target \in results[d]
<1>1. Submit = 2 /\ Spawn = 3 /\ Status = 4 /\ Cancel = 6 /\ Result = 8 /\ ReleaseResult = 9
  BY DEF Submit, Spawn, Status, Cancel, Result, ReleaseResult
<1>2. Succeeds(d, r) = CASE op = Submit -> admitted
                          [] op = Spawn -> spawned
                          [] op = Status -> exists
                          [] op = Cancel -> cancellable
                          [] op \in {Result, ReleaseResult} -> held
                          [] OTHER -> TRUE
  BY Zenon DEF Succeeds
<1>3. /\ admitted \in BOOLEAN /\ spawned \in BOOLEAN /\ exists \in BOOLEAN /\ cancellable \in BOOLEAN
      /\ held \in BOOLEAN /\ (cancellable => exists) /\ (spawned => admitted)
  <2>1. exists \in BOOLEAN
    BY DEF Exists
  <2>2. admitted \in BOOLEAN
    BY DEF Admissible
  <2>3. spawned \in BOOLEAN /\ cancellable \in BOOLEAN /\ held \in BOOLEAN
    OBVIOUS
  <2> QED
    BY <2>1, <2>2, <2>3, Zenon
<1> DEFINE it == Succeeds(d, r)
<1> HIDE DEF it, op, cancellable, spawned, admitted, exists, held
<1>4. /\ op = Submit => it = admitted
      /\ op = Spawn => it = spawned
      /\ op = Status => it = exists
      /\ op = Cancel => it = cancellable
      /\ op \in {Result, ReleaseResult} => it = held
      /\ op \notin {Submit, Spawn, Status, Cancel, Result, ReleaseResult} => it = TRUE
  <2>1. /\ Spawn # Submit /\ Status \notin {Submit, Spawn} /\ Cancel \notin {Submit, Spawn, Status}
        /\ Result \notin {Submit, Spawn, Status, Cancel} /\ ReleaseResult \notin {Submit, Spawn, Status, Cancel}
    BY <1>1
  <2>2. op = Submit => it = admitted
    BY <1>2, <2>1, Zenon DEF it
  <2>3. op = Spawn => it = spawned
    BY <1>2, <2>1, Zenon DEF it
  <2>4. op = Status => it = exists
    BY <1>2, <2>1, Zenon DEF it
  <2>5. op = Cancel => it = cancellable
    BY <1>2, <2>1, Zenon DEF it
  <2>6. op \in {Result, ReleaseResult} => it = held
    BY <1>2, <2>1, Zenon DEF it
  <2>7. op \notin {Submit, Spawn, Status, Cancel, Result, ReleaseResult} => it = TRUE
    BY <1>2, Zenon DEF it
  <2> QED
    BY <2>2, <2>3, <2>4, <2>5, <2>6, <2>7, Zenon
<1>5. it \in BOOLEAN
  BY <1>3, <1>4, Zenon
<1>6. it => /\ op = Submit => admitted
            /\ op = Spawn => admitted
            /\ op \in {Status, Cancel} => exists
            /\ op = Result => held
  BY <1>3, <1>4, Zenon
<1> QED
  BY <1>5, <1>6, Zenon DEF it, op, admitted, exists, held

\* What dispatch answers is a response.
LEMMA DispatchedTyped ==
  ASSUME NodesTyped, NEW d \in Daemons, results[d] \subseteq AgentIds, NEW r \in ControlRequests
  PROVE  Dispatched(d, r) \in ControlResponses
<1> DEFINE ok == Succeeds(d, r)
           shown == CASE r.operation = Status /\ ok -> <<r.target>>
                      [] r.operation = List -> Listed(d)
                      [] OTHER -> <<>>
           fetched == r.operation = Result /\ ok
           message == IF ok THEN <<>> ELSE <<r.operation>>
           infos == [i \in DOMAIN shown |-> MakeControlInfo(nodes[d][shown[i]])]
           result == IF fetched THEN ResultReference(r.target) ELSE NoReference
           ids == {id \in AgentIds : Exists(d, id)}
<1>1. r.operation \in Operations /\ r.target \in Nat /\ r.operation \in Nat
  <2>1. r.operation \in Operations /\ r.target \in Nat
    BY DEF ControlRequests
  <2> QED
    BY <2>1 DEF Operations, Ping, ReleaseResult
<1>2. Status # List /\ Result # ReleaseResult /\ Result # Status /\ Result # Submit /\ Result # Spawn /\ Result # Cancel
      /\ Status # Submit /\ Status # Spawn
  BY DEF Status, List, Result, ReleaseResult, Submit, Spawn, Cancel
<1>3. shown \in Seq(ids)
  <2>1. CASE r.operation = Status /\ ok
    <3>1. Exists(d, r.target)
      BY <2>1, SucceedsIs, Zenon
    <3>2. r.target \in ids
      BY <3>1, ExistingNode
    <3>3. shown = <<r.target>>
      <4> HIDE DEF ids, ok
      <4> QED
        BY <1>2, <2>1
    <3> HIDE DEF ids, shown
    <3> QED
      BY <3>2, <3>3
  <2>2. CASE r.operation = List
    <3> HIDE DEF ok
    <3>1. shown = Listed(d)
      BY <1>2, <2>2
    <3> QED
      BY <3>1, ListedIs, Zenon
  <2>3. CASE ~(r.operation = Status /\ ok) /\ r.operation # List
    <3> HIDE DEF ok
    <3>1. shown = <<>>
      BY <2>3
    <3> HIDE DEF ids, shown
    <3> QED
      BY <3>1
  <2> QED
    BY <2>1, <2>2, <2>3, Zenon
<1>4. message \in Text
  <2> HIDE DEF ok
  <2> QED
    BY <1>1 DEF Text
<1>5. infos \in Seq(AgentInfos)
  <2> HIDE DEF shown
  <2>1. ASSUME NEW i \in DOMAIN shown
        PROVE  MakeControlInfo(nodes[d][shown[i]]) \in AgentInfos
    <3>1. shown[i] \in ids
      <4> HIDE DEF ids
      <4> QED
        BY <1>3
    <3>2. Exists(d, shown[i])
      BY <3>1, Zenon
    <3> QED
      BY <3>2, ExistingNode, InfoTyped, Zenon
  <2>2. DOMAIN shown = 1 .. Len(shown) /\ Len(shown) \in Nat
    <3> HIDE DEF ids
    <3> QED
      BY <1>3
  <2> DEFINE info(i) == MakeControlInfo(nodes[d][shown[i]])
  <2>3. \A i \in 1 .. Len(shown) : info(i) \in AgentInfos
    BY <2>1, <2>2, Zenon
  <2>4. infos = [i \in 1 .. Len(shown) |-> info(i)]
    BY <2>2, Zenon
  <2> HIDE DEF info, infos
  <2> QED
    BY <2>2, <2>3, <2>4
<1>6. fetched \in BOOLEAN /\ ok \in BOOLEAN
  BY SucceedsIs, Zenon
<1>7. result \in References /\ IF fetched THEN InBounds(result) ELSE result = NoReference
  <2>1. CASE fetched
    <3>1. r.target \in results[d]
      BY <2>1, SucceedsIs, Zenon
    <3>2. r.target \in Nat /\ r.target # 0
      BY <3>1, DaemonAssumption
    <3>3. ResultReference(r.target) \in References /\ InBounds(ResultReference(r.target))
      BY <3>2 DEF ResultReference, References, InBounds, Immutable
    <3> QED
      BY <2>1, <3>3, Zenon
  <2>2. CASE ~fetched
    BY <2>2 DEF NoReference, References
  <2> QED
    BY <2>1, <2>2, Zenon
<1>8. Dispatched(d, r) = [success |-> ok, message |-> message, agents |-> infos,
                          available |-> fetched, result |-> result]
  BY Zenon DEF Dispatched
<1> HIDE DEF ok, message, infos, fetched, result
<1> QED
  BY <1>4, <1>5, <1>6, <1>7, <1>8 DEF ControlResponses

\* The table after a request that has succeeded.
LEMMA HandledTyped ==
  ASSUME NodesTyped, NEW d \in Daemons, NEW r \in ControlRequests, Succeeds(d, r)
  PROVE  NodesAfter(d, r) \in [AgentIds -> Snapshots \cup {NoNode}]
<1>1. r.task \in Tasks /\ r.target \in Nat
  BY DEF ControlRequests
<1>2. Submit # Spawn /\ Submit # Cancel /\ Spawn # Cancel
  BY DEF Submit, Spawn, Cancel
<1>3. CASE r.operation = Submit
  <2>1. Admissible(d, r.task)
    BY <1>3, SucceedsIs, Zenon
  <2>2. NodesAfter(d, r) = Submitted(d, r.task)
    BY <1>2, <1>3, Zenon DEF NodesAfter
  <2> QED
    BY <1>1, <2>1, <2>2, SubmittedTyped, Zenon
<1>4. CASE r.operation = Spawn
  <2> DEFINE task == r.task
             child == [task EXCEPT !.parent = r.target]
  <2>1. Admissible(d, task)
    BY <1>4, SucceedsIs, Zenon
  <2> HIDE DEF task
  <2>2. child \in Tasks /\ child.id = task.id /\ child.dependencies = task.dependencies
    BY <1>1 DEF Tasks, task
  <2> HIDE DEF child
  <2>3. Admissible(d, child)
    BY <2>1, <2>2, Zenon DEF Admissible
  <2>4. NodesAfter(d, r) = Submitted(d, child)
    BY <1>2, <1>4, Zenon DEF NodesAfter, child, task
  <2>5. Submitted(d, child) \in [AgentIds -> Snapshots \cup {NoNode}]
    BY <2>2, <2>3, SubmittedTyped, Zenon
  <2> QED
    BY <2>4, <2>5, Zenon
<1>5. CASE r.operation = Cancel
  <2>1. Exists(d, r.target)
    BY <1>5, SucceedsIs, Zenon
  <2>2. nodes[d][r.target].error \in Text
    <3>1. nodes[d][r.target] \in Snapshots
      BY <2>1, ExistingNode
    <3> QED
      BY <3>1 DEF Snapshots
  <2>3. Cancelled \in AgentStates
    BY DEF Cancelled, AgentStates
  <2>4. NodesAfter(d, r) = AfterEnd(d, r.target, Cancelled, nodes[d][r.target].error)
    BY <1>2, <1>5, Zenon DEF NodesAfter
  <2> DEFINE error == nodes[d][r.target].error
             target == r.target
  <2>5. Exists(d, target) /\ error \in Text
    BY <2>1, <2>2
  <2> HIDE DEF error, target
  <2>6. AfterEnd(d, target, Cancelled, error) \in [AgentIds -> Snapshots \cup {NoNode}]
    BY <2>3, <2>5, EndedTyped, Zenon
  <2> QED
    BY <2>4, <2>6, Zenon DEF error, target
<1>6. CASE r.operation \notin {Submit, Spawn, Cancel}
  <2>1. NodesAfter(d, r) = nodes[d]
    BY <1>6, Zenon DEF NodesAfter
  <2>2. nodes[d] \in [AgentIds -> Snapshots \cup {NoNode}]
    BY DEF NodesTyped
  <2> QED
    BY <2>1, <2>2, Zenon
<1> QED
  BY <1>3, <1>4, <1>5, <1>6, Zenon

\* A worker has executed an agent.
LEMMA FinishedTyped ==
  ASSUME NodesTyped, NEW d \in Daemons, NEW id \in AgentIds, FinishAgent(d, id)
  PROVE  NodesTyped'
<1>1. Exists(d, id) /\ nodes[d][id] \in Snapshots
  BY ExistingNode DEF FinishAgent
<1>2. CASE nodes' = [nodes EXCEPT ![d] = AfterCompletion(d, id)]
  BY <1>1, <1>2, CompletedTyped, NodeChanged, Zenon
<1>3. CASE nodes' = [nodes EXCEPT ![d][id].retries = @ + 1, ![d][id].error = LongError]
  <2> DEFINE s == nodes[d][id]
             t == [s EXCEPT !.retries = @ + 1, !.error = LongError]
  <2>1. t \in Snapshots
    <3>1. s \in Snapshots /\ LongError \in Text
      BY <1>1, DaemonAssumption
    <3> HIDE DEF s
    <3>2. s.retries + 1 \in Nat
      BY <3>1 DEF Snapshots
    <3> DEFINE n == s.retries + 1
    <3> HIDE DEF n
    <3>3. [s EXCEPT !.retries = n, !.error = LongError] \in Snapshots
      BY <3>1, <3>2 DEF Snapshots, n
    <3> QED
      BY <3>3, Zenon DEF n
  <2> DEFINE table == [nodes[d] EXCEPT ![id] = t]
  <2>2. nodes' = [nodes EXCEPT ![d] = table]
    BY <1>3 DEF NodesTyped
  <2>3. nodes[d] \in [AgentIds -> Snapshots \cup {NoNode}]
    BY DEF NodesTyped
  <2> HIDE DEF t
  <2>4. table \in [AgentIds -> Snapshots \cup {NoNode}]
    BY <2>1, <2>3
  <2> HIDE DEF table
  <2> QED
    BY <2>2, <2>4, NodeChanged
<1>4. CASE nodes' = [nodes EXCEPT ![d] = AfterEnd(d, id, Failed, LongError)]
  <2>1. Failed \in AgentStates /\ LongError \in Text
    BY DaemonAssumption DEF Failed, AgentStates
  <2> QED
    BY <1>1, <1>4, <2>1, EndedTyped, NodeChanged, Zenon
<1> QED
  BY <1>2, <1>3, <1>4, Zenon DEF FinishAgent

\* The places of the connections of a daemon.
LEMMA SocketsType ==
  ASSUME ControlTypeOK, NEW d \in Daemons
  PROVE  /\ Len(backlog[d]) \in Nat /\ Sockets(d) \subseteq Nat /\ 0 \in Sockets(d)
         /\ DOMAIN backlog[d] = 1 .. Len(backlog[d]) /\ backlog[d] \in Seq(Connections)
         /\ \A i \in Sockets(d) : i # 0 => i \in 1 .. Len(backlog[d])
         /\ \A i \in 1 .. Len(backlog[d]) : i # 0 /\ i \in Sockets(d)
<1>1. backlog[d] \in Seq(Connections)
  BY DEF ControlTypeOK
<1> QED
  BY <1>1 DEF Sockets

\* A client is connected as long as a daemon holds its connection.
LEMMA DaemonOpenIs ==
  ASSUME ControlTypeOK, NEW k
  PROVE  DaemonOpen(k) <=> OpenAt(k)
<1>1. ASSUME NEW d \in Daemons
      PROVE  (current[d] = k \/ \E i \in DOMAIN backlog[d] : backlog[d][i] = k)
               <=> \E i \in Sockets(d) : ConnectionIn(d, i) = k
  <2>1. /\ 0 \in Sockets(d) /\ DOMAIN backlog[d] = 1 .. Len(backlog[d])
        /\ \A i \in Sockets(d) : i # 0 => i \in 1 .. Len(backlog[d])
        /\ \A i \in 1 .. Len(backlog[d]) : i # 0 /\ i \in Sockets(d)
    BY SocketsType, Zenon
  <2> QED
    BY <2>1, Zenon DEF ConnectionIn
<1> QED
  BY <1>1, Zenon DEF DaemonOpen, OpenAt

\* What the connections of the daemons are after a step: none is added, those
\* of a daemon move up by so many places.
Moved(shift) ==
  \A d \in Daemons : \A i \in Sockets(d)' :
    ConnectionIn(d, i)' \in Calls =>
      i + shift[d] \in Sockets(d) /\ ConnectionIn(d, i)' = ConnectionIn(d, i + shift[d])

\* Connections that move up in a backlog are held as before.
LEMMA MovedKeeps ==
  ASSUME OpenOnce, NEW shift \in [Daemons -> Nat], Moved(shift)
  PROVE  OpenOnce' /\ \A k \in Calls : OpenAt(k)' => OpenAt(k)
<1>1. ASSUME NEW d \in Daemons, NEW e \in Daemons, NEW i \in Sockets(d)', NEW j \in Sockets(e)',
             ConnectionIn(d, i)' \in Calls, ConnectionIn(d, i)' = ConnectionIn(e, j)'
      PROVE  d = e /\ i = j
  <2>1. /\ i + shift[d] \in Sockets(d) /\ ConnectionIn(d, i)' = ConnectionIn(d, i + shift[d])
        /\ j + shift[e] \in Sockets(e) /\ ConnectionIn(e, j)' = ConnectionIn(e, j + shift[e])
    BY <1>1, Zenon DEF Moved
  <2>2. d = e /\ i + shift[d] = j + shift[e]
    BY <1>1, <2>1, Zenon DEF OpenOnce
  <2>3. i \in Int /\ j \in Int /\ shift[d] \in Nat
    BY DEF Sockets
  <2> DEFINE s == shift[d]
  <2>4. i + s = j + s /\ s \in Nat
    BY <2>2, <2>3
  <2> HIDE DEF s
  <2>5. i = j
    BY <2>3, <2>4
  <2> QED
    BY <2>2, <2>5
<1>2. OpenOnce'
  BY <1>1, Zenon DEF OpenOnce
<1>3. ASSUME NEW k \in Calls, OpenAt(k)'
      PROVE  OpenAt(k)
  <2>1. PICK d \in Daemons : \E i \in Sockets(d)' : ConnectionIn(d, i)' = k
    BY <1>3, Zenon DEF OpenAt
  <2>2. PICK i \in Sockets(d)' : ConnectionIn(d, i)' = k
    BY <2>1, Zenon
  <2>3. i + shift[d] \in Sockets(d) /\ ConnectionIn(d, i + shift[d]) = k
    BY <2>2, Zenon DEF Moved
  <2> QED
    BY <2>3, Zenon DEF OpenAt
<1> QED
  BY <1>2, <1>3

\* A connection is added at the end of a backlog.
LEMMA AddedKeeps ==
  ASSUME ControlTypeOK, OpenOnce, NEW p \in Daemons, NEW x, x \in Calls => ~OpenAt(x),
         backlog' = [backlog EXCEPT ![p] = Append(@, x)], current' = current, x \in Connections
  PROVE  /\ OpenOnce' /\ \A k \in Calls : OpenAt(k)' => OpenAt(k) \/ k = x
         /\ \A d \in Daemons : \A i \in Sockets(d)' :
              \/ i \in Sockets(d) /\ ConnectionIn(d, i)' = ConnectionIn(d, i)
              \/ d = p /\ i = Len(backlog[p]) + 1 /\ ConnectionIn(d, i)' = x
<1> DEFINE last == Len(backlog[p]) + 1
<1>1. ASSUME NEW d \in Daemons, NEW i \in Sockets(d)'
      PROVE  \/ i \in Sockets(d) /\ ConnectionIn(d, i)' = ConnectionIn(d, i)
             \/ d = p /\ i = last /\ ConnectionIn(d, i)' = x
  <2>1. CASE d # p
    <3>1. backlog'[d] = backlog[d]
      BY <2>1 DEF ControlTypeOK
    <3> QED
      BY <3>1 DEF Sockets, ConnectionIn
  <2>2. CASE d = p
    <3> DEFINE b == backlog[p]
    <3>1. b \in Seq(Connections) /\ backlog'[p] = Append(b, x)
      BY DEF ControlTypeOK
    <3> HIDE DEF b
    <3>2. /\ Len(Append(b, x)) = Len(b) + 1 /\ Len(b) \in Nat
          /\ Append(b, x)[Len(b) + 1] = x /\ \A j \in 1 .. Len(b) : Append(b, x)[j] = b[j]
      BY <3>1
    <3>3. i \in 0 .. Len(b) + 1
      BY <2>2, <3>1, <3>2 DEF Sockets
    <3>4. CASE i = Len(b) + 1
      <4>1. i # 0
        BY <3>2, <3>4
      <4>2. ConnectionIn(d, i)' = Append(b, x)[i]
        BY <2>2, <3>1, <4>1, Zenon DEF ConnectionIn
      <4> QED
        BY <2>2, <3>2, <3>4, <4>2, Zenon DEF b
    <3>5. CASE i # Len(b) + 1
      <4>1. i \in 0 .. Len(b) /\ (i # 0 => i \in 1 .. Len(b))
        BY <3>2, <3>3, <3>5
      <4>2. i \in Sockets(d)
        BY <2>2, <4>1, Zenon DEF Sockets, b
      <4>3. CASE i = 0
        BY <4>2, <4>3, Zenon DEF ConnectionIn
      <4>4. CASE i # 0
        <5>1. ConnectionIn(d, i)' = Append(b, x)[i]
          BY <2>2, <3>1, <4>4, Zenon DEF ConnectionIn
        <5>2. ConnectionIn(d, i) = b[i]
          BY <2>2, <4>4, Zenon DEF ConnectionIn, b
        <5> QED
          BY <3>2, <4>1, <4>2, <4>4, <5>1, <5>2, Zenon
      <4> QED
        BY <4>3, <4>4, Zenon
    <3> QED
      BY <3>4, <3>5, Zenon
  <2> QED
    BY <2>1, <2>2, Zenon
<1> HIDE DEF last
<1>2. ASSUME NEW d \in Daemons, NEW e \in Daemons, NEW i \in Sockets(d)', NEW j \in Sockets(e)',
             ConnectionIn(d, i)' \in Calls, ConnectionIn(d, i)' = ConnectionIn(e, j)'
      PROVE  d = e /\ i = j
  <2> DEFINE old(c, n) == n \in Sockets(c) /\ ConnectionIn(c, n)' = ConnectionIn(c, n)
             new(c, n) == c = p /\ n = last /\ ConnectionIn(c, n)' = x
  <2>1. (old(d, i) \/ new(d, i)) /\ (old(e, j) \/ new(e, j))
    BY <1>1, Zenon
  <2>2. CASE old(d, i) /\ old(e, j)
    <3>1. i \in Sockets(d) /\ j \in Sockets(e) /\ ConnectionIn(d, i) \in Calls /\ ConnectionIn(d, i) = ConnectionIn(e, j)
      BY <1>2, <2>2, Zenon
    <3> QED
      BY <3>1, Zenon DEF OpenOnce
  <2>3. CASE new(d, i) /\ new(e, j)
    BY <2>3, Zenon
  <2>4. CASE old(d, i) /\ new(e, j)
    <3>1. x \in Calls /\ OpenAt(x)
      BY <1>2, <2>4, Zenon DEF OpenAt
    <3> QED
      BY <3>1
  <2>5. CASE new(d, i) /\ old(e, j)
    <3>1. x \in Calls /\ OpenAt(x)
      BY <1>2, <2>5, Zenon DEF OpenAt
    <3> QED
      BY <3>1
  <2> QED
    BY <2>1, <2>2, <2>3, <2>4, <2>5, Zenon
<1>3. OpenOnce'
  BY <1>2, Zenon DEF OpenOnce
<1>4. ASSUME NEW k \in Calls, OpenAt(k)', k # x
      PROVE  OpenAt(k)
  <2>1. PICK d \in Daemons : \E i \in Sockets(d)' : ConnectionIn(d, i)' = k
    BY <1>4, Zenon DEF OpenAt
  <2>2. PICK i \in Sockets(d)' : ConnectionIn(d, i)' = k
    BY <2>1, Zenon
  <2>3. i \in Sockets(d) /\ ConnectionIn(d, i) = k
    BY <1>1, <1>4, <2>2, Zenon
  <2> QED
    BY <2>3, Zenon DEF OpenAt
<1> QED
  BY <1>1, <1>3, <1>4, Zenon DEF last

\* A call that nothing happens to but that a packet of it is dropped.
Untouched(k) ==
  /\ call'[k] = call[k] /\ asked'[k] = asked[k] /\ requestPacket'[k] = requestPacket[k] /\ told'[k] = told[k]
  /\ seen'[k] = seen[k] /\ answer'[k] = answer[k] /\ responsePacket'[k] = responsePacket[k]
  /\ toDaemon'[k] \in {toDaemon[k], NoPacket} /\ toCaller'[k] \in {toCaller[k], NoPacket}

\* A call that a step does not touch is where it was.
LEMMA UntouchedKeeps ==
  ASSUME NEW k \in Calls, CallOK(k), Untouched(k), OpenAt(k)' => OpenAt(k)
  PROVE  CallOK(k)'
<1>1. /\ call'[k] = call[k] /\ asked'[k] = asked[k] /\ requestPacket'[k] = requestPacket[k] /\ told'[k] = told[k]
      /\ seen'[k] = seen[k] /\ answer'[k] = answer[k] /\ responsePacket'[k] = responsePacket[k]
      /\ (toDaemon'[k] = toDaemon[k] \/ toDaemon'[k] = NoPacket)
      /\ (toCaller'[k] = toCaller[k] \/ toCaller'[k] = NoPacket)
  BY DEF Untouched
<1> QED
  BY <1>1, Zenon DEF CallOK

\* The calls are as they were: nothing is sent, asked, dispatched or told.
LEMMA CallsAreOK ==
  ASSUME ControlInv, \A k \in Calls : Untouched(k), \A k \in Calls : OpenAt(k)' => OpenAt(k)
  PROVE  \A k \in Calls : CallOK(k)'
BY UntouchedKeeps, Zenon DEF ControlInv

\* A step of a daemon that does not answer.
LEMMA QuietStep ==
  ASSUME ControlInv, NodesTyped', OpenOnce', \A k \in Calls : OpenAt(k)' => OpenAt(k), OpenUnseen',
         UNCHANGED <<callVars, servedVars, toCaller>>,
         \/ UNCHANGED toDaemon
         \/ \E ks : toDaemon' = [k \in Calls |-> IF k \in ks THEN NoPacket ELSE toDaemon[k]]
  PROVE  ControlInv'
<1> USE DEF callVars, servedVars
<1>1. toDaemon' = [k \in Calls |-> toDaemon'[k]] /\ \A k \in Calls : toDaemon'[k] \in {toDaemon[k], NoPacket}
  BY Zenon DEF ControlInv, Packets
<1>2. Packets'
  BY <1>1, Zenon DEF ControlInv, Packets
<1>3. \A k \in Calls : Untouched(k)
  BY <1>1, Zenon DEF Untouched
<1>4. \A k \in Calls : CallOK(k)'
  BY <1>3, CallsAreOK, Zenon
<1>5. OpenConnected'
  BY Zenon DEF ControlInv, OpenConnected
<1> QED
  BY <1>2, <1>4, <1>5, Zenon DEF ControlInv

\* No connection is made, taken up or closed.
LEMMA SameSockets ==
  ASSUME UNCHANGED <<backlog, current>>, OpenOnce
  PROVE  /\ OpenOnce' /\ \A k \in Calls : OpenAt(k)' <=> OpenAt(k)
         /\ \A d \in Daemons : Sockets(d)' = Sockets(d) /\ \A i \in Sockets(d) : ConnectionIn(d, i)' = ConnectionIn(d, i)
<1>1. \A d \in Daemons : Sockets(d)' = Sockets(d) /\ \A i \in Sockets(d) : ConnectionIn(d, i)' = ConnectionIn(d, i)
  BY Zenon DEF Sockets, ConnectionIn
<1>2. OpenOnce'
  <2>1. ASSUME NEW d \in Daemons, NEW e \in Daemons, NEW i \in Sockets(d)', NEW j \in Sockets(e)',
               ConnectionIn(d, i)' \in Calls, ConnectionIn(d, i)' = ConnectionIn(e, j)'
        PROVE  d = e /\ i = j
    <3>1. i \in Sockets(d) /\ j \in Sockets(e) /\ ConnectionIn(d, i) \in Calls /\ ConnectionIn(d, i) = ConnectionIn(e, j)
      BY <1>1, <2>1, Zenon
    <3> QED
      BY <3>1, Zenon DEF OpenOnce
  <2> QED
    BY <2>1, Zenon DEF OpenOnce
<1>3. \A k \in Calls : OpenAt(k)' <=> OpenAt(k)
  BY Zenon DEF OpenAt, Sockets, ConnectionIn
<1> QED
  BY <1>1, <1>2, <1>3, Zenon

\* A step that leaves every connection and every call as it is.
LEMMA SteadyStep ==
  ASSUME ControlInv, NodesTyped', UNCHANGED <<backlog, current, callVars, servedVars, controlWire>>,
         \A d \in Daemons : phase'[d] = "receive" => phase[d] = "receive"
  PROVE  ControlInv'
<1>1. OpenOnce' /\ \A k \in Calls : OpenAt(k)' => OpenAt(k)
  BY SameSockets, Zenon DEF ControlInv
<1>2. ASSUME NEW d \in Daemons, NEW i \in Sockets(d)', ConnectionIn(d, i)' \in Calls, i # 0 \/ phase'[d] = "receive"
      PROVE  seen'[ConnectionIn(d, i)'] = NoControlRequest
  <2>1. i \in Sockets(d) /\ ConnectionIn(d, i)' = ConnectionIn(d, i) /\ seen' = seen
    BY SameSockets, Zenon DEF ControlInv, servedVars
  <2> QED
    BY <1>2, <2>1, Zenon DEF ControlInv, OpenUnseen
<1>3. OpenUnseen'
  BY <1>2, Zenon DEF OpenUnseen
<1> QED
  BY <1>1, <1>3, QuietStep, Zenon DEF controlWire

SteadyDaemon(d) ==
  \/ StartDaemon(d) \/ FindNoPath(d) \/ FindPath(d) \/ ProbeRefused(d) \/ UnlinkStale(d) \/ UnlinkFails(d)
  \/ Bind(d) \/ BindFails(d) \/ Listen(d) \/ ListenFails(d) \/ AskStop(d) \/ LeaveLoop(d)
  \/ RemovePath(d) \/ StopRuntime(d)

\* start, the signal and the ends of stop touch no connection.
LEMMA SteadyDaemonStep ==
  ASSUME ControlTypeOK, ControlInv, NEW d \in Daemons, SteadyDaemon(d)
  PROVE  ControlInv' /\ UNCHANGED <<callVars, servedVars>>
<1> USE DEF runtimeVars, callVars, controlWire, servedVars
<1>1. /\ UNCHANGED <<backlog, current, runtimeVars, callVars, servedVars, controlWire>>
      /\ (phase' = phase \/ \E s : s # "receive" /\ phase' = [phase EXCEPT ![d] = s])
  <2>1. CASE StartDaemon(d)
    BY <2>1 DEF StartDaemon, Goto
  <2>2. CASE FindNoPath(d)
    BY <2>2 DEF FindNoPath, StartStep, Goto
  <2>3. CASE FindPath(d)
    BY <2>3 DEF FindPath, StartStep, Goto
  <2>4. CASE ProbeRefused(d)
    BY <2>4 DEF ProbeRefused, StartStep, Goto
  <2>5. CASE UnlinkStale(d)
    BY <2>5 DEF UnlinkStale, StartStep, Goto
  <2>6. CASE UnlinkFails(d)
    BY <2>6 DEF UnlinkFails, GiveUpStart, Goto
  <2>7. CASE Bind(d)
    BY <2>7 DEF Bind, StartStep, Goto
  <2>8. CASE BindFails(d)
    BY <2>8 DEF BindFails, GiveUpStart, Goto
  <2>9. CASE Listen(d)
    BY <2>9 DEF Listen, StartStep, Goto
  <2>10. CASE ListenFails(d)
    BY <2>10 DEF ListenFails, GiveUpStart, Goto
  <2>11. CASE AskStop(d)
    BY <2>11 DEF AskStop
  <2>12. CASE LeaveLoop(d)
    BY <2>12 DEF LeaveLoop, Goto
  <2>13. CASE RemovePath(d)
    BY <2>13 DEF RemovePath, Goto
  <2>14. CASE StopRuntime(d)
    BY <2>14 DEF StopRuntime, Goto
  <2> QED
    BY <2>1, <2>2, <2>3, <2>4, <2>5, <2>6, <2>7, <2>8, <2>9, <2>10, <2>11, <2>12, <2>13, <2>14, Zenon
       DEF SteadyDaemon
<1>2. \A e \in Daemons : phase'[e] = "receive" => phase[e] = "receive"
  BY <1>1 DEF ControlTypeOK
<1>3. NodesTyped'
  BY <1>1, Zenon DEF ControlInv, NodesTyped
<1> HIDE DEF runtimeVars, callVars, controlWire, servedVars
<1> QED
  BY <1>1, <1>2, <1>3, SteadyStep, Zenon

\* An agent that ends changes the agents of its runtime, and no call.
LEMMA FinishStep ==
  ASSUME ControlInv, NEW d \in Daemons, NEW id \in AgentIds, FinishAgent(d, id)
  PROVE  ControlInv' /\ UNCHANGED <<callVars, servedVars>>
<1>1. NodesTyped'
  BY FinishedTyped, Zenon DEF ControlInv
<1>2. UNCHANGED <<daemonVars, callVars, controlWire, servedVars>>
  BY Zenon DEF FinishAgent
<1>3. UNCHANGED <<backlog, current, phase>>
  BY <1>2 DEF daemonVars
<1> QED
  BY <1>1, <1>2, <1>3, SteadyStep, Zenon

\* The probe of another start is one more connection.
LEMMA ProbeStep ==
  ASSUME ControlTypeOK, ControlInv, NEW d \in Daemons, ProbeAnswered(d)
  PROVE  ControlInv' /\ UNCHANGED <<callVars, servedVars>>
<1>1. /\ path \in Daemons /\ backlog' = [backlog EXCEPT ![path] = Append(@, d)] /\ current' = current
      /\ phase' = [phase EXCEPT ![d] = "down"]
      /\ UNCHANGED <<runtimeVars, callVars, controlWire, servedVars>>
  BY DEF ProbeAnswered, GiveUpStart, ControlTypeOK, Goto
<1>2. d \notin Calls /\ d \in Connections
  BY DaemonAssumption DEF Connections
<1>3. /\ OpenOnce' /\ \A k \in Calls : OpenAt(k)' => OpenAt(k) \/ k = d
      /\ \A e \in Daemons : \A i \in Sockets(e)' :
           \/ i \in Sockets(e) /\ ConnectionIn(e, i)' = ConnectionIn(e, i)
           \/ e = path /\ i = Len(backlog[path]) + 1 /\ ConnectionIn(e, i)' = d
  <2>1. OpenOnce
    BY DEF ControlInv
  <2> QED
    BY <1>1, <1>2, <2>1, AddedKeeps, Zenon
<1>4. \A k \in Calls : OpenAt(k)' => OpenAt(k)
  BY <1>2, <1>3, Zenon
<1>5. \A e \in Daemons : phase'[e] = "receive" => phase[e] = "receive"
  BY <1>1 DEF ControlTypeOK
<1>6. ASSUME NEW e \in Daemons, NEW i \in Sockets(e)', ConnectionIn(e, i)' \in Calls, i # 0 \/ phase'[e] = "receive"
      PROVE  seen'[ConnectionIn(e, i)'] = NoControlRequest
  <2>1. i \in Sockets(e) /\ ConnectionIn(e, i)' = ConnectionIn(e, i)
    BY <1>2, <1>3, <1>6, Zenon
  <2>2. seen' = seen
    BY <1>1, Zenon DEF servedVars
  <2> QED
    BY <1>5, <1>6, <2>1, <2>2, Zenon DEF ControlInv, OpenUnseen
<1>7. OpenUnseen'
  BY <1>6, Zenon DEF OpenUnseen
<1>8. NodesTyped'
  BY <1>1, Zenon DEF ControlInv, NodesTyped, runtimeVars
<1> QED
  BY <1>1, <1>3, <1>4, <1>7, <1>8, QuietStep, Zenon DEF controlWire

\* accept: the first connection of the backlog is the one that is served.
LEMMA AcceptStep ==
  ASSUME ControlTypeOK, ControlInv, NEW d \in Daemons, Accept(d)
  PROVE  ControlInv' /\ UNCHANGED <<callVars, servedVars>>
<1> DEFINE shift == [e \in Daemons |-> IF e = d THEN 1 ELSE 0]
           b == backlog[d]
<1>1. /\ b # <<>> /\ current' = [current EXCEPT ![d] = Head(b)] /\ backlog' = [backlog EXCEPT ![d] = Tail(b)]
      /\ phase' = [phase EXCEPT ![d] = "receive"]
      /\ UNCHANGED <<runtimeVars, callVars, controlWire, servedVars>>
  BY DEF Accept, Goto
<1>2. b \in Seq(Connections) /\ backlog'[d] = Tail(b) /\ current'[d] = Head(b)
  BY <1>1 DEF ControlTypeOK
<1> HIDE DEF b
<1>3. ASSUME NEW e \in Daemons, NEW i \in Sockets(e)'
      PROVE  /\ i + shift[e] \in Sockets(e) /\ ConnectionIn(e, i)' = ConnectionIn(e, i + shift[e])
             /\ i + shift[e] # 0 \/ (i = 0 /\ phase'[e] = phase[e])
  <2>1. CASE e # d
    <3>1. backlog'[e] = backlog[e] /\ current'[e] = current[e] /\ phase'[e] = phase[e]
      BY <1>1, <2>1 DEF ControlTypeOK
    <3>2. Sockets(e)' = Sockets(e) /\ ConnectionIn(e, i)' = ConnectionIn(e, i)
      BY <3>1, Zenon DEF Sockets, ConnectionIn
    <3>3. shift[e] = 0
      BY <2>1
    <3>4. i \in Int
      BY DEF Sockets
    <3>5. i + shift[e] = i
      BY <3>3, <3>4
    <3> QED
      BY <3>1, <3>2, <3>5, Zenon
  <2>2. CASE e = d
    <3>1. /\ Len(b) \in Nat /\ Len(b) >= 1 /\ Len(Tail(b)) = Len(b) - 1 /\ Head(b) = b[1]
          /\ \A j \in 1 .. Len(b) - 1 : Tail(b)[j] = b[j + 1]
      BY <1>1, <1>2
    <3>2. Sockets(e)' = 0 .. Len(Tail(b)) /\ Sockets(e) = 0 .. Len(b)
      BY <1>2, <2>2, Zenon DEF Sockets, b
    <3>3. i \in 0 .. Len(b) - 1
      BY <3>1, <3>2
    <3>4. shift[e] = 1
      BY <2>2
    <3> HIDE DEF shift
    <3>5. i + 1 \in 0 .. Len(b) /\ i + 1 # 0 /\ i + shift[e] = i + 1
      BY <3>1, <3>3, <3>4
    <3>6. ConnectionIn(e, i + 1) = b[i + 1]
      BY <2>2, <3>5, Zenon DEF ConnectionIn, b
    <3>7. CASE i = 0
      <4>1. i + 1 = 1
        BY <3>7
      <4>2. ConnectionIn(e, i)' = Head(b)
        BY <1>2, <2>2, <3>7, Zenon DEF ConnectionIn
      <4> QED
        BY <3>1, <3>2, <3>5, <3>6, <4>1, <4>2, Zenon
    <3>8. CASE i # 0
      <4>1. i \in 1 .. Len(b) - 1
        BY <3>3, <3>8
      <4>2. ConnectionIn(e, i)' = Tail(b)[i]
        BY <1>2, <2>2, <3>8, Zenon DEF ConnectionIn
      <4> QED
        BY <3>1, <3>2, <3>5, <3>6, <4>1, <4>2, Zenon
    <3> QED
      BY <3>7, <3>8, Zenon
  <2> QED
    BY <2>1, <2>2, Zenon
<1>4. shift \in [Daemons -> Nat]
  OBVIOUS
<1> HIDE DEF shift
<1>5. Moved(shift)
  BY <1>3, Zenon DEF Moved
<1>6. OpenOnce' /\ \A k \in Calls : OpenAt(k)' => OpenAt(k)
  BY <1>4, <1>5, MovedKeeps, Zenon DEF ControlInv
<1>7. ASSUME NEW e \in Daemons, NEW i \in Sockets(e)', ConnectionIn(e, i)' \in Calls, i # 0 \/ phase'[e] = "receive"
      PROVE  seen'[ConnectionIn(e, i)'] = NoControlRequest
  <2> DEFINE j == i + shift[e]
  <2>1. /\ j \in Sockets(e) /\ ConnectionIn(e, i)' = ConnectionIn(e, j)
        /\ j # 0 \/ (i = 0 /\ phase'[e] = phase[e])
    BY <1>3, Zenon
  <2>2. seen' = seen
    BY <1>1, Zenon DEF servedVars
  <2> HIDE DEF j
  <2> QED
    BY <1>7, <2>1, <2>2, Zenon DEF ControlInv, OpenUnseen
<1>8. OpenUnseen'
  BY <1>7, Zenon DEF OpenUnseen
<1>9. NodesTyped'
  BY <1>1, Zenon DEF ControlInv, NodesTyped, runtimeVars
<1> QED
  BY <1>1, <1>6, <1>8, <1>9, QuietStep, Zenon DEF controlWire

\* stop and a crash close the connections that wait.
LEMMA DropStep ==
  ASSUME ControlTypeOK, ControlInv, NEW d \in Daemons, CloseListener(d) \/ Crash(d)
  PROVE  ControlInv' /\ UNCHANGED <<callVars, servedVars>>
<1> DEFINE none == [e \in Daemons |-> 0]
<1>1. /\ backlog' = [backlog EXCEPT ![d] = <<>>]
      /\ (current' = current \/ current' = [current EXCEPT ![d] = Nobody])
      /\ \E s : s # "receive" /\ phase' = [phase EXCEPT ![d] = s]
      /\ toDaemon' = [k \in Calls |-> IF k \in Pending(d) THEN NoPacket ELSE toDaemon[k]]
      /\ UNCHANGED <<runtimeVars, callVars, toCaller, servedVars>>
  <2>1. CASE CloseListener(d)
    BY <2>1 DEF CloseListener, Goto, Dropped
  <2>2. CASE Crash(d)
    BY <2>2 DEF Crash, Goto, Dropped
  <2> QED
    BY <2>1, <2>2, Zenon
<1>2. Nobody \notin Calls
  BY DaemonAssumption DEF Connections
<1>3. ASSUME NEW e \in Daemons, NEW i \in Sockets(e)', ConnectionIn(e, i)' \in Calls
      PROVE  /\ i \in Sockets(e) /\ ConnectionIn(e, i)' = ConnectionIn(e, i) /\ i \in Int
             /\ (i # 0 \/ phase'[e] = "receive") => (i # 0 \/ phase[e] = "receive")
  <2>0. i \in Int
    BY DEF Sockets
  <2>1. CASE e # d
    <3>1. backlog'[e] = backlog[e] /\ current'[e] = current[e] /\ phase'[e] = phase[e]
      BY <1>1, <2>1 DEF ControlTypeOK
    <3> QED
      BY <2>0, <3>1, Zenon DEF Sockets, ConnectionIn
  <2>2. CASE e = d
    <3>1. backlog'[d] = <<>> /\ phase'[d] # "receive" /\ (current'[d] = current[d] \/ current'[d] = Nobody)
      BY <1>1 DEF ControlTypeOK
    <3>2. i = 0
      BY <2>2, <3>1 DEF Sockets
    <3>3. 0 \in Sockets(d)
      BY SocketsType, Zenon
    <3>4. ConnectionIn(e, i)' = current'[d] /\ ConnectionIn(d, 0) = current[d]
      BY <2>2, <3>2, Zenon DEF ConnectionIn
    <3> QED
      BY <1>2, <1>3, <2>0, <2>2, <3>1, <3>2, <3>3, <3>4, Zenon
  <2> QED
    BY <2>1, <2>2, Zenon
<1>4. none \in [Daemons -> Nat] /\ Moved(none)
  <2>1. \A e \in Daemons : none[e] = 0
    OBVIOUS
  <2>2. none \in [Daemons -> Nat]
    OBVIOUS
  <2> HIDE DEF none
  <2>3. ASSUME NEW e \in Daemons, NEW i \in Sockets(e)', ConnectionIn(e, i)' \in Calls
        PROVE  i + none[e] \in Sockets(e) /\ ConnectionIn(e, i)' = ConnectionIn(e, i + none[e])
    <3>1. i \in Sockets(e) /\ ConnectionIn(e, i)' = ConnectionIn(e, i) /\ i \in Int
      BY <1>3, <2>3, Zenon
    <3>2. i + none[e] = i
      BY <2>1, <3>1
    <3> QED
      BY <3>1, <3>2, Zenon
  <2> QED
    BY <2>2, <2>3, Zenon DEF Moved
<1>5. OpenOnce' /\ \A k \in Calls : OpenAt(k)' => OpenAt(k)
  BY <1>4, MovedKeeps, Zenon DEF ControlInv
<1>6. ASSUME NEW e \in Daemons, NEW i \in Sockets(e)', ConnectionIn(e, i)' \in Calls, i # 0 \/ phase'[e] = "receive"
      PROVE  seen'[ConnectionIn(e, i)'] = NoControlRequest
  <2>1. seen' = seen
    BY <1>1, Zenon DEF servedVars
  <2>2. i \in Sockets(e) /\ ConnectionIn(e, i)' = ConnectionIn(e, i) /\ (i # 0 \/ phase[e] = "receive")
    BY <1>3, <1>6, Zenon
  <2> QED
    BY <1>6, <2>1, <2>2, Zenon DEF ControlInv, OpenUnseen
<1>7. OpenUnseen'
  BY <1>6, Zenon DEF OpenUnseen
<1>8. NodesTyped'
  BY <1>1, Zenon DEF ControlInv, NodesTyped, runtimeVars
<1> DEFINE ks == Pending(d)
<1>9. toDaemon' = [k \in Calls |-> IF k \in ks THEN NoPacket ELSE toDaemon[k]]
  BY <1>1, Zenon
<1> HIDE DEF ks
<1> QED
  BY <1>1, <1>5, <1>7, <1>8, <1>9, QuietStep, Zenon

\* A step of one call: the others are as they were.
LEMMA OneCall ==
  ASSUME ControlInv, NEW k \in Calls, NodesTyped', OpenOnce', OpenConnected', OpenUnseen', Packets', CallOK(k)',
         \A j \in Calls : j # k => Untouched(j) /\ (OpenAt(j)' => OpenAt(j))
  PROVE  ControlInv'
<1>1. ASSUME NEW j \in Calls
      PROVE  CallOK(j)'
  <2>1. CallOK(j)
    BY Zenon DEF ControlInv
  <2> QED
    BY <2>1, UntouchedKeeps, Zenon
<1> QED
  BY <1>1, Zenon DEF ControlInv

\* A step of a call that does not connect.
LEMMA OneCallSteady ==
  ASSUME ControlInv, NEW k \in Calls, UNCHANGED <<daemonVars, runtimeVars, servedVars>>, Packets', CallOK(k)',
         \A j \in Calls : j # k => Untouched(j), call'[k] \in {"new", "built"} => ~OpenAt(k)
  PROVE  ControlInv'
<1>1. UNCHANGED <<backlog, current>> /\ phase' = phase /\ seen' = seen /\ nodes' = nodes
  BY DEF daemonVars, runtimeVars, servedVars
<1>2. /\ OpenOnce' /\ \A j \in Calls : OpenAt(j)' <=> OpenAt(j)
      /\ \A d \in Daemons : Sockets(d)' = Sockets(d) /\ \A i \in Sockets(d) : ConnectionIn(d, i)' = ConnectionIn(d, i)
  BY <1>1, SameSockets, Zenon DEF ControlInv
<1>3. ASSUME NEW j \in Calls, OpenAt(j)'
      PROVE  call'[j] \notin {"new", "built"}
  <2>1. OpenAt(j) /\ call[j] \notin {"new", "built"}
    BY <1>2, <1>3, Zenon DEF ControlInv, OpenConnected
  <2>2. CASE j = k
    BY <2>1, <2>2, Zenon
  <2>3. CASE j # k
    BY <2>1, <2>3, Zenon DEF Untouched
  <2> QED
    BY <2>2, <2>3, Zenon
<1>4. OpenConnected'
  BY <1>3, Zenon DEF OpenConnected
<1>5. ASSUME NEW e \in Daemons, NEW i \in Sockets(e)', ConnectionIn(e, i)' \in Calls, i # 0 \/ phase'[e] = "receive"
      PROVE  seen'[ConnectionIn(e, i)'] = NoControlRequest
  <2>1. i \in Sockets(e) /\ ConnectionIn(e, i)' = ConnectionIn(e, i)
    BY <1>2, Zenon
  <2> QED
    BY <1>1, <1>5, <2>1, Zenon DEF ControlInv, OpenUnseen
<1>6. OpenUnseen'
  BY <1>5, Zenon DEF OpenUnseen
<1>7. NodesTyped'
  BY <1>1, Zenon DEF ControlInv, NodesTyped
<1> QED
  BY <1>2, <1>4, <1>6, <1>7, OneCall, Zenon DEF ControlInv

\* The states of a call are different.
LEMMA BeginStep ==
  ASSUME ControlTypeOK, ControlInv, NEW k \in Calls, NEW request \in Requests[k], Begin(k, request)
  PROVE  ControlInv' /\ asked[k] = NoControlRequest
<1>1. /\ call[k] = "new" /\ call' = [call EXCEPT ![k] = "built"] /\ asked' = [asked EXCEPT ![k] = request]
      /\ requestPacket' = [requestPacket EXCEPT ![k] = EncodeControlRequest(request)]
      /\ UNCHANGED <<told, attached, daemonVars, runtimeVars, controlWire, servedVars>>
  BY Zenon DEF Begin
<1>2. /\ told' = told /\ toDaemon' = toDaemon /\ toCaller' = toCaller /\ seen' = seen /\ answer' = answer
      /\ responsePacket' = responsePacket
  BY <1>1 DEF controlWire, servedVars
<1>3. request \in ControlRequests /\ request # NoControlRequest
  BY Distinct, DaemonAssumption, Zenon
<1>4. CallOK(k) /\ ~OpenAt(k) /\ Packets
  BY <1>1, Zenon DEF ControlInv, OpenConnected
<1>5. /\ asked[k] = NoControlRequest /\ told[k] = Untold /\ toDaemon[k] = NoPacket /\ seen[k] = NoControlRequest
      /\ answer[k] \in {NoControlResponse, Refusal} /\ toCaller[k] = NoPacket
  BY <1>1, <1>4, Zenon DEF CallOK
<1>6. /\ call'[k] = "built" /\ asked'[k] = request
      /\ \A j \in Calls : j # k => call'[j] = call[j] /\ asked'[j] = asked[j] /\ requestPacket'[j] = requestPacket[j]
      /\ asked' \in [Calls -> ControlRequests \cup {NoControlRequest}]
      /\ requestPacket' = [j \in Calls |-> IF j = k THEN EncodeControlRequest(request) ELSE requestPacket[j]]
  <2>1. call \in [Calls -> {"new", "built", "connected", "sent", "done"}]
    BY DEF ControlTypeOK
  <2>2. asked \in [Calls -> ControlRequests \cup {NoControlRequest}]
    BY <1>4, Zenon DEF Packets
  <2> DEFINE e(j) == IF asked[j] = NoControlRequest THEN NoPacket ELSE EncodeControlRequest(asked[j])
             x == EncodeControlRequest(request)
  <2>3. requestPacket = [j \in Calls |-> e(j)]
    BY <1>4, Zenon DEF Packets
  <2> HIDE DEF e, x
  <2>4. requestPacket' = [j \in Calls |-> IF j = k THEN x ELSE requestPacket[j]]
    BY <1>1, <2>3 DEF x
  <2>5. \A j \in Calls : j # k => requestPacket'[j] = requestPacket[j]
    BY <2>4, Zenon
  <2> QED
    BY <1>1, <1>3, <2>1, <2>2, <2>4, <2>5 DEF x
<1>7. Packets'
  <2>1. ASSUME NEW j \in Calls
        PROVE  (IF j = k THEN EncodeControlRequest(request) ELSE requestPacket[j])
                 = IF asked'[j] = NoControlRequest THEN NoPacket ELSE EncodeControlRequest(asked'[j])
    <3>1. requestPacket[j] = IF asked[j] = NoControlRequest THEN NoPacket ELSE EncodeControlRequest(asked[j])
      BY <1>4, Zenon DEF Packets
    <3> QED
      BY <1>3, <1>6, <3>1, Zenon
  <2>2. requestPacket' = [j \in Calls |-> IF asked'[j] = NoControlRequest THEN NoPacket ELSE EncodeControlRequest(asked'[j])]
    BY <1>6, <2>1, Zenon
  <2> QED
    BY <1>2, <1>4, <1>6, <2>2, Zenon DEF Packets
<1>8. CallOK(k)'
  BY <1>2, <1>3, <1>5, <1>6, Zenon DEF CallOK
<1>9. \A j \in Calls : j # k => Untouched(j)
  BY <1>2, <1>6, Zenon DEF Untouched
<1>10. call'[k] \in {"new", "built"} => ~OpenAt(k)
  BY <1>4
<1> QED
  BY <1>1, <1>5, <1>7, <1>8, <1>9, <1>10, OneCallSteady, Zenon

\* exchange returns: with a failure, or with what was answered to the call.
LEMMA ReturnStep ==
  ASSUME ControlTypeOK, ControlInv, NEW k \in Calls, call[k] # "new", NEW response, Return(k, response),
         \/ response = Failure
         \/ response = answer[k] /\ answer[k] # NoControlResponse /\ ~OpenAt(k)
  PROVE  ControlInv'
<1>1. /\ call' = [call EXCEPT ![k] = "done"] /\ told' = [told EXCEPT ![k] = response]
      /\ toCaller' = [toCaller EXCEPT ![k] = NoPacket]
      /\ UNCHANGED <<asked, requestPacket, attached, toDaemon, daemonVars, runtimeVars, servedVars>>
  BY Zenon DEF Return
<1>2. seen' = seen /\ answer' = answer /\ responsePacket' = responsePacket
  BY <1>1 DEF servedVars
<1>3. CallOK(k) /\ Packets
  BY Zenon DEF ControlInv
<1>4. response # Untold
  <2>1. answer[k] \in ControlResponses \cup {NoControlResponse}
    BY <1>3 DEF Packets
  <2> QED
    BY <2>1, Distinct
<1>5. /\ call'[k] = "done" /\ told'[k] = response /\ toCaller'[k] = NoPacket
      /\ \A j \in Calls : j # k => call'[j] = call[j] /\ told'[j] = told[j] /\ toCaller'[j] = toCaller[j]
      /\ told' = [j \in Calls |-> told'[j]] /\ toCaller' = [j \in Calls |-> toCaller'[j]]
  <2>1. call \in [Calls -> {"new", "built", "connected", "sent", "done"}]
    BY DEF ControlTypeOK
  <2>2. told = [j \in Calls |-> told[j]] /\ toCaller = [j \in Calls |-> toCaller[j]]
    BY <1>3, Zenon DEF Packets
  <2>3. /\ call'[k] = "done" /\ \A j \in Calls : j # k => call'[j] = call[j]
    BY <1>1, <2>1
  <2>4. /\ told'[k] = response /\ \A j \in Calls : j # k => told'[j] = told[j]
        /\ told' = [j \in Calls |-> told'[j]]
    BY <1>1, <2>2
  <2>5. /\ toCaller'[k] = NoPacket /\ \A j \in Calls : j # k => toCaller'[j] = toCaller[j]
        /\ toCaller' = [j \in Calls |-> toCaller'[j]]
    BY <1>1, <2>2
  <2> QED
    BY <2>3, <2>4, <2>5
<1>6. Packets'
  BY <1>1, <1>2, <1>3, <1>5, Zenon DEF Packets
<1>7. OpenAt(k)' <=> OpenAt(k)
  <2>1. UNCHANGED <<backlog, current>>
    BY <1>1 DEF daemonVars
  <2> QED
    BY <2>1, SameSockets, Zenon DEF ControlInv
<1>8. CallOK(k)'
  BY <1>1, <1>2, <1>3, <1>4, <1>5, <1>7, Zenon DEF CallOK
<1>9. \A j \in Calls : j # k => Untouched(j)
  BY <1>1, <1>2, <1>5, Zenon DEF Untouched
<1>10. call'[k] \in {"new", "built"} => ~OpenAt(k)
  BY <1>5
<1> QED
  BY <1>1, <1>6, <1>8, <1>9, <1>10, OneCallSteady, Zenon

\* The request, or the same of another version, is sent.
LEMMA PostStep ==
  ASSUME ControlTypeOK, ControlInv, NEW k \in Calls, NEW packet \in {requestPacket[k], OtherVersion(requestPacket[k])},
         Post(k, packet)
  PROVE  ControlInv'
<1>1. /\ call[k] = "connected" /\ call' = [call EXCEPT ![k] = "sent"] /\ toDaemon' = [toDaemon EXCEPT ![k] = packet]
      /\ UNCHANGED <<asked, requestPacket, told, toCaller, daemonVars, runtimeVars, servedVars>>
  BY Zenon DEF Post
<1>2. seen' = seen /\ answer' = answer /\ responsePacket' = responsePacket
  BY <1>1 DEF servedVars
<1>3. CallOK(k) /\ Packets
  BY Zenon DEF ControlInv
<1>4. /\ call'[k] = "sent" /\ toDaemon'[k] = packet
      /\ \A j \in Calls : j # k => call'[j] = call[j] /\ toDaemon'[j] = toDaemon[j]
      /\ toDaemon' = [j \in Calls |-> toDaemon'[j]]
  <2>1. call \in [Calls -> {"new", "built", "connected", "sent", "done"}]
    BY DEF ControlTypeOK
  <2>2. toDaemon = [j \in Calls |-> toDaemon[j]]
    BY <1>3, Zenon DEF Packets
  <2>3. /\ call'[k] = "sent" /\ \A j \in Calls : j # k => call'[j] = call[j]
    BY <1>1, <2>1
  <2>4. /\ toDaemon'[k] = packet /\ \A j \in Calls : j # k => toDaemon'[j] = toDaemon[j]
        /\ toDaemon' = [j \in Calls |-> toDaemon'[j]]
    BY <1>1, <2>2
  <2> QED
    BY <2>3, <2>4
<1>5. Packets'
  BY <1>1, <1>2, <1>3, <1>4, Zenon DEF Packets
<1>6. OpenAt(k)' <=> OpenAt(k)
  <2>1. UNCHANGED <<backlog, current>>
    BY <1>1 DEF daemonVars
  <2> QED
    BY <2>1, SameSockets, Zenon DEF ControlInv
<1>7. CallOK(k)'
  <2>1. /\ asked'[k] = asked[k] /\ told'[k] = told[k] /\ requestPacket'[k] = requestPacket[k] /\ toCaller'[k] = toCaller[k]
        /\ OtherVersion(requestPacket'[k]) = OtherVersion(requestPacket[k])
    BY <1>1, Zenon
  <2> QED
    BY <1>1, <1>2, <1>3, <1>4, <1>6, <2>1, Zenon DEF CallOK
<1>8. \A j \in Calls : j # k => Untouched(j)
  BY <1>1, <1>2, <1>4, Zenon DEF Untouched
<1>9. call'[k] \in {"new", "built"} => ~OpenAt(k)
  BY <1>4
<1> QED
  BY <1>1, <1>5, <1>7, <1>8, <1>9, OneCallSteady, Zenon

\* A call connects.
LEMMA ConnectStep ==
  ASSUME ControlTypeOK, ControlInv, NEW k \in Calls, Connect(k)
  PROVE  ControlInv'
<1>1. /\ call[k] = "built" /\ requestPacket[k] # NoPacket /\ call' = [call EXCEPT ![k] = "connected"]
      /\ path \in Daemons /\ backlog' = [backlog EXCEPT ![path] = Append(@, k)]
      /\ current' = current /\ phase' = phase
      /\ UNCHANGED <<asked, requestPacket, told, runtimeVars, controlWire, servedVars>>
  BY DEF Connect, ControlTypeOK
<1>2. seen' = seen /\ answer' = answer /\ responsePacket' = responsePacket /\ toDaemon' = toDaemon /\ toCaller' = toCaller
  BY <1>1 DEF servedVars, controlWire
<1>3. CallOK(k) /\ Packets /\ ~OpenAt(k) /\ OpenOnce /\ k \in Connections
  BY <1>1, Zenon DEF ControlInv, OpenConnected, Connections
<1>4. /\ OpenOnce' /\ \A j \in Calls : OpenAt(j)' => OpenAt(j) \/ j = k
      /\ \A e \in Daemons : \A i \in Sockets(e)' :
           \/ i \in Sockets(e) /\ ConnectionIn(e, i)' = ConnectionIn(e, i)
           \/ e = path /\ i = Len(backlog[path]) + 1 /\ ConnectionIn(e, i)' = k
  BY <1>1, <1>3, AddedKeeps, Zenon
<1>5. call'[k] = "connected" /\ \A j \in Calls : j # k => call'[j] = call[j]
  BY <1>1 DEF ControlTypeOK
<1>6. Packets'
  BY <1>1, <1>2, <1>3, Zenon DEF Packets
<1>7. /\ seen[k] = NoControlRequest /\ toDaemon[k] = NoPacket /\ toCaller[k] = NoPacket /\ told[k] = Untold
  BY <1>1, <1>3, Zenon DEF CallOK
<1>8. CallOK(k)'
  BY <1>1, <1>2, <1>3, <1>5, <1>7, Zenon DEF CallOK
<1>9. \A j \in Calls : j # k => Untouched(j) /\ (OpenAt(j)' => OpenAt(j))
  BY <1>1, <1>2, <1>4, <1>5, Zenon DEF Untouched
<1>10. OpenConnected'
  <2>1. ASSUME NEW j \in Calls, OpenAt(j)'
        PROVE  call'[j] \notin {"new", "built"}
    <3>1. CASE j = k
      BY <1>5, <3>1, Zenon
    <3>2. CASE j # k
      BY <1>5, <1>9, <2>1, <3>2, Zenon DEF ControlInv, OpenConnected
    <3> QED
      BY <3>1, <3>2, Zenon
  <2> QED
    BY <2>1, Zenon DEF OpenConnected
<1>11. OpenUnseen'
  <2>1. ASSUME NEW e \in Daemons, NEW i \in Sockets(e)', ConnectionIn(e, i)' \in Calls, i # 0 \/ phase'[e] = "receive"
        PROVE  seen'[ConnectionIn(e, i)'] = NoControlRequest
    <3>1. CASE i \in Sockets(e) /\ ConnectionIn(e, i)' = ConnectionIn(e, i)
      BY <1>1, <1>2, <2>1, <3>1, Zenon DEF ControlInv, OpenUnseen
    <3>2. CASE ConnectionIn(e, i)' = k
      BY <1>2, <1>7, <3>2, Zenon
    <3> QED
      BY <1>4, <3>1, <3>2, Zenon
  <2> QED
    BY <2>1, Zenon DEF OpenUnseen
<1>12. NodesTyped'
  BY <1>1, Zenon DEF ControlInv, NodesTyped, runtimeVars
<1> QED
  BY <1>4, <1>6, <1>8, <1>9, <1>10, <1>11, <1>12, OneCall, Zenon

\* The response, or in its place a refusal, is encoded.
LEMMA RespondIs ==
  ASSUME Packets, NEW k \in Calls, NEW response \in ControlResponses, Respond(k, response)
  PROVE  /\ answer'[k] \in {response, Refusal} /\ answer'[k] \in ControlResponses /\ answer'[k] # NoControlResponse
         /\ \A j \in Calls : j # k => answer'[j] = answer[j] /\ responsePacket'[j] = responsePacket[j]
         /\ answer' \in [Calls -> ControlResponses \cup {NoControlResponse}]
         /\ responsePacket' = [j \in Calls |-> IF answer'[j] = NoControlResponse THEN NoPacket
                                               ELSE EncodeControlResponse(answer'[j])]
<1> DEFINE packet == EncodeControlResponse(response)
           fallback == EncodeControlResponse(Refusal)
           e(j) == IF answer[j] = NoControlResponse THEN NoPacket ELSE EncodeControlResponse(answer[j])
           given == IF packet = NoPacket THEN Refusal ELSE response
           written == IF packet = NoPacket THEN fallback ELSE packet
<1>1. answer' = [answer EXCEPT ![k] = given] /\ responsePacket' = [responsePacket EXCEPT ![k] = written]
  BY Zenon DEF Respond
<1>2. answer \in [Calls -> ControlResponses \cup {NoControlResponse}] /\ responsePacket = [j \in Calls |-> e(j)]
  BY Zenon DEF Packets
<1>3. /\ given \in {response, Refusal} /\ given \in ControlResponses /\ given # NoControlResponse
      /\ written = EncodeControlResponse(given)
  BY RefusalIs, Distinct, Zenon
<1> HIDE DEF packet, fallback, given, written
<1>4. /\ answer'[k] = given /\ \A j \in Calls : j # k => answer'[j] = answer[j]
      /\ answer' \in [Calls -> ControlResponses \cup {NoControlResponse}]
  BY <1>1, <1>2, <1>3
<1>5. responsePacket' = [j \in Calls |-> IF j = k THEN written ELSE e(j)]
  <2> HIDE DEF e
  <2> QED
    BY <1>1, <1>2
<1>6. \A j \in Calls : j # k => responsePacket'[j] = responsePacket[j]
  <2> HIDE DEF e
  <2> QED
    BY <1>2, <1>5, Zenon
<1>7. ASSUME NEW j \in Calls
      PROVE  (IF j = k THEN written ELSE e(j))
               = IF answer'[j] = NoControlResponse THEN NoPacket ELSE EncodeControlResponse(answer'[j])
  BY <1>3, <1>4, Zenon
<1>8. responsePacket' = [j \in Calls |-> IF answer'[j] = NoControlResponse THEN NoPacket
                                         ELSE EncodeControlResponse(answer'[j])]
  BY <1>5, <1>7, Zenon
<1> QED
  BY <1>3, <1>4, <1>6, <1>8, Zenon

\* The call whose request a daemon takes up.
LEMMA TakenUp ==
  ASSUME ControlTypeOK, ControlInv, NEW d \in Daemons, phase[d] = "receive", current[d] \in Calls
  PROVE  /\ OpenAt(current[d]) /\ seen[current[d]] = NoControlRequest
         /\ told[current[d]] \in {Untold, Failure} /\ toCaller[current[d]] = NoPacket
<1> DEFINE k == current[d]
<1>1. 0 \in Sockets(d) /\ ConnectionIn(d, 0) = k
  BY SocketsType, Zenon DEF ConnectionIn
<1>2. OpenAt(k)
  BY <1>1, Zenon DEF OpenAt
<1>3. seen[k] = NoControlRequest
  BY <1>1, Zenon DEF ControlInv, OpenUnseen
<1>4. CallOK(k)
  BY Zenon DEF ControlInv
<1>5. told[k] \in {Untold, Failure} /\ toCaller[k] = NoPacket
  BY <1>2, <1>4, Zenon DEF CallOK
<1> QED
  BY <1>2, <1>3, <1>5

\* The request that a daemon decodes is the one its client has built.
LEMMA DecodedIs ==
  ASSUME ControlInv, NEW k \in Calls, toDaemon[k] # NoPacket
  PROVE  /\ DecodeControlRequest(toDaemon[k]) \in {asked[k], NoControlRequest}
         /\ asked[k] \in ControlRequests /\ call[k] \in {"sent", "done"}
<1>1. CallOK(k) /\ Packets
  BY Zenon DEF ControlInv
<1>2. /\ toDaemon[k] \in {requestPacket[k], OtherVersion(requestPacket[k])}
      /\ requestPacket[k] # NoPacket /\ call[k] \in {"sent", "done"}
  BY <1>1, Zenon DEF CallOK
<1>3. asked[k] # NoControlRequest
  BY <1>1, <1>2, Zenon DEF CallOK
<1>4. asked[k] \in ControlRequests
  BY <1>1, <1>3, Zenon DEF Packets
<1>5. requestPacket[k] = EncodeControlRequest(asked[k])
  BY <1>1, <1>3, Zenon DEF Packets
<1> QED
  BY <1>2, <1>4, <1>5, OtherVersionRefused, Zenon

\* A daemon that has taken up a request goes on to the reply.
LEMMA AnswerSockets ==
  ASSUME ControlTypeOK, ControlInv, NEW d \in Daemons, UNCHANGED <<backlog, current, call>>,
         phase[d] = "receive", phase' = [phase EXCEPT ![d] = "reply"],
         \A j \in Calls : j # current[d] => seen'[j] = seen[j]
  PROVE  OpenOnce' /\ OpenConnected' /\ OpenUnseen' /\ \A j \in Calls : OpenAt(j)' <=> OpenAt(j)
<1>1. /\ OpenOnce' /\ \A j \in Calls : OpenAt(j)' <=> OpenAt(j)
      /\ \A e \in Daemons : Sockets(e)' = Sockets(e) /\ \A i \in Sockets(e) : ConnectionIn(e, i)' = ConnectionIn(e, i)
  BY SameSockets, Zenon DEF ControlInv
<1>2. OpenConnected'
  BY <1>1, Zenon DEF ControlInv, OpenConnected
<1>3. phase'[d] = "reply" /\ \A e \in Daemons : phase'[e] = "receive" => phase[e] = "receive"
  BY DEF ControlTypeOK
<1>4. ASSUME NEW e \in Daemons, NEW i \in Sockets(e)', ConnectionIn(e, i)' \in Calls, i # 0 \/ phase'[e] = "receive"
      PROVE  seen'[ConnectionIn(e, i)'] = NoControlRequest
  <2>1. i \in Sockets(e) /\ ConnectionIn(e, i)' = ConnectionIn(e, i)
    BY <1>1, Zenon
  <2>2. 0 \in Sockets(d) /\ ConnectionIn(d, 0) = current[d]
    BY SocketsType, Zenon DEF ConnectionIn
  <2>3. ConnectionIn(e, i) # current[d]
    <3>1. SUFFICES ASSUME ConnectionIn(e, i) = current[d]
                   PROVE  FALSE
      OBVIOUS
    <3>2. e = d /\ i = 0
      <4>1. OpenOnce
        BY Zenon DEF ControlInv
      <4> QED
        BY <1>4, <2>1, <2>2, <3>1, <4>1, Zenon DEF OpenOnce
    <3>3. "reply" # "receive"
      OBVIOUS
    <3> QED
      BY <1>3, <1>4, <3>2, <3>3, Zenon
  <2>4. seen[ConnectionIn(e, i)] = NoControlRequest
    BY <1>3, <1>4, <2>1, Zenon DEF ControlInv, OpenUnseen
  <2> QED
    BY <1>4, <2>1, <2>3, <2>4, Zenon
<1>5. OpenUnseen'
  BY <1>4, Zenon DEF OpenUnseen
<1> QED
  BY <1>1, <1>2, <1>5, Zenon

\* dispatch: what the call has asked is executed, once.
LEMMA HandleStep ==
  ASSUME ControlTypeOK, ControlInv, NEW d \in Daemons, Handle(d)
  PROVE  /\ ControlInv' /\ current[d] \in Calls
         /\ seen[current[d]] = NoControlRequest /\ told[current[d]] \in {Untold, Failure}
         /\ asked[current[d]] # NoControlRequest /\ seen'[current[d]] = asked[current[d]]
         /\ \A j \in Calls : j # current[d] => seen'[j] = seen[j] /\ answer'[j] = answer[j]
         /\ UNCHANGED callVars
<1> DEFINE k == current[d]
           r == DecodeControlRequest(toDaemon[k])
<1>1. /\ phase[d] = "receive" /\ k \in Calls /\ toDaemon[k] # NoPacket /\ r # NoControlRequest
      /\ phase' = [phase EXCEPT ![d] = "reply"]
      /\ seen' = [seen EXCEPT ![k] = r] /\ Respond(k, Dispatched(d, r))
      /\ nodes' = [nodes EXCEPT ![d] = IF Succeeds(d, r) THEN NodesAfter(d, r) ELSE @]
      /\ toDaemon' = [toDaemon EXCEPT ![k] = NoPacket]
      /\ UNCHANGED <<path, backlog, current, callVars, toCaller>>
  BY Zenon DEF Handle, RecvReturns, Arrived, Goto
<1>2. r = asked[k] /\ asked[k] \in ControlRequests /\ call[k] \in {"sent", "done"}
  BY <1>1, DecodedIs, Zenon
<1>3. /\ OpenAt(k) /\ seen[k] = NoControlRequest /\ told[k] \in {Untold, Failure} /\ toCaller[k] = NoPacket
  BY <1>1, TakenUp, Zenon
<1> HIDE DEF r
<1>4. r \in ControlRequests /\ r # NoControlRequest
  BY <1>1, <1>2, Zenon
<1>5. Packets /\ NodesTyped /\ CallOK(k)
  BY <1>1, Zenon DEF ControlInv
<1>6. Dispatched(d, r) \in ControlResponses
  <2>1. results[d] \subseteq AgentIds
    BY DEF ControlTypeOK
  <2> QED
    BY <1>4, <1>5, <2>1, DispatchedTyped, Zenon
<1> DEFINE response == Dispatched(d, r)
<1>7. /\ answer'[k] \in ControlResponses /\ answer'[k] # NoControlResponse
      /\ \A j \in Calls : j # k => answer'[j] = answer[j] /\ responsePacket'[j] = responsePacket[j]
      /\ answer' \in [Calls -> ControlResponses \cup {NoControlResponse}]
      /\ responsePacket' = [j \in Calls |-> IF answer'[j] = NoControlResponse THEN NoPacket
                                            ELSE EncodeControlResponse(answer'[j])]
  <2>1. response \in ControlResponses /\ Respond(k, response) /\ k \in Calls
    BY <1>1, <1>6, Zenon
  <2> HIDE DEF response, k
  <2> QED
    BY <1>5, <2>1, RespondIs, Zenon
<1> HIDE DEF response
<1>8. UNCHANGED <<call, asked, requestPacket, told, backlog, current, toCaller>>
  BY <1>1 DEF callVars
<1>9. NodesTyped'
  <2> DEFINE table == IF Succeeds(d, r) THEN NodesAfter(d, r) ELSE nodes[d]
  <2>1. table \in [AgentIds -> Snapshots \cup {NoNode}]
    <3>1. CASE Succeeds(d, r)
      BY <1>4, <1>5, <3>1, HandledTyped, Zenon
    <3>2. CASE ~Succeeds(d, r)
      <4>1. nodes[d] \in [AgentIds -> Snapshots \cup {NoNode}]
        BY <1>5 DEF NodesTyped
      <4> QED
        BY <3>2, <4>1, Zenon
    <3> QED
      BY <3>1, <3>2, Zenon
  <2>2. nodes' = [nodes EXCEPT ![d] = table]
    BY <1>1, Zenon
  <2> HIDE DEF table
  <2> QED
    BY <1>5, <2>1, <2>2, NodeChanged, Zenon
<1>10. /\ seen'[k] = r /\ \A j \in Calls : j # k => seen'[j] = seen[j]
       /\ seen' \in [Calls -> ControlRequests \cup {NoControlRequest}]
       /\ toDaemon'[k] = NoPacket /\ \A j \in Calls : j # k => toDaemon'[j] = toDaemon[j]
       /\ toDaemon' = [j \in Calls |-> toDaemon'[j]]
  <2>1. seen \in [Calls -> ControlRequests \cup {NoControlRequest}] /\ toDaemon = [j \in Calls |-> toDaemon[j]]
    BY <1>5, Zenon DEF Packets
  <2>2. k \in Calls /\ seen' = [seen EXCEPT ![k] = r] /\ toDaemon' = [toDaemon EXCEPT ![k] = NoPacket]
    BY <1>1
  <2> HIDE DEF k
  <2>3. /\ seen'[k] = r /\ \A j \in Calls : j # k => seen'[j] = seen[j]
        /\ seen' \in [Calls -> ControlRequests \cup {NoControlRequest}]
    BY <1>4, <2>1, <2>2
  <2>4. /\ toDaemon'[k] = NoPacket /\ \A j \in Calls : j # k => toDaemon'[j] = toDaemon[j]
        /\ toDaemon' = [j \in Calls |-> toDaemon'[j]]
    BY <2>1, <2>2
  <2> QED
    BY <2>3, <2>4
<1>11. Packets'
  BY <1>5, <1>7, <1>8, <1>10, Zenon DEF Packets
<1>12. OpenOnce' /\ OpenConnected' /\ OpenUnseen' /\ \A j \in Calls : OpenAt(j)' <=> OpenAt(j)
  BY <1>1, <1>8, <1>10, AnswerSockets, Zenon
<1>13. CallOK(k)'
  BY <1>1, <1>2, <1>3, <1>4, <1>5, <1>7, <1>8, <1>10, Zenon DEF CallOK
<1>14. \A j \in Calls : j # k => Untouched(j)
  BY <1>7, <1>8, <1>10, Zenon DEF Untouched
<1>15. ControlInv'
  <2>1. \A j \in Calls : j # k => Untouched(j) /\ (OpenAt(j)' => OpenAt(j))
    BY <1>12, <1>14, Zenon
  <2> QED
    BY <1>1, <1>9, <1>11, <1>12, <1>13, <2>1, OneCall, Zenon
<1>16. asked[k] # NoControlRequest /\ seen'[k] = asked[k]
  BY <1>2, <1>4, <1>10, Zenon
<1> QED
  BY <1>1, <1>3, <1>7, <1>10, <1>15, <1>16, Zenon

\* A request that is refused: its caller is told so, and nothing is dispatched.
LEMMA RefuseStep ==
  ASSUME ControlTypeOK, ControlInv, NEW d \in Daemons, RefuseRequest(d)
  PROVE  /\ ControlInv' /\ UNCHANGED <<callVars, seen>>
         /\ \A k \in Calls : seen[k] # NoControlRequest => answer'[k] = answer[k]
<1>0. PICK k : k = current[d]
  OBVIOUS
<1>1. /\ phase[d] = "receive" /\ phase' = [phase EXCEPT ![d] = "reply"]
      /\ toDaemon' = [j \in Calls |-> IF j = k THEN NoPacket ELSE toDaemon[j]]
      /\ (k \in Calls => Respond(k, Refusal))
      /\ (k \notin Calls => UNCHANGED <<answer, responsePacket>>)
      /\ UNCHANGED <<path, running, backlog, current, overlap, runtimeVars, callVars, toCaller, seen>>
  BY <1>0, Zenon DEF RefuseRequest, RecvReturns, Goto
<1>2. UNCHANGED <<call, asked, requestPacket, told, nodes>>
  BY <1>1 DEF callVars, runtimeVars
<1>3. OpenOnce' /\ OpenConnected' /\ OpenUnseen' /\ \A j \in Calls : OpenAt(j)' <=> OpenAt(j)
  <2>1. \A j \in Calls : j # current[d] => seen'[j] = seen[j]
    BY <1>1, Zenon
  <2> QED
    BY <1>1, <1>2, <2>1, AnswerSockets, Zenon
<1>4. NodesTyped'
  BY <1>2, Zenon DEF ControlInv, NodesTyped
<1>5. Packets
  BY Zenon DEF ControlInv
<1>6. /\ toDaemon' = [j \in Calls |-> toDaemon'[j]]
      /\ \A j \in Calls : toDaemon'[j] \in {toDaemon[j], NoPacket}
      /\ k \in Calls => toDaemon'[k] = NoPacket
  BY <1>1, Zenon
<1>7. CASE k \notin Calls
  <2>1. answer' = answer /\ responsePacket' = responsePacket
    BY <1>1, <1>7, Zenon
  <2>2. Packets'
    BY <1>1, <1>2, <1>5, <1>6, <2>1, Zenon DEF Packets
  <2>3. \A j \in Calls : Untouched(j)
    BY <1>1, <1>2, <1>6, <2>1, Zenon DEF Untouched
  <2>4. \A j \in Calls : CallOK(j)'
    BY <1>3, <2>3, CallsAreOK, Zenon
  <2>5. ControlInv'
    BY <1>3, <1>4, <2>2, <2>4, Zenon DEF ControlInv
  <2> QED
    BY <1>1, <2>1, <2>5, Zenon
<1>8. CASE k \in Calls
  <2>1. seen[k] = NoControlRequest /\ told[k] \in {Untold, Failure} /\ toCaller[k] = NoPacket
    BY <1>0, <1>1, <1>8, TakenUp, Zenon
  <2>2. /\ answer'[k] = Refusal
        /\ \A j \in Calls : j # k => answer'[j] = answer[j] /\ responsePacket'[j] = responsePacket[j]
        /\ answer' \in [Calls -> ControlResponses \cup {NoControlResponse}]
        /\ responsePacket' = [j \in Calls |-> IF answer'[j] = NoControlResponse THEN NoPacket
                                              ELSE EncodeControlResponse(answer'[j])]
    <3>1. Respond(k, Refusal) /\ Refusal \in ControlResponses
      BY <1>1, <1>8, RefusalIs, Zenon
    <3> QED
      BY <1>5, <1>8, <3>1, RespondIs, Zenon
  <2>3. Packets'
    BY <1>1, <1>2, <1>5, <1>6, <2>2, Zenon DEF Packets
  <2>4. CallOK(k)
    BY <1>8, Zenon DEF ControlInv
  <2>5. CallOK(k)'
    BY <1>1, <1>2, <1>3, <1>6, <1>8, <2>1, <2>2, <2>4, Zenon DEF CallOK
  <2>6. \A j \in Calls : j # k => Untouched(j) /\ (OpenAt(j)' => OpenAt(j))
    BY <1>1, <1>2, <1>3, <1>6, <2>2, Zenon DEF Untouched
  <2>7. ControlInv'
    BY <1>3, <1>4, <1>8, <2>3, <2>5, <2>6, OneCall, Zenon
  <2> QED
    BY <1>1, <2>1, <2>2, <2>7, Zenon
<1> QED
  BY <1>7, <1>8

\* The answer is sent if its caller still waits, and the connection is closed.
LEMMA ReplyStep ==
  ASSUME ControlTypeOK, ControlInv, NEW d \in Daemons, Reply(d)
  PROVE  ControlInv' /\ UNCHANGED <<callVars, servedVars>>
<1>0. PICK k : k = current[d]
  OBVIOUS
<1> DEFINE none == [e \in Daemons |-> 0]
<1>1. /\ toCaller' = [j \in Calls |-> IF j = k /\ CallerOpen(k) THEN responsePacket[k] ELSE toCaller[j]]
      /\ toDaemon' = [j \in Calls |-> IF j = k THEN NoPacket ELSE toDaemon[j]]
      /\ current' = [current EXCEPT ![d] = Nobody] /\ phase' = [phase EXCEPT ![d] = "poll"]
      /\ UNCHANGED <<path, running, backlog, overlap, runtimeVars, callVars, servedVars>>
  BY <1>0, Zenon DEF Reply, Goto
<1>2. UNCHANGED <<call, asked, requestPacket, told, nodes, seen, answer, responsePacket>>
  BY <1>1 DEF callVars, runtimeVars, servedVars
<1>3. Packets /\ OpenOnce /\ Nobody \notin Calls
  BY DaemonAssumption DEF ControlInv, Connections
<1>4. /\ current'[d] = Nobody /\ phase'[d] = "poll"
      /\ \A e \in Daemons : e # d => current'[e] = current[e] /\ phase'[e] = phase[e]
  BY <1>1 DEF ControlTypeOK
<1>5. ASSUME NEW e \in Daemons, NEW i \in Sockets(e)', ConnectionIn(e, i)' \in Calls
      PROVE  /\ i \in Sockets(e) /\ ConnectionIn(e, i)' = ConnectionIn(e, i) /\ i \in Int
             /\ e # d \/ i # 0
  <2>0. i \in Int
    BY DEF Sockets
  <2>1. Sockets(e)' = Sockets(e)
    BY <1>1, Zenon DEF Sockets
  <2>2. CASE e # d
    <3>1. backlog' = backlog /\ current'[e] = current[e]
      BY <1>1, <1>4, <2>2, Zenon
    <3>2. ConnectionIn(e, i)' = ConnectionIn(e, i)
      BY <3>1, Zenon DEF ConnectionIn
    <3> QED
      BY <2>0, <2>1, <2>2, <3>2, Zenon
  <2>3. CASE e = d
    <3>1. i # 0
      BY <1>3, <1>4, <1>5, <2>3, Zenon DEF ConnectionIn
    <3>2. ConnectionIn(e, i)' = ConnectionIn(e, i)
      BY <1>1, <3>1, Zenon DEF ConnectionIn
    <3> QED
      BY <2>0, <2>1, <3>1, <3>2, Zenon
  <2> QED
    BY <2>2, <2>3, Zenon
<1>6. none \in [Daemons -> Nat] /\ Moved(none)
  <2>1. \A e \in Daemons : none[e] = 0
    OBVIOUS
  <2>2. none \in [Daemons -> Nat]
    OBVIOUS
  <2> HIDE DEF none
  <2>3. ASSUME NEW e \in Daemons, NEW i \in Sockets(e)', ConnectionIn(e, i)' \in Calls
        PROVE  i + none[e] \in Sockets(e) /\ ConnectionIn(e, i)' = ConnectionIn(e, i + none[e])
    <3>1. i \in Sockets(e) /\ ConnectionIn(e, i)' = ConnectionIn(e, i) /\ i \in Int
      BY <1>5, <2>3, Zenon
    <3>2. i + none[e] = i
      BY <2>1, <3>1
    <3> QED
      BY <3>1, <3>2, Zenon
  <2> QED
    BY <2>2, <2>3, Zenon DEF Moved
<1>7. OpenOnce' /\ \A j \in Calls : OpenAt(j)' => OpenAt(j)
  BY <1>3, <1>6, MovedKeeps, Zenon
<1>8. OpenConnected'
  BY <1>2, <1>7, Zenon DEF ControlInv, OpenConnected
<1>9. OpenUnseen'
  <2>1. ASSUME NEW e \in Daemons, NEW i \in Sockets(e)', ConnectionIn(e, i)' \in Calls, i # 0 \/ phase'[e] = "receive"
        PROVE  seen'[ConnectionIn(e, i)'] = NoControlRequest
    <3>1. i \in Sockets(e) /\ ConnectionIn(e, i)' = ConnectionIn(e, i) /\ (i # 0 \/ phase[e] = "receive")
      BY <1>4, <1>5, <2>1, Zenon
    <3> QED
      BY <1>2, <2>1, <3>1, Zenon DEF ControlInv, OpenUnseen
  <2> QED
    BY <2>1, Zenon DEF OpenUnseen
<1>10. NodesTyped'
  BY <1>2, Zenon DEF ControlInv, NodesTyped
<1>11. /\ toDaemon' = [j \in Calls |-> toDaemon'[j]] /\ toCaller' = [j \in Calls |-> toCaller'[j]]
       /\ \A j \in Calls : toDaemon'[j] \in {toDaemon[j], NoPacket}
       /\ \A j \in Calls : toCaller'[j] = toCaller[j] \/ (j = k /\ CallerOpen(k) /\ toCaller'[j] = responsePacket[k])
  BY <1>1, Zenon
<1>12. Packets'
  BY <1>2, <1>3, <1>11, Zenon DEF Packets
<1>13. ASSUME k \in Calls
       PROVE  ~OpenAt(k)'
  <2>1. SUFFICES ASSUME OpenAt(k)'
                 PROVE  FALSE
    OBVIOUS
  <2>2. PICK e \in Daemons : \E i \in Sockets(e)' : ConnectionIn(e, i)' = k
    BY <2>1, Zenon DEF OpenAt
  <2>3. PICK i \in Sockets(e)' : ConnectionIn(e, i)' = k
    BY <2>2, Zenon
  <2>4. i \in Sockets(e) /\ ConnectionIn(e, i) = k /\ (e # d \/ i # 0)
    BY <1>5, <1>13, <2>3, Zenon
  <2>5. 0 \in Sockets(d) /\ ConnectionIn(d, 0) = k
    BY <1>0, SocketsType, Zenon DEF ConnectionIn
  <2> QED
    BY <1>3, <1>13, <2>4, <2>5, Zenon DEF OpenOnce
<1>14. ASSUME NEW j \in Calls
       PROVE  CallOK(j)'
  <2>1. CallOK(j) /\ (OpenAt(j)' => OpenAt(j))
    BY <1>7, Zenon DEF ControlInv
  <2>2. CASE toCaller'[j] = toCaller[j]
    <3>1. Untouched(j)
      BY <1>2, <1>11, <2>2, Zenon DEF Untouched
    <3> QED
      BY <2>1, <3>1, UntouchedKeeps, Zenon
  <2>3. CASE j = k /\ CallerOpen(k) /\ toCaller'[j] = responsePacket[k]
    <3>1. call[j] \in {"connected", "sent"}
      BY <2>3, Zenon DEF CallerOpen
    <3>2. ~OpenAt(j)'
      BY <1>13, <2>3, Zenon
    <3> QED
      BY <1>2, <1>11, <2>1, <2>3, <3>1, <3>2, Zenon DEF CallOK
  <2> QED
    BY <1>11, <2>2, <2>3, Zenon
<1> QED
  BY <1>1, <1>7, <1>8, <1>9, <1>10, <1>12, <1>14, Zenon DEF ControlInv

\* Before anybody starts or asks, the invariant holds.
LEMMA ControlInvInit ==
  ControlInit => ControlInv
<1> SUFFICES ASSUME ControlInit
             PROVE  ControlInv
  OBVIOUS
<1>1. /\ backlog = [d \in Daemons |-> <<>>] /\ current = [d \in Daemons |-> Nobody]
      /\ nodes = [d \in Daemons |-> [id \in AgentIds |-> NoNode]]
      /\ call = [k \in Calls |-> "new"] /\ asked = [k \in Calls |-> NoControlRequest]
      /\ requestPacket = [k \in Calls |-> NoPacket] /\ responsePacket = [k \in Calls |-> NoPacket]
      /\ toDaemon = [k \in Calls |-> NoPacket] /\ toCaller = [k \in Calls |-> NoPacket]
      /\ seen = [k \in Calls |-> NoControlRequest] /\ answer = [k \in Calls |-> NoControlResponse]
      /\ told = [k \in Calls |-> Untold]
  BY DEF ControlInit
<1>2. Nobody \notin Calls
  BY DaemonAssumption DEF Connections
<1>3. ASSUME NEW d \in Daemons, NEW i \in Sockets(d)
      PROVE  i = 0 /\ ConnectionIn(d, i) = Nobody
  <2>1. backlog[d] = <<>> /\ current[d] = Nobody
    BY <1>1
  <2>2. i = 0
    BY <2>1 DEF Sockets
  <2> QED
    BY <2>1, <2>2 DEF ConnectionIn
<1>4. OpenOnce /\ OpenUnseen /\ \A k \in Calls : ~OpenAt(k)
  BY <1>2, <1>3, Zenon DEF OpenOnce, OpenUnseen, OpenAt
<1>5. OpenConnected
  BY <1>4, Zenon DEF OpenConnected
<1>6. NodesTyped
  BY <1>1 DEF NodesTyped
<1>7. \A k \in Calls : /\ call[k] = "new" /\ asked[k] = NoControlRequest /\ requestPacket[k] = NoPacket
                       /\ toDaemon[k] = NoPacket /\ toCaller[k] = NoPacket /\ seen[k] = NoControlRequest
                       /\ answer[k] = NoControlResponse /\ told[k] = Untold
  BY <1>1, Zenon
<1>8. Packets
  <2>1. /\ asked \in [Calls -> ControlRequests \cup {NoControlRequest}]
        /\ seen \in [Calls -> ControlRequests \cup {NoControlRequest}]
        /\ answer \in [Calls -> ControlResponses \cup {NoControlResponse}]
    BY <1>1
  <2>2. /\ toDaemon = [k \in Calls |-> toDaemon[k]] /\ toCaller = [k \in Calls |-> toCaller[k]]
        /\ told = [k \in Calls |-> told[k]]
    BY <1>1
  <2>3. requestPacket = [k \in Calls |-> IF asked[k] = NoControlRequest THEN NoPacket ELSE EncodeControlRequest(asked[k])]
    BY <1>1, <1>7, Zenon
  <2>4. responsePacket = [k \in Calls |-> IF answer[k] = NoControlResponse THEN NoPacket ELSE EncodeControlResponse(answer[k])]
    BY <1>1, <1>7, Zenon
  <2> QED
    BY <2>1, <2>2, <2>3, <2>4, Zenon DEF Packets
<1>9. \A k \in Calls : CallOK(k)
  BY <1>7, Zenon DEF CallOK
<1> QED
  BY <1>4, <1>5, <1>6, <1>8, <1>9, Zenon DEF ControlInv

-----------------------------------------------------------------------------
(* The refinement of RemoteCall *)

Served(k) == IF seen[k] = NoControlRequest THEN NoControlRequest ELSE [request |-> seen[k], reply |-> answer[k]]
Heard(k) == IF told[k] = Refusal /\ seen[k] = NoControlRequest THEN Failure ELSE told[k]

\* Nothing a caller can tell has happened.
LEMMA Unheard ==
  ASSUME UNCHANGED <<asked, told, seen>>, \A k \in Calls : seen[k] # NoControlRequest => answer'[k] = answer[k]
  PROVE  UNCHANGED Control!callVars
<1>1. \A k \in Calls : Served(k)' = Served(k) /\ Heard(k)' = Heard(k)
  BY Zenon DEF Served, Heard
<1>2. [k \in Calls |-> Served(k)'] = [k \in Calls |-> Served(k)] /\ [k \in Calls |-> Heard(k)'] = [k \in Calls |-> Heard(k)]
  BY <1>1, Zenon
<1> QED
  BY <1>2, Zenon DEF Control!callVars, Served, Heard

\* A step that touches neither requests nor answers is invisible to a caller.
LEMMA SameServed ==
  ASSUME UNCHANGED servedVars, UNCHANGED callVars
  PROVE  UNCHANGED Control!callVars
<1>1. UNCHANGED <<asked, told, seen, answer>>
  BY DEF servedVars, callVars
<1> QED
  BY <1>1, Unheard, Zenon

\* exchange begins: the call asks.
LEMMA ControlAsks ==
  ASSUME ControlInv, NEW k \in Calls, NEW request, Begin(k, request), asked[k] = NoControlRequest
  PROVE  Control!Ask(k)
<1>1. asked' = [asked EXCEPT ![k] = request] /\ UNCHANGED <<told, seen, answer>>
  BY DEF Begin, servedVars
<1>2. asked \in [Calls -> ControlRequests \cup {NoControlRequest}]
  BY DEF ControlInv, Packets
<1>3. Control!OnlyAt(asked, asked', k)
  <2>1. asked'[k] = request
    BY <1>1, <1>2
  <2> QED
    BY <1>1, <2>1, Zenon DEF Control!OnlyAt
<1>4. \A j \in Calls : Served(j)' = Served(j) /\ Heard(j)' = Heard(j)
  BY <1>1, Zenon DEF Served, Heard
<1>5. [j \in Calls |-> Served(j)'] = [j \in Calls |-> Served(j)] /\ [j \in Calls |-> Heard(j)'] = [j \in Calls |-> Heard(j)]
  BY <1>4, Zenon
<1> QED
  BY <1>3, <1>5, Zenon DEF Control!Ask, Served, Heard

\* handle_client dispatches what the call asks, for the first time.
LEMMA ControlExecutes ==
  ASSUME ControlTypeOK, ControlInv, NEW d \in Daemons, Handle(d)
  PROVE  ControlInv' /\ \E k \in Calls : Control!Execute(k)
<1>0. PICK k : k = current[d]
  OBVIOUS
<1>1. /\ ControlInv' /\ k \in Calls
      /\ seen[k] = NoControlRequest /\ told[k] \in {Untold, Failure}
      /\ asked[k] # NoControlRequest /\ seen'[k] = asked[k]
      /\ \A j \in Calls : j # k => seen'[j] = seen[j] /\ answer'[j] = answer[j]
      /\ UNCHANGED callVars
  BY <1>0, HandleStep, Zenon
<1>2. UNCHANGED <<asked, told>>
  BY <1>1 DEF callVars
<1>3. Served(k) = NoControlRequest /\ Served(k)' = [request |-> asked[k], reply |-> answer'[k]]
  BY <1>1, <1>2, Zenon DEF Served
<1>4. \A j \in Calls : j # k => Served(j)' = Served(j)
  BY <1>1, Zenon DEF Served
<1>5. \A j \in Calls : Heard(j)' = Heard(j)
  <2>1. Refusal \notin {Untold, Failure}
    BY RefusalIs, Distinct, Zenon
  <2>2. Heard(k)' = Heard(k)
    BY <1>1, <1>2, <2>1, Zenon DEF Heard
  <2>3. \A j \in Calls : j # k => Heard(j)' = Heard(j)
    BY <1>1, <1>2, Zenon DEF Heard
  <2> QED
    BY <2>2, <2>3, Zenon
<1> DEFINE before == [j \in Calls |-> Served(j)]
           after == [j \in Calls |-> Served(j)']
<1>6. /\ before[k] = NoControlRequest /\ after = [before EXCEPT ![k] = after[k]]
      /\ after[k] = [request |-> asked[k], reply |-> answer'[k]]
  <2>1. before[k] = NoControlRequest /\ after[k] = [request |-> asked[k], reply |-> answer'[k]]
    BY <1>1, <1>3, Zenon
  <2>2. \A j \in Calls : j # k => after[j] = before[j]
    BY <1>4, Zenon
  <2>3. DOMAIN before = Calls /\ DOMAIN after = Calls
    BY Zenon
  <2>4. before = [j \in Calls |-> before[j]] /\ after = [j \in Calls |-> after[j]]
    BY Zenon
  <2> HIDE DEF before, after
  <2>5. after = [before EXCEPT ![k] = after[k]]
    BY <1>1, <2>2, <2>4
  <2> QED
    BY <2>1, <2>5, Zenon
<1>7. after[k].request = asked[k] /\ after[k] # NoControlRequest
  <2> DEFINE a == asked[k]
             b == answer'[k]
  <2>1. after[k] = [request |-> a, reply |-> b]
    BY <1>6
  <2> HIDE DEF after, a, b
  <2>2. after[k].request = a
    BY <2>1
  <2>3. "request" \in DOMAIN after[k]
    BY <2>1
  <2>4. "request" \notin DOMAIN NoControlRequest
    BY DEF NoControlRequest
  <2> QED
    BY <2>2, <2>3, <2>4, Zenon DEF a
<1>8. [j \in Calls |-> Heard(j)'] = [j \in Calls |-> Heard(j)]
  BY <1>5, Zenon
<1>9. Control!Execute(k)
  BY <1>1, <1>2, <1>6, <1>7, <1>8, Zenon DEF Control!Execute, Control!OnlyAt, Served, Heard, before, after
<1> QED
  BY <1>1, <1>9

\* exchange returns, and its caller is told what the call may be told.
LEMMA ControlReturns ==
  ASSUME ControlTypeOK, ControlInv, NEW k \in Calls, call[k] \notin {"new", "done"}, NEW response, Return(k, response),
         \/ response = Failure
         \/ response = answer[k] /\ answer[k] # NoControlResponse /\ ~OpenAt(k)
  PROVE  ControlInv' /\ (Control!Refuse(k) \/ Control!Answer(k))
<1>1. ControlInv'
  BY ReturnStep, Zenon
<1>2. told' = [told EXCEPT ![k] = response] /\ UNCHANGED <<asked, seen, answer>>
  BY DEF Return, servedVars
<1>3. CallOK(k) /\ Packets
  BY Zenon DEF ControlInv
<1>4. told[k] = Untold /\ asked[k] # NoControlRequest
  BY <1>3, Zenon DEF CallOK
<1>5. told = [j \in Calls |-> told[j]]
  BY <1>3, Zenon DEF Packets
<1>6. told'[k] = response /\ \A j \in Calls : j # k => told'[j] = told[j]
  BY <1>2, <1>5
<1>7. /\ Untold # Refusal /\ Failure # Refusal
  BY RefusalIs, Distinct, Zenon
<1>8. Heard(k) = Untold /\ \A j \in Calls : j # k => Heard(j)' = Heard(j)
  BY <1>2, <1>4, <1>6, <1>7, Zenon DEF Heard
<1>9. \A j \in Calls : Served(j)' = Served(j)
  BY <1>2, Zenon DEF Served
<1> DEFINE before == [j \in Calls |-> Heard(j)]
           after == [j \in Calls |-> Heard(j)']
           x == Heard(k)'
<1>10. before[k] = Untold /\ after = [before EXCEPT ![k] = x]
  <2>1. before[k] = Untold /\ after[k] = x /\ \A j \in Calls : j # k => after[j] = before[j]
    BY <1>8, Zenon
  <2>2. before = [j \in Calls |-> before[j]] /\ after = [j \in Calls |-> after[j]]
    BY Zenon
  <2> HIDE DEF before, after, x
  <2> QED
    BY <2>1, <2>2
<1>11. [j \in Calls |-> Served(j)'] = [j \in Calls |-> Served(j)]
  BY <1>9, Zenon
<1>12. CASE response # Failure /\ seen[k] # NoControlRequest
  <2>1. x = answer[k]
    BY <1>2, <1>6, <1>12, Zenon DEF Heard
  <2>2. Served(k) = [request |-> seen[k], reply |-> answer[k]]
    BY <1>12, Zenon DEF Served
  <2> DEFINE a == answer[k]
             s == seen[k]
  <2>3. Served(k) # NoControlRequest /\ Served(k).reply = a
    <3>1. Served(k) = [request |-> s, reply |-> a]
      BY <2>2
    <3> HIDE DEF s, a
    <3>2. "request" \in DOMAIN Served(k) /\ Served(k).reply = a
      BY <3>1
    <3>3. "request" \notin DOMAIN NoControlRequest
      BY DEF NoControlRequest
    <3> QED
      BY <3>2, <3>3, Zenon
  <2>4. after = [before EXCEPT ![k] = Served(k).reply]
    BY <1>10, <2>1, <2>3, Zenon
  <2> DEFINE executed == [j \in Calls |-> Served(j)]
  <2>5. executed[k] = Served(k)
    BY Zenon
  <2>6. Control!Answer(k)
    BY <1>2, <1>10, <1>11, <2>3, <2>4, <2>5, Zenon DEF Control!Answer, Served, Heard, before, after, executed
  <2> QED
    BY <1>1, <2>6
<1>13. CASE response = Failure \/ seen[k] = NoControlRequest
  <2>1. x = Failure
    <3>1. response = Failure \/ response = Refusal
      BY <1>3, <1>13, Zenon DEF CallOK
    <3>2. CASE response = Failure
      BY <1>6, <1>7, <3>2, Zenon DEF Heard
    <3>3. CASE response = Refusal
      BY <1>2, <1>6, <1>7, <1>13, <3>3, Zenon DEF Heard
    <3> QED
      BY <3>1, <3>2, <3>3
  <2>2. Control!Refuse(k)
    BY <1>2, <1>4, <1>10, <1>11, <2>1, Zenon DEF Control!Refuse, Served, Heard, before, after
  <2> QED
    BY <1>1, <2>2
<1> QED
  BY <1>12, <1>13

\* The response that a client decodes is the one the daemon has made to its call.
LEMMA ReceivedIs ==
  ASSUME ControlInv, NEW k \in Calls, toCaller[k] # NoPacket
  PROVE  /\ DecodeControlResponse(toCaller[k]) = answer[k] /\ answer[k] # NoControlResponse
         /\ ~OpenAt(k)
<1>1. CallOK(k) /\ Packets
  BY Zenon DEF ControlInv
<1>2. toCaller[k] = responsePacket[k] /\ ~OpenAt(k)
  BY <1>1, Zenon DEF CallOK
<1>3. answer[k] # NoControlResponse /\ responsePacket[k] = EncodeControlResponse(answer[k])
  BY <1>1, <1>2, Zenon DEF Packets
<1>4. answer[k] \in ControlResponses
  BY <1>1, <1>3, Zenon DEF Packets
<1> QED
  BY <1>2, <1>3, <1>4, ControlResponseRoundTrip, Zenon

\* Every step of exchange keeps the invariant and is one of RemoteCall.
LEMMA ClientKeeps ==
  ASSUME ControlTypeOK, ControlInv, NEW k \in Calls, ClientStep(k)
  PROVE  ControlInv' /\ [Control!CallNext]_(Control!callVars)
<1>1. CASE EncodeFails(k) \/ ConnectFails(k) \/ SendFails(k) \/ ReceiveFails(k) \/ ReceiveTimesOut(k)
  <2>1. call[k] \notin {"new", "done"} /\ Return(k, Failure)
    BY <1>1 DEF EncodeFails, ConnectFails, SendFails, ReceiveFails, ReceiveTimesOut
  <2> QED
    BY <2>1, ControlReturns, Zenon DEF Control!CallNext
<1>2. CASE Receive(k)
  <2>1. call[k] \notin {"new", "done"} /\ toCaller[k] # NoPacket
    BY <1>2 DEF Receive
  <2>2. DecodeControlResponse(toCaller[k]) = answer[k] /\ answer[k] # NoControlResponse /\ ~OpenAt(k)
    BY <2>1, ReceivedIs, Zenon
  <2>3. Return(k, answer[k])
    BY <1>2, <2>2, Zenon DEF Receive
  <2> QED
    BY <2>1, <2>2, <2>3, ControlReturns, Zenon DEF Control!CallNext
<1>3. CASE Connect(k)
  <2>1. UNCHANGED <<asked, told, seen, answer>>
    BY <1>3 DEF Connect, servedVars
  <2> QED
    BY <1>3, <2>1, ConnectStep, Unheard, Zenon
<1>4. CASE SendRequest(k) \/ SendOtherVersion(k) \/ SendDescriptor(k)
  <2>1. PICK packet \in {requestPacket[k], OtherVersion(requestPacket[k])} : Post(k, packet)
    BY <1>4, Zenon DEF SendRequest, SendOtherVersion, SendDescriptor, OtherVersion
  <2>2. UNCHANGED <<asked, told, seen, answer>>
    BY <2>1 DEF Post, servedVars
  <2>3. ControlInv'
    BY <2>1, PostStep, Zenon
  <2> QED
    BY <2>2, <2>3, Unheard, Zenon
<1> QED
  BY <1>1, <1>2, <1>3, <1>4, Zenon DEF ClientStep

\* Every step of a daemon keeps the invariant and is one of RemoteCall.
LEMMA DaemonKeeps ==
  ASSUME ControlTypeOK, ControlInv, NEW d \in Daemons,
         StartDaemon(d) \/ OpenSocket(d) \/ Serve(d) \/ AskStop(d) \/ Crash(d) \/ \E id \in AgentIds : FinishAgent(d, id)
  PROVE  ControlInv' /\ [Control!CallNext]_(Control!callVars)
<1>1. CASE SteadyDaemon(d)
  <2>1. ControlInv' /\ UNCHANGED servedVars /\ UNCHANGED callVars
    BY <1>1, SteadyDaemonStep, Zenon
  <2> QED
    BY <2>1, SameServed, Zenon
<1>2. CASE ProbeAnswered(d)
  <2>1. ControlInv' /\ UNCHANGED servedVars /\ UNCHANGED callVars
    BY <1>2, ProbeStep, Zenon
  <2> QED
    BY <2>1, SameServed, Zenon
<1>3. CASE Accept(d)
  <2>1. ControlInv' /\ UNCHANGED servedVars /\ UNCHANGED callVars
    BY <1>3, AcceptStep, Zenon
  <2> QED
    BY <2>1, SameServed, Zenon
<1>4. CASE CloseListener(d) \/ Crash(d)
  <2>1. ControlInv' /\ UNCHANGED servedVars /\ UNCHANGED callVars
    BY <1>4, DropStep, Zenon
  <2> QED
    BY <2>1, SameServed, Zenon
<1>5. CASE Handle(d)
  BY <1>5, ControlExecutes, Zenon DEF Control!CallNext
<1>6. CASE RefuseRequest(d)
  <2>1. /\ ControlInv' /\ UNCHANGED <<callVars, seen>>
        /\ \A k \in Calls : seen[k] # NoControlRequest => answer'[k] = answer[k]
    BY <1>6, RefuseStep, Zenon
  <2>2. UNCHANGED <<asked, told, seen>>
    BY <2>1 DEF callVars
  <2> QED
    BY <2>1, <2>2, Unheard, Zenon
<1>7. CASE Reply(d)
  <2>1. ControlInv' /\ UNCHANGED servedVars /\ UNCHANGED callVars
    BY <1>7, ReplyStep, Zenon
  <2> QED
    BY <2>1, SameServed, Zenon
<1>8. CASE \E id \in AgentIds : FinishAgent(d, id)
  <2>1. PICK id \in AgentIds : FinishAgent(d, id)
    BY <1>8
  <2>2. ControlInv' /\ UNCHANGED servedVars /\ UNCHANGED callVars
    BY <2>1, FinishStep, Zenon
  <2> QED
    BY <2>2, SameServed, Zenon
<1> QED
  BY <1>1, <1>2, <1>3, <1>4, <1>5, <1>6, <1>7, <1>8, Zenon DEF OpenSocket, Serve, SteadyDaemon

\* Every step keeps the invariant and is one of RemoteCall, or invisible to it.
LEMMA ControlInvStep ==
  ASSUME ControlTypeOK, ControlInv, [ControlNext]_controlVars
  PROVE  ControlInv' /\ [Control!CallNext]_(Control!callVars)
<1>1. CASE \E d \in Daemons :
             \/ StartDaemon(d) \/ OpenSocket(d) \/ Serve(d) \/ AskStop(d) \/ Crash(d)
             \/ \E id \in AgentIds : FinishAgent(d, id)
  BY <1>1, DaemonKeeps, Zenon
<1>2. CASE \E k \in Calls : ClientStep(k) \/ \E request \in Requests[k] : Begin(k, request)
  <2>1. PICK k \in Calls : ClientStep(k) \/ \E request \in Requests[k] : Begin(k, request)
    BY <1>2, Zenon
  <2>2. CASE ClientStep(k)
    BY <2>2, ClientKeeps, Zenon
  <2>3. CASE \E request \in Requests[k] : Begin(k, request)
    <3>1. PICK request \in Requests[k] : Begin(k, request)
      BY <2>3, Zenon
    <3>2. ControlInv' /\ asked[k] = NoControlRequest
      BY <3>1, BeginStep, Zenon
    <3>3. Control!Ask(k)
      BY <3>1, <3>2, ControlAsks, Zenon
    <3> QED
      BY <3>2, <3>3, Zenon DEF Control!CallNext
  <2> QED
    BY <2>1, <2>2, <2>3, Zenon
<1>3. CASE UNCHANGED controlVars
  <2>1. UNCHANGED <<daemonVars, runtimeVars, callVars, controlWire, servedVars>>
    BY <1>3 DEF controlVars
  <2>2. NodesTyped' /\ UNCHANGED <<backlog, current, phase>>
    BY <2>1 DEF ControlInv, NodesTyped, runtimeVars, daemonVars
  <2>3. ControlInv'
    BY <2>1, <2>2, SteadyStep, Zenon
  <2> QED
    BY <2>1, <2>3, SameServed, Zenon
<1> QED
  BY <1>1, <1>2, <1>3, Zenon DEF ControlNext

\* Nothing is asked, executed or told at first.
LEMMA ControlCallInit ==
  ControlInit => Control!CallInit
<1> SUFFICES ASSUME ControlInit
             PROVE  Control!CallInit
  OBVIOUS
<1>1. /\ asked = [k \in Calls |-> NoControlRequest] /\ seen = [k \in Calls |-> NoControlRequest]
      /\ told = [k \in Calls |-> Untold]
  BY DEF ControlInit
<1>2. Untold # Refusal
  BY RefusalIs, Distinct, Zenon
<1>3. \A k \in Calls : Served(k) = NoControlRequest /\ Heard(k) = Untold
  BY <1>1, <1>2, Zenon DEF Served, Heard
<1>4. [k \in Calls |-> Served(k)] = [k \in Calls |-> NoControlRequest] /\ [k \in Calls |-> Heard(k)] = [k \in Calls |-> Untold]
  BY <1>3, Zenon
<1> QED
  BY <1>1, <1>4, Zenon DEF Control!CallInit, Served, Heard

\* The inductive invariant of the control plane: a call is held by at most one
\* daemon, in one place, until it is answered; what is on the wire is what its
\* caller or its daemon has encoded; what was dispatched for it is what it asks.
THEOREM ControlInvariant == ControlSpec => []ControlInv
<1>1. ControlTypeOK /\ ControlInv /\ [ControlNext]_controlVars => ControlInv'
  BY ControlInvStep
<1> QED
  BY <1>1, ControlInvInit, ControlTypes, PTL DEF ControlSpec

\* However many daemons and clients there are, whatever they ask, whichever
\* daemon crashes or stops and whoever gives up waiting: every step of the
\* control plane is one of RemoteCall or changes nothing that a caller can tell.
THEOREM ControlPlaneImplementsRemoteCall == ControlSpec => ControlImplementsRemoteCall
<1>1. ControlTypeOK /\ ControlInv /\ [ControlNext]_controlVars => [Control!CallNext]_(Control!callVars)
  BY ControlInvStep
<1> QED
  BY <1>1, ControlCallInit, ControlInvariant, ControlTypes, PTL
     DEF ControlSpec, ControlImplementsRemoteCall, Control!CallSpec
=============================================================================
