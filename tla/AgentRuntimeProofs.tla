------------------------- MODULE AgentRuntimeProofs -------------------------
(***************************************************************************)
(* Proofs about AgentRuntime: the runtime uses the scheduler as the        *)
(* specification of AgentScheduler allows, so that every theorem about the *)
(* scheduler holds inside the runtime, and RuntimeInv is inductive.        *)
(***************************************************************************)
EXTENDS AgentRuntime, AgentSchedulerProofs

-----------------------------------------------------------------------------
(* What a step of the scheduler may do to agents nobody reports *)

Calm(S) ==
  \A b \in Agents \ S :
    /\ state[b] = "cancelled" => state'[b] = "cancelled"
    /\ state'[b] = "completed" => state[b] = "completed"

(* A submission touches no agent that has a node. *)
LEMMA SubmitCalm ==
  ASSUME TypeOK, Submit \/ \E p, a \in Agents : Spawn(p, a)
  PROVE  executing' = executing /\ Calm({})
<1>0. PICK batch \in SUBSET Agents :
        \E deps \in [batch -> DependencyLists] : SubmitBatch(batch, deps)
  <2>1. \A a \in Agents : {a} \in SUBSET Agents
    OBVIOUS
  <2>2. CASE Submit
    BY <2>2 DEF Submit
  <2>3. CASE \E p, a \in Agents : Spawn(p, a)
    BY <2>1, <2>3, Zenon DEF Spawn
  <2> QED
    BY <2>2, <2>3
<1>1. PICK deps \in [batch -> DependencyLists] : SubmitBatch(batch, deps)
  BY <1>0
<1>2. \A b \in Agents : b \in batch => state[b] = "absent"
  BY <1>1 DEF SubmitBatch, Nodes
<1>3. executing' = executing
  BY <1>1 DEF SubmitBatch
<1>4. \A b \in Agents : \/ b \in batch /\ state'[b] \in {"ready", "waiting_dependency"}
                        \/ state'[b] = state[b]
  <2> DEFINE merged == [a \in Agents |-> IF a \in batch THEN deps[a]
                                                        ELSE dependencies[a]]
             free == {a \in batch : Cardinality({i \in DOMAIN merged[a] :
                                      CountsUnresolved(merged[a][i])}) = 0}
  <2>1. state' = [a \in Agents |-> IF a \in free THEN "ready"
                                   ELSE IF a \in batch THEN "waiting_dependency"
                                   ELSE state[a]]
    BY <1>1 DEF SubmitBatch
  <2>2. free \subseteq batch
    OBVIOUS
  <2> HIDE DEF free
  <2> QED
    BY <2>1, <2>2
<1> QED
  BY <1>2, <1>3, <1>4 DEF Calm

(* A dispatch touches only agents of the ready set. *)
LEMMA DispatchCalm ==
  ASSUME TypeOK, ReadyConsistent, NEW sample \in Samples, NEW a \in Agents,
         Dispatch(sample, a) \/ DispatchNothing(sample)
  PROVE  Calm({})
<1>1. \A b \in Agents : b \in ready <=> state[b] \in {"ready", "waiting_resource"}
  BY DEF ReadyConsistent, Queued
<1>2. \A b \in Agents : b \notin ready => state'[b] = state[b]
  BY DEF Dispatch, DispatchNothing, Marked, Fitting, TypeOK
<1>3. \A b \in Agents : b \in ready =>
         state'[b] \in {"ready", "waiting_resource", "dispatched"}
  BY DEF Dispatch, DispatchNothing, Marked, TypeOK
<1> QED
  BY <1>1, <1>2, <1>3 DEF Calm

(* The start and the cancellation of an agent complete none and revive no  *)
(* cancelled one.                                                          *)
LEMMA StartAndCancelCalm ==
  ASSUME TypeOK, NEW a \in Agents, MarkRunning(a) \/ Cancel(a)
  PROVE  executing' = executing /\ Calm({})
<1>1. CASE MarkRunning(a)
  BY <1>1 DEF MarkRunning, CanEnter, TransitionSources, Calm, TypeOK
<1>2. CASE Cancel(a)
  BY <1>2 DEF Cancel, CanEnter, TransitionSources, Calm, TypeOK, Terminal
<1> QED
  BY <1>1, <1>2

(* The report of a success completes only the agent it is about. *)
LEMMA CompleteCalm ==
  ASSUME TypeOK, NEW a \in Agents, Complete(a)
  PROVE  /\ executing' = [executing EXCEPT ![a] = @ - 1]
         /\ Calm({a})
<1>1. executing' = [executing EXCEPT ![a] = @ - 1]
  BY DEF Complete, Report
<1>2. PICK woken \in SUBSET Agents :
        /\ \A b \in woken : state[b] = "waiting_dependency"
        /\ \/ state' = [b \in Agents |-> IF b = a THEN "completed"
                                         ELSE IF b \in woken THEN "ready"
                                         ELSE state[b]]
           \/ state' = state
  <2> DEFINE left == [b \in Agents |->
                        IF b \in Nodes
                        THEN Minus(unresolved[b],
                                   Cardinality(Occurrences(dependencies, b, a)))
                        ELSE unresolved[b]]
             woken == {b \in Successors(a) : /\ left[b] = 0
                                             /\ state[b] = "waiting_dependency"}
  <2>1. /\ woken \in SUBSET Agents
        /\ \A b \in woken : state[b] = "waiting_dependency"
    BY DEF Successors, Nodes
  <2>2. \/ state' = [b \in Agents |-> IF b = a THEN "completed"
                                       ELSE IF b \in woken THEN "ready"
                                       ELSE state[b]]
        \/ state' = state
    BY Zenon DEF Complete
  <2> HIDE DEF woken
  <2> QED
    BY <2>1, <2>2
<1>3. \A b \in Agents \ {a} :
        state'[b] = state[b] \/ (state[b] = "waiting_dependency" /\ state'[b] = "ready")
  BY <1>2
<1> QED
  BY <1>1, <1>3 DEF Calm

(* The report of a failure completes no agent and revives no other. *)
LEMMA FailCalm ==
  ASSUME TypeOK, NEW a \in Agents, Fail(a)
  PROVE  /\ executing' = [executing EXCEPT ![a] = @ - 1]
         /\ Calm({a})
         /\ state'[a] = "completed" => state[a] = "completed"
<1>1. executing' = [executing EXCEPT ![a] = @ - 1]
  BY DEF Fail, Report
<1>2. \A b \in LiveDescendants(a) : state[b] \notin Terminal
  BY DEF LiveDescendants, Live
<1>3. CASE FailRetry(a)
  BY <1>1, <1>3 DEF FailRetry, Calm, TypeOK
<1>4. CASE FailFinal(a)
  BY <1>1, <1>2, <1>4 DEF FailFinal, Calm, TypeOK, Terminal
<1>5. CASE FailRefused(a)
  BY <1>1, <1>5 DEF FailRefused, Calm
<1> QED
  BY <1>3, <1>4, <1>5 DEF Fail

-----------------------------------------------------------------------------
(* The runtime is a client of the scheduler *)

(* A worker past the dispatch holds an agent. *)
LEMMA HeldAgent ==
  ASSUME RuntimeTypeOK, WorkersHold, NEW w \in Workers,
         work[w].pc \notin {"exited", "loop", "poll"}
  PROVE  work[w].agent \in Agents
BY DEF RuntimeTypeOK, WorkersHold

(* Each step of the runtime is one operation of the scheduler or leaves    *)
(* the scheduler alone.                                                    *)
LEMMA RuntimeStepSchedules ==
  ASSUME RuntimeTypeOK, WorkersHold, [RuntimeNext]_allVars
  PROVE  [Next]_vars
<1>1. CASE Start \/ StopRunning \/ OwnerStep
  BY <1>1 DEF Start, StopRunning, OwnerStep, StopFlag, StopTokens, StopJoined
<1>2. ASSUME NEW w \in Workers, WorkerStep(w) PROVE [Next]_vars
  <2>1. CASE \E sample \in Samples, a \in Agents : TakeAgent(w, sample, a)
    BY <2>1, Zenon DEF TakeAgent, Next
  <2>2. CASE \E sample \in Samples : TakeNothing(w, sample)
    BY <2>2, Zenon DEF TakeNothing, Next
  <2>3. CASE LoopCheck(w) \/ Abandon(w) \/ Keep(w) \/ Begin(w) \/ SetupFails(w)
             \/ MakeToken(w) \/ InsertToken(w) \/ CheckToken(w) \/ StartFails(w)
             \/ Unwind(w) \/ Publish(w)
    BY <2>3 DEF LoopCheck, Abandon, Keep, Begin, SetupFails, MakeToken,
                InsertToken, CheckToken, StartFails, Unwind, Publish
  <2>4. CASE MarkInvocation(w) \/ MarkHandler(w) \/ StartProcess(w)
    <3>1. MarkRunning(work[w].agent) \/ UNCHANGED vars
      BY <2>4 DEF MarkInvocation, MarkHandler, MarkStarted, StartProcess
    <3>2. work[w].agent \in Agents
      BY <2>4, HeldAgent DEF MarkInvocation, MarkHandler, MarkStarted, StartProcess, At
    <3> QED
      BY <3>1, <3>2, Zenon DEF Next
  <2>5. CASE ReportOutcome(w)
    <3>1. Complete(work[w].agent) \/ Fail(work[w].agent)
      BY <2>5 DEF ReportOutcome
    <3>2. work[w].agent \in Agents
      BY <2>5, HeldAgent DEF ReportOutcome, At
    <3> QED
      BY <3>1, <3>2, Zenon DEF Next
  <2> QED
    BY <1>2, <2>1, <2>2, <2>3, <2>4, <2>5 DEF WorkerStep
<1>3. CASE \E w \in Workers, ok \in BOOLEAN : EndBody(w, ok)
  BY <1>3 DEF EndBody
<1>4. CASE ClientSubmit
  BY <1>4, Zenon DEF ClientSubmit, Next
<1>5. CASE \E a \in Agents : CancelToken(a) \/ ReleaseResult(a)
  BY <1>5 DEF CancelToken, ReleaseResult
<1>6. CASE CancelScheduler
  <2>1. canceller \in Agents
    BY <1>6 DEF CancelScheduler, RuntimeTypeOK
  <2> QED
    BY <1>6, <2>1, Zenon DEF CancelScheduler, Next
<1>7. CASE UNCHANGED allVars
  BY <1>7 DEF allVars
<1> QED
  BY <1>1, <1>2, <1>3, <1>4, <1>5, <1>6, <1>7 DEF RuntimeNext

-----------------------------------------------------------------------------
(* Workers change only themselves *)

Worker == [pc : WorkerPC, agent : Agents \cup {NoAgent},
           flag : BOOLEAN, ok : BOOLEAN, started : BOOLEAN]

(* Worker w goes to q with agent a; the others stay where they are. *)
Moved(w, q, a) ==
  /\ work' \in [Workers -> Worker]
  /\ work'[w].pc = q
  /\ work'[w].agent = a
  /\ \A v \in Workers \ {w} : work'[v] = work[v]

(* The updates of the model are moves. *)
LEMMA Moves ==
  ASSUME work \in [Workers -> Worker], NEW w \in Workers, NEW q \in WorkerPC
  PROVE  /\ Goto(w, q) => /\ Moved(w, q, work[w].agent)
                          /\ work'[w].flag = work[w].flag
                          /\ work'[w].ok = work[w].ok
         /\ \A ok \in BOOLEAN : GotoOutcome(w, q, ok) =>
                 /\ Moved(w, q, work[w].agent)
                 /\ work'[w].flag = work[w].flag
                 /\ work'[w].ok = ok
         /\ work' = [work EXCEPT ![w] = Idler(q)] => Moved(w, q, NoAgent)
<1>1. ASSUME Goto(w, q)
      PROVE  /\ Moved(w, q, work[w].agent)
             /\ work'[w].flag = work[w].flag
             /\ work'[w].ok = work[w].ok
  BY <1>1 DEF Goto, Moved, Worker
<1>2. ASSUME NEW ok \in BOOLEAN, GotoOutcome(w, q, ok)
      PROVE  /\ Moved(w, q, work[w].agent)
             /\ work'[w].flag = work[w].flag
             /\ work'[w].ok = ok
  BY <1>2 DEF GotoOutcome, Moved, Worker
<1>3. ASSUME work' = [work EXCEPT ![w] = Idler(q)]
      PROVE  Moved(w, q, NoAgent)
  BY <1>3 DEF Idler, Moved, Worker
<1> QED
  BY <1>1, <1>2, <1>3, Zenon

(* The parts of the invariant besides the types. *)
Coherent ==
  /\ WorkersHold
  /\ OwnerInv
  /\ ExecutionsDisjoint
  /\ TokensMatchExecutions
  /\ CompletedHasResult
  /\ ReportedHasResult
  /\ NoSpuriousCancel

ownerVars == <<running_, cancel_requested, stopper, asked>>

(* A worker that advances within its execution, without touching the token *)
(* map or the outcome of others, keeps the runtime coherent.               *)
LEMMA Advance ==
  ASSUME RuntimeTypeOK, RuntimeTypeOK', Coherent, NEW w \in Workers, NEW q \in WorkerPC,
         work[w].pc \notin {"exited", "loop", "poll"},
         q \notin {"exited", "loop", "poll"},
         Moved(w, q, work[w].agent),
         UNCHANGED <<ownerVars, cancel_tokens>>,
         results \cup released \subseteq results' \cup released',
         executing' = executing, Calm({}),
         \/ Kind[work[w].agent] = "handler"
         \/ work[w].pc \in HoldsToken <=> q \in HoldsToken,
         q \in {"armed", "starting"} => Kind[work[w].agent] = "command",
         q = "marked" => Kind[work[w].agent] = "invocation",
         q = "token" => /\ Kind[work[w].agent] # "handler"
                        /\ work'[w].flag => cancel_requested,
         q = "report" /\ work'[w].ok /\ Kind[work[w].agent] = "command" =>
           work[w].agent \in results' \cup released'
  PROVE  Coherent'
<1> DEFINE a == work[w].agent
<1>0. a \in Agents
  BY HeldAgent DEF Coherent
<1>1. \A v \in Workers : work'[v].agent = work[v].agent
  BY DEF Moved
<1>2. WorkersHold'
  BY <1>0, RuntimeAssumption DEF Coherent, WorkersHold, Moved, At, RuntimeAssumption
<1>3. OwnerInv'
  BY DEF Coherent, OwnerInv, Moved, At, ownerVars
<1>4. ExecutionsDisjoint'
  BY <1>1 DEF Coherent, ExecutionsDisjoint
<1>5. TokensMatchExecutions'
  BY <1>1 DEF Coherent, TokensMatchExecutions, Moved
<1>6. CompletedHasResult'
  BY DEF Coherent, CompletedHasResult, Calm
<1>7. ReportedHasResult'
  BY DEF Coherent, ReportedHasResult, Moved, At
<1>8. NoSpuriousCancel'
  BY DEF Coherent, NoSpuriousCancel, ownerVars
<1> QED
  BY <1>2, <1>3, <1>4, <1>5, <1>6, <1>7, <1>8 DEF Coherent

(* So does a worker without an agent, or one that leaves its agent behind. *)
LEMMA Idles ==
  ASSUME RuntimeTypeOK, RuntimeTypeOK', Coherent, NEW w \in Workers,
         NEW q \in {"exited", "loop", "poll"},
         work[w].pc \notin HoldsToken \cup {"exited"},
         Moved(w, q, NoAgent),
         UNCHANGED <<ownerVars, cancel_tokens, results, released>>,
         executing' = executing, Calm({})
  PROVE  Coherent'
<1>1. \A v \in Workers : work'[v].agent # NoAgent =>
                           v # w /\ work'[v] = work[v]
  BY DEF Moved
<1>2. WorkersHold'
  BY <1>1 DEF Coherent, WorkersHold, Moved, At
<1>3. OwnerInv'
  BY DEF Coherent, OwnerInv, Moved, At, ownerVars
<1>4. ExecutionsDisjoint'
  BY <1>1 DEF Coherent, ExecutionsDisjoint
<1>5. TokensMatchExecutions'
  BY RuntimeAssumption DEF Coherent, TokensMatchExecutions, Moved, RuntimeAssumption
<1>6. CompletedHasResult'
  BY DEF Coherent, CompletedHasResult, Calm
<1>7. ReportedHasResult'
  BY DEF Coherent, ReportedHasResult, Moved, At
<1>8. NoSpuriousCancel'
  BY DEF Coherent, NoSpuriousCancel, ownerVars
<1> QED
  BY <1>2, <1>3, <1>4, <1>5, <1>6, <1>7, <1>8 DEF Coherent

-----------------------------------------------------------------------------
(* The steps of a worker *)

(* The worker's record, and where an assignment of the model sends it. *)
LEMMA WorkerType ==
  ASSUME RuntimeTypeOK, NEW w \in Workers
  PROVE  work \in [Workers -> Worker] /\ work[w] \in Worker
BY DEF RuntimeTypeOK, Worker

(* Steps that touch neither the scheduler's account of executions nor the  *)
(* token map.                                                              *)
LEMMA AdvanceSteps ==
  ASSUME RuntimeTypeOK, RuntimeTypeOK', Coherent, NEW w \in Workers,
         \/ Keep(w) \/ SetupFails(w) \/ MarkInvocation(w) \/ MarkHandler(w) \/ MakeToken(w)
         \/ CheckToken(w) \/ StartFails(w) \/ StartProcess(w) \/ Publish(w)
         \/ \E ok \in BOOLEAN : EndBody(w, ok)
  PROVE  Coherent'
<1>0. work \in [Workers -> Worker] /\ work[w] \in Worker
  BY WorkerType
<1>t. TypeOK /\ WorkersHold
  BY DEF RuntimeTypeOK, Coherent
<1>s. UNCHANGED vars => executing' = executing /\ Calm({})
  BY DEF vars, Calm
<1> USE DEF UnchangedByExecution, ownerVars, WorkerPC, Executing, At, HoldsToken
<1>1. CASE Keep(w)
  <2>1. Goto(w, "kept") /\ work[w].pc = "handed"
    BY <1>1 DEF Keep
  <2>2. Moved(w, "kept", work[w].agent)
    BY <1>0, <2>1, Moves
  <2> QED
    BY <1>1, <1>s, <2>1, <2>2, Advance DEF Keep
<1>2. CASE SetupFails(w)
  <2>1. GotoOutcome(w, "report", FALSE) /\ work[w].pc = "begin"
    BY <1>2 DEF SetupFails
  <2>2. Moved(w, "report", work[w].agent) /\ ~work'[w].ok
    BY <1>0, <2>1, Moves
  <2> QED
    BY <1>2, <1>s, <2>1, <2>2, Advance DEF SetupFails
<1>3. ASSUME NEW pc \in {"marked", "body"}, At(w, "begin"), MarkStarted(w, pc),
             Kind[work[w].agent] = IF pc = "marked" THEN "invocation" ELSE "handler"
      PROVE  Coherent'
  <2> DEFINE a == work[w].agent
  <2>0. work[w].pc = "begin" /\ a \in Agents
    BY <1>3, <1>t, HeldAgent
  <2>1. CASE MarkRunning(a) /\ Goto(w, pc)
    <3>1. executing' = executing /\ Calm({})
      BY <1>t, <2>0, <2>1, StartAndCancelCalm
    <3>2. Moved(w, pc, a)
      BY <1>0, <2>1, Moves
    <3> QED
      BY <1>3, <2>0, <3>1, <3>2, Advance DEF MarkStarted
  <2>2. CASE GotoOutcome(w, "report", FALSE) /\ UNCHANGED vars
    <3>1. Moved(w, "report", a) /\ ~work'[w].ok
      BY <1>0, <2>2, Moves
    <3> QED
      BY <1>3, <1>s, <2>0, <2>2, <3>1, Advance DEF MarkStarted
  <2> QED
    BY <1>3, <2>1, <2>2 DEF MarkStarted
<1>4. CASE MakeToken(w)
  <2>1. /\ work[w].pc \in {"begin", "marked"}
        /\ Kind[work[w].agent] # "handler"
    BY <1>4, <1>t DEF MakeToken, WorkersHold
  <2>2. Moved(w, "token", work[w].agent) /\ work'[w].flag = cancel_requested
    <3>1. cancel_requested \in BOOLEAN
      BY DEF RuntimeTypeOK
    <3> QED
      BY <1>0, <1>4, <3>1 DEF MakeToken, Moved, Worker
  <2>3. work'[w].flag => cancel_requested
    BY <2>2
  <2>4. UNCHANGED <<ownerVars, cancel_tokens, results, released>>
        /\ executing' = executing /\ Calm({})
    BY <1>4, <1>s DEF MakeToken
  <2> QED
    BY <2>1, <2>2, <2>3, <2>4, Advance
<1>5. CASE CheckToken(w)
  <2>1. /\ work[w].pc = "armed" /\ Kind[work[w].agent] = "command"
        /\ Goto(w, "starting") \/ GotoOutcome(w, "unwind", FALSE)
    BY <1>5, <1>t DEF CheckToken, WorkersHold
  <2>2. Moved(w, "starting", work[w].agent) \/ Moved(w, "unwind", work[w].agent)
    BY <1>0, <2>1, Moves
  <2>3. UNCHANGED <<ownerVars, cancel_tokens, results, released>>
        /\ executing' = executing /\ Calm({})
    BY <1>5, <1>s DEF CheckToken
  <2>4. CASE Moved(w, "starting", work[w].agent)
    BY <2>1, <2>3, <2>4, Advance
  <2>5. CASE Moved(w, "unwind", work[w].agent)
    BY <2>1, <2>3, <2>5, Advance
  <2> QED
    BY <2>2, <2>4, <2>5
<1>6. CASE StartFails(w)
  <2>1. work[w].pc \in {"armed", "starting"} /\ GotoOutcome(w, "unwind", FALSE)
    BY <1>6 DEF StartFails
  <2>2. Moved(w, "unwind", work[w].agent)
    BY <1>0, <2>1, Moves
  <2> QED
    BY <1>6, <1>s, <2>1, <2>2, Advance DEF StartFails
<1>7. CASE StartProcess(w)
  <2>0. work[w].pc = "starting" /\ work[w].agent \in Agents
    BY <1>7, <1>t, HeldAgent DEF StartProcess
  <2>1. executing' = executing /\ Calm({})
    BY <1>7, <1>s, <1>t, <2>0, StartAndCancelCalm DEF StartProcess
  <2>2. Moved(w, "body", work[w].agent) \/ Moved(w, "unwind", work[w].agent)
    <3>1. CASE work' = [work EXCEPT ![w].pc = "body", ![w].started = TRUE]
      BY <1>0, <3>1 DEF Moved, Worker
    <3>2. CASE GotoOutcome(w, "unwind", FALSE)
      BY <1>0, <3>2, Moves
    <3> QED
      BY <1>7, <3>1, <3>2 DEF StartProcess
  <2> QED
    BY <1>7, <2>0, <2>1, <2>2, Advance DEF StartProcess
<1>8. CASE Publish(w)
  <2> DEFINE a == work[w].agent
  <2>1. work[w].pc = "publish" /\ work[w].ok \in BOOLEAN
    BY <1>0, <1>8 DEF Publish, Worker
  <2>2. results \cup released \subseteq results' \cup released'
    BY <1>8 DEF Publish
  <2>3. /\ Moved(w, "report", a)
        /\ work'[w].ok /\ Kind[a] = "command" => a \in results'
    <3>1. CASE results' = results \cup {a} /\ GotoOutcome(w, "report", work[w].ok)
      BY <1>0, <2>1, <3>1, Moves
    <3>2. CASE Kind[a] # "command" /\ GotoOutcome(w, "report", work[w].ok)
      BY <1>0, <2>1, <3>2, Moves
    <3>3. CASE GotoOutcome(w, "report", FALSE)
      BY <1>0, <3>3, Moves
    <3> QED
      BY <1>8, <3>1, <3>2, <3>3 DEF Publish
  <2> QED
    BY <1>8, <1>s, <2>1, <2>2, <2>3, Advance DEF Publish
<1>9. CASE \E ok \in BOOLEAN : EndBody(w, ok)
  <2>1. PICK ok \in BOOLEAN : EndBody(w, ok)
    BY <1>9
  <2>2. work[w].pc = "body" /\ GotoOutcome(w, "unwind", ok)
    BY <2>1 DEF EndBody
  <2>3. Moved(w, "unwind", work[w].agent)
    BY <1>0, <2>2, Moves
  <2> QED
    BY <2>1, <1>s, <2>2, <2>3, Advance DEF EndBody
<1> QED
  BY <1>1, <1>2, <1>3, <1>4, <1>5, <1>6, <1>7, <1>8, <1>9
     DEF MarkInvocation, MarkHandler

(* Steps of a worker that has no agent, or that leaves the one it was      *)
(* handed.                                                                 *)
LEMMA IdleSteps ==
  ASSUME SchedulerInv, RuntimeTypeOK, RuntimeTypeOK', Coherent, NEW w \in Workers,
         \/ LoopCheck(w) \/ Abandon(w)
         \/ \E sample \in Samples : TakeNothing(w, sample)
  PROVE  Coherent'
<1>0. work \in [Workers -> Worker] /\ work[w] \in Worker
  BY WorkerType
<1>t. TypeOK /\ WorkersHold /\ ReadyConsistent
  BY DEF RuntimeTypeOK, Coherent, SchedulerInv
<1>s. UNCHANGED vars => executing' = executing /\ Calm({})
  BY DEF vars, Calm
<1> USE DEF ownerVars, WorkerPC, Executing, At, HoldsToken
<1>1. CASE LoopCheck(w)
  <2>1. work[w].pc = "loop" /\ work[w].agent = NoAgent
    BY <1>1, <1>t DEF LoopCheck, WorkersHold
  <2>2. Moved(w, "poll", NoAgent) \/ Moved(w, "exited", NoAgent)
    BY <1>0, <1>1, <2>1, Moves DEF LoopCheck
  <2> QED
    BY <1>1, <1>s, <2>1, <2>2, Idles DEF LoopCheck
<1>2. CASE Abandon(w)
  <2>1. work[w].pc = "handed" /\ Moved(w, "exited", NoAgent)
    BY <1>0, <1>2, Moves DEF Abandon
  <2> QED
    BY <1>2, <1>s, <2>1, Idles DEF Abandon
<1>3. ASSUME NEW sample \in Samples, TakeNothing(w, sample) PROVE Coherent'
  <2>1. work[w].pc = "poll" /\ work[w].agent = NoAgent
    BY <1>3, <1>t DEF TakeNothing, WorkersHold
  <2>2. Moved(w, "loop", NoAgent) \/ Moved(w, "exited", NoAgent)
    BY <1>0, <1>3, <2>1, Moves DEF TakeNothing
  <2>3. executing' = executing
    BY <1>3 DEF TakeNothing, DispatchNothing
  <2>4. Calm({})
    <3>1. CASE Agents = {}
      BY <3>1 DEF Calm
    <3>2. ASSUME NEW a \in Agents PROVE Calm({})
      BY <1>3, <1>t, DispatchCalm DEF TakeNothing
    <3> QED
      BY <3>1, <3>2
  <2> QED
    BY <1>3, <2>1, <2>2, <2>3, <2>4, Idles DEF TakeNothing
<1> QED
  BY <1>1, <1>2, <1>3

(* An agent that is dispatched was held by no worker, and has no token of  *)
(* an earlier attempt.                                                     *)
LEMMA TakeAgentStep ==
  ASSUME SchedulerInv, RuntimeTypeOK, RuntimeTypeOK', Coherent, NEW w \in Workers,
         NEW sample \in Samples, NEW a \in Agents, TakeAgent(w, sample, a)
  PROVE  Coherent'
<1>0. work \in [Workers -> Worker] /\ work[w] \in Worker
  BY WorkerType
<1>1. executing[a] = 0 /\ executing' = [executing EXCEPT ![a] = 1]
  <2>1. /\ a \in ready /\ executing' = [executing EXCEPT ![a] = @ + 1]
    BY DEF TakeAgent, Dispatch, Fitting
  <2>2. state[a] \in {"ready", "waiting_resource"}
    BY <2>1 DEF SchedulerInv, ReadyConsistent, Queued
  <2>3. executing[a] = 0
    BY <2>2, RuntimeAssumption DEF SchedulerInv, SoleExecution, RuntimeAssumption
  <2> QED
    BY <2>1, <2>3
<1>2. \A v \in Workers : work[v].agent # a
  BY <1>1, RuntimeAssumption DEF Coherent, ExecutionsDisjoint, RuntimeAssumption
<1>3. Calm({})
  BY DispatchCalm DEF TakeAgent, RuntimeTypeOK, SchedulerInv
<1>4. work[w].pc = "poll" /\ Moved(w, "handed", a)
  BY <1>0 DEF TakeAgent, Moved, Worker, WorkerPC, At
<1>5. /\ UNCHANGED <<running_, cancel_requested, stopper, cancel_tokens, results, released>>
      /\ asked' = asked \ {a}
  BY DEF TakeAgent
<1>6. WorkersHold'
  BY <1>4, RuntimeAssumption DEF Coherent, WorkersHold, Moved, At, RuntimeAssumption
<1>7. OwnerInv'
  BY <1>4, <1>5 DEF Coherent, OwnerInv, Moved, At
<1>8. ExecutionsDisjoint'
  <2>1. executing \in [Agents -> Nat] /\ work' \in [Workers -> Worker]
    BY <1>4 DEF TypeOK, RuntimeTypeOK, Moved
  <2>2. \A v \in Workers \ {w} : work'[v] = work[v] /\ work'[v].agent # a
    BY <1>2, <1>4 DEF Moved
  <2>3. ASSUME NEW v \in Workers, work'[v].agent # NoAgent
        PROVE  /\ executing'[work'[v].agent] = 1
               /\ \A u \in Workers \ {v} : work'[u].agent # work'[v].agent
    <3>1. CASE v = w
      BY <1>1, <1>4, <2>1, <2>2, <3>1 DEF Moved
    <3>2. CASE v # w
      <4>1. work'[v] = work[v] /\ work[v].agent \in Agents \ {a}
        BY <2>1, <2>2, <2>3, <3>2 DEF Worker
      <4>2. executing[work[v].agent] = 1 /\ executing'[work[v].agent] = 1
        BY <1>1, <2>1, <2>3, <4>1 DEF Coherent, ExecutionsDisjoint
      <4>3. \A u \in Workers \ {v} : work'[u].agent # work'[v].agent
        BY <1>4, <2>2, <2>3, <4>1 DEF Coherent, ExecutionsDisjoint, Moved
      <4> QED
        BY <4>1, <4>2, <4>3
    <3> QED
      BY <3>1, <3>2
  <2> QED
    BY <2>3, Zenon DEF ExecutionsDisjoint
<1>9. TokensMatchExecutions'
  BY <1>4, <1>5 DEF Coherent, TokensMatchExecutions, Moved, HoldsToken
<1>10. CompletedHasResult'
  BY <1>3, <1>5 DEF Coherent, CompletedHasResult, Calm
<1>11. ReportedHasResult'
  BY <1>4, <1>5 DEF Coherent, ReportedHasResult, Moved, At
<1>12. NoSpuriousCancel'
  <2>1. cancel_tokens[a] = "none"
    BY <1>2 DEF Coherent, TokensMatchExecutions
  <2> QED
    BY <1>5, <2>1 DEF Coherent, NoSpuriousCancel
<1> QED
  BY <1>6, <1>7, <1>8, <1>9, <1>10, <1>11, <1>12 DEF Coherent

(* Erasing the result of an earlier attempt concerns an agent that is held *)
(* by this worker and hence is not completed.                              *)
LEMMA BeginStep ==
  ASSUME SchedulerInv, RuntimeTypeOK, RuntimeTypeOK', Coherent, NEW w \in Workers,
         Begin(w)
  PROVE  Coherent'
<1> DEFINE a == work[w].agent
<1>0. work \in [Workers -> Worker] /\ work[w] \in Worker
  BY WorkerType
<1>1. a \in Agents /\ work[w].pc = "kept" /\ Moved(w, "begin", a)
  BY <1>0, HeldAgent, Moves DEF Begin, Coherent, At, WorkerPC, Executing
<1>2. state[a] # "completed"
  <2>1. executing[a] = 1
    BY <1>1, RuntimeAssumption DEF Coherent, ExecutionsDisjoint, RuntimeAssumption
  <2> QED
    BY <1>1, <2>1, RuntimeAssumption DEF SchedulerInv, SoleExecution, RuntimeAssumption
<1>3. /\ UNCHANGED <<ownerVars, cancel_tokens>>
      /\ state' = state /\ executing' = executing
      /\ results' = results \ {a} /\ released' = released \ {a}
  BY DEF Begin, ownerVars, vars
<1>a. \A v \in Workers : work'[v].agent = work[v].agent
  BY <1>1 DEF Moved
<1>4. WorkersHold'
  BY <1>1, RuntimeAssumption DEF Coherent, WorkersHold, Moved, At, RuntimeAssumption
<1>5. OwnerInv'
  BY <1>1, <1>3 DEF Coherent, OwnerInv, Moved, At, ownerVars
<1>6. ExecutionsDisjoint'
  BY <1>3, <1>a DEF Coherent, ExecutionsDisjoint
<1>7. TokensMatchExecutions'
  BY <1>1, <1>3, <1>a DEF Coherent, TokensMatchExecutions, Moved, HoldsToken
<1>8. CompletedHasResult'
  BY <1>2, <1>3 DEF Coherent, CompletedHasResult
<1>9. ReportedHasResult'
  <2>1. \A v \in Workers \ {w} : work'[v] = work[v] /\ work[v].agent # a
    BY <1>1, RuntimeAssumption DEF Moved, Coherent, ExecutionsDisjoint, RuntimeAssumption
  <2> QED
    BY <1>1, <1>3, <2>1 DEF Coherent, ReportedHasResult, Moved, At
<1>10. NoSpuriousCancel'
  BY <1>3 DEF Coherent, NoSpuriousCancel, ownerVars
<1> QED
  BY <1>4, <1>5, <1>6, <1>7, <1>8, <1>9, <1>10 DEF Coherent

(* A token is entered and removed by the only worker that holds its agent. *)
LEMMA TokenSteps ==
  ASSUME RuntimeTypeOK, RuntimeTypeOK', Coherent, NEW w \in Workers,
         InsertToken(w) \/ Unwind(w)
  PROVE  Coherent'
<1> DEFINE a == work[w].agent
<1>0. work \in [Workers -> Worker] /\ work[w] \in Worker
  BY WorkerType
<1>1. /\ a \in Agents
      /\ \A v \in Workers \ {w} : work[v].agent # a
  <2>1. a \in Agents
    BY HeldAgent DEF InsertToken, Unwind, Coherent, At
  <2> QED
    BY <2>1, RuntimeAssumption DEF Coherent, ExecutionsDisjoint, RuntimeAssumption
<1>2. PICK q \in {"armed", "body", "publish"} :
        /\ Moved(w, q, a)
        /\ InsertToken(w) => /\ work[w].pc = "token" /\ Kind[a] # "handler"
                             /\ q = IF Kind[a] = "command" THEN "armed" ELSE "body"
        /\ Unwind(w) => work[w].pc = "unwind" /\ q = "publish"
  <2>1. CASE InsertToken(w)
    <3>1. work[w].pc = "token" /\ Kind[a] # "handler" /\ ~Unwind(w)
      BY <2>1 DEF InsertToken, Unwind, Coherent, WorkersHold, At
    <3>2. Moved(w, IF Kind[a] = "command" THEN "armed" ELSE "body", a)
      BY <1>0, <2>1, Moves DEF InsertToken, WorkerPC, Executing
    <3> QED
      BY <3>1, <3>2
  <2>2. CASE Unwind(w)
    <3>1. work[w].pc = "unwind" /\ ~InsertToken(w) /\ Moved(w, "publish", a)
      BY <1>0, <2>2, Moves DEF InsertToken, Unwind, At, WorkerPC, Executing
    <3> QED
      BY <3>1
  <2> QED
    BY <2>1, <2>2
<1>3. /\ UNCHANGED <<ownerVars, results, released>>
      /\ state' = state /\ executing' = executing
  BY DEF InsertToken, Unwind, UnchangedByExecution, ownerVars, vars
<1>4. cancel_tokens \in [Agents -> {"none", "clear", "set"}]
  BY DEF RuntimeTypeOK
<1>a. \A v \in Workers : work'[v].agent = work[v].agent
  BY <1>2 DEF Moved
<1>5. WorkersHold'
  BY <1>1, <1>2, RuntimeAssumption
     DEF Coherent, WorkersHold, Moved, At, RuntimeAssumption
<1>6. OwnerInv'
  BY <1>2, <1>3 DEF Coherent, OwnerInv, Moved, At, ownerVars
<1>7. ExecutionsDisjoint'
  BY <1>3, <1>a DEF Coherent, ExecutionsDisjoint
<1>8. TokensMatchExecutions'
  <2>1. CASE InsertToken(w)
    <3>1. cancel_tokens' = [cancel_tokens EXCEPT
                              ![a] = IF work[w].flag THEN "set" ELSE "clear"]
      BY <2>1 DEF InsertToken
    <3>2. cancel_tokens'[a] # "none"
      BY <1>1, <1>4, <3>1
    <3>3. work'[w].agent = a /\ work'[w].pc \in HoldsToken /\ Kind[a] # "handler"
      BY <1>2, <2>1 DEF Moved, HoldsToken
    <3>4. \A b \in Agents \ {a} : cancel_tokens'[b] = cancel_tokens[b]
      BY <1>4, <3>1
    <3> QED
      BY <1>2, <1>a, <3>2, <3>3, <3>4 DEF Coherent, TokensMatchExecutions, Moved
  <2>2. CASE Unwind(w)
    <3>1. cancel_tokens' = [cancel_tokens EXCEPT ![a] = "none"]
      BY <2>2 DEF Unwind
    <3>2. work'[w].pc \notin HoldsToken
      BY <1>2, <2>2 DEF Moved, HoldsToken
    <3> QED
      BY <1>1, <1>2, <1>4, <1>a, <3>1, <3>2
         DEF Coherent, TokensMatchExecutions, Moved
  <2> QED
    BY <2>1, <2>2
<1>9. CompletedHasResult'
  BY <1>3 DEF Coherent, CompletedHasResult
<1>10. ReportedHasResult'
  BY <1>2, <1>3 DEF Coherent, ReportedHasResult, Moved, At
<1>11. NoSpuriousCancel'
  <2>1. CASE InsertToken(w)
    <3>1. running_ => ~work[w].flag
      BY <1>2, <2>1 DEF Coherent, OwnerInv, At
    <3>2. cancel_tokens' = [cancel_tokens EXCEPT
                              ![a] = IF work[w].flag THEN "set" ELSE "clear"]
      BY <2>1 DEF InsertToken
    <3>3. \A b \in Agents : running_ /\ cancel_tokens'[b] = "set" =>
                              cancel_tokens[b] = "set"
      BY <1>1, <1>4, <3>1, <3>2
    <3> QED
      BY <1>3, <3>3 DEF Coherent, NoSpuriousCancel, ownerVars
  <2>2. CASE Unwind(w)
    <3>1. \A b \in Agents : cancel_tokens'[b] = "set" => cancel_tokens[b] = "set"
      BY <1>1, <1>4, <2>2 DEF Unwind
    <3> QED
      BY <1>3, <3>1 DEF Coherent, NoSpuriousCancel, ownerVars
  <2> QED
    BY <2>1, <2>2
<1> QED
  BY <1>5, <1>6, <1>7, <1>8, <1>9, <1>10, <1>11 DEF Coherent

(* A report ends the only execution of its agent, after its token is gone. *)
LEMMA ReportStep ==
  ASSUME SchedulerInv, RuntimeTypeOK, RuntimeTypeOK', Coherent, NEW w \in Workers,
         ReportOutcome(w)
  PROVE  Coherent'
<1> DEFINE a == work[w].agent
<1>0. work \in [Workers -> Worker] /\ work[w] \in Worker
  BY WorkerType
<1>1. /\ a \in Agents /\ work[w].pc = "report" /\ executing[a] = 1
      /\ \A v \in Workers \ {w} : work[v].agent # a
  <2>1. a \in Agents /\ work[w].pc = "report"
    BY HeldAgent DEF ReportOutcome, Coherent, At
  <2> QED
    BY <2>1, RuntimeAssumption DEF Coherent, ExecutionsDisjoint, RuntimeAssumption
<1>2. Moved(w, "loop", NoAgent)
  BY <1>0, Moves DEF ReportOutcome, WorkerPC
<1>3. UNCHANGED <<ownerVars, cancel_tokens, results, released>>
  BY DEF ReportOutcome, UnchangedByExecution, ownerVars
<1>4. /\ executing' = [executing EXCEPT ![a] = @ - 1]
      /\ Calm({a})
      /\ ~work[w].ok => (state'[a] = "completed" => state[a] = "completed")
  <2>1. TypeOK
    BY DEF RuntimeTypeOK
  <2>2. CASE work[w].ok
    BY <1>1, <2>1, <2>2, CompleteCalm DEF ReportOutcome
  <2>3. CASE ~work[w].ok
    BY <1>1, <2>1, <2>3, FailCalm DEF ReportOutcome
  <2> QED
    BY <2>2, <2>3
<1>5. \A v \in Workers : work'[v].agent # NoAgent =>
                          /\ v # w /\ work'[v] = work[v]
                          /\ work[v].agent \in Agents \ {a}
  BY <1>0, <1>1, <1>2 DEF Moved, Worker
<1>6. WorkersHold'
  BY <1>2, <1>5 DEF Coherent, WorkersHold, Moved, At
<1>7. OwnerInv'
  BY <1>1, <1>2, <1>3 DEF Coherent, OwnerInv, Moved, At, ownerVars
<1>8. ExecutionsDisjoint'
  <2>1. executing \in [Agents -> Nat]
    BY DEF RuntimeTypeOK, TypeOK
  <2>2. \A b \in Agents \ {a} : executing'[b] = executing[b]
    BY <1>4, <2>1
  <2> QED
    BY <1>5, <2>2 DEF Coherent, ExecutionsDisjoint
<1>9. TokensMatchExecutions'
  <2>1. "report" \notin HoldsToken /\ "loop" \notin HoldsToken
    BY DEF HoldsToken
  <2> QED
    BY <1>1, <1>2, <1>3, <2>1, RuntimeAssumption
       DEF Coherent, TokensMatchExecutions, Moved, RuntimeAssumption
<1>10. CompletedHasResult'
  <2>1. work[w].ok /\ Kind[a] = "command" => a \in results \cup released
    BY <1>1 DEF Coherent, ReportedHasResult, At
  <2> QED
    BY <1>1, <1>3, <1>4, <2>1 DEF Coherent, CompletedHasResult, Calm
<1>11. ReportedHasResult'
  BY <1>2, <1>3 DEF Coherent, ReportedHasResult, Moved, At
<1>12. NoSpuriousCancel'
  BY <1>3 DEF Coherent, NoSpuriousCancel, ownerVars
<1> QED
  BY <1>6, <1>7, <1>8, <1>9, <1>10, <1>11, <1>12 DEF Coherent

-----------------------------------------------------------------------------
(* The owner and the clients *)

(* start finds every worker of an earlier run gone, stop only raises flags. *)
LEMMA OwnerSteps ==
  ASSUME RuntimeTypeOK, RuntimeTypeOK', Coherent,
         Start \/ StopRunning \/ OwnerStep
  PROVE  Coherent'
<1>0. cancel_tokens \in [Agents -> {"none", "clear", "set"}]
  BY DEF RuntimeTypeOK
<1>s. UNCHANGED <<state, executing, results, released, asked>>
  BY DEF Start, StopRunning, OwnerStep, StopFlag, StopTokens, StopJoined, vars
<1>1. CASE Start
  <2>1. \A a \in Agents : cancel_tokens[a] = "none"
    BY <1>0, <1>1 DEF Start, Coherent, OwnerInv, TokensMatchExecutions, At, HoldsToken
  <2>2. /\ cancel_tokens' = cancel_tokens /\ running_' = TRUE
        /\ cancel_requested' = FALSE /\ stopper' = "idle"
    BY <1>1 DEF Start
  <2>3. \A w \in Workers : work'[w].pc = "loop" /\ work'[w].agent = NoAgent
    BY <1>1 DEF Start, Idler
  <2>4. WorkersHold' /\ OwnerInv' /\ ExecutionsDisjoint' /\ ReportedHasResult'
    BY <2>2, <2>3 DEF WorkersHold, OwnerInv, ExecutionsDisjoint,
                      ReportedHasResult, At
  <2>5. TokensMatchExecutions' /\ NoSpuriousCancel'
    BY <2>1, <2>2, <2>3 DEF TokensMatchExecutions, NoSpuriousCancel, HoldsToken
  <2>6. CompletedHasResult'
    BY <1>s DEF Coherent, CompletedHasResult
  <2> QED
    BY <2>4, <2>5, <2>6 DEF Coherent
<1>2. CASE StopRunning \/ OwnerStep
  <2>1. /\ work' = work
        /\ \A a \in Agents : cancel_tokens'[a] = "none" <=> cancel_tokens[a] = "none"
        /\ running_' => running_ /\ cancel_tokens' = cancel_tokens
    BY <1>0, <1>2 DEF StopRunning, OwnerStep, StopFlag, StopTokens, StopJoined,
                      Coherent, OwnerInv
  <2>2. OwnerInv'
    BY <1>2, <2>1 DEF StopRunning, OwnerStep, StopFlag, StopTokens, StopJoined,
                      Coherent, OwnerInv, At
  <2>3. WorkersHold' /\ ExecutionsDisjoint' /\ TokensMatchExecutions'
    BY <1>s, <2>1 DEF Coherent, WorkersHold, ExecutionsDisjoint,
                      TokensMatchExecutions, At
  <2>4. CompletedHasResult' /\ ReportedHasResult' /\ NoSpuriousCancel'
    BY <1>s, <2>1 DEF Coherent, CompletedHasResult, ReportedHasResult,
                      NoSpuriousCancel, At
  <2> QED
    BY <2>2, <2>3, <2>4 DEF Coherent
<1> QED
  BY <1>1, <1>2

(* A client's cancel sets a token only of the agent it asks for, and its   *)
(* other calls set none.                                                   *)
LEMMA ClientSteps ==
  ASSUME SchedulerInv, RuntimeTypeOK, RuntimeTypeOK', Coherent,
         \/ ClientSubmit \/ CancelScheduler
         \/ \E a \in Agents : CancelToken(a) \/ ReleaseResult(a)
  PROVE  Coherent'
<1>t. TypeOK /\ cancel_tokens \in [Agents -> {"none", "clear", "set"}]
  BY DEF RuntimeTypeOK
<1>1. /\ UNCHANGED <<running_, cancel_requested, stopper, work>>
      /\ results \cup released = results' \cup released'
      /\ \A a \in Agents : cancel_tokens'[a] = "none" <=> cancel_tokens[a] = "none"
  BY <1>t DEF ClientSubmit, CancelScheduler, CancelToken, ReleaseResult, runtimeVars,
              RuntimeTypeOK
<1>2. executing' = executing /\ Calm({})
  <2>1. CASE ClientSubmit
    BY <1>t, <2>1, SubmitCalm DEF ClientSubmit
  <2>2. CASE CancelScheduler
    <3>1. canceller \in Agents
      BY <2>2 DEF CancelScheduler, RuntimeTypeOK
    <3> QED
      BY <1>t, <2>2, <3>1, StartAndCancelCalm DEF CancelScheduler, Calm, vars
  <2>3. CASE \E a \in Agents : CancelToken(a) \/ ReleaseResult(a)
    BY <2>3 DEF CancelToken, ReleaseResult, Calm, vars
  <2> QED
    BY <2>1, <2>2, <2>3
<1>3. WorkersHold' /\ OwnerInv' /\ ExecutionsDisjoint' /\ TokensMatchExecutions'
  BY <1>1, <1>2 DEF Coherent, WorkersHold, OwnerInv, ExecutionsDisjoint,
                    TokensMatchExecutions, At
<1>4. CompletedHasResult' /\ ReportedHasResult'
  BY <1>1, <1>2 DEF Coherent, CompletedHasResult, ReportedHasResult, Calm, At
<1>5. NoSpuriousCancel'
  <2>1. CASE CancelScheduler \/ ClientSubmit \/ \E a \in Agents : ReleaseResult(a)
    <3>1. UNCHANGED <<running_, cancel_tokens, asked>>
      BY <2>1 DEF CancelScheduler, ClientSubmit, ReleaseResult, runtimeVars
    <3> QED
      BY <3>1 DEF Coherent, NoSpuriousCancel
  <2>2. ASSUME NEW a \in Agents, CancelToken(a) PROVE NoSpuriousCancel'
    <3>1. /\ running_' = running_ /\ asked' = asked \cup {a}
          /\ \A b \in Agents \ {a} : cancel_tokens'[b] = cancel_tokens[b]
      BY <1>t, <2>2 DEF CancelToken
    <3> QED
      BY <3>1 DEF Coherent, NoSpuriousCancel
  <2> QED
    BY <2>1, <2>2
<1> QED
  BY <1>3, <1>4, <1>5 DEF Coherent

-----------------------------------------------------------------------------
(* Types *)

(* Every step keeps the types of the runtime's own variables. *)
LEMMA RuntimeTypeStep ==
  ASSUME RuntimeTypeOK, WorkersHold, TypeOK', [RuntimeNext]_allVars
  PROVE  RuntimeTypeOK'
<1> USE DEF RuntimeTypeOK
<1>1. CASE Start
  <2>1. starts' \in 0 .. MaxStarts
    BY <1>1, RuntimeAssumption DEF Start, RuntimeAssumption
  <2>2. Idler("loop") \in Worker
    BY DEF Idler, Worker, WorkerPC
  <2>3. work' \in [Workers -> Worker]
    BY <1>1, <2>2 DEF Start
  <2> QED
    BY <1>1, <2>1, <2>3 DEF Start, Worker
<1>2. CASE StopRunning \/ OwnerStep
  BY <1>2 DEF StopRunning, OwnerStep, StopFlag, StopTokens, StopJoined
<1>3. ASSUME NEW w \in Workers,
             WorkerStep(w) \/ \E ok \in BOOLEAN : EndBody(w, ok)
      PROVE  RuntimeTypeOK'
  <2>0. work \in [Workers -> Worker] /\ work[w] \in Worker
    BY WorkerType
  <2>1. work' \in [Workers -> Worker]
    <3>1. CASE \E q \in WorkerPC : Goto(w, q)
      BY <2>0, <3>1, Moves DEF Moved
    <3>2. CASE \E q \in WorkerPC, ok \in BOOLEAN : GotoOutcome(w, q, ok)
      BY <2>0, <3>2, Moves DEF Moved
    <3>3. CASE \E q \in WorkerPC : work' = [work EXCEPT ![w] = Idler(q)]
      BY <2>0, <3>3, Moves DEF Moved
    <3>4. CASE \E a \in Agents : work' = [work EXCEPT ![w].pc = "handed", ![w].agent = a]
      <4>1. PICK a \in Agents : work' = [work EXCEPT ![w].pc = "handed", ![w].agent = a]
        BY <3>4
      <4>2. "handed" \in WorkerPC
        BY DEF WorkerPC
      <4> HIDE DEF RuntimeTypeOK
      <4> QED
        BY <2>0, <4>1, <4>2 DEF Worker
    <3>5. CASE work' = [work EXCEPT ![w].pc = "token", ![w].flag = cancel_requested]
      <4>1. cancel_requested \in BOOLEAN /\ "token" \in WorkerPC
        BY DEF WorkerPC, Executing
      <4> HIDE DEF RuntimeTypeOK
      <4> QED
        BY <2>0, <3>5, <4>1 DEF Worker
    <3>6. CASE work' = [work EXCEPT ![w].pc = "body", ![w].started = TRUE]
      BY <2>0, <3>6 DEF Worker, WorkerPC, Executing
    <3>7. /\ {"exited", "loop", "poll", "kept", "begin", "marked", "armed",
              "starting", "body", "unwind", "publish", "report"} \subseteq WorkerPC
          /\ work[w].ok \in BOOLEAN
      BY <2>0 DEF WorkerPC, Executing, Worker
    <3>8. CASE LoopCheck(w) \/ Abandon(w) \/ Keep(w) \/ Begin(w) \/ SetupFails(w)
               \/ MakeToken(w) \/ InsertToken(w) \/ CheckToken(w) \/ StartFails(w)
      BY <3>1, <3>2, <3>3, <3>5, <3>7, <3>8, Zenon
         DEF LoopCheck, Abandon, Keep, Begin, SetupFails, MakeToken, InsertToken,
             CheckToken, StartFails
    <3>9. CASE MarkInvocation(w) \/ MarkHandler(w) \/ StartProcess(w) \/ Unwind(w) \/ Publish(w)
               \/ ReportOutcome(w) \/ \E ok \in BOOLEAN : EndBody(w, ok)
      BY <3>1, <3>2, <3>3, <3>6, <3>7, <3>9
         DEF MarkInvocation, MarkHandler, MarkStarted, StartProcess, Unwind, Publish, ReportOutcome, EndBody
    <3>10. CASE \/ \E sample \in Samples, a \in Agents : TakeAgent(w, sample, a)
                \/ \E sample \in Samples : TakeNothing(w, sample)
      BY <3>1, <3>4, <3>7, <3>10 DEF TakeAgent, TakeNothing
    <3> QED
      BY <1>3, <3>8, <3>9, <3>10 DEF WorkerStep
  <2>2. /\ UNCHANGED <<running_, cancel_requested, canceller, stopper, starts,
                       acknowledged>>
        /\ released' \subseteq released /\ asked' \subseteq asked
    BY <1>3 DEF WorkerStep, LoopCheck, TakeAgent, TakeNothing, Abandon, Keep, Begin,
                SetupFails, MarkInvocation, MarkHandler, MarkStarted, MakeToken, InsertToken, CheckToken,
                StartFails, StartProcess, EndBody, Unwind, Publish, ReportOutcome,
                UnchangedByExecution
  <2>3. cancel_tokens' \in [Agents -> {"none", "clear", "set"}]
    BY <1>3 DEF WorkerStep, LoopCheck, TakeAgent, TakeNothing, Abandon, Keep, Begin,
                SetupFails, MarkInvocation, MarkHandler, MarkStarted, MakeToken, InsertToken, CheckToken,
                StartFails, StartProcess, EndBody, Unwind, Publish, ReportOutcome
  <2>4. results' \subseteq Agents
    <3>1. CASE Publish(w)
      <4>1. work[w].agent \in Agents
        BY <3>1, HeldAgent DEF Publish, At
      <4> QED
        BY <3>1, <4>1 DEF Publish
    <3>2. CASE ~Publish(w)
      BY <1>3, <3>2
         DEF WorkerStep, LoopCheck, TakeAgent, TakeNothing, Abandon, Keep, Begin,
             SetupFails, MarkInvocation, MarkHandler, MarkStarted, MakeToken, InsertToken, CheckToken,
             StartFails, StartProcess, EndBody, Unwind, ReportOutcome
    <3> QED
      BY <3>1, <3>2
  <2> QED
    BY <2>1, <2>2, <2>3, <2>4 DEF Worker
<1>4. CASE ClientSubmit
  BY <1>4 DEF ClientSubmit, runtimeVars
<1>5. CASE \E a \in Agents : CancelToken(a) \/ ReleaseResult(a)
  BY <1>5 DEF CancelToken, ReleaseResult
<1>6. CASE CancelScheduler
  BY <1>6 DEF CancelScheduler
<1>7. CASE UNCHANGED allVars
  BY <1>7 DEF allVars, runtimeVars
<1> QED
  BY <1>1, <1>2, <1>3, <1>4, <1>5, <1>6, <1>7 DEF RuntimeNext

-----------------------------------------------------------------------------
(* Theorems *)

(* The initial state of the runtime satisfies both invariants. *)
LEMMA RuntimeInvInit == RuntimeInit => RuntimeInv /\ SchedulerInv
<1> SUFFICES ASSUME RuntimeInit PROVE RuntimeInv /\ SchedulerInv
  OBVIOUS
<1>1. SchedulerInv
  BY SchedulerInvInit DEF RuntimeInit
<1>2. \A w \in Workers : work[w].pc = "exited" /\ work[w].agent = NoAgent
  BY DEF RuntimeInit, Idler
<1>3. RuntimeTypeOK
  <2>1. Idler("exited") \in Worker
    BY DEF Idler, Worker, WorkerPC
  <2>2. work \in [Workers -> Worker]
    BY <2>1 DEF RuntimeInit
  <2>3. 0 \in 0 .. MaxStarts
    BY RuntimeAssumption DEF RuntimeAssumption
  <2> QED
    BY <1>1, <2>2, <2>3 DEF RuntimeInit, RuntimeTypeOK, Worker, SchedulerInv
<1>4. \A a \in Agents : state[a] = "absent"
  BY DEF RuntimeInit, Init
<1>5. WorkersHold /\ OwnerInv /\ ExecutionsDisjoint /\ ReportedHasResult
  BY <1>2 DEF RuntimeInit, WorkersHold, OwnerInv, ExecutionsDisjoint,
              ReportedHasResult, At
<1>6. TokensMatchExecutions /\ CompletedHasResult /\ NoSpuriousCancel
  BY <1>2, <1>4 DEF RuntimeInit, TokensMatchExecutions, CompletedHasResult,
                    NoSpuriousCancel, HoldsToken
<1> QED
  BY <1>1, <1>3, <1>5, <1>6 DEF RuntimeInv

(* Every step of the runtime preserves both. *)
LEMMA RuntimeInvStep ==
  ASSUME RuntimeInv, SchedulerInv, [RuntimeNext]_allVars
  PROVE  RuntimeInv' /\ SchedulerInv' /\ [Next]_vars
<1>0. RuntimeTypeOK /\ Coherent /\ WorkersHold
  BY DEF RuntimeInv, Coherent
<1>1. [Next]_vars
  BY <1>0, RuntimeStepSchedules
<1>2. SchedulerInv'
  BY <1>1, TypeStep, ReadyStep, FlagsStep, SoleStep, ExactStep, DependencyStep
     DEF SchedulerInv
<1>3. RuntimeTypeOK'
  BY <1>0, <1>2, RuntimeTypeStep DEF SchedulerInv
<1>4. Coherent'
  <2>1. CASE Start \/ StopRunning \/ OwnerStep
    BY <1>0, <1>3, <2>1, OwnerSteps
  <2>2. ASSUME NEW w \in Workers, WorkerStep(w) PROVE Coherent'
    <3>1. CASE \E sample \in Samples, a \in Agents : TakeAgent(w, sample, a)
      BY <1>0, <1>3, <3>1, TakeAgentStep
    <3>2. CASE Begin(w)
      BY <1>0, <1>3, <3>2, BeginStep
    <3>3. CASE InsertToken(w) \/ Unwind(w)
      BY <1>0, <1>3, <3>3, TokenSteps
    <3>4. CASE ReportOutcome(w)
      BY <1>0, <1>3, <3>4, ReportStep
    <3>5. CASE \/ LoopCheck(w) \/ Abandon(w)
               \/ \E sample \in Samples : TakeNothing(w, sample)
      BY <1>0, <1>3, <3>5, IdleSteps
    <3>6. CASE \/ Keep(w) \/ SetupFails(w) \/ MarkInvocation(w) \/ MarkHandler(w) \/ MakeToken(w)
               \/ CheckToken(w) \/ StartFails(w) \/ StartProcess(w) \/ Publish(w)
      BY <1>0, <1>3, <3>6, AdvanceSteps
    <3> QED
      BY <2>2, <3>1, <3>2, <3>3, <3>4, <3>5, <3>6 DEF WorkerStep
  <2>3. CASE \E w \in Workers, ok \in BOOLEAN : EndBody(w, ok)
    BY <1>0, <1>3, <2>3, AdvanceSteps
  <2>4. CASE \/ ClientSubmit \/ CancelScheduler
             \/ \E a \in Agents : CancelToken(a) \/ ReleaseResult(a)
    BY <1>0, <1>3, <2>4, ClientSteps
  <2>5. CASE UNCHANGED allVars
    BY <1>0, <2>5 DEF allVars, vars, runtimeVars, Coherent, WorkersHold, OwnerInv,
                      ExecutionsDisjoint, TokensMatchExecutions,
                      CompletedHasResult, ReportedHasResult, NoSpuriousCancel, At
  <2> QED
    BY <2>1, <2>2, <2>3, <2>4, <2>5 DEF RuntimeNext
<1> QED
  BY <1>1, <1>2, <1>3, <1>4 DEF RuntimeInv, Coherent

(* The invariants of the runtime and of the scheduler hold together in     *)
(* every reachable state of the runtime.                                   *)
THEOREM RuntimeInvariance == RuntimeSpec => [](RuntimeInv /\ SchedulerInv)
<1>1. RuntimeInv /\ SchedulerInv /\ [RuntimeNext]_allVars =>
        (RuntimeInv /\ SchedulerInv)'
  BY RuntimeInvStep
<1> QED
  BY <1>1, RuntimeInvInit, PTL DEF RuntimeSpec

(* The runtime implements the scheduler's specification: its threads call  *)
(* the scheduler only as AgentScheduler assumes (a start or a report comes *)
(* from a worker the agent was handed to), so what is proved of the        *)
(* scheduler alone holds of the scheduler inside the runtime.              *)
LEMMA RuntimeRefinesScheduler == RuntimeSpec => Spec
<1>1. RuntimeInit => Init
  BY DEF RuntimeInit
<1>2. RuntimeInv /\ SchedulerInv /\ [RuntimeNext]_allVars => [Next]_vars
  BY RuntimeInvStep
<1> QED
  BY <1>1, <1>2, RuntimeInvariance, PTL DEF RuntimeSpec, Spec

(* The runtime implements the graph of tasks: with any number of workers,  *)
(* clients and executions, no task is started early or held twice, and     *)
(* what is cancelled along with another task depends on it.                *)
THEOREM RuntimeImplementsTaskGraph == RuntimeSpec => ImplementsTaskGraph
<1>1. Spec => ImplementsTaskGraph
  BY RuntimeAssumption, SchedulerImplementsTaskGraph
<1> QED
  BY <1>1, RuntimeRefinesScheduler, PTL

(* The variables of the runtime keep their types. *)
THEOREM RuntimeTypeCorrect == RuntimeSpec => []RuntimeTypeOK
<1>1. RuntimeInv => RuntimeTypeOK
  BY DEF RuntimeInv
<1> QED
  BY <1>1, RuntimeInvariance, PTL

(* However many workers there are, no two ever hold the same agent. *)
THEOREM ExecutionsAreDisjoint == RuntimeSpec => []ExecutionsDisjoint
<1>1. RuntimeInv => ExecutionsDisjoint
  BY DEF RuntimeInv
<1> QED
  BY <1>1, RuntimeInvariance, PTL

(* The token map and the executions under way always agree. *)
THEOREM TokensAreExact == RuntimeSpec => []TokensMatchExecutions
<1>1. RuntimeInv => TokensMatchExecutions
  BY DEF RuntimeInv
<1> QED
  BY <1>1, RuntimeInvariance, PTL

(* The result of a completed command is in the store until released. *)
THEOREM CompletedKeepsResult == RuntimeSpec => []CompletedHasResult
<1>1. RuntimeInv => CompletedHasResult
  BY DEF RuntimeInv
<1> QED
  BY <1>1, RuntimeInvariance, PTL

(* While the runtime runs, only a cancel called since the attempt began    *)
(* sets an agent's token.                                                  *)
THEOREM CancelsAreRequested == RuntimeSpec => []NoSpuriousCancel
<1>1. RuntimeInv => NoSpuriousCancel
  BY DEF RuntimeInv
<1> QED
  BY <1>1, RuntimeInvariance, PTL

=============================================================================
