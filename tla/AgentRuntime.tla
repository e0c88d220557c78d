---------------------------- MODULE AgentRuntime ----------------------------
(***************************************************************************)
(* The runtime of agent-runtime (src/runtime.cpp) around the scheduler of  *)
(* AgentScheduler: worker threads that take agents, execute them as a      *)
(* process, as an invocation of the model/tool backend or as a registered  *)
(* handler, and report; cancellation, which sets a token and then tells    *)
(* the scheduler; the result store; start and stop.                        *)
(*                                                                         *)
(* A step is what a thread does between two points where another thread    *)
(* can get in: one locked operation of the scheduler, of the token map or  *)
(* of the result store, or one access to an atomic flag.                   *)
(***************************************************************************)
EXTENDS AgentScheduler

CONSTANTS
  Workers,    \* worker threads (config_.worker_count of them)
  Kind,       \* Kind[a]: how the agent is executed
  NoAgent,    \* a worker or a canceller without an agent
  MaxStarts   \* bound: number of calls of start

ASSUME RuntimeAssumption ==
  /\ Kind \in [Agents -> {"command", "invocation", "handler"}]
  /\ NoAgent \notin Agents
  /\ MaxStarts \in Nat
  /\ Blockers = {}   \* nothing in the runtime calls mark_blocked or wake

VARIABLES
  running_,           \* running_
  cancel_requested,   \* cancel_requested_
  cancel_tokens,      \* cancel_tokens_[a]: "none", "clear" or "set"
  results,            \* agents with an entry in result_store_
  work,               \* work[w]: where worker w is in worker_loop
  canceller,          \* the agent a cancel call has set the token of
  stopper,            \* where the caller of stop is
  starts,             \* calls of start so far
  acknowledged,       \* agents whose cancel was answered with success
  asked,              \* agents a cancel was called for since last taken
  released            \* agents whose result a client released

threadVars == <<work, canceller, stopper, starts>>
runtimeVars == <<running_, cancel_requested, cancel_tokens, results, work,
                 canceller, stopper, starts, acknowledged, asked, released>>
allVars == <<vars, runtimeVars>>

-----------------------------------------------------------------------------
(* Workers *)

Executing == {"begin", "marked", "token", "armed", "starting", "body",
              "unwind", "publish", "report"}
WorkerPC == {"exited", "loop", "poll", "handed", "kept"} \cup Executing

Idler(pc) == [pc |-> pc, agent |-> NoAgent, flag |-> FALSE, ok |-> FALSE,
              started |-> FALSE]

At(w, pc) == work[w].pc = pc
Goto(w, pc) == work' = [work EXCEPT ![w].pc = pc]
GotoOutcome(w, pc, ok) == work' = [work EXCEPT ![w].pc = pc, ![w].ok = ok]

(* active_executions_ *)
ActiveExecutions == {w \in Workers : work[w].pc \in Executing}

(* The types of the runtime's variables and of the scheduler's. *)
RuntimeTypeOK ==
  /\ TypeOK
  /\ running_ \in BOOLEAN
  /\ cancel_requested \in BOOLEAN
  /\ cancel_tokens \in [Agents -> {"none", "clear", "set"}]
  /\ results \subseteq Agents
  /\ work \in [Workers -> [pc : WorkerPC, agent : Agents \cup {NoAgent},
                           flag : BOOLEAN, ok : BOOLEAN, started : BOOLEAN]]
  /\ canceller \in Agents \cup {NoAgent}
  /\ stopper \in {"idle", "flag", "tokens", "join"}
  /\ starts \in 0 .. MaxStarts
  /\ acknowledged \subseteq Agents
  /\ asked \subseteq Agents
  /\ released \subseteq Agents

RuntimeInit ==
  /\ Init
  /\ running_ = FALSE
  /\ cancel_requested = FALSE
  /\ cancel_tokens = [a \in Agents |-> "none"]
  /\ results = {}
  /\ work = [w \in Workers |-> Idler("exited")]
  /\ canceller = NoAgent
  /\ stopper = "idle"
  /\ starts = 0
  /\ acknowledged = {}
  /\ asked = {}
  /\ released = {}

-----------------------------------------------------------------------------
(* start and stop, called by the thread that owns the runtime *)

StartWithoutReset ==
  /\ starts < MaxStarts
  /\ ~running_
  /\ stopper = "idle"
  /\ running_' = TRUE
  /\ work' = [w \in Workers |-> Idler("loop")]
  /\ starts' = starts + 1
  /\ UNCHANGED <<vars, cancel_requested, cancel_tokens, results, canceller,
                 stopper, acknowledged, asked, released>>

(* start: the workers run from the moment the flags are set. *)
Start ==
  /\ starts < MaxStarts
  /\ ~running_
  /\ stopper = "idle"
  /\ running_' = TRUE
  /\ cancel_requested' = FALSE
  /\ work' = [w \in Workers |-> Idler("loop")]
  /\ starts' = starts + 1
  /\ UNCHANGED <<vars, cancel_tokens, results, canceller, stopper,
                 acknowledged, asked, released>>

StopWithoutExchange ==
  /\ running_
  /\ stopper = "idle"
  /\ stopper' = "flag"
  /\ UNCHANGED <<vars, running_, cancel_requested, cancel_tokens, results,
                 work, canceller, starts, acknowledged, asked, released>>

(* stop, in the four steps between which other threads run. *)
StopRunning ==
  /\ running_
  /\ stopper = "idle"
  /\ running_' = FALSE
  /\ stopper' = "flag"
  /\ UNCHANGED <<vars, cancel_requested, cancel_tokens, results, work,
                 canceller, starts, acknowledged, asked, released>>

StopFlag ==
  /\ stopper = "flag"
  /\ cancel_requested' = TRUE
  /\ stopper' = "tokens"
  /\ UNCHANGED <<vars, running_, cancel_tokens, results, work, canceller,
                 starts, acknowledged, asked, released>>

StopTokens ==
  /\ stopper = "tokens"
  /\ cancel_tokens' = [a \in Agents |-> IF cancel_tokens[a] = "none" THEN "none"
                                                                    ELSE "set"]
  /\ stopper' = "join"
  /\ UNCHANGED <<vars, running_, cancel_requested, results, work, canceller,
                 starts, acknowledged, asked, released>>

StopJoined ==
  /\ stopper = "join"
  /\ \A w \in Workers : At(w, "exited")
  /\ stopper' = "idle"
  /\ UNCHANGED <<vars, running_, cancel_requested, cancel_tokens, results,
                 work, canceller, starts, acknowledged, asked, released>>

-----------------------------------------------------------------------------
(* worker_loop up to the execution *)

LoopCheck(w) ==
  /\ At(w, "loop")
  /\ Goto(w, IF running_ THEN "poll" ELSE "exited")
  /\ UNCHANGED <<vars, running_, cancel_requested, cancel_tokens, results,
                 canceller, stopper, starts, acknowledged, asked, released>>

TakeAgent(w, sample, a) ==
  /\ At(w, "poll")
  /\ Dispatch(sample, a)
  /\ work' = [work EXCEPT ![w].pc = "handed", ![w].agent = a]
  /\ asked' = asked \ {a}
  /\ UNCHANGED <<running_, cancel_requested, cancel_tokens, results,
                 canceller, stopper, starts, acknowledged, released>>

TakeNothing(w, sample) ==
  /\ At(w, "poll")
  /\ DispatchNothing(sample)
  /\ Goto(w, IF running_ THEN "loop" ELSE "exited")
  /\ UNCHANGED <<running_, cancel_requested, cancel_tokens, results,
                 canceller, stopper, starts, acknowledged, asked, released>>

(* A worker that was handed an agent and sees that the runtime stops       *)
(* leaves without the agent.                                               *)
Abandon(w) ==
  /\ At(w, "handed")
  /\ ~running_
  /\ work' = [work EXCEPT ![w] = Idler("exited")]
  /\ UNCHANGED <<vars, running_, cancel_requested, cancel_tokens, results,
                 canceller, stopper, starts, acknowledged, asked, released>>

Keep(w) ==
  /\ At(w, "handed")
  /\ running_
  /\ Goto(w, "kept")
  /\ UNCHANGED <<vars, running_, cancel_requested, cancel_tokens, results,
                 canceller, stopper, starts, acknowledged, asked, released>>

(* The execution is counted and the result of an earlier attempt erased. *)
Begin(w) ==
  LET a == work[w].agent
  IN /\ At(w, "kept")
     /\ Goto(w, "begin")
     /\ results' = results \ {a}
     /\ released' = released \ {a}
     /\ UNCHANGED <<vars, running_, cancel_requested, cancel_tokens,
                    canceller, stopper, starts, acknowledged, asked>>

-----------------------------------------------------------------------------
(* execute and execute_invocation *)

UnchangedByExecution ==
  UNCHANGED <<running_, cancel_requested, canceller, stopper, starts,
              acknowledged, asked, released>>

(* The output region cannot be created; no backend socket is configured;   *)
(* no handler is registered.                                               *)
SetupFails(w) ==
  /\ At(w, "begin")
  /\ GotoOutcome(w, "report", FALSE)
  /\ UNCHANGED <<vars, cancel_tokens, results>>
  /\ UnchangedByExecution

(* An invocation is marked running before it has a token, a handler has no *)
(* token at all.                                                           *)
MarkStarted(w, pc) ==
  LET a == work[w].agent
  IN /\ \/ MarkRunning(a) /\ Goto(w, pc)
        \/ /\ ~CanEnter(a, "running")
           /\ GotoOutcome(w, "report", FALSE)
           /\ UNCHANGED vars
     /\ UNCHANGED <<cancel_tokens, results>>
     /\ UnchangedByExecution

MarkInvocation(w) ==
  /\ At(w, "begin")
  /\ Kind[work[w].agent] = "invocation"
  /\ MarkStarted(w, "marked")

MarkHandler(w) ==
  /\ At(w, "begin")
  /\ Kind[work[w].agent] = "handler"
  /\ MarkStarted(w, "body")

(* A token is made with the value of cancel_requested_ and then entered in *)
(* the map: before the start of a command, after that of an invocation.    *)
MakeToken(w) ==
  /\ \/ At(w, "begin") /\ Kind[work[w].agent] = "command"
     \/ At(w, "marked")
  /\ work' = [work EXCEPT ![w].pc = "token", ![w].flag = cancel_requested]
  /\ UNCHANGED <<vars, cancel_tokens, results>>
  /\ UnchangedByExecution

InsertToken(w) ==
  LET a == work[w].agent
  IN /\ At(w, "token")
     /\ cancel_tokens' = [cancel_tokens EXCEPT
                            ![a] = IF work[w].flag THEN "set" ELSE "clear"]
     /\ Goto(w, IF Kind[a] = "command" THEN "armed" ELSE "body")
     /\ UNCHANGED <<vars, results>>
     /\ UnchangedByExecution

(* ProcessExecutor::run looks at the token before it forks. *)
CheckToken(w) ==
  /\ At(w, "armed")
  /\ \/ cancel_tokens[work[w].agent] = "clear" /\ Goto(w, "starting")
     \/ cancel_tokens[work[w].agent] = "set" /\ GotoOutcome(w, "unwind", FALSE)
  /\ UNCHANGED <<vars, cancel_tokens, results>>
  /\ UnchangedByExecution

(* The cgroup, the barrier, the pipe, the fork or the attachment fails. *)
StartFails(w) ==
  /\ work[w].pc \in {"armed", "starting"}
  /\ GotoOutcome(w, "unwind", FALSE)
  /\ UNCHANGED <<vars, cancel_tokens, results>>
  /\ UnchangedByExecution

(* The start callback: mark_running decides whether the child may exec;    *)
(* the message that lets it may still fail.                                *)
StartProcess(w) ==
  LET a == work[w].agent
  IN /\ At(w, "starting")
     /\ \/ /\ MarkRunning(a)
           /\ \/ work' = [work EXCEPT ![w].pc = "body", ![w].started = TRUE]
              \/ GotoOutcome(w, "unwind", FALSE)
        \/ /\ ~CanEnter(a, "running")
           /\ GotoOutcome(w, "unwind", FALSE)
           /\ UNCHANGED vars
     /\ UNCHANGED <<cancel_tokens, results>>
     /\ UnchangedByExecution

(* The process, the call or the handler ends: by itself, at its deadline,  *)
(* or because its token is set.                                            *)
EndBody(w, ok) ==
  /\ At(w, "body")
  /\ GotoOutcome(w, "unwind", ok)
  /\ UNCHANGED <<vars, cancel_tokens, results>>
  /\ UnchangedByExecution

UnwindKeepingToken(w) ==
  /\ At(w, "unwind")
  /\ Goto(w, "publish")
  /\ UNCHANGED <<vars, cancel_tokens, results>>
  /\ UnchangedByExecution

(* remove_cancel_token *)
Unwind(w) ==
  /\ At(w, "unwind")
  /\ cancel_tokens' = [cancel_tokens EXCEPT ![work[w].agent] = "none"]
  /\ Goto(w, "publish")
  /\ UNCHANGED <<vars, results>>
  /\ UnchangedByExecution

(* The output is published.  A command that started always publishes (the  *)
(* output region is configured unless max_agent_output_bytes is 0), an     *)
(* invocation that succeeded and a handler may; a publication that fails   *)
(* makes the execution fail.                                               *)
MayPublish(w) ==
  CASE Kind[work[w].agent] = "command"    -> work[w].started
    [] Kind[work[w].agent] = "invocation" -> work[w].ok
    [] OTHER                              -> TRUE

PublishIgnoringFailure(w) ==
  /\ At(w, "publish")
  /\ \/ MayPublish(w) /\ results' = results \cup {work[w].agent}
     \/ UNCHANGED results
  /\ GotoOutcome(w, "report", work[w].ok)
  /\ UNCHANGED <<vars, cancel_tokens>>
  /\ UnchangedByExecution

Publish(w) ==
  LET a == work[w].agent
  IN /\ At(w, "publish")
     /\ \/ /\ MayPublish(w)
           /\ results' = results \cup {a}
           /\ GotoOutcome(w, "report", work[w].ok)
        \/ /\ Kind[a] # "command"
           /\ UNCHANGED results
           /\ GotoOutcome(w, "report", work[w].ok)
        \/ /\ UNCHANGED results
           /\ GotoOutcome(w, "report", FALSE)
     /\ UNCHANGED <<vars, cancel_tokens>>
     /\ UnchangedByExecution

ReportOutcome(w) ==
  LET a == work[w].agent
  IN /\ At(w, "report")
     /\ IF work[w].ok THEN Complete(a) ELSE Fail(a)
     /\ work' = [work EXCEPT ![w] = Idler("loop")]
     /\ UNCHANGED <<cancel_tokens, results>>
     /\ UnchangedByExecution

-----------------------------------------------------------------------------
(* Clients, through the control service *)

ClientSubmit ==
  /\ Submit \/ \E p, a \in Agents : Spawn(p, a)
  /\ UNCHANGED runtimeVars

(* cancel: first the token, if the agent has one, ... *)
CancelToken(a) ==
  /\ canceller = NoAgent
  /\ a \in Nodes
  /\ cancel_tokens' = [cancel_tokens EXCEPT ![a] = IF @ = "none" THEN @ ELSE "set"]
  /\ canceller' = a
  /\ asked' = asked \cup {a}
  /\ UNCHANGED <<vars, running_, cancel_requested, results, work, stopper,
                 starts, acknowledged, released>>

(* ... then the scheduler, which may refuse. *)
CancelScheduler ==
  /\ canceller # NoAgent
  /\ \/ Cancel(canceller) /\ acknowledged' = acknowledged \cup {canceller}
     \/ /\ ~CanEnter(canceller, "cancelled")
        /\ UNCHANGED <<vars, acknowledged>>
  /\ canceller' = NoAgent
  /\ UNCHANGED <<running_, cancel_requested, cancel_tokens, results, work,
                 stopper, starts, asked, released>>

ReleaseResult(a) ==
  /\ a \in results
  /\ results' = results \ {a}
  /\ released' = released \cup {a}
  /\ UNCHANGED <<vars, running_, cancel_requested, cancel_tokens, work,
                 canceller, stopper, starts, acknowledged, asked>>

-----------------------------------------------------------------------------
WorkerStep(w) ==
  \/ LoopCheck(w)
  \/ \E sample \in Samples, a \in Agents : TakeAgent(w, sample, a)
  \/ \E sample \in Samples : TakeNothing(w, sample)
  \/ Abandon(w)
  \/ Keep(w)
  \/ Begin(w)
  \/ SetupFails(w)
  \/ MarkInvocation(w)
  \/ MarkHandler(w)
  \/ MakeToken(w)
  \/ InsertToken(w)
  \/ CheckToken(w)
  \/ StartFails(w)
  \/ StartProcess(w)
  \/ Unwind(w)
  \/ Publish(w)
  \/ ReportOutcome(w)

OwnerStep == StopFlag \/ StopTokens \/ StopJoined

RuntimeNext ==
  \/ Start
  \/ StopRunning
  \/ OwnerStep
  \/ \E w \in Workers : WorkerStep(w)
  \/ \E w \in Workers, ok \in BOOLEAN : EndBody(w, ok)
  \/ ClientSubmit
  \/ \E a \in Agents : CancelToken(a)
  \/ CancelScheduler
  \/ \E a \in Agents : ReleaseResult(a)

RuntimeSpec == RuntimeInit /\ [][RuntimeNext]_allVars

(* Threads that can run do.  A process or a call ends once its token is    *)
(* set (the executor kills the process group, the client stops waiting).   *)
Cancelled(w) == At(w, "body") /\ cancel_tokens[work[w].agent] = "set"
RuntimeFairness ==
  /\ WF_allVars(OwnerStep)
  /\ WF_allVars(CancelScheduler)
  /\ \A w \in Workers :
       /\ WF_allVars(WorkerStep(w))
       /\ WF_allVars(Cancelled(w) /\ \E ok \in BOOLEAN : EndBody(w, ok))
FairRuntimeSpec == RuntimeSpec /\ RuntimeFairness

(* In addition every execution ends by itself: each agent has a deadline.  *)
DeadlineRuntimeSpec ==
  /\ FairRuntimeSpec
  /\ \A w \in Workers : WF_allVars(\E ok \in BOOLEAN : EndBody(w, ok))

-----------------------------------------------------------------------------
(* Properties *)

HoldsToken == {"armed", "starting", "body", "unwind"}

(* The map holds a token for an agent exactly while a worker is between    *)
(* registering it and removing it, on every path out of an execution: a    *)
(* cancel never reaches the token of an earlier attempt, and stop reaches  *)
(* every registered execution.                                             *)
TokensMatchExecutions ==
  \A a \in Agents :
    cancel_tokens[a] # "none" <=>
      \E w \in Workers : /\ work[w].agent = a
                         /\ work[w].pc \in HoldsToken
                         /\ Kind[a] # "handler"

(* A completed command has a result in the store, unless a client released *)
(* it: what its dependents attach as input is there when they start.       *)
CompletedHasResult ==
  \A a \in Agents : Kind[a] = "command" /\ state[a] = "completed" =>
                      a \in results \cup released

(* Two workers never hold the same agent, whatever happened to it in the   *)
(* meantime (cancelled, cancelled and retried, abandoned at a stop), and   *)
(* the scheduler knows of every execution under way.                       *)
ExecutionsDisjoint ==
  \A w \in Workers : work[w].agent # NoAgent =>
    /\ executing[work[w].agent] = 1
    /\ \A v \in Workers \ {w} : work[v].agent # work[w].agent

(* While the runtime runs, an execution finds its token set only because   *)
(* cancel was called for that very agent since a worker took it for this   *)
(* execution: neither an earlier stop nor the cancellation of an earlier   *)
(* attempt (before a failure that was retried) kills it.                   *)
NoSpuriousCancel ==
  \A a \in Agents : running_ /\ cancel_tokens[a] = "set" => a \in asked

(* What makes the properties above inductive.  WorkersHold: a worker has   *)
(* an agent exactly between the dispatch and the report, and takes the     *)
(* path of the agent's kind.  OwnerInv: the workers of an earlier start    *)
(* are gone before the next, and the stop flag is down while the runtime   *)
(* runs.  ReportedHasResult: a command is reported as a success only after *)
(* its result was published.                                               *)
WorkersHold ==
  \A w \in Workers :
    /\ work[w].agent = NoAgent <=> work[w].pc \in {"exited", "loop", "poll"}
    /\ work[w].pc \in {"armed", "starting"} => Kind[work[w].agent] = "command"
    /\ At(w, "marked") => Kind[work[w].agent] = "invocation"
    /\ At(w, "token") => Kind[work[w].agent] # "handler"

OwnerInv ==
  /\ ~running_ /\ stopper = "idle" => \A w \in Workers : At(w, "exited")
  /\ running_ => stopper = "idle" /\ ~cancel_requested
  /\ \A w \in Workers : At(w, "token") /\ work[w].flag => ~running_

ReportedHasResult ==
  \A w \in Workers :
    LET a == work[w].agent
    IN At(w, "report") /\ work[w].ok /\ Kind[a] = "command" =>
         a \in results \cup released

(* The inductive invariant of the runtime, next to that of the scheduler. *)
RuntimeInv ==
  /\ RuntimeTypeOK
  /\ WorkersHold
  /\ OwnerInv
  /\ ExecutionsDisjoint
  /\ TokensMatchExecutions
  /\ CompletedHasResult
  /\ ReportedHasResult
  /\ NoSpuriousCancel

(* wait_until_idle *)
IdleNow == Live = {} /\ ActiveExecutions = {}

(* Once the runtime is idle, an agent whose cancellation was acknowledged  *)
(* is in state cancelled.                                                  *)
CancelIsKept == IdleNow => \A a \in acknowledged : state[a] = "cancelled"

(* stop returns: the workers leave their loops. *)
StopReturns == stopper = "flag" ~> stopper = "idle"

=============================================================================
