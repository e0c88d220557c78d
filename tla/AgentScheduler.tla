--------------------------- MODULE AgentScheduler ---------------------------
(***************************************************************************)
(* The agent scheduler of agent-runtime (src/scheduler.cpp): a graph of    *)
(* tasks with dependencies, a ready set, and the reservations of the       *)
(* agents handed to workers.  Every operation of the class runs under one  *)
(* mutex, so each is one action.  A call the class refuses leaves its      *)
(* state alone and is a stuttering step, unless the refusal itself has an  *)
(* effect (Complete, Fail).                                                *)
(*                                                                         *)
(* An id is submitted at most once (nodes are never removed), so the part  *)
(* of a task specification that never changes is a constant of the id.     *)
(* The dependency list of a task is chosen when it is submitted.           *)
(*                                                                         *)
(* The variable executing is the callers' side of the interface: the       *)
(* number of workers that dispatch handed the agent to and that have not   *)
(* yet reported with complete or fail (runtime.cpp, worker_loop).          *)
(***************************************************************************)
EXTENDS Integers, FiniteSets, Sequences

CONSTANTS
  Agents,           \* agent ids other than the reserved id 0
  DependencyLists,  \* the dependency vectors a task may be submitted with
  Priority,         \* Priority[a]: spec.priority
  RetryLimit,       \* RetryLimit[a]: spec.retry_limit
  Resources,        \* what is reserved: CPU threads and memory bytes
  Request,          \* Request[a][r]: spec.resources
  Samples,          \* the resource samples the monitor may report
  MaxAmount,        \* largest value of the reservation counters' type
  AgingUnit,        \* milliseconds of waiting that weigh one priority level
  Blockers,         \* agents whose clients call mark_blocked and wake
  MaxExecutions,    \* bound: concurrent executions of a woken agent
  MaxClock          \* bound: last value of the steady clock

ASSUME SchedulerAssumption ==
  /\ IsFiniteSet(Agents)
  /\ DependencyLists \subseteq Seq(Agents)
  /\ Priority \in [Agents -> Int]
  /\ RetryLimit \in [Agents -> Nat]
  /\ MaxAmount \in Nat
  /\ Request \in [Agents -> [Resources -> 0 .. MaxAmount]]
  /\ Samples \subseteq [Resources -> 0 .. MaxAmount]
  /\ AgingUnit \in Nat
  /\ Blockers \subseteq Agents
  /\ MaxExecutions \in Nat
  /\ MaxClock \in Nat

VARIABLES
  state,               \* snapshot.state, "absent" for an id without a node
  dependencies,        \* snapshot.spec.dependencies
  unresolved,          \* snapshot.unresolved_dependencies
  retry_count,         \* snapshot.retry_count
  created_at,          \* snapshot.created_at
  ready,               \* ready_
  reserved,            \* reserved_cpu_threads_ and reserved_memory_bytes_
  resources_reserved,  \* the nodes whose resources_reserved flag is set
  executing,           \* executions of the agent not yet reported
  now                  \* steady_clock::now()

graphVars == <<dependencies, created_at>>
vars == <<state, dependencies, unresolved, retry_count, created_at, ready,
          reserved, resources_reserved, executing, now>>

-----------------------------------------------------------------------------
(* States *)

AgentState ==
  {"created", "waiting_dependency", "ready", "waiting_resource", "dispatched",
   "running", "blocked", "suspended", "completed", "failed", "cancelled"}

Terminal == {"completed", "failed", "cancelled"}
Stopped == {"failed", "cancelled"}

Nodes == {a \in Agents : state[a] # "absent"}
Live == {a \in Nodes : state[a] \notin Terminal}

TransitionSourcesAnyCancel ==
  [running   |-> {"dispatched"},
   blocked   |-> {"running"},
   ready     |-> {"blocked", "suspended", "waiting_resource"},
   completed |-> {"running", "blocked", "dispatched"},
   failed    |-> {"running", "blocked", "dispatched"},
   cancelled |-> AgentState \ Stopped]

(* transition_locked: the states each state may be entered from. *)
TransitionSources ==
  [running   |-> {"dispatched"},
   blocked   |-> {"running"},
   ready     |-> {"blocked", "suspended", "waiting_resource"},
   completed |-> {"running", "blocked", "dispatched"},
   failed    |-> {"running", "blocked", "dispatched"},
   cancelled |-> AgentState \ Terminal]

CanEnter(a, next) == state[a] \in TransitionSources[next]

TypeOK ==
  /\ state \in [Agents -> AgentState \cup {"absent"}]
  /\ dependencies \in [Agents -> Seq(Agents)]
  /\ unresolved \in [Agents -> Nat]
  /\ retry_count \in [Agents -> Nat]
  /\ \A a \in Agents : retry_count[a] <= RetryLimit[a]
  /\ created_at \in [Agents -> 0 .. MaxClock]
  /\ ready \subseteq Agents
  /\ reserved \in [Resources -> 0 .. MaxAmount]
  /\ resources_reserved \subseteq Agents
  /\ executing \in [Agents -> Nat]
  /\ now \in 0 .. MaxClock

-----------------------------------------------------------------------------
(* The dependency graph *)

OccursOnce(deps, a, d) ==
  LET all == {i \in DOMAIN deps[a] : deps[a][i] = d}
  IN {i \in all : \A j \in all : i <= j}

(* The positions of a's dependency vector that hold d: a occurs that many  *)
(* times among the successors of d.                                        *)
Occurrences(deps, a, d) == {i \in DOMAIN deps[a] : deps[a][i] = d}

DependsOn(deps, a) == {deps[a][i] : i \in DOMAIN deps[a]}

Successors(d) == {a \in Nodes : d \in DependsOn(dependencies, a)}

(* graph_has_cycle_locked: a finite graph has a cycle exactly when some    *)
(* nonempty set of nodes is closed under "has a predecessor in the set".   *)
HasCycle(deps, nodes) ==
  \E S \in (SUBSET nodes) \ {{}} : \A a \in S : DependsOn(deps, a) \cap S # {}

(* cancel_descendants_locked: the live nodes reached from a by successor   *)
(* edges through live nodes, i.e. the least set of live nodes that holds   *)
(* the live successors of a and of its own members.                        *)
HoldsDescendants(S, a) ==
  \A b \in {a} \cup S : Successors(b) \cap Live \subseteq S
DirectDescendants(a) == Successors(a) \cap Live
LiveDescendants(a) ==
  {b \in Live : \A S \in SUBSET Live : HoldsDescendants(S, a) => b \in S}

-----------------------------------------------------------------------------
(* Reservations *)

(* The sum of Request[a][r] over the agents a in S, as the number of units *)
(* they ask for.                                                           *)
Units(r, S) ==
  Cardinality({u \in S \X (1 .. MaxAmount) : u[2] <= Request[u[1]][r]})

Minus(x, y) == IF y > x THEN 0 ELSE x - y

(* Unsigned addition in the counters' type. *)
Plus(x, y) == IF x + y > MaxAmount THEN x + y - (MaxAmount + 1) ELSE x + y

ReleaseWithoutFlag(S) ==
  /\ reserved' = [r \in Resources |->
                    Minus(reserved[r], Units(r, S \cap resources_reserved))]
  /\ UNCHANGED resources_reserved

(* release_resources_locked, for each node of S. *)
ReleaseResources(S) ==
  /\ reserved' = [r \in Resources |->
                    Minus(reserved[r], Units(r, S \cap resources_reserved))]
  /\ resources_reserved' = resources_reserved \ S

-----------------------------------------------------------------------------
Init ==
  /\ state = [a \in Agents |-> "absent"]
  /\ dependencies = [a \in Agents |-> <<>>]
  /\ unresolved = [a \in Agents |-> 0]
  /\ retry_count = [a \in Agents |-> 0]
  /\ created_at = [a \in Agents |-> 0]
  /\ ready = {}
  /\ reserved = [r \in Resources |-> 0]
  /\ resources_reserved = {}
  /\ executing = [a \in Agents |-> 0]
  /\ now = 0

(* A dependency counts as unresolved unless its agent has completed: one   *)
(* that failed or was cancelled counts, and one of the same batch counts.  *)
CountsUnresolvedUntilTerminal(d) == state[d] \notin Terminal
CountsUnresolved(d) == state[d] # "completed"

(* submit_batch_locked: all or nothing.                                    *)
SubmitBatch(batch, deps) ==
  LET merged == [a \in Agents |-> IF a \in batch THEN deps[a]
                                                 ELSE dependencies[a]]
      Unresolved(a) == Cardinality({i \in DOMAIN merged[a] :
                                      CountsUnresolved(merged[a][i])})
      free == {a \in batch : Unresolved(a) = 0}
  IN /\ batch # {}
     /\ batch \cap Nodes = {}
     /\ \A a \in batch : DependsOn(merged, a) \subseteq
                           (Nodes \cup batch) \ {a}
     /\ ~HasCycle(merged, Nodes \cup batch)
     /\ dependencies' = merged
     /\ created_at' = [a \in Agents |-> IF a \in batch THEN now
                                                       ELSE created_at[a]]
     /\ unresolved' = [a \in Agents |-> IF a \in batch THEN Unresolved(a)
                                                       ELSE unresolved[a]]
     /\ state' = [a \in Agents |->
                    IF a \in free THEN "ready"
                    ELSE IF a \in batch THEN "waiting_dependency"
                    ELSE state[a]]
     /\ ready' = ready \cup free
     /\ UNCHANGED <<retry_count, reserved, resources_reserved, executing, now>>

Submit ==
  \E batch \in SUBSET (Agents \ Nodes) :
    \E deps \in [batch -> DependencyLists] : SubmitBatch(batch, deps)

(* spawn: a batch of one whose parent must have a node, in any state.      *)
Spawn(parent, a) ==
  /\ parent \in Nodes
  /\ \E deps \in [{a} -> DependencyLists] : SubmitBatch({a}, deps)

(* dispatch_locked *)
Allocatable(sample, r) == Minus(sample[r], reserved[r])
Fitting(sample) ==
  {a \in ready : \A r \in Resources : Request[a][r] <= Allocatable(sample, r)}
Score(a) == Priority[a] * AgingUnit + (now - created_at[a])

(* The state of every agent after the pass over the ready set. *)
Marked(sample) ==
  [a \in Agents |-> IF a \notin ready THEN state[a]
                    ELSE IF a \in Fitting(sample) THEN "ready"
                    ELSE "waiting_resource"]

DispatchReservedOnce(sample, a) ==
  LET added == [r \in Resources |->
                  IF a \in resources_reserved THEN 0 ELSE Request[a][r]]
  IN /\ a \in Fitting(sample)
     /\ \A b \in Fitting(sample) : Score(b) <= Score(a)
     /\ state' = [Marked(sample) EXCEPT ![a] = "dispatched"]
     /\ reserved' = [r \in Resources |-> Plus(reserved[r], added[r])]
     /\ resources_reserved' = resources_reserved \cup {a}
     /\ ready' = ready \ {a}
     /\ executing' = [executing EXCEPT ![a] = @ + 1]
     /\ UNCHANGED <<graphVars, unresolved, retry_count, now>>

DispatchStillQueued(sample, a) ==
  /\ a \in Fitting(sample)
  /\ \A b \in Fitting(sample) : Score(b) <= Score(a)
  /\ state' = [Marked(sample) EXCEPT ![a] = "dispatched"]
  /\ reserved' = [r \in Resources |-> Plus(reserved[r], Request[a][r])]
  /\ resources_reserved' = resources_reserved \cup {a}
  /\ executing' = [executing EXCEPT ![a] = @ + 1]
  /\ UNCHANGED <<graphVars, unresolved, retry_count, ready, now>>

Dispatch(sample, a) ==
  /\ a \in Fitting(sample)
  /\ \A b \in Fitting(sample) : Score(b) <= Score(a)
  /\ state' = [Marked(sample) EXCEPT ![a] = "dispatched"]
  /\ reserved' = [r \in Resources |-> Plus(reserved[r], Request[a][r])]
  /\ resources_reserved' = resources_reserved \cup {a}
  /\ ready' = ready \ {a}
  /\ executing' = [executing EXCEPT ![a] = @ + 1]
  /\ UNCHANGED <<graphVars, unresolved, retry_count, now>>

DispatchNothing(sample) ==
  /\ Fitting(sample) = {}
  /\ state' = Marked(sample)
  /\ UNCHANGED <<graphVars, unresolved, retry_count, ready, reserved,
                 resources_reserved, executing, now>>

MarkRunning(a) ==
  /\ executing[a] > 0
  /\ CanEnter(a, "running")
  /\ state' = [state EXCEPT ![a] = "running"]
  /\ UNCHANGED <<graphVars, unresolved, retry_count, ready, reserved,
                 resources_reserved, executing, now>>

MarkBlocked(a) ==
  /\ a \in Blockers
  /\ executing[a] > 0
  /\ CanEnter(a, "blocked")
  /\ state' = [state EXCEPT ![a] = "blocked"]
  /\ UNCHANGED <<graphVars, unresolved, retry_count, ready, reserved,
                 resources_reserved, executing, now>>

WakeUnqueued(a) ==
  /\ a \in Blockers
  /\ executing[a] < MaxExecutions
  /\ CanEnter(a, "ready")
  /\ state' = [state EXCEPT ![a] = "ready"]
  /\ UNCHANGED <<graphVars, unresolved, retry_count, ready, reserved,
                 resources_reserved, executing, now>>

Wake(a) ==
  /\ a \in Blockers
  /\ executing[a] < MaxExecutions
  /\ CanEnter(a, "ready")
  /\ state' = [state EXCEPT ![a] = "ready"]
  /\ ready' = ready \cup {a}
  /\ UNCHANGED <<graphVars, unresolved, retry_count, reserved,
                 resources_reserved, executing, now>>

(* An execution reports: whatever the scheduler answers, the worker is     *)
(* done with the agent.                                                    *)
Report(a) ==
  /\ executing[a] > 0
  /\ executing' = [executing EXCEPT ![a] = @ - 1]

Complete(a) ==
  LET left == [b \in Agents |->
                 IF b \in Nodes
                 THEN Minus(unresolved[b],
                            Cardinality(Occurrences(dependencies, b, a)))
                 ELSE unresolved[b]]
      woken == {b \in Successors(a) : /\ left[b] = 0
                                      /\ state[b] = "waiting_dependency"}
  IN /\ Report(a)
     /\ \/ /\ CanEnter(a, "completed")
           /\ ReleaseResources({a})
           /\ unresolved' = left
           /\ state' = [b \in Agents |-> IF b = a THEN "completed"
                                         ELSE IF b \in woken THEN "ready"
                                         ELSE state[b]]
           /\ ready' = ready \cup woken
        \/ /\ ~CanEnter(a, "completed")
           /\ UNCHANGED <<unresolved, state, ready, reserved,
                          resources_reserved>>
     /\ UNCHANGED <<graphVars, retry_count, now>>

(* fail gives the reservation back before anything else, and re-queues the *)
(* agent without looking at its state while retries are left.              *)
FailRetry(a) ==
  /\ retry_count[a] < RetryLimit[a]
  /\ retry_count' = [retry_count EXCEPT ![a] = @ + 1]
  /\ state' = [state EXCEPT ![a] = "ready"]
  /\ ready' = ready \cup {a}
  /\ ReleaseResources({a})

FailFinal(a) ==
  /\ retry_count[a] >= RetryLimit[a]
  /\ CanEnter(a, "failed")
  /\ state' = [b \in Agents |-> IF b = a THEN "failed"
                                ELSE IF b \in LiveDescendants(a) THEN "cancelled"
                                ELSE state[b]]
  /\ ready' = ready \ LiveDescendants(a)
  /\ ReleaseResources({a} \cup LiveDescendants(a))
  /\ UNCHANGED retry_count

FailRefused(a) ==
  /\ retry_count[a] >= RetryLimit[a]
  /\ ~CanEnter(a, "failed")
  /\ ReleaseResources({a})
  /\ UNCHANGED <<state, ready, retry_count>>

Fail(a) ==
  /\ Report(a)
  /\ FailRetry(a) \/ FailFinal(a) \/ FailRefused(a)
  /\ UNCHANGED <<graphVars, unresolved, now>>

Cancel(a) ==
  LET ended == {a} \cup LiveDescendants(a)
  IN /\ a \in Nodes
     /\ CanEnter(a, "cancelled")
     /\ state' = [b \in Agents |-> IF b \in ended THEN "cancelled" ELSE state[b]]
     /\ ready' = ready \ ended
     /\ ReleaseResources(ended)
     /\ UNCHANGED <<graphVars, unresolved, retry_count, executing, now>>

Tick ==
  /\ now < MaxClock
  /\ now' = now + 1
  /\ UNCHANGED <<state, graphVars, unresolved, retry_count, ready, reserved,
                 resources_reserved, executing>>

Next ==
  \/ Submit
  \/ \E p, a \in Agents : Spawn(p, a)
  \/ \E sample \in Samples, a \in Agents : Dispatch(sample, a)
  \/ \E sample \in Samples : DispatchNothing(sample)
  \/ \E a \in Agents : MarkRunning(a)
  \/ \E a \in Agents : MarkBlocked(a)
  \/ \E a \in Agents : Wake(a)
  \/ \E a \in Agents : Complete(a)
  \/ \E a \in Agents : Fail(a)
  \/ \E a \in Agents : Cancel(a)
  \/ Tick

Spec == Init /\ [][Next]_vars

(* Workers poll wait_dispatch for ever and an execution ends; nothing      *)
(* obliges a client to submit, cancel, block or wake.                      *)
Fairness ==
  /\ WF_vars(\E sample \in Samples, a \in Agents : Dispatch(sample, a))
  /\ \A a \in Agents : WF_vars(Complete(a) \/ Fail(a))
FairSpec == Spec /\ Fairness

-----------------------------------------------------------------------------
(* Properties *)

Active == {a \in Agents : state[a] \in {"dispatched", "running", "blocked"}}
Queued == {a \in Agents : state[a] \in {"ready", "waiting_resource"}}
Uncompleted(a) ==
  {i \in DOMAIN dependencies[a] : state[dependencies[a][i]] # "completed"}

(* The ready set and the states agree: dispatch looks at exactly the       *)
(* agents that wait for a worker, whatever path (submission, completion of *)
(* a dependency, retry, wake-up, a failed fit) made them wait.             *)
ReadyConsistent == ready = Queued

(* The executions of a that are under way and that nobody cancelled: a     *)
(* cancellation returns one reservation although the process of the agent  *)
(* is still being killed.                                                  *)
Uncancelled(a) ==
  IF state[a] = "cancelled" THEN Minus(executing[a], 1) ELSE executing[a]

(* n[a] times what a requests, over all agents a, as a number of units.    *)
UnitsOf(r, n) ==
  Cardinality(UNION {{a} \X (1 .. n[a] * Request[a][r]) : a \in Agents})

(* The counters cover every execution under way, but for one of each agent *)
(* that is cancelled: also those of an agent that was blocked, woken and   *)
(* handed to a second worker while the first still holds it.  Dispatch     *)
(* never promises again what such an execution was promised.               *)
ReservationsCover ==
  \A r \in Resources :
    reserved[r] >= UnitsOf(r, [a \in Agents |-> Uncancelled(a)])

(* Without block and wake the counters are the requests of the active      *)
(* agents and nothing else: no path leaks or returns a reservation twice,  *)
(* and the saturating subtraction never saturates.                         *)
ReservationsExact ==
  Blockers = {} => \A r \in Resources : reserved[r] = Units(r, Active)

(* No agent waits for a worker, runs or completes before every agent it    *)
(* depends on has completed: the counter kept by submission and completion *)
(* never lets one through early.                                           *)
DependenciesMet ==
  Blockers = {} =>
    \A a \in Queued \cup Active : Uncompleted(a) = {}

(* An agent that waits for its dependencies has one that is not completed: *)
(* the completion that resolves the last one wakes it.                     *)
NoLostWakeup ==
  Blockers = {} =>
    \A a \in Agents : state[a] = "waiting_dependency" => Uncompleted(a) # {}

(* What makes the properties above inductive.  ReservationFlags: the flags *)
(* cover the active agents and the counters the flags; ReservationShares:  *)
(* they cover the executions as well, where an agent with a flag counts as *)
(* one execution at least, and no cancelled one has it.  SoleExecution: an *)
(* agent is held by at most one worker, which may hold a cancelled agent   *)
(* but never a completed or a queued one.  DependencyCounts: the counter   *)
(* is the number of dependencies not yet completed, and an agent a worker  *)
(* holds has none.                                                         *)
ReservationFlags ==
  /\ Active \subseteq resources_reserved
  /\ \A r \in Resources : reserved[r] >= Units(r, resources_reserved)

Share(a) ==
  IF a \in resources_reserved /\ executing[a] = 0 THEN 1 ELSE Uncancelled(a)

ReservationShares ==
  /\ \A a \in resources_reserved : state[a] # "cancelled"
  /\ \A r \in Resources :
       reserved[r] >= UnitsOf(r, [a \in Agents |-> Share(a)])

ReservationFlagsExact ==
  /\ resources_reserved = Active
  /\ \A r \in Resources : reserved[r] = Units(r, resources_reserved)

SoleExecution ==
  \A a \in Agents :
    /\ state[a] \notin {"created", "blocked", "suspended"}
    /\ \/ executing[a] = 0 /\ state[a] \notin {"dispatched", "running"}
       \/ executing[a] = 1 /\ state[a] \in {"dispatched", "running", "cancelled"}

DependencyCounts ==
  \A a \in Agents :
    /\ DependsOn(dependencies, a) \subseteq Nodes
    /\ unresolved[a] = Cardinality(Uncompleted(a))
    /\ state[a] = "absent" => dependencies[a] = <<>>
    /\ state[a] = "waiting_dependency" => unresolved[a] # 0
    /\ a \in Queued \/ executing[a] > 0 => Uncompleted(a) = {}

(* The inductive invariant of the scheduler. *)
SchedulerInv ==
  /\ TypeOK
  /\ ReadyConsistent
  /\ ReservationFlags
  /\ Blockers = {} => ReservationFlagsExact /\ SoleExecution /\ DependencyCounts

(* A completed agent stays completed. *)
CompletedIsFinal ==
  [][Blockers = {} => \A a \in Agents :
       state[a] = "completed" => state'[a] = "completed"]_vars

(* Ready set, counters, flags and scores implement a graph of tasks: no    *)
(* agent is dispatched early or twice, a completed one stays so, retries   *)
(* are counted, and what fails or is cancelled takes exactly the live      *)
(* agents that depend on it along.  It is claimed without block and wake,  *)
(* which hand an agent to a second worker.                                 *)
Stage(a) ==
  IF state[a] \in {"waiting_dependency", "ready", "waiting_resource"} THEN "pending"
  ELSE IF state[a] \in {"dispatched", "running"} THEN "started"
  ELSE state[a]

Tasks == INSTANCE TaskGraph WITH
  stage <- [a \in Agents |-> Stage(a)],
  needs <- [a \in Agents |-> DependsOn(dependencies, a)],
  retries <- retry_count,
  held <- {a \in Agents : executing[a] > 0}

ImplementsTaskGraph == Tasks!TaskSpec

(* The step that makes an agent fail or be cancelled leaves no live agent  *)
(* that depends on it: failure and cancellation reach every descendant.    *)
StopCascades ==
  [][\A a \in Agents : state[a] \notin Stopped /\ state'[a] \in Stopped =>
       \A b \in Live' : a \notin DependsOn(dependencies', b)]_vars

(* The live agents that wait, directly or through others that wait, for an *)
(* agent that failed or was cancelled before they were submitted.          *)
Orphans ==
  UNION {S \in SUBSET Live : \A a \in S : \E d \in DependsOn(dependencies, a) :
                                d \in S \/ state[d] \in Stopped}

(* Every agent submitted is eventually finished, or waits for one that was *)
(* already stopped when it was submitted.                                  *)
Settles ==
  \A a \in Agents :
    a \in Nodes ~> (a \notin Live \/ a \in Orphans)

(* Every agent submitted is eventually finished. *)
EveryAgentFinishes == \A a \in Agents : a \in Nodes ~> a \notin Live

=============================================================================
