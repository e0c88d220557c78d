# A TLA+ model of AgentNucleus

AgentNucleus consists of two programs. `agent-runtime` (C++) schedules a graph
of agents, executes each as a process, a handler or a call of another service,
and keeps their outputs in shared memory. `agent_runtime_top` (C and C++)
serves those calls: it runs a language model with a pool of contexts, and a few
tools. This project models the parts whose correctness depends on the order of
events, checks them on small instances with TLC, and proves the central
invariants of every modelled component for every instance with TLAPS.

## Inventory

| Component | State | Operations | What is hard |
|---|---|---|---|
| `AgentScheduler` (`agent-runtime/src/scheduler.cpp`) | node per agent: state, unresolved dependencies, retries, reservation flag; ready set; reserved memory, threads | submit, submit_batch, spawn, dispatch, mark_running, mark_blocked, wake, complete, fail, cancel | the same agent is reported, cancelled, retried and cascaded to by different threads in any order; counters are taken back on five paths |
| `AgentRuntime` (`runtime.cpp`) | worker threads, `running_`, `cancel_requested_`, `active_executions_`, map of cancel tokens, result store | start, stop, submit, cancel, wait_until_idle, release_result, `worker_loop`, `execute`, `execute_invocation` | stop and cancel race with the creation, registration and removal of tokens; restart; publication that fails |
| `ProcessExecutor` (`process_executor.cpp`) | child process and group, start barrier, timeout, token | run, in several workers at once | descriptors inherited across forks; kill sequence; deadline against exit; output left in the pipe |
| `SharedMemory`, `ResultStore` (`shared_memory.cpp`) | regions with their descriptors, mappings and seals; table of results; ring positions | create, attach, seal, publish, acquire, erase, push, pop | lifetime of a region against its readers; sealing what another process still writes |
| `InvocationChannel` (`invocation_channel.cpp`, `invocation_protocol.cpp`) | listening socket, at most 64 detached client threads and their count | invoke, serve, handle_client, stop; encode and decode of requests and responses | client deadlines against committed work; retries; stop against detached threads |
| `ControlChannel`, `agentd` (`control_channel.cpp`, `apps/agentd.cpp`) | one control thread, socket path | start, serve, stop; ping, submit, spawn, status, list, cancel, shutdown, result, release_result | two daemons on one path; a path left by a crash; silent clients; client timeouts |
| `ModelEngine`, `MemoryAdmissionController` (`model_engine.cpp`, `resource_monitor.cpp`) | contexts with a lease, resident or suspended; admission table | initialize, acquire, release, suspend, resume, request_cancel, reserve | several things change in one call and each may fail; unsigned byte counts |
| `CgroupManager` (`cgroup_manager.cpp`) | files of one cgroup per agent | create, attach, remove | partial failure |
| `ContextManager` (`agent_runtime_top/src/context_manager.cpp`) | contexts with owners, pins, sequence, age; stack of free sequences | acquire, finish, release | swap of the least recently used context through callbacks that fail |
| `TopRuntime`, `agent_topd` (`top_runtime.cpp`) | conversations, snapshots, model | generate, warmup_prefix, release_context, stats, shutdown | several locks; release runs beside generate |
| `LlamaEngine` (`llm_llamacpp.c`) | table of models behind two locks; position and use of each sequence; eight shared prompts | load, unload, warmup, inference, clear, checkpoint, restore | unloading against threads that wait for the model; eviction; rollback after failure or cancellation |
| `KVCache` (`kv_cache.c`) | blocks, reference counts, `used_size` | alloc, free, share, unshare, compress, reuse | unsigned counters |
| Ready queue (`agent_runtime_top/src/scheduler.c`) | ring buffer, `running` | add, remove, update, pick_next, start, stop | waiting threads |
| Agent and resource tables (`agent.c`, `resource.c`) | fixed arrays under a mutex | create, destroy, allocate, release | slot reuse, counters |
| `ToolManager` (`tool_manager.cpp`) | none | execute | - |

How they interact: clients and `agentd` call `AgentRuntime`, whose workers call
`AgentScheduler` under its mutex, run `ProcessExecutor` or call a service
through `InvocationChannel`, and publish in `ResultStore`. `agent_topd` answers
those calls: `TopRuntime` takes a context from `ContextManager` (which calls
back into `TopRuntime` to save and load it), runs `LlamaEngine` on its sequence
and returns text.

What each component has to get right: the scheduler never starts an agent
early, never forgets one and never promises a resource twice; the runtime never
executes an agent twice at once, reaches every execution it has to cancel and
can be stopped once what it executes ends; contexts never share a sequence and never lose one, and a
context in use stays; the service never mixes conversations and keeps cache,
checkpoint and history aligned; a call is executed at most once, with what was
asked, and answered with what that execution returned; a socket path belongs to
the daemon that serves it; pools, queues and tables never hand out what somebody
holds and never forget somebody who waits. `PROJECT.json` lists the hazards of the code at
their lines, with the properties that watch over them.

## Modules

| Module | Models | Builds on |
|---|---|---|
| `TaskGraph` | what the scheduler promises of a graph of tasks (abstract) | - |
| `AgentScheduler` | `scheduler.cpp` | implements `TaskGraph` |
| `AgentRuntime` | `runtime.cpp`, and what it sees of `process_executor.cpp` and `shared_memory.cpp` | extends `AgentScheduler`; its actions contain those of the scheduler |
| `UseOrder` | the order of `last_access` in `context_manager.cpp` and `llm_llamacpp.c` | - |
| `ContextManager` | `context_manager.cpp` | extends `UseOrder` |
| `TopRuntime` | requests of `top_runtime.cpp`; inference, clearing, checkpoint, restore of `llm_llamacpp.c` | extends `ContextManager`; its actions contain those of the manager |
| `WireFormat` | `Writer`, `Reader`, header and references of both protocols | - |
| `InvocationProtocol` | `invocation_protocol.cpp` | extends `WireFormat` |
| `SharedResults` | regions, descriptors, seals and `ResultStore` of `shared_memory.cpp` | - |
| `RemoteCall` | what a remote call promises (abstract) | - |
| `InvocationChannel` | `invocation_channel.cpp` and `execute_invocation` of `runtime.cpp` | extends `InvocationProtocol`, `SharedResults`; implements `RemoteCall` |
| `ControlProtocol` | `control_protocol.cpp` | extends `WireFormat` |
| `ControlDaemon` | `control_channel.cpp`, the server of `agentd.cpp` | extends `ControlProtocol`; implements `RemoteCall` |
| `ProcessExecutor` | `process_executor.cpp` | - |
| `ModelEngine` | `model_engine.cpp`, `resource_monitor.cpp` | - |
| `LlamaEngine` | models, locks, shared prompts and turns of `llm_llamacpp.c` | extends `UseOrder` |
| `KVCache` | `kv_cache.c` | - |
| `ReadyFifo` | what the ready queue promises (abstract) | - |
| `ReadyQueue` | `agent_runtime_top/src/scheduler.c` | implements `ReadyFifo` |
| `MC...` | values for the constants of one of these; `MCComponents` of the six that are checked by themselves | - |
| `...Proofs` | the theorems about one of these; `ListProofs` those about lists and packets that several others need, `ComponentsProofs` those about `LlamaEngine`, `KVCache`, `ReadyQueue`, `ProcessExecutor`, `ModelEngine` and the types of `MCComponents` | - |

### AgentScheduler

The class is protected by one mutex, so every operation is one action: `Submit`
and `Spawn` (with the check for cycles), `Dispatch` and `DispatchNothing`,
`MarkRunning`, `MarkBlocked`, `Wake`, `Complete`, `Fail`, `Cancel`. `Tick` is
the steady clock. The variables are the members of the class; `executing`
counts the workers that were handed an agent and have not reported, which is
what lets `Complete` and `Fail` be called late, after a cancellation or twice.
`transition_locked` is the table `TransitionSources`. The successor lists of
the code are the inverse of `dependencies`; `LiveDescendants` is the fixed point
the recursion of `cancel_descendants_locked` reaches, and `HasCycle` states what
`graph_has_cycle_locked` computes by depth-first search. A refused call that
changes nothing is a stuttering step; `Complete` and `Fail` are refused with an
effect and have a disjunct for it. Reservation counters wrap at `MaxAmount`
(`Plus`) and saturate at zero (`Minus`) as in the code.

### AgentRuntime

Each worker has a program counter in `work`. A step is what a thread does
between two points at which another can get in: reading `running_`, reading
`cancel_requested_` into a new token (`MakeToken`) and entering it in the map
(`InsertToken`) are different steps, and so are `CancelToken` and
`CancelScheduler`, the two halves of `cancel`, and the four stages of `stop`.
`EndBody` is the end of the process, call or handler; `StartFails`,
`SetupFails` and the alternatives of `StartProcess` and `Publish` are the error
paths. `Kind` says how an agent is executed.

One cancel call is under way at a time (the control channel serves one client
at a time), and `start` and `stop` are called by the thread that owns the
runtime, as in `agentd`. `CompletedHasResult` assumes `max_agent_output_bytes`
is not 0. Nothing in the runtime calls `mark_blocked` or `wake`, hence
`Blockers = {}`.

### ContextManager

Every operation holds `mutex_`. `acquire` calls back to save a victim and to
load the wanted context; the variable `call` is the acquire that holds the
mutex and waits for its callback, so `Acquire` is followed by `Saved(ok)` and
`Loaded(ok)`. `last_access` only orders the contexts, so it is the sequence
`lastAccess`, oldest first (`UseOrder`: `Drop`, `Touch`). `free_sequences_` is a stack, its top at the end.
A refused acquire changes nothing and is a stuttering step. The gauges are
integers: `StatsExact` says they never pass zero, so the unsigned counters of
the code never wrap.

### TopRuntime

One thread per request. `Generate` takes `conversation_mutex_` and acquires;
`SwapOutContext`, `SwapOutFails`, `SwapInContext` and `SwapInFails` are the
callbacks; then `Infer` or `InferFails`, `Unpin` (the pin guard), and `Settle`
or `Abandon`. `ReleaseContext`, `ClearSequence`, `RemoveSnapshot` and
`EraseConversation` are the four steps of `release_context`, of which only the
last takes the mutex. `Shutdown` waits for all requests, as `lifecycle_mutex_`
does. A cache, a checkpoint and a history are abstracted to their turns, a turn
to the context it was made for; a sequence is `in_use` exactly when its cache is
not empty. An operation of the engine holds `inference_lock` and is one step.
Failures before the engine is reached (a template that cannot be rendered) leave
cache and history alone, like an `InferFails` that keeps the cache.

### WireFormat, InvocationProtocol, ControlProtocol

A packet is a sequence of words, one for each integer or character the code
writes. The encoders and decoders keep the order of the fields, every check and
every limit of the code (strings, collections, whole messages, enumerations,
values too large for their type, words left over at the end); an encoder that
returns false yields the empty packet. Negative priorities and process ids pass
through the unsigned words of the code, so decoding what was encoded is a result
and not an assumption. The version of the sender is part of the header.

### InvocationChannel and SharedResults

`execute_invocation` is the client: `Begin` takes the results of the
dependencies in, then `Connect`, `SendRequest`, `ReceiveResponse`, and
`ConcludeWithOutput` (verify, seal, publish) or `ConcludeWithoutOutput`; the
actions named `...Fails`, `GiveUp` (deadline or token) and `Disconnected` are
the ways out. On the other side `Accept` makes a detached thread, `TurnAway`
refuses a client above the limit, and the thread goes through `ReceiveRequest`,
`Handle`, `ReleaseOutput`, `SendResponse`, `CloseClient`, `CountDown` and
`NotifyStop`: the count is lowered under the lock and the
notification comes later, as in the code. `AskStop`, `CloseListener` and
`WaitForClients` are `stop`. A call is one attempt; the next attempt of an agent
is a call of its own. Descriptors are attached per position of the dependency
vector, so a dependency listed twice is sent and counted twice. The constants are typed by what a sender can write:
`SignedWords`, `Text`, `InvocationSpecs`, `InvocationHandlerResults`; negative
numbers are among them. A region lives as long as `held` names a descriptor,
mapping, packet or entry that refers to it; the kernel refuses `F_SEAL_WRITE`
while `writable` is not empty.

### ProcessExecutor

Each worker has a stage: pipes and barrier are opened, the child is forked
with a copy of every descriptor open at that moment (`ends` says who holds the
write end of whose barrier), admitted or rejected by the callback, drained,
reaped. A child reads its barrier (`Exec`, `Refused`), writes into a pipe of
bounded size, may leave a descendant that heeds or ignores SIGTERM, and exits.
`Interrupt` is the deadline or the token; `Terminate` and `GraceEnds` are the
two signals. A rejected run is not killed: the worker closes its end of the
barrier and waits. If two workers are rejected while the child of each was forked
with the other's barrier open, neither child ever reads the end of its barrier
(`Entangled`), and neither run returns; `RunsReturn` claims the return of every
other run.

### ControlDaemon

Start is one step per system call of `open_socket` (`lstat`, probe, `unlink`,
`bind`, `listen`), because two daemons may take them alternately. A daemon then
accepts one connection at a time and handles it with `Handle` or
`RefuseRequest`, then `Reply`; `LeaveLoop`, `CloseListener`, `RemovePath` and
`StopRuntime` are its end and `Crash` may come anywhere and leaves the path.
Clients time out (`ReceiveTimesOut`) or belong to another version of the program.
`overlap` is a history variable: a start has been under way together with another start or
with a stop. Behind the daemon the runtime is a table of snapshots in which an
agent is executed in one step (`FinishAgent`): an earlier result is erased, a new
one may be published whether the attempt succeeds or not, and the agent
completes, is queued again or fails. What happens inside is `AgentRuntime`.

### ModelEngine, LlamaEngine, KVCache, ReadyQueue

`ModelEngine`: one action per method; each inner step that can fail (file,
native context, admission) is a choice. `Allocatable` keeps the unsigned
subtractions of `resource_monitor.cpp` and `ReservedByOthers` its unsigned sum,
the count of the pairs of an owner and one of its bytes modulo `Width`.
`AdmittedFits` speaks of contexts that reserve something (`ContextBytes > 0`):
`allocate` grants zero bytes without looking at the memory. `LlamaEngine`: a thread finds the model
under the lock of the manager (`FindModel`), waits for the lock of the model
while it still has the first (`LockModel`), and does its work under the second;
`UnloadModel` destroys it. `Cached`, `CacheFails` and `Selected` are the shared
prompts with their eviction, `InferFirst`, `InferNext` and their failures a turn
with its rollback; a prompt that cannot be tokenized or does not fit evicts no
entry and is decoded into the sequence of the turn. `KVCache`: one action per call on the block pool, with
references, owners, contents and `used_size` modulo its width. `ReadyQueue`: the
circular array with its two indices; a thread in `scheduler_pick_next` is
waiting, awake or outside, and may wake by itself. `scheduler_destroy` does not
wait for the threads it wakes; that none is inside is the duty of its caller, and
`SchedulerDestroy` has it as its guard (no program of the repository destroys a
queue).

## Runs

| Run | Instance | Shows |
|---|---|---|
| `scheduler` | 3 agents, lists with a chain, two paths to one agent and a repeated dependency, 2 resources, 2 samples, retries, fair workers | `ReservationsExact`, `DependenciesMet`, `NoLostWakeup`, `ImplementsTaskGraph`, `StopCascades`, `Settles` |
| `scheduler_blocking` | 3 agents, one blocked and woken, clock to 2, an agent may be executed twice at once | `ReadyConsistent` across block and wake; the counters cover each execution (`ReservationsCover`) |
| `scheduler_late_dependent` | the same | violation of `EveryAgentFinishes` |
| `runtime` | 2 workers, a command with one retry, an invocation, 2 starts | `TokensMatchExecutions`, `CompletedHasResult`, `ExecutionsDisjoint`, `NoSpuriousCancel` |
| `runtime_stop` | 1 worker, a command and a handler, deadlines, 2 starts | `StopReturns` |
| `runtime_stop_hangs` | 1 worker, a command without a deadline | violation of `StopReturns` |
| `runtime_cancel_kept` | as `runtime`, 1 start | violation of `CancelIsKept` |
| `top` | 2 threads, 2 agents, 1 sequence, 2 contexts, 3 ids, every failure | `TopTypeOK`, `NoForeignTurns`, `SnapshotsExact`, `ContextsSound`, `StatsExact`, `ContextsBegun`, `PinnedStays` |
| `top_history` | 1 thread, fair, 1 sequence, 3 contexts, rollbacks succeed | `HistoryKept`, `LockReturned` |
| `top_release_race` | 2 threads, rollbacks succeed | violation of `HistoryKept` |
| `invocation` | 2 agents, the second takes the result of the first and lists it twice, one retry, a limit of 1 client, a backlog of 2, handler results with and without output, too long, cancelled | `ResultsImmutable`, `NothingLeaks`, `StopWaits`, `ImplementsRemoteCall`, `CallsReturn` |
| `components` | the components that do not call each other, each driven by itself from its first state (`driven`) | see below |

The run `components` drives one component per behaviour, so its state space is
the sum of theirs: `KVCache` with 2 blocks and 3 handles (`HeldBlocksCounted`,
`ExclusiveDataKept`); `ReadyQueue` with 3 places and 3 waiting threads
(`NoWaiterForgotten`, `ImplementsFifo`); `ModelEngine` with 2 agents, 2 contexts
and memory that shrinks below the margin (`EngineConsistent`); `LlamaEngine`
with 2 threads, 4 prompts for 2 shared entries, a window of 6 tokens and 2 loads
(`PrefixesExact`, `ModelHeld`); `ProcessExecutor` with 2 workers, both of which may be
rejected (`RunsAccounted`, `DrivenRunsReturn`); one daemon with 3 calls and a
crash (`ControlImplementsRemoteCall`, `DaemonResponds`); two daemons on one path
(`SocketKept`).

Bounds. Three agents are the least that allow a chain and two paths to the same
agent; a dependency listed twice is included because the code counts
occurrences; two samples let an agent fit and not fit; one retry separates the
first, the last and a middle attempt. Two workers and two starts let an execution
of one start meet the flags of another. One sequence with two contexts swaps on
nearly every request and a third id lets a sequence be handed on to a context
made later; two threads are the least that let `release_context` run beside
`generate`. One thread is enough for `LockReturned`: the holder of
`conversation_mutex_` waits for nobody else (`release_context` waits for no
callback while it holds the manager's mutex).
A limit of one client with two callers reaches the limit; one retry lets a late
answer meet the next attempt. Two blocks are the least that can be shared in
part, and used_size wraps at once with modulus 2. Three waiting threads leave
one asleep when one is woken and another overtakes it. Four prompts for two
entries force evictions, and one prompt fills the window. Two daemons and one crash are what
the steps of `open_socket` can confuse; the third call of the other instance
lists what the first two have done. `MaxExecutions`, `MaxClock`, `MaxStarts`,
`MaxContextId`, `MaxPins`, `MaxTurns` (also the window of the model), `MaxIds`,
`MaxLoads` and `MaxWritten` cap counters that the code leaves unbounded.
Symmetry is used only in runs of safety properties, over sets whose members the
instance does not tell apart. The runs of `TopRuntime`, `invocation` and
`components` have no deadlock check: they stop once the ids or calls are used up
or the service is shut down. That nobody waits for ever there is what
`LockReturned`, `CallsReturn`, `StopWaits`, `NoWaiterForgotten`,
`DrivenRunsReturn` and `DaemonResponds` say.

Fairness. `Fairness` of the scheduler: workers poll `wait_dispatch` for ever and
an execution ends, so an agent that fits is dispatched and a held agent is
reported; clients are not obliged to anything. `RuntimeFairness`: threads run,
and an execution whose token is set ends (`ProcessExecutor` kills the group, the
invocation client stops waiting). `DeadlineRuntimeSpec` adds that every
execution ends by itself, as it does when each has a timeout.
`FairTopSpec`: a request that can go on does; the engine bounds a turn by
`max_tokens`, and the callbacks are file operations that return.
`ChannelFairness` is weak fairness of the steps of the code together: threads
are scheduled, handlers return, and no thread can repeat a step, so that each
gets its turn; deadlines, stop and releases are left to the environment.
`ControlFairness`: a daemon that is starting, serving, closing its socket or
removing its path and can leave that phase does, because a receive returns after
five seconds at the latest; clients owe nothing. Nothing is assumed of
`StopRuntime`, which joins the workers and may wait for ever (finding 3):
`DaemonResponds` claims that a daemon that was asked to stop closes its socket
and removes the path, not that it exits.
`ExecutorFairness`: workers are scheduled, a child reads its barrier when it can,
and deadlines pass; commands owe nothing.

## Refinements

| Detailed | Abstract | Mapping |
|---|---|---|
| `AgentScheduler` | `TaskGraph` | an agent is pending until it is dispatched, started until it ends; needs are the members of the dependency vector; who is held, those with an execution not yet reported; ready set, counters, flags, scores and clock are hidden; proved (`SchedulerImplementsTaskGraph`), and checked in `scheduler` |
| `AgentRuntime` | `TaskGraph` | through the scheduler it contains; proved (`RuntimeImplementsTaskGraph`) |
| `InvocationChannel` | `RemoteCall` | request as built, request and response of the handler, what the caller was told; packets, threads and regions are hidden; proved (`ChannelImplementsRemoteCall`), and checked in `invocation` |
| `ControlDaemon` | `RemoteCall` | the same; a refusal before dispatch counts as a failure; proved (`ControlPlaneImplementsRemoteCall`), and checked in `components` |
| `ReadyQueue` | `ReadyFifo` | the sequence read from the array between its indices; proved (`QueueImplementsFifo`), and checked in `components` |

`TaskGraph` is claimed without block and wake (`Blockers = {}`), which hand an
agent to a second worker. It allows a task that was cancelled while a worker
held it to be tried again, because `fail` does so (finding 2).

`AgentRuntime` and `TopRuntime` contain the actions of the scheduler and of the
manager. That their steps are steps of the contained component
(`RuntimeRefinesScheduler`, `ServiceKeepsProtocol`) holds by this construction; it
is a lemma that carries the theorems of the parts over, and not counted as a
result.

`RemoteCall` lets the execution follow the failure: a caller that has given up
cannot infer that nothing happened.

## Findings

1. `scheduler_late_dependent`: an agent submitted after its dependency has
   failed or been cancelled waits for ever.
2. `runtime_cancel_kept`: `fail` re-queues an agent with retries left even if it
   was cancelled meanwhile, so that it is executed again.
3. `runtime_stop_hangs`: a token made before `stop` raises the flag and
   registered after `stop` has gone through the map is never set; without a
   deadline, `stop` does not return.
4. `top_release_race`: `release_context` returns a sequence to the pool before it
   clears it, and may clear the turn of the next context.

Behaviours that the models contain and no property forbids, each noted with its
hazard: an invocation is marked running before its token is in the map, and a
cancel in between does not reach it; two runs of `ProcessExecutor` rejected at
the same time may each hold the other's barrier open (excepted in `RunsReturn` by
name); a descendant that ignores SIGTERM survives a leader that exits in time; daemons whose starts overlap, or
overlap with a stop, may unlink each other's socket; `used_size` of the block
pool wraps.

`HistoryKept` is claimed only where the engine can drop the positions of a failed
turn (`RollbackMayFail = FALSE`): if it cannot, `llm_inference` empties the whole
sequence while the history stays, and nothing realigns them.

The properties next to them say what holds nevertheless: `Settles` names exactly
the agents that wait in (1); `NoForeignTurns` shows that the race in (4) loses
turns but never shows those of another conversation, because a first turn starts
by emptying its sequence and a restore does the same.

`ReservationsCover` excepts one execution of each cancelled agent: `cancel`
returns the reservation although the process is still being killed, and what it
holds may be promised again until it has ended. An agent that was blocked, woken
and handed to a second worker reserves once per execution, and a report of either
gives back one share, so the counters cover the other.

`NoSpuriousCancel` compares the token of an attempt with the history variable
`asked`: the agents for which `cancel` has been called since a worker last took
them. A cancellation of an earlier attempt is thus no excuse for a token that is
set in a later one.

## Proofs

The theorems hold for every value of the constants that satisfies the named
`ASSUME` of each module (`SchedulerAssumption`, `RuntimeAssumption`,
`ContextAssumption`, `TopAssumption`, `LlamaAssumption`, `KVAssumption`,
`QueueAssumption`, `ExecutorAssumption`, `EngineAssumption`,
`ChannelAssumption`, `DaemonAssumption`, `InvocationAssumption`,
`ControlAssumption`, `RegionAssumption`, `WireAssumption`): types, limits that
are not zero, null values that are not members of their sets, names of calls
that are not names of daemons, finite sets where something is counted (agents of
the scheduler and of a daemon, handles, waiting threads), for the wire words of
more than one value (`WordRange >= 2`, so that "no process" can be sent), and for
the runtime `Blockers = {}`.

* `AgentSchedulerProofs`: `SchedulerInv` is inductive. `ReadyConsistent` is
  inductive with the types; the reservation properties need the flags
  (`ReservationFlags`: what the counter holds is what flagged agents asked for),
  without which a late report could give back twice. `ReservationsCover` needs
  one share per execution and one for a flagged agent without any
  (`ReservationShares`), which a dispatch raises by what it reserves and which a
  report, a failure and a cancellation lower by at least what they give back. `DependenciesMet` and
  `NoLostWakeup` need `DependencyCounts`: the counter is the number of positions
  of the dependency vector that are not completed. This needs that
  completion is final (`CompletionIsFinal`), which needs `SoleExecution`: no worker holds a completed agent, so that no late
  failure re-queues one. `StopsCascade` follows from the definition of
  `LiveDescendants` as a least fixed point.
  `SchedulerImplementsTaskGraph` adds that dependencies have no cycle
  (`NoAgentWaitsForItself`: only a submission changes them, and it has been asked
  for cycles). Without it an agent might be its own descendant; with it, the
  agents that `cancel_descendants_locked` reaches are exactly those that depend on
  the one that ends or on one of them (`CascadeExact`). Every operation is then a
  step of `TaskGraph`, or changes nothing that it can see. One lemma per
  operation.
* `AgentRuntimeProofs`: all of the above holds of the composition
  (lemma `RuntimeRefinesScheduler`). `RuntimeInv` is inductive relative to
  `SchedulerInv`, and the runtime implements `TaskGraph` as well
  (`RuntimeImplementsTaskGraph`). `ExecutionsDisjoint` is the pivot: one worker
  per agent is what makes the token map, indexed by agent, exact.
  `NoSpuriousCancel` needs that a token made while the flag was up is registered
  only when nothing runs any more (`OwnerInv`).
* `ListProofs`: appending, dropping and touching keep a list without repetition
  (the contexts, the shared prompts); a part of a packet is where the writer has
  put it (`Within`), a packet with a header is one the reader accepts (both
  protocols); what holds of the first number and of each next one holds of all
  (`Stepwise`, from the least element of a set of numbers).
* `ContextManagerProofs`: `ContextInv` is inductive. It says that the stack lists
  exactly the sequences nobody has taken (`SequencesPooled`), that the order of
  access lists exactly the contexts (`Reachable`), and what the acquire under way
  may rely on after its callback (`CallSound`: the victim is still resident and
  not pinned, the wanted context still swapped). One lemma per operation.
  `ContextsAreSound` collects what the service relies on: no sequence shared or
  lost, no context unreachable (`ContextsSound`). `GaugesAreExact`: the four
  gauges are the sizes of four sets (`GaugesCount`). Every context has finitely
  many owners because each was added by an acquire; this is part of the
  invariant, so nothing is assumed of `Agents`.
* `TopRuntimeProofs`: the theorems about the manager hold inside the service, with
  any number of threads (`ServicePinsHold`, `ServiceSequences`, `ServiceGauges`).
  `ServiceInv` is then inductive
  relative to `ContextInv`. `conversation_mutex_` has exactly the holder the
  threads imply (`MutexExact`), so only one thread generates at a time, and what
  has to be said of the others is what `release_context` does beside it. The
  lease of the holder is what the table says until it settles, or the context has
  been released meanwhile and its releaser has yet to erase the history
  (`LeaseExact`); a context is pinned exactly while its turn is made
  (`PinsExact`), so that it is not released then. A new context has neither
  checkpoint nor history and one owner before its first turn has settled, which
  is why `Abandon` always ends it. A free sequence that is not empty has a thread
  about to clear it, and a checkpoint or history of a released context a thread
  about to drop it (`SequencesLeft`, `SnapshotsLeft`, `HistoriesLeft`). From
  these follow `ServiceTypes`, `ServiceNoForeignTurns` (a sequence that is handed
  on before it is cleared goes to a first turn, which starts with an empty cache,
  or to a restore, which overwrites it) and `ServiceSnapshots`. One lemma per
  action; that `ContextInv` holds after the step comes from the manager.
  `ServiceContextsBegun` is inductive relative to `ServiceInv`: a context without
  a turn has exactly one owner and is the lease of the thread that makes its
  first one, so that `Abandon` removes it unless its owner did so in between.
  `OneThreadKeepsHistory` adds `HistoryInv`: every context that is not in its
  first turn holds as many turns, in its sequence or its checkpoint, as its
  history has messages, plus the one that is made and not settled yet
  (`HistoriesExact`), and no sequence is in use while a thread is about to clear
  it (`ClearsUnused`). Its two assumptions are on constants: one thread, since
  with two a generate reuses a sequence that a release has freed and not cleared
  (`top_release_race`), and `RollbackMayFail = FALSE`, since otherwise a failed
  turn empties the sequence and leaves the history.
* `ComponentsProofs`:
  * `LlamaInv`: whoever has a lock is at a place in the code that has it and
    nobody else is (`LocksExact`), from which a thread that has found a model
    still finds it after it has waited (`LlamaModelHeld`); the order of use
    lists the entries in use (`InUseListed`), without which there might be
    nothing to evict; every entry and every private sequence holds what it
    should (`LlamaPrefixes`).
  * `KVInv`: `HeldBlocksCounted` is inductive with the types, given that nobody
    holds a range of a cache that is not there. Sharing and releasing change the
    number of holders of each block of a range by one (`RangeGained`,
    `RangeLost`). `KVExclusive` follows: a call touches blocks of its own range,
    or free ones, and an exclusive block is neither.
  * `QueueInv`: `NoWaiterForgotten` needs that the next free cell lies behind the
    last entry, and that threads are inside a call only while the lock exists.
    `QueueImplementsFifo` reads the array between its indices as a sequence
    (`Contained`): adding appends, removing from the middle and updating are the
    removal of one position (`WithoutFirst`) and an insertion, whatever the size
    of the array and wherever the indices have wrapped.
  * `ExecutorInv` relates, for each worker, its stage to the process of its
    child (`ChildFollows`), to the ends of its barrier (`BarrierHolds`) and the
    bytes written to those kept and those in the pipe (`BytesAddUp`);
    `RunsAccounted` is what remains of them when a run ends.
  * `EngineInv` adds to `EngineConsistent` that ids are not used twice, that
    each reservation is that of a context, and that their sum is within the width
    of the counters. The last is what lets the unsigned sum in `try_reserve` be
    read as a sum (`ReservedIs`), from which no admission exceeds the memory
    (`AdmissionFits`), from which the sum stays within the width.
  * `ComponentsTypes`: a behaviour that drives one component at a time is one of
    each of them, so that the types of all follow from `LlamaTypes`, `KVTypes`,
    `QueueTypes`, `EngineTypes` and the invariants of executor and control plane.
* `ControlDaemonProofs`:
  * `SocketInv`: as long as no start has overlapped, no other daemon starts or
    stops while one starts, and only one is between the `unlink` or `bind` of
    `open_socket` and the end of `stop`, so that no step that unlinks a path
    meets a listener (`DaemonSocketKept`).
  * `ControlRequestRoundTrip` and `ControlResponseRoundTrip`: what an encoder of
    `control_protocol.cpp` accepts is what the decoder returns, for tasks with any
    number of dependencies and arguments, and for any number of agents. A list of
    strings or agents is a list of parts of different lengths; that the reader
    finds each where the writer has put it (`StringsAt`, `AgentsAt`) is an
    induction over one fixed property, for which `Stepwise` is enough.
  * `ControlInv` is inductive with the types. A call is held by at most one
    daemon, and there in one place, as the connection it serves or once in its
    backlog (`OpenOnce`); a call that waits has not been served (`OpenUnseen`).
    Requests, answers and their packets are the encodings of each other
    (`Packets`), of values that the types allow: in particular every response
    that `dispatch` makes is one (`DispatchedTyped`), for which the agents of a
    daemon keep their types through submission, completion, failure and
    cancellation (`NodesTyped`). Per call, the stage of `exchange` fits what is on
    the wire: what a daemon reads is what was asked, or a packet of another
    version, which it refuses; what it has dispatched is what was asked, once;
    what comes back is its answer, after it has dropped the connection (`CallOK`).
    A connection that is accepted, dropped or lost moves the others up
    (`Moved`), for a backlog of any length.
  * `ControlPlaneImplementsRemoteCall`: with the round trips, only `Begin`,
    `Handle` and `Return` are steps of `RemoteCall`. That no retry, timeout or
    crash makes a daemon dispatch twice for one call is `OpenOnce` with
    `OpenUnseen`.
* `InvocationChannelProofs`:
  * `RequestRoundTrip` and `ResponseRoundTrip`: for every request and response
    the types allow, of any length, what an encoder of `invocation_protocol.cpp`
    accepts is what the decoder returns. Strings and lists are contiguous parts
    of the packet (`Within`), so no induction is needed.
  * `ChannelInv` is inductive. Per call, the stages of the caller and of the
    thread fit each other and the packets between them (`CallExact`,
    `AnswerExact`); the packet in a connection is the encoding of what the
    handler was or will be given, which with the round trips makes the
    received value known. Regions are held only by those the stages name
    (`HeldExact`), mapped for writing only by a client that verifies its output
    and by a server until its response leaves (`WritableExact`), and what is
    sealed is the output of a concluded call whose response has left
    (`SealedExact`); the backlog and the count of clients are exact (`BacklogExact`,
    `ClientsCounted`). `StopWaits`, `NothingLeaks` and `ResultsImmutable` follow.
  * `ChannelImplementsRemoteCall`: with the round trips, only `Begin`, `Handle`
    and the two conclusions are steps of `RemoteCall`; every other step of
    caller, thread or server is a stutter of it.

Only model-checked: liveness (`Settles`, `StopReturns`, `LockReturned`,
`CallsReturn`, `DrivenRunsReturn`, `DaemonResponds`), which rests on fairness and
ENABLED, and the violations, which are counterexamples. Every other property of
a run is stated by a theorem. `LiveDescendants` and `HasCycle` are stated without
recursion, since no theorem about a recursive operator can be proved.

## Not modelled

* `CgroupManager`: writes to files without state of its own; its failures are
  steps of `AgentRuntime`.
* The agent and resource tables of `agent_runtime_top`: libraries that no program
  of the repository uses, each call under one lock.
* `ToolManager`: dispatch to three tools without state.
* The rings of `SharedMemoryChannel` and `EventNotifier`: used by demos only.
* `fetch_result` of the control client: reads what has arrived and is sealed.
* JSON extraction, chat templates, command-line parsing, printing: data layout
  without state. Sampling and tokenising: work of llama.cpp.
* Metrics, sessions and counters that only grow; the build of the service
  without llama.cpp, which simulates it.
* Peer credentials and permissions: all processes run under one user.

## Plan

Done, in this order: `AgentScheduler`, `AgentRuntime` (composition), their
proofs, `ContextManager`, `TopRuntime` (composition), their proofs; then the
channels with their protocols and `RemoteCall`, `ProcessExecutor`,
`ControlDaemon`, `ModelEngine`, `LlamaEngine`, `KVCache`, `ReadyQueue` with
`ReadyFifo`.

Proofs: `AgentScheduler` and its refinement of `TaskGraph`, `AgentRuntime`,
`ContextManager` with its gauges, `TopRuntime`,
`LlamaEngine`, `KVCache`, `ReadyQueue` and its
refinement of `ReadyFifo`, `ProcessExecutor`, `ModelEngine`, both protocols,
`InvocationChannel` and `ControlDaemon` with their refinements of `RemoteCall`.

What is left is outside the provers' reach (above) or outside the models (Not
modelled).
