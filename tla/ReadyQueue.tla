----------------------------- MODULE ReadyQueue -----------------------------
(***************************************************************************)
(* The ready queue of agent_runtime_top/src/scheduler.c: a circular array   *)
(* under a mutex, with a condition variable for scheduler_pick_next.  Every *)
(* call runs under the lock and is one action, except that pick_next gives  *)
(* the lock up while it waits: a thread in it is in `waiting` until it is   *)
(* signalled (or wakes by itself), then in `awake` until it has the lock    *)
(* again.  The counters of scheduler_get_stats are left out.                *)
(***************************************************************************)
EXTENDS Naturals, FiniteSets, Sequences

CONSTANTS
  QueueAgents,    \* agent ids other than 0
  QueueSize,      \* config->max_agents
  NoId,           \* the id 0 that calloc leaves in the array
  Pickers         \* threads that call scheduler_pick_next

ASSUME QueueAssumption ==
  /\ QueueSize \in Nat \ {0}
  /\ NoId \notin QueueAgents
  /\ IsFiniteSet(Pickers)

VARIABLES
  queueReady,     \* g_scheduler.initialized
  queueRunning,   \* g_scheduler.running
  queue, head, tail, count,
  waiting,        \* threads blocked in pthread_cond_wait
  awake           \* threads woken from it that do not hold the lock yet

queueVars == <<queueReady, queueRunning, queue, head, tail, count, waiting, awake>>
ring == <<queue, head, tail, count>>

Cells == 0 .. (QueueSize - 1)

QueueTypeOK ==
  /\ queueReady \in BOOLEAN
  /\ queueRunning \in BOOLEAN
  /\ queue \in [Cells -> QueueAgents \cup {NoId}]
  /\ head \in Cells
  /\ tail \in Cells
  /\ count \in 0 .. QueueSize
  /\ waiting \subseteq Pickers
  /\ awake \subseteq Pickers
  /\ waiting \cap awake = {}

-----------------------------------------------------------------------------
\* The cell of the i-th entry from the head, and the entry a cell holds.
Cell(i) == (head + i) % QueueSize
Entry(c) == (c + QueueSize - head) % QueueSize

Places(a) == {i \in 0 .. (count - 1) : queue[Cell(i)] = a}
FirstPlace(a) == CHOOSE i \in Places(a) : \A j \in Places(a) : i <= j

\* pthread_cond_signal wakes one waiting thread if there is one, broadcast all.
Signal ==
  \/ waiting = {} /\ UNCHANGED <<waiting, awake>>
  \/ \E p \in waiting : waiting' = waiting \ {p} /\ awake' = awake \cup {p}
Broadcast == waiting' = {} /\ awake' = awake \cup waiting

QueueInit ==
  /\ queueReady = FALSE
  /\ queueRunning = FALSE
  /\ queue = [c \in Cells |-> NoId]
  /\ head = 0 /\ tail = 0 /\ count = 0
  /\ waiting = {} /\ awake = {}

Zeroed ==
  /\ queueRunning' = FALSE
  /\ queue' = [c \in Cells |-> NoId]
  /\ head' = 0 /\ tail' = 0 /\ count' = 0

SchedulerInit == ~queueReady /\ queueReady' = TRUE /\ Zeroed /\ UNCHANGED <<waiting, awake>>

\* The array is freed, the lock and the condition variable go away.  Destroying
\* them is defined only while no thread is inside a call; scheduler_destroy stops
\* the queue but does not wait for the pickers it wakes, so that its caller has to.
\* The guard is this duty of the caller; nothing in the repository calls it.
SchedulerDestroy ==
  /\ queueReady
  /\ waiting \cup awake = {}
  /\ queueReady' = FALSE
  /\ Zeroed
  /\ UNCHANGED <<waiting, awake>>

\* The mutants forget the signal, and the test for a full array.
SchedulerAddSilently(a) ==
  /\ queueReady
  /\ count < QueueSize
  /\ queue' = [queue EXCEPT ![tail] = a]
  /\ tail' = (tail + 1) % QueueSize
  /\ count' = count + 1
  /\ UNCHANGED <<queueReady, queueRunning, head, waiting, awake>>

SchedulerAddUnbounded(a) ==
  /\ queueReady
  /\ count <= QueueSize
  /\ queue' = [queue EXCEPT ![tail] = a]
  /\ tail' = (tail + 1) % QueueSize
  /\ count' = count + 1
  /\ Signal
  /\ UNCHANGED <<queueReady, queueRunning, head>>

\* scheduler_add_agent; scheduler_yield and scheduler_unblock only call it.
SchedulerAddAgent(a) ==
  /\ queueReady
  /\ count < QueueSize
  /\ queue' = [queue EXCEPT ![tail] = a]
  /\ tail' = (tail + 1) % QueueSize
  /\ count' = count + 1
  /\ Signal
  /\ UNCHANGED <<queueReady, queueRunning, head>>

\* The mutant shifts the entries as if the array did not wrap around.
SchedulerRemoveFlat(a) ==
  LET i == FirstPlace(a)
      Moves(c) == Cell(i) <= c /\ c < QueueSize - 1
  IN  /\ queueReady
      /\ Places(a) # {}
      /\ queue' = [c \in Cells |-> IF Moves(c) THEN queue[c + 1] ELSE queue[c]]
      /\ tail' = (tail + QueueSize - 1) % QueueSize
      /\ count' = count - 1
      /\ UNCHANGED <<queueReady, queueRunning, head, waiting, awake>>

\* scheduler_remove_agent; scheduler_block only calls it.  The entries behind move up.
SchedulerRemoveAgent(a) ==
  LET i == FirstPlace(a)
      Moves(c) == i <= Entry(c) /\ Entry(c) < count - 1
  IN  /\ queueReady
      /\ Places(a) # {}
      /\ queue' = [c \in Cells |-> IF Moves(c) THEN queue[Cell(Entry(c) + 1)] ELSE queue[c]]
      /\ tail' = (tail + QueueSize - 1) % QueueSize
      /\ count' = count - 1
      /\ UNCHANGED <<queueReady, queueRunning, head, waiting, awake>>

\* The agent bubbles to the front, the entries before it move back by one.
SchedulerUpdateAgent(a) ==
  LET i == FirstPlace(a)
  IN  /\ queueReady
      /\ Places(a) # {}
      /\ queue' = [c \in Cells |-> IF Entry(c) = 0 THEN a
                                   ELSE IF Entry(c) <= i THEN queue[Cell(Entry(c) - 1)]
                                   ELSE queue[c]]
      /\ UNCHANGED <<queueReady, queueRunning, head, tail, count, waiting, awake>>

\* The part of scheduler_pick_next from the moment the thread has the lock.
PickOrWait(p) ==
  \/ /\ count = 0 /\ queueRunning
     /\ waiting' = waiting \cup {p}
     /\ awake' = awake \ {p}
     /\ UNCHANGED ring
  \/ /\ count = 0 /\ ~queueRunning
     /\ awake' = awake \ {p}
     /\ UNCHANGED <<ring, waiting>>
  \/ /\ count > 0
     /\ head' = (head + 1) % QueueSize
     /\ count' = count - 1
     /\ awake' = awake \ {p}
     /\ UNCHANGED <<queue, tail, waiting>>

SchedulerPickNext(p) ==
  /\ queueReady
  /\ p \notin waiting \cup awake
  /\ PickOrWait(p)
  /\ UNCHANGED <<queueReady, queueRunning>>

\* pthread_cond_wait returns and the loop tests its condition again.
Resume(p) ==
  /\ p \in awake
  /\ PickOrWait(p)
  /\ UNCHANGED <<queueReady, queueRunning>>

SpuriousWakeup(p) ==
  /\ p \in waiting
  /\ waiting' = waiting \ {p}
  /\ awake' = awake \cup {p}
  /\ UNCHANGED <<queueReady, queueRunning, ring>>

SchedulerStart ==
  queueReady /\ queueRunning' = TRUE /\ Broadcast /\ UNCHANGED <<queueReady, ring>>

SchedulerStop ==
  queueReady /\ queueRunning' = FALSE /\ Broadcast /\ UNCHANGED <<queueReady, ring>>

QueueNext ==
  \/ SchedulerInit
  \/ SchedulerDestroy
  \/ \E a \in QueueAgents : SchedulerAddAgent(a)
  \/ \E a \in QueueAgents : SchedulerRemoveAgent(a)
  \/ \E a \in QueueAgents : SchedulerUpdateAgent(a)
  \/ \E p \in Pickers : SchedulerPickNext(p)
  \/ \E p \in Pickers : Resume(p)
  \/ \E p \in Pickers : SpuriousWakeup(p)
  \/ SchedulerStart
  \/ SchedulerStop

QueueSpec == QueueInit /\ [][QueueNext]_queueVars

-----------------------------------------------------------------------------
\* The entries from head to tail, in order.
Contained == [i \in 1 .. count |-> queue[Cell(i - 1)]]

Fifo == INSTANCE ReadyFifo WITH FifoAgents <- QueueAgents,
                                Capacity <- QueueSize,
                                fifo <- Contained

\* The circular array, its wrap-around, the shifts of remove and update and the
\* three counters together behave as a bounded first-in first-out queue.
ImplementsFifo == Fifo!FifoSpec

\* Nobody sleeps while there is work it should do: as long as a thread waits,
\* at least as many threads are on their way out of the wait as agents are
\* queued, and nobody waits on a scheduler that has been stopped.
NoWaiterForgotten ==
  /\ waiting # {} => Cardinality(awake) >= count
  /\ waiting # {} => queueReady /\ queueRunning

\* The inductive invariant: the next free cell is behind the last entry, and
\* threads are inside a call only while the lock exists.
QueueInv ==
  /\ QueueTypeOK
  /\ NoWaiterForgotten
  /\ tail = Cell(count)
  /\ awake # {} => queueReady
=============================================================================
