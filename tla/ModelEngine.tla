---------------------------- MODULE ModelEngine ----------------------------
(***************************************************************************)
(* agent-runtime's own engine: model_engine.cpp (built with llama.cpp) and  *)
(* the admission table and memory samples of resource_monitor.cpp.  Every   *)
(* method holds mutex_ for its whole body, so each is one action; whether a *)
(* step of it fails is a choice of the environment.  Agents release and     *)
(* suspend only contexts they lease, and every context has a snapshot path  *)
(* of its own.  Tokens, sampler and times are left out.                     *)
(***************************************************************************)
EXTENDS Integers, FiniteSets

CONSTANTS
  EngineAgents,
  NoLease,          \* kInvalidAgentId
  MaxContexts,      \* config.max_contexts
  MaxIds,           \* bound: context ids that are handed out
  ModelBytes,       \* reservation while the model is loaded
  ContextBytes,     \* config.context_reservation_bytes
  SafetyMargin,     \* config.safety_margin_bytes
  MemorySamples,    \* what the system may report: available, limit, current
  Width             \* 2^w of the unsigned byte counts

ASSUME EngineAssumption ==
  /\ MaxContexts \in Nat
  /\ MaxIds \in Nat
  /\ Width \in Nat \ {0}
  /\ {ContextBytes, ModelBytes, SafetyMargin} \subseteq 0 .. (Width - 1)
  /\ NoLease \notin EngineAgents
  /\ MemorySamples \subseteq [available : 0 .. (Width - 1), limit : 0 .. (Width - 1),
                               current : 0 .. (Width - 1)]

VARIABLES
  modelLoaded,      \* model_ is not null
  contexts,         \* contexts_: the slots by id
  nextContextId,    \* next_context_id_
  reservations,     \* reservations_: bytes by owner
  snapshotFile,     \* the snapshot of each id: "none", "good" or "bad"
  leases,           \* what each agent acquired and has not given back
  memory            \* what /proc/meminfo and the cgroup files report now

engineVars == <<modelLoaded, contexts, nextContextId, reservations,
                snapshotFile, leases, memory>>

ContextIds == 1 .. MaxIds
ModelOwner == 0     \* kModelReservationId: no context has it
Slots == [owner : EngineAgents \cup {NoLease}, resident : BOOLEAN, cancel : BOOLEAN]

EngineTypeOK ==
  /\ modelLoaded \in BOOLEAN
  /\ DOMAIN contexts \subseteq ContextIds
  /\ contexts \in [DOMAIN contexts -> Slots]
  /\ nextContextId \in 1 .. (MaxIds + 1)
  /\ reservations \in [DOMAIN reservations -> 0 .. (Width - 1)]
  /\ snapshotFile \in [ContextIds -> {"none", "good", "bad"}]
  /\ leases \in [EngineAgents -> SUBSET ContextIds]
  /\ memory \in MemorySamples

-----------------------------------------------------------------------------
\* Unsigned arithmetic.
Minus(a, b) == (a - b) % Width
Plus(a, b) == (a + b) % Width

\* ResourceMonitor::sample: the cgroup limit, if any, caps what the system has.
AvailableBytes(m) ==
  LET room == IF m.limit > m.current THEN m.limit - m.current ELSE 0
  IN  IF m.limit > 0 /\ room < m.available THEN room ELSE m.available

\* What the owners other than one have reserved: the pairs of an owner and one
\* of its bytes, counted by an unsigned sum.
ReservedByOthers(owner) ==
  Cardinality(UNION {{id} \X (1 .. reservations[id]) : id \in DOMAIN reservations \ {owner}}) % Width

\* The mutant subtracts the margin without asking whether it is there.
AllocatableUnguarded(owner, m) ==
  LET available == AvailableBytes(m)
      reserved == ReservedByOthers(owner)
      protected == IF reserved >= Minus(available, SafetyMargin)
                   THEN available ELSE Plus(SafetyMargin, reserved)
  IN  Minus(available, protected)

\* The bytes try_reserve still gives to an owner.
Allocatable(owner, m) ==
  LET available == AvailableBytes(m)
      reserved == ReservedByOthers(owner)
      protected == IF \/ SafetyMargin >= available
                      \/ reserved >= Minus(available, SafetyMargin)
                   THEN available ELSE Plus(SafetyMargin, reserved)
  IN  Minus(available, protected)

Admits(owner, bytes) == bytes <= Allocatable(owner, memory)

Reserve(owner, bytes) ==
  reservations' = [id \in DOMAIN reservations \cup {owner} |->
                     IF id = owner THEN bytes ELSE reservations[id]]

ReleaseReservation(owner) ==
  reservations' = [id \in DOMAIN reservations \ {owner} |-> reservations[id]]

Resident == {id \in DOMAIN contexts : contexts[id].resident}
Idle == {id \in Resident : contexts[id].owner = NoLease}
Leased(slot, a) == [slot EXCEPT !.owner = a, !.cancel = FALSE]

-----------------------------------------------------------------------------
EngineInit ==
  /\ modelLoaded = FALSE
  /\ contexts = <<>>
  /\ nextContextId = 1
  /\ reservations = <<>>
  /\ snapshotFile = [id \in ContextIds |-> "none"]
  /\ leases = [a \in EngineAgents |-> {}]
  /\ memory \in MemorySamples

\* The reservation of the model is held only while it is loaded: the loaded
\* model is mapped and counted by the system.  A failed load leaves nothing.
Initialize ==
  /\ ~modelLoaded
  /\ Admits(ModelOwner, ModelBytes)
  /\ modelLoaded' = TRUE
  /\ UNCHANGED <<contexts, nextContextId, reservations, snapshotFile, leases, memory>>

\* acquire, first loop: any resident context that nobody leases.
AcquireIdle(a, id) ==
  /\ modelLoaded
  /\ id \in Idle
  /\ contexts' = [contexts EXCEPT ![id] = Leased(@, a)]
  /\ leases' = [leases EXCEPT ![a] = @ \cup {id}]
  /\ UNCHANGED <<modelLoaded, nextContextId, reservations, snapshotFile, memory>>

\* acquire, when a new context must be made: below the limit, with memory for it.
AcquireNew(a) ==
  LET id == nextContextId
      slot == [owner |-> a, resident |-> TRUE, cancel |-> FALSE]
  IN  /\ modelLoaded
      /\ Idle = {}
      /\ Cardinality(Resident) < MaxContexts
      /\ id <= MaxIds
      /\ Admits(id, ContextBytes)
      /\ Reserve(id, ContextBytes)
      /\ contexts' = [i \in DOMAIN contexts \cup {id} |-> IF i = id THEN slot ELSE contexts[i]]
      /\ nextContextId' = id + 1
      /\ leases' = [leases EXCEPT ![a] = @ \cup {id}]
      /\ UNCHANGED <<modelLoaded, snapshotFile, memory>>

\* The id is spent when admission refuses it, or when llama.cpp makes no
\* context and the reservation is taken back.
AcquireFails ==
  /\ modelLoaded
  /\ Idle = {}
  /\ Cardinality(Resident) < MaxContexts
  /\ nextContextId <= MaxIds
  /\ nextContextId' = nextContextId + 1
  /\ UNCHANGED <<modelLoaded, contexts, reservations, snapshotFile, leases, memory>>

Release(a, id) ==
  /\ id \in leases[a]
  /\ contexts' = [contexts EXCEPT ![id] = Leased(@, NoLease)]
  /\ leases' = [leases EXCEPT ![a] = @ \ {id}]
  /\ UNCHANGED <<modelLoaded, nextContextId, reservations, snapshotFile, memory>>

\* The state is written to the snapshot file, then the context is freed.
Suspend(a, id) ==
  /\ id \in leases[a]
  /\ contexts[id].resident
  /\ snapshotFile' = [snapshotFile EXCEPT ![id] = "good"]
  /\ contexts' = [contexts EXCEPT ![id].resident = FALSE, ![id].owner = NoLease]
  /\ ReleaseReservation(id)
  /\ leases' = [leases EXCEPT ![a] = @ \ {id}]
  /\ UNCHANGED <<modelLoaded, nextContextId, memory>>

\* The file has been truncated and not completely written; the context stays.
SuspendFails(a, id) ==
  /\ id \in leases[a]
  /\ contexts[id].resident
  /\ snapshotFile' = [snapshotFile EXCEPT ![id] = "bad"]
  /\ UNCHANGED <<modelLoaded, contexts, nextContextId, reservations, leases, memory>>

\* The context is made again and its state read back; it has no owner.
ResumeContext(id) ==
  /\ id \in DOMAIN contexts \ Resident
  /\ Cardinality(Resident) < MaxContexts
  /\ Admits(id, ContextBytes)
  /\ snapshotFile[id] = "good"
  /\ Reserve(id, ContextBytes)
  /\ contexts' = [contexts EXCEPT ![id].resident = TRUE, ![id].cancel = FALSE]
  /\ UNCHANGED <<modelLoaded, nextContextId, snapshotFile, leases, memory>>

RequestCancel(id) ==
  /\ id \in DOMAIN contexts
  /\ contexts' = [contexts EXCEPT ![id].cancel = TRUE]
  /\ UNCHANGED <<modelLoaded, nextContextId, reservations, snapshotFile, leases, memory>>

\* The rest of the machine uses and frees memory.
MemoryChanges(m) ==
  /\ memory' = m
  /\ UNCHANGED <<modelLoaded, contexts, nextContextId, reservations, snapshotFile, leases>>

EngineNext ==
  \/ Initialize
  \/ \E a \in EngineAgents, id \in ContextIds : AcquireIdle(a, id)
  \/ \E a \in EngineAgents : AcquireNew(a)
  \/ AcquireFails
  \/ \E a \in EngineAgents, id \in ContextIds : Release(a, id)
  \/ \E a \in EngineAgents, id \in ContextIds : Suspend(a, id)
  \/ \E a \in EngineAgents, id \in ContextIds : SuspendFails(a, id)
  \/ \E id \in ContextIds : ResumeContext(id)
  \/ \E id \in ContextIds : RequestCancel(id)
  \/ \E m \in MemorySamples : MemoryChanges(m)

EngineSpec == EngineInit /\ [][EngineNext]_engineVars

-----------------------------------------------------------------------------
\* Every context is in exactly one of two conditions, however its suspensions
\* and resumptions failed: resident, with its reservation in the admission
\* table, or suspended, without one and with a complete snapshot to come back
\* from; and the resident ones are within the limit.
ContextsAccounted ==
  /\ DOMAIN reservations = Resident
  /\ \A id \in DOMAIN contexts \ Resident : snapshotFile[id] = "good"
  /\ Cardinality(Resident) <= MaxContexts

\* A context that an agent has acquired is its own until it gives it back:
\* no other agent is handed it, and it is not freed under the holder.
LeasesExclusive ==
  \A a \in EngineAgents : \A id \in leases[a] :
    id \in Resident /\ contexts[id].owner = a

\* The unsigned arithmetic of the admission never wraps: whenever a reservation
\* is added, all reservations and the safety margin fit in the available bytes.
\* (A configuration that reserves no bytes for a context is always admitted.)
AdmittedFits ==
  [][ContextBytes > 0 /\ DOMAIN reservations' \ DOMAIN reservations # {} =>
       ContextBytes * Cardinality(DOMAIN reservations') + SafetyMargin
         <= AvailableBytes(memory)]_engineVars

\* All three together: the table of contexts, the table of reservations, the
\* files and the holders agree in every state, whatever fails, and no step
\* promises memory that is not there.
EngineConsistent == [](ContextsAccounted /\ LeasesExclusive) /\ AdmittedFits

\* The inductive invariant: ids are not used twice, every reservation is that
\* of a context, and their sum is within the width of the counters.
EngineInv ==
  /\ EngineTypeOK
  /\ ContextsAccounted
  /\ LeasesExclusive
  /\ \A id \in DOMAIN contexts : id < nextContextId
  /\ \A id \in Resident : reservations[id] = ContextBytes
  /\ ContextBytes * Cardinality(Resident) < Width
=============================================================================
