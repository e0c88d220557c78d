------------------------ MODULE AgentSchedulerProofs ------------------------
(***************************************************************************)
(* Proofs about AgentScheduler: SchedulerInv is inductive, and the safety  *)
(* properties of the scheduler follow from it.                             *)
(***************************************************************************)
EXTENDS AgentScheduler, FiniteSetTheorems, TLAPS

-----------------------------------------------------------------------------
(* Sums of requests *)

UnitSet(r, S) == {u \in S \X (1 .. MaxAmount) : u[2] <= Request[u[1]][r]}

(* The units a set of agents asks for are finitely many. *)
LEMMA UnitSetFinite ==
  ASSUME NEW r \in Resources, NEW S \in SUBSET Agents
  PROVE  /\ IsFiniteSet(UnitSet(r, S))
         /\ Units(r, S) = Cardinality(UnitSet(r, S))
         /\ Units(r, S) \in Nat
<1>1. IsFiniteSet(S)
  BY SchedulerAssumption, FS_Subset DEF SchedulerAssumption
<1>2. IsFiniteSet(1 .. MaxAmount)
  BY SchedulerAssumption, FS_Interval DEF SchedulerAssumption
<1>3. IsFiniteSet(S \X (1 .. MaxAmount))
  BY <1>1, <1>2, FS_Product
<1>4. UnitSet(r, S) \in SUBSET (S \X (1 .. MaxAmount))
  BY DEF UnitSet
<1>5. IsFiniteSet(UnitSet(r, S))
  BY <1>3, <1>4, FS_Subset
<1>6. Units(r, S) = Cardinality(UnitSet(r, S))
  BY DEF Units, UnitSet
<1> QED
  BY <1>5, <1>6, FS_CardinalityType

(* No agents ask for nothing. *)
LEMMA NoUnits ==
  ASSUME NEW r \in Resources
  PROVE  Units(r, {}) = 0
<1>1. UnitSet(r, {}) = {}
  BY DEF UnitSet
<1>2. Cardinality(UnitSet(r, {})) = 0
  BY <1>1, FS_EmptySet, Zenon
<1> QED
  BY <1>2, UnitSetFinite

(* Requests of disjoint sets of agents add up. *)
LEMMA UnitsSplit ==
  ASSUME NEW r \in Resources, NEW S \in SUBSET Agents, NEW T \in SUBSET Agents,
         S \cap T = {}
  PROVE  Units(r, S \cup T) = Units(r, S) + Units(r, T)
<1>1. UnitSet(r, S \cup T) = UnitSet(r, S) \cup UnitSet(r, T)
  BY DEF UnitSet
<1>2. UnitSet(r, S) \cap UnitSet(r, T) = {}
  BY DEF UnitSet
<1>3. Cardinality(UnitSet(r, S) \cup UnitSet(r, T)) =
        Cardinality(UnitSet(r, S)) + Cardinality(UnitSet(r, T)) - Cardinality({})
  BY <1>2, UnitSetFinite, FS_Union
<1>4. Cardinality({}) = 0
  BY FS_EmptySet
<1>5. /\ Units(r, S) = Cardinality(UnitSet(r, S)) /\ Units(r, S) \in Nat
      /\ Units(r, T) = Cardinality(UnitSet(r, T)) /\ Units(r, T) \in Nat
  BY UnitSetFinite
<1>6. Units(r, S \cup T) = Cardinality(UnitSet(r, S \cup T))
  BY UnitSetFinite
<1>7. Units(r, S \cup T) = Cardinality(UnitSet(r, S) \cup UnitSet(r, T))
  BY <1>1, <1>6, Zenon
<1> QED
  BY <1>3, <1>4, <1>5, <1>7

(* Taking some of the agents of a set away takes their requests away. *)
LEMMA UnitsRemove ==
  ASSUME NEW r \in Resources, NEW S \in SUBSET Agents, NEW T \in SUBSET Agents
  PROVE  /\ Units(r, S \ T) = Units(r, S) - Units(r, T \cap S)
         /\ Units(r, T \cap S) <= Units(r, S)
<1> DEFINE U == S \ T
           V == T \cap S
<1>1. U \in SUBSET Agents /\ V \in SUBSET Agents /\ U \cap V = {} /\ U \cup V = S
  OBVIOUS
<1>2. Units(r, U \cup V) = Units(r, U) + Units(r, V)
  BY <1>1, UnitsSplit
<1>3. Units(r, U) \in Nat /\ Units(r, V) \in Nat /\ Units(r, S) \in Nat
  BY <1>1, UnitSetFinite
<1>4. Units(r, S) = Units(r, U) + Units(r, V)
  BY <1>1, <1>2
<1> QED
  BY <1>3, <1>4

(* One agent asks for its request. *)
LEMMA UnitsSingle ==
  ASSUME NEW r \in Resources, NEW a \in Agents
  PROVE  Units(r, {a}) = Request[a][r]
<1> DEFINE n == Request[a][r]
           f == [i \in 1 .. n |-> <<a, i>>]
<1>1. n \in 0 .. MaxAmount /\ MaxAmount \in Nat
  BY SchedulerAssumption DEF SchedulerAssumption
<1>2. UnitSet(r, {a}) = {<<a, i>> : i \in 1 .. n}
  BY <1>1 DEF UnitSet
<1>3. f \in Bijection(1 .. n, UnitSet(r, {a}))
  BY <1>2 DEF Bijection, Injection, Surjection, IsInjective
<1>4. ExistsBijection(1 .. n, UnitSet(r, {a}))
  BY <1>3 DEF ExistsBijection
<1>5. Cardinality(UnitSet(r, {a})) = n
  BY <1>1, <1>4, FS_CountingElements
<1> QED
  BY <1>5, UnitSetFinite

(* Adding an agent to a set adds its request. *)
LEMMA UnitsAdd ==
  ASSUME NEW r \in Resources, NEW S \in SUBSET Agents, NEW a \in Agents
  PROVE  /\ a \notin S => Units(r, S \cup {a}) = Units(r, S) + Request[a][r]
         /\ Units(r, S \cup {a}) <= Units(r, S) + Request[a][r]
         /\ Units(r, S \cup {a}) \in Nat
         /\ Request[a][r] \in 0 .. MaxAmount
<1>1. a \notin S => Units(r, S \cup {a}) = Units(r, S) + Units(r, {a})
  <2>1. a \notin S => S \cap {a} = {}
    OBVIOUS
  <2> QED
    BY <2>1, UnitsSplit
<1>2. a \in S => Units(r, S \cup {a}) = Units(r, S)
  <2>1. a \in S => S \cup {a} = S
    OBVIOUS
  <2> QED
    BY <2>1
<1>3. Units(r, S) \in Nat /\ Units(r, S \cup {a}) \in Nat
  BY UnitSetFinite
<1>4. Request[a][r] \in 0 .. MaxAmount /\ MaxAmount \in Nat
  BY SchedulerAssumption DEF SchedulerAssumption
<1>5. Units(r, {a}) = Request[a][r]
  BY UnitsSingle
<1> QED
  BY <1>1, <1>2, <1>3, <1>4, <1>5

(* Sets of positions of a dependency list can be counted. *)
LEMMA PositionsFinite ==
  ASSUME NEW s \in Seq(Agents), NEW P \in SUBSET (DOMAIN s)
  PROVE  IsFiniteSet(P) /\ Cardinality(P) \in Nat
<1>1. DOMAIN s = 1 .. Len(s) /\ Len(s) \in Nat
  OBVIOUS
<1>2. IsFiniteSet(DOMAIN s)
  <2>1. IsFiniteSet(1 .. Len(s))
    BY <1>1, FS_Interval
  <2> QED
    BY <1>1, <2>1, Zenon
<1>3. IsFiniteSet(P)
  BY <1>2, FS_Subset
<1> QED
  BY <1>3, FS_CardinalityType

(* The part of the state a release touches: as long as the counters cover  *)
(* the flagged agents, the subtraction is exact.                           *)
LEMMA ReleaseIsExact ==
  ASSUME NEW S \in SUBSET Agents, TypeOK, ReservationFlags, ReleaseResources(S)
  PROVE  /\ reserved' \in [Resources -> 0 .. MaxAmount]
         /\ resources_reserved' \subseteq Agents
         /\ \A r \in Resources :
              /\ reserved'[r] >= Units(r, resources_reserved')
              /\ reserved[r] = Units(r, resources_reserved) =>
                   reserved'[r] = Units(r, resources_reserved')
<1>1. resources_reserved \in SUBSET Agents
  BY DEF TypeOK
<1>2. resources_reserved' = resources_reserved \ S
  BY DEF ReleaseResources
<1>3. ASSUME NEW r \in Resources
      PROVE  /\ reserved'[r] \in 0 .. MaxAmount
             /\ reserved'[r] >= Units(r, resources_reserved')
             /\ reserved[r] = Units(r, resources_reserved) =>
                  reserved'[r] = Units(r, resources_reserved')
  <2>1. Units(r, resources_reserved') =
          Units(r, resources_reserved) - Units(r, S \cap resources_reserved)
    BY <1>1, <1>2, UnitsRemove
  <2>2. Units(r, S \cap resources_reserved) <= Units(r, resources_reserved)
    BY <1>1, UnitsRemove
  <2>3. Units(r, resources_reserved) \in Nat
    BY <1>1, UnitSetFinite
  <2>4. Units(r, S \cap resources_reserved) \in Nat
    BY <1>1, UnitSetFinite
  <2>5. reserved[r] >= Units(r, resources_reserved) /\ reserved[r] \in 0 .. MaxAmount
    BY DEF ReservationFlags, TypeOK
  <2>6. reserved'[r] = Minus(reserved[r], Units(r, S \cap resources_reserved))
    BY DEF ReleaseResources
  <2>7. reserved'[r] = reserved[r] - Units(r, S \cap resources_reserved)
    BY <2>2, <2>3, <2>4, <2>5, <2>6 DEF Minus
  <2> QED
    BY <2>1, <2>2, <2>3, <2>4, <2>5, <2>7, SchedulerAssumption DEF SchedulerAssumption
<1>4. reserved' = [r \in Resources |-> reserved'[r]]
  BY DEF ReleaseResources
<1> QED
  BY <1>1, <1>2, <1>3, <1>4
-----------------------------------------------------------------------------
(* Descendants *)

(* The agents a failure or a cancellation reaches are live, and no live    *)
(* agent that depends on one of them, or on the agent itself, is left out. *)
LEMMA DescendantsClosed ==
  ASSUME NEW a \in Agents
  PROVE  /\ LiveDescendants(a) \subseteq Live
         /\ LiveDescendants(a) \subseteq Agents
         /\ \A b \in {a} \cup LiveDescendants(a) :
              Successors(b) \cap Live \subseteq LiveDescendants(a)
<1>1. LiveDescendants(a) \subseteq Live /\ LiveDescendants(a) \subseteq Agents
  BY DEF LiveDescendants, Live, Nodes
<1>2. ASSUME NEW b \in {a} \cup LiveDescendants(a),
             NEW c \in Successors(b) \cap Live
      PROVE  c \in LiveDescendants(a)
  <2>1. ASSUME NEW S \in SUBSET Live, HoldsDescendants(S, a)
        PROVE  c \in S
    <3>1. b \in {a} \cup S
      BY <2>1 DEF LiveDescendants
    <3> QED
      BY <2>1, <3>1 DEF HoldsDescendants
  <2> QED
    BY <2>1 DEF LiveDescendants
<1> QED
  BY <1>1, <1>2

-----------------------------------------------------------------------------
(* Type correctness *)

(* The empty scheduler has the right types. *)
LEMMA TypeInit == Init => TypeOK
BY SchedulerAssumption DEF SchedulerAssumption, Init, TypeOK, AgentState

(* Every operation keeps the types; that the counters stay within their    *)
(* type needs the fit test of dispatch and the exactness of releases.      *)
LEMMA TypeStep ==
  ASSUME SchedulerInv, [Next]_vars
  PROVE  TypeOK'
<1> USE SchedulerAssumption DEF SchedulerAssumption
<1>0. TypeOK /\ ReadyConsistent /\ ReservationFlags
  BY DEF SchedulerInv
<1>1. ASSUME NEW batch \in SUBSET Agents, NEW deps \in [batch -> DependencyLists],
             SubmitBatch(batch, deps)
      PROVE  TypeOK'
  <2>1. dependencies' \in [Agents -> Seq(Agents)]
    BY <1>0, <1>1 DEF SubmitBatch, TypeOK
  <2>2. unresolved' \in [Agents -> Nat]
    <3> DEFINE merged == [a \in Agents |-> IF a \in batch THEN deps[a]
                                                           ELSE dependencies[a]]
               waits(a) == {i \in DOMAIN merged[a] : CountsUnresolved(merged[a][i])}
    <3>1. ASSUME NEW a \in batch PROVE Cardinality(waits(a)) \in Nat
      <4>1. merged[a] \in Seq(Agents)
        BY <1>0 DEF TypeOK
      <4>2. waits(a) \in SUBSET (DOMAIN merged[a])
        OBVIOUS
      <4> HIDE DEF merged, waits
      <4> QED
        BY <4>1, <4>2, PositionsFinite
    <3>2. unresolved' = [a \in Agents |-> IF a \in batch THEN Cardinality(waits(a))
                                                         ELSE unresolved[a]]
      BY <1>1 DEF SubmitBatch
    <3> HIDE DEF waits
    <3> QED
      BY <1>0, <3>1, <3>2 DEF TypeOK
  <2>3. state' \in [Agents -> AgentState \cup {"absent"}]
    BY <1>0, <1>1 DEF SubmitBatch, TypeOK, AgentState
  <2>4. created_at' \in [Agents -> 0 .. MaxClock] /\ ready' \subseteq Agents
    BY <1>0, <1>1 DEF SubmitBatch, TypeOK
  <2> QED
    BY <1>0, <1>1, <2>1, <2>2, <2>3, <2>4 DEF SubmitBatch, TypeOK
<1>2. ASSUME NEW sample \in Samples, NEW a \in Agents, Dispatch(sample, a)
      PROVE  TypeOK'
  <2>1. reserved' \in [Resources -> 0 .. MaxAmount]
    <3>1. ASSUME NEW r \in Resources
          PROVE  Plus(reserved[r], Request[a][r]) \in 0 .. MaxAmount
      <4>1. /\ Request[a][r] \in 0 .. MaxAmount /\ sample[r] \in 0 .. MaxAmount
            /\ reserved[r] \in 0 .. MaxAmount
        BY <1>0 DEF TypeOK
      <4>2. Request[a][r] <= Minus(sample[r], reserved[r])
        BY <1>2 DEF Dispatch, Fitting, Allocatable
      <4> QED
        BY <4>1, <4>2 DEF Plus, Minus
    <3> QED
      BY <1>2, <3>1 DEF Dispatch
  <2>2. state' \in [Agents -> AgentState \cup {"absent"}]
    BY <1>0, <1>2 DEF Dispatch, Marked, TypeOK, AgentState
  <2>3. executing' \in [Agents -> Nat]
    BY <1>0, <1>2 DEF Dispatch, TypeOK
  <2> QED
    BY <1>0, <1>2, <2>1, <2>2, <2>3 DEF Dispatch, TypeOK, graphVars
<1>3. ASSUME NEW sample \in Samples, DispatchNothing(sample)
      PROVE  TypeOK'
  BY <1>0, <1>3 DEF DispatchNothing, Marked, TypeOK, AgentState, graphVars
<1>4. ASSUME NEW a \in Agents, MarkRunning(a) PROVE TypeOK'
  BY <1>0, <1>4 DEF MarkRunning, TypeOK, AgentState, graphVars
<1>5. ASSUME NEW a \in Agents, MarkBlocked(a) PROVE TypeOK'
  BY <1>0, <1>5 DEF MarkBlocked, TypeOK, AgentState, graphVars
<1>6. ASSUME NEW a \in Agents, Wake(a) PROVE TypeOK'
  BY <1>0, <1>6 DEF Wake, TypeOK, AgentState, graphVars
<1>7. ASSUME NEW a \in Agents, Complete(a) PROVE TypeOK'
  <2>1. executing' \in [Agents -> Nat]
    BY <1>0, <1>7 DEF Complete, Report, TypeOK
  <2>2. CASE UNCHANGED <<unresolved, state, ready, reserved, resources_reserved>>
    BY <1>0, <1>7, <2>1, <2>2 DEF Complete, TypeOK, graphVars
  <2>3. CASE CanEnter(a, "completed") /\ ReleaseResources({a})
    <3>1. reserved' \in [Resources -> 0 .. MaxAmount] /\ resources_reserved' \subseteq Agents
      BY <1>0, <2>3, ReleaseIsExact
    <3>2. unresolved' \in [Agents -> Nat]
      <4>1. ASSUME NEW b \in Agents
            PROVE  Cardinality(Occurrences(dependencies, b, a)) \in Nat
        <5>1. dependencies[b] \in Seq(Agents)
          BY <1>0 DEF TypeOK
        <5>2. Occurrences(dependencies, b, a) \in SUBSET (DOMAIN dependencies[b])
          BY DEF Occurrences
        <5> QED
          BY <5>1, <5>2, PositionsFinite
      <4>2. \/ unresolved' = unresolved
            \/ unresolved' = [b \in Agents |->
                 IF b \in Nodes
                 THEN Minus(unresolved[b],
                            Cardinality(Occurrences(dependencies, b, a)))
                 ELSE unresolved[b]]
        BY <1>7 DEF Complete
      <4>3. ASSUME NEW b \in Agents
            PROVE  Minus(unresolved[b],
                         Cardinality(Occurrences(dependencies, b, a))) \in Nat
        <5>1. unresolved[b] \in Nat
          BY <1>0 DEF TypeOK
        <5> QED
          BY <4>1, <5>1 DEF Minus
      <4>4. unresolved \in [Agents -> Nat]
        BY <1>0 DEF TypeOK
      <4> QED
        BY <4>2, <4>3, <4>4
    <3>3. state' \in [Agents -> AgentState \cup {"absent"}] /\ ready' \subseteq Agents
      BY <1>0, <1>7 DEF Complete, TypeOK, AgentState, Successors, Nodes
    <3> QED
      BY <1>0, <1>7, <2>1, <3>1, <3>2, <3>3 DEF Complete, TypeOK, graphVars
  <2> QED
    BY <1>7, <2>2, <2>3 DEF Complete
<1>8. ASSUME NEW a \in Agents, Fail(a) PROVE TypeOK'
  <2>1. executing' \in [Agents -> Nat]
    BY <1>0, <1>8 DEF Fail, Report, TypeOK
  <2>2. CASE FailRetry(a)
    <3>1. reserved' \in [Resources -> 0 .. MaxAmount] /\ resources_reserved' \subseteq Agents
      BY <1>0, <2>2, ReleaseIsExact DEF FailRetry
    <3> QED
      BY <1>0, <1>8, <2>1, <2>2, <3>1 DEF Fail, FailRetry, TypeOK, AgentState, graphVars
  <2>3. CASE FailFinal(a)
    <3>1. {a} \cup LiveDescendants(a) \in SUBSET Agents
      BY DescendantsClosed
    <3>2. reserved' \in [Resources -> 0 .. MaxAmount] /\ resources_reserved' \subseteq Agents
      BY <1>0, <2>3, <3>1, ReleaseIsExact DEF FailFinal
    <3> QED
      BY <1>0, <1>8, <2>1, <2>3, <3>2 DEF Fail, FailFinal, TypeOK, AgentState, graphVars
  <2>4. CASE FailRefused(a)
    <3>1. reserved' \in [Resources -> 0 .. MaxAmount] /\ resources_reserved' \subseteq Agents
      BY <1>0, <2>4, ReleaseIsExact DEF FailRefused
    <3> QED
      BY <1>0, <1>8, <2>1, <2>4, <3>1 DEF Fail, FailRefused, TypeOK, graphVars
  <2> QED
    BY <1>8, <2>2, <2>3, <2>4 DEF Fail
<1>9. ASSUME NEW a \in Agents, Cancel(a) PROVE TypeOK'
  <2>1. {a} \cup LiveDescendants(a) \in SUBSET Agents
    BY DescendantsClosed
  <2>2. reserved' \in [Resources -> 0 .. MaxAmount] /\ resources_reserved' \subseteq Agents
    BY <1>0, <1>9, <2>1, ReleaseIsExact DEF Cancel
  <2> QED
    BY <1>0, <1>9, <2>2 DEF Cancel, TypeOK, AgentState, graphVars
<1>10. CASE Tick
  BY <1>0, <1>10 DEF Tick, TypeOK, graphVars
<1>11. CASE UNCHANGED vars
  BY <1>0, <1>11 DEF vars, TypeOK
<1> QED
  BY <1>1, <1>2, <1>3, <1>4, <1>5, <1>6, <1>7, <1>8, <1>9, <1>10, <1>11
     DEF Next, Submit, Spawn
-----------------------------------------------------------------------------
(* The ready set *)

(* Every operation keeps the ready set equal to the set of agents in state *)
(* ready or waiting_resource.                                              *)
LEMMA ReadyStep ==
  ASSUME SchedulerInv, [Next]_vars
  PROVE  ReadyConsistent'
<1>0. TypeOK /\ ready = {a \in Agents : state[a] \in {"ready", "waiting_resource"}}
  BY DEF SchedulerInv, ReadyConsistent, Queued
<1> USE DEF ReadyConsistent, Queued
<1>1. ASSUME NEW batch \in SUBSET Agents, NEW deps \in [batch -> DependencyLists],
             SubmitBatch(batch, deps)
      PROVE  ReadyConsistent'
  BY <1>0, <1>1 DEF SubmitBatch, Nodes
<1>2. ASSUME NEW sample \in Samples, NEW a \in Agents, Dispatch(sample, a)
      PROVE  ReadyConsistent'
  BY <1>0, <1>2 DEF Dispatch, Marked, TypeOK
<1>3. ASSUME NEW sample \in Samples, DispatchNothing(sample)
      PROVE  ReadyConsistent'
  BY <1>0, <1>3 DEF DispatchNothing, Marked
<1>4. ASSUME NEW a \in Agents, MarkRunning(a) PROVE ReadyConsistent'
  BY <1>0, <1>4 DEF MarkRunning, CanEnter, TransitionSources, TypeOK
<1>5. ASSUME NEW a \in Agents, MarkBlocked(a) PROVE ReadyConsistent'
  BY <1>0, <1>5 DEF MarkBlocked, CanEnter, TransitionSources, TypeOK
<1>6. ASSUME NEW a \in Agents, Wake(a) PROVE ReadyConsistent'
  BY <1>0, <1>6 DEF Wake, TypeOK
<1>7. ASSUME NEW a \in Agents, Complete(a) PROVE ReadyConsistent'
  BY <1>0, <1>7 DEF Complete, CanEnter, TransitionSources, Successors, Nodes
<1>8. ASSUME NEW a \in Agents, Fail(a) PROVE ReadyConsistent'
  <2>1. CASE FailRetry(a)
    BY <1>0, <2>1 DEF FailRetry, TypeOK
  <2>2. CASE FailFinal(a)
    BY <1>0, <2>2, DescendantsClosed DEF FailFinal, CanEnter, TransitionSources
  <2>3. CASE FailRefused(a)
    BY <1>0, <2>3 DEF FailRefused
  <2> QED
    BY <1>8, <2>1, <2>2, <2>3 DEF Fail
<1>9. ASSUME NEW a \in Agents, Cancel(a) PROVE ReadyConsistent'
  BY <1>0, <1>9, DescendantsClosed DEF Cancel
<1>10. CASE Tick
  BY <1>0, <1>10 DEF Tick
<1>11. CASE UNCHANGED vars
  BY <1>0, <1>11 DEF vars
<1> QED
  BY <1>1, <1>2, <1>3, <1>4, <1>5, <1>6, <1>7, <1>8, <1>9, <1>10, <1>11
     DEF Next, Submit, Spawn

-----------------------------------------------------------------------------
(* Reservations *)

(* Handing out an agent that fits adds its request without overflow. *)
LEMMA DispatchReserves ==
  ASSUME TypeOK, ReservationFlags, NEW sample \in Samples, NEW a \in Agents,
         Dispatch(sample, a), NEW r \in Resources
  PROVE  /\ reserved'[r] = reserved[r] + Request[a][r]
         /\ reserved'[r] >= Units(r, resources_reserved')
         /\ a \notin resources_reserved /\ reserved[r] = Units(r, resources_reserved)
              => reserved'[r] = Units(r, resources_reserved')
<1>1. /\ Request[a][r] \in 0 .. MaxAmount /\ sample[r] \in 0 .. MaxAmount
      /\ reserved[r] \in 0 .. MaxAmount /\ MaxAmount \in Nat
  BY SchedulerAssumption DEF TypeOK, SchedulerAssumption
<1>2. Request[a][r] <= Minus(sample[r], reserved[r])
  BY DEF Dispatch, Fitting, Allocatable
<1>3. reserved'[r] = Plus(reserved[r], Request[a][r])
  BY DEF Dispatch
<1>4. reserved'[r] = reserved[r] + Request[a][r]
  BY <1>1, <1>2, <1>3 DEF Plus, Minus
<1>5. resources_reserved \in SUBSET Agents
  BY DEF TypeOK
<1>6. /\ a \notin resources_reserved => Units(r, resources_reserved \cup {a}) =
                                       Units(r, resources_reserved) + Request[a][r]
      /\ Units(r, resources_reserved \cup {a}) <=
           Units(r, resources_reserved) + Request[a][r]
      /\ Units(r, resources_reserved \cup {a}) \in Nat
  BY <1>5, UnitsAdd
<1>7. Units(r, resources_reserved) \in Nat
  BY <1>5, UnitSetFinite
<1>8. Units(r, resources_reserved') = Units(r, resources_reserved \cup {a})
  BY DEF Dispatch
<1>9. reserved[r] >= Units(r, resources_reserved)
  BY DEF ReservationFlags
<1> QED
  BY <1>1, <1>4, <1>6, <1>7, <1>8, <1>9

(* Every operation keeps the flags over the active agents and the counters *)
(* over the flags.                                                         *)
LEMMA FlagsStep ==
  ASSUME SchedulerInv, [Next]_vars
  PROVE  ReservationFlags'
<1>0. /\ TypeOK /\ ReservationFlags
      /\ ready = {a \in Agents : state[a] \in {"ready", "waiting_resource"}}
      /\ \A a \in Agents : state[a] \in {"dispatched", "running", "blocked"} =>
                             a \in resources_reserved
  BY DEF SchedulerInv, ReadyConsistent, ReservationFlags, Active, Queued
<1>a. ASSUME UNCHANGED <<reserved, resources_reserved>>,
             \A a \in Agents : state'[a] \in {"dispatched", "running", "blocked"} =>
                             state[a] \in {"dispatched", "running", "blocked"}
      PROVE  ReservationFlags'
  BY <1>0, <1>a DEF ReservationFlags, Active
<1>b. ASSUME NEW S \in SUBSET Agents, ReleaseResources(S),
             \A a \in Agents : state'[a] \in {"dispatched", "running", "blocked"} =>
                             state[a] \in {"dispatched", "running", "blocked"} /\ a \notin S
      PROVE  ReservationFlags'
  <2>1. \A r \in Resources : reserved'[r] >= Units(r, resources_reserved')
    BY <1>0, <1>b, ReleaseIsExact
  <2>2. Active' \subseteq resources_reserved'
    BY <1>0, <1>b DEF ReleaseResources, Active
  <2> QED
    BY <2>1, <2>2 DEF ReservationFlags
<1>1. ASSUME NEW batch \in SUBSET Agents, NEW deps \in [batch -> DependencyLists],
             SubmitBatch(batch, deps)
      PROVE  ReservationFlags'
  BY <1>a, <1>1 DEF SubmitBatch
<1>2. ASSUME NEW sample \in Samples, NEW a \in Agents, Dispatch(sample, a)
      PROVE  ReservationFlags'
  <2>1. \A r \in Resources : reserved'[r] >= Units(r, resources_reserved')
    BY <1>0, <1>2, DispatchReserves
  <2>2. Active' \subseteq resources_reserved'
    BY <1>0, <1>2 DEF Dispatch, Marked, Active, TypeOK
  <2> QED
    BY <2>1, <2>2 DEF ReservationFlags
<1>3. ASSUME NEW sample \in Samples, DispatchNothing(sample)
      PROVE  ReservationFlags'
  BY <1>0, <1>a, <1>3 DEF DispatchNothing, Marked
<1>4. ASSUME NEW a \in Agents, MarkRunning(a) PROVE ReservationFlags'
  BY <1>0, <1>a, <1>4 DEF MarkRunning, CanEnter, TransitionSources, TypeOK
<1>5. ASSUME NEW a \in Agents, MarkBlocked(a) PROVE ReservationFlags'
  BY <1>0, <1>a, <1>5 DEF MarkBlocked, CanEnter, TransitionSources, TypeOK
<1>6. ASSUME NEW a \in Agents, Wake(a) PROVE ReservationFlags'
  BY <1>0, <1>a, <1>6 DEF Wake, TypeOK
<1>7. ASSUME NEW a \in Agents, Complete(a) PROVE ReservationFlags'
  <2>1. CASE UNCHANGED <<unresolved, state, ready, reserved, resources_reserved>>
    BY <1>a, <2>1
  <2>2. CASE ReleaseResources({a}) /\ CanEnter(a, "completed")
    <3>1. \A b \in Agents : state'[b] \in {"dispatched", "running", "blocked"} =>
                             state[b] \in {"dispatched", "running", "blocked"} /\ b # a
      BY <1>7, <2>2 DEF Complete
    <3> QED
      BY <1>b, <2>2, <3>1
  <2> QED
    BY <1>7, <2>1, <2>2 DEF Complete
<1>8. ASSUME NEW a \in Agents, Fail(a) PROVE ReservationFlags'
  <2>1. CASE FailRetry(a)
    <3>1. \A b \in Agents : state'[b] \in {"dispatched", "running", "blocked"} =>
                             state[b] \in {"dispatched", "running", "blocked"} /\ b # a
      BY <1>0, <2>1 DEF FailRetry, TypeOK
    <3> QED
      BY <1>b, <2>1, <3>1 DEF FailRetry
  <2>2. CASE FailFinal(a)
    <3>1. {a} \cup LiveDescendants(a) \in SUBSET Agents
      BY DescendantsClosed
    <3>2. \A b \in Agents : state'[b] \in {"dispatched", "running", "blocked"} =>
                             /\ state[b] \in {"dispatched", "running", "blocked"}
                             /\ b \notin {a} \cup LiveDescendants(a)
      BY <2>2 DEF FailFinal
    <3> QED
      BY <1>b, <2>2, <3>1, <3>2 DEF FailFinal
  <2>3. CASE FailRefused(a)
    <3>1. \A b \in Agents : state'[b] \in {"dispatched", "running", "blocked"} =>
                             state[b] \in {"dispatched", "running", "blocked"} /\ b # a
      BY <2>3 DEF FailRefused, CanEnter, TransitionSources
    <3> QED
      BY <1>b, <2>3, <3>1 DEF FailRefused
  <2> QED
    BY <1>8, <2>1, <2>2, <2>3 DEF Fail
<1>9. ASSUME NEW a \in Agents, Cancel(a) PROVE ReservationFlags'
  <2>1. {a} \cup LiveDescendants(a) \in SUBSET Agents
    BY DescendantsClosed
  <2>2. \A b \in Agents : state'[b] \in {"dispatched", "running", "blocked"} =>
                           /\ state[b] \in {"dispatched", "running", "blocked"}
                           /\ b \notin {a} \cup LiveDescendants(a)
    BY <1>9 DEF Cancel
  <2> QED
    BY <1>b, <1>9, <2>1, <2>2 DEF Cancel
<1>10. CASE Tick
  BY <1>a, <1>10 DEF Tick
<1>11. CASE UNCHANGED vars
  BY <1>a, <1>11 DEF vars
<1> QED
  BY <1>1, <1>2, <1>3, <1>4, <1>5, <1>6, <1>7, <1>8, <1>9, <1>10, <1>11
     DEF Next, Submit, Spawn
-----------------------------------------------------------------------------
(* Executions and their shares *)

Shares == [a \in Agents |-> Share(a)]
UnitsColumn(r, n, a) == {a} \X (1 .. n[a] * Request[a][r])
UnitsTable(r, n) == UNION {UnitsColumn(r, n, a) : a \in Agents}

(* The units that numbers of executions ask for are finitely many. *)
LEMMA UnitsTableFinite ==
  ASSUME NEW r \in Resources, NEW n \in [Agents -> Nat]
  PROVE  /\ IsFiniteSet(UnitsTable(r, n))
         /\ UnitsOf(r, n) = Cardinality(UnitsTable(r, n))
         /\ UnitsOf(r, n) \in Nat
<1> DEFINE f == [a \in Agents |-> UnitsColumn(r, n, a)]
           columns == {UnitsColumn(r, n, a) : a \in Agents}
<1>1. ASSUME NEW a \in Agents PROVE IsFiniteSet(UnitsColumn(r, n, a))
  <2>1. n[a] \in Nat /\ Request[a][r] \in Nat
    BY SchedulerAssumption DEF SchedulerAssumption
  <2>2. n[a] * Request[a][r] \in Nat
    BY <2>1
  <2>3. IsFiniteSet(1 .. n[a] * Request[a][r])
    BY <2>2, FS_Interval
  <2>4. IsFiniteSet({a})
    BY FS_Singleton
  <2> QED
    BY <2>3, <2>4, FS_Product DEF UnitsColumn
<1>2. f \in Surjection(Agents, columns)
  BY DEF Surjection
<1>3. IsFiniteSet(columns)
  <2>1. IsFiniteSet(Agents)
    BY SchedulerAssumption DEF SchedulerAssumption
  <2> HIDE DEF f, columns
  <2> QED
    BY <1>2, <2>1, FS_Surjection
<1>4. \A T \in columns : IsFiniteSet(T)
  BY <1>1
<1>5. IsFiniteSet(UnitsTable(r, n))
  <2> HIDE DEF columns
  <2>1. IsFiniteSet(UNION columns)
    BY <1>3, <1>4, FS_UNION
  <2> QED
    BY <2>1 DEF UnitsTable, columns
<1>6. UnitsOf(r, n) = Cardinality(UnitsTable(r, n))
  BY DEF UnitsOf, UnitsTable, UnitsColumn
<1> QED
  BY <1>5, <1>6, FS_CardinalityType

(* One more execution asks for the request once more. *)
LEMMA OneMoreRequest ==
  ASSUME NEW r \in Resources, NEW a \in Agents, NEW j \in Nat, NEW k \in Nat
  PROVE  /\ j <= k => j * Request[a][r] <= k * Request[a][r]
         /\ j + 1 <= k => j * Request[a][r] + Request[a][r] <= k * Request[a][r]
         /\ k <= j + 1 => k * Request[a][r] <= j * Request[a][r] + Request[a][r]
         /\ j * Request[a][r] \in Nat /\ k * Request[a][r] \in Nat
         /\ Request[a][r] \in 0 .. MaxAmount
<1> DEFINE q == Request[a][r]
<1>1. q \in 0 .. MaxAmount /\ q \in Nat
  BY SchedulerAssumption DEF SchedulerAssumption
<1> HIDE DEF q
<1>2. \A i, l \in Nat : i <= l => i * q <= l * q
  BY <1>1
<1>3. (j + 1) * q = j * q + q
  BY <1>1
<1>4. j + 1 \in Nat
  OBVIOUS
<1>5. /\ j <= k => j * q <= k * q
      /\ j + 1 <= k => (j + 1) * q <= k * q
      /\ k <= j + 1 => k * q <= (j + 1) * q
  BY <1>2, <1>4
<1>6. j * q \in Nat /\ k * q \in Nat
  BY <1>1
<1> QED
  BY <1>1, <1>3, <1>5, <1>6 DEF q

(* Where every agent of T loses an execution and no other agent gains one, *)
(* the requests of T are given back.                                       *)
LEMMA UnitsLoss ==
  ASSUME NEW r \in Resources, NEW n \in [Agents -> Nat], NEW m \in [Agents -> Nat],
         NEW T \in SUBSET Agents,
         \A a \in Agents : m[a] + (IF a \in T THEN 1 ELSE 0) <= n[a]
  PROVE  UnitsOf(r, n) >= UnitsOf(r, m) + Units(r, T)
<1> DEFINE base == [a \in Agents |-> m[a] * Request[a][r]]
           top == [a \in Agents |-> n[a] * Request[a][r]]
           lost == {<<u[1], base[u[1]] + u[2]>> : u \in UnitSet(r, T)}
           f == [u \in UnitSet(r, T) |-> <<u[1], base[u[1]] + u[2]>>]
<1>1. ASSUME NEW a \in Agents
      PROVE  /\ Request[a][r] \in Nat /\ base[a] \in Nat /\ top[a] \in Nat
             /\ base[a] <= top[a]
             /\ a \in T => base[a] + Request[a][r] <= top[a]
  <2>1. n[a] \in Nat /\ m[a] \in Nat /\ m[a] <= n[a] /\ (a \in T => m[a] + 1 <= n[a])
    OBVIOUS
  <2>2. Request[a][r] \in Nat
    BY SchedulerAssumption DEF SchedulerAssumption
  <2> QED
    BY <2>1, <2>2, OneMoreRequest
<1>2. ASSUME NEW u \in UnitSet(r, T)
      PROVE  /\ u[1] \in T /\ u[1] \in Agents /\ u[2] \in Nat \ {0}
             /\ u[2] <= Request[u[1]][r] /\ u = <<u[1], u[2]>>
  BY <1>2, SchedulerAssumption DEF UnitSet, SchedulerAssumption
<1>3. ASSUME NEW a \in Agents
      PROVE  /\ UnitsColumn(r, m, a) = {a} \X (1 .. base[a])
             /\ UnitsColumn(r, n, a) = {a} \X (1 .. top[a])
  BY DEF UnitsColumn
<1> HIDE DEF base, top
<1>4. UnitsTable(r, m) \subseteq UnitsTable(r, n)
  <2>1. ASSUME NEW a \in Agents PROVE UnitsColumn(r, m, a) \subseteq UnitsColumn(r, n, a)
    BY <1>1, <1>3
  <2> QED
    BY <2>1 DEF UnitsTable
<1>5. lost \subseteq UnitsTable(r, n)
  <2> SUFFICES ASSUME NEW u \in UnitSet(r, T)
               PROVE  <<u[1], base[u[1]] + u[2]>> \in UnitsColumn(r, n, u[1])
    BY <1>2 DEF UnitsTable
  <2>1. base[u[1]] + u[2] \in 1 .. top[u[1]]
    BY <1>1, <1>2
  <2> QED
    BY <1>2, <1>3, <2>1
<1>6. UnitsTable(r, m) \cap lost = {}
  <2> SUFFICES ASSUME NEW a \in Agents, NEW u \in UnitSet(r, T),
                      <<u[1], base[u[1]] + u[2]>> \in UnitsColumn(r, m, a)
               PROVE  FALSE
    BY DEF UnitsTable
  <2>1. a = u[1] /\ base[u[1]] + u[2] \in 1 .. base[a]
    BY <1>3
  <2> QED
    BY <1>1, <1>2, <2>1
<1>7. f \in Bijection(UnitSet(r, T), lost)
  <2>1. f \in Surjection(UnitSet(r, T), lost)
    BY DEF Surjection
  <2>2. ASSUME NEW u \in UnitSet(r, T), NEW v \in UnitSet(r, T), f[u] = f[v]
        PROVE  u = v
    <3>1. u[1] = v[1] /\ base[u[1]] + u[2] = base[v[1]] + v[2]
      BY <2>2
    <3>2. base[u[1]] \in Nat /\ u[2] \in Nat /\ v[2] \in Nat
      BY <1>1, <1>2
    <3>3. base[u[1]] + u[2] = base[u[1]] + v[2]
      BY <3>1
    <3>4. u[2] = v[2]
      BY <3>2, <3>3
    <3> QED
      BY <1>2, <3>1, <3>4
  <2> QED
    BY <2>1, <2>2 DEF Bijection, Injection, Surjection, IsInjective
<1> HIDE DEF lost, f
<1>8. IsFiniteSet(lost) /\ Cardinality(lost) = Units(r, T)
  <2>1. ExistsBijection(UnitSet(r, T), lost)
    BY <1>7 DEF ExistsBijection
  <2>2. IsFiniteSet(UnitSet(r, T)) /\ Units(r, T) = Cardinality(UnitSet(r, T))
    BY UnitSetFinite
  <2> QED
    BY <2>1, <2>2, FS_Bijection
<1>9. /\ UnitsOf(r, m) = Cardinality(UnitsTable(r, m)) /\ UnitsOf(r, m) \in Nat
      /\ UnitsOf(r, n) = Cardinality(UnitsTable(r, n)) /\ UnitsOf(r, n) \in Nat
      /\ Units(r, T) \in Nat
      /\ IsFiniteSet(UnitsTable(r, m)) /\ IsFiniteSet(UnitsTable(r, n))
  BY UnitsTableFinite, UnitSetFinite
<1>10. Cardinality(UnitsTable(r, m) \cup lost) =
         Cardinality(UnitsTable(r, m)) + Cardinality(lost)
  <2>1. Cardinality(UnitsTable(r, m) \cup lost) =
          Cardinality(UnitsTable(r, m)) + Cardinality(lost)
            - Cardinality(UnitsTable(r, m) \cap lost)
    BY <1>8, <1>9, FS_Union
  <2>2. Cardinality(UnitsTable(r, m) \cap lost) = 0
    BY <1>6, FS_EmptySet, Zenon
  <2> QED
    BY <1>8, <1>9, <2>1, <2>2
<1>11. Cardinality(UnitsTable(r, m) \cup lost) <= Cardinality(UnitsTable(r, n))
  <2>1. UnitsTable(r, m) \cup lost \in SUBSET UnitsTable(r, n)
    BY <1>4, <1>5
  <2> QED
    BY <1>9, <2>1, FS_Subset
<1> QED
  BY <1>8, <1>9, <1>10, <1>11

(* Where only one agent gains an execution, its request is added at most. *)
LEMMA UnitsGain ==
  ASSUME NEW r \in Resources, NEW n \in [Agents -> Nat], NEW m \in [Agents -> Nat],
         NEW a \in Agents,
         \A b \in Agents : n[b] <= m[b] + (IF b = a THEN 1 ELSE 0)
  PROVE  UnitsOf(r, n) <= UnitsOf(r, m) + Request[a][r]
<1> DEFINE q == Request[a][r]
           k == m[a] * Request[a][r]
           gained == {<<a, k + i>> : i \in 1 .. q}
           f == [i \in 1 .. q |-> <<a, k + i>>]
<1>1. ASSUME NEW b \in Agents
      PROVE  /\ n[b] \in Nat /\ m[b] \in Nat
             /\ n[b] * Request[b][r] \in Nat /\ m[b] * Request[b][r] \in Nat
             /\ b # a => n[b] * Request[b][r] <= m[b] * Request[b][r]
             /\ n[b] * Request[b][r] <= m[b] * Request[b][r] + Request[b][r]
  <2>1. n[b] \in Nat /\ m[b] \in Nat /\ n[b] <= m[b] + 1 /\ (b # a => n[b] <= m[b])
    OBVIOUS
  <2> QED
    BY <2>1, OneMoreRequest
<1>2. q \in Nat /\ k \in Nat
  BY <1>1, SchedulerAssumption DEF SchedulerAssumption
<1>3. UnitsTable(r, n) \subseteq UnitsTable(r, m) \cup gained
  <2> SUFFICES ASSUME NEW b \in Agents, NEW x \in UnitsColumn(r, n, b)
               PROVE  x \in UnitsColumn(r, m, b) \cup gained
    BY DEF UnitsTable
  <2>1. x = <<b, x[2]>> /\ x[2] \in 1 .. n[b] * Request[b][r]
    BY DEF UnitsColumn
  <2>2. CASE x[2] <= m[b] * Request[b][r]
    <3>1. x[2] \in 1 .. m[b] * Request[b][r]
      BY <1>1, <2>1, <2>2
    <3> QED
      BY <2>1, <3>1 DEF UnitsColumn
  <2>3. CASE x[2] > m[b] * Request[b][r]
    <3>1. b = a
      BY <1>1, <2>1, <2>3
    <3>2. x[2] - k \in 1 .. q /\ k + (x[2] - k) = x[2]
      BY <1>1, <1>2, <2>1, <2>3, <3>1
    <3> QED
      BY <2>1, <3>1, <3>2
  <2> QED
    BY <1>1, <2>1, <2>2, <2>3
<1>4. f \in Surjection(1 .. q, gained)
  BY DEF Surjection
<1> HIDE DEF gained, f, k, q
<1>5. IsFiniteSet(gained) /\ Cardinality(gained) <= q
  <2>1. IsFiniteSet(1 .. q) /\ Cardinality(1 .. q) = q
    <3>1. q \in Int /\ 1 \in Int
      BY <1>2
    <3>2. /\ IsFiniteSet(1 .. q)
          /\ Cardinality(1 .. q) = IF 1 > q THEN 0 ELSE q - 1 + 1
      BY <3>1, FS_Interval
    <3> QED
      BY <1>2, <3>2
  <2> QED
    BY <1>4, <2>1, FS_Surjection
<1>6. /\ Cardinality(UnitsTable(r, m) \cup gained) =
           Cardinality(UnitsTable(r, m)) + Cardinality(gained)
             - Cardinality(UnitsTable(r, m) \cap gained)
      /\ IsFiniteSet(UnitsTable(r, m) \cup gained)
  BY <1>5, UnitsTableFinite, FS_Union
<1>7. /\ Cardinality(UnitsTable(r, m) \cap gained) \in Nat
      /\ Cardinality(gained) \in Nat
  <2>1. UnitsTable(r, m) \cap gained \in SUBSET gained
    OBVIOUS
  <2> QED
    BY <1>5, <2>1, FS_Subset, FS_CardinalityType
<1>8. Cardinality(UnitsTable(r, n)) <= Cardinality(UnitsTable(r, m) \cup gained)
  BY <1>3, <1>6, FS_Subset
<1>9. /\ UnitsOf(r, m) = Cardinality(UnitsTable(r, m)) /\ UnitsOf(r, m) \in Nat
      /\ UnitsOf(r, n) = Cardinality(UnitsTable(r, n)) /\ UnitsOf(r, n) \in Nat
  BY UnitsTableFinite
<1>10. UnitsOf(r, n) <= UnitsOf(r, m) + q
  BY <1>2, <1>5, <1>6, <1>7, <1>8, <1>9
<1> QED
  BY <1>10 DEF q

(* The shares are numbers. *)
LEMMA SharesType ==
  ASSUME TypeOK
  PROVE  /\ Shares \in [Agents -> Nat]
         /\ \A a \in Agents : Shares[a] = Share(a) /\ executing[a] \in Nat
<1>1. ASSUME NEW a \in Agents PROVE Share(a) \in Nat /\ executing[a] \in Nat
  BY DEF TypeOK, Share, Uncancelled, Minus
<1> QED
  BY <1>1 DEF Shares

(* The same of the shares after a step. *)
LEMMA NextSharesType ==
  ASSUME TypeOK'
  PROVE  /\ Shares' \in [Agents -> Nat]
         /\ \A a \in Agents : Shares'[a] = Share(a)' /\ executing'[a] \in Nat
<1>1. ASSUME NEW a \in Agents PROVE Share(a)' \in Nat /\ executing'[a] \in Nat
  BY DEF TypeOK, Share, Uncancelled, Minus
<1> QED
  BY <1>1 DEF Shares

(* The agents a release names give their reservations back, and each of    *)
(* those that had one loses a share, so the counters still cover the rest. *)
LEMMA ReleaseKeepsShares ==
  ASSUME TypeOK, TypeOK', ReservationShares, NEW S \in SUBSET Agents,
         ReleaseResources(S),
         \A a \in Agents :
           Share(a)' + (IF a \in S \cap resources_reserved THEN 1 ELSE 0) <= Share(a)
  PROVE  \A r \in Resources : reserved'[r] >= UnitsOf(r, Shares')
<1> SUFFICES ASSUME NEW r \in Resources
             PROVE  reserved'[r] >= UnitsOf(r, Shares')
  OBVIOUS
<1> DEFINE T == S \cap resources_reserved
           old == Shares
           new == Shares'
<1>1. old \in [Agents -> Nat] /\ \A a \in Agents : old[a] = Share(a)
  BY SharesType
<1>2. new \in [Agents -> Nat] /\ \A a \in Agents : new[a] = Share(a)'
  BY NextSharesType
<1>3. \A a \in Agents : new[a] + (IF a \in T THEN 1 ELSE 0) <= old[a]
  BY <1>1, <1>2
<1>4. reserved[r] >= UnitsOf(r, old) /\ reserved[r] \in Nat
  BY SchedulerAssumption DEF ReservationShares, Shares, TypeOK, SchedulerAssumption
<1>5. T \in SUBSET Agents
  OBVIOUS
<1>6. reserved'[r] = Minus(reserved[r], Units(r, T))
  BY DEF ReleaseResources
<1> HIDE DEF T, old, new
<1>7. UnitsOf(r, old) >= UnitsOf(r, new) + Units(r, T)
  BY <1>1, <1>2, <1>3, <1>5, UnitsLoss
<1>8. UnitsOf(r, old) \in Nat /\ UnitsOf(r, new) \in Nat /\ Units(r, T) \in Nat
  BY <1>1, <1>2, <1>5, UnitsTableFinite, UnitSetFinite
<1>9. reserved'[r] >= UnitsOf(r, new)
  BY <1>4, <1>6, <1>7, <1>8 DEF Minus
<1> QED
  BY <1>9 DEF new

(* Every operation keeps the counters over the shares of all executions.   *)
LEMMA SharesStep ==
  ASSUME SchedulerInv, SchedulerInv', ReservationShares, [Next]_vars
  PROVE  ReservationShares'
<1>0. /\ TypeOK /\ TypeOK'
      /\ ready = {a \in Agents : state[a] \in {"ready", "waiting_resource"}}
      /\ \A a \in Agents : state[a] \in {"dispatched", "running", "blocked"} =>
                             a \in resources_reserved
      /\ \A a \in resources_reserved : state[a] # "cancelled"
  BY DEF SchedulerInv, ReadyConsistent, ReservationFlags, Active, Queued, ReservationShares
<1>s. /\ \A a \in Agents : executing[a] \in Nat /\ executing'[a] \in Nat
      /\ \A a \in Agents :
           Share(a) = IF a \in resources_reserved /\ executing[a] = 0 THEN 1
                      ELSE IF state[a] = "cancelled"
                           THEN IF executing[a] = 0 THEN 0 ELSE executing[a] - 1
                           ELSE executing[a]
      /\ \A a \in Agents :
           Share(a)' = IF a \in resources_reserved' /\ executing'[a] = 0 THEN 1
                       ELSE IF state'[a] = "cancelled"
                            THEN IF executing'[a] = 0 THEN 0 ELSE executing'[a] - 1
                            ELSE executing'[a]
  BY <1>0 DEF Share, Uncancelled, Minus, TypeOK
<1>d. ASSUME UNCHANGED <<reserved, resources_reserved>>,
             \A a \in Agents : state'[a] = "cancelled" => state[a] = "cancelled",
             \A a \in Agents : Share(a)' <= Share(a)
      PROVE  ReservationShares'
  <2>1. ReleaseResources({})
    <3>1. ASSUME NEW r \in Resources
          PROVE  reserved'[r] = Minus(reserved[r], Units(r, {} \cap resources_reserved))
      <4>1. Units(r, {}) = 0
        BY NoUnits
      <4>2. {} \cap resources_reserved = {}
        OBVIOUS
      <4>3. reserved[r] \in Nat /\ reserved'[r] = reserved[r]
        BY <1>0, <1>d, SchedulerAssumption DEF TypeOK, SchedulerAssumption
      <4> QED
        BY <4>1, <4>2, <4>3 DEF Minus
    <3>2. reserved' = [r \in Resources |-> reserved'[r]]
      BY <1>0 DEF TypeOK
    <3> QED
      BY <1>d, <3>1, <3>2 DEF ReleaseResources
  <2>2. \A a \in Agents :
          Share(a)' + (IF a \in {} \cap resources_reserved THEN 1 ELSE 0) <= Share(a)
    BY <1>d, <1>s
  <2>3. \A r \in Resources : reserved'[r] >= UnitsOf(r, Shares')
    BY <1>0, <2>1, <2>2, ReleaseKeepsShares
  <2> QED
    BY <1>0, <1>d, <2>3 DEF ReservationShares, Shares, TypeOK
<1>a. ASSUME UNCHANGED <<reserved, resources_reserved>>,
             \A a \in Agents : /\ executing'[a] = executing[a]
                               /\ state'[a] = "cancelled" <=> state[a] = "cancelled"
      PROVE  ReservationShares'
  <2>1. \A a \in Agents : Share(a)' <= Share(a)
    BY <1>a, <1>s
  <2> QED
    BY <1>a, <1>d, <2>1
<1>b. ASSUME NEW S \in SUBSET Agents, ReleaseResources(S),
             \A a \in Agents \ S : state'[a] = "cancelled" => state[a] = "cancelled",
             \A a \in Agents :
               Share(a)' + (IF a \in S \cap resources_reserved THEN 1 ELSE 0) <= Share(a)
      PROVE  ReservationShares'
  <2>1. \A r \in Resources : reserved'[r] >= UnitsOf(r, Shares')
    BY <1>0, <1>b, ReleaseKeepsShares
  <2>2. \A a \in resources_reserved' : state'[a] # "cancelled"
    BY <1>0, <1>b DEF ReleaseResources, TypeOK
  <2> QED
    BY <2>1, <2>2 DEF ReservationShares, Shares
<1>1. ASSUME NEW batch \in SUBSET Agents, NEW deps \in [batch -> DependencyLists],
             SubmitBatch(batch, deps)
      PROVE  ReservationShares'
  <2>1. \A a \in batch : state[a] = "absent"
    BY <1>1 DEF SubmitBatch, Nodes
  <2> QED
    BY <1>a, <1>1, <2>1 DEF SubmitBatch
<1>2. ASSUME NEW sample \in Samples, NEW a \in Agents, Dispatch(sample, a)
      PROVE  ReservationShares'
  <2>1. /\ state[a] \in {"ready", "waiting_resource"}
        /\ executing'[a] = executing[a] + 1 /\ state'[a] = "dispatched"
        /\ resources_reserved' = resources_reserved \cup {a}
    BY <1>0, <1>2 DEF Dispatch, Fitting, TypeOK
  <2>2. ASSUME NEW b \in Agents, b # a
        PROVE  /\ executing'[b] = executing[b]
               /\ state'[b] = "cancelled" <=> state[b] = "cancelled"
    BY <1>0, <1>2, <2>2 DEF Dispatch, Marked, TypeOK
  <2>3. \A b \in resources_reserved' : state'[b] # "cancelled"
    BY <1>0, <2>1, <2>2 DEF TypeOK
  <2>4. \A b \in Agents : Share(b)' <= Share(b) + (IF b = a THEN 1 ELSE 0)
    BY <1>s, <2>1, <2>2
  <2>5. ASSUME NEW r \in Resources PROVE reserved'[r] >= UnitsOf(r, Shares')
    <3> DEFINE old == Shares
               new == Shares'
    <3>1. old \in [Agents -> Nat] /\ \A b \in Agents : old[b] = Share(b)
      BY <1>0, SharesType
    <3>2. new \in [Agents -> Nat] /\ \A b \in Agents : new[b] = Share(b)'
      BY <1>0, NextSharesType
    <3>3. \A b \in Agents : new[b] <= old[b] + (IF b = a THEN 1 ELSE 0)
      BY <2>4, <3>1, <3>2
    <3>4. reserved[r] >= UnitsOf(r, old)
      BY DEF ReservationShares, Shares
    <3>5. reserved'[r] = reserved[r] + Request[a][r]
      BY <1>0, <1>2, DispatchReserves DEF SchedulerInv
    <3>6. reserved[r] \in Nat /\ Request[a][r] \in Nat
      BY <1>0, SchedulerAssumption DEF TypeOK, SchedulerAssumption
    <3> HIDE DEF old, new
    <3>7. UnitsOf(r, new) <= UnitsOf(r, old) + Request[a][r]
      BY <3>1, <3>2, <3>3, UnitsGain
    <3>8. UnitsOf(r, old) \in Nat /\ UnitsOf(r, new) \in Nat
      BY <3>1, <3>2, UnitsTableFinite
    <3>9. reserved'[r] >= UnitsOf(r, new)
      BY <3>4, <3>5, <3>6, <3>7, <3>8
    <3> QED
      BY <3>9 DEF new
  <2> QED
    BY <2>3, <2>5 DEF ReservationShares, Shares
<1>3. ASSUME NEW sample \in Samples, DispatchNothing(sample)
      PROVE  ReservationShares'
  BY <1>0, <1>a, <1>3 DEF DispatchNothing, Marked
<1>4. ASSUME NEW a \in Agents, MarkRunning(a) PROVE ReservationShares'
  BY <1>0, <1>a, <1>4 DEF MarkRunning, CanEnter, TransitionSources, TypeOK
<1>5. ASSUME NEW a \in Agents, MarkBlocked(a) PROVE ReservationShares'
  BY <1>0, <1>a, <1>5 DEF MarkBlocked, CanEnter, TransitionSources, TypeOK
<1>6. ASSUME NEW a \in Agents, Wake(a) PROVE ReservationShares'
  BY <1>0, <1>a, <1>6 DEF Wake, CanEnter, TransitionSources, TypeOK
<1>e. ASSUME NEW a \in Agents, Report(a)
      PROVE  /\ executing[a] > 0 /\ executing'[a] = executing[a] - 1
             /\ \A b \in Agents \ {a} : executing'[b] = executing[b]
  BY <1>0, <1>e DEF Report, TypeOK
<1>r. ASSUME NEW a \in Agents, Report(a), ReleaseResources({a}),
             state'[a] # "cancelled",
             \A b \in Agents \ {a} : state'[b] = "cancelled" <=> state[b] = "cancelled"
      PROVE  ReservationShares'
  <2>1. resources_reserved' = resources_reserved \ {a}
    BY <1>r DEF ReleaseResources
  <2>2. ASSUME NEW b \in Agents
        PROVE  Share(b)' + (IF b \in {a} \cap resources_reserved THEN 1 ELSE 0) <= Share(b)
    BY <1>0, <1>s, <1>e, <1>r, <2>1
  <2>3. \A b \in Agents \ {a} : state'[b] = "cancelled" => state[b] = "cancelled"
    BY <1>r
  <2> QED
    BY <1>b, <1>r, <2>2, <2>3
<1>c. ASSUME NEW a \in Agents, NEW ended \in SUBSET Agents,
             ReleaseResources(ended), a \in ended,
             \A b \in ended \ {a} : state[b] \notin Terminal,
             \A b \in ended \ {a} : state'[b] = "cancelled",
             \A b \in Agents \ ended : state'[b] = state[b],
             \A b \in Agents \ {a} : executing'[b] = executing[b],
             Share(a)' + (IF a \in resources_reserved THEN 1 ELSE 0) <= Share(a)
      PROVE  ReservationShares'
  <2>1. resources_reserved' = resources_reserved \ ended
    BY <1>c DEF ReleaseResources
  <2>2. ASSUME NEW b \in Agents
        PROVE  Share(b)' + (IF b \in ended \cap resources_reserved THEN 1 ELSE 0)
                 <= Share(b)
    <3>1. CASE b = a
      BY <1>c, <3>1
    <3>2. CASE b # a /\ b \in ended
      BY <1>s, <1>c, <2>1, <3>2 DEF Terminal
    <3>3. CASE b \notin ended
      BY <1>s, <1>c, <2>1, <3>3
    <3> QED
      BY <3>1, <3>2, <3>3
  <2>3. \A b \in Agents \ ended : state'[b] = "cancelled" => state[b] = "cancelled"
    BY <1>c
  <2> QED
    BY <1>b, <1>c, <2>2, <2>3
<1>7. ASSUME NEW a \in Agents, Complete(a) PROVE ReservationShares'
  <2>0. Report(a)
    BY <1>7 DEF Complete
  <2>1. CASE /\ ~CanEnter(a, "completed")
             /\ UNCHANGED <<unresolved, state, ready, reserved, resources_reserved>>
    <3>1. ASSUME NEW b \in Agents PROVE Share(b)' <= Share(b)
      <4>1. /\ executing'[b] <= executing[b] /\ state'[b] = state[b]
            /\ resources_reserved' = resources_reserved
            /\ b \in resources_reserved /\ executing'[b] # executing[b]
                 => executing[b] # 0
        BY <1>s, <1>e, <2>0, <2>1
      <4>2. b \in resources_reserved => state[b] # "cancelled"
        BY <1>0
      <4> QED
        BY <1>s, <4>1, <4>2
    <3> QED
      BY <1>0, <1>d, <2>1, <3>1
  <2>2. CASE CanEnter(a, "completed") /\ ReleaseResources({a})
    <3>1. state'[a] = "completed"
      BY <1>0, <1>7, <2>2 DEF Complete, CanEnter, TransitionSources, TypeOK
    <3>2. ASSUME NEW b \in Agents \ {a}
          PROVE  state'[b] = "cancelled" <=> state[b] = "cancelled"
      BY <1>0, <1>7, <2>2 DEF Complete, CanEnter, TransitionSources, TypeOK
    <3> QED
      BY <1>r, <2>0, <2>2, <3>1, <3>2
  <2> QED
    BY <1>7, <2>1, <2>2 DEF Complete
<1>8. ASSUME NEW a \in Agents, Fail(a) PROVE ReservationShares'
  <2>0. Report(a)
    BY <1>8 DEF Fail
  <2>1. CASE FailRetry(a)
    <3>1. ReleaseResources({a}) /\ state'[a] = "ready"
      BY <1>0, <2>1 DEF FailRetry, TypeOK
    <3>2. \A b \in Agents \ {a} : state'[b] = state[b]
      BY <1>0, <2>1 DEF FailRetry, TypeOK
    <3> QED
      BY <1>r, <2>0, <3>1, <3>2
  <2>2. CASE FailFinal(a)
    <3> DEFINE ended == {a} \cup LiveDescendants(a)
    <3>1. ended \in SUBSET Agents /\ \A b \in ended \ {a} : state[b] \notin Terminal
      BY DescendantsClosed DEF Live
    <3>2. /\ ReleaseResources(ended) /\ a \in ended /\ state'[a] = "failed"
          /\ \A b \in ended \ {a} : state'[b] = "cancelled"
          /\ \A b \in Agents \ ended : state'[b] = state[b]
      BY <2>2, <3>1 DEF FailFinal
    <3>3. a \notin resources_reserved'
      BY <3>2 DEF ReleaseResources
    <3>4. Share(a)' + (IF a \in resources_reserved THEN 1 ELSE 0) <= Share(a)
      <4>1. a \in resources_reserved /\ state[a] # "cancelled"
        BY <1>0, <2>2 DEF FailFinal, CanEnter, TransitionSources
      <4> QED
        BY <1>s, <1>e, <2>0, <3>2, <3>3, <4>1
    <3>5. \A b \in Agents \ {a} : executing'[b] = executing[b]
      BY <1>e, <2>0
    <3> HIDE DEF ended
    <3> QED
      BY <1>c, <3>1, <3>2, <3>4, <3>5
  <2>3. CASE FailRefused(a)
    <3>1. ReleaseResources({a}) /\ state' = state
      BY <2>3 DEF FailRefused
    <3>2. CASE state[a] # "cancelled"
      BY <1>r, <2>0, <3>1, <3>2
    <3>3. CASE state[a] = "cancelled"
      <4>1. a \notin resources_reserved /\ resources_reserved' = resources_reserved
        BY <1>0, <3>1, <3>3 DEF ReleaseResources
      <4>2. ASSUME NEW b \in Agents
            PROVE  Share(b)' + (IF b \in {a} \cap resources_reserved THEN 1 ELSE 0)
                     <= Share(b)
        BY <1>s, <1>e, <2>0, <3>1, <4>1
      <4> QED
        BY <1>b, <3>1, <4>2
    <3> QED
      BY <3>2, <3>3
  <2> QED
    BY <1>8, <2>1, <2>2, <2>3 DEF Fail
<1>9. ASSUME NEW a \in Agents, Cancel(a) PROVE ReservationShares'
  <2> DEFINE ended == {a} \cup LiveDescendants(a)
  <2>1. /\ ended \in SUBSET Agents /\ \A b \in ended \ {a} : state[b] \notin Terminal
        /\ state[a] # "cancelled"
    BY <1>9, DescendantsClosed DEF Live, Cancel, CanEnter, TransitionSources, Terminal
  <2>2. /\ ReleaseResources(ended) /\ a \in ended /\ state'[a] = "cancelled"
        /\ \A b \in ended \ {a} : state'[b] = "cancelled"
        /\ \A b \in Agents \ ended : state'[b] = state[b]
        /\ executing' = executing
    BY <1>9, <2>1 DEF Cancel
  <2>3. a \notin resources_reserved'
    BY <2>2 DEF ReleaseResources
  <2>4. Share(a)' + (IF a \in resources_reserved THEN 1 ELSE 0) <= Share(a)
    BY <1>s, <2>1, <2>2, <2>3
  <2> HIDE DEF ended
  <2> QED
    BY <1>c, <2>1, <2>2, <2>4
<1>10. CASE Tick
  BY <1>a, <1>10 DEF Tick
<1>11. CASE UNCHANGED vars
  BY <1>a, <1>11 DEF vars
<1> QED
  BY <1>1, <1>2, <1>3, <1>4, <1>5, <1>6, <1>7, <1>8, <1>9, <1>10, <1>11
     DEF Next, Submit, Spawn

-----------------------------------------------------------------------------
(* Agents that nobody blocks *)

(* Every operation keeps at most one worker on an agent, and no worker on  *)
(* a queued or a completed one.                                            *)
LEMMA SoleStep ==
  ASSUME SchedulerInv, Blockers = {}, [Next]_vars
  PROVE  SoleExecution'
<1>0. /\ TypeOK /\ SoleExecution
      /\ ready = {a \in Agents : state[a] \in {"ready", "waiting_resource"}}
  BY DEF SchedulerInv, ReadyConsistent, Queued
<1> USE DEF SoleExecution
<1>1. ASSUME NEW batch \in SUBSET Agents, NEW deps \in [batch -> DependencyLists],
             SubmitBatch(batch, deps)
      PROVE  SoleExecution'
  BY <1>0, <1>1 DEF SubmitBatch, Nodes
<1>2. ASSUME NEW sample \in Samples, NEW a \in Agents, Dispatch(sample, a)
      PROVE  SoleExecution'
  <2>1. a \in ready /\ executing[a] = 0
    BY <1>0, <1>2 DEF Dispatch, Fitting
  <2>2. executing' = [executing EXCEPT ![a] = executing[a] + 1]
    BY <1>2 DEF Dispatch
  <2>3. executing'[a] = 1 /\ \A b \in Agents \ {a} : executing'[b] = executing[b]
    BY <1>0, <2>1, <2>2 DEF TypeOK
  <2>4. state' = [Marked(sample) EXCEPT ![a] = "dispatched"]
    BY <1>2 DEF Dispatch
  <2>5. state'[a] = "dispatched" /\ \A b \in Agents \ {a} :
          state'[b] = state[b] \/ (b \in ready /\ state'[b] \in {"ready", "waiting_resource"})
    BY <2>4 DEF Marked
  <2> QED
    BY <1>0, <2>3, <2>5
<1>3. ASSUME NEW sample \in Samples, DispatchNothing(sample)
      PROVE  SoleExecution'
  BY <1>0, <1>3 DEF DispatchNothing, Marked
<1>4. ASSUME NEW a \in Agents, MarkRunning(a) PROVE SoleExecution'
  BY <1>0, <1>4 DEF MarkRunning, CanEnter, TransitionSources, TypeOK
<1>7. ASSUME NEW a \in Agents, Complete(a) PROVE SoleExecution'
  <2>1. executing[a] = 1 /\ executing' = [executing EXCEPT ![a] = 0]
    <3>1. executing[a] > 0 /\ executing' = [executing EXCEPT ![a] = executing[a] - 1]
      BY <1>7 DEF Complete, Report
    <3>2. executing[a] = 1
      BY <1>0, <3>1
    <3>3. executing[a] - 1 = 0
      BY <3>2
    <3> QED
      BY <3>1, <3>2, <3>3, Zenon
  <2>2. CASE UNCHANGED state /\ ~CanEnter(a, "completed")
    BY <1>0, <2>1, <2>2 DEF CanEnter, TransitionSources, TypeOK
  <2>3. CASE CanEnter(a, "completed")
    BY <1>0, <1>7, <2>1, <2>3 DEF Complete, TypeOK
  <2> QED
    BY <1>7, <2>2, <2>3 DEF Complete
<1>8. ASSUME NEW a \in Agents, Fail(a) PROVE SoleExecution'
  <2>1. executing[a] = 1 /\ executing' = [executing EXCEPT ![a] = 0]
    <3>1. executing[a] > 0 /\ executing' = [executing EXCEPT ![a] = executing[a] - 1]
      BY <1>8 DEF Fail, Report
    <3>2. executing[a] = 1
      BY <1>0, <3>1
    <3>3. executing[a] - 1 = 0
      BY <3>2
    <3> QED
      BY <3>1, <3>2, <3>3, Zenon
  <2>2. CASE FailRetry(a)
    BY <1>0, <2>1, <2>2 DEF FailRetry, TypeOK
  <2>3. CASE FailFinal(a)
    BY <1>0, <2>1, <2>3 DEF FailFinal, TypeOK
  <2>4. CASE FailRefused(a)
    BY <1>0, <2>1, <2>4 DEF FailRefused, CanEnter, TransitionSources, TypeOK
  <2> QED
    BY <1>8, <2>2, <2>3, <2>4 DEF Fail
<1>9. ASSUME NEW a \in Agents, Cancel(a) PROVE SoleExecution'
  BY <1>0, <1>9 DEF Cancel, TypeOK
<1>10. CASE Tick
  BY <1>0, <1>10 DEF Tick
<1>11. CASE UNCHANGED vars
  BY <1>0, <1>11 DEF vars
<1> QED
  BY <1>1, <1>2, <1>3, <1>4, <1>7, <1>8, <1>9, <1>10, <1>11
     DEF Next, Submit, Spawn, MarkBlocked, Wake

(* Every operation keeps the flags and the counters exact. *)
LEMMA ExactStep ==
  ASSUME SchedulerInv, Blockers = {}, [Next]_vars
  PROVE  ReservationFlagsExact'
<1>0. /\ TypeOK /\ ReservationFlags /\ SoleExecution
      /\ ready = {a \in Agents : state[a] \in {"ready", "waiting_resource"}}
      /\ resources_reserved = {a \in Agents : state[a] \in {"dispatched", "running", "blocked"}}
      /\ \A r \in Resources : reserved[r] = Units(r, resources_reserved)
  BY DEF SchedulerInv, ReadyConsistent, ReservationFlagsExact, Active, Queued
<1>a. ASSUME UNCHANGED <<reserved, resources_reserved>>,
             \A a \in Agents : state'[a] \in {"dispatched", "running", "blocked"} <=>
                             state[a] \in {"dispatched", "running", "blocked"}
      PROVE  ReservationFlagsExact'
  BY <1>0, <1>a DEF ReservationFlagsExact, Active
<1>b. ASSUME NEW S \in SUBSET Agents, ReleaseResources(S),
             \A a \in Agents : state'[a] \in {"dispatched", "running", "blocked"} <=>
                             state[a] \in {"dispatched", "running", "blocked"} /\ a \notin S
      PROVE  ReservationFlagsExact'
  <2>1. \A r \in Resources : reserved'[r] = Units(r, resources_reserved')
    BY <1>0, <1>b, ReleaseIsExact
  <2>2. resources_reserved' = Active'
    BY <1>0, <1>b DEF ReleaseResources, Active
  <2> QED
    BY <2>1, <2>2 DEF ReservationFlagsExact
<1>1. ASSUME NEW batch \in SUBSET Agents, NEW deps \in [batch -> DependencyLists],
             SubmitBatch(batch, deps)
      PROVE  ReservationFlagsExact'
  BY <1>0, <1>a, <1>1 DEF SubmitBatch, Nodes
<1>2. ASSUME NEW sample \in Samples, NEW a \in Agents, Dispatch(sample, a)
      PROVE  ReservationFlagsExact'
  <2>1. a \notin resources_reserved
    BY <1>0, <1>2 DEF Dispatch, Fitting
  <2>2. \A r \in Resources : reserved'[r] = Units(r, resources_reserved')
    BY <1>0, <1>2, <2>1, DispatchReserves
  <2>3. Active' = resources_reserved'
    BY <1>0, <1>2 DEF Dispatch, Marked, Active, TypeOK
  <2> QED
    BY <2>2, <2>3 DEF ReservationFlagsExact
<1>3. ASSUME NEW sample \in Samples, DispatchNothing(sample)
      PROVE  ReservationFlagsExact'
  BY <1>0, <1>a, <1>3 DEF DispatchNothing, Marked
<1>4. ASSUME NEW a \in Agents, MarkRunning(a) PROVE ReservationFlagsExact'
  BY <1>0, <1>a, <1>4 DEF MarkRunning, CanEnter, TransitionSources, TypeOK
<1>7. ASSUME NEW a \in Agents, Complete(a) PROVE ReservationFlagsExact'
  <2>1. CASE UNCHANGED <<unresolved, state, ready, reserved, resources_reserved>>
    BY <1>a, <2>1
  <2>2. CASE ReleaseResources({a}) /\ CanEnter(a, "completed")
    <3>1. \A b \in Agents : state'[b] \in {"dispatched", "running", "blocked"} <=>
                             state[b] \in {"dispatched", "running", "blocked"} /\ b # a
      BY <1>7, <2>2 DEF Complete
    <3> QED
      BY <1>b, <2>2, <3>1
  <2> QED
    BY <1>7, <2>1, <2>2 DEF Complete
<1>8. ASSUME NEW a \in Agents, Fail(a) PROVE ReservationFlagsExact'
  <2>1. CASE FailRetry(a)
    <3>1. \A b \in Agents : state'[b] \in {"dispatched", "running", "blocked"} <=>
                             state[b] \in {"dispatched", "running", "blocked"} /\ b # a
      BY <1>0, <2>1 DEF FailRetry, TypeOK
    <3> QED
      BY <1>b, <2>1, <3>1 DEF FailRetry
  <2>2. CASE FailFinal(a)
    <3>1. {a} \cup LiveDescendants(a) \in SUBSET Agents
      BY DescendantsClosed
    <3>2. \A b \in Agents : state'[b] \in {"dispatched", "running", "blocked"} <=>
                             /\ state[b] \in {"dispatched", "running", "blocked"}
                             /\ b \notin {a} \cup LiveDescendants(a)
      BY <2>2 DEF FailFinal
    <3> QED
      BY <1>b, <2>2, <3>1, <3>2 DEF FailFinal
  <2>3. CASE FailRefused(a)
    <3>1. \A b \in Agents : state'[b] \in {"dispatched", "running", "blocked"} <=>
                             state[b] \in {"dispatched", "running", "blocked"} /\ b # a
      BY <2>3 DEF FailRefused, CanEnter, TransitionSources
    <3> QED
      BY <1>b, <2>3, <3>1 DEF FailRefused
  <2> QED
    BY <1>8, <2>1, <2>2, <2>3 DEF Fail
<1>9. ASSUME NEW a \in Agents, Cancel(a) PROVE ReservationFlagsExact'
  <2>1. {a} \cup LiveDescendants(a) \in SUBSET Agents
    BY DescendantsClosed
  <2>2. \A b \in Agents : state'[b] \in {"dispatched", "running", "blocked"} <=>
                           /\ state[b] \in {"dispatched", "running", "blocked"}
                           /\ b \notin {a} \cup LiveDescendants(a)
    BY <1>9 DEF Cancel
  <2> QED
    BY <1>b, <1>9, <2>1, <2>2 DEF Cancel
<1>10. CASE Tick
  BY <1>a, <1>10 DEF Tick
<1>11. CASE UNCHANGED vars
  BY <1>a, <1>11 DEF vars
<1> QED
  BY <1>1, <1>2, <1>3, <1>4, <1>7, <1>8, <1>9, <1>10, <1>11
     DEF Next, Submit, Spawn, MarkBlocked, Wake

(* Every operation keeps the dependency counters equal to the number of    *)
(* dependencies not yet completed.                                         *)
LEMMA DependencyStep ==
  ASSUME SchedulerInv, Blockers = {}, [Next]_vars
  PROVE  DependencyCounts'
<1>0. /\ TypeOK /\ SoleExecution /\ DependencyCounts
      /\ ready = {a \in Agents : state[a] \in {"ready", "waiting_resource"}}
  BY DEF SchedulerInv, ReadyConsistent, Queued
<1>d. ASSUME NEW a \in Agents, NEW i \in DOMAIN dependencies[a]
      PROVE  dependencies[a][i] \in Agents
  BY <1>0 DEF TypeOK
<1>a. ASSUME NEW a \in Agents,
             UNCHANGED <<dependencies, unresolved>>,
             \A b \in Agents : /\ state'[b] = "completed" <=> state[b] = "completed"
                               /\ state'[b] = "absent" <=> state[b] = "absent",
             state'[a] = "waiting_dependency" => state[a] = "waiting_dependency",
             a \in Queued' \/ executing'[a] > 0 => a \in Queued \/ executing[a] > 0
      PROVE  /\ DependsOn(dependencies', a) \subseteq Nodes'
             /\ unresolved'[a] = Cardinality(Uncompleted(a)')
             /\ state'[a] = "absent" => dependencies'[a] = <<>>
             /\ state'[a] = "waiting_dependency" => unresolved'[a] # 0
             /\ a \in Queued' \/ executing'[a] > 0 => Uncompleted(a)' = {}
  <2>1. Uncompleted(a)' = Uncompleted(a)
    BY <1>a, <1>d DEF Uncompleted
  <2>2. DependsOn(dependencies', a) = DependsOn(dependencies, a) /\ Nodes' = Nodes
    BY <1>a DEF Nodes, DependsOn
  <2>3. Cardinality(Uncompleted(a)') = Cardinality(Uncompleted(a))
    BY <2>1, Zenon
  <2> QED
    BY <1>0, <1>a, <2>1, <2>2, <2>3 DEF DependencyCounts
<1>1. ASSUME NEW batch \in SUBSET Agents, NEW deps \in [batch -> DependencyLists],
             SubmitBatch(batch, deps)
      PROVE  DependencyCounts'
  <2>1. \A b \in Agents : /\ b \in batch => /\ state[b] = "absent"
                                            /\ state'[b] \in {"ready", "waiting_dependency"}
                          /\ b \notin batch => state'[b] = state[b]
    BY <1>1 DEF SubmitBatch, Nodes
  <2>2. Nodes' = Nodes \cup batch
    BY <2>1 DEF Nodes
  <2>3. ASSUME NEW a \in Agents \ batch
        PROVE  /\ DependsOn(dependencies', a) \subseteq Nodes'
               /\ unresolved'[a] = Cardinality(Uncompleted(a)')
               /\ state'[a] = "absent" => dependencies'[a] = <<>>
               /\ state'[a] = "waiting_dependency" => unresolved'[a] # 0
               /\ a \in Queued' \/ executing'[a] > 0 => Uncompleted(a)' = {}
    <3>1. dependencies'[a] = dependencies[a] /\ unresolved'[a] = unresolved[a]
      BY <1>1 DEF SubmitBatch
    <3>2. executing' = executing /\ state'[a] = state[a]
      BY <1>1, <2>1 DEF SubmitBatch
    <3>3. Uncompleted(a)' = Uncompleted(a)
      BY <2>1, <3>1, <1>d DEF Uncompleted
    <3>4. DependsOn(dependencies', a) = DependsOn(dependencies, a)
      BY <3>1 DEF DependsOn
    <3>5. Cardinality(Uncompleted(a)') = Cardinality(Uncompleted(a))
      BY <3>3, Zenon
    <3> QED
      BY <1>0, <2>2, <3>1, <3>2, <3>3, <3>4, <3>5 DEF DependencyCounts, Queued
  <2>4. ASSUME NEW a \in batch
        PROVE  /\ DependsOn(dependencies', a) \subseteq Nodes'
               /\ unresolved'[a] = Cardinality(Uncompleted(a)')
               /\ state'[a] = "absent" => dependencies'[a] = <<>>
               /\ state'[a] = "waiting_dependency" => unresolved'[a] # 0
               /\ a \in Queued' \/ executing'[a] > 0 => Uncompleted(a)' = {}
    <3> DEFINE merged == [b \in Agents |-> IF b \in batch THEN deps[b]
                                                           ELSE dependencies[b]]
               waits == {i \in DOMAIN merged[a] : CountsUnresolved(merged[a][i])}
    <3>1. dependencies' = merged
      BY <1>1 DEF SubmitBatch
    <3>2. unresolved'[a] = Cardinality(waits)
      BY <1>1 DEF SubmitBatch
    <3>3. state'[a] = IF Cardinality(waits) = 0 THEN "ready" ELSE "waiting_dependency"
      BY <1>1 DEF SubmitBatch
    <3>4. merged[a] \in Seq(Agents)
      BY SchedulerAssumption DEF SchedulerAssumption
    <3>5. Uncompleted(a)' = waits
      BY <2>1, <3>1, <3>4 DEF Uncompleted, CountsUnresolved
    <3>6. IsFiniteSet(waits)
      <4>1. waits \in SUBSET (DOMAIN merged[a])
        OBVIOUS
      <4> HIDE DEF merged, waits
      <4> QED
        BY <3>4, <4>1, PositionsFinite
    <3>7. DependsOn(merged, a) \subseteq Nodes'
      BY <1>1, <2>2 DEF SubmitBatch
    <3>8. executing'[a] = 0
      BY <1>0, <1>1, <2>1 DEF SubmitBatch, SoleExecution
    <3> HIDE DEF merged, waits
    <3>9. Cardinality(waits) = 0 => waits = {}
      BY <3>6, FS_EmptySet
    <3>10. Cardinality(Uncompleted(a)') = Cardinality(waits)
      BY <3>5, Zenon
    <3> QED
      BY <3>1, <3>2, <3>3, <3>5, <3>7, <3>8, <3>9, <3>10 DEF Queued
  <2> QED
    BY <2>3, <2>4 DEF DependencyCounts
<1>2. ASSUME NEW sample \in Samples, NEW a \in Agents, Dispatch(sample, a)
      PROVE  DependencyCounts'
  <2>1. a \in ready
    BY <1>2 DEF Dispatch, Fitting
  <2>2. executing' = [executing EXCEPT ![a] = executing[a] + 1] /\ ready' = ready \ {a}
    BY <1>2 DEF Dispatch
  <2>3. \A b \in Agents : \/ state'[b] = state[b]
                          \/ /\ b \in ready
                             /\ state'[b] \in {"ready", "waiting_resource", "dispatched"}
    BY <1>0, <1>2, <2>1 DEF Dispatch, Marked, TypeOK
  <2>4. UNCHANGED <<dependencies, unresolved>>
    BY <1>2 DEF Dispatch, graphVars
  <2>5. ASSUME NEW b \in Agents, b \in Queued' \/ executing'[b] > 0
        PROVE  b \in Queued \/ executing[b] > 0
    BY <1>0, <2>1, <2>2, <2>3, <2>5 DEF Queued, TypeOK
  <2> QED
    BY <1>0, <1>a, <2>3, <2>4, <2>5 DEF DependencyCounts
<1>3. ASSUME NEW sample \in Samples, DispatchNothing(sample)
      PROVE  DependencyCounts'
  BY <1>0, <1>a, <1>3 DEF DispatchNothing, Marked, DependencyCounts, Queued, graphVars
<1>4. ASSUME NEW a \in Agents, MarkRunning(a) PROVE DependencyCounts'
  BY <1>0, <1>a, <1>4 DEF MarkRunning, CanEnter, TransitionSources, TypeOK,
                          DependencyCounts, Queued, graphVars
<1>7. ASSUME NEW a \in Agents, Complete(a) PROVE DependencyCounts'
  <2>1. executing' = [executing EXCEPT ![a] = executing[a] - 1] /\ executing[a] > 0
    BY <1>7 DEF Complete, Report
  <2>2. \A b \in Agents : executing'[b] > 0 => executing[b] > 0
    BY <1>0, <2>1 DEF TypeOK
  <2>3. CASE UNCHANGED <<unresolved, state, ready, reserved, resources_reserved>>
    BY <1>0, <1>a, <1>7, <2>2, <2>3 DEF Complete, DependencyCounts, Queued, graphVars
  <2>4. CASE CanEnter(a, "completed")
    <3> DEFINE left == [b \in Agents |->
                         IF b \in Nodes
                         THEN Minus(unresolved[b],
                                    Cardinality(Occurrences(dependencies, b, a)))
                         ELSE unresolved[b]]
               woken == {b \in Successors(a) : /\ left[b] = 0
                                               /\ state[b] = "waiting_dependency"}
    <3>1. /\ unresolved' = left /\ dependencies' = dependencies
          /\ state' = [b \in Agents |-> IF b = a THEN "completed"
                                         ELSE IF b \in woken THEN "ready"
                                         ELSE state[b]]
      BY <1>7, <2>4 DEF Complete, graphVars
    <3>2. state[a] # "completed" /\ state[a] # "absent"
      BY <2>4 DEF CanEnter, TransitionSources
    <3>3. ASSUME NEW b \in Agents
          PROVE  /\ Uncompleted(b)' = Uncompleted(b) \ Occurrences(dependencies, b, a)
                 /\ Occurrences(dependencies, b, a) \subseteq Uncompleted(b)
      BY <1>d, <3>1, <3>2 DEF Uncompleted, Occurrences
    <3>4. ASSUME NEW b \in Agents
          PROVE  /\ left[b] = Cardinality(Uncompleted(b)')
                 /\ left[b] = 0 => Uncompleted(b)' = {}
      <4>1. dependencies[b] \in Seq(Agents)
        BY <1>0 DEF TypeOK
      <4>2. /\ Uncompleted(b) \in SUBSET (DOMAIN dependencies[b])
            /\ Occurrences(dependencies, b, a) \in SUBSET (DOMAIN dependencies[b])
        BY DEF Uncompleted, Occurrences
      <4>3. /\ IsFiniteSet(Uncompleted(b)) /\ Cardinality(Uncompleted(b)) \in Nat
            /\ Cardinality(Occurrences(dependencies, b, a)) \in Nat
        BY <4>1, <4>2, PositionsFinite
      <4> DEFINE U == Uncompleted(b)
                 O == Occurrences(dependencies, b, a)
      <4>4. U \cap O = O /\ Uncompleted(b)' = U \ O
        BY <3>3
      <4> HIDE DEF U, O
      <4>5. IsFiniteSet(U \ O) /\ Cardinality(U \ O) = Cardinality(U) - Cardinality(U \cap O)
        BY <4>3, FS_Difference DEF U
      <4>6. Cardinality(U \cap O) = Cardinality(O)
        BY <4>4, Zenon
      <4>7. Cardinality(Uncompleted(b)') = Cardinality(U) - Cardinality(O)
        <5>1. Cardinality(Uncompleted(b)') = Cardinality(U \ O)
          BY <4>4, Zenon
        <5> QED
          BY <4>5, <4>6, <5>1
      <4>8. unresolved[b] = Cardinality(U) /\ Cardinality(U) \in Nat /\ Cardinality(O) \in Nat
        BY <1>0, <4>3 DEF DependencyCounts, U, O
      <4>9. IsFiniteSet(Uncompleted(b)') /\ Cardinality(Uncompleted(b)') \in Nat
        BY <4>4, <4>5, FS_CardinalityType
      <4>10. left[b] = Cardinality(Uncompleted(b)')
        <5>1. CASE b \in Nodes
          <6>1. left[b] = Minus(Cardinality(U), Cardinality(O))
            BY <4>8, <5>1 DEF O
          <6> QED
            BY <4>7, <4>8, <4>9, <6>1 DEF Minus
        <5>2. CASE b \notin Nodes
          <6>1. dependencies[b] = <<>>
            BY <1>0, <5>2 DEF DependencyCounts, Nodes
          <6>2. O = {}
            BY <6>1 DEF O, Occurrences
          <6>3. Cardinality(O) = 0
            BY <6>2, FS_EmptySet, Zenon
          <6>4. left[b] = Cardinality(U)
            BY <4>8, <5>2
          <6> QED
            BY <4>7, <4>8, <6>3, <6>4
        <5> QED
          BY <5>1, <5>2
      <4>11. Cardinality(Uncompleted(b)') = 0 => Uncompleted(b)' = {}
        BY <4>9, FS_EmptySet
      <4> QED
        BY <4>10, <4>11
    <3>5. Nodes' = Nodes
      BY <3>1, <3>2 DEF Nodes, Successors
    <3>6. ASSUME NEW b \in Agents
          PROVE  /\ DependsOn(dependencies', b) \subseteq Nodes'
                 /\ unresolved'[b] = Cardinality(Uncompleted(b)')
                 /\ state'[b] = "absent" => dependencies'[b] = <<>>
                 /\ state'[b] = "waiting_dependency" => unresolved'[b] # 0
                 /\ b \in Queued' \/ executing'[b] > 0 => Uncompleted(b)' = {}
      <4>1. DependsOn(dependencies', b) \subseteq Nodes'
        BY <1>0, <3>1, <3>5 DEF DependencyCounts
      <4>2. unresolved'[b] = Cardinality(Uncompleted(b)')
        BY <3>1, <3>4
      <4>3. state'[b] = "absent" => dependencies'[b] = <<>>
        BY <1>0, <3>1 DEF DependencyCounts
      <4>4. ASSUME state'[b] = "waiting_dependency"
            PROVE  unresolved'[b] # 0
        <5>1. b # a /\ b \notin woken /\ state[b] = "waiting_dependency"
          BY <3>1, <4>4
        <5>2. CASE b \in Successors(a)
          BY <3>1, <5>1, <5>2
        <5>3. CASE b \notin Successors(a)
          <6>1. Occurrences(dependencies, b, a) = {}
            BY <5>1, <5>3 DEF Successors, Nodes, DependsOn, Occurrences
          <6>2. Cardinality(Occurrences(dependencies, b, a)) = 0
            BY <6>1, FS_EmptySet, Zenon
          <6>3. unresolved[b] \in Nat /\ unresolved[b] # 0
            BY <1>0, <5>1 DEF TypeOK, DependencyCounts
          <6>4. left[b] = unresolved[b]
            BY <6>2, <6>3 DEF Minus
          <6> QED
            BY <3>1, <6>3, <6>4
        <5> QED
          BY <5>2, <5>3
      <4>5. ASSUME b \in Queued' \/ executing'[b] > 0
            PROVE  Uncompleted(b)' = {}
        <5>1. b \in woken \/ b \in Queued \/ executing[b] > 0
          BY <2>2, <3>1, <4>5 DEF Queued
        <5>2. CASE b \in woken
          BY <3>4, <5>2
        <5>3. CASE b \in Queued \/ executing[b] > 0
          <6>1. Uncompleted(b) = {}
            BY <1>0, <5>3 DEF DependencyCounts
          <6> QED
            BY <3>3, <6>1
        <5> QED
          BY <5>1, <5>2, <5>3
      <4> QED
        BY <4>1, <4>2, <4>3, <4>4, <4>5
    <3> QED
      BY <3>6 DEF DependencyCounts
  <2> QED
    BY <1>7, <2>3, <2>4 DEF Complete
<1>8. ASSUME NEW a \in Agents, Fail(a) PROVE DependencyCounts'
  <2>1. executing' = [executing EXCEPT ![a] = executing[a] - 1] /\ executing[a] > 0
    BY <1>8 DEF Fail, Report
  <2>2. \A b \in Agents : executing'[b] > 0 => executing[b] > 0
    BY <1>0, <2>1 DEF TypeOK
  <2>3. state[a] \notin {"completed", "absent", "waiting_dependency"}
    BY <1>0, <2>1 DEF SoleExecution
  <2>4. UNCHANGED <<dependencies, unresolved>>
    BY <1>8 DEF Fail, graphVars
  <2>5. \A b \in Agents : \/ state'[b] = state[b]
                          \/ b = a /\ state'[b] \in {"ready", "failed"}
                          \/ b \in Live /\ state'[b] = "cancelled"
    <3>1. CASE FailRetry(a)
      BY <1>0, <3>1 DEF FailRetry, TypeOK
    <3>2. CASE FailFinal(a)
      BY <3>2, DescendantsClosed DEF FailFinal
    <3>3. CASE FailRefused(a)
      BY <3>3 DEF FailRefused
    <3> QED
      BY <1>8, <3>1, <3>2, <3>3 DEF Fail
  <2>6. \A b \in Agents : b \in Queued' \/ executing'[b] > 0 =>
                          b \in Queued \/ executing[b] > 0
    BY <2>1, <2>2, <2>5 DEF Queued
  <2>7. \A b \in Agents : /\ state'[b] = "completed" <=> state[b] = "completed"
                          /\ state'[b] = "absent" <=> state[b] = "absent"
                          /\ state'[b] = "waiting_dependency" =>
                               state[b] = "waiting_dependency"
    BY <2>3, <2>5 DEF Live, Nodes, Terminal
  <2> QED
    BY <1>a, <2>4, <2>6, <2>7 DEF DependencyCounts
<1>9. ASSUME NEW a \in Agents, Cancel(a) PROVE DependencyCounts'
  <2>1. \A b \in Agents : \/ state'[b] = state[b]
                          \/ b \in Live /\ state'[b] = "cancelled"
    BY <1>9, DescendantsClosed DEF Cancel, CanEnter, TransitionSources, Live, Nodes
  <2>2. \A b \in Agents : /\ state'[b] = "completed" <=> state[b] = "completed"
                          /\ state'[b] = "absent" <=> state[b] = "absent"
                          /\ state'[b] = "waiting_dependency" =>
                               state[b] = "waiting_dependency"
                          /\ b \in Queued' => b \in Queued
    BY <2>1 DEF Live, Nodes, Terminal, Queued
  <2> QED
    BY <1>a, <1>9, <2>2 DEF DependencyCounts, Cancel, graphVars
<1>10. CASE Tick
  BY <1>a, <1>10 DEF Tick, DependencyCounts, Queued, graphVars
<1>11. CASE UNCHANGED vars
  BY <1>a, <1>11 DEF vars, DependencyCounts, Queued
<1> QED
  BY <1>1, <1>2, <1>3, <1>4, <1>7, <1>8, <1>9, <1>10, <1>11
     DEF Next, Submit, Spawn, MarkBlocked, Wake
-----------------------------------------------------------------------------
(* Invariance *)

(* The empty scheduler satisfies the invariant. *)
LEMMA SchedulerInvInit == Init => SchedulerInv
<1> SUFFICES ASSUME Init PROVE SchedulerInv
  OBVIOUS
<1>1. TypeOK
  BY TypeInit
<1>2. Active = {} /\ Queued = {}
  BY DEF Init, Active, Queued
<1>3. \A r \in Resources : Units(r, {}) = 0
  BY NoUnits
<1>4. ReservationFlags /\ ReservationFlagsExact /\ ReadyConsistent
  BY <1>2, <1>3 DEF Init, ReservationFlags, ReservationFlagsExact, ReadyConsistent
<1>5. SoleExecution
  BY DEF Init, SoleExecution
<1>6. DependencyCounts
  <2>1. \A a \in Agents : Uncompleted(a) = {} /\ DependsOn(dependencies, a) = {}
    BY DEF Init, Uncompleted, DependsOn
  <2>2. \A a \in Agents : Cardinality(Uncompleted(a)) = 0
    BY <2>1, FS_EmptySet, Zenon
  <2> QED
    BY <2>1, <2>2 DEF Init, DependencyCounts
<1> QED
  BY <1>1, <1>4, <1>5, <1>6 DEF SchedulerInv

(* SchedulerInv holds initially and every operation preserves it. *)
THEOREM SchedulerInvariance == Spec => []SchedulerInv
<1>1. SchedulerInv /\ [Next]_vars => SchedulerInv'
  BY TypeStep, ReadyStep, FlagsStep, SoleStep, ExactStep, DependencyStep
     DEF SchedulerInv
<1> QED
  BY <1>1, SchedulerInvInit, PTL DEF Spec

(* Type correctness: in particular retries stay within their limit and the *)
(* reservation counters within their integer type (scheduler.cpp, fail and *)
(* dispatch_locked).                                                       *)
THEOREM TypeCorrect == Spec => []TypeOK
<1>1. SchedulerInv => TypeOK
  BY DEF SchedulerInv
<1> QED
  BY <1>1, SchedulerInvariance, PTL

(* The ready set always holds exactly the agents that wait for a worker.   *)
THEOREM ReadySetCorrect == Spec => []ReadyConsistent
<1>1. SchedulerInv => ReadyConsistent
  BY DEF SchedulerInv
<1> QED
  BY <1>1, SchedulerInvariance, PTL

(* SchedulerInv and ReservationShares together hold initially and every    *)
(* operation preserves them.                                               *)
LEMMA SharesInvariance == Spec => [](SchedulerInv /\ ReservationShares)
<1>1. Init => ReservationShares
  <2> SUFFICES ASSUME Init PROVE ReservationShares
    OBVIOUS
  <2>1. TypeOK
    BY TypeInit
  <2>2. \A a \in Agents : Shares[a] = 0
    BY DEF Init, Shares, Share, Uncancelled
  <2>3. ASSUME NEW r \in Resources PROVE UnitsOf(r, Shares) = 0
    <3>1. \A a \in Agents : Request[a][r] \in Nat
      BY SchedulerAssumption DEF SchedulerAssumption
    <3>2. UnitsTable(r, Shares) = {}
      <4>1. ASSUME NEW a \in Agents PROVE UnitsColumn(r, Shares, a) = {}
        <5>1. Shares[a] * Request[a][r] = 0
          BY <2>2, <3>1
        <5> QED
          BY <5>1 DEF UnitsColumn
      <4> QED
        BY <4>1 DEF UnitsTable
    <3>3. UnitsOf(r, Shares) = Cardinality(UnitsTable(r, Shares))
      BY <2>1, SharesType, UnitsTableFinite
    <3> QED
      BY <3>2, <3>3, FS_EmptySet
  <2> QED
    BY <2>3 DEF Init, ReservationShares, Shares
<1>2. SchedulerInv /\ SchedulerInv' /\ ReservationShares /\ [Next]_vars
        => ReservationShares'
  BY SharesStep
<1> QED
  BY <1>1, <1>2, SchedulerInvariance, PTL DEF Spec

(* Every execution under way, but for one of each cancelled agent, is      *)
(* covered by the counters, with or without block and wake: dispatch never *)
(* promises its resources again (dispatch_locked, release_resources_locked).*)
THEOREM ReservationsCovered == Spec => []ReservationsCover
<1>1. SchedulerInv /\ ReservationShares => ReservationsCover
  <2> SUFFICES ASSUME TypeOK, ReservationShares, NEW r \in Resources
               PROVE  reserved[r] >= UnitsOf(r, [a \in Agents |-> Uncancelled(a)])
    BY DEF ReservationsCover, SchedulerInv
  <2> DEFINE held == [a \in Agents |-> Uncancelled(a)]
  <2>1. held \in [Agents -> Nat] /\ Shares \in [Agents -> Nat]
    BY SharesType DEF TypeOK, Uncancelled, Minus
  <2>2. \A a \in Agents : held[a] + (IF a \in {} THEN 1 ELSE 0) <= Shares[a]
    BY DEF TypeOK, Shares, Share, Uncancelled, Minus
  <2>3. reserved[r] \in Nat /\ reserved[r] >= UnitsOf(r, Shares)
    BY SchedulerAssumption DEF ReservationShares, Shares, TypeOK, SchedulerAssumption
  <2> HIDE DEF held
  <2>4. UnitsOf(r, Shares) >= UnitsOf(r, held) + Units(r, {})
    BY <2>1, <2>2, UnitsLoss
  <2>5. UnitsOf(r, held) \in Nat /\ UnitsOf(r, Shares) \in Nat /\ Units(r, {}) = 0
    BY <2>1, UnitsTableFinite, NoUnits
  <2>6. reserved[r] >= UnitsOf(r, held)
    BY <2>3, <2>4, <2>5
  <2> QED
    BY <2>6 DEF held
<1> QED
  BY <1>1, SharesInvariance, PTL

(* Without block and wake no reservation is leaked or returned twice.      *)
THEOREM ReservationsAreExact == Spec => []ReservationsExact
<1>1. SchedulerInv => ReservationsExact
  BY DEF SchedulerInv, ReservationsExact, ReservationFlagsExact
<1> QED
  BY <1>1, SchedulerInvariance, PTL

(* No agent is queued, dispatched or running before its dependencies have  *)
(* completed (submit_batch_locked, complete, fail).                        *)
THEOREM DependenciesAreMet == Spec => []DependenciesMet
<1>1. SchedulerInv => DependenciesMet
  <2> SUFFICES ASSUME SchedulerInv, Blockers = {}, NEW a \in Queued \cup Active
               PROVE  Uncompleted(a) = {}
    BY DEF DependenciesMet
  <2>1. a \in Queued \/ executing[a] > 0
    BY DEF SchedulerInv, SoleExecution, Active, Queued
  <2> QED
    BY <2>1 DEF SchedulerInv, DependencyCounts, Queued, Active
<1> QED
  BY <1>1, SchedulerInvariance, PTL

(* An agent in waiting_dependency has a dependency that has not completed. *)
THEOREM WakeupsAreKept == Spec => []NoLostWakeup
<1>1. SchedulerInv => NoLostWakeup
  <2> SUFFICES ASSUME SchedulerInv, Blockers = {}, NEW a \in Agents,
                      state[a] = "waiting_dependency", Uncompleted(a) = {}
               PROVE  FALSE
    BY DEF NoLostWakeup
  <2>1. Cardinality(Uncompleted(a)) = 0
    BY FS_EmptySet, Zenon
  <2> QED
    BY <2>1 DEF SchedulerInv, DependencyCounts
<1> QED
  BY <1>1, SchedulerInvariance, PTL

(* Completion is final: the worker that could still call fail for an agent *)
(* never holds a completed one.                                            *)
THEOREM CompletionIsFinal == Spec => CompletedIsFinal
<1>1. ASSUME SchedulerInv, [Next]_vars, Blockers = {}, NEW a \in Agents,
             state[a] = "completed"
      PROVE  state'[a] = "completed"
  <2>0. /\ TypeOK /\ SoleExecution
        /\ ready = {b \in Agents : state[b] \in {"ready", "waiting_resource"}}
    BY <1>1 DEF SchedulerInv, ReadyConsistent, Queued
  <2>1. executing[a] = 0 /\ a \notin ready
    BY <1>1, <2>0 DEF SoleExecution
  <2>2. ASSUME NEW batch \in SUBSET Agents, NEW deps \in [batch -> DependencyLists],
               SubmitBatch(batch, deps)
        PROVE  state'[a] = "completed"
    BY <1>1, <2>2 DEF SubmitBatch, Nodes
  <2>3. ASSUME NEW sample \in Samples, NEW b \in Agents, Dispatch(sample, b)
        PROVE  state'[a] = "completed"
    BY <1>1, <2>1, <2>3 DEF Dispatch, Marked, Fitting
  <2>4. ASSUME NEW sample \in Samples, DispatchNothing(sample)
        PROVE  state'[a] = "completed"
    BY <1>1, <2>1, <2>4 DEF DispatchNothing, Marked
  <2>5. ASSUME NEW b \in Agents, MarkRunning(b) PROVE state'[a] = "completed"
    BY <1>1, <2>0, <2>1, <2>5 DEF MarkRunning, TypeOK
  <2>6. ASSUME NEW b \in Agents, Complete(b) PROVE state'[a] = "completed"
    BY <1>1, <2>6 DEF Complete
  <2>7. ASSUME NEW b \in Agents, Fail(b) PROVE state'[a] = "completed"
    <3>1. a # b
      BY <2>1, <2>7 DEF Fail, Report
    <3>2. a \notin LiveDescendants(b)
      BY <1>1, DescendantsClosed DEF Live, Terminal
    <3> QED
      BY <1>1, <2>0, <2>7, <3>1, <3>2 DEF Fail, FailRetry, FailFinal, FailRefused, TypeOK
  <2>8. ASSUME NEW b \in Agents, Cancel(b) PROVE state'[a] = "completed"
    BY <1>1, <2>8, DescendantsClosed
       DEF Cancel, CanEnter, TransitionSources, Live, Terminal
  <2>9. CASE UNCHANGED state
    BY <1>1, <2>9
  <2> QED
    BY <1>1, <2>2, <2>3, <2>4, <2>5, <2>6, <2>7, <2>8, <2>9
       DEF Next, Submit, Spawn, MarkBlocked, Wake, Tick, vars
<1>2. SchedulerInv /\ [Next]_vars =>
        [Blockers = {} => \A a \in Agents :
           state[a] = "completed" => state'[a] = "completed"]_vars
  BY <1>1
<1> QED
  BY <1>2, SchedulerInvariance, PTL DEF Spec, CompletedIsFinal

(* The step that fails or cancels an agent leaves none of its dependents   *)
(* live (cancel_descendants_locked), for every dependency graph.           *)
THEOREM StopsCascade == Spec => StopCascades
<1>1. ASSUME SchedulerInv, [Next]_vars, NEW a \in Agents,
             state[a] \notin Stopped, state'[a] \in Stopped,
             NEW b \in Live', a \in DependsOn(dependencies', b)
      PROVE  FALSE
  <2>0. TypeOK /\ ready = {c \in Agents : state[c] \in {"ready", "waiting_resource"}}
    BY <1>1 DEF SchedulerInv, ReadyConsistent, Queued
  <2> USE DEF Stopped
  <2>1. ASSUME NEW batch \in SUBSET Agents, NEW deps \in [batch -> DependencyLists],
               SubmitBatch(batch, deps)
        PROVE  FALSE
    BY <1>1, <2>1 DEF SubmitBatch
  <2>2. ASSUME NEW sample \in Samples, NEW c \in Agents, Dispatch(sample, c)
        PROVE  FALSE
    BY <1>1, <2>0, <2>2 DEF Dispatch, Marked, TypeOK
  <2>3. ASSUME NEW sample \in Samples, DispatchNothing(sample)
        PROVE  FALSE
    BY <1>1, <2>3 DEF DispatchNothing, Marked
  <2>4. ASSUME NEW c \in Agents, MarkRunning(c) PROVE FALSE
    BY <1>1, <2>0, <2>4 DEF MarkRunning, TypeOK
  <2>5. ASSUME NEW c \in Agents, MarkBlocked(c) PROVE FALSE
    BY <1>1, <2>0, <2>5 DEF MarkBlocked, TypeOK
  <2>6. ASSUME NEW c \in Agents, Wake(c) PROVE FALSE
    BY <1>1, <2>0, <2>6 DEF Wake, TypeOK
  <2>7. ASSUME NEW c \in Agents, Complete(c) PROVE FALSE
    BY <1>1, <2>7 DEF Complete
  <2>8. ASSUME NEW c \in Agents, Fail(c) PROVE FALSE
    <3>1. CASE FailFinal(c)
      <4>1. a \in {c} \cup LiveDescendants(c)
        BY <1>1, <3>1 DEF FailFinal
      <4>2. b \in Agents /\ b \in Nodes /\ b \in Live
        BY <1>1, <3>1 DEF FailFinal, Live, Nodes, Terminal
      <4>3. b \in Successors(a)
        BY <1>1, <2>8, <4>2 DEF Fail, Successors, graphVars
      <4>4. b \in LiveDescendants(c)
        BY <4>1, <4>2, <4>3, DescendantsClosed
      <4> QED
        BY <1>1, <3>1, <4>4 DEF FailFinal, Live, Nodes, Terminal
    <3>2. CASE FailRetry(c)
      BY <1>1, <2>0, <3>2 DEF FailRetry, TypeOK
    <3>3. CASE FailRefused(c)
      BY <1>1, <3>3 DEF FailRefused
    <3> QED
      BY <2>8, <3>1, <3>2, <3>3 DEF Fail
  <2>9. ASSUME NEW c \in Agents, Cancel(c) PROVE FALSE
    <3>1. a \in {c} \cup LiveDescendants(c)
      BY <1>1, <2>9 DEF Cancel
    <3>2. b \in Agents /\ b \in Nodes /\ b \in Live
      BY <1>1, <2>9 DEF Cancel, Live, Nodes, Terminal
    <3>3. b \in Successors(a)
      BY <1>1, <2>9, <3>2 DEF Cancel, Successors, graphVars
    <3>4. b \in LiveDescendants(c)
      BY <3>1, <3>2, <3>3, DescendantsClosed
    <3> QED
      BY <1>1, <2>9, <3>4 DEF Cancel, Live, Nodes, Terminal
  <2>10. CASE UNCHANGED state
    BY <1>1, <2>10
  <2> QED
    BY <1>1, <2>1, <2>2, <2>3, <2>4, <2>5, <2>6, <2>7, <2>8, <2>9, <2>10
       DEF Next, Submit, Spawn, Tick, vars
<1>2. SchedulerInv /\ [Next]_vars =>
        [\A a \in Agents : state[a] \notin Stopped /\ state'[a] \in Stopped =>
           \A b \in Live' : a \notin DependsOn(dependencies', b)]_vars
  BY <1>1
<1> QED
  BY <1>2, SchedulerInvariance, PTL DEF Spec, StopCascades
-----------------------------------------------------------------------------
(* The graph of tasks *)

(* No agent waits for itself, whatever was submitted (graph_has_cycle_     *)
(* locked is asked before a batch is accepted, and only then).             *)
DependenciesAcyclic == ~HasCycle(dependencies, Nodes)

(* Stages and held agents, as TaskGraph sees them.                         *)
StageOf == [a \in Agents |-> Stage(a)]
NeedsOf == [a \in Agents |-> DependsOn(dependencies, a)]
HeldBy == {a \in Agents : executing[a] > 0}

(* What the refinement needs of the invariant, without block and wake.     *)
LEMMA StageFacts ==
  ASSUME SchedulerInv, Blockers = {}
  PROVE  /\ Nodes = {a \in Agents : StageOf[a] # "absent"}
         /\ Live = {a \in Agents : StageOf[a] \in {"pending", "started"}}
         /\ \A a \in Agents :
              /\ StageOf[a] = "pending" <=>
                   state[a] \in {"waiting_dependency", "ready", "waiting_resource"}
              /\ StageOf[a] = "started" <=> state[a] \in {"dispatched", "running"}
              /\ \A s \in {"absent", "completed", "failed", "cancelled"} :
                   StageOf[a] = s <=> state[a] = s
<1>1. \A a \in Agents : state[a] \in AgentState \cup {"absent"} /\ state[a] \notin {"created", "blocked", "suspended"}
  BY DEF SchedulerInv, TypeOK, SoleExecution
<1> QED
  BY <1>1 DEF StageOf, Stage, Nodes, Live, Terminal, AgentState

(* The agents cancelled along with a are those that depend on it or on one *)
(* of them: the least set that is closed holds nothing else.               *)
LEMMA CascadeExact ==
  ASSUME DependenciesAcyclic, NEW a \in Nodes
  PROVE  /\ LiveDescendants(a) \in SUBSET (Live \ {a})
         /\ \A b \in Live \ {a} :
              b \in LiveDescendants(a) <=> DependsOn(dependencies, b) \cap ({a} \cup LiveDescendants(a)) # {}
<1> DEFINE S == LiveDescendants(a)
<1>0. a \in Agents /\ Live \subseteq Nodes /\ S \subseteq Live
  BY DEF Nodes, Live, LiveDescendants
<1>1. \A b \in {a} \cup S : Successors(b) \cap Live \subseteq S
  BY <1>0, DescendantsClosed
<1>2. ASSUME NEW b \in Live, DependsOn(dependencies, b) \cap ({a} \cup S) # {}
      PROVE  b \in S
  <2>1. PICK c \in {a} \cup S : c \in DependsOn(dependencies, b)
    BY <1>2, Zenon
  <2>2. b \in Successors(c)
    BY <1>0, <2>1 DEF Successors
  <2> QED
    BY <1>1, <1>2, <2>1, <2>2, Zenon
<1>3. ASSUME NEW b \in S
      PROVE  DependsOn(dependencies, b) \cap ({a} \cup S) # {}
  <2> SUFFICES ASSUME DependsOn(dependencies, b) \cap ({a} \cup S) = {}
               PROVE  FALSE
    OBVIOUS
  <2> DEFINE T == S \ {b}
  <2>1. T \in SUBSET Live
    BY <1>0
  <2>2. ASSUME NEW c \in {a} \cup T, NEW e \in Successors(c) \cap Live
        PROVE  e \in T
    <3>1. c \in {a} \cup S
      BY <2>2
    <3>2. e \in S
      BY <1>1, <3>1, <2>2, Zenon
    <3>3. c \in DependsOn(dependencies, e)
      BY <2>2 DEF Successors
    <3>4. e # b
      BY <3>1, <3>3, Zenon
    <3> QED
      BY <3>2, <3>4
  <2>3. HoldsDescendants(T, a)
    BY <2>2, Zenon DEF HoldsDescendants
  <2>4. b \in T
    BY <1>3, <2>1, <2>3, Zenon DEF LiveDescendants
  <2> QED
    BY <2>4
<1>4. a \notin S
  <2> SUFFICES ASSUME a \in S PROVE FALSE
    OBVIOUS
  <2>0. a \in S
    OBVIOUS
  <2> HIDE DEF S
  <2>1. {a} \cup S = S
    BY <2>0
  <2>2. S \in (SUBSET Nodes) \ {{}}
    BY <1>0, <2>0
  <2>3. HasCycle(dependencies, Nodes)
    BY <1>3, <2>1, <2>2, Zenon DEF HasCycle
  <2> QED
    BY <2>3 DEF DependenciesAcyclic
<1> HIDE DEF S
<1>5. S \in SUBSET (Live \ {a})
  BY <1>0, <1>4
<1>6. \A b \in Live \ {a} : b \in S <=> DependsOn(dependencies, b) \cap ({a} \cup S) # {}
  BY <1>2, <1>3, <1>5, Zenon
<1> QED
  BY <1>5, <1>6, Zenon DEF S

(* Only a submission changes the graph, and it has been asked for cycles.  *)
LEMMA AcyclicStep ==
  ASSUME SchedulerInv, Blockers = {}, DependenciesAcyclic, [Next]_vars
  PROVE  DependenciesAcyclic'
<1>0. /\ TypeOK /\ SoleExecution
      /\ ready = {a \in Agents : state[a] \in {"ready", "waiting_resource"}}
  BY DEF SchedulerInv, ReadyConsistent, Queued
<1>1. ASSUME NEW batch \in SUBSET Agents, NEW deps \in [batch -> DependencyLists],
             SubmitBatch(batch, deps)
      PROVE  DependenciesAcyclic'
  <2>1. ~HasCycle(dependencies', Nodes \cup batch)
    BY <1>1, Zenon DEF SubmitBatch
  <2>2. \A a \in Agents : state'[a] # "absent" => a \in batch \/ state'[a] = state[a]
    BY <1>1 DEF SubmitBatch
  <2>3. Nodes' \subseteq Nodes \cup batch
    BY <2>2 DEF Nodes
  <2> QED
    BY <2>1, <2>3, Zenon DEF DependenciesAcyclic, HasCycle
<1>2. ASSUME UNCHANGED dependencies, \A a \in Agents : state[a] = "absent" => state'[a] = "absent"
      PROVE  DependenciesAcyclic'
  <2>1. Nodes' \subseteq Nodes
    BY <1>2 DEF Nodes
  <2> QED
    BY <1>2, <2>1 DEF DependenciesAcyclic, HasCycle
<1>4. \A b \in Agents : \A a \in LiveDescendants(b) : state[a] # "absent"
  BY DEF LiveDescendants, Live, Nodes
<1>5. ASSUME NEW sample \in Samples, NEW b \in Agents, Dispatch(sample, b)
      PROVE  DependenciesAcyclic'
  <2>1. \A a \in Agents : state[a] = "absent" => state'[a] = "absent"
    BY <1>0, <1>5 DEF Dispatch, Marked, Fitting
  <2> QED
    BY <1>2, <1>5, <2>1 DEF Dispatch, graphVars
<1>6. ASSUME NEW sample \in Samples, DispatchNothing(sample)
      PROVE  DependenciesAcyclic'
  <2>1. \A a \in Agents : state[a] = "absent" => state'[a] = "absent"
    BY <1>0, <1>6 DEF DispatchNothing, Marked
  <2> QED
    BY <1>2, <1>6, <2>1 DEF DispatchNothing, graphVars
<1>7. ASSUME NEW b \in Agents, MarkRunning(b) PROVE DependenciesAcyclic'
  BY <1>0, <1>2, <1>7 DEF MarkRunning, graphVars, CanEnter, TransitionSources, TypeOK
<1>8. ASSUME NEW b \in Agents, Complete(b) PROVE DependenciesAcyclic'
  <2>1. \A a \in Agents : state[a] = "absent" => state'[a] = "absent"
    BY <1>8 DEF Complete, CanEnter, TransitionSources
  <2> QED
    BY <1>2, <1>8, <2>1 DEF Complete, graphVars
<1>9. ASSUME NEW b \in Agents, Fail(b) PROVE DependenciesAcyclic'
  <2>1. executing[b] > 0 /\ state[b] # "absent"
    BY <1>0, <1>9 DEF Fail, Report, SoleExecution
  <2>2. \A a \in Agents : state[a] = "absent" => state'[a] = "absent"
    <3>1. CASE FailRetry(b)
      BY <1>0, <2>1, <3>1 DEF FailRetry, TypeOK
    <3>2. CASE FailFinal(b)
      BY <1>4, <2>1, <3>2 DEF FailFinal
    <3>3. CASE FailRefused(b)
      BY <3>3 DEF FailRefused
    <3> QED
      BY <1>9, <3>1, <3>2, <3>3 DEF Fail
  <2> QED
    BY <1>2, <1>9, <2>2 DEF Fail, graphVars
<1>10. ASSUME NEW b \in Agents, Cancel(b) PROVE DependenciesAcyclic'
  <2>1. \A a \in Agents : state[a] = "absent" => state'[a] = "absent"
    BY <1>4, <1>10 DEF Cancel, Nodes
  <2> QED
    BY <1>2, <1>10, <2>1 DEF Cancel, graphVars
<1>11. CASE Tick
  BY <1>2, <1>11 DEF Tick, graphVars
<1>12. CASE UNCHANGED vars
  BY <1>2, <1>12 DEF vars, graphVars
<1> QED
  BY <1>1, <1>5, <1>6, <1>7, <1>8, <1>9, <1>10, <1>11, <1>12
     DEF Next, Submit, Spawn, MarkBlocked, Wake

(* What a step leaves of stages and held agents; the rest of a step is     *)
(* invisible to TaskGraph.                                                 *)
LEMMA SameGraph ==
  ASSUME \A a \in Agents : StageOf'[a] = StageOf[a],
         UNCHANGED <<dependencies, retry_count, executing>>
  PROVE  UNCHANGED Tasks!graph
<1>1. StageOf' = StageOf
  BY DEF StageOf
<1>2. NeedsOf' = NeedsOf /\ HeldBy' = HeldBy
  BY DEF NeedsOf, HeldBy, DependsOn
<1> QED
  BY <1>1, <1>2 DEF Tasks!graph, StageOf, NeedsOf, HeldBy

(* An agent that ends, with those it takes along.                          *)
LEMMA EndStep ==
  ASSUME SchedulerInv, Blockers = {}, DependenciesAcyclic, NEW a \in Nodes,
         NEW outcome \in {"failed", "cancelled"},
         state' = [b \in Agents |-> IF b = a THEN outcome
                                    ELSE IF b \in LiveDescendants(a) THEN "cancelled" ELSE state[b]]
  PROVE  Tasks!End(a, outcome)
<1> DEFINE S == LiveDescendants(a)
           U == {b \in Agents : StageOf[b] \in {"pending", "started"}}
<1>1. Live = U
  BY StageFacts
<1>2. S \in SUBSET (U \ {a})
  BY <1>1, CascadeExact, Zenon
<1>3. \A b \in U \ {a} : b \in S <=> NeedsOf[b] \cap ({a} \cup S) # {}
  <2>1. \A b \in U \ {a} : b \in S <=> DependsOn(dependencies, b) \cap ({a} \cup S) # {}
    BY <1>1, CascadeExact, Zenon
  <2>2. \A b \in U \ {a} : NeedsOf[b] = DependsOn(dependencies, b)
    BY DEF NeedsOf
  <2> QED
    BY <2>1, <2>2, Zenon
<1>4. StageOf' = [b \in Agents |-> IF b = a THEN outcome
                                   ELSE IF b \in S THEN "cancelled" ELSE StageOf[b]]
  <2> HIDE DEF S
  <2>0. state' = [b \in Agents |-> IF b = a THEN outcome
                                    ELSE IF b \in S THEN "cancelled" ELSE state[b]]
    BY DEF S
  <2>1. ASSUME NEW b \in Agents
        PROVE  StageOf'[b] = IF b = a THEN outcome ELSE IF b \in S THEN "cancelled" ELSE StageOf[b]
    BY <2>0 DEF StageOf, Stage
  <2> QED
    BY <2>1 DEF StageOf
<1> HIDE DEF S
<1>5. \E R \in SUBSET (U \ {a}) :
        /\ \A b \in U \ {a} : b \in R <=> NeedsOf[b] \cap ({a} \cup R) # {}
        /\ StageOf' = [b \in Agents |-> IF b = a THEN outcome
                                        ELSE IF b \in R THEN "cancelled" ELSE StageOf[b]]
  BY <1>2, <1>3, <1>4, Zenon
<1> QED
  BY <1>5, Zenon DEF Tasks!End, Tasks!Unfinished, StageOf, NeedsOf

(* A submission adds its batch.                                            *)
LEMMA SubmitAdds ==
  ASSUME SchedulerInv, Blockers = {}, NEW batch \in SUBSET Agents,
         NEW deps \in [batch -> DependencyLists], SubmitBatch(batch, deps)
  PROVE  Tasks!Add(batch)
<1>1. batch # {} /\ batch \cap Nodes = {} /\ ~HasCycle(dependencies', Nodes \cup batch)
  BY Zenon DEF SubmitBatch
<1>2. /\ dependencies' = [a \in Agents |-> IF a \in batch THEN deps[a] ELSE dependencies[a]]
      /\ \A a \in batch : DependsOn(dependencies', a) \subseteq (Nodes \cup batch) \ {a}
      /\ \A a \in batch : state'[a] \in {"ready", "waiting_dependency"}
      /\ \A a \in Agents \ batch : state'[a] = state[a]
      /\ UNCHANGED <<retry_count, executing>>
  BY DEF SubmitBatch
<1>3. StageOf' = [a \in Agents |-> IF a \in batch THEN "pending" ELSE StageOf[a]]
  BY <1>2 DEF StageOf, Stage
<1>4. \A a \in Agents \ batch : NeedsOf'[a] = NeedsOf[a]
  BY <1>2 DEF NeedsOf, DependsOn
<1>5. NeedsOf' \in [Agents -> SUBSET (Nodes \cup batch)]
  <2>1. ASSUME NEW a \in Agents PROVE NeedsOf'[a] \in SUBSET (Nodes \cup batch)
    <3>1. CASE a \in batch
      BY <1>2, <3>1 DEF NeedsOf
    <3>2. CASE a \notin batch
      <4>1. NeedsOf'[a] = DependsOn(dependencies, a)
        BY <1>4, <3>2 DEF NeedsOf
      <4> QED
        BY <4>1 DEF SchedulerInv, DependencyCounts
    <3> QED
      BY <3>1, <3>2
  <2> QED
    BY <2>1 DEF NeedsOf
<1>6. Nodes = {a \in Agents : StageOf[a] # "absent"}
  BY StageFacts
<1>7. {a \in Agents : StageOf'[a] # "absent"} = Nodes \cup batch
  BY <1>3, <1>6
<1>8. \A S \in SUBSET {a \in Agents : StageOf'[a] # "absent"} :
        S # {} => \E a \in S : NeedsOf'[a] \cap S = {}
  <2>1. ASSUME NEW S \in SUBSET (Nodes \cup batch), S # {}
        PROVE  \E a \in S : NeedsOf'[a] \cap S = {}
    <3>1. PICK a \in S : DependsOn(dependencies', a) \cap S = {}
      BY <1>1, <2>1 DEF HasCycle
    <3>2. NeedsOf'[a] = DependsOn(dependencies', a)
      BY <2>1 DEF NeedsOf, Nodes
    <3> QED
      BY <3>1, <3>2
  <2> QED
    BY <1>7, <2>1
<1>9. HeldBy' = HeldBy /\ retry_count' = retry_count
  BY <1>2 DEF HeldBy
<1> QED
  BY <1>1, <1>3, <1>4, <1>5, <1>6, <1>8, <1>9, Zenon
     DEF Tasks!Add, Tasks!Known, Tasks!Acyclic, StageOf, NeedsOf, HeldBy

(* An agent is dispatched after everything it depends on has completed.    *)
LEMMA DispatchStarts ==
  ASSUME SchedulerInv, Blockers = {}, NEW sample \in Samples, NEW a \in Agents, Dispatch(sample, a)
  PROVE  Tasks!Start(a)
<1>0. /\ TypeOK /\ SoleExecution /\ DependencyCounts
      /\ ready = {b \in Agents : state[b] \in {"ready", "waiting_resource"}}
  BY DEF SchedulerInv, ReadyConsistent, Queued
<1>1. a \in ready /\ executing[a] = 0 /\ Uncompleted(a) = {}
  BY <1>0 DEF Dispatch, Fitting, Queued, DependencyCounts, SoleExecution
<1>2. StageOf[a] = "pending" /\ a \notin HeldBy
  BY <1>0, <1>1 DEF StageOf, Stage, HeldBy
<1>3. \A d \in NeedsOf[a] : StageOf[d] = "completed"
  <2> SUFFICES ASSUME NEW i \in DOMAIN dependencies[a]
               PROVE  StageOf[dependencies[a][i]] = "completed"
    BY DEF NeedsOf, DependsOn
  <2>1. state[dependencies[a][i]] = "completed"
    BY <1>1 DEF Uncompleted
  <2>2. dependencies[a][i] \in Agents
    BY <1>0 DEF TypeOK
  <2> QED
    BY <2>1, <2>2 DEF StageOf, Stage
<1>4. StageOf' = [StageOf EXCEPT ![a] = "started"]
  <2>1. state' = [Marked(sample) EXCEPT ![a] = "dispatched"]
    BY DEF Dispatch
  <2>2. ASSUME NEW b \in Agents \ {a}
        PROVE  StageOf'[b] = StageOf[b]
    BY <1>0, <2>1 DEF Marked, StageOf, Stage
  <2>3. StageOf'[a] = "started"
    BY <2>1 DEF Marked, StageOf, Stage
  <2> QED
    BY <2>2, <2>3 DEF StageOf
<1>5. HeldBy' = HeldBy \cup {a}
  <2>1. executing' = [executing EXCEPT ![a] = executing[a] + 1]
    BY DEF Dispatch
  <2> QED
    BY <1>0, <1>1, <2>1 DEF HeldBy, TypeOK
<1>6. NeedsOf' = NeedsOf /\ retry_count' = retry_count
  BY DEF Dispatch, graphVars, NeedsOf
<1> QED
  BY <1>2, <1>3, <1>4, <1>5, <1>6, Zenon DEF Tasks!Start, StageOf, NeedsOf, HeldBy

(* A report returns the agent.                                             *)
LEMMA ReportReturns ==
  ASSUME SchedulerInv, Blockers = {}, NEW a \in Agents, Report(a), UNCHANGED graphVars
  PROVE  /\ Tasks!Return(a)
         /\ state[a] \in {"dispatched", "running", "cancelled"}
         /\ NeedsOf' = NeedsOf /\ HeldBy' = HeldBy \ {a}
<1>0. TypeOK /\ SoleExecution
  BY DEF SchedulerInv
<1>1. a \in HeldBy /\ executing[a] = 1 /\ state[a] \in {"dispatched", "running", "cancelled"}
  BY <1>0 DEF SoleExecution, Report, HeldBy
<1>2. HeldBy' = HeldBy \ {a}
  <2>1. executing' = [executing EXCEPT ![a] = 0]
    <3>1. executing' = [executing EXCEPT ![a] = executing[a] - 1] /\ executing[a] - 1 = 0
      BY <1>1 DEF Report
    <3> QED
      BY <3>1, Zenon
  <2> QED
    BY <1>0, <2>1 DEF HeldBy, TypeOK
<1>3. NeedsOf' = NeedsOf
  BY DEF graphVars, NeedsOf
<1> QED
  BY <1>1, <1>2, <1>3, Zenon DEF Tasks!Return, NeedsOf, HeldBy

(* complete: the agent succeeds, or has been cancelled meanwhile.          *)
LEMMA CompleteSucceeds ==
  ASSUME SchedulerInv, Blockers = {}, NEW a \in Agents, Complete(a)
  PROVE  Tasks!Succeed(a) \/ Tasks!Ignore(a)
<1>0. /\ TypeOK /\ Report(a) /\ UNCHANGED graphVars /\ UNCHANGED retry_count
  BY DEF SchedulerInv, Complete
<1>1. Tasks!Return(a) /\ state[a] \in {"dispatched", "running", "cancelled"}
  BY <1>0, ReportReturns
<1>2. CASE CanEnter(a, "completed")
  <2>1. state[a] \in {"dispatched", "running"}
    BY <1>1, <1>2 DEF CanEnter, TransitionSources
  <2>2. ASSUME NEW b \in Agents \ {a}
        PROVE  state'[b] = state[b] \/ (state[b] = "waiting_dependency" /\ state'[b] = "ready")
    BY <1>2 DEF Complete
  <2>3. state'[a] = "completed"
    BY <1>2 DEF Complete
  <2>4. StageOf' = [StageOf EXCEPT ![a] = "completed"]
    <3>1. \A b \in Agents \ {a} : StageOf'[b] = StageOf[b]
      BY <2>2 DEF StageOf, Stage
    <3>2. StageOf'[a] = "completed"
      BY <2>3 DEF StageOf, Stage
    <3> QED
      BY <3>1, <3>2 DEF StageOf
  <2>5. StageOf[a] = "started"
    BY <2>1 DEF StageOf, Stage
  <2> QED
    BY <1>0, <1>1, <2>4, <2>5, Zenon DEF Tasks!Succeed, StageOf
<1>3. CASE ~CanEnter(a, "completed")
  <2>1. state[a] = "cancelled" /\ state' = state
    BY <1>1, <1>3 DEF CanEnter, TransitionSources, Complete
  <2>2. StageOf' = StageOf /\ StageOf[a] = "cancelled"
    BY <2>1 DEF StageOf, Stage
  <2> QED
    BY <1>0, <1>1, <2>2, Zenon DEF Tasks!Ignore, StageOf
<1> QED
  BY <1>2, <1>3

(* fail: another attempt, the end of the agent and of those that depend on *)
(* it, or a refusal because it has been cancelled meanwhile.               *)
LEMMA FailEnds ==
  ASSUME SchedulerInv, Blockers = {}, DependenciesAcyclic, NEW a \in Agents, Fail(a)
  PROVE  Tasks!TryAgain(a) \/ Tasks!GiveUp(a) \/ Tasks!Ignore(a)
<1>0. /\ TypeOK /\ Report(a) /\ UNCHANGED graphVars
  BY DEF SchedulerInv, Fail
<1>1. Tasks!Return(a) /\ state[a] \in {"dispatched", "running", "cancelled"}
  BY <1>0, ReportReturns
<1>2. CASE FailRetry(a)
  <2>1. StageOf' = [StageOf EXCEPT ![a] = "pending"]
    <3>1. state' = [state EXCEPT ![a] = "ready"]
      BY <1>2 DEF FailRetry
    <3>2. \A b \in Agents \ {a} : StageOf'[b] = StageOf[b]
      BY <1>0, <3>1 DEF StageOf, Stage, TypeOK
    <3>3. StageOf'[a] = "pending"
      BY <1>0, <3>1 DEF StageOf, Stage, TypeOK
    <3> QED
      BY <3>2, <3>3 DEF StageOf
  <2>2. StageOf[a] \in {"started", "cancelled"}
    BY <1>1 DEF StageOf, Stage
  <2>3. retry_count[a] < RetryLimit[a] /\ retry_count' = [retry_count EXCEPT ![a] = retry_count[a] + 1]
    BY <1>2 DEF FailRetry
  <2> QED
    BY <1>1, <2>1, <2>2, <2>3, Zenon DEF Tasks!TryAgain, StageOf
<1>3. CASE FailFinal(a)
  <2>1. a \in Nodes
    BY <1>1 DEF Nodes
  <2>2. Tasks!End(a, "failed")
    BY <1>3, <2>1, EndStep DEF FailFinal
  <2>3. StageOf[a] = "started"
    BY <1>1, <1>3 DEF FailFinal, CanEnter, TransitionSources, StageOf, Stage
  <2>4. retry_count[a] = RetryLimit[a] /\ retry_count' = retry_count
    BY <1>0, <1>3, SchedulerAssumption DEF FailFinal, TypeOK
  <2> QED
    BY <1>1, <2>2, <2>3, <2>4, Zenon DEF Tasks!GiveUp, StageOf
<1>4. CASE FailRefused(a)
  <2>1. state[a] = "cancelled" /\ state' = state /\ retry_count' = retry_count
    BY <1>1, <1>4 DEF CanEnter, TransitionSources, FailRefused
  <2>2. StageOf' = StageOf /\ StageOf[a] = "cancelled"
    BY <2>1 DEF StageOf, Stage
  <2> QED
    BY <1>1, <2>1, <2>2, Zenon DEF Tasks!Ignore, StageOf
<1> QED
  BY <1>2, <1>3, <1>4 DEF Fail

(* cancel: the end of a live agent and of those that depend on it.         *)
LEMMA CancelStops ==
  ASSUME SchedulerInv, Blockers = {}, DependenciesAcyclic, NEW a \in Agents, Cancel(a)
  PROVE  Tasks!Stop(a)
<1>1. a \in Nodes /\ state[a] \in AgentState \ Terminal
  BY DEF Cancel, CanEnter, TransitionSources
<1>2. state' = [b \in Agents |-> IF b = a THEN "cancelled"
                                 ELSE IF b \in LiveDescendants(a) THEN "cancelled" ELSE state[b]]
  BY DEF Cancel
<1>3. Tasks!End(a, "cancelled")
  BY <1>1, <1>2, EndStep
<1>4. a \in {b \in Agents : StageOf[b] \in {"pending", "started"}}
  BY <1>1, StageFacts DEF Live
<1>5. NeedsOf' = NeedsOf /\ HeldBy' = HeldBy /\ retry_count' = retry_count
  BY DEF Cancel, graphVars, NeedsOf, HeldBy
<1> QED
  BY <1>3, <1>4, <1>5, Zenon DEF Tasks!Stop, Tasks!Unfinished, StageOf, NeedsOf, HeldBy

(* Every operation of the scheduler is a step of the graph or leaves it    *)
(* alone.                                                                  *)
LEMMA TaskGraphStep ==
  ASSUME SchedulerInv, Blockers = {}, DependenciesAcyclic, [Next]_vars
  PROVE  [Tasks!TaskNext]_(Tasks!graph)
<1>0. /\ TypeOK /\ ready = {a \in Agents : state[a] \in {"ready", "waiting_resource"}}
  BY DEF SchedulerInv, ReadyConsistent, Queued
<1>1. ASSUME NEW batch \in SUBSET Agents, NEW deps \in [batch -> DependencyLists],
             SubmitBatch(batch, deps)
      PROVE  Tasks!TaskNext
  BY <1>1, SubmitAdds, Zenon DEF Tasks!TaskNext
<1>2. ASSUME NEW sample \in Samples, NEW a \in Agents, Dispatch(sample, a)
      PROVE  Tasks!TaskNext
  BY <1>2, DispatchStarts, Zenon DEF Tasks!TaskNext
<1>3. ASSUME NEW sample \in Samples, DispatchNothing(sample)
      PROVE  UNCHANGED Tasks!graph
  <2>1. \A b \in Agents : StageOf'[b] = StageOf[b]
    BY <1>0, <1>3 DEF DispatchNothing, Marked, StageOf, Stage
  <2> QED
    BY <1>3, <2>1, SameGraph DEF DispatchNothing, graphVars
<1>4. ASSUME NEW a \in Agents, MarkRunning(a) PROVE UNCHANGED Tasks!graph
  <2>1. \A b \in Agents : StageOf'[b] = StageOf[b]
    BY <1>0, <1>4 DEF MarkRunning, CanEnter, TransitionSources, StageOf, Stage, TypeOK
  <2> QED
    BY <1>4, <2>1, SameGraph DEF MarkRunning, graphVars
<1>5. ASSUME NEW a \in Agents, Complete(a) PROVE Tasks!TaskNext
  BY <1>5, CompleteSucceeds, Zenon DEF Tasks!TaskNext
<1>6. ASSUME NEW a \in Agents, Fail(a) PROVE Tasks!TaskNext
  BY <1>6, FailEnds, Zenon DEF Tasks!TaskNext
<1>7. ASSUME NEW a \in Agents, Cancel(a) PROVE Tasks!TaskNext
  BY <1>7, CancelStops, Zenon DEF Tasks!TaskNext
<1>8. CASE UNCHANGED <<state, dependencies, retry_count, executing>>
  <2>1. \A b \in Agents : StageOf'[b] = StageOf[b]
    BY <1>8 DEF StageOf, Stage
  <2> QED
    BY <1>8, <2>1, SameGraph
<1> HIDE DEF Tasks!graph, Tasks!TaskNext
<1> QED
  BY <1>1, <1>2, <1>3, <1>4, <1>5, <1>6, <1>7, <1>8
     DEF Next, Submit, Spawn, MarkBlocked, Wake, Tick, vars, graphVars

(* An empty scheduler is an empty graph.                                   *)
LEMMA TaskGraphInit == Init => Tasks!TaskInit /\ DependenciesAcyclic
<1> SUFFICES ASSUME Init PROVE Tasks!TaskInit /\ DependenciesAcyclic
  OBVIOUS
<1>1. StageOf = [a \in Agents |-> "absent"] /\ HeldBy = {}
  BY DEF Init, StageOf, Stage, HeldBy
<1>2. NeedsOf = [a \in Agents |-> {}]
  BY DEF Init, NeedsOf, DependsOn
<1>3. retry_count = [a \in Agents |-> 0]
  BY DEF Init
<1>4. Nodes = {}
  BY DEF Init, Nodes
<1>5. DependenciesAcyclic
  <2>1. \A S \in (SUBSET {}) \ {{}} : FALSE
    OBVIOUS
  <2> QED
    BY <1>4, <2>1, Zenon DEF DependenciesAcyclic, HasCycle
<1> QED
  BY <1>1, <1>2, <1>3, <1>5, Zenon DEF Tasks!TaskInit, StageOf, NeedsOf, HeldBy

(* No agent ever waits for itself, over any number of others, whatever is  *)
(* submitted and spawned in whichever order.                               *)
THEOREM NoAgentWaitsForItself ==
  ASSUME Blockers = {}
  PROVE  Spec => []DependenciesAcyclic
<1>1. SchedulerInv /\ DependenciesAcyclic /\ [Next]_vars => DependenciesAcyclic'
  BY AcyclicStep
<1> QED
  BY <1>1, TaskGraphInit, SchedulerInvariance, PTL DEF Spec

(* The scheduler implements the graph of tasks of its README: agents are   *)
(* dispatched to one worker at a time and never early, what has completed  *)
(* stays so, and a failure or a cancellation takes exactly the live agents *)
(* that depend on it along.                                                *)
THEOREM SchedulerImplementsTaskGraph ==
  ASSUME Blockers = {}
  PROVE  Spec => ImplementsTaskGraph
<1>1. SchedulerInv /\ DependenciesAcyclic /\ [Next]_vars => [Tasks!TaskNext]_(Tasks!graph)
  BY TaskGraphStep
<1> QED
  BY <1>1, TaskGraphInit, SchedulerInvariance, NoAgentWaitsForItself, PTL
     DEF Spec, ImplementsTaskGraph, Tasks!TaskSpec
=============================================================================
