------------------------ MODULE ContextManagerProofs ------------------------
(***************************************************************************)
(* Proofs about ContextManager: for every number of agents, sequences and  *)
(* contexts, and for every failure of the callbacks, sequences are neither *)
(* shared nor lost and pinned contexts stay where they are.                *)
(***************************************************************************)
EXTENDS ContextManager, ListProofs

----------------------------------------------------------------------------
(* Popping the stack, as acquire does.                                     *)
LEMMA PopLists ==
  ASSUME NEW S, NEW stack, Lists(stack, S), stack # <<>>
  PROVE  Top(stack) \in S /\ Lists(Pop(stack), S \ {Top(stack)})
<1> DEFINE n == Len(stack)
<1>1. stack \in Seq(S) /\ n \in Nat /\ n # 0 /\ DOMAIN stack = 1 .. n
  BY DEF Lists
<1>2. /\ \A i, j \in 1 .. n : stack[i] = stack[j] => i = j
      /\ \A y \in S : \E i \in 1 .. n : stack[i] = y
  BY <1>1 DEF Lists
<1>3. Top(stack) = stack[n] /\ Top(stack) \in S
  BY <1>1 DEF Top
<1>4. /\ Pop(stack) \in Seq(S)
      /\ Len(Pop(stack)) = n - 1
      /\ \A i \in 1 .. n - 1 : Pop(stack)[i] = stack[i]
  BY <1>1 DEF Pop
<1>5. Pop(stack) \in Seq(S \ {Top(stack)})
  <2>1. \A i \in 1 .. n - 1 : Pop(stack)[i] \in S \ {Top(stack)}
    BY <1>1, <1>2, <1>3, <1>4
  <2>2. DOMAIN Pop(stack) = 1 .. n - 1
    BY <1>4
  <2>3. Pop(stack) = [i \in 1 .. n - 1 |-> Pop(stack)[i]]
    BY <1>4, <2>2
  <2> QED
    BY <1>1, <2>1, <2>3
<1>6. \A y \in S \ {Top(stack)} : \E i \in DOMAIN Pop(stack) : Pop(stack)[i] = y
  <2> SUFFICES ASSUME NEW y \in S, y # Top(stack)
               PROVE  \E i \in DOMAIN Pop(stack) : Pop(stack)[i] = y
    OBVIOUS
  <2>1. PICK i \in 1 .. n : stack[i] = y
    BY <1>2
  <2>2. i \in 1 .. n - 1
    BY <1>1, <1>3, <2>1
  <2> QED
    BY <1>4, <2>1, <2>2
<1>7. \A i, j \in DOMAIN Pop(stack) : Pop(stack)[i] = Pop(stack)[j] => i = j
  <2>1. DOMAIN Pop(stack) = 1 .. n - 1
    BY <1>4
  <2> HIDE DEF n
  <2> QED
    BY <1>1, <1>2, <1>4, <2>1
<1> QED
  BY <1>3, <1>5, <1>6, <1>7 DEF Lists

----------------------------------------------------------------------------
(* Sequences: what a step does to the pool.                                *)
Unclaimed == {s \in SequenceIds : ~Taken(s)}

(* A step that moves no sequence.                                          *)
LEMMA SameSequences ==
  ASSUME SequencesPooled, freeSequences' = freeSequences,
         Resident' = Resident,
         \A c \in Resident : contexts'[c].sequence = contexts[c].sequence,
         \A s \in SequenceIds : InHand(s)' <=> InHand(s)
  PROVE  SequencesPooled'
<1>1. \A s \in SequenceIds : InUse(s)' <=> InUse(s)
  BY DEF InUse
<1>2. Unclaimed' = Unclaimed
  BY <1>1 DEF Unclaimed, Taken
<1>3. Lists(freeSequences, Unclaimed)'
  BY <1>2 DEF SequencesPooled, Unclaimed, Lists
<1> QED
  BY <1>1, <1>3 DEF SequencesPooled, Unclaimed

(* A step that takes the sequence s from the stack, for a context or for   *)
(* the acquire under way.                                                  *)
LEMMA TakeSequence ==
  ASSUME SequencesPooled, freeSequences # <<>>,
         freeSequences' = Pop(freeSequences),
         \A s \in SequenceIds : Taken(s)' <=> Taken(s) \/ s = Top(freeSequences),
         \A c, d \in Resident' : contexts'[c].sequence = contexts'[d].sequence => c = d,
         \A s \in SequenceIds : ~(InUse(s)' /\ InHand(s)')
  PROVE  SequencesPooled'
<1>1. Lists(freeSequences, Unclaimed)
  BY DEF SequencesPooled, Unclaimed
<1>2. Lists(Pop(freeSequences), Unclaimed \ {Top(freeSequences)})
  BY <1>1, PopLists
<1>3. Unclaimed' = Unclaimed \ {Top(freeSequences)}
  BY DEF Unclaimed
<1>4. Lists(freeSequences, Unclaimed)'
  BY <1>2, <1>3 DEF Lists
<1> QED
  BY <1>4 DEF SequencesPooled, Unclaimed

(* A step that gives the sequence x back.                                  *)
LEMMA GiveSequence ==
  ASSUME SequencesPooled, NEW x \in SequenceIds, Taken(x),
         freeSequences' = Append(freeSequences, x),
         \A s \in SequenceIds : Taken(s)' <=> Taken(s) /\ s # x,
         \A c, d \in Resident' : contexts'[c].sequence = contexts'[d].sequence => c = d,
         \A s \in SequenceIds : ~(InUse(s)' /\ InHand(s)')
  PROVE  SequencesPooled'
<1>1. Lists(freeSequences, Unclaimed) /\ x \notin Unclaimed
  BY DEF SequencesPooled, Unclaimed
<1>2. Lists(Append(freeSequences, x), Unclaimed \cup {x})
  BY <1>1, AppendLists
<1>3. Unclaimed' = Unclaimed \cup {x}
  BY DEF Unclaimed
<1>4. Lists(freeSequences, Unclaimed)'
  BY <1>2, <1>3 DEF Lists
<1> QED
  BY <1>4 DEF SequencesPooled, Unclaimed

(* A step that only hands a taken sequence on.                             *)
LEMMA PassSequence ==
  ASSUME SequencesPooled, freeSequences' = freeSequences,
         \A s \in SequenceIds : Taken(s)' <=> Taken(s),
         \A c, d \in Resident' : contexts'[c].sequence = contexts'[d].sequence => c = d,
         \A s \in SequenceIds : ~(InUse(s)' /\ InHand(s)')
  PROVE  SequencesPooled'
<1>1. Unclaimed' = Unclaimed
  BY DEF Unclaimed
<1>2. Lists(freeSequences, Unclaimed)'
  BY <1>1 DEF SequencesPooled, Unclaimed, Lists
<1> QED
  BY <1>2 DEF SequencesPooled, Unclaimed

----------------------------------------------------------------------------
(* The parts of the invariant in the primed state, put together.           *)
LEMMA Assemble ==
  ASSUME Live' \subseteq 1 .. nextContextId' - 1,
         contexts' \in [Live' -> Entry],
         nextContextId' \in 1 .. MaxContextId + 1,
         stats' \in [Gauges -> Int], call' \in Call,
         SequencesPooled', Reachable', CallSound'
  PROVE  ContextInv'
<1>1. Live' \subseteq ContextIds
  <2>1. \A n \in 1 .. MaxContextId + 1 : 1 .. n - 1 \subseteq 1 .. MaxContextId
    BY ContextAssumption
  <2> QED
    BY <2>1 DEF ContextIds
<1>2. lastAccess' \in Seq(Live') /\ lastAccess' \in Seq(ContextIds)
  BY <1>1 DEF Reachable, Lists
<1>3. freeSequences' \in Seq(SequenceIds)
  BY DEF SequencesPooled, Lists
<1> QED
  BY <1>2, <1>3 DEF ContextInv, ContextTypeOK

(* What Grant leaves behind.                                               *)
LEMMA Granted ==
  ASSUME ContextInv, NEW table \in [Live -> Entry],
         NEW gauges \in [Gauges -> Int], NEW a \in Agents, NEW c \in Live,
         table[c].pins < MaxPins,
         \A d \in Live : table[d].owners # {},
         Grant(table, gauges, a, c)
  PROVE  /\ Live' = Live /\ contexts' \in [Live -> Entry]
         /\ \A d \in Live : contexts'[d].sequence = table[d].sequence
         /\ \A d \in Live : contexts'[d].owners # {}
         /\ \A d \in Live : d # c => contexts'[d].pins = table[d].pins
         /\ contexts'[c].pins = table[c].pins + 1
         /\ Reachable'
         /\ stats' \in [Gauges -> Int] /\ nextContextId' = nextContextId
<1> USE ContextAssumption
<1>1. /\ contexts' = [table EXCEPT ![c].owners = @ \cup {a}, ![c].pins = @ + 1]
      /\ DOMAIN table = Live
  BY DEF Grant
<1>2. table[c] \in Entry /\ table[c].pins + 1 \in 0 .. MaxPins
  BY DEF Entry
<1>3. /\ contexts' \in [Live -> Entry] /\ Live' = Live
      /\ \A d \in Live : d # c => contexts'[d] = table[d]
      /\ contexts'[c].sequence = table[c].sequence
      /\ contexts'[c].owners = table[c].owners \cup {a}
      /\ contexts'[c].pins = table[c].pins + 1
  BY <1>1, <1>2 DEF Entry, Live
<1>4. Lists(lastAccess', Live)
  BY TouchLists DEF Grant, ContextInv, Reachable
<1>5. \A d \in Live : contexts'[d].owners # {}
  BY <1>3
<1>6. Reachable'
  BY <1>3, <1>4, <1>5 DEF Reachable, Lists
<1>7. stats' \in [Gauges -> Int] /\ nextContextId' = nextContextId
  BY DEF Grant, Gauges
<1> QED
  BY <1>3, <1>5, <1>6, <1>7

(* What Create leaves behind.                                              *)
LEMMA Created ==
  ASSUME ContextInv, NEW table \in [Live -> Entry],
         NEW gauges \in [Gauges -> Int], NEW a \in Agents,
         NEW s \in SequenceIds, nextContextId <= MaxContextId,
         \A d \in Live : table[d].owners # {},
         Create(table, gauges, a, s)
  PROVE  /\ nextContextId \notin Live
         /\ Live' = Live \cup {nextContextId} /\ contexts' \in [Live' -> Entry]
         /\ \A d \in Live : contexts'[d] = table[d]
         /\ contexts'[nextContextId].sequence = s
         /\ Reachable'
         /\ Live' \subseteq 1 .. nextContextId' - 1
         /\ nextContextId' \in 1 .. MaxContextId + 1
         /\ stats' \in [Gauges -> Int]
<1> USE ContextAssumption
<1>1. /\ nextContextId \in 1 .. MaxContextId + 1 /\ nextContextId \notin Live
      /\ Live \subseteq 1 .. nextContextId - 1
  BY DEF ContextInv, ContextTypeOK
<1>2. [sequence |-> s, pins |-> 1, owners |-> {a}] \in Entry
  BY DEF Entry
<1>3. /\ Live' = Live \cup {nextContextId}
      /\ \A d \in Live : contexts'[d] = table[d]
      /\ contexts'[nextContextId] = [sequence |-> s, pins |-> 1, owners |-> {a}]
      /\ contexts' \in [Live' -> Entry]
  BY <1>1, <1>2 DEF Create, Live
<1>4. Lists(lastAccess', Live \cup {nextContextId})
  BY <1>1, AppendLists DEF Create, ContextInv, Reachable
<1>5. Reachable'
  <2>1. \A d \in Live' : contexts'[d].owners # {}
    BY <1>3
  <2>2. Lists(lastAccess', Live')
    BY <1>3, <1>4
  <2> QED
    BY <2>1, <2>2 DEF Reachable
<1>6. nextContextId' = nextContextId + 1 /\ stats' \in [Gauges -> Int]
  BY DEF Create, Gauges
<1>7. Live' \subseteq 1 .. nextContextId' - 1 /\ nextContextId' \in 1 .. MaxContextId + 1
  BY <1>1, <1>3, <1>6
<1> QED
  BY <1>1, <1>3, <1>5, <1>6, <1>7

----------------------------------------------------------------------------
(* The initial state.                                                      *)
LEMMA InitiallySound == ContextInit => ContextInv
<1> SUFFICES ASSUME ContextInit PROVE ContextInv
  OBVIOUS
<1> USE ContextAssumption
<1>1. Live = {} /\ Resident = {}
  BY DEF ContextInit, Live, Resident
<1>2. ContextTypeOK
  <2>1. Live \subseteq 1 .. nextContextId - 1 /\ contexts \in [Live -> Entry]
    BY <1>1 DEF ContextInit, Live
  <2>2. freeSequences \in Seq(SequenceIds)
    <3>1. \A i \in 1 .. MaxResident : MaxResident + 1 - i \in 1 .. MaxResident
      OBVIOUS
    <3> QED
      BY <3>1 DEF ContextInit, SequenceIds
  <2>3. lastAccess \in Seq(ContextIds) /\ nextContextId \in 1 .. MaxContextId + 1
    BY DEF ContextInit
  <2>4. stats \in [Gauges -> Int] /\ call \in Call
    BY DEF ContextInit, Call, Idle
  <2> QED
    BY <2>1, <2>2, <2>3, <2>4 DEF ContextTypeOK
<1>3. SequencesPooled
  <2>1. \A s \in SequenceIds : ~InUse(s) /\ ~InHand(s)
    BY <1>1 DEF InUse, InHand, ContextInit, Idle
  <2>2. {s \in SequenceIds : ~Taken(s)} = SequenceIds
    BY <2>1 DEF Taken
  <2>3. Lists(freeSequences, SequenceIds)
    <3>1. freeSequences \in Seq(SequenceIds)
      BY <1>2 DEF ContextTypeOK
    <3>2. /\ DOMAIN freeSequences = 1 .. MaxResident
          /\ \A i \in 1 .. MaxResident : freeSequences[i] = MaxResident + 1 - i
      BY DEF ContextInit, SequenceIds
    <3>3. \A s \in SequenceIds : \E i \in DOMAIN freeSequences : freeSequences[i] = s
      <4> SUFFICES ASSUME NEW s \in 1 .. MaxResident
                   PROVE  \E i \in 1 .. MaxResident : freeSequences[i] = s
        BY <3>2 DEF SequenceIds
      <4>1. MaxResident + 1 - s \in 1 .. MaxResident
        OBVIOUS
      <4> QED
        BY <3>2, <4>1
    <3>4. \A i, j \in DOMAIN freeSequences : freeSequences[i] = freeSequences[j] => i = j
      BY <3>2
    <3> QED
      BY <3>1, <3>3, <3>4 DEF Lists
  <2> QED
    BY <1>1, <2>1, <2>2, <2>3 DEF SequencesPooled
<1>4. Reachable
  BY <1>1 DEF Reachable, Lists, ContextInit
<1>5. CallSound
  BY <1>1 DEF CallSound, ContextInit, Idle
<1> QED
  BY <1>2, <1>3, <1>4, <1>5 DEF ContextInv

(* Acquire of a context that is resident.                                  *)
LEMMA AcquireResidentSound ==
  ASSUME ContextInv, call = Idle, NEW a \in Agents, NEW c, AcquireResident(a, c)
  PROVE  ContextInv'
<1>1. /\ c \in Live /\ c \in Resident /\ contexts \in [Live -> Entry]
      /\ stats \in [Gauges -> Int] /\ \A d \in Live : contexts[d].owners # {}
      /\ contexts[c].pins < MaxPins /\ Grant(contexts, stats, a, c)
      /\ call' = Idle /\ freeSequences' = freeSequences
  BY DEF AcquireResident, Resident, ContextInv, ContextTypeOK, Reachable
<1>2. /\ Live' = Live /\ contexts' \in [Live -> Entry]
      /\ \A d \in Live : contexts'[d].sequence = contexts[d].sequence
      /\ \A d \in Live : d # c => contexts'[d].pins = contexts[d].pins
      /\ Reachable'
      /\ stats' \in [Gauges -> Int] /\ nextContextId' = nextContextId
  BY <1>1, Granted
<1>3. Resident' = Resident
  BY <1>2 DEF Resident
<1>4. SequencesPooled'
  <2>1. \A s \in SequenceIds : InHand(s)' <=> InHand(s)
    BY <1>1 DEF InHand
  <2> QED
    BY <1>1, <1>2, <1>3, <2>1, SameSequences DEF ContextInv, Resident
<1>5. CallSound'
  BY <1>1, <1>2, <1>3 DEF CallSound, ContextInv, Idle
<1> QED
  BY <1>1, <1>2, <1>4, <1>5, Assemble DEF ContextInv, ContextTypeOK

(* What acquire may settle on.                                             *)
LEMMA WantedFacts ==
  ASSUME ContextInv, NEW a \in Agents, NEW p \in Agents \cup {NoAgent},
         NEW r \in ContextIds \cup {NewContext}, NEW c \in Wanted(a, p, r)
  PROVE  /\ c # NewContext => c \in Live
         /\ c = NewContext => nextContextId <= MaxContextId
<1>1. NewContext \notin Live
  BY DEF ContextInv, ContextTypeOK, NewContext
<1>2. CASE r # NewContext
  BY <1>1, <1>2 DEF Wanted
<1>3. CASE r = NewContext /\ OwnedBy(a) # {}
  BY <1>1, <1>3 DEF Wanted, OwnedBy
<1>4. CASE r = NewContext /\ OwnedBy(a) = {}
  BY <1>4 DEF Wanted
<1> QED
  BY <1>2, <1>3, <1>4

(* Acquire of a new context when a sequence is free.                       *)
LEMMA AcquireNewSound ==
  ASSUME ContextInv, call = Idle, NEW a \in Agents,
         nextContextId <= MaxContextId,
         freeSequences # <<>>, freeSequences' = Pop(freeSequences),
         Create(contexts, stats, a, Top(freeSequences)), call' = call
  PROVE  ContextInv'
<1> DEFINE n == nextContextId
           s == Top(freeSequences)
<1>1. s \in SequenceIds /\ ~Taken(s)
  <2>1. s \in {t \in SequenceIds : ~Taken(t)}
    BY PopLists DEF ContextInv, SequencesPooled
  <2> QED
    BY <2>1
<1>2. /\ contexts \in [Live -> Entry] /\ stats \in [Gauges -> Int]
      /\ \A d \in Live : contexts[d].owners # {}
  BY DEF ContextInv, ContextTypeOK, Reachable
<1> HIDE DEF s
<1>3. /\ n \notin Live
      /\ Live' = Live \cup {n} /\ contexts' \in [Live' -> Entry]
      /\ \A d \in Live : contexts'[d] = contexts[d]
      /\ contexts'[n].sequence = s
      /\ Reachable'
      /\ Live' \subseteq 1 .. nextContextId' - 1
      /\ nextContextId' \in 1 .. MaxContextId + 1
      /\ stats' \in [Gauges -> Int]
  BY <1>1, <1>2, Created DEF s
<1>4. s # NoSequence
  BY <1>1, ContextAssumption DEF SequenceIds, NoSequence
<1>5. Resident' = Resident \cup {n}
  BY <1>3, <1>4 DEF Resident
<1>6. \A t \in SequenceIds : InUse(t)' <=> InUse(t) \/ t = s
  BY <1>3, <1>5 DEF InUse, Resident
<1>7. \A t \in SequenceIds : ~InHand(t) /\ ~InHand(t)'
  BY DEF InHand, Idle
<1>8. \A c, d \in Resident' : contexts'[c].sequence = contexts'[d].sequence => c = d
  <2>1. \A c \in Resident : contexts[c].sequence # s
    BY <1>1 DEF Taken, InUse
  <2>2. \A c, d \in Resident : contexts[c].sequence = contexts[d].sequence => c = d
    BY DEF ContextInv, SequencesPooled
  <2>3. \A c \in Resident : contexts'[c].sequence = contexts[c].sequence
    BY <1>3 DEF Resident
  <2> QED
    BY <1>3, <1>5, <2>1, <2>2, <2>3
<1>9. SequencesPooled'
  <2>1. \A t \in SequenceIds : Taken(t)' <=> Taken(t) \/ t = Top(freeSequences)
    BY <1>6, <1>7 DEF Taken, s
  <2> QED
    BY <1>7, <1>8, <2>1, TakeSequence DEF ContextInv
<1>10. CallSound'
  BY <1>3, <1>5 DEF CallSound, ContextInv, Idle
<1>11. call' \in Call
  BY DEF ContextInv, ContextTypeOK
<1> QED
  BY <1>3, <1>9, <1>10, <1>11, Assemble

(* A swapped context is to be loaded into a free sequence.                 *)
LEMMA AcquireSwappedSound ==
  ASSUME ContextInv, call = Idle, NEW a \in Agents, NEW c \in Live \ Resident,
         c # NewContext,
         freeSequences # <<>>, freeSequences' = Pop(freeSequences),
         Load(a, c, Top(freeSequences)),
         UNCHANGED <<contexts, lastAccess, nextContextId, stats>>
  PROVE  ContextInv'
<1> DEFINE s == Top(freeSequences)
<1>1. s \in SequenceIds /\ ~Taken(s)
  <2>1. s \in {t \in SequenceIds : ~Taken(t)}
    BY PopLists DEF ContextInv, SequencesPooled
  <2> QED
    BY <2>1
<1> HIDE DEF s
<1>2. call' = [stage |-> "loading", agent |-> a, context |-> c,
               victim |-> NewContext, sequence |-> s]
  BY DEF Load, s
<1>3. c \in ContextIds
  BY ContextAssumption DEF ContextInv, ContextTypeOK, ContextIds
<1>4. call' \in Call
  BY <1>1, <1>2, <1>3 DEF Call
<1>5. Live' = Live /\ Resident' = Resident
  BY DEF Live, Resident
<1>6. \A t \in SequenceIds : InUse(t)' <=> InUse(t)
  BY <1>5 DEF InUse
<1>7. \A t \in SequenceIds : ~InHand(t) /\ (InHand(t)' <=> t = s)
  BY <1>2 DEF InHand, Idle
<1>8. SequencesPooled'
  <2>1. \A t \in SequenceIds : Taken(t)' <=> Taken(t) \/ t = Top(freeSequences)
    BY <1>6, <1>7 DEF Taken, s
  <2>2. \A t \in SequenceIds : ~(InUse(t)' /\ InHand(t)')
    BY <1>1, <1>6, <1>7 DEF Taken
  <2>3. \A d, e \in Resident' : contexts'[d].sequence = contexts'[e].sequence => d = e
    BY <1>5 DEF ContextInv, SequencesPooled
  <2> QED
    BY <2>1, <2>2, <2>3, TakeSequence DEF ContextInv
<1>9. Reachable'
  BY <1>5 DEF Reachable, ContextInv
<1>10. CallSound'
  BY <1>1, <1>2, <1>5 DEF CallSound, ContextInv
<1> QED
  BY <1>4, <1>5, <1>8, <1>9, <1>10, Assemble DEF ContextInv, ContextTypeOK

(* Another context is to be saved.                                         *)
LEMMA AcquireEvictSound ==
  ASSUME ContextInv, call = Idle, NEW a \in Agents, NEW c,
         c # NewContext => c \in Live,
         c = NewContext => nextContextId <= MaxContextId,
         AcquireEvict(a, c)
  PROVE  ContextInv'
<1>1. PICK v \in Victims(c) :
        call' = [stage |-> "saving", agent |-> a, context |-> c,
                 victim |-> v, sequence |-> NoSequence]
  BY DEF AcquireEvict
<1>2. /\ v \in Resident /\ v \in Live /\ contexts[v].pins = 0
      /\ c \notin Resident
  BY DEF Victims, Evictable, Resident, AcquireEvict
<1>3. Live \subseteq ContextIds
  BY ContextAssumption DEF ContextInv, ContextTypeOK, ContextIds
<1>4. call' \in Call
  BY <1>1, <1>2, <1>3 DEF Call
<1>5. Live' = Live /\ Resident' = Resident /\ contexts' = contexts
  BY DEF Live, Resident, AcquireEvict
<1>6. SequencesPooled'
  <2>1. \A t \in SequenceIds : InHand(t)' <=> InHand(t)
    BY <1>1 DEF InHand, Idle
  <2> QED
    BY <1>5, <2>1, SameSequences DEF ContextInv, AcquireEvict
<1>7. Reachable'
  BY <1>5 DEF Reachable, ContextInv, AcquireEvict
<1>8. CallSound'
  BY <1>1, <1>2, <1>5 DEF CallSound, ContextInv, AcquireEvict
<1> QED
  BY <1>4, <1>5, <1>6, <1>7, <1>8, Assemble
  DEF ContextInv, ContextTypeOK, AcquireEvict

----------------------------------------------------------------------------
(* What swapping out the victim does to the table.                         *)
LEMMA SwapOutFacts ==
  ASSUME ContextInv, NEW v \in Resident
  PROVE  /\ SwapOut(v) \in [Live -> Entry] /\ SwapOutStats \in [Gauges -> Int]
         /\ v \in Live /\ contexts[v].sequence \in SequenceIds
         /\ SwapOut(v)[v].sequence = NoSequence
         /\ \A d \in Live : d # v => SwapOut(v)[d] = contexts[d]
         /\ \A d \in Live : /\ SwapOut(v)[d].owners = contexts[d].owners
                            /\ SwapOut(v)[d].pins = contexts[d].pins
<1>1. /\ v \in Live /\ contexts \in [Live -> Entry] /\ stats \in [Gauges -> Int]
      /\ contexts[v].sequence # NoSequence
  BY DEF Resident, ContextInv, ContextTypeOK
<1>2. contexts[v] \in Entry
  BY <1>1
<1>3. contexts[v].sequence \in SequenceIds
  BY <1>1, <1>2 DEF Entry
<1>4. [contexts[v] EXCEPT !.sequence = NoSequence] \in Entry
  BY <1>2 DEF Entry
<1>5. SwapOut(v) = [contexts EXCEPT ![v] = [contexts[v] EXCEPT !.sequence = NoSequence]]
  BY <1>1, <1>2 DEF SwapOut
<1>6. SwapOut(v) \in [Live -> Entry]
  BY <1>1, <1>4, <1>5
<1>7. /\ SwapOut(v)[v] = [contexts[v] EXCEPT !.sequence = NoSequence]
      /\ \A d \in Live : d # v => SwapOut(v)[d] = contexts[d]
  BY <1>1, <1>5
<1>8. /\ SwapOut(v)[v].sequence = NoSequence
      /\ SwapOut(v)[v].owners = contexts[v].owners
      /\ SwapOut(v)[v].pins = contexts[v].pins
  BY <1>2, <1>7 DEF Entry
<1>9. SwapOutStats \in [Gauges -> Int]
  BY <1>1 DEF SwapOutStats, Gauges
<1> QED
  BY <1>1, <1>3, <1>6, <1>7, <1>8, <1>9

(* The victim was saved and a new context takes its sequence.              *)
LEMMA SavedForNewSound ==
  ASSUME ContextInv, call.stage = "saving", call.context = NewContext,
         Create(SwapOut(call.victim), SwapOutStats, call.agent,
                contexts[call.victim].sequence),
         call' = Idle, freeSequences' = freeSequences
  PROVE  ContextInv'
<1> DEFINE v == call.victim
           s == contexts[v].sequence
           n == nextContextId
<1>1. v \in Resident /\ contexts[v].pins = 0
  BY DEF ContextInv, CallSound
<1>2. call.agent \in Agents /\ n <= MaxContextId
  BY DEF ContextInv, CallSound
<1>3. \A d \in Live : contexts[d].owners # {}
  BY DEF ContextInv, Reachable
<1> HIDE DEF v
<1>4. /\ SwapOut(v) \in [Live -> Entry] /\ SwapOutStats \in [Gauges -> Int]
      /\ v \in Live /\ s \in SequenceIds
      /\ SwapOut(v)[v].sequence = NoSequence
      /\ \A d \in Live : d # v => SwapOut(v)[d] = contexts[d]
      /\ \A d \in Live : /\ SwapOut(v)[d].owners = contexts[d].owners
                         /\ SwapOut(v)[d].pins = contexts[d].pins
  BY <1>1, SwapOutFacts
<1>5. \A d \in Live : SwapOut(v)[d].owners # {}
  BY <1>3, <1>4
<1>6. Create(SwapOut(v), SwapOutStats, call.agent, s)
  BY DEF v
<1>7. /\ n \notin Live
      /\ Live' = Live \cup {n} /\ contexts' \in [Live' -> Entry]
      /\ \A d \in Live : contexts'[d] = SwapOut(v)[d]
      /\ contexts'[n].sequence = s
      /\ Reachable'
      /\ Live' \subseteq 1 .. nextContextId' - 1
      /\ nextContextId' \in 1 .. MaxContextId + 1
      /\ stats' \in [Gauges -> Int]
  BY <1>2, <1>4, <1>5, <1>6, Created
<1>8. s # NoSequence
  BY <1>4, ContextAssumption DEF SequenceIds, NoSequence
<1> HIDE DEF s
<1>9. Resident' = (Resident \ {v}) \cup {n}
  BY <1>4, <1>7, <1>8 DEF Resident
<1>10. \A c \in Resident : c \in Live /\ c # n
  BY <1>7 DEF Resident
<1>11. \A c \in Resident \ {v} : contexts'[c].sequence = contexts[c].sequence
  BY <1>4, <1>7, <1>10
<1>12. \A t \in SequenceIds : InUse(t)' <=> InUse(t)
  BY <1>1, <1>7, <1>9, <1>11 DEF InUse, s
<1>13. \A t \in SequenceIds : ~InHand(t) /\ ~InHand(t)'
  BY DEF InHand, Idle
<1>14. SequencesPooled'
  <2>1. \A t \in SequenceIds : Taken(t)' <=> Taken(t)
    BY <1>12, <1>13 DEF Taken
  <2>2. \A c, d \in Resident : contexts[c].sequence = contexts[d].sequence => c = d
    BY DEF ContextInv, SequencesPooled
  <2>3. \A c \in Resident \ {v} : contexts[c].sequence # s
    BY <1>1, <2>2 DEF s
  <2>4. \A c, d \in Resident' : contexts'[c].sequence = contexts'[d].sequence => c = d
    BY <1>7, <1>9, <1>11, <2>2, <2>3
  <2> QED
    BY <1>13, <2>1, <2>4, PassSequence DEF ContextInv
<1>15. CallSound'
  <2>1. \A c \in Live : contexts[c].pins > 0 => c \in Resident
    BY DEF ContextInv, CallSound
  <2>2. \A c \in Live' : contexts'[c].pins > 0 => c \in Resident'
    BY <1>1, <1>4, <1>7, <1>9, <2>1
  <2> QED
    BY <2>2 DEF CallSound, Idle
<1>16. call' \in Call
  BY DEF Call, Idle
<1> QED
  BY <1>7, <1>14, <1>15, <1>16, Assemble

(* The victim was saved and a swapped context is loaded into its sequence. *)
LEMMA SavedForSwappedSound ==
  ASSUME ContextInv, call.stage = "saving", call.context # NewContext,
         contexts' = SwapOut(call.victim), stats' = SwapOutStats,
         Load(call.agent, call.context, contexts[call.victim].sequence),
         UNCHANGED <<freeSequences, lastAccess, nextContextId>>
  PROVE  ContextInv'
<1> DEFINE v == call.victim
           s == contexts[v].sequence
           c == call.context
<1>1. v \in Resident /\ contexts[v].pins = 0
  BY DEF ContextInv, CallSound
<1>2. call.agent \in Agents /\ c \in Live \ Resident /\ c # NewContext
  BY DEF ContextInv, CallSound
<1>3. call' = [stage |-> "loading", agent |-> call.agent, context |-> c,
               victim |-> NewContext, sequence |-> s]
  BY DEF Load
<1> HIDE DEF v, c
<1>4. /\ SwapOut(v) \in [Live -> Entry] /\ SwapOutStats \in [Gauges -> Int]
      /\ v \in Live /\ s \in SequenceIds
      /\ SwapOut(v)[v].sequence = NoSequence
      /\ \A d \in Live : d # v => SwapOut(v)[d] = contexts[d]
      /\ \A d \in Live : /\ SwapOut(v)[d].owners = contexts[d].owners
                         /\ SwapOut(v)[d].pins = contexts[d].pins
  BY <1>1, SwapOutFacts
<1>5. contexts' = SwapOut(v)
  BY DEF v
<1>6. Live' = Live
  BY <1>4, <1>5 DEF Live
<1>7. Resident' = Resident \ {v}
  BY <1>4, <1>5, <1>6 DEF Resident
<1>8. \A d \in Resident \ {v} : contexts'[d].sequence = contexts[d].sequence
  BY <1>4, <1>5 DEF Resident
<1>9. \A d, e \in Resident : contexts[d].sequence = contexts[e].sequence => d = e
  BY DEF ContextInv, SequencesPooled
<1>10. \A d \in Resident \ {v} : contexts[d].sequence # s
  BY <1>1, <1>9
<1> HIDE DEF s
<1>11. \A t \in SequenceIds : InUse(t)' <=> InUse(t) /\ t # s
  <2>1. \A t : (\E d \in Resident : contexts[d].sequence = t) /\ t # s
               <=> \E d \in Resident \ {v} : contexts[d].sequence = t
    BY <1>1, <1>10 DEF s
  <2> QED
    BY <1>7, <1>8, <2>1 DEF InUse
<1>12. InUse(s)
  BY <1>1 DEF InUse, s
<1>13. \A t \in SequenceIds : ~InHand(t) /\ (InHand(t)' <=> t = s)
  BY <1>3 DEF InHand
<1>14. SequencesPooled'
  <2>1. \A t \in SequenceIds : Taken(t)' <=> Taken(t)
    BY <1>11, <1>12, <1>13 DEF Taken
  <2>2. \A t \in SequenceIds : ~(InUse(t)' /\ InHand(t)')
    BY <1>11, <1>13
  <2>3. \A d, e \in Resident' : contexts'[d].sequence = contexts'[e].sequence => d = e
    BY <1>7, <1>8, <1>9
  <2> QED
    BY <2>1, <2>2, <2>3, PassSequence DEF ContextInv
<1>15. Reachable'
  <2>1. \A d \in Live' : contexts'[d].owners # {}
    BY <1>4, <1>5, <1>6 DEF ContextInv, Reachable
  <2>2. Lists(lastAccess', Live')
    BY <1>6 DEF ContextInv, Reachable
  <2> QED
    BY <2>1, <2>2 DEF Reachable
<1>16. CallSound'
  <2>1. \A d \in Live' : contexts'[d].pins > 0 => d \in Resident'
    BY <1>1, <1>4, <1>5, <1>6, <1>7 DEF ContextInv, CallSound
  <2> QED
    BY <1>2, <1>3, <1>4, <1>6, <1>7, <2>1 DEF CallSound
<1>17. call' \in Call
  <2>1. c \in ContextIds
    BY <1>2, ContextAssumption DEF ContextInv, ContextTypeOK, ContextIds
  <2> QED
    BY <1>2, <1>3, <1>4, <2>1 DEF Call
<1> QED
  BY <1>4, <1>5, <1>6, <1>14, <1>15, <1>16, <1>17, Assemble
  DEF ContextInv, ContextTypeOK

(* Nothing was saved: the acquire is refused.                              *)
LEMMA NotSavedSound ==
  ASSUME ContextInv, call.stage = "saving", call' = Idle,
         UNCHANGED <<contexts, freeSequences, lastAccess, nextContextId, stats>>
  PROVE  ContextInv'
<1>1. Live' = Live /\ Resident' = Resident
  BY DEF Live, Resident
<1>2. SequencesPooled'
  <2>1. \A t \in SequenceIds : InHand(t)' <=> InHand(t)
    BY DEF InHand, Idle
  <2> QED
    BY <1>1, <2>1, SameSequences DEF ContextInv
<1>3. Reachable'
  BY <1>1 DEF Reachable, ContextInv
<1>4. CallSound'
  BY <1>1 DEF CallSound, ContextInv, Idle
<1>5. call' \in Call
  BY DEF Call, Idle
<1> QED
  BY <1>1, <1>2, <1>3, <1>4, <1>5, Assemble DEF ContextInv, ContextTypeOK

(* The swapped context was loaded into the sequence in hand.               *)
LEMMA LoadedSound ==
  ASSUME ContextInv, call.stage = "loading",
         Grant([contexts EXCEPT ![call.context].sequence = call.sequence],
               [stats EXCEPT !["resident"] = @ + 1, !["swapped"] = @ - 1],
               call.agent, call.context),
         call' = Idle, freeSequences' = freeSequences
  PROVE  ContextInv'
<1> DEFINE c == call.context
           s == call.sequence
           table == [contexts EXCEPT ![c].sequence = s]
           gauges == [stats EXCEPT !["resident"] = @ + 1, !["swapped"] = @ - 1]
<1> USE ContextAssumption
<1>1. /\ c \in Live \ Resident /\ s \in SequenceIds /\ call.agent \in Agents
      /\ contexts \in [Live -> Entry] /\ stats \in [Gauges -> Int]
  BY DEF ContextInv, CallSound, ContextTypeOK
<1>2. Grant(table, gauges, call.agent, c)
  OBVIOUS
<1> HIDE DEF c, s
<1>3. contexts[c] \in Entry /\ contexts[c].pins = 0
  <2>1. contexts[c] \in Entry /\ ~(contexts[c].pins > 0)
    BY <1>1 DEF ContextInv, CallSound
  <2> QED
    BY <2>1 DEF Entry
<1>4. /\ table \in [Live -> Entry] /\ table[c].sequence = s
      /\ \A d \in Live : d # c => table[d] = contexts[d]
      /\ table[c].owners = contexts[c].owners /\ table[c].pins = 0
  BY <1>1, <1>3 DEF Entry
<1>5. gauges \in [Gauges -> Int]
  BY <1>1 DEF Gauges
<1>6. \A d \in Live : table[d].owners # {}
  BY <1>4 DEF ContextInv, Reachable
<1> HIDE DEF table, gauges
<1>7. table[c].pins < MaxPins
  BY <1>4
<1>8. /\ Live' = Live /\ contexts' \in [Live -> Entry]
      /\ \A d \in Live : contexts'[d].sequence = table[d].sequence
      /\ \A d \in Live : d # c => contexts'[d].pins = table[d].pins
      /\ Reachable'
      /\ stats' \in [Gauges -> Int] /\ nextContextId' = nextContextId
  <2>1. table \in [Live -> Entry] /\ c \in Live /\ call.agent \in Agents
    BY <1>1, <1>4
  <2> QED
    BY <1>2, <1>5, <1>6, <1>7, <2>1, Granted
<1>9. s # NoSequence
  BY <1>1 DEF SequenceIds, NoSequence
<1>10. Resident' = Resident \cup {c}
  BY <1>1, <1>4, <1>8, <1>9 DEF Resident
<1>11. /\ \A d \in Resident : contexts'[d].sequence = contexts[d].sequence
       /\ contexts'[c].sequence = s
  BY <1>1, <1>4, <1>8 DEF Resident
<1>12. InHand(s) /\ ~InUse(s)
  <2>1. InHand(s)
    BY DEF InHand, s
  <2> QED
    BY <1>1, <2>1 DEF ContextInv, SequencesPooled
<1>13. \A t \in SequenceIds : InUse(t)' <=> InUse(t) \/ t = s
  BY <1>10, <1>11 DEF InUse
<1>14. \A t \in SequenceIds : (InHand(t) <=> t = s) /\ ~InHand(t)'
  BY DEF InHand, Idle, s
<1>15. SequencesPooled'
  <2>1. \A t \in SequenceIds : Taken(t)' <=> Taken(t)
    BY <1>13, <1>14 DEF Taken
  <2>2. \A d, e \in Resident : contexts[d].sequence = contexts[e].sequence => d = e
    BY DEF ContextInv, SequencesPooled
  <2>3. \A d \in Resident : contexts[d].sequence # s
    BY <1>12 DEF InUse
  <2>4. \A d, e \in Resident' : contexts'[d].sequence = contexts'[e].sequence => d = e
    BY <1>10, <1>11, <2>2, <2>3
  <2> QED
    BY <1>14, <2>1, <2>4, PassSequence DEF ContextInv
<1>16. CallSound'
  <2>1. \A d \in Live' : contexts'[d].pins > 0 => d \in Resident'
    BY <1>4, <1>8, <1>10 DEF ContextInv, CallSound
  <2> QED
    BY <2>1 DEF CallSound, Idle
<1>17. call' \in Call
  BY DEF Call, Idle
<1> QED
  BY <1>8, <1>15, <1>16, <1>17, Assemble DEF ContextInv, ContextTypeOK

(* Nothing was loaded: the sequence in hand is free again.                 *)
LEMMA NotLoadedSound ==
  ASSUME ContextInv, call.stage = "loading", LoadFailed, call' = Idle
  PROVE  ContextInv'
<1> DEFINE s == call.sequence
<1>1. s \in SequenceIds
  BY DEF ContextInv, CallSound
<1>2. /\ freeSequences' = Append(freeSequences, s)
      /\ UNCHANGED <<contexts, lastAccess, nextContextId, stats>>
  BY DEF LoadFailed
<1>3. Live' = Live /\ Resident' = Resident
  BY <1>2 DEF Live, Resident
<1>4. \A t \in SequenceIds : (InHand(t) <=> t = s) /\ ~InHand(t)'
  BY DEF InHand, Idle
<1> HIDE DEF s
<1>5. \A t \in SequenceIds : InUse(t)' <=> InUse(t)
  BY <1>2, <1>3 DEF InUse
<1>6. SequencesPooled'
  <2>1. Taken(s) /\ ~InUse(s)
    BY <1>1, <1>4 DEF Taken, ContextInv, SequencesPooled
  <2>2. \A t \in SequenceIds : Taken(t)' <=> Taken(t) /\ t # s
    BY <1>4, <1>5, <2>1 DEF Taken
  <2>3. \A d, e \in Resident' : contexts'[d].sequence = contexts'[e].sequence => d = e
    BY <1>2, <1>3 DEF ContextInv, SequencesPooled
  <2> QED
    BY <1>1, <1>2, <1>4, <2>1, <2>2, <2>3, GiveSequence DEF ContextInv
<1>7. Reachable'
  BY <1>2, <1>3 DEF Reachable, ContextInv
<1>8. CallSound'
  BY <1>2, <1>3 DEF CallSound, ContextInv, Idle
<1>9. call' \in Call
  BY DEF Call, Idle
<1> QED
  BY <1>2, <1>3, <1>6, <1>7, <1>8, <1>9, Assemble DEF ContextInv, ContextTypeOK

----------------------------------------------------------------------------
(* A step of an idle manager that changes only one entry's pins or owners  *)
(* and makes that context the last one used.                               *)
LEMMA EditSound ==
  ASSUME ContextInv, call = Idle, call' = call, NEW c \in Live,
         NEW e \in Entry, contexts' = [contexts EXCEPT ![c] = e],
         e.sequence = contexts[c].sequence, e.owners # {},
         e.pins > 0 => c \in Resident,
         lastAccess' = Touch(lastAccess, c), stats' \in [Gauges -> Int],
         UNCHANGED <<freeSequences, nextContextId>>
  PROVE  ContextInv'
<1>1. contexts \in [Live -> Entry]
  BY DEF ContextInv, ContextTypeOK
<1>2. /\ Live' = Live /\ contexts' \in [Live -> Entry] /\ contexts'[c] = e
      /\ \A d \in Live : d # c => contexts'[d] = contexts[d]
  BY <1>1 DEF Live
<1>3. \A d \in Live : contexts'[d].sequence = contexts[d].sequence
  BY <1>2
<1>4. Resident' = Resident
  BY <1>2, <1>3 DEF Resident
<1>5. SequencesPooled'
  <2>1. \A s \in SequenceIds : InHand(s)' <=> InHand(s)
    BY DEF InHand
  <2> QED
    BY <1>3, <1>4, <2>1, SameSequences DEF ContextInv, Resident
<1>6. Reachable'
  <2>1. \A d \in Live' : contexts'[d].owners # {}
    BY <1>2 DEF ContextInv, Reachable
  <2>2. Lists(lastAccess', Live')
    BY <1>2, TouchLists DEF ContextInv, Reachable
  <2> QED
    BY <2>1, <2>2 DEF Reachable
<1>7. CallSound'
  BY <1>2, <1>4 DEF CallSound, ContextInv, Idle
<1> QED
  BY <1>2, <1>5, <1>6, <1>7, Assemble DEF ContextInv, ContextTypeOK

(* Finish.                                                                 *)
LEMMA FinishSound ==
  ASSUME ContextInv, NEW c, Finish(c)
  PROVE  ContextInv'
<1> DEFINE e == [contexts[c] EXCEPT !.pins = @ - 1]
<1> USE ContextAssumption
<1>1. /\ c \in Live /\ contexts \in [Live -> Entry] /\ contexts[c] \in Entry
      /\ contexts[c].pins > 0 /\ stats \in [Gauges -> Int]
  BY DEF Finish, ContextInv, ContextTypeOK
<1>2. contexts[c].owners # {} /\ c \in Resident
  BY <1>1 DEF ContextInv, Reachable, CallSound
<1>3. /\ e \in Entry /\ e.sequence = contexts[c].sequence
      /\ e.owners = contexts[c].owners
  BY <1>1 DEF Entry
<1>4. contexts' = [contexts EXCEPT ![c] = e]
  BY <1>1 DEF Finish
<1> HIDE DEF e
<1> QED
  BY <1>1, <1>2, <1>3, <1>4, EditSound DEF Finish

(* Release by an owner that is not the last one.                           *)
LEMMA ShrinkSound ==
  ASSUME ContextInv, call = Idle, call' = call, nextContextId' = nextContextId,
         NEW c \in Live, NEW a, a \in contexts[c].owners,
         contexts[c].owners # {a}, Shrink(c, a)
  PROVE  ContextInv'
<1> DEFINE e == [contexts[c] EXCEPT !.owners = @ \ {a}]
<1>1. /\ contexts \in [Live -> Entry] /\ contexts[c] \in Entry
      /\ stats \in [Gauges -> Int]
  BY DEF ContextInv, ContextTypeOK
<1>2. contexts[c].owners \ {a} # {}
  OBVIOUS
<1>3. /\ e \in Entry /\ e.sequence = contexts[c].sequence
      /\ e.owners = contexts[c].owners \ {a} /\ e.pins = contexts[c].pins
  BY <1>1 DEF Entry
<1>4. contexts' = [contexts EXCEPT ![c] = e]
  BY <1>1 DEF Shrink
<1>5. contexts[c].pins > 0 => c \in Resident
  BY DEF ContextInv, CallSound
<1>6. stats' \in [Gauges -> Int]
  BY <1>1 DEF Shrink, Disown, Gauges
<1> HIDE DEF e
<1> QED
  BY <1>1, <1>2, <1>3, <1>4, <1>5, <1>6, EditSound DEF Shrink

(* Release by the last owner.                                              *)
LEMMA RemoveSound ==
  ASSUME ContextInv, call = Idle, call' = call, nextContextId' = nextContextId,
         NEW c \in Live, Remove(c)
  PROVE  ContextInv'
<1>1. contexts \in [Live -> Entry] /\ stats \in [Gauges -> Int]
  BY DEF ContextInv, ContextTypeOK
<1>2. /\ Live' = Live \ {c} /\ contexts' \in [Live' -> Entry]
      /\ \A d \in Live' : contexts'[d] = contexts[d]
  BY <1>1 DEF Remove, Live
<1>3. Resident' = Resident \ {c}
  BY <1>2 DEF Resident
<1>4. \A d \in Resident' : contexts'[d].sequence = contexts[d].sequence
  BY <1>2 DEF Resident
<1>5. stats' \in [Gauges -> Int]
  BY <1>1 DEF Remove, Disown, Gauges
<1>6. Reachable'
  <2>1. \A d \in Live' : contexts'[d].owners # {}
    BY <1>2 DEF ContextInv, Reachable
  <2>2. Lists(lastAccess', Live')
    BY <1>2, DropLists DEF Remove, ContextInv, Reachable
  <2> QED
    BY <2>1, <2>2 DEF Reachable
<1>7. \A d, e \in Resident : contexts[d].sequence = contexts[e].sequence => d = e
  BY DEF ContextInv, SequencesPooled
<1>8. \A d, e \in Resident' : contexts'[d].sequence = contexts'[e].sequence => d = e
  BY <1>3, <1>4, <1>7
<1>9. \A t \in SequenceIds : ~InHand(t) /\ ~InHand(t)'
  BY DEF InHand, Idle
<1>10. SequencesPooled'
  <2>1. CASE c \in Resident
    <3> DEFINE s == contexts[c].sequence
    <3>1. s \in SequenceIds /\ InUse(s) /\ freeSequences' = Append(freeSequences, s)
      <4>1. contexts[c] \in Entry /\ s # NoSequence
        BY <1>1, <2>1 DEF Resident
      <4> QED
        BY <2>1, <4>1 DEF Entry, InUse, Remove
    <3>2. \A d \in Resident \ {c} : contexts[d].sequence # s
      BY <1>7, <2>1
    <3> HIDE DEF s
    <3>3. \A t \in SequenceIds : InUse(t)' <=> InUse(t) /\ t # s
      <4>1. \A t : (\E d \in Resident : contexts[d].sequence = t) /\ t # s
                   <=> \E d \in Resident \ {c} : contexts[d].sequence = t
        BY <2>1, <3>2 DEF s
      <4> QED
        BY <1>3, <1>4, <4>1 DEF InUse
    <3>4. \A t \in SequenceIds : Taken(t)' <=> Taken(t) /\ t # s
      BY <1>9, <3>3 DEF Taken
    <3> QED
      BY <1>8, <1>9, <3>1, <3>4, GiveSequence DEF ContextInv, Taken
  <2>2. CASE c \notin Resident
    <3>1. Resident' = Resident /\ freeSequences' = freeSequences
      BY <1>3, <2>2 DEF Remove
    <3> QED
      BY <1>4, <1>9, <3>1, SameSequences DEF ContextInv
  <2> QED
    BY <2>1, <2>2
<1>11. CallSound'
  BY <1>2, <1>3 DEF CallSound, ContextInv, Idle
<1>12. Live' \subseteq 1 .. nextContextId' - 1
  BY <1>2 DEF ContextInv, ContextTypeOK
<1> QED
  BY <1>2, <1>5, <1>6, <1>10, <1>11, <1>12, Assemble DEF ContextInv, ContextTypeOK

----------------------------------------------------------------------------
(* Every operation preserves the invariant.                                *)
LEMMA ReleaseSound ==
  ASSUME ContextInv, NEW a \in Agents, NEW p \in Agents \cup {NoAgent},
         NEW c \in ContextIds, Release(a, p, c)
  PROVE  ContextInv'
<1> DEFINE r == Releaser(c, a, p)
<1>1. r \in contexts[c].owners /\ c \in Live
  BY DEF Release, MayRelease, Authorized, Releaser, OwnedBy
<1>2. call = Idle /\ call' = call /\ nextContextId' = nextContextId
  BY DEF Release
<1>3. CASE contexts[c].owners = {r}
  BY <1>1, <1>2, <1>3, RemoveSound DEF Release
<1>4. CASE contexts[c].owners # {r}
  BY <1>1, <1>2, <1>4, ShrinkSound DEF Release
<1> QED
  BY <1>3, <1>4

\* acquire up to its first callback keeps the invariant, on each of its ways.
LEMMA AcquireSound ==
  ASSUME ContextInv, NEW a \in Agents, NEW p \in Agents \cup {NoAgent},
         NEW r \in ContextIds \cup {NewContext}, Acquire(a, p, r)
  PROVE  ContextInv'
<1>1. call = Idle
  BY DEF Acquire
<1>2. PICK c \in Wanted(a, p, r) :
        AcquireResident(a, c) \/ AcquireFree(a, c) \/ AcquireEvict(a, c)
  BY DEF Acquire
<1>3. (c # NewContext => c \in Live) /\ (c = NewContext => nextContextId <= MaxContextId)
  BY WantedFacts
<1>4. CASE AcquireResident(a, c)
  BY <1>1, <1>4, AcquireResidentSound
<1>5. CASE AcquireFree(a, c)
  <2>1. freeSequences # <<>> /\ freeSequences' = Pop(freeSequences) /\ c \notin Resident
    BY <1>5 DEF AcquireFree
  <2>2. CASE c = NewContext
    <3>1. Create(contexts, stats, a, Top(freeSequences)) /\ call' = call
      BY <1>5, <2>2 DEF AcquireFree
    <3> QED
      BY <1>1, <1>3, <2>1, <2>2, <3>1, AcquireNewSound
  <2>3. CASE c # NewContext
    <3>1. /\ Load(a, c, Top(freeSequences))
          /\ UNCHANGED <<contexts, lastAccess, nextContextId, stats>>
      BY <1>5, <2>3 DEF AcquireFree
    <3> QED
      BY <1>1, <1>3, <2>1, <2>3, <3>1, AcquireSwappedSound
  <2> QED
    BY <2>2, <2>3
<1>6. CASE AcquireEvict(a, c)
  BY <1>1, <1>3, <1>6, AcquireEvictSound
<1> QED
  BY <1>2, <1>4, <1>5, <1>6

\* acquire after the victim is saved, or not, keeps the invariant.
LEMMA SavedSound ==
  ASSUME ContextInv, NEW ok \in BOOLEAN, Saved(ok)
  PROVE  ContextInv'
<1>1. call.stage = "saving" /\ freeSequences' = freeSequences
  BY DEF Saved
<1>2. CASE ok /\ call.context = NewContext
  BY <1>1, <1>2, SavedForNewSound DEF Saved
<1>3. CASE ok /\ call.context # NewContext
  BY <1>1, <1>3, SavedForSwappedSound DEF Saved
<1>4. CASE ~ok
  BY <1>1, <1>4, NotSavedSound DEF Saved
<1> QED
  BY <1>2, <1>3, <1>4

\* make_resident_locked, whether the callback succeeds or fails.
LEMMA LoadedEitherSound ==
  ASSUME ContextInv, NEW ok \in BOOLEAN, Loaded(ok)
  PROVE  ContextInv'
<1>1. call.stage = "loading" /\ call' = Idle
  BY DEF Loaded
<1>2. CASE ok
  BY <1>1, <1>2, LoadedSound DEF Loaded
<1>3. CASE ~ok
  BY <1>1, <1>3, NotLoadedSound DEF Loaded
<1> QED
  BY <1>2, <1>3

\* A call that is refused leaves everything as it is.
LEMMA StutterSound ==
  ASSUME ContextInv, UNCHANGED contextVars
  PROVE  ContextInv'
<1> USE DEF contextVars
<1>1. Live' = Live /\ Resident' = Resident
  BY DEF Live, Resident
<1>2. SequencesPooled'
  <2>1. \A s \in SequenceIds : InHand(s)' <=> InHand(s)
    BY DEF InHand
  <2> QED
    BY <1>1, <2>1, SameSequences DEF ContextInv
<1>3. Reachable' /\ CallSound'
  BY <1>1 DEF Reachable, CallSound, ContextInv
<1> QED
  BY <1>1, <1>2, <1>3, Assemble DEF ContextInv, ContextTypeOK

\* Every operation keeps the invariant.
LEMMA NextSound ==
  ASSUME ContextInv, [ContextNext]_contextVars
  PROVE  ContextInv'
BY AcquireSound, SavedSound, LoadedEitherSound, FinishSound, ReleaseSound, StutterSound
DEF ContextNext

(* The inductive invariant: whatever is acquired, finished and released,   *)
(* by whom, in which order, and whichever save or load fails, the stack    *)
(* holds exactly the sequences that neither a context nor the acquire      *)
(* under way has, and the order of access lists exactly the contexts.      *)
THEOREM ContextInvariance == ContextSpec => []ContextInv
<1>1. ContextInit => ContextInv
  BY InitiallySound
<1>2. ContextInv /\ [ContextNext]_contextVars => ContextInv'
  BY NextSound
<1> QED
  BY <1>1, <1>2, PTL DEF ContextSpec

(* Type correctness of the context manager's state.                        *)
THEOREM ContextTypeCorrect == ContextSpec => []ContextTypeOK
<1>1. ContextInv => ContextTypeOK
  BY DEF ContextInv
<1> QED
  BY <1>1, ContextInvariance, PTL

(* context_manager.cpp never gives one sequence of the engine to two       *)
(* contexts, nor keeps a sequence on the free stack that a context has.    *)
THEOREM SequencesNeverShared == ContextSpec => []NoSequenceTwice
<1>1. ASSUME ContextInv PROVE NoSequenceTwice
  <2>1. Lists(freeSequences, {s \in SequenceIds : ~Taken(s)})
    BY <1>1 DEF ContextInv, SequencesPooled
  <2>2. \A i, j \in DOMAIN freeSequences : freeSequences[i] = freeSequences[j] => i = j
    BY <2>1 DEF Lists
  <2>3. \A s \in SequenceIds : IsFree(s) => ~Taken(s)
    BY <2>1 DEF Lists, IsFree
  <2> QED
    BY <1>1, <2>2, <2>3 DEF NoSequenceTwice, Taken, ContextInv, SequencesPooled
<1> QED
  BY <1>1, ContextInvariance, PTL

(* No failure of a callback makes context_manager.cpp lose a sequence:     *)
(* each one is free, or a context has it, or it is about to be loaded.     *)
THEOREM SequencesNeverLost == ContextSpec => []NoSequenceLost
<1>1. ASSUME ContextInv PROVE NoSequenceLost
  <2>1. Lists(freeSequences, {s \in SequenceIds : ~Taken(s)})
    BY <1>1 DEF ContextInv, SequencesPooled
  <2>2. \A s \in SequenceIds : ~Taken(s) => IsFree(s)
    BY <2>1 DEF Lists, IsFree
  <2> QED
    BY <2>2 DEF NoSequenceLost, Taken
<1> QED
  BY <1>1, ContextInvariance, PTL

(* Every context keeps an owner that can release it and a place in the     *)
(* order in which acquire looks for a victim.                              *)
THEOREM ContextsReachable == ContextSpec => []Reachable
<1>1. ContextInv => Reachable
  BY DEF ContextInv
<1> QED
  BY <1>1, ContextInvariance, PTL

(* Together: context_manager.cpp keeps every sequence in exactly one place *)
(* and every context within reach of its owners and of eviction.           *)
THEOREM ContextsAreSound == ContextSpec => []ContextsSound
<1>1. NoSequenceTwice /\ NoSequenceLost /\ Reachable => ContextsSound
  BY DEF ContextsSound
<1> QED
  BY <1>1, SequencesNeverShared, SequencesNeverLost, ContextsReachable, PTL

----------------------------------------------------------------------------
(* Pinned contexts.                                                        *)
PinnedStep ==
  \A c \in Live : contexts[c].pins > 0 =>
    c \in Live' /\ contexts'[c].sequence = contexts[c].sequence

(* An acquire touches at most the context it settled on, and keeps its     *)
(* sequence.                                                               *)
LEMMA AcquirePins ==
  ASSUME ContextInv, NEW a \in Agents, NEW p \in Agents \cup {NoAgent},
         NEW r \in ContextIds \cup {NewContext}, Acquire(a, p, r)
  PROVE  PinnedStep
<1>1. PICK c \in Wanted(a, p, r) :
        AcquireResident(a, c) \/ AcquireFree(a, c) \/ AcquireEvict(a, c)
  BY DEF Acquire
<1>2. /\ contexts \in [Live -> Entry] /\ stats \in [Gauges -> Int]
      /\ \A d \in Live : contexts[d].owners # {}
  BY DEF ContextInv, ContextTypeOK, Reachable
<1>3. CASE AcquireResident(a, c)
  <2>1. /\ c \in Live /\ contexts[c].pins < MaxPins /\ Grant(contexts, stats, a, c)
    BY <1>3 DEF AcquireResident, Resident
  <2>2. Live' = Live /\ \A d \in Live : contexts'[d].sequence = contexts[d].sequence
    BY <1>2, <2>1, Granted
  <2> QED
    BY <2>2 DEF PinnedStep
<1>4. CASE AcquireFree(a, c) /\ c = NewContext
  <2>1. nextContextId \notin Live
    BY DEF ContextInv, ContextTypeOK
  <2> QED
    BY <1>2, <1>4, <2>1 DEF AcquireFree, Create, PinnedStep, Live
<1>5. CASE AcquireFree(a, c) /\ c # NewContext
  BY <1>5 DEF AcquireFree, PinnedStep, Live
<1>6. CASE AcquireEvict(a, c)
  BY <1>6 DEF AcquireEvict, PinnedStep, Live
<1> QED
  BY <1>1, <1>3, <1>4, <1>5, <1>6

(* The victim of a swap is not pinned.                                     *)
LEMMA SavedPins ==
  ASSUME ContextInv, NEW ok \in BOOLEAN, Saved(ok)
  PROVE  PinnedStep
<1> DEFINE v == call.victim
<1>1. v \in Resident /\ contexts[v].pins = 0
  BY DEF ContextInv, CallSound, Saved
<1>2. /\ SwapOut(v) \in [Live -> Entry] /\ v \in Live
      /\ \A d \in Live : d # v => SwapOut(v)[d] = contexts[d]
  BY <1>1, SwapOutFacts
<1>3. \A d \in Live : contexts[d].pins > 0 => SwapOut(v)[d] = contexts[d]
  BY <1>1, <1>2
<1>4. CASE ok /\ call.context = NewContext
  <2>1. nextContextId \notin Live
    BY DEF ContextInv, ContextTypeOK
  <2>2. Create(SwapOut(v), SwapOutStats, call.agent, contexts[v].sequence)
    BY <1>4 DEF Saved
  <2>3. Live \subseteq Live' /\ \A d \in Live : contexts'[d] = SwapOut(v)[d]
    BY <1>2, <2>1, <2>2 DEF Create, Live
  <2> QED
    BY <1>3, <2>3 DEF PinnedStep
<1>5. CASE ok /\ call.context # NewContext
  <2>1. contexts' = SwapOut(v)
    BY <1>5 DEF Saved
  <2>2. Live' = Live
    BY <1>2, <2>1 DEF Live
  <2> QED
    BY <1>3, <2>1, <2>2 DEF PinnedStep
<1>6. CASE ~ok
  BY <1>6 DEF Saved, PinnedStep, Live
<1> QED
  BY <1>4, <1>5, <1>6

(* The context that is loaded is not pinned yet.                           *)
LEMMA LoadedPins ==
  ASSUME ContextInv, NEW ok \in BOOLEAN, Loaded(ok)
  PROVE  PinnedStep
<1> DEFINE c == call.context
           table == [contexts EXCEPT ![c].sequence = call.sequence]
<1>1. c \in Live /\ ~(contexts[c].pins > 0) /\ contexts \in [Live -> Entry]
  BY DEF ContextInv, ContextTypeOK, CallSound, Loaded
<1>2. CASE ok
  <2>1. contexts' = [table EXCEPT ![c].owners = @ \cup {call.agent}, ![c].pins = @ + 1]
    BY <1>2 DEF Loaded, Grant
  <2>2. Live' = Live /\ \A d \in Live : d # c => contexts'[d] = contexts[d]
    BY <1>1, <2>1 DEF Live
  <2> QED
    BY <1>1, <2>2 DEF PinnedStep
<1>3. CASE ~ok
  BY <1>3 DEF Loaded, LoadFailed, PinnedStep, Live
<1> QED
  BY <1>2, <1>3

(* The last owner cannot release a pinned context.                         *)
LEMMA ReleasePins ==
  ASSUME ContextInv, NEW a \in Agents, NEW p \in Agents \cup {NoAgent},
         NEW c \in ContextIds, Release(a, p, c)
  PROVE  PinnedStep
<1> DEFINE r == Releaser(c, a, p)
<1>1. contexts \in [Live -> Entry] /\ c \in Live /\ contexts[c] \in Entry
  BY DEF ContextInv, ContextTypeOK, Release
<1>2. CASE contexts[c].owners = {r}
  <2>1. Cardinality({r}) = 1
    BY FS_Singleton
  <2>2. contexts[c].pins = 0
    BY <1>2, <2>1 DEF Release, MayRelease
  <2>3. contexts' = [d \in Live \ {c} |-> contexts[d]]
    BY <1>2 DEF Release, Remove
  <2> QED
    BY <2>2, <2>3 DEF PinnedStep, Live
<1>3. CASE contexts[c].owners # {r}
  <2>1. contexts' = [contexts EXCEPT ![c].owners = @ \ {r}]
    BY <1>3 DEF Release, Shrink
  <2>2. Live' = Live /\ \A d \in Live : contexts'[d].sequence = contexts[d].sequence
    BY <1>1, <2>1 DEF Live, Entry
  <2> QED
    BY <2>2 DEF PinnedStep
<1> QED
  BY <1>2, <1>3

\* finish gives back one pin and moves nothing.
LEMMA FinishPins ==
  ASSUME ContextInv, NEW c, Finish(c)
  PROVE  PinnedStep
<1>1. contexts \in [Live -> Entry] /\ c \in Live /\ contexts[c] \in Entry
  BY DEF ContextInv, ContextTypeOK, Finish
<1>2. contexts' = [contexts EXCEPT ![c].pins = @ - 1]
  BY DEF Finish
<1>3. Live' = Live /\ \A d \in Live : contexts'[d].sequence = contexts[d].sequence
  BY <1>1, <1>2 DEF Live, Entry
<1> QED
  BY <1>3 DEF PinnedStep

(* docs/architecture.md:63 for every number of agents, contexts and pins:  *)
(* no operation of any agent swaps out, moves or removes a context that a  *)
(* request uses.                                                           *)
THEOREM PinnedContextsStay == ContextSpec => PinnedStays
<1>1. ContextInv /\ [ContextNext]_contextVars => [PinnedStep]_contextVars
  BY AcquirePins, SavedPins, LoadedPins, FinishPins, ReleasePins DEF ContextNext
<1>2. ContextSpec => [][PinnedStep]_contextVars
  BY <1>1, ContextInvariance, PTL DEF ContextSpec
<1> QED
  BY <1>2, PTL DEF PinnedStays, PinnedStep

----------------------------------------------------------------------------
(* The gauges.  Counted says it of any table: acquire works on one that is *)
(* not in place yet while it swaps.                                        *)
OwnershipsOf(table, S) == {x \in S \X Agents : x[2] \in table[x[1]].owners}
ResidentOf(table, S) == {c \in S : table[c].sequence # NoSequence}

Counted(table, S, gauges) ==
  /\ IsFiniteSet(S) /\ IsFiniteSet(OwnershipsOf(table, S))
  /\ gauges["contexts"] = Cardinality(S)
  /\ gauges["owners"] = Cardinality(OwnershipsOf(table, S))
  /\ gauges["resident"] = Cardinality(ResidentOf(table, S))
  /\ gauges["swapped"] = Cardinality(S \ ResidentOf(table, S))

GaugesCount == Counted(contexts, Live, stats)

\* The gauges that count the sets are those that are reported.
LEMMA GaugesCountExactly == GaugesCount => StatsExact
BY DEF GaugesCount, Counted, StatsExact, OwnershipsOf, Ownerships, ResidentOf, Resident

(* Tables that agree on owners and residence are counted alike.            *)
LEMMA CountedAlike ==
  ASSUME NEW S, NEW table, NEW other, NEW gauges, Counted(table, S, gauges),
         \A c \in S : /\ other[c].owners = table[c].owners
                      /\ other[c].sequence # NoSequence <=> table[c].sequence # NoSequence
  PROVE  Counted(other, S, gauges)
<1>1. OwnershipsOf(other, S) = OwnershipsOf(table, S)
  BY DEF OwnershipsOf
<1>2. ResidentOf(other, S) = ResidentOf(table, S)
  BY DEF ResidentOf
<1> QED
  BY <1>1, <1>2 DEF Counted

\* Grant keeps the gauges exact.
LEMMA GrantCounted ==
  ASSUME NEW table \in [Live -> Entry], NEW gauges \in [Gauges -> Int],
         Counted(table, Live, gauges), NEW a \in Agents, NEW c \in Live,
         Grant(table, gauges, a, c)
  PROVE  GaugesCount'
<1>1. contexts' = [table EXCEPT ![c].owners = @ \cup {a}, ![c].pins = @ + 1] /\ table[c] \in Entry
  BY DEF Grant
<1>2. /\ DOMAIN contexts' = Live
      /\ \A d \in Live : contexts'[d].sequence = table[d].sequence
      /\ \A d \in Live : contexts'[d].owners = IF d = c THEN table[c].owners \cup {a} ELSE table[d].owners
  BY <1>1 DEF Entry
<1>3. Live' = Live
  BY <1>2 DEF Live
<1>4. ResidentOf(contexts', Live) = ResidentOf(table, Live)
  BY <1>2 DEF ResidentOf
<1>5. OwnershipsOf(contexts', Live) = OwnershipsOf(table, Live) \cup {<<c, a>>}
  BY <1>2 DEF OwnershipsOf
<1>6. <<c, a>> \in OwnershipsOf(table, Live) <=> a \in table[c].owners
  BY DEF OwnershipsOf
<1>7. /\ IsFiniteSet(OwnershipsOf(contexts', Live))
      /\ Cardinality(OwnershipsOf(contexts', Live)) =
           IF a \in table[c].owners THEN Cardinality(OwnershipsOf(table, Live))
                                    ELSE Cardinality(OwnershipsOf(table, Live)) + 1
  <2>1. IsFiniteSet(OwnershipsOf(table, Live))
    BY DEF Counted
  <2> QED
    BY <1>5, <1>6, <2>1, FS_AddElement
<1>8. /\ stats'["contexts"] = gauges["contexts"] /\ stats'["resident"] = gauges["resident"]
      /\ stats'["swapped"] = gauges["swapped"]
      /\ stats'["owners"] = IF a \in table[c].owners THEN gauges["owners"] ELSE gauges["owners"] + 1
  <2>1. CASE a \in table[c].owners
    <3>1. stats' = gauges
      BY <2>1 DEF Grant
    <3> QED
      BY <2>1, <3>1
  <2>2. CASE a \notin table[c].owners
    <3>1. stats' = [gauges EXCEPT !["owners"] = @ + 1]
      BY <2>2 DEF Grant
    <3> QED
      BY <2>2, <3>1 DEF Gauges
  <2> QED
    BY <2>1, <2>2
<1>9. Counted(contexts', Live, stats')
  BY <1>4, <1>7, <1>8 DEF Counted
<1> QED
  BY <1>3, <1>9 DEF GaugesCount

\* Create keeps the gauges exact.
LEMMA CreateCounted ==
  ASSUME NEW table \in [Live -> Entry], NEW gauges \in [Gauges -> Int],
         Counted(table, Live, gauges), NEW a \in Agents, NEW s \in SequenceIds,
         nextContextId \notin Live, Create(table, gauges, a, s)
  PROVE  GaugesCount'
<1> DEFINE n == nextContextId
           all == Live \cup {n}
<1>1. /\ DOMAIN contexts' = all
      /\ \A d \in Live : contexts'[d] = table[d]
      /\ contexts'[n] = [sequence |-> s, pins |-> 1, owners |-> {a}]
  BY DEF Create
<1>2. Live' = all
  BY <1>1 DEF Live
<1>3. s # NoSequence
  BY ContextAssumption DEF SequenceIds, NoSequence
<1>4. ResidentOf(contexts', all) = ResidentOf(table, Live) \cup {n}
  BY <1>1, <1>3 DEF ResidentOf
<1>5. OwnershipsOf(contexts', all) = OwnershipsOf(table, Live) \cup {<<n, a>>}
  BY <1>1 DEF OwnershipsOf
<1>6. n \notin ResidentOf(table, Live) /\ <<n, a>> \notin OwnershipsOf(table, Live)
  BY DEF ResidentOf, OwnershipsOf
<1>7. all \ ResidentOf(contexts', all) = Live \ ResidentOf(table, Live)
  BY <1>4
<1>8. IsFiniteSet(Live) /\ IsFiniteSet(OwnershipsOf(table, Live)) /\ IsFiniteSet(ResidentOf(table, Live))
  BY FS_Subset DEF Counted, ResidentOf
<1>9. IsFiniteSet(all) /\ Cardinality(all) = Cardinality(Live) + 1
  BY <1>8, FS_AddElement
<1>10. /\ IsFiniteSet(OwnershipsOf(contexts', all))
       /\ Cardinality(OwnershipsOf(contexts', all)) = Cardinality(OwnershipsOf(table, Live)) + 1
  BY <1>5, <1>6, <1>8, FS_AddElement
<1>11. Cardinality(ResidentOf(contexts', all)) = Cardinality(ResidentOf(table, Live)) + 1
  BY <1>4, <1>6, <1>8, FS_AddElement
<1>12. /\ stats'["contexts"] = gauges["contexts"] + 1 /\ stats'["owners"] = gauges["owners"] + 1
       /\ stats'["resident"] = gauges["resident"] + 1 /\ stats'["swapped"] = gauges["swapped"]
  BY DEF Create, Gauges
<1>13. Counted(contexts', all, stats')
  BY <1>7, <1>9, <1>10, <1>11, <1>12 DEF Counted
<1> QED
  BY <1>2, <1>13 DEF GaugesCount

(* Swapping out and in, of a table in place.                               *)
LEMMA SwapOutCounted ==
  ASSUME ContextInv, GaugesCount, NEW v \in Resident
  PROVE  Counted(SwapOut(v), Live, SwapOutStats)
<1>1. contexts \in [Live -> Entry] /\ stats \in [Gauges -> Int] /\ v \in Live
  BY DEF ContextInv, ContextTypeOK, Resident
<1>2. /\ \A d \in Live : SwapOut(v)[d].owners = contexts[d].owners
      /\ SwapOut(v)[v].sequence = NoSequence
      /\ \A d \in Live : d # v => SwapOut(v)[d] = contexts[d]
  BY SwapOutFacts
<1>3. OwnershipsOf(SwapOut(v), Live) = OwnershipsOf(contexts, Live)
  BY <1>2 DEF OwnershipsOf
<1>4. ResidentOf(SwapOut(v), Live) = ResidentOf(contexts, Live) \ {v} /\ v \in ResidentOf(contexts, Live)
  BY <1>1, <1>2 DEF ResidentOf, Resident
<1>5. /\ Live \ ResidentOf(SwapOut(v), Live) = (Live \ ResidentOf(contexts, Live)) \cup {v}
      /\ v \notin Live \ ResidentOf(contexts, Live)
  BY <1>1, <1>4
<1>6. IsFiniteSet(ResidentOf(contexts, Live)) /\ IsFiniteSet(Live \ ResidentOf(contexts, Live))
  BY FS_Subset DEF GaugesCount, Counted, ResidentOf
<1>7. Cardinality(ResidentOf(SwapOut(v), Live)) = Cardinality(ResidentOf(contexts, Live)) - 1
  BY <1>4, <1>6, FS_RemoveElement
<1>8. Cardinality(Live \ ResidentOf(SwapOut(v), Live)) = Cardinality(Live \ ResidentOf(contexts, Live)) + 1
  BY <1>5, <1>6, FS_AddElement
<1>9. /\ SwapOutStats["contexts"] = stats["contexts"] /\ SwapOutStats["owners"] = stats["owners"]
      /\ SwapOutStats["resident"] = stats["resident"] - 1 /\ SwapOutStats["swapped"] = stats["swapped"] + 1
  BY <1>1 DEF SwapOutStats, Gauges
<1> QED
  BY <1>3, <1>7, <1>8, <1>9 DEF GaugesCount, Counted

SwapIn(c, s) == [contexts EXCEPT ![c].sequence = s]
SwapInStats == [stats EXCEPT !["resident"] = @ + 1, !["swapped"] = @ - 1]

\* SwapIn keeps the gauges exact.
LEMMA SwapInCounted ==
  ASSUME ContextInv, GaugesCount, NEW c \in Live \ Resident, NEW s \in SequenceIds
  PROVE  /\ SwapIn(c, s) \in [Live -> Entry] /\ SwapInStats \in [Gauges -> Int]
         /\ Counted(SwapIn(c, s), Live, SwapInStats)
<1>1. contexts \in [Live -> Entry] /\ stats \in [Gauges -> Int] /\ c \in Live /\ contexts[c] \in Entry
  BY DEF ContextInv, ContextTypeOK
<1>2. /\ \A d \in Live : SwapIn(c, s)[d].owners = contexts[d].owners
      /\ SwapIn(c, s)[c].sequence = s
      /\ \A d \in Live : d # c => SwapIn(c, s)[d] = contexts[d]
      /\ SwapIn(c, s) \in [Live -> Entry]
  BY <1>1 DEF SwapIn, Entry
<1>3. OwnershipsOf(SwapIn(c, s), Live) = OwnershipsOf(contexts, Live)
  BY <1>2 DEF OwnershipsOf
<1>4. s # NoSequence
  BY ContextAssumption DEF SequenceIds, NoSequence
<1>5. ResidentOf(SwapIn(c, s), Live) = ResidentOf(contexts, Live) \cup {c} /\ c \notin ResidentOf(contexts, Live)
  BY <1>1, <1>2, <1>4 DEF ResidentOf, Resident
<1>6. /\ Live \ ResidentOf(SwapIn(c, s), Live) = (Live \ ResidentOf(contexts, Live)) \ {c}
      /\ c \in Live \ ResidentOf(contexts, Live)
  BY <1>1, <1>5
<1>7. IsFiniteSet(ResidentOf(contexts, Live)) /\ IsFiniteSet(Live \ ResidentOf(contexts, Live))
  BY FS_Subset DEF GaugesCount, Counted, ResidentOf
<1>8. Cardinality(ResidentOf(SwapIn(c, s), Live)) = Cardinality(ResidentOf(contexts, Live)) + 1
  BY <1>5, <1>7, FS_AddElement
<1>9. Cardinality(Live \ ResidentOf(SwapIn(c, s), Live)) = Cardinality(Live \ ResidentOf(contexts, Live)) - 1
  BY <1>6, <1>7, FS_RemoveElement
<1>10. /\ SwapInStats["contexts"] = stats["contexts"] /\ SwapInStats["owners"] = stats["owners"]
       /\ SwapInStats["resident"] = stats["resident"] + 1 /\ SwapInStats["swapped"] = stats["swapped"] - 1
       /\ SwapInStats \in [Gauges -> Int]
  BY <1>1 DEF SwapInStats, Gauges
<1> QED
  BY <1>2, <1>3, <1>8, <1>9, <1>10 DEF GaugesCount, Counted

(* One owner less; the last owner takes the context with it.               *)
LEMMA DisownCounted ==
  ASSUME stats \in [Gauges -> Int], GaugesCount, OwnershipsOf(contexts, Live) # {}
  PROVE  /\ Disown \in [Gauges -> Int] /\ Disown["owners"] = Cardinality(OwnershipsOf(contexts, Live)) - 1
         /\ Disown["contexts"] = stats["contexts"] /\ Disown["resident"] = stats["resident"]
         /\ Disown["swapped"] = stats["swapped"]
<1>1. Cardinality(OwnershipsOf(contexts, Live)) \in Nat /\ Cardinality(OwnershipsOf(contexts, Live)) # 0
  BY FS_CardinalityType, FS_EmptySet DEF GaugesCount, Counted
<1>2. stats["owners"] > 0
  BY <1>1 DEF GaugesCount, Counted
<1>3. Disown = [stats EXCEPT !["owners"] = stats["owners"] - 1]
  BY <1>2 DEF Disown
<1> QED
  BY <1>3 DEF Gauges, GaugesCount, Counted

\* Shrink keeps the gauges exact.
LEMMA ShrinkCounted ==
  ASSUME ContextInv, GaugesCount, NEW c \in Live, NEW a \in Agents, a \in contexts[c].owners, Shrink(c, a)
  PROVE  GaugesCount'
<1>1. contexts \in [Live -> Entry] /\ stats \in [Gauges -> Int] /\ contexts[c] \in Entry
  BY DEF ContextInv, ContextTypeOK
<1>2. /\ DOMAIN contexts' = Live
      /\ \A d \in Live : contexts'[d].sequence = contexts[d].sequence
      /\ \A d \in Live : contexts'[d].owners = IF d = c THEN contexts[c].owners \ {a} ELSE contexts[d].owners
  BY <1>1 DEF Shrink, Entry
<1>3. Live' = Live
  BY <1>2 DEF Live
<1>4. ResidentOf(contexts', Live) = ResidentOf(contexts, Live)
  BY <1>2 DEF ResidentOf
<1>5. OwnershipsOf(contexts', Live) = OwnershipsOf(contexts, Live) \ {<<c, a>>}
  BY <1>2 DEF OwnershipsOf
<1>6. <<c, a>> \in OwnershipsOf(contexts, Live)
  BY DEF OwnershipsOf
<1>7. /\ IsFiniteSet(OwnershipsOf(contexts', Live))
      /\ Cardinality(OwnershipsOf(contexts', Live)) = Cardinality(OwnershipsOf(contexts, Live)) - 1
  <2>1. IsFiniteSet(OwnershipsOf(contexts, Live))
    BY DEF GaugesCount, Counted
  <2> QED
    BY <1>5, <1>6, <2>1, FS_RemoveElement
<1>8. stats' = Disown
  BY DEF Shrink
<1>9. Counted(contexts', Live, stats')
  BY <1>1, <1>4, <1>6, <1>7, <1>8, DisownCounted DEF GaugesCount, Counted
<1> QED
  BY <1>3, <1>9 DEF GaugesCount

\* Remove keeps the gauges exact.
LEMMA RemoveCounted ==
  ASSUME ContextInv, GaugesCount, NEW c \in Live, NEW a \in Agents, contexts[c].owners = {a}, Remove(c)
  PROVE  GaugesCount'
<1> DEFINE rest == Live \ {c}
<1>1. contexts \in [Live -> Entry] /\ stats \in [Gauges -> Int]
  BY DEF ContextInv, ContextTypeOK
<1>2. DOMAIN contexts' = rest /\ \A d \in rest : contexts'[d] = contexts[d]
  BY DEF Remove
<1>3. Live' = rest
  BY <1>2 DEF Live
<1>4. ResidentOf(contexts', rest) = ResidentOf(contexts, Live) \ {c}
  BY <1>2 DEF ResidentOf
<1>5. OwnershipsOf(contexts', rest) = OwnershipsOf(contexts, Live) \ {<<c, a>>}
  <2>1. \A d, b : <<d, b>> \in OwnershipsOf(contexts', rest) <=> <<d, b>> \in OwnershipsOf(contexts, Live) \ {<<c, a>>}
    BY <1>2 DEF OwnershipsOf
  <2>2. /\ OwnershipsOf(contexts', rest) \subseteq Live \X Agents
        /\ OwnershipsOf(contexts, Live) \subseteq Live \X Agents
    BY DEF OwnershipsOf
  <2> QED
    BY <2>1, <2>2
<1>6. <<c, a>> \in OwnershipsOf(contexts, Live)
  BY DEF OwnershipsOf
<1>7. IsFiniteSet(Live) /\ IsFiniteSet(OwnershipsOf(contexts, Live)) /\ IsFiniteSet(ResidentOf(contexts, Live))
      /\ IsFiniteSet(Live \ ResidentOf(contexts, Live))
  BY FS_Subset DEF GaugesCount, Counted, ResidentOf
<1>8. /\ IsFiniteSet(OwnershipsOf(contexts', rest))
      /\ Cardinality(OwnershipsOf(contexts', rest)) = Cardinality(OwnershipsOf(contexts, Live)) - 1
  BY <1>5, <1>6, <1>7, FS_RemoveElement
<1>9. IsFiniteSet(rest) /\ Cardinality(rest) = Cardinality(Live) - 1
  BY <1>7, FS_RemoveElement
<1>10. /\ Disown \in [Gauges -> Int] /\ Disown["owners"] = Cardinality(OwnershipsOf(contexts, Live)) - 1
       /\ Disown["contexts"] = stats["contexts"] /\ Disown["resident"] = stats["resident"]
       /\ Disown["swapped"] = stats["swapped"]
  BY <1>1, <1>6, DisownCounted
<1>11. CASE c \in Resident
  <2>1. c \in ResidentOf(contexts, Live)
    BY <1>11 DEF ResidentOf, Resident
  <2>2. Cardinality(ResidentOf(contexts', rest)) = Cardinality(ResidentOf(contexts, Live)) - 1
    BY <1>4, <1>7, <2>1, FS_RemoveElement
  <2>3. rest \ ResidentOf(contexts', rest) = Live \ ResidentOf(contexts, Live)
    BY <1>4, <2>1
  <2>4. stats' = [Disown EXCEPT !["contexts"] = @ - 1, !["resident"] = @ - 1]
    BY <1>11 DEF Remove
  <2>5. /\ stats'["contexts"] = stats["contexts"] - 1 /\ stats'["resident"] = stats["resident"] - 1
        /\ stats'["swapped"] = stats["swapped"] /\ stats'["owners"] = Disown["owners"]
    BY <1>10, <2>4 DEF Gauges
  <2> QED
    BY <1>3, <1>8, <1>9, <1>10, <2>2, <2>3, <2>5 DEF GaugesCount, Counted
<1>12. CASE c \notin Resident
  <2>1. c \notin ResidentOf(contexts, Live)
    BY <1>12 DEF ResidentOf, Resident
  <2>2. ResidentOf(contexts', rest) = ResidentOf(contexts, Live)
    BY <1>4, <2>1
  <2>3. rest \ ResidentOf(contexts', rest) = (Live \ ResidentOf(contexts, Live)) \ {c}
    BY <2>2
  <2>4. Cardinality(rest \ ResidentOf(contexts', rest)) = Cardinality(Live \ ResidentOf(contexts, Live)) - 1
    BY <1>7, <2>1, <2>3, FS_RemoveElement
  <2>5. stats' = [Disown EXCEPT !["contexts"] = @ - 1, !["swapped"] = @ - 1]
    BY <1>12 DEF Remove
  <2>6. /\ stats'["contexts"] = stats["contexts"] - 1 /\ stats'["swapped"] = stats["swapped"] - 1
        /\ stats'["resident"] = stats["resident"] /\ stats'["owners"] = Disown["owners"]
    BY <1>10, <2>5 DEF Gauges
  <2> QED
    BY <1>3, <1>8, <1>9, <1>10, <2>2, <2>4, <2>6 DEF GaugesCount, Counted
<1> QED
  BY <1>11, <1>12

(* What finish and every path without an effect on the table do.           *)
LEMMA SameCounted ==
  ASSUME GaugesCount, Live' = Live, UNCHANGED stats,
         \A d \in Live : /\ contexts'[d].owners = contexts[d].owners
                         /\ contexts'[d].sequence = contexts[d].sequence
  PROVE  GaugesCount'
BY CountedAlike DEF GaugesCount

\* Acquire keeps the gauges exact.
LEMMA AcquireCounted ==
  ASSUME ContextInv, GaugesCount, NEW a \in Agents, NEW p \in Agents \cup {NoAgent},
         NEW r \in ContextIds \cup {NewContext}, Acquire(a, p, r)
  PROVE  GaugesCount'
<1>1. PICK c \in Wanted(a, p, r) :
        AcquireResident(a, c) \/ AcquireFree(a, c) \/ AcquireEvict(a, c)
  BY DEF Acquire
<1>2. contexts \in [Live -> Entry] /\ stats \in [Gauges -> Int] /\ nextContextId \notin Live
  BY DEF ContextInv, ContextTypeOK
<1>3. CASE AcquireResident(a, c)
  <2>1. c \in Live /\ Grant(contexts, stats, a, c)
    BY <1>3 DEF AcquireResident, Resident
  <2> QED
    BY <1>2, <2>1, GrantCounted DEF GaugesCount
<1>4. CASE AcquireFree(a, c)
  <2>1. CASE Create(contexts, stats, a, Top(freeSequences))
    <3>1. Top(freeSequences) \in SequenceIds
      <4>1. Top(freeSequences) \in {s \in SequenceIds : ~Taken(s)}
        BY <1>4, PopLists DEF AcquireFree, ContextInv, SequencesPooled
      <4> QED
        BY <4>1
    <3> QED
      BY <1>2, <2>1, <3>1, CreateCounted DEF GaugesCount
  <2>2. CASE UNCHANGED <<contexts, lastAccess, nextContextId, stats>>
    BY <2>2, SameCounted DEF Live
  <2> QED
    BY <1>4, <2>1, <2>2 DEF AcquireFree
<1>5. CASE AcquireEvict(a, c)
  BY <1>5, SameCounted DEF AcquireEvict, Live
<1> QED
  BY <1>1, <1>3, <1>4, <1>5

\* Saved keeps the gauges exact.
LEMMA SavedCounted ==
  ASSUME ContextInv, GaugesCount, NEW ok \in BOOLEAN, Saved(ok)
  PROVE  GaugesCount'
<1> DEFINE v == call.victim
<1>1. call.stage = "saving"
  BY DEF Saved
<1>2. v \in Resident /\ call.agent \in Agents /\ nextContextId \notin Live
  BY <1>1 DEF ContextInv, CallSound, ContextTypeOK
<1>3. /\ SwapOut(v) \in [Live -> Entry] /\ SwapOutStats \in [Gauges -> Int]
      /\ contexts[v].sequence \in SequenceIds /\ Counted(SwapOut(v), Live, SwapOutStats)
  BY <1>2, SwapOutFacts, SwapOutCounted
<1>4. CASE Create(SwapOut(v), SwapOutStats, call.agent, contexts[v].sequence)
  BY <1>2, <1>3, <1>4, CreateCounted
<1>5. CASE contexts' = SwapOut(v) /\ stats' = SwapOutStats
  <2>1. Live' = Live
    BY <1>3, <1>5 DEF Live
  <2> QED
    BY <1>3, <1>5, <2>1 DEF GaugesCount
<1>6. CASE UNCHANGED <<contexts, lastAccess, nextContextId, stats>>
  BY <1>6, SameCounted DEF Live
<1> QED
  BY <1>4, <1>5, <1>6 DEF Saved

\* Loaded keeps the gauges exact.
LEMMA LoadedCounted ==
  ASSUME ContextInv, GaugesCount, NEW ok \in BOOLEAN, Loaded(ok)
  PROVE  GaugesCount'
<1> DEFINE c == call.context
           s == call.sequence
<1>1. call.stage = "loading"
  BY DEF Loaded
<1>2. c \in Live \ Resident /\ s \in SequenceIds /\ call.agent \in Agents
  BY <1>1 DEF ContextInv, CallSound
<1>3. CASE ok
  <2>1. Grant(SwapIn(c, s), SwapInStats, call.agent, c)
    BY <1>3 DEF Loaded, SwapIn, SwapInStats
  <2> QED
    BY <1>2, <2>1, SwapInCounted, GrantCounted
<1>4. CASE ~ok
  BY <1>4, SameCounted DEF Loaded, LoadFailed, Live
<1> QED
  BY <1>3, <1>4

\* Finish keeps the gauges exact.
LEMMA FinishCounted ==
  ASSUME ContextInv, GaugesCount, NEW c, Finish(c)
  PROVE  GaugesCount'
<1>1. contexts \in [Live -> Entry] /\ c \in Live /\ contexts[c] \in Entry
  BY DEF Finish, ContextInv, ContextTypeOK
<1>2. /\ DOMAIN contexts' = Live /\ UNCHANGED stats
      /\ \A d \in Live : /\ contexts'[d].owners = contexts[d].owners
                         /\ contexts'[d].sequence = contexts[d].sequence
  BY <1>1 DEF Finish, Entry
<1> QED
  BY <1>2, SameCounted DEF Live

\* Release keeps the gauges exact.
LEMMA ReleaseCounted ==
  ASSUME ContextInv, GaugesCount, NEW a \in Agents, NEW p \in Agents \cup {NoAgent},
         NEW c \in ContextIds, Release(a, p, c)
  PROVE  GaugesCount'
<1> DEFINE r == Releaser(c, a, p)
<1>1. r \in contexts[c].owners /\ c \in Live
  BY DEF Release, MayRelease, Authorized, Releaser, OwnedBy
<1>2. contexts[c] \in Entry
  BY <1>1 DEF ContextInv, ContextTypeOK
<1>3. r \in Agents
  BY <1>1, <1>2 DEF Entry
<1>4. CASE contexts[c].owners = {r}
  BY <1>1, <1>3, <1>4, RemoveCounted DEF Release
<1>5. CASE contexts[c].owners # {r}
  BY <1>1, <1>3, <1>5, ShrinkCounted DEF Release
<1> QED
  BY <1>4, <1>5

\* Every operation keeps the gauges exact.
LEMMA NextCounted ==
  ASSUME ContextInv, GaugesCount, [ContextNext]_contextVars
  PROVE  GaugesCount'
<1>1. CASE UNCHANGED contextVars
  BY <1>1, SameCounted DEF contextVars, Live
<1> QED
  BY <1>1, AcquireCounted, SavedCounted, LoadedCounted, FinishCounted, ReleaseCounted
  DEF ContextNext

\* The gauges of an empty manager are zero.
LEMMA InitiallyCounted == ContextInit => GaugesCount
<1> SUFFICES ASSUME ContextInit PROVE GaugesCount
  OBVIOUS
<1>1. Live = {}
  BY DEF ContextInit, Live
<1>2. OwnershipsOf(contexts, Live) = {} /\ ResidentOf(contexts, Live) = {} /\ Live \ ResidentOf(contexts, Live) = {}
  BY <1>1 DEF OwnershipsOf, ResidentOf
<1>3. \A g \in Gauges : stats[g] = 0
  BY DEF ContextInit
<1> QED
  BY <1>1, <1>2, <1>3, FS_EmptySet DEF GaugesCount, Counted, Gauges

(* The gauges that context_manager.cpp moves up and down on seven paths    *)
(* are the sizes they report, so that none of the unsigned counters passes *)
(* below zero.                                                             *)
THEOREM GaugesAreExact == ContextSpec => []StatsExact
<1>1. ContextInit => ContextInv /\ GaugesCount
  BY InitiallySound, InitiallyCounted
<1>2. ContextInv /\ GaugesCount /\ [ContextNext]_contextVars => ContextInv' /\ GaugesCount'
  BY NextSound, NextCounted
<1>3. GaugesCount => StatsExact
  BY GaugesCountExactly
<1> QED
  BY <1>1, <1>2, <1>3, PTL DEF ContextSpec
=============================================================================
