--------------------------- MODULE ContextManager ---------------------------
(***************************************************************************)
(* The contexts of agent_runtime_top (src/context_manager.cpp).            *)
(*                                                                         *)
(* A context is a conversation with the model.  It has owners, it is       *)
(* pinned while a request uses it, and it is resident while it has one of  *)
(* the MaxResident sequences of the engine.  There may be MaxLogical       *)
(* contexts: when no sequence is free, the least recently used context     *)
(* that is resident and not pinned is saved and gives up its sequence.     *)
(*                                                                         *)
(* The class is a monitor: every operation holds mutex_.  acquire calls    *)
(* back to save one context and to load another, and what the callbacks do *)
(* is visible outside, so acquire is split there: `call' is the acquire    *)
(* that holds the mutex and waits for its callback.                        *)
(***************************************************************************)
EXTENDS UseOrder, FiniteSets

CONSTANTS
  Agents,         \* agents that may own contexts (agent ids other than 0)
  NoAgent,        \* agent id 0: no parent
  MaxResident,    \* max_resident_contexts_
  MaxLogical,     \* max_logical_contexts_
  MaxContextId,   \* bound on the ids given out by next_context_id_
  MaxPins,        \* bound on the requests that use one context
  SwapEnabled     \* acquire is given callbacks

ASSUME ContextAssumption ==
  /\ MaxResident \in Nat \ {0}
  /\ MaxLogical \in Nat /\ MaxLogical >= MaxResident
  /\ MaxContextId \in Nat
  /\ MaxPins \in Nat \ {0}
  /\ SwapEnabled \in BOOLEAN
  /\ NoAgent \notin Agents

VARIABLES
  contexts,        \* contexts_: entry of each context there is
  freeSequences,   \* free_sequences_: a stack, its top is the last element
  lastAccess,      \* the contexts in the order of last_access, oldest first
  nextContextId,   \* next_context_id_
  stats,           \* the gauges of stats_
  call             \* the acquire that waits for a callback

contextVars ==
  <<contexts, freeSequences, lastAccess, nextContextId, stats, call>>

----------------------------------------------------------------------------
ContextIds == 1 .. MaxContextId
SequenceIds == 1 .. MaxResident
NewContext == 0      \* requested_context 0, and the target of a new context
NoSequence == -1

Entry == [sequence : SequenceIds \cup {NoSequence}, pins : 0 .. MaxPins,
          owners : SUBSET Agents]
Gauges == {"contexts", "owners", "resident", "swapped"}

Live == DOMAIN contexts
Resident == {c \in Live : contexts[c].sequence # NoSequence}

Idle == [stage |-> "idle", agent |-> NoAgent, context |-> NewContext,
         victim |-> NewContext, sequence |-> NoSequence]

Call == [stage : {"idle", "saving", "loading"}, agent : Agents \cup {NoAgent},
         context : ContextIds \cup {NewContext},
         victim : ContextIds \cup {NewContext},
         sequence : SequenceIds \cup {NoSequence}]

OwnedBy(a) == {c \in Live : a \in contexts[c].owners}

(* An agent may use a context that it owns or that its parent owns.        *)
Authorized(c, a, p) == c \in OwnedBy(a) \/ c \in OwnedBy(p)

(* free_sequences_ is used as a stack.                                     *)
Top(stack) == stack[Len(stack)]
Pop(stack) == SubSeq(stack, 1, Len(stack) - 1)

(* The least recently used context that is resident and not pinned.        *)
Evictable(excluded) ==
  {c \in Resident : contexts[c].pins = 0 /\ c # excluded}

Victims(excluded) ==
  {c \in Evictable(excluded) :
     \A d \in Evictable(excluded) : Position(lastAccess, c) <= Position(lastAccess, d)}

----------------------------------------------------------------------------
ContextInit ==
  /\ contexts = [c \in {} |-> c]
  /\ freeSequences = [i \in SequenceIds |-> MaxResident + 1 - i]
  /\ lastAccess = <<>>
  /\ nextContextId = 1
  /\ stats = [g \in Gauges |-> 0]
  /\ call = Idle

(* How acquire ends when it succeeds.  `table' and `gauges' are the entries *)
(* and the statistics with what this acquire has swapped so far.           *)
Grant(table, gauges, a, c) ==
  /\ contexts' = [table EXCEPT ![c].owners = @ \cup {a}, ![c].pins = @ + 1]
  /\ lastAccess' = Touch(lastAccess, c)
  /\ stats' = IF a \in table[c].owners THEN gauges
              ELSE [gauges EXCEPT !["owners"] = @ + 1]
  /\ UNCHANGED nextContextId

Create(table, gauges, a, s) ==
  /\ contexts' = [c \in DOMAIN table \cup {nextContextId} |->
                    IF c = nextContextId
                      THEN [sequence |-> s, pins |-> 1, owners |-> {a}]
                      ELSE table[c]]
  /\ lastAccess' = Append(lastAccess, nextContextId)
  /\ nextContextId' = nextContextId + 1
  /\ stats' = [gauges EXCEPT !["contexts"] = @ + 1, !["owners"] = @ + 1,
                             !["resident"] = @ + 1]

(* The contexts acquire may settle on: the requested one if the agent may  *)
(* use it, otherwise one it owns already (the map is searched in no        *)
(* particular order), otherwise a new one.                                 *)
Wanted(a, p, requested) ==
  CASE requested # NewContext ->
         {c \in Live : c = requested /\ Authorized(c, a, p)}
    [] requested = NewContext /\ OwnedBy(a) # {} -> OwnedBy(a)
    [] OTHER ->
         IF Cardinality(Live) < MaxLogical /\ nextContextId <= MaxContextId
           THEN {NewContext}
           ELSE {}

(* The context is resident.                                                *)
AcquireResident(a, c) ==
  /\ c \in Resident
  /\ contexts[c].pins < MaxPins
  /\ Grant(contexts, stats, a, c)
  /\ UNCHANGED <<freeSequences, call>>

(* A sequence is free: a new context is made on it, a swapped one has to be *)
(* loaded first.                                                           *)
Load(a, c, s) ==
  call' = [stage |-> "loading", agent |-> a, context |-> c,
           victim |-> NewContext, sequence |-> s]

AcquireFree(a, c) ==
  /\ c \notin Resident
  /\ freeSequences # <<>>
  /\ freeSequences' = Pop(freeSequences)
  /\ \/ /\ c = NewContext
        /\ Create(contexts, stats, a, Top(freeSequences))
        /\ UNCHANGED call
     \/ /\ c # NewContext
        /\ Load(a, c, Top(freeSequences))
        /\ UNCHANGED <<contexts, lastAccess, nextContextId, stats>>

(* No sequence is free: another context has to be saved first.             *)
AcquireEvict(a, c) ==
  /\ c \notin Resident
  /\ freeSequences = <<>>
  /\ SwapEnabled
  /\ \E v \in Victims(c) :
       call' = [stage |-> "saving", agent |-> a, context |-> c,
                victim |-> v, sequence |-> NoSequence]
  /\ UNCHANGED <<contexts, freeSequences, lastAccess, nextContextId, stats>>

Acquire(a, p, requested) ==
  /\ call = Idle
  /\ \E c \in Wanted(a, p, requested) :
       AcquireResident(a, c) \/ AcquireFree(a, c) \/ AcquireEvict(a, c)

(* The save callback returns.  If it succeeded the victim gives up its     *)
(* sequence.                                                               *)
SwapOut(v) == [contexts EXCEPT ![v].sequence = NoSequence]
SwapOutStats == [stats EXCEPT !["resident"] = @ - 1, !["swapped"] = @ + 1]

Saved(ok) ==
  LET c == call.context
      v == call.victim
      s == contexts[v].sequence
  IN /\ call.stage = "saving"
     /\ \/ /\ ok
           /\ c = NewContext
           /\ Create(SwapOut(v), SwapOutStats, call.agent, s)
           /\ call' = Idle
        \/ /\ ok
           /\ c # NewContext
           /\ contexts' = SwapOut(v)
           /\ stats' = SwapOutStats
           /\ Load(call.agent, c, s)
           /\ UNCHANGED <<lastAccess, nextContextId>>
        \/ /\ ~ok
           /\ call' = Idle
           /\ UNCHANGED <<contexts, lastAccess, nextContextId, stats>>
     /\ UNCHANGED freeSequences

(* The load callback returns.  If it failed the sequence is free again.    *)
LoadFailedForgets ==
  UNCHANGED <<freeSequences, contexts, lastAccess, nextContextId, stats>>

LoadFailed ==
  /\ freeSequences' = Append(freeSequences, call.sequence)
  /\ UNCHANGED <<contexts, lastAccess, nextContextId, stats>>

Loaded(ok) ==
  LET c == call.context
  IN /\ call.stage = "loading"
     /\ \/ /\ ok
           /\ Grant([contexts EXCEPT ![c].sequence = call.sequence],
                    [stats EXCEPT !["resident"] = @ + 1, !["swapped"] = @ - 1],
                    call.agent, c)
           /\ UNCHANGED freeSequences
        \/ ~ok /\ LoadFailed
     /\ call' = Idle

(* The request that acquired the context no longer uses it.                *)
Finish(c) ==
  /\ call = Idle
  /\ c \in Live
  /\ contexts[c].pins > 0
  /\ contexts' = [contexts EXCEPT ![c].pins = @ - 1]
  /\ lastAccess' = Touch(lastAccess, c)
  /\ UNCHANGED <<freeSequences, nextContextId, stats, call>>

(* An agent, or else its parent, gives up a context; the last owner takes  *)
(* the context with it.                                                    *)
Releaser(c, a, p) == IF c \in OwnedBy(a) THEN a ELSE p

MayReleasePinned(c, a, p) == Authorized(c, a, p)

MayRelease(c, a, p) ==
  /\ Authorized(c, a, p)
  /\ Cardinality(contexts[c].owners) = 1 => contexts[c].pins = 0

ShrinkUncounted(c, a) ==
  /\ contexts' = [contexts EXCEPT ![c].owners = @ \ {a}]
  /\ lastAccess' = Touch(lastAccess, c)
  /\ UNCHANGED <<freeSequences, stats>>

Disown == [stats EXCEPT !["owners"] = IF @ > 0 THEN @ - 1 ELSE @]

Shrink(c, a) ==
  /\ contexts' = [contexts EXCEPT ![c].owners = @ \ {a}]
  /\ lastAccess' = Touch(lastAccess, c)
  /\ stats' = Disown
  /\ UNCHANGED freeSequences

Remove(c) ==
  /\ contexts' = [d \in Live \ {c} |-> contexts[d]]
  /\ lastAccess' = Drop(lastAccess, c)
  /\ \/ /\ c \in Resident
        /\ freeSequences' = Append(freeSequences, contexts[c].sequence)
        /\ stats' = [Disown EXCEPT !["contexts"] = @ - 1, !["resident"] = @ - 1]
     \/ /\ c \notin Resident
        /\ stats' = [Disown EXCEPT !["contexts"] = @ - 1, !["swapped"] = @ - 1]
        /\ UNCHANGED freeSequences

Release(a, p, c) ==
  /\ call = Idle
  /\ c \in Live
  /\ MayRelease(c, a, p)
  /\ IF contexts[c].owners = {Releaser(c, a, p)}
       THEN Remove(c)
       ELSE Shrink(c, Releaser(c, a, p))
  /\ UNCHANGED <<nextContextId, call>>

----------------------------------------------------------------------------
ContextNext ==
  \/ \E a \in Agents, p \in Agents \cup {NoAgent}, r \in ContextIds \cup {NewContext} :
       Acquire(a, p, r)
  \/ \E ok \in BOOLEAN : Saved(ok)
  \/ \E ok \in BOOLEAN : Loaded(ok)
  \/ \E c \in ContextIds : Finish(c)
  \/ \E a \in Agents, p \in Agents \cup {NoAgent}, c \in ContextIds :
       Release(a, p, c)

ContextSpec == ContextInit /\ [][ContextNext]_contextVars

----------------------------------------------------------------------------
ContextTypeOK ==
  /\ Live \subseteq 1 .. nextContextId - 1
  /\ contexts \in [Live -> Entry]
  /\ freeSequences \in Seq(SequenceIds)
  /\ lastAccess \in Seq(ContextIds)
  /\ nextContextId \in 1 .. MaxContextId + 1
  /\ stats \in [Gauges -> Int]
  /\ call \in Call

InHand(s) == call.stage = "loading" /\ call.sequence = s
IsFree(s) == \E i \in DOMAIN freeSequences : freeSequences[i] = s
InUse(s) == \E c \in Resident : contexts[c].sequence = s

(* No sequence is ever used by two contexts, or free and used, or twice on *)
(* the stack: two conversations would share one cache.                     *)
NoSequenceTwice ==
  /\ \A i, j \in DOMAIN freeSequences :
       freeSequences[i] = freeSequences[j] => i = j
  /\ \A c, d \in Resident : contexts[c].sequence = contexts[d].sequence => c = d
  /\ \A s \in SequenceIds :
       /\ ~(IsFree(s) /\ InUse(s))
       /\ InHand(s) => ~IsFree(s) /\ ~InUse(s)

(* No sequence is ever lost, whichever callback fails: the pool would      *)
(* shrink until the service refuses every request.                         *)
NoSequenceLost ==
  \A s \in SequenceIds : IsFree(s) \/ InUse(s) \/ InHand(s)

(* The gauges that the service reports, which are kept by increments and   *)
(* decrements of unsigned counters on seven paths, agree with the table.   *)
Ownerships == {x \in Live \X Agents : x[2] \in contexts[x[1]].owners}

StatsExact ==
  /\ stats["contexts"] = Cardinality(Live)
  /\ stats["owners"] = Cardinality(Ownerships)
  /\ stats["resident"] = Cardinality(Resident)
  /\ stats["swapped"] = Cardinality(Live \ Resident)

(* While a request uses a context, no other request can swap it out, move  *)
(* it or remove it (docs/architecture.md:63: "A pinned context cannot be   *)
(* selected for swap or be finally released").                             *)
PinnedStays ==
  [][\A c \in Live : contexts[c].pins > 0 =>
       c \in Live' /\ contexts'[c].sequence = contexts[c].sequence]_contextVars

(* Every context can be released and evicted: it has an owner as long as   *)
(* it exists, and the order of use lists it exactly once.                  *)
Reachable ==
  /\ \A c \in Live : contexts[c].owners # {}
  /\ Lists(lastAccess, Live)

(* What every other part of the service takes for granted: a sequence is   *)
(* in exactly one place, and every context can be found and given up.      *)
ContextsSound == NoSequenceTwice /\ NoSequenceLost /\ Reachable

(* The stack lists exactly the sequences that nobody has taken.            *)
Taken(s) == InUse(s) \/ InHand(s)

SequencesPooled ==
  /\ Lists(freeSequences, {s \in SequenceIds : ~Taken(s)})
  /\ \A c, d \in Resident : contexts[c].sequence = contexts[d].sequence => c = d
  /\ \A s \in SequenceIds : ~(InUse(s) /\ InHand(s))

(* Only a context that is resident can be pinned; the context to be saved  *)
(* is resident and not pinned, the one to be loaded is swapped.            *)
CallSound ==
  /\ \A c \in Live : contexts[c].pins > 0 => c \in Resident
  /\ call.stage = "idle" => call = Idle
  /\ call.stage # "idle" =>
       /\ call.agent \in Agents
       /\ call.context # NewContext => call.context \in Live \ Resident
       /\ call.context = NewContext => nextContextId <= MaxContextId
  /\ call.stage = "saving" =>
       call.victim \in Resident /\ contexts[call.victim].pins = 0
  /\ call.stage = "loading" =>
       call.context # NewContext /\ call.sequence \in SequenceIds

(* The inductive invariant.                                                *)
ContextInv ==
  ContextTypeOK /\ SequencesPooled /\ Reachable /\ CallSound
=============================================================================
