-------------------------- MODULE TopRuntimeProofs --------------------------
(***************************************************************************)
(* Proofs about TopRuntime: whatever its threads do, the model service     *)
(* uses the ContextManager as its protocol demands, so that everything     *)
(* proved of the ContextManager holds of the service.                      *)
(*                                                                         *)
(* Then ServiceInv, relative to ContextInv: first what steps do to single  *)
(* variables and to the parts of the invariant, then one lemma per action. *)
(* ContextsBegun, relative to both, holds for any number of threads.       *)
(*                                                                         *)
(* Last HistoryInv, relative to both, for a service with one thread whose  *)
(* engine can always take back a failed turn.                              *)
(***************************************************************************)
EXTENDS TopRuntime, ContextManagerProofs

(* A generate request keeps the agent and the parent it came with.         *)
Requests ==
  /\ DOMAIN thread = Threads
  /\ \A t \in Threads : thread[t].pc \in {"callback", "infer", "unpin", "settle"} =>
       thread[t].agent \in Agents /\ thread[t].parent \in Parents

(* The request of thread t is replaced, the others stay.                   *)
LEMMA RequestReplaced ==
  ASSUME Requests, NEW t \in Threads, NEW r,
         thread' = [thread EXCEPT ![t] = r],
         r.pc \in {"callback", "infer", "unpin", "settle"} =>
           r.agent \in Agents /\ r.parent \in Parents
  PROVE  Requests'
BY DEF Requests

(* Steps after which the request of thread t is over.                      *)
LEMMA ReturnKeeps ==
  ASSUME Requests, NEW t \in Threads, Return(t)
  PROVE  Requests'
BY RequestReplaced DEF Return, NoRequest

(* Steps that only move thread t.                                          *)
LEMMA GotoKeeps ==
  ASSUME Requests, NEW t \in Threads, NEW pc,
         pc \in {"callback", "infer", "unpin", "settle"} =>
           thread[t].pc \in {"callback", "infer", "unpin", "settle"},
         Goto(t, pc)
  PROVE  Requests'
BY DEF Goto, Requests

\* Agent and parent of a request stay those it came with.
LEMMA LeaseKeeps ==
  ASSUME Requests, NEW t \in Threads, NEW a \in Agents, NEW p \in Parents,
         NEW c, NEW s, NEW created, Lease(t, a, p, c, s, created)
  PROVE  Requests'
BY DEF Lease, Requests

----------------------------------------------------------------------------
(* generate is an acquire.                                                 *)
LEMMA GenerateAcquires ==
  ASSUME Requests, NEW t \in Threads, NEW a \in Agents, NEW p \in Parents,
         NEW r \in ContextIds \cup {NewContext}, Generate(t, a, p, r)
  PROVE  ContextNext /\ Requests'
<1>1. Acquire(a, p, r)
  BY DEF Generate, Acquire
<1>2. Requests'
  <2>1. CASE \E c, s, created : Lease(t, a, p, c, s, created)
    BY <2>1, LeaseKeeps
  <2>2. CASE thread' = [thread EXCEPT ![t] =
               [NoRequest EXCEPT !.pc = "callback", !.agent = a, !.parent = p]]
    BY <2>2 DEF Requests, NoRequest
  <2> QED
    BY <2>1, <2>2 DEF Generate
<1> QED
  BY <1>1, <1>2 DEF ContextNext, Parents

(* Every step of a request returns a callback, finishes or releases a      *)
(* context, or is none of the manager's business.                          *)
LEMMA RequestStepKeeps ==
  ASSUME Requests, ContextInv, NEW t \in Threads, RequestStep(t)
  PROVE  [ContextNext]_contextVars /\ Requests'
<1>1. /\ thread[t].pc \in {"callback", "infer", "unpin", "settle"} =>
           thread[t].agent \in Agents /\ thread[t].parent \in Parents
      /\ DOMAIN thread = Threads
  BY DEF Requests
<1>2. Live \subseteq ContextIds
  BY ContextAssumption DEF ContextInv, ContextTypeOK, ContextIds
<1>3. CASE SwapOutContext(t)
  <2>1. Saved(TRUE)
    BY <1>3 DEF SwapOutContext
  <2>2. thread[t].agent \in Agents /\ thread[t].parent \in Parents
    BY <1>1, <1>3 DEF SwapOutContext, At
  <2>3. CASE call.context = NewContext
    BY <1>3, <2>1, <2>2, <2>3, LeaseKeeps DEF SwapOutContext, ContextNext
  <2>4. CASE call.context # NewContext
    BY <1>3, <2>1, <2>4 DEF SwapOutContext, ContextNext, Requests
  <2> QED
    BY <2>3, <2>4
<1>4. CASE SwapOutFails(t)
  BY <1>4, ReturnKeeps DEF SwapOutFails, ContextNext
<1>5. CASE SwapInContext(t)
  <2>1. Loaded(TRUE)
    BY <1>5 DEF SwapInContext
  <2>2. thread[t].agent \in Agents /\ thread[t].parent \in Parents
    BY <1>1, <1>5 DEF SwapInContext, At
  <2> QED
    BY <1>5, <2>1, <2>2, LeaseKeeps DEF SwapInContext, ContextNext
<1>6. CASE SwapInFails(t)
  BY <1>6, ReturnKeeps DEF SwapInFails, ContextNext
<1>7. CASE Infer(t)
  <2>1. thread' = [thread EXCEPT ![t].pc = "unpin", ![t].ok = TRUE] /\ At(t, "infer")
    BY <1>7 DEF Infer
  <2>2. Requests'
    BY <1>1, <2>1 DEF Requests, At
  <2> QED
    BY <1>7, <2>2 DEF Infer
<1>8. CASE InferFails(t)
  BY <1>8, GotoKeeps DEF InferFails, At
<1>9. CASE Unpin(t)
  <2>1. Finish(thread[t].context) /\ thread[t].context \in ContextIds
    BY <1>2, <1>9 DEF Unpin, Finish
  <2>2. Requests'
    BY <1>9, GotoKeeps DEF Unpin, At
  <2> QED
    BY <2>1, <2>2 DEF ContextNext
<1>10. CASE Settle(t)
  BY <1>10, ReturnKeeps DEF Settle
<1>11. CASE Abandon(t)
  <2> DEFINE r == thread[t]
  <2>1. r.agent \in Agents /\ r.parent \in Parents
    BY <1>1, <1>11 DEF Abandon, At
  <2>2. CASE Release(r.agent, r.parent, r.context) /\ Goto(t, "clear")
    <3>1. r.context \in ContextIds
      BY <1>2, <2>2 DEF Release
    <3>2. ContextNext
      BY <2>1, <2>2, <3>1 DEF ContextNext, Parents
    <3>3. Requests'
      BY <2>2, GotoKeeps
    <3> QED
      BY <3>2, <3>3
  <2>3. CASE Return(t) /\ UNCHANGED contextVars
    BY <2>3, ReturnKeeps
  <2> QED
    BY <1>11, <2>2, <2>3 DEF Abandon
<1>12. CASE ClearSequence(t)
  BY <1>12, ReturnKeeps, GotoKeeps DEF ClearSequence
<1>13. CASE RemoveSnapshot(t)
  BY <1>13, GotoKeeps DEF RemoveSnapshot
<1>14. CASE EraseConversation(t)
  BY <1>14, ReturnKeeps DEF EraseConversation
<1> QED
  BY <1>3, <1>4, <1>5, <1>6, <1>7, <1>8, <1>9, <1>10, <1>11, <1>12, <1>13, <1>14
  DEF RequestStep

(* release_context is a release.                                           *)
LEMMA ReleaseContextReleases ==
  ASSUME Requests, NEW t \in Threads, NEW a \in Agents, NEW p \in Parents,
         NEW c \in ContextIds, ReleaseContext(t, a, p, c)
  PROVE  ContextNext /\ Requests'
<1>1. ContextNext
  BY DEF ReleaseContext, ContextNext, Parents
<1>2. CASE UNCHANGED thread
  BY <1>1, <1>2 DEF Requests
<1>3. CASE thread' = [thread EXCEPT ![t] =
             [NoRequest EXCEPT
                !.pc = IF c \in Resident THEN "clear" ELSE "drop",
                !.context = c, !.sequence = contexts[c].sequence]]
  BY <1>1, <1>3 DEF Requests, NoRequest
<1> QED
  BY <1>2, <1>3 DEF ReleaseContext

\* The same of every step of the service.
LEMMA TopStepKeeps ==
  ASSUME Requests, ContextInv, [TopNext]_topVars
  PROVE  [ContextNext]_contextVars /\ Requests'
<1>1. CASE Shutdown
  BY <1>1 DEF Shutdown, Requests
<1>2. CASE UNCHANGED topVars
  BY <1>2 DEF topVars, serviceVars, Requests
<1> QED
  BY <1>1, <1>2, GenerateAcquires, ReleaseContextReleases, RequestStepKeeps
  DEF TopNext

(* Every behaviour of the service is one of context_manager.cpp.           *)
LEMMA ServiceKeepsProtocol == TopSpec => ContextSpec
<1>1. TopInit => ContextInit /\ Requests /\ ContextInv
  BY InitiallySound DEF TopInit, Requests, NoRequest
<1>2. Requests /\ ContextInv /\ [TopNext]_topVars
        => [ContextNext]_contextVars /\ Requests' /\ ContextInv'
  BY TopStepKeeps, NextSound
<1> QED
  BY <1>1, <1>2, PTL DEF TopSpec, ContextSpec

(* While a request of the service generates on a context, no request of    *)
(* another thread swaps that context out or removes it.                    *)
THEOREM ServicePinsHold == TopSpec => PinnedStays
BY ServiceKeepsProtocol, PinnedContextsStay, PTL

(* Inside the service, with any number of threads, no sequence is shared   *)
(* between contexts or lost, and every context can be found and released.  *)
THEOREM ServiceSequences == TopSpec => []ContextsSound
BY ServiceKeepsProtocol, ContextsAreSound, PTL

(* The gauges the service reports are the sizes of its pool.               *)
THEOREM ServiceGauges == TopSpec => []StatsExact
BY ServiceKeepsProtocol, GaugesAreExact, PTL
----------------------------------------------------------------------------
(* ServiceInv: what the steps of a thread do to the variables of the       *)
(* service.                                                                *)

(* The request of thread t becomes r, the others stay.                     *)
Moved(t, r) ==
  /\ thread' \in [Threads -> Request]
  /\ thread'[t] = r
  /\ \A u \in Threads : u # t => thread'[u] = thread[u]

\* One thread moves.
LEMMA ThreadMoves ==
  ASSUME thread \in [Threads -> Request], NEW t \in Threads, NEW r \in Request,
         thread' = [thread EXCEPT ![t] = r]
  PROVE  Moved(t, r)
BY DEF Moved

\* A request returns.
LEMMA ReturnMoves ==
  ASSUME thread \in [Threads -> Request], NEW t \in Threads, Return(t)
  PROVE  Moved(t, NoRequest)
<1>1. NoRequest \in Request
  BY DEF NoRequest, Request
<1> QED
  BY <1>1, ThreadMoves DEF Return

\* A request goes on, with the same lease.
LEMMA GotoMoves ==
  ASSUME thread \in [Threads -> Request], NEW t \in Threads,
         NEW pc \in {"unpin", "settle", "clear", "drop", "forget"}, Goto(t, pc)
  PROVE  /\ Moved(t, thread'[t]) /\ thread'[t].pc = pc
         /\ thread'[t].agent = thread[t].agent /\ thread'[t].parent = thread[t].parent
         /\ thread'[t].context = thread[t].context /\ thread'[t].sequence = thread[t].sequence
         /\ thread'[t].created = thread[t].created /\ thread'[t].ok = thread[t].ok
<1> DEFINE r == [thread[t] EXCEPT !.pc = pc]
<1>1. thread[t] \in Request
  OBVIOUS
<1>2. r \in Request
  BY <1>1 DEF Request
<1>3. thread' = [thread EXCEPT ![t] = r]
  BY DEF Goto
<1>4. Moved(t, r)
  BY <1>2, <1>3, ThreadMoves
<1>5. /\ r.pc = pc /\ r.agent = thread[t].agent /\ r.parent = thread[t].parent
      /\ r.context = thread[t].context /\ r.sequence = thread[t].sequence
      /\ r.created = thread[t].created /\ r.ok = thread[t].ok
  BY <1>1 DEF Request
<1>6. thread'[t] = r
  BY <1>4 DEF Moved
<1> QED
  BY <1>4, <1>5, <1>6

\* A request gets a lease.
LEMMA LeaseMoves ==
  ASSUME thread \in [Threads -> Request], NEW t \in Threads, NEW a \in Agents, NEW p \in Parents,
         NEW c \in ContextIds, NEW s \in SequenceIds, NEW created \in BOOLEAN,
         Lease(t, a, p, c, s, created)
  PROVE  Moved(t, [pc |-> "infer", agent |-> a, parent |-> p, context |-> c,
                   sequence |-> s, created |-> created, ok |-> FALSE])
<1> DEFINE r == [pc |-> "infer", agent |-> a, parent |-> p, context |-> c,
                 sequence |-> s, created |-> created, ok |-> FALSE]
<1>1. r \in Request
  BY DEF Request, Parents
<1>2. thread' = [thread EXCEPT ![t] = r]
  BY DEF Lease
<1> HIDE DEF r
<1>3. Moved(t, r)
  BY <1>1, <1>2, ThreadMoves
<1> QED
  BY <1>3 DEF r

\* A table without one of its entries.
LEMMA WithoutIs ==
  ASSUME NEW f, NEW c, NEW T, f \in [DOMAIN f -> T]
  PROVE  /\ DOMAIN Without(f, c) = DOMAIN f \ {c}
         /\ Without(f, c) \in [DOMAIN f \ {c} -> T]
         /\ \A d \in DOMAIN f \ {c} : Without(f, c)[d] = f[d]
BY DEF Without

(* The cache of sequence s becomes x, the others stay.                     *)
LEMMA CacheSet ==
  ASSUME kv \in [SequenceIds -> Seq(ContextIds)], NEW s \in SequenceIds, NEW x \in Seq(ContextIds),
         kv' = [kv EXCEPT ![s] = x]
  PROVE  /\ kv' \in [SequenceIds -> Seq(ContextIds)] /\ kv'[s] = x
         /\ \A r \in SequenceIds : r # s => kv'[r] = kv[r]
OBVIOUS

(* TopTypeOK, once ContextTypeOK is known.                                 *)
ServiceTypeOK ==
  /\ thread \in [Threads -> Request]
  /\ conversation \in Threads \cup {NoThread}
  /\ DOMAIN conversations \subseteq ContextIds
  /\ conversations \in [DOMAIN conversations -> 0 .. MaxTurns]
  /\ kv \in [SequenceIds -> Seq(ContextIds)]
  /\ DOMAIN snapshots \subseteq ContextIds
  /\ snapshots \in [DOMAIN snapshots -> Seq(ContextIds)]
  /\ initialized \in BOOLEAN

----------------------------------------------------------------------------
(* conversation_mutex_ has one holder.                                     *)
LEMMA HolderAlone ==
  ASSUME MutexExact, NEW t \in Threads, Holds(t)
  PROVE  conversation = t /\ \A u \in Threads : u # t => ~Holds(u)
BY DEF MutexExact

\* A mutex that is free has no holder.
LEMMA NobodyHolds ==
  ASSUME MutexExact, conversation = NoThread
  PROVE  \A u \in Threads : ~Holds(u)
BY TopAssumption DEF MutexExact

\* A thread that locks the free mutex is its holder.
LEMMA MutexTaken ==
  ASSUME MutexExact, conversation = NoThread, NEW t \in Threads, conversation' = t,
         Moved(t, thread'[t]), Holds(t)'
  PROVE  MutexExact'
<1>1. \A u \in Threads : u # t => ~Holds(u)'
  BY NobodyHolds DEF Moved, Holds
<1> QED
  BY <1>1 DEF MutexExact

\* A thread that keeps what it has leaves the holder alone.
LEMMA MutexKept ==
  ASSUME MutexExact, NEW t \in Threads, conversation' = conversation,
         Moved(t, thread'[t]), Holds(t)' <=> Holds(t)
  PROVE  MutexExact'
<1>1. \A u \in Threads : Holds(u)' <=> Holds(u)
  BY DEF Moved, Holds
<1> QED
  BY <1>1 DEF MutexExact

\* A holder that unlocks leaves the mutex free.
LEMMA MutexFreed ==
  ASSUME MutexExact, NEW t \in Threads, Holds(t), conversation' = NoThread,
         Moved(t, thread'[t]), ~Holds(t)'
  PROVE  MutexExact'
<1>1. \A u \in Threads : ~Holds(u)'
  BY HolderAlone DEF Moved, Holds
<1> QED
  BY <1>1, TopAssumption DEF MutexExact

----------------------------------------------------------------------------
(* A thread that does not hold the mutex has no lease.                     *)
LEMMA NoLeaseOutside ==
  ASSUME NEW u \in Threads, LeaseExact(u), ~Holds(u)
  PROVE  ~thread[u].created /\ ~thread[u].ok /\ thread[u].pc \notin Holding
BY DEF LeaseExact, Holds, Holding, Leased

\* What one thread does leaves the leases of those that leave alone.
LEMMA OthersLease ==
  ASSUME NEW u \in Threads, LeaseExact(u), ~Holds(u), thread'[u] = thread[u],
         nextContextId \in Nat, nextContextId' \in Nat, nextContextId <= nextContextId',
         Live' \subseteq Live \cup {nextContextId}
  PROVE  LeaseExact(u)'
<1>1. /\ ~thread[u].created /\ ~thread[u].ok /\ thread[u].pc \notin Holding
      /\ thread[u].pc \in Leaving => thread[u].context \in (1 .. nextContextId - 1) \ Live
      /\ thread[u].pc = "clear" => thread[u].sequence \in SequenceIds
  BY NoLeaseOutside DEF LeaseExact
<1>2. thread[u].pc \in Leaving => thread[u].context \in (1 .. nextContextId' - 1) \ Live'
  BY <1>1
<1> QED
  BY <1>1, <1>2 DEF LeaseExact, Holding, Leased, SequenceIds

(* Steps of the holder, and steps while nobody holds the mutex.            *)
LEMMA LeasesInside ==
  ASSUME MutexExact, \A u \in Threads : LeaseExact(u), NEW t \in Threads,
         conversation \in {t, NoThread}, Moved(t, thread'[t]), LeaseExact(t)',
         nextContextId \in Nat, nextContextId' \in Nat, nextContextId <= nextContextId',
         Live' \subseteq Live \cup {nextContextId}
  PROVE  \A u \in Threads : LeaseExact(u)'
<1>1. \A u \in Threads : u # t => ~Holds(u)
  BY TopAssumption DEF MutexExact
<1>2. \A u \in Threads : u # t => LeaseExact(u)'
  BY <1>1, OthersLease DEF Moved
<1> QED
  BY <1>2

(* Steps of release_context beside the holder: what it works on stays, or  *)
(* is released while it is not pinned.                                     *)
LEMMA LeasesBeside ==
  ASSUME \A u \in Threads : LeaseExact(u), NEW t \in Threads,
         Moved(t, thread'[t]), LeaseExact(t)',
         nextContextId' = nextContextId, call' = call, conversations' = conversations,
         DOMAIN snapshots' \subseteq DOMAIN snapshots,
         Live' \subseteq Live,
         \A c \in Live' : contexts'[c].sequence = contexts[c].sequence,
         \A c \in Live \ Live' : ~Using(c) /\ Dropped(c, Leaving)',
         \A c : Dropped(c, Leaving) => Dropped(c, Leaving)',
         \A u \in Threads : \A c \in Live' :
           u # t /\ contexts[c].owners = {thread[u].agent} => contexts'[c].owners = contexts[c].owners
  PROVE  \A u \in Threads : LeaseExact(u)'
<1> SUFFICES ASSUME NEW u \in Threads, u # t, NEW r, r = thread[u], NEW x, x = r.context
             PROVE  LeaseExact(u)'
  OBVIOUS
<1>1. thread'[u] = r
  BY DEF Moved
<1>2. \A c : Turns(c)' = Turns(c)
  BY DEF Turns
<1>3. r.pc \in {"infer", "unpin"} => x \in Live'
  BY DEF LeaseExact, Using
<1>4. r.pc \in Leased => x \in Live' \/ Dropped(x, Leaving)'
  BY DEF LeaseExact
<1>5. r.pc \in Leased /\ x \in Live' => contexts'[x].sequence = r.sequence
  BY DEF LeaseExact
<1>6. r.created /\ r.pc \in Leased =>
        /\ x \notin DOMAIN snapshots' \cup DOMAIN conversations'
        /\ x \in Live' => contexts'[x].owners = {r.agent}
  BY DEF LeaseExact
<1>7. r.pc \in Leaving => x \in (1 .. nextContextId' - 1) \ Live'
  BY DEF LeaseExact
<1>8. /\ r.created => r.pc \in Leased \cup {"clear"}
      /\ r.pc = "callback" => call'.agent = r.agent
      /\ r.pc = "clear" => r.sequence \in SequenceIds
      /\ r.pc \in Leased => x \in 1 .. nextContextId' - 1 /\ r.sequence \in SequenceIds
  BY DEF LeaseExact
<1>9. r.ok => /\ r.pc \in {"unpin", "settle"}
              /\ IF r.created THEN MaxTurns > 0 ELSE Turns(x)' < MaxTurns
  BY <1>2 DEF LeaseExact
<1> QED
  BY <1>1, <1>3, <1>4, <1>5, <1>6, <1>7, <1>8, <1>9 DEF LeaseExact, SequenceIds
----------------------------------------------------------------------------
(* What the steps of the manager do, as far as the service looks at it.    *)
SequencesFree == \A s \in SequenceIds : IsFree(s) <=> ~InUse(s) /\ ~InHand(s)

\* The sequences on the stack are nobody else's.
LEMMA FreeNow == ContextInv => SequencesFree
<1> SUFFICES ASSUME ContextInv PROVE SequencesFree
  OBVIOUS
<1>1. Lists(freeSequences, {s \in SequenceIds : ~Taken(s)})
  BY DEF ContextInv, SequencesPooled
<1>2. \A s \in SequenceIds : ~Taken(s) => IsFree(s)
  BY <1>1 DEF Lists, IsFree
<1>3. \A s \in SequenceIds : IsFree(s) => ~Taken(s)
  BY <1>1 DEF Lists, IsFree
<1> QED
  BY <1>2, <1>3 DEF SequencesFree, Taken

\* The same after a step.
LEMMA FreeNext == ContextInv' => SequencesFree'
<1>1. ContextInv => SequencesFree
  BY FreeNow
<1> QED
  BY <1>1, PTL

(* What the invariant of the manager says of one context.                  *)
LEMMA ContextFacts ==
  ASSUME ContextInv
  PROVE  /\ contexts \in [Live -> Entry] /\ Live \subseteq 1 .. nextContextId - 1
         /\ nextContextId \in 1 .. MaxContextId + 1
         /\ \A c \in Live : contexts[c] \in Entry /\ c \in ContextIds /\ c \in Nat
         /\ \A c \in Resident : c \in Live /\ contexts[c].sequence \in SequenceIds
         /\ \A c, d \in Resident : contexts[c].sequence = contexts[d].sequence => c = d
         /\ \A c \in Live : contexts[c].pins \in Nat
<1> USE ContextAssumption
<1>1. /\ contexts \in [Live -> Entry] /\ Live \subseteq 1 .. nextContextId - 1
      /\ nextContextId \in 1 .. MaxContextId + 1
  BY DEF ContextInv, ContextTypeOK
<1>2. \A c \in Live : contexts[c] \in Entry /\ c \in ContextIds /\ c \in Nat
  BY <1>1 DEF ContextIds
<1>3. \A c \in Resident : c \in Live /\ contexts[c].sequence \in SequenceIds
  BY <1>2 DEF Resident, Entry
<1>4. \A c, d \in Resident : contexts[c].sequence = contexts[d].sequence => c = d
  BY DEF ContextInv, SequencesPooled
<1>5. \A c \in Live : contexts[c].pins \in Nat
  BY <1>2 DEF Entry
<1> QED
  BY <1>1, <1>2, <1>3, <1>4, <1>5

(* Context n is new and uses sequence s; otherwise the table is `table'.   *)
MadeOn(table, n, s, a) ==
  /\ n = nextContextId /\ n \in ContextIds /\ nextContextId' = n + 1
  /\ n \notin Live /\ Live' = Live \cup {n}
  /\ contexts'[n] = [sequence |-> s, pins |-> 1, owners |-> {a}]
  /\ \A d \in Live : contexts'[d] = table[d]

\* acquire makes a context on the sequence it has taken.
LEMMA CreateMakes ==
  ASSUME ContextInv, NEW table \in [Live -> Entry], NEW gauges, NEW a, NEW s,
         nextContextId <= MaxContextId, Create(table, gauges, a, s)
  PROVE  MadeOn(table, nextContextId, s, a)
<1> USE ContextAssumption
<1>1. nextContextId \in ContextIds /\ nextContextId \notin Live
  BY DEF ContextInv, ContextTypeOK, ContextIds
<1>2. /\ nextContextId' = nextContextId + 1
      /\ contexts' = [c \in Live \cup {nextContextId} |->
                        IF c = nextContextId THEN [sequence |-> s, pins |-> 1, owners |-> {a}]
                        ELSE table[c]]
  BY DEF Create
<1> QED
  BY <1>1, <1>2 DEF MadeOn, Live

\* acquire of a resident context pins it and moves nothing.
LEMMA ResidentGrants ==
  ASSUME ContextInv, NEW a \in Agents, NEW c, AcquireResident(a, c)
  PROVE  /\ c \in Resident /\ c \in Live /\ Live' = Live /\ Resident' = Resident
         /\ contexts'[c].sequence = contexts[c].sequence
         /\ \A d \in Live : contexts'[d].sequence = contexts[d].sequence
         /\ \A d \in Live : d # c => contexts'[d].pins = contexts[d].pins
         /\ contexts'[c].pins = contexts[c].pins + 1
         /\ nextContextId' = nextContextId /\ call' = call
<1>1. /\ c \in Resident /\ c \in Live /\ contexts[c].pins < MaxPins /\ Grant(contexts, stats, a, c)
      /\ call' = call
  BY DEF AcquireResident, Resident
<1>2. /\ contexts \in [Live -> Entry] /\ stats \in [Gauges -> Int]
      /\ \A d \in Live : contexts[d].owners # {}
  BY DEF ContextInv, ContextTypeOK, Reachable
<1>3. /\ Live' = Live /\ \A d \in Live : contexts'[d].sequence = contexts[d].sequence
      /\ \A d \in Live : d # c => contexts'[d].pins = contexts[d].pins
      /\ contexts'[c].pins = contexts[c].pins + 1 /\ nextContextId' = nextContextId
  BY <1>1, <1>2, Granted
<1>4. Resident' = Resident
  BY <1>3 DEF Resident
<1> QED
  BY <1>1, <1>3, <1>4

(* The callback has loaded context c into sequence s.                      *)
LEMMA LoadedGrants ==
  ASSUME ContextInv, Loaded(TRUE), NEW c, c = call.context, NEW s, s = call.sequence
  PROVE  /\ c \in Live /\ c \notin Resident /\ s \in SequenceIds /\ InHand(s) /\ ~InUse(s)
         /\ Live' = Live /\ Resident' = Resident \cup {c}
         /\ contexts'[c].sequence = s
         /\ \A d \in Live : d # c => contexts'[d].sequence = contexts[d].sequence
         /\ \A d \in Live : d # c => contexts'[d].pins = contexts[d].pins
         /\ contexts'[c].pins = contexts[c].pins + 1
         /\ nextContextId' = nextContextId /\ call' = Idle
<1> DEFINE table == [contexts EXCEPT ![c].sequence = s]
           gauges == [stats EXCEPT !["resident"] = @ + 1, !["swapped"] = @ - 1]
<1> USE ContextAssumption
<1>1. /\ c \in Live \ Resident /\ s \in SequenceIds /\ call.agent \in Agents /\ InHand(s)
      /\ contexts \in [Live -> Entry] /\ stats \in [Gauges -> Int] /\ contexts[c] \in Entry
  BY DEF ContextInv, CallSound, ContextTypeOK, Loaded, InHand
<1>2. Grant(table, gauges, call.agent, c) /\ call' = Idle
  BY DEF Loaded
<1>3. ~(contexts[c].pins > 0) /\ contexts[c].pins \in 0 .. MaxPins
  BY <1>1 DEF ContextInv, CallSound, Entry
<1>4. /\ table \in [Live -> Entry] /\ table[c].sequence = s
      /\ \A d \in Live : d # c => table[d] = contexts[d]
      /\ table[c].owners = contexts[c].owners /\ table[c].pins = contexts[c].pins
  BY <1>1 DEF Entry
<1>5. gauges \in [Gauges -> Int]
  BY <1>1 DEF Gauges
<1>6. \A d \in Live : table[d].owners # {}
  BY <1>4 DEF ContextInv, Reachable
<1> HIDE DEF table, gauges
<1>7. table[c].pins < MaxPins
  BY <1>3, <1>4
<1>8. /\ Live' = Live /\ \A d \in Live : contexts'[d].sequence = table[d].sequence
      /\ \A d \in Live : d # c => contexts'[d].pins = table[d].pins
      /\ contexts'[c].pins = table[c].pins + 1 /\ nextContextId' = nextContextId
  <2>0. PICK tab, g, a : tab = table /\ g = gauges /\ a = call.agent
    OBVIOUS
  <2>1. /\ tab \in [Live -> Entry] /\ g \in [Gauges -> Int] /\ c \in Live /\ a \in Agents
        /\ \A d \in Live : tab[d].owners # {}
        /\ tab[c].pins < MaxPins /\ Grant(tab, g, a, c)
    BY <1>1, <1>2, <1>4, <1>5, <1>6, <1>7, <2>0
  <2>2. /\ Live' = Live /\ \A d \in Live : contexts'[d].sequence = tab[d].sequence
        /\ \A d \in Live : d # c => contexts'[d].pins = tab[d].pins
        /\ contexts'[c].pins = tab[c].pins + 1 /\ nextContextId' = nextContextId
    BY <2>1, Granted, Z3T(60)
  <2> QED
    BY <2>0, <2>2
<1>9. s # NoSequence
  BY <1>1 DEF SequenceIds, NoSequence
<1>10. Resident' = Resident \cup {c}
  BY <1>1, <1>4, <1>8, <1>9 DEF Resident
<1>11. ~InUse(s)
  BY <1>1 DEF ContextInv, SequencesPooled
<1> QED
  BY <1>1, <1>2, <1>4, <1>8, <1>10, <1>11

(* One context changes its pins or owners, and keeps its sequence.         *)
Edited(c) ==
  /\ c \in Live /\ Live' = Live /\ Resident' = Resident
  /\ nextContextId' = nextContextId /\ call' = call
  /\ \A d \in Live : contexts'[d].sequence = contexts[d].sequence
  /\ \A d \in Live : d # c => contexts'[d] = contexts[d]

\* finish gives back one pin.
LEMMA FinishEdits ==
  ASSUME ContextInv, NEW c, Finish(c)
  PROVE  /\ Edited(c) /\ contexts'[c].pins = contexts[c].pins - 1
         /\ contexts'[c].owners = contexts[c].owners
<1> DEFINE e == [contexts[c] EXCEPT !.pins = @ - 1]
<1>1. c \in Live /\ contexts \in [Live -> Entry] /\ contexts[c] \in Entry
  BY DEF Finish, ContextInv, ContextTypeOK
<1>2. /\ e.sequence = contexts[c].sequence /\ e.owners = contexts[c].owners
      /\ e.pins = contexts[c].pins - 1
  BY <1>1 DEF Entry
<1>3. contexts' = [contexts EXCEPT ![c] = e]
  BY <1>1 DEF Finish
<1> HIDE DEF e
<1>4. /\ Live' = Live /\ contexts'[c] = e /\ \A d \in Live : d # c => contexts'[d] = contexts[d]
  BY <1>1, <1>3 DEF Live
<1>5. \A d \in Live : contexts'[d].sequence = contexts[d].sequence
  BY <1>2, <1>4
<1>6. Resident' = Resident
  BY <1>4, <1>5 DEF Resident
<1> QED
  BY <1>1, <1>2, <1>4, <1>5, <1>6 DEF Edited, Finish

\* release of a shared context takes one owner from it.
LEMMA ShrinkEdits ==
  ASSUME ContextInv, NEW c \in Live, NEW a, Shrink(c, a), nextContextId' = nextContextId, call' = call
  PROVE  /\ Edited(c) /\ contexts'[c].pins = contexts[c].pins
         /\ contexts'[c].owners = contexts[c].owners \ {a}
<1> DEFINE e == [contexts[c] EXCEPT !.owners = @ \ {a}]
<1>1. contexts \in [Live -> Entry] /\ contexts[c] \in Entry
  BY DEF ContextInv, ContextTypeOK
<1>2. /\ e.sequence = contexts[c].sequence /\ e.owners = contexts[c].owners \ {a}
      /\ e.pins = contexts[c].pins
  BY <1>1 DEF Entry
<1>3. contexts' = [contexts EXCEPT ![c] = e]
  BY <1>1 DEF Shrink
<1> HIDE DEF e
<1>4. /\ Live' = Live /\ contexts'[c] = e /\ \A d \in Live : d # c => contexts'[d] = contexts[d]
  BY <1>1, <1>3 DEF Live
<1>5. \A d \in Live : contexts'[d].sequence = contexts[d].sequence
  BY <1>2, <1>4
<1>6. Resident' = Resident
  BY <1>4, <1>5 DEF Resident
<1> QED
  BY <1>2, <1>4, <1>5, <1>6 DEF Edited

(* Context c is gone, the others are as they were.                         *)
Gone(c) ==
  /\ c \in Live /\ Live' = Live \ {c} /\ Resident' = Resident \ {c}
  /\ nextContextId' = nextContextId /\ call' = call
  /\ \A d \in Live' : contexts'[d] = contexts[d]

\* release by the last owner ends the context.
LEMMA RemoveEnds ==
  ASSUME ContextInv, NEW c \in Live, Remove(c), nextContextId' = nextContextId, call' = call
  PROVE  Gone(c)
<1>1. contexts \in [Live -> Entry]
  BY DEF ContextInv, ContextTypeOK
<1>2. Live' = Live \ {c} /\ \A d \in Live' : contexts'[d] = contexts[d]
  BY <1>1 DEF Remove, Live
<1>3. Resident' = Resident \ {c}
  BY <1>2 DEF Resident
<1> QED
  BY <1>2, <1>3 DEF Gone

(* The last owner can release a context only while it is not pinned.       *)
LEMMA ReleaseEndsOrEdits ==
  ASSUME ContextInv, NEW a, NEW p, NEW c, Release(a, p, c)
  PROVE  /\ c \in Live /\ call = Idle
         /\ \/ Gone(c) /\ contexts[c].pins = 0
            \/ /\ Edited(c) /\ contexts'[c].pins = contexts[c].pins
               /\ \A b : contexts[c].owners # {b}
<1> DEFINE r == Releaser(c, a, p)
<1>1. r \in contexts[c].owners /\ c \in Live /\ call = Idle
  BY DEF Release, MayRelease, Authorized, Releaser, OwnedBy
<1>2. call' = call /\ nextContextId' = nextContextId
  BY DEF Release
<1>3. CASE contexts[c].owners = {r}
  <2>1. Cardinality(contexts[c].owners) = 1
    BY <1>3, FS_Singleton
  <2>2. contexts[c].pins = 0
    BY <2>1 DEF Release, MayRelease
  <2> QED
    BY <1>1, <1>2, <1>3, <2>2, RemoveEnds DEF Release
<1>4. CASE contexts[c].owners # {r}
  <2>1. \A b : contexts[c].owners # {b}
    BY <1>1, <1>4
  <2> QED
    BY <1>1, <1>2, <1>4, <2>1, ShrinkEdits DEF Release
<1> QED
  BY <1>1, <1>3, <1>4
----------------------------------------------------------------------------
(* How the parts of the invariant are kept.                                *)
CachesOwn == \A c \in Resident : ~Fresh(c) => Only(kv[contexts[c].sequence], c)
SnapshotsOwn == \A c \in DOMAIN snapshots : Only(snapshots[c], c)

ServiceParts ==
  /\ ServiceTypeOK
  /\ MutexExact
  /\ \A t \in Threads : LeaseExact(t)
  /\ PinsExact
  /\ SequencesLeft /\ SnapshotsLeft /\ HistoriesLeft
  /\ CachesOwn /\ SnapshotsOwn
  /\ SwappedHasSnapshot

\* A thread that is given a lease holds it as the table says.
LEMMA InferLease ==
  ASSUME NEW t \in Threads, NEW c, NEW s \in SequenceIds, NEW a, NEW created,
         thread'[t].pc = "infer", thread'[t].context = c, thread'[t].sequence = s,
         thread'[t].agent = a, thread'[t].created = created, thread'[t].ok = FALSE,
         c \in Live', c \in 1 .. nextContextId' - 1, contexts'[c].sequence = s,
         created => /\ c \notin DOMAIN snapshots' \cup DOMAIN conversations'
                    /\ contexts'[c].owners = {a}
  PROVE  LeaseExact(t)' /\ Holds(t)'
BY DEF LeaseExact, Holds, Holding, Leased, Leaving, SequenceIds

\* A thread without request has no lease.
LEMMA IdleLease ==
  ASSUME NEW t \in Threads, thread'[t] = NoRequest
  PROVE  LeaseExact(t)' /\ ~Holds(t)'
BY DEF LeaseExact, Holds, Holding, Leased, Leaving, NoRequest

\* A thread in a callback has none yet.
LEMMA CallbackLease ==
  ASSUME NEW t \in Threads, thread'[t].pc = "callback", ~thread'[t].created, ~thread'[t].ok,
         call'.agent = thread'[t].agent
  PROVE  LeaseExact(t)' /\ Holds(t)'
BY DEF LeaseExact, Holds, Holding, Leased, Leaving

\* A thread that leaves a released context holds nothing.
LEMMA LeavingLease ==
  ASSUME NEW t \in Threads, thread'[t].pc \in Leaving, ~thread'[t].created, ~thread'[t].ok,
         thread'[t].context \in (1 .. nextContextId' - 1) \ Live',
         thread'[t].pc = "clear" => thread'[t].sequence \in SequenceIds
  PROVE  LeaseExact(t)' /\ ~Holds(t)'
BY DEF LeaseExact, Holds, Holding, Leased, Leaving, SequenceIds

(* Pins.                                                                   *)
UsedBy(t, c) == thread[t].pc \in {"infer", "unpin"} /\ thread[t].context = c

\* A thread that uses what it used leaves the pins alone.
LEMMA PinsKept ==
  ASSUME PinsExact, NEW t \in Threads, Moved(t, thread'[t]),
         \A c : UsedBy(t, c)' <=> UsedBy(t, c),
         Live' \subseteq Live, \A c \in Live' : contexts'[c].pins = contexts[c].pins
  PROVE  PinsExact'
<1>1. \A u \in Threads : \A c : UsedBy(u, c)' <=> UsedBy(u, c)
  BY DEF UsedBy, Moved
<1>2. \A c : Using(c) <=> \E u \in Threads : UsedBy(u, c)
  BY DEF Using, UsedBy
<1>3. \A c : Using(c)' <=> \E u \in Threads : UsedBy(u, c)'
  BY DEF Using, UsedBy
<1>4. \A c : Using(c)' <=> Using(c)
  BY <1>1, <1>2, <1>3
<1> QED
  BY <1>4 DEF PinsExact

\* No thread generates, so nothing is used.
LEMMA NobodyUses ==
  ASSUME \A u \in Threads : thread[u].pc \notin {"infer", "unpin"}
  PROVE  \A c : ~Using(c)
BY DEF Using

\* A thread that begins to generate has one pin.
LEMMA PinsTaken ==
  ASSUME PinsExact, NEW t \in Threads, Moved(t, thread'[t]),
         \A u \in Threads : thread[u].pc \notin {"infer", "unpin"},
         NEW c, thread'[t].pc = "infer", thread'[t].context = c,
         contexts'[c].pins = IF c \in Live THEN contexts[c].pins + 1 ELSE 1,
         \A d \in Live' : d # c => d \in Live /\ contexts'[d].pins = contexts[d].pins
  PROVE  PinsExact'
<1>1. \A d \in Live : contexts[d].pins = 0
  BY NobodyUses DEF PinsExact
<1>2. contexts'[c].pins = 1 /\ \A d \in Live' : d # c => contexts'[d].pins = 0
  BY <1>1
<1>3. \A d : Using(d)' <=> d = c
  BY DEF Using, Moved
<1> QED
  BY <1>2, <1>3 DEF PinsExact

\* A thread that is done gives its pin back.
LEMMA PinsGiven ==
  ASSUME PinsExact, NEW t \in Threads, Moved(t, thread'[t]),
         \A u \in Threads : u # t => thread[u].pc \notin {"infer", "unpin"},
         NEW c \in Live, thread[t].pc = "unpin", thread[t].context = c, thread'[t].pc = "settle",
         Live' = Live, contexts'[c].pins = contexts[c].pins - 1,
         \A d \in Live : d # c => contexts'[d].pins = contexts[d].pins
  PROVE  PinsExact'
<1>1. \A d : Using(d) <=> d = c
  BY DEF Using
<1>2. \A d : ~Using(d)'
  BY DEF Using, Moved
<1>3. contexts[c].pins = 1 /\ \A d \in Live : d # c => contexts[d].pins = 0
  BY <1>1 DEF PinsExact
<1> QED
  BY <1>2, <1>3 DEF PinsExact

(* Threads that are about to clear or drop something.                      *)
LEMMA DroppedKept ==
  ASSUME NEW t \in Threads, Moved(t, thread'[t]), NEW pcs,
         \A c : Drops(t, c, pcs) => Drops(t, c, pcs)'
  PROVE  \A c : Dropped(c, pcs) => Dropped(c, pcs)'
<1> SUFFICES ASSUME NEW c, NEW u \in Threads, Drops(u, c, pcs)
             PROVE  \E v \in Threads : Drops(v, c, pcs)'
  BY DEF Dropped
<1>1. Drops(u, c, pcs)'
  BY DEF Moved, Drops
<1> QED
  BY <1>1

\* What is about to be cleared still is, unless its thread has moved on.
LEMMA ClearsKept ==
  ASSUME NEW t \in Threads, Moved(t, thread'[t]), thread[t].pc # "clear"
  PROVE  \A s : Clears(s) => Clears(s)'
BY DEF Moved, Clears

(* A thread that drops nothing before a step leaves the others at it.      *)
LEMMA OthersDrop ==
  ASSUME NEW t \in Threads, Moved(t, thread'[t]), thread[t].pc \notin Leaving
  PROVE  /\ \A c : Dropped(c, Leaving) => Dropped(c, Leaving)'
         /\ \A c : Dropped(c, {"clear", "drop"}) => Dropped(c, {"clear", "drop"})'
         /\ \A s : Clears(s) => Clears(s)'
<1>1. /\ \A c : ~Drops(t, c, Leaving)
      /\ \A c : ~Drops(t, c, {"clear", "drop"})
      /\ thread[t].pc # "clear"
  BY DEF Drops, Leaving
<1>2. \A c : Dropped(c, Leaving) => Dropped(c, Leaving)'
  BY <1>1, DroppedKept
<1>3. \A c : Dropped(c, {"clear", "drop"}) => Dropped(c, {"clear", "drop"})'
  BY <1>1, DroppedKept
<1> QED
  BY <1>1, <1>2, <1>3, ClearsKept

(* Fresh contexts are those of a holder that makes a first turn.           *)
LEMMA NobodyFresh ==
  ASSUME \A u \in Threads : ~thread[u].created
  PROVE  \A c : ~Fresh(c)
BY DEF Fresh

\* What is in its first turn still is, unless its thread has moved on.
LEMMA FreshKept ==
  ASSUME NEW t \in Threads, Moved(t, thread'[t]),
         thread[t].created => /\ thread'[t].created
                              /\ thread'[t].context = thread[t].context /\ thread'[t].ok = thread[t].ok
  PROVE  \A c : Fresh(c) => Fresh(c)'
<1> SUFFICES ASSUME NEW c, NEW u \in Threads,
                    thread[u].context = c /\ thread[u].created /\ ~thread[u].ok
             PROVE  \E v \in Threads : thread'[v].context = c /\ thread'[v].created /\ ~thread'[v].ok
  BY DEF Fresh
<1>1. thread'[u].context = c /\ thread'[u].created /\ ~thread'[u].ok
  BY DEF Moved
<1> QED
  BY <1>1

(* Nobody generates: no thread has a lease, a pin or a first turn.         *)
LEMMA NobodyGenerates ==
  ASSUME ServiceParts, conversation = NoThread
  PROVE  \A u \in Threads : /\ ~Holds(u) /\ ~thread[u].created
                            /\ thread[u].pc \notin {"callback", "infer", "unpin", "settle"}
BY NobodyHolds, NoLeaseOutside DEF ServiceParts, Holding

(* Thread t generates, so nobody else does.                                *)
LEMMA OneGenerates ==
  ASSUME ServiceParts, NEW t \in Threads, Holds(t)
  PROVE  /\ conversation = t
         /\ \A u \in Threads : u # t => /\ ~Holds(u) /\ ~thread[u].created
                                        /\ thread[u].pc \notin {"callback", "infer", "unpin", "settle"}
BY HolderAlone, NoLeaseOutside DEF ServiceParts, Holding
----------------------------------------------------------------------------
(* generate acquires a context that is resident.                           *)
LEMMA LeaseResidentKeeps ==
  ASSUME ContextInv, ServiceParts, NEW t \in Threads, NEW a \in Agents, NEW p \in Parents,
         At(t, "idle"), conversation = NoThread, conversation' = t, NEW c,
         AcquireResident(a, c), Lease(t, a, p, c, contexts[c].sequence, FALSE),
         UNCHANGED <<conversations, kv, snapshots, initialized>>
  PROVE  ServiceParts'
<1> DEFINE s == contexts[c].sequence
<1>1. /\ c \in Resident /\ c \in Live /\ Live' = Live /\ Resident' = Resident
      /\ contexts'[c].sequence = s
      /\ \A d \in Live : contexts'[d].sequence = contexts[d].sequence
      /\ \A d \in Live : d # c => contexts'[d].pins = contexts[d].pins
      /\ contexts'[c].pins = contexts[c].pins + 1
      /\ nextContextId' = nextContextId /\ call' = call
  BY ResidentGrants
<1>2. /\ Live \subseteq 1 .. nextContextId - 1 /\ nextContextId \in Nat
      /\ c \in ContextIds /\ s \in SequenceIds /\ \A d \in Resident : d \in Live /\ contexts[d].sequence \in SequenceIds
  BY <1>1, ContextFacts, ContextAssumption
<1> DEFINE r == [pc |-> "infer", agent |-> a, parent |-> p, context |-> c,
                 sequence |-> s, created |-> FALSE, ok |-> FALSE]
<1> HIDE DEF s
<1>3. Moved(t, r)
  BY <1>2, LeaseMoves DEF ServiceParts, ServiceTypeOK, s
<1>4. /\ thread'[t].pc = "infer" /\ thread'[t].context = c /\ thread'[t].sequence = s
      /\ thread'[t].agent = a /\ thread'[t].created = FALSE /\ thread'[t].ok = FALSE
      /\ Moved(t, thread'[t])
  BY <1>3 DEF Moved
<1> HIDE DEF r
<1>5. LeaseExact(t)' /\ Holds(t)'
  BY <1>1, <1>2, <1>4, InferLease
<1>6. MutexExact'
  BY <1>4, <1>5, MutexTaken DEF ServiceParts
<1>7. \A u \in Threads : LeaseExact(u)'
  BY <1>1, <1>2, <1>4, <1>5, LeasesInside DEF ServiceParts
<1>8. PinsExact'
  <2>1. \A u \in Threads : thread[u].pc \notin {"infer", "unpin"}
    BY NobodyGenerates
  <2>2. contexts'[c].pins = IF c \in Live THEN contexts[c].pins + 1 ELSE 1
    BY <1>1
  <2> QED
    BY <1>1, <1>4, <2>1, <2>2, PinsTaken DEF ServiceParts
<1>9. /\ \A d : Dropped(d, Leaving) => Dropped(d, Leaving)'
      /\ \A d : Dropped(d, {"clear", "drop"}) => Dropped(d, {"clear", "drop"})'
      /\ \A x : Clears(x) => Clears(x)'
  BY <1>4, OthersDrop DEF At, Leaving
<1>10. SequencesLeft'
  <2>1. \A x \in SequenceIds : IsFree(x)' => IsFree(x)
    BY DEF AcquireResident, IsFree
  <2> QED
    BY <1>9, <2>1 DEF ServiceParts, SequencesLeft
<1>11. SnapshotsLeft' /\ HistoriesLeft'
  BY <1>1, <1>9 DEF ServiceParts, SnapshotsLeft, HistoriesLeft
<1>12. CachesOwn' /\ SnapshotsOwn'
  <2>1. \A d : ~Fresh(d)
    BY NobodyGenerates, NobodyFresh
  <2> QED
    BY <1>1, <1>2, <2>1 DEF ServiceParts, CachesOwn, SnapshotsOwn, Only
<1>13. SwappedHasSnapshot'
  BY <1>1 DEF ServiceParts, SwappedHasSnapshot
<1>14. ServiceTypeOK'
  BY <1>4 DEF ServiceParts, ServiceTypeOK, Moved
<1> QED
  BY <1>6, <1>7, <1>8, <1>10, <1>11, <1>12, <1>13, <1>14 DEF ServiceParts

(* A context is made for a request, on a sequence that was free or that    *)
(* the save callback has just emptied.                                     *)
LEMMA LeaseNewKeeps ==
  ASSUME ContextInv, ContextInv', ServiceParts, NEW t \in Threads, NEW a \in Agents, NEW p \in Parents,
         \A u \in Threads : u # t => ~Holds(u), conversation \in {t, NoThread}, conversation' = t,
         thread[t].pc \in {"idle", "callback"}, ~thread[t].created,
         NEW table, \A d \in Live : table[d].pins = contexts[d].pins,
         \A d \in Live : table[d].sequence \in {contexts[d].sequence, NoSequence},
         NEW s \in SequenceIds, MadeOn(table, nextContextId, s, a),
         Lease(t, a, p, nextContextId, s, TRUE),
         kv' \in [SequenceIds -> Seq(ContextIds)], \A x \in SequenceIds : x # s => kv'[x] = kv[x],
         \A x \in SequenceIds : IsFree(x)' => IsFree(x),
         \A d \in Resident : contexts[d].sequence = s => table[d].sequence = NoSequence,
         DOMAIN snapshots' \subseteq ContextIds, snapshots' \in [DOMAIN snapshots' -> Seq(ContextIds)],
         \A d \in DOMAIN snapshots' : d \in Live \/ (d \in DOMAIN snapshots),
         DOMAIN snapshots \subseteq DOMAIN snapshots',
         SnapshotsOwn',
         \A d \in Live : table[d].sequence = NoSequence => d \notin Resident \/ d \in DOMAIN snapshots',
         UNCHANGED <<conversations, initialized>>
  PROVE  ServiceParts'
<1> DEFINE n == nextContextId
<1>1. /\ n \in ContextIds /\ nextContextId' = n + 1 /\ n \notin Live /\ Live' = Live \cup {n}
      /\ contexts'[n] = [sequence |-> s, pins |-> 1, owners |-> {a}]
      /\ \A d \in Live : contexts'[d] = table[d]
  BY DEF MadeOn
<1>2. Live \subseteq 1 .. n - 1 /\ n \in Nat /\ n # 0
  BY ContextFacts, ContextAssumption
<1> HIDE DEF n
<1>3. Moved(t, [pc |-> "infer", agent |-> a, parent |-> p, context |-> n,
                sequence |-> s, created |-> TRUE, ok |-> FALSE])
  BY <1>1, LeaseMoves DEF ServiceParts, ServiceTypeOK, n
<1>4. /\ thread'[t].pc = "infer" /\ thread'[t].context = n /\ thread'[t].sequence = s
      /\ thread'[t].agent = a /\ thread'[t].created = TRUE /\ thread'[t].ok = FALSE
      /\ Moved(t, thread'[t])
  BY <1>3 DEF Moved
<1>5. \A d \in DOMAIN snapshots' \cup DOMAIN conversations' : d < n
  BY <1>2 DEF ServiceParts, SnapshotsLeft, HistoriesLeft, n
<1>6. LeaseExact(t)' /\ Holds(t)'
  <2>1. n \notin DOMAIN snapshots' \cup DOMAIN conversations'
    BY <1>2, <1>5
  <2>2. contexts'[n].owners = {a} /\ contexts'[n].sequence = s /\ n \in Live' /\ n \in 1 .. nextContextId' - 1
    BY <1>1, <1>2
  <2> QED
    BY <1>4, <2>1, <2>2, InferLease
<1>17. MutexExact'
  <2>1. CASE conversation = NoThread
    BY <1>4, <1>6, <2>1, MutexTaken DEF ServiceParts
  <2>2. CASE conversation = t
    <3>1. Holds(t)
      BY <2>2 DEF ServiceParts, MutexExact
    <3> QED
      BY <1>4, <1>6, <2>2, <3>1, MutexKept DEF ServiceParts
  <2> QED
    BY <2>1, <2>2
<1>7. \A u \in Threads : LeaseExact(u)'
  <2>1. /\ nextContextId \in Nat /\ nextContextId' \in Nat /\ nextContextId <= nextContextId'
        /\ Live' \subseteq Live \cup {nextContextId}
    BY <1>1, <1>2 DEF n
  <2>2. MutexExact /\ \A u \in Threads : LeaseExact(u)
    BY DEF ServiceParts
  <2> QED
    BY <1>4, <1>6, <2>1, <2>2, LeasesInside
<1>8. PinsExact'
  <2>1. \A u \in Threads : thread[u].pc \notin {"infer", "unpin"}
    BY DEF Holds, Holding
  <2>2. contexts'[n].pins = IF n \in Live THEN contexts[n].pins + 1 ELSE 1
    BY <1>1
  <2>3. \A d \in Live' : d # n => d \in Live /\ contexts'[d].pins = contexts[d].pins
    BY <1>1
  <2> QED
    BY <1>4, <2>1, <2>2, <2>3, PinsTaken DEF ServiceParts
<1>9. /\ \A d : Dropped(d, Leaving) => Dropped(d, Leaving)'
      /\ \A d : Dropped(d, {"clear", "drop"}) => Dropped(d, {"clear", "drop"})'
      /\ \A x : Clears(x) => Clears(x)'
  BY <1>4, OthersDrop DEF Leaving
<1>10. s # NoSequence /\ n \in Resident'
  BY <1>1 DEF Resident, SequenceIds, NoSequence
<1>11. SequencesLeft'
  <2>1. ~IsFree(s)'
    <3>1. InUse(s)'
      BY <1>1, <1>10 DEF InUse
    <3> QED
      BY <3>1, FreeNext DEF SequencesFree
  <2> QED
    BY <1>9, <2>1 DEF ServiceParts, SequencesLeft
<1>12. SnapshotsLeft'
  <2> SUFFICES ASSUME NEW d \in DOMAIN snapshots'
               PROVE  d < nextContextId' /\ (d \in Live' \/ Dropped(d, {"clear", "drop"})')
    BY DEF SnapshotsLeft
  <2>1. d < nextContextId'
    <3>1. d < n /\ d \in Nat
      BY <1>5 DEF ContextIds
    <3> QED
      BY <1>1, <1>2, <3>1
  <2>2. d \in Live \/ Dropped(d, {"clear", "drop"})
    BY DEF ServiceParts, SnapshotsLeft
  <2> QED
    BY <1>1, <1>9, <2>1, <2>2
<1>13. HistoriesLeft'
  <2> SUFFICES ASSUME NEW d \in DOMAIN conversations
               PROVE  d < nextContextId' /\ (d \in Live' \/ Dropped(d, Leaving)')
    BY DEF HistoriesLeft
  <2>1. d < nextContextId'
    <3>1. d < n /\ d \in Nat
      BY <1>5 DEF ContextIds, ServiceParts, ServiceTypeOK
    <3> QED
      BY <1>1, <1>2, <3>1
  <2>2. d \in Live \/ Dropped(d, Leaving)
    BY DEF ServiceParts, HistoriesLeft
  <2> QED
    BY <1>1, <1>9, <2>1, <2>2
<1>14. CachesOwn'
  <2> SUFFICES ASSUME NEW d \in Resident', ~Fresh(d)'
               PROVE  Only(kv'[contexts'[d].sequence], d)
    BY DEF CachesOwn, Only
  <2>1. d # n
    BY <1>4 DEF Fresh
  <2>2. d \in Live /\ contexts'[d] = table[d] /\ table[d].sequence # NoSequence
    BY <1>1, <2>1 DEF Resident
  <2>3. d \in Resident /\ table[d].sequence = contexts[d].sequence /\ contexts[d].sequence # s
    BY <2>2 DEF Resident
  <2>4. kv'[contexts[d].sequence] = kv[contexts[d].sequence]
    BY <2>3, ContextFacts
  <2>5. \A e : ~Fresh(e)
    <3>1. \A u \in Threads : ~thread[u].created
      BY NoLeaseOutside DEF ServiceParts
    <3> QED
      BY <3>1, NobodyFresh
  <2> QED
    BY <2>2, <2>3, <2>4, <2>5 DEF ServiceParts, CachesOwn
<1>15. SwappedHasSnapshot'
  <2> SUFFICES ASSUME initialized, NEW d \in Live' \ Resident' PROVE d \in DOMAIN snapshots'
    BY DEF SwappedHasSnapshot
  <2>1. d \in Live /\ contexts'[d] = table[d] /\ table[d].sequence = NoSequence
    BY <1>1, <1>10 DEF Resident
  <2>2. CASE d \notin Resident
    BY <2>1, <2>2 DEF ServiceParts, SwappedHasSnapshot
  <2> QED
    BY <2>1, <2>2
<1>16. ServiceTypeOK'
  BY <1>4 DEF ServiceParts, ServiceTypeOK, Moved
<1> QED
  BY <1>7, <1>8, <1>11, <1>12, <1>13, <1>14, <1>15, <1>16, <1>17 DEF ServiceParts
(* generate acquires a context that has to be loaded, or for which another *)
(* has to be saved, and waits for the callback.                            *)
LEMMA CallbackKeeps ==
  ASSUME ContextInv, ServiceParts, NEW t \in Threads, NEW a \in Agents, NEW p \in Parents,
         At(t, "idle"), conversation = NoThread, conversation' = t,
         thread' = [thread EXCEPT ![t] =
           [NoRequest EXCEPT !.pc = "callback", !.agent = a, !.parent = p]],
         contexts' = contexts, nextContextId' = nextContextId, call'.agent = a,
         \A x \in SequenceIds : IsFree(x)' => IsFree(x),
         UNCHANGED <<conversations, kv, snapshots, initialized>>
  PROVE  ServiceParts'
<1> DEFINE r == [NoRequest EXCEPT !.pc = "callback", !.agent = a, !.parent = p]
<1>1. /\ r \in Request /\ r.pc = "callback" /\ r.agent = a /\ ~r.created /\ ~r.ok
  BY DEF NoRequest, Request, Parents
<1> HIDE DEF r
<1>2. Moved(t, r)
  BY <1>1, ThreadMoves DEF ServiceParts, ServiceTypeOK, r
<1>3. thread'[t] = r /\ Moved(t, thread'[t])
  BY <1>2 DEF Moved
<1>4. LeaseExact(t)' /\ Holds(t)'
  BY <1>1, <1>3, CallbackLease
<1>5. MutexExact'
  BY <1>3, <1>4, MutexTaken DEF ServiceParts
<1>6. Live' = Live /\ Resident' = Resident /\ nextContextId \in Nat
  BY ContextFacts, ContextAssumption DEF Live, Resident
<1>7. \A u \in Threads : LeaseExact(u)'
  BY <1>3, <1>4, <1>6, LeasesInside DEF ServiceParts
<1>8. PinsExact'
  <2>1. \A c : UsedBy(t, c)' <=> UsedBy(t, c)
    BY <1>1, <1>3 DEF UsedBy, At
  <2> QED
    BY <1>3, <1>6, <2>1, PinsKept DEF ServiceParts
<1>9. /\ \A d : Dropped(d, Leaving) => Dropped(d, Leaving)'
      /\ \A d : Dropped(d, {"clear", "drop"}) => Dropped(d, {"clear", "drop"})'
      /\ \A x : Clears(x) => Clears(x)'
  BY <1>3, OthersDrop DEF At, Leaving
<1>10. SequencesLeft' /\ SnapshotsLeft' /\ HistoriesLeft'
  BY <1>6, <1>9 DEF ServiceParts, SequencesLeft, SnapshotsLeft, HistoriesLeft
<1>11. CachesOwn' /\ SnapshotsOwn'
  <2>1. \A d : ~Fresh(d)
    BY NobodyGenerates, NobodyFresh
  <2> QED
    BY <1>6, <2>1 DEF ServiceParts, CachesOwn, SnapshotsOwn, Only
<1>12. SwappedHasSnapshot'
  BY <1>6 DEF ServiceParts, SwappedHasSnapshot
<1>13. ServiceTypeOK'
  BY <1>3 DEF ServiceParts, ServiceTypeOK, Moved
<1> QED
  BY <1>5, <1>7, <1>8, <1>10, <1>11, <1>12, <1>13 DEF ServiceParts

(* What popping the stack of free sequences leaves on it.                  *)
LEMMA PopFrees ==
  ASSUME ContextInv, freeSequences # <<>>, freeSequences' = Pop(freeSequences)
  PROVE  /\ Top(freeSequences) \in SequenceIds /\ IsFree(Top(freeSequences))
         /\ \A x : IsFree(x)' => IsFree(x)
<1>1. freeSequences \in Seq(SequenceIds)
  BY DEF ContextInv, ContextTypeOK
<1>2. /\ Len(freeSequences) \in DOMAIN freeSequences
      /\ DOMAIN Pop(freeSequences) \subseteq DOMAIN freeSequences
      /\ \A i \in DOMAIN Pop(freeSequences) : Pop(freeSequences)[i] = freeSequences[i]
  BY <1>1 DEF Pop
<1>3. Top(freeSequences) \in SequenceIds /\ IsFree(Top(freeSequences))
  BY <1>1, <1>2 DEF Top, IsFree
<1> QED
  BY <1>2, <1>3 DEF IsFree

\* Generate keeps the invariant of the service.
LEMMA GenerateKeeps ==
  ASSUME ContextInv, ContextInv', ServiceParts, NEW t \in Threads, NEW a \in Agents, NEW p \in Parents,
         NEW requested \in ContextIds \cup {NewContext}, Generate(t, a, p, requested)
  PROVE  ServiceParts'
<1>1. /\ At(t, "idle") /\ conversation = NoThread /\ conversation' = t /\ call = Idle
      /\ UNCHANGED <<conversations, kv, snapshots, initialized>>
  BY DEF Generate
<1>2. PICK c \in Wanted(a, p, requested) :
       \/ /\ AcquireResident(a, c)
          /\ Lease(t, a, p, c, contexts[c].sequence, FALSE)
       \/ /\ AcquireFree(a, c)
          /\ \/ /\ c = NewContext
                /\ Lease(t, a, p, nextContextId, Top(freeSequences), TRUE)
             \/ /\ c # NewContext
                /\ thread' = [thread EXCEPT ![t] =
                     [NoRequest EXCEPT !.pc = "callback", !.agent = a, !.parent = p]]
       \/ /\ AcquireEvict(a, c)
          /\ thread' = [thread EXCEPT ![t] =
               [NoRequest EXCEPT !.pc = "callback", !.agent = a, !.parent = p]]
  BY DEF Generate
<1>3. c = NewContext => nextContextId <= MaxContextId
  BY WantedFacts DEF Parents
<1>4. CASE AcquireResident(a, c) /\ Lease(t, a, p, c, contexts[c].sequence, FALSE)
  BY <1>1, <1>4, LeaseResidentKeeps
<1>5. CASE AcquireFree(a, c) /\ c = NewContext /\ Lease(t, a, p, nextContextId, Top(freeSequences), TRUE)
  <2> DEFINE s == Top(freeSequences)
  <2>1. /\ freeSequences # <<>> /\ freeSequences' = Pop(freeSequences)
        /\ Create(contexts, stats, a, s)
    BY <1>5 DEF AcquireFree
  <2>2. s \in SequenceIds /\ IsFree(s) /\ \A x \in SequenceIds : IsFree(x)' => IsFree(x)
    BY <2>1, PopFrees
  <2>3. MadeOn(contexts, nextContextId, s, a)
    BY <1>3, <1>5, <2>1, ContextFacts, CreateMakes
  <2>4. \A d \in Resident : contexts[d].sequence # s
    BY <2>2, FreeNow DEF SequencesFree, InUse
  <2>5. \A u \in Threads : ~Holds(u)
    BY <1>1, NobodyGenerates
  <2>6. thread[t].pc = "idle" /\ ~thread[t].created
    BY <1>1, NobodyGenerates DEF At
  <2>7. \A d \in Live : contexts[d].sequence = NoSequence => d \notin Resident
    BY DEF Resident
  <2>8. /\ kv' \in [SequenceIds -> Seq(ContextIds)] /\ \A x \in SequenceIds : x # s => kv'[x] = kv[x]
        /\ DOMAIN snapshots' \subseteq ContextIds /\ snapshots' \in [DOMAIN snapshots' -> Seq(ContextIds)]
        /\ \A d \in DOMAIN snapshots' : d \in Live \/ d \in DOMAIN snapshots
        /\ DOMAIN snapshots \subseteq DOMAIN snapshots' /\ SnapshotsOwn'
    BY <1>1 DEF ServiceParts, ServiceTypeOK, SnapshotsOwn, Only
  <2> HIDE DEF s
  <2>9. Lease(t, a, p, nextContextId, s, TRUE)
    BY <1>5 DEF s
  <2> QED
    BY <1>1, <2>2, <2>3, <2>4, <2>5, <2>6, <2>7, <2>8, <2>9, LeaseNewKeeps
<1>6. CASE /\ AcquireFree(a, c) /\ c # NewContext
           /\ thread' = [thread EXCEPT ![t] =
                [NoRequest EXCEPT !.pc = "callback", !.agent = a, !.parent = p]]
  <2>1. /\ freeSequences # <<>> /\ freeSequences' = Pop(freeSequences)
        /\ contexts' = contexts /\ nextContextId' = nextContextId /\ call'.agent = a
    BY <1>6 DEF AcquireFree, Load
  <2> QED
    BY <1>1, <1>6, <2>1, PopFrees, CallbackKeeps
<1>7. CASE /\ AcquireEvict(a, c)
           /\ thread' = [thread EXCEPT ![t] =
                [NoRequest EXCEPT !.pc = "callback", !.agent = a, !.parent = p]]
  <2>1. /\ freeSequences' = freeSequences
        /\ contexts' = contexts /\ nextContextId' = nextContextId /\ call'.agent = a
    BY <1>7 DEF AcquireEvict
  <2>2. \A x \in SequenceIds : IsFree(x)' => IsFree(x)
    BY <2>1 DEF IsFree
  <2> QED
    BY <1>1, <1>7, <2>1, <2>2, CallbackKeeps
<1> QED
  BY <1>2, <1>4, <1>5, <1>6, <1>7

----------------------------------------------------------------------------
(* A callback fails: the request is answered as failed.                    *)
LEMMA FailKeeps ==
  ASSUME ContextInv, ServiceParts, NEW t \in Threads, At(t, "callback"),
         Return(t), Unlock, contexts' = contexts, nextContextId' = nextContextId,
         kv' \in [SequenceIds -> Seq(ContextIds)],
         \A x \in SequenceIds : kv'[x] = kv[x] \/ kv'[x] = <<>>,
         \A x \in SequenceIds : IsFree(x)' => IsFree(x) \/ kv'[x] = <<>>,
         UNCHANGED <<conversations, snapshots, initialized>>
  PROVE  ServiceParts'
<1>1. thread'[t] = NoRequest /\ Moved(t, thread'[t])
  BY ReturnMoves DEF ServiceParts, ServiceTypeOK, Moved
<1>2. Holds(t) /\ ~thread[t].created
  BY DEF At, Holds, Holding, ServiceParts, LeaseExact, Leased
<1>3. /\ conversation = t
      /\ \A u \in Threads : ~thread[u].created
  BY <1>2, OneGenerates
<1>4. LeaseExact(t)' /\ ~Holds(t)'
  BY <1>1, IdleLease
<1>5. MutexExact'
  BY <1>1, <1>2, <1>4, MutexFreed DEF ServiceParts, Unlock
<1>6. Live' = Live /\ Resident' = Resident /\ nextContextId \in Nat
  BY ContextFacts, ContextAssumption DEF Live, Resident
<1>7. \A u \in Threads : LeaseExact(u)'
  BY <1>1, <1>3, <1>4, <1>6, LeasesInside DEF ServiceParts
<1>8. PinsExact'
  <2>1. \A c : UsedBy(t, c)' <=> UsedBy(t, c)
    BY <1>1 DEF UsedBy, At, NoRequest
  <2> QED
    BY <1>1, <1>6, <2>1, PinsKept DEF ServiceParts
<1>9. /\ \A d : Dropped(d, Leaving) => Dropped(d, Leaving)'
      /\ \A d : Dropped(d, {"clear", "drop"}) => Dropped(d, {"clear", "drop"})'
      /\ \A x : Clears(x) => Clears(x)'
  BY <1>1, OthersDrop DEF At, Leaving
<1>10. SequencesLeft'
  BY <1>9 DEF ServiceParts, SequencesLeft
<1>11. SnapshotsLeft' /\ HistoriesLeft'
  BY <1>6, <1>9 DEF ServiceParts, SnapshotsLeft, HistoriesLeft
<1>12. CachesOwn' /\ SnapshotsOwn'
  <2>1. \A d : ~Fresh(d)
    BY <1>3, NobodyFresh
  <2>2. \A d \in Resident : Only(kv'[contexts[d].sequence], d)
    <3> SUFFICES ASSUME NEW d \in Resident PROVE Only(kv'[contexts[d].sequence], d)
      OBVIOUS
    <3>1. contexts[d].sequence \in SequenceIds
      BY ContextFacts
    <3>2. Only(kv[contexts[d].sequence], d)
      BY <2>1 DEF ServiceParts, CachesOwn
    <3>3. Only(<<>>, d)
      BY DEF Only
    <3> QED
      BY <3>1, <3>2, <3>3
  <2>3. CachesOwn'
    BY <1>6, <2>2 DEF CachesOwn, Only
  <2> QED
    BY <2>3 DEF ServiceParts, SnapshotsOwn, Only
<1>13. SwappedHasSnapshot'
  BY <1>6 DEF ServiceParts, SwappedHasSnapshot
<1>14. ServiceTypeOK'
  BY <1>1 DEF ServiceParts, ServiceTypeOK, Moved, Unlock
<1> QED
  BY <1>5, <1>7, <1>8, <1>10, <1>11, <1>12, <1>13, <1>14 DEF ServiceParts

\* SwapOutFails keeps the invariant of the service.
LEMMA SwapOutFailsKeeps ==
  ASSUME ContextInv, ServiceParts, NEW t \in Threads, SwapOutFails(t)
  PROVE  ServiceParts'
<1>1. /\ contexts' = contexts /\ nextContextId' = nextContextId /\ freeSequences' = freeSequences
      /\ At(t, "callback") /\ Return(t) /\ Unlock
      /\ UNCHANGED <<conversations, kv, snapshots, initialized>>
  BY DEF SwapOutFails, Saved
<1>2. \A x \in SequenceIds : IsFree(x)' => IsFree(x)
  BY <1>1 DEF IsFree
<1>3. kv \in [SequenceIds -> Seq(ContextIds)]
  BY DEF ServiceParts, ServiceTypeOK
<1> QED
  BY <1>1, <1>2, <1>3, FailKeeps

\* SwapInFails keeps the invariant of the service.
LEMMA SwapInFailsKeeps ==
  ASSUME ContextInv, ServiceParts, NEW t \in Threads, SwapInFails(t)
  PROVE  ServiceParts'
<1> DEFINE s == call.sequence
<1>1. /\ contexts' = contexts /\ nextContextId' = nextContextId
      /\ freeSequences' = Append(freeSequences, s) /\ call.stage = "loading"
      /\ At(t, "callback") /\ Return(t) /\ Unlock
      /\ kv' = [kv EXCEPT ![s] = <<>>]
      /\ UNCHANGED <<conversations, snapshots, initialized>>
  BY DEF SwapInFails, Loaded, LoadFailed
<1>2. s \in SequenceIds /\ freeSequences \in Seq(SequenceIds)
  BY <1>1 DEF ContextInv, CallSound, ContextTypeOK
<1> HIDE DEF s
<1>3. \A x \in SequenceIds : IsFree(x)' => IsFree(x) \/ x = s
  BY <1>1, <1>2 DEF IsFree
<1>4. kv' \in [SequenceIds -> Seq(ContextIds)] /\ kv'[s] = <<>> /\ \A x \in SequenceIds : x # s => kv'[x] = kv[x]
  BY <1>1, <1>2, CacheSet DEF ServiceParts, ServiceTypeOK
<1>5. /\ \A x \in SequenceIds : kv'[x] = kv[x] \/ kv'[x] = <<>>
      /\ \A x \in SequenceIds : IsFree(x)' => IsFree(x) \/ kv'[x] = <<>>
  BY <1>3, <1>4
<1> QED
  BY <1>1, <1>4, <1>5, FailKeeps
----------------------------------------------------------------------------
(* What a checkpoint leaves behind.                                        *)
Checkpointed(t, v, s) ==
  /\ v \in Resident /\ v \in Live /\ s \in SequenceIds /\ call.stage = "saving" /\ Saved(TRUE)
  /\ kv' \in [SequenceIds -> Seq(ContextIds)] /\ kv'[s] = <<>>
  /\ \A x \in SequenceIds : x # s => kv'[x] = kv[x]
  /\ DOMAIN snapshots' = DOMAIN snapshots \cup {v}
  /\ DOMAIN snapshots' \subseteq ContextIds /\ snapshots' \in [DOMAIN snapshots' -> Seq(ContextIds)]
  /\ SnapshotsOwn'
  /\ Holds(t) /\ conversation = t /\ \A u \in Threads : ~thread[u].created
  /\ \A u \in Threads : u # t => ~Holds(u)
  /\ freeSequences' = freeSequences
  /\ UNCHANGED <<conversation, conversations, initialized>>

\* What is known of the victim when its checkpoint is written.
LEMMA CheckpointFacts ==
  ASSUME ContextInv, ServiceParts, NEW t \in Threads, SwapOutContext(t),
         NEW v, v = call.victim, NEW s, s = contexts[v].sequence
  PROVE  Checkpointed(t, v, s)
<1>1. /\ call.stage = "saving" /\ Saved(TRUE) /\ At(t, "callback")
      /\ snapshots' = With(snapshots, v, kv[s]) /\ kv' = [kv EXCEPT ![s] = <<>>]
      /\ UNCHANGED <<conversation, conversations, initialized>>
  BY DEF SwapOutContext
<1>2. v \in Resident /\ v \in Live /\ s \in SequenceIds /\ v \in ContextIds /\ freeSequences' = freeSequences
  <2>1. v \in Resident
    BY <1>1 DEF ContextInv, CallSound
  <2> QED
    BY <1>1, <2>1, ContextFacts DEF Saved
<1>3. Holds(t) /\ ~thread[t].created
  BY <1>1 DEF At, Holds, Holding, ServiceParts, LeaseExact, Leased
<1>4. /\ conversation = t /\ \A u \in Threads : ~thread[u].created
      /\ \A u \in Threads : u # t => ~Holds(u)
  BY <1>3, OneGenerates
<1>5. /\ kv' \in [SequenceIds -> Seq(ContextIds)] /\ kv'[s] = <<>>
      /\ \A x \in SequenceIds : x # s => kv'[x] = kv[x]
  BY <1>1, <1>2, CacheSet DEF ServiceParts, ServiceTypeOK
<1>6. kv[s] \in Seq(ContextIds) /\ snapshots \in [DOMAIN snapshots -> Seq(ContextIds)]
  BY <1>2 DEF ServiceParts, ServiceTypeOK
<1>7. /\ DOMAIN snapshots' = DOMAIN snapshots \cup {v}
      /\ snapshots' \in [DOMAIN snapshots \cup {v} -> Seq(ContextIds)]
      /\ snapshots'[v] = kv[s] /\ \A d \in DOMAIN snapshots : d # v => snapshots'[d] = snapshots[d]
  <2> DEFINE f == With(snapshots, v, kv[s])
  <2>1. /\ DOMAIN f = DOMAIN snapshots \cup {v}
        /\ f \in [DOMAIN snapshots \cup {v} -> Seq(ContextIds)]
        /\ f[v] = kv[s] /\ \A d \in DOMAIN snapshots : d # v => f[d] = snapshots[d]
    BY <1>6 DEF With
  <2>2. snapshots' = f
    BY <1>1
  <2> HIDE DEF f
  <2> QED
    BY <2>1, <2>2
<1>8. DOMAIN snapshots' \subseteq ContextIds /\ snapshots' \in [DOMAIN snapshots' -> Seq(ContextIds)]
  BY <1>2, <1>7 DEF ServiceParts, ServiceTypeOK
<1>9. Only(kv[s], v)
  BY <1>2, <1>4, NobodyFresh DEF ServiceParts, CachesOwn
<1>10. SnapshotsOwn'
  <2> SUFFICES ASSUME NEW d \in DOMAIN snapshots' PROVE Only(snapshots'[d], d)
    BY DEF SnapshotsOwn, Only
  <2>1. CASE d = v
    BY <1>7, <1>9, <2>1
  <2>2. CASE d # v
    BY <1>7, <2>2 DEF ServiceParts, SnapshotsOwn
  <2> QED
    BY <2>1, <2>2
<1> QED
  BY <1>1, <1>2, <1>3, <1>4, <1>5, <1>7, <1>8, <1>10 DEF Checkpointed

(* The victim is saved, and its sequence goes to a new context.            *)
LEMMA SwapOutNewKeeps ==
  ASSUME ContextInv, ContextInv', ServiceParts, NEW t \in Threads, SwapOutContext(t),
         call.context = NewContext, thread[t].agent \in Agents, thread[t].parent \in Parents
  PROVE  ServiceParts'
<1>0. PICK v, s, a, p : /\ v = call.victim /\ s = contexts[v].sequence
                        /\ a = thread[t].agent /\ p = thread[t].parent
  OBVIOUS
<1>1. /\ v \in Resident /\ v \in Live /\ s \in SequenceIds /\ call.stage = "saving" /\ Saved(TRUE)
      /\ kv' \in [SequenceIds -> Seq(ContextIds)] /\ kv'[s] = <<>>
      /\ \A x \in SequenceIds : x # s => kv'[x] = kv[x]
      /\ DOMAIN snapshots' = DOMAIN snapshots \cup {v}
      /\ DOMAIN snapshots' \subseteq ContextIds /\ snapshots' \in [DOMAIN snapshots' -> Seq(ContextIds)]
      /\ SnapshotsOwn'
      /\ conversation = t /\ \A u \in Threads : ~thread[u].created
      /\ \A u \in Threads : u # t => ~Holds(u)
      /\ freeSequences' = freeSequences
      /\ UNCHANGED <<conversation, conversations, initialized>>
  <2>1. Checkpointed(t, v, s)
    BY <1>0, CheckpointFacts
  <2> QED
    BY <2>1 DEF Checkpointed
<1>2. call.agent = a /\ thread[t].pc = "callback"
  BY <1>0 DEF SwapOutContext, At, ServiceParts, LeaseExact
<1>3. Create(SwapOut(v), SwapOutStats, a, s) /\ nextContextId <= MaxContextId
  BY <1>0, <1>1, <1>2 DEF Saved, ContextInv, CallSound
<1>4. /\ SwapOut(v) \in [Live -> Entry] /\ SwapOut(v)[v].sequence = NoSequence
      /\ \A d \in Live : d # v => SwapOut(v)[d] = contexts[d]
      /\ \A d \in Live : SwapOut(v)[d].pins = contexts[d].pins
  BY <1>1, SwapOutFacts
<1>5. MadeOn(SwapOut(v), nextContextId, s, a)
  BY <1>3, <1>4, CreateMakes
<1>6. Lease(t, a, p, nextContextId, s, TRUE)
  BY <1>0 DEF SwapOutContext
<1>7. /\ \A d \in Live : SwapOut(v)[d].sequence \in {contexts[d].sequence, NoSequence}
      /\ \A d \in Resident : contexts[d].sequence = s => SwapOut(v)[d].sequence = NoSequence
      /\ \A d \in Live : SwapOut(v)[d].sequence = NoSequence => d \notin Resident \/ d \in DOMAIN snapshots'
  <2>1. \A d \in Resident : contexts[d].sequence = s => d = v
    BY <1>0, <1>1, ContextFacts
  <2> QED
    BY <1>1, <1>4, <2>1 DEF Resident
<1>8. /\ \A x \in SequenceIds : IsFree(x)' => IsFree(x)
      /\ \A d \in DOMAIN snapshots' : d \in Live \/ d \in DOMAIN snapshots
      /\ DOMAIN snapshots \subseteq DOMAIN snapshots'
  BY <1>1 DEF IsFree
<1>9. a \in Agents /\ p \in Parents
  BY <1>0
<1>10. PICK table : table = SwapOut(v)
  OBVIOUS
<1>11. /\ \A d \in Live : table[d].pins = contexts[d].pins
       /\ \A d \in Live : table[d].sequence \in {contexts[d].sequence, NoSequence}
       /\ \A d \in Resident : contexts[d].sequence = s => table[d].sequence = NoSequence
       /\ \A d \in Live : table[d].sequence = NoSequence => d \notin Resident \/ d \in DOMAIN snapshots'
       /\ MadeOn(table, nextContextId, s, a)
  BY <1>4, <1>5, <1>7, <1>10
<1>12. /\ \A u \in Threads : u # t => ~Holds(u)
       /\ conversation \in {t, NoThread} /\ conversation' = t
       /\ thread[t].pc \in {"idle", "callback"} /\ ~thread[t].created
  BY <1>1, <1>2
<1> HIDE DEF SwapOut
<1> QED
  BY <1>1, <1>6, <1>8, <1>9, <1>11, <1>12, LeaseNewKeeps

(* The victim is saved, and its sequence is handed on to the context that  *)
(* is wanted, to be loaded.                                                *)
LEMMA SwapOutLoadKeeps ==
  ASSUME ContextInv, ServiceParts, NEW t \in Threads, SwapOutContext(t), call.context # NewContext
  PROVE  ServiceParts'
<1>0. PICK v, s : v = call.victim /\ s = contexts[v].sequence
  OBVIOUS
<1>1. /\ v \in Resident /\ v \in Live /\ s \in SequenceIds /\ call.stage = "saving" /\ Saved(TRUE)
      /\ kv' \in [SequenceIds -> Seq(ContextIds)] /\ kv'[s] = <<>>
      /\ \A x \in SequenceIds : x # s => kv'[x] = kv[x]
      /\ DOMAIN snapshots' = DOMAIN snapshots \cup {v}
      /\ DOMAIN snapshots' \subseteq ContextIds /\ snapshots' \in [DOMAIN snapshots' -> Seq(ContextIds)]
      /\ SnapshotsOwn'
      /\ Holds(t) /\ conversation = t /\ \A u \in Threads : ~thread[u].created
      /\ \A u \in Threads : u # t => ~Holds(u)
      /\ freeSequences' = freeSequences
      /\ UNCHANGED <<conversation, conversations, initialized>>
  <2>1. Checkpointed(t, v, s)
    BY <1>0, CheckpointFacts
  <2> QED
    BY <2>1 DEF Checkpointed
<1>2. contexts' = SwapOut(v) /\ nextContextId' = nextContextId /\ call'.agent = call.agent
  BY <1>0, <1>1 DEF Saved, Load
<1>3. thread' = thread /\ At(t, "callback")
  BY DEF SwapOutContext
<1>4. /\ SwapOut(v) \in [Live -> Entry] /\ SwapOut(v)[v].sequence = NoSequence
      /\ \A d \in Live : d # v => SwapOut(v)[d] = contexts[d]
      /\ \A d \in Live : SwapOut(v)[d].pins = contexts[d].pins
  BY <1>1, SwapOutFacts
<1> HIDE DEF SwapOut
<1>5. Live' = Live /\ Resident' = Resident \ {v} /\ nextContextId \in Nat
  <2>1. Live' = Live
    BY <1>2, <1>4 DEF Live
  <2> QED
    BY <1>1, <1>2, <1>4, <2>1, ContextFacts, ContextAssumption DEF Resident
<1>6. Moved(t, thread'[t])
  BY <1>3 DEF Moved, ServiceParts, ServiceTypeOK
<1>7. LeaseExact(t)' /\ Holds(t)'
  <2>1. /\ thread'[t].pc = "callback" /\ ~thread'[t].created /\ call'.agent = thread'[t].agent
    BY <1>1, <1>2, <1>3 DEF At, ServiceParts, LeaseExact
  <2>2. ~thread'[t].ok
    BY <1>3 DEF At, ServiceParts, LeaseExact
  <2> QED
    BY <2>1, <2>2, CallbackLease
<1>8. MutexExact'
  BY <1>1, <1>6, <1>7, MutexKept DEF ServiceParts
<1>9. \A u \in Threads : LeaseExact(u)'
  BY <1>1, <1>2, <1>5, <1>6, <1>7, LeasesInside DEF ServiceParts
<1>10. PinsExact'
  <2>1. \A c : UsedBy(t, c)' <=> UsedBy(t, c)
    BY <1>3 DEF UsedBy
  <2>2. \A c \in Live' : contexts'[c].pins = contexts[c].pins
    BY <1>2, <1>4, <1>5
  <2> QED
    BY <1>5, <1>6, <2>1, <2>2, PinsKept DEF ServiceParts
<1>11. /\ \A d : Dropped(d, Leaving) => Dropped(d, Leaving)'
       /\ \A d : Dropped(d, {"clear", "drop"}) => Dropped(d, {"clear", "drop"})'
       /\ \A x : Clears(x) => Clears(x)'
  BY <1>3, <1>6, OthersDrop DEF At, Leaving
<1>12. SequencesLeft'
  <2>1. \A x \in SequenceIds : IsFree(x)' => IsFree(x)
    BY <1>1 DEF IsFree
  <2> QED
    BY <1>1, <1>11, <2>1 DEF ServiceParts, SequencesLeft
<1>13. SnapshotsLeft' /\ HistoriesLeft'
  <2>1. v < nextContextId
    BY <1>1, <1>5, ContextFacts
  <2> QED
    BY <1>1, <1>2, <1>5, <1>11, <2>1 DEF ServiceParts, SnapshotsLeft, HistoriesLeft
<1>14. CachesOwn'
  <2> SUFFICES ASSUME NEW d \in Resident' PROVE Only(kv'[contexts'[d].sequence], d)
    BY DEF CachesOwn, Only
  <2>1. d \in Resident /\ d # v /\ contexts'[d] = contexts[d]
    BY <1>2, <1>4, <1>5, ContextFacts
  <2>2. contexts[d].sequence \in SequenceIds /\ contexts[d].sequence # s
    BY <1>0, <1>1, <2>1, ContextFacts
  <2>3. Only(kv[contexts[d].sequence], d)
    BY <1>1, <2>1, NobodyFresh DEF ServiceParts, CachesOwn
  <2> QED
    BY <1>1, <2>1, <2>2, <2>3
<1>15. SwappedHasSnapshot'
  BY <1>1, <1>5 DEF ServiceParts, SwappedHasSnapshot
<1>16. ServiceTypeOK'
  BY <1>1, <1>3 DEF ServiceParts, ServiceTypeOK
<1> QED
  BY <1>1, <1>8, <1>9, <1>10, <1>12, <1>13, <1>14, <1>15, <1>16 DEF ServiceParts

(* The checkpoint of the wanted context is restored.                       *)
LEMMA SwapInContextKeeps ==
  ASSUME ContextInv, ContextInv', ServiceParts, NEW t \in Threads, SwapInContext(t),
         thread[t].agent \in Agents, thread[t].parent \in Parents
  PROVE  ServiceParts'
<1>0. PICK c, s : c = call.context /\ s = call.sequence
  OBVIOUS
<1>1. /\ At(t, "callback") /\ c \in DOMAIN snapshots /\ Loaded(TRUE)
      /\ kv' = [kv EXCEPT ![s] = snapshots[c]]
      /\ snapshots' \in {snapshots, Without(snapshots, c)}
      /\ Lease(t, thread[t].agent, thread[t].parent, c, s, FALSE)
      /\ UNCHANGED <<conversation, conversations, initialized>>
  BY <1>0 DEF SwapInContext
<1>2. /\ c \in Live /\ c \notin Resident /\ s \in SequenceIds /\ InHand(s) /\ ~InUse(s)
      /\ Live' = Live /\ Resident' = Resident \cup {c}
      /\ contexts'[c].sequence = s
      /\ \A d \in Live : d # c => contexts'[d].sequence = contexts[d].sequence
      /\ \A d \in Live : d # c => contexts'[d].pins = contexts[d].pins
      /\ contexts'[c].pins = contexts[c].pins + 1
      /\ nextContextId' = nextContextId /\ call' = Idle
  BY <1>0, <1>1, LoadedGrants
<1>3. /\ Live \subseteq 1 .. nextContextId - 1 /\ nextContextId \in Nat /\ c \in ContextIds
      /\ \A d \in Resident : d \in Live /\ contexts[d].sequence \in SequenceIds
  BY <1>2, ContextFacts, ContextAssumption
<1>4. Holds(t) /\ ~thread[t].created
  BY <1>1 DEF At, Holds, Holding, ServiceParts, LeaseExact, Leased
<1>5. /\ conversation = t /\ \A u \in Threads : ~thread[u].created
      /\ \A u \in Threads : u # t => ~Holds(u) /\ thread[u].pc \notin {"infer", "unpin"}
  BY <1>4, OneGenerates
<1>6. Moved(t, [pc |-> "infer", agent |-> thread[t].agent, parent |-> thread[t].parent, context |-> c,
                sequence |-> s, created |-> FALSE, ok |-> FALSE])
  BY <1>1, <1>2, <1>3, LeaseMoves DEF ServiceParts, ServiceTypeOK
<1>7. /\ thread'[t].pc = "infer" /\ thread'[t].context = c /\ thread'[t].sequence = s
      /\ thread'[t].created = FALSE /\ thread'[t].ok = FALSE
      /\ Moved(t, thread'[t])
  BY <1>6 DEF Moved
<1>8. LeaseExact(t)' /\ Holds(t)'
  BY <1>2, <1>3, <1>7, InferLease
<1>9. MutexExact'
  BY <1>1, <1>4, <1>7, <1>8, MutexKept DEF ServiceParts
<1>10. \A u \in Threads : LeaseExact(u)'
  BY <1>2, <1>3, <1>5, <1>7, <1>8, LeasesInside DEF ServiceParts
<1>11. PinsExact'
  <2>1. \A u \in Threads : thread[u].pc \notin {"infer", "unpin"}
    BY <1>1, <1>5 DEF At
  <2>2. contexts'[c].pins = IF c \in Live THEN contexts[c].pins + 1 ELSE 1
    BY <1>2
  <2> QED
    BY <1>2, <1>7, <2>1, <2>2, PinsTaken DEF ServiceParts
<1>12. /\ \A d : Dropped(d, Leaving) => Dropped(d, Leaving)'
       /\ \A d : Dropped(d, {"clear", "drop"}) => Dropped(d, {"clear", "drop"})'
       /\ \A x : Clears(x) => Clears(x)'
  BY <1>1, <1>7, OthersDrop DEF At, Leaving
<1>13. snapshots[c] \in Seq(ContextIds) /\ Only(snapshots[c], c)
  BY <1>1 DEF ServiceParts, ServiceTypeOK, SnapshotsOwn
<1>14. /\ kv' \in [SequenceIds -> Seq(ContextIds)] /\ kv'[s] = snapshots[c]
       /\ \A x \in SequenceIds : x # s => kv'[x] = kv[x]
  BY <1>1, <1>2, <1>13, CacheSet DEF ServiceParts, ServiceTypeOK
<1>15. /\ DOMAIN snapshots' \subseteq DOMAIN snapshots /\ DOMAIN snapshots \ {c} \subseteq DOMAIN snapshots'
       /\ snapshots' \in [DOMAIN snapshots' -> Seq(ContextIds)]
       /\ \A d \in DOMAIN snapshots' : snapshots'[d] = snapshots[d]
  <2> DEFINE f == Without(snapshots, c)
  <2>1. snapshots \in [DOMAIN snapshots -> Seq(ContextIds)]
    BY DEF ServiceParts, ServiceTypeOK
  <2>2. /\ DOMAIN f = DOMAIN snapshots \ {c} /\ f \in [DOMAIN snapshots \ {c} -> Seq(ContextIds)]
        /\ \A d \in DOMAIN snapshots \ {c} : f[d] = snapshots[d]
    BY <2>1, WithoutIs
  <2>3. snapshots' = snapshots \/ snapshots' = f
    BY <1>1
  <2> HIDE DEF f
  <2>4. CASE snapshots' = f
    BY <2>2, <2>4
  <2> QED
    BY <2>1, <2>3, <2>4
<1>16. SequencesLeft'
  <2>1. ~IsFree(s)'
    <3>1. InUse(s)'
      BY <1>2 DEF InUse
    <3> QED
      BY <1>2, <3>1, FreeNext DEF SequencesFree
  <2>2. \A x \in SequenceIds : IsFree(x)' => IsFree(x)
    BY DEF SwapInContext, Loaded, IsFree
  <2> QED
    BY <1>12, <1>14, <2>1, <2>2 DEF ServiceParts, SequencesLeft
<1>17. SnapshotsLeft' /\ HistoriesLeft'
  BY <1>1, <1>2, <1>12, <1>15 DEF ServiceParts, SnapshotsLeft, HistoriesLeft
<1>18. CachesOwn'
  <2> SUFFICES ASSUME NEW d \in Resident' PROVE Only(kv'[contexts'[d].sequence], d)
    BY DEF CachesOwn, Only
  <2>1. CASE d = c
    BY <1>2, <1>13, <1>14, <2>1
  <2>2. CASE d # c
    <3>1. d \in Resident /\ contexts'[d].sequence = contexts[d].sequence
      BY <1>2, <1>3, <2>2
    <3>2. contexts[d].sequence \in SequenceIds /\ contexts[d].sequence # s
      BY <1>2, <1>3, <3>1 DEF InUse
    <3>3. Only(kv[contexts[d].sequence], d)
      BY <1>5, <3>1, NobodyFresh DEF ServiceParts, CachesOwn
    <3> QED
      BY <1>14, <3>1, <3>2, <3>3
  <2> QED
    BY <2>1, <2>2
<1>19. SnapshotsOwn'
  BY <1>15 DEF ServiceParts, SnapshotsOwn, Only
<1>20. SwappedHasSnapshot'
  BY <1>1, <1>2, <1>15 DEF ServiceParts, SwappedHasSnapshot
<1>21. ServiceTypeOK'
  BY <1>1, <1>7, <1>14, <1>15 DEF ServiceParts, ServiceTypeOK, Moved
<1> QED
  BY <1>9, <1>10, <1>11, <1>16, <1>17, <1>18, <1>19, <1>20, <1>21 DEF ServiceParts
----------------------------------------------------------------------------
(* A turn is made, or it fails and is taken back: the cache of its         *)
(* sequence becomes `content'.                                             *)
LEMMA TurnFacts ==
  ASSUME ContextInv, ServiceParts, NEW t \in Threads, At(t, "infer"),
         NEW c, c = thread[t].context, NEW s, s = thread[t].sequence
  PROVE  /\ c \in Live /\ c \in Resident /\ c \in ContextIds
         /\ s \in SequenceIds /\ contexts[c].sequence = s
         /\ Holds(t) /\ conversation = t /\ ~thread[t].ok /\ kv[s] \in Seq(ContextIds)
         /\ \A d : d # c => ~Fresh(d)
         /\ ~thread[t].created => ~Fresh(c) /\ Only(kv[s], c)
<1>1. /\ c \in Live /\ s \in SequenceIds /\ contexts[c].sequence = s /\ ~thread[t].ok
  BY DEF ServiceParts, LeaseExact, At, Leased
<1>2. c \in Resident /\ c \in ContextIds
  BY <1>1, ContextFacts DEF Resident, SequenceIds, NoSequence
<1>3. Holds(t)
  BY DEF At, Holds, Holding
<1>4. conversation = t /\ \A u \in Threads : u # t => ~thread[u].created
  BY <1>3, OneGenerates
<1>5. /\ \A d : d # c => ~Fresh(d)
      /\ ~thread[t].created => ~Fresh(c)
  BY <1>4 DEF Fresh
<1>6. kv[s] \in Seq(ContextIds)
  BY <1>1 DEF ServiceParts, ServiceTypeOK
<1>7. ~thread[t].created => Only(kv[s], c)
  BY <1>1, <1>2, <1>5 DEF ServiceParts, CachesOwn
<1> QED
  BY <1>1, <1>2, <1>3, <1>4, <1>5, <1>6, <1>7

\* Turn keeps the invariant of the service.
LEMMA TurnKeeps ==
  ASSUME ContextInv, ContextInv', ServiceParts, NEW t \in Threads, At(t, "infer"),
         NEW c, c = thread[t].context, NEW s, s = thread[t].sequence,
         Moved(t, thread'[t]), thread'[t].pc = "unpin",
         thread'[t].context = c, thread'[t].sequence = s, thread'[t].agent = thread[t].agent,
         thread'[t].created = thread[t].created,
         thread'[t].ok => IF thread[t].created THEN MaxTurns > 0 ELSE Turns(c) < MaxTurns,
         NEW content \in Seq(ContextIds), kv' = [kv EXCEPT ![s] = content],
         (thread[t].created /\ ~thread'[t].ok) \/ Only(content, c),
         UNCHANGED <<contextVars, conversation, conversations, snapshots, initialized>>
  PROVE  ServiceParts'
<1>1. /\ contexts' = contexts /\ freeSequences' = freeSequences /\ nextContextId' = nextContextId
      /\ call' = call
  BY DEF contextVars
<1>2. Live' = Live /\ Resident' = Resident /\ nextContextId \in Nat
  BY <1>1, ContextFacts, ContextAssumption DEF Live, Resident
<1>3. /\ c \in Live /\ c \in Resident /\ s \in SequenceIds /\ contexts[c].sequence = s
      /\ Holds(t) /\ conversation = t /\ \A d : d # c => ~Fresh(d)
  BY TurnFacts
<1>4. /\ kv' \in [SequenceIds -> Seq(ContextIds)] /\ kv'[s] = content
      /\ \A x \in SequenceIds : x # s => kv'[x] = kv[x]
  BY <1>3, CacheSet DEF ServiceParts, ServiceTypeOK
<1>5. /\ \A d : Dropped(d, Leaving) => Dropped(d, Leaving)'
      /\ \A d : Dropped(d, {"clear", "drop"}) => Dropped(d, {"clear", "drop"})'
      /\ \A x : Clears(x) => Clears(x)'
  BY OthersDrop DEF At, Leaving
<1>6. LeaseExact(t)' /\ Holds(t)'
  <2>1. Turns(c)' = Turns(c)
    BY DEF Turns
  <2>2. /\ c \in 1 .. nextContextId - 1
        /\ thread[t].created => /\ c \notin DOMAIN snapshots \cup DOMAIN conversations
                                /\ contexts[c].owners = {thread[t].agent}
    BY <1>3 DEF ServiceParts, LeaseExact, At, Leased
  <2> QED
    BY <1>1, <1>2, <1>3, <2>1, <2>2 DEF LeaseExact, Holds, Holding, Leased, Leaving, SequenceIds
<1>7. MutexExact'
  BY <1>3, <1>6, MutexKept DEF ServiceParts
<1>8. \A u \in Threads : LeaseExact(u)'
  BY <1>1, <1>2, <1>3, <1>6, LeasesInside DEF ServiceParts
<1>9. PinsExact'
  <2>1. \A d : UsedBy(t, d)' <=> UsedBy(t, d)
    BY DEF UsedBy, At
  <2> QED
    BY <1>1, <1>2, <2>1, PinsKept DEF ServiceParts
<1>10. SequencesLeft'
  <2>1. ~IsFree(s)'
    <3>1. InUse(s)'
      BY <1>1, <1>2, <1>3 DEF InUse
    <3> QED
      BY <1>3, <3>1, FreeNext DEF SequencesFree
  <2>2. \A x \in SequenceIds : IsFree(x)' => IsFree(x)
    BY <1>1 DEF IsFree
  <2> QED
    BY <1>4, <1>5, <2>1, <2>2 DEF ServiceParts, SequencesLeft
<1>11. SnapshotsLeft' /\ HistoriesLeft'
  BY <1>1, <1>2, <1>5 DEF ServiceParts, SnapshotsLeft, HistoriesLeft
<1>12. CachesOwn'
  <2> SUFFICES ASSUME NEW d \in Resident, ~Fresh(d)'
               PROVE  Only(kv'[contexts[d].sequence], d)
    BY <1>1, <1>2 DEF CachesOwn, Only
  <2>1. CASE d = c
    <3>1. ~(thread[t].created /\ ~thread'[t].ok)
      BY <2>1 DEF Fresh
    <3> QED
      BY <1>3, <1>4, <2>1, <3>1
  <2>2. CASE d # c
    <3>1. contexts[d].sequence \in SequenceIds /\ contexts[d].sequence # s
      BY <1>3, <2>2, ContextFacts
    <3>2. Only(kv[contexts[d].sequence], d)
      BY <1>3, <2>2 DEF ServiceParts, CachesOwn
    <3> QED
      BY <1>4, <3>1, <3>2
  <2> QED
    BY <2>1, <2>2
<1>13. SnapshotsOwn' /\ SwappedHasSnapshot'
  BY <1>2 DEF ServiceParts, SnapshotsOwn, Only, SwappedHasSnapshot
<1>14. ServiceTypeOK'
  BY <1>4 DEF ServiceParts, ServiceTypeOK, Moved
<1> QED
  BY <1>7, <1>8, <1>9, <1>10, <1>11, <1>12, <1>13, <1>14 DEF ServiceParts

\* Infer keeps the invariant of the service.
LEMMA InferKeeps ==
  ASSUME ContextInv, ContextInv', ServiceParts, NEW t \in Threads, Infer(t)
  PROVE  ServiceParts'
<1>0. PICK c, s, base : /\ c = thread[t].context /\ s = thread[t].sequence
                        /\ base = TurnBase(t)
  OBVIOUS
<1>1. /\ At(t, "infer") /\ Len(base) < MaxTurns /\ Turns(c) < MaxTurns
      /\ kv' = [kv EXCEPT ![s] = Append(base, c)]
      /\ thread' = [thread EXCEPT ![t].pc = "unpin", ![t].ok = TRUE]
      /\ UNCHANGED <<contextVars, conversation, conversations, snapshots, initialized>>
  BY <1>0 DEF Infer
<1>2. /\ c \in ContextIds /\ kv[s] \in Seq(ContextIds)
      /\ ~thread[t].created => Only(kv[s], c)
  BY <1>0, <1>1, TurnFacts
<1>3. base \in Seq(ContextIds) /\ Only(base, c) /\ (thread[t].created => base = <<>>)
  BY <1>0, <1>2 DEF TurnBase, Only
<1>4. Append(base, c) \in Seq(ContextIds) /\ Only(Append(base, c), c)
  BY <1>2, <1>3 DEF Only
<1>5. thread[t] \in Request
  BY DEF ServiceParts, ServiceTypeOK
<1> DEFINE r == [thread[t] EXCEPT !.pc = "unpin", !.ok = TRUE]
<1>6. /\ r \in Request /\ r.pc = "unpin" /\ r.ok = TRUE /\ r.context = c /\ r.sequence = s
      /\ r.agent = thread[t].agent /\ r.created = thread[t].created
  BY <1>0, <1>5 DEF Request
<1>7. thread' = [thread EXCEPT ![t] = r]
  BY <1>1 DEF ServiceParts, ServiceTypeOK
<1> HIDE DEF r
<1>8. thread'[t] = r /\ Moved(t, thread'[t])
  BY <1>6, <1>7, ThreadMoves DEF ServiceParts, ServiceTypeOK, Moved
<1>9. IF thread[t].created THEN MaxTurns > 0 ELSE Turns(c) < MaxTurns
  BY <1>1, <1>3
<1> QED
  BY <1>0, <1>1, <1>4, <1>6, <1>8, <1>9, TurnKeeps

\* InferFails keeps the invariant of the service.
LEMMA InferFailsKeeps ==
  ASSUME ContextInv, ContextInv', ServiceParts, NEW t \in Threads, InferFails(t)
  PROVE  ServiceParts'
<1>0. PICK c, s : c = thread[t].context /\ s = thread[t].sequence
  OBVIOUS
<1>1. PICK content \in RolledBack(t) : kv' = [kv EXCEPT ![s] = content]
  BY <1>0 DEF InferFails
<1>2. /\ At(t, "infer") /\ Goto(t, "unpin")
      /\ UNCHANGED <<contextVars, conversation, conversations, snapshots, initialized>>
  BY DEF InferFails
<1>3. /\ c \in ContextIds /\ kv[s] \in Seq(ContextIds) /\ ~thread[t].ok
      /\ ~thread[t].created => Only(kv[s], c)
  BY <1>0, <1>2, TurnFacts
<1>4. content \in {kv[s], <<>>}
  BY <1>0, <1>1 DEF RolledBack, TurnBase
<1>5. content \in Seq(ContextIds) /\ (thread[t].created \/ Only(content, c))
  <2>1. <<>> \in Seq(ContextIds) /\ Only(<<>>, c)
    BY DEF Only
  <2>2. CASE content = <<>>
    BY <2>1, <2>2
  <2>3. CASE content = kv[s]
    BY <1>3, <2>3
  <2> QED
    BY <1>4, <2>2, <2>3
<1>6. /\ Moved(t, thread'[t]) /\ thread'[t].pc = "unpin"
      /\ thread'[t].agent = thread[t].agent
      /\ thread'[t].context = c /\ thread'[t].sequence = s
      /\ thread'[t].created = thread[t].created /\ thread'[t].ok = thread[t].ok
  BY <1>0, <1>2, GotoMoves DEF ServiceParts, ServiceTypeOK
<1>7. /\ thread'[t].ok => IF thread[t].created THEN MaxTurns > 0 ELSE Turns(c) < MaxTurns
      /\ (thread[t].created /\ ~thread'[t].ok) \/ Only(content, c)
  BY <1>3, <1>5, <1>6
<1> QED
  BY <1>0, <1>1, <1>2, <1>5, <1>6, <1>7, TurnKeeps

(* The pin is given back; the lease goes on.                               *)
LEMMA UnpinKeeps ==
  ASSUME ContextInv, ServiceParts, NEW t \in Threads, Unpin(t)
  PROVE  ServiceParts'
<1>0. PICK c : c = thread[t].context
  OBVIOUS
<1>1. /\ At(t, "unpin") /\ Finish(c) /\ Goto(t, "settle")
      /\ UNCHANGED <<conversation, conversations, kv, snapshots, initialized>>
  BY <1>0 DEF Unpin
<1>2. /\ Edited(c) /\ contexts'[c].pins = contexts[c].pins - 1
      /\ contexts'[c].owners = contexts[c].owners
  BY <1>1, FinishEdits
<1>3. /\ c \in Live /\ Live' = Live /\ Resident' = Resident
      /\ nextContextId' = nextContextId /\ call' = call
      /\ \A d \in Live : contexts'[d].sequence = contexts[d].sequence
      /\ \A d \in Live : d # c => contexts'[d] = contexts[d]
      /\ nextContextId \in Nat /\ \A d \in Resident : d \in Live
      /\ freeSequences' = freeSequences
  BY <1>1, <1>2, ContextFacts, ContextAssumption DEF Edited, Finish
<1>4. /\ Moved(t, thread'[t]) /\ thread'[t].pc = "settle"
      /\ thread'[t].agent = thread[t].agent
      /\ thread'[t].context = c /\ thread'[t].sequence = thread[t].sequence
      /\ thread'[t].created = thread[t].created /\ thread'[t].ok = thread[t].ok
  BY <1>0, <1>1, GotoMoves DEF ServiceParts, ServiceTypeOK
<1>5. Holds(t) /\ thread[t].pc = "unpin"
  BY <1>1 DEF At, Holds, Holding
<1>6. /\ conversation = t
      /\ \A u \in Threads : u # t => thread[u].pc \notin {"infer", "unpin"}
  BY <1>5, OneGenerates
<1>7. /\ \A d : Dropped(d, Leaving) => Dropped(d, Leaving)'
      /\ \A d : Dropped(d, {"clear", "drop"}) => Dropped(d, {"clear", "drop"})'
      /\ \A x : Clears(x) => Clears(x)'
  BY <1>4, <1>5, OthersDrop DEF Leaving
<1>8. LeaseExact(t)' /\ Holds(t)'
  <2>1. Turns(c)' = Turns(c)
    BY <1>1 DEF Turns
  <2>2. /\ c \in 1 .. nextContextId - 1 /\ thread[t].sequence \in SequenceIds
        /\ contexts[c].sequence = thread[t].sequence
        /\ thread[t].created => /\ c \notin DOMAIN snapshots \cup DOMAIN conversations
                                /\ contexts[c].owners = {thread[t].agent}
        /\ thread[t].ok => IF thread[t].created THEN MaxTurns > 0 ELSE Turns(c) < MaxTurns
    BY <1>0, <1>3, <1>5 DEF ServiceParts, LeaseExact, Leased
  <2> QED
    BY <1>1, <1>2, <1>3, <1>4, <2>1, <2>2 DEF LeaseExact, Holds, Holding, Leased, Leaving, SequenceIds
<1>9. MutexExact'
  BY <1>1, <1>4, <1>5, <1>8, MutexKept DEF ServiceParts
<1>10. \A u \in Threads : LeaseExact(u)'
  BY <1>3, <1>4, <1>6, <1>8, LeasesInside DEF ServiceParts
<1>11. PinsExact'
  BY <1>0, <1>2, <1>3, <1>4, <1>5, <1>6, PinsGiven DEF ServiceParts
<1>12. SequencesLeft'
  BY <1>1, <1>3, <1>7 DEF ServiceParts, SequencesLeft, IsFree
<1>13. SnapshotsLeft' /\ HistoriesLeft'
  BY <1>1, <1>3, <1>7 DEF ServiceParts, SnapshotsLeft, HistoriesLeft
<1>14. CachesOwn'
  <2>1. \A d : Fresh(d) => Fresh(d)'
    BY <1>0, <1>4, FreshKept
  <2> QED
    BY <1>1, <1>3, <2>1 DEF ServiceParts, CachesOwn, Only
<1>15. SnapshotsOwn' /\ SwappedHasSnapshot'
  BY <1>1, <1>3 DEF ServiceParts, SnapshotsOwn, Only, SwappedHasSnapshot
<1>16. ServiceTypeOK'
  BY <1>1, <1>4 DEF ServiceParts, ServiceTypeOK, Moved
<1> QED
  BY <1>9, <1>10, <1>11, <1>12, <1>13, <1>14, <1>15, <1>16 DEF ServiceParts
----------------------------------------------------------------------------
(* The lease of a thread at its last step.                                 *)
LEMMA SettleFacts ==
  ASSUME ContextInv, ServiceParts, NEW t \in Threads, At(t, "settle"),
         NEW c, c = thread[t].context
  PROVE  /\ c \in 1 .. nextContextId - 1 /\ c \in ContextIds /\ thread[t].sequence \in SequenceIds
         /\ c \in Live \/ Dropped(c, Leaving)
         /\ c \in Live => contexts[c].sequence = thread[t].sequence /\ contexts[c].pins = 0
         /\ thread[t].created => /\ c \notin DOMAIN snapshots \cup DOMAIN conversations
                                 /\ c \in Live => contexts[c].owners = {thread[t].agent}
         /\ thread[t].ok => IF thread[t].created THEN MaxTurns > 0 ELSE Turns(c) < MaxTurns
         /\ Holds(t) /\ conversation = t
         /\ \A u \in Threads : u # t => ~thread[u].created
         /\ \A d : d # c => ~Fresh(d)
         /\ ~(thread[t].created /\ ~thread[t].ok) => ~Fresh(c)
<1>1. Holds(t) /\ thread[t].pc = "settle"
  BY DEF At, Holds, Holding
<1>2. /\ conversation = t /\ \A u \in Threads : u # t => ~thread[u].created
      /\ \A u \in Threads : thread[u].pc \notin {"infer", "unpin"}
  BY <1>1, OneGenerates
<1>3. /\ \A d : d # c => ~Fresh(d)
      /\ ~(thread[t].created /\ ~thread[t].ok) => ~Fresh(c)
  BY <1>2 DEF Fresh
<1>4. \A d \in Live : contexts[d].pins = 0
  BY <1>2, NobodyUses DEF ServiceParts, PinsExact
<1>5. /\ c \in 1 .. nextContextId - 1 /\ thread[t].sequence \in SequenceIds
      /\ c \in Live \/ Dropped(c, Leaving)
      /\ c \in Live => contexts[c].sequence = thread[t].sequence
      /\ thread[t].created => /\ c \notin DOMAIN snapshots \cup DOMAIN conversations
                              /\ c \in Live => contexts[c].owners = {thread[t].agent}
      /\ thread[t].ok => IF thread[t].created THEN MaxTurns > 0 ELSE Turns(c) < MaxTurns
  BY <1>1 DEF ServiceParts, LeaseExact, Leased
<1>6. c \in ContextIds
  BY <1>5, ContextFacts, ContextAssumption DEF ContextIds
<1> QED
  BY <1>1, <1>2, <1>3, <1>4, <1>5, <1>6

(* A request ends and gives the mutex back; the manager, the caches and    *)
(* the checkpoints stay as they are.                                       *)
LEMMA EndKeeps ==
  ASSUME ContextInv, ServiceParts, NEW t \in Threads, At(t, "settle"), Return(t), Unlock,
         NEW c, c = thread[t].context,
         \A d \in Resident : ~Fresh(d),
         DOMAIN conversations' \subseteq DOMAIN conversations \cup {c},
         conversations' \in [DOMAIN conversations' -> 0 .. MaxTurns],
         UNCHANGED <<contextVars, kv, snapshots, initialized>>
  PROVE  ServiceParts'
<1>1. /\ contexts' = contexts /\ freeSequences' = freeSequences /\ nextContextId' = nextContextId
      /\ call' = call
  BY DEF contextVars
<1>2. Live' = Live /\ Resident' = Resident /\ nextContextId \in Nat
  BY <1>1, ContextFacts, ContextAssumption DEF Live, Resident
<1>3. thread'[t] = NoRequest /\ Moved(t, thread'[t])
  BY ReturnMoves DEF ServiceParts, ServiceTypeOK, Moved
<1>4. /\ Holds(t) /\ conversation = t /\ c \in 1 .. nextContextId - 1 /\ c \in ContextIds
      /\ c \in Live \/ Dropped(c, Leaving)
  BY SettleFacts
<1>5. LeaseExact(t)' /\ ~Holds(t)'
  BY <1>3, IdleLease
<1>6. MutexExact'
  BY <1>3, <1>4, <1>5, MutexFreed DEF ServiceParts, Unlock
<1>7. \A u \in Threads : LeaseExact(u)'
  BY <1>1, <1>2, <1>3, <1>4, <1>5, LeasesInside DEF ServiceParts
<1>8. PinsExact'
  <2>1. \A d : UsedBy(t, d)' <=> UsedBy(t, d)
    BY <1>3 DEF UsedBy, At, NoRequest
  <2> QED
    BY <1>1, <1>2, <1>3, <2>1, PinsKept DEF ServiceParts
<1>9. /\ \A d : Dropped(d, Leaving) => Dropped(d, Leaving)'
      /\ \A d : Dropped(d, {"clear", "drop"}) => Dropped(d, {"clear", "drop"})'
      /\ \A x : Clears(x) => Clears(x)'
  BY <1>3, OthersDrop DEF At, Leaving
<1>10. SequencesLeft' /\ SnapshotsLeft'
  BY <1>1, <1>2, <1>9 DEF ServiceParts, SequencesLeft, SnapshotsLeft, IsFree
<1>11. HistoriesLeft'
  <2>1. c < nextContextId
    BY <1>2, <1>4
  <2> QED
    BY <1>1, <1>2, <1>4, <1>9, <2>1 DEF ServiceParts, HistoriesLeft
<1>12. CachesOwn' /\ SnapshotsOwn' /\ SwappedHasSnapshot'
  BY <1>1, <1>2 DEF ServiceParts, CachesOwn, SnapshotsOwn, SwappedHasSnapshot, Only
<1>13. ServiceTypeOK'
  BY <1>3, <1>4 DEF ServiceParts, ServiceTypeOK, Moved, Unlock
<1> QED
  BY <1>6, <1>7, <1>8, <1>10, <1>11, <1>12, <1>13 DEF ServiceParts

\* Settle keeps the invariant of the service.
LEMMA SettleKeeps ==
  ASSUME ContextInv, ServiceParts, NEW t \in Threads, Settle(t)
  PROVE  ServiceParts'
<1>0. PICK c, n : /\ c = thread[t].context
                  /\ n = LET before == IF thread[t].created THEN 0 ELSE Turns(c)
                         IN IF thread[t].ok THEN before + 1 ELSE before
  OBVIOUS
<1>1. /\ At(t, "settle") /\ (thread[t].ok \/ ~thread[t].created)
      /\ conversations' = With(conversations, c, n)
      /\ Return(t) /\ Unlock
      /\ UNCHANGED <<contextVars, kv, snapshots, initialized>>
  BY <1>0 DEF Settle
<1>2. /\ thread[t].ok => IF thread[t].created THEN MaxTurns > 0 ELSE Turns(c) < MaxTurns
      /\ \A d : ~Fresh(d)
  BY <1>0, <1>1, SettleFacts
<1>3. conversations \in [DOMAIN conversations -> 0 .. MaxTurns]
  BY DEF ServiceParts, ServiceTypeOK
<1>4. Turns(c) \in 0 .. MaxTurns
  BY <1>3, TopAssumption DEF Turns
<1>5. n \in 0 .. MaxTurns
  BY <1>0, <1>2, <1>4, TopAssumption
<1>6. /\ DOMAIN conversations' \subseteq DOMAIN conversations \cup {c}
      /\ conversations' \in [DOMAIN conversations' -> 0 .. MaxTurns]
  BY <1>1, <1>3, <1>5 DEF With
<1> QED
  BY <1>0, <1>1, <1>2, <1>6, EndKeeps

(* The context whose first turn failed is gone already.                    *)
LEMMA AbandonGoneKeeps ==
  ASSUME ContextInv, ServiceParts, NEW t \in Threads, At(t, "settle"), thread[t].created,
         NEW c, c = thread[t].context,
         ~(c \in Live /\ MayRelease(c, thread[t].agent, thread[t].parent)),
         conversations' = Without(conversations, c), Return(t), Unlock,
         UNCHANGED <<contextVars, kv, snapshots, initialized>>
  PROVE  ServiceParts'
<1>1. /\ c \in Live => contexts[c].owners = {thread[t].agent} /\ contexts[c].pins = 0
      /\ \A d : d # c => ~Fresh(d)
  BY SettleFacts
<1>2. c \notin Live
  BY <1>1 DEF MayRelease, Authorized, OwnedBy
<1>3. \A d \in Resident : ~Fresh(d)
  BY <1>1, <1>2 DEF Resident
<1>4. conversations \in [DOMAIN conversations -> 0 .. MaxTurns]
  BY DEF ServiceParts, ServiceTypeOK
<1>5. /\ DOMAIN conversations' \subseteq DOMAIN conversations \cup {c}
      /\ conversations' \in [DOMAIN conversations' -> 0 .. MaxTurns]
  BY <1>4 DEF Without
<1> QED
  BY <1>3, <1>5, EndKeeps

(* What a removal leaves: the sequence of the context is free again.       *)
LEMMA GoneFrees ==
  ASSUME ContextInv, ContextInv', NEW c, Gone(c)
  PROVE  \A x \in SequenceIds : IsFree(x)' => IsFree(x) \/ (c \in Resident /\ x = contexts[c].sequence)
<1> SUFFICES ASSUME NEW x \in SequenceIds, IsFree(x)', ~IsFree(x)
             PROVE  c \in Resident /\ x = contexts[c].sequence
  OBVIOUS
<1>1. ~InUse(x)' /\ ~InHand(x)'
  BY FreeNext DEF SequencesFree
<1>2. ~InHand(x)
  BY <1>1 DEF InHand, Gone
<1>3. InUse(x)
  BY <1>2, FreeNow DEF SequencesFree
<1>4. PICK d \in Resident : contexts[d].sequence = x
  BY <1>3 DEF InUse
<1>5. d \notin Resident'
  BY <1>1, <1>4 DEF InUse, Gone, Resident
<1> QED
  BY <1>4, <1>5 DEF Gone

(* The context whose first turn failed is released, and its sequence will  *)
(* be cleared under the mutex.                                             *)
LEMMA AbandonReleaseKeeps ==
  ASSUME ContextInv, ContextInv', ServiceParts, NEW t \in Threads, At(t, "settle"),
         ~thread[t].ok, thread[t].created, NEW c, c = thread[t].context,
         Release(thread[t].agent, thread[t].parent, c), Goto(t, "clear"),
         UNCHANGED <<conversation, conversations, kv, snapshots, initialized>>
  PROVE  ServiceParts'
<1>1. /\ c \in 1 .. nextContextId - 1 /\ thread[t].sequence \in SequenceIds
      /\ c \notin DOMAIN snapshots \cup DOMAIN conversations
      /\ c \in Live => /\ contexts[c].owners = {thread[t].agent}
                       /\ contexts[c].sequence = thread[t].sequence
      /\ Holds(t) /\ conversation = t /\ \A d : d # c => ~Fresh(d)
  BY SettleFacts
<1>2. Gone(c)
  BY <1>1, ReleaseEndsOrEdits
<1>3. /\ Live' = Live \ {c} /\ Resident' = Resident \ {c} /\ nextContextId' = nextContextId
      /\ \A d \in Live' : contexts'[d] = contexts[d]
      /\ \A d \in Resident : d \in Live /\ contexts[d].sequence \in SequenceIds
      /\ nextContextId \in Nat
  BY <1>2, ContextFacts, ContextAssumption DEF Gone
<1>4. /\ Moved(t, thread'[t]) /\ thread'[t].pc = "clear"
      /\ thread'[t].context = c /\ thread'[t].sequence = thread[t].sequence
      /\ thread'[t].created = thread[t].created /\ thread'[t].ok = thread[t].ok
  BY GotoMoves DEF ServiceParts, ServiceTypeOK
<1>5. /\ \A d : Dropped(d, Leaving) => Dropped(d, Leaving)'
      /\ \A d : Dropped(d, {"clear", "drop"}) => Dropped(d, {"clear", "drop"})'
      /\ \A x : Clears(x) => Clears(x)'
  BY <1>4, OthersDrop DEF At, Leaving
<1>6. LeaseExact(t)' /\ Holds(t)'
  <2>1. c \in (1 .. nextContextId' - 1) \ Live'
    BY <1>1, <1>3
  <2> QED
    BY <1>1, <1>4, <2>1 DEF LeaseExact, Holds, Holding, Leased, Leaving, SequenceIds
<1>7. MutexExact'
  BY <1>1, <1>4, <1>6, MutexKept DEF ServiceParts
<1>8. \A u \in Threads : LeaseExact(u)'
  BY <1>1, <1>3, <1>4, <1>6, LeasesInside DEF ServiceParts
<1>9. PinsExact'
  <2>1. \A d : UsedBy(t, d)' <=> UsedBy(t, d)
    BY <1>4 DEF UsedBy, At
  <2> QED
    BY <1>3, <1>4, <2>1, PinsKept DEF ServiceParts
<1>10. SequencesLeft'
  <2>0. PICK s : s = thread[t].sequence
    OBVIOUS
  <2>1. Clears(s)'
    BY <1>4, <2>0 DEF Clears
  <2>2. \A x \in SequenceIds : IsFree(x)' => IsFree(x) \/ x = s
    BY <1>1, <1>2, <2>0, GoneFrees DEF Gone
  <2> QED
    BY <1>5, <2>1, <2>2 DEF ServiceParts, SequencesLeft
<1>11. SnapshotsLeft' /\ HistoriesLeft'
  BY <1>1, <1>3, <1>5 DEF ServiceParts, SnapshotsLeft, HistoriesLeft
<1>12. CachesOwn'
  <2> SUFFICES ASSUME NEW d \in Resident' PROVE Only(kv'[contexts'[d].sequence], d)
    BY DEF CachesOwn, Only
  <2>1. d \in Resident /\ contexts'[d] = contexts[d] /\ ~Fresh(d)
    BY <1>1, <1>3
  <2> QED
    BY <2>1 DEF ServiceParts, CachesOwn
<1>13. SnapshotsOwn' /\ SwappedHasSnapshot'
  BY <1>3 DEF ServiceParts, SnapshotsOwn, SwappedHasSnapshot, Only
<1>14. ServiceTypeOK'
  BY <1>4 DEF ServiceParts, ServiceTypeOK, Moved
<1> QED
  BY <1>7, <1>8, <1>9, <1>10, <1>11, <1>12, <1>13, <1>14 DEF ServiceParts

\* Abandon keeps the invariant of the service.
LEMMA AbandonKeeps ==
  ASSUME ContextInv, ContextInv', ServiceParts, NEW t \in Threads, Abandon(t)
  PROVE  ServiceParts'
<1>0. PICK c : c = thread[t].context
  OBVIOUS
<1>1. At(t, "settle") /\ ~thread[t].ok /\ thread[t].created /\ UNCHANGED <<kv, snapshots, initialized>>
  BY DEF Abandon
<1>2. CASE /\ Release(thread[t].agent, thread[t].parent, c) /\ Goto(t, "clear")
           /\ UNCHANGED <<conversation, conversations>>
  BY <1>0, <1>1, <1>2, AbandonReleaseKeeps
<1>3. CASE /\ ~(c \in Live /\ MayRelease(c, thread[t].agent, thread[t].parent))
           /\ conversations' = Without(conversations, c)
           /\ Return(t) /\ Unlock /\ UNCHANGED contextVars
  BY <1>0, <1>1, <1>3, AbandonGoneKeeps
<1> QED
  BY <1>0, <1>2, <1>3 DEF Abandon
----------------------------------------------------------------------------
(* release_context beside whoever holds the mutex.                         *)
IdleThread(t) == thread[t].pc = "idle" /\ ~thread[t].created /\ ~thread[t].ok /\ ~Holds(t)

\* What is known of a thread that begins a request.
LEMMA IdleFacts ==
  ASSUME ServiceParts, NEW t \in Threads, At(t, "idle")
  PROVE  IdleThread(t)
BY DEF At, IdleThread, Holds, Holding, Leased, ServiceParts, LeaseExact

(* One owner of several gives a context up.                                *)
LEMMA ReleaseSharedKeeps ==
  ASSUME ContextInv, ServiceParts, NEW t \in Threads, At(t, "idle"), thread' = thread,
         NEW c, Edited(c), contexts'[c].pins = contexts[c].pins, \A b : contexts[c].owners # {b},
         freeSequences' = freeSequences,
         UNCHANGED <<conversation, conversations, kv, snapshots, initialized>>
  PROVE  ServiceParts'
<1>1. /\ c \in Live /\ Live' = Live /\ Resident' = Resident
      /\ nextContextId' = nextContextId /\ call' = call
      /\ \A d \in Live : contexts'[d].sequence = contexts[d].sequence
      /\ \A d \in Live : d # c => contexts'[d] = contexts[d]
      /\ \A d \in Resident : d \in Live
  BY DEF Edited, Resident
<1>2. Moved(t, thread'[t])
  BY DEF Moved, ServiceParts, ServiceTypeOK
<1>3. IdleThread(t)
  BY IdleFacts
<1>4. /\ \A d : Dropped(d, Leaving) => Dropped(d, Leaving)'
      /\ \A d : Dropped(d, {"clear", "drop"}) => Dropped(d, {"clear", "drop"})'
      /\ \A x : Clears(x) => Clears(x)'
  BY <1>2, OthersDrop DEF At, Leaving
<1>5. LeaseExact(t)' /\ ~Holds(t)'
  BY <1>3 DEF IdleThread, LeaseExact, Leased, Leaving, Holds, Holding
<1>6. MutexExact'
  BY <1>2, <1>3, <1>5, MutexKept DEF ServiceParts, IdleThread
<1>7. \A u \in Threads : LeaseExact(u)'
  BY <1>1, <1>2, <1>4, <1>5, LeasesBeside DEF ServiceParts
<1>8. PinsExact'
  <2>1. \A d : UsedBy(t, d)' <=> UsedBy(t, d)
    BY DEF UsedBy
  <2>2. \A d \in Live : contexts'[d].pins = contexts[d].pins
    BY <1>1
  <2> QED
    BY <1>1, <1>2, <2>1, <2>2, PinsKept DEF ServiceParts
<1>9. SequencesLeft' /\ SnapshotsLeft' /\ HistoriesLeft'
  BY <1>1, <1>4 DEF ServiceParts, SequencesLeft, SnapshotsLeft, HistoriesLeft, IsFree
<1>10. CachesOwn' /\ SnapshotsOwn' /\ SwappedHasSnapshot'
  BY <1>1 DEF ServiceParts, CachesOwn, SnapshotsOwn, SwappedHasSnapshot, Only, Fresh
<1>11. ServiceTypeOK'
  BY DEF ServiceParts, ServiceTypeOK
<1> QED
  BY <1>6, <1>7, <1>8, <1>9, <1>10, <1>11 DEF ServiceParts

(* The last owner gives a context up; what belonged to it is dropped next. *)
LEMMA ReleaseLastKeeps ==
  ASSUME ContextInv, ContextInv', ServiceParts, NEW t \in Threads, At(t, "idle"),
         NEW c, Gone(c), contexts[c].pins = 0,
         thread' = [thread EXCEPT ![t] =
           [NoRequest EXCEPT !.pc = IF c \in Resident THEN "clear" ELSE "drop",
                             !.context = c, !.sequence = contexts[c].sequence]],
         UNCHANGED <<conversation, conversations, kv, snapshots, initialized>>
  PROVE  ServiceParts'
<1>0. PICK s : s = contexts[c].sequence
  OBVIOUS
<1>1. /\ c \in Live /\ Live' = Live \ {c} /\ Resident' = Resident \ {c}
      /\ nextContextId' = nextContextId /\ call' = call
      /\ \A d \in Live' : contexts'[d] = contexts[d]
      /\ \A d \in Resident : d \in Live /\ contexts[d].sequence \in SequenceIds
      /\ c \in 1 .. nextContextId - 1 /\ c \in ContextIds /\ contexts[c] \in Entry
  BY ContextFacts DEF Gone
<1> DEFINE r == [NoRequest EXCEPT !.pc = IF c \in Resident THEN "clear" ELSE "drop",
                                  !.context = c, !.sequence = contexts[c].sequence]
<1>2. r \in Request
  <2>1. contexts[c].sequence \in SequenceIds \cup {NoSequence}
    BY <1>1 DEF Entry
  <2> QED
    BY <1>1, <2>1 DEF NoRequest, Request
<1>3. /\ r.pc = (IF c \in Resident THEN "clear" ELSE "drop") /\ r.context = c /\ r.sequence = s
      /\ r.created = FALSE /\ r.ok = FALSE
  BY <1>0 DEF NoRequest
<1> HIDE DEF r
<1>4. Moved(t, r)
  BY <1>2, ThreadMoves DEF ServiceParts, ServiceTypeOK, r
<1>5. /\ thread'[t].pc = (IF c \in Resident THEN "clear" ELSE "drop") /\ thread'[t].context = c
      /\ thread'[t].sequence = s /\ ~thread'[t].created /\ ~thread'[t].ok
      /\ Moved(t, thread'[t])
  BY <1>3, <1>4 DEF Moved
<1>6. IdleThread(t)
  BY IdleFacts
<1>7. /\ \A d : Dropped(d, Leaving) => Dropped(d, Leaving)'
      /\ \A d : Dropped(d, {"clear", "drop"}) => Dropped(d, {"clear", "drop"})'
      /\ \A x : Clears(x) => Clears(x)'
  BY <1>5, OthersDrop DEF At, Leaving
<1>8. Dropped(c, Leaving)' /\ Dropped(c, {"clear", "drop"})' /\ (c \in Resident => Clears(s)')
  BY <1>5 DEF Dropped, Drops, Leaving, Clears
<1>9. LeaseExact(t)' /\ ~Holds(t)'
  <2>1. /\ thread'[t].pc \in Leaving /\ thread'[t].context \in (1 .. nextContextId' - 1) \ Live'
        /\ thread'[t].pc = "clear" => thread'[t].sequence \in SequenceIds
    BY <1>0, <1>1, <1>5 DEF Leaving
  <2> QED
    BY <1>5, <2>1, LeavingLease
<1>10. MutexExact'
  BY <1>5, <1>6, <1>9, MutexKept DEF ServiceParts, IdleThread
<1>11. ~Using(c)
  BY <1>1 DEF ServiceParts, PinsExact
<1>12. \A u \in Threads : LeaseExact(u)'
  BY <1>1, <1>5, <1>7, <1>8, <1>9, <1>11, LeasesBeside DEF ServiceParts
<1>13. PinsExact'
  <2>1. \A d : UsedBy(t, d)' <=> UsedBy(t, d)
    BY <1>5 DEF UsedBy, At
  <2> QED
    BY <1>1, <1>5, <2>1, PinsKept DEF ServiceParts
<1>14. SequencesLeft'
  <2>1. \A x \in SequenceIds : IsFree(x)' => IsFree(x) \/ (c \in Resident /\ x = s)
    BY <1>0, GoneFrees
  <2> QED
    BY <1>7, <1>8, <2>1 DEF ServiceParts, SequencesLeft
<1>15. SnapshotsLeft' /\ HistoriesLeft'
  BY <1>1, <1>7, <1>8 DEF ServiceParts, SnapshotsLeft, HistoriesLeft
<1>16. CachesOwn'
  <2> SUFFICES ASSUME NEW d \in Resident', ~Fresh(d)' PROVE Only(kv'[contexts'[d].sequence], d)
    BY DEF CachesOwn, Only
  <2>1. d \in Resident /\ contexts'[d] = contexts[d]
    BY <1>1
  <2>2. \A e : Fresh(e) => Fresh(e)'
    BY <1>5, <1>6, FreshKept DEF IdleThread
  <2> QED
    BY <2>1, <2>2 DEF ServiceParts, CachesOwn
<1>17. SnapshotsOwn' /\ SwappedHasSnapshot'
  BY <1>1 DEF ServiceParts, SnapshotsOwn, SwappedHasSnapshot, Only
<1>18. ServiceTypeOK'
  BY <1>5 DEF ServiceParts, ServiceTypeOK, Moved
<1> QED
  BY <1>10, <1>12, <1>13, <1>14, <1>15, <1>16, <1>17, <1>18 DEF ServiceParts

\* ReleaseContext keeps the invariant of the service.
LEMMA ReleaseContextKeeps ==
  ASSUME ContextInv, ContextInv', ServiceParts, NEW t \in Threads, NEW a, NEW p, NEW c,
         ReleaseContext(t, a, p, c)
  PROVE  ServiceParts'
<1>1. /\ At(t, "idle") /\ Release(a, p, c)
      /\ UNCHANGED <<conversation, conversations, kv, snapshots, initialized>>
  BY DEF ReleaseContext
<1>2. \/ Gone(c) /\ contexts[c].pins = 0
      \/ /\ Edited(c) /\ contexts'[c].pins = contexts[c].pins
         /\ \A b : contexts[c].owners # {b}
  BY <1>1, ReleaseEndsOrEdits
<1>3. CASE Gone(c) /\ contexts[c].pins = 0
  <2>1. c \notin Live'
    BY <1>3 DEF Gone
  <2>2. thread' = [thread EXCEPT ![t] =
           [NoRequest EXCEPT !.pc = IF c \in Resident THEN "clear" ELSE "drop",
                             !.context = c, !.sequence = contexts[c].sequence]]
    BY <2>1 DEF ReleaseContext
  <2> QED
    BY <1>1, <1>3, <2>2, ReleaseLastKeeps
<1>4. CASE /\ Edited(c) /\ contexts'[c].pins = contexts[c].pins
           /\ \A b : contexts[c].owners # {b}
  <2>1. c \in Live'
    BY <1>4 DEF Edited
  <2>2. thread' = thread
    BY <2>1 DEF ReleaseContext
  <2>3. freeSequences' = freeSequences
    BY <1>1, <1>4 DEF Release, Shrink
  <2> QED
    BY <1>1, <1>4, <2>2, <2>3, ReleaseSharedKeeps
<1> QED
  BY <1>2, <1>3, <1>4
----------------------------------------------------------------------------
(* What is left of a released context is dropped.                          *)
LEMMA LeavingFacts ==
  ASSUME ContextInv, ServiceParts, NEW t \in Threads, NEW c, c = thread[t].context,
         NEW s, s = thread[t].sequence, thread[t].pc \in Leaving
  PROVE  /\ c \in 1 .. nextContextId - 1 /\ c \notin Live /\ ~thread[t].ok
         /\ thread[t].pc = "clear" => s \in SequenceIds
         /\ thread[t].pc # "clear" => ~thread[t].created
         /\ thread[t].created <=> Holds(t)
         /\ thread[t].pc \notin {"idle", "callback", "infer", "unpin", "settle"}
BY DEF ServiceParts, LeaseExact, Leaving, Leased, Holds, Holding

(* The cache of a released context is cleared.                             *)
LEMMA CacheCleared ==
  ASSUME ContextInv, ServiceParts, NEW t \in Threads, At(t, "clear"),
         NEW s, s = thread[t].sequence, kv' = [kv EXCEPT ![s] = <<>>],
         Moved(t, thread'[t]), thread[t].created \/ ~Holds(t),
         thread'[t].created => thread[t].created,
         UNCHANGED <<contextVars, snapshots, initialized>>
  PROVE  /\ kv' \in [SequenceIds -> Seq(ContextIds)]
         /\ SequencesLeft' /\ CachesOwn' /\ SnapshotsOwn' /\ SwappedHasSnapshot'
<1>0. PICK c : c = thread[t].context
  OBVIOUS
<1>1. contexts' = contexts /\ freeSequences' = freeSequences /\ Live' = Live /\ Resident' = Resident
  BY DEF contextVars, Live, Resident
<1>2. c \notin Live /\ s \in SequenceIds /\ (thread[t].created <=> Holds(t))
  BY <1>0, LeavingFacts DEF At, Leaving
<1>3. /\ kv' \in [SequenceIds -> Seq(ContextIds)] /\ kv'[s] = <<>>
      /\ \A x \in SequenceIds : x # s => kv'[x] = kv[x]
  BY <1>2, CacheSet DEF ServiceParts, ServiceTypeOK
<1>4. SequencesLeft'
  <2> SUFFICES ASSUME NEW x \in SequenceIds, IsFree(x)', kv'[x] # <<>> PROVE Clears(x)'
    BY DEF SequencesLeft
  <2>1. x # s /\ IsFree(x) /\ kv[x] # <<>>
    BY <1>1, <1>3 DEF IsFree
  <2>2. PICK u \in Threads : thread[u].pc = "clear" /\ thread[u].sequence = x
    BY <2>1 DEF ServiceParts, SequencesLeft, Clears
  <2>3. u # t
    BY <2>1, <2>2
  <2> QED
    BY <2>2, <2>3 DEF Moved, Clears
<1>5. CachesOwn'
  <2> SUFFICES ASSUME NEW d \in Resident, ~Fresh(d)' PROVE Only(kv'[contexts[d].sequence], d)
    BY <1>1 DEF CachesOwn, Only
  <2>1. ~Fresh(d)
    <3> SUFFICES ASSUME NEW u \in Threads, thread[u].context = d, thread[u].created, ~thread[u].ok
                 PROVE  FALSE
      BY DEF Fresh
    <3>1. u # t
      BY <1>0, <1>2 DEF Resident
    <3> QED
      BY <3>1 DEF Fresh, Moved
  <2>2. contexts[d].sequence \in SequenceIds /\ Only(kv[contexts[d].sequence], d)
    BY <2>1, ContextFacts DEF ServiceParts, CachesOwn
  <2>3. Only(<<>>, d)
    BY DEF Only
  <2> QED
    BY <1>3, <2>2, <2>3
<1>6. SnapshotsOwn' /\ SwappedHasSnapshot'
  BY <1>1 DEF ServiceParts, SnapshotsOwn, SwappedHasSnapshot, Only
<1> QED
  BY <1>3, <1>4, <1>5, <1>6

(* The last step of a request: nothing is left to drop for thread t.       *)
LEMMA OthersLeave ==
  ASSUME NEW t \in Threads, Moved(t, thread'[t]), NEW c, thread[t].context = c, NEW pcs
  PROVE  \A d : Dropped(d, pcs) /\ (d = c => ~Drops(t, d, pcs)) => Dropped(d, pcs)'
<1> SUFFICES ASSUME NEW d, NEW u \in Threads, Drops(u, d, pcs), d = c => ~Drops(t, d, pcs)
             PROVE  Dropped(d, pcs)'
  BY DEF Dropped
<1>1. u # t
  BY DEF Drops
<1> QED
  BY <1>1 DEF Moved, Dropped, Drops

(* ... of the context whose first turn failed, under the mutex.            *)
LEMMA ClearOwnKeeps ==
  ASSUME ContextInv, ServiceParts, NEW t \in Threads, At(t, "clear"), conversation = t,
         kv' = [kv EXCEPT ![thread[t].sequence] = <<>>],
         conversations' = Without(conversations, thread[t].context), Return(t), Unlock,
         UNCHANGED <<contextVars, snapshots, initialized>>
  PROVE  ServiceParts'
<1>0. PICK c, s : c = thread[t].context /\ s = thread[t].sequence
  OBVIOUS
<1>1. /\ contexts' = contexts /\ nextContextId' = nextContextId /\ Live' = Live /\ nextContextId \in Nat
  BY ContextFacts, ContextAssumption DEF contextVars, Live
<1>2. thread'[t] = NoRequest /\ Moved(t, thread'[t])
  BY ReturnMoves DEF ServiceParts, ServiceTypeOK, Moved
<1>3. Holds(t) /\ thread[t].created
  BY <1>0, LeavingFacts DEF ServiceParts, MutexExact, At, Leaving
<1>4. LeaseExact(t)' /\ ~Holds(t)'
  BY <1>2, IdleLease
<1>5. MutexExact'
  BY <1>2, <1>3, <1>4, MutexFreed DEF ServiceParts, Unlock
<1>6. \A u \in Threads : LeaseExact(u)'
  BY <1>1, <1>2, <1>4, LeasesInside DEF ServiceParts
<1>7. PinsExact'
  <2>1. \A d : UsedBy(t, d)' <=> UsedBy(t, d)
    BY <1>2 DEF UsedBy, At, NoRequest
  <2> QED
    BY <1>1, <1>2, <2>1, PinsKept DEF ServiceParts
<1>8. /\ kv' \in [SequenceIds -> Seq(ContextIds)]
      /\ SequencesLeft' /\ CachesOwn' /\ SnapshotsOwn' /\ SwappedHasSnapshot'
  <2>1. thread'[t].created => thread[t].created
    BY <1>3
  <2>2. kv' = [kv EXCEPT ![s] = <<>>]
    BY <1>0
  <2> QED
    BY <1>0, <1>2, <1>3, <2>1, <2>2, CacheCleared
<1>9. /\ \A d : Dropped(d, Leaving) => Dropped(d, Leaving)'
      /\ \A d : Dropped(d, {"clear", "drop"}) => Dropped(d, {"clear", "drop"})'
  <2>1. \A d : ~Drops(t, d, Leaving) /\ ~Drops(t, d, {"clear", "drop"})
    BY <1>3 DEF Drops
  <2>2. \A d : Dropped(d, Leaving) => Dropped(d, Leaving)'
    BY <1>2, <2>1, DroppedKept
  <2>3. \A d : Dropped(d, {"clear", "drop"}) => Dropped(d, {"clear", "drop"})'
    BY <1>2, <2>1, DroppedKept
  <2> QED
    BY <2>2, <2>3
<1>10. /\ DOMAIN conversations' \subseteq DOMAIN conversations
       /\ conversations' \in [DOMAIN conversations' -> 0 .. MaxTurns]
  BY DEF Without, ServiceParts, ServiceTypeOK
<1>11. SnapshotsLeft' /\ HistoriesLeft'
  BY <1>1, <1>9, <1>10 DEF ServiceParts, SnapshotsLeft, HistoriesLeft
<1>12. ServiceTypeOK'
  BY <1>2, <1>8, <1>10 DEF ServiceParts, ServiceTypeOK, Moved, Unlock
<1> QED
  BY <1>5, <1>6, <1>7, <1>8, <1>11, <1>12 DEF ServiceParts

(* ... of a context that was released, beside the holder.                  *)
LEMMA ClearGoesOnKeeps ==
  ASSUME ContextInv, ServiceParts, NEW t \in Threads, At(t, "clear"), conversation # t,
         kv' = [kv EXCEPT ![thread[t].sequence] = <<>>], Goto(t, "drop"),
         UNCHANGED <<contextVars, conversation, conversations, snapshots, initialized>>
  PROVE  ServiceParts'
<1>0. PICK c, s : c = thread[t].context /\ s = thread[t].sequence
  OBVIOUS
<1>1. /\ contexts' = contexts /\ nextContextId' = nextContextId /\ Live' = Live /\ call' = call
  BY DEF contextVars, Live
<1>2. /\ Moved(t, thread'[t]) /\ thread'[t].pc = "drop"
      /\ thread'[t].context = c /\ thread'[t].sequence = s
      /\ thread'[t].created = thread[t].created /\ thread'[t].ok = thread[t].ok
  BY <1>0, GotoMoves DEF ServiceParts, ServiceTypeOK
<1>3. ~Holds(t) /\ ~thread[t].created /\ ~thread[t].ok /\ c \in (1 .. nextContextId - 1) \ Live
  BY <1>0, LeavingFacts DEF ServiceParts, MutexExact, At, Leaving
<1>4. LeaseExact(t)' /\ ~Holds(t)'
  <2>1. thread'[t].pc \in Leaving /\ thread'[t].context \in (1 .. nextContextId' - 1) \ Live'
    BY <1>1, <1>2, <1>3 DEF Leaving
  <2> QED
    BY <1>2, <1>3, <2>1, LeavingLease
<1>5. MutexExact'
  BY <1>2, <1>3, <1>4, MutexKept DEF ServiceParts
<1>6. /\ \A d : Dropped(d, Leaving) => Dropped(d, Leaving)'
      /\ \A d : Dropped(d, {"clear", "drop"}) => Dropped(d, {"clear", "drop"})'
  <2>1. \A d : Drops(t, d, Leaving) => Drops(t, d, Leaving)'
    BY <1>0, <1>2, <1>3 DEF Drops, Leaving
  <2>2. \A d : Drops(t, d, {"clear", "drop"}) => Drops(t, d, {"clear", "drop"})'
    BY <1>0, <1>2, <1>3 DEF Drops
  <2>3. \A d : Dropped(d, Leaving) => Dropped(d, Leaving)'
    BY <1>2, <2>1, DroppedKept
  <2>4. \A d : Dropped(d, {"clear", "drop"}) => Dropped(d, {"clear", "drop"})'
    BY <1>2, <2>2, DroppedKept
  <2> QED
    BY <2>3, <2>4
<1>7. \A u \in Threads : LeaseExact(u)'
  BY <1>1, <1>2, <1>4, <1>6, LeasesBeside DEF ServiceParts
<1>8. PinsExact'
  <2>1. \A d : UsedBy(t, d)' <=> UsedBy(t, d)
    BY <1>2 DEF UsedBy, At
  <2> QED
    BY <1>1, <1>2, <2>1, PinsKept DEF ServiceParts
<1>9. /\ kv' \in [SequenceIds -> Seq(ContextIds)]
      /\ SequencesLeft' /\ CachesOwn' /\ SnapshotsOwn' /\ SwappedHasSnapshot'
  <2>1. kv' = [kv EXCEPT ![s] = <<>>]
    BY <1>0
  <2> QED
    BY <1>0, <1>2, <1>3, <2>1, CacheCleared
<1>10. SnapshotsLeft' /\ HistoriesLeft'
  BY <1>1, <1>6 DEF ServiceParts, SnapshotsLeft, HistoriesLeft
<1>11. ServiceTypeOK'
  BY <1>2, <1>9 DEF ServiceParts, ServiceTypeOK, Moved
<1> QED
  BY <1>5, <1>7, <1>8, <1>9, <1>10, <1>11 DEF ServiceParts

\* RemoveSnapshot keeps the invariant of the service.
LEMMA RemoveSnapshotKeeps ==
  ASSUME ContextInv, ServiceParts, NEW t \in Threads, RemoveSnapshot(t)
  PROVE  ServiceParts'
<1>0. PICK c : c = thread[t].context
  OBVIOUS
<1>1. /\ At(t, "drop") /\ snapshots' = Without(snapshots, c) /\ Goto(t, "forget")
      /\ UNCHANGED <<contextVars, conversation, conversations, kv, initialized>>
      /\ contexts' = contexts /\ freeSequences' = freeSequences /\ nextContextId' = nextContextId
      /\ Live' = Live /\ Resident' = Resident /\ call' = call
  BY <1>0 DEF RemoveSnapshot, contextVars, Live, Resident
<1>2. /\ Moved(t, thread'[t]) /\ thread'[t].pc = "forget"
      /\ thread'[t].context = c /\ thread'[t].sequence = thread[t].sequence
      /\ thread'[t].created = thread[t].created /\ thread'[t].ok = thread[t].ok
  BY <1>0, <1>1, GotoMoves DEF ServiceParts, ServiceTypeOK
<1>3. ~Holds(t) /\ ~thread[t].created /\ ~thread[t].ok /\ c \in (1 .. nextContextId - 1) \ Live
  BY <1>0, <1>1, LeavingFacts DEF At, Leaving
<1>4. LeaseExact(t)' /\ ~Holds(t)'
  <2>1. thread'[t].pc \in Leaving /\ thread'[t].context \in (1 .. nextContextId' - 1) \ Live'
    BY <1>1, <1>2, <1>3 DEF Leaving
  <2> QED
    BY <1>2, <1>3, <2>1, LeavingLease
<1>5. MutexExact'
  BY <1>1, <1>2, <1>3, <1>4, MutexKept DEF ServiceParts
<1>6. \A d : Dropped(d, Leaving) => Dropped(d, Leaving)'
  <2>1. \A d : Drops(t, d, Leaving) => Drops(t, d, Leaving)'
    BY <1>0, <1>2, <1>3 DEF Drops, Leaving
  <2> QED
    BY <1>2, <2>1, DroppedKept
<1>7. /\ DOMAIN snapshots' = DOMAIN snapshots \ {c} /\ \A d \in DOMAIN snapshots' : snapshots'[d] = snapshots[d]
      /\ snapshots' \in [DOMAIN snapshots' -> Seq(ContextIds)]
  BY <1>1 DEF Without, ServiceParts, ServiceTypeOK
<1>8. \A u \in Threads : LeaseExact(u)'
  BY <1>1, <1>2, <1>4, <1>6, <1>7, LeasesBeside DEF ServiceParts
<1>9. PinsExact'
  <2>1. \A d : UsedBy(t, d)' <=> UsedBy(t, d)
    BY <1>1, <1>2 DEF UsedBy, At
  <2> QED
    BY <1>1, <1>2, <2>1, PinsKept DEF ServiceParts
<1>10. SequencesLeft'
  <2>1. \A x : Clears(x) => Clears(x)'
    BY <1>1, <1>2, ClearsKept DEF At
  <2> QED
    BY <1>1, <2>1 DEF ServiceParts, SequencesLeft, IsFree
<1>11. SnapshotsLeft'
  <2> SUFFICES ASSUME NEW d \in DOMAIN snapshots'
               PROVE  d < nextContextId /\ (d \in Live \/ Dropped(d, {"clear", "drop"})')
    BY <1>1 DEF SnapshotsLeft
  <2>1. d # c /\ d < nextContextId /\ (d \in Live \/ Dropped(d, {"clear", "drop"}))
    BY <1>7 DEF ServiceParts, SnapshotsLeft
  <2> QED
    BY <1>0, <1>2, <2>1, OthersLeave
<1>12. HistoriesLeft'
  BY <1>1, <1>6 DEF ServiceParts, HistoriesLeft
<1>13. CachesOwn' /\ SnapshotsOwn'
  <2>1. \A d : Fresh(d) => Fresh(d)'
    BY <1>2, <1>3, FreshKept
  <2> QED
    BY <1>1, <1>7, <2>1 DEF ServiceParts, CachesOwn, SnapshotsOwn, Only
<1>14. SwappedHasSnapshot'
  BY <1>1, <1>3, <1>7 DEF ServiceParts, SwappedHasSnapshot
<1>15. ServiceTypeOK'
  BY <1>1, <1>2, <1>7 DEF ServiceParts, ServiceTypeOK, Moved
<1> QED
  BY <1>5, <1>8, <1>9, <1>10, <1>11, <1>12, <1>13, <1>14, <1>15 DEF ServiceParts

\* EraseConversation keeps the invariant of the service.
LEMMA EraseConversationKeeps ==
  ASSUME ContextInv, ServiceParts, NEW t \in Threads, EraseConversation(t)
  PROVE  ServiceParts'
<1>0. PICK c : c = thread[t].context
  OBVIOUS
<1>1. /\ At(t, "forget") /\ conversation = NoThread
      /\ conversations' = Without(conversations, c) /\ Return(t)
      /\ UNCHANGED <<contextVars, conversation, kv, snapshots, initialized>>
      /\ contexts' = contexts /\ freeSequences' = freeSequences /\ nextContextId' = nextContextId
      /\ Live' = Live /\ Resident' = Resident /\ call' = call
  BY <1>0 DEF EraseConversation, contextVars, Live, Resident
<1>2. thread'[t] = NoRequest /\ Moved(t, thread'[t])
  BY <1>1, ReturnMoves DEF ServiceParts, ServiceTypeOK, Moved
<1>3. ~Holds(t) /\ ~thread[t].created /\ nextContextId \in Nat
  BY <1>0, <1>1, LeavingFacts, ContextFacts, ContextAssumption DEF At, Leaving
<1>4. LeaseExact(t)' /\ ~Holds(t)'
  BY <1>2, IdleLease
<1>5. MutexExact'
  BY <1>1, <1>2, <1>3, <1>4, MutexKept DEF ServiceParts
<1>6. \A u \in Threads : LeaseExact(u)'
  BY <1>1, <1>2, <1>3, <1>4, LeasesInside DEF ServiceParts
<1>7. PinsExact'
  <2>1. \A d : UsedBy(t, d)' <=> UsedBy(t, d)
    BY <1>1, <1>2 DEF UsedBy, At, NoRequest
  <2> QED
    BY <1>1, <1>2, <2>1, PinsKept DEF ServiceParts
<1>8. \A d : Dropped(d, {"clear", "drop"}) => Dropped(d, {"clear", "drop"})'
  <2>1. \A d : ~Drops(t, d, {"clear", "drop"})
    BY <1>1 DEF Drops, At
  <2> QED
    BY <1>2, <2>1, DroppedKept
<1>9. SequencesLeft' /\ SnapshotsLeft'
  <2>1. \A x : Clears(x) => Clears(x)'
    BY <1>1, <1>2, ClearsKept DEF At
  <2> QED
    BY <1>1, <1>8, <2>1 DEF ServiceParts, SequencesLeft, SnapshotsLeft, IsFree
<1>10. /\ DOMAIN conversations' = DOMAIN conversations \ {c}
       /\ conversations' \in [DOMAIN conversations' -> 0 .. MaxTurns]
  BY <1>1 DEF Without, ServiceParts, ServiceTypeOK
<1>11. HistoriesLeft'
  <2> SUFFICES ASSUME NEW d \in DOMAIN conversations'
               PROVE  d < nextContextId /\ (d \in Live \/ Dropped(d, Leaving)')
    BY <1>1 DEF HistoriesLeft
  <2>1. d # c /\ d < nextContextId /\ (d \in Live \/ Dropped(d, Leaving))
    BY <1>10 DEF ServiceParts, HistoriesLeft
  <2> QED
    BY <1>0, <1>2, <2>1, OthersLeave
<1>12. CachesOwn' /\ SnapshotsOwn' /\ SwappedHasSnapshot'
  <2>1. \A d : Fresh(d) => Fresh(d)'
    BY <1>2, <1>3, FreshKept
  <2> QED
    BY <1>1, <2>1 DEF ServiceParts, CachesOwn, SnapshotsOwn, Only, SwappedHasSnapshot
<1>13. ServiceTypeOK'
  BY <1>1, <1>2, <1>10 DEF ServiceParts, ServiceTypeOK, Moved
<1> QED
  BY <1>5, <1>6, <1>7, <1>9, <1>11, <1>12, <1>13 DEF ServiceParts
----------------------------------------------------------------------------
\* Shutdown keeps the invariant of the service.
LEMMA ShutdownKeeps ==
  ASSUME ContextInv, ServiceParts, Shutdown
  PROVE  ServiceParts'
<1>1. /\ \A t \in Threads : thread[t].pc = "idle"
      /\ initialized' = FALSE /\ snapshots' = [c \in {} |-> <<>>] /\ conversations' = [c \in {} |-> 0]
      /\ kv' = [s \in SequenceIds |-> <<>>] /\ thread' = thread /\ conversation' = conversation
      /\ contexts' = contexts /\ freeSequences' = freeSequences /\ nextContextId' = nextContextId
      /\ Live' = Live /\ Resident' = Resident /\ call' = call
  BY DEF Shutdown, At, contextVars, Live, Resident
<1>2. MutexExact'
  BY <1>1 DEF ServiceParts, MutexExact, Holds
<1>3. \A t \in Threads : LeaseExact(t)'
  BY <1>1 DEF ServiceParts, LeaseExact, Leased, Leaving
<1>4. PinsExact'
  BY <1>1 DEF ServiceParts, PinsExact, Using
<1>5. SequencesLeft' /\ SnapshotsLeft' /\ HistoriesLeft'
  BY <1>1 DEF SequencesLeft, SnapshotsLeft, HistoriesLeft
<1>6. CachesOwn' /\ SnapshotsOwn'
  BY <1>1, ContextFacts DEF CachesOwn, SnapshotsOwn, Only
<1>7. SwappedHasSnapshot'
  BY <1>1 DEF SwappedHasSnapshot
<1>8. ServiceTypeOK'
  <2>1. kv' \in [SequenceIds -> Seq(ContextIds)]
    BY <1>1
  <2>2. /\ DOMAIN snapshots' = {} /\ snapshots' \in [DOMAIN snapshots' -> Seq(ContextIds)]
        /\ DOMAIN conversations' = {} /\ conversations' \in [DOMAIN conversations' -> 0 .. MaxTurns]
    BY <1>1
  <2> QED
    BY <1>1, <2>1, <2>2 DEF ServiceParts, ServiceTypeOK
<1> QED
  BY <1>2, <1>3, <1>4, <1>5, <1>6, <1>7, <1>8 DEF ServiceParts

\* A step that changes nothing keeps the invariant.
LEMMA StutterKeeps ==
  ASSUME ServiceParts, UNCHANGED topVars
  PROVE  ServiceParts'
<1>1. /\ UNCHANGED <<thread, conversation, conversations, kv, snapshots, initialized>>
      /\ contexts' = contexts /\ freeSequences' = freeSequences /\ nextContextId' = nextContextId
      /\ Live' = Live /\ Resident' = Resident /\ call' = call
  BY DEF topVars, serviceVars, contextVars, Live, Resident
<1>2. MutexExact' /\ PinsExact'
  BY <1>1 DEF ServiceParts, MutexExact, Holds, PinsExact, Using
<1>3. \A t \in Threads : LeaseExact(t)'
  BY <1>1 DEF ServiceParts, LeaseExact, Dropped, Drops, Turns
<1>4. SequencesLeft' /\ SnapshotsLeft' /\ HistoriesLeft'
  BY <1>1 DEF ServiceParts, SequencesLeft, SnapshotsLeft, HistoriesLeft, Dropped, Drops, Clears, IsFree
<1>5. CachesOwn' /\ SnapshotsOwn' /\ SwappedHasSnapshot'
  BY <1>1 DEF ServiceParts, CachesOwn, SnapshotsOwn, SwappedHasSnapshot, Only, Fresh
<1>6. ServiceTypeOK'
  BY <1>1 DEF ServiceParts, ServiceTypeOK
<1> QED
  BY <1>2, <1>3, <1>4, <1>5, <1>6 DEF ServiceParts

\* The service before init.
LEMMA InitiallyServed == TopInit => ServiceParts
<1> SUFFICES ASSUME TopInit PROVE ServiceParts
  OBVIOUS
<1>1. /\ thread = [t \in Threads |-> NoRequest] /\ conversation = NoThread
      /\ conversations = [c \in {} |-> 0] /\ kv = [s \in SequenceIds |-> <<>>]
      /\ snapshots = [c \in {} |-> <<>>] /\ initialized = TRUE /\ Live = {} /\ Resident = {}
  BY DEF TopInit, ContextInit, Live, Resident
<1>2. \A t \in Threads : thread[t] = NoRequest /\ thread[t].pc = "idle" /\ ~thread[t].created /\ ~thread[t].ok
  BY <1>1 DEF NoRequest
<1>3. MutexExact
  BY <1>1, <1>2, TopAssumption DEF MutexExact, Holds, Holding
<1>4. \A t \in Threads : LeaseExact(t)
  BY <1>2 DEF LeaseExact, Leased, Leaving
<1>5. PinsExact /\ SequencesLeft /\ SnapshotsLeft /\ HistoriesLeft
  BY <1>1 DEF PinsExact, SequencesLeft, SnapshotsLeft, HistoriesLeft
<1>6. CachesOwn /\ SnapshotsOwn /\ SwappedHasSnapshot
  BY <1>1 DEF CachesOwn, SnapshotsOwn, SwappedHasSnapshot
<1>7. ServiceTypeOK
  <2>1. NoRequest \in Request
    BY DEF NoRequest, Request
  <2>2. kv \in [SequenceIds -> Seq(ContextIds)] /\ thread \in [Threads -> Request]
    BY <1>1, <2>1
  <2>3. /\ DOMAIN snapshots = {} /\ snapshots \in [DOMAIN snapshots -> Seq(ContextIds)]
        /\ DOMAIN conversations = {} /\ conversations \in [DOMAIN conversations -> 0 .. MaxTurns]
    BY <1>1
  <2> QED
    BY <1>1, <2>2, <2>3 DEF ServiceTypeOK
<1> QED
  BY <1>3, <1>4, <1>5, <1>6, <1>7 DEF ServiceParts

\* Every step of the service keeps the invariant.
LEMMA ServiceStepKeeps ==
  ASSUME Requests, ContextInv, ContextInv', ServiceParts, [TopNext]_topVars
  PROVE  ServiceParts'
<1>1. CASE \E t \in Threads, a \in Agents, p \in Parents, r \in ContextIds \cup {NewContext} :
             Generate(t, a, p, r)
  BY <1>1, GenerateKeeps
<1>2. CASE \E t \in Threads, a \in Agents, p \in Parents, c \in ContextIds : ReleaseContext(t, a, p, c)
  BY <1>2, ReleaseContextKeeps
<1>3. ASSUME NEW t \in Threads, RequestStep(t) PROVE ServiceParts'
  <2>1. thread[t].pc = "callback" => thread[t].agent \in Agents /\ thread[t].parent \in Parents
    BY DEF Requests
  <2>2. CASE SwapOutContext(t)
    <3>1. thread[t].agent \in Agents /\ thread[t].parent \in Parents
      BY <2>1, <2>2 DEF SwapOutContext, At
    <3> QED
      BY <2>2, <3>1, SwapOutNewKeeps, SwapOutLoadKeeps
  <2>3. CASE SwapInContext(t)
    <3>1. thread[t].agent \in Agents /\ thread[t].parent \in Parents
      BY <2>1, <2>3 DEF SwapInContext, At
    <3> QED
      BY <2>3, <3>1, SwapInContextKeeps
  <2>4. CASE SwapOutFails(t) \/ SwapInFails(t)
    BY <2>4, SwapOutFailsKeeps, SwapInFailsKeeps
  <2>5. CASE Infer(t) \/ InferFails(t) \/ Unpin(t)
    BY <2>5, InferKeeps, InferFailsKeeps, UnpinKeeps
  <2>6. CASE Settle(t) \/ Abandon(t)
    BY <2>6, SettleKeeps, AbandonKeeps
  <2>7. CASE ClearSequence(t)
    BY <2>7, ClearOwnKeeps, ClearGoesOnKeeps DEF ClearSequence
  <2>8. CASE RemoveSnapshot(t) \/ EraseConversation(t)
    BY <2>8, RemoveSnapshotKeeps, EraseConversationKeeps
  <2> QED
    BY <1>3, <2>2, <2>3, <2>4, <2>5, <2>6, <2>7, <2>8 DEF RequestStep
<1>4. CASE Shutdown
  BY <1>4, ShutdownKeeps
<1>5. CASE UNCHANGED topVars
  BY <1>5, StutterKeeps
<1> QED
  BY <1>1, <1>2, <1>3, <1>4, <1>5 DEF TopNext

\* The parts of the invariant make it.
LEMMA PartsMakeInv == ContextInv /\ ServiceParts => ServiceInv
BY DEF ContextInv, ServiceParts, ServiceTypeOK, ServiceInv, TopTypeOK, NoForeignTurns, CachesOwn, SnapshotsOwn

(* With any number of threads: the mutex has one holder, each lease is     *)
(* what the table of contexts says, a context is pinned exactly while a    *)
(* turn is made on it, and whatever a released context leaves behind has   *)
(* a thread that is about to drop it.                                      *)
THEOREM ServiceInvariant == TopSpec => []ServiceInv
<1>1. TopInit => Requests /\ ContextInv /\ ServiceParts
  BY InitiallySound, InitiallyServed DEF TopInit, Requests, NoRequest
<1>2. Requests /\ ContextInv /\ ServiceParts /\ [TopNext]_topVars
        => Requests' /\ ContextInv' /\ ServiceParts'
  <2> SUFFICES ASSUME Requests, ContextInv, ServiceParts, [TopNext]_topVars
               PROVE  Requests' /\ ContextInv' /\ ServiceParts'
    OBVIOUS
  <2>1. Requests' /\ ContextInv'
    BY TopStepKeeps, NextSound
  <2> QED
    BY <2>1, ServiceStepKeeps
<1> QED
  BY <1>1, <1>2, PartsMakeInv, PTL DEF TopSpec

(* Every variable of the service keeps its type; a history, which settle   *)
(* makes longer, stays within the window that llm_inference checks before. *)
THEOREM ServiceTypes == TopSpec => []TopTypeOK
<1>1. ServiceInv => TopTypeOK
  BY DEF ServiceInv
<1> QED
  BY <1>1, ServiceInvariant, PTL

(* Sequences are handed on before they are cleared, callbacks fail, turns  *)
(* fail and are rolled back, contexts are released beside the request that *)
(* uses them: the cache and the checkpoint of a context hold no turn of    *)
(* another.                                                                *)
THEOREM ServiceNoForeignTurns == TopSpec => []NoForeignTurns
<1>1. ServiceInv => NoForeignTurns
  BY DEF ServiceInv
<1> QED
  BY <1>1, ServiceInvariant, PTL

(* A swapped context can be restored whatever has failed, and when no      *)
(* request is under way nothing is left of a released one.                 *)
THEOREM ServiceSnapshots == TopSpec => []SnapshotsExact
<1>1. ServiceInv => SnapshotsExact
  <2> SUFFICES ASSUME ServiceInv, \A t \in Threads : At(t, "idle")
               PROVE  /\ \A i \in DOMAIN freeSequences : kv[freeSequences[i]] = <<>>
                      /\ DOMAIN snapshots \cup DOMAIN conversations \subseteq Live
    BY DEF ServiceInv, SnapshotsExact, NothingLeftBehind
  <2>1. /\ \A s : ~Clears(s) /\ \A c : ~Dropped(c, Leaving) /\ ~Dropped(c, {"clear", "drop"})
    BY DEF At, Clears, Dropped, Drops, Leaving
  <2>2. DOMAIN snapshots \cup DOMAIN conversations \subseteq Live
    BY <2>1 DEF ServiceInv, SnapshotsLeft, HistoriesLeft
  <2>3. \A i \in DOMAIN freeSequences : kv[freeSequences[i]] = <<>>
    <3> SUFFICES ASSUME NEW i \in DOMAIN freeSequences PROVE kv[freeSequences[i]] = <<>>
      OBVIOUS
    <3>1. freeSequences[i] \in SequenceIds /\ IsFree(freeSequences[i])
      BY DEF ServiceInv, TopTypeOK, ContextTypeOK, IsFree
    <3> QED
      BY <2>1, <3>1 DEF ServiceInv, SequencesLeft
  <2> QED
    BY <2>2, <2>3
<1> QED
  BY <1>1, ServiceInvariant, PTL
----------------------------------------------------------------------------
(* Histories change in no step but Settle and those that drop one.         *)
LEMMA TurnsStay ==
  ASSUME conversations' = conversations
  PROVE  \A d : Turns(d)' = Turns(d)
BY DEF Turns

\* The histories of the others.
LEMMA TurnsForgotten ==
  ASSUME NEW c, conversations' = Without(conversations, c)
  PROVE  \A d : d # c => Turns(d)' = Turns(d)
BY DEF Turns, Without

(* ContextsBegun, of any number of threads.  What a step of thread t does  *)
(* to the contexts that stay: their histories are kept, and the first turn *)
(* of one goes on, is in its history now, or was not with t.               *)
LEMMA BegunKept ==
  ASSUME ContextsBegun, NEW t \in Threads, Moved(t, thread'[t]), initialized' = initialized,
         \A c \in Live' :
           \/ thread'[t].created /\ thread'[t].context = c
           \/ /\ c \in Live
              /\ Turns(c) > 0 => Turns(c)' > 0
              /\ thread[t].created /\ thread[t].context = c => Turns(c)' > 0
  PROVE  ContextsBegun'
<1> SUFFICES ASSUME initialized, NEW c \in Live'
             PROVE  Turns(c)' > 0 \/ \E u \in Threads : thread'[u].created /\ thread'[u].context = c
  BY DEF ContextsBegun
<1>1. CASE thread'[t].created /\ thread'[t].context = c
  BY <1>1
<1>2. CASE Turns(c)' > 0
  BY <1>2
<1>3. CASE /\ ~(Turns(c)' > 0) /\ c \in Live
           /\ Turns(c) > 0 => Turns(c)' > 0
           /\ thread[t].created /\ thread[t].context = c => Turns(c)' > 0
  <2>1. PICK u \in Threads : thread[u].created /\ thread[u].context = c
    BY <1>3 DEF ContextsBegun
  <2>2. u # t
    BY <1>3, <2>1
  <2> QED
    BY <2>1, <2>2 DEF Moved
<1> QED
  BY <1>1, <1>2, <1>3

\* A step that leaves every history alone.
LEMMA BegunUntold ==
  ASSUME ContextsBegun, NEW t \in Threads, Moved(t, thread'[t]),
         UNCHANGED <<conversations, initialized>>,
         \A c \in Live' : c \in Live \/ (thread'[t].created /\ thread'[t].context = c),
         thread[t].created => /\ thread'[t].created /\ thread'[t].context = thread[t].context
  PROVE  ContextsBegun'
BY TurnsStay, BegunKept

\* A thread that makes a context makes its first turn.
LEMMA NewLease ==
  ASSUME ServiceParts, NEW t \in Threads, NEW a \in Agents, NEW p \in Parents,
         NEW table, NEW b, NEW c, NEW s \in SequenceIds, MadeOn(table, c, s, b),
         Lease(t, a, p, c, s, TRUE)
  PROVE  Moved(t, thread'[t]) /\ thread'[t].created /\ thread'[t].context = c
<1>1. thread \in [Threads -> Request] /\ c \in ContextIds
  BY DEF ServiceParts, ServiceTypeOK, MadeOn
<1>2. Moved(t, [pc |-> "infer", agent |-> a, parent |-> p, context |-> c,
                sequence |-> s, created |-> TRUE, ok |-> FALSE])
  BY <1>1, LeaseMoves
<1> QED
  BY <1>2 DEF Moved

\* generate takes a context, or begins the first turn of a new one.
LEMMA GenerateBegins ==
  ASSUME ContextInv, ServiceParts, ContextsBegun, NEW t \in Threads, NEW a \in Agents,
         NEW p \in Parents, NEW r \in ContextIds \cup {NewContext}, Generate(t, a, p, r)
  PROVE  ContextsBegun'
<1>1. At(t, "idle") /\ UNCHANGED <<conversations, initialized>>
  BY DEF Generate
<1>2. ~thread[t].created
  BY <1>1, IdleFacts DEF IdleThread
<1>3. Live' = Live /\ Moved(t, thread'[t]) => ContextsBegun'
  BY <1>1, <1>2, BegunUntold
<1>4. PICK c \in Wanted(a, p, r) :
        \/ /\ AcquireResident(a, c)
           /\ Lease(t, a, p, c, contexts[c].sequence, FALSE)
        \/ /\ AcquireFree(a, c)
           /\ c = NewContext
           /\ Lease(t, a, p, nextContextId, Top(freeSequences), TRUE)
        \/ /\ (AcquireFree(a, c) /\ c # NewContext) \/ AcquireEvict(a, c)
           /\ thread' = [thread EXCEPT ![t] =
                [NoRequest EXCEPT !.pc = "callback", !.agent = a, !.parent = p]]
  BY DEF Generate
<1>5. CASE /\ AcquireResident(a, c)
           /\ Lease(t, a, p, c, contexts[c].sequence, FALSE)
  <2>1. Live' = Live /\ c \in ContextIds /\ contexts[c].sequence \in SequenceIds
    BY <1>5, ResidentGrants, ContextFacts
  <2>2. Moved(t, thread'[t])
    BY <1>5, <2>1, LeaseMoves DEF ServiceParts, ServiceTypeOK, Moved
  <2> QED
    BY <1>3, <2>1, <2>2
<1>6. CASE /\ AcquireFree(a, c) /\ c = NewContext
           /\ Lease(t, a, p, nextContextId, Top(freeSequences), TRUE)
  <2>1. /\ nextContextId <= MaxContextId /\ Create(contexts, stats, a, Top(freeSequences))
        /\ freeSequences # <<>> /\ freeSequences' = Pop(freeSequences)
    BY <1>6, WantedFacts DEF AcquireFree, Parents
  <2>2. MadeOn(contexts, nextContextId, Top(freeSequences), a)
    BY <2>1, ContextFacts, CreateMakes
  <2>3. Top(freeSequences) \in SequenceIds
    BY <2>1, PopFrees
  <2>4. Moved(t, thread'[t]) /\ thread'[t].created /\ thread'[t].context = nextContextId
    BY <1>6, <2>2, <2>3, NewLease
  <2> QED
    BY <1>1, <1>2, <2>2, <2>4, BegunUntold DEF MadeOn
<1>7. CASE /\ (AcquireFree(a, c) /\ c # NewContext) \/ AcquireEvict(a, c)
           /\ thread' = [thread EXCEPT ![t] =
                [NoRequest EXCEPT !.pc = "callback", !.agent = a, !.parent = p]]
  <2>1. Live' = Live
    BY <1>7 DEF AcquireFree, AcquireEvict, Load, Live
  <2> DEFINE q == [NoRequest EXCEPT !.pc = "callback", !.agent = a, !.parent = p]
  <2>2. q \in Request
    BY DEF NoRequest, Request, Parents
  <2>3. Moved(t, q)
    BY <1>7, <2>2, ThreadMoves DEF ServiceParts, ServiceTypeOK
  <2> QED
    BY <1>3, <2>1, <2>3 DEF Moved
<1> QED
  BY <1>4, <1>5, <1>6, <1>7

\* A callback returns, with a new context or with none.
LEMMA CallbackBegins ==
  ASSUME Requests, ContextInv, ServiceParts, ContextsBegun, NEW t \in Threads,
         SwapOutContext(t) \/ SwapOutFails(t) \/ SwapInContext(t) \/ SwapInFails(t)
  PROVE  ContextsBegun'
<1>1. At(t, "callback") /\ UNCHANGED <<conversations, initialized>>
  BY DEF SwapOutContext, SwapOutFails, SwapInContext, SwapInFails
<1>2. ~thread[t].created
  BY <1>1 DEF At, ServiceParts, LeaseExact, Leased
<1>3. Live' = Live /\ Moved(t, thread'[t]) => ContextsBegun'
  BY <1>1, <1>2, BegunUntold
<1>4. /\ thread \in [Threads -> Request]
      /\ thread[t].agent \in Agents /\ thread[t].parent \in Parents
  BY <1>1 DEF ServiceParts, ServiceTypeOK, Requests, At
<1>5. CASE SwapOutFails(t) \/ SwapInFails(t)
  <2>1. Live' = Live /\ Return(t)
    BY <1>5 DEF SwapOutFails, SwapInFails, Saved, Loaded, LoadFailed, Live
  <2>2. Moved(t, thread'[t])
    BY <1>4, <2>1, ReturnMoves DEF Moved
  <2> QED
    BY <1>3, <2>1, <2>2
<1>6. CASE SwapInContext(t)
  <2>1. PICK c, s : c = call.context /\ s = call.sequence
    OBVIOUS
  <2>2. Loaded(TRUE) /\ Lease(t, thread[t].agent, thread[t].parent, c, s, FALSE)
    BY <1>6, <2>1 DEF SwapInContext
  <2>3. Live' = Live /\ c \in ContextIds /\ s \in SequenceIds
    BY <2>1, <2>2, LoadedGrants, ContextFacts
  <2>4. Moved(t, thread'[t])
    BY <1>4, <2>2, <2>3, LeaseMoves DEF Moved
  <2> QED
    BY <1>3, <2>3, <2>4
<1>7. CASE SwapOutContext(t)
  <2>1. PICK v, s : v = call.victim /\ s = contexts[v].sequence
    OBVIOUS
  <2>2. v \in Resident /\ v \in Live /\ s \in SequenceIds /\ Saved(TRUE) /\ call.stage = "saving"
    BY <1>7, <2>1, CheckpointFacts DEF Checkpointed
  <2>3. CASE call.context = NewContext
    <3>1. Create(SwapOut(v), SwapOutStats, call.agent, s) /\ nextContextId <= MaxContextId
      BY <2>1, <2>2, <2>3 DEF Saved, ContextInv, CallSound
    <3>2. SwapOut(v) \in [Live -> Entry]
      BY <2>2, SwapOutFacts
    <3>3. MadeOn(SwapOut(v), nextContextId, s, call.agent)
      BY <3>1, <3>2, CreateMakes
    <3>4. Lease(t, thread[t].agent, thread[t].parent, nextContextId, s, TRUE)
      BY <1>7, <2>1, <2>3 DEF SwapOutContext
    <3>5. Moved(t, thread'[t]) /\ thread'[t].created /\ thread'[t].context = nextContextId
      <4>1. PICK table, b, a, p : /\ table = SwapOut(v) /\ b = call.agent
                                  /\ a = thread[t].agent /\ p = thread[t].parent
        OBVIOUS
      <4>2. /\ a \in Agents /\ p \in Parents /\ MadeOn(table, nextContextId, s, b)
            /\ Lease(t, a, p, nextContextId, s, TRUE)
        BY <1>4, <3>3, <3>4, <4>1
      <4> QED
        BY <2>2, <4>2, NewLease
    <3> QED
      BY <1>1, <1>2, <3>3, <3>5, BegunUntold DEF MadeOn
  <2>4. CASE call.context # NewContext
    <3>1. contexts' = SwapOut(v)
      BY <2>1, <2>2, <2>4 DEF Saved, Load
    <3>2. Live' = Live
      BY <2>2, <3>1, SwapOutFacts DEF Live
    <3>3. thread' = thread
      BY <1>7, <2>4 DEF SwapOutContext
    <3>4. Moved(t, thread'[t])
      BY <1>4, <3>3 DEF Moved
    <3> QED
      BY <1>3, <3>2, <3>4
  <2> QED
    BY <2>3, <2>4
<1> QED
  BY <1>5, <1>6, <1>7

\* A turn is made or fails; the first turn of a context goes on.
LEMMA TurnBegins ==
  ASSUME ContextInv, ServiceParts, ContextsBegun, NEW t \in Threads,
         Infer(t) \/ InferFails(t) \/ Unpin(t)
  PROVE  ContextsBegun'
<1>1. UNCHANGED <<conversations, initialized>> /\ thread \in [Threads -> Request]
  BY DEF Infer, InferFails, Unpin, ServiceParts, ServiceTypeOK
<1>2. Live' = Live
  BY FinishEdits DEF Infer, InferFails, Unpin, Edited, contextVars, Live
<1>3. /\ Moved(t, thread'[t]) /\ thread'[t].created = thread[t].created
      /\ thread'[t].context = thread[t].context
  <2>1. CASE InferFails(t) \/ Unpin(t)
    BY <1>1, <2>1, GotoMoves DEF InferFails, Unpin
  <2>2. CASE Infer(t)
    <3> DEFINE r == [thread[t] EXCEPT !.pc = "unpin", !.ok = TRUE]
    <3>1. r \in Request /\ r.created = thread[t].created /\ r.context = thread[t].context
      BY <1>1 DEF Request
    <3>2. thread' = [thread EXCEPT ![t] = r]
      BY <2>2 DEF Infer
    <3> HIDE DEF r
    <3>3. Moved(t, r)
      BY <1>1, <3>1, <3>2, ThreadMoves
    <3> QED
      BY <3>1, <3>3 DEF Moved
  <2> QED
    BY <2>1, <2>2
<1> QED
  BY <1>1, <1>2, <1>3, BegunUntold

\* The turn enters the history of its context.
LEMMA SettleBegins ==
  ASSUME ContextInv, ServiceParts, ContextsBegun, NEW t \in Threads, Settle(t)
  PROVE  ContextsBegun'
<1>1. PICK c, n : /\ c = thread[t].context
                  /\ n = LET before == IF thread[t].created THEN 0 ELSE Turns(c)
                         IN IF thread[t].ok THEN before + 1 ELSE before
  OBVIOUS
<1>2. /\ thread[t].ok \/ ~thread[t].created
      /\ conversations' = With(conversations, c, n)
      /\ Return(t) /\ initialized' = initialized /\ contexts' = contexts
  BY <1>1 DEF Settle, contextVars
<1>3. Moved(t, thread'[t]) /\ Live' = Live
  BY <1>2, ReturnMoves DEF ServiceParts, ServiceTypeOK, Moved, Live
<1>4. Turns(c)' = n /\ \A d : d # c => Turns(d)' = Turns(d)
  BY <1>2 DEF Turns, With
<1>5. Turns(c) \in Nat
  BY TopAssumption DEF Turns, ServiceParts, ServiceTypeOK
<1>6. (thread[t].created => n > 0) /\ (Turns(c) > 0 => n > 0)
  BY <1>1, <1>2, <1>5
<1> QED
  BY <1>1, <1>2, <1>3, <1>4, <1>6, BegunKept

\* A context whose first turn failed is not left behind.
LEMMA AbandonBegins ==
  ASSUME ContextInv, ServiceParts, ContextsBegun, NEW t \in Threads, Abandon(t)
  PROVE  ContextsBegun'
<1>1. PICK c : c = thread[t].context
  OBVIOUS
<1>2. /\ At(t, "settle") /\ thread[t].created /\ initialized' = initialized
      /\ thread \in [Threads -> Request]
  BY DEF Abandon, ServiceParts, ServiceTypeOK
<1>3. CASE /\ Release(thread[t].agent, thread[t].parent, c) /\ Goto(t, "clear")
           /\ UNCHANGED <<conversation, conversations>>
  <2>1. Live' \subseteq Live
    BY <1>3, ReleaseEndsOrEdits DEF Gone, Edited
  <2>2. /\ Moved(t, thread'[t]) /\ thread'[t].created = thread[t].created
        /\ thread'[t].context = thread[t].context
    BY <1>2, <1>3, GotoMoves
  <2> QED
    BY <1>2, <1>3, <2>1, <2>2, BegunUntold
<1>4. CASE /\ ~(c \in Live /\ MayRelease(c, thread[t].agent, thread[t].parent))
           /\ conversations' = Without(conversations, c)
           /\ Return(t) /\ Unlock /\ UNCHANGED contextVars
  <2>1. c \notin Live
    BY <1>1, <1>2, <1>4, SettleFacts DEF MayRelease, Authorized, OwnedBy
  <2>2. Live' = Live /\ Moved(t, thread'[t])
    BY <1>2, <1>4, ReturnMoves DEF contextVars, Live, Moved
  <2>3. \A d : d # c => Turns(d)' = Turns(d)
    BY <1>4, TurnsForgotten
  <2> QED
    BY <1>1, <1>2, <2>1, <2>2, <2>3, BegunKept
<1> QED
  BY <1>1, <1>3, <1>4 DEF Abandon

\* A context is released, or what a released one leaves behind is dropped.
LEMMA LeavingBegins ==
  ASSUME ContextInv, ServiceParts, ContextsBegun, NEW t \in Threads,
         ClearSequence(t) \/ RemoveSnapshot(t) \/ EraseConversation(t)
  PROVE  ContextsBegun'
<1>1. PICK c : c = thread[t].context
  OBVIOUS
<1>2. /\ thread[t].pc \in Leaving /\ initialized' = initialized /\ Live' = Live
      /\ thread \in [Threads -> Request]
  BY DEF ClearSequence, RemoveSnapshot, EraseConversation, At, Leaving, contextVars, Live,
         ServiceParts, ServiceTypeOK
<1>3. c \notin Live
  BY <1>1, <1>2, LeavingFacts
<1>4. \A d : d # c => Turns(d)' = Turns(d)
  BY <1>1, TurnsStay, TurnsForgotten DEF ClearSequence, RemoveSnapshot, EraseConversation
<1>5. Moved(t, thread'[t])
  BY <1>2, ReturnMoves, GotoMoves DEF ClearSequence, RemoveSnapshot, EraseConversation, Moved
<1> QED
  BY <1>1, <1>2, <1>3, <1>4, <1>5, BegunKept

\* release_context ends a context or leaves it to its other owners.
LEMMA ReleaseContextBegins ==
  ASSUME ContextInv, ServiceParts, ContextsBegun, NEW t \in Threads, NEW a, NEW p,
         NEW c \in ContextIds, ReleaseContext(t, a, p, c)
  PROVE  ContextsBegun'
<1>1. /\ At(t, "idle") /\ Release(a, p, c) /\ UNCHANGED <<conversations, initialized>>
      /\ thread \in [Threads -> Request]
  BY DEF ReleaseContext, ServiceParts, ServiceTypeOK
<1>2. ~thread[t].created
  BY <1>1, IdleFacts DEF IdleThread
<1>3. c \in Live /\ Live' \subseteq Live
  BY <1>1, ReleaseEndsOrEdits DEF Gone, Edited
<1>4. Moved(t, thread'[t])
  <2>1. CASE thread' = thread
    BY <1>1, <2>1 DEF Moved
  <2>2. CASE thread' = [thread EXCEPT ![t] =
               [NoRequest EXCEPT !.pc = IF c \in Resident THEN "clear" ELSE "drop",
                                 !.context = c, !.sequence = contexts[c].sequence]]
    <3> DEFINE r == [NoRequest EXCEPT !.pc = IF c \in Resident THEN "clear" ELSE "drop",
                                      !.context = c, !.sequence = contexts[c].sequence]
    <3>1. contexts[c].sequence \in SequenceIds \cup {NoSequence}
      BY <1>3, ContextFacts DEF Entry
    <3>2. r \in Request
      BY <3>1 DEF NoRequest, Request
    <3> HIDE DEF r
    <3>3. thread' = [thread EXCEPT ![t] = r]
      BY <2>2 DEF r
    <3> QED
      BY <1>1, <3>2, <3>3, ThreadMoves DEF Moved
  <2> QED
    BY <2>1, <2>2 DEF ReleaseContext
<1> QED
  BY <1>1, <1>2, <1>3, <1>4, BegunUntold

\* Every step of the service.
LEMMA BegunStep ==
  ASSUME Requests, ContextInv, ServiceParts, ContextsBegun, [TopNext]_topVars
  PROVE  ContextsBegun'
<1>1. CASE \E t \in Threads : RequestStep(t)
  BY <1>1, CallbackBegins, TurnBegins, SettleBegins, AbandonBegins, LeavingBegins DEF RequestStep
<1>2. CASE Shutdown
  BY <1>2 DEF Shutdown, ContextsBegun
<1>3. CASE UNCHANGED topVars
  BY <1>3 DEF topVars, contextVars, serviceVars, ContextsBegun, Live, Turns
<1> QED
  BY <1>1, <1>2, <1>3, GenerateBegins, ReleaseContextBegins DEF TopNext

(* generate makes a context before its first turn, gives the pin back      *)
(* before it deals with a failure, and its context may be released by the  *)
(* owner in between: with any number of threads, every context that stays  *)
(* has a turn in its history or a thread that is making the first one.     *)
THEOREM ServiceContextsBegun == TopSpec => []ContextsBegun
<1>1. TopInit => Requests /\ ContextInv /\ ServiceParts /\ ContextsBegun
  BY InitiallySound, InitiallyServed DEF TopInit, Requests, NoRequest, ContextInit, ContextsBegun, Live
<1>2. Requests /\ ContextInv /\ ServiceParts /\ ContextsBegun /\ [TopNext]_topVars
        => Requests' /\ ContextInv' /\ ServiceParts' /\ ContextsBegun'
  BY TopStepKeeps, NextSound, ServiceStepKeeps, BegunStep
<1>3. Requests /\ ContextInv /\ ServiceParts /\ ContextsBegun => ContextsBegun
  OBVIOUS
<1> QED
  BY <1>1, <1>2, <1>3, PTL DEF TopSpec
----------------------------------------------------------------------------
(* HistoryKept, for one thread and an engine that can always roll back.    *)
OneThread == \A t, u \in Threads : t = u

\* With one thread, what any thread does is what it does.
LEMMA OnlyThread ==
  ASSUME OneThread, NEW t \in Threads
  PROVE  /\ \A c : Fresh(c) <=> thread[t].context = c /\ thread[t].created /\ ~thread[t].ok
         /\ \A c : Made(c) <=> thread[t].ok /\ thread[t].context = c
         /\ \A s : Clears(s) <=> thread[t].pc = "clear" /\ thread[t].sequence = s
BY DEF OneThread, Fresh, Made, Clears

\* The same after a step.
LEMMA OnlyThreadNext ==
  ASSUME OneThread, NEW t \in Threads
  PROVE  /\ \A c : Fresh(c)' <=> thread'[t].context = c /\ thread'[t].created /\ ~thread'[t].ok
         /\ \A c : Made(c)' <=> thread'[t].ok /\ thread'[t].context = c
         /\ \A s : Clears(s)' <=> thread'[t].pc = "clear" /\ thread'[t].sequence = s
BY DEF OneThread, Fresh, Made, Clears

\* With one thread, nothing is about to be cleared unless it is.
LEMMA NothingCleared ==
  ASSUME OneThread, NEW t \in Threads, thread'[t].pc # "clear"
  PROVE  ClearsUnused'
BY OnlyThreadNext DEF ClearsUnused

\* The content of a context that a step does not touch.
LEMMA ContentStays ==
  ASSUME NEW d, d \in Resident' <=> d \in Resident,
         d \in Resident => /\ contexts'[d].sequence = contexts[d].sequence
                           /\ kv'[contexts[d].sequence] = kv[contexts[d].sequence],
         d \notin Resident => snapshots'[d] = snapshots[d]
  PROVE  Content(d)' = Content(d)
BY DEF Content

(* What context d holds and what is known of it stays.                     *)
Untouched(d) == d \in Live /\ Content(d)' = Content(d) /\ Turns(d)' = Turns(d)

(* A step with no turn under way, which can only begin a first turn.       *)
LEMMA QuietKeeps ==
  ASSUME OneThread, HistoriesExact, NEW t \in Threads,
         ~thread[t].created, ~thread[t].ok, ~thread'[t].ok, initialized' = initialized,
         initialized => \A d \in Live' : Untouched(d) \/ (thread'[t].created /\ thread'[t].context = d)
  PROVE  HistoriesExact'
<1> SUFFICES ASSUME initialized, NEW d \in Live', ~Fresh(d)'
             PROVE  Len(Content(d)') = IF Made(d)' THEN Turns(d)' + 1 ELSE Turns(d)'
  BY DEF HistoriesExact
<1>1. Untouched(d)
  BY OnlyThreadNext
<1>2. ~Fresh(d) /\ ~Made(d) /\ ~Made(d)'
  BY OnlyThread, OnlyThreadNext
<1>3. Len(Content(d)) = Turns(d)
  BY <1>1, <1>2 DEF HistoriesExact, Untouched
<1> QED
  BY <1>1, <1>2, <1>3 DEF Untouched

\* What a lease says of its thread.
LEMMA LeaseSets ==
  ASSUME ServiceParts, NEW t \in Threads, NEW a, NEW p, NEW c, NEW s, NEW created,
         Lease(t, a, p, c, s, created)
  PROVE  /\ thread'[t].pc = "infer" /\ thread'[t].context = c /\ thread'[t].sequence = s
         /\ thread'[t].created = created /\ thread'[t].ok = FALSE
BY DEF Lease, ServiceParts, ServiceTypeOK

\* Generate keeps sequence and history of every context in agreement.
LEMMA GenerateHistory ==
  ASSUME OneThread, ContextInv, ServiceParts, HistoryInv, NEW t \in Threads, NEW a \in Agents,
         NEW p \in Parents, NEW requested \in ContextIds \cup {NewContext},
         Generate(t, a, p, requested)
  PROVE  HistoryInv'
<1>1. /\ At(t, "idle") /\ UNCHANGED <<conversations, kv, snapshots, initialized>>
  BY DEF Generate
<1>2. ~thread[t].created /\ ~thread[t].ok
  BY <1>1, IdleFacts DEF IdleThread
<1>3. \A d : Turns(d)' = Turns(d)
  BY <1>1, TurnsStay
<1>4. PICK c \in Wanted(a, p, requested) :
       \/ /\ AcquireResident(a, c)
          /\ Lease(t, a, p, c, contexts[c].sequence, FALSE)
       \/ /\ AcquireFree(a, c)
          /\ \/ /\ c = NewContext
                /\ Lease(t, a, p, nextContextId, Top(freeSequences), TRUE)
             \/ /\ c # NewContext
                /\ thread' = [thread EXCEPT ![t] =
                     [NoRequest EXCEPT !.pc = "callback", !.agent = a, !.parent = p]]
       \/ /\ AcquireEvict(a, c)
          /\ thread' = [thread EXCEPT ![t] =
               [NoRequest EXCEPT !.pc = "callback", !.agent = a, !.parent = p]]
  BY DEF Generate
<1>5. CASE AcquireResident(a, c) /\ Lease(t, a, p, c, contexts[c].sequence, FALSE)
  <2>1. /\ Live' = Live /\ Resident' = Resident
        /\ \A d \in Live : contexts'[d].sequence = contexts[d].sequence
    BY <1>5, ResidentGrants
  <2>2. \A d \in Live' : Untouched(d)
    BY <1>1, <1>3, <2>1, ContentStays DEF Untouched
  <2>3. thread'[t].pc = "infer" /\ ~thread'[t].ok
    BY <1>5, LeaseSets
  <2> QED
    BY <1>1, <1>2, <2>2, <2>3, QuietKeeps, NothingCleared DEF HistoryInv
<1>6. CASE AcquireFree(a, c) /\ c = NewContext /\ Lease(t, a, p, nextContextId, Top(freeSequences), TRUE)
  <2>1. PICK n, s : n = nextContextId /\ s = Top(freeSequences)
    OBVIOUS
  <2>2. nextContextId <= MaxContextId
    BY <1>6, WantedFacts DEF Parents
  <2>3. MadeOn(contexts, n, s, a)
    BY <1>6, <2>1, <2>2, ContextFacts, CreateMakes DEF AcquireFree
  <2>4. /\ Live' = Live \cup {n} /\ n \notin Live
        /\ \A d \in Live : contexts'[d] = contexts[d]
    BY <2>3 DEF MadeOn
  <2>5. \A d \in Live : d \in Resident' <=> d \in Resident
    BY <2>4 DEF Resident
  <2>6. \A d \in Live : Untouched(d)
    BY <1>1, <1>3, <2>4, <2>5, ContentStays DEF Untouched
  <2>7. thread'[t].pc = "infer" /\ ~thread'[t].ok /\ thread'[t].created /\ thread'[t].context = n
    BY <1>6, <2>1, LeaseSets
  <2>8. \A d \in Live' : Untouched(d) \/ (thread'[t].created /\ thread'[t].context = d)
    BY <2>4, <2>6, <2>7
  <2> QED
    BY <1>1, <1>2, <2>7, <2>8, QuietKeeps, NothingCleared DEF HistoryInv
<1>7. CASE /\ (AcquireFree(a, c) /\ c # NewContext) \/ AcquireEvict(a, c)
           /\ thread' = [thread EXCEPT ![t] =
                [NoRequest EXCEPT !.pc = "callback", !.agent = a, !.parent = p]]
  <2>1. contexts' = contexts
    BY <1>7 DEF AcquireFree, AcquireEvict
  <2>2. Live' = Live /\ Resident' = Resident
    BY <2>1 DEF Live, Resident
  <2>3. \A d \in Live' : Untouched(d)
    BY <1>1, <1>3, <2>1, <2>2, ContentStays DEF Untouched
  <2>4. thread'[t].pc = "callback" /\ ~thread'[t].ok
    BY <1>7 DEF NoRequest, ServiceParts, ServiceTypeOK
  <2> QED
    BY <1>1, <1>2, <2>3, <2>4, QuietKeeps, NothingCleared DEF HistoryInv
<1> QED
  BY <1>4, <1>5, <1>6, <1>7

\* SwapOut keeps sequence and history of every context in agreement.
LEMMA SwapOutHistory ==
  ASSUME OneThread, ContextInv, ServiceParts, HistoryInv, NEW t \in Threads, SwapOutContext(t)
  PROVE  HistoryInv'
<1>0. PICK v, s : v = call.victim /\ s = contexts[v].sequence
  OBVIOUS
<1>1. Checkpointed(t, v, s)
  BY <1>0, CheckpointFacts
<1>2. /\ v \in Resident /\ v \in Live /\ s \in SequenceIds /\ call.stage = "saving" /\ Saved(TRUE)
      /\ \A x \in SequenceIds : x # s => kv'[x] = kv[x]
      /\ conversations' = conversations /\ initialized' = initialized
      /\ ~thread[t].created
  BY <1>1 DEF Checkpointed
<1>3. At(t, "callback") /\ snapshots' = With(snapshots, v, kv[s])
  BY <1>0 DEF SwapOutContext
<1>4. snapshots'[v] = kv[s] /\ \A d \in DOMAIN snapshots : d # v => snapshots'[d] = snapshots[d]
  BY <1>3 DEF With
<1>5. ~thread[t].ok
  BY <1>3 DEF At, ServiceParts, LeaseExact
<1>6. \A d : Turns(d)' = Turns(d)
  BY <1>2, TurnsStay
<1>7. /\ SwapOut(v)[v].sequence = NoSequence
      /\ \A d \in Live : d # v => SwapOut(v)[d] = contexts[d]
      /\ SwapOut(v) \in [Live -> Entry]
  BY <1>2, SwapOutFacts
<1> HIDE DEF SwapOut
<1>8. ASSUME \A d \in Live : contexts'[d] = SwapOut(v)[d], Live \subseteq Live',
             initialized, NEW d \in Live
      PROVE  Untouched(d)
  <2>1. d \in Resident' <=> SwapOut(v)[d].sequence # NoSequence
    BY <1>8 DEF Resident
  <2>2. CASE d = v
    <3>1. Content(d)' = kv[s] /\ Content(d) = kv[s]
      BY <1>0, <1>2, <1>4, <1>7, <2>1, <2>2 DEF Content
    <3> QED
      BY <1>6, <1>8, <3>1 DEF Untouched
  <2>3. CASE d # v
    <3>1. contexts'[d] = contexts[d] /\ (d \in Resident' <=> d \in Resident)
      BY <1>7, <1>8, <2>1, <2>3 DEF Resident
    <3>2. d \in Resident => kv'[contexts[d].sequence] = kv[contexts[d].sequence]
      BY <1>0, <1>2, <2>3, ContextFacts
    <3>3. d \notin Resident => snapshots'[d] = snapshots[d]
      BY <1>4, <1>8, <2>3 DEF ServiceParts, SwappedHasSnapshot
    <3>4. Content(d)' = Content(d)
      BY <3>1, <3>2, <3>3, ContentStays
    <3> QED
      BY <1>6, <1>8, <3>4 DEF Untouched
  <2> QED
    BY <2>2, <2>3
<1>9. CASE call.context = NewContext
  <2>1. PICK n, a, b, p : /\ n = nextContextId /\ a = call.agent
                          /\ b = thread[t].agent /\ p = thread[t].parent
    OBVIOUS
  <2>2. Create(SwapOut(v), SwapOutStats, a, s) /\ nextContextId <= MaxContextId
    BY <1>0, <1>2, <1>9, <2>1 DEF Saved, ContextInv, CallSound
  <2>3. MadeOn(SwapOut(v), n, s, a)
    BY <1>7, <2>1, <2>2, CreateMakes
  <2>4. Live' = Live \cup {n} /\ \A d \in Live : contexts'[d] = SwapOut(v)[d]
    BY <2>3 DEF MadeOn
  <2>5. Lease(t, b, p, n, s, TRUE)
    BY <1>0, <1>9, <2>1 DEF SwapOutContext
  <2>6. thread'[t].pc = "infer" /\ ~thread'[t].ok /\ thread'[t].created /\ thread'[t].context = n
    BY <2>5, LeaseSets
  <2>7. initialized => \A d \in Live' : Untouched(d) \/ (thread'[t].created /\ thread'[t].context = d)
    BY <1>8, <2>4, <2>6
  <2> QED
    BY <1>2, <1>5, <2>6, <2>7, QuietKeeps, NothingCleared DEF HistoryInv
<1>10. CASE call.context # NewContext
  <2>1. contexts' = SwapOut(v) /\ thread' = thread
    BY <1>0, <1>2, <1>10 DEF Saved, SwapOutContext
  <2>2. Live' = Live
    BY <1>7, <2>1 DEF Live
  <2>3. initialized => \A d \in Live' : Untouched(d)
    BY <1>8, <2>1, <2>2
  <2>4. thread'[t].pc # "clear"
    BY <1>3, <2>1 DEF At
  <2> QED
    BY <1>2, <1>5, <2>1, <2>3, <2>4, QuietKeeps, NothingCleared DEF HistoryInv
<1> QED
  BY <1>9, <1>10
\* SwapIn keeps sequence and history of every context in agreement.
LEMMA SwapInHistory ==
  ASSUME OneThread, ContextInv, ServiceParts, HistoryInv, NEW t \in Threads, SwapInContext(t)
  PROVE  HistoryInv'
<1>0. PICK c, s, a, p : /\ c = call.context /\ s = call.sequence
                        /\ a = thread[t].agent /\ p = thread[t].parent
  OBVIOUS
<1>1. /\ At(t, "callback") /\ c \in DOMAIN snapshots /\ Loaded(TRUE)
      /\ kv' = [kv EXCEPT ![s] = snapshots[c]]
      /\ snapshots' \in {snapshots, Without(snapshots, c)}
      /\ Lease(t, a, p, c, s, FALSE)
      /\ conversations' = conversations /\ initialized' = initialized
  BY <1>0 DEF SwapInContext
<1>2. /\ c \in Live /\ c \notin Resident /\ s \in SequenceIds /\ ~InUse(s)
      /\ Live' = Live /\ Resident' = Resident \cup {c} /\ contexts'[c].sequence = s
      /\ \A d \in Live : d # c => contexts'[d].sequence = contexts[d].sequence
  BY <1>0, <1>1, LoadedGrants
<1>3. ~thread[t].created /\ ~thread[t].ok
  BY <1>1 DEF At, ServiceParts, LeaseExact, Leased
<1>4. thread'[t].pc = "infer" /\ ~thread'[t].ok
  BY <1>1, LeaseSets
<1>5. kv'[s] = snapshots[c] /\ \A x \in SequenceIds : x # s => kv'[x] = kv[x]
  BY <1>1, <1>2 DEF ServiceParts, ServiceTypeOK
<1>6. \A d \in DOMAIN snapshots : d # c => snapshots'[d] = snapshots[d]
  BY <1>1 DEF Without
<1>7. ASSUME initialized, NEW d \in Live PROVE Untouched(d)
  <2>1. Turns(d)' = Turns(d)
    BY <1>1, TurnsStay
  <2>2. CASE d = c
    <3>1. Content(d)' = snapshots[c] /\ Content(d) = snapshots[c]
      BY <1>2, <1>5, <2>2 DEF Content
    <3> QED
      BY <1>7, <2>1, <3>1 DEF Untouched
  <2>3. CASE d # c
    <3>1. d \in Resident => contexts[d].sequence \in SequenceIds \ {s}
      BY <1>2, ContextFacts DEF InUse
    <3>2. d \notin Resident => snapshots'[d] = snapshots[d]
      BY <1>6, <1>7, <2>3 DEF ServiceParts, SwappedHasSnapshot
    <3>3. /\ d \in Resident' <=> d \in Resident
          /\ d \in Resident => /\ contexts'[d].sequence = contexts[d].sequence
                               /\ kv'[contexts[d].sequence] = kv[contexts[d].sequence]
      BY <1>2, <1>5, <1>7, <2>3, <3>1
    <3>4. Content(d)' = Content(d)
      BY <3>2, <3>3, ContentStays
    <3> QED
      BY <1>7, <2>1, <3>4 DEF Untouched
  <2> QED
    BY <2>2, <2>3
<1> QED
  BY <1>1, <1>2, <1>3, <1>4, <1>7, QuietKeeps, NothingCleared DEF HistoryInv

(* Steps that leave the table alone and clear at most an unused sequence.  *)
LEMMA UnusedCleared ==
  ASSUME ContextInv, contexts' = contexts,
         \A x \in SequenceIds : InUse(x) => kv'[x] = kv[x],
         NEW d \in Live, d \notin Resident => snapshots'[d] = snapshots[d], Turns(d)' = Turns(d)
  PROVE  Untouched(d) /\ d \in Live'
<1>1. Live' = Live /\ Resident' = Resident
  BY DEF Live, Resident
<1>2. d \in Resident => kv'[contexts[d].sequence] = kv[contexts[d].sequence]
  BY ContextFacts DEF InUse
<1>3. Content(d)' = Content(d)
  BY <1>1, <1>2, ContentStays
<1> QED
  BY <1>1, <1>3 DEF Untouched

\* CallbackFails keeps sequence and history of every context in agreement.
LEMMA CallbackFailsHistory ==
  ASSUME OneThread, ContextInv, ServiceParts, HistoryInv, NEW t \in Threads,
         SwapOutFails(t) \/ SwapInFails(t)
  PROVE  HistoryInv'
<1>1. /\ At(t, "callback") /\ Return(t) /\ contexts' = contexts /\ conversations' = conversations
      /\ snapshots' = snapshots /\ initialized' = initialized
      /\ kv' = kv \/ (call.stage = "loading" /\ kv' = [kv EXCEPT ![call.sequence] = <<>>])
  BY DEF SwapOutFails, SwapInFails, Saved, Loaded, LoadFailed
<1>2. ~thread[t].created /\ ~thread[t].ok
  BY <1>1 DEF At, ServiceParts, LeaseExact, Leased
<1>3. thread'[t].pc # "clear" /\ ~thread'[t].ok
  BY <1>1 DEF Return, NoRequest, ServiceParts, ServiceTypeOK
<1>4. \A x \in SequenceIds : InUse(x) => kv'[x] = kv[x]
  <2>1. \A x \in SequenceIds : ~(InUse(x) /\ InHand(x))
    BY DEF ContextInv, SequencesPooled
  <2> QED
    BY <1>1, <2>1 DEF InHand, ServiceParts, ServiceTypeOK
<1>5. Live' = Live
  BY <1>1 DEF Live
<1>6. \A d \in Live' : Untouched(d)
  BY <1>1, <1>4, <1>5, TurnsStay, UnusedCleared
<1> QED
  BY <1>1, <1>2, <1>3, <1>6, QuietKeeps, NothingCleared DEF HistoryInv

(* A turn is made: the cache grows by what the history will.               *)
LEMMA TurnHistory ==
  ASSUME OneThread, ContextInv, ServiceParts, HistoryInv, NEW t \in Threads, At(t, "infer"),
         NEW c, c = thread[t].context, NEW s, s = thread[t].sequence,
         NEW content, kv' = [kv EXCEPT ![s] = content],
         thread'[t].pc = "unpin", thread'[t].context = c, thread'[t].created = thread[t].created,
         initialized /\ ~(thread[t].created /\ ~thread'[t].ok) =>
           Len(content) = IF thread'[t].ok THEN Turns(c) + 1 ELSE Turns(c),
         UNCHANGED <<contextVars, conversations, snapshots, initialized>>
  PROVE  HistoryInv'
<1>1. contexts' = contexts /\ Live' = Live /\ Resident' = Resident
  BY DEF contextVars, Live, Resident
<1>2. c \in Resident /\ s \in SequenceIds /\ contexts[c].sequence = s /\ ~thread[t].ok
  BY TurnFacts
<1>3. kv'[s] = content /\ \A x \in SequenceIds : x # s => kv'[x] = kv[x]
  BY <1>2 DEF ServiceParts, ServiceTypeOK
<1>4. HistoriesExact'
  <2> SUFFICES ASSUME initialized, NEW d \in Live, ~Fresh(d)'
               PROVE  Len(Content(d)') = IF Made(d)' THEN Turns(d)' + 1 ELSE Turns(d)'
    BY <1>1 DEF HistoriesExact
  <2>1. Turns(d)' = Turns(d)
    BY TurnsStay
  <2>2. CASE d = c
    <3>1. Content(d)' = content
      BY <1>1, <1>2, <1>3, <2>2 DEF Content
    <3>2. ~(thread[t].created /\ ~thread'[t].ok) /\ (Made(d)' <=> thread'[t].ok)
      BY <2>2, OnlyThreadNext
    <3> QED
      BY <2>1, <2>2, <3>1, <3>2
  <2>3. CASE d # c
    <3>1. ~Fresh(d) /\ ~Made(d) /\ ~Made(d)'
      BY <2>3, OnlyThread, OnlyThreadNext
    <3>2. d \in Resident => kv'[contexts[d].sequence] = kv[contexts[d].sequence]
      BY <1>2, <1>3, <2>3, ContextFacts
    <3>3. Content(d)' = Content(d)
      BY <1>1, <3>2, ContentStays
    <3> QED
      BY <2>1, <3>1, <3>3 DEF HistoryInv, HistoriesExact
  <2> QED
    BY <2>2, <2>3
<1> QED
  BY <1>4, NothingCleared DEF HistoryInv

\* A context in its first turn has no history.
LEMMA NoHistoryYet ==
  ASSUME ServiceParts, NEW t \in Threads, thread[t].created, thread[t].pc \in Leased,
         NEW c, c = thread[t].context
  PROVE  Turns(c) = 0
BY DEF ServiceParts, LeaseExact, Turns

\* Infer keeps sequence and history of every context in agreement.
LEMMA InferHistory ==
  ASSUME OneThread, ContextInv, ServiceParts, HistoryInv, NEW t \in Threads, Infer(t)
  PROVE  HistoryInv'
<1>0. PICK c, s, base : /\ c = thread[t].context /\ s = thread[t].sequence
                        /\ base = TurnBase(t)
  OBVIOUS
<1>1. /\ At(t, "infer") /\ kv' = [kv EXCEPT ![s] = Append(base, c)]
      /\ thread' = [thread EXCEPT ![t].pc = "unpin", ![t].ok = TRUE]
      /\ UNCHANGED <<contextVars, conversations, snapshots, initialized>>
  BY <1>0 DEF Infer
<1>2. /\ c \in Live /\ c \in Resident /\ contexts[c].sequence = s /\ ~thread[t].ok
      /\ kv[s] \in Seq(ContextIds) /\ (~thread[t].created => ~Fresh(c))
  BY <1>0, <1>1, TurnFacts
<1>3. /\ thread'[t].pc = "unpin" /\ thread'[t].ok = TRUE /\ thread'[t].context = c
      /\ thread'[t].created = thread[t].created
  <2>1. thread[t] \in Request /\ DOMAIN thread = Threads
    BY DEF ServiceParts, ServiceTypeOK
  <2> QED
    BY <1>0, <1>1, <2>1 DEF Request
<1>4. ASSUME initialized PROVE Len(Append(base, c)) = Turns(c) + 1
  <2>1. CASE thread[t].created
    <3>1. base = <<>> /\ Turns(c) = 0
      BY <1>0, <1>1, <2>1, NoHistoryYet DEF TurnBase, At, Leased
    <3> QED
      BY <3>1
  <2>2. CASE ~thread[t].created
    <3>1. base = kv[s] /\ Content(c) = kv[s]
      BY <1>0, <1>2, <2>2 DEF TurnBase, Content
    <3>2. ~Fresh(c) /\ ~Made(c)
      BY <1>2, <2>2, OnlyThread
    <3>3. Len(kv[s]) = Turns(c)
      BY <1>2, <1>4, <3>1, <3>2 DEF HistoryInv, HistoriesExact
    <3> QED
      BY <1>2, <3>1, <3>3
  <2> QED
    BY <2>1, <2>2
<1>5. initialized /\ ~(thread[t].created /\ ~thread'[t].ok) =>
        Len(Append(base, c)) = IF thread'[t].ok THEN Turns(c) + 1 ELSE Turns(c)
  BY <1>3, <1>4
<1> QED
  BY <1>0, <1>1, <1>3, <1>5, TurnHistory

(* A turn that fails is taken back.                                        *)
LEMMA InferFailsHistory ==
  ASSUME OneThread, RollbackMayFail = FALSE, ContextInv, ServiceParts, HistoryInv,
         NEW t \in Threads, InferFails(t)
  PROVE  HistoryInv'
<1>0. PICK c, s : c = thread[t].context /\ s = thread[t].sequence
  OBVIOUS
<1>1. PICK content \in RolledBack(t) : kv' = [kv EXCEPT ![s] = content]
  BY <1>0 DEF InferFails
<1>2. /\ At(t, "infer") /\ Goto(t, "unpin")
      /\ UNCHANGED <<contextVars, conversations, snapshots, initialized>>
  BY DEF InferFails
<1>3. /\ c \in Live /\ c \in Resident /\ contexts[c].sequence = s /\ ~thread[t].ok
      /\ (~thread[t].created => ~Fresh(c))
  BY <1>0, <1>2, TurnFacts
<1>4. /\ thread'[t].pc = "unpin" /\ thread'[t].ok = thread[t].ok /\ thread'[t].context = c
      /\ thread'[t].created = thread[t].created
  BY <1>0, <1>2, GotoMoves DEF ServiceParts, ServiceTypeOK
<1>5. ASSUME initialized, ~(thread[t].created /\ ~thread'[t].ok) PROVE Len(content) = Turns(c)
  <2>1. ~thread[t].created
    BY <1>3, <1>4, <1>5
  <2>2. content = kv[s] /\ Content(c) = kv[s]
    BY <1>0, <1>1, <1>3, <2>1 DEF RolledBack, TurnBase, Content
  <2>3. ~Fresh(c) /\ ~Made(c)
    BY <1>3, <2>1, OnlyThread
  <2> QED
    BY <1>3, <1>5, <2>2, <2>3 DEF HistoryInv, HistoriesExact
<1>6. initialized /\ ~(thread[t].created /\ ~thread'[t].ok) =>
        Len(content) = IF thread'[t].ok THEN Turns(c) + 1 ELSE Turns(c)
  BY <1>3, <1>4, <1>5
<1> QED
  BY <1>0, <1>1, <1>2, <1>4, <1>6, TurnHistory
(* A step within a request: the turn under way is the same afterwards.     *)
LEMMA OnwardKeeps ==
  ASSUME OneThread, HistoriesExact, NEW t \in Threads, thread'[t].context = thread[t].context,
         thread'[t].created = thread[t].created, thread'[t].ok = thread[t].ok,
         initialized' = initialized, \A d \in Live' : Untouched(d)
  PROVE  HistoriesExact'
<1> SUFFICES ASSUME initialized, NEW d \in Live', ~Fresh(d)'
             PROVE  Len(Content(d)') = IF Made(d)' THEN Turns(d)' + 1 ELSE Turns(d)'
  BY DEF HistoriesExact
<1>1. ~Fresh(d) /\ (Made(d)' <=> Made(d))
  BY OnlyThread, OnlyThreadNext
<1> QED
  BY <1>1 DEF Untouched, HistoriesExact

\* Unpin keeps sequence and history of every context in agreement.
LEMMA UnpinHistory ==
  ASSUME OneThread, ContextInv, ServiceParts, HistoryInv, NEW t \in Threads, Unpin(t)
  PROVE  HistoryInv'
<1>0. PICK c : c = thread[t].context
  OBVIOUS
<1>1. /\ Finish(c) /\ Goto(t, "settle") /\ UNCHANGED <<conversations, kv, snapshots, initialized>>
  BY <1>0 DEF Unpin
<1>2. /\ Live' = Live /\ Resident' = Resident
      /\ \A d \in Live : contexts'[d].sequence = contexts[d].sequence
  BY <1>1, FinishEdits DEF Edited
<1>3. \A d \in Live' : Untouched(d)
  BY <1>1, <1>2, TurnsStay, ContentStays DEF Untouched
<1>4. /\ thread'[t].pc = "settle" /\ thread'[t].context = thread[t].context
      /\ thread'[t].created = thread[t].created /\ thread'[t].ok = thread[t].ok
  BY <1>1, GotoMoves DEF ServiceParts, ServiceTypeOK
<1> QED
  BY <1>1, <1>3, <1>4, OnwardKeeps, NothingCleared DEF HistoryInv

(* The turn enters the history.                                            *)
LEMMA SettleHistory ==
  ASSUME OneThread, ContextInv, ServiceParts, HistoryInv, NEW t \in Threads, Settle(t)
  PROVE  HistoryInv'
<1>0. PICK c, n : /\ c = thread[t].context
                  /\ n = LET before == IF thread[t].created THEN 0 ELSE Turns(c)
                         IN IF thread[t].ok THEN before + 1 ELSE before
  OBVIOUS
<1>1. /\ At(t, "settle") /\ (thread[t].ok \/ ~thread[t].created)
      /\ conversations' = With(conversations, c, n)
      /\ Return(t) /\ UNCHANGED <<contextVars, kv, snapshots, initialized>>
  BY <1>0 DEF Settle
<1>2. contexts' = contexts /\ Live' = Live /\ Resident' = Resident
  BY <1>1 DEF contextVars, Live, Resident
<1>3. /\ thread'[t].pc # "clear" /\ ~thread'[t].ok /\ ~thread'[t].created
  BY <1>1 DEF Return, NoRequest, ServiceParts, ServiceTypeOK
<1>4. thread[t].created => Turns(c) = 0
  BY <1>0, <1>1, NoHistoryYet DEF At, Leased
<1>5. /\ Turns(c)' = IF thread[t].ok THEN Turns(c) + 1 ELSE Turns(c)
      /\ \A d : d # c => Turns(d)' = Turns(d)
  BY <1>0, <1>1, <1>4 DEF Turns, With
<1>6. HistoriesExact'
  <2> SUFFICES ASSUME initialized, NEW d \in Live
               PROVE  Len(Content(d)') = IF Made(d)' THEN Turns(d)' + 1 ELSE Turns(d)'
    BY <1>1, <1>2 DEF HistoriesExact
  <2>1. ~Made(d)' /\ ~Fresh(d) /\ (Made(d) <=> thread[t].ok /\ d = c)
    BY <1>0, <1>1, <1>3, OnlyThread, OnlyThreadNext
  <2>2. Content(d)' = Content(d)
    BY <1>1, <1>2, ContentStays
  <2>3. Len(Content(d)) = IF Made(d) THEN Turns(d) + 1 ELSE Turns(d)
    BY <2>1 DEF HistoryInv, HistoriesExact
  <2> QED
    BY <1>5, <2>1, <2>2, <2>3
<1> QED
  BY <1>3, <1>6, NothingCleared DEF HistoryInv

(* Once a context is gone, its sequence is free until it is cleared.       *)
LEMMA GoneUnused ==
  ASSUME ContextInv, NEW c, Gone(c), c \in Resident, NEW s, s = contexts[c].sequence
  PROVE  ~InUse(s)'
<1>1. \A d \in Resident' : d \in Resident /\ d # c /\ contexts'[d] = contexts[d]
  BY DEF Gone, Resident
<1> QED
  BY <1>1, ContextFacts DEF InUse

\* A context that ends leaves the others alone.
LEMMA GoneUntouched ==
  ASSUME ContextInv, NEW c, Gone(c), UNCHANGED <<conversations, kv, snapshots>>
  PROVE  \A d \in Live' : Untouched(d)
<1> SUFFICES ASSUME NEW d \in Live' PROVE Untouched(d)
  OBVIOUS
<1>1. d \in Live /\ contexts'[d] = contexts[d] /\ (d \in Resident' <=> d \in Resident)
  BY DEF Gone, Resident
<1>2. Content(d)' = Content(d)
  BY <1>1, ContentStays
<1> QED
  BY <1>1, <1>2, TurnsStay DEF Untouched

\* Abandon keeps sequence and history of every context in agreement.
LEMMA AbandonHistory ==
  ASSUME OneThread, ContextInv, ServiceParts, HistoryInv, NEW t \in Threads, Abandon(t)
  PROVE  HistoryInv'
<1>0. PICK c, s : c = thread[t].context /\ s = thread[t].sequence
  OBVIOUS
<1>1. /\ At(t, "settle") /\ ~thread[t].ok /\ thread[t].created
      /\ UNCHANGED <<kv, snapshots, initialized>>
  BY DEF Abandon
<1>2. /\ c \in Live => /\ contexts[c].owners = {thread[t].agent}
                       /\ contexts[c].sequence = s /\ contexts[c].pins = 0
      /\ s \in SequenceIds /\ \A d : d # c => ~Fresh(d)
  BY <1>0, <1>1, SettleFacts
<1>3. CASE /\ Release(thread[t].agent, thread[t].parent, c) /\ Goto(t, "clear")
           /\ UNCHANGED <<conversation, conversations>>
  <2>1. c \in Live /\ Gone(c)
    BY <1>2, <1>3, ReleaseEndsOrEdits
  <2>2. c \in Resident /\ contexts[c].sequence = s
    BY <1>2, <2>1 DEF Resident, SequenceIds, NoSequence
  <2>3. ~InUse(s)'
    BY <2>1, <2>2, GoneUnused
  <2>4. \A d \in Live' : Untouched(d)
    BY <1>1, <1>3, <2>1, GoneUntouched
  <2>5. /\ thread'[t].context = thread[t].context /\ thread'[t].sequence = s
        /\ thread'[t].created = thread[t].created /\ thread'[t].ok = thread[t].ok
    BY <1>0, <1>3, GotoMoves DEF ServiceParts, ServiceTypeOK
  <2>6. ClearsUnused'
    <3>1. \A x : Clears(x)' => x = s
      BY <2>5, OnlyThreadNext
    <3> QED
      BY <2>3, <3>1 DEF ClearsUnused
  <2> QED
    BY <1>1, <2>4, <2>5, <2>6, OnwardKeeps DEF HistoryInv
<1>4. CASE /\ ~(c \in Live /\ MayRelease(c, thread[t].agent, thread[t].parent))
           /\ conversations' = Without(conversations, c)
           /\ Return(t) /\ UNCHANGED contextVars
  <2>1. c \notin Live
    BY <1>2, <1>4 DEF MayRelease, Authorized, OwnedBy
  <2>2. contexts' = contexts /\ Live' = Live /\ Resident' = Resident
    BY <1>4 DEF contextVars, Live, Resident
  <2>3. /\ thread'[t].pc # "clear" /\ ~thread'[t].ok /\ ~thread'[t].created
    BY <1>4 DEF Return, NoRequest, ServiceParts, ServiceTypeOK
  <2>4. HistoriesExact'
    <3> SUFFICES ASSUME initialized, NEW d \in Live
                 PROVE  Len(Content(d)') = IF Made(d)' THEN Turns(d)' + 1 ELSE Turns(d)'
      BY <1>1, <2>2 DEF HistoriesExact
    <3>1. ~Made(d)' /\ ~Fresh(d) /\ ~Made(d)
      BY <1>0, <1>1, <1>2, <2>1, <2>3, OnlyThread, OnlyThreadNext
    <3>2. Content(d)' = Content(d)
      BY <1>1, <2>2, ContentStays
    <3>3. Turns(d)' = Turns(d)
      BY <1>4, <2>1, TurnsForgotten
    <3> QED
      BY <3>1, <3>2, <3>3 DEF HistoryInv, HistoriesExact
  <2> QED
    BY <2>3, <2>4, NothingCleared DEF HistoryInv
<1> QED
  BY <1>0, <1>3, <1>4 DEF Abandon

\* ReleaseContext keeps sequence and history of every context in agreement.
LEMMA ReleaseContextHistory ==
  ASSUME OneThread, ContextInv, ServiceParts, HistoryInv, NEW t \in Threads, NEW a, NEW p, NEW c,
         ReleaseContext(t, a, p, c)
  PROVE  HistoryInv'
<1>0. PICK s : s = contexts[c].sequence
  OBVIOUS
<1>1. /\ At(t, "idle") /\ Release(a, p, c)
      /\ UNCHANGED <<conversations, kv, snapshots, initialized>>
  BY DEF ReleaseContext
<1>2. IdleThread(t)
  BY <1>1, IdleFacts
<1>3. Gone(c) \/ Edited(c)
  BY <1>1, ReleaseEndsOrEdits
<1>4. CASE Gone(c)
  <2>1. c \notin Live'
    BY <1>4 DEF Gone
  <2>2. thread' = [thread EXCEPT ![t] =
           [NoRequest EXCEPT !.pc = IF c \in Resident THEN "clear" ELSE "drop",
                             !.context = c, !.sequence = contexts[c].sequence]]
    BY <2>1 DEF ReleaseContext
  <2>3. /\ thread'[t].pc = (IF c \in Resident THEN "clear" ELSE "drop")
        /\ thread'[t].sequence = s /\ ~thread'[t].ok
    BY <1>0, <2>2 DEF NoRequest, ServiceParts, ServiceTypeOK
  <2>4. ClearsUnused'
    <3>1. \A x : Clears(x)' => x = s /\ c \in Resident
      BY <2>3, OnlyThreadNext
    <3>2. c \in Resident => ~InUse(s)'
      BY <1>0, <1>4, GoneUnused
    <3> QED
      BY <3>1, <3>2 DEF ClearsUnused
  <2>5. \A d \in Live' : Untouched(d)
    BY <1>1, <1>4, GoneUntouched
  <2> QED
    BY <1>1, <1>2, <2>3, <2>4, <2>5, QuietKeeps DEF IdleThread, HistoryInv
<1>5. CASE Edited(c)
  <2>1. /\ c \in Live' /\ Live' = Live /\ Resident' = Resident
        /\ \A d \in Live : contexts'[d].sequence = contexts[d].sequence
    BY <1>5 DEF Edited
  <2>2. thread' = thread
    BY <2>1 DEF ReleaseContext
  <2>3. \A d \in Live' : Untouched(d)
    BY <1>1, <2>1, TurnsStay, ContentStays DEF Untouched
  <2>4. thread'[t].pc # "clear" /\ ~thread'[t].ok
    BY <1>2, <2>2 DEF IdleThread
  <2> QED
    BY <1>1, <1>2, <2>3, <2>4, QuietKeeps, NothingCleared DEF IdleThread, HistoryInv
<1> QED
  BY <1>3, <1>4, <1>5

(* What belonged to a released context is cleared and dropped.             *)
LEMMA ClearHistory ==
  ASSUME OneThread, ContextInv, ServiceParts, HistoryInv, NEW t \in Threads, ClearSequence(t)
  PROVE  HistoryInv'
<1>0. PICK c, s : c = thread[t].context /\ s = thread[t].sequence
  OBVIOUS
<1>1. /\ thread[t].pc = "clear" /\ kv' = [kv EXCEPT ![s] = <<>>]
      /\ \/ conversations' = Without(conversations, c) /\ Return(t)
         \/ conversations' = conversations /\ Goto(t, "drop")
      /\ UNCHANGED <<contextVars, snapshots, initialized>>
  BY <1>0 DEF ClearSequence, At
<1>2. c \notin Live /\ s \in SequenceIds /\ ~thread[t].ok
  BY <1>0, <1>1, LeavingFacts DEF Leaving
<1>3. contexts' = contexts /\ Live' = Live
  BY <1>1 DEF contextVars, Live
<1>4. ~InUse(s)
  BY <1>0, <1>1, <1>2, OnlyThread DEF HistoryInv, ClearsUnused
<1>5. \A x \in SequenceIds : InUse(x) => kv'[x] = kv[x]
  BY <1>1, <1>4 DEF ServiceParts, ServiceTypeOK
<1>6. \A d \in Live : Turns(d)' = Turns(d)
  BY <1>1, <1>2, TurnsStay, TurnsForgotten
<1>7. \A d \in Live' : Untouched(d)
  BY <1>1, <1>3, <1>5, <1>6, UnusedCleared
<1>8. thread'[t].pc # "clear" /\ ~thread'[t].ok /\ (thread'[t].created => thread'[t].context = c)
  <2>1. CASE Return(t)
    BY <2>1 DEF Return, NoRequest, ServiceParts, ServiceTypeOK
  <2>2. CASE Goto(t, "drop")
    BY <1>0, <1>2, <2>2, GotoMoves DEF ServiceParts, ServiceTypeOK
  <2> QED
    BY <1>1, <2>1, <2>2
<1>9. HistoriesExact'
  <2> SUFFICES ASSUME initialized, NEW d \in Live
               PROVE  Len(Content(d)') = IF Made(d)' THEN Turns(d)' + 1 ELSE Turns(d)'
    BY <1>1, <1>3 DEF HistoriesExact
  <2>1. ~Made(d)' /\ ~Fresh(d) /\ ~Made(d)
    BY <1>0, <1>2, <1>8, OnlyThread, OnlyThreadNext
  <2> QED
    BY <1>3, <1>7, <2>1 DEF HistoryInv, HistoriesExact, Untouched
<1> QED
  BY <1>8, <1>9, NothingCleared DEF HistoryInv

\* What is dropped belongs to a context that has ended.
LEMMA DropHistory ==
  ASSUME OneThread, ContextInv, ServiceParts, HistoryInv, NEW t \in Threads,
         RemoveSnapshot(t) \/ EraseConversation(t)
  PROVE  HistoryInv'
<1>0. PICK c : c = thread[t].context
  OBVIOUS
<1>1. /\ thread[t].pc \in {"drop", "forget"}
      /\ snapshots' = snapshots \/ snapshots' = Without(snapshots, c)
      /\ conversations' = conversations \/ conversations' = Without(conversations, c)
      /\ Return(t) \/ Goto(t, "forget")
      /\ UNCHANGED <<contextVars, kv, initialized>>
  BY <1>0 DEF RemoveSnapshot, EraseConversation, At
<1>2. c \notin Live /\ ~thread[t].ok /\ ~thread[t].created
  BY <1>0, <1>1, LeavingFacts DEF Leaving
<1>3. contexts' = contexts /\ Live' = Live
  BY <1>1 DEF contextVars, Live
<1>4. \A d \in DOMAIN snapshots : d # c => snapshots'[d] = snapshots[d]
  BY <1>1 DEF Without
<1>5. \A d \in Live : Turns(d)' = Turns(d)
  BY <1>1, <1>2, TurnsStay, TurnsForgotten
<1>6. ASSUME initialized, NEW d \in Live PROVE Untouched(d)
  <2>1. d \notin Resident => snapshots'[d] = snapshots[d]
    BY <1>2, <1>4, <1>6 DEF ServiceParts, SwappedHasSnapshot
  <2> QED
    BY <1>1, <1>3, <1>5, <2>1, UnusedCleared
<1>7. thread'[t].pc # "clear" /\ ~thread'[t].ok
  <2>1. CASE Return(t)
    BY <2>1 DEF Return, NoRequest, ServiceParts, ServiceTypeOK
  <2>2. CASE Goto(t, "forget")
    BY <1>2, <2>2, GotoMoves DEF ServiceParts, ServiceTypeOK
  <2> QED
    BY <1>1, <2>1, <2>2
<1>8. initialized => \A d \in Live' : Untouched(d)
  BY <1>3, <1>6
<1> QED
  BY <1>1, <1>2, <1>7, <1>8, QuietKeeps, NothingCleared DEF HistoryInv

\* The other steps leave every history alone.
LEMMA RestHistory ==
  ASSUME HistoryInv, Shutdown \/ UNCHANGED topVars
  PROVE  HistoryInv'
<1>1. CASE Shutdown
  BY <1>1 DEF Shutdown, At, HistoryInv, HistoriesExact, ClearsUnused, Clears
<1>2. CASE UNCHANGED topVars
  BY <1>2 DEF topVars, serviceVars, contextVars, HistoryInv, HistoriesExact, ClearsUnused, Clears, InUse,
              Live, Resident, Fresh, Made, Content, Turns
<1> QED
  BY <1>1, <1>2

\* Every step keeps sequence and history of every context in agreement.
LEMMA HistoryStep ==
  ASSUME OneThread, RollbackMayFail = FALSE, ContextInv, ServiceParts, HistoryInv, [TopNext]_topVars
  PROVE  HistoryInv'
<1>1. CASE \E t \in Threads, a \in Agents, p \in Parents, r \in ContextIds \cup {NewContext} :
             Generate(t, a, p, r)
  BY <1>1, GenerateHistory
<1>2. CASE \E t \in Threads, a \in Agents, p \in Parents, c \in ContextIds : ReleaseContext(t, a, p, c)
  BY <1>2, ReleaseContextHistory
<1>3. ASSUME NEW t \in Threads, RequestStep(t) PROVE HistoryInv'
  <2>1. CASE SwapOutContext(t) \/ SwapInContext(t)
    BY <2>1, SwapOutHistory, SwapInHistory
  <2>2. CASE SwapOutFails(t) \/ SwapInFails(t)
    BY <2>2, CallbackFailsHistory
  <2>3. CASE Infer(t) \/ InferFails(t) \/ Unpin(t)
    BY <2>3, InferHistory, InferFailsHistory, UnpinHistory
  <2>4. CASE Settle(t) \/ Abandon(t)
    BY <2>4, SettleHistory, AbandonHistory
  <2>5. CASE ClearSequence(t) \/ RemoveSnapshot(t) \/ EraseConversation(t)
    BY <2>5, ClearHistory, DropHistory
  <2> QED
    BY <1>3, <2>1, <2>2, <2>3, <2>4, <2>5 DEF RequestStep
<1> QED
  BY <1>1, <1>2, <1>3, RestHistory DEF TopNext

(* As long as one request runs at a time and the engine can take back a    *)
(* failed turn, a context holds exactly the turns of its history whenever  *)
(* the service is at rest.  Both conditions are needed: the runs show what *)
(* a release beside a generate does, and a turn that cannot be taken back. *)
THEOREM OneThreadKeepsHistory ==
  ASSUME OneThread, RollbackMayFail = FALSE
  PROVE  TopSpec => []HistoryKept
<1>1. TopInit => Requests /\ ContextInv /\ ServiceParts /\ HistoryInv
  <2>1. TopInit => Requests /\ ContextInv /\ ServiceParts
    BY InitiallySound, InitiallyServed DEF TopInit, Requests, NoRequest
  <2>2. TopInit => HistoryInv
    BY DEF TopInit, ContextInit, HistoryInv, HistoriesExact, ClearsUnused, Clears, Live, NoRequest
  <2> QED
    BY <2>1, <2>2
<1>2. Requests /\ ContextInv /\ ServiceParts /\ HistoryInv /\ [TopNext]_topVars
        => Requests' /\ ContextInv' /\ ServiceParts' /\ HistoryInv'
  <2> SUFFICES ASSUME Requests, ContextInv, ServiceParts, HistoryInv, [TopNext]_topVars
               PROVE  Requests' /\ ContextInv' /\ ServiceParts' /\ HistoryInv'
    OBVIOUS
  <2>1. Requests' /\ ContextInv'
    BY TopStepKeeps, NextSound
  <2> QED
    BY <2>1, ServiceStepKeeps, HistoryStep
<1>3. ServiceParts /\ HistoryInv => HistoryKept
  <2> SUFFICES ASSUME ServiceParts, HistoryInv, initialized, \A t \in Threads : At(t, "idle"),
                      NEW c \in Live
               PROVE  Len(Content(c)) = Turns(c)
    BY DEF HistoryKept
  <2>1. ~Fresh(c) /\ ~Made(c)
    BY IdleFacts DEF IdleThread, Fresh, Made
  <2> QED
    BY <2>1 DEF HistoryInv, HistoriesExact
<1> QED
  BY <1>1, <1>2, <1>3, PTL DEF TopSpec
=============================================================================
