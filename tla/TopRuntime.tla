----------------------------- MODULE TopRuntime -----------------------------
(***************************************************************************)
(* The model service of agent_runtime_top (src/top_runtime.cpp) over its   *)
(* ContextManager and over the sequences of the engine                     *)
(* (src/llm_llamacpp.c).                                                   *)
(*                                                                         *)
(* Each request is handled by a thread.  generate holds                    *)
(* conversation_mutex_ from the acquisition of its context to its answer;  *)
(* release_context takes that mutex only for its last step and otherwise   *)
(* runs beside it.  The engine serializes its operations by a mutex of its *)
(* own, so that each of them is one step.                                  *)
(*                                                                         *)
(* The cache of a sequence, a snapshot and a conversation are abstracted   *)
(* to the turns they hold, and a turn to the context it was made for.  A   *)
(* sequence is in_use exactly when its cache is not empty.                 *)
(***************************************************************************)
EXTENDS ContextManager

CONSTANTS
  Threads,          \* threads that handle requests
  NoThread,         \* nobody holds conversation_mutex_
  MaxTurns,         \* turns that fit into n_ctx; also bounds a history
  RollbackMayFail   \* the memory of the model cannot drop part of a sequence

ASSUME TopAssumption ==
  /\ NoThread \notin Threads
  /\ MaxTurns \in Nat
  /\ RollbackMayFail \in BOOLEAN

VARIABLES
  thread,          \* where each thread is, and the lease it works on
  conversation,    \* the thread that holds conversation_mutex_
  conversations,   \* conversations_: turns in the history of each context
  kv,              \* the cache of each sequence
  snapshots,       \* snapshots_: the checkpoint of each context that has one
  initialized      \* initialized_

serviceVars ==
  <<thread, conversation, conversations, kv, snapshots, initialized>>
topVars == <<contextVars, serviceVars>>

----------------------------------------------------------------------------
NoRequest == [pc |-> "idle", agent |-> NoAgent, parent |-> NoAgent,
              context |-> NewContext, sequence |-> NoSequence,
              created |-> FALSE, ok |-> FALSE]

Request == [pc : {"idle", "callback", "infer", "unpin", "settle", "clear",
                  "drop", "forget"},
            agent : Agents \cup {NoAgent}, parent : Agents \cup {NoAgent},
            context : ContextIds \cup {NewContext},
            sequence : SequenceIds \cup {NoSequence},
            created : BOOLEAN, ok : BOOLEAN]

At(t, pc) == thread[t].pc = pc
Return(t) == thread' = [thread EXCEPT ![t] = NoRequest]
Goto(t, pc) == thread' = [thread EXCEPT ![t].pc = pc]
Unlock == conversation' = NoThread

(* The map f with the value x for c, and without c.                        *)
With(f, c, x) == [d \in DOMAIN f \cup {c} |-> IF d = c THEN x ELSE f[d]]
Without(f, c) == [d \in DOMAIN f \ {c} |-> f[d]]

(* The thread has a lease and goes on to the engine.                       *)
Lease(t, a, p, c, s, created) ==
  thread' = [thread EXCEPT ![t] =
    [pc |-> "infer", agent |-> a, parent |-> p, context |-> c,
     sequence |-> s, created |-> created, ok |-> FALSE]]

TopInit ==
  /\ ContextInit
  /\ thread = [t \in Threads |-> NoRequest]
  /\ conversation = NoThread
  /\ conversations = [c \in {} |-> 0]
  /\ kv = [s \in SequenceIds |-> <<>>]
  /\ snapshots = [c \in {} |-> <<>>]
  /\ initialized = TRUE

----------------------------------------------------------------------------
(* generate takes conversation_mutex_ and acquires a context.  If acquire  *)
(* refuses, the request is answered as busy and nothing has changed.       *)
Generate(t, a, p, requested) ==
  /\ initialized
  /\ At(t, "idle")
  /\ conversation = NoThread
  /\ call = Idle
  /\ \E c \in Wanted(a, p, requested) :
       \/ /\ AcquireResident(a, c)
          /\ Lease(t, a, p, c, contexts[c].sequence, FALSE)
       \/ /\ AcquireFree(a, c)
          /\ \/ /\ c = NewContext
                /\ Lease(t, a, p, nextContextId, Top(freeSequences), TRUE)
             \/ /\ c # NewContext
                /\ thread' = [thread EXCEPT ![t] =
                     [NoRequest EXCEPT !.pc = "callback", !.agent = a,
                                       !.parent = p]]
       \/ /\ AcquireEvict(a, c)
          /\ thread' = [thread EXCEPT ![t] =
               [NoRequest EXCEPT !.pc = "callback", !.agent = a, !.parent = p]]
  /\ conversation' = t
  /\ UNCHANGED <<conversations, kv, snapshots, initialized>>

(* swap_out_context: the sequence is checkpointed and cleared.  The engine *)
(* refuses a sequence that is not in use; the file system may fail.        *)
SwapOutContext(t) ==
  LET v == call.victim
      s == contexts[v].sequence
  IN /\ At(t, "callback") /\ call.stage = "saving"
     /\ kv[s] # <<>>
     /\ Saved(TRUE)
     /\ snapshots' = With(snapshots, v, kv[s])
     /\ kv' = [kv EXCEPT ![s] = <<>>]
     /\ IF call.context = NewContext
          THEN Lease(t, thread[t].agent, thread[t].parent, nextContextId, s, TRUE)
          ELSE UNCHANGED thread
     /\ UNCHANGED <<conversation, conversations, initialized>>

SwapOutFailsLocked(t) ==
  /\ At(t, "callback")
  /\ Saved(FALSE)
  /\ Return(t)
  /\ UNCHANGED <<conversation, conversations, kv, snapshots, initialized>>

SwapOutFails(t) ==
  /\ At(t, "callback")
  /\ Saved(FALSE)
  /\ Return(t)
  /\ Unlock
  /\ UNCHANGED <<conversations, kv, snapshots, initialized>>

(* swap_in_context: the checkpoint is restored.  Its entry stays if the    *)
(* file cannot be removed.                                                 *)
SwapInContext(t) ==
  LET c == call.context
      s == call.sequence
  IN /\ At(t, "callback") /\ call.stage = "loading"
     /\ c \in DOMAIN snapshots
     /\ Loaded(TRUE)
     /\ kv' = [kv EXCEPT ![s] = snapshots[c]]
     /\ snapshots' \in {snapshots, Without(snapshots, c)}
     /\ Lease(t, thread[t].agent, thread[t].parent, c, s, FALSE)
     /\ UNCHANGED <<conversation, conversations, initialized>>

SwapInFailsForGood(t) ==
  /\ At(t, "callback")
  /\ Loaded(FALSE)
  /\ kv' = [kv EXCEPT ![call.sequence] = <<>>]
  /\ snapshots' = Without(snapshots, call.context)
  /\ Return(t)
  /\ Unlock
  /\ UNCHANGED <<conversations, initialized>>

SwapInFails(t) ==
  /\ At(t, "callback")
  /\ Loaded(FALSE)
  /\ kv' = [kv EXCEPT ![call.sequence] = <<>>]
  /\ Return(t)
  /\ Unlock
  /\ UNCHANGED <<conversations, snapshots, initialized>>

Turns(c) == IF c \in DOMAIN conversations THEN conversations[c] ELSE 0

(* llm_inference: the first turn starts with an empty cache, a turn that   *)
(* fails or is cancelled is removed again.  If it cannot be removed, or if *)
(* there was nothing before it, the whole sequence is.                     *)
TurnBaseAsFound(t) == kv[thread[t].sequence]

TurnBase(t) == IF thread[t].created THEN <<>> ELSE kv[thread[t].sequence]

InferBeyondWindow(t) ==
  /\ At(t, "infer")
  /\ kv' = [kv EXCEPT ![thread[t].sequence] =
              Append(TurnBase(t), thread[t].context)]
  /\ thread' = [thread EXCEPT ![t].pc = "unpin", ![t].ok = TRUE]
  /\ UNCHANGED <<contextVars, conversation, conversations, snapshots, initialized>>

Infer(t) ==
  /\ At(t, "infer")
  /\ Len(TurnBase(t)) < MaxTurns
  /\ Turns(thread[t].context) < MaxTurns
  /\ kv' = [kv EXCEPT ![thread[t].sequence] =
              Append(TurnBase(t), thread[t].context)]
  /\ thread' = [thread EXCEPT ![t].pc = "unpin", ![t].ok = TRUE]
  /\ UNCHANGED <<contextVars, conversation, conversations, snapshots, initialized>>

RolledBackNever(t) == {Append(TurnBase(t), thread[t].context)}

RolledBack(t) ==
  {kv[thread[t].sequence], TurnBase(t)}
    \cup (IF RollbackMayFail THEN {<<>>} ELSE {})

InferFails(t) ==
  /\ At(t, "infer")
  /\ \E content \in RolledBack(t) :
       kv' = [kv EXCEPT ![thread[t].sequence] = content]
  /\ Goto(t, "unpin")
  /\ UNCHANGED <<contextVars, conversation, conversations, snapshots, initialized>>

UnpinLate(t) ==
  /\ At(t, "unpin")
  /\ Goto(t, "settle")
  /\ UNCHANGED <<contextVars, conversation, conversations, kv, snapshots, initialized>>

(* The pin is given back before the outcome is dealt with.                 *)
Unpin(t) ==
  /\ At(t, "unpin")
  /\ Finish(thread[t].context)
  /\ Goto(t, "settle")
  /\ UNCHANGED <<conversation, conversations, kv, snapshots, initialized>>

(* The turn enters the history, or the history is as before.               *)
Settle(t) ==
  LET r == thread[t]
      before == IF r.created THEN 0 ELSE Turns(r.context)
  IN /\ At(t, "settle")
     /\ r.ok \/ ~r.created
     /\ conversations' =
          With(conversations, r.context, IF r.ok THEN before + 1 ELSE before)
     /\ Return(t)
     /\ Unlock
     /\ UNCHANGED <<contextVars, kv, snapshots, initialized>>

(* A context whose first turn failed is released again, unless another     *)
(* request of its owner has released it since it was unpinned.             *)
Abandon(t) ==
  LET r == thread[t]
  IN /\ At(t, "settle")
     /\ ~r.ok /\ r.created
     /\ \/ /\ Release(r.agent, r.parent, r.context)
           /\ Goto(t, "clear")
           /\ UNCHANGED <<conversation, conversations>>
        \/ /\ call = Idle
           /\ ~(r.context \in Live /\ MayRelease(r.context, r.agent, r.parent))
           /\ conversations' = Without(conversations, r.context)
           /\ Return(t)
           /\ Unlock
           /\ UNCHANGED contextVars
     /\ UNCHANGED <<kv, snapshots, initialized>>

----------------------------------------------------------------------------
(* release_context: the context is released, then its sequence is cleared, *)
(* then its checkpoint and its history are dropped.                        *)
ReleaseContext(t, a, p, c) ==
  /\ initialized
  /\ At(t, "idle")
  /\ Release(a, p, c)
  /\ \/ /\ c \in Live'
        /\ UNCHANGED thread
     \/ /\ c \notin Live'
        /\ thread' = [thread EXCEPT ![t] =
             [NoRequest EXCEPT
                !.pc = IF c \in Resident THEN "clear" ELSE "drop",
                !.context = c, !.sequence = contexts[c].sequence]]
  /\ UNCHANGED <<conversation, conversations, kv, snapshots, initialized>>

ClearSequence(t) ==
  /\ At(t, "clear")
  /\ kv' = [kv EXCEPT ![thread[t].sequence] = <<>>]
  /\ \/ /\ conversation = t
        /\ conversations' = Without(conversations, thread[t].context)
        /\ Return(t)
        /\ Unlock
     \/ /\ conversation # t
        /\ Goto(t, "drop")
        /\ UNCHANGED <<conversation, conversations>>
  /\ UNCHANGED <<contextVars, snapshots, initialized>>

RemoveSnapshot(t) ==
  /\ At(t, "drop")
  /\ snapshots' = Without(snapshots, thread[t].context)
  /\ Goto(t, "forget")
  /\ UNCHANGED <<contextVars, conversation, conversations, kv, initialized>>

EraseConversation(t) ==
  /\ At(t, "forget")
  /\ conversation = NoThread
  /\ conversations' = Without(conversations, thread[t].context)
  /\ Return(t)
  /\ UNCHANGED <<contextVars, conversation, kv, snapshots, initialized>>

(* shutdown waits for the requests under way and refuses later ones.       *)
Shutdown ==
  /\ initialized
  /\ \A t \in Threads : At(t, "idle")
  /\ initialized' = FALSE
  /\ snapshots' = [c \in {} |-> <<>>]
  /\ conversations' = [c \in {} |-> 0]
  /\ kv' = [s \in SequenceIds |-> <<>>]
  /\ UNCHANGED <<contextVars, thread, conversation>>

----------------------------------------------------------------------------
Parents == Agents \cup {NoAgent}

RequestStep(t) ==
  \/ SwapOutContext(t)
  \/ SwapOutFails(t)
  \/ SwapInContext(t)
  \/ SwapInFails(t)
  \/ Infer(t)
  \/ InferFails(t)
  \/ Unpin(t)
  \/ Settle(t)
  \/ Abandon(t)
  \/ ClearSequence(t)
  \/ RemoveSnapshot(t)
  \/ EraseConversation(t)

TopNext ==
  \/ \E t \in Threads, a \in Agents, p \in Parents,
        r \in ContextIds \cup {NewContext} : Generate(t, a, p, r)
  \/ \E t \in Threads, a \in Agents, p \in Parents, c \in ContextIds :
       ReleaseContext(t, a, p, c)
  \/ \E t \in Threads : RequestStep(t)
  \/ Shutdown

TopSpec == TopInit /\ [][TopNext]_topVars

(* A thread that can take its next step does: the engine bounds a turn by  *)
(* max_tokens, and every callback returns.                                 *)
FairTopSpec == TopSpec /\ \A t \in Threads : WF_topVars(RequestStep(t))

----------------------------------------------------------------------------
TopTypeOK ==
  /\ ContextTypeOK
  /\ thread \in [Threads -> Request]
  /\ conversation \in Threads \cup {NoThread}
  /\ DOMAIN conversations \subseteq ContextIds
  /\ conversations \in [DOMAIN conversations -> 0 .. MaxTurns]
  /\ kv \in [SequenceIds -> Seq(ContextIds)]
  /\ DOMAIN snapshots \subseteq ContextIds
  /\ snapshots \in [DOMAIN snapshots -> Seq(ContextIds)]
  /\ initialized \in BOOLEAN

(* A context is fresh until its first turn has succeeded: its sequence may *)
(* still hold the turns of the context that was released from it.          *)
Fresh(c) == \E t \in Threads :
  thread[t].context = c /\ thread[t].created /\ ~thread[t].ok

Content(c) == IF c \in Resident THEN kv[contexts[c].sequence] ELSE snapshots[c]
Only(content, c) == \A i \in DOMAIN content : content[i] = c

(* No turn of one context is ever in the cache or in the checkpoint of     *)
(* another, although sequences are handed on before they are cleared.      *)
NoForeignTurns ==
  /\ \A c \in Resident : ~Fresh(c) => Only(kv[contexts[c].sequence], c)
  /\ \A c \in DOMAIN snapshots : Only(snapshots[c], c)

(* A context without a sequence has a checkpoint to be restored from,      *)
(* whatever callback failed and whoever released contexts meanwhile.       *)
SwappedHasSnapshot ==
  initialized => \A c \in Live \ Resident : c \in DOMAIN snapshots

(* When no request is under way, the cache or the checkpoint of a context  *)
(* holds exactly the turns of its history (docs/architecture.md:104:       *)
(* "keeping the KV position aligned with the rendered role history").      *)
HistoryKept ==
  initialized /\ (\A t \in Threads : At(t, "idle")) =>
    \A c \in Live : Len(Content(c)) = Turns(c)

(* When no request is under way, nothing is left of a released context:    *)
(* free sequences are empty, and checkpoints and histories belong to       *)
(* contexts that exist.                                                    *)
NothingLeftBehind ==
  (\A t \in Threads : At(t, "idle")) =>
    /\ \A i \in DOMAIN freeSequences : kv[freeSequences[i]] = <<>>
    /\ DOMAIN snapshots \cup DOMAIN conversations \subseteq Live

(* Checkpoints are neither missing nor forgotten.                          *)
SnapshotsExact == SwappedHasSnapshot /\ NothingLeftBehind

(* A context that stays has a turn in its history, or its first turn is    *)
(* being made: a failure of the first turn never leaves an empty context   *)
(* behind that counts against the limit of contexts, although the pin is   *)
(* given back first and the owner may release the context in between.      *)
ContextsBegun ==
  initialized => \A c \in Live :
    Turns(c) > 0 \/ \E t \in Threads : thread[t].created /\ thread[t].context = c

(* A generate request gives the mutex back, so that others are served.     *)
LockReturned ==
  \A t \in Threads : conversation = t ~> conversation # t
----------------------------------------------------------------------------
(* The inductive invariant behind TopTypeOK, NoForeignTurns and            *)
(* SnapshotsExact; next to it ContextsBegun is inductive, too.             *)
Holding == {"callback", "infer", "unpin", "settle"}
Leased == {"infer", "unpin", "settle"}
Leaving == {"clear", "drop", "forget"}

(* The thread has conversation_mutex_: it generates, or it releases the    *)
(* context whose first turn it has failed to make.                         *)
Holds(t) == thread[t].pc \in Holding \/ (thread[t].pc = "clear" /\ thread[t].created)

(* A release_context that has yet to drop what belongs to context c.       *)
Drops(t, c, pcs) == thread[t].pc \in pcs /\ ~thread[t].created /\ thread[t].context = c
Dropped(c, pcs) == \E t \in Threads : Drops(t, c, pcs)

MutexExact == \A t \in Threads : conversation = t <=> Holds(t)

(* The lease of a thread is what the table says, as long as the context    *)
(* has not been released; then somebody is about to drop its history.      *)
LeaseExact(t) ==
  LET r == thread[t]
  IN /\ r.created => r.pc \in Leased \cup {"clear"}
     /\ r.pc = "callback" => call.agent = r.agent
     /\ r.pc \in Leased => /\ r.context \in 1 .. nextContextId - 1
                           /\ r.sequence \in SequenceIds
                           /\ r.context \in Live \/ Dropped(r.context, Leaving)
     /\ r.pc \in Leased /\ r.context \in Live => contexts[r.context].sequence = r.sequence
     /\ r.created /\ r.pc \in Leased =>
          /\ r.context \notin DOMAIN snapshots \cup DOMAIN conversations
          /\ r.context \in Live => contexts[r.context].owners = {r.agent}
     /\ r.pc \in {"infer", "unpin"} => r.context \in Live
     /\ r.ok => /\ r.pc \in {"unpin", "settle"}
                /\ IF r.created THEN MaxTurns > 0 ELSE Turns(r.context) < MaxTurns
     /\ r.pc \in Leaving => r.context \in (1 .. nextContextId - 1) \ Live
     /\ r.pc = "clear" => r.sequence \in SequenceIds

(* A context is pinned while its turn is being made.                       *)
Using(c) == \E t \in Threads : thread[t].pc \in {"infer", "unpin"} /\ thread[t].context = c
PinsExact == \A c \in Live : contexts[c].pins = IF Using(c) THEN 1 ELSE 0

(* What is left of a released context has a thread that will see to it.    *)
Clears(s) == \E t \in Threads : thread[t].pc = "clear" /\ thread[t].sequence = s
SequencesLeft == \A s \in SequenceIds : IsFree(s) /\ kv[s] # <<>> => Clears(s)
SnapshotsLeft ==
  \A c \in DOMAIN snapshots : c < nextContextId /\ (c \in Live \/ Dropped(c, {"clear", "drop"}))
HistoriesLeft ==
  \A c \in DOMAIN conversations : c < nextContextId /\ (c \in Live \/ Dropped(c, Leaving))

ServiceInv ==
  /\ TopTypeOK
  /\ MutexExact
  /\ \A t \in Threads : LeaseExact(t)
  /\ PinsExact
  /\ SequencesLeft /\ SnapshotsLeft /\ HistoriesLeft
  /\ NoForeignTurns
  /\ SwappedHasSnapshot

(* Behind HistoryKept, for one thread and an engine that can always roll   *)
(* back: a turn that is made enters the history when the thread settles,   *)
(* and a sequence is cleared before it is handed on.                       *)
Made(c) == \E t \in Threads : thread[t].ok /\ thread[t].context = c

HistoriesExact == initialized =>
  \A c \in Live : ~Fresh(c) =>
    Len(Content(c)) = IF Made(c) THEN Turns(c) + 1 ELSE Turns(c)

ClearsUnused == \A s \in SequenceIds : Clears(s) => ~InUse(s)

HistoryInv == HistoriesExact /\ ClearsUnused
=============================================================================
