---------------------------- MODULE LlamaEngine ----------------------------
(***************************************************************************)
(* The model manager of agent_runtime_top/src/llm_llamacpp.c: loading and   *)
(* unloading a model while threads use it, its two locks, the prompts whose *)
(* cache is shared (shared_sys), and what llm_inference leaves in the cache *)
(* of a private sequence however it ends.                                   *)
(*                                                                          *)
(* One slot of the table of models is modelled; the others are alike.  The  *)
(* cache of llama.cpp is a sequence of tokens for every sequence id.  All   *)
(* the work of a call on the model is done under inference_lock and is one  *)
(* step, with the release of the lock; which decode fails or is cancelled,  *)
(* and where, is chosen.  Checkpoints are steps of TopRuntime.              *)
(***************************************************************************)
EXTENDS UseOrder, FiniteSets

CONSTANTS
  EngineThreads,
  NoThread,
  Prompts,        \* system prompts
  NoPrompt,       \* an entry of shared_sys that is not in use
  TokenCount,     \* TokenCount[p]: the tokens of a prompt
  MaxShared,      \* MAX_SHARED_SYS
  Private,        \* ids of private sequences
  Window,         \* config.n_ctx
  MaxTurn,        \* bound: tokens of a turn
  MaxLoads        \* bound: models loaded

ASSUME LlamaAssumption ==
  /\ NoThread \notin EngineThreads
  /\ NoPrompt \notin Prompts
  /\ TokenCount \in [Prompts -> Nat \ {0}]
  /\ MaxShared \in Nat \ {0}
  /\ Window \in Nat
  /\ MaxTurn \in Nat \ {0}
  /\ MaxLoads \in Nat

VARIABLES
  managerLock,    \* holder of g_llm_manager.lock
  inferenceLock,  \* holder of model->inference_lock
  model,          \* the id in the slot, 0 if it is not used
  nextModel,      \* next_model_id
  at,             \* where each thread is in a call
  wanted,         \* the id of the model it was called with
  sharedSys,      \* the prompt of each entry of shared_sys
  recent,         \* entries in use, the least recently used first
  sharedCache,    \* the cache of the sequence of each entry
  cache,          \* the cache of each private sequence
  position,       \* seq_states: current_pos; in_use is position > 0
  conversation    \* history: the prompt and the turns of a private sequence since it was empty

lockVars == <<managerLock, inferenceLock, at, wanted>>
prefixVars == <<sharedSys, recent, sharedCache>>
sequenceVars == <<cache, position, conversation>>
llamaVars == <<lockVars, model, nextModel, prefixVars, sequenceVars>>

Entries == 1 .. MaxShared
Tokens(p) == [i \in 1 .. TokenCount[p] |-> p]
TurnTokens(n) == [i \in 1 .. n |-> NoPrompt]

LlamaTypeOK ==
  /\ managerLock \in EngineThreads \cup {NoThread}
  /\ inferenceLock \in EngineThreads \cup {NoThread}
  /\ model \in 0 .. MaxLoads
  /\ nextModel \in 1 .. (MaxLoads + 1)
  /\ at \in [EngineThreads -> {"idle", "manager", "unload", "model"}]
  /\ wanted \in [EngineThreads -> 0 .. MaxLoads]
  /\ sharedSys \in [Entries -> Prompts \cup {NoPrompt}]
  /\ recent \in Seq(Entries)
  /\ sharedCache \in [Entries -> Seq(Prompts)]
  /\ position \in [Private -> 0 .. Window]
  /\ cache \in [Private -> Seq(Prompts \cup {NoPrompt})]
  /\ conversation \in [Private -> Seq(Prompts \cup {NoPrompt})]

-----------------------------------------------------------------------------
(* The manager *)

Emptied ==
  /\ sharedSys' = [i \in Entries |-> NoPrompt]
  /\ recent' = <<>>
  /\ sharedCache' = [i \in Entries |-> <<>>]
  /\ cache' = [s \in Private |-> <<>>]
  /\ position' = [s \in Private |-> 0]
  /\ conversation' = [s \in Private |-> <<>>]

LlamaInit ==
  /\ managerLock = NoThread
  /\ inferenceLock = NoThread
  /\ model = 0
  /\ nextModel = 1
  /\ at = [t \in EngineThreads |-> "idle"]
  /\ wanted = [t \in EngineThreads |-> 0]
  /\ sharedSys = [i \in Entries |-> NoPrompt]
  /\ recent = <<>>
  /\ sharedCache = [i \in Entries |-> <<>>]
  /\ cache = [s \in Private |-> <<>>]
  /\ position = [s \in Private |-> 0]
  /\ conversation = [s \in Private |-> <<>>]

LoadModel ==
  /\ managerLock = NoThread
  /\ model = 0
  /\ nextModel <= MaxLoads
  /\ model' = nextModel
  /\ nextModel' = nextModel + 1
  /\ Emptied
  /\ UNCHANGED lockVars

\* The id is spent when the file or the context cannot be made.
LoadModelFails ==
  /\ managerLock = NoThread
  /\ model = 0
  /\ nextModel <= MaxLoads
  /\ nextModel' = nextModel + 1
  /\ UNCHANGED <<lockVars, model, prefixVars, sequenceVars>>

Enter(t, where) ==
  /\ at[t] = "idle"
  /\ managerLock = NoThread
  /\ model # 0
  /\ at' = [at EXCEPT ![t] = where]
  /\ wanted' = [wanted EXCEPT ![t] = model]

\* The mutant looks the model up and gives the lock back at once.
FindModelUnlocked(t) ==
  /\ Enter(t, "manager")
  /\ UNCHANGED <<managerLock, inferenceLock, model, nextModel, prefixVars, sequenceVars>>

\* A call that uses the model finds it under the lock of the manager; a call
\* with another id is refused.
FindModel(t) ==
  /\ Enter(t, "manager")
  /\ managerLock' = t
  /\ UNCHANGED <<inferenceLock, model, nextModel, prefixVars, sequenceVars>>

\* It keeps that lock until it has the one of the model.
LockModel(t) ==
  /\ at[t] = "manager"
  /\ inferenceLock = NoThread
  /\ inferenceLock' = t
  /\ managerLock' = IF managerLock = t THEN NoThread ELSE managerLock
  /\ at' = [at EXCEPT ![t] = "model"]
  /\ UNCHANGED <<wanted, model, nextModel, prefixVars, sequenceVars>>

BeginUnload(t) ==
  /\ Enter(t, "unload")
  /\ managerLock' = t
  /\ UNCHANGED <<inferenceLock, model, nextModel, prefixVars, sequenceVars>>

\* llm_unload_model has both locks, frees the model and destroys the inner lock.
UnloadModel(t) ==
  /\ at[t] = "unload"
  /\ inferenceLock = NoThread
  /\ model' = 0
  /\ Emptied
  /\ managerLock' = NoThread
  /\ at' = [at EXCEPT ![t] = "idle"]
  /\ UNCHANGED <<inferenceLock, wanted, nextModel>>

\* The end of a call on the model.
Unlock(t) ==
  /\ at[t] = "model"
  /\ at' = [at EXCEPT ![t] = "idle"]
  /\ inferenceLock' = NoThread
  /\ UNCHANGED <<managerLock, wanted, model, nextModel>>

-----------------------------------------------------------------------------
(* Shared prompts *)

Found(p) == {i \in Entries : sharedSys[i] = p}
Unused == {i \in Entries : sharedSys[i] = NoPrompt}

\* select_shared_sys_slot
Selected == IF Unused # {} THEN CHOOSE i \in Unused : \A j \in Unused : i <= j
            ELSE Head(recent)

\* The order of use once the entry i is no longer in use.
Forgotten(i) == IF sharedSys[i] = NoPrompt THEN recent ELSE Drop(recent, i)

\* The mutant lets the entry it is about to replace stand until it has another.
CacheFailsKept(p) ==
  /\ TokenCount[p] < Window
  /\ sharedCache' = [sharedCache EXCEPT ![Selected] = <<>>]
  /\ UNCHANGED <<sharedSys, recent>>

\* cache_system_prefix: the old entry goes first; if the decode fails or is
\* aborted, what it has decoded is removed and the entry stays unused.
CacheFails(p) ==
  /\ TokenCount[p] < Window
  /\ sharedSys' = [sharedSys EXCEPT ![Selected] = NoPrompt]
  /\ recent' = Forgotten(Selected)
  /\ sharedCache' = [sharedCache EXCEPT ![Selected] = <<>>]

Cached(p) ==
  /\ TokenCount[p] < Window
  /\ sharedSys' = [sharedSys EXCEPT ![Selected] = p]
  /\ recent' = Append(Forgotten(Selected), Selected)
  /\ sharedCache' = [sharedCache EXCEPT ![Selected] = Tokens(p)]

\* What a call does with the prompt, and the cache it can copy from: the entry
\* is there, or is made, or cannot be made.
Shares(p, content) ==
  \/ \E i \in Found(p) :
       /\ content = sharedCache[i]
       /\ recent' = Touch(recent, i)
       /\ UNCHANGED <<sharedSys, sharedCache>>
  \/ /\ Found(p) = {}
     /\ content = Tokens(p)
     /\ Cached(p)

\* llm_warmup_shared_kv_with_cancel.  A cancelled call leaves the entry as it
\* is; a prompt that cannot be tokenized or does not fit the window evicts none.
Warmup(t, p) ==
  /\ Unlock(t)
  /\ \/ \E content \in {Tokens(p)} \cup {sharedCache[i] : i \in Entries} : Shares(p, content)
     \/ Found(p) = {} /\ CacheFails(p)
     \/ UNCHANGED prefixVars
  /\ UNCHANGED sequenceVars

-----------------------------------------------------------------------------
(* llm_inference on a private sequence *)

\* What the turn starts from: content in the cache at some position.  The
\* first turn empties the sequence; a prompt that cannot be shared, because its
\* decode failed or before an entry was touched, is decoded into it.
FirstTurn(p, content, pos) ==
  \/ /\ p = NoPrompt
     /\ content = <<>> /\ pos = 0
     /\ UNCHANGED prefixVars
  \/ /\ p # NoPrompt
     /\ Shares(p, content)
     /\ pos = TokenCount[p]
  \/ /\ p # NoPrompt
     /\ Found(p) = {}
     /\ CacheFails(p) \/ UNCHANGED prefixVars
     /\ content = Tokens(p) /\ pos = TokenCount[p]

PromptContents == {<<>>} \cup {Tokens(p) : p \in Prompts} \cup {sharedCache[i] : i \in Entries}
Positions == {0} \cup {TokenCount[p] : p \in Prompts}

Clear(s) ==
  /\ cache' = [cache EXCEPT ![s] = <<>>]
  /\ position' = [position EXCEPT ![s] = 0]
  /\ conversation' = [conversation EXCEPT ![s] = <<>>]

\* A turn is a token of the prompt and one that is generated or ends it at
\* least; what it may need fits the window, and all of it is decoded.
TurnDone(s, content, pos, n, said) ==
  /\ pos + n <= Window
  /\ cache' = [cache EXCEPT ![s] = content \o TurnTokens(n)]
  /\ position' = [position EXCEPT ![s] = pos + n]
  /\ conversation' = [conversation EXCEPT ![s] = said \o TurnTokens(n)]

InferFirst(t, s, p) ==
  /\ Unlock(t)
  /\ \E content \in PromptContents, pos \in Positions, n \in 2 .. MaxTurn :
       /\ FirstTurn(p, content, pos)
       /\ TurnDone(s, content, pos, n, IF p = NoPrompt THEN <<>> ELSE Tokens(p))

InferNext(t, s) ==
  /\ Unlock(t)
  /\ \E n \in 2 .. MaxTurn : TurnDone(s, cache[s], position[s], n, conversation[s])
  /\ UNCHANGED prefixVars

\* native_cleanup after a first turn: the sequence is emptied.  The prompt may
\* have been cached or not.
InferFirstFails(t, s, p) ==
  /\ Unlock(t)
  /\ \E content \in PromptContents, pos \in Positions : FirstTurn(p, content, pos)
  /\ Clear(s)

\* native_cleanup after a later turn: back to where it began, or, if the
\* positions cannot be removed or nothing was there, empty.
InferNextFails(t, s) ==
  /\ Unlock(t)
  /\ \/ position[s] > 0 /\ UNCHANGED sequenceVars
     \/ Clear(s)
  /\ UNCHANGED prefixVars

\* Cancelled before it has begun, a call leaves even the sequence of a first
\* turn as it was.
InferCancelled(t) == Unlock(t) /\ UNCHANGED <<prefixVars, sequenceVars>>

ClearSeq(t, s) == Unlock(t) /\ Clear(s) /\ UNCHANGED prefixVars

-----------------------------------------------------------------------------
LlamaNext ==
  \/ LoadModel
  \/ LoadModelFails
  \/ \E t \in EngineThreads :
       \/ FindModel(t) \/ LockModel(t) \/ BeginUnload(t) \/ UnloadModel(t)
       \/ InferCancelled(t)
       \/ \E p \in Prompts : Warmup(t, p)
       \/ \E s \in Private :
            \/ \E p \in Prompts \cup {NoPrompt} : InferFirst(t, s, p) \/ InferFirstFails(t, s, p)
            \/ InferNext(t, s) \/ InferNextFails(t, s) \/ ClearSeq(t, s)

LlamaSpec == LlamaInit /\ [][LlamaNext]_llamaVars

-----------------------------------------------------------------------------
\* A shared prompt is what its entry says, however often entries were replaced
\* and decodes failed or were aborted half-way; and a private sequence holds
\* exactly the prompt its conversation began with and the turns that
\* succeeded, at the position the engine goes on from.
PrefixesExact ==
  /\ \A i \in Entries :
       sharedCache[i] = IF sharedSys[i] = NoPrompt THEN <<>> ELSE Tokens(sharedSys[i])
  /\ \A p \in Prompts : Cardinality(Found(p)) <= 1
  /\ \A s \in Private : cache[s] = conversation[s] /\ Len(cache[s]) = position[s]

\* A thread that works on a model has its lock and the model is still the one
\* it was called with: an unload waits for it, and a thread that waits for the
\* lock of the model cannot find the model unloaded, or another one, after it.
ModelHeld ==
  \A t \in EngineThreads :
    at[t] = "model" => inferenceLock = t /\ model # 0 /\ model = wanted[t]

\* Who is where has which lock, and whoever is inside a call finds its model.
LocksExact ==
  \A t \in EngineThreads :
    /\ managerLock = t <=> at[t] \in {"manager", "unload"}
    /\ inferenceLock = t <=> at[t] = "model"
    /\ at[t] # "idle" => model # 0 /\ model = wanted[t]

\* The order of use lists the entries in use: there is one to evict when
\* none is unused.
InUseListed == Lists(recent, Entries \ Unused)

\* The inductive invariant.
LlamaInv == LlamaTypeOK /\ LocksExact /\ InUseListed /\ PrefixesExact
=============================================================================
