-------------------------- MODULE ComponentsProofs --------------------------
(***************************************************************************)
(* Proofs about the components that are used by themselves: LlamaEngine,   *)
(* KVCache and ReadyQueue of agent_runtime_top, ProcessExecutor and        *)
(* ModelEngine of agent-runtime; and that all the variables of MCComponents *)
(* stay in their types.                                                    *)
(***************************************************************************)
EXTENDS MCComponents, ControlDaemonProofs

-----------------------------------------------------------------------------
(* LlamaEngine: the locks *)

LockTypes ==
  /\ managerLock \in EngineThreads \cup {NoThread}
  /\ inferenceLock \in EngineThreads \cup {NoThread}
  /\ model \in 0 .. MaxLoads
  /\ nextModel \in 1 .. (MaxLoads + 1)
  /\ at \in [EngineThreads -> {"idle", "manager", "unload", "model"}]
  /\ wanted \in [EngineThreads -> 0 .. MaxLoads]

\* What a call does with the locks, whatever it does to the caches.
LockStep(t) ==
  \/ FindModel(t) \/ LockModel(t) \/ BeginUnload(t) \/ UnloadModel(t) \/ Unlock(t)

\* Loads and unloads, and the threads that lock, are all that touches the locks.
LEMMA LlamaStepLocks ==
  ASSUME [LlamaNext]_llamaVars
  PROVE  \/ LoadModel \/ LoadModelFails
         \/ \E t \in EngineThreads : LockStep(t)
         \/ UNCHANGED <<lockVars, model, nextModel>>
BY DEF LlamaNext, llamaVars, LockStep, Warmup, InferFirst, InferFirstFails, InferNext,
       InferNextFails, InferCancelled, ClearSeq

\* No step of any thread lets a model be unloaded under another.
LEMMA LocksStep ==
  ASSUME LockTypes, LocksExact, [LlamaNext]_llamaVars
  PROVE  LockTypes' /\ LocksExact'
<1> USE LlamaAssumption DEF LockTypes, LocksExact
<1>1. CASE LoadModel
  <2>1. \A t \in EngineThreads : at[t] = "idle"
    BY <1>1 DEF LoadModel
  <2> QED
    BY <1>1, <2>1 DEF LoadModel, lockVars
<1>2. CASE LoadModelFails
  BY <1>2 DEF LoadModelFails, lockVars
<1>3. ASSUME NEW t \in EngineThreads, LockStep(t)
      PROVE  LockTypes' /\ LocksExact'
  <2>1. CASE FindModel(t)
    BY <2>1 DEF FindModel, Enter
  <2>2. CASE LockModel(t)
    BY <2>2 DEF LockModel
  <2>3. CASE BeginUnload(t)
    BY <2>3 DEF BeginUnload, Enter
  <2>4. CASE UnloadModel(t)
    <3>1. managerLock = t /\ \A u \in EngineThreads : u # t => at[u] = "idle"
      BY <2>4 DEF UnloadModel
    <3> QED
      BY <2>4, <3>1 DEF UnloadModel
  <2>5. CASE Unlock(t)
    BY <2>5 DEF Unlock
  <2> QED
    BY <1>3, <2>1, <2>2, <2>3, <2>4, <2>5 DEF LockStep
<1>4. CASE UNCHANGED <<lockVars, model, nextModel>>
  BY <1>4 DEF lockVars
<1> QED
  BY <1>1, <1>2, <1>3, <1>4, LlamaStepLocks

-----------------------------------------------------------------------------
(* LlamaEngine: the shared prompts *)

\* A prompt has as many tokens as the constant says.
LEMMA TokensSequence ==
  ASSUME NEW p \in Prompts
  PROVE  /\ Tokens(p) \in Seq(Prompts)
         /\ Tokens(p) \in Seq(Prompts \cup {NoPrompt})
         /\ Len(Tokens(p)) = TokenCount[p]
         /\ TokenCount[p] \in Nat
BY LlamaAssumption DEF Tokens

\* A turn of n tokens.
LEMMA TurnTokensSequence ==
  ASSUME NEW n \in Nat
  PROVE  TurnTokens(n) \in Seq(Prompts \cup {NoPrompt}) /\ Len(TurnTokens(n)) = n
BY DEF TurnTokens

\* What holds of the entries of shared_sys.
EntriesExact ==
  /\ sharedSys \in [Entries -> Prompts \cup {NoPrompt}]
  /\ sharedCache \in [Entries -> Seq(Prompts)]
  /\ InUseListed
  /\ \A i \in Entries :
       sharedCache[i] = IF sharedSys[i] = NoPrompt THEN <<>> ELSE Tokens(sharedSys[i])
  /\ \A i, j \in Entries : sharedSys[i] = sharedSys[j] /\ i # j => sharedSys[i] = NoPrompt

\* select_shared_sys_slot finds an entry, also when all are in use.
LEMMA SelectedIsEntry ==
  ASSUME EntriesExact
  PROVE  Selected \in Entries
<1>1. CASE Unused # {}
  <2>1. Unused \subseteq Entries /\ Entries \subseteq Nat
    BY LlamaAssumption DEF Unused, Entries
  <2>2. \E i \in Unused : \A j \in Unused : i <= j
    BY <1>1, <2>1, LeastElement
  <2> QED
    BY <1>1, <2>1, <2>2 DEF Selected
<1>2. CASE Unused = {}
  <2>1. 1 \in Entries /\ recent \in Seq(Entries) /\ \E i \in DOMAIN recent : recent[i] = 1
    BY <1>2, LlamaAssumption DEF EntriesExact, InUseListed, Lists, Entries
  <2> QED
    BY <1>2, <2>1 DEF Selected
<1> QED
  BY <1>1, <1>2

\* A prompt that is there is touched.
LEMMA TouchKeepsEntries ==
  ASSUME EntriesExact, NEW i \in Entries, sharedSys[i] # NoPrompt,
         recent' = Touch(recent, i), UNCHANGED <<sharedSys, sharedCache>>
  PROVE  EntriesExact'
<1>1. Unused' = Unused /\ i \in Entries \ Unused
  BY DEF Unused
<1>2. Lists(recent', Entries \ Unused)
  BY <1>1, TouchLists DEF EntriesExact, InUseListed
<1> QED
  BY <1>1, <1>2 DEF EntriesExact, InUseListed

\* The order without an entry, whether it was in use or not.
LEMMA ForgottenLists ==
  ASSUME EntriesExact, NEW i \in Entries
  PROVE  Lists(Forgotten(i), (Entries \ Unused) \ {i})
<1>1. CASE sharedSys[i] = NoPrompt
  <2>1. (Entries \ Unused) \ {i} = Entries \ Unused
    BY <1>1 DEF Unused
  <2> QED
    BY <1>1, <2>1 DEF EntriesExact, InUseListed, Forgotten
<1>2. CASE sharedSys[i] # NoPrompt
  <2>1. i \in Entries \ Unused
    BY <1>2 DEF Unused
  <2> QED
    BY <1>2, <2>1, DropLists DEF EntriesExact, InUseListed, Forgotten
<1> QED
  BY <1>1, <1>2

\* The old entry is gone although the new prompt could not be decoded.
LEMMA CacheFailsKeepsEntries ==
  ASSUME EntriesExact, NEW p \in Prompts, CacheFails(p)
  PROVE  EntriesExact'
<1> DEFINE i == Selected
<1>1. i \in Entries
  BY SelectedIsEntry
<1>2. /\ sharedSys' = [sharedSys EXCEPT ![i] = NoPrompt]
      /\ recent' = Forgotten(i)
      /\ sharedCache' = [sharedCache EXCEPT ![i] = <<>>]
  BY DEF CacheFails
<1> HIDE DEF i
<1>3. Entries \ Unused' = (Entries \ Unused) \ {i}
  BY <1>1, <1>2 DEF EntriesExact, Unused
<1>4. InUseListed'
  BY <1>1, <1>2, <1>3, ForgottenLists DEF InUseListed
<1>5. sharedCache' \in [Entries -> Seq(Prompts)]
  <2>1. <<>> \in Seq(Prompts)
    OBVIOUS
  <2> HIDE <2>1
  <2>2. \A f \in [Entries -> Seq(Prompts)] : \A x \in Seq(Prompts) :
          [f EXCEPT ![i] = x] \in [Entries -> Seq(Prompts)]
    OBVIOUS
  <2> QED
    BY <1>2, <2>1, <2>2, Zenon DEF EntriesExact
<1> QED
  BY <1>1, <1>2, <1>4, <1>5 DEF EntriesExact

\* cache_system_prefix: the entry it fills holds the prompt it decoded.
LEMMA CachedKeepsEntries ==
  ASSUME EntriesExact, NEW p \in Prompts, Found(p) = {}, Cached(p)
  PROVE  EntriesExact'
<1> DEFINE i == Selected
<1>1. i \in Entries /\ p # NoPrompt
  BY SelectedIsEntry, LlamaAssumption
<1>2. /\ sharedSys' = [sharedSys EXCEPT ![i] = p]
      /\ recent' = Append(Forgotten(i), i)
      /\ sharedCache' = [sharedCache EXCEPT ![i] = Tokens(p)]
  BY DEF Cached
<1> HIDE DEF i
<1>3. Entries \ Unused' = ((Entries \ Unused) \ {i}) \cup {i}
  BY <1>1, <1>2 DEF EntriesExact, Unused
<1>4. Lists(Append(Forgotten(i), i), ((Entries \ Unused) \ {i}) \cup {i})
  BY <1>1, ForgottenLists, AppendLists
<1>5. InUseListed'
  BY <1>2, <1>3, <1>4 DEF InUseListed
<1>6. sharedCache' \in [Entries -> Seq(Prompts)]
  BY <1>2, TokensSequence DEF EntriesExact
<1>7. \A j \in Entries : sharedSys[j] # p
  BY DEF Found
<1> QED
  BY <1>1, <1>2, <1>5, <1>6, <1>7 DEF EntriesExact

\* What a turn copies from a shared prompt is that prompt.
LEMMA SharesKeepsEntries ==
  ASSUME EntriesExact, NEW p \in Prompts, NEW content, Shares(p, content)
  PROVE  EntriesExact' /\ content = Tokens(p)
<1>1. ASSUME NEW i \in Found(p), content = sharedCache[i], recent' = Touch(recent, i),
             UNCHANGED <<sharedSys, sharedCache>>
      PROVE  EntriesExact' /\ content = Tokens(p)
  <2>1. i \in Entries /\ sharedSys[i] = p /\ p # NoPrompt
    BY <1>1, LlamaAssumption DEF Found
  <2> QED
    BY <1>1, <2>1, TouchKeepsEntries DEF EntriesExact
<1>2. CASE Found(p) = {} /\ content = Tokens(p) /\ Cached(p)
  BY <1>2, CachedKeepsEntries
<1> QED
  BY <1>1, <1>2 DEF Shares

\* The first turn of a sequence shares an entry or decodes the prompt itself.
LEMMA FirstTurnKeepsEntries ==
  ASSUME EntriesExact, NEW p \in Prompts \cup {NoPrompt}, NEW content, NEW pos,
         FirstTurn(p, content, pos)
  PROVE  /\ EntriesExact'
         /\ content = IF p = NoPrompt THEN <<>> ELSE Tokens(p)
         /\ content \in Seq(Prompts \cup {NoPrompt})
         /\ pos \in Nat /\ Len(content) = pos
<1>0. UNCHANGED prefixVars => EntriesExact'
  BY DEF prefixVars, EntriesExact, InUseListed, Unused
<1>1. CASE p = NoPrompt
  BY <1>0, <1>1 DEF FirstTurn
<1>2. CASE p # NoPrompt
  <2>1. p \in Prompts
    BY <1>2
  <2>2. CASE Shares(p, content) /\ pos = TokenCount[p]
    BY <1>2, <2>1, <2>2, SharesKeepsEntries, TokensSequence
  <2>3. CASE /\ CacheFails(p) \/ UNCHANGED prefixVars
             /\ content = Tokens(p) /\ pos = TokenCount[p]
    BY <1>0, <1>2, <2>1, <2>3, CacheFailsKeepsEntries, TokensSequence
  <2> QED
    BY <1>2, <2>2, <2>3 DEF FirstTurn
<1> QED
  BY <1>1, <1>2

-----------------------------------------------------------------------------
(* LlamaEngine: the private sequences *)

SequencesExact ==
  /\ position \in [Private -> 0 .. Window]
  /\ cache \in [Private -> Seq(Prompts \cup {NoPrompt})]
  /\ conversation = cache
  /\ \A s \in Private : Len(cache[s]) = position[s]

\* llm_clear_seq leaves an empty sequence at position zero.
LEMMA ClearKeepsSequences ==
  ASSUME SequencesExact, NEW s \in Private, Clear(s)
  PROVE  SequencesExact'
<1>1. <<>> \in Seq(Prompts \cup {NoPrompt}) /\ Len(<<>>) = 0 /\ 0 \in 0 .. Window
  BY LlamaAssumption
<1> DEFINE e == <<>>
<1>2. e \in Seq(Prompts \cup {NoPrompt}) /\ Len(e) = 0
  BY <1>1
<1>3. /\ cache' = [cache EXCEPT ![s] = e]
      /\ position' = [position EXCEPT ![s] = 0]
      /\ conversation' = [conversation EXCEPT ![s] = e]
  BY DEF Clear
<1> HIDE DEF e
<1> QED
  BY <1>1, <1>2, <1>3 DEF SequencesExact

\* The turn goes where the conversation goes, and the position with it.
LEMMA TurnKeepsSequences ==
  ASSUME SequencesExact, NEW s \in Private, NEW pos \in Nat, NEW n \in Nat,
         NEW content \in Seq(Prompts \cup {NoPrompt}), Len(content) = pos,
         TurnDone(s, content, pos, n, content)
  PROVE  SequencesExact'
<1> DEFINE t == TurnTokens(n)
           e == content \o t
<1>0. t \in Seq(Prompts \cup {NoPrompt}) /\ Len(t) = n
  BY TurnTokensSequence
<1>1. e \in Seq(Prompts \cup {NoPrompt}) /\ Len(e) = pos + n
  <2> HIDE DEF t
  <2> QED
    BY <1>0
<1>2. /\ pos + n \in 0 .. Window
      /\ cache' = [cache EXCEPT ![s] = e]
      /\ position' = [position EXCEPT ![s] = pos + n]
      /\ conversation' = [conversation EXCEPT ![s] = e]
  BY LlamaAssumption DEF TurnDone
<1> HIDE DEF e
<1> QED
  BY <1>1, <1>2 DEF SequencesExact

\* A model that is loaded or dropped has neither entries nor sequences.
LEMMA EmptiedExact ==
  ASSUME Emptied
  PROVE  EntriesExact' /\ SequencesExact'
<1>1. <<>> \in Seq(Prompts) /\ <<>> \in Seq(Prompts \cup {NoPrompt}) /\ Len(<<>>) = 0
  OBVIOUS
<1>2. Unused' = Entries
  BY DEF Emptied, Unused
<1>3. Lists(recent', {})
  BY DEF Emptied, Lists
<1>4. InUseListed'
  BY <1>2, <1>3 DEF InUseListed
<1> QED
  BY <1>1, <1>4, LlamaAssumption DEF Emptied, EntriesExact, SequencesExact

\* The caches and the entries, whichever thread steps and however its call ends.
LEMMA CachesStep ==
  ASSUME EntriesExact, SequencesExact, [LlamaNext]_llamaVars
  PROVE  EntriesExact' /\ SequencesExact'
<1> DEFINE K == Prompts \cup {NoPrompt}
<1>1. UNCHANGED prefixVars => EntriesExact'
  BY DEF prefixVars, EntriesExact, InUseListed, Unused
<1>2. UNCHANGED sequenceVars => SequencesExact'
  BY DEF sequenceVars, SequencesExact
<1>3. LoadModel => EntriesExact' /\ SequencesExact'
  BY EmptiedExact DEF LoadModel
<1>4. LoadModelFails => EntriesExact' /\ SequencesExact'
  BY <1>1, <1>2 DEF LoadModelFails
<1>5. ASSUME NEW t \in EngineThreads,
             FindModel(t) \/ LockModel(t) \/ BeginUnload(t) \/ UnloadModel(t) \/ InferCancelled(t)
      PROVE  EntriesExact' /\ SequencesExact'
  BY <1>1, <1>2, <1>5, EmptiedExact DEF FindModel, LockModel, BeginUnload, UnloadModel, InferCancelled
<1>6. ASSUME NEW t \in EngineThreads, NEW p \in Prompts, Warmup(t, p)
      PROVE  EntriesExact' /\ SequencesExact'
  <2>1. EntriesExact'
    BY <1>1, <1>6, SharesKeepsEntries, CacheFailsKeepsEntries DEF Warmup
  <2> QED
    BY <1>2, <1>6, <2>1 DEF Warmup
<1>7. ASSUME NEW t \in EngineThreads, NEW s \in Private, NEW p \in K, InferFirst(t, s, p)
      PROVE  EntriesExact' /\ SequencesExact'
  <2>1. PICK content \in PromptContents, pos \in Positions, n \in 2 .. MaxTurn :
          /\ FirstTurn(p, content, pos)
          /\ TurnDone(s, content, pos, n, IF p = NoPrompt THEN <<>> ELSE Tokens(p))
    BY <1>7 DEF InferFirst
  <2>2. /\ EntriesExact'
        /\ content = IF p = NoPrompt THEN <<>> ELSE Tokens(p)
        /\ content \in Seq(K) /\ pos \in Nat /\ Len(content) = pos
    BY <2>1, FirstTurnKeepsEntries
  <2>3. n \in Nat
    OBVIOUS
  <2>4. TurnDone(s, content, pos, n, content)
    BY <2>1, <2>2
  <2> QED
    BY <2>2, <2>3, <2>4, TurnKeepsSequences
<1>8. ASSUME NEW t \in EngineThreads, NEW s \in Private, NEW p \in K, InferFirstFails(t, s, p)
      PROVE  EntriesExact' /\ SequencesExact'
  BY <1>1, <1>8, FirstTurnKeepsEntries, ClearKeepsSequences DEF InferFirstFails
<1>9. ASSUME NEW t \in EngineThreads, NEW s \in Private, InferNext(t, s)
      PROVE  EntriesExact' /\ SequencesExact'
  <2>1. PICK n \in 2 .. MaxTurn : TurnDone(s, cache[s], position[s], n, conversation[s])
    BY <1>9 DEF InferNext
  <2>2. /\ cache[s] \in Seq(K) /\ position[s] \in Nat /\ n \in Nat
        /\ Len(cache[s]) = position[s] /\ conversation[s] = cache[s]
    BY DEF SequencesExact
  <2>3. TurnDone(s, cache[s], position[s], n, cache[s])
    BY <2>1, <2>2
  <2> QED
    BY <1>1, <1>9, <2>2, <2>3, TurnKeepsSequences DEF InferNext
<1>10. ASSUME NEW t \in EngineThreads, NEW s \in Private, InferNextFails(t, s) \/ ClearSeq(t, s)
       PROVE  EntriesExact' /\ SequencesExact'
  BY <1>1, <1>2, <1>10, ClearKeepsSequences DEF InferNextFails, ClearSeq
<1> QED
  BY <1>1, <1>2, <1>3, <1>4, <1>5, <1>6, <1>7, <1>8, <1>9, <1>10 DEF LlamaNext, llamaVars

\* At most one entry holds a prompt.
LEMMA FoundAtMostOne ==
  ASSUME EntriesExact, NEW p \in Prompts
  PROVE  Cardinality(Found(p)) <= 1
<1>1. CASE Found(p) = {}
  BY <1>1, FS_EmptySet
<1>2. ASSUME NEW i \in Found(p)
      PROVE  Cardinality(Found(p)) <= 1
  <2>1. Found(p) = {i}
    BY <1>2, LlamaAssumption DEF Found, EntriesExact
  <2> QED
    BY <2>1, FS_Singleton
<1> QED
  BY <1>1, <1>2

\* The two parts together are the invariant.
LEMMA LlamaInvFromParts ==
  ASSUME LockTypes, LocksExact, EntriesExact, SequencesExact
  PROVE  LlamaInv
<1>1. recent \in Seq(Entries)
  <2>1. recent \in Seq(Entries \ Unused)
    BY DEF EntriesExact, InUseListed, Lists
  <2> QED
    BY <2>1
<1>2. LlamaTypeOK
  BY <1>1 DEF LockTypes, EntriesExact, SequencesExact, LlamaTypeOK
<1>3. PrefixesExact
  BY FoundAtMostOne DEF EntriesExact, SequencesExact, PrefixesExact
<1> QED
  BY <1>2, <1>3 DEF LlamaInv, EntriesExact

\* The invariant of the engine of models, of which the three theorems after it
\* are parts: what the locks, the entries and the sequences agree on is kept by
\* every step of every thread.
THEOREM LlamaInvariant == LlamaSpec => []LlamaInv
<1> DEFINE Inv == LockTypes /\ LocksExact /\ EntriesExact /\ SequencesExact
<1>1. LlamaInit => Inv
  <2> SUFFICES ASSUME LlamaInit PROVE Inv
    OBVIOUS
  <2>1. LockTypes /\ LocksExact
    BY LlamaAssumption DEF LlamaInit, LockTypes, LocksExact
  <2>2. <<>> \in Seq(Prompts) /\ <<>> \in Seq(Prompts \cup {NoPrompt}) /\ Len(<<>>) = 0
    OBVIOUS
  <2>3. Unused = Entries
    BY DEF LlamaInit, Unused
  <2>4. Lists(recent, {})
    BY DEF LlamaInit, Lists
  <2>5. InUseListed
    BY <2>3, <2>4 DEF InUseListed
  <2>6. EntriesExact /\ SequencesExact
    BY <2>2, <2>5, LlamaAssumption DEF LlamaInit, EntriesExact, SequencesExact
  <2> QED
    BY <2>1, <2>6
<1>2. Inv /\ [LlamaNext]_llamaVars => Inv'
  BY LocksStep, CachesStep
<1>3. Inv => LlamaInv
  BY LlamaInvFromParts
<1> QED
  BY <1>1, <1>2, <1>3, PTL DEF LlamaSpec

\* Every variable of the engine of models keeps its type.
THEOREM LlamaTypes == LlamaSpec => []LlamaTypeOK
BY LlamaInvariant, PTL DEF LlamaInv

\* A shared prompt is what its entry says and a private sequence holds exactly
\* its conversation, whatever is evicted, fails or is aborted.
THEOREM LlamaPrefixes == LlamaSpec => []PrefixesExact
BY LlamaInvariant, PTL DEF LlamaInv

\* No model is unloaded under a thread that works on it or waits for its lock.
THEOREM LlamaModelHeld == LlamaSpec => []ModelHeld
<1>1. LlamaInv => ModelHeld
  BY DEF LlamaInv, LocksExact, ModelHeld
<1> QED
  BY <1>1, LlamaInvariant, PTL

-----------------------------------------------------------------------------
(* KVCache: who holds a block *)

\* The holders of a block can be counted.
LEMMA HoldersFinite ==
  ASSUME NEW b
  PROVE  IsFiniteSet(HoldersOf(b)) /\ Cardinality(HoldersOf(b)) \in Nat
<1>1. HoldersOf(b) \subseteq Handles
  BY DEF HoldersOf, Held
<1> QED
  BY <1>1, KVAssumption, FS_Subset, FS_CardinalityType

\* A range more under a handle that held nothing.
LEMMA RangeGained ==
  ASSUME KVTypeOK, NEW g \in Handles, ranges[g] = NoRange, NEW r \in Ranges,
         ranges' = [ranges EXCEPT ![g] = r], NEW b \in BlockIds
  PROVE  /\ HoldersOf(b)' = IF b \in Span(r) THEN HoldersOf(b) \cup {g} ELSE HoldersOf(b)
         /\ Cardinality(HoldersOf(b)') = Cardinality(HoldersOf(b)) + (IF b \in Span(r) THEN 1 ELSE 0)
         /\ Held' = Held \cup {g}
<1>1. r # NoRange
  BY KVAssumption DEF Ranges, BlockIds
<1>2. Held' = Held \cup {g}
  BY <1>1 DEF Held, KVTypeOK
<1>3. HoldersOf(b)' = IF b \in Span(r) THEN HoldersOf(b) \cup {g} ELSE HoldersOf(b)
  BY <1>2 DEF HoldersOf, Held, KVTypeOK, Span
<1>4. g \notin HoldersOf(b)
  BY DEF HoldersOf, Held
<1>5. Cardinality(HoldersOf(b) \cup {g}) = Cardinality(HoldersOf(b)) + 1
  BY <1>4, HoldersFinite, FS_AddElement
<1> QED
  BY <1>2, <1>3, <1>5, HoldersFinite

\* A handle gives its range up.
LEMMA RangeLost ==
  ASSUME KVTypeOK, NEW h \in Held, ranges' = [ranges EXCEPT ![h] = NoRange], NEW b \in BlockIds
  PROVE  /\ HoldersOf(b)' = HoldersOf(b) \ {h}
         /\ b \in Span(ranges[h]) => /\ Cardinality(HoldersOf(b)) >= 1
                                     /\ Cardinality(HoldersOf(b)') = Cardinality(HoldersOf(b)) - 1
         /\ b \notin Span(ranges[h]) => HoldersOf(b)' = HoldersOf(b)
         /\ Held' = Held \ {h}
<1>1. Held' = Held \ {h}
  BY DEF Held, KVTypeOK
<1>2. HoldersOf(b)' = HoldersOf(b) \ {h}
  BY <1>1 DEF HoldersOf, Held, KVTypeOK, Span
<1>3. h \in HoldersOf(b) <=> b \in Span(ranges[h])
  BY DEF HoldersOf
<1>4. h \in HoldersOf(b) => Cardinality(HoldersOf(b) \ {h}) = Cardinality(HoldersOf(b)) - 1
  BY HoldersFinite, FS_RemoveElement
<1>5. h \in HoldersOf(b) => Cardinality(HoldersOf(b)) # 0
  BY HoldersFinite, FS_EmptySet
<1> QED
  BY <1>1, <1>2, <1>3, <1>4, <1>5, HoldersFinite

\* The first fit is a run of free blocks, which nobody holds.
LEMMA FirstFitFree ==
  ASSUME KVTypeOK, HeldBlocksCounted, NEW n \in Nat \ {0}, FreeRuns(n) # {}
  PROVE  /\ FirstFit(n) \in BlockIds /\ n \in BlockIds
         /\ FirstFit(n) + n - 1 <= BlockCount
         /\ \A b \in FirstFit(n) .. (FirstFit(n) + n - 1) :
              /\ b \in BlockIds
              /\ blocks[b].state = "FREE"
              /\ HoldersOf(b) = {} /\ blocks[b].ref = 0 /\ Cardinality(HoldersOf(b)) = 0
<1>1. FreeRuns(n) \in SUBSET Nat
  BY DEF FreeRuns, BlockIds
<1>2. \E s \in FreeRuns(n) : \A t \in FreeRuns(n) : s <= t
  BY <1>1, LeastElement
<1>3. FirstFit(n) \in FreeRuns(n)
  BY <1>2 DEF FirstFit
<1>4. /\ FirstFit(n) \in BlockIds
      /\ FirstFit(n) + n - 1 <= BlockCount
      /\ \A b \in FirstFit(n) .. (FirstFit(n) + n - 1) : blocks[b].state = "FREE"
  BY <1>3 DEF FreeRuns
<1>5. /\ n \in BlockIds
      /\ \A b \in FirstFit(n) .. (FirstFit(n) + n - 1) : b \in BlockIds
  BY <1>4, KVAssumption DEF BlockIds
<1>6. \A b \in FirstFit(n) .. (FirstFit(n) + n - 1) : HoldersOf(b) = {}
  BY <1>4, <1>5 DEF HeldBlocksCounted
<1>7. \A b \in FirstFit(n) .. (FirstFit(n) + n - 1) :
        blocks[b].ref = 0 /\ Cardinality(HoldersOf(b)) = 0
  BY <1>5, <1>6, FS_EmptySet DEF HeldBlocksCounted
<1> QED
  BY <1>4, <1>5, <1>6, <1>7

\* Every allocation takes at least one block.
LEMMA BlocksNeededPositive ==
  ASSUME NEW size \in Sizes
  PROVE  BlocksNeeded(size) \in Nat \ {0}
<1>1. size + BlockSize - 1 \in Nat /\ BlockSize \in Nat \ {0}
  BY KVAssumption
<1>2. (size + BlockSize - 1) \div BlockSize \in Nat
  BY <1>1
<1> QED
  BY <1>2 DEF BlocksNeeded

\* The k-th of n samples taken at equal distances from c blocks is one of them.
LEMMA SampleWithin ==
  ASSUME NEW n \in Nat \ {0}, NEW c \in Nat \ {0}, NEW k \in 0 .. (n - 1)
  PROVE  (k * c) \div n \in 0 .. (c - 1)
<1> DEFINE q == (k * c) \div n
<1>0. k * c \in Nat
  OBVIOUS
<1>1. q \in Nat /\ n * q <= k * c
  BY <1>0
<1>2. k * c <= (n - 1) * c
  OBVIOUS
<1>3. (n - 1) * c = n * c - c
  OBVIOUS
<1>4. n * q < n * c
  BY <1>1, <1>2, <1>3
<1> HIDE DEF q
<1>5. q < c
  <2> SUFFICES ASSUME q >= c PROVE FALSE
    BY <1>1
  <2>1. n * q >= n * c
    BY <1>1
  <2> QED
    BY <1>1, <1>4, <2>1
<1> QED
  BY <1>1, <1>5 DEF q

-----------------------------------------------------------------------------
(* KVCache: every call keeps the counts *)

BlockType == [state : BlockStates, ref : Nat, owner : KVAgents \cup {NoOwner}, data : Contents]

\* No range is held of a pool in which every block is free.
LEMMA PoolEmptied ==
  ASSUME kvReady' \in BOOLEAN, blocks' = [b \in BlockIds |-> FreeBlock], usedSize' = 0,
         ranges' = [h \in Handles |-> NoRange]
  PROVE  KVInv'
<1>1. Held' = {} /\ \A b \in BlockIds : HoldersOf(b)' = {}
  BY DEF Held, HoldersOf
<1>2. HeldBlocksCounted'
  BY <1>1, FS_EmptySet DEF HeldBlocksCounted, FreeBlock
<1>3. KVTypeOK'
  BY <1>1, KVAssumption DEF KVTypeOK, FreeBlock, BlockStates
<1> QED
  BY <1>1, <1>2, <1>3 DEF KVInv

\* KVCacheInit keeps the invariant.
LEMMA KVCacheInitStep ==
  ASSUME KVInv, KVCacheInit
  PROVE  KVInv'
<1>1. ranges' = [h \in Handles |-> NoRange]
  BY DEF KVInv, KVTypeOK, KVCacheInit, Held
<1> QED
  BY <1>1, PoolEmptied DEF KVCacheInit

\* What a new range and a pool changed inside it keep of the types.
LEMMA GainTypes ==
  ASSUME KVTypeOK, NEW g \in Handles, ranges[g] = NoRange, NEW r \in Ranges,
         Span(r) \subseteq BlockIds, ranges' = [ranges EXCEPT ![g] = r],
         kvReady' = kvReady, usedSize' \in 0 .. (Modulus - 1),
         blocks' \in [BlockIds -> BlockType]
  PROVE  KVTypeOK'
<1>1. ranges' \in [Handles -> Ranges \cup {NoRange}]
  BY DEF KVTypeOK
<1>2. ASSUME NEW h \in Held' PROVE Span(ranges'[h]) \subseteq BlockIds
  BY <1>2 DEF Held, KVTypeOK
<1> QED
  BY <1>1, <1>2 DEF KVTypeOK, BlockType

\* KVAllocate keeps the invariant.
LEMMA KVAllocateStep ==
  ASSUME KVInv, NEW a \in KVAgents, NEW size \in Sizes, NEW h \in Handles, KVAllocate(a, size, h)
  PROVE  KVInv'
<1> DEFINE n == BlocksNeeded(size)
           s == FirstFit(n)
           r == [agent |-> a, start |-> s, count |-> n]
<1>1. n \in Nat \ {0} /\ FreeRuns(n) # {}
  BY BlocksNeededPositive DEF KVAllocate
<1>2. /\ s \in BlockIds /\ n \in BlockIds
      /\ s + n - 1 <= BlockCount
      /\ \A b \in s .. (s + n - 1) : /\ b \in BlockIds
                                     /\ HoldersOf(b) = {} /\ Cardinality(HoldersOf(b)) = 0
  BY <1>1, FirstFitFree DEF KVInv
<1>3. /\ kvReady /\ ranges[h] = NoRange /\ kvReady' = kvReady
      /\ usedSize' = (usedSize + n) % Modulus
      /\ ranges' = [ranges EXCEPT ![h] = r]
      /\ blocks' = [b \in BlockIds |->
                      IF b \in Span(r) THEN [state |-> "ALLOCATED", ref |-> 1, owner |-> a, data |-> 0]
                      ELSE blocks[b]]
  BY DEF KVAllocate, Apply
<1> HIDE DEF n, s
<1>4. r \in Ranges /\ Span(r) = s .. (s + n - 1) /\ Span(r) \subseteq BlockIds
  BY <1>2 DEF Ranges, Span
<1> HIDE DEF r
<1>5. blocks' \in [BlockIds -> BlockType]
  BY <1>3, KVAssumption DEF KVInv, KVTypeOK, BlockType, BlockStates
<1>6. usedSize' \in 0 .. (Modulus - 1)
  BY <1>1, <1>3, KVAssumption DEF KVInv, KVTypeOK
<1>7. KVTypeOK'
  BY <1>3, <1>4, <1>5, <1>6, GainTypes DEF KVInv
<1>8. HeldBlocksCounted'
  <2> SUFFICES ASSUME NEW b \in BlockIds
               PROVE  /\ blocks'[b].ref = Cardinality(HoldersOf(b)')
                      /\ HoldersOf(b)' # {} => blocks'[b].state # "FREE"
    BY DEF HeldBlocksCounted
  <2>1. /\ HoldersOf(b)' = IF b \in Span(r) THEN HoldersOf(b) \cup {h} ELSE HoldersOf(b)
        /\ Cardinality(HoldersOf(b)') = Cardinality(HoldersOf(b)) + (IF b \in Span(r) THEN 1 ELSE 0)
    BY <1>3, <1>4, RangeGained DEF KVInv
  <2>2. CASE b \in Span(r)
    BY <1>2, <1>3, <1>4, <2>1, <2>2
  <2>3. CASE b \notin Span(r)
    BY <1>3, <2>1, <2>3, HoldersFinite DEF KVInv, HeldBlocksCounted
  <2> QED
    BY <2>2, <2>3
<1> QED
  BY <1>3, <1>7, <1>8 DEF KVInv

\* Freeing and unsharing take one reference off every block of the range.
LEMMA LossStep ==
  ASSUME KVInv, kvReady, kvReady' = kvReady, NEW h \in Held, ranges' = [ranges EXCEPT ![h] = NoRange],
         usedSize' \in 0 .. (Modulus - 1),
         blocks' \in [BlockIds -> BlockType],
         \A b \in BlockIds :
           IF b \in Span(ranges[h])
           THEN /\ blocks'[b].ref = blocks[b].ref - 1
                /\ blocks[b].ref > 1 => blocks'[b].state # "FREE"
           ELSE blocks'[b] = blocks[b]
  PROVE  KVInv'
<1>0. h \in Handles /\ ranges[h] \in Ranges
  BY DEF Held, KVInv, KVTypeOK
<1>1. KVTypeOK'
  <2>1. Held' \subseteq Held /\ \A g \in Held' : ranges'[g] = ranges[g]
    BY <1>0 DEF Held, KVInv, KVTypeOK
  <2>2. ranges' \in [Handles -> Ranges \cup {NoRange}]
    BY DEF KVInv, KVTypeOK
  <2>3. \A g \in Held' : Span(ranges'[g]) \subseteq BlockIds
    BY <2>1 DEF KVInv, KVTypeOK
  <2> QED
    BY <2>2, <2>3 DEF KVInv, KVTypeOK, BlockType
<1>2. ASSUME NEW b \in BlockIds
      PROVE  /\ blocks'[b].ref = Cardinality(HoldersOf(b)')
             /\ HoldersOf(b)' # {} => blocks'[b].state # "FREE"
  <2>1. CASE b \in Span(ranges[h])
    <3>1. /\ Cardinality(HoldersOf(b)) >= 1
          /\ Cardinality(HoldersOf(b)') = Cardinality(HoldersOf(b)) - 1
          /\ HoldersOf(b)' = HoldersOf(b) \ {h}
      BY <2>1, RangeLost DEF KVInv
    <3>2. blocks[b].ref = Cardinality(HoldersOf(b))
      BY DEF KVInv, HeldBlocksCounted
    <3>3. HoldersOf(b)' # {} => Cardinality(HoldersOf(b)') # 0
      <4>1. IsFiniteSet(HoldersOf(b)')
        BY <3>1, HoldersFinite, FS_RemoveElement
      <4> QED
        BY <4>1, FS_EmptySet
    <3> QED
      BY <2>1, <3>1, <3>2, <3>3, HoldersFinite
  <2>2. CASE b \notin Span(ranges[h])
    BY <2>2, RangeLost DEF KVInv, HeldBlocksCounted
  <2> QED
    BY <2>1, <2>2
<1> QED
  BY <1>1, <1>2 DEF KVInv, HeldBlocksCounted

\* A block of a range that is held is there, counted and not free.
LEMMA HeldBlock ==
  ASSUME KVInv, NEW h \in Held, NEW b \in Span(ranges[h])
  PROVE  /\ b \in BlockIds
         /\ blocks[b] \in BlockType
         /\ blocks[b].state # "FREE" /\ blocks[b].ref >= 1 /\ blocks[b].ref \in Nat
<1>1. b \in BlockIds /\ blocks[b] \in BlockType
  BY DEF KVInv, KVTypeOK, BlockType
<1>2. h \in HoldersOf(b)
  BY DEF HoldersOf
<1>3. Cardinality(HoldersOf(b)) # 0
  BY <1>2, HoldersFinite, FS_EmptySet
<1> QED
  BY <1>1, <1>2, <1>3, HoldersFinite DEF KVInv, HeldBlocksCounted

\* kv_free: a block loses one reference, and is free with the last.
LEMMA ReleasedBlock ==
  ASSUME NEW k \in BlockType, k.state # "FREE", k.ref >= 1
  PROVE  /\ Released(k) \in BlockType
         /\ Released(k).ref = k.ref - 1
         /\ k.ref > 1 => Released(k).state # "FREE"
<1>1. CASE k.ref = 1
  <2>1. Released(k) = [k EXCEPT !.ref = 0, !.state = "FREE", !.owner = NoOwner]
    BY <1>1 DEF Released
  <2>0. [k EXCEPT !.ref = 0, !.state = "FREE", !.owner = NoOwner] \in BlockType
    BY DEF BlockType, BlockStates
  <2>2. Released(k) \in BlockType
    BY <2>0, <2>1
  <2>3. Released(k).ref = 0
    BY <2>1 DEF BlockType
  <2> QED
    BY <1>1, <2>2, <2>3
<1>2. CASE k.ref # 1
  BY <1>2 DEF Released, BlockType, BlockStates
<1> QED
  BY <1>1, <1>2

\* kv_unshare: a block loses one reference, and is never freed.
LEMMA UnsharedBlock ==
  ASSUME NEW k \in BlockType, k.state # "FREE", k.ref >= 1
  PROVE  /\ Unshared(k) \in BlockType
         /\ Unshared(k).ref = k.ref - 1
         /\ Unshared(k).state # "FREE"
<1>1. CASE k.ref = 2
  <2>1. Unshared(k) = [k EXCEPT !.ref = 1, !.state = "ALLOCATED"]
    BY <1>1 DEF Unshared
  <2>0. [k EXCEPT !.ref = 1, !.state = "ALLOCATED"] \in BlockType
    BY DEF BlockType, BlockStates
  <2>2. Unshared(k) \in BlockType
    BY <2>0, <2>1
  <2>3. Unshared(k).ref = 1 /\ Unshared(k).state = "ALLOCATED"
    BY <2>1 DEF BlockType
  <2> QED
    BY <1>1, <2>2, <2>3
<1>2. CASE k.ref # 2
  BY <1>2 DEF Unshared, BlockType, BlockStates
<1> QED
  BY <1>1, <1>2

\* KVFree keeps the invariant.
LEMMA KVFreeStep ==
  ASSUME KVInv, NEW h \in Handles, KVFree(h)
  PROVE  KVInv'
<1>1. /\ kvReady /\ h \in Held /\ kvReady' = kvReady
      /\ blocks' = [b \in BlockIds |-> IF b \in Span(ranges[h]) THEN Released(blocks[b]) ELSE blocks[b]]
      /\ usedSize' = (usedSize + Modulus - (ranges[h].count % Modulus)) % Modulus
      /\ ranges' = [ranges EXCEPT ![h] = NoRange]
  BY DEF KVFree, Apply
<1>2. usedSize' \in 0 .. (Modulus - 1)
  <2>1. ranges[h] \in Ranges
    BY <1>1 DEF KVInv, KVTypeOK, Held
  <2>2. ranges[h].count \in Nat
    BY <2>1, KVAssumption DEF Ranges, BlockIds
  <2> QED
    BY <1>1, <2>2, KVAssumption DEF KVInv, KVTypeOK
<1>3. ASSUME NEW b \in Span(ranges[h])
      PROVE  /\ Released(blocks[b]) \in BlockType
             /\ Released(blocks[b]).ref = blocks[b].ref - 1
             /\ blocks[b].ref > 1 => Released(blocks[b]).state # "FREE"
  BY <1>1, HeldBlock, ReleasedBlock
<1>4. blocks' \in [BlockIds -> BlockType]
  BY <1>1, <1>3 DEF KVInv, KVTypeOK, BlockType
<1>5. \A b \in BlockIds :
        IF b \in Span(ranges[h])
        THEN /\ blocks'[b].ref = blocks[b].ref - 1
             /\ blocks[b].ref > 1 => blocks'[b].state # "FREE"
        ELSE blocks'[b] = blocks[b]
  BY <1>1, <1>3
<1> QED
  BY <1>1, <1>2, <1>4, <1>5, LossStep

\* KVUnshare keeps the invariant.
LEMMA KVUnshareStep ==
  ASSUME KVInv, NEW h \in Handles, KVUnshare(h)
  PROVE  KVInv'
<1>1. /\ kvReady /\ h \in Held /\ kvReady' = kvReady
      /\ blocks' = [b \in BlockIds |-> IF b \in Span(ranges[h]) THEN Unshared(blocks[b]) ELSE blocks[b]]
      /\ usedSize' = usedSize
      /\ ranges' = [ranges EXCEPT ![h] = NoRange]
  BY DEF KVUnshare, Apply
<1>2. ASSUME NEW b \in Span(ranges[h])
      PROVE  /\ Unshared(blocks[b]) \in BlockType
             /\ Unshared(blocks[b]).ref = blocks[b].ref - 1
             /\ Unshared(blocks[b]).state # "FREE"
  BY <1>1, HeldBlock, UnsharedBlock
<1>3. blocks' \in [BlockIds -> BlockType]
  BY <1>1, <1>2 DEF KVInv, KVTypeOK, BlockType
<1>4. usedSize' \in 0 .. (Modulus - 1)
  BY <1>1 DEF KVInv, KVTypeOK
<1>5. \A b \in BlockIds :
        IF b \in Span(ranges[h])
        THEN /\ blocks'[b].ref = blocks[b].ref - 1
             /\ blocks[b].ref > 1 => blocks'[b].state # "FREE"
        ELSE blocks'[b] = blocks[b]
  BY <1>1, <1>2
<1> QED
  BY <1>1, <1>3, <1>4, <1>5, LossStep

\* Writing and decompressing change no range and no count.
LEMMA ContentStep ==
  ASSUME KVInv, kvReady' = kvReady, usedSize' = usedSize, ranges' = ranges,
         blocks' \in [BlockIds -> BlockType],
         \A b \in BlockIds : /\ blocks'[b].ref = blocks[b].ref
                             /\ blocks[b].state # "FREE" => blocks'[b].state # "FREE"
  PROVE  KVInv'
<1>1. Held' = Held /\ \A b \in BlockIds : HoldersOf(b)' = HoldersOf(b)
  BY DEF Held, HoldersOf
<1>2. KVTypeOK'
  BY <1>1 DEF KVInv, KVTypeOK, BlockType
<1>3. HeldBlocksCounted'
  BY <1>1 DEF KVInv, HeldBlocksCounted
<1> QED
  BY <1>1, <1>2, <1>3 DEF KVInv

\* KVWrite keeps the invariant.
LEMMA KVWriteStep ==
  ASSUME KVInv, NEW h \in Handles, NEW value \in Contents, KVWrite(h, value)
  PROVE  KVInv'
<1>1. /\ h \in Held /\ kvReady' = kvReady /\ usedSize' = usedSize /\ ranges' = ranges
      /\ blocks' = [b \in BlockIds |->
                      IF b \in Span(ranges[h])
                      THEN IF blocks[b].state = "FREE" THEN blocks[b]
                           ELSE [blocks[b] EXCEPT !.data = value]
                      ELSE blocks[b]]
  BY DEF KVWrite, Apply
<1>2. blocks' \in [BlockIds -> BlockType]
  BY <1>1 DEF KVInv, KVTypeOK, BlockType
<1>3. \A b \in BlockIds : /\ blocks'[b].ref = blocks[b].ref
                          /\ blocks[b].state # "FREE" => blocks'[b].state # "FREE"
  BY <1>1 DEF KVInv, KVTypeOK
<1> QED
  BY <1>1, <1>2, <1>3, ContentStep

\* KVDecompress keeps the invariant.
LEMMA KVDecompressStep ==
  ASSUME KVInv, NEW h \in Handles, KVDecompress(h)
  PROVE  KVInv'
<1>1. /\ h \in Held /\ kvReady' = kvReady /\ usedSize' = usedSize /\ ranges' = ranges
      /\ blocks' = [b \in BlockIds |->
                      IF b \in Span(ranges[h]) THEN [blocks[b] EXCEPT !.state = "ALLOCATED"]
                      ELSE blocks[b]]
  BY DEF KVDecompress, Apply
<1>2. blocks' \in [BlockIds -> BlockType]
  BY <1>1 DEF KVInv, KVTypeOK, BlockType, BlockStates
<1>3. \A b \in BlockIds : /\ blocks'[b].ref = blocks[b].ref
                          /\ blocks[b].state # "FREE" => blocks'[b].state # "FREE"
  BY <1>1 DEF KVInv, KVTypeOK
<1> QED
  BY <1>1, <1>2, <1>3, ContentStep

\* Sharing, compressing and reusing a prefix: one more range, and one more
\* reference to every block of it.
LEMMA GainStep ==
  ASSUME KVInv, kvReady, kvReady' = kvReady, usedSize' = usedSize,
         NEW g \in Handles, ranges[g] = NoRange, NEW r \in Ranges, Span(r) \subseteq BlockIds,
         ranges' = [ranges EXCEPT ![g] = r],
         blocks' \in [BlockIds -> BlockType],
         \A b \in BlockIds :
           IF b \in Span(r) THEN blocks'[b].ref = blocks[b].ref + 1 /\ blocks'[b].state # "FREE"
           ELSE blocks'[b] = blocks[b]
  PROVE  KVInv'
<1>1. usedSize' \in 0 .. (Modulus - 1)
  BY DEF KVInv, KVTypeOK
<1>2. KVTypeOK'
  BY <1>1, GainTypes DEF KVInv
<1>3. ASSUME NEW b \in BlockIds
      PROVE  /\ blocks'[b].ref = Cardinality(HoldersOf(b)')
             /\ HoldersOf(b)' # {} => blocks'[b].state # "FREE"
  <2>1. /\ HoldersOf(b)' = IF b \in Span(r) THEN HoldersOf(b) \cup {g} ELSE HoldersOf(b)
        /\ Cardinality(HoldersOf(b)') = Cardinality(HoldersOf(b)) + (IF b \in Span(r) THEN 1 ELSE 0)
    BY RangeGained DEF KVInv
  <2>2. /\ blocks[b].ref = Cardinality(HoldersOf(b))
        /\ HoldersOf(b) # {} => blocks[b].state # "FREE"
    BY DEF KVInv, HeldBlocksCounted
  <2> QED
    BY <2>1, <2>2, HoldersFinite
<1> QED
  BY <1>2, <1>3 DEF KVInv, HeldBlocksCounted

\* A handle that is held names blocks of the pool.
LEMMA HeldRange ==
  ASSUME KVInv, NEW h \in Held
  PROVE  ranges[h] \in Ranges /\ Span(ranges[h]) \subseteq BlockIds
BY DEF KVInv, KVTypeOK, Held

\* KVShare keeps the invariant.
LEMMA KVShareStep ==
  ASSUME KVInv, NEW h \in Handles, NEW dst \in KVAgents, NEW g \in Handles, KVShare(h, dst, g)
  PROVE  KVInv'
<1> DEFINE r == [ranges[h] EXCEPT !.agent = dst]
           src == ranges[h].agent
<1>1. /\ kvReady /\ h \in Held /\ ranges[g] = NoRange
      /\ kvReady' = kvReady /\ usedSize' = usedSize
      /\ \A b \in Span(ranges[h]) : blocks[b].owner = src
      /\ ranges' = [ranges EXCEPT ![g] = r]
      /\ blocks' = [b \in BlockIds |->
                      IF b \in Span(ranges[h])
                      THEN IF blocks[b].owner = src
                           THEN [blocks[b] EXCEPT !.state = "SHARED", !.ref = blocks[b].ref + 1]
                           ELSE blocks[b]
                      ELSE blocks[b]]
  BY Zenon DEF KVShare, Apply
<1>2. ranges[h] \in Ranges /\ Span(ranges[h]) \subseteq BlockIds
  BY <1>1, HeldRange
<1>3. r \in Ranges /\ Span(r) = Span(ranges[h])
  <2>1. \A x \in Ranges : LET y == [x EXCEPT !.agent = dst]
                           IN  y \in Ranges /\ y.start = x.start /\ y.count = x.count
    BY DEF Ranges
  <2> QED
    BY <1>2, <2>1 DEF Span
<1> HIDE DEF r
<1>5. ASSUME NEW b \in BlockIds
      PROVE  /\ blocks'[b] \in BlockType
             /\ IF b \in Span(r)
                THEN blocks'[b].ref = blocks[b].ref + 1 /\ blocks'[b].state # "FREE"
                ELSE blocks'[b] = blocks[b]
  <2>1. blocks[b] \in BlockType /\ blocks[b].ref + 1 \in Nat
    BY DEF KVInv, KVTypeOK, BlockType
  <2>2. CASE b \in Span(r)
    <3>1. blocks'[b] = [blocks[b] EXCEPT !.state = "SHARED", !.ref = blocks[b].ref + 1]
      BY <1>1, <1>3, <2>2
    <3>2. blocks'[b] \in BlockType /\ blocks'[b].ref = blocks[b].ref + 1 /\ blocks'[b].state = "SHARED"
      <4> DEFINE k == blocks[b]
                 x == blocks[b].ref + 1
                 m == blocks'[b]
      <4>1. k \in BlockType /\ x \in Nat /\ m = [k EXCEPT !.state = "SHARED", !.ref = x]
        BY <2>1, <3>1
      <4> HIDE DEF k, x, m
      <4>2. [k EXCEPT !.state = "SHARED", !.ref = x] \in BlockType
        BY <4>1 DEF BlockType, BlockStates
      <4>3. m \in BlockType
        BY <4>1, <4>2
      <4>4. m.ref = x /\ m.state = "SHARED"
        BY <4>1, <4>2 DEF BlockType
      <4> QED
        BY <4>3, <4>4 DEF x, m
    <3> QED
      BY <2>2, <3>2
  <2>3. CASE b \notin Span(r)
    BY <1>1, <1>3, <2>1, <2>3
  <2> QED
    BY <2>2, <2>3
<1>6. blocks' \in [BlockIds -> BlockType]
  BY <1>1, <1>5
<1>7. \A b \in BlockIds :
        IF b \in Span(r) THEN blocks'[b].ref = blocks[b].ref + 1 /\ blocks'[b].state # "FREE"
        ELSE blocks'[b] = blocks[b]
  BY <1>5
<1> QED
  BY <1>1, <1>2, <1>3, <1>6, <1>7, GainStep

\* KVCompress keeps the invariant.
LEMMA KVCompressStep ==
  ASSUME KVInv, NEW h \in Handles, NEW n \in BlockIds, NEW g \in Handles, KVCompress(h, n, g)
  PROVE  KVInv'
<1> DEFINE s == FirstFit(n)
           r == [agent |-> ranges[h].agent, start |-> s, count |-> n]
           Source(b) == blocks[ranges[h].start + ((b - r.start) * ranges[h].count) \div n]
<1>1. /\ kvReady /\ h \in Held /\ ranges[g] = NoRange
      /\ kvReady' = kvReady /\ usedSize' = usedSize
      /\ FreeRuns(n) # {}
      /\ ranges' = [ranges EXCEPT ![g] = r]
      /\ blocks' = [b \in BlockIds |->
                      IF b \in Span(r)
                      THEN [state |-> "COMPRESSED", ref |-> 1,
                            owner |-> Source(b).owner, data |-> Source(b).data]
                      ELSE blocks[b]]
  BY DEF KVCompress
<1>2. n \in Nat \ {0}
  BY KVAssumption DEF BlockIds
<1>3. /\ s \in BlockIds
      /\ s + n - 1 <= BlockCount
      /\ \A b \in s .. (s + n - 1) : b \in BlockIds /\ blocks[b].ref = 0
  BY <1>1, <1>2, FirstFitFree DEF KVInv
<1> HIDE DEF s
<1>4. ranges[h] \in Ranges /\ Span(ranges[h]) \subseteq BlockIds
  BY <1>1 DEF KVInv, KVTypeOK, Held
<1>5. r \in Ranges /\ Span(r) = s .. (s + n - 1) /\ Span(r) \subseteq BlockIds /\ r.start = s
  BY <1>3, <1>4 DEF Ranges, Span
<1>6. ASSUME NEW b \in Span(r)
      PROVE  Source(b).owner \in KVAgents \cup {NoOwner} /\ Source(b).data \in Contents
  <2> DEFINE c == ranges[h].count
             k == b - s
             q == (k * c) \div n
  <2>1. c \in Nat \ {0} /\ k \in 0 .. (n - 1) /\ ranges[h].start \in Nat
    BY <1>2, <1>3, <1>4, <1>5, <1>6, KVAssumption DEF Ranges, BlockIds
  <2> HIDE DEF c, k
  <2>2. q \in 0 .. (c - 1)
    BY <1>2, <2>1, SampleWithin
  <2> HIDE DEF q
  <2>3. ranges[h].start + q \in Span(ranges[h])
    BY <2>1, <2>2 DEF Span, c
  <2>4. Source(b) = blocks[ranges[h].start + q]
    BY <1>5 DEF q, k, c
  <2> QED
    BY <1>4, <2>3, <2>4 DEF KVInv, KVTypeOK
<1> HIDE DEF r, Source
<1>7. blocks' \in [BlockIds -> BlockType]
  BY <1>1, <1>6 DEF KVInv, KVTypeOK, BlockType, BlockStates
<1>8. \A b \in BlockIds :
        IF b \in Span(r) THEN blocks'[b].ref = blocks[b].ref + 1 /\ blocks'[b].state # "FREE"
        ELSE blocks'[b] = blocks[b]
  BY <1>1, <1>3, <1>5 DEF KVInv, KVTypeOK
<1> QED
  BY <1>1, <1>5, <1>7, <1>8, GainStep

\* KVReusePrefix keeps the invariant.
LEMMA KVReusePrefixStep ==
  ASSUME KVInv, NEW a \in KVAgents, NEW value \in Contents, NEW g \in Handles,
         KVReusePrefix(a, value, g)
  PROVE  KVInv'
<1> DEFINE matches == {b \in BlockIds : /\ blocks[b].state # "FREE"
                                        /\ blocks[b].owner = a
                                        /\ blocks[b].data = value}
           first == CHOOSE b \in matches : \A c \in matches : b <= c
           r == [agent |-> a, start |-> first, count |-> 1]
<1>1. /\ kvReady /\ kvReady' = kvReady /\ usedSize' = usedSize
      /\ ranges[g] = NoRange /\ matches # {}
      /\ blocks' = [blocks EXCEPT ![first].ref = @ + 1]
      /\ ranges' = [ranges EXCEPT ![g] = r]
  BY DEF KVReusePrefix
<1>2. first \in matches
  <2>1. matches \in SUBSET Nat
    BY DEF BlockIds
  <2> HIDE DEF matches
  <2>2. \E b \in matches : \A c \in matches : b <= c
    BY <1>1, <2>1, LeastElement
  <2> QED
    BY <2>2
<1>3. first \in BlockIds /\ blocks[first].state # "FREE"
  BY <1>2
<1> HIDE DEF first
<1>4. r \in Ranges /\ Span(r) = {first} /\ Span(r) \subseteq BlockIds
  BY <1>3, KVAssumption DEF Ranges, Span, BlockIds
<1> HIDE DEF r
<1>5. blocks' \in [BlockIds -> BlockType]
  BY <1>1, <1>3 DEF KVInv, KVTypeOK, BlockType
<1>6. \A b \in BlockIds :
        IF b \in Span(r) THEN blocks'[b].ref = blocks[b].ref + 1 /\ blocks'[b].state # "FREE"
        ELSE blocks'[b] = blocks[b]
  BY <1>1, <1>3, <1>4 DEF KVInv, KVTypeOK
<1> QED
  BY <1>1, <1>4, <1>5, <1>6, GainStep

\* Every call on the block pool keeps the invariant.
LEMMA KVStep ==
  ASSUME KVInv, [KVNext]_kvVars
  PROVE  KVInv'
<1>1. CASE UNCHANGED kvVars
  BY <1>1 DEF kvVars, KVInv, KVTypeOK, HeldBlocksCounted, Held, HoldersOf
<1>2. CASE KVCacheDestroy
  BY <1>2, PoolEmptied DEF KVCacheDestroy
<1> QED
  BY <1>1, <1>2, KVCacheInitStep, KVAllocateStep, KVFreeStep, KVWriteStep, KVShareStep,
     KVUnshareStep, KVCompressStep, KVDecompressStep, KVReusePrefixStep DEF KVNext

\* The invariant of the block pool.
THEOREM KVInvariant == KVSpec => []KVInv
<1>1. KVInit => KVInv
  <2> SUFFICES ASSUME KVInit PROVE KVInv
    OBVIOUS
  <2>1. Held = {} /\ \A b \in BlockIds : HoldersOf(b) = {}
    BY DEF KVInit, Held, HoldersOf
  <2>2. HeldBlocksCounted
    BY <2>1, FS_EmptySet DEF KVInit, HeldBlocksCounted, FreeBlock
  <2>3. FreeBlock \in BlockType
    BY KVAssumption DEF FreeBlock, BlockStates, BlockType
  <2>4. blocks \in [BlockIds -> BlockType]
    BY <2>3 DEF KVInit
  <2>5. KVTypeOK
    <3>1. ranges \in [Handles -> Ranges \cup {NoRange}] /\ usedSize \in 0 .. (Modulus - 1)
      BY KVAssumption DEF KVInit
    <3> QED
      BY <2>1, <2>4, <3>1 DEF KVInit, KVTypeOK, BlockType
  <2> QED
    BY <2>1, <2>2, <2>5 DEF KVInv
<1>2. KVInv /\ [KVNext]_kvVars => KVInv'
  BY KVStep
<1> QED
  BY <1>1, <1>2, PTL DEF KVSpec

\* The reference count of a block is the number of ranges that hold it, and no
\* block that is held is free, for every pool and every number of callers.
THEOREM KVCounts == KVSpec => []HeldBlocksCounted
BY KVInvariant, PTL DEF KVInv

\* Every variable of the pool keeps its type.
THEOREM KVTypes == KVSpec => []KVTypeOK
BY KVInvariant, PTL DEF KVInv

-----------------------------------------------------------------------------
(* KVCache: what a range that is not shared reads *)

\* A block that only h holds keeps its data, unless it is h that writes or goes.
LEMMA ExclusiveBlockKept ==
  ASSUME KVInv, KVNext, NEW h \in Held, NEW b \in Span(ranges[h]), HoldersOf(b) = {h},
         ranges'[h] = ranges[h], ~ \E value \in Contents : KVWrite(h, value)
  PROVE  blocks'[b].data = blocks[b].data
<1>1. b \in BlockIds /\ blocks[b] \in BlockType /\ blocks[b].state # "FREE"
  BY HeldBlock
<1>2. h \in Handles /\ ranges[h] # NoRange
  BY DEF Held
<1>3. \A g \in Held : g # h => b \notin Span(ranges[g])
  BY DEF HoldersOf
<1>4. CASE KVCacheInit
  BY <1>4 DEF KVCacheInit, KVInv
<1>5. CASE KVCacheDestroy
  BY <1>2, <1>5 DEF KVCacheDestroy
<1>6. ASSUME NEW a \in KVAgents, NEW size \in Sizes, NEW g \in Handles, KVAllocate(a, size, g)
      PROVE  blocks'[b] = blocks[b]
  <2> DEFINE n == BlocksNeeded(size)
             r == [agent |-> a, start |-> FirstFit(n), count |-> n]
             New == [state |-> "ALLOCATED", ref |-> 1, owner |-> a, data |-> 0]
  <2>1. n \in Nat \ {0} /\ FreeRuns(n) # {}
    BY <1>6, BlocksNeededPositive DEF KVAllocate
  <2>2. \A c \in FirstFit(n) .. (FirstFit(n) + n - 1) : HoldersOf(c) = {}
    BY <2>1, FirstFitFree DEF KVInv
  <2>3. b \notin Span(r)
    BY <2>2 DEF Span
  <2>4. blocks' = [c \in BlockIds |-> IF c \in Span(r) THEN New ELSE blocks[c]]
    BY <1>6 DEF KVAllocate, Apply
  <2> HIDE DEF r, n, New
  <2> QED
    BY <1>1, <2>3, <2>4
<1>7. ASSUME NEW g \in Handles, NEW n \in BlockIds, NEW k \in Handles, KVCompress(g, n, k)
      PROVE  blocks'[b] = blocks[b]
  <2> DEFINE r == [agent |-> ranges[g].agent, start |-> FirstFit(n), count |-> n]
  <2>1. n \in Nat \ {0} /\ FreeRuns(n) # {}
    BY <1>7 DEF KVCompress, BlockIds
  <2>2. \A c \in FirstFit(n) .. (FirstFit(n) + n - 1) : HoldersOf(c) = {}
    BY <2>1, FirstFitFree DEF KVInv
  <2>3. b \notin Span(r)
    BY <2>2 DEF Span
  <2> QED
    BY <1>1, <1>7, <2>3 DEF KVCompress
<1>8. ASSUME NEW g \in Handles, KVFree(g) \/ KVUnshare(g)
      PROVE  blocks'[b] = blocks[b]
  <2>1. g \in Held /\ g # h
    BY <1>2, <1>8 DEF KVFree, KVUnshare, KVInv, KVTypeOK
  <2> QED
    BY <1>1, <1>3, <1>8, <2>1 DEF KVFree, KVUnshare, Apply
<1>9. ASSUME NEW g \in Handles, NEW value \in Contents, KVWrite(g, value)
      PROVE  blocks'[b] = blocks[b]
  <2>1. g \in Held /\ g # h
    BY <1>9 DEF KVWrite
  <2> QED
    BY <1>1, <1>3, <1>9, <2>1 DEF KVWrite, Apply
<1>10. ASSUME NEW g \in Handles, NEW dst \in KVAgents, NEW k \in Handles, KVShare(g, dst, k)
       PROVE  blocks'[b].data = blocks[b].data
  <2>1. blocks'[b] = [blocks[b] EXCEPT !.state = "SHARED", !.ref = blocks[b].ref + 1] \/ blocks'[b] = blocks[b]
    BY <1>1, <1>10, Zenon DEF KVShare, Apply
  <2> QED
    BY <1>1, <2>1 DEF BlockType
<1>11. ASSUME NEW g \in Handles, KVDecompress(g)
       PROVE  blocks'[b].data = blocks[b].data
  <2>1. blocks'[b] = [blocks[b] EXCEPT !.state = "ALLOCATED"] \/ blocks'[b] = blocks[b]
    BY <1>1, <1>11, Zenon DEF KVDecompress, Apply
  <2> QED
    BY <1>1, <2>1 DEF BlockType
<1>12. ASSUME NEW a \in KVAgents, NEW value \in Contents, NEW g \in Handles, KVReusePrefix(a, value, g)
       PROVE  blocks'[b].data = blocks[b].data
  <2>1. PICK first : blocks' = [blocks EXCEPT ![first].ref = @ + 1]
    BY <1>12 DEF KVReusePrefix
  <2> QED
    BY <1>1, <2>1 DEF KVInv, KVTypeOK, BlockType
<1> QED
  BY <1>4, <1>5, <1>6, <1>7, <1>8, <1>9, <1>10, <1>11, <1>12 DEF KVNext

\* A range reads all of its blocks.
LEMMA ReadsAll ==
  ASSUME KVInv, NEW h \in Held
  PROVE  KVRead(h) = [b \in Span(ranges[h]) |-> blocks[b].data]
<1>1. {c \in Span(ranges[h]) : blocks[c].state # "FREE"} = Span(ranges[h])
  BY HeldBlock
<1> QED
  BY <1>1 DEF KVRead

\* What a range reads, when nobody else holds its blocks, changes only by a
\* write through it, whatever other callers do.
THEOREM KVExclusive == KVSpec => ExclusiveDataKept
<1> DEFINE Kept(h) == (/\ \A b \in Span(ranges[h]) : HoldersOf(b) = {h}
                       /\ ranges'[h] = ranges[h]
                       /\ ~ \E value \in Contents : KVWrite(h, value)
                      ) => KVRead(h)' = KVRead(h)
<1>1. ASSUME KVInv, KVInv', [KVNext]_kvVars, NEW h \in Held
      PROVE  kvVars' = kvVars \/ Kept(h)
  <2> SUFFICES ASSUME KVNext, \A b \in Span(ranges[h]) : HoldersOf(b) = {h}, ranges'[h] = ranges[h],
                      ~ \E value \in Contents : KVWrite(h, value)
               PROVE  KVRead(h)' = KVRead(h)
    BY <1>1
  <2>1. \A b \in Span(ranges[h]) : blocks'[b].data = blocks[b].data
    BY <1>1, ExclusiveBlockKept
  <2>2. h \in Held'
    BY DEF Held
  <2>3. KVRead(h) = [b \in Span(ranges[h]) |-> blocks[b].data]
    BY <1>1, ReadsAll
  <2>4. (KVInv /\ h \in Held => KVRead(h) = [b \in Span(ranges[h]) |-> blocks[b].data])'
    BY ReadsAll, PTL
  <2>5. KVRead(h)' = [b \in Span(ranges'[h]) |-> blocks'[b].data]
    BY <1>1, <2>2, <2>4 DEF Span
  <2>6. Span(ranges'[h]) = Span(ranges[h])
    BY DEF Span
  <2> QED
    BY <2>1, <2>3, <2>5, <2>6
<1>2. KVInv /\ KVInv' /\ [KVNext]_kvVars => [\A h \in Held : Kept(h)]_kvVars
  BY <1>1
<1> QED
  BY <1>2, KVInvariant, PTL DEF KVSpec, ExclusiveDataKept

-----------------------------------------------------------------------------
(* ReadyQueue: the ring *)

\* Indices never go twice around the array.
LEMMA OnceAround ==
  ASSUME NEW n \in Nat \ {0}, NEW x \in 0 .. (2 * n - 1)
  PROVE  x % n = IF x < n THEN x ELSE x - n
<1>1. CASE x < n
  BY <1>1
<1>2. CASE x >= n
  <2>1. x - n \in 0 .. (n - 1)
    BY <1>2
  <2>2. x = n * 1 + (x - n)
    OBVIOUS
  <2> QED
    BY <1>2, <2>1, <2>2
<1> QED
  BY <1>1, <1>2

\* Indices modulo the size of the array, without modulo.
LEMMA RingIndices ==
  ASSUME QueueTypeOK
  PROVE  /\ \A i \in Cells : Cell(i) = IF head + i < QueueSize THEN head + i ELSE head + i - QueueSize
         /\ \A c \in Cells : Entry(c) = IF c < head THEN c + QueueSize - head ELSE c - head
         /\ (tail + 1) % QueueSize = IF tail + 1 < QueueSize THEN tail + 1 ELSE 0
         /\ (head + 1) % QueueSize = IF head + 1 < QueueSize THEN head + 1 ELSE 0
         /\ (tail + QueueSize - 1) % QueueSize = IF tail > 0 THEN tail - 1 ELSE QueueSize - 1
<1>0. QueueSize \in Nat \ {0} /\ head \in 0 .. (QueueSize - 1) /\ tail \in 0 .. (QueueSize - 1)
  BY QueueAssumption DEF QueueTypeOK, Cells
<1> DEFINE Folded(x) == IF x < QueueSize THEN x ELSE x - QueueSize
<1>a. \A x \in 0 .. (2 * QueueSize - 1) : x % QueueSize = Folded(x)
  BY <1>0, OnceAround
<1>1. ASSUME NEW i \in Cells
      PROVE  Cell(i) = IF head + i < QueueSize THEN head + i ELSE head + i - QueueSize
  <2>1. head + i \in 0 .. (2 * QueueSize - 1)
    BY <1>0 DEF Cells
  <2> QED
    BY <1>0, <1>a, <2>1 DEF Cell, Cells
<1>2. ASSUME NEW c \in Cells
      PROVE  Entry(c) = IF c < head THEN c + QueueSize - head ELSE c - head
  <2>1. c + QueueSize - head \in 0 .. (2 * QueueSize - 1)
    BY <1>0 DEF Cells
  <2>2. Entry(c) = IF c + QueueSize - head < QueueSize THEN c + QueueSize - head
                   ELSE c + QueueSize - head - QueueSize
    BY <1>0, <1>a, <2>1 DEF Entry, Cells
  <2> QED
    BY <1>0, <2>2 DEF Cells
<1>3. tail + 1 \in 0 .. (2 * QueueSize - 1) /\ head + 1 \in 0 .. (2 * QueueSize - 1)
      /\ tail + QueueSize - 1 \in 0 .. (2 * QueueSize - 1)
  BY <1>0
<1>4. (tail + 1) % QueueSize = IF tail + 1 < QueueSize THEN tail + 1 ELSE 0
  BY <1>0, <1>3, <1>a
<1>5. (head + 1) % QueueSize = IF head + 1 < QueueSize THEN head + 1 ELSE 0
  BY <1>0, <1>3, <1>a
<1>6. (tail + QueueSize - 1) % QueueSize = IF tail > 0 THEN tail - 1 ELSE QueueSize - 1
  BY <1>0, <1>3, <1>a
<1> QED
  BY <1>1, <1>2, <1>4, <1>5, <1>6

\* The cell of an entry and the entry of a cell are inverse to each other.
LEMMA CellsAndEntries ==
  ASSUME QueueTypeOK
  PROVE  /\ \A i \in Cells : Cell(i) \in Cells /\ Entry(Cell(i)) = i
         /\ \A c \in Cells : Entry(c) \in Cells /\ Cell(Entry(c)) = c
<1>0. QueueSize \in Nat \ {0} /\ head \in 0 .. (QueueSize - 1)
  BY QueueAssumption DEF QueueTypeOK, Cells
<1>1. \A i \in Cells : Cell(i) \in Cells
  BY <1>0, RingIndices DEF Cells
<1>2. \A c \in Cells : Entry(c) \in Cells
  BY <1>0, RingIndices DEF Cells
<1>3. \A i \in Cells : Entry(Cell(i)) = i
  BY <1>0, <1>1, RingIndices DEF Cells
<1>4. \A c \in Cells : Cell(Entry(c)) = c
  BY <1>0, <1>2, RingIndices DEF Cells
<1> QED
  BY <1>1, <1>2, <1>3, <1>4

\* The first place of an agent that is queued.
LEMMA FirstPlaceIs ==
  ASSUME QueueTypeOK, NEW a, Places(a) # {}
  PROVE  /\ FirstPlace(a) \in 0 .. (count - 1) /\ FirstPlace(a) \in Cells /\ count > 0
         /\ queue[Cell(FirstPlace(a))] = a
         /\ \A j \in 0 .. (count - 1) : queue[Cell(j)] = a => FirstPlace(a) <= j
<1>1. Places(a) \in SUBSET Nat
  BY DEF Places, QueueTypeOK
<1>2. \E i \in Places(a) : \A j \in Places(a) : i <= j
  BY <1>1, LeastElement
<1>3. FirstPlace(a) \in Places(a) /\ \A j \in Places(a) : FirstPlace(a) <= j
  BY <1>2 DEF FirstPlace
<1> QED
  BY <1>3, QueueAssumption DEF Places, QueueTypeOK, Cells

\* The cell behind the last entry.
LEMMA BehindLast ==
  ASSUME QueueTypeOK
  PROVE  Cell(count) = IF head + count < QueueSize THEN head + count ELSE head + count - QueueSize
<1>1. /\ QueueSize \in Nat \ {0} /\ head \in 0 .. (QueueSize - 1) /\ count \in 0 .. QueueSize
      /\ head + count \in 0 .. (2 * QueueSize - 1)
  BY QueueAssumption DEF QueueTypeOK, Cells
<1>2. \A x \in 0 .. (2 * QueueSize - 1) :
        x % QueueSize = IF x < QueueSize THEN x ELSE x - QueueSize
  BY <1>1, OnceAround
<1> QED
  BY <1>1, <1>2 DEF Cell

-----------------------------------------------------------------------------
(* ReadyQueue: what a step does to the ring and to the threads *)

\* The ring by itself.
RingOK ==
  /\ queue \in [Cells -> QueueAgents \cup {NoId}]
  /\ head \in Cells /\ tail \in Cells /\ count \in 0 .. QueueSize
  /\ tail = Cell(count)

\* The ring is sound if its tail is as far from its head as its count says.
LEMMA RingFromNumbers ==
  ASSUME queue \in [Cells -> QueueAgents \cup {NoId}], head \in Cells, count \in 0 .. QueueSize,
         tail = IF head + count < QueueSize THEN head + count ELSE head + count - QueueSize
  PROVE  RingOK
<1>1. /\ QueueSize \in Nat \ {0} /\ head \in 0 .. (QueueSize - 1)
      /\ head + count \in 0 .. (2 * QueueSize - 1)
  BY QueueAssumption DEF Cells
<1>2. \A x \in 0 .. (2 * QueueSize - 1) :
        x % QueueSize = IF x < QueueSize THEN x ELSE x - QueueSize
  BY <1>1, OnceAround
<1>3. tail = Cell(count)
  BY <1>1, <1>2 DEF Cell
<1>4. tail \in Cells
  BY <1>1 DEF Cells
<1> QED
  BY <1>3, <1>4 DEF RingOK

\* The ring that memset leaves is sound.
LEMMA ZeroedRing ==
  ASSUME Zeroed
  PROVE  RingOK'
<1>1. /\ queue' \in [Cells -> QueueAgents \cup {NoId}] /\ head' \in Cells /\ count' \in 0 .. QueueSize
      /\ tail' = IF head' + count' < QueueSize THEN head' + count' ELSE head' + count' - QueueSize
  BY QueueAssumption DEF Zeroed, Cells
<1>2. (/\ queue \in [Cells -> QueueAgents \cup {NoId}] /\ head \in Cells /\ count \in 0 .. QueueSize
       /\ tail = IF head + count < QueueSize THEN head + count ELSE head + count - QueueSize
       => RingOK)'
  BY RingFromNumbers, PTL
<1> QED
  BY <1>1, <1>2

\* Every step of the ready queue keeps indices and count in agreement.
LEMMA RingStep ==
  ASSUME QueueTypeOK, tail = Cell(count), [QueueNext]_queueVars
  PROVE  RingOK'
<1> DEFINE Numbers == /\ queue \in [Cells -> QueueAgents \cup {NoId}] /\ head \in Cells
                      /\ count \in 0 .. QueueSize
                      /\ tail = IF head + count < QueueSize THEN head + count
                                ELSE head + count - QueueSize
<1>1. (Numbers => RingOK)'
  BY RingFromNumbers, PTL
<1>2. /\ QueueSize \in Nat \ {0} /\ head \in 0 .. (QueueSize - 1) /\ tail \in 0 .. (QueueSize - 1)
      /\ count \in 0 .. QueueSize /\ Numbers
  BY BehindLast, QueueAssumption DEF QueueTypeOK, Cells
<1>a. \A e \in Cells : queue[Cell(e)] \in QueueAgents \cup {NoId}
  BY CellsAndEntries DEF QueueTypeOK
<1>3. UNCHANGED ring => RingOK'
  BY <1>1, <1>2 DEF ring
<1>4. ASSUME NEW a \in QueueAgents, SchedulerAddAgent(a)
      PROVE  Numbers'
  BY <1>2, <1>4, RingIndices DEF SchedulerAddAgent, QueueTypeOK, Cells
<1>5. ASSUME NEW a \in QueueAgents, SchedulerRemoveAgent(a)
      PROVE  Numbers'
  <2> DEFINE Moves(c) == FirstPlace(a) <= Entry(c) /\ Entry(c) < count - 1
  <2>1. /\ queue' = [c \in Cells |-> IF Moves(c) THEN queue[Cell(Entry(c) + 1)] ELSE queue[c]]
        /\ tail' = (tail + QueueSize - 1) % QueueSize
        /\ count' = count - 1 /\ head' = head /\ Places(a) # {}
    BY <1>5 DEF SchedulerRemoveAgent
  <2>2. count > 0
    BY <2>1, FirstPlaceIs
  <2>3. ASSUME NEW c \in Cells, Moves(c)
        PROVE  queue[Cell(Entry(c) + 1)] \in QueueAgents \cup {NoId}
    <3>0. Entry(c) \in Cells
      BY CellsAndEntries
    <3>1. Entry(c) + 1 \in Cells
      BY <1>2, <2>3, <3>0 DEF Cells
    <3> QED
      BY <1>a, <3>1, Zenon
  <2>4. queue' \in [Cells -> QueueAgents \cup {NoId}]
    BY <2>1, <2>3 DEF QueueTypeOK
  <2>5. /\ head' \in Cells /\ count' \in 0 .. QueueSize
        /\ tail' = IF head' + count' < QueueSize THEN head' + count'
                   ELSE head' + count' - QueueSize
    BY <1>2, <2>1, <2>2, RingIndices
  <2> QED
    BY <2>4, <2>5
<1>6. ASSUME NEW a \in QueueAgents, SchedulerUpdateAgent(a)
      PROVE  Numbers'
  <2> DEFINE i == FirstPlace(a)
  <2>1. /\ queue' = [c \in Cells |-> IF Entry(c) = 0 THEN a
                                     ELSE IF Entry(c) <= i THEN queue[Cell(Entry(c) - 1)]
                                     ELSE queue[c]]
        /\ UNCHANGED <<head, tail, count>>
    BY <1>6 DEF SchedulerUpdateAgent
  <2>2. ASSUME NEW c \in Cells, Entry(c) # 0
        PROVE  queue[Cell(Entry(c) - 1)] \in QueueAgents \cup {NoId}
    <3>0. Entry(c) \in Cells
      BY CellsAndEntries
    <3>1. Entry(c) - 1 \in Cells
      BY <1>2, <2>2, <3>0 DEF Cells
    <3> QED
      BY <1>a, <3>1, Zenon
  <2> HIDE DEF i
  <2>3. queue' \in [Cells -> QueueAgents \cup {NoId}]
    BY <2>1, <2>2 DEF QueueTypeOK
  <2> QED
    BY <1>2, <2>1, <2>3
<1>7. ASSUME NEW p \in Pickers, PickOrWait(p)
      PROVE  RingOK'
  <2>1. CASE count = 0
    BY <1>3, <1>7, <2>1 DEF PickOrWait
  <2>2. CASE count # 0
    <3>1. /\ head' = (head + 1) % QueueSize /\ count' = count - 1 /\ queue' = queue /\ tail' = tail
      BY <1>7, <2>2 DEF PickOrWait
    <3>2. head' = IF head + 1 < QueueSize THEN head + 1 ELSE 0
      BY <3>1, RingIndices
    <3>3. /\ head' \in Cells /\ count' \in 0 .. QueueSize
          /\ tail' = IF head' + count' < QueueSize THEN head' + count' ELSE head' + count' - QueueSize
      BY <1>2, <2>2, <3>1, <3>2 DEF Cells
    <3> QED
      BY <1>1, <1>2, <3>1, <3>3
  <2> QED
    BY <2>1, <2>2
<1>8. CASE SchedulerInit \/ SchedulerDestroy
  BY <1>8, ZeroedRing DEF SchedulerInit, SchedulerDestroy
<1>9. CASE SchedulerStart \/ SchedulerStop
  BY <1>3, <1>9 DEF SchedulerStart, SchedulerStop
<1>10. ASSUME NEW p \in Pickers, SchedulerPickNext(p) \/ Resume(p) \/ SpuriousWakeup(p)
       PROVE  RingOK'
  BY <1>3, <1>7, <1>10 DEF SchedulerPickNext, Resume, SpuriousWakeup
<1>11. CASE UNCHANGED queueVars
  BY <1>3, <1>11 DEF queueVars, ring
<1> HIDE DEF Numbers
<1> QED
  BY <1>1, <1>4, <1>5, <1>6, <1>8, <1>9, <1>10, <1>11 DEF QueueNext

\* The threads by themselves.
ThreadsOK ==
  /\ queueReady \in BOOLEAN /\ queueRunning \in BOOLEAN
  /\ waiting \subseteq Pickers /\ awake \subseteq Pickers /\ waiting \cap awake = {}
  /\ NoWaiterForgotten
  /\ awake # {} => queueReady

\* The threads that wait can be counted.
LEMMA PickersFinite ==
  ASSUME NEW S, S \subseteq Pickers
  PROVE  /\ IsFiniteSet(S) /\ Cardinality(S) \in Nat
         /\ \A p : p \notin S => Cardinality(S \cup {p}) = Cardinality(S) + 1
         /\ \A p \in S : Cardinality(S \ {p}) = Cardinality(S) - 1
         /\ \A p : p \notin S => S \ {p} = S
<1>1. IsFiniteSet(S)
  BY QueueAssumption, FS_Subset
<1> QED
  BY <1>1, FS_CardinalityType, FS_AddElement, FS_RemoveElement

\* An agent more and one thread woken for it, if any waits.
LEMMA SignalStep ==
  ASSUME ThreadsOK, count \in Nat, count' = count + 1, Signal, UNCHANGED <<queueReady, queueRunning>>
  PROVE  ThreadsOK'
<1>1. CASE waiting = {} /\ UNCHANGED <<waiting, awake>>
  BY <1>1 DEF ThreadsOK, NoWaiterForgotten
<1>2. ASSUME NEW p \in waiting, waiting' = waiting \ {p}, awake' = awake \cup {p}
      PROVE  ThreadsOK'
  <2>1. p \notin awake /\ Cardinality(awake) >= count /\ queueReady /\ queueRunning
    BY DEF ThreadsOK, NoWaiterForgotten
  <2>2. Cardinality(awake') = Cardinality(awake) + 1 /\ Cardinality(awake) \in Nat
    BY <1>2, <2>1, PickersFinite DEF ThreadsOK
  <2>3. Cardinality(awake') >= count'
    BY <2>1, <2>2
  <2> QED
    BY <1>2, <2>1, <2>3 DEF ThreadsOK, NoWaiterForgotten
<1> QED
  BY <1>1, <1>2 DEF Signal

\* A thread with the lock takes an agent, waits or returns with none.
LEMMA PickStep ==
  ASSUME ThreadsOK, count \in Nat, NEW p \in Pickers, p \notin waiting, PickOrWait(p), queueReady,
         UNCHANGED <<queueReady, queueRunning>>
  PROVE  ThreadsOK'
<1>0. awake \subseteq Pickers /\ Cardinality(awake) \in Nat /\ Cardinality(awake \ {p}) \in Nat
  BY PickersFinite DEF ThreadsOK
<1>1. CASE count = 0 /\ queueRunning /\ waiting' = waiting \cup {p} /\ awake' = awake \ {p} /\ UNCHANGED ring
  BY <1>0, <1>1 DEF ThreadsOK, NoWaiterForgotten, ring
<1>2. CASE count = 0 /\ awake' = awake \ {p} /\ UNCHANGED <<ring, waiting>>
  BY <1>0, <1>2 DEF ThreadsOK, NoWaiterForgotten, ring
<1>3. CASE count > 0 /\ count' = count - 1 /\ awake' = awake \ {p} /\ waiting' = waiting
  <2>1. Cardinality(awake \ {p}) >= Cardinality(awake) - 1
    BY <1>0, PickersFinite
  <2>2. waiting' # {} => Cardinality(awake') >= count'
    BY <1>0, <1>3, <2>1 DEF ThreadsOK, NoWaiterForgotten
  <2> QED
    BY <1>3, <2>2 DEF ThreadsOK, NoWaiterForgotten
<1> QED
  BY <1>1, <1>2, <1>3 DEF PickOrWait

\* Every step of the ready queue keeps what is said of the threads that wait.
LEMMA ThreadsStep ==
  ASSUME QueueInv, [QueueNext]_queueVars
  PROVE  ThreadsOK'
<1>0. ThreadsOK /\ QueueTypeOK /\ count \in Nat
  BY QueueAssumption DEF QueueInv, QueueTypeOK, ThreadsOK
<1>1. CASE UNCHANGED queueVars
  BY <1>0, <1>1 DEF queueVars, ThreadsOK, NoWaiterForgotten
<1>2. CASE SchedulerInit \/ SchedulerDestroy
  <2>1. waiting' = {} /\ awake' = awake
    BY <1>0, <1>2 DEF SchedulerInit, SchedulerDestroy, ThreadsOK, NoWaiterForgotten
  <2> QED
    BY <1>0, <1>2, <2>1 DEF SchedulerInit, SchedulerDestroy, Zeroed, ThreadsOK, NoWaiterForgotten
<1>3. ASSUME NEW a \in QueueAgents, SchedulerAddAgent(a)
      PROVE  ThreadsOK'
  BY <1>0, <1>3, SignalStep DEF SchedulerAddAgent
<1>4. ASSUME NEW a \in QueueAgents, SchedulerRemoveAgent(a)
      PROVE  ThreadsOK'
  <2>1. count' = count - 1 /\ UNCHANGED <<queueReady, queueRunning, waiting, awake>>
    BY <1>4 DEF SchedulerRemoveAgent
  <2>2. Cardinality(awake) \in Nat
    BY <1>0, PickersFinite DEF ThreadsOK
  <2> QED
    BY <1>0, <2>1, <2>2 DEF ThreadsOK, NoWaiterForgotten
<1>5. ASSUME NEW a \in QueueAgents, SchedulerUpdateAgent(a)
      PROVE  ThreadsOK'
  BY <1>0, <1>5 DEF SchedulerUpdateAgent, ThreadsOK, NoWaiterForgotten
<1>6. ASSUME NEW p \in Pickers, SchedulerPickNext(p)
      PROVE  ThreadsOK'
  BY <1>0, <1>6, PickStep DEF SchedulerPickNext
<1>7. ASSUME NEW p \in Pickers, Resume(p)
      PROVE  ThreadsOK'
  <2>1. p \notin waiting /\ PickOrWait(p) /\ UNCHANGED <<queueReady, queueRunning>>
    BY <1>0, <1>7 DEF Resume, ThreadsOK
  <2>2. queueReady
    BY <1>0, <1>7 DEF Resume, ThreadsOK
  <2> QED
    BY <1>0, <2>1, <2>2, PickStep
<1>8. ASSUME NEW p \in Pickers, SpuriousWakeup(p)
      PROVE  ThreadsOK'
  <2>1. /\ p \in waiting /\ p \notin awake /\ waiting' = waiting \ {p} /\ awake' = awake \cup {p}
        /\ UNCHANGED <<queueReady, queueRunning, count>>
    BY <1>0, <1>8 DEF SpuriousWakeup, ring, ThreadsOK
  <2>2. Cardinality(awake') = Cardinality(awake) + 1 /\ Cardinality(awake) \in Nat
    BY <1>0, <2>1, PickersFinite DEF ThreadsOK
  <2> QED
    BY <1>0, <2>1, <2>2 DEF ThreadsOK, NoWaiterForgotten
<1>9. CASE SchedulerStart \/ SchedulerStop
  BY <1>0, <1>9 DEF SchedulerStart, SchedulerStop, Broadcast, ThreadsOK, NoWaiterForgotten
<1> QED
  BY <1>1, <1>2, <1>3, <1>4, <1>5, <1>6, <1>7, <1>8, <1>9 DEF QueueNext

\* The invariant of the ready queue.
THEOREM QueueInvariant == QueueSpec => []QueueInv
<1>1. QueueInit => QueueInv
  <2> SUFFICES ASSUME QueueInit PROVE QueueInv
    OBVIOUS
  <2>1. /\ queue \in [Cells -> QueueAgents \cup {NoId}] /\ head \in Cells /\ count \in 0 .. QueueSize
        /\ tail = IF head + count < QueueSize THEN head + count ELSE head + count - QueueSize
    BY QueueAssumption DEF QueueInit, Cells
  <2>2. RingOK
    BY <2>1, RingFromNumbers
  <2> QED
    BY <2>2 DEF QueueInit, QueueInv, QueueTypeOK, NoWaiterForgotten, RingOK
<1>2. QueueInv /\ [QueueNext]_queueVars => QueueInv'
  <2> SUFFICES ASSUME QueueInv, [QueueNext]_queueVars PROVE QueueInv'
    OBVIOUS
  <2>1. RingOK'
    BY RingStep DEF QueueInv
  <2>2. ThreadsOK'
    BY ThreadsStep
  <2> QED
    BY <2>1, <2>2 DEF QueueInv, QueueTypeOK, RingOK, ThreadsOK
<1> QED
  BY <1>1, <1>2, PTL DEF QueueSpec

\* Every variable of the ready queue keeps its type.
THEOREM QueueTypes == QueueSpec => []QueueTypeOK
BY QueueInvariant, PTL DEF QueueInv

\* No thread sleeps in scheduler_pick_next while there is an agent for it, for
\* any number of threads and any size of the array.
THEOREM QueueNoWaiterForgotten == QueueSpec => []NoWaiterForgotten
BY QueueInvariant, PTL DEF QueueInv

-----------------------------------------------------------------------------
(* ReadyQueue: the ring implements a first-in first-out queue *)

\* What the array contains, read from the head.
LEMMA ContainedSequence ==
  ASSUME QueueTypeOK
  PROVE  /\ Contained \in Seq(QueueAgents \cup {NoId}) /\ Len(Contained) = count
         /\ \A j \in 1 .. count : Contained[j] = queue[Cell(j - 1)]
<1>1. \A j \in 1 .. count : j - 1 \in Cells
  BY QueueAssumption DEF QueueTypeOK, Cells
<1>2. \A j \in 1 .. count : Cell(j - 1) \in Cells
  BY <1>1, CellsAndEntries, Zenon
<1>3. \A j \in 1 .. count : queue[Cell(j - 1)] \in QueueAgents \cup {NoId}
  BY <1>2, Zenon DEF QueueTypeOK
<1>4. count \in Nat
  BY QueueAssumption DEF QueueTypeOK
<1> QED
  BY <1>3, <1>4 DEF Contained

\* Enter does to the array what it does to the sequence.
LEMMA EnterRefines ==
  ASSUME QueueInv, QueueTypeOK', NEW a \in QueueAgents, SchedulerAddAgent(a)
  PROVE  Fifo!Enter(a)
<1>1. /\ Contained \in Seq(QueueAgents \cup {NoId}) /\ Len(Contained) = count
      /\ \A j \in 1 .. count : Contained[j] = queue[Cell(j - 1)]
  BY ContainedSequence DEF QueueInv
<1>2. (/\ Contained \in Seq(QueueAgents \cup {NoId}) /\ Len(Contained) = count
       /\ \A j \in 1 .. count : Contained[j] = queue[Cell(j - 1)])'
  BY ContainedSequence, PTL
<1>3. /\ queue' = [queue EXCEPT ![tail] = a] /\ count' = count + 1 /\ head' = head
      /\ count < QueueSize /\ count \in Nat /\ tail = Cell(count)
  BY DEF SchedulerAddAgent, QueueInv, QueueTypeOK
<1>4. \A j \in 1 .. count' : Cell(j - 1)' = Cell(j - 1)
  BY <1>3 DEF Cell
<1>5. \A j \in 1 .. count : Cell(j - 1) \in Cells /\ Cell(j - 1) # tail
  <2> SUFFICES ASSUME NEW j \in 1 .. count PROVE Cell(j - 1) \in Cells /\ Cell(j - 1) # tail
    OBVIOUS
  <2> DEFINE e == j - 1
  <2>1. e \in Cells /\ count \in Cells /\ e # count
    BY <1>3, QueueAssumption DEF Cells
  <2> HIDE DEF e
  <2>2. Cell(e) \in Cells /\ Cell(e) # Cell(count)
    BY <2>1, CellsAndEntries DEF QueueInv
  <2> QED
    BY <1>3, <2>2 DEF e
<1>6. tail \in Cells /\ queue \in [Cells -> QueueAgents \cup {NoId}]
  BY DEF QueueInv, QueueTypeOK
<1>7. \A j \in 1 .. count : Contained'[j] = Contained[j]
  BY <1>1, <1>2, <1>3, <1>4, <1>5, <1>6
<1>8. Contained'[count + 1] = a
  <2>1. Contained'[count + 1] = queue'[Cell(count + 1 - 1)]
    BY <1>2, <1>3, <1>4
  <2>2. count + 1 - 1 = count
    BY <1>3
  <2> QED
    BY <1>3, <1>6, <2>1, <2>2
<1>9. Contained' = Append(Contained, a)
  <2> DEFINE t == Append(Contained, a)
  <2>1. t \in Seq(QueueAgents \cup {NoId}) /\ Len(t) = count + 1 /\ t[count + 1] = a
        /\ \A j \in 1 .. count : t[j] = Contained[j]
    BY <1>1, <1>3
  <2> HIDE DEF t
  <2>2. \A j \in 1 .. (count + 1) : Contained'[j] = t[j]
    BY <1>3, <1>7, <1>8, <2>1
  <2>3. Contained' = t
    BY <1>2, <1>3, <2>1, <2>2, SeqEqual
  <2> QED
    BY <2>3 DEF t
<1> QED
  BY <1>1, <1>3, <1>9 DEF Fifo!Enter

\* A sequence without one of its elements.
LEMMA WithoutOne ==
  ASSUME NEW S, NEW s \in Seq(S), NEW f \in 1 .. Len(s)
  PROVE  LET w == SubSeq(s, 1, f - 1) \o SubSeq(s, f + 1, Len(s))
         IN  /\ w \in Seq(S) /\ Len(w) = Len(s) - 1
             /\ \A j \in 1 .. (Len(s) - 1) : w[j] = IF j < f THEN s[j] ELSE s[j + 1]
<1> DEFINE u == SubSeq(s, 1, f - 1)
           v == SubSeq(s, f + 1, Len(s))
           w == u \o v
           m == Len(s)
<1>0. m \in Nat /\ f \in 1 .. m
  OBVIOUS
<1>1. u \in Seq(S) /\ Len(u) = f - 1 /\ \A j \in 1 .. (f - 1) : u[j] = s[j]
  OBVIOUS
<1>2. v \in Seq(S) /\ Len(v) = m - f /\ \A j \in 1 .. (m - f) : v[j] = s[f + j]
  OBVIOUS
<1> HIDE DEF u, v, m
<1>3. /\ w \in Seq(S) /\ Len(w) = Len(u) + Len(v)
      /\ \A j \in 1 .. Len(u) + Len(v) : w[j] = IF j <= Len(u) THEN u[j] ELSE v[j - Len(u)]
  BY <1>1, <1>2, ConcatProperties, Zenon
<1> HIDE DEF w
<1>4. w \in Seq(S) /\ Len(w) = m - 1
  BY <1>0, <1>1, <1>2, <1>3
<1>5. ASSUME NEW j \in 1 .. (m - 1)
      PROVE  w[j] = IF j < f THEN s[j] ELSE s[j + 1]
  <2>1. w[j] = IF j <= f - 1 THEN u[j] ELSE v[j - (f - 1)]
    BY <1>0, <1>1, <1>2, <1>3
  <2>2. CASE j < f
    BY <1>0, <1>1, <2>1, <2>2
  <2>3. CASE j >= f
    <3>1. j - (f - 1) \in 1 .. (m - f) /\ f + (j - (f - 1)) = j + 1
      BY <1>0, <2>3
    <3> QED
      BY <1>0, <1>2, <2>1, <2>3, <3>1
  <2> QED
    BY <1>0, <2>2, <2>3
<1> QED
  BY <1>4, <1>5 DEF u, v, w, m

\* The same agent is the first one in the array and in the queue it stands for.
LEMMA FirstPositionIs ==
  ASSUME QueueTypeOK, NEW a, Places(a) # {}
  PROVE  /\ Fifo!Positions(a) # {}
         /\ Fifo!FirstPosition(a) = FirstPlace(a) + 1
<1> DEFINE i == FirstPlace(a)
<1>1. /\ Contained \in Seq(QueueAgents \cup {NoId}) /\ Len(Contained) = count
      /\ \A j \in 1 .. count : Contained[j] = queue[Cell(j - 1)]
  BY ContainedSequence
<1>2. /\ i \in 0 .. (count - 1) /\ count \in Nat /\ queue[Cell(i)] = a
      /\ \A j \in 0 .. (count - 1) : queue[Cell(j)] = a => i <= j
  BY FirstPlaceIs, QueueAssumption DEF QueueTypeOK
<1> HIDE DEF i
<1>3. i + 1 \in 1 .. count /\ i + 1 - 1 = i
  BY <1>2
<1>4. Contained[i + 1] = a
  BY <1>1, <1>2, <1>3
<1>5. i + 1 \in Fifo!Positions(a)
  BY <1>1, <1>3, <1>4 DEF Fifo!Positions
<1>6. \A j \in Fifo!Positions(a) : j \in Nat /\ i + 1 <= j
  <2> SUFFICES ASSUME NEW j \in Fifo!Positions(a) PROVE j \in Nat /\ i + 1 <= j
    OBVIOUS
  <2>1. j \in 1 .. count /\ queue[Cell(j - 1)] = a
    BY <1>1 DEF Fifo!Positions
  <2> DEFINE e == j - 1
  <2>2. e \in 0 .. (count - 1) /\ queue[Cell(e)] = a
    BY <1>2, <2>1
  <2> HIDE DEF e
  <2>3. i <= e
    BY <1>2, <2>2
  <2> QED
    BY <1>2, <2>1, <2>3 DEF e
<1> DEFINE f == Fifo!FirstPosition(a)
<1>7. f \in Fifo!Positions(a) /\ \A j \in Fifo!Positions(a) : f <= j
  BY <1>5, <1>6 DEF Fifo!FirstPosition
<1> HIDE DEF f
<1>8. f = i + 1
  BY <1>2, <1>5, <1>6, <1>7
<1> QED
  BY <1>5, <1>8 DEF f, i

\* The queue without the first entry of an agent.
LEMMA WithoutFirst ==
  ASSUME QueueTypeOK, NEW a, Places(a) # {}
  PROVE  LET w == Fifo!Without(Fifo!FirstPosition(a))
         IN  /\ w \in Seq(QueueAgents \cup {NoId}) /\ Len(w) = count - 1
             /\ \A j \in 1 .. (count - 1) :
                  w[j] = IF j < FirstPlace(a) + 1 THEN Contained[j] ELSE Contained[j + 1]
<1> DEFINE i == FirstPlace(a)
           f == i + 1
           w == Fifo!Without(Fifo!FirstPosition(a))
           K == QueueAgents \cup {NoId}
<1>1. Contained \in Seq(K) /\ Len(Contained) = count
  BY ContainedSequence
<1>2. i \in 0 .. (count - 1) /\ count \in Nat
  BY FirstPlaceIs, QueueAssumption DEF QueueTypeOK
<1>3. Fifo!FirstPosition(a) = i + 1
  BY FirstPositionIs
<1> HIDE DEF i
<1>4. f \in 1 .. Len(Contained)
  BY <1>1, <1>2
<1>5. w = SubSeq(Contained, 1, f - 1) \o SubSeq(Contained, f + 1, Len(Contained))
  BY <1>3 DEF Fifo!Without
<1> HIDE DEF f
<1>6. LET x == SubSeq(Contained, 1, f - 1) \o SubSeq(Contained, f + 1, Len(Contained))
      IN  /\ x \in Seq(K) /\ Len(x) = Len(Contained) - 1
          /\ \A j \in 1 .. (Len(Contained) - 1) : x[j] = IF j < f THEN Contained[j] ELSE Contained[j + 1]
  BY <1>1, <1>4, WithoutOne, Zenon
<1>7. /\ w \in Seq(K) /\ Len(w) = Len(Contained) - 1
      /\ \A j \in 1 .. (Len(Contained) - 1) : w[j] = IF j < f THEN Contained[j] ELSE Contained[j + 1]
  BY <1>5, <1>6, Zenon
<1> QED
  BY <1>1, <1>7, Zenon DEF f, w, i

\* Withdraw does to the array what it does to the sequence.
LEMMA WithdrawRefines ==
  ASSUME QueueInv, QueueTypeOK', NEW a \in QueueAgents, SchedulerRemoveAgent(a)
  PROVE  Fifo!Withdraw(a)
<1> DEFINE i == FirstPlace(a)
           Moves(c) == i <= Entry(c) /\ Entry(c) < count - 1
           w == Fifo!Without(Fifo!FirstPosition(a))
           K == QueueAgents \cup {NoId}
<1>1. /\ Contained \in Seq(K) /\ Len(Contained) = count
      /\ \A j \in 1 .. count : Contained[j] = queue[Cell(j - 1)]
  BY ContainedSequence DEF QueueInv
<1>2. (/\ Contained \in Seq(K) /\ Len(Contained) = count
       /\ \A j \in 1 .. count : Contained[j] = queue[Cell(j - 1)])'
  BY ContainedSequence, PTL
<1>3. /\ queue' = [c \in Cells |-> IF Moves(c) THEN queue[Cell(Entry(c) + 1)] ELSE queue[c]]
      /\ count' = count - 1 /\ head' = head /\ Places(a) # {}
  BY DEF SchedulerRemoveAgent
<1>4. i \in 0 .. (count - 1) /\ count \in 0 .. QueueSize /\ QueueSize \in Nat
  BY <1>3, FirstPlaceIs, QueueAssumption DEF QueueInv, QueueTypeOK
<1>5. Fifo!Positions(a) # {} /\ Fifo!FirstPosition(a) = i + 1
  BY <1>3, FirstPositionIs DEF QueueInv
<1> HIDE DEF i
<1>6. /\ w \in Seq(K) /\ Len(w) = count - 1
      /\ \A j \in 1 .. (count - 1) : w[j] = IF j < i + 1 THEN Contained[j] ELSE Contained[j + 1]
  BY <1>3, WithoutFirst, Zenon DEF i, QueueInv
<1> HIDE DEF w
<1>7. ASSUME NEW j \in 1 .. (count - 1)
      PROVE  Contained'[j] = w[j]
  <2> DEFINE e == j - 1
             c == Cell(e)
  <2>1. e \in Cells /\ j = e + 1 /\ j \in Int /\ e \in Int
    BY <1>4 DEF Cells
  <2>2. Contained'[j] = queue'[c]
    BY <1>2, <1>3 DEF Cell
  <2>3. Contained[j] = queue[c]
    BY <1>1, <1>4
  <2>4. Contained[j + 1] = queue[Cell(j + 1 - 1)] /\ j + 1 - 1 = e + 1
    BY <1>1, <1>4, <2>1
  <2> HIDE DEF e
  <2>5. c \in Cells /\ Entry(c) = e
    BY <2>1, CellsAndEntries DEF QueueInv
  <2> HIDE DEF c
  <2>6. CASE j < i + 1
    <3>1. ~Moves(c)
      BY <1>4, <2>1, <2>5, <2>6
    <3> QED
      BY <1>3, <1>6, <2>2, <2>3, <2>5, <2>6, <3>1
  <2>7. CASE ~(j < i + 1)
    <3>1. Moves(c)
      BY <1>4, <2>1, <2>5, <2>7
    <3>2. queue'[c] = queue[Cell(e + 1)]
      BY <1>3, <2>5, <3>1
    <3>3. queue'[c] = Contained[j + 1]
      BY <2>4, <3>2
    <3> QED
      BY <1>6, <2>2, <2>7, <3>3
  <2> QED
    BY <2>6, <2>7
<1>8. Contained' = w
  BY <1>2, <1>3, <1>6, <1>7, SeqEqual
<1> QED
  BY <1>5, <1>8 DEF w, Fifo!Withdraw

\* Promote does to the array what it does to the sequence.
LEMMA PromoteRefines ==
  ASSUME QueueInv, QueueTypeOK', NEW a \in QueueAgents, SchedulerUpdateAgent(a)
  PROVE  Fifo!Promote(a)
<1> DEFINE i == FirstPlace(a)
           w == Fifo!Without(Fifo!FirstPosition(a))
           K == QueueAgents \cup {NoId}
           x == <<a>> \o w
<1>1. /\ Contained \in Seq(K) /\ Len(Contained) = count
      /\ \A j \in 1 .. count : Contained[j] = queue[Cell(j - 1)]
  BY ContainedSequence DEF QueueInv
<1>2. (/\ Contained \in Seq(K) /\ Len(Contained) = count
       /\ \A j \in 1 .. count : Contained[j] = queue[Cell(j - 1)])'
  BY ContainedSequence, PTL
<1>3. /\ queue' = [c \in Cells |-> IF Entry(c) = 0 THEN a
                                   ELSE IF Entry(c) <= i THEN queue[Cell(Entry(c) - 1)]
                                   ELSE queue[c]]
      /\ count' = count /\ head' = head /\ Places(a) # {}
  BY DEF SchedulerUpdateAgent
<1>4. i \in 0 .. (count - 1) /\ count \in 0 .. QueueSize /\ QueueSize \in Nat
  BY <1>3, FirstPlaceIs, QueueAssumption DEF QueueInv, QueueTypeOK
<1>5. Fifo!Positions(a) # {}
  BY <1>3, FirstPositionIs DEF QueueInv
<1>6. /\ w \in Seq(K) /\ Len(w) = count - 1
      /\ \A j \in 1 .. (count - 1) : w[j] = IF j < i + 1 THEN Contained[j] ELSE Contained[j + 1]
  BY <1>3, WithoutFirst, Zenon DEF QueueInv
<1> HIDE DEF i, w
<1>7. /\ x \in Seq(K) /\ Len(x) = count /\ x[1] = a
      /\ \A j \in 2 .. count : x[j] = w[j - 1]
  <2> DEFINE y == <<a>>
  <2>1. y \in Seq(K) /\ Len(y) = 1 /\ y[1] = a
    OBVIOUS
  <2> HIDE DEF y
  <2>a. w \in Seq(K) /\ y \in Seq(K)
    BY <1>6, <2>1
  <2>2. /\ y \o w \in Seq(K) /\ Len(y \o w) = Len(y) + Len(w)
        /\ \A j \in 1 .. Len(y) + Len(w) : (y \o w)[j] = IF j <= Len(y) THEN y[j] ELSE w[j - Len(y)]
    BY <2>a, ConcatProperties, Zenon
  <2>3. x = y \o w
    BY DEF y
  <2> HIDE DEF x
  <2>4. count \in Nat /\ Len(y) + Len(w) = count
    BY <1>4, <1>6, <2>1
  <2>5. x \in Seq(K) /\ Len(x) = count
    BY <2>2, <2>3, <2>4, Zenon
  <2>6. \A j \in 1 .. count : x[j] = IF j <= 1 THEN y[j] ELSE w[j - 1]
    BY <2>1, <2>2, <2>3, <2>4, Zenon
  <2> QED
    BY <1>4, <2>1, <2>5, <2>6
<1> HIDE DEF x
<1>8. ASSUME NEW j \in 1 .. count
      PROVE  Contained'[j] = x[j]
  <2> DEFINE e == j - 1
             c == Cell(e)
  <2>1. e \in Cells /\ j = e + 1 /\ j \in Int /\ e \in Int
    BY <1>4 DEF Cells
  <2>2. Contained'[j] = queue'[c]
    BY <1>2, <1>3 DEF Cell
  <2>3. Contained[j] = queue[c]
    BY <1>1, <1>4
  <2>4. j > 1 => Contained[j - 1] = queue[Cell(j - 1 - 1)] /\ j - 1 - 1 = e - 1
    BY <1>1, <1>4, <2>1
  <2> HIDE DEF e
  <2>5. c \in Cells /\ Entry(c) = e
    BY <2>1, CellsAndEntries DEF QueueInv
  <2> HIDE DEF c
  <2>6. CASE j = 1
    BY <1>3, <1>7, <2>1, <2>2, <2>5, <2>6
  <2>7. CASE j > 1 /\ j - 1 < i + 1
    <3>1. Entry(c) # 0 /\ Entry(c) <= i
      BY <1>4, <2>1, <2>5, <2>7
    <3>2. queue'[c] = queue[Cell(e - 1)]
      BY <1>3, <2>5, <3>1
    <3>3. queue'[c] = Contained[j - 1]
      BY <2>4, <2>7, <3>2
    <3>4. x[j] = w[j - 1] /\ w[j - 1] = Contained[j - 1]
      BY <1>4, <1>6, <1>7, <2>7
    <3> QED
      BY <2>2, <3>3, <3>4
  <2>8. CASE j > 1 /\ ~(j - 1 < i + 1)
    <3>1. Entry(c) # 0 /\ ~(Entry(c) <= i)
      BY <1>4, <2>1, <2>5, <2>8
    <3>2. queue'[c] = queue[c]
      BY <1>3, <2>5, <3>1
    <3>3. x[j] = w[j - 1] /\ w[j - 1] = Contained[j - 1 + 1] /\ j - 1 + 1 = j
      BY <1>4, <1>6, <1>7, <2>8
    <3> QED
      BY <2>2, <2>3, <3>2, <3>3
  <2> QED
    BY <2>6, <2>7, <2>8
<1>9. Contained' = x
  BY <1>2, <1>3, <1>7, <1>8, SeqEqual
<1> QED
  BY <1>5, <1>9 DEF w, x, Fifo!Promote

\* Take does to the array what it does to the sequence.
LEMMA TakeRefines ==
  ASSUME QueueInv, QueueTypeOK', NEW p, PickOrWait(p)
  PROVE  Fifo!Take \/ Contained' = Contained
<1> DEFINE K == QueueAgents \cup {NoId}
           t == Tail(Contained)
<1>1. /\ Contained \in Seq(K) /\ Len(Contained) = count
      /\ \A j \in 1 .. count : Contained[j] = queue[Cell(j - 1)]
  BY ContainedSequence DEF QueueInv
<1>2. (/\ Contained \in Seq(K) /\ Len(Contained) = count
       /\ \A j \in 1 .. count : Contained[j] = queue[Cell(j - 1)])'
  BY ContainedSequence, PTL
<1>3. CASE UNCHANGED ring
  BY <1>3 DEF ring, Contained, Cell
<1>4. CASE count > 0 /\ head' = (head + 1) % QueueSize /\ count' = count - 1 /\ queue' = queue
  <2>0. /\ count \in 0 .. QueueSize /\ QueueSize \in Nat \ {0} /\ head \in 0 .. (QueueSize - 1)
        /\ head' \in 0 .. (QueueSize - 1) /\ QueueTypeOK
    BY QueueAssumption DEF QueueInv, QueueTypeOK, Cells
  <2>1. Contained # <<>>
    BY <1>1, <1>4
  <2>2. t \in Seq(K) /\ Len(t) = count - 1 /\ \A j \in 1 .. Len(t) : t[j] = Contained[j + 1]
    BY <1>1, <2>1, HeadTailProperties
  <2>3. head' = IF head + 1 < QueueSize THEN head + 1 ELSE 0
    BY <1>4, <2>0, RingIndices
  <2>4. ASSUME NEW j \in 1 .. (count - 1)
        PROVE  Contained'[j] = t[j]
    <3>1. Contained'[j] = queue[Cell(j - 1)']
      BY <1>2, <1>4
    <3>2. Contained[j + 1] = queue[Cell(j + 1 - 1)] /\ j + 1 - 1 = j
      BY <1>1, <2>0
    <3>3. Cell(j - 1)' = Cell(j)
      <4> DEFINE n == QueueSize
                 h == head'
                 k == head
                 m == count
      <4>1. /\ h \in Int /\ k \in Int /\ j \in Int /\ m \in Int /\ n \in Nat \ {0}
            /\ 0 <= h /\ h < n /\ 0 <= k /\ k < n /\ 1 <= j /\ j <= m - 1 /\ m <= n
        BY <2>0
      <4>2. h = IF k + 1 < n THEN k + 1 ELSE 0
        BY <2>3
      <4>3. Cell(j - 1)' = (h + (j - 1)) % n /\ Cell(j) = (k + j) % n
        BY DEF Cell
      <4> HIDE DEF n, h, k, m
      <4>4. \A y \in 0 .. (2 * n - 1) : y % n = IF y < n THEN y ELSE y - n
        BY <4>1, OnceAround
      <4>5. h + (j - 1) \in 0 .. (2 * n - 1) /\ k + j \in 0 .. (2 * n - 1)
        BY <4>1
      <4>6. /\ (h + (j - 1)) % n = IF h + (j - 1) < n THEN h + (j - 1) ELSE h + (j - 1) - n
            /\ (k + j) % n = IF k + j < n THEN k + j ELSE k + j - n
        BY <4>1, <4>4, <4>5
      <4> QED
        BY <4>1, <4>2, <4>3, <4>6
    <3> QED
      BY <2>0, <2>2, <3>1, <3>2, <3>3
  <2> HIDE DEF t
  <2>5. Contained' = t
    BY <1>2, <1>4, <2>2, <2>4, SeqEqual
  <2> QED
    BY <2>1, <2>5 DEF t, Fifo!Take
<1> QED
  BY <1>3, <1>4 DEF PickOrWait

\* Every step of the ready queue is one of ReadyFifo, or leaves it alone.
LEMMA FifoStep ==
  ASSUME QueueInv, QueueTypeOK', [QueueNext]_queueVars
  PROVE  [Fifo!FifoNext]_Contained
<1>1. UNCHANGED ring => Contained' = Contained
  BY DEF ring, Contained, Cell
<1>2. UNCHANGED queueVars => Contained' = Contained
  BY <1>1 DEF queueVars, ring
<1>3. ASSUME Zeroed PROVE Contained' = <<>>
  <2>1. count' = 0
    BY <1>3 DEF Zeroed
  <2>2. (Contained \in Seq(QueueAgents \cup {NoId}) /\ Len(Contained) = count)'
    BY ContainedSequence, PTL
  <2> QED
    BY <2>1, <2>2
<1>4. CASE SchedulerInit \/ SchedulerDestroy
  BY <1>3, <1>4 DEF SchedulerInit, SchedulerDestroy, Fifo!FifoNext, Fifo!Reset
<1>5. ASSUME NEW a \in QueueAgents, SchedulerAddAgent(a) \/ SchedulerRemoveAgent(a) \/ SchedulerUpdateAgent(a)
      PROVE  Fifo!FifoNext
  BY <1>5, EnterRefines, WithdrawRefines, PromoteRefines DEF Fifo!FifoNext
<1>6. ASSUME NEW p \in Pickers, SchedulerPickNext(p) \/ Resume(p)
      PROVE  Fifo!FifoNext \/ Contained' = Contained
  BY <1>6, TakeRefines DEF SchedulerPickNext, Resume, Fifo!FifoNext
<1>7. ASSUME NEW p \in Pickers, SpuriousWakeup(p)
      PROVE  Contained' = Contained
  BY <1>1, <1>7 DEF SpuriousWakeup
<1>8. CASE SchedulerStart \/ SchedulerStop
  BY <1>1, <1>8 DEF SchedulerStart, SchedulerStop
<1> QED
  BY <1>2, <1>4, <1>5, <1>6, <1>7, <1>8 DEF QueueNext

\* The circular array with its wrap-around and its shifts implements a bounded
\* first-in first-out queue, for every size of the array.
THEOREM QueueImplementsFifo == QueueSpec => ImplementsFifo
<1>1. QueueInit => Fifo!FifoInit
  BY DEF QueueInit, Fifo!FifoInit, Contained
<1>2. QueueInv /\ QueueInv' /\ [QueueNext]_queueVars => [Fifo!FifoNext]_Contained
  BY FifoStep DEF QueueInv
<1> QED
  BY <1>1, <1>2, QueueInvariant, PTL DEF QueueSpec, ImplementsFifo, Fifo!FifoSpec

-----------------------------------------------------------------------------
(* ProcessExecutor *)

\* One step of the run of w, of its child or of its group.
RunStep(w) ==
  \/ RunnerStep(w)
  \/ BarrierStep(w)
  \/ Output(w)
  \/ \E kind \in {"alive", "stubborn"} : SpawnDescendant(w, kind)
  \/ Exit(w)
  \/ Interrupt(w)

\* Every step of a run keeps the types of the executor.
LEMMA ExecutorTypesStep ==
  ASSUME ExecutorTypeOK, NEW w \in Runners, RunStep(w)
  PROVE  ExecutorTypeOK'
<1> USE ExecutorAssumption DEF ExecutorTypeOK, Stages, outputVars, To, Becomes, Closed, ClosedBy
<1>1. CASE OpenBarrier(w)
  BY <1>1 DEF OpenBarrier
<1>2. CASE NotStarted(w)
  BY <1>2 DEF NotStarted
<1>3. CASE Fork(w)
  BY <1>3 DEF Fork
<1>4. CASE ForkFails(w)
  BY <1>4 DEF ForkFails
<1>5. CASE SetupFails(w)
  BY <1>5 DEF SetupFails
<1>6. CASE Admit(w)
  BY <1>6 DEF Admit
<1>7. CASE Reject(w)
  BY <1>7 DEF Reject
<1>8. CASE ReapRejected(w)
  BY <1>8 DEF ReapRejected
<1>9. CASE ReadPipe(w)
  BY <1>9 DEF ReadPipe
<1>10. CASE Drained(w)
  BY <1>10 DEF Drained
<1>11. CASE LeaderExited(w)
  BY <1>11 DEF LeaderExited
<1>12. CASE GoOn(w)
  BY <1>12 DEF GoOn
<1>13. CASE Terminate(w)
  BY <1>13 DEF Terminate
<1>14. CASE GraceEnds(w)
  BY <1>14 DEF GraceEnds
<1>15. CASE Exec(w)
  BY <1>15 DEF Exec
<1>16. CASE Refused(w)
  BY <1>16 DEF Refused
<1>17. CASE Output(w)
  BY <1>17 DEF Output
<1>18. CASE Exit(w)
  BY <1>18 DEF Exit
<1>19. CASE Interrupt(w)
  BY <1>19 DEF Interrupt
<1>20. ASSUME NEW kind \in {"alive", "stubborn"}, SpawnDescendant(w, kind)
       PROVE  ExecutorTypeOK'
  BY <1>20 DEF SpawnDescendant
<1> QED
  BY <1>1, <1>2, <1>3, <1>4, <1>5, <1>6, <1>7, <1>8, <1>9, <1>10, <1>11, <1>12, <1>13, <1>14, <1>15, <1>16, <1>17, <1>18, <1>19, <1>20 DEF RunStep, RunnerStep, BarrierStep

RunOK(v) == ChildFollows(v) /\ BarrierHolds(v) /\ BytesAddUp(v)

\* Its own run, and those whose barrier its process has open.
LEMMA RunsStep ==
  ASSUME ExecutorTypeOK, ExecutorTypeOK', \A v \in Runners : RunOK(v),
         NEW w \in Runners, RunStep(w), NEW v \in Runners
  PROVE  RunOK(v)'
<1> USE ExecutorAssumption DEF ExecutorTypeOK, Stages, outputVars, To, Becomes, Closed, ClosedBy,
        RunOK, ChildFollows, BarrierHolds, BytesAddUp
<1>1. CASE OpenBarrier(w)
  BY <1>1 DEF OpenBarrier
<1>2. CASE NotStarted(w)
  BY <1>2 DEF NotStarted
<1>3. CASE Fork(w)
  BY <1>3 DEF Fork
<1>4. CASE ForkFails(w)
  BY <1>4 DEF ForkFails
<1>5. CASE SetupFails(w)
  BY <1>5 DEF SetupFails
<1>6. CASE Admit(w)
  BY <1>6 DEF Admit
<1>7. CASE Reject(w)
  BY <1>7 DEF Reject
<1>8. CASE ReapRejected(w)
  BY <1>8 DEF ReapRejected
<1>9. CASE ReadPipe(w)
  BY <1>9 DEF ReadPipe
<1>10. CASE Drained(w)
  BY <1>10 DEF Drained
<1>11. CASE LeaderExited(w)
  BY <1>11 DEF LeaderExited
<1>12. CASE GoOn(w)
  BY <1>12 DEF GoOn
<1>13. CASE Terminate(w)
  BY <1>13 DEF Terminate
<1>14. CASE GraceEnds(w)
  BY <1>14 DEF GraceEnds
<1>15. CASE Exec(w)
  BY <1>15 DEF Exec
<1>16. CASE Refused(w)
  BY <1>16 DEF Refused
<1>17. CASE Output(w)
  BY <1>17 DEF Output, Alive
<1>18. CASE Exit(w)
  BY <1>18 DEF Exit
<1>19. CASE Interrupt(w)
  BY <1>19 DEF Interrupt
<1>20. ASSUME NEW kind \in {"alive", "stubborn"}, SpawnDescendant(w, kind)
       PROVE  RunOK(v)'
  BY <1>20 DEF SpawnDescendant
<1> QED
  BY <1>1, <1>2, <1>3, <1>4, <1>5, <1>6, <1>7, <1>8, <1>9, <1>10, <1>11, <1>12, <1>13, <1>14, <1>15, <1>16, <1>17, <1>18, <1>19, <1>20 DEF RunStep, RunnerStep, BarrierStep

\* The invariant of the executor: where each worker is, what its child and its
\* barrier are, and where the bytes of its command are.
LEMMA ExecutorSafety == ExecutorInit /\ [][ExecutorNext]_executorVars => []ExecutorInv
<1>1. ExecutorInit => ExecutorInv
  BY ExecutorAssumption DEF ExecutorInit, ExecutorInv, ExecutorTypeOK, Stages, ChildFollows,
     BarrierHolds, BytesAddUp
<1>2. ExecutorInv /\ [ExecutorNext]_executorVars => ExecutorInv'
  <2> SUFFICES ASSUME ExecutorInv, [ExecutorNext]_executorVars PROVE ExecutorInv'
    OBVIOUS
  <2>1. CASE UNCHANGED executorVars
    BY <2>1 DEF executorVars, outputVars, ExecutorInv, ExecutorTypeOK, ChildFollows, BarrierHolds,
       BytesAddUp
  <2>2. ASSUME NEW w \in Runners, RunStep(w)
        PROVE  ExecutorInv'
    <3>1. ExecutorTypeOK'
      BY <2>2, ExecutorTypesStep DEF ExecutorInv
    <3>2. \A v \in Runners : RunOK(v)
      BY DEF ExecutorInv, RunOK
    <3>3. \A v \in Runners : RunOK(v)'
      BY <2>2, <3>1, <3>2, RunsStep DEF ExecutorInv
    <3> QED
      BY <3>1, <3>3 DEF ExecutorInv, RunOK
  <2> QED
    BY <2>1, <2>2 DEF ExecutorNext, RunStep
<1> QED
  BY <1>1, <1>2, PTL

\* The same of the executor as its threads are scheduled.
THEOREM ExecutorInvariant == ExecutorSpec => []ExecutorInv
BY ExecutorSafety, PTL DEF ExecutorSpec

\* Every variable of the executor keeps its type.
THEOREM ExecutorTypes == ExecutorSpec => []ExecutorTypeOK
BY ExecutorInvariant, PTL DEF ExecutorInv

\* A run that has returned has all its command's output, or says that it was
\* truncated, and leaves no leader behind: for any number of workers.
THEOREM ExecutorRunsAccounted == ExecutorSpec => []RunsAccounted
<1>1. ExecutorInv => RunsAccounted
  <2> SUFFICES ASSUME ExecutorInv, NEW w \in Runners, stage[w] = "done"
               PROVE  /\ outputBytes[w] = IF written[w] < Capacity THEN written[w] ELSE Capacity
                      /\ truncated[w] <=> written[w] > Capacity
                      /\ child[w] \in {"none", "reaped"}
                      /\ ~token[w] => descendant[w] = "none" /\ written[w] = 0
    BY DEF RunsAccounted, OutputKept, LeaderReaped
  <2>1. ChildFollows(w) /\ BarrierHolds(w) /\ BytesAddUp(w) /\ ExecutorTypeOK
    BY DEF ExecutorInv
  <2>2. outputBytes[w] \in 0 .. Capacity /\ written[w] \in Nat /\ truncated[w] \in BOOLEAN /\ pipe[w] = 0
    BY <2>1 DEF ExecutorTypeOK, BytesAddUp
  <2> QED
    BY <2>1, <2>2, ExecutorAssumption DEF ChildFollows, BarrierHolds, BytesAddUp
<1> QED
  BY <1>1, ExecutorInvariant, PTL

-----------------------------------------------------------------------------
(* ModelEngine: admission *)

\* The contexts in memory can be counted.
LEMMA ResidentFinite ==
  ASSUME EngineTypeOK
  PROVE  /\ IsFiniteSet(Resident) /\ Cardinality(Resident) \in Nat
         /\ \A id : id \notin Resident =>
              Cardinality(Resident \cup {id}) = Cardinality(Resident) + 1
         /\ \A id \in Resident : Cardinality(Resident \ {id}) = Cardinality(Resident) - 1
<1>1. Resident \subseteq 1 .. MaxIds
  BY DEF EngineTypeOK, Resident, ContextIds
<1>2. IsFiniteSet(Resident)
  <2>1. IsFiniteSet(1 .. MaxIds)
    BY EngineAssumption, FS_Interval
  <2> QED
    BY <1>1, <2>1, FS_Subset
<1> QED
  BY <1>2, FS_CardinalityType, FS_AddElement, FS_RemoveElement

\* The sum of the reservations, as long as it does not wrap.
LEMMA ReservedIs ==
  ASSUME EngineInv, NEW owner, owner \notin Resident
  PROVE  ReservedByOthers(owner) = ContextBytes * Cardinality(Resident)
<1> DEFINE bytes == 1 .. ContextBytes
           units == UNION {{id} \X (1 .. reservations[id]) : id \in DOMAIN reservations \ {owner}}
<1>1. DOMAIN reservations \ {owner} = Resident
  BY DEF EngineInv, ContextsAccounted
<1>2. units = Resident \X bytes
  BY <1>1 DEF EngineInv
<1>3. IsFiniteSet(bytes) /\ Cardinality(bytes) = ContextBytes /\ ContextBytes \in Nat
  <2>1. ContextBytes \in Nat
    BY EngineAssumption
  <2>2. IsFiniteSet(bytes) /\ Cardinality(bytes) = IF 1 > ContextBytes THEN 0 ELSE ContextBytes - 1 + 1
    BY <2>1, FS_Interval
  <2> HIDE DEF bytes
  <2> QED
    BY <2>1, <2>2
<1>4. IsFiniteSet(Resident) /\ Cardinality(Resident) \in Nat
  BY ResidentFinite DEF EngineInv
<1> HIDE DEF bytes
<1>5. Cardinality(Resident \X bytes) = Cardinality(Resident) * ContextBytes
  BY <1>3, <1>4, FS_Product
<1>6. ReservedByOthers(owner) = Cardinality(units) % Width
  BY DEF ReservedByOthers
<1> HIDE DEF units
<1> DEFINE n == ContextBytes * Cardinality(Resident)
<1>7. n \in Nat /\ n < Width /\ Cardinality(units) = n /\ Width \in Nat \ {0}
  BY <1>2, <1>3, <1>4, <1>5, EngineAssumption DEF EngineInv
<1> HIDE DEF n
<1>8. ReservedByOthers(owner) = n
  BY <1>6, <1>7
<1> QED
  BY <1>8 DEF n

\* The memory a sample reports is within the width of the counters.
LEMMA AvailableType ==
  ASSUME EngineTypeOK
  PROVE  AvailableBytes(memory) \in 0 .. (Width - 1)
<1>1. memory \in [available : 0 .. (Width - 1), limit : 0 .. (Width - 1), current : 0 .. (Width - 1)]
  BY EngineAssumption DEF EngineTypeOK
<1>2. /\ memory.available \in 0 .. (Width - 1) /\ memory.limit \in 0 .. (Width - 1)
      /\ memory.current \in 0 .. (Width - 1) /\ Width \in Nat
  BY <1>1, EngineAssumption
<1> QED
  BY <1>2 DEF AvailableBytes

\* What try_reserve admits fits, with the margin and everything reserved before.
LEMMA AdmissionFits ==
  ASSUME EngineInv, NEW owner, owner \notin Resident, Admits(owner, ContextBytes), ContextBytes > 0
  PROVE  ContextBytes * (Cardinality(Resident) + 1) + SafetyMargin <= AvailableBytes(memory)
<1> DEFINE A == AvailableBytes(memory)
           R == ReservedByOthers(owner)
           M == SafetyMargin
           C == ContextBytes
           n == Cardinality(Resident)
           protected == IF M >= A \/ R >= Minus(A, M) THEN A ELSE Plus(M, R)
<1>1. /\ A \in 0 .. (Width - 1) /\ M \in 0 .. (Width - 1) /\ C \in 0 .. (Width - 1)
      /\ Width \in Nat \ {0} /\ n \in Nat /\ C > 0
  BY AvailableType, ResidentFinite, EngineAssumption DEF EngineInv
<1>2. R = C * n /\ R \in Nat
  BY <1>1, ReservedIs
<1>3. C <= Minus(A, protected)
  BY DEF Admits, Allocatable
<1> HIDE DEF A, R, M, n, C
<1>4. CASE M >= A \/ R >= Minus(A, M)
  <2>1. Minus(A, protected) = 0
    BY <1>1, <1>4 DEF Minus
  <2> QED
    BY <1>1, <1>3, <2>1
<1>5. CASE ~(M >= A \/ R >= Minus(A, M))
  <2>1. M < A /\ Minus(A, M) = A - M
    BY <1>1, <1>5 DEF Minus
  <2>2. R < A - M
    BY <1>1, <1>2, <1>5, <2>1
  <2>3. Plus(M, R) = M + R
    BY <1>1, <1>2, <2>1, <2>2 DEF Plus
  <2>4. Minus(A, M + R) = A - (M + R)
    BY <1>1, <1>2, <2>1, <2>2 DEF Minus
  <2>5. C <= A - (M + R)
    BY <1>3, <1>5, <2>3, <2>4
  <2>6. C * (n + 1) = C * n + C
    BY <1>1
  <2>7. C * (n + 1) + M <= A
    BY <1>1, <1>2, <2>5, <2>6
  <2> QED
    BY <2>7 DEF A, M, n, C
<1> QED
  BY <1>4, <1>5

-----------------------------------------------------------------------------
(* ModelEngine: the tables, the files and the holders *)

\* Steps that free no context, make none and reserve nothing.
LEMMA SameContexts ==
  ASSUME EngineInv, DOMAIN contexts' = DOMAIN contexts, contexts' \in [DOMAIN contexts' -> Slots],
         Resident' = Resident, reservations' = reservations,
         modelLoaded' \in BOOLEAN, memory' \in MemorySamples,
         nextContextId' \in 1 .. (MaxIds + 1), nextContextId' >= nextContextId,
         snapshotFile' \in [ContextIds -> {"none", "good", "bad"}],
         \A id \in DOMAIN contexts \ Resident : snapshotFile'[id] = snapshotFile[id],
         leases' \in [EngineAgents -> SUBSET ContextIds], LeasesExclusive'
  PROVE  EngineInv'
<1>1. EngineTypeOK'
  BY DEF EngineInv, EngineTypeOK
<1>2. ContextsAccounted'
  BY DEF EngineInv, ContextsAccounted
<1>3. \A id \in DOMAIN contexts' : id < nextContextId'
  BY EngineAssumption DEF EngineInv, EngineTypeOK, ContextIds
<1>4. \A id \in Resident' : reservations'[id] = ContextBytes
  BY DEF EngineInv
<1>5. ContextBytes * Cardinality(Resident') < Width
  BY DEF EngineInv
<1> QED
  BY <1>1, <1>2, <1>3, <1>4, <1>5 DEF EngineInv

\* initialize, a failed acquire and a new memory sample keep the invariant.
LEMMA NothingLeasedStep ==
  ASSUME EngineInv, Initialize \/ AcquireFails \/ \E m \in MemorySamples : MemoryChanges(m)
  PROVE  EngineInv'
<1>1. contexts' = contexts /\ reservations' = reservations /\ snapshotFile' = snapshotFile /\ leases' = leases
  BY DEF Initialize, AcquireFails, MemoryChanges
<1>2. /\ modelLoaded' \in BOOLEAN /\ memory' \in MemorySamples
      /\ nextContextId' \in 1 .. (MaxIds + 1) /\ nextContextId' >= nextContextId
  <2>0. /\ nextContextId \in 1 .. (MaxIds + 1) /\ nextContextId \in Int /\ MaxIds \in Nat
        /\ modelLoaded \in BOOLEAN /\ memory \in MemorySamples
    BY EngineAssumption DEF EngineInv, EngineTypeOK
  <2>1. CASE Initialize
    BY <2>0, <2>1 DEF Initialize
  <2>2. CASE AcquireFails
    BY <2>0, <2>2 DEF AcquireFails
  <2>3. ASSUME NEW m \in MemorySamples, MemoryChanges(m)
        PROVE  /\ modelLoaded' \in BOOLEAN /\ memory' \in MemorySamples
               /\ nextContextId' \in 1 .. (MaxIds + 1) /\ nextContextId' >= nextContextId
    BY <2>0, <2>3 DEF MemoryChanges
  <2> QED
    BY <2>1, <2>2, <2>3
<1>3. Resident' = Resident
  BY <1>1 DEF Resident
<1>4. LeasesExclusive'
  BY <1>1, <1>3 DEF EngineInv, LeasesExclusive
<1> QED
  BY <1>1, <1>2, <1>3, <1>4, SameContexts DEF EngineInv, EngineTypeOK

\* A slot with another holder.
LEMMA LeasedSlot ==
  ASSUME NEW slot \in Slots, NEW a \in EngineAgents \cup {NoLease}
  PROVE  /\ Leased(slot, a) \in Slots
         /\ Leased(slot, a).owner = a
         /\ Leased(slot, a).resident = slot.resident
<1>1. [slot EXCEPT !.owner = a, !.cancel = FALSE] \in Slots
  BY DEF Slots
<1> QED
  BY <1>1 DEF Leased, Slots

\* acquire of a context that is in memory keeps the invariant.
LEMMA AcquireIdleStep ==
  ASSUME EngineInv, NEW a \in EngineAgents, NEW id \in ContextIds, AcquireIdle(a, id)
  PROVE  EngineInv'
<1>1. /\ id \in Resident /\ id \in DOMAIN contexts /\ contexts[id].owner = NoLease
      /\ contexts' = [contexts EXCEPT ![id] = Leased(contexts[id], a)]
      /\ leases' = [leases EXCEPT ![a] = leases[a] \cup {id}]
      /\ UNCHANGED <<modelLoaded, nextContextId, reservations, snapshotFile, memory>>
  BY DEF AcquireIdle, Idle, Resident
<1> DEFINE slot == Leased(contexts[id], a)
<1>2. slot \in Slots /\ slot.owner = a /\ slot.resident = contexts[id].resident
  BY <1>1, LeasedSlot DEF EngineInv, EngineTypeOK
<1> HIDE DEF slot
<1>3. /\ DOMAIN contexts' = DOMAIN contexts /\ contexts' \in [DOMAIN contexts' -> Slots]
      /\ contexts'[id] = slot /\ \A i \in DOMAIN contexts : i # id => contexts'[i] = contexts[i]
  BY <1>1, <1>2 DEF EngineInv, EngineTypeOK, slot
<1>4. Resident' = Resident
  BY <1>1, <1>2, <1>3 DEF Resident
<1>5. \A b \in EngineAgents : id \notin leases[b]
  BY <1>1, EngineAssumption DEF EngineInv, LeasesExclusive
<1>6. LeasesExclusive'
  <2> SUFFICES ASSUME NEW b \in EngineAgents, NEW i \in leases'[b]
               PROVE  i \in Resident /\ contexts'[i].owner = b
    BY <1>4 DEF LeasesExclusive
  <2>1. CASE i = id
    BY <1>1, <1>2, <1>3, <1>5, <2>1 DEF EngineInv, EngineTypeOK
  <2>2. CASE i # id
    BY <1>1, <1>3, <2>2 DEF EngineInv, EngineTypeOK, LeasesExclusive, Resident
  <2> QED
    BY <2>1, <2>2
<1>7. leases' \in [EngineAgents -> SUBSET ContextIds]
  BY <1>1 DEF EngineInv, EngineTypeOK
<1> QED
  BY <1>1, <1>3, <1>4, <1>6, <1>7, EngineAssumption, SameContexts DEF EngineInv, EngineTypeOK

\* A lease is of a context that is there, and of nobody else.
LEMMA LeaseIs ==
  ASSUME EngineInv, NEW a \in EngineAgents, NEW id \in leases[a]
  PROVE  /\ id \in Resident /\ id \in DOMAIN contexts /\ contexts[id].owner = a
         /\ contexts[id] \in Slots /\ id \in ContextIds
         /\ \A b \in EngineAgents : b # a => id \notin leases[b]
BY DEF EngineInv, LeasesExclusive, Resident, EngineTypeOK

\* Release keeps the invariant.
LEMMA ReleaseStep ==
  ASSUME EngineInv, NEW a \in EngineAgents, NEW id \in ContextIds, Release(a, id)
  PROVE  EngineInv'
<1>1. /\ id \in leases[a]
      /\ contexts' = [contexts EXCEPT ![id] = Leased(contexts[id], NoLease)]
      /\ leases' = [leases EXCEPT ![a] = leases[a] \ {id}]
      /\ UNCHANGED <<modelLoaded, nextContextId, reservations, snapshotFile, memory>>
  BY DEF Release
<1> DEFINE slot == Leased(contexts[id], NoLease)
<1>2. /\ id \in Resident /\ id \in DOMAIN contexts /\ slot \in Slots
      /\ slot.resident = contexts[id].resident
      /\ \A b \in EngineAgents : b # a => id \notin leases[b]
  BY <1>1, LeaseIs, LeasedSlot
<1> HIDE DEF slot
<1>3. /\ DOMAIN contexts' = DOMAIN contexts /\ contexts' \in [DOMAIN contexts' -> Slots]
      /\ contexts'[id] = slot /\ \A i \in DOMAIN contexts : i # id => contexts'[i] = contexts[i]
  BY <1>1, <1>2 DEF EngineInv, EngineTypeOK, slot
<1>4. Resident' = Resident
  BY <1>1, <1>2, <1>3 DEF Resident
<1>5. LeasesExclusive'
  <2> SUFFICES ASSUME NEW b \in EngineAgents, NEW i \in leases'[b]
               PROVE  i \in Resident /\ contexts'[i].owner = b
    BY <1>4 DEF LeasesExclusive
  <2>1. i # id /\ i \in leases[b]
    BY <1>1, <1>2 DEF EngineInv, EngineTypeOK
  <2> QED
    BY <1>3, <2>1 DEF EngineInv, LeasesExclusive, Resident
<1>6. leases' \in [EngineAgents -> SUBSET ContextIds]
  BY <1>1 DEF EngineInv, EngineTypeOK
<1> QED
  BY <1>1, <1>3, <1>4, <1>5, <1>6, EngineAssumption, SameContexts DEF EngineInv, EngineTypeOK

\* suspend whose file cannot be written keeps the invariant.
LEMMA SuspendFailsStep ==
  ASSUME EngineInv, NEW a \in EngineAgents, NEW id \in ContextIds, SuspendFails(a, id)
  PROVE  EngineInv'
<1>1. /\ id \in Resident
      /\ snapshotFile' = [snapshotFile EXCEPT ![id] = "bad"]
      /\ UNCHANGED <<modelLoaded, contexts, nextContextId, reservations, leases, memory>>
  BY LeaseIs DEF SuspendFails
<1>2. Resident' = Resident
  BY <1>1 DEF Resident
<1>3. LeasesExclusive'
  BY <1>1, <1>2 DEF EngineInv, LeasesExclusive
<1>4. /\ snapshotFile' \in [ContextIds -> {"none", "good", "bad"}]
      /\ \A i \in DOMAIN contexts \ Resident : snapshotFile'[i] = snapshotFile[i]
  BY <1>1 DEF EngineInv, EngineTypeOK
<1> QED
  BY <1>1, <1>2, <1>3, <1>4, EngineAssumption, SameContexts DEF EngineInv, EngineTypeOK

\* RequestCancel keeps the invariant.
LEMMA RequestCancelStep ==
  ASSUME EngineInv, NEW id \in ContextIds, RequestCancel(id)
  PROVE  EngineInv'
<1> DEFINE slot == [contexts[id] EXCEPT !.cancel = TRUE]
<1>1. /\ id \in DOMAIN contexts
      /\ contexts' = [contexts EXCEPT ![id] = slot]
      /\ UNCHANGED <<modelLoaded, nextContextId, reservations, snapshotFile, leases, memory>>
  BY DEF RequestCancel
<1>2. contexts[id] \in Slots
  BY <1>1 DEF EngineInv, EngineTypeOK
<1>3. slot \in Slots /\ slot.owner = contexts[id].owner /\ slot.resident = contexts[id].resident
  BY <1>2 DEF Slots
<1> HIDE DEF slot
<1>4. /\ DOMAIN contexts' = DOMAIN contexts /\ contexts' \in [DOMAIN contexts' -> Slots]
      /\ \A i \in DOMAIN contexts : /\ contexts'[i].owner = contexts[i].owner
                                    /\ contexts'[i].resident = contexts[i].resident
  BY <1>1, <1>3 DEF EngineInv, EngineTypeOK
<1>5. Resident' = Resident
  BY <1>4 DEF Resident
<1>6. LeasesExclusive'
  BY <1>1, <1>4, <1>5 DEF EngineInv, LeasesExclusive, Resident
<1> QED
  BY <1>1, <1>4, <1>5, <1>6, EngineAssumption, SameContexts DEF EngineInv, EngineTypeOK

\* The context is freed after its state is in the file.
LEMMA SuspendStep ==
  ASSUME EngineInv, NEW a \in EngineAgents, NEW id \in ContextIds, Suspend(a, id)
  PROVE  EngineInv'
<1> DEFINE slot == [contexts[id] EXCEPT !.resident = FALSE, !.owner = NoLease]
<1>0. /\ id \in leases[a] /\ id \in Resident /\ id \in DOMAIN contexts /\ contexts[id] \in Slots
      /\ \A b \in EngineAgents : b # a => id \notin leases[b]
  BY LeaseIs DEF Suspend
<1>1. /\ contexts' = [contexts EXCEPT ![id] = slot]
      /\ snapshotFile' = [snapshotFile EXCEPT ![id] = "good"]
      /\ reservations' = [i \in DOMAIN reservations \ {id} |-> reservations[i]]
      /\ leases' = [leases EXCEPT ![a] = leases[a] \ {id}]
      /\ UNCHANGED <<modelLoaded, nextContextId, memory>>
  BY <1>0 DEF Suspend, ReleaseReservation, EngineInv, EngineTypeOK
<1>2. slot \in Slots
  BY <1>0 DEF Slots
<1>3. ~slot.resident
  BY <1>0 DEF Slots
<1> HIDE DEF slot
<1>4. /\ DOMAIN contexts' = DOMAIN contexts /\ contexts' \in [DOMAIN contexts' -> Slots]
      /\ contexts'[id] = slot /\ \A i \in DOMAIN contexts : i # id => contexts'[i] = contexts[i]
  BY <1>0, <1>1, <1>2 DEF EngineInv, EngineTypeOK
<1>5. Resident' = Resident \ {id}
  BY <1>0, <1>3, <1>4 DEF Resident
<1>6. EngineTypeOK'
  BY <1>1, <1>4 DEF EngineInv, EngineTypeOK
<1>7. /\ Cardinality(Resident') = Cardinality(Resident) - 1 /\ Cardinality(Resident) \in Nat
      /\ MaxContexts \in Nat /\ ContextBytes \in Nat /\ Width \in Nat
  BY <1>0, <1>5, ResidentFinite, EngineAssumption DEF EngineInv
<1>8. ContextsAccounted'
  <2>1. DOMAIN reservations' = Resident'
    BY <1>1, <1>5 DEF EngineInv, ContextsAccounted
  <2>2. \A i \in DOMAIN contexts' \ Resident' : snapshotFile'[i] = "good"
    BY <1>0, <1>1, <1>4, <1>5 DEF EngineInv, ContextsAccounted, EngineTypeOK
  <2>3. Cardinality(Resident') <= MaxContexts
    BY <1>7 DEF EngineInv, ContextsAccounted
  <2> QED
    BY <2>1, <2>2, <2>3 DEF ContextsAccounted
<1>9. LeasesExclusive'
  <2> SUFFICES ASSUME NEW b \in EngineAgents, NEW i \in leases'[b]
               PROVE  i \in Resident' /\ contexts'[i].owner = b
    BY DEF LeasesExclusive
  <2>1. i # id /\ i \in leases[b]
    BY <1>0, <1>1 DEF EngineInv, EngineTypeOK
  <2> QED
    BY <1>4, <1>5, <2>1 DEF EngineInv, LeasesExclusive, Resident
<1>10. \A i \in DOMAIN contexts' : i < nextContextId'
  BY <1>1, <1>4 DEF EngineInv
<1>11. \A i \in Resident' : reservations'[i] = ContextBytes
  BY <1>1, <1>5 DEF EngineInv, ContextsAccounted
<1>12. ContextBytes * Cardinality(Resident') < Width
  <2> DEFINE n == Cardinality(Resident)
             m == Cardinality(Resident')
  <2>1. ContextBytes * n < Width /\ n \in Nat /\ m = n - 1 /\ ContextBytes \in Nat /\ Width \in Nat
    BY <1>7 DEF EngineInv
  <2> HIDE DEF n, m
  <2>2. ContextBytes * (n - 1) = ContextBytes * n - ContextBytes
    BY <2>1
  <2>3. ContextBytes * m < Width
    BY <2>1, <2>2
  <2> QED
    BY <2>3 DEF m
<1> QED
  BY <1>6, <1>8, <1>9, <1>10, <1>11, <1>12 DEF EngineInv

\* A reservation more, of a context that becomes resident.
LEMMA ReservedStep ==
  ASSUME EngineInv, NEW id, id \notin Resident, Cardinality(Resident) < MaxContexts,
         Admits(id, ContextBytes), Reserve(id, ContextBytes),
         Resident' = Resident \cup {id}
  PROVE  /\ DOMAIN reservations' = Resident'
         /\ reservations' \in [DOMAIN reservations' -> 0 .. (Width - 1)]
         /\ \A i \in Resident' : reservations'[i] = ContextBytes
         /\ Cardinality(Resident') <= MaxContexts
         /\ ContextBytes * Cardinality(Resident') < Width
<1>1. reservations' = [i \in Resident' |-> IF i = id THEN ContextBytes ELSE reservations[i]]
  BY DEF Reserve, EngineInv, ContextsAccounted
<1>2. \A i \in Resident' : reservations'[i] = ContextBytes
  BY <1>1 DEF EngineInv
<1>3. ContextBytes \in 0 .. (Width - 1) /\ SafetyMargin \in Nat /\ Width \in Nat \ {0}
  BY EngineAssumption
<1>4. DOMAIN reservations' = Resident' /\ reservations' \in [DOMAIN reservations' -> 0 .. (Width - 1)]
  BY <1>1, <1>2, <1>3
<1> DEFINE n == Cardinality(Resident)
<1>5. Cardinality(Resident') = n + 1 /\ n \in Nat
  BY ResidentFinite DEF EngineInv
<1>6. Cardinality(Resident') <= MaxContexts
  BY <1>5, EngineAssumption
<1>7. ContextBytes * Cardinality(Resident') < Width
  <2>1. CASE ContextBytes > 0
    <3>1. ContextBytes * (n + 1) + SafetyMargin <= AvailableBytes(memory)
      BY <2>1, AdmissionFits
    <3>2. AvailableBytes(memory) \in 0 .. (Width - 1)
      BY AvailableType DEF EngineInv
    <3> HIDE DEF n
    <3> DEFINE bytes == ContextBytes * (n + 1)
    <3>3. bytes \in Nat /\ bytes + SafetyMargin <= AvailableBytes(memory)
      BY <1>3, <1>5, <3>1
    <3>4. bytes = ContextBytes * Cardinality(Resident')
      BY <1>5
    <3> HIDE DEF bytes
    <3>5. bytes < Width
      BY <1>3, <3>2, <3>3
    <3> QED
      BY <3>4, <3>5
  <2>2. CASE ContextBytes = 0
    <3> DEFINE k == Cardinality(Resident')
    <3>1. k \in Nat
      BY <1>5
    <3> HIDE DEF k
    <3>2. ContextBytes * k < Width
      BY <1>3, <2>2, <3>1
    <3> QED
      BY <3>2 DEF k
  <2> QED
    BY <1>3, <2>1, <2>2
<1> QED
  BY <1>2, <1>4, <1>6, <1>7

\* acquire of a context that is created keeps the invariant.
LEMMA AcquireNewStep ==
  ASSUME EngineInv, NEW a \in EngineAgents, AcquireNew(a)
  PROVE  EngineInv' /\ nextContextId \notin Resident /\ Resident' = Resident \cup {nextContextId}
<1> DEFINE id == nextContextId
           slot == [owner |-> a, resident |-> TRUE, cancel |-> FALSE]
<1>1. /\ Cardinality(Resident) < MaxContexts /\ id <= MaxIds
      /\ Admits(id, ContextBytes) /\ Reserve(id, ContextBytes)
      /\ contexts' = [i \in DOMAIN contexts \cup {id} |-> IF i = id THEN slot ELSE contexts[i]]
      /\ nextContextId' = id + 1
      /\ leases' = [leases EXCEPT ![a] = leases[a] \cup {id}]
      /\ UNCHANGED <<modelLoaded, snapshotFile, memory>>
  BY DEF AcquireNew
<1>2. id \in ContextIds /\ id \notin DOMAIN contexts /\ id \notin Resident /\ id \in Nat
  BY <1>1, EngineAssumption DEF EngineInv, EngineTypeOK, ContextIds, Resident
<1>3. slot \in Slots /\ slot.resident /\ slot.owner = a
  BY DEF Slots
<1> HIDE DEF slot, id
<1>4. /\ DOMAIN contexts' = DOMAIN contexts \cup {id} /\ contexts' \in [DOMAIN contexts' -> Slots]
      /\ contexts'[id] = slot /\ \A i \in DOMAIN contexts : contexts'[i] = contexts[i]
  BY <1>1, <1>2, <1>3 DEF EngineInv, EngineTypeOK
<1>5. Resident' = Resident \cup {id}
  BY <1>2, <1>3, <1>4 DEF Resident
<1>6. /\ DOMAIN reservations' = Resident'
      /\ reservations' \in [DOMAIN reservations' -> 0 .. (Width - 1)]
      /\ \A i \in Resident' : reservations'[i] = ContextBytes
      /\ Cardinality(Resident') <= MaxContexts
      /\ ContextBytes * Cardinality(Resident') < Width
  BY <1>1, <1>2, <1>5, ReservedStep
<1>7. EngineTypeOK'
  <2>1. nextContextId' \in 1 .. (MaxIds + 1) /\ DOMAIN contexts' \subseteq ContextIds
    BY <1>1, <1>2, <1>4, EngineAssumption DEF EngineInv, EngineTypeOK
  <2>2. leases' \in [EngineAgents -> SUBSET ContextIds]
    BY <1>1, <1>2 DEF EngineInv, EngineTypeOK
  <2> QED
    BY <1>1, <1>4, <1>6, <2>1, <2>2 DEF EngineInv, EngineTypeOK
<1>8. ContextsAccounted'
  BY <1>1, <1>4, <1>5, <1>6 DEF EngineInv, ContextsAccounted
<1>9. LeasesExclusive'
  <2> SUFFICES ASSUME NEW b \in EngineAgents, NEW i \in leases'[b]
               PROVE  i \in Resident' /\ contexts'[i].owner = b
    BY DEF LeasesExclusive
  <2>1. \A c \in EngineAgents : id \notin leases[c]
    BY <1>2 DEF EngineInv, LeasesExclusive
  <2>2. CASE i = id
    BY <1>1, <1>3, <1>4, <1>5, <2>1, <2>2 DEF EngineInv, EngineTypeOK
  <2>3. CASE i # id
    <3>1. i \in leases[b]
      BY <1>1, <2>3 DEF EngineInv, EngineTypeOK
    <3> QED
      BY <1>4, <1>5, <3>1 DEF EngineInv, LeasesExclusive, Resident
  <2> QED
    BY <2>2, <2>3
<1>10. \A i \in DOMAIN contexts' : i < nextContextId'
  <2>1. \A i \in DOMAIN contexts : i < id /\ i \in Nat
    BY EngineAssumption DEF EngineInv, EngineTypeOK, ContextIds, id
  <2> QED
    BY <1>1, <1>2, <1>4, <2>1
<1> QED
  BY <1>2, <1>5, <1>6, <1>7, <1>8, <1>9, <1>10 DEF EngineInv, id

\* ResumeContext keeps the invariant.
LEMMA ResumeContextStep ==
  ASSUME EngineInv, NEW id \in ContextIds, ResumeContext(id)
  PROVE  EngineInv' /\ id \notin Resident /\ Resident' = Resident \cup {id}
<1> DEFINE slot == [contexts[id] EXCEPT !.resident = TRUE, !.cancel = FALSE]
<1>1. /\ id \in DOMAIN contexts /\ id \notin Resident /\ Cardinality(Resident) < MaxContexts
      /\ Admits(id, ContextBytes) /\ Reserve(id, ContextBytes)
      /\ UNCHANGED <<modelLoaded, nextContextId, snapshotFile, leases, memory>>
  BY DEF ResumeContext
<1>2. contexts[id] \in Slots
  BY <1>1 DEF EngineInv, EngineTypeOK
<1>3. contexts' = [contexts EXCEPT ![id] = slot]
  BY <1>1, <1>2 DEF ResumeContext, EngineInv, EngineTypeOK
<1>4. slot \in Slots
  BY <1>2 DEF Slots
<1>5. slot.resident
  BY <1>2 DEF Slots
<1> HIDE DEF slot
<1>6. /\ DOMAIN contexts' = DOMAIN contexts /\ contexts' \in [DOMAIN contexts' -> Slots]
      /\ contexts'[id] = slot /\ \A i \in DOMAIN contexts : i # id => contexts'[i] = contexts[i]
  BY <1>1, <1>3, <1>4 DEF EngineInv, EngineTypeOK
<1>7. Resident' = Resident \cup {id}
  BY <1>1, <1>5, <1>6 DEF Resident
<1>8. /\ DOMAIN reservations' = Resident'
      /\ reservations' \in [DOMAIN reservations' -> 0 .. (Width - 1)]
      /\ \A i \in Resident' : reservations'[i] = ContextBytes
      /\ Cardinality(Resident') <= MaxContexts
      /\ ContextBytes * Cardinality(Resident') < Width
  BY <1>1, <1>7, ReservedStep
<1>9. EngineTypeOK'
  BY <1>1, <1>6, <1>8 DEF EngineInv, EngineTypeOK
<1>10. ContextsAccounted'
  BY <1>1, <1>6, <1>7, <1>8 DEF EngineInv, ContextsAccounted
<1>11. LeasesExclusive'
  BY <1>1, <1>6, <1>7 DEF EngineInv, LeasesExclusive, Resident
<1> QED
  BY <1>1, <1>6, <1>7, <1>8, <1>9, <1>10, <1>11 DEF EngineInv

-----------------------------------------------------------------------------
(* ModelEngine: the invariant, and what is never promised *)

\* Every step of the engine keeps the invariant.
LEMMA EngineStep ==
  ASSUME EngineInv, [EngineNext]_engineVars
  PROVE  EngineInv'
<1>1. CASE UNCHANGED engineVars
  <2>1. UNCHANGED <<modelLoaded, contexts, nextContextId, reservations, snapshotFile, leases, memory>>
    BY <1>1 DEF engineVars
  <2>2. Resident' = Resident
    BY <2>1 DEF Resident
  <2>3. LeasesExclusive'
    BY <2>1, <2>2 DEF EngineInv, LeasesExclusive
  <2>4. nextContextId' >= nextContextId
    BY <2>1, EngineAssumption DEF EngineInv, EngineTypeOK
  <2> QED
    BY <2>1, <2>2, <2>3, <2>4, SameContexts DEF EngineInv, EngineTypeOK
<1>2. CASE Initialize \/ AcquireFails \/ \E m \in MemorySamples : MemoryChanges(m)
  BY <1>2, NothingLeasedStep
<1>3. CASE \E a \in EngineAgents, id \in ContextIds : AcquireIdle(a, id)
  BY <1>3, AcquireIdleStep
<1>4. CASE \E a \in EngineAgents : AcquireNew(a)
  BY <1>4, AcquireNewStep
<1>5. CASE \E a \in EngineAgents, id \in ContextIds : Release(a, id)
  BY <1>5, ReleaseStep
<1>6. CASE \E a \in EngineAgents, id \in ContextIds : Suspend(a, id)
  BY <1>6, SuspendStep
<1>7. CASE \E a \in EngineAgents, id \in ContextIds : SuspendFails(a, id)
  BY <1>7, SuspendFailsStep
<1>8. CASE \E id \in ContextIds : ResumeContext(id)
  BY <1>8, ResumeContextStep
<1>9. CASE \E id \in ContextIds : RequestCancel(id)
  BY <1>9, RequestCancelStep
<1> QED
  BY <1>1, <1>2, <1>3, <1>4, <1>5, <1>6, <1>7, <1>8, <1>9 DEF EngineNext

\* The tables of the engine start empty and stay within the invariant that
\* reserve and release keep: one reservation of ContextBytes for each resident
\* context, and a sum of them that the unsigned counter can hold.
THEOREM EngineInvariant == EngineSpec => []EngineInv
<1>1. EngineInit => EngineInv
  <2> SUFFICES ASSUME EngineInit
               PROVE  EngineInv
    OBVIOUS
  <2>1. DOMAIN contexts = {} /\ DOMAIN reservations = {}
    BY DEF EngineInit
  <2>2. Resident = {}
    BY <2>1 DEF Resident
  <2>3. Cardinality(Resident) = 0
    BY <2>2, FS_EmptySet
  <2>4. EngineTypeOK
    <3>1. ASSUME NEW S
          PROVE  <<>> \in [{} -> S]
      <4>1. <<>> \in Seq(S) /\ Len(<<>>) = 0 /\ 1 .. 0 = {}
        OBVIOUS
      <4>2. <<>> \in [1 .. Len(<<>>) -> S]
        BY <4>1
      <4> QED
        BY <4>1, <4>2
    <3>2. contexts \in [DOMAIN contexts -> Slots] /\ reservations \in [DOMAIN reservations -> 0 .. (Width - 1)]
      BY <2>1, <3>1, Zenon DEF EngineInit
    <3>3. nextContextId \in 1 .. (MaxIds + 1)
      BY EngineAssumption DEF EngineInit
    <3> QED
      BY <2>1, <3>2, <3>3 DEF EngineInit, EngineTypeOK
  <2>5. ContextsAccounted
    BY <2>1, <2>2, <2>3, EngineAssumption DEF ContextsAccounted
  <2>6. LeasesExclusive
    BY DEF EngineInit, LeasesExclusive
  <2>7. ContextBytes * Cardinality(Resident) < Width
    BY <2>3, EngineAssumption
  <2> QED
    BY <2>1, <2>2, <2>4, <2>5, <2>6, <2>7 DEF EngineInv
<1>2. EngineInv /\ [EngineNext]_engineVars => EngineInv'
  BY EngineStep
<1> QED
  BY <1>1, <1>2, PTL DEF EngineSpec

\* Slots, ids, reservations, files and leases keep their types in every method.
THEOREM EngineTypes == EngineSpec => []EngineTypeOK
<1>1. EngineInv => EngineTypeOK
  BY DEF EngineInv
<1> QED
  BY <1>1, EngineInvariant, PTL

\* A step that adds a reservation is one that try_reserve has admitted.
LEMMA AdmittedStep ==
  ASSUME EngineInv, [EngineNext]_engineVars, ContextBytes > 0,
         DOMAIN reservations' \ DOMAIN reservations # {}
  PROVE  ContextBytes * Cardinality(DOMAIN reservations') + SafetyMargin <= AvailableBytes(memory)
<1>1. \/ \E a \in EngineAgents : AcquireNew(a)
      \/ \E id \in ContextIds : ResumeContext(id)
  <2>1. DOMAIN reservations' \subseteq DOMAIN reservations => FALSE
    OBVIOUS
  <2>2. ASSUME NEW a \in EngineAgents, NEW id \in ContextIds, Suspend(a, id)
        PROVE  DOMAIN reservations' \subseteq DOMAIN reservations
    BY <2>2 DEF Suspend, ReleaseReservation
  <2>3. CASE \/ Initialize \/ AcquireFails \/ \E m \in MemorySamples : MemoryChanges(m)
             \/ \E a \in EngineAgents, id \in ContextIds :
                  AcquireIdle(a, id) \/ Release(a, id) \/ SuspendFails(a, id)
             \/ \E id \in ContextIds : RequestCancel(id)
             \/ UNCHANGED engineVars
    <3>1. reservations' = reservations
      BY <2>3 DEF Initialize, AcquireFails, MemoryChanges, AcquireIdle, Release, SuspendFails,
                  RequestCancel, engineVars
    <3> QED
      BY <2>1, <3>1
  <2> QED
    BY <2>1, <2>2, <2>3 DEF EngineNext
<1>2. PICK id : /\ id \notin Resident /\ Resident' = Resident \cup {id}
                /\ Admits(id, ContextBytes) /\ EngineInv'
  <2>1. CASE \E a \in EngineAgents : AcquireNew(a)
    <3>1. PICK a \in EngineAgents : AcquireNew(a)
      BY <2>1
    <3>2. /\ nextContextId \notin Resident /\ Resident' = Resident \cup {nextContextId}
          /\ EngineInv'
      BY <3>1, AcquireNewStep
    <3>3. Admits(nextContextId, ContextBytes)
      BY <3>1 DEF AcquireNew
    <3> QED
      BY <3>2, <3>3
  <2>2. CASE \E id \in ContextIds : ResumeContext(id)
    <3>1. PICK id \in ContextIds : ResumeContext(id)
      BY <2>2
    <3>2. id \notin Resident /\ Resident' = Resident \cup {id} /\ EngineInv'
      BY <3>1, ResumeContextStep
    <3>3. Admits(id, ContextBytes)
      BY <3>1 DEF ResumeContext
    <3> QED
      BY <3>2, <3>3
  <2> QED
    BY <1>1, <2>1, <2>2
<1>3. ContextBytes * (Cardinality(Resident) + 1) + SafetyMargin <= AvailableBytes(memory)
  BY <1>2, AdmissionFits
<1>4. Cardinality(Resident') = Cardinality(Resident) + 1
  BY <1>2, ResidentFinite DEF EngineInv
<1>5. DOMAIN reservations' = Resident'
  BY <1>2 DEF EngineInv, ContextsAccounted
<1> QED
  BY <1>3, <1>4, <1>5

\* For every number of agents, contexts and bytes, whatever fails: resident
\* contexts and reservations are the same set, suspended ones have a complete
\* snapshot, a lease is exclusive, and try_reserve's unsigned arithmetic never
\* admits a context that does not fit above the margin.
THEOREM EngineKeptConsistent == EngineSpec => EngineConsistent
<1>1. EngineInv => ContextsAccounted /\ LeasesExclusive
  BY DEF EngineInv
<1>2. EngineInv /\ [EngineNext]_engineVars =>
        [ContextBytes > 0 /\ DOMAIN reservations' \ DOMAIN reservations # {} =>
           ContextBytes * Cardinality(DOMAIN reservations') + SafetyMargin
             <= AvailableBytes(memory)]_engineVars
  BY AdmittedStep
<1> QED
  BY <1>1, <1>2, EngineInvariant, PTL DEF EngineSpec, EngineConsistent, AdmittedFits

-----------------------------------------------------------------------------
(* MCComponents *)

\* A behaviour that drives one component is one of every component.
LEMMA DrivenSteps ==
  [Next]_vars =>
    /\ [KVNext]_kvVars /\ [QueueNext]_queueVars /\ [EngineNext]_engineVars
    /\ [LlamaNext]_llamaVars /\ [ExecutorNext]_executorVars /\ [ControlNext]_controlVars
<1> SUFFICES ASSUME [Next]_vars
             PROVE  /\ [KVNext]_kvVars /\ [QueueNext]_queueVars /\ [EngineNext]_engineVars
                    /\ [LlamaNext]_llamaVars /\ [ExecutorNext]_executorVars /\ [ControlNext]_controlVars
  OBVIOUS
<1>1. CASE Next
  BY <1>1, Zenon DEF Next
<1>2. CASE UNCHANGED vars
  BY <1>2, Zenon DEF vars
<1> QED
  BY <1>1, <1>2, Zenon

\* Every variable of every component keeps its type, in whichever order the
\* steps of a behaviour come.
THEOREM ComponentsTypes == Spec => []ComponentsTypeOK
<1>1. Init => KVInit /\ QueueInit /\ EngineInit /\ LlamaInit /\ ExecutorInit /\ ControlInit
  BY Zenon DEF Init
<1>2. ExecutorInv => ExecutorTypeOK
  BY Zenon DEF ExecutorInv
<1>3. SocketInv => ControlTypeOK
  BY Zenon DEF SocketInv
<1>4. KVTypeOK /\ QueueTypeOK /\ EngineTypeOK /\ LlamaTypeOK /\ ExecutorTypeOK /\ ControlTypeOK => ComponentsTypeOK
  BY Zenon DEF ComponentsTypeOK
<1> QED
  BY <1>1, <1>2, <1>3, <1>4, DrivenSteps, KVTypes, QueueTypes, EngineTypes, LlamaTypes, ExecutorSafety, SocketSafety, PTL
     DEF Spec, KVSpec, QueueSpec, EngineSpec, LlamaSpec
=============================================================================
