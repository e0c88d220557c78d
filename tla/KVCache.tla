------------------------------ MODULE KVCache ------------------------------
(***************************************************************************)
(* The block pool of agent_runtime_top/src/kv_cache.c.  Every call holds    *)
(* g_kv_cache.lock from its first access to the pool to its return, so each *)
(* call is one action.  A handle is a struct kv_range variable of a caller; *)
(* callers pass a range only while they hold it, free or unshare it once,   *)
(* and share what they own (kv_cache.h: src is the owner).  Times, block    *)
(* priorities and the statistics are left out: no decision reads them.      *)
(***************************************************************************)
EXTENDS Naturals, FiniteSets

CONSTANTS
  KVAgents,       \* agents that call the cache
  NoOwner,        \* AGENT_ID_INVALID
  BlockCount,     \* config.max_blocks
  BlockSize,      \* config.block_size
  Sizes,          \* byte counts passed to kv_allocate
  Handles,        \* kv_range variables of the callers
  NoRange,        \* the value of a handle that holds nothing
  Contents,       \* what a block may be filled with; 0 is what memset leaves
  Modulus         \* 2^w for the unsigned counter used_size

ASSUME KVAssumption ==
  /\ BlockCount \in Nat \ {0}
  /\ BlockSize \in Nat \ {0}
  /\ Modulus \in Nat \ {0}
  /\ Sizes \subseteq Nat
  /\ 0 \in Contents
  /\ NoOwner \notin KVAgents
  /\ IsFiniteSet(Handles)
  /\ NoRange \notin [agent : KVAgents, start : 1 .. BlockCount, count : 1 .. BlockCount]

VARIABLES
  kvReady,        \* g_kv_cache.initialized
  blocks,         \* g_kv_cache.blocks
  usedSize,       \* g_kv_cache.used_size, in blocks
  ranges          \* what each handle holds

kvVars == <<kvReady, blocks, usedSize, ranges>>

BlockIds == 1 .. BlockCount
BlockStates == {"FREE", "ALLOCATED", "SHARED", "COMPRESSED"}
FreeBlock == [state |-> "FREE", ref |-> 0, owner |-> NoOwner, data |-> 0]

Ranges == [agent : KVAgents, start : BlockIds, count : BlockIds]
Span(r) == r.start .. (r.start + r.count - 1)

Held == {h \in Handles : ranges[h] # NoRange}
HoldersOf(b) == {h \in Held : b \in Span(ranges[h])}

KVTypeOK ==
  /\ kvReady \in BOOLEAN
  /\ blocks \in [BlockIds -> [state : BlockStates, ref : Nat,
                              owner : KVAgents \cup {NoOwner}, data : Contents]]
  /\ usedSize \in 0 .. (Modulus - 1)
  /\ ranges \in [Handles -> Ranges \cup {NoRange}]
  /\ \A h \in Held : Span(ranges[h]) \subseteq BlockIds

-----------------------------------------------------------------------------
\* The mutant looks at the first block of the run only.
FreeRunsFirstOnly(n) == {s \in BlockIds : s + n - 1 <= BlockCount /\ blocks[s].state = "FREE"}

\* The starts at which n consecutive blocks are free, and the first of them.
FreeRuns(n) == {s \in BlockIds : /\ s + n - 1 <= BlockCount
                                 /\ \A b \in s .. (s + n - 1) : blocks[b].state = "FREE"}
FirstFit(n) == CHOOSE s \in FreeRuns(n) : \A t \in FreeRuns(n) : s <= t

\* The number of blocks for a size, rounded up, at least one.
BlocksNeeded(size) ==
  LET n == (size + BlockSize - 1) \div BlockSize IN IF n = 0 THEN 1 ELSE n

\* The mutant frees the block whoever else refers to it.
ReleasedAtOnce(block) ==
  IF block.state = "FREE" THEN block
  ELSE [block EXCEPT !.ref = @ - 1, !.state = "FREE", !.owner = NoOwner]

\* One reference less; the last one frees the block.
Released(block) ==
  IF block.state = "FREE" THEN block
  ELSE IF block.ref = 1 THEN [block EXCEPT !.ref = 0, !.state = "FREE", !.owner = NoOwner]
  ELSE [block EXCEPT !.ref = @ - 1]

\* One reference less, as kv_unshare does it: the block is never freed.
Unshared(block) ==
  IF block.ref = 0 THEN block
  ELSE IF block.ref = 2 THEN [block EXCEPT !.ref = 1, !.state = "ALLOCATED"]
  ELSE [block EXCEPT !.ref = @ - 1]

\* The pool after f has been applied to the blocks of a range.
Apply(f(_), r) == [b \in BlockIds |-> IF b \in Span(r) THEN f(blocks[b]) ELSE blocks[b]]

-----------------------------------------------------------------------------
KVInit ==
  /\ kvReady = FALSE
  /\ blocks = [b \in BlockIds |-> FreeBlock]
  /\ usedSize = 0
  /\ ranges = [h \in Handles |-> NoRange]

KVCacheInit ==
  /\ ~kvReady
  /\ kvReady' = TRUE
  /\ blocks' = [b \in BlockIds |-> FreeBlock]
  /\ usedSize' = 0
  /\ UNCHANGED ranges

\* Callers give their ranges up with the cache.
KVCacheDestroy ==
  /\ kvReady
  /\ kvReady' = FALSE
  /\ blocks' = [b \in BlockIds |-> FreeBlock]
  /\ usedSize' = 0
  /\ ranges' = [h \in Handles |-> NoRange]

KVAllocate(a, size, h) ==
  LET n == BlocksNeeded(size)
      r == [agent |-> a, start |-> FirstFit(n), count |-> n]
      Fresh(block) == [state |-> "ALLOCATED", ref |-> 1, owner |-> a, data |-> 0]
  IN  /\ kvReady
      /\ ranges[h] = NoRange
      /\ FreeRuns(n) # {}
      /\ blocks' = Apply(Fresh, r)
      /\ usedSize' = (usedSize + n) % Modulus
      /\ ranges' = [ranges EXCEPT ![h] = r]
      /\ UNCHANGED kvReady

\* The whole range is taken off used_size, whatever stays referenced.
KVFree(h) ==
  /\ kvReady
  /\ h \in Held
  /\ blocks' = Apply(Released, ranges[h])
  /\ usedSize' = (usedSize + Modulus - (ranges[h].count % Modulus)) % Modulus
  /\ ranges' = [ranges EXCEPT ![h] = NoRange]
  /\ UNCHANGED kvReady

KVWrite(h, value) ==
  LET Filled(block) == IF block.state = "FREE" THEN block ELSE [block EXCEPT !.data = value]
  IN  /\ kvReady
      /\ h \in Held
      /\ blocks' = Apply(Filled, ranges[h])
      /\ UNCHANGED <<kvReady, usedSize, ranges>>

\* What kv_read copies out for a handle: the blocks of its range that are not free.
KVRead(h) == [b \in {c \in Span(ranges[h]) : blocks[c].state # "FREE"} |-> blocks[b].data]

\* h is a range of its owner; dst goes on with a range of its own, g.
KVShare(h, dst, g) ==
  LET src == ranges[h].agent
      Sharing(block) == IF block.owner = src
                        THEN [block EXCEPT !.state = "SHARED", !.ref = @ + 1] ELSE block
  IN  /\ kvReady
      /\ h \in Held
      /\ ranges[g] = NoRange
      /\ \A b \in Span(ranges[h]) : blocks[b].owner = src
      /\ blocks' = Apply(Sharing, ranges[h])
      /\ ranges' = [ranges EXCEPT ![g] = [ranges[h] EXCEPT !.agent = dst]]
      /\ UNCHANGED <<kvReady, usedSize>>

KVUnshare(h) ==
  /\ kvReady
  /\ h \in Held
  /\ \E b \in Span(ranges[h]) : blocks[b].owner # ranges[h].agent
  /\ blocks' = Apply(Unshared, ranges[h])
  /\ ranges' = [ranges EXCEPT ![h] = NoRange]
  /\ UNCHANGED <<kvReady, usedSize>>

\* ratio < 1 leaves n blocks of h, sampled at equal distances; used_size is not touched.
KVCompress(h, n, g) ==
  LET r == [agent |-> ranges[h].agent, start |-> FirstFit(n), count |-> n]
      Source(b) == blocks[ranges[h].start + ((b - r.start) * ranges[h].count) \div n]
  IN  /\ kvReady
      /\ h \in Held
      /\ ranges[g] = NoRange
      /\ n \in 1 .. ranges[h].count
      /\ n < ranges[h].count \/ n = 1
      /\ FreeRuns(n) # {}
      /\ blocks' = [b \in BlockIds |->
                      IF b \in Span(r)
                      THEN [state |-> "COMPRESSED", ref |-> 1,
                            owner |-> Source(b).owner, data |-> Source(b).data]
                      ELSE blocks[b]]
      /\ ranges' = [ranges EXCEPT ![g] = r]
      /\ UNCHANGED <<kvReady, usedSize>>

\* The output range is the compressed one, under the same handle.
KVDecompress(h) ==
  LET Plain(block) == [block EXCEPT !.state = "ALLOCATED"]
  IN  /\ kvReady
      /\ h \in Held
      /\ blocks' = Apply(Plain, ranges[h])
      /\ UNCHANGED <<kvReady, usedSize, ranges>>

\* The first block of the agent with the prefix gets one more reference.
KVReusePrefix(a, value, g) ==
  LET matches == {b \in BlockIds : /\ blocks[b].state # "FREE"
                                   /\ blocks[b].owner = a
                                   /\ blocks[b].data = value}
      first == CHOOSE b \in matches : \A c \in matches : b <= c
  IN  /\ kvReady
      /\ ranges[g] = NoRange
      /\ matches # {}
      /\ blocks' = [blocks EXCEPT ![first].ref = @ + 1]
      /\ ranges' = [ranges EXCEPT ![g] = [agent |-> a, start |-> first, count |-> 1]]
      /\ UNCHANGED <<kvReady, usedSize>>

KVNext ==
  \/ KVCacheInit
  \/ KVCacheDestroy
  \/ \E a \in KVAgents, size \in Sizes, h \in Handles : KVAllocate(a, size, h)
  \/ \E h \in Handles : KVFree(h)
  \/ \E h \in Handles, value \in Contents : KVWrite(h, value)
  \/ \E h, g \in Handles, dst \in KVAgents : KVShare(h, dst, g)
  \/ \E h \in Handles : KVUnshare(h)
  \/ \E h, g \in Handles, n \in BlockIds : KVCompress(h, n, g)
  \/ \E h \in Handles : KVDecompress(h)
  \/ \E a \in KVAgents, value \in Contents, g \in Handles : KVReusePrefix(a, value, g)

KVSpec == KVInit /\ [][KVNext]_kvVars

-----------------------------------------------------------------------------
\* The reference count of a block is the number of ranges that still hold it,
\* and a block that is held is not free: no order of sharing, reuse,
\* compression, unsharing and freeing lets kv_allocate hand out a block that
\* somebody still uses.
HeldBlocksCounted ==
  \A b \in BlockIds : /\ blocks[b].ref = Cardinality(HoldersOf(b))
                      /\ HoldersOf(b) # {} => blocks[b].state # "FREE"

\* The inductive invariant: nobody holds a range of a cache that is not there.
KVInv == KVTypeOK /\ HeldBlocksCounted /\ (~kvReady => Held = {})

\* What a range reads, when nobody else holds its blocks, changes only by a
\* write through it: allocation, compression and the calls of other agents
\* leave it alone.
ExclusiveDataKept ==
  [][\A h \in Held :
        /\ \A b \in Span(ranges[h]) : HoldersOf(b) = {h}
        /\ ranges'[h] = ranges[h]
        /\ ~ \E value \in Contents : KVWrite(h, value)
        => KVRead(h)' = KVRead(h)]_kvVars
=============================================================================
