--------------------------- MODULE SharedResults ---------------------------
(***************************************************************************)
(* Shared memory and the result store of shared_memory.cpp.  A region is an *)
(* anonymous file of which several parties hold descriptors; it goes away   *)
(* with the last one.  A hold is a role, the call it is played in and the   *)
(* region: "server" and "client" may have the region mapped for writing,    *)
(* "wire" is a packet in flight, "dup" a duplicate given out by acquire,    *)
(* "view" a read-only mapping and "store" an entry of the result store.     *)
(***************************************************************************)
EXTENDS Naturals

CONSTANTS
  Regions,        \* identities of regions: every call makes at most one
  Producers,      \* agents
  NoRegion

ASSUME RegionAssumption == NoRegion \notin Regions

VARIABLES
  held,           \* the holds
  writable,       \* those with a writable mapping
  sealed,         \* regions with F_SEAL_WRITE
  store           \* results_: the region of each agent's result

memoryVars == <<held, writable, sealed>>
sharedVars == <<held, writable, sealed, store>>

Roles == {"server", "client", "wire", "dup", "view", "store"}

SharedTypeOK ==
  /\ held \subseteq Roles \X Regions \X Regions
  /\ writable \subseteq held
  /\ sealed \subseteq Regions
  /\ store \in [Producers -> Regions \cup {NoRegion}]

SharedInit ==
  /\ held = {}
  /\ writable = {}
  /\ sealed = {}
  /\ store = [a \in Producers |-> NoRegion]

Holds(roles, k) == roles \X {k} \X Regions
HeldAs(role, k) == {r \in Regions : <<role, k, r>> \in held}
As(role, k, rs) == {role} \X {k} \X rs

-----------------------------------------------------------------------------
\* The holds hs go, with their descriptors and mappings (reset, the destructors,
\* close), and the descriptors new come.
Exchange(hs, new) ==
  /\ held' = (held \ hs) \cup new
  /\ writable' = writable \ hs
  /\ UNCHANGED sealed

\* The same, with writable mappings of the new ones: create, map_existing.
ExchangeWritable(hs, new) ==
  /\ held' = (held \ hs) \cup new
  /\ writable' = (writable \ hs) \cup new
  /\ UNCHANGED sealed

\* release_descriptor: the mapping goes, the descriptor stays.
Unmap(hs) == writable' = writable \ hs /\ UNCHANGED <<held, sealed>>

\* fcntl(F_ADD_SEALS, F_SEAL_WRITE...) is refused while another can write.
Sealable(r, k) ==
  /\ r \notin sealed
  /\ \A h \in writable : h[3] = r => h = <<"client", k, r>>

\* The entry of an agent in the result store.
Entry(a) == Holds({"store"}, store[a])

\* AgentResultStore::publish by the client of call k: unmap, seal, insert; the
\* holds hs go when the caller returns.
PublishRegion(a, r, k, hs) ==
  /\ Sealable(r, k)
  /\ held' = (held \ (hs \cup Entry(a) \cup Holds({"client"}, k))) \cup As("store", r, {r})
  /\ writable' = writable \ Holds({"client"}, k)
  /\ sealed' = sealed \cup {r}
  /\ store' = [store EXCEPT ![a] = r]

\* erase, and acquire for the results of some agents on behalf of call k.
EraseAndAcquire(a, from, k) ==
  /\ Exchange(Entry(a), As("dup", k, {store[d] : d \in from}))
  /\ store' = [store EXCEPT ![a] = NoRegion]

\* release_result
EraseResult(a) ==
  /\ store[a] # NoRegion
  /\ Exchange(Entry(a), {})
  /\ store' = [store EXCEPT ![a] = NoRegion]
=============================================================================
