----------------------------- MODULE RemoteCall -----------------------------
(***************************************************************************)
(* What InvocationClient::invoke and InvocationServer promise together.  A  *)
(* call is one attempt; nothing in the channel repeats it.  The handler may *)
(* still run after the caller has been told of a failure.                   *)
(***************************************************************************)
CONSTANTS
  Attempts,       \* calls of invoke
  Nothing,        \* not asked, not executed
  Untold,         \* the call has not returned
  Failure         \* the call returned false

VARIABLES
  asked,          \* what each call asks
  executed,       \* what the handler was given, and what it answered
  answered        \* what the caller was told

callVars == <<asked, executed, answered>>

\* Only the entry of one call changes.
OnlyAt(f, g, k) == g = [f EXCEPT ![k] = g[k]]

Ask(k) ==
  /\ asked[k] = Nothing
  /\ OnlyAt(asked, asked', k)
  /\ UNCHANGED <<executed, answered>>

\* At most once for a call, and with what was asked.
Execute(k) ==
  /\ asked[k] # Nothing
  /\ executed[k] = Nothing
  /\ OnlyAt(executed, executed', k)
  /\ executed'[k] # Nothing
  /\ executed'[k].request = asked[k]
  /\ UNCHANGED <<asked, answered>>

\* A caller that is told an answer is told the one the handler gave to it.
Answer(k) ==
  /\ answered[k] = Untold
  /\ executed[k] # Nothing
  /\ answered' = [answered EXCEPT ![k] = executed[k].reply]
  /\ UNCHANGED <<asked, executed>>

Refuse(k) ==
  /\ answered[k] = Untold
  /\ asked[k] # Nothing
  /\ answered' = [answered EXCEPT ![k] = Failure]
  /\ UNCHANGED <<asked, executed>>

CallInit ==
  /\ asked = [k \in Attempts |-> Nothing]
  /\ executed = [k \in Attempts |-> Nothing]
  /\ answered = [k \in Attempts |-> Untold]

CallNext == \E k \in Attempts : Ask(k) \/ Execute(k) \/ Answer(k) \/ Refuse(k)

CallSpec == CallInit /\ [][CallNext]_callVars
=============================================================================
