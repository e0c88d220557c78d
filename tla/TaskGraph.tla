------------------------------ MODULE TaskGraph ------------------------------
(***************************************************************************)
(* What agent-runtime (its README.md) promises of a graph of tasks:        *)
(* a task is given to one worker at a time, only after everything it needs *)
(* has completed; it is tried again as often as it allows; when it fails   *)
(* or is cancelled, the live tasks that need it, and no others, are        *)
(* cancelled with it.  There is no ready set, no counter of dependencies,  *)
(* no reservation and no clock.                                            *)
(***************************************************************************)
EXTENDS Integers

CONSTANTS
  Agents,     \* the tasks
  RetryLimit  \* RetryLimit[a]: how often a may be tried again

VARIABLES
  stage,    \* where each task is
  needs,    \* the tasks it depends on
  retries,  \* how often it was tried again
  held      \* the tasks that a worker holds

graph == <<stage, needs, retries, held>>

Known == {a \in Agents : stage[a] # "absent"}
Unfinished == {a \in Agents : stage[a] \in {"pending", "started"}}

\* Of any tasks one needs none of the others, so that none waits for itself.
Acyclic ==
  \A S \in SUBSET Known : S # {} => \E a \in S : needs[a] \cap S = {}

TaskInit ==
  /\ stage = [a \in Agents |-> "absent"]
  /\ needs = [a \in Agents |-> {}]
  /\ retries = [a \in Agents |-> 0]
  /\ held = {}

\* Tasks are added together, with what they need.
Add(batch) ==
  /\ batch # {} /\ batch \cap Known = {}
  /\ stage' = [a \in Agents |-> IF a \in batch THEN "pending" ELSE stage[a]]
  /\ needs' \in [Agents -> SUBSET (Known \cup batch)]
  /\ \A a \in Agents \ batch : needs'[a] = needs[a]
  /\ Acyclic'
  /\ UNCHANGED <<retries, held>>

Start(a) ==
  /\ stage[a] = "pending" /\ a \notin held
  /\ \A d \in needs[a] : stage[d] = "completed"
  /\ stage' = [stage EXCEPT ![a] = "started"]
  /\ held' = held \cup {a}
  /\ UNCHANGED <<needs, retries>>

\* The worker returns the task.
Return(a) ==
  /\ a \in held
  /\ held' = held \ {a}
  /\ UNCHANGED needs

Succeed(a) ==
  /\ stage[a] = "started"
  /\ stage' = [stage EXCEPT ![a] = "completed"]
  /\ UNCHANGED retries
  /\ Return(a)

\* A task that was cancelled while a worker held it may be tried again.
TryAgain(a) ==
  /\ stage[a] \in {"started", "cancelled"}
  /\ retries[a] < RetryLimit[a]
  /\ stage' = [stage EXCEPT ![a] = "pending"]
  /\ retries' = [retries EXCEPT ![a] = @ + 1]
  /\ Return(a)

\* a ends so, and the unfinished tasks that need it, directly or not, are
\* cancelled: no other one needs a task of these, and each of these needs one.
End(a, outcome) ==
  \E S \in SUBSET (Unfinished \ {a}) :
    /\ \A b \in Unfinished \ {a} : b \in S <=> needs[b] \cap ({a} \cup S) # {}
    /\ stage' = [b \in Agents |-> IF b = a THEN outcome
                                  ELSE IF b \in S THEN "cancelled" ELSE stage[b]]

GiveUp(a) ==
  /\ stage[a] = "started"
  /\ retries[a] = RetryLimit[a]
  /\ End(a, "failed")
  /\ UNCHANGED retries
  /\ Return(a)

Stop(a) ==
  /\ a \in Unfinished
  /\ End(a, "cancelled")
  /\ UNCHANGED <<needs, retries, held>>

\* What is returned of a task that was cancelled meanwhile is ignored.
Ignore(a) ==
  /\ stage[a] = "cancelled"
  /\ UNCHANGED <<stage, retries>>
  /\ Return(a)

TaskNext ==
  \/ \E batch \in SUBSET Agents : Add(batch)
  \/ \E a \in Agents :
       Start(a) \/ Succeed(a) \/ TryAgain(a) \/ GiveUp(a) \/ Stop(a) \/ Ignore(a)

TaskSpec == TaskInit /\ [][TaskNext]_graph
=============================================================================
