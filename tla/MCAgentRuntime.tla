--------------------------- MODULE MCAgentRuntime ---------------------------
(* Instances of AgentRuntime for TLC. *)
EXTENDS AgentRuntime, TLC

CONSTANTS a1, a2, w1, w2

Lists == {<<>>, <<a1>>}
SamePriority == [a \in Agents |-> 0]
OneRetry == [a \in Agents |-> IF a = a1 THEN 1 ELSE 0]
NoRetry == [a \in Agents |-> 0]
OneResource == {"cpu"}
OneUnit == [a \in Agents |-> [r \in Resources |-> 1]]
TwoFit == {[r \in Resources |-> 2]}
Commands == [a \in Agents |-> "command"]
Mixed == [a \in Agents |-> IF a = a1 THEN "command" ELSE "invocation"]
WithHandler == [a \in Agents |-> IF a = a1 THEN "command" ELSE "handler"]
WorkerSymmetry == Permutations(Workers)
=============================================================================
