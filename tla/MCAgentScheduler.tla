-------------------------- MODULE MCAgentScheduler --------------------------
(* Instances of AgentScheduler for TLC. *)
EXTENDS AgentScheduler

CONSTANTS a1, a2, a3

(* Dependency lists: none, one, and two of which one is listed twice. *)
ShortLists == {<<>>, <<a1>>, <<a2>>, <<a1, a1, a2>>}

(* a2 is more urgent by one level; a1 and a3 may be retried once. *)
MCPriority == [a \in Agents |-> IF a = a2 THEN 1 ELSE 0]
MCRetryLimit == [a \in Agents |-> IF a = a2 THEN 0 ELSE 1]
MCResources == {"cpu", "memory"}

(* Two agents fit together on the larger sample, none of a2 and a3 fits    *)
(* next to the other on the smaller.                                       *)
MCRequest == [a \in Agents |-> [r \in Resources |->
                IF r = "cpu" THEN 1 ELSE IF a = a1 THEN 0 ELSE 2]]
MCSamples == {[r \in Resources |-> IF r = "cpu" THEN 2 ELSE m] : m \in {2, 3}}
=============================================================================
