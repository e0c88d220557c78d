---------------------------- MODULE MCComponents ----------------------------
(* Instances of the components that do not call each other, for TLC.  A     *)
(* behaviour drives one of them from its first state; the others stay in    *)
(* theirs.  The control plane is driven in two ways: "daemon" is one agentd *)
(* with three calls, the third after the first two; "socket" is two agentd  *)
(* on one path with one call.                                               *)
EXTENDS KVCache, ReadyQueue, ModelEngine, LlamaEngine, ProcessExecutor, ControlDaemon

CONSTANTS d1, d2, q1, q2, q3, q4

VARIABLE driven

vars == <<driven, kvVars, queueVars, engineVars, llamaVars, executorVars, controlVars>>

FirstWrites == [w \in Runners |-> IF w = 1 THEN 2 ELSE 0]

Counts == [p \in Prompts |-> CASE p = q1 -> 1 [] p = q2 -> 2 [] p = q3 -> 3 [] p = q4 -> 6]

Memory(a, l, c) == [available |-> a, limit |-> l, current |-> c]
SomeMemory == {Memory(5, 0, 0), Memory(5, 4, 1), Memory(1, 2, 3), Memory(6, 7, 2)}

Command == [id |-> 1, parent |-> 0, priority |-> -3, cpu |-> 1, memory |-> 5, timeout |-> 4,
            retries |-> 0, name |-> <<7>>, kind |-> <<>>, dependencies |-> <<>>,
            command |-> <<<<8, 9>>, <<>>>>, invocation |-> NoInvocation]
Model == [Command EXCEPT !.id = 2, !.priority = 2, !.retries = 1, !.dependencies = <<1>>, !.command = <<>>,
                         !.invocation = [kind |-> 2, context |-> 1, target |-> <<5>>,
                                         operation |-> <<6, 6>>, payload |-> <<>>]]
TooLong == [Command EXCEPT !.name = <<1, 1, 1>>]

Ask(operation, target, task) == [operation |-> operation, target |-> target, task |-> task]
SomeRequests ==
  [k \in Calls |->
     CASE k = 1 -> {Ask(Submit, 0, Command)}
       [] k = 2 -> {Ask(operation, 1, Command) :
                      operation \in {Submit, Cancel, Shutdown, Result, ReleaseResult}}
                     \cup {Ask(Spawn, 1, Model), Ask(Submit, 0, TooLong)}
       [] OTHER -> {Ask(List, 0, Command)}]
ErrorText == <<1, 1, 1>>

Init ==
  /\ driven \in {"cache", "queue", "engine", "llama", "executor", "daemon", "socket"}
  /\ KVInit /\ QueueInit /\ EngineInit /\ LlamaInit /\ ExecutorInit /\ ControlInit
  /\ driven # "engine" => memory = Memory(5, 0, 0)

Next ==
  /\ UNCHANGED driven
  /\ \/ /\ driven = "cache"
        /\ KVNext
        /\ UNCHANGED <<queueVars, engineVars, llamaVars, executorVars, controlVars>>
     \/ /\ driven = "queue"
        /\ QueueNext
        /\ UNCHANGED <<kvVars, engineVars, llamaVars, executorVars, controlVars>>
     \/ /\ driven = "engine"
        /\ EngineNext
        /\ UNCHANGED <<kvVars, queueVars, llamaVars, executorVars, controlVars>>
     \/ /\ driven = "llama"
        /\ LlamaNext
        /\ UNCHANGED <<kvVars, queueVars, engineVars, executorVars, controlVars>>
     \/ /\ driven = "executor"
        /\ ExecutorNext
        /\ UNCHANGED <<kvVars, queueVars, engineVars, llamaVars, controlVars>>
     \/ /\ driven = "daemon"
        /\ ControlNext
        /\ phase'[d2] = "off"
        /\ call'[3] # "new" => call[1] = "done" /\ call[2] = "done"
        /\ UNCHANGED <<kvVars, queueVars, engineVars, llamaVars, executorVars>>
     \/ /\ driven = "socket"
        /\ ControlNext
        /\ call'[2] = "new"
        /\ UNCHANGED <<kvVars, queueVars, engineVars, llamaVars, executorVars>>

Fairness ==
  /\ ControlFairness
  /\ \A w \in Runners : /\ WF_executorVars(driven = "executor" /\ RunnerStep(w))
                        /\ WF_executorVars(driven = "executor" /\ BarrierStep(w))
                        /\ WF_executorVars(driven = "executor" /\ Interrupt(w))

Spec == Init /\ [][Next]_vars /\ Fairness

\* The variables of every component stay in their types.
ComponentsTypeOK ==
  KVTypeOK /\ QueueTypeOK /\ EngineTypeOK /\ LlamaTypeOK /\ ExecutorTypeOK /\ ControlTypeOK

\* In the behaviours that drive the executor, every run returns.
DrivenRunsReturn == driven = "executor" => RunsReturn
=============================================================================
