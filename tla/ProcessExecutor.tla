-------------------------- MODULE ProcessExecutor --------------------------
(***************************************************************************)
(* ProcessExecutor::run (process_executor.cpp), called by several worker    *)
(* threads of one process at the same time: the start barrier and who has   *)
(* its write end open, the output pipe, the deadline and the signals.       *)
(*                                                                          *)
(* A step of a worker is what it does between two system calls that another *)
(* worker or a child can notice.  A child is the leader of its process      *)
(* group and may leave a descendant behind.  Every command has a deadline.  *)
(***************************************************************************)
EXTENDS Naturals, FiniteSets

CONSTANTS
  Runners,        \* worker threads; each runs one command
  Parent,         \* the process of the workers
  PipeSize,       \* what the pipe holds
  Capacity,       \* output_capacity
  MaxWritten      \* bound: MaxWritten[w] is the most w's command writes

ASSUME ExecutorAssumption ==
  /\ Parent \notin Runners
  /\ PipeSize \in Nat \ {0}
  /\ Capacity \in Nat
  /\ MaxWritten \in [Runners -> Nat]

VARIABLES
  stage,          \* where each worker is in run
  child,          \* the process forked for it
  descendant,     \* a process of its group other than the leader
  token,          \* the byte sent through the barrier
  ends,           \* processes that have the write end of its barrier open
  interrupt,      \* cancel_requested, or the deadline has passed
  terminated,     \* SIGTERM has been sent to the group
  pipe,           \* output in the pipe
  written,        \* output written so far
  outputBytes,    \* result.output_bytes
  truncated       \* result.output_truncated

outputVars == <<pipe, written, outputBytes, truncated>>
executorVars == <<stage, child, descendant, token, ends, interrupt, terminated, outputVars>>

Stages == {"idle", "barrier", "forked", "rejected", "drain", "poll", "grace", "final", "done"}

ExecutorTypeOK ==
  /\ stage \in [Runners -> Stages]
  /\ child \in [Runners -> {"none", "waiting", "running", "exited", "reaped"}]
  /\ descendant \in [Runners -> {"none", "alive", "stubborn", "dead"}]
  /\ token \in [Runners -> BOOLEAN]
  /\ ends \in [Runners -> SUBSET (Runners \cup {Parent})]
  /\ interrupt \in [Runners -> BOOLEAN]
  /\ terminated \in [Runners -> BOOLEAN]
  /\ pipe \in [Runners -> 0 .. PipeSize]
  /\ written \in [Runners -> Nat]
  /\ \A w \in Runners : written[w] <= MaxWritten[w]
  /\ outputBytes \in [Runners -> 0 .. Capacity]
  /\ truncated \in [Runners -> BOOLEAN]

-----------------------------------------------------------------------------
To(w, s) == stage' = [stage EXCEPT ![w] = s]
Becomes(w, c) == child' = [child EXCEPT ![w] = c]
Closed(w, p) == [ends EXCEPT ![w] = @ \ {p}]

\* A process that execs or exits closes every write end it has inherited.
ClosedBy(p) == [v \in Runners |-> ends[v] \ {p}]

OpenBarrier(w) ==
  /\ stage[w] = "idle"
  /\ ~interrupt[w]
  /\ To(w, "barrier")
  /\ ends' = [ends EXCEPT ![w] = {Parent}]
  /\ UNCHANGED <<child, descendant, token, interrupt, terminated, outputVars>>

\* Cancelled before the start.
NotStarted(w) ==
  /\ stage[w] = "idle"
  /\ interrupt[w]
  /\ To(w, "done")
  /\ UNCHANGED <<child, descendant, token, ends, interrupt, terminated, outputVars>>

\* The mutant's child does not close the write end of its own barrier.
ForkKeepingOwnEnd(w) ==
  /\ stage[w] = "barrier"
  /\ To(w, "forked")
  /\ Becomes(w, "waiting")
  /\ ends' = [v \in Runners |-> IF Parent \in ends[v] THEN ends[v] \cup {w} ELSE ends[v]]
  /\ UNCHANGED <<descendant, token, interrupt, terminated, outputVars>>

\* The child inherits the write ends that other workers have open, and closes
\* its own; the parent goes on with the write end of this one.
Fork(w) ==
  /\ stage[w] = "barrier"
  /\ To(w, "forked")
  /\ Becomes(w, "waiting")
  /\ ends' = [v \in Runners |-> IF v # w /\ Parent \in ends[v] THEN ends[v] \cup {w} ELSE ends[v]]
  /\ UNCHANGED <<descendant, token, interrupt, terminated, outputVars>>

ForkFails(w) ==
  /\ stage[w] = "barrier"
  /\ To(w, "done")
  /\ ends' = Closed(w, Parent)
  /\ UNCHANGED <<child, descendant, token, interrupt, terminated, outputVars>>

\* setpgid, fcntl or send fails: the child is killed and waited for.
SetupFails(w) ==
  /\ stage[w] = "forked"
  /\ To(w, "done")
  /\ Becomes(w, "reaped")
  /\ ends' = [v \in Runners |-> ends[v] \ (IF v = w THEN {w, Parent} ELSE {w})]
  /\ UNCHANGED <<descendant, token, interrupt, terminated, outputVars>>

\* on_started accepts, the token is sent and the barrier closed.
Admit(w) ==
  /\ stage[w] = "forked"
  /\ To(w, "drain")
  /\ token' = [token EXCEPT ![w] = TRUE]
  /\ ends' = Closed(w, Parent)
  /\ UNCHANGED <<child, descendant, interrupt, terminated, outputVars>>

\* on_started refuses: the barrier is closed and the child waited for, not killed.
Reject(w) ==
  /\ stage[w] = "forked"
  /\ To(w, "rejected")
  /\ ends' = Closed(w, Parent)
  /\ UNCHANGED <<child, descendant, token, interrupt, terminated, outputVars>>

ReapRejected(w) ==
  /\ stage[w] = "rejected"
  /\ child[w] = "exited"
  /\ To(w, "done")
  /\ Becomes(w, "reaped")
  /\ UNCHANGED <<descendant, token, ends, interrupt, terminated, outputVars>>

\* One read of drain_output, into the buffer or, when it is full, away.
ReadPipe(w) ==
  LET room == Capacity - outputBytes[w]
      n == IF room = 0 \/ pipe[w] < room THEN pipe[w] ELSE room
  IN  /\ stage[w] \in {"drain", "final"}
      /\ pipe[w] > 0
      /\ pipe' = [pipe EXCEPT ![w] = @ - n]
      /\ outputBytes' = [outputBytes EXCEPT ![w] = IF room = 0 THEN @ ELSE @ + n]
      /\ truncated' = [truncated EXCEPT ![w] = @ \/ room = 0]
      /\ UNCHANGED <<stage, child, descendant, token, ends, interrupt, terminated, written>>

\* The pipe is empty or closed.  The read end is closed at once after the last
\* read: what a surviving descendant writes in between is lost like what it
\* writes later, and is not counted.
Drained(w) ==
  /\ stage[w] \in {"drain", "final"}
  /\ pipe[w] = 0
  /\ To(w, IF stage[w] = "drain" THEN "poll" ELSE "done")
  /\ UNCHANGED <<child, descendant, token, ends, interrupt, terminated, outputVars>>

\* The mutant returns without the last read of the pipe.
LeaderExitedUndrained(w) ==
  /\ stage[w] = "poll"
  /\ child[w] = "exited"
  /\ To(w, "done")
  /\ Becomes(w, "reaped")
  /\ UNCHANGED <<descendant, token, ends, interrupt, terminated, outputVars>>

\* poll on the pidfd, waitpid.
LeaderExited(w) ==
  /\ stage[w] = "poll"
  /\ child[w] = "exited"
  /\ To(w, "final")
  /\ Becomes(w, "reaped")
  /\ UNCHANGED <<descendant, token, ends, interrupt, terminated, outputVars>>

GoOn(w) ==
  /\ stage[w] = "poll"
  /\ child[w] # "exited"
  /\ ~interrupt[w]
  /\ To(w, "drain")
  /\ UNCHANGED <<child, descendant, token, ends, interrupt, terminated, outputVars>>

\* SIGTERM to the group, then 50 ms.
Terminate(w) ==
  /\ stage[w] = "poll"
  /\ child[w] # "exited"
  /\ interrupt[w]
  /\ To(w, "grace")
  /\ terminated' = [terminated EXCEPT ![w] = TRUE]
  /\ descendant' = [descendant EXCEPT ![w] = IF @ = "alive" THEN "dead" ELSE @]
  /\ UNCHANGED <<child, token, ends, interrupt, outputVars>>

\* SIGKILL to the group, only if the leader is still there.
GraceEnds(w) ==
  /\ stage[w] = "grace"
  /\ To(w, "final")
  /\ Becomes(w, "reaped")
  /\ ends' = ClosedBy(w)
  /\ descendant' = [descendant EXCEPT
       ![w] = IF child[w] # "exited" /\ @ # "none" THEN "dead" ELSE @]
  /\ UNCHANGED <<token, interrupt, terminated, outputVars>>

-----------------------------------------------------------------------------
(* The children, and what sets a run's end *)

\* The read of the barrier returns the token: execvp.
Exec(w) ==
  /\ child[w] = "waiting"
  /\ token[w]
  /\ Becomes(w, "running")
  /\ ends' = ClosedBy(w)
  /\ UNCHANGED <<stage, descendant, token, interrupt, terminated, outputVars>>

\* It returns an end of file, once nobody has the write end open any more.
Refused(w) ==
  /\ child[w] = "waiting"
  /\ ~token[w]
  /\ ends[w] = {}
  /\ Becomes(w, "exited")
  /\ ends' = ClosedBy(w)
  /\ UNCHANGED <<stage, descendant, token, interrupt, terminated, outputVars>>

Alive(w) == child[w] = "running" \/ descendant[w] \in {"alive", "stubborn"}

\* A process of the group writes; the pipe is open until run returns.
Output(w) ==
  /\ Alive(w)
  /\ stage[w] # "done"
  /\ written[w] < MaxWritten[w]
  /\ pipe[w] < PipeSize
  /\ written' = [written EXCEPT ![w] = @ + 1]
  /\ pipe' = [pipe EXCEPT ![w] = @ + 1]
  /\ UNCHANGED <<stage, child, descendant, token, ends, interrupt, terminated,
                 outputBytes, truncated>>

SpawnDescendant(w, kind) ==
  /\ child[w] = "running"
  /\ descendant[w] = "none"
  /\ descendant' = [descendant EXCEPT ![w] = kind]
  /\ UNCHANGED <<stage, child, token, ends, interrupt, terminated, outputVars>>

\* By itself or obeying SIGTERM; a child that was sent SIGTERM before it reached
\* execvp exits too.
Exit(w) ==
  /\ child[w] = "running" \/ (child[w] = "waiting" /\ terminated[w])
  /\ Becomes(w, "exited")
  /\ ends' = ClosedBy(w)
  /\ UNCHANGED <<stage, descendant, token, interrupt, terminated, outputVars>>

Interrupt(w) ==
  /\ ~interrupt[w]
  /\ stage[w] # "done"
  /\ interrupt' = [interrupt EXCEPT ![w] = TRUE]
  /\ UNCHANGED <<stage, child, descendant, token, ends, terminated, outputVars>>

-----------------------------------------------------------------------------
ExecutorInit ==
  /\ stage = [w \in Runners |-> "idle"]
  /\ child = [w \in Runners |-> "none"]
  /\ descendant = [w \in Runners |-> "none"]
  /\ token = [w \in Runners |-> FALSE]
  /\ ends = [w \in Runners |-> {}]
  /\ interrupt = [w \in Runners |-> FALSE]
  /\ terminated = [w \in Runners |-> FALSE]
  /\ pipe = [w \in Runners |-> 0]
  /\ written = [w \in Runners |-> 0]
  /\ outputBytes = [w \in Runners |-> 0]
  /\ truncated = [w \in Runners |-> FALSE]

RunnerStep(w) ==
  \/ OpenBarrier(w) \/ NotStarted(w) \/ Fork(w) \/ ForkFails(w)
  \/ SetupFails(w) \/ Admit(w) \/ Reject(w) \/ ReapRejected(w)
  \/ ReadPipe(w) \/ Drained(w) \/ LeaderExited(w) \/ GoOn(w)
  \/ Terminate(w) \/ GraceEnds(w)

BarrierStep(w) == Exec(w) \/ Refused(w)

ExecutorNext ==
  \E w \in Runners :
    \/ RunnerStep(w)
    \/ BarrierStep(w)
    \/ Output(w)
    \/ \E kind \in {"alive", "stubborn"} : SpawnDescendant(w, kind)
    \/ Exit(w)
    \/ Interrupt(w)

\* Workers are scheduled, a child reads its barrier, and deadlines pass; the
\* command itself need not do anything.
ExecutorFairness ==
  \A w \in Runners : /\ WF_executorVars(RunnerStep(w))
                     /\ WF_executorVars(BarrierStep(w))
                     /\ WF_executorVars(Interrupt(w))

ExecutorSpec == ExecutorInit /\ [][ExecutorNext]_executorVars /\ ExecutorFairness

-----------------------------------------------------------------------------
\* What run returns is all the command wrote, up to the capacity, and the
\* truncation flag is set exactly when something was lost: whether it exited by
\* itself, was terminated or killed, with output still in the pipe or not.
OutputKept ==
  \A w \in Runners : stage[w] = "done" =>
    /\ outputBytes[w] = IF written[w] < Capacity THEN written[w] ELSE Capacity
    /\ truncated[w] <=> written[w] > Capacity

\* A run that has returned leaves no leader behind, running or not waited for;
\* and a command that was refused, or whose setup failed, never ran, although
\* its child was forked and had the barrier open in other processes.
LeaderReaped ==
  \A w \in Runners : stage[w] = "done" =>
    /\ child[w] \in {"none", "reaped"}
    /\ ~token[w] => descendant[w] = "none" /\ written[w] = 0

\* What is left when run has returned, in both respects.
RunsAccounted == OutputKept /\ LeaderReaped

\* Where the child is, by where the worker is.
ChildFollows(w) ==
  /\ stage[w] \in {"idle", "barrier"} => child[w] = "none" /\ ~token[w]
  /\ stage[w] = "forked" => child[w] = "waiting" /\ ~token[w]
  /\ stage[w] = "rejected" => child[w] \in {"waiting", "exited"} /\ ~token[w]
  /\ stage[w] \in {"drain", "poll", "grace"} => child[w] \in {"waiting", "running", "exited"} /\ token[w]
  /\ stage[w] = "final" => child[w] = "reaped" /\ token[w]
  /\ stage[w] = "done" => child[w] \in {"none", "reaped"}

\* Until the token is sent the barrier is open in the parent, and nothing has
\* run, written or been signalled.
BarrierHolds(w) ==
  /\ stage[w] \in {"barrier", "forked"} => Parent \in ends[w]
  /\ ~token[w] => /\ child[w] # "running" /\ descendant[w] = "none"
                  /\ written[w] = 0 /\ ~terminated[w]

\* Every byte written is in the buffer, in the pipe, or lost and reported.
BytesAddUp(w) ==
  /\ ~truncated[w] => written[w] = outputBytes[w] + pipe[w]
  /\ truncated[w] => /\ outputBytes[w] = Capacity /\ written[w] > Capacity
                     /\ written[w] >= outputBytes[w] + pipe[w]
  /\ stage[w] = "done" => pipe[w] = 0

\* The inductive invariant.
ExecutorInv ==
  ExecutorTypeOK /\ \A w \in Runners : ChildFollows(w) /\ BarrierHolds(w) /\ BytesAddUp(w)

\* Refused runs none of whose children can return from the barrier, since each
\* barrier is still open in the child of another of them.
Entangled(S) ==
  \A w \in S : /\ stage[w] = "rejected"
               /\ child[w] = "waiting"
               /\ \E v \in S \ {w} : v \in ends[w]

\* Every run returns, but for this one case: runs that were refused while their
\* children, forked with the barriers of one another open, wait for each other
\* (a refused child is not killed, and its deadline is not looked at).  A child
\* that is refused is released from its barrier although other workers' children
\* have inherited the write end, if one of those may go on or exits; a command
\* that does nothing is ended by its deadline.
RunsReturn ==
  \A w \in Runners :
    stage[w] = "idle" ~> (stage[w] = "done" \/ \E S \in SUBSET Runners : w \in S /\ Entangled(S))
=============================================================================
