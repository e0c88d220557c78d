----------------------------- MODULE ReadyFifo -----------------------------
(***************************************************************************)
(* What agent_runtime_top/include/scheduler.h promises of the ready queue:  *)
(* a bounded sequence of agents, entered at the back, taken at the front,   *)
(* from which an agent can be withdrawn or moved to the front.              *)
(***************************************************************************)
EXTENDS Naturals, Sequences

CONSTANTS FifoAgents, Capacity

VARIABLES fifo

Positions(a) == {i \in 1 .. Len(fifo) : fifo[i] = a}
FirstPosition(a) == CHOOSE i \in Positions(a) : \A j \in Positions(a) : i <= j
Without(i) == SubSeq(fifo, 1, i - 1) \o SubSeq(fifo, i + 1, Len(fifo))

Enter(a) == Len(fifo) < Capacity /\ fifo' = Append(fifo, a)
Withdraw(a) == Positions(a) # {} /\ fifo' = Without(FirstPosition(a))
Promote(a) == Positions(a) # {} /\ fifo' = <<a>> \o Without(FirstPosition(a))
Take == fifo # <<>> /\ fifo' = Tail(fifo)
Reset == fifo' = <<>>

FifoInit == fifo = <<>>

FifoNext ==
  \/ \E a \in FifoAgents : Enter(a) \/ Withdraw(a) \/ Promote(a)
  \/ Take
  \/ Reset

FifoSpec == FifoInit /\ [][FifoNext]_fifo
=============================================================================
