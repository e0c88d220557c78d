------------------------------ MODULE UseOrder ------------------------------
(***************************************************************************)
(* The order of last use: last_access of the contexts in                    *)
(* context_manager.cpp and of the shared prompts in llm_llamacpp.c.  These  *)
(* clocks only order their elements, so an order is a list, oldest first.   *)
(***************************************************************************)
EXTENDS Integers, Sequences

Position(order, c) == CHOOSE i \in DOMAIN order : order[i] = c

\* An element goes; an access moves it to the end.
Drop(order, c) ==
  [i \in 1 .. Len(order) - 1 |->
     IF i < Position(order, c) THEN order[i] ELSE order[i + 1]]

Touch(order, c) == Append(Drop(order, c), c)

\* Every member of a set once, and nothing else.
Lists(list, S) ==
  /\ list \in Seq(S)
  /\ \A x \in S : \E i \in DOMAIN list : list[i] = x
  /\ \A i, j \in DOMAIN list : list[i] = list[j] => i = j
=============================================================================
