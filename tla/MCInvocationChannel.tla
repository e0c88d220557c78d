------------------------ MODULE MCInvocationChannel ------------------------
(* Instances of InvocationChannel for TLC.                                 *)
EXTENDS InvocationChannel

\* Agent 2 takes the result of agent 1 in, and lists it twice.
Chain == [a \in Agents |-> IF a = 2 THEN <<1, 1>> ELSE <<>>]
FirstRetries == [a \in Agents |-> IF a = 1 THEN 1 ELSE 0]

Spec1 == [parent |-> 0, kind |-> 1, context |-> 0, priority |-> -3, cpu |-> 1, memory |-> 5,
          timeout |-> 0, target |-> <<7>>, operation |-> <<8, 9>>, payload |-> <<>>]
Spec2 == [Spec1 EXCEPT !.parent = 1, !.kind = 2, !.priority = 3, !.timeout = 4,
                       !.payload = <<6, 6>>]
TooLong == [Spec2 EXCEPT !.payload = <<6, 6, 6>>]

SmallSpecs == [a \in Agents |-> IF a = 1 THEN {Spec1} ELSE {Spec2, TooLong}]

Plain == [status |-> OK, message |-> <<>>, context |-> 1, process |-> -1,
          counters |-> <<1, 2, 3, 4, 5, 6>>, cacheHit |-> TRUE,
          hasOutput |-> FALSE, size |-> 0, length |-> 0, type |-> 0, flags |-> 0]
WithOutput == [Plain EXCEPT !.hasOutput = TRUE, !.size = 4, !.length = 3, !.type = 1, !.flags = 2,
                            !.process = 3]
Overlong == [WithOutput EXCEPT !.length = 5]
Wordy == [WithOutput EXCEPT !.message = <<1, 1, 1>>]
Aborted == [Plain EXCEPT !.status = Cancelled, !.cacheHit = FALSE]
SmallResults == {Plain, WithOutput, Overlong, Wordy, Aborted}
=============================================================================
