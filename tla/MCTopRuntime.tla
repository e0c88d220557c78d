---------------------------- MODULE MCTopRuntime ----------------------------
(* Instances of TopRuntime for TLC.                                        *)
EXTENDS TopRuntime, TLC

CONSTANTS a1, a2, t1, t2

TwoAgents == {a1, a2}
OneThread == {t1}
TwoThreads == {t1, t2}
Interchangeable == Permutations(Agents) \cup Permutations(Threads)
=============================================================================
