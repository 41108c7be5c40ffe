--------------------------- MODULE MCGraphKernel ---------------------------
(***************************************************************************)
(* GraphKernel over one of the small graphs, with two schedulers or one.   *)
(***************************************************************************)
EXTENDS GraphKernel, SmallGraphs

CONSTANTS s1, s2

Fork   == ForkGraph(Pool)
Serial == SerialGraph(Pool)
Late   == LateGraph(Pool)

RankUp == [a \in Act |-> a]
Sym == Permutations(Scheduler)

\* What is left of KernelSpec over a graph without Joins and timers, when there are
\* no events, operators or crashes.
SerialNext == \E s \in Scheduler : Turn(s)
SerialSpec == KernelInit /\ [][SerialNext]_vars
=============================================================================
