------------------------------ MODULE MCGraphs ------------------------------
(***************************************************************************)
(* One graph instance: GraphKernel with one scheduler over three of the    *)
(* small graphs, each with the events, costs and commands that matter to   *)
(* it.  `focus` says which of them a behaviour is about.                   *)
(***************************************************************************)
EXTENDS SmallGraphs

CONSTANTS s1, None

VARIABLES focus,
  status, act, version, prepared, committed, evt, cost,  \* GraphStore
  pc, clock, todo, work, signals, seen, op, ops          \* GraphKernel

graphVars == <<status, act, version, prepared, committed, evt, cost,
               pc, clock, todo, work, signals, seen, op, ops>>

Rank5 == [a \in 1..5 |-> a]
Rank6 == [a \in 1..6 |-> 9 - a]

Fork      == ForkGraph(6)
TimedFork == TimedForkGraph(6)
Budget    == BudgetGraph(5)
Pausing   == PauseGraph(5)

\* Members that arrive, time out and are released against the order of their ids.
F == INSTANCE GraphKernel WITH
  Graph <- TimedFork, Pool <- 6, Rank <- Rank6, Event <- {}, Scheduler <- {s1},
  AgentReplays <- 1, OtherReplays <- 1, MaxAttempts <- 2, AgentResults <- {"success"}, Costs <- {0},
  Operators <- {}, WallClock <- FALSE, ExecutorThrows <- FALSE, MaxSegments <- 3, MaxOperations <- 2

\* Agents with every result, under tight limits on cost, timers and live activations.
B == INSTANCE GraphKernel WITH
  Graph <- Budget, Pool <- 5, Rank <- Rank5, Event <- {}, Scheduler <- {s1},
  AgentReplays <- 1, OtherReplays <- 1, MaxAttempts <- 2, Costs <- {0, 1},
  AgentResults <- {"success", "exhausted", "retry", "parked", "failure", "fatal"},
  Operators <- {}, WallClock <- FALSE, ExecutorThrows <- FALSE, MaxSegments <- 3, MaxOperations <- 1

\* Operators, events, the wall clock and executors that throw, around a paused Terminal.
O == INSTANCE GraphKernel WITH
  Graph <- Pausing, Pool <- 5, Rank <- Rank5, Event <- {e1}, Scheduler <- {s1},
  AgentReplays <- 1, OtherReplays <- 1, MaxAttempts <- 2, AgentResults <- {"success"}, Costs <- {0},
  Operators <- {"pause", "resume", "stop"}, WallClock <- TRUE, ExecutorThrows <- TRUE,
  MaxSegments <- 2, MaxOperations <- 3

\* Whether a fan-out comes to its end, however often the scheduler crashes.
P == INSTANCE GraphKernel WITH
  Graph <- Fork, Pool <- 6, Rank <- [a \in 1..6 |-> a], Event <- {}, Scheduler <- {s1},
  AgentReplays <- 1, OtherReplays <- 1, MaxAttempts <- 2, AgentResults <- {"success"}, Costs <- {0},
  Operators <- {}, WallClock <- FALSE, ExecutorThrows <- FALSE, MaxSegments <- 9, MaxOperations <- 2

Init ==
  \/ focus = "progress" /\ P!KernelInit
  \/ focus = "fork" /\ F!KernelInit
  \/ focus = "budget" /\ B!KernelInit
  \/ focus = "operators" /\ O!KernelInit

Next ==
  /\ \/ focus = "progress" /\ P!KernelNext
     \/ focus = "fork" /\ F!KernelNext
     \/ focus = "budget" /\ B!KernelNext
     \/ focus = "operators" /\ O!KernelNext
  /\ UNCHANGED focus

\* That of GraphKernel!KernelFairSpec.
Fairness ==
  /\ WF_graphVars(focus = "progress" /\ P!Tick(s1))
  /\ SF_graphVars(focus = "progress" /\ P!With("running") # {} /\ P!ReleaseClaims(s1, P!With("running")))
  /\ WF_graphVars(focus = "progress" /\ P!ClockTicks)

Spec == Init /\ [][Next]_<<focus, graphVars>> /\ Fairness

-----------------------------------------------------------------------------
(* Properties of GraphStore and GraphKernel, for the graph they are about *)

\* The graph reaches a final status, although crashes lose Join announcements and
\* leave claims behind.
Progress == focus = "progress" => P!Progress

\* A Join fires once and complete (GraphKernel!JoinsRight).
JoinsRight == focus = "fork" => F!JoinsRight

\* The limits of a graph hold (GraphKernel!LimitsHold).
LimitsHold ==
  /\ focus = "progress" => P!LimitsHold
  /\ focus = "budget" => B!LimitsHold

\* `resume` leaves a paused Terminal exactly once, however often it is repeated.
ResumedOnce == focus = "operators" => O!ResumedOnce

\* An event accepted before the deadline of a wait wins over that deadline (the graph of
\* the operators has no Join, whose announcements would resume the timer first).
EventBeatsTimer == [][focus = "operators" => O!DeadlineLoses]_graphVars
=============================================================================
