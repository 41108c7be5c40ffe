----------------------------- MODULE MCSessions -----------------------------
(***************************************************************************)
(* What goes on around a session while it talks: its sub-agents            *)
(* (SubAgents), its jobs (JobManager), the wakes by which it continues     *)
(* itself (AutoWakes), and the external operations a graph begins          *)
(* (EffectIntents).  `focus` says which of them a behaviour is about; the  *)
(* others do not move.                                                     *)
(***************************************************************************)
EXTENDS SubAgents, JobManager, EffectIntents, AutoWakes

L(slots, waiting, total, costs, gates, related, bound) ==
  [slots |-> slots, waiting |-> waiting, total |-> total, costs |-> costs, dearest |-> 2,
   gates |-> gates, related |-> related, trouble |-> bound]
\* One slot, with and without a seat in the queue; a budget for one, with more trouble and
\* sessions that pass their share; one lineage; a task that waits for another kind of gate.
MCLimits == {L(1, 0, 2, {1}, {}, FALSE, 1), L(1, 1, 2, {1}, {}, FALSE, 1),
             L(2, 0, 1, {2}, {}, FALSE, 2), L(2, 0, 2, {1}, {}, TRUE, 1),
             L(1, 1, 1, {2}, {2}, FALSE, 1)}

VARIABLE focus

allVars == <<focus, agentVars, jobVars, effectVars, autoVars>>

\* Where a component that is not in focus starts does not matter.
Init ==
  /\ focus \in {"agents", "jobs", "effect", "wakes"}
  /\ AgentInit /\ JobInit /\ EffectInit /\ AutoInit
  /\ focus # "agents" => limits = L(1, 0, 2, {1}, {}, FALSE, 1)
  /\ focus # "jobs" => maxQueued = 0
  /\ focus # "effect" => stateNow = CHOOSE v \in Version : TRUE

OnAgents == focus = "agents" /\ UNCHANGED <<focus, jobVars, effectVars, autoVars>>
OnJobs   == focus = "jobs" /\ UNCHANGED <<focus, agentVars, effectVars, autoVars>>
OnEffect == focus = "effect" /\ UNCHANGED <<focus, agentVars, jobVars, autoVars>>
OnWakes  == focus = "wakes" /\ UNCHANGED <<focus, agentVars, jobVars, effectVars>>

Next ==
  \/ OnAgents /\ AgentNext
  \/ OnJobs /\ JobNext
  \/ OnEffect /\ EffectNext
  \/ OnWakes /\ AutoNext

\* That of the four specifications.  Since a behaviour is about one of them only, one
\* condition can stand for a condition of each.
Fairness ==
  /\ WF_allVars((OnAgents /\ DrainGoesOn) \/ (OnEffect /\ PollAgain))
  /\ \A n \in 1..2 :
       /\ WF_allVars(\/ OnAgents /\ TaskGoesOn(n)
                     \/ OnJobs /\ WriteSnapshot(n)
                     \/ OnEffect /\ WorkerStep(n)
                     \/ OnWakes /\ HostGoesOn(n))
       /\ WF_allVars(\/ OnJobs /\ \E how \in {"completed", "failed"} : HandlerSettles(n, how)
                     \/ OnEffect /\ OperationSettles(n)
                     \/ OnWakes /\ StartScheduler(n))
       /\ WF_allVars((OnJobs /\ Recover(n)) \/ (OnWakes /\ TimeComes(n)))
       /\ WF_allVars(OnWakes /\ ~Kept(n) /\ LeaseLapses(n))

Spec == Init /\ [][Next]_allVars /\ Fairness

-----------------------------------------------------------------------------
\* The types of the four.
SessionsTypeOK == SubAgentTypeOK /\ JobTypeOK /\ EffectTypeOK /\ AutoTypeOK

\* Seats, budget, lineages and slots are never given out twice, and come back.
SeatsAndSlotsHold == AdmissionHolds /\ SlotsHold

\* What is settled stays so, whoever comes later: a late outcome of a job, a delayed
\* retry of a write, a receipt that another submit returns, a task that a disposed
\* bridge still had in hand.
SettledStays ==
  /\ OneOutcome /\ DiskInOrder /\ ToldWhenDurable
  /\ FirstReceiptStands
  /\ QuietAfterDispose

\* Everything begun comes to an end, whatever dies on the way: queued sub-agents, calls
\* that wait for a job, the operation of an Effect, the wake of a session.
SessionsSettle ==
  /\ TaskEnds
  /\ WaitersAnswered
  /\ focus = "effect" => EffectEnds
  /\ WakeSettles
=============================================================================
