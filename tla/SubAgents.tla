----------------------------- MODULE SubAgents -----------------------------
(***************************************************************************)
(* Sub-agents of one session (subagent/SubAgentBridge.ts,                  *)
(* SubAgentRunner.ts, SubAgentTaskStore.ts): admission, the start queue,   *)
(* the runners, cancellation, retry and disposal, which interleave at      *)
(* every await.  The writes of a task's record form one chain.            *)
(***************************************************************************)
EXTENDS Integers, Sequences, FiniteSets, SequencesExt

CONSTANTS
  Task,             \* task ids, those of retries too
  NoTask,
  Limits,           \* configurations: slots (maxConcurrentSubAgents), waiting
                    \* (maxQueuedSubAgents), total (maxTotalSubAgentBudgetUsd; a task
                    \* asks for a share of 1), costs (what a session may cost in
                    \* the end), dearest (a bound of these), gates (the internal
                    \* tasks), whether the tasks are of one lineage, and trouble,
                    \* a bound on cancellations, interrupts, disposal, failed
                    \* reads and writes, and restarts
  RetryLimit

SubAgentAssumption ==
  /\ NoTask \notin Task
  /\ Limits \subseteq [slots : Nat \ {0}, waiting : Nat, total : Nat, costs : SUBSET Nat,
                      dearest : Nat \ {0}, gates : SUBSET Task, related : BOOLEAN, trouble : Nat]
  /\ \A l \in Limits : l.costs \subseteq 0..l.dearest
  /\ RetryLimit \in Nat
ASSUME SubAgentAssumption

VARIABLES
  record,       \* the record on disk: status, cost of the result
  writeChain,   \* operations on the record that wait for their turn
  spawn,        \* spawnSubAgent: how far, attempt, the task retried
  startQueue, queuedStarts,
  signalled,    \* tasks whose queued abort controller was aborted
  drain,        \* _drainStartQueue: where, and with which task
  active,       \* runners and activeTaskIds
  lineage,      \* activeLineages: the task that executes the lineage
  runner,       \* each task's runner: phase, abort, reason
  cancel,       \* cancelTask, called from outside and by the drain
  budget,       \* reserved tasks, settled tasks, settled cost
  retry,        \* _maybeRetryFailed and its timers
  bridge,       \* "open", "closing" (dispose waits), "closed"
  lost,         \* tasks that an unreadable record or a failed write stranded
  limits, agentTrouble

agentVars == <<record, writeChain, spawn, startQueue, queuedStarts, signalled, drain, active,
               lineage, runner, cancel, budget, retry, bridge, lost, limits, agentTrouble>>

Ended == {"completed", "failed", "cancelled"}
NoRecord == [status |-> "none", cost |-> 0]
NotSpawned == [at |-> "none", attempt |-> 0, of |-> NoTask]
NoRunner == [at |-> "none", aborted |-> FALSE, named |-> FALSE, cost |-> 0]
NotDraining == [at |-> "off", task |-> NoTask]
NoBudget == [reserved |-> {}, settled |-> {}, spent |-> 0]
Callers == {"user", "drain"}

AgentInit ==
  /\ record = [t \in Task |-> NoRecord]
  /\ spawn = [t \in Task |-> NotSpawned]
  /\ writeChain = [t \in Task |-> <<>>]
  /\ startQueue = <<>> /\ queuedStarts = {} /\ signalled = {}
  /\ drain = NotDraining /\ active = {} /\ lineage = NoTask
  /\ runner = [t \in Task |-> NoRunner]
  /\ cancel = [t \in Task |-> [c \in Callers |-> "none"]]
  /\ budget = NoBudget
  /\ retry = [t \in Task |-> "none"]
  /\ bridge = "open"
  /\ lost = {} /\ limits \in Limits /\ agentTrouble = 0

Internal == limits.gates
Trouble == agentTrouble < limits.trouble /\ agentTrouble' = agentTrouble + 1
Post(t, op) == writeChain' = [writeChain EXCEPT ![t] = Append(@, op)]

(* _scheduleDrain *)
Scheduled == IF drain.at = "off" /\ bridge = "open" THEN [drain EXCEPT !.at = "loop"] ELSE drain

(* _settleBudget: once for each task, with the cost its record reports.     *)
Settle(t, cost) ==
  IF t \in budget.settled THEN budget
  ELSE [reserved |-> budget.reserved \ {t}, settled |-> budget.settled \cup {t},
        spent |-> budget.spent + (IF t \in Internal THEN 0 ELSE cost)]

-----------------------------------------------------------------------------
(* Admission *)

(* The tasks that hold a seat; the mutant forgets those whose record is      *)
(* still being written.                                                    *)
HandedOver == active \cup queuedStarts
Outstanding == active \cup queuedStarts \cup {t \in Task : spawn[t].at \in {"admitted", "written"}}

Affordable == budget.spent + Cardinality(budget.reserved) + 1 <= limits.total

Admits(t) == t \in Internal \/ (Cardinality(Outstanding) < limits.slots + limits.waiting /\ Affordable)

(* spawnSubAgent up to its first await: seat and budget are claimed, the    *)
(* record's first write is queued.                                         *)
Admit(t, attempt, of) ==
  /\ record[t] = NoRecord /\ spawn[t].at = "none" /\ Admits(t)
  /\ spawn' = [spawn EXCEPT ![t] = [at |-> "admitted", attempt |-> attempt, of |-> of]]
  /\ budget' = IF t \in Internal THEN budget ELSE [budget EXCEPT !.reserved = @ \cup {t}]
  /\ Post(t, "queued")

SpawnSubAgent(t) ==
  /\ bridge = "open" /\ Admit(t, 0, NoTask)
  /\ UNCHANGED <<record, startQueue, queuedStarts, signalled, drain, active, lineage, runner,
                 cancel, retry, bridge, lost, limits, agentTrouble>>

(* The record is written: the seat passes to the start queue, where the      *)
(* tasks of a gate go first.                                               *)
HandOver(t) ==
  /\ spawn[t].at = "written"
  /\ spawn' = [spawn EXCEPT ![t].at = "queued"]
  /\ queuedStarts' = queuedStarts \cup {t}
  /\ startQueue' = IF t \in Internal THEN <<t>> \o startQueue ELSE Append(startQueue, t)
  /\ drain' = Scheduled
  /\ UNCHANGED <<record, writeChain, signalled, active, lineage, runner, cancel, budget, retry,
                 bridge, lost, limits, agentTrouble>>

(* The signal of the turn that spawned the task.                            *)
ParentAborts(t) ==
  /\ Trouble /\ spawn[t].at = "queued" /\ t \notin signalled /\ runner[t].at # "gone"
  /\ signalled' = signalled \cup {t}
  /\ runner' = IF runner[t].at = "none" THEN runner
               ELSE [runner EXCEPT ![t].aborted = TRUE, ![t].named = FALSE]
  /\ UNCHANGED <<record, writeChain, spawn, startQueue, queuedStarts, drain, active, lineage,
                 cancel, budget, retry, bridge, lost, limits>>

-----------------------------------------------------------------------------
(* The chain of a record *)

(* A terminal status is written unless there is one already; the first      *)
(* write of a task and the one that marks it running are unconditional.     *)
Overwrites(t, op) == op \in {"queued", "running"} \/ record[t].status \notin Ended

(* What the poster of the operation finds when it goes on.                  *)
Continues(t, op, done) ==
  CASE op = "queued" -> /\ spawn' = [spawn EXCEPT ![t].at = "written"]
                        /\ UNCHANGED <<runner, cancel>>
    [] op = "running" -> /\ runner' = [runner EXCEPT ![t].at = "begun"]
                         /\ UNCHANGED <<spawn, cancel>>
    [] op \in Callers -> /\ cancel' = [cancel EXCEPT ![t][op] = IF done THEN "won" ELSE "late"]
                         /\ UNCHANGED <<spawn, runner>>
    [] OTHER -> /\ runner' = [runner EXCEPT ![t].at = IF ~done THEN "unwinding"
                                                     ELSE IF op = "completed" THEN "done" ELSE "failed"]
                /\ UNCHANGED <<spawn, cancel>>

Perform(t) ==
  /\ writeChain[t] # <<>>
  /\ writeChain' = [writeChain EXCEPT ![t] = Tail(@)]
  /\ LET op == Head(writeChain[t])
         done == Overwrites(t, op)
         status == IF op \in Callers THEN "cancelled" ELSE op
         cost == IF op \in Callers \/ status \notin Ended THEN 0 ELSE runner[t].cost
     IN  /\ record' = IF done THEN [record EXCEPT ![t] = [status |-> status, cost |-> cost]] ELSE record
         /\ Continues(t, op, done)
  /\ UNCHANGED <<startQueue, queuedStarts, signalled, drain, active, lineage, budget, retry, bridge,
                 lost, limits, agentTrouble>>

(* The rollback of a spawn whose record cannot be written.                 *)
RolledBack(t) == [budget EXCEPT !.reserved = @ \ {t}]

(* A write fails: the spawn is rolled back; a runner reports a failure      *)
(* instead, again if need be; a cancellation gives up.                     *)
PerformFails(t) ==
  /\ writeChain[t] # <<>> /\ Trouble
  /\ LET op == Head(writeChain[t])
     IN  CASE op = "queued" -> /\ spawn' = [spawn EXCEPT ![t].at = "refused"]
                               /\ budget' = RolledBack(t)
                               /\ writeChain' = [writeChain EXCEPT ![t] = Tail(@)]
                               /\ UNCHANGED <<runner, cancel, lost>>
           [] op \in Callers -> /\ cancel' = [cancel EXCEPT ![t][op] = "none"]
                                /\ lost' = lost \cup {t}
                                /\ writeChain' = [writeChain EXCEPT ![t] = Tail(@)]
                                /\ UNCHANGED <<spawn, runner, budget>>
           [] OTHER -> /\ runner' = [runner EXCEPT ![t].at = "ending"]
                       /\ writeChain' = [writeChain EXCEPT ![t] = Append(Tail(@), "failed")]
                       /\ UNCHANGED <<spawn, cancel, budget, lost>>
  /\ UNCHANGED <<record, startQueue, queuedStarts, signalled, drain, active, lineage, retry, bridge,
                 limits>>

-----------------------------------------------------------------------------
(* _drainStartQueue *)

(* A lineage is one conversation: a task of it waits while another executes. *)
Runnable(t) == t \in queuedStarts /\ (limits.related => lineage = NoTask)

\* findIndex: the place of the first that is runnable, if there is one.
Picked == {i \in DOMAIN startQueue :
             Runnable(startQueue[i]) /\ \A k \in 1..(i - 1) : ~Runnable(startQueue[k])}
MayStart == bridge = "open" /\ Cardinality(active) < limits.slots /\ Picked # {}

DrainPicks ==
  /\ drain.at = "loop" /\ MayStart
  /\ \E i \in Picked :
       LET t == startQueue[i]
       IN  /\ startQueue' = RemoveAt(startQueue, i)
           /\ drain' = [at |-> IF t \in signalled THEN "cancels" ELSE "reads", task |-> t]
           /\ cancel' = IF t \in signalled THEN [cancel EXCEPT ![t]["drain"] = "called"] ELSE cancel
  /\ UNCHANGED <<record, writeChain, spawn, queuedStarts, signalled, active, lineage, runner,
                 budget, retry, bridge, lost, limits, agentTrouble>>

DrainEnds ==
  /\ drain.at = "loop" /\ ~MayStart
  /\ drain' = NotDraining
  /\ UNCHANGED <<record, writeChain, spawn, startQueue, queuedStarts, signalled, active, lineage,
                 runner, cancel, budget, retry, bridge, lost, limits, agentTrouble>>

(* The task has left the start queue when its record is read.  An ended or  *)
(* unreadable one is dropped; else it gets a runner, also when it has been  *)
(* cancelled since: then the runner is aborted.                            *)
DrainReads ==
  /\ drain.at = "reads"
  /\ queuedStarts' = queuedStarts \ {drain.task}
  /\ LET t == drain.task
     IN  \/ /\ record[t].status \in Ended
            /\ drain' = [NotDraining EXCEPT !.at = "loop"]
            /\ UNCHANGED <<active, lineage, runner, lost, agentTrouble>>
         \/ /\ Trouble
            /\ lost' = lost \cup {t}
            /\ drain' = [NotDraining EXCEPT !.at = "loop"]
            /\ UNCHANGED <<active, lineage, runner>>
         \/ /\ record[t].status \notin Ended
            /\ drain' = [drain EXCEPT !.at = "marks"]
            /\ active' = active \cup {t}
            /\ lineage' = IF limits.related THEN t ELSE lineage
            /\ runner' = [runner EXCEPT ![t] = [NoRunner EXCEPT !.at = "made", !.aborted = t \in signalled]]
            /\ UNCHANGED <<lost, agentTrouble>>
  /\ UNCHANGED <<record, writeChain, spawn, startQueue, signalled, cancel, budget, retry, bridge,
                 limits>>

(* After markRunning the runner starts, and queues its first write.         *)
DrainStarts ==
  /\ drain.at = "marks"
  /\ drain' = [NotDraining EXCEPT !.at = "loop"]
  /\ runner' = [runner EXCEPT ![drain.task].at = "starting"]
  /\ Post(drain.task, "running")
  /\ UNCHANGED <<record, spawn, startQueue, queuedStarts, signalled, active, lineage, cancel,
                 budget, retry, bridge, lost, limits, agentTrouble>>

DrainCancelled ==
  /\ drain.at = "cancels" /\ cancel[drain.task]["drain"] = "none"
  /\ drain' = [NotDraining EXCEPT !.at = "loop"]
  /\ UNCHANGED <<record, writeChain, spawn, startQueue, queuedStarts, signalled, active, lineage,
                 runner, cancel, budget, retry, bridge, lost, limits, agentTrouble>>

-----------------------------------------------------------------------------
(* SubAgentRunner *)

Ends(t, outcome) == runner' = [runner EXCEPT ![t].at = "ending"] /\ Post(t, outcome)

(* An aborted runner ends before its session is submitted.                  *)
RunnerSubmits(t) ==
  /\ runner[t].at = "begun"
  /\ \/ /\ runner[t].aborted
        /\ Ends(t, "cancelled")
     \/ /\ ~runner[t].aborted
        /\ runner' = [runner EXCEPT ![t].at = "works"]
        /\ UNCHANGED writeChain
  /\ UNCHANGED <<record, spawn, startQueue, queuedStarts, signalled, drain, active, lineage, cancel,
                 budget, retry, bridge, lost, limits, agentTrouble>>

(* The session ends: with an error or its time limit whether it was aborted  *)
(* or not.  It may have cost more than its share: it compares its cost with  *)
(* its budget when a reply has been paid for.                              *)
RunnerEnds(t, outcome) ==
  /\ runner[t].at = "works"
  /\ outcome = "completed" => ~runner[t].aborted
  /\ outcome = "cancelled" => runner[t].aborted
  /\ \E cost \in limits.costs :
       runner' = [runner EXCEPT ![t].at = "ending", ![t].cost = cost]
  /\ Post(t, outcome)
  /\ UNCHANGED <<record, spawn, startQueue, queuedStarts, signalled, drain, active, lineage, cancel,
                 budget, retry, bridge, lost, limits, agentTrouble>>

(* The event of a failure is handled by _maybeRetryFailed, once for a task. *)
Failed(t) == retry' = IF bridge = "open" /\ retry[t] = "none" THEN [retry EXCEPT ![t] = "reads"] ELSE retry

RunnerTells(t) ==
  /\ runner[t].at \in {"done", "failed"}
  /\ runner' = [runner EXCEPT ![t].at = "unwinding"]
  /\ IF runner[t].at = "failed" THEN Failed(t) ELSE UNCHANGED retry
  /\ UNCHANGED <<record, writeChain, spawn, startQueue, queuedStarts, signalled, drain, active,
                 lineage, cancel, budget, bridge, lost, limits, agentTrouble>>

(* The session is disposed of: the slot and the lineage are free, the cost  *)
(* in the record is settled, and the queue is looked at again.             *)
RunnerReleases(t) ==
  /\ runner[t].at = "unwinding"
  /\ runner' = [runner EXCEPT ![t] = [NoRunner EXCEPT !.at = "gone", !.named = runner[t].named]]
  /\ active' = active \ {t}
  /\ lineage' = IF lineage = t THEN NoTask ELSE lineage
  /\ budget' = Settle(t, record[t].cost)
  /\ drain' = Scheduled
  /\ UNCHANGED <<record, writeChain, spawn, startQueue, queuedStarts, signalled, cancel, retry,
                 bridge, lost, limits, agentTrouble>>

-----------------------------------------------------------------------------
(* cancelTask, cancelAll, dispose *)

(* A caller knows the id of a task once spawnSubAgent has returned.         *)
CallCancel(t) ==
  /\ Trouble /\ bridge = "open" /\ spawn[t].at = "queued" /\ cancel[t]["user"] = "none"
  /\ cancel' = [cancel EXCEPT ![t]["user"] = "called"]
  /\ UNCHANGED <<record, writeChain, spawn, startQueue, queuedStarts, signalled, drain, active,
                 lineage, runner, budget, retry, bridge, lost, limits>>

(* The timers of retries are cleared, and what is queued or runs cancelled. *)
CancelAll ==
  /\ Trouble /\ bridge = "open" /\ \E t \in Task : spawn[t].at # "none"
  /\ retry' = [t \in Task |-> IF retry[t] = "timer" THEN "closed" ELSE retry[t]]
  /\ cancel' = [t \in Task |-> IF t \in queuedStarts \cup active /\ cancel[t]["user"] = "none"
                               THEN [cancel[t] EXCEPT !["user"] = "called"] ELSE cancel[t]]
  /\ UNCHANGED <<record, writeChain, spawn, startQueue, queuedStarts, signalled, drain, active,
                 lineage, runner, budget, bridge, lost, limits>>

(* A queued task leaves the queue; a runner is aborted, perhaps with a      *)
(* reason of the caller's, and writes the outcome itself; without a runner  *)
(* the cancellation is queued on the record's chain.                       *)
CancelReads(t, by, named) ==
  /\ cancel[t][by] = "called" /\ (named => by = "user")
  /\ IF record[t].status \in Ended \cup {"none"}
     THEN /\ cancel' = [cancel EXCEPT ![t][by] = "none"]
          /\ UNCHANGED <<writeChain, startQueue, queuedStarts, signalled, runner>>
     ELSE /\ queuedStarts' = queuedStarts \ {t}
          /\ startQueue' = SelectSeq(startQueue, LAMBDA u : u # t)
          /\ signalled' = IF t \in queuedStarts THEN signalled \cup {t} ELSE signalled
          /\ IF t \in active
             THEN /\ runner' = [runner EXCEPT ![t].aborted = TRUE, ![t].named = named]
                  /\ cancel' = [cancel EXCEPT ![t][by] = "none"]
                  /\ UNCHANGED writeChain
             ELSE /\ cancel' = [cancel EXCEPT ![t][by] = "posted"]
                  /\ Post(t, by)
                  /\ UNCHANGED runner
  /\ UNCHANGED <<record, spawn, drain, active, lineage, budget, retry, bridge, lost, limits,
                 agentTrouble>>

CancelSettles(t, by) == Settle(t, IF cancel[t][by] = "won" THEN 0 ELSE record[t].cost)
CancelEnds(t, by) ==
  /\ cancel[t][by] \in {"won", "late"}
  /\ cancel' = [cancel EXCEPT ![t][by] = "none"]
  /\ budget' = CancelSettles(t, by)
  /\ active' = active \ {t}
  /\ IF cancel[t][by] = "won" THEN Failed(t) ELSE UNCHANGED retry
  /\ UNCHANGED <<record, writeChain, spawn, startQueue, queuedStarts, signalled, drain, lineage,
                 runner, bridge, lost, limits, agentTrouble>>

(* Queued tasks are settled at no cost, runners are aborted and waited for, *)
(* not for ever.                                                           *)
SignalsAll == signalled \cup queuedStarts
Dispose ==
  /\ bridge = "open" /\ Trouble
  /\ bridge' = "closing"
  /\ retry' = [t \in Task |-> IF retry[t] = "timer" THEN "closed" ELSE retry[t]]
  /\ signalled' = SignalsAll
  /\ queuedStarts' = {} /\ startQueue' = <<>>
  /\ budget' = [budget EXCEPT !.reserved = @ \ queuedStarts, !.settled = @ \cup queuedStarts]
  /\ runner' = [t \in Task |-> IF t \in active THEN [runner[t] EXCEPT !.aborted = TRUE, !.named = TRUE]
                               ELSE runner[t]]
  /\ UNCHANGED <<record, writeChain, spawn, drain, active, lineage, cancel, lost, limits>>

Disposed ==
  /\ bridge = "closing"
  /\ bridge' = "closed"
  /\ active' = {} /\ lineage' = NoTask /\ budget' = [NoBudget EXCEPT !.spent = budget.spent]
  /\ UNCHANGED <<record, writeChain, spawn, startQueue, queuedStarts, signalled, drain, runner,
                 cancel, retry, lost, limits, agentTrouble>>

-----------------------------------------------------------------------------
(* _maybeRetryFailed, and restarts *)

(* error is the text of the event, which is "cancelled" unless the caller   *)
(* of cancelTask gave a reason.                                            *)
Deterministic(t) == record[t].status = "cancelled" /\ ~runner[t].named

(* A failure that may pass is retried, up to the limit.  The mutant does     *)
(* not count.                                                              *)
AnyAttempt(t, passing) == passing /\ ~Deterministic(t)
Retryable(t, passing) == passing /\ ~Deterministic(t) /\ spawn[t].attempt < RetryLimit
RetryReads(t, passing) ==
  /\ retry[t] = "reads"
  /\ retry' = [retry EXCEPT ![t] =
       IF Retryable(t, passing) /\ bridge = "open" THEN "timer" ELSE "closed"]
  /\ UNCHANGED <<record, writeChain, spawn, startQueue, queuedStarts, signalled, drain, active,
                 lineage, runner, cancel, budget, bridge, lost, limits, agentTrouble>>

(* The timer of the backoff: a new task with the same configuration, if it   *)
(* is admitted.                                                            *)
RetryFires(t) ==
  /\ retry[t] = "timer"
  /\ retry' = [retry EXCEPT ![t] = "closed"]
  /\ \/ \E u \in Task :
          /\ u \in Internal <=> t \in Internal
          /\ Admit(u, spawn[t].attempt + 1, t)
     \/ /\ \A u \in Task : record[u] = NoRecord /\ spawn[u].at = "none" => ~Admits(u)
        /\ UNCHANGED <<spawn, budget, writeChain>>
  /\ UNCHANGED <<record, startQueue, queuedStarts, signalled, drain, active, lineage, runner,
                 cancel, bridge, lost, limits, agentTrouble>>

AgentProcessRestarts ==
  /\ Trouble /\ \E t \in Task : record[t].status \notin Ended \cup {"none"}
  /\ writeChain' = [t \in Task |-> <<>>]
  /\ startQueue' = <<>> /\ queuedStarts' = {} /\ signalled' = {}
  /\ drain' = NotDraining /\ active' = {} /\ lineage' = NoTask
  /\ runner' = [t \in Task |-> NoRunner]
  /\ cancel' = [t \in Task |-> [c \in Callers |-> "none"]]
  /\ budget' = NoBudget
  /\ retry' = [t \in Task |-> "none"]
  /\ bridge' = "open"
  /\ spawn' = [t \in Task |-> IF spawn[t].at = "none" THEN NotSpawned ELSE [spawn[t] EXCEPT !.at = "refused"]]
  /\ UNCHANGED <<record, lost, limits>>

(* _failStaleActiveTasks: what an earlier process left behind.             *)
Stale(t) == record[t].status \in {"queued", "running"}
FailStaleTask(t) ==
  /\ spawn[t].at = "refused" /\ runner[t].at = "none" /\ writeChain[t] = <<>> /\ bridge = "open" /\ Stale(t)
  /\ record' = [record EXCEPT ![t] = [status |-> "failed", cost |-> 0]]
  /\ UNCHANGED <<writeChain, spawn, startQueue, queuedStarts, signalled, drain, active, lineage,
                 runner, cancel, budget, retry, bridge, lost, limits, agentTrouble>>

-----------------------------------------------------------------------------
AgentNext ==
  \/ \E t \in Task :
       \/ SpawnSubAgent(t) \/ HandOver(t) \/ ParentAborts(t) \/ Perform(t) \/ PerformFails(t)
       \/ RunnerSubmits(t) \/ RunnerTells(t) \/ RunnerReleases(t)
       \/ \E outcome \in Ended : RunnerEnds(t, outcome)
       \/ CallCancel(t)
       \/ \E by \in Callers, named \in BOOLEAN : CancelReads(t, by, named)
       \/ \E by \in Callers : CancelEnds(t, by)
       \/ \E passing \in BOOLEAN : RetryReads(t, passing)
       \/ RetryFires(t) \/ FailStaleTask(t)
  \/ DrainPicks \/ DrainEnds \/ DrainReads \/ DrainStarts \/ DrainCancelled
  \/ CancelAll \/ Dispose \/ Disposed \/ AgentProcessRestarts

AgentSpec == AgentInit /\ [][AgentNext]_agentVars

(* Awaits return, sessions end (they have a time limit), and a new bridge   *)
(* fails what an old process left.                                         *)
TaskGoesOn(t) ==
  \/ HandOver(t) \/ Perform(t)
  \/ RunnerSubmits(t) \/ RunnerTells(t) \/ RunnerReleases(t)
  \/ \E outcome \in Ended : RunnerEnds(t, outcome)
  \/ \E by \in Callers, named \in BOOLEAN : CancelReads(t, by, named)
  \/ \E by \in Callers : CancelEnds(t, by)
  \/ FailStaleTask(t)
DrainGoesOn == DrainPicks \/ DrainEnds \/ DrainReads \/ DrainStarts \/ DrainCancelled

AgentFairSpec ==
  /\ AgentSpec
  /\ \A t \in Task : WF_agentVars(TaskGoesOn(t))
  /\ WF_agentVars(DrainGoesOn)

-----------------------------------------------------------------------------
SubAgentTypeOK ==
  /\ \A t \in Task :
       /\ record[t].status \in {"none", "queued", "running"} \cup Ended
       /\ spawn[t].at \in {"none", "admitted", "written", "queued", "refused"}
       /\ spawn[t].attempt \in 0..RetryLimit /\ spawn[t].of \in Task \cup {NoTask}
       /\ runner[t].at \in {"none", "made", "starting", "begun", "works", "ending", "done", "failed",
                            "unwinding", "gone"}
       /\ retry[t] \in {"none", "reads", "timer", "closed"}
       /\ retry[t] = "timer" => spawn[t].attempt < RetryLimit
  /\ drain.at \in {"off", "loop", "reads", "cancels", "marks"}
  /\ queuedStarts \subseteq Task /\ active \subseteq Task /\ lineage \in Task \cup {NoTask}

Working == {t \in Task : runner[t].at = "works"}

(* Sessions at work never outnumber the slots, and tasks of ordinary        *)
(* callers never the seats, however many spawns, cancellations and retries  *)
(* are between two awaits (SubAgentBridge.ts:311).  A task that is cancelled *)
(* while the drain reads its record may be one too many: it will not work.  *)
SeatsHeld == bridge = "open" =>
  /\ Cardinality(Working) <= limits.slots
  /\ Cardinality(Outstanding \ (Internal \cup {t \in Task : runner[t].aborted})) <= limits.slots + limits.waiting

(* The budget can be overspent, since the cost that is settled may pass the *)
(* share that was reserved (SubAgentBridge.ts:1451-1463), but not more than *)
(* if each share of it had gone to a session that cost the most: whatever   *)
(* settles and is admitted meanwhile, a share is never promised twice.      *)
BudgetHeld == bridge = "open" =>
  budget.spent + Cardinality(budget.reserved) * limits.dearest <= limits.total * limits.dearest

(* A lineage is a single conversation and has a single executor.            *)
OneExecutor == limits.related => Cardinality(Working) <= 1

(* A reservation belongs to a task that somebody will still finish.         *)
NoLeak == bridge = "open" =>
  \A t \in budget.reserved \ lost :
    \/ spawn[t].at \in {"admitted", "written"} \/ t \in queuedStarts
    \/ runner[t].at \notin {"none", "gone"}
    \/ \E c \in Callers : cancel[t][c] # "none"
    \/ drain.task = t

(* No session is submitted once the bridge is disposed of.                  *)
QuietAfterDispose ==
  [][bridge # "open" => \A t \in Task : runner'[t].at = "works" => runner[t].at = "works"]_agentVars

(* A task that was queued reaches an outcome: it is started, cancelled, or  *)
(* failed by the next process, unless its record could not be read or       *)
(* written, or the bridge was disposed of.                                 *)
TaskEnds ==
  \A t \in Task :
    ~<>[](record[t].status \in {"queued", "running"} /\ t \notin lost /\ bridge = "open")

(* What a bridge hands out is what it has: seats, budget and lineages.      *)
AdmissionHolds == SeatsHeld /\ BudgetHeld /\ OneExecutor /\ NoLeak
=============================================================================
