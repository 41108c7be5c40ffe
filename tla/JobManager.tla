---------------------------- MODULE JobManager ----------------------------
(***************************************************************************)
(* Asynchronous jobs (jobs/JobManager.ts, JobExecutor.ts, JobStore.ts):    *)
(* handlers run in the slots of one process; every change of a job's       *)
(* status is queued on the job's own chain of disk writes; callers wait    *)
(* for an outcome that is told only after its write.  Handlers may ignore  *)
(* an abort, writes may fail, and the process may end at any time.         *)
(***************************************************************************)
EXTENDS Integers, Sequences, FiniteSets, SequencesExt

CONSTANTS
  Job,
  MaxConcurrent,
  QueueSizes,       \* the queue limits an executor may be made with
  Retries,          \* write attempts of _persistWithRetry
  MaxTrouble,       \* bound on failed writes and submissions, and restarts
  MaxCancels        \* bound on cancellations

JobAssumption ==
  /\ MaxConcurrent \in Nat \ {0} /\ QueueSizes \subseteq Nat
  /\ Retries \in Nat \ {0} /\ MaxTrouble \in Nat /\ MaxCancels \in Nat
ASSUME JobAssumption

VARIABLES
  job,          \* the runtime records: status, revision, outcome
  exec,         \* the executor's side of each job
  queue,        \* jobs waiting for a slot
  running,      \* the executor's count of slots in use
  chain,        \* snapshots still to be written, and failed attempts of the first
  lastResort,   \* the write outside the chain after the retries ran out
  jobDisk,      \* the record on disk
  waiter,       \* what awaitJob has told its caller
  maxQueued,    \* the executor's queue limit
  trouble, cancels

jobVars == <<job, exec, queue, running, chain, lastResort, jobDisk, waiter, maxQueued,
             trouble, cancels>>

Outcomes == {"completed", "failed", "cancelled"}
Terminal == Outcomes
Active == {"submitted", "queued", "running"}
(* persisted is lastPersistedRevision. *)
NoJob == [status |-> "none", rev |-> 0, persisted |-> 0, result |-> "none"]
NotExecuting == [state |-> "none", aborted |-> FALSE, reported |-> FALSE]
NoChain == [writes |-> <<>>, failed |-> 0]
NoWrite == [status |-> "none", rev |-> 0]

JobInit ==
  /\ job = [j \in Job |-> NoJob]
  /\ exec = [j \in Job |-> NotExecuting]
  /\ queue = <<>> /\ running = 0
  /\ chain = [j \in Job |-> NoChain]
  /\ lastResort = [j \in Job |-> NoWrite]
  /\ jobDisk = [j \in Job |-> NoWrite]
  /\ waiter = [j \in Job |-> "none"]
  /\ maxQueued \in QueueSizes
  /\ trouble = 0 /\ cancels = 0

(* _transition, for several jobs at once: to is the new status of each.  A  *)
(* terminal status comes with the result that later callers are given.     *)
Transition(to) ==
  /\ job' = [j \in Job |->
       IF j \notin DOMAIN to THEN job[j]
       ELSE [status |-> to[j], rev |-> job[j].rev + 1, persisted |-> job[j].persisted,
             result |-> IF to[j] \in Outcomes THEN to[j] ELSE job[j].result]]
  /\ chain' = [j \in Job |->
       IF j \notin DOMAIN to THEN chain[j]
       ELSE [writes |-> Append(chain[j].writes, [status |-> to[j], rev |-> job[j].rev + 1]),
             failed |-> chain[j].failed]]

-----------------------------------------------------------------------------
(* LocalExecutor *)

QueueRoom == Len(queue) < maxQueued

(* submit: the record is written first; then a slot, the queue, or refusal. *)
SubmitJob(j) ==
  /\ job[j].status = "none" /\ jobDisk[j] = NoWrite
  /\ jobDisk' = [jobDisk EXCEPT ![j] = [status |-> "submitted", rev |-> 0]]
  /\ \/ /\ running < MaxConcurrent
        /\ Transition([i \in {j} |-> "running"])
        /\ exec' = [exec EXCEPT ![j].state = "running"]
        /\ running' = running + 1
        /\ UNCHANGED queue
     \/ /\ running >= MaxConcurrent /\ QueueRoom
        /\ Transition([i \in {j} |-> "queued"])
        /\ exec' = [exec EXCEPT ![j].state = "queued"]
        /\ queue' = Append(queue, j)
        /\ UNCHANGED running
     \/ /\ running >= MaxConcurrent /\ ~QueueRoom
        /\ Transition([i \in {j} |-> "failed"])
        /\ UNCHANGED <<exec, queue, running>>
  /\ UNCHANGED <<lastResort, waiter, maxQueued, trouble, cancels>>

(* The first write fails, and with it the submission: the runtime record     *)
(* stays, a job that nobody executes and whose id nobody was given.        *)
SubmitFails(j) ==
  /\ job[j].status = "none" /\ jobDisk[j] = NoWrite /\ trouble < MaxTrouble
  /\ trouble' = trouble + 1
  /\ job' = [job EXCEPT ![j].status = "submitted"]
  /\ UNCHANGED <<exec, queue, running, chain, lastResort, jobDisk, waiter, maxQueued, cancels>>

(* releaseResources and reportTerminal when a handler settles: the slot goes *)
(* to the head of the queue, the outcome is reported unless the watchdog did. *)
Reports(j) == ~exec[j].reported
\* _drainQueue looks after running--; the mutant before it.
SlotFreeBefore == running < MaxConcurrent
SlotFree == running - 1 < MaxConcurrent
HandlerSettles(j, how) ==
  /\ exec[j].state = "running"
  /\ LET outcome == IF exec[j].aborted THEN "cancelled" ELSE how
         told == IF Reports(j) THEN {j} ELSE {}
         next == IF queue # <<>> /\ SlotFree THEN {Head(queue)} ELSE {}
     IN  /\ Transition([i \in told \cup next |-> IF i \in next THEN "running" ELSE outcome])
         /\ exec' = [i \in Job |-> CASE i = j -> [exec[j] EXCEPT !.state = "settled", !.reported = TRUE]
                                     [] i \in next -> [exec[i] EXCEPT !.state = "running"]
                                     [] OTHER -> exec[i]]
         /\ queue' = IF next = {} THEN queue ELSE Tail(queue)
         /\ running' = (running - 1) + Cardinality(next)
  /\ UNCHANGED <<lastResort, jobDisk, waiter, maxQueued, trouble, cancels>>

(* The watchdog reports a failure; the slot stays with the handler.        *)
Watchdog(j) ==
  /\ exec[j].state = "running" /\ ~exec[j].reported
  /\ exec' = [exec EXCEPT ![j].aborted = TRUE, ![j].reported = TRUE]
  /\ Transition([i \in {j} |-> "failed"])
  /\ UNCHANGED <<queue, running, lastResort, jobDisk, waiter, maxQueued, trouble, cancels>>

CancelJob(j) ==
  /\ cancels < MaxCancels /\ job[j].status \in Active
  /\ cancels' = cancels + 1
  /\ \/ /\ exec[j].state = "running"
        /\ exec' = [exec EXCEPT ![j].aborted = TRUE]
        /\ UNCHANGED <<job, queue, chain>>
     \/ /\ exec[j].state = "queued"
        /\ exec' = [exec EXCEPT ![j].state = "settled"]
        /\ \E i \in 1..Len(queue) : queue[i] = j /\ queue' = RemoveAt(queue, i)
        /\ Transition([i \in {j} |-> "cancelled"])
  /\ UNCHANGED <<running, lastResort, jobDisk, waiter, maxQueued, trouble>>

-----------------------------------------------------------------------------
(* The disk writes of a job *)

(* Once the write of an outcome has ended, whoever waits is told: a         *)
(* completion that could not be written is an error.  The mutant does not   *)
(* look.                                                                   *)
ToldAnyway(j, write, written) ==
  IF write.status \notin Outcomes \/ waiter[j] # "waiting" THEN waiter
  ELSE [waiter EXCEPT ![j] = IF write.status = "completed" THEN "resolved" ELSE "rejected"]
Told(j, write, written) ==
  IF write.status \notin Outcomes \/ waiter[j] # "waiting" THEN waiter
  ELSE [waiter EXCEPT ![j] = IF write.status = "completed" /\ written THEN "resolved" ELSE "rejected"]

(* _persistSnapshot: the first write of the chain is made unless a later     *)
(* revision is on disk.                                                    *)
Current(j, write) == write.rev >= job[j].persisted
WriteSnapshot(j) ==
  /\ chain[j].writes # <<>>
  /\ LET write == Head(chain[j].writes)
     IN  /\ jobDisk' = IF Current(j, write) THEN [jobDisk EXCEPT ![j] = write] ELSE jobDisk
         /\ job' = IF Current(j, write) THEN [job EXCEPT ![j].persisted = write.rev] ELSE job
         /\ chain' = [chain EXCEPT ![j] = [writes |-> Tail(@.writes), failed |-> 0]]
         /\ waiter' = Told(j, write, TRUE)
  /\ UNCHANGED <<exec, queue, running, lastResort, maxQueued, trouble, cancels>>

(* An attempt fails.  When none is left the write is dropped; a job that is *)
(* still active is marked failed, its waiters are told, and the mark is    *)
(* written outside the chain.                                              *)
WriteFails(j) ==
  /\ chain[j].writes # <<>> /\ trouble < MaxTrouble
  /\ trouble' = trouble + 1
  /\ LET write == Head(chain[j].writes)
         lost == chain[j].failed + 1 = Retries
         active == job[j].status \notin Terminal
     IN  /\ chain' = [chain EXCEPT ![j] = [writes |-> IF lost THEN Tail(@.writes) ELSE @.writes,
                                          failed |-> IF lost THEN 0 ELSE @.failed + 1]]
         /\ IF lost /\ active
            THEN /\ job' = [job EXCEPT ![j] = [status |-> "failed", rev |-> @.rev + 1,
                                              persisted |-> @.rev + 1, result |-> @.result]]
                 /\ lastResort' = [lastResort EXCEPT ![j] = [status |-> "failed", rev |-> job[j].rev + 1]]
                 /\ waiter' = [waiter EXCEPT ![j] = IF @ = "waiting" THEN "rejected" ELSE @]
            ELSE /\ UNCHANGED <<job, lastResort>>
                 /\ waiter' = IF lost THEN Told(j, write, FALSE) ELSE waiter
  /\ UNCHANGED <<exec, queue, running, jobDisk, maxQueued, cancels>>

LastResortWrite(j) ==
  /\ lastResort[j] # NoWrite
  /\ lastResort' = [lastResort EXCEPT ![j] = NoWrite]
  /\ \E written \in BOOLEAN : jobDisk' = IF written THEN [jobDisk EXCEPT ![j] = lastResort[j]] ELSE jobDisk
  /\ UNCHANGED <<job, exec, queue, running, chain, waiter, maxQueued, trouble, cancels>>

-----------------------------------------------------------------------------
(* Callers, and restarts *)

\* submit or a recovered session has given the caller the id.
AwaitJob(j) ==
  /\ job[j].status \notin {"none", "submitted"} /\ waiter[j] = "none"
  /\ waiter' = [waiter EXCEPT ![j] =
       CASE job[j].result # "none" -> "resolved"
         [] job[j].result = "none" /\ job[j].status \in Terminal -> "rejected"
         [] OTHER -> "waiting"]
  /\ UNCHANGED <<job, exec, queue, running, chain, lastResort, jobDisk, maxQueued, trouble, cancels>>

ProcessRestarts ==
  /\ trouble < MaxTrouble /\ \E j \in Job : job[j] # NoJob
  /\ trouble' = trouble + 1
  /\ job' = [j \in Job |-> NoJob]
  /\ exec' = [j \in Job |-> NotExecuting]
  /\ queue' = <<>> /\ running' = 0
  /\ chain' = [j \in Job |-> NoChain]
  /\ lastResort' = [j \in Job |-> NoWrite]
  /\ waiter' = [j \in Job |-> "none"]
  /\ UNCHANGED <<jobDisk, maxQueued, cancels>>

(* loadSession, reattach: a job that was active is failed, on disk too      *)
(* unless that write fails.                                                *)
Normalised(j) ==
  IF jobDisk[j].status \in Active THEN [status |-> "failed", rev |-> jobDisk[j].rev + 1] ELSE jobDisk[j]
Recover(j) ==
  /\ job[j] = NoJob /\ jobDisk[j] # NoWrite
  /\ job' = [job EXCEPT ![j] = [status |-> Normalised(j).status, rev |-> Normalised(j).rev,
                                persisted |-> Normalised(j).rev, result |-> "none"]]
  /\ jobDisk' \in {jobDisk, [jobDisk EXCEPT ![j] = Normalised(j)]}
  /\ UNCHANGED <<exec, queue, running, chain, lastResort, waiter, maxQueued, trouble, cancels>>

JobNext ==
  \/ \E j \in Job :
       \/ SubmitJob(j) \/ SubmitFails(j) \/ Watchdog(j) \/ CancelJob(j)
       \/ \E how \in {"completed", "failed"} : HandlerSettles(j, how)
       \/ WriteSnapshot(j) \/ WriteFails(j) \/ LastResortWrite(j)
       \/ AwaitJob(j) \/ Recover(j)
  \/ ProcessRestarts

JobSpec == JobInit /\ [][JobNext]_jobVars

(* Handlers settle, the disk answers, and a restarted host recovers.        *)
JobFairness ==
  \A j \in Job :
    /\ WF_jobVars(\E how \in {"completed", "failed"} : HandlerSettles(j, how))
    /\ WF_jobVars(WriteSnapshot(j))
    /\ WF_jobVars(Recover(j))

JobFairSpec == JobSpec /\ JobFairness

-----------------------------------------------------------------------------
JobTypeOK ==
  /\ \A j \in Job :
       /\ job[j].status \in {"none"} \cup Active \cup Terminal /\ job[j].rev \in Nat
       /\ job[j].result \in {"none"} \cup Outcomes
       /\ exec[j].state \in {"none", "queued", "running", "settled"}
       /\ jobDisk[j].status \in {"none"} \cup Active \cup Terminal
       /\ waiter[j] \in {"none", "waiting", "resolved", "rejected"}
  /\ running \in 0..MaxConcurrent /\ Len(queue) <= maxQueued

(* Handlers that have not settled never outnumber the slots, also when      *)
(* watchdogs have long reported them as failed (JobExecutor.ts:30).        *)
SlotsHold == Cardinality({j \in Job : exec[j].state = "running"}) <= MaxConcurrent

(* A job has one outcome: the handler, the watchdog and a cancellation race *)
(* for it, and the first one stands for every caller.                      *)
OneOutcome == [][\A j \in Job : job[j].result # "none" /\ job'[j] # NoJob
                                  => job'[j].result = job[j].result]_jobVars

(* The record on disk does not go back, whatever retries delay; only the    *)
(* last-resort write is not ordered with the chain.                        *)
DiskInOrder ==
  [][\A j \in Job : jobDisk'[j].rev < jobDisk[j].rev => lastResort[j] # NoWrite]_jobVars

(* A caller that waited is told of a completion only when a restart would   *)
(* find it.                                                                *)
ToldWhenDurable ==
  [][\A j \in Job : waiter[j] = "waiting" /\ waiter'[j] = "resolved"
                      => jobDisk'[j].status = "completed"]_jobVars

(* Nobody waits for ever: not for a job whose process died, whose writes    *)
(* failed, or that was cancelled in the queue.                             *)
WaitersAnswered == \A j \in Job : ~<>[](waiter[j] = "waiting")
=============================================================================
