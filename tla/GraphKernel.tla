---------------------------- MODULE GraphKernel -----------------------------
(***************************************************************************)
(* Schedulers ticking one graph-loop instance (GraphKernel.tick), and the  *)
(* operators and event sources that act on it between two transactions of  *)
(* a tick.  Every action is one GraphStore transaction, or one step of a   *)
(* scheduler between two transactions.                                     *)
(*                                                                         *)
(* Two schedulers tick the same instance when the wake claim of a stalled  *)
(* one expires; a scheduler that crashes loses what it holds in memory.    *)
(***************************************************************************)
EXTENDS GraphStore

CONSTANTS
  Scheduler,     \* processes that may run a tick of the instance
  MaxAttempts,   \* node.maxAttempts of the Agent nodes
  AgentResults,  \* the results the Agent executor may report
  Costs,         \* usage.costUsd of one segment
  Operators,     \* which operator actions happen
  WallClock,     \* whether maxWallTimeMs may run out
  ExecutorThrows,\* whether executors may throw of their own accord
  MaxSegments,   \* bound: claims of one activation
  MaxOperations  \* bound: operator actions, event deliveries and crashes

AgentResult == {"success", "failure", "exhausted", "blocked", "fatal",
                "retry", "aborted", "parked"}

ASSUME KernelAssumption ==
  /\ \A n \in NodeId : Graph.nodes[n].event \in Event \cup {None}
  /\ AgentResults \subseteq AgentResult
  /\ Costs \subseteq Nat /\ Graph.limits.cost \in Nat
  /\ Operators \subseteq {"pause", "resume", "stop"}
  /\ WallClock \in BOOLEAN /\ ExecutorThrows \in BOOLEAN
  /\ MaxAttempts \in Nat /\ MaxSegments \in Nat /\ MaxOperations \in Nat

VARIABLES
  pc,       \* where each scheduler is in its tick
  clock,    \* `now` of its tick: the claims and waits that can have run out by then
  todo,     \* prepared intents listed by its recoverPrepared
  work,     \* what it holds of each activation it claimed in this wave
  signals,  \* Join arrivals it has yet to announce
  seen,     \* the status its syncDerivedStatus derived from a snapshot
  op,       \* an operator's or event source's multi-step command
  ops       \* operator actions, deliveries and crashes so far

kernelVars == <<pc, clock, todo, work, signals, seen, op, ops>>
local      == <<clock, todo, work, signals, seen, op, ops>>
vars       == <<storeVars, kernelVars>>

Pc == {"idle", "recover", "release", "expire", "inbox", "due", "joins", "sync",
       "setStatus", "claim", "snapshot", "wave", "inbox2", "sync2", "setStatus2"}

\* st: "held" after the claim, "exec" once the wave's snapshot is read,
\* "finish" with a result, "commit" with a prepared intent.
NoWork == [st |-> "none", tok |-> 0, read |-> 0, leader |-> FALSE,
           result |-> None, usage |-> 0, intent |-> None]

KernelInit ==
  /\ Init
  /\ pc = [s \in Scheduler |-> "idle"]
  /\ clock = [s \in Scheduler |-> {}]
  /\ todo = [s \in Scheduler |-> {}]
  /\ work = [s \in Scheduler |-> [a \in Act |-> NoWork]]
  /\ signals = [s \in Scheduler |-> {}]
  /\ seen = [s \in Scheduler |-> "active"]
  /\ op = "none" /\ ops = 0

Go(s, to) == pc' = [pc EXCEPT ![s] = to]
At(s, from) == pc[s] = from

\* A tick that returns, throws or dies keeps nothing.
Forgets(s) ==
  /\ Go(s, "idle")
  /\ clock' = [clock EXCEPT ![s] = {}]
  /\ todo' = [todo EXCEPT ![s] = {}]
  /\ work' = [work EXCEPT ![s] = [a \in Act |-> NoWork]]
  /\ signals' = [signals EXCEPT ![s] = {}]
  /\ seen' = [seen EXCEPT ![s] = "active"]
Forgotten(s) == Forgets(s) /\ UNCHANGED <<op, ops>>

Crash(s) ==
  /\ pc[s] # "idle" /\ ops < MaxOperations /\ ops' = ops + 1
  /\ Forgets(s)
  /\ UNCHANGED <<op, storeVars>>

-----------------------------------------------------------------------------
(* Recovery: re-commit what a previous worker prepared *)

TickStart(s) ==
  /\ At(s, "idle") /\ status \notin Final
  /\ Go(s, "recover")
  /\ clock' = [clock EXCEPT ![s] = {Stamp(a) : a \in With("running") \cup Due}]
  /\ todo' = [todo EXCEPT ![s] = prepared]
  /\ UNCHANGED <<work, signals, seen, op, ops, storeVars>>

WallClockExhausted(s) ==
  /\ WallClock /\ At(s, "idle") /\ status \notin Final
  /\ SetStatus("exhausted")
  /\ UNCHANGED kernelVars

\* Join activations born in this step are to be announced to their group.
Arrivals == {<<act'[a].node, act'[a].group>> :
               a \in {b \in Act : /\ act[b].status = "unborn" /\ act'[b].status # "unborn"
                                  /\ Graph.nodes[act'[b].node].type = "join"}}
Announce(s) == signals' = [signals EXCEPT ![s] = @ \cup Arrivals]

Duplicate(i) == Key(i) \in committed

RecoverIntent(s, i) ==
  /\ At(s, "recover") /\ i \in todo[s]
  /\ \/ Commit(i) /\ Announce(s)
     \/ Duplicate(i) /\ UNCHANGED <<storeVars, signals>>
  /\ todo' = [todo EXCEPT ![s] = @ \ {i}]
  /\ UNCHANGED <<pc, clock, work, seen, op, ops>>

\* A throw out of recoverPrepared ends the tick.  Joins that were reached by
\* the intents committed before it are never announced.
RecoverThrows(s, i) ==
  /\ At(s, "recover") /\ i \in todo[s]
  /\ ~Duplicate(i) /\ ~Committable(i)
  /\ Forgotten(s)
  /\ UNCHANGED storeVars

DueByClock(s) == {a \in Due : Stamp(a) \in clock[s]}

\* All intents are committed before the first Join is announced.
NotifyJoin(s, signal) ==
  /\ \/ At(s, "wave")
     \/ At(s, "recover") /\ todo[s] = {}
  /\ signal \in signals[s]
  /\ ResumeDue(signal, IF At(s, "recover") THEN DueByClock(s) ELSE Due)
  /\ signals' = [signals EXCEPT ![s] = @ \ {signal}]
  /\ UNCHANGED <<pc, clock, todo, work, seen, op, ops>>

RecoverEnd(s) ==
  /\ At(s, "recover") /\ signals[s] = {} /\ todo[s] = {}
  /\ IF status \in Final THEN Forgotten(s)
     ELSE Go(s, "release") /\ UNCHANGED local
  /\ UNCHANGED storeVars

-----------------------------------------------------------------------------
(* Housekeeping before the claim.  A transaction that cannot change anything *)
(* for want of events or Joins in the graph is left out of the tick.         *)

AfterRelease == IF Event = {} THEN "due" ELSE "expire"
AfterDue     == IF \E n \in NodeId : Graph.nodes[n].type = "join" THEN "joins" ELSE "sync"
AfterWave    == IF Event = {} THEN "sync2" ELSE "inbox2"

ReleaseClaims(s, E) ==
  /\ At(s, "release")
  /\ \A a \in E : Stamp(a) \in clock[s]
  /\ ReleaseExpired(E)
  /\ Go(s, AfterRelease) /\ UNCHANGED local

ExpireEvents(s) ==
  /\ At(s, "expire")
  /\ \E X \in SUBSET Pending : ExpireStaleExternalEvents(X)
  /\ Go(s, "inbox") /\ UNCHANGED local

\* Mutant: the inbox is drained after the wave only.
DrainAfterWave(s) ==
  /\ \/ At(s, "inbox") /\ Go(s, "due") /\ UNCHANGED storeVars
     \/ At(s, "inbox2") /\ Go(s, "sync2") /\ ResumePendingExternalEvents
  /\ UNCHANGED local

DrainInbox(s) ==
  /\ \/ At(s, "inbox") /\ Go(s, "due")
     \/ At(s, "inbox2") /\ Go(s, "sync2")
  /\ ResumePendingExternalEvents
  /\ UNCHANGED local

ResumeTimers(s) ==
  /\ At(s, "due")
  /\ ResumeDue(None, DueByClock(s))
  /\ Go(s, AfterDue)
  /\ clock' = [clock EXCEPT ![s] = {}]      \* not read again in this tick
  /\ UNCHANGED <<todo, work, signals, seen, op, ops>>

ReconcileJoins(s) ==
  /\ At(s, "joins")
  /\ ReconcileWaitingJoins
  /\ Go(s, "sync") /\ UNCHANGED local

\* syncDerivedStatus reads a snapshot in one transaction ...
DerivedStatus ==
  IF With("ready") \cup With("running") # {} THEN "active"
  ELSE IF With("waiting") # {} THEN "waiting" ELSE "failed"

SyncRead(s) ==
  /\ pc[s] \in {"sync", "sync2"}
  /\ LET first == At(s, "sync")
         skip == status \in Final \cup {"paused"}
     IN \/ /\ ~skip
           /\ seen' = [seen EXCEPT ![s] = DerivedStatus]
           /\ Go(s, IF first THEN "setStatus" ELSE "setStatus2")
           /\ UNCHANGED <<clock, todo, work, signals, op, ops>>
        \/ skip /\ first /\ status = "paused" /\ Go(s, "claim") /\ UNCHANGED local
        \/ skip /\ (~first \/ status # "paused") /\ Forgotten(s)
  /\ UNCHANGED storeVars

\* ... and writes the status it derived in another.
SyncWrite(s) ==
  /\ pc[s] \in {"setStatus", "setStatus2"}
  /\ SetStatus(seen[s])
  /\ IF At(s, "setStatus") /\ status' \notin Final THEN Go(s, "claim") /\ UNCHANGED local
     ELSE Forgotten(s)

-----------------------------------------------------------------------------
(* The wave: claim, read one snapshot, execute, finish each activation *)

SetWork(s, a, w) == work' = [work EXCEPT ![s][a] = w]

Claim(s, S) ==
  /\ At(s, "claim")
  /\ \/ ClaimReady(S) /\ \A a \in S : act[a].seg < MaxSegments
     \/ status # "active" /\ S = {} /\ UNCHANGED storeVars
  /\ work' = [work EXCEPT ![s] =
                [a \in Act |-> IF a \in S THEN [NoWork EXCEPT !.st = "held", !.tok = act'[a].lease]
                                          ELSE NoWork]]
  /\ Go(s, "snapshot")
  /\ UNCHANGED <<clock, todo, signals, seen, op, ops>>

\* One snapshot for the whole wave, taken after the claim committed.
ReadSnapshot(s) ==
  /\ At(s, "snapshot")
  /\ work' = [work EXCEPT ![s] =
                [a \in Act |-> IF @[a].st = "held"
                               THEN [@[a] EXCEPT !.st = "exec", !.read = version,
                                                 !.leader = IsJoin(a) /\ BarrierLeader(a)]
                               ELSE @[a]]]
  /\ Go(s, "wave")
  /\ UNCHANGED <<clock, todo, signals, seen, op, ops, storeVars>>

\* What the executor of a's node may return.
WaitResult(a) ==
  IF act[a].resume = None THEN "parked"
  ELSE IF NodeOf(a).event = None THEN "timer" ELSE IF act[a].resume = "timer" THEN "timeout" ELSE "event"

JoinResult(a, leader) ==
  IF act[a].resume = "timer" THEN "timeout" ELSE IF leader THEN "success" ELSE "parked"

ExecutorResults(a, leader) ==
  CASE NodeOf(a).type = "agent" ->
         IF act[a].attempt > MaxAttempts THEN {"failure"}
         ELSE {k \in AgentResults : k = "retry" => act[a].attempt < MaxAttempts}
    [] NodeOf(a).type = "function" -> {"success", "failure"}
    [] NodeOf(a).type = "effect"   -> {"success", "failure", "parked"}
    [] NodeOf(a).type = "wait"     -> {WaitResult(a)}
    [] NodeOf(a).type = "join"     -> {JoinResult(a, leader)}
    [] NodeOf(a).type = "terminal" -> {"success"}

Usages(a) == IF NodeOf(a).type = "agent" THEN Costs ELSE {0}

\* enforceExecutionLimits reads the instance once more: an Agent segment that
\* would exceed maxCostUsd is turned into an 'exhausted' completion.
WithinLimits(a, result, usage) ==
  IF NodeOf(a).type = "agent" /\ cost + usage > Graph.limits.cost THEN "exhausted" ELSE result

Returns(s, a, result, usage) ==
  SetWork(s, a, [work[s][a] EXCEPT !.st = "finish", !.usage = usage,
                                   !.result = WithinLimits(a, result, usage)])

Execute(s, a) ==
  /\ work[s][a].st = "exec"
  /\ \E result \in ExecutorResults(a, work[s][a].leader), usage \in Usages(a) :
       Returns(s, a, result, usage)
  /\ UNCHANGED <<pc, clock, todo, signals, seen, op, ops, storeVars>>

\* An interrupted run hands the segment back whatever the node is.
Thrown(a) == {"aborted", IF NodeOf(a).type = "agent" THEN "blocked" ELSE "failure"}

\* The executor throws, or a heartbeat finds the claim gone and aborts it.
ExecuteThrows(s, a) ==
  /\ work[s][a].st = "exec"
  /\ ExecutorThrows \/ status # "active" \/ ~Holds(a, work[s][a].tok)
  /\ \/ status \notin {"active", "waiting"} /\ SetWork(s, a, NoWork)   \* superseded
     \/ /\ status \in {"active", "waiting"}
        /\ \E usage \in Usages(a), result \in Thrown(a) : Returns(s, a, result, usage)
  /\ UNCHANGED <<pc, clock, todo, signals, seen, op, ops, storeVars>>

ParkTimer(a) == IF NodeOf(a).type \in {"agent", "effect"} \/ NodeOf(a).timed THEN "armed" ELSE "none"
ParkEvent(a) == IF IsJoin(a) THEN "join" ELSE NodeOf(a).event

Releases(s, a) ==
  LET w == work[s][a] IN
  /\ \/ w.result = "retry"   /\ Retry(a, w.tok, TRUE, TRUE, w.usage)
     \/ w.result = "aborted" /\ Retry(a, w.tok, FALSE, FALSE, w.usage)
     \/ w.result = "blocked" /\ Block(a, w.tok, w.usage)
     \/ w.result = "fatal"   /\ FailStop(a, w.tok, w.usage)
     \/ w.result = "parked"  /\ Park(a, w.tok, ParkTimer(a), ParkEvent(a), w.usage)
  /\ SetWork(s, a, NoWork)

\* ParkLimitExceeded: the park becomes an 'exhausted' completion.
ParkRefused(s, a) ==
  LET w == work[s][a] IN
  /\ w.result = "parked" /\ Holds(a, w.tok)
  /\ ParkTimer(a) = "armed" /\ ~TimerBudgetLeft
  /\ SetWork(s, a, [w EXCEPT !.result = "exhausted"])
  /\ UNCHANGED storeVars

Prepares(s, a) ==
  LET w == work[s][a]
      i == [act |-> a, cont |-> act[a].cont, lease |-> w.tok, ver |-> act[a].ver,
            outcome |-> w.result, read |-> w.read, usage |-> w.usage]
  IN /\ w.result \in Outcome
     /\ PrepareCommit(i)
     /\ \E j \in prepared' : /\ Key(j) = Key(i)
                             /\ SetWork(s, a, [w EXCEPT !.st = "commit", !.intent = j])

\* The first transaction of finishActivation; it throws when the claim is lost.
Finish(s, a) ==
  /\ work[s][a].st = "finish"
  /\ \/ Releases(s, a) \/ ParkRefused(s, a) \/ Prepares(s, a)
     \/ ~Holds(a, work[s][a].tok) /\ SetWork(s, a, NoWork) /\ UNCHANGED storeVars
  /\ UNCHANGED <<pc, clock, todo, signals, seen, op, ops>>

\* Its second transaction, for a completed segment.
CommitIntent(s, a) ==
  LET i == work[s][a].intent IN
  /\ work[s][a].st = "commit"
  /\ \/ Commit(i) /\ Announce(s)
     \/ (Duplicate(i) \/ ~Committable(i)) /\ UNCHANGED <<storeVars, signals>>
  /\ SetWork(s, a, NoWork)
  /\ UNCHANGED <<pc, clock, todo, seen, op, ops>>

WaveEnd(s) ==
  /\ At(s, "wave") /\ signals[s] = {}
  /\ \A a \in Act : work[s][a] = NoWork
  /\ Go(s, AfterWave)
  /\ UNCHANGED <<local, storeVars>>

-----------------------------------------------------------------------------
(* Operators and event sources, in processes of their own *)

Operation(kind) == kind \in Operators /\ ops < MaxOperations /\ ops' = ops + 1
KernelIdle == UNCHANGED <<pc, clock, todo, work, signals, seen>>

OperatorPause == Operation("pause") /\ SetStatus("paused") /\ KernelIdle /\ UNCHANGED op
OperatorStop  == Operation("stop") /\ SetStatus("failed") /\ KernelIdle /\ UNCHANGED op

\* `loop resume` looks at a snapshot first and acts on it afterwards.
OperatorResume ==
  /\ Operation("resume") /\ op = "none" /\ status = "paused"
  /\ op' = IF ResumableTerminals # {} THEN "resumeTerminal" ELSE "resume"
  /\ KernelIdle /\ UNCHANGED storeVars

OperatorResumes ==
  /\ op \in {"resume", "resumeTerminal"}
  /\ \/ op = "resume" /\ SetStatus("active")
     \/ op = "resumeTerminal" /\ Resume
     \/ op = "resumeTerminal" /\ (status # "paused" \/ ResumableTerminals = {}) /\ UNCHANGED storeVars
  /\ op' = "none"
  /\ KernelIdle /\ UNCHANGED ops

\* deliverEvent: record the event; if it resumed something, look whether the
\* instance is paused; if not, activate it.  Three transactions.
DeliverEvent(e) ==
  /\ op = "none" /\ ops < MaxOperations /\ ops' = ops + 1
  /\ RecordExternalEvent(e)
  /\ op' = IF act' = act THEN "none" ELSE "delivered"
  /\ KernelIdle

DeliverLooks ==
  /\ op = "delivered"
  /\ op' = IF status = "paused" THEN "none" ELSE "activate"
  /\ KernelIdle /\ UNCHANGED <<ops, storeVars>>

DeliverActivates ==
  /\ op = "activate" /\ SetStatus("active")
  /\ op' = "none"
  /\ KernelIdle /\ UNCHANGED ops

ClockTicks == (\E a \in Act : TimerFires(a)) /\ UNCHANGED kernelVars

-----------------------------------------------------------------------------
\* The steps of a tick over any graph, and those only Joins and events call for.
Turn(s) ==
  \/ TickStart(s) \/ RecoverEnd(s) \/ ResumeTimers(s)
  \/ SyncRead(s) \/ SyncWrite(s) \/ ReadSnapshot(s) \/ WaveEnd(s)
  \/ \E i \in todo[s] : RecoverIntent(s, i) \/ RecoverThrows(s, i)
  \/ \E E \in SUBSET With("running") : ReleaseClaims(s, E)
  \/ \E S \in SUBSET With("ready") : Claim(s, S)
  \/ \E a \in Act : Execute(s, a) \/ ExecuteThrows(s, a) \/ Finish(s, a) \/ CommitIntent(s, a)

JoinsAndEvents(s) ==
  \/ ReconcileJoins(s) \/ ExpireEvents(s) \/ DrainInbox(s)
  \/ \E signal \in signals[s] : NotifyJoin(s, signal)

Tick(s) == Turn(s) \/ JoinsAndEvents(s)

Outside ==
  \/ OperatorPause \/ OperatorStop \/ OperatorResume \/ OperatorResumes
  \/ \E e \in Event : DeliverEvent(e)
  \/ DeliverLooks \/ DeliverActivates \/ ClockTicks

KernelNext ==
  \/ \E s \in Scheduler : Tick(s) \/ WallClockExhausted(s) \/ Crash(s)
  \/ Outside

KernelSpec == KernelInit /\ [][KernelNext]_vars

-----------------------------------------------------------------------------
(* Properties *)

KernelTypeOK ==
  /\ TypeOK
  /\ pc \in [Scheduler -> Pc]
  /\ clock \in [Scheduler -> SUBSET Stamps]
  /\ todo \in [Scheduler -> SUBSET Intent]
  /\ \A s \in Scheduler, a \in Act :
       LET w == work[s][a] IN
       /\ w.st \in {"none", "held", "exec", "finish", "commit"}
       /\ w.tok \in Nat /\ w.read \in Nat /\ w.usage \in Nat /\ w.leader \in BOOLEAN
       /\ w.result \in AgentResult \cup Outcome \cup {None}
       /\ w.intent \in Intent \cup {None}
  /\ signals \in [Scheduler -> SUBSET (NodeId \X Seq(Act \X RouteId))]
  /\ seen \in [Scheduler -> InstanceStatus]
  /\ op \in {"none", "resume", "resumeTerminal", "delivered", "activate"}
  /\ ops \in 0..MaxOperations

\* Two segments never both apply a State update computed from the same State: a
\* commit that advances the State of a serializable graph carries an output computed
\* from the State it advances, whoever claimed, prepared, recovered or committed it.
\* The output of a segment that was stale once too often is not used: it commits as
\* 'exhausted', with the reason in its place.
Committing(s) == \* the intents that this step of s hands to commit()
  (todo[s] \ todo'[s]) \cup
  {work[s][a].intent : a \in {a \in Act : work[s][a].st = "commit" /\ work'[s][a].st = "none"}}
SerializableRead ==
  [][Graph.serializable /\ version' # version =>
       \A s \in Scheduler : \A i \in Committing(s) :
         i.read = version \/ (Stale(i) /\ EffectiveOutcome(i) = "exhausted")]_vars

\* An event that was accepted before the deadline of a wait wins over that
\* deadline, even when one tick sees both (GraphKernel.tick drains the inbox
\* before it resumes timers).  In a graph that has Joins as well it need not: the
\* announcement of an arrival resumes all due timers, before the inbox is drained.
DeadlineLoses ==
  \A a \in With("waiting") :
    act'[a].status = "ready" /\ act'[a].resume = "timer" /\ act'[a].cont # act[a].cont
      => \A e \in Pending : act[a].event = e => Stamp(a) \in evt[e].late
EventBeatsTimer == [][DeadlineLoses]_vars

\* The overshoot of maxCostUsd is bounded: crashes, retries, replays and resumptions
\* never spend beyond it again.  What each running segment had computed before the limit
\* was reached is still charged, and so is the commit that exhausts the instance or
\* finds no route; block() can reopen an instance that failed for want of a route.
CostBounded ==
  \A u \in Costs :
    (\A v \in Costs : v <= u) => cost <= Graph.limits.cost + (2 * Graph.limits.running + 1) * u

\* The limits of a graph hold, whichever transactions add up to them: executing
\* activations, timers that park, retry and replay ask for, and a cost that goes over
\* by no more than what was executing.
LimitsHold == WithinCapacity /\ TimersWithinBudget /\ CostBounded

\* A Join fires once for its fork group, and complete: whatever order its members
\* arrive, are released, re-execute or time out in.
JoinsRight == JoinsOnce /\ JoinHasAll

\* A paused instance is gated on repair: it becomes active again only when an
\* operator resumes it.
PauseGate ==
  [][status = "paused" /\ status' \in {"active", "waiting"} =>
       op \in {"resume", "resumeTerminal"} /\ op' = "none"]_vars

\* A prepared commit can be replayed after its worker died: while the instance
\* runs, none of them makes recoverPrepared throw.
NoPoisonedIntent ==
  status \in {"active", "waiting"} => \A i \in prepared : Duplicate(i) \/ Committable(i)

-----------------------------------------------------------------------------
(* Fairness: the daemon keeps ticking the instance, armed timers fire, and a *)
(* lease that nobody renews is found expired by some later tick.             *)

KernelFairSpec ==
  /\ KernelSpec
  /\ \A s \in Scheduler : WF_vars(Tick(s))
  /\ \A s \in Scheduler :
       SF_vars(ReleaseClaims(s, With("running")) /\ With("running") # {})
  /\ WF_vars(ClockTicks)

\* A graph that neither parks for good nor is paused reaches a final status,
\* although crashes lose Join announcements and leave claims behind.
Progress == ~<>[](status \notin Final)

=============================================================================
