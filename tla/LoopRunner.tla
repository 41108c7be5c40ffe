----------------------------- MODULE LoopRunner -----------------------------
(***************************************************************************)
(* A daemon that keeps one graph-loop instance going (runner.ts and        *)
(* daemon.ts), over its wakes (WakeStore), with the operators' pause and   *)
(* resume (cli.ts) and the delivery of external events                     *)
(* (GraphEventDelivery.ts).  Each action is one transaction of the graph's *)
(* store or of the wake store, or one read.                                *)
(*                                                                         *)
(* The graph is abstracted to one activation that is ready, runs, waits    *)
(* for an event or a timer, and at last ends the instance; GraphKernel     *)
(* has the whole tick.  What matters here is whether somebody will tick    *)
(* the instance when it needs to be ticked, and that only one does.        *)
(***************************************************************************)
EXTENDS WakeStore

CONSTANTS
  Runner,        \* bound: wakes of this loop in flight; other loops have the daemon's other slots
  Disturbances,  \* bound: what may happen to the daemon's work, each at most once
  MaxHappen      \* bound: how many of them in one behaviour

ASSUME RunnerAssumption ==
  /\ Runner = Owner /\ None \notin Runner \cup Wake
  /\ Wake \subseteq Nat
  /\ MaxAttempts \in Nat /\ MaxHappen \in Nat
  /\ Disturbances \subseteq {"death", "stall", "throw", "event", "lost delivery", "pause", "resume"}

VARIABLES
  status,   \* of the instance: `final` for done, exhausted and failed
  act,      \* the activation
  holder,   \* who runs it
  timer,    \* its wakeAt while it waits
  inbox,    \* the latest external event, while it is not consumed
  pc, job,  \* the runners: program counter, and what they know
  poll,     \* prepareAndClaim: program counter, and what it has read
  op,       \* an operator's command between its two transactions
  dlv,      \* an event delivery between its transactions
  happened  \* the disturbances so far

graph == <<status, act, holder, timer, inbox>>
vars  == <<wake, graph, pc, job, poll, op, dlv, happened>>

Waits == {"none", "later", "due"}
InTick == {"housekeep", "sync", "write", "claim", "exec", "timer", "drain", "sync2", "write2", "final"}
RunnerPc == {"idle", "start", "release", "sweep", "error", "giveUpRelease", "giveUpSweep"} \cup InTick
PollPc == {"reconcile", "list", "record", "cancel", "snapshot", "timer", "graph", "claim"}

\* failed: a kernel failure to throw at the end; progressed: whether this tick
\* claimed; derived: what syncDerivedStatus found.
NoJob == [wake |-> None, failed |-> FALSE, progressed |-> FALSE, derived |-> "active"]

\* seen: targets of the wakes it listed; bare: the graph is active and has no wake;
\* timed: the deadline of the wait had come.
NoPoll == [pc |-> "reconcile", seen |-> {}, bare |-> FALSE, timed |-> FALSE]
Held   == {job[r].wake : r \in Runner} \ {None}
Idle   == {r \in Runner : pc[r] = "idle"}

Init ==
  /\ WakeInit
  /\ status = "active" /\ act = "ready" /\ holder = None /\ timer = "none" /\ inbox = "none"
  /\ pc = [r \in Runner |-> "idle"] /\ job = [r \in Runner |-> NoJob]
  /\ poll = NoPoll
  /\ op = "none" /\ dlv = "none"
  /\ happened = {}

\* A resume and a lost delivery follow upon a pause and an event and do not count.
Happens(what) ==
  /\ what \in Disturbances \ happened
  /\ happened' = happened \cup {what}
  /\ Cardinality(happened' \ {"resume", "lost delivery"}) <= MaxHappen

Go(r, from, to) == pc[r] = from /\ pc' = [pc EXCEPT ![r] = to]
Ends(r) == pc' = [pc EXCEPT ![r] = "idle"] /\ job' = [job EXCEPT ![r] = NoJob]

-----------------------------------------------------------------------------
(* Changes of the graph *)

\* setStatus: pausing hands the running activation back.
SetStatus(st) ==
  IF status = "final" THEN UNCHANGED graph
  ELSE /\ status' = st
       /\ act' = IF st = "paused" /\ act \in {"running", "expired"} THEN "ready" ELSE IF st = "final" THEN "none" ELSE act
       /\ holder' = IF st \in {"paused", "final"} THEN None ELSE holder
       /\ UNCHANGED <<timer, inbox>>

\* An event resumes a wait if it came before its deadline.
InboxMatches == act = "waiting" /\ inbox = "pending"

ResumeByInbox ==
  act' = "ready" /\ timer' = "none" /\ inbox' = "none" /\ UNCHANGED <<status, holder>>

Derived == IF act \in {"ready", "running", "expired"} THEN "active" ELSE "waiting"

-----------------------------------------------------------------------------
(* prepareAndClaim, at each poll of the daemon *)

PollGo(from, to) == poll.pc = from /\ poll' = [poll EXCEPT !.pc = to]
PollEnds(from) == poll.pc = from /\ poll' = [NoPoll EXCEPT !.pc = "claim"]
PollOnly == UNCHANGED <<graph, pc, job, op, dlv, happened>>

PollReconcile == PollGo("reconcile", "list") /\ ReconcileOrphans /\ PollOnly

\* The wakes are listed once, before the instance is read.  Only timers name an
\* activation, so the targets are all that matters of them.
PollList ==
  /\ poll.pc = "list"
  /\ poll' = [poll EXCEPT !.pc = "record",
                          !.seen = {wake[w].target : w \in LiveWakes}]
  /\ UNCHANGED wake /\ PollOnly

\* It goes on with what matters of the list and the status.
Looked(st) ==
  [poll EXCEPT !.pc = "snapshot", !.seen = @ \cap {"activation"},
               !.bare = st = "active" /\ "graph" \notin poll.seen]

\* Mutant: a paused instance is looked after like one that goes on.
PausedToo ==
  /\ poll.pc = "record"
  /\ poll' = IF status # "final" THEN Looked("active") ELSE [poll EXCEPT !.pc = "cancel"]
  /\ UNCHANGED wake /\ PollOnly

PollRecord ==
  /\ poll.pc = "record"
  /\ poll' = IF status \notin {"final", "paused"} THEN Looked(status)
             ELSE IF poll.seen # {} THEN [poll EXCEPT !.pc = "cancel"]
             ELSE [NoPoll EXCEPT !.pc = "claim"]
  /\ UNCHANGED wake /\ PollOnly

PollCancel == PollEnds("cancel") /\ CancelForLoop(Held) /\ PollOnly

PollSnapshot ==
  /\ poll.pc = "snapshot"
  /\ LET timed == /\ act = "waiting" /\ timer # "none"
                  /\ "activation" \notin poll.seen
     IN poll' = [poll EXCEPT !.pc = IF timed THEN "timer" ELSE "graph",
                             !.timed = timed /\ timer = "due", !.seen = {}]
  /\ UNCHANGED wake /\ PollOnly

PollTimer ==
  /\ poll.pc = "timer" /\ poll' = [poll EXCEPT !.pc = "graph", !.timed = FALSE]
  /\ Schedule("timer", "activation", poll.timed, Held)
  /\ PollOnly

PollGraph ==
  /\ PollEnds("graph")
  /\ IF poll.bare
     THEN Schedule("timer", "graph", TRUE, Held)
     ELSE UNCHANGED wake
  /\ PollOnly

PollClaim ==
  /\ poll.pc = "claim" /\ poll' = NoPoll
  /\ IF Idle = {} \/ Claimable = {}
     THEN UNCHANGED <<wake, pc, job>>
     ELSE LET r == CHOOSE r \in Idle : TRUE
          IN \E w \in Claimable :
               /\ ClaimDue(w, r)
               /\ pc' = [pc EXCEPT ![r] = "start"]
               /\ job' = [job EXCEPT ![r] = [NoJob EXCEPT !.wake = w]]
  /\ UNCHANGED <<graph, op, dlv, happened>>

-----------------------------------------------------------------------------
(* runClaimedWake, and the tick it runs *)

Start(r) ==
  /\ pc[r] = "start"
  /\ IF status \in {"final", "paused"}
     THEN ReleaseWake(job[r].wake, r, "cancelled", FALSE) /\ Ends(r)
     ELSE Go(r, "start", "housekeep") /\ UNCHANGED <<wake, job>>
  /\ UNCHANGED <<graph, poll, op, dlv, happened>>

TickOnly == UNCHANGED <<wake, poll, op, dlv, happened>>

\* Recovery, expired leases, the inbox, due timers; the last two in this order.
Housekeep(r) ==
  /\ Go(r, "housekeep", "sync")
  /\ \/ /\ act = "expired"
        /\ act' = "ready" /\ holder' = None /\ UNCHANGED <<status, timer, inbox>>
     \/ InboxMatches /\ ResumeByInbox
     \/ /\ act = "waiting" /\ timer = "due" /\ ~InboxMatches
        /\ act' = "ready" /\ timer' = "none"
        /\ inbox' = IF inbox = "late" THEN "pending" ELSE inbox
        /\ UNCHANGED <<status, holder>>
     \/ /\ act # "expired" /\ ~(act = "waiting" /\ timer = "due") /\ ~InboxMatches
        /\ UNCHANGED graph
  /\ UNCHANGED job /\ TickOnly

SyncRead(r) ==
  /\ pc[r] \in {"sync", "sync2"}
  /\ LET skip == status \in {"final", "paused"}
         first == pc[r] = "sync"
     IN /\ job' = [job EXCEPT ![r].derived = IF skip THEN status ELSE Derived]
        /\ pc' = [pc EXCEPT ![r] = IF skip THEN IF ~first THEN "final" ELSE IF status = "final" THEN "release" ELSE "claim"
                                   ELSE IF first THEN "write" ELSE "write2"]
  /\ UNCHANGED graph /\ TickOnly

SyncWrite(r) ==
  /\ pc[r] \in {"write", "write2"}
  /\ SetStatus(job[r].derived)
  /\ job' = [job EXCEPT ![r].derived = IF pc[r] = "write" /\ status' # "final" THEN "active" ELSE status']
  /\ pc' = [pc EXCEPT ![r] = IF pc[r] = "write2" THEN "final" ELSE IF status' = "final" THEN "release" ELSE "claim"]
  /\ TickOnly

ClaimReady(r) ==
  /\ pc[r] = "claim"
  /\ IF status = "active" /\ act = "ready"
     THEN /\ act' = "running" /\ holder' = r
          /\ job' = [job EXCEPT ![r].progressed = TRUE]
          /\ Go(r, "claim", "exec")
          /\ UNCHANGED <<status, timer, inbox>>
     ELSE Go(r, "claim", "drain") /\ UNCHANGED <<graph, job>>
  /\ TickOnly

\* The segment ends: the next one is ready, it waits, or the instance ends.
Finish(r) ==
  /\ pc[r] = "exec" /\ holder = r
  /\ holder' = None
  /\ \/ /\ act' = "ready" /\ UNCHANGED <<status, timer, inbox>>
        /\ Go(r, "exec", "drain") /\ UNCHANGED job
     \/ /\ act' = "waiting" /\ timer' \in {"none", "later"} /\ UNCHANGED <<status, inbox>>
        /\ Go(r, "exec", IF timer' = "later" THEN "timer" ELSE "drain") /\ UNCHANGED job
     \/ /\ act' = "none" /\ status' = "final" /\ UNCHANGED <<timer, inbox>>
        /\ Go(r, "exec", "drain") /\ UNCHANGED job
  /\ TickOnly

\* Whoever lost the activation throws, and is ignored when that was a pause.
FinishLost(r) ==
  /\ Go(r, "exec", "drain") /\ holder # r
  /\ job' = [job EXCEPT ![r].failed = status \notin {"paused", "final"}]
  /\ UNCHANGED graph /\ TickOnly

ScheduleTimer(r) ==
  /\ Go(r, "timer", "drain")
  /\ Schedule("timer", "activation", timer = "due", Held)
  /\ UNCHANGED <<graph, job, poll, op, dlv, happened>>

DrainInbox(r) ==
  /\ Go(r, "drain", "sync2")
  /\ IF InboxMatches THEN ResumeByInbox ELSE UNCHANGED graph
  /\ UNCHANGED job /\ TickOnly

\* The wake for the next tick is scheduled before the kernel failures are thrown.
Final(r) ==
  /\ Go(r, "final", IF job[r].failed THEN "error" ELSE "release")
  /\ IF job[r].derived = "active"
     THEN LET due == IF act = "ready" THEN job[r].progressed ELSE act # "running"
          IN Schedule("timer", "graph", due, Held)
     ELSE UNCHANGED wake
  /\ job' = [job EXCEPT ![r].failed = FALSE, ![r].progressed = FALSE]
  /\ UNCHANGED <<graph, poll, op, dlv, happened>>

\* A store or an executor fails: at once, or at the end of the wave.
Throws(r) ==
  /\ Happens("throw")
  /\ \/ pc[r] \in {"housekeep", "drain"} /\ pc' = [pc EXCEPT ![r] = "error"] /\ UNCHANGED job
     \/ Go(r, "exec", "drain") /\ job' = [job EXCEPT ![r].failed = TRUE]
  /\ UNCHANGED <<wake, graph, poll, op, dlv>>

RunnerOnly == UNCHANGED <<poll, op, dlv, happened>>

ReleaseDone(r) ==
  /\ pc[r] = "release"
  /\ ReleaseWake(job[r].wake, r, "done", FALSE)
  /\ IF job[r].derived \in {"paused", "final"} THEN Go(r, "release", "sweep") /\ UNCHANGED job ELSE Ends(r)
  /\ UNCHANGED graph /\ RunnerOnly

Sweep(r) ==
  /\ pc[r] \in {"sweep", "giveUpSweep"}
  /\ CancelForLoop(Held) /\ Ends(r)
  /\ UNCHANGED graph /\ RunnerOnly

\* A tick that threw is retried after a backoff, or at once when the daemon is
\* being stopped, unless the error is the graph's or was the last attempt.
Retry(r) ==
  /\ pc[r] = "error"
  /\ \/ wake[job[r].wake].attempts < MaxAttempts /\ ReleaseWake(job[r].wake, r, "pending", FALSE)
     \/ ReleaseWake(job[r].wake, r, "pending", TRUE)
  /\ Ends(r)
  /\ UNCHANGED graph /\ RunnerOnly

GiveUp(r) ==
  /\ Go(r, "error", "giveUpRelease")
  /\ \/ SetStatus("final")
     \/ wake[job[r].wake].attempts >= MaxAttempts /\ SetStatus("paused")
  /\ UNCHANGED <<wake, job>> /\ RunnerOnly

GiveUpRelease(r) ==
  /\ Go(r, "giveUpRelease", "giveUpSweep")
  /\ ReleaseWake(job[r].wake, r, "cancelled", FALSE)
  /\ UNCHANGED <<graph, job>> /\ RunnerOnly

-----------------------------------------------------------------------------
(* Death of the daemon and expiry of claims *)

\* The daemon dies with all its ticks; another one starts.
DaemonDies ==
  /\ \E r \in Runner : pc[r] # "idle"
  /\ Happens("death")
  /\ pc' = [r \in Runner |-> "idle"] /\ job' = [r \in Runner |-> NoJob]
  /\ holder' = None
  /\ poll' = NoPoll
  \* its tokens are nobody's any more, and nobody renews its claims
  /\ wake' = [w \in Wake |-> IF wake[w].status = "cancelled" THEN Free
                              ELSE [wake[w] EXCEPT !.claim = None, !.expired = w \in InClaim]]
  /\ UNCHANGED <<status, act, timer, inbox, op, dlv>>

\* A live owner does not renew its claim in time.
Expires(w) == Happens("stall") /\ ClaimExpires(w) /\ UNCHANGED <<graph, pc, job, poll, op, dlv>>

Renews(r) ==
  /\ pc[r] # "idle" /\ wake[job[r].wake].expired
  /\ Heartbeat(job[r].wake, r)
  /\ UNCHANGED <<graph, pc, job, poll, op, dlv, happened>>

\* The clock: the lease of an activation whose executor has gone expires, a wait's
\* deadline passes, a wake's time comes.  The last two are not tied to each other:
\* a wake may have been scheduled for an earlier wait.
LeaseExpires ==
  /\ act = "running" /\ \A r \in Runner : holder = r => pc[r] # "exec"
  /\ act' = "expired"
  /\ UNCHANGED <<wake, status, holder, timer, inbox, pc, job, poll, op, dlv, happened>>

TimerDue ==
  /\ timer = "later" /\ timer' = "due"
  /\ UNCHANGED <<wake, status, act, holder, inbox, pc, job, poll, op, dlv, happened>>

WakeDue(w) == FireAt(w) /\ UNCHANGED <<graph, pc, job, poll, op, dlv, happened>>

-----------------------------------------------------------------------------
(* Operators *)

OpOnly == UNCHANGED <<pc, job, poll, dlv>>

Pause ==
  /\ op = "none" /\ status # "final" /\ Happens("pause")
  /\ SetStatus("paused") /\ op' = "pausing"
  /\ UNCHANGED wake /\ OpOnly

PauseCancels == op = "pausing" /\ op' = "none" /\ CancelForLoop(Held) /\ UNCHANGED <<graph, happened>> /\ OpOnly

Resume ==
  /\ op = "none" /\ status = "paused" /\ Happens("resume")
  /\ SetStatus("active") /\ op' = "resuming"
  /\ UNCHANGED wake /\ OpOnly

ResumeSchedules ==
  /\ op = "resuming" /\ op' = "none"
  /\ Schedule("manual", "graph", TRUE, Held)
  /\ UNCHANGED <<graph, happened>> /\ OpOnly

-----------------------------------------------------------------------------
(* Event deliveries.  The source delivers again until a delivery returns. *)

DlvOnly == UNCHANGED <<pc, job, poll, op>>

RecordEvent ==
  IF act = "waiting" /\ timer # "due"
  THEN ResumeByInbox
  ELSE inbox' = (IF act = "waiting" THEN "late" ELSE "pending") /\ UNCHANGED <<status, act, holder, timer>>

Deliver ==
  /\ dlv = "none" /\ inbox = "none" /\ status # "final"
  /\ Happens("event")
  /\ RecordEvent
  /\ dlv' = IF inbox' = "none" THEN "look" ELSE "none"
  /\ UNCHANGED wake /\ DlvOnly

\* Mutant: a redelivered event that was consumed is a duplicate and no more.
NoRepair ==
  /\ dlv = "lost" /\ dlv' = "none"
  /\ UNCHANGED <<wake, graph, happened>> /\ DlvOnly

\* The event is a duplicate by now: what it resumed is repaired if still ready.
Redeliver ==
  /\ dlv = "lost" /\ dlv' = IF act = "ready" THEN "schedule" ELSE "none"
  /\ UNCHANGED <<wake, graph, happened>> /\ DlvOnly

DeliverLooks ==
  /\ dlv = "look" /\ dlv' = IF status = "paused" THEN "schedule" ELSE "activate"
  /\ UNCHANGED <<wake, graph, happened>> /\ DlvOnly

DeliverActivates ==
  /\ dlv = "activate" /\ dlv' = "schedule"
  /\ SetStatus("active")
  /\ UNCHANGED <<wake, happened>> /\ DlvOnly

\* Mutant: a wake in flight is taken to see the event.
UnlessInFlight ==
  /\ dlv = "schedule" /\ dlv' = "none"
  /\ IF InClaim = {} THEN Schedule("event", "graph", TRUE, Held) ELSE UNCHANGED wake
  /\ UNCHANGED <<graph, happened>> /\ DlvOnly

DeliverSchedules ==
  /\ dlv = "schedule" /\ dlv' = "none"
  /\ Schedule("event", "graph", TRUE, Held)
  /\ UNCHANGED <<graph, happened>> /\ DlvOnly

DeliveryDies ==
  /\ dlv \in {"look", "activate", "schedule"} /\ Happens("lost delivery")
  /\ dlv' = "lost"
  /\ UNCHANGED <<wake, graph>> /\ DlvOnly

-----------------------------------------------------------------------------
Poll ==
  \/ PollReconcile \/ PollList \/ PollRecord \/ PollCancel \/ PollSnapshot
  \/ PollTimer \/ PollGraph \/ PollClaim

Run(r) ==
  \/ Start(r) \/ Housekeep(r) \/ SyncRead(r) \/ SyncWrite(r) \/ ClaimReady(r)
  \/ Finish(r) \/ FinishLost(r) \/ ScheduleTimer(r) \/ DrainInbox(r) \/ Final(r)
  \/ ReleaseDone(r) \/ Sweep(r) \/ Retry(r) \/ GiveUp(r) \/ GiveUpRelease(r)

Delivery == Redeliver \/ DeliverLooks \/ DeliverActivates \/ DeliverSchedules

Command == PauseCancels \/ ResumeSchedules

GraphClock == TimerDue \/ LeaseExpires
WakeClock  == \E w \in Wake : WakeDue(w)

Next ==
  \/ Poll \/ Delivery \/ Command \/ GraphClock \/ WakeClock
  \/ \E r \in Runner : Run(r) \/ Throws(r) \/ Renews(r)
  \/ \E w \in Wake : Expires(w)
  \/ DaemonDies \/ Pause \/ Resume \/ Deliver \/ DeliveryDies

Spec == Init /\ [][Next]_vars

\* The daemon polls and its ticks run, what was begun outside goes on (a source
\* delivers again, a command writes its second half), and time passes.
FairSpec ==
  /\ Spec
  /\ WF_vars(Poll) /\ WF_vars(Delivery \/ Command) /\ WF_vars(GraphClock) /\ WF_vars(WakeClock)
  /\ \A r \in Runner : WF_vars(Run(r))

-----------------------------------------------------------------------------
(* Properties *)

TypeOK ==
  /\ WakeTypeOK
  /\ Unused(Held) # {}   \* the bound on wakes cuts nothing off
  /\ status \in {"active", "waiting", "paused", "final"}
  /\ act \in {"ready", "running", "expired", "waiting", "none"} /\ holder \in Runner \cup {None}
  /\ timer \in Waits /\ inbox \in {"none", "pending", "late"}
  /\ pc \in [Runner -> RunnerPc]
  /\ \A r \in Runner : job[r].wake \in Wake \cup {None} /\ (pc[r] # "idle" => job[r].wake \in Wake)
  /\ poll.pc \in PollPc
  /\ op \in {"none", "pausing", "resuming"}
  /\ dlv \in {"none", "look", "activate", "schedule", "lost"}

\* Whoever runs r's tick has its claim no more: the wakes of the loop were cancelled.
Overtaken(r) == wake[job[r].wake].status = "cancelled"

\* At most one tick of an instance is in flight, as WakeStore promises, but for what
\* takes the claim from a tick that runs: its wake is cancelled under it (by a pause,
\* a poll or a tick that gave up), or the claim is let expire.
OneTick ==
  "stall" \notin happened =>
    \A r, q \in Runner : pc[r] \in InTick /\ pc[q] \in InTick =>
      r = q \/ Overtaken(r) \/ Overtaken(q)

\* A wake that is pending belongs to nobody: it goes only when all wakes of the
\* loop are cancelled, never by an owner that has lost it, as long as claims are renewed.
StaleOwnerFenced ==
  [][\A w \in Pending : "stall" \notin happened /\ wake'[w].status = "free" => LiveWakes' = {}]_vars

\* Ready work of an instance that says it waits, for which no poll schedules a
\* wake, has a wake, or a tick or an event's delivery about to schedule one, unless
\* a pause or a lost claim has let ticks overlap. It is claimed of two disturbances:
\* with a third, three ticks and a late sweep of one that gave up, it is false.
Handoff ==
  {"stall", "pause", "resume"} \cap happened = {} /\ status = "waiting" /\ act = "ready" =>
    LiveWakes # {} \/ dlv # "none" \/ \E r \in Runner : pc[r] \in InTick

\* Work that is ready does not stay so for ever, unless an operator pauses the
\* instance: whatever dies, wakes that are released, cancelled or reclaimed by a late
\* owner, and events that arrive during a tick, somebody has or will have a wake for it.
NoStranding ==
  ~<>[](act = "ready" /\ status \notin {"paused", "final"} /\ "pause" \notin happened)

\* A wait with a timeout ends, also when the wake of its timer got lost.
TimerServed ==
  ~<>[](act = "waiting" /\ timer # "none" /\ status \notin {"paused", "final"})

\* A loop that stays paused falls silent: the wakes that the ticks in flight still
\* schedule after the pause's cancellation are cleared, and no new ones appear.
PauseSettles ==
  <>[](status = "paused") => <>[](LiveWakes = {} /\ Idle = Runner)

\* Work is served, whatever is lost: ready work has a wake, and a timeout is noticed.
WorkServed == NoStranding /\ TimerServed
=============================================================================
