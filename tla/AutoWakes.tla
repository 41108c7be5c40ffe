----------------------------- MODULE AutoWakes -----------------------------
(***************************************************************************)
(* The durable wakes of one plain Auto session (core/auto:                 *)
(* AutoContinuationStore, AutoScheduler, AttachedAutoScheduler; the turns  *)
(* and the fence of cli/singleTurn.ts and cli/sessionFlow.ts).  A turn     *)
(* that parks arms a wake with the length of the history; a scheduler, or  *)
(* the command itself when attached, runs the next turn when it is due, if *)
(* the history has not moved on.  Store operations hold the store's lock.  *)
(***************************************************************************)
EXTENDS Integers, FiniteSets

CONSTANTS
  Timer,        \* wake ids
  NoTimer,
  AutoHost,     \* processes
  MaxAutoTurns,     \* bound on manual turns and on parks
  MaxMishaps    \* bound on crashes, stalls, failures, aborts and cancellations

ASSUME AutoAssumption == NoTimer \notin Timer /\ MaxAutoTurns \in Nat /\ MaxMishaps \in Nat

VARIABLES
  history,      \* messages of the session on disk (one per turn)
  timers,       \* the records of the store
  host,         \* the processes
  turns, mishaps,
  stalled,      \* a live holder has lost its lease
  overlapped,   \* a turn was saved over another one's
  excused       \* wakes retired for a reason of their own

autoVars == <<history, timers, host, turns, mishaps, stalled, overlapped, excused>>

\* attempts counts the claims and stands for the claim's token; runs counts the
\* turns the wake started that were saved.
NoRecordYet == [status |-> "none", due |-> FALSE, stale |-> FALSE, fence |-> 0,
                attempts |-> 0, leased |-> FALSE, runs |-> 0]
Away == [at |-> "off", kind |-> "none", timer |-> NoTimer, token |-> 0, fence |-> 0,
         next |-> NoTimer, nextToken |-> 0, abort |-> "none"]

AutoInit ==
  /\ history = 0 /\ turns = 0 /\ mishaps = 0
  /\ timers = [t \in Timer |-> NoRecordYet]
  /\ host = [h \in AutoHost |-> Away]
  /\ stalled = FALSE /\ overlapped = FALSE /\ excused = {}

Unsettled == {"pending", "claimed"}
Pending == {t \in Timer : timers[t].status = "pending"}
OfSession == {t \in Timer : timers[t].status = "claimed" /\ timers[t].leased}
Mishap == mishaps < MaxMishaps /\ mishaps' = mishaps + 1
Moves(h, to) == host' = [host EXCEPT ![h].at = to]
Holds(t, token) == timers[t].status = "claimed" /\ timers[t].attempts = token
\* release: only by the claim's token.
Released(t, token, status, due) ==
  IF Holds(t, token) THEN [timers EXCEPT ![t].status = status, ![t].leased = FALSE, ![t].due = due]
  ELSE timers

-----------------------------------------------------------------------------
\* A turn from the command line: alone, attached to its wakes.
ManualTurn(h, kind) ==
  /\ host[h].at = "off" /\ turns < MaxAutoTurns
  /\ turns' = turns + 1
  /\ host' = [host EXCEPT ![h] = [Away EXCEPT !.at = "turn", !.kind = kind, !.fence = history]]
  /\ UNCHANGED <<history, timers, mishaps, stalled, excused, overlapped>>

\* runAutoSchedulerCommand: expireStale, then the loop.
StartScheduler(h) ==
  /\ host[h].at = "off"
  /\ host' = [host EXCEPT ![h] = [Away EXCEPT !.at = "poll", !.kind = "scheduler"]]
  /\ timers' = [t \in Timer |-> IF t \in Pending /\ timers[t].stale
                                 THEN [timers[t] EXCEPT !.status = "expired"] ELSE timers[t]]
  /\ UNCHANGED <<history, turns, mishaps, stalled, excused, overlapped>>

AnyClaimed == {t \in Timer : timers[t].status = "claimed"}
Orphans == {t \in Timer : timers[t].status = "claimed" /\ ~timers[t].leased}
ReconcileOrphans(h) ==
  /\ host[h].at = "poll" /\ host[h].abort = "none"
  /\ timers' = [t \in Timer |-> IF t \in Orphans THEN [timers[t] EXCEPT !.status = "pending"]
                                                  ELSE timers[t]]
  /\ Moves(h, "claim")
  /\ UNCHANGED <<history, turns, mishaps, stalled, excused, overlapped>>

\* A session with a claim that is not expired is left alone.
Claimable == {t \in Pending : timers[t].due /\ ~timers[t].stale /\ OfSession = {}}
Expires(t) == t \in Pending /\ timers[t].stale
Leased(r) == [r EXCEPT !.status = "claimed", !.leased = TRUE, !.attempts = @ + 1]
ClaimDue(h) ==
  /\ host[h].at = "claim"
  /\ \/ /\ Claimable = {}
        /\ timers' = [t \in Timer |-> IF Expires(t) THEN [timers[t] EXCEPT !.status = "expired"]
                                                     ELSE timers[t]]
        /\ Moves(h, "poll")
     \/ \E w \in Claimable :
          /\ timers' = [t \in Timer |-> IF t = w THEN Leased(timers[t])
                                        ELSE IF Expires(t) THEN [timers[t] EXCEPT !.status = "expired"]
                                        ELSE timers[t]]
          /\ host' = [host EXCEPT ![h].at = "check", ![h].timer = w,
                                  ![h].token = timers[w].attempts + 1, ![h].fence = timers[w].fence]
  /\ UNCHANGED <<history, turns, mishaps, stalled, excused, overlapped>>

SchedulerStops(h) ==
  /\ host[h].at = "poll" /\ host[h].abort # "none"
  /\ host' = [host EXCEPT ![h] = Away]
  /\ UNCHANGED <<history, timers, turns, mishaps, stalled, excused, overlapped>>

\* The scheduler leaves when no wake is left.
IdleExit(h) ==
  /\ host[h].at = "poll" /\ host[h].abort = "none"
  /\ \A t \in Timer : timers[t].status \notin Unsettled
  /\ host' = [host EXCEPT ![h] = Away]
  /\ UNCHANGED <<history, timers, turns, mishaps, stalled, excused, overlapped>>

-----------------------------------------------------------------------------
FencesPass(h) == history = host[h].fence
CheckResumeFences(h) ==
  /\ host[h].at = "check"
  /\ Moves(h, IF FencesPass(h) THEN "start" ELSE "cancelled")
  /\ UNCHANGED <<history, timers, turns, mishaps, stalled, excused, overlapped>>

\* Before the turn: the MCP servers are connected, the session is opened.
TurnStarts(h) ==
  /\ host[h].at = "start"
  /\ host' = [host EXCEPT ![h].at = "turn", ![h].fence = history]
  /\ UNCHANGED <<history, timers, turns, mishaps, stalled, excused, overlapped>>

StartFails(h) ==
  /\ host[h].at = "start" /\ Mishap
  /\ Moves(h, "failed")
  /\ UNCHANGED <<history, timers, turns, stalled, excused, overlapped>>

\* runSingleTurn to the snapshot: the turn parks, ends, or fails (an abort makes it
\* fail); what it did is saved in each case.  SessionStore.append writes the whole
\* transcript of the process over a history it did not expect, if it notices.
Saves(h) ==
  /\ \/ history' = host[h].fence + 1
     \/ history # host[h].fence /\ history' = history + 1
  /\ overlapped' = (overlapped \/ history # host[h].fence)
  /\ timers' = IF host[h].timer = NoTimer THEN timers
               ELSE [timers EXCEPT ![host[h].timer].runs = @ + 1]
TurnEnds(h) ==
  /\ host[h].at = "turn" /\ host[h].abort = "none"
  /\ Saves(h)
  /\ \/ turns < MaxAutoTurns /\ turns' = turns + 1 /\ Moves(h, "read")
     \/ UNCHANGED turns /\ Moves(h, "done")
  /\ UNCHANGED <<mishaps, stalled, excused>>

TurnFails(h) ==
  /\ host[h].at = "turn"
  /\ IF host[h].abort = "none" THEN Mishap ELSE UNCHANGED mishaps
  /\ Saves(h)
  /\ Moves(h, "consumed")
  /\ UNCHANGED <<turns, stalled, excused>>

\* The snapshot could not be written: no wake is armed.
SnapshotFails(h) ==
  /\ host[h].at = "turn" /\ Mishap
  /\ Moves(h, "consumed")
  /\ excused' = excused \cup ({host[h].timer} \ {NoTimer})
  /\ UNCHANGED <<history, timers, turns, stalled, overlapped>>

-----------------------------------------------------------------------------
\* persistedResumeMessageCount: the fence is read back from disk.
ReadBack(h) ==
  /\ host[h].at = "read"
  /\ host' = [host EXCEPT ![h].at = "arm", ![h].fence = history]
  /\ UNCHANGED <<history, timers, turns, mishaps, stalled, excused, overlapped>>

\* AutoContinuationStore.schedule: an unclaimed wake of the session is taken over.
\* An attached command claims it at once.
Attached(h) == host[h].kind = "attached"
Unused == {t \in Timer : timers[t].status = "none"}
Slots == IF Pending # {} THEN Pending
         ELSE IF Unused # {} THEN {CHOOSE t \in Unused : TRUE} ELSE {}
Schedule(h) ==
  /\ host[h].at = "arm"
  /\ \E t \in Slots :
       /\ timers' = [timers EXCEPT ![t] =
            LET armed == [@ EXCEPT !.status = "pending", !.fence = host[h].fence, !.runs = 0,
                                   !.due = FALSE, !.stale = FALSE]
            IN  IF Attached(h) THEN Leased(armed) ELSE armed]
       /\ host' = [host EXCEPT ![h].at = "mark", ![h].next = t,
                               ![h].nextToken = timers[t].attempts + 1]
       /\ excused' = excused \ {t}
  /\ UNCHANGED <<history, turns, mishaps, stalled, overlapped>>

\* Sub-agents are still active: the wake is not armed.
ArmRefused(h) ==
  /\ host[h].at = "arm" /\ Mishap
  /\ Moves(h, "consumed")
  /\ UNCHANGED <<history, timers, turns, stalled, excused, overlapped>>

CheckpointWritten(h) ==
  /\ host[h].at = "mark"
  /\ Moves(h, "done")
  /\ UNCHANGED <<history, timers, turns, mishaps, stalled, excused, overlapped>>

\* cancel(wakeId, token): without a token any claim is cancelled too.
CheckpointFails(h) ==
  /\ host[h].at = "mark" /\ Mishap
  /\ LET w == host[h].next
         hit == timers[w].status \in Unsettled /\ (Attached(h) => timers[w].attempts = host[h].nextToken)
     IN  /\ timers' = IF hit THEN [timers EXCEPT ![w].status = "cancelled", ![w].leased = FALSE]
                             ELSE timers
         /\ excused' = excused \cup (IF hit THEN {w} ELSE {})
  /\ host' = [host EXCEPT ![h].at = "consumed", ![h].next = NoTimer]
  /\ UNCHANGED <<history, turns, stalled, overlapped>>

-----------------------------------------------------------------------------
\* AutoScheduler.runClaim after the turn.  A wake whose turn ran is never retried;
\* the fences are asked again before a retry.
Retried(h) == host[h].at = "failed" /\ FencesPass(h)
SchedulerSettles(h) ==
  /\ host[h].kind = "scheduler" /\ host[h].at \in {"done", "cancelled", "consumed", "failed"}
  /\ timers' = Released(host[h].timer, host[h].token,
                        IF Retried(h) THEN "pending"
                        ELSE IF host[h].at = "cancelled" THEN "cancelled" ELSE "done", FALSE)
  /\ host' = [host EXCEPT ![h] = IF @.abort \in {"cancel", "leave"} THEN Away
                                 ELSE [Away EXCEPT !.at = "poll", !.kind = "scheduler"]]
  /\ UNCHANGED <<history, turns, mishaps, stalled, excused, overlapped>>

\* A command that is not attached, or whose first turn armed nothing, is over.
CommandEnds(h) ==
  /\ host[h].kind \in {"alone", "attached"} /\ host[h].timer = NoTimer
  /\ host[h].at \in {"done", "consumed"}
  /\ Attached(h) => host[h].next = NoTimer /\ host[h].abort # "cancel"
  /\ host' = [host EXCEPT ![h] = Away]
  /\ UNCHANGED <<history, timers, turns, mishaps, stalled, excused, overlapped>>

\* runAttachedAuto: SIGINT in the first turn cancels the session; another signal
\* gives the wake back.
AttachedBegins(h) ==
  /\ Attached(h) /\ host[h].timer = NoTimer /\ host[h].at \in {"done", "consumed"}
  /\ host[h].abort = "cancel" \/ host[h].next # NoTimer
  /\ IF host[h].abort = "none"
       THEN /\ host' = [host EXCEPT ![h] = [Away EXCEPT !.at = "wait", !.kind = "attached",
                          !.timer = host[h].next, !.token = host[h].nextToken, !.fence = host[h].fence]]
            /\ UNCHANGED timers
       ELSE /\ host' = [host EXCEPT ![h] = IF host[h].abort = "cancel"
                                            THEN [Away EXCEPT !.at = "void", !.kind = "attached"] ELSE Away]
            /\ timers' = IF host[h].abort = "cancel" THEN timers
                         ELSE Released(host[h].next, host[h].nextToken, "pending", timers[host[h].next].due)
  /\ UNCHANGED <<history, turns, mishaps, stalled, excused, overlapped>>

\* AttachedAutoScheduler waits, renewing its claim; a signal gives the wake back.
WaitEnds(h) ==
  /\ host[h].at = "wait"
  /\ \/ /\ host[h].abort = "none" /\ timers[host[h].timer].due
        /\ Moves(h, "check") /\ UNCHANGED timers
     \/ /\ host[h].abort # "none"
        /\ timers' = IF host[h].abort = "lost" THEN timers
                     ELSE Released(host[h].timer, host[h].token, "pending", timers[host[h].timer].due)
        /\ host' = [host EXCEPT ![h] = Away]
  /\ UNCHANGED <<history, turns, mishaps, stalled, excused, overlapped>>

\* After the turn of a wake: what the attached command releases its claim with.
\* A lost claim and a signal come before the outcome.
AttachedOutcome(h) ==
  LET c == host[h]
      outcome == IF c.at = "cancelled" THEN "cancelled" ELSE "done"
      ended == c.at \in {"done", "cancelled"}
  IN  CASE c.abort = "cancel" -> "cancelled"
        [] c.abort = "leave"  -> IF ended THEN outcome ELSE "pending"
        [] c.abort = "lost"   -> IF c.at = "consumed" THEN "done" ELSE "pending"
        [] OTHER              -> IF c.at = "failed" THEN "pending" ELSE outcome
ParksAgain(h) ==
  /\ host[h].at = "done" /\ host[h].next # NoTimer /\ host[h].abort = "none"
  /\ Holds(host[h].timer, host[h].token)
AttachedSettles(h) ==
  /\ Attached(h) /\ host[h].timer # NoTimer
  /\ host[h].at \in {"done", "cancelled", "consumed", "failed"}
  /\ timers' = Released(host[h].timer, host[h].token, AttachedOutcome(h), timers[host[h].timer].due)
  /\ host' = [host EXCEPT ![h] =
       IF ParksAgain(h) THEN [Away EXCEPT !.at = "wait", !.kind = "attached", !.timer = host[h].next,
                                      !.token = host[h].nextToken, !.fence = host[h].fence]
       ELSE IF @.abort \in {"cancel", "leave"} /\ @.at = "done" /\ @.next # NoTimer
         THEN [@ EXCEPT !.at = "handback"]
       ELSE IF @.abort = "cancel" THEN [Away EXCEPT !.at = "void", !.kind = "attached"]
       ELSE Away]
  /\ excused' = IF host[h].abort = "cancel" THEN excused \cup {host[h].timer} ELSE excused
  /\ UNCHANGED <<history, turns, mishaps, stalled, overlapped>>

HandsBack(h) ==
  /\ host[h].at = "handback"
  /\ timers' = Released(host[h].next, host[h].nextToken,
                        IF host[h].abort = "cancel" THEN "cancelled" ELSE "pending",
                        timers[host[h].next].due)
  /\ excused' = IF host[h].abort = "cancel" THEN excused \cup {host[h].next} ELSE excused
  /\ host' = [host EXCEPT ![h] = IF @.abort = "cancel" THEN [Away EXCEPT !.at = "void", !.kind = "attached"]
                                 ELSE Away]
  /\ UNCHANGED <<history, turns, mishaps, stalled, overlapped>>

\* cancelSession: every wake that is not settled.
CancelSession(h) ==
  /\ host[h].at = "void"
  /\ timers' = [t \in Timer |-> IF timers[t].status \in Unsettled
                                 THEN [timers[t] EXCEPT !.status = "cancelled", !.leased = FALSE]
                                 ELSE timers[t]]
  /\ excused' = excused \cup {t \in Timer : timers[t].status \in Unsettled}
  /\ host' = [host EXCEPT ![h] = Away]
  /\ UNCHANGED <<history, turns, mishaps, stalled, overlapped>>

-----------------------------------------------------------------------------
\* A beat finds the claim gone, or the store fails (a scheduler tolerates two).
Beating(h) == host[h].timer # NoTimer /\ host[h].at \in {"wait", "check", "start", "turn", "read", "arm", "mark"}
ClaimLost(h) ==
  /\ Beating(h) /\ host[h].abort = "none"
  /\ IF Holds(host[h].timer, host[h].token) THEN Mishap ELSE UNCHANGED mishaps
  /\ host' = [host EXCEPT ![h].abort = "lost"]
  /\ UNCHANGED <<history, timers, turns, stalled, excused, overlapped>>

\* SIGINT or SIGTERM.
TurnInterrupted(h, why) ==
  /\ host[h].at \notin {"off", "void", "handback"} /\ host[h].abort = "none" /\ Mishap
  /\ host' = [host EXCEPT ![h].abort = why]
  /\ UNCHANGED <<history, timers, turns, stalled, excused, overlapped>>

HostCrashes(h) ==
  /\ host[h].at # "off" /\ Mishap
  /\ host' = [host EXCEPT ![h] = Away]
  /\ UNCHANGED <<history, timers, turns, stalled, excused, overlapped>>

\* tasks cancel, tasks kill: cancel without a token.
TaskCancelled(t) ==
  /\ timers[t].status \in Unsettled /\ Mishap
  /\ timers' = [timers EXCEPT ![t].status = "cancelled", ![t].leased = FALSE]
  /\ excused' = excused \cup {t}
  /\ UNCHANGED <<history, host, turns, stalled, overlapped>>

\* tasks run-now, or the time has come.
FireNow(t) ==
  /\ timers[t].status = "pending" /\ ~timers[t].due
  /\ timers' = [timers EXCEPT ![t].due = TRUE]
  /\ UNCHANGED <<history, host, turns, mishaps, stalled, excused, overlapped>>

TimeComes(t) ==
  /\ timers[t].status \in Unsettled /\ ~timers[t].due
  /\ timers' = [timers EXCEPT ![t].due = TRUE]
  /\ UNCHANGED <<history, host, turns, mishaps, stalled, excused, overlapped>>

GrowsStale(t) ==
  /\ timers[t].status = "pending" /\ timers[t].due /\ ~timers[t].stale /\ Mishap
  /\ timers' = [timers EXCEPT ![t].stale = TRUE]
  /\ UNCHANGED <<history, host, turns, stalled, excused, overlapped>>

\* The lease runs out: nobody renews it, or its holder is suspended.
Kept(t) == \E h \in AutoHost : \/ host[h].timer = t /\ host[h].token = timers[t].attempts
                               \/ host[h].next = t /\ host[h].nextToken = timers[t].attempts
LeaseLapses(t) ==
  /\ timers[t].status = "claimed" /\ timers[t].leased
  /\ IF Kept(t) THEN Mishap /\ stalled' = TRUE ELSE UNCHANGED <<mishaps, stalled>>
  /\ timers' = [timers EXCEPT ![t].leased = FALSE]
  /\ UNCHANGED <<history, host, turns, excused, overlapped>>

HostGoesOn(h) ==
  \/ ReconcileOrphans(h) \/ SchedulerStops(h) \/ ClaimDue(h) \/ CheckResumeFences(h) \/ TurnStarts(h)
  \/ TurnEnds(h) \/ TurnFails(h) \/ ReadBack(h) \/ Schedule(h) \/ CheckpointWritten(h)
  \/ SchedulerSettles(h) \/ CommandEnds(h) \/ AttachedBegins(h) \/ WaitEnds(h)
  \/ AttachedSettles(h) \/ HandsBack(h) \/ CancelSession(h)

AutoNext ==
  \/ \E h \in AutoHost :
       \/ HostGoesOn(h) \/ StartScheduler(h) \/ IdleExit(h) \/ ClaimLost(h)
       \/ \E kind \in {"alone", "attached"} : ManualTurn(h, kind)
       \/ StartFails(h) \/ SnapshotFails(h) \/ ArmRefused(h) \/ CheckpointFails(h)
       \/ \E why \in {"cancel", "leave"} : TurnInterrupted(h, why)
       \/ HostCrashes(h)
  \/ \E t \in Timer :
       TaskCancelled(t) \/ FireNow(t) \/ TimeComes(t) \/ GrowsStale(t) \/ LeaseLapses(t)

AutoSpec == AutoInit /\ [][AutoNext]_autoVars

\* The processes run on, beats are answered, time passes; a scheduler runs in the
\* workspace again and again.
AutoFairSpec ==
  /\ AutoSpec
  /\ \A h \in AutoHost : WF_autoVars(HostGoesOn(h)) /\ WF_autoVars(StartScheduler(h))
  /\ \A t \in Timer : WF_autoVars(TimeComes(t)) /\ WF_autoVars(~Kept(t) /\ LeaseLapses(t))

-----------------------------------------------------------------------------
AutoTypeOK ==
  /\ \A t \in Timer :
       /\ timers[t].status \in {"none", "pending", "claimed", "done", "cancelled", "expired"}
       /\ timers[t].leased => timers[t].status = "claimed"
       /\ timers[t].fence \in Nat
  /\ \A h \in AutoHost :
       /\ host[h].at \in {"off", "poll", "claim", "check", "start", "turn", "read", "arm", "mark", "done",
                          "cancelled", "consumed", "failed", "wait", "handback", "void"}
       /\ host[h].timer \in Timer \cup {NoTimer} /\ host[h].next \in Timer \cup {NoTimer}
       /\ host[h].at \in {"check", "start", "cancelled", "failed", "wait"} => host[h].timer # NoTimer

(* While no live process loses its lease, a wake never runs two turns at    *)
(* once, nor do two schedulers run turns of two wakes, unless one of them   *)
(* was cancelled under its turn (AutoContinuationStore.claimDue and the     *)
(* store's header).  An attached command may: `schedule' gives it the claim *)
(* of the wake it arms, whoever holds another one.                          *)
TurnOfWake(h) == host[h].at = "turn" /\ host[h].timer # NoTimer
Scheduling(h) == host[h].kind = "scheduler" /\ Holds(host[h].timer, host[h].token)
OneTurn ==
  ~stalled => \A g, h \in AutoHost :
    /\ TurnOfWake(g) /\ TurnOfWake(h)
    /\ host[g].timer = host[h].timer \/ (Scheduling(g) /\ Scheduling(h))
    => g = h

(* Likewise an armed wake starts at most one turn whose history is saved,   *)
(* whatever fails or dies between the turn and the release.                 *)
RunsOnce == ~stalled /\ ~overlapped => \A t \in Timer : timers[t].runs <= 1

(* A wake is retired without a turn only when the session has moved on, when *)
(* someone cancelled it, or when the turn could not be saved: a transient    *)
(* failure does not end the session (AutoContinuationStore.ts:41-55).        *)
NothingDropped ==
  ~overlapped => \A t \in Timer : timers[t].status \in {"done", "cancelled"} /\ timers[t].runs = 0
    => timers[t].fence # history \/ t \in excused

(* Every armed wake is settled in the end: run, cancelled or expired.       *)
WakeSettles == \A t \in Timer : ~<>[](timers[t].status \in Unsettled)

(* A wake that was armed leads to one turn, by one host at a time.          *)
WakesOnce == OneTurn /\ RunsOnce /\ NothingDropped
=============================================================================
