----------------------------- MODULE GraphStore -----------------------------
(***************************************************************************)
(* The durable state of one graph-loop instance and the transactions that  *)
(* change it.  GraphStore.ts and CommitCoordinator.ts run every one of     *)
(* them under the instance's transaction lock over a reconciled snapshot,  *)
(* so here each transaction is one action.  Who calls which transaction,   *)
(* and in which order, is left to the callers: Next allows any of them at  *)
(* any time, and GraphKernel refines it with the scheduler's own program.  *)
(*                                                                         *)
(* Time is not a number.  A pending wakeAt is "armed" until TimerFires     *)
(* makes it "due"; any lease may be found expired by a caller who looks.   *)
(* Conditions over user data (`when`, reducers, plugin code) are choices.  *)
(***************************************************************************)
EXTENDS Naturals, Sequences, FiniteSets

CONSTANTS
  Graph,         \* the frozen LoopGraphSpec: nodes, routes, entry, limits, ...
  Pool,          \* bound: activation ids 1..Pool, new ones are taken in order
  Rank,          \* how localeCompare orders those (random) ids
  Event,         \* external event names; one delivery id per name
  None,          \* `undefined`
  AgentReplays,  \* MAX_AGENT_SERIALIZABLE_REPLAYS
  OtherReplays   \* MAX_SERIALIZABLE_REPLAYS

\* Mutant: an exhausted instance is not taken for finished.
FinalButExhausted == {"done", "failed"}

Live    == {"ready", "running", "waiting"}
Settled == {"succeeded", "failed", "cancelled"}
Final   == {"done", "exhausted", "failed"}
InstanceStatus == {"active", "waiting", "paused"} \cup Final
NodeType == {"agent", "function", "effect", "wait", "join", "terminal"}

Act     == 1..Pool
NodeId  == DOMAIN Graph.nodes
RouteId == {r.id : r \in Graph.routes}

ASSUME GraphAssumption ==
  /\ Pool \in Nat
  /\ Rank \in [Act -> Nat]
  /\ None \notin NodeId \cup RouteId \cup Event
  /\ \A n \in NodeId :
       /\ Graph.nodes[n].type \in NodeType
       /\ Graph.nodes[n].type = "terminal" => Graph.nodes[n].status \in Final \cup {"paused"}
  /\ \A r \in Graph.routes : r.from \in NodeId /\ r.to \subseteq NodeId
  /\ \A q, r \in Graph.routes : q.id = r.id => q = r
  /\ Graph.entry \in Seq(NodeId) /\ Len(Graph.entry) <= Pool
  /\ {Graph.limits.running, Graph.limits.perNode, Graph.limits.timers} \subseteq Nat \ {0}
  /\ AgentReplays \in Nat /\ OtherReplays \in Nat

VARIABLES
  status,     \* GraphInstanceRecord.status
  act,        \* the activation records
  version,    \* GraphStateSnapshot.version
  prepared,   \* commit intents on disk whose status is 'prepared'
  committed,  \* commitKeys of the journal
  evt,        \* the external event inbox; `late`: the waits already due at createdAt
  cost        \* GraphInstanceRecord.totalCostUsd

storeVars == <<status, act, version, prepared, committed, evt, cost>>

-----------------------------------------------------------------------------
(* Records *)

ActivationRecord ==
  [node: NodeId \cup {None}, status: {"unborn"} \cup Live \cup Settled,
   cont: Nat,                       \* continuationVersion
   seg: Nat,                        \* segmentCount
   attempt: Nat, replays: Nat,
   lease: Nat,                      \* lease token, 0 when there is no lease
   ver: Nat,                        \* executionStateVersion
   why: {"initial", "retry", "replay", "continuation", None},  \* readyReason
   wait: {"retry", "replay", "continuation", None},            \* waitingReason
   timer: {"none", "armed", "due"},                            \* wakeAt
   event: Event \cup {"join", None},
   resume: {"timer", "event", None},                           \* input.__resume
   via: RouteId \cup {None},        \* sourceTransitionId
   group: Seq(Act \X RouteId),      \* forkGroupId, a stack of fork epochs
   resumed: BOOLEAN]                \* resumedAt of a paused Terminal

Unborn ==
  [node |-> None, status |-> "unborn", cont |-> 0, seg |-> 0, attempt |-> 0,
   replays |-> 0, lease |-> 0, ver |-> 0, why |-> None, wait |-> None,
   timer |-> "none", event |-> None, resume |-> None, via |-> None,
   group |-> <<>>, resumed |-> FALSE]

NewActivation(n, ver, via, group) ==
  [Unborn EXCEPT !.node = n, !.status = "ready", !.why = "initial",
                 !.ver = ver, !.via = via, !.group = group]

Outcome == {"success", "failure", "exhausted", "timeout", "timer", "event"}

\* A commit intent.  `ver` is expectedStateVersion, `lease` the token it was
\* prepared under; `read` stands for the output: the State version it was
\* computed from.
Intent ==
  [act: Act, cont: Nat, lease: Nat, ver: Nat, outcome: Outcome, read: Nat, usage: Nat]

Key(i) == <<i.act, i.cont>>

-----------------------------------------------------------------------------
(* Views of a snapshot *)

With(st)      == {a \in Act : act[a].status = st}
LiveActs      == {a \in Act : act[a].status \in Live}
Born          == {a \in Act : act[a].status # "unborn"}
NodeOf(a)     == Graph.nodes[act[a].node]
IsJoin(a)     == NodeOf(a).type = "join"
Holds(a, tok) == act[a].status = "running" /\ act[a].lease = tok

\* Only an Agent activation occupies its Lane.
Lane(a) == IF NodeOf(a).type = "agent" THEN NodeOf(a).lane ELSE None

\* Mutant: off by one.
TimerBudgetNotPassed ==
  Cardinality({a \in With("waiting") : act[a].timer # "none"}) <= Graph.limits.timers

TimerBudgetLeft ==
  Cardinality({a \in With("waiting") : act[a].timer # "none"}) < Graph.limits.timers

\* The barrier of executeJoin and reconcileWaitingJoins: the live members of
\* a's fork group, complete under the Join's mode, with a their leader.
JoinMembers(a) ==
  {b \in LiveActs : /\ act[b].node = act[a].node
                    /\ act[b].group = act[a].group
                    /\ act[b].via \in NodeOf(a).expects}

BarrierLeader(a) ==
  LET M == JoinMembers(a) IN
  /\ a \in M
  /\ NodeOf(a).mode = "all" => NodeOf(a).expects = {act[b].via : b \in M}
  /\ \A b \in M : Rank[a] <= Rank[b]

-----------------------------------------------------------------------------
(* Changes to one activation, shared by several transactions *)

ToReady(rec, why) == [rec EXCEPT !.status = "ready", !.lease = 0, !.why = why]
ToWaiting(rec, reason, timer, event) ==
  [rec EXCEPT !.status = "waiting", !.lease = 0, !.why = None,
              !.wait = reason, !.timer = timer, !.event = event]
ToSettled(rec, st) == [rec EXCEPT !.status = st, !.lease = 0]

\* resumeDue, resumeForExternalEvent and reconcileWaitingJoins: only a
\* continuation starts a new continuationVersion.
Resumed(rec, kind) ==
  LET new == rec.wait = "continuation" IN
  [rec EXCEPT !.status = "ready", !.timer = "none", !.event = None, !.wait = None,
              !.why = rec.wait,
              !.cont = IF new THEN @ + 1 ELSE @,
              !.resume = IF new THEN kind ELSE @]

\* Mutant: work that already runs is left to finish.
CancellingUnstarted(S) ==
  [a \in Act |-> IF a \in S /\ act[a].status # "running" THEN ToSettled(act[a], "cancelled") ELSE act[a]]

Cancelling(S) == [a \in Act |-> IF a \in S THEN ToSettled(act[a], "cancelled") ELSE act[a]]

\* a settles and takes the activations of S with it.
Settling(a, st, S) == [Cancelling(S) EXCEPT ![a] = ToSettled(@, st)]

Init ==
  /\ status = "active" /\ version = 0 /\ cost = 0
  /\ prepared = {} /\ committed = {}
  /\ evt = [e \in Event |-> [status |-> "none", late |-> {}]]
  \* one activation per entrypoint
  /\ act = [a \in Act |-> IF a \in DOMAIN Graph.entry THEN NewActivation(Graph.entry[a], 0, None, <<>>)
                                                     ELSE Unborn]

-----------------------------------------------------------------------------
(* Claims and leases *)

\* Mutant: only the activations claimed together are compared.
LanesFreeAmong(S) ==
  \A a \in S, b \in S : a # b /\ Lane(a) # None => Lane(a) # Lane(b)

LanesFree(S) ==
  \A a \in S, b \in With("running") \cup S : a # b /\ Lane(a) # None => Lane(a) # Lane(b)

NodesFree(S) ==
  \A a \in S :
    Cardinality({b \in With("running") \cup S : act[b].node = act[a].node}) <= Graph.limits.perNode

Admissible(S) ==
  /\ S \subseteq With("ready")
  /\ Cardinality(With("running") \cup S) <= Graph.limits.running
  /\ LanesFree(S) /\ NodesFree(S)

TerminalRank(a) ==
  CASE NodeOf(a).status = "failed" -> 0 [] NodeOf(a).status = "exhausted" -> 1
    [] NodeOf(a).status = "paused" -> 2 [] OTHER -> 3

ReadyTerminals == {a \in With("ready") : NodeOf(a).type = "terminal"}

\* The greedy scan takes a maximal admissible set.  A ready Terminal is a
\* barrier: it starts alone, and nothing starts ahead of it.
ClaimSets ==
  IF ReadyTerminals = {}
  THEN {S \in SUBSET With("ready") :
          Admissible(S) /\ \A a \in With("ready") \ S : ~Admissible(S \cup {a})}
  ELSE IF With("running") # {} THEN {{}}
  ELSE {{t} : t \in {t \in ReadyTerminals :
                       \A u \in ReadyTerminals : TerminalRank(t) <= TerminalRank(u)}}

Claimed(rec) ==
  [rec EXCEPT !.status = "running", !.seg = @ + 1, !.lease = rec.seg + 1, !.ver = version,
              !.attempt = IF rec.why \in {"continuation", "replay"} THEN @ ELSE @ + 1,
              !.why = None]

ClaimReady(S) ==
  /\ status = "active"
  /\ S \in ClaimSets
  /\ act' = [a \in Act |-> IF a \in S THEN Claimed(act[a]) ELSE act[a]]
  /\ UNCHANGED <<status, version, prepared, committed, evt, cost>>

\* E: the running activations whose lease has expired when the tick looks.
ReleaseExpired(E) ==
  /\ E \subseteq With("running")
  /\ act' = [a \in Act |-> IF a \in E THEN ToReady(act[a], "retry") ELSE act[a]]
  /\ UNCHANGED <<status, version, prepared, committed, evt, cost>>

-----------------------------------------------------------------------------
(* Releasing a held claim: park, retry, block, failStop *)

Release(a, tok, rec, st, usage) ==
  /\ Holds(a, tok)
  /\ act' = [act EXCEPT ![a] = rec]
  /\ status' = st
  /\ cost' = cost + usage
  /\ UNCHANGED <<version, prepared, committed, evt>>

\* A timed park beyond maxPendingTimers throws ParkLimitExceeded instead.
Park(a, tok, timer, event, usage) ==
  /\ timer = "armed" => TimerBudgetLeft
  /\ Release(a, tok, ToWaiting(act[a], "continuation", timer, event), status, usage)

\* A backoff beyond the timer budget degrades to an immediate retry.
Retry(a, tok, consume, delay, usage) ==
  LET reason == IF consume THEN "retry" ELSE "replay"
      rec == [act[a] EXCEPT !.replays = IF consume THEN @ ELSE @ + 1]
  IN Release(a, tok, IF delay /\ TimerBudgetLeft
                     THEN ToWaiting(rec, reason, "armed", None)
                     ELSE ToReady(rec, reason), status, usage)

\* block() and failStop() write the instance status without looking at it.

\* Mutant: a status of its own for a blocked instance.
BlockAsBlocked(a, tok, usage) ==
  Release(a, tok, ToReady([act[a] EXCEPT !.replays = @ + 1], "replay"), "blocked", usage)

Block(a, tok, usage) ==
  Release(a, tok, ToReady([act[a] EXCEPT !.replays = @ + 1], "replay"), "paused", usage)

FailStop(a, tok, usage) == Release(a, tok, ToSettled(act[a], "failed"), "failed", usage)

-----------------------------------------------------------------------------
(* Two-phase commit of a finished segment *)

\* prepareCommit: an intent already on disk for this continuation wins.
PrepareCommit(i) ==
  /\ Holds(i.act, i.lease)
  /\ i.cont = act[i.act].cont
  /\ prepared' = IF \E j \in prepared : Key(j) = Key(i) THEN prepared ELSE prepared \cup {i}
  /\ UNCHANGED <<status, act, version, committed, evt, cost>>

Forget(i) == {j \in prepared : Key(j) # Key(i)}

StillLive(i) == act[i.act].status \in {"running", "ready"} /\ act[i.act].cont = i.cont

\* Mutant: the intent is trusted to be of the latest execution.
AnyExecution(i) == TRUE

SameExecution(i) == Graph.serializable => i.ver = act[i.act].ver

\* Mutant: what was prepared is committed, whatever has happened since.
Trusted(i) == TRUE

\* commit() throws when a first commit of i fails one of these checks.
Committable(i) == StillLive(i) /\ status \in {"active", "waiting"} /\ SameExecution(i)

FirstCommit(i) == Key(i) \notin committed /\ Committable(i)

\* Under the serializable policy the State must not have moved since the claim.
Stale(i) == Graph.serializable /\ version # act[i.act].ver

MayReplay(i) ==
  /\ act[i.act].replays < IF NodeOf(i.act).type = "agent" THEN AgentReplays ELSE OtherReplays
  /\ cost + i.usage <= Graph.limits.cost

CommitReplay(i) ==
  /\ FirstCommit(i) /\ Stale(i) /\ MayReplay(i)
  /\ LET rec == [act[i.act] EXCEPT !.replays = @ + 1]
         delayed == act[i.act].replays > 0 /\ TimerBudgetLeft
     IN act' = [act EXCEPT ![i.act] = IF delayed THEN ToWaiting(rec, "replay", "armed", None)
                                                 ELSE ToReady(rec, "replay")]
  /\ cost' = cost + i.usage
  /\ prepared' = Forget(i)
  /\ UNCHANGED <<status, version, committed, evt>>

\* A stale segment that may not replay commits as 'exhausted'.
EffectiveOutcome(i) == IF Stale(i) THEN "exhausted" ELSE i.outcome

\* What every non-replayed commit does besides its effect on act and status.
Record(i) ==
  /\ FirstCommit(i)
  /\ ~ (Stale(i) /\ MayReplay(i))
  /\ committed' = committed \cup {Key(i)}
  /\ prepared' = Forget(i)
  /\ cost' = cost + i.usage
  /\ UNCHANGED evt

CommitTerminal(i) ==
  /\ NodeOf(i.act).type = "terminal"
  /\ Record(i)
  /\ LET failure == EffectiveOutcome(i) = "failure"
         bad == failure \/ NodeOf(i.act).status = "failed"
     IN /\ act' = Settling(i.act, IF bad THEN "failed" ELSE "succeeded", LiveActs \ {i.act})
        /\ status' = IF failure THEN "failed" ELSE NodeOf(i.act).status
  /\ UNCHANGED version

-----------------------------------------------------------------------------
(* Routing: decideTransition *)

\* Edges for the exact outcome, else the 'always' edges.  Which of them is the
\* first whose `when` holds depends on data: any of them may be.
Candidates(n, outcome) ==
  LET exact == {r \in Graph.routes : r.from = n /\ r.on = outcome}
  IN IF exact # {} THEN exact ELSE {r \in Graph.routes : r.from = n /\ r.on = "always"}

Routable(r) == Cardinality(r.to) <= Graph.limits.fanOut

\* No edge, a fan-out over the limit, or a throw of plugin code on the way.
RoutingFails(n, outcome) ==
  \/ Candidates(n, outcome) = {}
  \/ \E r \in Candidates(n, outcome) : ~Routable(r) \/ r.id \in Graph.faulty

\* A Join pops the innermost fork epoch, a fan-out pushes a new one.
ForkGroup(a, r) ==
  LET g == act[a].group
      enclosing == IF IsJoin(a) /\ g # <<>> THEN SubSeq(g, 1, Len(g) - 1) ELSE g
  IN IF Cardinality(r.to) > 1 THEN Append(enclosing, <<a, r.id>>) ELSE enclosing

\* A Join of this fork group that already fired takes no further member.
AlreadyJoined(n, group) ==
  /\ Graph.nodes[n].type = "join"
  /\ \E b \in With("succeeded") : act[b].node = n /\ act[b].group = group

\* Ids for the new activations, one per target node, the lowest unused first.
Births(T) ==
  LET Free == Act \ Born IN
  {f \in [T -> Free] : /\ \A m, n \in T : m # n => f[m] # f[n]
                       /\ \A n \in T, b \in Free : b < f[n] => \E m \in T : f[m] = b}

Spawning(acts, f, ver, r, group) ==
  [a \in Act |-> IF \E n \in DOMAIN f : f[n] = a
                 THEN NewActivation(CHOOSE n \in DOMAIN f : f[n] = a, ver, r.id, group)
                 ELSE acts[a]]

NextVersion(r) == IF r.updates THEN version + 1 ELSE version

\* Mutant: only the members that already wait are coalesced.
CoalescedWaiting(a) ==
  IF IsJoin(a)
  THEN {b \in With("waiting") \ {a} : act[b].node = act[a].node /\ act[b].group = act[a].group}
  ELSE {}

\* Members of the same fork group that a committing Join coalesces.
Coalesced(a) ==
  IF IsJoin(a)
  THEN {b \in LiveActs \ {a} : act[b].node = act[a].node /\ act[b].group = act[a].group}
  ELSE {}

OverLimit(born, live, total) ==
  \/ Cardinality(Born) + born > Graph.limits.total
  \/ live + born > Graph.limits.live
  \/ total > Graph.limits.cost

CommitRoute(i, r, f) ==
  LET a == i.act
      outcome == EffectiveOutcome(i)
      group == ForkGroup(a, r)
      targets == {n \in r.to : ~AlreadyJoined(n, group)}
      dropped == Coalesced(a)
      over == OverLimit(Cardinality(targets), Cardinality(LiveActs \ (dropped \cup {a})),
                        cost + i.usage)
  IN /\ NodeOf(a).type # "terminal"
     /\ Record(i)
     /\ r \in Candidates(act[a].node, outcome) /\ Routable(r)
     /\ version' = NextVersion(r)
     /\ IF over
        THEN /\ status' = "exhausted" /\ f = <<>>
             /\ act' = Settling(a, "succeeded", LiveActs \ {a})
        ELSE /\ f \in Births(targets)
             /\ act' = Spawning(Settling(a, IF outcome = "failure" THEN "failed" ELSE "succeeded", dropped),
                                f, version', r, group)
             /\ UNCHANGED status

\* A routing error becomes a durable commit: an exhausted segment exhausts the
\* graph, any other fails it (without cancelling the live peers).
CommitUnrouted(i) ==
  LET a == i.act  outcome == EffectiveOutcome(i) IN
  /\ NodeOf(a).type # "terminal"
  /\ Record(i)
  /\ RoutingFails(act[a].node, outcome)
  /\ IF outcome = "exhausted"
     THEN /\ status' = "exhausted"
          /\ act' = Settling(a, "succeeded", LiveActs \ {a})
     ELSE /\ status' = "failed"
          /\ act' = Settling(a, "failed", {})
  /\ UNCHANGED version

-----------------------------------------------------------------------------
(* Resuming what waits *)

ResumeAll(R, kind) == [a \in Act |-> IF a \in R THEN Resumed(act[a], kind[a]) ELSE act[a]]

\* Names one claim, or one wait, of a.
Stamp(a)   == <<a, act[a].seg, act[a].status>>
Stamps     == Act \X Nat \X Live
Due      == {a \in With("waiting") : act[a].timer = "due"}

\* signal: the <<join node, fork group>> whose members are woken, or None.
Signalled(a, signal) ==
  /\ act[a].event = "join" /\ signal # None
  /\ <<act[a].node, act[a].group>> = signal

\* D: the due timers that the caller's clock reading is late enough to see.
ResumeDue(signal, D) ==
  LET R == {a \in With("waiting") : a \in D \/ Signalled(a, signal)} IN
  /\ D \subseteq Due
  /\ act' = ResumeAll(R, [a \in R |-> IF Signalled(a, signal) THEN "event" ELSE "timer"])
  /\ UNCHANGED <<status, version, prepared, committed, evt, cost>>

\* Mutant: the announcement of an arrival is relied upon.
TrustAnnouncements == UNCHANGED storeVars

ReconcileWaitingJoins ==
  LET R == {a \in With("waiting") : IsJoin(a) /\ act[a].event = "join" /\ BarrierLeader(a)} IN
  /\ act' = ResumeAll(R, [a \in R |-> "event"])
  /\ UNCHANGED <<status, version, prepared, committed, evt, cost>>

\* The activations event e resumes: those that wait for it and whose wakeAt had
\* not passed when it was created.
Matches(e, late) == {a \in With("waiting") : act[a].event = e /\ Stamp(a) \notin late}

\* recordExternalEvent: a redelivery of a pending event matches again, one of
\* a consumed or expired event does nothing.
RecordExternalEvent(e) ==
  /\ evt[e].status \in {"none", "pending"}
  /\ LET late == IF evt[e].status = "none" THEN {Stamp(a) : a \in Due} ELSE evt[e].late
         M == Matches(e, late)
     IN /\ evt' = [evt EXCEPT ![e] = [status |-> IF M = {} THEN "pending" ELSE "consumed", late |-> late]]
        /\ act' = ResumeAll(M, [a \in M |-> "event"])
  /\ UNCHANGED <<status, version, prepared, committed, cost>>

Pending == {e \in Event : evt[e].status = "pending"}

ResumePendingExternalEvents ==
  LET M(e) == Matches(e, evt[e].late)
      R == UNION {M(e) : e \in Pending}
  IN /\ evt' = [e \in Event |-> IF e \in Pending /\ M(e) # {} THEN [evt[e] EXCEPT !.status = "consumed"]
                                                              ELSE evt[e]]
     /\ act' = ResumeAll(R, [a \in R |-> "event"])
     /\ UNCHANGED <<status, version, prepared, committed, cost>>

\* X: the pending events older than EXTERNAL_EVENT_PENDING_TTL_MS.
ExpireStaleExternalEvents(X) ==
  /\ X \subseteq Pending
  /\ evt' = [e \in Event |-> IF e \in X THEN [evt[e] EXCEPT !.status = "expired"] ELSE evt[e]]
  /\ UNCHANGED <<status, act, version, prepared, committed, cost>>

TimerFires(a) ==
  /\ act[a].status = "waiting" /\ act[a].timer = "armed"
  /\ act' = [act EXCEPT ![a].timer = "due"]
  /\ UNCHANGED <<status, version, prepared, committed, evt, cost>>

-----------------------------------------------------------------------------
(* Instance status *)

\* setStatus: nothing leaves a final status; pausing hands running work back,
\* a final status cancels all live work.  Repeating the current status and
\* reason is a no-op.
SetStatus(st) ==
  \/ /\ status \in Final \cup {st}
     /\ UNCHANGED storeVars
  \/ /\ status \notin Final
     /\ status' = st
     /\ act' = IF st \in Final THEN Cancelling(LiveActs)
               ELSE IF st = "paused"
               THEN [a \in Act |-> IF act[a].status = "running" THEN ToReady(act[a], "replay") ELSE act[a]]
               ELSE act
     /\ UNCHANGED <<version, prepared, committed, evt, cost>>

\* Mutant: a paused Terminal can be left more than once.
PausedTerminals ==
  {a \in With("succeeded") : NodeOf(a).type = "terminal" /\ NodeOf(a).status = "paused"}

ResumableTerminals ==
  {a \in With("succeeded") : /\ NodeOf(a).type = "terminal" /\ NodeOf(a).status = "paused"
                             /\ ~act[a].resumed}

\* resumePausedTerminal: leave a paused Terminal through its resume edge, once.
ResumePausedTerminal(a, r, f) ==
  LET group == ForkGroup(a, r)
      over == OverLimit(Cardinality(r.to), Cardinality(LiveActs), 0)
  IN /\ status = "paused"
     /\ a \in ResumableTerminals
     /\ r \in Candidates(act[a].node, "resume") /\ Routable(r)
     /\ IF over
        THEN /\ status' = "exhausted" /\ f = <<>>
             /\ act' = [Cancelling(LiveActs) EXCEPT ![a].resumed = TRUE]
             /\ UNCHANGED version
        ELSE /\ status' = "active"
             /\ f \in Births(r.to)
             /\ version' = NextVersion(r)
             /\ act' = Spawning([act EXCEPT ![a].resumed = TRUE], f, version', r, group)
     /\ UNCHANGED <<prepared, committed, evt, cost>>

ResumeFails(a) ==
  /\ status = "paused"
  /\ a \in ResumableTerminals
  /\ RoutingFails(act[a].node, "resume")
  /\ status' = "failed"
  /\ UNCHANGED <<act, version, prepared, committed, evt, cost>>

-----------------------------------------------------------------------------
\* One commit transaction that changes something.
Commit(i) ==
  \/ CommitReplay(i)
  \/ CommitTerminal(i)
  \/ \E r \in Graph.routes : \E T \in SUBSET r.to : \E f \in Births(T) : CommitRoute(i, r, f)
  \/ CommitUnrouted(i)

Resume ==
  \E a \in ResumableTerminals :
    \/ \E r \in Graph.routes : \E T \in SUBSET r.to : \E f \in Births(T) : ResumePausedTerminal(a, r, f)
    \/ ResumeFails(a)

\* Any transaction, by any caller, with any arguments.
Next ==
  \/ \E S \in SUBSET Act : ClaimReady(S) \/ ReleaseExpired(S)
  \/ \E a \in Act, tok \in Nat, usage \in Nat :
       \/ \E timer \in {"none", "armed"}, e \in Event \cup {"join", None} : Park(a, tok, timer, e, usage)
       \/ \E consume, delay \in BOOLEAN : Retry(a, tok, consume, delay, usage)
       \/ Block(a, tok, usage) \/ FailStop(a, tok, usage)
  \/ \E i \in Intent : PrepareCommit(i) \/ Commit(i)
  \/ \E signal \in {None} \cup (NodeId \X Seq(Act \X RouteId)), D \in SUBSET Act : ResumeDue(signal, D)
  \/ ReconcileWaitingJoins
  \/ \E e \in Event : RecordExternalEvent(e)
  \/ ResumePendingExternalEvents
  \/ \E X \in SUBSET Event : ExpireStaleExternalEvents(X)
  \/ \E a \in Act : TimerFires(a)
  \/ \E st \in InstanceStatus : SetStatus(st)
  \/ Resume

Spec == Init /\ [][Next]_storeVars

-----------------------------------------------------------------------------
(* Properties *)

TypeOK ==
  /\ status \in InstanceStatus
  /\ act \in [Act -> ActivationRecord]
  /\ version \in Nat /\ cost \in Nat
  /\ prepared \subseteq Intent
  /\ committed \subseteq Act \X Nat
  /\ evt \in [Event -> [status: {"none", "pending", "consumed", "expired"},
                        late: SUBSET Stamps]]

\* Two running Agents never share a Lane: a Lane is one conversation and one
\* workspace, and claimReady is its only mutual exclusion.
LaneExclusive ==
  \A a, b \in With("running") : a # b /\ Lane(a) # None => Lane(a) # Lane(b)

\* concurrency.maxActivations and maxPerNode bound what runs at once.
WithinCapacity ==
  /\ Cardinality(With("running")) <= Graph.limits.running
  /\ \A n \in NodeId :
       Cardinality({a \in With("running") : act[a].node = n}) <= Graph.limits.perNode

\* An instance that is done or exhausted has no live activation: no work is
\* left that a tick, a timer, an event or a late worker could continue.
ClosedIsQuiet == status \in {"done", "exhausted"} => LiveActs = {}

\* Hence done and exhausted are the end: no late worker, timer, event or operator
\* moves the instance on or revives an activation.
ClosedAbsorbing ==
  [][(status \in {"done", "exhausted"}) => UNCHANGED <<status, act, version>>]_storeVars

\* limits.maxPendingTimers bounds the timers the instance has pending, whichever
\* of park, retry and replay asks for them.
TimersWithinBudget ==
  Cardinality({a \in With("waiting") : act[a].timer # "none"}) <= Graph.limits.timers

\* What succeeded, failed or was cancelled never lives again, and its outcome
\* does not change: a cancelled segment whose worker is still running cannot
\* commit.
SettledAbsorbing ==
  [][\A a \in Act : act[a].status \in Settled => act'[a].status = act[a].status]_storeVars

\* A Join fires once for each fork group, whatever order its members arrive,
\* are resumed, are re-executed or time out in.
JoinsOnce ==
  \A a, b \in With("succeeded") :
    IsJoin(a) /\ act[b].node = act[a].node /\ act[b].group = act[a].group => a = b

\* A Join that reports success under mode `all` has had a member from each
\* transition it expects.
JoinHasAll ==
  \A i \in prepared :
    IsJoin(i.act) /\ i.outcome = "success" /\ NodeOf(i.act).mode = "all"
      => NodeOf(i.act).expects \subseteq
           {act[b].via : b \in {b \in Born : /\ act[b].node = act[i.act].node
                                             /\ act[b].group = act[i.act].group}}

\* `resume` leaves a paused Terminal exactly once, however often it is repeated:
\* each target of a resume edge is born once per Terminal that was left.
ResumedOnce ==
  \A r \in {r \in Graph.routes : r.on = "resume"}, n \in NodeId :
    Cardinality({b \in Born : act[b].via = r.id /\ act[b].node = n})
      <= Cardinality({a \in Born : act[a].node = r.from /\ act[a].resumed})

=============================================================================
