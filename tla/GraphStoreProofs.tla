--------------------------- MODULE GraphStoreProofs ---------------------------
(***************************************************************************)
(* Theorems about the transactions of GraphStore, for every graph.         *)
(***************************************************************************)
EXTENDS GraphStore, SequenceTheorems, FiniteSetTheorems, TLAPS

-----------------------------------------------------------------------------
(* Records: every change to an activation record yields one. *)

\* What an activation keeps from its birth or its last claim.
Frame(rec, new) ==
  /\ new.node = rec.node /\ new.via = rec.via /\ new.group = rec.group
  /\ new.seg = rec.seg /\ new.ver = rec.ver
  /\ rec.resumed => new.resumed

LEMMA ToReadyType ==
  ASSUME NEW rec \in ActivationRecord, NEW why \in {"retry", "replay"}
  PROVE  ToReady(rec, why) \in ActivationRecord /\ Frame(rec, ToReady(rec, why))
<1>1. ToReady(rec, why) \in ActivationRecord
  BY DEF ToReady, ActivationRecord, Live
<1>2. Frame(rec, ToReady(rec, why))
  BY DEF ToReady, ActivationRecord, Frame
<1> QED BY <1>1, <1>2

LEMMA ToSettledType ==
  ASSUME NEW rec \in ActivationRecord, NEW st \in Settled
  PROVE  ToSettled(rec, st) \in ActivationRecord /\ Frame(rec, ToSettled(rec, st))
BY DEF ToSettled, ActivationRecord, Frame

LEMMA ResumedType ==
  ASSUME NEW rec \in ActivationRecord, NEW kind \in {"timer", "event"}
  PROVE  Resumed(rec, kind) \in ActivationRecord /\ Frame(rec, Resumed(rec, kind))
<1> DEFINE cont == IF rec.wait = "continuation" THEN rec.cont + 1 ELSE rec.cont
           resume == IF rec.wait = "continuation" THEN kind ELSE rec.resume
<1>1. /\ rec.cont \in Nat /\ rec.resume \in {"timer", "event", None}
      /\ rec.wait \in {"initial", "retry", "replay", "continuation", None}
  BY DEF ActivationRecord
<1>2. cont \in Nat /\ resume \in {"timer", "event", None}
  BY <1>1
<1>3. Resumed(rec, kind) = [rec EXCEPT !.status = "ready", !.timer = "none", !.event = None,
                                       !.wait = None, !.why = rec.wait, !.cont = cont,
                                       !.resume = resume]
  BY DEF Resumed
<1> HIDE DEF cont, resume
<1>4. Resumed(rec, kind) \in ActivationRecord
  BY <1>1, <1>2, <1>3 DEF ActivationRecord, Live
<1>5. Frame(rec, Resumed(rec, kind))
  BY <1>3 DEF ActivationRecord, Frame
<1> QED BY <1>4, <1>5

LEMMA ClaimedType ==
  ASSUME NEW rec \in ActivationRecord, version \in Nat
  PROVE  /\ Claimed(rec) \in ActivationRecord
         /\ Claimed(rec).node = rec.node /\ Claimed(rec).via = rec.via /\ Claimed(rec).group = rec.group
         /\ Claimed(rec).seg = rec.seg + 1 /\ Claimed(rec).lease = rec.seg + 1
         /\ Claimed(rec).ver = version /\ Claimed(rec).resumed = rec.resumed
<1> DEFINE attempt == IF rec.why \in {"continuation", "replay"} THEN rec.attempt ELSE rec.attempt + 1
           seg == rec.seg + 1
<1>1. seg \in Nat /\ attempt \in Nat
  BY DEF ActivationRecord
<1>2. Claimed(rec) = [rec EXCEPT !.status = "running", !.seg = seg, !.lease = seg,
                                 !.ver = version, !.attempt = attempt, !.why = None]
  BY DEF Claimed
<1>3. /\ Claimed(rec).node = rec.node /\ Claimed(rec).via = rec.via /\ Claimed(rec).group = rec.group
      /\ Claimed(rec).seg = seg /\ Claimed(rec).lease = seg
      /\ Claimed(rec).ver = version /\ Claimed(rec).resumed = rec.resumed
  <2> HIDE DEF attempt, seg
  <2> QED BY <1>2 DEF ActivationRecord
<1>4. Claimed(rec) \in ActivationRecord
  <2> HIDE DEF attempt, seg
  <2>1. [rec EXCEPT !.status = "running", !.why = None] \in ActivationRecord
    BY DEF ActivationRecord, Live
  <2> DEFINE started == [rec EXCEPT !.status = "running", !.why = None]
  <2>2. started \in ActivationRecord
    BY <2>1
  <2>3. Claimed(rec) = [started EXCEPT !.seg = seg, !.lease = seg, !.ver = version, !.attempt = attempt]
    BY <1>2 DEF ActivationRecord
  <2> HIDE DEF started
  <2>4. [started EXCEPT !.seg = seg, !.lease = seg, !.ver = version, !.attempt = attempt] \in ActivationRecord
    BY <1>1, <2>2 DEF ActivationRecord
  <2> QED BY <2>3, <2>4
<1> QED BY <1>3, <1>4

LEMMA UnbornType == Unborn \in ActivationRecord /\ Unborn.status = "unborn" /\ Unborn.seg = 0
<1>1. <<>> \in Seq(Act \X RouteId)
  OBVIOUS
<1> QED BY <1>1 DEF Unborn, ActivationRecord

-----------------------------------------------------------------------------
(* What a transaction may do to one activation. *)

Row(rec) ==
  /\ rec \in ActivationRecord
  /\ rec.status # "unborn" => rec.node \in NodeId
  /\ rec.status = "unborn" => rec.seg = 0

\* A transaction that creates no activation and claims none.
Continues(rec, new) ==
  /\ Row(new)
  /\ Frame(rec, new)
  /\ rec.status \notin Live => new.status = rec.status
  /\ rec.status \in Live => new.status \in Live \cup Settled
  /\ new.status = "running" => rec.status = "running" /\ new.lease = rec.lease

Begins(rec, new) ==
  /\ rec.status = "unborn" /\ Row(new)
  /\ new.status = "ready" /\ new.seg = 0 /\ new.ver = version'

\* A claim: its lease is new, and it records the State version it claims.
Starts(rec, new) ==
  /\ Row(new) /\ new.node = rec.node /\ new.via = rec.via /\ new.group = rec.group
  /\ rec.resumed => new.resumed
  /\ rec.status = "ready" /\ new.status = "running"
  /\ new.seg = rec.seg + 1 /\ new.lease = rec.seg + 1 /\ new.ver = version

Continuing == \A a \in Act : Continues(act[a], act'[a])
Evolving   == \A a \in Act : Continues(act[a], act'[a]) \/ Begins(act[a], act'[a])

TypeInv == TypeOK /\ \A a \in Act : Row(act[a])

LEMMA SameContinues ==
  ASSUME NEW rec, Row(rec)
  PROVE  Continues(rec, rec)
BY DEF Continues, Frame, Row, ActivationRecord

LEMMA ReadyContinues ==
  ASSUME NEW rec, Row(rec), rec.status \in Live, NEW why \in {"retry", "replay"}
  PROVE  Continues(rec, ToReady(rec, why))
<1>1. rec \in ActivationRecord /\ rec.node \in NodeId
  BY DEF Row, Live
<1>2. ToReady(rec, why) \in ActivationRecord /\ Frame(rec, ToReady(rec, why))
  BY <1>1, ToReadyType
<1>3. ToReady(rec, why).status = "ready"
  BY <1>1 DEF ToReady, ActivationRecord
<1> QED BY <1>1, <1>2, <1>3 DEF Continues, Frame, Row, Live

LEMMA WaitingContinues ==
  ASSUME NEW rec, Row(rec), rec.status \in Live, NEW reason \in {"retry", "replay", "continuation"},
         NEW timer \in {"none", "armed"}, NEW event \in Event \cup {"join", None}
  PROVE  Continues(rec, ToWaiting(rec, reason, timer, event))
<1>1. rec \in ActivationRecord /\ rec.node \in NodeId
  BY DEF Row, Live
<1>2. ToWaiting(rec, reason, timer, event) \in ActivationRecord
  BY <1>1 DEF ToWaiting, ActivationRecord, Live
<1>3. /\ Frame(rec, ToWaiting(rec, reason, timer, event))
      /\ ToWaiting(rec, reason, timer, event).status = "waiting"
  BY <1>1 DEF ToWaiting, ActivationRecord, Frame
<1> QED BY <1>1, <1>2, <1>3 DEF Continues, Frame, Row, Live

LEMMA SettledContinues ==
  ASSUME NEW rec, Row(rec), rec.status \in Live, NEW st \in Settled
  PROVE  Continues(rec, ToSettled(rec, st)) /\ ToSettled(rec, st).status = st
<1>1. rec \in ActivationRecord /\ rec.node \in NodeId
  BY DEF Row, Live
<1>2. ToSettled(rec, st) \in ActivationRecord /\ Frame(rec, ToSettled(rec, st))
  BY <1>1, ToSettledType
<1>3. ToSettled(rec, st).status = st
  BY <1>1 DEF ToSettled, ActivationRecord
<1> QED BY <1>1, <1>2, <1>3 DEF Continues, Frame, Row, Live, Settled

LEMMA ResumedContinues ==
  ASSUME NEW rec, Row(rec), rec.status = "waiting", NEW kind \in {"timer", "event"}
  PROVE  Continues(rec, Resumed(rec, kind))
<1>1. rec \in ActivationRecord /\ rec.node \in NodeId
  BY DEF Row
<1>2. Resumed(rec, kind) \in ActivationRecord /\ Frame(rec, Resumed(rec, kind))
  BY <1>1, ResumedType
<1>3. Resumed(rec, kind).status = "ready"
  BY <1>1 DEF Resumed, ActivationRecord
<1> QED BY <1>1, <1>2, <1>3 DEF Continues, Frame, Row, Live

\* Retry, replay and block first change the replay count, or leave it alone.
LEMMA ReplayedRecord ==
  ASSUME NEW rec \in ActivationRecord, NEW n \in {rec.replays, rec.replays + 1}
  PROVE  [rec EXCEPT !.replays = n] \in ActivationRecord
<1>1. n \in Nat
  BY DEF ActivationRecord
<1> QED BY <1>1 DEF ActivationRecord

LEMMA ReplayedRow ==
  ASSUME NEW rec, Row(rec), NEW n \in {rec.replays, rec.replays + 1}
  PROVE  LET new == [rec EXCEPT !.replays = n] IN
         Row(new) /\ Frame(rec, new) /\ new.status = rec.status
<1>1. rec \in ActivationRecord /\ n \in Nat
  BY DEF Row, ActivationRecord
<1> DEFINE new == [rec EXCEPT !.replays = n]
<1>2. new \in ActivationRecord
  BY <1>1 DEF ActivationRecord
<1>3. Frame(rec, new) /\ new.status = rec.status
  BY <1>1 DEF ActivationRecord, Frame
<1> HIDE DEF new
<1>4. Row(new) /\ Frame(rec, new) /\ new.status = rec.status
  BY <1>2, <1>3 DEF Row, Frame
<1> USE DEF new
<1> QED BY <1>4

LEMMA HandedBackContinues ==
  ASSUME NEW rec, Row(rec), rec.status \in Live, NEW n \in {rec.replays, rec.replays + 1},
         NEW reason \in {"retry", "replay"}
  PROVE  LET new == [rec EXCEPT !.replays = n] IN
         /\ Continues(rec, ToReady(new, reason))
         /\ Continues(rec, ToWaiting(new, reason, "armed", None))
<1> DEFINE new == [rec EXCEPT !.replays = n]
<1>1. Row(new) /\ Frame(rec, new) /\ new.status = rec.status
  BY ReplayedRow
<1> HIDE DEF new
<1>2. Continues(new, ToReady(new, reason))
  BY <1>1, ReadyContinues
<1>3. Continues(new, ToWaiting(new, reason, "armed", None))
  BY <1>1, WaitingContinues
<1>4. Continues(rec, ToReady(new, reason)) /\ Continues(rec, ToWaiting(new, reason, "armed", None))
  <2>1. ToReady(new, reason).status = "ready" /\ ToWaiting(new, reason, "armed", None).status = "waiting"
    BY <1>1 DEF Row, ActivationRecord, ToReady, ToWaiting
  <2> QED BY <1>1, <1>2, <1>3, <2>1 DEF Continues, Frame
<1> USE DEF new
<1> QED BY <1>4

\* Only the paused Terminal that was left is changed without being live.
LEMMA LeftContinues ==
  ASSUME NEW rec, Row(rec)
  PROVE  Continues(rec, [rec EXCEPT !.resumed = TRUE])
<1> DEFINE new == [rec EXCEPT !.resumed = TRUE]
<1>1. rec \in ActivationRecord
  BY DEF Row
<1>2. new \in ActivationRecord
  BY <1>1 DEF ActivationRecord
<1>3. Frame(rec, new) /\ new.status = rec.status /\ new.lease = rec.lease
  BY <1>1 DEF ActivationRecord, Frame
<1>4. rec.status \in {"unborn"} \cup Live \cup Settled
  BY <1>1 DEF ActivationRecord
<1> HIDE DEF new
<1>5. Continues(rec, new)
  BY <1>2, <1>3, <1>4 DEF Continues, Row, Frame
<1> QED BY <1>5 DEF new

LEMMA ClaimedStarts ==
  ASSUME NEW rec, Row(rec), rec.status = "ready", version \in Nat
  PROVE  Starts(rec, Claimed(rec))
<1>1. rec \in ActivationRecord /\ rec.node \in NodeId
  BY DEF Row
<1>2. /\ Claimed(rec) \in ActivationRecord
      /\ Claimed(rec).node = rec.node /\ Claimed(rec).via = rec.via /\ Claimed(rec).group = rec.group
      /\ Claimed(rec).seg = rec.seg + 1 /\ Claimed(rec).lease = rec.seg + 1
      /\ Claimed(rec).ver = version /\ Claimed(rec).resumed = rec.resumed
  BY <1>1, ClaimedType
<1>3. Claimed(rec).status = "running"
  BY <1>1 DEF Claimed, ActivationRecord
<1> QED BY <1>1, <1>2, <1>3 DEF Starts, Row

LEMMA NewBegins ==
  ASSUME NEW rec, rec.status = "unborn", NEW n \in NodeId, NEW ver \in Nat, ver = version',
         NEW r \in Graph.routes, NEW group \in Seq(Act \X RouteId)
  PROVE  Begins(rec, NewActivation(n, ver, r.id, group))
<1>1. r.id \in RouteId \cup {None}
  BY DEF RouteId
<1>2. /\ NewActivation(n, ver, r.id, group) \in ActivationRecord
      /\ NewActivation(n, ver, r.id, group).node = n
      /\ NewActivation(n, ver, r.id, group).status = "ready"
      /\ NewActivation(n, ver, r.id, group).seg = 0
      /\ NewActivation(n, ver, r.id, group).ver = ver
  BY <1>1 DEF NewActivation, Unborn, ActivationRecord, Live
<1> QED BY <1>2 DEF Begins, Row

-----------------------------------------------------------------------------
(* Each transaction keeps the types, and moves each activation as above. *)

TableOK == act = [a \in Act |-> act[a]]
Inbox == [Event -> [status: {"none", "pending", "consumed", "expired"}, late: SUBSET Stamps]]

LEMMA ContinuingEvolves == Continuing => Evolving
BY DEF Continuing, Evolving

LEMMA EvolvingType ==
  ASSUME TypeInv, Evolving, TableOK', status' \in InstanceStatus, version' \in Nat, cost' \in Nat,
         prepared' \subseteq Intent, committed' \subseteq Act \X Nat, evt' = evt \/ evt' \in Inbox
  PROVE  TypeInv'
<1>1. \A a \in Act : Row(act'[a])
  BY DEF Evolving, Continues, Begins
<1>2. act' \in [Act -> ActivationRecord]
  BY <1>1 DEF Row, TableOK
<1>3. (\A a \in Act : Row(act[a]))'
  BY <1>1 DEF Row
<1> QED BY <1>2, <1>3 DEF TypeInv, TypeOK, Inbox

\* A transaction that rewrites the activations of S, each in a way that continues it.
LEMMA RewriteContinuing ==
  ASSUME TypeInv, NEW S \in SUBSET Act, NEW new,
         act' = [a \in Act |-> IF a \in S THEN new[a] ELSE act[a]],
         \A a \in S : Continues(act[a], new[a])
  PROVE  Continuing /\ TableOK'
<1>1. \A a \in Act : Continues(act[a], act[a])
  BY SameContinues DEF TypeInv
<1> QED BY <1>1 DEF Continuing, TableOK

LEMMA UnchangedContinuing ==
  ASSUME TypeInv, UNCHANGED act
  PROVE  Continuing /\ TableOK'
<1>1. \A a \in Act : Continues(act[a], act[a])
  BY SameContinues DEF TypeInv
<1> QED BY <1>1 DEF Continuing, TableOK, TypeInv, TypeOK

LEMMA ReleaseStep ==
  ASSUME TypeInv, NEW a \in Act, NEW tok, NEW rec, Continues(act[a], rec),
         NEW st \in InstanceStatus, NEW usage \in Nat, Release(a, tok, rec, st, usage)
  PROVE  TypeInv' /\ Continuing
<1>1. \A b \in Act : Continues(act[b], act[b])
  BY SameContinues DEF TypeInv
<1>2. act' = [act EXCEPT ![a] = rec] /\ act = [b \in Act |-> act[b]]
  BY DEF Release, TypeInv, TypeOK
<1>3. Continuing /\ TableOK'
  BY <1>1, <1>2 DEF Continuing, TableOK
<1>4. cost' \in Nat
  BY DEF Release, TypeInv, TypeOK
<1> QED BY <1>3, <1>4, ContinuingEvolves, EvolvingType DEF Release, TypeInv, TypeOK

LEMMA HeldIsLive ==
  ASSUME TypeInv, NEW a \in Act, NEW tok, Holds(a, tok)
  PROVE  Row(act[a]) /\ act[a].status \in Live /\ status \in InstanceStatus
BY DEF TypeInv, TypeOK, Holds, Live

LEMMA ReleaseExpiredStep ==
  ASSUME TypeInv, NEW E, ReleaseExpired(E)
  PROVE  TypeInv' /\ Continuing
<1>1. \A a \in E : a \in Act /\ act[a].status = "running"
  BY DEF ReleaseExpired, With
<1>2. \A a \in E : Continues(act[a], ToReady(act[a], "retry"))
  BY <1>1, ReadyContinues DEF TypeInv, Live
<1> DEFINE new == [a \in E |-> ToReady(act[a], "retry")]
<1>3. act' = [a \in Act |-> IF a \in E THEN new[a] ELSE act[a]]
  BY DEF ReleaseExpired
<1>4. \A a \in E : Continues(act[a], new[a])
  BY <1>2
<1> HIDE DEF new
<1>5. Continuing /\ TableOK'
  BY <1>1, <1>3, <1>4, RewriteContinuing
<1> QED BY <1>5, ContinuingEvolves, EvolvingType DEF ReleaseExpired, TypeInv, TypeOK

LEMMA ParkStep ==
  ASSUME TypeInv, NEW a \in Act, NEW tok, NEW timer \in {"none", "armed"},
         NEW event \in Event \cup {"join", None}, NEW usage \in Nat, Park(a, tok, timer, event, usage)
  PROVE  TypeInv' /\ Continuing
<1> DEFINE rec == ToWaiting(act[a], "continuation", timer, event)
<1>1. Release(a, tok, rec, status, usage)
  BY DEF Park
<1>2. Row(act[a]) /\ act[a].status \in Live /\ status \in InstanceStatus
  BY <1>1, HeldIsLive DEF Release
<1>3. Continues(act[a], rec)
  BY <1>2, WaitingContinues
<1> HIDE DEF rec
<1> QED BY <1>1, <1>2, <1>3, ReleaseStep

LEMMA RetryStep ==
  ASSUME TypeInv, NEW a \in Act, NEW tok, NEW consume \in BOOLEAN, NEW delay \in BOOLEAN,
         NEW usage \in Nat, Retry(a, tok, consume, delay, usage)
  PROVE  TypeInv' /\ Continuing
<1> DEFINE reason == IF consume THEN "retry" ELSE "replay"
           n == IF consume THEN act[a].replays ELSE act[a].replays + 1
           new == [act[a] EXCEPT !.replays = n]
           rec == IF delay /\ TimerBudgetLeft THEN ToWaiting(new, reason, "armed", None)
                                              ELSE ToReady(new, reason)
<1>1. Release(a, tok, rec, status, usage)
  BY DEF Retry
<1>2. Row(act[a]) /\ act[a].status \in Live /\ status \in InstanceStatus
  BY <1>1, HeldIsLive DEF Release
<1>3. n \in {act[a].replays, act[a].replays + 1} /\ reason \in {"retry", "replay"}
  OBVIOUS
<1>4. Continues(act[a], rec)
  <2> HIDE DEF n, reason
  <2>1. Continues(act[a], ToReady(new, reason)) /\ Continues(act[a], ToWaiting(new, reason, "armed", None))
    BY <1>2, <1>3, HandedBackContinues
  <2> QED BY <2>1
<1> HIDE DEF rec
<1> QED BY <1>1, <1>2, <1>4, ReleaseStep

LEMMA BlockStep ==
  ASSUME TypeInv, NEW a \in Act, NEW tok, NEW usage \in Nat, Block(a, tok, usage)
  PROVE  TypeInv' /\ Continuing
<1> DEFINE n == act[a].replays + 1
           rec == ToReady([act[a] EXCEPT !.replays = n], "replay")
<1>1. Release(a, tok, rec, "paused", usage)
  BY DEF Block
<1>2. Row(act[a]) /\ act[a].status \in Live
  BY <1>1, HeldIsLive DEF Release
<1>3. Continues(act[a], rec)
  BY <1>2, HandedBackContinues
<1>4. "paused" \in InstanceStatus
  BY DEF InstanceStatus
<1> HIDE DEF rec
<1> QED BY <1>1, <1>3, <1>4, ReleaseStep

LEMMA FailStopStep ==
  ASSUME TypeInv, NEW a \in Act, NEW tok, NEW usage \in Nat, FailStop(a, tok, usage)
  PROVE  TypeInv' /\ Continuing
<1> DEFINE rec == ToSettled(act[a], "failed")
<1>1. Release(a, tok, rec, "failed", usage)
  BY DEF FailStop
<1>2. Row(act[a]) /\ act[a].status \in Live
  BY <1>1, HeldIsLive DEF Release
<1>3. Continues(act[a], rec) /\ "failed" \in InstanceStatus
  BY <1>2, SettledContinues DEF Settled, InstanceStatus, Final
<1> HIDE DEF rec
<1> QED BY <1>1, <1>3, ReleaseStep

LEMMA PrepareCommitStep ==
  ASSUME TypeInv, NEW i \in Intent, PrepareCommit(i)
  PROVE  TypeInv' /\ Continuing
<1>1. prepared' \subseteq Intent
  BY DEF PrepareCommit, TypeInv, TypeOK
<1>2. Continuing /\ TableOK'
  BY UnchangedContinuing DEF PrepareCommit
<1> QED BY <1>1, <1>2, ContinuingEvolves, EvolvingType DEF PrepareCommit, TypeInv, TypeOK

LEMMA ClaimSetsReady == \A S \in ClaimSets : S \subseteq With("ready")
BY DEF ClaimSets, ReadyTerminals

\* The one transaction that starts work: the claimed activations, and no other.
LEMMA ClaimReadyStep ==
  ASSUME TypeInv, NEW S, ClaimReady(S)
  PROVE  /\ TypeInv'
         /\ \A a \in S : Starts(act[a], act'[a])
         /\ \A a \in Act \ S : act'[a] = act[a]
<1>1. \A a \in S : a \in Act /\ act[a].status = "ready"
  BY ClaimSetsReady DEF ClaimReady, With
<1>2. \A a \in Act : Row(act[a])
  BY DEF TypeInv
<1>3. \A a \in S : Starts(act[a], Claimed(act[a]))
  BY <1>1, <1>2, ClaimedStarts DEF TypeInv, TypeOK
<1>4. act' = [a \in Act |-> IF a \in S THEN Claimed(act[a]) ELSE act[a]]
  BY DEF ClaimReady
<1>5. \A a \in Act : Row(act'[a])
  BY <1>1, <1>2, <1>3, <1>4 DEF Starts
<1>6. act' \in [Act -> ActivationRecord]
  BY <1>4, <1>5 DEF Row
<1>7. (\A a \in Act : Row(act[a]))'
  BY <1>5 DEF Row
<1> QED BY <1>1, <1>3, <1>4, <1>6, <1>7 DEF ClaimReady, TypeInv, TypeOK

LEMMA CancellingRows ==
  ASSUME TypeInv, NEW S \in SUBSET LiveActs
  PROVE  /\ Cancelling(S) = [a \in Act |-> Cancelling(S)[a]]
         /\ \A a \in Act : Continues(act[a], Cancelling(S)[a])
         /\ \A a \in S : Cancelling(S)[a].status = "cancelled"
         /\ \A a \in Act \ S : Cancelling(S)[a] = act[a]
<1>1. \A a \in Act : Row(act[a]) /\ Continues(act[a], act[a])
  BY SameContinues DEF TypeInv
<1>2. \A a \in S : a \in Act /\ act[a].status \in Live
  BY DEF LiveActs
<1>3. \A a \in S : /\ Continues(act[a], ToSettled(act[a], "cancelled"))
                   /\ ToSettled(act[a], "cancelled").status = "cancelled"
  BY <1>1, <1>2, SettledContinues DEF Settled
<1> QED BY <1>1, <1>2, <1>3 DEF Cancelling

LEMMA SettlingRows ==
  ASSUME TypeInv, NEW S, NEW a, NEW st \in Settled,
         S \subseteq LiveActs, a \in LiveActs, a \notin S
  PROVE  /\ Settling(a, st, S) = [b \in Act |-> Settling(a, st, S)[b]]
         /\ \A b \in Act : Continues(act[b], Settling(a, st, S)[b])
         /\ \A b \in S : Settling(a, st, S)[b].status = "cancelled"
         /\ \A b \in Act \ (S \cup {a}) : Settling(a, st, S)[b] = act[b]
         /\ Settling(a, st, S)[a].status = st
<1>1. /\ Cancelling(S) = [b \in Act |-> Cancelling(S)[b]]
      /\ \A b \in Act : Continues(act[b], Cancelling(S)[b])
      /\ \A b \in S : Cancelling(S)[b].status = "cancelled"
      /\ \A b \in Act \ S : Cancelling(S)[b] = act[b]
  BY CancellingRows
<1>2. a \in Act /\ act[a].status \in Live /\ a \notin S /\ S \subseteq Act
  BY DEF LiveActs
<1>3. Row(act[a])
  BY <1>2 DEF TypeInv
<1>4. Continues(act[a], ToSettled(act[a], st)) /\ ToSettled(act[a], st).status = st
  BY <1>2, <1>3, SettledContinues
<1>5. Settling(a, st, S) = [Cancelling(S) EXCEPT ![a] = ToSettled(act[a], st)]
  BY <1>1, <1>2 DEF Settling
<1> DEFINE c == Cancelling(S)
<1>6. /\ c = [b \in Act |-> c[b]]
      /\ \A b \in Act : Continues(act[b], c[b])
      /\ \A b \in S : c[b].status = "cancelled"
      /\ \A b \in Act \ S : c[b] = act[b]
      /\ Settling(a, st, S) = [c EXCEPT ![a] = ToSettled(act[a], st)]
  BY <1>1, <1>5
<1> HIDE DEF c
<1>7. \A b \in Act : Settling(a, st, S)[b] = IF b = a THEN ToSettled(act[a], st) ELSE c[b]
  BY <1>6
<1> QED BY <1>2, <1>4, <1>6, <1>7

LEMMA SettlingStep ==
  ASSUME TypeInv, NEW S, NEW a, NEW st \in Settled,
         S \subseteq LiveActs, a \in LiveActs, a \notin S, act' = Settling(a, st, S)
  PROVE  Continuing /\ TableOK'
<1>1. /\ Settling(a, st, S) = [b \in Act |-> Settling(a, st, S)[b]]
      /\ \A b \in Act : Continues(act[b], Settling(a, st, S)[b])
  BY SettlingRows
<1> QED BY <1>1 DEF Continuing, TableOK

\* Closing an instance: one activation settles and all live peers are cancelled.
LEMMA ClosingQuiet ==
  ASSUME TypeInv, NEW a \in LiveActs, NEW st \in Settled,
         act' = Settling(a, st, LiveActs \ {a})
  PROVE  LiveActs' = {}
<1> DEFINE S == LiveActs \ {a}
           c == Settling(a, st, S)
<1>1. S \subseteq LiveActs /\ a \notin S
  OBVIOUS
<1>2. act' = c
  OBVIOUS
<1>3. /\ \A b \in S : c[b].status = "cancelled"
      /\ \A b \in Act \ (S \cup {a}) : c[b] = act[b]
      /\ c[a].status = st
  <2> HIDE DEF S
  <2> QED BY <1>1, SettlingRows
<1> HIDE DEF c
<1> QED BY <1>2, <1>3 DEF LiveActs, Live, Settled

LEMMA SpawningStep ==
  ASSUME TypeInv, NEW acts, acts = [a \in Act |-> acts[a]],
         \A a \in Act : Continues(act[a], acts[a]),
         NEW T \in SUBSET NodeId, NEW f \in Births(T), NEW r \in Graph.routes,
         version' \in Nat, NEW group \in Seq(Act \X RouteId), act' = Spawning(acts, f, version', r, group)
  PROVE  Evolving /\ TableOK'
<1>1. \A n \in T : f[n] \in Act \ Born
  BY DEF Births
<1>2. DOMAIN f = T
  BY DEF Births
<1>3. ASSUME NEW a \in Act PROVE Continues(act[a], act'[a]) \/ Begins(act[a], act'[a])
  <2>1. CASE \E n \in T : f[n] = a
    <3> DEFINE n == CHOOSE n \in T : f[n] = a
    <3>1. n \in T /\ f[n] = a
      BY <2>1
    <3>2. act[a].status = "unborn"
      BY <1>1, <3>1 DEF Born
    <3>3. act'[a] = NewActivation(n, version', r.id, group)
      BY <1>2, <2>1 DEF Spawning
    <3> HIDE DEF n
    <3>4. Begins(act[a], NewActivation(n, version', r.id, group))
      BY <3>1, <3>2, NewBegins
    <3> QED BY <3>3, <3>4
  <2>2. CASE ~ \E n \in T : f[n] = a
    BY <1>2, <2>2 DEF Spawning
  <2> QED BY <2>1, <2>2
<1> QED BY <1>3 DEF Evolving, TableOK, Spawning

LEMMA ForkGroupType ==
  ASSUME TypeInv, NEW a \in Act, NEW r \in Graph.routes
  PROVE  ForkGroup(a, r) \in Seq(Act \X RouteId)
<1> DEFINE g == act[a].group
           enclosing == IF IsJoin(a) /\ g # <<>> THEN SubSeq(g, 1, Len(g) - 1) ELSE g
<1>1. g \in Seq(Act \X RouteId)
  BY DEF TypeInv, Row, ActivationRecord
<1>2. SubSeq(g, 1, Len(g) - 1) \in Seq(Act \X RouteId)
  BY <1>1, SubSeqProperties
<1>3. enclosing \in Seq(Act \X RouteId)
  BY <1>1, <1>2
<1>4. <<a, r.id>> \in Act \X RouteId
  BY DEF RouteId
<1>5. Append(enclosing, <<a, r.id>>) \in Seq(Act \X RouteId)
  BY <1>3, <1>4, AppendProperties
<1> QED BY <1>3, <1>5 DEF ForkGroup

LEMMA CommitsLive ==
  ASSUME TypeInv, NEW i \in Intent, FirstCommit(i)
  PROVE  /\ i.act \in LiveActs /\ i.cont \in Nat /\ i.usage \in Nat
         /\ Row(act[i.act]) /\ act[i.act].node \in NodeId
         /\ status \in {"active", "waiting"}
<1>1. i.act \in Act /\ i.cont \in Nat /\ i.usage \in Nat
  BY DEF Intent
<1>2. Row(act[i.act])
  BY <1>1 DEF TypeInv
<1> QED BY <1>1, <1>2 DEF FirstCommit, Committable, StillLive, LiveActs, Live, Row

LEMMA RecordTypes ==
  ASSUME TypeInv, NEW i \in Intent, Record(i)
  PROVE  committed' \subseteq Act \X Nat /\ prepared' \subseteq Intent /\ cost' \in Nat /\ evt' = evt
<1>1. Key(i) \in Act \X Nat /\ i.usage \in Nat
  BY DEF Intent, Key
<1> QED BY <1>1 DEF Record, Forget, TypeInv, TypeOK

LEMMA CommitReplayStep ==
  ASSUME TypeInv, NEW i \in Intent, CommitReplay(i)
  PROVE  TypeInv' /\ Continuing
<1> DEFINE a == i.act
           n == act[a].replays + 1
           new == [act[a] EXCEPT !.replays = n]
           delayed == act[a].replays > 0 /\ TimerBudgetLeft
           rec == IF delayed THEN ToWaiting(new, "replay", "armed", None) ELSE ToReady(new, "replay")
<1>1. a \in Act /\ Row(act[a]) /\ act[a].status \in Live /\ i.usage \in Nat
  BY CommitsLive DEF CommitReplay, LiveActs
<1>2. Continues(act[a], rec)
  <2>1. Continues(act[a], ToReady(new, "replay")) /\ Continues(act[a], ToWaiting(new, "replay", "armed", None))
    BY <1>1, HandedBackContinues
  <2> QED BY <2>1
<1>3. act' = [act EXCEPT ![a] = rec] /\ act = [b \in Act |-> act[b]]
  BY DEF CommitReplay, TypeInv, TypeOK
<1>4. \A b \in Act : Continues(act[b], act[b])
  BY SameContinues DEF TypeInv
<1>5. Continuing /\ TableOK'
  <2> HIDE DEF rec
  <2> QED BY <1>1, <1>2, <1>3, <1>4 DEF Continuing, TableOK
<1>6. prepared' \subseteq Intent /\ cost' \in Nat
  BY <1>1 DEF CommitReplay, Forget, TypeInv, TypeOK
<1>7. UNCHANGED <<status, version, committed, evt>>
  BY DEF CommitReplay
<1>8. status' \in InstanceStatus /\ version' \in Nat /\ committed' \subseteq Act \X Nat
  BY <1>7 DEF TypeInv, TypeOK
<1> QED BY <1>5, <1>6, <1>7, <1>8, ContinuingEvolves, EvolvingType

LEMMA CommitTerminalStep ==
  ASSUME TypeInv, NEW i \in Intent, CommitTerminal(i)
  PROVE  TypeInv' /\ Continuing /\ ClosedIsQuiet'
<1> DEFINE failure == EffectiveOutcome(i) = "failure"
           st == IF failure \/ NodeOf(i.act).status = "failed" THEN "failed" ELSE "succeeded"
<1>1. Record(i) /\ FirstCommit(i)
  BY DEF CommitTerminal, Record
<1>2. /\ i.act \in LiveActs /\ act[i.act].node \in NodeId
  BY <1>1, CommitsLive
<1>3. act' = Settling(i.act, st, LiveActs \ {i.act}) /\ st \in Settled
  BY DEF CommitTerminal, Settled
<1>4. Continuing /\ TableOK' /\ LiveActs' = {}
  <2> HIDE DEF st
  <2> QED BY <1>2, <1>3, SettlingStep, ClosingQuiet
<1>5. status' \in InstanceStatus
  <2>1. status' = "failed" \/ status' = NodeOf(i.act).status
    BY DEF CommitTerminal
  <2>2. NodeOf(i.act).status \in Final \cup {"paused"}
    BY <1>2, GraphAssumption DEF CommitTerminal, NodeOf
  <2> QED BY <2>1, <2>2 DEF InstanceStatus, Final
<1>6. committed' \subseteq Act \X Nat /\ prepared' \subseteq Intent /\ cost' \in Nat /\ evt' = evt
  BY <1>1, RecordTypes
<1>7. version' \in Nat
  BY DEF CommitTerminal, TypeInv, TypeOK
<1>8. ClosedIsQuiet'
  BY <1>4 DEF ClosedIsQuiet
<1> QED BY <1>4, <1>5, <1>6, <1>7, <1>8, ContinuingEvolves, EvolvingType

LEMMA CommitUnroutedStep ==
  ASSUME TypeInv, NEW i \in Intent, CommitUnrouted(i)
  PROVE  TypeInv' /\ Continuing /\ ClosedIsQuiet'
<1>1. Record(i) /\ FirstCommit(i)
  BY DEF CommitUnrouted, Record
<1>2. i.act \in LiveActs
  BY <1>1, CommitsLive
<1>3. /\ Continuing /\ TableOK'
      /\ status' \in {"exhausted", "failed"}
      /\ status' = "exhausted" => LiveActs' = {}
  <2>1. CASE EffectiveOutcome(i) = "exhausted"
    <3>1. act' = Settling(i.act, "succeeded", LiveActs \ {i.act}) /\ status' = "exhausted"
      BY <2>1 DEF CommitUnrouted
    <3> QED BY <3>1, <1>2, SettlingStep, ClosingQuiet DEF Settled
  <2>2. CASE EffectiveOutcome(i) # "exhausted"
    <3>1. act' = Settling(i.act, "failed", {}) /\ status' = "failed"
      BY <2>2 DEF CommitUnrouted
    <3> QED BY <3>1, <1>2, SettlingStep DEF Settled
  <2> QED BY <2>1, <2>2
<1>4. committed' \subseteq Act \X Nat /\ prepared' \subseteq Intent /\ cost' \in Nat /\ evt' = evt
  BY <1>1, RecordTypes
<1>5. version' \in Nat /\ status' \in InstanceStatus
  BY <1>3 DEF CommitUnrouted, TypeInv, TypeOK, InstanceStatus, Final
<1>6. ClosedIsQuiet'
  BY <1>3 DEF ClosedIsQuiet
<1> QED BY <1>3, <1>4, <1>5, <1>6, ContinuingEvolves, EvolvingType

LEMMA CommitRouteStep ==
  ASSUME TypeInv, NEW i \in Intent, NEW r \in Graph.routes, NEW f, CommitRoute(i, r, f)
  PROVE  TypeInv' /\ Evolving /\ ClosedIsQuiet'
<1> DEFINE a == i.act
           group == ForkGroup(a, r)
           targets == {n \in r.to : ~AlreadyJoined(n, group)}
           dropped == Coalesced(a)
           over == OverLimit(Cardinality(targets), Cardinality(LiveActs \ (dropped \cup {a})),
                             cost + i.usage)
           st == IF EffectiveOutcome(i) = "failure" THEN "failed" ELSE "succeeded"
<1>1. Record(i) /\ FirstCommit(i)
  BY DEF CommitRoute, Record
<1>2. a \in LiveActs /\ status \in {"active", "waiting"}
  BY <1>1, CommitsLive
<1>3. version' \in Nat
  BY DEF CommitRoute, NextVersion, TypeInv, TypeOK
<1>4. committed' \subseteq Act \X Nat /\ prepared' \subseteq Intent /\ cost' \in Nat /\ evt' = evt
  BY <1>1, RecordTypes
<1>5. CASE over
  <2>1. act' = Settling(a, "succeeded", LiveActs \ {a}) /\ status' = "exhausted"
    BY <1>5 DEF CommitRoute
  <2>2. Continuing /\ TableOK' /\ LiveActs' = {}
    <3> HIDE DEF a
    <3> QED BY <2>1, <1>2, SettlingStep, ClosingQuiet DEF Settled
  <2>3. status' \in InstanceStatus
    BY <2>1 DEF InstanceStatus, Final
  <2>4. ClosedIsQuiet'
    BY <2>2 DEF ClosedIsQuiet
  <2> QED BY <2>2, <2>3, <2>4, <1>3, <1>4, ContinuingEvolves, EvolvingType
<1>6. CASE ~over
  <2> DEFINE acts == Settling(a, st, dropped)
  <2>1. /\ act' = Spawning(acts, f, version', r, group)
        /\ f \in Births(targets) /\ status' = status
    BY <1>6 DEF CommitRoute
  <2>2. dropped \subseteq LiveActs /\ a \notin dropped /\ st \in Settled
    BY DEF Coalesced, Settled
  <2>3. acts = [b \in Act |-> acts[b]] /\ \A b \in Act : Continues(act[b], acts[b])
    <3> HIDE DEF st, dropped, a
    <3> QED BY <2>2, <1>2, SettlingRows
  <2>4. group \in Seq(Act \X RouteId)
    BY <1>2, ForkGroupType DEF LiveActs
  <2>5. targets \subseteq NodeId
    BY GraphAssumption
  <2>6. Evolving /\ TableOK'
    <3> HIDE DEF acts, targets, group
    <3> QED BY <2>1, <2>3, <2>4, <2>5, <1>3, SpawningStep
  <2>7. status' \in InstanceStatus /\ ClosedIsQuiet'
    BY <2>1, <1>2 DEF InstanceStatus, ClosedIsQuiet
  <2> QED BY <2>6, <2>7, <1>3, <1>4, EvolvingType
<1> QED BY <1>5, <1>6

\* What every resumption of waiting activations does to them.
LEMMA ResumingContinues ==
  ASSUME TypeInv, NEW R, R \subseteq With("waiting"), NEW kind, \A a \in R : kind[a] \in {"timer", "event"},
         act' = ResumeAll(R, kind)
  PROVE  Continuing /\ TableOK'
<1>1. \A a \in R : a \in Act /\ act[a].status = "waiting" /\ Row(act[a])
  BY DEF With, TypeInv
<1>2. \A a \in R : Continues(act[a], Resumed(act[a], kind[a]))
  BY <1>1, ResumedContinues
<1> DEFINE new == [a \in R |-> Resumed(act[a], kind[a])]
<1>3. act' = [a \in Act |-> IF a \in R THEN new[a] ELSE act[a]]
  BY DEF ResumeAll
<1>4. \A a \in R : Continues(act[a], new[a])
  BY <1>2
<1> HIDE DEF new
<1> QED BY <1>1, <1>3, <1>4, RewriteContinuing

LEMMA ResumeDueStep ==
  ASSUME TypeInv, NEW signal, NEW D, ResumeDue(signal, D)
  PROVE  TypeInv' /\ Continuing
<1> DEFINE R == {a \in With("waiting") : a \in D \/ Signalled(a, signal)}
           kind == [a \in R |-> IF Signalled(a, signal) THEN "event" ELSE "timer"]
<1>1. act' = ResumeAll(R, kind)
  BY DEF ResumeDue
<1>2. R \subseteq With("waiting") /\ \A a \in R : kind[a] \in {"timer", "event"}
  OBVIOUS
<1> HIDE DEF R, kind
<1>3. Continuing /\ TableOK'
  BY <1>1, <1>2, ResumingContinues
<1> QED BY <1>3, ContinuingEvolves, EvolvingType DEF ResumeDue, TypeInv, TypeOK

LEMMA ReconcileStep ==
  ASSUME TypeInv, ReconcileWaitingJoins
  PROVE  TypeInv' /\ Continuing
<1> DEFINE R == {a \in With("waiting") : IsJoin(a) /\ act[a].event = "join" /\ BarrierLeader(a)}
           kind == [a \in R |-> "event"]
<1>1. act' = ResumeAll(R, kind)
  BY DEF ReconcileWaitingJoins
<1>2. R \subseteq With("waiting") /\ \A a \in R : kind[a] \in {"timer", "event"}
  OBVIOUS
<1> HIDE DEF R, kind
<1>3. Continuing /\ TableOK'
  BY <1>1, <1>2, ResumingContinues
<1> QED BY <1>3, ContinuingEvolves, EvolvingType DEF ReconcileWaitingJoins, TypeInv, TypeOK

LEMMA RecordExternalEventStep ==
  ASSUME TypeInv, NEW e \in Event, RecordExternalEvent(e)
  PROVE  TypeInv' /\ Continuing
<1> DEFINE late == IF evt[e].status = "none" THEN {Stamp(a) : a \in Due} ELSE evt[e].late
           M == Matches(e, late)
           kind == [a \in M |-> "event"]
           new == [status |-> IF M = {} THEN "pending" ELSE "consumed", late |-> late]
<1>1. act' = ResumeAll(M, kind) /\ evt' = [evt EXCEPT ![e] = new]
  BY DEF RecordExternalEvent
<1>2. M \subseteq With("waiting") /\ \A a \in M : kind[a] \in {"timer", "event"}
  BY DEF Matches
<1>3. \A a \in Due : Stamp(a) \in Stamps
  BY DEF Due, With, Stamp, Stamps, TypeInv, Row, ActivationRecord, Live
<1>4. evt \in Inbox /\ evt[e].late \in SUBSET Stamps
  BY DEF TypeInv, TypeOK, Inbox
<1>5. late \in SUBSET Stamps
  BY <1>3, <1>4
<1>6. evt' \in Inbox
  <2> HIDE DEF M, late
  <2>1. new \in [status: {"none", "pending", "consumed", "expired"}, late: SUBSET Stamps]
    BY <1>5
  <2> HIDE DEF new
  <2> QED BY <2>1, <1>1, <1>4 DEF Inbox
<1> HIDE DEF M, kind
<1>7. Continuing /\ TableOK'
  BY <1>1, <1>2, ResumingContinues
<1> QED BY <1>6, <1>7, ContinuingEvolves, EvolvingType DEF RecordExternalEvent, TypeInv, TypeOK

LEMMA ResumePendingStep ==
  ASSUME TypeInv, ResumePendingExternalEvents
  PROVE  TypeInv' /\ Continuing
<1> DEFINE M(e) == Matches(e, evt[e].late)
           R == UNION {M(e) : e \in Pending}
           kind == [a \in R |-> "event"]
<1>1. act' = ResumeAll(R, kind)
  BY DEF ResumePendingExternalEvents
<1>2. R \subseteq With("waiting") /\ \A a \in R : kind[a] \in {"timer", "event"}
  BY DEF Matches
<1>3. evt' = [e \in Event |-> IF e \in Pending /\ M(e) # {} THEN [evt[e] EXCEPT !.status = "consumed"]
                                                             ELSE evt[e]]
  BY DEF ResumePendingExternalEvents
<1>4. evt \in Inbox
  BY DEF TypeInv, TypeOK, Inbox
<1>5. evt' \in Inbox
  <2> HIDE DEF M
  <2> QED BY <1>3, <1>4 DEF Inbox
<1> HIDE DEF R, kind
<1>6. Continuing /\ TableOK'
  BY <1>1, <1>2, ResumingContinues
<1> QED BY <1>5, <1>6, ContinuingEvolves, EvolvingType DEF ResumePendingExternalEvents, TypeInv, TypeOK

LEMMA ExpireEventsStep ==
  ASSUME TypeInv, NEW X, ExpireStaleExternalEvents(X)
  PROVE  TypeInv' /\ Continuing
<1>1. evt' \in Inbox
  BY DEF ExpireStaleExternalEvents, TypeInv, TypeOK, Inbox
<1>2. Continuing /\ TableOK'
  BY UnchangedContinuing DEF ExpireStaleExternalEvents
<1> QED BY <1>1, <1>2, ContinuingEvolves, EvolvingType DEF ExpireStaleExternalEvents, TypeInv, TypeOK

LEMMA TimerFiresStep ==
  ASSUME TypeInv, NEW a \in Act, TimerFires(a)
  PROVE  TypeInv' /\ Continuing
<1> DEFINE new == [act[a] EXCEPT !.timer = "due"]
<1>1. act[a] \in ActivationRecord /\ Row(act[a]) /\ act[a].status = "waiting"
  BY DEF TypeInv, Row, TimerFires
<1>2. new \in ActivationRecord
  BY <1>1 DEF ActivationRecord
<1>3. Frame(act[a], new) /\ new.status = act[a].status
  BY <1>1 DEF ActivationRecord, Frame
<1>4. act' = [act EXCEPT ![a] = new] /\ act = [b \in Act |-> act[b]]
  BY DEF TimerFires, TypeInv, TypeOK
<1> HIDE DEF new
<1>5. Continues(act[a], new)
  BY <1>1, <1>2, <1>3 DEF Continues, Frame, Row, Live
<1>6. \A b \in Act : Continues(act[b], act[b])
  BY SameContinues DEF TypeInv
<1>7. Continuing /\ TableOK'
  BY <1>4, <1>5, <1>6 DEF Continuing, TableOK
<1> QED BY <1>7, ContinuingEvolves, EvolvingType DEF TimerFires, TypeInv, TypeOK

\* A final status cancels all live work.
LEMMA SetStatusStep ==
  ASSUME TypeInv, ClosedIsQuiet, NEW st \in InstanceStatus, SetStatus(st)
  PROVE  TypeInv' /\ Continuing /\ ClosedIsQuiet'
<1>1. CASE UNCHANGED storeVars
  <2>1. Continuing
    BY <1>1, UnchangedContinuing DEF storeVars
  <2> QED BY <2>1, <1>1 DEF storeVars, TypeInv, TypeOK, ClosedIsQuiet, LiveActs
<1>2. CASE ~ UNCHANGED storeVars
  <2>1. /\ status' = st
        /\ act' = IF st \in Final THEN Cancelling(LiveActs)
                  ELSE IF st = "paused"
                  THEN [a \in Act |-> IF act[a].status = "running" THEN ToReady(act[a], "replay") ELSE act[a]]
                  ELSE act
        /\ UNCHANGED <<version, prepared, committed, evt, cost>>
    BY <1>2 DEF SetStatus
  <2>2. CASE st \in Final
    <3>1. act' = Cancelling(LiveActs)
      BY <2>1, <2>2
    <3>2. /\ Cancelling(LiveActs) = [a \in Act |-> Cancelling(LiveActs)[a]]
          /\ \A a \in Act : Continues(act[a], Cancelling(LiveActs)[a])
          /\ \A a \in LiveActs : Cancelling(LiveActs)[a].status = "cancelled"
          /\ \A a \in Act \ LiveActs : Cancelling(LiveActs)[a] = act[a]
      BY CancellingRows
    <3>3. Continuing /\ TableOK'
      BY <3>1, <3>2 DEF Continuing, TableOK
    <3>4. LiveActs' = {}
      BY <3>1, <3>2 DEF LiveActs, Live
    <3>5. ClosedIsQuiet'
      BY <3>4 DEF ClosedIsQuiet
    <3> QED BY <3>3, <3>5, <2>1, ContinuingEvolves, EvolvingType DEF TypeInv, TypeOK
  <2>3. CASE st = "paused"
    <3> DEFINE S == {a \in Act : act[a].status = "running"}
               new == [a \in S |-> ToReady(act[a], "replay")]
    <3>1. act' = [a \in Act |-> IF a \in S THEN new[a] ELSE act[a]]
      BY <2>1, <2>3 DEF Final
    <3>2. \A a \in S : Continues(act[a], ToReady(act[a], "replay"))
      BY ReadyContinues DEF TypeInv, Live
    <3>3. \A a \in S : Continues(act[a], new[a])
      BY <3>2
    <3>4. S \in SUBSET Act
      OBVIOUS
    <3> HIDE DEF S, new
    <3>5. Continuing /\ TableOK'
      BY <3>1, <3>3, <3>4, RewriteContinuing
    <3>6. ClosedIsQuiet'
      BY <2>1, <2>3 DEF ClosedIsQuiet
    <3> QED BY <3>5, <3>6, <2>1, ContinuingEvolves, EvolvingType DEF TypeInv, TypeOK
  <2>4. CASE st \notin Final \cup {"paused"}
    <3>1. act' = act
      BY <2>1, <2>4
    <3>2. Continuing /\ TableOK'
      BY <3>1, UnchangedContinuing
    <3>3. ClosedIsQuiet'
      BY <2>1, <2>4 DEF ClosedIsQuiet, Final
    <3> QED BY <3>2, <3>3, <2>1, ContinuingEvolves, EvolvingType DEF TypeInv, TypeOK
  <2> QED BY <2>2, <2>3, <2>4
<1> QED BY <1>1, <1>2

LEMMA ResumePausedTerminalStep ==
  ASSUME TypeInv, NEW a \in Act, NEW r \in Graph.routes, NEW f, ResumePausedTerminal(a, r, f)
  PROVE  TypeInv' /\ Evolving /\ ClosedIsQuiet'
<1> DEFINE over == OverLimit(Cardinality(r.to), Cardinality(LiveActs), 0)
           left == [act[a] EXCEPT !.resumed = TRUE]
<1>1. a \in ResumableTerminals /\ act[a].status = "succeeded" /\ a \notin LiveActs /\ status = "paused"
  BY DEF ResumePausedTerminal, ResumableTerminals, With, LiveActs, Live
<1>2. Row(act[a]) /\ act[a] \in ActivationRecord /\ Continues(act[a], left) /\ left.status = "succeeded"
  <2>1. Row(act[a]) /\ act[a] \in ActivationRecord
    BY DEF TypeInv, Row
  <2>2. Continues(act[a], left)
    BY <2>1, LeftContinues
  <2>3. left.status = "succeeded"
    BY <1>1, <2>1 DEF ActivationRecord
  <2> QED BY <2>1, <2>2, <2>3
<1> HIDE DEF left
<1>3. version' \in Nat
  BY DEF ResumePausedTerminal, NextVersion, TypeInv, TypeOK
<1>4. UNCHANGED <<prepared, committed, evt, cost>>
  BY DEF ResumePausedTerminal
<1>5. CASE over
  <2> DEFINE c == Cancelling(LiveActs)
  <2>1. /\ c = [b \in Act |-> c[b]]
        /\ \A b \in Act : Continues(act[b], c[b])
        /\ \A b \in LiveActs : c[b].status = "cancelled"
        /\ \A b \in Act \ LiveActs : c[b] = act[b]
    BY CancellingRows
  <2>2. status' = "exhausted" /\ act' = [c EXCEPT ![a].resumed = TRUE]
    BY <1>5 DEF ResumePausedTerminal
  <2> HIDE DEF c
  <2>3. act' = [c EXCEPT ![a] = left]
    BY <2>1, <2>2, <1>1 DEF left
  <2>4. Continuing /\ TableOK'
    BY <2>1, <2>3, <1>2 DEF Continuing, TableOK
  <2>5. LiveActs' = {}
    BY <2>1, <2>3, <1>2 DEF LiveActs, Live
  <2>6. status' \in InstanceStatus /\ ClosedIsQuiet'
    BY <2>2, <2>5 DEF InstanceStatus, Final, ClosedIsQuiet
  <2> QED BY <2>4, <2>6, <1>3, <1>4, ContinuingEvolves, EvolvingType DEF TypeInv, TypeOK
<1>6. CASE ~over
  <2> DEFINE acts == [act EXCEPT ![a].resumed = TRUE]
             group == ForkGroup(a, r)
  <2>1. status' = "active" /\ f \in Births(r.to) /\ act' = Spawning(acts, f, version', r, group)
    BY <1>6 DEF ResumePausedTerminal
  <2>2. acts = [act EXCEPT ![a] = left] /\ act = [b \in Act |-> act[b]]
    BY DEF left, TypeInv, TypeOK
  <2>3. \A b \in Act : Continues(act[b], act[b])
    BY SameContinues DEF TypeInv
  <2>4. group \in Seq(Act \X RouteId) /\ r.to \in SUBSET NodeId
    BY ForkGroupType, GraphAssumption
  <2> HIDE DEF acts, group
  <2>5. acts = [b \in Act |-> acts[b]] /\ \A b \in Act : Continues(act[b], acts[b])
    BY <2>2, <2>3, <1>2
  <2>6. Evolving /\ TableOK'
    BY <2>1, <2>4, <2>5, <1>3, SpawningStep
  <2>7. status' \in InstanceStatus /\ ClosedIsQuiet'
    BY <2>1 DEF InstanceStatus, ClosedIsQuiet
  <2> QED BY <2>6, <2>7, <1>3, <1>4, EvolvingType DEF TypeInv, TypeOK
<1> QED BY <1>5, <1>6

LEMMA ResumeFailsStep ==
  ASSUME TypeInv, NEW a, ResumeFails(a)
  PROVE  TypeInv' /\ Continuing
<1>1. Continuing /\ TableOK'
  BY UnchangedContinuing DEF ResumeFails
<1> QED BY <1>1, ContinuingEvolves, EvolvingType DEF ResumeFails, TypeInv, TypeOK, InstanceStatus, Final

-----------------------------------------------------------------------------
(* Every step keeps TypeInv and ClosedIsQuiet, which together are inductive. *)

Inv == TypeInv /\ ClosedIsQuiet

Starting == \E S \in SUBSET Act :
  /\ ClaimReady(S)
  /\ \A a \in S : Starts(act[a], act'[a])
  /\ \A a \in Act \ S : act'[a] = act[a]

LEMMA InitInv == Init => Inv
<1> SUFFICES ASSUME Init PROVE Inv
  OBVIOUS
<1>1. ASSUME NEW a \in Act PROVE Row(act[a])
  <2>1. act[a] = IF a \in DOMAIN Graph.entry THEN NewActivation(Graph.entry[a], 0, None, <<>>)
                                             ELSE Unborn
    BY DEF Init
  <2>2. CASE a \in DOMAIN Graph.entry
    <3> DEFINE n == Graph.entry[a]
    <3>1. n \in NodeId
      BY <2>2, GraphAssumption
    <3>2. <<>> \in Seq(Act \X RouteId)
      OBVIOUS
    <3> HIDE DEF n
    <3>3. /\ NewActivation(n, 0, None, <<>>) \in ActivationRecord
          /\ NewActivation(n, 0, None, <<>>).node = n
          /\ NewActivation(n, 0, None, <<>>).status = "ready"
      BY <3>1, <3>2 DEF NewActivation, Unborn, ActivationRecord, Live
    <3>4. Row(NewActivation(n, 0, None, <<>>))
      BY <3>1, <3>3 DEF Row
    <3> QED BY <2>1, <2>2, <3>4 DEF n
  <2>3. CASE a \notin DOMAIN Graph.entry
    BY <2>1, <2>3, UnbornType DEF Row
  <2> QED BY <2>2, <2>3
<1>2. act \in [Act -> ActivationRecord]
  BY <1>1 DEF Init, Row
<1>3. evt \in [Event -> [status: {"none", "pending", "consumed", "expired"}, late: SUBSET Stamps]]
  BY DEF Init
<1>4. status \in InstanceStatus /\ version \in Nat /\ cost \in Nat
      /\ prepared \subseteq Intent /\ committed \subseteq Act \X Nat
  BY DEF Init, InstanceStatus
<1>5. ClosedIsQuiet
  BY DEF Init, ClosedIsQuiet
<1> QED BY <1>1, <1>2, <1>3, <1>4, <1>5 DEF Inv, TypeInv, TypeOK

\* Without a birth, and without a change to done or exhausted, quiet stays quiet.
LEMMA QuietKept ==
  ASSUME Inv, Continuing, status' = status \/ status' \notin {"done", "exhausted"}
  PROVE  ClosedIsQuiet'
<1>1. \A a \in Act : act'[a].status \in Live => act[a].status \in Live
  BY DEF Continuing, Continues
<1> QED BY <1>1 DEF Inv, ClosedIsQuiet, LiveActs

LEMMA NextInv ==
  ASSUME Inv, Next
  PROVE  Inv' /\ (Evolving \/ Starting)
<1> USE ContinuingEvolves DEF Inv
<1>1. ASSUME NEW S \in SUBSET Act, ClaimReady(S) PROVE Inv' /\ Starting
  <2>1. ClosedIsQuiet'
    BY <1>1 DEF ClaimReady, ClosedIsQuiet
  <2> QED BY <1>1, <2>1, ClaimReadyStep DEF Starting
<1>2. ASSUME NEW S \in SUBSET Act, ReleaseExpired(S) PROVE Inv' /\ Evolving
  BY <1>2, ReleaseExpiredStep, QuietKept DEF ReleaseExpired
<1>3. ASSUME NEW a \in Act, NEW tok \in Nat, NEW usage \in Nat, NEW timer \in {"none", "armed"},
             NEW e \in Event \cup {"join", None}, Park(a, tok, timer, e, usage)
      PROVE  Inv' /\ Evolving
  <2>1. TypeInv' /\ Continuing
    BY <1>3, ParkStep
  <2> QED BY <1>3, <2>1, QuietKept DEF Park, Release
<1>4. ASSUME NEW a \in Act, NEW tok \in Nat, NEW usage \in Nat, NEW consume \in BOOLEAN,
             NEW delay \in BOOLEAN, Retry(a, tok, consume, delay, usage)
      PROVE  Inv' /\ Evolving
  <2>1. TypeInv' /\ Continuing
    BY <1>4, RetryStep
  <2>2. status' = status
    BY <1>4 DEF Retry, Release
  <2> QED BY <2>1, <2>2, QuietKept
<1>5. ASSUME NEW a \in Act, NEW tok \in Nat, NEW usage \in Nat, Block(a, tok, usage)
      PROVE  Inv' /\ Evolving
  BY <1>5, BlockStep, QuietKept DEF Block, Release
<1>6. ASSUME NEW a \in Act, NEW tok \in Nat, NEW usage \in Nat, FailStop(a, tok, usage)
      PROVE  Inv' /\ Evolving
  BY <1>6, FailStopStep, QuietKept DEF FailStop, Release
<1>7. ASSUME NEW i \in Intent, PrepareCommit(i) PROVE Inv' /\ Evolving
  BY <1>7, PrepareCommitStep, QuietKept DEF PrepareCommit
<1>8. ASSUME NEW i \in Intent, Commit(i) PROVE Inv' /\ Evolving
  <2>1. CASE CommitReplay(i)
    BY <2>1, CommitReplayStep, QuietKept DEF CommitReplay
  <2>2. CASE CommitTerminal(i)
    BY <2>2, CommitTerminalStep
  <2>3. CASE \E r \in Graph.routes : \E T \in SUBSET r.to : \E f \in Births(T) : CommitRoute(i, r, f)
    BY <2>3, CommitRouteStep
  <2>4. CASE CommitUnrouted(i)
    BY <2>4, CommitUnroutedStep
  <2> QED BY <1>8, <2>1, <2>2, <2>3, <2>4 DEF Commit
<1>9. ASSUME NEW signal, NEW D, ResumeDue(signal, D) PROVE Inv' /\ Evolving
  BY <1>9, ResumeDueStep, QuietKept DEF ResumeDue
<1>10. ASSUME ReconcileWaitingJoins PROVE Inv' /\ Evolving
  BY <1>10, ReconcileStep, QuietKept DEF ReconcileWaitingJoins
<1>11. ASSUME NEW e \in Event, RecordExternalEvent(e) PROVE Inv' /\ Evolving
  BY <1>11, RecordExternalEventStep, QuietKept DEF RecordExternalEvent
<1>12. ASSUME ResumePendingExternalEvents PROVE Inv' /\ Evolving
  BY <1>12, ResumePendingStep, QuietKept DEF ResumePendingExternalEvents
<1>13. ASSUME NEW X, ExpireStaleExternalEvents(X) PROVE Inv' /\ Evolving
  BY <1>13, ExpireEventsStep, QuietKept DEF ExpireStaleExternalEvents
<1>14. ASSUME NEW a \in Act, TimerFires(a) PROVE Inv' /\ Evolving
  BY <1>14, TimerFiresStep, QuietKept DEF TimerFires
<1>15. ASSUME NEW st \in InstanceStatus, SetStatus(st) PROVE Inv' /\ Evolving
  BY <1>15, SetStatusStep
<1>16. ASSUME Resume PROVE Inv' /\ Evolving
  <2>1. PICK a \in ResumableTerminals :
          \/ \E r \in Graph.routes : \E T \in SUBSET r.to : \E f \in Births(T) : ResumePausedTerminal(a, r, f)
          \/ ResumeFails(a)
    BY <1>16 DEF Resume
  <2>2. a \in Act
    BY DEF ResumableTerminals, With
  <2>3. CASE ResumeFails(a)
    BY <2>3, ResumeFailsStep, QuietKept DEF ResumeFails
  <2>4. CASE \E r \in Graph.routes : \E T \in SUBSET r.to : \E f \in Births(T) : ResumePausedTerminal(a, r, f)
    BY <2>2, <2>4, ResumePausedTerminalStep
  <2> QED BY <2>1, <2>3, <2>4
<1> QED
  <2> HIDE DEF Inv
  <2> QED BY <1>1, <1>2, <1>3, <1>4, <1>5, <1>6, <1>7, <1>8, <1>9, <1>10, <1>11, <1>12, <1>13, <1>14,
             <1>15, <1>16 DEF Next

LEMMA StepInv == Inv /\ [Next]_storeVars => Inv'
<1> SUFFICES ASSUME Inv, [Next]_storeVars PROVE Inv'
  OBVIOUS
<1>1. CASE Next
  BY <1>1, NextInv
<1>2. CASE UNCHANGED storeVars
  BY <1>2 DEF storeVars, Inv, TypeInv, TypeOK, ClosedIsQuiet, LiveActs
<1> QED BY <1>1, <1>2

-----------------------------------------------------------------------------
\* Every record, intent and inbox entry the transactions write is well formed.
THEOREM TypeCorrect == Spec => []TypeOK
<1>1. Inv => TypeOK
  BY DEF Inv, TypeInv
<1> QED BY InitInv, StepInv, <1>1, PTL DEF Spec

\* Whatever transactions run, and in whatever order, an instance that is done or
\* exhausted keeps no live activation (cancelLivePeers, setStatus).
THEOREM ClosedQuiet == Spec => []ClosedIsQuiet
<1>1. Inv => ClosedIsQuiet
  BY DEF Inv
<1> QED BY InitInv, StepInv, <1>1, PTL DEF Spec

-----------------------------------------------------------------------------
(* What no step may do *)

LEMMA SettledStays ==
  ASSUME Inv, [Next]_storeVars, NEW a \in Act, act[a].status \in Settled
  PROVE  act'[a].status = act[a].status
<1>1. CASE Next
  <2>1. Evolving \/ Starting
    BY <1>1, NextInv
  <2>2. CASE Evolving
    BY <2>2 DEF Evolving, Continues, Begins, Settled, Live
  <2>3. CASE Starting
    BY <2>3 DEF Starting, Starts, Settled
  <2> QED BY <2>1, <2>2, <2>3
<1>2. CASE UNCHANGED storeVars
  BY <1>2 DEF storeVars
<1> QED BY <1>1, <1>2

\* No late commit, retry, timer or event revives a settled activation, or changes
\* how it settled (the liveness check of commit(), setStatus, cancelLivePeers).
THEOREM SettledForGood == Spec => SettledAbsorbing
<1>1. Inv /\ [Next]_storeVars
        => [\A a \in Act : act[a].status \in Settled => act'[a].status = act[a].status]_storeVars
  BY SettledStays
<1> QED BY InitInv, StepInv, <1>1, PTL DEF Spec, SettledAbsorbing

LEMMA ClosedStays ==
  ASSUME Inv, [Next]_storeVars, status \in {"done", "exhausted"}
  PROVE  UNCHANGED <<status, act, version>>
<1>1. \A a \in Act : act[a].status \notin Live
  BY DEF Inv, ClosedIsQuiet, LiveActs
<1>2. With("running") = {} /\ With("waiting") = {}
  BY <1>1 DEF With, Live
<1>3. \A a \in Act, tok \in Nat : ~Holds(a, tok)
  BY <1>1 DEF Holds, Live
<1>4. act = [a \in Act |-> act[a]] /\ status # "active" /\ status # "paused" /\ status \in Final
  BY DEF Inv, TypeInv, TypeOK, Final
<1>5. ASSUME NEW R, NEW kind, R \subseteq With("waiting"), act' = ResumeAll(R, kind)
      PROVE  act' = act
  BY <1>2, <1>4, <1>5 DEF ResumeAll
<1>6. ASSUME NEW S \in SUBSET Act, ClaimReady(S) \/ ReleaseExpired(S) PROVE UNCHANGED <<status, act, version>>
  BY <1>2, <1>4, <1>6 DEF ClaimReady, ReleaseExpired
<1>7. ASSUME NEW a \in Act, NEW tok \in Nat, NEW usage \in Nat,
             \/ \E timer \in {"none", "armed"}, e \in Event \cup {"join", None} : Park(a, tok, timer, e, usage)
             \/ \E consume, delay \in BOOLEAN : Retry(a, tok, consume, delay, usage)
             \/ Block(a, tok, usage) \/ FailStop(a, tok, usage)
      PROVE  FALSE
  BY <1>3, <1>7 DEF Park, Retry, Block, FailStop, Release
<1>8. ASSUME NEW i \in Intent, PrepareCommit(i) \/ Commit(i) PROVE UNCHANGED <<status, act, version>>
  <2>1. ~FirstCommit(i)
    BY <1>4 DEF FirstCommit, Committable
  <2>2. ~Commit(i)
    BY <2>1 DEF Commit, CommitReplay, CommitTerminal, CommitRoute, CommitUnrouted, Record
  <2> QED BY <1>8, <2>2 DEF PrepareCommit
<1>9. ASSUME NEW signal, NEW D, ResumeDue(signal, D) PROVE UNCHANGED <<status, act, version>>
  <2>1. {a \in With("waiting") : a \in D \/ Signalled(a, signal)} \subseteq With("waiting")
    OBVIOUS
  <2> QED BY <1>5, <1>9, <2>1 DEF ResumeDue
<1>10. ASSUME ReconcileWaitingJoins PROVE UNCHANGED <<status, act, version>>
  <2>1. {a \in With("waiting") : IsJoin(a) /\ act[a].event = "join" /\ BarrierLeader(a)} \subseteq With("waiting")
    OBVIOUS
  <2> QED BY <1>5, <1>10, <2>1 DEF ReconcileWaitingJoins
<1>11. ASSUME NEW e \in Event, RecordExternalEvent(e) PROVE UNCHANGED <<status, act, version>>
  BY <1>5, <1>11 DEF RecordExternalEvent, Matches
<1>12. ASSUME ResumePendingExternalEvents PROVE UNCHANGED <<status, act, version>>
  BY <1>5, <1>12 DEF ResumePendingExternalEvents, Matches
<1>13. ASSUME NEW X, ExpireStaleExternalEvents(X) PROVE UNCHANGED <<status, act, version>>
  BY <1>13 DEF ExpireStaleExternalEvents
<1>14. ASSUME NEW a \in Act, TimerFires(a) PROVE FALSE
  BY <1>1, <1>14 DEF TimerFires, Live
<1>15. ASSUME NEW st, SetStatus(st) PROVE UNCHANGED <<status, act, version>>
  BY <1>4, <1>15 DEF SetStatus, storeVars
<1>16. ~Resume
  BY <1>4 DEF Resume, ResumePausedTerminal, ResumeFails
<1>17. CASE UNCHANGED storeVars
  BY <1>17 DEF storeVars
<1>18. CASE Next
  BY <1>18, <1>6, <1>7, <1>8, <1>9, <1>10, <1>11, <1>12, <1>13, <1>14, <1>15, <1>16 DEF Next
<1> QED BY <1>17, <1>18

\* done and exhausted are the end: no transaction, by a late worker, a timer, an
\* event source or an operator, moves the instance, its State or an activation.
THEOREM ClosedForGood == Spec => ClosedAbsorbing
<1>1. Inv /\ [Next]_storeVars
        => [(status \in {"done", "exhausted"}) => UNCHANGED <<status, act, version>>]_storeVars
  BY ClosedStays
<1> QED BY InitInv, StepInv, <1>1, PTL DEF Spec, ClosedAbsorbing

-----------------------------------------------------------------------------
(* Lane exclusion *)

LEMMA LaneKept ==
  ASSUME NEW a \in Act, act'[a].node = act[a].node
  PROVE  Lane(a)' = Lane(a)
BY DEF Lane, NodeOf

\* What runs after a step without a claim ran before it, on the same Lane.
LEMMA EvolvingKeepsLanes ==
  ASSUME LaneExclusive, Evolving
  PROVE  LaneExclusive'
<1>1. ASSUME NEW a \in Act, act'[a].status = "running"
      PROVE  a \in With("running") /\ Lane(a)' = Lane(a)
  <2>1. act[a].status = "running" /\ act'[a].node = act[a].node
    BY <1>1 DEF Evolving, Continues, Begins, Frame
  <2> QED BY <2>1, LaneKept DEF With
<1>2. SUFFICES ASSUME NEW a \in Act, NEW b \in Act, act'[a].status = "running",
                      act'[b].status = "running", a # b, Lane(a)' # None
               PROVE  Lane(a)' # Lane(b)'
  BY DEF LaneExclusive, With
<1>3. a \in With("running") /\ Lane(a)' = Lane(a)
  BY <1>1, <1>2
<1>4. b \in With("running") /\ Lane(b)' = Lane(b)
  BY <1>1, <1>2
<1> QED BY <1>2, <1>3, <1>4 DEF LaneExclusive

\* A claim leaves each Lane to one running activation.
LEMMA ClaimsFreeLanes ==
  ASSUME LaneExclusive, NEW S \in ClaimSets,
         NEW a \in With("running") \cup S, NEW b \in With("running") \cup S,
         a # b, Lane(a) # None
  PROVE  Lane(a) # Lane(b)
<1>1. CASE ReadyTerminals = {}
  <2>1. LanesFree(S)
    BY <1>1 DEF ClaimSets, Admissible
  <2>2. CASE a \in With("running") /\ b \in With("running")
    BY <2>2 DEF LaneExclusive
  <2>3. CASE a \in S
    BY <2>1, <2>3 DEF LanesFree
  <2>4. CASE b \in S
    <3>1. Lane(b) # None => Lane(b) # Lane(a)
      BY <2>1, <2>4 DEF LanesFree
    <3> QED BY <3>1
  <2> QED BY <2>2, <2>3, <2>4
<1>2. CASE ReadyTerminals # {} /\ With("running") # {}
  BY <1>2 DEF ClaimSets, LaneExclusive
<1>3. CASE ReadyTerminals # {} /\ With("running") = {}
  BY <1>3 DEF ClaimSets
<1> QED BY <1>1, <1>2, <1>3

LEMMA StartingKeepsLanes ==
  ASSUME LaneExclusive, Starting
  PROVE  LaneExclusive'
<1>1. PICK S \in SUBSET Act : /\ ClaimReady(S)
                              /\ \A a \in S : Starts(act[a], act'[a])
                              /\ \A a \in Act \ S : act'[a] = act[a]
  BY DEF Starting
<1>2. ASSUME NEW a \in Act, act'[a].status = "running"
      PROVE  a \in With("running") \cup S /\ Lane(a)' = Lane(a)
  <2>1. a \notin S => act'[a] = act[a]
    BY <1>1
  <2>2. act'[a].node = act[a].node
    BY <1>1, <2>1 DEF Starts
  <2> QED BY <1>2, <2>1, <2>2, LaneKept DEF With
<1>3. SUFFICES ASSUME NEW a \in Act, NEW b \in Act, act'[a].status = "running",
                      act'[b].status = "running", a # b, Lane(a)' # None
               PROVE  Lane(a)' # Lane(b)'
  BY DEF LaneExclusive, With
<1>4. a \in With("running") \cup S /\ Lane(a)' = Lane(a)
  BY <1>2, <1>3
<1>5. b \in With("running") \cup S /\ Lane(b)' = Lane(b)
  BY <1>2, <1>3
<1>6. S \in ClaimSets
  BY <1>1 DEF ClaimReady
<1> QED BY <1>3, <1>4, <1>5, <1>6, ClaimsFreeLanes

\* Two Agents never run on one Lane, however claims, expired leases, retries and
\* resumptions interleave: claimReady compares a claim with all that runs.
THEOREM LanesAreExclusive == Spec => []LaneExclusive
<1>1. Init => LaneExclusive
  <2>1. ASSUME Init, NEW a \in Act PROVE act[a].status # "running"
    BY <2>1 DEF Init, NewActivation, Unborn
  <2> QED BY <2>1 DEF LaneExclusive, With
<1>2. Inv /\ LaneExclusive /\ [Next]_storeVars => LaneExclusive'
  <2> SUFFICES ASSUME Inv, LaneExclusive, [Next]_storeVars PROVE LaneExclusive'
    OBVIOUS
  <2>1. CASE Next
    <3>1. Evolving \/ Starting
      BY <2>1, NextInv
    <3> QED BY <3>1, EvolvingKeepsLanes, StartingKeepsLanes
  <2>2. CASE UNCHANGED storeVars
    BY <2>2 DEF storeVars, LaneExclusive, With, Lane, NodeOf
  <2> QED BY <2>1, <2>2
<1> QED BY InitInv, StepInv, <1>1, <1>2, PTL DEF Spec

-----------------------------------------------------------------------------
(* What adds up: claims, timers, resumptions *)

LEMMA ActsFinite ==
  ASSUME NEW S \in SUBSET Act
  PROVE  IsFiniteSet(S) /\ Cardinality(S) \in Nat
<1>1. IsFiniteSet(Act)
  BY GraphAssumption, FS_Interval DEF Act
<1> QED BY <1>1, FS_Subset, FS_CardinalityType

LEMMA FewerActs ==
  ASSUME NEW S \in SUBSET Act, NEW T, T \subseteq S
  PROVE  Cardinality(T) <= Cardinality(S) /\ Cardinality(T) \in Nat
<1>1. IsFiniteSet(S)
  BY ActsFinite
<1>2. Cardinality(T) <= Cardinality(S)
  BY <1>1, FS_Subset
<1> QED BY <1>2, ActsFinite

LEMMA OneMoreAct ==
  ASSUME NEW S \in SUBSET Act, NEW a \in Act, NEW T, T \subseteq S \cup {a}
  PROVE  Cardinality(T) <= Cardinality(S) + 1 /\ Cardinality(T) \in Nat
<1>1. IsFiniteSet(S) /\ Cardinality(S) \in Nat /\ S \cup {a} \in SUBSET Act
  BY ActsFinite
<1>2. Cardinality(S \cup {a}) <= Cardinality(S) + 1 /\ Cardinality(S \cup {a}) \in Nat
  BY <1>1, FS_AddElement, ActsFinite
<1>3. Cardinality(T) <= Cardinality(S \cup {a}) /\ Cardinality(T) \in Nat
  BY <1>1, FewerActs
<1> QED BY <1>1, <1>2, <1>3

OnNode(S, n) == {a \in S : act[a].node = n}

LEMMA EvolvingKeepsCapacity ==
  ASSUME WithinCapacity, Evolving
  PROVE  WithinCapacity'
<1>1. ASSUME NEW a \in Act, act'[a].status = "running"
      PROVE  act[a].status = "running" /\ act'[a].node = act[a].node
  BY <1>1 DEF Evolving, Continues, Begins, Frame
<1>2. With("running")' \subseteq With("running") /\ With("running") \in SUBSET Act
  BY <1>1 DEF With
<1>3. \A n \in NodeId : {a \in With("running") : act[a].node = n}' \subseteq {a \in With("running") : act[a].node = n}
  BY <1>1 DEF With
<1>4. /\ {Graph.limits.running, Graph.limits.perNode} \subseteq Nat
      /\ Cardinality(With("running")') <= Cardinality(With("running"))
      /\ Cardinality(With("running")) \in Nat /\ Cardinality(With("running")') \in Nat
  BY <1>2, FewerActs, GraphAssumption
<1>5. ASSUME NEW n \in NodeId
      PROVE  Cardinality({a \in With("running") : act[a].node = n}') <= Graph.limits.perNode
  <2>1. {a \in With("running") : act[a].node = n} \in SUBSET Act
    BY <1>2
  <2>2. /\ Cardinality({a \in With("running") : act[a].node = n}') <= Cardinality({a \in With("running") : act[a].node = n})
        /\ Cardinality({a \in With("running") : act[a].node = n}') \in Nat
        /\ Cardinality({a \in With("running") : act[a].node = n}) \in Nat
    BY <1>3, <2>1, FewerActs
  <2> QED BY <1>4, <2>2 DEF WithinCapacity
<1> QED BY <1>4, <1>5 DEF WithinCapacity

\* What runs after a claim is within the limits the claim was measured against.
LEMMA ClaimsFit ==
  ASSUME WithinCapacity, NEW S \in ClaimSets
  PROVE  /\ Cardinality(With("running") \cup S) <= Graph.limits.running
         /\ \A n \in NodeId : Cardinality(OnNode(With("running") \cup S, n)) <= Graph.limits.perNode
<1>1. /\ Graph.limits.running \in Nat \ {0} /\ Graph.limits.perNode \in Nat \ {0}
      /\ With("running") \in SUBSET Act
  BY GraphAssumption DEF With
<1>2. CASE ReadyTerminals = {}
  <2>1. Admissible(S)
    BY <1>2 DEF ClaimSets
  <2>2. ASSUME NEW n \in NodeId
        PROVE  Cardinality(OnNode(With("running") \cup S, n)) <= Graph.limits.perNode
    <3>1. CASE \E a \in S : act[a].node = n
      BY <2>1, <3>1 DEF Admissible, NodesFree, OnNode
    <3>2. CASE ~\E a \in S : act[a].node = n
      <4>1. OnNode(With("running") \cup S, n) = {a \in With("running") : act[a].node = n}
        BY <3>2 DEF OnNode
      <4> QED BY <4>1 DEF WithinCapacity
    <3> QED BY <3>1, <3>2
  <2> QED BY <2>1, <2>2 DEF Admissible
<1>3. CASE ReadyTerminals # {} /\ With("running") # {}
  <2>1. With("running") \cup S = With("running")
    BY <1>3 DEF ClaimSets
  <2> QED BY <2>1 DEF WithinCapacity, OnNode
<1>4. CASE ReadyTerminals # {} /\ With("running") = {}
  <2>1. PICK t \in Act : With("running") \cup S = {t}
    BY <1>4 DEF ClaimSets, ReadyTerminals, With
  <2>2. {t} \in SUBSET Act /\ Cardinality({t}) = 1
    BY FS_Singleton
  <2>3. ASSUME NEW n \in NodeId PROVE Cardinality(OnNode({t}, n)) <= 1 /\ Cardinality(OnNode({t}, n)) \in Nat
    BY <2>2, FewerActs DEF OnNode
  <2> QED BY <1>1, <2>1, <2>2, <2>3
<1> QED BY <1>2, <1>3, <1>4

LEMMA StartingKeepsCapacity ==
  ASSUME WithinCapacity, Starting
  PROVE  WithinCapacity'
<1>1. PICK S \in SUBSET Act : /\ ClaimReady(S)
                              /\ \A a \in S : Starts(act[a], act'[a])
                              /\ \A a \in Act \ S : act'[a] = act[a]
  BY DEF Starting
<1> DEFINE Run == With("running") \cup S
<1>2. /\ Cardinality(Run) <= Graph.limits.running
      /\ \A n \in NodeId : Cardinality(OnNode(Run, n)) <= Graph.limits.perNode
      /\ Run \in SUBSET Act
      /\ {Graph.limits.running, Graph.limits.perNode} \subseteq Nat
  BY <1>1, ClaimsFit, GraphAssumption DEF ClaimReady, With
<1>3. ASSUME NEW a \in Act, act'[a].status = "running"
      PROVE  a \in Run /\ act'[a].node = act[a].node
  <2>1. a \notin S => act'[a] = act[a]
    BY <1>1
  <2> QED BY <1>1, <1>3, <2>1 DEF Starts, With
<1> HIDE DEF Run
<1>4. With("running")' \subseteq Run
  BY <1>3 DEF With
<1>5. ASSUME NEW n \in NodeId
      PROVE  Cardinality({a \in With("running") : act[a].node = n}') <= Graph.limits.perNode
  <2>1. {a \in With("running") : act[a].node = n}' \subseteq OnNode(Run, n) /\ OnNode(Run, n) \in SUBSET Act
    BY <1>2, <1>3 DEF With, OnNode
  <2>2. /\ Cardinality({a \in With("running") : act[a].node = n}') <= Cardinality(OnNode(Run, n))
        /\ Cardinality({a \in With("running") : act[a].node = n}') \in Nat
        /\ Cardinality(OnNode(Run, n)) \in Nat
    BY <2>1, FewerActs, ActsFinite
  <2> QED BY <1>2, <2>2
<1>6. Cardinality(With("running")') <= Cardinality(Run) /\ Cardinality(With("running")') \in Nat
      /\ Cardinality(Run) \in Nat
  BY <1>2, <1>4, FewerActs, ActsFinite
<1> QED BY <1>2, <1>5, <1>6 DEF WithinCapacity

LEMMA NothingRunsAtFirst == Init => With("running") = {} /\ With("waiting") = {} /\ With("succeeded") = {}
<1> SUFFICES ASSUME Init, NEW a \in Act PROVE act[a].status \in {"ready", "unborn"}
  BY DEF With
<1> QED BY DEF Init, NewActivation, Unborn

\* Whoever claims, and whatever leases expire, retries or resumes in between, no more
\* activations run at once than concurrency.maxActivations and maxPerNode allow.
THEOREM CapacityHolds == Spec => []WithinCapacity
<1>1. Init => WithinCapacity
  <2> SUFFICES ASSUME Init PROVE WithinCapacity
    OBVIOUS
  <2>1. With("running") = {} /\ {Graph.limits.running, Graph.limits.perNode} \subseteq Nat \ {0}
    BY NothingRunsAtFirst, GraphAssumption
  <2>2. \A n \in NodeId : {a \in With("running") : act[a].node = n} = {}
    BY <2>1
  <2> QED BY <2>1, <2>2, FS_EmptySet DEF WithinCapacity
<1>2. Inv /\ WithinCapacity /\ [Next]_storeVars => WithinCapacity'
  <2> SUFFICES ASSUME Inv, WithinCapacity, [Next]_storeVars PROVE WithinCapacity'
    OBVIOUS
  <2>1. CASE Next
    <3>1. Evolving \/ Starting
      BY <2>1, NextInv
    <3> QED BY <3>1, EvolvingKeepsCapacity, StartingKeepsCapacity
  <2>2. CASE UNCHANGED storeVars
    BY <2>2 DEF storeVars, WithinCapacity, With
  <2> QED BY <2>1, <2>2
<1> QED BY InitInv, StepInv, <1>1, <1>2, PTL DEF Spec

-----------------------------------------------------------------------------
(* Timers *)

Timed == {a \in With("waiting") : act[a].timer # "none"}
IsTimed(rec) == rec.status = "waiting" /\ rec.timer # "none"

\* What a rewritten activation has of timers.
LEMMA TimersOfRows ==
  ASSUME NEW rec \in ActivationRecord
  PROVE  /\ \A why : ~IsTimed(ToReady(rec, why))
         /\ \A st \in Settled : ~IsTimed(ToSettled(rec, st))
         /\ \A kind : ~IsTimed(Resumed(rec, kind))
         /\ \A reason, event : ~IsTimed(ToWaiting(rec, reason, "none", event))
<1>1. \A why : ToReady(rec, why).status = "ready"
  BY DEF ToReady, ActivationRecord
<1>2. \A st : ToSettled(rec, st).status = st
  BY DEF ToSettled, ActivationRecord
<1>3. \A kind : Resumed(rec, kind).status = "ready"
  BY DEF Resumed, ActivationRecord
<1>4. \A reason, event : ToWaiting(rec, reason, "none", event).timer = "none"
  BY DEF ToWaiting, ActivationRecord
<1> QED BY <1>1, <1>2, <1>3, <1>4 DEF IsTimed, Settled

\* A transaction asks for one timer, within the budget, or for none.
TimersMove ==
  \/ Timed' \subseteq Timed
  \/ TimerBudgetLeft /\ \E a \in Act : Timed' \subseteq Timed \cup {a}

LEMMA TimedIs == Timed = {a \in Act : IsTimed(act[a])} /\ Timed' = {a \in Act : IsTimed(act'[a])}
BY DEF Timed, IsTimed, With

LEMMA NoNewTimer ==
  ASSUME \A a \in Act : act'[a] = act[a] \/ ~IsTimed(act'[a])
  PROVE  TimersMove
BY TimedIs DEF TimersMove

LEMMA OneNewTimer ==
  ASSUME TypeInv, NEW a \in Act, NEW rec, act' = [act EXCEPT ![a] = rec],
         TimerBudgetLeft \/ ~IsTimed(rec)
  PROVE  TimersMove
<1>1. act'[a] = rec /\ \A b \in Act \ {a} : act'[b] = act[b]
  BY DEF TypeInv, TypeOK
<1>2. Timed' \subseteq Timed \cup {a} /\ (~IsTimed(rec) => Timed' \subseteq Timed)
  BY <1>1, TimedIs
<1> QED BY <1>2 DEF TimersMove

LEMMA SettlingTimers ==
  ASSUME TypeInv, NEW S, NEW a, NEW st \in Settled,
         S \subseteq LiveActs, a \in LiveActs, a \notin S
  PROVE  \A b \in Act : Settling(a, st, S)[b] = act[b] \/ ~IsTimed(Settling(a, st, S)[b])
<1>1. /\ \A b \in S : Settling(a, st, S)[b].status = "cancelled"
      /\ \A b \in Act \ (S \cup {a}) : Settling(a, st, S)[b] = act[b]
      /\ Settling(a, st, S)[a].status = st
  BY SettlingRows
<1> QED BY <1>1 DEF IsTimed, Settled

LEMMA SpawningTimers ==
  ASSUME NEW acts, NEW T, NEW f \in Births(T), NEW r, NEW group,
         act' = Spawning(acts, f, version', r, group),
         \A b \in Act : acts[b] = act[b] \/ ~IsTimed(acts[b])
  PROVE  TimersMove
<1>1. ASSUME NEW a \in Act PROVE act'[a] = acts[a] \/ ~IsTimed(act'[a])
  <2>1. act'[a] = acts[a] \/ \E n : act'[a] = NewActivation(n, version', r.id, group)
    BY DEF Spawning
  <2>2. \A n : NewActivation(n, version', r.id, group).status = "ready"
    BY DEF NewActivation, Unborn
  <2> QED BY <2>1, <2>2 DEF IsTimed
<1> QED BY <1>1, NoNewTimer

LEMMA CommitTimers ==
  ASSUME TypeInv, NEW i \in Intent, Commit(i)
  PROVE  TimersMove
<1> DEFINE a == i.act
<1>1. FirstCommit(i) /\ a \in LiveActs /\ a \in Act /\ act[a] \in ActivationRecord
  <2>1. FirstCommit(i)
    BY DEF Commit, CommitReplay, CommitTerminal, CommitRoute, CommitUnrouted, Record
  <2> QED BY <2>1, CommitsLive DEF Row, LiveActs
<1>2. CASE CommitReplay(i)
  <2> DEFINE new == [act[a] EXCEPT !.replays = act[a].replays + 1]
             delayed == act[a].replays > 0 /\ TimerBudgetLeft
             rec == IF delayed THEN ToWaiting(new, "replay", "armed", None) ELSE ToReady(new, "replay")
  <2>1. act' = [act EXCEPT ![a] = rec]
    BY <1>2 DEF CommitReplay
  <2>2. new \in ActivationRecord
    BY <1>1, ReplayedRecord
  <2>3. delayed \/ ~IsTimed(rec)
    <3> HIDE DEF new
    <3> QED BY <2>2, TimersOfRows
  <2> HIDE DEF rec
  <2> QED BY <1>1, <2>1, <2>3, OneNewTimer
<1>3. CASE CommitTerminal(i)
  <2>1. PICK st \in Settled : act' = Settling(a, st, LiveActs \ {a})
    BY <1>3 DEF CommitTerminal, Settled
  <2>2. LiveActs \ {a} \subseteq LiveActs /\ a \notin LiveActs \ {a}
    OBVIOUS
  <2> HIDE DEF a
  <2> QED BY <1>1, <2>1, <2>2, SettlingTimers, NoNewTimer
<1>4. CASE \E r \in Graph.routes : \E T \in SUBSET r.to : \E f \in Births(T) : CommitRoute(i, r, f)
  <2>1. PICK r \in Graph.routes : \E f : CommitRoute(i, r, f)
    BY <1>4
  <2>2. PICK f : CommitRoute(i, r, f)
    BY <2>1
  <2>3. \/ act' = Settling(a, "succeeded", LiveActs \ {a})
        \/ \E st \in Settled : \E T :
             /\ f \in Births(T)
             /\ act' = Spawning(Settling(a, st, Coalesced(a)), f, version', r, ForkGroup(a, r))
    BY <2>2 DEF CommitRoute, Settled
  <2>4. /\ LiveActs \ {a} \subseteq LiveActs /\ a \notin LiveActs \ {a}
        /\ Coalesced(a) \subseteq LiveActs /\ a \notin Coalesced(a)
    BY DEF Coalesced
  <2> HIDE DEF a
  <2>5. CASE act' = Settling(a, "succeeded", LiveActs \ {a})
    BY <1>1, <2>4, <2>5, SettlingTimers, NoNewTimer DEF Settled
  <2>6. ASSUME NEW st \in Settled, NEW T, f \in Births(T),
               act' = Spawning(Settling(a, st, Coalesced(a)), f, version', r, ForkGroup(a, r))
        PROVE  TimersMove
    <3>1. \A b \in Act : Settling(a, st, Coalesced(a))[b] = act[b] \/ ~IsTimed(Settling(a, st, Coalesced(a))[b])
      BY <1>1, <2>4, SettlingTimers
    <3> QED BY <2>6, <3>1, SpawningTimers
  <2> QED BY <2>3, <2>5, <2>6
<1>5. CASE CommitUnrouted(i)
  <2>1. \E st \in Settled, S \in {{}, LiveActs \ {a}} : act' = Settling(a, st, S)
    BY <1>5 DEF CommitUnrouted, Settled
  <2>2. \A S \in {{}, LiveActs \ {a}} : S \subseteq LiveActs /\ a \notin S
    OBVIOUS
  <2> HIDE DEF a
  <2> QED BY <1>1, <2>1, <2>2, SettlingTimers, NoNewTimer
<1> QED BY <1>2, <1>3, <1>4, <1>5 DEF Commit

LEMMA ResumingTimers ==
  ASSUME TypeInv, NEW R, R \subseteq With("waiting"), NEW kind, act' = ResumeAll(R, kind)
  PROVE  TimersMove
<1>1. \A a \in Act : act[a] \in ActivationRecord
  BY DEF TypeInv, Row
<1>2. \A a \in Act : act'[a] = act[a] \/ ~IsTimed(act'[a])
  BY <1>1, TimersOfRows DEF ResumeAll
<1> QED BY <1>2, NoNewTimer

LEMMA ReleaseTimers ==
  ASSUME TypeInv, NEW a \in Act, NEW tok, NEW usage,
         \/ \E timer \in {"none", "armed"}, e \in Event \cup {"join", None} : Park(a, tok, timer, e, usage)
         \/ \E consume, delay \in BOOLEAN : Retry(a, tok, consume, delay, usage)
         \/ Block(a, tok, usage) \/ FailStop(a, tok, usage)
  PROVE  TimersMove
<1>1. act[a] \in ActivationRecord
  BY DEF TypeInv, Row
<1>2. ASSUME NEW rec, NEW st, Release(a, tok, rec, st, usage), TimerBudgetLeft \/ ~IsTimed(rec)
      PROVE  TimersMove
  BY <1>2, OneNewTimer DEF Release
<1>3. ASSUME NEW timer \in {"none", "armed"}, NEW e, Park(a, tok, timer, e, usage) PROVE TimersMove
  BY <1>1, <1>2, <1>3, TimersOfRows DEF Park
<1>4. ASSUME NEW consume \in BOOLEAN, NEW delay \in BOOLEAN, Retry(a, tok, consume, delay, usage)
      PROVE  TimersMove
  <2> DEFINE n == IF consume THEN act[a].replays ELSE act[a].replays + 1
             new == [act[a] EXCEPT !.replays = n]
             reason == IF consume THEN "retry" ELSE "replay"
             rec == IF delay /\ TimerBudgetLeft THEN ToWaiting(new, reason, "armed", None)
                                                ELSE ToReady(new, reason)
  <2>1. Release(a, tok, rec, status, usage)
    BY <1>4 DEF Retry
  <2>2. new \in ActivationRecord
    BY <1>1, ReplayedRecord
  <2>3. TimerBudgetLeft \/ ~IsTimed(rec)
    <3> HIDE DEF new
    <3> QED BY <2>2, TimersOfRows
  <2> HIDE DEF rec
  <2> QED BY <2>1, <2>3, <1>2
<1>5. CASE Block(a, tok, usage)
  <2> DEFINE new == [act[a] EXCEPT !.replays = act[a].replays + 1]
  <2>1. Release(a, tok, ToReady(new, "replay"), "paused", usage)
    BY <1>5 DEF Block
  <2>2. new \in ActivationRecord
    BY <1>1, ReplayedRecord
  <2> HIDE DEF new
  <2> QED BY <2>1, <2>2, <1>2, TimersOfRows
<1>6. CASE FailStop(a, tok, usage)
  BY <1>6, <1>1, <1>2, TimersOfRows DEF FailStop, Settled
<1> QED BY <1>3, <1>4, <1>5, <1>6

LEMMA StatusTimers ==
  ASSUME TypeInv, NEW st, SetStatus(st)
  PROVE  TimersMove
<1>1. \A a \in Act : act[a] \in ActivationRecord
  BY DEF TypeInv, Row
<1>2. \A a \in Act : act'[a] = act[a] \/ act'[a] = ToReady(act[a], "replay")
                       \/ act'[a] = ToSettled(act[a], "cancelled")
  BY DEF SetStatus, Cancelling, storeVars
<1> QED BY <1>1, <1>2, TimersOfRows, NoNewTimer DEF Settled

LEMMA ResumingTimersMove ==
  ASSUME TypeInv, NEW a \in ResumableTerminals, NEW r \in Graph.routes, NEW f, ResumePausedTerminal(a, r, f)
  PROVE  TimersMove
<1>1. a \in Act /\ act[a].status = "succeeded" /\ \A b \in Act : act[b] \in ActivationRecord
  BY DEF ResumableTerminals, With, TypeInv, Row
<1>2. CASE act' = [Cancelling(LiveActs) EXCEPT ![a].resumed = TRUE]
  <2>1. \A b \in Act : Cancelling(LiveActs)[b] = act[b] \/ ~IsTimed(Cancelling(LiveActs)[b])
    BY <1>1, TimersOfRows DEF Cancelling, Settled
  <2>2. \A b \in Act \ {a} : act'[b] = Cancelling(LiveActs)[b]
    BY <1>2 DEF Cancelling
  <2>3. Cancelling(LiveActs)[a] = act[a]
    BY <1>1 DEF Cancelling, LiveActs, Live
  <2>4. act'[a] = [act[a] EXCEPT !.resumed = TRUE]
    BY <1>1, <1>2, <2>3 DEF Cancelling
  <2>5. act'[a].status = "succeeded"
    BY <1>1, <2>4 DEF ActivationRecord
  <2> QED BY <2>1, <2>2, <2>5, NoNewTimer DEF IsTimed
<1>3. ASSUME NEW T, f \in Births(T),
             act' = Spawning([act EXCEPT ![a].resumed = TRUE], f, version', r, ForkGroup(a, r))
      PROVE  TimersMove
  <2> DEFINE acts == [act EXCEPT ![a].resumed = TRUE]
  <2>1. \A b \in Act \ {a} : acts[b] = act[b]
    BY DEF TypeInv, TypeOK
  <2>2. acts[a] = [act[a] EXCEPT !.resumed = TRUE]
    BY <1>1 DEF TypeInv, TypeOK
  <2>3. acts[a].status = "succeeded"
    BY <1>1, <2>2 DEF ActivationRecord
  <2>4. \A b \in Act : acts[b] = act[b] \/ ~IsTimed(acts[b])
    BY <2>1, <2>3 DEF IsTimed
  <2>5. act' = Spawning(acts, f, version', r, ForkGroup(a, r))
    BY <1>3
  <2> HIDE DEF acts
  <2> QED BY <1>3, <2>4, <2>5, SpawningTimers
<1> QED BY <1>2, <1>3 DEF ResumePausedTerminal

LEMMA NextTimers ==
  ASSUME TypeInv, Next
  PROVE  TimersMove
<1>1. \A a \in Act : act[a] \in ActivationRecord
  BY DEF TypeInv, Row
<1>2. ASSUME UNCHANGED act PROVE TimersMove
  BY <1>2, NoNewTimer
<1>3. ASSUME NEW S \in SUBSET Act, ClaimReady(S) PROVE TimersMove
  <2>1. \A a \in S : Starts(act[a], act'[a]) /\ \A b \in Act \ S : act'[b] = act[b]
    BY <1>3, ClaimReadyStep
  <2>2. \A a \in Act : act'[a] = act[a] \/ ~IsTimed(act'[a])
    BY <1>3, <2>1, ClaimReadyStep DEF Starts, IsTimed
  <2> QED BY <2>2, NoNewTimer
<1>4. ASSUME NEW S \in SUBSET Act, ReleaseExpired(S) PROVE TimersMove
  <2>1. \A a \in Act : act'[a] = act[a] \/ ~IsTimed(act'[a])
    BY <1>1, <1>4, TimersOfRows DEF ReleaseExpired
  <2> QED BY <2>1, NoNewTimer
<1>5. ASSUME NEW signal, NEW D, ResumeDue(signal, D) PROVE TimersMove
  <2>1. {a \in With("waiting") : a \in D \/ Signalled(a, signal)} \subseteq With("waiting")
    OBVIOUS
  <2> QED BY <1>5, <2>1, ResumingTimers DEF ResumeDue
<1>6. ASSUME ReconcileWaitingJoins PROVE TimersMove
  <2>1. {a \in With("waiting") : IsJoin(a) /\ act[a].event = "join" /\ BarrierLeader(a)} \subseteq With("waiting")
    OBVIOUS
  <2> QED BY <1>6, <2>1, ResumingTimers DEF ReconcileWaitingJoins
<1>7. ASSUME NEW e, RecordExternalEvent(e) PROVE TimersMove
  BY <1>7, ResumingTimers DEF RecordExternalEvent, Matches
<1>8. ASSUME ResumePendingExternalEvents PROVE TimersMove
  BY <1>8, ResumingTimers DEF ResumePendingExternalEvents, Matches
<1>9. ASSUME NEW a \in Act, TimerFires(a) PROVE TimersMove
  <2>1. act[a].timer = "armed" /\ IsTimed(act[a]) /\ \A b \in Act \ {a} : act'[b] = act[b]
    BY <1>9 DEF TimerFires, IsTimed, TypeInv, TypeOK
  <2> QED BY <2>1, TimedIs DEF TimersMove
<1>10. ASSUME NEW i \in Intent, PrepareCommit(i) \/ Commit(i) PROVE TimersMove
  BY <1>2, <1>10, CommitTimers DEF PrepareCommit
<1>11. ASSUME NEW X, ExpireStaleExternalEvents(X) PROVE TimersMove
  BY <1>2, <1>11 DEF ExpireStaleExternalEvents
<1>12. CASE Resume
  BY <1>2, <1>12, ResumingTimersMove DEF Resume, ResumeFails
<1> HIDE DEF TimersMove
<1> QED BY <1>3, <1>4, <1>5, <1>6, <1>7, <1>8, <1>9, <1>10, <1>11, <1>12, ReleaseTimers, StatusTimers
        DEF Next

\* However parks, retries and replays add up, and whoever does them, an instance never
\* has more timers pending than limits.maxPendingTimers (maxPendingTimers in park,
\* retry and commit of CommitCoordinator.ts).
THEOREM TimersAreBounded == Spec => []TimersWithinBudget
<1>1. Graph.limits.timers \in Nat /\ Timed \in SUBSET Act
  BY GraphAssumption DEF Timed, With
<1>2. Init => TimersWithinBudget
  BY <1>1, NothingRunsAtFirst, FS_EmptySet DEF TimersWithinBudget
<1>3. Inv /\ TimersWithinBudget /\ [Next]_storeVars => TimersWithinBudget'
  <2> SUFFICES ASSUME Inv, TimersWithinBudget, [Next]_storeVars PROVE TimersWithinBudget'
    OBVIOUS
  <2>1. Cardinality(Timed) <= Graph.limits.timers
    BY DEF TimersWithinBudget, Timed
  <2>2. SUFFICES Cardinality(Timed') <= Graph.limits.timers
    BY DEF TimersWithinBudget, Timed
  <2>3. Cardinality(Timed) \in Nat
    BY <1>1, ActsFinite
  <2>4. CASE Timed' \subseteq Timed
    BY <1>1, <2>1, <2>3, <2>4, FewerActs
  <2>5. CASE TimerBudgetLeft /\ \E a \in Act : Timed' \subseteq Timed \cup {a}
    <3>1. Cardinality(Timed) < Graph.limits.timers
      BY <2>5 DEF TimerBudgetLeft, Timed
    <3>2. Cardinality(Timed') <= Cardinality(Timed) + 1 /\ Cardinality(Timed') \in Nat
      BY <1>1, <2>5, OneMoreAct
    <3> QED BY <1>1, <2>3, <3>1, <3>2
  <2>6. CASE Next
    BY <2>4, <2>5, <2>6, NextTimers DEF Inv, TimersMove
  <2>7. CASE UNCHANGED storeVars
    BY <2>4, <2>7 DEF storeVars, Timed, With
  <2> QED BY <2>6, <2>7
<1> QED BY InitInv, StepInv, <1>2, <1>3, PTL DEF Spec

-----------------------------------------------------------------------------
(* Births: by a routed commit and by the resumption of a paused Terminal *)

Routing == \E i \in Intent, r \in Graph.routes : \E f : CommitRoute(i, r, f)
Leaving == \E a \in ResumableTerminals, r \in Graph.routes : \E f : ResumePausedTerminal(a, r, f)

LEMMA NextKinds ==
  ASSUME Inv, Next
  PROVE  Continuing \/ Starting \/ Routing \/ Leaving
<1> USE DEF Inv
<1>1. ASSUME NEW S \in SUBSET Act, ClaimReady(S) PROVE Starting
  BY <1>1, ClaimReadyStep DEF Starting
<1>2. ASSUME NEW S \in SUBSET Act, ReleaseExpired(S) PROVE Continuing
  BY <1>2, ReleaseExpiredStep
<1>3. ASSUME NEW a \in Act, NEW tok \in Nat, NEW usage \in Nat,
             \/ \E timer \in {"none", "armed"}, e \in Event \cup {"join", None} : Park(a, tok, timer, e, usage)
             \/ \E consume, delay \in BOOLEAN : Retry(a, tok, consume, delay, usage)
             \/ Block(a, tok, usage) \/ FailStop(a, tok, usage)
      PROVE  Continuing
  BY <1>3, ParkStep, RetryStep, BlockStep, FailStopStep
<1>4. ASSUME NEW i \in Intent, PrepareCommit(i) PROVE Continuing
  BY <1>4, PrepareCommitStep
<1>5. ASSUME NEW i \in Intent, Commit(i) PROVE Continuing \/ Routing
  BY <1>5, CommitReplayStep, CommitTerminalStep, CommitUnroutedStep DEF Commit, Routing
<1>6. ASSUME NEW signal, NEW D, ResumeDue(signal, D) PROVE Continuing
  BY <1>6, ResumeDueStep
<1>7. ASSUME ReconcileWaitingJoins PROVE Continuing
  BY <1>7, ReconcileStep
<1>8. ASSUME NEW e \in Event, RecordExternalEvent(e) PROVE Continuing
  BY <1>8, RecordExternalEventStep
<1>9. ASSUME ResumePendingExternalEvents PROVE Continuing
  BY <1>9, ResumePendingStep
<1>10. ASSUME NEW X, ExpireStaleExternalEvents(X) PROVE Continuing
  BY <1>10, ExpireEventsStep
<1>11. ASSUME NEW a \in Act, TimerFires(a) PROVE Continuing
  BY <1>11, TimerFiresStep
<1>12. ASSUME NEW st \in InstanceStatus, SetStatus(st) PROVE Continuing
  BY <1>12, SetStatusStep
<1>13. ASSUME Resume PROVE Continuing \/ Leaving
  BY <1>13, ResumeFailsStep DEF Resume, Leaving
<1> QED
  <2> HIDE DEF Inv
  <2> QED BY <1>1, <1>2, <1>3, <1>4, <1>5, <1>6, <1>7, <1>8, <1>9, <1>10, <1>11, <1>12, <1>13 DEF Next

\* What a routed commit does: it closes the instance, or settles its own activation,
\* cancels those it coalesces and creates one activation for each target.
LEMMA RoutedRows ==
  ASSUME TypeInv, NEW i \in Intent, NEW r \in Graph.routes, NEW f, CommitRoute(i, r, f)
  PROVE  /\ i.act \in LiveActs /\ r.from = act[i.act].node
         /\ r.on \in Outcome \cup {"always"}
         /\ \/ act' = Settling(i.act, "succeeded", LiveActs \ {i.act})
            \/ \E st \in Settled :
                 /\ f \in Births({n \in r.to : ~AlreadyJoined(n, ForkGroup(i.act, r))})
                 /\ act' = Spawning(Settling(i.act, st, Coalesced(i.act)), f, version', r, ForkGroup(i.act, r))
<1>1. Record(i) /\ FirstCommit(i) /\ r \in Candidates(act[i.act].node, EffectiveOutcome(i))
  BY DEF CommitRoute, Record
<1>2. EffectiveOutcome(i) \in Outcome
  BY DEF EffectiveOutcome, Intent, Outcome
<1>3. r.from = act[i.act].node /\ r.on \in Outcome \cup {"always"}
  BY <1>1, <1>2 DEF Candidates
<1> QED BY <1>1, <1>3, CommitsLive DEF CommitRoute, Settled

\* A table that spawns: each activation is a new one, or what it was.
LEMMA SpawnedRows ==
  ASSUME NEW acts, NEW T, NEW f \in Births(T), NEW r, NEW group, act' = Spawning(acts, f, version', r, group)
  PROVE  \A b \in Act :
           \/ act'[b] = acts[b]
           \/ \E n \in T : /\ f[n] = b /\ act[b].status = "unborn"
                           /\ act'[b] = NewActivation(n, version', r.id, group)
<1>1. DOMAIN f = T /\ \A n \in T : f[n] \in Act \ Born
  BY DEF Births
<1>2. ASSUME NEW b \in Act, NEW m \in T, f[m] = b
      PROVE  \E n \in T : f[n] = b /\ act[b].status = "unborn" /\ act'[b] = NewActivation(n, version', r.id, group)
  <2> DEFINE n == CHOOSE n \in T : f[n] = b
  <2>1. n \in T /\ f[n] = b /\ act[b].status = "unborn"
    BY <1>1, <1>2 DEF Born
  <2>2. act'[b] = NewActivation(n, version', r.id, group)
    BY <1>1, <1>2 DEF Spawning
  <2> QED BY <2>1, <2>2
<1>3. \A b \in Act : (\A n \in T : f[n] # b) => act'[b] = acts[b]
  BY <1>1 DEF Spawning
<1> QED BY <1>2, <1>3

-----------------------------------------------------------------------------
(* Resuming a paused Terminal *)

BornBy(r, n) == {b \in Born : act[b].via = r.id /\ act[b].node = n}
LeftAt(n)    == {a \in Born : act[a].node = n /\ act[a].resumed}

LEMMA ContinuingBirths ==
  ASSUME Continuing \/ Starting
  PROVE  \A r, n : BornBy(r, n)' = BornBy(r, n) /\ LeftAt(n) \subseteq LeftAt(n)'
<1>1. CASE Continuing
  BY <1>1 DEF Continuing, Continues, Frame, BornBy, LeftAt, Born, Live, Settled
<1>2. CASE Starting
  BY <1>2 DEF Starting, Starts, BornBy, LeftAt, Born
<1> QED BY <1>1, <1>2

LEMMA SpawningBirths ==
  ASSUME NEW acts, \A b \in Act : Continues(act[b], acts[b]),
         NEW T, NEW f \in Births(T), NEW r, NEW group, act' = Spawning(acts, f, version', r, group)
  PROVE  /\ \A q, n : q.id # r.id => BornBy(q, n)' = BornBy(q, n)
         /\ \A n : BornBy(r, n)' \subseteq BornBy(r, n) \cup (IF n \in T THEN {f[n]} ELSE {})
         /\ \A n : LeftAt(n) \subseteq LeftAt(n)'
<1>1. \A b \in Act :
        \/ act'[b] = acts[b]
        \/ \E n \in T : /\ f[n] = b /\ act[b].status = "unborn"
                        /\ act'[b] = NewActivation(n, version', r.id, group)
  BY SpawnedRows
<1>2. \A b \in Born : act'[b] = acts[b]
  BY <1>1 DEF Born
<1>3. \A n : /\ NewActivation(n, version', r.id, group).via = r.id
             /\ NewActivation(n, version', r.id, group).node = n
             /\ NewActivation(n, version', r.id, group).status = "ready"
  BY DEF NewActivation, Unborn
<1>4. \A b \in Act : /\ acts[b].status # "unborn" <=> act[b].status # "unborn"
                     /\ acts[b].node = act[b].node /\ acts[b].via = act[b].via
                     /\ act[b].resumed => acts[b].resumed
  BY DEF Continues, Frame, Live, Settled
<1>5. ASSUME NEW b \in Act, act'[b].status # "unborn", act[b].status = "unborn"
      PROVE  \E n \in T : f[n] = b /\ act'[b].via = r.id /\ act'[b].node = n
  BY <1>1, <1>3, <1>4, <1>5
<1>6. ASSUME NEW b \in Born
      PROVE  b \in Born' /\ act'[b].via = act[b].via /\ act'[b].node = act[b].node
             /\ (act[b].resumed => act'[b].resumed)
  BY <1>2, <1>4 DEF Born
<1>7. \A q, n : BornBy(q, n) \subseteq BornBy(q, n)'
  BY <1>6 DEF BornBy
<1>8. \A q, n : q.id # r.id => BornBy(q, n)' \subseteq BornBy(q, n)
  BY <1>5, <1>6 DEF BornBy, Born
<1>9. \A n : BornBy(r, n)' \subseteq BornBy(r, n) \cup (IF n \in T THEN {f[n]} ELSE {})
  BY <1>5, <1>6 DEF BornBy, Born
<1>10. \A n : LeftAt(n) \subseteq LeftAt(n)'
  BY <1>6 DEF LeftAt
<1>11. ASSUME NEW q, NEW n, q.id # r.id PROVE BornBy(q, n)' = BornBy(q, n)
  BY <1>7, <1>8, <1>11 DEF BornBy
<1> QED BY <1>9, <1>10, <1>11

\* A paused Terminal that is left is marked, and gives each target of its edge one
\* activation at most.
LEMMA LeavingBirths ==
  ASSUME TypeInv, NEW a \in ResumableTerminals, NEW r \in Graph.routes, NEW f, ResumePausedTerminal(a, r, f)
  PROVE  /\ \A q, n : q.id # r.id => BornBy(q, n)' = BornBy(q, n)
         /\ \A n : \E b \in Act : BornBy(r, n)' \subseteq BornBy(r, n) \cup {b}
         /\ \A n : LeftAt(n) \subseteq LeftAt(n)'
         /\ a \in Act /\ a \notin LeftAt(r.from) /\ a \in LeftAt(r.from)'
<1> DEFINE left == [act[a] EXCEPT !.resumed = TRUE]
<1>1. a \in Act /\ act[a].status = "succeeded" /\ ~act[a].resumed /\ Row(act[a])
  BY DEF ResumableTerminals, With, TypeInv
<1>2. r.from = act[a].node
  BY DEF ResumePausedTerminal, Candidates
<1>3. Continues(act[a], left) /\ left.resumed /\ left.node = act[a].node /\ left.status = "succeeded"
  BY <1>1, LeftContinues DEF Row, ActivationRecord
<1> HIDE DEF left
<1>4. CASE act' = [Cancelling(LiveActs) EXCEPT ![a].resumed = TRUE]
  <2> DEFINE c == Cancelling(LiveActs)
  <2>1. /\ c = [b \in Act |-> c[b]]
        /\ \A b \in Act : Continues(act[b], c[b])
        /\ \A b \in Act \ LiveActs : c[b] = act[b]
    BY CancellingRows
  <2>2. act' = [c EXCEPT ![a].resumed = TRUE] /\ a \notin LiveActs
    BY <1>1, <1>4 DEF LiveActs, Live
  <2> HIDE DEF c
  <2>3. act'[a] = left /\ \A b \in Act \ {a} : act'[b] = c[b]
    BY <1>1, <2>1, <2>2 DEF left
  <2>4. Continuing
    BY <1>3, <2>1, <2>3 DEF Continuing
  <2>5. a \notin LeftAt(r.from) /\ a \in LeftAt(r.from)'
    BY <1>1, <1>2, <1>3, <2>3 DEF LeftAt, Born
  <2> QED BY <1>1, <2>4, <2>5, ContinuingBirths
<1>5. ASSUME f \in Births(r.to),
             act' = Spawning([act EXCEPT ![a].resumed = TRUE], f, version', r, ForkGroup(a, r))
      PROVE  /\ \A q, n : q.id # r.id => BornBy(q, n)' = BornBy(q, n)
             /\ \A n : \E b \in Act : BornBy(r, n)' \subseteq BornBy(r, n) \cup {b}
             /\ \A n : LeftAt(n) \subseteq LeftAt(n)'
             /\ a \in Act /\ a \notin LeftAt(r.from) /\ a \in LeftAt(r.from)'
  <2> DEFINE acts == [act EXCEPT ![a].resumed = TRUE]
  <2>1. acts[a] = left /\ \A b \in Act \ {a} : acts[b] = act[b]
    BY <1>1 DEF TypeInv, TypeOK, left
  <2>2. \A b \in Act : Continues(act[b], acts[b])
    BY <1>3, <2>1, SameContinues DEF TypeInv
  <2>3. act' = Spawning(acts, f, version', r, ForkGroup(a, r))
    BY <1>5
  <2> HIDE DEF acts
  <2>4. /\ \A q, n : q.id # r.id => BornBy(q, n)' = BornBy(q, n)
        /\ \A n : BornBy(r, n)' \subseteq BornBy(r, n) \cup (IF n \in r.to THEN {f[n]} ELSE {})
        /\ \A n : LeftAt(n) \subseteq LeftAt(n)'
    BY <1>5, <2>2, <2>3, SpawningBirths
  <2>5. \A n \in r.to : f[n] \in Act /\ act[f[n]].status = "unborn"
    BY <1>5 DEF Births, Born
  <2>6. act'[a] = left
    <3>1. \A n \in r.to : f[n] # a
      BY <1>1, <2>5
    <3>2. acts[a] = left
      BY <2>1
    <3> QED BY <1>1, <1>5, <2>3, <3>1, <3>2 DEF Spawning, Births
  <2>7. a \notin LeftAt(r.from) /\ a \in LeftAt(r.from)'
    BY <1>1, <1>2, <1>3, <2>6 DEF LeftAt, Born
  <2>8. \A n : \E b \in Act : BornBy(r, n)' \subseteq BornBy(r, n) \cup {b}
    BY <1>1, <2>4, <2>5
  <2> QED BY <1>1, <2>4, <2>7, <2>8
<1> QED BY <1>4, <1>5 DEF ResumePausedTerminal

\* No commit is routed over a resume edge.
LEMMA RoutedBirths ==
  ASSUME TypeInv, Routing, NEW r \in Graph.routes, r.on = "resume"
  PROVE  \A n : BornBy(r, n)' = BornBy(r, n) /\ LeftAt(n) \subseteq LeftAt(n)'
<1>1. PICK i \in Intent, q \in Graph.routes : \E f : CommitRoute(i, q, f)
  BY DEF Routing
<1>2. PICK f : CommitRoute(i, q, f)
  BY <1>1
<1> DEFINE a == i.act
<1>3. /\ a \in LiveActs /\ q.on # "resume"
      /\ \/ act' = Settling(a, "succeeded", LiveActs \ {a})
         \/ \E st \in Settled : \E T :
              /\ f \in Births(T)
              /\ act' = Spawning(Settling(a, st, Coalesced(a)), f, version', q, ForkGroup(a, q))
  BY <1>2, RoutedRows DEF Outcome
<1>4. q.id # r.id
  BY <1>3, GraphAssumption
<1>5. /\ LiveActs \ {a} \subseteq LiveActs /\ a \notin LiveActs \ {a}
      /\ Coalesced(a) \subseteq LiveActs /\ a \notin Coalesced(a)
  BY DEF Coalesced
<1> HIDE DEF a
<1>6. CASE act' = Settling(a, "succeeded", LiveActs \ {a})
  <2>1. Continuing
    BY <1>3, <1>5, <1>6, SettlingStep DEF Settled
  <2> QED BY <2>1, ContinuingBirths
<1>7. ASSUME NEW st \in Settled, NEW T, f \in Births(T),
             act' = Spawning(Settling(a, st, Coalesced(a)), f, version', q, ForkGroup(a, q))
      PROVE  \A n : BornBy(r, n)' = BornBy(r, n) /\ LeftAt(n) \subseteq LeftAt(n)'
  <2>1. \A b \in Act : Continues(act[b], Settling(a, st, Coalesced(a))[b])
    BY <1>3, <1>5, SettlingRows
  <2> QED BY <1>4, <1>7, <2>1, SpawningBirths
<1> QED BY <1>3, <1>6, <1>7

\* However often `resume` is repeated, and whatever crashes in between, a paused
\* Terminal is left once (resumedAt in resumePausedTerminal of CommitCoordinator.ts).
THEOREM ResumesAreOnce == Spec => []ResumedOnce
<1>1. Init => ResumedOnce
  <2> SUFFICES ASSUME Init, NEW r \in Graph.routes, NEW n \in NodeId
               PROVE  Cardinality(BornBy(r, n)) <= Cardinality(LeftAt(r.from))
    BY DEF ResumedOnce, BornBy, LeftAt
  <2>1. \A a \in Act : act[a].via = None
    BY DEF Init, NewActivation, Unborn
  <2>2. r.id # None
    BY GraphAssumption DEF RouteId
  <2>3. BornBy(r, n) = {}
    BY <2>1, <2>2 DEF BornBy, Born
  <2>4. Cardinality(LeftAt(r.from)) \in Nat
    BY ActsFinite DEF LeftAt, Born
  <2> QED BY <2>3, <2>4, FS_EmptySet
<1>2. Inv /\ ResumedOnce /\ [Next]_storeVars => ResumedOnce'
  <2> SUFFICES ASSUME Inv, ResumedOnce, [Next]_storeVars, NEW r \in Graph.routes, r.on = "resume", NEW n \in NodeId
               PROVE  Cardinality(BornBy(r, n)') <= Cardinality(LeftAt(r.from)')
    BY DEF ResumedOnce, BornBy, LeftAt
  <2>1. Cardinality(BornBy(r, n)) <= Cardinality(LeftAt(r.from))
    BY DEF ResumedOnce, BornBy, LeftAt
  <2>2. BornBy(r, n) \in SUBSET Act /\ LeftAt(r.from) \in SUBSET Act /\ LeftAt(r.from)' \in SUBSET Act
    BY DEF BornBy, LeftAt, Born
  <2>3. Cardinality(BornBy(r, n)) \in Nat /\ Cardinality(LeftAt(r.from)) \in Nat /\ Cardinality(LeftAt(r.from)') \in Nat
    BY <2>2, ActsFinite
  <2>4. ASSUME BornBy(r, n)' = BornBy(r, n), LeftAt(r.from) \subseteq LeftAt(r.from)'
        PROVE  Cardinality(BornBy(r, n)') <= Cardinality(LeftAt(r.from)')
    <3>1. Cardinality(LeftAt(r.from)) <= Cardinality(LeftAt(r.from)')
      BY <2>2, <2>4, FewerActs
    <3> QED BY <2>1, <2>3, <2>4, <3>1
  <2>5. CASE Leaving
    <3>1. PICK a \in ResumableTerminals, q \in Graph.routes : \E f : ResumePausedTerminal(a, q, f)
      BY <2>5 DEF Leaving
    <3>2. PICK f : ResumePausedTerminal(a, q, f)
      BY <3>1
    <3>3. TypeInv
      BY DEF Inv
    <3>4. /\ q.id # r.id => BornBy(r, n)' = BornBy(r, n)
          /\ \E b \in Act : BornBy(q, n)' \subseteq BornBy(q, n) \cup {b}
          /\ LeftAt(r.from) \subseteq LeftAt(r.from)'
          /\ a \in Act /\ a \notin LeftAt(q.from) /\ a \in LeftAt(q.from)'
      BY <3>2, <3>3, LeavingBirths
    <3>5. CASE q.id # r.id
      BY <2>4, <3>4, <3>5
    <3>6. CASE q.id = r.id
      <4>1. q = r
        BY <3>6, GraphAssumption
      <4>2. Cardinality(BornBy(r, n)') <= Cardinality(BornBy(r, n)) + 1 /\ Cardinality(BornBy(r, n)') \in Nat
        BY <2>2, <3>4, <4>1, OneMoreAct
      <4>3. Cardinality(LeftAt(r.from) \cup {a}) = Cardinality(LeftAt(r.from)) + 1
        BY <2>2, <3>4, <4>1, ActsFinite, FS_AddElement
      <4>4. Cardinality(LeftAt(r.from) \cup {a}) <= Cardinality(LeftAt(r.from)')
        BY <2>2, <3>4, <4>1, FewerActs
      <4> QED BY <2>1, <2>3, <4>2, <4>3, <4>4
    <3> QED BY <3>5, <3>6
  <2>6. CASE Continuing \/ Starting
    BY <2>4, <2>6, ContinuingBirths
  <2>7. CASE Routing
    BY <2>4, <2>7, RoutedBirths DEF Inv
  <2>8. CASE UNCHANGED storeVars
    <3>1. BornBy(r, n)' = BornBy(r, n) /\ LeftAt(r.from)' = LeftAt(r.from)
      BY <2>8 DEF storeVars, BornBy, LeftAt, Born
    <3> QED BY <2>4, <3>1
  <2> QED BY <2>5, <2>6, <2>7, <2>8, NextKinds DEF Inv
<1> QED BY InitInv, StepInv, <1>1, <1>2, PTL DEF Spec

-----------------------------------------------------------------------------
(* Joins *)

\* The graphs of the theorem below: no Join is its own successor, and no resume edge
\* of a paused Terminal enters a Join.
JoinsAreEntered ==
  \A r \in Graph.routes : \A n \in r.to :
    Graph.nodes[n].type = "join" => r.from # n /\ Graph.nodes[r.from].type # "terminal"

\* Once a Join of a fork group has fired, no other member of it is alive or succeeds.
JoinsSettle ==
  \A a \in With("succeeded"), b \in LiveActs \cup With("succeeded") :
    IsJoin(a) /\ act[b].node = act[a].node /\ act[b].group = act[a].group => a = b

NoSuccess == \A a \in Act : act'[a].status = "succeeded" => act[a].status = "succeeded"

LEMMA StatusOfRows ==
  ASSUME NEW rec \in ActivationRecord
  PROVE  /\ \A why : ToReady(rec, why).status = "ready"
         /\ \A st : ToSettled(rec, st).status = st
         /\ \A kind : Resumed(rec, kind).status = "ready"
         /\ \A reason, timer, event : ToWaiting(rec, reason, timer, event).status = "waiting"
<1>1. \A kind : Resumed(rec, kind).status = "ready"
  BY DEF Resumed, ActivationRecord
<1> QED BY <1>1 DEF ToReady, ToSettled, ToWaiting, ActivationRecord

LEMMA RewriteNoSuccess ==
  ASSUME TypeInv, NEW a \in Act, NEW rec, act' = [act EXCEPT ![a] = rec], rec.status # "succeeded"
  PROVE  NoSuccess
BY DEF NoSuccess, TypeInv, TypeOK

\* A commit that closes the instance, or that fails one activation, and nothing else.
LEMMA SettlingSuccess ==
  ASSUME TypeInv, NEW S, NEW a, NEW st \in Settled,
         S \subseteq LiveActs, a \in LiveActs, a \notin S, act' = Settling(a, st, S)
  PROVE  /\ \A b \in Act \ {a} : act'[b].status = "succeeded" => act[b].status = "succeeded"
         /\ st # "succeeded" => NoSuccess
<1>1. /\ \A b \in S : act'[b].status = "cancelled"
      /\ \A b \in Act \ (S \cup {a}) : act'[b] = act[b]
      /\ act'[a].status = st
  BY SettlingRows
<1> QED BY <1>1 DEF NoSuccess

\* One activation settles, and it is the end of the instance.
Ending == Continuing /\ LiveActs' = {}
  /\ \E a \in LiveActs : \A b \in Act \ {a} : act'[b].status = "succeeded" => act[b].status = "succeeded"

LEMMA ClosingEnds ==
  ASSUME TypeInv, NEW a \in LiveActs, NEW st \in Settled, act' = Settling(a, st, LiveActs \ {a})
  PROVE  Ending
<1>1. LiveActs \ {a} \subseteq LiveActs /\ a \notin LiveActs \ {a}
  OBVIOUS
<1>2. Continuing /\ LiveActs' = {}
  BY <1>1, SettlingStep, ClosingQuiet
<1>3. \A b \in Act \ {a} : act'[b].status = "succeeded" => act[b].status = "succeeded"
  BY <1>1, SettlingSuccess
<1> QED BY <1>2, <1>3 DEF Ending

\* Only the commit of a segment makes an activation succeed.
LEMMA NextSuccess ==
  ASSUME Inv, Next
  PROVE  NoSuccess \/ Ending \/ Routing \/ Leaving
<1> USE DEF Inv
<1>1. \A a \in Act : act[a] \in ActivationRecord
  BY DEF TypeInv, Row
<1>2. ASSUME UNCHANGED act PROVE NoSuccess
  BY <1>2 DEF NoSuccess
<1>3. ASSUME NEW S \in SUBSET Act, ClaimReady(S) PROVE NoSuccess
  BY <1>3, ClaimReadyStep DEF NoSuccess, Starts
<1>4. ASSUME NEW S \in SUBSET Act, ReleaseExpired(S) PROVE NoSuccess
  BY <1>1, <1>4, StatusOfRows DEF NoSuccess, ReleaseExpired
<1>5. ASSUME NEW a \in Act, NEW tok, NEW usage, NEW timer, NEW e, Park(a, tok, timer, e, usage) PROVE NoSuccess
  BY <1>1, <1>5, StatusOfRows, RewriteNoSuccess DEF Park, Release
<1>6. ASSUME NEW a \in Act, NEW tok, NEW usage, NEW consume \in BOOLEAN, NEW delay \in BOOLEAN,
             Retry(a, tok, consume, delay, usage)
      PROVE  NoSuccess
  <2> DEFINE n == IF consume THEN act[a].replays ELSE act[a].replays + 1
             new == [act[a] EXCEPT !.replays = n]
             reason == IF consume THEN "retry" ELSE "replay"
             rec == IF delay /\ TimerBudgetLeft THEN ToWaiting(new, reason, "armed", None)
                                                ELSE ToReady(new, reason)
  <2>1. act' = [act EXCEPT ![a] = rec]
    BY <1>6 DEF Retry, Release
  <2>2. new \in ActivationRecord
    BY <1>1, ReplayedRecord
  <2>3. rec.status # "succeeded"
    <3> HIDE DEF new
    <3> QED BY <2>2, StatusOfRows
  <2> HIDE DEF rec
  <2> QED BY <2>1, <2>3, RewriteNoSuccess
<1>7. ASSUME NEW a \in Act, NEW tok, NEW usage, Block(a, tok, usage) PROVE NoSuccess
  <2> DEFINE n == act[a].replays + 1
             new == [act[a] EXCEPT !.replays = n]
  <2>1. act' = [act EXCEPT ![a] = ToReady(new, "replay")]
    BY <1>7 DEF Block, Release
  <2>2. new \in ActivationRecord
    BY <1>1, ReplayedRecord
  <2> HIDE DEF new
  <2>3. ToReady(new, "replay").status # "succeeded"
    BY <2>2, StatusOfRows
  <2> QED BY <2>1, <2>3, RewriteNoSuccess
<1>8. ASSUME NEW a \in Act, NEW tok, NEW usage, FailStop(a, tok, usage) PROVE NoSuccess
  <2>1. act' = [act EXCEPT ![a] = ToSettled(act[a], "failed")]
    BY <1>8 DEF FailStop, Release
  <2>2. ToSettled(act[a], "failed").status # "succeeded"
    BY <1>1, StatusOfRows
  <2> QED BY <2>1, <2>2, RewriteNoSuccess
<1>9. ASSUME NEW i \in Intent, Commit(i) PROVE NoSuccess \/ Ending \/ Routing
  <2> DEFINE a == i.act
  <2>1. FirstCommit(i) /\ a \in LiveActs /\ a \in Act
    <3>1. FirstCommit(i)
      BY <1>9 DEF Commit, CommitReplay, CommitTerminal, CommitRoute, CommitUnrouted, Record
    <3> QED BY <3>1, CommitsLive DEF LiveActs
  <2>2. CASE CommitReplay(i)
    <3> DEFINE n == act[a].replays + 1
               new == [act[a] EXCEPT !.replays = n]
               delayed == act[a].replays > 0 /\ TimerBudgetLeft
               rec == IF delayed THEN ToWaiting(new, "replay", "armed", None) ELSE ToReady(new, "replay")
    <3>1. act' = [act EXCEPT ![a] = rec]
      BY <2>2 DEF CommitReplay
    <3>2. new \in ActivationRecord
      BY <1>1, <2>1, ReplayedRecord
    <3>3. rec.status # "succeeded"
      <4> HIDE DEF new
      <4> QED BY <3>2, StatusOfRows
    <3> HIDE DEF rec
    <3> QED BY <2>1, <3>1, <3>3, RewriteNoSuccess
  <2>3. CASE CommitTerminal(i)
    <3>1. PICK st \in Settled : act' = Settling(a, st, LiveActs \ {a})
      BY <2>3 DEF CommitTerminal, Settled
    <3> HIDE DEF a
    <3> QED BY <2>1, <3>1, ClosingEnds
  <2>4. CASE CommitUnrouted(i)
    <3> HIDE DEF a
    <3>1. \/ act' = Settling(a, "succeeded", LiveActs \ {a})
          \/ act' = Settling(a, "failed", {})
      BY <2>4 DEF CommitUnrouted, a
    <3> QED BY <2>1, <3>1, ClosingEnds, SettlingSuccess DEF Settled
  <2> QED BY <1>9, <2>2, <2>3, <2>4 DEF Commit, Routing
<1>10. ASSUME NEW R, NEW kind, act' = ResumeAll(R, kind) PROVE NoSuccess
  BY <1>1, <1>10, StatusOfRows DEF ResumeAll, NoSuccess
<1>11. ASSUME NEW signal, NEW D, ResumeDue(signal, D) PROVE NoSuccess
  BY <1>10, <1>11 DEF ResumeDue
<1>12. ASSUME ReconcileWaitingJoins PROVE NoSuccess
  BY <1>10, <1>12 DEF ReconcileWaitingJoins
<1>13. ASSUME NEW e, RecordExternalEvent(e) PROVE NoSuccess
  BY <1>10, <1>13 DEF RecordExternalEvent
<1>14. ASSUME ResumePendingExternalEvents PROVE NoSuccess
  BY <1>10, <1>14 DEF ResumePendingExternalEvents
<1>15. ASSUME NEW a \in Act, TimerFires(a) PROVE NoSuccess
  <2>1. act'[a].status = act[a].status /\ \A b \in Act \ {a} : act'[b] = act[b]
    BY <1>1, <1>15 DEF TimerFires, TypeInv, TypeOK, ActivationRecord
  <2> QED BY <2>1 DEF NoSuccess
<1>16. ASSUME NEW st, SetStatus(st) PROVE NoSuccess
  <2>1. \A a \in Act : act'[a] = act[a] \/ act'[a] = ToReady(act[a], "replay")
                         \/ act'[a] = ToSettled(act[a], "cancelled")
    BY <1>16 DEF SetStatus, Cancelling, storeVars
  <2> QED BY <1>1, <2>1, StatusOfRows DEF NoSuccess
<1>17. CASE Resume
  BY <1>2, <1>17 DEF Resume, ResumeFails, Leaving
<1>18. ASSUME NEW i, PrepareCommit(i) PROVE NoSuccess
  BY <1>2, <1>18 DEF PrepareCommit
<1>19. ASSUME NEW X, ExpireStaleExternalEvents(X) PROVE NoSuccess
  BY <1>2, <1>19 DEF ExpireStaleExternalEvents
<1> HIDE DEF Inv
<1> QED BY <1>3, <1>4, <1>5, <1>6, <1>7, <1>8, <1>9, <1>11, <1>12, <1>13, <1>14, <1>15, <1>16, <1>17,
           <1>18, <1>19 DEF Next

\* What is alive or has succeeded without being new was so before, with its node and group.
LEMMA ContinuingJoins ==
  ASSUME Continuing \/ Starting
  PROVE  \A b \in LiveActs' \cup With("succeeded")' :
           /\ b \in LiveActs \cup With("succeeded")
           /\ act'[b].node = act[b].node /\ act'[b].group = act[b].group
<1>1. CASE Continuing
  BY <1>1 DEF Continuing, Continues, Frame, LiveActs, With, Live
<1>2. CASE Starting
  BY <1>2 DEF Starting, Starts, LiveActs, With, Live
<1> QED BY <1>1, <1>2

LEMMA NoSuccessJoins ==
  ASSUME JoinsSettle, NoSuccess, Continuing \/ Starting
  PROVE  JoinsSettle'
<1>1. With("succeeded")' \subseteq With("succeeded")
  BY DEF NoSuccess, With
<1> QED BY <1>1, ContinuingJoins DEF JoinsSettle, IsJoin, NodeOf

LEMMA EndingJoins ==
  ASSUME JoinsSettle, Ending
  PROVE  JoinsSettle'
<1>1. PICK x \in LiveActs : \A b \in Act \ {x} : act'[b].status = "succeeded" => act[b].status = "succeeded"
  BY DEF Ending
<1>2. Continuing /\ LiveActs' = {}
  BY DEF Ending
<1>3. \A b \in With("succeeded")' : b = x \/ b \in With("succeeded")
  BY <1>1 DEF With
<1> QED BY <1>2, <1>3, ContinuingJoins DEF JoinsSettle, IsJoin, NodeOf

\* A routed commit: a Join that fires cancels the members it coalesces, and creates
\* none for a Join that fired.
LEMMA RoutingJoins ==
  ASSUME JoinsAreEntered, TypeInv, JoinsSettle, Routing
  PROVE  JoinsSettle'
<1>1. PICK i \in Intent, r \in Graph.routes : \E f : CommitRoute(i, r, f)
  BY DEF Routing
<1>2. PICK f : CommitRoute(i, r, f)
  BY <1>1
<1> DEFINE x == i.act
           group == ForkGroup(x, r)
           targets == {n \in r.to : ~AlreadyJoined(n, group)}
           dropped == Coalesced(x)
<1>3. /\ x \in LiveActs /\ r.from = act[x].node
      /\ \/ act' = Settling(x, "succeeded", LiveActs \ {x})
         \/ \E st \in Settled : f \in Births(targets) /\ act' = Spawning(Settling(x, st, dropped), f, version', r, group)
  BY <1>2, RoutedRows
<1>4. dropped \subseteq LiveActs /\ x \notin dropped /\ x \in Act /\ act[x].status \in Live
  BY <1>3 DEF Coalesced, LiveActs
<1>5. \A b \in LiveActs \ {x} : IsJoin(x) /\ act[b].node = act[x].node /\ act[b].group = act[x].group
                                  => b \in dropped
  BY DEF Coalesced
<1>6. \A n \in targets : n \in r.to /\ ~AlreadyJoined(n, group)
  OBVIOUS
<1> HIDE DEF x, group, targets, dropped
<1>7. CASE act' = Settling(x, "succeeded", LiveActs \ {x})
  BY <1>3, <1>7, ClosingEnds, EndingJoins DEF Settled
<1>8. ASSUME NEW st \in Settled, f \in Births(targets),
             act' = Spawning(Settling(x, st, dropped), f, version', r, group)
      PROVE  JoinsSettle'
  <2> DEFINE acts == Settling(x, st, dropped)
  <2>1. /\ \A b \in Act : Continues(act[b], acts[b])
        /\ \A b \in dropped : acts[b].status = "cancelled"
        /\ \A b \in Act \ (dropped \cup {x}) : acts[b] = act[b]
    BY <1>3, <1>4, SettlingRows
  <2>2. act' = Spawning(acts, f, version', r, group)
    BY <1>8
  <2> HIDE DEF acts
  <2>3. \A b \in Act :
          \/ act'[b] = acts[b]
          \/ \E n \in targets : act'[b] = NewActivation(n, version', r.id, group)
    <3>1. \A b \in Act :
            \/ act'[b] = acts[b]
            \/ \E n \in targets : /\ f[n] = b /\ act[b].status = "unborn"
                                  /\ act'[b] = NewActivation(n, version', r.id, group)
      BY <1>8, <2>2, SpawnedRows
    <3> QED BY <3>1
  <2>4. \A n : /\ NewActivation(n, version', r.id, group).node = n
               /\ NewActivation(n, version', r.id, group).group = group
               /\ NewActivation(n, version', r.id, group).status = "ready"
    BY DEF NewActivation, Unborn
  <2>5. ASSUME NEW b \in LiveActs' \cup With("succeeded")', act'[b] = acts[b]
        PROVE  /\ act'[b].node = act[b].node /\ act'[b].group = act[b].group
               /\ b \in LiveActs \cup With("succeeded") /\ b \notin dropped
               /\ b # x => act'[b] = act[b]
    BY <2>1, <2>5 DEF Continues, Frame, LiveActs, With, Live
  <2>6. SUFFICES ASSUME NEW a \in With("succeeded")', NEW b \in LiveActs' \cup With("succeeded")',
                        Graph.nodes[act'[a].node].type = "join",
                        act'[b].node = act'[a].node, act'[b].group = act'[a].group
                 PROVE  a = b
    BY DEF JoinsSettle, IsJoin, NodeOf
  <2>7. a \in Act /\ b \in Act /\ act'[a].status = "succeeded"
    BY DEF With, LiveActs
  <2>8. act'[a] = acts[a]
    BY <2>3, <2>4, <2>7
  <2>9. /\ act'[a].node = act[a].node /\ act'[a].group = act[a].group
        /\ a # x => a \in With("succeeded")
    <3>1. a \in LiveActs' \cup With("succeeded")'
      OBVIOUS
    <3> QED BY <2>5, <2>7, <2>8, <3>1 DEF With
  <2>10. CASE act'[b] = acts[b]
    <3>1. /\ b \in LiveActs \cup With("succeeded") /\ b \notin dropped
          /\ act'[b].node = act[b].node /\ act'[b].group = act[b].group
      BY <2>5, <2>10
    <3>2. act[b].node = act[a].node /\ act[b].group = act[a].group /\ Graph.nodes[act[a].node].type = "join"
      BY <2>6, <2>9, <3>1
    <3>3. CASE a # x
      BY <2>9, <3>2, <3>1, <3>3 DEF JoinsSettle, IsJoin, NodeOf
    <3>4. CASE a = x
      <4>1. b \in LiveActs => b = x
        BY <1>5, <3>2, <3>1, <3>4 DEF IsJoin, NodeOf
      <4>2. b \in With("succeeded") => b = x
        BY <1>3, <3>2, <3>4 DEF JoinsSettle, IsJoin, NodeOf
      <4> QED BY <3>1, <3>4, <4>1, <4>2
    <3> QED BY <3>3, <3>4
  <2>11. ASSUME NEW n \in targets, act'[b] = NewActivation(n, version', r.id, group) PROVE FALSE
    <3>1. act'[b].node = n /\ act'[b].group = group
      BY <2>4, <2>11
    <3>2. act[a].node = n /\ act[a].group = group /\ Graph.nodes[n].type = "join"
      BY <2>6, <2>9, <3>1
    <3>3. CASE a = x
      BY <1>3, <1>6, <3>2, <3>3 DEF JoinsAreEntered
    <3>4. CASE a # x
      BY <1>6, <2>9, <3>2, <3>4 DEF AlreadyJoined
    <3> QED BY <3>3, <3>4
  <2> QED BY <2>3, <2>7, <2>10, <2>11
<1> QED BY <1>3, <1>7, <1>8

\* The resumption of a paused Terminal creates no Join.
LEMMA LeavingJoins ==
  ASSUME JoinsAreEntered, TypeInv, JoinsSettle, Leaving
  PROVE  JoinsSettle'
<1>1. PICK x \in ResumableTerminals, r \in Graph.routes : \E f : ResumePausedTerminal(x, r, f)
  BY DEF Leaving
<1>2. PICK f : ResumePausedTerminal(x, r, f)
  BY <1>1
<1> DEFINE left == [act[x] EXCEPT !.resumed = TRUE]
<1>3. x \in Act /\ act[x].status = "succeeded" /\ Row(act[x]) /\ Graph.nodes[act[x].node].type = "terminal"
  BY DEF ResumableTerminals, With, TypeInv, NodeOf
<1>4. r.from = act[x].node
  BY <1>2 DEF ResumePausedTerminal, Candidates
<1>5. Continues(act[x], left) /\ left.status = "succeeded"
  BY <1>3, LeftContinues DEF Row, ActivationRecord
<1> HIDE DEF left
<1>6. CASE act' = [Cancelling(LiveActs) EXCEPT ![x].resumed = TRUE]
  <2> DEFINE c == Cancelling(LiveActs)
  <2>1. /\ c = [b \in Act |-> c[b]]
        /\ \A b \in Act : Continues(act[b], c[b])
        /\ \A b \in LiveActs : c[b].status = "cancelled"
        /\ \A b \in Act \ LiveActs : c[b] = act[b]
    BY CancellingRows
  <2>2. act' = [c EXCEPT ![x].resumed = TRUE] /\ x \notin LiveActs
    BY <1>3, <1>6 DEF LiveActs, Live
  <2> HIDE DEF c
  <2>3. act'[x] = left /\ \A b \in Act \ {x} : act'[b] = c[b]
    BY <1>3, <2>1, <2>2 DEF left
  <2>4. Continuing
    BY <1>5, <2>1, <2>3 DEF Continuing
  <2>5. NoSuccess
    BY <1>3, <2>1, <2>3 DEF NoSuccess
  <2> QED BY <2>4, <2>5, NoSuccessJoins
<1>7. ASSUME f \in Births(r.to),
             act' = Spawning([act EXCEPT ![x].resumed = TRUE], f, version', r, ForkGroup(x, r))
      PROVE  JoinsSettle'
  <2> DEFINE acts == [act EXCEPT ![x].resumed = TRUE]
             group == ForkGroup(x, r)
  <2>1. acts[x] = left /\ \A b \in Act \ {x} : acts[b] = act[b]
    BY <1>3 DEF TypeInv, TypeOK, left
  <2>2. \A b \in Act : Continues(act[b], acts[b])
    BY <1>5, <2>1, SameContinues DEF TypeInv
  <2>3. act' = Spawning(acts, f, version', r, group) /\ f \in Births(r.to)
    BY <1>7
  <2> HIDE DEF acts, group
  <2>4. \A b \in Act :
          \/ act'[b] = acts[b]
          \/ \E n \in r.to : act'[b] = NewActivation(n, version', r.id, group)
    <3>1. \A b \in Act :
            \/ act'[b] = acts[b]
            \/ \E n \in r.to : /\ f[n] = b /\ act[b].status = "unborn"
                               /\ act'[b] = NewActivation(n, version', r.id, group)
      BY <2>3, SpawnedRows
    <3> QED BY <3>1
  <2>5. \A n : /\ NewActivation(n, version', r.id, group).node = n
               /\ NewActivation(n, version', r.id, group).status = "ready"
    BY DEF NewActivation, Unborn
  <2>6. ASSUME NEW b \in LiveActs' \cup With("succeeded")', act'[b] = acts[b]
        PROVE  /\ act'[b].node = act[b].node /\ act'[b].group = act[b].group
               /\ b \in LiveActs \cup With("succeeded")
               /\ act'[b].status = "succeeded" => b \in With("succeeded")
    BY <1>3, <1>5, <2>1, <2>2, <2>6 DEF Continues, Frame, LiveActs, With, Live
  <2>7. SUFFICES ASSUME NEW a \in With("succeeded")', NEW b \in LiveActs' \cup With("succeeded")',
                        Graph.nodes[act'[a].node].type = "join",
                        act'[b].node = act'[a].node, act'[b].group = act'[a].group
                 PROVE  a = b
    BY DEF JoinsSettle, IsJoin, NodeOf
  <2>8. a \in Act /\ b \in Act /\ act'[a].status = "succeeded"
    BY DEF With, LiveActs
  <2>9. act'[a] = acts[a]
    BY <2>4, <2>5, <2>8
  <2>10. act'[b] = acts[b]
    <3>1. \A n \in r.to : Graph.nodes[n].type # "join"
      BY <1>3, <1>4 DEF JoinsAreEntered
    <3>2. ASSUME NEW n \in r.to, act'[b] = NewActivation(n, version', r.id, group) PROVE FALSE
      <4>1. act'[b].node = n
        BY <2>5, <3>2
      <4> QED BY <2>7, <3>1, <4>1
    <3> QED BY <2>4, <2>8, <3>2
  <2>11. /\ a \in With("succeeded") /\ b \in LiveActs \cup With("succeeded")
         /\ act'[a].node = act[a].node /\ act'[a].group = act[a].group
         /\ act'[b].node = act[b].node /\ act'[b].group = act[b].group
    <3>1. a \in LiveActs' \cup With("succeeded")'
      OBVIOUS
    <3> QED BY <2>6, <2>8, <2>9, <2>10, <3>1
  <2> QED BY <2>7, <2>11 DEF JoinsSettle, IsJoin, NodeOf
<1> QED BY <1>2, <1>6, <1>7 DEF ResumePausedTerminal

\* In whatever order the members of a fork group arrive, wait, time out, are released
\* and re-executed, their Join fires once (the coalescing of executeJoin and commit in
\* NodeExecutors.ts and CommitCoordinator.ts).
THEOREM JoinsFireOnce ==
  ASSUME JoinsAreEntered
  PROVE  Spec => []JoinsOnce
<1>1. Init => JoinsSettle
  BY NothingRunsAtFirst DEF JoinsSettle
<1>2. Inv /\ JoinsSettle /\ [Next]_storeVars => JoinsSettle'
  <2> SUFFICES ASSUME Inv, JoinsSettle, [Next]_storeVars PROVE JoinsSettle'
    OBVIOUS
  <2>1. CASE Routing
    BY <2>1, RoutingJoins DEF Inv
  <2>2. CASE Leaving
    BY <2>2, LeavingJoins DEF Inv
  <2>3. CASE Next /\ ~Routing /\ ~Leaving
    BY <2>3, NextKinds, NextSuccess, NoSuccessJoins, EndingJoins
  <2>4. CASE UNCHANGED storeVars
    BY <2>4 DEF storeVars, JoinsSettle, With, LiveActs, IsJoin, NodeOf
  <2> QED BY <2>1, <2>2, <2>3, <2>4
<1>3. JoinsSettle => JoinsOnce
  BY DEF JoinsSettle, JoinsOnce
<1> QED BY InitInv, StepInv, <1>1, <1>2, <1>3, PTL DEF Spec

=============================================================================
