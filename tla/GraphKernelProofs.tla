-------------------------- MODULE GraphKernelProofs --------------------------
(***************************************************************************)
(* Theorems about GraphKernel, for every graph and any number of           *)
(* schedulers: every step of a tick, an operator or an event source is a   *)
(* transaction of GraphStore or touches nothing durable, so the theorems   *)
(* about the store hold of it; and a segment's output is committed to a    *)
(* serializable State only if it was computed from that very State.        *)
(*                                                                         *)
(* The second rests on what a scheduler still knows after its snapshot: a  *)
(* claim that nobody has taken over was made at a State no newer than the  *)
(* one its wave has read, and so was the intent prepared under it.         *)
(***************************************************************************)
EXTENDS GraphKernel, GraphStoreProofs

USE KernelAssumption

Results == AgentResult \cup Outcome \cup {None}
WorkRec == [st: {"none", "held", "exec", "finish", "commit"}, tok: Nat, read: Nat,
            leader: BOOLEAN, result: Results, usage: Nat, intent: Intent \cup {None}]
Arrived == NodeId \X Seq(Act \X RouteId)
Commands == {"none", "resume", "resumeTerminal", "delivered", "activate"}

KernelTypes ==
  /\ pc \in [Scheduler -> Pc]
  /\ clock \in [Scheduler -> SUBSET Stamps]
  /\ todo \in [Scheduler -> SUBSET Intent]
  /\ work \in [Scheduler -> [Act -> WorkRec]]
  /\ signals \in [Scheduler -> SUBSET Arrived]
  /\ seen \in [Scheduler -> InstanceStatus]
  /\ op \in Commands
  /\ ops \in 0..MaxOperations

\* An intent was computed from a State no older than its claim, and no newer than v.
IntentSound(i, v) == i.ver <= i.read /\ i.read <= v

\* What scheduler memory w says of the activation `row' at State version v.
WorkSound(w, row, v) ==
  /\ w.st # "none" => 0 < w.tok /\ w.tok <= row.seg
  /\ w.st \in {"exec", "finish"} => w.read <= v /\ (row.seg = w.tok => row.ver <= w.read)
  /\ w.st = "commit" => w.intent \in Intent /\ IntentSound(w.intent, v)

\* The lease of a running activation is that of its latest segment, and its claim is
\* of a State that has been.
Leased(row, v) == (row.status = "running" => row.lease = row.seg) /\ row.ver <= v

Known ==
  /\ \A a \in Act : Leased(act[a], version)
  /\ \A s \in Scheduler, a \in Act : WorkSound(work[s][a], act[a], version)
  /\ \A s \in Scheduler : \A i \in todo[s] : IntentSound(i, version)
  /\ \A i \in prepared : IntentSound(i, version)

KernelInv == Inv /\ KernelTypes /\ Known

-----------------------------------------------------------------------------
(* What any transaction does to an activation and the State version. *)

\* row moves to new while the State moves from v to v2.
Moves(row, new, v, v2) ==
  /\ v <= v2 /\ row.seg <= new.seg
  /\ new.seg = row.seg /\ row.seg > 0 => new.ver = row.ver
  /\ Leased(row, v) => Leased(new, v2)

LEMMA VersionMoves ==
  ASSUME TypeInv, Next
  PROVE  version' \in {version, version + 1}
<1>1. ASSUME NEW i, Commit(i) PROVE version' \in {version, version + 1}
  BY <1>1 DEF Commit, CommitReplay, CommitTerminal, CommitRoute, CommitUnrouted, NextVersion
<1>2. ASSUME Resume PROVE version' \in {version, version + 1}
  BY <1>2 DEF Resume, ResumePausedTerminal, ResumeFails, NextVersion
<1>3. ASSUME NEW st, SetStatus(st) PROVE version' = version
  BY <1>3 DEF SetStatus, storeVars
<1>4. ASSUME NEW a, NEW tok, NEW usage,
             \/ \E timer \in {"none", "armed"}, e \in Event \cup {"join", None} : Park(a, tok, timer, e, usage)
             \/ \E consume, delay \in BOOLEAN : Retry(a, tok, consume, delay, usage)
             \/ Block(a, tok, usage) \/ FailStop(a, tok, usage)
      PROVE  version' = version
  BY <1>4 DEF Park, Retry, Block, FailStop, Release
<1>5. ASSUME \/ \E S \in SUBSET Act : ClaimReady(S) \/ ReleaseExpired(S)
             \/ \E i \in Intent : PrepareCommit(i)
             \/ \E signal \in {None} \cup (NodeId \X Seq(Act \X RouteId)), D \in SUBSET Act : ResumeDue(signal, D)
             \/ ReconcileWaitingJoins
             \/ \E e \in Event : RecordExternalEvent(e)
             \/ ResumePendingExternalEvents
             \/ \E X \in SUBSET Event : ExpireStaleExternalEvents(X)
             \/ \E a \in Act : TimerFires(a)
      PROVE  version' = version
  BY <1>5 DEF ClaimReady, ReleaseExpired, PrepareCommit, ResumeDue, ReconcileWaitingJoins,
              RecordExternalEvent, ResumePendingExternalEvents, ExpireStaleExternalEvents, TimerFires
<1> QED BY <1>1, <1>2, <1>3, <1>4, <1>5 DEF Next

LEMMA StoreMoves ==
  ASSUME Inv, [Next]_storeVars
  PROVE  /\ Inv' /\ version \in Nat /\ version' \in Nat
         /\ \A a \in Act : /\ act[a] \in ActivationRecord /\ act'[a] \in ActivationRecord
                           /\ Moves(act[a], act'[a], version, version')
<1>1. Inv' /\ version \in Nat /\ version' \in Nat
  BY StepInv DEF Inv, TypeInv, TypeOK
<1>2. \A a \in Act : Row(act[a]) /\ Row(act'[a])
  BY <1>1 DEF Inv, TypeInv
<1>3. CASE UNCHANGED storeVars
  BY <1>1, <1>2, <1>3 DEF storeVars, Moves, Row, ActivationRecord
<1>4. CASE Next
  <2>1. version <= version'
    BY <1>1, <1>4, VersionMoves DEF Inv
  <2>2. ASSUME NEW row \in ActivationRecord, NEW new \in ActivationRecord, Continues(row, new)
        PROVE  Moves(row, new, version, version')
    <3>1. row.seg \in Nat /\ row.ver \in Nat /\ new.seg = row.seg /\ new.ver = row.ver
      BY <2>2 DEF Continues, Frame, ActivationRecord
    <3>2. new.status = "running" => row.status = "running" /\ new.lease = row.lease
      BY <2>2 DEF Continues
    <3> QED BY <1>1, <2>1, <3>1, <3>2 DEF Moves, Leased
  <2>3. ASSUME NEW row \in ActivationRecord, NEW new \in ActivationRecord, Begins(row, new), Row(row)
        PROVE  Moves(row, new, version, version')
    BY <1>1, <2>1, <2>3 DEF Begins, Row, Moves, Leased
  <2>4. ASSUME NEW row \in ActivationRecord, NEW new \in ActivationRecord, Starts(row, new)
        PROVE  Moves(row, new, version, version')
    <3>1. row.seg \in Nat /\ new.seg = row.seg + 1 /\ new.lease = row.seg + 1 /\ new.ver = version
      BY <2>4 DEF Starts, ActivationRecord
    <3> QED BY <1>1, <2>1, <3>1 DEF Moves, Leased
  <2>5. ASSUME NEW a \in Act PROVE Moves(act[a], act'[a], version, version')
    <3>1. act[a] \in ActivationRecord /\ act'[a] \in ActivationRecord /\ Row(act[a])
      BY <1>2 DEF Row
    <3>2. \/ Continues(act[a], act'[a]) \/ Begins(act[a], act'[a]) \/ Starts(act[a], act'[a])
      <4>1. Evolving \/ Starting
        BY <1>4, NextInv
      <4>2. Continues(act[a], act[a])
        BY <3>1, SameContinues
      <4> QED BY <4>1, <4>2 DEF Evolving, Starting
    <3> QED BY <2>2, <2>3, <2>4, <3>1, <3>2
  <2> QED BY <1>1, <1>2, <2>5 DEF Row
<1> QED BY <1>3, <1>4

\* What is known of an activation stays so while it moves.
LEMMA WorkKept ==
  ASSUME NEW w \in WorkRec, NEW row \in ActivationRecord, NEW new \in ActivationRecord,
         NEW v \in Nat, NEW v2 \in Nat, Moves(row, new, v, v2), WorkSound(w, row, v)
  PROVE  WorkSound(w, new, v2)
<1>1. /\ w.tok \in Nat /\ w.read \in Nat /\ row.seg \in Nat /\ new.seg \in Nat /\ row.ver \in Nat
      /\ new.ver \in Nat
  BY DEF WorkRec, ActivationRecord
<1>2. w.st # "none" => 0 < w.tok /\ w.tok <= new.seg
  BY <1>1 DEF WorkSound, Moves
<1>3. w.st \in {"exec", "finish"} => w.read <= v2 /\ (new.seg = w.tok => new.ver <= w.read)
  BY <1>1 DEF WorkSound, Moves
<1>4. w.st = "commit" => w.intent \in Intent /\ IntentSound(w.intent, v2)
  BY DEF WorkSound, Moves, IntentSound, Intent
<1> QED BY <1>2, <1>3, <1>4 DEF WorkSound

LEMMA NoWorkSound ==
  /\ NoWork \in WorkRec
  /\ \A row, v : WorkSound(NoWork, row, v)
BY DEF NoWork, WorkRec, WorkSound, Results

\* A step of the kernel keeps what is known, if it learns only what is so.
LEMMA KernelKept ==
  ASSUME KernelInv, [Next]_storeVars, KernelTypes',
         \A s \in Scheduler, a \in Act : \/ work'[s][a] \in {work[s][a], NoWork}
                                         \/ WorkSound(work'[s][a], act'[a], version'),
         \A s \in Scheduler : todo'[s] \subseteq todo[s] \cup prepared,
         \A i \in prepared' : i \in prepared \/ IntentSound(i, version)
  PROVE  KernelInv'
<1>1. /\ Inv' /\ version \in Nat /\ version' \in Nat
      /\ \A a \in Act : /\ act[a] \in ActivationRecord /\ act'[a] \in ActivationRecord
                        /\ Moves(act[a], act'[a], version, version')
  BY StoreMoves DEF KernelInv
<1>2. \A a \in Act : Leased(act'[a], version')
  BY <1>1 DEF KernelInv, Known, Moves
<1>3. ASSUME NEW s \in Scheduler, NEW a \in Act PROVE WorkSound(work'[s][a], act'[a], version')
  <2>1. work[s][a] \in WorkRec /\ WorkSound(work[s][a], act[a], version)
    BY DEF KernelInv, KernelTypes, Known
  <2>2. WorkSound(work[s][a], act'[a], version')
    BY <1>1, <2>1, WorkKept
  <2> QED BY <2>2, NoWorkSound
<1>4. ASSUME NEW i \in Intent, IntentSound(i, version) PROVE IntentSound(i, version')
  <2>1. version <= version' \/ Act = {}
    BY <1>1 DEF Moves
  <2>2. i.act \in Act /\ i.ver \in Nat /\ i.read \in Nat
    BY DEF Intent
  <2> QED BY <1>1, <1>4, <2>1, <2>2 DEF IntentSound
<1>5. \A s \in Scheduler : \A i \in todo'[s] : IntentSound(i, version')
  <2>1. \A s \in Scheduler : \A i \in todo[s] \cup prepared : i \in Intent /\ IntentSound(i, version)
    BY DEF KernelInv, KernelTypes, Known, Inv, TypeInv, TypeOK
  <2> QED BY <1>4, <2>1
<1>6. \A i \in prepared' : IntentSound(i, version')
  <2>1. prepared' \subseteq Intent
    BY <1>1 DEF Inv, TypeInv, TypeOK
  <2>2. \A i \in prepared : IntentSound(i, version)
    BY DEF KernelInv, Known
  <2> QED BY <1>4, <2>1, <2>2
<1> QED BY <1>1, <1>2, <1>3, <1>5, <1>6 DEF KernelInv, Known

-----------------------------------------------------------------------------
(* The steps of the kernel: each is a step of the store, and keeps KernelInv. *)

LEMMA KernelFacts ==
  ASSUME KernelInv
  PROVE  /\ Inv /\ TypeInv /\ KernelTypes /\ Known
         /\ \A a \in Act : act[a] \in ActivationRecord /\ Row(act[a])
         /\ prepared \subseteq Intent /\ status \in InstanceStatus /\ version \in Nat
BY DEF KernelInv, Inv, TypeInv, TypeOK, Row

\* Of a held activation the scheduler knows that it exists, and of what kind it is.
LEMMA HeldFacts ==
  ASSUME KernelInv, NEW s \in Scheduler, NEW a \in Act, work[s][a].st # "none"
  PROVE  /\ work[s][a] \in WorkRec /\ WorkSound(work[s][a], act[a], version)
         /\ act[a] \in ActivationRecord /\ act[a].node \in NodeId
         /\ work[s][a].tok \in Nat /\ work[s][a].read \in Nat /\ work[s][a].usage \in Nat
         /\ NodeOf(a).type \in NodeType /\ NodeOf(a).event \in Event \cup {None}
<1>1. work[s][a] \in WorkRec /\ WorkSound(work[s][a], act[a], version)
  BY DEF KernelInv, KernelTypes, Known
<1>2. act[a] \in ActivationRecord /\ Row(act[a])
  BY KernelFacts
<1>3. act[a].seg # 0
  <2>1. work[s][a].tok \in Nat /\ act[a].seg \in Nat
    BY <1>1, <1>2 DEF WorkRec, ActivationRecord
  <2> QED BY <1>1, <2>1 DEF WorkSound
<1>4. act[a].node \in NodeId
  BY <1>2, <1>3 DEF Row
<1>5. NodeOf(a).type \in NodeType /\ NodeOf(a).event \in Event \cup {None}
  BY <1>4, GraphAssumption DEF NodeOf
<1> QED BY <1>1, <1>2, <1>4, <1>5 DEF WorkRec

\* A step of one scheduler that changes nothing durable.
LEMMA QuietStep ==
  ASSUME KernelInv, UNCHANGED storeVars, KernelTypes',
         \A s \in Scheduler, a \in Act : \/ work'[s][a] \in {work[s][a], NoWork}
                                         \/ WorkSound(work'[s][a], act[a], version),
         \A s \in Scheduler : todo'[s] \subseteq todo[s] \cup prepared
  PROVE  KernelInv' /\ [Next]_storeVars
BY KernelKept DEF storeVars

\* A transaction by whoever keeps its memory, or forgets some of it.
LEMMA LentStep ==
  ASSUME KernelInv, Next, KernelTypes', UNCHANGED work,
         \A s \in Scheduler : todo'[s] \subseteq todo[s] \cup prepared,
         prepared' \subseteq prepared
  PROVE  KernelInv' /\ [Next]_storeVars
BY KernelKept

LEMMA StartOver ==
  ASSUME KernelInv, NEW s \in Scheduler, Forgets(s)
  PROVE  /\ pc' \in [Scheduler -> Pc] /\ clock' \in [Scheduler -> SUBSET Stamps]
         /\ todo' \in [Scheduler -> SUBSET Intent] /\ work' \in [Scheduler -> [Act -> WorkRec]]
         /\ signals' \in [Scheduler -> SUBSET Arrived] /\ seen' \in [Scheduler -> InstanceStatus]
         /\ \A q \in Scheduler, a \in Act : work'[q][a] \in {work[q][a], NoWork}
         /\ \A q \in Scheduler : todo'[q] \subseteq todo[q]
<1>1. KernelTypes
  BY KernelFacts
<1>2. "idle" \in Pc /\ "active" \in InstanceStatus /\ [a \in Act |-> NoWork] \in [Act -> WorkRec]
  BY NoWorkSound DEF Pc, InstanceStatus
<1> QED BY <1>1, <1>2 DEF Forgets, Go, KernelTypes

LEMMA ForgottenTypes ==
  ASSUME KernelInv, NEW s \in Scheduler, Forgotten(s)
  PROVE  /\ KernelTypes'
         /\ \A q \in Scheduler, a \in Act : work'[q][a] \in {work[q][a], NoWork}
         /\ \A q \in Scheduler : todo'[q] \subseteq todo[q]
<1>1. op \in Commands /\ ops \in 0..MaxOperations
  BY KernelFacts DEF KernelTypes
<1>2. UNCHANGED <<op, ops>> /\ Forgets(s)
  BY DEF Forgotten
<1> QED BY <1>1, <1>2, StartOver DEF KernelTypes

LEMMA GoTypes ==
  ASSUME KernelTypes, NEW s \in Scheduler, NEW to \in Pc, Go(s, to)
  PROVE  pc' \in [Scheduler -> Pc]
BY DEF Go, KernelTypes

LEMMA LocalTypes ==
  ASSUME KernelTypes, pc' \in [Scheduler -> Pc], UNCHANGED local
  PROVE  KernelTypes'
BY DEF KernelTypes, local

\* Every step that moves a scheduler on, and leaves its memory alone.
LEMMA MoveOn ==
  ASSUME KernelInv, [Next]_storeVars, pc' \in [Scheduler -> Pc], UNCHANGED local,
         prepared' \subseteq prepared
  PROVE  KernelInv'
<1>1. KernelTypes'
  BY KernelFacts, LocalTypes
<1>2. UNCHANGED <<work, todo>>
  BY DEF local
<1> QED BY <1>1, <1>2, KernelKept

LEMMA CrashStep ==
  ASSUME KernelInv, NEW s \in Scheduler, Crash(s)
  PROVE  KernelInv' /\ [Next]_storeVars
<1>1. Forgets(s) /\ UNCHANGED op /\ UNCHANGED storeVars /\ ops' = ops + 1 /\ ops < MaxOperations
  BY DEF Crash
<1>2. op \in Commands /\ ops \in 0..MaxOperations
  BY KernelFacts DEF KernelTypes
<1>3. ops' \in 0..MaxOperations
  BY <1>1, <1>2
<1>4. KernelTypes'
  BY <1>1, <1>2, <1>3, StartOver DEF KernelTypes
<1> QED BY <1>1, <1>4, StartOver, QuietStep

LEMMA TickStartStep ==
  ASSUME KernelInv, NEW s \in Scheduler, TickStart(s)
  PROVE  KernelInv' /\ [Next]_storeVars
<1>1. KernelTypes /\ TypeInv /\ prepared \subseteq Intent
  BY KernelFacts
<1>2. \A a \in With("running") \cup Due : Stamp(a) \in Stamps
  BY <1>1 DEF Due, With, Stamp, Stamps, TypeInv, Row, ActivationRecord, Live
<1>3. pc' \in [Scheduler -> Pc]
  BY <1>1, GoTypes DEF TickStart, Pc
<1> DEFINE looked == {Stamp(a) : a \in With("running") \cup Due}
<1>4. looked \in SUBSET Stamps /\ clock' = [clock EXCEPT ![s] = looked] /\ todo' = [todo EXCEPT ![s] = prepared]
      /\ UNCHANGED <<work, signals, seen, op, ops, storeVars>>
  BY <1>2 DEF TickStart
<1> HIDE DEF looked
<1>5. KernelTypes'
  BY <1>1, <1>3, <1>4 DEF KernelTypes
<1>6. \A q \in Scheduler : todo'[q] \subseteq todo[q] \cup prepared
  BY <1>1, <1>4 DEF KernelTypes
<1> QED BY <1>4, <1>5, <1>6, QuietStep

\* The Joins that a transaction reaches have a node and a fork group.
LEMMA ArrivalTypes ==
  ASSUME KernelInv, Next, NEW s \in Scheduler, Announce(s)
  PROVE  signals' \in [Scheduler -> SUBSET Arrived]
<1>1. Inv' /\ KernelTypes
  BY StoreMoves, KernelFacts
<1>2. \A a \in Act : Row(act'[a])
  BY <1>1 DEF Inv, TypeInv
<1>3. Arrivals \in SUBSET Arrived
  BY <1>2 DEF Arrivals, Arrived, Row, ActivationRecord
<1> QED BY <1>1, <1>3 DEF Announce, KernelTypes

LEMMA CommitPrepared ==
  ASSUME NEW i, Commit(i)
  PROVE  prepared' \subseteq prepared
BY DEF Commit, CommitReplay, CommitTerminal, CommitRoute, CommitUnrouted, Record, Forget

LEMMA RecoverSteps ==
  ASSUME KernelInv, NEW s \in Scheduler, NEW i \in todo[s], RecoverIntent(s, i) \/ RecoverThrows(s, i)
  PROVE  KernelInv' /\ [Next]_storeVars
<1>1. KernelTypes /\ i \in Intent
  BY KernelFacts DEF KernelTypes
<1>2. CASE RecoverThrows(s, i)
  BY <1>2, ForgottenTypes, QuietStep DEF RecoverThrows
<1>3. CASE RecoverIntent(s, i)
  <2>1. todo' = [todo EXCEPT ![s] = @ \ {i}] /\ UNCHANGED <<pc, clock, work, seen, op, ops>>
    BY <1>3 DEF RecoverIntent
  <2>2. \A q \in Scheduler : todo'[q] \subseteq todo[q]
    BY <1>1, <2>1 DEF KernelTypes
  <2>3. todo' \in [Scheduler -> SUBSET Intent]
    BY <1>1, <2>1 DEF KernelTypes
  <2>4. CASE Commit(i) /\ Announce(s)
    <3>1. Next
      BY <1>1, <2>4 DEF Next
    <3>2. KernelTypes'
      BY <1>1, <2>1, <2>3, <2>4, <3>1, ArrivalTypes DEF KernelTypes
    <3> QED BY <2>1, <2>2, <2>4, <3>1, <3>2, CommitPrepared, LentStep
  <2>5. CASE UNCHANGED <<storeVars, signals>>
    <3>1. KernelTypes'
      BY <1>1, <2>1, <2>3, <2>5 DEF KernelTypes
    <3> QED BY <2>1, <2>2, <2>5, <3>1, QuietStep
  <2> QED BY <1>3, <2>4, <2>5 DEF RecoverIntent
<1> QED BY <1>2, <1>3

LEMMA NotifyStep ==
  ASSUME KernelInv, NEW s \in Scheduler, NEW signal \in signals[s], NotifyJoin(s, signal)
  PROVE  KernelInv' /\ [Next]_storeVars
<1>1. KernelTypes /\ signal \in Arrived
  BY KernelFacts DEF KernelTypes
<1>2. PICK D : ResumeDue(signal, D)
  BY DEF NotifyJoin
<1>3. D \subseteq Act /\ prepared' = prepared
  BY <1>2 DEF ResumeDue, Due, With
<1>4. Next
  BY <1>1, <1>2, <1>3 DEF Next, Arrived
<1>5. signals' = [signals EXCEPT ![s] = @ \ {signal}] /\ UNCHANGED <<pc, clock, todo, work, seen, op, ops>>
  BY DEF NotifyJoin
<1>6. KernelTypes'
  BY <1>1, <1>5 DEF KernelTypes
<1> QED BY <1>3, <1>4, <1>5, <1>6, LentStep

\* Steps that move a scheduler on without a transaction, or end its tick.
LEMMA PlainSteps ==
  ASSUME KernelInv, NEW s \in Scheduler, RecoverEnd(s) \/ WaveEnd(s)
  PROVE  KernelInv' /\ [Next]_storeVars
<1>1. UNCHANGED storeVars
  BY DEF RecoverEnd, WaveEnd, storeVars
<1>2. CASE Forgotten(s)
  BY <1>1, <1>2, ForgottenTypes, QuietStep
<1>3. CASE ~Forgotten(s)
  <2>1. PICK to \in Pc : Go(s, to) /\ UNCHANGED local
    BY <1>3 DEF RecoverEnd, WaveEnd, AfterWave, Pc
  <2>2. pc' \in [Scheduler -> Pc]
    BY <2>1, GoTypes, KernelFacts
  <2>3. [Next]_storeVars /\ prepared' \subseteq prepared
    BY <1>1 DEF storeVars
  <2> QED BY <2>1, <2>2, <2>3, MoveOn
<1> QED BY <1>2, <1>3

\* The housekeeping transactions.
LEMMA HousekeepingSteps ==
  ASSUME KernelInv, NEW s \in Scheduler,
         \/ \E E \in SUBSET With("running") : ReleaseClaims(s, E)
         \/ ExpireEvents(s) \/ DrainInbox(s) \/ ReconcileJoins(s)
  PROVE  KernelInv' /\ [Next]_storeVars
<1>1. Next /\ prepared' \subseteq prepared
  <2>1. ASSUME NEW E \in SUBSET With("running"), ReleaseClaims(s, E) PROVE Next /\ prepared' \subseteq prepared
    <3>1. ReleaseExpired(E) /\ E \in SUBSET Act
      BY <2>1 DEF ReleaseClaims, With
    <3> QED BY <3>1 DEF Next, ReleaseExpired
  <2>2. ASSUME ExpireEvents(s) PROVE Next /\ prepared' \subseteq prepared
    <3>1. PICK X \in SUBSET Pending : ExpireStaleExternalEvents(X)
      BY <2>2 DEF ExpireEvents
    <3> QED BY <3>1 DEF Next, ExpireStaleExternalEvents, Pending
  <2>3. ASSUME DrainInbox(s) PROVE Next /\ prepared' \subseteq prepared
    BY <2>3 DEF DrainInbox, Next, ResumePendingExternalEvents
  <2>4. ASSUME ReconcileJoins(s) PROVE Next /\ prepared' \subseteq prepared
    BY <2>4 DEF ReconcileJoins, Next, ReconcileWaitingJoins
  <2> QED BY <2>1, <2>2, <2>3, <2>4
<1>2. PICK to \in Pc : Go(s, to) /\ UNCHANGED local
  BY DEF ReleaseClaims, ExpireEvents, DrainInbox, ReconcileJoins, AfterRelease, Pc
<1>3. pc' \in [Scheduler -> Pc]
  BY <1>2, GoTypes, KernelFacts
<1> QED BY <1>1, <1>2, <1>3, MoveOn

LEMMA ResumeTimersStep ==
  ASSUME KernelInv, NEW s \in Scheduler, ResumeTimers(s)
  PROVE  KernelInv' /\ [Next]_storeVars
<1>1. KernelTypes
  BY KernelFacts
<1>2. ResumeDue(None, DueByClock(s)) /\ DueByClock(s) \in SUBSET Act
  BY DEF ResumeTimers, DueByClock, Due, With
<1>3. Next /\ prepared' = prepared
  BY <1>2 DEF Next, ResumeDue
<1>4. AfterDue \in Pc
  BY DEF AfterDue, Pc
<1>5. pc' \in [Scheduler -> Pc]
  BY <1>1, <1>4, GoTypes DEF ResumeTimers
<1>6. clock' = [clock EXCEPT ![s] = {}] /\ UNCHANGED <<todo, work, signals, seen, op, ops>>
  BY DEF ResumeTimers
<1>7. KernelTypes'
  BY <1>1, <1>5, <1>6 DEF KernelTypes
<1> QED BY <1>3, <1>6, <1>7, LentStep

\* syncDerivedStatus, and the wall clock, in their two transactions.
LEMMA SyncSteps ==
  ASSUME KernelInv, NEW s \in Scheduler, SyncRead(s) \/ SyncWrite(s) \/ WallClockExhausted(s)
  PROVE  KernelInv' /\ [Next]_storeVars
<1>1. KernelTypes
  BY KernelFacts
<1>2. ASSUME NEW st \in InstanceStatus, SetStatus(st) PROVE Next /\ prepared' \subseteq prepared
  BY <1>2 DEF Next, SetStatus, storeVars
<1>3. CASE SyncRead(s)
  <2>1. UNCHANGED storeVars
    BY <1>3 DEF SyncRead, storeVars
  <2>2. CASE Forgotten(s)
    BY <2>1, <2>2, ForgottenTypes, QuietStep
  <2>3. CASE Go(s, "claim") /\ UNCHANGED local
    <3>1. pc' \in [Scheduler -> Pc]
      BY <1>1, <2>3, GoTypes DEF Pc
    <3>2. [Next]_storeVars /\ prepared' \subseteq prepared
      BY <2>1 DEF storeVars
    <3> QED BY <2>3, <3>1, <3>2, MoveOn
  <2>4. CASE /\ seen' = [seen EXCEPT ![s] = DerivedStatus]
             /\ Go(s, IF At(s, "sync") THEN "setStatus" ELSE "setStatus2")
             /\ UNCHANGED <<clock, todo, work, signals, op, ops>>
    <3>1. pc' \in [Scheduler -> Pc]
      BY <1>1, <2>4, GoTypes DEF Pc
    <3>2. DerivedStatus \in InstanceStatus
      BY DEF DerivedStatus, InstanceStatus, Final
    <3>3. KernelTypes'
      BY <1>1, <2>4, <3>1, <3>2 DEF KernelTypes
    <3> QED BY <2>1, <2>4, <3>3, QuietStep
  <2> QED BY <1>3, <2>2, <2>3, <2>4 DEF SyncRead
<1>4. CASE SyncWrite(s)
  <2>1. Next /\ prepared' \subseteq prepared
    BY <1>1, <1>2, <1>4 DEF SyncWrite, KernelTypes
  <2>2. CASE Forgotten(s)
    BY <2>1, <2>2, ForgottenTypes, KernelKept
  <2>3. CASE Go(s, "claim") /\ UNCHANGED local
    <3>1. pc' \in [Scheduler -> Pc]
      BY <1>1, <2>3, GoTypes DEF Pc
    <3> QED BY <2>1, <2>3, <3>1, MoveOn
  <2> QED BY <1>4, <2>2, <2>3 DEF SyncWrite
<1>5. CASE WallClockExhausted(s)
  <2>1. SetStatus("exhausted") /\ UNCHANGED kernelVars
    BY <1>5 DEF WallClockExhausted
  <2>2. Next /\ prepared' \subseteq prepared
    BY <1>2, <2>1 DEF InstanceStatus, Final
  <2>3. KernelTypes' /\ UNCHANGED <<work, todo>>
    BY <1>1, <2>1 DEF KernelTypes, kernelVars
  <2> QED BY <2>2, <2>3, LentStep
<1> QED BY <1>3, <1>4, <1>5

-----------------------------------------------------------------------------
(* The wave *)

LEMMA WorkTypes ==
  ASSUME KernelTypes, NEW s \in Scheduler, NEW a \in Act, NEW w \in WorkRec, SetWork(s, a, w)
  PROVE  /\ work' \in [Scheduler -> [Act -> WorkRec]] /\ work'[s][a] = w
         /\ \A q \in Scheduler, b \in Act : <<q, b>> # <<s, a>> => work'[q][b] = work[q][b]
<1>1. work \in [Scheduler -> [Act -> WorkRec]] /\ work' = [work EXCEPT ![s][a] = w]
  BY DEF SetWork, KernelTypes
<1> QED BY <1>1

LEMMA ClaimStep ==
  ASSUME KernelInv, NEW s \in Scheduler, NEW S \in SUBSET With("ready"), Claim(s, S)
  PROVE  KernelInv' /\ [Next]_storeVars
<1>1. KernelTypes /\ S \subseteq Act
  BY KernelFacts DEF With
<1>2. [Next]_storeVars /\ prepared' = prepared
  <2>1. CASE ClaimReady(S)
    BY <1>1, <2>1 DEF Next, ClaimReady
  <2>2. CASE UNCHANGED storeVars
    BY <2>2 DEF storeVars
  <2> QED BY <2>1, <2>2 DEF Claim
<1>3. Inv' /\ \A a \in Act : act'[a] \in ActivationRecord
  BY <1>2, StoreMoves, KernelFacts
<1> DEFINE held == [a \in Act |-> IF a \in S THEN [NoWork EXCEPT !.st = "held", !.tok = act'[a].lease]
                                           ELSE NoWork]
<1>4. work' = [work EXCEPT ![s] = held] /\ UNCHANGED <<clock, todo, signals, seen, op, ops>>
  BY DEF Claim
<1>5. ASSUME NEW a \in Act
      PROVE  held[a] \in WorkRec /\ (held[a] = NoWork \/ WorkSound(held[a], act'[a], version'))
  <2>1. CASE a \notin S
    BY <2>1, NoWorkSound
  <2>2. CASE a \in S
    <3>1. ClaimReady(S)
      BY <2>2 DEF Claim
    <3>2. Starts(act[a], act'[a])
      BY <2>2, <3>1, ClaimReadyStep, KernelFacts
    <3>3. act'[a].lease = act'[a].seg /\ act'[a].seg = act[a].seg + 1 /\ act[a].seg \in Nat
      BY <3>2, KernelFacts DEF Starts, ActivationRecord
    <3>4. held[a] = [NoWork EXCEPT !.st = "held", !.tok = act'[a].seg]
      BY <2>2, <3>3
    <3>5. act'[a].seg \in Nat /\ 0 < act'[a].seg
      BY <3>3
    <3> HIDE DEF held
    <3>6. held[a] \in WorkRec /\ held[a].st = "held" /\ held[a].tok = act'[a].seg
      BY <3>4, <3>5, NoWorkSound DEF WorkRec, NoWork
    <3> QED BY <3>5, <3>6 DEF WorkSound
  <2> QED BY <2>1, <2>2
<1>6. held = [a \in Act |-> held[a]]
  OBVIOUS
<1> HIDE DEF held
<1>7. /\ work' \in [Scheduler -> [Act -> WorkRec]]
      /\ \A q \in Scheduler, a \in Act : \/ work'[q][a] \in {work[q][a], NoWork}
                                         \/ WorkSound(work'[q][a], act'[a], version')
  <2>1. held \in [Act -> WorkRec]
    BY <1>5, <1>6
  <2>2. work'[s] = held /\ \A q \in Scheduler \ {s} : work'[q] = work[q]
    BY <1>1, <1>4 DEF KernelTypes
  <2>3. work' \in [Scheduler -> [Act -> WorkRec]]
    BY <1>1, <1>4, <2>1 DEF KernelTypes
  <2> QED BY <1>5, <2>2, <2>3
<1>8. pc' \in [Scheduler -> Pc]
  BY <1>1, GoTypes DEF Claim, Pc
<1>9. KernelTypes'
  BY <1>1, <1>4, <1>7, <1>8 DEF KernelTypes
<1> QED BY <1>2, <1>4, <1>7, <1>9, KernelKept

LEMMA SnapshotStep ==
  ASSUME KernelInv, NEW s \in Scheduler, ReadSnapshot(s)
  PROVE  KernelInv' /\ [Next]_storeVars
<1>1. KernelTypes /\ version \in Nat
  BY KernelFacts
<1>2. UNCHANGED storeVars /\ UNCHANGED <<clock, todo, signals, seen, op, ops>>
  BY DEF ReadSnapshot
<1> DEFINE leader(a) == IsJoin(a) /\ BarrierLeader(a)
           read == [a \in Act |-> IF work[s][a].st = "held"
                                  THEN [work[s][a] EXCEPT !.st = "exec", !.read = version,
                                                          !.leader = leader(a)]
                                  ELSE work[s][a]]
<1>3. work' = [work EXCEPT ![s] = read]
  BY DEF ReadSnapshot
<1>4. ASSUME NEW a \in Act
      PROVE  read[a] \in WorkRec /\ (read[a] = work[s][a] \/ WorkSound(read[a], act[a], version))
  <2>1. CASE work[s][a].st # "held"
    BY <1>1, <2>1 DEF KernelTypes
  <2>2. CASE work[s][a].st = "held"
    <3>1. work[s][a] \in WorkRec /\ WorkSound(work[s][a], act[a], version)
      BY <2>2, HeldFacts
    <3>2. act[a].ver <= version
      BY DEF KernelInv, Known, Leased
    <3> DEFINE l == leader(a)
    <3>3. l \in BOOLEAN
      BY DEF BarrierLeader, IsJoin
    <3>4. read[a] = [work[s][a] EXCEPT !.st = "exec", !.read = version, !.leader = l]
      BY <2>2
    <3> HIDE DEF l, read
    <3>5. read[a] \in WorkRec
      BY <1>1, <3>1, <3>3, <3>4 DEF WorkRec
    <3>6. read[a].st = "exec" /\ read[a].read = version /\ read[a].tok = work[s][a].tok
      BY <3>1, <3>4 DEF WorkRec
    <3> QED BY <1>1, <2>2, <3>1, <3>2, <3>5, <3>6 DEF WorkSound
  <2> QED BY <2>1, <2>2
<1>5. read = [a \in Act |-> read[a]]
  OBVIOUS
<1> HIDE DEF read
<1>6. read \in [Act -> WorkRec]
  BY <1>4, <1>5
<1>7. /\ work' \in [Scheduler -> [Act -> WorkRec]]
      /\ \A q \in Scheduler, a \in Act : \/ work'[q][a] \in {work[q][a], NoWork}
                                         \/ WorkSound(work'[q][a], act[a], version)
  <2>1. work'[s] = read /\ \A q \in Scheduler \ {s} : work'[q] = work[q]
    BY <1>1, <1>3 DEF KernelTypes
  <2>2. work' \in [Scheduler -> [Act -> WorkRec]]
    BY <1>1, <1>3, <1>6 DEF KernelTypes
  <2> QED BY <1>4, <2>1, <2>2
<1>8. pc' \in [Scheduler -> Pc]
  BY <1>1, GoTypes DEF ReadSnapshot, Pc
<1>9. KernelTypes'
  BY <1>1, <1>2, <1>7, <1>8 DEF KernelTypes
<1> QED BY <1>2, <1>7, <1>9, QuietStep

\* A result is held: what the scheduler knows of its claim has not changed.
LEMMA ResultStep ==
  ASSUME KernelInv, NEW s \in Scheduler, NEW a \in Act, work[s][a].st \in {"exec", "finish"},
         NEW result \in Results, NEW usage \in Nat,
         SetWork(s, a, [work[s][a] EXCEPT !.st = "finish", !.usage = usage, !.result = result]),
         UNCHANGED <<pc, clock, todo, signals, seen, op, ops, storeVars>>
  PROVE  KernelInv' /\ [Next]_storeVars
<1> DEFINE w == [work[s][a] EXCEPT !.st = "finish", !.usage = usage, !.result = result]
<1>1. work[s][a] \in WorkRec /\ WorkSound(work[s][a], act[a], version) /\ KernelTypes
  BY HeldFacts, KernelFacts
<1>2. w \in WorkRec /\ w.st = "finish" /\ w.tok = work[s][a].tok /\ w.read = work[s][a].read
  BY <1>1 DEF WorkRec
<1>3. SetWork(s, a, w)
  OBVIOUS
<1> HIDE DEF w
<1>4. WorkSound(w, act[a], version)
  BY <1>1, <1>2 DEF WorkSound
<1>5. /\ work' \in [Scheduler -> [Act -> WorkRec]] /\ work'[s][a] = w
      /\ \A q \in Scheduler, b \in Act : <<q, b>> # <<s, a>> => work'[q][b] = work[q][b]
  BY <1>1, <1>2, <1>3, WorkTypes
<1>6. KernelTypes'
  BY <1>1, <1>5 DEF KernelTypes
<1>7. \A q \in Scheduler, b \in Act : \/ work'[q][b] \in {work[q][b], NoWork}
                                      \/ WorkSound(work'[q][b], act[b], version)
  BY <1>4, <1>5
<1> QED BY <1>6, <1>7, QuietStep

LEMMA ExecutorTypes ==
  ASSUME KernelInv, NEW s \in Scheduler, NEW a \in Act, work[s][a].st # "none",
         NEW leader
  PROVE  ExecutorResults(a, leader) \subseteq Results /\ Usages(a) \subseteq Nat
<1>1. NodeOf(a).type \in NodeType
  BY HeldFacts
<1>2. Usages(a) \subseteq Nat
  BY DEF Usages
<1>3. WaitResult(a) \in Results /\ JoinResult(a, leader) \in Results
  BY DEF WaitResult, JoinResult, Results, AgentResult, Outcome
<1>4. {"success", "failure", "parked"} \subseteq Results /\ AgentResults \subseteq Results
  BY DEF Results, AgentResult, Outcome
<1>5. ExecutorResults(a, leader) \subseteq Results
  BY <1>1, <1>3, <1>4 DEF ExecutorResults, NodeType
<1> QED BY <1>2, <1>5

LEMMA ExecuteSteps ==
  ASSUME KernelInv, NEW s \in Scheduler, NEW a \in Act, Execute(s, a) \/ ExecuteThrows(s, a)
  PROVE  KernelInv' /\ [Next]_storeVars
<1>1. work[s][a].st = "exec" /\ UNCHANGED <<pc, clock, todo, signals, seen, op, ops, storeVars>>
  BY DEF Execute, ExecuteThrows
<1>2. \A leader : ExecutorResults(a, leader) \subseteq Results
  BY <1>1, ExecutorTypes
<1>3. Usages(a) \subseteq Nat
  BY <1>1, ExecutorTypes
<1>4. Thrown(a) \subseteq Results
  BY DEF Thrown, Results, AgentResult, Outcome
<1>5. CASE SetWork(s, a, NoWork)
  <2>1. KernelTypes
    BY KernelFacts
  <2>2. /\ work' \in [Scheduler -> [Act -> WorkRec]] /\ work'[s][a] = NoWork
        /\ \A q \in Scheduler, b \in Act : <<q, b>> # <<s, a>> => work'[q][b] = work[q][b]
    BY <1>5, <2>1, NoWorkSound, WorkTypes
  <2>3. KernelTypes'
    BY <1>1, <2>1, <2>2 DEF KernelTypes
  <2> QED BY <1>1, <2>2, <2>3, QuietStep
<1>6. CASE \E result \in Results, usage \in Nat : Returns(s, a, result, usage)
  <2>1. PICK result \in Results, usage \in Nat : Returns(s, a, result, usage)
    BY <1>6
  <2> DEFINE told == WithinLimits(a, result, usage)
  <2>2. told \in Results
    BY DEF WithinLimits, Results, AgentResult
  <2>3. SetWork(s, a, [work[s][a] EXCEPT !.st = "finish", !.usage = usage, !.result = told])
    BY <2>1 DEF Returns
  <2> HIDE DEF told
  <2> QED BY <1>1, <2>2, <2>3, ResultStep
<1> QED BY <1>2, <1>3, <1>4, <1>5, <1>6 DEF Execute, ExecuteThrows

\* Handing a claim back, in one transaction of the store.
LEMMA ReleasesNext ==
  ASSUME KernelInv, NEW s \in Scheduler, NEW a \in Act, work[s][a].st = "finish", Releases(s, a)
  PROVE  Next /\ prepared' = prepared
<1>1. /\ work[s][a].tok \in Nat /\ work[s][a].usage \in Nat
      /\ NodeOf(a).event \in Event \cup {None}
  BY HeldFacts
<1> DEFINE tok == work[s][a].tok
           usage == work[s][a].usage
<1>2. tok \in Nat /\ usage \in Nat
  BY <1>1
<1>3. /\ ParkTimer(a) \in {"none", "armed"}
      /\ ParkEvent(a) \in Event \cup {"join", None}
  BY <1>1 DEF ParkTimer, ParkEvent
<1>4. \/ Retry(a, tok, TRUE, TRUE, usage) \/ Retry(a, tok, FALSE, FALSE, usage)
      \/ Block(a, tok, usage) \/ FailStop(a, tok, usage)
      \/ Park(a, tok, ParkTimer(a), ParkEvent(a), usage)
  BY DEF Releases
<1> HIDE DEF tok, usage
<1>5. Next
  <2>1. CASE Park(a, tok, ParkTimer(a), ParkEvent(a), usage)
    BY <1>2, <1>3, <2>1 DEF Next
  <2>2. CASE Retry(a, tok, TRUE, TRUE, usage) \/ Retry(a, tok, FALSE, FALSE, usage)
    <3>1. TRUE \in BOOLEAN /\ FALSE \in BOOLEAN
      OBVIOUS
    <3> QED BY <1>2, <2>2, <3>1 DEF Next
  <2>3. CASE Block(a, tok, usage) \/ FailStop(a, tok, usage)
    BY <1>2, <2>3 DEF Next
  <2> QED BY <1>4, <2>1, <2>2, <2>3
<1>6. prepared' = prepared
  BY <1>4 DEF Retry, Block, FailStop, Park, Release
<1> QED BY <1>5, <1>6

\* The output of the intent was computed from the State that the wave read, which is no
\* older than the claim the intent is prepared under.
LEMMA PreparesStep ==
  ASSUME KernelInv, NEW s \in Scheduler, NEW a \in Act, work[s][a].st = "finish", Prepares(s, a),
         UNCHANGED <<pc, clock, todo, signals, seen, op, ops>>
  PROVE  KernelInv' /\ [Next]_storeVars
<1>1. /\ KernelTypes /\ work[s][a] \in WorkRec /\ WorkSound(work[s][a], act[a], version)
      /\ act[a] \in ActivationRecord /\ prepared \subseteq Intent
  BY HeldFacts, KernelFacts
<1> DEFINE w == work[s][a]
           i == [act |-> a, cont |-> act[a].cont, lease |-> w.tok, ver |-> act[a].ver,
                 outcome |-> w.result, read |-> w.read, usage |-> w.usage]
<1>2. w.result \in Outcome /\ PrepareCommit(i)
  BY DEF Prepares
<1>3. i \in Intent
  BY <1>1, <1>2 DEF Intent, WorkRec, ActivationRecord
<1>4. IntentSound(i, version)
  <2>1. act[a].status = "running" /\ act[a].lease = w.tok
    BY <1>2 DEF PrepareCommit, Holds
  <2>2. act[a].seg = w.tok
    BY <2>1 DEF KernelInv, Known, Leased
  <2> QED BY <1>1, <2>2 DEF WorkSound, IntentSound
<1>5. PICK j \in prepared' : SetWork(s, a, [w EXCEPT !.st = "commit", !.intent = j])
  BY DEF Prepares
<1> HIDE DEF i
<1>6. prepared' \subseteq prepared \cup {i}
  BY <1>2 DEF PrepareCommit
<1>7. \A k \in prepared' : k \in prepared \/ IntentSound(k, version)
  BY <1>4, <1>6
<1>8. Next /\ version' = version
  BY <1>2, <1>3 DEF Next, PrepareCommit
<1>9. j \in Intent /\ IntentSound(j, version)
  BY <1>1, <1>3, <1>4, <1>5, <1>6 DEF KernelInv, Known
<1> DEFINE new == [w EXCEPT !.st = "commit", !.intent = j]
<1>10. /\ new \in WorkRec /\ new.st = "commit" /\ new.intent = j /\ new.tok = w.tok
       /\ SetWork(s, a, new)
  BY <1>1, <1>5, <1>9 DEF WorkRec
<1> HIDE DEF new
<1>11. WorkSound(new, act'[a], version')
  <2>1. act' = act
    BY <1>2 DEF PrepareCommit
  <2> QED BY <1>1, <1>8, <1>9, <1>10, <2>1 DEF WorkSound
<1>12. /\ work' \in [Scheduler -> [Act -> WorkRec]] /\ work'[s][a] = new
       /\ \A q \in Scheduler, b \in Act : <<q, b>> # <<s, a>> => work'[q][b] = work[q][b]
  BY <1>1, <1>10, WorkTypes
<1>13. KernelTypes'
  BY <1>1, <1>12 DEF KernelTypes
<1>14. \A q \in Scheduler, b \in Act : \/ work'[q][b] \in {work[q][b], NoWork}
                                       \/ WorkSound(work'[q][b], act'[b], version')
  BY <1>11, <1>12
<1> QED BY <1>7, <1>8, <1>13, <1>14, KernelKept

\* The scheduler lets go of an activation.
LEMMA LetGo ==
  ASSUME KernelInv, [Next]_storeVars, NEW s \in Scheduler, NEW a \in Act, SetWork(s, a, NoWork),
         signals' \in [Scheduler -> SUBSET Arrived], UNCHANGED <<pc, clock, todo, seen, op, ops>>,
         prepared' \subseteq prepared
  PROVE  KernelInv'
<1>1. KernelTypes
  BY KernelFacts
<1>2. /\ work' \in [Scheduler -> [Act -> WorkRec]] /\ work'[s][a] = NoWork
      /\ \A q \in Scheduler, b \in Act : <<q, b>> # <<s, a>> => work'[q][b] = work[q][b]
  BY <1>1, NoWorkSound, WorkTypes
<1>3. KernelTypes'
  BY <1>1, <1>2 DEF KernelTypes
<1> QED BY <1>2, <1>3, KernelKept

LEMMA FinishStep ==
  ASSUME KernelInv, NEW s \in Scheduler, NEW a \in Act, Finish(s, a)
  PROVE  KernelInv' /\ [Next]_storeVars
<1>1. work[s][a].st = "finish" /\ UNCHANGED <<pc, clock, todo, signals, seen, op, ops>>
  BY DEF Finish
<1>2. signals' \in [Scheduler -> SUBSET Arrived]
  BY <1>1, KernelFacts DEF KernelTypes
<1>3. CASE Releases(s, a)
  BY <1>1, <1>2, <1>3, ReleasesNext, LetGo DEF Releases
<1>4. CASE Prepares(s, a)
  BY <1>1, <1>4, PreparesStep
<1>5. CASE ParkRefused(s, a)
  <2>1. work[s][a] \in WorkRec /\ work[s][a].usage \in Nat
    BY <1>1, HeldFacts
  <2> DEFINE usage == work[s][a].usage
             result == "exhausted"
  <2>2. SetWork(s, a, [work[s][a] EXCEPT !.result = "exhausted"]) /\ UNCHANGED storeVars
    BY <1>5 DEF ParkRefused
  <2>3. [work[s][a] EXCEPT !.result = "exhausted"]
          = [work[s][a] EXCEPT !.st = "finish", !.usage = usage, !.result = result]
    BY <1>1, <2>1 DEF WorkRec
  <2>4. result \in Results /\ usage \in Nat
    BY <2>1 DEF Results, Outcome
  <2>5. SetWork(s, a, [work[s][a] EXCEPT !.st = "finish", !.usage = usage, !.result = result])
    BY <2>2, <2>3
  <2>6. UNCHANGED <<pc, clock, todo, signals, seen, op, ops, storeVars>>
    BY <1>1, <2>2
  <2>7. work[s][a].st \in {"exec", "finish"}
    BY <1>1
  <2> HIDE DEF usage, result
  <2> QED BY <2>4, <2>5, <2>6, <2>7, ResultStep
<1>6. CASE SetWork(s, a, NoWork) /\ UNCHANGED storeVars
  BY <1>1, <1>2, <1>6, LetGo DEF storeVars
<1> QED BY <1>3, <1>4, <1>5, <1>6 DEF Finish

LEMMA CommitIntentStep ==
  ASSUME KernelInv, NEW s \in Scheduler, NEW a \in Act, CommitIntent(s, a)
  PROVE  KernelInv' /\ [Next]_storeVars
<1> DEFINE i == work[s][a].intent
<1>1. work[s][a].st = "commit" /\ SetWork(s, a, NoWork) /\ UNCHANGED <<pc, clock, todo, seen, op, ops>>
  BY DEF CommitIntent
<1>2. i \in Intent
  BY <1>1, HeldFacts DEF WorkSound
<1>3. CASE Commit(i) /\ Announce(s)
  <2>1. Next
    BY <1>2, <1>3 DEF Next
  <2>2. signals' \in [Scheduler -> SUBSET Arrived]
    BY <1>3, <2>1, ArrivalTypes
  <2>3. prepared' \subseteq prepared
    BY <1>3, CommitPrepared
  <2> QED BY <1>1, <2>1, <2>2, <2>3, LetGo
<1>4. CASE UNCHANGED <<storeVars, signals>>
  <2>1. signals' \in [Scheduler -> SUBSET Arrived] /\ prepared' \subseteq prepared
    BY <1>4, KernelFacts DEF KernelTypes, storeVars
  <2> QED BY <1>1, <1>4, <2>1, LetGo
<1> QED BY <1>3, <1>4 DEF CommitIntent

-----------------------------------------------------------------------------
(* Operators, event sources, and the clock *)

LEMMA OutsideStep ==
  ASSUME KernelInv, Outside
  PROVE  KernelInv' /\ [Next]_storeVars
<1>1. KernelTypes
  BY KernelFacts
<1>2. CASE UNCHANGED kernelVars /\ \E a \in Act : TimerFires(a)
  <2>1. Next /\ prepared' = prepared
    BY <1>2 DEF Next, TimerFires
  <2>2. KernelTypes' /\ UNCHANGED <<work, todo>>
    BY <1>1, <1>2 DEF KernelTypes, kernelVars
  <2> QED BY <2>1, <2>2, LentStep
<1>3. ASSUME KernelIdle, op' \in Commands, ops' \in 0..MaxOperations
      PROVE  KernelTypes' /\ UNCHANGED <<work, todo>>
  BY <1>1, <1>3 DEF KernelIdle, KernelTypes
<1>4. ops \in 0..MaxOperations /\ op \in Commands
  BY <1>1 DEF KernelTypes
<1>5. ASSUME ops < MaxOperations, ops' = ops + 1 PROVE ops' \in 0..MaxOperations
  BY <1>4, <1>5
<1>6. ASSUME NEW st \in InstanceStatus, SetStatus(st) PROVE Next /\ prepared' \subseteq prepared
  BY <1>6 DEF Next, SetStatus, storeVars
<1>7. {"active", "paused", "failed"} \subseteq InstanceStatus
  BY DEF InstanceStatus, Final
<1>8. CASE OperatorPause \/ OperatorStop \/ DeliverActivates
  <2>1. KernelIdle /\ op' \in Commands /\ ops' \in 0..MaxOperations
    BY <1>4, <1>5, <1>8 DEF OperatorPause, OperatorStop, DeliverActivates, Operation, Commands
  <2>2. Next /\ prepared' \subseteq prepared
    BY <1>6, <1>7, <1>8 DEF OperatorPause, OperatorStop, DeliverActivates
  <2> QED BY <1>3, <2>1, <2>2, LentStep
<1>9. CASE OperatorResume \/ DeliverLooks
  <2>1. KernelIdle /\ op' \in Commands /\ ops' \in 0..MaxOperations /\ UNCHANGED storeVars
    BY <1>4, <1>5, <1>9 DEF OperatorResume, DeliverLooks, Operation, Commands
  <2> QED BY <1>3, <2>1, QuietStep
<1>10. CASE OperatorResumes
  <2>1. KernelIdle /\ op' \in Commands /\ ops' \in 0..MaxOperations
    BY <1>4, <1>10 DEF OperatorResumes, Commands
  <2>2. CASE SetStatus("active")
    BY <1>3, <1>6, <1>7, <2>1, <2>2, LentStep
  <2>3. CASE Resume
    <3>1. Next /\ prepared' \subseteq prepared
      BY <2>3 DEF Next, Resume, ResumePausedTerminal, ResumeFails
    <3> QED BY <1>3, <2>1, <3>1, LentStep
  <2>4. CASE UNCHANGED storeVars
    BY <1>3, <2>1, <2>4, QuietStep
  <2> QED BY <1>10, <2>2, <2>3, <2>4 DEF OperatorResumes
<1>11. CASE \E e \in Event : DeliverEvent(e)
  <2>1. KernelIdle /\ op' \in Commands /\ ops' \in 0..MaxOperations
    BY <1>5, <1>11 DEF DeliverEvent, Commands
  <2>2. Next /\ prepared' = prepared
    BY <1>11 DEF DeliverEvent, Next, RecordExternalEvent
  <2> QED BY <1>3, <2>1, <2>2, LentStep
<1> QED BY <1>2, <1>8, <1>9, <1>10, <1>11 DEF Outside, ClockTicks

-----------------------------------------------------------------------------
LEMMA KernelStart == KernelInit => KernelInv
<1> SUFFICES ASSUME KernelInit PROVE KernelInv
  OBVIOUS
<1>1. Inv /\ Init
  BY InitInv DEF KernelInit
<1>2. KernelTypes
  <2>1. "idle" \in Pc /\ "active" \in InstanceStatus /\ NoWork \in WorkRec
    BY NoWorkSound DEF Pc, InstanceStatus
  <2> QED BY <2>1 DEF KernelInit, KernelTypes, Commands
<1>3. ASSUME NEW a \in Act PROVE Leased(act[a], version)
  <2>1. act[a] \in ActivationRecord /\ version = 0
    BY <1>1 DEF Init, Inv, TypeInv, Row
  <2>2. act[a] = Unborn \/ act[a] = NewActivation(Graph.entry[a], 0, None, <<>>)
    BY <1>1 DEF Init
  <2>3. CASE act[a] = Unborn
    BY <2>1, <2>3 DEF Leased, Unborn
  <2>4. CASE act[a] = NewActivation(Graph.entry[a], 0, None, <<>>)
    <3> DEFINE n == Graph.entry[a]
    <3>1. NewActivation(n, 0, None, <<>>).status = "ready" /\ NewActivation(n, 0, None, <<>>).ver = 0
      BY DEF NewActivation, Unborn
    <3> HIDE DEF n
    <3> QED BY <2>1, <2>4, <3>1 DEF Leased, n
  <2> QED BY <2>2, <2>3, <2>4
<1>4. Known
  BY <1>1, <1>3, NoWorkSound DEF Known, KernelInit, Init
<1> QED BY <1>1, <1>2, <1>4 DEF KernelInv

LEMMA TickSteps ==
  ASSUME KernelInv, NEW s \in Scheduler, Tick(s) \/ WallClockExhausted(s) \/ Crash(s)
  PROVE  KernelInv' /\ [Next]_storeVars
<1>1. CASE JoinsAndEvents(s)
  BY <1>1, HousekeepingSteps, NotifyStep DEF JoinsAndEvents
<1>2. CASE Turn(s)
  BY <1>2, TickStartStep, PlainSteps, ResumeTimersStep, SyncSteps, SnapshotStep, RecoverSteps,
     HousekeepingSteps, ClaimStep, ExecuteSteps, FinishStep, CommitIntentStep DEF Turn
<1>3. CASE WallClockExhausted(s) \/ Crash(s)
  BY <1>3, SyncSteps, CrashStep
<1> QED BY <1>1, <1>2, <1>3 DEF Tick

LEMMA KernelStep ==
  ASSUME KernelInv, [KernelNext]_vars
  PROVE  KernelInv' /\ [Next]_storeVars
<1>1. CASE UNCHANGED vars
  <2>1. KernelTypes' /\ UNCHANGED storeVars /\ UNCHANGED <<work, todo>>
    BY <1>1, KernelFacts DEF vars, kernelVars, KernelTypes
  <2> QED BY <2>1, QuietStep
<1>2. CASE KernelNext
  BY <1>2, TickSteps, OutsideStep DEF KernelNext
<1> QED BY <1>1, <1>2

-----------------------------------------------------------------------------
(* The kernel is an implementation of the store *)

\* Every behaviour of schedulers, operators, event sources and crashes is, seen from
\* the store, a sequence of its transactions: what holds of the store under any
\* caller holds of it under GraphKernel.tick, loop resume and deliverEvent.
THEOREM KernelImplementsStore == KernelSpec => Spec
<1>1. KernelInit => Init
  BY DEF KernelInit
<1>2. KernelInv /\ [KernelNext]_vars => KernelInv' /\ [Next]_storeVars
  BY KernelStep
<1> QED BY <1>1, <1>2, KernelStart, PTL DEF KernelSpec, Spec

\* A scheduler never holds anything but the claims, intents and Join arrivals that the
\* types of GraphKernel.ts name, however its tick is interrupted.
THEOREM KernelTyped == KernelSpec => []KernelTypeOK
<1>1. KernelInv => KernelTypeOK
  <2> SUFFICES ASSUME KernelInv PROVE KernelTypeOK
    OBVIOUS
  <2>1. TypeOK /\ KernelTypes
    BY KernelFacts DEF TypeInv
  <2>2. ASSUME NEW s \in Scheduler, NEW a \in Act
        PROVE  LET w == work[s][a] IN
               /\ w.st \in {"none", "held", "exec", "finish", "commit"}
               /\ w.tok \in Nat /\ w.read \in Nat /\ w.usage \in Nat /\ w.leader \in BOOLEAN
               /\ w.result \in AgentResult \cup Outcome \cup {None}
               /\ w.intent \in Intent \cup {None}
    <3>1. work[s][a] \in WorkRec
      BY <2>1 DEF KernelTypes
    <3> QED BY <3>1 DEF WorkRec, Results
  <2> QED BY <2>1, <2>2 DEF KernelTypes, KernelTypeOK, Arrived, Commands
<1>2. KernelInv /\ [KernelNext]_vars => KernelInv'
  BY KernelStep
<1> QED BY <1>1, <1>2, KernelStart, PTL DEF KernelSpec

-----------------------------------------------------------------------------
(* Serializability *)

\* The commit of an intent that nobody has made stale finds the State it was computed from.
LEMMA CommitReads ==
  ASSUME KernelInv, Graph.serializable, version' # version,
         NEW i \in Intent, IntentSound(i, version), Commit(i)
  PROVE  i.read = version \/ (Stale(i) /\ EffectiveOutcome(i) = "exhausted")
<1>1. SameExecution(i)
  BY DEF Commit, CommitReplay, CommitTerminal, CommitRoute, CommitUnrouted, Record, FirstCommit, Committable
<1>2. i.act \in Act /\ i.ver \in Nat /\ i.read \in Nat /\ version \in Nat /\ i.ver = act[i.act].ver
  BY <1>1, KernelFacts DEF Intent, SameExecution
<1>3. CASE Stale(i)
  BY <1>3 DEF EffectiveOutcome
<1>4. CASE ~Stale(i)
  BY <1>2, <1>4 DEF Stale, IntentSound
<1> QED BY <1>3, <1>4

\* A step that leaves todo and work alone hands no intent to commit().
LEMMA NothingCommits ==
  ASSUME UNCHANGED <<todo, work>>, NEW s \in Scheduler
  PROVE  Committing(s) = {}
BY DEF Committing

\* What a step that moves the State has committed.
LEMMA WhoCommits ==
  ASSUME KernelInv, [KernelNext]_vars, version' # version, NEW s \in Scheduler, NEW i \in Committing(s)
  PROVE  i \in Intent /\ IntentSound(i, version) /\ Commit(i)
<1>1. \A q \in Scheduler : /\ \A j \in todo[q] : j \in Intent /\ IntentSound(j, version)
                           /\ \A a \in Act : work[q][a].st = "commit" =>
                                work[q][a].intent \in Intent /\ IntentSound(work[q][a].intent, version)
  BY KernelFacts DEF KernelTypes, Known, WorkSound
<1>2. i \in Intent /\ IntentSound(i, version)
  BY <1>1 DEF Committing
<1>3. CASE Outside \/ UNCHANGED vars
  <2>1. UNCHANGED <<todo, work>>
    BY <1>3 DEF Outside, OperatorPause, OperatorStop, OperatorResume, OperatorResumes, DeliverEvent,
                DeliverLooks, DeliverActivates, ClockTicks, KernelIdle, kernelVars, vars
  <2> QED BY <2>1, NothingCommits
<1>4. ASSUME NEW q \in Scheduler, Tick(q) \/ WallClockExhausted(q) \/ Crash(q) PROVE Commit(i)
  <2>1. CASE \E j \in todo[q] : RecoverIntent(q, j)
    <3>1. PICK j \in todo[q] : RecoverIntent(q, j)
      BY <2>1
    <3>2. Commit(j)
      BY <3>1 DEF RecoverIntent, storeVars
    <3>3. todo' = [todo EXCEPT ![q] = @ \ {j}] /\ work' = work
      BY <3>1 DEF RecoverIntent
    <3>4. Committing(s) \subseteq {j}
      BY <3>3, KernelFacts DEF Committing, KernelTypes
    <3> QED BY <3>2, <3>4
  <2>2. CASE \E a \in Act : CommitIntent(q, a)
    <3>1. PICK a \in Act : CommitIntent(q, a)
      BY <2>2
    <3>2. Commit(work[q][a].intent)
      BY <3>1 DEF CommitIntent, storeVars
    <3>3. work' = [work EXCEPT ![q][a] = NoWork] /\ todo' = todo
      BY <3>1 DEF CommitIntent, SetWork
    <3>4. \A b \in Act : <<s, b>> # <<q, a>> => work'[s][b] = work[s][b]
      BY <3>3, KernelFacts DEF KernelTypes
    <3>5. i \in {work[s][b].intent : b \in {b \in Act : work[s][b].st = "commit" /\ work'[s][b].st = "none"}}
      BY <3>3 DEF Committing
    <3>6. PICK b \in Act : work[s][b].st = "commit" /\ work'[s][b].st = "none" /\ i = work[s][b].intent
      BY <3>5
    <3>7. s = q /\ b = a
      BY <3>4, <3>6
    <3> QED BY <3>2, <3>6, <3>7
  <2>3. CASE TickStart(q) \/ RecoverEnd(q) \/ ReadSnapshot(q) \/ WaveEnd(q) \/ SyncRead(q) \/ Crash(q)
             \/ (\E j \in todo[q] : RecoverThrows(q, j))
             \/ (\E a \in Act : Execute(q, a) \/ ExecuteThrows(q, a))
    BY <2>3 DEF TickStart, RecoverEnd, ReadSnapshot, WaveEnd, SyncRead, Crash, RecoverThrows, Execute,
                ExecuteThrows, storeVars
  <2>4. CASE SyncWrite(q) \/ WallClockExhausted(q)
    BY <2>4 DEF SyncWrite, WallClockExhausted, SetStatus, storeVars
  <2>5. CASE JoinsAndEvents(q) \/ ResumeTimers(q)
    BY <2>5 DEF JoinsAndEvents, ReconcileJoins, ExpireEvents, DrainInbox, NotifyJoin, ResumeTimers,
                ReconcileWaitingJoins, ExpireStaleExternalEvents, ResumePendingExternalEvents, ResumeDue
  <2>6. CASE \/ \E E \in SUBSET With("running") : ReleaseClaims(q, E)
             \/ \E S \in SUBSET With("ready") : Claim(q, S)
    BY <2>6 DEF ReleaseClaims, Claim, ReleaseExpired, ClaimReady, storeVars
  <2>7. CASE \E a \in Act : Finish(q, a)
    BY <2>7 DEF Finish, Releases, ParkRefused, Prepares, Retry, Block, FailStop, Park, Release,
                PrepareCommit, storeVars
  <2> QED BY <1>4, <2>1, <2>2, <2>3, <2>4, <2>5, <2>6, <2>7 DEF Tick, Turn
<1> QED BY <1>2, <1>3, <1>4 DEF KernelNext

\* The optimistic concurrency control of serializable graphs (claimReady, the wave's
\* snapshot, prepareCommit, commit): whoever prepared, recovered or replayed it, and
\* however many schedulers overlap, an output that advances the State was computed from
\* the very State it advances, or is not used.
THEOREM SerializableReads == KernelSpec => SerializableRead
<1>1. ASSUME KernelInv, [KernelNext]_vars
      PROVE  Graph.serializable /\ version' # version =>
               \A s \in Scheduler : \A i \in Committing(s) :
                 i.read = version \/ (Stale(i) /\ EffectiveOutcome(i) = "exhausted")
  BY <1>1, WhoCommits, CommitReads
<1>2. KernelInv /\ [KernelNext]_vars =>
        [Graph.serializable /\ version' # version =>
           \A s \in Scheduler : \A i \in Committing(s) :
             i.read = version \/ (Stale(i) /\ EffectiveOutcome(i) = "exhausted")]_vars
  BY <1>1
<1>3. KernelInv /\ [KernelNext]_vars => KernelInv'
  BY KernelStep
<1> QED BY <1>2, <1>3, KernelStart, PTL DEF KernelSpec, SerializableRead

-----------------------------------------------------------------------------
(* What a step teaches a scheduler *)

\* What s may come to hold of a: a claim, the wave's snapshot, a result, or an intent.
Learned(s, a) ==
  LET w == work[s][a]  new == work'[s][a] IN
  \/ new \in {w, NoWork}
  \/ new.st = "held"
  \/ w.st = "held" /\ new.st = "exec" /\ new.leader = (IsJoin(a) /\ BarrierLeader(a))
  \/ /\ w.st = "exec" /\ new.st = "finish"
     /\ \E usage \in Usages(a), result \in ExecutorResults(a, w.leader) \cup Thrown(a) :
          new.usage = usage /\ new.result = WithinLimits(a, result, usage)
  \/ w.st = "finish" /\ new.st = "finish" /\ new.usage = w.usage /\ new.result = "exhausted"
  \/ w.st = "finish" /\ new.st = "commit" /\ new.intent \in prepared'

\* The intent i says what the segment of a that s has finished did.
Reports(s, a, i) ==
  work[s][a].st = "finish" /\ i.act = a /\ i.outcome = work[s][a].result /\ i.usage = work[s][a].usage

Teaches ==
  /\ \A s \in Scheduler, a \in Act : Learned(s, a)
  /\ \A s \in Scheduler : todo'[s] \subseteq todo[s] \cup prepared
  /\ \A i \in prepared' : i \in prepared \/ \E s \in Scheduler, a \in Act : Reports(s, a, i)

LEMMA OneLearns ==
  ASSUME KernelInv, NEW s \in Scheduler, NEW a \in Act, NEW w, SetWork(s, a, w),
         work'[s][a] = w => Learned(s, a), UNCHANGED todo,
         \A i \in prepared' : i \in prepared \/ Reports(s, a, i)
  PROVE  Teaches
<1>1. work \in [Scheduler -> [Act -> WorkRec]] /\ work' = [work EXCEPT ![s][a] = w]
  BY KernelFacts DEF KernelTypes, SetWork
<1>2. work'[s][a] = w /\ \A q \in Scheduler, b \in Act : <<q, b>> # <<s, a>> => work'[q][b] = work[q][b]
  BY <1>1
<1>3. \A q \in Scheduler, b \in Act : Learned(q, b)
  BY <1>2 DEF Learned
<1> QED BY <1>3 DEF Teaches

\* A step that leaves the work of the wave alone, or ends the tick.
LEMMA NothingLearned ==
  ASSUME KernelInv, \A s \in Scheduler, a \in Act : work'[s][a] \in {work[s][a], NoWork},
         \A s \in Scheduler : todo'[s] \subseteq todo[s] \cup prepared, prepared' \subseteq prepared
  PROVE  Teaches
BY DEF Teaches, Learned

LEMMA FinishTeaches ==
  ASSUME KernelInv, NEW s \in Scheduler, NEW a \in Act, Finish(s, a)
  PROVE  Teaches
<1>1. work[s][a].st = "finish" /\ UNCHANGED todo /\ work[s][a] \in WorkRec
  BY HeldFacts DEF Finish
<1>2. CASE Prepares(s, a)
  <2> DEFINE w == work[s][a]
             i == [act |-> a, cont |-> act[a].cont, lease |-> w.tok, ver |-> act[a].ver,
                   outcome |-> w.result, read |-> w.read, usage |-> w.usage]
  <2>1. PrepareCommit(i) /\ Reports(s, a, i)
    BY <1>1, <1>2 DEF Prepares, Reports
  <2>2. PICK j \in prepared' : SetWork(s, a, [w EXCEPT !.st = "commit", !.intent = j])
    BY <1>2 DEF Prepares
  <2> HIDE DEF i
  <2>3. \A k \in prepared' : k \in prepared \/ Reports(s, a, k)
    BY <2>1 DEF PrepareCommit
  <2> DEFINE new == [w EXCEPT !.st = "commit", !.intent = j]
  <2>4. new.st = "commit" /\ new.intent = j /\ SetWork(s, a, new)
    BY <1>1, <2>2 DEF WorkRec
  <2> HIDE DEF new
  <2>5. work'[s][a] = new => Learned(s, a)
    BY <1>1, <2>2, <2>4 DEF Learned
  <2> QED BY <1>1, <2>3, <2>4, <2>5, OneLearns
<1>3. CASE ParkRefused(s, a)
  <2> DEFINE new == [work[s][a] EXCEPT !.result = "exhausted"]
  <2>1. /\ new.st = "finish" /\ new.usage = work[s][a].usage /\ new.result = "exhausted"
        /\ SetWork(s, a, new) /\ prepared' = prepared
    BY <1>1, <1>3 DEF WorkRec, ParkRefused, storeVars
  <2> HIDE DEF new
  <2>2. work'[s][a] = new => Learned(s, a)
    BY <1>1, <2>1 DEF Learned
  <2> QED BY <1>1, <2>1, <2>2, OneLearns
<1>4. CASE SetWork(s, a, NoWork) /\ prepared' = prepared
  <2>1. work'[s][a] = NoWork => Learned(s, a)
    BY DEF Learned
  <2> QED BY <1>1, <1>4, <2>1, OneLearns
<1>5. Releases(s, a) => SetWork(s, a, NoWork) /\ prepared' = prepared
  BY DEF Releases, Retry, Block, FailStop, Park, Release
<1> QED BY <1>2, <1>3, <1>4, <1>5 DEF Finish, storeVars

LEMMA ExecuteTeaches ==
  ASSUME KernelInv, NEW s \in Scheduler, NEW a \in Act, Execute(s, a) \/ ExecuteThrows(s, a)
  PROVE  Teaches
<1>1. work[s][a].st = "exec" /\ UNCHANGED todo /\ prepared' = prepared /\ work[s][a] \in WorkRec
  BY HeldFacts DEF Execute, ExecuteThrows, storeVars
<1>2. CASE SetWork(s, a, NoWork)
  <2>1. work'[s][a] = NoWork => Learned(s, a)
    BY DEF Learned
  <2> QED BY <1>1, <1>2, <2>1, OneLearns
<1>3. CASE \E usage \in Usages(a), result \in ExecutorResults(a, work[s][a].leader) \cup Thrown(a) :
             Returns(s, a, result, usage)
  <2>1. PICK usage \in Usages(a), result \in ExecutorResults(a, work[s][a].leader) \cup Thrown(a) :
          Returns(s, a, result, usage)
    BY <1>3
  <2> DEFINE told == WithinLimits(a, result, usage)
             new == [work[s][a] EXCEPT !.st = "finish", !.usage = usage, !.result = told]
  <2>2. SetWork(s, a, new)
    BY <2>1 DEF Returns
  <2>3. told = WithinLimits(a, result, usage)
    OBVIOUS
  <2> HIDE DEF told
  <2>4. new.st = "finish" /\ new.usage = usage /\ new.result = told
    BY <1>1 DEF WorkRec
  <2> HIDE DEF new
  <2>5. work'[s][a] = new => Learned(s, a)
    BY <1>1, <2>1, <2>3, <2>4 DEF Learned
  <2> QED BY <1>1, <2>2, <2>5, OneLearns
<1> QED BY <1>2, <1>3 DEF Execute, ExecuteThrows

LEMMA SnapshotTeaches ==
  ASSUME KernelInv, NEW s \in Scheduler, ReadSnapshot(s)
  PROVE  Teaches
<1>1. work \in [Scheduler -> [Act -> WorkRec]] /\ UNCHANGED todo /\ prepared' = prepared
  BY KernelFacts DEF KernelTypes, ReadSnapshot, storeVars
<1> DEFINE leader(a) == IsJoin(a) /\ BarrierLeader(a)
           read == [a \in Act |-> IF work[s][a].st = "held"
                                  THEN [work[s][a] EXCEPT !.st = "exec", !.read = version,
                                                          !.leader = leader(a)]
                                  ELSE work[s][a]]
<1>2. work' = [work EXCEPT ![s] = read]
  BY DEF ReadSnapshot
<1>3. ASSUME NEW a \in Act
      PROVE  \/ read[a] = work[s][a]
             \/ work[s][a].st = "held" /\ read[a].st = "exec" /\ read[a].leader = leader(a)
  <2> DEFINE l == leader(a)
  <2>1. CASE work[s][a].st = "held"
    <3>1. read[a] = [work[s][a] EXCEPT !.st = "exec", !.read = version, !.leader = l]
      BY <2>1
    <3> HIDE DEF l, read
    <3>2. read[a].st = "exec" /\ read[a].leader = l
      BY <1>1, <3>1 DEF WorkRec
    <3> QED BY <2>1, <3>2 DEF l
  <2>2. CASE work[s][a].st # "held"
    BY <2>2
  <2> QED BY <2>1, <2>2
<1> HIDE DEF read
<1>4. work'[s] = read /\ \A q \in Scheduler \ {s} : work'[q] = work[q]
  BY <1>1, <1>2
<1>5. \A q \in Scheduler, a \in Act : Learned(q, a)
  BY <1>3, <1>4 DEF Learned
<1> QED BY <1>1, <1>5 DEF Teaches

LEMMA ClaimTeaches ==
  ASSUME KernelInv, NEW s \in Scheduler, NEW S \in SUBSET With("ready"), Claim(s, S)
  PROVE  Teaches
<1>1. work \in [Scheduler -> [Act -> WorkRec]] /\ UNCHANGED todo /\ prepared' = prepared
  BY KernelFacts DEF KernelTypes, Claim, ClaimReady, storeVars
<1> DEFINE held == [a \in Act |-> IF a \in S THEN [NoWork EXCEPT !.st = "held", !.tok = act'[a].lease]
                                           ELSE NoWork]
<1>2. work' = [work EXCEPT ![s] = held]
  BY DEF Claim
<1>3. \A a \in Act : held[a] = NoWork \/ held[a].st = "held"
  BY DEF NoWork
<1> HIDE DEF held
<1>4. work'[s] = held /\ \A q \in Scheduler \ {s} : work'[q] = work[q]
  BY <1>1, <1>2
<1>5. \A q \in Scheduler, a \in Act : Learned(q, a)
  BY <1>3, <1>4 DEF Learned
<1> QED BY <1>1, <1>5 DEF Teaches

LEMMA StepTeaches ==
  ASSUME KernelInv, [KernelNext]_vars
  PROVE  Teaches
<1>1. CASE Outside \/ UNCHANGED vars
  <2>1. UNCHANGED <<todo, work>>
    BY <1>1 DEF Outside, OperatorPause, OperatorStop, OperatorResume, OperatorResumes, DeliverEvent,
                DeliverLooks, DeliverActivates, ClockTicks, KernelIdle, kernelVars, vars
  <2>2. prepared' \subseteq prepared
    BY <1>1 DEF Outside, OperatorPause, OperatorStop, OperatorResume, OperatorResumes, DeliverEvent,
                DeliverLooks, DeliverActivates, ClockTicks, vars, storeVars, SetStatus, Resume,
                ResumePausedTerminal, ResumeFails, RecordExternalEvent, TimerFires
  <2> QED BY <2>1, <2>2, NothingLearned
<1>2. ASSUME NEW s \in Scheduler, Tick(s) \/ WallClockExhausted(s) \/ Crash(s) PROVE Teaches
  <2>1. CASE \E a \in Act : CommitIntent(s, a)
    <3>1. PICK a \in Act : CommitIntent(s, a)
      BY <2>1
    <3>2. SetWork(s, a, NoWork) /\ UNCHANGED todo /\ prepared' \subseteq prepared
      BY <3>1, CommitPrepared DEF CommitIntent, storeVars
    <3>3. work'[s][a] = NoWork => Learned(s, a)
      BY DEF Learned
    <3> QED BY <3>2, <3>3, OneLearns
  <2>2. CASE \E j \in todo[s] : RecoverIntent(s, j)
    <3>1. PICK j \in todo[s] : RecoverIntent(s, j)
      BY <2>2
    <3>2. todo' = [todo EXCEPT ![s] = @ \ {j}] /\ UNCHANGED work /\ prepared' \subseteq prepared
      BY <3>1, CommitPrepared DEF RecoverIntent, storeVars
    <3>3. \A q \in Scheduler : todo'[q] \subseteq todo[q]
      BY <3>2, KernelFacts DEF KernelTypes
    <3> QED BY <3>2, <3>3, NothingLearned
  <2>3. CASE TickStart(s)
    <3>1. UNCHANGED <<work, storeVars>> /\ todo' = [todo EXCEPT ![s] = prepared]
      BY <2>3 DEF TickStart
    <3>2. \A q \in Scheduler : todo'[q] \subseteq todo[q] \cup prepared
      BY <3>1, KernelFacts DEF KernelTypes
    <3> QED BY <3>1, <3>2, NothingLearned DEF storeVars
  <2>4. CASE Forgets(s) /\ prepared' \subseteq prepared
    BY <2>4, StartOver, NothingLearned
  <2>5. CASE UNCHANGED <<todo, work>> /\ prepared' \subseteq prepared
    BY <2>5, NothingLearned
  <2>6. CASE RecoverEnd(s) \/ WaveEnd(s) \/ SyncRead(s) \/ SyncWrite(s) \/ WallClockExhausted(s)
             \/ Crash(s) \/ \E j \in todo[s] : RecoverThrows(s, j)
    <3>1. prepared' \subseteq prepared
      BY <2>6 DEF RecoverEnd, WaveEnd, SyncRead, SyncWrite, WallClockExhausted, Crash, RecoverThrows,
                  SetStatus, storeVars
    <3>2. Forgets(s) \/ UNCHANGED <<todo, work>>
      BY <2>6 DEF RecoverEnd, WaveEnd, SyncRead, SyncWrite, WallClockExhausted, Crash, RecoverThrows,
                  Forgotten, local, kernelVars
    <3> QED BY <2>4, <2>5, <3>1, <3>2
  <2>7. CASE JoinsAndEvents(s) \/ ResumeTimers(s) \/ \E E \in SUBSET With("running") : ReleaseClaims(s, E)
    <3>1. prepared' \subseteq prepared
      BY <2>7 DEF JoinsAndEvents, ReconcileJoins, ExpireEvents, DrainInbox, NotifyJoin, ResumeTimers,
                  ReleaseClaims, ReconcileWaitingJoins, ExpireStaleExternalEvents,
                  ResumePendingExternalEvents, ResumeDue, ReleaseExpired
    <3>2. UNCHANGED <<todo, work>>
      BY <2>7 DEF JoinsAndEvents, ReconcileJoins, ExpireEvents, DrainInbox, NotifyJoin, ResumeTimers,
                  ReleaseClaims, local
    <3> QED BY <2>5, <3>1, <3>2
  <2> QED BY <1>2, <2>1, <2>2, <2>3, <2>6, <2>7, FinishTeaches, ExecuteTeaches, SnapshotTeaches,
             ClaimTeaches DEF Tick, Turn
<1> QED BY <1>1, <1>2 DEF KernelNext

-----------------------------------------------------------------------------
(* What an intent promises: that a segment of its kind can have cost what it charges,  *)
(* and that a Join which reports success has been complete.                            *)

Price(a, usage) == act[a].status # "unborn" /\ usage \in Usages(a)

Members(a) == {b \in Born : act[b].node = act[a].node /\ act[b].group = act[a].group}
Gathered(a) == NodeOf(a).mode = "all" => NodeOf(a).expects \subseteq {act[b].via : b \in Members(a)}

IntentHonest(i) ==
  Price(i.act, i.usage) /\ (IsJoin(i.act) /\ i.outcome = "success" => Gathered(i.act))

WorkHonest(w, a) ==
  /\ w.st = "exec" => act[a].status # "unborn" /\ (w.leader => IsJoin(a) /\ Gathered(a))
  /\ w.st = "finish" => Price(a, w.usage) /\ (IsJoin(a) /\ w.result = "success" => Gathered(a))
  /\ w.st = "commit" => IntentHonest(w.intent)

Honest ==
  /\ \A s \in Scheduler, a \in Act : WorkHonest(work[s][a], a)
  /\ \A s \in Scheduler : \A i \in todo[s] : IntentHonest(i)
  /\ \A i \in prepared : IntentHonest(i)

LEMMA BornStays ==
  ASSUME Inv, [Next]_storeVars, NEW a \in Act, act[a].status # "unborn"
  PROVE  /\ act'[a].status # "unborn"
         /\ act'[a].node = act[a].node /\ act'[a].via = act[a].via /\ act'[a].group = act[a].group
<1>1. CASE UNCHANGED storeVars
  BY <1>1 DEF storeVars
<1>2. CASE Next
  <2>1. act[a] \in ActivationRecord
    BY DEF Inv, TypeInv, Row
  <2>2. Continues(act[a], act'[a]) \/ Starts(act[a], act'[a])
    <3>1. Evolving \/ Starting
      BY <1>2, NextInv
    <3>2. Row(act[a])
      BY DEF Inv, TypeInv
    <3> QED BY <3>1, <3>2, SameContinues DEF Evolving, Starting, Begins
  <2> QED BY <2>1, <2>2 DEF Continues, Starts, Frame, ActivationRecord, Live, Settled
<1> QED BY <1>1, <1>2

LEMMA PriceKept ==
  ASSUME Inv, [Next]_storeVars, NEW a \in Act, NEW usage, Price(a, usage)
  PROVE  Price(a, usage)'
<1>1. act'[a].status # "unborn" /\ act'[a].node = act[a].node
  BY BornStays DEF Price
<1> QED BY <1>1 DEF Price, Usages, NodeOf

LEMMA GatheredKept ==
  ASSUME Inv, [Next]_storeVars, NEW a \in Act, act[a].status # "unborn", Gathered(a)
  PROVE  Gathered(a)'
<1>1. act'[a].node = act[a].node /\ act'[a].group = act[a].group
  BY BornStays
<1>2. \A b \in Members(a) : b \in Members(a)' /\ act'[b].via = act[b].via
  BY <1>1, BornStays DEF Members, Born
<1>3. {act[b].via : b \in Members(a)} \subseteq {act'[b].via : b \in Members(a)'}
  BY <1>2
<1> QED BY <1>1, <1>3 DEF Gathered, NodeOf

LEMMA IntentKept ==
  ASSUME Inv, [Next]_storeVars, NEW i \in Intent, IntentHonest(i)
  PROVE  IntentHonest(i)'
<1>1. i.act \in Act /\ act[i.act].status # "unborn" /\ Price(i.act, i.usage)
  BY DEF Intent, IntentHonest, Price
<1>2. Price(i.act, i.usage)' /\ act'[i.act].node = act[i.act].node
  BY <1>1, PriceKept, BornStays
<1>3. Gathered(i.act) => Gathered(i.act)'
  BY <1>1, GatheredKept
<1> QED BY <1>2, <1>3 DEF IntentHonest, IsJoin, NodeOf

LEMMA WorkHonestKept ==
  ASSUME Inv, [Next]_storeVars, NEW w \in WorkRec, NEW a \in Act, WorkHonest(w, a),
         w.st = "commit" => w.intent \in Intent
  PROVE  WorkHonest(w, a)'
<1>1. act[a].status # "unborn" => act'[a].status # "unborn" /\ act'[a].node = act[a].node
  BY BornStays
<1>2. act[a].status # "unborn" /\ Gathered(a) => Gathered(a)'
  BY GatheredKept
<1>3. Price(a, w.usage) => Price(a, w.usage)' /\ act[a].status # "unborn"
  BY PriceKept DEF Price
<1>4. w.st = "commit" => IntentHonest(w.intent)'
  BY IntentKept DEF WorkHonest
<1> QED BY <1>1, <1>2, <1>3, <1>4 DEF WorkHonest, IsJoin, NodeOf

\* A leader sees a member from each transition that the Join expects.
LEMMA LeaderGathers ==
  ASSUME NEW a \in Act, BarrierLeader(a)
  PROVE  Gathered(a)
<1>1. JoinMembers(a) \subseteq Members(a)
  BY DEF JoinMembers, Members, Born, LiveActs, Live
<1>2. {act[b].via : b \in JoinMembers(a)} \subseteq {act[b].via : b \in Members(a)}
  BY <1>1
<1> QED BY <1>2 DEF BarrierLeader, Gathered

\* What is learned is so.
LEMMA LearnsHonestly ==
  ASSUME KernelInv, Honest, NEW s \in Scheduler, NEW a \in Act, Learned(s, a),
         \A i \in prepared' : IntentHonest(i)
  PROVE  WorkHonest(work'[s][a], a)
<1> DEFINE w == work[s][a]
           new == work'[s][a]
<1>1. WorkHonest(w, a)
  BY DEF Honest
<1>2. w.st # "none" => act[a].status # "unborn" /\ NodeOf(a).type \in NodeType
  <2> SUFFICES ASSUME w.st # "none" PROVE act[a].status # "unborn" /\ NodeOf(a).type \in NodeType
    OBVIOUS
  <2>1. /\ w \in WorkRec /\ WorkSound(w, act[a], version) /\ act[a] \in ActivationRecord
        /\ NodeOf(a).type \in NodeType /\ w.tok \in Nat
    BY HeldFacts
  <2>2. Row(act[a])
    BY KernelFacts
  <2> QED BY <2>1, <2>2 DEF WorkSound, Row, ActivationRecord
<1>3. CASE new \in {w, NoWork}
  <2>1. WorkHonest(NoWork, a)
    BY DEF NoWork, WorkHonest
  <2> QED BY <1>1, <1>3, <2>1
<1>4. CASE new.st = "held"
  BY <1>4 DEF WorkHonest
<1>5. CASE w.st = "held" /\ new.st = "exec" /\ new.leader = (IsJoin(a) /\ BarrierLeader(a))
  BY <1>2, <1>5, LeaderGathers DEF WorkHonest
<1>6. CASE /\ w.st = "exec" /\ new.st = "finish"
           /\ \E usage \in Usages(a), result \in ExecutorResults(a, w.leader) \cup Thrown(a) :
                new.usage = usage /\ new.result = WithinLimits(a, result, usage)
  <2>1. PICK usage \in Usages(a), result \in ExecutorResults(a, w.leader) \cup Thrown(a) :
          new.usage = usage /\ new.result = WithinLimits(a, result, usage)
    BY <1>6
  <2>2. Price(a, new.usage)
    BY <1>2, <1>6, <2>1 DEF Price
  <2>3. ASSUME IsJoin(a), new.result = "success" PROVE Gathered(a)
    <3>1. result = "success"
      BY <2>1, <2>3 DEF WithinLimits, IsJoin
    <3>2. result = JoinResult(a, w.leader)
      BY <2>1, <2>3, <3>1 DEF ExecutorResults, Thrown, IsJoin
    <3>3. w.leader
      BY <3>1, <3>2 DEF JoinResult
    <3> QED BY <1>1, <1>6, <3>3 DEF WorkHonest
  <2> QED BY <1>6, <2>2, <2>3 DEF WorkHonest
<1>7. CASE w.st = "finish" /\ new.st = "finish" /\ new.usage = w.usage /\ new.result = "exhausted"
  BY <1>1, <1>7 DEF WorkHonest
<1>8. CASE w.st = "finish" /\ new.st = "commit" /\ new.intent \in prepared'
  BY <1>8 DEF WorkHonest
<1> QED BY <1>3, <1>4, <1>5, <1>6, <1>7, <1>8 DEF Learned

LEMMA HonestStep ==
  ASSUME KernelInv, Honest, [KernelNext]_vars
  PROVE  Honest'
<1>1. KernelInv' /\ [Next]_storeVars /\ Teaches /\ Inv
  BY KernelStep, StepTeaches, KernelFacts
<1>2. KernelTypes' /\ prepared' \subseteq Intent /\ KernelTypes /\ prepared \subseteq Intent
  BY <1>1, KernelFacts DEF KernelInv, Inv, TypeInv, TypeOK
<1>3. ASSUME NEW i \in prepared' PROVE IntentHonest(i)
  <2>1. CASE i \in prepared
    BY <2>1 DEF Honest
  <2>2. CASE \E s \in Scheduler, a \in Act : Reports(s, a, i)
    BY <2>2 DEF Reports, Honest, WorkHonest, IntentHonest
  <2> QED BY <1>1, <2>1, <2>2 DEF Teaches
<1>4. \A i \in prepared' : IntentHonest(i)'
  BY <1>1, <1>2, <1>3, IntentKept
<1>5. \A s \in Scheduler : \A i \in todo'[s] : IntentHonest(i)'
  <2>1. \A s \in Scheduler : \A i \in todo'[s] : i \in Intent /\ IntentHonest(i)
    BY <1>1, <1>2 DEF Honest, Teaches, KernelTypes
  <2> QED BY <1>1, <2>1, IntentKept
<1>6. ASSUME NEW s \in Scheduler, NEW a \in Act PROVE WorkHonest(work[s][a], a)'
  <2> DEFINE w == work'[s][a]
  <2>1. Learned(s, a)
    BY <1>1 DEF Teaches
  <2>2. WorkHonest(w, a)
    BY <1>3, <2>1, LearnsHonestly
  <2>3. w \in WorkRec /\ (w.st = "commit" => w.intent \in Intent)
    BY <1>1, <1>2 DEF KernelInv, KernelTypes, Known, WorkSound
  <2>4. PICK v : v = w
    OBVIOUS
  <2> HIDE DEF w
  <2>5. v \in WorkRec /\ WorkHonest(v, a) /\ (v.st = "commit" => v.intent \in Intent)
    BY <2>2, <2>3, <2>4
  <2>6. WorkHonest(v, a)'
    BY <1>1, <2>5, WorkHonestKept
  <2> QED BY <2>4, <2>6 DEF w, WorkHonest
<1> QED BY <1>4, <1>5, <1>6 DEF Honest

LEMMA HonestStart == KernelInit => Honest
<1> SUFFICES ASSUME KernelInit PROVE Honest
  OBVIOUS
<1>1. prepared = {} /\ \A s \in Scheduler : todo[s] = {} /\ \A a \in Act : work[s][a] = NoWork
  BY DEF KernelInit, Init
<1> QED BY <1>1 DEF Honest, WorkHonest, NoWork

\* A Join in mode `all' that reports success has had a member from each transition it
\* expects, although it decides on the wave's snapshot and its success is committed later
\* (executeJoin in NodeExecutors.ts).
THEOREM JoinsHaveAll == KernelSpec => []JoinHasAll
<1>1. Honest => JoinHasAll
  BY DEF Honest, IntentHonest, Gathered, Members, JoinHasAll
<1>2. KernelInv /\ [KernelNext]_vars => KernelInv'
  BY KernelStep
<1>3. KernelInv /\ Honest /\ [KernelNext]_vars => Honest'
  BY HonestStep
<1> QED BY <1>1, <1>2, <1>3, KernelStart, HonestStart, PTL DEF KernelSpec

-----------------------------------------------------------------------------
(* Cost: what is still to be charged once the limit has been passed *)

\* A segment that was finished below the limit hands its claim back with a charge, or
\* with the power to reopen a failed instance.  One that is finished above the limit
\* can only commit as 'exhausted' (WithinLimits).
Owes(w) == w.st = "finish" /\ w.result \notin Outcome /\ (w.usage > 0 \/ w.result = "blocked")
Owing == {a \in With("running") : \E s \in Scheduler : work[s][a].tok = act[a].lease /\ Owes(work[s][a])}

\* Segments that may still be charged: each that owes may reopen the instance, for one
\* more commit that finds no route.
Charges ==
  IF status \in {"done", "exhausted"} THEN 0
  ELSE IF status = "failed" THEN 2 * Cardinality(Owing) ELSE 2 * Cardinality(Owing) + 1

MostOf(u) == \A v \in Costs : v <= u
Spent ==
  \A u \in Costs : MostOf(u) /\ cost > Graph.limits.cost =>
    cost + u * Charges <= Graph.limits.cost + u * (2 * Graph.limits.running + 1)

LEMMA OwingFacts ==
  ASSUME Inv
  PROVE  /\ Owing \in SUBSET Act /\ Cardinality(Owing) \in Nat /\ Charges \in Nat
         /\ With("running") \in SUBSET Act /\ Cardinality(With("running")) \in Nat
         /\ cost \in Nat /\ Graph.limits.cost \in Nat /\ Graph.limits.running \in Nat
<1>1. With("running") \in SUBSET Act /\ Owing \in SUBSET Act
  BY DEF With, Owing
<1>2. Cardinality(Owing) \in Nat /\ Cardinality(With("running")) \in Nat
  BY <1>1, ActsFinite
<1>3. Charges \in Nat
  BY <1>2 DEF Charges
<1>4. Graph.limits.running \in Nat
  BY GraphAssumption
<1> QED BY <1>1, <1>2, <1>3, <1>4, KernelAssumption DEF Inv, TypeInv, TypeOK

\* Above the limit nobody comes to owe.
LEMMA NobodyNewOwes ==
  ASSUME KernelInv, Honest, [KernelNext]_vars, cost > Graph.limits.cost
  PROVE  Owing' \subseteq Owing
<1>1. /\ KernelInv' /\ [Next]_storeVars /\ Teaches /\ Inv /\ Honest'
      /\ cost \in Nat /\ Graph.limits.cost \in Nat
  BY KernelStep, StepTeaches, KernelFacts, HonestStep, OwingFacts
<1> SUFFICES ASSUME NEW a \in Owing' PROVE a \in Owing
  OBVIOUS
<1>2. PICK s \in Scheduler : work'[s][a].tok = act'[a].lease /\ Owes(work'[s][a])
  BY DEF Owing, Owes
<1>3. a \in Act /\ act'[a].status = "running"
  BY DEF Owing, With
<1> DEFINE w == work[s][a]
           new == work'[s][a]
<1>4. new.st = "finish" /\ new.result \notin Outcome /\ (new.usage > 0 \/ new.result = "blocked")
  BY <1>2 DEF Owes
<1>5. new = w
  <2>1. Learned(s, a)
    BY <1>1, <1>3 DEF Teaches
  <2>2. new \notin {NoWork}
    BY <1>4 DEF NoWork
  <2>3. ASSUME w.st = "exec",
               \E usage \in Usages(a), result \in ExecutorResults(a, w.leader) \cup Thrown(a) :
                 new.usage = usage /\ new.result = WithinLimits(a, result, usage)
        PROVE  FALSE
    <3>1. PICK usage \in Usages(a), result \in ExecutorResults(a, w.leader) \cup Thrown(a) :
            new.usage = usage /\ new.result = WithinLimits(a, result, usage)
      BY <2>3
    <3>2. usage \in Nat /\ NodeOf(a).type \in NodeType
      BY <1>3, <2>3, ExecutorTypes, HeldFacts
    <3>3. CASE NodeOf(a).type = "agent"
      <4>1. cost + usage > Graph.limits.cost
        BY <1>1, <3>2
      <4> QED BY <1>4, <3>1, <3>3, <4>1 DEF WithinLimits, Outcome
    <3>4. CASE NodeOf(a).type # "agent"
      <4>1. new.usage = 0 /\ new.result = result
        BY <3>1, <3>4 DEF Usages, WithinLimits
      <4>2. result = "blocked"
        BY <1>4, <4>1
      <4>3. result \notin Thrown(a)
        BY <3>4, <4>2 DEF Thrown
      <4>4. result \notin ExecutorResults(a, w.leader)
        BY <3>2, <3>4, <4>2 DEF ExecutorResults, NodeType, WaitResult, JoinResult
      <4> QED BY <3>1, <4>3, <4>4
    <3> QED BY <3>3, <3>4
  <2> QED BY <1>4, <2>1, <2>2, <2>3 DEF Learned, Outcome
<1>6. act[a].status = "running" /\ act[a].lease = act'[a].lease
  <2>1. w \in WorkRec /\ WorkSound(w, act[a], version) /\ act[a] \in ActivationRecord /\ Row(act[a])
    BY <1>3, KernelFacts DEF KernelTypes, Known
  <2>2. w.tok <= act[a].seg /\ w.tok \in Nat /\ act[a].seg \in Nat
    BY <1>4, <1>5, <2>1 DEF WorkSound, WorkRec, ActivationRecord
  <2>3. CASE UNCHANGED storeVars
    BY <1>3, <2>3 DEF storeVars
  <2>4. CASE Next
    <3>1. Continues(act[a], act'[a]) \/ Starts(act[a], act'[a])
      <4>1. Evolving \/ Starting
        BY <1>1, <2>4, NextInv
      <4> QED BY <1>3, <2>1, <4>1, SameContinues DEF Evolving, Starting, Begins
    <3>2. ~Starts(act[a], act'[a])
      BY <1>2, <1>5, <2>2 DEF Starts
    <3> QED BY <1>3, <3>1, <3>2 DEF Continues
  <2> QED BY <1>1, <2>3, <2>4
<1> QED BY <1>2, <1>3, <1>5, <1>6 DEF Owing, With

\* What a step may charge, and to whom.
Handing == \E s \in Scheduler, a \in Act : work[s][a].st = "finish" /\ Releases(s, a)
Committed == \E i \in Intent : IntentHonest(i) /\ Commit(i)
Uncharged == cost' = cost /\ (status = "failed" => status' = "failed")

LEMMA StepCharges ==
  ASSUME KernelInv, Honest, [KernelNext]_vars
  PROVE  Handing \/ Committed \/ Uncharged
<1>1. KernelTypes /\ Known
  BY KernelFacts
<1>2. ASSUME NEW st, SetStatus(st) PROVE Uncharged
  BY <1>2 DEF SetStatus, Uncharged, storeVars, Final
<1>3. CASE UNCHANGED storeVars
  BY <1>3 DEF storeVars, Uncharged
<1>4. CASE Outside
  <2>1. CASE Resume
    BY <2>1 DEF Resume, ResumePausedTerminal, ResumeFails, Uncharged
  <2>2. CASE \E e \in Event : RecordExternalEvent(e)
    BY <2>2 DEF RecordExternalEvent, Uncharged
  <2>3. CASE ClockTicks
    BY <2>3 DEF ClockTicks, TimerFires, Uncharged
  <2> QED BY <1>2, <1>3, <1>4, <2>1, <2>2, <2>3 DEF Outside, OperatorPause, OperatorStop, OperatorResume,
             OperatorResumes, DeliverEvent, DeliverLooks, DeliverActivates
<1>5. ASSUME NEW s \in Scheduler, Tick(s) \/ WallClockExhausted(s) \/ Crash(s)
      PROVE  Handing \/ Committed \/ Uncharged
  <2>1. CASE \E i \in todo[s] : RecoverIntent(s, i)
    <3>1. PICK i \in todo[s] : RecoverIntent(s, i)
      BY <2>1
    <3>2. i \in Intent /\ IntentHonest(i)
      BY <1>1 DEF KernelTypes, Honest
    <3>3. Commit(i) \/ UNCHANGED storeVars
      BY <3>1 DEF RecoverIntent
    <3> QED BY <1>3, <3>2, <3>3 DEF Committed
  <2>2. CASE \E a \in Act : CommitIntent(s, a)
    <3>1. PICK a \in Act : CommitIntent(s, a)
      BY <2>2
    <3> DEFINE i == work[s][a].intent
    <3>2. i \in Intent /\ IntentHonest(i)
      BY <1>1, <3>1 DEF CommitIntent, Known, WorkSound, Honest, WorkHonest
    <3>3. Commit(i) \/ UNCHANGED storeVars
      BY <3>1 DEF CommitIntent
    <3> HIDE DEF i
    <3> QED BY <1>3, <3>2, <3>3 DEF Committed
  <2>3. CASE \E a \in Act : Finish(s, a)
    <3>1. PICK a \in Act : Finish(s, a)
      BY <2>3
    <3>2. CASE Releases(s, a)
      BY <3>1, <3>2 DEF Finish, Handing
    <3>3. CASE Prepares(s, a)
      BY <3>3 DEF Prepares, PrepareCommit, Uncharged
    <3>4. CASE UNCHANGED storeVars
      BY <1>3, <3>4
    <3> QED BY <3>1, <3>2, <3>3, <3>4 DEF Finish, ParkRefused
  <2>4. CASE TickStart(s) \/ RecoverEnd(s) \/ ReadSnapshot(s) \/ WaveEnd(s) \/ SyncRead(s) \/ Crash(s)
             \/ (\E j \in todo[s] : RecoverThrows(s, j))
             \/ (\E a \in Act : Execute(s, a) \/ ExecuteThrows(s, a))
    BY <1>3, <2>4 DEF TickStart, RecoverEnd, ReadSnapshot, WaveEnd, SyncRead, Crash, RecoverThrows, Execute,
                ExecuteThrows
  <2>5. CASE SyncWrite(s) \/ WallClockExhausted(s)
    BY <1>2, <2>5 DEF SyncWrite, WallClockExhausted
  <2>6. CASE JoinsAndEvents(s) \/ ResumeTimers(s)
    BY <2>6 DEF JoinsAndEvents, ReconcileJoins, ExpireEvents, DrainInbox, NotifyJoin, ResumeTimers,
                ReconcileWaitingJoins, ExpireStaleExternalEvents, ResumePendingExternalEvents, ResumeDue,
                Uncharged
  <2>7. CASE \/ \E E \in SUBSET With("running") : ReleaseClaims(s, E)
             \/ \E S \in SUBSET With("ready") : Claim(s, S)
    BY <2>7 DEF ReleaseClaims, Claim, ReleaseExpired, ClaimReady, storeVars, Uncharged
  <2> QED BY <1>5, <2>1, <2>2, <2>3, <2>4, <2>5, <2>6, <2>7 DEF Tick, Turn
<1> QED BY <1>3, <1>4, <1>5 DEF KernelNext, vars

\* A step that charges takes a charge away.
LEMMA Times ==
  ASSUME NEW u \in Nat, NEW m \in Nat, NEW n \in Nat
  PROVE  /\ u * m \in Nat /\ u * (m + 1) = u * m + u
         /\ m <= n => u * m <= u * n
<1>1. u * m \in Nat /\ u * n \in Nat /\ u * (m + 1) = u * m + u
  OBVIOUS
<1>2. ASSUME m <= n PROVE u * m <= u * n
  <2>1. n - m \in Nat /\ u * (n - m) \in Nat /\ u * n = u * m + u * (n - m)
    BY <1>2
  <2> QED BY <1>1, <2>1
<1> QED BY <1>1, <1>2

LEMMA SpendArithmetic ==
  ASSUME NEW L \in Nat, NEW R \in Nat, NEW u \in Nat, NEW c \in Nat, NEW d \in Nat,
         NEW C \in Nat, NEW D \in Nat,
         c > L => c + u * C <= L + u * (2 * R + 1),
         \/ c > L /\ d = c /\ D <= C
         \/ c > L /\ d <= c + u /\ D + 1 <= C
         \/ c <= L /\ d <= c + u /\ D <= 2 * R
  PROVE  d + u * D <= L + u * (2 * R + 1)
<1> DEFINE left == u * C
           left2 == u * D
           most == u * (2 * R)
           all == u * (2 * R + 1)
<1>1. left \in Nat /\ (D <= C => left2 <= left)
  BY Times
<1>2. left2 \in Nat /\ u * (D + 1) = left2 + u
  BY Times
<1>3. D + 1 <= C => u * (D + 1) <= left
  <2>1. D + 1 \in Nat
    OBVIOUS
  <2> QED BY <2>1, Times
<1>4. 2 * R \in Nat
  OBVIOUS
<1>5. most \in Nat /\ all = most + u
  BY <1>4, Times
<1>6. D <= 2 * R => left2 <= most
  BY <1>4, Times
<1>7. c > L => c + left <= L + all
  OBVIOUS
<1>8. D + 1 <= C => left2 + u <= left
  BY <1>2, <1>3
<1> HIDE DEF left, left2, most, all
<1>9. d + left2 <= L + all
  <2>1. CASE c > L /\ d = c /\ D <= C
    BY <1>1, <1>2, <1>5, <1>7, <2>1
  <2>2. CASE c > L /\ d <= c + u /\ D + 1 <= C
    BY <1>1, <1>2, <1>5, <1>7, <1>8, <2>2
  <2>3. CASE c <= L /\ d <= c + u /\ D <= 2 * R
    BY <1>2, <1>5, <1>6, <2>3
  <2> QED BY <2>1, <2>2, <2>3
<1> QED BY <1>9 DEF left2, all

LEMMA SpendRule ==
  ASSUME Inv, Inv', Spent,
         \A u \in Costs : MostOf(u) =>
           \/ cost' <= Graph.limits.cost
           \/ cost > Graph.limits.cost /\ cost' = cost /\ Charges' <= Charges
           \/ cost > Graph.limits.cost /\ cost' <= cost + u /\ Charges' + 1 <= Charges
           \/ cost <= Graph.limits.cost /\ cost' <= cost + u /\ Charges' <= 2 * Graph.limits.running
  PROVE  Spent'
<1> SUFFICES ASSUME NEW u \in Costs, MostOf(u), cost' > Graph.limits.cost
             PROVE  cost' + u * Charges' <= Graph.limits.cost + u * (2 * Graph.limits.running + 1)
  BY DEF Spent, MostOf
<1>1. cost \in Nat /\ Graph.limits.cost \in Nat /\ Graph.limits.running \in Nat /\ Charges \in Nat
  BY OwingFacts
<1>2. (cost \in Nat /\ Charges \in Nat)'
  BY OwingFacts, PTL
<1>3. cost' \in Nat /\ Charges' \in Nat /\ u \in Nat
  BY <1>2, KernelAssumption
<1>4. cost > Graph.limits.cost =>
        cost + u * Charges <= Graph.limits.cost + u * (2 * Graph.limits.running + 1)
  BY DEF Spent
<1> DEFINE L == Graph.limits.cost
           d == cost'
<1>5. ~(d <= L)
  <2>1. L \in Nat /\ d \in Nat /\ d > L
    BY <1>1, <1>3
  <2> HIDE DEF L, d
  <2> QED BY <2>1
<1>6. \/ cost > Graph.limits.cost /\ cost' = cost /\ Charges' <= Charges
      \/ cost > Graph.limits.cost /\ cost' <= cost + u /\ Charges' + 1 <= Charges
      \/ cost <= Graph.limits.cost /\ cost' <= cost + u /\ Charges' <= 2 * Graph.limits.running
  BY <1>5
<1> QED BY <1>1, <1>3, <1>4, <1>6, SpendArithmetic

\* The charges that are left, by what becomes of the instance.
LEMMA ChargesLeft ==
  ASSUME Inv, Inv', status \notin {"done", "exhausted"} \/ status' = status
  PROVE  /\ Owing' \subseteq Owing /\ (status = "failed" => status' = "failed") => Charges' <= Charges
         /\ Cardinality(Owing') < Cardinality(Owing) /\ status \notin {"done", "exhausted"} =>
              Charges' + 1 <= Charges
         /\ Owing' \subseteq Owing /\ status' = "failed" /\ status \in {"active", "waiting"} =>
              Charges' + 1 <= Charges
<1>1. Owing \in SUBSET Act /\ Cardinality(Owing) \in Nat
  BY OwingFacts
<1>2. (Cardinality(Owing) \in Nat)'
  BY OwingFacts, PTL
<1>3. Owing' \subseteq Owing => Cardinality(Owing') <= Cardinality(Owing)
  BY <1>1, FewerActs
<1> DEFINE m == Cardinality(Owing)
           n == Cardinality(Owing')
<1>4. /\ Charges = IF status \in {"done", "exhausted"} THEN 0 ELSE IF status = "failed" THEN 2 * m ELSE 2 * m + 1
      /\ Charges' = IF status' \in {"done", "exhausted"} THEN 0 ELSE IF status' = "failed" THEN 2 * n ELSE 2 * n + 1
  BY DEF Charges
<1>5. m \in Nat /\ n \in Nat /\ (Owing' \subseteq Owing => n <= m)
  BY <1>1, <1>2, <1>3
<1> HIDE DEF m, n
<1>6. Owing' \subseteq Owing /\ (status = "failed" => status' = "failed") => Charges' <= Charges
  BY <1>4, <1>5
<1>7. n < m /\ status \notin {"done", "exhausted"} => Charges' + 1 <= Charges
  BY <1>4, <1>5
<1>8. Owing' \subseteq Owing /\ status' = "failed" /\ status \in {"active", "waiting"} => Charges' + 1 <= Charges
  BY <1>4, <1>5
<1> QED BY <1>6, <1>7, <1>8 DEF m, n

LEMMA ClosedKept ==
  ASSUME Inv, [Next]_storeVars
  PROVE  status \notin {"done", "exhausted"} \/ status' = status
BY ClosedStays DEF storeVars

LEMMA UsageIs ==
  ASSUME NEW a, NEW usage \in Usages(a), NEW u \in Costs, MostOf(u)
  PROVE  usage \in Nat /\ usage <= u
BY KernelAssumption DEF Usages, MostOf

LEMMA UnchargedSpends ==
  ASSUME KernelInv, Honest, Spent, [KernelNext]_vars, Uncharged
  PROVE  Spent'
<1>1. /\ Inv /\ Inv' /\ [Next]_storeVars /\ cost \in Nat /\ Graph.limits.cost \in Nat
  BY KernelStep, OwingFacts DEF KernelInv
<1>2. cost > Graph.limits.cost => Charges' <= Charges
  BY <1>1, NobodyNewOwes, ChargesLeft, ClosedKept DEF Uncharged
<1>3. cost' = cost
  BY DEF Uncharged
<1>4. cost > Graph.limits.cost \/ cost' <= Graph.limits.cost
  BY <1>1, <1>3
<1> QED BY <1>1, <1>2, <1>3, <1>4, SpendRule

\* A claim handed back.
LEMMA HandingSpends ==
  ASSUME KernelInv, Honest, Spent, WithinCapacity, [KernelNext]_vars, Handing
  PROVE  Spent'
<1>1. /\ Inv /\ Inv' /\ [Next]_storeVars /\ cost \in Nat /\ Graph.limits.cost \in Nat
      /\ Graph.limits.running \in Nat
  BY KernelStep, OwingFacts DEF KernelInv
<1>2. PICK s \in Scheduler, a \in Act : work[s][a].st = "finish" /\ Releases(s, a)
  BY DEF Handing
<1> DEFINE w == work[s][a]
<1>3. /\ act[a].status = "running" /\ act[a].lease = w.tok /\ cost' = cost + w.usage
      /\ w.result \in {"retry", "aborted", "blocked", "fatal", "parked"}
      /\ status' = status \/ status' = "failed" \/ w.result = "blocked"
      /\ \E rec : rec.status # "running" /\ act' = [act EXCEPT ![a] = rec]
  <2>1. act[a] \in ActivationRecord
    BY KernelFacts
  <2>2. ASSUME NEW tok, NEW consume, NEW delay, NEW usage, Retry(a, tok, consume, delay, usage)
        PROVE  \E rec : rec.status # "running" /\ act' = [act EXCEPT ![a] = rec]
    <3> DEFINE rec == [act[a] EXCEPT !.replays = IF consume THEN @ ELSE @ + 1]
               why == IF consume THEN "retry" ELSE "replay"
               new == IF delay /\ TimerBudgetLeft THEN ToWaiting(rec, why, "armed", None)
                                                  ELSE ToReady(rec, why)
    <3>1. act' = [act EXCEPT ![a] = new]
      BY <2>2 DEF Retry, Release
    <3>2. DOMAIN rec = DOMAIN act[a]
      OBVIOUS
    <3> HIDE DEF rec, why
    <3>3. new.status # "running"
      BY <2>1, <3>2 DEF ToWaiting, ToReady, ActivationRecord
    <3> QED BY <3>1, <3>3
  <2>3. ASSUME NEW tok, NEW usage, Block(a, tok, usage)
        PROVE  \E rec : rec.status # "running" /\ act' = [act EXCEPT ![a] = rec]
    <3> DEFINE rec == [act[a] EXCEPT !.replays = @ + 1]
               new == ToReady(rec, "replay")
    <3>1. act' = [act EXCEPT ![a] = new]
      BY <2>3 DEF Block, Release
    <3>2. DOMAIN rec = DOMAIN act[a]
      OBVIOUS
    <3> HIDE DEF rec
    <3>3. new.status # "running"
      BY <2>1, <3>2 DEF ToReady, ActivationRecord
    <3> QED BY <3>1, <3>3
  <2>4. ASSUME NEW tok, NEW usage, FailStop(a, tok, usage)
        PROVE  \E rec : rec.status # "running" /\ act' = [act EXCEPT ![a] = rec]
    <3>1. act' = [act EXCEPT ![a] = ToSettled(act[a], "failed")]
      BY <2>4 DEF FailStop, Release
    <3>2. ToSettled(act[a], "failed").status # "running"
      BY <2>1 DEF ToSettled, ActivationRecord
    <3> QED BY <3>1, <3>2
  <2>5. ASSUME NEW tok, NEW timer, NEW event, NEW usage, Park(a, tok, timer, event, usage)
        PROVE  \E rec : rec.status # "running" /\ act' = [act EXCEPT ![a] = rec]
    <3>1. act' = [act EXCEPT ![a] = ToWaiting(act[a], "continuation", timer, event)]
      BY <2>5 DEF Park, Release
    <3>2. ToWaiting(act[a], "continuation", timer, event).status # "running"
      BY <2>1 DEF ToWaiting, ActivationRecord
    <3> QED BY <3>1, <3>2
  <2>6. \E rec : rec.status # "running" /\ act' = [act EXCEPT ![a] = rec]
    BY <1>2, <2>2, <2>3, <2>4, <2>5 DEF Releases
  <2>7. /\ act[a].status = "running" /\ act[a].lease = w.tok /\ cost' = cost + w.usage
        /\ w.result \in {"retry", "aborted", "blocked", "fatal", "parked"}
        /\ status' = status \/ status' = "failed" \/ w.result = "blocked"
    BY <1>2 DEF Releases, Retry, Block, FailStop, Park, Release, Holds
  <2> QED BY <2>6, <2>7
<1>4. w.usage \in Usages(a) /\ w.result \notin Outcome /\ status \notin {"done", "exhausted"}
  <2>1. a \in LiveActs
    BY <1>3 DEF LiveActs, Live
  <2> QED BY <1>1, <1>2, <1>3, <2>1 DEF Honest, WorkHonest, Price, Outcome, Inv, ClosedIsQuiet
<1>5. a \in With("running") /\ With("running")' \subseteq With("running") \ {a}
  <2>1. act = [b \in Act |-> act[b]]
    BY <1>1 DEF Inv, TypeInv, TypeOK
  <2>2. PICK rec : rec.status # "running" /\ act' = [act EXCEPT ![a] = rec]
    BY <1>3
  <2>3. act'[a] = rec /\ \A b \in Act \ {a} : act'[b] = act[b]
    BY <2>1, <2>2
  <2> QED BY <1>3, <2>2, <2>3 DEF With
<1> SUFFICES ASSUME NEW u \in Costs, MostOf(u)
             PROVE  \/ cost' <= Graph.limits.cost
                    \/ cost > Graph.limits.cost /\ cost' = cost /\ Charges' <= Charges
                    \/ cost > Graph.limits.cost /\ cost' <= cost + u /\ Charges' + 1 <= Charges
                    \/ cost <= Graph.limits.cost /\ cost' <= cost + u /\ Charges' <= 2 * Graph.limits.running
  BY <1>1, SpendRule
<1>6. w.usage \in Nat /\ w.usage <= u /\ u \in Nat
  BY <1>4, UsageIs, KernelAssumption
<1>7. cost' <= cost + u
  BY <1>1, <1>3, <1>6
<1>8. CASE cost > Graph.limits.cost /\ ~Owes(w)
  <2>1. w.usage = 0 /\ w.result # "blocked"
    BY <1>2, <1>4, <1>6, <1>8 DEF Owes
  <2>2. cost' = cost /\ (status = "failed" => status' = "failed")
    BY <1>1, <1>3, <2>1
  <2>3. Charges' <= Charges
    BY <1>1, <1>8, <2>2, NobodyNewOwes, ChargesLeft, ClosedKept
  <2> QED BY <1>8, <2>2, <2>3
<1>9. CASE cost > Graph.limits.cost /\ Owes(w)
  <2>1. a \in Owing
    BY <1>3, <1>5, <1>9 DEF Owing
  <2>2. Owing' \subseteq Owing \ {a}
    <3>1. Owing' \subseteq With("running")'
      BY DEF Owing
    <3> QED BY <1>5, <1>9, <3>1, NobodyNewOwes
  <2>3. Cardinality(Owing') < Cardinality(Owing)
    <3>1. Owing \in SUBSET Act /\ Owing \ {a} \in SUBSET Act
      BY OwingFacts, <1>1
    <3>2. IsFiniteSet(Owing) /\ Cardinality(Owing) \in Nat
      BY <3>1, ActsFinite
    <3>3. Cardinality(Owing \ {a}) = Cardinality(Owing) - 1
      BY <2>1, <3>2, FS_RemoveElement
    <3>4. Cardinality(Owing') <= Cardinality(Owing \ {a}) /\ Cardinality(Owing') \in Nat
      BY <2>2, <3>1, FewerActs
    <3> QED BY <3>2, <3>3, <3>4
  <2>4. Charges' + 1 <= Charges
    BY <1>1, <1>4, <2>3, ChargesLeft
  <2> QED BY <1>7, <1>9, <2>4
<1>10. CASE ~(cost > Graph.limits.cost)
  <2>1. With("running") \in SUBSET Act /\ With("running") \ {a} \in SUBSET Act
    BY DEF With
  <2>2. Owing' \subseteq With("running") \ {a}
    <3>1. Owing' \subseteq With("running")'
      BY DEF Owing
    <3> QED BY <1>5, <3>1
  <2>3. IsFiniteSet(With("running")) /\ Cardinality(With("running")) \in Nat
    BY <2>1, ActsFinite
  <2>4. Cardinality(With("running") \ {a}) = Cardinality(With("running")) - 1
    BY <1>5, <2>3, FS_RemoveElement
  <2>5. Cardinality(Owing') <= Cardinality(With("running") \ {a}) /\ Cardinality(Owing') \in Nat
    BY <2>1, <2>2, FewerActs
  <2>6. Cardinality(With("running")) <= Graph.limits.running
    BY DEF WithinCapacity
  <2>7. Cardinality(Owing') + 1 <= Graph.limits.running
    BY <1>1, <2>3, <2>4, <2>5, <2>6
  <2>8. Charges' <= 2 * Cardinality(Owing') + 1
    BY <2>5 DEF Charges
  <2>9. Charges' \in Nat
    <3>1. (Charges \in Nat)'
      BY <1>1, OwingFacts, PTL
    <3> QED BY <3>1
  <2> QED BY <1>1, <1>7, <1>10, <2>5, <2>7, <2>8, <2>9
<1> QED BY <1>8, <1>9, <1>10

\* A commit stays below the limit, or exhausts the instance, or fails it for want of a
\* route; a Terminal costs nothing.
LEMMA CommittedSpends ==
  ASSUME KernelInv, Honest, Spent, WithinCapacity, WithinCapacity', [KernelNext]_vars, Committed
  PROVE  Spent'
<1>1. /\ Inv /\ Inv' /\ [Next]_storeVars /\ cost \in Nat /\ Graph.limits.cost \in Nat
      /\ Graph.limits.running \in Nat /\ Charges \in Nat /\ TypeInv
  BY KernelStep, OwingFacts, KernelFacts DEF KernelInv
<1>2. PICK i \in Intent : IntentHonest(i) /\ Commit(i)
  BY DEF Committed
<1>3. /\ cost' = cost + i.usage /\ status \in {"active", "waiting"}
      /\ \/ cost' <= Graph.limits.cost
         \/ status' = "exhausted"
         \/ status' = "failed" /\ NodeOf(i.act).type # "terminal"
         \/ NodeOf(i.act).type = "terminal"
  <2>1. CASE CommitReplay(i)
    BY <2>1 DEF CommitReplay, FirstCommit, Committable, MayReplay
  <2>2. CASE CommitTerminal(i)
    BY <2>2 DEF CommitTerminal, Record, FirstCommit, Committable
  <2>3. CASE CommitUnrouted(i)
    BY <2>3 DEF CommitUnrouted, Record, FirstCommit, Committable
  <2>4. CASE \E r \in Graph.routes : \E T \in SUBSET r.to : \E f \in Births(T) : CommitRoute(i, r, f)
    <3>1. PICK r \in Graph.routes : \E f : CommitRoute(i, r, f)
      BY <2>4
    <3>2. PICK f : CommitRoute(i, r, f)
      BY <3>1
    <3>3. Record(i) /\ (status' = "exhausted" \/ ~(cost + i.usage > Graph.limits.cost))
      BY <3>2 DEF CommitRoute, OverLimit
    <3>4. i.usage \in Nat
      BY DEF Intent
    <3> QED BY <1>1, <3>3, <3>4 DEF Record, FirstCommit, Committable
  <2> QED BY <1>2, <2>1, <2>2, <2>3, <2>4 DEF Commit
<1> SUFFICES ASSUME NEW u \in Costs, MostOf(u)
             PROVE  \/ cost' <= Graph.limits.cost
                    \/ cost > Graph.limits.cost /\ cost' = cost /\ Charges' <= Charges
                    \/ cost > Graph.limits.cost /\ cost' <= cost + u /\ Charges' + 1 <= Charges
                    \/ cost <= Graph.limits.cost /\ cost' <= cost + u /\ Charges' <= 2 * Graph.limits.running
  BY <1>1, SpendRule
<1>4. i.usage \in Usages(i.act) /\ i.usage \in Nat /\ i.usage <= u /\ u \in Nat
  BY <1>2, UsageIs, KernelAssumption DEF IntentHonest, Price
<1>5. cost' <= cost + u /\ cost' \in Nat
  BY <1>1, <1>3, <1>4
<1>6. cost > Graph.limits.cost => Owing' \subseteq Owing
  BY NobodyNewOwes
<1>7. CASE cost' <= Graph.limits.cost
  BY <1>7
<1>8. CASE status' = "exhausted"
  <2>1. Charges' = 0
    BY <1>8 DEF Charges
  <2>2. 1 <= Charges
    <3>1. Charges = 2 * Cardinality(Owing) + 1 /\ Cardinality(Owing) \in Nat
      BY <1>1, <1>3, OwingFacts DEF Charges
    <3> QED BY <3>1
  <2> QED BY <1>1, <1>5, <2>1, <2>2
<1>9. CASE status' = "failed" /\ NodeOf(i.act).type # "terminal"
  <2>1. CASE cost > Graph.limits.cost
    <3>1. Charges' + 1 <= Charges
      BY <1>1, <1>3, <1>6, <1>9, <2>1, ChargesLeft
    <3> QED BY <1>5, <2>1, <3>1
  <2>2. CASE ~(cost > Graph.limits.cost)
    <3>1. Charges' = 2 * Cardinality(Owing')
      BY <1>9 DEF Charges
    <3>2. (Owing \subseteq With("running") /\ Cardinality(Owing) \in Nat /\ With("running") \in SUBSET Act)'
      <4>1. (Owing \subseteq With("running"))'
        BY DEF Owing
      <4>2. (Cardinality(Owing) \in Nat /\ With("running") \in SUBSET Act)'
        BY <1>1, OwingFacts, PTL
      <4> QED BY <4>1, <4>2
    <3>3. Cardinality(Owing') <= Cardinality(With("running")') /\ Cardinality(With("running")') \in Nat
      BY <3>2, FewerActs, ActsFinite
    <3>4. Cardinality(With("running")') <= Graph.limits.running
      BY DEF WithinCapacity
    <3>5. Cardinality(Owing') <= Graph.limits.running /\ Cardinality(Owing') \in Nat
      BY <1>1, <3>2, <3>3, <3>4
    <3>6. Charges' <= 2 * Graph.limits.running
      BY <1>1, <3>1, <3>5
    <3> QED BY <1>1, <1>5, <2>2, <3>6
  <2> QED BY <2>1, <2>2
<1>10. CASE NodeOf(i.act).type = "terminal"
  <2>1. i.usage = 0
    BY <1>4, <1>10 DEF Usages
  <2>2. cost' = cost
    BY <1>1, <1>3, <2>1
  <2>3. cost > Graph.limits.cost => Charges' <= Charges
    BY <1>1, <1>3, <1>6, ChargesLeft
  <2> QED BY <1>1, <2>2, <2>3
<1> QED BY <1>3, <1>7, <1>8, <1>9, <1>10

LEMMA SpentStart == KernelInit => Spent
<1> SUFFICES ASSUME KernelInit PROVE Spent
  OBVIOUS
<1>1. cost = 0 /\ Graph.limits.cost \in Nat
  BY KernelAssumption DEF KernelInit, Init
<1>2. ~(cost > Graph.limits.cost)
  BY <1>1
<1> QED BY <1>2 DEF Spent

LEMMA SpentBounds ==
  ASSUME KernelInv, Spent
  PROVE  CostBounded
<1> SUFFICES ASSUME NEW u \in Costs, MostOf(u)
             PROVE  cost <= Graph.limits.cost + (2 * Graph.limits.running + 1) * u
  BY DEF CostBounded, MostOf
<1> DEFINE L == Graph.limits.cost
           n == 2 * Graph.limits.running + 1
<1>1. cost \in Nat /\ L \in Nat /\ Charges \in Nat /\ u \in Nat /\ n \in Nat
  BY KernelFacts, OwingFacts, KernelAssumption
<1>2. u * Charges \in Nat /\ u * n \in Nat /\ n * u = u * n
  BY <1>1, Times
<1>3. cost > L => cost + u * Charges <= L + u * n
  BY DEF Spent
<1> HIDE DEF L, n
<1>4. cost <= L + n * u
  <2>1. CASE cost > L
    BY <1>1, <1>2, <1>3, <2>1
  <2>2. CASE ~(cost > L)
    BY <1>1, <1>2, <2>2
  <2> QED BY <2>1, <2>2
<1> QED BY <1>4 DEF L, n

\* limits.maxActivations, maxPendingTimers and maxCostUsd hold of the whole instance,
\* although claims, parks, backoffs and commits of different schedulers, and recoveries
\* after crashes, are each measured on their own (claimReady, park, commit,
\* enforceExecutionLimits).
THEOREM LimitsAreKept == KernelSpec => []LimitsHold
<1>1. KernelInv /\ Honest /\ Spent /\ WithinCapacity /\ WithinCapacity' /\ [KernelNext]_vars => Spent'
  BY StepCharges, UnchargedSpends, HandingSpends, CommittedSpends
<1>2. KernelInv /\ [KernelNext]_vars => KernelInv'
  BY KernelStep
<1>3. KernelInv /\ Honest /\ [KernelNext]_vars => Honest'
  BY HonestStep
<1>4. KernelInv /\ Spent /\ WithinCapacity /\ TimersWithinBudget => LimitsHold
  BY SpentBounds DEF LimitsHold
<1>5. KernelSpec => [](WithinCapacity /\ TimersWithinBudget)
  BY KernelImplementsStore, CapacityHolds, TimersAreBounded, PTL
<1>6. KernelSpec => [](KernelInv /\ Honest)
  BY <1>2, <1>3, KernelStart, HonestStart, PTL DEF KernelSpec
<1> QED BY <1>1, <1>4, <1>5, <1>6, SpentStart, PTL DEF KernelSpec

\* A Join fires once for its fork group, and complete, in every graph whose Joins are
\* entered by commits of other nodes.
THEOREM JoinsAreRight ==
  ASSUME JoinsAreEntered
  PROVE  KernelSpec => []JoinsRight
<1>1. JoinsOnce /\ JoinHasAll => JoinsRight
  BY DEF JoinsRight
<1>2. Spec => []JoinsOnce
  BY JoinsFireOnce
<1> QED BY <1>1, <1>2, KernelImplementsStore, JoinsHaveAll, PTL

=============================================================================
