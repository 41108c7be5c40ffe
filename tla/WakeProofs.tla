----------------------------- MODULE WakeProofs -----------------------------
(***************************************************************************)
(* Proofs about LoopRunner: for any number of wakes and runners and any    *)
(* disturbances, no two ticks are in flight as long as claims are renewed  *)
(* and the loop's wakes are not cancelled under them (OneTick), and nobody *)
(* drops a wake that is not its own (StaleOwnerFenced).                    *)
(*                                                                         *)
(* Both rest on one inductive invariant: while no claim is let expire, a   *)
(* runner that has not yet released its wake finds it claimed by itself,   *)
(* or cancelled; no two runners have the same wake; and at most one claim  *)
(* is alive.                                                               *)
(***************************************************************************)
EXTENDS LoopRunner, TLAPS

JobRecord == [wake: Wake \cup {None}, failed: BOOLEAN, progressed: BOOLEAN,
              derived: {"active", "waiting", "paused", "final"}]

PollState == [pc: PollPc, seen: SUBSET Target, bare: BOOLEAN, timed: BOOLEAN]

\* Runners that have not released their wake yet, and those that have.
Keeping == InTick \cup {"start", "release", "error", "giveUpRelease"}
Dropped == {"sweep", "giveUpSweep"}

RunnerTypes ==
  /\ WakeTypeOK
  /\ pc \in [Runner -> RunnerPc]
  /\ job \in [Runner -> JobRecord]
  /\ \A r \in Runner : pc[r] # "idle" => job[r].wake \in Wake
  /\ status \in {"active", "waiting", "paused", "final"}
  /\ poll \in PollState

\* A claim that counts.
Alive(w) == wake[w].status = "claimed" /\ ~wake[w].expired

KeepsOwn(r) ==
  LET k == wake[job[r].wake]
  IN k.status \in {"claimed", "cancelled"} /\ k.claim = r /\ ~k.expired

ClaimsSound ==
  /\ \A r \in Runner : pc[r] \in Keeping => KeepsOwn(r)
  /\ \A r \in Runner : pc[r] \in Dropped => wake[job[r].wake].status = "free" /\ ~wake[job[r].wake].expired
  /\ \A r, q \in Runner : pc[r] # "idle" /\ pc[q] # "idle" /\ r # q => job[r].wake # job[q].wake
  /\ \A w, v \in Wake : Alive(w) /\ Alive(v) => w = v

WakesInv == RunnerTypes /\ ("stall" \notin happened => ClaimsSound)

-----------------------------------------------------------------------------
(* What the methods of the wake store leave alone *)

\* A wake that a runner refers to is changed only if it is pending, if its claim has
\* run out, or by being cancelled; and no claim comes about.
MildChange(w) ==
  \/ wake'[w] = wake[w]
  \/ /\ wake'[w].status # "claimed"
     /\ \/ w \notin Held
        \/ wake[w].status = "pending"
        \/ wake[w].status = "claimed" /\ wake[w].expired
        \/ /\ wake[w].status = "claimed" /\ wake'[w].status = "cancelled"
           /\ wake'[w].claim = wake[w].claim /\ ~wake'[w].expired

Mild == \A w \in Wake : MildChange(w)

\* A pending wake goes only with all the others.
Fenced == \A w \in Pending : wake'[w].status = "free" => LiveWakes' = {}

WakesMove == WakeTypeOK' /\ Mild /\ Fenced

LEMMA FreeIsARecord == MaxAttempts \in Nat => Free \in WakeRecord
BY DEF Free, WakeRecord, WakeStatus, Kind, Target

LEMMA ScheduleMoves ==
  ASSUME RunnerTypes, NEW kind \in Kind, NEW target \in Target, NEW due \in BOOLEAN,
         Schedule(kind, target, due, Held)
  PROVE  WakesMove
<1>1. CASE Coalesces(kind, target) # {}
  <2>1. PICK w \in Coalesces(kind, target) : wake' = [wake EXCEPT ![w].due = due]
    BY <1>1 DEF Schedule
  <2>2. w \in Wake /\ wake[w].status = "pending"
    BY <2>1 DEF Coalesces, Pending
  <2>3. wake'[w] = [wake[w] EXCEPT !.due = due] /\ \A v \in Wake \ {w} : wake'[v] = wake[v]
    BY <2>1, <2>2 DEF RunnerTypes, WakeTypeOK
  <2>4. wake'[w] \in WakeRecord /\ wake'[w].status = "pending"
    BY <2>2, <2>3 DEF RunnerTypes, WakeTypeOK, WakeRecord
  <2>5. WakeTypeOK'
    BY <2>1, <2>3, <2>4 DEF RunnerTypes, WakeTypeOK
  <2> QED
    BY <2>2, <2>3, <2>4, <2>5 DEF WakesMove, Mild, MildChange, Fenced, Pending
<1>2. CASE Coalesces(kind, target) = {}
  <2> DEFINE new == [Free EXCEPT !.status = "pending", !.kind = kind,
                                 !.target = target, !.due = due]
  <2>1. PICK w \in NewId(kind, target, Held) : wake' = [wake EXCEPT ![w] = new]
    BY <1>2 DEF Schedule
  <2>2. w \in Wake /\ wake[w].status = "free" /\ w \notin Held
    BY <2>1 DEF NewId, Unused
  <2>3. new \in WakeRecord /\ new.status = "pending"
    BY FreeIsARecord, RunnerAssumption DEF WakeRecord, WakeStatus
  <2> HIDE DEF new
  <2>4. WakeTypeOK' /\ wake'[w] = new /\ \A v \in Wake \ {w} : wake'[v] = wake[v]
    BY <2>1, <2>2, <2>3 DEF RunnerTypes, WakeTypeOK
  <2> QED
    BY <2>2, <2>3, <2>4 DEF WakesMove, Mild, MildChange, Fenced, Pending
<1> QED BY <1>1, <1>2

LEMMA CancelMoves ==
  ASSUME RunnerTypes, CancelForLoop(Held)
  PROVE  WakesMove
<1> DEFINE gone(w) == [wake[w] EXCEPT !.status = "cancelled", !.expired = FALSE]
<1>1. \A w \in Wake : /\ w \notin LiveWakes => wake'[w] = wake[w]
                      /\ w \in LiveWakes /\ w \in Held => wake'[w] = gone(w)
                      /\ w \in LiveWakes /\ w \notin Held => wake'[w] = Free
  BY DEF CancelForLoop
<1>2. \A w \in Wake : wake[w] \in WakeRecord
  BY DEF RunnerTypes, WakeTypeOK
<1>3. \A w \in Wake : /\ gone(w) \in WakeRecord /\ gone(w).status = "cancelled"
                      /\ gone(w).claim = wake[w].claim /\ gone(w).expired = FALSE
  BY <1>2 DEF WakeRecord, WakeStatus
<1> HIDE DEF gone
<1>4. Free \in WakeRecord /\ Free.status = "free"
  BY FreeIsARecord, RunnerAssumption DEF Free
<1>5. WakeTypeOK'
  <2>1. ASSUME NEW w \in Wake PROVE wake'[w] \in WakeRecord
    <3>1. CASE w \notin LiveWakes
      BY <3>1, <1>1, <1>2
    <3>2. CASE w \in LiveWakes /\ w \in Held
      BY <3>2, <1>1, <1>3
    <3>3. CASE w \in LiveWakes /\ w \notin Held
      BY <3>3, <1>1, <1>4
    <3> QED BY <3>1, <3>2, <3>3
  <2>2. wake' = [w \in Wake |-> wake'[w]]
    BY DEF CancelForLoop
  <2> QED BY <2>1, <2>2 DEF WakeTypeOK
<1>6. \A w \in Wake : wake'[w].status \notin {"pending", "claimed"}
  <2> SUFFICES ASSUME NEW w \in Wake PROVE wake'[w].status \notin {"pending", "claimed"}
    OBVIOUS
  <2>1. CASE w \notin LiveWakes
    BY <2>1, <1>1 DEF LiveWakes, Pending, InClaim
  <2>2. CASE w \in LiveWakes /\ w \in Held
    BY <2>2, <1>1, <1>3
  <2>3. CASE w \in LiveWakes /\ w \notin Held
    BY <2>3, <1>1, <1>4
  <2> QED BY <2>1, <2>2, <2>3
<1>7. LiveWakes' = {}
  BY <1>6 DEF LiveWakes, Pending, InClaim
<1>8. Mild
  <2> SUFFICES ASSUME NEW w \in Wake PROVE MildChange(w)
    BY DEF Mild
  <2>1. CASE w \notin LiveWakes
    BY <2>1, <1>1 DEF MildChange
  <2>2. CASE w \in LiveWakes /\ w \in Held
    <3>1. wake'[w] = gone(w) /\ wake[w].status \in {"pending", "claimed"}
      BY <2>2, <1>1 DEF LiveWakes, Pending, InClaim
    <3> QED BY <3>1, <1>3, <1>6 DEF MildChange
  <2>3. CASE w \in LiveWakes /\ w \notin Held
    BY <2>3, <1>6 DEF MildChange
  <2> QED BY <2>1, <2>2, <2>3
<1> QED BY <1>5, <1>7, <1>8 DEF WakesMove, Fenced

LEMMA ReconcileMoves ==
  ASSUME RunnerTypes, ReconcileOrphans
  PROVE  WakesMove
<1> DEFINE back(w) == [wake[w] EXCEPT !.status = "pending", !.claim = None, !.expired = FALSE]
<1>1. \A w \in Wake : wake[w] \in WakeRecord
  BY DEF RunnerTypes, WakeTypeOK
<1>2. \A w \in Wake : back(w) \in WakeRecord /\ back(w).status = "pending"
  BY <1>1 DEF WakeRecord, WakeStatus
<1>3. \A w \in Wake : wake'[w] = wake[w] \/ (wake[w].status = "claimed" /\ wake[w].expired /\ wake'[w] = back(w))
  <2>1. \A w \in Wake : wake'[w] = IF w \in InClaim /\ wake[w].expired THEN back(w) ELSE wake[w]
    BY DEF ReconcileOrphans
  <2> HIDE DEF back
  <2> QED BY <2>1 DEF InClaim
<1> HIDE DEF back
<1>4. WakeTypeOK'
  <2>1. \A w \in Wake : wake'[w] \in WakeRecord
    BY <1>1, <1>2, <1>3
  <2>2. wake' = [w \in Wake |-> wake'[w]]
    BY DEF ReconcileOrphans
  <2> QED BY <2>1, <2>2 DEF WakeTypeOK
<1> QED BY <1>2, <1>3, <1>4 DEF WakesMove, Mild, MildChange, Fenced, Pending

LEMMA FireMoves ==
  ASSUME RunnerTypes, NEW w \in Wake, FireAt(w)
  PROVE  WakesMove
<1>1. wake[w].status = "pending" /\ wake' = [wake EXCEPT ![w].due = TRUE]
  BY DEF FireAt, Pending
<1>2. wake'[w] = [wake[w] EXCEPT !.due = TRUE] /\ \A v \in Wake \ {w} : wake'[v] = wake[v]
  BY <1>1 DEF RunnerTypes, WakeTypeOK
<1>3. wake'[w] \in WakeRecord /\ wake'[w].status = "pending"
  <2>1. wake[w] \in WakeRecord
    BY DEF RunnerTypes, WakeTypeOK
  <2>2. \A rec \in WakeRecord : /\ [rec EXCEPT !.due = TRUE] \in WakeRecord
                                /\ [rec EXCEPT !.due = TRUE].status = rec.status
    BY DEF WakeRecord
  <2> QED BY <1>1, <1>2, <2>1, <2>2
<1>4. WakeTypeOK'
  BY <1>1, <1>2, <1>3 DEF RunnerTypes, WakeTypeOK
<1> QED BY <1>1, <1>2, <1>3, <1>4 DEF WakesMove, Mild, MildChange, Fenced, Pending

LEMMA UnmovedMoves ==
  ASSUME RunnerTypes, UNCHANGED wake
  PROVE  WakesMove
BY DEF RunnerTypes, WakesMove, WakeTypeOK, Mild, MildChange, Fenced, Pending

-----------------------------------------------------------------------------
(* Steps under which runners keep what they have *)

Kept ==
  \A r \in Runner :
    \/ pc'[r] = "idle"
    \/ /\ job'[r].wake = job[r].wake
       /\ (pc[r] \in Keeping /\ pc'[r] \in Keeping) \/ (pc[r] \in Dropped /\ pc'[r] \in Dropped)

LEMMA Phases ==
  /\ \A x \in RunnerPc : x = "idle" \/ x \in Keeping \/ x \in Dropped
  /\ "idle" \notin Keeping \cup Dropped
  /\ Keeping \cap Dropped = {}
BY DEF RunnerPc, Keeping, Dropped, InTick

LEMMA MildStep ==
  ASSUME WakesInv, RunnerTypes', Mild, Kept, happened \subseteq happened'
  PROVE  WakesInv'
<1> SUFFICES ASSUME "stall" \notin happened' PROVE ClaimsSound'
  BY DEF WakesInv
<1>1. ClaimsSound
  BY DEF WakesInv
<1>2. \A r \in Runner : pc[r] # "idle" => job[r].wake \in Wake /\ job[r].wake \in Held
  <2> SUFFICES ASSUME NEW r \in Runner, pc[r] # "idle" PROVE job[r].wake \in Wake /\ job[r].wake \in Held
    OBVIOUS
  <2>1. job[r].wake \in Wake
    BY DEF WakesInv, RunnerTypes
  <2> QED BY <2>1, RunnerAssumption DEF Held
<1>3. \A r \in Runner : pc[r] \in RunnerPc /\ pc'[r] \in RunnerPc
  BY DEF WakesInv, RunnerTypes
<1>4. ASSUME NEW r \in Runner, pc'[r] \in Keeping PROVE KeepsOwn(r)'
  <2>1. job'[r].wake = job[r].wake /\ pc[r] \in Keeping
    BY <1>4, Phases DEF Kept
  <2>2. KeepsOwn(r) /\ job[r].wake \in Wake /\ job[r].wake \in Held
    BY <1>1, <1>2, <2>1, Phases DEF ClaimsSound
  <2>3. MildChange(job[r].wake)
    BY <2>2 DEF Mild
  <2> QED BY <2>1, <2>2, <2>3 DEF KeepsOwn, MildChange
<1>5. ASSUME NEW r \in Runner, pc'[r] \in Dropped
      PROVE  wake'[job'[r].wake].status = "free" /\ ~wake'[job'[r].wake].expired
  <2>1. job'[r].wake = job[r].wake /\ pc[r] \in Dropped
    BY <1>5, Phases DEF Kept
  <2>2. /\ wake[job[r].wake].status = "free" /\ ~wake[job[r].wake].expired
        /\ job[r].wake \in Wake /\ job[r].wake \in Held
    BY <1>1, <1>2, <2>1, Phases DEF ClaimsSound
  <2>3. MildChange(job[r].wake)
    BY <2>2 DEF Mild
  <2> QED BY <2>1, <2>2, <2>3 DEF MildChange
<1>6. ASSUME NEW r \in Runner, NEW q \in Runner, pc'[r] # "idle", pc'[q] # "idle", r # q
      PROVE  job'[r].wake # job'[q].wake
  BY <1>1, <1>6, Phases DEF Kept, ClaimsSound
<1>7. \A w \in Wake : Alive(w)' => Alive(w)
  BY DEF Mild, MildChange, Alive
<1>8. \A w, v \in Wake : Alive(w)' /\ Alive(v)' => w = v
  BY <1>1, <1>7 DEF ClaimsSound
<1> QED BY <1>4, <1>5, <1>6, <1>8 DEF ClaimsSound

\* A runner releases its own wake, and ends or goes on to the sweep.
LEMMA ReleaseStep ==
  ASSUME WakesInv, NEW r \in Runner, pc[r] \in Keeping,
         NEW o \in {"done", "cancelled", "pending"}, NEW due \in BOOLEAN,
         ReleaseWake(job[r].wake, r, o, due),
         job'[r].wake \in Wake \/ pc'[r] = "idle",
         pc'[r] = "idle" \/ (pc'[r] \in Dropped /\ o # "pending" /\ job'[r].wake = job[r].wake),
         \A q \in Runner \ {r} : pc'[q] = pc[q] /\ job'[q] = job[q],
         UNCHANGED happened
  PROVE  /\ WakeTypeOK'
         /\ "stall" \notin happened => ClaimsSound' /\ Fenced
<1> DEFINE w == job[r].wake
           put == [wake[w] EXCEPT !.status = o, !.claim = None, !.expired = FALSE, !.due = due]
<1>1. w \in Wake /\ wake[w] \in WakeRecord /\ pc[r] # "idle"
  BY Phases DEF WakesInv, RunnerTypes, WakeTypeOK
<1>2. ASSUME o = "pending"
      PROVE  put \in WakeRecord /\ put.status = o /\ put.expired = FALSE
  BY <1>1, <1>2 DEF WakeRecord, WakeStatus
<1>3. Free \in WakeRecord /\ Free.status = "free" /\ Free.expired = FALSE
  BY FreeIsARecord, RunnerAssumption DEF Free
<1>4. /\ wake[w].status = "free" \/ wake[w].claim \notin {None, r} => wake'[w] = wake[w]
      /\ ~(wake[w].status = "free" \/ wake[w].claim \notin {None, r}) =>
           wake'[w] = IF o \in {"done", "cancelled"} THEN Free ELSE put
      /\ \A v \in Wake \ {w} : wake'[v] = wake[v]
      /\ wake' = [wake EXCEPT ![w] = wake'[w]]
  BY <1>1 DEF ReleaseWake, WakesInv, RunnerTypes, WakeTypeOK
<1> HIDE DEF put
<1>5. wake'[w] \in WakeRecord
  BY <1>1, <1>2, <1>3, <1>4
<1>6. WakeTypeOK'
  BY <1>1, <1>4, <1>5 DEF WakesInv, RunnerTypes, WakeTypeOK
<1>7. ASSUME "stall" \notin happened PROVE ClaimsSound' /\ Fenced
  <2>1. ClaimsSound
    BY <1>7 DEF WakesInv
  <2>2. wake[w].status \in {"claimed", "cancelled"} /\ wake[w].claim = r
    BY <2>1 DEF ClaimsSound, KeepsOwn
  <2>3. wake'[w].status \in {"free", "pending"} /\ (o # "pending" => wake'[w] = Free)
    BY <1>2, <1>3, <1>4, <2>2
  <2>4. \A q \in Runner \ {r} : pc'[q] # "idle" =>
          pc'[q] = pc[q] /\ job'[q] = job[q] /\ job[q].wake \in Wake \ {w}
    BY <1>1, <2>1 DEF ClaimsSound, WakesInv, RunnerTypes
  <2>5. ASSUME NEW q \in Runner, pc'[q] \in Keeping PROVE KeepsOwn(q)'
    <3>1. q # r
      BY <2>5, Phases
    <3>2. pc[q] \in Keeping /\ KeepsOwn(q) /\ wake'[job'[q].wake] = wake[job[q].wake]
      BY <1>4, <2>1, <2>4, <2>5, <3>1, Phases DEF ClaimsSound
    <3> QED BY <3>1, <3>2, <2>4, <2>5, Phases DEF KeepsOwn
  <2>6. ASSUME NEW q \in Runner, pc'[q] \in Dropped
        PROVE  wake'[job'[q].wake].status = "free" /\ ~wake'[job'[q].wake].expired
    <3>1. CASE q = r
      BY <1>3, <2>3, <2>6, <3>1, Phases
    <3>2. CASE q # r
      <4>1. pc[q] \in Dropped /\ wake'[job'[q].wake] = wake[job[q].wake]
        BY <1>4, <2>4, <2>6, <3>2, Phases
      <4> QED BY <4>1, <2>1 DEF ClaimsSound
    <3> QED BY <3>1, <3>2
  <2>7. ASSUME NEW q \in Runner, NEW p \in Runner, pc'[q] # "idle", pc'[p] # "idle", q # p
        PROVE  job'[q].wake # job'[p].wake
    BY <1>1, <2>1, <2>4, <2>7 DEF ClaimsSound
  <2>8. \A v, u \in Wake : Alive(v)' /\ Alive(u)' => v = u
    BY <1>4, <2>1, <2>3 DEF ClaimsSound, Alive
  <2>9. Fenced
    BY <1>1, <1>4, <2>2 DEF Fenced, Pending
  <2> QED BY <2>5, <2>6, <2>7, <2>8, <2>9 DEF ClaimsSound
<1> QED BY <1>6, <1>7

\* An idle runner gets a wake of which no claim is alive.
LEMMA ClaimStep ==
  ASSUME WakesInv, NEW r \in Runner, pc[r] = "idle", NEW w \in Claimable,
         ClaimDue(w, r),
         pc' = [pc EXCEPT ![r] = "start"],
         job' = [job EXCEPT ![r] = [NoJob EXCEPT !.wake = w]],
         UNCHANGED <<status, happened>>, poll' \in PollState
  PROVE  WakesInv' /\ Fenced
<1> DEFINE n == IF wake[w].attempts < MaxAttempts THEN wake[w].attempts + 1 ELSE wake[w].attempts
           took == [wake[w] EXCEPT !.status = "claimed", !.claim = r, !.expired = FALSE,
                                   !.attempts = n]
           j == [NoJob EXCEPT !.wake = w]
<1>1. w \in Wake /\ wake[w] \in WakeRecord /\ wake[w].status = "pending" /\ NoLiveClaim
  BY DEF Claimable, Pending, WakesInv, RunnerTypes, WakeTypeOK
<1>2. n \in 0..MaxAttempts
  <2>1. wake[w].attempts \in 0..MaxAttempts
    BY <1>1 DEF WakeRecord
  <2>2. MaxAttempts \in Nat
    BY RunnerAssumption
  <2> QED BY <2>1, <2>2
<1>3. wake' = [wake EXCEPT ![w] = took]
  BY <1>1 DEF ClaimDue
<1> HIDE DEF n
<1>4. took \in WakeRecord /\ took.status = "claimed" /\ took.claim = r /\ took.expired = FALSE
  BY <1>1, <1>2, RunnerAssumption DEF WakeRecord, WakeStatus
<1>5. j \in JobRecord /\ j.wake = w
  BY <1>1 DEF NoJob, JobRecord
<1> HIDE DEF took, j
<1>6. wake'[w] = took /\ \A v \in Wake \ {w} : wake'[v] = wake[v]
  BY <1>1, <1>3 DEF WakesInv, RunnerTypes, WakeTypeOK
<1>7. /\ pc'[r] = "start" /\ job'[r] = j
      /\ \A q \in Runner \ {r} : pc'[q] = pc[q] /\ job'[q] = job[q]
  BY DEF WakesInv, RunnerTypes, j
<1>8. RunnerTypes'
  <2>1. WakeTypeOK'
    BY <1>1, <1>4, <1>3 DEF WakesInv, RunnerTypes, WakeTypeOK
  <2>2. pc' \in [Runner -> RunnerPc]
    BY DEF WakesInv, RunnerTypes, RunnerPc
  <2>3. job' \in [Runner -> JobRecord]
    BY <1>5 DEF WakesInv, RunnerTypes, j
  <2>4. \A q \in Runner : pc'[q] # "idle" => job'[q].wake \in Wake
    BY <1>1, <1>5, <1>7 DEF WakesInv, RunnerTypes
  <2> QED BY <2>1, <2>2, <2>3, <2>4 DEF RunnerTypes, WakesInv
<1>9. ASSUME "stall" \notin happened PROVE ClaimsSound'
  <2>1. ClaimsSound
    BY <1>9 DEF WakesInv
  <2>2. \A q \in Runner \ {r} : pc[q] # "idle" => job[q].wake \in Wake \ {w}
    <3> SUFFICES ASSUME NEW q \in Runner \ {r}, pc[q] # "idle" PROVE job[q].wake \in Wake \ {w}
      OBVIOUS
    <3>1. pc[q] \in RunnerPc /\ job[q].wake \in Wake
      BY DEF WakesInv, RunnerTypes
    <3> QED BY <1>1, <2>1, <3>1, Phases DEF ClaimsSound, KeepsOwn
  <2>3. ASSUME NEW q \in Runner, pc'[q] \in Keeping PROVE KeepsOwn(q)'
    <3>1. CASE q = r
      BY <1>4, <1>5, <1>6, <1>7, <3>1 DEF KeepsOwn
    <3>2. CASE q # r
      <4>1. KeepsOwn(q) /\ wake'[job'[q].wake] = wake[job[q].wake] /\ job'[q] = job[q]
        BY <1>6, <1>7, <2>1, <2>2, <2>3, <3>2, Phases DEF ClaimsSound
      <4> QED BY <4>1 DEF KeepsOwn
    <3> QED BY <3>1, <3>2
  <2>4. ASSUME NEW q \in Runner, pc'[q] \in Dropped
        PROVE  wake'[job'[q].wake].status = "free" /\ ~wake'[job'[q].wake].expired
    <3>1. q # r
      BY <1>7, <2>4 DEF Dropped
    <3> QED BY <1>6, <1>7, <2>1, <2>2, <2>4, <3>1, Phases DEF ClaimsSound
  <2>5. ASSUME NEW q \in Runner, NEW p \in Runner, pc'[q] # "idle", pc'[p] # "idle", q # p
        PROVE  job'[q].wake # job'[p].wake
    BY <1>5, <1>7, <2>1, <2>2, <2>5 DEF ClaimsSound
  <2>6. ~ \E v \in Wake : Alive(v)
    BY <1>1 DEF NoLiveClaim, InClaim, Alive
  <2>7. \A v, u \in Wake : Alive(v)' /\ Alive(u)' => v = u
    BY <1>6, <2>6 DEF Alive
  <2> QED BY <2>3, <2>4, <2>5, <2>7 DEF ClaimsSound
<1>10. Fenced
  BY <1>4, <1>6 DEF Fenced, Pending
<1> QED BY <1>8, <1>9, <1>10 DEF WakesInv

-----------------------------------------------------------------------------
(* The steps *)

RunnersOk ==
  /\ pc \in [Runner -> RunnerPc]
  /\ job \in [Runner -> JobRecord]
  /\ \A r \in Runner : pc[r] # "idle" => job[r].wake \in Wake

LEMMA RunnerMoves ==
  ASSUME RunnerTypes, NEW r \in Runner, NEW to \in Keeping, pc[r] \in Keeping,
         pc' = [pc EXCEPT ![r] = to],
         \E j \in JobRecord : j.wake = job[r].wake /\ job' = [job EXCEPT ![r] = j]
  PROVE  RunnersOk' /\ Kept
<1>1. PICK j \in JobRecord : j.wake = job[r].wake /\ job' = [job EXCEPT ![r] = j]
  OBVIOUS
<1>2. /\ pc'[r] = to /\ job'[r] = j
      /\ \A q \in Runner \ {r} : pc'[q] = pc[q] /\ job'[q] = job[q]
  BY <1>1 DEF RunnerTypes
<1>3. to \in RunnerPc /\ pc[r] # "idle" /\ \A q \in Runner : pc[q] \in RunnerPc
  BY Phases DEF RunnerTypes, RunnerPc, Keeping
<1>4. pc' \in [Runner -> RunnerPc] /\ job' \in [Runner -> JobRecord]
  BY <1>1, <1>3 DEF RunnerTypes
<1>5. \A q \in Runner : pc'[q] # "idle" => job'[q].wake \in Wake
  BY <1>1, <1>2, <1>3 DEF RunnerTypes
<1>6. Kept
  BY <1>1, <1>2, <1>3, Phases DEF Kept
<1> QED BY <1>4, <1>5, <1>6 DEF RunnersOk

LEMMA RunnersStay ==
  ASSUME RunnerTypes, UNCHANGED <<pc, job>>
  PROVE  RunnersOk' /\ Kept
<1>1. \A q \in Runner : pc[q] \in RunnerPc
  BY DEF RunnerTypes
<1> QED BY <1>1, Phases DEF RunnerTypes, RunnersOk, Kept

LEMMA RunnerEnds ==
  ASSUME RunnerTypes, NEW r \in Runner, Ends(r)
  PROVE  /\ RunnersOk' /\ Kept /\ pc'[r] = "idle"
         /\ \A q \in Runner \ {r} : pc'[q] = pc[q] /\ job'[q] = job[q]
<1>1. NoJob \in JobRecord
  BY DEF NoJob, JobRecord
<1>2. /\ pc' = [pc EXCEPT ![r] = "idle"] /\ job' = [job EXCEPT ![r] = NoJob]
  BY DEF Ends
<1>3. /\ pc'[r] = "idle"
      /\ \A q \in Runner \ {r} : pc'[q] = pc[q] /\ job'[q] = job[q]
  BY <1>2 DEF RunnerTypes
<1>4. pc' \in [Runner -> RunnerPc] /\ job' \in [Runner -> JobRecord]
  BY <1>1, <1>2 DEF RunnerTypes, RunnerPc
<1>5. \A q \in Runner : pc'[q] # "idle" => job'[q].wake \in Wake
  BY <1>3 DEF RunnerTypes
<1>6. \A q \in Runner : pc[q] \in RunnerPc
  BY DEF RunnerTypes
<1>7. Kept
  BY <1>3, <1>6, Phases DEF Kept
<1> QED BY <1>3, <1>4, <1>5, <1>7 DEF RunnersOk

Statuses == {"active", "waiting", "paused", "final"}

LEMMA StatusTyped ==
  ASSUME RunnerTypes, NEW st \in Statuses, SetStatus(st)
  PROVE  status' \in Statuses
BY DEF SetStatus, RunnerTypes, Statuses, graph

\* What every step comes to.
StepSound == WakesInv' /\ ("stall" \notin happened => Fenced)

LEMMA MildSound ==
  ASSUME WakesInv, WakesMove, RunnersOk', Kept, status' \in Statuses,
         poll' \in PollState, happened \subseteq happened'
  PROVE  StepSound
<1>1. RunnerTypes'
  BY DEF WakesMove, RunnersOk, RunnerTypes, Statuses
<1> QED BY <1>1, MildStep DEF WakesMove, StepSound

LEMMA PollStep ==
  ASSUME WakesInv, Poll
  PROVE  StepSound
<1> USE DEF PollState, PollPc
<1>1. RunnerTypes /\ status \in Statuses /\ poll \in PollState
  BY DEF WakesInv, RunnerTypes, Statuses
<1>2. ASSUME PollOnly PROVE RunnersOk' /\ Kept /\ status' \in Statuses /\ happened' = happened
  BY <1>1, <1>2, RunnersStay DEF PollOnly, graph
<1>3. ASSUME NEW to \in PollPc, NEW from, PollGo(from, to) PROVE poll' \in PollState
  BY <1>1, <1>3 DEF PollGo
<1>4. NoPoll \in PollState /\ [NoPoll EXCEPT !.pc = "claim"] \in PollState
  BY DEF NoPoll
<1>5. CASE PollReconcile
  BY <1>1, <1>2, <1>3, <1>5, ReconcileMoves, MildSound DEF PollReconcile
<1>6. CASE PollList
  <2>1. {wake[w].target : w \in LiveWakes} \in SUBSET Target
    BY <1>1 DEF RunnerTypes, WakeTypeOK, WakeRecord, LiveWakes, Pending, InClaim
  <2>2. poll' \in PollState
    BY <1>1, <1>6, <2>1 DEF PollList
  <2> QED BY <1>1, <1>2, <1>6, <2>2, UnmovedMoves, MildSound DEF PollList
<1>7. CASE PollRecord
  <2>1. Looked(status) \in PollState
    BY <1>1 DEF Looked, Target
  <2>2. poll' \in PollState
    BY <1>1, <1>4, <1>7, <2>1 DEF PollRecord
  <2> QED BY <1>1, <1>2, <1>7, <2>2, UnmovedMoves, MildSound DEF PollRecord
<1>8. CASE PollCancel
  BY <1>1, <1>2, <1>4, <1>8, CancelMoves, MildSound DEF PollCancel, PollEnds
<1>9. CASE PollSnapshot
  <2>1. poll' \in PollState
    BY <1>1, <1>9 DEF PollSnapshot
  <2> QED BY <1>1, <1>2, <1>9, <2>1, UnmovedMoves, MildSound DEF PollSnapshot
<1>10. CASE PollTimer
  <2>1. poll' \in PollState /\ poll.timed \in BOOLEAN
    BY <1>1, <1>10 DEF PollTimer
  <2>2. WakesMove
    BY <1>1, <1>10, <2>1, ScheduleMoves DEF PollTimer, Kind, Target
  <2> QED BY <1>1, <1>2, <1>10, <2>1, <2>2, MildSound DEF PollTimer
<1>11. CASE PollGraph
  <2>1. WakesMove
    BY <1>1, <1>11, ScheduleMoves, UnmovedMoves DEF PollGraph, Kind, Target
  <2> QED BY <1>1, <1>2, <1>4, <1>11, <2>1, MildSound DEF PollGraph, PollEnds
<1>12. CASE PollClaim
  <2>1. poll' \in PollState /\ UNCHANGED <<status, happened>>
    BY <1>4, <1>12 DEF PollClaim, graph
  <2>2. CASE Idle = {} \/ Claimable = {}
    BY <1>1, <1>12, <2>1, <2>2, UnmovedMoves, RunnersStay, MildSound DEF PollClaim
  <2>3. CASE ~(Idle = {} \/ Claimable = {})
    <3> DEFINE r == CHOOSE r \in Idle : TRUE
    <3>1. r \in Runner /\ pc[r] = "idle"
      BY <2>3 DEF Idle
    <3> HIDE DEF r
    <3>2. PICK w \in Claimable :
             /\ ClaimDue(w, r)
             /\ pc' = [pc EXCEPT ![r] = "start"]
             /\ job' = [job EXCEPT ![r] = [NoJob EXCEPT !.wake = w]]
      BY <1>12, <2>3 DEF PollClaim, r
    <3> QED BY <2>1, <3>1, <3>2, ClaimStep DEF StepSound
  <2> QED BY <2>2, <2>3
<1> QED BY <1>5, <1>6, <1>7, <1>8, <1>9, <1>10, <1>11, <1>12 DEF Poll

\* A step of a tick that leaves the wakes alone.
LEMMA TickStep ==
  ASSUME WakesInv, NEW r \in Runner, NEW to \in Keeping, pc[r] \in Keeping,
         pc' = [pc EXCEPT ![r] = to],
         \E j \in JobRecord : j.wake = job[r].wake /\ job' = [job EXCEPT ![r] = j],
         WakesMove, status' \in Statuses, UNCHANGED <<poll, happened>>
  PROVE  StepSound
<1>1. RunnerTypes /\ poll' \in PollState
  BY DEF WakesInv, RunnerTypes
<1>2. RunnersOk' /\ Kept
  BY <1>1, RunnerMoves
<1> QED BY <1>1, <1>2, MildSound

LEMMA JobFields ==
  ASSUME RunnerTypes, NEW r \in Runner
  PROVE  /\ job[r] \in JobRecord
         /\ job' = job => \E j \in JobRecord : j.wake = job[r].wake /\ job' = [job EXCEPT ![r] = j]
         /\ \A d \in Statuses : job' = [job EXCEPT ![r].derived = d] =>
              \E j \in JobRecord : j.wake = job[r].wake /\ job' = [job EXCEPT ![r] = j]
         /\ \A b \in BOOLEAN : job' = [job EXCEPT ![r].failed = b] =>
              \E j \in JobRecord : j.wake = job[r].wake /\ job' = [job EXCEPT ![r] = j]
         /\ \A b \in BOOLEAN : job' = [job EXCEPT ![r].progressed = b] =>
              \E j \in JobRecord : j.wake = job[r].wake /\ job' = [job EXCEPT ![r] = j]
<1>1. job[r] \in JobRecord /\ job \in [Runner -> JobRecord]
  BY DEF RunnerTypes
<1>2. job = [job EXCEPT ![r] = job[r]]
  BY <1>1
<1>3. ASSUME NEW d \in Statuses
      PROVE  [job[r] EXCEPT !.derived = d] \in JobRecord /\ [job[r] EXCEPT !.derived = d].wake = job[r].wake
  BY <1>1 DEF JobRecord, Statuses
<1>4. ASSUME NEW b \in BOOLEAN
      PROVE  /\ [job[r] EXCEPT !.failed = b] \in JobRecord /\ [job[r] EXCEPT !.failed = b].wake = job[r].wake
             /\ [job[r] EXCEPT !.progressed = b] \in JobRecord /\ [job[r] EXCEPT !.progressed = b].wake = job[r].wake
  BY <1>1 DEF JobRecord
<1>5. /\ \A d : [job EXCEPT ![r].derived = d] = [job EXCEPT ![r] = [job[r] EXCEPT !.derived = d]]
      /\ \A b : [job EXCEPT ![r].failed = b] = [job EXCEPT ![r] = [job[r] EXCEPT !.failed = b]]
      /\ \A b : [job EXCEPT ![r].progressed = b] = [job EXCEPT ![r] = [job[r] EXCEPT !.progressed = b]]
  OBVIOUS
<1> QED BY <1>1, <1>2, <1>3, <1>4, <1>5

LEMMA RunStep ==
  ASSUME WakesInv, NEW r \in Runner, Run(r)
  PROVE  StepSound
<1> USE DEF Keeping, InTick
<1>1. RunnerTypes /\ status \in Statuses /\ poll \in PollState
  BY DEF WakesInv, RunnerTypes, Statuses
<1>2. job[r] \in JobRecord
  BY <1>1, JobFields
<1>3. ASSUME UNCHANGED wake PROVE WakesMove
  BY <1>1, <1>3, UnmovedMoves
<1>4. CASE Start(r)
  <2>1. pc[r] = "start" /\ status' = status /\ poll' = poll /\ happened' = happened
    BY <1>4 DEF Start, graph
  <2>2. CASE status \in {"final", "paused"}
    <3>1. ReleaseWake(job[r].wake, r, "cancelled", FALSE) /\ Ends(r)
      BY <1>4, <2>2 DEF Start
    <3>2. /\ RunnersOk' /\ pc'[r] = "idle"
          /\ \A q \in Runner \ {r} : pc'[q] = pc[q] /\ job'[q] = job[q]
      BY <1>1, <3>1, RunnerEnds
    <3>3. WakeTypeOK' /\ ("stall" \notin happened => ClaimsSound' /\ Fenced)
      BY <2>1, <3>1, <3>2, ReleaseStep
    <3> QED BY <1>1, <2>1, <3>2, <3>3 DEF StepSound, WakesInv, RunnerTypes, RunnersOk, Statuses
  <2>3. CASE status \notin {"final", "paused"}
    BY <1>1, <1>3, <1>4, <2>1, <2>3, JobFields, TickStep DEF Start, Go
  <2> QED BY <2>2, <2>3
<1>5. CASE Housekeep(r)
  <2>1. status' = status
    BY <1>5 DEF Housekeep, graph, ResumeByInbox
  <2> QED BY <1>1, <1>3, <1>5, <2>1, JobFields, TickStep DEF Housekeep, Go, TickOnly
<1>6. CASE SyncRead(r)
  <2> DEFINE skip == status \in {"final", "paused"}
             d == IF skip THEN status ELSE Derived
             to == IF skip THEN IF pc[r] # "sync" THEN "final" ELSE IF status = "final" THEN "release" ELSE "claim"
                   ELSE IF pc[r] = "sync" THEN "write" ELSE "write2"
  <2>1. d \in Statuses /\ to \in Keeping
    BY <1>1 DEF Derived, Statuses
  <2>2. job' = [job EXCEPT ![r].derived = d] /\ pc' = [pc EXCEPT ![r] = to] /\ pc[r] \in Keeping
    BY <1>6 DEF SyncRead
  <2> HIDE DEF d, to
  <2>3. \E j \in JobRecord : j.wake = job[r].wake /\ job' = [job EXCEPT ![r] = j]
    BY <1>1, <2>1, <2>2, JobFields
  <2>4. status' = status /\ UNCHANGED <<wake, poll, happened>>
    BY <1>6 DEF SyncRead, TickOnly, graph
  <2> QED BY <1>1, <1>3, <2>1, <2>2, <2>3, <2>4, TickStep
<1>7. CASE SyncWrite(r)
  <2>1. status' \in Statuses
    BY <1>1, <1>2, <1>7, StatusTyped DEF SyncWrite, JobRecord, Statuses
  <2> DEFINE d == IF pc[r] = "write" /\ status' # "final" THEN "active" ELSE status'
             to == IF pc[r] = "write2" THEN "final" ELSE IF status' = "final" THEN "release" ELSE "claim"
  <2>2. d \in Statuses /\ to \in Keeping
    BY <2>1 DEF Statuses
  <2>3. job' = [job EXCEPT ![r].derived = d] /\ pc' = [pc EXCEPT ![r] = to] /\ pc[r] \in Keeping
    BY <1>7 DEF SyncWrite
  <2> HIDE DEF d, to
  <2>4. \E j \in JobRecord : j.wake = job[r].wake /\ job' = [job EXCEPT ![r] = j]
    BY <1>1, <2>2, <2>3, JobFields
  <2>5. UNCHANGED <<wake, poll, happened>>
    BY <1>7 DEF SyncWrite, TickOnly
  <2> QED BY <1>1, <1>3, <2>1, <2>2, <2>3, <2>4, <2>5, TickStep
<1>8. CASE ClaimReady(r)
  <2>1. \E to \in {"exec", "drain"} : pc' = [pc EXCEPT ![r] = to]
    BY <1>8 DEF ClaimReady, Go
  <2>2. job' = job \/ job' = [job EXCEPT ![r].progressed = TRUE]
    BY <1>8 DEF ClaimReady
  <2>3. \E j \in JobRecord : j.wake = job[r].wake /\ job' = [job EXCEPT ![r] = j]
    BY <1>1, <2>2, JobFields
  <2>4. status' = status /\ UNCHANGED <<wake, poll, happened>> /\ pc[r] \in Keeping
    BY <1>8 DEF ClaimReady, TickOnly, graph
  <2> QED BY <1>1, <1>3, <2>1, <2>3, <2>4, TickStep
<1>9. CASE Finish(r)
  <2>1. \E to \in {"timer", "drain"} : pc' = [pc EXCEPT ![r] = to]
    BY <1>9 DEF Finish, Go
  <2>2. job' = job /\ status' \in Statuses
    BY <1>1, <1>9 DEF Finish, Statuses
  <2>3. \E j \in JobRecord : j.wake = job[r].wake /\ job' = [job EXCEPT ![r] = j]
    BY <1>1, <2>2, JobFields
  <2>4. UNCHANGED <<wake, poll, happened>> /\ pc[r] \in Keeping
    BY <1>9 DEF Finish, TickOnly
  <2> QED BY <1>1, <1>3, <2>1, <2>2, <2>3, <2>4, TickStep
<1>10. CASE FinishLost(r)
  <2> DEFINE b == status \notin {"paused", "final"}
  <2>1. pc' = [pc EXCEPT ![r] = "drain"] /\ job' = [job EXCEPT ![r].failed = b] /\ b \in BOOLEAN
    BY <1>10 DEF FinishLost, Go
  <2> HIDE DEF b
  <2>2. \E j \in JobRecord : j.wake = job[r].wake /\ job' = [job EXCEPT ![r] = j]
    BY <1>1, <2>1, JobFields
  <2>3. status' = status /\ UNCHANGED <<wake, poll, happened>> /\ pc[r] \in Keeping
    BY <1>10 DEF FinishLost, TickOnly, graph, Go
  <2> QED BY <1>1, <1>3, <2>1, <2>2, <2>3, TickStep
<1>11. CASE ScheduleTimer(r)
  <2>1. WakesMove
    BY <1>1, <1>11, ScheduleMoves DEF ScheduleTimer, Kind, Target
  <2>2. pc[r] \in Keeping /\ pc' = [pc EXCEPT ![r] = "drain"] /\ status' = status /\ UNCHANGED <<job, poll, happened>>
    BY <1>11 DEF ScheduleTimer, Go, graph
  <2> QED BY <1>1, <2>1, <2>2, JobFields, TickStep
<1>12. CASE DrainInbox(r)
  <2>1. status' = status
    BY <1>12 DEF DrainInbox, ResumeByInbox, graph
  <2> QED BY <1>1, <1>3, <1>12, <2>1, JobFields, TickStep DEF DrainInbox, Go, TickOnly
<1>13. CASE Final(r)
  <2>1. WakesMove
    <3> DEFINE due == IF act = "ready" THEN job[r].progressed ELSE act # "running"
    <3>1. due \in BOOLEAN
      BY <1>2 DEF JobRecord
    <3>2. Schedule("timer", "graph", due, Held) \/ UNCHANGED wake
      BY <1>13 DEF Final
    <3> HIDE DEF due
    <3> QED BY <1>1, <3>1, <3>2, ScheduleMoves, UnmovedMoves DEF Kind, Target
  <2>2. pc[r] \in Keeping /\ status' = status /\ UNCHANGED <<poll, happened>>
    BY <1>13 DEF Final, Go, graph
  <2>3. \E to \in {"error", "release"} : pc' = [pc EXCEPT ![r] = to]
    BY <1>13 DEF Final, Go
  <2>4. \E j \in JobRecord : j.wake = job[r].wake /\ job' = [job EXCEPT ![r] = j]
    <3> DEFINE j == [job[r] EXCEPT !.failed = FALSE, !.progressed = FALSE]
    <3>1. job' = [job EXCEPT ![r] = j]
      BY <1>1, <1>13 DEF Final, RunnerTypes
    <3>2. j \in JobRecord /\ j.wake = job[r].wake
      BY <1>2 DEF JobRecord
    <3> QED BY <3>1, <3>2
  <2> QED BY <1>1, <2>1, <2>2, <2>3, <2>4, TickStep
<1>14. CASE ReleaseDone(r)
  <2>1. /\ pc[r] = "release" /\ ReleaseWake(job[r].wake, r, "done", FALSE)
        /\ status' = status /\ UNCHANGED <<poll, happened>>
    BY <1>14 DEF ReleaseDone, RunnerOnly, graph
  <2>2. CASE Ends(r)
    <3>1. /\ RunnersOk' /\ pc'[r] = "idle"
          /\ \A q \in Runner \ {r} : pc'[q] = pc[q] /\ job'[q] = job[q]
      BY <1>1, <2>2, RunnerEnds
    <3>2. WakeTypeOK' /\ ("stall" \notin happened => ClaimsSound' /\ Fenced)
      BY <2>1, <3>1, ReleaseStep
    <3> QED BY <1>1, <2>1, <3>1, <3>2 DEF StepSound, WakesInv, RunnerTypes, RunnersOk, Statuses
  <2>3. CASE pc' = [pc EXCEPT ![r] = "sweep"] /\ UNCHANGED job
    <3>1. /\ pc'[r] = "sweep" /\ job' = job /\ pc[r] # "idle" /\ job'[r].wake \in Wake
          /\ \A q \in Runner \ {r} : pc'[q] = pc[q] /\ job'[q] = job[q]
      BY <1>1, <2>1, <2>3 DEF RunnerTypes
    <3>2. WakeTypeOK' /\ ("stall" \notin happened => ClaimsSound' /\ Fenced)
      BY <2>1, <3>1, ReleaseStep DEF Dropped
    <3>3. RunnersOk'
      BY <1>1, <2>3, <3>1 DEF RunnersOk, RunnerTypes, RunnerPc
    <3> QED BY <1>1, <2>1, <3>2, <3>3 DEF StepSound, WakesInv, RunnerTypes, RunnersOk, Statuses
  <2> QED BY <1>14, <2>2, <2>3 DEF ReleaseDone, Go
<1>15. CASE Sweep(r)
  <2>1. WakesMove
    BY <1>1, <1>15, CancelMoves DEF Sweep
  <2>2. RunnersOk' /\ Kept
    BY <1>1, <1>15, RunnerEnds DEF Sweep
  <2>3. status' = status /\ UNCHANGED <<poll, happened>>
    BY <1>15 DEF Sweep, RunnerOnly, graph
  <2> QED BY <1>1, <2>1, <2>2, <2>3, MildSound
<1>16. CASE Retry(r)
  <2>1. /\ pc[r] = "error" /\ Ends(r)
        /\ \E due \in BOOLEAN : ReleaseWake(job[r].wake, r, "pending", due)
        /\ status' = status /\ UNCHANGED <<poll, happened>>
    BY <1>16 DEF Retry, RunnerOnly, graph
  <2>2. /\ RunnersOk' /\ pc'[r] = "idle"
        /\ \A q \in Runner \ {r} : pc'[q] = pc[q] /\ job'[q] = job[q]
    BY <1>1, <2>1, RunnerEnds
  <2>3. WakeTypeOK' /\ ("stall" \notin happened => ClaimsSound' /\ Fenced)
    BY <2>1, <2>2, ReleaseStep
  <2> QED BY <1>1, <2>1, <2>2, <2>3 DEF StepSound, WakesInv, RunnerTypes, RunnersOk, Statuses
<1>17. CASE GiveUp(r)
  <2>1. status' \in Statuses
    BY <1>1, <1>17, StatusTyped DEF GiveUp, Statuses
  <2> QED BY <1>1, <1>3, <1>17, <2>1, JobFields, TickStep DEF GiveUp, Go, RunnerOnly
<1>18. CASE GiveUpRelease(r)
  <2>1. /\ pc[r] = "giveUpRelease" /\ ReleaseWake(job[r].wake, r, "cancelled", FALSE)
        /\ pc' = [pc EXCEPT ![r] = "giveUpSweep"] /\ UNCHANGED job
        /\ status' = status /\ UNCHANGED <<poll, happened>>
    BY <1>18 DEF GiveUpRelease, RunnerOnly, graph, Go
  <2>2. /\ pc'[r] = "giveUpSweep" /\ job' = job /\ pc[r] # "idle" /\ job'[r].wake \in Wake
        /\ \A q \in Runner \ {r} : pc'[q] = pc[q] /\ job'[q] = job[q]
    BY <1>1, <2>1 DEF RunnerTypes
  <2>3. WakeTypeOK' /\ ("stall" \notin happened => ClaimsSound' /\ Fenced)
    BY <2>1, <2>2, ReleaseStep DEF Dropped
  <2>4. RunnersOk'
    BY <1>1, <2>1, <2>2 DEF RunnersOk, RunnerTypes, RunnerPc
  <2> QED BY <1>1, <2>1, <2>3, <2>4 DEF StepSound, WakesInv, RunnerTypes, RunnersOk, Statuses
<1> QED BY <1>4, <1>5, <1>6, <1>7, <1>8, <1>9, <1>10, <1>11, <1>12, <1>13, <1>14, <1>15, <1>16,
           <1>17, <1>18 DEF Run

\* Deaths, claims that run out and are renewed, throws.
LEMMA TroubleStep ==
  ASSUME WakesInv,
         \/ DaemonDies
         \/ \E w \in Wake : Expires(w)
         \/ \E r \in Runner : Throws(r) \/ Renews(r)
  PROVE  StepSound
<1>1. RunnerTypes /\ status \in Statuses /\ poll \in PollState
  BY DEF WakesInv, RunnerTypes, Statuses
<1>2. ASSUME NEW what, Happens(what)
      PROVE  happened' = happened \cup {what}
  BY <1>2 DEF Happens
<1>3. CASE DaemonDies
  <2> DEFINE left(w) == [wake[w] EXCEPT !.claim = None, !.expired = w \in InClaim]
  <2>1. \A w \in Wake : wake'[w] = IF wake[w].status = "cancelled" THEN Free ELSE left(w)
    BY <1>3 DEF DaemonDies
  <2>2. \A w \in Wake : wake[w] \in WakeRecord
    BY <1>1 DEF RunnerTypes, WakeTypeOK
  <2>3. \A w \in Wake : /\ left(w) \in WakeRecord
                        /\ left(w).status = wake[w].status /\ left(w).expired = (w \in InClaim)
    <3> SUFFICES ASSUME NEW w \in Wake
                 PROVE  /\ left(w) \in WakeRecord
                        /\ left(w).status = wake[w].status /\ left(w).expired = (w \in InClaim)
      OBVIOUS
    <3> DEFINE b == w \in InClaim
    <3>1. b \in BOOLEAN /\ left(w) = [wake[w] EXCEPT !.claim = None, !.expired = b]
      OBVIOUS
    <3> HIDE DEF b, left
    <3>2. left(w) \in WakeRecord /\ left(w).status = wake[w].status /\ left(w).expired = b
      BY <2>2, <3>1 DEF WakeRecord
    <3> QED BY <3>2 DEF b
  <2> HIDE DEF left
  <2>4. Free \in WakeRecord /\ Free.status = "free" /\ Free.expired = FALSE
    BY FreeIsARecord, RunnerAssumption DEF Free
  <2>5. WakeTypeOK'
    <3>1. \A w \in Wake : wake'[w] \in WakeRecord
      BY <2>1, <2>2, <2>3, <2>4
    <3>2. wake' = [w \in Wake |-> wake'[w]]
      BY <1>3 DEF DaemonDies
    <3> QED BY <3>1, <3>2 DEF WakeTypeOK
  <2>6. pc' = [r \in Runner |-> "idle"] /\ job' = [r \in Runner |-> NoJob] /\ poll' = NoPoll /\ status' = status
    BY <1>3 DEF DaemonDies
  <2>7. RunnerTypes'
    <3>1. NoJob \in JobRecord /\ NoPoll \in PollState
      BY DEF NoJob, JobRecord, NoPoll, PollState, PollPc
    <3> QED BY <1>1, <2>5, <2>6, <3>1 DEF RunnerTypes, RunnerPc, Statuses
  <2>8. \A w \in Wake : ~Alive(w)'
    BY <2>1, <2>2, <2>3, <2>4 DEF Alive, InClaim
  <2>9. \A r \in Runner : pc'[r] = "idle"
    BY <2>6
  <2>10. ClaimsSound'
    BY <2>8, <2>9, Phases DEF ClaimsSound
  <2>11. Fenced
    BY <2>1, <2>3 DEF Fenced, Pending
  <2> QED BY <2>7, <2>10, <2>11 DEF StepSound, WakesInv
<1>4. ASSUME NEW w \in Wake, Expires(w) PROVE StepSound
  <2>1. /\ w \in InClaim /\ wake' = [wake EXCEPT ![w].expired = TRUE]
        /\ status' = status /\ UNCHANGED <<pc, job, poll>> /\ "stall" \in happened'
    BY <1>2, <1>4 DEF Expires, ClaimExpires, graph
  <2>2. wake'[w] = [wake[w] EXCEPT !.expired = TRUE] /\ \A v \in Wake \ {w} : wake'[v] = wake[v]
    BY <1>1, <2>1 DEF RunnerTypes, WakeTypeOK, InClaim
  <2>3. wake'[w] \in WakeRecord
    BY <1>1, <2>2 DEF RunnerTypes, WakeTypeOK, WakeRecord
  <2>4. WakeTypeOK'
    BY <1>1, <2>1, <2>2, <2>3 DEF RunnerTypes, WakeTypeOK
  <2>5. RunnerTypes'
    BY <1>1, <2>1, <2>4 DEF RunnerTypes
  <2>6. Fenced
    <3>1. w \notin Pending
      BY <2>1 DEF InClaim, Pending
    <3> QED BY <2>2, <3>1 DEF Fenced, Pending
  <2> QED BY <2>1, <2>5, <2>6 DEF StepSound, WakesInv
<1>5. ASSUME NEW r \in Runner, Renews(r) PROVE StepSound
  <2> DEFINE w == job[r].wake
             b == IF wake[w].status = "claimed" /\ wake[w].claim = r THEN FALSE ELSE wake[w].expired
  <2>1. /\ pc[r] # "idle" /\ wake[w].expired /\ wake' = [wake EXCEPT ![w].expired = b]
        /\ status' = status /\ UNCHANGED <<pc, job, poll, happened>>
    BY <1>5 DEF Renews, Heartbeat, graph
  <2>2. w \in Wake /\ wake[w] \in WakeRecord
    BY <1>1, <2>1 DEF RunnerTypes, WakeTypeOK
  <2>3. b \in BOOLEAN
    BY <2>2 DEF WakeRecord
  <2> HIDE DEF b
  <2>4. [wake[w] EXCEPT !.expired = b] \in WakeRecord
    BY <2>2, <2>3 DEF WakeRecord
  <2>5. WakeTypeOK'
    BY <1>1, <2>1, <2>2, <2>4 DEF RunnerTypes, WakeTypeOK
  <2>6. RunnerTypes'
    BY <1>1, <2>1, <2>5 DEF RunnerTypes
  \* Before a claim has expired there is none to renew.
  <2>7. "stall" \in happened
    <3> SUFFICES ASSUME "stall" \notin happened PROVE FALSE
      OBVIOUS
    <3>1. ClaimsSound /\ pc[r] \in RunnerPc
      BY DEF WakesInv, RunnerTypes
    <3> QED BY <2>1, <3>1, Phases DEF ClaimsSound, KeepsOwn
  <2> QED BY <2>1, <2>6, <2>7 DEF StepSound, WakesInv
<1>6. ASSUME NEW r \in Runner, Throws(r) PROVE StepSound
  <2>1. \E to \in Keeping : pc' = [pc EXCEPT ![r] = to]
    BY <1>6 DEF Throws, Go, Keeping, InTick
  <2>2. job' = job \/ job' = [job EXCEPT ![r].failed = TRUE]
    BY <1>6 DEF Throws
  <2>3. \E j \in JobRecord : j.wake = job[r].wake /\ job' = [job EXCEPT ![r] = j]
    BY <1>1, <2>2, JobFields
  <2>4. pc[r] \in Keeping /\ status' = status /\ UNCHANGED <<wake, poll>>
    BY <1>6 DEF Throws, Go, Keeping, InTick, graph
  <2>5. WakesMove /\ happened \subseteq happened'
    BY <1>1, <1>2, <1>6, <2>4, UnmovedMoves DEF Throws
  <2>6. RunnersOk' /\ Kept
    BY <1>1, <2>1, <2>3, <2>4, RunnerMoves
  <2> QED BY <1>1, <2>4, <2>5, <2>6, MildSound
<1> QED BY <1>3, <1>4, <1>5, <1>6

\* Time, operators and deliveries do not touch the runners.
LEMMA OutsideStep ==
  ASSUME WakesInv,
         \/ Delivery \/ Command \/ GraphClock \/ WakeClock
         \/ Pause \/ Resume \/ Deliver \/ DeliveryDies
  PROVE  StepSound
<1>1. RunnerTypes /\ status \in Statuses /\ poll \in PollState
  BY DEF WakesInv, RunnerTypes, Statuses
<1>2. UNCHANGED <<pc, job, poll>> /\ happened \subseteq happened'
  BY DEF Delivery, Command, GraphClock, WakeClock, Pause, Resume, Deliver, DeliveryDies, Redeliver,
         DeliverLooks, DeliverActivates, DeliverSchedules, PauseCancels, ResumeSchedules, TimerDue,
         LeaseExpires, WakeDue, DlvOnly, OpOnly, Happens
<1>3. status' \in Statuses
  <2>1. UNCHANGED status \/ SetStatus("active") \/ SetStatus("paused")
    BY DEF Delivery, Command, GraphClock, WakeClock, Pause, Resume, Deliver, DeliveryDies, Redeliver,
           DeliverLooks, DeliverActivates, DeliverSchedules, PauseCancels, ResumeSchedules, TimerDue,
           LeaseExpires, WakeDue, RecordEvent, ResumeByInbox, graph
  <2> QED BY <1>1, <2>1, StatusTyped DEF Statuses
<1>4. WakesMove
  <2>1. \/ UNCHANGED wake
        \/ Schedule("manual", "graph", TRUE, Held)
        \/ Schedule("event", "graph", TRUE, Held)
        \/ CancelForLoop(Held)
        \/ \E w \in Wake : FireAt(w)
    BY DEF Delivery, Command, GraphClock, WakeClock, Pause, Resume, Deliver, DeliveryDies, Redeliver,
           DeliverLooks, DeliverActivates, DeliverSchedules, PauseCancels, ResumeSchedules, TimerDue,
           LeaseExpires, WakeDue
  <2> QED BY <1>1, <2>1, UnmovedMoves, ScheduleMoves, CancelMoves, FireMoves DEF Kind, Target
<1> QED BY <1>1, <1>2, <1>3, <1>4, RunnersStay, MildSound

LEMMA WakesInvInit == Init => WakesInv
<1> SUFFICES ASSUME Init PROVE WakesInv
  OBVIOUS
<1>1. Free \in WakeRecord
  BY FreeIsARecord, RunnerAssumption
<1>2. \A w \in Wake : wake[w] = Free
  BY DEF Init, WakeInit
<1>3. WakeTypeOK
  BY <1>1 DEF Init, WakeInit, WakeTypeOK
<1>4. NoJob \in JobRecord /\ NoPoll \in PollState
  BY DEF NoJob, JobRecord, NoPoll, PollState, PollPc
<1>5. RunnerTypes
  BY <1>3, <1>4 DEF Init, RunnerTypes, RunnerPc
<1>6. \A r \in Runner : pc[r] = "idle"
  BY DEF Init
<1>7. ClaimsSound
  BY <1>2, <1>6, Phases DEF ClaimsSound, Alive, Free
<1> QED BY <1>5, <1>7 DEF WakesInv

LEMMA WakesInvNext == WakesInv /\ [Next]_vars => StepSound
<1> SUFFICES ASSUME WakesInv, [Next]_vars PROVE StepSound
  OBVIOUS
<1>1. CASE UNCHANGED vars
  <2>1. RunnerTypes /\ status' \in Statuses /\ poll' \in PollState /\ UNCHANGED <<wake, pc, job, happened>>
    BY <1>1 DEF WakesInv, RunnerTypes, Statuses, vars, graph
  <2> QED BY <2>1, UnmovedMoves, RunnersStay, MildSound
<1>2. CASE Next
  BY <1>2, PollStep, RunStep, TroubleStep, OutsideStep DEF Next
<1> QED BY <1>1, <1>2

-----------------------------------------------------------------------------
\* As long as claims are renewed in time, no two ticks of an instance are in flight,
\* unless the wakes of the loop were cancelled while one of them ran.
THEOREM TicksApart == Spec => []OneTick
<1>1. WakesInv => OneTick
  <2> SUFFICES ASSUME WakesInv, "stall" \notin happened, NEW r \in Runner, NEW q \in Runner,
                      pc[r] \in InTick, pc[q] \in InTick, r # q, ~Overtaken(r), ~Overtaken(q)
               PROVE  FALSE
    BY DEF OneTick
  <2>1. ClaimsSound /\ pc[r] \in Keeping /\ pc[q] \in Keeping
    BY DEF WakesInv, Keeping
  <2>2. job[r].wake \in Wake /\ job[q].wake \in Wake /\ job[r].wake # job[q].wake
    BY <2>1, Phases DEF WakesInv, RunnerTypes, ClaimsSound
  <2>3. Alive(job[r].wake) /\ Alive(job[q].wake)
    BY <2>1 DEF ClaimsSound, KeepsOwn, Overtaken, Alive
  <2> QED BY <2>1, <2>2, <2>3 DEF ClaimsSound
<1>2. WakesInv /\ [Next]_vars => WakesInv'
  BY WakesInvNext DEF StepSound
<1> QED BY <1>1, <1>2, WakesInvInit, PTL DEF Spec

\* As long as claims are renewed in time, a pending wake is never dropped alone: no
\* tick, retry, poll or restart releases a wake that it does not hold.
THEOREM NobodyDropsAnothersWake == Spec => StaleOwnerFenced
<1>1. WakesInv /\ [Next]_vars => WakesInv'
  BY WakesInvNext DEF StepSound
<1>2. WakesInv /\ [Next]_vars =>
        [\A w \in Pending : "stall" \notin happened /\ wake'[w].status = "free" => LiveWakes' = {}]_vars
  BY WakesInvNext DEF StepSound, Fenced
<1> QED BY <1>1, <1>2, WakesInvInit, PTL DEF Spec, StaleOwnerFenced
=============================================================================
