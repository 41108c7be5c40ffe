--------------------------- MODULE GraphJournal ---------------------------
(***************************************************************************)
(* The files in which GraphStore keeps an instance (GraphStore.ts): one    *)
(* journal file for each event, a counter, two generations of checkpoints, *)
(* and a projection file for each record.  Each step writes or deletes one *)
(* file (atomicWriteJson renames, so no file is half written); a process   *)
(* may die after any of them, and the counter or the checkpoint may turn   *)
(* out unreadable, which readJsonFile treats as missing.  The transaction  *)
(* lock is taken to exclude.                                               *)
(***************************************************************************)
EXTENDS Integers, FiniteSets

CONSTANTS
  Process, NoProcess,
  RecordId,
  Header,             \* keys whose projection reconcileLocked compares
  Kinds,              \* [keys : SUBSET RecordId, claim : BOOLEAN]
  Interval,           \* CHECKPOINT_INTERVAL
  Batch,              \* HOUSEKEEPING_BATCH
  MaxEvents,          \* bound on the number of events
  MaxBeats,           \* bound on the renewals of a lease
  MaxDeaths, MaxLosses, \* bounds on the faults
  LossDuringPrune     \* may the checkpoint be lost while a pruning is cut short?

ASSUME JournalAssumption ==
  /\ NoProcess \notin Process /\ RecordId # {}
  /\ Header \subseteq RecordId
  /\ Interval \in Nat \ {0} /\ Batch \in Nat \ {0} /\ MaxEvents \in Nat \ {0}
  /\ MaxBeats \in Nat /\ MaxDeaths \in Nat /\ MaxLosses \in Nat
  /\ \A kind \in Kinds : kind.keys \subseteq RecordId /\ kind.keys # {} /\ kind.claim \in BOOLEAN
  /\ LossDuringPrune \in BOOLEAN

VARIABLES
  journal,      \* the journal files: what event each holds
  counter,      \* journal-sequence.json
  checkpoint,   \* checkpoint.json
  prev,         \* checkpoint.prev.json
  proj,         \* the projection files
  memo,         \* what each process remembers of earlier transactions
  tx,           \* the transaction that holds the lock
  read,         \* what the last reconciliation gave to its caller
  cut,          \* a pruning has begun and its checkpoint is not yet written
  torn,         \* keys a process died over while it repaired their projections
  deaths, losses

journalVars == <<journal, counter, checkpoint, prev, proj, memo, tx, read, cut,
                 torn, deaths, losses>>

Missing == -1
NoEvent == [keys |-> {}, claim |-> FALSE]
Creation == [keys |-> RecordId, claim |-> FALSE]
Sequences == 1..MaxEvents
(* A record: the event it is from, whether that claims an activation, and  *)
(* how often the lease of the claim was renewed.                           *)
Written(seq, kind) == [seq |-> seq, claim |-> kind.claim, beats |-> 0]
Snapshot == [RecordId -> [seq : 0..MaxEvents, claim : BOOLEAN, beats : 0..MaxBeats]]
NoCheckpoint == [last |-> Missing, view |-> [k \in RecordId |-> Written(0, NoEvent)], pruned |-> 0]
NoMemo == [repaired |-> 0, pruned |-> Missing]
Idle == [by |-> NoProcess, pc |-> "idle", view |-> NoCheckpoint.view, last |-> 0, base |-> 0,
         at |-> 0, left |-> {}, fixed |-> FALSE, batch |-> 0]

Exists(seq) == seq \in Sequences /\ journal[seq] # NoEvent
Largest(S) == CHOOSE x \in S : \A y \in S : y <= x
Smallest(S) == CHOOSE x \in S : \A y \in S : x <= y
Files == {seq \in Sequences : Exists(seq)}

(* readLastSequenceLocked: the counter may lag behind the journal by the    *)
(* files written since, and when it is lost the directory and the          *)
(* checkpoints tell.                                                       *)
LastSequence ==
  IF counter # Missing
  THEN Largest({seq \in counter..MaxEvents : \A s \in (counter + 1)..seq : Exists(s)})
  ELSE LET newest == IF checkpoint # NoCheckpoint THEN checkpoint ELSE prev
       IN  Largest(Files \cup {0} \cup ({newest.last} \ {Missing}))

(* The checkpoint a reconciliation starts from. *)
Base ==
  LET usable(c) == c # NoCheckpoint /\ c.last <= LastSequence
  IN  IF usable(checkpoint) THEN checkpoint
      ELSE IF usable(prev) THEN prev
      ELSE [NoCheckpoint EXCEPT !.last = 0]
AfterBase == (Base.last + 1)..LastSequence
Readable == /\ \A seq \in AfterBase : Exists(seq)
            /\ Base.last > 0 \/ AfterBase # {}

(* Replay of the tail over the base, a newer event's record replacing an    *)
(* older one's.                                                            *)
Replayed ==
  [k \in RecordId |->
     LET writes == {seq \in AfterBase : k \in journal[seq].keys}
     IN  IF writes = {} THEN Base.view[k]
         ELSE Written(Largest(writes), journal[Largest(writes)])]
(* A projection of the same claim with a later renewal is overlaid. *)
Recovered ==
  [k \in RecordId |->
     LET record == Replayed[k]
     IN  IF record.claim /\ proj[k].claim /\ proj[k].seq = record.seq /\ proj[k].beats > record.beats
         THEN proj[k] ELSE record]
LatestOf(view) == [k \in RecordId |-> view[k].seq]

JournalInit ==
  /\ journal = [seq \in Sequences |-> IF seq = 1 THEN Creation ELSE NoEvent]
  /\ counter = 1
  /\ checkpoint = NoCheckpoint /\ prev = NoCheckpoint
  /\ proj = [k \in RecordId |-> Written(1, NoEvent)]
  /\ memo = [p \in Process |-> NoMemo]
  /\ tx = Idle
  /\ read = [last |-> 1, latest |-> [k \in RecordId |-> 1]]
  /\ cut = FALSE
  /\ torn = {}
  /\ deaths = 0 /\ losses = 0

-----------------------------------------------------------------------------
(* reconcileLocked *)

(* The steps of a reconciliation, each left as soon as it has nothing to do. *)
AfterHeader(t) ==
  IF t.base = 0 \/ t.last - t.base >= Interval
  THEN [t EXCEPT !.pc = "prune", !.left = {}] ELSE [t EXCEPT !.pc = "done", !.left = {}]
AfterRepair(t) ==
  IF t.fixed THEN [t EXCEPT !.pc = "header", !.left = Header] ELSE AfterHeader(t)
NextRepair(t) ==
  IF t.at = t.last THEN AfterRepair([t EXCEPT !.left = {}])
  ELSE [t EXCEPT !.at = @ + 1, !.left = journal[t.at + 1].keys, !.fixed = TRUE]

(* Mutant: a process that has reconciled before trusts the projections. *)
TrustsMemo(p) == IF memo[p].repaired > 0 THEN LastSequence ELSE Base.last

(* The event up to which the projections are known to be good. *)
RepairFrom(p) ==
  LET from == IF memo[p].repaired > Base.last THEN memo[p].repaired ELSE Base.last
  IN  IF from > LastSequence THEN LastSequence ELSE from

(* The lock is taken; everything is read, and the counter put right. *)
BeginTransaction(p) ==
  /\ tx = Idle
  /\ counter' = LastSequence
  /\ IF Readable
     THEN tx' = NextRepair([Idle EXCEPT !.by = p, !.pc = "repair", !.view = Recovered,
                                        !.last = LastSequence, !.base = Base.last,
                                        !.at = RepairFrom(p)])
     ELSE UNCHANGED tx
  /\ UNCHANGED <<journal, checkpoint, prev, proj, memo, read, cut, torn, deaths, losses>>

(* repairEventProjectionLocked: the files of one event after the other.  A  *)
(* claim does not replace a projection of the same claim with a renewal.   *)
RepairFile(k) ==
  /\ tx.pc = "repair" /\ k \in tx.left
  /\ LET event == journal[tx.at]
         kept == event.claim /\ proj[k].claim /\ proj[k].seq = tx.at /\ proj[k].beats > 0
     IN  proj' = IF kept THEN proj ELSE [proj EXCEPT ![k] = Written(tx.at, event)]
  /\ tx' = LET t == [tx EXCEPT !.left = @ \ {k}]
           IN  IF t.left = {} THEN NextRepair(t) ELSE t
  /\ UNCHANGED <<journal, counter, checkpoint, prev, memo, read, cut, torn, deaths, losses>>

(* After a repair, instance.json and state.json are compared and written. *)
FixHeader(k) ==
  /\ tx.pc = "header" /\ k \in tx.left
  /\ proj' = [proj EXCEPT ![k] = tx.view[k]]
  /\ tx' = LET t == [tx EXCEPT !.left = @ \ {k}]
           IN  IF t.left = {} THEN AfterHeader(t) ELSE t
  /\ UNCHANGED <<journal, counter, checkpoint, prev, memo, read, cut, torn, deaths, losses>>

(* writeCheckpointLocked: how far both generations will reach, and how far  *)
(* the journal is pruned already (resolvePrunedThroughLocked).             *)
PruneThrough ==
  IF checkpoint = NoCheckpoint THEN 0
  ELSE IF checkpoint.last < tx.last THEN checkpoint.last ELSE tx.last
PrunedThrough(p) ==
  IF memo[p].pruned # Missing THEN memo[p].pruned
  ELSE IF checkpoint # NoCheckpoint THEN checkpoint.pruned
  ELSE IF Files # {} THEN Smallest(Files) - 1 ELSE 0

PruneFile(p) ==
  /\ tx.by = p /\ tx.pc = "prune"
  /\ PrunedThrough(p) < PruneThrough /\ tx.batch < Batch
  /\ journal' = [journal EXCEPT ![PrunedThrough(p) + 1] = NoEvent]
  /\ memo' = [memo EXCEPT ![p].pruned = PrunedThrough(p) + 1]
  /\ tx' = [tx EXCEPT !.batch = @ + 1]
  /\ cut' = TRUE
  /\ UNCHANGED <<counter, checkpoint, prev, proj, read, torn, deaths, losses>>

RotateCheckpoint(p) ==
  /\ tx.by = p /\ tx.pc = "prune"
  /\ PrunedThrough(p) >= PruneThrough \/ tx.batch = Batch
  /\ prev' = IF checkpoint # NoCheckpoint /\ checkpoint.last < tx.last THEN checkpoint ELSE prev
  /\ memo' = [memo EXCEPT ![p].pruned = PrunedThrough(p)]
  /\ tx' = [tx EXCEPT !.pc = "checkpoint"]
  /\ UNCHANGED <<journal, counter, checkpoint, proj, read, cut, torn, deaths, losses>>

(* Mutant: the checkpoint holds what it was replayed from. *)
WriteBase(p) ==
  /\ tx.by = p /\ tx.pc = "checkpoint"
  /\ checkpoint' = [last |-> tx.last, view |-> Base.view, pruned |-> memo[p].pruned]
  /\ cut' = FALSE
  /\ tx' = [tx EXCEPT !.pc = "done"]
  /\ UNCHANGED <<journal, counter, prev, proj, memo, read, torn, deaths, losses>>

WriteCheckpoint(p) ==
  /\ tx.by = p /\ tx.pc = "checkpoint"
  /\ checkpoint' = [last |-> tx.last, view |-> tx.view, pruned |-> memo[p].pruned]
  /\ cut' = FALSE
  /\ tx' = [tx EXCEPT !.pc = "done"]
  /\ UNCHANGED <<journal, counter, prev, proj, memo, read, torn, deaths, losses>>

(* The snapshot is handed to the caller. *)
Reconciled(p) ==
  /\ tx.by = p /\ tx.pc = "done"
  /\ memo' = [memo EXCEPT ![p].repaired = IF tx.last > @ THEN tx.last ELSE @]
  /\ read' = [last |-> tx.last, latest |-> LatestOf(tx.view)]
  /\ tx' = [Idle EXCEPT !.by = p, !.pc = "body", !.view = tx.view]
  /\ UNCHANGED <<journal, counter, checkpoint, prev, proj, cut, torn, deaths, losses>>

-----------------------------------------------------------------------------
(* The body of a transaction *)

(* appendEventLocked: the journal, then the counter; the caller then writes *)
(* the projections, before it may append another event.                    *)
AppendJournal(kind) ==
  /\ tx.pc = "body" /\ LastSequence < MaxEvents
  /\ journal' = [journal EXCEPT ![LastSequence + 1] = kind]
  /\ counter' = LastSequence
  /\ torn' = torn \ kind.keys
  /\ tx' = [tx EXCEPT !.pc = "count", !.at = LastSequence + 1, !.left = kind.keys]
  /\ UNCHANGED <<checkpoint, prev, proj, memo, read, cut, deaths, losses>>

WriteCounter ==
  /\ tx.pc = "count"
  /\ counter' = tx.at
  /\ tx' = [tx EXCEPT !.pc = "project"]
  /\ UNCHANGED <<journal, checkpoint, prev, proj, memo, read, cut, torn, deaths, losses>>

WriteProjection(k) ==
  /\ tx.pc = "project" /\ k \in tx.left
  /\ proj' = [proj EXCEPT ![k] = Written(tx.at, journal[tx.at])]
  /\ tx' = LET record == Written(tx.at, journal[tx.at])
               t == [tx EXCEPT !.left = @ \ {k}, !.view[k] = record]
           IN  IF t.left = {} THEN [t EXCEPT !.pc = "body", !.at = 0] ELSE t
  /\ UNCHANGED <<journal, counter, checkpoint, prev, memo, read, cut, torn, deaths, losses>>

(* heartbeat: the lease of a running claim, in its projection alone. *)
RenewLease(k) ==
  /\ tx.pc = "body" /\ tx.view[k].claim /\ tx.view[k].beats < MaxBeats
  /\ LET record == [tx.view[k] EXCEPT !.beats = @ + 1]
     IN  proj' = [proj EXCEPT ![k] = record]
  /\ tx' = Idle
  /\ UNCHANGED <<journal, counter, checkpoint, prev, memo, read, cut, torn, deaths, losses>>

(* Mutant: the lock is not given back. *)
KeepsLock ==
  /\ tx.pc = "body"
  /\ tx' = [Idle EXCEPT !.by = tx.by]
  /\ UNCHANGED <<journal, counter, checkpoint, prev, proj, memo, read, cut, torn, deaths, losses>>

EndTransaction ==
  /\ tx.pc = "body"
  /\ tx' = Idle
  /\ UNCHANGED <<journal, counter, checkpoint, prev, proj, memo, read, cut, torn, deaths, losses>>

-----------------------------------------------------------------------------
(* Faults *)

(* A process ends, in a transaction or between two, and another starts. *)
Dies(p) ==
  /\ deaths < MaxDeaths
  /\ memo[p] # NoMemo \/ tx.by = p
  /\ deaths' = deaths + 1
  /\ memo' = [memo EXCEPT ![p] = NoMemo]
  /\ tx' = IF tx.by = p THEN Idle ELSE tx
  /\ torn' = IF tx.by = p /\ tx.pc \in {"repair", "header"}
             THEN torn \cup {k \in RecordId : proj[k].seq # tx.view[k].seq} ELSE torn
  /\ UNCHANGED <<journal, counter, checkpoint, prev, proj, read, cut, losses>>

LoseCounter ==
  /\ tx = Idle /\ losses < MaxLosses
  /\ counter # Missing
  /\ losses' = losses + 1
  /\ counter' = Missing
  /\ UNCHANGED <<journal, checkpoint, prev, proj, memo, tx, read, cut, torn, deaths>>

LoseCheckpoint ==
  /\ tx = Idle /\ losses < MaxLosses
  /\ checkpoint # NoCheckpoint
  /\ LossDuringPrune \/ ~cut
  /\ losses' = losses + 1
  /\ checkpoint' = NoCheckpoint
  /\ UNCHANGED <<journal, counter, prev, proj, memo, tx, read, cut, torn, deaths>>

JournalNext ==
  \/ \E p \in Process :
       \/ BeginTransaction(p) \/ PruneFile(p) \/ RotateCheckpoint(p) \/ WriteCheckpoint(p)
       \/ Reconciled(p) \/ Dies(p)
  \/ \E k \in RecordId : RepairFile(k) \/ FixHeader(k) \/ WriteProjection(k) \/ RenewLease(k)
  \/ \E kind \in Kinds : AppendJournal(kind)
  \/ WriteCounter \/ EndTransaction
  \/ LoseCounter \/ LoseCheckpoint

JournalSpec == JournalInit /\ [][JournalNext]_journalVars

-----------------------------------------------------------------------------
(* Every file is of its type, and one transaction at a time writes them. *)
JournalTypeOK ==
  /\ journal \in [Sequences -> Kinds \cup {NoEvent, Creation}]
  /\ counter \in {Missing} \cup 1..MaxEvents
  /\ checkpoint.last \in {Missing} \cup 1..MaxEvents /\ checkpoint.view \in Snapshot
  /\ prev.last \in {Missing} \cup 1..MaxEvents /\ prev.view \in Snapshot
  /\ proj \in Snapshot
  /\ memo \in [Process -> [repaired : 0..MaxEvents, pruned : {Missing} \cup 0..MaxEvents]]
  /\ tx.by \in Process \cup {NoProcess} /\ tx.left \subseteq RecordId /\ tx.view \in Snapshot
  /\ tx.pc = "idle" <=> tx.by = NoProcess

(* Whatever dies and whichever file is lost, the next transaction finds a   *)
(* checkpoint with every later event, or every event                       *)
(* (readJournalRangeLocked throws on a gap, for ever).                     *)
Recoverable == tx = Idle => Readable

(* The files are a log: what a reconciliation returns is every event        *)
(* appended, each once and in order, and an event is there from the moment  *)
(* its journal file is, whatever was lost or interrupted around it.        *)
Log == INSTANCE GraphLog WITH last <- LastSequence, latest <- LatestOf(Replayed), given <- read
LogImplemented == Log!LogSpec

(* A process that dies between an event and its projections, or in a        *)
(* checkpoint, leaves nothing behind: before the next transaction acts, the *)
(* projections are what the log says.  (Dying in a repair is another matter: *)
(* see the README.)                                                        *)
ProjectionsCurrent ==
  tx.pc = "body" => \A k \in RecordId \ torn : proj[k].seq = LatestOf(Replayed)[k]

(* The files hold what was committed, whatever died while writing them.     *)
JournalSound == Recoverable /\ ProjectionsCurrent
=============================================================================
