----------------------------- MODULE LoopDaemon -----------------------------
(***************************************************************************)
(* runLoopScheduler: what keeps one scheduler in a workspace.  A daemon    *)
(* takes .loop/daemon.lock (a file linked into place, presumed orphaned    *)
(* when its process is dead or it has not been touched for a while), then  *)
(* the lease of the workspace from HostSchedulerCoordinator, which lives   *)
(* for its time and is checked under the coordinator's lock.  It renews    *)
(* both from timers, and stops when the lease turns out to be lost.        *)
(*                                                                         *)
(* A lock or a lease gets old only while its owner is dead or stalled.     *)
(***************************************************************************)
EXTENDS Naturals

CONSTANTS
  Daemon,           \* processes on one machine, started again when they exit
  NoDaemon,
  MaxDaemonFaults   \* bound: daemons that die or stall

ASSUME DaemonAssumption == NoDaemon \notin Daemon /\ MaxDaemonFaults \in Nat

VARIABLES
  step,      \* the next step of each daemon
  state,     \* running, stalled, dead
  seen,      \* the owner of the lock file that a daemon has read
  lockFile,  \* the owner of the lock file and whether it is stale
  lease,     \* the owner of the workspace lease and whether it has expired
  overdue,   \* history: daemons whose lease expired and was not had again
  troubles   \* faults so far

daemonVars == <<step, state, seen, lockFile, lease, overdue, troubles>>

NoEntry == [by |-> NoDaemon, old |-> FALSE]

DaemonInit ==
  /\ step = [d \in Daemon |-> "off"]
  /\ state = [d \in Daemon |-> "running"]
  /\ seen = [d \in Daemon |-> NoDaemon]
  /\ lockFile = NoEntry /\ lease = NoEntry
  /\ overdue = {} /\ troubles = 0

At(d, from) == state[d] = "running" /\ step[d] = from

To(d, to) == step' = [step EXCEPT ![d] = to]

-----------------------------------------------------------------------------
(* acquireDaemonLock *)

\* The content of the file, or nothing, is read before anything else.
ReadLock(d) ==
  /\ At(d, "off")
  /\ seen' = [seen EXCEPT ![d] = lockFile.by]
  /\ To(d, IF lockFile.by = NoDaemon THEN "link" ELSE "stat")
  /\ UNCHANGED <<state, lockFile, lease, overdue, troubles>>

HeldByLive(d) ==
  state[seen[d]] # "dead" /\ lockFile.by # NoDaemon /\ ~lockFile.old

\* The owner is the one that was read, the age that of the file at the path now.
StatLock(d) ==
  /\ At(d, "stat")
  /\ To(d, IF HeldByLive(d) THEN "off" ELSE "rename")
  /\ seen' = [seen EXCEPT ![d] = NoDaemon]
  /\ UNCHANGED <<state, lockFile, lease, overdue, troubles>>

\* rename() takes whatever file is at the path; without one the attempt fails.
RenameLock(d) ==
  /\ At(d, "rename")
  /\ To(d, IF lockFile.by = NoDaemon THEN "off" ELSE "link")
  /\ lockFile' = NoEntry
  /\ UNCHANGED <<state, seen, lease, overdue, troubles>>

\* link() fails when there is a file.
LinkLock(d) ==
  /\ At(d, "link")
  /\ IF lockFile.by = NoDaemon
     THEN To(d, "lease") /\ lockFile' = [by |-> d, old |-> FALSE]
     ELSE To(d, "off") /\ UNCHANGED lockFile
  /\ UNCHANGED <<state, seen, lease, overdue, troubles>>

-----------------------------------------------------------------------------
(* The workspace lease, and the loop *)

\* Mutant: the lock is taken for proof enough.
LeaseFree == TRUE

LeaseIsFree == lease.by = NoDaemon \/ lease.old

\* On a conflict the daemon gives its lock back and exits.
AcquireLease(d) ==
  /\ At(d, "lease")
  /\ IF LeaseIsFree
     THEN To(d, "run") /\ lease' = [by |-> d, old |-> FALSE] /\ overdue' = overdue \ {d}
     ELSE To(d, "check") /\ UNCHANGED <<lease, overdue>>
  /\ UNCHANGED <<state, seen, lockFile, troubles>>

\* A lease past its time that nobody has reaped is renewed; one that is gone
\* aborts the daemon.
RenewLease(d) ==
  /\ At(d, "run")
  /\ \/ /\ lease.by = d /\ lease.old
        /\ lease' = [lease EXCEPT !.old = FALSE]
        /\ overdue' = overdue \ {d}
        /\ UNCHANGED step
     \/ lease.by # d /\ To(d, "release") /\ UNCHANGED <<lease, overdue>>
  /\ UNCHANGED <<state, seen, lockFile, troubles>>

TouchLock(d) ==
  /\ At(d, "run")
  /\ lockFile.by = d /\ lockFile.old
  /\ lockFile' = [lockFile EXCEPT !.old = FALSE]
  /\ UNCHANGED <<step, state, seen, lease, overdue, troubles>>

\* Idle, or aborted.
Stop(d) ==
  /\ At(d, "run") /\ To(d, "release")
  /\ UNCHANGED <<state, seen, lockFile, lease, overdue, troubles>>

ReleaseLease(d) ==
  /\ At(d, "release") /\ To(d, "check")
  /\ lease' = IF lease.by = d THEN NoEntry ELSE lease
  /\ overdue' = overdue \ {d}
  /\ UNCHANGED <<state, seen, lockFile, troubles>>

\* releaseDaemonLock reads the file and then removes the path.
CheckLock(d) ==
  /\ At(d, "check")
  /\ To(d, IF lockFile.by = d THEN "remove" ELSE "off")
  /\ UNCHANGED <<state, seen, lockFile, lease, overdue, troubles>>

RemoveLock(d) ==
  /\ At(d, "remove") /\ To(d, "off")
  /\ lockFile' = NoEntry
  /\ UNCHANGED <<state, seen, lease, overdue, troubles>>

-----------------------------------------------------------------------------
(* Faults and time *)

Trouble(d, what) ==
  /\ state[d] = "running" /\ step[d] # "off"
  /\ troubles < MaxDaemonFaults /\ troubles' = troubles + 1
  /\ state' = [state EXCEPT ![d] = what]
  /\ UNCHANGED <<step, seen, lockFile, lease, overdue>>

DaemonDies(d)   == Trouble(d, "dead")
DaemonStalls(d) == Trouble(d, "stalled")

DaemonResumes(d) ==
  /\ state[d] = "stalled" /\ state' = [state EXCEPT ![d] = "running"]
  /\ UNCHANGED <<step, seen, lockFile, lease, overdue, troubles>>

LockAges ==
  /\ lockFile.by # NoDaemon /\ ~lockFile.old /\ state[lockFile.by] # "running"
  /\ lockFile' = [lockFile EXCEPT !.old = TRUE]
  /\ UNCHANGED <<step, state, seen, lease, overdue, troubles>>

LeaseAges ==
  /\ lease.by # NoDaemon /\ ~lease.old /\ state[lease.by] # "running"
  /\ lease' = [lease EXCEPT !.old = TRUE]
  /\ overdue' = overdue \cup {lease.by}
  /\ UNCHANGED <<step, state, seen, lockFile, troubles>>

-----------------------------------------------------------------------------
Startup(d) == ReadLock(d) \/ StatLock(d) \/ RenameLock(d) \/ LinkLock(d) \/ AcquireLease(d)
Shutdown(d) == ReleaseLease(d) \/ CheckLock(d) \/ RemoveLock(d)

DaemonNext ==
  \/ \E d \in Daemon :
       \/ Startup(d) \/ RenewLease(d) \/ TouchLock(d) \/ Stop(d) \/ Shutdown(d)
       \/ DaemonDies(d) \/ DaemonStalls(d) \/ DaemonResumes(d)
  \/ LockAges \/ LeaseAges

DaemonSpec == DaemonInit /\ [][DaemonNext]_daemonVars

\* Daemons are started again and take their steps, timers fire and time passes.
DaemonFairSpec ==
  /\ DaemonSpec
  /\ \A d \in Daemon :
       WF_daemonVars(Startup(d) \/ RenewLease(d) \/ Shutdown(d) \/ DaemonResumes(d))
  /\ WF_daemonVars(LockAges) /\ WF_daemonVars(LeaseAges)

-----------------------------------------------------------------------------
(* Properties *)

(* Type correctness, and a lock is examined only where one was read. *)
DaemonTypeOK ==
  /\ step \in [Daemon -> {"off", "stat", "rename", "link", "lease", "run", "release", "check", "remove"}]
  /\ state \in [Daemon -> {"running", "stalled", "dead"}]
  /\ seen \in [Daemon -> Daemon \cup {NoDaemon}]
  /\ \A d \in Daemon : step[d] = "stat" <=> seen[d] # NoDaemon
  /\ lockFile \in [by: Daemon \cup {NoDaemon}, old: BOOLEAN]
  /\ lease \in [by: Daemon \cup {NoDaemon}, old: BOOLEAN]
  /\ overdue \subseteq Daemon
  /\ troubles \in 0..MaxDaemonFaults

Runs(d) == step[d] = "run" /\ state[d] # "dead"

\* Two schedulers run in a workspace only while one of them goes on without having
\* noticed that its lease has passed.  Two daemons that take over one stale lock may
\* both end up with it; the lease is what stops the second.
OneScheduler ==
  \A d, e \in Daemon \ overdue : Runs(d) /\ Runs(e) => d = e

\* Whatever a dead or stalled scheduler leaves behind, one that is started again
\* and again gets to run.
WorkspaceRecovers ==
  \A d \in Daemon :
    ~<>[](state[d] = "running" /\ \A e \in Daemon : ~At(e, "run"))

=============================================================================
