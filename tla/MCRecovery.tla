----------------------------- MODULE MCRecovery -----------------------------
(***************************************************************************)
(* What processes that die or stall leave behind, and who clears it: the   *)
(* file lock (FileLock), the locks of a daemon (LoopDaemon), and the probe *)
(* of a provider's circuit (ProviderCircuit).  `focus` says which of them  *)
(* a behaviour is about; the others do not move.                           *)
(***************************************************************************)
EXTENDS FileLock, LoopDaemon, ProviderCircuit

VARIABLE focus

allVars == <<focus, vars, daemonVars, circuitVars>>

RecoveryInit ==
  /\ focus \in {"lock", "daemon", "circuit"}
  /\ Init /\ DaemonInit /\ CircuitInit

OnLock    == focus = "lock" /\ UNCHANGED <<focus, daemonVars, circuitVars>>
OnDaemon  == focus = "daemon" /\ UNCHANGED <<focus, vars, circuitVars>>
OnCircuit == focus = "circuit" /\ UNCHANGED <<focus, vars, daemonVars>>

RecoveryNext ==
  \/ OnLock /\ Next
  \/ OnDaemon /\ DaemonNext
  \/ OnCircuit /\ CircuitNext

\* That of the specifications.
Fairness ==
  /\ \A p \in Proc :
       /\ WF_allVars(OnLock /\ Acquire(p))
       /\ WF_allVars(OnLock /\ Release(p))
       /\ WF_allVars(OnLock /\ Beat(p))
  /\ WF_allVars(OnLock /\ TimePasses)
  /\ \A d \in Daemon :
       WF_allVars(OnDaemon /\ (Startup(d) \/ RenewLease(d) \/ Shutdown(d) \/ DaemonResumes(d)))
  /\ WF_allVars(OnDaemon /\ LockAges)
  /\ WF_allVars(OnDaemon /\ LeaseAges)
  /\ \A c \in Caller : WF_allVars(OnCircuit /\ (Succeed(c) \/ Fail(c) \/ Abandon(c)))
  /\ WF_allVars(OnCircuit /\ \E c \in Caller : AdmitProbe(c))
  /\ WF_allVars(OnCircuit /\ CooldownEnds)

RecoverySpec == RecoveryInit /\ [][RecoveryNext]_allVars /\ Fairness

-----------------------------------------------------------------------------
\* The types of the three.
RecoveryTypeOK == TypeOK /\ DaemonTypeOK /\ CircuitTypeOK

\* What dead and stalled processes leave behind is cleared: the lock of a dead holder
\* goes (FileLock!DeadLockGoes), a scheduler that is started again and again gets to
\* run (LoopDaemon!WorkspaceRecovers), and a provider that failed is tried again, by a
\* probe that ends (ProviderCircuit!CircuitRetried, ProbeEnds).
EverythingRecovers ==
  /\ DeadLockGoes
  /\ focus = "daemon" => WorkspaceRecovers
  /\ CircuitRetried
  /\ ProbeEnds
=============================================================================
