------------------------------ MODULE MCFiles ------------------------------
(***************************************************************************)
(* Files that several processes write: those of a graph instance           *)
(* (GraphJournal), the transcript of a session (SessionHistory), and the   *)
(* lock that both are written under (FileLock).  `focus` says which of     *)
(* them a behaviour is about; the others do not change.                    *)
(***************************************************************************)
EXTENDS GraphJournal, SessionHistory, FileLock

CONSTANTS instance, a1

MCRecordId == {instance, a1}
MCHeader   == {instance}
\* A claim of the activation; a change of the activation and of the instance.
MCKinds == {[keys |-> {a1}, claim |-> TRUE], [keys |-> {instance, a1}, claim |-> FALSE]}

\* Processes differ in nothing: those of an instance, of a session and of a lock.
Sym == Permutations(Process) \cup Permutations(Client) \cup Permutations(Proc)

VARIABLE focus

FilesInit ==
  /\ focus \in {"graph", "session", "lock"}
  /\ JournalInit /\ HistoryInit /\ Init

FilesNext ==
  \/ focus = "graph" /\ JournalNext /\ UNCHANGED <<focus, historyVars, vars>>
  \/ focus = "session" /\ HistoryNext /\ UNCHANGED <<focus, journalVars, vars>>
  \/ focus = "lock" /\ Next /\ UNCHANGED <<focus, journalVars, historyVars>>

FilesSpec == FilesInit /\ [][FilesNext]_<<focus, journalVars, historyVars, vars>>

-----------------------------------------------------------------------------
\* The types of the three.
FilesTypeOK == JournalTypeOK /\ HistoryTypeOK /\ TypeOK
=============================================================================
