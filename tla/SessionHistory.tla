--------------------------- MODULE SessionHistory ---------------------------
(***************************************************************************)
(* The transcript of one session on disk (core/SessionStore.ts, and the    *)
(* snapshots of cli/sessionFlow.ts): history.jsonl under the session's     *)
(* lock, its entry of index.json under the global lock, written one after  *)
(* the other by every process that has the session open.  Messages are     *)
(* numbered.                                                               *)
(***************************************************************************)
EXTENDS Integers, Sequences, SequencesExt

CONSTANTS
  Client,       \* processes
  MaxMessages,  \* bound on the messages written
  MaxMisfortunes \* bound on crashes, failed writes, trimmed loads, deletions, evictions

ASSUME HistoryAssumption == MaxMessages \in Nat /\ MaxMisfortunes \in Nat

VARIABLES
  transcript,   \* history.jsonl, <<>> when the directory is gone
  indexed,      \* messageCount of the index entry, -1 without one
  client,       \* the processes
  dormant,      \* not written for longer than the grace window
  written, misfortunes,
  shared,       \* two processes had the session open at once
  removed       \* the directory was removed

historyVars == <<transcript, indexed, client, dormant, written, misfortunes, shared, removed>>

NoEntry == -1
\* `edited`: the memory no longer begins with the transcript that `saved` counts.
Closed == [at |-> "off", memory |-> <<>>, saved |-> 0, edited |-> FALSE]

HistoryInit ==
  /\ transcript = <<>> /\ indexed = NoEntry
  /\ client = [c \in Client |-> Closed]
  /\ dormant = FALSE /\ written = 0 /\ misfortunes = 0 /\ shared = FALSE /\ removed = FALSE

Misfortune == misfortunes < MaxMisfortunes /\ misfortunes' = misfortunes + 1

\* loadHistory; normalizeResumedHistory may drop an answer without its call at the
\* front, or answer a call that never ran.
Resume(c) ==
  /\ client[c].at = "off"
  /\ \E loaded \in {transcript} \cup
         (IF transcript = <<>> THEN {} ELSE {Tail(transcript), Append(transcript, written + 1)}) :
       /\ IF loaded = transcript THEN UNCHANGED misfortunes ELSE Misfortune
       /\ written' = IF Len(loaded) > Len(transcript) THEN written + 1 ELSE written
       /\ written' <= MaxMessages
       /\ client' = [client EXCEPT ![c] = [Closed EXCEPT !.at = "open", !.memory = loaded, !.saved = Len(loaded),
                                                        !.edited = loaded # transcript]]
  /\ shared' = (shared \/ \E d \in Client : client[d].at # "off")
  /\ UNCHANGED <<transcript, indexed, dormant, removed>>

Converse(c) ==
  /\ client[c].at = "open" /\ written < MaxMessages
  /\ written' = written + 1
  /\ client' = [client EXCEPT ![c].memory = Append(@, written + 1)]
  /\ UNCHANGED <<transcript, indexed, dormant, misfortunes, shared, removed>>

\* Compaction in a turn leaves a summary, which is not what was saved.
Compact(c) ==
  /\ client[c].at = "open" /\ Len(client[c].memory) > 1 /\ written < MaxMessages
  /\ written' = written + 1
  /\ client' = [client EXCEPT ![c].memory = <<written + 1>>,
                              ![c].edited = @ \/ client[c].saved > 0]
  /\ UNCHANGED <<transcript, indexed, dormant, misfortunes, shared, removed>>

-----------------------------------------------------------------------------
\* append and replace, phase 1, under the session's lock: a count in the index that
\* is not the expected one makes append rewrite the history from memory.
Diverged(c) == indexed # NoEntry /\ indexed # client[c].saved
Rewrites(c) == Len(client[c].memory) < client[c].saved \/ Diverged(c)
Fresh(c) == SubSeq(client[c].memory, client[c].saved + 1, Len(client[c].memory))
Unsaved(c) == Len(client[c].memory) # client[c].saved
\* An edited transcript that has grown to the saved count again is taken for what was
\* saved: only its tail is appended.
Slips(c) == client[c].edited /\ Len(client[c].memory) >= client[c].saved /\ ~Diverged(c)
WriteHistory(c) ==
  /\ client[c].at = "open" /\ Unsaved(c)
  /\ transcript' = IF Rewrites(c) THEN client[c].memory ELSE transcript \o Fresh(c)
  /\ dormant' = FALSE
  /\ client' = [client EXCEPT ![c].at = "commit", ![c].edited = Slips(c)]
  /\ UNCHANGED <<indexed, written, misfortunes, shared, removed>>

SaveFails(c) ==
  /\ client[c].at = "open" /\ Unsaved(c) /\ Misfortune
  /\ UNCHANGED <<transcript, indexed, client, dormant, written, shared, removed>>

\* Phase 2, under the index's lock.
CommitIndex(c) ==
  /\ client[c].at = "commit"
  /\ indexed' = Len(client[c].memory)
  /\ client' = [client EXCEPT ![c].at = "open", ![c].saved = Len(client[c].memory)]
  /\ UNCHANGED <<transcript, dormant, written, misfortunes, shared, removed>>

\* A failed commit is swallowed: the process expects the old count, and appends the
\* same messages again unless the index says otherwise.
CommitFails(c) ==
  /\ client[c].at = "commit" /\ Misfortune
  /\ client' = [client EXCEPT ![c].at = "open", ![c].edited = TRUE]
  /\ UNCHANGED <<transcript, indexed, dormant, written, shared, removed>>

Leaves(c) ==
  /\ client[c].at # "off"
  /\ IF client[c].at = "open" /\ ~Unsaved(c)
       THEN UNCHANGED misfortunes ELSE Misfortune
  /\ client' = [client EXCEPT ![c] = Closed]
  /\ UNCHANGED <<transcript, indexed, dormant, written, shared, removed>>

-----------------------------------------------------------------------------
\* deleteSession, with both locks.
DeleteSession ==
  /\ indexed # NoEntry /\ Misfortune
  /\ indexed' = NoEntry /\ transcript' = <<>> /\ removed' = TRUE
  /\ UNCHANGED <<client, dormant, written, shared>>

GraceEnds ==
  /\ ~dormant /\ Misfortune
  /\ dormant' = TRUE
  /\ UNCHANGED <<transcript, indexed, client, written, shared, removed>>

\* Newer sessions push the entry out of the index; a directory not written for the
\* grace window goes with it.
SparedNever == FALSE
Spared == ~dormant
Evict ==
  /\ indexed # NoEntry /\ Misfortune
  /\ indexed' = NoEntry
  /\ transcript' = IF Spared THEN transcript ELSE <<>>
  /\ removed' = (removed \/ dormant)
  /\ UNCHANGED <<client, dormant, written, shared>>

\* _sweepStaleOrphans: a dormant directory without an entry.
SweepOrphan ==
  /\ indexed = NoEntry /\ dormant /\ transcript # <<>>
  /\ transcript' = <<>> /\ removed' = TRUE
  /\ UNCHANGED <<indexed, client, dormant, written, misfortunes, shared>>

HistoryNext ==
  \/ \E c \in Client :
       \/ Resume(c) \/ Converse(c) \/ Compact(c) \/ WriteHistory(c) \/ SaveFails(c)
       \/ CommitIndex(c) \/ CommitFails(c) \/ Leaves(c)
  \/ DeleteSession \/ GraceEnds \/ Evict \/ SweepOrphan

HistorySpec == HistoryInit /\ [][HistoryNext]_historyVars

-----------------------------------------------------------------------------
HistoryTypeOK ==
  /\ transcript \in Seq(1..MaxMessages) /\ indexed \in Nat \cup {NoEntry}
  /\ \A c \in Client :
       /\ client[c].at \in {"off", "open", "commit"}
       /\ client[c].memory \in Seq(1..written) /\ client[c].saved \in Nat
       /\ client[c].at = "commit" => Len(client[c].memory) # client[c].saved

(* A process that has the session for itself leaves its whole transcript on *)
(* disk (SessionStore.append:636, replace:680), whatever crash between the  *)
(* phases, failed write or commit, repaired load, compaction or eviction    *)
(* came before, unless the save in hand slipped: what is in memory was      *)
(* edited since the last save, is as long as what was saved or longer, and  *)
(* the index does not disagree with the saved count.  A rewrite heals it.  *)
WriterIsRight ==
  ~shared /\ ~removed =>
    \A c \in Client : client[c].at = "commit" => transcript = client[c].memory \/ client[c].edited
=============================================================================
