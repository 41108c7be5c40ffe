------------------------------ MODULE FileLock ------------------------------
(***************************************************************************)
(* withFileLock: an exclusive lock between processes, held by whoever      *)
(* created the file <target>.lock.  A holder touches the file from time to *)
(* time; a file that has not been touched for staleMs is presumed orphaned *)
(* and taken away by any waiter.  GraphStore assumes that its transactions *)
(* exclude each other; this is the lock they run under.                    *)
(*                                                                         *)
(* Each action is one system call.  The unit of time is a heartbeat, a     *)
(* third of staleMs.                                                       *)
(***************************************************************************)
EXTENDS Naturals

CONSTANTS
  Proc,         \* processes that call withFileLock on one target
  Nobody,       \* the token of a dead call: no living one has it
  Stalls,       \* whether a live holder may stop for longer than staleMs
  MaxCalls,     \* bound: calls of one process
  MaxCrashes    \* bound: processes that die in a call

ASSUME LockAssumption ==
  /\ Nobody \notin Proc
  /\ Stalls \in BOOLEAN
  /\ MaxCalls \in Nat /\ MaxCrashes \in Nat

StaleBeats == 3    \* staleMs in heartbeats

VARIABLES
  pc,       \* the next system call of each process
  file,     \* the lock file: who created it, has the token been written, its age
  beat,     \* the heartbeat timer of each process
  silent,   \* beats for which a process holding the lock has been silent
  calls, crashes

vars == <<pc, file, beat, silent, calls, crashes>>

NoFile == [by |-> Nobody, written |-> FALSE, age |-> 0, exists |-> FALSE]

Holding == {"write", "fn", "read", "unlink"}   \* after open(wx), before the end
Waiting == {"open", "stat", "rename", "poll"}

Init ==
  /\ pc = [p \in Proc |-> "idle"]
  /\ file = NoFile
  /\ beat = [p \in Proc |-> "off"]
  /\ silent = [p \in Proc |-> 0]
  /\ calls = [p \in Proc |-> 0] /\ crashes = 0

Go(p, from, to) == pc[p] = from /\ pc' = [pc EXCEPT ![p] = to]

-----------------------------------------------------------------------------
(* Acquiring *)

Call(p) ==
  /\ Go(p, "idle", "open")
  /\ calls[p] < MaxCalls /\ calls' = [calls EXCEPT ![p] = @ + 1]
  /\ UNCHANGED <<file, beat, silent, crashes>>

Open(p) ==
  /\ IF file.exists
     THEN Go(p, "open", "stat") /\ UNCHANGED <<file, silent>>
     ELSE /\ Go(p, "open", "write")
          /\ file' = [by |-> p, written |-> FALSE, age |-> 0, exists |-> TRUE]
          /\ silent' = [silent EXCEPT ![p] = 0]
  /\ UNCHANGED <<beat, calls, crashes>>

\* The handle is of the file that p created, wherever that file is now.
WriteToken(p) ==
  /\ Go(p, "write", "fn")
  /\ file' = IF file.by = p THEN [file EXCEPT !.written = TRUE, !.age = 0] ELSE file
  /\ silent' = [silent EXCEPT ![p] = 0]
  /\ beat' = [beat EXCEPT ![p] = IF @ = "off" THEN "on" ELSE @]
  /\ UNCHANGED <<calls, crashes>>

\* A failed write unlinks the path, and the call throws.
WriteFails(p) ==
  /\ Go(p, "write", "idle")
  /\ file' = NoFile
  /\ UNCHANGED <<beat, silent, calls, crashes>>

\* Mutant: any lock file may be taken away.
AnyAge == file.exists

IsStale == file.exists /\ file.age > StaleBeats

Stat(p) ==
  /\ Go(p, "stat", IF IsStale THEN "rename" ELSE "poll")
  /\ UNCHANGED <<file, beat, silent, calls, crashes>>

\* rename() takes whatever file is at the path by now; ENOENT is ignored.
Rename(p) ==
  /\ Go(p, "rename", "poll")
  /\ file' = NoFile
  /\ UNCHANGED <<beat, silent, calls, crashes>>

\* Past the deadline the call throws, else it sleeps and tries again.
Poll(p) ==
  /\ Go(p, "poll", "open") \/ Go(p, "poll", "idle")
  /\ UNCHANGED <<file, beat, silent, calls, crashes>>

-----------------------------------------------------------------------------
(* Holding and releasing *)

\* Mutant: the beat touches the lock whoever holds it.
FoundAny(p) == file.exists

FoundOwn(p) == file.exists /\ file.by = p /\ file.written

\* The timer stops for good when another token is read; a missing file is a
\* skipped beat.
BeatReads(p) ==
  /\ pc[p] = "fn" /\ beat[p] = "on" /\ file.exists
  /\ beat' = [beat EXCEPT ![p] = IF FoundOwn(p) THEN "touch" ELSE "lost"]
  /\ UNCHANGED <<pc, file, silent, calls, crashes>>

Touched == IF file.exists THEN [file EXCEPT !.age = 0] ELSE file

\* utimes() goes to the path.  A beat in flight outlives its timer.
BeatTouches(p) ==
  /\ beat[p] = "touch"
  /\ file' = Touched
  /\ silent' = [silent EXCEPT ![p] = 0]
  /\ beat' = [beat EXCEPT ![p] = IF pc[p] = "fn" THEN "on" ELSE "off"]
  /\ UNCHANGED <<pc, calls, crashes>>

FnEnds(p) ==
  /\ Go(p, "fn", "read")
  /\ beat' = [beat EXCEPT ![p] = IF @ = "touch" THEN @ ELSE "off"]
  /\ UNCHANGED <<file, silent, calls, crashes>>

ReleaseReads(p) ==
  /\ Go(p, "read", IF FoundOwn(p) THEN "unlink" ELSE "idle")
  /\ UNCHANGED <<file, beat, silent, calls, crashes>>

\* unlink() goes to the path.
Unlink(p) ==
  /\ Go(p, "unlink", "idle")
  /\ file' = NoFile
  /\ UNCHANGED <<beat, silent, calls, crashes>>

-----------------------------------------------------------------------------
(* Death and time *)

Crash(p) ==
  /\ pc[p] # "idle" /\ crashes < MaxCrashes
  /\ crashes' = crashes + 1
  /\ pc' = [pc EXCEPT ![p] = "idle"]
  /\ beat' = [beat EXCEPT ![p] = "off"]
  /\ file' = IF file.by = p THEN [file EXCEPT !.by = Nobody] ELSE file
  /\ UNCHANGED <<silent, calls>>

\* A holder is never silent for all of staleMs, unless it stalls.
Timely(p) == pc[p] \in Holding => silent[p] < StaleBeats

\* The file is not aged further than is needed to be stale.
Passing(n) == IF n > StaleBeats THEN n ELSE n + 1

TimePasses ==
  /\ file.exists \/ \E p \in Proc : pc[p] \in Holding
  /\ Stalls \/ \A p \in Proc : Timely(p)
  /\ file' = [file EXCEPT !.age = IF file.exists THEN Passing(@) ELSE @]
  /\ silent' = [p \in Proc |-> IF pc[p] \in Holding THEN Passing(silent[p]) ELSE 0]
  /\ UNCHANGED <<pc, beat, calls, crashes>>

-----------------------------------------------------------------------------
Acquire(p) == Open(p) \/ WriteToken(p) \/ Stat(p) \/ Rename(p) \/ Poll(p)
Release(p) == ReleaseReads(p) \/ Unlink(p)
Beat(p)    == BeatReads(p) \/ BeatTouches(p)

Next ==
  \/ \E p \in Proc :
       \/ Call(p) \/ Acquire(p) \/ WriteFails(p) \/ Beat(p)
       \/ FnEnds(p) \/ Release(p) \/ Crash(p)
  \/ TimePasses

Spec == Init /\ [][Next]_vars

\* Processes take their steps, timers fire and time passes; `fn` may run for ever.
FairSpec ==
  /\ Spec
  /\ \A p \in Proc : WF_vars(Acquire(p)) /\ WF_vars(Release(p)) /\ WF_vars(Beat(p))
  /\ WF_vars(TimePasses)

-----------------------------------------------------------------------------
(* Properties *)

TypeOK ==
  /\ pc \in [Proc -> {"idle"} \cup Waiting \cup Holding]
  /\ file \in [by: Proc \cup {Nobody}, written: BOOLEAN, age: 0..StaleBeats + 1, exists: BOOLEAN]
  /\ beat \in [Proc -> {"off", "on", "touch", "lost"}]
  /\ \A p \in Proc : beat[p] \in {"on", "lost"} => pc[p] = "fn"
  /\ silent \in [Proc -> 0..StaleBeats + 1]
  /\ calls \in [Proc -> 0..MaxCalls] /\ crashes \in 0..MaxCrashes

\* At most one process at a time is in the critical section of a path.
MutualExclusion == \A p, q \in Proc : pc[p] = "fn" /\ pc[q] = "fn" => p = q

\* A release, a failed write and a beat go to the path, not to the file that was
\* created: they hit the right one because the file at the path of a process that
\* holds the lock is its own.
HolderOwnsFile == \A p \in Proc : pc[p] \in Holding => file.exists /\ file.by = p

\* The lock of a dead process does not stay while somebody waits for it, whatever
\* a former holder that stalled and lost it still does.
DeadLockGoes ==
  \A p \in Proc : ~<>[](file.exists /\ file.by = Nobody /\ pc[p] \in Waiting)

\* The lock does what its callers need: it excludes, and they touch their own file only.
LockKept == MutualExclusion /\ HolderOwnsFile
=============================================================================
