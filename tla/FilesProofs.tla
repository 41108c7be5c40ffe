---------------------------- MODULE FilesProofs ----------------------------
(***************************************************************************)
(* What the files of MCFiles keep, for any number of processes, records,   *)
(* messages, events and faults.                                            *)
(*                                                                         *)
(* The lock excludes as long as no holder dies and none is silent for all  *)
(* of staleMs.  (With one death it does not: see the run lock_reclaim.)    *)
(* The transcript of a session is whole for a process that has the session *)
(* for itself, unless it takes what it edited for what it had saved.  The  *)
(* journal, the counter, the checkpoints and the projections of an         *)
(* instance are one log.                                                   *)
(***************************************************************************)
EXTENDS MCFiles, SequenceTheorems, WellFoundedInduction, TLAPS

-----------------------------------------------------------------------------
(* The lock *)

LockState == Holding \cup Waiting \cup {"idle"}

\* What the property leaves out: the file at the path is always of a process
\* that holds the lock, no older than that process is silent, and so nobody is
\* about to take it away.
LockInv ==
  /\ pc \in [Proc -> LockState \ {"rename"}]
  /\ silent \in [Proc -> Nat]
  /\ file \in [by: Proc \cup {Nobody}, written: BOOLEAN, age: Nat, exists: BOOLEAN]
  /\ crashes = 0
  /\ \A p \in Proc : pc[p] \in Holding =>
       /\ file.exists /\ file.by = p
       /\ pc[p] # "write" => file.written
       /\ file.age <= silent[p] /\ silent[p] <= StaleBeats
  /\ file.exists => file.by \in Proc /\ pc[file.by] \in Holding

LEMMA LockImplies ==
  ASSUME LockInv PROVE MutualExclusion /\ HolderOwnsFile
BY DEF LockInv, MutualExclusion, HolderOwnsFile, Holding

LEMMA LockStarts ==
  ASSUME Init PROVE LockInv
BY LockAssumption DEF Init, LockInv, NoFile, LockState, Holding, StaleBeats

LEMMA AcquireKeeps ==
  ASSUME LockInv, NEW p \in Proc, Call(p) \/ Acquire(p) \/ WriteFails(p)
  PROVE  LockInv'
<1>1. CASE Call(p)
  BY <1>1 DEF Call, Go, LockInv, LockState, Holding, Waiting
<1>2. CASE Open(p)
  <2>1. CASE file.exists
    BY <1>2, <2>1 DEF Open, Go, LockInv, LockState, Holding, Waiting
  <2>2. CASE ~file.exists
    <3>1. /\ pc' = [pc EXCEPT ![p] = "write"] /\ silent' = [silent EXCEPT ![p] = 0]
          /\ file' = [by |-> p, written |-> FALSE, age |-> 0, exists |-> TRUE]
          /\ crashes' = 0
      BY <1>2, <2>2 DEF Open, Go, LockInv
    <3>2. \A q \in Proc : pc[q] \notin Holding
      BY <2>2 DEF LockInv
    <3>3. file' \in [by: Proc \cup {Nobody}, written: BOOLEAN, age: Nat, exists: BOOLEAN]
      BY <3>1
    <3>4. file'.exists /\ file'.by = p /\ file'.age = 0
      BY <3>1
    <3>5. pc'[p] = "write" /\ silent'[p] = 0 /\ \A q \in Proc \ {p} : pc'[q] = pc[q]
      BY <3>1 DEF LockInv
    <3>6. pc' \in [Proc -> LockState \ {"rename"}] /\ silent' \in [Proc -> Nat]
      BY <3>1 DEF LockInv, LockState, Holding
    <3> QED BY <3>1, <3>2, <3>3, <3>4, <3>5, <3>6 DEF LockInv, Holding, StaleBeats
  <2> QED BY <2>1, <2>2
<1>3. CASE WriteToken(p)
  <2>1. pc[p] \in Holding
    BY <1>3 DEF WriteToken, Go, Holding
  <2>2. file' = [file EXCEPT !.written = TRUE, !.age = 0] /\ file.by = p /\ file.exists
    BY <1>3, <2>1 DEF WriteToken, LockInv
  <2>3. \A q \in Proc : pc[q] \in Holding => q = p
    BY <2>2 DEF LockInv
  <2>4. /\ file'.exists /\ file'.by = p /\ file'.written /\ file'.age = 0
        /\ file' \in [by: Proc \cup {Nobody}, written: BOOLEAN, age: Nat, exists: BOOLEAN]
    BY <2>2 DEF LockInv
  <2>5. /\ pc' \in [Proc -> LockState \ {"rename"}] /\ pc'[p] = "fn"
        /\ \A q \in Proc \ {p} : pc'[q] = pc[q]
    BY <1>3 DEF WriteToken, Go, LockInv, LockState, Holding
  <2>6. silent' \in [Proc -> Nat] /\ silent'[p] = 0 /\ crashes' = 0
    BY <1>3 DEF WriteToken, LockInv
  <2> QED BY <2>3, <2>4, <2>5, <2>6 DEF LockInv, Holding, StaleBeats
<1>4. CASE WriteFails(p)
  BY <1>4, LockAssumption DEF WriteFails, Go, LockInv, NoFile, LockState, Holding
<1>5. CASE Stat(p)
  <2>1. ~IsStale
    BY DEF LockInv, IsStale, StaleBeats
  <2> QED BY <1>5, <2>1 DEF Stat, Go, LockInv, LockState, Holding, Waiting
<1>6. CASE Rename(p)
  BY <1>6 DEF Rename, Go, LockInv, LockState
<1>7. CASE Poll(p)
  BY <1>7 DEF Poll, Go, LockInv, LockState, Holding, Waiting
<1> QED BY <1>1, <1>2, <1>3, <1>4, <1>5, <1>6, <1>7 DEF Acquire

LEMMA HoldKeeps ==
  ASSUME LockInv, NEW p \in Proc, Beat(p) \/ FnEnds(p) \/ Release(p)
  PROVE  LockInv'
<1>1. CASE BeatReads(p)
  BY <1>1 DEF BeatReads, LockInv
<1>2. CASE BeatTouches(p)
  <2>1. CASE file.exists
    BY <1>2, <2>1 DEF BeatTouches, Touched, LockInv, StaleBeats
  <2>2. CASE ~file.exists
    BY <1>2, <2>2 DEF BeatTouches, Touched, LockInv, StaleBeats
  <2> QED BY <2>1, <2>2
<1>3. CASE FnEnds(p)
  BY <1>3 DEF FnEnds, Go, LockInv, LockState, Holding
<1>4. CASE ReleaseReads(p)
  <2>1. FoundOwn(p)
    BY <1>4 DEF ReleaseReads, Go, FoundOwn, LockInv, Holding
  <2> QED BY <1>4, <2>1 DEF ReleaseReads, Go, LockInv, LockState, Holding
<1>5. CASE Unlink(p)
  BY <1>5, LockAssumption DEF Unlink, Go, LockInv, NoFile, LockState, Holding
<1> QED BY <1>1, <1>2, <1>3, <1>4, <1>5 DEF Beat, Release

LEMMA TimeKeeps ==
  ASSUME LockInv, ~Stalls, TimePasses
  PROVE  LockInv'
<1>1. \A n \in Nat : Passing(n) \in Nat /\ Passing(n) <= n + 1 /\ (n < StaleBeats => Passing(n) = n + 1)
  BY DEF Passing, StaleBeats
<1>2. file' = [file EXCEPT !.age = IF file.exists THEN Passing(file.age) ELSE file.age]
  BY DEF TimePasses, LockInv
<1>3. file.age \in Nat
  BY DEF LockInv
<1>4. file' \in [by: Proc \cup {Nobody}, written: BOOLEAN, age: Nat, exists: BOOLEAN]
  BY <1>1, <1>2, <1>3 DEF LockInv
<1>5. silent' \in [Proc -> Nat]
  BY <1>1 DEF TimePasses, LockInv
<1>6. ASSUME NEW p \in Proc, pc[p] \in Holding
      PROVE  file'.age <= silent'[p] /\ silent'[p] <= StaleBeats
  <2>1. silent[p] \in Nat /\ silent[p] < StaleBeats /\ file.age <= silent[p] /\ file.exists
    BY <1>6 DEF TimePasses, Timely, LockInv
  <2>2. silent'[p] = silent[p] + 1
    BY <1>1, <1>6, <2>1 DEF TimePasses
  <2>3. file'.age = Passing(file.age)
    BY <1>2, <2>1 DEF LockInv
  <2> QED BY <1>1, <1>3, <2>1, <2>2, <2>3 DEF StaleBeats
<1> QED BY <1>2, <1>4, <1>5, <1>6 DEF TimePasses, LockInv

\* Two calls of withFileLock on one target never run their `fn` together, and no
\* release, failed write or beat touches another call's lock file, if no holder
\* dies or stalls: heartbeats keep every live lock from being taken away.
THEOREM LockExcludes ==
  ASSUME MaxCrashes = 0, ~Stalls
  PROVE  Spec => []LockKept
<1>1. Init => LockInv
  BY LockStarts
<1>2. LockInv /\ [Next]_vars => LockInv'
  <2> SUFFICES ASSUME LockInv, [Next]_vars PROVE LockInv'
    OBVIOUS
  <2>1. ASSUME NEW p \in Proc PROVE ~Crash(p)
    BY DEF Crash, LockInv
  <2>2. CASE UNCHANGED vars
    BY <2>2 DEF vars, LockInv
  <2> QED BY <2>1, <2>2, AcquireKeeps, HoldKeeps, TimeKeeps DEF Next
<1>3. LockInv => LockKept
  BY LockImplies DEF LockKept
<1> QED BY <1>1, <1>2, <1>3, PTL DEF Spec

-----------------------------------------------------------------------------
(* The transcript *)

Memory == [at: {"off", "open", "commit"}, memory: Seq(1..written), saved: Nat, edited: BOOLEAN]

HistoryTypes ==
  /\ written \in 0..MaxMessages
  /\ transcript \in Seq(1..written)
  /\ indexed \in Nat \cup {NoEntry}
  /\ client \in [Client -> Memory]
  /\ shared \in BOOLEAN /\ removed \in BOOLEAN
  /\ \A c \in Client : client[c].at = "commit" => Len(client[c].memory) # client[c].saved

\* Nobody has the session open but one.
Sole == \A c, d \in Client : client[c].at # "off" /\ client[d].at # "off" => c = d

\* The transcript tr is the first n messages of m.
Begins(tr, m, n) == Len(tr) = n /\ n <= Len(m) /\ \A i \in 1..n : tr[i] = m[i]

\* What a process remembers of the transcript, as long as it has not edited it.
Remembers(m, tr) ==
  ~m.edited => /\ m.at = "open" => Begins(tr, m.memory, m.saved)
               /\ m.at = "commit" => tr = m.memory

HistoryInv ==
  /\ HistoryTypes
  /\ ~shared => Sole
  /\ ~shared /\ ~removed => \A c \in Client : Remembers(client[c], transcript)

-----------------------------------------------------------------------------
LEMMA MemoryGrows ==
  ASSUME HistoryTypes, written' \in 0..MaxMessages, written <= written'
  PROVE  /\ transcript \in Seq(1..written')
         /\ \A c \in Client : client[c] \in Memory'
<1>1. written \in Nat /\ written' \in Nat /\ 1..written \subseteq 1..written'
  BY HistoryAssumption DEF HistoryTypes
<1>2. \A s \in Seq(1..written) : s \in Seq(1..written')
  BY <1>1, SeqMonotonic
<1> QED BY <1>2 DEF HistoryTypes, Memory

\* One process changes what it remembers, and perhaps the transcript.
LEMMA OneRemembers ==
  ASSUME HistoryInv, NEW c \in Client, NEW m, m \in Memory', client' = [client EXCEPT ![c] = m],
         written' \in 0..MaxMessages, written <= written', transcript' \in Seq(1..written'),
         indexed' \in Nat \cup {NoEntry}, shared' \in BOOLEAN, shared => shared', removed' = removed,
         m.at = "commit" => Len(m.memory) # m.saved,
         transcript' = transcript \/ client[c].at # "off",
         ~shared' => m.at = "off" \/ client[c].at # "off" \/ \A d \in Client : client[d].at = "off",
         ~shared' /\ ~removed => Remembers(m, transcript')
  PROVE  HistoryInv'
<1>1. HistoryTypes
  BY DEF HistoryInv
<1>2. /\ client'[c] = m /\ client \in [Client -> Memory]
      /\ \A d \in Client \ {c} : client'[d] = client[d]
  BY <1>1 DEF HistoryTypes
<1>3. client' \in [Client -> Memory']
  BY <1>1, <1>2, MemoryGrows
<1>4. HistoryTypes'
  <2>1. ASSUME NEW d \in Client, client'[d].at = "commit" PROVE Len(client'[d].memory) # client'[d].saved
    BY <1>1, <1>2, <2>1 DEF HistoryTypes
  <2> QED BY <1>1, <1>3, <2>1 DEF HistoryTypes
<1>5. ~shared' => Sole'
  BY <1>2 DEF HistoryInv, Sole
<1>6. ASSUME ~shared', ~removed', NEW d \in Client PROVE Remembers(client'[d], transcript')
  <2>1. CASE d = c
    BY <1>2, <1>6, <2>1
  <2>2. CASE d # c
    <3>1. Remembers(client[d], transcript) /\ Sole
      BY <1>6 DEF HistoryInv
    <3>2. transcript' = transcript \/ client[d].at = "off"
      BY <2>2, <3>1 DEF Sole
    <3> QED BY <1>2, <2>2, <3>1, <3>2 DEF Remembers
  <2> QED BY <2>1, <2>2
<1> QED BY <1>4, <1>5, <1>6 DEF HistoryInv

\* What a process remembers is of its type.
LEMMA Remembered ==
  ASSUME HistoryInv, NEW c \in Client
  PROVE  /\ HistoryTypes /\ written \in Nat /\ MaxMessages \in Nat /\ client[c] \in Memory
         /\ client[c].memory \in Seq(1..written) /\ Len(client[c].memory) \in Nat
         /\ client[c].saved \in Nat /\ client[c].edited \in BOOLEAN
         /\ client[c].at \in {"off", "open", "commit"}
         /\ transcript \in Seq(1..written) /\ Len(transcript) \in Nat
         /\ Closed \in Memory
<1>1. HistoryTypes
  BY DEF HistoryInv
<1>2. written \in Nat /\ MaxMessages \in Nat /\ client[c] \in Memory /\ transcript \in Seq(1..written)
  BY <1>1, HistoryAssumption DEF HistoryTypes
<1>3. Closed \in Memory
  BY EmptySeq DEF Closed, Memory
<1> QED BY <1>1, <1>2, <1>3 DEF Memory

LEMMA ResumeStep ==
  ASSUME HistoryInv, NEW c \in Client, Resume(c)
  PROVE  HistoryInv'
<1>1. PICK loaded \in {transcript} \cup
         (IF transcript = <<>> THEN {} ELSE {Tail(transcript), Append(transcript, written + 1)}) :
       /\ written' = IF Len(loaded) > Len(transcript) THEN written + 1 ELSE written
       /\ written' <= MaxMessages
       /\ client' = [client EXCEPT ![c] = [Closed EXCEPT !.at = "open", !.memory = loaded, !.saved = Len(loaded),
                                                        !.edited = loaded # transcript]]
  BY DEF Resume
<1> DEFINE edited == loaded # transcript
           m == [Closed EXCEPT !.at = "open", !.memory = loaded, !.saved = Len(loaded), !.edited = edited]
<1>2. written' \in 0..MaxMessages /\ written <= written'
  BY <1>1, Remembered
<1>3. loaded \in Seq(1..written')
  <2>1. transcript \in Seq(1..written')
    BY <1>2, Remembered, MemoryGrows
  <2>2. CASE loaded = transcript
    BY <2>1, <2>2
  <2>3. CASE transcript # <<>> /\ loaded = Tail(transcript)
    BY <2>1, <2>3, HeadTailProperties
  <2>4. CASE transcript # <<>> /\ loaded = Append(transcript, written + 1)
    <3>1. transcript \in Seq(1..written + 1)
      BY Remembered, SeqMonotonic
    <3>2. written + 1 \in 1..written + 1
      BY Remembered
    <3>3. loaded \in Seq(1..written + 1)
      BY <2>4, <3>1, <3>2, AppendProperties
    <3>4. Len(loaded) = Len(transcript) + 1
      BY <2>4, <3>1, <3>2, AppendProperties
    <3>5. written' = written + 1
      BY <1>1, <3>4, Remembered
    <3> QED BY <3>3, <3>5
  <2> QED BY <1>1, <2>2, <2>3, <2>4
<1>4. /\ m \in Memory' /\ m.at = "open" /\ m.memory = loaded /\ m.saved = Len(loaded)
      /\ m.edited = edited
  <2>1. Len(loaded) \in Nat
    BY <1>3
  <2>2. edited \in BOOLEAN
    OBVIOUS
  <2> HIDE DEF edited
  <2> QED BY <1>3, <2>1, <2>2 DEF Memory, Closed
<1>5. ~m.edited => loaded = transcript
  BY <1>4
<1>6. client' = [client EXCEPT ![c] = m]
  BY <1>1
<1> HIDE DEF m, edited
<1>7. client[c].at = "off" /\ shared' = (shared \/ \E d \in Client : client[d].at # "off")
      /\ UNCHANGED <<transcript, indexed, dormant, removed>>
  BY DEF Resume
<1>8. Remembers(m, transcript)
  BY <1>3, <1>4, <1>5, Remembered DEF Remembers, Begins
<1>9. transcript' \in Seq(1..written')
  BY <1>2, <1>7, Remembered, MemoryGrows
<1>10. indexed' \in Nat \cup {NoEntry} /\ shared' \in BOOLEAN /\ (shared => shared')
  BY <1>7, Remembered DEF HistoryTypes
<1>11. ~shared' => \A d \in Client : client[d].at = "off"
  BY <1>7
<1> QED BY <1>2, <1>4, <1>6, <1>7, <1>8, <1>9, <1>10, <1>11, OneRemembers

LEMMA ConverseStep ==
  ASSUME HistoryInv, NEW c \in Client, Converse(c)
  PROVE  HistoryInv'
<1> DEFINE longer == Append(client[c].memory, written + 1)
           m == [client[c] EXCEPT !.memory = longer]
<1>1. /\ client[c].at = "open" /\ written' = written + 1 /\ written' \in 0..MaxMessages
      /\ client' = [client EXCEPT ![c] = m]
      /\ UNCHANGED <<transcript, indexed, shared, removed>>
  BY Remembered DEF Converse
<1>2. /\ longer \in Seq(1..written') /\ Len(longer) = Len(client[c].memory) + 1
      /\ \A i \in 1..Len(client[c].memory) : longer[i] = client[c].memory[i]
  <2>1. client[c].memory \in Seq(1..written + 1)
    BY Remembered, SeqMonotonic
  <2>2. written + 1 \in 1..written + 1
    BY Remembered
  <2> QED BY <1>1, <2>1, <2>2, AppendProperties
<1> HIDE DEF longer
<1>3. /\ m \in Memory' /\ m.at = "open" /\ m.memory = longer /\ m.saved = client[c].saved
      /\ m.edited = client[c].edited
  BY <1>1, <1>2, Remembered DEF Memory
<1> HIDE DEF m
<1>4. ASSUME ~shared, ~removed PROVE Remembers(m, transcript)
  <2>1. Remembers(client[c], transcript)
    BY <1>4 DEF HistoryInv
  <2>2. ASSUME ~m.edited PROVE Begins(transcript, m.memory, m.saved)
    <3> DEFINE k == client[c].saved
               mem == client[c].memory
    <3>1. Begins(transcript, mem, k)
      BY <1>1, <1>3, <2>1, <2>2 DEF Remembers
    <3>2. k \in Nat /\ Len(mem) \in Nat /\ k <= Len(mem) /\ Len(longer) = Len(mem) + 1
          /\ \A i \in 1..Len(mem) : longer[i] = mem[i]
      BY <1>2, <3>1, Remembered DEF Begins
    <3> HIDE DEF k, mem
    <3>3. ASSUME NEW i \in 1..k PROVE transcript[i] = longer[i]
      <4>1. i \in 1..Len(mem)
        BY <3>2
      <4> QED BY <3>1, <3>2, <4>1 DEF Begins
    <3>4. Begins(transcript, longer, k)
      BY <3>1, <3>2, <3>3 DEF Begins
    <3> QED BY <1>3, <3>4 DEF k
  <2> QED BY <1>3, <2>2 DEF Remembers
<1>5. transcript' \in Seq(1..written') /\ written <= written'
  BY <1>1, Remembered, MemoryGrows
<1>6. indexed' \in Nat \cup {NoEntry} /\ shared' \in BOOLEAN
  BY <1>1, Remembered DEF HistoryTypes
<1> QED BY <1>1, <1>3, <1>4, <1>5, <1>6, OneRemembers

LEMMA CompactStep ==
  ASSUME HistoryInv, NEW c \in Client, Compact(c)
  PROVE  HistoryInv'
<1> DEFINE summary == <<written + 1>>
           doubt == client[c].edited \/ client[c].saved > 0
           m == [client[c] EXCEPT !.memory = summary, !.edited = doubt]
<1>1. /\ client[c].at = "open" /\ written' = written + 1 /\ written' \in 0..MaxMessages
      /\ client' = [client EXCEPT ![c].memory = summary, ![c].edited = doubt]
      /\ UNCHANGED <<transcript, indexed, shared, removed>>
  BY Remembered DEF Compact
<1>2. summary \in Seq(1..written') /\ Len(summary) = 1 /\ doubt \in BOOLEAN
  BY <1>1, Remembered
<1> HIDE DEF summary
<1>3. /\ m \in Memory' /\ m.at = "open" /\ m.edited = doubt /\ m.saved = client[c].saved
      /\ m.memory = summary
  <2> HIDE DEF doubt
  <2> QED BY <1>1, <1>2, Remembered DEF Memory
<1>4. client' = [client EXCEPT ![c] = m]
  <2> HIDE DEF doubt
  <2> QED BY <1>1, Remembered DEF HistoryTypes, Memory
<1> HIDE DEF m
<1>5. ASSUME ~shared, ~removed PROVE Remembers(m, transcript)
  <2>1. Remembers(client[c], transcript)
    BY <1>5 DEF HistoryInv
  <2>2. ASSUME ~m.edited PROVE Begins(transcript, m.memory, m.saved)
    <3>1. m.saved = 0 /\ ~client[c].edited
      <4>1. ~doubt
        <5> HIDE DEF doubt
        <5> QED BY <1>3, <2>2
      <4> QED BY <1>3, <4>1, Remembered DEF doubt
    <3>2. Begins(transcript, client[c].memory, 0)
      BY <1>1, <1>3, <2>1, <3>1 DEF Remembers
    <3> QED BY <1>2, <1>3, <3>1, <3>2 DEF Begins
  <2> QED BY <1>3, <2>2 DEF Remembers
<1>6. transcript' \in Seq(1..written') /\ written <= written'
  BY <1>1, Remembered, MemoryGrows
<1>7. indexed' \in Nat \cup {NoEntry} /\ shared' \in BOOLEAN
  BY <1>1, Remembered DEF HistoryTypes
<1> QED BY <1>1, <1>3, <1>4, <1>5, <1>6, <1>7, OneRemembers

\* append: the transcript and what it lacks of memory are the memory.
LEMMA AppendsTheRest ==
  ASSUME NEW S, NEW tr \in Seq(S), NEW m \in Seq(S), NEW n \in Nat, Begins(tr, m, n)
  PROVE  tr \o SubSeq(m, n + 1, Len(m)) = m
<1> DEFINE rest == SubSeq(m, n + 1, Len(m))
<1>1. n \in 0..Len(m) /\ Len(m) \in Nat /\ Len(tr) = n
  BY DEF Begins
<1>2. \A i \in (n + 1)..Len(m) : m[i] \in S
  BY <1>1, ElementOfSeq
<1>3. n + 1 \in Int /\ Len(m) \in Int
  BY <1>1
<1>4. /\ rest \in Seq(S) /\ Len(rest) = Len(m) - n
      /\ \A i \in 1..(Len(m) - n) : rest[i] = m[n + i]
  <2>1. /\ rest \in Seq(S) /\ Len(rest) = IF n + 1 <= Len(m) THEN Len(m) - (n + 1) + 1 ELSE 0
        /\ \A i \in 1..(Len(m) - (n + 1) + 1) : rest[i] = m[n + 1 + i - 1]
    BY <1>2, <1>3, SubSeqProperties
  <2>2. Len(m) - (n + 1) + 1 = Len(m) - n
    BY <1>1
  <2>3. ASSUME NEW i \in 1..(Len(m) - n) PROVE rest[i] = m[n + i]
    <3>1. i \in 1..(Len(m) - (n + 1) + 1) /\ n + 1 + i - 1 = n + i
      BY <1>1
    <3> QED BY <2>1, <3>1
  <2>4. Len(rest) = Len(m) - n
    BY <1>1, <2>1
  <2> QED BY <2>1, <2>3, <2>4
<1> HIDE DEF rest
<1>5. /\ tr \o rest \in Seq(S) /\ Len(tr \o rest) = Len(m)
      /\ \A i \in 1..Len(m) : (tr \o rest)[i] = IF i <= n THEN tr[i] ELSE rest[i - n]
  BY <1>1, <1>4, ConcatProperties
<1>6. ASSUME NEW i \in 1..Len(m) PROVE (tr \o rest)[i] = m[i]
  <2>1. CASE i <= n
    <3>1. i \in 1..n
      BY <1>1, <2>1
    <3> QED BY <1>5, <2>1, <3>1 DEF Begins
  <2>2. CASE ~(i <= n)
    <3>1. i - n \in 1..(Len(m) - n) /\ n + (i - n) = i
      BY <1>1, <2>2
    <3> QED BY <1>4, <1>5, <2>2, <3>1
  <2> QED BY <2>1, <2>2
<1> QED BY <1>5, <1>6, SeqEqual DEF rest

LEMMA WriteHistoryStep ==
  ASSUME HistoryInv, NEW c \in Client, WriteHistory(c)
  PROVE  HistoryInv'
<1> DEFINE slips == Slips(c)
           m == [client[c] EXCEPT !.at = "commit", !.edited = slips]
<1>1. /\ client[c].at = "open" /\ Unsaved(c)
      /\ transcript' = IF Rewrites(c) THEN client[c].memory ELSE transcript \o Fresh(c)
      /\ UNCHANGED <<indexed, written, shared, removed>>
  BY DEF WriteHistory
<1>2a. slips \in BOOLEAN /\ (slips <=> client[c].edited /\ ~Rewrites(c))
  BY Remembered DEF Slips, Rewrites
<1> HIDE DEF slips
<1>2. /\ m \in Memory /\ m.at = "commit" /\ m.memory = client[c].memory /\ m.saved = client[c].saved
      /\ m.edited = slips
  BY <1>2a, Remembered DEF Memory
<1>3. client' = [client EXCEPT ![c] = m]
  <2>1. client' = [client EXCEPT ![c].at = "commit", ![c].edited = slips]
    BY DEF WriteHistory, slips
  <2> QED BY <2>1, Remembered DEF HistoryTypes, Memory
<1> HIDE DEF m
<1>4. m \in Memory'
  BY <1>1, <1>2 DEF Memory
<1>5. written' \in 0..MaxMessages /\ written <= written'
  BY <1>1, Remembered DEF HistoryTypes
<1>6. transcript' \in Seq(1..written')
  <2>1. CASE Rewrites(c)
    BY <1>1, <2>1, Remembered
  <2>2. CASE ~Rewrites(c)
    <3>1. ASSUME NEW i \in (client[c].saved + 1)..Len(client[c].memory)
          PROVE  client[c].memory[i] \in 1..written
      <4>1. i \in 1..Len(client[c].memory) /\ client[c].memory \in Seq(1..written)
        BY Remembered
      <4> QED BY <4>1, ElementOfSeq
    <3>2. client[c].saved + 1 \in Int /\ Len(client[c].memory) \in Int
      BY Remembered
    <3>3. Fresh(c) \in Seq(1..written)
      BY <3>1, <3>2, SubSeqProperties DEF Fresh
    <3> QED BY <1>1, <2>2, <3>3, Remembered, ConcatProperties
  <2> QED BY <2>1, <2>2
<1>7. ASSUME ~shared, ~removed, ~slips PROVE transcript' = client[c].memory
  <2>1. CASE Rewrites(c)
    BY <1>1, <2>1
  <2>2. CASE ~Rewrites(c)
    <3>1. ~client[c].edited /\ Remembers(client[c], transcript)
      BY <1>2a, <1>7, <2>2 DEF HistoryInv
    <3>2. Begins(transcript, client[c].memory, client[c].saved)
      BY <1>1, <3>1 DEF Remembers
    <3>3. transcript \o Fresh(c) = client[c].memory
      BY <3>2, Remembered, AppendsTheRest DEF Fresh
    <3> QED BY <1>1, <2>2, <3>3
  <2> QED BY <2>1, <2>2
<1>8. ~shared /\ ~removed => Remembers(m, transcript')
  BY <1>2, <1>7 DEF Remembers
<1>9. indexed' \in Nat \cup {NoEntry} /\ shared' \in BOOLEAN
  BY <1>1, Remembered DEF HistoryTypes
<1>10. Len(m.memory) # m.saved
  BY <1>1, <1>2 DEF Unsaved
<1> QED BY <1>1, <1>2, <1>3, <1>4, <1>5, <1>6, <1>8, <1>9, <1>10, OneRemembers

LEMMA CommitIndexStep ==
  ASSUME HistoryInv, NEW c \in Client, CommitIndex(c)
  PROVE  HistoryInv'
<1> DEFINE saved == Len(client[c].memory)
           m == [client[c] EXCEPT !.at = "open", !.saved = saved]
<1>1. /\ client[c].at = "commit" /\ indexed' = saved
      /\ UNCHANGED <<transcript, written, shared, removed>>
      /\ client' = [client EXCEPT ![c].at = "open", ![c].saved = saved]
  BY DEF CommitIndex
<1>2. saved \in Nat
  BY Remembered
<1> HIDE DEF saved
<1>3. /\ m \in Memory /\ m.at = "open" /\ m.memory = client[c].memory /\ m.saved = saved
      /\ m.edited = client[c].edited
  BY <1>2, Remembered DEF Memory
<1>4. client' = [client EXCEPT ![c] = m]
  BY <1>1, Remembered DEF HistoryTypes, Memory
<1> HIDE DEF m
<1>5. m \in Memory'
  BY <1>1, <1>3 DEF Memory
<1>6. ASSUME ~shared, ~removed PROVE Remembers(m, transcript)
  <2>1. Remembers(client[c], transcript)
    BY <1>6 DEF HistoryInv
  <2>2. ASSUME ~m.edited PROVE Begins(transcript, m.memory, m.saved)
    <3>1. transcript = client[c].memory
      BY <1>1, <1>3, <2>1, <2>2 DEF Remembers
    <3> QED BY <1>2, <1>3, <3>1 DEF Begins, saved
  <2> QED BY <1>3, <2>2 DEF Remembers
<1>7. /\ written' \in 0..MaxMessages /\ written <= written' /\ transcript' \in Seq(1..written')
      /\ indexed' \in Nat \cup {NoEntry} /\ shared' \in BOOLEAN
  BY <1>1, <1>2, Remembered DEF HistoryTypes
<1> QED BY <1>1, <1>3, <1>4, <1>5, <1>6, <1>7, OneRemembers

LEMMA CommitFailsStep ==
  ASSUME HistoryInv, NEW c \in Client, CommitFails(c)
  PROVE  HistoryInv'
<1> DEFINE m == [client[c] EXCEPT !.at = "open", !.edited = TRUE]
<1>1. /\ client[c].at = "commit"
      /\ UNCHANGED <<transcript, indexed, written, shared, removed>>
      /\ client' = [client EXCEPT ![c].at = "open", ![c].edited = TRUE]
  BY DEF CommitFails
<1>2. m \in Memory' /\ m.at = "open" /\ m.edited
  BY <1>1, Remembered DEF Memory
<1>2a. client' = [client EXCEPT ![c] = m]
  BY <1>1, Remembered DEF HistoryTypes, Memory
<1> HIDE DEF m
<1>2b. Remembers(m, transcript)
  BY <1>2 DEF Remembers
<1>3. /\ written' \in 0..MaxMessages /\ written <= written' /\ transcript' \in Seq(1..written')
      /\ indexed' \in Nat \cup {NoEntry} /\ shared' \in BOOLEAN
  BY <1>1, Remembered DEF HistoryTypes
<1> QED BY <1>1, <1>2, <1>2a, <1>2b, <1>3, OneRemembers

LEMMA LeavesStep ==
  ASSUME HistoryInv, NEW c \in Client, Leaves(c)
  PROVE  HistoryInv'
<1>1. client' = [client EXCEPT ![c] = Closed] /\ UNCHANGED <<transcript, indexed, written, shared, removed>>
  BY DEF Leaves
<1>2. Closed \in Memory' /\ Closed.at = "off"
  BY <1>1, Remembered DEF Memory, Closed
<1>3. Remembers(Closed, transcript)
  BY <1>2 DEF Remembers
<1>4. /\ written' \in 0..MaxMessages /\ written <= written' /\ transcript' \in Seq(1..written')
      /\ indexed' \in Nat \cup {NoEntry} /\ shared' \in BOOLEAN
  BY <1>1, Remembered DEF HistoryTypes
<1> QED BY <1>1, <1>2, <1>3, <1>4, OneRemembers

\* Deletions, evictions and sweeps remove the directory, or leave it.
LEMMA OthersStep ==
  ASSUME HistoryInv, UNCHANGED <<client, written, shared>>, indexed' \in Nat \cup {NoEntry},
         \/ transcript' = transcript /\ (removed' = removed \/ removed' = TRUE)
         \/ transcript' = <<>> /\ removed' = TRUE
  PROVE  HistoryInv'
<1>1. <<>> \in Seq(1..written)
  BY EmptySeq
<1>2. HistoryTypes'
  BY <1>1 DEF HistoryInv, HistoryTypes, Memory
<1>3. ~shared' => Sole'
  BY DEF HistoryInv, Sole
<1>4. ~shared' /\ ~removed' => \A c \in Client : Remembers(client'[c], transcript')
  BY DEF HistoryInv
<1> QED BY <1>2, <1>3, <1>4 DEF HistoryInv

LEMMA HistoryStart == HistoryInit => HistoryInv
<1> SUFFICES ASSUME HistoryInit PROVE HistoryInv
  OBVIOUS
<1>1. <<>> \in Seq(1..written) /\ Closed \in Memory /\ written \in 0..MaxMessages
  BY EmptySeq, HistoryAssumption DEF HistoryInit, Closed, Memory
<1> QED BY <1>1 DEF HistoryInit, HistoryInv, HistoryTypes, Sole, Remembers, Closed

LEMMA HistoryStep == HistoryInv /\ [HistoryNext]_historyVars => HistoryInv'
<1> SUFFICES ASSUME HistoryInv, [HistoryNext]_historyVars PROVE HistoryInv'
  OBVIOUS
<1>1. indexed \in Nat \cup {NoEntry} /\ removed \in BOOLEAN
  BY DEF HistoryInv, HistoryTypes
<1>2. CASE UNCHANGED historyVars \/ GraceEnds \/ \E c \in Client : SaveFails(c)
  BY <1>1, <1>2, OthersStep DEF historyVars, GraceEnds, SaveFails
<1>3. CASE DeleteSession \/ SweepOrphan
  BY <1>1, <1>3, OthersStep DEF DeleteSession, SweepOrphan
<1>4. CASE Evict
  BY <1>1, <1>4, OthersStep DEF Evict, Spared
<1>5. ASSUME NEW c \in Client, \/ Resume(c) \/ Converse(c) \/ Compact(c) \/ WriteHistory(c)
                               \/ CommitIndex(c) \/ CommitFails(c) \/ Leaves(c)
      PROVE  HistoryInv'
  BY <1>5, ResumeStep, ConverseStep, CompactStep, WriteHistoryStep, CommitIndexStep, CommitFailsStep, LeavesStep
<1> QED BY <1>2, <1>3, <1>4, <1>5 DEF HistoryNext

\* A process that has the session for itself leaves its whole transcript on disk,
\* whatever crash between the phases, failed write or commit, repaired load, compaction
\* or eviction came before, unless the save in hand took edited messages for the ones it
\* had saved (Slips); what one such save spoils, the next rewrite heals
\* (SessionStore.append, replace; sessionFlow's snapshots).
THEOREM TranscriptIsWhole == HistorySpec => []WriterIsRight
<1>1. HistoryInv => WriterIsRight
  BY DEF HistoryInv, WriterIsRight, Remembers
<1> QED BY <1>1, HistoryStart, HistoryStep, PTL DEF HistorySpec

\* Messages on disk and in memory are messages that were written.
THEOREM HistoryTyped == HistorySpec => []HistoryTypeOK
<1>1. HistoryInv => HistoryTypeOK
  <2> SUFFICES ASSUME HistoryInv PROVE HistoryTypeOK
    OBVIOUS
  <2>1. transcript \in Seq(1..MaxMessages)
    BY HistoryAssumption, SeqMonotonic DEF HistoryInv, HistoryTypes
  <2>2. \A c \in Client : client[c] \in Memory
    BY DEF HistoryInv, HistoryTypes
  <2> QED BY <2>1, <2>2 DEF HistoryInv, HistoryTypes, HistoryTypeOK, Memory
<1> QED BY <1>1, HistoryStart, HistoryStep, PTL DEF HistorySpec

-----------------------------------------------------------------------------
(* The journal *)

USE JournalAssumption

Count == 0..MaxEvents
Record == [seq: Count, claim: BOOLEAN, beats: 0..MaxBeats]
Generation == [last: {Missing} \cup 1..MaxEvents, view: Snapshot, pruned: Count]
Memo == [repaired: Count, pruned: {Missing} \cup Count]
Phase == {"idle", "repair", "header", "prune", "checkpoint", "done", "body", "count", "project"}
Transaction == [by: Process \cup {NoProcess}, pc: Phase, view: Snapshot, last: Count, base: Count,
                at: Count, left: SUBSET RecordId, fixed: BOOLEAN, batch: Nat]
Event == Kinds \cup {NoEvent, Creation}

JournalTypes ==
  /\ journal \in [Sequences -> Event]
  /\ counter \in {Missing} \cup 1..MaxEvents
  /\ checkpoint \in Generation /\ prev \in Generation
  /\ proj \in Snapshot
  /\ memo \in [Process -> Memo]
  /\ tx \in Transaction
  /\ tx.pc = "idle" <=> tx.by = NoProcess
  /\ torn \subseteq RecordId /\ cut \in BOOLEAN

\* Replaying the journal over generation c gives the log of n events whose records are
\* from the events f.
Correct(c, n, f) ==
  /\ c.last \in 0..n
  /\ \A seq \in (c.last + 1)..n : Exists(seq)
  /\ \A k \in RecordId :
       /\ \A seq \in (c.last + 1)..n : k \in journal[seq].keys => seq <= f[k]
       /\ f[k] > c.last => k \in journal[f[k]].keys
       /\ f[k] <= c.last => c.view[k].seq = f[k]

\* The generation that recovery falls back on when the checkpoint is lost.
Older == IF prev # NoCheckpoint THEN prev ELSE [NoCheckpoint EXCEPT !.last = 0]

Numbered(n) ==
  /\ Exists(n) /\ \A seq \in Sequences : Exists(seq) => seq <= n
  /\ counter # Missing => counter <= n /\ \A seq \in (counter + 1)..n : Exists(seq)
  /\ \A q \in Process : memo[q].repaired <= n

Generations(n, f) ==
  /\ checkpoint # NoCheckpoint => checkpoint.last \in 1..n /\ Correct(checkpoint, n, f)
  /\ prev # NoCheckpoint => prev.last \in 1..n
  /\ cut => checkpoint # NoCheckpoint
  /\ ~cut \/ tx.pc = "checkpoint" => Correct(Older, n, f)

Reconciling == {"repair", "header", "prune", "checkpoint", "done"}

\* What the transaction knows of the log.
Knows(n, f) ==
  /\ tx.pc \in Reconciling => tx.last = n /\ counter = n
  /\ tx.pc \in Reconciling \cup {"body"} => \A k \in RecordId : tx.view[k].seq = f[k]
  /\ tx.pc \in {"repair", "header"} =>
       tx.base = IF checkpoint # NoCheckpoint THEN checkpoint.last ELSE Older.last
  /\ tx.pc = "repair" => tx.at \in (tx.base + 1)..n /\ tx.left \subseteq journal[tx.at].keys
  /\ tx.pc = "prune" => (checkpoint # NoCheckpoint => checkpoint.last < n)
  /\ tx.pc = "checkpoint" => memo[tx.by].pruned # Missing
  /\ tx.pc \in {"count", "project"} =>
       /\ tx.at = n
       /\ \A k \in RecordId : IF k \in tx.left THEN f[k] = n ELSE tx.view[k].seq = f[k]

\* Nobody has reconciled since event n.
Unseen(n) ==
  /\ \A q \in Process : memo[q].repaired < n
  /\ checkpoint # NoCheckpoint => checkpoint.last < n
  /\ prev # NoCheckpoint => prev.last < n

\* The projections are those of the log, but for what is about to be written.
Projected(n, f) ==
  /\ tx.pc \in {"count", "project"} => Unseen(n)
  /\ \A k \in RecordId \ torn :
       \/ proj[k].seq = f[k]
       \/ tx.pc = "idle" /\ f[k] = n /\ Unseen(n)
       \/ tx.pc = "repair" /\ (k \in tx.left \/ \E seq \in (tx.at + 1)..n : k \in journal[seq].keys)
       \/ tx.pc \in {"count", "project"} /\ k \in tx.left

Sound(n, f) ==
  /\ JournalTypes /\ n \in Sequences /\ f \in [RecordId -> 0..n]
  /\ Numbered(n) /\ Generations(n, f) /\ Knows(n, f) /\ Projected(n, f)

JournalInv == ~LossDuringPrune /\ \E n \in Nat : \E f \in [RecordId -> 0..n] : Sound(n, f)

-----------------------------------------------------------------------------
(* What the files say when they are sound *)

LEMMA LargestIs ==
  ASSUME NEW S \in SUBSET Int, NEW n \in S, \A x \in S : x <= n
  PROVE  Largest(S) = n
<1>1. \E x \in S : \A y \in S : y <= x
  OBVIOUS
<1>2. Largest(S) \in S
  BY <1>1 DEF Largest
<1>3. \A y \in S : y <= Largest(S)
  BY <1>1 DEF Largest
<1>4. Largest(S) \in Int /\ n \in Int /\ n <= Largest(S) /\ Largest(S) <= n
  BY <1>2, <1>3
<1> QED BY <1>4

LEMMA SmallestIs ==
  ASSUME NEW S \in SUBSET Nat, S # {}
  PROVE  Smallest(S) \in S
<1>1. PICK n \in S : \A m \in S : ~(<<m, n>> \in OpToRel(<, Nat))
  BY NatLessThanWellFounded, WFMin
<1>2. \A m \in S : n \in Nat /\ m \in Nat /\ ~(m < n)
  BY <1>1 DEF OpToRel
<1>3. \E x \in S : \A y \in S : x <= y
  <2>1. \A m \in S : n <= m
    BY <1>2
  <2> QED BY <2>1
<1> QED BY <1>3 DEF Smallest

\* What is there to read of a generation, a record, an event.
LEMMA JournalFacts ==
  ASSUME NEW n, NEW f, Sound(n, f)
  PROVE  /\ n \in Nat /\ n >= 1 /\ n <= MaxEvents /\ MaxEvents \in Nat
         /\ JournalTypes /\ Numbered(n) /\ Generations(n, f) /\ Knows(n, f) /\ Projected(n, f)
         /\ f \in [RecordId -> 0..n]
         /\ \A seq \in Sequences : Exists(seq) <=> journal[seq] # NoEvent
         /\ Missing \notin Nat
BY DEF Sound, Sequences, Exists, Missing

LEMMA LastIs ==
  ASSUME NEW n, NEW f, Sound(n, f)
  PROVE  LastSequence = n
<1>1. n \in Nat /\ n \in Sequences /\ n <= MaxEvents /\ Numbered(n) /\ JournalTypes /\ Generations(n, f)
  BY JournalFacts DEF Sound
<1>2. CASE counter # Missing
  <2> DEFINE S == {seq \in counter..MaxEvents : \A s \in (counter + 1)..seq : Exists(s)}
  <2>1. counter \in Nat /\ counter <= n /\ \A seq \in (counter + 1)..n : Exists(seq)
    BY <1>1, <1>2 DEF JournalTypes, Numbered
  <2>2. n \in S
    BY <1>1, <2>1
  <2>3. S \in SUBSET Int
    OBVIOUS
  <2>4. ASSUME NEW x \in S PROVE x <= n
    <3>1. x \in counter..MaxEvents /\ \A s \in (counter + 1)..x : Exists(s)
      OBVIOUS
    <3>2. CASE x = counter
      BY <2>1, <3>2
    <3>3. CASE x # counter
      <4>1. x \in (counter + 1)..x /\ x \in Sequences
        BY <2>1, <3>1, <3>3 DEF Sequences
      <4> QED BY <1>1, <3>1, <4>1 DEF Numbered
    <3> QED BY <3>2, <3>3
  <2> HIDE DEF S
  <2>5. Largest(S) = n
    BY <2>2, <2>3, <2>4, LargestIs
  <2> QED BY <1>2, <2>5 DEF LastSequence, S
<1>3. CASE counter = Missing
  <2> DEFINE newest == IF checkpoint # NoCheckpoint THEN checkpoint ELSE prev
             S == Files \cup {0} \cup ({newest.last} \ {Missing})
  <2>1. newest.last \in {Missing} \cup 1..n
    BY <1>1 DEF JournalTypes, Generation, Generations, NoCheckpoint
  <2>2. n \in Files /\ Files \subseteq 1..n
    BY <1>1 DEF Files, Numbered, Sequences
  <2> HIDE DEF newest
  <2>3. n \in S
    BY <2>2
  <2>4. ASSUME NEW x \in S PROVE x \in Int /\ x <= n
    <3>1. CASE x \in Files
      BY <1>1, <2>2, <3>1
    <3>2. CASE x = 0
      BY <1>1, <3>2
    <3>3. CASE x \in {newest.last} \ {Missing}
      <4>1. x \in 1..n
        BY <2>1, <3>3
      <4> QED BY <1>1, <4>1
    <3> QED BY <3>1, <3>2, <3>3
  <2>5. S \in SUBSET Int
    BY <2>4
  <2> HIDE DEF S
  <2>6. Largest(S) = n
    BY <2>3, <2>4, <2>5, LargestIs
  <2> QED BY <1>3, <2>6 DEF LastSequence, S, newest
<1> QED BY <1>2, <1>3

\* The base of the replay is the checkpoint, or the generation before, or nothing.
LEMMA BaseIs ==
  ASSUME NEW n, NEW f, Sound(n, f)
  PROVE  /\ Base = IF checkpoint # NoCheckpoint THEN checkpoint ELSE Older
         /\ Correct(Base, n, f)
<1>1. /\ checkpoint # NoCheckpoint => checkpoint.last <= LastSequence
      /\ prev # NoCheckpoint => prev.last <= LastSequence
  BY LastIs, JournalFacts DEF Generations
<1>2. Base = IF checkpoint # NoCheckpoint THEN checkpoint ELSE Older
  BY <1>1 DEF Base, Older
<1>3. Correct(Base, n, f)
  BY <1>2, JournalFacts DEF Generations
<1> QED BY <1>2, <1>3

LEMMA ReplayIs ==
  ASSUME NEW n, NEW f, Sound(n, f)
  PROVE  LatestOf(Replayed) = f /\ LatestOf(Recovered) = f /\ Readable
<1>1. LastSequence = n /\ Correct(Base, n, f) /\ n \in Nat /\ n >= 1 /\ f \in [RecordId -> 0..n]
  BY LastIs, BaseIs, JournalFacts
<1>2. Base.last \in 0..n /\ AfterBase = (Base.last + 1)..n
  BY <1>1 DEF Correct, AfterBase
<1>3. Readable
  BY <1>1, <1>2 DEF Readable, Correct
<1>4. ASSUME NEW k \in RecordId PROVE Replayed[k].seq = f[k]
  <2> DEFINE writes == {seq \in AfterBase : k \in journal[seq].keys}
  <2>1. Replayed[k] = IF writes = {} THEN Base.view[k] ELSE Written(Largest(writes), journal[Largest(writes)])
    BY DEF Replayed
  <2>2. f[k] \in 0..n
    BY <1>1
  <2>3. CASE writes = {}
    <3>1. ~(f[k] > Base.last)
      BY <1>1, <1>2, <2>2, <2>3 DEF Correct
    <3> QED BY <1>1, <1>2, <2>1, <2>2, <2>3, <3>1 DEF Correct
  <2>4. CASE writes # {}
    <3>1. \A seq \in writes : seq <= f[k]
      BY <1>1, <1>2 DEF Correct
    <3>2. f[k] > Base.last
      BY <1>2, <2>2, <2>4, <3>1
    <3>3. f[k] \in writes
      BY <1>1, <1>2, <2>2, <3>2 DEF Correct
    <3>4. writes \in SUBSET Int
      BY <1>2
    <3> HIDE DEF writes
    <3>5. Largest(writes) = f[k]
      BY <3>1, <3>3, <3>4, LargestIs
    <3> QED BY <2>1, <2>4, <3>5 DEF Written
  <2> QED BY <2>3, <2>4
<1>5. LatestOf(Replayed) = f
  BY <1>1, <1>4 DEF LatestOf
<1>6. ASSUME NEW k \in RecordId PROVE Recovered[k].seq = f[k]
  BY <1>4 DEF Recovered
<1>7. LatestOf(Recovered) = f
  BY <1>1, <1>6 DEF LatestOf
<1> QED BY <1>3, <1>5, <1>7

-----------------------------------------------------------------------------
(* What the steps preserve *)

\* Types of what is copied from one file to another.
LEMMA RecordFacts ==
  ASSUME JournalTypes
  PROVE  /\ \A seq \in Sequences : journal[seq].keys \subseteq RecordId /\ journal[seq].claim \in BOOLEAN
         /\ \A seq \in Count : \A s \in Sequences : Written(seq, journal[s]) \in Record
         /\ \A k \in RecordId : proj[k] \in Record /\ tx.view[k] \in Record
         /\ \A k \in RecordId : checkpoint.view[k] \in Record /\ prev.view[k] \in Record
         /\ NoCheckpoint.view \in Snapshot /\ Idle \in Transaction /\ NoMemo \in Memo
<1>1. ASSUME NEW event \in Event PROVE event.keys \subseteq RecordId /\ event.claim \in BOOLEAN
  <2>1. CASE event \in Kinds
    BY <2>1
  <2>2. CASE event = NoEvent
    BY <2>2 DEF NoEvent
  <2>3. CASE event = Creation
    BY <2>3 DEF Creation
  <2> QED BY <2>1, <2>2, <2>3 DEF Event
<1>2. /\ \A seq \in Sequences : journal[seq] \in Event
      /\ \A seq \in Sequences : journal[seq].keys \subseteq RecordId /\ journal[seq].claim \in BOOLEAN
  BY <1>1 DEF JournalTypes
<1>3. 0 \in Count /\ 0 \in 0..MaxBeats
  BY DEF Count
<1>4. \A seq \in Count : \A s \in Sequences : Written(seq, journal[s]) \in Record
  BY <1>2, <1>3 DEF Written, Record
<1>5. Snapshot = [RecordId -> Record]
  BY DEF Snapshot, Record, Count
<1>6. /\ \A k \in RecordId : proj[k] \in Record /\ tx.view[k] \in Record
      /\ \A k \in RecordId : checkpoint.view[k] \in Record /\ prev.view[k] \in Record
  BY <1>5 DEF JournalTypes, Transaction, Generation
<1>7. Written(0, NoEvent) \in Record
  BY <1>3 DEF Written, NoEvent, Record
<1>8. NoCheckpoint.view \in Snapshot
  BY <1>5, <1>7 DEF NoCheckpoint
<1>9. Idle \in Transaction /\ NoMemo \in Memo
  BY <1>3, <1>8 DEF Idle, Transaction, Phase, NoMemo, Memo
<1> QED BY <1>2, <1>4, <1>6, <1>8, <1>9

\* The numbering and the generations are not touched by a step that writes neither journal
\* nor checkpoint.
LEMMA FilesStill ==
  ASSUME NEW n, NEW f, Sound(n, f), UNCHANGED <<journal, checkpoint, prev, cut>>,
         counter' \in {counter, n, Missing},
         \A q \in Process : memo'[q].repaired <= n,
         tx'.pc = "checkpoint" => tx.pc = "checkpoint"
  PROVE  Numbered(n)' /\ Generations(n, f)'
<1>1. n \in Nat /\ Numbered(n) /\ Generations(n, f)
  BY JournalFacts
<1>2. \A seq : Exists(seq)' <=> Exists(seq)
  BY DEF Exists
<1>3. Numbered(n)'
  BY <1>1, <1>2 DEF Numbered
<1>4. Generations(n, f)'
  BY <1>1, <1>2 DEF Generations, Correct, Older
<1> QED BY <1>3, <1>4

LEMMA AfterHeaderIs ==
  ASSUME NEW t \in Transaction, NEW u, u = AfterHeader(t)
  PROVE  /\ u \in Transaction
         /\ u.by = t.by /\ u.view = t.view /\ u.last = t.last /\ u.base = t.base
         /\ u.pc \in {"prune", "done"}
         /\ u.pc = "prune" => t.base = 0 \/ t.last - t.base >= Interval
<1>1. CASE t.base = 0 \/ t.last - t.base >= Interval
  <2>1. u = [t EXCEPT !.pc = "prune", !.left = {}]
    BY <1>1 DEF AfterHeader
  <2> QED BY <1>1, <2>1 DEF Transaction, Phase
<1>2. CASE ~(t.base = 0 \/ t.last - t.base >= Interval)
  <2>1. u = [t EXCEPT !.pc = "done", !.left = {}]
    BY <1>2 DEF AfterHeader
  <2> QED BY <2>1 DEF Transaction, Phase
<1> QED BY <1>1, <1>2

LEMMA NextRepairIs ==
  ASSUME JournalTypes, NEW t \in Transaction, t.pc = "repair", t.at <= t.last, NEW u, u = NextRepair(t)
  PROVE  /\ u \in Transaction
         /\ u.by = t.by /\ u.view = t.view /\ u.last = t.last /\ u.base = t.base
         /\ u.pc = "prune" => t.base = 0 \/ t.last - t.base >= Interval
         /\ IF t.at = t.last
            THEN u.pc \in {"header", "prune", "done"}
            ELSE u.pc = "repair" /\ u.at = t.at + 1 /\ u.left = journal[t.at + 1].keys
<1>1. CASE t.at = t.last
  <2> DEFINE v == [t EXCEPT !.left = {}]
  <2>1. /\ v \in Transaction /\ v.fixed = t.fixed
        /\ v.by = t.by /\ v.view = t.view /\ v.last = t.last /\ v.base = t.base
    BY DEF Transaction
  <2>2. u = AfterRepair(v)
    BY <1>1 DEF NextRepair
  <2> HIDE DEF v
  <2>3. CASE v.fixed
    <3>1. u = [v EXCEPT !.pc = "header", !.left = Header]
      BY <2>2, <2>3 DEF AfterRepair
    <3> QED BY <1>1, <2>1, <3>1 DEF Transaction, Phase
  <2>4. CASE ~v.fixed
    <3>1. u = AfterHeader(v)
      BY <2>2, <2>4 DEF AfterRepair
    <3> QED BY <1>1, <2>1, <3>1, AfterHeaderIs
  <2> QED BY <2>3, <2>4
<1>2. CASE t.at # t.last
  <2>1. t.at \in Nat /\ t.last \in Nat /\ t.last <= MaxEvents /\ MaxEvents \in Nat
    BY DEF Transaction, Count
  <2>2. t.at + 1 \in Sequences /\ t.at + 1 \in Count
    BY <1>2, <2>1 DEF Sequences, Count
  <2>3. journal[t.at + 1].keys \subseteq RecordId
    BY <2>2, RecordFacts
  <2> DEFINE at == t.at + 1
             left == journal[t.at + 1].keys
  <2>4. u = [t EXCEPT !.at = at, !.left = left, !.fixed = TRUE]
    BY <1>2 DEF NextRepair
  <2> QED BY <1>2, <2>2, <2>3, <2>4 DEF Transaction
<1> QED BY <1>1, <1>2

LEMMA RecoveredIs ==
  ASSUME NEW n, NEW f, Sound(n, f)
  PROVE  Recovered \in Snapshot
<1>1. LastSequence = n /\ Correct(Base, n, f) /\ n \in Nat /\ n <= MaxEvents /\ MaxEvents \in Nat /\ JournalTypes
  BY LastIs, BaseIs, JournalFacts
<1>2. Base.last \in 0..n /\ AfterBase = (Base.last + 1)..n
  BY <1>1 DEF Correct, AfterBase
<1>3. NoCheckpoint.view = [NoCheckpoint EXCEPT !.last = 0].view
  BY DEF NoCheckpoint
<1>4. ASSUME NEW k \in RecordId PROVE Base.view[k] \in Record
  <2>1. NoCheckpoint.view[k] \in Record
    BY RecordFacts, <1>1 DEF Snapshot, Record, Count
  <2>2. checkpoint.view[k] \in Record /\ prev.view[k] \in Record
    BY RecordFacts, <1>1
  <2> QED BY <1>3, <2>1, <2>2, BaseIs DEF Older
<1>5. ASSUME NEW k \in RecordId PROVE Recovered[k] \in Record
  <2> DEFINE writes == {seq \in AfterBase : k \in journal[seq].keys}
  <2>1. Replayed[k] = IF writes = {} THEN Base.view[k] ELSE Written(Largest(writes), journal[Largest(writes)])
    BY DEF Replayed
  <2>2. CASE writes = {}
    BY <1>4, <2>1, <2>2, RecordFacts, <1>1 DEF Recovered
  <2>3. CASE writes # {}
    <3>1. f[k] \in writes /\ writes \in SUBSET Int /\ \A seq \in writes : seq <= f[k]
      <4>1. writes \in SUBSET Int
        BY <1>2
      <4>2. \A seq \in writes : seq <= f[k]
        BY <1>1, <1>2 DEF Correct
      <4>3. f[k] \in 0..n /\ f[k] > Base.last
        BY <1>2, <2>3, <4>2, JournalFacts
      <4>4. f[k] \in writes
        BY <1>1, <1>2, <4>3 DEF Correct
      <4> QED BY <4>1, <4>2, <4>4
    <3>2. f[k] \in Sequences /\ f[k] \in Count
      BY <1>1, <1>2, <3>1 DEF Sequences, Count
    <3> HIDE DEF writes
    <3>3. Largest(writes) = f[k]
      BY <3>1, LargestIs
    <3>4. Written(f[k], journal[f[k]]) \in Record
      BY <3>2, <1>1, RecordFacts
    <3> QED BY <2>1, <2>3, <3>3, <3>4, RecordFacts, <1>1 DEF Recovered
  <2> QED BY <2>2, <2>3
<1> QED BY <1>5 DEF Recovered, Snapshot, Record, Count

LEMMA BeginKeeps ==
  ASSUME NEW n, NEW f, Sound(n, f), NEW p \in Process, BeginTransaction(p)
  PROVE  Sound(n, f)'
<1> DEFINE t == [Idle EXCEPT !.by = p, !.pc = "repair", !.view = Recovered,
                             !.last = LastSequence, !.base = Base.last, !.at = RepairFrom(p)]
<1>1. /\ n \in Nat /\ n >= 1 /\ n <= MaxEvents /\ MaxEvents \in Nat /\ n \in Sequences
      /\ JournalTypes /\ Numbered(n) /\ Generations(n, f) /\ Knows(n, f) /\ Projected(n, f)
      /\ f \in [RecordId -> 0..n]
  BY JournalFacts DEF Sound
<1>2. /\ LastSequence = n /\ Correct(Base, n, f)
      /\ Base = IF checkpoint # NoCheckpoint THEN checkpoint ELSE Older
      /\ \A k \in RecordId : Recovered[k].seq = f[k]
      /\ Recovered \in Snapshot /\ Readable
  <2>1. LatestOf(Recovered) = f /\ Readable
    BY ReplayIs
  <2> QED BY <2>1, LastIs, BaseIs, RecoveredIs DEF LatestOf
<1>3. Base.last \in 0..n
  BY <1>2 DEF Correct
<1>4. memo[p].repaired \in 0..n
  BY <1>1 DEF Numbered, JournalTypes, Memo, Count
<1>5. /\ RepairFrom(p) \in Base.last..n
      /\ RepairFrom(p) \in {memo[p].repaired, Base.last}
  BY <1>1, <1>2, <1>3, <1>4 DEF RepairFrom
<1>6. /\ t \in Transaction
      /\ t.by = p /\ t.pc = "repair" /\ t.view = Recovered /\ t.last = n /\ t.base = Base.last
      /\ t.at = RepairFrom(p) /\ t.at <= t.last
  <2>1. Idle \in Transaction
    BY <1>1, RecordFacts
  <2>2. n \in Count /\ Base.last \in Count /\ RepairFrom(p) \in Count
    BY <1>1, <1>3, <1>5 DEF Count
  <2> DEFINE at == RepairFrom(p)
             base == Base.last
             view == Recovered
             last == LastSequence
  <2>3. last = n /\ last \in Count /\ base \in Count /\ at \in Count /\ view \in Snapshot
    BY <1>2, <2>2
  <2>4. at <= n
    BY <1>3, <1>5, <1>1
  <2>5. t = [Idle EXCEPT !.by = p, !.pc = "repair", !.view = view, !.last = last, !.base = base, !.at = at]
    OBVIOUS
  <2> HIDE DEF at, base, view, last, t
  <2>6. /\ t \in Transaction
        /\ t.by = p /\ t.pc = "repair" /\ t.view = view /\ t.last = last /\ t.base = base /\ t.at = at
    BY <2>1, <2>3, <2>5 DEF Transaction, Phase
  <2> QED BY <2>3, <2>4, <2>6 DEF at, base, view, last
<1>7. tx.pc = "idle" /\ tx' = NextRepair(t) /\ counter' = n
      /\ UNCHANGED <<journal, checkpoint, prev, proj, memo, read, cut, torn>>
  BY <1>2 DEF BeginTransaction, Idle
<1> HIDE DEF t
<1>8. /\ tx' \in Transaction
      /\ tx'.by = p /\ tx'.view = Recovered /\ tx'.last = n /\ tx'.base = Base.last
      /\ tx'.pc = "prune" => Base.last = 0 \/ n - Base.last >= Interval
      /\ IF t.at = t.last
         THEN tx'.pc \in {"header", "prune", "done"}
         ELSE tx'.pc = "repair" /\ tx'.at = t.at + 1 /\ tx'.left = journal[t.at + 1].keys
  BY <1>1, <1>6, <1>7, NextRepairIs
<1>9. Numbered(n)' /\ Generations(n, f)'
  <2>1. \A q \in Process : memo'[q].repaired <= n
    BY <1>1, <1>7 DEF Numbered
  <2>2. tx'.pc = "checkpoint" => tx.pc = "checkpoint"
    BY <1>8
  <2> QED BY <1>7, <2>1, <2>2, FilesStill
<1>10. JournalTypes'
  <2>1. tx'.pc # "idle" /\ tx'.by # NoProcess
    BY <1>8
  <2> QED BY <1>1, <1>7, <1>8, <2>1 DEF JournalTypes
<1>11. Knows(n, f)'
  <2>1. tx'.pc \in Reconciling /\ tx'.pc \notin {"checkpoint", "body", "count", "project"}
    BY <1>8 DEF Reconciling
  <2>2. tx'.base = IF checkpoint' # NoCheckpoint THEN checkpoint'.last ELSE Older'.last
    BY <1>2, <1>7, <1>8 DEF Older
  <2>3. ASSUME tx'.pc = "repair" PROVE tx'.at \in (tx'.base + 1)..n /\ tx'.left \subseteq journal'[tx'.at].keys
    BY <1>1, <1>3, <1>5, <1>6, <1>7, <1>8, <2>3
  <2>4. ASSUME tx'.pc = "prune", checkpoint' # NoCheckpoint PROVE checkpoint'.last < n
    <3>1. Base = checkpoint /\ checkpoint.last \in 1..n
      BY <1>1, <1>2, <1>7, <2>4 DEF Generations
    <3> QED BY <1>1, <1>7, <1>8, <2>4, <3>1
  <2> QED BY <1>2, <1>7, <1>8, <2>1, <2>2, <2>3, <2>4 DEF Knows
<1>12. Projected(n, f)'
  <2>1. ASSUME NEW k \in RecordId \ torn, proj[k].seq # f[k]
        PROVE  tx'.pc = "repair" /\ (k \in tx'.left \/ \E seq \in (tx'.at + 1)..n : k \in journal[seq].keys)
    <3>1. f[k] = n /\ Unseen(n)
      BY <1>1, <1>7, <2>1 DEF Projected
    <3>2. Base.last < n /\ memo[p].repaired < n
      BY <1>1, <1>2, <3>1 DEF Unseen, Older, NoCheckpoint
    <3>3. t.at < n /\ t.at \in Nat
      BY <1>1, <1>3, <1>4, <1>5, <1>6, <3>2
    <3>4. k \in journal[n].keys
      BY <1>1, <1>2, <3>1, <3>2 DEF Correct
    <3>5. tx'.pc = "repair" /\ tx'.at = t.at + 1 /\ tx'.left = journal[t.at + 1].keys
      BY <1>1, <1>6, <1>8, <3>3
    <3>6. CASE t.at + 1 = n
      BY <3>4, <3>5, <3>6
    <3>7. CASE t.at + 1 # n
      <4>1. n \in (tx'.at + 1)..n
        BY <1>1, <3>3, <3>5, <3>7
      <4> QED BY <3>4, <3>5, <4>1
    <3> QED BY <3>6, <3>7
  <2>2. tx'.pc \notin {"count", "project", "idle"}
    BY <1>8
  <2> QED BY <1>7, <2>1, <2>2 DEF Projected
<1> QED BY <1>1, <1>9, <1>10, <1>11, <1>12 DEF Sound

LEMMA RepairFileKeeps ==
  ASSUME NEW n, NEW f, Sound(n, f), NEW k \in RecordId, RepairFile(k)
  PROVE  Sound(n, f)'
<1> DEFINE left == tx.left \ {k}
           t == [tx EXCEPT !.left = left]
<1>1. /\ n \in Nat /\ n >= 1 /\ n <= MaxEvents /\ MaxEvents \in Nat /\ n \in Sequences
      /\ JournalTypes /\ Numbered(n) /\ Generations(n, f) /\ Knows(n, f) /\ Projected(n, f)
      /\ f \in [RecordId -> 0..n]
  BY JournalFacts DEF Sound
<1>2. /\ Correct(Base, n, f)
      /\ Base = IF checkpoint # NoCheckpoint THEN checkpoint ELSE Older
      /\ Base.last \in 0..n
  <2>1. Correct(Base, n, f) /\ Base = IF checkpoint # NoCheckpoint THEN checkpoint ELSE Older
    BY BaseIs
  <2> QED BY <2>1 DEF Correct
<1>3. /\ tx.pc = "repair" /\ k \in tx.left
      /\ UNCHANGED <<journal, counter, checkpoint, prev, memo, read, cut, torn>>
      /\ tx' = IF t.left = {} THEN NextRepair(t) ELSE t
  BY DEF RepairFile
<1>4. /\ tx.last = n /\ counter = n /\ tx.base = Base.last /\ tx.at \in (tx.base + 1)..n
      /\ \A j \in RecordId : tx.view[j].seq = f[j]
      /\ tx.left \subseteq journal[tx.at].keys /\ tx.at \in Sequences /\ tx.at \in Count
      /\ tx \in Transaction /\ tx.by # NoProcess
  <2>1. tx.last = n /\ counter = n /\ tx.at \in (tx.base + 1)..n /\ tx.left \subseteq journal[tx.at].keys
    BY <1>1, <1>3 DEF Knows, Reconciling
  <2>2. tx.base = Base.last
    BY <1>1, <1>2, <1>3 DEF Knows
  <2>3. \A j \in RecordId : tx.view[j].seq = f[j]
    BY <1>1, <1>3 DEF Knows, Reconciling
  <2>4. tx \in Transaction /\ tx.by # NoProcess
    BY <1>1, <1>3 DEF JournalTypes
  <2>5. tx.at \in Sequences /\ tx.at \in Count
    BY <1>1, <1>2, <2>1, <2>2 DEF Sequences, Count
  <2> QED BY <2>1, <2>2, <2>3, <2>4, <2>5
<1>5. /\ t \in Transaction /\ t.left = left
      /\ t.by = tx.by /\ t.pc = "repair" /\ t.view = tx.view /\ t.last = n /\ t.base = Base.last
      /\ t.at = tx.at /\ t.at <= t.last
  BY <1>1, <1>2, <1>3, <1>4 DEF Transaction
<1> HIDE DEF t
<1>6. /\ tx' \in Transaction
      /\ tx'.by = tx.by /\ tx'.view = tx.view /\ tx'.last = n /\ tx'.base = Base.last
      /\ tx'.pc \in {"repair", "header", "prune", "done"}
      /\ tx'.pc = "prune" => Base.last = 0 \/ n - Base.last >= Interval
      /\ tx'.pc # "repair" => left = {} /\ tx.at = n
      /\ tx'.pc = "repair" =>
           \/ tx'.at = tx.at /\ tx'.left = left /\ left # {}
           \/ tx'.at = tx.at + 1 /\ tx.at # n /\ tx'.left = journal[tx.at + 1].keys /\ left = {}
  <2>1. CASE left # {}
    BY <1>3, <1>5, <2>1
  <2>2. CASE left = {}
    <3>1. tx' = NextRepair(t)
      BY <1>3, <1>5, <2>2
    <3>2. /\ tx' \in Transaction
          /\ tx'.by = t.by /\ tx'.view = t.view /\ tx'.last = t.last /\ tx'.base = t.base
          /\ tx'.pc = "prune" => t.base = 0 \/ t.last - t.base >= Interval
          /\ IF t.at = t.last
             THEN tx'.pc \in {"header", "prune", "done"}
             ELSE tx'.pc = "repair" /\ tx'.at = t.at + 1 /\ tx'.left = journal[t.at + 1].keys
      BY <1>1, <1>5, <3>1, NextRepairIs
    <3> QED BY <1>5, <2>2, <3>2
  <2> QED BY <2>1, <2>2
<1>7. /\ proj' \in Snapshot
      /\ proj'[k].seq = tx.at
      /\ \A j \in RecordId : j # k => proj'[j] = proj[j]
  <2> DEFINE event == journal[tx.at]
             kept == event.claim /\ proj[k].claim /\ proj[k].seq = tx.at /\ proj[k].beats > 0
  <2>1. proj' = IF kept THEN proj ELSE [proj EXCEPT ![k] = Written(tx.at, event)]
    BY DEF RepairFile
  <2>2. Written(tx.at, event) \in Record /\ Written(tx.at, event).seq = tx.at
    BY <1>1, <1>4, RecordFacts DEF Written
  <2>3. proj \in [RecordId -> Record] /\ Snapshot = [RecordId -> Record]
    BY <1>1 DEF JournalTypes, Snapshot, Record, Count
  <2>4. CASE kept
    BY <2>1, <2>3, <2>4
  <2>5. CASE ~kept
    <3> HIDE DEF kept
    <3>1. proj' = [proj EXCEPT ![k] = Written(tx.at, event)]
      BY <2>1, <2>5
    <3> QED BY <2>2, <2>3, <3>1
  <2> QED BY <2>4, <2>5
<1>8. Numbered(n)' /\ Generations(n, f)'
  <2>1. \A q \in Process : memo'[q].repaired <= n
    BY <1>1, <1>3 DEF Numbered
  <2>2. tx'.pc = "checkpoint" => tx.pc = "checkpoint"
    BY <1>6
  <2> QED BY <1>3, <2>1, <2>2, FilesStill
<1>9. JournalTypes'
  <2>1. tx'.pc # "idle" /\ tx'.by # NoProcess
    BY <1>4, <1>6
  <2> QED BY <1>1, <1>3, <1>6, <1>7, <2>1 DEF JournalTypes
<1>10. Knows(n, f)'
  <2>1. tx'.pc \in Reconciling /\ tx'.pc \notin {"checkpoint", "body", "count", "project"}
    BY <1>6 DEF Reconciling
  <2>2. tx'.base = IF checkpoint' # NoCheckpoint THEN checkpoint'.last ELSE Older'.last
    BY <1>2, <1>3, <1>6 DEF Older
  <2>3. ASSUME tx'.pc = "repair" PROVE tx'.at \in (tx'.base + 1)..n /\ tx'.left \subseteq journal'[tx'.at].keys
    BY <1>1, <1>2, <1>3, <1>4, <1>6, <2>3
  <2>4. ASSUME tx'.pc = "prune", checkpoint' # NoCheckpoint PROVE checkpoint'.last < n
    <3>1. Base = checkpoint /\ checkpoint.last \in 1..n
      BY <1>1, <1>2, <1>3, <2>4 DEF Generations
    <3> QED BY <1>1, <1>3, <1>6, <2>4, <3>1
  <2> QED BY <1>3, <1>4, <1>6, <2>1, <2>2, <2>3, <2>4 DEF Knows
<1>11. Projected(n, f)'
  <2>1. ASSUME NEW j \in RecordId \ torn, proj'[j].seq # f[j]
        PROVE  \E seq \in tx.at..n : j \in journal[seq].keys /\ (seq = tx.at => j \in left)
    <3>1. CASE j = k
      <4>1. k \in journal[tx.at].keys
        BY <1>3, <1>4
      <4>2. tx.at <= f[k] /\ tx.at > Base.last /\ f[k] \in 0..n
        BY <1>1, <1>2, <1>4, <4>1 DEF Correct
      <4>3. f[k] # tx.at
        BY <1>7, <2>1, <3>1
      <4>4. f[k] > tx.at /\ f[k] > Base.last /\ f[k] \in tx.at..n
        BY <1>1, <1>2, <1>4, <4>2, <4>3
      <4>5. k \in journal[f[k]].keys
        BY <1>2, <4>4 DEF Correct
      <4> QED BY <3>1, <4>4, <4>5
    <3>2. CASE j # k
      <4>1. proj[j].seq # f[j]
        BY <1>7, <2>1, <3>2
      <4>2. j \in tx.left \/ \E seq \in (tx.at + 1)..n : j \in journal[seq].keys
        BY <1>1, <1>3, <2>1, <4>1 DEF Projected
      <4>3. CASE j \in tx.left
        BY <1>1, <1>2, <1>3, <1>4, <3>2, <4>3
      <4>4. CASE \E seq \in (tx.at + 1)..n : j \in journal[seq].keys
        <5>1. PICK seq \in (tx.at + 1)..n : j \in journal[seq].keys
          BY <4>4
        <5>2. seq \in tx.at..n /\ seq > tx.at
          BY <1>1, <1>2, <1>4
        <5> QED BY <5>1, <5>2
      <4> QED BY <4>2, <4>3, <4>4
    <3> QED BY <3>1, <3>2
  <2>2. ASSUME NEW j \in RecordId \ torn, proj'[j].seq # f[j]
        PROVE  tx'.pc = "repair" /\ (j \in tx'.left \/ \E seq \in (tx'.at + 1)..n : j \in journal[seq].keys)
    <3>1. PICK seq \in tx.at..n : j \in journal[seq].keys /\ (seq = tx.at => j \in left)
      BY <2>1, <2>2
    <3>2. tx.at \in Nat /\ seq \in Nat /\ seq <= n /\ tx.at <= seq /\ tx.at <= n
      BY <1>1, <1>4, <3>1 DEF Count
    <3>3. CASE seq = tx.at
      <4>1. j \in left
        BY <3>1, <3>2, <3>3
      <4> QED BY <1>6, <4>1
    <3>4. CASE seq # tx.at
      <4>1. seq \in (tx.at + 1)..n /\ j \in journal[seq].keys /\ tx.at # n
        BY <1>1, <3>1, <3>2, <3>4
      <4>2. tx'.pc = "repair"
        BY <1>6, <4>1
      <4>3. CASE tx'.at = tx.at
        BY <4>1, <4>2, <4>3
      <4>4. CASE tx'.at = tx.at + 1 /\ tx'.left = journal[tx.at + 1].keys
        <5>1. seq = tx.at + 1 \/ seq \in (tx'.at + 1)..n
          BY <1>1, <3>2, <4>1, <4>4
        <5> QED BY <4>1, <4>2, <4>4, <5>1
      <4> QED BY <1>6, <4>2, <4>3, <4>4
    <3> QED BY <3>3, <3>4
  <2>3. tx'.pc \notin {"count", "project", "idle"}
    BY <1>6
  <2> QED BY <1>3, <2>2, <2>3 DEF Projected
<1> QED BY <1>1, <1>8, <1>9, <1>10, <1>11 DEF Sound

LEMMA FixHeaderKeeps ==
  ASSUME NEW n, NEW f, Sound(n, f), NEW k \in RecordId, FixHeader(k)
  PROVE  Sound(n, f)'
<1> DEFINE left == tx.left \ {k}
           t == [tx EXCEPT !.left = left]
<1>1. /\ n \in Nat /\ n >= 1 /\ n <= MaxEvents /\ MaxEvents \in Nat /\ n \in Sequences
      /\ JournalTypes /\ Numbered(n) /\ Generations(n, f) /\ Knows(n, f) /\ Projected(n, f)
      /\ f \in [RecordId -> 0..n]
  BY JournalFacts DEF Sound
<1>2. Base = (IF checkpoint # NoCheckpoint THEN checkpoint ELSE Older) /\ Base.last \in 0..n
  <2>1. Correct(Base, n, f) /\ Base = IF checkpoint # NoCheckpoint THEN checkpoint ELSE Older
    BY BaseIs
  <2> QED BY <2>1 DEF Correct
<1>3. /\ tx.pc = "header" /\ k \in tx.left
      /\ UNCHANGED <<journal, counter, checkpoint, prev, memo, read, cut, torn>>
      /\ proj' = [proj EXCEPT ![k] = tx.view[k]]
      /\ tx' = IF t.left = {} THEN AfterHeader(t) ELSE t
  BY DEF FixHeader
<1>4. /\ tx.last = n /\ counter = n /\ tx.base = Base.last
      /\ \A j \in RecordId : tx.view[j].seq = f[j]
      /\ tx \in Transaction /\ tx.by # NoProcess
  <2>1. tx.last = n /\ counter = n
    BY <1>1, <1>3 DEF Knows, Reconciling
  <2>2. tx.base = Base.last
    BY <1>1, <1>2, <1>3 DEF Knows
  <2>3. \A j \in RecordId : tx.view[j].seq = f[j]
    BY <1>1, <1>3 DEF Knows, Reconciling
  <2>4. tx \in Transaction /\ tx.by # NoProcess
    BY <1>1, <1>3 DEF JournalTypes
  <2> QED BY <2>1, <2>2, <2>3, <2>4
<1>5. /\ t \in Transaction /\ t.left = left
      /\ t.by = tx.by /\ t.pc = "header" /\ t.view = tx.view /\ t.last = n /\ t.base = Base.last
  BY <1>1, <1>2, <1>3, <1>4 DEF Transaction
<1> HIDE DEF t
<1>6. /\ tx' \in Transaction
      /\ tx'.by = tx.by /\ tx'.view = tx.view /\ tx'.last = n /\ tx'.base = Base.last
      /\ tx'.pc \in {"header", "prune", "done"}
      /\ tx'.pc = "prune" => Base.last = 0 \/ n - Base.last >= Interval
  <2>1. CASE left # {}
    BY <1>3, <1>5, <2>1
  <2>2. CASE left = {}
    <3>1. tx' = AfterHeader(t)
      BY <1>3, <1>5, <2>2
    <3>2. /\ tx' \in Transaction
          /\ tx'.by = t.by /\ tx'.view = t.view /\ tx'.last = t.last /\ tx'.base = t.base
          /\ tx'.pc \in {"prune", "done"}
          /\ tx'.pc = "prune" => t.base = 0 \/ t.last - t.base >= Interval
      BY <1>5, <3>1, AfterHeaderIs
    <3> QED BY <1>5, <3>2
  <2> QED BY <2>1, <2>2
<1>7. /\ proj' \in Snapshot /\ proj'[k].seq = f[k]
      /\ \A j \in RecordId : j # k => proj'[j] = proj[j]
  <2>1. tx.view[k] \in Record
    BY <1>1, RecordFacts
  <2>2. proj \in [RecordId -> Record] /\ Snapshot = [RecordId -> Record]
    BY <1>1 DEF JournalTypes, Snapshot, Record, Count
  <2> QED BY <1>3, <1>4, <2>1, <2>2
<1>8. Numbered(n)' /\ Generations(n, f)'
  <2>1. \A q \in Process : memo'[q].repaired <= n
    BY <1>1, <1>3 DEF Numbered
  <2>2. tx'.pc = "checkpoint" => tx.pc = "checkpoint"
    BY <1>6
  <2> QED BY <1>3, <2>1, <2>2, FilesStill
<1>9. JournalTypes'
  <2>1. tx'.pc # "idle" /\ tx'.by # NoProcess
    BY <1>4, <1>6
  <2> QED BY <1>1, <1>3, <1>6, <1>7, <2>1 DEF JournalTypes
<1>10. Knows(n, f)'
  <2>1. tx'.pc \in Reconciling /\ tx'.pc \notin {"repair", "checkpoint", "body", "count", "project"}
    BY <1>6 DEF Reconciling
  <2>2. tx'.base = IF checkpoint' # NoCheckpoint THEN checkpoint'.last ELSE Older'.last
    BY <1>2, <1>3, <1>6 DEF Older
  <2>3. ASSUME tx'.pc = "prune", checkpoint' # NoCheckpoint PROVE checkpoint'.last < n
    <3>1. Base = checkpoint /\ checkpoint.last \in 1..n
      BY <1>1, <1>2, <1>3, <2>3 DEF Generations
    <3> QED BY <1>1, <1>3, <1>6, <2>3, <3>1
  <2> QED BY <1>3, <1>4, <1>6, <2>1, <2>2, <2>3 DEF Knows
<1>11. Projected(n, f)'
  <2>1. \A j \in RecordId \ torn : proj'[j].seq = f[j]
    BY <1>1, <1>3, <1>7 DEF Projected
  <2>2. tx'.pc \notin {"count", "project", "idle"}
    BY <1>6
  <2> QED BY <1>3, <2>1, <2>2 DEF Projected
<1> QED BY <1>1, <1>8, <1>9, <1>10, <1>11 DEF Sound

\* While the journal is pruned, the projections are those of the log.
LEMMA PruningFacts ==
  ASSUME NEW n, NEW f, Sound(n, f), tx.pc \in {"prune", "checkpoint", "done", "body"}
  PROVE  /\ tx \in Transaction /\ tx.by \in Process
         /\ \A k \in RecordId : tx.view[k].seq = f[k]
         /\ \A k \in RecordId \ torn : proj[k].seq = f[k]
         /\ tx.pc # "body" => tx.last = n /\ counter = n
         /\ tx.pc = "prune" => (checkpoint # NoCheckpoint => checkpoint.last < n)
<1>1. /\ n \in Nat /\ n >= 1 /\ n <= MaxEvents /\ MaxEvents \in Nat /\ n \in Sequences
      /\ JournalTypes /\ Numbered(n) /\ Generations(n, f) /\ Knows(n, f) /\ Projected(n, f)
      /\ f \in [RecordId -> 0..n]
  BY JournalFacts DEF Sound
<1>2. tx \in Transaction /\ tx.by \in Process
  BY <1>1 DEF JournalTypes, Transaction
<1>3. \A k \in RecordId \ torn : proj[k].seq = f[k]
  BY <1>1 DEF Projected
<1> QED BY <1>1, <1>2, <1>3 DEF Knows, Reconciling

LEMMA PruneFileKeeps ==
  ASSUME NEW n, NEW f, Sound(n, f), NEW p \in Process, PruneFile(p)
  PROVE  Sound(n, f)'
<1> DEFINE d == PrunedThrough(p) + 1
           batch == tx.batch + 1
<1>1. /\ n \in Nat /\ n >= 1 /\ n <= MaxEvents /\ MaxEvents \in Nat /\ n \in Sequences
      /\ JournalTypes /\ Numbered(n) /\ Generations(n, f) /\ Knows(n, f) /\ Projected(n, f)
      /\ f \in [RecordId -> 0..n]
  BY JournalFacts DEF Sound
<1>2. /\ tx.by = p /\ tx.pc = "prune"
      /\ PrunedThrough(p) < PruneThrough
      /\ journal' = [journal EXCEPT ![d] = NoEvent]
      /\ memo' = [memo EXCEPT ![p].pruned = d]
      /\ tx' = [tx EXCEPT !.batch = batch]
      /\ cut' = TRUE
      /\ UNCHANGED <<counter, checkpoint, prev, proj, read, torn>>
  BY DEF PruneFile
<1>3. /\ tx \in Transaction
      /\ \A k \in RecordId : tx.view[k].seq = f[k]
      /\ \A k \in RecordId \ torn : proj[k].seq = f[k]
      /\ tx.last = n /\ counter = n
      /\ checkpoint # NoCheckpoint => checkpoint.last < n
  BY <1>2, PruningFacts
<1>4. PrunedThrough(p) \in Nat
  <2>1. memo[p].pruned \in {Missing} \cup Count /\ checkpoint.pruned \in Count
    BY <1>1 DEF JournalTypes, Memo, Generation
  <2>2. CASE Files # {}
    <3>1. Files \in SUBSET Nat /\ \A seq \in Files : seq >= 1
      BY DEF Files, Sequences
    <3>2. Smallest(Files) \in Files
      BY <2>2, <3>1, SmallestIs
    <3>3. Smallest(Files) \in Nat /\ Smallest(Files) >= 1
      BY <3>1, <3>2
    <3>4. Smallest(Files) - 1 \in Nat
      BY <3>3
    <3>5. Count \subseteq Nat
      BY <1>1 DEF Count
    <3> QED BY <2>1, <2>2, <3>4, <3>5 DEF PrunedThrough
  <2>3. CASE Files = {}
    BY <2>1, <2>3 DEF PrunedThrough, Count
  <2> QED BY <2>2, <2>3
<1>5. /\ checkpoint # NoCheckpoint /\ checkpoint.last \in 1..n /\ checkpoint.last < n
      /\ d \in 1..checkpoint.last /\ d \in Sequences /\ d \in Count
  <2>1. checkpoint # NoCheckpoint
    BY <1>2, <1>4 DEF PruneThrough
  <2>2. checkpoint.last \in 1..n /\ checkpoint.last < n
    BY <1>1, <1>3, <2>1 DEF Generations
  <2>3. PruneThrough = checkpoint.last
    BY <1>3, <2>1, <2>2 DEF PruneThrough
  <2>4. d \in 1..checkpoint.last
    BY <1>1, <1>2, <1>4, <2>2, <2>3
  <2> QED BY <1>1, <2>1, <2>2, <2>4 DEF Sequences, Count
<1> HIDE DEF d
<1>6. /\ journal' \in [Sequences -> Event] /\ journal'[d] = NoEvent
      /\ \A seq \in Sequences : seq # d => journal'[seq] = journal[seq]
      /\ \A seq : Exists(seq)' <=> Exists(seq) /\ seq # d
  <2>1. journal \in [Sequences -> Event] /\ NoEvent \in Event
    BY <1>1 DEF JournalTypes, Event
  <2> QED BY <1>2, <1>5, <2>1 DEF Exists
<1>7. /\ memo' \in [Process -> Memo]
      /\ \A q \in Process : memo'[q].repaired = memo[q].repaired
  BY <1>1, <1>2, <1>5 DEF JournalTypes, Memo
<1>8. /\ tx' \in Transaction /\ tx'.by = p /\ tx'.pc = "prune" /\ tx'.view = tx.view /\ tx'.last = n
  BY <1>2, <1>3 DEF Transaction
<1>9. Numbered(n)'
  <2>1. Exists(n)'
    BY <1>1, <1>5, <1>6 DEF Numbered
  <2>2. \A seq \in Sequences : Exists(seq)' => seq <= n
    BY <1>1, <1>6 DEF Numbered
  <2>3. counter' <= n /\ \A seq \in (counter' + 1)..n : Exists(seq)'
    BY <1>1, <1>2, <1>3
  <2> QED BY <1>1, <1>7, <2>1, <2>2, <2>3 DEF Numbered
<1>10. Generations(n, f)'
  <2>1. Correct(checkpoint, n, f)
    BY <1>1, <1>5 DEF Generations
  <2>2. \A seq \in (checkpoint.last + 1)..n : seq # d /\ seq \in Sequences
    BY <1>1, <1>5 DEF Sequences
  <2>3. \A seq \in (checkpoint.last + 1)..n : journal'[seq] = journal[seq] /\ Exists(seq)'
    BY <1>6, <2>1, <2>2 DEF Correct
  <2>4. ASSUME NEW k \in RecordId, f[k] > checkpoint.last PROVE f[k] \in (checkpoint.last + 1)..n
    BY <1>1, <1>5, <2>4
  <2>5. Correct(checkpoint, n, f)'
    BY <1>2, <2>1, <2>3, <2>4 DEF Correct
  <2> QED BY <1>1, <1>2, <1>5, <1>8, <2>5 DEF Generations
<1>11. Knows(n, f)' /\ Projected(n, f)'
  BY <1>2, <1>3, <1>8 DEF Knows, Projected, Reconciling
<1>12. JournalTypes'
  BY <1>1, <1>2, <1>6, <1>7, <1>8 DEF JournalTypes
<1> QED BY <1>1, <1>9, <1>10, <1>11, <1>12 DEF Sound

LEMMA RotateCheckpointKeeps ==
  ASSUME NEW n, NEW f, Sound(n, f), NEW p \in Process, RotateCheckpoint(p)
  PROVE  Sound(n, f)'
<1>1. /\ n \in Nat /\ n >= 1 /\ n <= MaxEvents /\ MaxEvents \in Nat /\ n \in Sequences
      /\ JournalTypes /\ Numbered(n) /\ Generations(n, f) /\ Knows(n, f) /\ Projected(n, f)
      /\ f \in [RecordId -> 0..n]
  BY JournalFacts DEF Sound
<1>2. /\ tx.by = p /\ tx.pc = "prune"
      /\ prev' = IF checkpoint # NoCheckpoint /\ checkpoint.last < tx.last THEN checkpoint ELSE prev
      /\ memo' = [memo EXCEPT ![p].pruned = PrunedThrough(p)]
      /\ tx' = [tx EXCEPT !.pc = "checkpoint"]
      /\ UNCHANGED <<journal, counter, checkpoint, proj, read, cut, torn>>
  BY DEF RotateCheckpoint
<1>3. /\ tx \in Transaction
      /\ \A k \in RecordId : tx.view[k].seq = f[k]
      /\ \A k \in RecordId \ torn : proj[k].seq = f[k]
      /\ tx.last = n /\ counter = n
      /\ checkpoint # NoCheckpoint => checkpoint.last < n
  BY <1>2, PruningFacts
<1>4. PrunedThrough(p) \in Count
  <2>1. memo[p].pruned \in {Missing} \cup Count /\ checkpoint.pruned \in Count
    BY <1>1 DEF JournalTypes, Memo, Generation
  <2>2. CASE Files # {}
    <3>1. Files \in SUBSET Nat /\ \A seq \in Files : seq >= 1 /\ seq <= MaxEvents
      BY <1>1 DEF Files, Sequences
    <3>2. Smallest(Files) \in Files
      BY <2>2, <3>1, SmallestIs
    <3>3. Smallest(Files) \in Nat /\ Smallest(Files) >= 1 /\ Smallest(Files) <= MaxEvents
      BY <3>1, <3>2
    <3>4. Smallest(Files) - 1 \in Count
      BY <1>1, <3>3 DEF Count
    <3> QED BY <2>1, <2>2, <3>4 DEF PrunedThrough
  <2>3. CASE Files = {}
    BY <1>1, <2>1, <2>3 DEF PrunedThrough, Count
  <2> QED BY <2>2, <2>3
<1>5. /\ prev' \in Generation
      /\ prev' = IF checkpoint # NoCheckpoint THEN checkpoint ELSE prev
  BY <1>1, <1>2, <1>3 DEF JournalTypes
<1>6. /\ memo' \in [Process -> Memo] /\ memo'[p].pruned \in Count
      /\ \A q \in Process : memo'[q].repaired = memo[q].repaired
  BY <1>1, <1>2, <1>4 DEF JournalTypes, Memo
<1>7. /\ tx' \in Transaction /\ tx'.by = p /\ tx'.pc = "checkpoint" /\ tx'.view = tx.view /\ tx'.last = n
  BY <1>2, <1>3 DEF Transaction, Phase
<1>8. \A seq : Exists(seq)' <=> Exists(seq)
  BY <1>2 DEF Exists
<1>9. Numbered(n)'
  BY <1>1, <1>2, <1>6, <1>8 DEF Numbered
<1>10. Generations(n, f)'
  <2>1. CASE checkpoint # NoCheckpoint
    <3>1. Correct(checkpoint, n, f) /\ checkpoint.last \in 1..n
      BY <1>1, <2>1 DEF Generations
    <3>2. Correct(checkpoint, n, f)' /\ prev' = checkpoint /\ checkpoint' = checkpoint
      BY <1>2, <1>5, <1>8, <2>1, <3>1 DEF Correct
    <3>3. Correct(Older, n, f)'
      BY <2>1, <3>2 DEF Older, Correct
    <3> QED BY <2>1, <3>1, <3>2, <3>3 DEF Generations
  <2>2. CASE checkpoint = NoCheckpoint
    <3>1. Correct(Older, n, f) /\ ~cut /\ (prev # NoCheckpoint => prev.last \in 1..n)
      BY <1>1, <2>2 DEF Generations
    <3>2. Correct(Older, n, f)'
      BY <1>2, <1>5, <1>8, <2>2, <3>1 DEF Older, Correct
    <3> QED BY <1>2, <1>5, <2>2, <3>1, <3>2 DEF Generations
  <2> QED BY <2>1, <2>2
<1>11. Knows(n, f)'
  <2>1. memo'[tx'.by].pruned # Missing
    BY <1>1, <1>6, <1>7 DEF Count, Missing
  <2> QED BY <1>2, <1>3, <1>7, <2>1 DEF Knows, Reconciling
<1>12. Projected(n, f)'
  BY <1>2, <1>3, <1>7 DEF Projected
<1>13. JournalTypes'
  <2>1. NoProcess # p
    OBVIOUS
  <2> QED BY <1>1, <1>2, <1>5, <1>6, <1>7, <2>1 DEF JournalTypes
<1> QED BY <1>1, <1>9, <1>10, <1>11, <1>12, <1>13 DEF Sound

LEMMA WriteCheckpointKeeps ==
  ASSUME NEW n, NEW f, Sound(n, f), NEW p \in Process, WriteCheckpoint(p)
  PROVE  Sound(n, f)'
<1>1. /\ n \in Nat /\ n >= 1 /\ n <= MaxEvents /\ MaxEvents \in Nat /\ n \in Sequences
      /\ JournalTypes /\ Numbered(n) /\ Generations(n, f) /\ Knows(n, f) /\ Projected(n, f)
      /\ f \in [RecordId -> 0..n]
  BY JournalFacts DEF Sound
<1>2. /\ tx.by = p /\ tx.pc = "checkpoint"
      /\ checkpoint' = [last |-> tx.last, view |-> tx.view, pruned |-> memo[p].pruned]
      /\ cut' = FALSE
      /\ tx' = [tx EXCEPT !.pc = "done"]
      /\ UNCHANGED <<journal, counter, prev, proj, memo, read, torn>>
  BY DEF WriteCheckpoint
<1>3. /\ tx \in Transaction
      /\ \A k \in RecordId : tx.view[k].seq = f[k]
      /\ \A k \in RecordId \ torn : proj[k].seq = f[k]
      /\ tx.last = n /\ counter = n
  BY <1>2, PruningFacts
<1>4. memo[p].pruned \in Count
  BY <1>1, <1>2 DEF Knows, JournalTypes, Memo
<1>5. /\ checkpoint' \in Generation /\ checkpoint'.last = n /\ checkpoint' # NoCheckpoint
      /\ \A k \in RecordId : checkpoint'.view[k].seq = f[k]
  <2>1. n \in 1..MaxEvents /\ tx.view \in Snapshot
    BY <1>1, <1>3 DEF Transaction
  <2>2. checkpoint' \in Generation /\ checkpoint'.last = n /\ checkpoint'.view = tx.view
    BY <1>2, <1>3, <1>4, <2>1 DEF Generation
  <2>3. NoCheckpoint.last = Missing /\ Missing # n
    BY <1>1 DEF NoCheckpoint, Missing
  <2> QED BY <1>3, <2>2, <2>3
<1>6. /\ tx' \in Transaction /\ tx'.by = p /\ tx'.pc = "done" /\ tx'.view = tx.view /\ tx'.last = n
  BY <1>2, <1>3 DEF Transaction, Phase
<1>7. \A seq : Exists(seq)' <=> Exists(seq)
  BY <1>2 DEF Exists
<1>8. Numbered(n)'
  BY <1>1, <1>2, <1>7 DEF Numbered
<1>9. Generations(n, f)'
  <2>1. Correct(checkpoint, n, f)'
    <3>1. \A k \in RecordId : ~(f[k] > n) /\ f[k] <= n
      BY <1>1
    <3>2. (n + 1)..n = {}
      BY <1>1
    <3> QED BY <1>1, <1>5, <3>1, <3>2 DEF Correct
  <2>2. Correct(Older, n, f)
    BY <1>1, <1>2 DEF Generations
  <2>3. Correct(Older, n, f)'
    BY <1>2, <1>7, <2>2 DEF Older, Correct
  <2>4. n \in 1..n /\ (prev # NoCheckpoint => prev.last \in 1..n)
    BY <1>1 DEF Generations
  <2> QED BY <1>2, <1>5, <1>6, <2>1, <2>3, <2>4 DEF Generations
<1>10. Knows(n, f)' /\ Projected(n, f)'
  BY <1>2, <1>3, <1>6 DEF Knows, Reconciling, Projected
<1>11. JournalTypes'
  <2>1. NoProcess # p
    OBVIOUS
  <2> QED BY <1>1, <1>2, <1>5, <1>6, <2>1 DEF JournalTypes
<1> QED BY <1>1, <1>8, <1>9, <1>10, <1>11 DEF Sound

LEMMA ReconciledKeeps ==
  ASSUME NEW n, NEW f, Sound(n, f), NEW p \in Process, Reconciled(p)
  PROVE  Sound(n, f)' /\ read' = [last |-> n, latest |-> f]
<1>1. /\ n \in Nat /\ n >= 1 /\ n <= MaxEvents /\ MaxEvents \in Nat /\ n \in Sequences
      /\ JournalTypes /\ Numbered(n) /\ Generations(n, f) /\ Knows(n, f) /\ Projected(n, f)
      /\ f \in [RecordId -> 0..n]
  BY JournalFacts DEF Sound
<1>2. /\ tx.by = p /\ tx.pc = "done"
      /\ memo' = [memo EXCEPT ![p].repaired = IF tx.last > memo[p].repaired THEN tx.last ELSE memo[p].repaired]
      /\ read' = [last |-> tx.last, latest |-> LatestOf(tx.view)]
      /\ tx' = [Idle EXCEPT !.by = p, !.pc = "body", !.view = tx.view]
      /\ UNCHANGED <<journal, counter, checkpoint, prev, proj, cut, torn>>
  BY DEF Reconciled
<1>3. /\ tx \in Transaction
      /\ \A k \in RecordId : tx.view[k].seq = f[k]
      /\ \A k \in RecordId \ torn : proj[k].seq = f[k]
      /\ tx.last = n /\ counter = n
  BY <1>2, PruningFacts
<1>4. memo' \in [Process -> Memo] /\ \A q \in Process : memo'[q].repaired <= n
  <2> DEFINE high == IF tx.last > memo[p].repaired THEN tx.last ELSE memo[p].repaired
  <2>1. memo' = [memo EXCEPT ![p].repaired = high]
    BY <1>2
  <2>2. high \in Count /\ high <= n
    BY <1>1, <1>3 DEF Numbered, JournalTypes, Memo, Count
  <2> HIDE DEF high
  <2>3. memo' \in [Process -> Memo] /\ memo'[p].repaired = high /\ \A q \in Process : q # p => memo'[q] = memo[q]
    BY <1>1, <2>1, <2>2 DEF JournalTypes, Memo
  <2> QED BY <1>1, <2>2, <2>3 DEF Numbered
<1>5. tx' \in Transaction /\ tx'.by = p /\ tx'.pc = "body" /\ tx'.view = tx.view
  <2>1. Idle \in Transaction
    BY <1>1, RecordFacts
  <2> DEFINE view == tx.view
  <2>2. view \in Snapshot
    BY <1>3 DEF Transaction
  <2>3. tx' = [Idle EXCEPT !.by = p, !.pc = "body", !.view = view]
    BY <1>2
  <2> HIDE DEF view
  <2>4. tx' \in Transaction /\ tx'.by = p /\ tx'.pc = "body" /\ tx'.view = view
    BY <2>1, <2>2, <2>3 DEF Transaction, Phase
  <2> QED BY <2>4 DEF view
<1>6. LatestOf(tx.view) = f
  BY <1>1, <1>3 DEF LatestOf
<1>7. Numbered(n)' /\ Generations(n, f)'
  BY <1>2, <1>4, <1>5, FilesStill
<1>8. Knows(n, f)' /\ Projected(n, f)'
  BY <1>2, <1>3, <1>5 DEF Knows, Reconciling, Projected
<1>9. JournalTypes'
  <2>1. NoProcess # p
    OBVIOUS
  <2> QED BY <1>1, <1>2, <1>4, <1>5, <2>1 DEF JournalTypes
<1> QED BY <1>1, <1>2, <1>3, <1>6, <1>7, <1>8, <1>9 DEF Sound

\* The log after an event of this kind.
Appended(n, f, kind) == [k \in RecordId |-> IF k \in kind.keys THEN n + 1 ELSE f[k]]

LEMMA AppendKeeps ==
  ASSUME NEW n, NEW f, Sound(n, f), NEW kind \in Kinds, AppendJournal(kind)
  PROVE  Sound(n + 1, Appended(n, f, kind))'
<1> DEFINE m == n + 1
           g == Appended(n, f, kind)
           keys == kind.keys
<1>1. /\ n \in Nat /\ n >= 1 /\ n <= MaxEvents /\ MaxEvents \in Nat /\ n \in Sequences
      /\ JournalTypes /\ Numbered(n) /\ Generations(n, f) /\ Knows(n, f) /\ Projected(n, f)
      /\ f \in [RecordId -> 0..n]
  BY JournalFacts DEF Sound
<1>2. LastSequence = n
  BY LastIs
<1>3. /\ tx.pc = "body" /\ n < MaxEvents
      /\ journal' = [journal EXCEPT ![m] = kind]
      /\ counter' = n
      /\ torn' = torn \ keys
      /\ tx' = [tx EXCEPT !.pc = "count", !.at = m, !.left = keys]
      /\ UNCHANGED <<checkpoint, prev, proj, memo, read, cut>>
  BY <1>2 DEF AppendJournal
<1>4. /\ tx \in Transaction /\ tx.by \in Process
      /\ \A k \in RecordId : tx.view[k].seq = f[k]
      /\ \A k \in RecordId \ torn : proj[k].seq = f[k]
  BY <1>3, PruningFacts
<1>5. /\ m \in Nat /\ m >= 1 /\ m <= MaxEvents /\ m \in Sequences /\ m \in Count /\ n < m
      /\ keys \subseteq RecordId /\ kind # NoEvent /\ kind \in Event
  <2>1. keys # {}
    OBVIOUS
  <2>2. kind # NoEvent
    BY <2>1 DEF NoEvent
  <2> QED BY <1>1, <1>3, <2>2 DEF Sequences, Count, Event
<1>6. /\ g \in [RecordId -> 0..m]
      /\ \A k \in RecordId : g[k] = IF k \in keys THEN m ELSE f[k]
      /\ \A k \in RecordId : f[k] \in 0..n /\ f[k] \in Nat /\ g[k] \in Nat
  BY <1>1, <1>5 DEF Appended
<1> HIDE DEF m, g, keys
<1>7. /\ journal' \in [Sequences -> Event] /\ journal'[m] = kind
      /\ \A seq \in Sequences : seq # m => journal'[seq] = journal[seq]
      /\ \A seq : Exists(seq)' <=> Exists(seq) \/ seq = m
  <2>1. journal \in [Sequences -> Event]
    BY <1>1 DEF JournalTypes
  <2> QED BY <1>3, <1>5, <2>1 DEF Exists
<1>8. tx' \in Transaction /\ tx'.by = tx.by /\ tx'.pc = "count" /\ tx'.at = m /\ tx'.left = keys /\ tx'.view = tx.view
  BY <1>3, <1>4, <1>5 DEF Transaction, Phase
<1>9. Numbered(m)'
  <2>1. Exists(m)' /\ \A seq \in Sequences : Exists(seq)' => seq <= m
    <3>1. \A seq \in Sequences : Exists(seq) => seq <= n
      BY <1>1 DEF Numbered
    <3> QED BY <1>1, <1>5, <1>7, <3>1 DEF Sequences
  <2>2. counter' <= m /\ \A seq \in (counter' + 1)..m : Exists(seq)'
    <3>1. \A seq \in (n + 1)..m : seq = m
      BY <1>1, <1>5 DEF m
    <3> QED BY <1>1, <1>3, <1>5, <1>7, <3>1
  <2>3. \A q \in Process : memo'[q].repaired <= m
    <3>1. \A q \in Process : memo[q].repaired <= n /\ memo[q].repaired \in Nat
      BY <1>1 DEF Numbered, JournalTypes, Memo, Count
    <3> QED BY <1>1, <1>3, <1>5, <3>1
  <2> QED BY <2>1, <2>2, <2>3 DEF Numbered
<1>10. ASSUME NEW c, Correct(c, n, f)
       PROVE  /\ c.last \in 0..m
              /\ \A seq \in (c.last + 1)..m : Exists(seq)'
              /\ \A k \in RecordId :
                   /\ \A seq \in (c.last + 1)..m : k \in journal'[seq].keys => seq <= g[k]
                   /\ g[k] > c.last => k \in journal'[g[k]].keys
                   /\ g[k] <= c.last => c.view[k].seq = g[k]
  <2>1. c.last \in 0..n /\ c.last \in Nat /\ c.last < m
    BY <1>1, <1>5, <1>10 DEF Correct
  <2>2. \A seq \in (c.last + 1)..m : seq \in Sequences /\ (seq = m \/ (seq \in (c.last + 1)..n /\ seq < m))
    BY <1>1, <1>5, <2>1 DEF m, Sequences
  <2>3. \A seq \in (c.last + 1)..m : Exists(seq)'
    BY <1>7, <1>10, <2>2 DEF Correct
  <2>4. ASSUME NEW k \in RecordId, NEW seq \in (c.last + 1)..m, k \in journal'[seq].keys
        PROVE  seq <= g[k]
    <3>1. CASE seq = m
      BY <1>5, <1>6, <1>7, <2>4, <3>1 DEF keys
    <3>2. CASE seq # m
      <4>1. seq \in (c.last + 1)..n /\ journal'[seq] = journal[seq] /\ seq \in Nat /\ seq < m
        BY <1>7, <2>1, <2>2, <3>2
      <4>2. seq <= f[k]
        BY <1>10, <2>4, <4>1 DEF Correct
      <4> QED BY <1>5, <1>6, <4>1, <4>2
    <3> QED BY <3>1, <3>2
  <2>5. ASSUME NEW k \in RecordId
        PROVE  /\ g[k] > c.last => k \in journal'[g[k]].keys
               /\ g[k] <= c.last => c.view[k].seq = g[k]
    <3>1. CASE k \in keys
      <4>1. g[k] = m
        BY <1>6, <3>1
      <4> QED BY <1>1, <1>5, <1>7, <2>1, <3>1, <4>1 DEF keys
    <3>2. CASE k \notin keys
      <4>1. g[k] = f[k] /\ f[k] \in 0..n
        BY <1>6, <3>2
      <4>2. g[k] <= c.last => c.view[k].seq = g[k]
        BY <1>10, <4>1 DEF Correct
      <4>3. ASSUME f[k] > c.last PROVE k \in journal'[f[k]].keys
        <5>1. f[k] \in Sequences /\ f[k] # m
          BY <1>1, <1>5, <2>1, <4>1, <4>3 DEF Sequences
        <5> QED BY <1>7, <1>10, <4>3, <5>1 DEF Correct
      <4> QED BY <4>1, <4>2, <4>3
    <3> QED BY <3>1, <3>2
  <2> QED BY <1>1, <1>5, <2>1, <2>3, <2>4, <2>5
<1>11. Generations(m, g)'
  <2>1. checkpoint # NoCheckpoint => checkpoint.last \in 1..m /\ Correct(checkpoint, n, f)
    BY <1>1, <1>5 DEF Generations
  <2>2. prev # NoCheckpoint => prev.last \in 1..m
    BY <1>1, <1>5 DEF Generations
  <2>3. checkpoint' # NoCheckpoint => Correct(checkpoint, m, g)'
    BY <1>3, <1>10, <2>1 DEF Correct
  <2>4. ~cut => Correct(Older, n, f)
    BY <1>1 DEF Generations
  <2>5. ~cut' => Correct(Older, m, g)'
    BY <1>3, <1>10, <2>4 DEF Correct, Older
  <2>6. cut => checkpoint # NoCheckpoint
    BY <1>1 DEF Generations
  <2> QED BY <1>3, <1>8, <2>1, <2>2, <2>3, <2>5, <2>6 DEF Generations
<1>12. Knows(m, g)'
  BY <1>4, <1>6, <1>8 DEF Knows, Reconciling
<1>13. Projected(m, g)'
  <2>1. \A q \in Process : memo[q].repaired < m
    <3>1. \A q \in Process : memo[q].repaired <= n /\ memo[q].repaired \in Nat
      BY <1>1 DEF Numbered, JournalTypes, Memo, Count
    <3> QED BY <1>1, <1>5, <3>1
  <2>2. /\ checkpoint # NoCheckpoint => checkpoint.last < m
        /\ prev # NoCheckpoint => prev.last < m
    BY <1>1, <1>5 DEF Generations
  <2>3. Unseen(m)'
    BY <1>3, <2>1, <2>2 DEF Unseen
  <2>4. \A k \in RecordId \ torn' : proj'[k].seq = g[k] \/ k \in tx'.left
    BY <1>3, <1>4, <1>6, <1>8
  <2> QED BY <1>8, <2>3, <2>4 DEF Projected
<1>14. JournalTypes'
  <2>1. counter' \in 1..MaxEvents /\ torn' \subseteq RecordId
    BY <1>1, <1>3 DEF JournalTypes
  <2>2. tx'.by # NoProcess
    BY <1>4, <1>8
  <2> QED BY <1>1, <1>3, <1>7, <1>8, <2>1, <2>2 DEF JournalTypes
<1>15. Sound(m, g)'
  BY <1>5, <1>6, <1>9, <1>11, <1>12, <1>13, <1>14 DEF Sound
<1> QED BY <1>15 DEF m, g

LEMMA WriteCounterKeeps ==
  ASSUME NEW n, NEW f, Sound(n, f), WriteCounter
  PROVE  Sound(n, f)'
<1>1. /\ n \in Nat /\ n >= 1 /\ n <= MaxEvents /\ MaxEvents \in Nat /\ n \in Sequences
      /\ JournalTypes /\ Numbered(n) /\ Generations(n, f) /\ Knows(n, f) /\ Projected(n, f)
      /\ f \in [RecordId -> 0..n]
  BY JournalFacts DEF Sound
<1>2. /\ tx.pc = "count" /\ counter' = tx.at /\ tx' = [tx EXCEPT !.pc = "project"]
      /\ UNCHANGED <<journal, checkpoint, prev, proj, memo, read, cut, torn>>
  BY DEF WriteCounter
<1>3. /\ tx \in Transaction /\ tx.by # NoProcess /\ tx.at = n /\ Unseen(n)
      /\ \A k \in RecordId : IF k \in tx.left THEN f[k] = n ELSE tx.view[k].seq = f[k]
      /\ \A k \in RecordId \ torn : proj[k].seq = f[k] \/ k \in tx.left
  BY <1>1, <1>2 DEF JournalTypes, Knows, Projected
<1>4. /\ tx' \in Transaction /\ tx'.by = tx.by /\ tx'.pc = "project"
      /\ tx'.at = n /\ tx'.left = tx.left /\ tx'.view = tx.view
  BY <1>2, <1>3 DEF Transaction, Phase
<1>5. Numbered(n)' /\ Generations(n, f)'
  <2>1. \A q \in Process : memo'[q].repaired <= n
    BY <1>1, <1>2 DEF Numbered
  <2> QED BY <1>2, <1>3, <1>4, <2>1, FilesStill
<1>6. Knows(n, f)'
  BY <1>3, <1>4 DEF Knows, Reconciling
<1>7. Projected(n, f)'
  BY <1>2, <1>3, <1>4 DEF Projected, Unseen
<1>8. JournalTypes'
  BY <1>1, <1>2, <1>3, <1>4 DEF JournalTypes
<1> QED BY <1>1, <1>5, <1>6, <1>7, <1>8 DEF Sound

LEMMA WriteProjectionKeeps ==
  ASSUME NEW n, NEW f, Sound(n, f), NEW k \in RecordId, WriteProjection(k)
  PROVE  Sound(n, f)'
<1> DEFINE record == Written(tx.at, journal[tx.at])
           left == tx.left \ {k}
           view == [tx.view EXCEPT ![k] = record]
           t == [tx EXCEPT !.left = left, !.view = view]
<1>1. /\ n \in Nat /\ n >= 1 /\ n <= MaxEvents /\ MaxEvents \in Nat /\ n \in Sequences
      /\ JournalTypes /\ Numbered(n) /\ Generations(n, f) /\ Knows(n, f) /\ Projected(n, f)
      /\ f \in [RecordId -> 0..n]
  BY JournalFacts DEF Sound
<1>2. /\ tx.pc = "project" /\ k \in tx.left
      /\ proj' = [proj EXCEPT ![k] = record]
      /\ tx' = IF t.left = {} THEN [t EXCEPT !.pc = "body", !.at = 0] ELSE t
      /\ UNCHANGED <<journal, counter, checkpoint, prev, memo, read, cut, torn>>
  BY DEF WriteProjection
<1>3. /\ tx \in Transaction /\ tx.by # NoProcess /\ tx.at = n /\ Unseen(n)
      /\ \A j \in RecordId : IF j \in tx.left THEN f[j] = n ELSE tx.view[j].seq = f[j]
      /\ \A j \in RecordId \ torn : proj[j].seq = f[j] \/ j \in tx.left
  BY <1>1, <1>2 DEF JournalTypes, Knows, Projected
<1>4. record \in Record /\ record.seq = n /\ 0 \in Count
  <2>1. n \in Count
    BY <1>1 DEF Count
  <2> QED BY <1>1, <1>3, <2>1, RecordFacts DEF Written, Count
<1> HIDE DEF record
<1>5. Snapshot = [RecordId -> Record]
  BY DEF Snapshot, Record, Count
<1>6. /\ view \in Snapshot /\ view[k].seq = n
      /\ \A j \in RecordId : j # k => view[j] = tx.view[j]
  <2>1. tx.view \in [RecordId -> Record]
    BY <1>3, <1>5 DEF Transaction
  <2> QED BY <1>4, <1>5, <2>1
<1> HIDE DEF view
<1>7. /\ t \in Transaction /\ t.by = tx.by /\ t.pc = "project" /\ t.at = n /\ t.left = left /\ t.view = view
  BY <1>2, <1>3, <1>6 DEF Transaction
<1> HIDE DEF t
<1>8. /\ tx' \in Transaction /\ tx'.by = tx.by /\ tx'.view = view
      /\ (tx'.pc = "project" /\ tx'.at = n /\ tx'.left = left) \/ (tx'.pc = "body" /\ left = {})
  <2>1. CASE left = {}
    <3>1. tx' = [t EXCEPT !.pc = "body", !.at = 0]
      BY <1>2, <1>7, <2>1
    <3> QED BY <1>4, <1>7, <2>1, <3>1 DEF Transaction, Phase
  <2>2. CASE left # {}
    BY <1>2, <1>7, <2>2
  <2> QED BY <2>1, <2>2
<1>9. proj' \in Snapshot /\ proj'[k].seq = n /\ \A j \in RecordId : j # k => proj'[j] = proj[j]
  <2>1. proj \in [RecordId -> Record]
    BY <1>1, <1>5 DEF JournalTypes
  <2> QED BY <1>2, <1>4, <1>5, <2>1
<1>10. Numbered(n)' /\ Generations(n, f)'
  <2>1. \A q \in Process : memo'[q].repaired <= n
    BY <1>1, <1>2 DEF Numbered
  <2> QED BY <1>2, <1>8, <2>1, FilesStill
<1>11. f[k] = n
  BY <1>2, <1>3
<1>12. Knows(n, f)'
  <2>1. \A j \in RecordId : IF j \in left THEN f[j] = n ELSE tx'.view[j].seq = f[j]
    BY <1>3, <1>6, <1>8, <1>11
  <2> QED BY <1>8, <2>1 DEF Knows, Reconciling
<1>13. Projected(n, f)'
  <2>1. Unseen(n)'
    BY <1>2, <1>3 DEF Unseen
  <2>2. \A j \in RecordId \ torn' : proj'[j].seq = f[j] \/ j \in left
    BY <1>2, <1>3, <1>9, <1>11
  <2> QED BY <1>8, <2>1, <2>2 DEF Projected
<1>14. JournalTypes'
  BY <1>1, <1>2, <1>3, <1>8, <1>9 DEF JournalTypes
<1> QED BY <1>1, <1>10, <1>12, <1>13, <1>14 DEF Sound

LEMMA RenewLeaseKeeps ==
  ASSUME NEW n, NEW f, Sound(n, f), NEW k \in RecordId, RenewLease(k)
  PROVE  Sound(n, f)'
<1> DEFINE record == [tx.view[k] EXCEPT !.beats = tx.view[k].beats + 1]
<1>1. /\ n \in Nat /\ n >= 1 /\ n <= MaxEvents /\ MaxEvents \in Nat /\ n \in Sequences
      /\ JournalTypes /\ Numbered(n) /\ Generations(n, f) /\ Knows(n, f) /\ Projected(n, f)
      /\ f \in [RecordId -> 0..n]
  BY JournalFacts DEF Sound
<1>2. /\ tx.pc = "body" /\ tx.view[k].beats < MaxBeats
      /\ proj' = [proj EXCEPT ![k] = record] /\ tx' = Idle
      /\ UNCHANGED <<journal, counter, checkpoint, prev, memo, read, cut, torn>>
  BY DEF RenewLease
<1>3. /\ \A j \in RecordId : tx.view[j].seq = f[j]
      /\ \A j \in RecordId \ torn : proj[j].seq = f[j]
  BY <1>2, PruningFacts
<1>4. record \in Record /\ record.seq = f[k]
  <2>1. tx.view[k] \in Record
    BY <1>1, RecordFacts
  <2> QED BY <1>2, <1>3, <2>1 DEF Record
<1> HIDE DEF record
<1>5. proj' \in Snapshot /\ \A j \in RecordId \ torn : proj'[j].seq = f[j]
  <2>1. proj \in [RecordId -> Record] /\ Snapshot = [RecordId -> Record]
    BY <1>1 DEF JournalTypes, Snapshot, Record, Count
  <2> QED BY <1>2, <1>3, <1>4, <2>1
<1>6. tx' \in Transaction /\ tx'.pc = "idle" /\ tx'.by = NoProcess
  BY <1>1, <1>2, RecordFacts DEF Idle
<1>7. Numbered(n)' /\ Generations(n, f)'
  <2>1. \A q \in Process : memo'[q].repaired <= n
    BY <1>1, <1>2 DEF Numbered
  <2> QED BY <1>2, <1>6, <2>1, FilesStill
<1>8. Knows(n, f)' /\ Projected(n, f)'
  BY <1>2, <1>5, <1>6 DEF Knows, Projected, Reconciling
<1>9. JournalTypes'
  BY <1>1, <1>2, <1>5, <1>6 DEF JournalTypes
<1> QED BY <1>1, <1>7, <1>8, <1>9 DEF Sound

LEMMA EndKeeps ==
  ASSUME NEW n, NEW f, Sound(n, f), EndTransaction
  PROVE  Sound(n, f)'
<1>1. /\ n \in Nat /\ n >= 1 /\ n <= MaxEvents /\ MaxEvents \in Nat /\ n \in Sequences
      /\ JournalTypes /\ Numbered(n) /\ Generations(n, f) /\ Knows(n, f) /\ Projected(n, f)
      /\ f \in [RecordId -> 0..n]
  BY JournalFacts DEF Sound
<1>2. /\ tx.pc = "body" /\ tx' = Idle
      /\ UNCHANGED <<journal, counter, checkpoint, prev, proj, memo, read, cut, torn>>
  BY DEF EndTransaction
<1>3. \A j \in RecordId \ torn : proj[j].seq = f[j]
  BY <1>2, PruningFacts
<1>4. tx' \in Transaction /\ tx'.pc = "idle" /\ tx'.by = NoProcess
  BY <1>1, <1>2, RecordFacts DEF Idle
<1>5. Numbered(n)' /\ Generations(n, f)'
  <2>1. \A q \in Process : memo'[q].repaired <= n
    BY <1>1, <1>2 DEF Numbered
  <2> QED BY <1>2, <1>4, <2>1, FilesStill
<1>6. Knows(n, f)' /\ Projected(n, f)'
  BY <1>2, <1>3, <1>4 DEF Knows, Projected, Reconciling
<1>7. JournalTypes'
  BY <1>1, <1>2, <1>4 DEF JournalTypes
<1> QED BY <1>1, <1>5, <1>6, <1>7 DEF Sound

LEMMA DiesKeeps ==
  ASSUME NEW n, NEW f, Sound(n, f), NEW p \in Process, Dies(p)
  PROVE  Sound(n, f)'
<1>1. /\ n \in Nat /\ n >= 1 /\ n <= MaxEvents /\ MaxEvents \in Nat /\ n \in Sequences
      /\ JournalTypes /\ Numbered(n) /\ Generations(n, f) /\ Knows(n, f) /\ Projected(n, f)
      /\ f \in [RecordId -> 0..n]
  BY JournalFacts DEF Sound
<1>2. /\ memo' = [memo EXCEPT ![p] = NoMemo]
      /\ tx' = IF tx.by = p THEN Idle ELSE tx
      /\ torn' = IF tx.by = p /\ tx.pc \in {"repair", "header"}
                 THEN torn \cup {k \in RecordId : proj[k].seq # tx.view[k].seq} ELSE torn
      /\ UNCHANGED <<journal, counter, checkpoint, prev, proj, read, cut>>
  BY DEF Dies
<1>3. /\ memo' \in [Process -> Memo]
      /\ memo'[p].repaired = 0
      /\ \A q \in Process : q # p => memo'[q] = memo[q]
  <2>1. NoMemo \in Memo /\ NoMemo.repaired = 0
    BY <1>1, RecordFacts DEF NoMemo
  <2> QED BY <1>1, <1>2, <2>1 DEF JournalTypes
<1>4. Unseen(n) => Unseen(n)'
  BY <1>1, <1>2, <1>3 DEF Unseen
<1>5. Numbered(n)' /\ Generations(n, f)'
  <2>1. \A q \in Process : memo'[q].repaired <= n
    BY <1>1, <1>3 DEF Numbered
  <2>2. tx'.pc = "checkpoint" => tx.pc = "checkpoint"
    BY <1>2 DEF Idle
  <2> QED BY <1>2, <2>1, <2>2, FilesStill
<1>6. CASE tx.by = p
  <2>1. tx' \in Transaction /\ tx'.pc = "idle" /\ tx'.by = NoProcess
    BY <1>1, <1>2, <1>6, RecordFacts DEF Idle
  <2>2. tx \in Transaction /\ tx.pc # "idle"
    BY <1>1, <1>6 DEF JournalTypes
  <2>3. ASSUME NEW k \in RecordId \ torn', proj[k].seq # f[k] PROVE f[k] = n /\ Unseen(n)
    <3>1. k \in RecordId \ torn
      BY <1>2, <2>3
    <3>2. CASE tx.pc \in {"repair", "header"}
      <4>1. tx.view[k].seq = f[k]
        BY <1>1, <3>2 DEF Knows, Reconciling
      <4> QED BY <1>2, <1>6, <2>3, <3>2, <4>1
    <3>3. CASE tx.pc \in {"count", "project"}
      BY <1>1, <2>3, <3>1, <3>3 DEF Knows, Projected
    <3>4. CASE tx.pc \notin {"repair", "header", "count", "project"}
      BY <1>1, <2>2, <2>3, <3>1, <3>4 DEF Projected
    <3> QED BY <3>2, <3>3, <3>4
  <2>4. Knows(n, f)'
    BY <2>1 DEF Knows, Reconciling
  <2>5. Projected(n, f)'
    BY <1>2, <1>4, <2>1, <2>3 DEF Projected
  <2>6. JournalTypes'
    <3>1. torn' \subseteq RecordId
      BY <1>1, <1>2 DEF JournalTypes
    <3> QED BY <1>1, <1>2, <1>3, <2>1, <3>1 DEF JournalTypes
  <2> QED BY <1>1, <1>5, <2>4, <2>5, <2>6 DEF Sound
<1>7. CASE tx.by # p
  <2>1. UNCHANGED <<tx, torn>>
    BY <1>2, <1>7
  <2>2. Knows(n, f)'
    <3>1. tx.pc = "checkpoint" => memo'[tx.by].pruned # Missing
      <4>1. tx.pc = "checkpoint" => tx.by \in Process
        BY <1>1 DEF JournalTypes, Transaction
      <4> QED BY <1>1, <1>3, <1>7, <4>1 DEF Knows
    <3>2. Older' = Older
      BY <1>2 DEF Older
    <3> QED BY <1>1, <1>2, <2>1, <3>1, <3>2 DEF Knows
  <2>3. Projected(n, f)'
    BY <1>1, <1>2, <1>4, <2>1 DEF Projected
  <2>4. JournalTypes'
    BY <1>1, <1>2, <1>3, <2>1 DEF JournalTypes
  <2> QED BY <1>1, <1>5, <2>2, <2>3, <2>4 DEF Sound
<1> QED BY <1>6, <1>7

LEMMA LoseCounterKeeps ==
  ASSUME NEW n, NEW f, Sound(n, f), LoseCounter
  PROVE  Sound(n, f)'
<1>1. /\ n \in Nat /\ n >= 1 /\ n <= MaxEvents /\ MaxEvents \in Nat /\ n \in Sequences
      /\ JournalTypes /\ Numbered(n) /\ Generations(n, f) /\ Knows(n, f) /\ Projected(n, f)
      /\ f \in [RecordId -> 0..n]
  BY JournalFacts DEF Sound
<1>2. /\ tx.pc = "idle" /\ counter' = Missing
      /\ UNCHANGED <<journal, checkpoint, prev, proj, memo, tx, read, cut, torn>>
  BY DEF LoseCounter, Idle
<1>3. Numbered(n)' /\ Generations(n, f)'
  <2>1. \A q \in Process : memo'[q].repaired <= n
    BY <1>1, <1>2 DEF Numbered
  <2> QED BY <1>2, <2>1, FilesStill
<1>4. Knows(n, f)'
  BY <1>2 DEF Knows, Reconciling
<1>5. Projected(n, f)'
  BY <1>1, <1>2 DEF Projected, Unseen
<1>6. JournalTypes'
  BY <1>1, <1>2 DEF JournalTypes
<1> QED BY <1>1, <1>3, <1>4, <1>5, <1>6 DEF Sound

LEMMA LoseCheckpointKeeps ==
  ASSUME NEW n, NEW f, Sound(n, f), ~LossDuringPrune, LoseCheckpoint
  PROVE  Sound(n, f)'
<1>1. /\ n \in Nat /\ n >= 1 /\ n <= MaxEvents /\ MaxEvents \in Nat /\ n \in Sequences
      /\ JournalTypes /\ Numbered(n) /\ Generations(n, f) /\ Knows(n, f) /\ Projected(n, f)
      /\ f \in [RecordId -> 0..n]
  BY JournalFacts DEF Sound
<1>2. /\ tx.pc = "idle" /\ ~cut /\ checkpoint' = NoCheckpoint
      /\ UNCHANGED <<journal, counter, prev, proj, memo, tx, read, cut, torn>>
  BY DEF LoseCheckpoint, Idle
<1>3. \A seq : Exists(seq)' <=> Exists(seq)
  BY <1>2 DEF Exists
<1>4. Numbered(n)'
  BY <1>1, <1>2, <1>3 DEF Numbered
<1>5. Generations(n, f)'
  <2>1. Correct(Older, n, f) /\ (prev # NoCheckpoint => prev.last \in 1..n)
    BY <1>1, <1>2 DEF Generations
  <2>2. Correct(Older, n, f)'
    BY <1>2, <1>3, <2>1 DEF Older, Correct
  <2> QED BY <1>2, <2>1, <2>2 DEF Generations
<1>6. Knows(n, f)'
  BY <1>2 DEF Knows, Reconciling
<1>7. Projected(n, f)'
  BY <1>1, <1>2 DEF Projected, Unseen
<1>8. NoCheckpoint \in Generation
  <2>1. NoCheckpoint.view \in Snapshot /\ 0 \in Count
    BY <1>1, RecordFacts DEF Count
  <2> QED BY <2>1 DEF NoCheckpoint, Generation
<1>9. JournalTypes'
  BY <1>1, <1>2, <1>8 DEF JournalTypes
<1> QED BY <1>1, <1>4, <1>5, <1>6, <1>7, <1>9 DEF Sound

-----------------------------------------------------------------------------
(* The behaviours *)

\* A step appends one event, or leaves the log as it is and may hand it to its caller.
LEMMA StepKeeps ==
  ASSUME NEW n, NEW f, Sound(n, f), ~LossDuringPrune, [JournalNext]_journalVars
  PROVE  \/ Sound(n, f)' /\ (UNCHANGED read \/ read' = [last |-> n, latest |-> f])
         \/ \E kind \in Kinds : Sound(n + 1, Appended(n, f, kind))' /\ UNCHANGED read
<1>1. CASE UNCHANGED journalVars
  <2>1. UNCHANGED <<journal, counter, checkpoint, prev, proj, memo, tx, cut, torn, read>>
    BY <1>1 DEF journalVars
  <2>2. \A seq : Exists(seq)' <=> Exists(seq)
    BY <2>1 DEF Exists
  <2>3. JournalTypes' /\ Numbered(n)'
    BY <2>1, <2>2, JournalFacts DEF JournalTypes, Numbered
  <2>4. Generations(n, f)'
    BY <2>1, <2>2, JournalFacts DEF Generations, Correct, Older
  <2>5. Knows(n, f)' /\ Projected(n, f)'
    BY <2>1, JournalFacts DEF Knows, Older, Projected, Unseen
  <2> QED BY <2>1, <2>3, <2>4, <2>5 DEF Sound
<1>2. ASSUME NEW p \in Process, BeginTransaction(p) PROVE Sound(n, f)' /\ UNCHANGED read
  BY <1>2, BeginKeeps DEF BeginTransaction
<1>3. ASSUME NEW p \in Process, PruneFile(p) PROVE Sound(n, f)' /\ UNCHANGED read
  BY <1>3, PruneFileKeeps DEF PruneFile
<1>4. ASSUME NEW p \in Process, RotateCheckpoint(p) PROVE Sound(n, f)' /\ UNCHANGED read
  BY <1>4, RotateCheckpointKeeps DEF RotateCheckpoint
<1>5. ASSUME NEW p \in Process, WriteCheckpoint(p) PROVE Sound(n, f)' /\ UNCHANGED read
  BY <1>5, WriteCheckpointKeeps DEF WriteCheckpoint
<1>6. ASSUME NEW p \in Process, Reconciled(p)
      PROVE  Sound(n, f)' /\ read' = [last |-> n, latest |-> f]
  BY <1>6, ReconciledKeeps
<1>7. ASSUME NEW p \in Process, Dies(p) PROVE Sound(n, f)' /\ UNCHANGED read
  BY <1>7, DiesKeeps DEF Dies
<1>8. ASSUME NEW k \in RecordId, RepairFile(k) PROVE Sound(n, f)' /\ UNCHANGED read
  BY <1>8, RepairFileKeeps DEF RepairFile
<1>9. ASSUME NEW k \in RecordId, FixHeader(k) PROVE Sound(n, f)' /\ UNCHANGED read
  BY <1>9, FixHeaderKeeps DEF FixHeader
<1>10. ASSUME NEW k \in RecordId, WriteProjection(k) PROVE Sound(n, f)' /\ UNCHANGED read
  BY <1>10, WriteProjectionKeeps DEF WriteProjection
<1>11. ASSUME NEW k \in RecordId, RenewLease(k) PROVE Sound(n, f)' /\ UNCHANGED read
  BY <1>11, RenewLeaseKeeps DEF RenewLease
<1>12. ASSUME NEW kind \in Kinds, AppendJournal(kind)
       PROVE  Sound(n + 1, Appended(n, f, kind))' /\ UNCHANGED read
  BY <1>12, AppendKeeps DEF AppendJournal
<1>13. ASSUME WriteCounter PROVE Sound(n, f)' /\ UNCHANGED read
  BY <1>13, WriteCounterKeeps DEF WriteCounter
<1>14. ASSUME EndTransaction PROVE Sound(n, f)' /\ UNCHANGED read
  BY <1>14, EndKeeps DEF EndTransaction
<1>15. ASSUME LoseCounter PROVE Sound(n, f)' /\ UNCHANGED read
  BY <1>15, LoseCounterKeeps DEF LoseCounter
<1>16. ASSUME LoseCheckpoint PROVE Sound(n, f)' /\ UNCHANGED read
  BY <1>16, LoseCheckpointKeeps DEF LoseCheckpoint
<1> QED
  BY <1>1, <1>2, <1>3, <1>4, <1>5, <1>6, <1>7, <1>8, <1>9, <1>10, <1>11, <1>12, <1>13, <1>14,
     <1>15, <1>16 DEF JournalNext

\* The log of a new instance.
First == [k \in RecordId |-> 1]

LEMMA JournalStarts ==
  ASSUME JournalInit
  PROVE  Sound(1, First)
<1>1. /\ journal = [seq \in Sequences |-> IF seq = 1 THEN Creation ELSE NoEvent]
      /\ counter = 1 /\ checkpoint = NoCheckpoint /\ prev = NoCheckpoint
      /\ proj = [k \in RecordId |-> Written(1, NoEvent)]
      /\ memo = [p \in Process |-> NoMemo]
      /\ tx = Idle /\ cut = FALSE /\ torn = {}
  BY DEF JournalInit
<1>2. /\ MaxEvents \in Nat /\ 1 <= MaxEvents /\ 1 \in Sequences /\ 1 \in Count /\ 0 \in Count /\ 0 \in 0..MaxBeats
      /\ Creation # NoEvent /\ Creation.keys = RecordId
  BY DEF Sequences, Count, Creation, NoEvent
<1>3. Written(0, NoEvent) \in Record /\ Written(1, NoEvent) \in Record /\ Written(1, NoEvent).seq = 1
  BY <1>2 DEF Written, NoEvent, Record
<1>4. Snapshot = [RecordId -> Record]
  BY DEF Snapshot, Record, Count
<1>5. NoCheckpoint.view \in Snapshot /\ NoCheckpoint \in Generation
  BY <1>2, <1>3, <1>4 DEF NoCheckpoint, Generation
<1>6. Idle \in Transaction /\ NoMemo \in Memo /\ NoMemo.repaired = 0
  BY <1>2, <1>5 DEF Idle, Transaction, Phase, NoMemo, Memo
<1>7. JournalTypes
  <2>1. journal \in [Sequences -> Event]
    BY <1>1 DEF Event
  <2>2. proj \in Snapshot
    BY <1>1, <1>3, <1>4
  <2>3. tx.pc = "idle" /\ tx.by = NoProcess
    BY <1>1 DEF Idle
  <2>4. counter \in {Missing} \cup 1..MaxEvents
    BY <1>1, <1>2
  <2>5. memo \in [Process -> Memo] /\ tx \in Transaction
    BY <1>1, <1>6
  <2>6. checkpoint \in Generation /\ prev \in Generation /\ torn \subseteq RecordId /\ cut \in BOOLEAN
    BY <1>1, <1>5
  <2> QED BY <2>1, <2>2, <2>3, <2>4, <2>5, <2>6 DEF JournalTypes
<1>8. First \in [RecordId -> 0..1]
  BY DEF First
<1>9. \A seq : Exists(seq) <=> seq = 1
  BY <1>1, <1>2 DEF Exists
<1>10. Numbered(1)
  BY <1>1, <1>2, <1>6, <1>9 DEF Numbered
<1>11. Generations(1, First)
  <2>1. Older.last = 0
    BY <1>1 DEF Older, NoCheckpoint
  <2>2. \A seq \in (0 + 1)..1 : seq = 1
    OBVIOUS
  <2>3. \A k \in RecordId : First[k] = 1 /\ k \in journal[1].keys
    BY <1>1, <1>2 DEF First
  <2>4. Correct(Older, 1, First)
    BY <1>9, <2>1, <2>2, <2>3 DEF Correct
  <2> QED BY <1>1, <2>4 DEF Generations
<1>12. Knows(1, First)
  BY <1>1 DEF Knows, Idle, Reconciling
<1>13. Projected(1, First)
  BY <1>1, <1>3 DEF Projected, Idle, First
<1> QED BY <1>2, <1>7, <1>8, <1>10, <1>11, <1>12, <1>13 DEF Sound

LEMMA JournalInvariant == ~LossDuringPrune /\ JournalSpec => []JournalInv
<1>1. ~LossDuringPrune /\ JournalInit => JournalInv
  <2> SUFFICES ASSUME ~LossDuringPrune, JournalInit PROVE JournalInv
    OBVIOUS
  <2>1. Sound(1, First) /\ First \in [RecordId -> 0..1] /\ 1 \in Nat
    BY JournalStarts DEF First
  <2> QED BY <2>1 DEF JournalInv
<1>2. JournalInv /\ [JournalNext]_journalVars => JournalInv'
  <2> SUFFICES ASSUME JournalInv, [JournalNext]_journalVars PROVE JournalInv'
    OBVIOUS
  <2>1. ~LossDuringPrune
    BY DEF JournalInv
  <2>2. PICK n \in Nat : \E f \in [RecordId -> 0..n] : Sound(n, f)
    BY DEF JournalInv
  <2>3. PICK f \in [RecordId -> 0..n] : Sound(n, f)
    BY <2>2
  <2>4. CASE Sound(n, f)'
    BY <2>1, <2>4 DEF JournalInv
  <2>5. ASSUME NEW kind \in Kinds, Sound(n + 1, Appended(n, f, kind))' PROVE JournalInv'
    <3>1. n + 1 \in Nat /\ Appended(n, f, kind) \in [RecordId -> 0..(n + 1)]
      BY DEF Appended
    <3> QED BY <2>1, <2>5, <3>1 DEF JournalInv
  <2> QED BY <2>1, <2>3, <2>4, <2>5, StepKeeps
<1> QED BY <1>1, <1>2, PTL DEF JournalSpec

\* Whatever dies, and whichever one of the counter and the checkpoint is lost between two
\* transactions, the next transaction can read the log (readJournalRangeLocked never meets
\* a gap), and before it acts the projections are what the log says, but for those a
\* process died over while it repaired them.  The checkpoint is not lost while a pruning
\* that a death cut short is unfinished: then the journal cannot be read again.
THEOREM FilesAreRecoverable == ~LossDuringPrune /\ JournalSpec => []JournalSound
<1>1. JournalInv => JournalSound
  <2> SUFFICES ASSUME NEW n \in Nat, NEW f \in [RecordId -> 0..n], Sound(n, f) PROVE JournalSound
    BY DEF JournalInv
  <2>1. Readable /\ LatestOf(Replayed) = f
    BY ReplayIs
  <2>2. tx.pc = "body" => \A k \in RecordId \ torn : proj[k].seq = f[k]
    BY PruningFacts
  <2> QED BY <2>1, <2>2 DEF JournalSound, Recoverable, ProjectionsCurrent
<1> QED BY <1>1, JournalInvariant, PTL

\* The files are a log.  A journal file is the event, with the number after the last, and
\* whatever else is written, pruned or lost, no event disappears and none is counted twice;
\* and what a reconciliation gives to its caller is the log as it stands.
THEOREM FilesAreALog == ~LossDuringPrune /\ JournalSpec => LogImplemented
<1>1. \A m, g : Sound(m, g) => LastSequence = m /\ LatestOf(Replayed) = g
  BY LastIs, ReplayIs
<1>2. (\A m, g : Sound(m, g) => LastSequence = m /\ LatestOf(Replayed) = g)'
  BY <1>1, PTL
<1>3. JournalInit => Log!LogInit
  <2> SUFFICES ASSUME JournalInit PROVE Log!LogInit
    OBVIOUS
  <2>1. LastSequence = 1 /\ LatestOf(Replayed) = First
    BY <1>1, JournalStarts
  <2> QED BY <2>1 DEF JournalInit, Log!LogInit, Log!Creation, First
<1>4. JournalInv /\ [JournalNext]_journalVars
        => [Log!LogNext]_<<LastSequence, LatestOf(Replayed), read>>
  <2> SUFFICES ASSUME JournalInv, [JournalNext]_journalVars
               PROVE  [Log!LogNext]_<<LastSequence, LatestOf(Replayed), read>>
    OBVIOUS
  <2>1. ~LossDuringPrune
    BY DEF JournalInv
  <2>2. PICK n \in Nat : \E f \in [RecordId -> 0..n] : Sound(n, f)
    BY DEF JournalInv
  <2>3. PICK f \in [RecordId -> 0..n] : Sound(n, f)
    BY <2>2
  <2>4. LastSequence = n /\ LatestOf(Replayed) = f
    BY <1>1, <2>3
  <2>5. CASE Sound(n, f)' /\ (UNCHANGED read \/ read' = [last |-> n, latest |-> f])
    <3>1. LastSequence' = n /\ LatestOf(Replayed)' = f
      BY <1>2, <2>5
    <3> QED BY <2>4, <2>5, <3>1 DEF Log!LogNext, Log!ReadLog
  <2>6. ASSUME NEW kind \in Kinds, Sound(n + 1, Appended(n, f, kind))', UNCHANGED read
        PROVE  Log!AppendEvent(kind)
    <3>1. LastSequence' = n + 1 /\ LatestOf(Replayed)' = Appended(n, f, kind)
      BY <1>2, <2>6
    <3> QED BY <2>4, <2>6, <3>1 DEF Log!AppendEvent, Appended
  <2> QED BY <2>1, <2>3, <2>5, <2>6, StepKeeps DEF Log!LogNext
<1> QED BY <1>3, <1>4, JournalInvariant, PTL DEF JournalSpec, LogImplemented, Log!LogSpec

-----------------------------------------------------------------------------
(* The types of the three *)

LockFile == [by: Proc \cup {Nobody}, written: BOOLEAN, age: 0..StaleBeats + 1, exists: BOOLEAN]

LEMMA LockFileFacts ==
  /\ NoFile \in LockFile
  /\ \A p \in Proc : [by |-> p, written |-> FALSE, age |-> 0, exists |-> TRUE] \in LockFile
  /\ \A was \in LockFile :
       /\ [was EXCEPT !.written = TRUE, !.age = 0] \in LockFile
       /\ [was EXCEPT !.age = 0] \in LockFile
       /\ [was EXCEPT !.by = Nobody] \in LockFile
       /\ [was EXCEPT !.age = IF was.exists THEN Passing(was.age) ELSE was.age] \in LockFile
<1>1. 0 \in 0..StaleBeats + 1 /\ \A n \in 0..StaleBeats + 1 : Passing(n) \in 0..StaleBeats + 1
  BY DEF StaleBeats, Passing
<1> QED BY <1>1 DEF LockFile, NoFile

\* A step of one process, to a place where no timer of its own need run.
LEMMA MovesOn ==
  ASSUME TypeOK, NEW p \in Proc, NEW to \in {"idle"} \cup Waiting \cup Holding, pc[p] # "fn",
         pc' = [pc EXCEPT ![p] = to], file' \in LockFile, silent' \in [Proc -> 0..StaleBeats + 1],
         calls' \in [Proc -> 0..MaxCalls], crashes' \in 0..MaxCrashes, UNCHANGED beat
  PROVE  TypeOK'
<1>1. pc' \in [Proc -> {"idle"} \cup Waiting \cup Holding]
  BY DEF TypeOK
<1>2. \A q \in Proc : beat'[q] \in {"on", "lost"} => pc'[q] = "fn"
  BY DEF TypeOK
<1> QED BY <1>1, <1>2 DEF TypeOK, LockFile

LEMMA LockTyped == Spec => []TypeOK
<1>1. Init => TypeOK
  BY LockAssumption DEF Init, TypeOK, NoFile, StaleBeats, Waiting, Holding
<1>2. TypeOK /\ [Next]_vars => TypeOK'
  <2> SUFFICES ASSUME TypeOK, [Next]_vars PROVE TypeOK'
    OBVIOUS
  <2>1. /\ file \in LockFile /\ 0 \in 0..StaleBeats + 1 /\ pc \in [Proc -> {"idle"} \cup Waiting \cup Holding]
        /\ silent \in [Proc -> 0..StaleBeats + 1] /\ calls \in [Proc -> 0..MaxCalls] /\ crashes \in 0..MaxCrashes
        /\ {"idle", "open", "stat", "rename", "poll", "write", "fn", "read", "unlink"}
             = {"idle"} \cup Waiting \cup Holding
    BY DEF TypeOK, LockFile, StaleBeats, Waiting, Holding
  <2>2. ASSUME NEW p \in Proc, Call(p) PROVE TypeOK'
    <3>1. calls' \in [Proc -> 0..MaxCalls]
      BY <2>1, <2>2, LockAssumption DEF Call
    <3> QED BY <2>1, <2>2, <3>1, MovesOn DEF Call, Go
  <2>3. ASSUME NEW p \in Proc, Open(p) PROVE TypeOK'
    <3>1. /\ file' \in LockFile /\ silent' \in [Proc -> 0..StaleBeats + 1]
          /\ UNCHANGED <<beat, calls, crashes>> /\ pc[p] = "open"
          /\ \E to \in {"stat", "write"} : pc' = [pc EXCEPT ![p] = to]
      <4>1. CASE file.exists
        BY <2>1, <2>3, <4>1 DEF Open, Go
      <4>2. CASE ~file.exists
        BY <2>1, <2>3, <4>2, LockFileFacts DEF Open, Go
      <4> QED BY <4>1, <4>2
    <3> QED BY <2>1, <3>1, MovesOn
  <2>4. ASSUME NEW p \in Proc, WriteToken(p) PROVE TypeOK'
    <3>1. file' \in LockFile /\ silent' \in [Proc -> 0..StaleBeats + 1] /\ UNCHANGED <<calls, crashes>>
      BY <2>1, <2>4, LockFileFacts DEF WriteToken
    <3>2. pc' \in [Proc -> {"idle"} \cup Waiting \cup Holding] /\ pc'[p] = "fn"
          /\ \A q \in Proc : q # p => pc'[q] = pc[q]
      BY <2>1, <2>4 DEF WriteToken, Go
    <3>3. beat' \in [Proc -> {"off", "on", "touch", "lost"}] /\ \A q \in Proc : q # p => beat'[q] = beat[q]
      BY <2>4 DEF WriteToken, TypeOK
    <3> QED BY <2>1, <3>1, <3>2, <3>3 DEF TypeOK, LockFile
  <2>5. ASSUME NEW p \in Proc, WriteFails(p) \/ Stat(p) \/ Rename(p) \/ Poll(p) \/ ReleaseReads(p) \/ Unlink(p)
        PROVE  TypeOK'
    <3>1. /\ pc[p] # "fn" /\ file' \in LockFile /\ UNCHANGED <<beat, silent, calls, crashes>>
          /\ \E to \in {"idle", "open", "stat", "rename", "poll", "write", "fn", "read", "unlink"} :
               pc' = [pc EXCEPT ![p] = to]
      BY <2>1, <2>5, LockFileFacts DEF WriteFails, Stat, Rename, Poll, ReleaseReads, Unlink, Go
    <3> QED BY <2>1, <3>1, MovesOn
  <2>6. ASSUME NEW p \in Proc, BeatReads(p) PROVE TypeOK'
    BY <2>6 DEF BeatReads, TypeOK
  <2>7. ASSUME NEW p \in Proc, BeatTouches(p) PROVE TypeOK'
    <3>1. file' \in LockFile /\ silent' \in [Proc -> 0..StaleBeats + 1]
      BY <2>1, <2>7, LockFileFacts DEF BeatTouches, Touched
    <3> QED BY <2>7, <3>1 DEF BeatTouches, TypeOK, LockFile
  <2>8. ASSUME NEW p \in Proc, FnEnds(p) PROVE TypeOK'
    BY <2>8 DEF FnEnds, Go, TypeOK, Holding
  <2>9. ASSUME NEW p \in Proc, Crash(p) PROVE TypeOK'
    <3>1. crashes' \in 0..MaxCrashes
      BY <2>1, <2>9, LockAssumption DEF Crash
    <3>2. file' \in LockFile
      BY <2>1, <2>9, LockFileFacts DEF Crash
    <3> QED BY <2>9, <3>1, <3>2 DEF Crash, TypeOK, LockFile
  <2>10. ASSUME TimePasses PROVE TypeOK'
    <3>1. \A n \in 0..StaleBeats + 1 : Passing(n) \in 0..StaleBeats + 1
      BY DEF Passing, StaleBeats
    <3>2. file' \in LockFile
      BY <2>1, <2>10, LockFileFacts DEF TimePasses
    <3>3. silent' \in [Proc -> 0..StaleBeats + 1]
      BY <2>1, <2>10, <3>1 DEF TimePasses
    <3> QED BY <2>10, <3>2, <3>3 DEF TimePasses, TypeOK, LockFile
  <2>11. CASE UNCHANGED vars
    BY <2>11 DEF vars, TypeOK
  <2> QED
    BY <2>2, <2>3, <2>4, <2>5, <2>6, <2>7, <2>8, <2>9, <2>10, <2>11 DEF Next, Acquire, Release, Beat
<1> QED BY <1>1, <1>2, PTL DEF Spec

\* Every file keeps its type, and as long as the checkpoint is not lost while a pruning is
\* unfinished the counter never leaves the numbers of the events.
THEOREM FilesTyped == ~LossDuringPrune /\ FilesSpec => []FilesTypeOK
<1>1. FilesInit => JournalInit /\ HistoryInit /\ Init
  BY DEF FilesInit
<1>2. [FilesNext]_<<focus, journalVars, historyVars, vars>>
        => [JournalNext]_journalVars /\ [HistoryNext]_historyVars /\ [Next]_vars
  BY DEF FilesNext
<1>3. JournalInv => JournalTypeOK
  <2> SUFFICES ASSUME JournalTypes PROVE JournalTypeOK
    BY JournalFacts DEF JournalInv
  <2> QED BY DEF JournalTypes, JournalTypeOK, Generation, Memo, Transaction, Event, Count
<1>4. ~LossDuringPrune /\ FilesSpec => []JournalInv /\ []HistoryTypeOK /\ []TypeOK
  BY <1>1, <1>2, JournalInvariant, HistoryTyped, LockTyped, PTL
  DEF FilesSpec, JournalSpec, HistorySpec, Spec
<1> QED BY <1>3, <1>4, PTL DEF FilesTypeOK
=============================================================================
