--------------------------- MODULE SubAgentProofs ---------------------------
(***************************************************************************)
(* The seats, the budget and the lineages of a bridge (SubAgents), for any *)
(* number of tasks, any limits, and any order of spawns, cancellations,    *)
(* retries, failures, disposal and restarts.                               *)
(*                                                                         *)
(* What AdmissionHolds leaves out is who will act next on a task: whoever  *)
(* posted an operation to the chain of its record waits for it             *)
(* (ChainSound); a task is in the queue, with the drain or with a runner   *)
(* (PlaceSound, DrainSound); a runner without a seat was aborted before it *)
(* submitted its session (RunnerSound); and a reservation has somebody who *)
(* will settle it (BudgetSound).                                           *)
(***************************************************************************)
EXTENDS SubAgents, SequenceTheorems, FiniteSetTheorems, TLAPS

\* The parts of the invariant.
Endings == {"ending", "done", "failed", "unwinding"}
RunnerPlaces == {"none", "made", "starting", "begun", "works", "gone"} \cup Endings
Operations == {"queued", "running"} \cup Callers \cup Ended
Calls == {"none", "called", "posted", "won", "late"}
Price(l) == 0..l.dearest
AgentTypes ==
  /\ record \in [Task -> [status : {"none", "queued", "running"} \cup Ended, cost : Price(limits)]]
  /\ writeChain \in [Task -> Seq(Operations)]
  /\ spawn \in [Task -> [at : {"none", "admitted", "written", "queued", "refused"},
                         attempt : 0..RetryLimit, of : Task \cup {NoTask}]]
  /\ runner \in [Task -> [at : RunnerPlaces, aborted : BOOLEAN, named : BOOLEAN, cost : Price(limits)]]
  /\ cancel \in [Task -> [Callers -> Calls]]
  /\ retry \in [Task -> {"none", "reads", "timer", "closed"}]
  /\ drain \in [at : {"off", "loop", "reads", "cancels", "marks"}, task : Task \cup {NoTask}]
  /\ budget \in [reserved : SUBSET Task, settled : SUBSET Task, spent : Nat]
  /\ {queuedStarts, signalled, active, lost} \subseteq SUBSET Task
  /\ lineage \in Task \cup {NoTask} /\ bridge \in {"open", "closing", "closed"} /\ limits \in Limits

Live(t) == runner[t].at \notin {"none", "gone"}
Posted(t) == \E c \in Callers : cancel[t][c] \in {"posted", "won", "late"}

\* Two operations of a kind are never in a chain together, and its poster waits for each.
Kind(op) == IF op \in Ended THEN "outcome" ELSE op
Distinct(s) == \A i, k \in DOMAIN s : Kind(s[i]) = Kind(s[k]) => i = k
Waits(t, op) ==
  /\ op = "queued" => spawn[t].at = "admitted"
  /\ op = "running" => runner[t].at = "starting"
  /\ op \in Ended => runner[t].at = "ending"
  /\ op \in Callers => cancel[t][op] = "posted"
ChainSound(t) ==
  Distinct(writeChain[t]) /\ \A i \in DOMAIN writeChain[t] : Waits(t, writeChain[t][i])

\* Before its record is written a task is nowhere; with a runner it has left the queue.
PlaceSound(t) ==
  /\ spawn[t].at # "queued" =>
       /\ t \notin queuedStarts /\ runner[t].at = "none"
       /\ \A c \in Callers : cancel[t][c] = "none"
  /\ runner[t].at # "none" => t \notin queuedStarts
  /\ runner[t].at = "none" => ~runner[t].aborted
  /\ t \in active => Live(t)
  /\ Posted(t) => t \notin queuedStarts

\* A runner without a seat was aborted before its session was submitted.
RunnerSound(t) ==
  Live(t) =>
    /\ bridge # "open" => runner[t].aborted
    /\ bridge # "closed" /\ (t \notin active \/ Posted(t)) => runner[t].aborted /\ runner[t].at # "works"

\* What is reserved, and who will settle it.
BudgetSound(t) ==
  /\ t \in budget.reserved => /\ t \notin budget.settled /\ t \notin Internal
                              /\ spawn[t].at \in {"admitted", "written", "queued"}
  /\ t \in budget.settled => spawn[t].at = "queued"
  /\ bridge # "closed" /\ t \notin Internal /\ spawn[t].at \in {"admitted", "written", "queued"}
       => t \in budget.reserved \cup budget.settled
  /\ t \in budget.reserved \ lost =>
       /\ \/ spawn[t].at \in {"admitted", "written"} \/ t \in queuedStarts
          \/ Live(t) \/ Posted(t)
       /\ record[t].status \in Ended => Live(t) \/ Posted(t)

\* What is retried was queued, and its attempts are counted.
RetrySound(t) ==
  /\ retry[t] # "none" => spawn[t].at = "queued"
  /\ retry[t] = "timer" => spawn[t].attempt < RetryLimit

TaskSound(t) == ChainSound(t) /\ PlaceSound(t) /\ RunnerSound(t) /\ BudgetSound(t) /\ RetrySound(t)

\* What the drain has in hand.
DrainSound ==
  /\ drain.at \in {"reads", "cancels", "marks"} => drain.task \in Task /\ spawn[drain.task].at = "queued"
  /\ drain.at = "reads" =>
       /\ drain.task \in signalled \/ (drain.task \in queuedStarts /\ bridge = "open")
       /\ runner[drain.task].at = "none"
       /\ Cardinality(active) < limits.slots
       /\ limits.related => lineage = NoTask
  /\ drain.at = "marks" => runner[drain.task].at = "made"

Seated == Outstanding \ (Internal \cup {t \in Task : runner[t].aborted})
SeatsSound ==
  /\ IsFiniteSet(active) /\ Cardinality(active) <= limits.slots
  /\ IsFiniteSet(Outstanding)
  /\ bridge = "open" => Cardinality(Seated) <= limits.slots + limits.waiting
PurseSound ==
  /\ IsFiniteSet(budget.reserved)
  /\ bridge = "open" =>
       budget.spent + Cardinality(budget.reserved) * limits.dearest <= limits.total * limits.dearest
LineageSound ==
  limits.related =>
    /\ bridge # "closed" => \A t \in Task : Live(t) => lineage = t
    /\ \A t, u \in Task : runner[t].at = "works" /\ runner[u].at = "works" => t = u

AgentInv ==
  /\ AgentTypes /\ (\A t \in Task : TaskSound(t)) /\ DrainSound
  /\ SeatsSound /\ PurseSound /\ LineageSound

-----------------------------------------------------------------------------
LEMMA LimitTypes ==
  ASSUME AgentTypes
  PROVE  /\ limits.slots \in Nat \ {0} /\ limits.waiting \in Nat /\ limits.total \in Nat
         /\ limits.gates \subseteq Task /\ limits.related \in BOOLEAN
         /\ limits.dearest \in Nat \ {0} /\ limits.costs \subseteq Price(limits) /\ 0 \in Price(limits)
         /\ \A cost \in Price(limits) : cost \in Nat /\ cost <= limits.dearest
<1>1. limits \in Limits
  BY DEF AgentTypes
<1>2. /\ limits.slots \in Nat \ {0} /\ limits.waiting \in Nat /\ limits.total \in Nat
      /\ limits.gates \subseteq Task /\ limits.related \in BOOLEAN /\ limits.dearest \in Nat \ {0}
  BY <1>1, SubAgentAssumption DEF SubAgentAssumption
<1>3. limits.costs \subseteq Price(limits)
  BY <1>1, SubAgentAssumption DEF SubAgentAssumption, Price
<1> QED BY <1>2, <1>3 DEF Price

\* The arithmetic of the purse, in which D is what the dearest session costs.  Fewer shares
\* are promised; one more share is; a share is settled for what its session cost.
LEMMA FewerShares ==
  ASSUME NEW D \in Nat, NEW m \in Nat, NEW n \in Nat, m <= n
  PROVE  m * D \in Nat /\ n * D \in Nat /\ m * D <= n * D
<1>1. m * D \in Nat /\ n * D \in Nat
  OBVIOUS
<1>2. PICK k \in Nat : n = m + k
  <2>1. n - m \in Nat /\ n = m + (n - m)
    OBVIOUS
  <2> QED BY <2>1
<1>3. n * D = m * D + k * D /\ k * D \in Nat
  BY <1>2
<1> QED BY <1>1, <1>3

LEMMA ShareMore ==
  ASSUME NEW D \in Nat \ {0}, NEW n \in Nat
  PROVE  (n + 1) * D = n * D + D /\ n * D \in Nat /\ n <= n * D
<1>1. (n + 1) * D = n * D + D /\ n * D \in Nat
  OBVIOUS
<1>2. D - 1 \in Nat /\ n * (D - 1) \in Nat
  OBVIOUS
<1>3. n * D = n + n * (D - 1)
  BY <1>2
<1> QED BY <1>1, <1>2, <1>3

LEMMA NothingPromised ==
  ASSUME NEW D \in Nat, NEW total \in Nat
  PROVE  0 + 0 * D <= total * D
<1>1. 0 * D <= total * D
  BY FewerShares
<1>2. 0 * D \in Nat /\ total * D \in Nat
  OBVIOUS
<1> QED BY <1>1, <1>2

LEMMA SharePromised ==
  ASSUME NEW D \in Nat \ {0}, NEW spent \in Nat, NEW n \in Nat, NEW total \in Nat, spent + n + 1 <= total
  PROVE  spent + (n + 1) * D <= total * D
<1>1. total - (n + 1) \in Nat /\ spent <= total - (n + 1)
  OBVIOUS
<1> DEFINE rest == total - (n + 1)
<1>2. rest <= rest * D /\ rest * D \in Nat
  BY <1>1, ShareMore
<1>3. total * D = rest * D + (n + 1) * D
  BY <1>1
<1>4. rest \in Nat /\ spent <= rest /\ (n + 1) * D \in Nat /\ total * D \in Nat
  BY <1>1
<1> HIDE DEF rest
<1> QED BY <1>2, <1>3, <1>4

LEMMA FewerTasks ==
  ASSUME NEW S, IsFiniteSet(S), NEW T, T \subseteq S
  PROVE  /\ IsFiniteSet(T) /\ Cardinality(T) <= Cardinality(S)
         /\ Cardinality(T) \in Nat /\ Cardinality(S) \in Nat
<1>1. IsFiniteSet(T) /\ Cardinality(T) <= Cardinality(S)
  BY FS_Subset
<1> QED BY <1>1, FS_CardinalityType

LEMMA OneTaskMore ==
  ASSUME NEW S, IsFiniteSet(S), NEW x, NEW T, T \subseteq S \cup {x}
  PROVE  /\ IsFiniteSet(T) /\ Cardinality(T) <= Cardinality(S) + 1
         /\ Cardinality(T) \in Nat /\ Cardinality(S) \in Nat
<1>1. /\ IsFiniteSet(S \cup {x}) /\ Cardinality(S) \in Nat
      /\ (Cardinality(S \cup {x}) = Cardinality(S) \/ Cardinality(S \cup {x}) = Cardinality(S) + 1)
  BY FS_AddElement, FS_CardinalityType
<1>2. IsFiniteSet(T) /\ Cardinality(T) <= Cardinality(S \cup {x}) /\ Cardinality(T) \in Nat
  BY <1>1, FewerTasks
<1> QED BY <1>1, <1>2

\* What a task is to the parts of the bridge, and a task of which nothing changes.
Held(t) == t \in active \/ t \in queuedStarts \/ spawn[t].at \in {"admitted", "written"}
InSeat(t) == Held(t) /\ t \notin Internal /\ ~runner[t].aborted
SameTask(t) ==
  /\ spawn'[t] = spawn[t] /\ runner'[t] = runner[t] /\ cancel'[t] = cancel[t]
  /\ writeChain'[t] = writeChain[t] /\ record'[t] = record[t] /\ retry'[t] = retry[t]
  /\ t \in queuedStarts' <=> t \in queuedStarts
  /\ t \in active' <=> t \in active
  /\ t \in budget'.reserved <=> t \in budget.reserved
  /\ t \in budget'.settled <=> t \in budget.settled
  /\ t \in lost => t \in lost'

LEMMA TaskStays ==
  ASSUME NEW t \in Task, TaskSound(t), SameTask(t), bridge' = bridge, limits' = limits
  PROVE  TaskSound(t)'
<1>1. ChainSound(t)'
  BY DEF TaskSound, RetrySound, ChainSound, Waits, SameTask
<1>2. (Live(t)' <=> Live(t)) /\ (Posted(t)' <=> Posted(t))
  BY DEF Live, Posted, SameTask
<1>3. PlaceSound(t)'
  BY <1>2 DEF TaskSound, RetrySound, PlaceSound, SameTask
<1>4. RunnerSound(t)'
  BY <1>2 DEF TaskSound, RetrySound, RunnerSound, SameTask
<1>5. BudgetSound(t)'
  BY <1>2 DEF TaskSound, RetrySound, BudgetSound, SameTask, Internal
<1> QED BY <1>1, <1>3, <1>4, <1>5 DEF TaskSound, RetrySound, SameTask

LEMMA SeatsStay ==
  ASSUME AgentTypes, AgentTypes', SeatsSound, limits' = limits, active' \subseteq active,
         bridge' = "open" => bridge = "open",
         \A t \in Task : Held(t)' => Held(t),
         bridge' = "open" => \A t \in Task : InSeat(t)' => InSeat(t)
  PROVE  SeatsSound'
<1>1. Outstanding' \subseteq Outstanding
  BY DEF Outstanding, Held, AgentTypes
<1>2. ASSUME bridge' = "open" PROVE Seated' \subseteq Seated
  <2> SUFFICES ASSUME NEW t \in Seated' PROVE t \in Seated
    OBVIOUS
  <2>1. t \in Task /\ InSeat(t)'
    BY DEF Seated, Outstanding, InSeat, Held, AgentTypes, Internal
  <2>2. InSeat(t)
    BY <1>2, <2>1
  <2> QED BY <2>1, <2>2 DEF Seated, Outstanding, InSeat, Held, Internal
<1>3. Seated \subseteq Outstanding /\ IsFiniteSet(Outstanding) /\ IsFiniteSet(active)
  BY DEF Seated, SeatsSound
<1>4. IsFiniteSet(Seated)
  BY <1>3, FewerTasks
<1>5. /\ IsFiniteSet(active') /\ Cardinality(active') <= Cardinality(active)
      /\ Cardinality(active') \in Nat /\ Cardinality(active) \in Nat
  BY <1>3, FewerTasks
<1>6. IsFiniteSet(Outstanding')
  BY <1>1, <1>3, FewerTasks
<1>7. bridge' = "open" => /\ Cardinality(Seated') <= Cardinality(Seated)
                          /\ Cardinality(Seated') \in Nat /\ Cardinality(Seated) \in Nat
  BY <1>2, <1>4, FewerTasks
<1> QED BY <1>5, <1>6, <1>7, LimitTypes DEF SeatsSound

LEMMA LineageStays ==
  ASSUME LineageSound, limits' = limits, lineage' = lineage, bridge' # "closed" => bridge # "closed",
         \A t \in Task : (Live(t)' => Live(t)) /\ (runner'[t].at = "works" => runner[t].at = "works")
  PROVE  LineageSound'
BY DEF LineageSound

LEMMA DrainStays ==
  ASSUME AgentInv, AgentTypes', limits' = limits, lineage' \in {lineage, NoTask}, active' \subseteq active,
         drain' = drain \/ (drain.at = "off" /\ drain'.at = "loop"),
         drain.at \in {"reads", "cancels", "marks"} => spawn'[drain.task].at = "queued",
         drain.at = "reads" => /\ drain.task \in signalled' \/ (drain.task \in queuedStarts' /\ bridge' = "open")
                               /\ runner'[drain.task].at = "none",
         drain.at = "marks" => runner'[drain.task].at = "made"
  PROVE  DrainSound'
<1>1. /\ Cardinality(active') <= Cardinality(active)
      /\ Cardinality(active') \in Nat /\ Cardinality(active) \in Nat
  BY FewerTasks DEF AgentInv, SeatsSound
<1>2. CASE drain' = drain
  BY <1>1, <1>2, LimitTypes DEF AgentInv, DrainSound
<1>3. CASE drain'.at = "loop"
  BY <1>3 DEF DrainSound
<1> QED BY <1>2, <1>3

-----------------------------------------------------------------------------
LEMMA DistinctTail ==
  ASSUME NEW s \in Seq(Operations), s # <<>>, Distinct(s)
  PROVE  /\ Distinct(Tail(s)) /\ Tail(s) \in Seq(Operations)
         /\ 1 \in DOMAIN s /\ Head(s) = s[1] /\ Head(s) \in Operations
         /\ \A i \in DOMAIN Tail(s) :
              i + 1 \in DOMAIN s /\ Tail(s)[i] = s[i + 1] /\ Kind(s[i + 1]) # Kind(Head(s))
<1>1. /\ Len(s) \in Nat \ {0} /\ DOMAIN s = 1..Len(s) /\ Head(s) = s[1] /\ s[1] \in Operations
      /\ Tail(s) \in Seq(Operations) /\ Len(Tail(s)) = Len(s) - 1
      /\ DOMAIN Tail(s) = 1..(Len(s) - 1)
      /\ \A i \in 1..Len(Tail(s)) : Tail(s)[i] = s[i + 1]
  BY EmptySeq, HeadTailProperties, LenProperties, ElementOfSeq
<1>2. \A i \in DOMAIN Tail(s) : i \in Nat /\ i + 1 \in DOMAIN s /\ Tail(s)[i] = s[i + 1]
  BY <1>1
<1>3. \A i \in DOMAIN Tail(s) : Kind(s[i + 1]) # Kind(Head(s))
  BY <1>1, <1>2 DEF Distinct
<1>4. Distinct(Tail(s))
  BY <1>2 DEF Distinct
<1> QED BY <1>1, <1>2, <1>3, <1>4

LEMMA DistinctAppend ==
  ASSUME NEW s \in Seq(Operations), Distinct(s), NEW op \in Operations,
         \A i \in DOMAIN s : Kind(s[i]) # Kind(op)
  PROVE  /\ Distinct(Append(s, op)) /\ Append(s, op) \in Seq(Operations)
         /\ \A i \in DOMAIN Append(s, op) :
              Append(s, op)[i] = op \/ (i \in DOMAIN s /\ Append(s, op)[i] = s[i])
<1>1. /\ Len(s) \in Nat /\ DOMAIN s = 1..Len(s)
      /\ Append(s, op) \in Seq(Operations) /\ DOMAIN Append(s, op) = 1..(Len(s) + 1)
      /\ \A i \in 1..Len(s) : Append(s, op)[i] = s[i]
      /\ Append(s, op)[Len(s) + 1] = op
  BY LenProperties, AppendProperties
<1>2. \A i \in DOMAIN Append(s, op) : i \in DOMAIN s \/ i = Len(s) + 1
  BY <1>1
<1>3. Distinct(Append(s, op))
  BY <1>1, <1>2 DEF Distinct
<1> QED BY <1>1, <1>2, <1>3

\* An operation that its poster waits for, when he waited for nothing of the kind before.
LEMMA ChainGrows ==
  ASSUME AgentTypes, NEW t \in Task, ChainSound(t), NEW op \in Operations,
         writeChain'[t] = Append(writeChain[t], op),
         \A o \in Operations : Kind(o) = Kind(op) => ~Waits(t, o),
         \A o \in Operations : Kind(o) # Kind(op) /\ Waits(t, o) => Waits(t, o)',
         Waits(t, op)'
  PROVE  ChainSound(t)' /\ writeChain'[t] \in Seq(Operations)
<1> DEFINE s == writeChain[t]
<1>1. s \in Seq(Operations) /\ Distinct(s) /\ \A i \in DOMAIN s : Waits(t, s[i])
  BY DEF AgentTypes, ChainSound
<1>2. \A i \in DOMAIN s : s[i] \in Operations
  BY <1>1, ElementOfSeq, LenProperties
<1>3. \A i \in DOMAIN s : Kind(s[i]) # Kind(op)
  BY <1>1, <1>2
<1>4. \A i \in DOMAIN s : Waits(t, s[i])'
  <2> SUFFICES ASSUME NEW i \in DOMAIN s, NEW o, o = s[i] PROVE Waits(t, o)'
    BY DEF Waits
  <2> QED BY <1>1, <1>2, <1>3
<1>5. /\ Distinct(Append(s, op)) /\ Append(s, op) \in Seq(Operations)
      /\ \A i \in DOMAIN Append(s, op) :
           Append(s, op)[i] = op \/ (i \in DOMAIN s /\ Append(s, op)[i] = s[i])
  BY <1>1, <1>3, DistinctAppend
<1>6. writeChain'[t] = Append(s, op)
  OBVIOUS
<1> HIDE DEF s
<1>7. \A o : \A i \in DOMAIN s : o = s[i] => Waits(t, o)'
  BY <1>4 DEF Waits, s
<1>8. ASSUME NEW i \in DOMAIN writeChain'[t], NEW o, o = writeChain'[t][i] PROVE Waits(t, o)'
  BY <1>5, <1>6, <1>7, <1>8
<1>9. \A i \in DOMAIN writeChain'[t] : Waits(t, writeChain[t][i])'
  BY <1>8 DEF Waits
<1> QED BY <1>5, <1>6, <1>9 DEF ChainSound


\* The first operation is done.
LEMMA ChainRest ==
  ASSUME AgentTypes, NEW t \in Task, ChainSound(t), writeChain[t] # <<>>
  PROVE  /\ Distinct(Tail(writeChain[t])) /\ Tail(writeChain[t]) \in Seq(Operations)
         /\ Head(writeChain[t]) \in Operations /\ Waits(t, Head(writeChain[t]))
         /\ \A i \in DOMAIN Tail(writeChain[t]) : \A o : o = Tail(writeChain[t])[i] =>
              o \in Operations /\ Kind(o) # Kind(Head(writeChain[t])) /\ Waits(t, o)
<1> DEFINE s == writeChain[t]
<1>1. s \in Seq(Operations) /\ s # <<>> /\ Distinct(s) /\ \A i \in DOMAIN s : Waits(t, s[i])
  BY DEF AgentTypes, ChainSound
<1>2. \A i \in DOMAIN s : s[i] \in Operations
  BY <1>1, ElementOfSeq, LenProperties
<1> HIDE DEF s
<1>3. /\ Distinct(Tail(s)) /\ Tail(s) \in Seq(Operations)
      /\ 1 \in DOMAIN s /\ Head(s) = s[1] /\ Head(s) \in Operations
      /\ \A i \in DOMAIN Tail(s) :
           i + 1 \in DOMAIN s /\ Tail(s)[i] = s[i + 1] /\ Kind(s[i + 1]) # Kind(Head(s))
  BY <1>1, DistinctTail
<1>4. Waits(t, Head(s))
  BY <1>1, <1>3
<1>5. ASSUME NEW i \in DOMAIN Tail(s), NEW o, o = Tail(s)[i]
      PROVE  o \in Operations /\ Kind(o) # Kind(Head(s)) /\ Waits(t, o)
  BY <1>1, <1>2, <1>3, <1>5
<1> QED BY <1>3, <1>4, <1>5 DEF s

LEMMA ChainShrinks ==
  ASSUME AgentTypes, NEW t \in Task, ChainSound(t), writeChain[t] # <<>>,
         writeChain'[t] = Tail(writeChain[t]),
         \A o \in Operations : Kind(o) # Kind(Head(writeChain[t])) /\ Waits(t, o) => Waits(t, o)'
  PROVE  ChainSound(t)' /\ writeChain'[t] \in Seq(Operations)
<1> DEFINE r == Tail(writeChain[t])
<1>1. /\ Distinct(r) /\ r \in Seq(Operations) /\ writeChain'[t] = r
      /\ \A i \in DOMAIN r : \A o : o = r[i] =>
           o \in Operations /\ Kind(o) # Kind(Head(writeChain[t])) /\ Waits(t, o)
  BY ChainRest
<1> HIDE DEF r
<1>2. ASSUME NEW i \in DOMAIN writeChain'[t], NEW o, o = writeChain'[t][i] PROVE Waits(t, o)'
  BY <1>1, <1>2
<1>3. \A i \in DOMAIN writeChain'[t] : Waits(t, writeChain[t][i])'
  BY <1>2 DEF Waits
<1> QED BY <1>1, <1>3 DEF ChainSound

\* The first operation has failed, and another takes its place at the end.
LEMMA ChainTurns ==
  ASSUME AgentTypes, NEW t \in Task, ChainSound(t), writeChain[t] # <<>>, NEW op \in Operations,
         writeChain'[t] = Append(Tail(writeChain[t]), op),
         \A o \in Operations : Kind(o) = Kind(op) /\ Kind(o) # Kind(Head(writeChain[t])) => ~Waits(t, o),
         \A o \in Operations : Kind(o) # Kind(Head(writeChain[t])) /\ Kind(o) # Kind(op) /\ Waits(t, o)
                                 => Waits(t, o)',
         Waits(t, op)'
  PROVE  ChainSound(t)' /\ writeChain'[t] \in Seq(Operations)
<1> DEFINE r == Tail(writeChain[t])
<1>1. /\ Distinct(r) /\ r \in Seq(Operations) /\ writeChain'[t] = Append(r, op)
      /\ \A i \in DOMAIN r : \A o : o = r[i] =>
           o \in Operations /\ Kind(o) # Kind(Head(writeChain[t])) /\ Waits(t, o)
  BY ChainRest
<1> HIDE DEF r
<1>2. \A i \in DOMAIN r : Kind(r[i]) # Kind(op)
  BY <1>1
<1>3. /\ Distinct(Append(r, op)) /\ Append(r, op) \in Seq(Operations)
      /\ \A i \in DOMAIN Append(r, op) :
           Append(r, op)[i] = op \/ (i \in DOMAIN r /\ Append(r, op)[i] = r[i])
  BY <1>1, <1>2, DistinctAppend
<1>4. ASSUME NEW i \in DOMAIN r, NEW o, o = r[i] PROVE Waits(t, o)'
  <2>1. o \in Operations /\ Kind(o) # Kind(Head(writeChain[t])) /\ Waits(t, o) /\ Kind(o) # Kind(op)
    BY <1>1, <1>2, <1>4
  <2> QED BY <2>1
<1>5. ASSUME NEW i \in DOMAIN writeChain'[t], NEW o, o = writeChain'[t][i] PROVE Waits(t, o)'
  BY <1>1, <1>3, <1>4, <1>5
<1>6. \A i \in DOMAIN writeChain'[t] : Waits(t, writeChain[t][i])'
  BY <1>5 DEF Waits
<1> QED BY <1>1, <1>3, <1>6 DEF ChainSound

-----------------------------------------------------------------------------
LEMMA TaskMoves ==
  ASSUME AgentInv, AgentTypes', limits' = limits, bridge' = bridge, NEW t \in Task,
         \A u \in Task : u # t => SameTask(u),
         TaskSound(t)', DrainSound', SeatsSound', PurseSound', LineageSound'
  PROVE  AgentInv'
<1>1. ASSUME NEW u \in Task PROVE TaskSound(u)'
  <2>1. CASE u = t
    BY <2>1
  <2>2. CASE u # t
    BY <2>2, TaskStays DEF AgentInv
  <2> QED BY <2>1, <2>2
<1> QED BY <1>1 DEF AgentInv

\* One task goes on; the seats, the purse and the queue stay as they are.
LEMMA TaskGoesQuietly ==
  ASSUME AgentInv, AgentTypes', UNCHANGED <<limits, bridge, budget, active, lineage, queuedStarts, drain>>,
         signalled \subseteq signalled', NEW t \in Task,
         \A u \in Task : u # t => SameTask(u),
         TaskSound(t)',
         spawn'[t].at \in {"admitted", "written"} => spawn[t].at \in {"admitted", "written"},
         spawn[t].at = "queued" => spawn'[t].at = "queued",
         runner[t].aborted => runner'[t].aborted,
         Live(t)' => Live(t),
         runner'[t].at = "works" => runner[t].at = "works" \/ bridge # "closed",
         runner[t].at \in {"none", "made"} => runner'[t].at = runner[t].at
  PROVE  AgentInv'
<1>1. SeatsSound'
  <2>1. \A u \in Task : (Held(u)' => Held(u)) /\ (InSeat(u)' => InSeat(u))
    <3> SUFFICES ASSUME NEW u \in Task PROVE (Held(u)' => Held(u)) /\ (InSeat(u)' => InSeat(u))
      OBVIOUS
    <3>1. CASE u = t
      BY <3>1 DEF Held, InSeat, Internal
    <3>2. CASE u # t
      BY <3>2 DEF Held, InSeat, Internal, SameTask
    <3> QED BY <3>1, <3>2
  <2> QED BY <2>1, SeatsStay DEF AgentInv
<1>2. PurseSound'
  BY DEF AgentInv, PurseSound
<1>3. LineageSound'
  <2>1. \A u \in Task : Live(u)' => Live(u)
    BY DEF SameTask, Live
  <2>2. \A u \in Task : runner'[u].at = "works" => runner[u].at = "works" \/ (u = t /\ bridge # "closed")
    BY DEF SameTask
  <2>3. \A u \in Task : runner'[u].at = "works" => Live(u)
    BY <2>1 DEF Live
  <2> QED BY <2>1, <2>2, <2>3 DEF AgentInv, LineageSound
<1>4. DrainSound'
  <2>1. drain.at \in {"reads", "cancels", "marks"} => drain.task \in Task /\ spawn[drain.task].at = "queued"
    BY DEF AgentInv, DrainSound
  <2>2. drain.at \in {"reads", "cancels", "marks"} => spawn'[drain.task].at = "queued"
    BY <2>1 DEF SameTask
  <2>3. drain.at = "reads" => /\ drain.task \in signalled' \/ (drain.task \in queuedStarts' /\ bridge' = "open")
                              /\ runner'[drain.task].at = "none"
    BY <2>1 DEF SameTask, AgentInv, DrainSound
  <2>4. drain.at = "marks" => runner'[drain.task].at = "made"
    BY <2>1 DEF SameTask, AgentInv, DrainSound
  <2> QED BY <2>2, <2>3, <2>4, DrainStays
<1> QED BY <1>1, <1>2, <1>3, <1>4, TaskMoves

LEMMA TaskFacts ==
  ASSUME AgentInv, NEW t \in Task
  PROVE  /\ AgentTypes /\ TaskSound(t) /\ ChainSound(t) /\ PlaceSound(t) /\ RunnerSound(t) /\ BudgetSound(t)
         /\ RetrySound(t)
         /\ record[t] \in [status : {"none", "queued", "running"} \cup Ended, cost : Price(limits)]
         /\ writeChain[t] \in Seq(Operations)
         /\ spawn[t] \in [at : {"none", "admitted", "written", "queued", "refused"},
                          attempt : 0..RetryLimit, of : Task \cup {NoTask}]
         /\ runner[t] \in [at : RunnerPlaces, aborted : BOOLEAN, named : BOOLEAN, cost : Price(limits)]
         /\ cancel[t] \in [Callers -> Calls]
BY DEF AgentInv, TaskSound, RetrySound, AgentTypes

\* The signal of the turn that spawned a task.
LEMMA ParentAbortsStep ==
  ASSUME AgentInv, NEW t \in Task, ParentAborts(t)
  PROVE  AgentInv'
<1>1. /\ spawn[t].at = "queued" /\ signalled' = signalled \cup {t} /\ runner[t].at # "gone"
      /\ runner' = IF runner[t].at = "none" THEN runner
                   ELSE [runner EXCEPT ![t].aborted = TRUE, ![t].named = FALSE]
      /\ UNCHANGED <<record, writeChain, spawn, startQueue, queuedStarts, drain, active, lineage,
                     cancel, budget, retry, bridge, lost, limits>>
  BY DEF ParentAborts
<1>2. /\ AgentTypes /\ ChainSound(t) /\ PlaceSound(t) /\ RunnerSound(t) /\ BudgetSound(t)
      /\ RetrySound(t)
      /\ runner[t] \in [at : RunnerPlaces, aborted : BOOLEAN, named : BOOLEAN, cost : Price(limits)]
  BY TaskFacts
<1>3. /\ runner'[t] \in [at : RunnerPlaces, aborted : BOOLEAN, named : BOOLEAN, cost : Price(limits)]
      /\ runner'[t].at = runner[t].at /\ (runner[t].at = "none" \/ runner'[t].aborted)
      /\ (runner[t].at = "none" => runner'[t] = runner[t])
      /\ \A u \in Task : u # t => runner'[u] = runner[u]
  BY <1>1, <1>2 DEF AgentTypes
<1>4. AgentTypes'
  <2>1. runner' \in [Task -> [at : RunnerPlaces, aborted : BOOLEAN, named : BOOLEAN, cost : Price(limits)]]
    BY <1>1, <1>2 DEF AgentTypes
  <2>2. signalled' \subseteq Task
    BY <1>1, <1>2 DEF AgentTypes
  <2> QED BY <1>1, <1>2, <2>1, <2>2 DEF AgentTypes
<1>5. (Live(t)' <=> Live(t)) /\ (Posted(t)' <=> Posted(t))
  BY <1>1, <1>3 DEF Live, Posted
<1>6. TaskSound(t)'
  <2>1. ChainSound(t)'
    BY <1>1, <1>2, <1>3 DEF ChainSound, Waits
  <2>2. PlaceSound(t)'
    BY <1>1, <1>2, <1>3, <1>5 DEF PlaceSound
  <2>3. RunnerSound(t)'
    BY <1>1, <1>2, <1>3, <1>5 DEF RunnerSound, Live
  <2>4. BudgetSound(t)'
    BY <1>1, <1>2, <1>5 DEF BudgetSound, Internal
  <2> QED BY <1>1, <1>2, <2>1, <2>2, <2>3, <2>4 DEF TaskSound, RetrySound
<1>7. \A u \in Task : u # t => SameTask(u)
  BY <1>1, <1>3 DEF SameTask
<1> QED BY <1>1, <1>2, <1>3, <1>4, <1>5, <1>6, <1>7, TaskGoesQuietly

-----------------------------------------------------------------------------
\* A runner goes on: it keeps its seat and what it knows of an abort.
RunnerTypes == [at : RunnerPlaces, aborted : BOOLEAN, named : BOOLEAN, cost : Price(limits)]
RecordTypes == [status : {"none", "queued", "running"} \cup Ended, cost : Price(limits)]
LEMMA RunnerGoes ==
  ASSUME AgentInv, NEW t \in Task, NEW c \in RunnerTypes, runner' = [runner EXCEPT ![t] = c],
         runner[t].at \notin {"none", "gone", "made"}, c.at \notin {"none", "gone", "made"},
         c.aborted = runner[t].aborted, c.at = "works" => ~c.aborted,
         record' \in [Task -> RecordTypes], \A u \in Task : u # t => record'[u] = record[u],
         writeChain' \in [Task -> Seq(Operations)], \A u \in Task : u # t => writeChain'[u] = writeChain[u],
         ChainSound(t)',
         retry' \in [Task -> {"none", "reads", "timer", "closed"}], \A u \in Task : u # t => retry'[u] = retry[u],
         retry'[t] # "none" => retry'[t] = "reads" \/ retry'[t] = retry[t],
         UNCHANGED <<spawn, startQueue, queuedStarts, signalled, drain, active, lineage, cancel, budget,
                     bridge, lost, limits>>
  PROVE  AgentInv'
<1>2. /\ AgentTypes /\ PlaceSound(t) /\ RunnerSound(t) /\ BudgetSound(t)
      /\ RetrySound(t)
  BY TaskFacts
<1>3. /\ runner'[t] = c /\ \A u \in Task : u # t => runner'[u] = runner[u]
      /\ runner' \in [Task -> RunnerTypes]
  BY <1>2 DEF AgentTypes, RunnerTypes
<1>4. AgentTypes'
  BY <1>2, <1>3 DEF AgentTypes, RunnerTypes, RecordTypes
<1>5. Live(t) /\ Live(t)' /\ (Posted(t)' <=> Posted(t))
  BY <1>3 DEF Live, Posted
<1>9. spawn[t].at = "queued"
  BY <1>2 DEF PlaceSound
<1>6. TaskSound(t)'
  <2>2. PlaceSound(t)'
    BY <1>2, <1>3, <1>5 DEF PlaceSound
  <2>3. RunnerSound(t)'
    BY <1>2, <1>3, <1>5 DEF RunnerSound
  <2>4. BudgetSound(t)'
    BY <1>2, <1>5 DEF BudgetSound, Internal
  <2> QED BY <1>2, <1>9, <2>2, <2>3, <2>4 DEF TaskSound, RetrySound
<1>7. \A u \in Task : u # t => SameTask(u)
  BY <1>3 DEF SameTask
<1>8. c.at = "works" => bridge # "closed"
  BY <1>2, <1>5 DEF RunnerSound
<1> QED BY <1>2, <1>3, <1>4, <1>5, <1>6, <1>7, <1>8, TaskGoesQuietly

LEMMA KindIs ==
  /\ \A o : o \in Ended => Kind(o) = "outcome" /\ o \in Operations
  /\ \A o \in Operations : Kind(o) = "outcome" => o \in Ended
  /\ \A o \in Operations : o \notin Ended => Kind(o) = o
  /\ {"queued", "running", "user", "drain"} \subseteq Operations \ Ended
BY DEF Kind, Operations, Ended, Callers

\* A runner ends: it queues the outcome of its task, which is the only one.
LEMMA RunnerQueuesOutcome ==
  ASSUME AgentInv, NEW t \in Task, NEW c \in RunnerTypes, runner' = [runner EXCEPT ![t] = c],
         runner[t].at \in {"begun", "works"}, c.at = "ending", c.aborted = runner[t].aborted,
         NEW op \in Ended, Post(t, op), 
         UNCHANGED <<record, spawn, startQueue, queuedStarts, signalled, drain, active, lineage, cancel,
                     budget, retry, bridge, lost, limits>>
  PROVE  AgentInv'
<1>1. AgentTypes /\ ChainSound(t) /\ RetrySound(t)
  BY TaskFacts
<1>2. writeChain \in [Task -> Seq(Operations)] /\ op \in Operations
  BY <1>1, KindIs DEF AgentTypes
<1>3. /\ writeChain'[t] = Append(writeChain[t], op)
      /\ \A u \in Task : u # t => writeChain'[u] = writeChain[u]
  BY <1>2 DEF Post
<1>4. runner'[t] = c
  BY <1>1 DEF AgentTypes
<1>5. \A o \in Operations : Kind(o) = Kind(op) => ~Waits(t, o)
  BY KindIs DEF Waits
<1>6. \A o \in Operations : Kind(o) # Kind(op) /\ Waits(t, o) => Waits(t, o)'
  BY KindIs DEF Waits
<1>7. Waits(t, op)'
  BY <1>4 DEF Waits, Ended, Callers
<1>8. ChainSound(t)' /\ writeChain'[t] \in Seq(Operations)
  BY <1>1, <1>2, <1>3, <1>5, <1>6, <1>7, ChainGrows
<1>9. writeChain' \in [Task -> Seq(Operations)]
  BY <1>2, <1>8 DEF Post
<1>10. record' \in [Task -> RecordTypes] /\ retry' \in [Task -> {"none", "reads", "timer", "closed"}]
  BY <1>1 DEF AgentTypes, RecordTypes
<1> QED BY <1>3, <1>8, <1>9, <1>10, RunnerGoes

\* An aborted runner ends before it works.
LEMMA RunnerSubmitsStep ==
  ASSUME AgentInv, NEW t \in Task, RunnerSubmits(t)
  PROVE  AgentInv'
<1>1. /\ AgentTypes /\ ChainSound(t) /\ runner[t] \in RunnerTypes
      /\ record' \in [Task -> RecordTypes] /\ retry' \in [Task -> {"none", "reads", "timer", "closed"}]
  BY TaskFacts DEF RunnerTypes, RecordTypes, AgentTypes, RunnerSubmits
<1>2. /\ runner[t].at = "begun"
      /\ UNCHANGED <<record, spawn, startQueue, queuedStarts, signalled, drain, active, lineage, cancel,
                     budget, retry, bridge, lost, limits>>
  BY DEF RunnerSubmits
<1>3. CASE runner[t].aborted /\ Ends(t, "cancelled")
  <2> DEFINE c == [runner[t] EXCEPT !.at = "ending"]
  <2>1. c \in RunnerTypes /\ c.at = "ending" /\ c.aborted = runner[t].aborted
    BY <1>1 DEF RunnerTypes, RunnerPlaces, Endings
  <2>2. runner' = [runner EXCEPT ![t] = c] /\ Post(t, "cancelled") /\ "cancelled" \in Ended
    BY <1>3 DEF Ends, Ended
  <2> HIDE DEF c
  <2> QED BY <1>2, <2>1, <2>2, RunnerQueuesOutcome
<1>4. CASE ~runner[t].aborted /\ runner' = [runner EXCEPT ![t].at = "works"] /\ UNCHANGED writeChain
  <2> DEFINE c == [runner[t] EXCEPT !.at = "works"]
  <2>1. c \in RunnerTypes /\ c.at = "works" /\ c.aborted = runner[t].aborted
    BY <1>1 DEF RunnerTypes, RunnerPlaces
  <2>2. runner' = [runner EXCEPT ![t] = c]
    BY <1>4
  <2> HIDE DEF c
  <2>3. runner'[t] = c
    BY <1>1, <2>2 DEF AgentTypes
  <2>4. ChainSound(t)' /\ writeChain' \in [Task -> Seq(Operations)]
    BY <1>1, <1>2, <1>4, <2>1, <2>3 DEF ChainSound, Waits, AgentTypes
  <2> QED BY <1>1, <1>2, <1>4, <2>1, <2>2, <2>4, RunnerGoes
<1> QED BY <1>3, <1>4 DEF RunnerSubmits

LEMMA RunnerEndsStep ==
  ASSUME AgentInv, NEW t \in Task, NEW outcome \in Ended, RunnerEnds(t, outcome)
  PROVE  AgentInv'
<1>1. runner[t] \in RunnerTypes
  BY TaskFacts DEF RunnerTypes
<1>5. PICK cost \in limits.costs : runner' = [runner EXCEPT ![t].at = "ending", ![t].cost = cost]
  BY DEF RunnerEnds
<1>6. cost \in Price(limits)
  BY LimitTypes DEF AgentInv
<1> DEFINE c == [runner[t] EXCEPT !.at = "ending", !.cost = cost]
<1>2. c \in RunnerTypes /\ c.at = "ending" /\ c.aborted = runner[t].aborted
  BY <1>1, <1>6 DEF RunnerTypes, RunnerPlaces, Endings
<1>3. runner' = [runner EXCEPT ![t] = c]
  BY <1>5
<1>4. /\ runner[t].at = "works" /\ Post(t, outcome)
      /\ UNCHANGED <<record, spawn, startQueue, queuedStarts, signalled, drain, active, lineage, cancel,
                     budget, retry, bridge, lost, limits>>
  BY DEF RunnerEnds
<1> HIDE DEF c
<1> QED BY <1>2, <1>3, <1>4, RunnerQueuesOutcome

LEMMA RunnerTellsStep ==
  ASSUME AgentInv, NEW t \in Task, RunnerTells(t)
  PROVE  AgentInv'
<1>1. /\ AgentTypes /\ ChainSound(t) /\ runner[t] \in RunnerTypes
  BY TaskFacts DEF RunnerTypes
<1> DEFINE c == [runner[t] EXCEPT !.at = "unwinding"]
<1>2. c \in RunnerTypes /\ c.at = "unwinding" /\ c.aborted = runner[t].aborted
  BY <1>1 DEF RunnerTypes, RunnerPlaces, Endings
<1>3. /\ runner' = [runner EXCEPT ![t] = c] /\ runner[t].at \in {"done", "failed"}
      /\ UNCHANGED <<record, writeChain, spawn, startQueue, queuedStarts, signalled, drain, active,
                     lineage, cancel, budget, bridge, lost, limits>>
  BY DEF RunnerTells
<1>4. \/ retry' = retry \/ retry' = [retry EXCEPT ![t] = "reads"]
  BY DEF RunnerTells, Failed
<1> HIDE DEF c
<1>5. runner'[t] = c
  BY <1>1, <1>3 DEF AgentTypes
<1>6. ChainSound(t)'
  BY <1>1, <1>2, <1>3, <1>5 DEF ChainSound, Waits
<1>7. /\ retry' \in [Task -> {"none", "reads", "timer", "closed"}]
      /\ \A u \in Task : u # t => retry'[u] = retry[u]
      /\ retry'[t] # "none" => retry'[t] = "reads" \/ retry'[t] = retry[t]
  BY <1>1, <1>4 DEF AgentTypes
<1>8. record' \in [Task -> RecordTypes] /\ writeChain' \in [Task -> Seq(Operations)]
  BY <1>1, <1>3 DEF AgentTypes, RecordTypes
<1> QED BY <1>2, <1>3, <1>6, <1>7, <1>8, RunnerGoes

-----------------------------------------------------------------------------
LEMMA CancelIs ==
  ASSUME AgentTypes, NEW t \in Task, NEW by \in Callers, NEW x \in Calls,
         cancel' = [cancel EXCEPT ![t][by] = x]
  PROVE  /\ cancel' \in [Task -> [Callers -> Calls]] /\ cancel'[t][by] = x
         /\ \A d \in Callers : d # by => cancel'[t][d] = cancel[t][d]
         /\ \A u \in Task : u # t => cancel'[u] = cancel[u]
BY DEF AgentTypes

\* A call of cancelTask begins or goes on, and the task stays where it is.
LEMMA CancelGoes ==
  ASSUME AgentInv, NEW t \in Task, spawn[t].at = "queued",
         cancel' \in [Task -> [Callers -> Calls]], \A u \in Task : u # t => cancel'[u] = cancel[u],
         record' \in [Task -> RecordTypes], \A u \in Task : u # t => record'[u] = record[u],
         writeChain' \in [Task -> Seq(Operations)], \A u \in Task : u # t => writeChain'[u] = writeChain[u],
         ChainSound(t)', lost' \subseteq Task, lost \subseteq lost',
         Posted(t)' => Posted(t), t \in lost' \/ (Posted(t) => Posted(t)'),
         t \in lost' \/ record'[t] = record[t] \/ Posted(t)',
         UNCHANGED <<spawn, runner, startQueue, queuedStarts, signalled, drain, active, lineage, retry,
                     budget, bridge, limits>>
  PROVE  AgentInv'
<1>2. /\ AgentTypes /\ PlaceSound(t) /\ RunnerSound(t) /\ BudgetSound(t)
      /\ RetrySound(t)
  BY TaskFacts
<1>4. AgentTypes'
  BY <1>2 DEF AgentTypes, RecordTypes
<1>5. Live(t)' <=> Live(t)
  BY DEF Live
<1>6. TaskSound(t)'
  <2>2. PlaceSound(t)'
    BY <1>2, <1>5 DEF PlaceSound
  <2>3. RunnerSound(t)'
    BY <1>2, <1>5 DEF RunnerSound
  <2>4. BudgetSound(t)'
    BY <1>2, <1>5 DEF BudgetSound, Internal
  <2> QED BY <1>2, <2>2, <2>3, <2>4 DEF TaskSound, RetrySound
<1>7. \A u \in Task : u # t => SameTask(u)
  BY DEF SameTask
<1> QED BY <1>2, <1>4, <1>5, <1>6, <1>7, TaskGoesQuietly

LEMMA CallCancelStep ==
  ASSUME AgentInv, NEW t \in Task, CallCancel(t)
  PROVE  AgentInv'
<1>1. /\ spawn[t].at = "queued" /\ cancel[t]["user"] = "none" /\ "user" \in Callers /\ "called" \in Calls
      /\ cancel' = [cancel EXCEPT ![t]["user"] = "called"]
      /\ UNCHANGED <<record, writeChain, spawn, startQueue, queuedStarts, signalled, drain, active,
                     lineage, runner, budget, retry, bridge, lost, limits>>
  BY DEF CallCancel, Callers, Calls
<1>2. AgentTypes /\ ChainSound(t)
  BY TaskFacts
<1>3. /\ cancel' \in [Task -> [Callers -> Calls]] /\ cancel'[t]["user"] = "called"
      /\ \A d \in Callers : d # "user" => cancel'[t][d] = cancel[t][d]
      /\ \A u \in Task : u # t => cancel'[u] = cancel[u]
  BY <1>1, <1>2, CancelIs
<1>4. Posted(t)' <=> Posted(t)
  BY <1>1, <1>3 DEF Posted
<1>5. ChainSound(t)'
  BY <1>1, <1>2, <1>3 DEF ChainSound, Waits
<1>6. /\ record' \in [Task -> RecordTypes] /\ writeChain' \in [Task -> Seq(Operations)]
      /\ lost' \subseteq Task
  BY <1>1, <1>2 DEF AgentTypes, RecordTypes
<1> QED BY <1>1, <1>3, <1>4, <1>5, <1>6, CancelGoes

\* A retry waits for its timer only below the limit.
LEMMA RetryReadsStep ==
  ASSUME AgentInv, NEW t \in Task, NEW passing \in BOOLEAN, RetryReads(t, passing)
  PROVE  AgentInv'
<1>1. /\ retry[t] = "reads"
      /\ \/ retry' = [retry EXCEPT ![t] = "closed"]
         \/ retry' = [retry EXCEPT ![t] = "timer"] /\ spawn[t].attempt < RetryLimit
      /\ UNCHANGED <<record, writeChain, spawn, startQueue, queuedStarts, signalled, drain, active,
                     lineage, runner, cancel, budget, bridge, lost, limits>>
  BY DEF RetryReads, Retryable
<1>2. /\ AgentTypes /\ ChainSound(t) /\ PlaceSound(t) /\ RunnerSound(t) /\ BudgetSound(t)
      /\ RetrySound(t)
  BY TaskFacts
<1>3. /\ retry' \in [Task -> {"none", "reads", "timer", "closed"}]
      /\ \A u \in Task : u # t => retry'[u] = retry[u]
      /\ retry'[t] = "timer" => spawn[t].attempt < RetryLimit
  BY <1>1, <1>2 DEF AgentTypes
<1>4. AgentTypes'
  BY <1>1, <1>2, <1>3 DEF AgentTypes
<1>5. (Live(t)' <=> Live(t)) /\ (Posted(t)' <=> Posted(t))
  BY <1>1 DEF Live, Posted
<1>6. TaskSound(t)'
  <2>1. ChainSound(t)'
    BY <1>1, <1>2 DEF ChainSound, Waits
  <2>2. PlaceSound(t)'
    BY <1>1, <1>2, <1>5 DEF PlaceSound
  <2>3. RunnerSound(t)'
    BY <1>1, <1>2, <1>5 DEF RunnerSound
  <2>4. BudgetSound(t)'
    BY <1>1, <1>2, <1>5 DEF BudgetSound, Internal
  <2> QED BY <1>1, <1>2, <1>3, <2>1, <2>2, <2>3, <2>4 DEF TaskSound, RetrySound
<1>7. \A u \in Task : u # t => SameTask(u)
  BY <1>1, <1>3 DEF SameTask
<1> QED BY <1>1, <1>2, <1>4, <1>5, <1>6, <1>7, TaskGoesQuietly

\* What an earlier process left holds nothing of this one.
LEMMA FailStaleTaskStep ==
  ASSUME AgentInv, NEW t \in Task, FailStaleTask(t)
  PROVE  AgentInv'
<1>1. /\ spawn[t].at = "refused" /\ record' = [record EXCEPT ![t] = [status |-> "failed", cost |-> 0]]
      /\ UNCHANGED <<writeChain, spawn, startQueue, queuedStarts, signalled, drain, active, lineage,
                     runner, cancel, budget, retry, bridge, lost, limits>>
  BY DEF FailStaleTask
<1>2. /\ AgentTypes /\ ChainSound(t) /\ PlaceSound(t) /\ RunnerSound(t) /\ BudgetSound(t)
      /\ RetrySound(t)
  BY TaskFacts
<1>3. \A u \in Task : u # t => record'[u] = record[u]
  BY <1>1
<1>4. AgentTypes'
  <2>1. 0 \in Price(limits)
    BY <1>2, LimitTypes
  <2> QED BY <1>1, <1>2, <2>1 DEF AgentTypes, Ended
<1>5. (Live(t)' <=> Live(t)) /\ (Posted(t)' <=> Posted(t))
  BY <1>1 DEF Live, Posted
<1>6. TaskSound(t)'
  <2>1. ChainSound(t)'
    BY <1>1, <1>2 DEF ChainSound, Waits
  <2>2. PlaceSound(t)'
    BY <1>1, <1>2, <1>5 DEF PlaceSound
  <2>3. RunnerSound(t)'
    BY <1>1, <1>2, <1>5 DEF RunnerSound
  <2>4. BudgetSound(t)'
    BY <1>1, <1>2, <1>5 DEF BudgetSound, Internal
  <2> QED BY <1>1, <1>2, <2>1, <2>2, <2>3, <2>4 DEF TaskSound, RetrySound
<1>7. \A u \in Task : u # t => SameTask(u)
  BY <1>1, <1>3 DEF SameTask
<1> QED BY <1>1, <1>2, <1>4, <1>5, <1>6, <1>7, TaskGoesQuietly

-----------------------------------------------------------------------------
\* How far a spawn is.
SpawnPlaces == {"none", "admitted", "written", "queued", "refused"}
SpawnTypes == [at : SpawnPlaces, attempt : 0..RetryLimit, of : Task \cup {NoTask}]
LEMMA SpawnIs ==
  ASSUME AgentTypes, NEW t \in Task, NEW a \in SpawnPlaces, spawn' = [spawn EXCEPT ![t].at = a]
  PROVE  /\ spawn'[t].at = a /\ spawn'[t].attempt = spawn[t].attempt
         /\ \A u \in Task : u # t => spawn'[u] = spawn[u]
         /\ spawn' \in [Task -> SpawnTypes]
<1> DEFINE c == [spawn[t] EXCEPT !.at = a]
<1>1. spawn \in [Task -> SpawnTypes] /\ spawn[t] \in SpawnTypes
  BY DEF AgentTypes, SpawnTypes, SpawnPlaces
<1>2. c \in SpawnTypes /\ c.at = a /\ c.attempt = spawn[t].attempt
  BY <1>1 DEF SpawnTypes
<1>3. spawn' = [spawn EXCEPT ![t] = c]
  OBVIOUS
<1> HIDE DEF c
<1> QED BY <1>1, <1>2, <1>3

\* The operation at the head of a task's chain is performed.
LEMMA PerformStep ==
  ASSUME AgentInv, NEW t \in Task, Perform(t)
  PROVE  AgentInv'
<1> DEFINE op == Head(writeChain[t])
           done == Overwrites(t, op)
           status == IF op \in Callers THEN "cancelled" ELSE op
           cost == IF op \in Callers \/ status \notin Ended THEN 0 ELSE runner[t].cost
<1>1. /\ writeChain[t] # <<>> /\ writeChain' = [writeChain EXCEPT ![t] = Tail(@)]
      /\ Continues(t, op, done)
      /\ UNCHANGED <<startQueue, queuedStarts, signalled, drain, active, lineage, budget, retry, bridge,
                     lost, limits>>
  BY DEF Perform
<1>2. record' = IF done THEN [record EXCEPT ![t] = [status |-> status, cost |-> cost]] ELSE record
  BY DEF Perform
<1>3. /\ AgentTypes /\ ChainSound(t) /\ PlaceSound(t) /\ RunnerSound(t) /\ BudgetSound(t)
      /\ RetrySound(t)
      /\ runner[t] \in RunnerTypes
  BY TaskFacts DEF RunnerTypes
<1>4. /\ op \in Operations /\ Waits(t, op) /\ writeChain'[t] = Tail(writeChain[t])
      /\ Tail(writeChain[t]) \in Seq(Operations)
      /\ \A u \in Task : u # t => writeChain'[u] = writeChain[u]
  BY <1>1, <1>3, ChainRest DEF AgentTypes
<1>5. writeChain' \in [Task -> Seq(Operations)]
  BY <1>1, <1>3, <1>4 DEF AgentTypes
<1>6. /\ record' \in [Task -> RecordTypes] /\ (\A u \in Task : u # t => record'[u] = record[u])
      /\ record'[t] # record[t] => record'[t].status = status
  <2>1. status \in {"queued", "running"} \cup Ended /\ cost \in Price(limits)
    BY <1>3, <1>4, LimitTypes DEF RunnerTypes, Operations, Callers, Ended
  <2> HIDE DEF status, cost, done
  <2> QED BY <1>2, <1>3, <2>1 DEF AgentTypes, RecordTypes
<1>7. retry' \in [Task -> {"none", "reads", "timer", "closed"}]
  BY <1>1, <1>3 DEF AgentTypes
<1>8. op = "queued" => status = "queued"
  BY DEF Callers
<1>9. \/ op = "queued" /\ spawn' = [spawn EXCEPT ![t].at = "written"] /\ UNCHANGED <<runner, cancel>>
      \/ op = "running" /\ runner' = [runner EXCEPT ![t].at = "begun"] /\ UNCHANGED <<spawn, cancel>>
      \/ /\ op \in Callers /\ UNCHANGED <<spawn, runner>>
         /\ cancel' = [cancel EXCEPT ![t][op] = IF done THEN "won" ELSE "late"]
      \/ /\ op \in Ended /\ UNCHANGED <<spawn, cancel>>
         /\ runner' = [runner EXCEPT ![t].at = IF ~done THEN "unwinding"
                                               ELSE IF op = "completed" THEN "done" ELSE "failed"]
  <2> HIDE DEF op, done
  <2> QED BY <1>1, <1>4 DEF Continues, Operations, Callers, Ended
<1> HIDE DEF op, done, status, cost
<1>10. \A o \in Operations : Kind(o) # Kind(op) /\ Waits(t, o) => Waits(t, o)'
  <2>1. SUFFICES ASSUME NEW o \in Operations, Kind(o) # Kind(op), Waits(t, o) PROVE Waits(t, o)'
    OBVIOUS
  <2>2. CASE op = "queued"
    BY <1>9, <2>1, <2>2, KindIs DEF Waits, Ended, Callers
  <2>3. CASE op = "running"
    <3>1. runner[t].at = "starting" /\ UNCHANGED <<spawn, cancel>>
      BY <1>4, <1>9, <2>3 DEF Waits, Ended, Callers
    <3> QED BY <2>1, <2>3, <3>1, KindIs DEF Waits
  <2>4. CASE op \in Callers
    <3>1. UNCHANGED <<spawn, runner>> /\ \A d \in Callers : d # op => cancel'[t][d] = cancel[t][d]
      BY <1>3, <1>9, <2>4 DEF AgentTypes, Ended, Callers
    <3> QED BY <2>1, <2>4, <3>1, KindIs DEF Waits
  <2>5. CASE op \in Ended
    <3>1. runner[t].at = "ending" /\ UNCHANGED <<spawn, cancel>>
      BY <1>4, <1>9, <2>5 DEF Waits, Ended, Callers
    <3>2. o \notin Ended /\ o # "running"
      BY <2>1, <2>5, <3>1, KindIs DEF Waits
    <3> QED BY <2>1, <3>1, <3>2 DEF Waits
  <2> QED BY <1>9, <2>2, <2>3, <2>4, <2>5
<1>11. ChainSound(t)'
  <2>1. \A o \in Operations : Kind(o) # Kind(Head(writeChain[t])) /\ Waits(t, o) => Waits(t, o)'
    BY <1>10 DEF op
  <2> QED BY <1>1, <1>3, <1>4, <2>1, ChainShrinks
\* The record of a spawn is written.
<1>12. CASE op = "queued" /\ spawn' = [spawn EXCEPT ![t].at = "written"] /\ UNCHANGED <<runner, cancel>>
  <2>1. spawn[t].at = "admitted"
    BY <1>4, <1>12 DEF Waits
  <2>2. /\ spawn'[t].at = "written" /\ spawn'[t].attempt = spawn[t].attempt
        /\ \A u \in Task : u # t => spawn'[u] = spawn[u]
        /\ spawn' \in [Task -> SpawnTypes]
    BY <1>3, <1>12, SpawnIs DEF SpawnPlaces
  <2>3. AgentTypes'
    BY <1>1, <1>3, <1>5, <1>6, <1>12, <2>2 DEF AgentTypes, RecordTypes, SpawnTypes, SpawnPlaces
  <2>4. (Live(t)' <=> Live(t)) /\ (Posted(t)' <=> Posted(t))
    BY <1>12 DEF Live, Posted
  <2>5. TaskSound(t)'
    <3>1. PlaceSound(t)'
      BY <1>1, <1>3, <1>12, <2>1, <2>2, <2>4 DEF PlaceSound
    <3>2. RunnerSound(t)'
      BY <1>1, <1>3, <1>12, <2>4 DEF RunnerSound
    <3>3. record'[t].status \in Ended => record[t].status \in Ended
      BY <1>6, <1>8, <1>12 DEF Ended
    <3>4. BudgetSound(t)'
      BY <1>1, <1>3, <2>1, <2>2, <2>4, <3>3 DEF BudgetSound, Internal
    <3> QED BY <1>1, <1>3, <1>11, <2>1, <2>2, <3>1, <3>2, <3>4 DEF TaskSound, RetrySound
  <2>6. \A u \in Task : u # t => SameTask(u)
    BY <1>1, <1>4, <1>6, <1>12, <2>2 DEF SameTask
  <2> QED BY <1>1, <1>12, <2>1, <2>2, <2>3, <2>4, <2>5, <2>6, TaskGoesQuietly
\* A cancellation has been performed, or came too late.
<1>13. CASE op \in Callers /\ (\E x \in {"won", "late"} : cancel' = [cancel EXCEPT ![t][op] = x])
            /\ UNCHANGED <<spawn, runner>>
  <2>1. cancel[t][op] = "posted"
    BY <1>4, <1>13 DEF Waits
  <2>2. PICK x \in {"won", "late"} : cancel' = [cancel EXCEPT ![t][op] = x]
    BY <1>13
  <2>3. /\ cancel' \in [Task -> [Callers -> Calls]] /\ cancel'[t][op] = x
        /\ \A u \in Task : u # t => cancel'[u] = cancel[u]
    BY <1>3, <1>13, <2>2, CancelIs DEF Calls
  <2>4. Posted(t) /\ Posted(t)'
    BY <1>13, <2>1, <2>3 DEF Posted
  <2>5. spawn[t].at = "queued" /\ lost' \subseteq Task
    BY <1>1, <1>3, <1>13, <2>1 DEF PlaceSound, AgentTypes
  <2> QED BY <1>1, <1>4, <1>5, <1>6, <1>11, <1>13, <2>3, <2>4, <2>5, CancelGoes
\* The runner goes on.
<1>14. CASE /\ op = "running" \/ op \in Ended
            /\ \E a \in {"begun", "unwinding", "done", "failed"} : runner' = [runner EXCEPT ![t].at = a]
            /\ UNCHANGED <<spawn, cancel>>
  <2>1. runner[t].at \in {"starting", "ending"}
    BY <1>4, <1>14 DEF Waits
  <2>2. PICK a \in {"begun", "unwinding", "done", "failed"} : runner' = [runner EXCEPT ![t].at = a]
    BY <1>14
  <2> DEFINE c == [runner[t] EXCEPT !.at = a]
  <2>3. c \in RunnerTypes /\ c.at = a /\ c.aborted = runner[t].aborted
    BY <1>3 DEF RunnerTypes, RunnerPlaces, Endings
  <2>4. runner' = [runner EXCEPT ![t] = c]
    BY <2>2
  <2> HIDE DEF c
  <2>5. c.at \notin {"none", "gone", "made"} /\ (c.at = "works" => ~c.aborted)
    BY <2>3
  <2>6. runner[t].at \notin {"none", "gone", "made"} /\ retry'[t] = retry[t]
        /\ \A u \in Task : u # t => retry'[u] = retry[u]
    BY <1>1, <2>1
  <2> QED BY <1>1, <1>4, <1>5, <1>6, <1>7, <1>11, <1>14, <2>3, <2>4, <2>5, <2>6, RunnerGoes
<1> QED BY <1>9, <1>12, <1>13, <1>14

\* The operation cannot be performed.
LEMMA PerformFailsStep ==
  ASSUME AgentInv, NEW t \in Task, PerformFails(t)
  PROVE  AgentInv'
<1> DEFINE op == Head(writeChain[t])
<1>1. /\ writeChain[t] # <<>>
      /\ UNCHANGED <<record, startQueue, queuedStarts, signalled, drain, active, lineage, retry, bridge,
                     limits>>
  BY DEF PerformFails
<1>2. /\ AgentTypes /\ ChainSound(t) /\ PlaceSound(t) /\ RunnerSound(t) /\ BudgetSound(t)
      /\ RetrySound(t)
      /\ runner[t] \in RunnerTypes
  BY TaskFacts DEF RunnerTypes
<1>3. op \in Operations /\ Waits(t, op) /\ Tail(writeChain[t]) \in Seq(Operations)
  BY <1>1, <1>2, ChainRest
<1>4. \/ /\ op = "queued" /\ spawn' = [spawn EXCEPT ![t].at = "refused"] /\ budget' = RolledBack(t)
         /\ writeChain' = [writeChain EXCEPT ![t] = Tail(@)] /\ UNCHANGED <<runner, cancel, lost>>
      \/ /\ op \in Callers /\ cancel' = [cancel EXCEPT ![t][op] = "none"] /\ lost' = lost \cup {t}
         /\ writeChain' = [writeChain EXCEPT ![t] = Tail(@)] /\ UNCHANGED <<spawn, runner, budget>>
      \/ /\ op \in {"running"} \cup Ended /\ runner' = [runner EXCEPT ![t].at = "ending"]
         /\ writeChain' = [writeChain EXCEPT ![t] = Append(Tail(@), "failed")]
         /\ UNCHANGED <<spawn, cancel, budget, lost>>
  <2>1. op \in {"queued", "running"} \cup Callers \cup Ended /\ "queued" \notin Callers
    BY <1>3 DEF Operations, Callers
  <2> QED BY <2>1 DEF PerformFails
<1> HIDE DEF op
\* The spawn is rolled back.
<1>5. CASE /\ op = "queued" /\ spawn' = [spawn EXCEPT ![t].at = "refused"] /\ budget' = RolledBack(t)
           /\ writeChain' = [writeChain EXCEPT ![t] = Tail(@)] /\ UNCHANGED <<runner, cancel, lost>>
  <2>1. spawn[t].at = "admitted"
    BY <1>3, <1>5 DEF Waits
  <2>2. /\ spawn'[t].at = "refused" /\ spawn'[t].attempt = spawn[t].attempt
        /\ \A u \in Task : u # t => spawn'[u] = spawn[u]
        /\ spawn' \in [Task -> SpawnTypes]
    BY <1>2, <1>5, SpawnIs DEF SpawnPlaces
  <2>3. /\ writeChain'[t] = Tail(writeChain[t]) /\ writeChain' \in [Task -> Seq(Operations)]
        /\ \A u \in Task : u # t => writeChain'[u] = writeChain[u]
    BY <1>2, <1>3, <1>5 DEF AgentTypes
  <2>4. /\ budget' \in [reserved : SUBSET Task, settled : SUBSET Task, spent : Nat]
        /\ budget'.reserved = budget.reserved \ {t} /\ budget'.settled = budget.settled
        /\ budget'.spent = budget.spent
    BY <1>2, <1>5 DEF AgentTypes, RolledBack
  <2>5. AgentTypes'
    BY <1>1, <1>2, <1>5, <2>2, <2>3, <2>4 DEF AgentTypes, SpawnTypes, SpawnPlaces
  <2>6. (Live(t)' <=> Live(t)) /\ (Posted(t)' <=> Posted(t))
    BY <1>5 DEF Live, Posted
  <2>7. TaskSound(t)'
    <3>1. \A o \in Operations : Kind(o) # Kind(op) /\ Waits(t, o) => Waits(t, o)'
      BY <1>5, KindIs DEF Waits
    <3>2. ChainSound(t)'
      <4>1. \A o \in Operations : Kind(o) # Kind(Head(writeChain[t])) /\ Waits(t, o) => Waits(t, o)'
        BY <3>1 DEF op
      <4> QED BY <1>1, <1>2, <2>3, <4>1, ChainShrinks
    <3>3. PlaceSound(t)'
      BY <1>1, <1>2, <1>5, <2>1, <2>2, <2>6 DEF PlaceSound
    <3>4. RunnerSound(t)'
      BY <1>1, <1>2, <1>5, <2>6 DEF RunnerSound
    <3>5. BudgetSound(t)'
      BY <1>1, <1>2, <1>5, <2>1, <2>2, <2>4 DEF BudgetSound, Internal
    <3> QED BY <1>1, <1>2, <2>1, <2>2, <3>2, <3>3, <3>4, <3>5 DEF TaskSound, RetrySound
  <2>8. \A u \in Task : u # t => SameTask(u)
    BY <1>1, <1>5, <2>2, <2>3, <2>4 DEF SameTask
  <2>9. SeatsSound'
    <3>1. \A u \in Task : (Held(u)' => Held(u)) /\ (InSeat(u)' => InSeat(u))
      <4> SUFFICES ASSUME NEW u \in Task PROVE (Held(u)' => Held(u)) /\ (InSeat(u)' => InSeat(u))
        OBVIOUS
      <4>1. Held(u)' => Held(u)
        BY <1>1, <1>5, <2>1, <2>2 DEF Held
      <4> QED BY <1>1, <1>5, <4>1 DEF InSeat, Internal
    <3> QED BY <1>1, <1>2, <2>5, <3>1, SeatsStay DEF AgentInv
  <2>10. PurseSound'
    <3>1. /\ IsFiniteSet(budget'.reserved)
          /\ Cardinality(budget'.reserved) <= Cardinality(budget.reserved)
          /\ Cardinality(budget'.reserved) \in Nat /\ Cardinality(budget.reserved) \in Nat
      BY <2>4, FewerTasks DEF AgentInv, PurseSound
    <3>2. budget.spent \in Nat /\ limits.total \in Nat /\ limits.dearest \in Nat
      BY <1>2, LimitTypes DEF AgentTypes
    <3> QED BY <1>1, <2>4, <3>1, <3>2, FewerShares DEF AgentInv, PurseSound
  <2>11. LineageSound'
    <3>1. \A u \in Task : (Live(u)' => Live(u)) /\ (runner'[u].at = "works" => runner[u].at = "works")
      BY <1>5 DEF Live
    <3> QED BY <1>1, <3>1, LineageStays DEF AgentInv
  <2>12. DrainSound'
    <3>1. drain.at \in {"reads", "cancels", "marks"} => spawn'[drain.task].at = "queued"
      BY <2>1, <2>2 DEF AgentInv, DrainSound
    <3>2. drain.at = "reads" => /\ drain.task \in signalled' \/ (drain.task \in queuedStarts' /\ bridge' = "open")
                                /\ runner'[drain.task].at = "none"
      BY <1>1, <1>5 DEF AgentInv, DrainSound
    <3>3. drain.at = "marks" => runner'[drain.task].at = "made"
      BY <1>5 DEF AgentInv, DrainSound
    <3> QED BY <1>1, <2>5, <3>1, <3>2, <3>3, DrainStays
  <2> QED BY <1>1, <2>5, <2>7, <2>8, <2>9, <2>10, <2>11, <2>12, TaskMoves
\* The cancellation gives up.
<1>6. CASE /\ op \in Callers /\ cancel' = [cancel EXCEPT ![t][op] = "none"] /\ lost' = lost \cup {t}
           /\ writeChain' = [writeChain EXCEPT ![t] = Tail(@)] /\ UNCHANGED <<spawn, runner, budget>>
  <2>1. cancel[t][op] = "posted"
    BY <1>3, <1>6 DEF Waits
  <2>2. /\ cancel' \in [Task -> [Callers -> Calls]] /\ cancel'[t][op] = "none"
        /\ \A d \in Callers : d # op => cancel'[t][d] = cancel[t][d]
        /\ \A u \in Task : u # t => cancel'[u] = cancel[u]
    BY <1>2, <1>6, CancelIs DEF Calls
  <2>3. Posted(t)' => Posted(t)
    BY <1>6, <2>1 DEF Posted
  <2>4. spawn[t].at = "queued" /\ lost' \subseteq Task /\ lost \subseteq lost' /\ t \in lost'
    BY <1>2, <1>6, <2>1 DEF PlaceSound, AgentTypes
  <2>5. /\ writeChain'[t] = Tail(writeChain[t]) /\ writeChain' \in [Task -> Seq(Operations)]
        /\ \A u \in Task : u # t => writeChain'[u] = writeChain[u]
    BY <1>2, <1>3, <1>6 DEF AgentTypes
  <2>6. \A o \in Operations : Kind(o) # Kind(op) /\ Waits(t, o) => Waits(t, o)'
    BY <1>6, <2>2, KindIs DEF Waits
  <2>7. ChainSound(t)'
    <3>1. \A o \in Operations : Kind(o) # Kind(Head(writeChain[t])) /\ Waits(t, o) => Waits(t, o)'
      BY <2>6 DEF op
    <3> QED BY <1>1, <1>2, <2>5, <3>1, ChainShrinks
  <2>8. record' \in [Task -> RecordTypes] /\ \A u \in Task : u # t => record'[u] = record[u]
    BY <1>1, <1>2 DEF AgentTypes, RecordTypes
  <2> QED BY <1>1, <1>6, <2>2, <2>3, <2>4, <2>5, <2>7, <2>8, CancelGoes
\* The runner reports a failure instead.
<1>7. CASE /\ op \in {"running"} \cup Ended /\ runner' = [runner EXCEPT ![t].at = "ending"]
           /\ writeChain' = [writeChain EXCEPT ![t] = Append(Tail(@), "failed")]
           /\ UNCHANGED <<spawn, cancel, budget, lost>>
  <2>1. runner[t].at \in {"starting", "ending"} /\ (op = "running" => runner[t].at = "starting")
        /\ (op \in Ended => runner[t].at = "ending")
    BY <1>3, <1>7 DEF Waits
  <2> DEFINE c == [runner[t] EXCEPT !.at = "ending"]
  <2>2. c \in RunnerTypes /\ c.at = "ending" /\ c.aborted = runner[t].aborted
    BY <1>2 DEF RunnerTypes, RunnerPlaces, Endings
  <2>3. runner' = [runner EXCEPT ![t] = c]
    BY <1>7
  <2> HIDE DEF c
  <2>4. runner'[t] = c
    BY <1>2, <2>3 DEF AgentTypes
  <2>5. "failed" \in Ended /\ "failed" \in Operations
    BY DEF Ended, Operations
  <2>6. \A o \in Operations : Kind(o) = Kind("failed") /\ Kind(o) # Kind(op) => ~Waits(t, o)
    BY <1>7, <2>1, <2>5, KindIs DEF Waits
  <2>7. \A o \in Operations : Kind(o) # Kind(op) /\ Kind(o) # Kind("failed") /\ Waits(t, o) => Waits(t, o)'
    BY <1>7, <2>1, <2>5, KindIs DEF Waits
  <2>8. Waits(t, "failed")'
    BY <2>2, <2>4 DEF Waits, Callers
  <2>9. /\ writeChain'[t] = Append(Tail(writeChain[t]), "failed")
        /\ \A u \in Task : u # t => writeChain'[u] = writeChain[u]
    BY <1>2, <1>7 DEF AgentTypes
  <2>10. ChainSound(t)' /\ writeChain'[t] \in Seq(Operations)
    <3>1. \A o \in Operations : Kind(o) = Kind("failed") /\ Kind(o) # Kind(Head(writeChain[t])) => ~Waits(t, o)
      BY <2>6 DEF op
    <3>2. \A o \in Operations : Kind(o) # Kind(Head(writeChain[t])) /\ Kind(o) # Kind("failed") /\ Waits(t, o)
                                  => Waits(t, o)'
      BY <2>7 DEF op
    <3> QED BY <1>1, <1>2, <2>5, <2>8, <2>9, <3>1, <3>2, ChainTurns
  <2>11. writeChain' \in [Task -> Seq(Operations)]
    BY <1>2, <1>7, <2>9, <2>10 DEF AgentTypes
  <2>12. record' \in [Task -> RecordTypes] /\ retry' \in [Task -> {"none", "reads", "timer", "closed"}]
    BY <1>1, <1>2 DEF AgentTypes, RecordTypes
  <2>13. runner[t].at \notin {"none", "gone", "made"} /\ c.at \notin {"none", "gone", "made"}
         /\ (c.at = "works" => ~c.aborted)
    BY <2>1, <2>2
  <2> QED BY <1>1, <1>7, <2>2, <2>3, <2>9, <2>10, <2>11, <2>12, <2>13, RunnerGoes
<1> QED BY <1>4, <1>5, <1>6, <1>7

-----------------------------------------------------------------------------
\* cancelTask takes the task from the queue, or aborts its runner.
LEMMA CancelReadsStep ==
  ASSUME AgentInv, NEW t \in Task, NEW by \in Callers, NEW named \in BOOLEAN, CancelReads(t, by, named)
  PROVE  AgentInv'
<1>1. /\ cancel[t][by] = "called"
      /\ UNCHANGED <<record, spawn, drain, active, lineage, budget, retry, bridge, lost, limits>>
  BY DEF CancelReads
<1>2. /\ AgentTypes /\ ChainSound(t) /\ PlaceSound(t) /\ RunnerSound(t) /\ BudgetSound(t)
      /\ RetrySound(t)
      /\ runner[t] \in RunnerTypes
  BY TaskFacts DEF RunnerTypes
<1>3. spawn[t].at = "queued"
  BY <1>1, <1>2 DEF PlaceSound
<1>4. record' \in [Task -> RecordTypes] /\ lost' \subseteq Task
  BY <1>1, <1>2 DEF AgentTypes, RecordTypes
\* The task has ended.
<1>5. CASE /\ cancel' = [cancel EXCEPT ![t][by] = "none"]
           /\ UNCHANGED <<writeChain, startQueue, queuedStarts, signalled, runner>>
  <2>1. /\ cancel' \in [Task -> [Callers -> Calls]] /\ cancel'[t][by] = "none"
        /\ \A d \in Callers : d # by => cancel'[t][d] = cancel[t][d]
        /\ \A u \in Task : u # t => cancel'[u] = cancel[u]
    BY <1>2, <1>5, CancelIs DEF Calls
  <2>2. Posted(t)' <=> Posted(t)
    BY <1>1, <2>1 DEF Posted
  <2>3. ChainSound(t)'
    BY <1>1, <1>2, <1>5, <2>1 DEF ChainSound, Waits
  <2>4. writeChain' \in [Task -> Seq(Operations)]
    BY <1>2, <1>5 DEF AgentTypes
  <2> QED BY <1>1, <1>3, <1>4, <1>5, <2>1, <2>2, <2>3, <2>4, CancelGoes
\* What both other cases have in common.
<1>6. ASSUME queuedStarts' = queuedStarts \ {t},
             signalled' = IF t \in queuedStarts THEN signalled \cup {t} ELSE signalled,
             AgentTypes', TaskSound(t)',
             \A u \in Task : u # t => cancel'[u] = cancel[u],
             \A u \in Task : u # t => writeChain'[u] = writeChain[u],
             \A u \in Task : u # t => runner'[u] = runner[u],
             runner'[t].at = runner[t].at, runner[t].aborted => runner'[t].aborted
      PROVE  AgentInv'
  <2>1. \A u \in Task : u # t => SameTask(u)
    BY <1>1, <1>6 DEF SameTask
  <2>2. SeatsSound'
    <3>1. \A u \in Task : (Held(u)' => Held(u)) /\ (InSeat(u)' => InSeat(u))
      BY <1>1, <1>6 DEF Held, InSeat, Internal
    <3> QED BY <1>1, <1>2, <1>6, <3>1, SeatsStay DEF AgentInv
  <2>3. PurseSound'
    BY <1>1 DEF AgentInv, PurseSound
  <2>4. LineageSound'
    <3>1. \A u \in Task : (Live(u)' => Live(u)) /\ (runner'[u].at = "works" => runner[u].at = "works")
      BY <1>6 DEF Live
    <3> QED BY <1>1, <3>1, LineageStays DEF AgentInv
  <2>5. DrainSound'
    <3>1. drain.at \in {"reads", "cancels", "marks"} => drain.task \in Task /\ spawn'[drain.task].at = "queued"
      BY <1>1 DEF AgentInv, DrainSound
    <3>2. \A u \in Task : runner'[u].at = runner[u].at
      BY <1>6
    <3>3. drain.at = "reads" => /\ drain.task \in signalled' \/ (drain.task \in queuedStarts' /\ bridge' = "open")
                                /\ runner'[drain.task].at = "none"
      BY <1>1, <1>6, <3>1, <3>2 DEF AgentInv, DrainSound
    <3>4. drain.at = "marks" => runner'[drain.task].at = "made"
      BY <3>1, <3>2 DEF AgentInv, DrainSound
    <3> QED BY <1>1, <1>6, <3>1, <3>3, <3>4, DrainStays
  <2> QED BY <1>1, <1>6, <2>1, <2>2, <2>3, <2>4, <2>5, TaskMoves
\* Its runner is aborted.
<1>7. CASE /\ record[t].status \notin Ended /\ t \in active /\ queuedStarts' = queuedStarts \ {t}
           /\ signalled' = IF t \in queuedStarts THEN signalled \cup {t} ELSE signalled
           /\ runner' = [runner EXCEPT ![t].aborted = TRUE, ![t].named = named]
           /\ cancel' = [cancel EXCEPT ![t][by] = "none"] /\ UNCHANGED writeChain
  <2>1. /\ cancel' \in [Task -> [Callers -> Calls]] /\ cancel'[t][by] = "none"
        /\ \A d \in Callers : d # by => cancel'[t][d] = cancel[t][d]
        /\ \A u \in Task : u # t => cancel'[u] = cancel[u]
    BY <1>2, <1>7, CancelIs DEF Calls
  <2> DEFINE c == [runner[t] EXCEPT !.aborted = TRUE, !.named = named]
  <2>2. c \in RunnerTypes /\ c.at = runner[t].at /\ c.aborted
    BY <1>2 DEF RunnerTypes
  <2>3. runner' = [runner EXCEPT ![t] = c]
    BY <1>7
  <2> HIDE DEF c
  <2>4. /\ runner' \in [Task -> RunnerTypes] /\ runner'[t].at = runner[t].at /\ runner'[t].aborted
        /\ \A u \in Task : u # t => runner'[u] = runner[u]
    BY <1>2, <2>2, <2>3 DEF AgentTypes, RunnerTypes
  <2>5. AgentTypes'
    BY <1>1, <1>2, <1>7, <2>1, <2>4 DEF AgentTypes, RunnerTypes
  <2>6. (Posted(t)' <=> Posted(t)) /\ (Live(t)' <=> Live(t))
    BY <1>1, <2>1, <2>4 DEF Posted, Live
  <2>7. Live(t)
    BY <1>2, <1>7 DEF PlaceSound
  <2>8. TaskSound(t)'
    <3>1. ChainSound(t)'
      BY <1>1, <1>2, <1>7, <2>1, <2>4 DEF ChainSound, Waits
    <3>2. PlaceSound(t)'
      BY <1>1, <1>2, <1>3, <1>7, <2>4, <2>6, <2>7 DEF PlaceSound, Live
    <3>3. RunnerSound(t)'
      BY <1>1, <1>2, <1>7, <2>4, <2>6, <2>7 DEF RunnerSound
    <3>4. BudgetSound(t)'
      BY <1>1, <1>2, <1>7, <2>6, <2>7 DEF BudgetSound, Internal
    <3> QED BY <1>1, <1>2, <3>1, <3>2, <3>3, <3>4 DEF TaskSound, RetrySound
  <2> QED BY <1>6, <1>7, <2>1, <2>4, <2>5, <2>8
\* Nobody has started it: the cancellation is queued.
<1>8. CASE /\ record[t].status \notin Ended /\ t \notin active /\ queuedStarts' = queuedStarts \ {t}
           /\ signalled' = IF t \in queuedStarts THEN signalled \cup {t} ELSE signalled
           /\ cancel' = [cancel EXCEPT ![t][by] = "posted"] /\ Post(t, by) /\ UNCHANGED runner
  <2>1. /\ cancel' \in [Task -> [Callers -> Calls]] /\ cancel'[t][by] = "posted"
        /\ \A d \in Callers : d # by => cancel'[t][d] = cancel[t][d]
        /\ \A u \in Task : u # t => cancel'[u] = cancel[u]
    BY <1>2, <1>8, CancelIs DEF Calls
  <2>2. by \in Operations /\ by \notin Ended /\ by \notin {"queued", "running"}
    BY DEF Operations, Ended, Callers
  <2>3. /\ writeChain'[t] = Append(writeChain[t], by)
        /\ \A u \in Task : u # t => writeChain'[u] = writeChain[u]
    BY <1>2, <1>8 DEF Post, AgentTypes
  <2>4. ChainSound(t)' /\ writeChain'[t] \in Seq(Operations)
    <3>1. \A o \in Operations : Kind(o) = Kind(by) => ~Waits(t, o)
      BY <1>1, <2>2, KindIs DEF Waits
    <3>2. \A o \in Operations : Kind(o) # Kind(by) /\ Waits(t, o) => Waits(t, o)'
      BY <1>1, <1>8, <2>1, KindIs DEF Waits
    <3>3. Waits(t, by)'
      BY <2>1, <2>2 DEF Waits
    <3> QED BY <1>2, <2>2, <2>3, <3>1, <3>2, <3>3, ChainGrows
  <2>5. writeChain' \in [Task -> Seq(Operations)]
    BY <1>2, <1>8, <2>4 DEF Post, AgentTypes
  <2>6. AgentTypes'
    <3>1. queuedStarts' \subseteq Task /\ signalled' \subseteq Task
      BY <1>2, <1>8 DEF AgentTypes
    <3> QED BY <1>1, <1>2, <1>8, <2>1, <2>5, <3>1 DEF AgentTypes
  <2>7. Posted(t)' /\ (Live(t)' <=> Live(t))
    BY <1>8, <2>1 DEF Posted, Live
  <2>8. TaskSound(t)'
    <3>2. PlaceSound(t)'
      BY <1>1, <1>2, <1>3, <1>8, <2>7 DEF PlaceSound
    <3>3. RunnerSound(t)'
      BY <1>1, <1>2, <1>8, <2>7 DEF RunnerSound
    <3>4. BudgetSound(t)'
      BY <1>1, <1>2, <1>3, <1>8, <2>7 DEF BudgetSound, Internal
    <3> QED BY <1>1, <1>2, <2>4, <3>2, <3>3, <3>4 DEF TaskSound, RetrySound
  <2> QED BY <1>6, <1>8, <2>1, <2>3, <2>6, <2>8
<1> QED BY <1>5, <1>7, <1>8 DEF CancelReads

-----------------------------------------------------------------------------
\* A seat and a share of the budget are claimed.
LEMMA AdmitFacts ==
  ASSUME AgentInv, NEW t \in Task, NEW n \in 0..RetryLimit, NEW of \in Task \cup {NoTask}, Admit(t, n, of)
  PROVE  /\ spawn[t].at = "none" /\ Admits(t) /\ spawn'[t].at = "admitted" /\ spawn'[t].attempt = n
         /\ spawn' \in [Task -> SpawnTypes] /\ (\A u \in Task : u # t => spawn'[u] = spawn[u])
         /\ writeChain' \in [Task -> Seq(Operations)]
         /\ writeChain'[t] = Append(writeChain[t], "queued")
         /\ \A u \in Task : u # t => writeChain'[u] = writeChain[u]
         /\ budget' \in [reserved : SUBSET Task, settled : SUBSET Task, spent : Nat]
         /\ budget'.settled = budget.settled /\ budget'.spent = budget.spent
         /\ budget'.reserved = IF t \in Internal THEN budget.reserved ELSE budget.reserved \cup {t}
<1>1. AgentTypes
  BY DEF AgentInv
<1>2. writeChain[t] \in Seq(Operations) /\ "queued" \in Operations
  BY <1>1 DEF AgentTypes, Operations
<1>3. Append(writeChain[t], "queued") \in Seq(Operations)
  BY <1>2, AppendProperties
<1>4. spawn' \in [Task -> SpawnTypes] /\ spawn'[t] = [at |-> "admitted", attempt |-> n, of |-> of]
      /\ \A u \in Task : u # t => spawn'[u] = spawn[u]
  BY <1>1 DEF Admit, AgentTypes, SpawnTypes, SpawnPlaces
<1>5. /\ writeChain' \in [Task -> Seq(Operations)]
      /\ writeChain'[t] = Append(writeChain[t], "queued")
      /\ \A u \in Task : u # t => writeChain'[u] = writeChain[u]
  BY <1>1, <1>3 DEF Admit, Post, AgentTypes
<1>6. /\ budget' \in [reserved : SUBSET Task, settled : SUBSET Task, spent : Nat]
      /\ budget'.settled = budget.settled /\ budget'.spent = budget.spent
      /\ budget'.reserved = IF t \in Internal THEN budget.reserved ELSE budget.reserved \cup {t}
  BY <1>1 DEF Admit, AgentTypes
<1> QED BY <1>4, <1>5, <1>6 DEF Admit

\* The seats and the budget suffice for what has been admitted.
LEMMA AdmitHolds ==
  ASSUME AgentInv, NEW t \in Task, NEW n \in 0..RetryLimit, NEW of \in Task \cup {NoTask}, Admit(t, n, of),
         retry' \in [Task -> {"none", "reads", "timer", "closed"}],
         \A u \in Task : (retry'[u] # "none" => retry[u] # "none") /\ (retry'[u] = "timer" => retry[u] = "timer"),
         UNCHANGED <<record, startQueue, queuedStarts, signalled, drain, active, lineage, runner,
                     cancel, bridge, lost, limits>>
  PROVE  AgentInv'
<1>1. /\ spawn[t].at = "none" /\ Admits(t) /\ spawn'[t].at = "admitted" /\ spawn'[t].attempt = n
      /\ spawn' \in [Task -> SpawnTypes] /\ (\A u \in Task : u # t => spawn'[u] = spawn[u])
      /\ writeChain' \in [Task -> Seq(Operations)]
      /\ writeChain'[t] = Append(writeChain[t], "queued")
      /\ \A u \in Task : u # t => writeChain'[u] = writeChain[u]
      /\ budget' \in [reserved : SUBSET Task, settled : SUBSET Task, spent : Nat]
      /\ budget'.settled = budget.settled /\ budget'.spent = budget.spent
      /\ budget'.reserved = IF t \in Internal THEN budget.reserved ELSE budget.reserved \cup {t}
  BY AdmitFacts
<1>2. /\ AgentTypes /\ ChainSound(t) /\ PlaceSound(t) /\ RunnerSound(t) /\ BudgetSound(t)
      /\ RetrySound(t)
  BY TaskFacts
<1>3. AgentTypes'
  BY <1>1, <1>2 DEF AgentTypes, SpawnTypes, SpawnPlaces
<1>4. \A u \in Task : (Live(u)' <=> Live(u)) /\ (Posted(u)' <=> Posted(u))
  BY DEF Live, Posted
<1>5. runner[t].at = "none" /\ t \notin queuedStarts /\ t \notin active /\ ~Posted(t) /\ ~runner[t].aborted
  BY <1>1, <1>2 DEF PlaceSound, Posted, Live
<1>6. ASSUME NEW u \in Task PROVE TaskSound(u)'
  <2>1. /\ ChainSound(u) /\ PlaceSound(u) /\ RunnerSound(u) /\ BudgetSound(u)
        /\ RetrySound(u)
    BY TaskFacts
  <2>2. RunnerSound(u)'
    BY <1>4, <2>1 DEF RunnerSound
  <2>3. CASE u # t
    <3>1. ChainSound(u)'
      <4>1. /\ writeChain'[u] = writeChain[u] /\ spawn'[u] = spawn[u] /\ runner'[u] = runner[u]
            /\ cancel'[u] = cancel[u]
        BY <1>1, <2>3
      <4> QED BY <2>1, <4>1 DEF ChainSound, Waits
    <3>2. PlaceSound(u)'
      BY <1>1, <1>4, <2>1, <2>3 DEF PlaceSound
    <3>3. BudgetSound(u)'
      BY <1>1, <1>4, <2>1, <2>3 DEF BudgetSound, Internal
    <3> QED BY <1>1, <2>1, <2>2, <2>3, <3>1, <3>2, <3>3 DEF TaskSound, RetrySound
  <2>4. CASE u = t
    <3>1. ChainSound(t)'
      <4>1. "queued" \in Operations /\ Waits(t, "queued")'
        BY <1>1 DEF Operations, Waits, Ended, Callers
      <4>2. \A o \in Operations : Kind(o) = Kind("queued") => ~Waits(t, o)
        BY <1>1, KindIs DEF Waits
      <4>3. \A o \in Operations : Kind(o) # Kind("queued") /\ Waits(t, o) => Waits(t, o)'
        BY KindIs DEF Waits
      <4> QED BY <1>1, <1>2, <4>1, <4>2, <4>3, ChainGrows
    <3>2. PlaceSound(t)'
      BY <1>1, <1>2, <1>4, <1>5 DEF PlaceSound
    <3>3. BudgetSound(t)'
      <4>1. record'[t].status \notin Ended
        BY DEF Admit, NoRecord, Ended
      <4> QED BY <1>1, <1>2, <1>4, <1>5, <4>1 DEF BudgetSound, Internal
    <3> QED BY <1>1, <1>2, <2>2, <2>4, <3>1, <3>2, <3>3 DEF TaskSound, RetrySound
  <2> QED BY <2>3, <2>4
<1>7. SeatsSound'
  <2>1. Outstanding' \subseteq Outstanding \cup {t} /\ Seated' \subseteq Seated \cup {t}
    BY <1>1 DEF Seated, Outstanding, Internal
  <2>2. /\ IsFiniteSet(active) /\ Cardinality(active) <= limits.slots /\ IsFiniteSet(Outstanding)
        /\ bridge = "open" => Cardinality(Seated) <= limits.slots + limits.waiting
    BY DEF AgentInv, SeatsSound
  <2>3. IsFiniteSet(Outstanding')
    BY <2>1, <2>2, OneTaskMore
  <2>4. Seated \subseteq Outstanding /\ (t \in Internal => Seated' \subseteq Seated)
    BY <2>1 DEF Seated, Internal
  <2>5. IsFiniteSet(Seated) /\ Cardinality(Seated) <= Cardinality(Outstanding)
        /\ Cardinality(Seated) \in Nat /\ Cardinality(Outstanding) \in Nat
    BY <2>2, <2>4, FewerTasks
  <2>6. Cardinality(Seated') <= Cardinality(Seated) + 1 /\ Cardinality(Seated') \in Nat
    BY <2>1, <2>5, OneTaskMore
  <2>7. t \in Internal => Cardinality(Seated') <= Cardinality(Seated)
    BY <2>4, <2>5, FewerTasks
  <2>8. t \notin Internal => Cardinality(Outstanding) < limits.slots + limits.waiting
    BY <1>1 DEF Admits
  <2>9. limits.slots \in Nat /\ limits.waiting \in Nat
    BY <1>2, LimitTypes
  <2>10. bridge' = "open" => Cardinality(Seated') <= limits'.slots + limits'.waiting
    BY <2>2, <2>5, <2>6, <2>7, <2>8, <2>9
  <2> QED BY <2>2, <2>3, <2>10 DEF SeatsSound
<1>8. PurseSound'
  <2>1. /\ IsFiniteSet(budget.reserved)
        /\ bridge = "open" => budget.spent + Cardinality(budget.reserved) * limits.dearest
                                <= limits.total * limits.dearest
    BY DEF AgentInv, PurseSound
  <2>2. budget'.reserved \subseteq budget.reserved \cup {t}
    BY <1>1
  <2>3. /\ IsFiniteSet(budget'.reserved) /\ Cardinality(budget'.reserved) <= Cardinality(budget.reserved) + 1
        /\ Cardinality(budget'.reserved) \in Nat /\ Cardinality(budget.reserved) \in Nat
    BY <2>1, <2>2, OneTaskMore
  <2>4. t \notin Internal => budget.spent + Cardinality(budget.reserved) + 1 <= limits.total
    BY <1>1 DEF Admits, Affordable
  <2>5. budget.spent \in Nat /\ limits.total \in Nat /\ limits.dearest \in Nat \ {0}
    BY <1>2, LimitTypes DEF AgentTypes
  <2>6. budget'.spent = budget.spent /\ limits' = limits /\ bridge' = bridge
    BY <1>1
  <2>7. CASE t \in Internal
    <3>1. budget'.reserved = budget.reserved
      BY <1>1, <2>7
    <3> QED BY <2>1, <2>6, <3>1 DEF PurseSound
  <2>8. CASE t \notin Internal
    <3>1. budget.spent + (Cardinality(budget.reserved) + 1) * limits.dearest <= limits.total * limits.dearest
      BY <2>3, <2>4, <2>5, <2>8, SharePromised
    <3>2. Cardinality(budget.reserved) + 1 \in Nat
      BY <2>3
    <3>3. /\ Cardinality(budget'.reserved) * limits.dearest
               <= (Cardinality(budget.reserved) + 1) * limits.dearest
          /\ Cardinality(budget'.reserved) * limits.dearest \in Nat
          /\ (Cardinality(budget.reserved) + 1) * limits.dearest \in Nat
      BY <2>3, <2>5, <3>2, FewerShares
    <3>4. limits.total * limits.dearest \in Nat
      BY <2>5
    <3>5. budget.spent + Cardinality(budget'.reserved) * limits.dearest <= limits.total * limits.dearest
      BY <2>5, <3>1, <3>3, <3>4
    <3> QED BY <2>3, <2>6, <3>5 DEF PurseSound
  <2> QED BY <2>7, <2>8
<1>9. LineageSound'
  BY <1>4 DEF AgentInv, LineageSound
<1>10. DrainSound'
  <2>1. drain.at \in {"reads", "cancels", "marks"} => spawn'[drain.task].at = "queued"
    BY <1>1 DEF AgentInv, DrainSound
  <2>2. drain.at = "reads" => /\ drain.task \in signalled' \/ (drain.task \in queuedStarts' /\ bridge' = "open")
                              /\ runner'[drain.task].at = "none"
    BY DEF AgentInv, DrainSound
  <2>3. drain.at = "marks" => runner'[drain.task].at = "made"
    BY DEF AgentInv, DrainSound
  <2> QED BY <1>3, <2>1, <2>2, <2>3, DrainStays
<1> QED BY <1>3, <1>6, <1>7, <1>8, <1>9, <1>10 DEF AgentInv

LEMMA SpawnSubAgentStep ==
  ASSUME AgentInv, NEW t \in Task, SpawnSubAgent(t)
  PROVE  AgentInv'
<1>1. 0 \in 0..RetryLimit
  BY SubAgentAssumption DEF SubAgentAssumption
<1>2. /\ Admit(t, 0, NoTask)
      /\ UNCHANGED <<record, startQueue, queuedStarts, signalled, drain, active, lineage, runner,
                     cancel, retry, bridge, lost, limits>>
  BY DEF SpawnSubAgent
<1>4. /\ retry' \in [Task -> {"none", "reads", "timer", "closed"}]
      /\ \A u \in Task : (retry'[u] # "none" => retry[u] # "none") /\ (retry'[u] = "timer" => retry[u] = "timer")
  BY <1>2 DEF AgentInv, AgentTypes
<1> QED BY <1>1, <1>2, <1>4, AdmitHolds

\* The timer of a retry admits a new task, if it can.
LEMMA RetryFiresStep ==
  ASSUME AgentInv, NEW t \in Task, RetryFires(t)
  PROVE  AgentInv'
<1>1. /\ retry[t] = "timer" /\ retry' = [retry EXCEPT ![t] = "closed"]
      /\ UNCHANGED <<record, startQueue, queuedStarts, signalled, drain, active, lineage, runner,
                     cancel, bridge, lost, limits>>
  BY DEF RetryFires
<1>2. /\ AgentTypes /\ ChainSound(t) /\ PlaceSound(t) /\ RunnerSound(t) /\ BudgetSound(t) /\ RetrySound(t)
      /\ spawn[t].attempt < RetryLimit /\ spawn[t].attempt \in 0..RetryLimit
  BY <1>1, TaskFacts DEF RetrySound
<1>3. /\ retry' \in [Task -> {"none", "reads", "timer", "closed"}]
      /\ \A u \in Task : (retry'[u] # "none" => retry[u] # "none") /\ (retry'[u] = "timer" => retry[u] = "timer")
      /\ \A u \in Task : u # t => retry'[u] = retry[u]
      /\ retry'[t] = "closed"
  BY <1>1, <1>2 DEF AgentTypes
<1>4. ASSUME NEW u \in Task, Admit(u, spawn[t].attempt + 1, t) PROVE AgentInv'
  <2> DEFINE n == spawn[t].attempt + 1
  <2>1. n \in 0..RetryLimit
    BY <1>2, SubAgentAssumption DEF SubAgentAssumption
  <2>2. Admit(u, n, t)
    BY <1>4
  <2> HIDE DEF n
  <2> QED BY <1>1, <1>3, <2>1, <2>2, AdmitHolds
<1>5. CASE UNCHANGED <<spawn, budget, writeChain>>
  <2>1. AgentTypes'
    BY <1>1, <1>2, <1>3, <1>5 DEF AgentTypes
  <2>2. (Live(t)' <=> Live(t)) /\ (Posted(t)' <=> Posted(t))
    BY <1>1 DEF Live, Posted
  <2>3. TaskSound(t)'
    <3>1. ChainSound(t)'
      BY <1>1, <1>2, <1>5 DEF ChainSound, Waits
    <3>2. PlaceSound(t)'
      BY <1>1, <1>2, <1>5, <2>2 DEF PlaceSound
    <3>3. RunnerSound(t)'
      BY <1>1, <1>2, <1>5, <2>2 DEF RunnerSound
    <3>4. BudgetSound(t)'
      BY <1>1, <1>2, <1>5, <2>2 DEF BudgetSound, Internal
    <3> QED BY <1>2, <1>3, <1>5, <3>1, <3>2, <3>3, <3>4 DEF TaskSound, RetrySound
  <2>4. \A u \in Task : u # t => SameTask(u)
    BY <1>1, <1>3, <1>5 DEF SameTask
  <2> QED BY <1>1, <1>2, <1>5, <2>1, <2>2, <2>3, <2>4, TaskGoesQuietly
<1> QED BY <1>4, <1>5 DEF RetryFires

-----------------------------------------------------------------------------
\* What a drain that starts, or stays as it is, looks like.
LEMMA ScheduledIs ==
  ASSUME AgentTypes
  PROVE  /\ Scheduled = drain \/ (drain.at = "off" /\ Scheduled.at = "loop")
         /\ Scheduled \in [at : {"off", "loop", "reads", "cancels", "marks"}, task : Task \cup {NoTask}]
<1> DEFINE d == [drain EXCEPT !.at = "loop"]
<1>1. drain \in [at : {"off", "loop", "reads", "cancels", "marks"}, task : Task \cup {NoTask}]
  BY DEF AgentTypes
<1>2. d.at = "loop" /\ d \in [at : {"off", "loop", "reads", "cancels", "marks"}, task : Task \cup {NoTask}]
  BY <1>1
<1>3. (Scheduled = d /\ drain.at = "off") \/ Scheduled = drain
  BY DEF Scheduled
<1> HIDE DEF d
<1> QED BY <1>1, <1>2, <1>3

\* The seat passes to the start queue.
LEMMA HandOverStep ==
  ASSUME AgentInv, NEW t \in Task, HandOver(t)
  PROVE  AgentInv'
<1>1. /\ spawn[t].at = "written" /\ spawn' = [spawn EXCEPT ![t].at = "queued"]
      /\ queuedStarts' = queuedStarts \cup {t} /\ drain' = Scheduled
      /\ UNCHANGED <<record, writeChain, signalled, active, lineage, runner, cancel, budget, retry,
                     bridge, lost, limits>>
  BY DEF HandOver
<1>2. /\ AgentTypes /\ ChainSound(t) /\ PlaceSound(t) /\ RunnerSound(t) /\ BudgetSound(t) /\ RetrySound(t)
  BY TaskFacts
<1>3. /\ spawn'[t].at = "queued" /\ spawn'[t].attempt = spawn[t].attempt
      /\ \A u \in Task : u # t => spawn'[u] = spawn[u]
      /\ spawn' \in [Task -> SpawnTypes]
  BY <1>1, <1>2, SpawnIs DEF SpawnPlaces
<1>4. /\ drain' = drain \/ (drain.at = "off" /\ drain'.at = "loop")
      /\ drain' \in [at : {"off", "loop", "reads", "cancels", "marks"}, task : Task \cup {NoTask}]
  BY <1>1, <1>2, ScheduledIs
<1>5. AgentTypes'
  <2>1. queuedStarts' \subseteq Task
    BY <1>1, <1>2 DEF AgentTypes
  <2> QED BY <1>1, <1>2, <1>3, <1>4, <2>1 DEF AgentTypes, SpawnTypes, SpawnPlaces
<1>6. (Live(t)' <=> Live(t)) /\ (Posted(t)' <=> Posted(t))
  BY <1>1 DEF Live, Posted
<1>7. runner[t].at = "none" /\ ~Posted(t)
  BY <1>1, <1>2 DEF PlaceSound, Posted
<1>8. TaskSound(t)'
  <2>1. ChainSound(t)'
    BY <1>1, <1>2, <1>3 DEF ChainSound, Waits
  <2>2. PlaceSound(t)'
    BY <1>1, <1>2, <1>3, <1>6, <1>7 DEF PlaceSound
  <2>3. RunnerSound(t)'
    BY <1>1, <1>2, <1>6 DEF RunnerSound
  <2>4. BudgetSound(t)'
    BY <1>1, <1>2, <1>3, <1>6 DEF BudgetSound, Internal
  <2> QED BY <1>1, <1>2, <1>3, <2>1, <2>2, <2>3, <2>4 DEF TaskSound, RetrySound
<1>9. \A u \in Task : u # t => SameTask(u)
  BY <1>1, <1>3 DEF SameTask
<1>10. SeatsSound'
  <2>1. \A u \in Task : Held(u)' => Held(u)
    BY <1>1, <1>3 DEF Held
  <2>2. \A u \in Task : InSeat(u)' => InSeat(u)
    BY <1>1, <2>1 DEF InSeat, Internal
  <2> QED BY <1>1, <1>2, <1>5, <2>1, <2>2, SeatsStay DEF AgentInv
<1>11. PurseSound'
  BY <1>1 DEF AgentInv, PurseSound
<1>12. LineageSound'
  <2>1. \A u \in Task : (Live(u)' => Live(u)) /\ (runner'[u].at = "works" => runner[u].at = "works")
    BY <1>1 DEF Live
  <2> QED BY <1>1, <2>1, LineageStays DEF AgentInv
<1>13. DrainSound'
  <2>1. drain.at \in {"reads", "cancels", "marks"} => spawn'[drain.task].at = "queued"
    BY <1>1, <1>3 DEF AgentInv, DrainSound
  <2>2. drain.at = "reads" => /\ drain.task \in signalled' \/ (drain.task \in queuedStarts' /\ bridge' = "open")
                              /\ runner'[drain.task].at = "none"
    BY <1>1 DEF AgentInv, DrainSound
  <2>3. drain.at = "marks" => runner'[drain.task].at = "made"
    BY <1>1 DEF AgentInv, DrainSound
  <2> QED BY <1>1, <1>4, <1>5, <2>1, <2>2, <2>3, DrainStays
<1> QED BY <1>1, <1>5, <1>8, <1>9, <1>10, <1>11, <1>12, <1>13, TaskMoves

\* The drain takes a task that may start in hand.
LEMMA DrainPicksStep ==
  ASSUME AgentInv, DrainPicks
  PROVE  AgentInv'
<1>1. /\ MayStart /\ drain.at = "loop"
      /\ UNCHANGED <<record, writeChain, spawn, queuedStarts, signalled, active, lineage, runner,
                     budget, retry, bridge, lost, limits>>
  BY DEF DrainPicks
<1>2. PICK i \in Picked :
        /\ drain' = [at |-> IF startQueue[i] \in signalled THEN "cancels" ELSE "reads", task |-> startQueue[i]]
        /\ cancel' = IF startQueue[i] \in signalled THEN [cancel EXCEPT ![startQueue[i]]["drain"] = "called"]
                     ELSE cancel
  BY DEF DrainPicks
<1>4. AgentTypes
  BY DEF AgentInv
<1>3. PICK t \in Task : t = startQueue[i] /\ Runnable(t)
  BY <1>4 DEF Picked, Runnable, AgentTypes
<1>5. /\ t \in queuedStarts /\ (limits.related => lineage = NoTask) /\ bridge = "open"
      /\ Cardinality(active) < limits.slots
  BY <1>1, <1>3, <1>4 DEF Runnable, MayStart, AgentTypes
<1>6. /\ drain' = [at |-> IF t \in signalled THEN "cancels" ELSE "reads", task |-> t]
      /\ cancel' = IF t \in signalled THEN [cancel EXCEPT ![t]["drain"] = "called"] ELSE cancel
  BY <1>2, <1>3
<1>7. ChainSound(t) /\ PlaceSound(t) /\ RunnerSound(t) /\ BudgetSound(t) /\ RetrySound(t)
  BY <1>5, TaskFacts
<1>8. spawn[t].at = "queued" /\ runner[t].at = "none" /\ ~Posted(t)
  BY <1>5, <1>7 DEF PlaceSound
<1>9. /\ cancel' \in [Task -> [Callers -> Calls]]
      /\ \A d \in Callers : cancel'[t][d] = cancel[t][d] \/ (cancel'[t][d] = "called" /\ d = "drain")
      /\ \A u \in Task : u # t => cancel'[u] = cancel[u]
  <2>1. CASE t \in signalled
    <3>1. cancel' = [cancel EXCEPT ![t]["drain"] = "called"] /\ "drain" \in Callers /\ "called" \in Calls
      BY <1>6, <2>1 DEF Callers, Calls
    <3> QED BY <1>4, <1>5, <3>1, CancelIs
  <2>2. CASE t \notin signalled
    BY <1>4, <1>6, <2>2 DEF AgentTypes
  <2> QED BY <2>1, <2>2
<1>10. AgentTypes'
  <2>1. drain' \in [at : {"off", "loop", "reads", "cancels", "marks"}, task : Task \cup {NoTask}]
    BY <1>5, <1>6
  <2> QED BY <1>1, <1>4, <1>9, <2>1 DEF AgentTypes
<1>11. (Live(t)' <=> Live(t)) /\ ~Posted(t)'
  BY <1>1, <1>8, <1>9 DEF Live, Posted
<1>12. TaskSound(t)'
  <2>1. \A d \in Callers : cancel[t][d] # "posted"
    BY <1>8 DEF Posted
  <2>2. ChainSound(t)'
    BY <1>1, <1>7, <1>9, <2>1 DEF ChainSound, Waits
  <2>3. PlaceSound(t)'
    BY <1>1, <1>7, <1>8, <1>11 DEF PlaceSound
  <2>4. RunnerSound(t)'
    BY <1>1, <1>7, <1>11 DEF RunnerSound
  <2>5. BudgetSound(t)'
    BY <1>1, <1>7, <1>8, <1>11 DEF BudgetSound, Internal
  <2> QED BY <1>1, <1>7, <2>2, <2>3, <2>4, <2>5 DEF TaskSound, RetrySound
<1>13. \A u \in Task : u # t => SameTask(u)
  BY <1>1, <1>9 DEF SameTask
<1>14. SeatsSound'
  <2>1. \A u \in Task : (Held(u)' => Held(u)) /\ (InSeat(u)' => InSeat(u))
    BY <1>1 DEF InSeat, Held, Internal
  <2> QED BY <1>1, <1>4, <1>10, <2>1, SeatsStay DEF AgentInv
<1>15. PurseSound'
  BY <1>1 DEF AgentInv, PurseSound
<1>16. LineageSound'
  <2>1. \A u \in Task : (Live(u)' => Live(u)) /\ (runner'[u].at = "works" => runner[u].at = "works")
    BY <1>1 DEF Live
  <2> QED BY <1>1, <2>1, LineageStays DEF AgentInv
<1>17. DrainSound'
  BY <1>1, <1>5, <1>6, <1>8 DEF DrainSound
<1> QED BY <1>1, <1>5, <1>10, <1>12, <1>13, <1>14, <1>15, <1>16, <1>17, TaskMoves

\* The drain puts down what it had in hand, or ends.
LEMMA DrainRests ==
  ASSUME AgentInv, drain'.at \in {"off", "loop"},
         drain' \in [at : {"off", "loop", "reads", "cancels", "marks"}, task : Task \cup {NoTask}],
         UNCHANGED <<record, writeChain, spawn, queuedStarts, signalled, active, lineage,
                     runner, cancel, budget, retry, bridge, lost, limits>>
  PROVE  AgentInv'
<1>1. AgentTypes /\ AgentTypes'
  BY DEF AgentInv, AgentTypes
<1>2. ASSUME NEW u \in Task PROVE TaskSound(u)'
  BY TaskStays DEF AgentInv, SameTask
<1>3. SeatsSound'
  <2>1. \A u \in Task : (Held(u)' => Held(u)) /\ (InSeat(u)' => InSeat(u))
    BY DEF InSeat, Held, Internal
  <2> QED BY <1>1, <2>1, SeatsStay DEF AgentInv
<1>4. PurseSound' /\ LineageSound'
  BY DEF AgentInv, PurseSound, LineageSound, Live
<1>5. DrainSound'
  BY DEF DrainSound
<1> QED BY <1>1, <1>2, <1>3, <1>4, <1>5 DEF AgentInv

LEMMA DrainEndsStep ==
  ASSUME AgentInv, DrainEnds \/ DrainCancelled
  PROVE  AgentInv'
<1>1. /\ drain'.at \in {"off", "loop"}
      /\ drain' \in [at : {"off", "loop", "reads", "cancels", "marks"}, task : Task \cup {NoTask}]
  BY DEF DrainEnds, DrainCancelled, NotDraining
<1>2. UNCHANGED <<record, writeChain, spawn, queuedStarts, signalled, active, lineage,
                  runner, cancel, budget, retry, bridge, lost, limits>>
  BY DEF DrainEnds, DrainCancelled
<1> QED BY <1>1, <1>2, DrainRests

-----------------------------------------------------------------------------
\* The drain reads the record of the task in hand: a task that has ended or
\* cannot be read is dropped, any other gets a runner.
LEMMA DrainReadsStep ==
  ASSUME AgentInv, DrainReads
  PROVE  AgentInv'
<1>0. drain.at = "reads" /\ drain.task \in Task
  BY DEF DrainReads, AgentInv, DrainSound
<1> PICK t \in Task : t = drain.task
  BY <1>0
<1>1. /\ drain.at = "reads" /\ queuedStarts' = queuedStarts \ {t}
      /\ UNCHANGED <<record, writeChain, spawn, startQueue, signalled, cancel, budget, retry, bridge,
                     limits>>
  BY DEF DrainReads
<1>2. /\ t \in Task /\ spawn[t].at = "queued" /\ runner[t].at = "none"
      /\ t \in signalled \/ (t \in queuedStarts /\ bridge = "open")
      /\ Cardinality(active) < limits.slots
      /\ limits.related => lineage = NoTask
  BY <1>1 DEF AgentInv, DrainSound
<1>3. \/ /\ record[t].status \in Ended \/ t \in lost'
         /\ drain' = [NotDraining EXCEPT !.at = "loop"] /\ lost' \in {lost, lost \cup {t}}
         /\ UNCHANGED <<active, lineage, runner>>
      \/ /\ record[t].status \notin Ended /\ drain' = [drain EXCEPT !.at = "marks"]
         /\ active' = active \cup {t} /\ lineage' = (IF limits.related THEN t ELSE lineage)
         /\ runner' = [runner EXCEPT ![t] = [NoRunner EXCEPT !.at = "made", !.aborted = t \in signalled]]
         /\ UNCHANGED lost
  BY DEF DrainReads
<1>4. drain \in [at : {"off", "loop", "reads", "cancels", "marks"}, task : Task \cup {NoTask}]
  BY DEF AgentInv, AgentTypes
<1>5. [drain EXCEPT !.at = "marks"] = [at |-> "marks", task |-> t]
  BY <1>4
<1>6. /\ AgentTypes /\ ChainSound(t) /\ PlaceSound(t) /\ RunnerSound(t) /\ BudgetSound(t) /\ RetrySound(t)
  BY <1>2, TaskFacts
<1>7. \A u \in Task : Posted(u)' <=> Posted(u)
  BY <1>1 DEF Posted
\* The task is dropped.
<1>8. CASE /\ record[t].status \in Ended \/ t \in lost'
           /\ drain' = [NotDraining EXCEPT !.at = "loop"] /\ lost' \in {lost, lost \cup {t}}
           /\ UNCHANGED <<active, lineage, runner>>
  <2>1. drain' = [at |-> "loop", task |-> NoTask]
    BY <1>8 DEF NotDraining
  <2>2. AgentTypes'
    <3>1. queuedStarts' \subseteq Task /\ lost' \subseteq Task
      BY <1>1, <1>2, <1>6, <1>8 DEF AgentTypes
    <3>2. drain' \in [at : {"off", "loop", "reads", "cancels", "marks"}, task : Task \cup {NoTask}]
      BY <2>1
    <3> QED BY <1>1, <1>6, <1>8, <3>1, <3>2 DEF AgentTypes
  <2>3. \A u \in Task : Live(u)' <=> Live(u)
    BY <1>8 DEF Live
  <2>4. TaskSound(t)'
    <3>1. ChainSound(t)'
      BY <1>1, <1>6, <1>8 DEF ChainSound, Waits
    <3>2. PlaceSound(t)'
      BY <1>1, <1>2, <1>6, <1>7, <1>8, <2>3 DEF PlaceSound
    <3>3. RunnerSound(t)'
      BY <1>1, <1>2, <1>6, <1>7, <1>8, <2>3 DEF RunnerSound
    <3>4. BudgetSound(t)'
      BY <1>1, <1>2, <1>6, <1>7, <1>8, <2>3 DEF BudgetSound, Internal
    <3> QED BY <1>1, <1>6, <3>1, <3>2, <3>3, <3>4 DEF TaskSound, RetrySound
  <2>5. \A u \in Task : u # t => SameTask(u)
    BY <1>1, <1>8 DEF SameTask
  <2>6. SeatsSound'
    <3>1. \A u \in Task : (Held(u)' => Held(u)) /\ (InSeat(u)' => InSeat(u))
      BY <1>1, <1>8 DEF InSeat, Held, Internal
    <3> QED BY <1>1, <1>6, <1>8, <2>2, <3>1, SeatsStay DEF AgentInv
  <2>7. PurseSound' /\ LineageSound'
    BY <1>1, <1>8, <2>3 DEF AgentInv, PurseSound, LineageSound
  <2>8. DrainSound'
    BY <2>1 DEF DrainSound
  <2> QED BY <1>1, <1>2, <2>2, <2>4, <2>5, <2>6, <2>7, <2>8, TaskMoves
\* It gets a runner, an aborted one if it has been signalled.
<1>9. CASE /\ record[t].status \notin Ended /\ drain' = [drain EXCEPT !.at = "marks"]
           /\ active' = active \cup {t} /\ lineage' = (IF limits.related THEN t ELSE lineage)
           /\ runner' = [runner EXCEPT ![t] = [NoRunner EXCEPT !.at = "made", !.aborted = t \in signalled]]
           /\ UNCHANGED lost
  <2>0. PICK b \in BOOLEAN : b <=> t \in signalled
    <3>1. TRUE \in BOOLEAN /\ FALSE \in BOOLEAN
      OBVIOUS
    <3> QED BY <3>1
  <2> DEFINE c == [NoRunner EXCEPT !.at = "made", !.aborted = b]
  <2>1. c \in RunnerTypes /\ c.at = "made" /\ (c.aborted <=> t \in signalled)
    BY <2>0, LimitTypes DEF AgentInv, RunnerTypes, RunnerPlaces, NoRunner
  <2>2. runner' = [runner EXCEPT ![t] = c]
    <3>1. b = (t \in signalled)
      BY <2>0
    <3> QED BY <1>9, <3>1, Zenon
  <2> HIDE DEF c
  <2>3. /\ runner'[t] = c /\ \A u \in Task : u # t => runner'[u] = runner[u]
        /\ runner' \in [Task -> RunnerTypes]
    BY <1>2, <1>6, <2>1, <2>2 DEF AgentTypes, RunnerTypes
  <2>4. drain' = [at |-> "marks", task |-> t]
    BY <1>5, <1>9
  <2>5. AgentTypes'
    <3>1. /\ queuedStarts' \subseteq Task /\ active' \subseteq Task
          /\ lineage' \in Task \cup {NoTask}
      BY <1>1, <1>2, <1>6, <1>9 DEF AgentTypes
    <3>2. drain' \in [at : {"off", "loop", "reads", "cancels", "marks"}, task : Task \cup {NoTask}]
      BY <2>4
    <3> QED BY <1>1, <1>6, <1>9, <2>3, <3>1, <3>2 DEF AgentTypes, RunnerTypes
  <2>6. Live(t)' /\ ~Live(t)
    BY <1>2, <2>1, <2>3 DEF Live
  <2>7. TaskSound(t)'
    <3>1. ChainSound(t)'
      BY <1>1, <1>2, <1>6, <2>1, <2>3 DEF ChainSound, Waits
    <3>2. PlaceSound(t)'
      BY <1>1, <1>2, <1>6, <1>7, <2>1, <2>3, <2>6 DEF PlaceSound
    <3>3. RunnerSound(t)'
      <4>1. Posted(t) => t \in signalled
        BY <1>2, <1>6 DEF PlaceSound
      <4>2. t \in active'
        BY <1>9
      <4> QED BY <1>1, <1>2, <1>7, <2>1, <2>3, <4>1, <4>2 DEF RunnerSound
    <3>4. BudgetSound(t)'
      BY <1>1, <1>2, <1>6, <1>9, <2>6 DEF BudgetSound, Internal
    <3> QED BY <1>1, <1>6, <3>1, <3>2, <3>3, <3>4 DEF TaskSound, RetrySound
  <2>8. \A u \in Task : u # t => SameTask(u)
    BY <1>1, <1>9, <2>3 DEF SameTask
  <2>9. SeatsSound'
    <3>1. IsFiniteSet(active) /\ IsFiniteSet(Outstanding)
          /\ (bridge = "open" => Cardinality(Seated) <= limits.slots + limits.waiting)
      BY DEF AgentInv, SeatsSound
    <3>2. /\ IsFiniteSet(active') /\ Cardinality(active') <= Cardinality(active) + 1
          /\ Cardinality(active') \in Nat /\ Cardinality(active) \in Nat
      BY <1>9, <3>1, OneTaskMore
    <3>3. Outstanding' \subseteq Outstanding \cup {t}
      BY <1>1, <1>9 DEF Outstanding
    <3>4. IsFiniteSet(Outstanding')
      BY <3>1, <3>3, OneTaskMore
    <3>5. bridge = "open" => Seated' \subseteq Seated
      <4> SUFFICES ASSUME bridge = "open", NEW u \in Seated' PROVE u \in Seated
        OBVIOUS
      <4>1. /\ u \notin Internal /\ u \in Outstanding' /\ u \in Task /\ ~runner'[u].aborted
        BY <1>1, <2>5 DEF Seated, Outstanding, AgentTypes, Internal
      <4>2. CASE u = t
        <5>1. t \in queuedStarts
          BY <1>2, <2>1, <2>3, <4>1, <4>2
        <5>2. ~runner[t].aborted
          BY <1>2, <1>6 DEF PlaceSound
        <5> QED BY <4>1, <4>2, <5>1, <5>2 DEF Seated, Outstanding
      <4>3. CASE u # t
        <5>1. u \in Outstanding
          BY <3>3, <4>1, <4>3
        <5>2. ~runner[u].aborted
          BY <2>3, <4>1, <4>3
        <5> QED BY <4>1, <5>1, <5>2 DEF Seated
      <4> QED BY <4>2, <4>3
    <3>6. Seated \subseteq Outstanding
      BY DEF Seated
    <3>7. IsFiniteSet(Seated)
      BY <3>1, <3>6, FewerTasks
    <3>8. bridge = "open" => /\ Cardinality(Seated') <= Cardinality(Seated)
                             /\ Cardinality(Seated') \in Nat /\ Cardinality(Seated) \in Nat
      BY <3>5, <3>7, FewerTasks
    <3>9. limits.slots \in Nat /\ limits.waiting \in Nat
      BY <1>6, LimitTypes
    <3>10. Cardinality(active') <= limits'.slots
      BY <1>1, <1>2, <3>2, <3>9
    <3>11. bridge' = "open" => Cardinality(Seated') <= limits'.slots + limits'.waiting
      BY <1>1, <3>1, <3>8, <3>9
    <3> QED BY <3>2, <3>4, <3>10, <3>11 DEF SeatsSound
  <2>10. PurseSound'
    BY <1>1 DEF AgentInv, PurseSound
  <2>11. LineageSound'
    <3>1. ASSUME limits.related, bridge # "closed", NEW u \in Task, Live(u)' PROVE lineage' = u
      <4>1. CASE u = t
        BY <1>9, <3>1, <4>1
      <4>2. CASE u # t
        <5>1. Live(u)
          BY <2>3, <3>1, <4>2 DEF Live
        <5>2. lineage = u
          BY <3>1, <5>1 DEF AgentInv, LineageSound
        <5> QED BY <1>2, <3>1, <5>2, SubAgentAssumption DEF SubAgentAssumption
      <4> QED BY <4>1, <4>2
    <3>2. \A u \in Task : runner'[u].at = "works" => runner[u].at = "works"
      BY <2>1, <2>3
    <3>3. limits.related => \A u, v \in Task : runner'[u].at = "works" /\ runner'[v].at = "works" => u = v
      BY <3>2 DEF AgentInv, LineageSound
    <3> QED BY <1>1, <3>1, <3>3 DEF LineageSound
  <2>12. DrainSound'
    BY <1>1, <1>2, <2>1, <2>3, <2>4 DEF DrainSound
  <2> QED BY <1>1, <1>2, <2>5, <2>7, <2>8, <2>9, <2>10, <2>11, <2>12, TaskMoves
<1> QED BY <1>3, <1>8, <1>9

\* The runner of the task in hand starts, and queues its first write.
LEMMA DrainStartsStep ==
  ASSUME AgentInv, DrainStarts
  PROVE  AgentInv'
<1>0. drain.at = "marks" /\ drain.task \in Task
  BY DEF DrainStarts, AgentInv, DrainSound
<1> PICK t \in Task : t = drain.task
  BY <1>0
<1>1. /\ drain.at = "marks" /\ drain' = [NotDraining EXCEPT !.at = "loop"]
      /\ runner' = [runner EXCEPT ![t].at = "starting"] /\ Post(t, "running")
      /\ UNCHANGED <<record, spawn, startQueue, queuedStarts, signalled, active, lineage, cancel,
                     budget, retry, bridge, lost, limits>>
  BY DEF DrainStarts
<1>2. t \in Task /\ spawn[t].at = "queued" /\ runner[t].at = "made"
  BY <1>1 DEF AgentInv, DrainSound
<1>3. /\ AgentTypes /\ ChainSound(t) /\ PlaceSound(t) /\ RunnerSound(t) /\ BudgetSound(t) /\ RetrySound(t)
      /\ runner[t] \in RunnerTypes
  BY <1>2, TaskFacts DEF RunnerTypes
<1> DEFINE c == [runner[t] EXCEPT !.at = "starting"]
<1>4. c \in RunnerTypes /\ c.at = "starting" /\ c.aborted = runner[t].aborted
  BY <1>3 DEF RunnerTypes, RunnerPlaces
<1>5. runner' = [runner EXCEPT ![t] = c]
  BY <1>1
<1> HIDE DEF c
<1>6. /\ runner'[t] = c /\ \A u \in Task : u # t => runner'[u] = runner[u]
      /\ runner' \in [Task -> RunnerTypes]
  BY <1>2, <1>3, <1>4, <1>5 DEF AgentTypes, RunnerTypes
<1>7. "running" \in Operations /\ "running" \notin Ended \cup Callers
  BY DEF Operations, Ended, Callers
<1>8. /\ writeChain'[t] = Append(writeChain[t], "running")
      /\ \A u \in Task : u # t => writeChain'[u] = writeChain[u]
  BY <1>1, <1>2, <1>3 DEF Post, AgentTypes
<1>9. ChainSound(t)' /\ writeChain'[t] \in Seq(Operations)
  <2>1. \A o \in Operations : Kind(o) = Kind("running") => ~Waits(t, o)
    BY <1>2, <1>7, KindIs DEF Waits
  <2>2. \A o \in Operations : Kind(o) # Kind("running") /\ Waits(t, o) => Waits(t, o)'
    BY <1>1, <1>2, <1>7, KindIs DEF Waits
  <2>3. Waits(t, "running")'
    BY <1>4, <1>6, <1>7 DEF Waits
  <2> QED BY <1>2, <1>3, <1>7, <1>8, <2>1, <2>2, <2>3, ChainGrows
<1>10. drain' = [at |-> "loop", task |-> NoTask]
  BY <1>1 DEF NotDraining
<1>11. AgentTypes'
  <2>1. writeChain' \in [Task -> Seq(Operations)]
    BY <1>1, <1>2, <1>3, <1>9 DEF Post, AgentTypes
  <2>2. drain' \in [at : {"off", "loop", "reads", "cancels", "marks"}, task : Task \cup {NoTask}]
    BY <1>10
  <2> QED BY <1>1, <1>3, <1>6, <2>1, <2>2 DEF AgentTypes, RunnerTypes
<1>12. Live(t) /\ Live(t)' /\ (Posted(t)' <=> Posted(t))
  BY <1>1, <1>2, <1>4, <1>6 DEF Live, Posted
<1>13. TaskSound(t)'
  <2>1. PlaceSound(t)'
    BY <1>1, <1>2, <1>3, <1>4, <1>6, <1>12 DEF PlaceSound
  <2>2. RunnerSound(t)'
    BY <1>1, <1>2, <1>3, <1>4, <1>6, <1>12 DEF RunnerSound
  <2>3. BudgetSound(t)'
    BY <1>1, <1>2, <1>3, <1>12 DEF BudgetSound, Internal
  <2> QED BY <1>1, <1>3, <1>9, <2>1, <2>2, <2>3 DEF TaskSound, RetrySound
<1>14. \A u \in Task : u # t => SameTask(u)
  BY <1>1, <1>6, <1>8 DEF SameTask
<1>15. SeatsSound'
  <2>1. \A u \in Task : (Held(u)' => Held(u)) /\ (InSeat(u)' => InSeat(u))
    <3>1. \A u \in Task : runner'[u].aborted = runner[u].aborted
      BY <1>4, <1>6
    <3> QED BY <1>1, <3>1 DEF InSeat, Held, Internal
  <2> QED BY <1>1, <1>3, <1>11, <2>1, SeatsStay DEF AgentInv
<1>16. PurseSound'
  BY <1>1 DEF AgentInv, PurseSound
<1>17. LineageSound'
  <2>1. \A u \in Task : (Live(u)' => Live(u)) /\ (runner'[u].at = "works" => runner[u].at = "works")
    BY <1>4, <1>6, <1>12 DEF Live
  <2> QED BY <1>1, <2>1, LineageStays DEF AgentInv
<1>18. DrainSound'
  BY <1>10 DEF DrainSound
<1> QED BY <1>1, <1>2, <1>11, <1>13, <1>14, <1>15, <1>16, <1>17, <1>18, TaskMoves

-----------------------------------------------------------------------------
LEMMA OneTaskLess ==
  ASSUME NEW S, IsFiniteSet(S), NEW x \in S
  PROVE  /\ IsFiniteSet(S \ {x}) /\ Cardinality(S \ {x}) + 1 = Cardinality(S)
         /\ Cardinality(S \ {x}) \in Nat /\ Cardinality(S) \in Nat
<1>1. /\ IsFiniteSet(S \ {x})
      /\ Cardinality(S \ {x}) = Cardinality(S) - 1
  BY FS_RemoveElement
<1>2. Cardinality(S \ {x}) \in Nat /\ Cardinality(S) \in Nat
  BY <1>1, FS_CardinalityType
<1> QED BY <1>1, <1>2

\* What a task cost is no more than the share it had reserved may cost.
LEMMA SettleHolds ==
  ASSUME AgentInv, NEW t \in Task, spawn[t].at = "queued", NEW cost \in Price(limits), budget' = Settle(t, cost),
         limits' = limits, bridge' = bridge
  PROVE  /\ budget' \in [reserved : SUBSET Task, settled : SUBSET Task, spent : Nat]
         /\ t \notin budget'.reserved /\ t \in budget'.settled
         /\ \A u \in Task : u # t => /\ u \in budget'.reserved <=> u \in budget.reserved
                                     /\ u \in budget'.settled <=> u \in budget.settled
         /\ PurseSound'
<1>1. /\ AgentTypes /\ BudgetSound(t) /\ PurseSound
  BY TaskFacts DEF AgentInv
<1>2. budget \in [reserved : SUBSET Task, settled : SUBSET Task, spent : Nat] /\ limits.total \in Nat
      /\ limits.dearest \in Nat \ {0} /\ cost \in Nat /\ cost <= limits.dearest
  BY <1>1, LimitTypes DEF AgentTypes
<1>3. CASE t \in budget.settled
  <2>1. budget' = budget
    BY <1>3 DEF Settle
  <2> QED BY <1>1, <1>2, <1>3, <2>1 DEF BudgetSound, PurseSound
<1>4. CASE t \notin budget.settled
  <2> DEFINE spent == budget.spent + (IF t \in Internal THEN 0 ELSE cost)
  <2>1. budget' = [reserved |-> budget.reserved \ {t}, settled |-> budget.settled \cup {t}, spent |-> spent]
    BY <1>4 DEF Settle
  <2>2. spent \in Nat /\ spent <= budget.spent + limits.dearest /\ (t \in Internal => spent = budget.spent)
    BY <1>2
  <2> HIDE DEF spent
  <2>3. bridge = "open" /\ t \notin Internal => t \in budget.reserved
    BY <1>1, <1>4 DEF BudgetSound
  <2>4. budget'.reserved = budget.reserved \ {t} /\ budget'.spent = spent
    BY <2>1
  <2>5. IsFiniteSet(budget.reserved)
    BY <1>1 DEF PurseSound
  <2>6. PurseSound'
    <3>1. /\ IsFiniteSet(budget'.reserved) /\ Cardinality(budget'.reserved) <= Cardinality(budget.reserved)
          /\ Cardinality(budget'.reserved) \in Nat /\ Cardinality(budget.reserved) \in Nat
      BY <2>4, <2>5, FewerTasks
    <3>2. bridge = "open" /\ t \notin Internal => Cardinality(budget'.reserved) + 1 = Cardinality(budget.reserved)
      BY <2>3, <2>4, <2>5, OneTaskLess
    <3> DEFINE m == Cardinality(budget'.reserved)
               n == Cardinality(budget.reserved)
    <3>3. m * limits.dearest <= n * limits.dearest /\ m * limits.dearest \in Nat /\ n * limits.dearest \in Nat
      BY <1>2, <3>1, FewerShares
    <3>4. (m + 1) * limits.dearest = m * limits.dearest + limits.dearest
      BY <1>2, <3>1, ShareMore
    <3>5. limits.total * limits.dearest \in Nat
      BY <1>2
    <3>6. bridge = "open" => budget.spent + n * limits.dearest <= limits.total * limits.dearest
      BY <1>1 DEF PurseSound
    <3>7. bridge = "open" => (t \notin Internal => n * limits.dearest = m * limits.dearest + limits.dearest)
      BY <3>2, <3>4
    <3> HIDE DEF m, n
    <3>8. bridge = "open" => spent + m * limits.dearest <= limits.total * limits.dearest
      BY <1>2, <2>2, <3>3, <3>5, <3>6, <3>7
    <3>9. limits' = limits /\ bridge' = bridge /\ budget'.spent = spent
      BY <2>4
    <3> QED BY <3>1, <3>8, <3>9 DEF PurseSound, m, n
  <2> QED BY <1>2, <2>1, <2>2, <2>6
<1> QED BY <1>3, <1>4

\* Seat, lineage and budget of a runner that is done with are free.
LEMMA RunnerReleasesStep ==
  ASSUME AgentInv, NEW t \in Task, RunnerReleases(t)
  PROVE  AgentInv'
<1>1. /\ runner[t].at = "unwinding"
      /\ runner' = [runner EXCEPT ![t] = [NoRunner EXCEPT !.at = "gone", !.named = runner[t].named]]
      /\ active' = active \ {t} /\ lineage' = (IF lineage = t THEN NoTask ELSE lineage)
      /\ budget' = Settle(t, record[t].cost) /\ drain' = Scheduled
      /\ UNCHANGED <<record, writeChain, spawn, startQueue, queuedStarts, signalled, cancel, retry,
                     bridge, lost, limits>>
  BY DEF RunnerReleases
<1>2. /\ AgentTypes /\ ChainSound(t) /\ PlaceSound(t) /\ RunnerSound(t) /\ BudgetSound(t) /\ RetrySound(t)
      /\ runner[t] \in RunnerTypes /\ record[t].cost \in Price(limits)
  BY TaskFacts DEF RunnerTypes
<1>3. spawn[t].at = "queued" /\ t \notin queuedStarts
  BY <1>1, <1>2 DEF PlaceSound
<1> DEFINE c == [NoRunner EXCEPT !.at = "gone", !.named = runner[t].named]
<1>4. c \in RunnerTypes /\ c.at = "gone" /\ c.aborted = FALSE
  BY <1>2, LimitTypes DEF RunnerTypes, RunnerPlaces, NoRunner
<1>5. runner' = [runner EXCEPT ![t] = c]
  BY <1>1
<1> HIDE DEF c
<1>6. /\ runner'[t] = c /\ \A u \in Task : u # t => runner'[u] = runner[u]
      /\ runner' \in [Task -> RunnerTypes]
  BY <1>2, <1>4, <1>5 DEF AgentTypes, RunnerTypes
<1>7. /\ drain' = drain \/ (drain.at = "off" /\ drain'.at = "loop")
      /\ drain' \in [at : {"off", "loop", "reads", "cancels", "marks"}, task : Task \cup {NoTask}]
  BY <1>1, <1>2, ScheduledIs
<1>8. /\ budget' \in [reserved : SUBSET Task, settled : SUBSET Task, spent : Nat]
      /\ t \notin budget'.reserved /\ t \in budget'.settled
      /\ \A u \in Task : u # t => /\ u \in budget'.reserved <=> u \in budget.reserved
                                  /\ u \in budget'.settled <=> u \in budget.settled
  BY <1>1, <1>2, <1>3, SettleHolds
<1>9. PurseSound'
  BY <1>1, <1>2, <1>3, SettleHolds
<1>10. AgentTypes'
  <2>1. active' \subseteq Task /\ lineage' \in Task \cup {NoTask}
    BY <1>1, <1>2 DEF AgentTypes
  <2> QED BY <1>1, <1>2, <1>6, <1>7, <1>8, <2>1 DEF AgentTypes, RunnerTypes
<1>11. ~Live(t)' /\ (Posted(t)' <=> Posted(t)) /\ t \notin active'
  BY <1>1, <1>4, <1>6 DEF Live, Posted
<1>12. TaskSound(t)'
  <2>1. ChainSound(t)'
    BY <1>1, <1>2, <1>4, <1>6 DEF ChainSound, Waits
  <2>2. PlaceSound(t)'
    BY <1>1, <1>2, <1>3, <1>4, <1>6, <1>11 DEF PlaceSound
  <2>3. RunnerSound(t)'
    BY <1>11 DEF RunnerSound
  <2>4. BudgetSound(t)'
    BY <1>1, <1>3, <1>8 DEF BudgetSound, Internal
  <2> QED BY <1>1, <1>2, <2>1, <2>2, <2>3, <2>4 DEF TaskSound, RetrySound
<1>13. \A u \in Task : u # t => SameTask(u)
  BY <1>1, <1>6, <1>8 DEF SameTask
<1>14. SeatsSound'
  <2>1. ASSUME NEW u \in Task PROVE (Held(u)' => Held(u)) /\ (InSeat(u)' => InSeat(u))
    <3>1. CASE u = t
      BY <1>1, <1>3, <1>11, <3>1 DEF Held, InSeat
    <3>2. CASE u # t
      BY <1>1, <1>6, <3>2 DEF Held, InSeat, Internal
    <3> QED BY <3>1, <3>2
  <2> QED BY <1>1, <1>2, <1>10, <2>1, SeatsStay DEF AgentInv
<1>15. LineageSound'
  <2>1. \A u \in Task : Live(u)' => Live(u) /\ u # t
    BY <1>6, <1>11 DEF Live
  <2>2. \A u \in Task : runner'[u].at = "works" => runner[u].at = "works"
    BY <1>4, <1>6
  <2> QED BY <1>1, <2>1, <2>2 DEF AgentInv, LineageSound
<1>16. DrainSound'
  <2>1. drain.at \in {"reads", "cancels", "marks"} => drain.task \in Task /\ spawn'[drain.task].at = "queued"
    BY <1>1 DEF AgentInv, DrainSound
  <2>2. drain.at = "reads" => /\ drain.task \in signalled' \/ (drain.task \in queuedStarts' /\ bridge' = "open")
                              /\ runner'[drain.task].at = "none"
    BY <1>1, <1>6, <2>1 DEF AgentInv, DrainSound
  <2>3. drain.at = "marks" => runner'[drain.task].at = "made"
    BY <1>1, <1>6, <2>1 DEF AgentInv, DrainSound
  <2> QED BY <1>1, <1>7, <1>10, <2>1, <2>2, <2>3, DrainStays
<1> QED BY <1>1, <1>9, <1>10, <1>12, <1>13, <1>14, <1>15, <1>16, TaskMoves

\* A cancellation is over: the task is settled, whatever came first.
LEMMA CancelEndsStep ==
  ASSUME AgentInv, NEW t \in Task, NEW by \in Callers, CancelEnds(t, by)
  PROVE  AgentInv'
<1>1. /\ cancel[t][by] \in {"won", "late"} /\ cancel' = [cancel EXCEPT ![t][by] = "none"]
      /\ budget' = CancelSettles(t, by) /\ active' = active \ {t}
      /\ retry' = retry \/ retry' = [retry EXCEPT ![t] = "reads"]
      /\ UNCHANGED <<record, writeChain, spawn, startQueue, queuedStarts, signalled, drain, lineage,
                     runner, bridge, lost, limits>>
  BY DEF CancelEnds, Failed
<1>2. /\ AgentTypes /\ ChainSound(t) /\ PlaceSound(t) /\ RunnerSound(t) /\ BudgetSound(t) /\ RetrySound(t)
      /\ record[t].cost \in Price(limits)
  BY TaskFacts
<1>3. spawn[t].at = "queued" /\ Posted(t) /\ t \notin queuedStarts
  BY <1>1, <1>2 DEF PlaceSound, Posted
<1>4. PICK cost \in Price(limits) : budget' = Settle(t, cost)
  BY <1>1, <1>2, LimitTypes DEF CancelSettles
<1>5. /\ budget' \in [reserved : SUBSET Task, settled : SUBSET Task, spent : Nat]
      /\ t \notin budget'.reserved /\ t \in budget'.settled
      /\ \A u \in Task : u # t => /\ u \in budget'.reserved <=> u \in budget.reserved
                                  /\ u \in budget'.settled <=> u \in budget.settled
  BY <1>1, <1>3, <1>4, SettleHolds
<1>6. PurseSound'
  BY <1>1, <1>3, <1>4, SettleHolds
<1>7. /\ cancel' \in [Task -> [Callers -> Calls]] /\ cancel'[t][by] = "none"
      /\ \A d \in Callers : d # by => cancel'[t][d] = cancel[t][d]
      /\ \A u \in Task : u # t => cancel'[u] = cancel[u]
  BY <1>1, <1>2, CancelIs DEF Calls
<1>8. /\ retry' \in [Task -> {"none", "reads", "timer", "closed"}]
      /\ \A u \in Task : u # t => retry'[u] = retry[u]
      /\ retry'[t] \in {retry[t], "reads"}
  BY <1>1, <1>2 DEF AgentTypes
<1>9. AgentTypes'
  <2>1. active' \subseteq Task
    BY <1>1, <1>2 DEF AgentTypes
  <2> QED BY <1>1, <1>2, <1>5, <1>7, <1>8, <2>1 DEF AgentTypes
<1>10. (Live(t)' <=> Live(t)) /\ (Posted(t)' => Posted(t)) /\ t \notin active'
  BY <1>1, <1>3 DEF Live
<1>11. TaskSound(t)'
  <2>1. ChainSound(t)'
    BY <1>1, <1>2, <1>7 DEF ChainSound, Waits
  <2>2. PlaceSound(t)'
    BY <1>1, <1>2, <1>3, <1>10 DEF PlaceSound
  <2>3. RunnerSound(t)'
    BY <1>1, <1>2, <1>3, <1>10 DEF RunnerSound
  <2>4. BudgetSound(t)'
    BY <1>1, <1>3, <1>5 DEF BudgetSound, Internal
  <2> QED BY <1>1, <1>2, <1>3, <1>8, <2>1, <2>2, <2>3, <2>4 DEF TaskSound, RetrySound
<1>12. \A u \in Task : u # t => SameTask(u)
  BY <1>1, <1>5, <1>7, <1>8 DEF SameTask
<1>13. SeatsSound'
  <2>1. \A u \in Task : (Held(u)' => Held(u)) /\ (InSeat(u)' => InSeat(u))
    BY <1>1 DEF Held, InSeat, Internal
  <2> QED BY <1>1, <1>2, <1>9, <2>1, SeatsStay DEF AgentInv
<1>14. LineageSound'
  <2>1. \A u \in Task : (Live(u)' => Live(u)) /\ (runner'[u].at = "works" => runner[u].at = "works")
    BY <1>1 DEF Live
  <2> QED BY <1>1, <2>1, LineageStays DEF AgentInv
<1>15. DrainSound'
  <2>1. drain.at \in {"reads", "cancels", "marks"} => spawn'[drain.task].at = "queued"
    BY <1>1 DEF AgentInv, DrainSound
  <2>2. drain.at = "reads" => /\ drain.task \in signalled' \/ (drain.task \in queuedStarts' /\ bridge' = "open")
                              /\ runner'[drain.task].at = "none"
    BY <1>1 DEF AgentInv, DrainSound
  <2>3. drain.at = "marks" => runner'[drain.task].at = "made"
    BY <1>1 DEF AgentInv, DrainSound
  <2> QED BY <1>1, <1>9, <2>1, <2>2, <2>3, DrainStays
<1> QED BY <1>1, <1>6, <1>9, <1>11, <1>12, <1>13, <1>14, <1>15, TaskMoves

-----------------------------------------------------------------------------
\* What is queued or runs is cancelled, and no retry waits for its timer.
LEMMA CancelAllStep ==
  ASSUME AgentInv, CancelAll
  PROVE  AgentInv'
<1>1. /\ retry' = [t \in Task |-> IF retry[t] = "timer" THEN "closed" ELSE retry[t]]
      /\ cancel' = [t \in Task |-> IF t \in queuedStarts \cup active /\ cancel[t]["user"] = "none"
                                   THEN [cancel[t] EXCEPT !["user"] = "called"] ELSE cancel[t]]
      /\ UNCHANGED <<record, writeChain, spawn, startQueue, queuedStarts, signalled, drain, active,
                     lineage, runner, budget, bridge, lost, limits>>
  BY DEF CancelAll
<1>2. AgentTypes
  BY DEF AgentInv
<1>3. ASSUME NEW t \in Task
      PROVE  /\ retry'[t] \in {"none", "reads", "timer", "closed"}
             /\ (retry'[t] # "none" => retry[t] # "none") /\ (retry'[t] = "timer" => retry[t] = "timer")
             /\ cancel'[t] \in [Callers -> Calls]
             /\ \A d \in Callers :
                  cancel'[t][d] = cancel[t][d] \/ (/\ cancel[t][d] = "none" /\ cancel'[t][d] = "called"
                                                   /\ t \in queuedStarts \cup active)
  <2>1. /\ retry[t] \in {"none", "reads", "timer", "closed"} /\ cancel[t] \in [Callers -> Calls]
    BY <1>2 DEF AgentTypes
  <2>2. retry'[t] = IF retry[t] = "timer" THEN "closed" ELSE retry[t]
    BY <1>1
  <2>3. CASE t \in queuedStarts \cup active /\ cancel[t]["user"] = "none"
    <3>1. cancel'[t] = [cancel[t] EXCEPT !["user"] = "called"]
      BY <1>1, <2>3
    <3>2. "user" \in Callers /\ "called" \in Calls
      BY DEF Callers, Calls
    <3> QED BY <2>1, <2>2, <2>3, <3>1, <3>2
  <2>4. CASE ~(t \in queuedStarts \cup active /\ cancel[t]["user"] = "none")
    <3>1. cancel'[t] = cancel[t]
      BY <1>1, <2>4
    <3> QED BY <2>1, <2>2, <3>1
  <2> QED BY <2>3, <2>4
<1>4. AgentTypes'
  <2>1. /\ retry' \in [Task -> {"none", "reads", "timer", "closed"}]
        /\ cancel' \in [Task -> [Callers -> Calls]]
    BY <1>1, <1>3
  <2> QED BY <1>1, <1>2, <2>1 DEF AgentTypes
<1>5. ASSUME NEW t \in Task PROVE TaskSound(t)'
  <2>1. ChainSound(t) /\ PlaceSound(t) /\ RunnerSound(t) /\ BudgetSound(t) /\ RetrySound(t)
    BY TaskFacts
  <2>2. /\ (retry'[t] # "none" => retry[t] # "none") /\ (retry'[t] = "timer" => retry[t] = "timer")
        /\ \A d \in Callers :
             cancel'[t][d] = cancel[t][d] \/ (/\ cancel[t][d] = "none" /\ cancel'[t][d] = "called"
                                              /\ t \in queuedStarts \cup active)
    BY <1>3
  <2>3. (Live(t)' <=> Live(t)) /\ (Posted(t)' <=> Posted(t))
    BY <1>1, <2>2 DEF Live, Posted
  <2>4. t \in queuedStarts \cup active => spawn[t].at = "queued"
    BY <2>1 DEF PlaceSound, Live
  <2>5. ChainSound(t)'
    <3>1. \A o : Waits(t, o) => Waits(t, o)'
      BY <1>1, <2>2 DEF Waits
    <3> QED BY <1>1, <2>1, <3>1 DEF ChainSound
  <2>6. PlaceSound(t)'
    BY <1>1, <2>1, <2>2, <2>3, <2>4 DEF PlaceSound
  <2>7. RunnerSound(t)'
    BY <1>1, <2>1, <2>3 DEF RunnerSound
  <2>8. BudgetSound(t)'
    BY <1>1, <2>1, <2>3 DEF BudgetSound, Internal
  <2>9. RetrySound(t)'
    BY <1>1, <2>1, <2>2 DEF RetrySound
  <2> QED BY <2>5, <2>6, <2>7, <2>8, <2>9 DEF TaskSound
<1>6. SeatsSound'
  <2>1. \A u \in Task : (Held(u)' => Held(u)) /\ (InSeat(u)' => InSeat(u))
    BY <1>1 DEF Held, InSeat, Internal
  <2> QED BY <1>1, <1>2, <1>4, <2>1, SeatsStay DEF AgentInv
<1>7. PurseSound' /\ LineageSound' /\ DrainSound'
  BY <1>1 DEF AgentInv, PurseSound, LineageSound, Live, DrainSound
<1> QED BY <1>4, <1>5, <1>6, <1>7 DEF AgentInv

\* Disposal begins: queued tasks are settled, runners aborted.
LEMMA DisposeStep ==
  ASSUME AgentInv, Dispose
  PROVE  AgentInv'
<1>1. /\ bridge = "open" /\ bridge' = "closing"
      /\ retry' = [t \in Task |-> IF retry[t] = "timer" THEN "closed" ELSE retry[t]]
      /\ signalled' = signalled \cup queuedStarts /\ queuedStarts' = {}
      /\ budget' = [budget EXCEPT !.reserved = @ \ queuedStarts, !.settled = @ \cup queuedStarts]
      /\ runner' = [t \in Task |-> IF t \in active THEN [runner[t] EXCEPT !.aborted = TRUE, !.named = TRUE]
                                   ELSE runner[t]]
      /\ UNCHANGED <<record, writeChain, spawn, drain, active, lineage, cancel, lost, limits>>
  BY DEF Dispose, SignalsAll
<1>2. AgentTypes
  BY DEF AgentInv
<1>3. ASSUME NEW t \in Task
      PROVE  /\ runner'[t] \in RunnerTypes /\ runner'[t].at = runner[t].at
             /\ (t \in active => runner'[t].aborted) /\ (t \notin active => runner'[t] = runner[t])
             /\ retry'[t] \in {"none", "reads", "timer", "closed"}
             /\ (retry'[t] # "none" => retry[t] # "none") /\ (retry'[t] = "timer" => retry[t] = "timer")
  <2>1. runner[t] \in RunnerTypes /\ retry[t] \in {"none", "reads", "timer", "closed"}
    BY <1>2 DEF AgentTypes, RunnerTypes
  <2>2. retry'[t] = IF retry[t] = "timer" THEN "closed" ELSE retry[t]
    BY <1>1
  <2>3. CASE t \in active
    <3> DEFINE c == [runner[t] EXCEPT !.aborted = TRUE, !.named = TRUE]
    <3>1. c \in RunnerTypes /\ c.at = runner[t].at /\ c.aborted
      BY <2>1 DEF RunnerTypes
    <3>2. runner'[t] = c
      BY <1>1, <2>3
    <3> HIDE DEF c
    <3> QED BY <2>1, <2>2, <2>3, <3>1, <3>2
  <2>4. CASE t \notin active
    <3>1. runner'[t] = runner[t]
      BY <1>1, <2>4
    <3> QED BY <2>1, <2>2, <2>4, <3>1
  <2> QED BY <2>3, <2>4
<1>4. /\ budget' \in [reserved : SUBSET Task, settled : SUBSET Task, spent : Nat]
      /\ budget'.reserved = budget.reserved \ queuedStarts
      /\ budget'.settled = budget.settled \cup queuedStarts /\ budget'.spent = budget.spent
  BY <1>1, <1>2 DEF AgentTypes
<1>5. AgentTypes'
  <2>1. /\ retry' \in [Task -> {"none", "reads", "timer", "closed"}]
        /\ runner' \in [Task -> RunnerTypes]
    BY <1>1, <1>3
  <2>2. signalled' \subseteq Task /\ queuedStarts' \subseteq Task
    BY <1>1, <1>2 DEF AgentTypes
  <2> QED BY <1>1, <1>2, <1>4, <2>1, <2>2 DEF AgentTypes, RunnerTypes
<1>6. \A t \in Task : (Live(t)' <=> Live(t)) /\ (Posted(t)' <=> Posted(t))
  BY <1>1, <1>3 DEF Live, Posted
<1>7. ASSUME NEW t \in Task PROVE TaskSound(t)'
  <2>1. ChainSound(t) /\ PlaceSound(t) /\ RunnerSound(t) /\ BudgetSound(t) /\ RetrySound(t)
    BY TaskFacts
  <2>2. /\ runner'[t].at = runner[t].at
        /\ (t \in active => runner'[t].aborted) /\ (t \notin active => runner'[t] = runner[t])
        /\ (retry'[t] # "none" => retry[t] # "none") /\ (retry'[t] = "timer" => retry[t] = "timer")
    BY <1>3
  <2>3. (Live(t)' <=> Live(t)) /\ (Posted(t)' <=> Posted(t))
    BY <1>6
  <2>4. ChainSound(t)'
    <3>1. \A o : Waits(t, o) => Waits(t, o)'
      BY <1>1, <2>2 DEF Waits
    <3> QED BY <1>1, <2>1, <3>1 DEF ChainSound
  <2>5. PlaceSound(t)'
    BY <1>1, <2>1, <2>2, <2>3 DEF PlaceSound, Live
  <2>6. RunnerSound(t)'
    BY <1>1, <2>1, <2>2, <2>3 DEF RunnerSound
  <2>7. BudgetSound(t)'
    <3>1. t \in queuedStarts => spawn[t].at = "queued"
      BY <2>1 DEF PlaceSound
    <3> QED BY <1>1, <1>4, <2>1, <2>3, <3>1 DEF BudgetSound, Internal
  <2>8. RetrySound(t)'
    BY <1>1, <2>1, <2>2 DEF RetrySound
  <2> QED BY <2>4, <2>5, <2>6, <2>7, <2>8 DEF TaskSound
<1>8. SeatsSound'
  <2>1. \A u \in Task : Held(u)' => Held(u)
    BY <1>1 DEF Held
  <2> QED BY <1>1, <1>2, <1>5, <2>1, SeatsStay DEF AgentInv
<1>9. PurseSound'
  <2>1. IsFiniteSet(budget'.reserved)
    BY <1>4, FewerTasks DEF AgentInv, PurseSound
  <2> QED BY <1>1, <2>1 DEF PurseSound
<1>10. LineageSound'
  <2>1. \A u \in Task : (Live(u)' => Live(u)) /\ (runner'[u].at = "works" => runner[u].at = "works")
    BY <1>3, <1>6
  <2> QED BY <1>1, <2>1, LineageStays DEF AgentInv
<1>11. DrainSound'
  <2>1. drain.at \in {"reads", "cancels", "marks"} => drain.task \in Task /\ spawn'[drain.task].at = "queued"
    BY <1>1 DEF AgentInv, DrainSound
  <2>2. drain.at = "reads" => /\ drain.task \in signalled' \/ (drain.task \in queuedStarts' /\ bridge' = "open")
                              /\ runner'[drain.task].at = "none"
    BY <1>1, <1>3, <2>1 DEF AgentInv, DrainSound
  <2>3. drain.at = "marks" => runner'[drain.task].at = "made"
    BY <1>3, <2>1 DEF AgentInv, DrainSound
  <2> QED BY <1>1, <1>5, <2>1, <2>2, <2>3, DrainStays
<1> QED BY <1>5, <1>7, <1>8, <1>9, <1>10, <1>11 DEF AgentInv

\* Disposal ends: nothing is held any more.
LEMMA DisposedStep ==
  ASSUME AgentInv, Disposed
  PROVE  AgentInv'
<1>1. /\ bridge = "closing" /\ bridge' = "closed" /\ active' = {} /\ lineage' = NoTask
      /\ budget' = [NoBudget EXCEPT !.spent = budget.spent]
      /\ UNCHANGED <<record, writeChain, spawn, startQueue, queuedStarts, signalled, drain, runner,
                     cancel, retry, lost, limits>>
  BY DEF Disposed
<1>2. AgentTypes
  BY DEF AgentInv
<1>3. /\ budget' \in [reserved : SUBSET Task, settled : SUBSET Task, spent : Nat]
      /\ budget'.reserved = {} /\ budget'.settled = {}
  BY <1>1, <1>2 DEF AgentTypes, NoBudget
<1>4. AgentTypes'
  BY <1>1, <1>2, <1>3 DEF AgentTypes
<1>5. \A t \in Task : (Live(t)' <=> Live(t)) /\ (Posted(t)' <=> Posted(t))
  BY <1>1 DEF Live, Posted
<1>6. ASSUME NEW t \in Task PROVE TaskSound(t)'
  <2>1. ChainSound(t) /\ PlaceSound(t) /\ RunnerSound(t) /\ BudgetSound(t) /\ RetrySound(t)
    BY TaskFacts
  <2>2. ChainSound(t)'
    BY <1>1, <2>1 DEF ChainSound, Waits
  <2>3. PlaceSound(t)'
    BY <1>1, <1>5, <2>1 DEF PlaceSound
  <2>4. RunnerSound(t)'
    BY <1>1, <1>5, <2>1 DEF RunnerSound
  <2>5. BudgetSound(t)'
    BY <1>1, <1>3 DEF BudgetSound
  <2>6. RetrySound(t)'
    BY <1>1, <2>1 DEF RetrySound
  <2> QED BY <2>2, <2>3, <2>4, <2>5, <2>6 DEF TaskSound
<1>7. SeatsSound'
  <2>1. \A u \in Task : Held(u)' => Held(u)
    BY <1>1 DEF Held
  <2> QED BY <1>1, <1>2, <1>4, <2>1, SeatsStay DEF AgentInv
<1>8. PurseSound'
  BY <1>1, <1>3, FS_EmptySet DEF PurseSound
<1>9. LineageSound'
  BY <1>1 DEF AgentInv, LineageSound
<1>10. DrainSound'
  <2>1. drain.at \in {"reads", "cancels", "marks"} => spawn'[drain.task].at = "queued"
    BY <1>1 DEF AgentInv, DrainSound
  <2>2. drain.at = "reads" => /\ drain.task \in signalled' \/ (drain.task \in queuedStarts' /\ bridge' = "open")
                              /\ runner'[drain.task].at = "none"
    BY <1>1 DEF AgentInv, DrainSound
  <2>3. drain.at = "marks" => runner'[drain.task].at = "made"
    BY <1>1 DEF AgentInv, DrainSound
  <2> QED BY <1>1, <1>4, <2>1, <2>2, <2>3, DrainStays
<1> QED BY <1>4, <1>6, <1>7, <1>8, <1>9, <1>10 DEF AgentInv

-----------------------------------------------------------------------------
\* A bridge that starts holds nothing, whatever the records say.
LEMMA AgentProcessRestartsStep ==
  ASSUME AgentInv, AgentProcessRestarts
  PROVE  AgentInv'
<1>1. /\ writeChain' = [t \in Task |-> <<>>] /\ queuedStarts' = {} /\ signalled' = {}
      /\ drain' = NotDraining /\ active' = {} /\ lineage' = NoTask
      /\ runner' = [t \in Task |-> NoRunner] /\ cancel' = [t \in Task |-> [c \in Callers |-> "none"]]
      /\ budget' = NoBudget /\ retry' = [t \in Task |-> "none"] /\ bridge' = "open"
      /\ spawn' = [t \in Task |-> IF spawn[t].at = "none" THEN NotSpawned ELSE [spawn[t] EXCEPT !.at = "refused"]]
      /\ UNCHANGED <<record, lost, limits>>
  BY DEF AgentProcessRestarts
<1>2. AgentTypes
  BY DEF AgentInv
<1>3. ASSUME NEW t \in Task
      PROVE  spawn'[t] \in SpawnTypes /\ spawn'[t].at \in {"none", "refused"}
  <2>1. spawn[t] \in SpawnTypes /\ 0 \in 0..RetryLimit
    BY <1>2, SubAgentAssumption DEF AgentTypes, SpawnTypes, SpawnPlaces, SubAgentAssumption
  <2>2. CASE spawn[t].at = "none"
    <3>1. spawn'[t] = NotSpawned
      BY <1>1, <2>2
    <3> QED BY <2>1, <3>1 DEF NotSpawned, SpawnTypes, SpawnPlaces
  <2>3. CASE spawn[t].at # "none"
    <3> DEFINE c == [spawn[t] EXCEPT !.at = "refused"]
    <3>1. c \in SpawnTypes /\ c.at = "refused"
      BY <2>1 DEF SpawnTypes, SpawnPlaces
    <3>2. spawn'[t] = c
      BY <1>1, <2>3
    <3> HIDE DEF c
    <3> QED BY <3>1, <3>2
  <2> QED BY <2>2, <2>3
<1>4. ASSUME NEW t \in Task
      PROVE  /\ writeChain'[t] = <<>> /\ runner'[t] = NoRunner /\ retry'[t] = "none"
             /\ \A c \in Callers : cancel'[t][c] = "none"
  BY <1>1
<1>5. AgentTypes'
  <2>1. NoRunner \in RunnerTypes
    BY <1>2, LimitTypes DEF NoRunner, RunnerTypes, RunnerPlaces
  <2>2. runner' \in [Task -> RunnerTypes]
    BY <1>1, <2>1
  <2>3. spawn' \in [Task -> SpawnTypes]
    BY <1>1, <1>3
  <2>4. <<>> \in Seq(Operations)
    BY EmptySeq
  <2>5. writeChain' \in [Task -> Seq(Operations)]
    BY <1>1, <2>4
  <2>6. cancel' \in [Task -> [Callers -> Calls]]
    BY <1>1 DEF Calls
  <2>7. drain' \in [at : {"off", "loop", "reads", "cancels", "marks"}, task : Task \cup {NoTask}]
    BY <1>1 DEF NotDraining
  <2>8. budget' \in [reserved : SUBSET Task, settled : SUBSET Task, spent : Nat]
    BY <1>1 DEF NoBudget
  <2>9. retry' \in [Task -> {"none", "reads", "timer", "closed"}]
    BY <1>1
  <2> QED BY <1>1, <1>2, <2>2, <2>3, <2>5, <2>6, <2>7, <2>8, <2>9
          DEF AgentTypes, SpawnTypes, SpawnPlaces, RunnerTypes
<1>6. ASSUME NEW t \in Task PROVE TaskSound(t)'
  <2>1. ~Live(t)' /\ runner'[t].at = "none" /\ ~runner'[t].aborted
    BY <1>4 DEF Live, NoRunner
  <2>2. ChainSound(t)'
    <3>1. DOMAIN writeChain'[t] = {}
      BY <1>4, EmptySeq
    <3> QED BY <3>1 DEF ChainSound, Distinct
  <2>3. PlaceSound(t)'
    BY <1>1, <1>4, <2>1 DEF PlaceSound, Posted
  <2>4. RunnerSound(t)'
    BY <2>1 DEF RunnerSound
  <2>5. BudgetSound(t)'
    <3>1. budget'.reserved = {} /\ budget'.settled = {}
      BY <1>1 DEF NoBudget
    <3>2. spawn'[t].at \notin {"admitted", "written", "queued"}
      BY <1>3
    <3> QED BY <3>1, <3>2 DEF BudgetSound
  <2>6. RetrySound(t)'
    BY <1>4 DEF RetrySound
  <2> QED BY <2>2, <2>3, <2>4, <2>5, <2>6 DEF TaskSound
<1>7. /\ limits'.slots \in Nat /\ limits'.waiting \in Nat /\ limits'.total \in Nat
      /\ limits'.dearest \in Nat
  BY <1>1, <1>2, LimitTypes
<1>8. SeatsSound'
  <2>1. Outstanding' = {} /\ Seated' = {}
    BY <1>1, <1>3 DEF Outstanding, Seated
  <2> QED BY <1>1, <1>7, <2>1, FS_EmptySet DEF SeatsSound
<1>9. PurseSound'
  <2>1. budget'.reserved = {} /\ budget'.spent = 0
    BY <1>1 DEF NoBudget
  <2>2. budget'.spent + 0 * limits'.dearest <= limits'.total * limits'.dearest
    BY <1>7, <2>1, NothingPromised
  <2> QED BY <2>1, <2>2, FS_EmptySet DEF PurseSound
<1>10. LineageSound'
  BY <1>4 DEF LineageSound, Live, NoRunner
<1>11. DrainSound'
  BY <1>1 DEF DrainSound, NotDraining
<1> QED BY <1>5, <1>6, <1>8, <1>9, <1>10, <1>11 DEF AgentInv

LEMMA AgentStart ==
  ASSUME AgentInit
  PROVE  AgentInv
<1>1. ASSUME NEW t \in Task
      PROVE  /\ writeChain[t] = <<>> /\ runner[t] = NoRunner /\ retry[t] = "none" /\ spawn[t] = NotSpawned
             /\ \A c \in Callers : cancel[t][c] = "none"
  BY DEF AgentInit
<1>2. AgentTypes
  <2>1. NoRunner \in RunnerTypes /\ NoRecord \in RecordTypes
    <3>1. limits \in Limits
      BY DEF AgentInit
    <3>2. 0 \in Price(limits)
      BY <3>1, SubAgentAssumption DEF SubAgentAssumption, Price
    <3> QED BY <3>2 DEF NoRunner, NoRecord, RunnerTypes, RunnerPlaces, RecordTypes
  <2>2. NotSpawned \in SpawnTypes
    BY SubAgentAssumption DEF NotSpawned, SpawnTypes, SpawnPlaces, SubAgentAssumption
  <2>3. runner \in [Task -> RunnerTypes] /\ record \in [Task -> RecordTypes] /\ spawn \in [Task -> SpawnTypes]
    BY <2>1, <2>2 DEF AgentInit
  <2>4. <<>> \in Seq(Operations)
    BY EmptySeq
  <2>5. writeChain \in [Task -> Seq(Operations)]
    BY <2>4 DEF AgentInit
  <2>6. cancel \in [Task -> [Callers -> Calls]]
    BY DEF AgentInit, Calls
  <2>7. drain \in [at : {"off", "loop", "reads", "cancels", "marks"}, task : Task \cup {NoTask}]
    BY DEF AgentInit, NotDraining
  <2>8. budget \in [reserved : SUBSET Task, settled : SUBSET Task, spent : Nat]
    BY DEF AgentInit, NoBudget
  <2>9. retry \in [Task -> {"none", "reads", "timer", "closed"}]
    BY DEF AgentInit
  <2>10. /\ {queuedStarts, signalled, active, lost} \subseteq SUBSET Task
         /\ lineage \in Task \cup {NoTask} /\ bridge \in {"open", "closing", "closed"} /\ limits \in Limits
    BY DEF AgentInit
  <2> QED BY <2>3, <2>5, <2>6, <2>7, <2>8, <2>9, <2>10
          DEF AgentTypes, SpawnTypes, SpawnPlaces, RunnerTypes, RecordTypes
<1>3. ASSUME NEW t \in Task PROVE TaskSound(t)
  <2>1. ~Live(t) /\ runner[t].at = "none" /\ ~runner[t].aborted /\ spawn[t].at = "none"
    BY <1>1 DEF Live, NoRunner, NotSpawned
  <2>2. ChainSound(t)
    <3>1. DOMAIN writeChain[t] = {}
      BY <1>1, EmptySeq
    <3> QED BY <3>1 DEF ChainSound, Distinct
  <2>3. PlaceSound(t)
    BY <1>1, <2>1 DEF PlaceSound, Posted, AgentInit
  <2>4. RunnerSound(t)
    BY <2>1 DEF RunnerSound
  <2>5. BudgetSound(t)
    BY <2>1 DEF BudgetSound, AgentInit, NoBudget
  <2>6. RetrySound(t)
    BY <1>1 DEF RetrySound
  <2> QED BY <2>2, <2>3, <2>4, <2>5, <2>6 DEF TaskSound
<1>4. /\ limits.slots \in Nat /\ limits.waiting \in Nat /\ limits.total \in Nat
      /\ limits.dearest \in Nat
  BY <1>2, LimitTypes
<1>5. SeatsSound
  <2>1. Outstanding = {} /\ Seated = {}
    BY <1>1 DEF Outstanding, Seated, AgentInit, NotSpawned
  <2> QED BY <1>4, <2>1, FS_EmptySet DEF SeatsSound, AgentInit
<1>6. PurseSound
  <2>1. budget.reserved = {} /\ budget.spent = 0
    BY DEF NoBudget, AgentInit
  <2>2. budget.spent + 0 * limits.dearest <= limits.total * limits.dearest
    BY <1>4, <2>1, NothingPromised
  <2> QED BY <2>1, <2>2, FS_EmptySet DEF PurseSound
<1>7. LineageSound
  BY <1>1 DEF LineageSound, Live, NoRunner
<1>8. DrainSound
  BY DEF DrainSound, NotDraining, AgentInit
<1> QED BY <1>2, <1>3, <1>5, <1>6, <1>7, <1>8 DEF AgentInv

LEMMA AgentStutters ==
  ASSUME AgentInv, UNCHANGED agentVars
  PROVE  AgentInv'
<1>1. UNCHANGED <<record, writeChain, spawn, startQueue, queuedStarts, signalled, drain, active,
                  lineage, runner, cancel, budget, retry, bridge, lost, limits>>
  BY DEF agentVars
<1>2. /\ drain' \in [at : {"off", "loop", "reads", "cancels", "marks"}, task : Task \cup {NoTask}]
      /\ AgentTypes'
  BY <1>1 DEF AgentInv, AgentTypes
<1>3. ASSUME NEW u \in Task PROVE TaskSound(u)'
  BY <1>1, TaskStays DEF AgentInv, SameTask
<1>4. SeatsSound' /\ PurseSound' /\ LineageSound' /\ DrainSound'
  BY <1>1 DEF AgentInv, SeatsSound, PurseSound, LineageSound, DrainSound, Outstanding, Seated, Internal, Live
<1> QED BY <1>2, <1>3, <1>4 DEF AgentInv

LEMMA AgentStep ==
  ASSUME AgentInv, [AgentNext]_agentVars
  PROVE  AgentInv'
<1>1. ASSUME NEW t \in Task, SpawnSubAgent(t) \/ HandOver(t) \/ ParentAborts(t) \/ Perform(t) \/ PerformFails(t)
      PROVE  AgentInv'
  BY <1>1, SpawnSubAgentStep, HandOverStep, ParentAbortsStep, PerformStep, PerformFailsStep
<1>2. ASSUME NEW t \in Task, RunnerSubmits(t) \/ RunnerTells(t) \/ RunnerReleases(t)
      PROVE  AgentInv'
  BY <1>2, RunnerSubmitsStep, RunnerTellsStep, RunnerReleasesStep
<1>3. ASSUME NEW t \in Task, CallCancel(t) \/ RetryFires(t) \/ FailStaleTask(t)
      PROVE  AgentInv'
  BY <1>3, CallCancelStep, RetryFiresStep, FailStaleTaskStep
<1>4. ASSUME NEW t \in Task, NEW outcome \in Ended, RunnerEnds(t, outcome) PROVE AgentInv'
  BY <1>4, RunnerEndsStep
<1>5. ASSUME NEW t \in Task, NEW by \in Callers, NEW named \in BOOLEAN, CancelReads(t, by, named) PROVE AgentInv'
  BY <1>5, CancelReadsStep
<1>6. ASSUME NEW t \in Task, NEW by \in Callers, CancelEnds(t, by) PROVE AgentInv'
  BY <1>6, CancelEndsStep
<1>7. ASSUME NEW t \in Task, NEW passing \in BOOLEAN, RetryReads(t, passing) PROVE AgentInv'
  BY <1>7, RetryReadsStep
<1>8. CASE DrainPicks \/ DrainEnds \/ DrainReads \/ DrainStarts \/ DrainCancelled
  BY <1>8, DrainPicksStep, DrainEndsStep, DrainReadsStep, DrainStartsStep
<1>9. CASE CancelAll \/ Dispose \/ Disposed \/ AgentProcessRestarts
  BY <1>9, CancelAllStep, DisposeStep, DisposedStep, AgentProcessRestartsStep
<1>10. CASE UNCHANGED agentVars
  BY <1>10, AgentStutters
<1> QED BY <1>1, <1>2, <1>3, <1>4, <1>5, <1>6, <1>7, <1>8, <1>9, <1>10 DEF AgentNext

LEMMA AgentInvHolds == AgentSpec => []AgentInv
<1>1. AgentInit => AgentInv
  BY AgentStart
<1>2. AgentInv /\ [AgentNext]_agentVars => AgentInv'
  BY AgentStep
<1> QED BY <1>1, <1>2, PTL DEF AgentSpec

-----------------------------------------------------------------------------
\* What the invariant says of the seats, the budget and the lineages.
LEMMA InvGivesAdmission ==
  ASSUME AgentInv
  PROVE  AgentTypes /\ AdmissionHolds
<1>1. AgentTypes /\ SeatsSound /\ PurseSound /\ LineageSound
  BY DEF AgentInv
<1>2. \A t \in Task : PlaceSound(t) /\ RunnerSound(t) /\ BudgetSound(t)
  BY TaskFacts
<1>3. SeatsHeld
  <2> SUFFICES ASSUME bridge = "open"
               PROVE  /\ Cardinality(Working) <= limits.slots
                      /\ Cardinality(Outstanding \ (Internal \cup {t \in Task : runner[t].aborted}))
                           <= limits.slots + limits.waiting
    BY DEF SeatsHeld
  <2>1. Working \subseteq active
    BY <1>2 DEF Working, RunnerSound, Live
  <2>2. /\ Cardinality(Working) <= Cardinality(active)
        /\ Cardinality(Working) \in Nat /\ Cardinality(active) \in Nat
    BY <1>1, <2>1, FewerTasks DEF SeatsSound
  <2>3. limits.slots \in Nat
    BY <1>1, LimitTypes
  <2> QED BY <1>1, <2>2, <2>3 DEF SeatsSound, Seated
<1>4. BudgetHeld
  BY <1>1 DEF PurseSound, BudgetHeld
<1>5. OneExecutor
  <2> SUFFICES ASSUME limits.related PROVE Cardinality(Working) <= 1
    BY DEF OneExecutor
  <2>1. CASE Working = {}
    BY <2>1, FS_EmptySet
  <2>2. CASE Working # {}
    <3>1. PICK t \in Working : TRUE
      BY <2>2
    <3>2. Working = {t}
      BY <1>1, <3>1 DEF Working, LineageSound
    <3> QED BY <3>2, FS_Singleton
  <2> QED BY <2>1, <2>2
<1>6. NoLeak
  <2> SUFFICES ASSUME bridge = "open", NEW t \in budget.reserved \ lost
               PROVE  \/ spawn[t].at \in {"admitted", "written"} \/ t \in queuedStarts
                      \/ runner[t].at \notin {"none", "gone"}
                      \/ \E c \in Callers : cancel[t][c] # "none"
    BY DEF NoLeak
  <2>1. t \in Task
    BY <1>1 DEF AgentTypes
  <2> QED BY <1>2, <2>1 DEF BudgetSound, Live, Posted
<1> QED BY <1>1, <1>3, <1>4, <1>5, <1>6 DEF AdmissionHolds

(* At any number of tasks and for any limits: sessions at work never         *)
(* outnumber the slots nor ordinary tasks the seats, no share of the budget  *)
(* is promised twice, so that the overspending of the sessions themselves is *)
(* all that takes the bridge past its budget, a lineage has one executor,    *)
(* and what is reserved will be settled (SubAgentBridge.ts:311, 1451).       *)
THEOREM SeatsAndBudgetHeld == AgentSpec => []AdmissionHolds
<1>1. AgentInv => AdmissionHolds
  BY InvGivesAdmission
<1> QED BY <1>1, AgentInvHolds, PTL

(* The state of the bridge and of its tasks has its type.                    *)
THEOREM SubAgentsTyped == AgentSpec => []SubAgentTypeOK
<1>1. ASSUME AgentInv PROVE SubAgentTypeOK
  <2>1. AgentTypes
    BY <1>1 DEF AgentInv
  <2>2. ASSUME NEW t \in Task
        PROVE  /\ record[t].status \in {"none", "queued", "running"} \cup Ended
               /\ spawn[t].at \in {"none", "admitted", "written", "queued", "refused"}
               /\ spawn[t].attempt \in 0..RetryLimit /\ spawn[t].of \in Task \cup {NoTask}
               /\ runner[t].at \in {"none", "made", "starting", "begun", "works", "ending", "done", "failed",
                                    "unwinding", "gone"}
               /\ retry[t] \in {"none", "reads", "timer", "closed"}
               /\ retry[t] = "timer" => spawn[t].attempt < RetryLimit
    <3>1. RetrySound(t)
      BY <1>1, TaskFacts
    <3> QED BY <2>1, <3>1 DEF AgentTypes, RetrySound, RunnerPlaces, Endings
  <2>3. /\ drain.at \in {"off", "loop", "reads", "cancels", "marks"}
        /\ queuedStarts \subseteq Task /\ active \subseteq Task /\ lineage \in Task \cup {NoTask}
    BY <2>1 DEF AgentTypes
  <2> QED BY <2>2, <2>3 DEF SubAgentTypeOK
<1> QED BY <1>1, AgentInvHolds, PTL

(* No session is submitted once dispose has begun: a runner that had not     *)
(* submitted its session by then has been aborted, and an aborted runner     *)
(* ends instead.                                                             *)
THEOREM DisposedBridgeIsQuiet == AgentSpec => QuietAfterDispose
<1> DEFINE Quiet == bridge # "open" => \A t \in Task : runner'[t].at = "works" => runner[t].at = "works"
<1>1. ASSUME AgentInv, AgentNext PROVE Quiet
  <2> SUFFICES ASSUME bridge # "open", NEW u \in Task, runner'[u].at = "works" PROVE runner[u].at = "works"
    OBVIOUS
  <2>1. runner \in [Task -> RunnerTypes] /\ RunnerSound(u)
    BY <1>1, TaskFacts DEF AgentTypes, RunnerTypes
  <2>2. ASSUME NEW t \in Task, SpawnSubAgent(t) \/ HandOver(t) \/ CallCancel(t) \/ RetryFires(t) \/ FailStaleTask(t)
        PROVE  runner[u].at = "works"
    BY <2>2 DEF SpawnSubAgent, HandOver, CallCancel, RetryFires, FailStaleTask
  <2>3. ASSUME NEW t \in Task, ParentAborts(t) PROVE runner[u].at = "works"
    <3>1. runner'[u].at = runner[u].at
      BY <2>1, <2>3 DEF ParentAborts, RunnerTypes
    <3> QED BY <3>1
  <2>4. ASSUME NEW t \in Task, Perform(t) PROVE runner[u].at = "works"
    <3>1. \/ UNCHANGED runner
          \/ \E a \in {"begun", "unwinding", "done", "failed"} : runner' = [runner EXCEPT ![t].at = a]
      BY <2>4 DEF Perform, Continues
    <3> QED BY <2>1, <3>1 DEF RunnerTypes
  <2>5. ASSUME NEW t \in Task, PerformFails(t) PROVE runner[u].at = "works"
    <3>1. UNCHANGED runner \/ runner' = [runner EXCEPT ![t].at = "ending"]
      BY <2>5 DEF PerformFails
    <3> QED BY <2>1, <3>1 DEF RunnerTypes
  <2>6. ASSUME NEW t \in Task, RunnerSubmits(t) PROVE runner[u].at = "works"
    <3>1. CASE u # t
      <4>1. runner'[u] = runner[u]
        BY <2>1, <2>6, <3>1 DEF RunnerSubmits, Ends
      <4> QED BY <4>1
    <3>2. CASE u = t
      <4>1. Live(u) /\ runner[u].aborted
        BY <2>1, <2>6, <3>2 DEF RunnerSound, Live, RunnerSubmits
      <4>2. runner' = [runner EXCEPT ![t].at = "ending"]
        BY <2>6, <3>2, <4>1 DEF RunnerSubmits, Ends
      <4> QED BY <2>1, <3>2, <4>2 DEF RunnerTypes
    <3> QED BY <3>1, <3>2
  <2>7. ASSUME NEW t \in Task, RunnerTells(t) \/ (\E outcome \in Ended : RunnerEnds(t, outcome))
        PROVE  runner[u].at = "works"
    BY <2>1, <2>7 DEF RunnerTells, RunnerEnds, RunnerTypes
  <2>8. ASSUME NEW t \in Task, RunnerReleases(t) PROVE runner[u].at = "works"
    BY <2>1, <2>8 DEF RunnerReleases, RunnerTypes, NoRunner
  <2>9. ASSUME NEW t \in Task, NEW by \in Callers, NEW named \in BOOLEAN, CancelReads(t, by, named)
        PROVE  runner[u].at = "works"
    <3>1. UNCHANGED runner \/ runner' = [runner EXCEPT ![t].aborted = TRUE, ![t].named = named]
      BY <2>9 DEF CancelReads
    <3> QED BY <2>1, <3>1 DEF RunnerTypes
  <2>10. ASSUME NEW t \in Task, (\E by \in Callers : CancelEnds(t, by))
                                \/ \E passing \in BOOLEAN : RetryReads(t, passing)
         PROVE  runner[u].at = "works"
    BY <2>10 DEF CancelEnds, RetryReads
  <2>11. CASE DrainPicks \/ DrainEnds \/ DrainCancelled \/ CancelAll \/ Disposed
    BY <2>11 DEF DrainPicks, DrainEnds, DrainCancelled, CancelAll, Disposed
  <2>12. CASE DrainReads
    <3>1. UNCHANGED runner \/ \E a \in BOOLEAN :
            runner' = [runner EXCEPT ![drain.task] = [NoRunner EXCEPT !.at = "made", !.aborted = a]]
      <4>1. (drain.task \in signalled) \in BOOLEAN
        OBVIOUS
      <4> QED BY <2>12, <4>1, Zenon DEF DrainReads
    <3> QED BY <2>1, <3>1 DEF RunnerTypes, NoRunner
  <2>13. CASE DrainStarts
    BY <2>1, <2>13 DEF DrainStarts, RunnerTypes
  <2>14. CASE Dispose
    BY <2>14 DEF Dispose
  <2>15. CASE AgentProcessRestarts
    BY <2>15 DEF AgentProcessRestarts, NoRunner
  <2> QED BY <1>1, <2>2, <2>3, <2>4, <2>5, <2>6, <2>7, <2>8, <2>9, <2>10, <2>11, <2>12, <2>13, <2>14, <2>15
          DEF AgentNext
<1>2. AgentInv /\ [AgentNext]_agentVars => [Quiet]_agentVars
  BY <1>1
<1> QED BY <1>2, AgentInvHolds, PTL DEF AgentSpec, QuietAfterDispose
=============================================================================
