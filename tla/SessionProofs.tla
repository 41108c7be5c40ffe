---------------------------- MODULE SessionProofs ----------------------------
(***************************************************************************)
(* What goes on around a session, for any number of tasks, jobs, workers   *)
(* and wakes: effect intents, background jobs, the wakes of Auto sessions, *)
(* and the four components of MCSessions together (sub-agents are in       *)
(* SubAgentProofs).                                                        *)
(***************************************************************************)
EXTENDS SubAgentProofs, MCSessions

-----------------------------------------------------------------------------
(* Sequences *)

LEMMA TailFacts ==
  ASSUME NEW S, NEW s \in Seq(S), s # <<>>
  PROVE  /\ Len(s) \in Nat \ {0} /\ Head(s) = s[1] /\ Head(s) \in S
         /\ Tail(s) \in Seq(S) /\ Len(Tail(s)) = Len(s) - 1
         /\ \A i \in 1..Len(Tail(s)) : Tail(s)[i] = s[i + 1]
BY EmptySeq, HeadTailProperties

LEMMA RemoveAtFacts ==
  ASSUME NEW S, NEW s \in Seq(S), NEW i \in 1..Len(s)
  PROVE  /\ RemoveAt(s, i) \in Seq(S) /\ Len(RemoveAt(s, i)) = Len(s) - 1
         /\ \A k \in 1..(Len(s) - 1) : RemoveAt(s, i)[k] = IF k < i THEN s[k] ELSE s[k + 1]
<1> DEFINE low == SubSeq(s, 1, i - 1)  high == SubSeq(s, i + 1, Len(s))
<1>1. Len(s) \in Nat /\ i \in Nat /\ \A k \in 1..Len(s) : s[k] \in S
  BY LenProperties, ElementOfSeq
<1>2. /\ low \in Seq(S) /\ Len(low) = i - 1
      /\ \A k \in 1..(i - 1) : low[k] = s[k]
  BY <1>1, SubSeqProperties
<1>3. /\ high \in Seq(S) /\ Len(high) = Len(s) - i
      /\ \A k \in 1..(Len(s) - i) : high[k] = s[i + k]
  <2>1. i + 1 \in Int /\ \A k \in (i + 1)..Len(s) : s[k] \in S
    BY <1>1
  <2> QED BY <1>1, <2>1, SubSeqProperties
<1> HIDE DEF low, high
<1>4. /\ low \o high \in Seq(S) /\ Len(low \o high) = Len(s) - 1
      /\ \A k \in 1..(Len(s) - 1) : (low \o high)[k] = IF k <= i - 1 THEN low[k] ELSE high[k - (i - 1)]
  <2>1. /\ low \o high \in Seq(S) /\ Len(low \o high) = Len(low) + Len(high)
        /\ \A k \in 1..(Len(low) + Len(high)) :
             (low \o high)[k] = IF k <= Len(low) THEN low[k] ELSE high[k - Len(low)]
    BY <1>2, <1>3, ConcatProperties
  <2>2. Len(low) + Len(high) = Len(s) - 1
    BY <1>1, <1>2, <1>3
  <2> QED BY <1>2, <2>1, <2>2
<1>5. RemoveAt(s, i) = low \o high
  BY DEF RemoveAt, low, high
<1>6. \A k \in 1..(Len(s) - 1) : (low \o high)[k] = IF k < i THEN s[k] ELSE s[k + 1]
  <2> SUFFICES ASSUME NEW k \in 1..(Len(s) - 1)
               PROVE  (low \o high)[k] = IF k < i THEN s[k] ELSE s[k + 1]
    OBVIOUS
  <2>1. CASE k < i
    BY <1>1, <1>2, <1>4, <2>1
  <2>2. CASE ~(k < i)
    <3>1. k - (i - 1) \in 1..(Len(s) - i) /\ i + (k - (i - 1)) = k + 1 /\ ~(k <= i - 1)
      BY <1>1, <2>2
    <3>2. high[k - (i - 1)] = s[k + 1]
      BY <1>3, <3>1
    <3> QED BY <1>4, <2>2, <3>1, <3>2
  <2> QED BY <2>1, <2>2
<1> QED BY <1>4, <1>5, <1>6

-----------------------------------------------------------------------------
(* EffectIntents *)

EffectWork ==
  [pc : {"rest", "start", "prepare", "submit", "record", "inspect", "complete", "report"},
   key : Version \cup {Unclaimed}, receipt : Receipt,
   verdict : {"none", "pending", "succeeded", "failed"}]

EffectTypes ==
  /\ intent \in [status : {"none", "prepared", "submitted", "succeeded", "failed"},
                 key : Version \cup {Unclaimed}, receipt : Receipt]
  /\ operation \in [Version -> {"none", "pending", "succeeded", "failed"}]
  /\ claim \in Worker \cup {Unclaimed}
  /\ outcome \in {"open", "parked", "success", "failure"}
  /\ work \in [Worker -> EffectWork]
  /\ stateNow \in Version

\* Whatever is done, is done for the key that the intent holds: what workers hold
\* in memory, receipts and operations, those of workers that lost their lease too.
ForTheKey ==
  /\ intent = NoIntent \/ intent.key \in Version
  /\ intent = NoIntent \/ intent.status # "none"
  /\ intent.receipt # NoReceipt => intent.receipt.key = intent.key
  /\ \A v \in Version : operation[v] # "none" => intent # NoIntent /\ v = intent.key
  /\ \A w \in Worker : work[w].pc = "prepare" => work[w].key \in Version
  /\ \A w \in Worker : work[w].pc \in {"submit", "record", "inspect", "complete"} =>
       intent # NoIntent /\ work[w].key = intent.key
  /\ \A w \in Worker : work[w].pc \in {"record", "inspect", "complete"} =>
       work[w].receipt # NoReceipt /\ work[w].receipt.key = intent.key
  /\ \A w \in Worker : work[w].pc \in {"inspect", "complete"} => intent.receipt # NoReceipt
  /\ \A w \in Worker : work[w].pc = "complete" => work[w].verdict \in {"succeeded", "failed"}

Succeeded == intent.receipt # NoReceipt /\ operation[intent.key] = "succeeded"

\* Whoever says that the operation succeeded says it of an operation that did.
SaysTheTruth ==
  /\ intent.status = "succeeded" => Succeeded
  /\ outcome = "success" => Succeeded
  /\ \A w \in Worker : work[w].pc \in {"complete", "report"} /\ work[w].verdict = "succeeded" => Succeeded

EffectInv == EffectTypes /\ ForTheKey /\ SaysTheTruth

LEMMA EffectInitInv == EffectInit => EffectInv
BY EffectAssumption
   DEF EffectInit, EffectInv, EffectTypes, ForTheKey, SaysTheTruth, NoIntent, NoReceipt, Receipt,
       AtRest, EffectWork

LEMMA OneKey == ASSUME EffectInv PROVE OneRealOperation
<1> DEFINE Begun1 == {v \in Version : operation[v] # "none"}
<1>1. Begun1 \subseteq {intent.key}
  BY DEF EffectInv, ForTheKey
<1>2. IsFiniteSet({intent.key}) /\ Cardinality({intent.key}) = 1
  BY FS_Singleton
<1>3. Cardinality(Begun1) <= 1
  BY <1>1, <1>2, FS_Subset
<1>4. OneOperation
  BY <1>3 DEF OneOperation
<1>5. SuccessIsReal
  BY DEF EffectInv, ForTheKey, SaysTheTruth, Succeeded, SuccessIsReal
<1> QED BY <1>4, <1>5 DEF OneRealOperation

LEMMA Moved ==
  ASSUME NEW w \in Worker, NEW r \in EffectWork, work \in [Worker -> EffectWork],
         work' = [work EXCEPT ![w] = r]
  PROVE  /\ work' \in [Worker -> EffectWork] /\ work'[w] = r
         /\ \A u \in Worker : u # w => work'[u] = work[u]
OBVIOUS

\* A worker that reports, or has not begun, holds nothing that matters to the key.
LEMMA AnswerIsWork ==
  ASSUME NEW v \in {"pending", "succeeded", "failed"}
  PROVE  [pc |-> "report", key |-> Unclaimed, receipt |-> NoReceipt, verdict |-> v] \in EffectWork
BY DEF EffectWork, Receipt

LEMMA WorkerGoes ==
  ASSUME EffectInv, NEW w \in Worker, ClaimEffect(w) \/ ReportEffect(w) \/ WorkerDies(w)
  PROVE  EffectInv'
<1> USE EffectAssumption DEF EffectInv, EffectTypes, EffectWork, ForTheKey, SaysTheTruth, Succeeded,
        MovesOn, NoReceipt, Receipt
<1>1. CASE ClaimEffect(w)
  BY <1>1 DEF ClaimEffect
<1>2. CASE ReportEffect(w)
  BY <1>2 DEF ReportEffect, DoneExecuting, OutcomeOf, AtRest
<1>3. CASE WorkerDies(w)
  BY <1>3 DEF WorkerDies, AtRest
<1> QED BY <1>1, <1>2, <1>3

LEMMA WorkerStarts ==
  ASSUME EffectInv, NEW w \in Worker, StartEffect(w)
  PROVE  EffectInv'
<1>1. PICK r \in EffectWork :
        /\ work' = [work EXCEPT ![w] = r]
        /\ \/ r.pc = "report" /\ r.verdict = "failed"
           \/ r.pc = "prepare" /\ r.key \in Version /\ r.verdict = "none"
  <2>1. CASE Answers(w, "failed")
    BY <2>1, AnswerIsWork DEF Answers, MovesOn
  <2>2. CASE MovesOn(w, "prepare", stateNow, NoReceipt, "none")
    <3>1. [pc |-> "prepare", key |-> stateNow, receipt |-> NoReceipt, verdict |-> "none"] \in EffectWork
      BY DEF EffectWork, Receipt, EffectInv, EffectTypes
    <3>2. stateNow \in Version
      BY DEF EffectInv, EffectTypes
    <3> QED BY <2>2, <3>1, <3>2 DEF MovesOn
  <2> QED BY <2>1, <2>2 DEF StartEffect
<1>2. /\ work' \in [Worker -> EffectWork] /\ work'[w] = r
      /\ \A u \in Worker : u # w => work'[u] = work[u]
  BY <1>1, Moved DEF EffectInv, EffectTypes
<1> QED BY <1>1, <1>2
        DEF StartEffect, EffectInv, EffectTypes, ForTheKey, SaysTheTruth, Succeeded

LEMMA WorkerInspects ==
  ASSUME EffectInv, NEW w \in Worker, InspectEffect(w)
  PROVE  EffectInv'
<1> USE EffectAssumption DEF EffectInv, EffectTypes, EffectWork, ForTheKey, SaysTheTruth, Succeeded,
        MovesOn, Answers, NoReceipt, Receipt
<1>1. CASE Answers(w, "pending")
  BY <1>1 DEF InspectEffect
<1>2. CASE ~Answers(w, "pending")
  BY <1>2 DEF InspectEffect
<1> QED BY <1>1, <1>2

LEMMA WorkerPrepares ==
  ASSUME EffectInv, NEW w \in Worker, PrepareEffect(w)
  PROVE  EffectInv'
<1>1. /\ work[w].pc = "prepare" /\ work[w].key \in Version
      /\ UNCHANGED <<operation, claim, outcome, stateNow>>
  BY DEF PrepareEffect, EffectInv, ForTheKey
<1>2. CASE intent = NoIntent
  <2>1. /\ intent' = [NoIntent EXCEPT !.status = "prepared", !.key = work[w].key]
        /\ MovesOn(w, "submit", work[w].key, NoReceipt, "none")
    BY <1>2 DEF PrepareEffect
  <2>2. /\ intent' \in [status : {"none", "prepared", "submitted", "succeeded", "failed"},
                         key : Version \cup {Unclaimed}, receipt : Receipt]
        /\ intent'.status = "prepared" /\ intent'.key = work[w].key /\ intent'.receipt = NoReceipt
        /\ intent' # NoIntent
    BY <1>1, <2>1 DEF NoIntent, Receipt
  <2>3. PICK r \in EffectWork : /\ work' = [work EXCEPT ![w] = r]
                                /\ r.pc = "submit" /\ r.key = work[w].key
    <3>1. [pc |-> "submit", key |-> work[w].key, receipt |-> NoReceipt, verdict |-> "none"] \in EffectWork
      BY <1>1 DEF EffectWork, Receipt
    <3> QED BY <2>1, <3>1 DEF MovesOn
  <2>4. /\ work' \in [Worker -> EffectWork] /\ work'[w] = r
        /\ \A u \in Worker : u # w => work'[u] = work[u]
    BY <2>3, Moved DEF EffectInv, EffectTypes
  <2>5. /\ \A v \in Version : operation[v] = "none"
        /\ \A u \in Worker : work[u].pc \notin {"submit", "record", "inspect", "complete"}
        /\ intent.status = "none" /\ ~Succeeded
    BY <1>2 DEF EffectInv, ForTheKey, Succeeded, NoIntent
  <2>6. /\ outcome # "success"
        /\ \A u \in Worker : work[u].pc \in {"complete", "report"} => work[u].verdict # "succeeded"
    BY <2>5 DEF EffectInv, SaysTheTruth
  <2>7. EffectTypes'
    BY <1>1, <2>2, <2>4 DEF EffectInv, EffectTypes
  <2>8. ForTheKey'
    BY <1>1, <2>2, <2>3, <2>4, <2>5 DEF EffectInv, ForTheKey
  <2>9. SaysTheTruth'
    BY <1>1, <2>2, <2>3, <2>4, <2>6 DEF SaysTheTruth
  <2> QED BY <2>7, <2>8, <2>9 DEF EffectInv
<1>3. CASE intent # NoIntent
  <2>1. intent' = intent
    BY <1>3 DEF PrepareEffect
  <2>2. PICK r \in EffectWork :
          /\ work' = [work EXCEPT ![w] = r]
          /\ \/ r.pc = "report" /\ (r.verdict = "succeeded" => intent.status = "succeeded")
             \/ r.pc = "submit" /\ r.key = intent.key
             \/ /\ r.pc = "record" /\ r.key = intent.key /\ r.receipt = intent.receipt
                /\ r.receipt # NoReceipt
    <3>1. CASE ~SameOperation(w)
      BY <1>3, <3>1, AnswerIsWork DEF PrepareEffect, Answers, MovesOn
    <3>2. CASE SameOperation(w) /\ intent.status \in {"succeeded", "failed"}
      BY <1>3, <3>2, AnswerIsWork DEF PrepareEffect, Answers, MovesOn
    <3>3. CASE SameOperation(w) /\ intent.status \notin {"succeeded", "failed"}
      <4>1. /\ intent.key = work[w].key
            /\ MovesOn(w, IF intent.receipt = NoReceipt THEN "submit" ELSE "record",
                       work[w].key, intent.receipt, "none")
        BY <1>3, <3>3 DEF PrepareEffect, SameOperation
      <4>2. intent.receipt \in Receipt
        BY DEF EffectInv, EffectTypes
      <4>3. \A p \in {"submit", "record"} :
              [pc |-> p, key |-> work[w].key, receipt |-> intent.receipt, verdict |-> "none"] \in EffectWork
        BY <1>1, <4>2 DEF EffectWork
      <4>4. CASE intent.receipt = NoReceipt
        BY <4>1, <4>3, <4>4 DEF MovesOn
      <4>5. CASE intent.receipt # NoReceipt
        BY <4>1, <4>3, <4>5 DEF MovesOn
      <4> QED BY <4>4, <4>5
    <3> QED BY <3>1, <3>2, <3>3
  <2>3. /\ work' \in [Worker -> EffectWork] /\ work'[w] = r
        /\ \A u \in Worker : u # w => work'[u] = work[u]
    BY <2>2, Moved DEF EffectInv, EffectTypes
  <2>4. EffectTypes'
    BY <1>1, <2>1, <2>3 DEF EffectInv, EffectTypes
  <2>5. ForTheKey'
    BY <1>1, <1>3, <2>1, <2>2, <2>3 DEF EffectInv, ForTheKey
  <2>6. SaysTheTruth'
    BY <1>1, <2>1, <2>2, <2>3 DEF EffectInv, SaysTheTruth, Succeeded
  <2> QED BY <2>4, <2>5, <2>6 DEF EffectInv
<1> QED BY <1>2, <1>3

LEMMA WorkerSubmits ==
  ASSUME EffectInv, NEW w \in Worker, SubmitEffect(w) \/ SubmitThrows(w)
  PROVE  EffectInv'
<1>1. /\ work[w].pc = "submit" /\ work[w].key = intent.key /\ intent.key \in Version
      /\ intent # NoIntent /\ UNCHANGED <<intent, claim, outcome, stateNow>>
  BY DEF SubmitEffect, SubmitThrows, EffectInv, ForTheKey
<1>2. /\ operation' \in [Version -> {"none", "pending", "succeeded", "failed"}]
      /\ \A v \in Version : operation'[v] # "none" => v = intent.key
      /\ operation[intent.key] = "succeeded" => operation'[intent.key] = "succeeded"
  BY <1>1 DEF SubmitEffect, SubmitThrows, Begun, EffectInv, EffectTypes, ForTheKey
<1>3. PICK r \in EffectWork :
        /\ work' = [work EXCEPT ![w] = r]
        /\ \/ r.pc = "report" /\ r.verdict = "failed"
           \/ /\ r.pc = "record" /\ r.key = intent.key /\ r.receipt # NoReceipt
              /\ r.receipt.key = intent.key
  <2>1. CASE SubmitEffect(w)
    <3> DEFINE mine == [by |-> w, key |-> intent.key]
    <3>1. w # Unclaimed /\ mine.by = w /\ NoReceipt.by = Unclaimed
      BY EffectAssumption DEF EffectAssumption, NoReceipt
    <3>2. mine \in Receipt /\ mine # NoReceipt /\ mine.key = intent.key
      BY <1>1, <3>1 DEF Receipt
    <3>3. [pc |-> "record", key |-> intent.key, receipt |-> mine, verdict |-> "none"] \in EffectWork
      BY <1>1, <3>2 DEF EffectWork
    <3>4. work' = [work EXCEPT ![w] =
             [pc |-> "record", key |-> intent.key, receipt |-> mine, verdict |-> "none"]]
      BY <1>1, <2>1 DEF SubmitEffect, MovesOn
    <3> QED BY <3>2, <3>3, <3>4
  <2>2. CASE SubmitThrows(w)
    BY <2>2, AnswerIsWork DEF SubmitThrows, Answers, MovesOn
  <2> QED BY <2>1, <2>2
<1>4. /\ work' \in [Worker -> EffectWork] /\ work'[w] = r
      /\ \A u \in Worker : u # w => work'[u] = work[u]
  BY <1>3, Moved DEF EffectInv, EffectTypes
<1>5. EffectTypes'
  BY <1>1, <1>2, <1>4 DEF EffectInv, EffectTypes
<1>6. ForTheKey'
  BY <1>1, <1>2, <1>3, <1>4 DEF EffectInv, ForTheKey
<1>7. SaysTheTruth'
  BY <1>1, <1>2, <1>3, <1>4 DEF EffectInv, SaysTheTruth, Succeeded
<1> QED BY <1>5, <1>6, <1>7 DEF EffectInv

LEMMA WorkerRecords ==
  ASSUME EffectInv, NEW w \in Worker, RecordReceipt(w) \/ CompleteEffect(w)
  PROVE  EffectInv'
<1> DEFINE Intents == [status : {"none", "prepared", "submitted", "succeeded", "failed"},
                       key : Version \cup {Unclaimed}, receipt : Receipt]
<1>1. /\ work[w].key = intent.key /\ intent.key \in Version /\ intent \in Intents /\ intent # NoIntent
      /\ work[w] \in EffectWork /\ work[w].receipt # NoReceipt /\ work[w].receipt.key = intent.key
      /\ UNCHANGED <<operation, claim, outcome, stateNow>>
  BY DEF RecordReceipt, CompleteEffect, EffectInv, ForTheKey, EffectTypes
<1>2. CASE RecordReceipt(w)
  <2>1. /\ intent' \in Intents /\ intent'.receipt # NoReceipt /\ intent'.key = intent.key
        /\ intent'.receipt.key = intent.key /\ intent'.status # "none"
        /\ intent'.status = "succeeded" => intent.status = "succeeded"
        /\ intent.receipt # NoReceipt => intent'.receipt = intent.receipt
    BY <1>1, <1>2 DEF RecordReceipt, Recorded, EffectInv, ForTheKey, EffectWork
  <2>2. PICK r \in EffectWork :
          /\ work' = [work EXCEPT ![w] = r]
          /\ r.pc = "inspect" /\ r.key = intent.key /\ r.receipt = intent'.receipt
    <3>1. [pc |-> "inspect", key |-> intent.key, receipt |-> intent'.receipt, verdict |-> "none"]
            \in EffectWork
      BY <1>1, <2>1 DEF EffectWork
    <3> QED BY <1>1, <1>2, <3>1 DEF RecordReceipt, MovesOn
  <2>3. /\ work' \in [Worker -> EffectWork] /\ work'[w] = r
        /\ \A u \in Worker : u # w => work'[u] = work[u]
    BY <2>2, Moved DEF EffectInv, EffectTypes
  <2>4. EffectTypes'
    BY <1>1, <2>1, <2>3 DEF EffectInv, EffectTypes
  <2>5. intent' # NoIntent
    BY <2>1 DEF NoIntent
  <2>6. ForTheKey'
    BY <1>1, <2>1, <2>2, <2>3, <2>5 DEF EffectInv, ForTheKey
  <2>7. SaysTheTruth'
    BY <1>1, <2>1, <2>2, <2>3 DEF EffectInv, SaysTheTruth, Succeeded
  <2> QED BY <2>4, <2>6, <2>7 DEF EffectInv
<1>3. CASE CompleteEffect(w)
  <2>1. /\ work[w].pc = "complete" /\ work[w].verdict \in {"succeeded", "failed"}
        /\ intent' = [intent EXCEPT !.status = work[w].verdict]
        /\ Answers(w, work[w].verdict)
        /\ work[w].verdict = "succeeded" => Succeeded
    BY <1>3 DEF CompleteEffect, EffectInv, SaysTheTruth, ForTheKey
  <2>2. /\ intent' \in Intents /\ intent'.receipt = intent.receipt /\ intent'.key = intent.key
        /\ intent'.status = work[w].verdict
    BY <1>1, <2>1
  <2>3. PICK r \in EffectWork :
          /\ work' = [work EXCEPT ![w] = r]
          /\ r.pc = "report" /\ r.verdict = work[w].verdict
    BY <2>1, AnswerIsWork DEF Answers, MovesOn
  <2>4. /\ work' \in [Worker -> EffectWork] /\ work'[w] = r
        /\ \A u \in Worker : u # w => work'[u] = work[u]
    BY <2>3, Moved DEF EffectInv, EffectTypes
  <2>5. EffectTypes'
    BY <1>1, <2>2, <2>4 DEF EffectInv, EffectTypes
  <2>6. intent' # NoIntent
    BY <2>1, <2>2 DEF NoIntent
  <2>7. ForTheKey'
    BY <1>1, <2>1, <2>2, <2>3, <2>4, <2>6 DEF EffectInv, ForTheKey
  <2>8. SaysTheTruth'
    BY <1>1, <2>1, <2>2, <2>3, <2>4 DEF EffectInv, SaysTheTruth, Succeeded
  <2> QED BY <2>5, <2>7, <2>8 DEF EffectInv
<1> QED BY <1>2, <1>3

LEMMA EffectStepInv == EffectInv /\ [EffectNext]_effectVars => EffectInv'
<1> SUFFICES ASSUME EffectInv, [EffectNext]_effectVars PROVE EffectInv'
  OBVIOUS
<1>1. CASE PollAgain \/ LoseLease \/ StateMoves \/ TimeoutPasses \/ UNCHANGED effectVars
  BY <1>1 DEF PollAgain, LoseLease, StateMoves, TimeoutPasses, effectVars, EffectInv, EffectTypes,
              ForTheKey, SaysTheTruth, Succeeded
<1>2. ASSUME NEW v \in Version, OperationSettles(v) PROVE EffectInv'
  BY <1>2 DEF OperationSettles, EffectInv, EffectTypes, ForTheKey, SaysTheTruth, Succeeded
<1> QED BY <1>1, <1>2, WorkerGoes, WorkerStarts, WorkerInspects, WorkerPrepares, WorkerSubmits,
           WorkerRecords
        DEF EffectNext, WorkerStep

\* However often an Effect is executed again, by workers that lost their lease or died
\* anywhere: it is one operation at the provider, and a success is that operation's.
THEOREM EffectIsOne == EffectSpec => []OneRealOperation
BY EffectInitInv, EffectStepInv, OneKey, PTL DEF EffectSpec

\* Whatever later submits answer, the receipt that is durable stays.
THEOREM ReceiptIsFinal == EffectSpec => FirstReceiptStands
<1>1. ASSUME EffectInv, [EffectNext]_effectVars, intent.receipt # NoReceipt
      PROVE  intent'.receipt = intent.receipt
  <2>1. intent \in [status : {"none", "prepared", "submitted", "succeeded", "failed"},
                   key : Version \cup {Unclaimed}, receipt : Receipt]
    BY <1>1 DEF EffectInv, EffectTypes
  <2>2. ASSUME NEW w \in Worker, PrepareEffect(w) PROVE intent' = intent
    BY <1>1, <2>2 DEF PrepareEffect, NoIntent
  <2>3. ASSUME NEW w \in Worker, RecordReceipt(w) PROVE intent'.receipt = intent.receipt
    <3>1. CASE intent.receipt = work[w].receipt
      BY <2>1, <2>3, <3>1 DEF RecordReceipt, Recorded
    <3>2. CASE intent.receipt # work[w].receipt
      BY <1>1, <2>3, <3>2 DEF RecordReceipt, Recorded
    <3> QED BY <3>1, <3>2
  <2>4. ASSUME NEW w \in Worker, CompleteEffect(w) PROVE intent'.receipt = intent.receipt
    BY <2>1, <2>4 DEF CompleteEffect
  <2>5. ASSUME NEW w \in Worker,
               ClaimEffect(w) \/ StartEffect(w) \/ SubmitEffect(w) \/ InspectEffect(w)
               \/ ReportEffect(w) \/ SubmitThrows(w) \/ WorkerDies(w)
        PROVE  intent' = intent
    BY <2>5 DEF ClaimEffect, StartEffect, SubmitEffect, InspectEffect, ReportEffect, SubmitThrows, WorkerDies
  <2>6. ASSUME NEW v \in Version, OperationSettles(v) PROVE intent' = intent
    BY <2>6 DEF OperationSettles
  <2>7. CASE PollAgain \/ LoseLease \/ StateMoves \/ TimeoutPasses \/ UNCHANGED effectVars
    BY <2>7 DEF PollAgain, LoseLease, StateMoves, TimeoutPasses, effectVars
  <2> QED BY <1>1, <2>2, <2>3, <2>4, <2>5, <2>6, <2>7 DEF EffectNext, WorkerStep
<1>2. EffectInv /\ [EffectNext]_effectVars =>
        [intent.receipt # NoReceipt => intent'.receipt = intent.receipt]_effectVars
  BY <1>1
<1> QED BY <1>2, EffectInitInv, EffectStepInv, PTL DEF EffectSpec, FirstReceiptStands

-----------------------------------------------------------------------------
(* JobManager *)

JobStatuses == Active \cup Terminal
JobWrite == [status : JobStatuses, rev : Nat]
JobRecord ==
  [status : {"none"} \cup JobStatuses, rev : Nat, persisted : Nat, result : {"none"} \cup Outcomes]
ExecRecord ==
  [state : {"none", "queued", "running", "settled"}, aborted : BOOLEAN, reported : BOOLEAN]

JobTypes ==
  /\ job \in [Job -> JobRecord]
  /\ exec \in [Job -> ExecRecord]
  /\ queue \in Seq(Job) /\ running \in Nat
  /\ chain \in [Job -> [writes : Seq(JobWrite), failed : Nat]]
  /\ lastResort \in [Job -> JobWrite \cup {NoWrite}] /\ jobDisk \in [Job -> JobWrite \cup {NoWrite}]
  /\ waiter \in [Job -> {"none", "waiting", "resolved", "rejected"}]
  /\ maxQueued \in Nat

InSlots == {j \in Job : exec[j].state = "running"}

\* The executor counts what runs, and what it will start has not been started.
ExecutorSound ==
  /\ IsFiniteSet(InSlots) /\ running = Cardinality(InSlots) /\ running <= MaxConcurrent
  /\ Len(queue) <= maxQueued
  /\ \A i \in 1..Len(queue) : exec[queue[i]].state = "queued"
  /\ \A i, k \in 1..Len(queue) : queue[i] = queue[k] => i = k

\* What nobody has submitted or recovered has left no trace in this process.
Untouched(j) ==
  /\ job[j].status = "none" => job[j] = NoJob
  /\ job[j] = NoJob =>
       exec[j] = NotExecuting /\ chain[j] = NoChain /\ lastResort[j] = NoWrite /\ waiter[j] = "none"

\* A job with an outcome has nobody left who would give it another.
Decided(j) ==
  job[j].result # "none" =>
    /\ job[j].status \in Terminal /\ exec[j].state # "queued"
    /\ exec[j].state = "running" => exec[j].reported

\* The revisions: of what is written, what will be, and what the last resort writes.
Revisions(j) ==
  /\ job[j].persisted <= job[j].rev
  /\ job[j] # NoJob => jobDisk[j].rev <= job[j].persisted
  /\ lastResort[j].rev <= job[j].persisted
  /\ \A i \in 1..Len(chain[j].writes) :
       /\ chain[j].writes[i].rev <= job[j].rev
       /\ chain[j].writes[i].status \in Outcomes =>
            job[j].persisted <= chain[j].writes[i].rev /\ job[j].result # "none"
  /\ \A i, k \in 1..Len(chain[j].writes) : i < k => chain[j].writes[i].rev < chain[j].writes[k].rev

JobSound(j) == Untouched(j) /\ Decided(j) /\ Revisions(j)

JobInv == JobTypes /\ ExecutorSound /\ \A j \in Job : JobSound(j)

LEMMA JobInitInv == JobInit => JobInv
<1> SUFFICES ASSUME JobInit PROVE JobInv
  OBVIOUS
<1>1. <<>> \in Seq(Job) /\ <<>> \in Seq(JobWrite) /\ Len(<<>>) = 0
  BY EmptySeq
<1>2. NoChain \in [writes : Seq(JobWrite), failed : Nat] /\ NoChain.writes = <<>>
  BY <1>1 DEF NoChain
<1>3. NoWrite.rev = 0
  BY DEF NoWrite
<1>4. JobTypes
  BY <1>1, <1>2, <1>3, JobAssumption
     DEF JobInit, JobTypes, JobRecord, ExecRecord, NoJob, NotExecuting, JobStatuses, JobAssumption
<1>5. InSlots = {}
  BY DEF InSlots, JobInit, NotExecuting
<1>6. ExecutorSound
  BY <1>1, <1>5, FS_EmptySet, JobAssumption DEF ExecutorSound, JobInit, JobAssumption
<1>7. ASSUME NEW j \in Job PROVE JobSound(j)
  BY <1>1, <1>2, <1>3 DEF JobInit, JobSound, Untouched, Decided, Revisions, NoJob
<1> QED BY <1>4, <1>6, <1>7 DEF JobInv

\* A transition queues one more write, with the next revision.
LEMMA TransitionQueues ==
  ASSUME JobInv, NEW to, NEW j \in Job, Transition(to), j \in DOMAIN to,
         to[j] \in JobStatuses
  PROVE  /\ job'[j].status = to[j] /\ job'[j].rev = job[j].rev + 1
         /\ job'[j].persisted = job[j].persisted
         /\ job'[j].result = IF to[j] \in Outcomes THEN to[j] ELSE job[j].result
         /\ chain'[j].writes \in Seq(JobWrite)
         /\ Len(chain'[j].writes) = Len(chain[j].writes) + 1
         /\ \A i \in 1..Len(chain[j].writes) : chain'[j].writes[i] = chain[j].writes[i]
         /\ chain'[j].writes[Len(chain[j].writes) + 1] = [status |-> to[j], rev |-> job[j].rev + 1]
         /\ chain'[j].failed = chain[j].failed
<1> DEFINE w == [status |-> to[j], rev |-> job[j].rev + 1]
<1>1. w \in JobWrite /\ chain[j].writes \in Seq(JobWrite)
  <2>1. job[j].rev \in Nat /\ chain[j] \in [writes : Seq(JobWrite), failed : Nat]
    BY DEF JobInv, JobTypes, JobRecord, ExecRecord
  <2> QED BY <2>1 DEF JobWrite
<1>2. /\ Append(chain[j].writes, w) \in Seq(JobWrite)
      /\ Len(Append(chain[j].writes, w)) = Len(chain[j].writes) + 1
      /\ \A i \in 1..Len(chain[j].writes) : Append(chain[j].writes, w)[i] = chain[j].writes[i]
      /\ Append(chain[j].writes, w)[Len(chain[j].writes) + 1] = w
  BY <1>1, AppendProperties
<1>3. chain'[j] = [writes |-> Append(chain[j].writes, w), failed |-> chain[j].failed]
  BY DEF Transition
<1>4. chain'[j].writes = Append(chain[j].writes, w) /\ chain'[j].failed = chain[j].failed
  BY <1>3
<1>5. job'[j] = [status |-> to[j], rev |-> job[j].rev + 1, persisted |-> job[j].persisted,
                 result |-> IF to[j] \in Outcomes THEN to[j] ELSE job[j].result]
  BY DEF Transition
<1>6. /\ job'[j].status = to[j] /\ job'[j].rev = job[j].rev + 1
      /\ job'[j].persisted = job[j].persisted
      /\ job'[j].result = IF to[j] \in Outcomes THEN to[j] ELSE job[j].result
  BY <1>5
<1> QED BY <1>1, <1>2, <1>4, <1>6

LEMMA TransitionTypes ==
  ASSUME JobInv, NEW to, Transition(to), \A j \in Job : j \in DOMAIN to => to[j] \in JobStatuses
  PROVE  /\ job' \in [Job -> JobRecord]
         /\ chain' \in [Job -> [writes : Seq(JobWrite), failed : Nat]]
         /\ \A j \in Job : j \notin DOMAIN to => job'[j] = job[j] /\ chain'[j] = chain[j]
<1> DEFINE Jobs == JobRecord
           Chains == [writes : Seq(JobWrite), failed : Nat]
<1>1. \A j \in Job : /\ job[j].rev \in Nat /\ job[j].persisted \in Nat
                       /\ job[j].result \in {"none"} \cup Outcomes
                       /\ chain[j].writes \in Seq(JobWrite) /\ chain[j].failed \in Nat
  BY DEF JobInv, JobTypes, JobRecord, ExecRecord
<1>2. \A j \in Job : j \in DOMAIN to =>
        [status |-> to[j], rev |-> job[j].rev + 1, persisted |-> job[j].persisted,
         result |-> IF to[j] \in Outcomes THEN to[j] ELSE job[j].result] \in Jobs
  BY <1>1 DEF JobRecord
<1>3. \A j \in Job : j \in DOMAIN to =>
        [writes |-> Append(chain[j].writes, [status |-> to[j], rev |-> job[j].rev + 1]),
         failed |-> chain[j].failed] \in Chains
  <2> SUFFICES ASSUME NEW j \in Job, j \in DOMAIN to
               PROVE  Append(chain[j].writes, [status |-> to[j], rev |-> job[j].rev + 1]) \in Seq(JobWrite)
    BY <1>1
  <2>1. [status |-> to[j], rev |-> job[j].rev + 1] \in JobWrite
    BY <1>1 DEF JobWrite
  <2> QED BY <1>1, <2>1, AppendProperties
<1>4. \A j \in Job : job[j] \in Jobs /\ chain[j] \in Chains
  BY DEF JobInv, JobTypes, JobRecord, ExecRecord
<1>5. job' \in [Job -> Jobs]
  BY <1>2, <1>4 DEF Transition
<1>6. chain' \in [Job -> Chains]
  BY <1>3, <1>4 DEF Transition
<1> QED BY <1>5, <1>6 DEF Transition

\* Which transitions leave a job as sound as it was.
LEMMA TransitionSound ==
  ASSUME JobInv, NEW to, NEW j \in Job, Transition(to), j \in DOMAIN to,
         to[j] \in JobStatuses,
         job[j].result = "none",
         jobDisk'[j].rev <= job[j].persisted, lastResort' = lastResort,
         to[j] \in Outcomes => exec'[j].state # "queued" /\ (exec'[j].state = "running" => exec'[j].reported)
  PROVE  JobSound(j)'
<1>1. /\ job'[j].status = to[j] /\ job'[j].rev = job[j].rev + 1
      /\ job'[j].persisted = job[j].persisted
      /\ job'[j].result = IF to[j] \in Outcomes THEN to[j] ELSE job[j].result
      /\ Len(chain'[j].writes) = Len(chain[j].writes) + 1
      /\ \A i \in 1..Len(chain[j].writes) : chain'[j].writes[i] = chain[j].writes[i]
      /\ chain'[j].writes[Len(chain[j].writes) + 1] = [status |-> to[j], rev |-> job[j].rev + 1]
  BY TransitionQueues
<1>2. job'[j] # NoJob
  BY <1>1 DEF NoJob, JobStatuses, Active, Terminal, Outcomes
<1>3. job[j].rev \in Nat /\ job[j].persisted \in Nat /\ Len(chain[j].writes) \in Nat /\ JobSound(j)
  BY LenProperties DEF JobInv, JobTypes, JobRecord, ExecRecord
<1>4. \A i \in 1..Len(chain[j].writes) : chain[j].writes[i].rev \in Nat
  <2>1. chain[j].writes \in Seq(JobWrite)
    BY DEF JobInv, JobTypes, JobRecord, ExecRecord
  <2>2. \A i \in 1..Len(chain[j].writes) : chain[j].writes[i] \in JobWrite
    BY <2>1, ElementOfSeq
  <2> QED BY <2>2 DEF JobWrite
<1>5. Untouched(j)' /\ Decided(j)'
  BY <1>1, <1>2 DEF Untouched, Decided, Terminal, JobStatuses, Outcomes, Active
<1>6. \A i \in 1..Len(chain[j].writes) : chain[j].writes[i].status \notin Outcomes
  BY <1>3 DEF JobSound, Revisions
<1>7. "none" \notin Outcomes
  BY DEF Outcomes
<1>8. \A i \in 1..Len(chain'[j].writes) :
        i \in 1..Len(chain[j].writes) \/ i = Len(chain[j].writes) + 1
  BY <1>1, <1>3
<1>9. /\ job[j].persisted <= job[j].rev /\ lastResort[j].rev <= job[j].persisted
      /\ \A i \in 1..Len(chain[j].writes) : chain[j].writes[i].rev <= job[j].rev
      /\ \A i, k \in 1..Len(chain[j].writes) : i < k => chain[j].writes[i].rev < chain[j].writes[k].rev
  BY <1>3 DEF JobSound, Revisions
<1>10. /\ job'[j].persisted <= job'[j].rev /\ jobDisk'[j].rev <= job'[j].persisted
       /\ lastResort'[j].rev <= job'[j].persisted
  BY <1>1, <1>3, <1>9
<1>11. \A i \in 1..Len(chain'[j].writes) :
         /\ chain'[j].writes[i].rev <= job'[j].rev
         /\ chain'[j].writes[i].status \in Outcomes =>
              job'[j].persisted <= chain'[j].writes[i].rev /\ job'[j].result # "none"
  <2> SUFFICES ASSUME NEW i \in 1..Len(chain'[j].writes)
               PROVE  /\ chain'[j].writes[i].rev <= job'[j].rev
                      /\ chain'[j].writes[i].status \in Outcomes =>
                           job'[j].persisted <= chain'[j].writes[i].rev /\ job'[j].result # "none"
    OBVIOUS
  <2>1. CASE i \in 1..Len(chain[j].writes)
    <3>1. chain'[j].writes[i] = chain[j].writes[i]
      BY <1>1, <2>1
    <3> QED BY <1>1, <1>3, <1>4, <1>6, <1>9, <2>1, <3>1
  <2>2. CASE i = Len(chain[j].writes) + 1
    <3>1. chain'[j].writes[i].rev = job[j].rev + 1 /\ chain'[j].writes[i].status = to[j]
      BY <1>1, <2>2
    <3> QED BY <1>1, <1>3, <1>7, <1>9, <3>1
  <2> QED BY <1>8, <2>1, <2>2
<1>12. \A i, k \in 1..Len(chain'[j].writes) : i < k => chain'[j].writes[i].rev < chain'[j].writes[k].rev
  <2> SUFFICES ASSUME NEW i \in 1..Len(chain'[j].writes), NEW k \in 1..Len(chain'[j].writes), i < k
               PROVE  chain'[j].writes[i].rev < chain'[j].writes[k].rev
    OBVIOUS
  <2>1. i \in 1..Len(chain[j].writes) /\ chain'[j].writes[i] = chain[j].writes[i]
    BY <1>1, <1>3
  <2>2. CASE k \in 1..Len(chain[j].writes)
    <3>1. chain'[j].writes[k] = chain[j].writes[k]
      BY <1>1, <2>2
    <3> QED BY <1>9, <2>1, <2>2, <3>1
  <2>3. CASE k = Len(chain[j].writes) + 1
    <3>1. chain'[j].writes[k].rev = job[j].rev + 1
      BY <1>1, <2>3
    <3> QED BY <1>3, <1>4, <1>9, <2>1, <3>1
  <2> QED BY <1>8, <2>2, <2>3
<1>13. Revisions(j)'
  BY <1>10, <1>11, <1>12 DEF Revisions
<1> QED BY <1>5, <1>13 DEF JobSound

\* Whatever does not touch a job.
LEMMA Untroubled ==
  ASSUME JobInv, NEW j \in Job, job'[j] = job[j], exec'[j] = exec[j], chain'[j] = chain[j],
         lastResort'[j] = lastResort[j], jobDisk'[j] = jobDisk[j],
         waiter'[j] = waiter[j] \/ job[j] # NoJob
  PROVE  JobSound(j)'
BY DEF JobInv, JobSound, Untouched, Decided, Revisions

\* The executor's view, when nobody starts or stops.
LEMMA ExecutorSame ==
  ASSUME JobInv, queue' = queue, running' = running, maxQueued' = maxQueued,
         \A j \in Job : exec'[j].state = exec[j].state
  PROVE  ExecutorSound'
<1>1. InSlots' = InSlots
  BY DEF InSlots
<1>2. \A i \in 1..Len(queue) : queue[i] \in Job
  BY ElementOfSeq DEF JobInv, JobTypes, JobRecord, ExecRecord
<1> QED BY <1>1, <1>2 DEF JobInv, ExecutorSound

LEMMA SubmitInv ==
  ASSUME JobInv, NEW j \in Job, SubmitJob(j) PROVE JobInv'
<1>1. /\ job[j].status = "none" /\ job[j].result = "none" /\ exec[j] = NotExecuting
      /\ UNCHANGED <<lastResort, waiter, maxQueued>> /\ 0 <= job[j].persisted
  BY DEF SubmitJob, JobInv, JobSound, Untouched, JobTypes, JobRecord, ExecRecord, NoJob
<1>2. /\ jobDisk' = [jobDisk EXCEPT ![j] = [status |-> "submitted", rev |-> 0]]
      /\ [status |-> "submitted", rev |-> 0] \in JobWrite
  BY DEF SubmitJob, JobWrite, JobStatuses, Active
<1>3. /\ jobDisk' \in [Job -> JobWrite \cup {NoWrite}] /\ jobDisk'[j].rev = 0
      /\ \A i \in Job \ {j} : jobDisk'[i] = jobDisk[i]
  BY <1>2 DEF JobInv, JobTypes, JobRecord, ExecRecord
<1>4. PICK s \in {"running", "queued", "failed"} :
        /\ Transition([i \in {j} |-> s])
        /\ exec' = IF s = "failed" THEN exec ELSE [exec EXCEPT ![j].state = s]
        /\ queue' = IF s = "queued" THEN Append(queue, j) ELSE queue
        /\ running' = IF s = "running" THEN running + 1 ELSE running
        /\ s = "running" => running < MaxConcurrent
        /\ s = "queued" => QueueRoom
  BY DEF SubmitJob
<1> DEFINE to == [i \in {j} |-> s]
<1>5. /\ s \in JobStatuses /\ to[j] = s /\ DOMAIN to = {j}
      /\ \A i \in Job : i \in DOMAIN to => to[i] \in JobStatuses
  BY DEF JobStatuses, Active, Terminal, Outcomes
<1> HIDE DEF to
<1>6. Transition(to)
  BY <1>4 DEF to
<1>7. /\ job' \in [Job -> JobRecord]
      /\ chain' \in [Job -> [writes : Seq(JobWrite), failed : Nat]]
      /\ \A i \in Job : i \notin DOMAIN to => job'[i] = job[i] /\ chain'[i] = chain[i]
  BY <1>5, <1>6, TransitionTypes
<1>8. /\ exec' \in [Job -> ExecRecord]
      /\ exec'[j].state = IF s = "failed" THEN "none" ELSE s
      /\ \A i \in Job \ {j} : exec'[i] = exec[i]
  <2>1. CASE s = "failed"
    BY <1>1, <1>4, <2>1 DEF JobInv, JobTypes, JobRecord, ExecRecord, NotExecuting
  <2>2. CASE s # "failed"
    <3> DEFINE r == [exec[j] EXCEPT !.state = s]
    <3>1. exec \in [Job -> ExecRecord] /\ exec[j] \in ExecRecord
      BY DEF JobInv, JobTypes
    <3>2. r \in ExecRecord /\ r.state = s
      BY <2>2, <3>1 DEF ExecRecord
    <3>3. exec' = [exec EXCEPT ![j] = r]
      BY <1>4, <2>2
    <3> HIDE DEF r
    <3>4. exec' \in [Job -> ExecRecord] /\ exec'[j] = r /\ \A i \in Job \ {j} : exec'[i] = exec[i]
      BY <3>1, <3>2, <3>3
    <3> QED BY <2>2, <3>2, <3>4
  <2> QED BY <2>1, <2>2
<1>9. queue' \in Seq(Job) /\ running' \in Nat
  <2>1. queue \in Seq(Job) /\ running \in Nat
    BY DEF JobInv, JobTypes, JobRecord, ExecRecord
  <2>2. Append(queue, j) \in Seq(Job)
    BY <2>1, AppendProperties
  <2> QED BY <1>4, <2>1, <2>2
<1>10. JobTypes'
  BY <1>1, <1>3, <1>7, <1>8, <1>9 DEF JobInv, JobTypes, JobRecord, ExecRecord
<1>11. exec'[j].state # "queued" \/ s \notin Outcomes
  BY <1>8 DEF Outcomes
<1>12. JobSound(j)'
  <2>1. jobDisk'[j].rev <= job[j].persisted /\ lastResort' = lastResort
    BY <1>1, <1>3
  <2>2. to[j] \in Outcomes => exec'[j].state # "queued" /\ exec'[j].state # "running"
    BY <1>4, <1>5, <1>8 DEF Outcomes
  <2> QED BY <1>1, <1>5, <1>6, <2>1, <2>2, TransitionSound
<1>13. \A i \in Job \ {j} : JobSound(i)'
  BY <1>1, <1>3, <1>5, <1>7, <1>8, Untroubled
<1>14. ExecutorSound'
  <2>1. j \notin InSlots /\ \A i \in 1..Len(queue) : queue[i] # j
    BY <1>1 DEF InSlots, JobInv, ExecutorSound, NotExecuting
  <2>2. \A i \in 1..Len(queue) : queue[i] \in Job
    BY ElementOfSeq DEF JobInv, JobTypes, JobRecord, ExecRecord
  <2>3. CASE s = "failed"
    BY <1>1, <1>4, <1>8, <2>3, ExecutorSame DEF NotExecuting
  <2>4. CASE s = "running"
    <3>1. InSlots' = InSlots \cup {j}
      BY <1>8, <2>4 DEF InSlots
    <3>2. /\ IsFiniteSet(InSlots') /\ Cardinality(InSlots') = running + 1
      BY <2>1, <3>1, FS_AddElement DEF JobInv, ExecutorSound
    <3>3. running' = running + 1 /\ running + 1 <= MaxConcurrent
      BY <1>4, <2>4, JobAssumption DEF JobAssumption, JobInv, JobTypes, JobRecord, ExecRecord
    <3>4. \A i \in 1..Len(queue) : exec'[queue[i]].state = "queued"
      BY <1>8, <2>1, <2>2 DEF JobInv, ExecutorSound
    <3> QED BY <1>1, <1>4, <2>4, <3>2, <3>3, <3>4 DEF JobInv, ExecutorSound
  <2>5. CASE s = "queued"
    <3>1. InSlots' = InSlots
      BY <1>8, <2>1, <2>5 DEF InSlots
    <3>2. /\ Len(queue') = Len(queue) + 1 /\ queue'[Len(queue) + 1] = j
          /\ \A i \in 1..Len(queue) : queue'[i] = queue[i]
      BY <1>4, <2>5, AppendProperties DEF JobInv, JobTypes, JobRecord, ExecRecord
    <3>3. Len(queue) \in Nat /\ Len(queue') <= maxQueued
      BY <1>4, <2>5, <3>2, LenProperties DEF QueueRoom, JobInv, JobTypes, JobRecord, ExecRecord
    <3>4. \A i \in 1..Len(queue') : i \in 1..Len(queue) \/ i = Len(queue) + 1
      BY <3>2, <3>3
    <3>5. \A i \in 1..Len(queue) : exec'[queue[i]].state = "queued"
      BY <1>8, <2>1, <2>2 DEF JobInv, ExecutorSound
    <3>6. \A i \in 1..Len(queue') : exec'[queue'[i]].state = "queued"
      BY <1>8, <2>5, <3>2, <3>4, <3>5
    <3>7. \A i, k \in 1..Len(queue') : queue'[i] = queue'[k] => i = k
      BY <2>1, <3>2, <3>4 DEF JobInv, ExecutorSound
    <3> QED BY <1>1, <1>4, <2>5, <3>1, <3>3, <3>6, <3>7 DEF JobInv, ExecutorSound
  <2> QED BY <2>3, <2>4, <2>5
<1> QED BY <1>10, <1>12, <1>13, <1>14 DEF JobInv

\* A job that could not be submitted: a record, and nothing that would change it.
LEMMA SubmitFailsInv ==
  ASSUME JobInv, NEW j \in Job, SubmitFails(j) PROVE JobInv'
<1>1. /\ job[j].status = "none" /\ job' = [job EXCEPT ![j].status = "submitted"] /\ jobDisk[j] = NoWrite
      /\ UNCHANGED <<exec, queue, running, chain, lastResort, jobDisk, waiter, maxQueued>>
  BY DEF SubmitFails
<1>2. JobTypes /\ ExecutorSound /\ JobSound(j) /\ job[j] \in JobRecord
  BY DEF JobInv, JobTypes
<1>3. /\ job[j] = NoJob /\ exec[j] = NotExecuting /\ chain[j] = NoChain
      /\ lastResort[j] = NoWrite /\ waiter[j] = "none"
  BY <1>1, <1>2 DEF JobSound, Untouched
<1>4. /\ job'[j] = [NoJob EXCEPT !.status = "submitted"] /\ \A i \in Job \ {j} : job'[i] = job[i]
      /\ job' \in [Job -> JobRecord]
  BY <1>1, <1>2, <1>3 DEF JobTypes, JobRecord, JobStatuses, Active, NoJob
<1>5. JobTypes'
  BY <1>1, <1>2, <1>4 DEF JobTypes
<1>6. ExecutorSound'
  BY <1>1, ExecutorSame
<1>7. JobSound(j)'
  <2>1. /\ job'[j].status = "submitted" /\ job'[j].rev = 0 /\ job'[j].persisted = 0
        /\ job'[j].result = "none"
    BY <1>4 DEF NoJob
  <2>2. jobDisk'[j].rev = 0 /\ lastResort'[j].rev = 0 /\ Len(chain'[j].writes) = 0
    BY <1>1, <1>3, EmptySeq DEF NoWrite, NoChain
  <2>3. Untouched(j)'
    BY <2>1 DEF Untouched, NoJob
  <2>4. Decided(j)'
    BY <2>1 DEF Decided
  <2>5. Revisions(j)'
    BY <2>1, <2>2 DEF Revisions
  <2> QED BY <2>3, <2>4, <2>5 DEF JobSound
<1>8. \A i \in Job \ {j} : JobSound(i)'
  BY <1>1, <1>4, Untroubled
<1> QED BY <1>5, <1>6, <1>7, <1>8 DEF JobInv

LEMMA SettleInv ==
  ASSUME JobInv, NEW j \in Job, NEW how \in {"completed", "failed"}, HandlerSettles(j, how)
  PROVE  JobInv'
<1> DEFINE ending == IF exec[j].aborted THEN "cancelled" ELSE how
           told == IF Reports(j) THEN {j} ELSE {}
           next == IF queue # <<>> /\ SlotFree THEN {Head(queue)} ELSE {}
           to == [i \in told \cup next |-> IF i \in next THEN "running" ELSE ending]
<1>1. /\ exec[j].state = "running" /\ Transition(to)
      /\ exec' = [i \in Job |-> CASE i = j -> [exec[j] EXCEPT !.state = "settled", !.reported = TRUE]
                                   [] i \in next -> [exec[i] EXCEPT !.state = "running"]
                                   [] OTHER -> exec[i]]
      /\ queue' = IF next = {} THEN queue ELSE Tail(queue)
      /\ running' = (running - 1) + Cardinality(next)
      /\ UNCHANGED <<lastResort, jobDisk, waiter, maxQueued>>
  BY DEF HandlerSettles
<1>2. next = {} \/ \E h \in Job : /\ next = {h} /\ queue # <<>> /\ h = queue[1] /\ exec[h].state = "queued"
  <2>1. CASE queue # <<>>
    <3>1. Len(queue) \in Nat \ {0} /\ Head(queue) = queue[1] /\ Head(queue) \in Job
      BY <2>1, TailFacts DEF JobInv, JobTypes, JobRecord, ExecRecord
    <3>2. exec[queue[1]].state = "queued"
      BY <3>1 DEF JobInv, ExecutorSound
    <3> QED BY <2>1, <3>1, <3>2
  <2> QED BY <2>1
<1>3. ending \in Outcomes /\ ending \in JobStatuses /\ "running" \in JobStatuses
  BY DEF Outcomes, JobStatuses, Active, Terminal
<1>4. told \in {{}, {j}} /\ (told = {j} => ~exec[j].reported)
  BY DEF Reports
<1>5. j \notin next
  BY <1>1, <1>2
<1> HIDE DEF next, told, ending
<1>6. /\ DOMAIN to = told \cup next
      /\ \A i \in DOMAIN to : to[i] = IF i \in next THEN "running" ELSE ending
  OBVIOUS
<1> HIDE DEF to
<1>7. /\ job' \in [Job -> JobRecord]
      /\ chain' \in [Job -> [writes : Seq(JobWrite), failed : Nat]]
      /\ \A i \in Job : i \notin DOMAIN to => job'[i] = job[i] /\ chain'[i] = chain[i]
  <2>1. \A i \in Job : i \in DOMAIN to => to[i] \in JobStatuses
    BY <1>3, <1>6
  <2> QED BY <1>1, <2>1, TransitionTypes
<1>8. \A i \in Job : exec[i] \in ExecRecord
  BY DEF JobInv, JobTypes, JobRecord, ExecRecord
<1>9. /\ exec'[j].state = "settled" /\ exec'[j].reported
      /\ \A i \in next : i \in Job => exec'[i].state = "running"
      /\ \A i \in Job : i # j /\ i \notin next => exec'[i] = exec[i]
  BY <1>1, <1>5, <1>8 DEF ExecRecord
<1>10. exec' \in [Job -> ExecRecord]
  <2> SUFFICES ASSUME NEW i \in Job
               PROVE  exec'[i] \in ExecRecord
    BY <1>1
  <2>1. CASE i = j
    BY <1>1, <1>8, <2>1 DEF ExecRecord
  <2>2. CASE i # j /\ i \in next
    BY <1>1, <1>8, <2>2 DEF ExecRecord
  <2>3. CASE i # j /\ i \notin next
    BY <1>8, <1>9, <2>3
  <2> QED BY <2>1, <2>2, <2>3
<1>11. ASSUME NEW i \in Job PROVE JobSound(i)'
  <2>1. CASE i \in next
    <3>1. exec[i].state = "queued" /\ job[i].result = "none" /\ to[i] = "running" /\ i \in DOMAIN to
          /\ job[i] # NoJob
      BY <1>2, <1>6, <2>1 DEF JobInv, JobSound, Decided, Untouched, NotExecuting, JobTypes, JobRecord, ExecRecord, Outcomes
    <3>2. jobDisk'[i].rev <= job[i].persisted
      BY <1>1, <3>1 DEF JobInv, JobSound, Revisions
    <3> QED BY <1>1, <1>3, <3>1, <3>2, TransitionSound DEF Outcomes
  <2>2. CASE i = j /\ i \in told
    <3>1. /\ job[i].result = "none" /\ to[i] = ending /\ i \in DOMAIN to /\ job[i] # NoJob
      BY <1>1, <1>4, <1>5, <1>6, <2>2 DEF JobInv, JobSound, Decided, Untouched, NotExecuting, JobTypes, JobRecord, ExecRecord
    <3>2. jobDisk'[i].rev <= job[i].persisted
      BY <1>1, <3>1 DEF JobInv, JobSound, Revisions
    <3> QED BY <1>1, <1>3, <1>9, <2>2, <3>1, <3>2, TransitionSound
  <2>3. CASE i = j /\ i \notin told
    <3>1. job'[i] = job[i] /\ chain'[i] = chain[i] /\ job[i] # NoJob
      BY <1>1, <1>5, <1>6, <1>7, <2>3 DEF JobInv, JobSound, Untouched, NotExecuting
    <3> QED BY <1>1, <1>9, <2>3, <3>1 DEF JobInv, JobSound, Untouched, Decided, Revisions
  <2>4. CASE i # j /\ i \notin next
    BY <1>1, <1>4, <1>6, <1>7, <1>9, <2>4, Untroubled
  <2> QED BY <2>1, <2>2, <2>3, <2>4
<1>12. ExecutorSound' /\ queue' \in Seq(Job) /\ running' \in Nat
  <2>1. \A i \in 1..Len(queue) : queue[i] \in Job /\ queue[i] # j
    BY <1>1, ElementOfSeq DEF JobInv, JobTypes, JobRecord, ExecRecord, ExecutorSound
  <2>2. /\ IsFiniteSet(InSlots \ {j}) /\ Cardinality(InSlots \ {j}) = running - 1
        /\ running - 1 \in Nat /\ running \in Nat
    <3>1. j \in InSlots
      BY <1>1 DEF InSlots
    <3>2. IsFiniteSet(InSlots \ {j}) /\ Cardinality(InSlots \ {j}) = running - 1
      BY <3>1, FS_RemoveElement DEF JobInv, ExecutorSound
    <3> QED BY <3>2, FS_CardinalityType DEF JobInv, JobTypes, JobRecord, ExecRecord
  <2>3. CASE next = {}
    <3>1. InSlots' = InSlots \ {j}
      BY <1>9, <2>3 DEF InSlots
    <3>2. queue' = queue /\ running' = running - 1
      BY <1>1, <2>2, <2>3, FS_EmptySet
    <3>3. \A i \in 1..Len(queue) : exec'[queue[i]].state = "queued"
      BY <1>9, <2>1, <2>3 DEF JobInv, ExecutorSound
    <3>4. running - 1 <= MaxConcurrent
      BY <2>2, JobAssumption DEF JobInv, ExecutorSound, JobAssumption
    <3>5. queue \in Seq(Job) /\ Len(queue') <= maxQueued'
      BY <1>1, <3>2 DEF JobInv, JobTypes, JobRecord, ExecRecord, ExecutorSound
    <3>6. \A i, k \in 1..Len(queue) : queue[i] = queue[k] => i = k
      BY DEF JobInv, ExecutorSound
    <3> QED BY <2>2, <3>1, <3>2, <3>3, <3>4, <3>5, <3>6 DEF ExecutorSound
  <2>4. ASSUME NEW h \in Job, next = {h}, queue # <<>>, h = queue[1], exec[h].state = "queued"
        PROVE  ExecutorSound' /\ queue' \in Seq(Job) /\ running' \in Nat
    <3>1. InSlots' = (InSlots \ {j}) \cup {h} /\ h \notin InSlots
      BY <1>5, <1>9, <2>4 DEF InSlots
    <3>2. queue' = Tail(queue) /\ running' = running
      <4>1. next # {} /\ Cardinality(next) = 1
        BY <2>4, FS_Singleton
      <4> QED BY <1>1, <2>2, <4>1
    <3>3. IsFiniteSet(InSlots') /\ Cardinality(InSlots') = running
      BY <2>2, <3>1, FS_AddElement
    <3>4. /\ queue' \in Seq(Job) /\ Len(queue') = Len(queue) - 1 /\ Len(queue) \in Nat \ {0}
          /\ \A i \in 1..Len(queue') : queue'[i] = queue[i + 1]
      BY <2>4, <3>2, TailFacts DEF JobInv, JobTypes, JobRecord, ExecRecord
    <3>5. \A i \in 1..Len(queue') : i + 1 \in 1..Len(queue) /\ i + 1 # 1 /\ 1 \in 1..Len(queue)
      BY <3>4
    <3>6. \A i \in 1..Len(queue') : queue'[i] # h /\ queue'[i] # j /\ queue'[i] \in Job
      BY <2>1, <2>4, <3>4, <3>5 DEF JobInv, ExecutorSound
    <3>7. \A i \in 1..Len(queue') : exec'[queue'[i]].state = "queued"
      BY <1>9, <2>4, <3>4, <3>5, <3>6 DEF JobInv, ExecutorSound
    <3>8. \A i, k \in 1..Len(queue') : queue'[i] = queue'[k] => i = k
      BY <3>4, <3>5 DEF JobInv, ExecutorSound
    <3>9. Len(queue') <= maxQueued'
      BY <1>1, <3>4 DEF JobInv, JobTypes, JobRecord, ExecRecord, ExecutorSound
    <3> QED BY <2>2, <3>2, <3>3, <3>4, <3>7, <3>8, <3>9 DEF JobInv, ExecutorSound
  <2> QED BY <1>2, <2>3, <2>4
<1>13. JobTypes'
  BY <1>1, <1>7, <1>10, <1>12 DEF JobInv, JobTypes, JobRecord, ExecRecord
<1> QED BY <1>11, <1>12, <1>13 DEF JobInv

LEMMA WatchdogInv ==
  ASSUME JobInv, NEW j \in Job, Watchdog(j) PROVE JobInv'
<1> DEFINE to == [i \in {j} |-> "failed"]
<1>1. /\ exec[j].state = "running" /\ ~exec[j].reported /\ Transition(to)
      /\ exec' = [exec EXCEPT ![j].aborted = TRUE, ![j].reported = TRUE]
      /\ UNCHANGED <<queue, running, lastResort, jobDisk, waiter, maxQueued>>
  BY DEF Watchdog
<1>2. to[j] = "failed" /\ DOMAIN to = {j} /\ "failed" \in JobStatuses
  BY DEF JobStatuses, Terminal, Outcomes
<1> HIDE DEF to
<1>3. /\ job' \in [Job -> JobRecord]
      /\ chain' \in [Job -> [writes : Seq(JobWrite), failed : Nat]]
      /\ \A i \in Job : i \notin DOMAIN to => job'[i] = job[i] /\ chain'[i] = chain[i]
  <2>1. \A i \in Job : i \in DOMAIN to => to[i] \in JobStatuses
    BY <1>2
  <2> QED BY <1>1, <2>1, TransitionTypes
<1>4. /\ exec' \in [Job -> ExecRecord]
      /\ exec'[j].state = "running" /\ exec'[j].reported
      /\ \A i \in Job \ {j} : exec'[i] = exec[i]
  BY <1>1 DEF JobInv, JobTypes, JobRecord, ExecRecord
<1>5. JobTypes'
  BY <1>1, <1>3, <1>4 DEF JobInv, JobTypes, JobRecord, ExecRecord
<1>6. ExecutorSound'
  BY <1>1, <1>4, ExecutorSame
<1>7. JobSound(j)'
  <2>1. job[j].result = "none" /\ job[j] # NoJob
    BY <1>1 DEF JobInv, JobSound, Decided, Untouched, NotExecuting
  <2>2. jobDisk'[j].rev <= job[j].persisted
    BY <1>1, <2>1 DEF JobInv, JobSound, Revisions
  <2> QED BY <1>1, <1>2, <1>4, <2>1, <2>2, TransitionSound
<1>8. \A i \in Job \ {j} : JobSound(i)'
  BY <1>1, <1>2, <1>3, <1>4, Untroubled
<1> QED BY <1>5, <1>6, <1>7, <1>8 DEF JobInv

LEMMA CancelInv ==
  ASSUME JobInv, NEW j \in Job, CancelJob(j) PROVE JobInv'
<1>1. job[j].status \in Active /\ UNCHANGED <<running, lastResort, jobDisk, waiter, maxQueued>>
  BY DEF CancelJob
<1>2. job[j] # NoJob /\ job[j].result = "none"
  BY <1>1 DEF NoJob, Active, JobInv, JobSound, Decided, Terminal, Outcomes
<1>3. CASE exec[j].state = "running"
  <2>1. exec' = [exec EXCEPT ![j].aborted = TRUE] /\ UNCHANGED <<job, queue, chain>>
    BY <1>3 DEF CancelJob
  <2>2. /\ exec' \in [Job -> ExecRecord]
        /\ exec'[j].state = exec[j].state /\ exec'[j].reported = exec[j].reported
        /\ \A i \in Job \ {j} : exec'[i] = exec[i]
    BY <2>1 DEF JobInv, JobTypes, JobRecord, ExecRecord
  <2>3. JobTypes'
    BY <1>1, <2>1, <2>2 DEF JobInv, JobTypes, JobRecord, ExecRecord
  <2>4. ExecutorSound'
    BY <1>1, <2>1, <2>2, ExecutorSame
  <2>5. JobSound(j)'
    BY <1>1, <1>2, <2>1, <2>2 DEF JobInv, JobSound, Untouched, Decided, Revisions
  <2>6. \A i \in Job \ {j} : JobSound(i)'
    BY <1>1, <2>1, <2>2, Untroubled
  <2> QED BY <2>3, <2>4, <2>5, <2>6 DEF JobInv
<1>4. CASE exec[j].state # "running"
  <2> DEFINE to == [i \in {j} |-> "cancelled"]
  <2>1. /\ exec[j].state = "queued" /\ exec' = [exec EXCEPT ![j].state = "settled"] /\ Transition(to)
    BY <1>4 DEF CancelJob
  <2>2. PICK n \in 1..Len(queue) : queue[n] = j /\ queue' = RemoveAt(queue, n)
    BY <1>4 DEF CancelJob
  <2>3. to[j] = "cancelled" /\ DOMAIN to = {j} /\ "cancelled" \in JobStatuses
    BY DEF JobStatuses, Terminal, Outcomes
  <2> HIDE DEF to
  <2>4. /\ job' \in [Job -> JobRecord]
        /\ chain' \in [Job -> [writes : Seq(JobWrite), failed : Nat]]
        /\ \A i \in Job : i \notin DOMAIN to => job'[i] = job[i] /\ chain'[i] = chain[i]
    <3>1. \A i \in Job : i \in DOMAIN to => to[i] \in JobStatuses
      BY <2>3
    <3> QED BY <2>1, <3>1, TransitionTypes
  <2>5. /\ exec' \in [Job -> ExecRecord]
        /\ exec'[j].state = "settled" /\ \A i \in Job \ {j} : exec'[i] = exec[i]
    BY <2>1 DEF JobInv, JobTypes, JobRecord, ExecRecord
  <2>6. /\ queue' \in Seq(Job) /\ Len(queue') = Len(queue) - 1 /\ Len(queue) \in Nat
        /\ \A i \in 1..(Len(queue) - 1) : queue'[i] = IF i < n THEN queue[i] ELSE queue[i + 1]
    <3>1. queue \in Seq(Job) /\ Len(queue) \in Nat
      BY LenProperties DEF JobInv, JobTypes
    <3> QED BY <2>2, <3>1, RemoveAtFacts
  <2>7. JobTypes'
    BY <1>1, <2>4, <2>5, <2>6 DEF JobInv, JobTypes, JobRecord, ExecRecord
  <2>8. ExecutorSound'
    <3>1. InSlots' = InSlots
      BY <2>1, <2>5 DEF InSlots
    <3> DEFINE old(i) == IF i < n THEN i ELSE i + 1
    <3>2. \A i \in 1..Len(queue') : old(i) \in 1..Len(queue) /\ old(i) # n /\ queue'[i] = queue[old(i)]
      BY <2>6
    <3>3. \A i, k \in 1..Len(queue') : old(i) = old(k) => i = k
      BY <2>6
    <3> HIDE DEF old
    <3>4. \A i \in 1..Len(queue') : queue'[i] # j /\ queue'[i] \in Job
      <4>1. \A i \in 1..Len(queue) : queue[i] \in Job /\ (i # n => queue[i] # j)
        BY <2>2, ElementOfSeq DEF JobInv, JobTypes, ExecutorSound
      <4> QED BY <3>2, <4>1
    <3>5. \A i \in 1..Len(queue') : exec'[queue'[i]].state = "queued"
      BY <2>5, <3>2, <3>4 DEF JobInv, ExecutorSound
    <3>6. \A i, k \in 1..Len(queue') : queue'[i] = queue'[k] => i = k
      BY <3>2, <3>3 DEF JobInv, ExecutorSound
    <3>7. Len(queue') <= maxQueued'
      BY <1>1, <2>6 DEF JobInv, JobTypes, JobRecord, ExecRecord, ExecutorSound
    <3> QED BY <1>1, <3>1, <3>5, <3>6, <3>7 DEF JobInv, ExecutorSound
  <2>9. JobSound(j)'
    <3>1. jobDisk'[j].rev <= job[j].persisted
      BY <1>1, <1>2 DEF JobInv, JobSound, Revisions
    <3> QED BY <1>1, <1>2, <2>1, <2>3, <2>5, <3>1, TransitionSound
  <2>10. \A i \in Job \ {j} : JobSound(i)'
    BY <1>1, <2>3, <2>4, <2>5, Untroubled
  <2> QED BY <2>7, <2>8, <2>9, <2>10 DEF JobInv
<1> QED BY <1>3, <1>4

\* What the first write of a chain is, and what is left without it.
LEMMA FirstWrite ==
  ASSUME JobInv, NEW j \in Job, chain[j].writes # <<>>
  PROVE  /\ Head(chain[j].writes) \in JobWrite /\ Tail(chain[j].writes) \in Seq(JobWrite)
         /\ Head(chain[j].writes).rev <= job[j].rev
         /\ Head(chain[j].writes).status \in Outcomes =>
              job[j].persisted <= Head(chain[j].writes).rev /\ job[j].result # "none"
         /\ \A i \in 1..Len(Tail(chain[j].writes)) :
              /\ i + 1 \in 1..Len(chain[j].writes)
              /\ Tail(chain[j].writes)[i] = chain[j].writes[i + 1]
              /\ Head(chain[j].writes).rev < Tail(chain[j].writes)[i].rev
         /\ job[j] # NoJob
<1>1. /\ Len(chain[j].writes) \in Nat \ {0} /\ Head(chain[j].writes) = chain[j].writes[1]
      /\ Head(chain[j].writes) \in JobWrite /\ Tail(chain[j].writes) \in Seq(JobWrite)
      /\ Len(Tail(chain[j].writes)) = Len(chain[j].writes) - 1
      /\ \A i \in 1..Len(Tail(chain[j].writes)) : Tail(chain[j].writes)[i] = chain[j].writes[i + 1]
  BY TailFacts DEF JobInv, JobTypes, JobRecord, ExecRecord
<1>2. 1 \in 1..Len(chain[j].writes) /\
      \A i \in 1..Len(Tail(chain[j].writes)) : i + 1 \in 1..Len(chain[j].writes) /\ 1 < i + 1
  BY <1>1
<1>3. job[j] # NoJob
  BY DEF JobInv, JobSound, Untouched, NoChain
<1> QED BY <1>1, <1>2, <1>3 DEF JobInv, JobSound, Revisions

LEMMA WriteInv ==
  ASSUME JobInv, NEW j \in Job, WriteSnapshot(j) PROVE JobInv'
<1> DEFINE write == Head(chain[j].writes)  rest == Tail(chain[j].writes)
<1>1. /\ chain[j].writes # <<>> /\ UNCHANGED <<exec, queue, running, lastResort, maxQueued>>
      /\ jobDisk' = IF Current(j, write) THEN [jobDisk EXCEPT ![j] = write] ELSE jobDisk
      /\ job' = IF Current(j, write) THEN [job EXCEPT ![j].persisted = write.rev] ELSE job
      /\ chain' = [chain EXCEPT ![j] = [writes |-> rest, failed |-> 0]]
      /\ waiter' = Told(j, write, TRUE)
  BY DEF WriteSnapshot
<1>2. /\ write \in JobWrite /\ rest \in Seq(JobWrite) /\ write.rev <= job[j].rev
      /\ \A i \in 1..Len(rest) : /\ i + 1 \in 1..Len(chain[j].writes) /\ rest[i] = chain[j].writes[i + 1]
                                  /\ write.rev < rest[i].rev
      /\ job[j] # NoJob
  BY <1>1, FirstWrite
<1> HIDE DEF write, rest
<1>3. write.rev \in Nat
  BY <1>2 DEF JobWrite
<1>4. /\ job' \in [Job -> JobRecord]
      /\ job'[j].status = job[j].status /\ job'[j].rev = job[j].rev /\ job'[j].result = job[j].result
      /\ job'[j].persisted = IF Current(j, write) THEN write.rev ELSE job[j].persisted
      /\ \A i \in Job \ {j} : job'[i] = job[i]
  <2>1. CASE Current(j, write)
    <3> DEFINE r == [job[j] EXCEPT !.persisted = write.rev]
    <3>1. job \in [Job -> JobRecord] /\ job[j] \in JobRecord
      BY DEF JobInv, JobTypes
    <3>2. /\ r \in JobRecord /\ r.persisted = write.rev
          /\ r.status = job[j].status /\ r.rev = job[j].rev /\ r.result = job[j].result
      BY <1>3, <3>1 DEF JobRecord
    <3>3. job' = [job EXCEPT ![j] = r]
      BY <1>1, <2>1
    <3> HIDE DEF r
    <3>4. job' \in [Job -> JobRecord] /\ job'[j] = r /\ \A i \in Job \ {j} : job'[i] = job[i]
      BY <3>1, <3>2, <3>3
    <3> QED BY <2>1, <3>2, <3>4
  <2>2. CASE ~Current(j, write)
    BY <1>1, <2>2 DEF JobInv, JobTypes, JobRecord, ExecRecord
  <2> QED BY <2>1, <2>2
<1>5. /\ jobDisk' \in [Job -> JobWrite \cup {NoWrite}] /\ \A i \in Job \ {j} : jobDisk'[i] = jobDisk[i]
      /\ jobDisk'[j] = IF Current(j, write) THEN write ELSE jobDisk[j]
  BY <1>1, <1>2 DEF JobInv, JobTypes, JobRecord, ExecRecord
<1>6. /\ chain' \in [Job -> [writes : Seq(JobWrite), failed : Nat]]
      /\ chain'[j].writes = rest /\ \A i \in Job \ {j} : chain'[i] = chain[i]
  BY <1>1, <1>2 DEF JobInv, JobTypes, JobRecord, ExecRecord
<1>7. /\ waiter' \in [Job -> {"none", "waiting", "resolved", "rejected"}]
      /\ \A i \in Job \ {j} : waiter'[i] = waiter[i]
  BY <1>1 DEF Told, JobInv, JobTypes, JobRecord, ExecRecord
<1>8. JobTypes'
  BY <1>1, <1>4, <1>5, <1>6, <1>7 DEF JobInv, JobTypes, JobRecord, ExecRecord
<1>9. ExecutorSound'
  BY <1>1, ExecutorSame
<1>10. job[j].rev \in Nat /\ job[j].persisted \in Nat /\ JobSound(j) /\ lastResort[j].rev \in Nat
       /\ jobDisk[j].rev \in Nat
  BY DEF JobInv, JobTypes, JobRecord, JobWrite, NoWrite
<1>11. job[j].status # "none" /\ job'[j] # NoJob
  BY <1>2, <1>4, <1>10 DEF JobSound, Untouched, NoJob
<1>12. Untouched(j)' /\ Decided(j)'
  BY <1>1, <1>4, <1>10, <1>11 DEF JobSound, Untouched, Decided
<1>13. Revisions(j)'
  <2>1. \A i \in 1..Len(rest) :
          /\ rest[i].rev <= job[j].rev /\ write.rev < rest[i].rev
          /\ rest[i].status \in Outcomes =>
               job[j].persisted <= rest[i].rev /\ job[j].result # "none"
    BY <1>2, <1>10 DEF JobSound, Revisions
  <2>2. \A i, k \in 1..Len(rest) : i < k => rest[i].rev < rest[k].rev
    <3>1. \A i, k \in 1..Len(rest) : i < k => i + 1 < k + 1
      OBVIOUS
    <3> QED BY <1>2, <1>10, <3>1 DEF JobSound, Revisions
  <2>3. \A i \in 1..Len(rest) : rest[i].rev \in Nat
    <3>1. \A i \in 1..Len(rest) : rest[i] \in JobWrite
      BY <1>2, ElementOfSeq
    <3> QED BY <3>1 DEF JobWrite
  <2>4. Current(j, write) <=> job[j].persisted <= write.rev
    BY <1>3, <1>10 DEF Current
  <2>5. /\ job[j].persisted <= job[j].rev /\ jobDisk[j].rev <= job[j].persisted
        /\ lastResort[j].rev <= job[j].persisted
    BY <1>2, <1>10 DEF JobSound, Revisions
  <2>6. /\ job'[j].persisted <= job'[j].rev /\ jobDisk'[j].rev <= job'[j].persisted
        /\ lastResort'[j].rev <= job'[j].persisted
    BY <1>1, <1>2, <1>3, <1>4, <1>5, <1>10, <2>4, <2>5
  <2>7. \A i \in 1..Len(rest) : rest[i].rev <= job'[j].rev /\
          (rest[i].status \in Outcomes => job'[j].persisted <= rest[i].rev /\ job'[j].result # "none")
    <3> SUFFICES ASSUME NEW i \in 1..Len(rest)
                 PROVE  /\ rest[i].rev <= job'[j].rev
                        /\ rest[i].status \in Outcomes =>
                             job'[j].persisted <= rest[i].rev /\ job'[j].result # "none"
      OBVIOUS
    <3>1. /\ rest[i].rev <= job[j].rev /\ write.rev < rest[i].rev /\ rest[i].rev \in Nat
          /\ rest[i].status \in Outcomes => job[j].persisted <= rest[i].rev /\ job[j].result # "none"
      BY <2>1, <2>3
    <3>2. job'[j].persisted \in {write.rev, job[j].persisted}
      BY <1>4
    <3> QED BY <1>3, <1>4, <1>10, <3>1, <3>2
  <2> QED BY <1>6, <2>2, <2>6, <2>7 DEF Revisions
<1>14. \A i \in Job \ {j} : JobSound(i)'
  BY <1>1, <1>4, <1>5, <1>6, <1>7, Untroubled
<1> QED BY <1>8, <1>9, <1>12, <1>13, <1>14 DEF JobInv, JobSound

LEMMA WriteFailsInv ==
  ASSUME JobInv, NEW j \in Job, WriteFails(j) PROVE JobInv'
<1> DEFINE write == Head(chain[j].writes)  rest == Tail(chain[j].writes)
           spent == chain[j].failed + 1 = Retries
           open == job[j].status \notin Terminal
           last == [status |-> "failed", rev |-> job[j].rev + 1]
<1>1. /\ chain[j].writes # <<>> /\ UNCHANGED <<exec, queue, running, jobDisk, maxQueued>>
      /\ chain' = [chain EXCEPT ![j] = [writes |-> IF spent THEN rest ELSE chain[j].writes,
                                        failed |-> IF spent THEN 0 ELSE chain[j].failed + 1]]
      /\ IF spent /\ open
         THEN /\ job' = [job EXCEPT ![j] = [status |-> "failed", rev |-> job[j].rev + 1,
                                           persisted |-> job[j].rev + 1, result |-> job[j].result]]
              /\ lastResort' = [lastResort EXCEPT ![j] = last]
              /\ waiter' = [waiter EXCEPT ![j] = IF @ = "waiting" THEN "rejected" ELSE @]
         ELSE /\ UNCHANGED <<job, lastResort>>
              /\ waiter' = IF spent THEN Told(j, write, FALSE) ELSE waiter
  BY DEF WriteFails
<1>2. /\ rest \in Seq(JobWrite) /\ job[j] # NoJob
      /\ \A i \in 1..Len(rest) : i + 1 \in 1..Len(chain[j].writes) /\ rest[i] = chain[j].writes[i + 1]
  BY <1>1, FirstWrite
<1>3. /\ job[j].rev \in Nat /\ job[j].persisted \in Nat /\ JobSound(j) /\ lastResort[j].rev \in Nat
      /\ chain[j].failed \in Nat /\ chain[j].writes \in Seq(JobWrite) /\ jobDisk[j].rev \in Nat
      /\ Len(rest) \in Nat
  <2>1. Len(rest) \in Nat
    BY <1>2, LenProperties
  <2>2. /\ job[j] \in JobRecord /\ JobSound(j)
        /\ lastResort[j] \in JobWrite \cup {NoWrite} /\ jobDisk[j] \in JobWrite \cup {NoWrite}
    BY DEF JobInv, JobTypes
  <2>3. chain[j].failed \in Nat /\ chain[j].writes \in Seq(JobWrite)
    BY DEF JobInv, JobTypes
  <2> QED BY <2>1, <2>2, <2>3 DEF JobRecord, JobWrite, NoWrite
<1> HIDE DEF write, rest, spent, open
<1>4. /\ chain' \in [Job -> [writes : Seq(JobWrite), failed : Nat]]
      /\ chain'[j].writes = IF spent THEN rest ELSE chain[j].writes
      /\ \A i \in Job \ {j} : chain'[i] = chain[i]
  <2>1. CASE spent
    BY <1>1, <1>2, <2>1 DEF JobInv, JobTypes, JobRecord, ExecRecord
  <2>2. CASE ~spent
    BY <1>1, <1>3, <2>2 DEF JobInv, JobTypes
  <2> QED BY <2>1, <2>2
<1>5. /\ \A i \in 1..Len(chain'[j].writes) :
           \E k \in 1..Len(chain[j].writes) : chain'[j].writes[i] = chain[j].writes[k]
      /\ \A i, k \in 1..Len(chain'[j].writes) : i < k => chain'[j].writes[i].rev < chain'[j].writes[k].rev
  <2>1. CASE spent
    <3>1. \A i, k \in 1..Len(rest) : i < k => i + 1 < k + 1
      OBVIOUS
    <3>2. \A i, k \in 1..Len(rest) : i < k => rest[i].rev < rest[k].rev
      BY <1>2, <1>3, <3>1 DEF JobSound, Revisions
    <3> QED BY <1>2, <1>4, <2>1, <3>2
  <2>2. CASE ~spent
    BY <1>3, <1>4, <2>2 DEF JobSound, Revisions
  <2> QED BY <2>1, <2>2
<1>6. /\ waiter' \in [Job -> {"none", "waiting", "resolved", "rejected"}]
      /\ \A i \in Job \ {j} : waiter'[i] = waiter[i]
  <2>1. CASE spent /\ open
    BY <1>1, <2>1 DEF JobInv, JobTypes, JobRecord, ExecRecord
  <2>2. CASE ~(spent /\ open)
    BY <1>1, <2>2 DEF Told, JobInv, JobTypes, JobRecord, ExecRecord
  <2> QED BY <2>1, <2>2
<1>7. ExecutorSound'
  BY <1>1, ExecutorSame
<1>8. CASE spent /\ open
  <2>1. /\ job' = [job EXCEPT ![j] = [status |-> "failed", rev |-> job[j].rev + 1,
                                     persisted |-> job[j].rev + 1, result |-> job[j].result]]
        /\ lastResort' = [lastResort EXCEPT ![j] = last]
    BY <1>1, <1>8
  <2>2. last \in JobWrite /\ last.rev = job[j].rev + 1
    BY <1>3 DEF JobWrite, JobStatuses, Terminal, Outcomes
  <2>3. /\ lastResort' \in [Job -> JobWrite \cup {NoWrite}] /\ lastResort'[j].rev = job[j].rev + 1
        /\ \A i \in Job \ {j} : lastResort'[i] = lastResort[i]
    BY <2>1, <2>2 DEF JobInv, JobTypes, JobRecord, ExecRecord
  <2>4. /\ job' \in [Job -> JobRecord]
        /\ job'[j].status = "failed" /\ job'[j].rev = job[j].rev + 1
        /\ job'[j].persisted = job[j].rev + 1 /\ job'[j].result = job[j].result
        /\ \A i \in Job \ {j} : job'[i] = job[i]
    BY <1>3, <2>1 DEF JobInv, JobTypes, JobRecord, ExecRecord, JobStatuses, Terminal, Outcomes
  <2>5. JobTypes'
    BY <1>1, <1>4, <1>6, <2>3, <2>4 DEF JobInv, JobTypes, JobRecord, ExecRecord
  <2>6. job[j].result = "none"
    BY <1>3, <1>8 DEF JobSound, Decided, open
  <2>7. job'[j] # NoJob /\ job'[j].status # "none"
    BY <2>4 DEF NoJob
  <2>8. Untouched(j)' /\ Decided(j)'
    BY <1>1, <2>4, <2>6, <2>7 DEF Untouched, Decided, Terminal, Outcomes
  <2>9. \A i \in 1..Len(chain[j].writes) : /\ chain[j].writes[i].rev <= job[j].rev
                                            /\ chain[j].writes[i].status \notin Outcomes
                                            /\ chain[j].writes[i].rev \in Nat
    <3>1. \A i \in 1..Len(chain[j].writes) : chain[j].writes[i] \in JobWrite
      BY <1>3, ElementOfSeq
    <3> QED BY <1>3, <2>6, <3>1 DEF JobSound, Revisions, JobWrite
  <2>10. Revisions(j)'
    <3>1. jobDisk[j].rev <= job[j].persisted /\ job[j].persisted <= job[j].rev
      BY <1>2, <1>3 DEF JobSound, Revisions
    <3>2. /\ job'[j].persisted <= job'[j].rev /\ jobDisk'[j].rev <= job'[j].persisted
          /\ lastResort'[j].rev <= job'[j].persisted
      BY <1>1, <1>3, <2>3, <2>4, <3>1
    <3>3. \A i \in 1..Len(chain'[j].writes) : /\ chain'[j].writes[i].rev <= job'[j].rev
                                               /\ chain'[j].writes[i].status \notin Outcomes
      <4>1. \A i \in 1..Len(chain[j].writes) : chain[j].writes[i].rev <= job'[j].rev
        BY <1>3, <2>4, <2>9
      <4> QED BY <1>5, <2>9, <4>1
    <3> QED BY <1>5, <3>2, <3>3 DEF Revisions
  <2>11. \A i \in Job \ {j} : JobSound(i)'
    <3> SUFFICES ASSUME NEW i \in Job \ {j} PROVE JobSound(i)'
      OBVIOUS
    <3> QED BY <1>1, <1>4, <1>6, <2>3, <2>4, Untroubled
  <2> QED BY <1>7, <2>5, <2>8, <2>10, <2>11 DEF JobInv, JobSound
<1>9. CASE ~(spent /\ open)
  <2>1. UNCHANGED <<job, lastResort>>
    BY <1>1, <1>9
  <2>2. JobTypes'
    BY <1>1, <1>4, <1>6, <2>1 DEF JobInv, JobTypes, JobRecord, ExecRecord
  <2>3. Untouched(j)' /\ Decided(j)'
    BY <1>1, <1>2, <1>3, <2>1 DEF JobSound, Untouched, Decided
  <2>4. Revisions(j)'
    BY <1>1, <1>3, <1>5, <2>1 DEF JobSound, Revisions
  <2>5. \A i \in Job \ {j} : JobSound(i)'
    BY <1>1, <1>4, <1>6, <2>1, Untroubled
  <2> QED BY <1>7, <2>2, <2>3, <2>4, <2>5 DEF JobInv, JobSound
<1> QED BY <1>8, <1>9

LEMMA CallerInv ==
  ASSUME JobInv, NEW j \in Job, LastResortWrite(j) \/ AwaitJob(j) \/ Recover(j) PROVE JobInv'
<1>1. CASE LastResortWrite(j)
  <2>1. /\ lastResort' = [lastResort EXCEPT ![j] = NoWrite]
        /\ jobDisk' \in {[jobDisk EXCEPT ![j] = lastResort[j]], jobDisk}
        /\ lastResort[j] # NoWrite
        /\ UNCHANGED <<job, exec, queue, running, chain, waiter, maxQueued>>
    BY <1>1 DEF LastResortWrite
  <2>2. NoWrite.rev = 0
    BY DEF NoWrite
  <2>3. /\ lastResort' \in [Job -> JobWrite \cup {NoWrite}] /\ lastResort'[j].rev = 0
        /\ \A i \in Job \ {j} : lastResort'[i] = lastResort[i]
    BY <2>1, <2>2 DEF JobInv, JobTypes, JobRecord, ExecRecord
  <2>4. /\ jobDisk' \in [Job -> JobWrite \cup {NoWrite}] /\ jobDisk'[j] \in {jobDisk[j], lastResort[j]}
        /\ \A i \in Job \ {j} : jobDisk'[i] = jobDisk[i]
    BY <2>1 DEF JobInv, JobTypes, JobRecord, ExecRecord
  <2>5. JobTypes'
    BY <2>1, <2>3, <2>4 DEF JobInv, JobTypes, JobRecord, ExecRecord
  <2>6. JobSound(j) /\ job[j].persisted \in Nat /\ job[j] # NoJob
    BY <2>1 DEF JobInv, JobTypes, JobRecord, ExecRecord, JobSound, Untouched
  <2>7. JobSound(j)'
    BY <2>1, <2>3, <2>4, <2>6 DEF JobSound, Untouched, Decided, Revisions
  <2>8. \A i \in Job \ {j} : JobSound(i)'
    BY <2>1, <2>3, <2>4, Untroubled
  <2>9. ExecutorSound'
    BY <2>1, ExecutorSame
  <2> QED BY <2>5, <2>7, <2>8, <2>9 DEF JobInv
<1>2. CASE AwaitJob(j)
  <2>1. /\ job[j].status # "none" /\ UNCHANGED <<job, exec, queue, running, chain, lastResort, jobDisk, maxQueued>>
        /\ \E v \in {"resolved", "rejected", "waiting"} : waiter' = [waiter EXCEPT ![j] = v]
    BY <1>2 DEF AwaitJob
  <2>2. /\ waiter' \in [Job -> {"none", "waiting", "resolved", "rejected"}]
        /\ \A i \in Job \ {j} : waiter'[i] = waiter[i]
    BY <2>1 DEF JobInv, JobTypes, JobRecord, ExecRecord
  <2>3. job[j] # NoJob
    BY <2>1 DEF NoJob
  <2>4. \A i \in Job : JobSound(i)'
    BY <2>1, <2>2, <2>3, Untroubled
  <2>5. JobTypes' /\ ExecutorSound'
    BY <2>1, <2>2, ExecutorSame DEF JobInv, JobTypes, JobRecord, ExecRecord
  <2> QED BY <2>4, <2>5 DEF JobInv
<1>3. CASE Recover(j)
  <2> DEFINE n == Normalised(j)
  <2>1. /\ job[j] = NoJob /\ jobDisk[j] # NoWrite
        /\ job' = [job EXCEPT ![j] = [status |-> n.status, rev |-> n.rev, persisted |-> n.rev, result |-> "none"]]
        /\ jobDisk' \in {jobDisk, [jobDisk EXCEPT ![j] = n]}
        /\ UNCHANGED <<exec, queue, running, chain, lastResort, waiter, maxQueued>>
    BY <1>3 DEF Recover
  <2>2. n \in JobWrite /\ jobDisk[j].rev <= n.rev /\ n.rev \in Nat /\ n.status \in JobStatuses
    <3>1. jobDisk[j] \in JobWrite /\ jobDisk[j].rev \in Nat
      BY <2>1 DEF JobInv, JobTypes, JobRecord, ExecRecord, JobWrite
    <3>2. CASE jobDisk[j].status \in Active
      <4>1. n = [status |-> "failed", rev |-> jobDisk[j].rev + 1]
        BY <3>2 DEF Normalised
      <4> QED BY <3>1, <4>1 DEF JobWrite, JobStatuses, Terminal, Outcomes
    <3>3. CASE jobDisk[j].status \notin Active
      <4>1. n = jobDisk[j]
        BY <3>3 DEF Normalised
      <4> QED BY <3>1, <4>1 DEF JobWrite
    <3> QED BY <3>2, <3>3
  <2> HIDE DEF n
  <2>3. /\ job' \in [Job -> JobRecord]
        /\ job'[j].status = n.status /\ job'[j].rev = n.rev
        /\ job'[j].persisted = n.rev /\ job'[j].result = "none"
        /\ \A i \in Job \ {j} : job'[i] = job[i]
    BY <2>1, <2>2 DEF JobInv, JobTypes, JobRecord
  <2>4. /\ jobDisk' \in [Job -> JobWrite \cup {NoWrite}] /\ jobDisk'[j].rev <= n.rev
        /\ \A i \in Job \ {j} : jobDisk'[i] = jobDisk[i]
    <3>1. jobDisk \in [Job -> JobWrite \cup {NoWrite}]
      BY DEF JobInv, JobTypes
    <3>2. CASE jobDisk' = jobDisk
      BY <2>2, <3>1, <3>2
    <3>3. CASE jobDisk' = [jobDisk EXCEPT ![j] = n]
      BY <2>2, <3>1, <3>3
    <3> QED BY <2>1, <3>2, <3>3
  <2>5. JobTypes'
    BY <2>1, <2>3, <2>4 DEF JobInv, JobTypes, JobRecord, ExecRecord
  <2>6. exec[j] = NotExecuting /\ chain[j] = NoChain /\ lastResort[j] = NoWrite /\ waiter[j] = "none"
    BY <2>1 DEF JobInv, JobSound, Untouched
  <2>7. n.status # "none"
    BY <2>2 DEF JobStatuses, Active, Terminal, Outcomes
  <2>8. Untouched(j)' /\ Decided(j)'
    BY <2>1, <2>3, <2>6, <2>7 DEF Untouched, Decided
  <2>9. Revisions(j)'
    <3>1. NoWrite.rev = 0 /\ NoChain.writes = <<>> /\ Len(<<>>) = 0
      BY EmptySeq DEF NoWrite, NoChain
    <3> QED BY <2>1, <2>2, <2>3, <2>4, <2>6, <3>1 DEF Revisions
  <2>10. \A i \in Job \ {j} : JobSound(i)'
    BY <2>1, <2>3, <2>4, Untroubled
  <2>11. ExecutorSound'
    BY <2>1, ExecutorSame
  <2> QED BY <2>5, <2>8, <2>9, <2>10, <2>11 DEF JobInv, JobSound
<1> QED BY <1>1, <1>2, <1>3

LEMMA RestartInv ==
  ASSUME JobInv, ProcessRestarts PROVE JobInv'
<1>1. /\ \A j \in Job : /\ job'[j] = NoJob /\ exec'[j] = NotExecuting /\ chain'[j] = NoChain
                         /\ lastResort'[j] = NoWrite /\ waiter'[j] = "none"
      /\ queue' = <<>> /\ running' = 0 /\ UNCHANGED <<jobDisk, maxQueued>>
  BY DEF ProcessRestarts
<1>2. /\ <<>> \in Seq(Job) /\ <<>> \in Seq(JobWrite) /\ Len(<<>>) = 0
      /\ NoChain.writes = <<>> /\ NoWrite.rev = 0
      /\ NoChain \in [writes : Seq(JobWrite), failed : Nat]
      /\ NoJob \in JobRecord
      /\ NotExecuting \in ExecRecord
  BY EmptySeq DEF NoChain, NoWrite, JobRecord, ExecRecord, NoJob, NotExecuting
<1>3. JobTypes'
  BY <1>2 DEF ProcessRestarts, JobInv, JobTypes, JobRecord, ExecRecord
<1>4. InSlots' = {}
  BY <1>1 DEF InSlots, NotExecuting
<1>5. ExecutorSound'
  BY <1>1, <1>2, <1>4, FS_EmptySet, JobAssumption DEF ExecutorSound, JobInv, JobTypes, JobRecord, ExecRecord, JobAssumption
<1>6. \A j \in Job : JobSound(j)'
  BY <1>1, <1>2 DEF JobSound, Untouched, Decided, Revisions, NoJob
<1> QED BY <1>3, <1>5, <1>6 DEF JobInv

LEMMA JobStepInv == JobInv /\ [JobNext]_jobVars => JobInv'
<1> SUFFICES ASSUME JobInv, [JobNext]_jobVars PROVE JobInv'
  OBVIOUS
<1>1. CASE UNCHANGED jobVars
  BY <1>1 DEF jobVars, JobInv, JobTypes, ExecutorSound, InSlots, JobSound, Untouched, Decided, Revisions
<1>2. CASE JobNext
  BY <1>2, SubmitInv, SubmitFailsInv, SettleInv, WatchdogInv, CancelInv, WriteInv, WriteFailsInv, CallerInv, RestartInv
     DEF JobNext
<1> QED BY <1>1, <1>2

\* What has an outcome keeps it.
LEMMA OutcomeStands ==
  ASSUME JobInv, [JobNext]_jobVars, NEW j \in Job, job[j].result # "none", job'[j] # NoJob
  PROVE  job'[j].result = job[j].result
<1>1. JobSound(j) /\ job[j] \in JobRecord /\ job[j] # NoJob
  BY DEF JobInv, JobTypes, NoJob
<1>2. /\ job[j].status \in Terminal /\ exec[j].state # "queued"
      /\ exec[j].state = "running" => exec[j].reported
  BY <1>1 DEF JobSound, Decided
<1>3. ASSUME NEW to, Transition(to), j \notin DOMAIN to
      PROVE  job'[j].result = job[j].result
  BY <1>3 DEF Transition
<1>4. ASSUME NEW i \in Job, SubmitJob(i) \/ Watchdog(i) \/ CancelJob(i)
      PROVE  job'[j].result = job[j].result
  <2>1. UNCHANGED job \/ (i # j /\ \E st \in {"running", "queued", "failed", "cancelled"} :
                                     Transition([k \in {i} |-> st]))
    BY <1>2, <1>4 DEF SubmitJob, Watchdog, CancelJob, Terminal, Outcomes, Active
  <2>2. CASE UNCHANGED job
    BY <2>2
  <2>3. ASSUME NEW st \in {"running", "queued", "failed", "cancelled"}, i # j, Transition([k \in {i} |-> st])
        PROVE  job'[j].result = job[j].result
    <3>1. j \notin DOMAIN [k \in {i} |-> st]
      BY <2>3
    <3> QED BY <1>3, <2>3, <3>1
  <2> QED BY <2>1, <2>2, <2>3
<1>5. ASSUME NEW i \in Job, NEW how \in {"completed", "failed"}, HandlerSettles(i, how)
      PROVE  job'[j].result = job[j].result
  <2> DEFINE ending == IF exec[i].aborted THEN "cancelled" ELSE how
             told == IF Reports(i) THEN {i} ELSE {}
             next == IF queue # <<>> /\ SlotFree THEN {Head(queue)} ELSE {}
             to == [k \in told \cup next |-> IF k \in next THEN "running" ELSE ending]
  <2>1. exec[i].state = "running" /\ Transition(to)
    BY <1>5 DEF HandlerSettles
  <2>2. j \notin told
    BY <1>2, <2>1 DEF Reports
  <2>3. j \notin next
    <3>1. CASE queue # <<>>
      <4>1. Len(queue) \in Nat \ {0} /\ Head(queue) = queue[1]
        BY <3>1, TailFacts DEF JobInv, JobTypes
      <4> QED BY <1>2, <4>1 DEF JobInv, ExecutorSound
    <3> QED BY <3>1
  <2>4. j \notin DOMAIN to
    BY <2>2, <2>3
  <2> QED BY <1>3, <2>1, <2>4
<1>6. ASSUME NEW i \in Job, \/ WriteSnapshot(i) \/ WriteFails(i) \/ LastResortWrite(i)
                             \/ AwaitJob(i) \/ Recover(i) \/ SubmitFails(i)
      PROVE  job'[j].result = job[j].result
  <2>1. job \in [Job -> JobRecord]
    BY DEF JobInv, JobTypes
  <2>2. CASE WriteSnapshot(i)
    <3>1. job' = job \/ job' = [job EXCEPT ![i].persisted = Head(chain[i].writes).rev]
      BY <2>2 DEF WriteSnapshot
    <3> QED BY <2>1, <3>1 DEF JobRecord
  <2>3. CASE WriteFails(i)
    <3>1. job' = job \/ job' = [job EXCEPT ![i] = [status |-> "failed", rev |-> job[i].rev + 1,
                                                  persisted |-> job[i].rev + 1, result |-> job[i].result]]
      BY <2>3 DEF WriteFails
    <3> QED BY <2>1, <3>1
  <2>4. CASE LastResortWrite(i) \/ AwaitJob(i)
    BY <2>4 DEF LastResortWrite, AwaitJob
  <2>5. CASE Recover(i)
    BY <1>1, <2>5 DEF Recover
  <2>6. CASE SubmitFails(i)
    BY <2>1, <2>6 DEF SubmitFails, JobRecord
  <2> QED BY <1>6, <2>2, <2>3, <2>4, <2>5, <2>6
<1>7. ~ProcessRestarts
  BY DEF ProcessRestarts
<1>8. CASE UNCHANGED jobVars
  BY <1>8 DEF jobVars
<1> QED BY <1>4, <1>5, <1>6, <1>7, <1>8 DEF JobNext

\* The record on disk goes back only by the write outside the chain.
LEMMA DiskAdvances ==
  ASSUME JobInv, [JobNext]_jobVars, NEW j \in Job, jobDisk'[j].rev < jobDisk[j].rev
  PROVE  lastResort[j] # NoWrite
<1> SUFFICES ASSUME lastResort[j] = NoWrite PROVE ~(jobDisk'[j].rev < jobDisk[j].rev)
  OBVIOUS
<1>1. /\ JobSound(j) /\ job[j] \in JobRecord /\ jobDisk[j].rev \in Nat
      /\ jobDisk \in [Job -> JobWrite \cup {NoWrite}]
  BY DEF JobInv, JobTypes, JobWrite, NoWrite
<1>2. CASE jobDisk'[j] = jobDisk[j]
  BY <1>1, <1>2
<1>3. CASE SubmitJob(j)
  <2>1. jobDisk'[j].rev = 0 /\ jobDisk[j].rev = 0
    BY <1>1, <1>3 DEF SubmitJob, NoWrite
  <2> QED BY <2>1
<1>4. CASE WriteSnapshot(j)
  <2> DEFINE write == Head(chain[j].writes)
  <2>1. write \in JobWrite /\ job[j] # NoJob
    BY <1>4, FirstWrite DEF WriteSnapshot
  <2>2. jobDisk' = IF Current(j, write) THEN [jobDisk EXCEPT ![j] = write] ELSE jobDisk
    BY <1>4 DEF WriteSnapshot
  <2> HIDE DEF write
  <2>3. jobDisk'[j] = jobDisk[j] \/ (jobDisk'[j] = write /\ write.rev >= job[j].persisted)
    BY <1>1, <2>2 DEF Current
  <2>4. jobDisk[j].rev <= job[j].persisted /\ job[j].persisted \in Nat /\ write.rev \in Nat
    BY <1>1, <2>1 DEF JobSound, Revisions, JobRecord, JobWrite
  <2> QED BY <1>1, <2>3, <2>4
<1>5. CASE Recover(j)
  <2>1. jobDisk'[j] \in {jobDisk[j], Normalised(j)}
    BY <1>1, <1>5 DEF Recover
  <2>2. Normalised(j).rev \in {jobDisk[j].rev, jobDisk[j].rev + 1}
    BY DEF Normalised
  <2> QED BY <1>1, <2>1, <2>2
<1>6. ASSUME NEW i \in Job, i # j, SubmitJob(i) \/ WriteSnapshot(i) \/ Recover(i) \/ LastResortWrite(i)
      PROVE  jobDisk'[j] = jobDisk[j]
  BY <1>1, <1>6 DEF SubmitJob, WriteSnapshot, Recover, LastResortWrite
<1>7. ASSUME NEW i \in Job, SubmitFails(i) \/ Watchdog(i) \/ CancelJob(i) \/ WriteFails(i) \/ AwaitJob(i)
             \/ \E how \in {"completed", "failed"} : HandlerSettles(i, how)
      PROVE  jobDisk'[j] = jobDisk[j]
  BY <1>7 DEF SubmitFails, Watchdog, CancelJob, WriteFails, AwaitJob, HandlerSettles
<1>8. CASE ProcessRestarts \/ UNCHANGED jobVars
  BY <1>1, <1>8 DEF ProcessRestarts, jobVars
<1>9. ~LastResortWrite(j)
  BY DEF LastResortWrite
<1> QED BY <1>2, <1>3, <1>4, <1>5, <1>6, <1>7, <1>8, <1>9 DEF JobNext

LEMMA TellsTheTruth ==
  ASSUME JobInv, [JobNext]_jobVars, NEW j \in Job, waiter[j] = "waiting", waiter'[j] = "resolved"
  PROVE  jobDisk'[j].status = "completed"
<1>1. waiter \in [Job -> {"none", "waiting", "resolved", "rejected"}]
      /\ jobDisk \in [Job -> JobWrite \cup {NoWrite}]
  BY DEF JobInv, JobTypes
<1>2. waiter'[j] # waiter[j]
  OBVIOUS
<1>3. CASE WriteSnapshot(j)
  <2> DEFINE write == Head(chain[j].writes)
  <2>1. /\ write \in JobWrite /\ write.rev \in Nat
        /\ write.status \in Outcomes => job[j].persisted <= write.rev
    BY <1>3, FirstWrite DEF WriteSnapshot, JobWrite
  <2>2. /\ waiter' = Told(j, write, TRUE)
        /\ jobDisk' = IF Current(j, write) THEN [jobDisk EXCEPT ![j] = write] ELSE jobDisk
    BY <1>3 DEF WriteSnapshot
  <2> HIDE DEF write
  <2>3. write.status \in Outcomes /\ write.status = "completed"
    BY <1>1, <1>2, <2>2 DEF Told
  <2>4. Current(j, write)
    <3>1. job[j].persisted \in Nat
      BY DEF JobInv, JobTypes, JobRecord
    <3> QED BY <2>1, <2>3, <3>1 DEF Current
  <2> QED BY <1>1, <2>2, <2>3, <2>4
<1>4. CASE WriteFails(j)
  BY <1>1, <1>4 DEF WriteFails, Told
<1>5. CASE AwaitJob(j)
  BY <1>5 DEF AwaitJob
<1>6. ASSUME NEW i \in Job, i # j, WriteSnapshot(i) \/ WriteFails(i) \/ AwaitJob(i)
      PROVE  waiter'[j] = waiter[j]
  <2>1. \A write, written : Told(i, write, written)[j] = waiter[j]
    BY <1>1, <1>6 DEF Told
  <2>2. CASE WriteSnapshot(i)
    <3>1. waiter' = Told(i, Head(chain[i].writes), TRUE)
      BY <2>2 DEF WriteSnapshot
    <3> QED BY <2>1, <3>1
  <2>3. CASE WriteFails(i)
    <3>1. \/ waiter' = Told(i, Head(chain[i].writes), FALSE) \/ waiter' = waiter
          \/ waiter' = [waiter EXCEPT ![i] = IF @ = "waiting" THEN "rejected" ELSE @]
      BY <2>3 DEF WriteFails
    <3> QED BY <1>1, <1>6, <2>1, <3>1
  <2>4. CASE AwaitJob(i)
    BY <1>1, <1>6, <2>4 DEF AwaitJob
  <2> QED BY <1>6, <2>2, <2>3, <2>4
<1>7. ASSUME NEW i \in Job, SubmitJob(i) \/ SubmitFails(i) \/ Watchdog(i) \/ CancelJob(i)
             \/ LastResortWrite(i) \/ Recover(i)
             \/ \E how \in {"completed", "failed"} : HandlerSettles(i, how)
      PROVE  waiter'[j] = waiter[j]
  BY <1>7 DEF SubmitJob, SubmitFails, Watchdog, CancelJob, LastResortWrite, Recover, HandlerSettles
<1>8. CASE UNCHANGED jobVars
  BY <1>8 DEF jobVars
<1>9. CASE ProcessRestarts
  BY <1>9 DEF ProcessRestarts
<1> QED BY <1>2, <1>3, <1>4, <1>5, <1>6, <1>7, <1>8, <1>9 DEF JobNext

\* For any number of jobs and slots: handlers never outnumber the slots, a job has one
\* outcome whoever races for it, its record on disk does not go back, and a completion
\* is told only when a restart would find it.
THEOREM JobsAreSettledOnce ==
  JobSpec => [](JobTypeOK /\ SlotsHold) /\ OneOutcome /\ DiskInOrder /\ ToldWhenDurable
<1>1. JobInv => JobTypeOK /\ SlotsHold
  <2> SUFFICES ASSUME JobInv PROVE JobTypeOK /\ SlotsHold
    OBVIOUS
  <2>1. SlotsHold
    BY DEF SlotsHold, JobInv, ExecutorSound, InSlots
  <2>2. running \in 0..MaxConcurrent /\ Len(queue) <= maxQueued
    BY JobAssumption DEF JobInv, ExecutorSound, JobTypes, JobAssumption
  <2>3. \A j \in Job : /\ job[j].status \in {"none"} \cup Active \cup Terminal /\ job[j].rev \in Nat
                       /\ job[j].result \in {"none"} \cup Outcomes
                       /\ exec[j].state \in {"none", "queued", "running", "settled"}
                       /\ waiter[j] \in {"none", "waiting", "resolved", "rejected"}
    BY DEF JobInv, JobTypes, JobRecord, ExecRecord, JobStatuses
  <2>4. \A j \in Job : jobDisk[j].status \in {"none"} \cup Active \cup Terminal
    BY DEF JobInv, JobTypes, JobWrite, NoWrite, JobStatuses
  <2> QED BY <2>1, <2>2, <2>3, <2>4 DEF JobTypeOK
<1>2. JobInv /\ [JobNext]_jobVars =>
        /\ [\A j \in Job : job[j].result # "none" /\ job'[j] # NoJob => job'[j].result = job[j].result]_jobVars
        /\ [\A j \in Job : jobDisk'[j].rev < jobDisk[j].rev => lastResort[j] # NoWrite]_jobVars
        /\ [\A j \in Job : waiter[j] = "waiting" /\ waiter'[j] = "resolved"
                            => jobDisk'[j].status = "completed"]_jobVars
  BY OutcomeStands, DiskAdvances, TellsTheTruth
<1>3. JobSpec => []JobInv
  BY JobInitInv, JobStepInv, PTL DEF JobSpec
<1> QED BY <1>1, <1>2, <1>3, PTL DEF JobSpec, OneOutcome, DiskInOrder, ToldWhenDurable

-----------------------------------------------------------------------------
(* The wakes of an Auto session *)

\* The parts of the invariant: what a host knows of its wakes and what becomes of a wake.
Statuses == {"none", "pending", "claimed", "done", "cancelled", "expired"}
HostPlaces == {"off", "poll", "claim", "check", "start", "turn", "read", "arm", "mark", "done",
               "cancelled", "consumed", "failed", "wait", "handback", "void"}
TimerRecords == [status : Statuses, due : BOOLEAN, stale : BOOLEAN, fence : Nat, attempts : Nat,
                 leased : BOOLEAN, runs : Nat]
HostRecords == [at : HostPlaces, kind : {"none", "alone", "attached", "scheduler"},
                timer : Timer \cup {NoTimer}, token : Nat, fence : Nat,
                next : Timer \cup {NoTimer}, nextToken : Nat,
                abort : {"none", "cancel", "leave", "lost"}]
AutoTypes ==
  /\ timers \in [Timer -> TimerRecords] /\ host \in [AutoHost -> HostRecords]
  /\ history \in Nat /\ {stalled, overlapped} \subseteq BOOLEAN /\ excused \subseteq Timer

\* The claim with which a host came by its wake, and by the next one.
AtWork(h) == host[h].timer # NoTimer /\ host[h].at # "handback"
Following(h) == Attached(h) /\ host[h].next # NoTimer
Took(h, t, n) ==
  \/ host[h].timer = t /\ host[h].token = n
  \/ Attached(h) /\ host[h].next = t /\ host[h].nextToken = n

\* Where a host may be with which wake.
Placed(h) ==
  /\ host[h].next # NoTimer => host[h].at \in {"mark", "done", "handback"}
  /\ host[h].at \in {"off", "poll", "claim", "void"} => host[h].timer = NoTimer /\ host[h].fence = 0
  /\ host[h].at = "mark" => host[h].next # NoTimer
  /\ host[h].at = "handback" => Following(h)
  /\ host[h].at \in {"check", "start", "cancelled", "failed", "wait"} => host[h].timer # NoTimer
  /\ host[h].kind = "scheduler" /\ host[h].timer = NoTimer => host[h].at \in {"poll", "claim"}

\* No claim is newer than the record's.
Counted(h) ==
  /\ host[h].timer # NoTimer => host[h].token \in 1..timers[host[h].timer].attempts
  /\ Following(h) => /\ host[h].nextToken \in 1..timers[host[h].next].attempts
                     /\ host[h].next = host[h].timer => host[h].token < host[h].nextToken

\* The latest claim of a wake that is neither given back nor lost.
Safe(t, n) ==
  /\ timers[t].attempts = n
  /\ (timers[t].status = "claimed" /\ timers[t].leased) \/ timers[t].status = "cancelled"
Secured(h) ==
  ~stalled => /\ AtWork(h) => Safe(host[h].timer, host[h].token)
              /\ Following(h) => Safe(host[h].next, host[h].nextToken)

\* A host knows the fence of its wake.
Fenced(h) ==
  /\ /\ host[h].at \in {"wait", "check", "start", "cancelled", "failed"}
     /\ ~stalled \/ Holds(host[h].timer, host[h].token)
     => host[h].fence = timers[host[h].timer].fence
  /\ /\ Following(h) /\ host[h].at \in {"mark", "done"}
     /\ ~stalled \/ Holds(host[h].next, host[h].nextToken)
     => host[h].fence = timers[host[h].next].fence
  /\ ~overlapped => host[h].fence <= history
  /\ ~overlapped /\ host[h].at = "cancelled" => host[h].fence < history

\* What a host knows of the turn of its wake.
Turned(h) ==
  host[h].timer # NoTimer =>
    /\ ~stalled /\ ~overlapped /\ host[h].at \in {"start", "turn"} => timers[host[h].timer].runs = 0
    /\ host[h].at \in {"read", "arm", "mark", "done", "consumed"} /\ Holds(host[h].timer, host[h].token)
         => timers[host[h].timer].runs > 0 \/ host[h].timer \in excused

HostSound(h) == Placed(h) /\ Counted(h) /\ Secured(h) /\ Fenced(h) /\ Turned(h)

TimerSound(t) ==
  /\ ~overlapped => timers[t].fence <= history
  /\ ~stalled /\ ~overlapped => timers[t].runs <= 1 /\ (timers[t].runs = 1 => timers[t].fence < history)
  /\ ~overlapped /\ timers[t].status \in {"done", "cancelled"} /\ timers[t].runs = 0
       => timers[t].fence < history \/ t \in excused

ClaimsApart ==
  \A g, h \in AutoHost, t \in Timer, n \in Nat : Took(g, t, n) /\ Took(h, t, n) => g = h
OnDuty(h) == host[h].timer # NoTimer /\ Scheduling(h)
SchedulersApart == ~stalled => \A g, h \in AutoHost : OnDuty(g) /\ OnDuty(h) => g = h

AutoInv ==
  /\ AutoTypes
  /\ \A h \in AutoHost : HostSound(h)
  /\ \A t \in Timer : TimerSound(t)
  /\ ClaimsApart
  /\ SchedulersApart

-----------------------------------------------------------------------------
\* At first nobody holds a wake.
LEMMA AutoStart == AutoInit => AutoInv
<1> SUFFICES ASSUME AutoInit PROVE AutoInv
  OBVIOUS
<1> USE DEF AutoInit, NoRecordYet, Away
<1>1. AutoTypes
  BY DEF AutoTypes, TimerRecords, HostRecords, Statuses, HostPlaces
<1>2. ASSUME NEW h \in AutoHost PROVE HostSound(h)
  BY DEF HostSound, Placed, Counted, Secured, Fenced, Turned, AtWork, Following, Attached
<1>3. ASSUME NEW t \in Timer PROVE TimerSound(t)
  BY DEF TimerSound
<1>4. ClaimsApart
  BY AutoAssumption DEF ClaimsApart, Took, Attached
<1>5. SchedulersApart
  BY DEF SchedulersApart, OnDuty
<1> QED BY <1>1, <1>2, <1>3, <1>4, <1>5 DEF AutoInv

\* What a host may rely on while it does not move itself.
Sees(g) ==
  \A t \in Timer :
    /\ timers'[t].attempts >= timers[t].attempts
    /\ \A n \in 1..timers[t].attempts :
         Holds(t, n)' => /\ Holds(t, n) /\ timers'[t].fence = timers[t].fence
                         /\ timers'[t].runs >= timers[t].runs
                         /\ t \in excused => t \in excused'
    /\ ~stalled' /\ ((Following(g) /\ host[g].next = t) \/ (AtWork(g) /\ host[g].timer = t)) =>
         /\ \A n \in Nat : Safe(t, n) => Safe(t, n)'
         /\ timers'[t].fence = timers[t].fence
    /\ ~stalled' /\ AtWork(g) /\ host[g].timer = t => timers'[t].runs = timers[t].runs

\* A host that does not move keeps what it knows.
LEMMA Bystander ==
  ASSUME AutoTypes, AutoTypes', NEW g \in AutoHost, HostSound(g), host'[g] = host[g], Sees(g),
         stalled => stalled', overlapped => overlapped', ~overlapped' => history' >= history
  PROVE  HostSound(g)' /\ (OnDuty(g)' => OnDuty(g))
<1>1. host[g] \in HostRecords /\ timers \in [Timer -> TimerRecords] /\ timers' \in [Timer -> TimerRecords]
  BY DEF AutoTypes
<1>2. history \in Nat /\ history' \in Nat
  BY DEF AutoTypes
<1>3. Placed(g)' /\ (AtWork(g)' <=> AtWork(g)) /\ (Following(g)' <=> Following(g))
  BY DEF HostSound, Placed, AtWork, Following, Attached
<1>4. Counted(g)'
  <2>1. \A t \in Timer : /\ timers[t].attempts \in Nat /\ timers'[t].attempts \in Nat
                         /\ timers'[t].attempts >= timers[t].attempts
    BY <1>1 DEF Sees, TimerRecords
  <2>2. host[g].timer # NoTimer => host[g].token \in 1..timers'[host[g].timer].attempts
    BY <1>1, <2>1 DEF HostSound, Counted, HostRecords
  <2>3. Following(g) => /\ host[g].nextToken \in 1..timers'[host[g].next].attempts
                        /\ host[g].next = host[g].timer => host[g].token < host[g].nextToken
    BY <1>1, <2>1 DEF HostSound, Counted, HostRecords, Following
  <2> QED BY <1>3, <2>2, <2>3 DEF Counted
<1>5. Secured(g)'
  <2> SUFFICES ASSUME ~stalled'
               PROVE  /\ AtWork(g) => Safe(host[g].timer, host[g].token)'
                      /\ Following(g) => Safe(host[g].next, host[g].nextToken)'
    BY <1>3 DEF Secured
  <2>1. ASSUME AtWork(g) PROVE Safe(host[g].timer, host[g].token)'
    <3>1. Safe(host[g].timer, host[g].token) /\ host[g].timer \in Timer /\ host[g].token \in Nat
      BY <1>1, <2>1 DEF HostSound, Secured, AtWork, HostRecords
    <3> QED BY <2>1, <3>1 DEF Sees
  <2>2. ASSUME Following(g) PROVE Safe(host[g].next, host[g].nextToken)'
    <3>1. Safe(host[g].next, host[g].nextToken) /\ host[g].next \in Timer /\ host[g].nextToken \in Nat
      BY <1>1, <2>2 DEF HostSound, Secured, Following, HostRecords
    <3> QED BY <2>2, <3>1 DEF Sees
  <2> QED BY <2>1, <2>2
<1>6. host[g].timer # NoTimer =>
        /\ host[g].timer \in Timer
        /\ Holds(host[g].timer, host[g].token)' =>
             /\ Holds(host[g].timer, host[g].token)
             /\ timers'[host[g].timer].fence = timers[host[g].timer].fence
             /\ timers'[host[g].timer].runs >= timers[host[g].timer].runs
             /\ host[g].timer \in excused => host[g].timer \in excused'
  BY <1>1 DEF HostSound, Counted, Sees, HostRecords
<1>7. Following(g) /\ Holds(host[g].next, host[g].nextToken)' =>
             /\ Holds(host[g].next, host[g].nextToken)
             /\ timers'[host[g].next].fence = timers[host[g].next].fence
  BY <1>1 DEF HostSound, Counted, Sees, HostRecords, Following
<1>8. Fenced(g)'
  <2>1. ASSUME host[g].at \in {"wait", "check", "start", "cancelled", "failed"},
               ~stalled' \/ Holds(host[g].timer, host[g].token)'
        PROVE  host[g].fence = timers'[host[g].timer].fence
    <3>1. host[g].timer # NoTimer /\ AtWork(g) /\ host[g].timer \in Timer
      BY <1>6, <2>1 DEF HostSound, Placed, AtWork
    <3> QED BY <1>6, <2>1, <3>1 DEF HostSound, Fenced, Sees
  <2>2. ASSUME Following(g), host[g].at \in {"mark", "done"},
               ~stalled' \/ Holds(host[g].next, host[g].nextToken)'
        PROVE  host[g].fence = timers'[host[g].next].fence
    <3>1. host[g].next \in Timer
      BY <1>1, <2>2 DEF Following, HostRecords
    <3> QED BY <1>7, <2>2, <3>1 DEF HostSound, Fenced, Sees
  <2>3. ~overlapped' => host[g].fence <= history'
    BY <1>1, <1>2 DEF HostSound, Fenced, HostRecords
  <2>4. ~overlapped' /\ host[g].at = "cancelled" => host[g].fence < history'
    BY <1>1, <1>2 DEF HostSound, Fenced, HostRecords
  <2> QED BY <1>3, <2>1, <2>2, <2>3, <2>4 DEF Fenced, Holds
<1>9. Turned(g)'
  <2> SUFFICES ASSUME host[g].timer # NoTimer
               PROVE  /\ ~stalled' /\ ~overlapped' /\ host[g].at \in {"start", "turn"}
                           => timers'[host[g].timer].runs = 0
                      /\ /\ host[g].at \in {"read", "arm", "mark", "done", "consumed"}
                         /\ Holds(host[g].timer, host[g].token)'
                         => timers'[host[g].timer].runs > 0 \/ host[g].timer \in excused'
    BY DEF Turned, Holds
  <2>1. host[g].at # "handback" => AtWork(g)
    BY DEF AtWork
  <2>2. timers[host[g].timer].runs \in Nat /\ timers'[host[g].timer].runs \in Nat
    BY <1>1, <1>6 DEF TimerRecords
  <2>3. ASSUME ~stalled', ~overlapped', host[g].at \in {"start", "turn"}
        PROVE  timers'[host[g].timer].runs = 0
    <3>1. timers'[host[g].timer].runs = timers[host[g].timer].runs
      BY <1>6, <2>1, <2>3 DEF Sees
    <3> QED BY <2>3, <3>1 DEF HostSound, Turned
  <2>4. ASSUME host[g].at \in {"read", "arm", "mark", "done", "consumed"},
               Holds(host[g].timer, host[g].token)'
        PROVE  timers'[host[g].timer].runs > 0 \/ host[g].timer \in excused'
    <3>1. Holds(host[g].timer, host[g].token) /\ timers'[host[g].timer].runs >= timers[host[g].timer].runs
      BY <1>6, <2>4
    <3>2. host[g].timer \in excused => host[g].timer \in excused'
      BY <1>6, <2>4
    <3>3. timers[host[g].timer].runs > 0 \/ host[g].timer \in excused
      BY <2>4, <3>1 DEF HostSound, Turned
    <3> QED BY <2>2, <3>1, <3>2, <3>3
  <2> QED BY <2>3, <2>4
<1>10. OnDuty(g)' => OnDuty(g)
  BY <1>6 DEF OnDuty, Scheduling, Holds
<1> QED BY <1>3, <1>4, <1>5, <1>8, <1>9, <1>10 DEF HostSound

\* A step of one host, and of nobody.
LEMMA HostMoves ==
  ASSUME AutoInv, AutoTypes', NEW h \in AutoHost,
         \A g \in AutoHost : g # h => host'[g] = host[g] /\ Sees(g),
         stalled => stalled', overlapped => overlapped', ~overlapped' => history' >= history,
         HostSound(h)', \A t \in Timer : TimerSound(t)',
         \A t \in Timer, n \in Nat : Took(h, t, n)' => Took(h, t, n) \/ n > timers[t].attempts,
         OnDuty(h)' /\ ~stalled' => OnDuty(h) \/ \A g \in AutoHost : g # h => ~OnDuty(g)
  PROVE  AutoInv'
<1>1. ASSUME NEW g \in AutoHost, g # h PROVE HostSound(g)' /\ (OnDuty(g)' => OnDuty(g))
  BY <1>1, Bystander DEF AutoInv
<1>2. ClaimsApart'
  <2> SUFFICES ASSUME NEW g \in AutoHost, NEW i \in AutoHost, NEW t \in Timer, NEW n \in Nat,
                      Took(g, t, n)', Took(i, t, n)'
               PROVE  g = i
    BY DEF ClaimsApart
  <2>1. ASSUME NEW k \in AutoHost, k # h, Took(k, t, n)'
        PROVE  Took(k, t, n) /\ n <= timers[t].attempts
    <3>1. Took(k, t, n)
      BY <2>1 DEF Took, Attached
    <3>2. HostSound(k) /\ t # NoTimer /\ timers[t].attempts \in Nat
      BY AutoAssumption DEF AutoInv, AutoTypes, TimerRecords
    <3> QED BY <3>1, <3>2 DEF HostSound, Counted, Following, Took
  <2>2. timers[t].attempts \in Nat
    BY DEF AutoInv, AutoTypes, TimerRecords
  <2>3. ClaimsApart
    BY DEF AutoInv
  <2> QED BY <2>1, <2>2, <2>3 DEF ClaimsApart
<1>3. SchedulersApart'
  BY <1>1 DEF SchedulersApart, AutoInv
<1> QED BY <1>1, <1>2, <1>3 DEF AutoInv

LEMMA NobodyMoves ==
  ASSUME AutoInv, AutoTypes', host' = host, \A g \in AutoHost : Sees(g),
         stalled => stalled', overlapped => overlapped', ~overlapped' => history' >= history,
         \A t \in Timer : TimerSound(t)'
  PROVE  AutoInv'
<1>1. ASSUME NEW g \in AutoHost PROVE HostSound(g)' /\ (OnDuty(g)' => OnDuty(g))
  <2>1. host'[g] = host[g]
    OBVIOUS
  <2> QED BY <2>1, Bystander DEF AutoInv
<1>2. ClaimsApart'
  BY DEF ClaimsApart, AutoInv, Took, Attached
<1>3. SchedulersApart'
  BY <1>1 DEF SchedulersApart, AutoInv
<1> QED BY <1>1, <1>2, <1>3 DEF AutoInv

-----------------------------------------------------------------------------
\* Steps of a host that leave the records alone.
LEMMA QuietHost ==
  ASSUME AutoInv, NEW h \in AutoHost, NEW c \in HostRecords, host' = [host EXCEPT ![h] = c],
         history' = history, timers' = timers, stalled' = stalled, overlapped' = overlapped,
         excused \subseteq excused', excused' \subseteq Timer,
         HostSound(h)',
         \A t \in Timer, n \in Nat : Took(h, t, n)' => Took(h, t, n),
         OnDuty(h)' => OnDuty(h)
  PROVE  AutoInv'
<1>1. AutoTypes /\ AutoTypes'
  BY DEF AutoInv, AutoTypes
<1>2. ASSUME NEW g \in AutoHost, g # h PROVE host'[g] = host[g] /\ Sees(g)
  <2>1. host'[g] = host[g]
    BY <1>1, <1>2 DEF AutoTypes
  <2>2. Sees(g)
    BY <1>1 DEF Sees, Holds, Safe, AutoTypes, TimerRecords
  <2> QED BY <2>1, <2>2
<1>3. history' >= history
  BY <1>1 DEF AutoTypes
<1>4. ASSUME NEW t \in Timer PROVE TimerSound(t)'
  BY DEF AutoInv, TimerSound
<1>5. \A t \in Timer, n \in Nat : Took(h, t, n)' => Took(h, t, n) \/ n > timers[t].attempts
  OBVIOUS
<1> QED BY <1>1, <1>2, <1>3, <1>4, <1>5, HostMoves

\* A host that has no wake.
LEMMA FreeHost ==
  ASSUME AutoTypes, AutoTypes', NEW h \in AutoHost, NEW c \in HostRecords, host' = [host EXCEPT ![h] = c],
         c.timer = NoTimer, c.next = NoTimer, c.fence = 0 \/ c.fence = history',
         c.at \in {"off", "poll", "claim", "void"} => c.fence = 0,
         c.at \notin {"check", "start", "cancelled", "failed", "wait", "mark", "handback"},
         c.kind = "scheduler" => c.at \in {"poll", "claim"}
  PROVE  /\ HostSound(h)' /\ ~OnDuty(h)'
         /\ \A t \in Timer, n \in Nat : ~Took(h, t, n)'
<1>1. host'[h] = c /\ history' \in Nat
  BY DEF AutoTypes
<1>2. HostSound(h)'
  BY <1>1 DEF HostSound, Placed, Counted, Secured, Fenced, Turned, AtWork, Following
<1>3. ~OnDuty(h)'
  BY <1>1 DEF OnDuty
<1>4. \A t \in Timer, n \in Nat : ~Took(h, t, n)'
  BY <1>1, AutoAssumption DEF Took
<1> QED BY <1>2, <1>3, <1>4

LEMMA FreedStep ==
  ASSUME AutoInv, NEW h \in AutoHost, NEW c \in HostRecords, host' = [host EXCEPT ![h] = c],
         c.timer = NoTimer, c.next = NoTimer, c.fence = 0 \/ c.fence = history,
         c.at \in {"off", "poll", "claim", "void"} => c.fence = 0,
         c.at \notin {"check", "start", "cancelled", "failed", "wait", "mark", "handback"},
         c.kind = "scheduler" => c.at \in {"poll", "claim"},
         UNCHANGED <<history, timers, stalled, overlapped, excused>>
  PROVE  AutoInv'
<1>1. AutoTypes /\ AutoTypes'
  BY DEF AutoInv, AutoTypes
<1>2. /\ HostSound(h)' /\ ~OnDuty(h)'
      /\ \A t \in Timer, n \in Nat : ~Took(h, t, n)'
  BY <1>1, FreeHost
<1>3. excused \subseteq excused' /\ excused' \subseteq Timer
  BY <1>1 DEF AutoTypes
<1> QED BY <1>2, <1>3, QuietHost

\* Commands that begin and end, schedulers that leave, crashes.
LEMMA LeavingSteps ==
  ASSUME AutoInv, NEW h \in AutoHost,
         \/ \E kind \in {"alone", "attached"} : ManualTurn(h, kind)
         \/ SchedulerStops(h) \/ IdleExit(h) \/ CommandEnds(h) \/ HostCrashes(h)
  PROVE  AutoInv'
<1>1. AutoTypes /\ history \in Nat
  BY DEF AutoInv, AutoTypes
<1>2. ASSUME NEW kind \in {"alone", "attached"}, ManualTurn(h, kind) PROVE AutoInv'
  <2> DEFINE c == [Away EXCEPT !.at = "turn", !.kind = kind, !.fence = history]
  <2>1. host' = [host EXCEPT ![h] = c] /\ UNCHANGED <<history, timers, stalled, overlapped, excused>>
    BY <1>2 DEF ManualTurn
  <2>2. c \in HostRecords /\ c.timer = NoTimer /\ c.next = NoTimer /\ c.fence = history
        /\ c.at = "turn" /\ c.kind = kind
    BY <1>1 DEF Away, HostRecords, HostPlaces
  <2> HIDE DEF c
  <2> QED BY <2>1, <2>2, FreedStep
<1>3. ASSUME SchedulerStops(h) \/ IdleExit(h) \/ CommandEnds(h) \/ HostCrashes(h) PROVE AutoInv'
  <2>1. host' = [host EXCEPT ![h] = Away] /\ UNCHANGED <<history, timers, stalled, overlapped, excused>>
    BY <1>3 DEF SchedulerStops, IdleExit, CommandEnds, HostCrashes
  <2>2. Away \in HostRecords /\ Away.timer = NoTimer /\ Away.next = NoTimer /\ Away.fence = 0
        /\ Away.at = "off" /\ Away.kind = "none"
    BY DEF Away, HostRecords, HostPlaces
  <2> QED BY <2>1, <2>2, FreedStep
<1> QED BY <1>2, <1>3

Aborts == {"none", "cancel", "leave", "lost"}

SameWakes(c, h) ==
  /\ c \in HostRecords
  /\ c.timer = host[h].timer /\ c.token = host[h].token /\ c.next = host[h].next
  /\ c.nextToken = host[h].nextToken /\ c.kind = host[h].kind

LEMMA PlaceIs ==
  ASSUME AutoTypes, NEW h \in AutoHost, NEW a \in HostPlaces, NEW c, c = [host[h] EXCEPT !.at = a]
  PROVE  SameWakes(c, h) /\ c.at = a /\ c.fence = host[h].fence
<1>1. host[h] \in HostRecords
  BY DEF AutoTypes
<1> QED BY <1>1 DEF HostRecords, SameWakes

LEMMA AbortIs ==
  ASSUME AutoTypes, NEW h \in AutoHost, NEW b \in Aborts, NEW c, c = [host[h] EXCEPT !.abort = b]
  PROVE  SameWakes(c, h) /\ c.at = host[h].at /\ c.fence = host[h].fence
<1>1. host[h] \in HostRecords
  BY DEF AutoTypes
<1> QED BY <1>1 DEF HostRecords, SameWakes, Aborts

\* Steps that change the place of a host, what it knows of the history, or its abort.
LEMMA PlacedStep ==
  ASSUME AutoInv, NEW h \in AutoHost, NEW c, SameWakes(c, h), host' = [host EXCEPT ![h] = c],
         UNCHANGED <<history, timers, stalled, overlapped>>,
         excused \subseteq excused', excused' \subseteq Timer, HostSound(h)'
  PROVE  AutoInv'
<1>1. host'[h] = c
  BY DEF AutoInv, AutoTypes
<1>2. \A t \in Timer, n \in Nat : Took(h, t, n)' => Took(h, t, n)
  BY <1>1 DEF Took, Attached, SameWakes
<1>3. OnDuty(h)' => OnDuty(h)
  BY <1>1 DEF OnDuty, Scheduling, Holds, SameWakes
<1> QED BY <1>2, <1>3, QuietHost DEF SameWakes

\* The way of a host from its claim to the turn and back, no record being changed.
LEMMA FenceSteps ==
  ASSUME AutoInv, NEW h \in AutoHost,
         \/ CheckResumeFences(h) \/ TurnStarts(h) \/ StartFails(h) \/ ReadBack(h) \/ ArmRefused(h)
         \/ CheckpointWritten(h) \/ ClaimLost(h) \/ \E why \in {"cancel", "leave"} : TurnInterrupted(h, why)
         \/ SnapshotFails(h)
  PROVE  AutoInv'
<1>1. /\ AutoTypes /\ HostSound(h) /\ host[h] \in HostRecords /\ history \in Nat
      /\ host \in [AutoHost -> HostRecords] /\ excused \subseteq Timer /\ timers \in [Timer -> TimerRecords]
  BY DEF AutoInv, AutoTypes
<1>2. host[h].timer # NoTimer => host[h].timer \in Timer /\ TimerSound(host[h].timer)
                                 /\ timers[host[h].timer].runs \in Nat
  BY <1>1 DEF AutoInv, HostRecords, TimerRecords
<1>3. ASSUME CheckResumeFences(h) PROVE AutoInv'
  <2> DEFINE c == [host[h] EXCEPT !.at = IF FencesPass(h) THEN "start" ELSE "cancelled"]
  <2>1. /\ host' = [host EXCEPT ![h] = c] /\ host[h].at = "check"
        /\ UNCHANGED <<history, timers, stalled, overlapped, excused>>
    BY <1>1, <1>3 DEF CheckResumeFences, Moves
  <2>2. c \in HostRecords /\ host'[h] = c
    BY <1>1, <2>1 DEF HostRecords, HostPlaces
  <2>3. HostSound(h)'
    <3>1. ASSUME FencesPass(h), ~stalled, ~overlapped PROVE timers[host[h].timer].runs = 0
      BY <1>1, <1>2, <2>1, <3>1 DEF HostSound, Placed, Fenced, FencesPass, TimerSound
    <3> QED BY <1>1, <1>2, <2>1, <2>2, <3>1 DEF HostSound, Placed, Counted, Secured, Fenced, Turned,
              AtWork, Following, Attached, Holds, Safe, FencesPass, HostRecords
  <2>4. SameWakes(c, h)
    BY <1>1 DEF HostRecords, HostPlaces, SameWakes
  <2> HIDE DEF c
  <2> QED BY <1>1, <2>1, <2>2, <2>3, <2>4, PlacedStep
<1>4. ASSUME \/ TurnStarts(h) \/ StartFails(h) \/ ReadBack(h) \/ ArmRefused(h)
             \/ CheckpointWritten(h) \/ ClaimLost(h)
             \/ \E why \in {"cancel", "leave"} : TurnInterrupted(h, why)
             \/ SnapshotFails(h)
      PROVE  AutoInv'
  <2>1. PICK c :
          /\ host' = [host EXCEPT ![h] = c] /\ SameWakes(c, h)
          /\ \/ c.at = host[h].at /\ c.fence = host[h].fence
             \/ host[h].at = "start" /\ c.at = "turn" /\ c.fence = history
             \/ host[h].at = "start" /\ c.at = "failed" /\ c.fence = host[h].fence
             \/ host[h].at = "read" /\ c.at = "arm" /\ c.fence = history
             \/ host[h].at = "arm" /\ c.at = "consumed" /\ c.fence = host[h].fence
             \/ host[h].at = "mark" /\ c.at = "done" /\ c.fence = host[h].fence
             \/ host[h].at = "turn" /\ c.at = "consumed" /\ c.fence = host[h].fence
                /\ excused' = excused \cup ({host[h].timer} \ {NoTimer})
    <3>1. CASE TurnStarts(h)
      <4> DEFINE c == [host[h] EXCEPT !.at = "turn", !.fence = history]
      <4>1. host' = [host EXCEPT ![h] = c]
        BY <1>1, <3>1 DEF TurnStarts
      <4>2. "turn" \in HostPlaces
        BY DEF HostPlaces
      <4>3. c = [host[h] EXCEPT !.at = "turn", !.fence = history]
        OBVIOUS
      <4> HIDE DEF c
      <4>4. SameWakes(c, h) /\ c.at = "turn" /\ c.fence = history
        BY <1>1, <4>2, <4>3 DEF HostRecords, SameWakes
      <4> QED BY <3>1, <4>1, <4>4 DEF TurnStarts
    <3>2. CASE StartFails(h)
      <4> DEFINE c == [host[h] EXCEPT !.at = "failed"]
      <4>1. host' = [host EXCEPT ![h] = c]
        BY <1>1, <3>2 DEF StartFails, Moves
      <4>2. "failed" \in HostPlaces
        BY DEF HostPlaces
      <4>3. c = [host[h] EXCEPT !.at = "failed"]
        OBVIOUS
      <4> HIDE DEF c
      <4>4. SameWakes(c, h) /\ c.at = "failed" /\ c.fence = host[h].fence
        BY <1>1, <4>2, <4>3, PlaceIs
      <4> QED BY <3>2, <4>1, <4>4 DEF StartFails
    <3>3. CASE ReadBack(h)
      <4> DEFINE c == [host[h] EXCEPT !.at = "arm", !.fence = history]
      <4>1. host' = [host EXCEPT ![h] = c]
        BY <1>1, <3>3 DEF ReadBack
      <4>2. "arm" \in HostPlaces
        BY DEF HostPlaces
      <4>3. c = [host[h] EXCEPT !.at = "arm", !.fence = history]
        OBVIOUS
      <4> HIDE DEF c
      <4>4. SameWakes(c, h) /\ c.at = "arm" /\ c.fence = history
        BY <1>1, <4>2, <4>3 DEF HostRecords, SameWakes
      <4> QED BY <3>3, <4>1, <4>4 DEF ReadBack
    <3>4. CASE ArmRefused(h)
      <4> DEFINE c == [host[h] EXCEPT !.at = "consumed"]
      <4>1. host' = [host EXCEPT ![h] = c]
        BY <1>1, <3>4 DEF ArmRefused, Moves
      <4>2. "consumed" \in HostPlaces
        BY DEF HostPlaces
      <4>3. c = [host[h] EXCEPT !.at = "consumed"]
        OBVIOUS
      <4> HIDE DEF c
      <4>4. SameWakes(c, h) /\ c.at = "consumed" /\ c.fence = host[h].fence
        BY <1>1, <4>2, <4>3, PlaceIs
      <4> QED BY <3>4, <4>1, <4>4 DEF ArmRefused
    <3>5. CASE CheckpointWritten(h)
      <4> DEFINE c == [host[h] EXCEPT !.at = "done"]
      <4>1. host' = [host EXCEPT ![h] = c]
        BY <1>1, <3>5 DEF CheckpointWritten, Moves
      <4>2. "done" \in HostPlaces
        BY DEF HostPlaces
      <4>3. c = [host[h] EXCEPT !.at = "done"]
        OBVIOUS
      <4> HIDE DEF c
      <4>4. SameWakes(c, h) /\ c.at = "done" /\ c.fence = host[h].fence
        BY <1>1, <4>2, <4>3, PlaceIs
      <4> QED BY <3>5, <4>1, <4>4 DEF CheckpointWritten
    <3>6. CASE SnapshotFails(h)
      <4> DEFINE c == [host[h] EXCEPT !.at = "consumed"]
      <4>1. host' = [host EXCEPT ![h] = c]
        BY <1>1, <3>6 DEF SnapshotFails, Moves
      <4>2. "consumed" \in HostPlaces
        BY DEF HostPlaces
      <4>3. c = [host[h] EXCEPT !.at = "consumed"]
        OBVIOUS
      <4> HIDE DEF c
      <4>4. SameWakes(c, h) /\ c.at = "consumed" /\ c.fence = host[h].fence
        BY <1>1, <4>2, <4>3, PlaceIs
      <4> QED BY <3>6, <4>1, <4>4 DEF SnapshotFails
    <3>7. CASE ClaimLost(h)
      <4> DEFINE c == [host[h] EXCEPT !.abort = "lost"]
      <4>1. host' = [host EXCEPT ![h] = c]
        BY <1>1, <3>7 DEF ClaimLost
      <4>2. "lost" \in Aborts
        BY DEF Aborts
      <4>3. c = [host[h] EXCEPT !.abort = "lost"]
        OBVIOUS
      <4> HIDE DEF c
      <4>4. SameWakes(c, h) /\ c.at = host[h].at /\ c.fence = host[h].fence
        BY <1>1, <4>2, <4>3, AbortIs
      <4> QED BY <3>7, <4>1, <4>4 DEF ClaimLost
    <3>8. ASSUME NEW why \in {"cancel", "leave"}, TurnInterrupted(h, why)
          PROVE  \E c : /\ host' = [host EXCEPT ![h] = c] /\ SameWakes(c, h)
                        /\ c.at = host[h].at /\ c.fence = host[h].fence
      <4> DEFINE c == [host[h] EXCEPT !.abort = why]
      <4>1. host' = [host EXCEPT ![h] = c]
        BY <1>1, <3>8 DEF TurnInterrupted
      <4>2. why \in Aborts
        BY DEF Aborts
      <4>3. c = [host[h] EXCEPT !.abort = why]
        OBVIOUS
      <4> HIDE DEF c
      <4>4. SameWakes(c, h) /\ c.at = host[h].at /\ c.fence = host[h].fence
        BY <1>1, <4>2, <4>3, AbortIs
      <4> QED BY <4>1, <4>4
    <3> QED BY <1>4, <3>1, <3>2, <3>3, <3>4, <3>5, <3>6, <3>7, <3>8
  <2>2. /\ UNCHANGED <<history, timers, stalled, overlapped>>
        /\ excused \subseteq excused' /\ excused' \subseteq Timer
    BY <1>1, <1>2, <1>4 DEF TurnStarts, StartFails, ReadBack, ArmRefused, CheckpointWritten, ClaimLost,
         TurnInterrupted, SnapshotFails
  <2>3. host'[h] = c
    BY <1>1, <2>1
  <2>4. Placed(h)' /\ Counted(h)' /\ Secured(h)'
    BY <1>1, <2>1, <2>2, <2>3 DEF HostSound, Placed, Counted, Secured, AtWork, Following, Attached, Safe,
         SameWakes
  <2>5. Fenced(h)'
    BY <1>1, <2>1, <2>2, <2>3 DEF HostSound, Placed, Fenced, Following, Attached, Holds, HostRecords,
         SameWakes
  <2>6. Turned(h)'
    BY <1>1, <1>2, <2>1, <2>2, <2>3 DEF HostSound, Placed, Turned, Holds, SameWakes
  <2> QED BY <2>1, <2>2, <2>4, <2>5, <2>6, PlacedStep DEF HostSound
<1> QED BY <1>3, <1>4

-----------------------------------------------------------------------------
\* Changes of a record that a host which does not move can live with: they leave its
\* claim alone, because it has none, or because the claim is somebody else's.
OfAnother(g, t) == \E h \in AutoHost : h # g /\ Took(h, t, timers[t].attempts)
Mild(g, t) ==
  /\ timers'[t].fence = timers[t].fence /\ timers'[t].attempts = timers[t].attempts
  /\ timers'[t].runs >= timers[t].runs
  /\ t \in excused => t \in excused'
  /\ timers'[t].status = "claimed" => timers[t].status = "claimed"
  /\ \/ /\ timers'[t].runs = timers[t].runs
        /\ \/ timers'[t].status = "cancelled"
           \/ timers'[t].status = timers[t].status /\ timers'[t].leased = timers[t].leased
     \/ timers[t].status = "pending"
     \/ timers[t].status = "claimed" /\ ~timers[t].leased
     \/ stalled'
     \/ ~Kept(t)
     \/ OfAnother(g, t)
Fresh(t) ==
  /\ timers[t].status \in {"pending", "none"}
  /\ timers'[t].attempts >= timers[t].attempts
  /\ timers'[t].status = "claimed" => timers'[t].attempts > timers[t].attempts

LEMMA MildlySeen ==
  ASSUME AutoInv, AutoTypes', stalled => stalled', NEW g \in AutoHost,
         \A t \in Timer : Mild(g, t) \/ Fresh(t)
  PROVE  Sees(g)
<1> SUFFICES ASSUME NEW t \in Timer
             PROVE  /\ timers'[t].attempts >= timers[t].attempts
                    /\ \A n \in 1..timers[t].attempts :
                         Holds(t, n)' => /\ Holds(t, n) /\ timers'[t].fence = timers[t].fence
                                         /\ timers'[t].runs >= timers[t].runs
                                         /\ t \in excused => t \in excused'
                    /\ ~stalled' /\ ((Following(g) /\ host[g].next = t) \/ (AtWork(g) /\ host[g].timer = t)) =>
                         /\ \A n \in Nat : Safe(t, n) => Safe(t, n)'
                         /\ timers'[t].fence = timers[t].fence
                    /\ ~stalled' /\ AtWork(g) /\ host[g].timer = t => timers'[t].runs = timers[t].runs
  BY DEF Sees
<1>1. /\ timers[t].attempts \in Nat /\ timers'[t].attempts \in Nat
      /\ timers[t].runs \in Nat /\ timers'[t].runs \in Nat
  BY DEF AutoInv, AutoTypes, TimerRecords
<1>2. timers'[t].attempts >= timers[t].attempts
  BY <1>1 DEF Mild, Fresh
<1>3. ASSUME NEW n \in 1..timers[t].attempts, Holds(t, n)'
      PROVE  /\ Holds(t, n) /\ timers'[t].fence = timers[t].fence
             /\ timers'[t].runs >= timers[t].runs
             /\ t \in excused => t \in excused'
  BY <1>1, <1>3 DEF Mild, Fresh, Holds
<1>4. ASSUME ~stalled', (Following(g) /\ host[g].next = t) \/ (AtWork(g) /\ host[g].timer = t)
      PROVE  /\ \A n \in Nat : Safe(t, n) => Safe(t, n)'
             /\ timers'[t].fence = timers[t].fence
             /\ timers'[t].runs = timers[t].runs
  <2>1. Safe(t, timers[t].attempts) /\ Took(g, t, timers[t].attempts)
    BY <1>4 DEF AutoInv, HostSound, Secured, Safe, Took, Following
  <2>2. Kept(t)
    BY <2>1 DEF Kept, Took
  <2>3. ~OfAnother(g, t)
    BY <1>1, <2>1 DEF OfAnother, AutoInv, ClaimsApart
  <2> QED BY <1>4, <2>1, <2>2, <2>3 DEF Mild, Fresh, Safe
<1> QED BY <1>2, <1>3, <1>4

\* A wake that is retired has run, or has a reason.
Retires(t) ==
  /\ timers'[t].status \in {"done", "cancelled"} /\ timers'[t].status # timers[t].status
  /\ ~overlapped /\ timers[t].runs = 0
  => timers[t].fence < history \/ t \in excused'

LEMMA StillSound ==
  ASSUME AutoInv, AutoTypes', stalled => stalled', overlapped' = overlapped, history' = history,
         NEW t \in Timer, Retires(t), t \in excused => t \in excused',
         timers'[t].fence = timers[t].fence, timers'[t].runs = timers[t].runs
  PROVE  TimerSound(t)'
<1>1. TimerSound(t)
  BY DEF AutoInv
<1> QED BY <1>1 DEF TimerSound, Retires

\* What happens to a record from outside: time, staleness, lapses, cancellation.
LEMMA RecordSteps ==
  ASSUME AutoInv,
         \E t \in Timer : TaskCancelled(t) \/ FireNow(t) \/ TimeComes(t) \/ GrowsStale(t) \/ LeaseLapses(t)
  PROVE  AutoInv'
<1>1. AutoTypes
  BY DEF AutoInv
<1>2. PICK u \in Timer : TaskCancelled(u) \/ FireNow(u) \/ TimeComes(u) \/ GrowsStale(u) \/ LeaseLapses(u)
  OBVIOUS
<1> USE DEF TaskCancelled, FireNow, TimeComes, GrowsStale, LeaseLapses
<1>3. /\ timers' \in [Timer -> TimerRecords]
      /\ \A t \in Timer : /\ t # u => timers'[t] = timers[t]
                          /\ timers'[t].fence = timers[t].fence
                          /\ timers'[t].runs = timers[t].runs
                          /\ timers'[t].attempts = timers[t].attempts
  <2>1. timers \in [Timer -> TimerRecords] /\ timers[u] \in TimerRecords
    BY <1>1 DEF AutoTypes
  <2>2. /\ [timers[u] EXCEPT !.status = "cancelled", !.leased = FALSE] \in TimerRecords
        /\ [timers[u] EXCEPT !.due = TRUE] \in TimerRecords
        /\ [timers[u] EXCEPT !.stale = TRUE] \in TimerRecords
        /\ [timers[u] EXCEPT !.leased = FALSE] \in TimerRecords
    BY <2>1 DEF TimerRecords, Statuses
  <2>3. PICK r \in TimerRecords : /\ timers' = [timers EXCEPT ![u] = r]
                                  /\ r.fence = timers[u].fence /\ r.runs = timers[u].runs
                                  /\ r.attempts = timers[u].attempts
    <3>1. CASE TaskCancelled(u)
      <4>1. timers' = [timers EXCEPT ![u] = [timers[u] EXCEPT !.status = "cancelled", !.leased = FALSE]]
        BY <2>1, <3>1
      <4> QED BY <2>1, <2>2, <4>1 DEF TimerRecords
    <3>2. CASE FireNow(u) \/ TimeComes(u)
      <4>1. timers' = [timers EXCEPT ![u] = [timers[u] EXCEPT !.due = TRUE]]
        BY <2>1, <3>2
      <4> QED BY <2>1, <2>2, <4>1 DEF TimerRecords
    <3>3. CASE GrowsStale(u)
      <4>1. timers' = [timers EXCEPT ![u] = [timers[u] EXCEPT !.stale = TRUE]]
        BY <2>1, <3>3
      <4> QED BY <2>1, <2>2, <4>1 DEF TimerRecords
    <3>4. CASE LeaseLapses(u)
      <4>1. timers' = [timers EXCEPT ![u] = [timers[u] EXCEPT !.leased = FALSE]]
        BY <2>1, <3>4
      <4> QED BY <2>1, <2>2, <4>1 DEF TimerRecords
    <3> QED BY <1>2, <3>1, <3>2, <3>3, <3>4
  <2> QED BY <2>1, <2>3
<1>4. /\ host' = host /\ history' = history /\ overlapped' = overlapped /\ stalled => stalled'
      /\ excused \subseteq excused' /\ stalled' \in BOOLEAN /\ excused' \subseteq Timer
  BY <1>1, <1>2 DEF AutoTypes
<1>5. AutoTypes'
  BY <1>1, <1>3, <1>4 DEF AutoTypes
<1>6. \/ timers'[u].status = "cancelled" /\ u \in excused'
      \/ timers'[u].status = timers[u].status /\ timers'[u].leased = timers[u].leased
      \/ timers'[u].status = "claimed" /\ timers[u].status = "claimed" /\ (stalled' \/ ~Kept(u))
  BY <1>1, <1>2 DEF AutoTypes, TimerRecords
<1>7. \A t \in Timer : timers[t].runs \in Nat
  BY <1>1 DEF AutoTypes, TimerRecords
<1>8. ASSUME NEW g \in AutoHost PROVE Sees(g)
  <2>1. ASSUME NEW t \in Timer PROVE Mild(g, t)
    BY <1>3, <1>4, <1>6, <1>7 DEF Mild
  <2> QED BY <1>4, <1>5, <2>1, MildlySeen
<1>9. ASSUME NEW t \in Timer PROVE TimerSound(t)'
  <2>1. Retires(t)
    BY <1>3, <1>6 DEF Retires
  <2> QED BY <1>3, <1>4, <1>5, <2>1, StillSound
<1>10. history' >= history
  BY <1>1, <1>4 DEF AutoTypes
<1> QED BY <1>4, <1>5, <1>8, <1>9, <1>10, NobodyMoves

\* Steps of a host that change records, but its own claims only to let them go.
LEMMA LettingGo ==
  ASSUME AutoInv, NEW h \in AutoHost, NEW c \in HostRecords, host' = [host EXCEPT ![h] = c],
         history' = history, stalled' = stalled, overlapped' = overlapped,
         excused \subseteq excused', excused' \subseteq Timer,
         timers' \in [Timer -> TimerRecords],
         \A g \in AutoHost, t \in Timer : g # h => Mild(g, t),
         \A t \in Timer : Retires(t) /\ timers'[t].runs = timers[t].runs,
         \A t \in Timer : timers'[t].fence = timers[t].fence,
         HostSound(h)',
         \A t \in Timer, n \in Nat : Took(h, t, n)' => Took(h, t, n),
         OnDuty(h)' => OnDuty(h)
  PROVE  AutoInv'
<1>1. AutoTypes /\ AutoTypes'
  BY DEF AutoInv, AutoTypes
<1>2. ASSUME NEW g \in AutoHost, g # h PROVE host'[g] = host[g] /\ Sees(g)
  <2>1. host'[g] = host[g]
    BY <1>1, <1>2 DEF AutoTypes
  <2>2. Sees(g)
    BY <1>1, <1>2, MildlySeen
  <2> QED BY <2>1, <2>2
<1>3. history' >= history
  BY <1>1 DEF AutoTypes
<1>4. ASSUME NEW t \in Timer PROVE TimerSound(t)'
  BY <1>1, StillSound
<1>5. \A t \in Timer, n \in Nat : Took(h, t, n)' => Took(h, t, n) \/ n > timers[t].attempts
  OBVIOUS
<1> QED BY <1>1, <1>2, <1>3, <1>4, <1>5, HostMoves

-----------------------------------------------------------------------------
\* A claim that its host gives back.
LEMMA GivenBack ==
  ASSUME AutoTypes, NEW h \in AutoHost, NEW w \in Timer, NEW n \in Nat,
         NEW status \in {"pending", "done", "cancelled"}, NEW due \in BOOLEAN,
         Took(h, w, n), timers' = Released(w, n, status, due), excused \subseteq excused'
  PROVE  /\ timers' \in [Timer -> TimerRecords]
         /\ \A g \in AutoHost, t \in Timer : g # h => Mild(g, t)
         /\ \A t \in Timer : /\ timers'[t].fence = timers[t].fence
                             /\ timers'[t].runs = timers[t].runs
                             /\ timers'[t].attempts = timers[t].attempts
                             /\ t # w => timers'[t] = timers[t]
         /\ ~(timers'[w].status = "claimed" /\ timers'[w].attempts = n)
         /\ \/ timers'[w] = timers[w]
            \/ Holds(w, n) /\ timers'[w].status = status
<1>1. timers \in [Timer -> TimerRecords] /\ timers[w] \in TimerRecords
  BY DEF AutoTypes
<1>2. \A t \in Timer : timers[t].runs \in Nat
  BY <1>1 DEF TimerRecords
<1>3. CASE ~Holds(w, n)
  <2>1. timers' = timers
    BY <1>3 DEF Released
  <2> QED BY <1>1, <1>2, <1>3, <2>1 DEF Mild, Holds
<1>4. CASE Holds(w, n)
  <2> DEFINE r == [timers[w] EXCEPT !.status = status, !.leased = FALSE, !.due = due]
  <2>1. timers' = [timers EXCEPT ![w] = r]
    BY <1>1, <1>4 DEF Released
  <2>2. /\ r \in TimerRecords /\ r.fence = timers[w].fence /\ r.runs = timers[w].runs
        /\ r.attempts = timers[w].attempts /\ r.status = status
    BY <1>1 DEF TimerRecords, Statuses
  <2> HIDE DEF r
  <2>3. \A t \in Timer : timers'[t] = IF t = w THEN r ELSE timers[t]
    BY <1>1, <2>1
  <2>4. timers' \in [Timer -> TimerRecords]
    BY <1>1, <2>1, <2>2
  <2>5. ASSUME NEW g \in AutoHost, NEW t \in Timer, g # h PROVE Mild(g, t)
    <3>1. CASE t # w
      BY <1>2, <2>3, <3>1 DEF Mild
    <3>2. CASE t = w
      <4>1. OfAnother(g, t)
        BY <1>4, <2>5, <3>2 DEF OfAnother, Holds
      <4> QED BY <1>2, <2>2, <2>3, <3>2, <4>1 DEF Mild
    <3> QED BY <3>1, <3>2
  <2> QED BY <1>4, <2>2, <2>3, <2>4, <2>5
<1> QED BY <1>3, <1>4

\* A host that lets its wakes go, with or without giving a claim back.
LEMMA LetsGo ==
  ASSUME AutoInv, NEW h \in AutoHost, NEW c \in HostRecords, host' = [host EXCEPT ![h] = c],
         c.timer = NoTimer, c.next = NoTimer, c.fence = 0,
         c.at \notin {"check", "start", "cancelled", "failed", "wait", "mark", "handback"},
         c.kind = "scheduler" => c.at \in {"poll", "claim"},
         UNCHANGED <<history, stalled, overlapped>>,
         excused \subseteq excused', excused' \subseteq Timer,
         timers' \in [Timer -> TimerRecords],
         \A g \in AutoHost, t \in Timer : g # h => Mild(g, t),
         \A t \in Timer : Retires(t) /\ timers'[t].runs = timers[t].runs,
         \A t \in Timer : timers'[t].fence = timers[t].fence
  PROVE  AutoInv'
<1>1. AutoTypes /\ AutoTypes'
  BY DEF AutoInv, AutoTypes
<1>2. /\ HostSound(h)' /\ ~OnDuty(h)'
      /\ \A t \in Timer, n \in Nat : ~Took(h, t, n)'
  BY <1>1, FreeHost
<1> QED BY <1>2, LettingGo

\* Records that nobody changes.
LEMMA Unheld ==
  ASSUME AutoTypes, timers' = timers, excused \subseteq excused'
  PROVE  /\ timers' \in [Timer -> TimerRecords]
         /\ \A g \in AutoHost, t \in Timer : Mild(g, t)
         /\ \A t \in Timer : Retires(t) /\ timers'[t].runs = timers[t].runs
         /\ \A t \in Timer : timers'[t].fence = timers[t].fence
<1>1. timers \in [Timer -> TimerRecords] /\ \A t \in Timer : timers[t].runs \in Nat
  BY DEF AutoTypes, TimerRecords
<1> QED BY <1>1 DEF Mild, Retires

\* What a host with a wake has in hand.
LEMMA InHand ==
  ASSUME AutoInv, NEW h \in AutoHost
  PROVE  /\ AutoTypes /\ HostSound(h) /\ host[h] \in HostRecords /\ history \in Nat
         /\ host \in [AutoHost -> HostRecords] /\ timers \in [Timer -> TimerRecords] /\ excused \subseteq Timer
         /\ host[h].timer # NoTimer =>
              /\ host[h].timer \in Timer /\ host[h].token \in Nat
              /\ Took(h, host[h].timer, host[h].token)
         /\ host[h].next # NoTimer =>
              /\ host[h].next \in Timer /\ host[h].nextToken \in Nat
              /\ Attached(h) => Took(h, host[h].next, host[h].nextToken)
         /\ \A t \in Timer : timers[t].due \in BOOLEAN /\ timers[t].fence \in Nat /\ timers[t].runs \in Nat
<1>1. AutoTypes /\ HostSound(h)
  BY DEF AutoInv
<1>2. /\ host[h] \in HostRecords /\ history \in Nat /\ excused \subseteq Timer
      /\ host \in [AutoHost -> HostRecords] /\ timers \in [Timer -> TimerRecords]
  BY <1>1 DEF AutoTypes
<1>3. \A t \in Timer : timers[t].due \in BOOLEAN /\ timers[t].fence \in Nat /\ timers[t].runs \in Nat
  BY <1>2 DEF TimerRecords
<1> QED BY <1>1, <1>2, <1>3 DEF Took, HostRecords

\* A host without a wake, wherever it goes next.
Free(c) ==
  /\ c \in HostRecords /\ c.timer = NoTimer /\ c.next = NoTimer /\ c.fence = 0
  /\ c.at \notin {"check", "start", "cancelled", "failed", "wait", "mark", "handback"}
  /\ c.kind = "scheduler" => c.at \in {"poll", "claim"}

\* A host that releases its wake and has none afterwards.
LEMMA GivesUp ==
  ASSUME AutoInv, NEW h \in AutoHost, NEW c, Free(c), host' = [host EXCEPT ![h] = c],
         UNCHANGED <<history, stalled, overlapped>>, excused \subseteq excused', excused' \subseteq Timer,
         NEW w \in Timer, NEW n \in Nat, NEW status \in {"pending", "done", "cancelled"}, NEW due,
         due \in BOOLEAN, Took(h, w, n), timers' = Released(w, n, status, due),
         status # "pending" /\ Holds(w, n) /\ ~overlapped /\ timers[w].runs = 0
           => timers[w].fence < history \/ w \in excused'
  PROVE  AutoInv'
<1>1. AutoTypes
  BY DEF AutoInv
<1>2. /\ timers' \in [Timer -> TimerRecords]
      /\ \A g \in AutoHost, t \in Timer : g # h => Mild(g, t)
      /\ \A t \in Timer : /\ timers'[t].fence = timers[t].fence
                          /\ timers'[t].runs = timers[t].runs
                          /\ t # w => timers'[t] = timers[t]
      /\ \/ timers'[w] = timers[w]
         \/ Holds(w, n) /\ timers'[w].status = status
  BY <1>1, GivenBack
<1>3. ASSUME NEW t \in Timer PROVE Retires(t) /\ timers'[t].runs = timers[t].runs
  BY <1>2 DEF Retires
<1>4. \A t \in Timer : timers'[t].fence = timers[t].fence
  BY <1>2
<1> QED BY <1>2, <1>3, <1>4, LetsGo DEF Free

\* The scheduler releases its claim: done, cancelled, or pending for a retry.
LEMMA SchedulerSettlesStep ==
  ASSUME AutoInv, NEW h \in AutoHost, SchedulerSettles(h)
  PROVE  AutoInv'
<1> USE DEF SchedulerSettles
<1>1. /\ AutoTypes /\ HostSound(h) /\ host[h] \in HostRecords /\ history \in Nat
      /\ host \in [AutoHost -> HostRecords] /\ timers \in [Timer -> TimerRecords] /\ excused \subseteq Timer
  BY InHand
<1>2. /\ host[h].timer \in Timer /\ host[h].timer # NoTimer /\ host[h].token \in Nat
      /\ Took(h, host[h].timer, host[h].token)
  <2>1. host[h].timer # NoTimer
    BY <1>1 DEF HostSound, Placed
  <2> QED BY <2>1, InHand
<1> DEFINE w == host[h].timer
           status == IF Retried(h) THEN "pending" ELSE IF host[h].at = "cancelled" THEN "cancelled" ELSE "done"
           c == IF host[h].abort \in {"cancel", "leave"} THEN Away
                ELSE [Away EXCEPT !.at = "poll", !.kind = "scheduler"]
<1>3. host' = [host EXCEPT ![h] = c] /\ UNCHANGED <<history, stalled, overlapped, excused>>
  BY <1>1
<1>4. Free(c)
  BY DEF Free, Away, HostRecords, HostPlaces
<1>5. timers' = Released(w, host[h].token, status, FALSE) /\ status \in {"pending", "done", "cancelled"}
  OBVIOUS
<1>6. status # "pending" /\ Holds(w, host[h].token) /\ ~overlapped /\ timers[w].runs = 0
        => timers[w].fence < history \/ w \in excused'
  <2> SUFFICES ASSUME ~Retried(h), Holds(w, host[h].token), ~overlapped, timers[w].runs = 0
               PROVE  timers[w].fence < history \/ w \in excused'
    OBVIOUS
  <2>1. CASE host[h].at \in {"done", "consumed"}
    BY <1>1, <1>2, <1>3, <2>1 DEF HostSound, Turned
  <2>2. CASE host[h].at = "cancelled"
    BY <1>1, <2>2 DEF HostSound, Fenced
  <2>3. CASE host[h].at = "failed"
    <3>1. host[h].fence = timers[w].fence /\ host[h].fence <= history /\ host[h].fence # history
      BY <1>1, <2>3 DEF HostSound, Fenced, Retried, FencesPass
    <3>2. host[h].fence \in Nat
      BY <1>1 DEF HostRecords
    <3> QED BY <1>1, <3>1, <3>2
  <2> QED BY <2>1, <2>2, <2>3
<1>7. excused \subseteq excused' /\ excused' \subseteq Timer
  BY <1>1, <1>3
<1>8. w \in Timer /\ Took(h, w, host[h].token)
  BY <1>2
<1> HIDE DEF w, status, c
<1> QED BY <1>2, <1>3, <1>5, <1>6, <1>4, <1>7, <1>8, GivesUp

\* Sweeps over all records: stale and orphaned wakes, and a cancelled session.
LEMMA SweepingSteps ==
  ASSUME AutoInv, NEW h \in AutoHost,
         StartScheduler(h) \/ ReconcileOrphans(h) \/ CancelSession(h) \/ (ClaimDue(h) /\ Claimable = {})
  PROVE  AutoInv'
<1>1. /\ AutoTypes /\ HostSound(h) /\ host[h] \in HostRecords /\ history \in Nat
      /\ host \in [AutoHost -> HostRecords] /\ timers \in [Timer -> TimerRecords] /\ excused \subseteq Timer
      /\ \A t \in Timer : timers[t].due \in BOOLEAN /\ timers[t].fence \in Nat /\ timers[t].runs \in Nat
  BY InHand
<1>2. PICK c \in HostRecords :
        /\ host' = [host EXCEPT ![h] = c] /\ c.timer = NoTimer /\ c.next = NoTimer /\ c.fence = 0
        /\ c.at \in {"off", "poll", "claim"} /\ (c.kind = "scheduler" => c.at \in {"poll", "claim"})
  <2>1. CASE StartScheduler(h)
    <3> DEFINE c == [Away EXCEPT !.at = "poll", !.kind = "scheduler"]
    <3>1. host' = [host EXCEPT ![h] = c]
      BY <2>1 DEF StartScheduler
    <3>2. c \in HostRecords /\ c.timer = NoTimer /\ c.next = NoTimer /\ c.fence = 0 /\ c.at = "poll"
      BY DEF Away, HostRecords, HostPlaces
    <3> HIDE DEF c
    <3> QED BY <3>1, <3>2
  <2>2. CASE ReconcileOrphans(h)
    <3> DEFINE c == [host[h] EXCEPT !.at = "claim"]
    <3>1. host' = [host EXCEPT ![h] = c]
      BY <1>1, <2>2 DEF ReconcileOrphans, Moves
    <3>2. c \in HostRecords /\ c.timer = NoTimer /\ c.next = NoTimer /\ c.fence = 0 /\ c.at = "claim"
      BY <1>1, <2>2 DEF ReconcileOrphans, HostRecords, HostPlaces, HostSound, Placed
    <3> HIDE DEF c
    <3> QED BY <3>1, <3>2
  <2>3. CASE CancelSession(h)
    <3>1. /\ Away \in HostRecords /\ Away.timer = NoTimer /\ Away.next = NoTimer /\ Away.fence = 0
          /\ Away.at = "off" /\ Away.kind = "none"
      BY DEF Away, HostRecords, HostPlaces
    <3>2. host' = [host EXCEPT ![h] = Away]
      BY <2>3 DEF CancelSession
    <3> QED BY <3>1, <3>2
  <2>4. CASE ClaimDue(h) /\ Claimable = {}
    <3> DEFINE c == [host[h] EXCEPT !.at = "poll"]
    <3>1. host' = [host EXCEPT ![h] = c]
      BY <1>1, <2>4 DEF ClaimDue, Moves
    <3>2. c \in HostRecords /\ c.timer = NoTimer /\ c.next = NoTimer /\ c.fence = 0 /\ c.at = "poll"
      BY <1>1, <2>4 DEF ClaimDue, HostRecords, HostPlaces, HostSound, Placed
    <3> HIDE DEF c
    <3> QED BY <3>1, <3>2
  <2> QED BY <2>1, <2>2, <2>3, <2>4
<1>3. /\ UNCHANGED <<history, stalled, overlapped>>
      /\ excused \subseteq excused' /\ excused' \subseteq Timer
  BY <1>1 DEF StartScheduler, ReconcileOrphans, CancelSession, ClaimDue
<1>4. ASSUME NEW t \in Timer
      PROVE  /\ timers'[t] \in TimerRecords
             /\ timers'[t].fence = timers[t].fence /\ timers'[t].attempts = timers[t].attempts
             /\ timers'[t].runs = timers[t].runs
             /\ \/ timers'[t] = timers[t]
                \/ timers[t].status = "pending" /\ timers'[t].status = "expired"
                \/ timers[t].status = "claimed" /\ ~timers[t].leased /\ timers'[t].status = "pending"
                \/ timers'[t].status = "cancelled" /\ t \in excused'
  <2>1. timers[t] \in TimerRecords
    BY <1>1
  <2>2. CASE StartScheduler(h) \/ (ClaimDue(h) /\ Claimable = {})
    <3>1. timers'[t] = IF timers[t].status = "pending" /\ timers[t].stale
                         THEN [timers[t] EXCEPT !.status = "expired"] ELSE timers[t]
      BY <2>2 DEF StartScheduler, ClaimDue, Pending, Expires
    <3> QED BY <2>1, <3>1 DEF TimerRecords, Statuses
  <2>3. CASE ReconcileOrphans(h)
    <3>1. timers'[t] = IF timers[t].status = "claimed" /\ ~timers[t].leased
                         THEN [timers[t] EXCEPT !.status = "pending"] ELSE timers[t]
      BY <2>3 DEF ReconcileOrphans, Orphans
    <3> QED BY <2>1, <3>1 DEF TimerRecords, Statuses
  <2>4. CASE CancelSession(h)
    <3>1. timers'[t] = IF timers[t].status \in Unsettled
                         THEN [timers[t] EXCEPT !.status = "cancelled", !.leased = FALSE] ELSE timers[t]
      BY <2>4 DEF CancelSession
    <3>2. timers[t].status \in Unsettled => t \in excused'
      BY <2>4 DEF CancelSession
    <3> QED BY <2>1, <3>1, <3>2 DEF TimerRecords, Statuses
  <2> QED BY <2>2, <2>3, <2>4
<1>5. timers' \in [Timer -> TimerRecords]
  <2>1. timers' = [t \in Timer |-> timers'[t]]
    BY DEF StartScheduler, ReconcileOrphans, CancelSession, ClaimDue
  <2> QED BY <1>4, <2>1
<1>6. ASSUME NEW g \in AutoHost, NEW t \in Timer PROVE Mild(g, t)
  BY <1>1, <1>3, <1>4 DEF Mild
<1>7. ASSUME NEW t \in Timer PROVE Retires(t) /\ timers'[t].runs = timers[t].runs
  BY <1>4 DEF Retires
<1>8. c.at \notin {"check", "start", "cancelled", "failed", "wait", "mark", "handback"}
  BY <1>2
<1> QED BY <1>2, <1>3, <1>4, <1>5, <1>6, <1>7, <1>8, LetsGo

-----------------------------------------------------------------------------
\* An attached command stops waiting for its wake.
LEMMA WaitEndsStep ==
  ASSUME AutoInv, NEW h \in AutoHost, WaitEnds(h)
  PROVE  AutoInv'
<1>1. /\ AutoTypes /\ HostSound(h) /\ host[h] \in HostRecords /\ history \in Nat
      /\ host \in [AutoHost -> HostRecords] /\ timers \in [Timer -> TimerRecords] /\ excused \subseteq Timer
      /\ \A t \in Timer : timers[t].due \in BOOLEAN
  BY InHand
<1>2. host[h].at = "wait" /\ host[h].timer # NoTimer
  BY <1>1 DEF WaitEnds, HostSound, Placed
<1>3. /\ host[h].timer \in Timer /\ host[h].token \in Nat
      /\ Took(h, host[h].timer, host[h].token)
  BY <1>2, InHand
<1>4. UNCHANGED <<history, stalled, overlapped, excused>>
  BY DEF WaitEnds
<1>5. CASE host[h].abort = "none"
  <2> DEFINE c == [host[h] EXCEPT !.at = "check"]
  <2>1. host' = [host EXCEPT ![h] = c] /\ timers' = timers
    BY <1>1, <1>5 DEF WaitEnds, Moves
  <2>2. SameWakes(c, h) /\ c.at = "check" /\ c.fence = host[h].fence
    BY <1>1, PlaceIs DEF HostPlaces
  <2> HIDE DEF c
  <2>3. host'[h] = c
    BY <1>1, <2>1
  <2>4. HostSound(h)'
    BY <1>1, <1>2, <1>4, <2>1, <2>2, <2>3 DEF HostSound, Placed, Counted, Secured, Fenced, Turned,
       AtWork, Following, Attached, Holds, Safe, SameWakes
  <2> QED BY <1>1, <1>4, <2>1, <2>2, <2>4, PlacedStep
<1>6. CASE host[h].abort # "none"
  <2>1. Free(Away) /\ host' = [host EXCEPT ![h] = Away]
    BY <1>6 DEF WaitEnds, Free, Away, HostRecords, HostPlaces
  <2>2. CASE host[h].abort = "lost"
    <3>1. timers' = timers
      BY <1>6, <2>2 DEF WaitEnds
    <3> QED BY <1>1, <1>4, <2>1, <3>1, Unheld, LetsGo DEF Free
  <2>3. CASE host[h].abort # "lost"
    <3>1. timers' = Released(host[h].timer, host[h].token, "pending", timers[host[h].timer].due)
      BY <1>6, <2>3 DEF WaitEnds
    <3>2. timers[host[h].timer].due \in BOOLEAN
      BY <1>1, <1>3
    <3> QED BY <1>1, <1>3, <1>4, <2>1, <3>1, <3>2, GivesUp
  <2> QED BY <2>2, <2>3
<1> QED BY <1>5, <1>6

\* An attached command gives back the wake it armed.
LEMMA HandsBackStep ==
  ASSUME AutoInv, NEW h \in AutoHost, HandsBack(h)
  PROVE  AutoInv'
<1>1. /\ AutoTypes /\ HostSound(h) /\ host[h] \in HostRecords /\ history \in Nat
      /\ excused \subseteq Timer /\ \A t \in Timer : timers[t].due \in BOOLEAN
  BY InHand
<1>2. Following(h)
  BY <1>1 DEF HandsBack, HostSound, Placed
<1>3. /\ host[h].next \in Timer /\ host[h].nextToken \in Nat
      /\ Took(h, host[h].next, host[h].nextToken)
  BY <1>2, InHand DEF Following
<1> DEFINE c == IF host[h].abort = "cancel" THEN [Away EXCEPT !.at = "void", !.kind = "attached"] ELSE Away
           status == IF host[h].abort = "cancel" THEN "cancelled" ELSE "pending"
           due == timers[host[h].next].due
<1>4. /\ host' = [host EXCEPT ![h] = c] /\ UNCHANGED <<history, stalled, overlapped>>
      /\ timers' = Released(host[h].next, host[h].nextToken, status, due)
  BY DEF HandsBack
<1>5. Free(c) /\ status \in {"pending", "done", "cancelled"} /\ due \in BOOLEAN
  BY <1>1, <1>3 DEF Free, Away, HostRecords, HostPlaces
<1>6. /\ excused \subseteq excused' /\ excused' \subseteq Timer
      /\ status # "pending" => host[h].next \in excused'
  BY <1>1, <1>3 DEF HandsBack
<1> HIDE DEF c, status, due
<1> QED BY <1>3, <1>4, <1>5, <1>6, GivesUp

\* The wake that was armed is cancelled again.
LEMMA CheckpointFailsStep ==
  ASSUME AutoInv, NEW h \in AutoHost, CheckpointFails(h)
  PROVE  AutoInv'
<1>1. /\ AutoTypes /\ HostSound(h) /\ host[h] \in HostRecords /\ history \in Nat
      /\ host \in [AutoHost -> HostRecords] /\ timers \in [Timer -> TimerRecords] /\ excused \subseteq Timer
      /\ \A t \in Timer : timers[t].runs \in Nat
  BY InHand
<1>2. host[h].at = "mark" /\ host[h].next # NoTimer
  BY <1>1 DEF CheckpointFails, HostSound, Placed
<1>3. host[h].next \in Timer
  BY <1>2, InHand
<1> DEFINE w == host[h].next
           c == [host[h] EXCEPT !.at = "consumed", !.next = NoTimer]
           r == [timers[w] EXCEPT !.status = "cancelled", !.leased = FALSE]
<1>4. host' = [host EXCEPT ![h] = c] /\ UNCHANGED <<history, stalled, overlapped>>
  BY <1>1 DEF CheckpointFails
<1>5. /\ c \in HostRecords /\ c.at = "consumed" /\ c.next = NoTimer /\ c.timer = host[h].timer
      /\ c.token = host[h].token /\ c.kind = host[h].kind /\ c.fence = host[h].fence
  BY <1>1 DEF HostRecords, HostPlaces
<1>6. r \in TimerRecords /\ r.fence = timers[w].fence /\ r.runs = timers[w].runs
      /\ r.attempts = timers[w].attempts /\ r.status = "cancelled"
  <2>1. timers[w] \in TimerRecords
    BY <1>1, <1>3
  <2> QED BY <2>1 DEF TimerRecords, Statuses
<1>7. \/ timers' = timers /\ excused' = excused
      \/ timers' = [timers EXCEPT ![w] = r] /\ excused' = excused \cup {w}
  BY <1>1, <1>3 DEF CheckpointFails
<1> HIDE DEF c, r
<1>8. host'[h] = c
  BY <1>1, <1>4
<1>9. /\ timers' \in [Timer -> TimerRecords] /\ excused \subseteq excused' /\ excused' \subseteq Timer
      /\ \A t \in Timer : /\ timers'[t].fence = timers[t].fence /\ timers'[t].runs = timers[t].runs
                          /\ timers'[t].attempts = timers[t].attempts
                          /\ \/ timers'[t] = timers[t]
                             \/ timers'[t].status = "cancelled" /\ t \in excused'
  BY <1>1, <1>3, <1>6, <1>7
<1>10. ASSUME NEW g \in AutoHost, NEW t \in Timer PROVE Mild(g, t)
  BY <1>1, <1>9 DEF Mild
<1>11. ASSUME NEW t \in Timer PROVE Retires(t) /\ timers'[t].runs = timers[t].runs
  BY <1>9 DEF Retires
<1>12. HostSound(h)'
  <2>1. host[h].timer # NoTimer => host[h].timer \in Timer
    BY InHand
  <2>2. Placed(h)' /\ Counted(h)' /\ Fenced(h)'
    BY <1>1, <1>2, <1>4, <1>5, <1>8, <1>9, <2>1 DEF HostSound, Placed, Counted, Fenced, Following, Attached
  <2>3. Secured(h)'
    BY <1>1, <1>2, <1>4, <1>5, <1>8, <1>9, <2>1 DEF HostSound, Secured, AtWork, Following, Attached, Safe
  <2>4. Turned(h)'
    BY <1>1, <1>2, <1>4, <1>5, <1>8, <1>9, <2>1 DEF HostSound, Turned, Holds
  <2> QED BY <2>2, <2>3, <2>4 DEF HostSound
<1>13. \A t \in Timer, n \in Nat : Took(h, t, n)' => Took(h, t, n)
  BY <1>5, <1>8, AutoAssumption DEF Took
<1>14. OnDuty(h)' => OnDuty(h)
  <2>1. host[h].timer # NoTimer => host[h].timer \in Timer
    BY InHand
  <2> QED BY <1>5, <1>8, <1>9, <2>1 DEF OnDuty, Scheduling, Holds
<1> QED BY <1>4, <1>5, <1>9, <1>10, <1>11, <1>12, <1>13, <1>14, LettingGo

\* An attached command turns to the wake its first turn armed.
LEMMA AttachedBeginsStep ==
  ASSUME AutoInv, NEW h \in AutoHost, AttachedBegins(h)
  PROVE  AutoInv'
<1>1. /\ AutoTypes /\ HostSound(h) /\ host[h] \in HostRecords /\ history \in Nat
      /\ host \in [AutoHost -> HostRecords] /\ timers \in [Timer -> TimerRecords] /\ excused \subseteq Timer
      /\ \A t \in Timer : timers[t].due \in BOOLEAN
  BY InHand
<1>2. host[h].next # NoTimer =>
        /\ Following(h) /\ host[h].at = "done"
        /\ host[h].next \in Timer /\ host[h].nextToken \in Nat
        /\ Took(h, host[h].next, host[h].nextToken)
  BY <1>1, InHand DEF AttachedBegins, HostSound, Placed, Following
<1>3. UNCHANGED <<history, stalled, overlapped, excused>>
  BY DEF AttachedBegins
<1>4. CASE host[h].abort = "none"
  <2> DEFINE c == [Away EXCEPT !.at = "wait", !.kind = "attached", !.timer = host[h].next,
                               !.token = host[h].nextToken, !.fence = host[h].fence]
  <2>1. host' = [host EXCEPT ![h] = c] /\ timers' = timers /\ host[h].next # NoTimer
    BY <1>4 DEF AttachedBegins
  <2>2. /\ c \in HostRecords /\ c.at = "wait" /\ c.kind = "attached" /\ c.timer = host[h].next
        /\ c.token = host[h].nextToken /\ c.next = NoTimer /\ c.fence = host[h].fence
    BY <1>1 DEF Away, HostRecords, HostPlaces
  <2> HIDE DEF c
  <2>3. host'[h] = c
    BY <1>1, <2>1
  <2>4. HostSound(h)'
    BY <1>1, <1>2, <1>3, <2>1, <2>2, <2>3 DEF HostSound, Placed, Counted, Secured, Fenced, Turned,
       AtWork, Following, Attached, Holds, Safe
  <2>5. \A t \in Timer, n \in Nat : Took(h, t, n)' => Took(h, t, n)
    BY <2>2, <2>3, AutoAssumption DEF Took, AttachedBegins, Attached
  <2>6. ~OnDuty(h)'
    BY <2>2, <2>3 DEF OnDuty, Scheduling
  <2> QED BY <1>1, <1>3, <2>1, <2>2, <2>4, <2>5, <2>6, QuietHost
<1>5. CASE host[h].abort = "cancel"
  <2> DEFINE c == [Away EXCEPT !.at = "void", !.kind = "attached"]
  <2>1. host' = [host EXCEPT ![h] = c] /\ timers' = timers
    BY <1>5 DEF AttachedBegins
  <2>2. Free(c)
    BY DEF Free, Away, HostRecords, HostPlaces
  <2> HIDE DEF c
  <2> QED BY <1>1, <1>3, <2>1, <2>2, Unheld, LetsGo DEF Free
<1>6. CASE host[h].abort \notin {"none", "cancel"}
  <2>1. /\ host' = [host EXCEPT ![h] = Away] /\ host[h].next # NoTimer
        /\ timers' = Released(host[h].next, host[h].nextToken, "pending", timers[host[h].next].due)
    BY <1>6 DEF AttachedBegins
  <2>2. Free(Away)
    BY DEF Free, Away, HostRecords, HostPlaces
  <2>3. timers[host[h].next].due \in BOOLEAN
    BY <1>1, <1>2, <2>1
  <2> QED BY <1>1, <1>2, <1>3, <2>1, <2>2, <2>3, GivesUp
<1> QED BY <1>4, <1>5, <1>6

\* A host that gives its wake back and keeps the one it armed.
LEMMA GoesOnWith ==
  ASSUME AutoInv, NEW h \in AutoHost, Attached(h), AtWork(h), Following(h), host[h].at = "done",
         NEW c \in HostRecords, host' = [host EXCEPT ![h] = c], c.fence = host[h].fence,
         c.kind = "attached",
         \/ /\ c.at = "wait" /\ c.timer = host[h].next /\ c.token = host[h].nextToken /\ c.next = NoTimer
         \/ /\ c.at = "handback" /\ c.timer = host[h].timer /\ c.token = host[h].token
            /\ c.next = host[h].next /\ c.nextToken = host[h].nextToken,
         UNCHANGED <<history, stalled, overlapped>>, excused \subseteq excused', excused' \subseteq Timer,
         NEW status \in {"pending", "done", "cancelled"},
         timers' = Released(host[h].timer, host[h].token, status, timers[host[h].timer].due),
         status # "pending" /\ Holds(host[h].timer, host[h].token) /\ ~overlapped
           /\ timers[host[h].timer].runs = 0
           => timers[host[h].timer].fence < history \/ host[h].timer \in excused'
  PROVE  AutoInv'
<1>1. /\ AutoTypes /\ HostSound(h) /\ host[h] \in HostRecords /\ history \in Nat
      /\ host \in [AutoHost -> HostRecords] /\ timers \in [Timer -> TimerRecords]
      /\ \A t \in Timer : timers[t].due \in BOOLEAN
  BY InHand
<1>2. /\ host[h].timer \in Timer /\ host[h].token \in Nat /\ Took(h, host[h].timer, host[h].token)
      /\ host[h].next \in Timer /\ host[h].nextToken \in Nat /\ Took(h, host[h].next, host[h].nextToken)
  BY InHand DEF AtWork, Following
<1> DEFINE w == host[h].timer
           u == host[h].next
           due == timers[w].due
<1>3. /\ timers' \in [Timer -> TimerRecords]
      /\ \A g \in AutoHost, t \in Timer : g # h => Mild(g, t)
      /\ \A t \in Timer : /\ timers'[t].fence = timers[t].fence
                          /\ timers'[t].runs = timers[t].runs
                          /\ timers'[t].attempts = timers[t].attempts
                          /\ t # w => timers'[t] = timers[t]
      /\ \/ timers'[w] = timers[w]
         \/ Holds(w, host[h].token) /\ timers'[w].status = status
  <2>1. w \in Timer /\ Took(h, w, host[h].token) /\ due \in BOOLEAN
        /\ timers' = Released(w, host[h].token, status, due)
    BY <1>1, <1>2
  <2> HIDE DEF w, due
  <2> QED BY <1>1, <1>2, <2>1, GivenBack
<1>4. ASSUME NEW t \in Timer PROVE Retires(t) /\ timers'[t].runs = timers[t].runs
  BY <1>3 DEF Retires
<1>5. host'[h] = c
  BY <1>1
<1>6. ~stalled => w # u
  BY <1>1, <1>2 DEF HostSound, Counted, Secured, Safe
<1>7. \A t \in Timer, n \in Nat : ~stalled /\ t = u /\ n = host[h].nextToken => Safe(t, n)'
  <2>1. ~stalled => Safe(u, host[h].nextToken) /\ timers'[u] = timers[u]
    BY <1>1, <1>2, <1>3, <1>6 DEF HostSound, Secured
  <2> QED BY <2>1 DEF Safe
<1>8. \A t \in Timer, n \in Nat :
        t = u /\ n = host[h].nextToken /\ (~stalled \/ Holds(t, n)') => host[h].fence = timers'[t].fence
  <2>1. (timers'[u].status = "claimed" /\ timers'[u].attempts = host[h].nextToken)
           => Holds(u, host[h].nextToken)
    BY <1>1, <1>2, <1>3 DEF Holds, HostSound, Counted
  <2>2. ~stalled \/ Holds(u, host[h].nextToken) => host[h].fence = timers[u].fence
    BY <1>1 DEF HostSound, Fenced
  <2> QED BY <1>2, <1>3, <2>1, <2>2 DEF Holds
<1>9. HostSound(h)'
  <2>1. Placed(h)'
    BY <1>2, <1>5, AutoAssumption DEF Placed, Following, Attached
  <2>2. Counted(h)'
    BY <1>1, <1>2, <1>3, <1>5 DEF HostSound, Counted, Following, Attached
  <2>3. Secured(h)'
    <3>1. ~stalled' => /\ timers'[u].attempts = host[h].nextToken
                       /\ \/ timers'[u].status = "claimed" /\ timers'[u].leased
                          \/ timers'[u].status = "cancelled"
      BY <1>2, <1>7 DEF Safe
    <3>2. CASE c.at = "wait"
      BY <1>5, <3>1, <3>2 DEF Secured, AtWork, Following, Attached, Safe
    <3>3. CASE c.at = "handback"
      BY <1>5, <3>1, <3>3 DEF Secured, AtWork, Following, Attached, Safe
    <3> QED BY <3>2, <3>3
  <2>4. Fenced(h)'
    <3>1. c.at = "wait" /\ (~stalled' \/ Holds(host[h].timer, host[h].token)')
            => c.fence = timers'[c.timer].fence
      BY <1>2, <1>5, <1>8 DEF Holds
    <3>2. ~overlapped' => c.fence <= history'
      BY <1>1 DEF HostSound, Fenced
    <3> QED BY <1>5, <3>1, <3>2 DEF Fenced, Holds
  <2>5. Turned(h)'
    BY <1>5 DEF Turned
  <2> QED BY <2>1, <2>2, <2>3, <2>4, <2>5 DEF HostSound
<1>10. \A t \in Timer, n \in Nat : Took(h, t, n)' => Took(h, t, n)
  BY <1>5, AutoAssumption DEF Took, Attached
<1>11. ~OnDuty(h)'
  BY <1>5 DEF OnDuty, Scheduling
<1>12. \A t \in Timer : timers'[t].fence = timers[t].fence
  BY <1>3
<1> HIDE DEF w, u, due
<1> QED BY <1>3, <1>4, <1>9, <1>10, <1>11, <1>12, LettingGo

\* An attached command releases its claim, and may go on with the next wake.
LEMMA AttachedSettlesStep ==
  ASSUME AutoInv, NEW h \in AutoHost, AttachedSettles(h)
  PROVE  AutoInv'
<1>1. /\ AutoTypes /\ HostSound(h) /\ host[h] \in HostRecords /\ history \in Nat
      /\ host \in [AutoHost -> HostRecords] /\ timers \in [Timer -> TimerRecords] /\ excused \subseteq Timer
      /\ \A t \in Timer : timers[t].due \in BOOLEAN
  BY InHand
<1> DEFINE w == host[h].timer
           status == AttachedOutcome(h)
           due == timers[w].due
           kept == [Away EXCEPT !.at = "wait", !.kind = "attached", !.timer = host[h].next,
                                !.token = host[h].nextToken, !.fence = host[h].fence]
           back == [host[h] EXCEPT !.at = "handback"]
           free == IF host[h].abort = "cancel" THEN [Away EXCEPT !.at = "void", !.kind = "attached"]
                   ELSE Away
<1>2. /\ Attached(h) /\ w # NoTimer /\ w \in Timer /\ host[h].token \in Nat
      /\ Took(h, w, host[h].token) /\ AtWork(h) /\ due \in BOOLEAN
      /\ host[h].at \in {"done", "cancelled", "consumed", "failed"}
  BY <1>1, InHand DEF AttachedSettles, AtWork
<1>3. /\ UNCHANGED <<history, stalled, overlapped>>
      /\ excused \subseteq excused' /\ excused' \subseteq Timer
      /\ host[h].abort = "cancel" => w \in excused'
      /\ timers' = Released(w, host[h].token, status, due)
  BY <1>1, <1>2 DEF AttachedSettles
<1>4. status \in {"pending", "done", "cancelled"}
  BY <1>2 DEF AttachedOutcome
<1>5. status # "pending" /\ Holds(w, host[h].token) /\ ~overlapped /\ timers[w].runs = 0
        => timers[w].fence < history \/ w \in excused'
  <2> SUFFICES ASSUME status # "pending", Holds(w, host[h].token), ~overlapped, timers[w].runs = 0,
                      host[h].abort # "cancel"
               PROVE  timers[w].fence < history \/ w \in excused'
    BY <1>3
  <2>1. host[h].at \in {"done", "consumed", "cancelled"}
    BY <1>1, <1>2 DEF AttachedOutcome, HostRecords
  <2>2. CASE host[h].at \in {"done", "consumed"}
    BY <1>1, <1>2, <1>3, <2>2 DEF HostSound, Turned
  <2>3. CASE host[h].at = "cancelled"
    BY <1>1, <2>3 DEF HostSound, Fenced
  <2> QED BY <2>1, <2>2, <2>3
<1>6. CASE ParksAgain(h)
  <2>1. host' = [host EXCEPT ![h] = kept] /\ Following(h) /\ host[h].at = "done"
    BY <1>2, <1>6 DEF AttachedSettles, ParksAgain, Following
  <2>2. /\ kept \in HostRecords /\ kept.at = "wait" /\ kept.kind = "attached"
        /\ kept.timer = host[h].next /\ kept.token = host[h].nextToken /\ kept.next = NoTimer
        /\ kept.fence = host[h].fence
    BY <1>1 DEF Away, HostRecords, HostPlaces
  <2> HIDE DEF kept, status
  <2> QED BY <1>2, <1>3, <1>4, <1>5, <2>1, <2>2, GoesOnWith
<1>7. CASE ~ParksAgain(h) /\ host[h].abort \in {"cancel", "leave"} /\ host[h].at = "done"
           /\ host[h].next # NoTimer
  <2>1. host' = [host EXCEPT ![h] = back] /\ Following(h)
    BY <1>2, <1>7 DEF AttachedSettles, Following
  <2>2. SameWakes(back, h) /\ back.at = "handback" /\ back.fence = host[h].fence
    BY <1>1, PlaceIs DEF HostPlaces
  <2>3. back \in HostRecords /\ back.kind = "attached"
    BY <1>2, <2>2 DEF SameWakes, Attached
  <2> HIDE DEF back, status
  <2> QED BY <1>2, <1>3, <1>4, <1>5, <1>7, <2>1, <2>2, <2>3, GoesOnWith DEF SameWakes
<1>8. CASE ~ParksAgain(h) /\ ~(host[h].abort \in {"cancel", "leave"} /\ host[h].at = "done"
                               /\ host[h].next # NoTimer)
  <2>1. host' = [host EXCEPT ![h] = free]
    BY <1>8 DEF AttachedSettles
  <2>2. Free(free)
    BY DEF Free, Away, HostRecords, HostPlaces
  <2> HIDE DEF free, status, w, due
  <2> QED BY <1>2, <1>3, <1>4, <1>5, <2>1, <2>2, GivesUp
<1> QED BY <1>6, <1>7, <1>8

-----------------------------------------------------------------------------
\* A turn is saved.
LEMMA TurnSteps ==
  ASSUME AutoInv, NEW h \in AutoHost, TurnEnds(h) \/ TurnFails(h)
  PROVE  AutoInv'
<1>1. /\ AutoTypes /\ HostSound(h) /\ host[h] \in HostRecords /\ history \in Nat
      /\ host \in [AutoHost -> HostRecords] /\ timers \in [Timer -> TimerRecords] /\ excused \subseteq Timer
      /\ \A t \in Timer : timers[t].fence \in Nat /\ timers[t].runs \in Nat
  BY InHand
<1> DEFINE w == host[h].timer
           r == [timers[w] EXCEPT !.runs = @ + 1]
<1>2. w # NoTimer => w \in Timer /\ Took(h, w, host[h].token)
  BY InHand
<1>3. PICK c : /\ host' = [host EXCEPT ![h] = c] /\ SameWakes(c, h) /\ c.fence = host[h].fence
               /\ c.at \in {"read", "done", "consumed"}
  <2>1. \A a \in {"read", "done", "consumed"} : Moves(h, a) =>
          LET c == [host[h] EXCEPT !.at = a]
          IN  host' = [host EXCEPT ![h] = c] /\ SameWakes(c, h) /\ c.fence = host[h].fence /\ c.at = a
    <3> TAKE a \in {"read", "done", "consumed"}
    <3>1. a \in HostPlaces
      BY DEF HostPlaces
    <3> QED BY <1>1, <3>1, PlaceIs DEF Moves
  <2>2. \E a \in {"read", "done", "consumed"} : Moves(h, a)
    BY DEF TurnEnds, TurnFails
  <2> QED BY <2>1, <2>2
<1>4. host[h].at = "turn" /\ Saves(h) /\ stalled' = stalled /\ excused' = excused
  BY DEF TurnEnds, TurnFails
<1>5. /\ history' \in Nat /\ overlapped' \in BOOLEAN /\ (overlapped => overlapped')
      /\ ~overlapped' => ~overlapped /\ history = host[h].fence /\ history' = history + 1
  <2>1. overlapped' = (overlapped \/ history # host[h].fence)
    BY <1>4 DEF Saves
  <2>2. overlapped' \in BOOLEAN
    BY <2>1
  <2>3. overlapped' <=> overlapped \/ history # host[h].fence
    BY <2>1
  <2>4. host[h].fence \in Nat /\ (history' = host[h].fence + 1 \/ (history # host[h].fence /\ history' = history + 1))
    BY <1>1, <1>4 DEF Saves, HostRecords
  <2> QED BY <1>1, <2>2, <2>3, <2>4
<1>6. /\ timers' \in [Timer -> TimerRecords]
      /\ \A t \in Timer : /\ t # w => timers'[t] = timers[t]
                          /\ t = w => /\ timers'[t].runs = timers[t].runs + 1
                                      /\ timers'[t].fence = timers[t].fence
                                      /\ timers'[t].attempts = timers[t].attempts
                                      /\ timers'[t].status = timers[t].status
                                      /\ timers'[t].leased = timers[t].leased
  <2>1. CASE w = NoTimer
    BY <1>1, <1>4, <2>1, AutoAssumption DEF Saves
  <2>2. CASE w # NoTimer
    <3>1. timers' = [timers EXCEPT ![w] = r]
      BY <1>1, <1>2, <1>4, <2>2 DEF Saves
    <3>2. /\ r \in TimerRecords /\ r.runs = timers[w].runs + 1 /\ r.fence = timers[w].fence
          /\ r.attempts = timers[w].attempts /\ r.status = timers[w].status
          /\ r.leased = timers[w].leased
      <4>1. timers[w] \in TimerRecords
        BY <1>1, <1>2, <2>2
      <4> QED BY <4>1 DEF TimerRecords
    <3> HIDE DEF r
    <3> QED BY <1>1, <3>1, <3>2
  <2> QED BY <2>1, <2>2
<1>7. host'[h] = c /\ c.at # "handback"
  BY <1>1, <1>3
<1>8. AutoTypes'
  BY <1>1, <1>3, <1>4, <1>5, <1>6 DEF AutoTypes, SameWakes
<1>9. ASSUME NEW g \in AutoHost, g # h PROVE host'[g] = host[g] /\ Sees(g)
  <2>1. host'[g] = host[g]
    BY <1>1, <1>3, <1>9
  <2>2. ASSUME NEW t \in Timer PROVE Mild(g, t)
    <3>1. CASE t # w
      BY <1>1, <1>4, <1>6, <3>1 DEF Mild
    <3>2. CASE t = w
      <4>1. w # NoTimer
        BY <3>2, AutoAssumption
      <4>2. ~stalled => Took(h, t, timers[t].attempts)
        BY <1>1, <1>2, <1>4, <3>2, <4>1 DEF HostSound, Secured, AtWork, Safe
      <4>3. stalled' \/ OfAnother(g, t)
        BY <1>4, <1>9, <4>2 DEF OfAnother, AutoTypes
      <4>4. timers'[t].runs >= timers[t].runs
        BY <1>1, <1>6, <3>2
      <4> QED BY <1>4, <1>6, <3>2, <4>3, <4>4 DEF Mild
    <3> QED BY <3>1, <3>2
  <2> QED BY <1>4, <1>8, <2>1, <2>2, MildlySeen
<1>10. HostSound(h)'
  <2>1. Placed(h)' /\ Counted(h)' /\ Secured(h)'
    BY <1>1, <1>2, <1>3, <1>4, <1>6, <1>7 DEF HostSound, Placed, Counted, Secured, AtWork, Following,
       Attached, Safe, SameWakes
  <2>2. Fenced(h)'
    <3>1. ~Following(h)'
      BY <1>1, <1>3, <1>4, <1>7 DEF HostSound, Placed, Following, SameWakes
    <3>2. ~overlapped' => c.fence <= history'
      BY <1>1, <1>3, <1>5
    <3> QED BY <1>3, <1>7, <3>1, <3>2 DEF Fenced
  <2>3. Turned(h)'
    BY <1>1, <1>2, <1>3, <1>6, <1>7 DEF Turned, SameWakes
  <2> QED BY <2>1, <2>2, <2>3 DEF HostSound
<1>11. ASSUME NEW t \in Timer PROVE TimerSound(t)'
  <2>1. TimerSound(t)
    BY DEF AutoInv
  <2>2. t = w /\ ~stalled /\ ~overlapped => timers[t].runs = 0
    BY <1>1, <1>4, AutoAssumption DEF HostSound, Turned
  <2>3. /\ timers[t].fence \in Nat /\ timers[t].runs \in Nat /\ timers'[t].fence = timers[t].fence
        /\ timers'[t].status = timers[t].status
        /\ t # w => timers'[t].runs = timers[t].runs
        /\ t = w => timers'[t].runs = timers[t].runs + 1
    BY <1>1, <1>6
  <2> QED BY <1>1, <1>4, <1>5, <2>1, <2>2, <2>3 DEF TimerSound
<1>12. \A t \in Timer, n \in Nat : Took(h, t, n)' => Took(h, t, n) \/ n > timers[t].attempts
  BY <1>3, <1>7 DEF Took, Attached, SameWakes
<1>13. OnDuty(h)' => OnDuty(h)
  BY <1>2, <1>3, <1>6, <1>7 DEF OnDuty, Scheduling, Holds, SameWakes
<1>14. ~overlapped' => history' >= history
  BY <1>1, <1>5
<1> QED BY <1>4, <1>5, <1>8, <1>9, <1>10, <1>11, <1>12, <1>13, <1>14, HostMoves

\* A scheduler claims a wake that is due.
LEMMA ClaimStep ==
  ASSUME AutoInv, NEW h \in AutoHost, ClaimDue(h), Claimable # {}
  PROVE  AutoInv'
<1>1. /\ AutoTypes /\ HostSound(h) /\ host[h] \in HostRecords /\ history \in Nat
      /\ host \in [AutoHost -> HostRecords] /\ timers \in [Timer -> TimerRecords] /\ excused \subseteq Timer
      /\ \A t \in Timer : timers[t].runs \in Nat
  BY InHand
<1>2. /\ host[h].at = "claim" /\ host[h].next = NoTimer /\ host[h].timer = NoTimer
      /\ UNCHANGED <<history, stalled, overlapped, excused>>
  BY <1>1 DEF ClaimDue, HostSound, Placed
<1>3. PICK w \in Claimable :
        /\ timers' = [t \in Timer |-> IF t = w THEN Leased(timers[t])
                                      ELSE IF Expires(t) THEN [timers[t] EXCEPT !.status = "expired"]
                                      ELSE timers[t]]
        /\ host' = [host EXCEPT ![h].at = "check", ![h].timer = w,
                                ![h].token = timers[w].attempts + 1, ![h].fence = timers[w].fence]
  BY DEF ClaimDue
<1>4. w \in Timer /\ timers[w].status = "pending" /\ OfSession = {}
  BY <1>3 DEF Claimable, Pending
<1> DEFINE c == [host[h] EXCEPT !.at = "check", !.timer = w, !.token = timers[w].attempts + 1,
                                !.fence = timers[w].fence]
<1>5. host' = [host EXCEPT ![h] = c]
  BY <1>1, <1>3
<1>6. timers[w] \in TimerRecords /\ timers[w].attempts \in Nat /\ timers[w].fence \in Nat
  <2>1. timers[w] \in TimerRecords
    BY <1>1, <1>4
  <2> QED BY <2>1 DEF TimerRecords
<1>7. /\ c \in HostRecords /\ c.at = "check" /\ c.timer = w /\ c.token = timers[w].attempts + 1
      /\ c.fence = timers[w].fence /\ c.next = NoTimer /\ c.kind = host[h].kind
  <2> DEFINE n == timers[w].attempts + 1
             f == timers[w].fence
  <2>1. n \in Nat /\ f \in Nat /\ w \in Timer
    BY <1>4, <1>6
  <2>2. c = [host[h] EXCEPT !.at = "check", !.timer = w, !.token = n, !.fence = f]
    OBVIOUS
  <2> HIDE DEF n, f
  <2>3. /\ c \in HostRecords /\ c.at = "check" /\ c.timer = w /\ c.token = n
        /\ c.fence = f /\ c.next = host[h].next /\ c.kind = host[h].kind
    BY <1>1, <2>1, <2>2 DEF HostRecords, HostPlaces
  <2> QED BY <1>2, <2>3 DEF n, f
<1> HIDE DEF c
<1>8. host'[h] = c
  BY <1>1, <1>5
<1>9. /\ timers'[w] \in TimerRecords /\ timers'[w].status = "claimed" /\ timers'[w].leased
      /\ timers'[w].attempts = timers[w].attempts + 1 /\ timers'[w].fence = timers[w].fence
      /\ timers'[w].runs = timers[w].runs
  <2>1. timers'[w] = [timers[w] EXCEPT !.status = "claimed", !.leased = TRUE, !.attempts = @ + 1]
    BY <1>3, <1>4 DEF Leased
  <2> DEFINE n == timers[w].attempts + 1
  <2>2. n \in Nat /\ timers'[w] = [timers[w] EXCEPT !.status = "claimed", !.leased = TRUE, !.attempts = n]
    BY <1>6, <2>1 DEF TimerRecords
  <2> HIDE DEF n
  <2>3. /\ timers'[w] \in TimerRecords /\ timers'[w].status = "claimed" /\ timers'[w].leased
        /\ timers'[w].attempts = n /\ timers'[w].fence = timers[w].fence
        /\ timers'[w].runs = timers[w].runs
    BY <1>6, <2>2 DEF TimerRecords, Statuses
  <2> QED BY <2>3 DEF n
<1>10. ASSUME NEW t \in Timer, t # w
       PROVE  /\ timers'[t] \in TimerRecords
              /\ timers'[t].attempts = timers[t].attempts /\ timers'[t].fence = timers[t].fence
              /\ timers'[t].runs = timers[t].runs
              /\ \/ timers'[t] = timers[t]
                 \/ timers[t].status = "pending" /\ timers'[t].status = "expired"
  <2>1. timers'[t] = IF timers[t].status = "pending" /\ timers[t].stale
                       THEN [timers[t] EXCEPT !.status = "expired"] ELSE timers[t]
    BY <1>3, <1>10 DEF Expires, Pending
  <2>2. timers[t] \in TimerRecords
    BY <1>1
  <2> QED BY <2>1, <2>2 DEF TimerRecords, Statuses
<1>11. AutoTypes'
  <2>1. timers' = [t \in Timer |-> timers'[t]]
    BY <1>3
  <2>2. timers' \in [Timer -> TimerRecords]
    BY <1>9, <1>10, <2>1
  <2> QED BY <1>1, <1>2, <1>5, <1>7, <2>2 DEF AutoTypes
<1>12. ASSUME NEW g \in AutoHost, g # h PROVE host'[g] = host[g] /\ Sees(g)
  <2>1. host'[g] = host[g]
    BY <1>1, <1>5, <1>12
  <2>2. ASSUME NEW t \in Timer PROVE Mild(g, t) \/ Fresh(t)
    <3>1. CASE t = w
      BY <1>4, <1>6, <1>9, <3>1 DEF Fresh, TimerRecords
    <3>2. CASE t # w
      BY <1>1, <1>2, <1>10, <3>2 DEF Mild
    <3> QED BY <3>1, <3>2
  <2> QED BY <1>2, <1>11, <2>1, <2>2, MildlySeen
<1>13. ASSUME NEW g \in AutoHost, OnDuty(g) PROVE stalled
  <2>1. HostSound(g) /\ host[g].timer # NoTimer /\ Scheduling(g) /\ host[g].timer \in Timer
    BY <1>13, InHand DEF AutoInv, OnDuty
  <2>2. AtWork(g)
    BY <2>1 DEF HostSound, Placed, AtWork, Following, Attached, Scheduling
  <2> QED BY <1>4, <2>1, <2>2 DEF HostSound, Secured, Safe, Scheduling, Holds, OfSession
<1>14. HostSound(h)'
  <2>1. TimerSound(w)
    BY <1>4 DEF AutoInv
  <2>2. Placed(h)'
    BY <1>4, <1>7, <1>8, AutoAssumption DEF Placed, Following
  <2>3. Counted(h)'
    BY <1>6, <1>7, <1>8, <1>9 DEF Counted, Following
  <2>4. Secured(h)'
    BY <1>7, <1>8, <1>9 DEF Secured, Safe, Following
  <2>5. Fenced(h)'
    BY <1>2, <1>7, <1>8, <1>9, <2>1 DEF Fenced, Following, TimerSound
  <2>6. Turned(h)'
    BY <1>7, <1>8 DEF Turned
  <2> QED BY <2>2, <2>3, <2>4, <2>5, <2>6 DEF HostSound
<1>15. ASSUME NEW t \in Timer PROVE TimerSound(t)'
  <2>1. TimerSound(t)
    BY DEF AutoInv
  <2>2. CASE t = w
    BY <1>2, <1>9, <2>1, <2>2 DEF TimerSound
  <2>3. CASE t # w
    BY <1>2, <1>10, <2>1, <2>3 DEF TimerSound
  <2> QED BY <2>2, <2>3
<1>16. \A t \in Timer, n \in Nat : Took(h, t, n)' => Took(h, t, n) \/ n > timers[t].attempts
  BY <1>6, <1>7, <1>8, AutoAssumption DEF Took, TimerRecords
<1>17. history' >= history
  BY <1>1, <1>2
<1>18. OnDuty(h)' /\ ~stalled' => OnDuty(h) \/ \A g \in AutoHost : g # h => ~OnDuty(g)
  BY <1>2, <1>13
<1> QED BY <1>2, <1>11, <1>12, <1>14, <1>15, <1>16, <1>17, <1>18, HostMoves

\* A wake is armed, and claimed if the command is attached.
LEMMA ScheduleStep ==
  ASSUME AutoInv, NEW h \in AutoHost, Schedule(h)
  PROVE  AutoInv'
<1>1. /\ AutoTypes /\ HostSound(h) /\ host[h] \in HostRecords /\ history \in Nat
      /\ host \in [AutoHost -> HostRecords] /\ timers \in [Timer -> TimerRecords] /\ excused \subseteq Timer
      /\ \A t \in Timer : timers[t].runs \in Nat
  BY InHand
<1>2. /\ host[h].at = "arm" /\ host[h].next = NoTimer
      /\ UNCHANGED <<history, stalled, overlapped>>
  BY <1>1 DEF Schedule, HostSound, Placed
<1>3. PICK w \in Slots :
        /\ timers' = [timers EXCEPT ![w] =
             LET armed == [@ EXCEPT !.status = "pending", !.fence = host[h].fence, !.runs = 0,
                                    !.due = FALSE, !.stale = FALSE]
             IN  IF Attached(h) THEN Leased(armed) ELSE armed]
        /\ host' = [host EXCEPT ![h].at = "mark", ![h].next = w,
                                ![h].nextToken = timers[w].attempts + 1]
        /\ excused' = excused \ {w}
  BY DEF Schedule
<1>4. w \in Timer /\ timers[w].status \in {"pending", "none"}
  <2>1. CASE Pending # {}
    BY <1>3, <2>1 DEF Slots, Pending
  <2>2. CASE Pending = {} /\ Unused # {}
    <3>1. (CHOOSE t \in Unused : TRUE) \in Unused
      BY <2>2
    <3> QED BY <1>3, <2>2, <3>1 DEF Slots, Unused
  <2> QED BY <1>3, <2>1, <2>2 DEF Slots
<1>5. timers[w] \in TimerRecords /\ timers[w].attempts \in Nat
  <2>1. timers[w] \in TimerRecords
    BY <1>1, <1>4
  <2> QED BY <2>1 DEF TimerRecords
<1> DEFINE c == [host[h] EXCEPT !.at = "mark", !.next = w, !.nextToken = timers[w].attempts + 1]
           armed == [timers[w] EXCEPT !.status = "pending", !.fence = host[h].fence, !.runs = 0,
                                      !.due = FALSE, !.stale = FALSE]
           r == IF Attached(h) THEN Leased(armed) ELSE armed
<1>6. host' = [host EXCEPT ![h] = c] /\ timers' = [timers EXCEPT ![w] = r]
  BY <1>1, <1>3
<1>7. /\ c \in HostRecords /\ c.at = "mark" /\ c.next = w /\ c.nextToken = timers[w].attempts + 1
      /\ c.fence = host[h].fence /\ c.timer = host[h].timer /\ c.token = host[h].token
      /\ c.kind = host[h].kind
  <2> DEFINE n == timers[w].attempts + 1
  <2>1. n \in Nat /\ w \in Timer
    BY <1>4, <1>5
  <2>2. c = [host[h] EXCEPT !.at = "mark", !.next = w, !.nextToken = n]
    OBVIOUS
  <2> HIDE DEF n
  <2>3. /\ c \in HostRecords /\ c.at = "mark" /\ c.next = w /\ c.nextToken = n
        /\ c.fence = host[h].fence /\ c.timer = host[h].timer /\ c.token = host[h].token
        /\ c.kind = host[h].kind
    BY <1>1, <2>1, <2>2 DEF HostRecords, HostPlaces
  <2> QED BY <2>3 DEF n
<1>8. /\ armed \in TimerRecords /\ armed.status = "pending" /\ armed.fence = host[h].fence
      /\ armed.runs = 0 /\ armed.attempts = timers[w].attempts
  BY <1>1, <1>5 DEF HostRecords, TimerRecords, Statuses
<1> HIDE DEF c, armed
<1>9. /\ r \in TimerRecords /\ r.fence = host[h].fence /\ r.runs = 0
      /\ r.status \notin {"done", "cancelled"}
      /\ r.attempts >= timers[w].attempts
      /\ (Attached(h) => r.status = "claimed" /\ r.leased /\ r.attempts = timers[w].attempts + 1)
      /\ (~Attached(h) => r.status = "pending")
      /\ (r.status = "claimed" => r.attempts > timers[w].attempts)
  <2>1. timers[w].attempts \in Nat
    BY <1>5 DEF TimerRecords
  <2>2. CASE Attached(h)
    <3>1. r = [armed EXCEPT !.status = "claimed", !.leased = TRUE, !.attempts = @ + 1]
      BY <2>2 DEF Leased
    <3> DEFINE n == timers[w].attempts + 1
    <3>2. n \in Nat /\ n > timers[w].attempts
          /\ r = [armed EXCEPT !.status = "claimed", !.leased = TRUE, !.attempts = n]
      BY <1>8, <2>1, <3>1 DEF TimerRecords
    <3> HIDE DEF r, n
    <3>3. /\ r \in TimerRecords /\ r.fence = host[h].fence /\ r.runs = 0 /\ r.status = "claimed"
          /\ r.leased /\ r.attempts = n
      BY <1>8, <3>2 DEF TimerRecords, Statuses
    <3> QED BY <2>1, <2>2, <3>2, <3>3 DEF n
  <2>3. CASE ~Attached(h)
    BY <1>8, <2>1, <2>3
  <2> QED BY <2>2, <2>3
<1> HIDE DEF r
<1>10. /\ host'[h] = c /\ timers'[w] = r /\ \A t \in Timer : t # w => timers'[t] = timers[t]
  BY <1>1, <1>4, <1>6
<1>11. AutoTypes'
  <2>1. timers' \in [Timer -> TimerRecords] /\ host' \in [AutoHost -> HostRecords]
    BY <1>1, <1>6, <1>7, <1>9
  <2>2. history' \in Nat /\ {stalled', overlapped'} \subseteq BOOLEAN /\ excused' \subseteq Timer
    BY <1>1, <1>2, <1>3 DEF AutoTypes
  <2> QED BY <2>1, <2>2 DEF AutoTypes
<1>12. ASSUME NEW g \in AutoHost, g # h PROVE host'[g] = host[g] /\ Sees(g)
  <2>1. host'[g] = host[g]
    BY <1>1, <1>6, <1>12
  <2>2. ASSUME NEW t \in Timer PROVE Mild(g, t) \/ Fresh(t)
    <3>1. CASE t = w
      BY <1>4, <1>9, <1>10, <3>1 DEF Fresh
    <3>2. CASE t # w
      BY <1>1, <1>2, <1>3, <1>10, <3>2 DEF Mild
    <3> QED BY <3>1, <3>2
  <2> QED BY <1>2, <1>11, <2>1, <2>2, MildlySeen
<1>13. host[h].timer # NoTimer =>
         /\ host[h].timer \in Timer /\ host[h].token \in Nat /\ host[h].token <= timers[host[h].timer].attempts
         /\ (host[h].timer = w /\ r.status = "claimed" => r.attempts # host[h].token)
         /\ ~stalled => host[h].timer # w
  <2> SUFFICES ASSUME host[h].timer # NoTimer
               PROVE  /\ host[h].timer \in Timer /\ host[h].token \in Nat
                      /\ host[h].token <= timers[host[h].timer].attempts
                      /\ (host[h].timer = w /\ r.status = "claimed" => r.attempts # host[h].token)
                      /\ ~stalled => host[h].timer # w
    OBVIOUS
  <2>1. host[h].timer \in Timer /\ host[h].token \in Nat
    BY InHand
  <2>2. timers[host[h].timer].attempts \in Nat /\ host[h].token <= timers[host[h].timer].attempts
    BY <1>1, <2>1 DEF HostSound, Counted, TimerRecords
  <2>3. host[h].timer = w /\ r.status = "claimed" => r.attempts # host[h].token
    BY <1>9, <2>1, <2>2 DEF TimerRecords
  <2>4. ~stalled => host[h].timer # w
    BY <1>1, <1>2, <1>4 DEF HostSound, Secured, AtWork, Safe
  <2> QED BY <2>1, <2>2, <2>3, <2>4
<1>14. HostSound(h)'
  <2>1. Placed(h)'
    BY <1>1, <1>2, <1>4, <1>7, <1>10, AutoAssumption DEF HostSound, Placed, Following
  <2>2. Counted(h)'
    <3>1. timers[w].attempts \in Nat /\ r.attempts \in Nat
      BY <1>5, <1>9 DEF TimerRecords
    <3>2. host[h].timer # NoTimer => host[h].token \in 1..timers'[host[h].timer].attempts
      BY <1>1, <1>9, <1>10, <1>13, <3>1 DEF HostSound, Counted, TimerRecords
    <3>3. Following(h)' => /\ c.nextToken \in 1..r.attempts
                           /\ w = host[h].timer => host[h].token < c.nextToken
      BY <1>7, <1>9, <1>10, <1>13, <3>1 DEF Following, Attached
    <3> QED BY <1>7, <1>10, <3>2, <3>3 DEF Counted
  <2>3. Secured(h)'
    <3>1. ~stalled /\ AtWork(h)' => Safe(host[h].timer, host[h].token)
      BY <1>1, <1>2, <1>7, <1>10 DEF HostSound, Secured, AtWork
    <3> QED BY <1>2, <1>7, <1>9, <1>10, <1>13, <3>1 DEF Secured, AtWork, Following, Attached, Safe
  <2>4. Fenced(h)'
    BY <1>1, <1>2, <1>7, <1>9, <1>10 DEF HostSound, Fenced, Following
  <2>5. Turned(h)'
    <3> SUFFICES ASSUME host[h].timer # NoTimer, Holds(host[h].timer, host[h].token)'
                 PROVE  timers'[host[h].timer].runs > 0 \/ host[h].timer \in excused'
      BY <1>7, <1>10 DEF Turned, Holds
    <3>1. host[h].timer \in Timer /\ host[h].timer # w
      BY <1>7, <1>10, <1>13 DEF Holds
    <3>2. timers'[host[h].timer] = timers[host[h].timer] /\ Holds(host[h].timer, host[h].token)
      BY <1>7, <1>10, <3>1 DEF Holds
    <3>3. timers[host[h].timer].runs > 0 \/ host[h].timer \in excused
      BY <1>1, <1>2, <3>2 DEF HostSound, Turned
    <3> QED BY <1>3, <3>1, <3>2, <3>3
  <2> QED BY <2>1, <2>2, <2>3, <2>4, <2>5 DEF HostSound
<1>15. ASSUME NEW t \in Timer PROVE TimerSound(t)'
  <2>1. TimerSound(t) /\ (~overlapped => host[h].fence <= history)
    BY <1>1 DEF AutoInv, HostSound, Fenced
  <2>2. CASE t = w
    BY <1>2, <1>9, <1>10, <2>1, <2>2 DEF TimerSound
  <2>3. CASE t # w
    BY <1>2, <1>3, <1>10, <2>1, <2>3 DEF TimerSound
  <2> QED BY <2>2, <2>3
<1>16. \A t \in Timer, n \in Nat : Took(h, t, n)' => Took(h, t, n) \/ n > timers[t].attempts
  <2>1. timers[w].attempts \in Nat
    BY <1>5 DEF TimerRecords
  <2> QED BY <1>7, <1>10, <2>1 DEF Took, Attached
<1>17. history' >= history
  BY <1>1, <1>2
<1>18. OnDuty(h)' => OnDuty(h)
  BY <1>7, <1>10, <1>13 DEF OnDuty, Scheduling, Holds
<1> QED BY <1>2, <1>11, <1>12, <1>14, <1>15, <1>16, <1>17, <1>18, HostMoves

LEMMA AutoStutters ==
  ASSUME AutoInv, UNCHANGED autoVars
  PROVE  AutoInv'
<1>1. AutoTypes'
  BY DEF AutoInv, AutoTypes, autoVars
<1>2. ASSUME NEW g \in AutoHost PROVE Sees(g)
  <2>1. ASSUME NEW t \in Timer PROVE Mild(g, t)
    <3>1. timers'[t] = timers[t] /\ excused' = excused
      BY DEF autoVars
    <3> QED BY <3>1 DEF Mild, AutoInv, AutoTypes, TimerRecords, autoVars
  <2> QED BY <1>1, <2>1, MildlySeen DEF autoVars
<1>3. ASSUME NEW t \in Timer PROVE TimerSound(t)'
  BY DEF AutoInv, TimerSound, autoVars
<1>4. history' >= history
  BY DEF AutoInv, AutoTypes, autoVars
<1> QED BY <1>1, <1>2, <1>3, <1>4, NobodyMoves DEF autoVars

\* Every step keeps the invariant.
LEMMA AutoStep == AutoInv /\ [AutoNext]_autoVars => AutoInv'
<1> SUFFICES ASSUME AutoInv, [AutoNext]_autoVars PROVE AutoInv'
  OBVIOUS
<1>1. ASSUME NEW h \in AutoHost, HostGoesOn(h) PROVE AutoInv'
  <2>1. CASE ReconcileOrphans(h) \/ CancelSession(h)
    BY <2>1, SweepingSteps
  <2>2. CASE ClaimDue(h)
    BY <2>2, SweepingSteps, ClaimStep
  <2>3. CASE SchedulerStops(h) \/ CommandEnds(h)
    BY <2>3, LeavingSteps
  <2>4. CASE CheckResumeFences(h) \/ TurnStarts(h) \/ ReadBack(h) \/ CheckpointWritten(h)
    BY <2>4, FenceSteps
  <2>5. CASE TurnEnds(h) \/ TurnFails(h)
    BY <2>5, TurnSteps
  <2>6. CASE Schedule(h)
    BY <2>6, ScheduleStep
  <2>7. CASE SchedulerSettles(h)
    BY <2>7, SchedulerSettlesStep
  <2>8. CASE AttachedBegins(h)
    BY <2>8, AttachedBeginsStep
  <2>9. CASE WaitEnds(h)
    BY <2>9, WaitEndsStep
  <2>10. CASE AttachedSettles(h)
    BY <2>10, AttachedSettlesStep
  <2>11. CASE HandsBack(h)
    BY <2>11, HandsBackStep
  <2> QED BY <1>1, <2>1, <2>2, <2>3, <2>4, <2>5, <2>6, <2>7, <2>8, <2>9, <2>10, <2>11 DEF HostGoesOn
<1>2. ASSUME NEW h \in AutoHost,
             \/ IdleExit(h) \/ HostCrashes(h)
             \/ \E kind \in {"alone", "attached"} : ManualTurn(h, kind)
      PROVE  AutoInv'
  BY <1>2, LeavingSteps
<1>3. ASSUME NEW h \in AutoHost,
             \/ ClaimLost(h) \/ StartFails(h) \/ SnapshotFails(h) \/ ArmRefused(h)
             \/ \E why \in {"cancel", "leave"} : TurnInterrupted(h, why)
      PROVE  AutoInv'
  BY <1>3, FenceSteps
<1>4. ASSUME NEW h \in AutoHost, StartScheduler(h) PROVE AutoInv'
  BY <1>4, SweepingSteps
<1>5. ASSUME NEW h \in AutoHost, CheckpointFails(h) PROVE AutoInv'
  BY <1>5, CheckpointFailsStep
<1>6. CASE \E t \in Timer : TaskCancelled(t) \/ FireNow(t) \/ TimeComes(t) \/ GrowsStale(t) \/ LeaseLapses(t)
  BY <1>6, RecordSteps
<1>7. CASE UNCHANGED autoVars
  BY <1>7, AutoStutters
<1> QED BY <1>1, <1>2, <1>3, <1>4, <1>5, <1>6, <1>7 DEF AutoNext

\* The invariant says what was promised.
LEMMA InvGivesWakesOnce == AutoInv => WakesOnce
<1> SUFFICES ASSUME AutoInv PROVE WakesOnce
  OBVIOUS
<1>1. ASSUME ~stalled, NEW g \in AutoHost, NEW h \in AutoHost, TurnOfWake(g), TurnOfWake(h),
             host[g].timer = host[h].timer \/ (Scheduling(g) /\ Scheduling(h))
      PROVE  g = h
  <2>1. CASE host[g].timer = host[h].timer
    <3>1. /\ HostSound(g) /\ HostSound(h) /\ AtWork(g) /\ AtWork(h)
          /\ host[g].timer \in Timer /\ host[g].token \in Nat
      BY <1>1, InHand DEF TurnOfWake, AtWork, AutoInv
    <3>2. Safe(host[g].timer, host[g].token) /\ Safe(host[h].timer, host[h].token)
      BY <1>1, <3>1 DEF HostSound, Secured
    <3>3. host[g].token = host[h].token
      BY <2>1, <3>2 DEF Safe
    <3> QED BY <2>1, <3>1, <3>3 DEF AutoInv, ClaimsApart, Took
  <2>2. CASE Scheduling(g) /\ Scheduling(h)
    BY <1>1, <2>2 DEF AutoInv, SchedulersApart, OnDuty, TurnOfWake
  <2> QED BY <1>1, <2>1, <2>2
<1>2. OneTurn
  BY <1>1 DEF OneTurn
<1>3. RunsOnce
  BY DEF AutoInv, TimerSound, RunsOnce
<1>4. ASSUME ~overlapped, NEW t \in Timer, timers[t].status \in {"done", "cancelled"}, timers[t].runs = 0
      PROVE  timers[t].fence # history \/ t \in excused
  <2>1. timers[t].fence < history \/ t \in excused
    BY <1>4 DEF AutoInv, TimerSound
  <2>2. timers[t].fence \in Nat /\ history \in Nat
    BY DEF AutoInv, AutoTypes, TimerRecords
  <2> QED BY <2>1, <2>2
<1>5. NothingDropped
  BY <1>4 DEF NothingDropped
<1> QED BY <1>2, <1>3, <1>5 DEF WakesOnce

(* A wake that was armed leads to one turn, by one host at a time: whatever *)
(* claims lapse, are given back, orphaned or cancelled, two hosts are never *)
(* in a turn of one wake, two schedulers never in turns of two, no wake     *)
(* starts two turns that are saved, and none is retired without a turn but  *)
(* for a reason (core/auto/AutoContinuationStore.ts, AutoScheduler.ts,      *)
(* AttachedAutoScheduler.ts).                                               *)
THEOREM WakesLeadToOneTurn == AutoSpec => []WakesOnce
<1>1. AutoSpec => []AutoInv
  BY AutoStart, AutoStep, PTL DEF AutoSpec
<1> QED BY <1>1, InvGivesWakesOnce, PTL
-----------------------------------------------------------------------------
\* Only a claimed record is leased: whoever settles or hands back a wake ends its lease.
LeaseSound == \A t \in Timer : timers[t].leased => timers[t].status = "claimed"

LEMMA ReleaseIsSound ==
  ASSUME AutoTypes, LeaseSound, NEW t, NEW token, NEW status, NEW due, timers' = Released(t, token, status, due)
  PROVE  LeaseSound'
BY DEF AutoTypes, TimerRecords, LeaseSound, Released

LEMMA LeaseStep == AutoInv /\ LeaseSound /\ [AutoNext]_autoVars => LeaseSound'
<1> SUFFICES ASSUME AutoInv, LeaseSound, [AutoNext]_autoVars PROVE LeaseSound'
  OBVIOUS
<1>1. timers \in [Timer -> TimerRecords] /\ AutoTypes
  BY DEF AutoInv, AutoTypes
<1>2. ASSUME UNCHANGED timers PROVE LeaseSound'
  BY <1>2 DEF LeaseSound
<1>3. ASSUME NEW h \in AutoHost,
             \/ SchedulerStops(h) \/ CheckResumeFences(h) \/ TurnStarts(h) \/ ReadBack(h) \/ CheckpointWritten(h)
             \/ CommandEnds(h) \/ IdleExit(h) \/ ClaimLost(h) \/ StartFails(h) \/ SnapshotFails(h)
             \/ ArmRefused(h) \/ HostCrashes(h) \/ (\E kind \in {"alone", "attached"} : ManualTurn(h, kind))
             \/ \E why \in {"cancel", "leave"} : TurnInterrupted(h, why)
      PROVE  LeaseSound'
  <2>1. UNCHANGED timers
    BY <1>3 DEF SchedulerStops, CheckResumeFences, TurnStarts, ReadBack, CheckpointWritten, CommandEnds, IdleExit,
                ClaimLost, StartFails, SnapshotFails, ArmRefused, HostCrashes, ManualTurn, TurnInterrupted
  <2> QED BY <1>2, <2>1
<1>4. ASSUME NEW h \in AutoHost, StartScheduler(h) \/ ReconcileOrphans(h) \/ ClaimDue(h) \/ CancelSession(h)
      PROVE  LeaseSound'
  <2>1. CASE StartScheduler(h)
    BY <1>1, <2>1 DEF StartScheduler, Pending, LeaseSound, TimerRecords
  <2>2. CASE ReconcileOrphans(h)
    BY <1>1, <2>2 DEF ReconcileOrphans, Orphans, LeaseSound, TimerRecords
  <2>3. CASE ClaimDue(h)
    <3> SUFFICES ASSUME NEW t \in Timer PROVE timers'[t].leased => timers'[t].status = "claimed"
      BY DEF LeaseSound
    <3>1. timers[t] \in TimerRecords /\ (timers[t].leased => timers[t].status = "claimed")
      BY <1>1 DEF LeaseSound
    <3>2. \/ timers'[t] = timers[t]
          \/ timers'[t] = Leased(timers[t])
          \/ Expires(t) /\ timers'[t] = [timers[t] EXCEPT !.status = "expired"]
      BY <2>3 DEF ClaimDue
    <3>3. CASE timers'[t] = Leased(timers[t])
      BY <3>1, <3>3 DEF Leased, TimerRecords
    <3>4. CASE Expires(t) /\ timers'[t] = [timers[t] EXCEPT !.status = "expired"]
      <4>1. timers[t].status = "pending"
        BY <3>4 DEF Expires, Pending
      <4>2. ~timers[t].leased /\ timers'[t].leased = timers[t].leased
        BY <3>1, <3>4, <4>1 DEF TimerRecords
      <4> QED BY <4>2
    <3> QED BY <3>1, <3>2, <3>3, <3>4
  <2>4. CASE CancelSession(h)
    BY <1>1, <2>4 DEF CancelSession, Unsettled, LeaseSound, TimerRecords
  <2> QED BY <1>4, <2>1, <2>2, <2>3, <2>4
<1>5. ASSUME NEW h \in AutoHost, TurnEnds(h) \/ TurnFails(h) PROVE LeaseSound'
  BY <1>1, <1>5 DEF TurnEnds, TurnFails, Saves, LeaseSound, TimerRecords
<1>6. ASSUME NEW h \in AutoHost, Schedule(h) PROVE LeaseSound'
  <2>1. PICK t \in Slots : timers' = [timers EXCEPT ![t] =
            LET armed == [@ EXCEPT !.status = "pending", !.fence = host[h].fence, !.runs = 0,
                                   !.due = FALSE, !.stale = FALSE]
            IN  IF Attached(h) THEN Leased(armed) ELSE armed]
    BY <1>6 DEF Schedule
  <2>2. t \in Timer /\ ~timers[t].leased
    BY <1>1 DEF Slots, Pending, Unused, LeaseSound
  <2>3. /\ timers'[t].leased => timers'[t].status = "claimed"
        /\ \A u \in Timer \ {t} : timers'[u] = timers[u]
    BY <1>1, <2>1, <2>2 DEF Leased, TimerRecords
  <2> QED BY <2>3 DEF LeaseSound
<1>7. ASSUME NEW h \in AutoHost, CheckpointFails(h) PROVE LeaseSound'
  BY <1>1, <1>7 DEF CheckpointFails, LeaseSound, TimerRecords
<1>8. ASSUME NEW h \in AutoHost, \/ SchedulerSettles(h) \/ AttachedBegins(h) \/ WaitEnds(h)
                                 \/ AttachedSettles(h) \/ HandsBack(h)
      PROVE  LeaseSound'
  <2> DEFINE Releases == \E t, token, status, due : timers' = Released(t, token, status, due)
  <2>1. CASE SchedulerSettles(h)
    <3>1. Releases
      BY <2>1 DEF SchedulerSettles
    <3> QED BY <1>1, <3>1, ReleaseIsSound
  <2>2. CASE AttachedBegins(h)
    <3>1. UNCHANGED timers \/ Releases
      <4>1. CASE host[h].abort \in {"none", "cancel"}
        BY <2>2, <4>1 DEF AttachedBegins
      <4>2. CASE host[h].abort \notin {"none", "cancel"}
        <5>1. timers' = Released(host[h].next, host[h].nextToken, "pending", timers[host[h].next].due)
          BY <2>2, <4>2 DEF AttachedBegins
        <5> QED BY <5>1
      <4> QED BY <4>1, <4>2
    <3> QED BY <1>1, <1>2, <3>1, ReleaseIsSound
  <2>3. CASE WaitEnds(h)
    <3>1. UNCHANGED timers \/ Releases
      <4>1. CASE host[h].abort \in {"none", "lost"}
        BY <2>3, <4>1 DEF WaitEnds
      <4>2. CASE host[h].abort \notin {"none", "lost"}
        <5>1. timers' = Released(host[h].timer, host[h].token, "pending", timers[host[h].timer].due)
          BY <2>3, <4>2 DEF WaitEnds
        <5> QED BY <5>1
      <4> QED BY <4>1, <4>2
    <3> QED BY <1>1, <1>2, <3>1, ReleaseIsSound
  <2>4. CASE AttachedSettles(h)
    <3>1. Releases
      BY <2>4 DEF AttachedSettles
    <3> QED BY <1>1, <3>1, ReleaseIsSound
  <2>5. CASE HandsBack(h)
    <3>1. Releases
      BY <2>5 DEF HandsBack
    <3> QED BY <1>1, <3>1, ReleaseIsSound
  <2> QED BY <1>8, <2>1, <2>2, <2>3, <2>4, <2>5
<1>9. ASSUME NEW t \in Timer, TaskCancelled(t) \/ FireNow(t) \/ TimeComes(t) \/ GrowsStale(t) \/ LeaseLapses(t)
      PROVE  LeaseSound'
  BY <1>1, <1>9 DEF TaskCancelled, FireNow, TimeComes, GrowsStale, LeaseLapses, LeaseSound, TimerRecords
<1>10. CASE UNCHANGED autoVars
  BY <1>2, <1>10 DEF autoVars
<1> QED BY <1>3, <1>4, <1>5, <1>6, <1>7, <1>8, <1>9, <1>10 DEF AutoNext, HostGoesOn

\* What the wakes of a session are made of.
LEMMA WakesTyped == AutoSpec => []AutoTypeOK
<1>1. AutoInit => LeaseSound
  BY DEF AutoInit, NoRecordYet, LeaseSound
<1>2. ASSUME AutoInv, LeaseSound PROVE AutoTypeOK
  <2>1. ASSUME NEW t \in Timer
        PROVE  /\ timers[t].status \in {"none", "pending", "claimed", "done", "cancelled", "expired"}
               /\ timers[t].leased => timers[t].status = "claimed"
               /\ timers[t].fence \in Nat
    BY <1>2 DEF AutoInv, AutoTypes, TimerRecords, Statuses, LeaseSound
  <2>2. ASSUME NEW h \in AutoHost
        PROVE  /\ host[h].at \in {"off", "poll", "claim", "check", "start", "turn", "read", "arm", "mark", "done",
                                  "cancelled", "consumed", "failed", "wait", "handback", "void"}
               /\ host[h].timer \in Timer \cup {NoTimer} /\ host[h].next \in Timer \cup {NoTimer}
               /\ host[h].at \in {"check", "start", "cancelled", "failed", "wait"} => host[h].timer # NoTimer
    BY <1>2 DEF AutoInv, AutoTypes, HostRecords, HostPlaces, HostSound, Placed
  <2> QED BY <2>1, <2>2 DEF AutoTypeOK
<1> QED BY <1>1, <1>2, LeaseStep, AutoStart, AutoStep, PTL DEF AutoSpec

LEMMA EffectTyped == EffectSpec => []EffectTypeOK
<1>1. EffectInv => EffectTypeOK
  BY DEF EffectInv, EffectTypes, EffectTypeOK, EffectWork
<1> QED BY <1>1, EffectInitInv, EffectStepInv, PTL DEF EffectSpec

-----------------------------------------------------------------------------
(* The four together (MCSessions): whatever each of them does, the others do *)
(* not see.                                                                  *)
LEMMA EachOnItsOwn == Spec => AgentSpec /\ JobSpec /\ EffectSpec /\ AutoSpec
<1>1. Init => AgentInit /\ JobInit /\ EffectInit /\ AutoInit
  BY DEF Init
<1>2. [Next]_allVars => /\ [AgentNext]_agentVars /\ [JobNext]_jobVars
                        /\ [EffectNext]_effectVars /\ [AutoNext]_autoVars
  BY DEF Next, OnAgents, OnJobs, OnEffect, OnWakes, allVars
<1> QED BY <1>1, <1>2, PTL DEF Spec, AgentSpec, JobSpec, EffectSpec, AutoSpec

(* Sub-agents, jobs, Effects and wakes keep their types.                     *)
THEOREM SessionsTyped == Spec => []SessionsTypeOK
BY EachOnItsOwn, SubAgentsTyped, JobsAreSettledOnce, EffectTyped, WakesTyped, PTL DEF SessionsTypeOK

(* The seats and the budget of the sub-agents and the slots of the jobs are  *)
(* never given out twice, and come back (SubAgentBridge.ts, JobManager.ts).  *)
THEOREM NothingGivenTwice == Spec => []SeatsAndSlotsHold
BY EachOnItsOwn, SeatsAndBudgetHeld, JobsAreSettledOnce, PTL DEF SeatsAndSlotsHold

(* What is settled stays so: the outcome of a job and its record on disk,    *)
(* the first receipt of an Effect, a bridge that was disposed of.            *)
THEOREM OutcomesStand == Spec => SettledStays
BY EachOnItsOwn, JobsAreSettledOnce, ReceiptIsFinal, DisposedBridgeIsQuiet, PTL DEF SettledStays
=============================================================================
