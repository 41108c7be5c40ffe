-------------------------- MODULE EffectIntents --------------------------
(***************************************************************************)
(* One activation of an Effect node: NodeExecutors.executeEffect and the   *)
(* three transactions of GraphStore on its effect intent.  A worker that   *)
(* lost its lease goes on beside the one that claimed the activation after *)
(* it, processes die between any two steps, and the State that input and   *)
(* idempotency key are computed from may move in between.  The provider    *)
(* keeps the contract of EffectProviderConformance: one operation for each *)
(* key, although a repeated submit may answer with another receipt.        *)
(***************************************************************************)
EXTENDS Naturals, FiniteSets

CONSTANTS
  Worker, Unclaimed,
  Version,          \* what the State may hold, and so the key of the operation
  Synchronous,      \* BOOLEAN: the provider has no inspect
  Deadline,         \* BOOLEAN: the node has a timeoutMs
  MaxMisfortune     \* bound on deaths, lost leases and lost answers

EffectAssumption ==
  /\ Unclaimed \notin Worker /\ Unclaimed \notin Version
  /\ Synchronous \in BOOLEAN /\ Deadline \in BOOLEAN
  /\ MaxMisfortune \in Nat
ASSUME EffectAssumption

VARIABLES
  intent,       \* the effect intent on disk
  operation,    \* the provider's operation for each key
  claim,        \* the worker whose lease token the activation has
  outcome,      \* of the activation: "open", "parked", "success" or "failure"
  work,         \* where each worker is in executeEffect
  stateNow,     \* what the State holds
  overdue,      \* the node's timeout has passed
  misfortune

effectVars == <<intent, operation, claim, outcome, work, stateNow, overdue, misfortune>>

(* A receipt tells whose submit it answered, and identifies the operation. *)
NoReceipt == [by |-> Unclaimed, key |-> Unclaimed]
Receipt == [by : Worker, key : Version] \cup {NoReceipt}
NoIntent == [status |-> "none", key |-> Unclaimed, receipt |-> NoReceipt]
AtRest == [pc |-> "rest", key |-> Unclaimed, receipt |-> NoReceipt, verdict |-> "none"]

EffectInit ==
  /\ intent = NoIntent
  /\ operation = [v \in Version |-> "none"]
  /\ claim = Unclaimed /\ outcome = "open"
  /\ work = [w \in Worker |-> AtRest]
  /\ stateNow \in Version
  /\ overdue = FALSE
  /\ misfortune = 0

MovesOn(w, pc, key, receipt, verdict) ==
  work' = [work EXCEPT ![w] = [pc |-> pc, key |-> key, receipt |-> receipt, verdict |-> verdict]]
Answers(w, verdict) == MovesOn(w, "report", Unclaimed, NoReceipt, verdict)

ClaimEffect(w) ==
  /\ outcome = "open" /\ claim = Unclaimed /\ work[w].pc = "rest"
  /\ claim' = w
  /\ MovesOn(w, "start", Unclaimed, NoReceipt, "none")
  /\ UNCHANGED <<intent, operation, outcome, stateNow, overdue, misfortune>>

(* The deadline, then the bindings. *)
StartEffect(w) ==
  /\ work[w].pc = "start"
  /\ \/ Deadline /\ overdue /\ Answers(w, "failed")
     \/ ~(Deadline /\ overdue) /\ MovesOn(w, "prepare", stateNow, NoReceipt, "none")
  /\ UNCHANGED <<intent, operation, claim, outcome, stateNow, overdue, misfortune>>

(* prepareEffectIntent: the first preparation fixes input and key; what the *)
(* intent says already decides how executeEffect goes on.  The receipt in   *)
(* the activation's input is the one in the intent.                        *)
(* Mutant: what is there is not compared. *)
AnyOperation(w) == TRUE
SameOperation(w) == intent.key = work[w].key
PrepareEffect(w) ==
  /\ work[w].pc = "prepare"
  /\ \/ /\ intent = NoIntent
        /\ intent' = [NoIntent EXCEPT !.status = "prepared", !.key = work[w].key]
        /\ MovesOn(w, "submit", work[w].key, NoReceipt, "none")
     \/ /\ intent # NoIntent /\ ~SameOperation(w)
        /\ Answers(w, "failed")
        /\ UNCHANGED intent
     \/ /\ intent # NoIntent /\ SameOperation(w)
        /\ IF intent.status \in {"succeeded", "failed"} THEN Answers(w, intent.status)
           ELSE MovesOn(w, IF intent.receipt = NoReceipt THEN "submit" ELSE "record",
                       work[w].key, intent.receipt, "none")
        /\ UNCHANGED intent
  /\ UNCHANGED <<operation, claim, outcome, stateNow, overdue, misfortune>>

Begun(v) == IF operation[v] # "none" THEN operation
            ELSE [operation EXCEPT ![v] = IF Synchronous THEN "succeeded" ELSE "pending"]

SubmitEffect(w) ==
  /\ work[w].pc = "submit"
  /\ operation' = Begun(work[w].key)
  /\ MovesOn(w, "record", work[w].key, [by |-> w, key |-> work[w].key], "none")
  /\ UNCHANGED <<intent, claim, outcome, stateNow, overdue, misfortune>>

(* The call throws, before or after the provider has begun the operation. *)
SubmitThrows(w) ==
  /\ work[w].pc = "submit" /\ misfortune < MaxMisfortune
  /\ misfortune' = misfortune + 1
  /\ operation' \in {operation, Begun(work[w].key)}
  /\ Answers(w, "failed")
  /\ UNCHANGED <<intent, claim, outcome, stateNow, overdue>>

(* recordEffectReceipt: the first durable receipt is authoritative.        *)
Recorded(w) ==
  IF intent.receipt \notin {NoReceipt, work[w].receipt} THEN intent
  ELSE [intent EXCEPT !.status = "submitted", !.receipt = work[w].receipt]
RecordReceipt(w) ==
  /\ work[w].pc = "record"
  /\ intent' = Recorded(w)
  /\ MovesOn(w, "inspect", work[w].key, intent'.receipt, "none")
  /\ UNCHANGED <<operation, claim, outcome, stateNow, overdue, misfortune>>

(* provider.inspect, and the check of the output against the schema: an     *)
(* operation that succeeded may still be a failure here.                   *)
InspectEffect(w) ==
  /\ work[w].pc = "inspect"
  /\ LET found == operation[work[w].receipt.key]
     IN  \/ found = "pending" /\ Answers(w, "pending")
         \/ found = "succeeded" /\ MovesOn(w, "complete", work[w].key, work[w].receipt, "succeeded")
         \/ found \in {"succeeded", "failed"} /\ MovesOn(w, "complete", work[w].key, work[w].receipt, "failed")
  /\ UNCHANGED <<intent, operation, claim, outcome, stateNow, overdue, misfortune>>

(* completeEffectIntent *)
CompleteEffect(w) ==
  /\ work[w].pc = "complete"
  /\ intent' = [intent EXCEPT !.status = work[w].verdict]
  /\ Answers(w, work[w].verdict)
  /\ UNCHANGED <<operation, claim, outcome, stateNow, overdue, misfortune>>

(* What the kernel does with the result: fenced by the lease token.        *)
OutcomeOf(w) == CASE work[w].verdict = "pending" -> "parked"
                  [] work[w].verdict = "succeeded" -> "success"
                  [] OTHER -> "failure"
DoneExecuting(w) == work[w].pc = "report"
ReportEffect(w) ==
  /\ DoneExecuting(w)
  /\ work' = [work EXCEPT ![w] = AtRest]
  /\ IF claim = w THEN claim' = Unclaimed /\ outcome' = OutcomeOf(w)
     ELSE UNCHANGED <<claim, outcome>>
  /\ UNCHANGED <<intent, operation, stateNow, overdue, misfortune>>

PollAgain ==
  /\ outcome = "parked"
  /\ outcome' = "open"
  /\ UNCHANGED <<intent, operation, claim, work, stateNow, overdue, misfortune>>

LoseLease ==
  /\ claim # Unclaimed /\ misfortune < MaxMisfortune
  /\ misfortune' = misfortune + 1
  /\ claim' = Unclaimed
  /\ UNCHANGED <<intent, operation, outcome, work, stateNow, overdue>>

WorkerDies(w) ==
  /\ work[w].pc # "rest" /\ misfortune < MaxMisfortune
  /\ misfortune' = misfortune + 1
  /\ work' = [work EXCEPT ![w] = AtRest]
  /\ claim' = IF claim = w THEN Unclaimed ELSE claim
  /\ UNCHANGED <<intent, operation, outcome, stateNow, overdue>>

OperationSettles(v) ==
  /\ operation[v] = "pending"
  /\ \E end \in {"succeeded", "failed"} : operation' = [operation EXCEPT ![v] = end]
  /\ UNCHANGED <<intent, claim, outcome, work, stateNow, overdue, misfortune>>

StateMoves ==
  /\ outcome \in {"open", "parked"}
  /\ stateNow' \in Version \ {stateNow}
  /\ UNCHANGED <<intent, operation, claim, outcome, work, overdue, misfortune>>

TimeoutPasses ==
  /\ Deadline /\ ~overdue /\ outcome \in {"open", "parked"}
  /\ overdue' = TRUE
  /\ UNCHANGED <<intent, operation, claim, outcome, work, stateNow, misfortune>>

WorkerStep(w) ==
  \/ ClaimEffect(w) \/ StartEffect(w) \/ PrepareEffect(w) \/ SubmitEffect(w)
  \/ RecordReceipt(w) \/ InspectEffect(w) \/ CompleteEffect(w) \/ ReportEffect(w)

EffectNext ==
  \/ \E w \in Worker : WorkerStep(w) \/ SubmitThrows(w) \/ WorkerDies(w)
  \/ \E v \in Version : OperationSettles(v)
  \/ PollAgain \/ LoseLease \/ StateMoves \/ TimeoutPasses

EffectSpec == EffectInit /\ [][EffectNext]_effectVars

(* Workers run, timers come due, and the provider's operations end. *)
EffectFairness ==
  /\ \A w \in Worker : WF_effectVars(WorkerStep(w))
  /\ \A v \in Version : WF_effectVars(OperationSettles(v))
  /\ WF_effectVars(PollAgain)

EffectFairSpec == EffectSpec /\ EffectFairness

-----------------------------------------------------------------------------
EffectTypeOK ==
  /\ intent.status \in {"none", "prepared", "submitted", "succeeded", "failed"}
  /\ intent.key \in Version \cup {Unclaimed} /\ intent.receipt \in Receipt
  /\ operation \in [Version -> {"none", "pending", "succeeded", "failed"}]
  /\ claim \in Worker \cup {Unclaimed}
  /\ outcome \in {"open", "parked", "success", "failure"}
  /\ \A w \in Worker : work[w].receipt \in Receipt /\ work[w].key \in Version \cup {Unclaimed}

(* However often an activation is executed again, and whatever its State    *)
(* has become meanwhile, it begins at most one operation at the provider    *)
(* (prepareEffectIntent is durable before the first submit).               *)
OneOperation == Cardinality({v \in Version : operation[v] # "none"}) <= 1

(* The receipt of an operation never changes once it is durable, whatever   *)
(* later submits answer.                                                   *)
FirstReceiptStands ==
  [][intent.receipt # NoReceipt => intent'.receipt = intent.receipt]_effectVars

(* A success is reported only for an operation that did succeed, also when  *)
(* workers with and without the lease complete the intent against each     *)
(* other.                                                                  *)
SuccessIsReal ==
  outcome = "success" \/ intent.status = "succeeded" => operation[intent.receipt.key] = "succeeded"

(* An Effect ends: it is polled until the provider's operation ends, and no *)
(* half-prepared intent or lost answer blocks it for ever.                 *)
EffectEnds == ~<>[](outcome \notin {"success", "failure"})

(* What an Effect reports is one operation at the provider, and its result. *)
OneRealOperation == OneOperation /\ SuccessIsReal
=============================================================================
