---------------------------- MODULE StallGuards ----------------------------
(***************************************************************************)
(* The guards by which the conversation loop stops an agent that makes no  *)
(* progress (kernel/loop/KernelLoop.ts, AutoStallGuard.ts): the repeated   *)
(* request, the poll without end, the alternation of two requests, the     *)
(* series of failures, and the reflections they inject before.             *)
(*                                                                         *)
(* The counters below are the program's; `batches' is the history that the *)
(* properties judge them by.                                               *)
(***************************************************************************)
EXTENDS Integers, Sequences, FiniteSets

CONSTANTS
  Request,          \* tool requests, told apart by name and input
  RepeatLimit,      \* NO_PROGRESS_REPEAT_LIMIT
  PollingLimit,     \* NO_PROGRESS_POLLING_LIMIT
  AlternationWindow,
  FailureLimit,     \* AUTO_STALL_FAILURE_LIMIT
  SoftLimit,        \* AUTO_STALL_SOFT_LIMIT
  IdleLimit,        \* AUTO_NO_FS_PROGRESS_LIMIT
  RecurringLimit,   \* AUTO_RECURRING_ERROR_LIMIT
  RecurringWindow,  \* RECURRING_ERROR_WINDOW
  MaxGuarded        \* bound on tool batches

ASSUME GuardAssumption ==
  /\ RepeatLimit \in Nat \ {0, 1} /\ PollingLimit \in Nat \ {0}
  /\ AlternationWindow \in Nat \ {0, 1}
  /\ FailureLimit \in Nat /\ SoftLimit \in 1..(FailureLimit - 1) /\ IdleLimit \in Nat
  /\ RecurringLimit \in Nat /\ RecurringWindow \in Nat \ {0} /\ MaxGuarded \in Nat

VARIABLES
  batches,      \* history: [request, outcome] of every batch that ran
  stopped,      \* why the run was stopped, or "no"
  repeats, polls, pollSeen, lastChanged,      \* the repeated-request guard
  recent,                                     \* toolSignatureHistory
  failures, idle, evaluated,                  \* the stall circuit
  errorTurns, nudged,                         \* the recurring-error axis
  evaluations, reflections                    \* history: the turns that got one

guardVars == <<batches, stopped, repeats, polls, pollSeen, lastChanged, recent, failures,
               idle, evaluated, errorTurns, nudged, evaluations, reflections>>

(* What a batch returned, as far as the guards tell results apart: one or   *)
(* the other observation, an error, or a changed file.                      *)
Outcome == {"one", "other", "error", "wrote"}

LastBatch == batches[Len(batches)]
Trim(seq, n) == IF Len(seq) > n THEN SubSeq(seq, Len(seq) - n + 1, Len(seq)) ELSE seq

GuardInit ==
  /\ batches = <<>> /\ stopped = "no"
  /\ repeats = 0 /\ polls = 0 /\ pollSeen = FALSE /\ lastChanged = FALSE
  /\ recent = <<>> /\ failures = 0 /\ idle = 0 /\ evaluated = FALSE
  /\ errorTurns = <<>> /\ nudged = FALSE
  /\ evaluations = {} /\ reflections = {}

-----------------------------------------------------------------------------
(* Before the tools run *)

(* Whether a repeated request is a poll: its results have changed at least  *)
(* once since it was first repeated.  The mutant looks at the last only.    *)
ChangedNow == lastChanged
IsPoll == pollSeen \/ lastChanged

SameRequest(request) == batches # <<>> /\ LastBatch.request = request

Polls(request) == IF SameRequest(request) THEN polls + 1 ELSE 1
Repeats(request) == IF SameRequest(request) /\ ~IsPoll THEN repeats + 1 ELSE 1

(* The requests the alternation guard looks at, with this one.             *)
Requests(request) == Trim(Append(recent, request), AlternationWindow)

(* isAlternatingToolSignatures. *)
Alternates(request) ==
  LET h == Requests(request)
  IN  /\ Len(h) = AlternationWindow
      /\ h[1] # h[2]
      /\ \A i \in 1..Len(h) : h[i] = IF i % 2 = 1 THEN h[1] ELSE h[2]

(* The mutant has no ceiling for polls. *)
StopsButPolls(request) ==
  IF Repeats(request) >= RepeatLimit THEN "repeated"
  ELSE IF Alternates(request) THEN "alternating"
  ELSE "no"
StopFor(request) ==
  IF Repeats(request) >= RepeatLimit THEN "repeated"
  ELSE IF Polls(request) >= PollingLimit THEN "polling"
  ELSE IF Alternates(request) THEN "alternating"
  ELSE "no"

GuardStops(request) ==
  /\ stopped = "no" /\ Len(batches) < MaxGuarded
  /\ StopFor(request) # "no"
  /\ stopped' = StopFor(request)
  /\ batches' = Append(batches, [request |-> request, outcome |-> "none"])
  /\ UNCHANGED <<repeats, polls, pollSeen, lastChanged, recent, failures, idle, evaluated,
                 errorTurns, nudged, evaluations, reflections>>

-----------------------------------------------------------------------------
(* After the tools have run *)

(* The recurring-error axis: which of the last turns saw the error.  An     *)
(* error that has left the window may be reflected on again.               *)
ErrorTurns(outcome) == Trim(Append(errorTurns, outcome = "error"), RecurringWindow)
Occurrences(turns) == Cardinality({i \in DOMAIN turns : turns[i]})
Forgotten(turns) == Occurrences(turns) = 0

(* Whether the stall circuit stops the run, and before it asks for a        *)
(* self-evaluation.                                                        *)
SoftTrip(failed, unproductive) == failed = SoftLimit \/ unproductive = IdleLimit

(* A batch of an unattended run. *)
RunBatch(request, outcome) ==
  /\ stopped = "no" /\ Len(batches) < MaxGuarded
  /\ StopFor(request) = "no"
  /\ batches' = Append(batches, [request |-> request, outcome |-> outcome])
  /\ polls' = Polls(request) /\ repeats' = Repeats(request)
  /\ pollSeen' = (SameRequest(request) /\ IsPoll)
  /\ recent' = Requests(request)
  /\ lastChanged' = (batches # <<>> /\ LastBatch.outcome # outcome)
  /\ LET failed == IF outcome = "error" THEN failures + 1 ELSE 0
         unproductive == IF outcome = "wrote" THEN 0 ELSE idle + 1
         already == evaluated /\ ~(failed = 0 /\ unproductive = 0)
         trip == SoftTrip(failed, unproductive) /\ ~already
         turns == ErrorTurns(outcome)
         before == nudged /\ ~Forgotten(turns)
         reflect == outcome = "error" /\ ~before /\ Occurrences(turns) >= RecurringLimit
     IN  /\ failures' = failed /\ idle' = unproductive
         /\ evaluated' = (already \/ trip)
         /\ evaluations' = IF trip THEN evaluations \cup {Len(batches) + 1} ELSE evaluations
         /\ errorTurns' = turns
         /\ nudged' = (before \/ reflect)
         /\ reflections' = IF reflect THEN reflections \cup {Len(batches) + 1} ELSE reflections
         /\ stopped' = IF failed >= FailureLimit THEN "failing" ELSE "no"

GuardNext ==
  \/ \E request \in Request : GuardStops(request)
  \/ \E request \in Request, outcome \in Outcome : RunBatch(request, outcome)

GuardSpec == GuardInit /\ [][GuardNext]_guardVars

-----------------------------------------------------------------------------
(* The judgement of history.  The last n batches, if there are so many:     *)
Latest(n) == SubSeq(batches, Len(batches) - n + 1, Len(batches))

(* two requests in turn;                                                    *)
AlternatingFor(n) ==
  /\ Len(batches) >= n
  /\ LET h == Latest(n)
     IN  /\ h[1].request # h[2].request
         /\ \A i \in 1..(n - 2) : h[i].request = h[i + 2].request

(* the series of equal requests that history ends with.                     *)
Series ==
  Latest(CHOOSE n \in 1..Len(batches) :
           /\ \A i \in 1..n : batches[Len(batches) - i + 1].request = LastBatch.request
           /\ n = Len(batches) \/ batches[Len(batches) - n].request # LastBatch.request)

(* Type correctness: every counter stays below the limit it is checked      *)
(* against as long as the run goes on.                                      *)
GuardTypeOK ==
  /\ batches \in Seq([request : Request, outcome : Outcome \cup {"none"}])
  /\ stopped \in {"no", "repeated", "polling", "alternating", "failing"}
  /\ repeats \in 0..(RepeatLimit - 1) /\ polls \in 0..(PollingLimit - 1)
  /\ {pollSeen, lastChanged, evaluated, nudged} \subseteq BOOLEAN
  /\ recent \in Seq(Request) /\ Len(recent) <= AlternationWindow
  /\ failures \in 0..FailureLimit /\ idle \in Nat
  /\ errorTurns \in Seq(BOOLEAN) /\ Len(errorTurns) <= RecurringWindow
  /\ {evaluations, reflections} \subseteq SUBSET (1..MaxGuarded)

(* A run is stopped for repeating itself only if no request of the series   *)
(* has returned anything new: a poll that has observed one change is not a  *)
(* stall, even while the value it observes holds steady.                    *)
StopsAreEarned ==
  /\ stopped = "repeated" =>
       /\ Len(Series) >= RepeatLimit
       /\ \A i \in 1..(Len(Series) - 1) : Series[i].outcome = Series[1].outcome
  /\ stopped = "alternating" => AlternatingFor(AlternationWindow)

(* Two requests in strict alternation never go on for longer than the       *)
(* window, whatever they return.                                            *)
AlternationStops ==
  AlternatingFor(AlternationWindow) => stopped # "no"

(* A run is never stopped for failing before it was asked, at some time, to *)
(* evaluate itself.                                                         *)
WarnedBeforeStop ==
  stopped = "failing" => \E turn \in evaluations : turn < Len(batches)

(* An error that is still in the window is reflected on once: between two   *)
(* reflections there was a window of turns without the error.               *)
OneReflectionEach ==
  \A first, second \in reflections :
    first < second =>
      \E start \in (first + 1)..(second - RecurringWindow) :
        \A turn \in start..(start + RecurringWindow - 1) : batches[turn].outcome # "error"

(* The guards stop what makes no progress, and nothing else.                *)
GuardsSound == StopsAreEarned /\ AlternationStops /\ WarnedBeforeStop /\ OneReflectionEach
=============================================================================
