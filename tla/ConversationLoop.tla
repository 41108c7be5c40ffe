-------------------------- MODULE ConversationLoop --------------------------
(***************************************************************************)
(* One conversation (kernel/KernelSession.ts) and the loop that serves a   *)
(* submitted prompt (kernel/loop/KernelLoop.ts): query the model, answer   *)
(* its tool calls, recover from failures, and stop.  While a prompt is     *)
(* served the user may interrupt it, steer it, or stop reading its events. *)
(*                                                                         *)
(* A message is kept only as far as the properties tell messages apart:    *)
(* `open' is the set of tool calls of the transcript that have no result   *)
(* yet.  The no-progress guards are in StallGuards, and a stop they cause  *)
(* is a free choice here, as is a stop by the drift gate.                  *)
(***************************************************************************)
EXTENDS Integers, FiniteSets

CONSTANTS
  Call,             \* the tool calls of a reply that asks for tools
  MaxRecoveries,    \* maxStreamErrorRecoveries
  TokenLimit,       \* MAX_OUTPUT_TOKENS_RECOVERY_LIMIT
  MaxVerify,        \* MAX_VERIFY_ROUNDS
  MaxTurns,         \* maxTurns
  MaxBatches,       \* autoMaxToolBatches
  Budget,           \* maxBudgetUsd, in model calls
  MaxSubmits,       \* bound on prompts
  MaxInterrupts     \* bound on interrupts, time limits and abandoned reads

ASSUME ConversationAssumption ==
  /\ MaxRecoveries \in Nat /\ TokenLimit \in Nat /\ MaxVerify \in Nat
  /\ MaxTurns \in Nat \ {0} /\ MaxBatches \in Nat \ {0} /\ Budget \in Nat \ {0}
  /\ MaxSubmits \in Nat /\ MaxInterrupts \in Nat

VARIABLES
  mode,        \* how the session was configured
  pc,          \* where the serving of the prompt stands
  run,         \* the local state of runKernelLoop
  open,        \* tool calls of this run in the transcript without a result
  orphaned,    \* an abandoned or broken run has left such calls behind
  signal,      \* why the run was aborted, or "none"
  steers,      \* accepted corrections: the prompts they were accepted in
  counted,     \* the session's cumulative cost
  submits,     \* prompts submitted
  ending,      \* the outcome of the last run
  interrupts

talkVars == <<mode, pc, run, open, orphaned, signal, steers, counted, submits, ending,
              interrupts>>

(* "unattended" runs with a gate that must pass, "lenient" with one whose   *)
(* failure is tolerated (autoGateFailurePolicy fail_open).                  *)
Modes == {"attended", "unattended", "lenient"}
AutoMode == mode # "attended"

Replies == {"text", "empty", "cut", "tools"}

(* Replies a run may still pay for after its budget is reached: recoveries  *)
(* are not checked against the budget, the token limit is raised at most    *)
(* twice, and one more reply is what the check stops at.                    *)
Allowance == 2 + TokenLimit + MaxRecoveries

NewRun(cost) ==
  [errors |-> 0, empties |-> 0, cuts |-> 0, raised |-> FALSE, compacted |-> FALSE,
   fallen |-> FALSE, rounds |-> 0, turns |-> 0, cost |-> cost, reply |-> "text",
   verified |-> FALSE, parked |-> FALSE, late |-> 0]

ConversationInit ==
  /\ mode \in Modes
  /\ pc = "idle" /\ run = NewRun(0) /\ open = {} /\ orphaned = FALSE
  /\ signal = "none"
  /\ steers = {} /\ counted = 0 /\ submits = 0 /\ ending = "none" /\ interrupts = 0

-----------------------------------------------------------------------------
(* KernelSession *)

(* submitMessage: one prompt at a time.  Corrections that were queued      *)
(* before it are dropped.                                                  *)
Submit ==
  /\ pc = "idle" /\ submits < MaxSubmits
  /\ submits' = submits + 1
  /\ steers' = {}
  /\ pc' = "starting" /\ ending' = "none" /\ signal' = "none"
  /\ UNCHANGED <<mode, orphaned, run, open, counted, interrupts>>

(* Only after the trajectory is open does the run get its own abort signal; *)
(* an abort of the one before is of no effect.                              *)
Begin ==
  /\ pc = "starting"
  /\ signal' = "none"
  /\ run' = NewRun(counted)
  /\ pc' = "top"
  /\ UNCHANGED <<mode, orphaned, open, steers, counted, submits, ending, interrupts>>

(* steer: accepted whenever a prompt is being served. *)
Steer ==
  /\ pc # "idle"
  /\ submits \notin steers
  /\ steers' = steers \cup {submits}
  /\ UNCHANGED <<mode, orphaned, pc, run, open, signal, counted, submits, ending, interrupts>>

(* interrupt aborts the controller of the moment: before Begin that is the  *)
(* controller of the previous prompt.                                       *)
Interrupt ==
  /\ pc # "idle" /\ signal = "none" /\ interrupts < MaxInterrupts
  /\ signal' = IF pc = "starting" THEN signal ELSE "interrupt"
  /\ interrupts' = interrupts + 1
  /\ UNCHANGED <<mode, orphaned, pc, run, open, steers, counted, submits, ending>>

(* The watchdog of an unattended run. *)
TimeRunsOut ==
  /\ AutoMode /\ pc \notin {"idle", "starting", "ending", "told"} /\ signal = "none"
  /\ interrupts < MaxInterrupts
  /\ signal' = "limit" /\ interrupts' = interrupts + 1
  /\ UNCHANGED <<mode, orphaned, pc, run, open, steers, counted, submits, ending>>

(* The reader of the events stops at one of them: the finally of            *)
(* submitMessage runs, and nothing of the run is added to the session.      *)
Abandon ==
  /\ pc \in {"query", "batch", "results", "told"} /\ interrupts < MaxInterrupts
  /\ pc' = "idle" /\ ending' = "abandoned" /\ interrupts' = interrupts + 1
  /\ orphaned' = (orphaned \/ open # {}) /\ open' = {}
  /\ run' = NewRun(0)
  /\ UNCHANGED <<mode, signal, steers, counted, submits>>

(* done, or an exception that reaches submitMessage. *)
End(reason) == pc' = "ending" /\ ending' = reason

(* What the result says: a stop that a phase hook asked for is a success.   *)
Subtype(reason) ==
  CASE reason \in {"success", "phase_hook_abort"} -> "success"
    [] reason = "parked" -> "parked"
    [] OTHER -> "error"

Stopped == {"phase_hook_abort", "phase_hook_fail"}

Aborted(where) == IF signal = "limit" THEN "auto_runtime_limit" ELSE where

(* The termination checkpoint and the trajectory come before the result. *)
TellResult ==
  /\ pc = "ending"
  /\ pc' = "told"
  /\ UNCHANGED <<mode, orphaned, run, open, signal, steers, counted, submits, ending, interrupts>>

(* Cumulative state, only of a run that returned.  What was spent beyond    *)
(* the budget makes no difference to later prompts, and is left out.  Calls *)
(* that a broken run did not answer stay in the session's transcript.       *)
FoldIn ==
  /\ pc = "told"
  /\ pc' = "idle"
  /\ counted' = IF ending = "thrown" THEN counted
                 ELSE IF run.cost > Budget THEN Budget ELSE run.cost
  /\ run' = NewRun(0)
  /\ orphaned' = (orphaned \/ open # {}) /\ open' = {}
  /\ UNCHANGED <<mode, signal, steers, submits, ending, interrupts>>

-----------------------------------------------------------------------------
(* Before the model is asked *)

(* The corrections are appended, the transcript is compacted if it is long *)
(* and may be too long even so, and a phase hook may stop the run.  A      *)
(* compaction summarises calls that were left without a result.            *)
Prepare ==
  /\ pc = "top"
  /\ \/ /\ signal = "limit"
        /\ End("auto_runtime_limit")
        /\ UNCHANGED <<orphaned, steers>>
     \/ /\ signal # "limit"
        /\ steers' = {}
        /\ orphaned' \in {orphaned, FALSE}
        /\ \/ \E reason \in {"blocking_limit"} \cup Stopped : End(reason)
           \/ pc' = "query" /\ UNCHANGED ending
  /\ UNCHANGED <<mode, run, open, signal, counted, submits, interrupts>>

-----------------------------------------------------------------------------
(* The model's answer *)

(* A complete reply.  After an abort it is kept with a made-up result for   *)
(* each call it asks for.  The model refuses a transcript with orphaned     *)
(* calls.                                                                  *)
Interrupted == signal # "none"

ModelReplies(reply) ==
  /\ pc = "query" /\ ~orphaned
  /\ LET cost == IF run.cost > Budget + Allowance + 1 THEN run.cost ELSE run.cost + 1
     IN  IF Interrupted
         THEN /\ run' = [run EXCEPT !.cost = cost]
              /\ open' = {}
              /\ End(Aborted("aborted_streaming"))
         ELSE /\ run' = [run EXCEPT !.cost = cost, !.errors = 0, !.reply = reply,
                                    !.verified = FALSE,
                                    !.late = IF signal = "none" THEN @ ELSE @ + 1]
              /\ open' = IF reply = "tools" THEN Call ELSE {}
              /\ pc' = "replied" /\ UNCHANGED ending
  /\ UNCHANGED <<mode, orphaned, signal, steers, counted, submits, interrupts>>

(* The prompt is too long for the model: one forced compaction a run. *)
PromptTooLong ==
  /\ pc = "query"
  /\ run' = [run EXCEPT !.compacted = TRUE]
  /\ \/ /\ ~run.compacted
        /\ orphaned' = FALSE
        /\ pc' = "top" /\ UNCHANGED ending
     \/ End("blocking_limit") /\ UNCHANGED orphaned
  /\ UNCHANGED <<mode, open, signal, steers, counted, submits, interrupts>>

(* The model cannot serve the request: one change of model a run. *)
FallBack ==
  /\ pc = "query"
  /\ IF ~run.fallen
     THEN /\ run' = [run EXCEPT !.fallen = TRUE, !.raised = FALSE]
          /\ pc' = "top" /\ UNCHANGED ending
     ELSE /\ End(IF signal # "none" THEN Aborted("aborted_streaming") ELSE "thrown")
          /\ UNCHANGED run
  /\ UNCHANGED <<mode, orphaned, open, signal, steers, counted, submits, interrupts>>

(* How many errors in a row were already answered with another try.  The    *)
(* mutant forgets them with every request.                                 *)
ErrorsForgotten == 0
ErrorsSoFar == run.errors

(* The error goes into the transcript and the turn is tried again. *)
StreamFails ==
  /\ pc = "query"
  /\ IF signal = "none" /\ ErrorsSoFar < MaxRecoveries
     THEN /\ run' = [run EXCEPT !.errors = ErrorsSoFar + 1]
          /\ pc' = "backoff" /\ UNCHANGED ending
     ELSE /\ End(IF signal # "none" THEN Aborted("aborted_streaming") ELSE "thrown")
          /\ UNCHANGED run
  /\ UNCHANGED <<mode, orphaned, open, signal, steers, counted, submits, interrupts>>

(* The pause before another attempt. *)
BackOff ==
  /\ pc = "backoff"
  /\ IF signal # "none" THEN End(Aborted("aborted_streaming"))
     ELSE pc' = "top" /\ UNCHANGED ending
  /\ UNCHANGED <<mode, orphaned, run, open, signal, steers, counted, submits, interrupts>>

(* doneBeforeTools: a result is made up for every call that will not run.  *)
(* The mutant leaves the calls as they are.                                *)
LeftOpen == open
NoneOpen == {}
EndBeforeTools(reason) == open' = NoneOpen /\ End(reason)

(* The post_query hook stops the run. *)
HookStopsReply ==
  /\ pc = "replied"
  /\ \E reason \in Stopped : EndBeforeTools(reason)
  /\ UNCHANGED <<mode, orphaned, run, signal, steers, counted, submits, interrupts>>

(* The reply was cut off at the token limit: the limit is raised once, then *)
(* the model is asked to go on, a bounded number of times (the default,     *)
(* recoverMaxOutputTokens).                                                 *)
ReplyCut ==
  /\ pc = "replied" /\ run.reply = "cut"
  /\ \/ ~run.raised /\ run' = [run EXCEPT !.raised = TRUE] /\ pc' = "top" /\ UNCHANGED ending
     \/ /\ run.raised /\ run.cuts < TokenLimit
        /\ run' = [run EXCEPT !.cuts = @ + 1] /\ pc' = "top" /\ UNCHANGED ending
     \/ run.raised /\ run.cuts >= TokenLimit /\ End("max_output_tokens") /\ UNCHANGED run
  /\ UNCHANGED <<mode, orphaned, open, signal, steers, counted, submits, interrupts>>

ReplyEmpty ==
  /\ pc = "replied" /\ run.reply = "empty"
  /\ IF run.empties < MaxRecoveries
     THEN /\ run' = [run EXCEPT !.empties = @ + 1]
          /\ pc' = "backoff" /\ UNCHANGED ending
     ELSE End("error") /\ UNCHANGED run
  /\ UNCHANGED <<mode, orphaned, open, signal, steers, counted, submits, interrupts>>

RoundsLeft == run.rounds < MaxVerify

(* The model has answered: an unattended run asks its gate, unless the      *)
(* gate has had all its rounds.                                             *)
ReplyText ==
  /\ pc = "replied" /\ run.reply = "text"
  /\ IF run.cost < Budget /\ AutoMode /\ RoundsLeft
     THEN /\ run' = [run EXCEPT !.empties = 0, !.rounds = @ + 1]
          /\ pc' = "verify" /\ UNCHANGED ending
     ELSE /\ run' = [run EXCEPT !.empties = 0]
          /\ End(IF run.cost >= Budget THEN "max_budget_usd"
                 ELSE IF AutoMode THEN "verify_exhausted" ELSE "success")
  /\ UNCHANGED <<mode, orphaned, open, signal, steers, counted, submits, interrupts>>

(* What a gate that could not be asked does to the run.                    *)
WithoutVerdict == IF mode = "lenient" THEN "success" ELSE "auto_verify_unavailable"

(* All attempts of the gate, in one step. *)
Judge(verdict) ==
  /\ pc = "verify"
  /\ run' = [run EXCEPT !.verified = signal = "none" /\ verdict = "done"]
  /\ IF signal # "none" THEN End(Aborted("aborted_tools"))
     ELSE IF verdict = "done" THEN End("success")
     ELSE IF verdict = "unavailable" THEN End(WithoutVerdict)
     ELSE pc' = "top" /\ UNCHANGED ending
  /\ UNCHANGED <<mode, orphaned, open, signal, steers, counted, submits, interrupts>>

-----------------------------------------------------------------------------
(* Tool batches *)

(* The reply asks for tools, and the no-progress guards may stop the run.  *)
ReplyTools ==
  /\ pc = "replied" /\ run.reply = "tools"
  /\ \/ EndBeforeTools("no_progress")
     \/ pc' = "batch" /\ UNCHANGED <<open, ending>>
  /\ UNCHANGED <<mode, orphaned, run, signal, steers, counted, submits, interrupts>>

(* The calls were announced; a checkpoint, and the pre_tool hook. *)
StartBatch ==
  /\ pc = "batch"
  /\ \/ \E reason \in Stopped : EndBeforeTools(reason) /\ UNCHANGED run
     \/ /\ run' = [run EXCEPT !.late = IF signal = "none" THEN @ ELSE @ + 1]
        /\ pc' = "tools" /\ UNCHANGED <<open, ending>>
  /\ UNCHANGED <<mode, orphaned, signal, steers, counted, submits, interrupts>>

(* A tool that parks the run keeps the calls behind it from running, and    *)
(* runTools answers those itself.                                           *)
Answered(ran) == open

(* runTools; one of the tools may park an unattended run. *)
RunTools(park) ==
  /\ pc = "tools"
  /\ park => AutoMode
  /\ run' = [run EXCEPT !.parked = park]
  /\ pc' = "results"
  /\ UNCHANGED <<mode, orphaned, open, signal, steers, counted, submits, ending, interrupts>>

(* The results are reported, then appended; ran are the calls that were    *)
(* executed.  Then the post_tool hook.                                     *)
CommitResults(ran) ==
  /\ pc = "results"
  /\ ran # {} /\ (run.parked \/ ran = open)
  /\ open' = open \ Answered(ran)
  /\ (\E reason \in Stopped : End(reason)) \/ (pc' = "settling" /\ UNCHANGED ending)
  /\ UNCHANGED <<mode, orphaned, run, signal, steers, counted, submits, interrupts>>

(* The permission question throws (it is asked outside the try of the       *)
(* tool's execution), or a listener that is told of trajectory items or     *)
(* denials does, before the results are appended.                           *)
ToolsThrow ==
  /\ pc \in {"tools", "results"}
  /\ End("thrown")
  /\ UNCHANGED <<mode, orphaned, run, open, signal, steers, counted, submits, interrupts>>

(* Whether it looks at the budget. *)
BudgetSpent == run.cost >= Budget

(* The limits and the ends of a batch, in the order of the code. *)
SettleBatch(guard) ==
  /\ pc = "settling"
  /\ guard # "none" => AutoMode
  /\ run' = [run EXCEPT !.turns = @ + 1]
  /\ IF AutoMode /\ run.turns + 1 >= MaxBatches THEN End("auto_tool_batch_limit")
     ELSE IF run.parked THEN End("parked")
     ELSE IF guard # "none" THEN End(guard)
     ELSE IF signal # "none" THEN End(Aborted("aborted_tools"))
     ELSE IF run.turns + 1 >= MaxTurns THEN End("max_turns")
     ELSE IF BudgetSpent THEN End("max_budget_usd")
     ELSE pc' = "top" /\ UNCHANGED ending
  /\ UNCHANGED <<mode, orphaned, open, signal, steers, counted, submits, interrupts>>

-----------------------------------------------------------------------------
LoopStep ==
  \/ Begin \/ TellResult \/ FoldIn \/ Prepare
  \/ \E reply \in Replies : ModelReplies(reply)
  \/ PromptTooLong \/ FallBack \/ StreamFails \/ BackOff
  \/ HookStopsReply \/ ReplyCut \/ ReplyEmpty \/ ReplyText
  \/ \E verdict \in {"done", "rejected", "unavailable"} : Judge(verdict)
  \/ ReplyTools \/ StartBatch
  \/ \E park \in BOOLEAN : RunTools(park)
  \/ \E ran \in SUBSET Call : CommitResults(ran)
  \/ ToolsThrow
  \/ \E guard \in {"none", "no_progress", "auto_drift_unavailable"} : SettleBatch(guard)

ConversationNext == LoopStep \/ Submit \/ Steer \/ Interrupt \/ TimeRunsOut \/ Abandon

ConversationSpec == ConversationInit /\ [][ConversationNext]_talkVars

(* The loop goes on as long as its reader asks for events; model, tools,    *)
(* hooks and gates have timeouts of their own.                              *)
ConversationFairSpec == ConversationSpec /\ WF_talkVars(LoopStep)

-----------------------------------------------------------------------------
(* Type correctness. *)
ConversationTypeOK ==
  /\ mode \in Modes
  /\ pc \in {"idle", "starting", "top", "query", "backoff", "replied", "verify", "batch",
             "tools", "results", "settling", "ending", "told"}
  /\ run \in [errors : 0..MaxRecoveries, empties : 0..MaxRecoveries, cuts : 0..TokenLimit,
              raised : BOOLEAN, compacted : BOOLEAN, fallen : BOOLEAN, rounds : 0..MaxVerify,
              turns : 0..MaxTurns, cost : Nat, reply : Replies, verified : BOOLEAN,
              parked : BOOLEAN, late : Nat]
  /\ open \subseteq Call /\ orphaned \in BOOLEAN /\ signal \in {"none", "interrupt", "limit"}
  /\ steers \subseteq 1..MaxSubmits /\ counted \in Nat /\ submits \in 0..MaxSubmits
  /\ interrupts \in 0..MaxInterrupts

(* A run that returns leaves no tool call without a result in the           *)
(* transcript, whichever way it ends (doneBeforeTools, the abort paths and  *)
(* runTools): a request that replays such a transcript is refused.  Only an *)
(* exception of the tool batch leaves some.                                 *)
NoDanglingCall == pc \in {"ending", "told"} /\ ending # "thrown" => open = {}

(* An unattended run is told as a success only for an answer that its gate  *)
(* has accepted, unless it is configured to do without, or when a phase     *)
(* hook stopped it (KernelSession's subtypeMap).                            *)
VerifiedSuccess ==
  pc \in {"ending", "told"} /\ mode = "unattended" /\ Subtype(ending) = "success"
    => run.verified \/ ending = "phase_hook_abort"

(* After an interrupt or the time limit a run takes at most one more thing  *)
(* up: the batch of a reply that was complete before.                       *)
LittleLateWork == run.late <= 1

(* What a run pays for past its budget is bounded by its recoveries: every  *)
(* path back to the model that does not recover from something checks the   *)
(* budget.                                                                  *)
OverspendBounded ==
  run.cost <= (IF counted < Budget THEN Budget ELSE Budget + 1) + Allowance

(* Every prompt is served to an end: no chain of recoveries, verification   *)
(* rounds and tool batches goes on for ever.                                *)
EveryPromptEnds == ~<>[](pc # "idle")

(* However a run returns, its transcript can be replayed; its success was   *)
(* verified or asked for, and it stopped in time and within what it may     *)
(* spend.                                                                   *)
RunsEndWell == NoDanglingCall /\ VerifiedSuccess /\ LittleLateWork /\ OverspendBounded
=============================================================================
