------------------------- MODULE ConversationProofs -------------------------
(***************************************************************************)
(* Proofs about ConversationLoop, StallGuards and the two together.        *)
(*                                                                         *)
(* However many tools, turns, recoveries, prompts and interrupts there     *)
(* are, a run that returns leaves no tool call without a result, tells an  *)
(* unattended success only of a verified answer or of a phase hook's stop, *)
(* takes up at most one more batch after an abort, and overspends by no    *)
(* more than its recoveries (RunsEndWell).  The invariant says of every place of the loop which     *)
(* calls may be open, how often it may still go back to the model, and     *)
(* that each reply that was paid for past the budget is charged to a       *)
(* recovery.                                                               *)
(*                                                                         *)
(* However long a run is and whatever its limits, the guards stop it for   *)
(* what its history shows (GuardsSound).  The invariant says what of the   *)
(* history each counter and each window holds.                             *)
(***************************************************************************)
EXTENDS MCConversation, SequenceTheorems, FiniteSetTheorems, WellFoundedInduction, TLAPS

Places == {"idle", "starting", "top", "query", "backoff", "replied", "verify", "batch",
           "tools", "results", "settling", "ending", "told"}

Runs == [errors : 0..MaxRecoveries, empties : 0..MaxRecoveries, cuts : 0..TokenLimit,
         raised : BOOLEAN, compacted : BOOLEAN, fallen : BOOLEAN, rounds : 0..MaxVerify,
         turns : 0..MaxTurns, cost : Nat, reply : Replies, verified : BOOLEAN,
         parked : BOOLEAN, late : Nat]

\* Recoveries that led back to the model without a look at the budget: a change of
\* model lets the token limit be raised once more.
Recovered ==
  run.cuts + run.empties + (IF run.raised THEN 1 ELSE 0) + (IF run.fallen THEN 1 ELSE 0)

\* What a run may have paid before it is over its budget.
Base == IF counted < Budget THEN Budget - 1 ELSE Budget

\* What it has paid: at most one reply more than its recoveries, once it has a reply.
CostSound ==
  /\ counted <= Budget
  /\ pc \in {"idle", "starting"} => run.cost = 0
  /\ pc \in {"top", "query", "backoff"} => run.cost <= Base + Recovered
  /\ pc \in {"replied", "batch", "tools", "results", "settling"} => run.cost <= Base + Recovered + 1
  /\ pc = "verify" => run.cost < Budget
  /\ pc \in {"ending", "told"} => run.cost <= Base + Allowance + 1

\* Only a reply that asks for tools has open calls, until its batch is settled or an
\* exception ends the run.
CallsSound ==
  open # {} => \/ pc \in {"batch", "tools", "results"} \/ (pc = "replied" /\ run.reply = "tools")
               \/ pc \in {"ending", "told"} /\ ending = "thrown"

LateSound ==
  \/ run.late = 0
  \/ run.late = 1 /\ signal # "none" /\ pc \in {"tools", "results", "settling", "ending", "told"}

TurnsSound == pc \notin {"idle", "starting", "ending", "told"} => run.turns < MaxTurns

\* Whoever is served has asked.
Asked == pc # "idle" => submits > 0

TalkInv ==
  /\ ConversationTypeOK /\ Asked
  /\ CostSound /\ CallsSound /\ LateSound /\ TurnsSound /\ VerifiedSuccess

USE ConversationAssumption

LEMMA NewRunFacts ==
  ASSUME NEW c \in Nat
  PROVE  /\ NewRun(c) \in Runs
         /\ NewRun(c).cost = c /\ NewRun(c).late = 0 /\ NewRun(c).turns = 0
         /\ NewRun(c).cuts = 0 /\ NewRun(c).empties = 0
         /\ NewRun(c).raised = FALSE /\ NewRun(c).fallen = FALSE
BY DEF NewRun, Runs, Replies

LEMMA RecoveredFacts ==
  ASSUME run \in Runs
  PROVE  Recovered \in Nat /\ Recovered <= Allowance
<1>1. /\ run.cuts \in 0..TokenLimit /\ run.empties \in 0..MaxRecoveries
      /\ run.raised \in BOOLEAN /\ run.fallen \in BOOLEAN
  BY DEF Runs
<1>2. CASE run.raised /\ run.fallen
  BY <1>1, <1>2 DEF Recovered, Allowance
<1>3. CASE run.raised /\ ~run.fallen
  BY <1>1, <1>3 DEF Recovered, Allowance
<1>4. CASE ~run.raised /\ run.fallen
  BY <1>1, <1>4 DEF Recovered, Allowance
<1>5. CASE ~run.raised /\ ~run.fallen
  BY <1>1, <1>5 DEF Recovered, Allowance
<1> QED BY <1>1, <1>2, <1>3, <1>4, <1>5

\* What has its type beside the run, and does not matter to the rest.
OuterTypes ==
  /\ mode \in Modes /\ pc \in Places
  /\ open \subseteq Call /\ orphaned \in BOOLEAN /\ signal \in {"none", "interrupt", "limit"}
  /\ steers \subseteq 1..MaxSubmits /\ counted \in Nat /\ submits \in 0..MaxSubmits
  /\ interrupts \in 0..MaxInterrupts

LEMMA TypesSplit == ConversationTypeOK <=> OuterTypes /\ run \in Runs
BY DEF ConversationTypeOK, OuterTypes, Runs, Places

LEMMA TalkInit == ConversationInit => TalkInv
<1> SUFFICES ASSUME ConversationInit PROVE TalkInv
  OBVIOUS
<1>1. /\ run \in Runs /\ run.cost = 0 /\ run.late = 0
  BY NewRunFacts DEF ConversationInit
<1>2. pc = "idle" /\ open = {} /\ counted = 0
  BY DEF ConversationInit
<1>3. ConversationTypeOK
  <2>1. OuterTypes
    <3>1. mode \in Modes /\ pc \in Places /\ open \subseteq Call /\ orphaned \in BOOLEAN
      BY DEF ConversationInit, Places
    <3>2. signal \in {"none", "interrupt", "limit"} /\ steers \subseteq 1..MaxSubmits
      BY DEF ConversationInit
    <3>3. counted \in Nat /\ submits \in 0..MaxSubmits /\ interrupts \in 0..MaxInterrupts
      BY DEF ConversationInit
    <3> QED BY <3>1, <3>2, <3>3 DEF OuterTypes
  <2> QED BY <1>1, <2>1, TypesSplit
<1> QED
  BY <1>1, <1>2, <1>3 DEF TalkInv, Asked, CostSound, CallsSound, LateSound, TurnsSound, VerifiedSuccess

-----------------------------------------------------------------------------
(* The steps.  Working is the run between its first request and its end. *)

Working == {"top", "query", "backoff", "replied", "verify", "batch", "tools", "results", "settling"}

\* In the middle of a run nothing has been spent beyond its allowance.
LEMMA Paid ==
  ASSUME TalkInv
  PROVE  /\ run \in Runs /\ OuterTypes /\ run.cost \in Nat /\ Base \in Nat /\ Allowance \in Nat
         /\ Recovered \in Nat /\ Recovered <= Allowance
         /\ Budget \in Nat /\ Budget <= Base + 1 /\ Base <= Budget
         /\ pc \in Working => run.cost <= Base + Allowance + 1
<1>1. run \in Runs /\ OuterTypes
  BY TypesSplit DEF TalkInv
<1>2. run.cost \in Nat
  BY <1>1 DEF Runs
<1>3. Base \in Nat /\ Allowance \in Nat /\ Budget \in Nat /\ Budget <= Base + 1 /\ Base <= Budget
  BY DEF Base, Allowance
<1>4. Recovered \in Nat /\ Recovered <= Allowance
  BY <1>1, RecoveredFacts
<1>5. ASSUME pc \in Working PROVE run.cost <= Base + Allowance + 1
  BY <1>2, <1>3, <1>4, <1>5 DEF TalkInv, CostSound, Working
<1> QED BY <1>1, <1>2, <1>3, <1>4, <1>5

\* A run ends: no call is open unless something threw, and a success was earned.
LEMMA EndStep ==
  ASSUME TalkInv, pc \in Working, pc' = "ending", OuterTypes', run' \in Runs,
         UNCHANGED <<mode, signal, counted, submits>>,
         run'.cost <= Base + Allowance + 1, run'.late = run.late, open' = {} \/ ending' = "thrown",
         ending' = "success" /\ mode = "unattended" => run'.verified
  PROVE  TalkInv'
<1>1. ConversationTypeOK'
  BY TypesSplit DEF ConversationTypeOK, OuterTypes, Runs, Places
<1>2. CostSound'
  BY DEF TalkInv, CostSound, Base
<1>3. CallsSound' /\ TurnsSound' /\ Asked'
  BY DEF TalkInv, Asked, Working, CallsSound, TurnsSound
<1>4. LateSound' /\ VerifiedSuccess'
  <2>1. VerifiedSuccess'
    BY DEF VerifiedSuccess, Subtype
  <2> QED BY <2>1 DEF TalkInv, LateSound
<1> QED BY <1>1, <1>2, <1>3, <1>4 DEF TalkInv

\* A run goes on with no open call, and each reply beyond its base is accounted for.
LEMMA GoStep ==
  ASSUME TalkInv, pc \in Working, OuterTypes', run' \in Runs,
         UNCHANGED <<mode, signal, counted, submits>>, open' = {}, run'.late = run.late, run.late = 0,
         run'.turns < MaxTurns,
         \/ pc' \in {"top", "query", "backoff"} /\ run'.cost <= Base + Recovered'
         \/ pc' = "verify" /\ run'.cost < Budget
  PROVE  TalkInv'
<1>1. ConversationTypeOK'
  BY TypesSplit DEF ConversationTypeOK, OuterTypes, Runs, Places
<1>2. CostSound'
  BY DEF TalkInv, CostSound, Base
<1>3. CallsSound' /\ TurnsSound' /\ VerifiedSuccess' /\ LateSound' /\ Asked'
  BY DEF TalkInv, Asked, Working, CallsSound, TurnsSound, VerifiedSuccess, LateSound
<1> QED BY <1>1, <1>2, <1>3 DEF TalkInv

LEMMA SameRecovered ==
  ASSUME run'.cuts = run.cuts, run'.empties = run.empties,
         run'.raised = run.raised, run'.fallen = run.fallen
  PROVE  Recovered' = Recovered
BY DEF Recovered

\* Prompts, interrupts, limits and readers that leave.
LEMMA SessionStep ==
  ASSUME TalkInv, Submit \/ Begin \/ Steer \/ Interrupt \/ TimeRunsOut \/ Abandon \/ TellResult \/ FoldIn
  PROVE  TalkInv'
<1>1. /\ run \in Runs /\ OuterTypes /\ Base \in Nat /\ Allowance \in Nat /\ Recovered \in Nat
      /\ Budget \in Nat /\ counted \in Nat /\ counted <= Budget
  BY Paid DEF TalkInv, CostSound, OuterTypes
<1>2. CASE Submit
  <2>1. /\ pc = "idle" /\ pc' = "starting" /\ run' = run /\ open' = open /\ counted' = counted
        /\ mode' = mode
    BY <1>2 DEF Submit
  <2>2. submits' > 0
    BY <1>1, <1>2 DEF Submit, OuterTypes
  <2>3. OuterTypes'
    <3>1. submits' \in 0..MaxSubmits /\ steers' = {} /\ signal' = "none"
      BY <1>1, <1>2 DEF Submit, OuterTypes
    <3>2. UNCHANGED <<mode, orphaned, open, counted, interrupts>>
      BY <1>2 DEF Submit
    <3> QED BY <1>1, <2>1, <3>1, <3>2 DEF OuterTypes, Places
  <2>4. run.late = 0 /\ open = {}
    BY <2>1 DEF TalkInv, LateSound, CallsSound
  <2>5. ConversationTypeOK'
    BY <1>1, <2>1, <2>3 DEF ConversationTypeOK, OuterTypes, Runs, Places
  <2> QED
    BY <2>1, <2>4, <2>5, <2>2 DEF TalkInv, Asked, CostSound, CallsSound, LateSound, TurnsSound, VerifiedSuccess
<1>3. CASE Begin
  <2>1. /\ pc = "starting" /\ pc' = "top" /\ run' = NewRun(counted) /\ open' = open
        /\ counted' = counted /\ signal' = "none" /\ mode' = mode
    BY <1>3 DEF Begin
  <2>2. OuterTypes'
    BY <1>1, <1>3, <2>1 DEF Begin, OuterTypes, Places
  <2>3. open = {}
    BY <2>1 DEF TalkInv, CallsSound
  <2>4. run' \in Runs /\ run'.cost = counted /\ run'.late = 0 /\ run'.turns = 0
    BY <1>1, <2>1, NewRunFacts
  <2>5. Recovered' = 0
    <3>1. run'.cuts = 0 /\ run'.empties = 0 /\ run'.raised = FALSE /\ run'.fallen = FALSE
      BY <1>1, <2>1, NewRunFacts
    <3> QED BY <3>1 DEF Recovered
  <2>6. ConversationTypeOK'
    BY <2>2, <2>4 DEF ConversationTypeOK, OuterTypes, Runs, Places
  <2>7. CostSound'
    BY <1>1, <2>1, <2>4, <2>5 DEF CostSound, Base
  <2> QED
    BY <1>3, <2>1, <2>3, <2>4, <2>6, <2>7 DEF Begin, TalkInv, Asked, CallsSound, LateSound, TurnsSound, VerifiedSuccess
<1>4. CASE Steer
  <2>1. pc # "idle" /\ UNCHANGED <<mode, orphaned, pc, run, open, signal, counted, submits, ending, interrupts>>
    BY <1>4 DEF Steer
  <2>2. steers' = steers \cup {submits}
    BY <1>4 DEF Steer
  <2>3. steers' \subseteq 1..MaxSubmits
    BY <1>1, <2>1, <2>2 DEF TalkInv, Asked, OuterTypes
  <2>4. ConversationTypeOK'
    BY <1>1, <2>1, <2>3 DEF ConversationTypeOK, OuterTypes, Runs, Places
  <2> QED BY <2>1, <2>4
    DEF TalkInv, Asked, CostSound, CallsSound, LateSound, TurnsSound, VerifiedSuccess, Recovered, Base
<1>5. CASE Interrupt
  <2>1. UNCHANGED <<mode, orphaned, pc, run, open, steers, counted, submits, ending>>
    BY <1>5 DEF Interrupt
  <2>2. signal = "none" /\ signal' \in {"none", "interrupt"} /\ interrupts' \in 0..MaxInterrupts
    BY <1>1, <1>5 DEF Interrupt, OuterTypes
  <2>3. ConversationTypeOK'
    BY <1>1, <2>1, <2>2 DEF ConversationTypeOK, OuterTypes, Runs, Places
  <2> QED BY <2>1, <2>2, <2>3
    DEF TalkInv, Asked, CostSound, CallsSound, LateSound, TurnsSound, VerifiedSuccess, Recovered, Base
<1>6. CASE TimeRunsOut
  <2>1. UNCHANGED <<mode, orphaned, pc, run, open, steers, counted, submits, ending>>
    BY <1>6 DEF TimeRunsOut
  <2>2. signal = "none" /\ signal' = "limit" /\ interrupts' \in 0..MaxInterrupts
    BY <1>1, <1>6 DEF TimeRunsOut, OuterTypes
  <2>3. ConversationTypeOK'
    BY <1>1, <2>1, <2>2 DEF ConversationTypeOK, OuterTypes, Runs, Places
  <2> QED BY <2>1, <2>2, <2>3
    DEF TalkInv, Asked, CostSound, CallsSound, LateSound, TurnsSound, VerifiedSuccess, Recovered, Base
<1>7. CASE Abandon
  <2>1. /\ pc' = "idle" /\ run' = NewRun(0) /\ open' = {} /\ ending' = "abandoned"
        /\ orphaned' \in BOOLEAN /\ UNCHANGED <<mode, signal, steers, counted, submits>>
    BY <1>1, <1>7 DEF Abandon, OuterTypes
  <2>2. interrupts' \in 0..MaxInterrupts
    BY <1>1, <1>7 DEF Abandon, OuterTypes
  <2>3. run' \in Runs /\ run'.cost = 0 /\ run'.late = 0
    BY <2>1, NewRunFacts
  <2>4. ConversationTypeOK'
    BY <1>1, <2>1, <2>2, <2>3 DEF ConversationTypeOK, OuterTypes, Runs, Places
  <2> QED
    BY <1>1, <2>1, <2>3, <2>4 DEF TalkInv, Asked, CostSound, CallsSound, LateSound, TurnsSound, VerifiedSuccess
<1>8. CASE TellResult
  <2>1. pc = "ending" /\ pc' = "told"
        /\ UNCHANGED <<mode, orphaned, run, open, signal, steers, counted, submits, ending, interrupts>>
    BY <1>8 DEF TellResult
  <2>2. ConversationTypeOK'
    BY <1>1, <2>1 DEF ConversationTypeOK, OuterTypes, Runs, Places
  <2> QED BY <2>1, <2>2
    DEF TalkInv, Asked, CostSound, CallsSound, LateSound, TurnsSound, VerifiedSuccess, Base
<1>9. CASE FoldIn
  <2>1. /\ pc = "told" /\ pc' = "idle" /\ run' = NewRun(0) /\ open' = {} /\ orphaned' \in BOOLEAN
        /\ UNCHANGED <<mode, signal, steers, submits, ending, interrupts>>
    BY <1>1, <1>9 DEF FoldIn, OuterTypes
  <2>2. counted' \in Nat /\ counted' <= Budget
    <3>1. run.cost \in Nat
      BY <1>1 DEF Runs
    <3>2. counted' \in {counted, Budget, run.cost} /\ (counted' = run.cost => run.cost <= Budget \/ counted' \in {counted, Budget})
      BY <1>1, <1>9, <3>1 DEF FoldIn
    <3> QED BY <1>1, <3>1, <3>2
  <2>3. run' \in Runs /\ run'.cost = 0 /\ run'.late = 0
    BY <2>1, NewRunFacts
  <2>4. ConversationTypeOK'
    BY <1>1, <2>1, <2>2, <2>3 DEF ConversationTypeOK, OuterTypes, Runs, Places
  <2> QED BY <2>1, <2>2, <2>3, <2>4
    DEF TalkInv, Asked, CostSound, CallsSound, LateSound, TurnsSound, VerifiedSuccess
<1> QED BY <1>2, <1>3, <1>4, <1>5, <1>6, <1>7, <1>8, <1>9

\* A reply is held, or its batch goes on.
LEMMA HoldStep ==
  ASSUME TalkInv, pc \in Working, OuterTypes', run' \in Runs,
         pc' \in {"replied", "batch", "tools", "results", "settling"},
         UNCHANGED <<mode, signal, counted, submits>>,
         run'.cost <= Base + Recovered' + 1, run'.turns < MaxTurns, CallsSound', LateSound'
  PROVE  TalkInv'
<1>1. ConversationTypeOK'
  BY TypesSplit DEF ConversationTypeOK, OuterTypes, Runs, Places
<1>2. CostSound'
  BY DEF TalkInv, CostSound, Base
<1>3. TurnsSound' /\ VerifiedSuccess' /\ Asked'
  BY DEF TalkInv, Asked, Working, TurnsSound, VerifiedSuccess
<1> QED BY <1>1, <1>2, <1>3 DEF TalkInv

\* The outer types survive a step that stays within a served prompt.
LEMMA OuterStep ==
  ASSUME OuterTypes, pc' \in Places, open' \subseteq open \cup Call,
         orphaned' \in {orphaned, FALSE}, steers' \subseteq steers,
         UNCHANGED <<mode, signal, counted, submits, interrupts>>
  PROVE  OuterTypes'
<1>1. mode' \in Modes /\ pc' \in Places /\ orphaned' \in BOOLEAN
  BY DEF OuterTypes
<1>2. open' \subseteq Call /\ steers' \subseteq 1..MaxSubmits
  BY DEF OuterTypes
<1>3. signal' \in {"none", "interrupt", "limit"} /\ counted' \in Nat
      /\ submits' \in 0..MaxSubmits /\ interrupts' \in 0..MaxInterrupts
  BY DEF OuterTypes
<1> QED BY <1>1, <1>2, <1>3 DEF OuterTypes

\* What is known while the model is waited for, or its failure is slept on.
LEMMA Waiting ==
  ASSUME TalkInv, pc \in {"top", "query", "backoff"}
  PROVE  /\ pc \in Working /\ run.cost <= Base + Recovered /\ run.late = 0 /\ open = {}
         /\ run.turns < MaxTurns
<1>1. pc \in Working /\ run.cost <= Base + Recovered
  BY DEF TalkInv, CostSound, Working
<1>2. run.late = 0
  BY DEF TalkInv, LateSound
<1>3. open = {} /\ run.turns < MaxTurns
  BY DEF TalkInv, CallsSound, TurnsSound
<1> QED BY <1>1, <1>2, <1>3

LEMMA PrepareStep ==
  ASSUME TalkInv, Prepare
  PROVE  TalkInv'
<1>1. /\ run \in Runs /\ OuterTypes /\ run.cost \in Nat /\ Base \in Nat /\ Allowance \in Nat
      /\ Recovered \in Nat /\ Recovered <= Allowance
  BY Paid
<1>2. pc = "top" /\ UNCHANGED <<mode, run, open, signal, counted, submits, interrupts>>
  BY DEF Prepare
<1>3. pc \in Working /\ run.cost <= Base + Recovered /\ run.late = 0 /\ open = {} /\ run.turns < MaxTurns
  BY <1>2, Waiting
<1>4. orphaned' \in {orphaned, FALSE} /\ steers' \subseteq steers
  BY DEF Prepare
<1>5. pc' = "query" \/ (pc' = "ending" /\ ending' # "success")
  BY DEF Prepare, End, Stopped
<1>6. OuterTypes'
  BY <1>1, <1>2, <1>4, <1>5, OuterStep DEF Places
<1>7. Recovered' = Recovered
  BY <1>2, SameRecovered
<1>8. CASE pc' = "query"
  BY <1>1, <1>2, <1>3, <1>6, <1>7, <1>8, GoStep
<1>9. CASE pc' = "ending" /\ ending' # "success"
  BY <1>1, <1>2, <1>3, <1>6, <1>9, EndStep
<1> QED BY <1>5, <1>8, <1>9

LEMMA ReplyStep ==
  ASSUME TalkInv, NEW reply \in Replies, ModelReplies(reply)
  PROVE  TalkInv'
<1> DEFINE cost == IF run.cost > Budget + Allowance + 1 THEN run.cost ELSE run.cost + 1
<1>1. /\ run \in Runs /\ OuterTypes /\ run.cost \in Nat /\ Base \in Nat /\ Allowance \in Nat
      /\ Recovered \in Nat /\ Recovered <= Allowance /\ Budget \in Nat
  BY Paid
<1>2. pc = "query" /\ UNCHANGED <<mode, orphaned, signal, steers, counted, submits, interrupts>>
  BY DEF ModelReplies
<1>3. pc \in Working /\ run.cost <= Base + Recovered /\ run.late = 0 /\ open = {} /\ run.turns < MaxTurns
  BY <1>2, Waiting
<1>4. cost \in Nat /\ cost <= run.cost + 1
  BY <1>1
<1>5. CASE Interrupted
  <2>1. /\ run' = [run EXCEPT !.cost = cost] /\ open' = {} /\ pc' = "ending"
        /\ ending' = Aborted("aborted_streaming")
    BY <1>5 DEF ModelReplies, End
  <2> HIDE DEF cost
  <2>2. run' \in Runs /\ run'.cost = cost /\ run'.late = run.late
    BY <1>1, <1>4, <2>1 DEF Runs
  <2>3. ending' # "success"
    BY <2>1 DEF Aborted
  <2>4. OuterTypes'
    BY <1>1, <1>2, <2>1, OuterStep DEF Places
  <2>5. run'.cost <= Base + Allowance + 1
    BY <1>1, <1>3, <1>4, <2>2
  <2> QED BY <1>2, <1>3, <2>1, <2>2, <2>3, <2>4, <2>5, EndStep
<1>6. CASE ~Interrupted
  <2>1. /\ run' = [run EXCEPT !.cost = cost, !.errors = 0, !.reply = reply, !.verified = FALSE,
                             !.late = IF signal = "none" THEN @ ELSE @ + 1]
        /\ open' = (IF reply = "tools" THEN Call ELSE {}) /\ pc' = "replied"
    BY <1>6 DEF ModelReplies
  <2>2. signal = "none"
    BY <1>6 DEF Interrupted
  <2> HIDE DEF cost
  <2>3. run' = [run EXCEPT !.cost = cost, !.errors = 0, !.reply = reply, !.verified = FALSE,
                          !.late = run.late]
    BY <2>1, <2>2
  <2>4. /\ run' \in Runs /\ run'.cost = cost /\ run'.late = run.late /\ run'.reply = reply
        /\ run'.turns = run.turns /\ run'.cuts = run.cuts /\ run'.empties = run.empties
        /\ run'.raised = run.raised /\ run'.fallen = run.fallen
    <3>1. 0 \in 0..MaxRecoveries /\ run.late \in Nat
      BY <1>1 DEF Runs
    <3> QED BY <1>1, <1>4, <2>3, <3>1 DEF Runs
  <2>5. Recovered' = Recovered
    BY <2>4, SameRecovered
  <2>6. OuterTypes'
    BY <1>1, <1>2, <2>1, OuterStep DEF Places
  <2>7. run'.cost <= Base + Recovered' + 1
    BY <1>1, <1>3, <1>4, <2>4, <2>5
  <2>8. CallsSound' /\ LateSound'
    BY <1>3, <2>1, <2>4 DEF CallsSound, LateSound
  <2> QED BY <1>2, <1>3, <2>1, <2>4, <2>6, <2>7, <2>8, HoldStep
<1> QED BY <1>5, <1>6

\* A request that fails, in whichever way, costs nothing.
LEMMA FailureStep ==
  ASSUME TalkInv, PromptTooLong \/ FallBack \/ StreamFails \/ BackOff
  PROVE  TalkInv'
<1>1. /\ run \in Runs /\ OuterTypes /\ run.cost \in Nat /\ Base \in Nat /\ Allowance \in Nat
      /\ Recovered \in Nat /\ Recovered <= Allowance
  BY Paid
<1>2. /\ pc \in {"query", "backoff"} /\ orphaned' \in {orphaned, FALSE}
      /\ UNCHANGED <<mode, open, signal, steers, counted, submits, interrupts>>
  BY DEF PromptTooLong, FallBack, StreamFails, BackOff
<1>3. pc \in Working /\ run.cost <= Base + Recovered /\ run.late = 0 /\ open = {} /\ run.turns < MaxTurns
  BY <1>2, Waiting
<1>4. pc' \in {"top", "backoff"} \/ (pc' = "ending" /\ ending' # "success")
  BY DEF PromptTooLong, FallBack, StreamFails, BackOff, End, Aborted
<1>5. OuterTypes'
  BY <1>1, <1>2, <1>4, OuterStep DEF Places
<1>6. /\ run' \in Runs /\ run'.cost = run.cost /\ run'.late = run.late /\ run'.turns = run.turns
      /\ Recovered' >= Recovered /\ Recovered' \in Nat
  <2>1. CASE UNCHANGED run
    BY <1>1, <2>1, SameRecovered
  <2>2. CASE run' = [run EXCEPT !.compacted = TRUE]
    <3>1. run' \in Runs
      BY <1>1, <2>2 DEF Runs
    <3>2. /\ run'.cost = run.cost /\ run'.late = run.late /\ run'.turns = run.turns
          /\ run'.cuts = run.cuts /\ run'.empties = run.empties
          /\ run'.raised = run.raised /\ run'.fallen = run.fallen
      BY <1>1, <2>2 DEF Runs
    <3> QED BY <1>1, <3>1, <3>2, SameRecovered
  <2>3. CASE run.errors < MaxRecoveries /\ run' = [run EXCEPT !.errors = run.errors + 1]
    <3>1. run.errors + 1 \in 0..MaxRecoveries
      BY <1>1, <2>3 DEF Runs
    <3>2. run' \in Runs
      BY <1>1, <2>3, <3>1 DEF Runs
    <3>3. /\ run'.cost = run.cost /\ run'.late = run.late /\ run'.turns = run.turns
          /\ run'.cuts = run.cuts /\ run'.empties = run.empties
          /\ run'.raised = run.raised /\ run'.fallen = run.fallen
      BY <1>1, <2>3 DEF Runs
    <3> QED BY <1>1, <3>2, <3>3, SameRecovered
  <2>4. CASE ~run.fallen /\ run' = [run EXCEPT !.fallen = TRUE, !.raised = FALSE]
    <3>1. run' \in Runs
      BY <1>1, <2>4 DEF Runs
    <3>2. /\ run'.cost = run.cost /\ run'.late = run.late /\ run'.turns = run.turns
          /\ run'.cuts = run.cuts /\ run'.empties = run.empties
          /\ run'.raised = FALSE /\ run'.fallen = TRUE
      BY <1>1, <2>4 DEF Runs
    <3>3. run.cuts \in Nat /\ run.empties \in Nat
      BY <1>1 DEF Runs
    <3>4. Recovered' = run.cuts + run.empties + 1
      BY <3>2, <3>3 DEF Recovered
    <3>5. Recovered <= run.cuts + run.empties + 1
      BY <2>4, <3>3 DEF Recovered
    <3> QED BY <1>1, <3>1, <3>2, <3>3, <3>4, <3>5
  <2>5. \/ UNCHANGED run
        \/ run' = [run EXCEPT !.compacted = TRUE]
        \/ run.errors < MaxRecoveries /\ run' = [run EXCEPT !.errors = run.errors + 1]
        \/ ~run.fallen /\ run' = [run EXCEPT !.fallen = TRUE, !.raised = FALSE]
    BY DEF PromptTooLong, FallBack, StreamFails, BackOff, ErrorsSoFar
  <2> QED BY <2>1, <2>2, <2>3, <2>4, <2>5
<1>7. CASE pc' \in {"top", "backoff"}
  <2>1. run'.cost <= Base + Recovered'
    BY <1>1, <1>3, <1>6
  <2> QED BY <1>2, <1>3, <1>5, <1>6, <1>7, <2>1, GoStep
<1>8. CASE pc' = "ending" /\ ending' # "success"
  <2>1. run'.cost <= Base + Allowance + 1
    BY <1>1, <1>3, <1>6
  <2> QED BY <1>2, <1>3, <1>5, <1>6, <1>8, <2>1, EndStep
<1> QED BY <1>4, <1>7, <1>8

\* What is known while a reply is held.
LEMMA Holding ==
  ASSUME TalkInv, pc \in {"replied", "batch", "tools", "results", "settling"}
  PROVE  /\ pc \in Working /\ run.cost <= Base + Recovered + 1
         /\ run.turns < MaxTurns
         /\ run.late = 0 \/ (run.late = 1 /\ signal # "none")
<1>1. pc \in Working /\ run.cost <= Base + Recovered + 1
  BY DEF TalkInv, CostSound, Working
<1>2. run.turns < MaxTurns
  BY DEF TalkInv, TurnsSound
<1>3. run.late = 0 \/ (run.late = 1 /\ signal # "none")
  BY DEF TalkInv, LateSound
<1> QED BY <1>1, <1>2, <1>3

\* A reply that is cut, empty or an answer is recovered from, judged, or the last.
LEMMA AnswerStep ==
  ASSUME TalkInv, HookStopsReply \/ ReplyCut \/ ReplyEmpty \/ ReplyText
  PROVE  TalkInv'
<1>1. /\ run \in Runs /\ OuterTypes /\ run.cost \in Nat /\ Base \in Nat /\ Allowance \in Nat
      /\ Recovered \in Nat /\ Recovered <= Allowance /\ Budget \in Nat
  BY Paid
<1>2. /\ pc = "replied" /\ open' = {}
      /\ UNCHANGED <<mode, orphaned, signal, steers, counted, submits, interrupts>>
  BY DEF HookStopsReply, ReplyCut, ReplyEmpty, ReplyText, EndBeforeTools, NoneOpen,
         TalkInv, CallsSound
<1>3. pc \in Working /\ run.cost <= Base + Recovered + 1 /\ run.turns < MaxTurns
  BY <1>2, Holding
<1>4. run.late = 0
  BY <1>2 DEF TalkInv, LateSound
<1>5. run.cuts \in 0..TokenLimit /\ run.empties \in 0..MaxRecoveries /\ run.rounds \in 0..MaxVerify
  BY <1>1 DEF Runs
<1>6. ASSUME pc' \in Places PROVE OuterTypes'
  BY <1>1, <1>2, <1>6, OuterStep
<1>7. ASSUME pc' = "ending", run' \in Runs, run'.cost = run.cost, run'.late = run.late,
             ending' = "success" => mode # "unattended"
      PROVE  TalkInv'
  <2>1. OuterTypes'
    BY <1>6, <1>7 DEF Places
  <2>2. run'.cost <= Base + Allowance + 1
    BY <1>1, <1>3, <1>7
  <2> QED BY <1>2, <1>3, <1>7, <2>1, <2>2, EndStep
<1>8. ASSUME pc' \in {"top", "backoff"}, run' \in Runs, run'.cost = run.cost, run'.late = run.late,
             run'.turns = run.turns, Recovered' = Recovered + 1
      PROVE  TalkInv'
  <2>1. OuterTypes'
    BY <1>6, <1>8 DEF Places
  <2>2. run'.cost <= Base + Recovered'
    BY <1>1, <1>3, <1>8
  <2> QED BY <1>2, <1>3, <1>4, <1>8, <2>1, <2>2, GoStep
<1>9. CASE HookStopsReply
  BY <1>1, <1>7, <1>9 DEF HookStopsReply, EndBeforeTools, NoneOpen, End, Stopped
<1>10. CASE ReplyCut
  <2>1. CASE ~run.raised /\ run' = [run EXCEPT !.raised = TRUE] /\ pc' = "top"
    <3>1. /\ run' \in Runs /\ run'.cost = run.cost /\ run'.late = run.late
          /\ run'.turns = run.turns /\ run'.cuts = run.cuts /\ run'.empties = run.empties
          /\ run'.raised = TRUE /\ run'.fallen = run.fallen
      BY <1>1, <2>1 DEF Runs
    <3>2. Recovered' = Recovered + 1
      <4> DEFINE f == IF run.fallen THEN 1 ELSE 0
      <4>1. f \in Nat /\ Recovered = run.cuts + run.empties + f
        BY <1>5, <2>1 DEF Recovered
      <4>2. Recovered' = run.cuts + run.empties + 1 + f
        BY <3>1 DEF Recovered
      <4> HIDE DEF f
      <4> QED BY <1>5, <4>1, <4>2
    <3> QED BY <1>8, <2>1, <3>1, <3>2
  <2>2. CASE run.raised /\ run.cuts < TokenLimit /\ run' = [run EXCEPT !.cuts = @ + 1] /\ pc' = "top"
    <3>1. run.cuts + 1 \in 0..TokenLimit
      BY <1>5, <2>2
    <3>2. /\ run' \in Runs /\ run'.cost = run.cost /\ run'.late = run.late
          /\ run'.turns = run.turns /\ run'.cuts = run.cuts + 1 /\ run'.empties = run.empties
          /\ run'.raised = run.raised /\ run'.fallen = run.fallen
      BY <1>1, <2>2, <3>1 DEF Runs
    <3>3. Recovered' = Recovered + 1
      <4> DEFINE f == (IF run.raised THEN 1 ELSE 0) + (IF run.fallen THEN 1 ELSE 0)
      <4>1. f \in Nat /\ Recovered = run.cuts + run.empties + f
        BY <1>5 DEF Recovered
      <4>2. Recovered' = run.cuts + 1 + run.empties + f
        BY <1>5, <3>2 DEF Recovered
      <4> HIDE DEF f
      <4> QED BY <1>5, <4>1, <4>2
    <3> QED BY <1>8, <2>2, <3>2, <3>3
  <2>3. CASE pc' = "ending" /\ ending' = "max_output_tokens" /\ UNCHANGED run
    BY <1>1, <1>7, <2>3
  <2> QED BY <1>10, <2>1, <2>2, <2>3 DEF ReplyCut, End
<1>11. CASE ReplyEmpty
  <2>1. CASE run.empties < MaxRecoveries /\ run' = [run EXCEPT !.empties = @ + 1] /\ pc' = "backoff"
    <3>1. run.empties + 1 \in 0..MaxRecoveries
      BY <1>5, <2>1
    <3>2. /\ run' \in Runs /\ run'.cost = run.cost /\ run'.late = run.late
          /\ run'.turns = run.turns /\ run'.cuts = run.cuts /\ run'.empties = run.empties + 1
          /\ run'.raised = run.raised /\ run'.fallen = run.fallen
      BY <1>1, <2>1, <3>1 DEF Runs
    <3>3. Recovered' = Recovered + 1
      <4> DEFINE f == (IF run.raised THEN 1 ELSE 0) + (IF run.fallen THEN 1 ELSE 0)
      <4>1. f \in Nat /\ Recovered = run.cuts + run.empties + f
        BY <1>5 DEF Recovered
      <4>2. Recovered' = run.cuts + run.empties + 1 + f
        BY <1>5, <3>2 DEF Recovered
      <4> HIDE DEF f
      <4> QED BY <1>5, <4>1, <4>2
    <3> QED BY <1>8, <2>1, <3>2, <3>3
  <2>2. CASE pc' = "ending" /\ ending' = "error" /\ UNCHANGED run
    BY <1>1, <1>7, <2>2
  <2> QED BY <1>11, <2>1, <2>2 DEF ReplyEmpty, End
<1>12. CASE ReplyText
  <2>1. CASE run.cost < Budget /\ AutoMode /\ RoundsLeft
    <3>1. run' = [run EXCEPT !.empties = 0, !.rounds = run.rounds + 1] /\ pc' = "verify"
      <4>1. run' = [run EXCEPT !.empties = 0, !.rounds = @ + 1] /\ pc' = "verify"
        BY <1>12, <2>1 DEF ReplyText
      <4> QED BY <1>1, <4>1 DEF Runs
    <3>2. run.rounds + 1 \in 0..MaxVerify /\ 0 \in 0..MaxRecoveries
      BY <1>5, <2>1 DEF RoundsLeft
    <3>3. run' \in Runs /\ run'.cost = run.cost /\ run'.late = run.late /\ run'.turns = run.turns
      BY <1>1, <3>1, <3>2 DEF Runs
    <3>4. OuterTypes'
      BY <1>6, <3>1 DEF Places
    <3> QED BY <1>2, <1>3, <1>4, <2>1, <3>1, <3>3, <3>4, GoStep
  <2>2. CASE ~(run.cost < Budget /\ AutoMode /\ RoundsLeft)
    <3>1. run' = [run EXCEPT !.empties = 0] /\ pc' = "ending"
      BY <1>12, <2>2 DEF ReplyText, End
    <3>2. run' \in Runs /\ run'.cost = run.cost /\ run'.late = run.late
      BY <1>1, <3>1 DEF Runs
    <3>3. ending' = "success" => mode # "unattended"
      <4>1. ending' = (IF run.cost >= Budget THEN "max_budget_usd"
                       ELSE IF AutoMode THEN "verify_exhausted" ELSE "success")
        BY <1>12, <2>2 DEF ReplyText, End
      <4> QED BY <4>1 DEF AutoMode
    <3> QED BY <1>7, <3>1, <3>2, <3>3
  <2> QED BY <2>1, <2>2
<1> QED BY <1>9, <1>10, <1>11, <1>12

\* The gate: its verdict is the only way to a verified success.
LEMMA JudgeStep ==
  ASSUME TalkInv, NEW verdict, Judge(verdict)
  PROVE  TalkInv'
<1>1. /\ run \in Runs /\ OuterTypes /\ run.cost \in Nat /\ Base \in Nat /\ Allowance \in Nat
      /\ Recovered \in Nat /\ Recovered <= Allowance /\ Budget \in Nat /\ Budget <= Base + 1
      /\ Base <= Budget
  BY Paid
<1>2. pc = "verify" /\ UNCHANGED <<mode, orphaned, open, signal, steers, counted, submits, interrupts>>
  BY DEF Judge
<1>3. run.cost < Budget /\ run.late = 0 /\ open = {} /\ run.turns < MaxTurns /\ pc \in Working
  BY <1>2 DEF TalkInv, CostSound, LateSound, CallsSound, TurnsSound, Working
<1> DEFINE accepted == signal = "none" /\ verdict = "done"
<1>4. run' = [run EXCEPT !.verified = accepted] /\ accepted \in BOOLEAN
  BY DEF Judge
<1>5. /\ pc' = "ending" \/ pc' = "top"
      /\ pc' = "ending" /\ ending' = "success" /\ mode = "unattended" => accepted
  BY DEF Judge, End, Aborted, WithoutVerdict
<1> HIDE DEF accepted
<1>6. /\ run' \in Runs /\ run'.cost = run.cost /\ run'.late = run.late /\ run'.turns = run.turns
      /\ run'.verified = accepted /\ run'.cuts = run.cuts /\ run'.empties = run.empties
      /\ run'.raised = run.raised /\ run'.fallen = run.fallen
  BY <1>1, <1>4 DEF Runs
<1>7. OuterTypes'
  BY <1>1, <1>2, <1>5, OuterStep DEF Places
<1>8. Recovered' = Recovered
  BY <1>6, SameRecovered
<1>9. run'.cost <= Base + Recovered' /\ run'.cost <= Base + Allowance + 1
  BY <1>1, <1>3, <1>6, <1>8
<1>10. CASE pc' = "top"
  BY <1>2, <1>3, <1>6, <1>7, <1>9, <1>10, GoStep
<1>11. CASE pc' = "ending"
  BY <1>2, <1>3, <1>5, <1>6, <1>7, <1>9, <1>11, EndStep
<1> QED BY <1>5, <1>10, <1>11

\* A batch is announced, started, run and reported, or something throws.
LEMMA BatchStep ==
  ASSUME TalkInv,
         \/ ReplyTools \/ StartBatch
         \/ \E park \in BOOLEAN : RunTools(park)
         \/ \E ran \in SUBSET Call : CommitResults(ran)
         \/ ToolsThrow
  PROVE  TalkInv'
<1>1. /\ run \in Runs /\ OuterTypes /\ run.cost \in Nat /\ Base \in Nat /\ Allowance \in Nat
      /\ Recovered \in Nat /\ Recovered <= Allowance /\ Budget \in Nat
  BY Paid
<1>2. /\ pc \in {"replied", "batch", "tools", "results"}
      /\ UNCHANGED <<mode, orphaned, signal, steers, counted, submits, interrupts>>
  BY DEF ReplyTools, StartBatch, RunTools, CommitResults, ToolsThrow
<1>3. /\ pc \in Working /\ run.cost <= Base + Recovered + 1 /\ run.turns < MaxTurns
      /\ run.late = 0 \/ (run.late = 1 /\ signal # "none")
  BY <1>2, Holding
<1>4. ASSUME pc' = "ending", open' = {}, ending' # "success", UNCHANGED run
      PROVE  TalkInv'
  <2>1. OuterTypes'
    BY <1>1, <1>2, <1>4, OuterStep DEF Places
  <2>2. run'.cost <= Base + Allowance + 1
    BY <1>1, <1>3, <1>4
  <2> QED BY <1>1, <1>2, <1>3, <1>4, <2>1, <2>2, EndStep
<1>5. ASSUME pc' \in {"batch", "tools", "results", "settling"}, open' \subseteq open,
             run' \in Runs, run'.cost = run.cost, run'.turns = run.turns, run'.cuts = run.cuts,
             run'.empties = run.empties, run'.raised = run.raised, run'.fallen = run.fallen,
             CallsSound', LateSound'
      PROVE  TalkInv'
  <2>1. OuterTypes'
    BY <1>1, <1>2, <1>5, OuterStep DEF Places
  <2>2. Recovered' = Recovered
    BY <1>5, SameRecovered
  <2>3. run'.cost <= Base + Recovered' + 1
    BY <1>1, <1>3, <1>5, <2>2
  <2> QED BY <1>2, <1>3, <1>5, <2>1, <2>3, HoldStep
<1>6. CASE ReplyTools
  <2>1. run' = run /\ pc = "replied"
    BY <1>6 DEF ReplyTools
  <2>2. run.late = 0
    BY <2>1 DEF TalkInv, LateSound
  <2>3. CASE EndBeforeTools("no_progress")
    <3>1. pc' = "ending" /\ open' = {} /\ ending' # "success" /\ UNCHANGED run
      BY <2>1, <2>3 DEF EndBeforeTools, NoneOpen, End
    <3> QED BY <1>4, <3>1
  <2>4. CASE pc' = "batch" /\ UNCHANGED open
    BY <1>1, <1>5, <2>1, <2>2, <2>4 DEF CallsSound, LateSound
  <2> QED BY <1>6, <2>3, <2>4 DEF ReplyTools
<1>7. CASE StartBatch
  <2>1. CASE (\E reason \in Stopped : EndBeforeTools(reason)) /\ UNCHANGED run
    <3>1. pc' = "ending" /\ open' = {} /\ ending' # "success"
      BY <2>1 DEF EndBeforeTools, NoneOpen, End, Stopped
    <3> QED BY <1>4, <2>1, <3>1
  <2>2. CASE /\ run' = [run EXCEPT !.late = IF signal = "none" THEN @ ELSE @ + 1]
             /\ pc' = "tools" /\ UNCHANGED open
    <3>1. run.late = 0
      BY <1>7 DEF StartBatch, TalkInv, LateSound
    <3> DEFINE l == IF signal = "none" THEN 0 ELSE 1
    <3>2. run' = [run EXCEPT !.late = l] /\ l \in Nat /\ (l = 0 \/ (l = 1 /\ signal # "none"))
      BY <2>2, <3>1
    <3> HIDE DEF l
    <3>3. /\ run' \in Runs /\ run'.cost = run.cost /\ run'.turns = run.turns
          /\ run'.cuts = run.cuts /\ run'.empties = run.empties
          /\ run'.raised = run.raised /\ run'.fallen = run.fallen /\ run'.late = l
      BY <1>1, <3>2 DEF Runs
    <3>4. CallsSound' /\ LateSound'
      BY <1>2, <2>2, <3>2, <3>3 DEF CallsSound, LateSound
    <3> QED BY <1>5, <2>2, <3>3, <3>4
  <2> QED BY <1>7, <2>1, <2>2 DEF StartBatch
<1>8. CASE \E park \in BOOLEAN : RunTools(park)
  <2>1. PICK park \in BOOLEAN : RunTools(park)
    BY <1>8
  <2>2. run' = [run EXCEPT !.parked = park] /\ pc = "tools" /\ pc' = "results" /\ open' = open
    BY <2>1 DEF RunTools
  <2>3. /\ run' \in Runs /\ run'.cost = run.cost /\ run'.turns = run.turns
        /\ run'.cuts = run.cuts /\ run'.empties = run.empties
        /\ run'.raised = run.raised /\ run'.fallen = run.fallen /\ run'.late = run.late
    BY <1>1, <2>2 DEF Runs
  <2>4. CallsSound' /\ LateSound'
    BY <1>2, <1>3, <2>2, <2>3 DEF CallsSound, LateSound
  <2> QED BY <1>5, <2>2, <2>3, <2>4
<1>9. CASE \E ran \in SUBSET Call : CommitResults(ran)
  <2>1. PICK ran \in SUBSET Call : CommitResults(ran)
    BY <1>9
  <2>2. run' = run /\ open' = {} /\ pc = "results"
    BY <2>1 DEF CommitResults, Answered
  <2>3. CASE \E reason \in Stopped : End(reason)
    <3>1. pc' = "ending" /\ ending' # "success"
      BY <2>3 DEF End, Stopped
    <3> QED BY <1>4, <2>2, <3>1
  <2>4. CASE pc' = "settling"
    <3>1. CallsSound' /\ LateSound'
      BY <1>2, <1>3, <2>2, <2>4 DEF CallsSound, LateSound
    <3> QED BY <1>1, <1>5, <2>2, <2>4, <3>1
  <2> QED BY <2>1, <2>3, <2>4 DEF CommitResults
<1>10. CASE ToolsThrow
  <2>1. pc' = "ending" /\ ending' = "thrown" /\ open' = open /\ run' = run
    BY <1>10 DEF ToolsThrow, End
  <2>2. OuterTypes'
    BY <1>1, <1>2, <2>1, <1>10, OuterStep DEF Places, ToolsThrow
  <2>3. run'.cost <= Base + Allowance + 1
    BY <1>1, <1>3, <2>1
  <2> QED BY <1>1, <1>2, <1>3, <2>1, <2>2, <2>3, EndStep
<1> QED BY <1>6, <1>7, <1>8, <1>9, <1>10

\* The limits and the ends of a batch: only a run within its budget, that nobody
\* has aborted, goes on.
LEMMA SettleStep ==
  ASSUME TalkInv, NEW guard \in {"none", "no_progress", "auto_drift_unavailable"}, SettleBatch(guard)
  PROVE  TalkInv'
<1>1. /\ run \in Runs /\ OuterTypes /\ run.cost \in Nat /\ Base \in Nat /\ Allowance \in Nat
      /\ Recovered \in Nat /\ Recovered <= Allowance /\ Budget \in Nat /\ Budget <= Base + 1
      /\ Base <= Budget
  BY Paid
<1>2. /\ pc = "settling" /\ run' = [run EXCEPT !.turns = run.turns + 1]
      /\ UNCHANGED <<mode, orphaned, open, signal, steers, counted, submits, interrupts>>
  BY DEF SettleBatch
<1>3. /\ pc \in Working /\ run.cost <= Base + Recovered + 1 /\ run.turns < MaxTurns
      /\ run.late = 0 \/ (run.late = 1 /\ signal # "none")
  BY <1>2, Holding
<1>4. open = {}
  BY <1>2 DEF TalkInv, CallsSound
<1>5. run.turns \in 0..MaxTurns /\ run.turns + 1 \in 0..MaxTurns
  BY <1>1, <1>3 DEF Runs
<1>6. /\ run' \in Runs /\ run'.cost = run.cost /\ run'.turns = run.turns + 1
      /\ run'.cuts = run.cuts /\ run'.empties = run.empties
      /\ run'.raised = run.raised /\ run'.fallen = run.fallen /\ run'.late = run.late
  BY <1>1, <1>2, <1>5 DEF Runs
<1>7. Recovered' = Recovered
  BY <1>6, SameRecovered
<1>8. \/ pc' = "ending" /\ ending' # "success"
      \/ pc' = "top" /\ signal = "none" /\ run.turns + 1 < MaxTurns /\ run.cost < Budget
  <2>1. \/ pc' = "ending" /\ ending' # "success"
        \/ pc' = "top" /\ signal = "none" /\ ~(run.turns + 1 >= MaxTurns) /\ ~BudgetSpent
    BY DEF SettleBatch, End, Aborted
  <2> QED BY <1>1, <1>5, <2>1 DEF BudgetSpent
<1>9. OuterTypes'
  BY <1>1, <1>2, <1>8, OuterStep DEF Places
<1>10. CASE pc' = "ending" /\ ending' # "success"
  <2>1. run'.cost <= Base + Allowance + 1
    BY <1>1, <1>3, <1>6
  <2> QED BY <1>2, <1>3, <1>4, <1>6, <1>9, <1>10, <2>1, EndStep
<1>11. CASE pc' = "top" /\ signal = "none" /\ run.turns + 1 < MaxTurns /\ run.cost < Budget
  <2>1. run'.cost <= Base + Recovered'
    BY <1>1, <1>6, <1>7, <1>11
  <2>2. run.late = 0
    BY <1>3, <1>11
  <2> QED BY <1>2, <1>3, <1>4, <1>6, <1>9, <1>11, <2>1, <2>2, GoStep
<1> QED BY <1>8, <1>10, <1>11

-----------------------------------------------------------------------------
LEMMA TalkStep ==
  ASSUME TalkInv, [ConversationNext]_talkVars
  PROVE  TalkInv'
<1>1. CASE ConversationNext
  BY <1>1, SessionStep, PrepareStep, ReplyStep, FailureStep, AnswerStep, JudgeStep, BatchStep, SettleStep
    DEF ConversationNext, LoopStep
<1>2. CASE UNCHANGED talkVars
  <2>1. ConversationTypeOK'
    BY <1>2 DEF TalkInv, ConversationTypeOK, talkVars
  <2> QED BY <1>2, <2>1 DEF TalkInv, Asked, CostSound, CallsSound, LateSound, TurnsSound,
    VerifiedSuccess, Recovered, Base, talkVars
<1> QED BY <1>1, <1>2

LEMMA TalkEndsWell == TalkInv => ConversationTypeOK /\ RunsEndWell
<1> SUFFICES ASSUME TalkInv PROVE ConversationTypeOK /\ RunsEndWell
  OBVIOUS
<1>1. /\ run.cost \in Nat /\ Base \in Nat /\ Allowance \in Nat /\ run \in Runs /\ OuterTypes
      /\ Budget \in Nat
  BY Paid
<1>2. NoDanglingCall /\ VerifiedSuccess
  BY DEF TalkInv, CallsSound, NoDanglingCall
<1>3. LittleLateWork
  BY <1>1 DEF TalkInv, LateSound, LittleLateWork, Runs
<1>4. run.cost <= Base + Allowance + 1
  <2>1. CASE pc \in Working
    BY <2>1, Paid
  <2>2. CASE pc \in {"idle", "starting"}
    BY <1>1, <2>2 DEF TalkInv, CostSound
  <2>3. CASE pc \in {"ending", "told"}
    BY <2>3 DEF TalkInv, CostSound
  <2> QED BY <1>1, <2>1, <2>2, <2>3 DEF OuterTypes, Places, Working
<1>5. OverspendBounded
  <2>1. CASE counted < Budget
    BY <1>1, <1>4, <2>1 DEF Base, OverspendBounded
  <2>2. CASE ~(counted < Budget)
    BY <1>1, <1>4, <2>2 DEF Base, OverspendBounded
  <2> QED BY <2>1, <2>2
<1> QED BY <1>2, <1>3, <1>5 DEF TalkInv, RunsEndWell

\* Whatever the limits and however prompts, interrupts and failures fall, a run that
\* returns has answered every tool call, and only an exception of the tool batch leaves
\* some; an unattended run is told as a success only for a verified answer or a phase
\* hook's stop; it takes up at most one batch after an abort, and pays at most one reply
\* and its recoveries past the budget (kernel/loop/KernelLoop.ts, runKernelLoop).
THEOREM EveryRunEndsWell == ConversationSpec => [](ConversationTypeOK /\ RunsEndWell)
<1>1. ConversationInit => TalkInv
  BY TalkInit
<1>2. TalkInv /\ [ConversationNext]_talkVars => TalkInv'
  BY TalkStep
<1>3. TalkInv => ConversationTypeOK /\ RunsEndWell
  BY TalkEndsWell
<1> QED BY <1>1, <1>2, <1>3, PTL DEF ConversationSpec

-----------------------------------------------------------------------------
(* Facts about numbers and sequences *)

HIDE ConversationAssumption

\* Induction over the natural numbers, as a fact about sets.
LessThan == {p \in Nat \X Nat : p[1] < p[2]}

LEMMA LeastMember ==
  ASSUME NEW T \in SUBSET Nat, T # {}
  PROVE  \E m \in T : \A k \in T : m <= k
<1>1. IsWellFoundedOn(LessThan, Nat)
  <2>1. IsWellFoundedOn(OpToRel(<, Nat), Nat)
    BY NatLessThanWellFounded
  <2>2. OpToRel(<, Nat) = LessThan
    BY DEF OpToRel, LessThan
  <2> QED BY <2>1, <2>2
<1>2. PICK x \in T : \A y \in T : ~(<<y, x>> \in LessThan)
  BY <1>1, WFMin
<1>3. ASSUME NEW y \in T PROVE x <= y
  <2>1. ~(<<y, x>> \in LessThan)
    BY <1>2
  <2>2. <<y, x>> \in Nat \X Nat /\ <<y, x>>[1] = y /\ <<y, x>>[2] = x
    OBVIOUS
  <2> QED BY <2>1, <2>2 DEF LessThan
<1> QED BY <1>3

\* What equals its second neighbour everywhere alternates between its first two.
LEMMA TwoInTurn ==
  ASSUME NEW n \in Nat, NEW h, \A i \in 1..(n - 2) : h[i] = h[i + 2]
  PROVE  \A i \in 1..n : h[i] = IF i % 2 = 1 THEN h[1] ELSE h[2]
<1> DEFINE Odd == {i \in 1..n : ~(h[i] = IF i % 2 = 1 THEN h[1] ELSE h[2])}
<1> SUFFICES ASSUME Odd # {} PROVE FALSE
  OBVIOUS
<1>1. Odd \in SUBSET Nat
  OBVIOUS
<1>2. PICK m \in Odd : \A k \in Odd : m <= k
  <2> HIDE DEF Odd
  <2> QED BY <1>1, LeastMember
<1>3. m \in 1..n /\ ~(h[m] = IF m % 2 = 1 THEN h[1] ELSE h[2])
  OBVIOUS
<1>4. m > 2
  BY <1>3
<1>5. m - 2 \in 1..(n - 2) /\ (m - 2) % 2 = m % 2 /\ (m - 2) + 2 = m
  BY <1>3, <1>4
<1>6. h[m] = h[m - 2]
  BY <1>5
<1>7. m - 2 \notin Odd
  BY <1>2, <1>3, <1>4
<1>8. h[m - 2] = IF (m - 2) % 2 = 1 THEN h[1] ELSE h[2]
  BY <1>5, <1>7
<1> QED BY <1>3, <1>5, <1>6, <1>8

LEMMA Appended ==
  ASSUME NEW S, NEW s \in Seq(S), NEW e \in S
  PROVE  /\ Append(s, e) \in Seq(S) /\ Len(Append(s, e)) = Len(s) + 1
         /\ \A i \in 1..Len(s) : Append(s, e)[i] = s[i]
         /\ Append(s, e)[Len(s) + 1] = e
BY AppendProperties

\* The last n of a sequence.
LEMMA LastOnes ==
  ASSUME NEW S, NEW s \in Seq(S), NEW n \in Nat, n <= Len(s)
  PROVE  LET t == SubSeq(s, Len(s) - n + 1, Len(s))
         IN  t \in Seq(S) /\ Len(t) = n /\ \A i \in 1..n : t[i] = s[Len(s) - n + i]
<1> DEFINE k == Len(s) - n + 1
           t == SubSeq(s, k, Len(s))
<1>1. Len(s) \in Nat
  OBVIOUS
<1>2. k \in 1..(Len(s) + 1) /\ Len(s) \in (k - 1)..Len(s) /\ Len(s) - k + 1 = n
  BY <1>1
<1>3. \A i \in 1..n : k + i - 1 = Len(s) - n + i
  BY <1>1
<1>4. /\ t \in Seq(S) /\ Len(t) = Len(s) - k + 1
      /\ \A i \in 1..(Len(s) - k + 1) : t[i] = s[k + i - 1]
  <2> HIDE DEF k
  <2> QED BY <1>2, SubSeqProperties
<1> HIDE DEF t
<1>5. ASSUME NEW i \in 1..n PROVE t[i] = s[Len(s) - n + i]
  <2>1. t[i] = s[k + i - 1]
    BY <1>2, <1>4
  <2> QED BY <1>3, <2>1
<1> QED BY <1>2, <1>4, <1>5 DEF t

LEMMA Trimmed ==
  ASSUME NEW S, NEW s \in Seq(S), NEW n \in Nat
  PROVE  /\ Trim(s, n) \in Seq(S) /\ Len(Trim(s, n)) = (IF Len(s) > n THEN n ELSE Len(s))
         /\ \A i \in 1..Len(Trim(s, n)) : Trim(s, n)[i] = s[Len(s) - Len(Trim(s, n)) + i]
<1>1. Len(s) \in Nat
  OBVIOUS
<1>2. CASE Len(s) > n
  <2> DEFINE t == SubSeq(s, Len(s) - n + 1, Len(s))
  <2>1. t \in Seq(S) /\ Len(t) = n /\ \A i \in 1..n : t[i] = s[Len(s) - n + i]
    BY <1>1, <1>2, LastOnes
  <2>2. Trim(s, n) = t
    BY <1>2 DEF Trim
  <2> HIDE DEF t
  <2> QED BY <1>2, <2>1, <2>2
<1>3. CASE ~(Len(s) > n)
  BY <1>1, <1>3 DEF Trim
<1> QED BY <1>2, <1>3

\* s is the end of the first m members of f: the last n of them, if there are so many.
EndOf(s, n, f, m) ==
  /\ Len(s) = (IF m > n THEN n ELSE m)
  /\ \A i \in 1..Len(s) : s[i] = f[m - Len(s) + i]

\* A window over a growing history.
LEMMA WindowSlides ==
  ASSUME NEW S, NEW s \in Seq(S), NEW e \in S, NEW n \in Nat \ {0}, NEW m \in Nat, NEW f,
         EndOf(s, n, f, m), f[m + 1] = e
  PROVE  Trim(Append(s, e), n) \in Seq(S) /\ EndOf(Trim(Append(s, e), n), n, f, m + 1)
<1> DEFINE a == Append(s, e)
           t == Trim(a, n)
<1>1. /\ a \in Seq(S) /\ Len(a) = Len(s) + 1
      /\ \A i \in 1..Len(s) : a[i] = s[i]
      /\ a[Len(s) + 1] = e
  BY Appended
<1> HIDE DEF a
<1>2. /\ t \in Seq(S) /\ Len(t) = (IF Len(a) > n THEN n ELSE Len(a))
      /\ \A i \in 1..Len(t) : t[i] = a[Len(a) - Len(t) + i]
  BY <1>1, Trimmed
<1> HIDE DEF t
<1>3. Len(s) \in Nat
  OBVIOUS
<1>0. Len(s) = (IF m > n THEN n ELSE m) /\ \A i \in 1..Len(s) : s[i] = f[m - Len(s) + i]
  BY DEF EndOf
<1>4. Len(t) = (IF m + 1 > n THEN n ELSE m + 1)
  BY <1>0, <1>1, <1>2, <1>3
<1>5. ASSUME NEW i \in 1..Len(t) PROVE t[i] = f[m + 1 - Len(t) + i]
  <2> DEFINE k == Len(a) - Len(t) + i
  <2>1. k \in 1..(Len(s) + 1) /\ Len(t) \in Nat
    BY <1>1, <1>2, <1>3, <1>4
  <2>2. t[i] = a[k]
    BY <1>2
  <2>3. CASE k = Len(s) + 1
    <3>1. i = Len(t)
      BY <1>1, <1>3, <2>1, <2>3
    <3>2. m + 1 - Len(t) + i = m + 1
      BY <2>1, <3>1
    <3> QED BY <1>1, <2>2, <2>3, <3>2
  <2>4. CASE k # Len(s) + 1
    <3>1. k \in 1..Len(s)
      BY <1>3, <2>1, <2>4
    <3>2. a[k] = s[k] /\ s[k] = f[m - Len(s) + k]
      BY <1>0, <1>1, <3>1
    <3>3. m - Len(s) + k = m + 1 - Len(t) + i
      BY <1>1, <1>3, <2>1
    <3> QED BY <2>2, <3>2, <3>3
  <2> QED BY <2>3, <2>4
<1>6. EndOf(t, n, f, m + 1)
  BY <1>4, <1>5 DEF EndOf
<1> QED BY <1>2, <1>6 DEF t, a
-----------------------------------------------------------------------------
(* The guards *)

\* The series of equal requests that history ends with, and its length.
InSeries(n) ==
  /\ n \in 1..Len(batches)
  /\ \A i \in (Len(batches) - n + 1)..Len(batches) : batches[i].request = LastBatch.request
  /\ n < Len(batches) => batches[Len(batches) - n].request # LastBatch.request

\* Results from the first of the series on are equal, up to the given batch.
Unchanged(n, to) ==
  \A i \in (Len(batches) - n + 1)..to : batches[i].outcome = batches[Len(batches) - n + 1].outcome

\* What the repeated-request guard has counted: the series, and whether an observation
\* in it was new.
Counted ==
  batches # <<>> =>
    /\ InSeries(polls)
    /\ ~pollSeen => repeats = polls /\ Unchanged(polls, Len(batches) - 1)
    /\ lastChanged <=>
         Len(batches) > 1 /\ batches[Len(batches) - 1].outcome # LastBatch.outcome

\* The windows of requests and of errors are the ends of history.
Remembered ==
  /\ Len(recent) = (IF Len(batches) > AlternationWindow THEN AlternationWindow ELSE Len(batches))
  /\ \A i \in 1..Len(recent) : recent[i] = batches[Len(batches) - Len(recent) + i].request
Windowed ==
  /\ Len(errorTurns) = (IF Len(batches) > RecurringWindow THEN RecurringWindow ELSE Len(batches))
  /\ \A i \in 1..Len(errorTurns) :
       errorTurns[i] = (batches[Len(batches) - Len(errorTurns) + i].outcome = "error")

\* Whoever is near the failure limit has been asked.
Warned ==
  /\ evaluated => \E turn \in evaluations : turn <= Len(batches)
  /\ failures >= SoftLimit => evaluated
  /\ failures < FailureLimit

\* A window without the error lies between the two turns.
Clear(from, to) ==
  \E start \in from..(to - RecurringWindow + 1) :
    \A turn \in start..(start + RecurringWindow - 1) : batches[turn].outcome # "error"

\* Once an error has been forgotten, it lies a clear window behind.
Reflected ==
  /\ \A r \in reflections : r \in 1..Len(batches) /\ batches[r].outcome = "error"
  /\ ~nudged => \A r \in reflections : Clear(r + 1, Len(batches))
  /\ \A first, second \in reflections : first < second => Clear(first + 1, second - 1)

\* What else is true of a run that goes on.
Running == Counted /\ Remembered /\ Windowed /\ Warned

GuardInv ==
  /\ GuardTypeOK
  /\ Reflected
  /\ stopped = "no" => Running
  /\ StopsAreEarned /\ AlternationStops /\ WarnedBeforeStop

Batch == [request : Request, outcome : Outcome \cup {"none"}]

LEMMA GuardBatches ==
  ASSUME GuardInv
  PROVE  /\ batches \in Seq(Batch) /\ Len(batches) \in Nat
         /\ batches # <<>> => Len(batches) > 0 /\ LastBatch \in Batch
         /\ \A i \in 1..Len(batches) : batches[i] \in Batch
         /\ batches = <<>> => Len(batches) = 0
<1>1. batches \in Seq(Batch) /\ Len(batches) \in Nat
  BY DEF GuardInv, GuardTypeOK, Batch
<1>2. \A i \in 1..Len(batches) : batches[i] \in Batch
  BY <1>1
<1>3. batches # <<>> => Len(batches) > 0
  BY <1>1
<1> QED BY <1>1, <1>2, <1>3 DEF LastBatch

LEMMA ReflectionsApart == Reflected <=> (Reflected /\ OneReflectionEach)
<1>1. ASSUME Reflected, NEW first \in reflections, NEW second \in reflections, first < second
      PROVE  \E start \in (first + 1)..(second - RecurringWindow) :
               \A turn \in start..(start + RecurringWindow - 1) : batches[turn].outcome # "error"
  <2>1. Clear(first + 1, second - 1) /\ first \in 1..Len(batches) /\ second \in 1..Len(batches)
    BY <1>1 DEF Reflected
  <2>2. first \in Int /\ second \in Int
    BY <2>1
  <2>3. second - 1 - RecurringWindow + 1 = second - RecurringWindow
    BY <2>2, GuardAssumption
  <2> QED BY <2>1, <2>3 DEF Clear
<1> QED BY <1>1 DEF OneReflectionEach

LEMMA InvGivesSound == GuardInv => GuardsSound
BY ReflectionsApart DEF GuardInv, GuardsSound

LEMMA GuardStart == GuardInit => GuardInv
<1> SUFFICES ASSUME GuardInit PROVE GuardInv
  OBVIOUS
<1>1. /\ batches = <<>> /\ recent = <<>> /\ errorTurns = <<>> /\ stopped = "no"
      /\ repeats = 0 /\ polls = 0 /\ failures = 0 /\ idle = 0
      /\ pollSeen = FALSE /\ lastChanged = FALSE /\ evaluated = FALSE /\ nudged = FALSE
      /\ evaluations = {} /\ reflections = {}
  BY DEF GuardInit
<1>2. Len(batches) = 0 /\ Len(recent) = 0 /\ Len(errorTurns) = 0
  BY <1>1
<1>3. GuardTypeOK
  <2>1. repeats \in 0..(RepeatLimit - 1) /\ polls \in 0..(PollingLimit - 1)
    BY <1>1, GuardAssumption
  <2>2. failures \in 0..FailureLimit /\ idle \in Nat
    BY <1>1, GuardAssumption
  <2>3. /\ batches \in Seq([request : Request, outcome : Outcome \cup {"none"}])
        /\ recent \in Seq(Request) /\ Len(recent) <= AlternationWindow
        /\ errorTurns \in Seq(BOOLEAN) /\ Len(errorTurns) <= RecurringWindow
    BY <1>1, <1>2, GuardAssumption
  <2>4. {evaluations, reflections} \subseteq SUBSET (1..MaxGuarded)
    BY <1>1
  <2> QED BY <1>1, <2>1, <2>2, <2>3, <2>4 DEF GuardTypeOK
<1>4. Reflected
  BY <1>1 DEF Reflected
<1>5. Running
  <2>1. Counted
    BY <1>1 DEF Counted
  <2>2. Remembered /\ Windowed
    BY <1>2, GuardAssumption DEF Remembered, Windowed
  <2>3. Warned
    BY <1>1, GuardAssumption DEF Warned
  <2> QED BY <2>1, <2>2, <2>3 DEF Running
<1>6. StopsAreEarned /\ WarnedBeforeStop
  BY <1>1 DEF StopsAreEarned, WarnedBeforeStop
<1>7. AlternationStops
  BY <1>2, GuardAssumption DEF AlternationStops, AlternatingFor
<1> QED BY <1>3, <1>4, <1>5, <1>6, <1>7 DEF GuardInv

SeriesRight ==
  \A n \in Nat : InSeries(n) =>
    Len(Series) = n /\ \A i \in 1..n : Series[i] = batches[Len(batches) - n + i]

LEMMA SeriesIs == batches \in Seq(Batch) => SeriesRight
<1> SUFFICES ASSUME batches \in Seq(Batch), NEW n \in Nat, InSeries(n)
             PROVE  /\ Len(Series) = n
                    /\ \A i \in 1..n : Series[i] = batches[Len(batches) - n + i]
  BY DEF SeriesRight
<1> DEFINE N == Len(batches)
           P(m) == /\ \A i \in 1..m : batches[N - i + 1].request = LastBatch.request
                   /\ m = N \/ batches[N - m].request # LastBatch.request
           c == CHOOSE m \in 1..N : P(m)
<1>1. N \in Nat /\ n \in 1..N
  BY DEF InSeries
<1>2. P(n)
  <2>1. ASSUME NEW i \in 1..n PROVE batches[N - i + 1].request = LastBatch.request
    <3>1. N - i + 1 \in (N - n + 1)..N
      BY <1>1
    <3> QED BY <3>1 DEF InSeries
  <2>2. n = N \/ batches[N - n].request # LastBatch.request
    BY <1>1 DEF InSeries
  <2> QED BY <2>1, <2>2
<1>3. ASSUME NEW m \in 1..N, P(m) PROVE m = n
  <2>1. CASE m < n
    <3>1. N - m \in (N - n + 1)..N /\ m # N
      BY <1>1, <2>1
    <3> QED BY <1>3, <3>1 DEF InSeries
  <2>2. CASE n < m
    <3>1. n + 1 \in 1..m /\ N - (n + 1) + 1 = N - n /\ n < N
      BY <1>1, <2>2
    <3>2. batches[N - (n + 1) + 1].request = LastBatch.request
      BY <1>3, <3>1
    <3>3. batches[N - n].request # LastBatch.request
      BY <3>1 DEF InSeries
    <3> QED BY <3>1, <3>2, <3>3
  <2> QED BY <1>1, <2>1, <2>2
<1>4. c = n
  <2>1. c \in 1..N /\ P(c)
    <3> HIDE DEF P
    <3> QED BY <1>1, <1>2
  <2> QED BY <1>3, <2>1
<1>5. Series = SubSeq(batches, N - n + 1, N)
  BY <1>4 DEF Series, Latest
<1>6. LET t == SubSeq(batches, N - n + 1, N)
      IN  Len(t) = n /\ \A i \in 1..n : t[i] = batches[N - n + i]
  BY <1>1, LastOnes
<1> QED BY <1>5, <1>6

\* What the alternation guard sees is what history says.
LEMMA AlternationSeen ==
  ASSUME NEW B \in Seq(Batch), NEW n \in Nat \ {0, 1}, Len(B) >= n,
         NEW R, \A i \in 1..n : R[i] = B[Len(B) - n + i].request
  PROVE  LET h == SubSeq(B, Len(B) - n + 1, Len(B))
         IN  (h[1].request # h[2].request /\ \A i \in 1..(n - 2) : h[i].request = h[i + 2].request)
             <=> (R[1] # R[2] /\ \A i \in 1..n : R[i] = IF i % 2 = 1 THEN R[1] ELSE R[2])
<1> DEFINE h == SubSeq(B, Len(B) - n + 1, Len(B))
<1>2. \A i \in 1..n : h[i] = B[Len(B) - n + i]
  BY LastOnes
<1>3. ASSUME NEW i \in 1..n PROVE h[i].request = R[i]
  BY <1>2
<1> HIDE DEF h
<1>4. h[1].request = R[1] /\ h[2].request = R[2]
  BY <1>3
<1>5. \A i \in 1..(n - 2) : h[i].request = R[i] /\ h[i + 2].request = R[i + 2]
  <2> SUFFICES ASSUME NEW i \in 1..(n - 2) PROVE h[i].request = R[i] /\ h[i + 2].request = R[i + 2]
    OBVIOUS
  <2>1. i \in 1..n /\ i + 2 \in 1..n
    OBVIOUS
  <2> QED BY <1>3, <2>1
<1>6. (\A i \in 1..(n - 2) : R[i] = R[i + 2])
      => \A i \in 1..n : R[i] = IF i % 2 = 1 THEN R[1] ELSE R[2]
  BY TwoInTurn
<1>7. ASSUME \A i \in 1..n : R[i] = IF i % 2 = 1 THEN R[1] ELSE R[2], NEW i \in 1..(n - 2)
      PROVE  R[i] = R[i + 2]
  <2>1. i \in 1..n /\ i + 2 \in 1..n /\ (i + 2) % 2 = i % 2
    OBVIOUS
  <2> QED BY <1>7, <2>1
<1> QED BY <1>4, <1>5, <1>6, <1>7 DEF h

\* What a step that adds a batch makes of history.
Adds(b) == b \in Batch /\ batches' = Append(batches, b)

LEMMA AddsFacts ==
  ASSUME GuardInv, NEW b, Adds(b)
  PROVE  /\ batches' \in Seq(Batch) /\ Len(batches') = Len(batches) + 1 /\ Len(batches) \in Nat
         /\ \A i \in 1..Len(batches) : batches'[i] = batches[i]
         /\ batches'[Len(batches) + 1] = b /\ batches' # <<>> /\ LastBatch' = b
<1>1. batches \in Seq(Batch) /\ Len(batches) \in Nat
  BY GuardBatches
<1>2. /\ batches' \in Seq(Batch) /\ Len(batches') = Len(batches) + 1
      /\ \A i \in 1..Len(batches) : batches'[i] = batches[i]
      /\ batches'[Len(batches) + 1] = b
  BY <1>1, Appended DEF Adds
<1>3. batches' # <<>>
  BY <1>1, <1>2
<1> QED BY <1>1, <1>2, <1>3 DEF LastBatch

LEMMA RequestsSeen ==
  ASSUME GuardInv, Running, NEW request \in Request, NEW b, Adds(b), b.request = request
  PROVE  /\ Requests(request) \in Seq(Request)
         /\ Len(Requests(request)) = (IF Len(batches') > AlternationWindow THEN AlternationWindow
                                      ELSE Len(batches'))
         /\ \A i \in 1..Len(Requests(request)) :
              Requests(request)[i] = batches'[Len(batches') - Len(Requests(request)) + i].request
<1> DEFINE N == Len(batches)
           f == [i \in 1..(N + 1) |-> batches'[i].request]
<1>1. /\ N \in Nat /\ Len(batches') = N + 1 /\ batches'[N + 1] = b
      /\ \A i \in 1..N : batches'[i] = batches[i]
  BY AddsFacts
<1>2. recent \in Seq(Request) /\ AlternationWindow \in Nat \ {0}
  BY GuardAssumption DEF GuardInv, GuardTypeOK
<1>3. Len(recent) = (IF N > AlternationWindow THEN AlternationWindow ELSE N)
  BY DEF Running, Remembered
<1>4. EndOf(recent, AlternationWindow, f, N)
  <2>1. ASSUME NEW i \in 1..Len(recent) PROVE recent[i] = f[N - Len(recent) + i]
    <3>1. N - Len(recent) + i \in 1..N
      BY <1>1, <1>2, <1>3
    <3>2. recent[i] = batches[N - Len(recent) + i].request
      BY DEF Running, Remembered
    <3> QED BY <1>1, <3>1, <3>2
  <2> QED BY <1>3, <2>1 DEF EndOf
<1>5. f[N + 1] = request
  BY <1>1
<1> DEFINE t == Trim(Append(recent, request), AlternationWindow)
<1>6. t \in Seq(Request) /\ EndOf(t, AlternationWindow, f, N + 1)
  <2> HIDE DEF f
  <2> QED BY <1>1, <1>2, <1>4, <1>5, WindowSlides
<1>7. t = Requests(request)
  BY DEF Requests
<1> HIDE DEF t
<1>8. Len(t) = (IF N + 1 > AlternationWindow THEN AlternationWindow ELSE N + 1)
  BY <1>6 DEF EndOf
<1>9. ASSUME NEW i \in 1..Len(t) PROVE t[i] = batches'[N + 1 - Len(t) + i].request
  <2> DEFINE k == N + 1 - Len(t) + i
  <2>1. k \in 1..(N + 1)
    BY <1>1, <1>2, <1>6, <1>8
  <2>2. t[i] = f[k]
    <3> HIDE DEF f
    <3> QED BY <1>6 DEF EndOf
  <2>3. f[k] = batches'[k].request
    <3> HIDE DEF k
    <3> QED BY <2>1
  <2> QED BY <2>2, <2>3
<1> HIDE DEF f
<1> QED BY <1>1, <1>6, <1>7, <1>8, <1>9

LEMMA AlternatesIs ==
  ASSUME GuardInv, Running, NEW request \in Request, NEW b, Adds(b), b.request = request
  PROVE  Alternates(request) <=> AlternatingFor(AlternationWindow)'
<1> DEFINE R == Requests(request)
           N == Len(batches')
<1>1. batches' \in Seq(Batch) /\ N \in Nat /\ AlternationWindow \in Nat \ {0, 1}
  BY AddsFacts, GuardAssumption
<1>2. /\ Len(R) = (IF N > AlternationWindow THEN AlternationWindow ELSE N)
      /\ \A i \in 1..Len(R) : R[i] = batches'[N - Len(R) + i].request
  BY RequestsSeen
<1>3. Len(R) = AlternationWindow <=> N >= AlternationWindow
  BY <1>1, <1>2
<1>4. CASE N >= AlternationWindow
  <2> DEFINE h == SubSeq(batches', N - AlternationWindow + 1, N)
  <2>1. \A i \in 1..AlternationWindow : R[i] = batches'[N - AlternationWindow + i].request
    BY <1>2, <1>3, <1>4
  <2>2. (h[1].request # h[2].request /\ \A i \in 1..(AlternationWindow - 2) : h[i].request = h[i + 2].request)
        <=> (R[1] # R[2] /\ \A i \in 1..AlternationWindow : R[i] = IF i % 2 = 1 THEN R[1] ELSE R[2])
    <3> HIDE DEF R
    <3> QED BY <1>1, <1>4, <2>1, AlternationSeen
  <2> QED BY <1>3, <1>4, <2>2 DEF Alternates, AlternatingFor, Latest
<1>5. CASE ~(N >= AlternationWindow)
  BY <1>3, <1>5 DEF Alternates, AlternatingFor
<1> QED BY <1>4, <1>5

LEMMA ClearGrows ==
  ASSUME GuardInv, NEW b, Adds(b), NEW from \in Nat \ {0}, NEW to \in Nat, to <= Len(batches), Clear(from, to)
  PROVE  \A later \in Nat : to <= later => Clear(from, later)'
<1> SUFFICES ASSUME NEW later \in Nat, to <= later PROVE Clear(from, later)'
  OBVIOUS
<1>1. RecurringWindow \in Nat \ {0}
  BY GuardAssumption
<1>2. PICK start \in from..(to - RecurringWindow + 1) :
        \A turn \in start..(start + RecurringWindow - 1) : batches[turn].outcome # "error"
  BY DEF Clear
<1>3. start \in from..(later - RecurringWindow + 1)
  BY <1>1
<1>4. ASSUME NEW turn \in start..(start + RecurringWindow - 1) PROVE batches'[turn].outcome # "error"
  <2>1. turn \in 1..Len(batches)
    BY <1>1, AddsFacts
  <2> QED BY <1>2, <2>1, AddsFacts
<1> QED BY <1>3, <1>4 DEF Clear

\* A batch leaves the reflections before it as they were.
LEMMA ReflectedBefore ==
  ASSUME GuardInv, NEW b, Adds(b)
  PROVE  /\ \A r \in reflections : r \in 1..Len(batches) /\ batches'[r].outcome = "error"
         /\ ~nudged => \A r \in reflections : \A n \in Nat : Len(batches) <= n => Clear(r + 1, n)'
         /\ \A first, second \in reflections : first < second => Clear(first + 1, second - 1)'
<1>1. Reflected /\ Len(batches) \in Nat
  BY GuardBatches DEF GuardInv
<1>2. \A r \in reflections : r \in 1..Len(batches) /\ batches'[r].outcome = "error"
  BY <1>1, AddsFacts DEF Reflected
<1>3. ASSUME ~nudged, NEW r \in reflections PROVE \A n \in Nat : Len(batches) <= n => Clear(r + 1, n)'
  <2>1. Clear(r + 1, Len(batches)) /\ r + 1 \in Nat \ {0}
    BY <1>1, <1>2, <1>3 DEF Reflected
  <2> QED BY <1>1, <2>1, ClearGrows
<1>4. ASSUME NEW first \in reflections, NEW second \in reflections, first < second
      PROVE  Clear(first + 1, second - 1)'
  <2>1. Clear(first + 1, second - 1)
    BY <1>1, <1>4 DEF Reflected
  <2>2. first + 1 \in Nat \ {0} /\ second - 1 \in Nat /\ second - 1 <= Len(batches)
    BY <1>1, <1>2
  <2> QED BY <2>1, <2>2, ClearGrows
<1> QED BY <1>2, <1>3, <1>4

LEMMA GuardStopsStep ==
  ASSUME GuardInv, NEW request \in Request, GuardStops(request)
  PROVE  GuardInv'
<1> DEFINE b == [request |-> request, outcome |-> "none"]
           N == Len(batches)
<1>1. Adds(b) /\ b.request = request
  BY DEF GuardStops, Adds, Batch
<1>2. /\ batches' \in Seq(Batch) /\ Len(batches') = N + 1 /\ N \in Nat
      /\ \A i \in 1..N : batches'[i] = batches[i]
      /\ batches'[N + 1] = b /\ batches' # <<>> /\ LastBatch' = b
  BY <1>1, AddsFacts
<1>3. Running /\ stopped = "no" /\ StopFor(request) # "no" /\ stopped' = StopFor(request)
  BY DEF GuardStops, GuardInv
<1>4. /\ repeats' = repeats /\ polls' = polls /\ pollSeen' = pollSeen /\ lastChanged' = lastChanged
      /\ recent' = recent /\ failures' = failures /\ idle' = idle /\ evaluated' = evaluated
      /\ errorTurns' = errorTurns /\ nudged' = nudged /\ evaluations' = evaluations
      /\ reflections' = reflections
  BY DEF GuardStops
<1>5. stopped' \in {"repeated", "polling", "alternating"}
  BY <1>3 DEF StopFor
<1>6. GuardTypeOK'
  <2>1. GuardTypeOK
    BY DEF GuardInv
  <2> QED BY <1>2, <1>4, <1>5, <2>1 DEF GuardTypeOK, Batch
<1>7. Reflected'
  <2>1. \A r \in reflections : r \in 1..(N + 1) /\ batches'[r].outcome = "error"
    BY <1>1, <1>2, ReflectedBefore
  <2>2. ~nudged => \A r \in reflections : Clear(r + 1, Len(batches))'
    <3>1. \A n \in Nat : n = N + 1 => (~nudged => \A r \in reflections : Clear(r + 1, n)')
      BY <1>1, <1>2, ReflectedBefore
    <3> QED BY <1>2, <3>1 DEF Clear
  <2>3. \A first, second \in reflections : first < second => Clear(first + 1, second - 1)'
    BY <1>1, ReflectedBefore
  <2> QED BY <1>2, <1>4, <2>1, <2>2, <2>3 DEF Reflected
<1>8. stopped' # "no" /\ stopped' # "failing"
  BY <1>5
<1>9. ASSUME stopped' = "repeated"
      PROVE  Len(Series)' >= RepeatLimit /\ \A i \in 1..(Len(Series)' - 1) : Series'[i].outcome = Series'[1].outcome
  <2>1. Repeats(request) >= RepeatLimit /\ RepeatLimit \in Nat \ {0, 1}
    BY <1>3, <1>9, GuardAssumption DEF StopFor
  <2>2. SameRequest(request) /\ ~IsPoll /\ repeats + 1 >= RepeatLimit
    BY <2>1 DEF Repeats
  <2>3. batches # <<>> /\ LastBatch.request = request /\ ~pollSeen /\ ~lastChanged
    BY <2>2 DEF SameRequest, IsPoll
  <2>4. /\ InSeries(polls) /\ repeats = polls /\ Unchanged(polls, N - 1)
        /\ ~(N > 1 /\ batches[N - 1].outcome # LastBatch.outcome)
    BY <1>3, <2>3 DEF Running, Counted
  <2> DEFINE n == polls + 1
  <2>5. polls \in 1..N /\ n \in Nat /\ N > 0
    BY <1>2, <2>4 DEF InSeries
  <2>6. InSeries(polls + 1)'
    <3>1. n \in 1..(N + 1) /\ (N + 1) - n + 1 = N - polls + 1 /\ (N + 1) - n = N - polls
      BY <1>2, <2>5
    <3>2. ASSUME NEW i \in (N - polls + 1)..(N + 1) PROVE batches'[i].request = request
      <4>1. CASE i = N + 1
        BY <1>2, <4>1
      <4>2. CASE i # N + 1
        <5>1. i \in (N - polls + 1)..N /\ i \in 1..N
          BY <1>2, <2>5, <4>2
        <5> QED BY <1>2, <2>3, <2>4, <5>1 DEF InSeries
      <4> QED BY <4>1, <4>2
    <3>3. ASSUME n < N + 1 PROVE batches'[N - polls].request # request
      <4>1. polls < N /\ N - polls \in 1..N
        BY <1>2, <2>5, <3>3
      <4> QED BY <1>2, <2>3, <2>4, <4>1 DEF InSeries
    <3> QED BY <1>2, <1>4, <3>1, <3>2, <3>3 DEF InSeries
  <2>7. Len(Series') = n /\ \A i \in 1..n : Series'[i] = batches'[(N + 1) - n + i]
    <3>1. (batches \in Seq(Batch) => SeriesRight)'
      BY SeriesIs, PTL
    <3>2. \A k \in Nat : k = n => InSeries(k)'
      BY <1>4, <2>6 DEF InSeries
    <3>3. \A k \in Nat : InSeries(k)' =>
            Len(Series') = k /\ \A i \in 1..k : Series'[i] = batches'[(N + 1) - k + i]
      BY <1>2, <3>1 DEF SeriesRight
    <3> QED BY <2>5, <3>2, <3>3
  <2>8. ASSUME NEW i \in 1..polls PROVE batches'[(N + 1) - n + i].outcome = batches[N - polls + 1].outcome
    <3> DEFINE k == N - polls + i
    <3>1. k \in (N - polls + 1)..N /\ k \in 1..N /\ (N + 1) - n + i = k
      BY <1>2, <2>5
    <3>2. CASE k < N
      <4>1. k \in (N - polls + 1)..(N - 1)
        BY <1>2, <2>5, <3>1, <3>2
      <4> QED BY <1>2, <2>4, <3>1, <4>1 DEF Unchanged
    <3>3. CASE k = N
      <4>1. CASE polls = 1
        BY <1>2, <3>1, <3>3, <4>1
      <4>2. CASE polls # 1
        <5>1. N > 1 /\ N - 1 \in (N - polls + 1)..(N - 1)
          BY <1>2, <2>5, <4>2
        <5>2. batches[N - 1].outcome = batches[N - polls + 1].outcome
          BY <2>4, <5>1 DEF Unchanged
        <5>3. batches[N - 1].outcome = batches[N].outcome
          BY <2>4, <5>1 DEF LastBatch
        <5> QED BY <1>2, <3>1, <3>3, <5>2, <5>3
      <4> QED BY <4>1, <4>2
    <3> QED BY <1>2, <3>1, <3>2, <3>3
  <2>9. ASSUME NEW i \in 1..polls PROVE Series'[i].outcome = batches[N - polls + 1].outcome
    <3>1. i \in 1..n
      BY <2>5
    <3> QED BY <2>7, <2>8, <3>1
  <2>10. n - 1 = polls /\ 1 \in 1..polls /\ n >= RepeatLimit
    BY <2>1, <2>2, <2>4, <2>5
  <2> HIDE DEF n
  <2> QED BY <2>7, <2>9, <2>10
<1>10. ASSUME stopped' = "alternating" PROVE AlternatingFor(AlternationWindow)'
  <2>1. Alternates(request)
    BY <1>3, <1>10 DEF StopFor
  <2> QED BY <1>1, <1>3, <2>1, AlternatesIs
<1>11. StopsAreEarned' /\ AlternationStops' /\ WarnedBeforeStop'
  BY <1>8, <1>9, <1>10 DEF StopsAreEarned, AlternationStops, WarnedBeforeStop
<1> QED BY <1>6, <1>7, <1>8, <1>11 DEF GuardInv

\* The window of errors, and what it means to have forgotten the error.
LEMMA ErrorsSeen ==
  ASSUME GuardInv, Running, NEW outcome, NEW b, Adds(b), b.outcome = outcome
  PROVE  /\ ErrorTurns(outcome) \in Seq(BOOLEAN)
         /\ Len(ErrorTurns(outcome)) =
              (IF Len(batches) + 1 > RecurringWindow THEN RecurringWindow ELSE Len(batches) + 1)
         /\ \A i \in 1..Len(ErrorTurns(outcome)) :
              ErrorTurns(outcome)[i] =
                (batches'[Len(batches) + 1 - Len(ErrorTurns(outcome)) + i].outcome = "error")
<1> DEFINE N == Len(batches)
           e == (outcome = "error")
           f == [i \in 1..(N + 1) |-> (batches'[i].outcome = "error")]
<1>1. /\ N \in Nat /\ Len(batches') = N + 1 /\ batches'[N + 1] = b
      /\ \A i \in 1..N : batches'[i] = batches[i]
  BY AddsFacts
<1>2. errorTurns \in Seq(BOOLEAN) /\ RecurringWindow \in Nat \ {0} /\ e \in BOOLEAN
  BY GuardAssumption DEF GuardInv, GuardTypeOK
<1>3. Len(errorTurns) = (IF N > RecurringWindow THEN RecurringWindow ELSE N)
  BY DEF Running, Windowed
<1>4. EndOf(errorTurns, RecurringWindow, f, N)
  <2>1. ASSUME NEW i \in 1..Len(errorTurns) PROVE errorTurns[i] = f[N - Len(errorTurns) + i]
    <3>1. N - Len(errorTurns) + i \in 1..N
      BY <1>1, <1>2, <1>3
    <3>2. errorTurns[i] = (batches[N - Len(errorTurns) + i].outcome = "error")
      BY DEF Running, Windowed
    <3> QED BY <1>1, <3>1, <3>2
  <2> QED BY <1>3, <2>1 DEF EndOf
<1>5. f[N + 1] = e
  BY <1>1
<1> DEFINE t == Trim(Append(errorTurns, e), RecurringWindow)
<1>6. t \in Seq(BOOLEAN) /\ EndOf(t, RecurringWindow, f, N + 1)
  <2> HIDE DEF f, e
  <2> QED BY <1>1, <1>2, <1>4, <1>5, WindowSlides
<1>7. t = ErrorTurns(outcome)
  BY DEF ErrorTurns
<1> HIDE DEF t
<1>8. Len(t) = (IF N + 1 > RecurringWindow THEN RecurringWindow ELSE N + 1)
  BY <1>6 DEF EndOf
<1>9. ASSUME NEW i \in 1..Len(t) PROVE t[i] = (batches'[N + 1 - Len(t) + i].outcome = "error")
  <2> DEFINE k == N + 1 - Len(t) + i
  <2>1. k \in 1..(N + 1)
    BY <1>1, <1>2, <1>6, <1>8
  <2>2. t[i] = f[k]
    <3> HIDE DEF f
    <3> QED BY <1>6 DEF EndOf
  <2>3. f[k] = (batches'[k].outcome = "error")
    <3> HIDE DEF k
    <3> QED BY <2>1
  <2> QED BY <2>2, <2>3
<1> HIDE DEF f
<1> QED BY <1>1, <1>6, <1>7, <1>8, <1>9

LEMMA ForgottenIs ==
  ASSUME NEW t \in Seq(BOOLEAN)
  PROVE  Forgotten(t) <=> \A i \in 1..Len(t) : ~t[i]
<1> DEFINE E == {i \in DOMAIN t : t[i]}
<1>1. DOMAIN t = 1..Len(t) /\ Len(t) \in Nat
  OBVIOUS
<1>2. IsFiniteSet(1..Len(t))
  BY <1>1, FS_Interval
<1>3. IsFiniteSet(E)
  <2>1. E \in SUBSET (1..Len(t))
    BY <1>1
  <2> QED BY <1>2, <2>1, FS_Subset
<1>4. Cardinality(E) = 0 <=> E = {}
  BY <1>3, FS_EmptySet
<1> QED BY <1>1, <1>4 DEF Forgotten, Occurrences

LEMMA RunBatchStep ==
  ASSUME GuardInv, NEW request \in Request, NEW outcome \in Outcome, RunBatch(request, outcome)
  PROVE  GuardInv'
<1> DEFINE b == [request |-> request, outcome |-> outcome]
           N == Len(batches)
           turns == ErrorTurns(outcome)
           failed == IF outcome = "error" THEN failures + 1 ELSE 0
           unproductive == IF outcome = "wrote" THEN 0 ELSE idle + 1
           already == evaluated /\ ~(failed = 0 /\ unproductive = 0)
           trip == SoftTrip(failed, unproductive) /\ ~already
           before == nudged /\ ~Forgotten(turns)
           reflect == outcome = "error" /\ ~before /\ Occurrences(turns) >= RecurringLimit
<1>1. Adds(b) /\ b.request = request /\ b.outcome = outcome
  BY DEF RunBatch, Adds, Batch
<1>2. /\ batches' \in Seq(Batch) /\ Len(batches') = N + 1 /\ N \in Nat
      /\ \A i \in 1..N : batches'[i] = batches[i]
      /\ batches'[N + 1] = b /\ batches' # <<>> /\ LastBatch' = b
  BY <1>1, AddsFacts
<1>3. /\ Running /\ stopped = "no" /\ N < MaxGuarded /\ StopFor(request) = "no"
      /\ polls' = Polls(request) /\ repeats' = Repeats(request)
      /\ pollSeen' = (SameRequest(request) /\ IsPoll)
      /\ recent' = Requests(request)
      /\ lastChanged' = (batches # <<>> /\ LastBatch.outcome # outcome)
  BY DEF RunBatch, GuardInv
<1>4. /\ failures' = failed /\ idle' = unproductive
      /\ evaluated' = (already \/ trip)
      /\ evaluations' = (IF trip THEN evaluations \cup {N + 1} ELSE evaluations)
      /\ errorTurns' = turns
      /\ nudged' = (before \/ reflect)
      /\ reflections' = (IF reflect THEN reflections \cup {N + 1} ELSE reflections)
      /\ stopped' = (IF failed >= FailureLimit THEN "failing" ELSE "no")
  BY DEF RunBatch
<1> HIDE DEF turns, failed, unproductive, already, trip, before, reflect
<1>5. GuardTypeOK
  BY DEF GuardInv
<1>6. /\ Repeats(request) < RepeatLimit /\ Polls(request) < PollingLimit /\ ~Alternates(request)
  <2>1. Repeats(request) \in Int /\ Polls(request) \in Int /\ RepeatLimit \in Int /\ PollingLimit \in Int
    BY <1>5, GuardAssumption DEF GuardTypeOK, Repeats, Polls
  <2> QED BY <1>3, <2>1 DEF StopFor
<1>7. /\ turns \in Seq(BOOLEAN)
      /\ Len(turns) = (IF N + 1 > RecurringWindow THEN RecurringWindow ELSE N + 1)
      /\ \A i \in 1..Len(turns) : turns[i] = (batches'[N + 1 - Len(turns) + i].outcome = "error")
  <2> HIDE DEF b
  <2> QED BY <1>1, <1>3, ErrorsSeen DEF turns
<1>8. turns[Len(turns)] = (outcome = "error") /\ Len(turns) \in 1..(N + 1)
  <2>1. RecurringWindow \in Nat \ {0}
    BY GuardAssumption
  <2>2. Len(turns) \in 1..(N + 1) /\ N + 1 - Len(turns) + Len(turns) = N + 1
    BY <1>2, <1>7, <2>1
  <2>3. Len(turns) \in 1..Len(turns)
    BY <2>2
  <2>4. turns[Len(turns)] = (batches'[N + 1 - Len(turns) + Len(turns)].outcome = "error")
    BY <1>7, <2>3
  <2> QED BY <1>2, <2>2, <2>4
<1>9. outcome = "error" => ~Forgotten(turns)
  <2> SUFFICES ASSUME outcome = "error" PROVE ~Forgotten(turns)
    OBVIOUS
  <2>1. turns[Len(turns)]
    BY <1>8
  <2>4. Len(turns) \in 1..Len(turns)
    BY <1>2, <1>8
  <2>2. turns \in Seq(BOOLEAN)
    BY <1>7
  <2>3. Forgotten(turns) <=> \A i \in 1..Len(turns) : ~turns[i]
    BY <2>2, ForgottenIs
  <2> QED BY <2>1, <2>3, <2>4
<1>10. Warned /\ Counted /\ SoftLimit \in 1..(FailureLimit - 1) /\ FailureLimit \in Nat
  BY <1>3, GuardAssumption DEF Running
<1>11. failed \in 0..FailureLimit /\ unproductive \in Nat /\ {already, trip, before, reflect} \subseteq BOOLEAN
  <2>1. failures \in 0..FailureLimit /\ failures < FailureLimit /\ idle \in Nat
        /\ evaluated \in BOOLEAN /\ nudged \in BOOLEAN
    BY <1>5, <1>10 DEF GuardTypeOK, Warned
  <2>2. failed \in 0..FailureLimit /\ unproductive \in Nat
    BY <1>10, <2>1 DEF failed, unproductive
  <2>3. already \in BOOLEAN /\ trip \in BOOLEAN
    BY <2>1 DEF already, trip, SoftTrip
  <2>4. before \in BOOLEAN /\ reflect \in BOOLEAN
    BY <2>1 DEF before, reflect, Forgotten
  <2> QED BY <2>2, <2>3, <2>4
<1>12. GuardTypeOK'
  <2>1. repeats' \in 0..(RepeatLimit - 1) /\ polls' \in 0..(PollingLimit - 1)
    <3>1. Repeats(request) \in Nat /\ Polls(request) \in Nat /\ RepeatLimit \in Nat /\ PollingLimit \in Nat
      BY <1>5, GuardAssumption DEF GuardTypeOK, Repeats, Polls
    <3> QED BY <1>3, <1>6, <3>1
  <2>2. {pollSeen', lastChanged', evaluated', nudged'} \subseteq BOOLEAN
    <3>1. pollSeen \in BOOLEAN /\ lastChanged \in BOOLEAN
      BY <1>5 DEF GuardTypeOK
    <3> QED BY <1>3, <1>4, <1>11, <3>1 DEF SameRequest, IsPoll
  <2>3. recent' \in Seq(Request) /\ Len(recent') <= AlternationWindow
    <3>1. /\ Requests(request) \in Seq(Request)
          /\ Len(Requests(request)) = (IF Len(batches') > AlternationWindow THEN AlternationWindow
                                       ELSE Len(batches'))
      BY <1>1, <1>3, RequestsSeen
    <3> QED BY <1>2, <1>3, <3>1, GuardAssumption
  <2>4. errorTurns' \in Seq(BOOLEAN) /\ Len(errorTurns') <= RecurringWindow
    BY <1>2, <1>4, <1>7, GuardAssumption
  <2>5. evaluations' \in SUBSET (1..MaxGuarded) /\ reflections' \in SUBSET (1..MaxGuarded)
    <3>1. N + 1 \in 1..MaxGuarded
      BY <1>2, <1>3, GuardAssumption
    <3>2. evaluations \in SUBSET (1..MaxGuarded) /\ reflections \in SUBSET (1..MaxGuarded)
      BY <1>5 DEF GuardTypeOK
    <3> QED BY <1>4, <3>1, <3>2
  <2>6. stopped' \in {"no", "failing"}
    BY <1>4
  <2> QED BY <1>2, <1>4, <1>11, <2>1, <2>2, <2>3, <2>4, <2>5, <2>6 DEF GuardTypeOK, Batch
<1>13. Reflected'
  <2>1. \A r \in reflections : r \in 1..N /\ r \in 1..(N + 1) /\ batches'[r].outcome = "error"
    <3>1. \A r \in reflections : r \in 1..N /\ batches'[r].outcome = "error"
      BY <1>1, ReflectedBefore
    <3> QED BY <1>2, <3>1
  <2>2. \A first, second \in reflections : first < second => Clear(first + 1, second - 1)'
    BY <1>1, ReflectedBefore
  <2>3. ~nudged => \A r \in reflections : \A n \in Nat : N <= n => Clear(r + 1, n)'
    BY <1>1, ReflectedBefore
  <2>4. CASE reflect
    <3>1. outcome = "error" /\ ~nudged /\ nudged'
      BY <1>4, <1>9, <2>4 DEF reflect, before
    <3>2. reflections' = reflections \cup {N + 1}
      BY <1>4, <2>4
    <3>3. \A r \in reflections' : r \in 1..(N + 1) /\ batches'[r].outcome = "error"
      BY <1>2, <2>1, <3>1, <3>2
    <3>4. ASSUME NEW first \in reflections', NEW second \in reflections', first < second
          PROVE  Clear(first + 1, second - 1)'
      <4>1. CASE second \in reflections /\ first \in reflections
        BY <2>2, <3>4, <4>1
      <4>2. CASE second = N + 1 /\ first \in reflections
        <5>1. \A n \in Nat : N <= n => Clear(first + 1, n)'
          BY <2>3, <3>1, <4>2
        <5>2. second - 1 = N
          BY <1>2, <4>2
        <5>3. \A n \in Nat : n = N => Clear(first + 1, n)'
          BY <5>1
        <5> QED BY <1>2, <5>2, <5>3
      <4>3. CASE first = N + 1
        BY <1>2, <3>3, <3>4, <4>3
      <4> QED BY <3>2, <4>1, <4>2, <4>3
    <3> QED BY <1>2, <3>1, <3>3, <3>4 DEF Reflected
  <2>5. CASE ~reflect
    <3>1. reflections' = reflections /\ nudged' = before
      BY <1>4, <1>11, <2>5
    <3>2. ASSUME ~nudged', NEW r \in reflections PROVE Clear(r + 1, Len(batches))'
      <4>1. CASE ~nudged
        <5>1. \A n \in Nat : n = N + 1 => Clear(r + 1, n)'
          BY <1>2, <2>3, <4>1
        <5> QED BY <1>2, <5>1 DEF Clear
      <4>2. CASE nudged
        <5>1. \A i \in 1..Len(turns) : ~turns[i]
          BY <1>7, <3>1, <3>2, <4>2, ForgottenIs DEF before
        <5>2. ASSUME NEW turn \in (N + 2 - Len(turns))..(N + 1) PROVE batches'[turn].outcome # "error"
          <6> DEFINE i == turn - (N + 1) + Len(turns)
          <6>1. i \in 1..Len(turns) /\ N + 1 - Len(turns) + i = turn
            BY <1>2, <1>8
          <6> QED BY <1>7, <5>1, <6>1
        <5>3. r < N + 2 - Len(turns)
          <6>1. r \in 1..(N + 1) /\ batches'[r].outcome = "error"
            BY <2>1
          <6> QED BY <1>2, <1>8, <5>2, <6>1
        <5>4. RecurringWindow \in Nat \ {0} /\ r \in 1..(N + 1)
          BY <2>1, GuardAssumption
        <5>5. Len(turns) = RecurringWindow
          <6>1. Len(turns) = (IF N + 1 > RecurringWindow THEN RecurringWindow ELSE N + 1)
            BY <1>7
          <6>2. Len(turns) # N + 1
            BY <1>2, <1>8, <5>3, <5>4
          <6> QED BY <6>1, <6>2
        <5> DEFINE start == N + 2 - RecurringWindow
        <5>6. start \in (r + 1)..(Len(batches') - RecurringWindow + 1) /\ start + RecurringWindow - 1 = N + 1
          BY <1>2, <5>3, <5>4, <5>5
        <5>7. \A turn \in start..(start + RecurringWindow - 1) : batches'[turn].outcome # "error"
          BY <5>2, <5>5, <5>6
        <5> HIDE DEF start
        <5> QED BY <5>6, <5>7 DEF Clear
      <4> QED BY <4>1, <4>2
    <3> QED BY <1>2, <2>1, <2>2, <3>1, <3>2 DEF Reflected
  <2> QED BY <2>4, <2>5
<1>14. ASSUME stopped' = "no" PROVE Running'
  <2>1. Counted'
    <3>1. CASE ~SameRequest(request)
      <4>1. polls' = 1 /\ repeats' = 1
        BY <1>3, <3>1 DEF Polls, Repeats
      <4>2. lastChanged' <=> N + 1 > 1 /\ batches'[N].outcome # outcome
        <5>1. lastChanged' <=> batches # <<>> /\ LastBatch.outcome # outcome
          BY <1>3
        <5>2. CASE batches = <<>>
          <6>1. N = 0
            BY <5>2, GuardBatches
          <6> QED BY <5>1, <5>2, <6>1
        <5>3. CASE batches # <<>>
          <6>1. N > 0 /\ N \in 1..N
            BY <1>2, <5>3, GuardBatches
          <6>2. batches'[N] = LastBatch
            BY <1>2, <6>1 DEF LastBatch
          <6> QED BY <1>2, <5>1, <5>3, <6>1, <6>2
        <5> QED BY <5>2, <5>3
      <4>3. InSeries(polls)'
        <5>1. 1 < N + 1 => batches'[N].request # request
          <6> SUFFICES ASSUME 1 < N + 1 PROVE batches'[N].request # request
            OBVIOUS
          <6>1. N \in 1..N /\ batches # <<>>
            BY <1>2, GuardBatches
          <6> QED BY <1>2, <3>1, <6>1 DEF SameRequest, LastBatch
        <5>2. \A i \in (N + 1)..(N + 1) : batches'[i].request = request
          BY <1>2
        <5>3. N + 1 - 1 + 1 = N + 1 /\ N + 1 - 1 = N /\ 1 \in 1..(N + 1)
          BY <1>2
        <5> QED BY <1>2, <4>1, <5>1, <5>2, <5>3 DEF InSeries
      <4>4. Unchanged(polls, Len(batches) - 1)'
        BY <1>2, <4>1 DEF Unchanged
      <4>5. N + 1 - 1 = N
        BY <1>2
      <4> QED BY <1>1, <1>2, <4>1, <4>2, <4>3, <4>4, <4>5 DEF Counted
    <3>2. CASE SameRequest(request)
      <4>1. batches # <<>> /\ LastBatch.request = request /\ N > 0
        BY <3>2, GuardBatches DEF SameRequest
      <4>2. InSeries(polls) /\ (~pollSeen => repeats = polls /\ Unchanged(polls, N - 1))
            /\ (lastChanged <=> N > 1 /\ batches[N - 1].outcome # LastBatch.outcome)
        BY <1>10, <4>1 DEF Counted
      <4>3. polls' = polls + 1 /\ (pollSeen' <=> IsPoll) /\ polls \in 1..N
        <5>1. polls' = polls + 1 /\ polls \in 1..N
          BY <1>3, <3>2, <4>2 DEF Polls, InSeries
        <5>2. pollSeen' <=> SameRequest(request) /\ IsPoll
          BY <1>3
        <5> QED BY <3>2, <5>1, <5>2
      <4>4. lastChanged' <=> N + 1 > 1 /\ batches'[N].outcome # outcome
        <5>1. lastChanged' <=> batches # <<>> /\ LastBatch.outcome # outcome
          BY <1>3
        <5>2. batches'[N] = LastBatch
          BY <1>2, <4>1 DEF LastBatch
        <5> QED BY <1>2, <4>1, <5>1, <5>2
      <4>5. InSeries(polls)'
        <5>1. /\ polls + 1 \in 1..(N + 1) /\ (N + 1) - (polls + 1) + 1 = N - polls + 1
              /\ (N + 1) - (polls + 1) = N - polls
          BY <1>2, <4>3
        <5>2. ASSUME NEW i \in (N - polls + 1)..(N + 1) PROVE batches'[i].request = request
          <6>1. CASE i = N + 1
            BY <1>2, <6>1
          <6>2. CASE i # N + 1
            <7>1. i \in (N - polls + 1)..N /\ i \in 1..N
              BY <1>2, <4>3, <6>2
            <7> QED BY <1>2, <4>1, <4>2, <7>1 DEF InSeries
          <6> QED BY <6>1, <6>2
        <5>3. ASSUME polls + 1 < N + 1 PROVE batches'[N - polls].request # request
          <6>1. polls < N /\ N - polls \in 1..N
            BY <1>2, <4>3, <5>3
          <6> QED BY <1>2, <4>1, <4>2, <6>1 DEF InSeries
        <5> QED BY <1>2, <4>3, <5>1, <5>2, <5>3 DEF InSeries
      <4>6. ASSUME ~pollSeen' PROVE repeats' = polls' /\ Unchanged(polls, Len(batches) - 1)'
        <5>1. ~IsPoll /\ ~pollSeen /\ ~lastChanged
          BY <4>3, <4>6 DEF IsPoll
        <5>2. repeats' = repeats + 1 /\ repeats = polls /\ Unchanged(polls, N - 1)
          BY <1>3, <3>2, <4>2, <5>1 DEF Repeats
        <5>3. /\ (N + 1) - (polls + 1) + 1 = N - polls + 1 /\ N + 1 - 1 = N
              /\ N - polls + 1 \in 1..N
          BY <1>2, <4>3
        <5>4. ASSUME NEW i \in (N - polls + 1)..N
              PROVE  batches'[i].outcome = batches'[N - polls + 1].outcome
          <6>1. i \in 1..N
            BY <1>2, <4>3
          <6>2. CASE i < N
            <7>1. i \in (N - polls + 1)..(N - 1)
              BY <1>2, <5>3, <6>2
            <7> QED BY <1>2, <5>2, <5>3, <6>1, <7>1 DEF Unchanged
          <6>3. CASE i = N /\ polls = 1
            BY <1>2, <5>3, <6>3
          <6>4. CASE i = N /\ polls # 1
            <7>1. N > 1 /\ N - 1 \in (N - polls + 1)..(N - 1)
              BY <1>2, <4>3, <6>4
            <7>2. batches[N - 1].outcome = batches[N - polls + 1].outcome
              BY <5>2, <7>1 DEF Unchanged
            <7>3. batches[N - 1].outcome = batches[N].outcome
              BY <4>2, <5>1, <7>1 DEF LastBatch
            <7> QED BY <1>2, <5>3, <6>1, <6>4, <7>2, <7>3
          <6> QED BY <1>2, <6>1, <6>2, <6>3, <6>4
        <5> QED BY <1>2, <4>3, <5>2, <5>3, <5>4 DEF Unchanged
      <4>7. N + 1 - 1 = N
        BY <1>2
      <4> QED BY <1>1, <1>2, <4>4, <4>5, <4>6, <4>7 DEF Counted
    <3> QED BY <3>1, <3>2
  <2>2. Remembered'
    BY <1>1, <1>3, RequestsSeen DEF Remembered
  <2>3. Windowed'
    <3>1. errorTurns' = turns /\ Len(batches') = N + 1
      BY <1>2, <1>4
    <3>2. Len(errorTurns') = (IF Len(batches') > RecurringWindow THEN RecurringWindow ELSE Len(batches'))
      BY <1>7, <3>1
    <3>3. \A i \in 1..Len(errorTurns') :
            errorTurns'[i] = (batches'[Len(batches') - Len(errorTurns') + i].outcome = "error")
      <4> SUFFICES ASSUME NEW i \in 1..Len(errorTurns')
                   PROVE  errorTurns'[i] = (batches'[Len(batches') - Len(errorTurns') + i].outcome = "error")
        OBVIOUS
      <4>1. i \in 1..Len(turns) /\ errorTurns'[i] = turns[i]
        BY <3>1
      <4>2. turns[i] = (batches'[N + 1 - Len(turns) + i].outcome = "error")
        BY <1>7, <4>1
      <4>3. N + 1 - Len(turns) + i = Len(batches') - Len(errorTurns') + i
        BY <3>1
      <4> QED BY <4>1, <4>2, <4>3, Zenon
    <3> QED BY <3>2, <3>3 DEF Windowed
  <2>4. Warned'
    <3>1. failed < FailureLimit
      BY <1>4, <1>10, <1>11, <1>14
    <3>2. evaluated' => \E turn \in evaluations' : turn <= N + 1
      <4>1. CASE trip
        <5>1. N + 1 \in evaluations' /\ N + 1 <= N + 1
          BY <1>2, <1>4, <4>1
        <5> QED BY <5>1
      <4>2. CASE ~trip /\ already
        <5>1. PICK turn \in evaluations : turn <= N
          BY <1>10, <4>2 DEF already, Warned
        <5>2. turn \in Int
          BY <1>5 DEF GuardTypeOK
        <5> QED BY <1>2, <1>4, <4>2, <5>1, <5>2
      <4> QED BY <1>4, <4>1, <4>2
    <3>3. ASSUME failed >= SoftLimit PROVE already \/ trip
      <4>1. outcome = "error" /\ failed = failures + 1 /\ failures \in Nat /\ failed # 0
        BY <1>5, <1>10, <3>3 DEF failed, GuardTypeOK
      <4>2. CASE failed = SoftLimit
        BY <4>2 DEF trip, SoftTrip
      <4>3. CASE failed # SoftLimit
        <5>1. failures >= SoftLimit
          BY <1>10, <3>3, <4>1, <4>3
        <5> QED BY <1>10, <4>1, <5>1 DEF already, Warned
      <4> QED BY <4>2, <4>3
    <3> QED BY <1>2, <1>4, <3>1, <3>2, <3>3 DEF Warned
  <2> QED BY <2>1, <2>2, <2>3, <2>4 DEF Running
<1>15. AlternationStops'
  BY <1>1, <1>3, <1>6, AlternatesIs DEF AlternationStops
<1>16. WarnedBeforeStop'
  <2> SUFFICES ASSUME stopped' = "failing" PROVE \E turn \in evaluations' : turn < N + 1
    BY <1>2 DEF WarnedBeforeStop
  <2>1. failed >= FailureLimit
    BY <1>4
  <2>2. failures >= SoftLimit
    BY <1>5, <1>10, <2>1 DEF failed, GuardTypeOK
  <2>3. PICK turn \in evaluations : turn <= N
    BY <1>10, <2>2 DEF Warned
  <2>4. turn \in Int /\ turn \in evaluations'
    BY <1>4, <1>5 DEF GuardTypeOK
  <2> QED BY <1>2, <2>3, <2>4
<1>17. StopsAreEarned'
  BY <1>4 DEF StopsAreEarned
<1> QED BY <1>12, <1>13, <1>14, <1>15, <1>16, <1>17 DEF GuardInv

LEMMA GuardInvHolds == GuardSpec => []GuardInv
<1>1. GuardInv /\ [GuardNext]_guardVars => GuardInv'
  <2> SUFFICES ASSUME GuardInv, [GuardNext]_guardVars PROVE GuardInv'
    OBVIOUS
  <2>1. CASE UNCHANGED guardVars
    <3> USE <2>1 DEF guardVars
    <3>1. GuardTypeOK' <=> GuardTypeOK
      BY DEF GuardTypeOK
    <3>2. Reflected' <=> Reflected
      BY DEF Reflected, Clear
    <3>3. Counted' <=> Counted
      BY DEF Counted, InSeries, Unchanged, LastBatch
    <3>4. (Remembered' <=> Remembered) /\ (Windowed' <=> Windowed) /\ (Warned' <=> Warned)
      BY DEF Remembered, Windowed, Warned
    <3>5. StopsAreEarned' <=> StopsAreEarned
      BY DEF StopsAreEarned, Series, Latest, LastBatch, AlternatingFor
    <3>6. (AlternationStops' <=> AlternationStops) /\ (WarnedBeforeStop' <=> WarnedBeforeStop)
      BY DEF AlternationStops, WarnedBeforeStop, AlternatingFor, Latest
    <3>7. stopped' = stopped
      OBVIOUS
    <3> QED BY <3>1, <3>2, <3>3, <3>4, <3>5, <3>6, <3>7 DEF GuardInv, Running
  <2>2. CASE GuardNext
    BY <2>2, GuardStopsStep, RunBatchStep DEF GuardNext
  <2> QED BY <2>1, <2>2
<1> QED BY <1>1, GuardStart, PTL DEF GuardSpec

\* Whatever an unattended agent asks for and whatever its tools return: it is stopped for
\* repeating itself only if nothing in the series was new, two requests never alternate
\* beyond the window, nobody is stopped for failing unwarned, and an error in the window
\* is reflected on once (the guards of KernelLoop.ts and AutoStallGuard.ts).
THEOREM GuardsAreSound == GuardSpec => []GuardsSound
BY GuardInvHolds, InvGivesSound, PTL

-----------------------------------------------------------------------------
(* The two together (MCConversation).                                        *)

\* The loop of a conversation and the guards of a run keep their types.
THEOREM TalkTyped == Spec => []TalkTypeOK
<1>1. Init => ConversationInit /\ GuardInit
  BY DEF Init
<1>2. [Next]_allVars => [ConversationNext]_talkVars /\ [GuardNext]_guardVars
  BY DEF Next, OnLoop, OnGuards, allVars
<1>3. Spec => ConversationSpec /\ GuardSpec
  BY <1>1, <1>2, PTL DEF Spec, ConversationSpec, GuardSpec
<1>4. GuardSpec => []GuardTypeOK
  BY GuardInvHolds, PTL DEF GuardInv
<1> QED BY <1>3, <1>4, EveryRunEndsWell, PTL DEF TalkTypeOK
=============================================================================
