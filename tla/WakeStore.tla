------------------------------ MODULE WakeStore ------------------------------
(***************************************************************************)
(* The durable wakes of one graph-loop instance (WakeStore.ts).  Every     *)
(* method runs under the store's lock and is one action.  A wake is due    *)
(* once its fireAt has come; a claim may be found expired when its owner   *)
(* does not renew it.                                                      *)
(***************************************************************************)
EXTENDS Naturals, FiniteSets

CONSTANTS
  Wake,         \* bound: ids of wake records, taken in order
  Owner,        \* executions that claim a wake; a claim token names one
  MaxAttempts,  \* MAX_WAKE_ATTEMPTS of runner.ts; attempts are counted no further
  None          \* no claim

VARIABLE wake

Kind   == {"timer", "event", "manual"}
Target == {"graph", "activation"}   \* activationId: `__graph__` or the activation
WakeStatus == {"free", "pending", "claimed", "cancelled"}

\* `free` stands for a record that does not exist, was pruned, or is done or
\* cancelled and referred to by nobody: no method looks at those again.
WakeRecord ==
  [status: WakeStatus, kind: Kind, target: Target, due: BOOLEAN,
   claim: Owner \cup {None}, expired: BOOLEAN, attempts: 0..MaxAttempts]

Free == [status |-> "free", kind |-> "timer", target |-> "graph", due |-> FALSE,
         claim |-> None, expired |-> FALSE, attempts |-> 0]

WakeInit == wake = [w \in Wake |-> Free]

Pending == {w \in Wake : wake[w].status = "pending"}
InClaim == {w \in Wake : wake[w].status = "claimed"}
LiveWakes == Pending \cup InClaim

-----------------------------------------------------------------------------
(* The methods.  `held` are the wakes that a running tick still refers to; their *)
(* ids are not taken, and what becomes of their records is kept.               *)

\* Mutant: timers queue up.
NeverCoalesces(kind, target) == {}

\* A pending timer of the same target is replaced.
Coalesces(kind, target) ==
  IF kind # "timer" THEN {}
  ELSE {w \in Pending : wake[w].kind = kind /\ wake[w].target = target}

Unused(held) == {w \in Wake \ held : wake[w].status = "free"}

\* Ids mean nothing: wakes of one sort take the same ids whenever they can, so that
\* states that differ only in the ids are one state.
Sort(kind, target) == IF kind # "timer" THEN 0 ELSE IF target = "graph" THEN 1 ELSE 2
NewId(kind, target, held) ==
  LET own  == {w \in Unused(held) : w % 3 = Sort(kind, target)}
      from == IF own # {} THEN own ELSE Unused(held)
  IN {w \in from : \A v \in from : w <= v}

Schedule(kind, target, due, held) ==
  IF Coalesces(kind, target) # {}
  THEN \E w \in Coalesces(kind, target) : wake' = [wake EXCEPT ![w].due = due]
  ELSE \E w \in NewId(kind, target, held) :
         wake' = [wake EXCEPT ![w] = [Free EXCEPT !.status = "pending", !.kind = kind,
                                                     !.target = target, !.due = due]]

\* Mutant: claims of the loop that are still alive are not looked at.
Unclaimed == TRUE

NoLiveClaim == \A w \in InClaim : wake[w].expired

Claimable == {w \in Pending : wake[w].due /\ NoLiveClaim}

\* claimDue: at most one wake of a loop in one sweep.
ClaimDue(w, o) ==
  /\ w \in Claimable
  /\ LET n == wake[w].attempts
     IN wake' = [wake EXCEPT ![w] =
                   [wake[w] EXCEPT !.status = "claimed", !.claim = o, !.expired = FALSE,
                                   !.attempts = IF n < MaxAttempts THEN n + 1 ELSE n]]

\* heartbeat: extends a claim that is still its own, expired or not.
Heartbeat(w, o) ==
  wake' = [wake EXCEPT ![w].expired = IF wake[w].status = "claimed" /\ wake[w].claim = o
                                      THEN FALSE ELSE @]

\* release: refused only if the record carries another's claim.  The releaser
\* does not come back to a wake that is done or cancelled.
ReleaseWake(w, o, outcome, due) ==
  wake' = [wake EXCEPT ![w] =
             IF wake[w].status = "free" \/ wake[w].claim \notin {None, o} THEN @
             ELSE IF outcome \in {"done", "cancelled"} THEN Free
             ELSE [@ EXCEPT !.status = outcome, !.claim = None, !.expired = FALSE, !.due = due]]

\* cancelForLoop: claimed wakes too.
CancelForLoop(held) ==
  wake' = [w \in Wake |-> IF w \notin LiveWakes THEN wake[w]
                          ELSE IF w \in held THEN [wake[w] EXCEPT !.status = "cancelled", !.expired = FALSE]
                          ELSE Free]

\* Mutant: claims are taken back whether or not they have expired.
TakeBackAll ==
  wake' = [w \in Wake |-> IF w \in InClaim
                          THEN [wake[w] EXCEPT !.status = "pending", !.claim = None, !.expired = FALSE]
                          ELSE wake[w]]

ReconcileOrphans ==
  wake' = [w \in Wake |-> IF w \in InClaim /\ wake[w].expired
                          THEN [wake[w] EXCEPT !.status = "pending", !.claim = None, !.expired = FALSE]
                          ELSE wake[w]]

FireAt(w) ==
  /\ w \in Pending /\ ~wake[w].due
  /\ wake' = [wake EXCEPT ![w].due = TRUE]

ClaimExpires(w) ==
  /\ w \in InClaim /\ ~wake[w].expired
  /\ wake' = [wake EXCEPT ![w].expired = TRUE]

WakeTypeOK == wake \in [Wake -> WakeRecord]

=============================================================================
