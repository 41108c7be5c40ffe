--------------------------- MODULE ProviderCircuit ---------------------------
(***************************************************************************)
(* ProviderCircuitBreaker, and the calls that MetaAgentGraphAgentExecutor  *)
(* makes under it.  The circuit of a provider is a file shared by all      *)
(* processes of the machine: absent (closed), open until a time, or half   *)
(* open while one probe is out.  Each operation is one section under a     *)
(* file lock.                                                              *)
(***************************************************************************)
EXTENDS Naturals

CONSTANTS
  Caller,        \* agent executions, in any process, one call at a time
  NoCaller,
  MaxLeaks       \* bound: permits that are never settled

ASSUME CircuitAssumption == NoCaller \notin Caller /\ MaxLeaks \in Nat

VARIABLES
  call,      \* none, plain or probe: the permit of each caller
  circuit,   \* the file: its state, the token of the probe, is retryAt past
  stale,     \* history: calls admitted before a failure that was recorded since
  leaks      \* permits that nobody will settle

circuitVars == <<call, circuit, stale, leaks>>

Closed == [state |-> "closed", probe |-> NoCaller, due |-> FALSE]

CircuitInit ==
  /\ call = [c \in Caller |-> "none"]
  /\ circuit = Closed
  /\ stale = {} /\ leaks = 0

Settle(c) ==
  /\ call[c] # "none" /\ call' = [call EXCEPT ![c] = "none"]
  /\ UNCHANGED leaks

\* A token belongs to one call: that of a call that is over matches nobody.
IsProbe(c) ==
  call[c] = "probe" /\ circuit.state = "half_open" /\ circuit.probe = c

-----------------------------------------------------------------------------
(* beforeCall *)

\* A call that is refused has no effect: it is no action.
Admit(c) ==
  /\ call[c] = "none" /\ circuit.state = "closed"
  /\ call' = [call EXCEPT ![c] = "plain"]
  /\ stale' = stale \ {c}
  /\ UNCHANGED <<circuit, leaks>>

\* Mutant: the circuit is not marked as half open.
AdmitUnmarked(c) ==
  /\ call[c] = "none" /\ circuit.state = "open" /\ circuit.due
  /\ call' = [call EXCEPT ![c] = "probe"]
  /\ stale' = stale \ {c}
  /\ UNCHANGED <<circuit, leaks>>

AdmitProbe(c) ==
  /\ call[c] = "none" /\ circuit.state = "open" /\ circuit.due
  /\ call' = [call EXCEPT ![c] = "probe"]
  /\ circuit' = [state |-> "half_open", probe |-> c, due |-> TRUE]
  /\ stale' = stale \ {c}
  /\ UNCHANGED leaks

-----------------------------------------------------------------------------
(* How execute() settles the permit *)

\* Mutant: whoever succeeds closes the circuit.
AnySuccess(c) ==
  /\ Settle(c)
  /\ circuit' = Closed
  /\ UNCHANGED stale

\* recordSuccess: also for a result that failed for another reason than the
\* provider.  Only the probe may close the circuit.
Succeed(c) ==
  /\ Settle(c)
  /\ circuit' = IF IsProbe(c) THEN Closed ELSE circuit
  /\ UNCHANGED stale

\* Mutant: the file keeps the token of the probe.
FailKeepsProbe(c) ==
  /\ Settle(c)
  /\ circuit' = [circuit EXCEPT !.state = "open", !.due = FALSE]
  /\ stale' = {b \in Caller : call[b] # "none"} \ {c}

\* recordFailure: whoever fails opens the circuit, over a probe that is out too.
Fail(c) ==
  /\ Settle(c)
  /\ circuit' = [state |-> "open", probe |-> NoCaller, due |-> FALSE]
  /\ stale' = {b \in Caller : call[b] # "none"} \ {c}

\* abandon: an interrupted probe leaves the circuit open, and due.
Abandon(c) ==
  /\ Settle(c)
  /\ circuit' = IF IsProbe(c) THEN [state |-> "open", probe |-> NoCaller, due |-> TRUE]
                ELSE circuit
  /\ UNCHANGED stale

\* The budget of sub-agents is used up: execute() returns without settling the
\* permit.  So does a process that dies.
Leak(c) ==
  /\ call[c] # "none" /\ leaks < MaxLeaks
  /\ call' = [call EXCEPT ![c] = "none"]
  /\ circuit' = IF IsProbe(c) THEN [circuit EXCEPT !.probe = NoCaller] ELSE circuit
  /\ leaks' = leaks + 1
  /\ UNCHANGED stale

\* The CLI removes the file.
Reset ==
  /\ circuit # Closed /\ circuit' = Closed
  /\ UNCHANGED <<call, stale, leaks>>

CooldownEnds ==
  /\ circuit.state = "open" /\ ~circuit.due
  /\ circuit' = [circuit EXCEPT !.due = TRUE]
  /\ UNCHANGED <<call, stale, leaks>>

-----------------------------------------------------------------------------
CircuitNext ==
  \/ \E c \in Caller :
       \/ Admit(c) \/ AdmitProbe(c) \/ Succeed(c) \/ Fail(c) \/ Abandon(c) \/ Leak(c)
  \/ Reset \/ CooldownEnds

CircuitSpec == CircuitInit /\ [][CircuitNext]_circuitVars

\* Calls come to an end, callers keep trying, and time passes.
CircuitFairSpec ==
  /\ CircuitSpec
  /\ \A c \in Caller : WF_circuitVars(Succeed(c) \/ Fail(c) \/ Abandon(c))
  /\ WF_circuitVars(\E c \in Caller : AdmitProbe(c))
  /\ WF_circuitVars(CooldownEnds)

-----------------------------------------------------------------------------
(* Properties *)

(* Type correctness, and only a half-open circuit names a probe. *)
CircuitTypeOK ==
  /\ call \in [Caller -> {"none", "plain", "probe"}]
  /\ circuit \in [state: {"closed", "open", "half_open"}, probe: Caller \cup {NoCaller}, due: BOOLEAN]
  /\ circuit.state # "half_open" => circuit.probe = NoCaller
  /\ stale \subseteq Caller
  /\ leaks \in 0..MaxLeaks

\* At most one probe is out that no newer failure has overtaken.
OneProbe ==
  \A c, d \in Caller \ stale : call[c] = "probe" /\ call[d] = "probe" => c = d

\* A success of a call that was admitted before the last failure does not close
\* the circuit: only the operator and a probe newer than every failure do.
NewerFailureStands ==
  [][circuit.state # "closed" /\ circuit'.state = "closed" =>
       \/ call' = call
       \/ \E c \in Caller \ stale : call[c] = "probe" /\ call'[c] = "none"]_circuitVars

\* A provider that failed is tried again.
CircuitRetried == ~<>[](circuit.state = "open")

\* A probe does not keep everybody out for ever, unless its permit is leaked: a
\* half-open circuit has no time of its own.
ProbeEnds ==
  ~<>[](circuit.state = "half_open" /\ circuit.probe # NoCaller)

=============================================================================
