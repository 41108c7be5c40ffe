---------------------------- MODULE HostAdmission ----------------------------
(***************************************************************************)
(* HostSchedulerCoordinator: processes of one machine share its capacity   *)
(* (graph ticks, model calls, named resources, adapters) through files.    *)
(* A process leaves a ticket; whoever pumps the queue, under one file      *)
(* lock, turns tickets into leases; the owner polls until its ticket is    *)
(* granted, holds the lease while it renews it, and releases it.           *)
(*                                                                         *)
(* A section under the lock is one step, but for the pump: one step for    *)
(* each grant, as it may die half way.  A record expires when its owner    *)
(* has been dead or stalled for the time to live: time is not counted.     *)
(* graph_tick and model_call differ only in their limit and counters.      *)
(***************************************************************************)
EXTENDS Naturals, FiniteSets

CONSTANTS
  Owner,         \* processes, each with at most one request at a time
  NoOwner,       \* no process
  Workspace,
  Resource,
  Requests,      \* the requests of the owners, one function of each instance
  TurnLimit,     \* maxConcurrentGraphTicks, maxConcurrentModelCalls
  ShareLimit,    \* maxConcurrent of a shared resource and of an adapter
  NormalizeAt,   \* smallest counter at which the counters are rebased (10 000)
  MaxLead,       \* bound: grants of a workspace above the fewest of another
  MaxFaults      \* bound: deaths and stalls of processes

Turnwise == {"graph_tick", "model_call"}

Request == [kind: Turnwise \cup {"resource", "adapter_call"},
            ws: Workspace, uses: SUBSET Resource, exclusive: BOOLEAN]

ASSUME HostAssumption ==
  /\ Requests \subseteq [Owner -> Request]
  /\ IsFiniteSet(Owner) /\ NoOwner \notin Owner
  /\ TurnLimit \in Nat \ {0} /\ ShareLimit \in Nat \ {0} /\ NormalizeAt \in Nat \ {0}
  /\ MaxLead \in Nat /\ MaxFaults \in Nat

VARIABLES
  req,     \* the request of each owner, fixed
  phase,   \* where each owner is
  up,      \* running, stalled or dead
  before,  \* <<o, p>>: the live ticket of o was enqueued before that of p
  disk,    \* the files: tickets, leases, which are past their time, fairness
  pump,    \* who holds the lock to grant, the tickets it has read, its new fairness
  faults   \* deaths and stalls so far

hostVars == <<req, phase, up, before, disk, pump, faults>>
fixed == <<req, faults>>

\* A lease whose ticket was never marked as granted, because the process that
\* pumped died between the two writes, is an orphan: it has no handle.
LeaseId == Owner \X {"own", "orphan"}

NoCounts == [k \in Turnwise |-> [w \in Workspace |-> 0]]
Idle == [by |-> NoOwner, seen |-> {}, grants |-> NoCounts, soon |-> {}]

HostInit ==
  /\ req \in Requests
  /\ phase = [o \in Owner |-> "idle"]
  /\ up = [o \in Owner |-> "running"]
  /\ before = {}
  /\ disk = [ticket |-> [o \in Owner |-> "none"], leases |-> {}, late |-> {},
             grants |-> NoCounts, soon |-> {}]
  /\ pump = Idle
  /\ faults = 0

-----------------------------------------------------------------------------
(* Who may be granted: canGrant, on the tickets that the pump has read *)

Queued == {o \in pump.seen : disk.ticket[o] = "waiting"}

Earlier(o, p) == <<o, p>> \in before

IsFirst(o, S) == o \in S /\ \A p \in S \ {o} : Earlier(o, p)

OfKind(k, S) == {o \in S : req[o].kind = k}

LeasesOf(k) == {l \in disk.leases : req[l[1]].kind = k}

\* The oldest ticket of the workspace with the fewest grants.
HasTurn(o) ==
  LET k == req[o].kind
      peers == OfKind(k, Queued)
      heads == {p \in peers : IsFirst(p, {q \in peers : req[q].ws = req[p].ws})}
  IN /\ o \in heads
     /\ \A p \in heads \ {o} :
          \/ pump.grants[k][req[o].ws] < pump.grants[k][req[p].ws]
          \/ pump.grants[k][req[o].ws] = pump.grants[k][req[p].ws] /\ Earlier(o, p)

Users(k, r) == {l \in LeasesOf(k) : r \in req[l[1]].uses}

Compatible(o, users) ==
  IF req[o].exclusive THEN users = {}
  ELSE (\A l \in users : ~req[l[1]].exclusive) /\ Cardinality(users) < ShareLimit

\* Mutant: a request only looks at the holders.
NoBarrier(o) == FALSE

\* Writer barrier: an older request for one of the same resources goes first.
BlockedByEarlier(o) ==
  \E p \in OfKind("resource", Queued) \ {o} :
    Earlier(p, o) /\ req[p].uses \cap req[o].uses # {}

CanGrant(o) ==
  LET k == req[o].kind IN
  /\ k \in Turnwise => Cardinality(LeasesOf(k)) < TurnLimit /\ HasTurn(o)
  /\ k = "adapter_call" =>
       /\ \A r \in req[o].uses : Cardinality(Users(k, r)) < ShareLimit
       /\ req[o].uses \cap (disk.soon \cup pump.soon) = {}
       /\ IsFirst(o, {p \in OfKind(k, Queued) : req[p].uses = req[o].uses})
  /\ k = "resource" =>
       /\ \A r \in req[o].uses : Compatible(o, Users(k, r))
       /\ ~BlockedByEarlier(o)

Grantable == {o \in Queued : CanGrant(o)}

-----------------------------------------------------------------------------
(* Pumping: reapExpiredUnlocked, then grantAvailableUnlocked *)

\* Every other section waits for the pump to leave the lock.
Unlocked == pump.by = NoOwner

Running(o) == up[o] = "running"

\* The owners with a ticket, or with the time of one.
Ticketed(d, ph) == {o \in Owner : d.ticket[o] # "none" \/ ph[o] = "stamped"}

\* Tickets keep their place in the order as long as they exist.
Write(d, ph) ==
  /\ disk' = d /\ phase' = ph
  /\ before' = before \cap (Ticketed(d, ph) \X Ticketed(d, ph))

\* Mutant: only the leases are reaped.
ReapLeases(d) == [d EXCEPT !.leases = @ \ d.late, !.late = {}]

Reap(d) ==
  [d EXCEPT !.ticket = [o \in Owner |-> IF <<o, "own">> \in d.late THEN "none" ELSE @[o]],
            !.leases = @ \ d.late,
            !.late = {}]

Begin(o, d, ph) ==
  /\ Unlocked
  /\ Write(Reap(d), ph)
  /\ pump' = [by |-> o, seen |-> {p \in Owner : Reap(d).ticket[p] = "waiting"},
              grants |-> d.grants, soon |-> {}]
  /\ UNCHANGED <<up, fixed>>

Rebased(g) ==
  LET used == {g[w] : w \in {v \in Workspace : g[v] > 0}}
      least == CHOOSE n \in used : \A m \in used : n <= m
  IN IF used = {} \/ least < NormalizeAt THEN g
     ELSE [w \in Workspace |-> IF g[w] > 0 THEN g[w] - least ELSE 0]

Counted(o) ==
  LET k == req[o].kind
      oneMore == [pump.grants[k] EXCEPT ![req[o].ws] = @ + 1]
  IN
  IF k \in Turnwise
  THEN [pump EXCEPT !.grants[k] = Rebased(oneMore)]
  ELSE [pump EXCEPT !.soon = IF k = "adapter_call" THEN @ \cup req[o].uses ELSE @]

\* The lease is written, then the ticket.
Grant(o) ==
  /\ Running(o) /\ pump.by = o
  /\ \E w \in Grantable :
       /\ IsFirst(w, Grantable)
       /\ Write([disk EXCEPT !.leases = @ \cup {<<w, "own">>}, !.ticket[w] = "granted"], phase)
       /\ pump' = Counted(w)
  /\ UNCHANGED <<up, fixed>>

\* The fairness of all its grants is written at the end.
EndPump(o) ==
  /\ Running(o) /\ pump.by = o /\ Grantable = {}
  /\ Write([disk EXCEPT !.grants = pump.grants, !.soon = @ \cup pump.soon],
           [phase EXCEPT ![o] = IF @ = "releasing" THEN "idle" ELSE "polling"])
  /\ pump' = Idle
  /\ UNCHANGED <<up, fixed>>

-----------------------------------------------------------------------------
(* acquireTicket *)

\* The time of the ticket is read before its file is written.
Stamp(o) ==
  /\ Running(o) /\ phase[o] = "idle"
  /\ req[o].kind \in Turnwise =>
       \A w \in Workspace : disk.grants[req[o].kind][req[o].ws] < disk.grants[req[o].kind][w] + MaxLead
  /\ phase' = [phase EXCEPT ![o] = "stamped"]
  /\ before' = before \cup (Ticketed(disk, phase) \X {o})
  /\ UNCHANGED <<up, disk, pump, fixed>>

\* The only file written without the lock.
Submit(o) ==
  /\ Running(o) /\ phase[o] = "stamped"
  /\ Write([disk EXCEPT !.ticket[o] = "waiting"], [phase EXCEPT ![o] = "polling"])
  /\ UNCHANGED <<up, pump, fixed>>

\* At once, and then from time to time while the owner finds its ticket waiting.
PumpTickets(o) ==
  Running(o) /\ phase[o] = "polling" /\ disk.ticket[o] = "waiting" /\ Begin(o, disk, phase)

Claim(o) ==
  /\ Running(o) /\ phase[o] = "polling" /\ Unlocked /\ disk.ticket[o] = "granted"
  /\ Write([disk EXCEPT !.ticket[o] = "none"], [phase EXCEPT ![o] = "holding"])
  /\ UNCHANGED <<up, pump, fixed>>

\* The ticket was reaped: the call throws.
TicketVanished(o) ==
  /\ Running(o) /\ phase[o] = "polling" /\ pump.by # o /\ disk.ticket[o] = "none"
  /\ Write(disk, [phase EXCEPT ![o] = "idle"])
  /\ UNCHANGED <<up, pump, fixed>>

\* Mutant: the lease of a granted ticket is left behind.
Forgotten(o) == [disk EXCEPT !.ticket[o] = "none"]

Withdrawn(o) ==
  [disk EXCEPT !.ticket[o] = "none",
               !.leases = IF disk.ticket[o] = "granted" THEN @ \ {<<o, "own">>} ELSE @,
               !.late = @ \ {<<o, "own">>}]

\* The caller's signal ends the wait; nobody is granted the freed place here.
Abort(o) ==
  /\ Running(o) /\ phase[o] = "polling" /\ Unlocked
  /\ Write(Withdrawn(o), [phase EXCEPT ![o] = "idle"])
  /\ UNCHANGED <<up, pump, fixed>>

\* A waiting ticket is renewed by its owner.
RenewTicket(o) ==
  /\ Running(o) /\ phase[o] = "polling" /\ Unlocked
  /\ disk.ticket[o] = "waiting" /\ <<o, "own">> \in disk.late
  /\ Write([disk EXCEPT !.late = @ \ {<<o, "own">>}], phase)
  /\ UNCHANGED <<up, pump, fixed>>

-----------------------------------------------------------------------------
(* The handle *)

Owned(o) == <<o, "own">> \in disk.leases

\* A lease past its time that nobody has reaped yet is renewed too.
Renew(o) ==
  /\ Running(o) /\ phase[o] = "holding" /\ Unlocked
  /\ Owned(o) /\ <<o, "own">> \in disk.late
  /\ Write([disk EXCEPT !.late = @ \ {<<o, "own">>}], phase)
  /\ UNCHANGED <<up, pump, fixed>>

Released(o) == [disk EXCEPT !.leases = @ \ {<<o, "own">>}, !.late = @ \ {<<o, "own">>}]

\* A release pumps the queue; that of a lost lease does nothing.
ReleaseHandle(o) ==
  /\ Running(o) /\ phase[o] = "holding"
  /\ \/ Owned(o) /\ Begin(o, Released(o), [phase EXCEPT ![o] = "releasing"])
     \/ /\ ~Owned(o) /\ Unlocked
        /\ Write(disk, [phase EXCEPT ![o] = "idle"])
        /\ UNCHANGED <<up, pump, fixed>>

-----------------------------------------------------------------------------
(* Faults and time *)

Fault == faults < MaxFaults /\ faults' = faults + 1 /\ UNCHANGED req

\* The lock of a dead process is free again (FileLock).
Die(o) ==
  /\ up[o] # "dead" /\ phase[o] # "idle" /\ Fault
  /\ up' = [up EXCEPT ![o] = "dead"]
  /\ pump' = IF pump.by = o THEN Idle ELSE pump
  /\ UNCHANGED <<phase, before, disk>>

\* Death between the two writes of a grant.
DieGranting(o) ==
  /\ Running(o) /\ pump.by = o /\ Fault
  /\ up' = [up EXCEPT ![o] = "dead"]
  /\ pump' = Idle
  /\ \E w \in Grantable :
       /\ IsFirst(w, Grantable)
       /\ disk' = [disk EXCEPT !.leases = @ \cup {<<w, "orphan">>}]
  /\ UNCHANGED <<phase, before>>

\* A process that stalls is not in a section under the lock (FileLock).
Stall(o) ==
  /\ Running(o) /\ phase[o] # "idle" /\ pump.by # o /\ Fault
  /\ up' = [up EXCEPT ![o] = "stalled"]
  /\ UNCHANGED <<phase, before, disk, pump>>

Resume(o) ==
  /\ up[o] = "stalled" /\ up' = [up EXCEPT ![o] = "running"]
  /\ UNCHANGED <<phase, before, disk, pump, fixed>>

\* Nobody has renewed these records for the time to live.
Expire(l) ==
  /\ l \notin disk.late
  /\ \/ l \in disk.leases
     \/ l[2] = "own" /\ disk.ticket[l[1]] # "none"
  /\ l[2] = "own" => ~Running(l[1])
  /\ disk' = [disk EXCEPT !.late = @ \cup {l}]
  /\ UNCHANGED <<phase, up, before, pump, fixed>>

IntervalElapses ==
  /\ disk.soon # {} /\ disk' = [disk EXCEPT !.soon = {}]
  /\ UNCHANGED <<phase, up, before, pump, fixed>>

-----------------------------------------------------------------------------
HostNext ==
  \/ \E o \in Owner :
       \/ Stamp(o) \/ Submit(o) \/ PumpTickets(o) \/ Grant(o) \/ EndPump(o)
       \/ Claim(o) \/ TicketVanished(o) \/ Abort(o) \/ RenewTicket(o)
       \/ Renew(o) \/ ReleaseHandle(o)
       \/ Die(o) \/ DieGranting(o) \/ Stall(o) \/ Resume(o)
  \/ \E l \in LeaseId : Expire(l)
  \/ IntervalElapses

HostSpec == HostInit /\ [][HostNext]_hostVars

\* Processes take their steps and time passes; holders come to an end; somebody
\* who polls pumps from time to time; who keeps trying gets the lock.
HostFairSpec ==
  /\ HostSpec
  /\ \A o \in Owner :
       /\ WF_hostVars(Submit(o) \/ TicketVanished(o) \/ Grant(o) \/ EndPump(o) \/ Resume(o))
       /\ SF_hostVars(Claim(o) \/ ReleaseHandle(o))
       /\ WF_hostVars(up[o] = "dead" /\ Expire(<<o, "own">>))
       /\ WF_hostVars(Expire(<<o, "orphan">>))
  /\ WF_hostVars(\E o \in Owner : PumpTickets(o))
  /\ WF_hostVars(IntervalElapses)

-----------------------------------------------------------------------------
(* Properties *)

\* Type correctness, and a process that asks for nothing is charged for nothing.
HostTypeOK ==
  /\ req \in [Owner -> Request]
  /\ phase \in [Owner -> {"idle", "stamped", "polling", "holding", "releasing"}]
  /\ up \in [Owner -> {"running", "stalled", "dead"}]
  /\ before \subseteq Owner \X Owner
  /\ disk \in [ticket: [Owner -> {"none", "waiting", "granted"}],
               leases: SUBSET LeaseId, late: SUBSET LeaseId,
               grants: [Turnwise -> [Workspace -> Nat]], soon: SUBSET Resource]
  /\ pump \in [by: Owner \cup {NoOwner}, seen: SUBSET Owner,
               grants: [Turnwise -> [Workspace -> Nat]], soon: SUBSET Resource]
  /\ faults \in Nat
  /\ \A o \in Owner : phase[o] = "idle" => disk.ticket[o] = "none" /\ ~Owned(o)

Clash(l, m) ==
  \E r \in Resource :
    /\ r \in req[l[1]].uses \cap req[m[1]].uses
    /\ req[l[1]].exclusive \/ req[m[1]].exclusive

\* Whoever pumps, and however many passes and crashes it takes, the leases on disk
\* never exceed the limits of the machine: canGrant counts what earlier passes of
\* the same pump, other processes and dead ones were given.
WithinHostLimits ==
  /\ \A k \in Turnwise : Cardinality(LeasesOf(k)) <= TurnLimit
  /\ \A r \in Resource, k \in {"resource", "adapter_call"} :
       Cardinality(Users(k, r)) <= ShareLimit
  /\ \A l, m \in LeasesOf("resource") : l # m => ~Clash(l, m)

\* The owner of a granted ticket that is alive finds the lease it was promised:
\* ticket and lease expire, are withdrawn and are reaped together.
GrantBacked ==
  \A o \in Owner : up[o] # "dead" /\ disk.ticket[o] = "granted" => Owned(o)

\* No live process waits for ever for its admission: not behind a busy workspace,
\* not behind a stream of shared requests, not behind the records of dead ones.
NoHostStarvation ==
  \A o \in Owner : ~<>[](phase[o] = "polling" /\ Running(o))

\* What was granted is what the machine has and what its owner got.
AdmissionSound == WithinHostLimits /\ GrantBacked
=============================================================================
