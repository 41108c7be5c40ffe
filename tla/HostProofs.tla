------------------------------ MODULE HostProofs ------------------------------
(***************************************************************************)
(* Theorems about the processes of one machine.                            *)
(*                                                                         *)
(* HostAdmission, for any number of processes, requests, resources and     *)
(* limits, any number of deaths and stalls, and without a bound on the     *)
(* lead of a workspace: the leases on disk never exceed what the machine   *)
(* has, and a granted ticket has its lease.  The limits alone are not      *)
(* inductive: a granted ticket keeps its lease only because ticket and     *)
(* lease are written, withdrawn and reaped together, and a lease without a *)
(* ticket belongs to a holder.                                             *)
(*                                                                         *)
(* Who may go on after processes died or stalled: the probe of a           *)
(* provider's circuit (ProviderCircuit) and the scheduler of a workspace   *)
(* (LoopDaemon), for any number of callers, daemons and faults.            *)
(***************************************************************************)
EXTENDS HostAdmission, LoopDaemon, ProviderCircuit, FiniteSetTheorems, WellFoundedInduction, TLAPS

USE HostAssumption

Phases == {"idle", "stamped", "polling", "holding", "releasing"}
Disk == [ticket: [Owner -> {"none", "waiting", "granted"}],
         leases: SUBSET LeaseId, late: SUBSET LeaseId,
         grants: [Turnwise -> [Workspace -> Nat]], soon: SUBSET Resource]
Pump == [by: Owner \cup {NoOwner}, seen: SUBSET Owner,
         grants: [Turnwise -> [Workspace -> Nat]], soon: SUBSET Resource]

HostTypes ==
  /\ req \in [Owner -> Request]
  /\ phase \in [Owner -> Phases]
  /\ up \in [Owner -> {"running", "stalled", "dead"}]
  /\ before \subseteq Owner \X Owner
  /\ disk \in Disk
  /\ pump \in Pump
  /\ faults \in Nat

\* What the files d say of an owner in phase ph: its ticket is there while it polls, its
\* lease while the ticket is granted or it holds.
Settled(t, owned, ph) ==
  /\ t = "waiting" => ph = "polling" /\ ~owned
  /\ t = "granted" => ph = "polling" /\ owned
  /\ t = "none" => ph = "holding" \/ ~owned

Agreed == \A o \in Owner : Settled(disk.ticket[o], Owned(o), phase[o])

\* Who pumps is waiting for a ticket, or has released its lease.
Pumping == \A o \in Owner : pump.by = o => phase[o] \in {"polling", "releasing"}

HostInv == HostTypes /\ Agreed /\ Pumping /\ WithinHostLimits

-----------------------------------------------------------------------------
(* Leases and limits *)

LEMMA LeasesFinite ==
  ASSUME NEW S \in SUBSET LeaseId
  PROVE  IsFiniteSet(S) /\ Cardinality(S) \in Nat
<1>1. IsFiniteSet({"own", "orphan"})
  <2>1. IsFiniteSet({} \cup {"own"})
    BY FS_EmptySet, FS_AddElement
  <2>2. IsFiniteSet(({} \cup {"own"}) \cup {"orphan"})
    BY <2>1, FS_AddElement
  <2>3. ({} \cup {"own"}) \cup {"orphan"} = {"own", "orphan"}
    OBVIOUS
  <2> QED BY <2>2, <2>3
<1>2. IsFiniteSet(LeaseId)
  BY <1>1, FS_Product DEF LeaseId
<1>3. IsFiniteSet(S)
  BY <1>2, FS_Subset
<1> QED BY <1>3, FS_CardinalityType

LEMMA OneMore ==
  ASSUME NEW S \in SUBSET LeaseId, NEW l \in LeaseId, NEW T, T \subseteq S \cup {l}
  PROVE  Cardinality(T) <= Cardinality(S) + 1
<1>1. IsFiniteSet(S) /\ IsFiniteSet(S \cup {l}) /\ Cardinality(S) \in Nat /\ Cardinality(S \cup {l}) \in Nat
  BY LeasesFinite
<1>2. Cardinality(S \cup {l}) <= Cardinality(S) + 1
  BY <1>1, FS_AddElement
<1>3. Cardinality(T) <= Cardinality(S \cup {l}) /\ Cardinality(T) \in Nat
  BY <1>1, FS_Subset, FS_CardinalityType
<1> QED BY <1>1, <1>2, <1>3

\* Fewer leases are within the limits that more were.
LEMMA FewerLeases ==
  ASSUME HostTypes, WithinHostLimits, HostTypes', req' = req, disk'.leases \subseteq disk.leases
  PROVE  WithinHostLimits'
<1>1. disk.leases \in SUBSET LeaseId /\ disk'.leases \in SUBSET LeaseId
  BY DEF HostTypes, Disk
<1>2. ASSUME NEW S \in SUBSET LeaseId, NEW T, T \subseteq S, NEW n \in Nat, Cardinality(S) <= n
      PROVE  Cardinality(T) <= n
  <2>1. IsFiniteSet(S) /\ Cardinality(S) \in Nat
    BY LeasesFinite
  <2>2. T \in SUBSET S
    BY <1>2
  <2>3. IsFiniteSet(T) /\ Cardinality(T) <= Cardinality(S)
    BY <2>1, <2>2, FS_Subset
  <2>4. Cardinality(T) \in Nat
    BY <2>3, FS_CardinalityType
  <2> QED BY <1>2, <2>1, <2>3, <2>4
<1>3. ASSUME NEW k PROVE LeasesOf(k) \in SUBSET LeaseId /\ LeasesOf(k)' \subseteq LeasesOf(k)
  BY <1>1 DEF LeasesOf
<1>4. \A k \in Turnwise : Cardinality(LeasesOf(k)') <= TurnLimit
  BY <1>2, <1>3 DEF WithinHostLimits
<1>5. ASSUME NEW r \in Resource, NEW k \in {"resource", "adapter_call"}
      PROVE  Cardinality(Users(k, r)') <= ShareLimit
  <2>1. Users(k, r) \in SUBSET LeaseId /\ Users(k, r)' \subseteq Users(k, r)
    BY <1>3 DEF Users
  <2> QED BY <1>2, <2>1 DEF WithinHostLimits
<1>6. \A l, m \in LeasesOf("resource")' : l # m => ~Clash(l, m)'
  BY <1>3 DEF WithinHostLimits, Clash
<1> QED BY <1>4, <1>5, <1>6 DEF WithinHostLimits

\* canGrant leaves room for one more lease.
LEMMA GrantFits ==
  ASSUME HostTypes, WithinHostLimits, HostTypes', req' = req,
         NEW w \in Grantable, NEW l \in LeaseId, l[1] = w, disk'.leases = disk.leases \cup {l}
  PROVE  WithinHostLimits'
<1>1. disk.leases \in SUBSET LeaseId /\ disk'.leases \in SUBSET LeaseId
  BY DEF HostTypes, Disk
<1>2. w \in Owner /\ CanGrant(w) /\ req[w] \in Request /\ req[w].uses \subseteq Resource
  BY DEF Grantable, Queued, HostTypes, Pump, Request
<1>3. ASSUME NEW k
      PROVE  /\ LeasesOf(k) \in SUBSET LeaseId
             /\ LeasesOf(k)' = IF req[w].kind = k THEN LeasesOf(k) \cup {l} ELSE LeasesOf(k)
  BY <1>1 DEF LeasesOf
<1>4. ASSUME NEW k \in Turnwise PROVE Cardinality(LeasesOf(k)') <= TurnLimit
  <2>1. CASE req[w].kind = k
    <3>1. Cardinality(LeasesOf(k)) < TurnLimit
      BY <1>2, <2>1 DEF CanGrant
    <3>2. Cardinality(LeasesOf(k)') <= Cardinality(LeasesOf(k)) + 1
      BY <1>3, <2>1, OneMore
    <3>3. Cardinality(LeasesOf(k)) \in Nat /\ Cardinality(LeasesOf(k)') \in Nat
      BY <1>3, <1>1, LeasesFinite
    <3> QED BY <3>1, <3>2, <3>3
  <2>2. CASE req[w].kind # k
    BY <1>3, <2>2 DEF WithinHostLimits
  <2> QED BY <2>1, <2>2
<1>5. ASSUME NEW r \in Resource, NEW k \in {"resource", "adapter_call"}
      PROVE  Cardinality(Users(k, r)') <= ShareLimit
  <2>1. /\ Users(k, r) \in SUBSET LeaseId
        /\ Users(k, r)' = IF req[w].kind = k /\ r \in req[w].uses THEN Users(k, r) \cup {l} ELSE Users(k, r)
    BY <1>3 DEF Users
  <2>2. CASE req[w].kind = k /\ r \in req[w].uses
    <3>1. Cardinality(Users(k, r)) \in Nat /\ Cardinality(Users(k, r)') \in Nat
      BY <2>1, LeasesFinite
    <3>2. Cardinality(Users(k, r)) < ShareLimit
      <4>1. CASE k = "adapter_call"
        BY <1>2, <2>2, <4>1 DEF CanGrant
      <4>2. CASE k = "resource"
        <5>1. Compatible(w, Users(k, r))
          BY <1>2, <2>2, <4>2 DEF CanGrant
        <5>2. Cardinality({}) = 0
          BY FS_EmptySet
        <5>3. CASE req[w].exclusive
          <6>1. Users(k, r) = {}
            BY <5>1, <5>3 DEF Compatible
          <6> QED BY <5>2, <6>1
        <5>4. CASE ~req[w].exclusive
          BY <5>1, <5>4 DEF Compatible
        <5> QED BY <5>3, <5>4
      <4> QED BY <4>1, <4>2
    <3>3. Cardinality(Users(k, r)') <= Cardinality(Users(k, r)) + 1
      BY <2>1, <2>2, OneMore
    <3> QED BY <3>1, <3>2, <3>3
  <2>3. CASE ~(req[w].kind = k /\ r \in req[w].uses)
    BY <2>1, <2>3 DEF WithinHostLimits
  <2> QED BY <2>2, <2>3
<1>6. ASSUME NEW m1 \in LeasesOf("resource")', NEW m2 \in LeasesOf("resource")', m1 # m2
      PROVE  ~Clash(m1, m2)'
  <2>1. CASE m1 \in LeasesOf("resource") /\ m2 \in LeasesOf("resource")
    BY <1>6, <2>1 DEF WithinHostLimits, Clash
  <2>2. ASSUME NEW m \in LeasesOf("resource"), req[w].kind = "resource"
        PROVE  ~Clash(l, m)' /\ ~Clash(m, l)'
    <3>1. \A r \in req[w].uses : Compatible(w, Users("resource", r))
      BY <1>2, <2>2 DEF CanGrant
    <3>2. ASSUME NEW r \in Resource, r \in req[w].uses, r \in req[m[1]].uses
          PROVE  ~req[w].exclusive /\ ~req[m[1]].exclusive
      <4>1. m \in Users("resource", r)
        BY <3>2 DEF Users
      <4> QED BY <3>1, <3>2, <4>1 DEF Compatible
    <3> QED BY <3>2 DEF Clash
  <2>3. /\ m1 \in LeasesOf("resource") \/ (m1 = l /\ req[w].kind = "resource")
        /\ m2 \in LeasesOf("resource") \/ (m2 = l /\ req[w].kind = "resource")
    <3>1. LeasesOf("resource")' = IF req[w].kind = "resource" THEN LeasesOf("resource") \cup {l}
                                                              ELSE LeasesOf("resource")
      BY <1>3
    <3>2. m1 \in LeasesOf("resource")' /\ m2 \in LeasesOf("resource")'
      OBVIOUS
    <3>3. CASE req[w].kind = "resource"
      BY <3>1, <3>2, <3>3
    <3>4. CASE req[w].kind # "resource"
      <4>1. LeasesOf("resource")' = LeasesOf("resource")
        BY <3>1, <3>4
      <4> QED BY <3>2, <4>1
    <3> QED BY <3>3, <3>4
  <2>4. CASE m1 = l /\ m2 \in LeasesOf("resource") /\ req[w].kind = "resource"
    BY <2>2, <2>4 DEF Clash
  <2>5. CASE m2 = l /\ m1 \in LeasesOf("resource") /\ req[w].kind = "resource"
    BY <2>2, <2>5 DEF Clash
  <2> QED BY <1>6, <2>1, <2>3, <2>4, <2>5
<1> QED BY <1>4, <1>5, <1>6 DEF WithinHostLimits

-----------------------------------------------------------------------------
(* One pump, one owner's step *)

LEMMA LeastCount ==
  ASSUME NEW S \in SUBSET Nat, S # {}
  PROVE  LET least == CHOOSE n \in S : \A m \in S : n <= m
         IN least \in S /\ \A m \in S : least <= m
<1>1. PICK n \in S : \A m \in S : ~(<<m, n>> \in OpToRel(<, Nat))
  BY NatLessThanWellFounded, WFMin
<1>2. \A m \in S : n \in Nat /\ m \in Nat /\ ~(m < n)
  BY <1>1 DEF OpToRel
<1>3. \E x \in S : \A m \in S : x <= m
  <2>1. \A m \in S : n <= m
    BY <1>2
  <2> QED BY <2>1
<1> QED BY <1>3

\* A step that writes the files d and moves the owners to ph keeps the invariant if the
\* two agree and d has no lease that disk has not.
LEMMA WriteKeeps ==
  ASSUME HostInv, NEW d \in Disk, NEW ph \in [Owner -> Phases], Write(d, ph),
         req' = req, up' \in [Owner -> {"running", "stalled", "dead"}], faults' \in Nat, pump' \in Pump,
         d.leases \subseteq disk.leases,
         \A o \in Owner : Settled(d.ticket[o], <<o, "own">> \in d.leases, ph[o]),
         \A o \in Owner : pump'.by = o => ph[o] \in {"polling", "releasing"}
  PROVE  HostInv'
<1>1. HostTypes'
  BY DEF HostInv, HostTypes, Write
<1>2. disk' = d /\ phase' = ph
  BY DEF Write
<1>3. WithinHostLimits'
  BY <1>1, <1>2, FewerLeases DEF HostInv
<1> QED BY <1>1, <1>2, <1>3 DEF HostInv, Agreed, Pumping, Owned

\* The files after a reap agree with the owners if those before did.
LEMMA ReapAgrees ==
  ASSUME NEW d \in Disk, NEW ph \in [Owner -> Phases],
         \A o \in Owner : Settled(d.ticket[o], <<o, "own">> \in d.leases, ph[o])
  PROVE  /\ Reap(d) \in Disk /\ Reap(d).leases \subseteq d.leases
         /\ \A o \in Owner : Settled(Reap(d).ticket[o], <<o, "own">> \in Reap(d).leases, ph[o])
<1> DEFINE e == Reap(d)
<1>1. /\ e \in Disk /\ e.leases = d.leases \ d.late
      /\ \A o \in Owner : e.ticket[o] = IF <<o, "own">> \in d.late THEN "none" ELSE d.ticket[o]
  BY DEF Reap, Disk
<1> HIDE DEF e
<1>2. ASSUME NEW o \in Owner PROVE Settled(e.ticket[o], <<o, "own">> \in e.leases, ph[o])
  <2>1. CASE <<o, "own">> \in d.late
    BY <1>1, <2>1 DEF Settled
  <2>2. CASE <<o, "own">> \notin d.late
    BY <1>1, <2>2 DEF Settled
  <2> QED BY <2>1, <2>2
<1> QED BY <1>1, <1>2 DEF e

LEMMA BeginKeeps ==
  ASSUME HostInv, NEW o \in Owner, NEW d \in Disk, NEW ph \in [Owner -> Phases], Begin(o, d, ph),
         d.leases \subseteq disk.leases, ph[o] \in {"polling", "releasing"},
         \A p \in Owner : Settled(d.ticket[p], <<p, "own">> \in d.leases, ph[p])
  PROVE  HostInv'
<1>1. /\ Reap(d) \in Disk /\ Reap(d).leases \subseteq d.leases
      /\ \A p \in Owner : Settled(Reap(d).ticket[p], <<p, "own">> \in Reap(d).leases, ph[p])
  BY ReapAgrees
<1>2. pump' \in Pump /\ pump'.by = o
  BY DEF Begin, Pump, Disk
<1>3. /\ Write(Reap(d), ph) /\ req' = req
      /\ up' \in [Owner -> {"running", "stalled", "dead"}] /\ faults' \in Nat
  BY DEF Begin, fixed, HostInv, HostTypes
<1>4. Reap(d).leases \subseteq disk.leases
  BY <1>1
<1>5. \A p \in Owner : pump'.by = p => ph[p] \in {"polling", "releasing"}
  BY <1>2
<1> DEFINE e == Reap(d)
<1> HIDE DEF e
<1>6. HostInv'
  BY <1>1, <1>2, <1>3, <1>4, <1>5, WriteKeeps DEF e
<1> QED BY <1>6

\* What holds of the files at every step.
LEMMA HostFacts ==
  ASSUME HostInv
  PROVE  /\ HostTypes /\ disk \in Disk /\ pump \in Pump /\ phase \in [Owner -> Phases]
         /\ \A o \in Owner : Settled(disk.ticket[o], <<o, "own">> \in disk.leases, phase[o])
         /\ \A o \in Owner : pump.by = o => phase[o] \in {"polling", "releasing"}
BY DEF HostInv, HostTypes, Agreed, Pumping, Owned

\* A step that leaves the files and the owners' phases alone.
LEMMA Untouched ==
  ASSUME HostInv, UNCHANGED <<req, phase, disk>>, HostTypes',
         pump'.by = pump.by \/ pump'.by = NoOwner
  PROVE  HostInv'
<1>1. WithinHostLimits'
  BY FewerLeases DEF HostInv
<1> QED BY <1>1 DEF HostInv, Agreed, Pumping, Owned

-----------------------------------------------------------------------------
(* The steps *)

LEMMA GrantStep ==
  ASSUME HostInv, NEW o \in Owner, Grant(o)
  PROVE  HostInv'
<1>1. PICK w \in Grantable :
        /\ Write([disk EXCEPT !.leases = @ \cup {<<w, "own">>}, !.ticket[w] = "granted"], phase)
        /\ pump' = Counted(w)
  BY DEF Grant
<1> DEFINE d == [disk EXCEPT !.leases = @ \cup {<<w, "own">>}, !.ticket[w] = "granted"]
<1>2. w \in Owner /\ disk.ticket[w] = "waiting"
  BY HostFacts DEF Grantable, Queued, Pump
<1>3. /\ d \in Disk /\ d.leases = disk.leases \cup {<<w, "own">>} /\ d.ticket[w] = "granted"
      /\ \A p \in Owner \ {w} : d.ticket[p] = disk.ticket[p]
  <2>1. disk \in Disk /\ disk.leases \in SUBSET LeaseId
        /\ disk.ticket \in [Owner -> {"none", "waiting", "granted"}]
    BY HostFacts DEF Disk
  <2>2. d.leases = disk.leases \cup {<<w, "own">>}
    BY <2>1 DEF Disk
  <2>3. d.ticket = [disk.ticket EXCEPT ![w] = "granted"]
    BY <2>1 DEF Disk
  <2>4. d.late = disk.late /\ d.grants = disk.grants /\ d.soon = disk.soon
    BY <2>1 DEF Disk
  <2>5. <<w, "own">> \in LeaseId
    BY <1>2 DEF LeaseId
  <2>6. d = [disk EXCEPT !.leases = d.leases, !.ticket = d.ticket]
    BY <2>1, <2>2, <2>3 DEF Disk
  <2> HIDE DEF d
  <2>7. d.ticket \in [Owner -> {"none", "waiting", "granted"}] /\ d.leases \in SUBSET LeaseId
    BY <2>1, <2>2, <2>3, <2>5
  <2> DEFINE x == d.ticket
             y == d.leases
  <2>8. d = [disk EXCEPT !.leases = y, !.ticket = x] /\ y \in SUBSET LeaseId
        /\ x \in [Owner -> {"none", "waiting", "granted"}]
    BY <2>6, <2>7
  <2> HIDE DEF x, y
  <2>9. d \in Disk
    BY <2>1, <2>8 DEF Disk
  <2> QED BY <1>2, <2>1, <2>2, <2>3, <2>9
<1> HIDE DEF d
<1>4. disk' = d /\ phase' = phase /\ before' \subseteq before
  BY <1>1 DEF Write, d
<1>5. Counted(w) \in Pump /\ Counted(w).by = pump.by
  <2>1. req[w] \in Request
    BY <1>2, HostFacts DEF HostTypes
  <2>2. CASE req[w].kind \in Turnwise
    <3> DEFINE k == req[w].kind
               g == [pump.grants[k] EXCEPT ![req[w].ws] = @ + 1]
    <3>1. pump.grants[k] \in [Workspace -> Nat] /\ req[w].ws \in Workspace
      BY <2>1, <2>2, HostFacts DEF Pump, Request
    <3>2. g \in [Workspace -> Nat]
      BY <3>1
    <3> HIDE DEF g
    <3>3. Rebased(g) \in [Workspace -> Nat]
      <4> DEFINE used == {g[v] : v \in {v \in Workspace : g[v] > 0}}
                 least == CHOOSE n \in used : \A m \in used : n <= m
      <4>1. CASE used = {} \/ least < NormalizeAt
        BY <3>2, <4>1 DEF Rebased
      <4>2. CASE used # {} /\ ~(least < NormalizeAt)
        <5>1. Rebased(g) = [v \in Workspace |-> IF g[v] > 0 THEN g[v] - least ELSE 0]
          BY <4>2 DEF Rebased
        <5>2. used \subseteq Nat /\ used # {}
          BY <3>2, <4>2
        <5>3. least \in used /\ \A m \in used : least <= m
          BY <5>2, LeastCount
        <5>4. ASSUME NEW v \in Workspace PROVE (IF g[v] > 0 THEN g[v] - least ELSE 0) \in Nat
          <6>1. g[v] \in Nat
            BY <3>2
          <6>2. CASE g[v] > 0
            <7>1. g[v] \in used
              BY <6>2
            <7>2. least <= g[v] /\ least \in Nat
              BY <5>2, <5>3, <7>1
            <7> HIDE DEF least
            <7> QED BY <6>1, <6>2, <7>2
          <6> QED BY <6>1, <6>2
        <5> HIDE DEF least
        <5> QED BY <5>1, <5>4
      <4> QED BY <4>1, <4>2
    <3>4. Counted(w) = [pump EXCEPT !.grants = [pump.grants EXCEPT ![k] = Rebased(g)]]
      <4>1. pump \in Pump /\ pump.grants \in [Turnwise -> [Workspace -> Nat]]
        BY HostFacts DEF Pump
      <4> DEFINE y == Rebased(g)
      <4>2. Counted(w) = [pump EXCEPT !.grants[k] = y]
        BY <2>2 DEF Counted, g, y
      <4> HIDE DEF y, k
      <4>3. [pump EXCEPT !.grants[k] = y] = [pump EXCEPT !.grants = [pump.grants EXCEPT ![k] = y]]
        BY <4>1 DEF Pump
      <4> QED BY <4>2, <4>3 DEF y
    <3> DEFINE h == [pump.grants EXCEPT ![k] = Rebased(g)]
    <3>5. h \in [Turnwise -> [Workspace -> Nat]]
      BY <2>2, <3>3, HostFacts DEF Pump
    <3> HIDE DEF h
    <3>6. [pump EXCEPT !.grants = h] \in Pump /\ [pump EXCEPT !.grants = h].by = pump.by
      BY <3>5, HostFacts DEF Pump
    <3> QED BY <3>4, <3>6 DEF h
  <2>3. CASE req[w].kind \notin Turnwise
    BY <2>1, <2>3, HostFacts DEF Counted, Pump, Request
  <2> QED BY <2>2, <2>3
<1>6. HostTypes' /\ req' = req
  BY <1>1, <1>3, <1>4, <1>5, HostFacts DEF Grant, HostTypes, fixed
<1>7. WithinHostLimits'
  <2> DEFINE l == <<w, "own">>
  <2>1. l \in LeaseId /\ l[1] = w
    BY <1>2 DEF LeaseId
  <2>2. disk'.leases = disk.leases \cup {l}
    BY <1>3, <1>4
  <2> HIDE DEF l
  <2> QED BY <1>6, <2>1, <2>2, GrantFits DEF HostInv
<1>8. ASSUME NEW p \in Owner PROVE Settled(disk'.ticket[p], Owned(p)', phase'[p])
  <2>1. CASE p = w
    BY <1>2, <1>3, <1>4, <2>1, HostFacts DEF Settled, Owned
  <2>2. CASE p # w
    BY <1>3, <1>4, <2>2, HostFacts DEF Settled, Owned
  <2> QED BY <2>1, <2>2
<1> QED BY <1>1, <1>4, <1>5, <1>6, <1>7, <1>8, HostFacts DEF HostInv, Agreed, Pumping

\* One owner writes its own files and phase.
LEMMA OwnerWrites ==
  ASSUME HostInv, NEW o \in Owner, NEW d \in Disk, NEW st \in Phases,
         Write(d, [phase EXCEPT ![o] = st]), UNCHANGED <<up, pump, fixed>>,
         d.leases \subseteq disk.leases,
         \A p \in Owner \ {o} : /\ d.ticket[p] = disk.ticket[p]
                                /\ <<p, "own">> \in d.leases <=> <<p, "own">> \in disk.leases,
         Settled(d.ticket[o], <<o, "own">> \in d.leases, st),
         pump.by = o => st \in {"polling", "releasing"}
  PROVE  HostInv'
<1> DEFINE ph == [phase EXCEPT ![o] = st]
<1>1. ph \in [Owner -> Phases] /\ ph[o] = st /\ \A p \in Owner \ {o} : ph[p] = phase[p]
  BY HostFacts
<1>2. Write(d, ph)
  OBVIOUS
<1> HIDE DEF ph
<1>3. /\ req' = req /\ up' \in [Owner -> {"running", "stalled", "dead"}] /\ faults' \in Nat
      /\ pump' \in Pump /\ pump' = pump
  BY HostFacts DEF HostTypes, fixed
<1>4. ASSUME NEW p \in Owner PROVE Settled(d.ticket[p], <<p, "own">> \in d.leases, ph[p])
  <2>1. CASE p = o
    BY <1>1, <2>1
  <2>2. CASE p # o
    BY <1>1, <2>2, HostFacts DEF Settled
  <2> QED BY <2>1, <2>2
<1>5. ASSUME NEW p \in Owner, pump'.by = p PROVE ph[p] \in {"polling", "releasing"}
  BY <1>1, <1>3, <1>5, HostFacts
<1> QED BY <1>1, <1>2, <1>3, <1>4, <1>5, WriteKeeps

\* Files that differ in the ticket and the lease of one owner.
Files(o, t, L, late) == [disk EXCEPT !.ticket[o] = t, !.leases = L, !.late = late]

LEMMA OwnFiles ==
  ASSUME HostInv, NEW o \in Owner, NEW t \in {"none", "waiting", "granted"},
         NEW L, L \subseteq disk.leases, NEW late, late \subseteq LeaseId
  PROVE  LET d == Files(o, t, L, late) IN
         /\ d \in Disk /\ d.leases = L /\ d.ticket[o] = t
         /\ \A p \in Owner \ {o} : d.ticket[p] = disk.ticket[p]
<1> DEFINE d == Files(o, t, L, late)
<1> DEFINE x == [disk.ticket EXCEPT ![o] = t]
<1>1. disk \in Disk /\ L \in SUBSET LeaseId
  BY HostFacts DEF Disk
<1>2. /\ x \in [Owner -> {"none", "waiting", "granted"}] /\ x[o] = t
      /\ \A p \in Owner \ {o} : x[p] = disk.ticket[p]
  BY <1>1 DEF Disk
<1>3. d = [disk EXCEPT !.ticket = x, !.leases = L, !.late = late]
  BY <1>1 DEF Disk, Files
<1> HIDE DEF x, d
<1>4. d \in Disk
  BY <1>1, <1>2, <1>3 DEF Disk
<1>5. d.leases = L /\ d.ticket = x
  BY <1>1, <1>3 DEF Disk
<1> QED BY <1>2, <1>4, <1>5 DEF d

LEMMA StampStep ==
  ASSUME HostInv, NEW o \in Owner, Stamp(o)
  PROVE  HostInv'
<1>1. phase[o] = "idle" /\ disk' = disk /\ pump' = pump
  BY DEF Stamp
<1>2. phase' = [phase EXCEPT ![o] = "stamped"] /\ before' \subseteq Owner \X Owner
  BY HostFacts DEF Stamp, Ticketed, HostTypes
<1>3. phase' \in [Owner -> Phases] /\ \A p \in Owner : phase'[p] = IF p = o THEN "stamped" ELSE phase[p]
  BY <1>2, HostFacts DEF Phases
<1>4. HostTypes' /\ req' = req
  BY <1>1, <1>2, <1>3, HostFacts DEF Stamp, HostTypes, fixed
<1>5. WithinHostLimits'
  BY <1>1, <1>4, FewerLeases DEF HostInv
<1>6. \A p \in Owner : Settled(disk'.ticket[p], Owned(p)', phase'[p])
  BY <1>1, <1>3, HostFacts DEF Settled, Owned
<1>7. Pumping'
  BY <1>1, <1>3, HostFacts DEF Pumping
<1> QED BY <1>4, <1>5, <1>6, <1>7 DEF HostInv, Agreed

LEMMA SubmitStep ==
  ASSUME HostInv, NEW o \in Owner, Submit(o)
  PROVE  HostInv'
<1> DEFINE d == [disk EXCEPT !.ticket[o] = "waiting"]
<1>1. phase[o] = "stamped" /\ Write(d, [phase EXCEPT ![o] = "polling"]) /\ UNCHANGED <<up, pump, fixed>>
  BY DEF Submit
<1> DEFINE t == "waiting"
           L == disk.leases
           late == disk.late
<1>2. d = Files(o, t, L, late)
  BY HostFacts DEF Disk, Files
<1>3. L \subseteq disk.leases /\ late \subseteq LeaseId /\ t \in {"none", "waiting", "granted"}
  BY HostFacts DEF Disk
<1> HIDE DEF d, L, late, t
<1>4. /\ d \in Disk /\ d.leases = L /\ d.ticket[o] = t
      /\ \A p \in Owner \ {o} : d.ticket[p] = disk.ticket[p]
  <2>1. LET e == Files(o, t, L, late) IN
        /\ e \in Disk /\ e.leases = L /\ e.ticket[o] = t
        /\ \A p \in Owner \ {o} : e.ticket[p] = disk.ticket[p]
    BY <1>3, OwnFiles
  <2> QED BY <1>2, <2>1
<1>5. d.leases = disk.leases /\ d.ticket[o] = "waiting"
  BY <1>4 DEF L, t
<1>6. Settled(d.ticket[o], <<o, "own">> \in d.leases, "polling")
  BY <1>1, <1>5, HostFacts DEF Settled, Disk
<1> QED BY <1>1, <1>4, <1>5, <1>6, OwnerWrites DEF Phases

LEMMA ClaimStep ==
  ASSUME HostInv, NEW o \in Owner, Claim(o)
  PROVE  HostInv'
<1> DEFINE d == [disk EXCEPT !.ticket[o] = "none"]
<1>1. /\ phase[o] = "polling" /\ disk.ticket[o] = "granted" /\ Unlocked
      /\ Write(d, [phase EXCEPT ![o] = "holding"]) /\ UNCHANGED <<up, pump, fixed>>
  BY DEF Claim
<1> DEFINE t == "none"
           L == disk.leases
           late == disk.late
<1>2. d = Files(o, t, L, late)
  BY HostFacts DEF Disk, Files
<1>3. L \subseteq disk.leases /\ late \subseteq LeaseId /\ t \in {"none", "waiting", "granted"}
  BY HostFacts DEF Disk
<1> HIDE DEF d, L, late, t
<1>4. /\ d \in Disk /\ d.leases = L /\ d.ticket[o] = t
      /\ \A p \in Owner \ {o} : d.ticket[p] = disk.ticket[p]
  <2>1. LET e == Files(o, t, L, late) IN
        /\ e \in Disk /\ e.leases = L /\ e.ticket[o] = t
        /\ \A p \in Owner \ {o} : e.ticket[p] = disk.ticket[p]
    BY <1>3, OwnFiles
  <2> QED BY <1>2, <2>1
<1>5. d.leases = disk.leases /\ d.ticket[o] = "none"
  BY <1>4 DEF L, t
<1>6. Settled(d.ticket[o], <<o, "own">> \in d.leases, "holding") /\ pump.by # o
  BY <1>1, <1>5 DEF Settled, Unlocked
<1> QED BY <1>1, <1>4, <1>5, <1>6, OwnerWrites DEF Phases

LEMMA TicketVanishedStep ==
  ASSUME HostInv, NEW o \in Owner, TicketVanished(o)
  PROVE  HostInv'
<1>1. /\ phase[o] = "polling" /\ disk.ticket[o] = "none" /\ pump.by # o
      /\ Write(disk, [phase EXCEPT ![o] = "idle"]) /\ UNCHANGED <<up, pump, fixed>>
  BY DEF TicketVanished
<1>2. Settled(disk.ticket[o], <<o, "own">> \in disk.leases, "idle") /\ disk \in Disk
  BY <1>1, HostFacts DEF Settled
<1> QED BY <1>1, <1>2, OwnerWrites DEF Phases

LEMMA AbortStep ==
  ASSUME HostInv, NEW o \in Owner, Abort(o)
  PROVE  HostInv'
<1> DEFINE d == Withdrawn(o)
           L == IF disk.ticket[o] = "granted" THEN disk.leases \ {<<o, "own">>} ELSE disk.leases
           late == disk.late \ {<<o, "own">>}
           t == "none"
<1>1. /\ phase[o] = "polling" /\ Unlocked
      /\ Write(d, [phase EXCEPT ![o] = "idle"]) /\ UNCHANGED <<up, pump, fixed>>
  BY DEF Abort
<1>2. d = Files(o, t, L, late)
  BY HostFacts DEF Disk, Withdrawn, Files
<1>3. /\ L \subseteq disk.leases /\ late \subseteq LeaseId
      /\ \A p \in Owner \ {o} : <<p, "own">> \in L <=> <<p, "own">> \in disk.leases
      /\ <<o, "own">> \notin L /\ t \in {"none", "waiting", "granted"}
  BY <1>1, HostFacts DEF Disk, Settled
<1> HIDE DEF d, L, late, t
<1>4. /\ d \in Disk /\ d.leases = L /\ d.ticket[o] = t
      /\ \A p \in Owner \ {o} : d.ticket[p] = disk.ticket[p]
  <2>1. LET e == Files(o, t, L, late) IN
        /\ e \in Disk /\ e.leases = L /\ e.ticket[o] = t
        /\ \A p \in Owner \ {o} : e.ticket[p] = disk.ticket[p]
    <3>1. L \subseteq disk.leases /\ late \subseteq LeaseId /\ t \in {"none", "waiting", "granted"}
      BY <1>3
    <3> QED BY <3>1, OwnFiles
  <2> QED BY <1>2, <2>1
<1>5. Settled(d.ticket[o], <<o, "own">> \in d.leases, "idle") /\ pump.by # o
  BY <1>1, <1>3, <1>4 DEF Settled, Unlocked, t
<1> QED BY <1>1, <1>3, <1>4, <1>5, OwnerWrites DEF Phases

\* A renewal takes the record off those past their time.
LEMMA RenewSteps ==
  ASSUME HostInv, NEW o \in Owner, RenewTicket(o) \/ Renew(o)
  PROVE  HostInv'
<1> DEFINE d == [disk EXCEPT !.late = @ \ {<<o, "own">>}]
<1>1. Write(d, phase) /\ UNCHANGED <<up, pump, fixed>>
  BY DEF RenewTicket, Renew
<1>2. d \in Disk /\ d.leases = disk.leases /\ d.ticket = disk.ticket
  BY HostFacts DEF Disk
<1> HIDE DEF d
<1>3. phase = [phase EXCEPT ![o] = phase[o]] /\ phase[o] \in Phases
  BY HostFacts
<1>4. Write(d, [phase EXCEPT ![o] = phase[o]])
  BY <1>1, <1>3
<1> QED BY <1>1, <1>2, <1>3, <1>4, OwnerWrites, HostFacts

LEMMA PumpStep ==
  ASSUME HostInv, NEW o \in Owner, PumpTickets(o)
  PROVE  HostInv'
BY BeginKeeps, HostFacts DEF PumpTickets

LEMMA ReleaseStep ==
  ASSUME HostInv, NEW o \in Owner, ReleaseHandle(o)
  PROVE  HostInv'
<1>1. CASE Owned(o) /\ phase[o] = "holding" /\ Begin(o, Released(o), [phase EXCEPT ![o] = "releasing"])
  <2> DEFINE d == Released(o)
             ph == [phase EXCEPT ![o] = "releasing"]
  <2>1. d \in Disk /\ d.leases = disk.leases \ {<<o, "own">>} /\ d.ticket = disk.ticket
    BY HostFacts DEF Released, Disk
  <2>2. ph \in [Owner -> Phases] /\ ph[o] = "releasing" /\ \A p \in Owner \ {o} : ph[p] = phase[p]
    BY HostFacts DEF Phases
  <2>3. Begin(o, d, ph)
    BY <1>1
  <2> HIDE DEF d, ph
  <2>4. disk.ticket[o] = "none"
    BY <1>1, HostFacts DEF Settled, Disk
  <2>5. ASSUME NEW p \in Owner PROVE Settled(d.ticket[p], <<p, "own">> \in d.leases, ph[p])
    BY <2>1, <2>2, <2>4, HostFacts DEF Settled
  <2>6. ph[o] \in {"polling", "releasing"} /\ d.leases \subseteq disk.leases
    BY <2>1, <2>2
  <2> QED BY <2>1, <2>2, <2>3, <2>5, <2>6, BeginKeeps
<1>2. CASE /\ ~Owned(o) /\ Unlocked /\ phase[o] = "holding"
           /\ Write(disk, [phase EXCEPT ![o] = "idle"]) /\ UNCHANGED <<up, pump, fixed>>
  <2>1. Settled(disk.ticket[o], <<o, "own">> \in disk.leases, "idle") /\ disk \in Disk /\ pump.by # o
    BY <1>2, HostFacts DEF Settled, Owned, Unlocked, Disk
  <2> QED BY <1>2, <2>1, OwnerWrites DEF Phases
<1> QED BY <1>1, <1>2 DEF ReleaseHandle

LEMMA EndPumpStep ==
  ASSUME HostInv, NEW o \in Owner, EndPump(o)
  PROVE  HostInv'
<1> DEFINE d == [disk EXCEPT !.grants = pump.grants, !.soon = @ \cup pump.soon]
           ph == [phase EXCEPT ![o] = IF @ = "releasing" THEN "idle" ELSE "polling"]
<1>1. Write(d, ph) /\ pump.by = o /\ pump' = Idle /\ UNCHANGED <<up, fixed>>
  BY DEF EndPump
<1>2. pump.grants \in [Turnwise -> [Workspace -> Nat]] /\ pump.soon \in SUBSET Resource
  BY HostFacts DEF Pump
<1>3. d \in Disk /\ d.leases = disk.leases /\ d.ticket = disk.ticket
  BY <1>2, HostFacts DEF Disk
<1>4. /\ ph \in [Owner -> Phases]
      /\ ph[o] = IF phase[o] = "releasing" THEN "idle" ELSE "polling"
      /\ \A p \in Owner \ {o} : ph[p] = phase[p]
  BY HostFacts DEF Phases
<1> HIDE DEF d, ph
<1>5. phase[o] \in {"polling", "releasing"}
  BY <1>1, HostFacts
<1>6. ASSUME NEW p \in Owner PROVE Settled(d.ticket[p], <<p, "own">> \in d.leases, ph[p])
  <2>1. CASE p = o
    BY <1>3, <1>4, <1>5, <2>1, HostFacts DEF Settled
  <2>2. CASE p # o
    BY <1>3, <1>4, <2>2, HostFacts DEF Settled
  <2> QED BY <2>1, <2>2
<1>7. pump' \in Pump /\ pump'.by = NoOwner
  BY <1>1 DEF Idle, Pump, NoCounts
<1>8. req' = req /\ up' \in [Owner -> {"running", "stalled", "dead"}] /\ faults' \in Nat
  BY <1>1, HostFacts DEF HostTypes, fixed
<1>9. d.leases \subseteq disk.leases /\ \A p \in Owner : pump'.by = p => ph[p] \in {"polling", "releasing"}
  BY <1>3, <1>7
<1> QED BY <1>1, <1>3, <1>4, <1>6, <1>7, <1>8, <1>9, WriteKeeps

\* A death between the two writes of a grant leaves a lease that nobody owns.
LEMMA DieGrantingStep ==
  ASSUME HostInv, NEW o \in Owner, DieGranting(o)
  PROVE  HostInv'
<1>1. PICK w \in Grantable : disk' = [disk EXCEPT !.leases = @ \cup {<<w, "orphan">>}]
  BY DEF DieGranting
<1> DEFINE l == <<w, "orphan">>
<1>2. w \in Owner /\ l \in LeaseId /\ l[1] = w
  BY HostFacts DEF Grantable, Queued, Pump, LeaseId
<1>3. /\ disk' \in Disk /\ disk'.leases = disk.leases \cup {l} /\ disk'.ticket = disk.ticket
      /\ \A p \in Owner : <<p, "own">> \in disk'.leases <=> <<p, "own">> \in disk.leases
  BY <1>1, <1>2, HostFacts DEF Disk
<1> HIDE DEF l
<1>4. pump' = Idle /\ req' = req /\ phase' = phase
  BY DEF DieGranting, Fault
<1>5. pump' \in Pump /\ pump'.by = NoOwner
  BY <1>4 DEF Idle, Pump, NoCounts
<1>6. HostTypes'
  BY <1>3, <1>4, <1>5, HostFacts DEF DieGranting, Fault, HostTypes
<1>7. WithinHostLimits'
  BY <1>2, <1>3, <1>4, <1>6, GrantFits DEF HostInv
<1> QED BY <1>3, <1>4, <1>5, <1>6, <1>7, HostFacts DEF HostInv, Agreed, Pumping, Owned

LEMMA FaultSteps ==
  ASSUME HostInv, NEW o \in Owner, Die(o) \/ Stall(o) \/ Resume(o)
  PROVE  HostInv'
<1>1. UNCHANGED <<req, phase, disk, before>> /\ pump' \in {pump, Idle}
  BY DEF Die, Stall, Resume, Fault, fixed
<1>2. Idle \in Pump /\ Idle.by = NoOwner
  BY DEF Idle, Pump, NoCounts
<1>3. up' \in [Owner -> {"running", "stalled", "dead"}] /\ faults' \in Nat
  BY HostFacts DEF Die, Stall, Resume, Fault, fixed, HostTypes
<1>4. HostTypes'
  BY <1>1, <1>2, <1>3, HostFacts DEF HostTypes
<1> QED BY <1>1, <1>2, <1>4, Untouched

LEMMA TimeSteps ==
  ASSUME HostInv, IntervalElapses \/ \E l \in LeaseId : Expire(l)
  PROVE  HostInv'
<1>1. /\ disk' \in Disk /\ disk'.leases = disk.leases /\ disk'.ticket = disk.ticket
  BY HostFacts DEF IntervalElapses, Expire, Disk
<1>2. UNCHANGED <<req, phase, up, before, pump, faults>>
  BY DEF IntervalElapses, Expire, fixed
<1>3. HostTypes'
  BY <1>1, <1>2, HostFacts DEF HostTypes
<1>4. WithinHostLimits'
  BY <1>1, <1>2, <1>3, FewerLeases DEF HostInv
<1> QED BY <1>1, <1>2, <1>3, <1>4, HostFacts DEF HostInv, Agreed, Pumping, Owned

-----------------------------------------------------------------------------
LEMMA HostStart == HostInit => HostInv
<1> SUFFICES ASSUME HostInit PROVE HostInv
  OBVIOUS
<1>1. disk \in Disk /\ disk.leases = {} /\ \A o \in Owner : disk.ticket[o] = "none"
  BY DEF HostInit, Disk, NoCounts
<1>2. pump \in Pump /\ pump.by = NoOwner
  BY DEF HostInit, Idle, Pump, NoCounts
<1>3. HostTypes
  BY <1>1, <1>2 DEF HostInit, HostTypes, Phases
<1>4. WithinHostLimits
  <2>1. Cardinality({}) = 0
    BY FS_EmptySet
  <2>2. \A k : LeasesOf(k) = {}
    BY <1>1 DEF LeasesOf
  <2>3. \A k, r : Users(k, r) = {}
    BY <2>2 DEF Users
  <2>4. \A k \in Turnwise : Cardinality(LeasesOf(k)) <= TurnLimit
    BY <2>1, <2>2
  <2>5. \A r \in Resource, k \in {"resource", "adapter_call"} : Cardinality(Users(k, r)) <= ShareLimit
    BY <2>1, <2>3
  <2>6. LeasesOf("resource") = {}
    BY <2>2
  <2> QED BY <2>4, <2>5, <2>6 DEF WithinHostLimits
<1> QED BY <1>1, <1>2, <1>3, <1>4 DEF HostInv, Agreed, Pumping, Settled, Owned

LEMMA HostStep == HostInv /\ [HostNext]_hostVars => HostInv'
<1> SUFFICES ASSUME HostInv, [HostNext]_hostVars PROVE HostInv'
  OBVIOUS
<1>1. CASE UNCHANGED hostVars
  <2>1. HostTypes' /\ UNCHANGED <<req, phase, disk, pump>>
    BY <1>1 DEF hostVars, HostInv, HostTypes
  <2> QED BY <2>1, Untouched
<1>2. CASE HostNext
  BY <1>2, StampStep, SubmitStep, PumpStep, GrantStep, EndPumpStep, ClaimStep, TicketVanishedStep, AbortStep,
     RenewSteps, ReleaseStep, FaultSteps, DieGrantingStep, TimeSteps DEF HostNext
<1> QED BY <1>1, <1>2

\* Whoever pumps, and wherever processes die or stall, the graph ticks, model calls,
\* resources and adapters that are leased never exceed the limits of the machine, no
\* exclusive lease has company, and a granted ticket has its lease (canGrant,
\* reapExpiredUnlocked, grantAvailableUnlocked, acquireTicket, releaseOwner).
THEOREM MachineIsNotOvercommitted == HostSpec => []AdmissionSound
<1>1. HostInv => AdmissionSound
  BY HostFacts DEF HostInv, AdmissionSound, GrantBacked, Settled, Owned
<1> QED BY <1>1, HostStart, HostStep, PTL DEF HostSpec

\* The files name processes, limits and resources that exist, and a process that asks
\* for nothing is charged for nothing.
THEOREM HostTyped == HostSpec => []HostTypeOK
<1>1. HostInv => HostTypeOK
  <2> SUFFICES ASSUME HostInv PROVE HostTypeOK
    OBVIOUS
  <2>1. \A o \in Owner : phase[o] = "idle" => disk.ticket[o] = "none" /\ ~Owned(o)
    BY HostFacts DEF Settled, Owned, Disk
  <2> QED BY <2>1, HostFacts DEF HostTypes, HostTypeOK, Phases, Disk, Pump
<1> QED BY <1>1, HostStart, HostStep, PTL DEF HostSpec

-----------------------------------------------------------------------------
(* ProviderCircuit *)

\* What OneProbe leaves out: while a probe is out that no failure has overtaken,
\* the circuit is half open for it, or was reset; and the probe that the file
\* names is such a one.
ProbeIsNamed ==
  \A c \in Caller \ stale : call[c] = "probe" => circuit.state = "closed" \/ IsProbe(c)
NamedIsProbe ==
  circuit.probe # NoCaller => call[circuit.probe] = "probe" /\ circuit.probe \notin stale

CircuitInv == CircuitTypeOK /\ ProbeIsNamed /\ NamedIsProbe /\ OneProbe

LEMMA CircuitInitInv == CircuitInit => CircuitInv
BY CircuitAssumption
   DEF CircuitInit, CircuitInv, CircuitTypeOK, ProbeIsNamed, NamedIsProbe, OneProbe, Closed

LEMMA CircuitAdmits ==
  ASSUME CircuitInv, NEW c \in Caller, Admit(c) \/ AdmitProbe(c)
  PROVE  CircuitInv'
<1> USE CircuitAssumption
<1>1. CASE Admit(c)
  BY <1>1 DEF Admit, CircuitInv, CircuitTypeOK, ProbeIsNamed, NamedIsProbe, OneProbe, IsProbe
<1>2. CASE AdmitProbe(c)
  <2>1. \A d \in Caller \ stale : call[d] # "probe"
    BY <1>2 DEF AdmitProbe, CircuitInv, ProbeIsNamed, IsProbe
  <2>2. /\ call' = [call EXCEPT ![c] = "probe"] /\ stale' = stale \ {c} /\ leaks' = leaks
        /\ circuit'.state = "half_open" /\ circuit'.probe = c
        /\ circuit' \in [state: {"closed", "open", "half_open"}, probe: Caller \cup {NoCaller}, due: BOOLEAN]
    BY <1>2 DEF AdmitProbe
  <2> QED BY <2>1, <2>2 DEF CircuitInv, CircuitTypeOK, ProbeIsNamed, NamedIsProbe, OneProbe, IsProbe
<1> QED BY <1>1, <1>2

LEMMA CircuitSettles ==
  ASSUME CircuitInv, NEW c \in Caller, Succeed(c) \/ Fail(c) \/ Abandon(c) \/ Leak(c)
  PROVE  CircuitInv'
<1> USE CircuitAssumption
<1>1. CASE Succeed(c)
  BY <1>1 DEF Succeed, Settle, Closed, CircuitInv, CircuitTypeOK, ProbeIsNamed, NamedIsProbe,
              OneProbe, IsProbe
<1>2. CASE Fail(c)
  BY <1>2 DEF Fail, Settle, CircuitInv, CircuitTypeOK, ProbeIsNamed, NamedIsProbe, OneProbe, IsProbe
<1>3. CASE Abandon(c)
  BY <1>3 DEF Abandon, Settle, CircuitInv, CircuitTypeOK, ProbeIsNamed, NamedIsProbe, OneProbe,
              IsProbe
<1>4. CASE Leak(c)
  BY <1>4 DEF Leak, CircuitInv, CircuitTypeOK, ProbeIsNamed, NamedIsProbe, OneProbe, IsProbe
<1> QED BY <1>1, <1>2, <1>3, <1>4

LEMMA CircuitStepInv == CircuitInv /\ [CircuitNext]_circuitVars => CircuitInv'
<1> SUFFICES ASSUME CircuitInv, [CircuitNext]_circuitVars PROVE CircuitInv'
  OBVIOUS
<1> USE CircuitAssumption
<1>1. CASE Reset
  BY <1>1 DEF Reset, Closed, CircuitInv, CircuitTypeOK, ProbeIsNamed, NamedIsProbe, OneProbe, IsProbe
<1>2. CASE CooldownEnds
  BY <1>2 DEF CooldownEnds, CircuitInv, CircuitTypeOK, ProbeIsNamed, NamedIsProbe, OneProbe, IsProbe
<1>3. CASE UNCHANGED circuitVars
  BY <1>3 DEF circuitVars, CircuitInv, CircuitTypeOK, ProbeIsNamed, NamedIsProbe, OneProbe, IsProbe
<1> QED BY <1>1, <1>2, <1>3, CircuitAdmits, CircuitSettles DEF CircuitNext

\* However calls, failures, resets and leaks interleave, at most one probe is out that
\* no newer failure has overtaken.
THEOREM OneProbeAtATime == CircuitSpec => [](CircuitTypeOK /\ OneProbe)
<1>1. CircuitInv => CircuitTypeOK /\ OneProbe
  BY DEF CircuitInv
<1> QED BY <1>1, CircuitInitInv, CircuitStepInv, PTL DEF CircuitSpec

\* The circuit is closed by the operator, or by a probe that is newer than every
\* recorded failure.
THEOREM FailuresStand == CircuitSpec => NewerFailureStands
<1> DEFINE Closing == circuit.state # "closed" /\ circuit'.state = "closed"
           Rightly == \/ call' = call
                      \/ \E c \in Caller \ stale : call[c] = "probe" /\ call'[c] = "none"
<1>1. CircuitInv /\ [CircuitNext]_circuitVars => [Closing => Rightly]_circuitVars
  <2> SUFFICES ASSUME CircuitInv, CircuitNext, Closing PROVE Rightly
    OBVIOUS
  <2>1. CASE Reset \/ CooldownEnds
    BY <2>1 DEF Reset, CooldownEnds
  <2>2. ASSUME NEW c \in Caller, Admit(c) \/ AdmitProbe(c) \/ Fail(c) \/ Abandon(c) \/ Leak(c)
        PROVE  FALSE
    BY <2>2 DEF Admit, AdmitProbe, Fail, Abandon, Leak, CircuitInv, CircuitTypeOK
  <2>3. ASSUME NEW c \in Caller, Succeed(c) PROVE Rightly
    <3>1. IsProbe(c)
      BY <2>3 DEF Succeed
    <3>2. c \notin stale /\ call[c] = "probe" /\ call'[c] = "none"
      BY <2>3, <3>1, CircuitAssumption
         DEF Succeed, Settle, IsProbe, CircuitInv, NamedIsProbe, CircuitTypeOK
    <3> QED BY <3>2
  <2> QED BY <2>1, <2>2, <2>3 DEF CircuitNext
<1> QED BY <1>1, CircuitInitInv, CircuitStepInv, PTL DEF CircuitSpec, NewerFailureStands

-----------------------------------------------------------------------------
(* LoopDaemon *)

\* What OneScheduler leaves out: a daemon that runs owns the lease unless that
\* has passed, and whoever owns a lease that has passed is overdue.
RunnerOwnsLease == \A d \in Daemon \ overdue : Runs(d) => lease.by = d
OldIsOverdue == lease.old => lease.by \in overdue

DaemonInv == DaemonTypeOK /\ RunnerOwnsLease /\ OldIsOverdue

LEMMA DaemonInitInv == DaemonInit => DaemonInv
BY DaemonAssumption
   DEF DaemonInit, DaemonInv, DaemonTypeOK, RunnerOwnsLease, OldIsOverdue, Runs, NoEntry

LEMMA StartupInv ==
  ASSUME DaemonInv, NEW d \in Daemon, Startup(d)
  PROVE  DaemonInv'
<1> USE DaemonAssumption DEF At, To, DaemonInv, DaemonTypeOK, RunnerOwnsLease, OldIsOverdue, Runs
<1>1. CASE ReadLock(d)
  BY <1>1 DEF ReadLock
<1>2. CASE StatLock(d)
  BY <1>2 DEF StatLock
<1>3. CASE RenameLock(d)
  BY <1>3 DEF RenameLock, NoEntry
<1>4. CASE LinkLock(d)
  <2>1. CASE lockFile.by = NoDaemon
    <3>1. /\ step' = [step EXCEPT ![d] = "lease"] /\ lockFile' = [by |-> d, old |-> FALSE]
          /\ UNCHANGED <<state, seen, lease, overdue, troubles>> /\ step[d] = "link"
      BY <1>4, <2>1 DEF LinkLock
    <3>2. lockFile' \in [by: Daemon \cup {NoDaemon}, old: BOOLEAN]
      BY <3>1
    <3> QED BY <3>1, <3>2
  <2>2. CASE lockFile.by # NoDaemon
    BY <1>4, <2>2 DEF LinkLock
  <2> QED BY <2>1, <2>2
<1>5. CASE AcquireLease(d)
  <2>1. CASE LeaseIsFree
    <3>1. \A e \in Daemon \ overdue : ~Runs(e)
      BY <2>1 DEF LeaseIsFree
    <3>2. /\ step' = [step EXCEPT ![d] = "run"] /\ overdue' = overdue \ {d}
          /\ lease' = [by |-> d, old |-> FALSE]
          /\ UNCHANGED <<state, seen, lockFile, troubles>> /\ step[d] = "lease"
      BY <1>5, <2>1 DEF AcquireLease
    <3>3. lease' \in [by: Daemon \cup {NoDaemon}, old: BOOLEAN] /\ lease'.by = d /\ ~lease'.old
      BY <3>2
    <3> QED BY <3>1, <3>2, <3>3
  <2>2. CASE ~LeaseIsFree
    BY <1>5, <2>2 DEF AcquireLease
  <2> QED BY <2>1, <2>2
<1> QED BY <1>1, <1>2, <1>3, <1>4, <1>5 DEF Startup

LEMMA RunningInv ==
  ASSUME DaemonInv, NEW d \in Daemon, RenewLease(d) \/ TouchLock(d) \/ Stop(d)
  PROVE  DaemonInv'
<1> USE DaemonAssumption DEF At, To, DaemonInv, DaemonTypeOK, RunnerOwnsLease, OldIsOverdue, Runs
<1>1. CASE RenewLease(d)
  <2>1. CASE lease.by = d
    BY <1>1, <2>1 DEF RenewLease
  <2>2. CASE lease.by # d
    BY <1>1, <2>2 DEF RenewLease
  <2> QED BY <2>1, <2>2
<1>2. CASE TouchLock(d)
  BY <1>2 DEF TouchLock
<1>3. CASE Stop(d)
  BY <1>3 DEF Stop
<1> QED BY <1>1, <1>2, <1>3

LEMMA ShutdownInv ==
  ASSUME DaemonInv, NEW d \in Daemon, Shutdown(d)
  PROVE  DaemonInv'
<1> USE DaemonAssumption
    DEF At, To, DaemonInv, DaemonTypeOK, RunnerOwnsLease, OldIsOverdue, Runs, NoEntry
<1>1. CASE ReleaseLease(d)
  BY <1>1 DEF ReleaseLease
<1>2. CASE CheckLock(d)
  BY <1>2 DEF CheckLock
<1>3. CASE RemoveLock(d)
  BY <1>3 DEF RemoveLock
<1> QED BY <1>1, <1>2, <1>3 DEF Shutdown

LEMMA FaultsInv ==
  ASSUME DaemonInv,
         LockAges \/ LeaseAges
           \/ \E d \in Daemon : DaemonDies(d) \/ DaemonStalls(d) \/ DaemonResumes(d)
  PROVE  DaemonInv'
<1> USE DaemonAssumption DEF DaemonInv, DaemonTypeOK, RunnerOwnsLease, OldIsOverdue, Runs
<1>1. ASSUME NEW d \in Daemon, DaemonDies(d) \/ DaemonStalls(d) PROVE DaemonInv'
  BY <1>1 DEF DaemonDies, DaemonStalls, Trouble
<1>2. ASSUME NEW d \in Daemon, DaemonResumes(d) PROVE DaemonInv'
  BY <1>2 DEF DaemonResumes
<1>3. CASE LockAges
  BY <1>3 DEF LockAges
<1>4. CASE LeaseAges
  BY <1>4 DEF LeaseAges
<1> QED BY <1>1, <1>2, <1>3, <1>4

LEMMA DaemonStepInv == DaemonInv /\ [DaemonNext]_daemonVars => DaemonInv'
<1> SUFFICES ASSUME DaemonInv, [DaemonNext]_daemonVars PROVE DaemonInv'
  OBVIOUS
<1>1. CASE UNCHANGED daemonVars
  BY <1>1 DEF daemonVars, DaemonInv, DaemonTypeOK, RunnerOwnsLease, OldIsOverdue, Runs
<1> QED BY <1>1, StartupInv, RunningInv, ShutdownInv, FaultsInv DEF DaemonNext

\* Whatever daemons do to the lock file, and whoever dies or stalls: of the
\* schedulers whose lease has not passed at most one runs.
THEOREM OneSchedulerAtATime == DaemonSpec => [](DaemonTypeOK /\ OneScheduler)
<1>1. DaemonInv => DaemonTypeOK /\ OneScheduler
  BY DEF DaemonInv, RunnerOwnsLease, OneScheduler
<1> QED BY <1>1, DaemonInitInv, DaemonStepInv, PTL DEF DaemonSpec
=============================================================================
