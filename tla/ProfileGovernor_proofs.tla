----------------------- MODULE ProfileGovernor_proofs -----------------------
(***************************************************************************)
(* Proofs about ProfileGovernor, for every set of leases, fences, actions  *)
(* and callers and every bound.                                            *)
(***************************************************************************)
EXTENDS ProfileGovernor, TLAPS

----------------------------------------------------------------------------
(* The shape of the records *)

Subject == {"none", "registered", "unregistered"}

ResRecord ==
  [state : State, epoch : Nat, owner : Lease \cup {NoLease}, recon : BOOLEAN,
   subject : Subject, plan : PlanReason, cooling : BOOLEAN]

\* TypeOK without the calls in flight.
RecordsOK ==
  /\ res \in ResRecord /\ leases \in [Lease -> LeaseRecord] /\ generation \in Nat
  /\ lastUse \in [lease : Lease \cup {NoLease}, epoch : Nat]

LEMMA TypeParts == TypeOK <=> RecordsOK /\ calls \in [Caller -> Call]
  BY Zenon DEF TypeOK, RecordsOK, ResRecord, Subject

\* Membership facts that the provers would otherwise look for in every step.
LEMMA States ==
  /\ Lifecycle \subseteq State
  /\ "unknown" \in State /\ "ready" \in State /\ "leased" \in State /\ "active" \in State
  /\ "cooldown" \in State /\ "external_use" \in State /\ "quarantined" \in State
  BY DEF State, Lifecycle

LEMMA Reasons ==
  /\ "none" \in PlanReason /\ "restart" \in PlanReason /\ "external" \in PlanReason
  /\ "unsafe" \in PlanReason /\ "indeterminate" \in PlanReason /\ "barrier" \in PlanReason
  BY DEF PlanReason

\* An unissued lease, and the fences of one that is fenced off, are well formed.
LEMMA BlankType == Blank \in LeaseRecord /\ NoFences \in [Fence -> FenceRecord]
<1>1. 0 \in 0..UseLimit /\ 0 \in 0..FenceTtl /\ 0 \in 0..LeaseTtl /\ 0 \in 0..TabLimit
  BY ConstantsAssumption
<1>2. NoFences \in [Fence -> FenceRecord]
  BY <1>1 DEF NoFences, NoFence, FenceRecord
<1>3. [a \in Action |-> "none"] \in [Action -> Outcome \cup {"none"}]
  OBVIOUS
<1>4. QED
  BY <1>1, <1>2, <1>3 DEF Blank, LeaseRecord

\* The record that Acquire and MintExternal write for a new lease.
LEMMA NewLeaseType ==
  ASSUME NEW s \in State, NEW k \in {"automation", "external"}, NEW e \in Nat, NEW g \in Nat
  PROVE  [Blank EXCEPT !.state = s, !.kind = k, !.epoch = e, !.generation = g,
                       !.ttl = LeaseTtl] \in LeaseRecord
<1>1. LeaseTtl \in 0..LeaseTtl /\ s \in State \cup {"unissued"}
  BY ConstantsAssumption
<1>2. QED
  BY <1>1, BlankType, Zenon DEF LeaseRecord

\* Fencing a lease off keeps its record well formed.
LEMMA FencedOffType ==
  ASSUME NEW r \in LeaseRecord, NEW s \in State, NEW e \in Nat
  PROVE  [r EXCEPT !.state = s, !.epoch = e, !.fences = NoFences] \in LeaseRecord
<1>1. s \in State \cup {"unissued"}
  OBVIOUS
<1>2. QED
  BY <1>1, BlankType, Zenon DEF LeaseRecord

\* Fencing off an owner.
LEMMA QuarantineType ==
  ASSUME RecordsOK, NEW l \in Lease, NEW why \in PlanReason, Quarantine(l, why)
  PROVE  res' \in ResRecord /\ leases' \in [Lease -> LeaseRecord]
<1>1. res.epoch + 1 \in Nat
  BY DEF RecordsOK, ResRecord
<1>2. res' \in ResRecord
  BY <1>1, States, Zenon DEF RecordsOK, Quarantine, ResRecord
<1> DEFINE n == [leases[l] EXCEPT !.state = "quarantined", !.epoch = res.epoch + 1,
                                  !.fences = NoFences]
<1>3. n \in LeaseRecord
  BY <1>1, States, FencedOffType DEF RecordsOK
<1>4. leases' = [leases EXCEPT ![l] = n]
  BY Zenon DEF Quarantine, RecordsOK
<1>5. QED
  BY <1>2, <1>3, <1>4 DEF RecordsOK

\* Turning the resource over to external use.
LEMMA ToExternalUseType ==
  ASSUME RecordsOK, ToExternalUse
  PROVE  res' \in ResRecord /\ leases' \in [Lease -> LeaseRecord]
<1> DEFINE r == [res EXCEPT !.state = "external_use", !.recon = TRUE]
<1>1. r \in ResRecord
  BY States, Zenon DEF RecordsOK, ResRecord
<1>2. PrepareExternalRecovery(r)
  BY DEF ToExternalUse
<1> HIDE DEF r
<1>3. ASSUME NEW s \in Subject
      PROVE  [r EXCEPT !.plan = "external", !.subject = s] \in ResRecord
  BY <1>1, Reasons, Zenon DEF ResRecord
<1>4. [r EXCEPT !.plan = "external"] \in ResRecord
  BY <1>1, Reasons, Zenon DEF ResRecord
<1>5. r.subject \in Subject /\ r.epoch \in Nat
  BY <1>1, Zenon DEF ResRecord
<1>6. ASSUME NEW l \in Lease, MintExternal(r, l)
      PROVE  res' \in ResRecord /\ leases' \in [Lease -> LeaseRecord]
  <2> DEFINE e == IF r.epoch = 0 THEN 1 ELSE r.epoch
             s == IF r.subject = "none" THEN "unregistered" ELSE r.subject
  <2>1. e \in Nat /\ s \in Subject
    BY <1>5 DEF Subject
  <2>2. res' = [r EXCEPT !.owner = l, !.epoch = e, !.plan = "external", !.subject = s]
    BY <1>6, Zenon DEF MintExternal
  <2>3. leases' = [leases EXCEPT ![l] =
                     [Blank EXCEPT !.state = "external_use", !.kind = "external", !.epoch = e,
                                   !.generation = generation, !.ttl = LeaseTtl]]
    BY <1>6, Zenon DEF MintExternal
  <2> HIDE DEF e, s
  <2>4. res' \in ResRecord
    BY <1>1, <2>1, <2>2, Reasons, Zenon DEF ResRecord
  <2>5. [Blank EXCEPT !.state = "external_use", !.kind = "external", !.epoch = e,
                      !.generation = generation, !.ttl = LeaseTtl] \in LeaseRecord
    BY <2>1, States, NewLeaseType DEF RecordsOK
  <2>6. QED
    BY <2>3, <2>4, <2>5 DEF RecordsOK
<1>7. "registered" \in Subject
  BY DEF Subject
<1>8. QED
  BY <1>2, <1>3, <1>4, <1>5, <1>6, <1>7 DEF PrepareExternalRecovery, RecordsOK

----------------------------------------------------------------------------
(* The calls in flight *)

\* What a call in flight carries.
LEMMA CallFields ==
  ASSUME NEW k \in Call, k.op # "idle"
  PROVE  /\ k.lease \in Lease /\ k.epoch \in Nat
         /\ k.op = "authorizeFence" => k.fence \in Fence
         /\ k.op = "recordAction" => k.action \in Action /\ k.outcome \in Outcome
         /\ k.op = "transition" => k.to \in Lifecycle
         /\ k.op = "recover" => k.state \in State /\ k.plan \in PlanReason
         /\ k.op = "release" => k.unresolved \in BOOLEAN
  BY DEF Call, Idle

\* Starting a call whose record is well formed.
LEMMA BeginType ==
  ASSUME TypeOK, NEW c \in Caller, NEW k \in Call, Begin(c, k)
  PROVE  TypeOK'
  BY TypeParts DEF Begin, TypeOK

\* Ending a call, with whatever it has done to the records.
LEMMA FinishType ==
  ASSUME TypeOK, NEW c \in Caller, Finish(c),
         res' \in ResRecord, leases' \in [Lease -> LeaseRecord],
         lastUse' \in [lease : Lease \cup {NoLease}, epoch : Nat]
  PROVE  TypeOK'
<1>1. Idle \in Call
  BY DEF Call
<1>2. calls' \in [Caller -> Call] /\ generation' \in Nat
  BY <1>1 DEF Finish, TypeOK
<1>3. QED
  BY <1>2 DEF TypeOK, ResRecord, Subject

\* Every call starts with a well-formed record.
LEMMA CallBeginType ==
  ASSUME TypeOK, NEW c \in Caller, NEW l \in Lease, CallBegin(c, l)
  PROVE  TypeOK'
<1> DEFINE e == leases[l].epoch
<1>1. e \in Nat /\ res.epoch \in Nat /\ res.state \in State /\ res.plan \in PlanReason
  BY Zenon DEF TypeOK, LeaseRecord
<1> HIDE DEF e
<1>2. ASSUME NEW op \in {"openTab", "heartbeat", "createFence"}
      PROVE  [op |-> op, lease |-> l, epoch |-> e] \in Call
  BY <1>1, Zenon DEF Call
<1>3. CASE OpenTabBegin(c, l)
  BY <1>2, <1>3, BeginType DEF OpenTabBegin, e
<1>4. CASE HeartbeatBegin(c, l)
  BY <1>2, <1>4, BeginType DEF HeartbeatBegin, e
<1>5. CASE CreateFenceBegin(c, l)
  BY <1>2, <1>5, BeginType DEF CreateFenceBegin, e
<1>6. CASE ReleaseBegin(c, l)
  <2>1. [op |-> "release", lease |-> l, epoch |-> e, unresolved |-> HasUnresolved(l)] \in Call
    BY <1>1, Zenon DEF Call, HasUnresolved
  <2>2. QED
    BY <1>6, <2>1, BeginType DEF ReleaseBegin, e
<1>7. CASE RecoverBegin(c, l)
  <2>1. [op |-> "recover", lease |-> l, epoch |-> res.epoch, state |-> res.state,
         plan |-> res.plan] \in Call
    BY <1>1, Zenon DEF Call
  <2>2. QED
    BY <1>7, <2>1, BeginType DEF RecoverBegin
<1>8. ASSUME NEW f \in Fence, AuthorizeFenceBegin(c, l, f) PROVE TypeOK'
  <2>1. [op |-> "authorizeFence", lease |-> l, epoch |-> e, fence |-> f] \in Call
    BY <1>1, Zenon DEF Call
  <2>2. QED
    BY <1>8, <2>1, BeginType DEF AuthorizeFenceBegin, e
<1>9. ASSUME NEW a \in Action, NEW o \in Outcome, NEW t \in BOOLEAN,
             RecordActionBegin(c, l, a, o, t)
      PROVE  TypeOK'
  <2>1. [op |-> "recordAction", lease |-> l, epoch |-> e, action |-> a, outcome |-> o] \in Call
    BY <1>1, Zenon DEF Call
  <2>2. QED
    BY <1>9, <2>1, BeginType DEF RecordActionBegin, e
<1>10. ASSUME NEW to \in Lifecycle, TransitionBegin(c, l, to) PROVE TypeOK'
  <2>1. [op |-> "transition", lease |-> l, epoch |-> e, to |-> to] \in Call
    BY <1>1, Zenon DEF Call
  <2>2. QED
    BY <1>10, <2>1, BeginType DEF TransitionBegin, e
<1>11. QED
  BY <1>3, <1>4, <1>5, <1>6, <1>7, <1>8, <1>9, <1>10 DEF CallBegin

----------------------------------------------------------------------------
(* The commits *)

\* A lease that changes in one record only.
LEMMA LeaseUpdateType ==
  ASSUME TypeOK, NEW l \in Lease, NEW n \in LeaseRecord, leases' = [leases EXCEPT ![l] = n]
  PROVE  leases' \in [Lease -> LeaseRecord]
  BY DEF TypeOK

\* The fields of a lease that the commits of calls write.
LEMMA LeaseFields ==
  ASSUME TypeOK, NEW l \in Lease
  PROVE  /\ leases[l] \in LeaseRecord
         /\ leases[l].tabs \in 0..TabLimit /\ leases[l].issued \in 0..UseLimit
         /\ leases[l].ttl \in 0..LeaseTtl /\ leases[l].epoch \in Nat
         /\ leases[l].state \in State \cup {"unissued"}
         /\ leases[l].journal \in [Action -> Outcome \cup {"none"}]
         /\ leases[l].fences \in [Fence -> FenceRecord]
         /\ \A f \in Fence : leases[l].fences[f].uses \in 0..UseLimit
                             /\ leases[l].fences[f].ttl \in 0..FenceTtl
<1>1. leases[l] \in LeaseRecord
  BY DEF TypeOK
<1>2. QED
  BY <1>1, Zenon DEF LeaseRecord, FenceRecord

\* The quota of tabs is counted again at the commit.
LEMMA OpenTabCommitType ==
  ASSUME TypeOK, NEW c \in Caller, OpenTabCommit(c)
  PROVE  TypeOK'
<1> DEFINE l == calls[c].lease
<1>1. l \in Lease
  BY CallFields DEF TypeOK, OpenTabCommit
<1>2. leases[l].tabs + 1 \in 0..TabLimit
  BY <1>1, LeaseFields, ConstantsAssumption DEF OpenTabCommit
<1>3. [leases[l] EXCEPT !.tabs = leases[l].tabs + 1] \in LeaseRecord
  BY <1>1, <1>2, LeaseFields, Zenon DEF LeaseRecord
<1>4. leases' = [leases EXCEPT ![l] = [leases[l] EXCEPT !.tabs = leases[l].tabs + 1]]
  BY Zenon DEF OpenTabCommit
<1> HIDE DEF l
<1>5. leases' \in [Lease -> LeaseRecord]
  BY <1>1, <1>3, <1>4, LeaseUpdateType
<1>6. QED
  BY <1>5, FinishType, TypeParts DEF OpenTabCommit, RecordsOK

\* A renewed lease lives LeaseTtl ticks.
LEMMA HeartbeatCommitType ==
  ASSUME TypeOK, NEW c \in Caller, HeartbeatCommit(c)
  PROVE  TypeOK'
<1> DEFINE l == calls[c].lease
<1>1. l \in Lease
  BY CallFields DEF TypeOK, HeartbeatCommit
<1>2. LeaseTtl \in 0..LeaseTtl
  BY ConstantsAssumption
<1>3. [leases[l] EXCEPT !.ttl = LeaseTtl] \in LeaseRecord
  BY <1>1, <1>2, LeaseFields, Zenon DEF LeaseRecord
<1>4. leases' = [leases EXCEPT ![l] = [leases[l] EXCEPT !.ttl = LeaseTtl]]
  BY Zenon DEF HeartbeatCommit
<1> HIDE DEF l
<1>5. leases' \in [Lease -> LeaseRecord]
  BY <1>1, <1>3, <1>4, LeaseUpdateType
<1>6. QED
  BY <1>5, FinishType, TypeParts DEF HeartbeatCommit, RecordsOK

\* A released resource has no owner and cools down.
LEMMA ReleaseCommitType ==
  ASSUME TypeOK, NEW c \in Caller, ReleaseCommit(c)
  PROVE  TypeOK'
<1> DEFINE l == calls[c].lease
<1>1. l \in Lease
  BY CallFields DEF TypeOK, ReleaseCommit
<1>2. "cooldown" \in State \cup {"unissued"}
  BY States
<1>3. [leases[l] EXCEPT !.state = "cooldown"] \in LeaseRecord
  BY <1>1, <1>2, LeaseFields, Zenon DEF LeaseRecord
<1>4. leases' = [leases EXCEPT ![l] = [leases[l] EXCEPT !.state = "cooldown"]]
  BY Zenon DEF ReleaseCommit
<1>5. res' \in ResRecord
  BY States, TypeParts, Zenon DEF ReleaseCommit, ResRecord, RecordsOK
<1> HIDE DEF l
<1>6. leases' \in [Lease -> LeaseRecord]
  BY <1>1, <1>3, <1>4, LeaseUpdateType
<1>7. QED
  BY <1>5, <1>6, FinishType, TypeParts DEF ReleaseCommit, RecordsOK

\* The number of fences issued stays within the use limit.
LEMMA CreateFenceCommitType ==
  ASSUME TypeOK, NEW c \in Caller, NEW f \in Fence, CreateFenceCommit(c, f)
  PROVE  TypeOK'
<1> DEFINE l == calls[c].lease
           s == IF leases[l].state = "leased" THEN "active" ELSE leases[l].state
           fence == [epoch |-> leases[l].epoch, uses |-> 0, ttl |-> FenceTtl]
           n == [leases[l] EXCEPT !.state = s, !.issued = leases[l].issued + 1,
                                  !.fences = [leases[l].fences EXCEPT ![f] = fence]]
<1>1. l \in Lease
  BY CallFields DEF TypeOK, CreateFenceCommit
<1>2. leases[l].issued + 1 \in 0..UseLimit /\ FenceTtl \in 0..FenceTtl /\ 0 \in 0..UseLimit
  <2>1. leases[l].issued < UseLimit
    BY Zenon DEF CreateFenceCommit
  <2> HIDE DEF l
  <2>2. leases[l].issued \in 0..UseLimit
    BY <1>1, LeaseFields
  <2>3. QED
    BY <2>1, <2>2, ConstantsAssumption
<1>3. s \in State \cup {"unissued"}
  BY <1>1, LeaseFields, States
<1>4. fence \in FenceRecord
  BY <1>1, <1>2, LeaseFields, Zenon DEF FenceRecord
<1>5. leases' = [leases EXCEPT ![l] = n]
  BY Zenon DEF CreateFenceCommit
<1>6. res' \in ResRecord
  <2> DEFINE t == IF leases[l].state = "leased" THEN "active" ELSE res.state
  <2>1. t \in State
    BY States, TypeParts, Zenon DEF ResRecord, RecordsOK
  <2>2. res' = [res EXCEPT !.state = t]
    BY Zenon DEF CreateFenceCommit
  <2> HIDE DEF t
  <2>3. QED
    BY <2>1, <2>2, TypeParts, Zenon DEF ResRecord, RecordsOK
<1> HIDE DEF l, s, fence
<1>7. [leases[l].fences EXCEPT ![f] = fence] \in [Fence -> FenceRecord]
  BY <1>1, <1>4, LeaseFields, Zenon
<1>8. n \in LeaseRecord
  BY <1>1, <1>2, <1>3, <1>7, LeaseFields, Zenon DEF LeaseRecord
<1>9. leases' \in [Lease -> LeaseRecord]
  BY <1>1, <1>5, <1>8, LeaseUpdateType
<1>10. QED
  BY <1>6, <1>9, FinishType, TypeParts DEF CreateFenceCommit, RecordsOK

\* The uses of one fence stay within the use limit.
LEMMA AuthorizeFenceCommitType ==
  ASSUME TypeOK, NEW c \in Caller, AuthorizeFenceCommit(c)
  PROVE  TypeOK'
<1> DEFINE l == calls[c].lease
           f == calls[c].fence
           fence == [leases[l].fences[f] EXCEPT !.uses = leases[l].fences[f].uses + 1]
           n == [leases[l] EXCEPT !.fences = [leases[l].fences EXCEPT ![f] = fence]]
<1>1. l \in Lease /\ f \in Fence /\ calls[c].epoch \in Nat
  BY CallFields DEF TypeOK, AuthorizeFenceCommit
<1>2. leases[l].fences[f].uses + 1 \in 0..UseLimit
  <2>1. leases[l].fences[f].uses < UseLimit
    BY Zenon DEF AuthorizeFenceCommit
  <2> HIDE DEF l, f
  <2>2. leases[l].fences[f].uses \in 0..UseLimit
    BY <1>1, LeaseFields
  <2>3. QED
    BY <2>1, <2>2, ConstantsAssumption
<1>3. fence \in FenceRecord
  <2> HIDE DEF l, f
  <2>1. leases[l].fences[f] \in FenceRecord
    BY <1>1, LeaseFields, Zenon
  <2>2. QED
    BY <1>2, <2>1, Zenon DEF FenceRecord
<1>4. leases' = [leases EXCEPT ![l] = n]
  BY Zenon DEF AuthorizeFenceCommit
<1>5. lastUse' \in [lease : Lease \cup {NoLease}, epoch : Nat]
  BY <1>1, Zenon DEF AuthorizeFenceCommit
<1> HIDE DEF l, f, fence
<1>6. [leases[l].fences EXCEPT ![f] = fence] \in [Fence -> FenceRecord]
  BY <1>1, <1>3, LeaseFields, Zenon
<1>7. n \in LeaseRecord
  BY <1>1, <1>6, LeaseFields, Zenon DEF LeaseRecord
<1>8. leases' \in [Lease -> LeaseRecord]
  BY <1>1, <1>4, <1>7, LeaseUpdateType
<1>9. QED
  BY <1>5, <1>8, FinishType, TypeParts DEF AuthorizeFenceCommit, RecordsOK

\* A journalled outcome, with the quarantine it may bring.
LEMMA RecordActionCommitType ==
  ASSUME TypeOK, NEW c \in Caller, RecordActionCommit(c)
  PROVE  TypeOK'
<1> DEFINE l == calls[c].lease
           noted == [leases[l].journal EXCEPT ![calls[c].action] = calls[c].outcome]
           n == [leases[l] EXCEPT !.journal = noted]
           q == [n EXCEPT !.state = "quarantined", !.epoch = res.epoch + 1, !.fences = NoFences]
<1>1. l \in Lease /\ calls[c].action \in Action /\ calls[c].outcome \in Outcome
  BY CallFields DEF TypeOK, RecordActionCommit
<1>2. noted \in [Action -> Outcome \cup {"none"}]
  BY <1>1, LeaseFields, Zenon
<1>3. n \in LeaseRecord
  <2> HIDE DEF l, noted
  <2>1. QED
    BY <1>1, <1>2, LeaseFields, Zenon DEF LeaseRecord
<1>4. res.epoch + 1 \in Nat
  BY TypeParts DEF RecordsOK, ResRecord
<1>5. CASE leases' = [leases EXCEPT ![l] = n] /\ res' = res
  <2> HIDE DEF l, n
  <2>1. leases' \in [Lease -> LeaseRecord] /\ res' \in ResRecord
    BY <1>1, <1>3, <1>5, LeaseUpdateType, TypeParts DEF RecordsOK
  <2>2. QED
    BY <2>1, FinishType, TypeParts DEF RecordActionCommit, RecordsOK
<1>6. CASE /\ leases' = [leases EXCEPT ![l] = q]
           /\ res' = [res EXCEPT !.state = "quarantined", !.epoch = @ + 1, !.recon = TRUE,
                                 !.plan = "indeterminate"]
  <2> HIDE DEF l, n
  <2>1. q \in LeaseRecord
    BY <1>3, <1>4, FencedOffType, States
  <2>2. leases' \in [Lease -> LeaseRecord]
    BY <1>1, <1>6, <2>1, LeaseUpdateType
  <2>3. res' \in ResRecord
    BY <1>4, <1>6, States, Reasons, TypeParts, Zenon DEF ResRecord, RecordsOK
  <2>4. QED
    BY <2>2, <2>3, FinishType, TypeParts DEF RecordActionCommit, RecordsOK
<1>7. QED
  BY <1>5, <1>6, Zenon DEF RecordActionCommit

\* Both records move to the lifecycle state asked for.
LEMMA LifecycleType ==
  ASSUME TypeOK, NEW l \in Lease, NEW to \in Lifecycle,
         res' = [res EXCEPT !.state = to, !.recon = TRUE],
         leases' = [leases EXCEPT ![l].state = to]
  PROVE  res' \in ResRecord /\ leases' \in [Lease -> LeaseRecord]
<1>1. to \in State /\ to \in State \cup {"unissued"}
  BY States
<1>2. [leases[l] EXCEPT !.state = to] \in LeaseRecord
  BY <1>1, LeaseFields, Zenon DEF LeaseRecord
<1>3. leases' = [leases EXCEPT ![l] = [leases[l] EXCEPT !.state = to]]
  BY Zenon
<1>4. res' \in ResRecord
  BY <1>1, TypeParts, Zenon DEF ResRecord, RecordsOK
<1>5. QED
  BY <1>2, <1>3, <1>4, LeaseUpdateType

\* A recovered resource is free under a new epoch.
LEMMA RecoverCommitType ==
  ASSUME TypeOK, NEW c \in Caller, RecoverCommit(c)
  PROVE  TypeOK'
<1> DEFINE l == calls[c].lease
           n == [leases[l] EXCEPT !.state = "cooldown", !.epoch = res.epoch + 1,
                                  !.fences = NoFences]
<1>1. l \in Lease
  BY CallFields DEF TypeOK, RecoverCommit
<1>2. res.epoch + 1 \in Nat
  BY TypeParts DEF RecordsOK, ResRecord
<1>3. res' \in ResRecord
  BY <1>2, States, TypeParts, Zenon DEF RecoverCommit, ResRecord, RecordsOK
<1>4. leases' = [leases EXCEPT ![l] = n]
  BY Zenon DEF RecoverCommit
<1> HIDE DEF l
<1>5. leases' \in [Lease -> LeaseRecord]
  BY <1>1, <1>2, <1>4, FencedOffType, LeaseFields, LeaseUpdateType, States
<1>6. QED
  BY <1>3, <1>5, FinishType, TypeParts DEF RecoverCommit, RecordsOK

\* Whatever a call in flight does next.
LEMMA CallStepType ==
  ASSUME TypeOK, NEW c \in Caller, CallStep(c)
  PROVE  TypeOK'
<1>1. CASE Refuse(c)
  BY <1>1, FinishType, TypeParts DEF Refuse, RecordsOK
<1>2. CASE TransitionCommit(c)
  <2>1. calls[c].lease \in Lease /\ calls[c].to \in Lifecycle
    BY <1>2, CallFields DEF TypeOK, TransitionCommit
  <2>2. res' \in ResRecord /\ leases' \in [Lease -> LeaseRecord]
    BY <1>2, <2>1, LifecycleType DEF TransitionCommit
  <2>3. QED
    BY <1>2, <2>2, FinishType, TypeParts DEF TransitionCommit, RecordsOK
<1>3. QED
  BY <1>1, <1>2, OpenTabCommitType, HeartbeatCommitType, ReleaseCommitType,
     CreateFenceCommitType, AuthorizeFenceCommitType, RecordActionCommitType,
     RecoverCommitType DEF CallStep

----------------------------------------------------------------------------
(* The steps that are not part of a call in flight *)

\* A step that moves the resource and leaves the leases alone.
LEMMA MarkType ==
  ASSUME TypeOK, NEW s \in State, NEW b \in BOOLEAN, NEW why \in PlanReason,
         res' = [res EXCEPT !.state = s, !.recon = b, !.plan = why]
  PROVE  res' \in ResRecord
  BY TypeParts, Zenon DEF ResRecord, RecordsOK

\* All ways a reconciliation can go.
LEMMA ReconcileType ==
  ASSUME TypeOK, NEW live \in Liveness, Reconcile(live)
  PROVE  TypeOK'
<1> DEFINE Goal == res' \in ResRecord /\ leases' \in [Lease -> LeaseRecord]
<1> SUFFICES Goal
  BY DEF Reconcile, TypeOK, ResRecord, Subject
<1>1. RecordsOK /\ res \in ResRecord /\ res.state \in State /\ leases \in [Lease -> LeaseRecord]
  BY TypeParts, Zenon DEF RecordsOK, ResRecord
<1>2. CASE ToExternalUse
  BY <1>1, <1>2, ToExternalUseType
<1>3. ASSUME NEW s \in State, NEW b \in BOOLEAN, res' = [res EXCEPT !.recon = b, !.state = s],
             leases' = leases
      PROVE  Goal
  BY <1>1, <1>3, Zenon DEF ResRecord
<1>4. ASSUME NEW b \in BOOLEAN, res' = [res EXCEPT !.recon = b], leases' = leases PROVE Goal
  BY <1>1, <1>4, Zenon DEF ResRecord
<1>5. CASE ReconcileUnhealthy(live)
  <2>1. CASE res.owner # NoLease /\ Quarantine(res.owner, "unsafe")
    <3>1. res.owner \in Lease
      BY <1>1, <2>1 DEF ResRecord
    <3>2. QED
      BY <1>1, <2>1, <3>1, QuarantineType, Reasons
  <2>2. CASE /\ res' = [res EXCEPT !.recon = TRUE,
                                   !.state = IF @ = "quarantined" THEN @ ELSE "unknown"]
             /\ leases' = leases
    <3> DEFINE s == IF res.state = "quarantined" THEN res.state ELSE "unknown"
    <3>1. s \in State /\ res' = [res EXCEPT !.recon = TRUE, !.state = s]
      BY <1>1, <2>2, States, Zenon
    <3> HIDE DEF s
    <3>2. QED
      BY <1>3, <2>2, <3>1, Zenon
  <2>3. QED
    BY <1>5, <2>1, <2>2, Zenon DEF ReconcileUnhealthy
<1>6. CASE ReconcileFree(live)
  <2>1. CASE res' = [res EXCEPT !.recon = TRUE]
    BY <1>4, <1>6, <2>1, Zenon DEF ReconcileFree
  <2>2. CASE res' = [res EXCEPT !.recon = FALSE,
                                !.state = IF @ \in {"cooldown", "unknown"} THEN "ready" ELSE @]
    <3> DEFINE s == IF res.state \in {"cooldown", "unknown"} THEN "ready" ELSE res.state
    <3>1. s \in State /\ res' = [res EXCEPT !.recon = FALSE, !.state = s]
      BY <1>1, <2>2, States, Zenon
    <3> HIDE DEF s
    <3>2. QED
      BY <1>3, <1>6, <3>1, Zenon DEF ReconcileFree
  <2>3. QED
    BY <1>6, <2>1, <2>2, Zenon DEF ReconcileFree
<1>7. QED
  BY <1>2, <1>4, <1>5, <1>6, Zenon
     DEF Reconcile, ReconcileExternal, ReconcileExternalUse, ReconcileOwned

\* A new lease.
LEMMA AcquireType ==
  ASSUME TypeOK, NEW kind \in {"automation", "external"}, NEW l \in Lease, Acquire(kind, l)
  PROVE  TypeOK'
<1> DEFINE s   == IF kind = "external" THEN "external_use" ELSE "leased"
           sub == IF kind = "external" THEN "registered" ELSE "none"
           why == IF kind = "external" THEN "external" ELSE "none"
           e   == res.epoch + 1
           n   == [Blank EXCEPT !.state = s, !.kind = kind, !.epoch = e,
                                !.generation = generation, !.ttl = LeaseTtl]
<1>1. s \in State /\ sub \in Subject /\ why \in PlanReason
  BY States, Reasons DEF Subject
<1>2. e \in Nat /\ generation \in Nat
  BY DEF TypeOK
<1>3. res' = [res EXCEPT !.state = s, !.epoch = e, !.owner = l, !.recon = FALSE,
                         !.subject = sub, !.plan = why]
  BY Zenon DEF Acquire
<1>4. leases' = [leases EXCEPT ![l] = n]
  BY Zenon DEF Acquire
<1> HIDE DEF s, sub, why, e
<1>5. res' \in ResRecord
  BY <1>1, <1>2, <1>3, TypeParts, Zenon DEF ResRecord, RecordsOK
<1>6. leases' \in [Lease -> LeaseRecord]
  BY <1>1, <1>2, <1>4, NewLeaseType, LeaseUpdateType
<1>7. QED
  BY <1>5, <1>6 DEF Acquire, TypeOK, ResRecord, Subject

\* A denied acquire marks the resource.
LEMMA AcquireDeniedType ==
  ASSUME TypeOK, NEW external \in BOOLEAN, AcquireDenied(external)
  PROVE  TypeOK'
<1>1. CASE ToExternalUse
  <2>1. res' \in ResRecord /\ leases' \in [Lease -> LeaseRecord]
    BY <1>1, ToExternalUseType, TypeParts
  <2>2. QED
    BY <2>1 DEF AcquireDenied, TypeOK, ResRecord, Subject
<1>2. CASE leases' = leases /\ \/ res' = [res EXCEPT !.recon = TRUE]
                               \/ res' = [res EXCEPT !.state = "unknown", !.recon = TRUE]
  <2>1. res' \in ResRecord
    BY <1>2, States, TypeParts, Zenon DEF ResRecord, RecordsOK
  <2>2. QED
    BY <1>2, <2>1 DEF AcquireDenied, TypeOK, ResRecord, Subject
<1>3. QED
  BY <1>1, <1>2, Zenon DEF AcquireDenied

\* Time passes for the current lease and its fences.
LEMMA TickType ==
  ASSUME TypeOK, Tick
  PROVE  TypeOK'
<1>1. res' \in ResRecord
  BY TypeParts, Zenon DEF Tick, ResRecord, RecordsOK
<1>2. ASSUME NEW n \in Nat, NEW t \in 0..n PROVE Elapse(t) \in 0..n
  BY DEF Elapse
<1>3. CASE res.owner = NoLease
  BY <1>1, <1>3 DEF Tick, TypeOK, ResRecord, Subject
<1>4. CASE res.owner # NoLease
  <2> DEFINE l == res.owner
             older == FencesElapse(leases[l].fences)
             t == Elapse(leases[l].ttl)
  <2>1. l \in Lease
    BY <1>4, TypeParts DEF RecordsOK, ResRecord
  <2>2. leases' = [leases EXCEPT ![l] = [leases[l] EXCEPT !.ttl = t, !.fences = older]]
    BY <1>4, Zenon DEF Tick
  <2> HIDE DEF l
  <2>3. t \in 0..LeaseTtl
    BY <1>2, <2>1, LeaseFields, ConstantsAssumption
  <2>4. older \in [Fence -> FenceRecord]
    <3>1. ASSUME NEW f \in Fence
          PROVE  [leases[l].fences[f] EXCEPT !.ttl = Elapse(@)] \in FenceRecord
      <4> DEFINE u == Elapse(leases[l].fences[f].ttl)
      <4>1. u \in 0..FenceTtl
        BY <1>2, <2>1, LeaseFields, ConstantsAssumption
      <4>2. leases[l].fences[f] \in FenceRecord
        BY <2>1, LeaseFields, Zenon
      <4> HIDE DEF u
      <4>3. [leases[l].fences[f] EXCEPT !.ttl = u] \in FenceRecord
        BY <4>1, <4>2, Zenon DEF FenceRecord
      <4>4. QED
        BY <4>3, Zenon DEF u
    <3>2. QED
      BY <3>1, Zenon DEF FencesElapse
  <2> HIDE DEF older, t
  <2>5. [leases[l] EXCEPT !.ttl = t, !.fences = older] \in LeaseRecord
    BY <2>1, <2>3, <2>4, LeaseFields, Zenon DEF LeaseRecord
  <2>6. leases' \in [Lease -> LeaseRecord]
    BY <2>1, <2>2, <2>5, LeaseUpdateType
  <2>7. QED
    BY <1>1, <2>6 DEF Tick, TypeOK, ResRecord, Subject
<1>5. QED
  BY <1>3, <1>4

\* The next process starts with no call and with the resource in doubt.
LEMMA HostRestartType ==
  ASSUME TypeOK, HostRestart
  PROVE  TypeOK'
<1> DEFINE s == IF ExternallyHeld(res.owner) THEN "external_use" ELSE "unknown"
           why == IF res.owner = NoLease THEN res.plan
                  ELSE IF ExternallyHeld(res.owner) THEN "external" ELSE "restart"
<1>1. s \in State /\ why \in PlanReason
  BY States, Reasons, TypeParts, Zenon DEF RecordsOK, ResRecord
<1>2. res' = [res EXCEPT !.state = s, !.recon = TRUE, !.plan = why]
  BY Zenon DEF HostRestart
<1> HIDE DEF s, why
<1>3. res' \in ResRecord
  BY <1>1, <1>2, MarkType, Zenon
<1>4. calls' \in [Caller -> Call] /\ generation' \in Nat
  BY DEF HostRestart, TypeOK, Call
<1>5. QED
  BY <1>3, <1>4 DEF HostRestart, TypeOK, ResRecord, Subject

----------------------------------------------------------------------------
(* Type correctness *)

LEMMA InitType == Init => TypeOK
<1> SUFFICES ASSUME Init PROVE TypeOK
  OBVIOUS
<1>1. res \in ResRecord
  BY States, Reasons, Zenon DEF Init, ResRecord, Subject
<1>2. leases \in [Lease -> LeaseRecord]
  BY BlankType DEF Init
<1>3. calls \in [Caller -> Call] /\ generation \in Nat
  BY DEF Init, Call
<1>4. lastUse \in [lease : Lease \cup {NoLease}, epoch : Nat]
  BY DEF Init
<1>5. QED
  BY <1>1, <1>2, <1>3, <1>4, TypeParts DEF RecordsOK

LEMMA NextType == TypeOK /\ [Next]_vars => TypeOK'
<1> SUFFICES ASSUME TypeOK, [Next]_vars PROVE TypeOK'
  OBVIOUS
<1>1. CASE DetectExternalUse
  <2>1. res' \in ResRecord /\ leases' \in [Lease -> LeaseRecord]
    BY <1>1, ToExternalUseType, TypeParts DEF DetectExternalUse
  <2>2. QED
    BY <1>1, <2>1 DEF DetectExternalUse, TypeOK, ResRecord, Subject
<1>2. ASSUME NEW l \in Lease, HeartbeatExpired(l) PROVE TypeOK'
  <2>1. res' \in ResRecord
    BY <1>2, States, TypeParts, Zenon DEF HeartbeatExpired, ResRecord, RecordsOK
  <2>2. QED
    BY <1>2, <2>1 DEF HeartbeatExpired, TypeOK, ResRecord, Subject
<1>3. ASSUME NEW l \in Lease, Barrier(l) PROVE TypeOK'
  <2>1. CASE Quarantine(l, "barrier")
    <3>1. res' \in ResRecord /\ leases' \in [Lease -> LeaseRecord]
      BY <2>1, QuarantineType, TypeParts, Reasons
    <3>2. QED
      BY <1>3, <3>1 DEF Barrier, TypeOK, ResRecord, Subject
  <2>2. CASE res' = [res EXCEPT !.recon = TRUE] /\ leases' = leases
    <3>1. res' \in ResRecord
      BY <2>2, TypeParts, Zenon DEF ResRecord, RecordsOK
    <3>2. QED
      BY <1>3, <2>2, <3>1 DEF Barrier, TypeOK, ResRecord, Subject
  <2>3. QED
    BY <1>3, <2>1, <2>2, Zenon DEF Barrier
<1>4. ASSUME NEW l \in Lease, NEW to \in Lifecycle, LifecycleGate(l, to) PROVE TypeOK'
  <2>1. res' \in ResRecord /\ leases' \in [Lease -> LeaseRecord]
    BY <1>4, LifecycleType DEF LifecycleGate
  <2>2. QED
    BY <1>4, <2>1 DEF LifecycleGate, TypeOK, ResRecord, Subject
<1>5. CASE UNCHANGED vars
  BY <1>5 DEF vars, TypeOK
<1>6. QED
  BY <1>1, <1>2, <1>3, <1>4, <1>5, ReconcileType, AcquireType, AcquireDeniedType,
     CallBeginType, CallStepType, TickType, HostRestartType DEF Next

\* Every record keeps its shape and every quota holds, for any number of
\* leases, fences and concurrent calls: a quota that several calls have seen
\* free is counted again by each commit.
THEOREM TypeCorrect == Spec => []TypeOK
  BY InitType, NextType, PTL DEF Spec

----------------------------------------------------------------------------
(* The inductive invariant *)

\* A lease held for somebody outside has no fence and no journal, so no call
\* of its holder can come as far as a commit that changes it.
ExternalLeaseIsBare ==
  \A l \in Lease :
    Issued(l) /\ leases[l].kind = "external" =>
      /\ leases[l].state = "external_use"
      /\ \A f \in Fence : leases[l].fences[f].epoch = 0
      /\ \A a \in Action : leases[l].journal[a] = "none"

\* The mark of external use is never left without the lease it stands for.
MarkHasOwner == res.subject # "none" => res.owner # NoLease

RecordsInv ==
  ValidState /\ NoResurrection /\ EpochsSeparateOwners /\ ExternalLeaseIsBare /\ MarkHasOwner

IInv == TypeOK /\ RecordsInv /\ CallsAreRooted

\* What every step does to a lease once issued: it keeps its kind and either
\* moves to a new epoch, or gains neither ownership nor an unknown effect.
LeaseAdvances(l) ==
  /\ leases'[l].state # "unissued" /\ leases'[l].kind = leases[l].kind
  /\ \/ leases'[l].epoch > leases[l].epoch
     \/ /\ leases'[l].epoch = leases[l].epoch
        /\ HasIndeterminate(l)' => HasIndeterminate(l)
        /\ res'.owner = l => res.owner = l

LeasesAdvance == \A l \in Lease : Issued(l) => LeaseAdvances(l)

\* The fields of the records, as the provers read them.
LEMMA Fields ==
  ASSUME TypeOK
  PROVE  /\ res \in ResRecord /\ leases \in [Lease -> LeaseRecord] /\ generation \in Nat
         /\ \A l \in Lease : leases[l].epoch \in Nat
         /\ res.epoch \in Nat /\ res.owner \in Lease \cup {NoLease}
  BY TypeParts, Zenon DEF RecordsOK, ResRecord, LeaseRecord

\* What a call relies on survives every step of the others.
LEMMA RootedStep ==
  ASSUME TypeOK, TypeOK', LeasesAdvance, NEW k \in Call, k.op # "idle", Rooted(k)
  PROVE  Rooted(k)'
<1>1. k.lease \in Lease /\ k.epoch \in Nat
  BY CallFields
<1>2. leases[k.lease].epoch \in Nat /\ leases'[k.lease].epoch \in Nat
  BY <1>1, Zenon DEF TypeOK, LeaseRecord
<1>3. LeaseAdvances(k.lease)
  BY <1>1, Zenon DEF Rooted, LeasesAdvance
<1>4. k.epoch <= leases'[k.lease].epoch
  BY <1>1, <1>2, <1>3 DEF LeaseAdvances, Rooted
<1>5. k.op = "release" /\ Facts(k.lease, k.epoch)'
        => k.unresolved \/ ~HasIndeterminate(k.lease)'
  <2>1. CASE leases'[k.lease].epoch > leases[k.lease].epoch
    BY <1>1, <1>2, <2>1 DEF Facts, Rooted
  <2>2. CASE ~(leases'[k.lease].epoch > leases[k.lease].epoch)
    BY <1>3, <2>2, Zenon DEF Facts, LeaseAdvances, Rooted
  <2>3. QED
    BY <2>1, <2>2
<1>6. QED
  BY <1>3, <1>4, <1>5, Zenon DEF LeaseAdvances, Issued, Rooted

\* A step that leaves the calls alone, ends some of them or starts a rooted one.
LEMMA RootedKept ==
  ASSUME TypeOK, TypeOK', CallsAreRooted, LeasesAdvance,
         \A c \in Caller : calls'[c] = calls[c] \/ calls'[c] = Idle \/ Rooted(calls[c])'
  PROVE  CallsAreRooted'
<1> SUFFICES ASSUME NEW c \in Caller, NEW k \in Call, calls'[c] = k, k.op # "idle"
             PROVE  Rooted(k)'
  BY Zenon DEF CallsAreRooted, TypeOK, Rooted
<1>1. CASE calls[c] = k
  BY <1>1, RootedStep, Zenon DEF CallsAreRooted
<1>2. CASE Rooted(calls[c])'
  BY <1>2, Zenon DEF Rooted
<1>3. QED
  BY <1>1, <1>2 DEF Idle

----------------------------------------------------------------------------
(* Every step keeps the invariant of the records and advances the leases.  A  *)
(* shape of step that several actions share has a lemma of its own.          *)

USE DEF ResRecord, LeaseRecord, IInv, RecordsInv, ValidState, Issued

\* A step of FencedOwnership, apart from the history of uses.
OwnershipStep ==
  LET MayAdvance == res'.epoch \in {res.epoch, res.epoch + 1}
  IN  \/ /\ res'.owner = res.owner /\ res'.epoch = res.epoch
         /\ Usable(res'.state) <=> Usable(res.state)
      \/ res'.owner = res.owner /\ MayAdvance /\ ~Usable(res'.state)
      \/ /\ res.owner = NoLease /\ res'.owner \in Lease
         /\ \/ res'.epoch = res.epoch + 1 /\ Usable(res'.state)
            \/ MayAdvance /\ ~Usable(res'.state)
      \/ res.owner # NoLease /\ res'.owner = NoLease /\ MayAdvance /\ ~Usable(res'.state)

\* The steps of the two action properties.
PinStep == res.owner # NoLease /\ HasIndeterminate(res.owner) => res'.owner = res.owner

ProvenanceStep ==
  res.subject # "none" =>
    /\ res'.subject = res.subject /\ res'.owner = res.owner /\ res'.epoch = res.epoch
    /\ ~Usable(res'.state)

GoodStep == RecordsInv' /\ LeasesAdvance /\ OwnershipStep /\ PinStep /\ ProvenanceStep

\* The resource is marked, or becomes unknown; a free one may become ready.
LEMMA MarkInv ==
  ASSUME IInv, TypeOK',
         leases' = leases, generation' = generation,
         res'.owner = res.owner, res'.epoch = res.epoch, res'.subject = res.subject,
         \/ res'.state \in {res.state, "unknown"}
         \/ res'.state = "ready" /\ res.owner = NoLease
  PROVE  GoodStep
<1>1. ValidState'
  BY Fields, ConstantsAssumption DEF OwnerIsConsistent, OwnerFitsState, LeasesAreConsistent
<1>2. NoResurrection'
  BY Fields, ConstantsAssumption DEF NoResurrection, OwnerIsConsistent, OwnerFitsState, LeasesAreConsistent, Usable
<1>3. EpochsSeparateOwners'
  BY Fields, ConstantsAssumption DEF EpochsSeparateOwners, OwnerIsConsistent, LeasesAreConsistent
<1>4. ExternalLeaseIsBare' /\ MarkHasOwner'
  BY Fields, ConstantsAssumption DEF ExternalLeaseIsBare, MarkHasOwner, OwnerIsConsistent, OwnerFitsState, LeasesAreConsistent
<1>5. LeasesAdvance
  BY Fields, ConstantsAssumption DEF LeasesAdvance, LeaseAdvances, HasIndeterminate, OwnerIsConsistent
<1>6. OwnershipStep
  BY Fields, ConstantsAssumption DEF OwnershipStep, Usable, OwnerIsConsistent
<1>7. PinStep /\ ProvenanceStep
  BY Fields, ConstantsAssumption DEF PinStep, ProvenanceStep, Usable, OwnerIsConsistent, MarkHasOwner, NoResurrection, ExternalLeaseIsBare
<1>8. QED
  BY <1>1, <1>2, <1>3, <1>4, <1>5, <1>6, <1>7 DEF GoodStep

\* An owner of the automation is fenced off.
LEMMA QuarantineInv ==
  ASSUME IInv, TypeOK',
         NEW l \in Lease, NEW why, res.owner = l, leases[l].kind = "automation",
         Quarantine(l, why), generation' = generation
  PROVE  GoodStep
<1>1. ValidState'
  BY Fields, ConstantsAssumption DEF Quarantine, NoFences, NoFence, OwnerIsConsistent, OwnerFitsState, LeasesAreConsistent
<1>2. NoResurrection'
  BY Fields, ConstantsAssumption DEF Quarantine, NoFences, NoFence, NoResurrection, OwnerIsConsistent, OwnerFitsState, LeasesAreConsistent, Usable
<1>3. EpochsSeparateOwners'
  BY Fields, ConstantsAssumption DEF Quarantine, NoFences, NoFence, EpochsSeparateOwners, OwnerIsConsistent, LeasesAreConsistent
<1>4. ExternalLeaseIsBare' /\ MarkHasOwner'
  BY Fields, ConstantsAssumption DEF Quarantine, NoFences, NoFence, ExternalLeaseIsBare, MarkHasOwner, OwnerIsConsistent, OwnerFitsState, LeasesAreConsistent
<1>5. LeasesAdvance
  BY Fields, ConstantsAssumption DEF Quarantine, NoFences, NoFence, LeasesAdvance, LeaseAdvances, HasIndeterminate, OwnerIsConsistent
<1>6. OwnershipStep
  BY Fields, ConstantsAssumption DEF Quarantine, NoFences, NoFence, OwnershipStep, Usable, OwnerIsConsistent
<1>7. PinStep /\ ProvenanceStep
  BY Fields, ConstantsAssumption DEF Quarantine, NoFences, NoFence, PinStep, ProvenanceStep, Usable, OwnerIsConsistent, MarkHasOwner, NoResurrection, ExternalLeaseIsBare
<1>8. QED
  BY <1>1, <1>2, <1>3, <1>4, <1>5, <1>6, <1>7 DEF GoodStep

\* A usable owner moves to a lifecycle state, with the resource.
LEMMA LifecycleInv ==
  ASSUME IInv, TypeOK',
         NEW l \in Lease, NEW to \in Lifecycle, res.owner = l,
         leases[l].state \in {"leased", "active", to},
         res' = [res EXCEPT !.state = to, !.recon = TRUE],
         leases' = [leases EXCEPT ![l].state = to], generation' = generation
  PROVE  GoodStep
<1>1. ValidState'
  BY Fields, ConstantsAssumption DEF Lifecycle, OwnerIsConsistent, OwnerFitsState, LeasesAreConsistent
<1>2. NoResurrection'
  BY Fields, ConstantsAssumption DEF Lifecycle, NoResurrection, OwnerIsConsistent, OwnerFitsState, LeasesAreConsistent, Usable
<1>3. EpochsSeparateOwners'
  BY Fields, ConstantsAssumption DEF Lifecycle, EpochsSeparateOwners, OwnerIsConsistent, LeasesAreConsistent
<1>4. ExternalLeaseIsBare' /\ MarkHasOwner'
  BY Fields, ConstantsAssumption DEF Lifecycle, ExternalLeaseIsBare, MarkHasOwner, OwnerIsConsistent, OwnerFitsState, LeasesAreConsistent
<1>5. LeasesAdvance
  BY Fields, ConstantsAssumption DEF Lifecycle, LeasesAdvance, LeaseAdvances, HasIndeterminate, OwnerIsConsistent
<1>6. OwnershipStep
  BY Fields, ConstantsAssumption DEF Lifecycle, OwnershipStep, Usable, OwnerIsConsistent
<1>7. PinStep /\ ProvenanceStep
  BY Fields, ConstantsAssumption DEF Lifecycle, PinStep, ProvenanceStep, Usable, OwnerIsConsistent, MarkHasOwner, NoResurrection, ExternalLeaseIsBare
<1>8. QED
  BY <1>1, <1>2, <1>3, <1>4, <1>5, <1>6, <1>7 DEF GoodStep

\* A lease changes in nothing that the invariant speaks of.
LEMMA TouchInv ==
  ASSUME IInv, TypeOK',
         NEW l \in Lease, NEW n \in LeaseRecord, leases' = [leases EXCEPT ![l] = n],
         n.state = leases[l].state, n.kind = leases[l].kind, n.epoch = leases[l].epoch,
         n.generation = leases[l].generation, n.journal = leases[l].journal,
         \A f \in Fence : /\ n.fences[f].epoch = leases[l].fences[f].epoch
                          /\ leases[l].fences[f] = NoFence => n.fences[f] = NoFence,
         res'.state = res.state, res'.owner = res.owner, res'.epoch = res.epoch,
         res'.subject = res.subject, generation' = generation
  PROVE  GoodStep
<1>1. ValidState'
  BY Fields, ConstantsAssumption DEF OwnerIsConsistent, OwnerFitsState, LeasesAreConsistent
<1>2. NoResurrection'
  BY Fields, ConstantsAssumption DEF NoResurrection, OwnerIsConsistent, OwnerFitsState, LeasesAreConsistent, Usable
<1>3. EpochsSeparateOwners'
  BY Fields, ConstantsAssumption DEF EpochsSeparateOwners, OwnerIsConsistent, LeasesAreConsistent
<1>4. ExternalLeaseIsBare' /\ MarkHasOwner'
  BY Fields, ConstantsAssumption DEF ExternalLeaseIsBare, MarkHasOwner, OwnerIsConsistent, OwnerFitsState, LeasesAreConsistent
<1>5. LeasesAdvance
  BY Fields, ConstantsAssumption DEF LeasesAdvance, LeaseAdvances, HasIndeterminate, OwnerIsConsistent
<1>6. OwnershipStep
  BY Fields, ConstantsAssumption DEF OwnershipStep, Usable, OwnerIsConsistent
<1>7. PinStep /\ ProvenanceStep
  BY Fields, ConstantsAssumption DEF PinStep, ProvenanceStep, Usable, OwnerIsConsistent, MarkHasOwner, NoResurrection, ExternalLeaseIsBare
<1>8. QED
  BY <1>1, <1>2, <1>3, <1>4, <1>5, <1>6, <1>7 DEF GoodStep

\* A new owner, under a new epoch.
LEMMA AcquireInv ==
  ASSUME IInv, TypeOK',
         NEW kind \in {"automation", "external"}, NEW l \in Lease, Acquire(kind, l)
  PROVE  GoodStep
<1>1. ValidState'
  BY Fields, ConstantsAssumption DEF Acquire, Blank, NoFences, NoFence, OwnerIsConsistent, OwnerFitsState, LeasesAreConsistent
<1>2. NoResurrection'
  BY Fields, ConstantsAssumption DEF Acquire, Blank, NoFences, NoFence, NoResurrection, OwnerIsConsistent, OwnerFitsState, LeasesAreConsistent, Usable
<1>3. EpochsSeparateOwners'
  BY Fields, ConstantsAssumption DEF Acquire, Blank, NoFences, NoFence, EpochsSeparateOwners, OwnerIsConsistent, LeasesAreConsistent
<1>4. ExternalLeaseIsBare' /\ MarkHasOwner'
  BY Fields, ConstantsAssumption DEF Acquire, Blank, NoFences, NoFence, ExternalLeaseIsBare, MarkHasOwner, OwnerIsConsistent, OwnerFitsState, LeasesAreConsistent
<1>5. LeasesAdvance
  BY Fields, ConstantsAssumption DEF Acquire, Blank, NoFences, NoFence, LeasesAdvance, LeaseAdvances, HasIndeterminate, OwnerIsConsistent
<1>6. OwnershipStep
  BY Fields, ConstantsAssumption DEF Acquire, Blank, NoFences, NoFence, OwnershipStep, Usable, OwnerIsConsistent
<1>7. PinStep /\ ProvenanceStep
  BY Fields, ConstantsAssumption DEF Acquire, Blank, NoFences, NoFence, PinStep, ProvenanceStep, Usable, OwnerIsConsistent, MarkHasOwner, NoResurrection, ExternalLeaseIsBare
<1>8. QED
  BY <1>1, <1>2, <1>3, <1>4, <1>5, <1>6, <1>7 DEF GoodStep

\* The owner notes an outcome that is known.
LEMMA NoteInv ==
  ASSUME IInv, TypeOK',
         NEW l \in Lease, NEW a \in Action, NEW o \in Outcome, res.owner = l,
         leases[l].kind = "automation", o # "indeterminate",
         leases' = [leases EXCEPT ![l].journal = [leases[l].journal EXCEPT ![a] = o]],
         res' = res, generation' = generation
  PROVE  GoodStep
<1>1. ValidState'
  BY Fields, ConstantsAssumption DEF OwnerIsConsistent, OwnerFitsState, LeasesAreConsistent
<1>2. NoResurrection'
  BY Fields, ConstantsAssumption DEF NoResurrection, OwnerIsConsistent, OwnerFitsState, LeasesAreConsistent, Usable
<1>3. EpochsSeparateOwners'
  BY Fields, ConstantsAssumption DEF EpochsSeparateOwners, OwnerIsConsistent, LeasesAreConsistent
<1>4. ExternalLeaseIsBare' /\ MarkHasOwner'
  BY Fields, ConstantsAssumption DEF ExternalLeaseIsBare, MarkHasOwner, OwnerIsConsistent, OwnerFitsState, LeasesAreConsistent
<1>5. LeasesAdvance
  BY Fields, ConstantsAssumption DEF LeasesAdvance, LeaseAdvances, HasIndeterminate, OwnerIsConsistent
<1>6. OwnershipStep
  BY Fields, ConstantsAssumption DEF OwnershipStep, Usable, OwnerIsConsistent
<1>7. PinStep /\ ProvenanceStep
  BY Fields, ConstantsAssumption DEF PinStep, ProvenanceStep, Usable, OwnerIsConsistent, MarkHasOwner, NoResurrection, ExternalLeaseIsBare
<1>8. QED
  BY <1>1, <1>2, <1>3, <1>4, <1>5, <1>6, <1>7 DEF GoodStep

\* The owner notes an unknown effect and is fenced off.
LEMMA IndeterminateInv ==
  ASSUME IInv, TypeOK',
         NEW l \in Lease, NEW j, res.owner = l, leases[l].kind = "automation",
         res' = [res EXCEPT !.state = "quarantined", !.epoch = @ + 1,
                            !.recon = TRUE, !.plan = "indeterminate"],
         leases' = [leases EXCEPT ![l].journal = j, ![l].state = "quarantined",
                                  ![l].epoch = res.epoch + 1, ![l].fences = NoFences],
         generation' = generation
  PROVE  GoodStep
<1>1. ValidState'
  BY Fields, ConstantsAssumption DEF NoFences, NoFence, OwnerIsConsistent, OwnerFitsState, LeasesAreConsistent
<1>2. NoResurrection'
  BY Fields, ConstantsAssumption DEF NoFences, NoFence, NoResurrection, OwnerIsConsistent, OwnerFitsState, LeasesAreConsistent, Usable
<1>3. EpochsSeparateOwners'
  BY Fields, ConstantsAssumption DEF NoFences, NoFence, EpochsSeparateOwners, OwnerIsConsistent, LeasesAreConsistent
<1>4. ExternalLeaseIsBare' /\ MarkHasOwner'
  BY Fields, ConstantsAssumption DEF NoFences, NoFence, ExternalLeaseIsBare, MarkHasOwner, OwnerIsConsistent, OwnerFitsState, LeasesAreConsistent
<1>5. LeasesAdvance
  BY Fields, ConstantsAssumption DEF NoFences, NoFence, LeasesAdvance, LeaseAdvances, HasIndeterminate, OwnerIsConsistent
<1>6. OwnershipStep
  BY Fields, ConstantsAssumption DEF NoFences, NoFence, OwnershipStep, Usable, OwnerIsConsistent
<1>7. PinStep /\ ProvenanceStep
  BY Fields, ConstantsAssumption DEF NoFences, NoFence, PinStep, ProvenanceStep, Usable, OwnerIsConsistent, MarkHasOwner, NoResurrection, ExternalLeaseIsBare
<1>8. QED
  BY <1>1, <1>2, <1>3, <1>4, <1>5, <1>6, <1>7 DEF GoodStep

\* The owner gives the resource up.
LEMMA ReleaseInv ==
  ASSUME IInv, TypeOK',
         NEW l \in Lease, res.owner = l, leases[l].kind = "automation", ~HasIndeterminate(l),
         res' = [res EXCEPT !.state = "cooldown", !.owner = NoLease,
                            !.cooling = TRUE, !.recon = TRUE],
         leases' = [leases EXCEPT ![l].state = "cooldown"], generation' = generation
  PROVE  GoodStep
<1>1. ValidState'
  BY Fields, ConstantsAssumption DEF OwnerIsConsistent, OwnerFitsState, LeasesAreConsistent
<1>2. NoResurrection'
  BY Fields, ConstantsAssumption DEF NoResurrection, OwnerIsConsistent, OwnerFitsState, LeasesAreConsistent, Usable
<1>3. EpochsSeparateOwners'
  BY Fields, ConstantsAssumption DEF EpochsSeparateOwners, OwnerIsConsistent, LeasesAreConsistent
<1>4. ExternalLeaseIsBare' /\ MarkHasOwner'
  BY Fields, ConstantsAssumption DEF ExternalLeaseIsBare, MarkHasOwner, OwnerIsConsistent, OwnerFitsState, LeasesAreConsistent
<1>5. LeasesAdvance
  BY Fields, ConstantsAssumption DEF LeasesAdvance, LeaseAdvances, HasIndeterminate, OwnerIsConsistent
<1>6. OwnershipStep
  BY Fields, ConstantsAssumption DEF OwnershipStep, Usable, OwnerIsConsistent
<1>7. PinStep /\ ProvenanceStep
  BY Fields, ConstantsAssumption DEF PinStep, ProvenanceStep, Usable, OwnerIsConsistent, MarkHasOwner, NoResurrection, ExternalLeaseIsBare
<1>8. QED
  BY <1>1, <1>2, <1>3, <1>4, <1>5, <1>6, <1>7 DEF GoodStep

\* The resource is taken from its owner, under a new epoch.
LEMMA RecoverInv ==
  ASSUME IInv, TypeOK',
         NEW l \in Lease, res.owner = l, leases[l].kind = "automation", ~HasIndeterminate(l),
         res' = [res EXCEPT !.state = "ready", !.epoch = @ + 1, !.owner = NoLease,
                            !.recon = FALSE],
         leases' = [leases EXCEPT ![l].state = "cooldown", ![l].epoch = res.epoch + 1,
                                  ![l].fences = NoFences],
         generation' = generation
  PROVE  GoodStep
<1>1. ValidState'
  BY Fields, ConstantsAssumption DEF NoFences, NoFence, OwnerIsConsistent, OwnerFitsState, LeasesAreConsistent
<1>2. NoResurrection'
  BY Fields, ConstantsAssumption DEF NoFences, NoFence, NoResurrection, OwnerIsConsistent, OwnerFitsState, LeasesAreConsistent, Usable
<1>3. EpochsSeparateOwners'
  BY Fields, ConstantsAssumption DEF NoFences, NoFence, EpochsSeparateOwners, OwnerIsConsistent, LeasesAreConsistent
<1>4. ExternalLeaseIsBare' /\ MarkHasOwner'
  BY Fields, ConstantsAssumption DEF NoFences, NoFence, ExternalLeaseIsBare, MarkHasOwner, OwnerIsConsistent, OwnerFitsState, LeasesAreConsistent
<1>5. LeasesAdvance
  BY Fields, ConstantsAssumption DEF NoFences, NoFence, LeasesAdvance, LeaseAdvances, HasIndeterminate, OwnerIsConsistent
<1>6. OwnershipStep
  BY Fields, ConstantsAssumption DEF NoFences, NoFence, OwnershipStep, Usable, OwnerIsConsistent
<1>7. PinStep /\ ProvenanceStep
  BY Fields, ConstantsAssumption DEF NoFences, NoFence, PinStep, ProvenanceStep, Usable, OwnerIsConsistent, MarkHasOwner, NoResurrection, ExternalLeaseIsBare
<1>8. QED
  BY <1>1, <1>2, <1>3, <1>4, <1>5, <1>6, <1>7 DEF GoodStep

\* An active owner is issued a fence under the epoch of its lease.
LEMMA CreateFenceInv ==
  ASSUME IInv, TypeOK',
         NEW l \in Lease, NEW n \in LeaseRecord, res.owner = l, Usable(res.state),
         leases' = [leases EXCEPT ![l] = n],
         n.state = "active", n.kind = leases[l].kind, n.epoch = leases[l].epoch,
         n.generation = leases[l].generation, n.journal = leases[l].journal,
         \A g \in Fence : \/ n.fences[g] = leases[l].fences[g]
                          \/ n.fences[g].epoch = leases[l].epoch,
         res'.state = "active", res'.owner = res.owner, res'.epoch = res.epoch,
         res'.subject = res.subject, generation' = generation
  PROVE  GoodStep
<1>1. leases[l].kind = "automation"
  BY Fields, ConstantsAssumption DEF NoResurrection
<1>2. ValidState'
  BY <1>1, Fields, ConstantsAssumption DEF Usable, OwnerIsConsistent, OwnerFitsState, LeasesAreConsistent
<1>3. NoResurrection'
  BY <1>1, Fields, ConstantsAssumption DEF Usable, NoResurrection, OwnerIsConsistent, OwnerFitsState, LeasesAreConsistent, Usable
<1>4. EpochsSeparateOwners'
  BY <1>1, Fields, ConstantsAssumption DEF Usable, EpochsSeparateOwners, OwnerIsConsistent, LeasesAreConsistent
<1>5. ExternalLeaseIsBare' /\ MarkHasOwner'
  BY <1>1, Fields, ConstantsAssumption DEF Usable, ExternalLeaseIsBare, MarkHasOwner, OwnerIsConsistent, OwnerFitsState, LeasesAreConsistent
<1>6. LeasesAdvance
  BY <1>1, Fields, ConstantsAssumption DEF Usable, LeasesAdvance, LeaseAdvances, HasIndeterminate, OwnerIsConsistent
<1>7. OwnershipStep
  BY <1>1, Fields, ConstantsAssumption DEF Usable, OwnershipStep, Usable, OwnerIsConsistent
<1>8. PinStep /\ ProvenanceStep
  BY <1>1, Fields, ConstantsAssumption DEF Usable, PinStep, ProvenanceStep, Usable, OwnerIsConsistent, MarkHasOwner, NoResurrection, ExternalLeaseIsBare
<1>9. QED
  BY <1>2, <1>3, <1>4, <1>5, <1>6, <1>7, <1>8 DEF GoodStep

\* Somebody outside becomes the owner of a free resource.
LEMMA MintInv ==
  ASSUME IInv, TypeOK',
         NEW l \in Lease, ~Issued(l), res.owner = NoLease, generation' = generation,
         MintExternal([res EXCEPT !.state = "external_use", !.recon = TRUE], l)
  PROVE  GoodStep
<1>1. ValidState'
  BY Fields, ConstantsAssumption DEF MintExternal, Blank, NoFences, NoFence, OwnerIsConsistent, OwnerFitsState, LeasesAreConsistent
<1>2. NoResurrection'
  BY Fields, ConstantsAssumption DEF MintExternal, Blank, NoFences, NoFence, NoResurrection, OwnerIsConsistent, OwnerFitsState, LeasesAreConsistent, Usable
<1>3. EpochsSeparateOwners'
  BY Fields, ConstantsAssumption DEF MintExternal, Blank, NoFences, NoFence, EpochsSeparateOwners, OwnerIsConsistent, LeasesAreConsistent
<1>4. ExternalLeaseIsBare' /\ MarkHasOwner'
  BY Fields, ConstantsAssumption DEF MintExternal, Blank, NoFences, NoFence, ExternalLeaseIsBare, MarkHasOwner, OwnerIsConsistent, OwnerFitsState, LeasesAreConsistent
<1>5. LeasesAdvance
  BY Fields, ConstantsAssumption DEF MintExternal, Blank, NoFences, NoFence, LeasesAdvance, LeaseAdvances, HasIndeterminate, OwnerIsConsistent
<1>6. OwnershipStep
  BY Fields, ConstantsAssumption DEF MintExternal, Blank, NoFences, NoFence, OwnershipStep, Usable, OwnerIsConsistent
<1>7. PinStep /\ ProvenanceStep
  BY Fields, ConstantsAssumption DEF MintExternal, Blank, NoFences, NoFence, PinStep, ProvenanceStep, Usable, OwnerIsConsistent, MarkHasOwner, NoResurrection, ExternalLeaseIsBare
<1>8. QED
  BY <1>1, <1>2, <1>3, <1>4, <1>5, <1>6, <1>7 DEF GoodStep

\* An owned resource passes into external use, the owner staying in place.
LEMMA HeldInv ==
  ASSUME IInv, TypeOK',
         res.owner # NoLease, leases' = leases, generation' = generation,
         res'.state = "external_use", res'.owner = res.owner, res'.epoch = res.epoch,
         res'.subject = res.subject
  PROVE  GoodStep
<1>1. ValidState'
  BY Fields, ConstantsAssumption DEF OwnerIsConsistent, OwnerFitsState, LeasesAreConsistent
<1>2. NoResurrection'
  BY Fields, ConstantsAssumption DEF NoResurrection, OwnerIsConsistent, OwnerFitsState, LeasesAreConsistent, Usable
<1>3. EpochsSeparateOwners'
  BY Fields, ConstantsAssumption DEF EpochsSeparateOwners, OwnerIsConsistent, LeasesAreConsistent
<1>4. ExternalLeaseIsBare' /\ MarkHasOwner'
  BY Fields, ConstantsAssumption DEF ExternalLeaseIsBare, MarkHasOwner, OwnerIsConsistent, OwnerFitsState, LeasesAreConsistent
<1>5. LeasesAdvance
  BY Fields, ConstantsAssumption DEF LeasesAdvance, LeaseAdvances, HasIndeterminate, OwnerIsConsistent
<1>6. OwnershipStep
  BY Fields, ConstantsAssumption DEF OwnershipStep, Usable, OwnerIsConsistent
<1>7. PinStep /\ ProvenanceStep
  BY Fields, ConstantsAssumption DEF PinStep, ProvenanceStep, Usable, OwnerIsConsistent, MarkHasOwner, NoResurrection, ExternalLeaseIsBare
<1>8. QED
  BY <1>1, <1>2, <1>3, <1>4, <1>5, <1>6, <1>7 DEF GoodStep

\* A new process: nobody has authority.
LEMMA HostRestartInv ==
  ASSUME IInv, TypeOK',
         HostRestart
  PROVE  GoodStep
<1>1. ValidState'
  BY Fields, ConstantsAssumption DEF HostRestart, OwnerIsConsistent, OwnerFitsState, LeasesAreConsistent
<1>2. NoResurrection'
  BY Fields, ConstantsAssumption DEF HostRestart, NoResurrection, OwnerIsConsistent, OwnerFitsState, LeasesAreConsistent, Usable
<1>3. EpochsSeparateOwners'
  BY Fields, ConstantsAssumption DEF HostRestart, EpochsSeparateOwners, OwnerIsConsistent, LeasesAreConsistent
<1>4. ExternalLeaseIsBare' /\ MarkHasOwner'
  BY Fields, ConstantsAssumption DEF HostRestart, ExternalLeaseIsBare, MarkHasOwner, OwnerIsConsistent, OwnerFitsState, LeasesAreConsistent
<1>5. LeasesAdvance
  BY Fields, ConstantsAssumption DEF HostRestart, LeasesAdvance, LeaseAdvances, HasIndeterminate, OwnerIsConsistent
<1>6. OwnershipStep
  BY Fields, ConstantsAssumption DEF HostRestart, OwnershipStep, Usable, OwnerIsConsistent
<1>7. PinStep /\ ProvenanceStep
  BY Fields, ConstantsAssumption DEF HostRestart, PinStep, ProvenanceStep, Usable, OwnerIsConsistent, MarkHasOwner, NoResurrection, ExternalLeaseIsBare
<1>8. QED
  BY <1>1, <1>2, <1>3, <1>4, <1>5, <1>6, <1>7 DEF GoodStep

----------------------------------------------------------------------------
(* Every action is one of these shapes *)

\* An owner that external use does not bar is a lease of the automation.
LEMMA NotExternal ==
  ASSUME IInv, NEW l \in Lease, res.owner = l, ~ExternallyHeld(l)
  PROVE  leases[l].kind = "automation"
  BY Fields, ConstantsAssumption DEF OwnerIsConsistent, ExternallyHeld

LEMMA ToExternalUseGood ==
  ASSUME IInv, TypeOK', ToExternalUse, generation' = generation
  PROVE  GoodStep
<1> DEFINE r == [res EXCEPT !.state = "external_use", !.recon = TRUE]
<1>1. PrepareExternalRecovery(r) /\ r.owner = res.owner /\ r.subject = res.subject
      /\ r.epoch = res.epoch /\ r.state = "external_use"
  BY Fields DEF ToExternalUse
<1>2. ASSUME NEW l \in Lease, r.owner = NoLease, ~Issued(l), MintExternal(r, l)
      PROVE  GoodStep
  BY <1>1, <1>2, MintInv
<1> HIDE DEF r
<1>3. CASE r.owner # NoLease /\ leases[r.owner].kind = "automation"
  <2>1. CASE leases' = leases /\ res' = [r EXCEPT !.plan = "external"]
    <3>1. /\ res'.state = "external_use" /\ res'.owner = res.owner
          /\ res'.epoch = res.epoch /\ res'.subject = res.subject
      BY <1>1, <2>1, Fields DEF r
    <3>2. QED
      BY <1>1, <1>3, <2>1, <3>1, HeldInv
  <2>2. QED
    BY <1>1, <1>2, <1>3, <2>1, Zenon DEF PrepareExternalRecovery
<1>4. CASE r.owner # NoLease /\ leases[r.owner].kind = "external"
  <2>1. res.subject # "none"
    BY <1>1, <1>4, Fields, ConstantsAssumption DEF OwnerIsConsistent
  <2>2. CASE leases' = leases
             /\ res' = [r EXCEPT !.plan = "external",
                                 !.subject = IF r.subject = "none" THEN "registered"
                                             ELSE r.subject]
    <3>1. /\ res'.state = "external_use" /\ res'.owner = res.owner
          /\ res'.epoch = res.epoch /\ res'.subject = res.subject
      BY <1>1, <2>1, <2>2, Fields DEF r
    <3>2. QED
      BY <1>1, <1>4, <2>2, <3>1, HeldInv
  <2>3. QED
    BY <1>1, <1>2, <1>4, <2>2, Zenon DEF PrepareExternalRecovery
<1>5. QED
  BY <1>1, <1>2, <1>3, <1>4, Zenon DEF PrepareExternalRecovery

LEMMA ReconcileGood ==
  ASSUME IInv, TypeOK', NEW live \in Liveness, Reconcile(live)
  PROVE  GoodStep
<1>1. generation' = generation
  BY DEF Reconcile
<1>2. CASE ToExternalUse
  BY <1>1, <1>2, ToExternalUseGood
<1>3. CASE leases' = leases /\ res' = [res EXCEPT !.recon = TRUE]
  BY <1>1, <1>3, MarkInv, Fields
<1>4. CASE ReconcileUnhealthy(live)
  <2>1. CASE res.owner # NoLease /\ Quarantine(res.owner, "unsafe")
    <3>1. res.owner \in Lease /\ leases[res.owner].kind = "automation"
      BY <1>4, <2>1, Fields, ConstantsAssumption DEF ReconcileUnhealthy, OwnerIsConsistent
    <3>2. QED
      BY <1>1, <2>1, <3>1, QuarantineInv
  <2>2. CASE /\ leases' = leases
             /\ res' = [res EXCEPT !.recon = TRUE,
                                   !.state = IF @ = "quarantined" THEN @ ELSE "unknown"]
    BY <1>1, <2>2, MarkInv, Fields
  <2>3. QED
    BY <1>4, <2>1, <2>2, Zenon DEF ReconcileUnhealthy
<1>5. CASE ReconcileFree(live)
  <2>1. CASE res' = [res EXCEPT !.recon = FALSE,
                                !.state = IF @ \in {"cooldown", "unknown"} THEN "ready" ELSE @]
    BY <1>1, <1>5, <2>1, MarkInv, Fields DEF ReconcileFree
  <2>2. QED
    BY <1>3, <1>5, <2>1, Zenon DEF ReconcileFree
<1>6. QED
  BY <1>2, <1>3, <1>4, <1>5, Zenon
     DEF Reconcile, ReconcileExternal, ReconcileExternalUse, ReconcileOwned

LEMMA AcquireDeniedGood ==
  ASSUME IInv, TypeOK', NEW external \in BOOLEAN, AcquireDenied(external)
  PROVE  GoodStep
<1>1. generation' = generation
  BY DEF AcquireDenied
<1>2. CASE ToExternalUse
  BY <1>1, <1>2, ToExternalUseGood
<1>3. CASE leases' = leases /\ \/ res' = [res EXCEPT !.recon = TRUE]
                               \/ res' = [res EXCEPT !.state = "unknown", !.recon = TRUE]
  BY <1>1, <1>3, MarkInv, Fields
<1>4. QED
  BY <1>2, <1>3, Zenon DEF AcquireDenied

LEMMA TickGood ==
  ASSUME IInv, TypeOK', Tick
  PROVE  GoodStep
<1>1. /\ res'.state = res.state /\ res'.owner = res.owner /\ res'.epoch = res.epoch
      /\ res'.subject = res.subject /\ generation' = generation
  BY Fields DEF Tick
<1>2. CASE res.owner = NoLease
  BY <1>1, <1>2, MarkInv DEF Tick
<1>3. CASE res.owner # NoLease
  <2> DEFINE l == res.owner
             older == FencesElapse(leases[l].fences)
             n == [leases[l] EXCEPT !.ttl = Elapse(leases[l].ttl), !.fences = older]
  <2>1. l \in Lease /\ leases[l] \in LeaseRecord
    BY <1>3, Fields
  <2>2. leases' = [leases EXCEPT ![l] = n]
    BY <1>3, Zenon DEF Tick
  <2>3. n = leases'[l] /\ n \in LeaseRecord
    BY <2>1, <2>2, Zenon DEF TypeOK
  <2>4. ASSUME NEW f \in Fence
        PROVE  /\ older[f].epoch = leases[l].fences[f].epoch
               /\ leases[l].fences[f] = NoFence => older[f] = NoFence
    <3>1. leases[l].fences[f] \in FenceRecord
      BY <2>1, LeaseFields
    <3>2. older[f] = [leases[l].fences[f] EXCEPT !.ttl = Elapse(leases[l].fences[f].ttl)]
      BY Zenon DEF FencesElapse
    <3>3. older[f].epoch = leases[l].fences[f].epoch
      BY <3>1, <3>2 DEF FenceRecord
    <3>4. [NoFence EXCEPT !.ttl = Elapse(NoFence.ttl)] = NoFence
      BY DEF NoFence, Elapse
    <3>5. QED
      BY <3>2, <3>3, <3>4, Zenon
  <2>5. /\ n.state = leases[l].state /\ n.kind = leases[l].kind /\ n.epoch = leases[l].epoch
        /\ n.generation = leases[l].generation /\ n.journal = leases[l].journal
        /\ n.fences = older
    BY <2>1, Zenon DEF LeaseRecord
  <2> HIDE DEF l, older, n
  <2>6. \A f \in Fence : /\ n.fences[f].epoch = leases[l].fences[f].epoch
                         /\ leases[l].fences[f] = NoFence => n.fences[f] = NoFence
    BY <2>4, <2>5
  <2>7. QED
    BY <1>1, <2>1, <2>2, <2>3, <2>5, <2>6, TouchInv
<1>4. QED
  BY <1>2, <1>3

LEMMA BarrierGood ==
  ASSUME IInv, TypeOK', NEW l \in Lease, Barrier(l)
  PROVE  GoodStep
<1>1. res.owner = l /\ generation' = generation
  BY DEF Barrier
<1>2. CASE ~ExternallyHeld(l) /\ Quarantine(l, "barrier")
  BY <1>1, <1>2, NotExternal, QuarantineInv
<1>3. CASE leases' = leases /\ res' = [res EXCEPT !.recon = TRUE]
  BY <1>1, <1>3, MarkInv, Fields
<1>4. QED
  BY <1>2, <1>3, Zenon DEF Barrier

----------------------------------------------------------------------------
(* The calls *)

\* What a commit knows of its lease beyond what it checks itself.
LEMMA CommitFacts ==
  ASSUME IInv, NEW c \in Caller, calls[c].op # "idle"
  PROVE  /\ calls[c] \in Call /\ calls[c].lease \in Lease /\ Rooted(calls[c])
         /\ leases[calls[c].lease] \in LeaseRecord
         /\ calls[c].op \in {"release", "recover", "recordAction"}
              => leases[calls[c].lease].kind = "automation"
<1>1. calls[c] \in Call /\ Rooted(calls[c])
  BY Zenon DEF TypeOK, CallsAreRooted
<1>2. calls[c].lease \in Lease
  BY <1>1, CallFields
<1>3. QED
  BY <1>1, <1>2, LeaseFields, Zenon DEF Rooted

LEMMA OpenTabCommitGood ==
  ASSUME IInv, TypeOK', NEW c \in Caller, OpenTabCommit(c)
  PROVE  GoodStep
<1> DEFINE l == calls[c].lease
           n == [leases[l] EXCEPT !.tabs = leases[l].tabs + 1]
<1>1. l \in Lease /\ leases[l] \in LeaseRecord
  BY CommitFacts DEF OpenTabCommit
<1>2. leases' = [leases EXCEPT ![l] = n] /\ res' = res /\ generation' = generation
  BY Zenon DEF OpenTabCommit, Finish
<1> HIDE DEF l
<1>3. n \in LeaseRecord
  BY <1>1, <1>2, Zenon DEF TypeOK
<1>4. /\ n.state = leases[l].state /\ n.kind = leases[l].kind /\ n.epoch = leases[l].epoch
      /\ n.generation = leases[l].generation /\ n.journal = leases[l].journal
      /\ n.fences = leases[l].fences
  BY <1>1, Zenon DEF LeaseRecord
<1> HIDE DEF n
<1>5. \A f \in Fence : /\ n.fences[f].epoch = leases[l].fences[f].epoch
                       /\ leases[l].fences[f] = NoFence => n.fences[f] = NoFence
  BY <1>4
<1>6. QED
  BY <1>1, <1>2, <1>3, <1>4, <1>5, TouchInv

LEMMA HeartbeatCommitGood ==
  ASSUME IInv, TypeOK', NEW c \in Caller, HeartbeatCommit(c)
  PROVE  GoodStep
<1> DEFINE l == calls[c].lease
           n == [leases[l] EXCEPT !.ttl = LeaseTtl]
<1>1. l \in Lease /\ leases[l] \in LeaseRecord
  BY CommitFacts DEF HeartbeatCommit
<1>2. leases' = [leases EXCEPT ![l] = n] /\ res' = res /\ generation' = generation
  BY Zenon DEF HeartbeatCommit, Finish
<1> HIDE DEF l
<1>3. n \in LeaseRecord
  BY <1>1, <1>2, Zenon DEF TypeOK
<1>4. /\ n.state = leases[l].state /\ n.kind = leases[l].kind /\ n.epoch = leases[l].epoch
      /\ n.generation = leases[l].generation /\ n.journal = leases[l].journal
      /\ n.fences = leases[l].fences
  BY <1>1, Zenon DEF LeaseRecord
<1> HIDE DEF n
<1>5. \A f \in Fence : /\ n.fences[f].epoch = leases[l].fences[f].epoch
                       /\ leases[l].fences[f] = NoFence => n.fences[f] = NoFence
  BY <1>4
<1>6. QED
  BY <1>1, <1>2, <1>3, <1>4, <1>5, TouchInv

LEMMA AuthorizeFenceCommitGood ==
  ASSUME IInv, TypeOK', NEW c \in Caller, AuthorizeFenceCommit(c)
  PROVE  GoodStep
<1> DEFINE l == calls[c].lease
           f == calls[c].fence
           used == [leases[l].fences EXCEPT ![f].uses = @ + 1]
           n == [leases[l] EXCEPT !.fences = used]
<1>1. l \in Lease /\ leases[l] \in LeaseRecord /\ f \in Fence
      /\ leases[l].fences \in [Fence -> FenceRecord] /\ leases[l].fences[f] # NoFence
  BY CommitFacts, CallFields, LeaseFields DEF AuthorizeFenceCommit, FenceCurrent
<1>2. leases' = [leases EXCEPT ![l] = n] /\ res' = res /\ generation' = generation
  BY Zenon DEF AuthorizeFenceCommit, Finish
<1> HIDE DEF l, f
<1>3. n \in LeaseRecord
  BY <1>1, <1>2, Zenon DEF TypeOK
<1>4. /\ n.state = leases[l].state /\ n.kind = leases[l].kind /\ n.epoch = leases[l].epoch
      /\ n.generation = leases[l].generation /\ n.journal = leases[l].journal
      /\ n.fences = used
  BY <1>1, Zenon DEF LeaseRecord
<1>5. \A g \in Fence : /\ used[g].epoch = leases[l].fences[g].epoch
                       /\ leases[l].fences[g] = NoFence => used[g] = NoFence
  BY <1>1 DEF FenceRecord
<1> HIDE DEF n, used
<1>6. \A g \in Fence : /\ n.fences[g].epoch = leases[l].fences[g].epoch
                       /\ leases[l].fences[g] = NoFence => n.fences[g] = NoFence
  BY <1>4, <1>5
<1>7. QED
  BY <1>1, <1>2, <1>3, <1>4, <1>6, TouchInv

LEMMA CreateFenceCommitGood ==
  ASSUME IInv, TypeOK', NEW c \in Caller, NEW f \in Fence, CreateFenceCommit(c, f)
  PROVE  GoodStep
<1> DEFINE l == calls[c].lease
           s == IF leases[l].state = "leased" THEN "active" ELSE leases[l].state
           issued == [leases[l].fences EXCEPT
                        ![f] = [epoch |-> leases[l].epoch, uses |-> 0, ttl |-> FenceTtl]]
           n == [leases[l] EXCEPT !.state = s, !.issued = leases[l].issued + 1,
                                  !.fences = issued]
<1>1. l \in Lease /\ leases[l] \in LeaseRecord
  BY CommitFacts DEF CreateFenceCommit
<1>2. leases' = [leases EXCEPT ![l] = n] /\ generation' = generation
  BY Zenon DEF CreateFenceCommit, Finish
<1>3. /\ res.owner = l /\ Usable(res.state)
      /\ res' = [res EXCEPT !.state = IF leases[l].state = "leased" THEN "active" ELSE @]
  BY Zenon DEF CreateFenceCommit, Facts
<1> HIDE DEF l
<1>4. s = "active"
  BY <1>1, <1>3, Fields DEF NoResurrection, Usable
<1>5. /\ res'.state = "active" /\ res'.owner = res.owner /\ res'.epoch = res.epoch
      /\ res'.subject = res.subject
  BY <1>1, <1>3, Fields DEF NoResurrection, Usable
<1>6. leases[l].fences \in [Fence -> FenceRecord]
  BY <1>1, Zenon
<1>7. \A g \in Fence : issued[g] = leases[l].fences[g] \/ issued[g].epoch = leases[l].epoch
  BY <1>6, Zenon
<1> HIDE DEF s, issued
<1>8. n \in LeaseRecord
  BY <1>1, <1>2, Zenon DEF TypeOK
<1>9. /\ n.state = "active" /\ n.kind = leases[l].kind /\ n.epoch = leases[l].epoch
      /\ n.generation = leases[l].generation /\ n.journal = leases[l].journal
      /\ n.fences = issued
  BY <1>1, <1>4, Zenon DEF LeaseRecord
<1> HIDE DEF n
<1>10. \A g \in Fence : n.fences[g] = leases[l].fences[g] \/ n.fences[g].epoch = leases[l].epoch
  BY <1>7, <1>9
<1>11. QED
  BY <1>1, <1>2, <1>3, <1>5, <1>8, <1>9, <1>10, CreateFenceInv

LEMMA ReleaseCommitGood ==
  ASSUME IInv, TypeOK', NEW c \in Caller, ReleaseCommit(c)
  PROVE  GoodStep
<1> DEFINE l == calls[c].lease
<1>1. l \in Lease /\ leases[l].kind = "automation" /\ res.owner = l
  BY CommitFacts DEF ReleaseCommit, Facts
<1>2. ~HasIndeterminate(l)
  BY CommitFacts, Zenon DEF ReleaseCommit, Rooted
<1>3. /\ res' = [res EXCEPT !.state = "cooldown", !.owner = NoLease,
                            !.cooling = TRUE, !.recon = TRUE]
      /\ leases' = [leases EXCEPT ![l].state = "cooldown"] /\ generation' = generation
  BY Zenon DEF ReleaseCommit, Finish
<1> HIDE DEF l
<1>4. QED
  BY <1>1, <1>2, <1>3, ReleaseInv

LEMMA RecoverCommitGood ==
  ASSUME IInv, TypeOK', NEW c \in Caller, RecoverCommit(c)
  PROVE  GoodStep
<1> DEFINE l == calls[c].lease
<1>1. l \in Lease /\ leases[l].kind = "automation" /\ res.owner = l /\ ~HasIndeterminate(l)
  BY CommitFacts DEF RecoverCommit
<1>2. /\ res' = [res EXCEPT !.state = "ready", !.epoch = @ + 1, !.owner = NoLease,
                            !.recon = FALSE]
      /\ leases' = [leases EXCEPT ![l].state = "cooldown", ![l].epoch = res.epoch + 1,
                                  ![l].fences = NoFences]
      /\ generation' = generation
  BY Zenon DEF RecoverCommit, Finish
<1> HIDE DEF l
<1>3. QED
  BY <1>1, <1>2, RecoverInv

LEMMA RecordActionCommitGood ==
  ASSUME IInv, TypeOK', NEW c \in Caller, RecordActionCommit(c)
  PROVE  GoodStep
<1> DEFINE l == calls[c].lease
           a == calls[c].action
           o == calls[c].outcome
           noted == [leases[l].journal EXCEPT ![a] = o]
<1>1. l \in Lease /\ a \in Action /\ o \in Outcome /\ leases[l].kind = "automation"
  BY CommitFacts, CallFields DEF RecordActionCommit
<1>2. res.owner = l /\ generation' = generation
  BY Zenon DEF RecordActionCommit, Facts, Finish
<1>3. \/ /\ o # "indeterminate" /\ res' = res
         /\ leases' = [leases EXCEPT ![l].journal = noted]
      \/ /\ res' = [res EXCEPT !.state = "quarantined", !.epoch = @ + 1,
                               !.recon = TRUE, !.plan = "indeterminate"]
         /\ leases' = [leases EXCEPT ![l].journal = noted, ![l].state = "quarantined",
                                     ![l].epoch = res.epoch + 1, ![l].fences = NoFences]
  BY Zenon DEF RecordActionCommit
<1> HIDE DEF l, a, o
<1>4. QED
  BY <1>1, <1>2, <1>3, NoteInv, IndeterminateInv

LEMMA TransitionCommitGood ==
  ASSUME IInv, TypeOK', NEW c \in Caller, TransitionCommit(c)
  PROVE  GoodStep
<1> DEFINE l == calls[c].lease
           to == calls[c].to
<1>1. l \in Lease /\ to \in Lifecycle
  BY CommitFacts, CallFields DEF TransitionCommit
<1>2. /\ res.owner = l /\ leases[l].state \in {"leased", "active", to}
      /\ res' = [res EXCEPT !.state = to, !.recon = TRUE]
      /\ leases' = [leases EXCEPT ![l].state = to] /\ generation' = generation
  BY Zenon DEF TransitionCommit, Facts, Usable, Finish
<1> HIDE DEF l, to
<1>3. QED
  BY <1>1, <1>2, LifecycleInv

\* Every step is one of the shapes above.
LEMMA NextGood ==
  ASSUME IInv, TypeOK', Next
  PROVE  GoodStep
<1>1. CASE DetectExternalUse
  BY <1>1, ToExternalUseGood DEF DetectExternalUse
<1>2. ASSUME NEW l \in Lease, HeartbeatExpired(l) PROVE GoodStep
  BY <1>2, MarkInv, Fields DEF HeartbeatExpired
<1>3. ASSUME NEW l \in Lease, NEW to \in Lifecycle, LifecycleGate(l, to) PROVE GoodStep
  BY <1>3, LifecycleInv DEF LifecycleGate
<1>4. ASSUME leases' = leases, res' = res, generation' = generation PROVE GoodStep
  BY <1>4, MarkInv
<1>5. ASSUME NEW c \in Caller, NEW l \in Lease, CallBegin(c, l) PROVE GoodStep
  BY <1>4, <1>5 DEF CallBegin, OpenTabBegin, HeartbeatBegin, ReleaseBegin, CreateFenceBegin,
                    RecoverBegin, AuthorizeFenceBegin, RecordActionBegin, TransitionBegin, Begin
<1>6. ASSUME NEW c \in Caller, CallStep(c) PROVE GoodStep
  BY <1>4, <1>6, OpenTabCommitGood, HeartbeatCommitGood, AuthorizeFenceCommitGood,
     CreateFenceCommitGood, ReleaseCommitGood, RecoverCommitGood, RecordActionCommitGood,
     TransitionCommitGood DEF CallStep, Refuse, Finish
<1>7. QED
  BY <1>1, <1>2, <1>3, <1>5, <1>6, ReconcileGood, AcquireInv, AcquireDeniedGood, BarrierGood,
     TickGood, HostRestartInv DEF Next

----------------------------------------------------------------------------
(* The inductive invariant holds *)

\* Starting a rooted call.
LEMMA BeginRooted ==
  ASSUME IInv, NEW c \in Caller, NEW k \in Call, Begin(c, k), Rooted(k)
  PROVE  CallsAreRooted'
<1> SUFFICES ASSUME NEW d \in Caller, calls'[d].op # "idle"
             PROVE  Rooted(calls[d])'
  BY Zenon DEF CallsAreRooted
<1>1. Rooted(calls'[d])
  BY DEF Begin, TypeOK, CallsAreRooted
<1>2. QED
  BY <1>1, Zenon DEF Begin, Rooted, Facts, HasIndeterminate

\* Every call that starts is rooted: the caller's lease is the owner, and the
\* calls that act on its behalf later are refused to an external owner.
LEMMA CallBeginRooted ==
  ASSUME IInv, NEW c \in Caller, NEW l \in Lease, CallBegin(c, l)
  PROVE  CallsAreRooted'
<1> DEFINE e == leases[l].epoch
<1>1. e \in Nat /\ e <= e /\ leases[l] \in LeaseRecord
  BY Fields
<1>2. res.owner = l => Issued(l) /\ res.epoch = e
  BY ConstantsAssumption DEF OwnerIsConsistent
<1> HIDE DEF e
<1>3. ASSUME NEW op \in {"openTab", "heartbeat", "createFence"}, res.owner = l,
             Begin(c, [op |-> op, lease |-> l, epoch |-> e])
      PROVE  CallsAreRooted'
  <2>1. [op |-> op, lease |-> l, epoch |-> e] \in Call
    BY <1>1, Zenon DEF Call
  <2>2. Rooted([op |-> op, lease |-> l, epoch |-> e])
    BY <1>1, <1>2, <1>3 DEF Rooted, e
  <2>3. QED
    BY <1>3, <2>1, <2>2, BeginRooted
<1>4. CASE OpenTabBegin(c, l)
  BY <1>3, <1>4 DEF OpenTabBegin, e
<1>5. CASE HeartbeatBegin(c, l)
  BY <1>3, <1>5 DEF HeartbeatBegin, e
<1>6. CASE CreateFenceBegin(c, l)
  BY <1>3, <1>6 DEF CreateFenceBegin, e
<1>7. CASE ReleaseBegin(c, l)
  <2> DEFINE k == [op |-> "release", lease |-> l, epoch |-> e, unresolved |-> HasUnresolved(l)]
  <2>1. k \in Call
    BY <1>1, Zenon DEF Call, HasUnresolved
  <2>2. leases[l].kind = "automation" /\ res.owner = l
    BY <1>7, NotExternal DEF ReleaseBegin
  <2>3. HasUnresolved(l) \/ ~HasIndeterminate(l)
    BY Zenon DEF HasUnresolved, HasIndeterminate, Unresolved
  <2>4. Rooted(k)
    BY <1>1, <1>2, <2>2, <2>3 DEF Rooted, e
  <2>5. Begin(c, k)
    BY <1>7 DEF ReleaseBegin, e
  <2> HIDE DEF k
  <2>6. QED
    BY <2>1, <2>4, <2>5, BeginRooted
<1>8. CASE RecoverBegin(c, l)
  <2> DEFINE k == [op |-> "recover", lease |-> l, epoch |-> res.epoch, state |-> res.state,
                   plan |-> res.plan]
  <2>1. k \in Call
    BY Fields, Zenon DEF Call
  <2>2. leases[l].kind = "automation" /\ res.owner = l
    BY <1>8, NotExternal DEF RecoverBegin
  <2>3. Rooted(k)
    BY <1>1, <1>2, <2>2 DEF Rooted, e
  <2>4. Begin(c, k)
    BY <1>8 DEF RecoverBegin
  <2> HIDE DEF k
  <2>5. QED
    BY <2>1, <2>3, <2>4, BeginRooted
<1>9. ASSUME NEW f \in Fence, AuthorizeFenceBegin(c, l, f) PROVE CallsAreRooted'
  <2> DEFINE k == [op |-> "authorizeFence", lease |-> l, epoch |-> e, fence |-> f]
  <2>1. k \in Call
    BY <1>1, Zenon DEF Call
  <2>2. Rooted(k) /\ Begin(c, k)
    BY <1>1, <1>2, <1>9 DEF AuthorizeFenceBegin, Rooted, e
  <2> HIDE DEF k
  <2>3. QED
    BY <2>1, <2>2, BeginRooted
<1>10. ASSUME NEW a \in Action, NEW o \in Outcome, NEW t \in BOOLEAN,
              RecordActionBegin(c, l, a, o, t)
       PROVE  CallsAreRooted'
  <2> DEFINE k == [op |-> "recordAction", lease |-> l, epoch |-> e, action |-> a, outcome |-> o]
  <2>1. k \in Call
    BY <1>1, Zenon DEF Call
  <2>2. res.owner = l /\ e >= 1
    BY <1>2, <1>10 DEF RecordActionBegin, LeasesAreConsistent, e
  <2>3. \/ leases[l].journal[a] \in Unresolved
        \/ \E f \in Fence : leases[l].fences[f].epoch = e
    BY <1>10, Zenon DEF RecordActionBegin, FenceCurrent, e
  <2>4. leases[l].kind = "automation"
    BY <1>1, <1>2, <2>2, <2>3 DEF ExternalLeaseIsBare, Unresolved
  <2>5. Rooted(k) /\ Begin(c, k)
    BY <1>1, <1>2, <1>10, <2>2, <2>4 DEF RecordActionBegin, Rooted, e
  <2> HIDE DEF k
  <2>6. QED
    BY <2>1, <2>5, BeginRooted
<1>11. ASSUME NEW to \in Lifecycle, TransitionBegin(c, l, to) PROVE CallsAreRooted'
  <2> DEFINE k == [op |-> "transition", lease |-> l, epoch |-> e, to |-> to]
  <2>1. k \in Call
    BY <1>1, Zenon DEF Call
  <2>2. Rooted(k) /\ Begin(c, k)
    BY <1>1, <1>2, <1>11 DEF TransitionBegin, Rooted, e
  <2> HIDE DEF k
  <2>3. QED
    BY <2>1, <2>2, BeginRooted
<1>12. QED
  BY <1>4, <1>5, <1>6, <1>7, <1>8, <1>9, <1>10, <1>11 DEF CallBegin

LEMMA InitInv == Init => IInv
<1> SUFFICES ASSUME Init PROVE IInv
  OBVIOUS
<1>1. ValidState /\ NoResurrection /\ EpochsSeparateOwners
  BY DEF Init, Blank, OwnerIsConsistent, OwnerFitsState, LeasesAreConsistent,
         NoResurrection, EpochsSeparateOwners, Usable
<1>2. ExternalLeaseIsBare /\ MarkHasOwner
  BY DEF Init, Blank, ExternalLeaseIsBare, MarkHasOwner
<1>3. CallsAreRooted
  BY DEF Init, Idle, CallsAreRooted
<1>4. QED
  BY <1>1, <1>2, <1>3, InitType

LEMMA NextInv == IInv /\ [Next]_vars => IInv'
<1> SUFFICES ASSUME IInv, [Next]_vars PROVE IInv'
  OBVIOUS
<1>1. TypeOK'
  BY NextType
<1>2. CASE UNCHANGED vars
  <2>1. RecordsInv'
    BY <1>2, MarkInv, <1>1 DEF vars, GoodStep
  <2>2. CallsAreRooted'
    BY <1>2, Zenon DEF vars, CallsAreRooted, Rooted, Facts, HasIndeterminate
  <2>3. QED
    BY <1>1, <2>1, <2>2
<1>3. CASE Next
  <2>1. RecordsInv' /\ LeasesAdvance
    BY <1>1, <1>3, NextGood DEF GoodStep
  <2>2. CASE \E c \in Caller, l \in Lease : CallBegin(c, l)
    BY <1>1, <2>1, <2>2, CallBeginRooted
  <2>3. CASE \A c \in Caller : calls'[c] = calls[c] \/ calls'[c] = Idle
    BY <1>1, <2>1, <2>3, RootedKept
  <2>4. CASE \E c \in Caller : CallStep(c)
    <3>1. \E c \in Caller : Finish(c)
      BY <2>4 DEF CallStep, Refuse, OpenTabCommit, HeartbeatCommit, ReleaseCommit,
                  CreateFenceCommit, AuthorizeFenceCommit, RecordActionCommit,
                  TransitionCommit, RecoverCommit
    <3>2. QED
      BY <2>3, <3>1 DEF Finish, TypeOK
  <2>5. CASE UNCHANGED calls
    BY <2>3, <2>5
  <2>6. CASE HostRestart
    BY <2>3, <2>6 DEF HostRestart
  <2>7. QED
    BY <1>3, <2>2, <2>4, <2>5, <2>6, Zenon
       DEF Next, Reconcile, DetectExternalUse, Acquire, AcquireDenied, HeartbeatExpired,
           Barrier, LifecycleGate, Tick
<1>4. QED
  BY <1>2, <1>3

\* Whatever calls are in flight, what each has read still stands or its commit sees that it
\* does not.
THEOREM Invariant == Spec => []IInv
  BY InitInv, NextInv, PTL DEF Spec

\* No interleaving of calls, failures, expiries and restarts writes a state
\* file that the next read would refuse.
THEOREM StateStaysValid == Spec => []ValidState
  BY Invariant, PTL

\* After a restart nobody has authority until a lease is granted anew.
THEOREM AuthorityNotResurrected == Spec => []NoResurrection
  BY Invariant, PTL

\* The facts of a lease that was given up are never those of its successor.
THEOREM EpochsSeparate == Spec => []EpochsSeparateOwners
  BY Invariant, PTL

\* What a call has read and still relies on is still so when it commits.
THEOREM CallsRooted == Spec => []CallsAreRooted
  BY Invariant, PTL

----------------------------------------------------------------------------
(* What no step may do *)

LEMMA StepIsGood == IInv /\ Next => GoodStep /\ TypeOK'
  BY NextGood, NextType

\* An action of unknown outcome pins the resource to its lease.
THEOREM IndeterminatePins == Spec => IndeterminatePinsOwner
<1>1. IInv /\ [Next]_vars => [PinStep]_vars
  BY StepIsGood, Zenon DEF GoodStep
<1>2. QED
  BY <1>1, Invariant, PTL DEF Spec, IndeterminatePinsOwner, PinStep

\* External use that is durably recorded is never laundered.
THEOREM ExternalNotLaundered == Spec => ExternalProvenanceKept
<1>1. IInv /\ [Next]_vars => [ProvenanceStep]_vars
  BY StepIsGood, Zenon DEF GoodStep
<1>2. QED
  BY <1>1, Invariant, PTL DEF Spec, ExternalProvenanceKept, ProvenanceStep

----------------------------------------------------------------------------
(* The governor implements fenced ownership *)

\* Only an authorized fence is a use.
LEMMA UseStep ==
  ASSUME Next, ~\E c \in Caller : AuthorizeFenceCommit(c)
  PROVE  lastUse' = lastUse
<1>1. ASSUME NEW c \in Caller, CallStep(c) PROVE lastUse' = lastUse
  BY <1>1 DEF CallStep, Refuse, OpenTabCommit, HeartbeatCommit, ReleaseCommit,
              CreateFenceCommit, RecordActionCommit, TransitionCommit, RecoverCommit
<1>2. ASSUME NEW c \in Caller, NEW l \in Lease, CallBegin(c, l) PROVE lastUse' = lastUse
  BY <1>2 DEF CallBegin, OpenTabBegin, HeartbeatBegin, ReleaseBegin, CreateFenceBegin,
              RecoverBegin, AuthorizeFenceBegin, RecordActionBegin, TransitionBegin, Begin
<1>3. QED
  BY <1>1, <1>2 DEF Next, Reconcile, DetectExternalUse, Acquire, AcquireDenied,
                    HeartbeatExpired, Barrier, LifecycleGate, Tick, HostRestart

\* A use is by the owner, under the present epoch, while authority is open.
LEMMA UseIsOwners ==
  ASSUME IInv, NEW c \in Caller, AuthorizeFenceCommit(c)
  PROVE  Ownership!Use
<1>1. /\ res' = res /\ Usable(res.state)
      /\ lastUse' = [lease |-> res.owner, epoch |-> leases[res.owner].epoch]
  BY Zenon DEF AuthorizeFenceCommit, Facts
<1>2. res.owner # NoLease
  BY <1>1 DEF OwnerFitsState, Usable
<1>3. leases[res.owner].epoch = res.epoch
  BY <1>2, Zenon DEF OwnerIsConsistent
<1>4. QED
  BY <1>1, <1>3, Zenon DEF Ownership!Use

\* Any other step of the governor is a step of FencedOwnership, or none.
LEMMA OwnershipSteps ==
  ASSUME TypeOK', OwnershipStep, lastUse' = lastUse
  PROVE  [Ownership!Next]_(Ownership!vars)
<1> DEFINE MayAdvance == res'.epoch \in {res.epoch, res.epoch + 1}
<1>0. /\ Usable(res.state)' = Usable(res'.state)
      /\ ~Usable(res'.state) => Usable(res'.state) = FALSE
      /\ (Usable(res'.state) <=> Usable(res.state)) => Usable(res'.state) = Usable(res.state)
  BY DEF Usable
<1>1. CASE res'.owner = res.owner /\ res'.epoch = res.epoch
           /\ (Usable(res'.state) <=> Usable(res.state))
  BY <1>0, <1>1, Zenon DEF Ownership!vars
<1>2. CASE res'.owner = res.owner /\ MayAdvance /\ ~Usable(res'.state)
  <2>1. Ownership!Close
    BY <1>0, <1>2, Zenon DEF Ownership!Close, Ownership!EpochMayAdvance
  <2>2. QED
    BY <2>1 DEF Ownership!Next
<1>3. CASE res.owner = NoLease /\ res'.owner \in Lease
           /\ res'.epoch = res.epoch + 1 /\ Usable(res'.state)
  <2>1. Ownership!Grant(res'.owner)
    BY <1>3, Zenon DEF Ownership!Grant, Usable
  <2>2. QED
    BY <1>3, <2>1 DEF Ownership!Next
<1>4. CASE res.owner = NoLease /\ res'.owner \in Lease /\ MayAdvance /\ ~Usable(res'.state)
  <2>1. Ownership!Hold(res'.owner)
    BY <1>0, <1>4, Zenon DEF Ownership!Hold, Ownership!EpochMayAdvance
  <2>2. QED
    BY <1>4, <2>1 DEF Ownership!Next
<1>5. CASE res.owner # NoLease /\ res'.owner = NoLease /\ MayAdvance /\ ~Usable(res'.state)
  <2>1. Ownership!Free
    BY <1>0, <1>5, Zenon DEF Ownership!Free, Ownership!EpochMayAdvance
  <2>2. QED
    BY <2>1 DEF Ownership!Next
<1>6. QED
  BY <1>1, <1>2, <1>3, <1>4, <1>5, Zenon DEF OwnershipStep

\* The epoch of the state file is a fencing token: every behaviour of the
\* governor, whatever calls it interleaves, is one of FencedOwnership.
THEOREM Refinement == Spec => ImplementsFencedOwnership
<1>1. Init => Ownership!Init
  BY DEF Init, Ownership!Init, Ownership!NoUse, Usable
<1>2. IInv /\ [Next]_vars => [Ownership!Next]_(Ownership!vars)
  <2> SUFFICES ASSUME IInv, [Next]_vars PROVE [Ownership!Next]_(Ownership!vars)
    OBVIOUS
  <2>1. CASE UNCHANGED vars
    BY <2>1, Zenon DEF vars, Ownership!vars, Usable
  <2>2. CASE \E c \in Caller : AuthorizeFenceCommit(c)
    BY <2>2, UseIsOwners DEF Ownership!Next
  <2>3. CASE Next /\ ~\E c \in Caller : AuthorizeFenceCommit(c)
    BY <2>3, StepIsGood, UseStep, OwnershipSteps DEF GoodStep
  <2>4. QED
    BY <2>1, <2>2, <2>3
<1>3. QED
  BY <1>1, <1>2, Invariant, PTL DEF Spec, ImplementsFencedOwnership, Ownership!Spec

\* Of what the governor implements: no use is from the future, and a use under the
\* present epoch is the holder's.
OwnershipInv == Ownership!TypeOK /\ Ownership!UseIsBehindEpoch

Ordered == /\ lastUse'.epoch >= lastUse.epoch
           /\ lastUse'.epoch = lastUse.epoch => lastUse'.lease = lastUse.lease

LEMMA OwnershipTypeInit == Ownership!Init => Ownership!TypeOK
<1> SUFFICES ASSUME Ownership!Init PROVE Ownership!TypeOK
  OBVIOUS
<1>1. 0 \in Nat /\ FALSE \in BOOLEAN
  OBVIOUS
<1>2. Ownership!NoUse \in [lease : Lease \cup {NoLease}, epoch : Nat]
  BY <1>1 DEF Ownership!NoUse
<1>3. QED
  BY <1>1, <1>2, Zenon DEF Ownership!Init, Ownership!TypeOK

LEMMA OwnershipTypeNext ==
  Ownership!TypeOK /\ [Ownership!Next]_(Ownership!vars) => Ownership!TypeOK'
<1> SUFFICES ASSUME Ownership!TypeOK, [Ownership!Next]_(Ownership!vars)
             PROVE  Ownership!TypeOK'
  OBVIOUS
<1>1. res.epoch + 1 \in Nat
  BY DEF Ownership!TypeOK
<1>2. [lease |-> res.owner, epoch |-> res.epoch] \in [lease : Lease \cup {NoLease}, epoch : Nat]
  BY DEF Ownership!TypeOK
<1>3. QED
  BY <1>1, <1>2, Zenon
     DEF Ownership!TypeOK, Ownership!Next, Ownership!Grant, Ownership!Hold, Ownership!Close,
         Ownership!Free, Ownership!Use, Ownership!EpochMayAdvance, Ownership!vars

\* A use is the holder's and the latest; every other step only takes the
\* epoch further, and opens authority under an epoch not used before.
LEMMA OwnershipUseNext ==
  ASSUME OwnershipInv, [Ownership!Next]_(Ownership!vars)
  PROVE  Ownership!UseIsBehindEpoch' /\ [Ordered]_lastUse
<1> DEFINE Stays == Ownership!UseIsBehindEpoch' /\ lastUse' = lastUse
<1>1. res.epoch \in Nat /\ lastUse.epoch \in Nat
  BY DEF OwnershipInv, Ownership!TypeOK
<1>2. CASE Ownership!Use
  BY <1>1, <1>2 DEF Ownership!Use, OwnershipInv, Ownership!UseIsBehindEpoch, Ordered
<1>3. ASSUME NEW l \in Lease, Ownership!Grant(l) PROVE Stays
  BY <1>1, <1>3 DEF Ownership!Grant, OwnershipInv, Ownership!UseIsBehindEpoch
<1>4. ASSUME NEW l \in Lease, Ownership!Hold(l) PROVE Stays
  BY <1>1, <1>4 DEF Ownership!Hold, Ownership!EpochMayAdvance, OwnershipInv, Ownership!UseIsBehindEpoch
<1>5. CASE Ownership!Close \/ Ownership!Free
  BY <1>1, <1>5 DEF Ownership!Close, Ownership!Free, Ownership!EpochMayAdvance, OwnershipInv,
                    Ownership!UseIsBehindEpoch
<1>6. CASE UNCHANGED Ownership!vars
  BY <1>6 DEF Ownership!vars, OwnershipInv, Ownership!UseIsBehindEpoch
<1>7. QED
  BY <1>2, <1>3, <1>4, <1>5, <1>6 DEF Ownership!Next

\* What FencedOwnership gives its resource: uses in epoch order.
THEOREM UsesOrdered == Ownership!Spec => Ownership!UsesInEpochOrder
<1>1. Ownership!Init => OwnershipInv
  BY OwnershipTypeInit DEF Ownership!Init, Ownership!NoUse, OwnershipInv, Ownership!UseIsBehindEpoch
<1>2. OwnershipInv /\ [Ownership!Next]_(Ownership!vars) => OwnershipInv'
  BY OwnershipTypeNext, OwnershipUseNext DEF OwnershipInv
<1>3. OwnershipInv /\ [Ownership!Next]_(Ownership!vars) => [Ordered]_lastUse
  BY OwnershipUseNext
<1>4. QED
  BY <1>1, <1>2, <1>3, PTL DEF Ownership!Spec, Ownership!UsesInEpochOrder, Ordered

\* So no fence of a lease is authorized after one of a later lease.
THEOREM FencesInEpochOrder == Spec => FenceUsesInEpochOrder
  BY UsesOrdered, Refinement, PTL DEF ImplementsFencedOwnership, FenceUsesInEpochOrder
=============================================================================
