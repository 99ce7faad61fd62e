-------------------------- MODULE PermitGate_proofs --------------------------
(***************************************************************************)
(* What the gate promises about permits, for any number of requests,       *)
(* permits, contexts and fence epochs, and any number of restarts.         *)
(***************************************************************************)
EXTENDS PermitGate, FiniteSetTheorems, TLAPS

USE ContentAssumption, BoundsAssumption, PermitAssumption

----------------------------------------------------------------------------
(* The invariant *)

GateType ==
  /\ clock \in 0..MaxTime /\ boot \in 0..MaxBoots
  /\ pc \in [Request -> {"idle", "arrived", "authorizing", "forwarded", "refused", "lost"}]
  /\ job \in [Request -> Jobs \cup {NoJob}]
  /\ \A r \in Request : pc[r] # "idle" => job[r] \in Jobs
  /\ budget \in [PermitId -> [maxCalls : Nat, used : Nat]]

\* The requests on their way belong to the running process, and those that
\* were forwarded to this process or to one before it.
BootsOrdered ==
  \A r \in Request :
    /\ pc[r] \in {"arrived", "authorizing"} => job[r].boot = boot
    /\ pc[r] = "forwarded" => job[r].boot <= boot

\* What this process has forwarded is marked in its ledger.
ForwardedIsSeen ==
  \A r \in Request :
    pc[r] = "forwarded" /\ job[r].boot = boot => Doc(r).nonce \in seenNonce

GateInv ==
  GateType /\ BudgetNotOverdrawn /\ BootsOrdered
  /\ (fenceMode # "observe" => ForwardedIsSeen /\ NonceForwardedOnce)

----------------------------------------------------------------------------

\* What the fields of a job and of its permit are.
LEMMA JobType ==
  ASSUME GateType, NEW r \in Request, pc[r] # "idle"
  PROVE  /\ job[r] \in Jobs /\ job[r].permit \in Permit /\ job[r].calls \in Nat
         /\ job[r].left \in 0..MaxCalls /\ job[r].boot \in Nat
         /\ Doc(r).id \in PermitId /\ Doc(r).maxCalls \in Nat
<1>1. job[r] \in Jobs
  BY DEF GateType
<1>2. job[r].permit \in Permit
  BY <1>1 DEF Jobs
<1>3. Document[job[r].permit] \in PermitDocument
  BY <1>2
<1>4. Doc(r).id \in PermitId /\ Doc(r).maxCalls \in Nat
  BY <1>3 DEF Doc, PermitDocument
<1> QED BY <1>1, <1>2, <1>4 DEF Jobs

\* A step that changes neither the ledger nor what was forwarded, and changes
\* of a job only "now" and "left", keeps the invariant once the types are right.
LEMMA QuietStep ==
  ASSUME GateInv, GateType', UNCHANGED <<fenceMode, boot, ledgerVars>>,
         \A r \in Request : pc'[r] = "forwarded" <=> pc[r] = "forwarded",
         \A r \in Request : pc[r] = "forwarded" => job'[r] = job[r],
         \A r \in Request :
           pc'[r] \in {"arrived", "authorizing"} => job'[r].boot = boot
  PROVE  GateInv'
<1>1. BudgetNotOverdrawn'
  BY DEF GateInv, BudgetNotOverdrawn, ledgerVars
<1>2. BootsOrdered'
  BY DEF GateInv, BootsOrdered
<1>3. ForwardedIsSeen => ForwardedIsSeen'
  BY DEF ForwardedIsSeen, Doc, ledgerVars
<1>4. NonceForwardedOnce => NonceForwardedOnce'
  BY DEF NonceForwardedOnce, Forwarded, Doc
<1> QED BY <1>1, <1>2, <1>3, <1>4 DEF GateInv

\* Charging a permit that was admitted keeps its id within its ceiling, and
\* marks its nonce, which was not marked before.
LEMMA ChargeAdmitted ==
  ASSUME GateType, BudgetNotOverdrawn, NEW r \in Request, pc[r] # "idle",
         PermitAdmits(r), Charge(r)
  PROVE  /\ budget' \in [PermitId -> [maxCalls : Nat, used : Nat]]
         /\ BudgetNotOverdrawn'
         /\ Doc(r).nonce \notin seenNonce /\ Doc(r).nonce \in seenNonce'
         /\ seenNonce \subseteq seenNonce'
<1> DEFINE i == Doc(r).id
<1>1. i \in PermitId /\ job[r].calls \in Nat /\ Doc(r).maxCalls \in Nat
  BY JobType
<1>2. budget[i].used \in Nat /\ budget[i].maxCalls \in Nat /\ Ceiling(r) \in Nat
  BY <1>1 DEF GateType, Ceiling
<1>3. budget[i].used + job[r].calls <= Ceiling(r)
  BY DEF PermitAdmits, checkBudget
<1>4. budget' = [budget EXCEPT ![i] =
                   [maxCalls |-> Ceiling(r), used |-> budget[i].used + job[r].calls]]
  BY <1>1 DEF Charge, GateType
<1>5. budget' \in [PermitId -> [maxCalls : Nat, used : Nat]]
  BY <1>1, <1>2, <1>4 DEF GateType
<1>6. BudgetNotOverdrawn'
  <2>1. SUFFICES ASSUME NEW k \in PermitId PROVE budget'[k].used <= budget'[k].maxCalls
    BY DEF BudgetNotOverdrawn
  <2>2. CASE k = i
    BY <1>1, <1>3, <1>4, <2>2 DEF GateType
  <2>3. CASE k # i
    BY <1>4, <2>3 DEF GateType, BudgetNotOverdrawn
  <2> QED BY <2>2, <2>3
<1> QED BY <1>5, <1>6 DEF PermitAdmits, Charge

\* A call that is forwarded is in the ledger.
LEMMA ForwardKeeps ==
  ASSUME GateInv, NEW r \in Request, Forward(r)
  PROVE  GateInv'
<1>1. /\ pc[r] = "authorizing" /\ pc' = [pc EXCEPT ![r] = "forwarded"]
      /\ UNCHANGED <<fenceMode, clock, boot, job>>
  BY DEF Forward, Judging, contextVars, channelVars
<1>2. \/ PermitAdmits(r) /\ Charge(r)
      \/ fenceMode = "observe" /\ UNCHANGED ledgerVars
  BY DEF Forward, Admitted, PassedThrough
<1>3. GateType' /\ BudgetNotOverdrawn'
  <2>1. budget' \in [PermitId -> [maxCalls : Nat, used : Nat]] /\ BudgetNotOverdrawn'
    BY <1>1, <1>2, ChargeAdmitted DEF GateInv, GateType, BudgetNotOverdrawn, ledgerVars
  <2> QED BY <1>1, <2>1 DEF GateInv, GateType
<1>4. BootsOrdered'
  <2>1. job[r].boot = boot /\ boot \in Nat
    BY <1>1 DEF GateInv, GateType, BootsOrdered
  <2> QED BY <1>1, <2>1 DEF GateInv, GateType, BootsOrdered
<1>5. fenceMode # "observe" => ForwardedIsSeen' /\ NonceForwardedOnce'
  <2>1. SUFFICES ASSUME fenceMode # "observe" PROVE ForwardedIsSeen' /\ NonceForwardedOnce'
    OBVIOUS
  <2>2. /\ Doc(r).nonce \notin seenNonce /\ Doc(r).nonce \in seenNonce'
        /\ seenNonce \subseteq seenNonce'
    BY <1>1, <1>2, <2>1, ChargeAdmitted DEF GateInv
  <2>3. \A s \in Request : pc'[s] = "forwarded" <=> pc[s] = "forwarded" \/ s = r
    BY <1>1 DEF GateInv, GateType
  <2>4. ForwardedIsSeen'
    BY <1>1, <2>1, <2>2, <2>3 DEF GateInv, ForwardedIsSeen, Doc
  <2>5. job[r].boot = boot
    BY <1>1 DEF GateInv, BootsOrdered
  <2>6. NonceForwardedOnce'
    BY <1>1, <2>1, <2>2, <2>3, <2>5 DEF GateInv, ForwardedIsSeen, NonceForwardedOnce,
                                        Forwarded, Doc
  <2> QED BY <2>4, <2>6
<1> QED BY <1>1, <1>3, <1>4, <1>5 DEF GateInv

\* One that cannot be delivered may have been charged, which the ledger shows.
LEMMA UndeliverableKeeps ==
  ASSUME GateInv, NEW r \in Request, Undeliverable(r)
  PROVE  GateInv'
<1>1. /\ pc[r] = "authorizing" /\ pc' = [pc EXCEPT ![r] = "refused"]
      /\ UNCHANGED <<fenceMode, clock, boot, job>>
  BY DEF Undeliverable, Judging, contextVars, channelVars
<1>2. (PermitAdmits(r) /\ Charge(r)) \/ UNCHANGED ledgerVars
  BY DEF Undeliverable, Admitted
<1>3. /\ budget' \in [PermitId -> [maxCalls : Nat, used : Nat]] /\ BudgetNotOverdrawn'
      /\ seenNonce \subseteq seenNonce'
  BY <1>1, <1>2, ChargeAdmitted DEF GateInv, GateType, BudgetNotOverdrawn, ledgerVars
<1>4. GateType'
  BY <1>1, <1>3 DEF GateInv, GateType
<1>5. \A s \in Request : pc'[s] = "forwarded" <=> pc[s] = "forwarded"
  BY <1>1 DEF GateInv, GateType
<1>6. BootsOrdered'
  BY <1>1 DEF GateInv, GateType, BootsOrdered
<1>7. ForwardedIsSeen => ForwardedIsSeen'
  BY <1>1, <1>3, <1>5 DEF ForwardedIsSeen, Doc
<1>8. NonceForwardedOnce => NonceForwardedOnce'
  BY <1>1, <1>5 DEF NonceForwardedOnce, Forwarded, Doc
<1> QED BY <1>1, <1>3, <1>4, <1>6, <1>7, <1>8 DEF GateInv

\* The ledger begins anew, and what was forwarded belongs to an earlier process.
LEMMA RestartKeeps ==
  ASSUME GateInv, Restart
  PROVE  GateInv'
<1>1. /\ boot' = boot + 1 /\ boot' \in 0..MaxBoots /\ boot \in Nat
      /\ clock' = clock /\ job' = job /\ fenceMode' = fenceMode
      /\ budget' = NoBudget
      /\ pc' = [r \in Request |-> IF pc[r] \in {"arrived", "authorizing"}
                                 THEN "lost" ELSE pc[r]]
  BY DEF Restart, Reset, GateInv, GateType
<1>2. GateType'
  BY <1>1 DEF GateInv, GateType, NoBudget
<1>3. BudgetNotOverdrawn'
  BY <1>1 DEF BudgetNotOverdrawn, NoBudget
<1>4. \A r \in Request : pc[r] # "idle" => job[r].boot \in Nat
  BY JobType DEF GateInv
<1>5. /\ \A r \in Request : pc'[r] \notin {"arrived", "authorizing"}
      /\ \A r \in Request : pc'[r] = "forwarded" <=> pc[r] = "forwarded"
  BY <1>1 DEF GateInv, GateType
<1>6. BootsOrdered'
  BY <1>1, <1>4, <1>5 DEF GateInv, BootsOrdered
<1>7. ForwardedIsSeen'
  <2>1. \A r \in Request : pc[r] = "forwarded" => job[r].boot # boot + 1
    BY <1>1, <1>4 DEF GateInv, BootsOrdered
  <2> QED BY <1>1, <1>5, <2>1 DEF ForwardedIsSeen
<1>8. NonceForwardedOnce => NonceForwardedOnce'
  BY <1>1, <1>5 DEF NonceForwardedOnce, Forwarded, Doc
<1> QED BY <1>1, <1>2, <1>3, <1>6, <1>7, <1>8 DEF GateInv

\* Every other step of a request is quiet: see QuietStep.
LEMMA RequestKeeps ==
  ASSUME GateInv, NEW r \in Request,
         \/ Arrive(r) \/ ExternalUse(r) \/ Enter(r)
         \/ Authorize(r) \/ FenceDenied(r) \/ Deny(r)
  PROVE  GateInv'
<1> USE DEF contextVars
<1>1. CASE Arrive(r)
  <2>1. PICK a \in Ask, connected \in BOOLEAN :
          job' = [job EXCEPT ![r] =
                    [permit |-> a.permit, calls |-> a.calls, writes |-> a.writes,
                     left |-> 0, proof |-> a.proof,
                     deliverable |-> a.known /\ connected, now |-> clock, boot |-> boot]]
    BY <1>1 DEF Arrive
  <2>2. a.permit \in Permit /\ a.calls \in 1..MaxCalls /\ a.writes \in 0..MaxCalls
        /\ a.proof \in Proof \cup {NoProof} /\ (a.known /\ connected) \in BOOLEAN
    BY DEF Asks, GateInv, GateType
  <2>3. /\ job'[r] \in Jobs
        /\ job'[r].boot = boot
        /\ \A s \in Request : s # r => job'[s] = job[s]
        /\ job' \in [Request -> Jobs \cup {NoJob}]
    BY <2>1, <2>2 DEF GateInv, GateType, Jobs
  <2>4. pc[r] = "idle" /\ pc' = [pc EXCEPT ![r] = "arrived"]
        /\ UNCHANGED <<fenceMode, clock, boot, ledgerVars>>
    BY <1>1 DEF Arrive
  <2>5. GateType'
    BY <2>3, <2>4 DEF GateInv, GateType, ledgerVars
  <2> QED BY <2>3, <2>4, <2>5, QuietStep DEF GateInv, GateType, BootsOrdered
<1>2. CASE ExternalUse(r)
  <2>1. pc[r] = "arrived" /\ pc' = [pc EXCEPT ![r] = "refused"]
        /\ UNCHANGED <<fenceMode, clock, boot, job, ledgerVars>>
    BY <1>2 DEF ExternalUse
  <2>2. GateType'
    BY <2>1 DEF GateInv, GateType, ledgerVars
  <2> QED BY <2>1, <2>2, QuietStep DEF GateInv, GateType, BootsOrdered
<1>3. CASE Enter(r)
  <2>1. pc[r] = "arrived" /\ pc' = [pc EXCEPT ![r] = "authorizing"]
        /\ UNCHANGED <<fenceMode, clock, boot, ledgerVars>>
    BY <1>3 DEF Enter
  <2>2. job[r] \in Jobs
    BY <2>1 DEF GateInv, GateType
  <2>3. /\ job'[r] \in Jobs
        /\ job'[r].boot = job[r].boot
        /\ \A s \in Request : s # r => job'[s] = job[s]
        /\ job' \in [Request -> Jobs \cup {NoJob}]
    <3> DEFINE left == IF fenceMode = "off" THEN 0 ELSE job[r].writes
               entered == [job[r] EXCEPT !.now = clock, !.left = left]
    <3>1. left \in 0..MaxCalls
      BY <2>2 DEF Jobs
    <3>2. entered \in Jobs /\ entered.boot = job[r].boot
      BY <2>2, <3>1 DEF Jobs, GateInv, GateType
    <3>3. job' = [job EXCEPT ![r] = entered]
      BY <1>3 DEF Enter, GateInv, GateType
    <3> HIDE DEF left, entered
    <3> QED BY <3>2, <3>3 DEF GateInv, GateType
  <2>4. GateType'
    BY <2>1, <2>3 DEF GateInv, GateType, ledgerVars
  <2> QED BY <2>1, <2>3, <2>4, QuietStep DEF GateInv, GateType, BootsOrdered
<1>4. CASE Authorize(r) \/ FenceDenied(r)
  <2>1. /\ pc[r] = "authorizing" /\ job[r].left > 0
        /\ \/ pc' = pc /\ job' = [job EXCEPT ![r].left = @ - 1]
           \/ pc' = [pc EXCEPT ![r] = "refused"] /\ job' = job
        /\ UNCHANGED <<fenceMode, clock, boot, ledgerVars>>
    BY <1>4 DEF Authorize, FenceDenied
  <2>2. job[r] \in Jobs
    BY <2>1 DEF GateInv, GateType
  <2>3. /\ job'[r] \in Jobs
        /\ job'[r].boot = job[r].boot
        /\ \A s \in Request : s # r => job'[s] = job[s]
        /\ job' \in [Request -> Jobs \cup {NoJob}]
    <3>1. MaxCalls \in Nat /\ job[r].left \in 0..MaxCalls
      BY <2>2 DEF Jobs
    <3>2. job[r].left - 1 \in 0..MaxCalls
      BY <2>1, <3>1
    <3>3. CASE job' = job
      BY <2>2, <3>3 DEF GateInv, GateType
    <3>4. CASE job' = [job EXCEPT ![r].left = @ - 1]
      <4>1. [job[r] EXCEPT !.left = job[r].left - 1] \in Jobs
        BY <2>2, <3>2 DEF Jobs
      <4>2. job' = [job EXCEPT ![r] = [job[r] EXCEPT !.left = job[r].left - 1]]
        BY <3>4
      <4>3. [job[r] EXCEPT !.left = job[r].left - 1].boot = job[r].boot
        BY <2>2 DEF Jobs
      <4> QED BY <4>1, <4>2, <4>3 DEF GateInv, GateType
    <3> QED BY <2>1, <3>3, <3>4
  <2>4. GateType'
    BY <2>1, <2>3 DEF GateInv, GateType, ledgerVars
  <2> QED BY <2>1, <2>3, <2>4, QuietStep DEF GateInv, GateType, BootsOrdered
<1>5. CASE Deny(r)
  <2>1. pc[r] = "authorizing" /\ pc' = [pc EXCEPT ![r] = "refused"]
        /\ UNCHANGED <<fenceMode, clock, boot, job, ledgerVars>>
    BY <1>5 DEF Deny, Judging
  <2>2. GateType'
    BY <2>1 DEF GateInv, GateType, ledgerVars
  <2> QED BY <2>1, <2>2, QuietStep DEF GateInv, GateType, BootsOrdered
<1> QED BY <1>1, <1>2, <1>3, <1>4, <1>5

\* Contexts, revocations and leases do not touch the ledger.
LEMMA MeanwhileKeeps ==
  ASSUME GateInv,
         ContextMoves \/ LeaseMoves \/ \E i \in PermitId : revokePermit(i)
  PROVE  GateInv'
<1>1. UNCHANGED <<fenceMode, boot, ledgerVars, pc, job>> /\ clock' \in 0..MaxTime
  <2>1. CASE ContextMoves
    BY <2>1 DEF ContextMoves, Tick, Accept, Refuse, requestVars, GateInv, GateType
  <2>2. CASE LeaseMoves \/ \E i \in PermitId : revokePermit(i)
    BY <2>2 DEF LeaseMoves, revokePermit, contextVars, requestVars, GateInv, GateType
  <2> QED BY <2>1, <2>2
<1>2. GateType'
  BY <1>1 DEF GateInv, GateType, ledgerVars
<1> QED BY <1>1, <1>2, QuietStep DEF GateInv, BootsOrdered

\* Every step keeps the invariant of the gate.
LEMMA GateInvStep == GateInv /\ [Next]_vars => GateInv'
<1> SUFFICES ASSUME GateInv, [Next]_vars PROVE GateInv'
  OBVIOUS
<1>1. CASE UNCHANGED vars
  <2>1. UNCHANGED <<fenceMode, clock, boot, ledgerVars, pc, job>>
    BY <1>1 DEF vars, contextVars, requestVars
  <2>2. GateType'
    BY <2>1 DEF GateInv, GateType, ledgerVars
  <2> QED BY <2>1, <2>2, QuietStep DEF GateInv, BootsOrdered
<1>2. ASSUME NEW r \in Request, Forward(r) PROVE GateInv'
  BY <1>2, ForwardKeeps
<1>3. ASSUME NEW r \in Request, Undeliverable(r) PROVE GateInv'
  BY <1>3, UndeliverableKeeps
<1>4. CASE Restart
  BY <1>4, RestartKeeps
<1> QED BY <1>1, <1>2, <1>3, <1>4, RequestKeeps, MeanwhileKeeps DEF Next

\* The invariant holds of every behaviour of the gate.
THEOREM GateInvariant == Spec => []GateInv
<1>1. Init => GateInv
  BY DEF Init, ContextInit, NoBudget, GateInv, GateType, BudgetNotOverdrawn, BootsOrdered,
         ForwardedIsSeen, NonceForwardedOnce, Forwarded
<1> QED BY <1>1, GateInvStep, PTL DEF Spec

\* Unless the fence is only observed, a nonce is forwarded at most once by a
\* gateway process, for any number of requests that present it concurrently.
THEOREM ForwardsNonceOnce == Spec => []NonceForwardedOnceUnlessObserved
<1>1. GateInv => NonceForwardedOnceUnlessObserved
  BY DEF GateInv, NonceForwardedOnceUnlessObserved
<1> QED BY <1>1, GateInvariant, PTL

\* No permit id is charged beyond the ceiling it was first charged under, in
\* any mode of the fence.
THEOREM NeverOverdrawn == Spec => []BudgetNotOverdrawn
<1>1. GateInv => BudgetNotOverdrawn
  BY DEF GateInv
<1> QED BY <1>1, GateInvariant, PTL

----------------------------------------------------------------------------
(* What single steps may not do *)

\* The only step that makes a request forwarded, and the only ones that make it
\* refused, are those of this request.
LEMMA OwnSteps ==
  ASSUME GateInv, [Next]_vars, NEW r \in Request
  PROVE  /\ pc[r] # "forwarded" /\ pc'[r] = "forwarded" => Forward(r)
         /\ pc[r] # "refused" /\ pc'[r] = "refused"
              => ExternalUse(r) \/ FenceDenied(r) \/ Undeliverable(r) \/ Deny(r)
<1>1. CASE UNCHANGED vars
  BY <1>1 DEF vars, requestVars
<1>2. CASE ContextMoves \/ LeaseMoves \/ \E i \in PermitId : revokePermit(i)
  BY <1>2 DEF ContextMoves, LeaseMoves, revokePermit, requestVars
<1>3. CASE Restart
  BY <1>3 DEF Restart, GateInv, GateType
<1>4. ASSUME NEW s \in Request,
             Arrive(s) \/ Enter(s) \/ Authorize(s) \/ ExternalUse(s) \/ FenceDenied(s)
      PROVE  /\ pc[r] # "forwarded" => pc'[r] # "forwarded"
             /\ pc[r] # "refused" /\ pc'[r] = "refused" => ExternalUse(r) \/ FenceDenied(r)
  BY <1>4 DEF Arrive, Enter, Authorize, ExternalUse, FenceDenied, GateInv, GateType
<1>5. ASSUME NEW s \in Request, Forward(s) \/ Undeliverable(s) \/ Deny(s)
      PROVE  /\ pc[r] # "forwarded" /\ pc'[r] = "forwarded" => Forward(r)
             /\ pc[r] # "refused" /\ pc'[r] = "refused" => Undeliverable(r) \/ Deny(r)
  <2>1. CASE Forward(s)
    <3>1. pc' = [pc EXCEPT ![s] = "forwarded"]
      BY <2>1 DEF Forward
    <3> QED BY <2>1, <3>1 DEF GateInv, GateType
  <2>2. CASE Undeliverable(s)
    <3>1. pc' = [pc EXCEPT ![s] = "refused"]
      BY <2>2 DEF Undeliverable
    <3> QED BY <2>2, <3>1 DEF GateInv, GateType
  <2>3. CASE Deny(s)
    <3>1. pc' = [pc EXCEPT ![s] = "refused"]
      BY <2>3 DEF Deny
    <3> QED BY <2>3, <3>1 DEF GateInv, GateType
  <2> QED BY <1>5, <2>1, <2>2, <2>3
<1> QED BY <1>1, <1>2, <1>3, <1>4, <1>5 DEF Next

\* Unless the fence is only observed, no request is forwarded under a permit
\* that was revoked, whenever the revocation came.
THEOREM ForwardsNoneRevoked == Spec => RevokedNotForwarded
<1>1. ASSUME GateInv, [Next]_vars, NEW r \in Request,
             pc[r] # "forwarded", pc'[r] = "forwarded"
      PROVE  fenceMode = "observe" \/ Doc(r).id \notin revoked
  BY <1>1, OwnSteps DEF Forward, Admitted, PassedThrough, PermitAdmits, Revoked
<1>2. GateInv /\ [Next]_vars =>
        [\A r \in Request :
           pc[r] # "forwarded" /\ pc'[r] = "forwarded"
             => fenceMode = "observe" \/ Doc(r).id \notin revoked]_vars
  BY <1>1
<1> QED BY <1>2, GateInvariant, PTL DEF Spec, RevokedNotForwarded

\* A request that could have been delivered and is refused has spent nothing of
\* its permit, in any mode of the fence.
THEOREM DenialsSpendNothing == Spec => DenialSpendsNothing
<1>1. ASSUME GateInv, [Next]_vars, NEW r \in Request,
             pc[r] # "refused", pc'[r] = "refused", job[r].deliverable
      PROVE  UNCHANGED ledgerVars
  BY <1>1, OwnSteps DEF ExternalUse, FenceDenied, Undeliverable, Deny
<1>2. GateInv /\ [Next]_vars =>
        [\A r \in Request :
           pc[r] # "refused" /\ pc'[r] = "refused" /\ job[r].deliverable
             => UNCHANGED ledgerVars]_vars
  BY <1>1
<1> QED BY <1>2, GateInvariant, PTL DEF Spec, DenialSpendsNothing

----------------------------------------------------------------------------
(* The channel: what it promises about the messages it accepts, for any set of
   messages and any order of their delivery *)

\* The id of an accepted message is remembered until the message has expired:
\* gcSeenMessages forgets no message that processMessage would still accept.
Remembered ==
  \A i \in DOMAIN accepted :
    \/ Content[accepted[i]].expires < clock
    \/ [id |-> Content[accepted[i]].id, expires |-> Content[accepted[i]].expires]
         \in seenMessageIds

\* lastSeq is at least the number of every message accepted.
LastSeqIsHighest ==
  \A i \in DOMAIN accepted : Content[accepted[i]].seq <= lastSeq

ChannelInv == ChannelSafe /\ Remembered /\ LastSeqIsHighest

----------------------------------------------------------------------------

\* What a message says has the type that the schema gives it.
LEMMA ContentType ==
  ASSUME NEW m \in Message
  PROVE  /\ Content[m].id \in Message /\ Content[m].seq \in Nat
         /\ Content[m].expires \in Nat /\ Content[m].ends \in Nat
         /\ Content[m].ends <= Content[m].expires
         /\ Content[m].revocations \subseteq PermitId
BY DEF MessageContent

\* A message that passes the expiry check and the replay check was not
\* accepted before by this process.
LEMMA NotAcceptedBefore ==
  ASSUME ContextTypeOK, Remembered, NEW m \in Message,
         ~Expired(m, clock), ~Replayed(m, gcSeenMessages(clock))
  PROVE  \A i \in DOMAIN accepted : accepted[i] # m
<1>1. SUFFICES ASSUME NEW i \in DOMAIN accepted, accepted[i] = m PROVE FALSE
  OBVIOUS
<1>2. clock <= Content[m].expires
  BY ContentType DEF Expired, ContextTypeOK
<1>3. [id |-> Content[m].id, expires |-> Content[m].expires] \in seenMessageIds
  <2>1. clock \in Nat /\ Content[m].expires \in Nat
    BY ContentType DEF ContextTypeOK
  <2>2. ~(Content[m].expires < clock)
    BY <1>2, <2>1
  <2> QED BY <1>1, <2>2 DEF Remembered
<1>4. [id |-> Content[m].id, expires |-> Content[m].expires] \in gcSeenMessages(clock)
  BY <1>2, <1>3, ContentType DEF gcSeenMessages, ContextTypeOK
<1> QED BY <1>4 DEF Replayed

\* Accepting a message keeps the invariant.
LEMMA AcceptKeeps ==
  ASSUME ChannelInv, NEW m \in Message, Accept(m)
  PROVE  ChannelInv'
<1> USE ContentType
<1> DEFINE entry == [id |-> Content[m].id, expires |-> Content[m].expires]
<1>1. /\ accepted' = Append(accepted, m) /\ accepted \in Seq(Message)
      /\ clock' = clock /\ boot' = boot
      /\ seenMessageIds' = gcSeenMessages(clock) \cup {entry}
  BY DEF Accept, ChannelInv, ChannelSafe, ContextTypeOK
<1>2. /\ DOMAIN accepted' = 1..(Len(accepted) + 1) /\ DOMAIN accepted = 1..Len(accepted)
      /\ accepted'[Len(accepted) + 1] = m
      /\ \A i \in 1..Len(accepted) : accepted'[i] = accepted[i] /\ accepted[i] \in Message
      /\ Len(accepted) \in Nat
  BY <1>1
<1>3. \A i \in DOMAIN accepted : accepted[i] # m
  BY NotAcceptedBefore DEF Accept, ChannelInv, ChannelSafe
<1>4. lastSeq \in Nat /\ lastSeq' \in Nat /\ lastSeq <= lastSeq' /\ Content[m].seq <= lastSeq'
  BY DEF Accept, StaleSequence, ChannelInv, ChannelSafe, ContextTypeOK
<1>5. ContextTypeOK'
  <2>1. seenMessageIds' \in SUBSET [id : Message, expires : Nat]
    BY <1>1 DEF gcSeenMessages, ChannelInv, ChannelSafe, ContextTypeOK
  <2>2. accepted' \in Seq(Message)
    BY <1>1
  <2> QED BY <2>1, <2>2, <1>4 DEF Accept, ChannelInv, ChannelSafe, ContextTypeOK
<1>6. Remembered'
  <2>1. SUFFICES ASSUME NEW i \in DOMAIN accepted',
                        ~(Content[accepted'[i]].expires < clock')
                 PROVE  [id |-> Content[accepted'[i]].id,
                         expires |-> Content[accepted'[i]].expires] \in seenMessageIds'
    BY DEF Remembered
  <2>2. CASE i = Len(accepted) + 1
    BY <1>1, <1>2, <2>2
  <2>3. CASE i \in 1..Len(accepted)
    <3>1. [id |-> Content[accepted[i]].id, expires |-> Content[accepted[i]].expires]
            \in seenMessageIds
      BY <1>1, <1>2, <2>1, <2>3 DEF ChannelInv, Remembered
    <3> QED BY <3>1, <1>1, <1>2, <2>1, <2>3 DEF gcSeenMessages, ChannelInv, ChannelSafe, ContextTypeOK
  <2> QED BY <1>2, <2>2, <2>3
<1>7. LastSeqIsHighest'
  BY <1>2, <1>4 DEF LastSeqIsHighest, ChannelInv
<1>8. AcceptedOnce'
  BY <1>2, <1>3 DEF AcceptedOnce, ChannelInv, ChannelSafe
<1>9. NumberedInOrder'
  <2>1. SUFFICES ASSUME NEW i \in DOMAIN accepted', NEW j \in DOMAIN accepted', i < j,
                        Content[accepted'[i]].seq # 0, Content[accepted'[j]].seq # 0
                 PROVE  Content[accepted'[i]].seq < Content[accepted'[j]].seq
    BY DEF NumberedInOrder
  <2>2. CASE j = Len(accepted) + 1
    <3>1. Content[accepted[i]].seq <= lastSeq /\ accepted'[i] = accepted[i]
      BY <1>2, <2>1, <2>2 DEF ChannelInv, LastSeqIsHighest
    <3>2. accepted'[j] = m /\ ~StaleSequence(m)
      BY <1>2, <2>2 DEF Accept
    <3> QED BY <3>1, <3>2, <1>2, <1>4, <2>1, <2>2 DEF StaleSequence
  <2>3. CASE j \in 1..Len(accepted)
    BY <1>2, <2>1, <2>3 DEF ChannelInv, ChannelSafe, NumberedInOrder
  <2> QED BY <1>2, <2>2, <2>3
<1>10. OnlyAcceptedLeavesTrace'
  <2>1. lastSeq' = 0 \/ \E i \in DOMAIN accepted' : lastSeq' = Content[accepted'[i]].seq
    <3>1. CASE Content[m].seq = 0
      <4>1. lastSeq' = lastSeq
        BY <3>1 DEF Accept
      <4> QED BY <4>1, <1>2 DEF ChannelInv, ChannelSafe, OnlyAcceptedLeavesTrace
    <3>2. CASE Content[m].seq # 0
      <4>1. lastSeq' = Content[m].seq
        BY <3>2 DEF Accept
      <4>2. Len(accepted) + 1 \in DOMAIN accepted'
        BY <1>2
      <4> QED BY <4>1, <4>2, <1>2
    <3> QED BY <3>1, <3>2
  <2>2. ASSUME NEW s \in seenMessageIds'
        PROVE  \E i \in DOMAIN accepted' : Content[accepted'[i]].id = s.id
    <3>1. CASE s = entry
      <4>1. Len(accepted) + 1 \in DOMAIN accepted' /\ s.id = Content[m].id
        BY <1>2, <3>1
      <4> QED BY <4>1, <1>2
    <3>2. CASE s \in seenMessageIds
      BY <3>2, <1>2 DEF ChannelInv, ChannelSafe, OnlyAcceptedLeavesTrace
    <3> QED BY <2>2, <3>1, <3>2, <1>1 DEF gcSeenMessages
  <2> QED BY <2>1, <2>2 DEF OnlyAcceptedLeavesTrace
<1>11. RevocationsStick'
  <2>1. revoked' = revoked \cup Content[m].revocations
    BY DEF Accept
  <2> QED BY <2>1, <1>2 DEF ChannelInv, ChannelSafe, RevocationsStick
<1> QED BY <1>5, <1>6, <1>7, <1>8, <1>9, <1>10, <1>11 DEF ChannelInv, ChannelSafe

\* A refused message may collect old ids, and nothing else.
LEMMA RefuseKeeps ==
  ASSUME ChannelInv, NEW m \in Message, Refuse(m)
  PROVE  ChannelInv'
<1>1. seenMessageIds' = gcSeenMessages(clock)
      /\ UNCHANGED <<clock, boot, lastSeq, currentContext, revoked, accepted>>
  BY DEF Refuse
<1>2. ContextTypeOK'
  BY <1>1 DEF gcSeenMessages, ChannelInv, ChannelSafe, ContextTypeOK
<1>3. Remembered'
  <2>1. \A i \in DOMAIN accepted : accepted[i] \in Message
    BY DEF ChannelInv, ChannelSafe, ContextTypeOK
  <2> QED BY <1>1, <2>1, ContentType DEF Remembered, gcSeenMessages, ChannelInv, ChannelSafe, ContextTypeOK
<1>4. OnlyAcceptedLeavesTrace'
  BY <1>1 DEF gcSeenMessages, ChannelInv, ChannelSafe, OnlyAcceptedLeavesTrace
<1> QED BY <1>1, <1>2, <1>3, <1>4 DEF ChannelInv, ChannelSafe, LastSeqIsHighest,
                                      AcceptedOnce, NumberedInOrder, RevocationsStick

\* Every step keeps the invariant of the channel.
LEMMA ChannelInvStep == ChannelInv /\ [ContextNext]_contextVars => ChannelInv'
<1> SUFFICES ASSUME ChannelInv, [ContextNext]_contextVars PROVE ChannelInv'
  OBVIOUS
<1>1. CASE UNCHANGED contextVars
  BY <1>1 DEF contextVars, channelVars, ChannelInv, ChannelSafe, ContextTypeOK, Remembered,
              LastSeqIsHighest, AcceptedOnce, NumberedInOrder, OnlyAcceptedLeavesTrace,
              RevocationsStick
<1>2. CASE Tick
  <2>1. \A i \in DOMAIN accepted : accepted[i] \in Message
    BY DEF ChannelInv, ChannelSafe, ContextTypeOK
  <2>2. Remembered'
    BY <1>2, <2>1, ContentType DEF Tick, channelVars, ChannelInv, ChannelSafe, ContextTypeOK, Remembered
  <2> QED BY <1>2, <2>2 DEF Tick, channelVars, ChannelInv, ChannelSafe, ContextTypeOK,
                            LastSeqIsHighest, AcceptedOnce, NumberedInOrder,
                            OnlyAcceptedLeavesTrace, RevocationsStick
<1>3. CASE Reset
  BY <1>3 DEF Reset, ChannelInv, ChannelSafe, ContextTypeOK, Remembered, LastSeqIsHighest,
              AcceptedOnce, NumberedInOrder, OnlyAcceptedLeavesTrace, RevocationsStick
<1>4. ASSUME NEW m \in Message, Accept(m) PROVE ChannelInv'
  BY <1>4, AcceptKeeps
<1>5. ASSUME NEW m \in Message, Refuse(m) PROVE ChannelInv'
  BY <1>5, RefuseKeeps
<1> QED BY <1>1, <1>2, <1>3, <1>4, <1>5 DEF ContextNext

\* The invariant holds of every behaviour of the channel.
THEOREM ChannelInvariant == ContextSpec => []ChannelInv
<1>1. ContextInit => ChannelInv
  BY DEF ContextInit, ChannelInit, ChannelInv, ChannelSafe, ContextTypeOK, Remembered,
         LastSeqIsHighest, AcceptedOnce, NumberedInOrder, OnlyAcceptedLeavesTrace,
         RevocationsStick
<1> QED BY <1>1, ChannelInvStep, PTL DEF ContextSpec

\* No message is accepted twice by one gateway process, for all messages and
\* expiry times and every order of delivery, though expired ids are forgotten.
THEOREM AcceptsOnce == ContextSpec => []AcceptedOnce
<1>1. ChannelInv => AcceptedOnce
  BY DEF ChannelInv, ChannelSafe
<1> QED BY <1>1, ChannelInvariant, PTL

\* Numbered messages are accepted in the order of their numbers.
THEOREM AcceptsInOrder == ContextSpec => []NumberedInOrder
<1>1. ChannelInv => NumberedInOrder
  BY DEF ChannelInv, ChannelSafe
<1> QED BY <1>1, ChannelInvariant, PTL

\* Each accepted message counts once and in its order, what it revokes stays
\* revoked, and a refused message leaves nothing behind.
THEOREM ChannelIsSafe == ContextSpec => []ChannelSafe
<1>1. ChannelInv => ChannelSafe
  BY DEF ChannelInv
<1> QED BY <1>1, ChannelInvariant, PTL

----------------------------------------------------------------------------
(* What is granted in a number: the calls of a permit and the uses of a proof *)

\* Of a batch some writes have been authorized and some are left; of what was
\* forwarded none is left.
WritesInStep ==
  \A r \in Request :
    /\ pc[r] = "authorizing" => job[r].left <= job[r].writes
    /\ pc[r] = "forwarded" => job[r].left = 0

\* Every forwarded call is charged to the budget of its permit id.
CallsCharged ==
  fenceMode # "observe" =>
    \A i \in PermitId :
      IsFiniteSet(CallsForwarded(i)) /\ Cardinality(CallsForwarded(i)) <= budget[i].used

\* The writes of the requests on their way, and of the forwarded ones, for which
\* the governor has authorized proof f.
WritesAuthorized(f) ==
  {w \in Request \X (1..MaxCalls) :
     /\ pc[w[1]] \in {"authorizing", "forwarded"} /\ job[w[1]].proof = f
     /\ w[2] <= job[w[1]].writes - job[w[1]].left}

\* Each of them has counted as a use of the proof.
WritesCounted ==
  fenceMode = "enforce" =>
    \A f \in Proof :
      IsFiniteSet(WritesAuthorized(f)) /\ Cardinality(WritesAuthorized(f)) <= uses[f]

AllowanceInv == GateInv /\ ChannelInv /\ TypeOK /\ WritesInStep /\ CallsCharged /\ WritesCounted

----------------------------------------------------------------------------

\* A part of a set that was small enough is small enough.
LEMMA PartCounted ==
  ASSUME NEW S, NEW T, T \subseteq S, IsFiniteSet(S), NEW n \in Nat, Cardinality(S) <= n
  PROVE  IsFiniteSet(T) /\ Cardinality(T) <= n
<1>1. IsFiniteSet(T) /\ Cardinality(T) <= Cardinality(S)
  BY FS_Subset
<1>2. Cardinality(S) \in Nat /\ Cardinality(T) \in Nat
  BY <1>1, FS_CardinalityType
<1> QED BY <1>1, <1>2

\* A set that gained at most the calls 1..n of one request is larger by n at most.
LEMMA RequestCounted ==
  ASSUME NEW S, NEW T, NEW r, NEW n \in Nat, T \subseteq S \cup ({r} \X (1..n)),
         IsFiniteSet(S), NEW k \in Nat, Cardinality(S) <= k
  PROVE  IsFiniteSet(T) /\ Cardinality(T) <= k + n
<1> DEFINE R == {r} \X (1..n)
           f == [j \in 1..n |-> <<r, j>>]
<1>1. f \in Bijection(1..n, R)
  <2>1. f \in [1..n -> R] /\ IsInjective(f)
    BY DEF IsInjective
  <2>2. \A x \in R : \E j \in 1..n : f[j] = x
    OBVIOUS
  <2> HIDE DEF f, R
  <2> QED BY <2>1, <2>2 DEF Bijection, Injection, Surjection
<1>2. IsFiniteSet(1..n) /\ Cardinality(1..n) = n
  <2>1. IsFiniteSet(1..n) /\ Cardinality(1..n) = IF 1 > n THEN 0 ELSE n - 1 + 1
    <3>1. 1 \in Int /\ n \in Int
      OBVIOUS
    <3> HIDE DEF f, R
    <3> QED BY <3>1, FS_Interval, Zenon
  <2>2. (IF 1 > n THEN 0 ELSE n - 1 + 1) = n
    OBVIOUS
  <2> QED BY <2>1, <2>2
<1>3. T \subseteq S \cup R
  OBVIOUS
<1> HIDE DEF f, R
<1>4. IsFiniteSet(R) /\ Cardinality(R) = n
  BY <1>1, <1>2, FS_Bijection DEF ExistsBijection
<1>5. IsFiniteSet(S \cup R)
      /\ Cardinality(S \cup R) = Cardinality(S) + Cardinality(R) - Cardinality(S \cap R)
  BY <1>4, FS_Union
<1>6. Cardinality(S) \in Nat /\ Cardinality(S \cap R) \in Nat
  <2>1. S \cap R \subseteq S
    OBVIOUS
  <2>2. IsFiniteSet(S \cap R)
    BY <2>1, FS_Subset
  <2> QED BY <2>2, FS_CardinalityType
<1>7. Cardinality(S \cup R) <= k + n /\ k + n \in Nat
  BY <1>4, <1>5, <1>6
<1> QED BY <1>3, <1>5, <1>7, PartCounted

\* No request becomes forwarded, and no budget is given back.
LEMMA CallsStay ==
  ASSUME CallsCharged, TypeOK, TypeOK', UNCHANGED <<fenceMode, boot>>,
         \A i \in PermitId : budget[i].used <= budget'[i].used,
         \A r \in Request : pc'[r] = "forwarded" <=> pc[r] = "forwarded",
         \A r \in Request : pc[r] = "forwarded" => job'[r] = job[r]
  PROVE  CallsCharged'
<1>1. ASSUME NEW i \in PermitId PROVE CallsForwarded(i)' = CallsForwarded(i)
  BY DEF CallsForwarded, Forwarded, Doc
<1>2. SUFFICES ASSUME fenceMode # "observe", NEW i \in PermitId
               PROVE  IsFiniteSet(CallsForwarded(i)')
                      /\ Cardinality(CallsForwarded(i)') <= budget'[i].used
  BY DEF CallsCharged
<1>3. IsFiniteSet(CallsForwarded(i)) /\ Cardinality(CallsForwarded(i)) <= budget[i].used
  BY <1>2 DEF CallsCharged
<1>4. budget[i].used \in Nat /\ budget'[i].used \in Nat
  BY DEF TypeOK
<1>5. Cardinality(CallsForwarded(i)) \in Nat
  BY <1>3, FS_CardinalityType
<1> QED BY <1>1, <1>3, <1>4, <1>5

\* No write is authorized, and no use of a proof taken back.
LEMMA WritesStay ==
  ASSUME WritesCounted, TypeOK, UNCHANGED <<fenceMode, uses>>,
         fenceMode = "enforce" =>
           \A f \in Proof : WritesAuthorized(f)' \subseteq WritesAuthorized(f)
  PROVE  WritesCounted'
<1>1. SUFFICES ASSUME fenceMode = "enforce", NEW f \in Proof
               PROVE  IsFiniteSet(WritesAuthorized(f)')
                      /\ Cardinality(WritesAuthorized(f)') <= uses[f]
  BY DEF WritesCounted
<1>2. IsFiniteSet(WritesAuthorized(f)) /\ Cardinality(WritesAuthorized(f)) <= uses[f]
      /\ WritesAuthorized(f)' \subseteq WritesAuthorized(f)
  BY <1>1 DEF WritesCounted
<1>3. uses[f] \in Nat
  BY DEF TypeOK
<1> QED BY <1>2, <1>3, PartCounted

\* No step of the gate disturbs the channel: a revocation by a request only adds
\* to what is revoked.
LEMMA ChannelKept ==
  ASSUME ChannelInv, [Next]_vars
  PROVE  ChannelInv'
<1>1. CASE UNCHANGED contextVars
  BY <1>1, ChannelInvStep
<1>2. CASE ContextMoves \/ Restart
  BY <1>2, ChannelInvStep DEF ContextMoves, Restart, ContextNext
<1>3. ASSUME NEW i \in PermitId, revokePermit(i) PROVE ChannelInv'
  <2>1. revoked' = revoked \cup {i} /\ UNCHANGED <<clock, boot, channelVars>>
    BY <1>3 DEF revokePermit
  <2> QED BY <2>1 DEF channelVars, ChannelInv, ChannelSafe, ContextTypeOK, Remembered,
                      LastSeqIsHighest, AcceptedOnce, NumberedInOrder,
                      OnlyAcceptedLeavesTrace, RevocationsStick
<1>4. CASE UNCHANGED vars
  BY <1>1, <1>4 DEF vars
<1>5. ASSUME NEW r \in Request,
             \/ Arrive(r) \/ ExternalUse(r) \/ Enter(r) \/ Authorize(r) \/ FenceDenied(r)
             \/ Forward(r) \/ Undeliverable(r) \/ Deny(r)
      PROVE  ChannelInv'
  BY <1>1, <1>5 DEF Arrive, ExternalUse, Enter, Authorize, FenceDenied, Forward,
                    Undeliverable, Deny
<1>6. CASE LeaseMoves
  BY <1>1, <1>6 DEF LeaseMoves
<1> QED BY <1>2, <1>3, <1>4, <1>5, <1>6 DEF Next

\* The variables that the invariants of the gate and of the channel leave out
\* keep their types.
LEMMA TypeKept ==
  ASSUME GateInv, GateInv', ChannelInv', TypeOK, [Next]_vars
  PROVE  TypeOK'
<1>1. /\ ContextTypeOK'
      /\ budget' \in [PermitId -> [maxCalls : Nat, used : Nat]]
      /\ pc' \in [Request -> {"idle", "arrived", "authorizing", "forwarded", "refused", "lost"}]
      /\ job' \in [Request -> Jobs \cup {NoJob}]
      /\ \A r \in Request : pc'[r] # "idle" => job'[r] \in Jobs
  BY DEF GateInv, GateType, ChannelInv, ChannelSafe
<1> DEFINE Rest == /\ fenceMode \in FenceModes /\ seenNonce \subseteq Nonce
                   /\ epoch \in Epoch \cup {0} /\ leased \in BOOLEAN
                   /\ uses \in [Proof -> 0..MaxUses]
<1>2. SUFFICES Rest'
  BY <1>1 DEF TypeOK
<1>3. Rest
  BY DEF TypeOK
<1>4. CASE UNCHANGED <<fenceMode, ledgerVars, fenceVars>>
  BY <1>3, <1>4 DEF ledgerVars, fenceVars
<1>5. ASSUME NEW r \in Request, Authorize(r) PROVE Rest'
  <2>1. /\ uses' = [uses EXCEPT ![job[r].proof] = @ + 1]
        /\ job[r].proof # NoProof /\ uses[job[r].proof] < MaxUses
        /\ UNCHANGED <<fenceMode, seenNonce, epoch, leased>> /\ pc[r] = "authorizing"
    BY <1>5 DEF Authorize, Authorizes, ledgerVars
  <2>2. job[r].proof \in Proof
    BY <2>1 DEF TypeOK, Jobs
  <2>3. uses[job[r].proof] + 1 \in 0..MaxUses
    BY <1>3, <2>1, <2>2
  <2> QED BY <1>3, <2>1, <2>2, <2>3
<1>6. ASSUME NEW r \in Request, Forward(r) \/ Undeliverable(r) PROVE Rest'
  <2>1. Document[job[r].permit] \in PermitDocument
    BY <1>6 DEF Forward, Undeliverable, Judging, TypeOK, Jobs
  <2>2. Doc(r).nonce \in Nonce
    BY <2>1 DEF Doc, PermitDocument
  <2>3. seenNonce' = seenNonce \cup {Doc(r).nonce} \/ seenNonce' = seenNonce
    BY <1>6 DEF Forward, Undeliverable, Charge, ledgerVars
  <2>4. UNCHANGED <<fenceMode, fenceVars>>
    BY <1>6 DEF Forward, Undeliverable
  <2> QED BY <1>3, <2>2, <2>3, <2>4 DEF fenceVars
<1>7. CASE Restart
  BY <1>3, <1>7 DEF Restart, fenceVars
<1>8. CASE LeaseMoves
  BY <1>3, <1>8 DEF LeaseMoves, ledgerVars
<1>9. CASE ContextMoves \/ \E i \in PermitId : revokePermit(i)
  BY <1>4, <1>9 DEF ContextMoves, revokePermit
<1>10. ASSUME NEW r \in Request,
              \/ Arrive(r) \/ ExternalUse(r) \/ Enter(r) \/ FenceDenied(r) \/ Deny(r)
       PROVE  Rest'
  BY <1>4, <1>10 DEF Arrive, ExternalUse, Enter, FenceDenied, Deny
<1>11. CASE UNCHANGED vars
  BY <1>4, <1>11 DEF vars
<1> HIDE DEF Rest
<1> QED BY <1>5, <1>6, <1>7, <1>8, <1>9, <1>10, <1>11 DEF Next

\* The three invariants about what is granted in a number.
Counted == WritesInStep /\ CallsCharged /\ WritesCounted

\* What the next lemmas assume of the states of a step.
Typed == TypeOK /\ TypeOK' /\ GateInv

\* A step in which no request gets on, and no budget is given back.
LEMMA NobodyGetsOn ==
  ASSUME Counted, Typed, UNCHANGED <<fenceMode, boot, uses>>,
         \A i \in PermitId : budget[i].used <= budget'[i].used,
         \A r \in Request :
           \/ pc'[r] = pc[r] /\ job'[r] = job[r]
           \/ pc[r] # "forwarded" /\ pc'[r] \notin {"authorizing", "forwarded"}
  PROVE  Counted'
<1>1. WritesInStep'
  BY DEF Counted, WritesInStep
<1>2. CallsCharged'
  BY CallsStay DEF Counted, Typed
<1>3. \A f \in Proof : WritesAuthorized(f)' \subseteq WritesAuthorized(f)
  BY DEF WritesAuthorized
<1>4. WritesCounted'
  BY <1>3, WritesStay DEF Counted, Typed
<1> QED BY <1>1, <1>2, <1>4 DEF Counted

\* With the fence enforced, a request that enters has no write authorized yet.
LEMMA EnterCounted ==
  ASSUME Counted, Typed, NEW r \in Request, Enter(r)
  PROVE  Counted'
<1>1. /\ pc[r] = "arrived" /\ pc' = [pc EXCEPT ![r] = "authorizing"]
      /\ UNCHANGED <<fenceMode, boot, budget, uses>>
  BY DEF Enter, contextVars, ledgerVars, fenceVars
<1>2. job[r] \in Jobs
  BY <1>1 DEF Typed, TypeOK
<1>3. /\ \A s \in Request \ {r} : pc'[s] = pc[s] /\ job'[s] = job[s]
      /\ pc'[r] = "authorizing" /\ job'[r].writes = job[r].writes
      /\ job[r].writes \in Nat
  BY <1>1, <1>2 DEF Enter, Typed, TypeOK, Jobs
<1>4. job'[r].left = IF fenceMode = "off" THEN 0 ELSE job[r].writes
  BY <1>2 DEF Enter, Typed, TypeOK, Jobs
<1>5. WritesInStep'
  BY <1>3, <1>4 DEF Counted, WritesInStep
<1>6. CallsCharged'
  BY <1>1, <1>3, CallsStay DEF Counted, Typed, TypeOK
<1>7. WritesCounted'
  <2>1. ASSUME fenceMode = "enforce", NEW f \in Proof, NEW w \in WritesAuthorized(f)'
        PROVE  w \in WritesAuthorized(f)
    <3>1. w \in Request \X (1..MaxCalls) /\ w[2] <= job'[w[1]].writes - job'[w[1]].left
      BY <2>1 DEF WritesAuthorized
    <3>2. w[1] # r
      BY <2>1, <3>1, <1>3, <1>4
    <3> QED BY <2>1, <3>1, <3>2, <1>3 DEF WritesAuthorized
  <2> QED BY <1>1, <2>1, WritesStay DEF Counted, Typed
<1> QED BY <1>5, <1>6, <1>7 DEF Counted

\* An authorization counts one more write, and one more use of its proof.
LEMMA AuthorizeCounted ==
  ASSUME Counted, Typed, NEW r \in Request, Authorize(r)
  PROVE  Counted'
<1> DEFINE g == job[r].proof
           x == <<r, job[r].writes - job[r].left + 1>>
<1>1. /\ pc[r] = "authorizing" /\ pc' = pc /\ job[r].left > 0
      /\ UNCHANGED <<fenceMode, boot, budget>>
      /\ uses' = [uses EXCEPT ![g] = @ + 1] /\ g # NoProof
  BY DEF Authorize, Authorizes, contextVars, ledgerVars
<1>2. job[r] \in Jobs
  BY <1>1 DEF Typed, TypeOK
<1>3. /\ \A s \in Request \ {r} : job'[s] = job[s]
      /\ job'[r].left = job[r].left - 1 /\ job'[r].writes = job[r].writes
      /\ job'[r].proof = g /\ job[r].writes \in Nat /\ job[r].left \in Nat
      /\ job[r].left <= job[r].writes /\ g \in Proof
  BY <1>1, <1>2 DEF Authorize, Typed, TypeOK, Jobs, Counted, WritesInStep
<1>4. WritesInStep'
  BY <1>1, <1>3 DEF Counted, WritesInStep
<1>5. CallsCharged'
  BY <1>1, <1>3, CallsStay DEF Counted, Typed, TypeOK
<1>6. ASSUME NEW f \in Proof PROVE WritesAuthorized(f)' \subseteq WritesAuthorized(f) \cup {x}
  <2>1. SUFFICES ASSUME NEW w \in WritesAuthorized(f)', w # x PROVE w \in WritesAuthorized(f)
    OBVIOUS
  <2>2. w \in Request \X (1..MaxCalls) /\ w = <<w[1], w[2]>>
    BY DEF WritesAuthorized
  <2>3. CASE w[1] = r
    <3>1. w[2] # job[r].writes - job[r].left + 1
      BY <2>1, <2>2, <2>3
    <3>2. w[2] <= job[r].writes - job[r].left + 1 /\ f = g
      BY <1>3, <2>3 DEF WritesAuthorized
    <3> QED BY <3>1, <3>2, <2>2, <2>3, <1>1, <1>3 DEF WritesAuthorized
  <2>4. CASE w[1] # r
    BY <2>2, <2>4, <1>1, <1>3 DEF WritesAuthorized
  <2> QED BY <2>3, <2>4
<1>7. ASSUME NEW f \in Proof, f # g PROVE WritesAuthorized(f)' \subseteq WritesAuthorized(f)
  BY <1>1, <1>3, <1>7 DEF WritesAuthorized
<1>8. WritesCounted'
  <2>1. SUFFICES ASSUME fenceMode = "enforce", NEW f \in Proof
                 PROVE  IsFiniteSet(WritesAuthorized(f)')
                        /\ Cardinality(WritesAuthorized(f)') <= uses'[f]
    BY <1>1 DEF WritesCounted
  <2>2. IsFiniteSet(WritesAuthorized(f)) /\ Cardinality(WritesAuthorized(f)) <= uses[f]
    BY <2>1 DEF Counted, WritesCounted
  <2>3. uses[f] \in Nat /\ uses'[f] = IF f = g THEN uses[f] + 1 ELSE uses[f]
    BY <1>1, <1>3 DEF Typed, TypeOK
  <2>4. CASE f = g
    <3>1. IsFiniteSet(WritesAuthorized(f) \cup {x})
          /\ Cardinality(WritesAuthorized(f) \cup {x}) =
               IF x \in WritesAuthorized(f) THEN Cardinality(WritesAuthorized(f))
               ELSE Cardinality(WritesAuthorized(f)) + 1
      BY <2>2, FS_AddElement
    <3>2. Cardinality(WritesAuthorized(f)) \in Nat
      BY <2>2, FS_CardinalityType
    <3>3. Cardinality(WritesAuthorized(f) \cup {x}) <= uses'[f] /\ uses'[f] \in Nat
      BY <2>2, <2>3, <2>4, <3>1, <3>2
    <3> QED BY <1>6, <3>1, <3>3, PartCounted
  <2>5. CASE f # g
    BY <1>7, <2>2, <2>3, <2>5, PartCounted
  <2> QED BY <2>4, <2>5
<1> QED BY <1>4, <1>5, <1>8 DEF Counted

\* Charging adds the calls of the request to the budget of its permit id.
LEMMA ChargeCounts ==
  ASSUME Typed, NEW r \in Request, pc[r] # "idle", Charge(r)
  PROVE  /\ budget'[Doc(r).id].used = budget[Doc(r).id].used + job[r].calls
         /\ \A i \in PermitId : budget[i].used <= budget'[i].used
<1>1. Doc(r).id \in PermitId /\ job[r].calls \in Nat
  BY JobType DEF Typed, GateInv
<1>2. \A i \in PermitId : budget[i].used \in Nat
  BY DEF Typed, TypeOK
<1>3. \A i \in PermitId :
        budget'[i].used = IF i = Doc(r).id THEN budget[i].used + job[r].calls ELSE budget[i].used
  BY <1>1 DEF Charge, Typed, TypeOK
<1> QED BY <1>1, <1>2, <1>3

\* A request that is forwarded was charged for all its calls, and none of its
\* writes was left.
LEMMA ForwardCounted ==
  ASSUME Counted, Typed, NEW r \in Request, Forward(r)
  PROVE  Counted'
<1>1. /\ pc[r] = "authorizing" /\ job[r].left = 0
      /\ pc' = [pc EXCEPT ![r] = "forwarded"]
      /\ UNCHANGED <<fenceMode, boot, uses, job>>
      /\ fenceMode # "observe" => Charge(r)
  BY DEF Forward, Judging, PassedThrough, contextVars, fenceVars
<1>2. \A s \in Request : pc'[s] = IF s = r THEN "forwarded" ELSE pc[s]
  BY <1>1 DEF Typed, TypeOK
<1>3. WritesInStep'
  BY <1>1, <1>2 DEF Counted, WritesInStep
<1>4. \A f \in Proof : WritesAuthorized(f)' = WritesAuthorized(f)
  BY <1>1, <1>2 DEF WritesAuthorized
<1>5. WritesCounted'
  BY <1>1, <1>4, WritesStay DEF Counted, Typed
<1>6. CallsCharged'
  <2>1. SUFFICES ASSUME fenceMode # "observe", NEW i \in PermitId
                 PROVE  IsFiniteSet(CallsForwarded(i)')
                        /\ Cardinality(CallsForwarded(i)') <= budget'[i].used
    BY <1>1 DEF CallsCharged
  <2>2. IsFiniteSet(CallsForwarded(i)) /\ Cardinality(CallsForwarded(i)) <= budget[i].used
    BY <2>1 DEF Counted, CallsCharged
  <2>3. /\ budget'[Doc(r).id].used = budget[Doc(r).id].used + job[r].calls
        /\ budget[i].used <= budget'[i].used
    BY <1>1, <2>1, ChargeCounts
  <2>4. budget[i].used \in Nat /\ budget'[i].used \in Nat /\ job[r].calls \in Nat
    <3>1. job[r].calls \in Nat
      BY <1>1, JobType DEF Typed, GateInv
    <3> QED BY <3>1 DEF Typed, TypeOK
  <2>5. CASE i = Doc(r).id
    <3>1. CallsForwarded(i)' \subseteq CallsForwarded(i) \cup ({r} \X (1..job[r].calls))
      <4>1. SUFFICES ASSUME NEW c \in CallsForwarded(i)', c \notin CallsForwarded(i)
                     PROVE  c \in {r} \X (1..job[r].calls)
        OBVIOUS
      <4>2. c \in Request \X (1..MaxCalls) /\ c[2] <= job[c[1]].calls
        BY <1>1 DEF CallsForwarded
      <4>3. c[1] = r
        BY <4>1, <4>2, <1>1, <1>2 DEF CallsForwarded, Forwarded, Doc
      <4>4. c[2] \in 1..job[r].calls
        BY <4>2, <4>3, <2>4
      <4> QED BY <4>2, <4>3, <4>4
    <3>2. IsFiniteSet(CallsForwarded(i)')
          /\ Cardinality(CallsForwarded(i)') <= budget[i].used + job[r].calls
      BY <2>2, <2>4, <3>1, RequestCounted
    <3> QED BY <2>3, <2>5, <3>2
  <2>6. CASE i # Doc(r).id
    <3>1. CallsForwarded(i)' \subseteq CallsForwarded(i)
      BY <1>1, <1>2, <2>6 DEF CallsForwarded, Forwarded, Doc
    <3>2. Cardinality(CallsForwarded(i)) <= budget'[i].used
      <4>1. Cardinality(CallsForwarded(i)) \in Nat
        BY <2>2, FS_CardinalityType
      <4> QED BY <2>2, <2>3, <2>4, <4>1
    <3> QED BY <2>2, <2>4, <3>1, <3>2, PartCounted
  <2> QED BY <2>5, <2>6
<1> QED BY <1>3, <1>5, <1>6 DEF Counted

\* The next process has forwarded nothing yet; the uses of a proof are counted on.
LEMMA RestartCounted ==
  ASSUME Counted, Typed, Restart
  PROVE  Counted'
<1>1. /\ boot' = boot + 1 /\ boot \in Nat /\ UNCHANGED <<fenceMode, uses, job>>
      /\ budget' = NoBudget
      /\ pc' = [r \in Request |-> IF pc[r] \in {"arrived", "authorizing"}
                                 THEN "lost" ELSE pc[r]]
  BY DEF Restart, Reset, fenceVars, Typed, GateInv, GateType
<1>2. \A r \in Request : pc'[r] \in {"authorizing", "forwarded"} <=> pc[r] = "forwarded"
  BY <1>1 DEF Typed, TypeOK
<1>3. \A r \in Request : pc'[r] # "authorizing"
  BY <1>1 DEF Typed, TypeOK
<1>4. WritesInStep'
  BY <1>1, <1>2, <1>3 DEF Counted, WritesInStep
<1>5. \A f \in Proof : WritesAuthorized(f)' \subseteq WritesAuthorized(f)
  BY <1>1, <1>2 DEF WritesAuthorized
<1>6. WritesCounted'
  BY <1>1, <1>5, WritesStay DEF Counted, Typed
<1>7. CallsCharged'
  <2>1. \A r \in Request : pc'[r] = "forwarded" => job'[r].boot # boot'
    <3>1. ASSUME NEW r \in Request, pc[r] = "forwarded" PROVE job[r].boot # boot + 1
      <4>1. job[r].boot \in Nat /\ job[r].boot <= boot
        BY <3>1, JobType DEF Typed, GateInv, BootsOrdered
      <4> QED BY <1>1, <4>1
    <3> QED BY <1>1, <1>2, <3>1
  <2>2. ASSUME NEW i \in PermitId PROVE CallsForwarded(i)' = {}
    BY <2>1 DEF CallsForwarded, Forwarded
  <2>3. \A i \in PermitId : budget'[i].used = 0
    BY <1>1 DEF NoBudget
  <2>4. SUFFICES ASSUME NEW i \in PermitId
                 PROVE  IsFiniteSet(CallsForwarded(i)')
                        /\ Cardinality(CallsForwarded(i)') <= budget'[i].used
    BY DEF CallsCharged
  <2>5. IsFiniteSet({}) /\ Cardinality({}) = 0
    BY FS_EmptySet
  <2>6. IsFiniteSet(CallsForwarded(i)') /\ Cardinality(CallsForwarded(i)') = 0
    BY <2>2, <2>5, Zenon
  <2> QED BY <2>3, <2>6
<1> QED BY <1>4, <1>6, <1>7 DEF Counted

\* A denied write that is only observed is not counted.
LEMMA FenceDeniedCounted ==
  ASSUME Counted, Typed, NEW r \in Request, FenceDenied(r)
  PROVE  Counted'
<1>1. /\ pc[r] = "authorizing" /\ job[r].left > 0
      /\ UNCHANGED <<fenceMode, boot, budget, uses>>
  BY DEF FenceDenied, contextVars, ledgerVars, fenceVars
<1>2. \A i \in PermitId : budget[i].used <= budget'[i].used
  BY <1>1 DEF Typed, TypeOK
<1>3. CASE pc' = [pc EXCEPT ![r] = "refused"] /\ UNCHANGED job
  BY <1>1, <1>2, <1>3, NobodyGetsOn DEF Typed, TypeOK
<1>4. CASE /\ fenceMode = "observe"
           /\ job' = [job EXCEPT ![r].left = @ - 1] /\ UNCHANGED pc
  <2>1. job[r] \in Jobs
    BY <1>1 DEF Typed, TypeOK
  <2>2. /\ \A s \in Request \ {r} : job'[s] = job[s]
        /\ job'[r].left = job[r].left - 1 /\ job'[r].writes = job[r].writes
        /\ job[r].writes \in Nat /\ job[r].left \in Nat
    BY <1>4, <2>1 DEF Typed, TypeOK, Jobs
  <2>3. WritesInStep'
    BY <1>1, <1>4, <2>2 DEF Counted, WritesInStep
  <2> QED BY <1>1, <1>4, <2>3 DEF Counted, CallsCharged, WritesCounted
<1> QED BY <1>3, <1>4 DEF FenceDenied

\* Every step keeps what was charged and what was authorized counted.
LEMMA CountedStep ==
  ASSUME Counted, Typed, [Next]_vars
  PROVE  Counted'
<1>1. \A i \in PermitId : budget[i].used \in Nat
  BY DEF Typed, TypeOK
<1>2. CASE UNCHANGED <<fenceMode, boot, uses, budget, pc, job>>
  BY <1>1, <1>2, NobodyGetsOn
<1>3. ASSUME NEW r \in Request, Enter(r) \/ Authorize(r) \/ FenceDenied(r) \/ Forward(r)
      PROVE  Counted'
  BY <1>3, EnterCounted, AuthorizeCounted, FenceDeniedCounted, ForwardCounted
<1>4. ASSUME NEW r \in Request, Arrive(r) \/ ExternalUse(r) \/ Deny(r) \/ Undeliverable(r)
      PROVE  Counted'
  <2>1. /\ pc[r] \in {"idle", "arrived", "authorizing"}
        /\ pc' = [pc EXCEPT ![r] = "arrived"] \/ pc' = [pc EXCEPT ![r] = "refused"]
        /\ \A s \in Request \ {r} : job'[s] = job[s]
        /\ UNCHANGED <<fenceMode, boot, uses>>
    BY <1>4 DEF Arrive, ExternalUse, Deny, Undeliverable, Judging, contextVars, fenceVars,
                Typed, TypeOK
  <2>2. \A i \in PermitId : budget[i].used <= budget'[i].used
    <3>1. CASE UNCHANGED budget
      BY <1>1, <3>1
    <3>2. CASE Charge(r) /\ pc[r] # "idle"
      BY <3>2, ChargeCounts
    <3> QED BY <1>4, <3>1, <3>2 DEF Arrive, ExternalUse, Deny, Undeliverable, Judging, ledgerVars
  <2> QED BY <2>1, <2>2, NobodyGetsOn DEF Typed, TypeOK
<1>5. CASE ContextMoves \/ LeaseMoves \/ \E i \in PermitId : revokePermit(i)
  BY <1>2, <1>5 DEF ContextMoves, Tick, Accept, Refuse, LeaseMoves, revokePermit, contextVars,
                    ledgerVars, fenceVars, requestVars
<1>6. CASE UNCHANGED vars
  BY <1>2, <1>6 DEF vars, contextVars, ledgerVars, fenceVars, requestVars
<1> QED BY <1>3, <1>4, <1>5, <1>6, RestartCounted DEF Next

\* The invariant of what is granted in a number, with the types of all variables.
THEOREM AllowanceInvariant == Spec => []AllowanceInv
<1>1. Init => AllowanceInv
  <2>1. SUFFICES ASSUME Init PROVE AllowanceInv
    OBVIOUS
  <2>2. GateInv
    BY <2>1 DEF Init, ContextInit, NoBudget, GateInv, GateType, BudgetNotOverdrawn,
           BootsOrdered, ForwardedIsSeen, NonceForwardedOnce, Forwarded
  <2>3. ChannelInv
    BY <2>1 DEF Init, ContextInit, ChannelInit, ChannelInv, ChannelSafe, ContextTypeOK,
           Remembered, LastSeqIsHighest, AcceptedOnce, NumberedInOrder,
           OnlyAcceptedLeavesTrace, RevocationsStick
  <2>4. TypeOK
    <3>1. ContextTypeOK /\ fenceMode \in FenceModes /\ seenNonce \subseteq Nonce
      BY <2>1, <2>3 DEF Init, ChannelInv, ChannelSafe
    <3>2. epoch \in Epoch \cup {0} /\ leased \in BOOLEAN /\ uses \in [Proof -> 0..MaxUses]
      <4>1. epoch = 0 /\ leased = FALSE /\ uses = [f \in Proof |-> 0]
        BY <2>1 DEF Init
      <4>2. 0 \in 0..MaxUses
        OBVIOUS
      <4>3. leased \in BOOLEAN
        BY <4>1, Zenon
      <4>4. uses \in [Proof -> 0..MaxUses]
        BY <4>1, <4>2, Zenon
      <4> QED BY <4>1, <4>3, <4>4
    <3>3. /\ budget \in [PermitId -> [maxCalls : Nat, used : Nat]]
          /\ pc \in [Request -> {"idle", "arrived", "authorizing", "forwarded", "refused", "lost"}]
          /\ job \in [Request -> Jobs \cup {NoJob}]
          /\ \A r \in Request : pc[r] # "idle" => job[r] \in Jobs
      BY <2>2 DEF GateInv, GateType
    <3> QED BY <3>1, <3>2, <3>3 DEF TypeOK
  <2>5. \A r \in Request : pc[r] = "idle"
    BY <2>1 DEF Init
  <2>6. WritesInStep
    BY <2>5 DEF WritesInStep
  <2>7. IsFiniteSet({}) /\ Cardinality({}) = 0
    BY FS_EmptySet
  <2>8. CallsCharged
    <3>1. \A i \in PermitId : CallsForwarded(i) = {}
      BY <2>5 DEF CallsForwarded, Forwarded
    <3>2. \A i \in PermitId : budget[i].used = 0
      BY <2>1 DEF Init, NoBudget
    <3>3. \A i \in PermitId :
            IsFiniteSet(CallsForwarded(i)) /\ Cardinality(CallsForwarded(i)) = 0
      BY <2>7, <3>1, Zenon
    <3> QED BY <3>2, <3>3 DEF CallsCharged
  <2>9. WritesCounted
    <3>1. \A f \in Proof : WritesAuthorized(f) = {}
      BY <2>5 DEF WritesAuthorized
    <3>2. \A f \in Proof : uses[f] = 0
      BY <2>1 DEF Init
    <3>3. \A f \in Proof :
            IsFiniteSet(WritesAuthorized(f)) /\ Cardinality(WritesAuthorized(f)) = 0
      BY <2>7, <3>1, Zenon
    <3> QED BY <3>2, <3>3 DEF WritesCounted
  <2> QED BY <2>2, <2>3, <2>4, <2>6, <2>8, <2>9 DEF AllowanceInv
<1>2. AllowanceInv /\ [Next]_vars => AllowanceInv'
  <2>1. SUFFICES ASSUME AllowanceInv, [Next]_vars PROVE AllowanceInv'
    OBVIOUS
  <2>2. GateInv' /\ ChannelInv'
    BY <2>1, GateInvStep, ChannelKept DEF AllowanceInv
  <2>3. TypeOK'
    BY <2>1, <2>2, TypeKept DEF AllowanceInv
  <2>4. Counted'
    BY <2>1, <2>3, CountedStep DEF AllowanceInv, Counted, Typed
  <2> QED BY <2>2, <2>3, <2>4 DEF AllowanceInv, Counted
<1> QED BY <1>1, <1>2, PTL DEF Spec

\* No more calls are forwarded under a permit id than its budget has, unless the
\* fence is only observed, and no more writes under a proof than the governor
\* grants uses of it, where the fence is enforced.
THEOREM KeepsAllowances == Spec => []AllowancesKept
<1>1. ASSUME AllowanceInv PROVE CallsWithinBudget
  <2>1. SUFFICES ASSUME fenceMode # "observe", NEW i \in PermitId
                 PROVE  Cardinality(CallsForwarded(i)) <= budget[i].maxCalls
    BY DEF CallsWithinBudget
  <2>2. IsFiniteSet(CallsForwarded(i)) /\ Cardinality(CallsForwarded(i)) <= budget[i].used
    BY <1>1, <2>1 DEF AllowanceInv, CallsCharged
  <2>3. Cardinality(CallsForwarded(i)) \in Nat
    BY <2>2, FS_CardinalityType
  <2>4. budget[i].used \in Nat /\ budget[i].maxCalls \in Nat
        /\ budget[i].used <= budget[i].maxCalls
    BY <1>1 DEF AllowanceInv, GateInv, GateType, BudgetNotOverdrawn
  <2> QED BY <2>2, <2>3, <2>4
<1>2. ASSUME AllowanceInv PROVE WritesWithinUses
  <2>1. SUFFICES ASSUME fenceMode = "enforce", NEW f \in Proof
                 PROVE  Cardinality(WritesForwarded(f)) <= MaxUses
    BY DEF WritesWithinUses
  <2>2. IsFiniteSet(WritesAuthorized(f)) /\ Cardinality(WritesAuthorized(f)) <= uses[f]
    BY <1>2, <2>1 DEF AllowanceInv, WritesCounted
  <2>3. WritesForwarded(f) \subseteq WritesAuthorized(f)
    <3>1. \A r \in Request : pc[r] = "forwarded" => job[r].left = 0 /\ job[r].writes \in Nat
      BY <1>2 DEF AllowanceInv, WritesInStep, TypeOK, Jobs
    <3> QED BY <3>1 DEF WritesForwarded, WritesAuthorized, Forwarded
  <2>4. uses[f] \in Nat /\ uses[f] <= MaxUses
    BY <1>2 DEF AllowanceInv, TypeOK
  <2>5. Cardinality(WritesForwarded(f)) <= uses[f]
        /\ IsFiniteSet(WritesForwarded(f))
    BY <2>2, <2>3, <2>4, PartCounted
  <2>6. Cardinality(WritesForwarded(f)) \in Nat
    BY <2>5, FS_CardinalityType
  <2> QED BY <2>4, <2>5, <2>6
<1>3. AllowanceInv => AllowancesKept
  BY <1>1, <1>2 DEF AllowanceInv, GateInv, AllowancesKept
<1> QED BY <1>3, AllowanceInvariant, PTL

=============================================================================
