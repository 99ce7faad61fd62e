-------------------------- MODULE ProfileGovernor --------------------------
(***************************************************************************)
(* The profile session governor (src/profile-governor/): the leases and    *)
(* action fences of ONE physical profile resource, as kept in the durable  *)
(* state file of the governor repository.                                  *)
(*                                                                         *)
(* A repository transaction is synchronous, so it is one action.  What is  *)
(* not atomic is a governor call: it reads the state, awaits the Registry, *)
(* the Runner claims, the liveness probe and the grant revocation, and     *)
(* only then runs its transaction.  Calls of several callers interleave at *)
(* these awaits.  A call in flight keeps what it read (calls[c]); a call   *)
(* that is refused without a change of state is Refuse, at any time.       *)
(* acquire, reconcileProfile and detectExternalUse read nothing before     *)
(* their awaits and are single actions.                                    *)
(*                                                                         *)
(* Left out, because no guard tests it on one resource: aliases, run and   *)
(* binding identity (a mismatch refuses the call), and the event journal,  *)
(* whose bounds are a component of their own.                              *)
(***************************************************************************)
EXTENDS Naturals, FiniteSets

CONSTANTS
  Lease,          \* lease identifiers (opaqueId('lease'))
  NoLease,        \* currentLeaseId = null
  Fence,          \* fence identifiers within a lease
  Action,         \* journalled action identifiers
  Caller,         \* concurrent governor calls
  LeaseTtl,       \* ticks a granted or renewed lease lives
  FenceTtl,       \* ticks a fence lives: min(leaseTtlMs, 300000)
  TabLimit,       \* maxTabs
  UseLimit,       \* maxFenceUses: fences per lease and uses per fence
  MaxEpoch,       \* bound of the model: no step takes the epoch beyond it
  MaxGeneration   \* bound of the model: service restarts + 1

ASSUME ConstantsAssumption ==
  /\ NoLease \notin Lease
  /\ LeaseTtl \in Nat \ {0} /\ FenceTtl \in 1..LeaseTtl
  /\ TabLimit \in 1..8 /\ UseLimit \in 1..1000
  /\ MaxEpoch \in Nat /\ MaxGeneration \in Nat

\* At most JournalLimit actions are ever journalled here: the journal of a
\* lease keeps 64 entries, so no entry is shifted out of it.
JournalLimit == 64
ASSUME JournalAssumption ==
  IsFiniteSet(Action) /\ Cardinality(Action) <= JournalLimit

VARIABLES
  res,        \* the resource record of the state file
  leases,     \* every lease record of the state file
  generation, \* serviceGeneration of the state file
  calls,      \* the governor calls in flight, and what each has read
  lastUse     \* history: the lease and epoch of the latest authorized fence

vars == <<res, leases, generation, calls, lastUse>>

----------------------------------------------------------------------------
(* The profile state machine *)

State == {"unknown", "ready", "leased", "active", "cooldown", "external_use",
          "auth_required", "challenge", "rate_limited", "quarantined"}

Lifecycle == {"auth_required", "challenge", "rate_limited"}

transitions ==
  [s \in State |->
    CASE s = "unknown"      -> {"ready", "external_use", "quarantined"}
      [] s = "ready"        -> {"leased", "external_use", "quarantined", "unknown"}
      [] s = "leased"       -> Lifecycle \cup {"active", "cooldown", "external_use",
                                               "quarantined", "unknown"}
      [] s = "active"       -> Lifecycle \cup {"cooldown", "external_use",
                                               "quarantined", "unknown"}
      [] s \in {"cooldown", "external_use"} -> {"ready", "quarantined", "unknown"}
      [] s \in Lifecycle    -> {"quarantined", "unknown", "cooldown"}
      [] s = "quarantined"  -> {"ready", "unknown"}]

CanTransition(from, to) == from = to \/ to \in transitions[from]

----------------------------------------------------------------------------
(* Records *)

Outcome    == {"prepared", "dispatched", "confirmed", "failed-known", "indeterminate"}
Unresolved == {"prepared", "dispatched", "indeterminate"}

\* The outcomes that may follow an outcome in the action journal.
nextOutcomes(o) ==
  CASE o = "none"          -> {"prepared"}
    [] o = "prepared"      -> {"prepared", "dispatched"}
    [] o = "dispatched"    -> {"dispatched", "confirmed", "failed-known", "indeterminate"}
    [] o = "indeterminate" -> {"indeterminate", "failed-known"}
    [] OTHER               -> {o}

\* A fence record; a fence that is not issued has epoch 0.
NoFence   == [epoch |-> 0, uses |-> 0, ttl |-> 0]
NoFences  == [f \in Fence |-> NoFence]
Blank     == [state |-> "unissued", kind |-> "automation", epoch |-> 0, generation |-> 0,
              ttl |-> 0, tabs |-> 0, issued |-> 0, fences |-> NoFences,
              journal |-> [a \in Action |-> "none"]]

\* Why the recovery plan digest was last computed; with the lease and the
\* epoch, which the digest also covers, this is all that evidence must match.
PlanReason == {"none", "restart", "external", "unsafe", "indeterminate", "barrier"}

Idle == [op |-> "idle"]

Issued(l) == leases[l].state # "unissued"

\* _assertLeaseFacts: the lease is current and the epoch (hence the binding
\* digest, which is a function of it) is the caller's.
Facts(l, e) == res.owner = l /\ leases[l].epoch = e

Usable(s) == s \in {"leased", "active"}

\* isExternalRecoveryResource
ExternallyHeld(l) ==
  \/ res.state = "external_use"
  \/ res.subject # "none"
  \/ l # NoLease /\ leases[l].kind = "external"

HasUnresolved(l)    == \E a \in Action : leases[l].journal[a] \in Unresolved
HasIndeterminate(l) == \E a \in Action : leases[l].journal[a] = "indeterminate"

Init ==
  /\ res = [state |-> "unknown", epoch |-> 0, owner |-> NoLease, recon |-> TRUE,
            subject |-> "none", plan |-> "none", cooling |-> FALSE]
  /\ leases = [l \in Lease |-> Blank]
  /\ generation = 1
  /\ calls = [c \in Caller |-> Idle]
  /\ lastUse = [lease |-> NoLease, epoch |-> 0]

----------------------------------------------------------------------------
(* Mutations shared by several calls *)

\* The owner is fenced off: a new epoch that no caller knows, no fences.
Quarantine(l, reason) ==
  /\ res.epoch < MaxEpoch
  /\ CanTransition(res.state, "quarantined")
  /\ res' = [res EXCEPT !.state = "quarantined", !.epoch = res.epoch + 1,
                        !.recon = TRUE, !.plan = reason]
  /\ leases' = [leases EXCEPT ![l].state = "quarantined", ![l].epoch = res.epoch + 1,
                              ![l].fences = NoFences]

\* Mutant: the external lease leaves no mark on the resource.
MintExternalUnmarked(r, l) ==
  LET e == IF r.epoch = 0 THEN 1 ELSE r.epoch
  IN  /\ res' = [r EXCEPT !.owner = l, !.epoch = e, !.plan = "external"]
      /\ leases' = [leases EXCEPT ![l] =
                      [Blank EXCEPT !.state = "external_use", !.kind = "external", !.epoch = e,
                                    !.generation = generation, !.ttl = LeaseTtl]]

\* A lease for whoever uses the browser outside the governor.  It takes over
\* the epoch of the resource, except that epochs start at 1.
MintExternal(r, l) ==
  LET e == IF r.epoch = 0 THEN 1 ELSE r.epoch
  IN  /\ res' = [r EXCEPT !.owner = l, !.epoch = e, !.plan = "external",
                          !.subject = IF r.subject = "none" THEN "unregistered" ELSE r.subject]
      /\ leases' = [leases EXCEPT ![l] =
                      [Blank EXCEPT !.state = "external_use", !.kind = "external", !.epoch = e,
                                    !.generation = generation, !.ttl = LeaseTtl]]

\* _prepareExternalRecovery, on the record r that has just been moved to (or
\* found in) external_use.
PrepareExternalRecovery(r) ==
  \/ /\ r.owner # NoLease /\ leases[r.owner].kind = "automation"
     /\ res' = [r EXCEPT !.plan = "external"]
     /\ UNCHANGED leases
  \/ /\ r.owner # NoLease /\ leases[r.owner].kind = "external"
     /\ res' = [r EXCEPT !.plan = "external",
                         !.subject = IF r.subject = "none" THEN "registered" ELSE r.subject]
     /\ UNCHANGED leases
  \/ /\ r.owner = NoLease
     /\ \E l \in Lease : ~Issued(l) /\ MintExternal(r, l)

----------------------------------------------------------------------------
(* Reconciliation, and the ways external use is noticed *)

\* What evaluateLiveness can return: external use (browser up, extension
\* gone) and an indeterminate probe are never summarised as healthy.
Liveness ==
  {v \in [summary : {"healthy", "failed", "unknown"},
          indeterminate : BOOLEAN, external : BOOLEAN] :
     /\ v.indeterminate => v.summary = "unknown"
     /\ v.external => v.summary # "healthy"}

ToExternalUse ==
  /\ CanTransition(res.state, "external_use")
  /\ PrepareExternalRecovery([res EXCEPT !.state = "external_use", !.recon = TRUE])

ReconcileExternal(live) ==
  /\ res.state = "external_use" \/ res.subject # "none"
  /\ ToExternalUse

\* Not healthy, but the browser is in somebody else's hands.
ReconcileExternalUse(live) ==
  /\ res.state # "external_use" /\ res.subject = "none"
  /\ live.external
  /\ \/ res.state # "quarantined" /\ ToExternalUse
     \/ /\ res.state = "quarantined"
        /\ res' = [res EXCEPT !.recon = TRUE]
        /\ UNCHANGED leases

\* Not healthy: an owner whose liveness failed or is indeterminate is
\* quarantined, everything else becomes unknown.
ReconcileUnhealthy(live) ==
  /\ res.state # "external_use" /\ res.subject = "none"
  /\ live.summary # "healthy" /\ ~live.external
  /\ LET condemned == /\ res.owner # NoLease /\ res.state # "quarantined"
                      /\ live.summary = "failed" \/ live.indeterminate
     IN  \/ condemned /\ Quarantine(res.owner, "unsafe")
         \/ /\ ~condemned
            /\ res' = [res EXCEPT !.recon = TRUE,
                                  !.state = IF @ = "quarantined" THEN @ ELSE "unknown"]
            /\ UNCHANGED leases

ReconcileOwned(live) ==
  /\ res.state # "external_use" /\ res.subject = "none"
  /\ live.summary = "healthy" /\ res.owner # NoLease
  /\ res' = [res EXCEPT !.recon = TRUE]
  /\ UNCHANGED leases

ReconcileFree(live) ==
  /\ res.state # "external_use" /\ res.subject = "none"
  /\ live.summary = "healthy" /\ res.owner = NoLease /\ res.state # "quarantined"
  /\ res' = IF res.state = "cooldown" /\ res.cooling
            THEN [res EXCEPT !.recon = TRUE]
            ELSE [res EXCEPT !.recon = FALSE,
                             !.state = IF @ \in {"cooldown", "unknown"} THEN "ready" ELSE @]
  /\ UNCHANGED leases

\* reconcileProfile
Reconcile(live) ==
  /\ \/ ReconcileExternal(live)
     \/ ReconcileExternalUse(live)
     \/ ReconcileUnhealthy(live)
     \/ ReconcileOwned(live)
     \/ ReconcileFree(live)
  /\ UNCHANGED <<generation, calls, lastUse>>

DetectExternalUse ==
  /\ res.owner = NoLease
  /\ ToExternalUse
  /\ UNCHANGED <<generation, calls, lastUse>>

----------------------------------------------------------------------------
(* acquire *)

\* Mutant: a new owner under the old epoch.
AcquireSameEpoch(kind, l) ==
  /\ res.owner = NoLease /\ res.state = "ready" /\ ~res.recon /\ ~Issued(l)
  /\ LET s == IF kind = "external" THEN "external_use" ELSE "leased"
     IN  /\ res' = [res EXCEPT !.state = s, !.owner = l, !.recon = FALSE,
                               !.subject = IF kind = "external" THEN "registered" ELSE "none",
                               !.plan = IF kind = "external" THEN "external" ELSE "none"]
         /\ leases' = [leases EXCEPT ![l] =
                         [Blank EXCEPT !.state = s, !.kind = kind, !.epoch = res.epoch,
                                       !.generation = generation, !.ttl = LeaseTtl]]
  /\ UNCHANGED <<generation, calls, lastUse>>

\* assertReconciliationForAcquire, when there is no current lease.
Acquire(kind, l) ==
  /\ res.owner = NoLease /\ res.state = "ready" /\ ~res.recon
  /\ ~Issued(l) /\ res.epoch < MaxEpoch
  /\ LET s == IF kind = "external" THEN "external_use" ELSE "leased"
     IN  /\ res' = [res EXCEPT !.state = s, !.epoch = @ + 1, !.owner = l, !.recon = FALSE,
                               !.subject = IF kind = "external" THEN "registered" ELSE "none",
                               !.plan = IF kind = "external" THEN "external" ELSE "none"]
         /\ leases' = [leases EXCEPT ![l] =
                         [Blank EXCEPT !.state = s, !.kind = kind, !.epoch = res.epoch + 1,
                                       !.generation = generation, !.ttl = LeaseTtl]]
  /\ UNCHANGED <<generation, calls, lastUse>>

\* An automation acquire whose liveness check failed marks the resource,
\* whoever owns it, before it throws.
AcquireDenied(external) ==
  /\ \/ /\ res.state \in {"unknown", "quarantined"}
        /\ res' = [res EXCEPT !.recon = TRUE]
        /\ UNCHANGED leases
     \/ /\ res.state \notin {"unknown", "quarantined"} /\ external
        /\ ToExternalUse
     \/ /\ res.state \notin {"unknown", "quarantined"} /\ ~external
        /\ res' = [res EXCEPT !.state = "unknown", !.recon = TRUE]
        /\ UNCHANGED leases
  /\ UNCHANGED <<generation, calls, lastUse>>

----------------------------------------------------------------------------
(* Calls that read, await and commit *)

Begin(c, call) ==
  /\ calls[c] = Idle
  /\ calls' = [calls EXCEPT ![c] = call]
  /\ UNCHANGED <<res, leases, generation, lastUse>>

Finish(c) ==
  /\ calls' = [calls EXCEPT ![c] = Idle]
  /\ UNCHANGED generation

\* The call is refused with no effect on the state: bad input, a denied
\* action, an adapter's answer that raises no barrier, a stale commit.
Refuse(c) ==
  /\ calls[c] # Idle
  /\ Finish(c)
  /\ UNCHANGED <<res, leases, lastUse>>

\* _establishRevocationBarrier: some call on lease l finds its claim, binding
\* or liveness wrong, or (release) an unresolved action or a grant that is not
\* revoked.  Of what the call has read only the lease matters, so this may
\* come at any of its awaits; the call itself then fails: Refuse.
Barrier(l) ==
  /\ res.owner = l
  /\ \/ ExternallyHeld(l) /\ res' = [res EXCEPT !.recon = TRUE] /\ UNCHANGED leases
     \/ ~ExternallyHeld(l) /\ Quarantine(l, "barrier")
  /\ UNCHANGED <<generation, calls, lastUse>>

\* _persistLifecycleState: some call on lease l hears of a lifecycle gate.
LifecycleGate(l, to) ==
  /\ res.owner = l
  /\ leases[l].state \in {"leased", "active", to} /\ res.state \in {"leased", "active", to}
  /\ res' = [res EXCEPT !.state = to, !.recon = TRUE]
  /\ leases' = [leases EXCEPT ![l].state = to]
  /\ UNCHANGED <<generation, calls, lastUse>>

OpenTabBegin(c, l) ==
  /\ res.owner = l /\ leases[l].ttl > 0
  /\ Usable(leases[l].state) /\ Usable(res.state)
  /\ Begin(c, [op |-> "openTab", lease |-> l, epoch |-> leases[l].epoch])

\* Mutant: the quota is not counted again.
OpenTabCommitUncounted(c) ==
  LET l == calls[c].lease IN
  /\ calls[c].op = "openTab"
  /\ Facts(l, calls[c].epoch) /\ leases[l].ttl > 0
  /\ Usable(leases[l].state) /\ Usable(res.state)
  /\ leases' = [leases EXCEPT ![l].tabs = @ + 1]
  /\ Finish(c) /\ UNCHANGED <<res, lastUse>>

OpenTabCommit(c) ==
  LET l == calls[c].lease IN
  /\ calls[c].op = "openTab"
  /\ Facts(l, calls[c].epoch) /\ leases[l].ttl > 0
  /\ Usable(leases[l].state) /\ Usable(res.state)
  /\ leases[l].tabs < TabLimit
  /\ leases' = [leases EXCEPT ![l].tabs = @ + 1]
  /\ Finish(c) /\ UNCHANGED <<res, lastUse>>

HeartbeatBegin(c, l) ==
  /\ res.owner = l /\ leases[l].ttl > 0
  /\ Begin(c, [op |-> "heartbeat", lease |-> l, epoch |-> leases[l].epoch])

HeartbeatCommit(c) ==
  LET l == calls[c].lease IN
  /\ calls[c].op = "heartbeat"
  /\ Facts(l, calls[c].epoch) /\ leases[l].ttl > 0
  /\ leases' = [leases EXCEPT ![l].ttl = LeaseTtl]
  /\ Finish(c) /\ UNCHANGED <<res, lastUse>>

\* A heartbeat that finds the lease expired when it first reads; it awaits
\* nothing before its transaction.  (Found at the commit, the same change is
\* thrown away with the transaction: Refuse.)
HeartbeatExpired(l) ==
  /\ res.owner = l /\ leases[l].ttl = 0 /\ ~ExternallyHeld(l)
  /\ CanTransition(res.state, "unknown")
  /\ res' = [res EXCEPT !.state = "unknown", !.recon = TRUE]
  /\ UNCHANGED <<leases, generation, calls, lastUse>>

\* Mutant: no look at external use.
ReleaseBeginUnguarded(c, l) ==
  /\ res.owner = l
  /\ Begin(c, [op |-> "release", lease |-> l, epoch |-> leases[l].epoch,
               unresolved |-> HasUnresolved(l)])

ReleaseBegin(c, l) ==
  /\ res.owner = l /\ ~ExternallyHeld(l)
  /\ Begin(c, [op |-> "release", lease |-> l, epoch |-> leases[l].epoch,
               unresolved |-> HasUnresolved(l)])

ReleaseCommit(c) ==
  LET l == calls[c].lease IN
  /\ calls[c].op = "release" /\ ~calls[c].unresolved
  /\ Facts(l, calls[c].epoch)
  /\ res' = [res EXCEPT !.state = "cooldown", !.owner = NoLease,
                        !.cooling = TRUE, !.recon = TRUE]
  /\ leases' = [leases EXCEPT ![l].state = "cooldown"]
  /\ Finish(c) /\ UNCHANGED lastUse

CreateFenceBegin(c, l) ==
  /\ res.owner = l /\ leases[l].ttl > 0 /\ Usable(res.state)
  /\ Begin(c, [op |-> "createFence", lease |-> l, epoch |-> leases[l].epoch])

\* Mutant: the state of the resource is not looked at again.
CreateFenceCommitStale(c, f) ==
  LET l == calls[c].lease IN
  /\ calls[c].op = "createFence"
  /\ Facts(l, calls[c].epoch) /\ leases[l].ttl > 0
  /\ leases[l].issued < UseLimit /\ leases[l].fences[f] = NoFence
  /\ res' = [res EXCEPT !.state = IF leases[l].state = "leased" THEN "active" ELSE @]
  /\ leases' = [leases EXCEPT
       ![l].state = IF @ = "leased" THEN "active" ELSE @,
       ![l].issued = @ + 1,
       ![l].fences[f] = [epoch |-> leases[l].epoch, uses |-> 0, ttl |-> FenceTtl]]
  /\ Finish(c) /\ UNCHANGED lastUse

CreateFenceCommit(c, f) ==
  LET l == calls[c].lease IN
  /\ calls[c].op = "createFence"
  /\ Facts(l, calls[c].epoch) /\ leases[l].ttl > 0 /\ Usable(res.state)
  /\ leases[l].issued < UseLimit /\ leases[l].fences[f] = NoFence
  /\ res' = [res EXCEPT !.state = IF leases[l].state = "leased" THEN "active" ELSE @]
  /\ leases' = [leases EXCEPT
       ![l].state = IF @ = "leased" THEN "active" ELSE @,
       ![l].issued = @ + 1,
       ![l].fences[f] = [epoch |-> leases[l].epoch, uses |-> 0, ttl |-> FenceTtl]]
  /\ Finish(c) /\ UNCHANGED lastUse

\* The fence presented is one that the lease has issued and still holds.
FenceCurrent(l, f, e) == leases[l].fences[f] # NoFence /\ leases[l].fences[f].epoch = e

AuthorizeFenceBegin(c, l, f) ==
  /\ res.owner = l /\ Usable(res.state)
  /\ FenceCurrent(l, f, leases[l].epoch) /\ leases[l].fences[f].ttl > 0
  /\ Begin(c, [op |-> "authorizeFence", lease |-> l, epoch |-> leases[l].epoch, fence |-> f])

AuthorizeFenceCommit(c) ==
  LET l == calls[c].lease
      f == calls[c].fence IN
  /\ calls[c].op = "authorizeFence"
  /\ Facts(l, calls[c].epoch) /\ Usable(res.state)
  /\ FenceCurrent(l, f, calls[c].epoch)
  /\ leases[l].ttl > 0 /\ leases[l].fences[f].ttl > 0
  /\ leases[l].fences[f].uses < UseLimit
  /\ leases' = [leases EXCEPT ![l].fences[f].uses = @ + 1]
  /\ lastUse' = [lease |-> l, epoch |-> calls[c].epoch]
  /\ Finish(c) /\ UNCHANGED res

\* A trusted resolution may set any outcome on an unresolved action; any
\* other record needs a fence that has been used and the outcome order.
\* The order is judged on what the call read.
RecordActionBegin(c, l, a, o, trusted) ==
  /\ res.owner = l
  /\ \/ trusted /\ leases[l].journal[a] \in Unresolved
     \/ /\ ~trusted
        /\ \E f \in Fence : FenceCurrent(l, f, leases[l].epoch) /\ leases[l].fences[f].uses >= 1
        /\ o \in nextOutcomes(leases[l].journal[a])
  /\ Begin(c, [op |-> "recordAction", lease |-> l, epoch |-> leases[l].epoch,
               action |-> a, outcome |-> o])

\* Mutant: an unknown effect is only noted.
RecordActionCommitNoteOnly(c) ==
  LET l == calls[c].lease IN
  /\ calls[c].op = "recordAction"
  /\ Facts(l, calls[c].epoch)
  /\ leases' = [leases EXCEPT ![l].journal[calls[c].action] = calls[c].outcome]
  /\ Finish(c) /\ UNCHANGED <<res, lastUse>>

\* The journal entry; an outward effect nobody knows also quarantines.
RecordActionCommit(c) ==
  LET l == calls[c].lease
      o == calls[c].outcome
      noted == [leases[l].journal EXCEPT ![calls[c].action] = o] IN
  /\ calls[c].op = "recordAction"
  /\ Facts(l, calls[c].epoch)
  /\ \/ /\ o # "indeterminate"
        /\ leases' = [leases EXCEPT ![l].journal = noted]
        /\ UNCHANGED res
     \/ /\ o = "indeterminate"
        /\ res.epoch < MaxEpoch /\ CanTransition(res.state, "quarantined")
        /\ res' = [res EXCEPT !.state = "quarantined", !.epoch = @ + 1,
                              !.recon = TRUE, !.plan = "indeterminate"]
        /\ leases' = [leases EXCEPT ![l].journal = noted, ![l].state = "quarantined",
                                    ![l].epoch = res.epoch + 1, ![l].fences = NoFences]
  /\ Finish(c) /\ UNCHANGED lastUse

TransitionBegin(c, l, to) ==
  /\ res.owner = l
  /\ Begin(c, [op |-> "transition", lease |-> l, epoch |-> leases[l].epoch, to |-> to])

TransitionCommit(c) ==
  /\ calls[c].op = "transition"
  /\ Facts(calls[c].lease, calls[c].epoch)
  /\ Usable(leases[calls[c].lease].state)
  /\ CanTransition(res.state, calls[c].to)
  /\ res' = [res EXCEPT !.state = calls[c].to, !.recon = TRUE]
  /\ leases' = [leases EXCEPT ![calls[c].lease].state = calls[c].to]
  /\ Finish(c) /\ UNCHANGED lastUse

RecoverBegin(c, l) ==
  /\ res.owner = l /\ ~ExternallyHeld(l) /\ ~HasIndeterminate(l)
  /\ Begin(c, [op |-> "recover", lease |-> l, epoch |-> res.epoch,
               state |-> res.state, plan |-> res.plan])

\* applyEvidenceRecovery: the evidence names the state, epoch and plan that
\* were shown to the authorizer; all of them must still be what is stored.
RecoverCommit(c) ==
  LET l == calls[c].lease IN
  /\ calls[c].op = "recover"
  /\ res.owner = l /\ res.state \in {"unknown", "quarantined"} /\ ~HasIndeterminate(l)
  /\ res.state = calls[c].state /\ res.epoch = calls[c].epoch
  /\ res.plan = calls[c].plan /\ res.plan # "none"
  /\ res.epoch < MaxEpoch
  /\ res' = [res EXCEPT !.state = "ready", !.epoch = @ + 1, !.owner = NoLease, !.recon = FALSE]
  /\ leases' = [leases EXCEPT ![l].state = "cooldown", ![l].epoch = res.epoch + 1,
                              ![l].fences = NoFences]
  /\ Finish(c) /\ UNCHANGED lastUse

----------------------------------------------------------------------------
(* Time, and the host *)

Elapse(t) == IF t = 0 THEN 0 ELSE t - 1
FencesElapse(fs) == [f \in Fence |-> [fs[f] EXCEPT !.ttl = Elapse(@)]]

\* A tick: the times written in the current lease and its fences come nearer,
\* and a cooldown ends.  (No guard reads the times of another lease.)
Tick ==
  /\ IF res.owner = NoLease THEN UNCHANGED leases
     ELSE leases' = [leases EXCEPT ![res.owner].ttl = Elapse(@),
                                   ![res.owner].fences = FencesElapse(@)]
  /\ res' = [res EXCEPT !.cooling = FALSE]
  /\ UNCHANGED <<generation, calls, lastUse>>

\* Mutant: the new process trusts the state it finds.
HostRestartTrusting ==
  /\ generation < MaxGeneration
  /\ generation' = generation + 1
  /\ calls' = [c \in Caller |-> Idle]
  /\ res' = [res EXCEPT !.recon = TRUE]
  /\ UNCHANGED <<leases, lastUse>>

\* The process dies, with the calls it was serving, and a new one starts on
\* the same state file: markStartupUnknown.
HostRestart ==
  /\ generation < MaxGeneration
  /\ generation' = generation + 1
  /\ calls' = [c \in Caller |-> Idle]
  /\ res' = [res EXCEPT
       !.state = IF ExternallyHeld(res.owner) THEN "external_use" ELSE "unknown",
       !.recon = TRUE,
       !.plan = IF res.owner = NoLease THEN @
                ELSE IF ExternallyHeld(res.owner) THEN "external" ELSE "restart"]
  /\ UNCHANGED <<leases, lastUse>>

CallStep(c) ==
  \/ Refuse(c) \/ OpenTabCommit(c) \/ HeartbeatCommit(c) \/ ReleaseCommit(c)
  \/ \E f \in Fence : CreateFenceCommit(c, f)
  \/ AuthorizeFenceCommit(c) \/ RecordActionCommit(c)
  \/ TransitionCommit(c) \/ RecoverCommit(c)

CallBegin(c, l) ==
  \/ OpenTabBegin(c, l) \/ HeartbeatBegin(c, l) \/ ReleaseBegin(c, l)
  \/ CreateFenceBegin(c, l) \/ RecoverBegin(c, l)
  \/ \E f \in Fence : AuthorizeFenceBegin(c, l, f)
  \/ \E a \in Action, o \in Outcome, t \in BOOLEAN : RecordActionBegin(c, l, a, o, t)
  \/ \E to \in Lifecycle : TransitionBegin(c, l, to)

Next ==
  \/ \E live \in Liveness : Reconcile(live)
  \/ DetectExternalUse
  \/ \E kind \in {"automation", "external"}, l \in Lease : Acquire(kind, l)
  \/ \E external \in BOOLEAN : AcquireDenied(external)
  \/ \E c \in Caller, l \in Lease : CallBegin(c, l)
  \/ \E c \in Caller : CallStep(c)
  \/ \E l \in Lease : HeartbeatExpired(l) \/ Barrier(l)
  \/ \E l \in Lease, to \in Lifecycle : LifecycleGate(l, to)
  \/ Tick \/ HostRestart

Spec == Init /\ [][Next]_vars

----------------------------------------------------------------------------
(* Correctness *)

FenceRecord == [epoch : Nat, uses : 0..UseLimit, ttl : 0..FenceTtl]

LeaseRecord ==
  [state : State \cup {"unissued"}, kind : {"automation", "external"}, epoch : Nat,
   generation : Nat, ttl : 0..LeaseTtl, tabs : 0..TabLimit, issued : 0..UseLimit,
   fences : [Fence -> FenceRecord], journal : [Action -> Outcome \cup {"none"}]]

Call ==
  {Idle}
  \cup [op : {"openTab", "heartbeat", "createFence"}, lease : Lease, epoch : Nat]
  \cup [op : {"release"}, lease : Lease, epoch : Nat, unresolved : BOOLEAN]
  \cup [op : {"authorizeFence"}, lease : Lease, epoch : Nat, fence : Fence]
  \cup [op : {"recordAction"}, lease : Lease, epoch : Nat, action : Action, outcome : Outcome]
  \cup [op : {"transition"}, lease : Lease, epoch : Nat, to : Lifecycle]
  \cup [op : {"recover"}, lease : Lease, epoch : Nat, state : State, plan : PlanReason]

\* Every record keeps its shape, and the quotas of tabs, fences and fence
\* uses hold although several calls pass the same check before they commit.
TypeOK ==
  /\ res \in [state : State, epoch : Nat, owner : Lease \cup {NoLease}, recon : BOOLEAN,
              subject : {"none", "registered", "unregistered"}, plan : PlanReason,
              cooling : BOOLEAN]
  /\ leases \in [Lease -> LeaseRecord]
  /\ generation \in Nat
  /\ calls \in [Caller -> Call]
  /\ lastUse \in [lease : Lease \cup {NoLease}, epoch : Nat]

\* The record of the current lease agrees with the resource that names it.
OwnerIsConsistent ==
  res.owner # NoLease =>
    /\ Issued(res.owner) /\ leases[res.owner].epoch = res.epoch
    /\ (res.subject # "none") <=> (leases[res.owner].kind = "external")

\* States in which somebody must, and in which nobody may, own the resource.
OwnerFitsState ==
  /\ res.state \in {"leased", "active", "quarantined"} => res.owner # NoLease
  /\ res.state \in {"ready", "cooldown"} => res.owner = NoLease

\* A lease that is not released is the current one; fences bear its epoch.
LeasesAreConsistent ==
  \A l \in Lease :
    Issued(l) =>
      /\ leases[l].epoch >= 1
      /\ leases[l].state # "cooldown" => res.owner = l
      /\ \A f \in Fence : leases[l].fences[f] # NoFence
                            => leases[l].fences[f].epoch = leases[l].epoch

\* No transaction of any interleaving produces a state that validateState
\* refuses.  It would be refused on every later read too: the governor of
\* all profiles would be out of service.
ValidState == OwnerIsConsistent /\ OwnerFitsState /\ LeasesAreConsistent

\* Authority is never resurrected: while fences can be used, the lease was
\* granted by this run of the service and agrees with the resource on how.
NoResurrection ==
  Usable(res.state) =>
    /\ leases[res.owner].generation = generation
    /\ leases[res.owner].state = res.state /\ leases[res.owner].kind = "automation"

\* Facts of one lease never pass for those of another: every lease that has
\* been given up is at an epoch below that of the automation lease in force.
\* (The binding digest has no lease id in it, so the epoch must differ.)
EpochsSeparateOwners ==
  \A l \in Lease :
    Issued(l) /\ l # res.owner =>
      /\ leases[l].epoch <= res.epoch
      /\ (res.owner # NoLease /\ leases[res.owner].kind = "automation")
            => leases[l].epoch < res.epoch

\* What a call k has read before its awaits and may still rely on after them:
\* its lease and, for the calls that bar external use, the kind of its owner;
\* and a release whose epoch is still current has missed no unknown effect.
Rooted(k) ==
  /\ Issued(k.lease) /\ k.epoch <= leases[k.lease].epoch
  /\ k.op \in {"release", "recover", "recordAction"} => leases[k.lease].kind = "automation"
  /\ k.op = "release" /\ Facts(k.lease, k.epoch) => k.unresolved \/ ~HasIndeterminate(k.lease)

CallsAreRooted == \A c \in Caller : calls[c].op # "idle" => Rooted(calls[c])

\* An action of unknown outcome pins the resource to its lease: neither a
\* release that began earlier, nor recovery, nor a restart frees it before
\* a trusted resolution of the action.
IndeterminatePinsOwner ==
  [][res.owner # NoLease /\ HasIndeterminate(res.owner) => res'.owner = res.owner]_vars

\* Once durably recorded, external use is never laundered: the marker, the
\* external lease and its epoch stay, and nobody gets authority.
ExternalProvenanceKept ==
  [][res.subject # "none" =>
       /\ res'.subject = res.subject /\ res'.owner = res.owner /\ res'.epoch = res.epoch
       /\ ~Usable(res'.state)]_vars

\* The promise: one holder, epochs that only advance, no authority reopened.
Ownership == INSTANCE FencedOwnership
               WITH holder <- res.owner, epoch <- res.epoch, open <- Usable(res.state)

ImplementsFencedOwnership == Ownership!Spec

\* Fences are authorized in epoch order, and under one epoch for one lease.
FenceUsesInEpochOrder == Ownership!UsesInEpochOrder

----------------------------------------------------------------------------
(* What the repository says and an interleaving of calls refutes *)

\* A lease is released only when no action of its journal is unresolved.
ReleaseAfterActionsResolved ==
  [][res'.state = "cooldown" /\ res.owner # NoLease => ~HasUnresolved(res.owner)]_vars
=============================================================================
