----------------------------- MODULE PermitGate -----------------------------
(***************************************************************************)
(* How the gateway decides on a command (server/gateway_server.js /api,    *)
(* gateway/interactive-runtime.mjs, gateway/verifier.mjs and the ledger in *)
(* gateway/permit-store.mjs): the target is resolved, the use of a fence   *)
(* is authorized by the governor for every call that writes, awaiting each *)
(* answer, and then the permit is judged and charged in one turn of the    *)
(* event loop.  Between the awaits other requests, new contexts and        *)
(* revocations are handled.                                                *)
(*                                                                         *)
(* The permits presented here carry a valid signature and have the action  *)
(* and the origin in their scope, and the proofs are for writing: a        *)
(* request that lacks one of these is denied where the permit is judged.   *)
(***************************************************************************)
EXTENDS TrustedContext, FiniteSets

CONSTANTS
  Request,   \* requests to /api
  Permit,    \* signed permits
  Document,  \* what each permit says, a record (see PermitDocument)
  Nonce,
  Proof,     \* fence proofs the governor has issued, and invented ones
  NoProof,   \* the request carries no proof
  EpochOf,   \* the fence epoch of each proof
  MaxUses,   \* uses the governor grants a proof
  FenceModes, \* "off", "observe", "enforce": the modes the gateway may be started in
  Skew,      \* by how much a permit may be late (1000 ms)
  Ask,       \* what requests ask for, a set of records (see Asks)
  MaxCalls,  \* bound of the model: actions of a batch
  NoJob      \* the request has not arrived

PermitDocument ==
  [id : PermitId, nonce : Nonce, maxCalls : Nat \ {0}, expires : Nat,
   plan : Plan, durable : BOOLEAN]

\* "calls" are charged to the permit, "writes" of them need a fence; "known":
\* the gateway has a mapping for the commands.
Asks ==
  [permit : Permit, calls : 1..MaxCalls, writes : 0..MaxCalls,
   proof : Proof \cup {NoProof}, known : BOOLEAN]

ASSUME PermitAssumption ==
  /\ Document \in [Permit -> PermitDocument]
  /\ EpochOf \in [Proof -> Epoch] /\ Epoch \subseteq Nat \ {0} /\ NoProof \notin Proof
  /\ Ask \subseteq Asks
  /\ FenceModes \subseteq {"off", "observe", "enforce"}
  /\ MaxUses \in Nat /\ Skew \in Nat /\ MaxCalls \in Nat \ {0}

VARIABLES
  fenceMode, \* runtimefenceMode, from the environment: the same in every process
  seenNonce, \* permitStore.seenNonce: the nonces of the permits charged
  budget,    \* permitStore.budget by permit id, maxCalls 0 where it has no entry
  epoch,     \* the fence epoch of the profile, as the governor has it
  leased,    \* does it have a live lease?
  uses,      \* how often the governor has authorized each proof
  pc,        \* how far each request has come
  job        \* what it asks, and what was noted for it on the way

ledgerVars  == <<seenNonce, budget>>
fenceVars   == <<epoch, leased, uses>>
requestVars == <<pc, job>>
vars == <<fenceMode, contextVars, ledgerVars, fenceVars, requestVars>>

\* "left": the writes still to be authorized; "deliverable": there is a target
\* and the commands are known; "now": the time the request is judged at.
Jobs ==
  [permit : Permit, calls : 1..MaxCalls, writes : 0..MaxCalls, left : 0..MaxCalls,
   proof : Proof \cup {NoProof}, deliverable : BOOLEAN, now : 0..MaxTime,
   boot : 0..MaxBoots]

NoBudget == [i \in PermitId |-> [maxCalls |-> 0, used |-> 0]]

Init ==
  /\ ContextInit /\ fenceMode \in FenceModes
  /\ seenNonce = {} /\ budget = NoBudget
  /\ epoch = 0 /\ leased = FALSE /\ uses = [f \in Proof |-> 0]
  /\ pc = [r \in Request |-> "idle"] /\ job = [r \in Request |-> NoJob]

----------------------------------------------------------------------------
(* The request arrives, and the governor is asked *)

\* The target is resolved at once, and found if its extension is connected.  The
\* commands are mapped later, but what comes of it depends on the request only.
Arrive(r) ==
  /\ pc[r] = "idle"
  /\ \E a \in Ask, connected \in BOOLEAN :
       job' = [job EXCEPT ![r] =
                 [permit |-> a.permit, calls |-> a.calls, writes |-> a.writes, left |-> 0,
                  proof |-> a.proof, deliverable |-> a.known /\ connected,
                  now |-> clock, boot |-> boot]]
  /\ pc' = [pc EXCEPT ![r] = "arrived"]
  /\ UNCHANGED <<fenceMode, contextVars, ledgerVars, fenceVars>>

\* The awaited probe finds the profile in use by somebody else.
ExternalUse(r) ==
  /\ pc[r] = "arrived" /\ fenceMode = "enforce" /\ job[r].deliverable
  /\ pc' = [pc EXCEPT ![r] = "refused"]
  /\ UNCHANGED <<fenceMode, contextVars, ledgerVars, fenceVars, job>>

\* Mutant: one authorization stands for all the calls of a batch.
EnterOnce(r) ==
  /\ pc[r] = "arrived"
  /\ pc' = [pc EXCEPT ![r] = "authorizing"]
  /\ job' = [job EXCEPT ![r].now = clock,
                        ![r].left = IF fenceMode = "off" \/ job[r].writes = 0 THEN 0 ELSE 1]
  /\ UNCHANGED <<fenceMode, contextVars, ledgerVars, fenceVars>>

\* enforceRequestAsync is called: its argument "now" is the time of this call.
Enter(r) ==
  /\ pc[r] = "arrived"
  /\ pc' = [pc EXCEPT ![r] = "authorizing"]
  /\ job' = [job EXCEPT ![r].now = clock,
                        ![r].left = IF fenceMode = "off" THEN 0 ELSE job[r].writes]
  /\ UNCHANGED <<fenceMode, contextVars, ledgerVars, fenceVars>>

\* The governor's answer to authorizeFence.
Authorizes(f) == f # NoProof /\ leased /\ EpochOf[f] = epoch /\ uses[f] < MaxUses

Authorize(r) ==
  /\ pc[r] = "authorizing" /\ job[r].left > 0
  /\ Authorizes(job[r].proof)
  /\ uses' = [uses EXCEPT ![job[r].proof] = @ + 1]
  /\ job' = [job EXCEPT ![r].left = @ - 1]
  /\ UNCHANGED <<fenceMode, contextVars, ledgerVars, epoch, leased, pc>>

\* The first denial refuses the request; observing, it is only logged.
FenceDenied(r) ==
  /\ pc[r] = "authorizing" /\ job[r].left > 0
  /\ ~Authorizes(job[r].proof)
  /\ \/ /\ fenceMode = "enforce"
        /\ pc' = [pc EXCEPT ![r] = "refused"] /\ UNCHANGED job
     \/ /\ fenceMode = "observe"
        /\ job' = [job EXCEPT ![r].left = @ - 1] /\ UNCHANGED pc
  /\ UNCHANGED <<fenceMode, contextVars, ledgerVars, fenceVars>>

----------------------------------------------------------------------------
(* The permit is judged *)

Doc(r) == Document[job[r].permit]

\* A durable permit needs no context; any other is for the context of now.
Bound(r) ==
  Doc(r).durable \/ (Context # NoContext /\ Content[Context].plan = Doc(r).plan)

\* checkPhysicalFence and checkDurableFence
FenceMatches(r) ==
  \/ fenceMode = "off" \/ job[r].writes = 0
  \/ /\ job[r].proof # NoProof
     /\ IF leased THEN EpochOf[job[r].proof] = epoch
        ELSE ~Doc(r).durable /\ EpochOf[job[r].proof] = Content[Context].epoch

Revoked(r) ==
  \/ Doc(r).id \in revoked
  \/ ~Doc(r).durable /\ Doc(r).id \in Content[Context].revocations

Ceiling(r) ==
  LET entry == budget[Doc(r).id]
  IN  IF entry.maxCalls = 0 THEN Doc(r).maxCalls ELSE entry.maxCalls

\* Mutant: a batch is admitted as one call.
checkBudgetOnce(r) == budget[Doc(r).id].used + 1 <= Ceiling(r)

checkBudget(r) == budget[Doc(r).id].used + job[r].calls <= Ceiling(r)

\* Mutant: no look at what was revoked.
PermitAdmitsRevoked(r) ==
  /\ job[r].now <= Doc(r).expires + Skew
  /\ Doc(r).nonce \notin seenNonce
  /\ checkBudget(r)

PermitAdmits(r) ==
  /\ job[r].now <= Doc(r).expires + Skew
  /\ ~Revoked(r)
  /\ Doc(r).nonce \notin seenNonce
  /\ checkBudget(r)

Judging(r) == pc[r] = "authorizing" /\ job[r].left = 0

Admitted(r) == Bound(r) /\ FenceMatches(r) /\ PermitAdmits(r)

\* The fence is looked at before the permit's time, revocation, nonce and
\* budget, except in a batch, where the permit is judged for the whole first.
\* Observing, a failed fence ends the judgement, and the request is forwarded.
PassedThrough(r) ==
  /\ fenceMode = "observe" /\ Bound(r) /\ ~FenceMatches(r)
  /\ job[r].calls > 1 => PermitAdmits(r)

\* Mutant: the nonce is not marked.
ChargeBudgetOnly(r) ==
  /\ budget' = [budget EXCEPT ![Doc(r).id] =
                  [maxCalls |-> Ceiling(r), used |-> @.used + job[r].calls]]
  /\ UNCHANGED seenNonce

Charge(r) ==
  /\ budget' = [budget EXCEPT ![Doc(r).id] =
                  [maxCalls |-> Ceiling(r), used |-> @.used + job[r].calls]]
  /\ seenNonce' = seenNonce \cup {Doc(r).nonce}

Forward(r) ==
  /\ Judging(r) /\ job[r].deliverable
  /\ \/ Admitted(r) /\ Charge(r)
     \/ PassedThrough(r) /\ UNCHANGED ledgerVars
  /\ pc' = [pc EXCEPT ![r] = "forwarded"]
  /\ UNCHANGED <<fenceMode, contextVars, fenceVars, job>>

\* A request without a target is judged all the same, and answered NO_TARGET;
\* an unknown command is noticed after the permit was judged.
Undeliverable(r) ==
  /\ Judging(r) /\ ~job[r].deliverable
  /\ \/ Admitted(r) /\ Charge(r)
     \/ PassedThrough(r) /\ UNCHANGED ledgerVars
  /\ pc' = [pc EXCEPT ![r] = "refused"]
  /\ UNCHANGED <<fenceMode, contextVars, fenceVars, job>>

\* Mutant: the budget is reserved before the rest is known.
DenyCharged(r) ==
  /\ Judging(r) /\ ~Admitted(r) /\ ~PassedThrough(r)
  /\ IF checkBudget(r)
     THEN budget' = [budget EXCEPT ![Doc(r).id] =
                       [maxCalls |-> Ceiling(r), used |-> @.used + job[r].calls]]
     ELSE UNCHANGED budget
  /\ pc' = [pc EXCEPT ![r] = "refused"]
  /\ UNCHANGED <<fenceMode, contextVars, seenNonce, fenceVars, job>>

Deny(r) ==
  /\ Judging(r) /\ ~Admitted(r) /\ ~PassedThrough(r)
  /\ pc' = [pc EXCEPT ![r] = "refused"]
  /\ UNCHANGED <<fenceMode, contextVars, ledgerVars, fenceVars, job>>

----------------------------------------------------------------------------
(* What happens meanwhile *)

ContextMoves ==
  /\ Tick \/ \E m \in Message : Accept(m) \/ Refuse(m)
  /\ UNCHANGED <<fenceMode, ledgerVars, fenceVars, requestVars>>

\* POST /interactive/revoke
revokePermit(i) ==
  /\ revoked' = revoked \cup {i}
  /\ UNCHANGED <<fenceMode, clock, boot, channelVars, ledgerVars, fenceVars, requestVars>>

\* The lease of the profile ends, or one is granted, with an epoch of its own.
LeaseMoves ==
  /\ \/ leased /\ leased' = FALSE /\ UNCHANGED epoch
     \/ ~leased /\ epoch + 1 \in Epoch /\ leased' = TRUE /\ epoch' = epoch + 1
  /\ UNCHANGED <<fenceMode, contextVars, ledgerVars, uses, requestVars>>

Restart ==
  /\ Reset
  /\ seenNonce' = {} /\ budget' = NoBudget
  /\ pc' = [r \in Request |-> IF pc[r] \in {"arrived", "authorizing"} THEN "lost" ELSE pc[r]]
  /\ UNCHANGED <<fenceMode, fenceVars, job>>

Next ==
  \/ \E r \in Request :
       \/ Arrive(r) \/ ExternalUse(r) \/ Enter(r)
       \/ Authorize(r) \/ FenceDenied(r)
       \/ Forward(r) \/ Undeliverable(r) \/ Deny(r)
  \/ ContextMoves \/ LeaseMoves \/ Restart
  \/ \E i \in PermitId : revokePermit(i)

Spec == Init /\ [][Next]_vars

----------------------------------------------------------------------------
(* Properties *)

TypeOK ==
  /\ ContextTypeOK /\ fenceMode \in FenceModes
  /\ seenNonce \subseteq Nonce
  /\ budget \in [PermitId -> [maxCalls : Nat, used : Nat]]
  /\ epoch \in Epoch \cup {0} /\ leased \in BOOLEAN /\ uses \in [Proof -> 0..MaxUses]
  /\ pc \in [Request -> {"idle", "arrived", "authorizing", "forwarded", "refused", "lost"}]
  /\ job \in [Request -> Jobs \cup {NoJob}]
  /\ \A r \in Request : pc[r] # "idle" => job[r] \in Jobs

Forwarded == {r \in Request : pc[r] = "forwarded"}

\* A permit is good for one request: of the requests that present one nonce to
\* a gateway process, however they interleave while they wait for the governor,
\* at most one is forwarded.
NonceForwardedOnce ==
  \A r, s \in Forwarded :
    Doc(r).nonce = Doc(s).nonce /\ job[r].boot = job[s].boot => r = s

\* It is so as long as the fence is not just observed.
NonceForwardedOnceUnlessObserved == fenceMode # "observe" => NonceForwardedOnce

\* The calls that this process has forwarded under permit id i, each as its
\* request and its place in it.
CallsForwarded(i) ==
  {c \in Request \X (1..MaxCalls) :
     /\ c[1] \in Forwarded /\ Doc(c[1]).id = i /\ job[c[1]].boot = boot
     /\ c[2] <= job[c[1]].calls}

\* The calls forwarded under one permit id, by permits of different nonces and
\* in batches, never exceed what the permit that was charged first allows,
\* unless the fence is just observed.
CallsWithinBudget ==
  fenceMode # "observe" =>
    \A i \in PermitId : Cardinality(CallsForwarded(i)) <= budget[i].maxCalls

\* Whatever the fence says, and in every mode: no more is charged to a
\* permit id than the permit that was charged first allows, by single calls and
\* by batches whose checks are made for one call and for all of them.
BudgetNotOverdrawn ==
  \A i \in PermitId : budget[i].used <= budget[i].maxCalls

\* The forwarded calls that write and present proof f, by this process or before.
WritesForwarded(f) ==
  {w \in Request \X (1..MaxCalls) :
     /\ w[1] \in Forwarded /\ job[w[1]].proof = f
     /\ w[2] <= job[w[1]].writes}

\* Every forwarded call that writes has had a use of its proof to itself: no
\* more writes are forwarded under a proof than the governor grants it, also
\* when the calls of a batch, or several requests, present the same proof, where
\* the fence is enforced.
WritesWithinUses ==
  fenceMode = "enforce" =>
    \A f \in Proof : Cardinality(WritesForwarded(f)) <= MaxUses

\* A request whose permit was revoked, over the channel or by /interactive/revoke
\* and be it while the request was waiting for the governor, is not forwarded,
\* unless the fence is just observed.
RevokedNotForwarded ==
  [][\A r \in Request :
       pc[r] # "forwarded" /\ pc'[r] = "forwarded"
         => fenceMode = "observe" \/ Doc(r).id \notin revoked]_vars

\* A request that could have been delivered and is refused, by the fence or by
\* the permit, has spent neither the nonce nor the budget of its permit.
DenialSpendsNothing ==
  [][\A r \in Request :
       pc[r] # "refused" /\ pc'[r] = "refused" /\ job[r].deliverable
         => UNCHANGED ledgerVars]_vars

\* Nothing that is granted in a number is spent beyond it: the calls of a permit,
\* in single requests and batches, and the uses of a proof.
AllowancesKept == TypeOK /\ BudgetNotOverdrawn /\ CallsWithinBudget /\ WritesWithinUses
=============================================================================
