------------------------- MODULE ExecutionReceipts -------------------------
(***************************************************************************)
(* What the gateway certifies (server/gateway_server.js, POST /api, and    *)
(* server/gateway/interactive-runtime.mjs): every verdict on a call, one   *)
(* per action of a batch and one for the whole, becomes a receipt in a     *)
(* registry in memory, and the receipts of the answer can be verified      *)
(* later.  A reply finds its call by a number alone, and a process that    *)
(* starts counts from 1 again while the extension still runs what it was   *)
(* sent before.  Where a call goes is in ProfileRouting, which permit      *)
(* admits it in PermitGate, the sockets in GatewayServer.                  *)
(***************************************************************************)
EXTENDS Naturals, Sequences

CONSTANTS
  Call,
  MaxActions  \* bound of the model: actions of a batch

ASSUME ReceiptsAssumption == MaxActions \in Nat \ {0}

VARIABLES
  calls,     \* the calls: what was asked, how far each is, what was answered
  told,      \* per call: what the extension has for each action so far
  did,       \* per call: the actions that took effect in the browser
  registry,  \* _receiptRegistry
  nextId,    \* the number of the next command
  reused     \* history: calls sent under a number another reply was due for

receiptsVars == <<calls, told, did, registry, nextId, reused>>

\* Action 0 is a single command, or a batch as a whole; "fence-lost", the other name
\* of a refusal, counts as "blocked".
Receipt == [call : Call, action : 0 .. MaxActions,
            attempt : {"not-attempted", "attempted"},
            outcome : {"not-applied", "applied", "failed", "blocked", "indeterminate"},
            reason : BOOLEAN]
Asked   == [batch : {FALSE}, n : {1}, stop : {FALSE}]
           \cup [batch : {TRUE}, n : 1 .. MaxActions, stop : BOOLEAN]

ReceiptsTypeOK ==
  /\ \A c \in Call :
       /\ calls[c].phase \in {"new", "judging", "allowed", "pending", "answered", "lost"}
       /\ calls[c].phase # "new" => calls[c].asked \in Asked
       /\ calls[c].ok \in BOOLEAN /\ calls[c].receipts \subseteq Receipt
       /\ calls[c].id \in Nat /\ calls[c].due \in BOOLEAN /\ calls[c].past \in BOOLEAN
       /\ told[c] \in Seq(BOOLEAN) /\ Len(told[c]) <= MaxActions
       /\ did[c] \subseteq 1 .. MaxActions
  /\ registry \subseteq Receipt /\ nextId \in Nat \ {0} /\ reused \subseteq Call

\* A call has the number of its command, may still have a reply to come (due), and
\* may have been handled by a process that has ended (past).
New == [phase |-> "new", ok |-> FALSE, receipts |-> {}, id |-> 0, due |-> FALSE, past |-> FALSE,
        asked |-> [batch |-> FALSE, n |-> 0, stop |-> FALSE]]

ReceiptsInit ==
  /\ calls = [c \in Call |-> New] /\ registry = {} /\ nextId = 1 /\ reused = {}
  /\ told = [c \in Call |-> <<>>] /\ did = [c \in Call |-> {}]

----------------------------------------------------------------------------
(* The receipts *)

\* _buildReceiptBase and createSafeReceipt; a receipt that gets a reason is made
\* anew and replaces the first one in the registry.
Made(c, i, attempt, outcome) ==
  [call |-> c, action |-> i, attempt |-> attempt, outcome |-> outcome,
   reason |-> outcome \notin {"applied", "not-applied"}]

Items(a)   == 1 .. a.n
Whole(c, attempt, outcome) == {Made(c, 0, attempt, outcome)}

createAppliedReceipt(c)       == Whole(c, "attempted", "applied")
createFailedReceipt(c)        == Whole(c, "attempted", "failed")
createBlockedReceipt(c)       == Whole(c, "not-attempted", "blocked")

\* All actions and the whole alike.
Alike(c, attempt, outcome) ==
  Whole(c, attempt, outcome) \cup {Made(c, i, attempt, outcome) : i \in Items(calls[c].asked)}

createBatchAppliedReceipts(c) == Alike(c, "attempted", "applied")
createBatchBlockedReceipts(c) == Alike(c, "not-attempted", "blocked")
createIndeterminateReceipt(c) ==
  IF calls[c].asked.batch THEN Alike(c, "attempted", "indeterminate")
  ELSE Whole(c, "attempted", "indeterminate")

\* An action without a good result has failed, be it tried or not.
createBatchResultReceipts(c, good) ==
  Whole(c, "attempted", "failed") \cup
  {Made(c, i, "attempted", IF i \in good THEN "applied" ELSE "failed") : i \in Items(calls[c].asked)}

Answered(c, ok, receipts) ==
  /\ calls' = [calls EXCEPT ![c].phase = "answered", ![c].ok = ok, ![c].receipts = receipts]
  /\ registry' = registry \cup receipts

\* Each receipt is in the registry, field by field.
verifyReceipts(receipts) == receipts # {} /\ receipts \subseteq registry

----------------------------------------------------------------------------
(* A call up to its being sent *)

Post(c, asked) ==
  /\ calls[c].phase = "new"
  /\ calls' = [calls EXCEPT ![c].phase = "judging", ![c].asked = asked]
  /\ UNCHANGED <<told, did, registry, nextId, reused>>

\* One receipt for the call as a whole, or one for each action of a batch, too.
Blocks(c) ==
  Answered(c, FALSE, createBlockedReceipt(c)) /\ UNCHANGED <<told, did, nextId, reused>>
BlocksEach(c) ==
  /\ Answered(c, FALSE, IF calls[c].asked.batch THEN createBatchBlockedReceipts(c)
                        ELSE createBlockedReceipt(c))
  /\ UNCHANGED <<told, did, nextId, reused>>

\* Without a target the call is judged all the same, for the reason of the refusal;
\* the receipt of a permission stays in the registry.
NoTarget(c) ==
  /\ calls[c].phase = "judging"
  /\ \E judged \in {{}, Whole(c, "not-attempted", "not-applied")} :
       /\ calls' = [calls EXCEPT ![c].phase = "answered", ![c].receipts = createBlockedReceipt(c)]
       /\ registry' = registry \cup createBlockedReceipt(c) \cup judged
  /\ UNCHANGED <<told, did, nextId, reused>>

ExternalUse(c)      == calls[c].phase = "judging" /\ Blocks(c)
OriginsDenied(c)    == calls[c].phase = "judging" /\ BlocksEach(c)
DeniedByVerifier(c) == calls[c].phase = "judging" /\ BlocksEach(c)

\* The profile has not the digest the permit is bound to: this refusal has no receipt.
BindingMismatch(c) ==
  /\ calls[c].phase = "judging"
  /\ Answered(c, FALSE, {}) /\ UNCHANGED <<told, did, nextId, reused>>

\* enforceRequest: the receipt of a permission says that nothing is applied yet.
Allowed(c) ==
  /\ calls[c].phase = "judging"
  /\ calls' = [calls EXCEPT ![c].phase = "allowed"]
  /\ registry' = registry \cup Whole(c, "not-attempted", "not-applied")
  /\ UNCHANGED <<told, did, nextId, reused>>

\* The fence is only observed: the receipt of the refusal stays in the registry, is
\* given to nobody, and the call goes on.
PassedThrough(c) ==
  /\ calls[c].phase = "judging"
  /\ calls' = [calls EXCEPT ![c].phase = "allowed"]
  /\ registry' = registry \cup createBlockedReceipt(c)
  /\ UNCHANGED <<told, did, nextId, reused>>

\* Events of downloads without a profile; the trusted target has gone while the call
\* was judged; a method that may not be called; one of an action.
ProfileRequired(c)   == calls[c].phase = "allowed" /\ ~calls[c].asked.batch /\ Blocks(c)
TrustedTargetGone(c) == calls[c].phase = "allowed" /\ Blocks(c)
MappingError(c)      == calls[c].phase = "allowed" /\ Blocks(c)
ChildMappingError(c) == calls[c].phase = "allowed" /\ calls[c].asked.batch /\ BlocksEach(c)

\* Lists and clearings of download events are answered by the gateway itself.
ServedHere(c) ==
  /\ calls[c].phase = "allowed" /\ ~calls[c].asked.batch
  /\ did' = [did EXCEPT ![c] = {1}]
  /\ Answered(c, TRUE, createAppliedReceipt(c))
  /\ UNCHANGED <<told, nextId, reused>>

\* The number may be that of a command of an earlier process.
Send(c) ==
  /\ calls[c].phase = "allowed"
  /\ calls' = [calls EXCEPT ![c].phase = "pending", ![c].due = TRUE, ![c].id = nextId]
  /\ nextId' = nextId + 1
  /\ reused' = IF \E d \in Call : calls[d].past /\ calls[d].due /\ calls[d].id = nextId
               THEN reused \cup {c} ELSE reused
  /\ UNCHANGED <<told, did, registry>>

----------------------------------------------------------------------------
(* The extension: what it runs, it runs on when nobody waits any more *)

Goes(c) ==
  LET a == calls[c].asked
  IN /\ calls[c].due /\ Len(told[c]) < a.n
     /\ a.stop => \A i \in DOMAIN told[c] : told[c][i]

\* A command that ends well took effect; one that fails may have, too.
Execute(c) ==
  /\ Goes(c)
  /\ \E ok \in BOOLEAN, effect \in BOOLEAN :
       /\ ok => effect
       /\ told' = [told EXCEPT ![c] = Append(@, ok)]
       /\ did' = [did EXCEPT ![c] = IF effect THEN @ \cup {Len(told[c]) + 1} ELSE @]
  /\ UNCHANGED <<calls, registry, nextId, reused>>

\* A handler that was given up takes effect late.
LateEffect(c, i) ==
  /\ i \in DOMAIN told[c] \ did[c] /\ did' = [did EXCEPT ![c] = @ \cup {i}]
  /\ UNCHANGED <<calls, told, registry, nextId, reused>>

----------------------------------------------------------------------------
(* The end of a call *)

\* The reply to the command of d is as good as on its way, over whatever socket the
\* extension has now; and call c waits under its number.
Replies(d)    == calls[d].due /\ told[d] # <<>> /\ ~Goes(d)
Awaits(c, d)  == calls[c].phase = "pending" /\ calls[c].id = calls[d].id

\* The reply to the command of d ends call c.
Settle(c, d, ok, receipts) ==
  /\ calls' = [calls EXCEPT ![d].due = FALSE, ![c].phase = "answered", ![c].ok = ok,
                            ![c].receipts = receipts]
  /\ registry' = registry \cup receipts
  /\ UNCHANGED <<told, did, nextId, reused>>

AllFailed(c) == IF calls[c].asked.batch THEN Alike(c, "attempted", "failed")
                ELSE createFailedReceipt(c)

\* The results in the reply of d that c can take for its own: those that are good, at
\* their place and of the method c has there, which another batch may have, too.
GoodResults(c, d) ==
  LET good == {i \in DOMAIN told[d] : told[d][i]}
  IN IF c = d THEN {good}
     ELSE IF calls[d].asked.batch THEN SUBSET (good \cap Items(calls[c].asked)) ELSE {{}}

hasBatchFailure(c, d, good) ==
  Len(told[d]) # calls[c].asked.n \/ good # Items(calls[c].asked)

\* A single command that fails is replied to with an error, a batch with its results;
\* whatever results come, they are the success of a single command.
Result(c, d) ==
  /\ Replies(d) /\ Awaits(c, d)
  /\ \/ /\ ~calls[d].asked.batch /\ ~told[d][1]
        /\ Settle(c, d, FALSE, AllFailed(c))
     \/ /\ calls[d].asked.batch \/ told[d][1]
        /\ IF calls[c].asked.batch
           THEN \E good \in GoodResults(c, d) :
                  IF hasBatchFailure(c, d, good)
                  THEN Settle(c, d, FALSE, createBatchResultReceipts(c, good))
                  ELSE Settle(c, d, TRUE, createBatchAppliedReceipts(c))
           ELSE Settle(c, d, TRUE, createAppliedReceipt(c))

\* The extension refuses the command as a whole, before any action.
ErrorResult(c, d) ==
  /\ calls[d].due /\ told[d] = <<>> /\ Awaits(c, d)
  /\ Settle(c, d, FALSE, AllFailed(c))

\* The time is up; or the socket of the extension has closed.
Timeout(c) ==
  /\ calls[c].phase = "pending"
  /\ Answered(c, FALSE, createIndeterminateReceipt(c))
  /\ UNCHANGED <<told, did, nextId, reused>>

Disconnected(c) ==
  /\ calls[c].phase = "pending"
  /\ Answered(c, FALSE, createIndeterminateReceipt(c))
  /\ UNCHANGED <<told, did, nextId, reused>>

\* Mutant: a reply that comes after the timeout is taken as well.
LateReplyTaken(d) ==
  /\ calls[d].phase = "answered" /\ ~calls[d].past /\ Replies(d)
  /\ Answered(d, FALSE, AllFailed(d))
  /\ UNCHANGED <<told, did, nextId, reused>>

\* No call waits under the number of a reply, and nothing becomes of it.
LateReply(d) ==
  /\ calls[d].due /\ (told[d] = <<>> \/ ~Goes(d)) /\ \A c \in Call : ~Awaits(c, d)
  /\ calls' = [calls EXCEPT ![d].due = FALSE]
  /\ UNCHANGED <<told, did, registry, nextId, reused>>

\* The process ends: the registry is gone, whoever waits gets no answer, and the
\* next process counts from 1; the extension runs on, and callers keep what they have.
Restart ==
  /\ registry' = {} /\ nextId' = 1
  /\ calls' = [c \in Call |->
       IF calls[c].phase = "new" THEN calls[c]
       ELSE [calls[c] EXCEPT !.past = TRUE, !.phase = IF @ = "answered" THEN @ ELSE "lost"]]
  /\ UNCHANGED <<told, did, reused>>

\* The steps of a call after it was posted.
Handling ==
  \/ \E c \in Call :
       \/ NoTarget(c) \/ BindingMismatch(c) \/ ExternalUse(c) \/ OriginsDenied(c) \/ DeniedByVerifier(c)
       \/ Allowed(c) \/ PassedThrough(c) \/ ProfileRequired(c) \/ TrustedTargetGone(c) \/ MappingError(c)
       \/ ChildMappingError(c) \/ ServedHere(c) \/ Send(c)
       \/ Execute(c) \/ (\E i \in 1 .. MaxActions : LateEffect(c, i))
       \/ (\E d \in Call : Result(c, d) \/ ErrorResult(c, d))
       \/ Timeout(c) \/ Disconnected(c) \/ LateReply(c)
  \/ Restart

ReceiptsNext == Handling \/ \E c \in Call, asked \in Asked : Post(c, asked)

----------------------------------------------------------------------------
(* Properties *)

\* "applied" in an answer is proof for its caller, then and later: the action, or
\* every action of the batch, took effect.  Not so for a call that was sent under a
\* number for which an earlier process's reply was still to come: that reply may have
\* been taken for its own.
AppliedTookEffect ==
  \A c \in Call \ reused : \A r \in calls[c].receipts : r.outcome = "applied" =>
    (IF r.action = 0 THEN Items(calls[c].asked) ELSE {r.action}) \subseteq did[c]

\* "blocked" in an answer is proof of the contrary, then and later.  (In the registry
\* alone it is none: there it also stands for a refusal that was only observed.)
BlockedHadNoEffect ==
  \A c \in Call : \A r \in calls[c].receipts :
    r.outcome = "blocked" => did[c] = {} /\ told[c] = <<>>

\* One verdict per action that was sent, whatever else arrives; and a batch is
\* applied exactly if each of its actions is, unless it may have been answered with
\* the reply to another.
OneVerdict ==
  /\ \A r, s \in registry :
       r.call = s.call /\ r.action = s.action /\ r.attempt = "attempted" /\ s.attempt = "attempted"
         => r = s
  /\ \A r \in registry :
       r.action = 0 /\ r.attempt = "attempted" /\ calls[r.call].asked.batch /\ r.call \notin reused
         => (r.outcome = "applied" <=> \A i \in Items(calls[r.call].asked) :
                                         Made(r.call, i, "attempted", "applied") \in registry)

\* Every receipt handed out by the process that runs is accepted.
AnswersVerify ==
  \A c \in Call : ~calls[c].past /\ calls[c].receipts # {} => verifyReceipts(calls[c].receipts)

\* What is certified of a call is true, and stays true whatever comes later, save
\* what is said of calls under a number that was in use.
ReceiptsAreTrue ==
  ReceiptsTypeOK /\ AppliedTookEffect /\ BlockedHadNoEffect /\ OneVerdict /\ AnswersVerify
=============================================================================
