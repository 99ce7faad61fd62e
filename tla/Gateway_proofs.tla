--------------------------- MODULE Gateway_proofs ---------------------------
(***************************************************************************)
(* Proofs for ExecutionReceipts, CoordinatorDispatcher and ProfileRouting: *)
(* what the gateway certifies of a call is true and stays true, the        *)
(* coordinator's dispatcher passes on nothing else, and a call goes to a   *)
(* profile it is permitted for; for any calls, profiles and lengths of a   *)
(* batch.                                                                  *)
(***************************************************************************)
EXTENDS CoordinatorDispatcher, ProfileRouting, TLAPS

Phase == {"new", "judging", "allowed", "pending", "answered", "lost"}
Single == [batch |-> FALSE, n |-> 1, stop |-> FALSE]

\* The type of the state; ReceiptsTypeOK takes the domains for granted.
CallRecord == [phase : Phase, ok : BOOLEAN, receipts : SUBSET Receipt,
             id : Nat, due : BOOLEAN, past : BOOLEAN,
             asked : [batch : BOOLEAN, n : 0 .. MaxActions, stop : BOOLEAN]]
StateTyped ==
  /\ calls \in [Call -> CallRecord]
  /\ told \in [Call -> Seq(BOOLEAN)]
  /\ did \in [Call -> SUBSET (1 .. MaxActions)]
  /\ registry \in SUBSET Receipt /\ nextId \in Nat \ {0} /\ reused \in SUBSET Call

\* What receipts R say of call c, which asked a and did d, is true.
Truthful(c, a, d, R) ==
  /\ \A r \in R : r.call = c /\ (r.attempt = "attempted" <=> r.outcome # "blocked")
  /\ \A r, s \in R : r.action = s.action => r = s
  /\ \A r \in R : r.outcome = "applied" => (IF r.action = 0 THEN Items(a) ELSE {r.action}) \subseteq d
  /\ \A r \in R : r.action = 0 /\ r.attempt = "attempted" /\ a.batch /\ c \notin reused =>
       (r.outcome = "applied" <=> \A i \in Items(a) : Made(c, i, "attempted", "applied") \in R)

\* Nothing happens before a call is sent, and what is told to be done is done.
Progress(c) ==
  /\ calls[c].phase # "new" => calls[c].asked \in Asked
  /\ calls[c].phase \in {"new", "judging", "allowed"} =>
       /\ told[c] = <<>> /\ did[c] = {} /\ ~calls[c].due /\ c \notin reused
       /\ calls[c].receipts = {} /\ ~calls[c].ok
  /\ Len(told[c]) <= calls[c].asked.n
  /\ did[c] \subseteq Items(calls[c].asked)
  /\ \A i \in 1 .. Len(told[c]) : told[c][i] => i \in did[c]

\* What the answer to a call has to agree with: what it did, or anything if the answer
\* may be that to another.
Knows(c, d) == IF c \in reused THEN Items(calls[c].asked) ELSE d
Known(c)    == Knows(c, did[c])

\* The receipts of an answer tell the truth, and a blocked call stays blocked.
Verdict(c) ==
  /\ Truthful(c, calls[c].asked, Known(c), calls[c].receipts)
  /\ calls[c].phase # "answered" => calls[c].receipts = {} /\ ~calls[c].ok
  /\ calls[c].ok => Items(calls[c].asked) \subseteq Known(c)
  /\ \A r \in calls[c].receipts : r.outcome = "blocked" =>
       ~calls[c].due /\ told[c] = <<>> /\ did[c] = {}

\* A call is handled in the process it came to and that numbered it, and a reply that
\* has its number is its own unless the number was in use.
Live == {"new", "judging", "allowed", "pending"}
Numbered(c) ==
  /\ calls[c].phase \in Live => ~calls[c].past
  /\ calls[c].phase = "pending" \/ (calls[c].due /\ ~calls[c].past) => calls[c].id < nextId
  /\ \A d \in Call \ {c} :
       calls[c].phase = "pending" /\ calls[d].due /\ calls[d].id = calls[c].id => c \in reused

\* The registry is of the process that runs; what was tried is in it only by an answer.
Registered ==
  /\ \A r \in registry :
       ~calls[r.call].past /\ (r.attempt = "attempted" => r \in calls[r.call].receipts)
  /\ \A c \in Call : ~calls[c].past => calls[c].receipts \subseteq registry

ReceiptsInv ==
  /\ StateTyped
  /\ \A c \in Call : Progress(c) /\ Verdict(c) /\ Numbered(c)
  /\ Registered

\* The dispatcher's part: it holds a call of its own, a single command.
Dispatched(c) ==
  /\ dispatch[c] \in {"new", "permit", "providers", "rejected"} => calls[c].phase = "new"
  /\ dispatch[c] \in {"posted", "read", "handling"} => calls[c].phase # "new" /\ calls[c].asked = Single
  /\ dispatch[c] \in {"read", "handling"} => calls[c].phase = "answered"
  /\ dispatch[c] \in {"new", "permit", "providers", "posted", "read", "notifying", "rejected", "direct"}
       => handled[c] = <<>> /\ ended[c] # "result"
  /\ dispatch[c] = "handling" => ended[c] # "result" /\ handled[c] \in {<<"applied">>, <<"refused">>}
  /\ dispatch[c] = "done" => handled[c] \in {<<"applied">>, <<"refused">>, <<"nothing">>}
  /\ ended[c] = "result" => handled[c] = <<"applied">>
  /\ handled[c] = <<"applied">> => calls[c].ok /\ calls[c].asked = Single
  /\ handled[c] = <<"refused">> => calls[c].phase = "answered"

DispatchInv ==
  /\ ReceiptsInv
  /\ DispatchTypeOK
  /\ handled \in [Call -> Seq(Notice)]
  /\ \A c \in Call : Dispatched(c)
----------------------------------------------------------------------------
(* The properties follow *)

USE ReceiptsAssumption

\* The invariant says all that is certified.
LEMMA InvCertifies ==
  ASSUME ReceiptsInv
  PROVE  ReceiptsAreTrue
<1> USE DEF ReceiptsInv
<1>1. ReceiptsTypeOK
  <2>1. ASSUME NEW c \in Call PROVE Len(told[c]) <= MaxActions
    <3>1. told[c] \in Seq(BOOLEAN) /\ calls[c].asked.n \in 0 .. MaxActions
      BY DEF StateTyped, CallRecord
    <3>2. QED
      BY <3>1 DEF Progress
  <2>2. QED
    BY <2>1 DEF StateTyped, CallRecord, Progress, Phase, ReceiptsTypeOK
<1>2. AppliedTookEffect
  BY DEF AppliedTookEffect, Verdict, Truthful, Known, Knows
<1>3. BlockedHadNoEffect
  BY DEF BlockedHadNoEffect, Verdict
<1>4. OneVerdict
  <2>1. \A r \in registry : r.call \in Call /\ ~calls[r.call].past
                          /\ (r.attempt = "attempted" => r \in calls[r.call].receipts)
    BY DEF StateTyped, Registered, Receipt
  <2>2. ASSUME NEW r \in registry, NEW s \in registry, r.call = s.call, r.action = s.action,
               r.attempt = "attempted", s.attempt = "attempted"
        PROVE  r = s
    BY <2>1, <2>2 DEF Verdict, Truthful
  <2>3. ASSUME NEW r \in registry, r.action = 0, r.attempt = "attempted",
               calls[r.call].asked.batch, r.call \notin reused
        PROVE  r.outcome = "applied" <=>
                 \A i \in Items(calls[r.call].asked) : Made(r.call, i, "attempted", "applied") \in registry
    <3>1. r.call \in Call /\ ~calls[r.call].past /\ r \in calls[r.call].receipts
      BY <2>1, <2>3
    <3>2. \A i : Made(r.call, i, "attempted", "applied") \in registry
                <=> Made(r.call, i, "attempted", "applied") \in calls[r.call].receipts
      BY <2>1, <3>1 DEF Registered, Made
    <3>3. QED
      BY <2>3, <3>1, <3>2 DEF Verdict, Truthful
  <2>4. QED
    BY <2>2, <2>3 DEF OneVerdict
<1>5. AnswersVerify
  BY DEF Registered, AnswersVerify, verifyReceipts
<1>6. QED
  BY <1>1, <1>2, <1>3, <1>4, <1>5 DEF ReceiptsAreTrue

\* And all that the dispatcher promises.
LEMMA InvDispatches ==
  ASSUME DispatchInv
  PROVE  DispatcherSafe
<1> USE DEF DispatchInv, ReceiptsInv
<1>1. HandlerTold
  <2>1. \A n \in Notice : <<n>> # <<>>
    OBVIOUS
  <2>2. ASSUME NEW c \in Call, dispatch[c] = "done"
        PROVE  handled[c] # <<>>
    BY <2>1, <2>2 DEF Dispatched, Notice
  <2>3. ASSUME NEW c \in Call, dispatch[c] = "rejected"
        PROVE  did[c] = {}
    BY <2>3 DEF Dispatched, Progress
  <2>4. QED
    BY <2>2, <2>3 DEF HandlerTold
<1>2. ResultsAreCertified
  <2>1. ASSUME NEW c \in Call, ended[c] = "result"
        PROVE  c \in reused \/ did[c] = {1}
    <3>1. Items(calls[c].asked) = {1}
      BY <2>1 DEF Dispatched, Items, Single
    <3>2. QED
      BY <2>1, <3>1 DEF Dispatched, Verdict, Progress, Known, Knows
  <2>2. QED
    BY <2>1 DEF ResultsAreCertified, Dispatched
<1>3. ShownReceiptsAreTrue
  BY DEF ShownReceiptsAreTrue, Verdict, Truthful
<1>4. QED
  BY <1>1, <1>2, <1>3 DEF DispatcherSafe

----------------------------------------------------------------------------
(* Steps of one call *)

\* A call whose command alone may have been replied to keeps what is known of it.
Rests(e) ==
  /\ calls'[e] \in {calls[e], [calls[e] EXCEPT !.due = FALSE]}
  /\ told'[e] = told[e] /\ did'[e] = did[e] /\ (e \in reused' <=> e \in reused)

LEMMA OthersRest ==
  ASSUME StateTyped, NEW e \in Call, Rests(e), Progress(e), Verdict(e)
  PROVE  Progress(e)' /\ Verdict(e)'
<1>1. /\ calls'[e].phase = calls[e].phase /\ calls'[e].ok = calls[e].ok
      /\ calls'[e].receipts = calls[e].receipts /\ calls'[e].asked = calls[e].asked
      /\ calls'[e].due => calls[e].due
  BY DEF StateTyped, CallRecord, Rests
<1>2. told'[e] = told[e] /\ did'[e] = did[e] /\ (e \in reused' <=> e \in reused)
  BY DEF Rests
<1>3. Progress(e)'
  BY <1>1, <1>2 DEF Progress, Items
<1>4. Known(e)' = Known(e)
  BY <1>1, <1>2 DEF Known, Knows, Items
<1>5. Verdict(e)'
  BY <1>1, <1>2, <1>4 DEF Verdict, Truthful, Items
<1>6. QED
  BY <1>3, <1>5

\* Nothing happens to the calls.
LEMMA QuietKeeps ==
  ASSUME ReceiptsInv, UNCHANGED <<calls, told, did, registry, nextId, reused>>
  PROVE  ReceiptsInv'
<1>1. \A e \in Call : Rests(e)
  BY DEF Rests
<1>2. \A e \in Call : Progress(e)' /\ Verdict(e)' /\ Numbered(e)'
  BY <1>1, OthersRest DEF ReceiptsInv, Numbered
<1>3. QED
  BY <1>2 DEF ReceiptsInv, StateTyped, Registered

\* The numbers stay right where nothing is sent.
LEMMA NumbersStay ==
  ASSUME ReceiptsInv, nextId' = nextId, reused' = reused,
         \A e \in Call :
           /\ calls'[e].id = calls[e].id /\ calls'[e].past = calls[e].past
           /\ calls'[e].due => calls[e].due
           /\ calls'[e].phase = "pending" => calls[e].phase = "pending"
           /\ calls'[e].phase \in Live => calls[e].phase \in Live
  PROVE  \A e \in Call : Numbered(e)'
BY DEF ReceiptsInv, StateTyped, CallRecord, Numbered

\* A step of one call that only adds to the registry, and sends nothing.
LEMMA OneCallSteps ==
  ASSUME ReceiptsInv, StateTyped', NEW c \in Call, Progress(c)', Verdict(c)',
         \A e \in Call \ {c} : Rests(e),
         nextId' = nextId, reused' = reused,
         calls'[c].id = calls[c].id, calls'[c].past = calls[c].past,
         calls'[c].due => calls[c].due, calls'[c].phase = "pending" => calls[c].phase = "pending",
         calls'[c].phase \in Live => calls[c].phase \in Live,
         registry \subseteq registry', calls[c].receipts \subseteq calls'[c].receipts,
         calls'[c].receipts \subseteq registry' \/ calls[c].past,
         \A r \in registry' \ registry :
           r.call = c /\ ~calls[c].past /\ (r.attempt = "attempted" => r \in calls'[c].receipts)
  PROVE  ReceiptsInv'
<1>1. \A e \in Call : Progress(e)' /\ Verdict(e)'
  <2>1. ASSUME NEW e \in Call, e # c PROVE Progress(e)' /\ Verdict(e)'
    BY <2>1, OthersRest DEF ReceiptsInv
  <2>2. QED
    BY <2>1
<1>2. \A e \in Call \ {c} :
        /\ calls'[e].id = calls[e].id /\ calls'[e].past = calls[e].past
        /\ calls'[e].due => calls[e].due
        /\ calls'[e].phase = calls[e].phase /\ calls'[e].receipts = calls[e].receipts
  BY DEF ReceiptsInv, StateTyped, CallRecord, Rests
<1>3. \A e \in Call : Numbered(e)'
  BY <1>2, NumbersStay
<1>4. Registered'
  <2>1. ASSUME NEW r \in registry'
        PROVE  /\ ~calls'[r.call].past
               /\ r.attempt = "attempted" => r \in calls'[r.call].receipts
    <3>1. CASE r \in registry /\ r.call = c
      BY <3>1 DEF ReceiptsInv, Registered
    <3>2. CASE r \in registry /\ r.call # c
      BY <1>2, <3>2 DEF ReceiptsInv, Registered, StateTyped, Receipt
    <3>3. QED
      BY <2>1, <3>1, <3>2
  <2>2. \A e \in Call : ~calls'[e].past => calls'[e].receipts \subseteq registry'
    BY <1>2 DEF ReceiptsInv, Registered
  <2>3. QED
    BY <2>1, <2>2 DEF Registered
<1>5. QED
  BY <1>1, <1>3, <1>4 DEF ReceiptsInv

\* What may be asked: at least one action, and just one if it is no batch.
LEMMA AskedBounds ==
  ASSUME NEW a \in Asked
  PROVE  /\ a \in [batch : BOOLEAN, n : 0 .. MaxActions, stop : BOOLEAN]
         /\ a.n \in 1 .. MaxActions /\ (~a.batch => a.n = 1)
         /\ Items(a) \subseteq 1 .. MaxActions /\ 0 \notin Items(a)
         /\ 1 \in Items(a) /\ a.n \in Items(a)
<1>0. \A b, s \in BOOLEAN, m \in 0 .. MaxActions :
        [batch |-> b, n |-> m, stop |-> s] \in [batch : BOOLEAN, n : 0 .. MaxActions, stop : BOOLEAN]
  OBVIOUS
<1>1. MaxActions \in Nat /\ MaxActions >= 1
  BY ReceiptsAssumption
<1>2. CASE a \in [batch : {FALSE}, n : {1}, stop : {FALSE}]
  <2>1. a.n = 1 /\ a.batch = FALSE /\ a.stop = FALSE
        /\ a = [batch |-> a.batch, n |-> a.n, stop |-> a.stop]
    BY <1>2
  <2>2. a \in [batch : BOOLEAN, n : 0 .. MaxActions, stop : BOOLEAN]
    <3>1. a.n \in 0 .. MaxActions
      BY <1>1, <2>1
    <3> a.batch \in BOOLEAN /\ a.stop \in BOOLEAN
      BY <2>1, Zenon
    <3>2. [batch |-> a.batch, n |-> a.n, stop |-> a.stop]
            \in [batch : BOOLEAN, n : 0 .. MaxActions, stop : BOOLEAN]
      BY <1>0, <3>1, Zenon
    <3>3. QED
      BY <2>1, <3>2, Zenon
  <2>3. QED
    BY <1>1, <2>1, <2>2 DEF Items
<1>3. CASE a \in [batch : {TRUE}, n : 1 .. MaxActions, stop : BOOLEAN]
  <2>1. a.n \in 1 .. MaxActions /\ a.batch = TRUE /\ a.stop \in BOOLEAN
        /\ a = [batch |-> a.batch, n |-> a.n, stop |-> a.stop]
    BY <1>3
  <2>2. a \in [batch : BOOLEAN, n : 0 .. MaxActions, stop : BOOLEAN]
    <3>1. a.n \in 0 .. MaxActions
      BY <1>1, <2>1
    <3> a.batch \in BOOLEAN /\ a.stop \in BOOLEAN
      BY <2>1, Zenon
    <3>2. [batch |-> a.batch, n |-> a.n, stop |-> a.stop]
            \in [batch : BOOLEAN, n : 0 .. MaxActions, stop : BOOLEAN]
      BY <1>0, <3>1, Zenon
    <3>3. QED
      BY <2>1, <3>2, Zenon
  <2>3. QED
    BY <1>1, <2>1, <2>2 DEF Items
<1>4. QED
  BY <1>2, <1>3 DEF Asked

\* The receipts of every kind of answer tell the truth.
LEMMA WholeIsTrue ==
  ASSUME NEW c \in Call, NEW a \in Asked, NEW d, NEW attempt \in {"attempted", "not-attempted"},
         NEW outcome \in {"applied", "failed", "blocked", "indeterminate"},
         attempt = "attempted" <=> outcome # "blocked",
         outcome = "applied" => Items(a) \subseteq d,
         a.batch => outcome = "blocked"
  PROVE  /\ Whole(c, attempt, outcome) \subseteq Receipt
         /\ Truthful(c, a, d, Whole(c, attempt, outcome))
BY DEF Whole, Truthful, Made, Receipt

\* One outcome for the whole and for each action.
LEMMA AlikeIsTrue ==
  ASSUME NEW c \in Call, calls[c].asked \in Asked, NEW d,
         NEW attempt \in {"attempted", "not-attempted"},
         NEW outcome \in {"applied", "failed", "blocked", "indeterminate"},
         attempt = "attempted" <=> outcome # "blocked",
         outcome = "applied" => Items(calls[c].asked) \subseteq d
  PROVE  /\ Alike(c, attempt, outcome) \subseteq Receipt
         /\ Truthful(c, calls[c].asked, d, Alike(c, attempt, outcome))
<1> DEFINE a == calls[c].asked
           R == Alike(c, attempt, outcome)
<1>1. Items(a) \subseteq 1 .. MaxActions /\ 1 \in Items(a) /\ 0 \notin Items(a)
  BY AskedBounds
<1>2. R = {Made(c, i, attempt, outcome) : i \in {0} \cup Items(a)}
  BY DEF Alike, Whole
<1>3. \A i \in {0} \cup Items(a) : Made(c, i, attempt, outcome) \in Receipt
  BY <1>1 DEF Made, Receipt
<1>4. \A r \in R : r.call = c /\ r.attempt = attempt /\ r.outcome = outcome
                 /\ r.action \in {0} \cup Items(a) /\ r = Made(c, r.action, attempt, outcome)
  BY <1>2 DEF Made
<1>5. ASSUME attempt = "attempted"
      PROVE  outcome = "applied" <=> \A i \in Items(a) : Made(c, i, "attempted", "applied") \in R
  <2>1. CASE outcome = "applied"
    BY <1>2, <1>5, <2>1
  <2>2. CASE outcome # "applied"
    <3>1. Made(c, 1, "attempted", "applied").outcome = "applied"
      BY DEF Made
    <3>2. Made(c, 1, "attempted", "applied") \notin R
      BY <1>4, <2>2, <3>1
    <3>3. QED
      BY <1>1, <2>2, <3>2
  <2>3. QED
    BY <2>1, <2>2
<1>6. R \subseteq Receipt
  BY <1>2, <1>3
<1>7. \A r \in R : outcome = "applied" => (IF r.action = 0 THEN Items(a) ELSE {r.action}) \subseteq d
  BY <1>4
<1> HIDE DEF R
<1>8. Truthful(c, a, d, R)
  BY <1>4, <1>5, <1>7 DEF Truthful
<1>9. QED
  BY <1>6, <1>8 DEF R

\* An outcome for each action, and a failure for the whole.
LEMMA ResultIsTrue ==
  ASSUME NEW c \in Call, calls[c].asked \in Asked, NEW taken, NEW d, taken \subseteq d,
         c \in reused \/ ~(Items(calls[c].asked) \subseteq taken)
  PROVE  /\ createBatchResultReceipts(c, taken) \subseteq Receipt
         /\ Truthful(c, calls[c].asked, d, createBatchResultReceipts(c, taken))
<1> DEFINE a == calls[c].asked
           R == createBatchResultReceipts(c, taken)
           good(i) == i \in taken
           item(i) == Made(c, i, "attempted", IF good(i) THEN "applied" ELSE "failed")
<1>1. a.n \in Items(a) /\ a.n \in Nat /\ Items(a) \subseteq 1 .. MaxActions /\ 0 \notin Items(a)
  BY AskedBounds
<1>3. R = {Made(c, 0, "attempted", "failed")} \cup {item(i) : i \in Items(a)}
  BY DEF createBatchResultReceipts, Whole
<1>4. /\ Made(c, 0, "attempted", "failed") \in Receipt
      /\ \A i \in Items(a) : item(i) \in Receipt
  BY <1>1 DEF Made, Receipt
<1>5. \A r \in R : \/ r = Made(c, 0, "attempted", "failed") /\ r.action = 0 /\ r.outcome = "failed"
                   \/ r.action \in Items(a) /\ r = item(r.action) /\ (r.outcome = "applied" => good(r.action))
  <2>1. Made(c, 0, "attempted", "failed").action = 0 /\ Made(c, 0, "attempted", "failed").outcome = "failed"
    BY DEF Made
  <2>2. ASSUME NEW i \in Items(a)
        PROVE  item(i).action = i /\ (item(i).outcome = "applied" => good(i))
    BY DEF Made
  <2>3. ASSUME NEW r \in {item(i) : i \in Items(a)}
        PROVE  r.action \in Items(a) /\ r = item(r.action) /\ (r.outcome = "applied" => good(r.action))
    <3>1. PICK i \in Items(a) : r = item(i)
      OBVIOUS
    <3> HIDE DEF good, item
    <3>2. QED
      BY <2>2, <3>1
  <2> HIDE DEF good, item, R
  <2>4. QED
    BY <1>3, <2>1, <2>3
<1>6. \A r \in R : r.call = c /\ r.attempt = "attempted" /\ r.outcome # "blocked"
  BY <1>3 DEF Made
<1>7. \A r, s \in R : r.action = s.action => r = s
  BY <1>1, <1>5
<1>8. \A r \in R : r.outcome = "applied" => r.action # 0 /\ r.action \in d
  BY <1>1, <1>5
<1>9. ASSUME c \notin reused
      PROVE  \E j \in Items(a) : Made(c, j, "attempted", "applied") \notin R
  <2>1. PICK j \in Items(a) : j \notin taken
    BY <1>9
  <2>2. /\ Made(c, j, "attempted", "applied").action = j
        /\ Made(c, j, "attempted", "applied").outcome = "applied"
    BY DEF Made
  <2>3. QED
    BY <1>1, <1>5, <2>1, <2>2
<1>10. R \subseteq Receipt
  BY <1>3, <1>4
<1>11. \A r \in R : r.action = 0 => r.outcome # "applied"
  BY <1>8
<1> HIDE DEF R
<1>12. Truthful(c, a, d, R)
  BY <1>6, <1>7, <1>8, <1>9, <1>11 DEF Truthful
<1>13. QED
  BY <1>10, <1>12 DEF R

\* An answer that tells the truth ends call c; d are the actions that have taken effect
\* then, and E what else goes into the registry.
TrueAnswer(c, ok, R, d, E) ==
  /\ calls[c].phase \in {"judging", "allowed", "pending"}
  /\ ok \in BOOLEAN /\ R \subseteq Receipt /\ E \subseteq Receipt
  /\ calls' \in [Call -> CallRecord]
  /\ calls'[c].phase = "answered" /\ calls'[c].ok = ok /\ calls'[c].receipts = R
  /\ calls'[c].asked = calls[c].asked /\ calls'[c].id = calls[c].id
  /\ calls'[c].past = calls[c].past /\ (calls'[c].due => calls[c].due)
  /\ \A e \in Call \ {c} : calls'[e] \in {calls[e], [calls[e] EXCEPT !.due = FALSE]}
  /\ registry' = registry \cup R \cup E /\ nextId' = nextId /\ reused' = reused
  /\ d \subseteq Items(calls[c].asked) /\ did[c] \subseteq d
  /\ told' = told /\ did' = [did EXCEPT ![c] = d]
  /\ Truthful(c, calls[c].asked, Knows(c, d), R)
  /\ ok => Items(calls[c].asked) \subseteq Knows(c, d)
  /\ \A r \in R : r.outcome = "blocked" => ~calls[c].due /\ told[c] = <<>> /\ d = {}
  /\ \A r \in E : r.call = c /\ r.attempt = "not-attempted"

\* Whatever the answer is, if it is true the invariant stays.
LEMMA AnswerSteps ==
  ASSUME ReceiptsInv, NEW c \in Call, NEW ok, NEW R, NEW d, NEW E, TrueAnswer(c, ok, R, d, E)
  PROVE  ReceiptsInv'
<1> USE DEF TrueAnswer
<1>1. calls[c].asked \in Asked /\ Items(calls[c].asked) \subseteq 1 .. MaxActions
  BY AskedBounds DEF ReceiptsInv, Progress
<1>2. StateTyped'
  <2>1. did' \in [Call -> SUBSET (1 .. MaxActions)] /\ registry' \subseteq Receipt
    BY <1>1 DEF ReceiptsInv, StateTyped
  <2>2. QED
    BY <2>1 DEF ReceiptsInv, StateTyped
<1>4. did'[c] = d /\ \A e \in Call \ {c} : did'[e] = did[e]
  BY DEF ReceiptsInv, StateTyped
<1>5. \A e \in Call \ {c} : Rests(e)
  BY <1>4 DEF Rests
<1>6. Progress(c)'
  BY <1>1, <1>4 DEF ReceiptsInv, Progress, Items
<1>7. Known(c)' = Knows(c, d)
  BY <1>4 DEF Known, Knows, Items
<1>8. Verdict(c)'
  <2>1. Truthful(c, calls[c].asked, Knows(c, d), R)'
    BY <1>4, <1>7 DEF Truthful, Items, Known
  <2>2. QED
    BY <1>4, <1>7 DEF Verdict, Truthful, Items
<1>9. calls[c].receipts = {} /\ ~calls[c].past
  BY DEF ReceiptsInv, Verdict, Numbered, Live
<1>10. QED
  BY <1>2, <1>5, <1>6, <1>8, <1>9, OneCallSteps DEF Truthful, Live

\* What is known of a call while it is handled.
LEMMA CallUnderWay ==
  ASSUME ReceiptsInv, NEW c \in Call, calls[c].phase # "new"
  PROVE  /\ calls[c] \in CallRecord /\ calls \in [Call -> CallRecord]
         /\ calls[c].asked \in Asked /\ told[c] \in Seq(BOOLEAN)
         /\ did[c] \subseteq Items(calls[c].asked)
         /\ did = [did EXCEPT ![c] = did[c]]
         /\ Known(c) = Knows(c, did[c])
         /\ calls[c].phase # "answered" => calls[c].receipts = {} /\ ~calls[c].ok
         /\ calls[c].phase \in {"judging", "allowed", "pending"} => ~calls[c].past
         /\ calls[c].phase \in {"judging", "allowed"} =>
              told[c] = <<>> /\ did[c] = {} /\ ~calls[c].due /\ c \notin reused
BY DEF ReceiptsInv, StateTyped, Progress, Verdict, Numbered, Live, Known, Knows

\* Answered is such an answer.
LEMMA AnsweredSteps ==
  ASSUME ReceiptsInv, NEW c \in Call, calls[c].phase \in {"judging", "allowed", "pending"},
         NEW ok \in BOOLEAN, NEW R \in SUBSET Receipt, Answered(c, ok, R),
         UNCHANGED <<told, nextId, reused>>,
         NEW d \in SUBSET Items(calls[c].asked), did[c] \subseteq d, did' = [did EXCEPT ![c] = d],
         Truthful(c, calls[c].asked, Knows(c, d), R),
         ok => Items(calls[c].asked) \subseteq Knows(c, d),
         \A r \in R : r.outcome = "blocked" => ~calls[c].due /\ told[c] = <<>> /\ d = {}
  PROVE  ReceiptsInv'
<1> DEFINE k == [calls[c] EXCEPT !.phase = "answered", !.ok = ok, !.receipts = R]
<1>1. calls[c] \in CallRecord /\ calls \in [Call -> CallRecord]
  BY DEF ReceiptsInv, StateTyped
<1>2. /\ k \in CallRecord /\ k.phase = "answered" /\ k.ok = ok /\ k.receipts = R
      /\ k.asked = calls[c].asked /\ k.id = calls[c].id /\ k.past = calls[c].past
      /\ k.due = calls[c].due
  BY <1>1 DEF CallRecord, Phase
<1>3. calls' = [calls EXCEPT ![c] = k] /\ registry' = registry \cup R \cup {}
  BY DEF Answered
<1> HIDE DEF k
<1>4. calls'[c] = k /\ calls' \in [Call -> CallRecord] /\ \A e \in Call \ {c} : calls'[e] = calls[e]
  BY <1>1, <1>2, <1>3
<1>5. TrueAnswer(c, ok, R, d, {})
  BY <1>2, <1>3, <1>4 DEF TrueAnswer
<1>6. QED
  BY <1>5, AnswerSteps

\* A call that is refused was not sent.
LEMMA BlockedIsTrue ==
  ASSUME ReceiptsInv, NEW c \in Call, calls[c].phase \in {"judging", "allowed"}
  PROVE  /\ createBlockedReceipt(c) \subseteq Receipt
         /\ Truthful(c, calls[c].asked, did[c], createBlockedReceipt(c))
         /\ createBatchBlockedReceipts(c) \subseteq Receipt
         /\ Truthful(c, calls[c].asked, did[c], createBatchBlockedReceipts(c))
         /\ Knows(c, did[c]) = did[c]
<1>1. calls[c].asked \in Asked /\ c \notin reused
  BY CallUnderWay
<1>2. QED
  BY <1>1, WholeIsTrue, AlikeIsTrue DEF createBlockedReceipt, createBatchBlockedReceipts, Knows

LEMMA RefusalsKeep ==
  ASSUME ReceiptsInv, NEW c \in Call, calls[c].phase \in {"judging", "allowed"},
         Blocks(c) \/ BlocksEach(c) \/ BindingMismatch(c)
  PROVE  ReceiptsInv'
<1>1. /\ UNCHANGED <<told, nextId, reused>>
      /\ did' = [did EXCEPT ![c] = did[c]] /\ did[c] = {} /\ told[c] = <<>> /\ ~calls[c].due
      /\ did[c] \in SUBSET Items(calls[c].asked)
  BY CallUnderWay DEF Blocks, BlocksEach, BindingMismatch
<1>2. PICK R \in {{}, createBlockedReceipt(c), createBatchBlockedReceipts(c)} :
        Answered(c, FALSE, R)
  BY DEF Blocks, BlocksEach, BindingMismatch
<1>3. R \in SUBSET Receipt /\ Truthful(c, calls[c].asked, Knows(c, did[c]), R)
  <2>1. Truthful(c, calls[c].asked, Knows(c, did[c]), {})
    BY DEF Truthful
  <2>2. QED
    BY <1>2, <2>1, BlockedIsTrue
<1>4. QED
  BY <1>1, <1>2, <1>3, AnsweredSteps

\* The receipt of a verdict alone.
LEMMA UntriedIsReceipt ==
  ASSUME NEW c \in Call, NEW outcome \in {"not-applied", "blocked"}
  PROVE  /\ Whole(c, "not-attempted", outcome) \subseteq Receipt
         /\ \A r \in Whole(c, "not-attempted", outcome) :
              r.call = c /\ r.attempt = "not-attempted"
BY DEF Whole, Made, Receipt

\* Nor was one without a target, whatever it is judged.
LEMMA NoTargetKeeps ==
  ASSUME ReceiptsInv, NEW c \in Call, NoTarget(c)
  PROVE  ReceiptsInv'
<1> DEFINE R == createBlockedReceipt(c)
           k == [calls[c] EXCEPT !.phase = "answered", !.receipts = R]
<1>1. PICK E \in {{}, Whole(c, "not-attempted", "not-applied")} :
        /\ calls' = [calls EXCEPT ![c] = k]
        /\ registry' = registry \cup R \cup E
  BY DEF NoTarget
<1>2. /\ calls[c].phase = "judging" /\ UNCHANGED <<told, did, nextId, reused>>
      /\ did' = [did EXCEPT ![c] = did[c]] /\ did[c] = {} /\ told[c] = <<>> /\ ~calls[c].due
      /\ calls[c].ok = FALSE /\ calls[c] \in CallRecord /\ calls \in [Call -> CallRecord]
  BY CallUnderWay DEF NoTarget, CallRecord
<1>3. R \subseteq Receipt /\ Truthful(c, calls[c].asked, Knows(c, did[c]), R)
  BY <1>2, BlockedIsTrue
<1>4. E \subseteq Receipt /\ \A r \in E : r.call = c /\ r.attempt = "not-attempted"
  BY <1>1, UntriedIsReceipt
<1> HIDE DEF R
<1>5. /\ k \in CallRecord /\ k.phase = "answered" /\ k.ok = FALSE /\ k.receipts = R
      /\ k.asked = calls[c].asked /\ k.id = calls[c].id /\ k.past = calls[c].past
      /\ k.due = calls[c].due
  BY <1>2, <1>3 DEF CallRecord, Phase
<1> HIDE DEF k
<1>6. calls'[c] = k /\ calls' \in [Call -> CallRecord] /\ \A e \in Call \ {c} : calls'[e] = calls[e]
  BY <1>1, <1>2, <1>5
<1>7. TrueAnswer(c, FALSE, R, did[c], E)
  BY <1>1, <1>2, <1>3, <1>4, <1>5, <1>6 DEF TrueAnswer
<1>8. QED
  BY <1>7, AnswerSteps

\* The gateway's own answers are of what it did.
LEMMA ServedHereKeeps ==
  ASSUME ReceiptsInv, NEW c \in Call, ServedHere(c)
  PROVE  ReceiptsInv'
<1>1. /\ calls[c].phase = "allowed" /\ did' = [did EXCEPT ![c] = {1}]
      /\ UNCHANGED <<told, nextId, reused>>
      /\ did[c] = {} /\ calls[c].asked \in Asked /\ c \notin reused
      /\ Answered(c, TRUE, createAppliedReceipt(c))
  BY CallUnderWay DEF ServedHere
<1>2. Items(calls[c].asked) = {1} /\ Knows(c, {1}) = {1}
  BY <1>1, AskedBounds DEF ServedHere, Items, Knows
<1>3. /\ createAppliedReceipt(c) \in SUBSET Receipt
      /\ Truthful(c, calls[c].asked, {1}, createAppliedReceipt(c))
  BY <1>1, <1>2, WholeIsTrue DEF createAppliedReceipt, ServedHere
<1>4. \A r \in createAppliedReceipt(c) : r.outcome # "blocked"
  BY DEF createAppliedReceipt, Whole, Made
<1> DEFINE d == {1}
           R == createAppliedReceipt(c)
<1>5. /\ d \in SUBSET Items(calls[c].asked) /\ did[c] \subseteq d
      /\ Items(calls[c].asked) \subseteq Knows(c, d) /\ did' = [did EXCEPT ![c] = d]
      /\ Truthful(c, calls[c].asked, Knows(c, d), R)
  BY <1>1, <1>2, <1>3
<1>6. R \in SUBSET Receipt /\ Answered(c, TRUE, R) /\ \A r \in R : r.outcome # "blocked"
  BY <1>1, <1>3, <1>4
<1> HIDE DEF d, R
<1>7. /\ calls[c].phase \in {"judging", "allowed", "pending"}
      /\ \A r \in R : r.outcome = "blocked" => ~calls[c].due /\ told[c] = <<>> /\ d = {}
      /\ UNCHANGED <<told, nextId, reused>>
  BY <1>1, <1>6
<1>8. ASSUME NEW ok \in BOOLEAN, Answered(c, ok, R)
      PROVE  ReceiptsInv'
  BY <1>5, <1>6, <1>7, <1>8, AnsweredSteps, Zenon
<1>9. QED
  BY <1>6, <1>8

\* An answer that certifies neither way.
LEMMA UnknownKeeps ==
  ASSUME ReceiptsInv, NEW c \in Call, Timeout(c) \/ Disconnected(c)
  PROVE  ReceiptsInv'
<1> DEFINE R == createIndeterminateReceipt(c)
<1>1. /\ calls[c].phase = "pending" /\ calls[c].asked \in Asked /\ Answered(c, FALSE, R)
      /\ UNCHANGED <<told, nextId, reused>> /\ did' = [did EXCEPT ![c] = did[c]]
      /\ did[c] \in SUBSET Items(calls[c].asked)
  BY CallUnderWay DEF Timeout, Disconnected
<1>2. R \in SUBSET Receipt /\ Truthful(c, calls[c].asked, Knows(c, did[c]), R)
  BY <1>1, WholeIsTrue, AlikeIsTrue DEF createIndeterminateReceipt
<1>3. \A r \in R : r.outcome # "blocked"
  BY DEF createIndeterminateReceipt, Alike, Whole, Made
<1> HIDE DEF R
<1>4. QED
  BY <1>1, <1>2, <1>3, AnsweredSteps

\* What a reply changes of the calls.
LEMMA SettleChanges ==
  ASSUME calls \in [Call -> CallRecord], NEW c \in Call, NEW d \in Call,
         NEW ok, NEW R, Settle(c, d, ok, R)
  PROVE  /\ ok \in BOOLEAN /\ R \in SUBSET Receipt => calls' \in [Call -> CallRecord]
         /\ calls'[c].phase = "answered" /\ calls'[c].ok = ok /\ calls'[c].receipts = R
         /\ calls'[c].asked = calls[c].asked /\ calls'[c].id = calls[c].id
         /\ calls'[c].past = calls[c].past /\ (calls'[c].due => calls[c].due)
         /\ \A e \in Call \ {c} : calls'[e] \in {calls[e], [calls[e] EXCEPT !.due = FALSE]}
<1> DEFINE m == [calls EXCEPT ![d] = [calls[d] EXCEPT !.due = FALSE]]
           k == [m[c] EXCEPT !.phase = "answered", !.ok = ok, !.receipts = R]
<1>1. [calls[d] EXCEPT !.due = FALSE] \in CallRecord
  BY DEF CallRecord
<1>2. m \in [Call -> CallRecord] /\ m[d] = [calls[d] EXCEPT !.due = FALSE]
      /\ \A e \in Call \ {d} : m[e] = calls[e]
  BY <1>1
<1>3. /\ m[c].asked = calls[c].asked /\ m[c].id = calls[c].id /\ m[c].past = calls[c].past
      /\ m[c].due => calls[c].due
  BY <1>2 DEF CallRecord
<1>4. calls' = [m EXCEPT ![c] = k]
  BY DEF Settle
<1> HIDE DEF m
<1>5. m[c] \in CallRecord
  BY <1>2
<1>6. ok \in BOOLEAN /\ R \in SUBSET Receipt => k \in CallRecord
  BY <1>5 DEF CallRecord, Phase
<1>7. /\ k.phase = "answered" /\ k.ok = ok /\ k.receipts = R
      /\ k.asked = m[c].asked /\ k.id = m[c].id /\ k.past = m[c].past /\ k.due = m[c].due
  BY <1>5 DEF CallRecord
<1> HIDE DEF k
<1>8. /\ calls'[c] = k /\ \A e \in Call \ {c} : calls'[e] = m[e]
      /\ k \in CallRecord => calls' \in [Call -> CallRecord]
  BY <1>2, <1>4
<1>9. QED
  BY <1>2, <1>3, <1>6, <1>7, <1>8

\* The reply to a command ends a call that waits under its number.
LEMMA SettleKeeps ==
  ASSUME ReceiptsInv, NEW c \in Call, NEW d \in Call, Awaits(c, d),
         NEW ok \in BOOLEAN, NEW R \in SUBSET Receipt, Settle(c, d, ok, R),
         Truthful(c, calls[c].asked, Known(c), R), ok => Items(calls[c].asked) \subseteq Known(c),
         \A r \in R : r.outcome # "blocked"
  PROVE  ReceiptsInv'
<1>1. /\ calls[c].phase = "pending" /\ did' = [did EXCEPT ![c] = did[c]]
      /\ calls \in [Call -> CallRecord] /\ did[c] \subseteq Items(calls[c].asked)
      /\ Known(c) = Knows(c, did[c])
  BY CallUnderWay DEF Awaits, Settle
<1>2. registry' = registry \cup R \cup {} /\ UNCHANGED <<told, nextId, reused>>
  BY DEF Settle
<1>3. TrueAnswer(c, ok, R, did[c], {})
  BY <1>1, <1>2, SettleChanges DEF TrueAnswer
<1>4. QED
  BY <1>3, AnswerSteps

\* A failure is a failure, whichever command it was.
LEMMA FailedIsTrue ==
  ASSUME NEW c \in Call, calls[c].asked \in Asked, NEW d
  PROVE  /\ AllFailed(c) \in SUBSET Receipt
         /\ Truthful(c, calls[c].asked, d, AllFailed(c))
         /\ \A r \in AllFailed(c) : r.outcome # "blocked"
<1>1. /\ AllFailed(c) \in SUBSET Receipt
      /\ Truthful(c, calls[c].asked, d, AllFailed(c))
  BY WholeIsTrue, AlikeIsTrue DEF AllFailed, createFailedReceipt
<1>2. \A r \in AllFailed(c) : r.outcome # "blocked"
  BY DEF AllFailed, createFailedReceipt, Alike, Whole, Made
<1>3. QED
  BY <1>1, <1>2

\* A reply in time: if it is that of the call, what it tells took effect where it says
\* so; and it is, unless the number was in use.
LEMMA ResultKeeps ==
  ASSUME ReceiptsInv, NEW c \in Call, NEW d \in Call, Result(c, d)
  PROVE  ReceiptsInv'
<1> DEFINE a == calls[c].asked
<1>1. /\ Awaits(c, d) /\ Replies(d) /\ calls[c].phase = "pending" /\ a \in Asked
      /\ calls[d].due /\ calls[d].id = calls[c].id
  BY CallUnderWay DEF Result, Awaits, Replies
<1>2. /\ told[c] \in Seq(BOOLEAN) /\ Len(told[c]) <= a.n
      /\ \A i \in 1 .. Len(told[c]) : told[c][i] => i \in did[c]
      /\ Items(a) \subseteq Items(a)
  BY <1>1 DEF ReceiptsInv, StateTyped, Progress
<1>3. a.n \in Nat /\ Len(told[c]) \in Nat /\ (~a.batch => a.n = 1) /\ DOMAIN told[c] = 1 .. Len(told[c])
  BY <1>1, <1>2, AskedBounds
<1>4. c # d => c \in reused
  BY <1>1 DEF ReceiptsInv, Numbered
<1>5. CASE Settle(c, d, FALSE, AllFailed(c))
  BY <1>1, <1>5, FailedIsTrue, SettleKeeps
<1>6. CASE a.batch /\ \E good \in GoodResults(c, d) :
             IF hasBatchFailure(c, d, good)
             THEN Settle(c, d, FALSE, createBatchResultReceipts(c, good))
             ELSE Settle(c, d, TRUE, createBatchAppliedReceipts(c))
  <2>1. PICK good \in GoodResults(c, d) :
          IF hasBatchFailure(c, d, good)
          THEN Settle(c, d, FALSE, createBatchResultReceipts(c, good))
          ELSE Settle(c, d, TRUE, createBatchAppliedReceipts(c))
    BY <1>6
  <2>2. good \subseteq Known(c)
    <3>1. CASE c = d
      <4>1. good = {i \in 1 .. Len(told[c]) : told[c][i]}
        BY <1>3, <2>1, <3>1 DEF GoodResults
      <4>2. good \subseteq Items(a) /\ good \subseteq did[c]
        BY <1>2, <1>3, <4>1 DEF Items
      <4>3. QED
        BY <4>2 DEF Known, Knows
    <3>2. CASE c # d
      BY <1>4, <2>1, <3>2 DEF GoodResults, Known, Knows
    <3>3. QED
      BY <3>1, <3>2
  <2>3. CASE hasBatchFailure(c, d, good)
    <3>1. c \in reused \/ ~(Items(a) \subseteq good)
      <4>1. CASE c # d
        BY <1>4, <4>1
      <4>2. CASE c = d
        <5>1. good = {i \in 1 .. Len(told[c]) : told[c][i]}
          BY <1>3, <2>1, <4>2 DEF GoodResults
        <5>2. good \subseteq Items(a)
          BY <1>2, <1>3, <5>1 DEF Items
        <5>3. CASE Len(told[c]) # a.n
          <6>1. a.n \notin good /\ a.n \in Items(a)
            BY <1>1, <1>2, <1>3, <5>1, <5>3, AskedBounds
          <6>2. QED
            BY <6>1
        <5>4. CASE good # Items(a)
          BY <5>2, <5>4
        <5>5. QED
          BY <2>3, <4>2, <5>3, <5>4 DEF hasBatchFailure
      <4>3. QED
        BY <4>1, <4>2
    <3>2. /\ createBatchResultReceipts(c, good) \in SUBSET Receipt
          /\ Truthful(c, a, Known(c), createBatchResultReceipts(c, good))
      BY <1>1, <2>2, <3>1, ResultIsTrue
    <3>3. \A r \in createBatchResultReceipts(c, good) : r.outcome # "blocked"
      BY DEF createBatchResultReceipts, Whole, Made
    <3>4. QED
      BY <1>1, <2>1, <2>3, <3>2, <3>3, SettleKeeps
  <2>4. CASE ~hasBatchFailure(c, d, good)
    <3>1. Items(a) \subseteq Known(c)
      BY <2>2, <2>4 DEF hasBatchFailure
    <3>2. /\ createBatchAppliedReceipts(c) \in SUBSET Receipt
          /\ Truthful(c, a, Known(c), createBatchAppliedReceipts(c))
      BY <1>1, <3>1, AlikeIsTrue DEF createBatchAppliedReceipts
    <3>3. \A r \in createBatchAppliedReceipts(c) : r.outcome # "blocked"
      BY DEF createBatchAppliedReceipts, Alike, Whole, Made
    <3>4. QED
      BY <1>1, <2>1, <2>4, <3>1, <3>2, <3>3, SettleKeeps
  <2>5. QED
    BY <2>3, <2>4
<1>7. CASE /\ ~a.batch /\ (calls[d].asked.batch \/ told[d][1])
           /\ Settle(c, d, TRUE, createAppliedReceipt(c))
  <2>1. Items(a) \subseteq Known(c)
    <3>1. CASE c = d
      <4>1. told[c] # <<>> /\ told[c][1]
        BY <1>1, <1>7, <3>1 DEF Replies
      <4>2. 1 \in 1 .. Len(told[c])
        BY <1>2, <1>3, <4>1
      <4>3. Items(a) = {1} /\ 1 \in did[c]
        BY <1>2, <1>3, <1>7, <4>1, <4>2 DEF Items
      <4>4. QED
        BY <4>3 DEF Known, Knows
    <3>2. QED
      BY <1>4, <3>1 DEF Known, Knows
  <2>2. /\ createAppliedReceipt(c) \in SUBSET Receipt
        /\ Truthful(c, a, Known(c), createAppliedReceipt(c))
    BY <1>1, <1>7, <2>1, WholeIsTrue DEF createAppliedReceipt
  <2>3. \A r \in createAppliedReceipt(c) : r.outcome # "blocked"
    BY DEF createAppliedReceipt, Whole, Made
  <2>4. QED
    BY <1>1, <1>7, <2>1, <2>2, <2>3, SettleKeeps
<1>8. QED
  BY <1>5, <1>6, <1>7 DEF Result

\* A refusal by the extension ends the call with nothing told.
LEMMA ErrorResultKeeps ==
  ASSUME ReceiptsInv, NEW c \in Call, NEW d \in Call, ErrorResult(c, d)
  PROVE  ReceiptsInv'
<1>1. Awaits(c, d) /\ calls[c].asked \in Asked /\ Settle(c, d, FALSE, AllFailed(c))
  BY CallUnderWay DEF ErrorResult, Awaits
<1>2. QED
  BY <1>1, FailedIsTrue, SettleKeeps

\* A reply nobody waits for changes nothing but that it is no longer to come.
LEMMA LateReplyKeeps ==
  ASSUME ReceiptsInv, NEW c \in Call, LateReply(c)
  PROVE  ReceiptsInv'
<1> DEFINE k == [calls[c] EXCEPT !.due = FALSE]
<1>1. /\ calls' = [calls EXCEPT ![c] = k] /\ UNCHANGED <<told, did, registry, nextId, reused>>
      /\ calls[c] \in CallRecord /\ calls \in [Call -> CallRecord]
  BY DEF LateReply, ReceiptsInv, StateTyped
<1>2. k \in CallRecord
  BY <1>1 DEF CallRecord
<1>3. \A e \in Call : calls'[e] = IF e = c THEN k ELSE calls[e]
  BY <1>1
<1>4. calls' \in [Call -> CallRecord]
  BY <1>1, <1>2
<1>5. StateTyped'
  BY <1>1, <1>4 DEF ReceiptsInv, StateTyped
<1>6. \A e \in Call : Rests(e)
  BY <1>1, <1>3 DEF Rests
<1>7. Progress(c)' /\ Verdict(c)'
  BY <1>6, OthersRest DEF ReceiptsInv
<1>8. /\ k.id = calls[c].id /\ k.past = calls[c].past /\ (k.due => calls[c].due)
      /\ k.phase = calls[c].phase /\ k.receipts = calls[c].receipts
  BY <1>1 DEF CallRecord
<1> HIDE DEF k
<1>9. QED
  BY <1>1, <1>3, <1>5, <1>6, <1>7, <1>8, OneCallSteps DEF ReceiptsInv, Registered

\* The verdict of the verifier: the receipt of it goes into the registry only.
LEMMA JudgedKeeps ==
  ASSUME ReceiptsInv, NEW c \in Call, Allowed(c) \/ PassedThrough(c)
  PROVE  ReceiptsInv'
<1> DEFINE k == [calls[c] EXCEPT !.phase = "allowed"]
<1>1. PICK R \in {Whole(c, "not-attempted", "not-applied"), createBlockedReceipt(c)} :
        registry' = registry \cup R
  BY DEF Allowed, PassedThrough
<1>2. /\ calls[c].phase = "judging" /\ UNCHANGED <<told, did, nextId, reused>>
      /\ calls' = [calls EXCEPT ![c] = k] /\ calls[c].asked \in Asked
      /\ calls \in [Call -> CallRecord] /\ calls[c] \in CallRecord /\ calls[c].receipts = {}
      /\ ~calls[c].ok /\ ~calls[c].past
  BY CallUnderWay DEF Allowed, PassedThrough
<1>3. /\ k \in CallRecord /\ k.phase = "allowed" /\ k.receipts = {} /\ k.asked = calls[c].asked
      /\ ~k.ok /\ k.due = calls[c].due /\ k.id = calls[c].id /\ k.past = calls[c].past
  BY <1>2 DEF CallRecord, Phase
<1>4. calls'[c] = k /\ calls' \in [Call -> CallRecord] /\ \A e \in Call \ {c} : calls'[e] = calls[e]
  BY <1>2, <1>3
<1> HIDE DEF k
<1>5. R \subseteq Receipt /\ \A r \in R : r.call = c /\ r.attempt = "not-attempted"
  BY <1>1, UntriedIsReceipt DEF createBlockedReceipt
<1>6. StateTyped'
  BY <1>1, <1>2, <1>4, <1>5 DEF ReceiptsInv, StateTyped
<1>7. Progress(c)'
  BY <1>2, <1>3, <1>4 DEF ReceiptsInv, Progress, Items
<1>8. Verdict(c)'
  BY <1>2, <1>3, <1>4 DEF Verdict, Truthful
<1>9. \A e \in Call \ {c} : Rests(e)
  BY <1>2, <1>4 DEF Rests
<1>10. QED
  BY <1>1, <1>2, <1>3, <1>4, <1>5, <1>6, <1>7, <1>8, <1>9, OneCallSteps DEF Live

\* The arrival of a call.
LEMMA PostKeeps ==
  ASSUME ReceiptsInv, NEW c \in Call, NEW asked \in Asked, Post(c, asked)
  PROVE  ReceiptsInv'
<1> DEFINE k == [calls[c] EXCEPT !.phase = "judging", !.asked = asked]
<1>1. /\ calls[c].phase = "new" /\ UNCHANGED <<told, did, registry, nextId, reused>>
      /\ calls' = [calls EXCEPT ![c] = k]
      /\ calls \in [Call -> CallRecord] /\ calls[c] \in CallRecord
  BY DEF Post, ReceiptsInv, StateTyped
<1>2. calls[c].receipts = {} /\ ~calls[c].ok /\ ~calls[c].due
      /\ told[c] = <<>> /\ did[c] = {} /\ c \notin reused
  BY <1>1 DEF ReceiptsInv, Progress
<1>3. /\ k \in CallRecord /\ k.phase = "judging" /\ k.receipts = {} /\ k.asked = asked
      /\ ~k.ok /\ ~k.due /\ k.id = calls[c].id /\ k.past = calls[c].past
  BY <1>1, <1>2, AskedBounds DEF CallRecord, Phase
<1>4. calls'[c] = k /\ calls' \in [Call -> CallRecord] /\ \A e \in Call \ {c} : calls'[e] = calls[e]
  BY <1>1, <1>3
<1> HIDE DEF k
<1>5. StateTyped'
  BY <1>1, <1>4 DEF ReceiptsInv, StateTyped
<1>6. asked.n \in Nat
  BY AskedBounds
<1>7. Progress(c)'
  BY <1>1, <1>2, <1>3, <1>4, <1>6 DEF Progress
<1>8. Verdict(c)'
  BY <1>1, <1>2, <1>3, <1>4 DEF Verdict, Truthful
<1>9. \A e \in Call \ {c} : Rests(e)
  BY <1>1, <1>4 DEF Rests
<1>10. QED
  BY <1>1, <1>2, <1>3, <1>4, <1>5, <1>7, <1>8, <1>9, OneCallSteps DEF Live

\* An admitted call goes to the extension: its number is greater than any that waits,
\* and than any of this process that a reply is due for.
LEMMA SendKeeps ==
  ASSUME ReceiptsInv, NEW c \in Call, Send(c)
  PROVE  ReceiptsInv'
<1> DEFINE k == [calls[c] EXCEPT !.phase = "pending", !.due = TRUE, !.id = nextId]
<1>1. /\ calls[c].phase = "allowed" /\ UNCHANGED <<told, did, registry>>
      /\ calls' = [calls EXCEPT ![c] = k] /\ nextId' = nextId + 1
      /\ calls \in [Call -> CallRecord] /\ calls[c] \in CallRecord /\ nextId \in Nat \ {0}
      /\ reused \subseteq Call
  BY DEF Send, ReceiptsInv, StateTyped
<1>2. /\ calls[c].receipts = {} /\ ~calls[c].ok /\ ~calls[c].past /\ ~calls[c].due
      /\ told[c] = <<>> /\ did[c] = {} /\ calls[c].asked \in Asked
  BY <1>1, CallUnderWay
<1>3. /\ k \in CallRecord /\ k.phase = "pending" /\ k.receipts = {} /\ k.asked = calls[c].asked
      /\ ~k.ok /\ k.due /\ k.id = nextId /\ ~k.past
  BY <1>1, <1>2 DEF CallRecord, Phase
<1>4. calls'[c] = k /\ calls' \in [Call -> CallRecord] /\ \A e \in Call \ {c} : calls'[e] = calls[e]
  BY <1>1, <1>3
<1> HIDE DEF k
<1>5. /\ reused' \subseteq Call /\ reused \subseteq reused' /\ reused' \subseteq reused \cup {c}
      /\ (\E d \in Call : calls[d].past /\ calls[d].due /\ calls[d].id = nextId) => c \in reused'
  BY <1>1 DEF Send
<1>6. StateTyped'
  BY <1>1, <1>4, <1>5 DEF ReceiptsInv, StateTyped
<1>7. calls[c].asked.n \in Nat
  BY <1>2, AskedBounds
<1>8. Progress(c)' /\ Verdict(c)'
  BY <1>1, <1>2, <1>3, <1>4, <1>7 DEF Progress, Verdict, Truthful
<1>9. ASSUME NEW e \in Call \ {c}
      PROVE  Progress(e)' /\ Verdict(e)'
  <2>1. Rests(e)
    BY <1>1, <1>4, <1>5 DEF Rests
  <2>2. QED
    BY <2>1, OthersRest DEF ReceiptsInv
<1>10. Numbered(c)'
  <2>1. ASSUME NEW d \in Call \ {c}, calls'[d].due, calls'[d].id = calls'[c].id
        PROVE  c \in reused'
    <3>1. calls[d].due /\ calls[d].id = nextId
      BY <1>3, <1>4, <2>1
    <3>2. calls[d].past
      BY <1>1, <3>1 DEF ReceiptsInv, Numbered
    <3>3. QED
      BY <1>5, <3>1, <3>2
  <2>2. QED
    BY <1>1, <1>3, <1>4, <2>1 DEF Numbered
<1>11. ASSUME NEW e \in Call \ {c}
       PROVE  Numbered(e)'
  <2>1. calls[e] \in CallRecord /\ calls[e].id \in Nat
    BY <1>1 DEF CallRecord
  <2>2. calls[e].phase = "pending" \/ (calls[e].due /\ ~calls[e].past) => calls[e].id < nextId
    BY DEF ReceiptsInv, Numbered
  <2>3. calls[e].phase = "pending" => calls[e].id # nextId
    BY <1>1, <2>1, <2>2
  <2>4. QED
    BY <1>1, <1>3, <1>4, <1>5, <2>1, <2>2, <2>3 DEF ReceiptsInv, Numbered
<1>12. Registered'
  BY <1>1, <1>2, <1>3, <1>4 DEF ReceiptsInv, Registered, StateTyped, Receipt
<1>13. QED
  BY <1>6, <1>8, <1>9, <1>10, <1>11, <1>12 DEF ReceiptsInv

\* What the extension does: more is told, more took effect.
LEMMA EffectsKeep ==
  ASSUME ReceiptsInv, NEW c \in Call, UNCHANGED <<calls, registry, nextId, reused>>,
         told[c] # <<>> \/ calls[c].due,
         NEW t \in Seq(BOOLEAN), NEW d \in SUBSET Items(calls[c].asked),
         told' = [told EXCEPT ![c] = t], did' = [did EXCEPT ![c] = d],
         Len(t) <= calls[c].asked.n,
         did[c] \subseteq d, \A i \in 1 .. Len(t) : t[i] => i \in d
  PROVE  ReceiptsInv'
<1>1. calls[c].phase \notin {"new", "judging", "allowed"} /\ calls[c].asked \in Asked
  BY DEF ReceiptsInv, Progress
<1>2. /\ told'[c] = t /\ did'[c] = d
      /\ \A e \in Call \ {c} : told'[e] = told[e] /\ did'[e] = did[e]
  BY DEF ReceiptsInv, StateTyped
<1>3. d \subseteq 1 .. MaxActions
  BY <1>1, AskedBounds
<1>4. StateTyped'
  BY <1>3 DEF ReceiptsInv, StateTyped
<1>5. Progress(c)'
  BY <1>1, <1>2 DEF ReceiptsInv, Progress, Items
<1>6. Known(c) \subseteq Known(c)'
  BY <1>2 DEF Known, Knows, Items
<1>7. \A r \in calls[c].receipts : r.outcome # "blocked"
  BY DEF ReceiptsInv, Verdict
<1>8. Verdict(c)'
  BY <1>1, <1>2, <1>6, <1>7 DEF ReceiptsInv, Verdict, Truthful, Items
<1>9. \A e \in Call \ {c} : Rests(e)
  BY <1>2 DEF Rests
<1>10. QED
  BY <1>2, <1>4, <1>5, <1>8, <1>9, OneCallSteps DEF ReceiptsInv, Registered

\* One more action is told, and has its effect if it ended well.
LEMMA ExecuteKeeps ==
  ASSUME ReceiptsInv, NEW c \in Call, Execute(c)
  PROVE  ReceiptsInv'
<1>1. PICK ok \in BOOLEAN, effect \in BOOLEAN :
        /\ ok => effect
        /\ told' = [told EXCEPT ![c] = Append(@, ok)]
        /\ did' = [did EXCEPT ![c] = IF effect THEN @ \cup {Len(told[c]) + 1} ELSE @]
  BY DEF Execute
<1> DEFINE t == Append(told[c], ok)
           d == IF effect THEN did[c] \cup {Len(told[c]) + 1} ELSE did[c]
<1>2. /\ UNCHANGED <<calls, registry, nextId, reused>> /\ calls[c].due /\ Len(told[c]) < calls[c].asked.n
  BY DEF Execute, Goes
<1>3. /\ calls[c].asked \in Asked /\ told[c] \in Seq(BOOLEAN) /\ did[c] \subseteq Items(calls[c].asked)
      /\ \A i \in 1 .. Len(told[c]) : told[c][i] => i \in did[c]
  BY <1>2 DEF ReceiptsInv, StateTyped, Progress
<1>4. calls[c].asked.n \in Nat /\ Len(told[c]) \in Nat
  BY <1>3, AskedBounds
<1>5. Len(told[c]) + 1 \in Items(calls[c].asked)
  BY <1>2, <1>4 DEF Items
<1>6. t \in Seq(BOOLEAN) /\ Len(t) = Len(told[c]) + 1
  BY <1>3
<1>7. \A i \in 1 .. Len(t) : t[i] => i \in d
  <2>1. ASSUME NEW i \in 1 .. Len(told[c]), t[i]
        PROVE  i \in d
    <3>1. told[c][i]
      BY <1>3, <2>1
    <3>2. QED
      BY <1>3, <3>1
  <2>2. ASSUME t[Len(told[c]) + 1]
        PROVE  Len(told[c]) + 1 \in d
    <3>1. ok
      BY <1>3, <2>2
    <3>2. QED
      BY <1>1, <3>1
  <2>3. QED
    BY <1>4, <1>6, <2>1, <2>2
<1>8. d \subseteq Items(calls[c].asked) /\ did[c] \subseteq d
  BY <1>3, <1>5
<1>9. told' = [told EXCEPT ![c] = t] /\ did' = [did EXCEPT ![c] = d]
  BY <1>1
<1> HIDE DEF t, d
<1>10. Len(t) <= calls[c].asked.n
  BY <1>2, <1>4, <1>6
<1>11. QED
  BY <1>2, <1>6, <1>7, <1>8, <1>9, <1>10, EffectsKeep, Zenon

\* The effect of a handler that was given up comes late.
LEMMA LateEffectKeeps ==
  ASSUME ReceiptsInv, NEW c \in Call, NEW i \in 1 .. MaxActions, LateEffect(c, i)
  PROVE  ReceiptsInv'
<1> DEFINE d == did[c] \cup {i}
<1>1. /\ UNCHANGED <<calls, told, registry, nextId, reused>> /\ did' = [did EXCEPT ![c] = d] /\ i \in DOMAIN told[c]
  BY DEF LateEffect
<1>2. told[c] \in Seq(BOOLEAN) /\ told' = [told EXCEPT ![c] = told[c]]
  BY <1>1 DEF ReceiptsInv, StateTyped
<1>3. told[c] # <<>>
  BY <1>1, <1>2 DEF ReceiptsInv, Progress
<1>4. /\ calls[c].asked \in Asked /\ did[c] \subseteq Items(calls[c].asked)
      /\ Len(told[c]) <= calls[c].asked.n
      /\ \A j \in 1 .. Len(told[c]) : told[c][j] => j \in did[c]
  BY <1>3 DEF ReceiptsInv, Progress
<1>5. i \in Items(calls[c].asked)
  BY <1>1, <1>2, <1>4, AskedBounds DEF Items
<1>6. d \subseteq Items(calls[c].asked) /\ \A j \in 1 .. Len(told[c]) : told[c][j] => j \in d
  BY <1>4, <1>5
<1> HIDE DEF d
<1>7. did[c] \subseteq d
  BY DEF d
<1>8. QED
  BY <1>1, <1>2, <1>3, <1>4, <1>6, <1>7, EffectsKeep

\* The registry is gone and the count begins again; what was answered stays answered,
\* and nobody waits.
LEMMA RestartKeeps ==
  ASSUME ReceiptsInv, Restart
  PROVE  ReceiptsInv'
<1> DEFINE gone(c) == [calls[c] EXCEPT !.past = TRUE,
                                       !.phase = IF @ = "answered" THEN @ ELSE "lost"]
<1>1. /\ registry' = {} /\ nextId' = 1 /\ UNCHANGED <<told, did, reused>>
      /\ calls' = [c \in Call |-> IF calls[c].phase = "new" THEN calls[c] ELSE gone(c)]
  BY DEF Restart
<1>2. ASSUME NEW c \in Call
      PROVE  /\ gone(c) \in CallRecord /\ gone(c).receipts = calls[c].receipts
             /\ gone(c).asked = calls[c].asked /\ gone(c).past
             /\ gone(c).ok = calls[c].ok /\ gone(c).due = calls[c].due /\ gone(c).id = calls[c].id
             /\ gone(c).phase = IF calls[c].phase = "answered" THEN "answered" ELSE "lost"
  BY DEF ReceiptsInv, StateTyped, CallRecord, Phase
<1> HIDE DEF gone
<1>3. StateTyped'
  BY <1>1, <1>2 DEF ReceiptsInv, StateTyped
<1>4. ASSUME NEW c \in Call
      PROVE  /\ Progress(c)' /\ Verdict(c)' /\ Numbered(c)'
             /\ ~calls'[c].past => calls'[c].receipts = {}
  <2>1. CASE calls[c].phase = "new"
    <3>1. calls'[c] = calls[c] /\ calls[c].receipts = {} /\ ~calls[c].due
      BY <1>1, <2>1 DEF ReceiptsInv, Progress
    <3>2. Rests(c)
      BY <1>1, <3>1 DEF Rests
    <3>3. QED
      BY <2>1, <3>1, <3>2, OthersRest DEF ReceiptsInv, Numbered
  <2>2. CASE calls[c].phase # "new"
    <3>1. calls'[c] = gone(c)
      BY <1>1, <2>2
    <3>2. Progress(c)'
      BY <1>1, <1>2, <2>2, <3>1 DEF ReceiptsInv, Progress, Items
    <3>3. Known(c)' = Known(c)
      BY <1>1, <1>2, <3>1 DEF Known, Knows, Items
    <3>4. Verdict(c)'
      BY <1>1, <1>2, <2>2, <3>1, <3>3 DEF ReceiptsInv, Verdict, Truthful, Items
    <3>5. Numbered(c)'
      BY <1>2, <3>1 DEF Numbered, Live
    <3>6. QED
      BY <1>2, <3>1, <3>2, <3>4, <3>5
  <2>3. QED
    BY <2>1, <2>2
<1>5. QED
  BY <1>1, <1>3, <1>4 DEF ReceiptsInv, Registered

\* All steps of the calls after their arrival.
LEMMA HandlingKeeps ==
  ASSUME ReceiptsInv, Handling
  PROVE  ReceiptsInv'
<1>1. ASSUME NEW c \in Call,
             \/ ExternalUse(c) \/ OriginsDenied(c) \/ DeniedByVerifier(c) \/ ProfileRequired(c)
             \/ TrustedTargetGone(c) \/ MappingError(c) \/ ChildMappingError(c)
             \/ BindingMismatch(c)
      PROVE  ReceiptsInv'
  BY <1>1, RefusalsKeep DEF ExternalUse, OriginsDenied, DeniedByVerifier, ProfileRequired,
                            TrustedTargetGone, MappingError, ChildMappingError, BindingMismatch
<1>2. QED
  BY <1>1, NoTargetKeeps, JudgedKeeps, SendKeeps, ServedHereKeeps, ExecuteKeeps, ResultKeeps,
     ErrorResultKeeps, UnknownKeeps, LateEffectKeeps, LateReplyKeeps, RestartKeeps DEF Handling

----------------------------------------------------------------------------
(* The dispatcher *)

\* A step of the calls leaves a dispatch true: an answer stays, and so does what
\* was asked once it was asked.
LEMMA CallsLast ==
  ASSUME ReceiptsInv, Handling, NEW c \in Call
  PROVE  /\ calls'[c].asked = calls[c].asked
         /\ calls'[c].phase = "new" <=> calls[c].phase = "new"
         /\ calls[c].phase = "answered" => calls'[c].phase = "answered"
         /\ calls[c].ok => calls'[c].ok
<1> USE DEF ReceiptsInv, StateTyped, CallRecord
<1>1. CASE Restart
  BY <1>1 DEF Restart
<1>2. CASE UNCHANGED calls
  BY <1>2
<1>3. ASSUME NEW e \in Call, calls[e].phase \in {"judging", "allowed", "pending"},
             NEW ok, NEW R, Answered(e, ok, R)
      PROVE  /\ \A x \in Call \ {e} : calls'[x] = calls[x]
             /\ calls'[e].asked = calls[e].asked /\ calls'[e].phase = "answered" /\ ~calls[e].ok
  BY <1>3 DEF Answered, Verdict
<1>4. ASSUME NEW e \in Call,
             NoTarget(e) \/ Allowed(e) \/ PassedThrough(e) \/ Send(e)
      PROVE  /\ \A x \in Call \ {e} : calls'[x] = calls[x]
             /\ calls[e].phase \in {"judging", "allowed", "pending"} /\ ~calls[e].ok
             /\ calls'[e].asked = calls[e].asked /\ calls'[e].phase # "new"
  BY <1>4 DEF NoTarget, Allowed, PassedThrough, Send, Verdict
<1>5. ASSUME NEW e \in Call,
             \/ ExternalUse(e) \/ OriginsDenied(e) \/ DeniedByVerifier(e) \/ ProfileRequired(e)
             \/ TrustedTargetGone(e) \/ MappingError(e) \/ ChildMappingError(e)
             \/ ServedHere(e) \/ Timeout(e) \/ Disconnected(e) \/ BindingMismatch(e)
      PROVE  calls[e].phase \in {"judging", "allowed", "pending"} /\ \E ok, R : Answered(e, ok, R)
  BY <1>5 DEF ExternalUse, OriginsDenied, DeniedByVerifier, ProfileRequired, TrustedTargetGone,
              MappingError, ChildMappingError, Blocks, BlocksEach, ServedHere, Timeout, Disconnected,
              BindingMismatch
<1>6. ASSUME NEW e \in Call,
             Execute(e) \/ \E i \in 1 .. MaxActions : LateEffect(e, i)
      PROVE  UNCHANGED calls
  BY <1>6 DEF Execute, LateEffect
<1>7. ASSUME NEW e \in Call, LateReply(e)
      PROVE  /\ calls'[c].asked = calls[c].asked /\ calls'[c].phase = calls[c].phase
             /\ calls'[c].ok = calls[c].ok
  BY <1>7 DEF LateReply
<1>8. ASSUME NEW e \in Call, NEW d \in Call, Result(e, d) \/ ErrorResult(e, d)
      PROVE  /\ calls'[c].asked = calls[c].asked
             /\ calls'[c].phase = calls[c].phase \/ (calls[c].phase = "pending" /\ calls'[c].phase = "answered")
             /\ calls[c].ok => calls'[c].ok
  <2>1. calls[e].phase = "pending" /\ \E ok, R : Settle(e, d, ok, R)
    BY <1>8 DEF Result, ErrorResult, Awaits
  <2>2. PICK ok, R : Settle(e, d, ok, R)
    BY <2>1
  <2>3. ~calls[e].ok
    BY <2>1 DEF Verdict
  <2>4. /\ calls'[e].phase = "answered" /\ calls'[e].asked = calls[e].asked
        /\ \A x \in Call \ {e} : calls'[x] \in {calls[x], [calls[x] EXCEPT !.due = FALSE]}
    BY <2>2, SettleChanges
  <2>5. QED
    BY <2>1, <2>3, <2>4
<1>9. QED
  BY <1>1, <1>2, <1>3, <1>4, <1>5, <1>6, <1>7, <1>8 DEF Handling

\* They disturb no dispatch.
LEMMA HandlingKeepsDispatch ==
  ASSUME DispatchInv, Handling, UNCHANGED dispatchVars
  PROVE  DispatchInv'
<1>1. ReceiptsInv'
  BY HandlingKeeps DEF DispatchInv
<1>2. UNCHANGED <<dispatch, ended, handled>>
  BY DEF dispatchVars
<1>3. DispatchTypeOK' /\ (handled \in [Call -> Seq(Notice)])'
  BY <1>2 DEF DispatchInv, DispatchTypeOK
<1>4. ASSUME NEW c \in Call
      PROVE  Dispatched(c)'
  BY <1>2, CallsLast DEF DispatchInv, Dispatched
<1>5. QED
  BY <1>1, <1>3, <1>4 DEF DispatchInv

\* The handler is told once.
LEMMA ToldOnce ==
  ASSUME NEW m \in Notice, NEW n \in Notice
  PROVE  /\ Append(<<>>, m) = <<m>> /\ Head(<<m>>) = m /\ <<m>> # <<>> /\ Len(<<m>>) = 1
         /\ <<m>> \in Seq(Notice) /\ (<<m>> = <<n>> => m = n)
BY DEF Notice

\* A step of dispatch c goes to step x, with worker's outcome w and handler's notices h.
Moves(c, x, w, h) ==
  /\ dispatch' = [dispatch EXCEPT ![c] = x]
  /\ ended' = [ended EXCEPT ![c] = w]
  /\ handled' = [handled EXCEPT ![c] = h]

Steps == {"new", "permit", "providers", "posted", "read", "handling",
          "notifying", "done", "rejected", "direct"}

\* A step of one dispatch leaves the others alone.
LEMMA MovesKeep ==
  ASSUME DispatchInv, ReceiptsInv', NEW c \in Call, \A e \in Call \ {c} : calls'[e] = calls[e],
         NEW x \in Steps, NEW w \in {"none", "result", "error"},
         NEW h \in {<<>>, <<"applied">>, <<"refused">>, <<"nothing">>},
         Moves(c, x, w, h), Dispatched(c)'
  PROVE  DispatchInv'
<1>1. h \in Seq(Notice) /\ Len(h) <= 1
  <2>1. \A m \in Notice : <<m>> \in Seq(Notice) /\ Len(<<m>>) = 1
    BY ToldOnce
  <2>2. CASE h = <<>>
    BY <2>2
  <2>3. CASE \E m \in Notice : h = <<m>>
    BY <2>1, <2>3
  <2>4. QED
    BY <2>2, <2>3 DEF Notice
<1>2. /\ dispatch' \in [Call -> Steps] /\ ended' \in [Call -> {"none", "result", "error"}]
      /\ handled' \in [Call -> Seq(Notice)]
      /\ handled'[c] = h
      /\ \A e \in Call \ {c} : /\ dispatch'[e] = dispatch[e] /\ ended'[e] = ended[e]
                              /\ handled'[e] = handled[e]
  BY <1>1 DEF Moves, DispatchInv, DispatchTypeOK, Steps
<1>3. DispatchTypeOK'
  BY <1>1, <1>2 DEF DispatchInv, DispatchTypeOK, Steps
<1>4. ASSUME NEW e \in Call \ {c}
      PROVE  Dispatched(e)'
  BY <1>2, <1>4 DEF DispatchInv, Dispatched
<1>5. QED
  BY <1>2, <1>3, <1>4 DEF DispatchInv

\* What a step has changed.
LEMMA MoveOf ==
  ASSUME DispatchInv, NEW c \in Call, NEW x, NEW w, NEW h, Moves(c, x, w, h)
  PROVE  dispatch'[c] = x /\ ended'[c] = w /\ handled'[c] = h
BY DEF Moves, DispatchInv, DispatchTypeOK

\* A step that leaves the calls alone.
LEMMA QuietMovesKeep ==
  ASSUME DispatchInv, NEW c \in Call, UNCHANGED receiptsVars,
         NEW x \in Steps, NEW w \in {"none", "result", "error"},
         NEW h \in {<<>>, <<"applied">>, <<"refused">>, <<"nothing">>},
         Moves(c, x, w, h), Dispatched(c)'
  PROVE  DispatchInv'
<1>1. UNCHANGED <<calls, told, did, registry, nextId, reused>>
  BY DEF receiptsVars
<1>3. ReceiptsInv'
  BY <1>1, QuietKeeps DEF DispatchInv
<1>4. QED
  BY <1>1, <1>3, MovesKeep

\* What a dispatch was before its step.
LEMMA Before ==
  ASSUME DispatchInv, NEW c \in Call
  PROVE  /\ dispatch = [dispatch EXCEPT ![c] = dispatch[c]] /\ dispatch[c] \in Steps
         /\ ended = [ended EXCEPT ![c] = ended[c]] /\ ended[c] \in {"none", "result", "error"}
         /\ handled = [handled EXCEPT ![c] = handled[c]]
         /\ Dispatched(c)
BY DEF DispatchInv, DispatchTypeOK, Steps

\* Until there is a permit a failure is the worker's alone.
LEMMA EarlyStepsKeep ==
  ASSUME DispatchInv, NEW c \in Call, validateRequest(c) \/ permitProvider(c)
  PROVE  DispatchInv'
<1>1. /\ calls[c].phase = "new" /\ handled[c] = <<>> /\ ended[c] \in {"none", "error"}
      /\ UNCHANGED receiptsVars
  BY Before DEF Dispatched, validateRequest, permitProvider
<1>2. PICK x \in {"permit", "providers", "rejected"}, w \in {"none", "error"} : Moves(c, x, w, <<>>)
  BY <1>1, Before DEF validateRequest, permitProvider, Rejects, To, Moves
<1>3. calls'[c] = calls[c]
  BY <1>1 DEF receiptsVars
<1>4. dispatch'[c] = x /\ ended'[c] = w /\ handled'[c] = <<>>
  BY <1>2, MoveOf
<1>5. \A n \in Notice : <<>> # <<n>>
  BY ToldOnce
<1>6. Dispatched(c)'
  BY <1>1, <1>3, <1>4, <1>5 DEF Dispatched, Notice
<1>7. QED
  BY <1>1, <1>2, <1>6, QuietMovesKeep DEF Steps

\* A command is posted by the dispatcher, or a call by another client.
LEMMA PostingsKeep ==
  ASSUME DispatchInv, NEW c \in Call, NEW asked \in Asked, Post(c, asked),
         NEW x \in {"posted", "direct"}, x = "posted" => asked = Single,
         dispatch[c] \in {"new", "providers"},
         dispatch' = [dispatch EXCEPT ![c] = x], UNCHANGED <<ended, handled>>
  PROVE  DispatchInv'
<1>1. ReceiptsInv'
  BY PostKeeps DEF DispatchInv
<1>2. /\ calls'[c].phase = "judging" /\ calls'[c].asked = asked
      /\ \A e \in Call \ {c} : calls'[e] = calls[e]
  BY DEF DispatchInv, ReceiptsInv, StateTyped, CallRecord, Post
<1>3. handled[c] = <<>> /\ ended[c] \in {"none", "error"} /\ Moves(c, x, ended[c], <<>>)
  BY Before DEF Dispatched, Moves
<1>4. dispatch'[c] = x /\ ended'[c] = ended[c] /\ handled'[c] = <<>>
  BY <1>3, MoveOf
<1>5. \A n \in Notice : <<>> # <<n>>
  BY ToldOnce
<1>6. Dispatched(c)'
  BY <1>2, <1>3, <1>4, <1>5 DEF Dispatched, Notice
<1>7. QED
  BY <1>1, <1>2, <1>3, <1>6, MovesKeep DEF Steps

\* Towards the notice of a failure, and the reading of an answer.
LEMMA WaitsKeep ==
  ASSUME DispatchInv, NEW c \in Call, UNCHANGED receiptsVars, NEW x \in {"notifying", "read"},
         dispatch[c] \in {"providers", "posted"},
         x = "read" => dispatch[c] = "posted" /\ calls[c].phase = "answered",
         dispatch' = [dispatch EXCEPT ![c] = x], UNCHANGED <<ended, handled>>
  PROVE  DispatchInv'
<1>1. calls'[c] = calls[c]
  BY DEF receiptsVars
<1>2. handled[c] = <<>> /\ ended[c] \in {"none", "error"} /\ Moves(c, x, ended[c], <<>>)
  BY Before DEF Dispatched, Moves
<1>3. dispatch'[c] = x /\ ended'[c] = ended[c] /\ handled'[c] = <<>>
  BY <1>2, MoveOf
<1>4. \A n \in Notice : <<>> # <<n>>
  BY ToldOnce
<1>5. Dispatched(c)'
  BY <1>1, <1>2, <1>3, <1>4, Before DEF Dispatched, Notice
<1>6. QED
  BY <1>2, <1>5, QuietMovesKeep DEF Steps

\* The answer goes to the handler: a refusal, a result, or nothing to show.
LEMMA HandleKeeps ==
  ASSUME DispatchInv, NEW c \in Call, Handle(c)
  PROVE  DispatchInv'
<1>1. /\ calls'[c] = calls[c] /\ UNCHANGED receiptsVars
      /\ calls[c].phase = "answered" /\ calls[c].asked = Single /\ handled[c] = <<>>
      /\ ended[c] # "result"
  BY Before DEF Handle, Dispatched, receiptsVars
<1>2. \A m, n \in Notice : /\ Append(<<>>, m) = <<m>> /\ <<>> # <<m>>
                         /\ (<<m>> = <<n>> => m = n)
  BY ToldOnce
<1>3. ended[c] \in {"none", "error"}
  BY <1>1, Before
<1>4. CASE Tell(c, "refused") /\ To(c, "handling") /\ ended' = ended
  <2>1. Moves(c, "handling", ended[c], <<"refused">>)
    BY <1>1, <1>2, <1>3, <1>4, Before DEF Tell, To, Moves, Notice
  <2>2. /\ dispatch'[c] = "handling" /\ ended'[c] = ended[c] /\ handled'[c] = <<"refused">>
    BY <2>1, MoveOf
  <2>3. Dispatched(c)'
    BY <1>1, <1>2, <1>3, <2>2 DEF Dispatched, Notice
  <2>4. QED
    BY <1>1, <1>3, <2>1, <2>3, QuietMovesKeep DEF Steps
<1>5. CASE calls[c].ok /\ Tell(c, "applied") /\ To(c, "handling") /\ ended' = ended
  <2>1. Moves(c, "handling", ended[c], <<"applied">>)
    BY <1>1, <1>2, <1>3, <1>5, Before DEF Tell, To, Moves, Notice
  <2>2. /\ dispatch'[c] = "handling" /\ ended'[c] = ended[c] /\ handled'[c] = <<"applied">>
    BY <2>1, MoveOf
  <2>3. Dispatched(c)'
    BY <1>1, <1>2, <1>3, <1>5, <2>2 DEF Dispatched, Notice
  <2>4. QED
    BY <1>1, <1>3, <2>1, <2>3, QuietMovesKeep DEF Steps
<1>6. CASE To(c, "notifying") /\ handled' = handled /\ ended' = ended
  <2>1. Moves(c, "notifying", ended[c], <<>>)
    BY <1>1, <1>3, <1>6, Before DEF To, Moves
  <2>2. dispatch'[c] = "notifying" /\ ended'[c] = ended[c] /\ handled'[c] = <<>>
    BY <2>1, MoveOf
  <2>3. Dispatched(c)'
    BY <1>1, <1>2, <1>3, <2>2 DEF Dispatched, Notice
  <2>4. QED
    BY <1>1, <1>3, <2>1, <2>3, QuietMovesKeep DEF Steps
<1>7. QED
  BY <1>4, <1>5, <1>6 DEF Handle

\* The end of a dispatch: a result if the handler was told "applied", or an error.
LEMMA EndsKeep ==
  ASSUME DispatchInv, NEW c \in Call, UNCHANGED receiptsVars,
         NEW w \in {"result", "error"}, NEW n \in Notice, Moves(c, "done", w, <<n>>),
         w = "result" => n = "applied",
         n # "nothing" => handled[c] = <<n>>
  PROVE  DispatchInv'
<1>1. calls'[c] = calls[c]
  BY DEF receiptsVars
<1>2. dispatch'[c] = "done" /\ ended'[c] = w /\ handled'[c] = <<n>>
  BY MoveOf
<1>3. \A m \in Notice : <<m>> # <<>> /\ (<<n>> = <<m>> => n = m)
  BY ToldOnce
<1>4. Dispatched(c)'
  BY <1>1, <1>2, <1>3, Before DEF Dispatched, Notice
<1>5. QED
  BY <1>4, QuietMovesKeep DEF Steps, Notice

\* The handler answers, or is told of a failure.
LEMMA LastStepsKeep ==
  ASSUME DispatchInv, NEW c \in Call, Handled(c) \/ notifyFailure(c)
  PROVE  DispatchInv'
<1>1. UNCHANGED receiptsVars
  BY DEF Handled, notifyFailure
<1>2. CASE Handled(c)
  <2>1. PICK n \in {"applied", "refused"} : handled[c] = <<n>>
    BY <1>2, Before DEF Handled, Dispatched
  <2>2. Head(handled[c]) = n
    BY <2>1, ToldOnce DEF Notice
  <2>3. PICK w \in {"result", "error"} : Moves(c, "done", w, <<n>>) /\ (w = "result" => n = "applied")
    BY <1>2, <2>1, <2>2, Before DEF Handled, Ends, To, Moves
  <2>4. QED
    BY <1>1, <2>1, <2>3, EndsKeep DEF Notice
<1>3. CASE notifyFailure(c)
  <2>1. handled[c] = <<>> /\ Append(<<>>, "nothing") = <<"nothing">>
    BY <1>3, Before, ToldOnce DEF notifyFailure, Dispatched, Notice
  <2>2. Moves(c, "done", "error", <<"nothing">>)
    BY <1>3, <2>1 DEF notifyFailure, Ends, To, Tell, Moves
  <2>3. QED
    BY <1>1, <2>2, EndsKeep DEF Notice
<1>4. QED
  BY <1>2, <1>3

----------------------------------------------------------------------------
(* The theorems *)

\* For any calls and any length of a batch, dispatched by the coordinator or posted
\* by another client: at every moment the registry and the dispatches agree with
\* what has happened to the calls.
THEOREM DispatchInvariant == DispatchSpec => []DispatchInv
<1>1. DispatchInit => DispatchInv
  <2> SUFFICES ASSUME DispatchInit PROVE DispatchInv
    OBVIOUS
  <2>1. New \in CallRecord
    BY DEF New, CallRecord, Phase
  <2>2. ReceiptsInv
    BY <2>1 DEF DispatchInit, ReceiptsInit, ReceiptsInv, StateTyped, Progress, Verdict, Truthful,
                Numbered, Registered, New, Items
  <2>3. DispatchTypeOK /\ handled \in [Call -> Seq(Notice)]
    BY DEF DispatchInit, DispatchTypeOK
  <2>4. \A n \in Notice : <<>> # <<n>>
    BY ToldOnce
  <2>5. \A c \in Call : Dispatched(c)
    BY <2>4 DEF DispatchInit, ReceiptsInit, Dispatched, New, Notice
  <2>6. QED
    BY <2>2, <2>3, <2>5 DEF DispatchInv
<1>2. DispatchInv /\ [DispatchNext]_<<receiptsVars, dispatchVars>> => DispatchInv'
  <2> SUFFICES ASSUME DispatchInv, [DispatchNext]_<<receiptsVars, dispatchVars>>
               PROVE  DispatchInv'
    OBVIOUS
  <2>1. ASSUME NEW c \in Call, validateRequest(c) \/ permitProvider(c)
        PROVE  DispatchInv'
    BY <2>1, EarlyStepsKeep
  <2>2. ASSUME NEW c \in Call, Provide(c)
        PROVE  DispatchInv'
    <3>1. Single \in Asked
      BY DEF Single, Asked
    <3>2. QED
      BY <2>2, <3>1, PostingsKeep, WaitsKeep DEF Provide, To, Single
  <2>3. ASSUME NEW c \in Call, Direct(c)
        PROVE  DispatchInv'
    BY <2>3, PostingsKeep DEF Direct, To
  <2>4. ASSUME NEW c \in Call, fetchFails(c) \/ readGatewayPayload(c)
        PROVE  DispatchInv'
    BY <2>4, WaitsKeep DEF fetchFails, readGatewayPayload, To
  <2>5. ASSUME NEW c \in Call, Handle(c)
        PROVE  DispatchInv'
    BY <2>5, HandleKeeps
  <2>6. ASSUME NEW c \in Call, Handled(c) \/ notifyFailure(c)
        PROVE  DispatchInv'
    BY <2>6, LastStepsKeep
  <2>7. CASE Handling /\ UNCHANGED dispatchVars
    BY <2>7, HandlingKeepsDispatch
  <2>8. CASE UNCHANGED <<receiptsVars, dispatchVars>>
    <3>1. UNCHANGED <<calls, told, did, registry, nextId, reused, dispatch, ended, handled>>
      BY <2>8 DEF receiptsVars, dispatchVars
    <3>3. ReceiptsInv'
      BY <3>1, QuietKeeps DEF DispatchInv
    <3>4. QED
      BY <3>1, <3>3 DEF DispatchInv, DispatchTypeOK, Dispatched
  <2>9. QED
    BY <2>1, <2>2, <2>3, <2>4, <2>5, <2>6, <2>7, <2>8 DEF DispatchNext
<1>3. QED
  BY <1>1, <1>2, PTL DEF DispatchSpec

\* What the gateway certifies of a call is true and stays true, whatever is told
\* late and however often the gateway restarts; but what it certifies of a call that
\* was sent under a number for which an earlier process's reply was still due may be
\* what that reply says.
THEOREM ReceiptsTellTheTruth == DispatchSpec => []ReceiptsAreTrue
<1>1. DispatchInv => ReceiptsAreTrue
  BY InvCertifies DEF DispatchInv
<1>2. QED
  BY <1>1, DispatchInvariant, PTL

\* The receipt handler is told of every dispatch that had a permit before the worker
\* is, and the worker has a result only of a command that took effect, or that was
\* sent under a number for which an earlier process's reply was still due.
THEOREM DispatcherIsSafe == DispatchSpec => []DispatcherSafe
<1>1. DispatchInv => DispatcherSafe
  BY InvDispatches
<1>2. QED
  BY <1>1, DispatchInvariant, PTL

----------------------------------------------------------------------------
(* ProfileRouting: where a call goes *)

USE RoutingAssumption

\* A call being judged has as its target the trusted profile itself, or the identity
\* it is judged with, or the route of that name; a digest has been compared with it.
TargetMeant ==
  job.phase = "judging" =>
    /\ job.permit.durable => job.trusted = NoOne
    /\ \/ job.trusted # NoOne /\ job.target = job.trusted
       \/ job.target = job.effective
       \/ job.effective \in Alias /\ job.target = routes[job.effective]
    /\ DigestFits(job.permit, job.target)

RoutingInv == RoutingTypeOK /\ TargetMeant /\ GoesWherePermitted /\ DigestBinds

Fields == [phase : {"judging", "noTarget", "denied", "sent"}, asked : Id, permit : Permit,
           trusted : Id, target : Profile \cup {NoOne}, effective : Id,
           judgedBy : Identity \cup {Unbound}]

\* The route map leads to profiles.
LEMMA RouteMap ==
  ASSUME NEW c \in Config
  PROVE  buildRouteMapFromRaw(c) \in [Id -> Profile \cup {NoOne}]
<1> SUFFICES ASSUME NEW i \in Id, i \in Alias
             PROVE  c.resource[c.binding[i].resource].profile \in Profile
  BY DEF buildRouteMapFromRaw
<1>1. c.binding[i] \in [enabled : BOOLEAN, approved : BOOLEAN, resource : Resource]
  BY DEF Config
<1>2. c.binding[i].resource \in Resource
  BY <1>1
<1>3. c.resource[c.binding[i].resource] \in [enabled : BOOLEAN, profile : Profile, gateway : Gateway]
  BY <1>2 DEF Config
<1> QED BY <1>3

\* What a permit and a context name.
LEMMA PermitNames ==
  ASSUME NEW x \in Permit
  PROVE  /\ x.profileAlias \in Alias /\ x.profileAlias \in Named(x) /\ x.durable \in BOOLEAN
         /\ x.digest \in Profile \cup {NoOne} /\ (x.digest # NoOne => x.durable)
         /\ Named(x) \subseteq Profile \cup Alias
BY DEF Permit, Named, Id

\* The names a context has for its profile.
LEMMA ContextNames ==
  ASSUME NEW x \in Identity \cup {Unbound}
  PROVE  /\ x.profileAlias \in Alias \cup {NoOne} /\ x.profileId \in Id
         /\ Named(x) \subseteq Profile \cup Alias
         /\ x.profileId # NoOne => x.profileId \in Named(x)
BY DEF Identity, Unbound, Named, Id

\* A socket that is open is the one that was asked for.
LEMMA OpenOrNot ==
  ASSUME RoutingTypeOK, NEW p
  PROVE  /\ Open(p) \in Profile \cup {NoOne} /\ (Open(p) # NoOne => Open(p) = p)
         /\ p \in links => Open(p) = p
BY DEF Open, RoutingTypeOK

\* Types of the only profile that is connected.
LEMMA SoleLink == RoutingTypeOK => Sole \in Profile \cup {NoOne}
BY DEF Sole, RoutingTypeOK

\* A target, unless it is the only profile there is, is what was asked for or its
\* route; what is asked for by a logical hint is routed.
LEMMA TargetOf ==
  ASSUME RoutingTypeOK, NEW id \in Id, NEW hints \in SUBSET Alias, NEW trusted \in SUBSET Id
  PROVE  LET t == resolveTarget(id, hints, trusted)
         IN /\ t \in Profile \cup {NoOne}
            /\ t # NoOne /\ id # NoOne => t = id \/ (id \in Alias /\ t = routes[id]) \/ hints = {}
            /\ t # NoOne /\ id # NoOne /\ hints = {} => t = id \/ t = routes[id]
            /\ t # NoOne /\ id \in trusted /\ id # NoOne /\ hints # {} => t = id
<1>1. routes[id] \in Profile \cup {NoOne} /\ links \subseteq Profile /\ NoOne \notin Profile
  BY DEF RoutingTypeOK
<1>2. \A p : Open(p) \in Profile \cup {NoOne} /\ (Open(p) # NoOne => Open(p) = p)
  BY OpenOrNot
<1>3. CASE id = NoOne
  BY <1>3, SoleLink DEF resolveTarget
<1>4. CASE id # NoOne /\ hints # {}
  <2>1. resolveTarget(id, hints, trusted) = Hinted(id, hints, trusted)
    BY <1>4 DEF resolveTarget
  <2>2. /\ Hinted(id, hints, trusted) \in {Open(id), NoOne} \/
             (id \in hints /\ Hinted(id, hints, trusted) = Open(routes[id]))
        /\ id \in trusted => Hinted(id, hints, trusted) = Open(id)
    BY DEF Hinted
  <2> QED BY <1>2, <1>4, <2>1, <2>2
<1>5. CASE id # NoOne /\ hints = {}
  <2>1. resolveTarget(id, hints, trusted) \in {Open(routes[id])} \/
          (id \in links /\ resolveTarget(id, hints, trusted) = id)
    BY <1>5 DEF resolveTarget
  <2> QED BY <1>1, <1>2, <1>5, <2>1
<1> QED BY <1>3, <1>4, <1>5

\* The second look finds the name itself or where the route map leads.
LEMMA TargetAgain ==
  ASSUME RoutingTypeOK, NEW id \in Id, id # NoOne
  PROVE  LET t == resolveEffectiveTargetForTrusted(id)
         IN t \in Profile \cup {NoOne} /\ (t # NoOne => t = id \/ t = routes[id])
<1>1. routes[id] \in Profile \cup {NoOne} /\ {} \in SUBSET Alias /\ {} \in SUBSET Id
  BY DEF RoutingTypeOK
<1>2. resolveTarget(id, {}, {}) \in Profile \cup {NoOne}
      /\ (resolveTarget(id, {}, {}) # NoOne => resolveTarget(id, {}, {}) \in {id, routes[id]})
  BY <1>1, TargetOf
<1> QED BY <1>1, <1>2 DEF resolveEffectiveTargetForTrusted

----------------------------------------------------------------------------
(* Its steps *)

\* What the verifier has agreed to is named by the permit or the context, or is the
\* route of a name of theirs.
LEMMA BoundMeans ==
  ASSUME NEW id, id # NoOne, NEW ctx \in Identity \cup {Unbound}, NEW permit \in Permit,
         ProfileBound(id, ctx, permit)
  PROVE  LET names == Named(permit) \cup (IF permit.durable THEN {} ELSE Named(ctx))
         IN id \in Named(permit) \/ \E n \in names : routes[n] = id
<1> DEFINE c == IF permit.durable THEN Unbound ELSE ctx
<1>1. ~Denies(permit, id) \/ _isPhysicalRouteAllowed(id, c, permit)
  BY DEF ProfileBound
<1>2. permit.profileAlias \in Named(permit)
  BY PermitNames
<1>3. CASE ~Denies(permit, id)
  BY <1>2, <1>3 DEF Denies
<1>4. CASE _isPhysicalRouteAllowed(id, c, permit)
  <2>1. Named(Unbound) = {}
    BY DEF Named, Unbound
  <2> QED BY <1>4, <2>1 DEF _isPhysicalRouteAllowed
<1> QED BY <1>1, <1>3, <1>4

\* A call arrives and picks its target.
LEMMA ArriveKeepsTarget ==
  ASSUME RoutingInv, NEW asked \in Id, NEW permit \in Permit, Arrive(asked, permit)
  PROVE  RoutingInv'
<1> DEFINE trusted == IF permit.durable THEN NoOne ELSE context.profileId
           ruled   == trusted # NoOne /\ Crowd
           id      == IF ruled THEN trusted ELSE asked
           hints   == {context.profileAlias, permit.profileAlias} \ {NoOne}
           target  == resolveTarget(id, hints, {trusted} \ {NoOne})
           phase   == IF target = NoOne THEN "noTarget"
                      ELSE IF DigestFits(permit, target) THEN "judging" ELSE "denied"
           named   == IF ruled THEN trusted ELSE IF asked # NoOne THEN asked ELSE target
<1>1. /\ job' = [phase |-> phase, asked |-> asked, permit |-> permit, trusted |-> trusted,
                 target |-> target, effective |-> named, judgedBy |-> Unbound]
      /\ UNCHANGED <<routes, links, context>>
  BY DEF Arrive
<1>2. RoutingTypeOK /\ context \in Identity \cup {Unbound}
  BY DEF RoutingInv, RoutingTypeOK
<1>3. /\ trusted \in Id /\ (permit.durable => trusted = NoOne) /\ id \in Id
      /\ hints \in SUBSET Alias /\ hints # {} /\ {trusted} \ {NoOne} \in SUBSET Id
      /\ NoOne \in Id /\ Profile \subseteq Id
  BY <1>2, PermitNames, ContextNames DEF Id
<1> HIDE DEF hints, trusted
<1>4. /\ target \in Profile \cup {NoOne}
      /\ target # NoOne /\ id # NoOne => target = id \/ (id \in Alias /\ target = routes[id])
      /\ target # NoOne /\ ruled => target = trusted
  BY <1>2, <1>3, TargetOf
<1> HIDE DEF target
<1>5. named \in Id /\ (phase \in {"judging", "noTarget", "denied"})
  BY <1>3, <1>4
<1>6. job' \in Fields /\ (job'.phase \in {"judging", "sent"} => job'.target # NoOne)
  <2> HIDE DEF named
  <2> QED BY <1>1, <1>3, <1>4, <1>5 DEF Fields
<1>7. RoutingTypeOK'
  BY <1>1, <1>2, <1>6 DEF RoutingTypeOK, Fields
<1>8. /\ job'.phase = phase /\ job'.permit = permit /\ job'.trusted = trusted
      /\ job'.target = target /\ job'.effective = named
  BY <1>1
<1>9. TargetMeant'
  <2> SUFFICES ASSUME phase = "judging" PROVE TargetMeant'
    BY <1>8 DEF TargetMeant
  <2>1. target # NoOne /\ DigestFits(permit, target)
    OBVIOUS
  <2>2. CASE ruled
    BY <1>1, <1>3, <1>4, <1>8, <2>1, <2>2 DEF TargetMeant, DigestFits
  <2>3. CASE ~ruled
    BY <1>1, <1>3, <1>4, <1>8, <2>1, <2>3 DEF TargetMeant, DigestFits
  <2> QED BY <2>2, <2>3
<1>10. GoesWherePermitted' /\ DigestBinds'
  BY <1>5, <1>8 DEF GoesWherePermitted, DigestBinds
<1> QED BY <1>7, <1>9, <1>10 DEF RoutingInv

\* It is judged.
LEMMA JudgedKeepsTarget == ASSUME RoutingInv, Judged PROVE RoutingInv'
<1> DEFINE again == resolveEffectiveTargetForTrusted(job.trusted)
           sent  == [job EXCEPT !.phase = "sent", !.judgedBy = context]
<1>1. /\ job.phase = "judging" /\ ProfileBound(job.effective, context, job.permit)
      /\ job' = IF job.trusted = NoOne \/ ~Crowd THEN sent
                ELSE IF again = NoOne THEN [job EXCEPT !.phase = "noTarget"]
                ELSE [sent EXCEPT !.target = again, !.effective = job.trusted]
      /\ UNCHANGED <<routes, links, context>>
  BY DEF Judged
<1>2. /\ RoutingTypeOK /\ context \in Identity \cup {Unbound} /\ job \in Fields
      /\ job.target \in Profile
  BY <1>1 DEF RoutingInv, RoutingTypeOK, NoJob, Fields
<1>3. /\ job.permit \in Permit /\ job.trusted \in Id /\ job.effective \in Id
      /\ job.judgedBy \in Identity \cup {Unbound} /\ job.asked \in Id
      /\ job.phase \in {"judging", "noTarget", "denied", "sent"}
  BY <1>2 DEF Fields
<1>4. /\ job.permit.durable => job.trusted = NoOne
      /\ \/ job.trusted # NoOne /\ job.target = job.trusted
         \/ job.target = job.effective
         \/ job.effective \in Alias /\ job.target = routes[job.effective]
      /\ DigestFits(job.permit, job.target)
  BY <1>1 DEF RoutingInv, TargetMeant
<1>5. CASE job.trusted # NoOne /\ Crowd /\ again = NoOne
  <2>1. job' = [job EXCEPT !.phase = "noTarget"]
    BY <1>1, <1>5
  <2>2. job' \in Fields /\ job'.phase = "noTarget"
    BY <1>2, <2>1 DEF Fields
  <2>3. RoutingTypeOK'
    BY <1>1, <1>2, <2>2 DEF RoutingTypeOK, Fields
  <2> QED BY <2>2, <2>3 DEF RoutingInv, TargetMeant, GoesWherePermitted, DigestBinds
<1>6. CASE job.trusted = NoOne \/ ~Crowd
  <2>1. job' = sent
    BY <1>1, <1>6
  <2>2. /\ job' \in Fields /\ job'.phase = "sent" /\ job'.target = job.target
        /\ job'.permit = job.permit /\ job'.trusted = job.trusted /\ job'.judgedBy = context
    BY <1>2, <2>1 DEF Fields
  <2>3. RoutingTypeOK'
    BY <1>1, <1>2, <2>2 DEF RoutingTypeOK, Fields
  <2>4. GoesWherePermitted'
    <3> DEFINE names == Named(job.permit) \cup
                          (IF job.permit.durable THEN {} ELSE Named(context) \cup {job.trusted})
    <3> SUFFICES job.target \in names \cup {routes[n] : n \in names}
      BY <1>1, <2>2 DEF GoesWherePermitted
    <3>1. CASE job.trusted # NoOne /\ job.target = job.trusted
      BY <1>4, <3>1
    <3>2. ASSUME job.effective \in Named(job.permit) \/ \E n \in names : routes[n] = job.effective,
                 job.target = job.effective \/ (job.effective \in Alias /\ job.target = routes[job.effective])
          PROVE  job.target \in names \cup {routes[n] : n \in names}
      <4>1. CASE job.target = job.effective
        BY <3>2, <4>1
      <4>2. CASE job.effective \in Alias /\ job.target = routes[job.effective]
        <5>1. \A n \in names : n \in Id
          BY <1>2, <1>3, PermitNames, ContextNames DEF Id
        <5>2. \A n \in names : routes[n] \notin Alias
          BY <1>2, <5>1 DEF RoutingTypeOK
        <5> QED BY <3>2, <4>2, <5>2
      <4> QED BY <3>2, <4>1, <4>2
    <3>3. CASE job.effective # NoOne
      BY <1>1, <1>2, <1>3, <1>4, <3>1, <3>2, <3>3, BoundMeans
    <3>4. CASE job.effective = NoOne
      BY <1>2, <1>4, <3>1, <3>4
    <3> QED BY <3>3, <3>4
  <2>5. DigestBinds'
    BY <1>4, <2>2 DEF DigestBinds, DigestFits
  <2> QED BY <2>2, <2>3, <2>4, <2>5 DEF RoutingInv, TargetMeant
<1>7. CASE job.trusted # NoOne /\ Crowd /\ again # NoOne
  <2>1. job' = [sent EXCEPT !.target = again, !.effective = job.trusted]
    BY <1>1, <1>7
  <2>2. again \in Profile /\ (again = job.trusted \/ again = routes[job.trusted])
    BY <1>2, <1>3, <1>7, TargetAgain
  <2> HIDE DEF again
  <2>3. /\ job' \in Fields /\ job'.phase = "sent" /\ job'.target = again
        /\ job'.permit = job.permit /\ job'.trusted = job.trusted /\ job'.judgedBy = context
    BY <1>2, <1>3, <2>1, <2>2 DEF Fields
  <2>4. RoutingTypeOK'
    BY <1>1, <1>2, <2>2, <2>3 DEF RoutingTypeOK, Fields
  <2>5. ~job.permit.durable /\ job.permit.digest = NoOne
    BY <1>3, <1>4, <1>7, PermitNames
  <2>6. GoesWherePermitted' /\ DigestBinds'
    BY <1>1, <2>2, <2>3, <2>5 DEF GoesWherePermitted, DigestBinds
  <2> QED BY <2>3, <2>4, <2>6 DEF RoutingInv, TargetMeant
<1> QED BY <1>5, <1>6, <1>7

\* Every step keeps the invariant of the routing.
LEMMA RoutingNextInv == RoutingInv /\ [RoutingNext]_routingVars => RoutingInv'
<1> SUFFICES ASSUME RoutingInv, [RoutingNext]_routingVars PROVE RoutingInv'
  OBVIOUS
<1>1. ASSUME NEW asked \in Id, NEW permit \in Permit, Arrive(asked, permit) PROVE RoutingInv'
  BY <1>1, ArriveKeepsTarget
<1>2. CASE Judged
  BY <1>2, JudgedKeepsTarget
<1>3. CASE Denied
  <2>1. /\ job.phase = "judging" /\ job' = [job EXCEPT !.phase = "denied"]
        /\ UNCHANGED <<routes, links, context>>
    BY <1>3 DEF Denied
  <2>2. job \in Fields
    BY <2>1 DEF RoutingInv, RoutingTypeOK, NoJob, Fields
  <2>3. job' \in Fields /\ job'.phase = "denied"
    BY <2>1, <2>2 DEF Fields
  <2> QED BY <2>1, <2>3 DEF RoutingInv, RoutingTypeOK, Fields, TargetMeant, GoesWherePermitted,
                            DigestBinds
<1>4. ASSUME UNCHANGED <<routes, job>>, links' \in SUBSET Profile,
             context' \in Identity \cup {Unbound}
      PROVE  RoutingInv'
  BY <1>4 DEF RoutingInv, RoutingTypeOK, TargetMeant, GoesWherePermitted, DigestBinds
<1>5. ASSUME NEW p \in Profile, Connects(p) \/ Disconnects(p) PROVE RoutingInv'
  BY <1>4, <1>5 DEF Connects, Disconnects, RoutingInv, RoutingTypeOK
<1>6. ASSUME NEW c \in Identity \cup {Unbound}, ContextChanges(c) PROVE RoutingInv'
  BY <1>4, <1>6 DEF ContextChanges, RoutingInv, RoutingTypeOK
<1>7. CASE UNCHANGED routingVars
  BY <1>4, <1>7 DEF routingVars, RoutingInv, RoutingTypeOK
<1> QED BY <1>1, <1>2, <1>3, <1>5, <1>6, <1>7 DEF RoutingNext

\* Before any call.
LEMMA RoutingInitInv == RoutingInit => RoutingInv
<1> SUFFICES ASSUME RoutingInit PROVE RoutingInv
  OBVIOUS
<1>1. routes \in [Id -> Profile \cup {NoOne}] /\ links = {} /\ context = Unbound /\ job = NoJob
  BY RouteMap DEF RoutingInit
<1> QED BY <1>1 DEF RoutingInv, RoutingTypeOK, NoJob, TargetMeant, GoesWherePermitted, DigestBinds

\* Between arrival and sending the target of a call is the trusted profile, the
\* identity it is judged with or its route, however links and contexts change.
THEOREM RoutingInvariant == RoutingSpec => []RoutingInv
BY RoutingInitInv, RoutingNextInv, PTL DEF RoutingSpec

\* A call is sent to a profile that its permit or its context means, and a digest in
\* a permit is that of the profile, for any configuration and any profiles.
THEOREM RoutedWherePermitted == RoutingSpec => []RoutingSafe
<1>1. RoutingInv => RoutingSafe
  BY DEF RoutingInv, RoutingSafe
<1> QED BY <1>1, RoutingInvariant, PTL

\* A call that names the alias of its permit finds the connected profile of that
\* alias, unless the context means another.
THEOREM NamedAliasIsServed == RoutingSpec => RoutedCallIsServed
<1> DEFINE Served == job'.phase = "noTarget" /\ job.phase # "noTarget" =>
                       LET p == routes[job'.permit.profileAlias]
                       IN p \notin links \/ job'.asked # job'.permit.profileAlias
                          \/ job'.trusted \notin {NoOne, p}
<1>1. ASSUME RoutingInv, [RoutingNext]_routingVars PROVE [Served]_routingVars
  <2> SUFFICES ASSUME job'.phase = "noTarget", job.phase # "noTarget",
                      job'.asked = job'.permit.profileAlias,
                      NEW p, p = routes[job'.permit.profileAlias], p \in links,
                      job'.trusted \in {NoOne, p}
               PROVE  FALSE
    OBVIOUS
  <2>1. RoutingTypeOK /\ p \in Profile /\ Open(p) = p /\ p # NoOne
    BY <1>1, OpenOrNot DEF RoutingInv, RoutingTypeOK
  <2>2. ASSUME NEW asked \in Id, NEW permit \in Permit, Arrive(asked, permit) PROVE FALSE
    <3> DEFINE trusted == IF permit.durable THEN NoOne ELSE context.profileId
               ruled   == trusted # NoOne /\ Crowd
               id      == IF ruled THEN trusted ELSE asked
               hints   == {context.profileAlias, permit.profileAlias} \ {NoOne}
               target  == resolveTarget(id, hints, {trusted} \ {NoOne})
    <3>1. job'.permit = permit /\ job'.asked = asked /\ job'.trusted = trusted
          /\ (target # NoOne => job'.phase # "noTarget")
      BY <2>2 DEF Arrive
    <3>2. asked = permit.profileAlias /\ asked \in Alias /\ asked # NoOne /\ asked \in hints
      BY <3>1, PermitNames
    <3> HIDE DEF hints, trusted
    <3>3. trusted \in {NoOne, p} /\ routes[asked] = p /\ target = NoOne
      BY <3>1, <3>2
    <3>4. CASE ruled
      BY <2>1, <3>2, <3>3, <3>4 DEF resolveTarget, Hinted
    <3>5. CASE ~ruled
      BY <2>1, <3>2, <3>3, <3>5 DEF resolveTarget, Hinted
    <3> QED BY <3>4, <3>5
  <2>3. CASE Judged
    <3>1. job.phase = "judging" /\ job \in Fields
      BY <1>1, <2>3 DEF Judged, RoutingInv, RoutingTypeOK, NoJob, Fields
    <3>2. job.trusted # NoOne /\ resolveEffectiveTargetForTrusted(job.trusted) = NoOne
          /\ job' = [job EXCEPT !.phase = "noTarget"]
      BY <2>3, <3>1 DEF Judged, Fields
    <3>3. job.trusted = p
      BY <3>1, <3>2 DEF Fields
    <3> QED BY <2>1, <3>2, <3>3 DEF resolveEffectiveTargetForTrusted, resolveTarget, RoutingTypeOK
  <2>4. CASE Denied
    BY <1>1, <2>4 DEF Denied, RoutingInv, RoutingTypeOK, NoJob
  <2>5. CASE UNCHANGED job
    BY <2>5
  <2> QED BY <1>1, <2>2, <2>3, <2>4, <2>5
          DEF RoutingNext, routingVars, Connects, Disconnects, ContextChanges
<1> QED BY <1>1, RoutingInvariant, PTL DEF RoutingSpec, RoutedCallIsServed

=============================================================================
