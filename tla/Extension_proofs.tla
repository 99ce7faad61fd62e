-------------------------- MODULE Extension_proofs --------------------------
(***************************************************************************)
(* Proofs about the extension's worker: batches, what the worker remembers *)
(* of the debugging session with its tab, the captures of the console and  *)
(* of the network, and the frames of a page.                               *)
(***************************************************************************)
EXTENDS Batch, ConsoleCapture, NetworkCapture, DebuggerBridge, FrameTree, Arrays_proofs

----------------------------------------------------------------------------
(* Batches *)

Result == [index : 1 .. MaxActions, ok : BOOLEAN, tab : Tab \cup {NoTab}]

\* The actions that had their turn, and the one that has it.
HadTurn == IF phase \in {"running", "shooting"} THEN 1 .. next ELSE 1 .. next - 1

\* Where the batch stands: one result per action that had its turn, in order.
InStep ==
  /\ next \in 1 .. Len(batch.actions) + 1
  /\ phase # "done" => next <= Len(batch.actions)
  /\ Len(results) = IF phase = "shooting" THEN next ELSE next - 1
  /\ \A i \in 1 .. Len(results) : results[i].index = i
  /\ DOMAIN used \subseteq HadTurn

\* With stop-on-error a failure is the last thing that happened.
FailureIsLast ==
  batch.stop => \A i \in 1 .. Len(results) : ~results[i].ok => i = Len(results) /\ phase = "done"

\* The tab carried to an action: the last one told of before it, or the batch's.
CarriedTo(n, tab) ==
  \/ tab = batch.tab /\ \A j \in 1 .. n - 1 : results[j].tab = NoTab
  \/ \E j \in 1 .. n - 1 :
       /\ results[j].tab # NoTab /\ tab = results[j].tab
       /\ \A k \in 1 .. n - 1 : results[k].tab # NoTab => k <= j

CarryIsLast == CarriedTo(Len(results) + 1, carryTab)

EachWhereLed == \A i \in DOMAIN used : batch.actions[i].tab = NoTab => CarriedTo(i, used[i])

BatchInv == BatchTypeOK /\ InStep /\ FailureIsLast /\ CarryIsLast /\ EachWhereLed

\* A batch has between one and MaxActions actions.
LEMMA ActionsAreSeq ==
  ASSUME NEW actions \in Actions
  PROVE  /\ actions \in Seq([method : Methods, tab : Tab \cup {NoTab}])
         /\ Len(actions) \in 1 .. MaxActions
<1>1. PICK n \in 1 .. MaxActions : actions \in [1 .. n -> [method : Methods, tab : Tab \cup {NoTab}]]
  BY DEF Actions
<1>2. actions \in Seq([method : Methods, tab : Tab \cup {NoTab}])
  <2> DEFINE S == [method : Methods, tab : Tab \cup {NoTab}]
  <2>1. actions \in [1 .. n -> S] /\ n \in Nat BY <1>1, BatchAssumption
  <2> HIDE DEF S
  <2>2. actions \in Seq(S) BY <2>1, SeqDef
  <2> QED BY <2>2 DEF S
<1>3. Len(actions) = n BY <1>1, <1>2, BatchAssumption, LenProperties
<1> QED BY <1>2, <1>3

\* A batch that begins stands where it should.
LEMMA BatchBegins == BatchInit => BatchInv
<1> SUFFICES ASSUME BatchInit PROVE BatchInv OBVIOUS
<1>1. PICK actions \in Actions, stop \in BOOLEAN, shots \in BOOLEAN, tab \in Tab \cup {NoTab} :
        Called([actions |-> actions, stop |-> stop, shots |-> shots, tab |-> tab])
  BY DEF BatchInit
<1>2. Len(actions) \in 1 .. MaxActions BY ActionsAreSeq
<1>3. /\ batch = [actions |-> actions, stop |-> stop, shots |-> shots, tab |-> tab]
      /\ carryTab = tab /\ next = 1 /\ phase = "ready" /\ results = <<>> /\ used = <<>> /\ stray = {}
  BY <1>1 DEF Called
<1>4. BatchTypeOK BY <1>2, <1>3, BatchAssumption DEF BatchTypeOK
<1>5. InStep /\ FailureIsLast BY <1>2, <1>3 DEF InStep, FailureIsLast, HadTurn
<1>6. CarryIsLast /\ EachWhereLed BY <1>3 DEF CarryIsLast, EachWhereLed, CarriedTo
<1> QED BY <1>4, <1>5, <1>6 DEF BatchInv

\* What an entry in the results does to the sequence.
LEMMA ResultEntered ==
  ASSUME BatchInv, NEW ok \in BOOLEAN, NEW tab \in Tab \cup {NoTab}, Pushed(ok, tab),
         phase # "shooting", phase # "done"
  PROVE  /\ results' \in Seq(Result)
         /\ Len(results) = next - 1
         /\ Len(results') = next
         /\ \A i \in 1 .. next - 1 : results'[i] = results[i]
         /\ results'[next] = [index |-> next, ok |-> ok, tab |-> tab]
         /\ next \in 1 .. Len(batch.actions) /\ next \in 1 .. MaxActions
<1>1. Len(batch.actions) \in 1 .. MaxActions BY ActionsAreSeq DEF BatchInv, BatchTypeOK
<1>2. next \in 1 .. Len(batch.actions) BY <1>1 DEF BatchInv, InStep
<1>3. results \in Seq(Result) BY DEF BatchInv, BatchTypeOK, Result
<1>4. Len(results) = next - 1 BY DEF BatchInv, InStep
<1>5. [index |-> next, ok |-> ok, tab |-> tab] \in Result BY <1>1, <1>2, BatchAssumption DEF Result
<1> QED BY <1>1, <1>2, <1>3, <1>4, <1>5, BatchAssumption DEF Pushed

\* An entry keeps the carried tab the last one told of.
LEMMA CarryAfterEntry ==
  ASSUME BatchInv, NEW ok \in BOOLEAN, NEW tab \in Tab \cup {NoTab}, Pushed(ok, tab),
         phase # "shooting", phase # "done", UNCHANGED batch
  PROVE  CarryIsLast' /\ carryTab' \in Tab \cup {NoTab}
<1>0. /\ results' \in Seq(Result)
      /\ Len(results) = next - 1
      /\ Len(results') = next
      /\ \A i \in 1 .. next - 1 : results'[i] = results[i]
      /\ results'[next] = [index |-> next, ok |-> ok, tab |-> tab]
      /\ next \in 1 .. Len(batch.actions) /\ next \in 1 .. MaxActions
  BY ResultEntered
<1>1. /\ Len(results) = next - 1 /\ Len(results') = next /\ next \in Nat \ {0}
      /\ \A i \in 1 .. next - 1 : results'[i] = results[i]
      /\ results'[next].tab = tab
  BY <1>0, BatchAssumption
<1>2. CarriedTo(next, carryTab) BY <1>1 DEF BatchInv, CarryIsLast
<1>3. carryTab' = IF tab = NoTab THEN carryTab ELSE tab BY DEF Pushed
<1>t. carryTab' \in Tab \cup {NoTab} BY <1>3 DEF BatchInv, BatchTypeOK
<1>. DEFINE Told(tab1) ==
       \/ tab1 = batch.tab /\ \A j \in 1 .. next : results'[j].tab = NoTab
       \/ \E j \in 1 .. next :
            /\ results'[j].tab # NoTab /\ tab1 = results'[j].tab
            /\ \A k \in 1 .. next : results'[k].tab # NoTab => k <= j
<1>r. ASSUME Told(carryTab') PROVE CarryIsLast'
  <2>1. Len(results') + 1 - 1 = next BY <1>1
  <2> QED BY <1>r, <2>1 DEF CarryIsLast, CarriedTo
<1>4. CASE tab = NoTab
  <2>1. \A k \in 1 .. next : results'[k].tab # NoTab => k \in 1 .. next - 1 BY <1>1, <1>4
  <2>2. CASE carryTab = batch.tab /\ \A j \in 1 .. next - 1 : results[j].tab = NoTab
    BY <1>1, <1>3, <1>4, <2>1, <2>2, <1>r, <1>t
  <2>3. CASE ~(carryTab = batch.tab /\ \A j \in 1 .. next - 1 : results[j].tab = NoTab)
    <3>0. PICK j \in 1 .. next - 1 :
            /\ results[j].tab # NoTab /\ carryTab = results[j].tab
            /\ \A k \in 1 .. next - 1 : results[k].tab # NoTab => k <= j
      BY <1>2, <2>3 DEF CarriedTo
    <3>1. /\ j \in 1 .. next /\ results'[j].tab # NoTab /\ carryTab' = results'[j].tab
          /\ \A k \in 1 .. next : results'[k].tab # NoTab => k <= j
      BY <1>1, <1>3, <1>4, <2>1, <3>0
    <3> QED BY <3>1, <1>r, <1>t
  <2> QED BY <2>2, <2>3
<1>5. CASE tab # NoTab
  BY <1>1, <1>3, <1>5, <1>r, <1>t
<1> QED BY <1>4, <1>5

\* Where the commands already started have run stays told.
LEMMA LedAfterEntry ==
  ASSUME BatchInv, NEW ok \in BOOLEAN, NEW tab \in Tab \cup {NoTab}, Pushed(ok, tab),
         phase # "shooting", phase # "done", UNCHANGED <<batch, used>>
  PROVE  EachWhereLed'
<1>0. /\ results' \in Seq(Result)
      /\ Len(results) = next - 1
      /\ Len(results') = next
      /\ \A i \in 1 .. next - 1 : results'[i] = results[i]
      /\ results'[next] = [index |-> next, ok |-> ok, tab |-> tab]
      /\ next \in 1 .. Len(batch.actions) /\ next \in 1 .. MaxActions
  BY ResultEntered
<1>1. /\ next \in Nat /\ \A i \in 1 .. next - 1 : results'[i] = results[i]
  BY <1>0, BatchAssumption
<1>2. DOMAIN used \subseteq 1 .. next BY <1>1 DEF BatchInv, InStep, HadTurn
<1>3. SUFFICES ASSUME NEW i \in DOMAIN used, batch.actions[i].tab = NoTab
               PROVE  CarriedTo(i, used[i])'
  BY DEF EachWhereLed
<1>4. CarriedTo(i, used[i]) BY <1>3 DEF BatchInv, EachWhereLed
<1>5. \A j \in 1 .. i - 1 : results'[j] = results[j] BY <1>1, <1>2
<1> QED BY <1>4, <1>5 DEF CarriedTo

\* An entry after which the batch goes on.
LEMMA EnteredKeeps ==
  ASSUME BatchInv, NEW ok \in BOOLEAN, NEW tab \in Tab \cup {NoTab}, Pushed(ok, tab), GoOn(ok),
         phase # "shooting", phase # "done", UNCHANGED <<batch, used>>,
         stray' \subseteq 1 .. MaxActions
  PROVE  BatchInv'
<1>1. /\ results' \in Seq(Result)
      /\ Len(results) = next - 1 /\ Len(results') = next
      /\ \A i \in 1 .. next - 1 : results'[i] = results[i]
      /\ results'[next] = [index |-> next, ok |-> ok, tab |-> tab]
      /\ next \in 1 .. Len(batch.actions) /\ next \in 1 .. MaxActions
  BY ResultEntered
<1>2. Len(batch.actions) \in 1 .. MaxActions BY ActionsAreSeq DEF BatchInv, BatchTypeOK
<1>3. CarryIsLast' /\ carryTab' \in Tab \cup {NoTab} BY CarryAfterEntry
<1>4. EachWhereLed' BY LedAfterEntry
<1>5. next' = next + 1 /\ phase' \in {"done", "ready"} BY DEF GoOn
<1>6. BatchTypeOK'
  BY <1>1, <1>2, <1>3, <1>5, BatchAssumption DEF BatchInv, BatchTypeOK, Result
<1>7. InStep'
  <2>1. phase' # "done" => next # Len(batch.actions) BY DEF GoOn
  <2>2. \A i \in 1 .. next - 1 : results[i].index = i BY <1>1 DEF BatchInv, InStep
  <2>3. \A i \in 1 .. next : results'[i].index = i BY <1>1, <2>2
  <2>4. DOMAIN used \subseteq 1 .. next BY <1>1 DEF BatchInv, InStep, HadTurn
  <2> QED BY <1>1, <1>2, <1>5, <2>1, <2>3, <2>4, BatchAssumption DEF InStep, HadTurn
<1>8. FailureIsLast'
  <2> SUFFICES ASSUME batch.stop, NEW i \in 1 .. next, ~results'[i].ok
               PROVE  i = next /\ phase' = "done"
    BY <1>1 DEF FailureIsLast
  <2>1. i = next BY <1>1 DEF BatchInv, FailureIsLast
  <2>2. ~ok BY <1>1, <2>1
  <2> QED BY <2>1, <2>2 DEF GoOn
<1> QED BY <1>3, <1>4, <1>6, <1>7, <1>8 DEF BatchInv

\* The command whose turn it is starts in the tab that is carried.
LEMMA RunKeeps == ASSUME BatchInv, Run PROVE BatchInv'
<1>1. Len(batch.actions) \in 1 .. MaxActions BY ActionsAreSeq DEF BatchInv, BatchTypeOK
<1>2. /\ phase = "ready" /\ phase' = "running"
      /\ UNCHANGED <<batch, next, carryTab, results, stray>>
      /\ DOMAIN used' = DOMAIN used \cup {next}
      /\ \A i \in DOMAIN used : i # next => used'[i] = used[i]
      /\ Current.tab = NoTab => used'[next] = carryTab
  BY DEF Run
<1>3. /\ next \in 1 .. Len(batch.actions) /\ Len(results) = next - 1
      /\ DOMAIN used \subseteq 1 .. next - 1
  BY <1>2 DEF BatchInv, InStep, HadTurn
<1>4. BatchTypeOK'
  <2>1. DOMAIN used' \subseteq 1 .. MaxActions BY <1>1, <1>2, <1>3, BatchAssumption
  <2> QED BY <1>2, <2>1 DEF BatchInv, BatchTypeOK
<1>5. InStep' BY <1>1, <1>2, <1>3, BatchAssumption DEF BatchInv, InStep, HadTurn
<1>6. FailureIsLast' /\ CarryIsLast' BY <1>2 DEF BatchInv, FailureIsLast, CarryIsLast, CarriedTo
<1>7. EachWhereLed'
  <2> SUFFICES ASSUME NEW i \in DOMAIN used', batch.actions[i].tab = NoTab
               PROVE  CarriedTo(i, used'[i])
    BY <1>2 DEF EachWhereLed, CarriedTo
  <2>1. CASE i = next
    <3>1. used'[i] = carryTab BY <1>2, <2>1 DEF Current
    <3>2. CarriedTo(next, carryTab) BY <1>3 DEF BatchInv, CarryIsLast
    <3> QED BY <2>1, <3>1, <3>2
  <2>2. CASE i # next BY <1>2, <2>2 DEF BatchInv, EachWhereLed
  <2> QED BY <2>1, <2>2
<1> QED BY <1>4, <1>5, <1>6, <1>7 DEF BatchInv

\* A command that ended well, with or without a picture to follow.
LEMMA SucceededKeeps == ASSUME BatchInv, Succeeded PROVE BatchInv'
<1>1. PICK tab \in Tab \cup {NoTab} :
        /\ Pushed(TRUE, tab)
        /\ IF batch.shots THEN phase' = "shooting" /\ UNCHANGED next ELSE GoOn(TRUE)
  BY DEF Succeeded
<1>2. phase = "running" /\ UNCHANGED <<batch, used, stray>> BY DEF Succeeded
<1>3. CASE ~batch.shots
  <2>1. stray' \subseteq 1 .. MaxActions BY <1>2 DEF BatchInv, BatchTypeOK
  <2> QED BY <1>1, <1>2, <1>3, <2>1, EnteredKeeps
<1>4. CASE batch.shots
  <2>1. phase' = "shooting" /\ next' = next BY <1>1, <1>4
  <2>2. /\ results' \in Seq(Result)
        /\ Len(results) = next - 1 /\ Len(results') = next
        /\ \A i \in 1 .. next - 1 : results'[i] = results[i]
        /\ results'[next] = [index |-> next, ok |-> TRUE, tab |-> tab]
        /\ next \in 1 .. Len(batch.actions) /\ next \in 1 .. MaxActions
    BY <1>1, <1>2, ResultEntered
  <2>3. CarryIsLast' /\ carryTab' \in Tab \cup {NoTab} BY <1>1, <1>2, CarryAfterEntry
  <2>4. EachWhereLed' BY <1>1, <1>2, LedAfterEntry
  <2>5. Len(batch.actions) \in 1 .. MaxActions BY ActionsAreSeq DEF BatchInv, BatchTypeOK
  <2>6. BatchTypeOK'
    BY <1>2, <2>1, <2>2, <2>3, <2>5, BatchAssumption DEF BatchInv, BatchTypeOK, Result
  <2>7. InStep'
    <3>1. \A i \in 1 .. next - 1 : results[i].index = i BY <2>2 DEF BatchInv, InStep
    <3>2. \A i \in 1 .. next : results'[i].index = i BY <2>2, <3>1
    <3>3. DOMAIN used \subseteq 1 .. next BY <1>2 DEF BatchInv, InStep, HadTurn
    <3> QED BY <1>2, <2>1, <2>2, <2>5, <3>2, <3>3, BatchAssumption DEF InStep, HadTurn
  <2>8. FailureIsLast' BY <1>2, <2>2 DEF BatchInv, FailureIsLast
  <2> QED BY <2>3, <2>4, <2>6, <2>7, <2>8 DEF BatchInv
<1> QED BY <1>3, <1>4

\* The picture is taken: the batch goes on.
LEMMA ScreenshotKeeps == ASSUME BatchInv, Screenshot PROVE BatchInv'
<1>1. Len(batch.actions) \in 1 .. MaxActions BY ActionsAreSeq DEF BatchInv, BatchTypeOK
<1>2. /\ phase = "shooting" /\ next' = next + 1 /\ phase' \in {"done", "ready"}
      /\ phase' # "done" => next # Len(batch.actions)
      /\ UNCHANGED <<batch, carryTab, results, used, stray>>
  BY DEF Screenshot, GoOn
<1>3. next \in 1 .. Len(batch.actions) /\ Len(results) = next BY <1>1, <1>2 DEF BatchInv, InStep
<1>4. BatchTypeOK' BY <1>1, <1>2, <1>3, BatchAssumption DEF BatchInv, BatchTypeOK
<1>5. InStep' BY <1>1, <1>2, <1>3, BatchAssumption DEF BatchInv, InStep, HadTurn
<1>6. FailureIsLast' BY <1>2 DEF BatchInv, FailureIsLast
<1>7. CarryIsLast' /\ EachWhereLed'
  BY <1>2 DEF BatchInv, CarryIsLast, EachWhereLed, CarriedTo
<1> QED BY <1>4, <1>5, <1>6, <1>7 DEF BatchInv

\* Every step of a batch keeps its invariant.
LEMMA BatchInvKept == BatchInv /\ [BatchNext]_batchVars => BatchInv'
<1> SUFFICES ASSUME BatchInv, [BatchNext]_batchVars PROVE BatchInv' OBVIOUS
<1>1. stray \subseteq 1 .. MaxActions BY DEF BatchInv, BatchTypeOK
<1>2. next \in 1 .. Len(batch.actions) + 1 BY DEF BatchInv, InStep
<1>3. CASE Refused
  BY <1>1, <1>3, EnteredKeeps DEF Refused, Entered
<1>4. CASE Delay
  BY <1>4 DEF Delay, BatchInv, BatchTypeOK, InStep, HadTurn, FailureIsLast, CarryIsLast,
              EachWhereLed, CarriedTo
<1>5. CASE Delayed
  BY <1>1, <1>5, EnteredKeeps DEF Delayed, Entered
<1>6. CASE Run BY <1>6, RunKeeps
<1>7. CASE Succeeded BY <1>7, SucceededKeeps
<1>8. CASE Screenshot BY <1>8, ScreenshotKeeps
<1>9. CASE HandlerFailed
  BY <1>1, <1>9, EnteredKeeps DEF HandlerFailed, Entered
<1>10. CASE TimedOut
  <2>1. Pushed(FALSE, NoTab) /\ GoOn(FALSE) /\ phase = "running" /\ UNCHANGED <<batch, used>>
    BY <1>10 DEF TimedOut, Entered
  <2>2. next \in 1 .. MaxActions BY <2>1, ResultEntered
  <2>3. stray' \subseteq 1 .. MaxActions BY <1>1, <1>10, <2>2 DEF TimedOut
  <2> QED BY <2>1, <2>3, EnteredKeeps
<1>11. ASSUME NEW i \in 1 .. MaxActions, StrayEnds(i) PROVE BatchInv'
  BY <1>11 DEF StrayEnds, BatchInv, BatchTypeOK, InStep, HadTurn, FailureIsLast, CarryIsLast,
               EachWhereLed, CarriedTo
<1>12. CASE UNCHANGED batchVars
  BY <1>12 DEF batchVars, BatchInv, BatchTypeOK, InStep, HadTurn, FailureIsLast, CarryIsLast,
               EachWhereLed, CarriedTo
<1> QED BY <1>3, <1>4, <1>5, <1>6, <1>7, <1>8, <1>9, <1>10, <1>11, <1>12 DEF BatchNext

\* The invariant says what a batch promises.
LEMMA BatchInvImplies == BatchInv => BatchSafe
<1> SUFFICES ASSUME BatchInv PROVE BatchSafe OBVIOUS
<1>1. /\ results \in Seq(Result) /\ DOMAIN results = 1 .. Len(results)
      /\ next \in Nat \ {0} /\ Len(results) \in Nat
      /\ DOMAIN used \subseteq 1 .. Len(results) + 1
  <2>1. Len(batch.actions) \in 1 .. MaxActions BY ActionsAreSeq DEF BatchInv, BatchTypeOK
  <2> QED BY <2>1, BatchAssumption DEF BatchInv, BatchTypeOK, InStep, HadTurn, Result
<1>2. NothingAfterError
  <2> SUFFICES ASSUME batch.stop, NEW i \in DOMAIN results, ~results[i].ok
               PROVE  /\ i = Len(results) /\ phase = "done"
                      /\ \A j \in DOMAIN used : j <= results[i].index
    BY DEF NothingAfterError
  <2>1. i = Len(results) /\ phase = "done" BY <1>1 DEF BatchInv, FailureIsLast
  <2>2. results[i].index = i BY <1>1 DEF BatchInv, InStep
  <2>3. DOMAIN used \subseteq 1 .. Len(results)
    BY <1>1, <2>1 DEF BatchInv, InStep, HadTurn
  <2> QED BY <1>1, <2>1, <2>2, <2>3
<1>3. TabIsCarried
  <2> SUFFICES ASSUME NEW i \in DOMAIN used, batch.actions[i].tab = NoTab
               PROVE  LET told == {j \in 1 .. i - 1 : results[j].tab # NoTab}
                      IN IF told = {} THEN used[i] = batch.tab
                         ELSE \E j \in told : (\A k \in told : k <= j) /\ used[i] = results[j].tab
    BY DEF TabIsCarried
  <2>1. CarriedTo(i, used[i]) BY DEF BatchInv, EachWhereLed
  <2> QED BY <2>1 DEF CarriedTo
<1> QED BY <1>2, <1>3 DEF BatchSafe, BatchInv

\* A batch (bg/handlers/batch.js) of any length, over any tabs: its actions are done in
\* order, each in the tab the one before has led to, none after a failure that stops the
\* batch, whichever handlers were given up and still run.
THEOREM BatchesAreSafe == BatchSpec => []BatchSafe
<1>1. BatchInit => BatchInv BY BatchBegins
<1>2. BatchInv /\ [BatchNext]_batchVars => BatchInv' BY BatchInvKept
<1>3. BatchInv => BatchSafe BY BatchInvImplies
<1> QED BY <1>1, <1>2, <1>3, PTL DEF BatchSpec

----------------------------------------------------------------------------
(* The debugger bridge: the inductive invariant *)

Senders  == Call \cup {"idle", "late"}
Asked    == Steps \cup {"attach", "probe"}
Requests == [by : Senders, do : Asked]
Messages == [by : Senders \cup {"chrome"}, do : Asked \cup EventNames, ok : BOOLEAN,
             doc : 0 .. MaxDoc]
CallState == [kind : workload \cup {"none"}, step : Steps \cup {"none"},
              at : {"free", "attaching", "probing", "sent", "navigating", "polling"},
              tree : 0 .. MaxDoc, nav : BOOLEAN]

\* A call in state v is waiting for the answer to what.
AwaitsIn(v, what) ==
  \/ v.at = "sent" /\ v.step = what
  \/ v.at = "attaching" /\ what = "attach"
  \/ v.at = "probing" /\ what = "probe"

Occupied(v) ==
  /\ v.at # "free" => v.step \in Steps
  /\ v.at \in {"attaching", "probing"} => v.step \notin Disabling \cup {"detach"}

\* A message of a call is what the call is waiting for, and the only one.
Awaited(s, cs) == \A i \in 1 .. Len(s) : s[i].by \in Call => AwaitsIn(cs[s[i].by], s[i].do)
Single(s)   == \A i, j \in 1 .. Len(s) : s[i].by \in Call /\ s[i].by = s[j].by => i = j
Apart(q, x) == \A i \in 1 .. Len(q), j \in 1 .. Len(x) : q[i].by \in Call => q[i].by # x[j].by
Matched(q, x, cs) ==
  Awaited(q, cs) /\ Awaited(x, cs) /\ Single(q) /\ Single(x) /\ Apart(q, x)

Proper(s) ==
  \A i \in 1 .. Len(s) :
    /\ s[i].do = "detach" => s[i].by # "late"
    /\ s[i].by = "chrome" <=> s[i].do \in EventNames

CallsInStep ==
  /\ \A c \in Call : Occupied(calls[c])
  /\ Matched(queue, inbox, calls) /\ Proper(queue) /\ Proper(inbox)

\* m will tell a call that one of steps was done; r asks for one.
Tells(m, steps) == m.by \in Call /\ m.ok = TRUE /\ m.do \in steps
Seeks(r, steps) == r.by \in Call /\ r.do \in steps

\* What an answer on its way tells is so, or a message behind it takes it back.
Told(x, d, on, steps, undoing) ==
  \A i \in 1 .. Len(x) : Tells(x[i], steps) =>
    d \in on \/ \E j \in 1 .. Len(x) : i < j /\ x[j].do \in undoing

\* No call seeks or is told one of steps ahead of a request in W.
Clear(q, x, steps, W) ==
  \A i \in 1 .. Len(q) : q[i] \in W =>
    /\ \A j \in 1 .. Len(x) : ~Tells(x[j], steps)
    /\ \A j \in 1 .. Len(q) : j < i => ~Seeks(q[j], steps)

\* No call is told one of steps ahead of an answer to what.
Behind(x, steps, what) ==
  \A i \in 1 .. Len(x) : x[i].do = what => \A j \in 1 .. Len(x) : j < i => ~Tells(x[j], steps)

Pending(q, W) == \E i \in 1 .. Len(q) : q[i] \in W

Asking(what) == [by : Senders, do : {what}]
IdleAsks     == [by : {"idle"}, do : Asked]

HeardIn(x, own, dom) ==
  /\ Told(x, "us", {own}, {"attach", "probe"}, Losses)
  /\ Told(x, "Page", dom, {"treePage", "worldPage"}, Losses)
  /\ Told(x, "Runtime", dom, {"runtime", "runtimeOn"}, Losses \cup {"runtimeOff"})
  /\ Told(x, "Network", dom, {"networkOn"}, Losses \cup {"networkOff"})
Heard == HeardIn(inbox, owner, domains)

\* Nothing ahead of a stop enables what it disables.
StopsIn(q, x) ==
  /\ Clear(q, x, {"runtime", "runtimeOn"}, Asking("runtimeOff"))
  /\ Clear(q, x, {"networkOn"}, Asking("networkOff"))
  /\ Behind(x, {"runtime", "runtimeOn"}, "runtimeOff")
  /\ Behind(x, {"networkOn"}, "networkOff")
Stopping(q, x, what) == Pending(q, Asking(what)) \/ IsIn(x, {what})
StopsAlone ==
  \/ raced
  \/ /\ StopsIn(queue, inbox)
     /\ Stopping(queue, inbox, "runtimeOff") => ~bridge.runtime /\ ~bridge.console
     /\ Stopping(queue, inbox, "networkOff") => ~bridge.network

\* While the idle timer's detachment is on its way no capture is on.
IdleAlone ==
  /\ Clear(queue, inbox, {"runtimeOn", "networkOn"}, IdleAsks)
  /\ Pending(queue, IdleAsks) => ~bridge.console /\ ~bridge.network

BridgeInv == MemoryIsTrue /\ CallsInStep /\ Heard /\ StopsAlone /\ IdleAlone

----------------------------------------------------------------------------
(* Taking from, adding to and orphaning what is under way *)

\* A message that is given up keeps all but its sender.
LEMMA OrphanedMessages ==
  ASSUME NEW x \in Seq(Messages), NEW c \in Call
  PROVE  /\ Orphaned(x, c) \in Seq(Messages) /\ Len(Orphaned(x, c)) = Len(x)
         /\ \A i \in 1 .. Len(x) :
              /\ Orphaned(x, c)[i].by = IF x[i].by = c THEN "late" ELSE x[i].by
              /\ Orphaned(x, c)[i].do = x[i].do /\ Orphaned(x, c)[i].ok = x[i].ok
<1> DEFINE y == Orphaned(x, c)
<1>1. DOMAIN x = 1 .. Len(x) /\ Len(x) \in Nat BY LenProperties
<1>2. \A i \in 1 .. Len(x) : x[i] \in Messages BY ElementOfSeq
<1>3. y \in [1 .. Len(x) -> Messages] BY <1>1, <1>2 DEF Orphaned, Messages, Senders
<1>4. y \in Seq(Messages) BY <1>1, <1>3, SeqDef
<1>5. Len(y) = Len(x) BY <1>1, <1>3, <1>4, LenProperties
<1>6. \A i \in 1 .. Len(x) : y[i] = IF x[i].by = c THEN [x[i] EXCEPT !.by = "late"] ELSE x[i]
  BY <1>1 DEF Orphaned
<1> QED BY <1>2, <1>4, <1>5, <1>6 DEF Messages

\* A request that is given up keeps all but its sender.
LEMMA OrphanedRequests ==
  ASSUME NEW q \in Seq(Requests), NEW c \in Call
  PROVE  /\ Orphaned(q, c) \in Seq(Requests) /\ Len(Orphaned(q, c)) = Len(q)
         /\ \A i \in 1 .. Len(q) :
              /\ Orphaned(q, c)[i].by = IF q[i].by = c THEN "late" ELSE q[i].by
              /\ Orphaned(q, c)[i].do = q[i].do
<1> DEFINE y == Orphaned(q, c)
<1>1. DOMAIN q = 1 .. Len(q) /\ Len(q) \in Nat BY LenProperties
<1>2. \A i \in 1 .. Len(q) : q[i] \in Requests BY ElementOfSeq
<1>3. y \in [1 .. Len(q) -> Requests] BY <1>1, <1>2 DEF Orphaned, Requests, Senders
<1>4. y \in Seq(Requests) BY <1>1, <1>3, SeqDef
<1>5. Len(y) = Len(q) BY <1>1, <1>3, <1>4, LenProperties
<1>6. \A i \in 1 .. Len(q) : y[i] = IF q[i].by = c THEN [q[i] EXCEPT !.by = "late"] ELSE q[i]
  BY <1>1 DEF Orphaned
<1> QED BY <1>2, <1>4, <1>5, <1>6 DEF Requests

\* Told: the first message may go, any that tells the truth or undoes may come.
LEMMA ToldTail ==
  ASSUME NEW x \in Seq(Messages), x # <<>>, NEW d, NEW on, NEW S, NEW U, Told(x, d, on, S, U)
  PROVE  Told(Tail(x), d, on, S, U)
<1>1. Len(x) \in Nat BY LenProperties
<1>2. Len(Tail(x)) = Len(x) - 1 /\ \A i \in 1 .. Len(Tail(x)) : Tail(x)[i] = x[i + 1]
  BY HeadTailProperties
<1> SUFFICES ASSUME NEW i \in 1 .. Len(Tail(x)), Tells(Tail(x)[i], S), d \notin on
             PROVE  \E j \in 1 .. Len(Tail(x)) : i < j /\ Tail(x)[j].do \in U
  BY DEF Told
<1>3. i + 1 \in 1 .. Len(x) /\ Tells(x[i + 1], S) BY <1>1, <1>2
<1>4. PICK j \in 1 .. Len(x) : i + 1 < j /\ x[j].do \in U BY <1>3 DEF Told
<1>5. j - 1 \in 1 .. Len(Tail(x)) /\ i < j - 1 /\ (j - 1) + 1 = j BY <1>1, <1>2, <1>4
<1>6. Tail(x)[j - 1].do \in U BY <1>2, <1>4, <1>5
<1> QED BY <1>5, <1>6

\* Told stays so when a message is added that tells of what is on now.
LEMMA ToldMore ==
  ASSUME NEW x \in Seq(Messages), NEW m \in Messages, NEW d, NEW on, NEW on2, NEW S, NEW U,
         Told(x, d, on, S, U), d \in on => d \in on2 \/ m.do \in U, Tells(m, S) => d \in on2
  PROVE  Told(Append(x, m), d, on2, S, U)
<1> DEFINE y == Append(x, m)
<1>1. Len(x) \in Nat BY LenProperties
<1>2. /\ Len(y) = Len(x) + 1 /\ \A i \in 1 .. Len(x) : y[i] = x[i]
      /\ y[Len(x) + 1] = m
  BY AppendProperties
<1> HIDE DEF y
<1> SUFFICES ASSUME NEW i \in 1 .. Len(y), Tells(y[i], S), d \notin on2
             PROVE  \E j \in 1 .. Len(y) : i < j /\ y[j].do \in U
  BY DEF Told, y
<1>3. i # Len(x) + 1 BY <1>2
<1>4. i \in 1 .. Len(x) /\ Tells(x[i], S) BY <1>1, <1>2, <1>3
<1>5. CASE d \in on
  <2>1. Len(x) + 1 \in 1 .. Len(y) /\ i < Len(x) + 1 BY <1>1, <1>2, <1>4
  <2> QED BY <2>1, <1>2, <1>5
<1>6. CASE d \notin on
  <2>1. PICK j \in 1 .. Len(x) : i < j /\ x[j].do \in U BY <1>4, <1>6 DEF Told
  <2>2. j \in 1 .. Len(y) /\ y[j] = x[j] BY <1>1, <1>2, <2>1
  <2> QED BY <2>1, <2>2
<1> QED BY <1>5, <1>6

\* Who sent a message does not matter to Told.
LEMMA ToldOrphaned ==
  ASSUME NEW x \in Seq(Messages), NEW c \in Call, NEW d, NEW on, NEW S, NEW U,
         Told(x, d, on, S, U)
  PROVE  Told(Orphaned(x, c), d, on, S, U)
<1> DEFINE y == Orphaned(x, c)
<1>1. /\ Len(y) = Len(x)
      /\ \A i \in 1 .. Len(x) : /\ y[i].by = IF x[i].by = c THEN "late" ELSE x[i].by
                                /\ y[i].do = x[i].do /\ y[i].ok = x[i].ok
  BY OrphanedMessages
<1> HIDE DEF y
<1>2. \A i \in 1 .. Len(y) : Tells(y[i], S) => Tells(x[i], S)
  BY <1>1, BridgeAssumption DEF Tells
<1> QED BY <1>1, <1>2 DEF Told, y

\* Clear: the queue moves on, and nothing that enables comes ahead of a stop.
LEMMA ClearHang ==
  ASSUME NEW q \in Seq(Requests), q # <<>>, NEW x, NEW S, NEW W, Clear(q, x, S, W)
  PROVE  Clear(Tail(q), x, S, W)
<1>1. Len(q) \in Nat BY LenProperties
<1>2. Len(Tail(q)) = Len(q) - 1 /\ \A i \in 1 .. Len(Tail(q)) : Tail(q)[i] = q[i + 1]
  BY HeadTailProperties
<1>3. \A i \in 1 .. Len(Tail(q)) : i + 1 \in 1 .. Len(q) BY <1>1, <1>2
<1> SUFFICES ASSUME NEW i \in 1 .. Len(Tail(q)), Tail(q)[i] \in W
             PROVE  /\ \A j \in 1 .. Len(x) : ~Tells(x[j], S)
                    /\ \A j \in 1 .. Len(Tail(q)) : j < i => ~Seeks(Tail(q)[j], S)
  BY DEF Clear
<1>4. q[i + 1] \in W /\ i + 1 \in 1 .. Len(q) BY <1>2, <1>3
<1>5. \A j \in 1 .. Len(x) : ~Tells(x[j], S) BY <1>4 DEF Clear
<1>6. ASSUME NEW j \in 1 .. Len(Tail(q)), j < i PROVE ~Seeks(Tail(q)[j], S)
  <2>1. j + 1 \in 1 .. Len(q) /\ j + 1 < i + 1 BY <1>3, <1>6
  <2> QED BY <1>2, <1>4, <2>1 DEF Clear
<1> QED BY <1>5, <1>6

\* Clear stays so when a request is added that nothing seeks or tells against.
LEMMA ClearAsk ==
  ASSUME NEW q \in Seq(Requests), NEW r \in Requests, NEW x, NEW S, NEW W, Clear(q, x, S, W),
         r \in W => /\ \A j \in 1 .. Len(x) : ~Tells(x[j], S)
                    /\ \A j \in 1 .. Len(q) : ~Seeks(q[j], S)
  PROVE  Clear(Append(q, r), x, S, W)
<1> DEFINE p == Append(q, r)
<1>1. Len(q) \in Nat BY LenProperties
<1>2. /\ Len(p) = Len(q) + 1 /\ \A i \in 1 .. Len(q) : p[i] = q[i]
      /\ p[Len(q) + 1] = r
  BY AppendProperties
<1> HIDE DEF p
<1> SUFFICES ASSUME NEW i \in 1 .. Len(p), p[i] \in W
             PROVE  /\ \A j \in 1 .. Len(x) : ~Tells(x[j], S)
                    /\ \A j \in 1 .. Len(p) : j < i => ~Seeks(p[j], S)
  BY DEF Clear, p
<1>3. CASE i = Len(q) + 1
  <2>1. r \in W BY <1>2, <1>3
  <2>2. \A j \in 1 .. Len(p) : j < i => j \in 1 .. Len(q) BY <1>1, <1>2, <1>3
  <2> QED BY <1>2, <2>1, <2>2
<1>4. CASE i # Len(q) + 1
  <2>1. i \in 1 .. Len(q) /\ q[i] \in W BY <1>1, <1>2, <1>4
  <2>2. \A j \in 1 .. Len(p) : j < i => j \in 1 .. Len(q) BY <1>1, <1>2, <2>1
  <2> QED BY <1>2, <2>1, <2>2 DEF Clear
<1> QED BY <1>3, <1>4

\* Clear stays so when a message is taken.
LEMMA ClearTail ==
  ASSUME NEW q, NEW x \in Seq(Messages), x # <<>>, NEW S, NEW W, Clear(q, x, S, W)
  PROVE  Clear(q, Tail(x), S, W)
<1>1. Len(x) \in Nat BY LenProperties
<1>2. Len(Tail(x)) = Len(x) - 1 /\ \A i \in 1 .. Len(Tail(x)) : Tail(x)[i] = x[i + 1]
  BY HeadTailProperties
<1>3. \A i \in 1 .. Len(Tail(x)) : i + 1 \in 1 .. Len(x) BY <1>1, <1>2
<1> QED BY <1>2, <1>3 DEF Clear

\* Clear stays so when a message is added, unless it tells against what is asked.
LEMMA ClearMore ==
  ASSUME NEW q, NEW x \in Seq(Messages), NEW m \in Messages, NEW S, NEW W, Clear(q, x, S, W),
         Tells(m, S) => ~Pending(q, W)
  PROVE  Clear(q, Append(x, m), S, W)
<1> DEFINE y == Append(x, m)
<1>1. Len(x) \in Nat BY LenProperties
<1>2. /\ Len(y) = Len(x) + 1 /\ \A i \in 1 .. Len(x) : y[i] = x[i]
      /\ y[Len(x) + 1] = m
  BY AppendProperties
<1> HIDE DEF y
<1>3. \A i \in 1 .. Len(y) : i \in 1 .. Len(x) \/ i = Len(x) + 1 BY <1>1, <1>2
<1> QED BY <1>2, <1>3 DEF Clear, Pending, y

\* Clear stays so when Chrome answers the first request.
LEMMA ClearAnswer ==
  ASSUME NEW q \in Seq(Requests), q # <<>>, NEW x \in Seq(Messages), NEW m \in Messages,
         NEW S, NEW W, Clear(q, x, S, W), m.by = Head(q).by, m.do = Head(q).do
  PROVE  Clear(Tail(q), Append(x, m), S, W)
<1>1. Len(q) \in Nat BY LenProperties
<1>2. Len(Tail(q)) = Len(q) - 1 /\ \A i \in 1 .. Len(Tail(q)) : Tail(q)[i] = q[i + 1]
  BY HeadTailProperties
<1>3. Head(q) = q[1] /\ 1 \in 1 .. Len(q) BY <1>1, EmptySeq
<1>4. Tells(m, S) => ~Pending(Tail(q), W)
  <2> SUFFICES ASSUME Tells(m, S), NEW i \in 1 .. Len(Tail(q)), Tail(q)[i] \in W
               PROVE  FALSE
    BY DEF Pending
  <2>1. i + 1 \in 1 .. Len(q) /\ q[i + 1] \in W /\ 1 < i + 1 BY <1>1, <1>2
  <2>2. Seeks(q[1], S) BY <1>3 DEF Tells, Seeks
  <2> QED BY <1>3, <2>1, <2>2 DEF Clear
<1>5. Clear(Tail(q), x, S, W) BY ClearHang
<1> QED BY <1>4, <1>5, ClearMore

\* Clear stays so when a call gives up.
LEMMA ClearOrphaned ==
  ASSUME NEW q \in Seq(Requests), NEW x \in Seq(Messages), NEW c \in Call, NEW S, NEW W,
         Clear(q, x, S, W),
         \A i \in 1 .. Len(q) : Orphaned(q, c)[i] \in W => q[i] \in W
  PROVE  Clear(Orphaned(q, c), Orphaned(x, c), S, W)
<1> DEFINE y == Orphaned(x, c)  p == Orphaned(q, c)
<1>1. /\ Len(y) = Len(x)
      /\ \A i \in 1 .. Len(x) : /\ y[i].by = IF x[i].by = c THEN "late" ELSE x[i].by
                                /\ y[i].do = x[i].do /\ y[i].ok = x[i].ok
  BY OrphanedMessages
<1>2. /\ Len(p) = Len(q)
      /\ \A i \in 1 .. Len(q) : /\ p[i].by = IF q[i].by = c THEN "late" ELSE q[i].by
                                /\ p[i].do = q[i].do
  BY OrphanedRequests
<1>3. \A i \in 1 .. Len(q) : p[i] \in W => q[i] \in W OBVIOUS
<1> HIDE DEF y, p
<1>4. \A i \in 1 .. Len(x) : Tells(y[i], S) => Tells(x[i], S)
  BY <1>1, BridgeAssumption DEF Tells
<1>5. \A i \in 1 .. Len(q) : Seeks(p[i], S) => Seeks(q[i], S)
  BY <1>2, BridgeAssumption DEF Seeks
<1>6. Clear(p, y, S, W) BY <1>1, <1>2, <1>3, <1>4, <1>5 DEF Clear
<1> QED BY <1>6 DEF y, p

\* Behind: an answer comes last, so what is ahead of it is all there is.
LEMMA BehindTail ==
  ASSUME NEW x \in Seq(Messages), x # <<>>, NEW S, NEW w, Behind(x, S, w)
  PROVE  Behind(Tail(x), S, w)
<1>1. Len(x) \in Nat BY LenProperties
<1>2. Len(Tail(x)) = Len(x) - 1 /\ \A i \in 1 .. Len(Tail(x)) : Tail(x)[i] = x[i + 1]
  BY HeadTailProperties
<1>3. \A i \in 1 .. Len(Tail(x)) : i + 1 \in 1 .. Len(x) BY <1>1, <1>2
<1> SUFFICES ASSUME NEW i \in 1 .. Len(Tail(x)), Tail(x)[i].do = w,
                    NEW j \in 1 .. Len(Tail(x)), j < i
             PROVE  ~Tells(Tail(x)[j], S)
  BY DEF Behind
<1>4. i + 1 \in 1 .. Len(x) /\ j + 1 \in 1 .. Len(x) /\ j + 1 < i + 1 BY <1>3
<1> QED BY <1>2, <1>4 DEF Behind

\* Behind stays so when a message is added.
LEMMA BehindMore ==
  ASSUME NEW x \in Seq(Messages), NEW m \in Messages, NEW S, NEW w, Behind(x, S, w),
         m.do = w => \A j \in 1 .. Len(x) : ~Tells(x[j], S)
  PROVE  Behind(Append(x, m), S, w)
<1> DEFINE y == Append(x, m)
<1>1. Len(x) \in Nat BY LenProperties
<1>2. /\ Len(y) = Len(x) + 1 /\ \A i \in 1 .. Len(x) : y[i] = x[i]
      /\ y[Len(x) + 1] = m
  BY AppendProperties
<1> HIDE DEF y
<1> SUFFICES ASSUME NEW i \in 1 .. Len(y), y[i].do = w, NEW j \in 1 .. Len(y), j < i
             PROVE  ~Tells(y[j], S)
  BY DEF Behind, y
<1>3. j \in 1 .. Len(x) /\ y[j] = x[j] BY <1>1, <1>2
<1>4. CASE i = Len(x) + 1 BY <1>2, <1>3, <1>4
<1>5. CASE i # Len(x) + 1
  <2>1. i \in 1 .. Len(x) /\ x[i].do = w BY <1>1, <1>2, <1>5
  <2> QED BY <1>3, <2>1 DEF Behind
<1> QED BY <1>4, <1>5

\* Who sent a message does not matter to Behind.
LEMMA BehindOrphaned ==
  ASSUME NEW x \in Seq(Messages), NEW c \in Call, NEW S, NEW w, Behind(x, S, w)
  PROVE  Behind(Orphaned(x, c), S, w)
<1> DEFINE y == Orphaned(x, c)
<1>1. /\ Len(y) = Len(x)
      /\ \A i \in 1 .. Len(x) : /\ y[i].by = IF x[i].by = c THEN "late" ELSE x[i].by
                                /\ y[i].do = x[i].do /\ y[i].ok = x[i].ok
  BY OrphanedMessages
<1> HIDE DEF y
<1>2. \A i \in 1 .. Len(y) : Tells(y[i], S) => Tells(x[i], S)
  BY <1>1, BridgeAssumption DEF Tells
<1>3. Behind(y, S, w) BY <1>1, <1>2 DEF Behind
<1> QED BY <1>3 DEF y

\* What is under way: less after a tail, the new one more after an append.
LEMMA PendingSteps ==
  ASSUME NEW q \in Seq(Requests), NEW W
  PROVE  /\ q # <<>> /\ Pending(Tail(q), W) => Pending(q, W)
         /\ q # <<>> /\ Head(q) \in W => Pending(q, W)
         /\ \A r \in Requests : Pending(Append(q, r), W) => Pending(q, W) \/ r \in W
<1>1. Len(q) \in Nat BY LenProperties
<1>2. ASSUME q # <<>>, Pending(Tail(q), W) PROVE Pending(q, W)
  <2>1. Len(Tail(q)) = Len(q) - 1 /\ \A i \in 1 .. Len(Tail(q)) : Tail(q)[i] = q[i + 1]
    BY <1>2, HeadTailProperties
  <2>2. \A i \in 1 .. Len(Tail(q)) : i + 1 \in 1 .. Len(q) BY <1>1, <2>1
  <2> QED BY <1>2, <2>1, <2>2 DEF Pending
<1>3. ASSUME q # <<>>, Head(q) \in W PROVE Pending(q, W)
  <2>1. Head(q) = q[1] /\ 1 \in 1 .. Len(q) BY <1>1, <1>3, EmptySeq
  <2> QED BY <1>3, <2>1 DEF Pending
<1>4. ASSUME NEW r \in Requests, Pending(Append(q, r), W) PROVE Pending(q, W) \/ r \in W
  <2> DEFINE p == Append(q, r)
  <2>1. /\ Len(p) = Len(q) + 1 /\ \A i \in 1 .. Len(q) : p[i] = q[i]
        /\ p[Len(q) + 1] = r
    BY AppendProperties
  <2>2. \A i \in 1 .. Len(p) : i \in 1 .. Len(q) \/ i = Len(q) + 1 BY <1>1, <2>1
  <2> QED BY <1>4, <2>1, <2>2 DEF Pending
<1> QED BY <1>2, <1>3, <1>4

\* What is in a queue that grows or shrinks by one.
LEMMA IsInSteps ==
  ASSUME NEW x \in Seq(Messages), NEW L
  PROVE  /\ x # <<>> => (IsIn(x, L) <=> Head(x).do \in L \/ IsIn(Tail(x), L))
         /\ \A m \in Messages : IsIn(Append(x, m), L) <=> IsIn(x, L) \/ m.do \in L
<1>1. Len(x) \in Nat BY LenProperties
<1>2. ASSUME x # <<>> PROVE IsIn(x, L) <=> Head(x).do \in L \/ IsIn(Tail(x), L)
  <2>1. Len(Tail(x)) = Len(x) - 1 /\ \A i \in 1 .. Len(Tail(x)) : Tail(x)[i] = x[i + 1]
    BY <1>2, HeadTailProperties
  <2>2. Head(x) = x[1] /\ 1 \in 1 .. Len(x) BY <1>1, <1>2, EmptySeq
  <2>3. \A i \in 1 .. Len(Tail(x)) : i + 1 \in 1 .. Len(x) BY <1>1, <2>1
  <2>4. \A i \in 1 .. Len(x) : i # 1 => i - 1 \in 1 .. Len(Tail(x)) /\ Tail(x)[i - 1] = x[i]
    <3> TAKE i \in 1 .. Len(x)
    <3> HAVE i # 1
    <3>1. i - 1 \in 1 .. Len(Tail(x)) /\ (i - 1) + 1 = i BY <1>1, <2>1
    <3> QED BY <2>1, <3>1
  <2> QED BY <2>1, <2>2, <2>3, <2>4 DEF IsIn
<1>3. ASSUME NEW m \in Messages PROVE IsIn(Append(x, m), L) <=> IsIn(x, L) \/ m.do \in L
  <2> DEFINE y == Append(x, m)
  <2>1. /\ Len(y) = Len(x) + 1 /\ \A i \in 1 .. Len(x) : y[i] = x[i]
        /\ y[Len(x) + 1] = m
    BY AppendProperties
  <2>2. /\ \A i \in 1 .. Len(y) : i \in 1 .. Len(x) \/ i = Len(x) + 1
        /\ \A i \in 1 .. Len(x) : i \in 1 .. Len(y)
        /\ Len(x) + 1 \in 1 .. Len(y)
    BY <1>1, <2>1
  <2> QED BY <2>1, <2>2 DEF IsIn
<1> QED BY <1>2, <1>3

\* A call that gives up adds nothing to the queues.
LEMMA OrphanedUnderWay ==
  ASSUME NEW q \in Seq(Requests), NEW x \in Seq(Messages), NEW c \in Call
  PROVE  /\ \A L : IsIn(Orphaned(x, c), L) <=> IsIn(x, L)
         /\ \A W : (\A i \in 1 .. Len(q) : Orphaned(q, c)[i] \in W => q[i] \in W)
                     => (Pending(Orphaned(q, c), W) => Pending(q, W))
<1>1. /\ Len(Orphaned(x, c)) = Len(x)
      /\ \A i \in 1 .. Len(x) : Orphaned(x, c)[i].do = x[i].do
  BY OrphanedMessages
<1>2. Len(Orphaned(q, c)) = Len(q) BY OrphanedRequests
<1> QED BY <1>1, <1>2 DEF IsIn, Pending

\* No message of c.
NoneBy(s, c) == \A i \in 1 .. Len(s) : s[i].by # c

\* A call that waits for nothing has no message; one that is answered no other.
LEMMA RestingHasNone ==
  ASSUME NEW q, NEW x, NEW cs, Matched(q, x, cs), NEW c \in Call,
         cs[c].at \notin {"sent", "attaching", "probing"}
  PROVE  NoneBy(q, c) /\ NoneBy(x, c)
BY DEF Matched, Awaited, AwaitsIn, NoneBy

\* A call whose answer is at the head has nothing else under way.
LEMMA AnsweredHasNone ==
  ASSUME NEW q, NEW x \in Seq(Messages), x # <<>>, NEW cs, Matched(q, x, cs), Head(x).by \in Call
  PROVE  NoneBy(q, Head(x).by) /\ NoneBy(Tail(x), Head(x).by)
<1>1. Len(x) \in Nat BY LenProperties
<1>2. Len(Tail(x)) = Len(x) - 1 /\ \A i \in 1 .. Len(Tail(x)) : Tail(x)[i] = x[i + 1]
  BY HeadTailProperties
<1>3. Head(x) = x[1] /\ 1 \in 1 .. Len(x) BY <1>1, EmptySeq
<1>4. NoneBy(q, Head(x).by) BY <1>3 DEF Matched, Apart, NoneBy
<1>5. ASSUME NEW i \in 1 .. Len(Tail(x)) PROVE Tail(x)[i].by # Head(x).by
  <2>1. i + 1 \in 1 .. Len(x) /\ i + 1 # 1 BY <1>1, <1>2
  <2> QED BY <1>2, <1>3, <2>1 DEF Matched, Single
<1> QED BY <1>4, <1>5 DEF NoneBy

\* Matched stays so when a message is taken.
LEMMA MatchedTail ==
  ASSUME NEW q, NEW x \in Seq(Messages), x # <<>>, NEW cs, Matched(q, x, cs)
  PROVE  Matched(q, Tail(x), cs)
<1>1. Len(x) \in Nat BY LenProperties
<1>2. Len(Tail(x)) = Len(x) - 1 /\ \A i \in 1 .. Len(Tail(x)) : Tail(x)[i] = x[i + 1]
  BY HeadTailProperties
<1>3. \A i \in 1 .. Len(Tail(x)) : i + 1 \in 1 .. Len(x) BY <1>1, <1>2
<1>4. Awaited(Tail(x), cs) BY <1>2, <1>3 DEF Matched, Awaited
<1>5. Single(Tail(x))
  <2> SUFFICES ASSUME NEW i \in 1 .. Len(Tail(x)), NEW j \in 1 .. Len(Tail(x)),
                      Tail(x)[i].by \in Call, Tail(x)[i].by = Tail(x)[j].by
               PROVE  i = j
    BY DEF Single
  <2>1. i + 1 = j + 1 BY <1>2, <1>3 DEF Matched, Single
  <2> QED BY <2>1
<1>6. Apart(q, Tail(x)) BY <1>2, <1>3 DEF Matched, Apart
<1> QED BY <1>4, <1>5, <1>6 DEF Matched

\* A request is taken and never answered.
LEMMA MatchedHang ==
  ASSUME NEW q \in Seq(Requests), q # <<>>, NEW x, NEW cs, Matched(q, x, cs)
  PROVE  Matched(Tail(q), x, cs)
<1>1. Len(q) \in Nat BY LenProperties
<1>2. Len(Tail(q)) = Len(q) - 1 /\ \A i \in 1 .. Len(Tail(q)) : Tail(q)[i] = q[i + 1]
  BY HeadTailProperties
<1>3. \A i \in 1 .. Len(Tail(q)) : i + 1 \in 1 .. Len(q) BY <1>1, <1>2
<1>4. Awaited(Tail(q), cs) BY <1>2, <1>3 DEF Matched, Awaited
<1>5. Single(Tail(q))
  <2> SUFFICES ASSUME NEW i \in 1 .. Len(Tail(q)), NEW j \in 1 .. Len(Tail(q)),
                      Tail(q)[i].by \in Call, Tail(q)[i].by = Tail(q)[j].by
               PROVE  i = j
    BY DEF Single
  <2>1. i + 1 = j + 1 BY <1>2, <1>3 DEF Matched, Single
  <2> QED BY <2>1
<1>6. Apart(Tail(q), x) BY <1>2, <1>3 DEF Matched, Apart
<1> QED BY <1>4, <1>5, <1>6 DEF Matched

\* A message that no call waits for comes, or the answer to a call that has no other.
LEMMA MatchedMore ==
  ASSUME NEW q, NEW x \in Seq(Messages), NEW m \in Messages, NEW cs, Matched(q, x, cs),
         m.by \in Call => NoneBy(q, m.by) /\ NoneBy(x, m.by) /\ AwaitsIn(cs[m.by], m.do)
  PROVE  Matched(q, Append(x, m), cs)
<1> DEFINE y == Append(x, m)
<1>1. Len(x) \in Nat BY LenProperties
<1>2. /\ Len(y) = Len(x) + 1 /\ \A i \in 1 .. Len(x) : y[i] = x[i]
      /\ y[Len(x) + 1] = m
  BY AppendProperties
<1> HIDE DEF y
<1>3. \A i \in 1 .. Len(y) : i \in 1 .. Len(x) \/ i = Len(x) + 1 BY <1>1, <1>2
<1>4. Awaited(y, cs) BY <1>2, <1>3 DEF Matched, Awaited
<1>5. Single(y) BY <1>2, <1>3 DEF Matched, Single, NoneBy
<1>6. Apart(q, y) BY <1>2, <1>3 DEF Matched, Apart, NoneBy
<1>7. Matched(q, y, cs) BY <1>4, <1>5, <1>6 DEF Matched
<1> QED BY <1>7 DEF y

\* A call that has no message goes on, asks or rests.
LEMMA MatchedCall ==
  ASSUME NEW q, NEW x, NEW cs \in [Call -> CallState], Matched(q, x, cs), NEW c \in Call,
         NoneBy(q, c), NoneBy(x, c), NEW v
  PROVE  Matched(q, x, [cs EXCEPT ![c] = v])
<1>1. \A d \in Call : d # c => [cs EXCEPT ![c] = v][d] = cs[d] OBVIOUS
<1>2. Awaited(q, [cs EXCEPT ![c] = v]) BY <1>1 DEF Matched, Awaited, NoneBy
<1>3. Awaited(x, [cs EXCEPT ![c] = v]) BY <1>1 DEF Matched, Awaited, NoneBy
<1> QED BY <1>2, <1>3 DEF Matched

\* Matched stays so when a call that has nothing under way asks.
LEMMA MatchedAsk ==
  ASSUME NEW q \in Seq(Requests), NEW r \in Requests, NEW x, NEW cs, Matched(q, x, cs),
         r.by \in Call => NoneBy(q, r.by) /\ NoneBy(x, r.by) /\ AwaitsIn(cs[r.by], r.do)
  PROVE  Matched(Append(q, r), x, cs)
<1> DEFINE p == Append(q, r)
<1>1. Len(q) \in Nat BY LenProperties
<1>2. /\ Len(p) = Len(q) + 1 /\ \A i \in 1 .. Len(q) : p[i] = q[i]
      /\ p[Len(q) + 1] = r
  BY AppendProperties
<1> HIDE DEF p
<1>3. \A i \in 1 .. Len(p) : i \in 1 .. Len(q) \/ i = Len(q) + 1 BY <1>1, <1>2
<1>4. Awaited(p, cs) BY <1>2, <1>3 DEF Matched, Awaited
<1>5. Single(p) BY <1>2, <1>3 DEF Matched, Single, NoneBy
<1>6. Apart(p, x) BY <1>2, <1>3 DEF Matched, Apart, NoneBy
<1>7. Matched(p, x, cs) BY <1>4, <1>5, <1>6 DEF Matched
<1> QED BY <1>7 DEF p

\* The head of the queue has no other message of its call behind or ahead of it.
LEMMA TakenHasNone ==
  ASSUME NEW q \in Seq(Requests), q # <<>>, NEW x, NEW cs, Matched(q, x, cs), Head(q).by \in Call
  PROVE  /\ NoneBy(Tail(q), Head(q).by) /\ NoneBy(x, Head(q).by)
         /\ AwaitsIn(cs[Head(q).by], Head(q).do)
<1>1. Len(q) \in Nat BY LenProperties
<1>2. Len(Tail(q)) = Len(q) - 1 /\ \A i \in 1 .. Len(Tail(q)) : Tail(q)[i] = q[i + 1]
  BY HeadTailProperties
<1>3. Head(q) = q[1] /\ 1 \in 1 .. Len(q) BY <1>1, EmptySeq
<1>4. NoneBy(x, Head(q).by) BY <1>3 DEF Matched, Apart, NoneBy
<1>5. ASSUME NEW i \in 1 .. Len(Tail(q)) PROVE Tail(q)[i].by # Head(q).by
  <2>1. i + 1 \in 1 .. Len(q) /\ i + 1 # 1 BY <1>1, <1>2
  <2> QED BY <1>2, <1>3, <2>1 DEF Matched, Single
<1>6. AwaitsIn(cs[Head(q).by], Head(q).do) BY <1>3 DEF Matched, Awaited
<1> QED BY <1>4, <1>5, <1>6 DEF NoneBy

\* Matched stays so when a call gives up, whatever it does next.
LEMMA MatchedOrphaned ==
  ASSUME NEW q \in Seq(Requests), NEW x \in Seq(Messages), NEW cs \in [Call -> CallState],
         Matched(q, x, cs), NEW c \in Call, NEW v
  PROVE  Matched(Orphaned(q, c), Orphaned(x, c), [cs EXCEPT ![c] = v])
<1> DEFINE y == Orphaned(x, c)  p == Orphaned(q, c)
<1>1. /\ Len(y) = Len(x)
      /\ \A i \in 1 .. Len(x) : /\ y[i].by = IF x[i].by = c THEN "late" ELSE x[i].by
                                /\ y[i].do = x[i].do
  BY OrphanedMessages
<1>2. /\ Len(p) = Len(q)
      /\ \A i \in 1 .. Len(q) : /\ p[i].by = IF q[i].by = c THEN "late" ELSE q[i].by
                                /\ p[i].do = q[i].do
  BY OrphanedRequests
<1> HIDE DEF y, p
<1>3. \A i \in 1 .. Len(x) : y[i].by \in Call => y[i].by = x[i].by /\ y[i].by # c
  BY <1>1, BridgeAssumption
<1>4. \A i \in 1 .. Len(q) : p[i].by \in Call => p[i].by = q[i].by /\ p[i].by # c
  BY <1>2, BridgeAssumption
<1>5. Awaited(y, cs) /\ Awaited(p, cs) BY <1>1, <1>2, <1>3, <1>4 DEF Matched, Awaited
<1>6. Single(y) /\ Single(p) BY <1>1, <1>2, <1>3, <1>4 DEF Matched, Single
<1>7. Apart(p, y)
  <2> SUFFICES ASSUME NEW i \in 1 .. Len(p), NEW j \in 1 .. Len(y), p[i].by \in Call,
                      p[i].by = y[j].by
               PROVE  FALSE
    BY DEF Apart
  <2> QED BY <1>1, <1>2, <1>3, <1>4 DEF Matched, Apart
<1>8. NoneBy(p, c) /\ NoneBy(y, c) BY <1>1, <1>2, <1>3, <1>4 DEF NoneBy
<1>9. Matched(p, y, cs) BY <1>5, <1>6, <1>7 DEF Matched
<1>10. Matched(p, y, [cs EXCEPT ![c] = v]) BY <1>8, <1>9, MatchedCall
<1> QED BY <1>10 DEF y, p

\* No detachment is orphaned, and events are Chrome's alone.
LEMMA ProperTail ==
  ASSUME NEW M, NEW s \in Seq(M), s # <<>>, Proper(s)
  PROVE  Proper(Tail(s))
<1>1. Len(s) \in Nat BY LenProperties
<1>2. Len(Tail(s)) = Len(s) - 1 /\ \A i \in 1 .. Len(Tail(s)) : Tail(s)[i] = s[i + 1]
  BY HeadTailProperties
<1>3. \A i \in 1 .. Len(Tail(s)) : i + 1 \in 1 .. Len(s) BY <1>1, <1>2
<1> QED BY <1>2, <1>3 DEF Proper

\* The senders of what is added to a queue.
LEMMA ProperMore ==
  ASSUME NEW M, NEW s \in Seq(M), NEW m \in M, Proper(s),
         m.do = "detach" => m.by # "late", m.by = "chrome" <=> m.do \in EventNames
  PROVE  Proper(Append(s, m))
<1> DEFINE y == Append(s, m)
<1>1. Len(s) \in Nat BY LenProperties
<1>2. /\ Len(y) = Len(s) + 1 /\ \A i \in 1 .. Len(s) : y[i] = s[i]
      /\ y[Len(s) + 1] = m
  BY AppendProperties
<1> HIDE DEF y
<1>3. \A i \in 1 .. Len(y) : i \in 1 .. Len(s) \/ i = Len(s) + 1 BY <1>1, <1>2
<1> QED BY <1>2, <1>3 DEF Proper, y

\* The senders of what is taken from it.
LEMMA ProperHead ==
  ASSUME NEW M, NEW s \in Seq(M), s # <<>>, Proper(s)
  PROVE  /\ Head(s) \in M
         /\ Head(s).do = "detach" => Head(s).by # "late"
         /\ Head(s).by = "chrome" <=> Head(s).do \in EventNames
<1>1. Len(s) \in Nat BY LenProperties
<1>2. Head(s) = s[1] /\ 1 \in 1 .. Len(s) BY <1>1, EmptySeq
<1>3. Head(s) \in M BY HeadTailProperties
<1> QED BY <1>2, <1>3 DEF Proper

\* The type invariant, with the sets named.
LEMMA BridgeTypes ==
  BridgeTypeOK <=>
    /\ bridge \in Memory /\ (bridge.idle => bridge.attached)
    /\ calls \in [Call -> CallState]
    /\ queue \in Seq(Requests) /\ inbox \in Seq(Messages)
    /\ owner \in {"none", "us", "other"}
    /\ domains \subseteq {"Page", "Runtime", "Network", "Emulation"}
    /\ doc \in 1 .. MaxDoc /\ raced \in BOOLEAN /\ workload \in Workloads
BY DEF BridgeTypeOK, CallState, Requests, Messages, Senders, Asked

\* BridgeTypeOK' in full, for the provers.
LEMMA NextBridgeTypes ==
  BridgeTypeOK' <=>
    /\ bridge' \in Memory /\ (bridge'.idle => bridge'.attached)
    /\ calls' \in [Call -> CallState']
    /\ queue' \in Seq(Requests) /\ inbox' \in Seq(Messages)
    /\ owner' \in {"none", "us", "other"}
    /\ domains' \subseteq {"Page", "Runtime", "Network", "Emulation"}
    /\ doc' \in 1 .. MaxDoc /\ raced' \in BOOLEAN /\ workload' \in Workloads
BY DEF BridgeTypeOK, CallState, Requests, Messages, Senders, Asked

----------------------------------------------------------------------------
(* What the worker does *)

\* b1 is what is left of memory b: no more is believed than before.
Lowers(b1, b) ==
  /\ b1 \in Memory /\ (b1.idle => b1.attached)
  /\ b1.attached => b.attached
  /\ b1.page => b.page
  /\ b1.runtime => b.runtime
  /\ b1.console => b.console
  /\ b1.network => b.network

\* Call c comes to rest, or asks for something and waits for it.
Rests(c) ==
  /\ queue' = queue
  /\ \E v \in CallState : /\ v.at \notin {"sent", "attaching", "probing"} /\ Occupied(v)
                          /\ calls' = [calls EXCEPT ![c] = v]
AsksFor(c, w) ==
  /\ queue' = Append(queue, Request(c, w))
  /\ \E v \in CallState : /\ AwaitsIn(v, w) /\ Occupied(v)
                          /\ calls' = [calls EXCEPT ![c] = v]
Proceeds(c, stops) == Rests(c) \/ \E w \in Asked : (w \in Stops => w \in stops) /\ AsksFor(c, w)

\* A call that asks Chrome proceeds, and its memory only lowers.
LEMMA SendMoves ==
  ASSUME BridgeTypeOK, NEW c \in Call, NEW b \in Memory, b.idle => b.attached,
         NEW k \in workload \cup {"none"}, NEW s \in Steps, Send(b, c, k, s)
  PROVE  Lowers(bridge', b) /\ Proceeds(c, {s})
<1>1. 0 \in 0 .. MaxDoc BY BridgeAssumption
<1>2. Before(b, s) \in Memory /\ Lowers(Before(b, s), b)
  <2>1. CASE s = "runtimeOff" BY <1>1, <2>1 DEF Before, forgetRuntime, Memory, NoDoc, Lowers
  <2>2. CASE s = "networkOff" BY <2>2 DEF Before, Memory, Lowers
  <2>3. CASE s = "viewportOff" BY <2>3 DEF Before, Memory, Lowers
  <2>4. CASE s \notin {"runtimeOff", "networkOff", "viewportOff"}
    <3>1. Before(b, s) = b BY <2>4 DEF Before
    <3> QED BY <3>1 DEF Lowers
  <2> QED BY <2>1, <2>2, <2>3, <2>4
<1>3. Before(b, s).attached = b.attached
  <2>1. CASE s = "runtimeOff" BY <2>1 DEF Before, forgetRuntime, Memory
  <2>2. CASE s = "networkOff" BY <2>2 DEF Before, Memory
  <2>3. CASE s = "viewportOff" BY <2>3 DEF Before, Memory
  <2>4. CASE s \notin {"runtimeOff", "networkOff", "viewportOff"} BY <2>4 DEF Before
  <2> QED BY <2>1, <2>2, <2>3, <2>4
<1>4. \A at \in {"sent", "attaching"} : Waiting(k, s, at) \in CallState
  BY <1>1 DEF Waiting, CallState, NoDoc
<1>5. Free \in CallState BY <1>1 DEF Free, CallState, NoDoc
<1>6. ASSUME Asks(c, k, s, "sent", s) PROVE Proceeds(c, {s})
  <2>1. AwaitsIn(Waiting(k, s, "sent"), s) /\ Occupied(Waiting(k, s, "sent"))
    BY DEF AwaitsIn, Occupied, Waiting
  <2>2. s \in Asked BY DEF Asked
  <2>3. AsksFor(c, s) BY <1>4, <1>6, <2>1 DEF AsksFor, Asks
  <2> QED BY <2>2, <2>3 DEF Proceeds
<1>7. CASE s = "detach" /\ bridge' = b /\ Asks(c, k, s, "sent", s)
  BY <1>6, <1>7 DEF Lowers
<1>8. CASE /\ s # "detach" /\ b.attached
           /\ bridge' = resetIdleTimer(Before(b, s)) /\ Asks(c, k, s, "sent", s)
  <2>1. Lowers(bridge', b) BY <1>2, <1>3, <1>8 DEF resetIdleTimer, Lowers, Memory
  <2> QED BY <1>6, <1>8, <2>1
<1>9. CASE /\ s # "detach" /\ ~b.attached /\ bridge' = Before(b, s)
           /\ s \in Disabling /\ calls' = [calls EXCEPT ![c] = Free] /\ UNCHANGED queue
  <2>1. Occupied(Free) BY DEF Occupied, Free
  <2>2. Rests(c) BY <1>5, <1>9, <2>1 DEF Rests, Free
  <2> QED BY <1>2, <1>9, <2>2 DEF Proceeds
<1>10. CASE /\ s # "detach" /\ ~b.attached /\ bridge' = Before(b, s)
            /\ s \notin Disabling /\ Asks(c, k, s, "attaching", "attach")
  <2>1. /\ AwaitsIn(Waiting(k, s, "attaching"), "attach")
        /\ Occupied(Waiting(k, s, "attaching"))
    BY <1>10 DEF AwaitsIn, Occupied, Waiting
  <2>2. "attach" \in Asked /\ "attach" \notin Stops BY DEF Asked, Stops
  <2>3. AsksFor(c, "attach") BY <1>4, <1>10, <2>1 DEF AsksFor, Asks
  <2> QED BY <1>2, <1>10, <2>2, <2>3 DEF Proceeds
<1> QED BY <1>7, <1>8, <1>9, <1>10 DEF Send

\* A call that goes on, asking or not, proceeds.
LEMMA GoMoves ==
  ASSUME BridgeTypeOK, NEW c \in Call, NEW b \in Memory, b.idle => b.attached,
         NEW k \in workload \cup {"none"}, NEW s \in Steps \cup {"end"}, Go(b, c, k, s)
  PROVE  Lowers(bridge', b) /\ Proceeds(c, {s})
<1>1. 0 \in 0 .. MaxDoc BY BridgeAssumption
<1>2. Lowers(b, b) BY DEF Lowers
<1>3. CASE s = "end" /\ End(b, c)
  <2>1. Free \in CallState /\ Occupied(Free) BY <1>1 DEF Free, CallState, NoDoc, Occupied
  <2> QED BY <1>2, <1>3, <2>1 DEF Proceeds, Rests, End, Free
<1>4. CASE /\ s = "poll" /\ bridge' = b /\ UNCHANGED queue
           /\ calls' = [calls EXCEPT ![c] = Waiting(k, "poll", "polling")]
  <2> DEFINE v == Waiting(k, "poll", "polling")
  <2>1. v \in CallState /\ Occupied(v) /\ v.at = "polling"
    BY <1>1 DEF Waiting, CallState, NoDoc, Occupied, Steps
  <2> HIDE DEF v
  <2>2. calls' = [calls EXCEPT ![c] = v] BY <1>4 DEF v
  <2>3. Rests(c) BY <1>4, <2>1, <2>2 DEF Rests
  <2> QED BY <1>2, <1>4, <2>3 DEF Proceeds
<1>5. CASE s = "poll" /\ Send(b, c, k, "evaluate")
  <2>1. "evaluate" \in Steps /\ "evaluate" \notin Stops BY DEF Steps, Stops
  <2>2. Lowers(bridge', b) /\ Proceeds(c, {"evaluate"}) BY <1>5, <2>1, SendMoves
  <2> QED BY <2>1, <2>2 DEF Proceeds
<1>6. CASE s \notin {"end", "poll"} /\ Send(b, c, k, s) BY <1>6, SendMoves
<1> QED BY <1>3, <1>4, <1>5, <1>6 DEF Go

\* No command goes on to a step that stops something.
LEMMA FollowingSteps ==
  ASSUME NEW b \in Memory, NEW k, NEW s \in Steps
  PROVE  Following(b, k, s) \in (Steps \cup {"end"}) \ (Disabling \cup {"detach"})
<1>1. InFrame(b, k) \in {"evaluate", "world", "worldPage", "poll", "runtime"}
  BY DEF InFrame, getOrCreateIsolatedWorld, getMainWorldContextId
<1> QED BY <1>1 DEF Following, Steps, Disabling, Stops

\* What a command begins with.
LEMMA FirstSteps ==
  ASSUME NEW b \in Memory, NEW k \in AllKinds
  PROVE  First(b, k) \in Steps \cup {"end"}
<1>1. InFrame(b, k) \in {"evaluate", "world", "worldPage", "poll", "runtime"}
  BY DEF InFrame, getOrCreateIsolatedWorld, getMainWorldContextId
<1> QED BY <1>1 DEF First, AllKinds, Steps, listFrameContexts, startConsoleCapture,
                    stopConsoleCapture, startNetworkCapture, stopNetworkCapture

\* What a stop stops is forgotten when it is asked for.
LEMMA StopForgets ==
  ASSUME NEW b \in Memory, NEW c, NEW k, NEW s \in Stops, Go(b, c, k, s)
  PROVE  /\ s = "runtimeOff" => ~bridge'.runtime /\ ~bridge'.console
         /\ s = "networkOff" => ~bridge'.network
<1>1. Send(b, c, k, s) BY DEF Go, Stops
<1>2. bridge' = Before(b, s) \/ bridge' = resetIdleTimer(Before(b, s))
  BY <1>1 DEF Send, Stops
<1>3. CASE s = "runtimeOff"
  <2>1. Before(b, s) = [[b EXCEPT !.runtime = FALSE, !.context = NoDoc] EXCEPT !.console = FALSE]
    BY <1>3 DEF Before, forgetRuntime
  <2> QED BY <1>2, <1>3, <2>1 DEF resetIdleTimer, Memory
<1>4. CASE s = "networkOff"
  <2>1. Before(b, s) = [b EXCEPT !.network = FALSE] BY <1>4 DEF Before
  <2> QED BY <1>2, <1>4, <2>1 DEF resetIdleTimer, Memory
<1> QED BY <1>3, <1>4 DEF Stops

\* Types after a call has proceeded.
LEMMA MovesTypes ==
  ASSUME BridgeTypeOK, NEW c \in Call, NEW b, Lowers(bridge', b), NEW stops, Proceeds(c, stops),
         inbox' \in Seq(Messages), raced' \in BOOLEAN, UNCHANGED <<chromeVars, workload>>
  PROVE  BridgeTypeOK'
<1>1. CallState' = CallState BY DEF CallState
<1>2. calls \in [Call -> CallState] /\ queue \in Seq(Requests) BY BridgeTypes
<1>3. calls' \in [Call -> CallState] BY <1>2 DEF Proceeds, Rests, AsksFor
<1>4. queue' \in Seq(Requests)
  <2>1. \A w \in Asked : Request(c, w) \in Requests BY DEF Request, Requests, Senders
  <2>2. CASE queue' = queue BY <1>2, <2>2
  <2>3. ASSUME NEW w \in Asked, queue' = Append(queue, Request(c, w))
        PROVE  queue' \in Seq(Requests)
    BY <1>2, <2>1, <2>3, AppendProperties
  <2> QED BY <2>2, <2>3 DEF Proceeds, Rests, AsksFor
<1>5. bridge' \in Memory /\ (bridge'.idle => bridge'.attached) BY DEF Lowers
<1> QED BY <1>1, <1>3, <1>4, <1>5, BridgeTypes, NextBridgeTypes DEF chromeVars

\* Each message is what its call waits for, after a call has proceeded.
LEMMA MovesMatched ==
  ASSUME BridgeTypeOK, NEW c \in Call, NEW stops, Proceeds(c, stops), NEW y \in Seq(Messages),
         Matched(queue, y, calls), NoneBy(queue, c), NoneBy(y, c), Proper(queue),
         \A d \in Call : Occupied(calls[d])
  PROVE  Matched(queue', y, calls') /\ Proper(queue') /\ \A d \in Call : Occupied(calls'[d])
<1>1. calls \in [Call -> CallState] /\ queue \in Seq(Requests) BY BridgeTypes
<1>2. CASE Rests(c)
  <2>1. PICK v \in CallState : Occupied(v) /\ calls' = [calls EXCEPT ![c] = v]
    BY <1>2 DEF Rests
  <2>2. queue' = queue BY <1>2 DEF Rests
  <2>3. Matched(queue, y, calls') BY <1>1, <2>1, MatchedCall
  <2>4. \A d \in Call : Occupied(calls'[d]) BY <1>1, <2>1
  <2> QED BY <2>2, <2>3, <2>4
<1>3. ASSUME NEW w \in Asked, AsksFor(c, w)
      PROVE  Matched(queue', y, calls') /\ Proper(queue') /\ \A d \in Call : Occupied(calls'[d])
  <2>1. PICK v \in CallState : AwaitsIn(v, w) /\ Occupied(v) /\ calls' = [calls EXCEPT ![c] = v]
    BY <1>3 DEF AsksFor
  <2> DEFINE r == Request(c, w)
  <2>2. queue' = Append(queue, r) BY <1>3 DEF AsksFor
  <2>3. r \in Requests /\ r.by = c /\ r.do = w BY DEF Request, Requests, Senders
  <2> HIDE DEF r
  <2>4. Matched(queue, y, calls') BY <1>1, <2>1, MatchedCall
  <2>5. calls'[c] = v /\ \A d \in Call : Occupied(calls'[d]) BY <1>1, <2>1
  <2>6. AwaitsIn(calls'[c], w) BY <2>1, <2>5
  <2> DEFINE cs == calls'
  <2>7. Matched(queue, y, cs) /\ AwaitsIn(cs[c], w) BY <2>4, <2>6
  <2> HIDE DEF cs
  <2>8. Matched(Append(queue, r), y, cs) BY <1>1, <2>3, <2>7, MatchedAsk
  <2>9. r.by # "chrome" /\ r.by # "late" /\ r.do \notin EventNames
    BY <2>3, BridgeAssumption DEF Asked, Steps, EventNames
  <2>10. Proper(Append(queue, r)) BY <1>1, <2>3, <2>9, ProperMore
  <2> QED BY <2>2, <2>5, <2>8, <2>10 DEF cs
<1> QED BY <1>2, <1>3 DEF Proceeds

\* What is asked for goes to the end of the queue.
LEMMA MovesQueue ==
  ASSUME NEW c \in Call, NEW stops, Proceeds(c, stops)
  PROVE  \/ queue' = queue
         \/ \E r \in Requests : /\ r.by = c /\ (r.do \in Stops => r.do \in stops)
                                /\ queue' = Append(queue, r)
<1>1. \A w \in Asked : /\ Request(c, w) \in Requests /\ Request(c, w).by = c
                       /\ Request(c, w).do = w
  BY DEF Request, Requests, Senders
<1> QED BY <1>1 DEF Proceeds, Rests, AsksFor

\* A request of a call is no stop: nothing changes for stops and detachments.
LEMMA AskKeepsStops ==
  ASSUME NEW q \in Seq(Requests), NEW r \in Requests, NEW y, r.do \notin Stops
  PROVE  /\ StopsIn(q, y) => StopsIn(Append(q, r), y)
         /\ \A w \in Stops : Stopping(Append(q, r), y, w) => Stopping(q, y, w)
<1>1. \A w \in Stops : r \notin Asking(w) BY DEF Asking, Stops
<1>2. "runtimeOff" \in Stops /\ "networkOff" \in Stops BY DEF Stops
<1>3. ASSUME StopsIn(q, y) PROVE StopsIn(Append(q, r), y)
  <2>1. Clear(Append(q, r), y, {"runtime", "runtimeOn"}, Asking("runtimeOff"))
    BY <1>1, <1>2, <1>3, ClearAsk DEF StopsIn
  <2>2. Clear(Append(q, r), y, {"networkOn"}, Asking("networkOff"))
    BY <1>1, <1>2, <1>3, ClearAsk DEF StopsIn
  <2> QED BY <1>3, <2>1, <2>2 DEF StopsIn
<1>4. ASSUME NEW w \in Stops, Stopping(Append(q, r), y, w) PROVE Stopping(q, y, w)
  BY <1>1, <1>4, PendingSteps DEF Stopping
<1> QED BY <1>3, <1>4

\* What a call asks is no detachment by the idle timer.
LEMMA AskKeepsIdle ==
  ASSUME NEW q \in Seq(Requests), NEW r \in Requests, NEW y, r.by \in Call
  PROVE  /\ Clear(q, y, {"runtimeOn", "networkOn"}, IdleAsks)
              => Clear(Append(q, r), y, {"runtimeOn", "networkOn"}, IdleAsks)
         /\ Pending(Append(q, r), IdleAsks) => Pending(q, IdleAsks)
<1>1. r \notin IdleAsks BY BridgeAssumption DEF IdleAsks
<1> QED BY <1>1, ClearAsk, PendingSteps

\* What a stop must not find ahead of it.
Enabling(s) == IF s = "runtimeOff" THEN {"runtime", "runtimeOn"} ELSE {"networkOn"}
NoneEnabling(q, x, s) ==
  /\ \A j \in 1 .. Len(x) : ~Tells(x[j], Enabling(s))
  /\ \A j \in 1 .. Len(q) : ~Seeks(q[j], Enabling(s))

\* A stop that is asked with nothing enabling under way is alone.
LEMMA StopIsAlone ==
  ASSUME NEW q \in Seq(Requests), NEW r \in Requests, NEW x, r.do \in Stops,
         StopsIn(q, x), NoneEnabling(q, x, r.do)
  PROVE  /\ StopsIn(Append(q, r), x)
         /\ \A w \in Stops : Stopping(Append(q, r), x, w) => Stopping(q, x, w) \/ w = r.do
<1>1. \A w : r \in Asking(w) => w = r.do BY DEF Asking
<1>2. Clear(Append(q, r), x, {"runtime", "runtimeOn"}, Asking("runtimeOff"))
  <2>1. r \in Asking("runtimeOff") => /\ \A j \in 1 .. Len(x) : ~Tells(x[j], {"runtime", "runtimeOn"})
                                      /\ \A j \in 1 .. Len(q) : ~Seeks(q[j], {"runtime", "runtimeOn"})
    BY <1>1 DEF NoneEnabling, Enabling
  <2> QED BY <2>1, ClearAsk DEF StopsIn
<1>3. Clear(Append(q, r), x, {"networkOn"}, Asking("networkOff"))
  <2>1. r \in Asking("networkOff") => /\ \A j \in 1 .. Len(x) : ~Tells(x[j], {"networkOn"})
                                      /\ \A j \in 1 .. Len(q) : ~Seeks(q[j], {"networkOn"})
    BY <1>1 DEF NoneEnabling, Enabling
  <2> QED BY <2>1, ClearAsk DEF StopsIn
<1>4. \A w \in Stops : Stopping(Append(q, r), x, w) => Stopping(q, x, w) \/ w = r.do
  BY <1>1, PendingSteps DEF Stopping
<1> QED BY <1>2, <1>3, <1>4 DEF StopsIn

\* A call goes on without an answer: only what a stop forgets must have no rival.
LEMMA MoveInPlace ==
  ASSUME BridgeInv, NEW c \in Call, NEW s, NoneBy(queue, c), NoneBy(inbox, c),
         Lowers(bridge', bridge), Proceeds(c, {s}), UNCHANGED <<inbox, chromeVars, workload>>,
         raced' \in BOOLEAN, raced => raced',
         s \in Stops => /\ raced' \/ NoneEnabling(queue, inbox, s)
                        /\ s = "runtimeOff" => ~bridge'.runtime /\ ~bridge'.console
                        /\ s = "networkOff" => ~bridge'.network
  PROVE  BridgeInv'
<1>1. BridgeTypeOK /\ queue \in Seq(Requests) /\ inbox \in Seq(Messages)
  BY BridgeTypes DEF BridgeInv, MemoryIsTrue
<1>2. BridgeTypeOK' BY <1>1, MovesTypes
<1>3. CallsInStep'
  <2>1. Matched(queue', inbox, calls') /\ Proper(queue') /\ \A d \in Call : Occupied(calls'[d])
    BY <1>1, MovesMatched DEF BridgeInv, CallsInStep
  <2> QED BY <2>1 DEF BridgeInv, CallsInStep
<1>4. (AttachedIsOurs /\ EnabledAsRemembered)'
  BY DEF BridgeInv, MemoryIsTrue, AttachedIsOurs, EnabledAsRemembered, LossUnderWay, chromeVars,
         Lowers
<1>5. Heard' BY DEF BridgeInv, Heard, chromeVars
<1>6. CASE queue' = queue
  <2>1. StopsAlone' BY <1>6 DEF BridgeInv, StopsAlone, Lowers
  <2>2. IdleAlone' BY <1>6 DEF BridgeInv, IdleAlone, Lowers
  <2> QED BY <1>2, <1>3, <1>4, <1>5, <2>1, <2>2 DEF BridgeInv, MemoryIsTrue
<1>7. ASSUME NEW r \in Requests, r.by = c, r.do \in Stops => r.do \in {s},
             queue' = Append(queue, r)
      PROVE  BridgeInv'
  <2>1. IdleAlone' BY <1>1, <1>7, AskKeepsIdle DEF BridgeInv, IdleAlone, Lowers
  <2>2. StopsAlone'
    <3> SUFFICES ASSUME ~raced' PROVE StopsAlone'
      BY DEF StopsAlone
    <3>1. /\ StopsIn(queue, inbox)
          /\ Stopping(queue, inbox, "runtimeOff") => ~bridge'.runtime /\ ~bridge'.console
          /\ Stopping(queue, inbox, "networkOff") => ~bridge'.network
      BY DEF BridgeInv, StopsAlone, Lowers
    <3>2. "runtimeOff" \in Stops /\ "networkOff" \in Stops BY DEF Stops
    <3>3. CASE r.do \notin Stops
      <4>1. /\ StopsIn(Append(queue, r), inbox)
            /\ \A w \in Stops : Stopping(Append(queue, r), inbox, w) => Stopping(queue, inbox, w)
        BY <1>1, <3>1, <3>3, AskKeepsStops
      <4> QED BY <1>7, <3>1, <3>2, <4>1 DEF StopsAlone
    <3>4. CASE r.do \in Stops
      <4>1. r.do = s /\ NoneEnabling(queue, inbox, r.do) BY <1>7, <3>4
      <4>2. /\ StopsIn(Append(queue, r), inbox)
            /\ \A w \in Stops : Stopping(Append(queue, r), inbox, w)
                                  => Stopping(queue, inbox, w) \/ w = r.do
        BY <1>1, <3>1, <3>4, <4>1, StopIsAlone
      <4> QED BY <1>7, <3>1, <3>2, <3>4, <4>1, <4>2 DEF StopsAlone
    <3> QED BY <3>3, <3>4
  <2> QED BY <1>2, <1>3, <1>4, <1>5, <2>1, <2>2 DEF BridgeInv, MemoryIsTrue
<1> QED BY <1>6, <1>7, MovesQueue

\* Without a stop, a move needs no more than what it leaves of the memory.
LEMMA MovesWithoutStop ==
  ASSUME NEW c, NEW s, Proceeds(c, {s}), s \notin Stops
  PROVE  \A t : Proceeds(c, t)
BY DEF Proceeds

\* A call begins.
LEMMA StartKeeps ==
  ASSUME BridgeInv, NEW c \in Call, NEW k \in AllKinds, Start(c, k)
  PROVE  BridgeInv'
<1> DEFINE s == First(bridge, k)
<1>1. BridgeTypeOK /\ bridge \in Memory /\ (bridge.idle => bridge.attached) /\ raced \in BOOLEAN
  BY BridgeTypes DEF BridgeInv, MemoryIsTrue
<1>2. s \in Steps \cup {"end"} BY <1>1, FirstSteps
<1>3. Go(bridge, c, k, s) /\ calls[c].at = "free" /\ k \in workload BY DEF Start
<1>4. raced' = (raced \/ Races(c, s)) /\ UNCHANGED <<inbox, chromeVars, workload>> BY DEF Start
<1> HIDE DEF s
<1>5. Lowers(bridge', bridge) /\ Proceeds(c, {s}) BY <1>1, <1>2, <1>3, GoMoves
<1>6. NoneBy(queue, c) /\ NoneBy(inbox, c)
  BY <1>3, RestingHasNone DEF BridgeInv, CallsInStep
<1>7. raced' \in BOOLEAN /\ (raced => raced')
  <2>1. Races(c, s) \in BOOLEAN BY DEF Races
  <2> QED BY <1>1, <1>4, <2>1
<1>8. ASSUME s \in Stops, ~raced' PROVE NoneEnabling(queue, inbox, s)
  <2>1. \A d \in Call \ {c} : ~(calls[d].at # "free" /\ calls[d].step \in Enabling(s))
    BY <1>4, <1>8 DEF Races, Enabling, Stops
  <2>2. \A d \in Call, w \in Enabling(s) : AwaitsIn(calls[d], w)
           => calls[d].at # "free" /\ calls[d].step \in Enabling(s)
    BY DEF AwaitsIn, Enabling
  <2>3. ASSUME NEW j \in 1 .. Len(inbox) PROVE ~Tells(inbox[j], Enabling(s))
    BY <1>6, <2>1, <2>2 DEF Tells, NoneBy, BridgeInv, CallsInStep, Matched, Awaited
  <2>4. ASSUME NEW j \in 1 .. Len(queue) PROVE ~Seeks(queue[j], Enabling(s))
    BY <1>6, <2>1, <2>2 DEF Seeks, NoneBy, BridgeInv, CallsInStep, Matched, Awaited
  <2> QED BY <2>3, <2>4 DEF NoneEnabling
<1>9. s \in Stops => /\ s = "runtimeOff" => ~bridge'.runtime /\ ~bridge'.console
                     /\ s = "networkOff" => ~bridge'.network
  BY <1>1, <1>3, StopForgets
<1> QED BY <1>4, <1>5, <1>6, <1>7, <1>8, <1>9, MoveInPlace

\* chrome.webNavigation answers.
LEMMA NavigationAnswersKeeps ==
  ASSUME BridgeInv, NEW c \in Call, NavigationAnswers(c)
  PROVE  BridgeInv'
<1>1. /\ BridgeTypeOK /\ bridge \in Memory /\ (bridge.idle => bridge.attached)
      /\ calls \in [Call -> CallState] /\ queue \in Seq(Requests) /\ inbox \in Seq(Messages)
      /\ raced \in BOOLEAN
  BY BridgeTypes DEF BridgeInv, MemoryIsTrue
<1>2. UNCHANGED <<inbox, chromeVars, raced, workload>> BY DEF NavigationAnswers
<1>3. CASE calls[c].at = "navigating" /\ GotTree(c, calls[c].tree)
  <2> DEFINE b == Learnt(bridge, "tree", calls[c].tree)  s == Following(b, calls[c].kind, "tree")
  <2>1. calls[c].tree \in 0 .. MaxDoc /\ calls[c].kind \in workload \cup {"none"}
    BY <1>1 DEF CallState
  <2>2. b = [bridge EXCEPT !.tree = calls[c].tree] BY DEF Learnt
  <2>3. b \in Memory /\ Lowers(b, bridge) BY <1>1, <2>1, <2>2 DEF Memory, Lowers
  <2>4. "tree" \in Steps BY DEF Steps
  <2>5. Go(b, c, calls[c].kind, s) BY <1>3 DEF GotTree
  <2> HIDE DEF b
  <2>6. s \in (Steps \cup {"end"}) \ (Disabling \cup {"detach"}) BY <2>3, <2>4, FollowingSteps
  <2> HIDE DEF s
  <2>7. b.idle => b.attached BY <2>3 DEF Lowers
  <2>8. Lowers(bridge', b) /\ Proceeds(c, {s}) BY <1>1, <2>1, <2>3, <2>5, <2>6, <2>7, GoMoves
  <2>9. Lowers(bridge', bridge) BY <2>3, <2>8 DEF Lowers
  <2>10. NoneBy(queue, c) /\ NoneBy(inbox, c)
    BY <1>3, RestingHasNone DEF BridgeInv, CallsInStep
  <2>11. s \notin Stops BY <2>6 DEF Disabling
  <2> QED BY <1>1, <1>2, <2>8, <2>9, <2>10, <2>11, MoveInPlace
<1>4. CASE calls' = [calls EXCEPT ![c].nav = TRUE] /\ UNCHANGED <<bridge, queue>>
  <2>1. /\ calls' \in [Call -> CallState]
        /\ \A d \in Call : calls'[d].at = calls[d].at /\ calls'[d].step = calls[d].step
    BY <1>1, <1>4 DEF CallState
  <2>2. CallState' = CallState BY <1>2 DEF CallState
  <2>3. BridgeTypeOK' BY <1>1, <1>2, <1>4, <2>1, <2>2, BridgeTypes, NextBridgeTypes DEF chromeVars
  <2>4. \A d \in Call : /\ Occupied(calls[d]) => Occupied(calls'[d])
                        /\ \A w : AwaitsIn(calls[d], w) => AwaitsIn(calls'[d], w)
    BY <2>1 DEF Occupied, AwaitsIn
  <2>5. CallsInStep' BY <1>2, <1>4, <2>4 DEF BridgeInv, CallsInStep, Matched, Awaited
  <2>6. (AttachedIsOurs /\ EnabledAsRemembered)'
    BY <1>2, <1>4 DEF BridgeInv, MemoryIsTrue, AttachedIsOurs, EnabledAsRemembered, LossUnderWay,
                      chromeVars
  <2>7. (Heard /\ StopsAlone /\ IdleAlone)'
    BY <1>2, <1>4 DEF BridgeInv, Heard, StopsAlone, IdleAlone, chromeVars
  <2> QED BY <2>3, <2>5, <2>6, <2>7 DEF BridgeInv, MemoryIsTrue
<1> QED BY <1>3, <1>4 DEF NavigationAnswers

\* A call that polls looks again.
LEMMA PollingKeeps ==
  ASSUME BridgeInv, NEW c \in Call, PollSees(c) \/ PollEnds(c)
  PROVE  BridgeInv'
<1>1. /\ BridgeTypeOK /\ bridge \in Memory /\ (bridge.idle => bridge.attached)
      /\ calls \in [Call -> CallState] /\ raced \in BOOLEAN
  BY BridgeTypes DEF BridgeInv, MemoryIsTrue
<1>2. UNCHANGED <<inbox, chromeVars, raced, workload>> /\ calls[c].at = "polling"
  BY DEF PollSees, PollEnds
<1>3. NoneBy(queue, c) /\ NoneBy(inbox, c)
  BY <1>2, RestingHasNone DEF BridgeInv, CallsInStep
<1>4. calls[c].kind \in workload \cup {"none"} BY <1>1 DEF CallState
<1>5. CASE PollSees(c)
  <2>1. "poll" \in Steps /\ "poll" \notin Stops BY DEF Steps, Stops
  <2>2. Lowers(bridge', bridge) /\ Proceeds(c, {"poll"}) BY <1>1, <1>4, <1>5, <2>1, GoMoves DEF PollSees
  <2> QED BY <1>1, <1>2, <1>3, <2>1, <2>2, MoveInPlace
<1>6. CASE PollEnds(c)
  <2>1. Go(bridge, c, "none", "end") BY <1>6 DEF PollEnds, Go
  <2>2. Lowers(bridge', bridge) /\ Proceeds(c, {"end"}) BY <1>1, <2>1, GoMoves
  <2>3. "end" \notin Stops BY DEF Stops
  <2> QED BY <1>1, <1>2, <1>3, <2>2, <2>3, MoveInPlace
<1> QED BY <1>5, <1>6

\* A command is given up after its time.
LEMMA TimeoutKeeps ==
  ASSUME BridgeInv, NEW c \in Call, Timeout(c)
  PROVE  BridgeInv'
<1>1. /\ BridgeTypeOK /\ calls \in [Call -> CallState]
      /\ queue \in Seq(Requests) /\ inbox \in Seq(Messages)
  BY BridgeTypes DEF BridgeInv, MemoryIsTrue
<1>2. /\ calls' = [calls EXCEPT ![c] = Free]
      /\ queue' = Orphaned(queue, c) /\ inbox' = Orphaned(inbox, c)
      /\ UNCHANGED <<bridge, chromeVars, raced, workload>>
      /\ calls[c].at = "sent" /\ calls[c].step # "detach"
  BY DEF Timeout
<1>3. Free \in CallState /\ Occupied(Free)
  BY BridgeAssumption DEF Free, CallState, NoDoc, Occupied
<1>4. queue' \in Seq(Requests) /\ inbox' \in Seq(Messages)
  BY <1>1, <1>2, OrphanedRequests, OrphanedMessages
<1>5. CallState' = CallState BY <1>2 DEF CallState
<1>6. calls' \in [Call -> CallState] BY <1>1, <1>2, <1>3
<1>7. BridgeTypeOK'
  BY <1>1, <1>2, <1>4, <1>5, <1>6, BridgeTypes, NextBridgeTypes DEF chromeVars
<1>8. \A w : AwaitsIn(calls[c], w) => w # "detach" /\ w = calls[c].step
  BY <1>2 DEF AwaitsIn
<1>9. Proper(queue')
  <2>1. /\ Len(queue') = Len(queue)
        /\ \A i \in 1 .. Len(queue) :
             /\ queue'[i].by = IF queue[i].by = c THEN "late" ELSE queue[i].by
             /\ queue'[i].do = queue[i].do
    BY <1>1, <1>2, OrphanedRequests
  <2>2. \A i \in 1 .. Len(queue) : queue[i].by = c => queue[i].do # "detach" /\ queue[i].by # "chrome"
    BY <1>8, BridgeAssumption DEF BridgeInv, CallsInStep, Matched, Awaited
  <2>3. Proper(queue) BY DEF BridgeInv, CallsInStep
  <2> QED BY <2>1, <2>2, <2>3 DEF Proper
<1>10. Proper(inbox')
  <2>1. /\ Len(inbox') = Len(inbox)
        /\ \A i \in 1 .. Len(inbox) :
             /\ inbox'[i].by = IF inbox[i].by = c THEN "late" ELSE inbox[i].by
             /\ inbox'[i].do = inbox[i].do
    BY <1>1, <1>2, OrphanedMessages
  <2>2. \A i \in 1 .. Len(inbox) : inbox[i].by = c => inbox[i].do # "detach" /\ inbox[i].by # "chrome"
    BY <1>8, BridgeAssumption DEF BridgeInv, CallsInStep, Matched, Awaited
  <2>3. Proper(inbox) BY DEF BridgeInv, CallsInStep
  <2> QED BY <2>1, <2>2, <2>3 DEF Proper
<1>11. CallsInStep'
  <2>1. Matched(queue', inbox', calls')
    BY <1>1, <1>2, MatchedOrphaned DEF BridgeInv, CallsInStep
  <2>2. \A d \in Call : Occupied(calls'[d]) BY <1>1, <1>2, <1>3 DEF BridgeInv, CallsInStep
  <2> QED BY <1>9, <1>10, <2>1, <2>2 DEF CallsInStep
<1>12. \A L : IsIn(inbox', L) <=> IsIn(inbox, L) BY <1>1, <1>2, OrphanedUnderWay
<1>13. (AttachedIsOurs /\ EnabledAsRemembered)'
  BY <1>2, <1>12 DEF BridgeInv, MemoryIsTrue, AttachedIsOurs, EnabledAsRemembered, LossUnderWay,
                     chromeVars
<1>14. Heard'
  BY <1>1, <1>2, ToldOrphaned DEF BridgeInv, Heard, HeardIn, chromeVars
<1>15. \A w : \A i \in 1 .. Len(queue) : queue'[i] \in Asking(w) => queue[i] \in Asking(w)
  <2>1. \A i \in 1 .. Len(queue) : queue'[i].do = queue[i].do /\ queue[i] \in Requests
    BY <1>1, <1>2, OrphanedRequests, ElementOfSeq
  <2> QED BY <2>1 DEF Asking, Requests
<1>16. \A i \in 1 .. Len(queue) : queue'[i] \in IdleAsks => queue[i] \in IdleAsks
  <2>1. \A i \in 1 .. Len(queue) :
             /\ queue'[i].by = IF queue[i].by = c THEN "late" ELSE queue[i].by
             /\ queue[i] \in Requests
    BY <1>1, <1>2, OrphanedRequests, ElementOfSeq
  <2> QED BY <2>1 DEF IdleAsks, Requests
<1>17. StopsIn(queue, inbox) => StopsIn(queue', inbox')
  <2> SUFFICES ASSUME StopsIn(queue, inbox) PROVE StopsIn(queue', inbox') OBVIOUS
  <2>1. /\ Clear(queue', inbox', {"runtime", "runtimeOn"}, Asking("runtimeOff"))
        /\ Clear(queue', inbox', {"networkOn"}, Asking("networkOff"))
    BY <1>1, <1>2, <1>15, ClearOrphaned DEF StopsIn
  <2>2. /\ Behind(inbox', {"runtime", "runtimeOn"}, "runtimeOff")
        /\ Behind(inbox', {"networkOn"}, "networkOff")
    BY <1>1, <1>2, BehindOrphaned DEF StopsIn
  <2> QED BY <2>1, <2>2 DEF StopsIn
<1>18. \A W : (\A i \in 1 .. Len(queue) : queue'[i] \in W => queue[i] \in W)
                => (Pending(queue', W) => Pending(queue, W))
  BY <1>1, <1>2, OrphanedUnderWay
<1>19. \A w : Stopping(queue', inbox', w) => Stopping(queue, inbox, w)
  BY <1>12, <1>15, <1>18 DEF Stopping
<1>20. StopsAlone' BY <1>2, <1>17, <1>19 DEF BridgeInv, StopsAlone
<1>21. IdleAlone'
  <2>1. Clear(queue', inbox', {"runtimeOn", "networkOn"}, IdleAsks)
    BY <1>1, <1>2, <1>16, ClearOrphaned DEF BridgeInv, IdleAlone
  <2> QED BY <1>2, <1>16, <1>18, <2>1 DEF BridgeInv, IdleAlone
<1> QED BY <1>7, <1>11, <1>13, <1>14, <1>20, <1>21 DEF BridgeInv, MemoryIsTrue

\* The idle timer asks for the detachment.
LEMMA IdleTimerFiresKeeps ==
  ASSUME BridgeInv, IdleTimerFires
  PROVE  BridgeInv'
<1>1. /\ BridgeTypeOK /\ bridge \in Memory /\ calls \in [Call -> CallState]
      /\ queue \in Seq(Requests) /\ inbox \in Seq(Messages)
  BY BridgeTypes DEF BridgeInv, MemoryIsTrue
<1> DEFINE r == Request("idle", "detach")
<1>2. /\ bridge' = [bridge EXCEPT !.idle = FALSE] /\ queue' = Append(queue, r)
      /\ UNCHANGED <<calls, inbox, chromeVars, raced, workload>>
      /\ ~bridge.console /\ ~bridge.network
  BY DEF IdleTimerFires, hasActiveCapture
<1>3. \A d \in Call : calls[d].at \notin {"sent", "polling"} \/ calls[d].step = "detach"
  BY DEF IdleTimerFires, CDP_IDLE_TIMEOUT_MS, CDP_TIMEOUT_MS
<1>4. r \in Requests /\ r.by = "idle" /\ r.do = "detach"
  BY DEF Request, Requests, Senders, Asked, Steps
<1> HIDE DEF r
<1>5. queue' \in Seq(Requests) BY <1>1, <1>2, <1>4, AppendProperties
<1>6. bridge' \in Memory /\ ~bridge'.idle BY <1>1, <1>2 DEF Memory
<1>7. /\ bridge'.attached = bridge.attached /\ bridge'.page = bridge.page
      /\ bridge'.runtime = bridge.runtime /\ bridge'.console = bridge.console
      /\ bridge'.network = bridge.network
  BY <1>1, <1>2 DEF Memory
<1>8. CallState' = CallState BY <1>2 DEF CallState
<1>9. BridgeTypeOK'
  BY <1>1, <1>2, <1>5, <1>6, <1>8, BridgeTypes, NextBridgeTypes DEF chromeVars
<1>10. CallsInStep'
  <2>1. r.by \notin Call BY <1>4, BridgeAssumption
  <2>2. Matched(queue', inbox, calls)
    BY <1>1, <1>2, <1>4, <2>1, MatchedAsk DEF BridgeInv, CallsInStep
  <2>3. r.by # "late" /\ r.by # "chrome" /\ r.do \notin EventNames BY <1>4 DEF EventNames
  <2>4. Proper(queue') BY <1>1, <1>2, <1>4, <2>3, ProperMore DEF BridgeInv, CallsInStep
  <2> QED BY <1>2, <2>2, <2>4 DEF BridgeInv, CallsInStep
<1>11. (AttachedIsOurs /\ EnabledAsRemembered)'
  BY <1>2, <1>7 DEF BridgeInv, MemoryIsTrue, AttachedIsOurs, EnabledAsRemembered, LossUnderWay,
                    chromeVars
<1>12. Heard' BY <1>2 DEF BridgeInv, Heard, chromeVars
<1>13. StopsAlone'
  <2>1. r.do \notin Stops BY <1>4 DEF Stops
  <2>2. /\ StopsIn(queue, inbox) => StopsIn(queue', inbox)
        /\ \A w \in Stops : Stopping(queue', inbox, w) => Stopping(queue, inbox, w)
    BY <1>1, <1>2, <1>4, <2>1, AskKeepsStops
  <2>3. "runtimeOff" \in Stops /\ "networkOff" \in Stops BY DEF Stops
  <2> QED BY <1>2, <1>7, <2>2, <2>3 DEF BridgeInv, StopsAlone
<1>14. IdleAlone'
  <2> DEFINE on == {"runtimeOn", "networkOn"}
  <2>1. \A d \in Call, w \in on : ~AwaitsIn(calls[d], w) BY <1>3 DEF AwaitsIn
  <2>2. \A j \in 1 .. Len(inbox) : ~Tells(inbox[j], on)
    BY <2>1 DEF BridgeInv, CallsInStep, Matched, Awaited, Tells
  <2>3. \A j \in 1 .. Len(queue) : ~Seeks(queue[j], on)
    BY <2>1 DEF BridgeInv, CallsInStep, Matched, Awaited, Seeks
  <2>4. Clear(queue, inbox, on, IdleAsks) BY DEF BridgeInv, IdleAlone
  <2> HIDE DEF on
  <2>5. Clear(Append(queue, r), inbox, on, IdleAsks) BY <1>1, <1>4, <2>2, <2>3, <2>4, ClearAsk
  <2> USE DEF on
  <2> QED BY <1>2, <1>7, <2>5 DEF IdleAlone
<1> QED BY <1>9, <1>10, <1>11, <1>12, <1>13, <1>14 DEF BridgeInv, MemoryIsTrue

----------------------------------------------------------------------------
(* What the worker is told *)

\* The worker believes what it did, and what m tells a call.
Believes(m) ==
  /\ bridge' \in Memory /\ (bridge'.idle => bridge'.attached)
  /\ bridge'.attached => bridge.attached \/ Tells(m, {"attach", "probe"})
  /\ bridge'.page => bridge.page \/ Tells(m, {"treePage", "worldPage"})
  /\ bridge'.runtime => bridge.runtime \/ Tells(m, {"runtime"})
  /\ bridge'.console => bridge.console \/ Tells(m, {"runtimeOn"})
  /\ bridge'.network => bridge.network \/ Tells(m, {"networkOn"})

Forgets == ~bridge'.attached /\ ~bridge'.page /\ ~bridge'.runtime /\ ~bridge'.console /\ ~bridge'.network

\* The memory of a detached tab.
LEMMA DetachedForgets ==
  /\ Detached \in Memory
  /\ ~Detached.idle /\ ~Detached.attached /\ ~Detached.page /\ ~Detached.runtime
  /\ ~Detached.console /\ ~Detached.network
BY BridgeAssumption DEF Detached, Memory, NoDoc

\* An event makes the worker believe nothing but what it says.
LEMMA HappenedBelieves ==
  ASSUME NEW m \in Messages, bridge \in Memory, bridge.idle => bridge.attached,
         m.do \in EventNames, bridge' = Happened(bridge, m)
  PROVE  Believes(m) /\ (m.do \in Losses => Forgets)
<1>1. 0 \in 0 .. MaxDoc /\ m.doc \in 0 .. MaxDoc BY BridgeAssumption DEF Messages
<1>2. CASE m.do = "onDetach"
  <2>1. bridge' = Detached BY <1>2 DEF Happened, cleanupDetachedTab
  <2> QED BY <2>1, DetachedForgets DEF Believes, Forgets
<1>3. CASE m.do = "navigated"
  <2>1. bridge' = [bridge EXCEPT !.tree = 0, !.world = 0]
    BY <1>3 DEF Happened, invalidateFrameCaches, NoDoc
  <2> QED BY <1>1, <1>3, <2>1 DEF Believes, Memory, Losses
<1>4. CASE m.do = "created"
  <2>1. bridge' = [bridge EXCEPT !.context = m.doc]
    BY <1>4 DEF Happened, recordExecutionContext
  <2> QED BY <1>1, <1>4, <2>1 DEF Believes, Memory, Losses
<1>5. CASE m.do = "destroyed"
  <2>1. bridge' = [bridge EXCEPT !.context = IF bridge.context = m.doc THEN 0 ELSE bridge.context]
    BY <1>5 DEF Happened, removeExecutionContext, NoDoc
  <2> QED BY <1>1, <1>5, <2>1 DEF Believes, Memory, Losses
<1>6. CASE m.do = "cleared"
  <2>1. bridge' = [bridge EXCEPT !.context = 0] BY <1>6 DEF Happened, NoDoc
  <2> QED BY <1>1, <1>6, <2>1 DEF Believes, Memory, Losses
<1> QED BY <1>2, <1>3, <1>4, <1>5, <1>6 DEF EventNames

\* An answered step leaves in the memory what it was told and no more.
LEMMA LearntBelieves ==
  ASSUME NEW m \in Messages, bridge \in Memory, bridge.idle => bridge.attached,
         m.by \in Call, m.ok = TRUE, NEW b, b = Learnt(bridge, m.do, m.doc), Lowers(bridge', b)
  PROVE  Believes(m)
<1>1. m.doc \in 0 .. MaxDoc BY DEF Messages
<1>2. CASE m.do \in {"treePage", "worldPage"}
  <2>1. b = [bridge EXCEPT !.page = TRUE] BY <1>2 DEF Learnt
  <2> QED BY <1>2, <2>1 DEF Believes, Memory, Lowers, Tells
<1>3. CASE m.do = "tree"
  <2>1. b = [bridge EXCEPT !.tree = m.doc] BY <1>3 DEF Learnt
  <2> QED BY <1>1, <2>1 DEF Believes, Memory, Lowers
<1>4. CASE m.do = "world"
  <2>1. b = [bridge EXCEPT !.world = m.doc] BY <1>4 DEF Learnt
  <2> QED BY <1>1, <2>1 DEF Believes, Memory, Lowers
<1>5. CASE m.do = "runtime"
  <2>1. b = [bridge EXCEPT !.runtime = TRUE] BY <1>5 DEF Learnt
  <2> QED BY <1>5, <2>1 DEF Believes, Memory, Lowers, Tells
<1>6. CASE m.do = "viewportOn"
  <2>1. b = [bridge EXCEPT !.override = TRUE] BY <1>6 DEF Learnt
  <2> QED BY <2>1 DEF Believes, Memory, Lowers
<1>7. CASE m.do = "runtimeOn"
  <2>1. b = [bridge EXCEPT !.console = TRUE] BY <1>7 DEF Learnt
  <2> QED BY <1>7, <2>1 DEF Believes, Memory, Lowers, Tells
<1>8. CASE m.do = "networkOn"
  <2>1. b = [bridge EXCEPT !.network = TRUE] BY <1>8 DEF Learnt
  <2> QED BY <1>8, <2>1 DEF Believes, Memory, Lowers, Tells
<1>9. CASE m.do \notin {"treePage", "worldPage", "tree", "world", "runtime", "viewportOn",
                        "runtimeOn", "networkOn"}
  <2>1. b = bridge BY <1>9 DEF Learnt
  <2> QED BY <2>1 DEF Believes, Lowers
<1> QED BY <1>2, <1>3, <1>4, <1>5, <1>6, <1>7, <1>8, <1>9

\* Types of what an answer teaches.
LEMMA LearntMemory ==
  ASSUME NEW b \in Memory, b.idle => b.attached, NEW s, NEW d \in 0 .. MaxDoc
  PROVE  Learnt(b, s, d) \in Memory /\ (Learnt(b, s, d).idle => Learnt(b, s, d).attached)
<1>1. CASE s \in {"treePage", "worldPage"} BY <1>1 DEF Learnt, Memory
<1>2. CASE s = "tree" BY <1>2 DEF Learnt, Memory
<1>3. CASE s = "world" BY <1>3 DEF Learnt, Memory
<1>4. CASE s = "runtime" BY <1>4 DEF Learnt, Memory
<1>5. CASE s = "viewportOn" BY <1>5 DEF Learnt, Memory
<1>6. CASE s = "runtimeOn" BY <1>6 DEF Learnt, Memory
<1>7. CASE s = "networkOn" BY <1>7 DEF Learnt, Memory
<1>8. CASE s \notin {"treePage", "worldPage", "tree", "world", "runtime", "viewportOn",
                     "runtimeOn", "networkOn"}
  BY <1>8 DEF Learnt
<1> QED BY <1>1, <1>2, <1>3, <1>4, <1>5, <1>6, <1>7, <1>8

\* A call that ends proceeds, and its memory only lowers.
LEMMA EndMoves ==
  ASSUME BridgeTypeOK, NEW c \in Call, NEW b \in Memory, b.idle => b.attached, End(b, c)
  PROVE  Lowers(bridge', b) /\ Proceeds(c, {})
<1>1. Go(b, c, "none", "end") BY DEF Go
<1>2. Lowers(bridge', b) /\ Proceeds(c, {"end"}) BY <1>1, GoMoves
<1>3. "end" \notin Stops BY DEF Stops
<1> QED BY <1>2, <1>3, MovesWithoutStop

\* The call answered goes on, or asks whether the debugger is its own.
LEMMA AttachedMoves ==
  ASSUME BridgeInv, NEW m \in Messages, m.by \in Call, m.do \in {"attach", "probe"},
         AwaitsIn(calls[m.by], m.do), Attached(m.by, m)
  PROVE  Believes(m) /\ Proceeds(m.by, {})
<1> DEFINE c == m.by
<1>1. /\ BridgeTypeOK /\ bridge \in Memory /\ (bridge.idle => bridge.attached)
      /\ calls \in [Call -> CallState]
  BY BridgeTypes DEF BridgeInv, MemoryIsTrue
<1>2. calls[c].at \in {"attaching", "probing"} \/ calls[c].step \in {"attach", "probe"}
  BY DEF AwaitsIn
<1>3. Occupied(calls[c]) /\ calls[c] \in CallState BY <1>1 DEF BridgeInv, CallsInStep
<1>4. /\ calls[c].step \in Steps /\ calls[c].step \notin Disabling
      /\ calls[c].at \in {"attaching", "probing"} /\ calls[c].kind \in workload \cup {"none"}
  BY <1>2, <1>3 DEF Occupied, CallState, Steps
<1> HIDE DEF c
<1>5. CASE m.ok /\ Go(markAttached(bridge), c, calls[c].kind, calls[c].step)
  <2> DEFINE b == markAttached(bridge)
  <2>1. /\ b \in Memory /\ (b.idle => b.attached) /\ b.page = bridge.page
        /\ b.runtime = bridge.runtime /\ b.console = bridge.console /\ b.network = bridge.network
    BY <1>1 DEF markAttached, resetIdleTimer, Memory
  <2>2. Go(b, c, calls[c].kind, calls[c].step) BY <1>5
  <2> HIDE DEF b
  <2>3. Lowers(bridge', b) /\ Proceeds(c, {calls[c].step}) BY <1>1, <1>4, <2>1, <2>2, GoMoves DEF c
  <2>4. Proceeds(c, {}) BY <1>4, <2>3, MovesWithoutStop DEF Disabling
  <2>5. m.ok = TRUE BY <1>5 DEF Messages
  <2>6. Tells(m, {"attach", "probe"}) BY <2>5 DEF Tells
  <2>7. Believes(m) BY <2>1, <2>3, <2>6 DEF Believes, Lowers
  <2> QED BY <2>4, <2>7 DEF c
<1>6. CASE /\ ~m.ok /\ m.do = "attach" /\ calls' = [calls EXCEPT ![c].at = "probing"]
           /\ queue' = Append(queue, Request(c, "probe")) /\ UNCHANGED bridge
  <2> DEFINE v == [calls[c] EXCEPT !.at = "probing"]
  <2>1. v \in CallState BY <1>3 DEF CallState, c
  <2>2. v.at = "probing" /\ v.step = calls[c].step BY <1>3 DEF CallState, c
  <2>3. calls' = [calls EXCEPT ![c] = v] BY <1>1, <1>6 DEF c
  <2> HIDE DEF v
  <2>4. AwaitsIn(v, "probe") /\ Occupied(v)
    BY <1>3, <1>4, <2>2 DEF AwaitsIn, Occupied, c
  <2>5. AsksFor(c, "probe") BY <1>6, <2>1, <2>3, <2>4 DEF AsksFor
  <2>6. "probe" \in Asked /\ "probe" \notin Stops BY DEF Asked, Stops
  <2>7. Proceeds(c, {}) BY <2>5, <2>6 DEF Proceeds
  <2>8. Believes(m) BY <1>1, <1>6 DEF Believes
  <2> QED BY <2>7, <2>8 DEF c
<1>7. CASE ~m.ok /\ m.do = "probe" /\ End(bridge, c)
  <2>1. Lowers(bridge', bridge) /\ Proceeds(c, {}) BY <1>1, <1>7, EndMoves DEF c
  <2>2. Believes(m) BY <2>1 DEF Lowers, Believes
  <2> QED BY <2>1, <2>2 DEF c
<1> QED BY <1>5, <1>6, <1>7 DEF Attached, c

\* An answer, other than to an attachment, makes the worker believe what it says.
LEMMA AnsweredMoves ==
  ASSUME BridgeInv, NEW m \in Messages, m.by \in Call, m.do \notin {"attach", "probe"},
         AwaitsIn(calls[m.by], m.do), Answered(m.by, m)
  PROVE  /\ Believes(m) /\ Proceeds(m.by, {})
         /\ m.do = "detach" => Forgets
<1> DEFINE c == m.by
<1>1. /\ BridgeTypeOK /\ bridge \in Memory /\ (bridge.idle => bridge.attached)
      /\ calls \in [Call -> CallState]
  BY BridgeTypes DEF BridgeInv, MemoryIsTrue
<1>2. calls[c].at = "sent" /\ calls[c].step = m.do BY DEF AwaitsIn
<1>3. Occupied(calls[c]) /\ calls[c] \in CallState BY <1>1 DEF BridgeInv, CallsInStep
<1>4. /\ m.do \in Steps /\ calls[c].kind \in workload \cup {"none"} /\ m.doc \in 0 .. MaxDoc
  BY <1>2, <1>3 DEF Occupied, CallState, Messages
<1>5. c \in Call OBVIOUS
<1> DEFINE k == calls[c].kind  b == Learnt(bridge, m.do, m.doc)  s == Following(b, k, m.do)
<1>6. b \in Memory /\ (b.idle => b.attached) BY <1>1, <1>4, LearntMemory
<1>7. \/ m.do = "detach" /\ End(cleanupDetachedTab(bridge), c)
      \/ m.do # "detach" /\ ~m.ok /\ End(bridge, c)
      \/ /\ m.ok /\ m.do = "tree"
         /\ calls' = [calls EXCEPT ![c].at = "navigating", ![c].tree = m.doc]
         /\ UNCHANGED <<bridge, queue>>
      \/ m.ok /\ m.do # "detach" /\ Go(b, c, k, s)
  BY <1>2 DEF Answered, GotTree
<1> HIDE DEF b
<1>8. s \in (Steps \cup {"end"}) \ (Disabling \cup {"detach"}) BY <1>4, <1>6, FollowingSteps
<1> HIDE DEF c, k, s
<1>9. CASE m.do = "detach" /\ End(cleanupDetachedTab(bridge), c)
  <2>1. End(Detached, c) BY <1>9 DEF cleanupDetachedTab
  <2>2. Lowers(bridge', Detached) /\ Proceeds(c, {}) BY <1>1, <1>5, <2>1, DetachedForgets, EndMoves
  <2>3. Forgets /\ Believes(m) BY <2>2, DetachedForgets DEF Lowers, Forgets, Believes
  <2> QED BY <2>2, <2>3 DEF c
<1>10. CASE m.do # "detach" /\ ~m.ok /\ End(bridge, c)
  <2>1. Lowers(bridge', bridge) /\ Proceeds(c, {}) BY <1>1, <1>5, <1>10, EndMoves
  <2>2. Believes(m) BY <2>1 DEF Lowers, Believes
  <2> QED BY <1>10, <2>1, <2>2 DEF c
<1>11. CASE /\ m.ok /\ m.do = "tree"
            /\ calls' = [calls EXCEPT ![c].at = "navigating", ![c].tree = m.doc]
            /\ UNCHANGED <<bridge, queue>>
  <2> DEFINE v == [calls[c] EXCEPT !.at = "navigating", !.tree = m.doc]
  <2>1. v \in CallState /\ v.at = "navigating" /\ v.step = calls[c].step
    BY <1>3, <1>4 DEF CallState, c
  <2>2. calls' = [calls EXCEPT ![c] = v] BY <1>1, <1>5, <1>11
  <2> HIDE DEF v
  <2>3. Occupied(v) BY <1>2, <1>4, <2>1 DEF Occupied, c
  <2>4. Rests(c) BY <1>11, <2>1, <2>2, <2>3 DEF Rests
  <2>5. Believes(m) BY <1>1, <1>11 DEF Believes
  <2> QED BY <1>11, <2>4, <2>5 DEF c, Proceeds
<1>12. CASE m.ok /\ m.do # "detach" /\ Go(b, c, k, s)
  <2>1. k \in workload \cup {"none"} BY <1>4 DEF k, c
  <2>2. Lowers(bridge', b) /\ Proceeds(c, {s}) BY <1>1, <1>5, <1>6, <1>8, <1>12, <2>1, GoMoves
  <2>3. s \notin Stops BY <1>8 DEF Disabling
  <2>4. Proceeds(c, {}) BY <2>2, <2>3, MovesWithoutStop
  <2>5. m.ok = TRUE BY <1>12 DEF Messages
  <2>6. Believes(m) BY <1>1, <2>2, <2>5, LearntBelieves DEF b
  <2> QED BY <1>12, <2>4, <2>6 DEF c
<1> QED BY <1>7, <1>9, <1>10, <1>11, <1>12

\* Whatever is delivered: a call moves without a stop or nothing does, the worker
\* believes what it did or was told, and after a loss it believes nothing.
LEMMA DeliverEffect ==
  ASSUME BridgeInv, Deliver, NEW m, m = Head(inbox)
  PROVE  /\ m \in Messages /\ Believes(m)
         /\ m.do \in Losses => Forgets
         /\ \/ UNCHANGED <<calls, queue>>
            \/ m.by \in Call /\ Proceeds(m.by, {})
<1>1. /\ BridgeTypeOK /\ bridge \in Memory /\ (bridge.idle => bridge.attached)
      /\ inbox \in Seq(Messages) /\ inbox # <<>>
  BY BridgeTypes DEF BridgeInv, MemoryIsTrue, Deliver
<1>2. /\ m \in Messages
      /\ m.do = "detach" => m.by # "late"
      /\ m.by = "chrome" <=> m.do \in EventNames
  <2>1. Proper(inbox) BY DEF BridgeInv, CallsInStep
  <2> QED BY <1>1, <2>1, ProperHead
<1>3. m.by \in Call => AwaitsIn(calls[m.by], m.do)
  <2>1. Len(inbox) \in Nat /\ Len(inbox) # 0 BY <1>1, LenProperties, EmptySeq
  <2>2. m = inbox[1] /\ 1 \in 1 .. Len(inbox) BY <1>1, <2>1
  <2> QED BY <2>2 DEF BridgeInv, CallsInStep, Matched, Awaited
<1>4. CASE m.by = "chrome" /\ bridge' = Happened(bridge, m) /\ UNCHANGED <<calls, queue>>
  BY <1>1, <1>2, <1>4, HappenedBelieves
<1>5. CASE m.by = "late" /\ bridge' = TooLate(bridge, m) /\ UNCHANGED <<calls, queue>>
  <2>1. CASE m.do = "viewportOn" /\ m.ok
    <3>1. bridge' = [bridge EXCEPT !.override = TRUE] BY <1>5, <2>1 DEF TooLate, Learnt
    <3> QED BY <1>1, <1>2, <1>5, <2>1, <3>1 DEF Believes, Memory, Losses
  <2>2. CASE ~(m.do = "viewportOn" /\ m.ok)
    <3>1. bridge' = bridge BY <1>5, <2>2 DEF TooLate
    <3>2. m.do \notin Losses BY <1>2, <1>5 DEF Losses, EventNames
    <3> QED BY <1>1, <1>2, <1>5, <3>1, <3>2 DEF Believes
  <2> QED BY <2>1, <2>2
<1>6. CASE m.by = "idle" /\ bridge' = cleanupDetachedTab(bridge) /\ UNCHANGED <<calls, queue>>
  BY <1>2, <1>6, DetachedForgets DEF cleanupDetachedTab, Believes, Forgets
<1>7. CASE m.by \in Call /\ m.do \in {"attach", "probe"} /\ Attached(m.by, m)
  <2>1. Believes(m) /\ Proceeds(m.by, {}) BY <1>2, <1>3, <1>7, AttachedMoves
  <2>2. m.do \notin Losses BY <1>7 DEF Losses
  <2> QED BY <1>2, <1>7, <2>1, <2>2
<1>8. CASE m.by \in Call /\ m.do \notin {"attach", "probe"} /\ Answered(m.by, m)
  <2>1. Believes(m) /\ Proceeds(m.by, {}) /\ (m.do = "detach" => Forgets)
    BY <1>2, <1>3, <1>8, AnsweredMoves
  <2>2. m.do \in Losses => m.do = "detach"
    BY <1>2, <1>8, BridgeAssumption DEF Losses, EventNames
  <2> QED BY <1>2, <1>8, <2>1, <2>2
<1> QED BY <1>4, <1>5, <1>6, <1>7, <1>8 DEF Deliver

\* Heard stays so when a message is taken.
LEMMA HeardTail ==
  ASSUME NEW x \in Seq(Messages), x # <<>>, NEW own, NEW dom, HeardIn(x, own, dom)
  PROVE  HeardIn(Tail(x), own, dom)
BY ToldTail DEF HeardIn

\* So does StopsIn.
LEMMA StopsTail ==
  ASSUME NEW q, NEW x \in Seq(Messages), x # <<>>, StopsIn(q, x)
  PROVE  StopsIn(q, Tail(x))
<1>1. /\ Clear(q, Tail(x), {"runtime", "runtimeOn"}, Asking("runtimeOff"))
      /\ Clear(q, Tail(x), {"networkOn"}, Asking("networkOff"))
  BY ClearTail DEF StopsIn
<1>2. /\ Behind(Tail(x), {"runtime", "runtimeOn"}, "runtimeOff")
      /\ Behind(Tail(x), {"networkOn"}, "networkOff")
  BY BehindTail DEF StopsIn
<1> QED BY <1>1, <1>2 DEF StopsIn

\* What the first message tells is so, or what takes it back is behind it.
LEMMA ToldHead ==
  ASSUME NEW x \in Seq(Messages), x # <<>>, NEW d, NEW on, NEW S, NEW U, Told(x, d, on, S, U),
         Tells(Head(x), S)
  PROVE  d \in on \/ IsIn(Tail(x), U)
<1>1. Len(x) \in Nat /\ Len(x) # 0 BY LenProperties, EmptySeq
<1>2. Len(Tail(x)) = Len(x) - 1 /\ \A i \in 1 .. Len(Tail(x)) : Tail(x)[i] = x[i + 1]
  BY HeadTailProperties
<1>3. Head(x) = x[1] /\ 1 \in 1 .. Len(x) BY <1>1
<1> SUFFICES ASSUME d \notin on PROVE IsIn(Tail(x), U) OBVIOUS
<1>4. PICK j \in 1 .. Len(x) : 1 < j /\ x[j].do \in U BY <1>3 DEF Told
<1>5. j - 1 \in 1 .. Len(Tail(x)) /\ (j - 1) + 1 = j BY <1>1, <1>2, <1>4
<1>6. Tail(x)[j - 1].do \in U BY <1>2, <1>4, <1>5
<1> QED BY <1>5, <1>6 DEF IsIn

\* An answer to a stop that is behind what the first message tells has been noted.
LEMMA BehindHead ==
  ASSUME NEW x \in Seq(Messages), x # <<>>, NEW S, NEW w, Behind(x, S, w), Tells(Head(x), S)
  PROVE  ~IsIn(Tail(x), {w})
<1>1. Len(x) \in Nat /\ Len(x) # 0 BY LenProperties, EmptySeq
<1>2. Len(Tail(x)) = Len(x) - 1 /\ \A i \in 1 .. Len(Tail(x)) : Tail(x)[i] = x[i + 1]
  BY HeadTailProperties
<1>3. Head(x) = x[1] /\ 1 \in 1 .. Len(x) BY <1>1
<1> SUFFICES ASSUME NEW i \in 1 .. Len(Tail(x)), Tail(x)[i].do = w PROVE FALSE BY DEF IsIn
<1>4. i + 1 \in 1 .. Len(x) /\ 1 < i + 1 BY <1>1, <1>2
<1> QED BY <1>2, <1>3, <1>4 DEF Behind

\* What is told at the head is asked against by nobody.
LEMMA ClearHead ==
  ASSUME NEW q, NEW x \in Seq(Messages), x # <<>>, NEW S, NEW W, Clear(q, x, S, W),
         Tells(Head(x), S)
  PROVE  ~Pending(q, W)
<1>1. Len(x) \in Nat /\ Len(x) # 0 BY LenProperties, EmptySeq
<1>2. Head(x) = x[1] /\ 1 \in 1 .. Len(x) BY <1>1
<1> QED BY <1>2 DEF Clear, Pending

\* While no stop is under way there is nothing for the stops to be alone with.
LEMMA NoStopsUnderWay ==
  ASSUME NEW q, NEW x, ~IsIn(q, Stops), ~IsIn(x, Stops)
  PROVE  StopsIn(q, x) /\ \A w \in Stops : ~Stopping(q, x, w)
<1>1. \A w \in Stops : ~Pending(q, Asking(w)) BY DEF IsIn, Pending, Asking
<1>2. \A w \in Stops : \A i \in 1 .. Len(x) : x[i].do # w BY DEF IsIn
<1>3. "runtimeOff" \in Stops /\ "networkOff" \in Stops BY DEF Stops
<1>4. StopsIn(q, x) BY <1>1, <1>2, <1>3 DEF StopsIn, Clear, Behind, Pending
<1>5. \A w \in Stops : ~Stopping(q, x, w) BY <1>1, <1>2 DEF Stopping, IsIn
<1> QED BY <1>4, <1>5

\* A message of Chrome arrives.
LEMMA DeliverKeeps ==
  ASSUME BridgeInv, Deliver
  PROVE  BridgeInv'
<1> DEFINE m == Head(inbox)  y == Tail(inbox)
<1>1. /\ BridgeTypeOK /\ bridge \in Memory /\ queue \in Seq(Requests)
      /\ inbox \in Seq(Messages) /\ inbox # <<>> /\ raced \in BOOLEAN
  BY BridgeTypes DEF BridgeInv, MemoryIsTrue, Deliver
<1>2. y \in Seq(Messages) BY <1>1, HeadTailProperties
<1>3. inbox' = y /\ UNCHANGED <<chromeVars, workload>> BY DEF Deliver
<1>4. raced' = (raced /\ (m.do \in Losses => IsIn(queue', Stops) \/ IsIn(inbox', Stops)))
  BY DEF Deliver
<1>5. /\ m \in Messages /\ Believes(m)
      /\ m.do \in Losses => Forgets
      /\ UNCHANGED <<calls, queue>> \/ (m.by \in Call /\ Proceeds(m.by, {}))
  BY DeliverEffect
<1>6. IsIn(inbox, Losses) <=> m.do \in Losses \/ IsIn(y, Losses) BY <1>1, IsInSteps
<1>7. Told(inbox, "us", {owner}, {"attach", "probe"}, Losses)
         /\ Told(inbox, "Page", domains, {"treePage", "worldPage"}, Losses)
  BY DEF BridgeInv, Heard, HeardIn
<1>8. Matched(queue, y, calls) /\ (m.by \in Call => NoneBy(queue, m.by) /\ NoneBy(y, m.by))
  BY <1>1, MatchedTail, AnsweredHasNone DEF BridgeInv, CallsInStep
<1>9. HeardIn(y, owner, domains) BY <1>1, HeardTail DEF BridgeInv, Heard
<1>10. Clear(queue, y, {"runtimeOn", "networkOn"}, IdleAsks)
  BY <1>1, ClearTail DEF BridgeInv, IdleAlone
<1>11. Proper(y) /\ Proper(queue) BY <1>1, ProperTail DEF BridgeInv, CallsInStep
<1>12. \A L : IsIn(y, L) => IsIn(inbox, L) BY <1>1, IsInSteps
<1>13. Tells(m, {"attach", "probe"}) => owner = "us" \/ IsIn(y, Losses)
  BY <1>1, <1>7, ToldHead
<1>14. Tells(m, {"treePage", "worldPage"}) => "Page" \in domains \/ IsIn(y, Losses)
  BY <1>1, <1>7, ToldHead
<1>15. Tells(m, {"runtime", "runtimeOn"})
         => /\ "Runtime" \in domains \/ IsIn(y, Losses) \/ raced
            /\ raced \/ ~Stopping(queue, y, "runtimeOff")
  <2>1. Tells(m, {"runtime", "runtimeOn"})
          => "Runtime" \in domains \/ IsIn(y, Losses \cup {"runtimeOff"})
    BY <1>1, ToldHead DEF BridgeInv, Heard, HeardIn
  <2>2. Tells(m, {"runtime", "runtimeOn"}) /\ ~raced
          => ~IsIn(y, {"runtimeOff"}) /\ ~Pending(queue, Asking("runtimeOff"))
    BY <1>1, BehindHead, ClearHead DEF BridgeInv, StopsAlone, StopsIn
  <2>3. IsIn(y, Losses \cup {"runtimeOff"}) => IsIn(y, Losses) \/ IsIn(y, {"runtimeOff"})
    BY DEF IsIn
  <2> QED BY <2>1, <2>2, <2>3 DEF Stopping
<1>16. Tells(m, {"networkOn"})
         => /\ "Network" \in domains \/ IsIn(y, Losses) \/ raced
            /\ raced \/ ~Stopping(queue, y, "networkOff")
  <2>1. Tells(m, {"networkOn"})
          => "Network" \in domains \/ IsIn(y, Losses \cup {"networkOff"})
    BY <1>1, ToldHead DEF BridgeInv, Heard, HeardIn
  <2>2. Tells(m, {"networkOn"}) /\ ~raced
          => ~IsIn(y, {"networkOff"}) /\ ~Pending(queue, Asking("networkOff"))
    BY <1>1, BehindHead, ClearHead DEF BridgeInv, StopsAlone, StopsIn
  <2>3. IsIn(y, Losses \cup {"networkOff"}) => IsIn(y, Losses) \/ IsIn(y, {"networkOff"})
    BY DEF IsIn
  <2> QED BY <2>1, <2>2, <2>3 DEF Stopping
<1>17. Tells(m, {"runtimeOn", "networkOn"}) => ~Pending(queue, IdleAsks)
  BY <1>1, ClearHead DEF BridgeInv, IdleAlone
<1>18. /\ Tells(m, {"runtime"}) \/ Tells(m, {"runtimeOn"}) => Tells(m, {"runtime", "runtimeOn"})
       /\ Tells(m, {"runtimeOn"}) \/ Tells(m, {"networkOn"}) => Tells(m, {"runtimeOn", "networkOn"})
  BY DEF Tells
<1>19. ~raced => StopsIn(queue, y) BY <1>1, StopsTail DEF BridgeInv, StopsAlone
<1> HIDE DEF m, y
<1>20. BridgeTypeOK'
  <2>1. raced' \in BOOLEAN BY <1>1, <1>4 DEF IsIn
  <2>2. Lowers(bridge', bridge') BY <1>5 DEF Believes, Lowers
  <2>3. CASE UNCHANGED <<calls, queue>>
    <3>1. CallState' = CallState BY <1>3 DEF CallState
    <3> QED BY <1>1, <1>2, <1>3, <1>5, <2>1, <2>3, <3>1, BridgeTypes, NextBridgeTypes
            DEF Believes, chromeVars
  <2>4. CASE m.by \in Call /\ Proceeds(m.by, {})
    BY <1>1, <1>2, <1>3, <2>1, <2>2, <2>4, MovesTypes
  <2> QED BY <1>5, <2>3, <2>4
<1>21. CallsInStep'
  <2>1. CASE UNCHANGED <<calls, queue>>
    BY <1>3, <1>8, <1>11, <2>1 DEF BridgeInv, CallsInStep
  <2>2. CASE m.by \in Call /\ Proceeds(m.by, {})
    <3>1. Matched(queue', y, calls') /\ Proper(queue') /\ \A d \in Call : Occupied(calls'[d])
      BY <1>1, <1>2, <1>8, <1>11, <2>2, MovesMatched DEF BridgeInv, CallsInStep
    <3> QED BY <1>3, <1>11, <3>1 DEF CallsInStep
  <2> QED BY <1>5, <2>1, <2>2
<1>22. Heard' BY <1>3, <1>9 DEF Heard, chromeVars
<1>23. AttachedIsOurs'
  <2>1. bridge'.attached => owner = "us" \/ IsIn(y, Losses)
    BY <1>5, <1>6, <1>13
       DEF Believes, Forgets, BridgeInv, MemoryIsTrue, AttachedIsOurs, LossUnderWay
  <2> QED BY <1>3, <2>1 DEF AttachedIsOurs, LossUnderWay, chromeVars
<1>24. EnabledAsRemembered'
  <2>1. CASE m.do \in Losses BY <1>5, <2>1 DEF EnabledAsRemembered, Forgets
  <2>2. CASE m.do \notin Losses
    <3>1. raced' = raced BY <1>1, <1>4, <2>2
    <3>2. bridge'.page => "Page" \in domains \/ IsIn(y, Losses)
      BY <1>5, <1>6, <1>14, <2>2
         DEF Believes, BridgeInv, MemoryIsTrue, EnabledAsRemembered, LossUnderWay
    <3>3. bridge'.console \/ bridge'.runtime => "Runtime" \in domains \/ IsIn(y, Losses) \/ raced
      BY <1>5, <1>6, <1>15, <1>18, <2>2
         DEF Believes, BridgeInv, MemoryIsTrue, EnabledAsRemembered, LossUnderWay
    <3>4. bridge'.network => "Network" \in domains \/ IsIn(y, Losses) \/ raced
      BY <1>5, <1>6, <1>16, <2>2
         DEF Believes, BridgeInv, MemoryIsTrue, EnabledAsRemembered, LossUnderWay
    <3> QED BY <1>3, <3>1, <3>2, <3>3, <3>4 DEF EnabledAsRemembered, LossUnderWay, chromeVars
  <2> QED BY <2>1, <2>2
<1>25. /\ ~raced => StopsIn(queue', y)
       /\ \A w \in Stops : Stopping(queue', y, w) => Stopping(queue, y, w)
       /\ Clear(queue', y, {"runtimeOn", "networkOn"}, IdleAsks)
       /\ Pending(queue', IdleAsks) => Pending(queue, IdleAsks)
  <2>1. CASE queue' = queue BY <1>10, <1>19, <2>1
  <2>2. ASSUME NEW r \in Requests, m.by \in Call, r.by = m.by, r.do \notin Stops,
               queue' = Append(queue, r)
        PROVE  <1>25!:
    <3>1. r.by \in Call BY <2>2
    <3>2. /\ StopsIn(queue, y) => StopsIn(Append(queue, r), y)
          /\ \A w \in Stops : Stopping(Append(queue, r), y, w) => Stopping(queue, y, w)
      BY <1>1, <2>2, AskKeepsStops
    <3>3. /\ Clear(Append(queue, r), y, {"runtimeOn", "networkOn"}, IdleAsks)
          /\ Pending(Append(queue, r), IdleAsks) => Pending(queue, IdleAsks)
      BY <1>1, <1>10, <3>1, AskKeepsIdle
    <3> QED BY <1>19, <2>2, <3>2, <3>3
  <2>3. CASE m.by \in Call /\ Proceeds(m.by, {})
    BY <2>1, <2>2, <2>3, MovesQueue
  <2> QED BY <1>5, <2>1, <2>3
<1>26. StopsAlone'
  <2> SUFFICES ASSUME ~raced' PROVE StopsAlone' BY DEF StopsAlone
  <2>1. CASE raced
    <3>1. m.do \in Losses /\ ~IsIn(queue', Stops) /\ ~IsIn(y, Stops) BY <1>3, <1>4, <2>1
    <3>2. StopsIn(queue', y) BY <3>1, NoStopsUnderWay
    <3> QED BY <1>3, <1>5, <3>1, <3>2 DEF StopsAlone, Forgets
  <2>2. CASE ~raced
    <3>1. "runtimeOff" \in Stops /\ "networkOff" \in Stops BY DEF Stops
    <3>2. \A w : Stopping(queue, y, w) => Stopping(queue, inbox, w) BY <1>12 DEF Stopping
    <3>3. Stopping(queue, y, "runtimeOff") => ~bridge'.runtime /\ ~bridge'.console
      BY <1>5, <1>15, <1>18, <2>2, <3>2 DEF Believes, BridgeInv, StopsAlone
    <3>4. Stopping(queue, y, "networkOff") => ~bridge'.network
      BY <1>5, <1>16, <2>2, <3>2 DEF Believes, BridgeInv, StopsAlone
    <3> QED BY <1>3, <1>25, <2>2, <3>1, <3>3, <3>4 DEF StopsAlone
  <2> QED BY <2>1, <2>2
<1>27. IdleAlone'
  <2>1. Pending(queue, IdleAsks) => ~bridge'.console /\ ~bridge'.network
    BY <1>5, <1>17, <1>18 DEF Believes, BridgeInv, IdleAlone
  <2> QED BY <1>3, <1>25, <2>1 DEF IdleAlone
<1> QED BY <1>20, <1>21, <1>22, <1>23, <1>24, <1>26, <1>27 DEF BridgeInv, MemoryIsTrue

----------------------------------------------------------------------------
(* What Chrome does *)

\* All that concerns what is under way, for a queue and an inbox to come.
UnderWay(q, x, cs, own, dom) ==
  /\ q \in Seq(Requests) /\ x \in Seq(Messages)
  /\ Matched(q, x, cs) /\ Proper(q) /\ Proper(x)
  /\ HeardIn(x, own, dom)
  /\ raced \/ StopsIn(q, x)
  /\ Clear(q, x, {"runtimeOn", "networkOn"}, IdleAsks)

\* An event that is no detachment disturbs nothing.
LEMMA EventKeeps ==
  ASSUME NEW q, NEW x, NEW cs, NEW own, NEW dom, UnderWay(q, x, cs, own, dom),
         NEW e \in Messages, e.by = "chrome", e.do \in EventNames, e.do # "onDetach"
  PROVE  /\ UnderWay(q, Append(x, e), cs, own, dom)
         /\ IsIn(Append(x, e), Losses) <=> IsIn(x, Losses)
         /\ \A w \in Stops : Stopping(q, Append(x, e), w) <=> Stopping(q, x, w)
<1> DEFINE y == Append(x, e)
<1>1. /\ x \in Seq(Messages) /\ e.by \notin Call
      /\ e.do \notin Losses \cup {"runtimeOff", "networkOff"} /\ e.do # "detach"
  BY BridgeAssumption DEF UnderWay, EventNames, Losses
<1>2. y \in Seq(Messages) BY <1>1, AppendProperties
<1>3. Matched(q, y, cs) BY <1>1, MatchedMore DEF UnderWay
<1>4. Proper(y) BY <1>1, ProperMore DEF UnderWay
<1>5. \A S : ~Tells(e, S) BY <1>1 DEF Tells
<1>6. HeardIn(y, own, dom) BY <1>1, <1>5, ToldMore DEF UnderWay, HeardIn
<1>7. ASSUME StopsIn(q, x) PROVE StopsIn(q, y)
  <2>1. /\ Clear(q, y, {"runtime", "runtimeOn"}, Asking("runtimeOff"))
        /\ Clear(q, y, {"networkOn"}, Asking("networkOff"))
    BY <1>1, <1>5, <1>7, ClearMore DEF StopsIn
  <2>2. /\ Behind(y, {"runtime", "runtimeOn"}, "runtimeOff")
        /\ Behind(y, {"networkOn"}, "networkOff")
    BY <1>1, <1>7, BehindMore DEF StopsIn
  <2> QED BY <2>1, <2>2 DEF StopsIn
<1>8. Clear(q, y, {"runtimeOn", "networkOn"}, IdleAsks) BY <1>1, <1>5, ClearMore DEF UnderWay
<1>9. IsIn(y, Losses) <=> IsIn(x, Losses) BY <1>1, IsInSteps
<1>10. \A w \in Stops : IsIn(y, {w}) <=> IsIn(x, {w}) BY <1>1, IsInSteps DEF Stops
<1>11. \A w \in Stops : Stopping(q, y, w) <=> Stopping(q, x, w) BY <1>10 DEF Stopping
<1> QED BY <1>2, <1>3, <1>4, <1>6, <1>7, <1>8, <1>9, <1>11 DEF UnderWay

\* What the invariant says of the queues, in one name.
LEMMA InvIsUnderWay ==
  ASSUME BridgeInv
  PROVE  UnderWay(queue, inbox, calls, owner, domains)
BY BridgeTypes DEF BridgeInv, MemoryIsTrue, UnderWay, CallsInStep, Heard, StopsAlone, IdleAlone

\* What Chrome leaves to show: the worker's memory and calls are as they were.
LEMMA ChromeKeeps ==
  ASSUME BridgeInv, UNCHANGED <<bridge, calls, raced, workload>>,
         UnderWay(queue', inbox', calls, owner', domains'),
         owner' \in {"none", "us", "other"}, doc' \in 1 .. MaxDoc,
         domains' \subseteq {"Page", "Runtime", "Network", "Emulation"},
         IsIn(inbox, Losses) => IsIn(inbox', Losses),
         \A w \in Stops : Stopping(queue', inbox', w) => Stopping(queue, inbox, w),
         Pending(queue', IdleAsks) => Pending(queue, IdleAsks),
         owner = "us" => owner' = "us" \/ IsIn(inbox', Losses),
         "Page" \in domains => "Page" \in domains' \/ IsIn(inbox', Losses),
         "Runtime" \in domains => \/ "Runtime" \in domains' \/ IsIn(inbox', Losses)
                                  \/ Stopping(queue, inbox, "runtimeOff"),
         "Network" \in domains => \/ "Network" \in domains' \/ IsIn(inbox', Losses)
                                  \/ Stopping(queue, inbox, "networkOff")
  PROVE  BridgeInv'
<1>1. BridgeTypeOK /\ CallState' = CallState BY DEF BridgeInv, MemoryIsTrue, CallState
<1>2. BridgeTypeOK' BY <1>1, BridgeTypes, NextBridgeTypes DEF UnderWay
<1>3. CallsInStep' BY DEF BridgeInv, CallsInStep, UnderWay
<1>4. Heard' BY DEF Heard, UnderWay
<1>5. "runtimeOff" \in Stops /\ "networkOff" \in Stops BY DEF Stops
<1>6. StopsAlone' BY <1>5 DEF BridgeInv, StopsAlone, UnderWay
<1>7. IdleAlone' BY DEF BridgeInv, IdleAlone, UnderWay
<1>8. AttachedIsOurs' BY DEF BridgeInv, MemoryIsTrue, AttachedIsOurs, LossUnderWay
<1>9. EnabledAsRemembered'
  BY DEF BridgeInv, MemoryIsTrue, EnabledAsRemembered, LossUnderWay, StopsAlone
<1> QED BY <1>2, <1>3, <1>4, <1>6, <1>7, <1>8, <1>9 DEF BridgeInv, MemoryIsTrue

\* Chrome takes a request and the answer takes its place.
LEMMA AnswerUnderWay ==
  ASSUME BridgeInv, queue # <<>>, NEW m \in Messages, m.by = Head(queue).by,
         m.do = Head(queue).do, NEW own, NEW dom,
         owner = "us" => own = "us" \/ m.do = "detach",
         "Page" \in domains => "Page" \in dom \/ m.do = "detach",
         "Runtime" \in domains => "Runtime" \in dom \/ m.do \in {"detach", "runtimeOff"},
         "Network" \in domains => "Network" \in dom \/ m.do \in {"detach", "networkOff"},
         Tells(m, {"attach", "probe"}) => own = "us",
         Tells(m, {"treePage", "worldPage"}) => "Page" \in dom,
         Tells(m, {"runtime", "runtimeOn"}) => "Runtime" \in dom,
         Tells(m, {"networkOn"}) => "Network" \in dom
  PROVE  /\ UnderWay(Tail(queue), Append(inbox, m), calls, own, dom)
         /\ IsIn(Append(inbox, m), Losses) <=> IsIn(inbox, Losses) \/ m.do = "detach"
         /\ \A w \in Stops : Stopping(Tail(queue), Append(inbox, m), w) => Stopping(queue, inbox, w)
         /\ Pending(Tail(queue), IdleAsks) => Pending(queue, IdleAsks)
         /\ \A w \in Stops : m.do = w => Stopping(queue, inbox, w)
<1> DEFINE x == Append(inbox, m)  q == Tail(queue)
<1>1. /\ UnderWay(queue, inbox, calls, owner, domains)
      /\ queue \in Seq(Requests) /\ inbox \in Seq(Messages)
  BY InvIsUnderWay DEF UnderWay
<1>2. x \in Seq(Messages) /\ q \in Seq(Requests) BY <1>1, AppendProperties, HeadTailProperties
<1>3. Head(queue) \in Requests /\ Head(queue).do = "detach" => Head(queue).by # "late"
  BY <1>1, ProperHead DEF UnderWay
<1>4. Head(queue) \in Requests BY <1>1, HeadTailProperties
<1>5. /\ m.do \in Asked /\ m.do \notin EventNames /\ m.by # "chrome"
      /\ m.do \in Losses <=> m.do = "detach"
  BY <1>4, BridgeAssumption DEF Requests, Asked, Steps, EventNames, Senders, Losses
<1>6. Matched(q, x, calls)
  <2>1. m.by \in Call => NoneBy(q, m.by) /\ NoneBy(inbox, m.by) /\ AwaitsIn(calls[m.by], m.do)
    BY <1>1, TakenHasNone DEF UnderWay
  <2>2. Matched(q, inbox, calls) BY <1>1, MatchedHang DEF UnderWay
  <2> QED BY <1>1, <2>1, <2>2, MatchedMore
<1>7. Proper(q) /\ Proper(x)
  <2>1. m.do = "detach" => m.by # "late" BY <1>3, <1>4
  <2>2. Proper(x) BY <1>1, <1>5, <2>1, ProperMore DEF UnderWay
  <2>3. Proper(q) BY <1>1, ProperTail DEF UnderWay
  <2> QED BY <2>2, <2>3
<1>8. HeardIn(x, own, dom)
  <2>1. Told(x, "us", {own}, {"attach", "probe"}, Losses)
    BY <1>1, <1>5, ToldMore DEF UnderWay, HeardIn
  <2>2. Told(x, "Page", dom, {"treePage", "worldPage"}, Losses)
    BY <1>1, <1>5, ToldMore DEF UnderWay, HeardIn
  <2>3. Told(x, "Runtime", dom, {"runtime", "runtimeOn"}, Losses \cup {"runtimeOff"})
    BY <1>1, <1>5, ToldMore DEF UnderWay, HeardIn
  <2>4. Told(x, "Network", dom, {"networkOn"}, Losses \cup {"networkOff"})
    BY <1>1, <1>5, ToldMore DEF UnderWay, HeardIn
  <2> QED BY <2>1, <2>2, <2>3, <2>4 DEF HeardIn
<1>9. \A w \in Stops : m.do = w => Pending(queue, Asking(w))
  <2>1. \A w : m.do = w => Head(queue) \in Asking(w) BY <1>4 DEF Requests, Asking
  <2> QED BY <1>1, <2>1, PendingSteps
<1>10. ASSUME ~raced PROVE StopsIn(q, x)
  <2>1. StopsIn(queue, inbox) BY <1>1, <1>10 DEF UnderWay
  <2>2. /\ Clear(q, x, {"runtime", "runtimeOn"}, Asking("runtimeOff"))
        /\ Clear(q, x, {"networkOn"}, Asking("networkOff"))
    BY <1>1, <2>1, ClearAnswer DEF StopsIn
  <2>3. "runtimeOff" \in Stops /\ "networkOff" \in Stops BY DEF Stops
  <2>4. m.do = "runtimeOff"
          => \A j \in 1 .. Len(inbox) : ~Tells(inbox[j], {"runtime", "runtimeOn"})
    BY <1>9, <2>1, <2>3 DEF StopsIn, Clear, Pending
  <2>5. m.do = "networkOff" => \A j \in 1 .. Len(inbox) : ~Tells(inbox[j], {"networkOn"})
    BY <1>9, <2>1, <2>3 DEF StopsIn, Clear, Pending
  <2>6. Behind(x, {"runtime", "runtimeOn"}, "runtimeOff") BY <1>1, <2>1, <2>4, BehindMore DEF StopsIn
  <2>7. Behind(x, {"networkOn"}, "networkOff") BY <1>1, <2>1, <2>5, BehindMore DEF StopsIn
  <2> QED BY <2>2, <2>6, <2>7 DEF StopsIn
<1>11. Clear(q, x, {"runtimeOn", "networkOn"}, IdleAsks) BY <1>1, ClearAnswer DEF UnderWay
<1>12. IsIn(x, Losses) <=> IsIn(inbox, Losses) \/ m.do = "detach" BY <1>1, <1>5, IsInSteps
<1>13. \A w \in Stops : Stopping(q, x, w) => Stopping(queue, inbox, w)
  <2>1. \A w \in Stops : IsIn(x, {w}) => IsIn(inbox, {w}) \/ m.do = w BY <1>1, IsInSteps
  <2>2. \A w \in Stops : Pending(q, Asking(w)) => Pending(queue, Asking(w)) BY <1>1, PendingSteps
  <2> QED BY <1>9, <2>1, <2>2 DEF Stopping
<1>14. Pending(q, IdleAsks) => Pending(queue, IdleAsks) BY <1>1, PendingSteps
<1>15. UnderWay(q, x, calls, own, dom)
  BY <1>2, <1>6, <1>7, <1>8, <1>10, <1>11 DEF UnderWay
<1> QED BY <1>9, <1>12, <1>13, <1>14, <1>15 DEF Stopping

\* Chrome answers the first request.
LEMMA ChromeAnswersKeeps ==
  ASSUME BridgeInv, ChromeAnswers
  PROVE  BridgeInv'
<1> DEFINE r == Head(queue)
           Reply(ok) == Answer(r.by, r.do, ok, IF ok THEN doc ELSE NoDoc)
<1>1. /\ BridgeTypeOK /\ queue \in Seq(Requests) /\ inbox \in Seq(Messages) /\ queue # <<>>
      /\ doc \in 1 .. MaxDoc /\ MaxDoc \in Nat /\ owner \in {"none", "us", "other"}
      /\ domains \subseteq {"Page", "Runtime", "Network", "Emulation"}
  BY BridgeTypes, BridgeAssumption DEF BridgeInv, MemoryIsTrue, ChromeAnswers
<1>2. r \in Requests BY <1>1, HeadTailProperties
<1>3. queue' = Tail(queue) /\ UNCHANGED <<bridge, calls, doc, raced, workload>> BY DEF ChromeAnswers
<1>4. \A ok \in BOOLEAN : /\ Reply(ok) \in Messages /\ Reply(ok).by = r.by
                          /\ Reply(ok).do = r.do /\ Reply(ok).ok = ok
  BY <1>1, <1>2 DEF Answer, Messages, Requests, NoDoc
<1>5. \/ /\ r.do = "attach" /\ inbox' = Append(inbox, Reply(owner = "none"))
         /\ owner' = (IF owner = "none" THEN "us" ELSE owner) /\ domains' = domains
      \/ /\ r.do = "detach" /\ inbox' = Append(inbox, Reply(owner = "us"))
         /\ owner' = (IF owner = "us" THEN "none" ELSE owner) /\ domains' = {}
      \/ /\ r.do \notin {"attach", "detach"} /\ owner = "us"
         /\ inbox' = Replayed(Append(inbox, Reply(TRUE)), r.do)
         /\ domains' = (domains \cup Enables(r.do)) \ Disables(r.do) /\ owner' = owner
      \/ /\ r.do \notin {"attach", "detach"} /\ owner # "us"
         /\ inbox' = Append(inbox, Reply(FALSE)) /\ owner' = owner /\ domains' = domains
  BY DEF ChromeAnswers
<1>6. "runtimeOff" \in Stops /\ "networkOff" \in Stops BY DEF Stops
<1> HIDE DEF Reply, r
<1>7. ASSUME NEW m \in Messages, m.by = r.by, m.do = r.do, inbox' = Append(inbox, m),
             owner' \in {"none", "us", "other"},
             domains' \subseteq {"Page", "Runtime", "Network", "Emulation"},
             owner = "us" => owner' = "us" \/ m.do = "detach",
             "Page" \in domains => "Page" \in domains' \/ m.do = "detach",
             "Runtime" \in domains => "Runtime" \in domains' \/ m.do \in {"detach", "runtimeOff"},
             "Network" \in domains => "Network" \in domains' \/ m.do \in {"detach", "networkOff"},
             Tells(m, {"attach", "probe"}) => owner' = "us",
             Tells(m, {"treePage", "worldPage"}) => "Page" \in domains',
             Tells(m, {"runtime", "runtimeOn"}) => "Runtime" \in domains',
             Tells(m, {"networkOn"}) => "Network" \in domains'
      PROVE  BridgeInv'
  <2> DEFINE own == owner'  dom == domains'
  <2>1. /\ UnderWay(Tail(queue), Append(inbox, m), calls, own, dom)
        /\ IsIn(Append(inbox, m), Losses) <=> IsIn(inbox, Losses) \/ m.do = "detach"
        /\ \A w \in Stops : Stopping(Tail(queue), Append(inbox, m), w) => Stopping(queue, inbox, w)
        /\ Pending(Tail(queue), IdleAsks) => Pending(queue, IdleAsks)
        /\ \A w \in Stops : m.do = w => Stopping(queue, inbox, w)
    <3> HIDE DEF own, dom
    <3>1. /\ owner = "us" => own = "us" \/ m.do = "detach"
          /\ "Page" \in domains => "Page" \in dom \/ m.do = "detach"
          /\ "Runtime" \in domains => "Runtime" \in dom \/ m.do \in {"detach", "runtimeOff"}
          /\ "Network" \in domains => "Network" \in dom \/ m.do \in {"detach", "networkOff"}
          /\ Tells(m, {"attach", "probe"}) => own = "us"
          /\ Tells(m, {"treePage", "worldPage"}) => "Page" \in dom
          /\ Tells(m, {"runtime", "runtimeOn"}) => "Runtime" \in dom
          /\ Tells(m, {"networkOn"}) => "Network" \in dom
      BY <1>7 DEF own, dom
    <3> QED BY <1>1, <1>7, <3>1, AnswerUnderWay DEF r
  <2> QED BY <1>1, <1>3, <1>6, <1>7, <2>1, ChromeKeeps
<1>8. CASE /\ r.do = "attach" /\ inbox' = Append(inbox, Reply(owner = "none"))
           /\ owner' = (IF owner = "none" THEN "us" ELSE owner) /\ domains' = domains
  <2>1. PICK m \in Messages : /\ m.by = r.by /\ m.do = r.do /\ (m.ok = TRUE => owner = "none")
                              /\ inbox' = Append(inbox, m)
    BY <1>4, <1>8
  <2> QED BY <1>1, <1>7, <1>8, <2>1 DEF Tells
<1>9. CASE /\ r.do = "detach" /\ inbox' = Append(inbox, Reply(owner = "us"))
           /\ owner' = (IF owner = "us" THEN "none" ELSE owner) /\ domains' = {}
  <2>1. PICK m \in Messages : m.by = r.by /\ m.do = r.do /\ inbox' = Append(inbox, m)
    BY <1>4, <1>9
  <2> QED BY <1>1, <1>7, <1>9, <2>1 DEF Tells
<1>10. CASE /\ r.do \notin {"attach", "detach"} /\ owner # "us"
            /\ inbox' = Append(inbox, Reply(FALSE)) /\ owner' = owner /\ domains' = domains
  <2>1. PICK m \in Messages : /\ m.by = r.by /\ m.do = r.do /\ m.ok = FALSE
                              /\ inbox' = Append(inbox, m)
    BY <1>4, <1>10
  <2> QED BY <1>1, <1>7, <1>10, <2>1 DEF Tells
<1>11. CASE /\ r.do \notin {"attach", "detach"} /\ owner = "us"
            /\ inbox' = Replayed(Append(inbox, Reply(TRUE)), r.do)
            /\ domains' = (domains \cup Enables(r.do)) \ Disables(r.do) /\ owner' = owner
  <2> DEFINE m == Reply(TRUE)  e == Event("created", doc)
             own == owner'  dom == domains'
  <2>1. m \in Messages /\ m.by = r.by /\ m.do = r.do BY <1>4
  <2>2. e \in Messages /\ e.by = "chrome" /\ e.do \in EventNames /\ e.do # "onDetach"
    BY <1>1 DEF Event, Answer, Messages, Senders, EventNames
  <2>3. /\ domains' \subseteq {"Page", "Runtime", "Network", "Emulation"}
        /\ "Page" \in domains => "Page" \in dom
        /\ "Runtime" \in domains => "Runtime" \in dom \/ r.do = "runtimeOff"
        /\ "Network" \in domains => "Network" \in dom \/ r.do = "networkOff"
        /\ r.do \in {"treePage", "worldPage"} => "Page" \in dom
        /\ r.do \in {"runtime", "runtimeOn"} => "Runtime" \in dom
        /\ r.do = "networkOn" => "Network" \in dom
    BY <1>1, <1>11 DEF Enables, Disables
  <2>4. inbox' = Append(inbox, m) \/ inbox' = Append(Append(inbox, m), e)
    BY <1>11 DEF Replayed
  <2>5. own = "us" BY <1>11
  <2> HIDE DEF m, e
  <2>6. CASE inbox' = Append(inbox, m)
    BY <1>1, <1>7, <1>11, <2>1, <2>3, <2>6 DEF Tells
  <2>7. CASE inbox' = Append(Append(inbox, m), e)
    <3>1. domains' = dom /\ owner' = own OBVIOUS
    <3> HIDE DEF own, dom
    <3>2. /\ UnderWay(Tail(queue), Append(inbox, m), calls, own, dom)
          /\ IsIn(Append(inbox, m), Losses) <=> IsIn(inbox, Losses) \/ m.do = "detach"
          /\ \A w \in Stops : Stopping(Tail(queue), Append(inbox, m), w) => Stopping(queue, inbox, w)
          /\ Pending(Tail(queue), IdleAsks) => Pending(queue, IdleAsks)
          /\ \A w \in Stops : m.do = w => Stopping(queue, inbox, w)
      <4>1. /\ Tells(m, {"attach", "probe"}) => own = "us"
            /\ Tells(m, {"treePage", "worldPage"}) => "Page" \in dom
            /\ Tells(m, {"runtime", "runtimeOn"}) => "Runtime" \in dom
            /\ Tells(m, {"networkOn"}) => "Network" \in dom
        BY <2>1, <2>3, <2>5 DEF Tells
      <4> QED BY <1>1, <2>1, <2>3, <2>5, <4>1, AnswerUnderWay DEF r
    <3>3. /\ UnderWay(Tail(queue), Append(Append(inbox, m), e), calls, own, dom)
          /\ IsIn(Append(Append(inbox, m), e), Losses) <=> IsIn(Append(inbox, m), Losses)
          /\ \A w \in Stops : Stopping(Tail(queue), Append(Append(inbox, m), e), w)
                                <=> Stopping(Tail(queue), Append(inbox, m), w)
      BY <2>2, <3>2, EventKeeps
    <3>4. /\ UnderWay(queue', inbox', calls, owner', domains')
          /\ IsIn(inbox, Losses) => IsIn(inbox', Losses)
          /\ \A w \in Stops : Stopping(queue', inbox', w) => Stopping(queue, inbox, w)
          /\ Pending(queue', IdleAsks) => Pending(queue, IdleAsks)
      BY <1>3, <2>7, <3>1, <3>2, <3>3
    <3>5. /\ "Runtime" \in domains => "Runtime" \in domains' \/ Stopping(queue, inbox, "runtimeOff")
          /\ "Network" \in domains => "Network" \in domains' \/ Stopping(queue, inbox, "networkOff")
          /\ "Page" \in domains => "Page" \in domains'
          /\ owner' = "us" /\ owner' \in {"none", "us", "other"} /\ doc' \in 1 .. MaxDoc
      BY <1>1, <1>3, <1>6, <2>1, <2>3, <2>5, <3>1, <3>2
    <3> QED BY <1>3, <2>3, <3>4, <3>5, ChromeKeeps
  <2> QED BY <2>4, <2>6, <2>7
<1> QED BY <1>5, <1>8, <1>9, <1>10, <1>11

\* Chrome does not answer it.
LEMMA ChromeHangsKeeps ==
  ASSUME BridgeInv, ChromeHangs
  PROVE  BridgeInv'
<1> DEFINE q == Tail(queue)
<1>1. /\ UnderWay(queue, inbox, calls, owner, domains) /\ queue # <<>> /\ queue' = q
      /\ queue \in Seq(Requests) /\ owner \in {"none", "us", "other"} /\ doc \in 1 .. MaxDoc
      /\ domains \subseteq {"Page", "Runtime", "Network", "Emulation"}
      /\ UNCHANGED <<bridge, calls, inbox, chromeVars, raced, workload>>
  BY InvIsUnderWay, BridgeTypes DEF BridgeInv, MemoryIsTrue, ChromeHangs
<1>2. q \in Seq(Requests) BY <1>1, HeadTailProperties
<1>3. Matched(q, inbox, calls) BY <1>1, MatchedHang DEF UnderWay
<1>4. Proper(q) BY <1>1, ProperTail DEF UnderWay
<1>5. StopsIn(queue, inbox) => StopsIn(q, inbox) BY <1>1, ClearHang DEF StopsIn
<1>6. Clear(q, inbox, {"runtimeOn", "networkOn"}, IdleAsks) BY <1>1, ClearHang DEF UnderWay
<1>7. \A W : Pending(q, W) => Pending(queue, W) BY <1>1, PendingSteps
<1>8. UnderWay(q, inbox, calls, owner, domains)
  BY <1>1, <1>2, <1>3, <1>4, <1>5, <1>6 DEF UnderWay
<1>9. \A w : Stopping(q, inbox, w) => Stopping(queue, inbox, w) BY <1>7 DEF Stopping
<1> HIDE DEF q
<1> QED BY <1>1, <1>7, <1>8, <1>9, ChromeKeeps DEF chromeVars

\* The tab navigates.
LEMMA NavigateKeeps ==
  ASSUME BridgeInv, Navigate
  PROVE  BridgeInv'
<1>1. /\ UnderWay(queue, inbox, calls, owner, domains) /\ owner \in {"none", "us", "other"}
      /\ doc \in 1 .. MaxDoc /\ doc < MaxDoc /\ MaxDoc \in Nat /\ doc' = doc + 1
      /\ domains \subseteq {"Page", "Runtime", "Network", "Emulation"}
      /\ UNCHANGED <<bridge, calls, queue, owner, domains, raced, workload>>
  BY InvIsUnderWay, BridgeTypes, BridgeAssumption DEF BridgeInv, MemoryIsTrue, Navigate
<1> DEFINE created == Event("created", doc + 1)  navigated == Event("navigated", NoDoc)
           Follows(x) == /\ UnderWay(queue, x, calls, owner, domains)
                         /\ IsIn(x, Losses) <=> IsIn(inbox, Losses)
                         /\ \A w \in Stops : Stopping(queue, x, w) <=> Stopping(queue, inbox, w)
           Plain(e) == e \in Messages /\ e.by = "chrome" /\ e.do \in EventNames /\ e.do # "onDetach"
<1>2. PICK gone \in {Event("cleared", NoDoc), Event("destroyed", doc)} :
        LET said == IF "Runtime" \in domains
                    THEN Append(Append(inbox, gone), created) ELSE inbox
        IN inbox' = IF "Page" \in domains THEN Append(said, navigated) ELSE said
  BY DEF Navigate
<1>3. Plain(gone) /\ Plain(created) /\ Plain(navigated)
  <2>1. doc + 1 \in 0 .. MaxDoc /\ doc \in 0 .. MaxDoc /\ 0 \in 0 .. MaxDoc BY <1>1
  <2>2. gone \in {Event("cleared", NoDoc), Event("destroyed", doc)} BY <1>2
  <2>3. Plain(Event("cleared", NoDoc)) /\ Plain(Event("destroyed", doc))
    BY <2>1 DEF Event, Answer, Messages, Senders, EventNames, NoDoc
  <2>4. Plain(created) /\ Plain(navigated)
    BY <2>1 DEF Event, Answer, Messages, Senders, EventNames, NoDoc
  <2> QED BY <2>2, <2>3, <2>4
<1> HIDE DEF created, navigated
<1>4. ASSUME NEW x, NEW e, Follows(x), Plain(e) PROVE Follows(Append(x, e))
  BY <1>4, EventKeeps
<1>5. Follows(inbox) BY <1>1
<1> HIDE DEF Follows, Plain
<1> DEFINE said == IF "Runtime" \in domains THEN Append(Append(inbox, gone), created) ELSE inbox
<1>6. Follows(said) BY <1>3, <1>4, <1>5
<1>7. inbox' = said \/ inbox' = Append(said, navigated) BY <1>2
<1> HIDE DEF said
<1> DEFINE y == inbox'
<1>8. Follows(y) BY <1>3, <1>4, <1>6, <1>7
<1> USE DEF Follows
<1>9. /\ UnderWay(queue, y, calls, owner, domains)
      /\ IsIn(y, Losses) <=> IsIn(inbox, Losses)
      /\ \A w \in Stops : Stopping(queue, y, w) <=> Stopping(queue, inbox, w)
  BY <1>8
<1>10. doc' \in 1 .. MaxDoc BY <1>1
<1> HIDE DEF Follows
<1>11. UnderWay(queue', inbox', calls, owner', domains') BY <1>1, <1>9
<1>12. \A w \in Stops : Stopping(queue', inbox', w) => Stopping(queue, inbox, w) BY <1>1, <1>9
<1>13. IsIn(inbox, Losses) => IsIn(inbox', Losses) BY <1>9
<1>14. owner' = owner /\ domains' = domains /\ queue' = queue BY <1>1
<1> HIDE DEF y
<1>15. UNCHANGED <<bridge, calls, raced, workload>> BY <1>1
<1>16. UnderWay(queue', inbox', calls', owner', domains') BY <1>11, <1>15
<1> QED BY <1>1, <1>10, <1>12, <1>13, <1>14, <1>15, <1>16, ChromeKeeps

\* Chrome or the user detaches the debugger.
LEMMA ChromeDetachesKeeps ==
  ASSUME BridgeInv, ChromeDetaches
  PROVE  BridgeInv'
<1> DEFINE e == Event("onDetach", NoDoc)  x == Append(inbox, e)
<1>1. /\ UnderWay(queue, inbox, calls, owner, domains) /\ owner' = "none" /\ domains' = {}
      /\ doc \in 1 .. MaxDoc /\ MaxDoc \in Nat /\ inbox' = x
      /\ UNCHANGED <<bridge, calls, queue, doc, raced, workload>>
  BY InvIsUnderWay, BridgeTypes, BridgeAssumption DEF BridgeInv, MemoryIsTrue, ChromeDetaches
<1>2. inbox \in Seq(Messages) BY <1>1 DEF UnderWay
<1>3. e \in Messages /\ e.by = "chrome" /\ e.do = "onDetach"
  BY <1>1 DEF Event, Answer, Messages, Senders, EventNames, NoDoc
<1> HIDE DEF e
<1>4. /\ e.by \notin Call /\ e.do \in EventNames /\ e.do \in Losses
      /\ e.do \notin Stops /\ e.do # "detach"
  BY <1>3, BridgeAssumption DEF EventNames, Losses, Stops
<1>5. \A S : ~Tells(e, S) BY <1>4 DEF Tells
<1>6. x \in Seq(Messages) BY <1>2, <1>3, AppendProperties
<1>7. Matched(queue, x, calls) BY <1>1, <1>2, <1>3, <1>4, MatchedMore DEF UnderWay
<1>8. Proper(x) BY <1>1, <1>2, <1>3, <1>4, ProperMore DEF UnderWay
<1>9. HeardIn(x, "none", {})
  <2>1. e.do \in Losses \cup {"runtimeOff"} /\ e.do \in Losses \cup {"networkOff"} BY <1>4
  <2>2. Told(x, "us", {"none"}, {"attach", "probe"}, Losses)
    BY <1>1, <1>2, <1>3, <1>4, <1>5, ToldMore DEF UnderWay, HeardIn
  <2>3. Told(x, "Page", {}, {"treePage", "worldPage"}, Losses)
    BY <1>1, <1>2, <1>3, <1>4, <1>5, ToldMore DEF UnderWay, HeardIn
  <2>4. Told(x, "Runtime", {}, {"runtime", "runtimeOn"}, Losses \cup {"runtimeOff"})
    BY <1>1, <1>2, <1>3, <1>5, <2>1, ToldMore DEF UnderWay, HeardIn
  <2>5. Told(x, "Network", {}, {"networkOn"}, Losses \cup {"networkOff"})
    BY <1>1, <1>2, <1>3, <1>5, <2>1, ToldMore DEF UnderWay, HeardIn
  <2> QED BY <2>2, <2>3, <2>4, <2>5 DEF HeardIn
<1>10. ASSUME StopsIn(queue, inbox) PROVE StopsIn(queue, x)
  <2>1. /\ Clear(queue, x, {"runtime", "runtimeOn"}, Asking("runtimeOff"))
        /\ Clear(queue, x, {"networkOn"}, Asking("networkOff"))
    BY <1>2, <1>3, <1>5, <1>10, ClearMore DEF StopsIn
  <2>2. e.do # "runtimeOff" /\ e.do # "networkOff" BY <1>4 DEF Stops
  <2>3. /\ Behind(x, {"runtime", "runtimeOn"}, "runtimeOff")
        /\ Behind(x, {"networkOn"}, "networkOff")
    BY <1>2, <1>3, <1>10, <2>2, BehindMore DEF StopsIn
  <2> QED BY <2>1, <2>3 DEF StopsIn
<1>11. Clear(queue, x, {"runtimeOn", "networkOn"}, IdleAsks)
  BY <1>1, <1>2, <1>3, <1>5, ClearMore DEF UnderWay
<1>12. IsIn(x, Losses) BY <1>2, <1>3, <1>4, IsInSteps
<1>13. \A w \in Stops : Stopping(queue, x, w) => Stopping(queue, inbox, w)
  <2>1. \A w \in Stops : IsIn(x, {w}) => IsIn(inbox, {w}) BY <1>2, <1>3, <1>4, IsInSteps
  <2> QED BY <2>1 DEF Stopping
<1>14. UnderWay(queue, x, calls, "none", {})
  BY <1>1, <1>6, <1>7, <1>8, <1>9, <1>10, <1>11 DEF UnderWay
<1> HIDE DEF x
<1> QED BY <1>1, <1>12, <1>13, <1>14, ChromeKeeps

\* Another debugger comes or goes.
LEMMA OtherDebuggerKeeps ==
  ASSUME BridgeInv, OtherDebugger
  PROVE  BridgeInv'
<1>1. /\ UnderWay(queue, inbox, calls, owner, domains) /\ owner # "us"
      /\ owner' \in {"none", "other"} /\ doc \in 1 .. MaxDoc
      /\ domains \subseteq {"Page", "Runtime", "Network", "Emulation"}
      /\ UNCHANGED <<bridge, calls, queue, inbox, domains, doc, raced, workload>>
  BY InvIsUnderWay, BridgeTypes DEF BridgeInv, MemoryIsTrue, OtherDebugger
<1> DEFINE own == owner'
<1>2. HeardIn(inbox, own, domains)
  <2>1. Told(inbox, "us", {owner}, {"attach", "probe"}, Losses) BY <1>1 DEF UnderWay, HeardIn
  <2>2. Told(inbox, "us", {own}, {"attach", "probe"}, Losses) BY <1>1, <2>1 DEF Told
  <2> QED BY <1>1, <2>2 DEF UnderWay, HeardIn
<1>3. UnderWay(queue, inbox, calls, own, domains) BY <1>1, <1>2 DEF UnderWay
<1> QED BY <1>1, <1>3, ChromeKeeps

----------------------------------------------------------------------------
(* The debugger bridge: the theorems *)

\* A worker that has just started.
LEMMA BridgeInitInv == BridgeInit => BridgeInv
<1> SUFFICES ASSUME BridgeInit PROVE BridgeInv OBVIOUS
<1>1. /\ bridge = Detached /\ calls = [c \in Call |-> Free] /\ queue = <<>> /\ inbox = <<>>
      /\ owner = "none" /\ domains = {} /\ doc = 1 /\ raced = FALSE /\ workload \in Workloads
  BY DEF BridgeInit
<1>2. /\ Len(queue) = 0 /\ Len(inbox) = 0 /\ queue \in Seq(Requests) /\ inbox \in Seq(Messages)
  BY <1>1, EmptySeq
<1>3. Free \in CallState /\ Occupied(Free)
  BY BridgeAssumption DEF Free, CallState, NoDoc, Occupied
<1>4. calls \in [Call -> CallState] /\ \A c \in Call : calls[c] = Free BY <1>1, <1>3
<1>5. doc \in 1 .. MaxDoc BY <1>1, BridgeAssumption
<1>6. BridgeTypeOK BY <1>1, <1>2, <1>4, <1>5, DetachedForgets, BridgeTypes
<1>7. MemoryIsTrue
  BY <1>1, <1>6, DetachedForgets DEF MemoryIsTrue, AttachedIsOurs, EnabledAsRemembered
<1>8. CallsInStep
  BY <1>2, <1>3, <1>4 DEF CallsInStep, Matched, Awaited, Single, Apart, Proper
<1>9. Heard BY <1>2 DEF Heard, HeardIn, Told
<1>10. StopsAlone
  BY <1>2 DEF StopsAlone, StopsIn, Clear, Behind, Stopping, Pending, IsIn
<1>11. IdleAlone BY <1>2 DEF IdleAlone, Clear, Pending
<1> QED BY <1>7, <1>8, <1>9, <1>10, <1>11 DEF BridgeInv

\* Every step keeps the invariant of the bridge.
LEMMA BridgeStep == BridgeInv /\ [BridgeNext]_bridgeVars => BridgeInv'
<1> SUFFICES ASSUME BridgeInv, [BridgeNext]_bridgeVars PROVE BridgeInv' OBVIOUS
<1>1. ASSUME NEW c \in Call, NEW k \in AllKinds, Start(c, k) PROVE BridgeInv'
  BY <1>1, StartKeeps
<1>2. ASSUME NEW c \in Call, CallSteps(c) PROVE BridgeInv'
  BY <1>2, NavigationAnswersKeeps, TimeoutKeeps, PollingKeeps DEF CallSteps
<1>3. CASE Deliver BY <1>3, DeliverKeeps
<1>4. CASE IdleTimerFires BY <1>4, IdleTimerFiresKeeps
<1>5. CASE ChromeAnswers BY <1>5, ChromeAnswersKeeps
<1>6. CASE ChromeHangs BY <1>6, ChromeHangsKeeps
<1>7. CASE Navigate BY <1>7, NavigateKeeps
<1>8. CASE ChromeDetaches BY <1>8, ChromeDetachesKeeps
<1>9. CASE OtherDebugger BY <1>9, OtherDebuggerKeeps
<1>10. CASE UNCHANGED bridgeVars
  <2>1. /\ bridge' = bridge /\ calls' = calls /\ queue' = queue /\ inbox' = inbox /\ doc' = doc
        /\ owner' = owner /\ domains' = domains /\ raced' = raced /\ workload' = workload
    BY <1>10 DEF bridgeVars, chromeVars
  <2>2. UnderWay(queue', inbox', calls', owner', domains') BY <2>1, InvIsUnderWay
  <2>3. /\ owner \in {"none", "us", "other"} /\ doc \in 1 .. MaxDoc
        /\ domains \subseteq {"Page", "Runtime", "Network", "Emulation"}
    BY BridgeTypes DEF BridgeInv, MemoryIsTrue
  <2> QED BY <2>1, <2>2, <2>3, ChromeKeeps
<1> QED BY <1>1, <1>2, <1>3, <1>4, <1>5, <1>6, <1>7, <1>8, <1>9, <1>10 DEF BridgeNext

\* The invariant: every message under way is what its call waits for, an answer on
\* its way is true or taken back by what is behind it, and nothing that enables is
\* ahead of a stop that did not race, nor of the idle timer's detachment.
THEOREM BridgeInvariant == BridgeSpec => []BridgeInv
<1> QED BY BridgeInitInv, BridgeStep, PTL DEF BridgeSpec

\* MemoryIsTrue of DebuggerBridge: what the worker remembers of its session (that
\* it is attached, which domains it enabled) is so, for any number of commands.
THEOREM MemoryIsAlwaysTrue == BridgeSpec => []MemoryIsTrue
<1>1. BridgeInv => MemoryIsTrue BY DEF BridgeInv
<1> QED BY <1>1, BridgeInvariant, PTL

\* IdleSparesCaptures of DebuggerBridge: the idle timer never detaches a tab that
\* a capture listens to, not even one started after the timer fired.
THEOREM IdleNeverCutsCaptures == BridgeSpec => IdleSparesCaptures
<1> DEFINE Cuts == queue # <<>> /\ queue' = Tail(queue) /\ Head(queue).by = "idle" /\ owner = "us"
<1>1. ASSUME BridgeInv, Cuts PROVE ~bridge.console /\ ~bridge.network
  <2>1. queue \in Seq(Requests) BY <1>1, BridgeTypes DEF BridgeInv, MemoryIsTrue
  <2>2. Head(queue) \in Requests BY <1>1, <2>1, HeadTailProperties
  <2>3. Head(queue) \in IdleAsks BY <1>1, <2>2 DEF Requests, IdleAsks
  <2>4. Pending(queue, IdleAsks) BY <1>1, <2>1, <2>3, PendingSteps
  <2> QED BY <1>1, <2>4 DEF BridgeInv, IdleAlone
<1>2. BridgeInv => [Cuts => ~bridge.console /\ ~bridge.network]_bridgeVars BY <1>1
<1> QED BY <1>2, BridgeInvariant, PTL DEF IdleSparesCaptures
----------------------------------------------------------------------------
(* The console capture *)

\* The counter is ahead of everything that has an id.
CounterAhead ==
  /\ first <= messageIdCounter /\ evicted <= messageIdCounter
  /\ messages # NoConsole =>
       /\ \A m \in messages : m.id <= messageIdCounter
       /\ \A id \in given : id <= messageIdCounter

ConsoleInv == ConsoleSafe /\ CounterAhead

\* A new message has an id of its own; if the buffer is full, the oldest one goes,
\* and it was younger than everything pushed out before.
LEMMA PushKeeps ==
  ASSUME ConsoleInv, NEW l \in Level, pushMessage(l)
  PROVE  ConsoleInv'
<1> USE ConsoleAssumption
<1> DEFINE new == [id |-> messageIdCounter + 1, level |-> l]
           all == messages \cup {new}
<1>1. /\ messages # NoConsole /\ messages \subseteq Entry /\ IsFiniteSet(messages)
      /\ Cardinality(messages) <= MAX_MESSAGES_PER_SESSION
      /\ messageIdCounter' = messageIdCounter + 1 /\ messageIdCounter' \in 1 .. MaxId
      /\ messageIdCounter \in Nat /\ first \in Nat /\ first' \in 0 .. MaxId
      /\ evicted \in 0 .. MaxId /\ given \subseteq 1 .. MaxId
      /\ first <= messageIdCounter /\ evicted <= messageIdCounter
      /\ UNCHANGED <<first, given>>
  BY DEF pushMessage, ConsoleInv, ConsoleSafe, ConsoleTypeOK, CounterAhead
<1>2. new \in Entry
  BY <1>1 DEF Entry
<1>3. all \subseteq Entry /\ \A m \in all : m.id \in 1 .. MaxId
  BY <1>1, <1>2 DEF Entry
<1>4. IsFiniteSet(all) /\ Cardinality(all) \in Nat
      /\ Cardinality(all) <= MAX_MESSAGES_PER_SESSION + 1
  <2>1. IsFiniteSet(all)
        /\ Cardinality(all) = IF new \in messages THEN Cardinality(messages)
                              ELSE Cardinality(messages) + 1
    BY <1>1, FS_AddElement
  <2>2. Cardinality(messages) \in Nat
    BY <1>1, FS_CardinalityType
  <2> QED BY <1>1, <2>1, <2>2
<1>5. /\ \A m, n \in messages : m.id = n.id => m = n
      /\ \A m \in messages : m.id > evicted /\ m.id <= messageIdCounter /\ m.id \notin given
      /\ \A id \in given : id <= messageIdCounter
      /\ \A id \in first + 1 .. messageIdCounter :
           id \in Ids(messages) \cup given \/ id <= evicted
  BY <1>1 DEF ConsoleInv, ConsoleSafe, EveryMessageAccounted, CounterAhead, Ids
<1>6. new.id = messageIdCounter + 1
  OBVIOUS
<1> HIDE DEF new
<1>7. /\ \A m, n \in all : m.id = n.id => m = n
      /\ \A m \in all : m.id > evicted /\ m.id <= messageIdCounter + 1 /\ m.id \notin given
  BY <1>1, <1>3, <1>5, <1>6
<1>8. \A id \in first + 1 .. messageIdCounter + 1 :
        id \in given \/ id <= evicted \/ \E m \in all : id = m.id
  BY <1>1, <1>5, <1>6 DEF Ids
<1>9. \/ /\ Cardinality(all) <= MAX_MESSAGES_PER_SESSION
         /\ messages' = all /\ UNCHANGED evicted
      \/ \E oldest \in all :
           /\ \A m \in all : oldest.id <= m.id
           /\ messages' = all \ {oldest} /\ evicted' = oldest.id
  BY DEF pushMessage, new
<1> HIDE DEF all
<1>10. CASE /\ Cardinality(all) <= MAX_MESSAGES_PER_SESSION
            /\ messages' = all /\ UNCHANGED evicted
  <2>1. ConsoleTypeOK'
    BY <1>1, <1>3, <1>4, <1>10 DEF ConsoleTypeOK
  <2>2. EveryMessageAccounted'
    BY <1>1, <1>7, <1>8, <1>10 DEF EveryMessageAccounted, Ids
  <2>3. CounterAhead'
    BY <1>1, <1>5, <1>7, <1>10 DEF CounterAhead
  <2> QED BY <2>1, <2>2, <2>3 DEF ConsoleInv, ConsoleSafe
<1>11. ASSUME NEW oldest \in all, \A m \in all : oldest.id <= m.id,
              messages' = all \ {oldest}, evicted' = oldest.id
       PROVE  ConsoleInv'
  <2>1. IsFiniteSet(all \ {oldest}) /\ Cardinality(all \ {oldest}) = Cardinality(all) - 1
    BY <1>4, FS_RemoveElement
  <2>2. ConsoleTypeOK'
    BY <1>1, <1>3, <1>4, <1>11, <2>1 DEF ConsoleTypeOK
  <2>3. \A m \in messages' : m \in all /\ m.id > evicted'
    BY <1>3, <1>7, <1>11
  <2>4. evicted < evicted' /\ evicted' \in Nat
    BY <1>3, <1>7, <1>11
  <2>5. \A id \in first' + 1 .. messageIdCounter' :
          id \in Ids(messages)' \cup given' \/ id <= evicted'
    <3>1. SUFFICES ASSUME NEW id \in first + 1 .. messageIdCounter + 1,
                          ~(id <= evicted'), id \notin given
                   PROVE  \E m \in messages' : id = m.id
      BY <1>1 DEF Ids
    <3>2. PICK m \in all : id = m.id
      BY <1>1, <1>8, <2>4, <3>1
    <3> QED BY <1>11, <2>4, <3>1, <3>2
  <2>6. EveryMessageAccounted'
    BY <1>1, <1>7, <2>3, <2>5 DEF EveryMessageAccounted, Ids
  <2>7. CounterAhead'
    BY <1>1, <1>3, <1>5, <1>7, <1>11, <2>3 DEF CounterAhead
  <2> QED BY <2>2, <2>6, <2>7 DEF ConsoleInv, ConsoleSafe
<1> QED BY <1>9, <1>10, <1>11

\* Whatever a reader takes from the buffer, and nothing else, is given.
LEMMA TakingKeeps ==
  ASSUME ConsoleInv, messages # NoConsole,
         NEW shown \in SUBSET messages,
         messages' = {m \in messages : m.id \notin Ids(shown)},
         given' = given \cup Ids(shown), UNCHANGED <<messageIdCounter, first, evicted>>
  PROVE  ConsoleInv'
<1>1. /\ messages \subseteq Entry /\ IsFiniteSet(messages)
      /\ Cardinality(messages) <= MAX_MESSAGES_PER_SESSION
      /\ \A m \in messages : m.id \in 1 .. MaxId
  BY DEF ConsoleInv, ConsoleSafe, ConsoleTypeOK, Entry
<1>2. IsFiniteSet(messages') /\ Cardinality(messages') <= MAX_MESSAGES_PER_SESSION
  <2>1. messages' \subseteq messages
    OBVIOUS
  <2>2. IsFiniteSet(messages') /\ Cardinality(messages') <= Cardinality(messages)
    BY <1>1, <2>1, FS_Subset
  <2>3. Cardinality(messages') \in Nat /\ Cardinality(messages) \in Nat
    BY <1>1, <2>2, FS_CardinalityType
  <2> QED BY <1>1, <2>2, <2>3, ConsoleAssumption
<1>3. ConsoleTypeOK'
  BY <1>1, <1>2 DEF ConsoleInv, ConsoleSafe, ConsoleTypeOK, Ids
<1>4. Ids(messages) \subseteq Ids(messages)' \cup given'
  BY DEF Ids
<1>5. EveryMessageAccounted'
  BY <1>4 DEF ConsoleInv, ConsoleSafe, EveryMessageAccounted, Ids
<1>6. CounterAhead'
  BY DEF ConsoleInv, CounterAhead, Ids
<1> QED BY <1>3, <1>5, <1>6 DEF ConsoleInv, ConsoleSafe

\* Every step keeps the invariant of the console.
LEMMA ConsoleInvStep == ConsoleInv /\ [ConsoleNext]_consoleVars => ConsoleInv'
<1> SUFFICES ASSUME ConsoleInv, [ConsoleNext]_consoleVars PROVE ConsoleInv'
  OBVIOUS
<1> USE ConsoleAssumption
<1>1. CASE startSession
  <2>1. /\ messages' = {} /\ given' = {} /\ first' = messageIdCounter
        /\ evicted' = messageIdCounter /\ messageIdCounter' = messageIdCounter
        /\ messageIdCounter \in 0 .. MaxId
    BY <1>1 DEF startSession, ConsoleInv, ConsoleSafe, ConsoleTypeOK
  <2>2. IsFiniteSet({}) /\ Cardinality({}) = 0
    BY FS_EmptySet
  <2>3. ConsoleTypeOK'
    BY <2>1, <2>2 DEF ConsoleTypeOK
  <2> QED BY <2>1, <2>3 DEF ConsoleInv, ConsoleSafe, EveryMessageAccounted, CounterAhead, Ids
<1>2. CASE endSession
  BY <1>2 DEF endSession, ConsoleInv, ConsoleSafe, ConsoleTypeOK, EveryMessageAccounted,
              CounterAhead
<1>3. CASE clearConsoleMessages
  <2>1. messages' = {m \in messages : m.id \notin Ids(messages)}
    BY <1>3 DEF clearConsoleMessages, Ids
  <2> QED BY <1>3, <2>1, TakingKeeps DEF clearConsoleMessages
<1>4. ASSUME NEW l \in Level, pushMessage(l) PROVE ConsoleInv'
  BY <1>4, PushKeeps
<1>5. ASSUME NEW levels \in {Level} \cup {{l} : l \in Level}, NEW since \in 0 .. MaxId,
             NEW limit \in 1 .. MAX_MESSAGES_PER_SESSION,
             readConsoleMessages(levels, since, limit)
      PROVE  ConsoleInv'
  <2>1. Selected(levels, since, limit) \subseteq messages
    BY DEF Selected, Newest, Filtered
  <2> QED BY <1>5, <2>1, TakingKeeps DEF readConsoleMessages
<1>6. CASE UNCHANGED consoleVars
  BY <1>6 DEF consoleVars, ConsoleInv, ConsoleSafe, ConsoleTypeOK, EveryMessageAccounted,
              CounterAhead, Ids
<1> QED BY <1>1, <1>2, <1>3, <1>4, <1>5, <1>6 DEF ConsoleNext

\* A console capture stays within its limit and loses only what was returned to
\* a clearing reader or is older than all it keeps, for any limit and levels.
THEOREM ConsoleIsSafe == ConsoleSpec => []ConsoleSafe
<1>1. ConsoleInit => ConsoleInv
  BY ConsoleAssumption DEF ConsoleInit, ConsoleInv, ConsoleSafe, ConsoleTypeOK,
                           EveryMessageAccounted, CounterAhead
<1>2. ConsoleInv => ConsoleSafe
  BY DEF ConsoleInv
<1> QED BY <1>1, <1>2, ConsoleInvStep, PTL DEF ConsoleSpec

----------------------------------------------------------------------------
(* The network capture *)

Requested == [Req -> Record \cup {None}]

\* Who waits is listed, and the list is an order.
Waits ==
  /\ \A w \in Waiter : outcome[w].got = "waiting" <=> w \in waiters
  /\ \A v, w \in waiters : v # w => <<v, w>> \in waitOrder \/ <<w, v>> \in waitOrder

NothingReady(reqs, p) == \A i \in DOMAIN order : ~Ready(reqs, order[i], p)
NoneReady == \A w \in waiters : NothingReady(requests, outcome[w].pattern)

\* Until a request has ended its record is as it was made; a body is fetched after
\* that; there are no records without a session.
FreshRecords ==
  /\ \A r \in Req : net[r] # "done" /\ requests[r] # None =>
       requests[r].state = "pending" /\ requests[r].bodyReady = FALSE
  /\ \A r \in bodies : net[r] = "done"
  /\ patterns = {} => \A r \in Req : requests[r] = None

\* Unless one was redirected, requests are recorded once, and the session lists the
\* last of them.
Listed ==
  /\ \A i \in 1 .. Len(recorded) : net[recorded[i]] # "unsent"
  /\ redirected = {} => \A i, j \in 1 .. Len(recorded) : recorded[i] = recorded[j] => i = j
  /\ patterns # {} /\ redirected = {} =>
       /\ Len(order) <= Len(recorded)
       /\ Len(order) < MAX_REQUESTS_PER_SESSION => Len(order) = Len(recorded)
       /\ \A i \in 1 .. Len(order) :
            /\ order[i] = recorded[Len(recorded) - Len(order) + i]
            /\ requests[order[i]] # None

CaptureInv == CaptureTypeOK /\ Waits /\ NoneReady /\ FreshRecords /\ Listed

\* A record that is taken changes in nothing but that it is consumed.
Taken(m, n) == /\ n \in Record /\ n.consumed = TRUE
               /\ n.url = m.url /\ n.state = m.state /\ n.bodyReady = m.bodyReady

\* Consume marks the records that are handed out, and leaves the others.
LEMMA ConsumeFacts ==
  ASSUME NEW reqs \in Requested, NEW taken, NEW r \in Req
  PROVE  /\ r \notin taken \/ reqs[r] = None => Consume(reqs, taken)[r] = reqs[r]
         /\ r \in taken /\ reqs[r] # None => Taken(reqs[r], Consume(reqs, taken)[r])
<1>1. Consume(reqs, taken)[r] =
        IF r \in taken /\ reqs[r] # None THEN [reqs[r] EXCEPT !.consumed = TRUE] ELSE reqs[r]
  BY DEF Consume
<1>2. \A m \in Record : Taken(m, [m EXCEPT !.consumed = TRUE])
  BY DEF Record, Taken
<1>3. reqs[r] # None => reqs[r] \in Record
  BY DEF Requested
<1> QED BY <1>1, <1>2, <1>3

\* It changes neither which records there are nor whether they are ready.
LEMMA ConsumeKeeps ==
  ASSUME NEW reqs \in Requested, NEW taken
  PROVE  /\ Consume(reqs, taken) \in Requested
         /\ \A r \in Req : Consume(reqs, taken)[r] = None <=> reqs[r] = None
         /\ \A r \in Req : reqs[r] # None =>
              /\ Consume(reqs, taken)[r].state = reqs[r].state
              /\ Consume(reqs, taken)[r].bodyReady = reqs[r].bodyReady
<1>1. None \notin Record
  BY CaptureAssumption
<1>2. ASSUME NEW r \in Req
      PROVE  /\ Consume(reqs, taken)[r] \in Record \cup {None}
             /\ Consume(reqs, taken)[r] = None <=> reqs[r] = None
             /\ reqs[r] # None => /\ Consume(reqs, taken)[r].state = reqs[r].state
                                  /\ Consume(reqs, taken)[r].bodyReady = reqs[r].bodyReady
  <2>1. CASE r \notin taken \/ reqs[r] = None
    <3>1. Consume(reqs, taken)[r] = reqs[r]
      BY <2>1, ConsumeFacts
    <3> QED BY <3>1 DEF Requested
  <2>2. CASE r \in taken /\ reqs[r] # None
    <3>1. Taken(reqs[r], Consume(reqs, taken)[r])
      BY <2>2, ConsumeFacts
    <3> QED BY <1>1, <2>2, <3>1 DEF Taken
  <2> QED BY <2>1, <2>2
<1>3. Consume(reqs, taken) \in Requested
  BY <1>2 DEF Requested, Consume
<1> QED BY <1>2, <1>3

\* What is taken is not ready, and the rest is as ready as it was.
LEMMA ConsumedIsNotReady ==
  ASSUME NEW reqs \in Requested, NEW taken, NEW r \in Req, NEW p
  PROVE  Ready(Consume(reqs, taken), r, p) <=> Ready(reqs, r, p) /\ r \notin taken
<1>1. CASE r \notin taken \/ reqs[r] = None
  <2>1. Consume(reqs, taken)[r] = reqs[r]
    BY <1>1, ConsumeFacts
  <2> QED BY <1>1, <2>1 DEF Ready
<1>2. CASE r \in taken /\ reqs[r] # None
  <2>1. Taken(reqs[r], Consume(reqs, taken)[r])
    BY <1>2, ConsumeFacts
  <2> QED BY <1>2, <2>1 DEF Ready, Taken
<1> QED BY <1>1, <1>2

\* The scan finds nothing, or the oldest record that is ready.
LEMMA ScanFacts ==
  ASSUME CaptureTypeOK, NEW reqs, NEW p, NEW r, findReadyMatch(reqs, p, r)
  PROVE  /\ r = None => NothingReady(reqs, p)
         /\ r # None => r \in Req /\ Ready(reqs, r, p)
<1>1. \A i \in DOMAIN order : order[i] \in Req
  BY DEF CaptureTypeOK
<1> QED BY <1>1, CaptureAssumption DEF findReadyMatch, NothingReady

\* Waking the waiters consumes one record for each of those that go, and leaves
\* nothing ready for the others.
LEMMA NotifyFacts ==
  ASSUME CaptureTypeOK, Waits, NEW reqs \in Requested, notifyWaiters(reqs)
  PROVE  /\ requests' \in Requested
         /\ \A r \in Req : /\ requests'[r] = None <=> reqs[r] = None
                           /\ reqs[r] # None => /\ requests'[r].state = reqs[r].state
                                                /\ requests'[r].bodyReady = reqs[r].bodyReady
         /\ waiters' \subseteq waiters /\ waitOrder' = waitOrder \cap (waiters' \X waiters')
         /\ outcome' \in [Waiter -> Outcome]
         /\ \A w \in Waiter : outcome'[w].pattern = outcome[w].pattern
         /\ \A w \in Waiter : w \in waiters' \/ w \notin waiters => outcome'[w] = outcome[w]
         /\ \A w \in waiters \ waiters' : outcome'[w].got \in Req
         /\ \A w \in waiters' : NothingReady(requests', outcome[w].pattern)
         /\ \A w \in waiters \ waiters' :
              /\ Ready(reqs, outcome'[w].got, outcome[w].pattern)
              /\ requests'[outcome'[w].got].consumed = TRUE
              /\ \A v \in waiters \ waiters' : outcome'[v].got = outcome'[w].got => v = w
<1>1. PICK got \in [waiters -> Req \cup {None}] :
        /\ \A w \in waiters :
             findReadyMatch(Consume(reqs, {got[v] : v \in Newer(w)}), outcome[w].pattern, got[w])
        /\ requests' = Consume(reqs, {got[w] : w \in waiters})
        /\ Leave({w \in waiters : got[w] = None})
        /\ outcome' = [w \in Waiter |-> IF w \in waiters /\ got[w] # None
                                        THEN [outcome[w] EXCEPT !.got = got[w]] ELSE outcome[w]]
  BY DEF notifyWaiters
<1> DEFINE all == {got[w] : w \in waiters}
           newer(w) == {got[v] : v \in Newer(w)}
<1>2. requests' = Consume(reqs, all)
  BY <1>1
<1>3. waiters' = {w \in waiters : got[w] = None} /\ waitOrder' = waitOrder \cap (waiters' \X waiters')
  BY <1>1 DEF Leave
<1>4. \A w \in waiters :
        findReadyMatch(Consume(reqs, newer(w)), outcome[w].pattern, got[w])
  BY <1>1
<1>9. \A w \in waiters : got[w] \in all /\ \A v \in waiters : v \in Newer(w) => got[v] \in newer(w)
  OBVIOUS
<1>10. \A w \in waiters : newer(w) \subseteq all
  BY DEF Newer
<1> HIDE DEF all, newer
<1>5. waiters \subseteq Waiter /\ outcome \in [Waiter -> Outcome]
  BY DEF CaptureTypeOK
<1>6. /\ outcome' \in [Waiter -> Outcome]
      /\ \A w \in waiters \ waiters' :
           got[w] \in Req /\ outcome'[w].got = got[w] /\ outcome'[w].pattern = outcome[w].pattern
  <2>1. \A w \in waiters : got[w] # None =>
          /\ [outcome[w] EXCEPT !.got = got[w]] \in Outcome
          /\ [outcome[w] EXCEPT !.got = got[w]].got = got[w]
          /\ [outcome[w] EXCEPT !.got = got[w]].pattern = outcome[w].pattern
    BY <1>5 DEF Outcome
  <2> QED BY <1>1, <1>3, <1>5, <2>1
<1>7. \A w \in waiters \ waiters' : got[w] \in Req /\ outcome'[w].got = got[w]
  BY <1>6
<1>8. \A w \in Waiter : w \in waiters' \/ w \notin waiters => outcome'[w] = outcome[w]
  BY <1>1, <1>3
<1>11. ASSUME NEW w \in waiters'
       PROVE  NothingReady(requests', outcome[w].pattern)
  <2>1. NothingReady(Consume(reqs, newer(w)), outcome[w].pattern)
    BY <1>3, <1>4, ScanFacts
  <2>2. ASSUME NEW i \in DOMAIN order, Ready(requests', order[i], outcome[w].pattern) PROVE FALSE
    <3>1. order[i] \in Req
      BY DEF CaptureTypeOK
    <3>2. Ready(reqs, order[i], outcome[w].pattern) /\ order[i] \notin all
      BY <1>2, <2>2, <3>1, ConsumedIsNotReady
    <3>3. Ready(Consume(reqs, newer(w)), order[i], outcome[w].pattern)
      BY <1>3, <1>10, <3>1, <3>2, ConsumedIsNotReady
    <3> QED BY <2>1, <3>3 DEF NothingReady
  <2> QED BY <2>2 DEF NothingReady
<1>12. ASSUME NEW w \in waiters \ waiters'
       PROVE  /\ Ready(reqs, got[w], outcome[w].pattern) /\ got[w] \notin newer(w)
              /\ requests'[got[w]].consumed = TRUE
  <2>1. Ready(Consume(reqs, newer(w)), got[w], outcome[w].pattern)
    BY <1>3, <1>4, ScanFacts
  <2>2. Ready(reqs, got[w], outcome[w].pattern) /\ got[w] \notin newer(w)
    <3>1. got[w] \in Req
      BY <1>7
    <3>2. Ready(Consume(reqs, newer(w)), got[w], outcome[w].pattern)
            <=> Ready(reqs, got[w], outcome[w].pattern) /\ got[w] \notin newer(w)
      BY <3>1, ConsumedIsNotReady
    <3> QED BY <2>1, <3>2
  <2>3. reqs[got[w]] # None /\ got[w] \in all
    BY <1>9, <2>2 DEF Ready
  <2>4. requests'[got[w]].consumed = TRUE
    <3>1. got[w] \in Req
      BY <1>7
    <3>2. Taken(reqs[got[w]], Consume(reqs, all)[got[w]])
      BY <2>3, <3>1, ConsumeFacts
    <3> QED BY <1>2, <3>2 DEF Taken
  <2> QED BY <2>2, <2>4
<1>13. ASSUME NEW v \in waiters \ waiters', NEW w \in waiters \ waiters', got[v] = got[w]
       PROVE  v = w
  <2>1. v # w => v \in Newer(w) \/ w \in Newer(v)
    BY DEF Waits, Newer
  <2> QED BY <1>9, <1>12, <1>13, <2>1
<1>14. /\ requests' \in Requested
       /\ \A r \in Req : /\ requests'[r] = None <=> reqs[r] = None
                         /\ reqs[r] # None => /\ requests'[r].state = reqs[r].state
                                              /\ requests'[r].bodyReady = reqs[r].bodyReady
  BY <1>2, ConsumeKeeps
<1>15. \A w \in Waiter : outcome'[w].pattern = outcome[w].pattern
  BY <1>6, <1>8
<1>16. \A w \in waiters \ waiters' :
         /\ Ready(reqs, outcome'[w].got, outcome[w].pattern)
         /\ requests'[outcome'[w].got].consumed = TRUE
         /\ \A v \in waiters \ waiters' : outcome'[v].got = outcome'[w].got => v = w
  BY <1>7, <1>12, <1>13
<1>17. waiters' \subseteq waiters
  BY <1>3
<1>18. \A w \in waiters \ waiters' : outcome'[w].got \in Req
  BY <1>7
<1> QED BY <1>3, <1>6, <1>8, <1>11, <1>14, <1>15, <1>16, <1>17, <1>18

HandedOnce ==
  \A w \in Waiter, r \in Req : Gets(w, r) =>
    /\ ~requests[r].consumed /\ requests'[r].consumed
    /\ \A v \in Waiter : Gets(v, r) => v = w

\* A step that only wakes waiters, after the record of a request that ended has changed.
LEMMA WakingKeeps ==
  ASSUME CaptureInv, NEW reqs \in Requested, notifyWaiters(reqs),
         UNCHANGED <<patterns, order, redirected, recorded>>, bodies' \subseteq bodies,
         net' \in [Req -> {"unsent", "sent", "done"}],
         \A r \in Req : net'[r] = net[r] \/ net'[r] = "done",
         \A r \in Req : reqs[r] = None <=> requests[r] = None,
         \A r \in Req : reqs[r] # None => reqs[r].consumed = requests[r].consumed,
         \A r \in Req : net'[r] # "done" => reqs[r] = requests[r]
  PROVE  CaptureInv' /\ HandedOnce
<1>1. CaptureTypeOK /\ Waits /\ FreshRecords /\ Listed
  BY DEF CaptureInv
<1>2. /\ requests' \in Requested
      /\ \A r \in Req : /\ requests'[r] = None <=> reqs[r] = None
                        /\ reqs[r] # None => /\ requests'[r].state = reqs[r].state
                                             /\ requests'[r].bodyReady = reqs[r].bodyReady
      /\ waiters' \subseteq waiters /\ waitOrder' = waitOrder \cap (waiters' \X waiters')
      /\ outcome' \in [Waiter -> Outcome]
      /\ \A w \in Waiter : outcome'[w].pattern = outcome[w].pattern
      /\ \A w \in Waiter : w \in waiters' \/ w \notin waiters => outcome'[w] = outcome[w]
      /\ \A w \in waiters \ waiters' : outcome'[w].got \in Req
      /\ \A w \in waiters' : NothingReady(requests', outcome[w].pattern)
      /\ \A w \in waiters \ waiters' :
           /\ Ready(reqs, outcome'[w].got, outcome[w].pattern)
           /\ requests'[outcome'[w].got].consumed = TRUE
           /\ \A v \in waiters \ waiters' : outcome'[v].got = outcome'[w].got => v = w
  BY <1>1, NotifyFacts
<1>3. CaptureTypeOK'
  BY <1>1, <1>2 DEF CaptureTypeOK, Requested
<1>4. "waiting" \notin Req
  BY CaptureAssumption
<1>5. Waits'
  BY <1>1, <1>2, <1>4 DEF Waits, CaptureTypeOK
<1>6. NoneReady'
  <2>1. \A w \in waiters' : w \in Waiter
    BY <1>1, <1>2 DEF CaptureTypeOK
  <2> QED BY <1>2, <2>1 DEF NoneReady, NothingReady
<1>7. FreshRecords'
  BY <1>1, <1>2 DEF FreshRecords, CaptureTypeOK
<1>8. Listed'
  <2>1. \A i \in 1 .. Len(recorded) : net'[recorded[i]] # "unsent"
    BY <1>1 DEF Listed, CaptureTypeOK
  <2>2. \A i \in 1 .. Len(order) : order[i] \in Req
    BY <1>1 DEF CaptureTypeOK
  <2>3. \A r \in Req : requests'[r] = None <=> requests[r] = None
    BY <1>2
  <2> QED BY <1>1, <2>1, <2>2, <2>3 DEF Listed
<1>9. HandedOnce
  <2>1. SUFFICES ASSUME NEW w \in Waiter, NEW r \in Req, Gets(w, r)
                 PROVE  /\ ~requests[r].consumed /\ requests'[r].consumed
                        /\ \A v \in Waiter : Gets(v, r) => v = w
    BY DEF HandedOnce
  <2>2. \A v \in Waiter : Gets(v, r) => v \in waiters \ waiters' /\ outcome'[v].got = r
    BY <1>2 DEF Gets
  <2>3. w \in waiters \ waiters' /\ outcome'[w].got = r
    BY <2>1, <2>2
  <2>4. Ready(reqs, r, outcome[w].pattern) /\ requests'[r].consumed = TRUE
    BY <1>2, <2>3
  <2>5. reqs[r] # None /\ ~reqs[r].consumed
    BY <2>4 DEF Ready
  <2>6. \A v \in waiters \ waiters' : outcome'[v].got = r => v = w
    BY <1>2, <2>3
  <2> QED BY <2>2, <2>4, <2>5, <2>6
<1> QED BY <1>3, <1>5, <1>6, <1>7, <1>8, <1>9 DEF CaptureInv

\* What a new record makes of the list: it comes last, and the first may go.
LEMMA EvictionFacts ==
  ASSUME CaptureTypeOK, NEW r \in Req, NEW m \in Record,
         evictIfNeeded([requests EXCEPT ![r] = m], Append(order, r))
  PROVE  \E k \in {0, 1} :
           /\ order' \in Seq(Req) /\ Len(order') = Len(order) + 1 - k
           /\ k = 0 => Len(order) < MAX_REQUESTS_PER_SESSION
           /\ k = 1 => Len(order) = MAX_REQUESTS_PER_SESSION
           /\ \A i \in 1 .. Len(order') :
                order'[i] = IF k + i = Len(order) + 1 THEN r ELSE order[k + i]
           /\ requests' \in Requested
           /\ \A q \in Req : \/ requests'[q] = IF q = r THEN m ELSE requests[q]
                             \/ requests'[q] = None /\ k = 1 /\ q = order[1]
<1> DEFINE all == Append(order, r)
           reqs == [requests EXCEPT ![r] = m]
<1>1. /\ order \in Seq(Req) /\ Len(order) \in Nat /\ Len(order) <= MAX_REQUESTS_PER_SESSION
      /\ requests \in Requested
      /\ MAX_REQUESTS_PER_SESSION \in Nat \ {0}
  BY CaptureAssumption, LenProperties DEF CaptureTypeOK, Requested
<1>2. /\ all \in Seq(Req) /\ Len(all) = Len(order) + 1
      /\ \A i \in 1 .. Len(order) : all[i] = order[i]
      /\ all[Len(order) + 1] = r
  BY <1>1, AppendProperties
<1>3. reqs \in Requested /\ \A q \in Req : reqs[q] = IF q = r THEN m ELSE requests[q]
  BY <1>1 DEF Requested
<1>4. \/ /\ Len(all) > MAX_REQUESTS_PER_SESSION
         /\ order' = Tail(all) /\ requests' = [reqs EXCEPT ![Head(all)] = None]
      \/ ~(Len(all) > MAX_REQUESTS_PER_SESSION) /\ order' = all /\ requests' = reqs
  BY DEF evictIfNeeded
<1> HIDE DEF all, reqs
<1>5. CASE /\ Len(all) > MAX_REQUESTS_PER_SESSION
           /\ order' = Tail(all) /\ requests' = [reqs EXCEPT ![Head(all)] = None]
  <2>1. all # <<>> /\ Len(order) = MAX_REQUESTS_PER_SESSION
    BY <1>1, <1>2, <1>5
  <2>2. /\ Head(all) = all[1] /\ Tail(all) \in Seq(Req) /\ Len(Tail(all)) = Len(all) - 1
        /\ \A i \in 1 .. Len(Tail(all)) : Tail(all)[i] = all[i + 1]
    BY <1>2, <2>1, HeadTailProperties
  <2>3. Head(all) = order[1] /\ order[1] \in Req
    BY <1>1, <1>2, <2>1, <2>2
  <2>4. /\ requests' \in Requested
        /\ \A q \in Req : \/ requests'[q] = IF q = r THEN m ELSE requests[q]
                          \/ requests'[q] = None /\ q = order[1]
    BY <1>3, <1>5, <2>3 DEF Requested
  <2>5. \A i \in 1 .. Len(order') :
          order'[i] = IF 1 + i = Len(order) + 1 THEN r ELSE order[1 + i]
    <3>1. SUFFICES ASSUME NEW i \in 1 .. Len(order)
                   PROVE  Tail(all)[i] = IF 1 + i = Len(order) + 1 THEN r ELSE order[1 + i]
      BY <1>1, <1>2, <1>5, <2>2
    <3>2. Tail(all)[i] = all[1 + i]
      BY <1>1, <1>2, <2>2
    <3> QED BY <1>1, <1>2, <3>2
  <2> QED BY <1>1, <1>2, <1>5, <2>1, <2>2, <2>4, <2>5
<1>6. CASE ~(Len(all) > MAX_REQUESTS_PER_SESSION) /\ order' = all /\ requests' = reqs
  <2>1. \A i \in 1 .. Len(order') :
          order'[i] = IF 0 + i = Len(order) + 1 THEN r ELSE order[0 + i]
    BY <1>1, <1>2, <1>6
  <2> QED BY <1>1, <1>2, <1>3, <1>6, <2>1
<1> QED BY <1>4, <1>5, <1>6

\* A request that is recorded keeps what is listed in step with what was recorded.
LEMMA RecordingKeeps ==
  ASSUME CaptureInv, NEW r \in Req, NEW url \in SUBSET Pattern, url \cap patterns # {},
         requestWillBeSent(r, url)
  PROVE  CaptureInv'
<1> DEFINE m == [url |-> url, state |-> "pending", consumed |-> FALSE, bodyReady |-> FALSE]
<1>1. /\ CaptureTypeOK /\ Waits /\ NoneReady /\ FreshRecords /\ Listed
      /\ MAX_REQUESTS_PER_SESSION \in Nat \ {0}
  BY CaptureAssumption DEF CaptureInv
<1>2. /\ net[r] \in {"unsent", "sent"} /\ net' = [net EXCEPT ![r] = "sent"]
      /\ redirected \subseteq redirected' /\ redirected' \subseteq Req
      /\ redirected' = {} => net[r] = "unsent"
      /\ evictIfNeeded([requests EXCEPT ![r] = m], Append(order, r))
      /\ recorded' = Append(recorded, r)
      /\ UNCHANGED <<patterns, waiters, waitOrder, outcome, bodies>>
  BY <1>1 DEF requestWillBeSent, waitVars, CaptureTypeOK
<1>3. m \in Record /\ m # None /\ m.state = "pending" /\ m.bodyReady = FALSE
  <2>1. m \in Record
    BY DEF Record
  <2>2. m.state = "pending" /\ m.bodyReady = FALSE
    OBVIOUS
  <2> HIDE DEF m
  <2> QED BY <2>1, <2>2, CaptureAssumption
<1> HIDE DEF m
<1>4. PICK k \in {0, 1} :
           /\ order' \in Seq(Req) /\ Len(order') = Len(order) + 1 - k
           /\ k = 0 => Len(order) < MAX_REQUESTS_PER_SESSION
           /\ k = 1 => Len(order) = MAX_REQUESTS_PER_SESSION
           /\ \A i \in 1 .. Len(order') :
                order'[i] = IF k + i = Len(order) + 1 THEN r ELSE order[k + i]
           /\ requests' \in Requested
           /\ \A q \in Req : \/ requests'[q] = IF q = r THEN m ELSE requests[q]
                             \/ requests'[q] = None /\ k = 1 /\ q = order[1]
  BY <1>1, <1>2, <1>3, EvictionFacts
<1>5. /\ Len(order) \in Nat /\ Len(recorded) \in Nat
      /\ \A i \in 1 .. Len(order) : order[i] \in Req
      /\ \A i \in 1 .. Len(recorded) : recorded[i] \in Req
  BY <1>1 DEF CaptureTypeOK
<1>6. /\ recorded' \in Seq(Req) /\ Len(recorded') = Len(recorded) + 1
      /\ \A i \in 1 .. Len(recorded) : recorded'[i] = recorded[i]
      /\ recorded'[Len(recorded) + 1] = r
  BY <1>1, <1>2, AppendProperties DEF CaptureTypeOK
<1>7. net' \in [Req -> {"unsent", "sent", "done"}] /\ net'[r] = "sent"
      /\ \A q \in Req : q # r => net'[q] = net[q]
  BY <1>1, <1>2 DEF CaptureTypeOK
<1>8. CaptureTypeOK'
  <2>1. patterns # {}
    OBVIOUS
  <2> QED BY <1>1, <1>2, <1>4, <1>5, <1>6, <1>7, <2>1 DEF CaptureTypeOK, Requested
<1>9. Waits'
  BY <1>1, <1>2 DEF Waits
<1>10. NoneReady'
  <2>1. SUFFICES ASSUME NEW w \in waiters, NEW i \in 1 .. Len(order'),
                        Ready(requests', order'[i], outcome[w].pattern)
                 PROVE  FALSE
    BY <1>2, <1>4 DEF NoneReady, NothingReady
  <2>2. CASE order'[i] = r
    BY <1>3, <1>4, <2>1, <2>2 DEF Ready
  <2>3. CASE order'[i] # r
    <3>1. k + i \in 1 .. Len(order) /\ order'[i] = order[k + i]
      BY <1>4, <1>5, <2>3
    <3>2. order'[i] \in Req /\ requests'[order'[i]] # None
      BY <1>5, <2>1, <3>1 DEF Ready
    <3>3. requests'[order'[i]] = requests[order'[i]]
      BY <1>4, <2>3, <3>2
    <3>4. Ready(requests, order[k + i], outcome[w].pattern)
      BY <2>1, <3>1, <3>3 DEF Ready
    <3>5. k + i \in DOMAIN order
      BY <1>1, <3>1 DEF CaptureTypeOK
    <3> QED BY <1>1, <3>4, <3>5 DEF NoneReady, NothingReady
  <2> QED BY <2>2, <2>3
<1>11. FreshRecords'
  <2>1. ASSUME NEW q \in Req, net'[q] # "done", requests'[q] # None
        PROVE  requests'[q].state = "pending" /\ requests'[q].bodyReady = FALSE
    <3>1. requests'[q] = IF q = r THEN m ELSE requests[q]
      BY <1>4, <2>1
    <3> QED BY <1>1, <1>3, <1>7, <2>1, <3>1 DEF FreshRecords
  <2>2. \A q \in bodies : net'[q] = "done"
    BY <1>1, <1>2, <1>7 DEF FreshRecords, CaptureTypeOK
  <2> QED BY <1>2, <2>1, <2>2 DEF FreshRecords
<1>12. \A i \in 1 .. Len(recorded') : net'[recorded'[i]] # "unsent"
  BY <1>1, <1>5, <1>6, <1>7 DEF Listed
<1>13. ASSUME redirected' = {}, NEW i \in 1 .. Len(recorded'), NEW j \in 1 .. Len(recorded'),
              recorded'[i] = recorded'[j]
       PROVE  i = j
  <2>1. redirected = {} /\ \A n \in 1 .. Len(recorded) : recorded[n] # r
    BY <1>1, <1>2, <1>13 DEF Listed
  <2>2. \A n, l \in 1 .. Len(recorded) : recorded[n] = recorded[l] => n = l
    BY <1>1, <2>1 DEF Listed
  <2>3. CASE i \in 1 .. Len(recorded) /\ j \in 1 .. Len(recorded)
    BY <1>6, <1>13, <2>2, <2>3
  <2>4. CASE ~(i \in 1 .. Len(recorded) /\ j \in 1 .. Len(recorded))
    BY <1>5, <1>6, <1>13, <2>1, <2>4
  <2> QED BY <2>3, <2>4
<1>14. ASSUME redirected' = {}
       PROVE  /\ Len(order') <= Len(recorded')
              /\ Len(order') < MAX_REQUESTS_PER_SESSION => Len(order') = Len(recorded')
              /\ \A i \in 1 .. Len(order') :
                   /\ order'[i] = recorded'[Len(recorded') - Len(order') + i]
                   /\ requests'[order'[i]] # None
  <2>1. redirected = {} /\ patterns # {}
    BY <1>2, <1>14
  <2>2. /\ Len(order) <= Len(recorded)
        /\ Len(order) < MAX_REQUESTS_PER_SESSION => Len(order) = Len(recorded)
        /\ \A i \in 1 .. Len(order) :
             /\ order[i] = recorded[Len(recorded) - Len(order) + i]
             /\ requests[order[i]] # None
    BY <1>1, <2>1 DEF Listed
  <2>3. /\ Len(order') <= Len(recorded')
        /\ Len(order') < MAX_REQUESTS_PER_SESSION => Len(order') = Len(recorded')
    BY <1>1, <1>4, <1>5, <1>6, <2>2
  <2>4. ASSUME NEW i \in 1 .. Len(order')
        PROVE  /\ order'[i] = recorded'[Len(recorded') - Len(order') + i]
               /\ requests'[order'[i]] # None
    <3> DEFINE n == Len(recorded) - Len(order) + k + i
    <3>1. Len(recorded') - Len(order') + i = n /\ n \in 1 .. Len(recorded')
      BY <1>4, <1>5, <1>6, <2>2
    <3>2. order'[i] = recorded'[n]
      <4>1. CASE k + i = Len(order) + 1
        BY <1>4, <1>5, <1>6, <4>1
      <4>2. CASE k + i # Len(order) + 1
        <5>1. k + i \in 1 .. Len(order) /\ n \in 1 .. Len(recorded)
          BY <1>4, <1>5, <2>2, <4>2
        <5>2. order'[i] = order[k + i] /\ order[k + i] = recorded[n]
          BY <1>4, <1>5, <2>2, <4>2, <5>1
        <5> QED BY <1>6, <5>1, <5>2
      <4> QED BY <4>1, <4>2
    <3>3. order'[i] \in Req
      BY <1>4
    <3>4. ~(k = 1 /\ order'[i] = order[1])
      <4>1. SUFFICES ASSUME k = 1, order'[i] = order[1] PROVE FALSE
        OBVIOUS
      <4>2. 1 \in 1 .. Len(order) /\ Len(recorded) - Len(order) + 1 \in 1 .. Len(recorded)
        BY <1>1, <1>4, <1>5, <2>2, <4>1
      <4>3. order[1] = recorded'[Len(recorded) - Len(order) + 1]
        BY <1>6, <2>2, <4>2
      <4>4. Len(recorded) - Len(order) + 1 = n
        BY <1>6, <1>13, <1>14, <3>1, <3>2, <4>1, <4>2, <4>3
      <4> QED BY <1>5, <4>1, <4>4
    <3>5. requests'[order'[i]] = IF order'[i] = r THEN m ELSE requests[order'[i]]
      BY <1>4, <3>3, <3>4
    <3>6. order'[i] # r => \E j \in 1 .. Len(order) : order'[i] = order[j]
      BY <1>4, <1>5
    <3> HIDE DEF n
    <3> QED BY <1>3, <2>2, <3>1, <3>2, <3>5, <3>6
  <2> QED BY <2>3, <2>4
<1>15. Listed'
  BY <1>2, <1>12, <1>13, <1>14 DEF Listed
<1> QED BY <1>8, <1>9, <1>10, <1>11, <1>15 DEF CaptureInv

\* Nobody is left waiting, and nothing is listed.
LEMMA TearDownKeeps ==
  ASSUME CaptureInv, TearDown
  PROVE  CaptureInv' /\ HandedOnce
<1>1. CaptureTypeOK /\ Waits /\ FreshRecords /\ Listed
  BY DEF CaptureInv
<1>2. /\ patterns' = {} /\ requests' = NoRequests /\ order' = <<>> /\ bodies' = {}
      /\ waiters' = {} /\ waitOrder' = {} /\ UNCHANGED <<net, redirected, recorded>>
  BY DEF TearDown, Leave
<1>3. /\ outcome' \in [Waiter -> Outcome]
      /\ \A w \in Waiter : \/ w \notin waiters /\ outcome'[w] = outcome[w]
                           \/ outcome'[w].got = "error"
  <2>1. outcome \in [Waiter -> Outcome]
    BY <1>1 DEF CaptureTypeOK
  <2>2. \A w \in Waiter : /\ [outcome[w] EXCEPT !.got = "error"] \in Outcome
                          /\ [outcome[w] EXCEPT !.got = "error"].got = "error"
    BY <2>1 DEF Outcome
  <2> QED BY <2>1, <2>2 DEF TearDown
<1>4. "error" \notin Req /\ MAX_REQUESTS_PER_SESSION \in Nat
  BY CaptureAssumption
<1>5. CaptureTypeOK'
  BY <1>1, <1>2, <1>3, <1>4 DEF CaptureTypeOK, NoRequests
<1>6. Waits'
  BY <1>1, <1>2, <1>3 DEF Waits
<1>7. NoneReady' /\ FreshRecords'
  BY <1>1, <1>2 DEF NoneReady, FreshRecords, NoRequests
<1>8. Listed'
  BY <1>1, <1>2 DEF Listed
<1>9. HandedOnce
  BY <1>3, <1>4 DEF HandedOnce, Gets
<1> QED BY <1>5, <1>6, <1>7, <1>8, <1>9 DEF CaptureInv

\* A call that asks gets what is ready, or there is nothing ready and it waits.
LEMMA WaitingKeeps ==
  ASSUME CaptureInv, NEW w \in Waiter, NEW p \in Pattern, waitForNetworkResponse(w, p)
  PROVE  CaptureInv' /\ HandedOnce
<1>1. /\ CaptureTypeOK /\ Waits /\ NoneReady /\ FreshRecords /\ Listed
      /\ requests \in Requested
  BY DEF CaptureInv, CaptureTypeOK, Requested
<1>2. PICK r \in Req \cup {None} :
       /\ findReadyMatch(requests, p, r)
       /\ IF r # None
          THEN /\ requests' = Consume(requests, {r})
               /\ outcome' = [outcome EXCEPT ![w] = [got |-> r, pattern |-> p]]
               /\ UNCHANGED <<waiters, waitOrder>>
          ELSE /\ waiters' = waiters \cup {w} /\ waitOrder' = waitOrder \cup (waiters \X {w})
               /\ outcome' = [outcome EXCEPT ![w] = [got |-> "waiting", pattern |-> p]]
               /\ UNCHANGED requests
  BY DEF waitForNetworkResponse
<1>3. /\ patterns # {} /\ outcome[w].got # "waiting"
      /\ UNCHANGED <<patterns, order, bodies, net, redirected, recorded>>
  BY DEF waitForNetworkResponse
<1>4. w \notin waiters /\ outcome \in [Waiter -> Outcome]
      /\ \A i \in DOMAIN order : order[i] \in Req
  BY <1>1, <1>3 DEF Waits, CaptureTypeOK
<1>5. "waiting" \notin Req
  BY CaptureAssumption
<1>6. CASE r = None
  <2>1. NothingReady(requests, p)
    BY <1>1, <1>2, <1>6, ScanFacts
  <2>2. /\ outcome' \in [Waiter -> Outcome]
        /\ outcome'[w].got = "waiting" /\ outcome'[w].pattern = p
        /\ \A v \in Waiter : v # w => outcome'[v] = outcome[v]
    <3>1. /\ [got |-> "waiting", pattern |-> p] \in Outcome
          /\ [got |-> "waiting", pattern |-> p].got = "waiting"
          /\ [got |-> "waiting", pattern |-> p].pattern = p
      BY DEF Outcome
    <3> QED BY <1>2, <1>4, <1>6, <3>1
  <2>3. /\ waiters' = waiters \cup {w} /\ waitOrder' = waitOrder \cup (waiters \X {w})
        /\ requests' = requests
    BY <1>2, <1>6
  <2>4. CaptureTypeOK'
    BY <1>1, <1>3, <2>2, <2>3 DEF CaptureTypeOK
  <2>5. Waits'
    BY <1>1, <2>2, <2>3 DEF Waits, CaptureTypeOK
  <2>6. NoneReady'
    BY <1>1, <1>3, <1>4, <2>1, <2>2, <2>3 DEF NoneReady, NothingReady, CaptureTypeOK
  <2>7. FreshRecords' /\ Listed'
    BY <1>1, <1>3, <2>3 DEF FreshRecords, Listed
  <2>8. HandedOnce
    BY <1>5, <2>2 DEF HandedOnce, Gets
  <2> QED BY <2>4, <2>5, <2>6, <2>7, <2>8 DEF CaptureInv
<1>7. CASE r # None
  <2>1. r \in Req /\ Ready(requests, r, p)
    BY <1>1, <1>2, <1>7, ScanFacts
  <2>2. /\ outcome' \in [Waiter -> Outcome]
        /\ outcome'[w].got = r
        /\ \A v \in Waiter : v # w => outcome'[v] = outcome[v]
    <3>1. /\ [got |-> r, pattern |-> p] \in Outcome
          /\ [got |-> r, pattern |-> p].got = r
      BY <2>1 DEF Outcome
    <3> QED BY <1>2, <1>4, <1>7, <3>1
  <2>3. /\ waiters' = waiters /\ waitOrder' = waitOrder
        /\ requests' = Consume(requests, {r})
    BY <1>2, <1>7
  <2>4. /\ requests' \in Requested
        /\ \A q \in Req : requests'[q] = None <=> requests[q] = None
        /\ \A q \in Req : requests[q] # None =>
             /\ requests'[q].state = requests[q].state
             /\ requests'[q].bodyReady = requests[q].bodyReady
    BY <1>1, <2>3, ConsumeKeeps
  <2>5. CaptureTypeOK'
    BY <1>1, <1>3, <2>2, <2>3, <2>4 DEF CaptureTypeOK, Requested
  <2>6. Waits'
    BY <1>1, <1>4, <1>5, <2>1, <2>2, <2>3 DEF Waits, CaptureTypeOK
  <2>7. NoneReady'
    <3>1. \A i \in DOMAIN order : \A q :
            Ready(requests', order[i], q) => Ready(requests, order[i], q)
      BY <1>1, <1>4, <2>3, ConsumedIsNotReady
    <3>2. \A v \in waiters : outcome'[v] = outcome[v]
      BY <1>1, <1>4, <2>2 DEF CaptureTypeOK
    <3> QED BY <1>1, <1>3, <2>3, <3>1, <3>2 DEF NoneReady, NothingReady
  <2>8. FreshRecords'
    BY <1>1, <1>3, <2>4 DEF FreshRecords
  <2>9. Listed'
    <3>1. \A i \in 1 .. Len(order) : order[i] \in Req
      BY <1>1 DEF CaptureTypeOK
    <3> QED BY <1>1, <1>3, <2>4, <3>1 DEF Listed
  <2>10. HandedOnce
    <3>1. requests[r] # None /\ ~requests[r].consumed
      BY <2>1 DEF Ready
    <3>2. Taken(requests[r], requests'[r])
      BY <1>1, <2>1, <2>3, <3>1, ConsumeFacts
    <3>3. \A v \in Waiter, q \in Req : Gets(v, q) => v = w /\ q = r
      BY <2>2 DEF Gets
    <3> QED BY <3>1, <3>2, <3>3 DEF HandedOnce, Taken
  <2> QED BY <2>5, <2>6, <2>7, <2>8, <2>9, <2>10 DEF CaptureInv
<1> QED BY <1>6, <1>7

\* The timer of a waiter ends its waiting.
LEMMA TimerKeeps ==
  ASSUME CaptureInv, NEW w \in Waiter, waitTimer(w)
  PROVE  CaptureInv' /\ HandedOnce
<1>1. CaptureTypeOK /\ Waits /\ NoneReady /\ FreshRecords /\ Listed
  BY DEF CaptureInv
<1>2. /\ waiters' = waiters \ {w} /\ waitOrder' = waitOrder \cap (waiters' \X waiters')
      /\ UNCHANGED <<patterns, requests, order, bodies, net, redirected, recorded>>
      /\ outcome' = [outcome EXCEPT ![w].got = "error"]
  BY DEF waitTimer, Leave
<1>3. /\ outcome' \in [Waiter -> Outcome] /\ outcome'[w].got = "error"
      /\ \A v \in Waiter : v # w => outcome'[v] = outcome[v]
  <2>1. outcome \in [Waiter -> Outcome]
    BY <1>1 DEF CaptureTypeOK
  <2>2. /\ [outcome[w] EXCEPT !.got = "error"] \in Outcome
        /\ [outcome[w] EXCEPT !.got = "error"].got = "error"
    BY <2>1 DEF Outcome
  <2> QED BY <1>2, <2>1, <2>2
<1>4. "error" \notin Req
  BY CaptureAssumption
<1>5. CaptureTypeOK'
  BY <1>1, <1>2, <1>3 DEF CaptureTypeOK
<1>6. Waits'
  BY <1>1, <1>2, <1>3 DEF Waits, CaptureTypeOK
<1>7. NoneReady'
  BY <1>1, <1>2, <1>3 DEF NoneReady, NothingReady, CaptureTypeOK
<1>8. FreshRecords' /\ Listed'
  BY <1>1, <1>2 DEF FreshRecords, Listed
<1>9. HandedOnce
  BY <1>3, <1>4 DEF HandedOnce, Gets
<1> QED BY <1>5, <1>6, <1>7, <1>8, <1>9 DEF CaptureInv

\* A pattern more, or one less of several, changes nothing of what is recorded.
LEMMA PatternsKeep ==
  ASSUME CaptureInv, patterns' \subseteq Pattern, patterns' # {},
         patterns # {} => recorded' = recorded,
         patterns = {} => recorded' = <<>>,
         UNCHANGED <<requests, order, waitVars, bodies, net, redirected>>
  PROVE  CaptureInv' /\ HandedOnce
<1>1. /\ CaptureTypeOK /\ Waits /\ NoneReady /\ FreshRecords /\ Listed
      /\ UNCHANGED <<requests, order, waiters, waitOrder, outcome, bodies, net, redirected>>
  BY DEF CaptureInv, waitVars
<1>2. CaptureTypeOK' /\ Waits' /\ NoneReady' /\ FreshRecords'
  BY <1>1 DEF CaptureTypeOK, Waits, NoneReady, NothingReady, FreshRecords
<1>3. Listed'
  <2>1. CASE patterns = {}
    BY <1>1, <2>1 DEF Listed, CaptureTypeOK
  <2>2. CASE patterns # {}
    BY <1>1, <2>2 DEF Listed
  <2> QED BY <2>1, <2>2
<1> QED BY <1>1, <1>2, <1>3 DEF CaptureInv, HandedOnce, Gets

\* A request that matches no pattern is not recorded.
LEMMA OtherRequestKeeps ==
  ASSUME CaptureInv, NEW r \in Req, NEW url \in SUBSET Pattern, url \cap patterns = {},
         requestWillBeSent(r, url)
  PROVE  CaptureInv'
<1>1. /\ CaptureTypeOK /\ Waits /\ NoneReady /\ FreshRecords /\ Listed
      /\ net[r] # "done" /\ net' = [net EXCEPT ![r] = "sent"]
      /\ redirected \subseteq redirected' /\ redirected' \subseteq Req
      /\ UNCHANGED <<patterns, requests, order, waiters, waitOrder, outcome, bodies, recorded>>
  <2>1. CaptureTypeOK /\ Waits /\ NoneReady /\ FreshRecords /\ Listed
    BY DEF CaptureInv
  <2>2. /\ net[r] # "done" /\ net' = [net EXCEPT ![r] = "sent"]
        /\ redirected \subseteq redirected' /\ redirected' \subseteq Req
    BY <2>1 DEF requestWillBeSent, CaptureTypeOK
  <2>3. UNCHANGED <<patterns, requests, order, waiters, waitOrder, outcome, bodies, recorded>>
    BY DEF requestWillBeSent, waitVars
  <2> QED BY <2>1, <2>2, <2>3
<1>2. CaptureTypeOK' /\ Waits' /\ NoneReady'
  BY <1>1 DEF CaptureTypeOK, Waits, NoneReady, NothingReady
<1>3. FreshRecords'
  BY <1>1 DEF FreshRecords, CaptureTypeOK
<1>4. \A i \in 1 .. Len(recorded) : net'[recorded[i]] # "unsent"
  BY <1>1 DEF Listed, CaptureTypeOK
<1>5. Listed'
  BY <1>1, <1>4 DEF Listed
<1> QED BY <1>2, <1>3, <1>5 DEF CaptureInv

\* The record of a request that has ended is not ready before its body has come.
LEMMA FinishedKeeps ==
  ASSUME CaptureInv, NEW r \in Req, loadingFinished(r)
  PROVE  CaptureInv'
<1>1. /\ CaptureTypeOK /\ Waits /\ NoneReady /\ FreshRecords /\ Listed
      /\ net[r] = "sent" /\ net' = [net EXCEPT ![r] = "done"]
      /\ UNCHANGED <<patterns, order, waiters, waitOrder, outcome, redirected, recorded>>
  BY DEF CaptureInv, loadingFinished, waitVars
<1>2. requests[r] # None =>
        [requests[r] EXCEPT !.state = "finished"] \in Record
        /\ [requests[r] EXCEPT !.state = "finished"].bodyReady = requests[r].bodyReady
  BY <1>1 DEF CaptureTypeOK, Record
<1>3. /\ requests' \in Requested
      /\ \A q \in Req : /\ q # r => requests'[q] = requests[q]
                        /\ requests'[q] = None <=> requests[q] = None
      /\ requests[r] # None => requests'[r].bodyReady = FALSE
      /\ bodies' \subseteq bodies \cup {r} /\ (requests[r] = None => bodies' = bodies)
  <2>1. CASE Known(r)
    <3>1. requests[r] # None /\ requests' = [requests EXCEPT ![r].state = "finished"]
          /\ bodies' = bodies \cup {r}
      BY <2>1 DEF loadingFinished, Known
    <3>2. requests'[r] = [requests[r] EXCEPT !.state = "finished"]
          /\ \A q \in Req : q # r => requests'[q] = requests[q]
      BY <1>1, <3>1 DEF CaptureTypeOK
    <3>3. requests' \in Requested
      BY <1>1, <1>2, <3>1, <3>2 DEF CaptureTypeOK, Requested
    <3>4. requests[r].bodyReady = FALSE
      BY <1>1, <3>1 DEF FreshRecords
    <3> QED BY <1>2, <3>1, <3>2, <3>3, <3>4, CaptureAssumption
  <2>2. CASE ~Known(r)
    BY <1>1, <2>2 DEF loadingFinished, Known, CaptureTypeOK, Requested
  <2> QED BY <2>1, <2>2
<1>4. CaptureTypeOK'
  BY <1>1, <1>3 DEF CaptureTypeOK, Requested, FreshRecords
<1>5. NoneReady'
  <2>1. ASSUME NEW w \in waiters, NEW i \in DOMAIN order,
               Ready(requests', order[i], outcome[w].pattern)
        PROVE  FALSE
    <3>1. order[i] \in Req /\ ~Ready(requests, order[i], outcome[w].pattern)
      BY <1>1 DEF CaptureTypeOK, NoneReady, NothingReady
    <3> QED BY <1>3, <2>1, <3>1 DEF Ready
  <2> QED BY <1>1, <2>1 DEF NoneReady, NothingReady
<1>6. FreshRecords'
  BY <1>1, <1>3 DEF FreshRecords, CaptureTypeOK
<1>7. Listed'
  <2>1. \A i \in 1 .. Len(order) : order[i] \in Req
    BY <1>1 DEF CaptureTypeOK
  <2>2. \A i \in 1 .. Len(recorded) : net'[recorded[i]] # "unsent"
    BY <1>1 DEF Listed, CaptureTypeOK
  <2> QED BY <1>1, <1>3, <2>1, <2>2 DEF Listed
<1>8. Waits'
  BY <1>1 DEF Waits
<1> QED BY <1>4, <1>5, <1>6, <1>7, <1>8 DEF CaptureInv

\* A body has been fetched.
LEMMA BodyKeeps ==
  ASSUME CaptureInv, NEW r \in Req, captureBody(r)
  PROVE  CaptureInv' /\ HandedOnce
<1> DEFINE reqs == IF Known(r) THEN [requests EXCEPT ![r].bodyReady = TRUE] ELSE requests
<1>1. /\ CaptureTypeOK /\ FreshRecords
      /\ r \in bodies /\ bodies' = bodies \ {r} /\ notifyWaiters(reqs)
      /\ UNCHANGED <<patterns, order, net, redirected, recorded>>
  BY DEF CaptureInv, captureBody
<1>2. requests[r] # None =>
        /\ [requests[r] EXCEPT !.bodyReady = TRUE] \in Record
        /\ [requests[r] EXCEPT !.bodyReady = TRUE].consumed = requests[r].consumed
  BY <1>1 DEF CaptureTypeOK, Record
<1>3. /\ reqs \in Requested
      /\ \A q \in Req : q # r => reqs[q] = requests[q]
      /\ requests[r] = None => reqs[r] = None
      /\ requests[r] # None => reqs[r] # None /\ reqs[r].consumed = requests[r].consumed
  BY <1>1, <1>2, CaptureAssumption DEF CaptureTypeOK, Requested, Known
<1> HIDE DEF reqs
<1>4. \A q \in Req : reqs[q] = None <=> requests[q] = None
  BY <1>3
<1>5. \A q \in Req : reqs[q] # None => reqs[q].consumed = requests[q].consumed
  BY <1>3, <1>4
<1>6. \A q \in Req : net'[q] # "done" => reqs[q] = requests[q]
  BY <1>1, <1>3 DEF FreshRecords
<1>7. net' \in [Req -> {"unsent", "sent", "done"}] /\ net' = net
  BY <1>1 DEF CaptureTypeOK
<1> QED BY <1>1, <1>3, <1>4, <1>5, <1>6, <1>7, WakingKeeps

\* A request has failed.
LEMMA FailedKeeps ==
  ASSUME CaptureInv, NEW r \in Req, loadingFailed(r)
  PROVE  CaptureInv' /\ HandedOnce
<1>1. /\ CaptureTypeOK /\ Waits /\ NoneReady /\ FreshRecords /\ Listed
      /\ net[r] = "sent" /\ net' = [net EXCEPT ![r] = "done"]
      /\ UNCHANGED <<patterns, order, bodies, redirected, recorded>>
      /\ IF Known(r) THEN notifyWaiters(WithFailure(r)) ELSE UNCHANGED <<requests, waitVars>>
  BY DEF CaptureInv, loadingFailed
<1>2. net' \in [Req -> {"unsent", "sent", "done"}] /\ net'[r] = "done"
      /\ \A q \in Req : q # r => net'[q] = net[q]
  BY <1>1 DEF CaptureTypeOK
<1>3. CASE ~Known(r)
  <2>1. UNCHANGED <<requests, waiters, waitOrder, outcome>>
    BY <1>1, <1>3 DEF waitVars
  <2>2. CaptureTypeOK' /\ Waits' /\ NoneReady'
    BY <1>1, <1>2, <2>1 DEF CaptureTypeOK, Waits, NoneReady, NothingReady
  <2>3. FreshRecords'
    BY <1>1, <1>2, <2>1 DEF FreshRecords, CaptureTypeOK
  <2>4. \A i \in 1 .. Len(recorded) : net'[recorded[i]] # "unsent"
    BY <1>1, <1>2 DEF Listed, CaptureTypeOK
  <2>5. Listed'
    BY <1>1, <2>1, <2>4 DEF Listed
  <2> QED BY <2>1, <2>2, <2>3, <2>5 DEF CaptureInv, HandedOnce, Gets
<1>4. CASE Known(r)
  <2> DEFINE reqs == WithFailure(r)
  <2>1. \A m \in Record :
          /\ [m EXCEPT !.state = "failed", !.bodyReady = TRUE] \in Record
          /\ [m EXCEPT !.state = "failed", !.bodyReady = TRUE].consumed = m.consumed
    BY DEF Record
  <2>2. requests[r] \in Record
    BY <1>1, <1>4 DEF Known, CaptureTypeOK
  <2>3. reqs = [requests EXCEPT ![r] = [requests[r] EXCEPT !.state = "failed", !.bodyReady = TRUE]]
    BY <1>1, <2>2 DEF WithFailure, CaptureTypeOK
  <2>4. reqs \in Requested
    BY <1>1, <2>1, <2>2, <2>3 DEF CaptureTypeOK, Requested
  <2>5. \A q \in Req : q # r => reqs[q] = requests[q]
    BY <1>1, <2>3 DEF CaptureTypeOK
  <2>6. reqs[r] \in Record /\ reqs[r].consumed = requests[r].consumed
    BY <1>1, <2>1, <2>2, <2>3 DEF CaptureTypeOK
  <2> HIDE DEF reqs
  <2>7. \A q \in Req : reqs[q] = None <=> requests[q] = None
    BY <2>2, <2>5, <2>6, CaptureAssumption
  <2>8. \A q \in Req : reqs[q] # None => reqs[q].consumed = requests[q].consumed
    BY <2>5, <2>6
  <2>9. \A q \in Req : net'[q] # "done" => reqs[q] = requests[q]
    BY <1>2, <2>5
  <2>10. \A q \in Req : net'[q] = net[q] \/ net'[q] = "done"
    BY <1>2
  <2>11. notifyWaiters(reqs)
    BY <1>1, <1>4 DEF reqs
  <2> QED BY <1>1, <1>2, <2>4, <2>7, <2>8, <2>9, <2>10, <2>11, WakingKeeps
<1> QED BY <1>3, <1>4

\* Every step keeps the invariant of the network capture.
LEMMA CaptureInvStep == CaptureInv /\ [CaptureNext]_captureVars => CaptureInv' /\ HandedOnce
<1> SUFFICES ASSUME CaptureInv, [CaptureNext]_captureVars PROVE CaptureInv' /\ HandedOnce
  OBVIOUS
<1>1. patterns \subseteq Pattern
  BY DEF CaptureInv, CaptureTypeOK
<1>2. (\A w \in Waiter : outcome'[w] = outcome[w]) => HandedOnce
  BY DEF HandedOnce, Gets
<1>3. ASSUME NEW p \in Pattern, CaptureStarts(p) PROVE CaptureInv' /\ HandedOnce
  BY <1>1, <1>3, PatternsKeep DEF CaptureStarts
<1>4. ASSUME NEW p \in Pattern, CaptureStops(p) PROVE CaptureInv' /\ HandedOnce
  <2>1. CASE TearDown
    BY <2>1, TearDownKeeps
  <2>2. CASE /\ \E q \in patterns : patterns # {q}
             /\ patterns' = patterns \ {p}
             /\ UNCHANGED <<requests, order, waitVars, bodies, net, redirected, recorded>>
    BY <1>1, <2>2, PatternsKeep
  <2> QED BY <1>4, <2>1, <2>2 DEF CaptureStops
<1>5. ASSUME NEW p \in Pattern, NEW w \in Waiter, waitForNetworkResponse(w, p)
      PROVE  CaptureInv' /\ HandedOnce
  BY <1>5, WaitingKeeps
<1>6. ASSUME NEW r \in Req, NEW url \in SUBSET Pattern, requestWillBeSent(r, url)
      PROVE  CaptureInv' /\ HandedOnce
  <2>1. CaptureInv'
    BY <1>6, RecordingKeeps, OtherRequestKeeps
  <2>2. outcome' = outcome
    BY <1>6 DEF requestWillBeSent, waitVars
  <2> QED BY <1>2, <2>1, <2>2
<1>7. ASSUME NEW r \in Req, loadingFinished(r) PROVE CaptureInv' /\ HandedOnce
  <2>1. outcome' = outcome
    BY <1>7 DEF loadingFinished, waitVars
  <2> QED BY <1>2, <1>7, <2>1, FinishedKeeps
<1>8. ASSUME NEW r \in Req, captureBody(r) PROVE CaptureInv' /\ HandedOnce
  BY <1>8, BodyKeeps
<1>9. ASSUME NEW r \in Req, loadingFailed(r) PROVE CaptureInv' /\ HandedOnce
  BY <1>9, FailedKeeps
<1>10. ASSUME NEW w \in Waiter, waitTimer(w) PROVE CaptureInv' /\ HandedOnce
  BY <1>10, TimerKeeps
<1>11. CASE cleanupNetworkSession
  BY <1>11, TearDownKeeps DEF cleanupNetworkSession
<1>12. CASE UNCHANGED captureVars
  <2>1. UNCHANGED <<patterns, requests, order, waiters, waitOrder, outcome, bodies, net,
                    redirected, recorded>>
    BY <1>12 DEF captureVars, waitVars
  <2>2. CaptureInv'
    BY <2>1 DEF CaptureInv, CaptureTypeOK, Waits, NoneReady, NothingReady, FreshRecords, Listed
  <2> QED BY <1>2, <2>1, <2>2
<1> QED BY <1>3, <1>4, <1>5, <1>6, <1>7, <1>8, <1>9, <1>10, <1>11, <1>12 DEF CaptureNext

\* The places before the i-th of n are i - 1.
LEMMA EarlierPlaces ==
  ASSUME NEW n \in Nat, NEW i \in 1 .. n
  PROVE  Cardinality({k \in 1 .. n : k < i}) = i - 1
<1>1. {k \in 1 .. n : k < i} = 1 .. (i - 1)
  OBVIOUS
<1>2. Cardinality(1 .. (i - 1)) = i - 1
  BY FS_Interval
<1> QED BY <1>1, <1>2

\* Before any but the first there is the first.
LEMMA NoneEarlier ==
  ASSUME NEW n \in Nat, NEW i \in 1 .. n, {k \in 1 .. n : k < i} = {}
  PROVE  i = 1
<1>1. 1 \in 1 .. n /\ i \in Nat /\ 1 <= i
  OBVIOUS
<1>2. 1 \notin {k \in 1 .. n : k < i}
  OBVIOUS
<1>3. ~(1 < i)
  BY <1>1, <1>2
<1> QED BY <1>1, <1>3

\* Among at most m places fewer than m come before any of them.
LEMMA FewEarlier ==
  ASSUME NEW n \in Nat, NEW m \in Nat, n <= m, NEW hits \in SUBSET (1 .. n), NEW i \in hits
  PROVE  Cardinality({k \in hits : k < i}) < m
<1>1. {k \in hits : k < i} \subseteq {k \in 1 .. n : k < i}
  OBVIOUS
<1>2. {k \in 1 .. n : k < i} = 1 .. (i - 1)
  OBVIOUS
<1>3. IsFiniteSet(1 .. (i - 1)) /\ Cardinality(1 .. (i - 1)) = i - 1
  BY FS_Interval
<1>4. /\ Cardinality({k \in hits : k < i}) <= i - 1
      /\ Cardinality({k \in hits : k < i}) \in Nat
  BY <1>1, <1>2, <1>3, FS_Subset, FS_CardinalityType
<1> QED BY <1>4

\* What the inductive invariant says in the words of the module.
LEMMA CaptureInvSafe == CaptureInv => CaptureSafe
<1> SUFFICES ASSUME CaptureInv PROVE CaptureSafe
  OBVIOUS
<1>1. /\ CaptureTypeOK /\ Waits /\ NoneReady /\ Listed
      /\ MAX_REQUESTS_PER_SESSION \in Nat \ {0}
  BY CaptureAssumption DEF CaptureInv
<1>2. NoForgottenWaiter
  <2>1. \A w \in waiters : findReadyMatch(requests, outcome[w].pattern, None)
    BY <1>1 DEF NoneReady, NothingReady, findReadyMatch
  <2> QED BY <1>1, <2>1 DEF NoForgottenWaiter, Waits, CaptureTypeOK
<1>3. ASSUME patterns # {}, redirected = {}
      PROVE  RecentRequestsHeld
  <2>1. /\ order \in Seq(Req) /\ recorded \in Seq(Req)
        /\ Len(order) \in Nat /\ Len(recorded) \in Nat
        /\ Len(order) <= MAX_REQUESTS_PER_SESSION /\ DOMAIN order = 1 .. Len(order)
    BY <1>1, LenProperties DEF CaptureTypeOK
  <2>2. /\ Len(order) <= Len(recorded)
        /\ Len(order) < MAX_REQUESTS_PER_SESSION => Len(order) = Len(recorded)
        /\ \A i \in 1 .. Len(order) : order[i] = recorded[Len(recorded) - Len(order) + i]
        /\ \A i \in 1 .. Len(order) : requests[order[i]] # None
    BY <1>1, <1>3 DEF Listed
  <2> DEFINE from == Len(recorded) - Len(order) + 1
             last == SubSeq(recorded, from, Len(recorded))
  <2>3. from = IF Len(recorded) > MAX_REQUESTS_PER_SESSION
               THEN Len(recorded) - MAX_REQUESTS_PER_SESSION + 1 ELSE 1
    BY <1>1, <2>1, <2>2
  <2>4. last \in Seq(Req) /\ Len(last) = Len(order)
        /\ \A i \in 1 .. Len(order) : last[i] = order[i]
    BY <2>1, <2>2, SubSeqProperties
  <2>5. order = last
    BY <2>1, <2>4, SeqEqual
  <2> HIDE DEF last
  <2>6. ASSUME NEW limit \in 1 .. MAX_REQUESTS_PER_SESSION
        PROVE  getCapturedRequests(None, limit)
                 = 1 .. (IF Len(order) < limit THEN Len(order) ELSE limit)
    <3>1. \A i \in 1 .. Len(order) : Cardinality({k \in 1 .. Len(order) : k < i}) = i - 1
      BY <2>1, EarlierPlaces
    <3>2. getCapturedRequests(None, limit)
            = {i \in 1 .. Len(order) :
                 \/ {k \in 1 .. Len(order) : k < i} = {}
                 \/ Cardinality({k \in 1 .. Len(order) : k < i}) < limit}
      <4>1. {i \in DOMAIN order : requests[order[i]] # None
                                    /\ (None = None \/ None \in requests[order[i]].url)}
              = 1 .. Len(order)
        BY <2>1, <2>2
      <4> QED BY <4>1 DEF getCapturedRequests
    <3>3. \A i \in 1 .. Len(order) : {k \in 1 .. Len(order) : k < i} = {} => i = 1
      BY <2>1, NoneEarlier
    <3>4. limit \in Nat /\ 1 <= limit
      BY <1>1
    <3>5. ASSUME NEW i \in 1 .. Len(order)
          PROVE  ({k \in 1 .. Len(order) : k < i} = {}
                   \/ Cardinality({k \in 1 .. Len(order) : k < i}) < limit) <=> i <= limit
      <4>1. Cardinality({k \in 1 .. Len(order) : k < i}) = i - 1
        BY <3>1
      <4> DEFINE earlier == {k \in 1 .. Len(order) : k < i}
      <4>2. earlier = {} => i = 1
        BY <3>3
      <4>3. Cardinality(earlier) = i - 1
        BY <4>1
      <4> HIDE DEF earlier
      <4>4. (earlier = {} \/ Cardinality(earlier) < limit) <=> i <= limit
        BY <2>1, <3>4, <4>2, <4>3
      <4> QED BY <4>4 DEF earlier
    <3>6. getCapturedRequests(None, limit) = {i \in 1 .. Len(order) : i <= limit}
      BY <3>2, <3>5, Zenon
    <3>7. {i \in 1 .. Len(order) : i <= limit}
            = 1 .. (IF Len(order) < limit THEN Len(order) ELSE limit)
      BY <2>1, <3>4
    <3> QED BY <3>6, <3>7
  <2>7. ASSUME NEW p \in Pattern
        PROVE  getCapturedRequests(p, MAX_REQUESTS_PER_SESSION)
                 = {i \in DOMAIN order : p \in requests[order[i]].url}
    <3> DEFINE hits == {i \in DOMAIN order : p \in requests[order[i]].url}
    <3>1. {i \in DOMAIN order : requests[order[i]] # None
                                  /\ (p = None \/ p \in requests[order[i]].url)} = hits
      BY <2>1, <2>2, CaptureAssumption
    <3>2. hits \subseteq 1 .. Len(order)
      BY <2>1
    <3> HIDE DEF hits
    <3>3. \A i \in hits : Cardinality({k \in hits : k < i}) < MAX_REQUESTS_PER_SESSION
      BY <1>1, <2>1, <3>2, FewEarlier
    <3>4. getCapturedRequests(p, MAX_REQUESTS_PER_SESSION)
            = {i \in hits : \/ {k \in hits : k < i} = {}
                             \/ Cardinality({k \in hits : k < i}) < MAX_REQUESTS_PER_SESSION}
      BY <3>1 DEF getCapturedRequests
    <3>5. getCapturedRequests(p, MAX_REQUESTS_PER_SESSION) = hits
      BY <3>3, <3>4
    <3> QED BY <3>5 DEF hits
  <2> QED BY <2>1, <2>2, <2>3, <2>5, <2>6, <2>7 DEF RecentRequestsHeld, last
<1> QED BY <1>1, <1>2, <1>3 DEF CaptureSafe, RecentRequestsHeld

\* No caller is kept waiting for a response the session has, and the session, unless a
\* request was redirected, holds the last requests it recorded; a call lists them from
\* the oldest on, up to its limit: for any limits, requests, patterns and callers.
THEOREM CaptureIsSafe == CaptureSpec => []CaptureSafe
<1>1. CaptureInit => CaptureInv
  BY CaptureAssumption
     DEF CaptureInit, CaptureInv, CaptureTypeOK, Waits, NoneReady, FreshRecords, Listed,
         NoRequests, Outcome
<1> QED BY <1>1, CaptureInvStep, CaptureInvSafe, PTL DEF CaptureSpec

\* A response goes to one call only, also when one event wakes several.
THEOREM ResponsesGoOnce == CaptureSpec => ConsumedOnce
<1>1. CaptureInit => CaptureInv
  BY CaptureAssumption
     DEF CaptureInit, CaptureInv, CaptureTypeOK, Waits, NoneReady, FreshRecords, Listed,
         NoRequests, Outcome
<1>2. HandedOnce <=> \A w \in Waiter, r \in Req : Gets(w, r) =>
                       /\ ~requests[r].consumed /\ requests'[r].consumed
                       /\ \A v \in Waiter : Gets(v, r) => v = w
  BY DEF HandedOnce
<1> QED BY <1>1, <1>2, CaptureInvStep, PTL DEF CaptureSpec, ConsumedOnce

----------------------------------------------------------------------------
(* Frames: the invariant *)

\* The page is a tree: every frame has one place under one parent, as a child and
\* as an element, and every frame that is there is within the main one.
IsTree(p) ==
  /\ p \in Page /\ p.url[Top] # NoFrame
  /\ \A f \in AllFrames :
       /\ IsInjective(p.kids[f]) /\ IsInjective(p.dom[f])
       /\ ToSet(p.dom[f]) = ToSet(p.kids[f])
       /\ ToSet(p.kids[f]) \subseteq Live(p)
  /\ \A f, g \in AllFrames : f # g => ToSet(p.kids[f]) \cap ToSet(p.kids[g]) = {}
  /\ \A S \in SUBSET AllFrames : Top \in S /\ Closed(p, S) => Live(p) \subseteq S
  /\ \A f \in Frame : p.src[f] = NoFrame => p.url[f] = NoFrame

IsListing(list) == list \in Listing /\ IsTree(list.tree)

CallType ==
  [step : {"idle", "resolving", "path", "found", "chaining", "offset"},
   spec : Specs \cup {[by |-> "nothing"]}, tree : {NoFrame} \cup Page \cup Listing,
   nav  : {NoFrame} \cup Page, left : Seq(Segment \cup AllFrames),
   at   : AllFrames \cup {NoFrame} \cup Failures, meant : Seq(Frame \cup {NoFrame}),
   offset : Seq(Frame \cup {NoFrame}), result : AllFrames \cup {NoFrame} \cup Failures,
   changes : 0 .. MaxChanges]

\* While it waits for the answers a call has no listing.
Awaits(c) ==
  c.step \in {"resolving", "chaining"} =>
    /\ frameTreeCache = NoFrame
    /\ c.tree = NoFrame \/ IsTree(c.tree)
    /\ c.nav \in {NoFrame, Nothing} \/ IsTree(c.nav)
    /\ IF c.step = "resolving" THEN c.meant = <<>> ELSE c.at \in AllFrames /\ c.changes > 0
    /\ c.offset = <<>>

\* While it looks at the page it goes by a listing, the one that is kept unless the
\* page has changed.
Looks(c) ==
  c.step \in {"path", "offset"} =>
    IsListing(c.tree) /\ (c.changes = 0 => c.tree = frameTreeCache) /\ c.nav = NoFrame

Follows(c) ==
  c.step = "path" => /\ c.at \in ListedFrames(c.tree) /\ c.offset = <<>>
                     /\ c.left \in Seq(Segment) /\ c.left # <<>>

Finds(c) ==
  c.step = "found" => /\ c.at \in AllFrames /\ c.offset = <<>> /\ c.nav = NoFrame
                      /\ c.changes = 0 => frameTreeCache # NoFrame /\ c.at \in ListedFrames(frameTreeCache)

\* What is left of the chain, and what has been measured of it.
Measures(c) ==
  c.step = "offset" =>
    LET chain == getFrameChain(c.tree, c.at)
        n     == Len(c.offset)
    IN  /\ c.at \in ListedFrames(c.tree)
        /\ n + 1 < Len(chain) /\ c.left = SubSeq(chain, n + 1, Len(chain))
        /\ c.changes = 0 /\ c.tree.tree = page
           /\ (\A i \in 2 .. Len(chain) : Placed(chain[i]) /\ Unmistakable(chain[i]))
           => c.offset = SubSeq(chain, 2, n + 1)

CallInv ==
  /\ call \in CallType /\ Awaits(call) /\ Looks(call) /\ Follows(call) /\ Finds(call)
  /\ Measures(call) /\ PathLeadsThere /\ OffsetIsItsOwn

FramesInv ==
  /\ IsTree(page) /\ (frameTreeCache # NoFrame => IsListing(frameTreeCache))
  /\ NumbersAreTrue /\ ListingIsCurrent /\ CallInv

\* A member of a sequence without repetition has one position.
LEMMA IndexIs ==
  ASSUME NEW A, NEW s \in Seq(A), NEW x \in ToSet(s), IsInjective(s)
  PROVE  /\ IndexIn(s, x) \in DOMAIN s /\ s[IndexIn(s, x)] = x
         /\ \A i \in DOMAIN s : s[i] = x => i = IndexIn(s, x)
<1>1. \E i \in DOMAIN s : s[i] = x
  BY DEF ToSet
<1>2. IndexIn(s, x) \in DOMAIN s /\ s[IndexIn(s, x)] = x
  BY <1>1 DEF IndexIn
<1> QED
  BY <1>2 DEF IsInjective

\* find answers one of the sequence that fits, or nothing.
LEMMA FirstIs ==
  ASSUME NEW s \in Seq(Frame), NEW S
  PROVE  \/ FirstOf(s, S) = NoFrame /\ ToSet(s) \cap S = {}
         \/ FirstOf(s, S) \in ToSet(s) \cap S
<1> DEFINE found == {i \in DOMAIN s : s[i] \in S}
<1>1. found \in SUBSET Nat
  OBVIOUS
<1>2. FirstOf(s, S) = IF found = {} THEN NoFrame ELSE s[Min(found)]
  BY DEF FirstOf
<1>3. CASE found = {}
  BY <1>2, <1>3 DEF ToSet
<1>4. CASE found # {}
  <2>1. Min(found) \in found
    <3> HIDE DEF found
    <3> QED
      BY <1>1, <1>4, MinIsIn
  <2> QED
    BY <1>2, <1>4, <2>1 DEF ToSet
<1> QED
  BY <1>3, <1>4

\* requireSingleFrame answers one that was found or a failure.
LEMMA SingleIs ==
  ASSUME NEW S \in SUBSET AllFrames
  PROVE  /\ requireSingleFrame(S) \in S \cup Failures
         /\ \A f : S = {f} => requireSingleFrame(S) = f
<1>1. IsFiniteSet(S)
  BY FrameAssumption, FS_Subset, FS_AddElement DEF AllFrames
<1>2. CASE Cardinality(S) = 1
  <2>1. PICK x : S = {x}
    BY <1>1, <1>2, FS_Singleton
  <2>2. requireSingleFrame(S) = CHOOSE f \in S : TRUE
    BY <1>2 DEF requireSingleFrame
  <2> QED
    BY <2>1, <2>2
<1>3. CASE Cardinality(S) # 1
  <2>1. \A f : S # {f}
    BY <1>3, FS_Singleton
  <2> QED
    BY <1>3, <2>1 DEF requireSingleFrame, Failures
<1> QED
  BY <1>2, <1>3

----------------------------------------------------------------------------
(* Frames: the page is a tree *)

\* What the parts of a page are.
LEMMA PageParts ==
  ASSUME NEW p \in Page
  PROVE  /\ p.kids \in [AllFrames -> Seq(Frame)] /\ p.dom \in [AllFrames -> Seq(Frame)]
         /\ p.src \in [AllFrames -> Url \cup {NoUrl, NoFrame}]
         /\ p.name \in [AllFrames -> FrameName \cup {NoFrame}]
         /\ p.url \in [AllFrames -> Url \cup {NoFrame}]
         /\ \A f \in AllFrames : ToSet(p.kids[f]) \subseteq Frame /\ ToSet(p.dom[f]) \subseteq Frame
         /\ p = [kids |-> p.kids, dom |-> p.dom, src |-> p.src, name |-> p.name, url |-> p.url]
<1>1. /\ p.kids \in [AllFrames -> Seq(Frame)] /\ p.dom \in [AllFrames -> Seq(Frame)]
      /\ p.src \in [AllFrames -> Url \cup {NoUrl, NoFrame}]
      /\ p.name \in [AllFrames -> FrameName \cup {NoFrame}]
      /\ p.url \in [AllFrames -> Url \cup {NoFrame}]
      /\ p = [kids |-> p.kids, dom |-> p.dom, src |-> p.src, name |-> p.name, url |-> p.url]
  BY DEF Page
<1>2. \A f \in AllFrames : ToSet(p.kids[f]) \subseteq Frame /\ ToSet(p.dom[f]) \subseteq Frame
  BY <1>1, MembersAre
<1> QED
  BY <1>1, <1>2

\* A child has one parent.
LEMMA ParentIs ==
  ASSUME NEW p, IsTree(p), NEW g \in AllFrames, NEW f \in ToSet(p.kids[g])
  PROVE  Parent(p, f) = g
<1>1. \A h \in AllFrames : f \in ToSet(p.kids[h]) => h = g
  BY DEF IsTree
<1> QED
  BY <1>1 DEF Parent

\* Every frame that is there, but for the main one, has a parent.
LEMMA HasParent ==
  ASSUME NEW p, IsTree(p), NEW f \in Live(p), f # Top
  PROVE  Parent(p, f) \in AllFrames /\ f \in ToSet(p.kids[Parent(p, f)]) /\ f \in Frame
<1>1. f \in AllFrames
  BY DEF Live
<1>2. \E g \in AllFrames : f \in ToSet(p.kids[g])
  <2> SUFFICES ASSUME \A g \in AllFrames : f \notin ToSet(p.kids[g]) PROVE FALSE
    OBVIOUS
  <2> DEFINE S == AllFrames \ {f}
  <2>1. S \in SUBSET AllFrames /\ Top \in S
    BY DEF AllFrames
  <2>2. Closed(p, S)
    BY PageParts DEF IsTree, Closed, AllFrames
  <2>3. Live(p) \subseteq S
    BY <2>1, <2>2 DEF IsTree
  <2> QED
    BY <2>3
<1> QED
  BY <1>1, <1>2 DEF Parent, AllFrames

\* What lies within a frame is closed, and is neither that frame nor the main one.
LEMMA BelowIs ==
  ASSUME NEW p, IsTree(p), NEW f \in Live(p)
  PROVE  /\ Below(p, f) \in SUBSET Frame /\ f \notin Below(p, f)
         /\ ToSet(p.kids[f]) \subseteq Below(p, f) /\ Closed(p, Below(p, f))
<1> DEFINE B == Below(p, f)
<1>1. f \in AllFrames /\ \A g \in AllFrames : ToSet(p.kids[g]) \subseteq Frame
  BY PageParts DEF Live, IsTree
<1>2. B \in SUBSET AllFrames
  BY DEF Below
<1>3. Top \notin B
  <2> DEFINE S == Frame
  <2>1. S \in SUBSET AllFrames /\ ToSet(p.kids[f]) \subseteq S /\ Closed(p, S) /\ Top \notin S
    BY <1>1, FrameAssumption DEF AllFrames, Closed
  <2> QED
    BY <2>1 DEF Below
<1>4. ToSet(p.kids[f]) \subseteq B
  BY <1>1 DEF Below, AllFrames
<1>5. Closed(p, B)
  <2> SUFFICES ASSUME NEW g \in B, NEW h \in ToSet(p.kids[g]) PROVE h \in B
    BY DEF Closed
  <2>1. h \in AllFrames
    BY <1>1, <1>2 DEF AllFrames
  <2>2. ASSUME NEW S \in SUBSET AllFrames, ToSet(p.kids[f]) \subseteq S, Closed(p, S)
        PROVE  h \in S
    <3>1. g \in S
      BY <2>2 DEF Below
    <3> QED
      BY <2>2, <3>1 DEF Closed
  <2> QED
    BY <2>1, <2>2 DEF Below
<1>6. \A h \in B : h \in ToSet(p.kids[f]) \/ \E b \in B : h \in ToSet(p.kids[b])
  <2> SUFFICES ASSUME NEW h \in B, h \notin ToSet(p.kids[f]),
                      \A b \in B : h \notin ToSet(p.kids[b])
               PROVE  FALSE
    OBVIOUS
  <2> DEFINE S == B \ {h}
  <2>1. S \in SUBSET AllFrames /\ ToSet(p.kids[f]) \subseteq S
    BY <1>2, <1>4
  <2>2. Closed(p, S)
    BY <1>5 DEF Closed
  <2>3. h \in S
    BY <2>1, <2>2 DEF Below
  <2> QED
    BY <2>3
<1>7. f \notin B
  <2> SUFFICES ASSUME f \in B PROVE FALSE
    OBVIOUS
  <2> DEFINE S == AllFrames \ B
  <2>1. S \in SUBSET AllFrames /\ Top \in S
    BY <1>3 DEF AllFrames
  <2>2. Closed(p, S)
    <3> SUFFICES ASSUME NEW c \in S, NEW k \in ToSet(p.kids[c]), k \in B PROVE FALSE
      BY <1>1 DEF Closed, AllFrames
    <3>1. \E b \in B : k \in ToSet(p.kids[b])
      BY <1>6
    <3>2. \A b \in AllFrames : k \in ToSet(p.kids[b]) => b = c
      BY DEF IsTree
    <3> QED
      BY <1>2, <3>1, <3>2
  <2>3. Live(p) \subseteq S
    BY <2>1, <2>2 DEF IsTree
  <2> QED
    BY <2>3
<1> QED
  BY <1>2, <1>3, <1>4, <1>5, <1>7 DEF AllFrames

\* What is left of a tree when frames go with all that lies within them.
LEMMA WithoutTree ==
  ASSUME NEW p, IsTree(p), NEW gone \in SUBSET Frame, Closed(p, gone)
  PROVE  /\ IsTree(Without(p, gone)) /\ Live(Without(p, gone)) = Live(p) \ gone
         /\ Without(p, gone).url = [f \in AllFrames |-> IF f \in gone THEN NoFrame ELSE p.url[f]]
         /\ Without(p, gone).src = p.src
<1> DEFINE q == Without(p, gone)
<1>1. p \in Page
  BY DEF IsTree
<1>2. /\ q.kids = [f \in AllFrames |-> Kept(p.kids[f], AllFrames \ gone)]
      /\ q.dom = [f \in AllFrames |-> Kept(p.dom[f], AllFrames \ gone)]
      /\ q.url = [f \in AllFrames |-> IF f \in gone THEN NoFrame ELSE p.url[f]]
      /\ q.src = p.src /\ q.name = p.name
      /\ q = [kids |-> q.kids, dom |-> q.dom, src |-> q.src, name |-> q.name, url |-> q.url]
  <2>1. p = [kids |-> p.kids, dom |-> p.dom, src |-> p.src, name |-> p.name, url |-> p.url]
    BY <1>1, PageParts
  <2> DEFINE kids == [f \in AllFrames |-> Kept(p.kids[f], AllFrames \ gone)]
             dom  == [f \in AllFrames |-> Kept(p.dom[f], AllFrames \ gone)]
             url  == [f \in AllFrames |-> IF f \in gone THEN NoFrame ELSE p.url[f]]
  <2>2. q = [p EXCEPT !.kids = kids, !.dom = dom, !.url = url]
    BY DEF Without
  <2> HIDE DEF q, kids, dom, url
  <2>3. q = [kids |-> kids, dom |-> dom, src |-> p.src, name |-> p.name, url |-> url]
    BY <2>1, <2>2
  <2> QED
    BY <2>3 DEF kids, dom, url
<1> HIDE DEF q
<1>3. \A f \in AllFrames :
        /\ p.kids[f] \in Seq(Frame) /\ p.dom[f] \in Seq(Frame)
        /\ IsInjective(p.kids[f]) /\ IsInjective(p.dom[f]) /\ ToSet(p.dom[f]) = ToSet(p.kids[f])
        /\ ToSet(p.kids[f]) \subseteq Live(p) /\ ToSet(p.kids[f]) \subseteq Frame
  BY <1>1, PageParts DEF IsTree
<1>4. \A f \in AllFrames :
        /\ q.kids[f] \in Seq(Frame) /\ IsInjective(q.kids[f])
        /\ ToSet(q.kids[f]) = ToSet(p.kids[f]) \ gone
        /\ q.dom[f] \in Seq(Frame) /\ IsInjective(q.dom[f])
        /\ ToSet(q.dom[f]) = ToSet(p.kids[f]) \ gone
  <2> SUFFICES ASSUME NEW f \in AllFrames
               PROVE  /\ q.kids[f] \in Seq(Frame) /\ IsInjective(q.kids[f])
                      /\ ToSet(q.kids[f]) = ToSet(p.kids[f]) \ gone
                      /\ q.dom[f] \in Seq(Frame) /\ IsInjective(q.dom[f])
                      /\ ToSet(q.dom[f]) = ToSet(p.kids[f]) \ gone
    OBVIOUS
  <2> DEFINE S == AllFrames \ gone
  <2>1. ToSet(p.kids[f]) \cap S = ToSet(p.kids[f]) \ gone
    BY <1>3 DEF AllFrames
  <2> HIDE DEF S
  <2>2. q.kids[f] = Kept(p.kids[f], S) /\ q.dom[f] = Kept(p.dom[f], S)
    BY <1>2 DEF S
  <2>3. /\ Kept(p.kids[f], S) \in Seq(Frame) /\ IsInjective(Kept(p.kids[f], S))
        /\ ToSet(Kept(p.kids[f], S)) = ToSet(p.kids[f]) \cap S
    BY <1>3, KeptSet
  <2>4. /\ Kept(p.dom[f], S) \in Seq(Frame) /\ IsInjective(Kept(p.dom[f], S))
        /\ ToSet(Kept(p.dom[f], S)) = ToSet(p.dom[f]) \cap S
    BY <1>3, KeptSet
  <2> QED
    BY <1>3, <2>1, <2>2, <2>3, <2>4
<1>5. q \in Page
  <2>1. q.kids \in [AllFrames -> Seq(Frame)] /\ q.dom \in [AllFrames -> Seq(Frame)]
    BY <1>2, <1>4
  <2>2. q.url \in [AllFrames -> Url \cup {NoFrame}]
    BY <1>1, <1>2, PageParts
  <2> QED
    BY <1>1, <1>2, <2>1, <2>2, PageParts DEF Page
<1>6. Live(q) = Live(p) \ gone
  BY <1>2 DEF Live, AllFrames
<1>7. q.url[Top] # NoFrame
  BY <1>2, FrameAssumption DEF IsTree, AllFrames
<1>8. \A f, g \in AllFrames : f # g => ToSet(q.kids[f]) \cap ToSet(q.kids[g]) = {}
  <2>1. \A f, g \in AllFrames : f # g => ToSet(p.kids[f]) \cap ToSet(p.kids[g]) = {}
    BY DEF IsTree
  <2> QED
    BY <1>4, <2>1
<1>9. ASSUME NEW S \in SUBSET AllFrames, Top \in S, Closed(q, S)
      PROVE  Live(q) \subseteq S
  <2> DEFINE C == S \cup gone
  <2>1. C \in SUBSET AllFrames /\ Top \in C
    BY <1>9 DEF AllFrames
  <2>2. Closed(p, C)
    BY <1>4, <1>9 DEF Closed
  <2>3. Live(p) \subseteq C
    BY <2>1, <2>2 DEF IsTree
  <2> QED
    BY <1>6, <2>3
<1>10. \A f \in Frame : q.src[f] = NoFrame => q.url[f] = NoFrame
  BY <1>2 DEF IsTree, AllFrames
<1>11. IsTree(q)
  BY <1>3, <1>4, <1>5, <1>6, <1>7, <1>8, <1>9, <1>10 DEF IsTree
<1> QED
  BY <1>2, <1>6, <1>11 DEF q

\* A frame that is there loads another document.
LEMMA ReloadTree ==
  ASSUME NEW p, IsTree(p), NEW f \in Live(p), NEW u \in Url
  PROVE  IsTree([p EXCEPT !.url[f] = u])
<1> DEFINE q == [p EXCEPT !.url[f] = u]
<1>1. p \in Page /\ f \in AllFrames
  BY DEF IsTree, Live
<1>2. /\ q.kids = p.kids /\ q.dom = p.dom /\ q.src = p.src /\ q.name = p.name
      /\ q.url = [p.url EXCEPT ![f] = u]
      /\ q = [kids |-> q.kids, dom |-> q.dom, src |-> q.src, name |-> q.name, url |-> q.url]
  BY <1>1, PageParts DEF Page
<1> HIDE DEF q
<1>3. q \in Page
  BY <1>1, <1>2, PageParts DEF Page
<1>4. Live(q) = Live(p) /\ q.url[Top] # NoFrame
  BY <1>1, <1>2, PageParts, FrameAssumption DEF Live, IsTree, AllFrames
<1>5. \A S \in SUBSET AllFrames : Closed(q, S) <=> Closed(p, S)
  BY <1>2 DEF Closed
<1>6. \A g \in Frame : q.src[g] = NoFrame => q.url[g] = NoFrame
  BY <1>1, <1>2, PageParts DEF IsTree, Live, AllFrames
<1> QED
  BY <1>2, <1>3, <1>4, <1>5, <1>6 DEF IsTree, q

\* A new frame is inserted.
LEMMA AttachTree ==
  ASSUME NEW p, IsTree(p), NEW f \in Frame, p.src[f] = NoFrame, NEW g \in Live(p),
         NEW src \in (Url \ {Blank}) \cup {NoUrl}, NEW name \in FrameName \cup {NoFrame},
         NEW i \in 1 .. Len(p.dom[g]) + 1, NEW q,
         q = [p EXCEPT !.kids[g] = Append(@, f), !.dom[g] = InsertAt(@, i, f),
                       !.src[f] = src, !.name[f] = name,
                       !.url[f] = IF src = NoUrl THEN Blank ELSE src]
  PROVE  IsTree(q) /\ f \notin Live(p)
<1> DEFINE u == IF src = NoUrl THEN Blank ELSE src
<1>1. p \in Page /\ f \in AllFrames /\ g \in AllFrames /\ f \notin Live(p) /\ f # Top
  BY FrameAssumption DEF IsTree, Live, AllFrames
<1>2. u \in Url /\ u # NoFrame /\ src # NoFrame
  BY FrameAssumption
<1>3. /\ q.kids = [p.kids EXCEPT ![g] = Append(p.kids[g], f)]
      /\ q.dom = [p.dom EXCEPT ![g] = InsertAt(p.dom[g], i, f)]
      /\ q.src = [p.src EXCEPT ![f] = src] /\ q.name = [p.name EXCEPT ![f] = name]
      /\ q.url = [p.url EXCEPT ![f] = u]
      /\ q = [kids |-> q.kids, dom |-> q.dom, src |-> q.src, name |-> q.name, url |-> q.url]
  BY <1>1, PageParts DEF Page
<1> HIDE DEF u
<1>4. \A h \in AllFrames :
        /\ p.kids[h] \in Seq(Frame) /\ p.dom[h] \in Seq(Frame)
        /\ IsInjective(p.kids[h]) /\ IsInjective(p.dom[h]) /\ ToSet(p.dom[h]) = ToSet(p.kids[h])
        /\ ToSet(p.kids[h]) \subseteq Live(p) /\ f \notin ToSet(p.kids[h])
  BY <1>1, PageParts DEF IsTree
<1>5. /\ Append(p.kids[g], f) \in Seq(Frame) /\ IsInjective(Append(p.kids[g], f))
      /\ ToSet(Append(p.kids[g], f)) = ToSet(p.kids[g]) \cup {f}
  BY <1>1, <1>4, AppendSet
<1>6. /\ InsertAt(p.dom[g], i, f) \in Seq(Frame) /\ IsInjective(InsertAt(p.dom[g], i, f))
      /\ ToSet(InsertAt(p.dom[g], i, f)) = ToSet(p.kids[g]) \cup {f}
  BY <1>1, <1>4, InsertSet
<1>7. \A h \in AllFrames :
        /\ q.kids[h] \in Seq(Frame) /\ q.dom[h] \in Seq(Frame)
        /\ IsInjective(q.kids[h]) /\ IsInjective(q.dom[h]) /\ ToSet(q.dom[h]) = ToSet(q.kids[h])
        /\ ToSet(q.kids[h]) = IF h = g THEN ToSet(p.kids[h]) \cup {f} ELSE ToSet(p.kids[h])
  <2> SUFFICES ASSUME NEW h \in AllFrames
               PROVE  /\ q.kids[h] \in Seq(Frame) /\ q.dom[h] \in Seq(Frame)
                      /\ IsInjective(q.kids[h]) /\ IsInjective(q.dom[h])
                      /\ ToSet(q.dom[h]) = ToSet(q.kids[h])
                      /\ ToSet(q.kids[h]) = IF h = g THEN ToSet(p.kids[h]) \cup {f} ELSE ToSet(p.kids[h])
    OBVIOUS
  <2>1. CASE h = g
    <3>1. q.kids[g] = Append(p.kids[g], f) /\ q.dom[g] = InsertAt(p.dom[g], i, f)
      BY <1>1, <1>3, PageParts
    <3> QED
      BY <1>5, <1>6, <2>1, <3>1
  <2>2. CASE h # g
    <3>1. q.kids[h] = p.kids[h] /\ q.dom[h] = p.dom[h]
      BY <1>1, <1>3, <2>2, PageParts
    <3> QED
      BY <1>4, <2>2, <3>1
  <2> QED
    BY <2>1, <2>2
<1>14. \A h \in AllFrames : ToSet(q.kids[h]) \subseteq ToSet(p.kids[h]) \cup {f}
                           /\ ToSet(p.kids[h]) \subseteq ToSet(q.kids[h])
                           /\ (h # g => f \notin ToSet(q.kids[h])) /\ (h = g => f \in ToSet(q.kids[h]))
  <2> SUFFICES ASSUME NEW h \in AllFrames
               PROVE  /\ ToSet(q.kids[h]) \subseteq ToSet(p.kids[h]) \cup {f}
                      /\ ToSet(p.kids[h]) \subseteq ToSet(q.kids[h])
                      /\ (h # g => f \notin ToSet(q.kids[h])) /\ (h = g => f \in ToSet(q.kids[h]))
    OBVIOUS
  <2>1. CASE h = g
    <3>1. ToSet(q.kids[h]) = ToSet(p.kids[h]) \cup {f}
      BY <1>7, <2>1
    <3> QED
      BY <2>1, <3>1
  <2>2. CASE h # g
    <3>1. ToSet(q.kids[h]) = ToSet(p.kids[h])
      BY <1>7, <2>2
    <3> QED
      BY <1>4, <2>2, <3>1
  <2> QED
    BY <2>1, <2>2
<1>8. q \in Page
  <2>1. q.kids \in [AllFrames -> Seq(Frame)] /\ q.dom \in [AllFrames -> Seq(Frame)]
    BY <1>1, <1>3, <1>5, <1>6, PageParts
  <2>2. /\ q.src \in [AllFrames -> Url \cup {NoUrl, NoFrame}]
        /\ q.name \in [AllFrames -> FrameName \cup {NoFrame}]
        /\ q.url \in [AllFrames -> Url \cup {NoFrame}]
    BY <1>1, <1>2, <1>3, PageParts
  <2> QED
    BY <1>3, <2>1, <2>2 DEF Page
<1>9. Live(q) = Live(p) \cup {f} /\ q.url[Top] # NoFrame
  BY <1>1, <1>2, <1>3, PageParts DEF Live, IsTree, AllFrames
<1>10. \A h, k \in AllFrames : h # k => ToSet(q.kids[h]) \cap ToSet(q.kids[k]) = {}
  <2>1. \A h, k \in AllFrames : h # k => ToSet(p.kids[h]) \cap ToSet(p.kids[k]) = {}
    BY DEF IsTree
  <2> QED
    <3> SUFFICES ASSUME NEW h \in AllFrames, NEW k \in AllFrames, h # k,
                        NEW x \in ToSet(q.kids[h]), x \in ToSet(q.kids[k])
                 PROVE  FALSE
      OBVIOUS
    <3>1. CASE x = f
      BY <1>14, <3>1
    <3>2. CASE x # f
      <4>1. x \in ToSet(p.kids[h]) /\ x \in ToSet(p.kids[k])
        BY <1>14, <3>2
      <4> QED
        BY <2>1, <4>1
    <3> QED
      BY <3>1, <3>2
<1>11. ASSUME NEW S \in SUBSET AllFrames, Top \in S, Closed(q, S)
       PROVE  Live(q) \subseteq S
  <2>1. Closed(p, S)
    BY <1>14, <1>11 DEF Closed
  <2>2. g \in S
    BY <1>11, <2>1 DEF IsTree
  <2>3. Live(p) \subseteq S
    BY <1>11, <2>1 DEF IsTree
  <2>4. f \in S
    BY <1>1, <1>14, <1>11, <2>2 DEF Closed
  <2> QED
    BY <1>9, <2>3, <2>4
<1>12. \A h \in Frame : q.src[h] = NoFrame => q.url[h] = NoFrame
  BY <1>1, <1>2, <1>3, PageParts DEF IsTree, AllFrames
<1>13. \A h \in AllFrames : ToSet(q.kids[h]) \subseteq Live(q)
  BY <1>4, <1>14, <1>9
<1> QED
  BY <1>1, <1>7, <1>8, <1>9, <1>10, <1>11, <1>12, <1>13 DEF IsTree

----------------------------------------------------------------------------
(* Frames: the listings, answer by answer *)

\* The number of frames.
LEMMA FramesAreFinite ==
  IsFiniteSet(AllFrames) /\ Cardinality(AllFrames) \in Nat
BY FrameAssumption, FS_AddElement, FS_CardinalityType DEF AllFrames

VisitType == [out : Seq(AllFrames), todo : Seq(AllFrames)]

\* One frame is visited: listed, and its children are next.
Visited(p, v) ==
  IF v.todo = <<>> THEN v
  ELSE [out |-> Append(v.out, Head(v.todo)), todo |-> p.kids[Head(v.todo)] \o Tail(v.todo)]

\* A visit lists a frame.
LEMMA VisitedType ==
  ASSUME NEW p \in Page, NEW v \in VisitType
  PROVE  Visited(p, v) \in VisitType
<1>1. CASE v.todo = <<>>
  BY <1>1 DEF Visited
<1>2. CASE v.todo # <<>>
  <2>1. v.out \in Seq(AllFrames) /\ v.todo \in Seq(AllFrames)
    BY DEF VisitType
  <2>2. Head(v.todo) \in AllFrames /\ Tail(v.todo) \in Seq(AllFrames)
    BY <1>2, <2>1
  <2>3. p.kids[Head(v.todo)] \in Seq(AllFrames)
    <3>1. p.kids[Head(v.todo)] \in Seq(Frame)
      BY <2>2, PageParts
    <3> QED
      BY <3>1 DEF AllFrames
  <2>4. p.kids[Head(v.todo)] \o Tail(v.todo) \in Seq(AllFrames)
    BY <2>2, <2>3, ConcatProperties
  <2>5. Append(v.out, Head(v.todo)) \in Seq(AllFrames)
    BY <2>1, <2>2
  <2> QED
    BY <1>2, <2>4, <2>5 DEF Visited, VisitType
<1> QED
  BY <1>1, <1>2

\* Frames are visited one by one.
LEMMA VisitsStepwise ==
  ASSUME NEW p \in Page
  PROVE  /\ Visits(p) \in [0 .. Cardinality(AllFrames) -> VisitType]
         /\ Visits(p)[0] = [out |-> <<>>, todo |-> <<Top>>]
         /\ \A n \in 1 .. Cardinality(AllFrames) : Visits(p)[n] = Visited(p, Visits(p)[n - 1])
<1> DEFINE m == Cardinality(AllFrames)
           A == VisitType
           a == [out |-> <<>>, todo |-> <<Top>>]
           step == [n \in 1 .. m |-> [t \in A |-> Visited(p, t)]]
           Is(f) == f = [n \in 0 .. m |-> IF n = 0 THEN a ELSE Visited(p, f[n - 1])]
           g == Visits(p)
<1>1. m \in Nat /\ a \in A
  BY FramesAreFinite DEF VisitType, AllFrames
<1>2. \A n \in 1 .. m, t \in A : Visited(p, t) \in A
  BY VisitedType
<1>3. g = CHOOSE h : Is(h)
  BY DEF Visits, Visited
<1> HIDE DEF m, A, a, g
<1>4. step \in Stepping(A, m)
  BY <1>2 DEF Stepping
<1>5. PICK f : Recurs(f, A, a, m, step)
  <2> HIDE DEF step, Is
  <2> QED
    BY <1>1, <1>4, FunctionByRecursion
<1>6. \A n \in 1 .. m : n - 1 \in 0 .. m /\ n # 0 /\ n \in 0 .. m
  BY <1>1
<1>7. \A n \in 0 .. m : n = 0 \/ n \in 1 .. m
  BY <1>1
<1>8. \A n \in 1 .. m : f[n] = Visited(p, f[n - 1])
  <2> SUFFICES ASSUME NEW n \in 1 .. m PROVE f[n] = Visited(p, f[n - 1])
    OBVIOUS
  <2>1. f[n] = step[n][f[n - 1]] /\ f[n - 1] \in A
    BY <1>5, <1>6 DEF Recurs
  <2> QED
    BY <2>1
<1>9. Is(f)
  BY <1>5, <1>7, <1>8 DEF Recurs
<1>10. Is(g)
  <2> HIDE DEF Is
  <2> QED
    BY <1>3, <1>9
<1>11. DOMAIN g = 0 .. m /\ g[0] = a /\ \A n \in 1 .. m : g[n] = Visited(p, g[n - 1])
  <2>1. DOMAIN g = 0 .. m
    BY <1>10
  <2>2. \A n \in 0 .. m : g[n] = IF n = 0 THEN a ELSE Visited(p, g[n - 1])
    BY <1>10
  <2>3. 0 \in 0 .. m
    BY <1>1
  <2> HIDE DEF Is
  <2> QED
    BY <1>6, <2>1, <2>2, <2>3
<1>12. \A n \in 0 .. m : g[n] \in A
  <2> DEFINE T == {n \in 0 .. m : g[n] \in A}
  <2>1. 0 \in T
    BY <1>1, <1>11
  <2>2. \A n \in 0 .. m : n \in T /\ n < m => n + 1 \in T
    <3> SUFFICES ASSUME NEW n \in 0 .. m, g[n] \in A, n < m PROVE n + 1 \in T
      OBVIOUS
    <3>1. n + 1 \in 1 .. m /\ n + 1 \in 0 .. m /\ (n + 1) - 1 = n
      BY <1>1
    <3> QED
      BY <1>2, <1>11, <3>1
  <2>3. \A n \in 0 .. m : n \in T
    <3> HIDE DEF T
    <3> QED
      BY <1>1, <2>1, <2>2, AllNumbers
  <2> QED
    BY <2>3
<1>13. g \in [0 .. m -> A]
  <2>1. g = [n \in 0 .. m |-> g[n]]
    BY <1>10
  <2> HIDE DEF Is
  <2> QED
    BY <1>12, <2>1
<1> HIDE DEF Is
<1> QED
  BY <1>11, <1>13 DEF m, A, a, g

Numbering == [AllFrames -> AllFrames \cup {NoFrame}]

\* What is known of the numbers before the first match, and after the next one.
FirstIds(nav) == [f \in AllFrames |-> IF f = Top /\ Top \in Live(nav) THEN Top ELSE NoFrame]
NextIds(tree, nav, flat, n, ids) == IF flat[n] = Top THEN ids ELSE Match(ids, tree, nav, flat[n])

\* A match gives a frame a number, or leaves the numbers as they are.
LEMMA MatchType ==
  ASSUME NEW ids \in Numbering, NEW tree, NEW nav, NEW f \in AllFrames
  PROVE  Match(ids, tree, nav, f) \in Numbering
<1> DEFINE found == Candidates(ids, tree, nav, f)
<1>1. found \in SUBSET AllFrames
  BY DEF Candidates, Live
<1> HIDE DEF found
<1>2. CASE Cardinality(found) = 1
  <2>1. IsFiniteSet(found)
    BY <1>1, FramesAreFinite, FS_Subset
  <2>2. PICK x : found = {x}
    BY <1>2, <2>1, FS_Singleton
  <2>3. (CHOOSE n \in found : TRUE) = x
    BY <2>2
  <2>4. Match(ids, tree, nav, f) = [ids EXCEPT ![f] = x]
    BY <1>2, <2>3 DEF Match, found
  <2>5. x \in AllFrames
    BY <1>1, <2>2
  <2> QED
    BY <2>4, <2>5 DEF Numbering
<1>3. CASE Cardinality(found) # 1
  BY <1>3 DEF Match, found
<1> QED
  BY <1>2, <1>3

\* The numbers are matched frame by frame.
LEMMA MergedStepwise ==
  ASSUME NEW tree, NEW nav, flattenCdpFrameTree(tree) \in Seq(AllFrames)
  PROVE  /\ Merged(tree, nav) \in [0 .. Len(flattenCdpFrameTree(tree)) -> Numbering]
         /\ Merged(tree, nav)[0] = FirstIds(nav)
         /\ \A n \in 1 .. Len(flattenCdpFrameTree(tree)) :
              Merged(tree, nav)[n] =
                NextIds(tree, nav, flattenCdpFrameTree(tree), n, Merged(tree, nav)[n - 1])
<1> DEFINE m == Len(flattenCdpFrameTree(tree))
           A == Numbering
           a == FirstIds(nav)
           step == [n \in 1 .. m |-> [t \in A |-> NextIds(tree, nav, flattenCdpFrameTree(tree), n, t)]]
           Is(f) == f = [n \in 0 .. m |-> IF n = 0 THEN a
                                          ELSE NextIds(tree, nav, flattenCdpFrameTree(tree), n, f[n - 1])]
           g == Merged(tree, nav)
<1>1. m \in Nat /\ a \in A
  BY DEF FirstIds, Numbering, AllFrames
<1>2. \A n \in 1 .. m, t \in A : NextIds(tree, nav, flattenCdpFrameTree(tree), n, t) \in A
  <2>1. flattenCdpFrameTree(tree) \in Seq(AllFrames)
    OBVIOUS
  <2> SUFFICES ASSUME NEW n \in 1 .. m, NEW t \in A
               PROVE  NextIds(tree, nav, flattenCdpFrameTree(tree), n, t) \in A
    OBVIOUS
  <2>2. flattenCdpFrameTree(tree)[n] \in AllFrames
    BY <2>1
  <2> QED
    BY <2>2, MatchType DEF NextIds
<1>3. g = CHOOSE h : Is(h)
  BY DEF Merged, FirstIds, NextIds
<1> HIDE DEF m, A, a, g
<1>4. step \in Stepping(A, m)
  BY <1>2 DEF Stepping
<1>5. PICK f : Recurs(f, A, a, m, step)
  <2> HIDE DEF step, Is
  <2> QED
    BY <1>1, <1>4, FunctionByRecursion
<1>6. \A n \in 1 .. m : n - 1 \in 0 .. m /\ n # 0 /\ n \in 0 .. m
  BY <1>1
<1>7. \A n \in 0 .. m : n = 0 \/ n \in 1 .. m
  BY <1>1
<1>8. \A n \in 1 .. m : f[n] = NextIds(tree, nav, flattenCdpFrameTree(tree), n, f[n - 1])
  <2> SUFFICES ASSUME NEW n \in 1 .. m
               PROVE  f[n] = NextIds(tree, nav, flattenCdpFrameTree(tree), n, f[n - 1])
    OBVIOUS
  <2>1. f[n] = step[n][f[n - 1]] /\ f[n - 1] \in A
    BY <1>5, <1>6 DEF Recurs
  <2> QED
    BY <2>1
<1>9. Is(f)
  BY <1>5, <1>7, <1>8 DEF Recurs
<1>10. Is(g)
  <2> HIDE DEF Is
  <2> QED
    BY <1>3, <1>9
<1>11. /\ DOMAIN g = 0 .. m /\ g[0] = a
       /\ \A n \in 1 .. m : g[n] = NextIds(tree, nav, flattenCdpFrameTree(tree), n, g[n - 1])
  <2>1. DOMAIN g = 0 .. m
    BY <1>10
  <2>2. \A n \in 0 .. m :
          g[n] = IF n = 0 THEN a ELSE NextIds(tree, nav, flattenCdpFrameTree(tree), n, g[n - 1])
    BY <1>10
  <2>3. 0 \in 0 .. m
    BY <1>1
  <2> HIDE DEF Is
  <2> QED
    BY <1>6, <2>1, <2>2, <2>3
<1>12. \A n \in 0 .. m : g[n] \in A
  <2> DEFINE T == {n \in 0 .. m : g[n] \in A}
  <2>1. 0 \in T
    BY <1>1, <1>11
  <2>2. \A n \in 0 .. m : n \in T /\ n < m => n + 1 \in T
    <3> SUFFICES ASSUME NEW n \in 0 .. m, g[n] \in A, n < m PROVE n + 1 \in T
      OBVIOUS
    <3>1. n + 1 \in 1 .. m /\ n + 1 \in 0 .. m /\ (n + 1) - 1 = n
      BY <1>1
    <3> QED
      BY <1>2, <1>11, <3>1
  <2>3. \A n \in 0 .. m : n \in T
    <3> HIDE DEF T
    <3> QED
      BY <1>1, <2>1, <2>2, AllNumbers
  <2> QED
    BY <2>3
<1>13. g \in [0 .. m -> A]
  <2>1. g = [n \in 0 .. m |-> g[n]]
    BY <1>10
  <2> HIDE DEF Is
  <2> QED
    BY <1>12, <2>1
<1> HIDE DEF Is
<1> QED
  BY <1>11, <1>13 DEF m, A, a, g

\* The parent of a frame that is there is there too.
LEMMA ParentLives ==
  ASSUME NEW p, IsTree(p), NEW f \in Live(p), f # Top
  PROVE  Parent(p, f) \in Live(p)
<1> SUFFICES ASSUME Parent(p, f) \notin Live(p) PROVE FALSE
  OBVIOUS
<1> DEFINE S == Live(p) \ {f}
<1>1. S \in SUBSET AllFrames /\ Top \in S
  BY DEF Live, AllFrames, IsTree
<1>2. Closed(p, S)
  <2> SUFFICES ASSUME NEW g \in S, NEW h \in ToSet(p.kids[g]) PROVE h \in S
    BY DEF Closed
  <2>1. h \in Live(p) /\ g \in AllFrames
    BY <1>1 DEF IsTree
  <2>2. Parent(p, h) = g
    BY <2>1, ParentIs
  <2> QED
    BY <2>1, <2>2
<1>3. f \in S
  BY <1>1, <1>2 DEF IsTree
<1> QED
  BY <1>3

\* Frames that are there, each the parent of the next.
Chains(p) ==
  {c \in Seq(AllFrames) :
     /\ c # <<>> /\ c[1] \in Live(p)
     /\ \A i \in 2 .. Len(c) : c[i] \in ToSet(p.kids[c[i - 1]])}

Ascended(p, c) == IF c[1] = Top THEN c ELSE <<Parent(p, c[1])>> \o c

\* A chain with the parent of its first frame before it.
LEMMA AscendedType ==
  ASSUME NEW p, IsTree(p), NEW c \in Chains(p)
  PROVE  Ascended(p, c) \in Chains(p)
<1>1. CASE c[1] = Top
  BY <1>1 DEF Ascended
<1>2. CASE c[1] # Top
  <2> DEFINE g == Parent(p, c[1])
             d == <<g>> \o c
  <2>1. c \in Seq(AllFrames) /\ c # <<>> /\ c[1] \in Live(p)
        /\ \A i \in 2 .. Len(c) : c[i] \in ToSet(p.kids[c[i - 1]])
    BY DEF Chains
  <2>2. g \in Live(p) /\ g \in AllFrames /\ c[1] \in ToSet(p.kids[g])
    BY <1>2, <2>1, HasParent, ParentLives
  <2> HIDE DEF g
  <2>3. /\ d \in Seq(AllFrames) /\ Len(d) = Len(c) + 1 /\ d[1] = g
        /\ \A i \in 2 .. Len(c) + 1 : d[i] = c[i - 1]
    <3>1. <<g>> \in Seq(AllFrames) /\ Len(<<g>>) = 1 /\ <<g>>[1] = g
      BY <2>2
    <3>2. /\ d \in Seq(AllFrames) /\ Len(d) = 1 + Len(c)
          /\ \A i \in 1 .. 1 + Len(c) : d[i] = IF i <= 1 THEN <<g>>[i] ELSE c[i - 1]
      BY <2>1, <3>1, ConcatProperties
    <3>3. Len(c) \in Nat
      BY <2>1
    <3> HIDE DEF d
    <3> QED
      BY <3>1, <3>2, <3>3
  <2> HIDE DEF d
  <2>4. \A i \in 2 .. Len(d) : d[i] \in ToSet(p.kids[d[i - 1]])
    <3> SUFFICES ASSUME NEW i \in 2 .. Len(d) PROVE d[i] \in ToSet(p.kids[d[i - 1]])
      OBVIOUS
    <3>1. Len(c) \in Nat /\ i \in 2 .. Len(c) + 1 /\ (i = 2 \/ i - 1 \in 2 .. Len(c))
      BY <2>1, <2>3
    <3>2. CASE i = 2
      BY <2>2, <2>3, <3>1, <3>2
    <3>3. CASE i - 1 \in 2 .. Len(c)
      <4>1. d[i] = c[i - 1] /\ d[i - 1] = c[(i - 1) - 1]
        BY <2>3, <3>1, <3>3
      <4> QED
        BY <2>1, <3>3, <4>1
    <3> QED
      BY <3>1, <3>2, <3>3
  <2>5. d # <<>>
    BY <2>1, <2>3
  <2>6. Ascended(p, c) = d
    BY <1>2 DEF Ascended, d, g
  <2> QED
    BY <2>2, <2>3, <2>4, <2>5, <2>6 DEF Chains
<1> QED
  BY <1>1, <1>2

\* From a frame to its parent, and so on.
LEMMA AscentStepwise ==
  ASSUME NEW p, IsTree(p), NEW f \in Live(p)
  PROVE  /\ Ascent(p, f) \in [0 .. Cardinality(AllFrames) -> Chains(p)] /\ Ascent(p, f)[0] = <<f>>
         /\ \A n \in 1 .. Cardinality(AllFrames) : Ascent(p, f)[n] = Ascended(p, Ascent(p, f)[n - 1])
<1> DEFINE m == Cardinality(AllFrames)
           A == Chains(p)
           a == <<f>>
           step == [n \in 1 .. m |-> [t \in A |-> Ascended(p, t)]]
           Is(e) == e = [n \in 0 .. m |-> IF n = 0 THEN a ELSE Ascended(p, e[n - 1])]
           g == Ascent(p, f)
<1>1. m \in Nat /\ a \in A
  BY FramesAreFinite DEF Chains, Live
<1>2. \A n \in 1 .. m, t \in A : Ascended(p, t) \in A
  BY AscendedType
<1>3. g = CHOOSE h : Is(h)
  BY DEF Ascent, Ascended
<1> HIDE DEF m, A, a, g
<1>4. step \in Stepping(A, m)
  BY <1>2 DEF Stepping
<1>5. PICK e : Recurs(e, A, a, m, step)
  <2> HIDE DEF step, Is
  <2> QED
    BY <1>1, <1>4, FunctionByRecursion
<1>6. \A n \in 1 .. m : n - 1 \in 0 .. m /\ n # 0 /\ n \in 0 .. m
  BY <1>1
<1>7. \A n \in 0 .. m : n = 0 \/ n \in 1 .. m
  BY <1>1
<1>8. \A n \in 1 .. m : e[n] = Ascended(p, e[n - 1])
  <2> SUFFICES ASSUME NEW n \in 1 .. m PROVE e[n] = Ascended(p, e[n - 1])
    OBVIOUS
  <2>1. e[n] = step[n][e[n - 1]] /\ e[n - 1] \in A
    BY <1>5, <1>6 DEF Recurs
  <2> QED
    BY <2>1
<1>9. Is(e)
  BY <1>5, <1>7, <1>8 DEF Recurs
<1>10. Is(g)
  <2> HIDE DEF Is
  <2> QED
    BY <1>3, <1>9
<1>11. DOMAIN g = 0 .. m /\ g[0] = a /\ \A n \in 1 .. m : g[n] = Ascended(p, g[n - 1])
  <2>1. DOMAIN g = 0 .. m
    BY <1>10
  <2>2. \A n \in 0 .. m : g[n] = IF n = 0 THEN a ELSE Ascended(p, g[n - 1])
    BY <1>10
  <2>3. 0 \in 0 .. m
    BY <1>1
  <2> HIDE DEF Is
  <2> QED
    BY <1>6, <2>1, <2>2, <2>3
<1>12. \A n \in 0 .. m : g[n] \in A
  <2> DEFINE T == {n \in 0 .. m : g[n] \in A}
  <2>1. 0 \in T
    BY <1>1, <1>11
  <2>2. \A n \in 0 .. m : n \in T /\ n < m => n + 1 \in T
    <3> SUFFICES ASSUME NEW n \in 0 .. m, g[n] \in A, n < m PROVE n + 1 \in T
      OBVIOUS
    <3>1. n + 1 \in 1 .. m /\ n + 1 \in 0 .. m /\ (n + 1) - 1 = n
      BY <1>1
    <3> QED
      BY <1>2, <1>11, <3>1
  <2>3. \A n \in 0 .. m : n \in T
    <3> HIDE DEF T
    <3> QED
      BY <1>1, <2>1, <2>2, AllNumbers
  <2> QED
    BY <2>3
<1>13. g \in [0 .. m -> A]
  <2>1. g = [n \in 0 .. m |-> g[n]]
    BY <1>10
  <2> HIDE DEF Is
  <2> QED
    BY <1>12, <2>1
<1> HIDE DEF Is
<1> QED
  BY <1>11, <1>13 DEF m, A, a, g

\* A sequence as long as there are frames, and without repetition, has them all.
LEMMA AllListed ==
  ASSUME NEW s \in Seq(AllFrames), IsInjective(s), Len(s) = Cardinality(AllFrames)
  PROVE  ToSet(s) = AllFrames
<1> DEFINE N == Cardinality(AllFrames)
<1>1. N \in Nat /\ IsFiniteSet(AllFrames)
  BY FramesAreFinite
<1>2. s \in [1 .. N -> AllFrames] /\ DOMAIN s = 1 .. N
  OBVIOUS
<1> HIDE DEF N
<1>3. Cardinality(1 .. N) = N
  BY <1>1, FS_Interval
<1>4. s \in Injection(1 .. N, AllFrames)
  BY <1>2 DEF Injection, IsInjective
<1>5. s \in Surjection(1 .. N, AllFrames)
  BY <1>1, <1>3, <1>4, FS_Injection DEF N
<1> QED
  BY <1>2, <1>5 DEF Surjection, ToSet

----------------------------------------------------------------------------
(* Frames: the listing of the debugger has every frame, parents first *)

\* Each frame of a sequence comes after its parent.
ParentsFirst(p, s) ==
  \A i \in DOMAIN s : s[i] = Top \/ \E j \in 1 .. i - 1 : s[i] \in ToSet(p.kids[s[j]])

\* What is listed and what is to be visited, after some visits.
VisitInv(p, v) ==
  /\ v \in VisitType /\ IsInjective(v.out) /\ IsInjective(v.todo)
  /\ ToSet(v.out) \cap ToSet(v.todo) = {}
  /\ Top \in ToSet(v.out) \cup ToSet(v.todo)
  /\ ToSet(v.out) \cup ToSet(v.todo) \subseteq Live(p)
  /\ \A f \in ToSet(v.out) : ToSet(p.kids[f]) \subseteq ToSet(v.out) \cup ToSet(v.todo)
  /\ ParentsFirst(p, v.out)
  /\ \A f \in ToSet(v.todo) : f = Top \/ \E g \in ToSet(v.out) : f \in ToSet(p.kids[g])

\* Before the first visit the main frame is to be visited.
LEMMA VisitsBegin ==
  ASSUME NEW p, IsTree(p)
  PROVE  VisitInv(p, [out |-> <<>>, todo |-> <<Top>>])
<1> DEFINE v == [out |-> <<>>, todo |-> <<Top>>]
<1>1. v \in VisitType /\ v.out = <<>> /\ v.todo = <<Top>>
  BY DEF VisitType, AllFrames
<1>2. ToSet(v.out) = {} /\ ToSet(v.todo) = {Top}
  BY DEF ToSet
<1>3. IsInjective(v.out) /\ IsInjective(v.todo) /\ ParentsFirst(p, v.out)
  BY DEF IsInjective, ParentsFirst
<1>4. Top \in Live(p)
  BY DEF IsTree, Live, AllFrames
<1> HIDE DEF v
<1>5. VisitInv(p, v)
  BY <1>1, <1>2, <1>3, <1>4 DEF VisitInv
<1> QED
  BY <1>5 DEF v

\* One more visit.
LEMMA VisitKeeps ==
  ASSUME NEW p, IsTree(p), NEW v, VisitInv(p, v), v.todo # <<>>
  PROVE  VisitInv(p, Visited(p, v)) /\ Len(Visited(p, v).out) = Len(v.out) + 1
<1> DEFINE h == Head(v.todo)
           rest == Tail(v.todo)
           kids == p.kids[h]
           w == Visited(p, v)
<1>1. /\ v \in VisitType /\ IsInjective(v.out) /\ IsInjective(v.todo)
      /\ v.out \in Seq(AllFrames) /\ v.todo \in Seq(AllFrames)
  BY DEF VisitInv, VisitType
<1>2. /\ rest \in Seq(AllFrames) /\ IsInjective(rest) /\ h \in AllFrames
      /\ ToSet(v.todo) = {h} \cup ToSet(rest) /\ h \notin ToSet(rest)
  BY <1>1, TailSet
<1>3. w.out = Append(v.out, h) /\ w.todo = kids \o rest
  BY DEF Visited
<1>4. p \in Page /\ w \in VisitType
  BY <1>1, VisitedType DEF IsTree
<1> HIDE DEF h, rest, w, kids
<1>5. kids \in Seq(AllFrames) /\ IsInjective(kids) /\ ToSet(kids) \subseteq Live(p)
      /\ ToSet(kids) \subseteq Frame /\ kids = p.kids[h]
  <2>1. kids = p.kids[h]
    BY DEF kids
  <2>2. kids \in Seq(Frame)
    BY <1>2, <1>4, <2>1, PageParts
  <2>3. kids \in Seq(AllFrames)
    BY <2>2 DEF AllFrames
  <2>4. IsInjective(kids) /\ ToSet(kids) \subseteq Live(p)
    BY <1>2, <2>1 DEF IsTree
  <2> QED
    BY <2>1, <2>2, <2>3, <2>4, MembersAre
<1>6. h \in Live(p) /\ h \notin ToSet(v.out) /\ ToSet(v.out) \subseteq AllFrames
  BY <1>1, <1>2, MembersAre DEF VisitInv
<1>7. \A f, g \in AllFrames : f # g => ToSet(p.kids[f]) \cap ToSet(p.kids[g]) = {}
  BY DEF IsTree
<1>8. \A f \in ToSet(v.todo) : f = Top \/ \E g \in ToSet(v.out) : f \in ToSet(p.kids[g])
  BY DEF VisitInv
<1>9. ToSet(kids) \cap ToSet(v.todo) = {}
  <2> SUFFICES ASSUME NEW x \in ToSet(kids), x \in ToSet(v.todo) PROVE FALSE
    OBVIOUS
  <2>1. x # Top
    BY <1>5, FrameAssumption
  <2>2. PICK g \in ToSet(v.out) : x \in ToSet(p.kids[g])
    BY <1>8, <2>1
  <2> QED
    BY <1>2, <1>5, <1>6, <1>7, <2>2
<1>10. ToSet(kids) \cap ToSet(v.out) = {}
  <2> SUFFICES ASSUME NEW x \in ToSet(kids), x \in ToSet(v.out) PROVE FALSE
    OBVIOUS
  <2>1. x # Top
    BY <1>5, FrameAssumption
  <2>2. PICK i \in DOMAIN v.out : v.out[i] = x
    BY DEF ToSet
  <2>3. PICK j \in 1 .. i - 1 : x \in ToSet(p.kids[v.out[j]])
    BY <2>1, <2>2 DEF VisitInv, ParentsFirst
  <2>4. j \in DOMAIN v.out
    BY <1>1, <2>2
  <2>5. v.out[j] \in ToSet(v.out)
    BY <2>4 DEF ToSet
  <2> QED
    BY <1>2, <1>5, <1>6, <1>7, <2>3, <2>5
<1>11. /\ w.todo \in Seq(AllFrames) /\ IsInjective(w.todo)
       /\ ToSet(w.todo) = ToSet(kids) \cup ToSet(rest)
  <2>1. ToSet(kids) \cap ToSet(rest) = {}
    BY <1>2, <1>9
  <2> QED
    BY <1>2, <1>3, <1>5, <2>1, ConcatSet
<1>12. IsInjective(w.out) /\ ToSet(w.out) = ToSet(v.out) \cup {h}
  BY <1>1, <1>2, <1>3, <1>6, AppendSet
<1>13. ToSet(w.out) \cap ToSet(w.todo) = {}
  <2>1. h \notin ToSet(kids)
    BY <1>2, <1>9
  <2>2. ToSet(v.out) \cap ToSet(v.todo) = {}
    BY DEF VisitInv
  <2> QED
    BY <1>2, <1>10, <1>11, <1>12, <2>1, <2>2
<1>14. ToSet(w.out) \cup ToSet(w.todo) = ToSet(v.out) \cup ToSet(v.todo) \cup ToSet(kids)
  BY <1>2, <1>11, <1>12
<1>15. Top \in ToSet(w.out) \cup ToSet(w.todo) /\ ToSet(w.out) \cup ToSet(w.todo) \subseteq Live(p)
  BY <1>5, <1>14 DEF VisitInv
<1>16. \A f \in ToSet(w.out) : ToSet(p.kids[f]) \subseteq ToSet(w.out) \cup ToSet(w.todo)
  BY <1>5, <1>12, <1>14 DEF VisitInv
<1>17. ParentsFirst(p, w.out)
  <2>1. /\ Len(w.out) = Len(v.out) + 1 /\ w.out[Len(v.out) + 1] = h /\ Len(v.out) \in Nat
        /\ DOMAIN w.out = 1 .. Len(v.out) + 1 /\ DOMAIN v.out = 1 .. Len(v.out)
        /\ \A i \in 1 .. Len(v.out) : w.out[i] = v.out[i]
    BY <1>1, <1>2, <1>3
  <2> SUFFICES ASSUME NEW i \in 1 .. Len(v.out) + 1, w.out[i] # Top
               PROVE  \E j \in 1 .. i - 1 : w.out[i] \in ToSet(p.kids[w.out[j]])
    BY <2>1 DEF ParentsFirst
  <2>2. \A j \in 1 .. i - 1 : j \in 1 .. Len(v.out)
    BY <2>1
  <2>3. CASE i \in 1 .. Len(v.out)
    <3>1. \E j \in 1 .. i - 1 : v.out[i] \in ToSet(p.kids[v.out[j]])
      BY <2>1, <2>3 DEF VisitInv, ParentsFirst
    <3> QED
      BY <2>1, <2>2, <2>3, <3>1
  <2>4. CASE i = Len(v.out) + 1
    <3>1. h # Top /\ h \in ToSet(v.todo) /\ w.out[i] = h
      BY <1>2, <2>1, <2>4
    <3>2. PICK g \in ToSet(v.out) : h \in ToSet(p.kids[g])
      BY <1>8, <3>1
    <3>3. PICK j \in DOMAIN v.out : v.out[j] = g
      BY DEF ToSet
    <3>4. j \in 1 .. i - 1 /\ w.out[j] = g
      BY <2>1, <2>4, <3>3
    <3> QED
      BY <3>1, <3>2, <3>4
  <2> QED
    BY <2>1, <2>3, <2>4
<1>18. \A f \in ToSet(w.todo) : f = Top \/ \E g \in ToSet(w.out) : f \in ToSet(p.kids[g])
  BY <1>2, <1>5, <1>8, <1>11, <1>12
<1>19. Len(w.out) = Len(v.out) + 1
  BY <1>1, <1>2, <1>3
<1>20. VisitInv(p, w)
  BY <1>4, <1>11, <1>12, <1>13, <1>15, <1>16, <1>17, <1>18 DEF VisitInv
<1> QED
  BY <1>19, <1>20 DEF w

\* The debugger's listing has each frame that is there once, and after its parent.
THEOREM ListingIs ==
  ASSUME NEW p, IsTree(p)
  PROVE  LET flat == flattenCdpFrameTree(p)
         IN  /\ flat \in Seq(AllFrames) /\ IsInjective(flat)
             /\ ToSet(flat) = Live(p) /\ ParentsFirst(p, flat)
<1> DEFINE N == Cardinality(AllFrames)
           g == Visits(p)
           T == {n \in 0 .. N : VisitInv(p, g[n]) /\ (g[n].todo = <<>> \/ Len(g[n].out) = n)}
<1>1. p \in Page /\ N \in Nat
  BY FramesAreFinite DEF IsTree
<1>2. /\ g \in [0 .. N -> VisitType] /\ g[0] = [out |-> <<>>, todo |-> <<Top>>]
      /\ \A n \in 1 .. N : g[n] = Visited(p, g[n - 1])
  BY <1>1, VisitsStepwise
<1> HIDE DEF N, g
<1>3. 0 \in T
  BY <1>1, <1>2, VisitsBegin
<1>4. \A n \in 0 .. N : n \in T /\ n < N => n + 1 \in T
  <2> SUFFICES ASSUME NEW n \in 0 .. N, n \in T, n < N PROVE n + 1 \in T
    OBVIOUS
  <2>1. n + 1 \in 0 .. N /\ n + 1 \in 1 .. N /\ (n + 1) - 1 = n
    BY <1>1
  <2>2. g[n + 1] = Visited(p, g[n])
    BY <1>2, <2>1
  <2>3. CASE g[n].todo = <<>>
    BY <2>1, <2>2, <2>3 DEF Visited
  <2>4. CASE g[n].todo # <<>>
    BY <2>1, <2>2, <2>4, VisitKeeps
  <2> QED
    BY <2>3, <2>4
<1>5. N \in T
  <2>1. \A n \in 0 .. N : n \in T
    <3> HIDE DEF T
    <3> QED
      BY <1>1, <1>3, <1>4, AllNumbers
  <2> QED
    BY <1>1, <2>1
<1> DEFINE v == g[N]
<1>6. VisitInv(p, v) /\ (v.todo = <<>> \/ Len(v.out) = N)
  BY <1>5
<1>7. flattenCdpFrameTree(p) = v.out
  BY DEF flattenCdpFrameTree, g, N
<1> HIDE DEF v, T
<1>8. v.out \in Seq(AllFrames) /\ v.todo \in Seq(AllFrames)
  BY <1>6 DEF VisitInv, VisitType
<1>9. ToSet(v.todo) = {}
  <2>1. CASE v.todo = <<>>
    BY <2>1 DEF ToSet
  <2>2. CASE Len(v.out) = N
    <3>1. ToSet(v.out) = AllFrames
      BY <1>6, <1>8, <2>2, AllListed DEF VisitInv, N
    <3>2. ToSet(v.todo) \subseteq AllFrames
      BY <1>8, MembersAre
    <3> QED
      BY <1>6, <3>1, <3>2 DEF VisitInv
  <2> QED
    BY <1>6, <2>1, <2>2
<1>10. Live(p) \subseteq ToSet(v.out)
  <2> DEFINE S == ToSet(v.out)
  <2>1. S \in SUBSET AllFrames /\ Top \in S /\ Closed(p, S)
    BY <1>6, <1>8, <1>9, MembersAre DEF VisitInv, Closed
  <2> QED
    BY <2>1 DEF IsTree
<1> QED
  BY <1>6, <1>7, <1>8, <1>10 DEF VisitInv

----------------------------------------------------------------------------
(* Frames: the numbers of a listing *)

\* What a match makes of the candidates.
MatchOf(new, ids, f, found) ==
  \/ \E x \in found : found = {x} /\ new = [ids EXCEPT ![f] = x]
  \/ (\A x \in found : found # {x}) /\ new = ids

\* A frame is given the number of its only candidate, and otherwise none.
LEMMA MatchIs ==
  ASSUME NEW ids \in Numbering, NEW tree, NEW nav, NEW f \in AllFrames
  PROVE  MatchOf(Match(ids, tree, nav, f), ids, f, Candidates(ids, tree, nav, f))
<1> DEFINE found == Candidates(ids, tree, nav, f)
           new == Match(ids, tree, nav, f)
<1>1. found \in SUBSET AllFrames
  BY DEF Candidates, Live
<1>2. IsFiniteSet(found)
  BY <1>1, FramesAreFinite, FS_Subset
<1>3. new =
        IF Cardinality(found) = 1 THEN [ids EXCEPT ![f] = CHOOSE n \in found : TRUE] ELSE ids
  BY DEF Match
<1> HIDE DEF found, new
<1>4. Cardinality(found) = 1 => MatchOf(new, ids, f, found)
  <2> SUFFICES ASSUME Cardinality(found) = 1 PROVE MatchOf(new, ids, f, found)
    OBVIOUS
  <2>1. PICK x : found = {x}
    BY <1>2, FS_Singleton
  <2>2. (CHOOSE n \in found : TRUE) = x
    BY <2>1
  <2>3. new = [ids EXCEPT ![f] = x]
    BY <1>3, <2>2
  <2>4. x \in found
    BY <2>1
  <2> QED
    BY <2>1, <2>3, <2>4 DEF MatchOf
<1>5. Cardinality(found) # 1 => MatchOf(new, ids, f, found)
  <2> SUFFICES ASSUME Cardinality(found) # 1 PROVE MatchOf(new, ids, f, found)
    OBVIOUS
  <2>1. new = ids
    BY <1>3
  <2>2. \A x \in found : found # {x}
    BY FS_Singleton
  <2> QED
    BY <2>1, <2>2 DEF MatchOf
<1> QED
  BY <1>4, <1>5 DEF found, new

\* No two frames have one number.
OneEach(ids) == \A f, g \in AllFrames : ids[f] = ids[g] /\ ids[f] # NoFrame => f = g

\* A number is given once.
LEMMA MatchesOneEach ==
  ASSUME NEW ids \in Numbering, OneEach(ids), NEW tree, NEW nav, NEW f \in AllFrames
  PROVE  OneEach(Match(ids, tree, nav, f))
<1> DEFINE found == Candidates(ids, tree, nav, f)
<1>0. MatchOf(Match(ids, tree, nav, f), ids, f, found)
  BY MatchIs
<1>1. CASE Match(ids, tree, nav, f) = ids
  BY <1>1
<1>2. ASSUME NEW x \in found, Match(ids, tree, nav, f) = [ids EXCEPT ![f] = x]
      PROVE  OneEach(Match(ids, tree, nav, f))
  <2>1. Match(ids, tree, nav, f) = [ids EXCEPT ![f] = x]
    BY <1>2
  <2>2. x \in found
    BY <1>2
  <2>3. \A g \in AllFrames : ids[g] # x
    BY <2>2 DEF Candidates
  <2> DEFINE new == [ids EXCEPT ![f] = x]
  <2>4. new[f] = x /\ \A g \in AllFrames : g # f => new[g] = ids[g]
    BY DEF Numbering
  <2> HIDE DEF new, found
  <2>5. OneEach(new)
    BY <2>3, <2>4 DEF OneEach
  <2> QED
    BY <2>1, <2>5 DEF new
<1> HIDE DEF found
<1> QED
  BY <1>0, <1>1, <1>2 DEF MatchOf

\* However the two listings differ, no two frames get one number.
LEMMA MergedOneEach ==
  ASSUME NEW tree, NEW nav, flattenCdpFrameTree(tree) \in Seq(AllFrames)
  PROVE  mergeNavigationFrames(tree, nav) \in Numbering /\ OneEach(mergeNavigationFrames(tree, nav))
<1> DEFINE flat == flattenCdpFrameTree(tree)
           m == Len(flat)
           g == Merged(tree, nav)
           T == {n \in 0 .. m : OneEach(g[n])}
<1>1. m \in Nat /\ \A n \in 1 .. m : flat[n] \in AllFrames
  OBVIOUS
<1>2. /\ g \in [0 .. m -> Numbering] /\ g[0] = FirstIds(nav)
      /\ \A n \in 1 .. m : g[n] = NextIds(tree, nav, flat, n, g[n - 1])
  BY MergedStepwise
<1>3. mergeNavigationFrames(tree, nav) = g[m]
  BY DEF mergeNavigationFrames
<1> HIDE DEF flat, m, g
<1>4. 0 \in T
  BY <1>1, <1>2 DEF OneEach, FirstIds, AllFrames
<1>5. \A n \in 0 .. m : n \in T /\ n < m => n + 1 \in T
  <2> SUFFICES ASSUME NEW n \in 0 .. m, OneEach(g[n]), n < m PROVE n + 1 \in T
    OBVIOUS
  <2>1. n + 1 \in 0 .. m /\ n + 1 \in 1 .. m /\ (n + 1) - 1 = n
    BY <1>1
  <2>2. g[n + 1] = NextIds(tree, nav, flat, n + 1, g[n]) /\ g[n] \in Numbering /\ flat[n + 1] \in AllFrames
    BY <1>1, <1>2, <2>1
  <2>3. OneEach(g[n + 1])
    BY <2>2, MatchesOneEach DEF NextIds
  <2> QED
    BY <2>1, <2>3
<1>6. \A n \in 0 .. m : n \in T
  <2> HIDE DEF T
  <2> QED
    BY <1>1, <1>4, <1>5, AllNumbers
<1>7. m \in 0 .. m
  BY <1>1
<1> QED
  BY <1>2, <1>3, <1>6, <1>7

\* Nothing else could be taken for the frame.
Alone(p, f) ==
  \A g \in ToSet(p.kids[Parent(p, f)]) \ {f} : p.url[g] # p.url[f]

\* The numbers when the first n frames have been looked at: each its own or none,
\* and its own when the parent has one and it is alone among its siblings.
OwnNumbers(p, flat, n, ids) ==
  /\ \A f \in AllFrames : ids[f] \in {f, NoFrame}
  /\ \A i \in DOMAIN flat : i > n /\ flat[i] # Top => ids[flat[i]] = NoFrame
  /\ \A i \in DOMAIN flat :
       /\ i <= n /\ flat[i] # Top
       /\ ids[Parent(p, flat[i])] # NoFrame /\ Alone(p, flat[i])
       => ids[flat[i]] = flat[i]

\* The next frame.
LEMMA NextOwnNumbers ==
  ASSUME NEW p, IsTree(p), NEW n \in 1 .. Len(flattenCdpFrameTree(p)), NEW ids \in Numbering,
         OwnNumbers(p, flattenCdpFrameTree(p), n - 1, ids)
  PROVE  OwnNumbers(p, flattenCdpFrameTree(p), n, NextIds(p, p, flattenCdpFrameTree(p), n, ids))
<1> DEFINE flat == flattenCdpFrameTree(p)
           f == flat[n]
           g == Parent(p, f)
           new == NextIds(p, p, flat, n, ids)
<1>1. /\ flat \in Seq(AllFrames) /\ IsInjective(flat)
      /\ ToSet(flat) = Live(p) /\ ParentsFirst(p, flat)
  BY ListingIs
<1> HIDE DEF flat
<1>2. /\ Len(flat) \in Nat /\ DOMAIN flat = 1 .. Len(flat) /\ n \in DOMAIN flat /\ n \in Nat
      /\ \A i \in DOMAIN flat : i \in Nat /\ flat[i] \in Live(p) /\ flat[i] \in AllFrames
  BY <1>1, MembersAre DEF flat
<1>3. OwnNumbers(p, flat, n - 1, ids)
  BY DEF flat
<1>4. /\ \A h \in AllFrames : ids[h] \in {h, NoFrame}
      /\ \A i \in DOMAIN flat : i >= n /\ flat[i] # Top => ids[flat[i]] = NoFrame
      /\ \A i \in DOMAIN flat :
           /\ i < n /\ flat[i] # Top
           /\ ids[Parent(p, flat[i])] # NoFrame /\ Alone(p, flat[i])
           => ids[flat[i]] = flat[i]
  <2>1. \A i \in DOMAIN flat : (i >= n <=> i > n - 1) /\ (i < n <=> i <= n - 1)
    BY <1>2
  <2> QED
    BY <1>3, <2>1 DEF OwnNumbers
<1>5. CASE f = Top
  <2>1. new = ids
    BY <1>5 DEF NextIds
  <2>2. \A i \in DOMAIN flat : (i > n => i >= n) /\ (i <= n => i < n \/ flat[i] = Top)
    BY <1>2, <1>5
  <2>3. OwnNumbers(p, flat, n, ids)
    BY <1>4, <2>2 DEF OwnNumbers
  <2> QED
    BY <2>1, <2>3 DEF flat
<1>6. CASE f # Top
  <2> DEFINE found == Candidates(ids, p, p, f)
  <2>1. f \in AllFrames /\ f \in Live(p) /\ ids[f] = NoFrame /\ f # NoFrame
    BY <1>2, <1>4, <1>6, FrameAssumption
  <2>2. g \in AllFrames /\ f \in ToSet(p.kids[g])
    BY <1>6, <2>1, HasParent
  <2>3. new = Match(ids, p, p, f)
    BY <1>6 DEF NextIds
  <2>4. f \in found
    <3>1. \A h \in AllFrames : ids[h] # f
      BY <1>4, <2>1
    <3>2. ids[g] = NoFrame \/ ids[g] = g
      BY <1>4, <2>2
    <3> QED
      BY <1>6, <2>1, <3>1, <3>2 DEF Candidates
  <2>5. ids[g] # NoFrame /\ Alone(p, f) => found = {f}
    <3> SUFFICES ASSUME ids[g] # NoFrame, Alone(p, f), NEW x \in found PROVE x = f
      BY <2>4
    <3>1. ids[g] = g
      BY <1>4, <2>2
    <3>2. x \in Live(p) /\ p.url[x] = p.url[f] /\ x # Top /\ Parent(p, x) = g
      BY <3>1 DEF Candidates
    <3>3. x \in ToSet(p.kids[g])
      BY <3>2, HasParent
    <3> QED
      BY <3>2, <3>3 DEF Alone
  <2>5a. MatchOf(Match(ids, p, p, f), ids, f, found)
    BY <2>1, MatchIs
  <2>6. new = ids \/ new = [ids EXCEPT ![f] = f]
    <3>1. \A x : found = {x} => x = f
      BY <2>4
    <3> HIDE DEF found, new, f
    <3> QED
      BY <2>3, <2>5a, <3>1 DEF MatchOf
  <2>7. ids[g] # NoFrame /\ Alone(p, f) => new = [ids EXCEPT ![f] = f]
    <3> HIDE DEF found, new, f, g
    <3> QED
      BY <2>3, <2>4, <2>5a, <2>5 DEF MatchOf
  <2> HIDE DEF new, found, f, g
  <2>8. /\ \A h \in AllFrames : h # f => new[h] = ids[h]
        /\ new[f] \in {f, NoFrame}
        /\ ids[g] # NoFrame /\ Alone(p, f) => new[f] = f
    BY <2>1, <2>6, <2>7 DEF Numbering
  <2>9. f = flat[n] /\ g = Parent(p, f)
    BY DEF f, g
  <2>10. \A i \in DOMAIN flat : i # n => flat[i] # f
    BY <1>1, <1>2, <2>9 DEF IsInjective
  <2>11. \A i \in DOMAIN flat : i <= n /\ flat[i] # Top =>
           Parent(p, flat[i]) # f /\ Parent(p, flat[i]) \in AllFrames
    <3> SUFFICES ASSUME NEW i \in DOMAIN flat, i <= n, flat[i] # Top
                 PROVE  Parent(p, flat[i]) # f /\ Parent(p, flat[i]) \in AllFrames
      OBVIOUS
    <3>1. PICK j \in 1 .. i - 1 : flat[i] \in ToSet(p.kids[flat[j]])
      BY <1>1 DEF ParentsFirst
    <3>2. j \in DOMAIN flat /\ j # n
      BY <1>2, <3>1
    <3>3. Parent(p, flat[i]) = flat[j]
      BY <1>2, <3>1, <3>2, ParentIs
    <3> QED
      BY <1>2, <2>10, <3>2, <3>3
  <2>12. \A h \in AllFrames : new[h] \in {h, NoFrame}
    BY <1>4, <2>8
  <2>13. \A i \in DOMAIN flat : i > n /\ flat[i] # Top => new[flat[i]] = NoFrame
    <3>1. \A i \in DOMAIN flat : i > n => i >= n /\ i # n
      BY <1>2
    <3> QED
      BY <1>2, <1>4, <2>8, <2>10, <3>1
  <2>14. ASSUME NEW i \in DOMAIN flat, i <= n, flat[i] # Top,
                new[Parent(p, flat[i])] # NoFrame, Alone(p, flat[i])
         PROVE  new[flat[i]] = flat[i]
    <3>1. ids[Parent(p, flat[i])] # NoFrame
      BY <2>8, <2>11, <2>14
    <3>2. CASE i = n
      BY <2>8, <2>9, <2>14, <3>1, <3>2
    <3>3. CASE i # n
      <4>1. i < n
        BY <1>2, <2>14, <3>3
      <4>2. ids[flat[i]] = flat[i]
        BY <1>4, <2>14, <3>1, <4>1
      <4> QED
        BY <1>2, <2>8, <2>10, <3>3, <4>2
    <3> QED
      BY <3>2, <3>3
  <2>15. OwnNumbers(p, flat, n, new)
    BY <2>12, <2>13, <2>14 DEF OwnNumbers
  <2> QED
    BY <2>15 DEF flat, new
<1> QED
  BY <1>5, <1>6

\* When both listings are of one page, each frame has its own number or none, and
\* none only when it cannot be told from its siblings or its parent has none.
LEMMA MergedOwn ==
  ASSUME NEW p, IsTree(p)
  PROVE  OwnNumbers(p, flattenCdpFrameTree(p), Len(flattenCdpFrameTree(p)),
                    mergeNavigationFrames(p, p))
<1> DEFINE flat == flattenCdpFrameTree(p)
           m == Len(flat)
           g == Merged(p, p)
           T == {n \in 0 .. m : OwnNumbers(p, flat, n, g[n])}
<1>1. flat \in Seq(AllFrames) /\ m \in Nat /\ DOMAIN flat = 1 .. m
  BY ListingIs
<1>2. /\ g \in [0 .. m -> Numbering] /\ g[0] = FirstIds(p)
      /\ \A n \in 1 .. m : g[n] = NextIds(p, p, flat, n, g[n - 1])
  BY <1>1, MergedStepwise
<1>3. mergeNavigationFrames(p, p) = g[m]
  BY DEF mergeNavigationFrames
<1>4. \A n \in 1 .. m, ids \in Numbering :
        OwnNumbers(p, flat, n - 1, ids) => OwnNumbers(p, flat, n, NextIds(p, p, flat, n, ids))
  BY NextOwnNumbers
<1> HIDE DEF g, flat, m
<1>5. 0 \in T
  <2>1. 0 \in 0 .. m /\ \A i \in DOMAIN flat : ~(i <= 0) /\ flat[i] \in AllFrames
    BY <1>1 DEF m
  <2>2. OwnNumbers(p, flat, 0, FirstIds(p))
    BY <2>1 DEF OwnNumbers, FirstIds
  <2> QED
    BY <1>2, <2>1, <2>2
<1>6. \A n \in 0 .. m : n \in T /\ n < m => n + 1 \in T
  <2> SUFFICES ASSUME NEW n \in 0 .. m, OwnNumbers(p, flat, n, g[n]), n < m PROVE n + 1 \in T
    OBVIOUS
  <2>1. n + 1 \in 0 .. m /\ n + 1 \in 1 .. m /\ (n + 1) - 1 = n
    BY <1>1
  <2>2. g[n + 1] = NextIds(p, p, flat, n + 1, g[n]) /\ g[n] \in Numbering
    BY <1>2, <2>1
  <2>3. OwnNumbers(p, flat, n + 1, NextIds(p, p, flat, n + 1, g[n]))
    BY <1>4, <2>1, <2>2
  <2> QED
    BY <2>1, <2>2, <2>3
<1>7. \A n \in 0 .. m : n \in T
  <2> HIDE DEF T
  <2> QED
    BY <1>1, <1>5, <1>6, AllNumbers
<1>8. m \in 0 .. m
  BY <1>1
<1> QED
  BY <1>3, <1>7, <1>8 DEF flat, m

\* The numbers of a listing.
NumbersOf(list) ==
  /\ \A f, g \in AllFrames : list.ids[f] = list.ids[g] /\ list.ids[f] # NoFrame => f = g
  /\ ~list.mixed => \A f \in ListedFrames(list) :
       /\ list.ids[f] \in {f, NoFrame}
       /\ f # Top /\ list.ids[Parent(list.tree, f)] # NoFrame
          /\ (\A g \in Children(list, Parent(list.tree, f)) \ {f} :
                list.tree.url[g] # list.tree.url[f])
          => list.ids[f] = f

\* The listing that is made of two answers.
LEMMA NewListing ==
  ASSUME NEW tree, IsTree(tree), NEW nav, NEW list,
         list = [tree |-> tree, ids |-> mergeNavigationFrames(tree, nav), mixed |-> tree # nav]
  PROVE  IsListing(list) /\ NumbersOf(list) /\ ListedFrames(list) = Live(tree)
<1> DEFINE flat == flattenCdpFrameTree(tree)
<1>1. flat \in Seq(AllFrames) /\ ToSet(flat) = Live(tree)
  BY ListingIs
<1>2. list.tree = tree /\ list.ids = mergeNavigationFrames(tree, nav) /\ list.mixed = (tree # nav)
  OBVIOUS
<1>3. ListedFrames(list) = Live(tree)
  BY <1>1, <1>2 DEF ListedFrames
<1>4. list.ids \in Numbering /\ OneEach(list.ids)
  BY <1>1, <1>2, MergedOneEach
<1>5. IsListing(list)
  BY <1>4 DEF IsListing, Listing, IsTree, Numbering
<1>6. ASSUME ~list.mixed, NEW f \in ListedFrames(list)
      PROVE  /\ list.ids[f] \in {f, NoFrame}
             /\ f # Top /\ list.ids[Parent(list.tree, f)] # NoFrame
                /\ (\A g \in Children(list, Parent(list.tree, f)) \ {f} :
                      list.tree.url[g] # list.tree.url[f])
                => list.ids[f] = f
  <2>1. nav = tree
    BY <1>2, <1>6
  <2>2. OwnNumbers(tree, flat, Len(flat), list.ids)
    BY <1>2, <2>1, MergedOwn
  <2> HIDE DEF flat
  <2>3. PICK i \in DOMAIN flat : flat[i] = f
    BY <1>1, <1>3, <1>6 DEF ToSet
  <2>4. i <= Len(flat) /\ f \in AllFrames
    BY <1>1, <2>3
  <2>5. (\A g \in Children(list, Parent(list.tree, f)) \ {f} : list.tree.url[g] # list.tree.url[f])
        <=> Alone(tree, f)
    BY <1>2 DEF Alone, Children
  <2> QED
    BY <1>2, <2>2, <2>3, <2>4, <2>5 DEF OwnNumbers
<1>7. NumbersOf(list)
  BY <1>4, <1>6 DEF NumbersOf, OneEach
<1> QED
  BY <1>3, <1>5, <1>7

----------------------------------------------------------------------------
(* Frames: what a listing and a document answer *)

\* What is found in a listing is one of its frames.
LEMMA ListedIs ==
  ASSUME NEW list, IsListing(list)
  PROVE  /\ ListedFrames(list) = Live(list.tree) /\ Top \in ListedFrames(list)
         /\ ListedFrames(list) \in SUBSET AllFrames
         /\ \A f \in AllFrames : Children(list, f) \subseteq ListedFrames(list)
         /\ list.tree \in Page /\ list # NoFrame
<1>1. IsTree(list.tree) /\ list \in Listing
  BY DEF IsListing
<1>2. ListedFrames(list) = Live(list.tree)
  BY <1>1, ListingIs DEF ListedFrames
<1>3. list.tree \in Page /\ list # NoFrame
  BY <1>1, FrameAssumption DEF Listing
<1> QED
  BY <1>1, <1>2, <1>3 DEF IsTree, Live, Children, AllFrames

\* A path has segments.
LEMMA PathIs ==
  ASSUME NEW spec \in Specs \cup {[by |-> "nothing"]}, spec.by = "framePath"
  PROVE  spec.is \in Seq(Segment) /\ spec.is # <<>>
<1>1. spec \in FrameSpec
  BY FrameAssumption
<1>2. PICK s \in UNION {[1 .. n -> Segment] : n \in 1 .. Cardinality(Frame)} :
        spec = [by |-> "framePath", is |-> s]
  BY <1>1 DEF FrameSpec
<1>3. PICK n \in 1 .. Cardinality(Frame) : s \in [1 .. n -> Segment]
  BY <1>2
<1>4. s \in Seq(Segment) /\ n \in Nat /\ n > 0
  BY <1>3, SeqDef
<1>5. 1 \in DOMAIN s
  BY <1>3, <1>4
<1> QED
  BY <1>2, <1>4, <1>5

\* A name that needs no look at the page leads to a listed frame or fails.
LEMMA NamedIs ==
  ASSUME NEW list, IsListing(list), NEW spec
  PROVE  Named(spec, list) \in ListedFrames(list) \cup Failures
<1>1. /\ Top \in ListedFrames(list) /\ ListedFrames(list) \in SUBSET AllFrames
      /\ Children(list, Top) \subseteq ListedFrames(list)
  BY ListedIs DEF AllFrames
<1>2. \A S \in SUBSET ListedFrames(list) : requireSingleFrame(S) \in ListedFrames(list) \cup Failures
  BY <1>1, SingleIs
<1>3. /\ ListedFrames(list) \cap {spec.is} \in SUBSET ListedFrames(list)
      /\ {f \in ListedFrames(list) : list.ids[f] = spec.is} \in SUBSET ListedFrames(list)
      /\ {f \in ListedFrames(list) : list.tree.name[f] = spec.is} \in SUBSET ListedFrames(list)
      /\ {f \in ListedFrames(list) : Includes(list.tree.url[f], spec.is)} \in SUBSET ListedFrames(list)
      /\ {f \in Children(list, Top) : IndexIn(list.tree.kids[Top], f) = spec.is} \in SUBSET ListedFrames(list)
  BY <1>1
<1>4. /\ requireSingleFrame(ListedFrames(list) \cap {spec.is}) \in ListedFrames(list) \cup Failures
      /\ requireSingleFrame({f \in ListedFrames(list) : list.ids[f] = spec.is})
           \in ListedFrames(list) \cup Failures
      /\ requireSingleFrame({f \in ListedFrames(list) : list.tree.name[f] = spec.is})
           \in ListedFrames(list) \cup Failures
      /\ requireSingleFrame({f \in ListedFrames(list) : Includes(list.tree.url[f], spec.is)})
           \in ListedFrames(list) \cup Failures
      /\ requireSingleFrame({f \in Children(list, Top) : IndexIn(list.tree.kids[Top], f) = spec.is})
           \in ListedFrames(list) \cup Failures
  BY <1>2, <1>3
<1> QED
  BY <1>1, <1>4 DEF Named

\* The chain of a listed frame leads from a frame to a child, to a child of that one.
LEMMA ChainIs ==
  ASSUME NEW list, IsListing(list), NEW f \in AllFrames
  PROVE  /\ f \in ListedFrames(list) => getFrameChain(list, f) \in Chains(list.tree)
         /\ getFrameChain(list, f) \in Seq(AllFrames)
<1>1. f \in ListedFrames(list) => getFrameChain(list, f) \in Chains(list.tree)
  <2> SUFFICES ASSUME f \in ListedFrames(list) PROVE getFrameChain(list, f) \in Chains(list.tree)
    OBVIOUS
  <2>1. IsTree(list.tree) /\ f \in Live(list.tree)
    BY ListedIs DEF IsListing
  <2>2. Cardinality(AllFrames) \in 0 .. Cardinality(AllFrames)
    BY FramesAreFinite
  <2>3. Ascent(list.tree, f)[Cardinality(AllFrames)] \in Chains(list.tree)
    BY <2>1, <2>2, AscentStepwise
  <2> QED
    BY <2>3 DEF getFrameChain
<1>2. f \notin ListedFrames(list) => getFrameChain(list, f) = <<>>
  BY DEF getFrameChain
<1>3. \A c \in Chains(list.tree) : c \in Seq(AllFrames)
  BY DEF Chains
<1>4. <<>> \in Seq(AllFrames)
  OBVIOUS
<1> QED
  BY <1>1, <1>2, <1>3, <1>4

\* A segment picks an element of the document, or none.
LEMMA ElementIs ==
  ASSUME IsTree(page), NEW f \in AllFrames, NEW segment,
         NEW el \in resolveFrameElementInParent(f, segment), segment \in Segment
  PROVE  el \in ToSet(page.dom[f]) \cup {NoFrame}
<1>1. page.dom[f] \in Seq(Frame)
  BY PageParts DEF IsTree
<1>2. \A i \in DOMAIN page.dom[f] : page.dom[f][i] \in ToSet(page.dom[f])
  BY <1>1, MembersAre
<1>3. /\ FirstOf(page.dom[f], {g \in Frame : page.name[g] = segment.is})
           \in ToSet(page.dom[f]) \cup {NoFrame}
      /\ FirstOf(page.dom[f], {g \in Frame : Includes(page.src[g], segment.is)})
           \in ToSet(page.dom[f]) \cup {NoFrame}
  BY <1>1, FirstIs
<1>4. segment.by \in {"selector", "name", "index", "url"}
  BY DEF Segment
<1> QED
  BY <1>2, <1>3, <1>4 DEF resolveFrameElementInParent

\* An element is taken for a listed child of the frame, and if the listing is of the
\* page and the element in its place, for its own frame.
LEMMA ChildIs ==
  ASSUME NEW list, IsListing(list), NEW f \in AllFrames, NEW el \in Frame
  PROVE  /\ resolveChildFrameFromParent(list, f, el) \in Children(list, f) \cup Failures
         /\ list.tree = page /\ el \in ToSet(page.dom[f]) /\ Placed(el)
              => resolveChildFrameFromParent(list, f, el) = el
<1> DEFINE index   == IndexIn(page.dom[f], el)
           byIndex == {g \in Children(list, f) : IndexIn(list.tree.kids[f], g) = index}
           byName  == {g \in Children(list, f) :
                         page.name[el] # NoFrame /\ list.tree.name[g] = page.name[el]}
           byUrl   == {g \in Children(list, f) :
                         page.src[el] # NoUrl /\ Includes(list.tree.url[g], page.src[el])}
           r == resolveChildFrameFromParent(list, f, el)
<1>1. r = IF Cardinality(byIndex) = 1 THEN requireSingleFrame(byIndex)
          ELSE IF Cardinality(byName) = 1 THEN requireSingleFrame(byName)
          ELSE requireSingleFrame(byIndex \cup byName \cup byUrl)
  BY DEF resolveChildFrameFromParent
<1>2. /\ Children(list, f) \in SUBSET AllFrames
      /\ byIndex \in SUBSET Children(list, f) /\ byName \in SUBSET Children(list, f)
      /\ byUrl \in SUBSET Children(list, f)
  BY ListedIs
<1>3. list.tree = page /\ el \in ToSet(page.dom[f]) /\ Placed(el) => byIndex = {el}
  <2> SUFFICES ASSUME list.tree = page, el \in ToSet(page.dom[f]), Placed(el) PROVE byIndex = {el}
    OBVIOUS
  <2>1. IsTree(page)
    BY DEF IsListing
  <2>2. page.kids[f] \in Seq(Frame) /\ IsInjective(page.kids[f]) /\ el \in ToSet(page.kids[f])
    BY <2>1, PageParts DEF IsTree
  <2>3. Parent(page, el) = f
    BY <2>1, <2>2, ParentIs
  <2>4. IndexIn(page.kids[f], el) = index
    BY <2>3 DEF Placed
  <2>5. \A g \in ToSet(page.kids[f]) : page.kids[f][IndexIn(page.kids[f], g)] = g
    BY <2>2, IndexIs
  <2> HIDE DEF index
  <2> QED
    BY <2>2, <2>4, <2>5 DEF Children
<1> HIDE DEF byIndex, byName, byUrl, r, index
<1>4. \A S \in SUBSET Children(list, f) : requireSingleFrame(S) \in Children(list, f) \cup Failures
  BY <1>2, SingleIs
<1>5. byIndex = {el} => r = el
  <2> SUFFICES ASSUME byIndex = {el} PROVE r = el
    OBVIOUS
  <2>1. Cardinality(byIndex) = 1
    BY FS_Singleton
  <2> QED
    BY <1>1, <1>2, <2>1, SingleIs
<1>6. r \in Children(list, f) \cup Failures
  BY <1>1, <1>2, <1>4
<1> QED
  BY <1>3, <1>5, <1>6 DEF r

\* The element that is measured for a child, and for a frame that cannot be mistaken,
\* when the listing is of the page, its own.
LEMMA RectIs ==
  ASSUME NEW list, IsListing(list), IsTree(page), NEW f \in AllFrames, NEW g \in Frame
  PROVE  /\ getChildFrameElementRect(list, f, g) \in Frame \cup {NoFrame}
         /\ /\ list.tree = page /\ g \in ToSet(page.kids[f]) /\ Placed(g) /\ Unmistakable(g)
            => getChildFrameElementRect(list, f, g) = g
<1> DEFINE dom   == page.dom[f]
           index == IndexIn(list.tree.kids[f], g)
           name  == list.tree.name[g]
           url   == list.tree.url[g]
           named == FirstOf(dom, {h \in Frame : page.name[h] = name})
           there == FirstOf(dom, {h \in Frame : Includes(url, page.src[h])})
           inPlace == IF index \in DOMAIN dom THEN dom[index] ELSE NoFrame
           fitting == IF name = NoFrame \/ (inPlace # NoFrame /\ page.name[inPlace] = name) THEN inPlace
                     ELSE IF named # NoFrame THEN named ELSE inPlace
           r == getChildFrameElementRect(list, f, g)
<1>1. r = IF fitting # NoFrame /\ page.src[fitting] = url THEN fitting
          ELSE IF there # NoFrame THEN there ELSE fitting
  BY DEF getChildFrameElementRect
<1>2. dom \in Seq(Frame) /\ IsInjective(dom) /\ ToSet(dom) = ToSet(page.kids[f])
  BY PageParts DEF IsTree
<1> HIDE DEF dom
<1>3. /\ \A i \in DOMAIN dom : dom[i] \in Frame
      /\ named \in Frame \cup {NoFrame} /\ there \in Frame \cup {NoFrame}
      /\ there = NoFrame \/ (there \in ToSet(dom) /\ Includes(url, page.src[there]))
  BY <1>2, FirstIs
<1> HIDE DEF named, there, index
<1>4. r \in Frame \cup {NoFrame}
  BY <1>1, <1>3
<1>5. /\ list.tree = page /\ g \in ToSet(page.kids[f]) /\ Placed(g) /\ Unmistakable(g)
      => r = g
  <2> SUFFICES ASSUME list.tree = page, g \in ToSet(page.kids[f]), Placed(g), Unmistakable(g)
               PROVE  r = g
    OBVIOUS
  <2>1. Parent(page, g) = f
    BY ParentIs DEF AllFrames
  <2>2. index = IndexIn(dom, g)
    BY <2>1 DEF Placed, index, dom
  <2>3. index \in DOMAIN dom /\ dom[index] = g
    BY <1>2, <2>2, IndexIs
  <2>4. g # NoFrame
    BY FrameAssumption DEF AllFrames
  <2>5. inPlace = g
    BY <2>3
  <2>6. fitting = g
    BY <2>4, <2>5
  <2>7. url = page.url[g]
    OBVIOUS
  <2>8. page.src[g] = url \/ there \in {g, NoFrame}
    BY <1>3, <2>1, <2>7 DEF Unmistakable, dom
  <2> HIDE DEF inPlace, fitting, url
  <2> QED
    BY <1>1, <2>4, <2>6, <2>8
<1> QED
  BY <1>4, <1>5 DEF r

----------------------------------------------------------------------------
(* Frames: the changes of the page *)

\* The parts of the state of a call.
LEMMA CallParts ==
  ASSUME NEW c \in CallType
  PROVE  /\ c.step \in {"idle", "resolving", "path", "found", "chaining", "offset"}
         /\ c.spec \in Specs \cup {[by |-> "nothing"]} /\ c.tree \in {NoFrame} \cup Page \cup Listing
         /\ c.nav \in {NoFrame} \cup Page /\ c.left \in Seq(Segment \cup AllFrames)
         /\ c.at \in AllFrames \cup {NoFrame} \cup Failures /\ c.meant \in Seq(Frame \cup {NoFrame})
         /\ c.offset \in Seq(Frame \cup {NoFrame}) /\ c.result \in AllFrames \cup {NoFrame} \cup Failures
         /\ c.changes \in 0 .. MaxChanges
         /\ c = [step |-> c.step, spec |-> c.spec, tree |-> c.tree, nav |-> c.nav, left |-> c.left,
                 at |-> c.at, meant |-> c.meant, offset |-> c.offset, result |-> c.result,
                 changes |-> c.changes]
  BY DEF CallType

\* Before any call.
LEMMA NoCallIs ==
  NoCall \in CallType /\ NoCall.step = "idle" /\ NoCall.meant = <<>> /\ NoCall.result \notin AllFrames
<1>1. NoCall.step = "idle" /\ NoCall.meant = <<>> /\ NoCall.result = NoFrame
  BY DEF NoCall
<1>2. NoCall \in CallType
  <2>1. <<>> \in Seq(Segment \cup AllFrames) /\ <<>> \in Seq(Frame \cup {NoFrame}) /\ 0 \in 0 .. MaxChanges
    BY FrameAssumption
  <2> QED
    BY <2>1 DEF NoCall, CallType
<1> QED
  BY <1>1, <1>2, FrameAssumption

\* A call that is idle and has found no frame.
LEMMA IdleCall ==
  ASSUME call' \in CallType, call'.step = "idle", call'.result \notin AllFrames, PathLeadsThere'
  PROVE  CallInv'
BY DEF CallInv, Awaits, Looks, Follows, Finds, Measures, OffsetIsItsOwn

\* The page before any change is a tree.
LEMMA EmptyTree == IsTree(EmptyPage) /\ ~IsTree(Nothing)
<1> DEFINE p == EmptyPage
<1>1. /\ p.kids = [f \in AllFrames |-> <<>>] /\ p.dom = [f \in AllFrames |-> <<>>]
      /\ p.src = [f \in AllFrames |-> NoFrame] /\ p.name = [f \in AllFrames |-> NoFrame]
      /\ p.url = [f \in AllFrames |-> IF f = Top THEN Blank ELSE NoFrame]
      /\ p = [kids |-> p.kids, dom |-> p.dom, src |-> p.src, name |-> p.name, url |-> p.url]
  BY DEF EmptyPage
<1>2. Top \in AllFrames /\ Blank \in Url /\ Blank # NoFrame
  BY FrameAssumption DEF AllFrames
<1> HIDE DEF p
<1>3. p.url[Top] # NoFrame
  BY <1>1, <1>2
<1>4. p \in Page
  <2>1. <<>> \in Seq(Frame)
    OBVIOUS
  <2>2. p.kids \in [AllFrames -> Seq(Frame)] /\ p.dom \in [AllFrames -> Seq(Frame)]
    BY <1>1, <2>1
  <2>3. p.url \in [AllFrames -> Url \cup {NoFrame}]
    BY <1>1, <1>2
  <2> QED
    BY <1>1, <2>2, <2>3 DEF Page
<1>5. \A f \in AllFrames : p.kids[f] = <<>> /\ p.dom[f] = <<>>
  BY <1>1
<1>6. IsInjective(<<>>) /\ ToSet(<<>>) = {}
  BY DEF IsInjective, ToSet
<1>7. Live(p) = {Top}
  BY <1>1, <1>2 DEF Live
<1>8. \A f \in Frame : p.src[f] = NoFrame => p.url[f] = NoFrame
  BY <1>1, FrameAssumption DEF AllFrames
<1>9. IsTree(p)
  BY <1>3, <1>4, <1>5, <1>6, <1>7, <1>8 DEF IsTree
<1>10. Nothing.url = [p.url EXCEPT ![Top] = NoFrame]
  BY <1>1 DEF Nothing, p
<1>11. Nothing.url[Top] = NoFrame
  BY <1>1, <1>2, <1>10
<1>12. ~IsTree(Nothing)
  BY <1>11 DEF IsTree
<1> QED
  BY <1>9, <1>12 DEF p

\* A listing without frames is one.
LEMMA NothingIsPage == Nothing \in Page
<1>1. EmptyPage \in Page
  BY EmptyTree DEF IsTree
<1>2. EmptyPage.url \in [AllFrames -> Url \cup {NoFrame}]
  BY <1>1, PageParts
<1>3. [EmptyPage.url EXCEPT ![Top] = NoFrame] \in [AllFrames -> Url \cup {NoFrame}]
  BY <1>2
<1>4. Nothing = [EmptyPage EXCEPT !.url = [EmptyPage.url EXCEPT ![Top] = NoFrame]]
  BY DEF Nothing
<1> HIDE DEF EmptyPage, Nothing
<1> QED
  BY <1>1, <1>3, <1>4 DEF Page

\* At the start all of it holds.
LEMMA FramesBegin == FrameInit => FramesInv
<1> SUFFICES ASSUME FrameInit PROVE FramesInv
  OBVIOUS
<1>1. page = EmptyPage /\ frameTreeCache = NoFrame /\ call = NoCall
  BY DEF FrameInit
<1>2. IsTree(page)
  BY <1>1, EmptyTree
<1>3. NumbersAreTrue /\ ListingIsCurrent
  BY <1>1 DEF NumbersAreTrue, ListingIsCurrent
<1>4. PathLeadsThere
  BY <1>1, NoCallIs DEF PathLeadsThere
<1>5. CallInv
  BY <1>1, <1>4, NoCallIs DEF CallInv, Awaits, Looks, Follows, Finds, Measures, OffsetIsItsOwn
<1> QED
  BY <1>1, <1>2, <1>3, <1>5 DEF FramesInv

\* A change of the page leaves a call that is under way what it knew, and takes
\* away that it knows the page.
LEMMA ChangeKeeps ==
  ASSUME CallInv, NEW cache, cache \in {frameTreeCache, NoFrame}, Changed(cache)
  PROVE  CallInv'
<1>1. call \in CallType /\ frameTreeCache' = cache
  BY DEF CallInv, Changed
<1>2. CASE call.step \in {"idle", "found"}
  <2>1. call' = NoCall
    BY <1>2 DEF Changed
  <2>2. PathLeadsThere'
    BY <2>1, NoCallIs DEF PathLeadsThere
  <2> QED
    BY <2>1, <2>2, NoCallIs, IdleCall
<1>3. CASE call.step \notin {"idle", "found"}
  <2>1. call.changes < MaxChanges /\ call' = [call EXCEPT !.changes = @ + 1]
    BY <1>3 DEF Changed
  <2>2. call.changes \in 0 .. MaxChanges /\ MaxChanges \in Nat
    BY <1>1, CallParts, FrameAssumption
  <2>3. call.changes + 1 \in 0 .. MaxChanges /\ call.changes + 1 > 0 /\ call.changes + 1 # 0
    BY <2>1, <2>2
  <2>4. /\ call'.step = call.step /\ call'.spec = call.spec /\ call'.tree = call.tree
        /\ call'.nav = call.nav /\ call'.left = call.left /\ call'.at = call.at
        /\ call'.meant = call.meant /\ call'.offset = call.offset /\ call'.result = call.result
        /\ call'.changes = call.changes + 1
    BY <1>1, <2>1, CallParts
  <2>5. call' \in CallType
    BY <1>1, <2>1, <2>3 DEF CallType
  <2>6. Awaits(call)' /\ Looks(call)' /\ Follows(call)' /\ Finds(call)'
    BY <1>1, <1>3, <2>3, <2>4 DEF CallInv, Awaits, Looks, Follows, Finds
  <2>7. Measures(call)'
    BY <2>3, <2>4 DEF CallInv, Measures
  <2>8. PathLeadsThere' /\ OffsetIsItsOwn'
    BY <1>3, <2>3, <2>4 DEF PathLeadsThere, OffsetIsItsOwn, Undisturbed
  <2> QED
    BY <2>5, <2>6, <2>7, <2>8 DEF CallInv
<1> QED
  BY <1>2, <1>3

\* The numbers of the listing that is kept.
LEMMA NumbersAre == NumbersAreTrue <=> (frameTreeCache # NoFrame => NumbersOf(frameTreeCache))
BY DEF NumbersAreTrue, NumbersOf

\* A frame that was never there is attached.
LEMMA AttachKeeps ==
  ASSUME FramesInv, NEW f \in Frame, NEW g \in AllFrames, NEW src \in (Url \ {Blank}) \cup {NoUrl},
         NEW name \in FrameName \cup {NoFrame}, NEW i \in 1 .. Cardinality(Frame),
         Attach(f, g, src, name, i)
  PROVE  FramesInv'
<1> DEFINE cache == IF src = NoUrl THEN frameTreeCache ELSE NoFrame
           u == IF src = NoUrl THEN Blank ELSE src
<1>1. IsTree(page) /\ page.src[f] = NoFrame /\ g \in Live(page) /\ i \in 1 .. Len(page.dom[g]) + 1
  BY DEF FramesInv, Attach
<1>2. page' = [page EXCEPT !.kids[g] = Append(@, f), !.dom[g] = InsertAt(@, i, f),
                           !.src[f] = src, !.name[f] = name, !.url[f] = u]
  BY DEF Attach
<1>3. IsTree(page') /\ f \notin Live(page)
  BY <1>1, <1>2, AttachTree
<1>4. page'.url = [page.url EXCEPT ![f] = u] /\ page.url \in [AllFrames -> Url \cup {NoFrame}]
  BY <1>1, <1>2, PageParts DEF IsTree
<1>5. Changed(cache)
  BY DEF Attach
<1>6. frameTreeCache' = cache
  BY <1>5 DEF Changed
<1>7. CallInv'
  BY <1>5, ChangeKeeps DEF FramesInv
<1>8. frameTreeCache' = NoFrame \/ (frameTreeCache' = frameTreeCache /\ src = NoUrl)
  BY <1>6
<1>9. (frameTreeCache' # NoFrame => IsListing(frameTreeCache')) /\ NumbersAreTrue'
  BY <1>8 DEF FramesInv, NumbersAreTrue
<1>10. ListingIsCurrent'
  <2> SUFFICES ASSUME frameTreeCache # NoFrame, frameTreeCache' = frameTreeCache, src = NoUrl,
                      ~frameTreeCache.mixed
               PROVE  ListingIsCurrent'
    BY <1>8 DEF ListingIsCurrent
  <2>1. IsListing(frameTreeCache) /\ ListingIsCurrent
    BY DEF FramesInv
  <2> DEFINE L == ListedFrames(frameTreeCache)
  <2>2. L = Live(frameTreeCache.tree) /\ L \in SUBSET AllFrames
    BY <2>1, ListedIs
  <2>3. /\ \A h \in L : page.url[h] = frameTreeCache.tree.url[h]
        /\ \A h \in Live(page) \ L : page.url[h] = Blank
    BY <2>1 DEF ListingIsCurrent
  <2>4. f \notin L
    BY <1>3, <2>2, <2>3 DEF Live
  <2>5. \A h \in AllFrames : page'.url[h] = IF h = f THEN Blank ELSE page.url[h]
    BY <1>4
  <2>6. \A h \in L : page'.url[h] = frameTreeCache.tree.url[h]
    BY <2>2, <2>3, <2>4, <2>5
  <2>7. \A h \in Live(page') \ L : page'.url[h] = Blank
    BY <2>3, <2>5 DEF Live
  <2>8. ListedFrames(frameTreeCache') = L
    OBVIOUS
  <2> HIDE DEF L
  <2> QED
    BY <2>6, <2>7, <2>8 DEF ListingIsCurrent
<1> QED
  BY <1>3, <1>7, <1>9, <1>10 DEF FramesInv

\* A frame loads another document, and all that lies within it goes.
LEMMA NavigatedKeeps ==
  ASSUME FramesInv, NEW f \in Frame, NEW u \in Url, frameNavigated(f, u)
  PROVE  FramesInv'
<1>1. IsTree(page) /\ f \in Live(page) /\ Changed(NoFrame)
      /\ page' = [Without(page, Below(page, f)) EXCEPT !.url[f] = u]
  BY DEF FramesInv, frameNavigated
<1>2. Below(page, f) \in SUBSET Frame /\ f \notin Below(page, f) /\ Closed(page, Below(page, f))
  BY <1>1, BelowIs
<1>3. /\ IsTree(Without(page, Below(page, f)))
      /\ Live(Without(page, Below(page, f))) = Live(page) \ Below(page, f)
  BY <1>1, <1>2, WithoutTree
<1>4. IsTree(page')
  BY <1>1, <1>2, <1>3, ReloadTree
<1>5. CallInv' /\ frameTreeCache' = NoFrame
  BY <1>1, ChangeKeeps DEF FramesInv, Changed
<1> QED
  BY <1>4, <1>5 DEF FramesInv, NumbersAreTrue, ListingIsCurrent

\* A frame goes with all that lies within it.
LEMMA DetachedKeeps ==
  ASSUME FramesInv, NEW f \in Frame, frameDetached(f)
  PROVE  FramesInv'
<1>1. IsTree(page) /\ f \in Live(page) /\ Changed(NoFrame)
      /\ page' = Without(page, {f} \cup Below(page, f))
  BY DEF FramesInv, frameDetached
<1>2. /\ Below(page, f) \in SUBSET Frame /\ Closed(page, Below(page, f))
      /\ ToSet(page.kids[f]) \subseteq Below(page, f)
  BY <1>1, BelowIs
<1>3. Closed(page, {f} \cup Below(page, f)) /\ {f} \cup Below(page, f) \in SUBSET Frame
  BY <1>2 DEF Closed
<1>4. IsTree(page')
  BY <1>1, <1>3, WithoutTree
<1>5. CallInv' /\ frameTreeCache' = NoFrame
  BY <1>1, ChangeKeeps DEF FramesInv, Changed
<1> QED
  BY <1>4, <1>5 DEF FramesInv, NumbersAreTrue, ListingIsCurrent

----------------------------------------------------------------------------
(* Frames: the steps of a call *)

\* With a listing at hand a call goes on as it should.
LEMMA ResolveKeeps ==
  ASSUME NEW c \in CallType, NEW list, IsListing(list), frameTreeCache' = list,
         c.meant = <<>>, c.offset = <<>>, c.nav = NoFrame, call' = Resolve(c, list)
  PROVE  CallInv'
<1>1. Top \in ListedFrames(list) /\ ListedFrames(list) \in SUBSET AllFrames /\ list # NoFrame
  BY ListedIs
<1>2. CASE c.spec.by = "framePath"
  <2>1. call' = [c EXCEPT !.step = "path", !.at = Top, !.left = c.spec.is, !.tree = list]
    BY <1>2 DEF Resolve
  <2>2. c.spec.is \in Seq(Segment) /\ c.spec.is # <<>>
    BY <1>2, CallParts, PathIs
  <2>3. c.spec.is \in Seq(Segment \cup AllFrames)
    BY <2>2, SeqGrows
  <2>4. list \in Listing /\ Top \in AllFrames
    BY DEF IsListing, AllFrames
  <2>5. /\ call'.step = "path" /\ call'.at = Top /\ call'.left = c.spec.is /\ call'.tree = list
        /\ call'.meant = <<>> /\ call'.offset = <<>> /\ call'.nav = NoFrame
    BY <2>1, CallParts
  <2>6. call' \in CallType
    BY <2>1, <2>3, <2>4 DEF CallType
  <2>7. PathLeadsThere'
    BY <2>5 DEF PathLeadsThere
  <2> QED
    BY <1>1, <2>2, <2>5, <2>6, <2>7
       DEF CallInv, Awaits, Looks, Follows, Finds, Measures, OffsetIsItsOwn
<1>3. CASE c.spec.by # "framePath"
  <2> DEFINE f == Named(c.spec, list)
  <2>1. f \in ListedFrames(list) \cup Failures
    BY NamedIs
  <2>2. call' = IF f \in AllFrames THEN [c EXCEPT !.step = "found", !.at = f] ELSE Ends(c, f)
    BY <1>3 DEF Resolve
  <2> HIDE DEF f
  <2>3. CASE f \in AllFrames
    <3>1. call' = [c EXCEPT !.step = "found", !.at = f]
      BY <2>2, <2>3
    <3>2. /\ call'.step = "found" /\ call'.at = f /\ call'.meant = <<>>
          /\ call'.offset = <<>> /\ call'.nav = NoFrame
      BY <3>1, CallParts
    <3>3. call' \in CallType
      BY <2>3, <3>1 DEF CallType
    <3>4. f \in ListedFrames(list)
      BY <2>1, <2>3, FrameAssumption
    <3>5. PathLeadsThere'
      BY <3>2 DEF PathLeadsThere
    <3> QED
      BY <1>1, <2>3, <3>2, <3>3, <3>4, <3>5
         DEF CallInv, Awaits, Looks, Follows, Finds, Measures, OffsetIsItsOwn
  <2>4. CASE f \notin AllFrames
    <3>1. call' = Ends(c, f) /\ f \in Failures
      BY <1>1, <2>1, <2>2, <2>4
    <3>2. call'.step = "idle" /\ call'.result = f /\ call'.meant = <<>>
      BY <3>1, CallParts DEF Ends
    <3>3. call' \in CallType
      BY <3>1 DEF Ends, CallType
    <3>4. PathLeadsThere'
      BY <3>2 DEF PathLeadsThere
    <3> QED
      BY <2>4, <3>2, <3>3, <3>4, IdleCall
  <2> QED
    BY <2>3, <2>4
<1> QED
  BY <1>2, <1>3

\* The offset of the frame that was found is asked for.
LEMMA ChainKeeps ==
  ASSUME NEW c \in CallType, NEW list, IsListing(list), frameTreeCache' = list,
         c.at \in AllFrames, c.nav = NoFrame, c.offset = <<>>,
         c.changes = 0 => c.at \in ListedFrames(list),
         call' = Chain(c, list), call'.at = c.at => PathLeadsThere'
  PROVE  CallInv'
<1> DEFINE chain == getFrameChain(list, c.at)
<1>1. ListedFrames(list) \in SUBSET AllFrames /\ list # NoFrame /\ list \in Listing
  BY ListedIs DEF IsListing
<1>2. chain \in Seq(AllFrames) /\ (c.at \in ListedFrames(list) => chain \in Chains(list.tree))
  BY ChainIs
<1>3. call' = IF Len(chain) < 2 THEN Ends(c, c.at)
              ELSE [c EXCEPT !.step = "offset", !.left = chain, !.tree = list]
  BY DEF Chain
<1>4. Len(chain) \in Nat /\ (chain \in Chains(list.tree) => Len(chain) > 0)
  BY <1>2 DEF Chains
<1> HIDE DEF chain
<1>5. CASE Len(chain) < 2
  <2>1. call' = Ends(c, c.at)
    BY <1>3, <1>5
  <2>2. /\ call'.step = "idle" /\ call'.result = c.at /\ call'.at = c.at /\ call'.offset = <<>>
        /\ call'.changes = c.changes
    BY <2>1, CallParts DEF Ends
  <2>3. call' \in CallType
    BY <2>1 DEF Ends, CallType
  <2>4. c.changes = 0 => Tail(chain) = <<>>
    <3> SUFFICES ASSUME c.changes = 0 PROVE Tail(chain) = <<>>
      OBVIOUS
    <3>1. c.at \in ListedFrames(list)
      OBVIOUS
    <3>2. Len(chain) > 0
      BY <1>2, <1>4, <3>1
    <3>3. \A n \in Nat : n > 0 /\ n < 2 => n = 1
      OBVIOUS
    <3>4. Len(chain) = 1
      BY <1>4, <1>5, <3>2, <3>3
    <3> QED
      BY <1>2, <3>4, OneLeft
  <2>5. OffsetIsItsOwn'
    BY <2>2, <2>4 DEF OffsetIsItsOwn, Undisturbed, chain
  <2> QED
    BY <2>2, <2>3, <2>5 DEF CallInv, Awaits, Looks, Follows, Finds, Measures
<1>6. CASE ~(Len(chain) < 2)
  <2>1. call' = [c EXCEPT !.step = "offset", !.left = chain, !.tree = list]
    BY <1>3, <1>6
  <2>2. /\ call'.step = "offset" /\ call'.left = chain /\ call'.tree = list /\ call'.at = c.at
        /\ call'.offset = <<>> /\ call'.changes = c.changes /\ call'.nav = NoFrame
    BY <2>1, CallParts
  <2>3. chain \in Seq(Segment \cup AllFrames)
    BY <1>2, SeqGrows
  <2>4. call' \in CallType
    BY <1>1, <2>1, <2>3 DEF CallType
  <2>5. c.at \in ListedFrames(list)
    <3>1. c.at \notin ListedFrames(list) => Len(chain) = 0
      BY DEF getFrameChain, chain
    <3> QED
      BY <1>6, <3>1
  <2>6. chain = SubSeq(chain, 1, Len(chain)) /\ SubSeq(chain, 2, 1) = <<>>
    BY <1>2, <1>4
  <2>7. Measures(call)'
    <3>1. Len(call'.offset) = 0 /\ 0 + 1 < Len(chain)
      BY <1>4, <1>6, <2>2
    <3>2. getFrameChain(call'.tree, call'.at) = chain
      BY <2>2 DEF chain
    <3>3. call'.left = SubSeq(chain, 0 + 1, Len(chain)) /\ call'.offset = SubSeq(chain, 2, 0 + 1)
      BY <2>2, <2>6
    <3> QED
      BY <2>2, <2>5, <3>1, <3>2, <3>3 DEF Measures
  <2> QED
    BY <2>2, <2>4, <2>7 DEF CallInv, Awaits, Looks, Follows, Finds, OffsetIsItsOwn
<1> QED
  BY <1>5, <1>6

\* A call that comes to a listing, the one that is kept or a new one.
LEMMA ListingKeeps ==
  ASSUME NEW c \in CallType, NEW list, IsListing(list), frameTreeCache' = list,
         c.step \in {"resolving", "chaining"}, c.offset = <<>>, c.nav = NoFrame,
         c.step = "resolving" => c.meant = <<>>,
         c.step = "chaining" => c.at \in AllFrames /\ (c.changes = 0 => c.at \in ListedFrames(list)),
         call' = WithListing(c, list),
         c.changes = 0 /\ c.step = "chaining" =>
           /\ PathLeadsThere /\ UNCHANGED <<page, frameTreeCache>>
           /\ c.meant = call.meant /\ c.at = call.at /\ call.changes = 0
  PROVE  CallInv'
<1>1. CASE c.step = "resolving"
  BY <1>1, ResolveKeeps DEF WithListing
<1>2. CASE c.step = "chaining"
  <2>1. call' = Chain(c, list)
    BY <1>2 DEF WithListing
  <2>2. call'.meant = c.meant /\ call'.changes = c.changes /\ call'.at = c.at
    BY <2>1, CallParts DEF Chain, Ends
  <2>3. PathLeadsThere'
    <3>1. CASE c.changes = 0
      <4>1. /\ PathLeadsThere /\ page' = page /\ frameTreeCache' = frameTreeCache
            /\ call'.meant = call.meant /\ call'.at = call.at /\ call'.changes = call.changes
        BY <1>2, <2>2, <3>1
      <4> QED
        BY <4>1 DEF PathLeadsThere, Undisturbed, Placed
    <3>2. CASE c.changes # 0
      BY <2>2, <3>2 DEF PathLeadsThere, Undisturbed
    <3> QED
      BY <3>1, <3>2
  <2> QED
    BY <1>2, <2>1, <2>3, ChainKeeps
<1> QED
  BY <1>1, <1>2

\* A call is begun, with the listing that is kept, or waits for two answers.
LEMMA ResolveTargetKeeps ==
  ASSUME FramesInv, NEW spec \in Specs, resolveFrameTarget(spec)
  PROVE  FramesInv'
<1> DEFINE c == [NoCall EXCEPT !.step = "resolving", !.spec = spec]
<1>1. c = [NoCall EXCEPT !.step = "resolving", !.spec = spec]
  OBVIOUS
<1>2. /\ page' = page /\ frameTreeCache' = frameTreeCache
      /\ call' = IF frameTreeCache # NoFrame THEN WithListing(c, frameTreeCache)
                 ELSE [c EXCEPT !.tree = NoFrame]
  BY DEF resolveFrameTarget, Lists
<1> HIDE DEF c
<1>3. /\ c \in CallType /\ c.step = "resolving" /\ c.meant = <<>> /\ c.offset = <<>>
      /\ c.nav = NoFrame
  <2>1. NoCall \in CallType /\ NoCall.meant = <<>> /\ NoCall.offset = <<>> /\ NoCall.nav = NoFrame
    BY NoCallIs DEF NoCall
  <2> QED
    BY <1>1, <2>1 DEF CallType
<1>4. CallInv'
  <2>1. CASE frameTreeCache # NoFrame
    <3>1. IsListing(frameTreeCache)
      BY <2>1 DEF FramesInv
    <3>2. call' = WithListing(c, frameTreeCache)
      BY <1>2, <2>1
    <3> QED
      BY <1>2, <1>3, <3>1, <3>2, ListingKeeps
  <2>2. CASE frameTreeCache = NoFrame
    <3>1. call' = [c EXCEPT !.tree = NoFrame]
      BY <1>2, <2>2
    <3>2. call' \in CallType
      BY <1>3, <3>1 DEF CallType
    <3>3. /\ call'.step = "resolving" /\ call'.meant = <<>> /\ call'.offset = <<>> /\ call'.nav = NoFrame
          /\ call'.nav = NoFrame /\ call'.tree = NoFrame
      BY <1>3, <3>1, CallParts
    <3> QED
      BY <1>2, <2>2, <3>2, <3>3
         DEF CallInv, Awaits, Looks, Follows, Finds, Measures, PathLeadsThere, OffsetIsItsOwn
  <2> QED
    BY <2>1, <2>2
<1> QED
  BY <1>2, <1>4 DEF FramesInv, NumbersAreTrue, ListingIsCurrent

\* The place of the frame that was found is asked for.
LEMMA ViewportOffsetKeeps ==
  ASSUME FramesInv, getFrameViewportOffset
  PROVE  FramesInv'
<1> DEFINE c == [call EXCEPT !.step = "chaining"]
<1>1. c = [call EXCEPT !.step = "chaining"] /\ call.step = "found"
  BY DEF getFrameViewportOffset
<1>2. /\ page' = page /\ frameTreeCache' = frameTreeCache
      /\ call' = IF frameTreeCache # NoFrame THEN WithListing(c, frameTreeCache)
                 ELSE [c EXCEPT !.tree = NoFrame]
  BY DEF getFrameViewportOffset, Lists
<1> HIDE DEF c
<1>3. /\ call \in CallType /\ Finds(call) /\ PathLeadsThere
      /\ call.at \in AllFrames /\ call.offset = <<>> /\ call.nav = NoFrame
      /\ call.changes = 0 => frameTreeCache # NoFrame /\ call.at \in ListedFrames(frameTreeCache)
  BY <1>1 DEF FramesInv, CallInv, Finds
<1>4. /\ c \in CallType /\ c.step = "chaining" /\ c.meant = call.meant /\ c.offset = <<>>
      /\ c.nav = call.nav /\ c.at = call.at /\ c.changes = call.changes
  BY <1>1, <1>3 DEF CallType
<1>5. CallInv'
  <2>1. CASE frameTreeCache # NoFrame
    <3>1. IsListing(frameTreeCache)
      BY <2>1 DEF FramesInv
    <3>2. call' = WithListing(c, frameTreeCache)
      BY <1>2, <2>1
    <3> QED
      BY <1>2, <1>3, <1>4, <3>1, <3>2, ListingKeeps
  <2>2. CASE frameTreeCache = NoFrame
    <3>1. call' = [c EXCEPT !.tree = NoFrame]
      BY <1>2, <2>2
    <3>2. call' \in CallType
      BY <1>4, <3>1 DEF CallType
    <3>3. /\ call'.step = "chaining" /\ call'.meant = call.meant /\ call'.offset = <<>>
          /\ call'.nav = call.nav /\ call'.tree = NoFrame /\ call'.at = call.at
          /\ call'.changes = call.changes
      BY <1>4, <3>1, CallParts
    <3>4. call.changes # 0 /\ call.changes \in 0 .. MaxChanges /\ MaxChanges \in Nat
      BY <1>3, <2>2, CallParts, FrameAssumption
    <3>5. call.changes > 0
      BY <3>4
    <3> QED
      BY <1>2, <1>3, <2>2, <3>2, <3>3, <3>4, <3>5
         DEF CallInv, Awaits, Looks, Follows, Finds, Measures, PathLeadsThere, OffsetIsItsOwn,
             Undisturbed
  <2> QED
    BY <2>1, <2>2
<1> QED
  BY <1>2, <1>5 DEF FramesInv, NumbersAreTrue, ListingIsCurrent

\* One of the two answers comes; the second makes a listing, and it is of the page when
\* both are of one page.
LEMMA AnsweredKeeps ==
  ASSUME FramesInv, NEW tree, NEW nav, ListingAnswered(tree, nav),
         tree = NoFrame \/ IsTree(tree), nav \in {NoFrame, Nothing} \/ IsTree(nav),
         tree = nav => tree \in {page, NoFrame}
  PROVE  FramesInv'
<1> DEFINE list == [tree |-> tree, ids |-> mergeNavigationFrames(tree, nav), mixed |-> tree # nav]
           c == [call EXCEPT !.tree = NoFrame, !.nav = NoFrame]
<1>1. /\ call.step \in {"resolving", "chaining"} /\ page' = page
      /\ IF tree # NoFrame /\ nav # NoFrame
         THEN frameTreeCache' = list /\ call' = WithListing(c, list)
         ELSE call' = [call EXCEPT !.tree = tree, !.nav = nav] /\ frameTreeCache' = frameTreeCache
  BY DEF ListingAnswered
<1>2. /\ IsTree(page) /\ call \in CallType /\ Awaits(call)
      /\ PathLeadsThere
  BY DEF FramesInv, CallInv
<1>3. /\ frameTreeCache = NoFrame /\ call.offset = <<>>
      /\ IF call.step = "resolving" THEN call.meant = <<>>
         ELSE call.at \in AllFrames /\ call.changes > 0
      /\ call.changes \in 0 .. MaxChanges /\ MaxChanges \in Nat
  BY <1>1, <1>2, CallParts, FrameAssumption DEF Awaits
<1>4. CASE tree # NoFrame /\ nav # NoFrame
  <2>1. IsListing(list) /\ NumbersOf(list) /\ ListedFrames(list) = Live(tree)
    BY <1>4, NewListing
  <2>2. list.tree = tree /\ list.mixed = (tree # nav)
    OBVIOUS
  <2>3. c = [call EXCEPT !.tree = NoFrame, !.nav = NoFrame]
    OBVIOUS
  <2>4. frameTreeCache' = list /\ call' = WithListing(c, list)
    BY <1>1, <1>4
  <2> HIDE DEF list, c
  <2>5. /\ c \in CallType /\ c.step = call.step /\ c.nav = NoFrame /\ c.offset = <<>>
        /\ c.meant = call.meant /\ c.at = call.at /\ c.changes = call.changes
    BY <1>2, <1>3, <2>3 DEF CallType
  <2>6. c.step = "chaining" => c.changes # 0
    BY <1>3, <2>5
  <2>7. CallInv'
    BY <1>1, <1>3, <2>1, <2>4, <2>5, <2>6, ListingKeeps
  <2>8. NumbersAreTrue'
    BY <2>1, <2>4 DEF NumbersAreTrue, NumbersOf
  <2>9. ListingIsCurrent'
    <3> SUFFICES ASSUME ~list.mixed PROVE ListingIsCurrent'
      BY <2>4 DEF ListingIsCurrent
    <3>1. tree = page
      BY <1>4, <2>2
    <3> QED
      BY <1>1, <2>1, <2>2, <2>4, <3>1 DEF ListingIsCurrent
  <2> QED
    BY <1>1, <1>2, <2>1, <2>4, <2>7, <2>8, <2>9 DEF FramesInv
<1>5. CASE ~(tree # NoFrame /\ nav # NoFrame)
  <2>1. call' = [call EXCEPT !.tree = tree, !.nav = nav] /\ frameTreeCache' = frameTreeCache
    BY <1>1, <1>5
  <2>2. tree \in {NoFrame} \cup Page /\ nav \in {NoFrame} \cup Page
    BY NothingIsPage DEF IsTree
  <2>3. call' \in CallType
    BY <1>2, <2>1, <2>2 DEF CallType
  <2>4. /\ call'.step = call.step /\ call'.meant = call.meant /\ call'.offset = <<>>
        /\ call'.nav = nav /\ call'.tree = tree /\ call'.at = call.at
        /\ call'.changes = call.changes
    BY <1>2, <1>3, <2>1, CallParts
  <2>5. Awaits(call)'
    BY <1>1, <1>3, <2>1, <2>4 DEF Awaits
  <2>6. PathLeadsThere'
    BY <1>3, <2>1, <2>4 DEF PathLeadsThere, Undisturbed
  <2>7. CallInv'
    BY <1>1, <2>3, <2>4, <2>5, <2>6
       DEF CallInv, Looks, Follows, Finds, Measures, OffsetIsItsOwn
  <2> QED
    BY <1>1, <1>2, <1>3, <2>1, <2>7 DEF FramesInv, NumbersAreTrue, ListingIsCurrent
<1> QED
  BY <1>4, <1>5

\* The debugger answers with the page as it is.
LEMMA TreeAnswersKeeps ==
  ASSUME FramesInv, TreeAnswers
  PROVE  FramesInv'
<1>1. ListingAnswered(page, call.nav) /\ IsTree(page)
  BY DEF TreeAnswers, FramesInv
<1>2. call.step \in {"resolving", "chaining"} /\ Awaits(call)
  BY <1>1 DEF ListingAnswered, FramesInv, CallInv
<1>3. call.nav \in {NoFrame, Nothing} \/ IsTree(call.nav)
  BY <1>2 DEF Awaits
<1> QED
  BY <1>1, <1>3, AnsweredKeeps

\* chrome.webNavigation answers with the page as it is, or fails.
LEMMA GetAllFramesAnswersKeeps ==
  ASSUME FramesInv, GetAllFramesAnswers
  PROVE  FramesInv'
<1>1. PICK nav \in {page, Nothing} : ListingAnswered(call.tree, nav)
  BY DEF GetAllFramesAnswers
<1>2. call.step \in {"resolving", "chaining"} /\ Awaits(call) /\ IsTree(page)
  BY <1>1 DEF ListingAnswered, FramesInv, CallInv
<1>3. call.tree = NoFrame \/ IsTree(call.tree)
  BY <1>2 DEF Awaits
<1>4. call.tree = nav => call.tree \in {page, NoFrame}
  BY <1>3, EmptyTree
<1> QED
  BY <1>1, <1>2, <1>3, <1>4, AnsweredKeeps

\* A call that ends early has no result.
LEMMA FailureKeeps ==
  ASSUME CallInv, NEW f \in Failures, call' = Ends(call, f), UNCHANGED <<page, frameTreeCache>>
  PROVE  CallInv'
<1>1. call \in CallType /\ PathLeadsThere
  BY DEF CallInv
<1>2. call' \in CallType
  BY <1>1 DEF Ends, CallType
<1>3. /\ call'.step = "idle" /\ call'.result = f /\ call'.meant = call.meant
      /\ call'.at = call.at /\ call'.changes = call.changes
  BY <1>1, CallParts DEF Ends
<1>4. PathLeadsThere'
  BY <1>1, <1>3 DEF PathLeadsThere, Undisturbed, Placed
<1> QED
  BY <1>2, <1>3, <1>4, IdleCall, FrameAssumption

\* A segment is looked up in the document above it.
LEMMA PathKeeps ==
  ASSUME FramesInv, call.step = "path", call.at \in Live(page), UNCHANGED <<page, frameTreeCache>>,
         NEW el \in resolveFrameElementInParent(call.at, call.left[1]),
         NEW f, f = IF el = NoFrame THEN "FRAME_NOT_FOUND"
                    ELSE resolveChildFrameFromParent(call.tree, call.at, el),
         NEW c, c = [call EXCEPT !.meant = Append(@, el), !.at = f, !.left = Tail(@)],
         call' = IF f \notin AllFrames THEN Ends(c, f)
                 ELSE IF c.left = <<>> THEN [c EXCEPT !.step = "found", !.tree = NoFrame]
                 ELSE c
  PROVE  CallInv'
<1>1. /\ call \in CallType /\ IsListing(call.tree) /\ call.nav = NoFrame
      /\ call.changes = 0 => call.tree = frameTreeCache
      /\ call.at \in ListedFrames(call.tree) /\ call.offset = <<>>
      /\ call.left \in Seq(Segment) /\ call.left # <<>> /\ IsTree(page)
  BY DEF FramesInv, CallInv, Looks, Follows
<1>2. /\ call.at \in AllFrames /\ Children(call.tree, call.at) \subseteq ListedFrames(call.tree)
      /\ ListedFrames(call.tree) \in SUBSET AllFrames /\ call.tree # NoFrame
  BY <1>1, ListedIs
<1>3. call.left[1] \in Segment /\ Tail(call.left) \in Seq(Segment)
  BY <1>1
<1>4. el \in ToSet(page.dom[call.at]) \cup {NoFrame} /\ ToSet(page.dom[call.at]) \subseteq Frame
  BY <1>1, <1>2, <1>3, ElementIs, PageParts DEF IsTree
<1>5. f \in ListedFrames(call.tree) \cup Failures
  BY <1>1, <1>2, <1>4, ChildIs DEF Failures
<1>6. /\ c.step = "path" /\ c.tree = call.tree /\ c.nav = NoFrame /\ c.left = Tail(call.left)
      /\ c.at = f /\ c.meant = Append(call.meant, el) /\ c.offset = <<>> /\ c.changes = call.changes
  BY <1>1, CallParts
<1>7. c \in CallType
  <2>1. Tail(call.left) \in Seq(Segment \cup AllFrames)
    BY <1>3, SeqGrows
  <2> DEFINE m == Append(call.meant, el)
             t == Tail(call.left)
  <2>2. m \in Seq(Frame \cup {NoFrame})
    BY <1>1, <1>4, CallParts, LastAdded
  <2>3. f \in AllFrames \cup {NoFrame} \cup Failures
    BY <1>2, <1>5
  <2>4. c = [call EXCEPT !.meant = m, !.at = f, !.left = t]
    OBVIOUS
  <2>5. t \in Seq(Segment \cup AllFrames)
    BY <2>1
  <2> HIDE DEF m, t
  <2> QED
    BY <1>1, <2>2, <2>3, <2>4, <2>5 DEF CallType
<1>8. call'.at = f /\ call'.meant = Append(call.meant, el) /\ call'.changes = call.changes
  BY <1>6, <1>7, CallParts DEF Ends
<1>8a. call.meant \in Seq(Frame \cup {NoFrame}) /\ el \in Frame \cup {NoFrame}
  BY <1>1, <1>4, CallParts
<1>8b. /\ Last(call'.meant) = el
      /\ Len(call'.meant) \in DOMAIN call'.meant /\ call'.meant[Len(call'.meant)] = el
  <2> DEFINE s == call.meant
             t == call'.meant
  <2>1. t = Append(s, el)
    BY <1>8
  <2>2. s \in Seq(Frame \cup {NoFrame}) /\ el \in Frame \cup {NoFrame}
    BY <1>8a
  <2> HIDE DEF s, t
  <2>3. Last(t) = el /\ Len(t) \in DOMAIN t /\ t[Len(t)] = el
    BY <2>1, <2>2, LastAdded
  <2> QED
    BY <2>3 DEF t
<1>9. PathLeadsThere'
  <2> SUFFICES ASSUME Undisturbed',
                      \A i \in DOMAIN call'.meant : call'.meant[i] # NoFrame => Placed(call'.meant[i])
               PROVE  f = IF el = NoFrame THEN "FRAME_NOT_FOUND" ELSE el
    <3>1. Last(call'.meant) = el
      BY <1>8b
    <3>2. \A x : Placed(x)' <=> Placed(x)
      BY DEF Placed
    <3> QED
      BY <1>8, <3>1, <3>2 DEF PathLeadsThere
  <2>1. call.tree = frameTreeCache /\ frameTreeCache.tree = page
    BY <1>1, <1>8 DEF Undisturbed
  <2>2. CASE el = NoFrame
    BY <2>2
  <2>3. CASE el # NoFrame
    <3>1. Len(call'.meant) \in DOMAIN call'.meant /\ call'.meant[Len(call'.meant)] = el
      BY <1>8b
    <3>2. Placed(el) /\ el \in ToSet(page.dom[call.at]) /\ el \in Frame
      BY <1>4, <2>3, <3>1
    <3> QED
      BY <1>1, <1>2, <2>1, <2>3, <3>2, ChildIs
  <2> QED
    BY <2>2, <2>3
<1>10. CASE f \notin AllFrames
  <2>1. call' = Ends(c, f) /\ f \in Failures
    BY <1>2, <1>5, <1>10
  <2>2. call' \in CallType /\ call'.step = "idle" /\ call'.result = f
    BY <1>7, <2>1 DEF Ends, CallType
  <2> QED
    BY <1>9, <1>10, <2>2, IdleCall
<1>11. CASE f \in AllFrames /\ c.left = <<>>
  <2>1. call' = [c EXCEPT !.step = "found", !.tree = NoFrame]
    BY <1>11
  <2>2. call' \in CallType
    BY <1>7, <2>1 DEF CallType
  <2>3. call'.step = "found" /\ call'.nav = NoFrame /\ call'.offset = <<>>
    BY <1>6, <1>7, <2>1 DEF CallType
  <2>4. f \in ListedFrames(call.tree)
    BY <1>5, <1>11, FrameAssumption
  <2> QED
    BY <1>1, <1>2, <1>8, <1>9, <1>11, <2>2, <2>3, <2>4
       DEF CallInv, Awaits, Looks, Follows, Finds, Measures, OffsetIsItsOwn
<1>12. CASE f \in AllFrames /\ c.left # <<>>
  <2>1. call' = c /\ f \in ListedFrames(call.tree)
    BY <1>5, <1>12, FrameAssumption
  <2> QED
    BY <1>1, <1>3, <1>6, <1>7, <1>9, <1>12, <2>1
       DEF CallInv, Awaits, Looks, Follows, Finds, Measures, OffsetIsItsOwn
<1> QED
  BY <1>10, <1>11, <1>12

\* A call that ends.
LEMMA EndsIs ==
  ASSUME NEW c \in CallType, NEW r \in AllFrames \cup Failures
  PROVE  /\ Ends(c, r) \in CallType /\ Ends(c, r).step = "idle" /\ Ends(c, r).result = r
         /\ Ends(c, r).offset = c.offset
BY DEF Ends, CallType

\* The place of the next frame of the chain is found.
LEMMA OffsetKeeps ==
  ASSUME FramesInv, call.step = "offset", call.left[1] \in Live(page),
         UNCHANGED <<page, frameTreeCache>>,
         NEW el, el = getChildFrameElementRect(call.tree, call.left[1], call.left[2]),
         NEW c, c = [call EXCEPT !.offset = Append(@, el), !.left = Tail(@)],
         NEW chain, chain = getFrameChain(call.tree, call.at), NEW n, n = Len(call.offset),
         call' = IF el = NoFrame THEN Ends(c, "FRAME_NOT_FOUND")
                 ELSE IF Len(c.left) < 2 THEN Ends(c, c.at) ELSE c
  PROVE  CallInv'
<1> DEFINE Sure == call.changes = 0 /\ call.tree.tree = page
                   /\ \A i \in 2 .. Len(chain) : Placed(chain[i]) /\ Unmistakable(chain[i])
           offset == Append(call.offset, el)
           left == SubSeq(chain, n + 2, Len(chain))
<1>1. /\ call \in CallType /\ IsListing(call.tree) /\ call.nav = NoFrame /\ IsTree(page)
      /\ call.changes = 0 => call.tree = frameTreeCache
      /\ call.at \in ListedFrames(call.tree) /\ PathLeadsThere
      /\ n + 1 < Len(chain) /\ call.left = SubSeq(chain, n + 1, Len(chain))
      /\ Sure => call.offset = SubSeq(chain, 2, n + 1)
  BY DEF FramesInv, CallInv, Looks, Measures
<1>2. call.at \in AllFrames /\ IsTree(call.tree.tree) /\ call.tree.tree \in Page /\ call.tree # NoFrame
  BY <1>1, ListedIs DEF IsListing
<1>3. /\ chain \in Seq(AllFrames) /\ chain # <<>>
      /\ \A i \in 2 .. Len(chain) : chain[i] \in ToSet(call.tree.tree.kids[chain[i - 1]])
  BY <1>1, <1>2, ChainIs DEF Chains
<1>4. call.offset \in Seq(Frame \cup {NoFrame}) /\ n \in Nat /\ Len(chain) \in Nat
  BY <1>1, <1>3, CallParts
<1> HIDE DEF Sure
<1>5. /\ n + 1 \in 1 .. Len(chain) /\ n + 2 \in 2 .. Len(chain) /\ n + 2 \in 1 .. Len(chain)
      /\ (n + 1) + 1 = n + 2 /\ (n + 2) - 1 = n + 1 /\ n + 1 < Len(chain)
  <2>1. n + 1 < Len(chain)
    BY <1>1
  <2>2. \A i, j \in Nat : i + 1 < j =>
          /\ i + 1 \in 1 .. j /\ i + 2 \in 2 .. j /\ i + 2 \in 1 .. j
          /\ (i + 1) + 1 = i + 2 /\ (i + 2) - 1 = i + 1
    OBVIOUS
  <2> QED
    BY <1>4, <2>1, <2>2
<1>6. /\ call.left[1] = chain[n + 1] /\ call.left[2] = chain[n + 2] /\ Tail(call.left) = left
  <2>1. call.left = SubSeq(chain, n + 1, Len(chain))
    BY <1>1
  <2>2. /\ SubSeq(chain, n + 1, Len(chain))[1] = chain[n + 1]
        /\ SubSeq(chain, n + 1, Len(chain))[2] = chain[(n + 1) + 1]
        /\ Tail(SubSeq(chain, n + 1, Len(chain))) = SubSeq(chain, (n + 1) + 1, Len(chain))
    BY <1>3, <1>5, RestOf
  <2>3. (n + 1) + 1 = n + 2
    BY <1>5
  <2> QED
    BY <2>1, <2>2, <2>3
<1>7. Len(left) = Len(chain) - n - 1 /\ left \in Seq(AllFrames)
  <2>1. Len(left) = Len(chain) - (n + 2) + 1
    BY <1>3, <1>5, RestOf
  <2>2. left \in Seq(AllFrames)
    BY <1>3, <1>4, <1>5
  <2> HIDE DEF left
  <2> QED
    BY <1>4, <2>1, <2>2
<1>8. /\ chain[n + 1] \in AllFrames /\ chain[n + 2] \in Frame
      /\ chain[n + 2] \in ToSet(call.tree.tree.kids[chain[n + 1]])
  <2>1. chain[n + 1] \in AllFrames
    BY <1>3, <1>5
  <2>2. chain[n + 2] \in ToSet(call.tree.tree.kids[chain[n + 1]])
    BY <1>3, <1>5
  <2> QED
    BY <1>2, <2>1, <2>2, PageParts
<1>9. /\ el \in Frame \cup {NoFrame}
      /\ Sure => el = chain[n + 2]
  <2>1. el = getChildFrameElementRect(call.tree, chain[n + 1], chain[n + 2])
    BY <1>6
  <2>2. Sure => Placed(chain[n + 2]) /\ Unmistakable(chain[n + 2]) /\ call.tree.tree = page
    BY <1>5 DEF Sure
  <2> QED
    BY <1>1, <1>8, <2>1, <2>2, RectIs
<1>10. offset \in Seq(Frame \cup {NoFrame}) /\ Len(offset) = n + 1
  BY <1>4, <1>9
<1>11. Sure => offset = SubSeq(chain, 2, n + 2)
  <2>1. Append(SubSeq(chain, 2, (n + 2) - 1), chain[n + 2]) = SubSeq(chain, 2, n + 2)
    BY <1>3, <1>5, PartGrows
  <2> QED
    BY <1>1, <1>5, <1>9, <2>1
<1>12. c = [call EXCEPT !.offset = offset, !.left = left]
  BY <1>6
<1> HIDE DEF offset, left
<1>13. left \in Seq(Segment \cup AllFrames)
  BY <1>7, SeqGrows
<1>14. /\ c \in CallType /\ c.step = "offset" /\ c.tree = call.tree /\ c.nav = NoFrame /\ c.left = left
       /\ c.at = call.at /\ c.meant = call.meant /\ c.offset = offset /\ c.changes = call.changes
  BY <1>1, <1>10, <1>12, <1>13 DEF CallType
<1>15. call' = Ends(c, "FRAME_NOT_FOUND") \/ call' = Ends(c, c.at) \/ call' = c
  OBVIOUS
<1>16. call'.at = call.at /\ call'.meant = call.meant /\ call'.changes = call.changes
  BY <1>14, <1>15, CallParts DEF Ends
<1>17. /\ page' = page /\ frameTreeCache' = frameTreeCache
       /\ \A x : (Placed(x)' <=> Placed(x)) /\ (Unmistakable(x)' <=> Unmistakable(x))
  BY DEF Placed, Unmistakable
<1>18. PathLeadsThere'
  <2>1. Undisturbed' <=> Undisturbed
    BY <1>16, <1>17 DEF Undisturbed
  <2> QED
    BY <1>1, <1>16, <1>17, <2>1 DEF PathLeadsThere
<1>19. CASE el = NoFrame
  <2>1. call' = Ends(c, "FRAME_NOT_FOUND")
    BY <1>19
  <2> HIDE DEF offset
  <2>0. "FRAME_NOT_FOUND" \in Failures
    BY DEF Failures
  <2>1a. /\ Ends(c, "FRAME_NOT_FOUND") \in CallType /\ Ends(c, "FRAME_NOT_FOUND").step = "idle"
        /\ Ends(c, "FRAME_NOT_FOUND").result = "FRAME_NOT_FOUND"
    BY <1>14, <2>0, EndsIs
  <2>2. call' \in CallType /\ call'.step = "idle" /\ call'.result = "FRAME_NOT_FOUND"
    BY <2>1, <2>1a
  <2>3. call'.result \notin AllFrames
    BY <2>2, FrameAssumption DEF Failures
  <2> QED
    BY <1>18, <2>2, <2>3, IdleCall
<1>20. CASE el # NoFrame /\ Len(left) < 2
  <2>1. call' = Ends(c, call.at)
    BY <1>14, <1>20
  <2>1a. /\ Ends(c, call.at) \in CallType /\ Ends(c, call.at).step = "idle"
        /\ Ends(c, call.at).result = call.at /\ Ends(c, call.at).offset = offset
    BY <1>2, <1>14, EndsIs
  <2>2. /\ call' \in CallType /\ call'.step = "idle" /\ call'.result = call.at
        /\ call'.offset = offset
    BY <2>1, <2>1a
  <2>3. Len(chain) = n + 2
    <3>1. \A i, j \in Nat : i + 1 < j /\ j - i - 1 < 2 => j = i + 2
      OBVIOUS
    <3> QED
      BY <1>4, <1>5, <1>7, <1>20, <3>1
  <2>4. Sure => offset = Tail(chain)
    BY <1>3, <1>11, <2>3, TailIs
  <2>5. OffsetIsItsOwn'
    <3> SUFFICES ASSUME Undisturbed' PROVE
          \A t : t = Tail(getFrameChain(frameTreeCache, call.at))
                  /\ (\A i \in DOMAIN t : Placed(t[i]) /\ Unmistakable(t[i]))
                => offset = t
      BY <1>16, <1>17, <2>2 DEF OffsetIsItsOwn
    <3>1. call.changes = 0 /\ frameTreeCache.tree = page /\ call.tree = frameTreeCache
      BY <1>1, <1>16, <1>17 DEF Undisturbed
    <3>2. Tail(getFrameChain(frameTreeCache, call.at)) = Tail(chain)
      BY <3>1
    <3>3. (\A i \in DOMAIN Tail(chain) : Placed(Tail(chain)[i]) /\ Unmistakable(Tail(chain)[i]))
          => Sure
      BY <1>3, <3>1, TailIs DEF Sure
    <3> QED
      BY <2>4, <3>2, <3>3
  <2> QED
    BY <1>18, <2>2, <2>5 DEF CallInv, Awaits, Looks, Follows, Finds, Measures
<1>21. CASE el # NoFrame /\ ~(Len(left) < 2)
  <2>1. call' = c
    BY <1>14, <1>21
  <2>2. n + 2 < Len(chain)
    <3>1. \A i, j \in Nat : i + 1 < j /\ ~(j - i - 1 < 2) => i + 2 < j
      OBVIOUS
    <3> QED
      BY <1>4, <1>5, <1>7, <1>21, <3>1
  <2>3. Measures(call)'
    <3>1. getFrameChain(call'.tree, call'.at) = chain
      BY <1>14, <2>1
    <3>2. call'.at \in ListedFrames(call'.tree) /\ call'.offset = offset /\ call'.left = left
      BY <1>1, <1>14, <2>1
    <3>3. Len(call'.offset) = n + 1 /\ (n + 1) + 1 < Len(chain) /\ (n + 1) + 1 = n + 2
      BY <1>5, <1>10, <2>2, <3>2
    <3>4. left = SubSeq(chain, n + 2, Len(chain))
      BY DEF left
    <3>5. call'.changes = 0 /\ call'.tree.tree = page'
          /\ (\A i \in 2 .. Len(chain) : Placed(chain[i])' /\ Unmistakable(chain[i])')
          => offset = SubSeq(chain, 2, n + 2)
      BY <1>11, <1>14, <1>16, <1>17, <2>1 DEF Sure
    <3> QED
      BY <3>1, <3>2, <3>3, <3>4, <3>5 DEF Measures
  <2> QED
    BY <1>1, <1>14, <1>17, <1>18, <2>1, <2>3
       DEF CallInv, Awaits, Looks, Follows, Finds, OffsetIsItsOwn
<1> QED
  BY <1>19, <1>20, <1>21

\* A document is asked, for the next element of the path or of the chain.
LEMMA LookKeeps ==
  ASSUME FramesInv, Look
  PROVE  FramesInv'
<1>1. /\ call.step \in {"path", "offset"} /\ page' = page /\ frameTreeCache' = frameTreeCache
      /\ UNCHANGED <<page, frameTreeCache>>
  BY DEF Look
<1> SUFFICES CallInv'
  BY <1>1 DEF FramesInv, NumbersAreTrue, ListingIsCurrent
<1> DEFINE asked == IF call.step = "path" THEN call.at ELSE call.left[1]
<1>2. CASE asked \notin Live(page)
  <2>1. call' = Ends(call, "error") /\ "error" \in Failures
    BY <1>2 DEF Look, Failures
  <2> QED
    BY <1>1, <2>1, FailureKeeps DEF FramesInv
<1>3. CASE asked \in Live(page) /\ call.step = "path"
  <2>1. PICK el \in resolveFrameElementInParent(call.at, call.left[1]) :
          LET f == IF el = NoFrame THEN "FRAME_NOT_FOUND"
                   ELSE resolveChildFrameFromParent(call.tree, call.at, el)
              c == [call EXCEPT !.meant = Append(@, el), !.at = f, !.left = Tail(@)]
          IN  call' = IF f \notin AllFrames THEN Ends(c, f)
                      ELSE IF c.left = <<>> THEN [c EXCEPT !.step = "found", !.tree = NoFrame]
                      ELSE c
    BY <1>3 DEF Look
  <2> QED
    BY <1>1, <1>3, <2>1, PathKeeps
<1>4. CASE asked \in Live(page) /\ call.step = "offset"
  <2>1. LET el == getChildFrameElementRect(call.tree, call.left[1], call.left[2])
            c  == [call EXCEPT !.offset = Append(@, el), !.left = Tail(@)]
        IN  call' = IF el = NoFrame THEN Ends(c, "FRAME_NOT_FOUND")
                    ELSE IF Len(c.left) < 2 THEN Ends(c, c.at) ELSE c
    BY <1>4 DEF Look
  <2> QED
    BY <1>1, <1>4, <2>1, OffsetKeeps
<1> QED
  BY <1>1, <1>2, <1>3, <1>4

\* Every step keeps the invariant.
LEMMA FramesInvKept == FramesInv /\ [FrameNext]_frameVars => FramesInv'
<1> SUFFICES ASSUME FramesInv, [FrameNext]_frameVars PROVE FramesInv'
  OBVIOUS
<1>1. CASE UNCHANGED frameVars
  <2>1. page' = page /\ frameTreeCache' = frameTreeCache /\ call' = call
    BY <1>1 DEF frameVars
  <2>2. (NumbersAreTrue' <=> NumbersAreTrue) /\ (ListingIsCurrent' <=> ListingIsCurrent)
    BY <2>1 DEF NumbersAreTrue, ListingIsCurrent
  <2>3. /\ Awaits(call)' <=> Awaits(call)
        /\ Looks(call)' <=> Looks(call)
        /\ Follows(call)' <=> Follows(call)
        /\ Finds(call)' <=> Finds(call)
    BY <2>1 DEF Awaits, Looks, Follows, Finds
  <2>4. /\ \A x : (Placed(x)' <=> Placed(x)) /\ (Unmistakable(x)' <=> Unmistakable(x))
        /\ Undisturbed' <=> Undisturbed
    BY <2>1 DEF Placed, Unmistakable, Undisturbed
  <2>5. Measures(call)' <=> Measures(call)
    BY <2>1, <2>4 DEF Measures
  <2>6. (PathLeadsThere' <=> PathLeadsThere) /\ (OffsetIsItsOwn' <=> OffsetIsItsOwn)
    BY <2>1, <2>4 DEF PathLeadsThere, OffsetIsItsOwn
  <2> QED
    BY <2>1, <2>2, <2>3, <2>4, <2>5, <2>6 DEF FramesInv, CallInv
<1>2. CASE \E f \in Frame, g \in AllFrames, src \in (Url \ {Blank}) \cup {NoUrl},
              name \in FrameName \cup {NoFrame}, i \in 1 .. Cardinality(Frame) : Attach(f, g, src, name, i)
  BY <1>2, AttachKeeps
<1>3. CASE \E f \in Frame : frameDetached(f)
  BY <1>3, DetachedKeeps
<1>4. CASE \E f \in Frame, u \in Url : frameNavigated(f, u)
  BY <1>4, NavigatedKeeps
<1>5. CASE \E spec \in Specs : resolveFrameTarget(spec)
  BY <1>5, ResolveTargetKeeps
<1>6. CASE getFrameViewportOffset
  BY <1>6, ViewportOffsetKeeps
<1>7. CASE TreeAnswers
  BY <1>7, TreeAnswersKeeps
<1>8. CASE GetAllFramesAnswers
  BY <1>8, GetAllFramesAnswersKeeps
<1>9. CASE Look
  BY <1>9, LookKeeps
<1> QED
  BY <1>1, <1>2, <1>3, <1>4, <1>5, <1>6, <1>7, <1>8, <1>9 DEF FrameNext

\* The invariant says what was promised.
LEMMA FramesInvImplies == FramesInv => FramesSafe
<1> SUFFICES ASSUME FramesInv PROVE FramesSafe
  OBVIOUS
<1>1. call \in CallType /\ PathLeadsThere /\ OffsetIsItsOwn /\ NumbersAreTrue /\ ListingIsCurrent
  BY DEF FramesInv, CallInv
<1>2. frameTreeCache # NoFrame => frameTreeCache.ids \in [AllFrames -> AllFrames \cup {NoFrame}]
  BY DEF FramesInv, IsListing, Listing
<1>3. NoCall.spec = [by |-> "nothing"]
  BY DEF NoCall
<1>4. FrameTypeOK
  BY <1>1, <1>2, <1>3, CallParts DEF FrameTypeOK, Failures
<1> QED
  BY <1>1, <1>4 DEF FramesSafe

\* Of the frames of a page of any size, whatever it does between the answers: numbers
\* are given truly, the listing that is kept is current, a path leads to the frame it
\* names and the offset of a frame is its own.
THEOREM FramesStaySafe == FramesSpec => []FramesSafe
<1>1. FramesSpec => []FramesInv
  BY FramesBegin, FramesInvKept, PTL DEF FramesSpec
<1> QED
  BY <1>1, FramesInvImplies, PTL
=============================================================================
