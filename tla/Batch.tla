------------------------------- MODULE Batch -------------------------------
(***************************************************************************)
(* A batch of commands run in the extension, one after the other           *)
(* (bg/handlers/batch.js).  A command that exceeds its time is given up,   *)
(* but its handler runs on.  What a command does is its handler's matter:  *)
(* it ends well (with the tab it used), badly, or not at all.              *)
(***************************************************************************)
EXTENDS Naturals, Sequences

CONSTANTS
  Tab, NoTab,
  MaxActions   \* bound of the model: length of a batch

ASSUME BatchAssumption == NoTab \notin Tab /\ MaxActions \in Nat \ {0}

Methods == {"batch", "delay", "unknown", "command"}

VARIABLES
  batch,     \* the parameters: actions, stop-on-error, screenshotAfter, tab
  next,      \* the action whose turn it is
  phase,     \* "ready", "delaying", "running", "shooting" or "done"
  carryTab,  \* the tab of actions that name none
  results,
  used,      \* history: the tab each command was started with
  stray      \* handlers of commands that were given up and still run

batchVars == <<batch, next, phase, carryTab, results, used, stray>>

Actions == UNION {[1 .. n -> [method : Methods, tab : Tab \cup {NoTab}]] : n \in 1 .. MaxActions}
Current == batch.actions[next]

BatchTypeOK ==
  /\ batch \in [actions : Actions, stop : BOOLEAN, shots : BOOLEAN,
               tab : Tab \cup {NoTab}]
  /\ next \in 1 .. MaxActions + 1
  /\ phase \in {"ready", "delaying", "running", "shooting", "done"}
  /\ carryTab \in Tab \cup {NoTab}
  /\ results \in Seq([index : 1 .. MaxActions, ok : BOOLEAN, tab : Tab \cup {NoTab}])
  /\ Len(results) <= Len(batch.actions)
  /\ DOMAIN used \subseteq 1 .. MaxActions /\ stray \subseteq 1 .. MaxActions

Called(b) ==
  /\ batch = b /\ carryTab = b.tab
  /\ next = 1 /\ phase = "ready" /\ results = <<>> /\ used = <<>> /\ stray = {}

BatchInit ==
  \E actions \in Actions, stop \in BOOLEAN, shots \in BOOLEAN, tab \in Tab \cup {NoTab} :
    Called([actions |-> actions, stop |-> stop, shots |-> shots, tab |-> tab])

\* The result of the current action, with the tab its handler told of.
Pushed(ok, tab) ==
  /\ results' = Append(results, [index |-> next, ok |-> ok, tab |-> tab])
  /\ carryTab' = IF tab = NoTab THEN carryTab ELSE tab

GoOn(ok) ==
  /\ next' = next + 1
  /\ phase' = IF (batch.stop /\ ~ok) \/ next = Len(batch.actions) THEN "done" ELSE "ready"

Entered(ok) == Pushed(ok, NoTab) /\ GoOn(ok)

\* fail: a batch within a batch, or a method that is not known.
Refused ==
  /\ phase = "ready" /\ Current.method \in {"batch", "unknown"}
  /\ Entered(FALSE)
  /\ UNCHANGED <<batch, used, stray>>

Delay ==
  /\ phase = "ready" /\ Current.method = "delay" /\ phase' = "delaying"
  /\ UNCHANGED <<batch, next, carryTab, results, used, stray>>

Delayed ==
  /\ phase = "delaying" /\ Entered(TRUE)
  /\ UNCHANGED <<batch, used, stray>>

\* The tab is carried over when the action names none.
Run ==
  /\ phase = "ready" /\ Current.method = "command" /\ phase' = "running"
  /\ used' = [i \in DOMAIN used \cup {next} |->
                IF i # next THEN used[i] ELSE IF Current.tab = NoTab THEN carryTab ELSE Current.tab]
  /\ UNCHANGED <<batch, next, carryTab, results, stray>>

\* The handler has answered with the tab it resolved or opened; a picture may follow, for
\* which there is no time limit here.
Succeeded ==
  /\ phase = "running"
  /\ \E tab \in Tab \cup {NoTab} :
       /\ Pushed(TRUE, tab)
       /\ IF batch.shots THEN phase' = "shooting" /\ UNCHANGED next ELSE GoOn(TRUE)
  /\ UNCHANGED <<batch, used, stray>>

\* Taken or failed: a picture never fails its action.
Screenshot ==
  /\ phase = "shooting" /\ GoOn(TRUE)
  /\ UNCHANGED <<batch, carryTab, results, used, stray>>

HandlerFailed ==
  /\ phase = "running" /\ Entered(FALSE)
  /\ UNCHANGED <<batch, used, stray>>

\* Mutant: there is no time limit.
NeverTimedOut == phase = "running" /\ UNCHANGED batchVars

\* withTimeout: the action has failed, its handler is left running.
TimedOut ==
  /\ phase = "running" /\ Entered(FALSE)
  /\ stray' = stray \cup {next}
  /\ UNCHANGED <<batch, used>>

\* Mutant: what comes late decides about the tab.
StrayCarries(i) ==
  /\ i \in stray /\ stray' = stray \ {i}
  /\ carryTab' \in Tab
  /\ UNCHANGED <<batch, next, phase, results, used>>

\* What a stray handler answers is dropped.
StrayEnds(i) ==
  /\ i \in stray /\ stray' = stray \ {i}
  /\ UNCHANGED <<batch, next, phase, carryTab, results, used>>

BatchNext ==
  \/ Refused \/ Delay \/ Delayed \/ Run \/ Succeeded \/ Screenshot \/ HandlerFailed \/ TimedOut
  \/ \E i \in 1 .. MaxActions : StrayEnds(i)

\* The loop goes on, timers fire, a screenshot ends by the time limit of its own
\* commands.  Nothing is assumed of handlers.
Moves         == Refused \/ Delay \/ Delayed \/ Run \/ Screenshot \/ TimedOut
BatchFairness == WF_batchVars(Moves)

BatchSpec == BatchInit /\ [][BatchNext]_batchVars /\ BatchFairness

\* With stop-on-error no command is started after an action that failed, be it
\* refused, thrown or timed out, and the results tell how far the batch went.
NothingAfterError ==
  batch.stop => \A i \in DOMAIN results : ~results[i].ok =>
    i = Len(results) /\ phase = "done" /\ \A j \in DOMAIN used : j <= results[i].index

\* An action that names no tab runs in the tab that the last action before it
\* told of, or else in the batch's: a handler that answers late moves nothing.
TabIsCarried ==
  \A i \in DOMAIN used : batch.actions[i].tab = NoTab =>
    LET told == {j \in 1 .. i - 1 : results[j].tab # NoTab}
    IN IF told = {} THEN used[i] = batch.tab
       ELSE \E j \in told : (\A k \in told : k <= j) /\ used[i] = results[j].tab

\* The batch has ended, with one result per action that had its turn.
BatchOver == phase = "done" /\ \A i \in DOMAIN results : results[i].index = i

\* The actions of a batch are done in order, each where the one before has led,
\* and none after a failure that stops the batch.
BatchSafe == BatchTypeOK /\ NothingAfterError /\ TabIsCarried
=============================================================================
