--------------------------- MODULE DebuggerBridge ---------------------------
(***************************************************************************)
(* The extension's debugger bridge (bg/cdp-bridge.js) and the starts and   *)
(* stops of its captures (console-capture.js, network-intercept.js), for   *)
(* one tab with one sub-frame.  The worker believes things about Chrome    *)
(* (attached, domains enabled, contexts, frame tree) in `bridge`; Chrome's *)
(* own state is `owner`, `domains`, `doc`.  Requests and answers travel in *)
(* order; every call runs from one await to the next in one action.        *)
(***************************************************************************)
EXTENDS Naturals, Sequences

CONSTANTS
  Call,      \* commands that may run at once
  Workloads, \* bound of the model: the kinds of commands used together
  MaxDoc,    \* bound of the model: documents the frame goes through
  MaxSent    \* bound of the model: requests and messages under way

AllKinds == {"evaluate", "frame", "main", "viewport", "resetViewport", "consoleStart",
             "consoleStop", "networkStart", "networkStop", "detach"}

ASSUME BridgeAssumption ==
  /\ Workloads \subseteq SUBSET AllKinds /\ MaxDoc \in Nat \ {0} /\ MaxSent \in Nat \ {0}
  /\ Call \cap {"idle", "late", "chrome"} = {}

VARIABLES
  bridge,   \* what the worker remembers of the tab
  calls,    \* the commands and where they wait
  queue,    \* requests on their way to Chrome
  inbox,    \* answers and events on their way to the worker
  owner,    \* who debugs the tab: "none", "us" or "other"
  domains,  \* what is enabled in our debugging session
  doc,      \* the document the frame shows
  raced,    \* history: a capture was stopped while another call was enabling; until
            \* the tab is detached with no such stop still under way
  workload  \* the kinds of commands used, never changed

chromeVars == <<owner, domains, doc>>
bridgeVars == <<bridge, calls, queue, inbox, chromeVars, raced,
                workload>>

NoDoc == 0
Free  == [kind |-> "none", step |-> "none", at |-> "free", tree |-> NoDoc, nav |-> FALSE]
Steps == {"treePage", "tree", "worldPage", "world", "runtime", "poll", "evaluate",
          "viewportOn", "viewportOff", "runtimeOn", "runtimeOff", "networkOn",
          "networkOff", "detach"}
Memory == [attached : BOOLEAN, idle : BOOLEAN, page : BOOLEAN, runtime : BOOLEAN,
           override : BOOLEAN, context : 0 .. MaxDoc, tree : 0 .. MaxDoc, world : 0 .. MaxDoc,
           console : BOOLEAN, network : BOOLEAN]
Detached == [attached |-> FALSE, idle |-> FALSE, page |-> FALSE, runtime |-> FALSE,
             override |-> FALSE, context |-> NoDoc, tree |-> NoDoc, world |-> NoDoc,
             console |-> FALSE, network |-> FALSE]
Request(c, s)            == [by |-> c, do |-> s]
Answer(by, s, ok, d)     == [by |-> by, do |-> s, ok |-> ok, doc |-> d]
Event(name, d)           == Answer("chrome", name, TRUE, d)
EventNames == {"onDetach", "navigated", "created", "destroyed", "cleared"}

BridgeTypeOK ==
  LET Senders == Call \cup {"idle", "late"}
      Asked   == Steps \cup {"attach", "probe"}
  IN /\ bridge \in Memory
     /\ bridge.idle => bridge.attached
     /\ calls \in [Call -> [kind : workload \cup {"none"}, step : Steps \cup {"none"},
                            at : {"free", "attaching", "probing", "sent", "navigating",
                                  "polling"},
                            tree : 0 .. MaxDoc, nav : BOOLEAN]]
     /\ queue \in Seq([by : Senders, do : Asked])
     /\ inbox \in Seq([by : Senders \cup {"chrome"}, do : Asked \cup EventNames,
                       ok : BOOLEAN, doc : 0 .. MaxDoc])
     /\ owner \in {"none", "us", "other"}
     /\ domains \subseteq {"Page", "Runtime", "Network", "Emulation"}
     /\ doc \in 1 .. MaxDoc /\ raced \in BOOLEAN /\ workload \in Workloads

BridgeInit ==
  /\ bridge = Detached /\ calls = [c \in Call |-> Free] /\ queue = <<>> /\ inbox = <<>>
  /\ owner = "none" /\ domains = {} /\ doc = 1 /\ raced = FALSE
  /\ workload \in Workloads

----------------------------------------------------------------------------
(* The worker's memory *)

resetIdleTimer(b) == [b EXCEPT !.idle = b.attached]
markAttached(b)   == resetIdleTimer([b EXCEPT !.attached = TRUE])

\* Mutant: the detach hooks leave the captures on.
CleanupLeavesCaptures(b) == [Detached EXCEPT !.console = b.console, !.network = b.network]

\* cleanupDetachedTab, whose detach hooks end the captures.
cleanupDetachedTab(b) == Detached

\* Mutant: only the frame tree is dropped.
InvalidateTreeOnly(b) == [b EXCEPT !.tree = NoDoc]

\* The frame of the event is the one modelled, or the event names none.
invalidateFrameCaches(b) == [b EXCEPT !.tree = NoDoc, !.world = NoDoc]

hasActiveCapture(b) == b.override \/ b.console \/ b.network

forgetRuntime(b) == [b EXCEPT !.runtime = FALSE, !.context = NoDoc]

recordExecutionContext(b, d) == [b EXCEPT !.context = d]
removeExecutionContext(b, d) == [b EXCEPT !.context = IF @ = d THEN NoDoc ELSE @]

\* What an answered command leaves in the memory.
Learnt(b, s, d) ==
  CASE s \in {"treePage", "worldPage"} -> [b EXCEPT !.page = TRUE]
    [] s = "tree"       -> [b EXCEPT !.tree = d]
    [] s = "world"      -> [b EXCEPT !.world = d]
    [] s = "runtime"    -> [b EXCEPT !.runtime = TRUE]
    [] s = "viewportOn" -> [b EXCEPT !.override = TRUE]
    [] s = "runtimeOn"  -> [b EXCEPT !.console = TRUE]
    [] s = "networkOn"  -> [b EXCEPT !.network = TRUE]
    [] OTHER            -> b

----------------------------------------------------------------------------
(* The steps of a command *)

\* evaluateInFrame goes on to the isolated world, evaluateInFrameMainWorld to
\* the context that the Runtime domain reports.
getOrCreateIsolatedWorld(b) ==
  IF b.world # NoDoc THEN "evaluate" ELSE IF b.page THEN "world" ELSE "worldPage"
getMainWorldContextId(b) == IF b.runtime THEN "poll" ELSE "runtime"
InFrame(b, k) == IF k = "frame" THEN getOrCreateIsolatedWorld(b) ELSE getMainWorldContextId(b)
listFrameContexts(b, k) ==
  IF b.tree # NoDoc THEN InFrame(b, k) ELSE IF b.page THEN "tree" ELSE "treePage"

startConsoleCapture(b) == IF b.console THEN "end" ELSE "runtimeOn"
stopConsoleCapture(b)  == IF b.console THEN "runtimeOff" ELSE "end"
startNetworkCapture(b) == "networkOn"
stopNetworkCapture(b)  == IF b.network THEN "networkOff" ELSE "end"

First(b, k) ==
  CASE k = "evaluate"      -> "evaluate"
    [] k \in {"frame", "main"} -> listFrameContexts(b, k)
    [] k = "viewport"      -> "viewportOn"
    [] k = "resetViewport" -> "viewportOff"
    [] k = "consoleStart"  -> startConsoleCapture(b)
    [] k = "consoleStop"   -> stopConsoleCapture(b)
    [] k = "networkStart"  -> startNetworkCapture(b)
    [] k = "networkStop"   -> stopNetworkCapture(b)
    [] k = "detach"        -> "detach"

Following(b, k, s) ==
  CASE s = "treePage"  -> "tree"
    [] s = "tree"      -> InFrame(b, k)
    [] s = "worldPage" -> "world"
    [] s = "runtime"   -> "poll"
    [] s \in {"world", "poll"} -> "evaluate"
    [] OTHER -> "end"

\* What a step forgets before anything is awaited: the session that is stopped,
\* and in sendCDPCommand what a disabling command makes untrue.
Before(b, s) ==
  CASE s = "runtimeOff"  -> [forgetRuntime(b) EXCEPT !.console = FALSE]
    [] s = "networkOff"  -> [b EXCEPT !.network = FALSE]
    [] s = "viewportOff" -> [b EXCEPT !.override = FALSE]
    [] OTHER -> b

Waiting(k, s, at) == [kind |-> k, step |-> s, at |-> at, tree |-> NoDoc, nav |-> FALSE]

Stops     == {"runtimeOff", "networkOff"}
Disabling == Stops \cup {"viewportOff"}

Asks(c, k, s, at, what) ==
  /\ calls' = [calls EXCEPT ![c] = Waiting(k, s, at)]
  /\ queue' = Append(queue, Request(c, what))

\* sendCDPCommand with ensureDebuggerAttached, up to its first await.  The
\* frame tree is asked for with the answer of webNavigation still to come.
Send(b, c, k, s) ==
  \/ s = "detach" /\ bridge' = b /\ Asks(c, k, s, "sent", s)
  \/ /\ s # "detach" /\ b.attached
     /\ bridge' = resetIdleTimer(Before(b, s)) /\ Asks(c, k, s, "sent", s)
  \/ /\ s # "detach" /\ ~b.attached /\ bridge' = Before(b, s)
     /\ \/ s \in Disabling /\ calls' = [calls EXCEPT ![c] = Free] /\ UNCHANGED queue
        \/ s \notin Disabling /\ Asks(c, k, s, "attaching", "attach")

End(b, c) == bridge' = b /\ calls' = [calls EXCEPT ![c] = Free] /\ UNCHANGED queue

Go(b, c, k, s) ==
  \/ s = "end" /\ End(b, c)
  \/ /\ s = "poll" /\ b.context = NoDoc
     /\ bridge' = b /\ UNCHANGED queue
     /\ calls' = [calls EXCEPT ![c] = Waiting(k, "poll", "polling")]
  \/ s = "poll" /\ b.context # NoDoc /\ Send(b, c, k, "evaluate")
  \/ s \notin {"end", "poll"} /\ Send(b, c, k, s)

\* History: another call's enabling command is under way when s disables.
Races(c, s) ==
  LET enabling == CASE s = "runtimeOff" -> {"runtime", "runtimeOn"}
                    [] s = "networkOff" -> {"networkOn"} [] OTHER -> {}
  IN \E d \in Call \ {c} : calls[d].at # "free" /\ calls[d].step \in enabling

\* New requests and events come while few are under way.
Room == Len(queue) + Len(inbox) < MaxSent

Start(c, k) ==
  /\ k \in workload /\ calls[c].at = "free" /\ Room
  /\ Go(bridge, c, k, First(bridge, k))
  /\ raced' = (raced \/ Races(c, First(bridge, k)))
  /\ UNCHANGED <<inbox, chromeVars, workload>>

----------------------------------------------------------------------------
(* Answers *)

\* ensureDebuggerAttached: a tab that is debugged already is ours if it answers
\* a probe.  (The code also accepts it without a probe under a wording of the
\* error that Chrome does not use.)
Attached(c, m) ==
  \/ m.ok /\ Go(markAttached(bridge), c, calls[c].kind, calls[c].step)
  \/ /\ ~m.ok /\ m.do = "attach"
     /\ calls' = [calls EXCEPT ![c].at = "probing"]
     /\ queue' = Append(queue, Request(c, "probe")) /\ UNCHANGED bridge
  \/ ~m.ok /\ m.do = "probe" /\ End(bridge, c)

\* The frame tree is stored when both answers are there.
GotTree(c, d) ==
  LET b == Learnt(bridge, "tree", d)
  IN Go(b, c, calls[c].kind, Following(b, calls[c].kind, "tree"))

Answered(c, m) ==
  LET k == calls[c].kind  s == calls[c].step  b == Learnt(bridge, s, m.doc)
  IN \/ s = "detach" /\ End(cleanupDetachedTab(bridge), c)
     \/ s # "detach" /\ ~m.ok /\ End(bridge, c)
     \/ /\ m.ok /\ s = "tree" /\ ~calls[c].nav
        /\ calls' = [calls EXCEPT ![c].at = "navigating", ![c].tree = m.doc]
        /\ UNCHANGED <<bridge, queue>>
     \/ m.ok /\ s = "tree" /\ calls[c].nav /\ GotTree(c, m.doc)
     \/ m.ok /\ s \notin {"detach", "tree"} /\ Go(b, c, k, Following(b, k, s))

\* chrome.debugger.onDetach and onEvent.
Happened(b, m) ==
  CASE m.do = "onDetach"  -> cleanupDetachedTab(b)
    [] m.do = "navigated" -> invalidateFrameCaches(b)
    [] m.do = "created"   -> recordExecutionContext(b, m.doc)
    [] m.do = "destroyed" -> removeExecutionContext(b, m.doc)
    [] m.do = "cleared"   -> [b EXCEPT !.context = NoDoc]

\* An answer after the timeout is dropped, but the callback still notes an
\* emulation.  The idle timer's detach cleans up like any other.
TooLate(b, m) == IF m.do = "viewportOn" /\ m.ok THEN Learnt(b, m.do, m.doc) ELSE b

Losses == {"detach", "onDetach"}
IsIn(s, what) == \E i \in 1 .. Len(s) : s[i].do \in what

Deliver ==
  LET m == Head(inbox)
  IN /\ inbox # <<>>
     /\ inbox' = Tail(inbox)
     /\ \/ m.by = "chrome" /\ bridge' = Happened(bridge, m) /\ UNCHANGED <<calls, queue>>
        \/ m.by = "late" /\ bridge' = TooLate(bridge, m) /\ UNCHANGED <<calls, queue>>
        \/ m.by = "idle" /\ bridge' = cleanupDetachedTab(bridge) /\ UNCHANGED <<calls, queue>>
        \/ m.by \in Call /\ m.do \in {"attach", "probe"} /\ Attached(m.by, m)
        \/ m.by \in Call /\ m.do \notin {"attach", "probe"} /\ Answered(m.by, m)
     /\ raced' = (raced /\ (m.do \in Losses => IsIn(queue', Stops) \/ IsIn(inbox', Stops)))
     /\ UNCHANGED <<chromeVars, workload>>

\* chrome.webNavigation.getAllFrames answers on its own way.
NavigationAnswers(c) ==
  /\ calls[c].step = "tree" /\ calls[c].at \in {"sent", "navigating"}
  /\ ~calls[c].nav
  /\ IF calls[c].at = "navigating" THEN GotTree(c, calls[c].tree)
     ELSE calls' = [calls EXCEPT ![c].nav = TRUE] /\ UNCHANGED <<bridge, queue>>
  /\ UNCHANGED <<inbox, chromeVars, raced, workload>>

----------------------------------------------------------------------------
(* Timers *)

\* Mutant: the debugger idles for less time than a command may take.
ShortIdleTimeout    == 25000

CDP_TIMEOUT_MS      == 30000
CDP_IDLE_TIMEOUT_MS == 45000

Orphaned(s, c) ==
  [i \in DOMAIN s |-> IF s[i].by = c THEN [s[i] EXCEPT !.by = "late"] ELSE s[i]]

Timeout(c) ==
  /\ calls[c].at = "sent" /\ calls[c].step # "detach"
  /\ calls' = [calls EXCEPT ![c] = Free]
  /\ queue' = Orphaned(queue, c) /\ inbox' = Orphaned(inbox, c)
  /\ UNCHANGED <<bridge, chromeVars, raced, workload>>

PollSees(c) ==
  /\ calls[c].at = "polling" /\ bridge.context # NoDoc
  /\ Go(bridge, c, calls[c].kind, "poll")
  /\ UNCHANGED <<inbox, chromeVars, raced, workload>>

\* Mutant: the poll has no deadline.
PollForever(c) == calls[c].at = "polling" /\ UNCHANGED bridgeVars

PollEnds(c) ==
  /\ calls[c].at = "polling"
  /\ End(bridge, c)
  /\ UNCHANGED <<inbox, chromeVars, raced, workload>>

\* Every command sent has reset the timer, so when it fires, the commands that
\* were sent before have been answered or have timed out.
IdleTimerFires ==
  /\ bridge.idle /\ bridge.attached /\ Room
  /\ CDP_IDLE_TIMEOUT_MS > CDP_TIMEOUT_MS
       => \A c \in Call : calls[c].at \notin {"sent", "polling"} \/ calls[c].step = "detach"
  /\ ~hasActiveCapture(bridge)
  /\ bridge' = [bridge EXCEPT !.idle = FALSE]
  /\ queue' = Append(queue, Request("idle", "detach"))
  /\ UNCHANGED <<calls, inbox, chromeVars, raced, workload>>

----------------------------------------------------------------------------
(* Chrome *)

Enables(s) == CASE s \in {"treePage", "worldPage"} -> {"Page"}
                [] s \in {"runtime", "runtimeOn"}  -> {"Runtime"}
                [] s = "networkOn"  -> {"Network"}
                [] s = "viewportOn" -> {"Emulation"}
                [] OTHER -> {}
Disables(s) == CASE s = "runtimeOff" -> {"Runtime"} [] s = "networkOff" -> {"Network"}
                 [] s = "viewportOff" -> {"Emulation"} [] OTHER -> {}

\* Enabling the Runtime domain replays the contexts, unless it was enabled.
Replayed(x, s) ==
  IF "Runtime" \in Enables(s) \ domains THEN Append(x, Event("created", doc)) ELSE x

ChromeAnswers ==
  LET r == Head(queue)
      Reply(ok) == Append(inbox, Answer(r.by, r.do, ok, IF ok THEN doc ELSE NoDoc))
  IN /\ queue # <<>>
     /\ queue' = Tail(queue)
     /\ \/ /\ r.do = "attach" /\ inbox' = Reply(owner = "none")
           /\ owner' = (IF owner = "none" THEN "us" ELSE owner)
           /\ UNCHANGED domains
        \/ /\ r.do = "detach" /\ inbox' = Reply(owner = "us")
           /\ owner' = (IF owner = "us" THEN "none" ELSE owner)
           /\ domains' = {}
        \/ /\ r.do \notin {"attach", "detach"} /\ owner = "us"
           /\ inbox' = Replayed(Reply(TRUE), r.do)
           /\ domains' = (domains \cup Enables(r.do)) \ Disables(r.do)
           /\ UNCHANGED owner
        \/ /\ r.do \notin {"attach", "detach"} /\ owner # "us"
           /\ inbox' = Reply(FALSE) /\ UNCHANGED <<owner, domains>>
     /\ UNCHANGED <<bridge, calls, doc, raced, workload>>

\* The page hangs: a command is taken and never answered.
ChromeHangs ==
  /\ queue # <<>> /\ Head(queue).do \notin {"attach", "detach", "probe"}
  /\ queue' = Tail(queue)
  /\ UNCHANGED <<bridge, calls, inbox, chromeVars, raced, workload>>

\* The frame navigates, alone or with its tab.
Navigate ==
  /\ doc < MaxDoc /\ Room
  /\ doc' = doc + 1
  /\ \E gone \in {Event("cleared", NoDoc), Event("destroyed", doc)} :
       LET said == IF "Runtime" \in domains
                   THEN Append(Append(inbox, gone), Event("created", doc + 1)) ELSE inbox
       IN inbox' = IF "Page" \in domains THEN Append(said, Event("navigated", NoDoc)) ELSE said
  /\ UNCHANGED <<bridge, calls, queue, owner, domains, raced, workload>>

\* The user cancels debugging, or the tab closes.
ChromeDetaches ==
  /\ owner = "us" /\ Room
  /\ owner' = "none" /\ domains' = {}
  /\ inbox' = Append(inbox, Event("onDetach", NoDoc))
  /\ UNCHANGED <<bridge, calls, queue, doc, raced, workload>>

OtherDebugger ==
  /\ \/ owner = "none" /\ owner' = "other"
     \/ owner = "other" /\ owner' = "none"
  /\ UNCHANGED <<bridge, calls, queue, inbox, domains, doc, raced, workload>>

----------------------------------------------------------------------------

CallSteps(c) == NavigationAnswers(c) \/ Timeout(c) \/ PollSees(c) \/ PollEnds(c)

BridgeNext ==
  \/ \E c \in Call : CallSteps(c) \/ \E k \in AllKinds : Start(c, k)
  \/ Deliver \/ IdleTimerFires
  \/ ChromeAnswers \/ ChromeHangs \/ Navigate \/ ChromeDetaches \/ OtherDebugger

\* Chrome takes requests and messages arrive; a command or a poll that waits has
\* its timer.  Nothing is assumed of the answer to a command.
BridgeFairness ==
  /\ WF_bridgeVars(ChromeAnswers \/ ChromeHangs) /\ WF_bridgeVars(Deliver)
  /\ \A c \in Call : WF_bridgeVars(CallSteps(c))

BridgeSpec == BridgeInit /\ [][BridgeNext]_bridgeVars /\ BridgeFairness

----------------------------------------------------------------------------
(* Properties *)

LossUnderWay == IsIn(inbox, Losses)

\* A tab the worker believes attached is debugged by the extension, or the
\* message that it no longer is is on its way: after any order of detachments by
\* commands, idleness and the user, with another debugger coming and going.
AttachedIsOurs == bridge.attached => owner = "us" \/ LossUnderWay

\* A domain the worker remembers as enabled is, and a capture that has been
\* started hears Chrome, unless a stop raced with a start: then the domain is
\* disabled under the session, or remembered as enabled.
EnabledAsRemembered ==
  /\ bridge.page => "Page" \in domains \/ LossUnderWay
  /\ bridge.console \/ bridge.runtime => "Runtime" \in domains \/ LossUnderWay \/ raced
  /\ bridge.network => "Network" \in domains \/ LossUnderWay \/ raced

\* An isolated world is used again only in the document it was made for: the
\* event that drops it from the cache overtakes nothing.  True of two commands at a
\* time; with four an attachment that comes late leaves a session in which Page is not
\* enabled, and no event tells of the navigation.
WorldIsCurrent ==
  bridge.world \in {NoDoc, doc} \/ LossUnderWay \/ IsIn(inbox, {"navigated"})

\* The idle timer detaches a tab only when no capture has been started in it,
\* also not between the firing and the detachment.
IdleSparesCaptures ==
  [][(queue # <<>> /\ queue' = Tail(queue) /\ Head(queue).by = "idle" /\ owner = "us")
       => ~bridge.console /\ ~bridge.network]_bridgeVars

\* Every command comes to an end, also when Chrome never answers.
CommandsEnd == \A c \in Call : calls[c].at # "free" ~> calls[c].at = "free"

\* What the worker remembers of its session with Chrome is so, or the message that
\* it is not any more is on its way.
MemoryIsTrue == BridgeTypeOK /\ AttachedIsOurs /\ EnabledAsRemembered
=============================================================================
