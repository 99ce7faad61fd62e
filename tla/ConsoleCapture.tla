--------------------------- MODULE ConsoleCapture ---------------------------
(***************************************************************************)
(* The messages of a console capture (bg/handlers/console-capture.js): a   *)
(* bounded buffer, read with filters and cleared by what was read.  Ids    *)
(* are given in order and messages only appended, so the buffer is the     *)
(* set of its messages, and an id stands for the time of a message too.    *)
(* Starting and stopping the capture in Chrome is in DebuggerBridge.       *)
(***************************************************************************)
EXTENDS Naturals, FiniteSets

CONSTANTS
  Level,
  MAX_MESSAGES_PER_SESSION,
  MaxId,       \* bound of the model: messages in all
  NoConsole

ASSUME ConsoleAssumption == MAX_MESSAGES_PER_SESSION \in Nat \ {0} /\ MaxId \in Nat

VARIABLES
  messages,          \* of the session, or NoConsole
  messageIdCounter,
  first,             \* history: the counter when the session began
  evicted,           \* history: the youngest message the limit has pushed out
  given              \* history: what clearing reads and clears have taken

consoleVars == <<messages, messageIdCounter, first, evicted, given>>

Entry == [id : 1 .. MaxId, level : Level]

ConsoleTypeOK ==
  /\ messages # NoConsole =>
       /\ messages \subseteq Entry /\ IsFiniteSet(messages)
       /\ Cardinality(messages) <= MAX_MESSAGES_PER_SESSION
  /\ messageIdCounter \in 0 .. MaxId /\ first \in 0 .. MaxId
  /\ evicted \in 0 .. MaxId /\ given \subseteq 1 .. MaxId

ConsoleInit ==
  /\ messages = NoConsole /\ messageIdCounter = 0
  /\ first = 0 /\ evicted = 0 /\ given = {}

Ids(s) == {m.id : m \in s}

\* The check that there is no session was made two awaits earlier: another start
\* may have begun one meanwhile, and its messages are dropped.
startSession ==
  /\ messages' = {}
  /\ first' = messageIdCounter /\ evicted' = messageIdCounter /\ given' = {}
  /\ UNCHANGED messageIdCounter

\* stopConsoleCapture, or the detach hook.
endSession ==
  /\ messages # NoConsole /\ messages' = NoConsole
  /\ UNCHANGED <<messageIdCounter, first, evicted, given>>

\* Beyond the limit the oldest message is pushed out.
pushMessage(l) ==
  /\ messages # NoConsole /\ messageIdCounter < MaxId
  /\ messageIdCounter' = messageIdCounter + 1
  /\ LET all == messages \cup {[id |-> messageIdCounter + 1, level |-> l]}
     IN  \/ /\ Cardinality(all) <= MAX_MESSAGES_PER_SESSION
            /\ messages' = all /\ UNCHANGED evicted
         \/ /\ Cardinality(all) > MAX_MESSAGES_PER_SESSION
            /\ \E oldest \in all :
                 /\ \A m \in all : oldest.id <= m.id
                 /\ messages' = all \ {oldest} /\ evicted' = oldest.id
  /\ UNCHANGED <<first, given>>

\* The last n, as slice(-n) has them.
Newest(s, n) == {m \in s : Cardinality({k \in s : k.id > m.id}) < n}

Filtered(levels, since) == {m \in messages : m.level \in levels /\ m.id >= since}

\* The newest messages of a level (or of any), not older than since.
Selected(levels, since, limit) == Newest(Filtered(levels, since), limit)

\* Mutant: a clearing read clears what its filter let through, shown or not.
readClearingFilter(levels, since, limit) ==
  /\ messages # NoConsole
  /\ messages' = messages \ Filtered(levels, since)
  /\ given' = given \cup Ids(Selected(levels, since, limit))
  /\ UNCHANGED <<messageIdCounter, first, evicted>>

\* readConsoleMessages with clear; without it nothing changes.
readConsoleMessages(levels, since, limit) ==
  /\ messages # NoConsole
  /\ LET shown == Ids(Selected(levels, since, limit))
     IN  /\ messages' = {m \in messages : m.id \notin shown}
         /\ given' = given \cup shown
  /\ UNCHANGED <<messageIdCounter, first, evicted>>

clearConsoleMessages ==
  /\ messages # NoConsole /\ messages' = {} /\ given' = given \cup Ids(messages)
  /\ UNCHANGED <<messageIdCounter, first, evicted>>

ConsoleNext ==
  \/ startSession \/ endSession \/ clearConsoleMessages
  \/ \E l \in Level : pushMessage(l)
  \/ \E levels \in {Level} \cup {{l} : l \in Level}, since \in 0 .. MaxId,
        limit \in 1 .. MAX_MESSAGES_PER_SESSION : readConsoleMessages(levels, since, limit)

ConsoleSpec == ConsoleInit /\ [][ConsoleNext]_consoleVars

\* Of the messages of a session each is still in the buffer, under its own id, or
\* was returned to a reader who cleared, or was pushed out by newer ones: a
\* clearing read with a filter and a limit takes exactly what it returns, and the
\* limit spares what is younger than anything it takes.
EveryMessageAccounted ==
  messages # NoConsole =>
    /\ \A m, n \in messages : m.id = n.id => m = n
    /\ Ids(messages) \cap given = {}
    /\ \A m \in messages : m.id > evicted
    /\ \A id \in first + 1 .. messageIdCounter :
         id \in Ids(messages) \cup given \/ id <= evicted

\* A console capture stays within its limit and loses nothing else.
ConsoleSafe == ConsoleTypeOK /\ EveryMessageAccounted
=============================================================================
