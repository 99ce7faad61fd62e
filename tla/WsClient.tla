------------------------------ MODULE WsClient ------------------------------
(***************************************************************************)
(* The extension's end (webmcp-extension/dist/bg/ws-client.js, router.js,  *)
(* background.js): one WebSocket at a time, kept up by a reconnect timer   *)
(* and by an alarm that also wakes the service worker.  Commands run       *)
(* concurrently, each until its handler ends, and answer on whatever       *)
(* socket is the current one by then.                                      *)
(***************************************************************************)
EXTENDS Sockets

CONSTANT MaxAnnouncing \* bound of the model: handshakes that wait for the profile info

ASSUME AnnouncingAssumption == MaxAnnouncing \in Nat

VARIABLES
  ws,           \* the current socket
  isConnecting,
  timer,        \* reconnectTimer is set
  announcing,   \* onopen handlers that await getProfileInfo
  tasks,        \* commands whose handlers run
  executed      \* history: requests whose command was run to its end

clientVars == <<ws, isConnecting, timer, announcing, tasks, executed>>

ClientTypeOK ==
  /\ ws \in Socket \cup {NoSocket} /\ isConnecting \in BOOLEAN
  /\ timer \in BOOLEAN /\ announcing \in 0 .. MaxAnnouncing
  /\ tasks \subseteq Command /\ executed \subseteq Request

ClientInit ==
  /\ ws = NoSocket /\ isConnecting = FALSE /\ timer = FALSE
  /\ announcing = 0 /\ tasks = {} /\ executed = {}

sendMessage(m) == up' = Sent(up, client, ws, m)

----------------------------------------------------------------------------
(* Connecting *)

\* new WebSocket: s becomes the current socket, the ones in old are closed.
NewWebSocket(s, old) ==
  /\ Fresh(s)
  /\ client' = [t \in Socket |-> IF t = s THEN "connecting"
                                ELSE IF t \in old THEN "closed" ELSE client[t]]
  /\ down' = [t \in Socket |-> IF t \in old THEN <<>> ELSE down[t]]
  /\ ws' = s /\ isConnecting' = TRUE
  /\ UNCHANGED <<server, up, broken>>

Connected   == ws # NoSocket /\ client[ws] = "open"
Connectable == ~Connected /\ ~isConnecting

\* connectWebSocket, called when the reconnect timer fires, and when the worker
\* starts or its alarm finds no open socket.
TimerFires ==
  /\ timer
  /\ \/ Connectable /\ \E s \in Socket : NewWebSocket(s, {})
     \/ ~Connectable /\ UNCHANGED <<socketVars, ws, isConnecting>>
  /\ timer' = FALSE
  /\ UNCHANGED <<announcing, tasks, executed>>

Alarm ==
  /\ Connectable
  /\ \E s \in Socket : NewWebSocket(s, {})
  /\ UNCHANGED <<timer, announcing, tasks, executed>>

\* From the popup, after a change of address, and after setProfileName.
reconnectNow ==
  /\ \E s \in Socket : NewWebSocket(s, {ws})
  /\ timer' = FALSE
  /\ UNCHANGED <<announcing, tasks, executed>>

----------------------------------------------------------------------------
(* Events of the socket *)

Opened(s) ==
  /\ ws = s /\ client[s] = "connecting" /\ server[s] = "open" /\ ~broken[s]
  /\ announcing < MaxAnnouncing
  /\ client' = [client EXCEPT ![s] = "open"]
  /\ isConnecting' = FALSE /\ timer' = FALSE /\ announcing' = announcing + 1
  /\ UNCHANGED <<server, up, down, broken, ws, tasks, executed>>

\* getProfileInfo has answered: the handshake goes to the socket of now.
Announce ==
  /\ announcing > 0 /\ announcing' = announcing - 1
  /\ sendMessage(Ready)
  /\ UNCHANGED <<client, server, down, broken, ws, isConnecting, timer, tasks, executed>>

Message(s) ==
  /\ ws = s /\ client[s] = "open" /\ down[s] # <<>>
  /\ tasks' = tasks \cup {Head(down[s])}
  /\ down' = [down EXCEPT ![s] = Tail(@)]
  /\ UNCHANGED <<client, server, up, broken, ws, isConnecting, timer, announcing,
                 executed>>

\* The gateway has closed: the socket is closing before its close event comes.
Closing(s) ==
  /\ client[s] = "open" /\ server[s] = "closing" /\ down[s] = <<>> /\ ~broken[s]
  /\ client' = [client EXCEPT ![s] = "closing"]
  /\ UNCHANGED <<server, up, down, broken, clientVars>>

ClientGone(s) ==
  /\ client' = [client EXCEPT ![s] = "closed"]
  /\ broken' = [broken EXCEPT ![s] = @ /\ server[s] # "closed"]
  /\ UNCHANGED <<server, up, down>>

\* Mutant: isConnecting is cleared by onopen only.
ClosedConnecting(s) ==
  /\ client[s] = "closing" \/ (broken[s] /\ client[s] \in {"connecting", "open"})
  /\ ClientGone(s)
  /\ IF ws = s THEN ws' = NoSocket /\ timer' = TRUE ELSE UNCHANGED <<ws, timer>>
  /\ UNCHANGED <<isConnecting, announcing, tasks, executed>>

\* Only the event of the current socket schedules a reconnection.
Closed(s) ==
  /\ client[s] = "closing" \/ (broken[s] /\ client[s] \in {"connecting", "open"})
  /\ ClientGone(s)
  /\ IF ws = s THEN ws' = NoSocket /\ isConnecting' = FALSE /\ timer' = TRUE
               ELSE UNCHANGED <<ws, isConnecting, timer>>
  /\ UNCHANGED <<announcing, tasks, executed>>

----------------------------------------------------------------------------

\* The handler of a command has ended, with a result or an error.
Finish(t) ==
  /\ t \in tasks /\ tasks' = tasks \ {t}
  /\ executed' = executed \cup {t.req}
  /\ sendMessage(Reply(t))
  /\ UNCHANGED <<client, server, down, broken, ws, isConnecting, timer, announcing>>

\* The browser ends the worker, or is itself closed.  The next alarm starts the
\* worker again, without sockets, timers or commands.
Killed ==
  /\ client' = [s \in Socket |-> "closed"]
  /\ broken' = [s \in Socket |-> broken[s] /\ server[s] # "closed"]
  /\ down' = [s \in Socket |-> <<>>]
  /\ ws' = NoSocket /\ isConnecting' = FALSE /\ timer' = FALSE
  /\ announcing' = 0 /\ tasks' = {}
  /\ UNCHANGED <<server, up, executed>>

ClientSteps ==
  \/ TimerFires \/ Alarm \/ Announce
  \/ \E s \in Socket : Opened(s) \/ Message(s) \/ Closing(s) \/ Closed(s)

\* Events and timers are delivered as long as the worker lives, and the alarm
\* comes back every half minute, whether it lives or not.
ClientFairness == WF_<<socketVars, clientVars>>(ClientSteps)
=============================================================================
