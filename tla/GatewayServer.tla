--------------------------- MODULE GatewayServer ---------------------------
(***************************************************************************)
(* The gateway's end (server/gateway_server.js): which socket serves the   *)
(* browser profile, and the HTTP requests of POST /api.  A request picks   *)
(* its socket first, is then judged across several awaits, and only then   *)
(* gets its JSON-RPC id and is sent, on the socket picked before.  A reply *)
(* is matched to its request by the id alone.  One browser profile; what   *)
(* the judging decides is modelled in PermitGate.                          *)
(***************************************************************************)
EXTENDS Sockets

VARIABLES
  running,   \* the gateway process runs
  route,     \* extensions.get(profileId)
  announced, \* sockets whose ws._profileId is set
  nextId,
  pc,        \* per request: new, deciding, pending, answered, lost
  target,    \* per request: the socket it picked
  rpcId,     \* per pending request: its key in pendingHttpRequests
  answer,    \* per request: none, refused, done, unknown
  answerOf   \* history: the request whose execution was reported

jobVars     == <<pc, target, rpcId, answer, answerOf>>
gatewayVars == <<running, route, announced, nextId, jobVars>>

GatewayTypeOK ==
  /\ running \in BOOLEAN /\ nextId \in Nat \ {0}
  /\ route \in Socket \cup {NoSocket} /\ announced \subseteq Socket
  /\ pc \in [Request -> {"new", "deciding", "pending", "answered", "lost"}]
  /\ target \in [Request -> Socket \cup {NoSocket}]
  /\ rpcId \in [Request -> Nat]
  /\ \A r \in Request : pc[r] = "pending" => rpcId[r] \in 1 .. (nextId - 1)
  /\ answer \in [Request -> {"none", "refused", "done", "unknown"}]
  /\ answerOf \in [Request -> Request \cup {NoRequest}]

GatewayInit ==
  /\ running = TRUE /\ route = NoSocket /\ announced = {} /\ nextId = 1
  /\ pc = [r \in Request |-> "new"] /\ target = [r \in Request |-> NoSocket]
  /\ rpcId = [r \in Request |-> 0]
  /\ answer = [r \in Request |-> "none"]
  /\ answerOf = [r \in Request |-> NoRequest]

\* The requests of R are answered, or their connections are lost.
Settle(R, end, what, of) ==
  /\ pc' = [r \in Request |-> IF r \in R THEN end ELSE pc[r]]
  /\ target' = [r \in Request |-> IF r \in R THEN NoSocket ELSE target[r]]
  /\ rpcId' = [r \in Request |-> IF r \in R THEN 0 ELSE rpcId[r]]
  /\ answer' = [r \in Request |-> IF r \in R THEN what ELSE answer[r]]
  /\ answerOf' = [r \in Request |-> IF r \in R THEN of ELSE answerOf[r]]

----------------------------------------------------------------------------
(* The sockets *)

Accept(s) ==
  /\ running /\ client[s] = "connecting" /\ server[s] = "closed" /\ ~broken[s]
  /\ server' = [server EXCEPT ![s] = "open"]
  /\ UNCHANGED <<client, up, down, broken, gatewayVars>>

Received(s) ==
  /\ server[s] \in {"open", "closing"} /\ up[s] # <<>>
  /\ up' = [up EXCEPT ![s] = Tail(@)]
  /\ UNCHANGED <<client, down, broken>>

\* The socket serves the profile from now on, and the one before it is closed.
ExtensionReady(s) ==
  /\ Received(s) /\ Head(up[s]) = Ready
  /\ announced' = announced \cup {s}
  /\ server' = [t \in Socket |->
                 IF t = route /\ t # s /\ server[t] = "open" THEN "closing" ELSE server[t]]
  /\ route' = s
  /\ UNCHANGED <<running, nextId, jobVars>>

Waiting(id) == {r \in Request : pc[r] = "pending" /\ rpcId[r] = id}

\* A reply to nothing that is pending is dropped.
ReplyReceived(s) ==
  /\ Received(s) /\ Head(up[s]).type = "reply"
  /\ Settle(Waiting(Head(up[s]).id), "answered", "done", Head(up[s]).req)
  /\ UNCHANGED <<server, running, route, announced, nextId>>

Closeable(s) ==
  \/ server[s] \in {"open", "closing"} /\ broken[s]
  \/ server[s] = "closing" /\ client[s] \in {"closing", "closed"} /\ up[s] = <<>>
  \/ server[s] = "open" /\ client[s] = "closed" /\ up[s] = <<>>

ServerGone(s) ==
  /\ server' = [server EXCEPT ![s] = "closed"]
  /\ broken' = [broken EXCEPT ![s] = @ /\ client[s] # "closed"]
  /\ down' = [down EXCEPT ![s] = <<>>]
  /\ announced' = announced \ {s}
  /\ UNCHANGED <<client, up>>

\* Commands that were sent on s may have run: nothing is known of them.  What is
\* being decided keeps s, on which nothing can be sent any more.
Abandon(s) ==
  LET sent == {r \in Request : pc[r] = "pending" /\ target[r] = s} IN
  /\ pc' = [r \in Request |-> IF r \in sent THEN "answered" ELSE pc[r]]
  /\ rpcId' = [r \in Request |-> IF r \in sent THEN 0 ELSE rpcId[r]]
  /\ answer' = [r \in Request |-> IF r \in sent THEN "unknown" ELSE answer[r]]
  /\ target' = [r \in Request |-> IF target[r] = s THEN NoSocket ELSE target[r]]
  /\ UNCHANGED answerOf

\* Mutant: the route is dropped whichever socket has closed.
SocketClosedDropsRoute(s) ==
  /\ Closeable(s) /\ ServerGone(s) /\ Abandon(s)
  /\ route' = IF s \in announced THEN NoSocket ELSE route
  /\ UNCHANGED <<running, nextId>>

SocketClosed(s) ==
  /\ Closeable(s) /\ ServerGone(s) /\ Abandon(s)
  /\ route' = IF s \in announced /\ route = s THEN NoSocket ELSE route
  /\ UNCHANGED <<running, nextId>>

----------------------------------------------------------------------------
(* The requests *)

Linked == route # NoSocket /\ server[route] = "open"

Arrive(r) ==
  /\ running /\ pc[r] = "new"
  /\ \/ /\ Linked
        /\ pc' = [pc EXCEPT ![r] = "deciding"] /\ target' = [target EXCEPT ![r] = route]
        /\ UNCHANGED <<rpcId, answer, answerOf>>
     \/ ~Linked /\ Settle({r}, "answered", "refused", NoRequest)
  /\ UNCHANGED <<socketVars, running, route, announced, nextId>>

Deny(r) ==
  /\ pc[r] = "deciding"
  /\ Settle({r}, "answered", "refused", NoRequest)
  /\ UNCHANGED <<socketVars, running, route, announced, nextId>>

\* Mutant: the id is not advanced.
ForwardSameId(r) ==
  /\ pc[r] = "deciding"
  /\ pc' = [pc EXCEPT ![r] = "pending"]
  /\ rpcId' = [rpcId EXCEPT ![r] = nextId]
  /\ down' = Sent(down, server, target[r], [id |-> nextId, req |-> r])
  /\ UNCHANGED <<client, server, up, broken, running, route, announced, nextId, target, answer,
                 answerOf>>

\* The socket picked on arrival may have closed by now: then nothing is sent.
Forward(r) ==
  /\ pc[r] = "deciding"
  /\ pc' = [pc EXCEPT ![r] = "pending"]
  /\ rpcId' = [rpcId EXCEPT ![r] = nextId]
  /\ nextId' = nextId + 1
  /\ down' = Sent(down, server, target[r], [id |-> nextId, req |-> r])
  /\ UNCHANGED <<client, server, up, broken, running, route, announced, target, answer, answerOf>>

\* Mutant: a timeout is reported as a refusal.
TimeoutRefuses(r) ==
  /\ pc[r] = "pending"
  /\ Settle({r}, "answered", "refused", NoRequest)
  /\ UNCHANGED <<socketVars, running, route, announced, nextId>>

\* Mutant: no timer once the socket is gone, its close event settles all.
TimeoutWhileOpen(r) ==
  /\ pc[r] = "pending" /\ target[r] # NoSocket /\ server[target[r]] = "open"
  /\ Settle({r}, "answered", "unknown", NoRequest)
  /\ UNCHANGED <<socketVars, running, route, announced, nextId>>

Timeout(r) ==
  /\ pc[r] = "pending"
  /\ Settle({r}, "answered", "unknown", NoRequest)
  /\ UNCHANGED <<socketVars, running, route, announced, nextId>>

----------------------------------------------------------------------------
(* The process *)

Crash ==
  /\ running /\ running' = FALSE
  /\ server' = [s \in Socket |-> "closed"]
  /\ broken' = [s \in Socket |-> client[s] # "closed"]
  /\ up' = [s \in Socket |-> <<>>] /\ down' = [s \in Socket |-> <<>>]
  /\ route' = NoSocket /\ announced' = {} /\ nextId' = 1
  /\ Settle({r \in Request : pc[r] \in {"deciding", "pending"}}, "lost", "none", NoRequest)
  /\ UNCHANGED client

Restart ==
  /\ ~running /\ running' = TRUE
  /\ UNCHANGED <<socketVars, route, announced, nextId, jobVars>>

SocketSteps  == \E s \in Socket : Accept(s) \/ ExtensionReady(s) \/ ReplyReceived(s) \/ SocketClosed(s)
RequestStep(r) == Deny(r) \/ Forward(r) \/ Timeout(r)

\* The process does not idle while a socket has something for it; what a
\* request awaits is answered, and every pending request has a timer.
GatewayFairness ==
  /\ WF_<<socketVars, gatewayVars>>(SocketSteps)
  /\ \A r \in Request : WF_<<socketVars, gatewayVars>>(RequestStep(r))
============================================================================
