--------------------------- MODULE ExtensionLink ---------------------------
(***************************************************************************)
(* The gateway, the extension and the connections between them.  Each may  *)
(* stop and start again, connections may break at any point, and commands  *)
(* may outlive the connection, the request and the process they came from. *)
(***************************************************************************)
EXTENDS WsClient, GatewayServer

CONSTANT MaxRestarts \* bound of the model: restarts of the gateway

ASSUME RestartsAssumption == MaxRestarts \in Nat

VARIABLE restarts

vars == <<socketVars, clientVars, gatewayVars, restarts>>

Init == SocketsInit /\ ClientInit /\ GatewayInit /\ restarts = 0

\* Nobody listens: the connection attempt fails.
Unanswered(s) == ~running /\ client[s] = "connecting" /\ Break(s)

\* What nobody wants, and what only a user does.
Disturbance == reconnectNow \/ Killed \/ Crash \/ \E s \in Socket : Break(s)

Next ==
  \/ ClientSteps /\ UNCHANGED <<gatewayVars, restarts>>
  \/ \E t \in tasks : Finish(t) /\ UNCHANGED <<gatewayVars, restarts>>
  \/ (SocketSteps \/ \E r \in Request : RequestStep(r)) /\ UNCHANGED <<clientVars, restarts>>
  \/ \E r \in Request : Arrive(r) /\ UNCHANGED <<clientVars, restarts>>
  \/ \E s \in Socket : Unanswered(s) /\ UNCHANGED <<clientVars, gatewayVars, restarts>>
  \/ (reconnectNow \/ Killed) /\ UNCHANGED <<gatewayVars, restarts>>
  \/ Crash /\ UNCHANGED <<clientVars, restarts>>
  \/ Restart /\ restarts < MaxRestarts /\ restarts' = restarts + 1 /\ UNCHANGED clientVars
  \/ \E s \in Socket : Break(s) /\ UNCHANGED <<clientVars, gatewayVars, restarts>>

Spec ==
  /\ Init /\ [][Next]_vars
  /\ ClientFairness /\ GatewayFairness
  /\ WF_socketVars(\E s \in Socket : Unanswered(s))

----------------------------------------------------------------------------
(* Properties *)

\* Every variable keeps to its values; a pending request has an id that the
\* gateway has given out and will not give out again while it runs.
TypeOK == SocketsTypeOK /\ ClientTypeOK /\ GatewayTypeOK /\ restarts \in 0 .. MaxRestarts

\* A caller is answered about its own command, although replies come over
\* whichever socket is the current one and are matched by id alone.
RepliesMatch ==
  restarts = 0 => \A r \in Request : answer[r] = "done" => answerOf[r] = r

\* Ids, sockets and tables stay in range, and no answer reaches the caller of
\* another command while the gateway runs.
LinkSafe == TypeOK /\ RepliesMatch

\* The extension that has announced itself on a live socket can be reached:
\* a socket's late handshake or close event never takes the route from it.
AnnouncedIsRouted ==
  \A s \in Socket : server[s] = "open" /\ s \in announced => route = s

Status == [r \in Request |->
  CASE answer[r] # "none" -> answer[r]
    [] pc[r] = "new" -> "new"
    [] pc[r] = "lost" -> "unknown"
    [] OTHER -> "accepted"]

\* What the answers 403/503, 200/500 and 502/504 let a caller conclude, across
\* timeouts, late replies, broken connections and stops of either side.
Service == INSTANCE CommandService WITH restarted <- restarts > 0, status <- Status
ImplementsCommandService == Service!Spec

\* Every request that the gateway took up ends: answered, or cut off with
\* the process, also when its socket had closed before the command was sent.
RequestsSettled ==
  \A r \in Request : pc[r] = "deciding" ~> pc[r] \in {"answered", "lost"}

\* Once nothing disturbs them any more, extension and gateway find each other:
\* no order of open, close, timer, alarm and handshake leaves the link down.
Reachable == Linked /\ ws = route /\ client[ws] = "open"
ExtensionReturns ==
  <>[][~Disturbance]_vars => <>[](running => Reachable)
=============================================================================
