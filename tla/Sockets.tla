------------------------------ MODULE Sockets ------------------------------
(***************************************************************************)
(* The WebSocket connections between the extension and the gateway, as     *)
(* each end sees them.  Each direction delivers in order; a connection     *)
(* that breaks loses what is under way, and the ends notice one after the  *)
(* other.  Connections are independent: what is sent on an older one may   *)
(* arrive after what is sent on a newer one.                               *)
(***************************************************************************)
EXTENDS Naturals, Sequences

CONSTANTS Socket, NoSocket, Request, NoRequest

ASSUME SocketAssumption == NoSocket \notin Socket /\ NoRequest \notin Request

VARIABLES
  client, \* readyState at the extension
  server, \* readyState at the gateway
  up,     \* messages under way to the gateway
  down,   \* messages under way to the extension
  broken  \* the connection is lost, and not both ends have noticed

socketVars == <<client, server, up, down, broken>>

\* "req" is what a message is about: only its id travels.
Command   == [id : Nat, req : Request]
Ready     == [type |-> "ready", id |-> 0, req |-> NoRequest]
Reply(t)  == [type |-> "reply", id |-> t.id, req |-> t.req]
UpMessage == {Ready} \cup [type : {"reply"}, id : Nat, req : Request]

SocketsTypeOK ==
  /\ client \in [Socket -> {"connecting", "open", "closing", "closed"}]
  /\ server \in [Socket -> {"open", "closing", "closed"}]
  /\ up \in [Socket -> Seq(UpMessage)] /\ down \in [Socket -> Seq(Command)]
  /\ broken \in [Socket -> BOOLEAN]

SocketsInit ==
  /\ client = [s \in Socket |-> "closed"] /\ server = [s \in Socket |-> "closed"]
  /\ up = [s \in Socket |-> <<>>] /\ down = [s \in Socket |-> <<>>]
  /\ broken = [s \in Socket |-> FALSE]

\* The name of a connection that is closed at both ends serves a new one.
Fresh(s) == client[s] = "closed" /\ server[s] = "closed"

\* A send is void when this end is not open, or when nothing gets through.
Sent(channel, end, s, m) ==
  IF s # NoSocket /\ end[s] = "open" /\ ~broken[s]
  THEN [channel EXCEPT ![s] = Append(@, m)] ELSE channel

Break(s) ==
  /\ ~broken[s] /\ ~Fresh(s)
  /\ broken' = [broken EXCEPT ![s] = TRUE]
  /\ up' = [up EXCEPT ![s] = <<>>] /\ down' = [down EXCEPT ![s] = <<>>]
  /\ UNCHANGED <<client, server>>
=============================================================================
