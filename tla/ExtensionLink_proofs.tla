------------------------ MODULE ExtensionLink_proofs ------------------------
(***************************************************************************)
(* What the gateway promises its callers about their commands, for any     *)
(* number of connections, requests, handshakes and restarts; and that with *)
(* the extension it implements CommandService.                             *)
(***************************************************************************)
EXTENDS ExtensionLink, TLAPS

USE SocketAssumption, RestartsAssumption, AnnouncingAssumption

----------------------------------------------------------------------------
(* What is under way *)

Contents(q) == {q[i] : i \in DOMAIN q}

LEMMA AppendContents ==
  ASSUME NEW S, NEW q \in Seq(S), NEW x \in S
  PROVE  Append(q, x) \in Seq(S) /\ Contents(Append(q, x)) \subseteq Contents(q) \cup {x}
BY DEF Contents

LEMMA TailContents ==
  ASSUME NEW S, NEW q \in Seq(S), q # <<>>
  PROVE  /\ Tail(q) \in Seq(S) /\ Contents(Tail(q)) \subseteq Contents(q)
         /\ Head(q) \in Contents(q) /\ Head(q) \in S
<1>1. Tail(q) \in Seq(S) /\ Head(q) \in S /\ Len(q) \in Nat /\ Len(q) > 0 /\ Head(q) = q[1]
  OBVIOUS
<1>2. ASSUME NEW i \in DOMAIN Tail(q) PROVE Tail(q)[i] \in Contents(q)
  <2>1. i \in 1 .. (Len(q) - 1) /\ Tail(q)[i] = q[i + 1] /\ i + 1 \in 1 .. Len(q)
    BY <1>1, <1>2
  <2> QED BY <2>1 DEF Contents
<1> QED BY <1>1, <1>2 DEF Contents

\* The commands on their way to the extension, in it, or reported by it.
Down    == UNION {Contents(down[s]) : s \in Socket}
Up      == UNION {Contents(up[s]) : s \in Socket}
Carried == Down \cup tasks
Replies == {m \in Up : m.type = "reply"}

----------------------------------------------------------------------------
(* The invariant *)

\* The command of r may have left the gateway.
Forwarded(r) == pc[r] \in {"pending", "lost"} \/ (pc[r] = "answered" /\ answer[r] \in {"done", "unknown"})

\* The process that gave out the ids in use is the first one, and it runs.
FirstRun == restarts = 0 /\ running

\* An id on its way belongs to the request that still waits for it, if any does.
IdIsOf(id, r) ==
  FirstRun => /\ id < nextId
              /\ \A q \in Request : pc[q] = "pending" /\ rpcId[q] = id => q = r

AnswerFits(r) ==
  /\ answer[r] # "none" <=> pc[r] = "answered"
  /\ restarts = 0 /\ answer[r] = "done" => answerOf[r] = r /\ r \in executed

RequestsInv ==
  /\ \A r \in Request : pc[r] \in {"deciding", "pending"} => running
  /\ \A q, r \in Request : pc[q] = "pending" /\ pc[r] = "pending" /\ rpcId[q] = rpcId[r] => q = r
  /\ \A r \in Request : AnswerFits(r)

CarriedInv == \A c \in Carried : Forwarded(c.req) /\ IdIsOf(c.id, c.req)
RepliesInv == \A m \in Replies : m.req \in executed /\ IdIsOf(m.id, m.req)
ExecutedInv == \A r \in executed : Forwarded(r)

RoutesInv == AnnouncedIsRouted /\ \A s \in announced : server[s] # "closed"

LinkInv == TypeOK /\ RoutesInv /\ RequestsInv /\ CarriedInv /\ RepliesInv /\ ExecutedInv

LEMMA InitInv == Init => LinkInv
<1> SUFFICES ASSUME Init PROVE LinkInv
  OBVIOUS
<1> USE DEF Init, SocketsInit, ClientInit, GatewayInit
<1>1. TypeOK
  <2>1. SocketsTypeOK
    BY DEF SocketsTypeOK
  <2>2. ClientTypeOK
    <3>1. announcing \in 0 .. MaxAnnouncing
      OBVIOUS
    <3>2. isConnecting \in BOOLEAN /\ timer \in BOOLEAN
      OBVIOUS
    <3>3. ws \in Socket \cup {NoSocket}
      OBVIOUS
    <3>4. tasks \subseteq Command /\ executed \subseteq Request
      OBVIOUS
    <3> QED BY <3>1, <3>2, <3>3, <3>4 DEF ClientTypeOK
  <2>3. GatewayTypeOK
    BY DEF GatewayTypeOK
  <2> QED BY <2>1, <2>2, <2>3 DEF TypeOK
<1>2. Carried = {} /\ Replies = {}
  BY DEF Carried, Replies, Down, Up, Contents
<1> QED BY <1>1, <1>2 DEF LinkInv, RoutesInv, AnnouncedIsRouted, RequestsInv, CarriedInv, RepliesInv,
           ExecutedInv, AnswerFits

----------------------------------------------------------------------------
(* Types *)

LEMMA MessageTypes ==
  /\ Ready \in UpMessage /\ \A t \in Command : Reply(t) \in UpMessage
  /\ \A r \in Request, id \in Nat : [id |-> id, req |-> r] \in Command
BY DEF Ready, Reply, UpMessage, Command

\* Sending adds at most the message, to the messages of one connection.
LEMMA SentContents ==
  ASSUME NEW S, NEW channel \in [Socket -> Seq(S)], NEW end, NEW s \in Socket \cup {NoSocket},
         NEW m \in S
  PROVE  /\ Sent(channel, end, s, m) \in [Socket -> Seq(S)]
         /\ \A t \in Socket : Contents(Sent(channel, end, s, m)[t]) \subseteq Contents(channel[t]) \cup {m}
<1>1. CASE s # NoSocket /\ end[s] = "open" /\ ~broken[s]
  <2>1. s \in Socket /\ channel[s] \in Seq(S)
    BY <1>1
  <2>2. Append(channel[s], m) \in Seq(S) /\ Contents(Append(channel[s], m)) \subseteq Contents(channel[s]) \cup {m}
    BY <2>1, AppendContents
  <2> QED BY <1>1, <2>1, <2>2 DEF Sent
<1>2. CASE ~(s # NoSocket /\ end[s] = "open" /\ ~broken[s])
  BY <1>2 DEF Sent
<1> QED BY <1>1, <1>2

\* A step that sends no command, ends no command, and moves requests forward only.
LEMMA RequestsKept ==
  ASSUME LinkInv,
         Carried' \subseteq Carried, Replies' \subseteq Replies, executed' = executed,
         FirstRun' => FirstRun /\ nextId' = nextId,
         \A r \in Request : Forwarded(r) => Forwarded(r)',
         \A r \in Request : pc'[r] = "pending" => pc[r] = "pending" /\ rpcId'[r] = rpcId[r],
         \A r \in Request : pc'[r] \in {"deciding", "pending"} => running',
         \A r \in Request : AnswerFits(r)',
         executed \subseteq Request,
         \A c \in Carried : c.req \in Request, \A m \in Replies : m.req \in Request
  PROVE  RequestsInv' /\ CarriedInv' /\ RepliesInv' /\ ExecutedInv'
<1>1. RequestsInv'
  BY DEF LinkInv, RequestsInv
<1>2. ASSUME NEW id, NEW r, IdIsOf(id, r) PROVE IdIsOf(id, r)'
  BY <1>2 DEF IdIsOf
<1>3. CarriedInv'
  BY <1>2 DEF LinkInv, CarriedInv
<1>4. RepliesInv'
  BY <1>2 DEF LinkInv, RepliesInv
<1>5. ExecutedInv'
  BY DEF LinkInv, ExecutedInv
<1> QED BY <1>1, <1>3, <1>4, <1>5

\* What is under way is about requests.
LEMMA UnderWay ==
  ASSUME TypeOK
  PROVE  /\ Carried \subseteq Command /\ \A c \in Carried : c.req \in Request /\ c.id \in Nat
         /\ \A m \in Replies : m.req \in Request /\ m.id \in Nat
         /\ executed \subseteq Request
<1>1. ASSUME NEW s \in Socket PROVE Contents(down[s]) \subseteq Command /\ Contents(up[s]) \subseteq UpMessage
  <2>1. down[s] \in Seq(Command) /\ up[s] \in Seq(UpMessage)
    BY DEF TypeOK, SocketsTypeOK
  <2> QED BY <2>1 DEF Contents
<1>2. Carried \subseteq Command
  <2>1. tasks \subseteq Command
    BY DEF TypeOK, ClientTypeOK
  <2>2. Down \subseteq Command
    BY <1>1 DEF Down
  <2> QED BY <2>1, <2>2 DEF Carried
<1>3. ASSUME NEW m \in Replies PROVE m.req \in Request /\ m.id \in Nat
  <2>1. m \in UpMessage /\ m.type = "reply"
    BY <1>1, <1>3 DEF Replies, Up
  <2> QED BY <2>1 DEF UpMessage, Ready
<1>4. executed \subseteq Request
  BY DEF TypeOK, ClientTypeOK
<1> QED BY <1>2, <1>3, <1>4 DEF Command

\* A step that leaves the requests alone.
LEMMA QuietKeeps ==
  ASSUME LinkInv, Carried' \subseteq Carried, Replies' \subseteq Replies,
         UNCHANGED <<executed, restarts, running, nextId, jobVars>>
  PROVE  RequestsInv' /\ CarriedInv' /\ RepliesInv' /\ ExecutedInv'
<1>1. UNCHANGED <<pc, target, rpcId, answer, answerOf>>
  BY DEF jobVars
<1>2. \A r \in Request : AnswerFits(r)'
  BY <1>1 DEF LinkInv, RequestsInv, AnswerFits
<1>3. \A r \in Request : pc'[r] \in {"deciding", "pending"} => running'
  BY <1>1 DEF LinkInv, RequestsInv
<1>4. FirstRun' => FirstRun /\ nextId' = nextId
  BY DEF FirstRun
<1>5. \A r \in Request : Forwarded(r) => Forwarded(r)'
  BY <1>1 DEF Forwarded
<1> QED BY <1>1, <1>2, <1>3, <1>4, <1>5, UnderWay, RequestsKept DEF LinkInv

\* When no connection gets more to carry, nothing more is under way.
LEMMA LessUnderWay ==
  ASSUME \A s \in Socket : Contents(down'[s]) \subseteq Contents(down[s]),
         \A s \in Socket : Contents(up'[s]) \subseteq Contents(up[s]),
         tasks' \subseteq tasks
  PROVE  Carried' \subseteq Carried /\ Replies' \subseteq Replies
<1>1. Down' \subseteq Down
  BY DEF Down
<1>2. Up' \subseteq Up
  BY DEF Up
<1> QED BY <1>1, <1>2 DEF Carried, Replies

LEMMA EmptyContents == Contents(<<>>) = {}
BY DEF Contents

\* What the gateway holds is unchanged.
LEMMA GatewayStill ==
  ASSUME LinkInv, UNCHANGED <<gatewayVars, restarts, server>>, SocketsTypeOK', ClientTypeOK'
  PROVE  TypeOK' /\ RoutesInv'
<1>1. UNCHANGED <<running, route, announced, nextId, pc, target, rpcId, answer, answerOf>>
  BY DEF gatewayVars, jobVars
<1>2. GatewayTypeOK'
  BY <1>1 DEF LinkInv, TypeOK, GatewayTypeOK
<1>3. RoutesInv'
  BY <1>1 DEF LinkInv, RoutesInv, AnnouncedIsRouted
<1> QED BY <1>2, <1>3 DEF LinkInv, TypeOK

\* What a step of the link keeps when the requests are left alone.
Quiet == TypeOK' /\ RoutesInv' /\ Carried' \subseteq Carried /\ Replies' \subseteq Replies

LEMMA NewWebSocketQuiet ==
  ASSUME LinkInv, NEW s \in Socket, NEW old, NewWebSocket(s, old),
         UNCHANGED <<announcing, tasks, executed, gatewayVars, restarts>>, timer' \in BOOLEAN
  PROVE  Quiet
<1> USE DEF NewWebSocket
<1>1. SocketsTypeOK'
  BY DEF LinkInv, TypeOK, SocketsTypeOK
<1>2. ClientTypeOK'
  BY DEF LinkInv, TypeOK, ClientTypeOK
<1>3. \A t \in Socket : Contents(down'[t]) \subseteq Contents(down[t])
  <2> SUFFICES ASSUME NEW t \in Socket PROVE Contents(down'[t]) \subseteq Contents(down[t])
    OBVIOUS
  <2>1. down'[t] = <<>> \/ down'[t] = down[t]
    OBVIOUS
  <2> QED BY <2>1, EmptyContents
<1>4. Carried' \subseteq Carried /\ Replies' \subseteq Replies
  BY <1>3, LessUnderWay
<1> QED BY <1>1, <1>2, <1>4, GatewayStill DEF Quiet

LEMMA SocketEventQuiet ==
  ASSUME LinkInv, NEW s \in Socket, Opened(s) \/ Closing(s) \/ Closed(s),
         UNCHANGED <<gatewayVars, restarts>>
  PROVE  Quiet
<1> USE DEF Opened, Closing, Closed, ClientGone, clientVars
<1>1. SocketsTypeOK'
  BY DEF LinkInv, TypeOK, SocketsTypeOK
<1>2. ClientTypeOK'
  <2>1. announcing' \in 0 .. MaxAnnouncing
    BY DEF LinkInv, TypeOK, ClientTypeOK
  <2>2. ws' \in Socket \cup {NoSocket} /\ isConnecting' \in BOOLEAN /\ timer' \in BOOLEAN
    BY DEF LinkInv, TypeOK, ClientTypeOK
  <2>3. UNCHANGED <<tasks, executed>>
    OBVIOUS
  <2> QED BY <2>1, <2>2, <2>3 DEF LinkInv, TypeOK, ClientTypeOK
<1>3. UNCHANGED <<up, down, tasks>>
  OBVIOUS
<1>4. Carried' \subseteq Carried /\ Replies' \subseteq Replies
  BY <1>3, LessUnderWay
<1> QED BY <1>1, <1>2, <1>4, GatewayStill DEF Quiet

LEMMA MessageQuiet ==
  ASSUME LinkInv, NEW s \in Socket, Message(s), UNCHANGED <<gatewayVars, restarts>>
  PROVE  Quiet
<1> USE DEF Message
<1>1. down[s] \in Seq(Command) /\ down[s] # <<>> /\ down \in [Socket -> Seq(Command)]
  BY DEF LinkInv, TypeOK, SocketsTypeOK
<1>2. /\ Tail(down[s]) \in Seq(Command) /\ Contents(Tail(down[s])) \subseteq Contents(down[s])
      /\ Head(down[s]) \in Contents(down[s]) /\ Head(down[s]) \in Command
  BY <1>1, TailContents
<1>3. SocketsTypeOK'
  BY <1>1, <1>2 DEF LinkInv, TypeOK, SocketsTypeOK
<1>4. ClientTypeOK'
  BY <1>2 DEF LinkInv, TypeOK, ClientTypeOK
<1>5. \A t \in Socket : Contents(down'[t]) \subseteq Contents(down[t])
  BY <1>1, <1>2
<1>6. Down' \subseteq Down /\ Head(down[s]) \in Down /\ Up' = Up
  BY <1>2, <1>5 DEF Down, Up
<1>7. Carried' \subseteq Carried /\ Replies' \subseteq Replies
  BY <1>6 DEF Carried, Replies
<1> QED BY <1>3, <1>4, <1>7, GatewayStill DEF Quiet

LEMMA AnnounceQuiet ==
  ASSUME LinkInv, Announce, UNCHANGED <<gatewayVars, restarts>>
  PROVE  Quiet
<1> USE DEF Announce, sendMessage
<1>1. up \in [Socket -> Seq(UpMessage)] /\ ws \in Socket \cup {NoSocket}
  BY DEF LinkInv, TypeOK, SocketsTypeOK, ClientTypeOK
<1>2. /\ up' \in [Socket -> Seq(UpMessage)]
      /\ \A t \in Socket : Contents(up'[t]) \subseteq Contents(up[t]) \cup {Ready}
  BY <1>1, MessageTypes, SentContents
<1>3. SocketsTypeOK'
  BY <1>2 DEF LinkInv, TypeOK, SocketsTypeOK
<1>4. ClientTypeOK'
  BY DEF LinkInv, TypeOK, ClientTypeOK
<1>5. Down' = Down /\ Up' \subseteq Up \cup {Ready}
  BY <1>2 DEF Down, Up
<1>6. Carried' \subseteq Carried /\ Replies' \subseteq Replies
  BY <1>5 DEF Carried, Replies, Ready
<1> QED BY <1>3, <1>4, <1>6, GatewayStill DEF Quiet

LEMMA KilledQuiet ==
  ASSUME LinkInv, Killed, UNCHANGED <<gatewayVars, restarts>>
  PROVE  Quiet
<1> USE DEF Killed
<1>1. SocketsTypeOK'
  BY DEF LinkInv, TypeOK, SocketsTypeOK
<1>2. ClientTypeOK'
  <2>1. announcing' \in 0 .. MaxAnnouncing
    OBVIOUS
  <2>2. ws' \in Socket \cup {NoSocket} /\ isConnecting' \in BOOLEAN /\ timer' \in BOOLEAN
    OBVIOUS
  <2> QED BY <2>1, <2>2 DEF LinkInv, TypeOK, ClientTypeOK
<1>3. \A t \in Socket : Contents(down'[t]) \subseteq Contents(down[t]) /\ Contents(up'[t]) \subseteq Contents(up[t])
  BY EmptyContents
<1>4. Carried' \subseteq Carried /\ Replies' \subseteq Replies
  BY <1>3, LessUnderWay
<1> QED BY <1>1, <1>2, <1>4, GatewayStill DEF Quiet

LEMMA BreakQuiet ==
  ASSUME LinkInv, NEW s \in Socket, Break(s), UNCHANGED <<clientVars, gatewayVars, restarts>>
  PROVE  Quiet
<1> USE DEF Break
<1>1. UNCHANGED <<ws, isConnecting, timer, announcing, tasks, executed>>
  BY DEF clientVars
<1>2. SocketsTypeOK'
  BY DEF LinkInv, TypeOK, SocketsTypeOK
<1>3. ClientTypeOK'
  BY <1>1 DEF LinkInv, TypeOK, ClientTypeOK
<1>4. \A t \in Socket : /\ down'[t] = <<>> \/ down'[t] = down[t]
                        /\ up'[t] = <<>> \/ up'[t] = up[t]
  BY DEF LinkInv, TypeOK, SocketsTypeOK
<1>5. \A t \in Socket : Contents(down'[t]) \subseteq Contents(down[t]) /\ Contents(up'[t]) \subseteq Contents(up[t])
  BY <1>4, EmptyContents
<1>6. Carried' \subseteq Carried /\ Replies' \subseteq Replies
  BY <1>1, <1>5, LessUnderWay
<1> QED BY <1>2, <1>3, <1>6, GatewayStill DEF Quiet

\* The steps of the extension and of the network that touch no request.
LEMMA ClientKeeps ==
  ASSUME LinkInv,
         \/ (ClientSteps \/ reconnectNow \/ Killed) /\ UNCHANGED <<gatewayVars, restarts>>
         \/ \E s \in Socket : Break(s) /\ UNCHANGED <<clientVars, gatewayVars, restarts>>
  PROVE  LinkInv'
<1>1. Quiet /\ executed' = executed /\ UNCHANGED <<gatewayVars, restarts>>
  <2>1. CASE TimerFires /\ UNCHANGED <<gatewayVars, restarts>>
    <3>1. UNCHANGED <<announcing, tasks, executed>> /\ timer' \in BOOLEAN
      BY <2>1 DEF TimerFires
    <3>2. ASSUME NEW s \in Socket, NewWebSocket(s, {}) PROVE Quiet
      BY <2>1, <3>1, <3>2, NewWebSocketQuiet
    <3>3. CASE UNCHANGED <<socketVars, ws, isConnecting>>
      <4>1. UNCHANGED <<client, server, up, down, broken>>
        BY <3>3 DEF socketVars
      <4>2. SocketsTypeOK' /\ ClientTypeOK'
        BY <3>1, <3>3, <4>1 DEF LinkInv, TypeOK, SocketsTypeOK, ClientTypeOK
      <4>3. Carried' \subseteq Carried /\ Replies' \subseteq Replies
        BY <3>1, <4>1, LessUnderWay
      <4> QED BY <2>1, <3>1, <4>1, <4>2, <4>3, GatewayStill DEF Quiet
    <3> QED BY <2>1, <3>1, <3>2, <3>3 DEF TimerFires
  <2>2. CASE Alarm /\ UNCHANGED <<gatewayVars, restarts>>
    <3>1. timer' \in BOOLEAN /\ UNCHANGED <<announcing, tasks, executed>>
      BY <2>2 DEF Alarm, LinkInv, TypeOK, ClientTypeOK
    <3> QED BY <2>2, <3>1, NewWebSocketQuiet DEF Alarm
  <2>3. CASE reconnectNow /\ UNCHANGED <<gatewayVars, restarts>>
    BY <2>3, NewWebSocketQuiet DEF reconnectNow
  <2>4. CASE Announce /\ UNCHANGED <<gatewayVars, restarts>>
    BY <2>4, AnnounceQuiet DEF Announce
  <2>5. CASE Killed /\ UNCHANGED <<gatewayVars, restarts>>
    BY <2>5, KilledQuiet DEF Killed
  <2>6. ASSUME NEW s \in Socket, Opened(s) \/ Closing(s) \/ Closed(s), UNCHANGED <<gatewayVars, restarts>>
        PROVE  Quiet /\ executed' = executed
    BY <2>6, SocketEventQuiet DEF Opened, Closing, Closed, clientVars
  <2>7. ASSUME NEW s \in Socket, Message(s), UNCHANGED <<gatewayVars, restarts>>
        PROVE  Quiet /\ executed' = executed
    BY <2>7, MessageQuiet DEF Message
  <2>8. ASSUME NEW s \in Socket, Break(s), UNCHANGED <<clientVars, gatewayVars, restarts>>
        PROVE  Quiet /\ executed' = executed
    BY <2>8, BreakQuiet DEF clientVars
  <2>9. CASE ClientSteps /\ UNCHANGED <<gatewayVars, restarts>>
    BY <2>1, <2>2, <2>4, <2>6, <2>7, <2>9 DEF ClientSteps
  <2>10. CASE (reconnectNow \/ Killed) /\ UNCHANGED <<gatewayVars, restarts>>
    BY <2>3, <2>5, <2>10
  <2>11. CASE \E s \in Socket : Break(s) /\ UNCHANGED <<clientVars, gatewayVars, restarts>>
    BY <2>8, <2>11
  <2> QED BY <2>9, <2>10, <2>11
<1>2. UNCHANGED <<executed, restarts, running, nextId, jobVars>>
  BY <1>1 DEF gatewayVars
<1> QED BY <1>1, <1>2, QuietKeeps DEF Quiet, LinkInv

\* A handler ends: its command has run, and its reply is on its way.
LEMMA FinishKeeps ==
  ASSUME LinkInv, NEW t \in tasks, Finish(t), UNCHANGED <<gatewayVars, restarts>>
  PROVE  LinkInv'
<1> USE DEF Finish, sendMessage
<1>1. t \in Command /\ t.req \in Request /\ t.id \in Nat /\ t \in Carried
  BY UnderWay DEF LinkInv, Carried
<1>2. up \in [Socket -> Seq(UpMessage)] /\ ws \in Socket \cup {NoSocket} /\ Reply(t) \in UpMessage
  BY <1>1, MessageTypes DEF LinkInv, TypeOK, SocketsTypeOK, ClientTypeOK
<1>3. /\ up' \in [Socket -> Seq(UpMessage)]
      /\ \A u \in Socket : Contents(up'[u]) \subseteq Contents(up[u]) \cup {Reply(t)}
  BY <1>2, SentContents
<1>4. SocketsTypeOK'
  BY <1>3 DEF LinkInv, TypeOK, SocketsTypeOK
<1>5. ClientTypeOK'
  BY <1>1 DEF LinkInv, TypeOK, ClientTypeOK
<1>6. TypeOK' /\ RoutesInv'
  BY <1>4, <1>5, GatewayStill
<1>7. Down' = Down /\ Up' \subseteq Up \cup {Reply(t)}
  BY <1>3 DEF Down, Up
<1>8. Carried' \subseteq Carried /\ Replies' \subseteq Replies \cup {Reply(t)}
  BY <1>7 DEF Carried, Replies
<1>9. UNCHANGED <<pc, rpcId, answer, answerOf, running, nextId, restarts>>
  BY DEF gatewayVars, jobVars
<1>10. /\ \A r \in Request : Forwarded(r) <=> Forwarded(r)'
       /\ \A id, r : IdIsOf(id, r) => IdIsOf(id, r)'
  BY <1>9 DEF Forwarded, IdIsOf, FirstRun
<1>11. Forwarded(t.req) /\ IdIsOf(t.id, t.req)
  BY <1>1 DEF LinkInv, CarriedInv
<1>12. RequestsInv'
  BY <1>9 DEF LinkInv, RequestsInv, AnswerFits
<1>13. CarriedInv'
  BY <1>8, <1>10, UnderWay DEF LinkInv, CarriedInv
<1>14. RepliesInv'
  <2>1. Reply(t).req = t.req /\ Reply(t).id = t.id
    BY DEF Reply
  <2> QED BY <2>1, <1>8, <1>10, <1>11 DEF LinkInv, RepliesInv
<1>15. ExecutedInv'
  BY <1>1, <1>10, <1>11, UnderWay DEF LinkInv, ExecutedInv
<1> QED BY <1>6, <1>12, <1>13, <1>14, <1>15 DEF LinkInv

----------------------------------------------------------------------------
(* The steps of the gateway *)

\* Requests that end keep their variables in range.
LEMMA SettleTypes ==
  ASSUME GatewayTypeOK, NEW R, NEW end \in {"answered", "lost"},
         NEW what \in {"none", "refused", "done", "unknown"}, NEW of \in Request \cup {NoRequest},
         Settle(R, end, what, of), running' \in BOOLEAN, nextId' \in Nat \ {0},
         route' \in Socket \cup {NoSocket}, announced' \subseteq Socket,
         nextId' = nextId \/ \A r \in Request : pc[r] = "pending" => r \in R
  PROVE  GatewayTypeOK'
<1> USE DEF Settle
<1>1. \A r \in Request : pc'[r] = "pending" => rpcId'[r] \in 1 .. (nextId' - 1)
  <2> SUFFICES ASSUME NEW r \in Request, pc'[r] = "pending" PROVE rpcId'[r] \in 1 .. (nextId' - 1)
    OBVIOUS
  <2>1. r \notin R /\ pc[r] = "pending"
    OBVIOUS
  <2> QED BY <2>1 DEF GatewayTypeOK
<1>2. pc' \in [Request -> {"new", "deciding", "pending", "answered", "lost"}]
  BY DEF GatewayTypeOK
<1>3. target' \in [Request -> Socket \cup {NoSocket}] /\ rpcId' \in [Request -> Nat]
  BY DEF GatewayTypeOK
<1>4. /\ answer' \in [Request -> {"none", "refused", "done", "unknown"}]
      /\ answerOf' \in [Request -> Request \cup {NoRequest}]
  BY DEF GatewayTypeOK
<1> QED BY <1>1, <1>2, <1>3, <1>4 DEF GatewayTypeOK

\* Requests that end keep the invariant, if their answers are true.
LEMMA SettleKeeps ==
  ASSUME LinkInv, NEW R, NEW end \in {"answered", "lost"}, NEW what, NEW of,
         Settle(R, end, what, of),
         what # "none" <=> end = "answered",
         \A r \in R \cap Request : Forwarded(r) => end = "lost" \/ what \in {"done", "unknown"},
         restarts' = 0 /\ what = "done" => \A r \in R \cap Request : of = r /\ r \in executed,
         Carried' \subseteq Carried, Replies' \subseteq Replies,
         UNCHANGED <<executed, restarts>>, FirstRun' => FirstRun /\ nextId' = nextId,
         \A r \in Request : pc[r] \in {"deciding", "pending"} => running' \/ r \in R
  PROVE  RequestsInv' /\ CarriedInv' /\ RepliesInv' /\ ExecutedInv'
<1> USE DEF Settle
<1>1. pc \in [Request -> {"new", "deciding", "pending", "answered", "lost"}]
  BY DEF LinkInv, TypeOK, GatewayTypeOK
<1>2. \A r \in Request : Forwarded(r) => Forwarded(r)'
  BY <1>1 DEF Forwarded
<1>3. \A r \in Request : pc'[r] = "pending" => pc[r] = "pending" /\ rpcId'[r] = rpcId[r]
  OBVIOUS
<1>4. \A r \in Request : pc'[r] \in {"deciding", "pending"} => running'
  OBVIOUS
<1>5. \A r \in Request : AnswerFits(r)'
  BY DEF LinkInv, RequestsInv, AnswerFits
<1> QED BY <1>2, <1>3, <1>4, <1>5, UnderWay, RequestsKept DEF LinkInv

\* What the steps at the sockets leave to the extension.
LEMMA ClientStill ==
  ASSUME LinkInv, UNCHANGED <<clientVars, restarts>>, SocketsTypeOK', GatewayTypeOK'
  PROVE  TypeOK' /\ UNCHANGED <<tasks, executed, restarts>>
BY DEF LinkInv, TypeOK, ClientTypeOK, clientVars

\* A message is taken from a socket.
LEMMA ReceivedLess ==
  ASSUME LinkInv, NEW s \in Socket, Received(s), UNCHANGED clientVars
  PROVE  /\ up' \in [Socket -> Seq(UpMessage)]
         /\ Head(up[s]) \in Up /\ Head(up[s]) \in UpMessage
         /\ Carried' \subseteq Carried /\ Replies' \subseteq Replies
<1> USE DEF Received
<1>1. up \in [Socket -> Seq(UpMessage)] /\ up[s] \in Seq(UpMessage) /\ up[s] # <<>>
  BY DEF LinkInv, TypeOK, SocketsTypeOK
<1>2. /\ Tail(up[s]) \in Seq(UpMessage) /\ Contents(Tail(up[s])) \subseteq Contents(up[s])
      /\ Head(up[s]) \in Contents(up[s]) /\ Head(up[s]) \in UpMessage
  BY <1>1, TailContents
<1>3. \A t \in Socket : Contents(up'[t]) \subseteq Contents(up[t])
  BY <1>1, <1>2
<1>4. UNCHANGED tasks /\ UNCHANGED down
  BY DEF clientVars
<1> QED BY <1>1, <1>2, <1>3, <1>4, LessUnderWay DEF Up

\* A socket is accepted, or serves the profile from now on.
LEMMA HandshakeKeeps ==
  ASSUME LinkInv, NEW s \in Socket, Accept(s) \/ ExtensionReady(s), UNCHANGED <<clientVars, restarts>>
  PROVE  LinkInv'
<1>1. UNCHANGED <<running, nextId, pc, target, rpcId, answer, answerOf, client, down, broken>>
  BY DEF Accept, ExtensionReady, gatewayVars, jobVars, Received
<1>2. CASE Accept(s)
  <2>1. UNCHANGED <<up, down, route, announced, tasks>> /\ server' = [server EXCEPT ![s] = "open"] /\ server[s] = "closed"
    BY <1>2 DEF Accept, gatewayVars, clientVars
  <2>2. SocketsTypeOK'
    BY <1>1, <2>1 DEF LinkInv, TypeOK, SocketsTypeOK
  <2>3. GatewayTypeOK'
    BY <1>1, <2>1 DEF LinkInv, TypeOK, GatewayTypeOK
  <2>4. RoutesInv'
    BY <2>1 DEF LinkInv, RoutesInv, AnnouncedIsRouted, TypeOK, SocketsTypeOK
  <2>5. Carried' \subseteq Carried /\ Replies' \subseteq Replies
    BY <2>1, LessUnderWay
  <2>6. TypeOK' /\ UNCHANGED <<executed, restarts>>
    BY <2>2, <2>3, ClientStill
  <2> QED BY <1>1, <2>4, <2>5, <2>6, QuietKeeps DEF LinkInv, jobVars
<1>3. CASE ExtensionReady(s)
  <2>1. Received(s) /\ announced' = announced \cup {s} /\ route' = s /\ server[s] \in {"open", "closing"}
    BY <1>3 DEF ExtensionReady, Received
  <2>2. server' = [t \in Socket |->
                    IF t = route /\ t # s /\ server[t] = "open" THEN "closing" ELSE server[t]]
    BY <1>3 DEF ExtensionReady
  <2>3. /\ up' \in [Socket -> Seq(UpMessage)]
        /\ Carried' \subseteq Carried /\ Replies' \subseteq Replies
    BY <2>1, ReceivedLess
  <2>4. SocketsTypeOK'
    BY <1>1, <2>2, <2>3 DEF LinkInv, TypeOK, SocketsTypeOK
  <2>5. GatewayTypeOK'
    BY <1>1, <2>1 DEF LinkInv, TypeOK, GatewayTypeOK
  <2>6. RoutesInv'
    BY <2>1, <2>2 DEF LinkInv, RoutesInv, AnnouncedIsRouted, TypeOK, GatewayTypeOK
  <2>7. TypeOK' /\ UNCHANGED <<executed, restarts>>
    BY <2>4, <2>5, ClientStill
  <2> QED BY <1>1, <2>3, <2>6, <2>7, QuietKeeps DEF LinkInv, jobVars
<1> QED BY <1>2, <1>3

\* A reply settles at most the request it is about, whose command has run.
LEMMA ReplyKeeps ==
  ASSUME LinkInv, NEW s \in Socket, ReplyReceived(s), UNCHANGED <<clientVars, restarts>>
  PROVE  LinkInv'
<1> DEFINE m == Head(up[s])
           R == Waiting(m.id)
<1>1. /\ Received(s) /\ m.type = "reply" /\ Settle(R, "answered", "done", m.req)
      /\ UNCHANGED <<server, running, route, announced, nextId>>
  BY DEF ReplyReceived
<1>2. UNCHANGED <<client, down, broken>>
  BY <1>1 DEF Received
<1>3. /\ up' \in [Socket -> Seq(UpMessage)] /\ m \in Replies
      /\ Carried' \subseteq Carried /\ Replies' \subseteq Replies
  BY <1>1, ReceivedLess DEF Replies
<1>4. m.req \in Request /\ m.req \in executed /\ IdIsOf(m.id, m.req)
  BY <1>3, UnderWay DEF LinkInv, RepliesInv
<1>5. \A r \in R : r \in Request /\ pc[r] = "pending" /\ rpcId[r] = m.id /\ running
  BY DEF Waiting, LinkInv, RequestsInv
<1>6. SocketsTypeOK'
  BY <1>1, <1>2, <1>3 DEF LinkInv, TypeOK, SocketsTypeOK
<1>7. GatewayTypeOK'
  <2>1. GatewayTypeOK
    BY DEF LinkInv, TypeOK
  <2>2. /\ running' \in BOOLEAN /\ nextId' \in Nat \ {0}
        /\ route' \in Socket \cup {NoSocket} /\ announced' \subseteq Socket
    BY <1>1, <2>1 DEF GatewayTypeOK
  <2> HIDE DEF R, m
  <2> QED BY <1>1, <1>4, <2>1, <2>2, SettleTypes
<1>8. TypeOK' /\ UNCHANGED <<executed, restarts>>
  BY <1>6, <1>7, ClientStill
<1>9. restarts' = 0 => \A r \in R \cap Request : m.req = r /\ r \in executed
  BY <1>4, <1>5, <1>8 DEF IdIsOf, FirstRun
<1>10. RequestsInv' /\ CarriedInv' /\ RepliesInv' /\ ExecutedInv'
  <2>1. FirstRun' => FirstRun /\ nextId' = nextId
    BY <1>1, <1>8 DEF FirstRun
  <2>2. \A r \in Request : pc[r] \in {"deciding", "pending"} => running'
    BY <1>1 DEF LinkInv, RequestsInv
  <2> HIDE DEF R, m
  <2> QED BY <1>1, <1>3, <1>8, <1>9, <2>1, <2>2, SettleKeeps
<1>11. RoutesInv'
  BY <1>1 DEF LinkInv, RoutesInv, AnnouncedIsRouted
<1> QED BY <1>8, <1>10, <1>11 DEF LinkInv

\* A socket is gone, and with it the answers to what was sent on it.
LEMMA SocketClosedKeeps ==
  ASSUME LinkInv, NEW s \in Socket, SocketClosed(s), UNCHANGED <<clientVars, restarts>>
  PROVE  LinkInv'
<1> USE DEF SocketClosed, ServerGone, Abandon
<1>1. SocketsTypeOK'
  BY DEF LinkInv, TypeOK, SocketsTypeOK
<1>2. GatewayTypeOK'
  <2>1. pc' \in [Request -> {"new", "deciding", "pending", "answered", "lost"}] /\ rpcId' \in [Request -> Nat]
    BY DEF LinkInv, TypeOK, GatewayTypeOK
  <2>2. /\ target' \in [Request -> Socket \cup {NoSocket}]
        /\ answer' \in [Request -> {"none", "refused", "done", "unknown"}]
    BY DEF LinkInv, TypeOK, GatewayTypeOK
  <2>3. route' \in Socket \cup {NoSocket} /\ announced' \subseteq Socket
    BY DEF LinkInv, TypeOK, GatewayTypeOK
  <2>4. \A r \in Request : pc'[r] = "pending" => pc[r] = "pending" /\ rpcId'[r] = rpcId[r]
    OBVIOUS
  <2>5. \A r \in Request : pc'[r] = "pending" => rpcId'[r] \in 1 .. (nextId' - 1)
    BY <2>4 DEF LinkInv, TypeOK, GatewayTypeOK
  <2>6. UNCHANGED <<running, nextId, answerOf>>
    OBVIOUS
  <2> QED BY <2>1, <2>2, <2>3, <2>5, <2>6 DEF LinkInv, TypeOK, GatewayTypeOK
<1>3. TypeOK' /\ UNCHANGED <<tasks, executed, restarts>>
  BY <1>1, <1>2, ClientStill
<1>4. RoutesInv'
  <2>1. server \in [Socket -> {"open", "closing", "closed"}]
    BY DEF LinkInv, TypeOK, SocketsTypeOK
  <2>2. ASSUME NEW t \in announced' PROVE t \in announced /\ t # s /\ server'[t] # "closed"
    BY <2>1, <2>2 DEF LinkInv, RoutesInv, TypeOK, GatewayTypeOK
  <2>3. AnnouncedIsRouted'
    BY <2>1, <2>2 DEF LinkInv, RoutesInv, AnnouncedIsRouted
  <2> QED BY <2>2, <2>3 DEF RoutesInv
<1>5. Carried' \subseteq Carried /\ Replies' \subseteq Replies
  <2>1. \A t \in Socket : down'[t] = <<>> \/ down'[t] = down[t]
    BY DEF LinkInv, TypeOK, SocketsTypeOK
  <2>2. \A t \in Socket : Contents(down'[t]) \subseteq Contents(down[t]) /\ Contents(up'[t]) \subseteq Contents(up[t])
    BY <2>1, EmptyContents
  <2> QED BY <1>3, <2>2, LessUnderWay
<1>6. RequestsInv' /\ CarriedInv' /\ RepliesInv' /\ ExecutedInv'
  <2>1. FirstRun' => FirstRun /\ nextId' = nextId
    BY <1>3 DEF FirstRun
  <2>2. \A r \in Request : Forwarded(r) => Forwarded(r)'
    BY DEF Forwarded
  <2>3. \A r \in Request : pc'[r] = "pending" => pc[r] = "pending" /\ rpcId'[r] = rpcId[r]
    OBVIOUS
  <2>4. \A r \in Request : pc'[r] \in {"deciding", "pending"} => running'
    BY DEF LinkInv, RequestsInv
  <2>5. \A r \in Request : AnswerFits(r)'
    BY <1>3 DEF LinkInv, RequestsInv, AnswerFits
  <2> QED BY <1>3, <1>5, <2>1, <2>2, <2>3, <2>4, <2>5, UnderWay, RequestsKept DEF LinkInv
<1> QED BY <1>3, <1>4, <1>6 DEF LinkInv

\* A step of the requests alone: sockets, routes and extension are as before.
LEMMA SocketsStill ==
  ASSUME LinkInv, UNCHANGED <<socketVars, clientVars, restarts, running, route, announced>>, GatewayTypeOK'
  PROVE  /\ TypeOK' /\ RoutesInv' /\ Carried' \subseteq Carried /\ Replies' \subseteq Replies
         /\ UNCHANGED <<executed, restarts>>
<1>1. UNCHANGED <<client, server, up, down, broken>>
  BY DEF socketVars
<1>2. SocketsTypeOK'
  BY <1>1 DEF LinkInv, TypeOK, SocketsTypeOK
<1>3. TypeOK' /\ UNCHANGED <<tasks, executed, restarts>>
  BY <1>2, ClientStill
<1>4. RoutesInv'
  BY <1>1 DEF LinkInv, RoutesInv, AnnouncedIsRouted
<1> QED BY <1>1, <1>3, <1>4, LessUnderWay

\* A request is refused, or its timer fires.
LEMMA EndKeeps ==
  ASSUME LinkInv, NEW r \in Request, UNCHANGED <<clientVars, restarts>>,
         NEW what \in {"refused", "unknown"}, Settle({r}, "answered", what, NoRequest),
         pc[r] = "pending" => what = "unknown",
         pc[r] \in {"new", "deciding", "pending"},
         UNCHANGED <<socketVars, running, route, announced, nextId>>
  PROVE  LinkInv'
<1>1. GatewayTypeOK /\ running \in BOOLEAN /\ nextId \in Nat \ {0} /\ route \in Socket \cup {NoSocket} /\ announced \subseteq Socket
  BY DEF LinkInv, TypeOK, GatewayTypeOK
<1>2. GatewayTypeOK'
  BY <1>1, SettleTypes
<1>3. /\ TypeOK' /\ RoutesInv' /\ Carried' \subseteq Carried /\ Replies' \subseteq Replies
      /\ UNCHANGED <<executed, restarts>>
  BY <1>2, SocketsStill
<1>4. Forwarded(r) => what = "unknown"
  BY DEF Forwarded
<1>5. \A q \in Request : pc[q] \in {"deciding", "pending"} => running'
  BY DEF LinkInv, RequestsInv
<1>6. FirstRun' => FirstRun /\ nextId' = nextId
  BY DEF FirstRun
<1>7. RequestsInv' /\ CarriedInv' /\ RepliesInv' /\ ExecutedInv'
  BY <1>3, <1>4, <1>5, <1>6, SettleKeeps
<1> QED BY <1>3, <1>7 DEF LinkInv

\* A request arrives, and picks the socket that serves the profile, if any does.
LEMMA ArriveKeeps ==
  ASSUME LinkInv, NEW r \in Request, Arrive(r), UNCHANGED <<clientVars, restarts>>
  PROVE  LinkInv'
<1>1. running /\ pc[r] = "new" /\ UNCHANGED <<socketVars, running, route, announced, nextId>>
  BY DEF Arrive
<1>2. CASE Settle({r}, "answered", "refused", NoRequest)
  BY <1>1, <1>2, EndKeeps
<1>3. CASE /\ pc' = [pc EXCEPT ![r] = "deciding"] /\ target' = [target EXCEPT ![r] = route]
           /\ UNCHANGED <<rpcId, answer, answerOf>>
  <2>1. GatewayTypeOK'
    BY <1>1, <1>3 DEF LinkInv, TypeOK, GatewayTypeOK
  <2>2. /\ TypeOK' /\ RoutesInv' /\ Carried' \subseteq Carried /\ Replies' \subseteq Replies
        /\ UNCHANGED <<executed, restarts>>
    BY <1>1, <2>1, SocketsStill
  <2>3. pc \in [Request -> {"new", "deciding", "pending", "answered", "lost"}]
    BY DEF LinkInv, TypeOK, GatewayTypeOK
  <2>4. FirstRun' => FirstRun /\ nextId' = nextId
    BY <1>1 DEF FirstRun
  <2>5. \A q \in Request : Forwarded(q) => Forwarded(q)'
    BY <1>1, <1>3, <2>3 DEF Forwarded
  <2>6. \A q \in Request : pc'[q] = "pending" => pc[q] = "pending" /\ rpcId'[q] = rpcId[q]
    BY <1>3, <2>3
  <2>7. \A q \in Request : AnswerFits(q)'
    BY <1>1, <1>3, <2>2, <2>3 DEF LinkInv, RequestsInv, AnswerFits
  <2>8. RequestsInv' /\ CarriedInv' /\ RepliesInv' /\ ExecutedInv'
    BY <1>1, <2>2, <2>4, <2>5, <2>6, <2>7, UnderWay, RequestsKept DEF LinkInv
  <2> QED BY <2>2, <2>8 DEF LinkInv
<1> QED BY <1>2, <1>3 DEF Arrive

\* A command leaves with an id that no request had before, in this run.
LEMMA ForwardKeeps ==
  ASSUME LinkInv, NEW r \in Request, Forward(r), UNCHANGED <<clientVars, restarts>>
  PROVE  LinkInv'
<1> DEFINE c == [id |-> nextId, req |-> r]
<1>1. /\ pc[r] = "deciding" /\ pc' = [pc EXCEPT ![r] = "pending"]
      /\ rpcId' = [rpcId EXCEPT ![r] = nextId] /\ nextId' = nextId + 1
      /\ UNCHANGED <<client, server, up, broken, running, route, announced, target, answer, answerOf>>
  BY DEF Forward
<1>2. /\ pc \in [Request -> {"new", "deciding", "pending", "answered", "lost"}]
      /\ rpcId \in [Request -> Nat] /\ nextId \in Nat \ {0}
      /\ \A q \in Request : pc[q] = "pending" => rpcId[q] \in 1 .. (nextId - 1)
  BY DEF LinkInv, TypeOK, GatewayTypeOK
<1>3. /\ down' \in [Socket -> Seq(Command)]
      /\ \A s \in Socket : Contents(down'[s]) \subseteq Contents(down[s]) \cup {c}
  <2>1. c \in Command /\ target[r] \in Socket \cup {NoSocket} /\ down \in [Socket -> Seq(Command)]
    BY <1>2, MessageTypes DEF LinkInv, TypeOK, GatewayTypeOK, SocketsTypeOK
  <2>2. down' = Sent(down, server, target[r], c)
    BY DEF Forward
  <2> HIDE DEF c
  <2> QED BY <2>1, <2>2, SentContents
<1>4. SocketsTypeOK'
  BY <1>1, <1>3 DEF LinkInv, TypeOK, SocketsTypeOK
<1>5. GatewayTypeOK'
  <2>1. \A q \in Request : pc'[q] = "pending" => rpcId'[q] \in 1 .. (nextId' - 1)
    BY <1>1, <1>2
  <2>2. /\ pc' \in [Request -> {"new", "deciding", "pending", "answered", "lost"}]
        /\ rpcId' \in [Request -> Nat] /\ nextId' \in Nat \ {0}
    BY <1>1, <1>2
  <2> QED BY <1>1, <2>1, <2>2 DEF LinkInv, TypeOK, GatewayTypeOK
<1>6. TypeOK' /\ UNCHANGED <<tasks, executed, restarts>>
  BY <1>4, <1>5, ClientStill
<1>7. RoutesInv'
  BY <1>1 DEF LinkInv, RoutesInv, AnnouncedIsRouted
<1>8. Carried' \subseteq Carried \cup {c} /\ Replies' = Replies
  <2>1. Down' \subseteq Down \cup {c} /\ Up' = Up
    BY <1>1, <1>3 DEF Down, Up
  <2> QED BY <1>6, <2>1 DEF Carried, Replies
<1>9. Forwarded(r)' /\ \A q \in Request : Forwarded(q) => Forwarded(q)'
  BY <1>1, <1>2 DEF Forwarded
<1>10. ASSUME NEW id \in Nat, NEW q \in Request, IdIsOf(id, q) PROVE IdIsOf(id, q)'
  BY <1>1, <1>2, <1>6, <1>10 DEF IdIsOf, FirstRun
<1>11. ASSUME NEW id \in Nat, id = nextId PROVE IdIsOf(id, r)'
  <2>1. id < nextId'
    BY <1>1, <1>2, <1>11
  <2>2. ASSUME NEW q \in Request, pc'[q] = "pending", rpcId'[q] = id PROVE q = r
    BY <1>1, <1>2, <1>11, <2>2
  <2> QED BY <2>1, <2>2 DEF IdIsOf
<1>12. RequestsInv'
  <2>1. \A q \in Request : pc'[q] \in {"deciding", "pending"} => running'
    BY <1>1, <1>2 DEF LinkInv, RequestsInv
  <2>2. \A q, t \in Request : pc'[q] = "pending" /\ pc'[t] = "pending" /\ rpcId'[q] = rpcId'[t] => q = t
    BY <1>1, <1>2 DEF LinkInv, RequestsInv
  <2>3. \A q \in Request : AnswerFits(q)'
    BY <1>1, <1>2, <1>6 DEF LinkInv, RequestsInv, AnswerFits
  <2> QED BY <2>1, <2>2, <2>3 DEF RequestsInv
<1>13. CarriedInv'
  <2> SUFFICES ASSUME NEW d \in Carried' PROVE Forwarded(d.req)' /\ IdIsOf(d.id, d.req)'
    BY DEF CarriedInv
  <2>1. CASE d \in Carried
    BY <1>9, <1>10, <2>1, UnderWay DEF LinkInv, CarriedInv
  <2>2. CASE d = c
    BY <1>2, <1>9, <1>11, <2>2
  <2> QED BY <1>8, <2>1, <2>2
<1>14. RepliesInv'
  BY <1>6, <1>8, <1>10, UnderWay DEF LinkInv, RepliesInv
<1>15. ExecutedInv'
  BY <1>6, <1>9, UnderWay DEF LinkInv, ExecutedInv
<1> QED BY <1>6, <1>7, <1>12, <1>13, <1>14, <1>15 DEF LinkInv

\* The process stops, and with it every request it had taken up.
LEMMA CrashKeeps ==
  ASSUME LinkInv, Crash, UNCHANGED <<clientVars, restarts>>
  PROVE  LinkInv'
<1> DEFINE R == {r \in Request : pc[r] \in {"deciding", "pending"}}
<1>1. /\ running' = FALSE /\ server' = [s \in Socket |-> "closed"]
      /\ broken' = [s \in Socket |-> client[s] # "closed"]
      /\ up' = [s \in Socket |-> <<>>] /\ down' = [s \in Socket |-> <<>>]
      /\ route' = NoSocket /\ announced' = {} /\ nextId' = 1
      /\ Settle(R, "lost", "none", NoRequest) /\ UNCHANGED client
  BY DEF Crash
<1>2. SocketsTypeOK'
  BY <1>1 DEF LinkInv, TypeOK, SocketsTypeOK
<1>3. GatewayTypeOK'
  <2>1. running' \in BOOLEAN /\ route' \in Socket \cup {NoSocket} /\ announced' \subseteq Socket
    BY <1>1
  <2>3. nextId' \in Nat \ {0}
    BY <1>1
  <2>4. \A r \in Request : pc[r] = "pending" => r \in R
    OBVIOUS
  <2>2. GatewayTypeOK
    BY DEF LinkInv, TypeOK
  <2> HIDE DEF R
  <2> QED BY <1>1, <2>1, <2>2, <2>3, <2>4, SettleTypes
<1>4. TypeOK' /\ UNCHANGED <<tasks, executed, restarts>>
  BY <1>2, <1>3, ClientStill
<1>5. RoutesInv'
  BY <1>1 DEF RoutesInv, AnnouncedIsRouted
<1>6. Carried' \subseteq Carried /\ Replies' \subseteq Replies
  <2>1. \A s \in Socket : Contents(down'[s]) \subseteq Contents(down[s]) /\ Contents(up'[s]) \subseteq Contents(up[s])
    BY <1>1, EmptyContents
  <2> QED BY <1>4, <2>1, LessUnderWay
<1>7. RequestsInv' /\ CarriedInv' /\ RepliesInv' /\ ExecutedInv'
  <2>1. ~FirstRun' /\ \A r \in Request : pc[r] \in {"deciding", "pending"} => r \in R
    BY <1>1 DEF FirstRun
  <2> HIDE DEF R
  <2> QED BY <1>1, <1>4, <1>6, <2>1, SettleKeeps
<1> QED BY <1>4, <1>5, <1>7 DEF LinkInv

\* A new process takes over; what is under way is nobody's business any more.
LEMMA RestartKeeps ==
  ASSUME LinkInv, Restart, restarts < MaxRestarts, restarts' = restarts + 1, UNCHANGED clientVars
  PROVE  LinkInv'
<1>1. /\ running' = TRUE /\ UNCHANGED <<client, server, up, down, broken, route, announced, nextId>>
      /\ UNCHANGED <<pc, target, rpcId, answer, answerOf, tasks, executed>>
  BY DEF Restart, socketVars, jobVars, clientVars
<1>2. restarts \in 0 .. MaxRestarts /\ restarts' \in 0 .. MaxRestarts /\ restarts' # 0
  BY DEF LinkInv, TypeOK
<1>3. SocketsTypeOK'
  BY <1>1 DEF LinkInv, TypeOK, SocketsTypeOK
<1>4. ClientTypeOK'
  BY DEF LinkInv, TypeOK, ClientTypeOK, clientVars
<1>5. GatewayTypeOK'
  BY <1>1 DEF LinkInv, TypeOK, GatewayTypeOK
<1>6. RoutesInv'
  BY <1>1 DEF LinkInv, RoutesInv, AnnouncedIsRouted
<1>7. Carried' \subseteq Carried /\ Replies' \subseteq Replies
  BY <1>1, LessUnderWay
<1>8. ~FirstRun'
  BY <1>2 DEF FirstRun
<1>9. \A r \in Request : (Forwarded(r) => Forwarded(r)') /\ AnswerFits(r)'
  BY <1>1, <1>2 DEF Forwarded, AnswerFits, LinkInv, RequestsInv
<1>10. RequestsInv' /\ CarriedInv' /\ RepliesInv' /\ ExecutedInv'
  BY <1>1, <1>7, <1>8, <1>9, UnderWay, RequestsKept DEF LinkInv
<1> QED BY <1>2, <1>3, <1>4, <1>5, <1>6, <1>10 DEF LinkInv, TypeOK

----------------------------------------------------------------------------
(* Every step *)

LEMMA NextInv == LinkInv /\ [Next]_vars => LinkInv'
<1> SUFFICES ASSUME LinkInv, [Next]_vars PROVE LinkInv'
  OBVIOUS
<1>1. CASE (ClientSteps \/ reconnectNow \/ Killed) /\ UNCHANGED <<gatewayVars, restarts>>
  BY <1>1, ClientKeeps
<1>2. CASE \E t \in tasks : Finish(t) /\ UNCHANGED <<gatewayVars, restarts>>
  BY <1>2, FinishKeeps
<1>3. CASE SocketSteps /\ UNCHANGED <<clientVars, restarts>>
  BY <1>3, HandshakeKeeps, ReplyKeeps, SocketClosedKeeps DEF SocketSteps
<1>4. ASSUME NEW r \in Request, RequestStep(r), UNCHANGED <<clientVars, restarts>>
      PROVE  LinkInv'
  <2>1. CASE Deny(r)
    BY <1>4, <2>1, EndKeeps DEF Deny
  <2>2. CASE Timeout(r)
    BY <1>4, <2>2, EndKeeps DEF Timeout
  <2>3. CASE Forward(r)
    BY <1>4, <2>3, ForwardKeeps
  <2> QED BY <1>4, <2>1, <2>2, <2>3 DEF RequestStep
<1>5. CASE \E r \in Request : Arrive(r) /\ UNCHANGED <<clientVars, restarts>>
  BY <1>5, ArriveKeeps
<1>6. CASE \E s \in Socket : Break(s) /\ UNCHANGED <<clientVars, gatewayVars, restarts>>
  BY <1>6, ClientKeeps
<1>7. CASE \E s \in Socket : Unanswered(s) /\ UNCHANGED <<clientVars, gatewayVars, restarts>>
  BY <1>7, ClientKeeps DEF Unanswered
<1>8. CASE Crash /\ UNCHANGED <<clientVars, restarts>>
  BY <1>8, CrashKeeps
<1>9. CASE Restart /\ restarts < MaxRestarts /\ restarts' = restarts + 1 /\ UNCHANGED clientVars
  BY <1>9, RestartKeeps
<1>10. CASE UNCHANGED vars
  <2>1. UNCHANGED <<socketVars, clientVars, restarts, running, route, announced, executed, nextId, jobVars>>
    BY <1>10 DEF vars, clientVars, gatewayVars
  <2>2. GatewayTypeOK'
    BY <2>1 DEF jobVars, LinkInv, TypeOK, GatewayTypeOK
  <2> QED BY <2>1, <2>2, SocketsStill, QuietKeeps DEF LinkInv
<1> QED BY <1>1, <1>2, <1>3, <1>4, <1>5, <1>6, <1>7, <1>8, <1>9, <1>10 DEF Next

\* In every behaviour of the link, while the first gateway process lives, an id under way
\* was given out by it, to the one request that may wait for it.
THEOREM LinkInvariant == Spec => []LinkInv
BY InitInv, NextInv, PTL DEF Spec

\* Every variable keeps to its values, and ids in use were given out.
THEOREM LinkTypeCorrect == Spec => []TypeOK
<1>1. LinkInv => TypeOK
  BY DEF LinkInv
<1> QED BY <1>1, LinkInvariant, PTL

\* While the gateway's first process lives, a report is about the caller's own command.
THEOREM LinkIsSafe == Spec => []LinkSafe
<1>1. LinkInv => LinkSafe
  BY DEF LinkInv, RequestsInv, AnswerFits, LinkSafe, RepliesMatch
<1> QED BY <1>1, LinkInvariant, PTL

\* No late handshake or close event takes the route from a live announced socket.
THEOREM LinkAnnouncedIsRouted == Spec => []AnnouncedIsRouted
<1>1. LinkInv => AnnouncedIsRouted
  BY DEF LinkInv, RoutesInv
<1> QED BY <1>1, LinkInvariant, PTL

----------------------------------------------------------------------------
(* The refinement: what a caller concludes from an answer is right, however
   connections, requests and processes come and go *)

\* The steps of the abstract service, under the mapping.
USE DEF Service!Become

LEMMA StatusOf ==
  ASSUME LinkInv, NEW r \in Request
  PROVE  /\ pc[r] = "new" => Status[r] = "new"
         /\ pc[r] \in {"deciding", "pending"} => Status[r] = "accepted"
         /\ pc[r] = "lost" => Status[r] = "unknown"
         /\ pc[r] = "answered" => Status[r] = answer[r]
         /\ pc[r] \in {"new", "deciding", "pending", "lost", "answered"}
<1>1. answer[r] # "none" <=> pc[r] = "answered"
  BY DEF LinkInv, RequestsInv, AnswerFits
<1>2. pc[r] \in {"new", "deciding", "pending", "lost", "answered"}
  BY DEF LinkInv, TypeOK, GatewayTypeOK
<1> QED BY <1>1, <1>2 DEF Status

LEMMA StatusSame ==
  ASSUME LinkInv, LinkInv', UNCHANGED <<answer, executed, restarts>>,
         \A r \in Request : pc'[r] = pc[r] \/ {pc[r], pc'[r]} \subseteq {"deciding", "pending"}
  PROVE  UNCHANGED Service!vars
<1>1. \A r \in Request : Status'[r] = Status[r]
  BY DEF Status
<1>2. Status' = Status
  BY <1>1 DEF Status
<1> QED BY <1>2 DEF Service!vars

LEMMA StatusSettled ==
  ASSUME NEW R, NEW what \in {"refused", "done", "unknown"},
         \/ \E of : Settle(R, "answered", what, of)
         \/ what = "unknown" /\ \E of : Settle(R, "lost", "none", of)
  PROVE  Service!Become(R, what)
<1> SUFFICES \A r \in Request : Status'[r] = IF r \in R THEN what ELSE Status[r]
  BY DEF Status
<1> QED BY DEF Settle, Status

LEMMA FinishRefines ==
  ASSUME LinkInv, LinkInv', NEW t \in tasks, Finish(t), UNCHANGED <<gatewayVars, restarts>>
  PROVE  [Service!Next]_Service!vars
<1>1. UNCHANGED <<pc, answer, restarts>> /\ executed' = executed \cup {t.req}
  BY DEF Finish, gatewayVars, jobVars
<1>2. t \in Carried /\ t.req \in Request
  BY UnderWay DEF LinkInv, Carried
<1>3. Forwarded(t.req) /\ AnswerFits(t.req)
  BY <1>2 DEF LinkInv, CarriedInv, RequestsInv
<1>4. Status' = Status
  BY <1>1 DEF Status
<1>5. CASE t.req \in executed
  BY <1>1, <1>4, <1>5 DEF Service!vars
<1>6. CASE t.req \notin executed
  <2>1. Status[t.req] \in {"accepted", "unknown"} \/ (Status[t.req] = "done" /\ restarts # 0)
    BY <1>2, <1>3, <1>6, StatusOf DEF Forwarded, AnswerFits
  <2>2. restarts # 0 => restarts > 0
    BY DEF LinkInv, TypeOK
  <2>3. Service!Execute(t.req)
    BY <1>1, <1>4, <2>1, <2>2 DEF Service!Execute
  <2> QED BY <1>2, <2>3 DEF Service!Next
<1> QED BY <1>5, <1>6

LEMMA ReplyRefines ==
  ASSUME LinkInv, LinkInv', NEW s \in Socket, ReplyReceived(s), UNCHANGED <<clientVars, restarts>>
  PROVE  [Service!Next]_Service!vars
<1> DEFINE m == Head(up[s])
           R == Waiting(m.id)
<1>1. Received(s) /\ m.type = "reply" /\ Settle(R, "answered", "done", m.req) /\ UNCHANGED <<executed, restarts>>
  BY DEF ReplyReceived, clientVars
<1>2. m \in Replies /\ m.req \in executed /\ IdIsOf(m.id, m.req)
  BY <1>1, ReceivedLess DEF Replies, LinkInv, RepliesInv
<1>3. R \subseteq Request /\ \A r \in R : pc[r] = "pending" /\ rpcId[r] = m.id /\ running
  BY DEF Waiting, LinkInv, RequestsInv
<1>4. Service!Become(R, "done")
  <2> HIDE DEF R, m
  <2> QED BY <1>1, StatusSettled
<1>5. CASE R = {}
  <2>1. Status' = Status
    BY <1>4, <1>5 DEF Status
  <2> QED BY <1>1, <2>1 DEF Service!vars
<1>6. ASSUME NEW r \in R PROVE Service!Report(r) /\ r \in Request
  <2>1. R = {r} /\ r \in Request
    BY <1>3, <1>6 DEF LinkInv, RequestsInv
  <2>2. Status[r] = "accepted"
    BY <1>3, <1>6, StatusOf
  <2>3. restarts = 0 => r \in executed
    BY <1>2, <1>3, <1>6 DEF IdIsOf, FirstRun
  <2>4. restarts # 0 => restarts > 0
    BY DEF LinkInv, TypeOK
  <2>5. Service!Become({r}, "done")
    BY <1>4, <2>1
  <2> QED BY <1>1, <2>1, <2>2, <2>3, <2>4, <2>5 DEF Service!Report
<1> QED BY <1>5, <1>6 DEF Service!Next

LEMMA SocketClosedRefines ==
  ASSUME LinkInv, LinkInv', NEW s \in Socket, SocketClosed(s), UNCHANGED <<clientVars, restarts>>
  PROVE  [Service!Next]_Service!vars
<1> DEFINE sent == {r \in Request : pc[r] = "pending" /\ target[r] = s}
<1>1. /\ pc' = [r \in Request |-> IF r \in sent THEN "answered" ELSE pc[r]]
      /\ answer' = [r \in Request |-> IF r \in sent THEN "unknown" ELSE answer[r]]
      /\ UNCHANGED <<executed, restarts>>
  BY DEF SocketClosed, Abandon, clientVars
<1>2. \A r \in sent : Status[r] = "accepted"
  BY StatusOf
<1>3. Service!Become(sent, "unknown")
  <2> HIDE DEF sent
  <2>1. \A r \in Request : Status'[r] = IF r \in sent THEN "unknown" ELSE Status[r]
    BY <1>1 DEF Status
  <2> QED BY <2>1 DEF Status
<1>4. Service!GiveUp(sent)
  BY <1>1, <1>2, <1>3 DEF Service!GiveUp
<1> QED BY <1>4 DEF Service!Next

LEMMA CrashRefines ==
  ASSUME LinkInv, LinkInv', Crash, UNCHANGED <<clientVars, restarts>>
  PROVE  [Service!Next]_Service!vars
<1> DEFINE R == {r \in Request : pc[r] \in {"deciding", "pending"}}
<1>1. Settle(R, "lost", "none", NoRequest) /\ UNCHANGED <<executed, restarts>>
  BY DEF Crash, clientVars
<1>2. \A r \in R : Status[r] = "accepted"
  BY StatusOf
<1>3. Service!Become(R, "unknown")
  <2> HIDE DEF R
  <2> QED BY <1>1, StatusSettled
<1>4. Service!GiveUp(R)
  BY <1>1, <1>2, <1>3 DEF Service!GiveUp
<1> QED BY <1>4 DEF Service!Next

LEMMA RequestRefines ==
  ASSUME LinkInv, LinkInv', NEW r \in Request, Arrive(r) \/ RequestStep(r), UNCHANGED <<clientVars, restarts>>
  PROVE  [Service!Next]_Service!vars
<1>1. UNCHANGED <<executed, restarts>>
  BY DEF clientVars
<1>2. CASE Arrive(r)
  <2>1. Status[r] = "new" /\ pc[r] = "new"
    BY <1>2, StatusOf DEF Arrive
  <2>2. CASE Settle({r}, "answered", "refused", NoRequest)
    <3>1. Service!Become({r}, "refused")
      BY <2>2, StatusSettled
    <3> QED BY <1>1, <2>1, <3>1 DEF Service!Submit, Service!Next
  <2>3. CASE pc' = [pc EXCEPT ![r] = "deciding"] /\ UNCHANGED answer
    <3>1. /\ pc'[r] = "deciding" /\ \A q \in Request : q # r => pc'[q] = pc[q]
      BY <2>3 DEF LinkInv, TypeOK, GatewayTypeOK
    <3>2. Status'[r] = "accepted"
      BY <2>1, <2>3, <3>1 DEF Status, LinkInv, RequestsInv, AnswerFits
    <3>3. Service!Become({r}, "accepted")
      BY <2>3, <3>1, <3>2 DEF Status
    <3> QED BY <1>1, <2>1, <3>3 DEF Service!Submit, Service!Next
  <2> QED BY <1>2, <2>2, <2>3 DEF Arrive
<1>3. CASE Deny(r)
  <2>1. Status[r] = "accepted" /\ pc[r] = "deciding" /\ Settle({r}, "answered", "refused", NoRequest)
    BY <1>3, StatusOf DEF Deny
  <2>2. r \notin executed
    BY <2>1 DEF LinkInv, ExecutedInv, Forwarded
  <2>3. Service!Become({r}, "refused")
    BY <2>1, StatusSettled
  <2> QED BY <1>1, <2>1, <2>2, <2>3 DEF Service!Refuse, Service!Next
<1>4. CASE Timeout(r)
  <2>1. Status[r] = "accepted" /\ Settle({r}, "answered", "unknown", NoRequest)
    BY <1>4, StatusOf DEF Timeout
  <2>2. Service!Become({r}, "unknown")
    BY <2>1, StatusSettled
  <2>3. Service!GiveUp({r})
    BY <1>1, <2>1, <2>2 DEF Service!GiveUp
  <2> QED BY <2>3 DEF Service!Next
<1>5. CASE Forward(r)
  <2>1. \A q \in Request : pc'[q] = pc[q] \/ {pc[q], pc'[q]} \subseteq {"deciding", "pending"}
    BY <1>5 DEF Forward, LinkInv, TypeOK, GatewayTypeOK
  <2> QED BY <1>1, <1>5, <2>1, StatusSame DEF Forward
<1> QED BY <1>2, <1>3, <1>4, <1>5 DEF RequestStep

LEMMA RestartRefines ==
  ASSUME LinkInv, LinkInv', Restart, restarts' = restarts + 1, UNCHANGED clientVars
  PROVE  [Service!Next]_Service!vars
<1>1. UNCHANGED <<pc, answer, executed>> /\ restarts' > 0
  BY DEF Restart, jobVars, clientVars, LinkInv, TypeOK
<1>2. Status' = Status
  BY <1>1 DEF Status
<1>3. Service!Restart
  BY <1>1, <1>2 DEF Service!Restart
<1> QED BY <1>3 DEF Service!Next

LEMMA StepRefines == LinkInv /\ LinkInv' /\ [Next]_vars => [Service!Next]_Service!vars
<1> SUFFICES ASSUME LinkInv, LinkInv', [Next]_vars PROVE [Service!Next]_Service!vars
  OBVIOUS
<1>1. ASSUME UNCHANGED <<jobVars, executed, restarts>> PROVE [Service!Next]_Service!vars
  BY <1>1, StatusSame DEF jobVars
<1>2. CASE (ClientSteps \/ reconnectNow \/ Killed) /\ UNCHANGED <<gatewayVars, restarts>>
  <2>1. UNCHANGED executed
    BY <1>2 DEF ClientSteps, reconnectNow, Killed, TimerFires, Alarm, Announce, Opened, Message,
                Closing, Closed, clientVars
  <2> QED BY <1>1, <1>2, <2>1 DEF gatewayVars
<1>3. CASE \E t \in tasks : Finish(t) /\ UNCHANGED <<gatewayVars, restarts>>
  BY <1>3, FinishRefines
<1>4. ASSUME NEW s \in Socket, Accept(s) \/ ExtensionReady(s), UNCHANGED <<clientVars, restarts>>
      PROVE  [Service!Next]_Service!vars
  BY <1>1, <1>4 DEF Accept, ExtensionReady, gatewayVars, clientVars
<1>5. CASE SocketSteps /\ UNCHANGED <<clientVars, restarts>>
  BY <1>4, <1>5, ReplyRefines, SocketClosedRefines DEF SocketSteps
<1>6. CASE (\E r \in Request : RequestStep(r) \/ Arrive(r)) /\ UNCHANGED <<clientVars, restarts>>
  BY <1>6, RequestRefines
<1>7. CASE UNCHANGED <<clientVars, gatewayVars, restarts>>
  BY <1>1, <1>7 DEF clientVars, gatewayVars
<1>8. CASE Crash /\ UNCHANGED <<clientVars, restarts>>
  BY <1>8, CrashRefines
<1>9. CASE Restart /\ restarts' = restarts + 1 /\ UNCHANGED clientVars
  BY <1>9, RestartRefines
<1> QED BY <1>2, <1>3, <1>5, <1>6, <1>7, <1>8, <1>9 DEF Next, vars

LEMMA InitRefines == Init => Service!Init
<1> SUFFICES ASSUME Init PROVE Service!Init
  OBVIOUS
<1>1. Status = [r \in Request |-> "new"]
  BY DEF Init, GatewayInit, Status
<1>2. executed = {} /\ (restarts > 0) = FALSE
  BY DEF Init, ClientInit
<1> QED BY <1>1, <1>2 DEF Service!Init

\* A refused command has not run and never will, a reported one has run, and
\* nothing is claimed of the others.
THEOREM LinkImplementsCommandService == Spec => ImplementsCommandService
BY InitRefines, StepRefines, LinkInvariant, PTL DEF Spec, Service!Spec, ImplementsCommandService

=============================================================================
