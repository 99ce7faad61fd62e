--------------------------- MODULE TrustedContext ---------------------------
(***************************************************************************)
(* The trusted context channel of the gateway                              *)
(* (server/gateway/trusted-context-channel.mjs): signed context messages   *)
(* arrive over a local socket, each on a connection of its own, in any     *)
(* order and possibly more than once; the last one accepted is the context *)
(* that requests are judged under.  What was accepted before is remembered *)
(* in memory only, and only until the message has expired.                 *)
(***************************************************************************)
EXTENDS Naturals, Sequences

CONSTANTS
  Message,   \* messages that may be delivered
  Content,   \* what each of them says, a record (see MessageContent)
  PermitId,  \* ids of permits, which a message may revoke
  Plan,      \* what a permit is bound to: run, plan, claim and their digests
  Epoch,     \* fence epochs
  NoContext, \* no context has been accepted
  MaxTime,   \* bound of the model: ticks of the clock
  MaxBoots   \* bound of the model: starts of the gateway process

\* "seq" is optional, 0 stands for its absence; "genuine": the digest and the
\* signature verify under the pinned key; the message is refused after "ends",
\* the sooner of expiresAt and issuedAt + ttlMs, and before "starts", a second
\* before notBefore.
MessageContent ==
  [id : Message, seq : Nat, starts : Nat, expires : Nat, ends : Nat, genuine : BOOLEAN,
   plan : Plan, epoch : Epoch, revocations : SUBSET PermitId]

ASSUME ContentAssumption ==
  /\ Content \in [Message -> MessageContent]
  /\ \A m \in Message : Content[m].ends <= Content[m].expires
  /\ NoContext \notin Message

\* The signer never signs two messages under one id.
ASSUME GenuineIdsDiffer ==
  \A m, n \in Message :
    Content[m].genuine /\ Content[n].genuine /\ Content[m].id = Content[n].id => m = n

ASSUME BoundsAssumption == MaxTime \in Nat /\ MaxBoots \in Nat

VARIABLES
  clock,          \* Date.now()
  boot,           \* starts of the gateway process so far
  seenMessageIds, \* id -> expiresAt, as the set of pairs
  lastSeq,
  currentContext,
  revoked,        \* permitStore.revoked
  accepted        \* history: the messages accepted by this process, in order

channelVars == <<seenMessageIds, lastSeq, currentContext, accepted>>
contextVars == <<clock, boot, revoked, channelVars>>

ChannelInit ==
  /\ seenMessageIds = {} /\ lastSeq = 0 /\ currentContext = NoContext
  /\ revoked = {} /\ accepted = <<>>

ContextInit == clock = 0 /\ boot = 0 /\ ChannelInit

----------------------------------------------------------------------------
(* A message arrives *)

\* Mutant: an id is dropped as soon as the message it belongs to is old,
\* while a message is refused only when it is older still.
gcSeenMessagesEarly(now) == {s \in seenMessageIds : s.expires > now}

gcSeenMessages(now) == {s \in seenMessageIds : s.expires >= now}

Expired(m, now) == now > Content[m].ends

NotYetValid(m, now) == now < Content[m].starts

StaleSequence(m) == Content[m].seq # 0 /\ Content[m].seq <= lastSeq

Replayed(m, seen) == \E s \in seen : s.id = Content[m].id

\* A refusal after the checks of time still collects the old ids.
Refuse(m) ==
  /\ ~Expired(m, clock) /\ ~NotYetValid(m, clock)
  /\ LET seen == gcSeenMessages(clock)
     IN  /\ Replayed(m, seen) \/ StaleSequence(m) \/ ~Content[m].genuine
         /\ seenMessageIds' = seen
  /\ UNCHANGED <<clock, boot, lastSeq, currentContext, revoked, accepted>>

Accept(m) ==
  /\ ~Expired(m, clock) /\ ~NotYetValid(m, clock)
  /\ Content[m].genuine /\ ~StaleSequence(m)
  /\ LET seen == gcSeenMessages(clock)
     IN  /\ ~Replayed(m, seen)
         /\ seenMessageIds' =
              seen \cup {[id |-> Content[m].id, expires |-> Content[m].expires]}
  /\ lastSeq' = IF Content[m].seq = 0 THEN lastSeq ELSE Content[m].seq
  /\ revoked' = revoked \cup Content[m].revocations
  /\ currentContext' = m
  /\ accepted' = Append(accepted, m)
  /\ UNCHANGED <<clock, boot>>

\* What getContext returns: an expired context is no context.
Context ==
  IF currentContext # NoContext /\ clock <= Content[currentContext].ends
  THEN currentContext ELSE NoContext

----------------------------------------------------------------------------

Tick == clock < MaxTime /\ clock' = clock + 1 /\ UNCHANGED <<boot, revoked, channelVars>>

\* The process ends and is started again: all that it knew was in memory.
Reset ==
  /\ boot < MaxBoots /\ boot' = boot + 1
  /\ seenMessageIds' = {} /\ lastSeq' = 0 /\ currentContext' = NoContext
  /\ revoked' = {} /\ accepted' = <<>>
  /\ UNCHANGED clock

ContextNext == Tick \/ Reset \/ \E m \in Message : Accept(m) \/ Refuse(m)

ContextSpec == ContextInit /\ [][ContextNext]_contextVars

----------------------------------------------------------------------------
(* Properties *)

ContextTypeOK ==
  /\ clock \in 0..MaxTime /\ boot \in 0..MaxBoots
  /\ seenMessageIds \in SUBSET [id : Message, expires : Nat]
  /\ lastSeq \in Nat
  /\ currentContext \in Message \cup {NoContext}
  /\ revoked \in SUBSET PermitId
  /\ accepted \in Seq(Message)

\* A process accepts no message twice, although it forgets the id of a message
\* once that has expired, and messages are delivered again at any time.
AcceptedOnce ==
  \A i, j \in DOMAIN accepted : accepted[i] = accepted[j] => i = j

\* The numbered messages a process accepts are accepted in the order of their
\* numbers, whatever order they arrive in and however many messages without a
\* number come between: no context is rolled back to a numbered one before it.
NumberedInOrder ==
  \A i, j \in DOMAIN accepted :
    /\ i < j
    /\ Content[accepted[i]].seq # 0 /\ Content[accepted[j]].seq # 0
    => Content[accepted[i]].seq < Content[accepted[j]].seq

\* A message that does not verify leaves no trace: it advances no number and
\* reserves no id, so that the genuine message of that id is still accepted.
OnlyAcceptedLeavesTrace ==
  /\ lastSeq = 0 \/ \E i \in DOMAIN accepted : lastSeq = Content[accepted[i]].seq
  /\ \A s \in seenMessageIds :
       \E i \in DOMAIN accepted : Content[accepted[i]].id = s.id

\* What any accepted message has revoked stays revoked as long as the process
\* runs, when the message has expired and when later contexts do not repeat it.
RevocationsStick ==
  \A i \in DOMAIN accepted : Content[accepted[i]].revocations \subseteq revoked

\* Each context message counts once, in its order, and for good in what it revokes;
\* one that is refused does not count.
ChannelSafe ==
  /\ ContextTypeOK /\ AcceptedOnce /\ NumberedInOrder
  /\ OnlyAcceptedLeavesTrace /\ RevocationsStick
=============================================================================
