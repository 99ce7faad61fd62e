--------------------------- MODULE NetworkCapture ---------------------------
(***************************************************************************)
(* The network capture of one tab (bg/handlers/network-intercept.js): a    *)
(* session with patterns, the records of matching requests in a bounded    *)
(* buffer, and callers that wait for a response.  A URL is the set of      *)
(* patterns it contains.  Attaching and enabling are in DebuggerBridge.    *)
(***************************************************************************)
EXTENDS Integers, Sequences, FiniteSets

CONSTANTS
  Pattern, Req, Waiter,
  MAX_REQUESTS_PER_SESSION,
  None       \* no record, no match, no pattern

Record == [url : SUBSET Pattern, state : {"pending", "finished", "failed"},
           consumed : BOOLEAN, bodyReady : BOOLEAN]

ASSUME CaptureAssumption ==
  /\ MAX_REQUESTS_PER_SESSION \in Nat \ {0}
  /\ None \notin Record /\ None \notin Req /\ None \notin Pattern
  /\ Req \cap {"nothing", "waiting", "error"} = {}

VARIABLES
  patterns,   \* of the capture session; {}: there is no session
  requests,   \* the record of each request, None where there is none
  order,      \* the requests by arrival
  waiters,    \* the calls that wait for a response
  waitOrder,  \* their order: the pairs of an older and a newer one
  bodies,     \* requests of this session whose body is being fetched
  net,        \* the requests of the page: "unsent", "sent", "done"
  redirected, \* history: requests that were sent again after a redirection
  recorded,   \* history: the requests this session has recorded, in order
  outcome     \* what each waiting call has got, and for which pattern

waitVars == <<waiters, waitOrder, outcome>>
captureVars == <<patterns, requests, order, waitVars, bodies, net, redirected, recorded>>

NoRequests == [r \in Req |-> None]
Outcome == [got : Req \cup {"nothing", "waiting", "error"}, pattern : Pattern \cup {None}]

CaptureTypeOK ==
  /\ patterns \subseteq Pattern
  /\ requests \in [Req -> Record \cup {None}]
  /\ order \in Seq(Req) /\ Len(order) <= MAX_REQUESTS_PER_SESSION
  /\ waiters \subseteq Waiter /\ waitOrder \subseteq waiters \X waiters
  /\ patterns = {} => order = <<>> /\ bodies = {} /\ waiters = {}
  /\ bodies \subseteq Req /\ net \in [Req -> {"unsent", "sent", "done"}]
  /\ redirected \subseteq Req /\ recorded \in Seq(Req)
  /\ outcome \in [Waiter -> Outcome]

CaptureInit ==
  /\ patterns = {} /\ requests = NoRequests /\ order = <<>> /\ waiters = {} /\ waitOrder = {}
  /\ bodies = {} /\ redirected = {} /\ recorded = <<>>
  /\ net = [r \in Req |-> "unsent"]
  /\ outcome = [w \in Waiter |-> [got |-> "nothing", pattern |-> None]]

----------------------------------------------------------------------------
(* Helpers of the module *)

Ready(reqs, r, p) ==
  /\ reqs[r] # None /\ ~reqs[r].consumed
  /\ reqs[r].state \in {"finished", "failed"} /\ reqs[r].bodyReady
  /\ p \in reqs[r].url

\* Is r what the scan finds: the oldest ready record that matches, or None?
findReadyMatch(reqs, p, r) ==
  LET hits == {i \in DOMAIN order : Ready(reqs, order[i], p)}
  IN  \/ hits = {} /\ r = None
      \/ \E i \in hits : r = order[i] /\ \A k \in hits : i <= k

Consume(reqs, taken) ==
  [r \in Req |-> IF r \in taken /\ reqs[r] # None THEN [reqs[r] EXCEPT !.consumed = TRUE]
                 ELSE reqs[r]]

Newer(w) == {v \in waiters : <<w, v>> \in waitOrder}

\* The waiters left over, in their order.
Leave(left) == waiters' = left /\ waitOrder' = waitOrder \cap (left \X left)

\* The scan goes from the newest waiter to the oldest: each gets the oldest record
\* that is ready for it and was not got by a newer one.
notifyWaiters(reqs) ==
  \E got \in [waiters -> Req \cup {None}] :
    /\ \A w \in waiters :
         findReadyMatch(Consume(reqs, {got[v] : v \in Newer(w)}), outcome[w].pattern, got[w])
    /\ requests' = Consume(reqs, {got[w] : w \in waiters})
    /\ Leave({w \in waiters : got[w] = None})
    /\ outcome' = [w \in Waiter |-> IF w \in waiters /\ got[w] # None
                                    THEN [outcome[w] EXCEPT !.got = got[w]] ELSE outcome[w]]

evictIfNeeded(reqs, all) ==
  IF Len(all) > MAX_REQUESTS_PER_SESSION
  THEN order' = Tail(all) /\ requests' = [reqs EXCEPT ![Head(all)] = None]
  ELSE order' = all /\ requests' = reqs

\* The places in the order whose records getCapturedRequests returns: of those that
\* contain p, or of all for None, the oldest up to the limit; the limit is looked at
\* after a record is taken.
getCapturedRequests(p, limit) ==
  LET hits == {i \in DOMAIN order : requests[order[i]] # None
                                      /\ (p = None \/ p \in requests[order[i]].url)}
      Earlier(i) == {k \in hits : k < i}
  IN  {i \in hits : Earlier(i) = {} \/ Cardinality(Earlier(i)) < limit}

----------------------------------------------------------------------------
(* Commands *)

\* startNetworkCapture, after its awaits: a pattern is added, the session kept.
CaptureStarts(p) ==
  /\ patterns' = patterns \cup {p}
  /\ recorded' = (IF patterns = {} THEN <<>> ELSE recorded)
  /\ UNCHANGED <<requests, order, waitVars, bodies, net, redirected>>

\* Without a session nothing is heard and nobody waits.  A body that is still
\* being fetched belongs to the session that is gone.
TearDown ==
  /\ patterns' = {} /\ requests' = NoRequests /\ order' = <<>> /\ bodies' = {}
  /\ outcome' = [w \in Waiter |-> IF w \in waiters THEN [outcome[w] EXCEPT !.got = "error"]
                                  ELSE outcome[w]]
  /\ Leave({})
  /\ UNCHANGED <<net, redirected, recorded>>

CaptureStops(p) ==
  /\ patterns # {}
  /\ \/ /\ \E q \in patterns : patterns # {q}
        /\ patterns' = patterns \ {p}
        /\ UNCHANGED <<requests, order, waitVars, bodies, net, redirected, recorded>>
     \/ /\ \E q \in patterns : patterns = {q}
        /\ TearDown

cleanupNetworkSession == patterns # {} /\ TearDown

\* Mutant: a response that is there already is not marked as consumed.
WaitWithoutConsuming(w, p) ==
  /\ patterns # {} /\ outcome[w].got # "waiting"
  /\ \E r \in Req \cup {None} :
       /\ findReadyMatch(requests, p, r) /\ UNCHANGED requests
       /\ IF r # None
          THEN /\ outcome' = [outcome EXCEPT ![w] = [got |-> r, pattern |-> p]]
               /\ UNCHANGED <<waiters, waitOrder>>
          ELSE /\ waiters' = waiters \cup {w} /\ waitOrder' = waitOrder \cup (waiters \X {w})
               /\ outcome' = [outcome EXCEPT ![w] = [got |-> "waiting", pattern |-> p]]
  /\ UNCHANGED <<patterns, order, bodies, net, redirected, recorded>>

waitForNetworkResponse(w, p) ==
  /\ patterns # {} /\ outcome[w].got # "waiting"
  /\ \E r \in Req \cup {None} :
       /\ findReadyMatch(requests, p, r)
       /\ IF r # None
          THEN /\ requests' = Consume(requests, {r})
               /\ outcome' = [outcome EXCEPT ![w] = [got |-> r, pattern |-> p]]
               /\ UNCHANGED <<waiters, waitOrder>>
          ELSE /\ waiters' = waiters \cup {w} /\ waitOrder' = waitOrder \cup (waiters \X {w})
               /\ outcome' = [outcome EXCEPT ![w] = [got |-> "waiting", pattern |-> p]]
               /\ UNCHANGED requests
  /\ UNCHANGED <<patterns, order, bodies, net, redirected, recorded>>

waitTimer(w) ==
  /\ outcome[w].got = "waiting"
  /\ Leave(waiters \ {w})
  /\ outcome' = [outcome EXCEPT ![w].got = "error"]
  /\ UNCHANGED <<patterns, requests, order, bodies, net, redirected, recorded>>

----------------------------------------------------------------------------
(* Events of the page *)

\* A request is sent, or sent again with the same number after a redirection:
\* its record is replaced and its number entered a second time.
requestWillBeSent(r, url) ==
  /\ \/ net[r] = "unsent" /\ UNCHANGED redirected
     \/ net[r] = "sent" /\ r \notin redirected /\ redirected' = redirected \cup {r}
  /\ net' = [net EXCEPT ![r] = "sent"]
  /\ IF url \cap patterns # {}
     THEN /\ evictIfNeeded([requests EXCEPT ![r] =
                              [url |-> url, state |-> "pending",
                               consumed |-> FALSE, bodyReady |-> FALSE]],
                           Append(order, r))
          /\ recorded' = Append(recorded, r)
     ELSE UNCHANGED <<requests, order, recorded>>
  /\ UNCHANGED <<patterns, waitVars, bodies>>

Known(r) == requests[r] # None

\* loadingFinished begins captureBody.
loadingFinished(r) ==
  /\ net[r] = "sent" /\ net' = [net EXCEPT ![r] = "done"]
  /\ IF Known(r)
     THEN /\ requests' = [requests EXCEPT ![r].state = "finished"]
          /\ bodies' = bodies \cup {r}
     ELSE UNCHANGED <<requests, bodies>>
  /\ UNCHANGED <<patterns, order, waitVars, redirected, recorded>>

\* The body has come, or there is none; the record may have been evicted.
captureBody(r) ==
  /\ r \in bodies /\ bodies' = bodies \ {r}
  /\ notifyWaiters(IF Known(r) THEN [requests EXCEPT ![r].bodyReady = TRUE] ELSE requests)
  /\ UNCHANGED <<patterns, order, net, redirected, recorded>>

WithFailure(r) == [requests EXCEPT ![r].state = "failed", ![r].bodyReady = TRUE]

\* Mutant: a failed request wakes nobody.
FailedSilently(r) ==
  /\ net[r] = "sent" /\ net' = [net EXCEPT ![r] = "done"]
  /\ requests' = IF Known(r) THEN WithFailure(r) ELSE requests
  /\ UNCHANGED <<patterns, order, waitVars, bodies, redirected, recorded>>

loadingFailed(r) ==
  /\ net[r] = "sent" /\ net' = [net EXCEPT ![r] = "done"]
  /\ IF Known(r) THEN notifyWaiters(WithFailure(r)) ELSE UNCHANGED <<requests, waitVars>>
  /\ UNCHANGED <<patterns, order, bodies, redirected, recorded>>

----------------------------------------------------------------------------

CaptureNext ==
  \/ \E p \in Pattern :
       \/ CaptureStarts(p) \/ CaptureStops(p)
       \/ \E w \in Waiter : waitForNetworkResponse(w, p)
  \/ \E r \in Req : \/ \E url \in SUBSET Pattern : requestWillBeSent(r, url)
                    \/ loadingFinished(r) \/ captureBody(r) \/ loadingFailed(r)
  \/ \E w \in Waiter : waitTimer(w)
  \/ cleanupNetworkSession

\* Every waiter has a timer; the page promises nothing.
CaptureFairness == \A w \in Waiter : WF_captureVars(waitTimer(w))

CaptureSpec == CaptureInit /\ [][CaptureNext]_captureVars /\ CaptureFairness

----------------------------------------------------------------------------
(* Properties *)

\* Nobody waits for what is there: a caller that waits is known to the session,
\* which has no response ready for it, whatever was evicted, stopped or detached.
NoForgottenWaiter ==
  \A w \in Waiter : outcome[w].got = "waiting" =>
    /\ patterns # {} /\ w \in waiters
    /\ findReadyMatch(requests, outcome[w].pattern, None)

Gets(w, r) == outcome'[w].got = r /\ outcome[w].got # r

\* "Consume semantics": a response goes to one call, also when one event wakes
\* several; a later call gets another.
ConsumedOnce ==
  [][\A w \in Waiter, r \in Req : Gets(w, r) =>
       /\ ~requests[r].consumed /\ requests'[r].consumed
       /\ \A v \in Waiter : Gets(v, r) => v = w]_captureVars

\* Unless a request was redirected, whose second entry makes room twice, the session
\* holds the last requests it has recorded.  A call lists them from the oldest on and
\* stops at its limit: below the number held (300 at most, the limit is 100 unless
\* given) it is the newest that are missing; a pattern leaves out only the others.
RecentRequestsHeld ==
  patterns # {} /\ redirected = {} =>
    /\ order = SubSeq(recorded,
                 IF Len(recorded) > MAX_REQUESTS_PER_SESSION
                 THEN Len(recorded) - MAX_REQUESTS_PER_SESSION + 1 ELSE 1, Len(recorded))
    /\ \A limit \in 1 .. MAX_REQUESTS_PER_SESSION :
         getCapturedRequests(None, limit) = 1 .. (IF Len(order) < limit THEN Len(order) ELSE limit)
    /\ \A p \in Pattern :
         getCapturedRequests(p, MAX_REQUESTS_PER_SESSION)
           = {i \in DOMAIN order : p \in requests[order[i]].url}

\* A call that waits gets an answer or an error.
WaitersEnd == \A w \in Waiter : outcome[w].got = "waiting" ~> outcome[w].got # "waiting"

\* A network capture holds what came last, lists the oldest of it up to the limit of
\* the call, and keeps nobody waiting for it.
CaptureSafe == CaptureTypeOK /\ NoForgottenWaiter /\ RecentRequestsHeld

\* A call that waits is answered, and no two calls with the same response.
WaitersServed == WaitersEnd /\ ConsumedOnce
=============================================================================
