----------------------- MODULE CoordinatorDispatcher -----------------------
(***************************************************************************)
(* The coordinator's bridge between a worker and the gateway               *)
(* (server/gateway/coordinator-dispatcher.mjs): a request is validated,    *)
(* the coordinator adds permit, profile, origin and token, posts it,       *)
(* checks the answer, and tells the receipt handler of it.  Each of its    *)
(* calls is one call of ExecutionReceipts, a single command.               *)
(***************************************************************************)
EXTENDS ExecutionReceipts

VARIABLES
  dispatch,  \* how far each dispatch is
  ended,     \* what the worker got: "none", "result" or "error"
  handled    \* what the receipt handler was told, in order

dispatchVars == <<dispatch, ended, handled>>

\* ok with a receipt, a refusal with the receipts of the answer, or neither.
Notice == {"applied", "refused", "nothing"}

DispatchTypeOK ==
  /\ dispatch \in [Call -> {"new", "permit", "providers", "posted", "read", "handling",
                            "notifying", "done", "rejected", "direct"}]
  /\ ended \in [Call -> {"none", "result", "error"}]
  /\ \A c \in Call : handled[c] \in Seq(Notice) /\ Len(handled[c]) <= 1

DispatchInit ==
  /\ ReceiptsInit
  /\ dispatch = [c \in Call |-> "new"] /\ ended = [c \in Call |-> "none"]
  /\ handled = [c \in Call |-> <<>>]

To(c, next)   == dispatch' = [dispatch EXCEPT ![c] = next]
Ends(c, what) == To(c, "done") /\ ended' = [ended EXCEPT ![c] = what]
Tell(c, what) == handled' = [handled EXCEPT ![c] = Append(@, what)]

\* Another client of the gateway posts its call itself.
Direct(c) ==
  /\ dispatch[c] = "new" /\ To(c, "direct") /\ \E asked \in Asked : Post(c, asked)
  /\ UNCHANGED <<ended, handled>>

Rejects(c) == To(c, "rejected") /\ ended' = [ended EXCEPT ![c] = "error"]

\* Before there is a permit a failure is the worker's alone.
validateRequest(c) ==
  /\ dispatch[c] = "new"
  /\ \/ To(c, "permit") /\ UNCHANGED ended
     \/ Rejects(c)
  /\ UNCHANGED <<handled, receiptsVars>>

permitProvider(c) ==
  /\ dispatch[c] = "permit"
  /\ \/ To(c, "providers") /\ UNCHANGED ended
     \/ Rejects(c)
  /\ UNCHANGED <<handled, receiptsVars>>

\* The alias, origin and token providers; the command is posted.
Provide(c) ==
  /\ dispatch[c] = "providers"
  /\ \/ To(c, "posted") /\ Post(c, [batch |-> FALSE, n |-> 1, stop |-> FALSE])
     \/ To(c, "notifying") /\ UNCHANGED receiptsVars
  /\ UNCHANGED <<ended, handled>>

\* fetch fails: the gateway has ended, or the connection to it.
fetchFails(c) ==
  /\ dispatch[c] = "posted" /\ To(c, "notifying")
  /\ UNCHANGED <<ended, handled, receiptsVars>>

readGatewayPayload(c) ==
  /\ dispatch[c] = "posted" /\ calls[c].phase = "answered" /\ To(c, "read")
  /\ UNCHANGED <<ended, handled, receiptsVars>>

\* A refusal goes to the handler with its receipt, a result with its own if it is
\* safe and has one; a result that is not safe is as good as none.
Handle(c) ==
  /\ dispatch[c] = "read"
  /\ \/ ~calls[c].ok /\ To(c, "handling") /\ Tell(c, "refused")
     \/ calls[c].ok /\ calls[c].receipts # {} /\ To(c, "handling") /\ Tell(c, "applied")
     \/ calls[c].ok /\ To(c, "notifying") /\ UNCHANGED handled
  /\ UNCHANGED <<ended, receiptsVars>>

\* The handler accepts, and a result is the worker's; or it rejects, and is not
\* told again.
Handled(c) ==
  /\ dispatch[c] = "handling"
  /\ \/ Head(handled[c]) = "applied" /\ Ends(c, "result")
     \/ Ends(c, "error")
  /\ UNCHANGED <<handled, receiptsVars>>

\* Mutant: without a receipt to show nobody is told.
NotifyNobody(c) ==
  /\ dispatch[c] = "notifying" /\ Ends(c, "error")
  /\ UNCHANGED <<handled, receiptsVars>>

\* Whatever the handler does now, the dispatch fails.
notifyFailure(c) ==
  /\ dispatch[c] = "notifying" /\ Tell(c, "nothing") /\ Ends(c, "error")
  /\ UNCHANGED receiptsVars

DispatchNext ==
  \/ \E c \in Call :
       \/ validateRequest(c) \/ permitProvider(c) \/ Provide(c) \/ fetchFails(c)
       \/ readGatewayPayload(c) \/ Handle(c) \/ Handled(c) \/ notifyFailure(c)
       \/ Direct(c)
  \/ Handling /\ UNCHANGED dispatchVars

DispatchSpec == DispatchInit /\ [][DispatchNext]_<<receiptsVars, dispatchVars>>

----------------------------------------------------------------------------
(* Properties *)

\* Whatever took effect for the worker, and every dispatch that had a permit, the
\* handler has been told of when the dispatch is over.
HandlerTold ==
  \A c \in Call : dispatch[c] \in {"done", "rejected"} /\ (dispatch[c] = "done" \/ did[c] # {})
    => handled[c] # <<>>

\* The worker has a result only when the handler was told of it with its receipt, and
\* the command took effect; of the latter there is no telling when the gateway had
\* started again and sent the command under a number that was still in use.
ResultsAreCertified ==
  \A c \in Call : ended[c] = "result" =>
    handled[c] = <<"applied">> /\ (c \in reused \/ did[c] = {1})

\* The handler is never shown a receipt that says too little: a refusal whose
\* receipt is "blocked" had no effect.
ShownReceiptsAreTrue ==
  \A c \in Call : handled[c] = <<"refused">> /\ did[c] # {} =>
    \A r \in calls[c].receipts : r.attempt = "attempted"

\* The receipt handler is told of every dispatch, truly, and before the worker.
DispatcherSafe ==
  DispatchTypeOK /\ HandlerTold /\ ResultsAreCertified /\ ShownReceiptsAreTrue
=============================================================================
