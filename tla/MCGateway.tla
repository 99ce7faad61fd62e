------------------------------ MODULE MCGateway ------------------------------
(***************************************************************************)
(* Three parts of the gateway that share no state, in one run: a behaviour *)
(* is one of one of them, and the others rest.                             *)
(***************************************************************************)
EXTENDS ProfileRouting, CoordinatorDispatcher, MCTrustedContext

VARIABLE part

RoutingRests == routes = [i \in Id |-> NoOne] /\ links = {} /\ context = Unbound /\ job = NoJob

Init ==
  /\ part \in {"routing", "dispatch", "channel"}
  /\ IF part = "routing" THEN RoutingInit ELSE RoutingRests
  /\ DispatchInit /\ ContextInit

Next ==
  /\ UNCHANGED part
  /\ \/ part = "routing"  /\ RoutingNext  /\ UNCHANGED <<receiptsVars, dispatchVars, contextVars>>
     \/ part = "dispatch" /\ DispatchNext /\ UNCHANGED <<routingVars, contextVars>>
     \/ part = "channel"  /\ ContextNext  /\ UNCHANGED <<routingVars, receiptsVars, dispatchVars>>

Spec == Init /\ [][Next]_<<part, routingVars, receiptsVars, dispatchVars, contextVars>>
=============================================================================
