--------------------------- MODULE ProfileRouting ---------------------------
(***************************************************************************)
(* To which browser profile a call of POST /api goes when several are      *)
(* connected (server/gateway_server.js): the route map read at start       *)
(* (server/gateway/dispatcher-route-resolver.mjs), the target picked when  *)
(* the call arrives, the identity the verifier compares after its awaits,  *)
(* and the second look before the call is sent.  The runtime enforces.     *)
(* One call at a time: calls meet only in PermitGate and GatewayServer.    *)
(***************************************************************************)
CONSTANTS
  Profile,   \* physical profile ids, the keys of extensions
  Alias,     \* logical names
  Resource, Gateway,
  NoOne

ASSUME RoutingAssumption == Profile \cap Alias = {} /\ NoOne \notin Profile \cup Alias

Id       == Profile \cup Alias \cup {NoOne}
Identity == [profileAlias : Alias, profileId : Id]
Unbound == [profileAlias |-> NoOne, profileId |-> NoOne]
\* A durable permit names no profile, but may carry the digest of one.
Permit   == [profileAlias : Alias, profileId : Id, durable : {FALSE}, digest : {NoOne}]
            \cup [profileAlias : Alias, profileId : {NoOne}, durable : {TRUE},
                  digest : Profile \cup {NoOne}]

VARIABLES
  routes,   \* the route map of the runtime
  links,    \* profiles with an open socket
  context,  \* the trusted context in force
  job       \* the call

routingVars == <<routes, links, context, job>>

\* No call has come yet.
NoJob == [phase |-> "none"]

RoutingTypeOK ==
  /\ routes \in [Id -> Profile \cup {NoOne}] /\ links \subseteq Profile
  /\ context \in Identity \cup {Unbound}
  /\ job = NoJob \/
       /\ job \in [phase : {"judging", "noTarget", "denied", "sent"}, asked : Id, permit : Permit,
                   trusted : Id, target : Profile \cup {NoOne}, effective : Id,
                   judgedBy : Identity \cup {Unbound}]
       /\ job.phase \in {"judging", "sent"} => job.target # NoOne

----------------------------------------------------------------------------
(* The route map *)

\* An alias is routed when its binding is enabled and reviewed, its resource
\* enabled, and the projection of the resource's gateway, and of no other, has it.
Routed(c, a) ==
  LET b == c.binding[a]
      r == c.resource[b.resource]
  IN /\ b.enabled /\ b.approved /\ r.enabled
     /\ c.gateways[r.gateway][a] = r.profile
     /\ \A g \in Gateway \ {r.gateway} : c.gateways[g][a] = NoOne

buildRouteMapFromRaw(c) ==
  [i \in Id |-> IF i \in Alias /\ Routed(c, i) THEN c.resource[c.binding[i].resource].profile
                ELSE NoOne]

Config ==
  [binding  : [Alias -> [enabled : BOOLEAN, approved : BOOLEAN, resource : Resource]],
   resource : [Resource -> [enabled : BOOLEAN, profile : Profile, gateway : Gateway]],
   gateways : [Gateway -> [Alias -> Profile \cup {NoOne}]]]

RoutingInit ==
  /\ \E c \in Config : routes = buildRouteMapFromRaw(c)
  /\ links = {} /\ context = Unbound /\ job = NoJob

----------------------------------------------------------------------------
(* resolveTarget: the profile, or NoOne for one of its errors *)

Open(p) == IF p \in links THEN p ELSE NoOne

Sole == IF \E p \in links : links = {p} THEN CHOOSE p \in links : TRUE ELSE NoOne

\* Mutant: a logical name is looked up like a profile.
HintedDirectly(id, hints, trusted) ==
  IF id \in trusted \cup hints THEN Open(id)
  ELSE IF \E h \in hints : routes[h] = id THEN Open(id) ELSE NoOne

\* With logical hints, a physical id counts only if the context names it or a hint
\* is routed to it, and a hint only by its route.
Hinted(id, hints, trusted) ==
  IF id \in trusted THEN Open(id)
  ELSE IF id \in hints THEN Open(routes[id])
  ELSE IF \E h \in hints : routes[h] = id THEN Open(id) ELSE NoOne

resolveTarget(id, hints, trusted) ==
  IF id = NoOne THEN Sole
  ELSE IF hints # {} THEN Hinted(id, hints, trusted)
  ELSE IF id \in links THEN id ELSE Open(routes[id])

resolveEffectiveTargetForTrusted(id) ==
  IF routes[id] \in links THEN routes[id] ELSE resolveTarget(id, {}, {})

----------------------------------------------------------------------------
(* The verifier's comparison of identities *)

Named(x) == {x.profileAlias, x.profileId} \ {NoOne}

_isPhysicalRouteAllowed(id, ctx, permit) ==
  id # NoOne /\ \E l \in Named(ctx) \cup Named(permit) : routes[l] = id

\* One name of x differs from id, and the other is not id either.
Denies(x, id) == \E n \in Named(x) : n # id /\ id \notin Named(x)

\* Mutant: only the permit and the context are compared.
BoundByPaper(id, ctx, permit) ==
  permit.durable \/ ctx = Unbound \/
    /\ permit.profileAlias = ctx.profileAlias
    /\ NoOne \in {permit.profileId, ctx.profileId} \/ permit.profileId = ctx.profileId

ProfileBound(id, ctx, permit) ==
  LET c == IF permit.durable THEN Unbound ELSE ctx
  IN /\ c # Unbound =>
          /\ permit.profileAlias = c.profileAlias
          /\ NoOne \in {permit.profileId, c.profileId} \/ permit.profileId = c.profileId
     /\ id = NoOne \/ ~(Denies(c, id) \/ Denies(permit, id)) \/ _isPhysicalRouteAllowed(id, c, permit)

----------------------------------------------------------------------------
(* The call *)

Crowd == \E p \in links : links # {p}

DigestFits(permit, target) == permit.digest \in {NoOne, target}

Arrive(asked, permit) ==
  /\ job = NoJob
  /\ LET trusted == IF permit.durable THEN NoOne ELSE context.profileId
         ruled   == trusted # NoOne /\ Crowd
         target  == resolveTarget(IF ruled THEN trusted ELSE asked,
                                  {context.profileAlias, permit.profileAlias} \ {NoOne},
                                  {trusted} \ {NoOne})
         phase   == IF target = NoOne THEN "noTarget"
                    ELSE IF DigestFits(permit, target) THEN "judging" ELSE "denied"
         named   == IF ruled THEN trusted ELSE IF asked # NoOne THEN asked ELSE target
     IN job' = [phase |-> phase, asked |-> asked, permit |-> permit, trusted |-> trusted,
                target |-> target, effective |-> named, judgedBy |-> Unbound]
  /\ UNCHANGED <<routes, links, context>>

\* The permit's other layers may refuse as well: PermitGate.
Denied == job.phase = "judging" /\ job' = [job EXCEPT !.phase = "denied"]
          /\ UNCHANGED <<routes, links, context>>

\* The verifier has agreed; with several profiles the trusted one is looked up again.
Judged ==
  /\ job.phase = "judging"
  /\ context # Unbound \/ job.permit.durable
  /\ ProfileBound(job.effective, context, job.permit)
  /\ LET again == resolveEffectiveTargetForTrusted(job.trusted)
         sent  == [job EXCEPT !.phase = "sent", !.judgedBy = context]
     IN job' = IF job.trusted = NoOne \/ ~Crowd THEN sent
               ELSE IF again = NoOne THEN [job EXCEPT !.phase = "noTarget"]
               ELSE [sent EXCEPT !.target = again, !.effective = job.trusted]
  /\ UNCHANGED <<routes, links, context>>

Connects(p)    == p \notin links /\ links' = links \cup {p} /\ UNCHANGED <<routes, context, job>>
Disconnects(p) == p \in links /\ links' = links \ {p} /\ UNCHANGED <<routes, context, job>>

\* The channel accepts, expires or drops a context.
ContextChanges(c) == context' = c /\ context # c /\ UNCHANGED <<routes, links, job>>

RoutingNext ==
  \/ \E asked \in Id, permit \in Permit : Arrive(asked, permit)
  \/ Denied \/ Judged
  \/ \E p \in Profile : Connects(p) \/ Disconnects(p)
  \/ \E c \in Identity \cup {Unbound} : ContextChanges(c)

RoutingSpec == RoutingInit /\ [][RoutingNext]_routingVars

----------------------------------------------------------------------------
(* Properties *)

\* A call is sent to a profile that its permit means, or the context it was judged
\* by: one they name, or the route of a name of theirs.  Links and contexts may
\* change at any moment; only a call during which the context was replaced may go
\* where the context of its arrival meant it to.
GoesWherePermitted ==
  job.phase = "sent" =>
    LET names == Named(job.permit)
                 \cup (IF job.permit.durable THEN {} ELSE Named(job.judgedBy) \cup {job.trusted})
    IN job.target \in names \cup {routes[n] : n \in names}

\* A call that names the alias of its permit finds its target while the profile of
\* that alias is connected, whoever else is, unless the context means another.
RoutedCallIsServed ==
  [][job'.phase = "noTarget" /\ job.phase # "noTarget" =>
       LET p == routes[job'.permit.profileAlias]
       IN p \notin links \/ job'.asked # job'.permit.profileAlias
          \/ job'.trusted \notin {NoOne, p}]_routingVars

\* A durable permit with a digest is served by the profile of that digest only.
DigestBinds == job.phase = "sent" /\ job.permit.digest # NoOne => job.target = job.permit.digest

\* A call goes to a profile it is permitted for, or nowhere.
RoutingSafe == RoutingTypeOK /\ GoesWherePermitted /\ DigestBinds
=============================================================================
