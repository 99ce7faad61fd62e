-------------------------- MODULE MCTrustedContext --------------------------
EXTENDS TrustedContext

CONSTANTS first, second, unnumbered, brief, forged, p1, p2, plan

\* Two numbered messages, one without a number, one whose ttl ends before it
\* expires and whose number is taken, and one that does not verify and carries
\* the id of another.
MCContent ==
  LET content(i, s, x, e, g, r) ==
        [id |-> i, seq |-> s, starts |-> IF i = second THEN 1 ELSE 0,
         expires |-> x, ends |-> e, genuine |-> g,
         plan |-> plan, epoch |-> 1, revocations |-> r]
  IN  [m \in Message |->
        CASE m = first      -> content(m, 1, 2, 2, TRUE, {p1})
          [] m = second     -> content(m, 2, 3, 3, TRUE, {})
          [] m = unnumbered -> content(m, 0, 1, 1, TRUE, {p2})
          [] m = brief      -> content(m, 2, 3, 1, TRUE, {p1, p2})
          [] m = forged     -> content(unnumbered, 9, 3, 3, FALSE, {p1})]
=============================================================================
