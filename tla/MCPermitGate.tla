---------------------------- MODULE MCPermitGate ----------------------------
EXTENDS PermitGate, TLC

CONSTANTS r1, r2, m1, m2, p1, p2, n1, n2, n3, single, again, durable, f1, f2, planA, planB

\* The second context is for another plan, or revokes the first permit.
MCContent ==
  LET content(m, s, e, pl, r) ==
        [id |-> m, seq |-> s, starts |-> 0, expires |-> e, ends |-> e, genuine |-> TRUE,
         plan |-> pl, epoch |-> 1, revocations |-> r]
  IN  [m \in Message |-> IF m = m1 THEN content(m, 1, 2, planA, {})
                                   ELSE content(m, 2, 2, planB, {p1})]

\* Two permits of one id, the later one with a larger budget, and a durable one.
MCDocument ==
  LET document(i, n, c, e, d) ==
        [id |-> i, nonce |-> n, maxCalls |-> c, expires |-> e, plan |-> planA, durable |-> d]
  IN  [p \in Permit |-> CASE p = single  -> document(p1, n1, 2, 1, FALSE)
                          [] p = again   -> document(p1, n2, 3, 1, FALSE)
                          [] p = durable -> document(p2, n3, 3, 0, TRUE)]

RequestSymmetry == Permutations(Request)

MCEpochOf == [f \in Proof |-> IF f = f1 THEN 1 ELSE 2]

ask(p, n, w, f) == [permit |-> p, calls |-> n, writes |-> w, proof |-> f, known |-> TRUE]

\* The durable batch writes more often than the governor allows one proof.
MCAsk ==
  {ask(single, 1, 1, f1), ask(again, 2, 1, f1), ask(durable, 3, 2, f1),
   [ask(durable, 1, 1, NoProof) EXCEPT !.known = FALSE]}
=============================================================================
