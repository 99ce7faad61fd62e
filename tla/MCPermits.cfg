SPECIFICATION Spec
CONSTANTS
  m1 = m1
  m2 = m2
  p1 = p1
  p2 = p2
  n1 = n1
  n2 = n2
  n3 = n3
  single = single
  again = again
  durable = durable
  f1 = f1
  f2 = f2
  planA = planA
  planB = planB
  r1 = r1
  r2 = r2
  Message = {m1, m2}
  PermitId = {p1, p2}
  Plan = {planA, planB}
  Epoch = {1, 2}
  Content <- MCContent
  NoContext = NoContext
  MaxTime = 1
  MaxBoots = 1
  Request = {r1, r2}
  Permit = {single, again, durable}
  Document <- MCDocument
  Nonce = {n1, n2, n3}
  Proof = {f1}
  NoProof = NoProof
  EpochOf <- MCEpochOf
  MaxUses = 2
  FenceModes = {"enforce", "observe"}
  Skew = 0
  Ask <- MCAsk
  MaxCalls = 3
  NoJob = NoJob
SYMMETRY RequestSymmetry
INVARIANTS NonceForwardedOnceUnlessObserved AllowancesKept
PROPERTIES RevokedNotForwarded DenialSpendsNothing
CHECK_DEADLOCK FALSE
