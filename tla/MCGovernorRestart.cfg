SPECIFICATION Spec
CONSTANTS
  NoLease = NoLease
  LeaseTtl = 1
  FenceTtl = 1
  TabLimit = 1
  UseLimit = 1
  Lease = {l1}
  Fence = {f1}
  Action = {a1}
  Caller = {c1, c2}
  MaxEpoch = 3
  MaxGeneration = 2
SYMMETRY Symmetry
INVARIANTS ValidState NoResurrection
PROPERTIES IndeterminatePinsOwner ExternalProvenanceKept
