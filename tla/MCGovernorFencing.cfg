SPECIFICATION Spec
CONSTANTS
  NoLease = NoLease
  LeaseTtl = 1
  FenceTtl = 1
  TabLimit = 1
  UseLimit = 1
  Lease = {l1, l2}
  Fence = {f1}
  Action = {}
  Caller = {c1, c2}
  MaxEpoch = 2
  MaxGeneration = 1
SYMMETRY Symmetry
INVARIANTS TypeOK EpochsSeparateOwners
PROPERTIES ImplementsFencedOwnership
