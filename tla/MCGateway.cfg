SPECIFICATION Spec
CONSTANTS
  Profile = {P, Q}
  Alias = {a, b}
  Resource = {s1, s2}
  Gateway = {g, h}
  NoOne = NoOne
  Call = {c1, c2}
  MaxActions = 2
  first = first
  second = second
  unnumbered = unnumbered
  brief = brief
  forged = forged
  p1 = p1
  p2 = p2
  plan = plan
  Message = {first, second, unnumbered, brief, forged}
  PermitId = {p1, p2}
  Plan = {plan}
  Epoch = {1}
  Content <- MCContent
  NoContext = NoContext
  MaxTime = 4
  MaxBoots = 1
INVARIANTS RoutingSafe ReceiptsAreTrue DispatcherSafe ChannelSafe
PROPERTIES RoutedCallIsServed
CHECK_DEADLOCK FALSE
