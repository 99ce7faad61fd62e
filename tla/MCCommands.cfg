\* The shadow loop: five pages, three sets of limits.  The launcher: two commands, two
\* ids of processes, three directories of which one begins with the path of another;
\* one Chrome or program that somebody starts, one command that dies.  The guard: up to
\* two profiles on the disk, one that appears meanwhile.
SPECIFICATION Spec
CONSTANTS
  Page <- MCPage
  Ref = {"r1", "r2"}
  Bounds <- MCBounds
  DEFAULT_MAX_STATE_BYTES = 2
  DEFAULT_TTL_MS = 1
  MaxContext = 1
  None = None
  MaxTime = 2
  MaxSteps = 1
  c1 = c1 c2 = c2 p1 = p1 p2 = p2
  Cmd = {c1, c2}
  Pid = {p1, p2}
  Dir = {"a", "a2", "e"}
  Managed = {"a", "a2"}
  Jobs <- MCJobs
  StartsWith <- MCStartsWith
  Left <- MCLeft
  Visitors = {"a2", "other"}
  MaxByHand = 1
  MaxDeaths = 1
  Torn = Torn
  NoProcess = NoProcess
  Word = {"x", "X", "y", "m:x", "m:X", "m:y", "m:w", "C:D", "webmcp"}
  Norm <- MCNorm
  Full <- MCFull
  NewId = {"m:w"}
  Sub = {"D", "P"}
  Disks <- MCDisks
  Newcomers <- MCNew
  Hints <- MCHints
  Asks <- MCAsks
  Webmcp = "webmcp"
  Default = "D"
  MaxNewcomers = 1
  Nothing = Nothing
  Broken = Broken
INVARIANTS StepsAreSound SessionsKept LaunchGuarded
PROPERTIES RecheckIsRight
CHECK_DEADLOCK FALSE
