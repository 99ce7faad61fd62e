\* The network capture: two waiters and two requests, one of them redirected, or three
\* requests and no waiter, and a limit of two records.  The console capture: a limit
\* of two messages out of five.  The batch: up to three actions, two tabs.  The
\* frames: two below the main frame, one change of the page during a call.
SPECIFICATION Spec
CONSTANTS
  Pattern = {p, q}
  Req = {r1, r2, r3}
  r1 = r1
  r3 = r3
  Waiter = {w1, w2}
  MAX_REQUESTS_PER_SESSION = 2
  None = None
  Level = {"log", "error"}
  MAX_MESSAGES_PER_SESSION = 2
  MaxId = 5
  NoConsole = NoConsole
  Tab = {t1, t2}
  NoTab = NoTab
  MaxActions = 3
  f1 = f1
  n1 = n1
  Frame = {f1, f2}
  Top = Top
  Url = {u, Blank}
  Blank = Blank
  NoUrl = NoUrl
  FrameName = {n1}
  NoFrame = NoFrame
  Specs <- MCSpecs
  MaxChanges = 1
INVARIANTS CaptureSafe ConsoleSafe BatchSafe FramesSafe
PROPERTIES WaitersServed RunBatchEnds
\* A batch that is over is done.
CHECK_DEADLOCK FALSE
