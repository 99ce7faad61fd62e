\* One tab: two commands at once out of each workload, a navigation, another
\* debugger, detachments, a Chrome that may hang.
SPECIFICATION BridgeSpec
CONSTANTS
  Call = {c1, c2}
  Workloads = {{"frame", "detach"}, {"main"}, {"consoleStart", "consoleStop", "detach"},
               {"networkStart", "networkStop", "evaluate"}, {"viewport", "resetViewport"}}
  MaxDoc = 2
  MaxSent = 2
INVARIANTS MemoryIsTrue WorldIsCurrent
PROPERTIES IdleSparesCaptures CommandsEnd
