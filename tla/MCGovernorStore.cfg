SPECIFICATION StoreSpec
CONSTANTS
  Process = {p1, p2, p3}
  MaxOpens = 2
  MaxCommits = 2
  Profile = {profile1, profile2}
  MaxEvents = 3
  MaxReceipts = 2
  MaxWritten = 9
INVARIANTS StateFileSafe JournalsSafe
PROPERTIES OpeningEnds
