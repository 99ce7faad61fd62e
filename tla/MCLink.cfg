SPECIFICATION Spec
CONSTANTS
  Socket = {s1, s2}
  NoSocket = NoSocket
  Request = {r1, r2}
  NoRequest = NoRequest
  MaxAnnouncing = 1
  MaxRestarts = 1
INVARIANTS
  LinkSafe
PROPERTIES
  ImplementsCommandService
