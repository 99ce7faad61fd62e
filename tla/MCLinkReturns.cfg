SPECIFICATION Spec
CONSTANTS
  Socket = {s1, s2}
  NoSocket = NoSocket
  Request = {r1}
  NoRequest = NoRequest
  MaxAnnouncing = 2
  MaxRestarts = 1
INVARIANTS
  AnnouncedIsRouted
PROPERTIES
  RequestsSettled
  ExtensionReturns
