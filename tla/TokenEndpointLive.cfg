SPECIFICATION EndpointSpec
CONSTANTS
  ann = ann
  bob = bob
  carl = carl
  ann_mail = ann_mail
  bob_name = bob_name
  carl_name = carl_name
  ghost = ghost
  Ips = {a1, a2}
  Identifiers <- FourIdentifiers
  TicksPerSecond = 1
  WindowSeconds = 1
  IdentifierLimit = 1
  IpLimit = 2
  MaxEntries = 2
  MaxTime = 0
  MaxCount = 3
  Requests = {r1, r2}
  Users <- ThreeUsers
  NoUser = NoUser
  UserOf <- IndexOfFour
  Active <- AnnCarlActive
  Malformed <- CarlMalformed
  Concurrency = 1
INVARIANTS WorkMatchesAnswer
PROPERTIES EventuallyAnswered
