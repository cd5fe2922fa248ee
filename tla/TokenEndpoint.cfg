SPECIFICATION EndpointSpec
CONSTANTS
  ann = ann
  bob = bob
  carl = carl
  ann_mail = ann_mail
  bob_name = bob_name
  carl_name = carl_name
  ghost = ghost
  Ips = {a1}
  Identifiers <- ThreeIdentifiers
  TicksPerSecond = 1
  WindowSeconds = 1
  IdentifierLimit = 1
  IpLimit = 2
  MaxEntries = 3
  MaxTime = 1
  MaxCount = 3
  Requests = {r1, r2, r3}
  Users <- ThreeUsers
  NoUser = NoUser
  UserOf <- IndexOfThree
  Active <- AnnCarlActive
  Malformed <- CarlMalformed
  Concurrency = 1
SYMMETRY Symmetry
INVARIANTS EndpointTypeOK PlacesConsistent TokensOnlyForProof
PROPERTIES LockoutLiftedByProof
