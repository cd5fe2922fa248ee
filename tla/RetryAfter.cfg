SPECIFICATION WaitingSpec
CONSTANTS
  Ips = {a1, a2, a3}
  Identifiers = {u1, u2}
  TicksPerSecond = 2
  WindowSeconds = 2
  IdentifierLimit = 1
  IpLimit = 2
  MaxEntries = 3
  MaxTime = 8
  MaxCount = 3
SYMMETRY Symmetry
INVARIANTS TypeOK SizeBound AgeOrder RetryAfterIsHonest
PROPERTIES WindowNeverMoves ForgottenForCause
