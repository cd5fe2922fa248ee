SPECIFICATION LedgerSpec
CONSTANTS
  Ips = {a1, a2}
  Identifiers = {u1, u2}
  TicksPerSecond = 1
  WindowSeconds = 3
  IdentifierLimit = 1
  IpLimit = 2
  MaxEntries = 3
  MaxTime = 5
  MaxCount = 3
SYMMETRY Symmetry
INVARIANTS SlidingBound
PROPERTIES ImplementsFixedWindow
