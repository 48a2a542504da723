CONSTANTS
  c1 = c1 c2 = c2 c3 = c3 p1 = p1 p2 = p2 p3 = p3 p4 = p4
  Callers = {c1, c2}
  NFxns = 2
  TUNNEL = 9
  CallerFxns <- SharedFxns
  Packets = {p1, p2, p3}
  NULL = NULL
  ErrorPacket = ErrorPacket
  TransientFaults = FALSE
  MaxCalls = 2
  MaxCallbacks = 0
SYMMETRY Interchangeable
SPECIFICATION Spec
INVARIANTS TypeOK PacketOwnership NothingLost OwnAnswer
CHECK_DEADLOCK FALSE
