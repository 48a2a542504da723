CONSTANTS
  h1 = h1 h2 = h2 h3 = h3 h4 = h4 r1 = r1 r2 = r2 r3 = r3
  m1 = m1 m2 = m2 m3 = m3 m4 = m4
  MAX = 3
  Headers = {h1, h2, h3}
  Remotes = {r1, r2, r3}
  Memory = {m1, m2}
  NULL = NULL
  MetaData = {TRUE}
  MaxFaults = 1
SYMMETRY Interchangeable
SPECIFICATION Spec
INVARIANTS TypeOK SlotTable NothingLeaks SpotHoldsOwnMemory DoneFindsHeader HeadersOwned
