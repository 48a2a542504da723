CONSTANTS
  c1 = c1 c2 = c2 c3 = c3 h1 = h1 h2 = h2 h3 = h3
  Clients = {c1, c2, c3}
  MAXCOMP = 2
  Handles = {h1, h2, h3}
  Failures = {"dlopen", "dlsym", "malloc", "init", "callbacks"}
  NULL = NULL
SYMMETRY Interchangeable
SPECIFICATION Spec
INVARIANTS TypeOK MutexGuards SlotsAccounted HandlesInTable
