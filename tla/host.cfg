\* Two threads, two scripts, four requests, one warm context per runtime.
SPECIFICATION HostSpec
CONSTANTS
  Threads = {t1, t2}
  Scripts = {s1, s2}
  Hashes = {h1, h2}
  None = None
  MaxCalls = 4
  Handlers <- MCHandlers
  MaxPool = 1
SYMMETRY Symmetry
INVARIANTS
  ReturnsOwnRuntime
  ContextExclusive
  PoolKept
  RepliesIsolated
