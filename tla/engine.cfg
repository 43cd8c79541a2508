\* Two connections, a pool of two contexts, three requests of eleven kinds, in
\* each of the servers; debug build.
SPECIFICATION FairSpec
CONSTANTS
  Conns = {c1, c2}
  Handlers <- MCHandlers
  Upstream = {0, 404}
  BlockingPanics = TRUE
  None = None
  PoolSize = 2
  MaxRequests = 3
INVARIANTS
  DeliveredOnce
  DirectIsOwn
  HandlerCalledOnce
PROPERTY
  EveryRequestEnds
