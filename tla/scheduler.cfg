\* Two threads and a task, three agents of two awaits, one I/O result
\* delivered again.
SPECIFICATION FairSpec
CONSTANTS
  Threads = {t1, t2}
  Tasks = {k1}
  None = None
  MaxAgents = 3
  MaxAwaits = 2
  MaxRetries = 1
INVARIANTS
  AgentInOnePlace
  HandlesAreCurrent
  RightResult
PROPERTY
  EveryAgentEnds
