SPECIFICATION IoFairSpec
CONSTANTS
  Agents = {1, 2}
  Scripts <- MCScripts
  Keys = {"k", "l"}
  Null = Null
  Failing = {TRUE, FALSE}
  Hosts = {h1}
  Statements <- MCStatements
  MaxCalls = 1
INVARIANTS
  CombinedByPosition
  StoredIsFound
  TableIsAsTold
PROPERTIES
  RefusedOnlyByOthers
  AllCollected
