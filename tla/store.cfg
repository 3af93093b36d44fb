\* The default build: no cache, weak keys, a collector that reaches every dead
\* thread.
CONSTANTS
  Threads = {main, co1}
  Main = main
  Contexts = {c1, c2, c3}
  Values = {initial, changed}
  Default = initial
  None = None
  CacheEnabled = FALSE
  Reopens = TRUE
SPECIFICATION FairSpec
INVARIANTS
  TypeOK
  Isolation
PROPERTIES
  Implements
  ThreadsAreCollected
