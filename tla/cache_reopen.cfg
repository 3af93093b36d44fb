\* The build with the cache in a process that closes and reopens Lua.
CONSTANTS
  Threads = {main, co1}
  Main = main
  Contexts = {c1, c2}
  Values = {initial, changed}
  Default = initial
  None = None
  CacheEnabled = TRUE
  Reopens = TRUE
SPECIFICATION Spec
INVARIANTS
  ContextIsLive
