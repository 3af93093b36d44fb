\* The build with the context cache, in one Lua state.
CONSTANTS
  Threads = {main, co1, co2}
  Main = main
  Contexts = {c1, c2, c3}
  Values = {initial, changed}
  Default = initial
  None = None
  CacheEnabled = TRUE
  Reopens = FALSE
SPECIFICATION Spec
SYMMETRY MCSymmetry
INVARIANTS
  ContextIsLive
PROPERTIES
  Implements
