SPECIFICATION Spec
CONSTANTS
  main = main  work = work  clean = clean  extra = extra
  x = x  p = p  g = g  h = h  o = o  q = q  k = k
  NoFunction = NoFunction  NoPlace = NoPlace
  Functions <- MCFunctions
  Locals = {x, p}
  Param = p
  Globals = {g, h}
  Objects = {o, q}
  Classes = {k}
  MaxDepth = 8
  Programs <- ReentrantPrograms
CHECK_DEADLOCK FALSE
INVARIANTS
  OneSharedObject
