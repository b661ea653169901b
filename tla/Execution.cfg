SPECIFICATION ExecutionSpec
CONSTANTS
  main = main  work = work  clean = clean  extra = extra
  x = x  p = p  g = g  h = h  o = o  q = q  k = k
  NoFunction = NoFunction  NoPlace = NoPlace
  Functions <- MCFunctions
  Locals = {x, p}
  Param = p
  Globals = {g, h}
  Objects = {o, q}
  Classes = {k}
  MaxDepth = 8
  Programs <- ExecutionPrograms
  Compiled <- LowerBody
  Intended <- Meaning
  CallableBodies <- ExecutionBodies
  Questions <- MCQuestions
  MaxAnswers = 5
CHECK_DEADLOCK FALSE
INVARIANTS
  TypeOK
  GlobalsFirst
  PublishedIsInitialised
  OneSharedObject
  EverySpecJudged
  EveryFailureReported
  CleanupDiscipline
  FollowsSource
  ReturnsWhatSourceReturns
  BackEndsAgree
PROPERTIES
  Terminates
  Settles
