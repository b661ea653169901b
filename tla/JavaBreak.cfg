SPECIFICATION BlocksSpec
CONSTANTS
  Compiled <- LowerBody
  Intended <- Meaning
  CallableBodies <- BreakingCase
  Questions <- MCQuestions
  MaxAnswers = 5
INVARIANT
  BackEndsAgree
