SPECIFICATION BlocksSpec
CONSTANTS
  Compiled <- LowerBody
  Intended <- Meaning
  CallableBodies <- OpenChain
  Questions <- MCQuestions
  MaxAnswers = 5
INVARIANT
  ReturnsWhatSourceReturns
