SPECIFICATION MCSpec
CONSTANTS
  Tuples <- MCTuples
  Vectors <- MCVectors
  Unions <- MCUnions
  Fields <- MCFields
  Interfaces <- MCInterfaces
  AllPatterns <- MCAllPatterns
  AllValues <- MCAllValues
  AllSources <- MCAllSources
  Scrutinees <- MCScrutinees
  ValuesOf <- MCValuesOf
  WrittenOf <- MCWrittenOf
  SourcesOf <- MCSourcesOf
  LetsOf <- MCLetsOf
  MaxCases = 3
  Methods <- MCMethods
  Calls <- MCCalls
  TypeOf <- MCTypeOf
  ClassDecls <- MCClassDecls
  Constructions <- MCConstructions
  ConstantOf <- MCDefault
  ComputedOf <- MCComputed
  StackDepth = 4
  Conditions <- MCConditions
  Statements <- MCStatements
  LoopStatements <- MCLoopStatements
  Bodies <- MCBodies
  Instances <- MCInstances
  Declared = "Any"
  Programs <- MCPrograms
  ShapeDecls <- MCShapeDecls
  ClassFields <- MCClassFields
  BoundsOf <- MCBoundsOf
  SourceTypes <- MCSourceTypes
  Variables <- MCVariables
  MaxMoves = 2
INVARIANTS
  CompilerTypeOK
  SelectsAsWritten
  FlatMatchesTakeACase
  MatchingPatternsNeverFail
  AcceptedCallsRun
  ConstructionDelivers
  NarrowingSound
  ReferencesKeepTheirMeaning
  InitialisedBeforeRead
  ValuesFollowTypes
