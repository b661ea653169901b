SPECIFICATION MCPatternsSpec
CONSTANTS
  Tuples <- MCTuples
  Vectors <- MCVectors
  Unions <- MCUnions
  Fields <- MCFields
  Interfaces <- MCInterfaces
  AllPatterns <- MCAllPatterns
  AllValues <- MCAllValues
  AllSources <- MCAllSources
  Scrutinees <- MCScrutinees
  ValuesOf <- MCValuesOf
  WrittenOf <- MCWrittenOf
  SourcesOf <- MCSourcesOf
  LetsOf <- MCLetsOf
  MaxCases = 2
INVARIANT TriedPatternsNeverFail
