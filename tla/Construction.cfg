SPECIFICATION ConstructionSpec
CONSTANTS
  Methods <- MCMethods
  Calls <- MCCalls
  TypeOf <- MCTypeOf
  ClassDecls <- MCImplicit
  Constructions <- MCConstructions
  ConstantOf <- MCDefault
  ComputedOf <- MCComputed
  StackDepth = 4
INVARIANT ConstructedAsWritten
