SPECIFICATION OverloadedSpec
CONSTANTS
  Methods <- MCRivals
  Calls <- MCIntCall
  TypeOf <- MCTypeOf
  ClassDecls <- MCImplicit
  Constructions <- MCConstructions
  ConstantOf <- MCDefault
  ComputedOf <- MCComputed
  StackDepth = 4
INVARIANT SelectedOverloadRuns
