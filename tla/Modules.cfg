SPECIFICATION MCModulesSpec
CONSTANTS
  Programs <- MCSameName
INVARIANT MeaningKept
