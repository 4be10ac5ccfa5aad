SPECIFICATION Spec
CONSTANTS
    Inputs <- AllInputs
    Schemas <- AllSchemas
    MaximumNestingDepth = 2
INVARIANTS
    DecidesTheLanguage
    CanBeCompleted
