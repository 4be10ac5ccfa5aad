SPECIFICATION Spec
CONSTANTS
    Modes <- SchemaOnly
    Vocabularies <- FullTable
    MaxTokens = 3
INVARIANTS
    AnswerIsComplete
