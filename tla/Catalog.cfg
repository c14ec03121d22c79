\* Every adapter on a small database, all questions about it.
SPECIFICATION Spec
CONSTANTS
    None = None
    Objects <- SmallObjects
    Candidates <- SmallConstraints
    Schemas <- SmallSchemas
    Default = "s1"
    Databases <- SmallSchemas
    Questions <- SmallQuestions
INVARIANTS TypeOK ConstraintsAreExact ListsAreExact PartsAreItsOwn ScriptIsWhole ExistingIsAnswered
CHECK_DEADLOCK FALSE
