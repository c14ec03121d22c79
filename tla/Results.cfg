\* All adapters, texts of up to three statements, returning or affecting no row or two.
CONSTANTS
    Length = 3
    Counts <- NoneOrTwo
SPECIFICATION Spec
CHECK_DEADLOCK FALSE
INVARIANTS TypeOK OneResultEach OwnCommands CountsAreTrue
