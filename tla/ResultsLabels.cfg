\* SQL Server pairs the rows of a SELECT with the type of the INSERT before it.
CONSTANTS
    Length = 2
    Counts <- NoneOrTwo
SPECIFICATION Spec
CHECK_DEADLOCK FALSE
INVARIANTS SqlServerOwnCommands
