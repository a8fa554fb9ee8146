SPECIFICATION Spec
CONSTANTS
    MaxRuns = 2
    Agents = 2
INVARIANT TypeOK
INVARIANT CleanRunWorks
INVARIANT FirstRunIsItsOwn
PROPERTY RerunBreaksNothing
CHECK_DEADLOCK FALSE
