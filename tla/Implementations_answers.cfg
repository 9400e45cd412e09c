SPECIFICATION Spec
CONSTANTS
    NoOwner = NoOwner
    Universe = Universe
    MaxFailing = 1
    Projects <- SomeProjects
INVARIANTS
    TypeOK OnlyKnownLosses NothingInvented
