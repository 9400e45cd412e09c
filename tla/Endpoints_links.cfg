SPECIFICATION Spec
CONSTANTS
    NoOwner = NoOwner
    Universe = Universe
    MaxRegistrations = 2
    Projects <- SomeProjects
INVARIANTS
    TypeOK SameAsFull LinkedAsWritten
