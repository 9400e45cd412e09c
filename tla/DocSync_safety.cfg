SPECIFICATION Spec
CONSTANTS
    fileA = fileA
    fileB = fileB
    old = old
    new = new
    w1 = w1
    w2 = w2
    Files <- TwoFiles
    Texts <- TwoTexts
    Workers <- TwoWorkers
    Missing = Missing
    Uncached = Uncached
    MaxBatches = 3
    MaxEdits = 1
INVARIANTS
    TypeOK OpenedAgree AskedAreCurrent
SYMMETRY Symmetric
CHECK_DEADLOCK FALSE
