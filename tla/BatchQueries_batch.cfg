SPECIFICATION FairSpec
CONSTANTS
    w1 = w1
    w2 = w2
    w3 = w3
    Main = Main
    NoOne = NoOne
    Workers <- Pool
    MaxSize = 4
    Wanted <- SomeWanted
    MaxDocs = 1
    MaxBatches = 1
INVARIANTS
    TypeOK ResultsInInputOrder SnapshotFirst NothingOutlivesBatch
PROPERTY
    BatchReturns
