SPECIFICATION Spec
CONSTANTS
    w1 = w1
    w2 = w2
    Main = Main
    Reader = Reader
    NoOne = NoOne
    Workers <- BothWorkers
    MaxId = 4
    PipeCap = 3
    OutCap = 2
    MaxSpeech = 1
    MayGarble = TRUE
    Refusals = {"initialize", "implementation", "shutdown"}
SYMMETRY WorkerSymmetry
INVARIANTS
    TypeOK FramesIntact AnsweredOnce NobodyForgotten OwnAnswer NoStaleRegistration
PROPERTY
    ImplementsContract
CHECK_DEADLOCK FALSE
