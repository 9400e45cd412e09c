SPECIFICATION FairSpec
CONSTANTS
    w1 = w1
    w2 = w2
    Main = Main
    Reader = Reader
    NoOne = NoOne
    Workers <- BothWorkers
    MaxId = 4
    PipeCap = 2
    OutCap = 1
    MaxSpeech = 1
    MayGarble = FALSE
    Refusals = {"initialize"}
PROPERTIES
    EveryCallReturns ReaderEnds CloseStopsGopls
