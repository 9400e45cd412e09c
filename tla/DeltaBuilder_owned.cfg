SPECIFICATION Spec
CONSTANTS
    NoOwner = ""
    Universe = "universe"
    Programs <- TwoPackages
    Elsewhere <- ErrorAndE
    MaxDecls = 2
INVARIANTS
    EveryFunctionOwned
