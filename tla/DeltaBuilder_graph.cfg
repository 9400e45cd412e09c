SPECIFICATION Spec
CONSTANTS
    NoOwner = ""
    Universe = "universe"
    Programs <- TwoPackages
    Elsewhere <- ErrorAndE
    MaxDecls = 4
INVARIANTS
    TypeOK EndsEmitted OneNodePerFunction SatisfiesTogether CallsAttributed
