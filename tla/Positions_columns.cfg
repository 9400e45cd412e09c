SPECIFICATION Spec
CONSTANTS
    MaxRunes = 4
    Alphabet <- AllRunes
INVARIANTS
    TypeOK RoundTrip ExactOrRefused
