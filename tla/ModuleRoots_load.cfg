SPECIFICATION Spec
CONSTANTS
    top = top
    a = a
    ab = ab
    c = c
    Dirs <- FourDirs
    Top = top
    Above <- Tree
    Gone = Gone
    MaxUses = 2
INVARIANTS
    TypeOK OneOwner FilesLoaded ListedLoaded
