SPECIFICATION Spec
CONSTANTS
    n1 = n1
    n2 = n2
    n3 = n3
    n4 = n4
    none = none
    NoName = none
    Names <- MCNames
    Entries <- MCEntries
    Marks <- MCMarks
    Styles <- MCStyles
    Uses <- OneUse
INVARIANTS TypeOK RevisionIsConfiguration ScanFindsUses
