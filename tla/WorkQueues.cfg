CONSTANTS
    Flags <- MCFlags
    Keys <- MCKeys
    Width = 4
    MaxFailures = 3
    Nil = Nil
SPECIFICATION Spec
INVARIANTS
    TypeOK
PROPERTIES
    IntervalDoublesToMax
    FailedIsRetried
    AddedIsHandled
