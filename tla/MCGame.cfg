CONSTANTS
    a1 = a1
    a2 = a2
    p1 = p1
    p2 = p2
    Procs = {p1, p2}
    Accounts = {a1, a2}
    Names = {n1, n2}
    Owner <- MCApart
    MaxScore = 2
    Top = 1
    Keep = 1
    Slots = 1
    MaxCrashes = 1
    Starts <- MCStarts
    KeyEvery = 3
    MaxObstacles = 3
SPECIFICATION GameSpec
INVARIANTS RecordedStays Solvable
PROPERTIES RanksNeverDrop RoomToLand SubmissionEnds
