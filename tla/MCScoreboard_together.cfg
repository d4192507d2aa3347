CONSTANTS
    a1 = a1
    p1 = p1
    p2 = p2
    Procs = {p1, p2}
    Accounts = {a1}
    Names = {n1, n2}
    Owner <- MCTogether
    MaxScore = 2
    Top = 1
    Keep = 2
    Slots = 1
    MaxCrashes = 0
SPECIFICATION Spec
PROPERTY HigherScoreStays
