CONSTANTS
    Sizes <- MCSizes
    Machines <- MCMachines
    Make <- MCMake
    TypeAhead = 2
    Far = 6
SPECIFICATION Spec
INVARIANTS AllInReach GoesRound RegionsNest
PROPERTIES OneProcessOn
