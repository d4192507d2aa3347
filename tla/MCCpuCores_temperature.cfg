CONSTANTS
    Homes <- MCHomes
    MaxChanges = 1
SPECIFICATION Spec
INVARIANT OwnTemperature
