CONSTANTS
    Mountable <- MCMountable
    RootPath = 0
    NoDevice = "gone"
    Size <- MCSize
    Kept = 1
    Escaped = {1}
    Wide = {1}
    Addresses <- MCAddresses
    LinkLocal = {}
    Period = 2
    Until = 4
    Events = 2
SPECIFICATION Spec
CHECK_DEADLOCK FALSE
PROPERTY EveryMountListed
