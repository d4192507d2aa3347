CONSTANTS
    NTabs = 2
    MaxUsers = 6
    MaxHeight = 3
    PageSteps = {3}
    Sizes <- MCSizes
    Machines <- MCMachines
    Make <- MCMake
    OpenViews <- MCOpenViews
    Extra = {3}
    Widths = {60, 80, 160}
    Heights = {2, 12, 24, 30, 50, 60}
SPECIFICATION SelectionSpec
INVARIANTS FrameFollowsSelection TellsOfTarget
PROPERTIES ArrowsGoOneOn ScrollIsHonest 
