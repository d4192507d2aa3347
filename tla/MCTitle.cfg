CONSTANTS
    Sizes <- MCSize
    Machines <- MCMachines
    Make <- MCMake
    OpenViews <- MCProcesses
    Extra = {3}
SPECIFICATION Spec
INVARIANTS TitleNamesTarget
