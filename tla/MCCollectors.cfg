CONSTANTS
    Order <- MCOrder
    Part = {"p"}
    Wrap = 4
    Moves <- MCMoves
    Fine = 6
    Cores = 2
    Growths <- MCGrowths
    MaxTime = 3
    MaxChanges = 2
    Retry = 3
    Short = 2
    History = 2
    GpuTime = 5
    GpuChanges = 3
    Homes <- MCHomes
    CoreChanges = 3
    Mountable <- MCMountable
    RootPath = 0
    NoDevice = "gone"
    Size <- MCSize
    Kept = 1
    Escaped = {2, 3}
    Wide = {1, 2}
    Addresses <- MCAddresses
    LinkLocal = {"link-local"}
    Period = 2
    Until = 3
    Events = 3
SPECIFICATION CollectorsSpec
CHECK_DEADLOCK FALSE
PROPERTIES RatesAreTrue CpusAreTrue  EstimateIsTrue TemperatureComesBack FilesystemsAreTrue
