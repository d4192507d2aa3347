SPECIFICATION BothSpec
CONSTANTS
    Runs = {r1}
    Pids = {1, 2}
    MaxStart = 3
    Signals = {"TERM"}
    Nices <- MCNices
    HandArgv <- MCHandArgv
    Counts = {0, 1, 29, 31}
    StorageBudget = 90
    LeastPerUser = 5
    StorageLimit = 150
    DetailBudget = 45
    DetailLimit = 90
    Database <- MCDatabase
    Nodes <- MCNodes
    Dirs <- MCDirs
    Parent <- MCParent
    Inode <- MCInode
    Space <- MCBlocks
    Foreign = {"mount"}
    Unreadable = {"private"}
    MaxEntries = 7
    MaxDepth = 2
    ClockEvery = 2
    KeepChildren = 2
    MaxChanges = 1
INVARIANTS SafeActs EveryActAudited FewUsersAnswered 
PROPERTIES KeepsPromise  ScanEnds
