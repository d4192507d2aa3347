CONSTANTS
    Views <- MCViews
    Branded = TRUE
    MaxDepth = 2
    MaxScroll = 1
    MaxText = 1
    NameWidth = 2
    MaxScore = 2
    Samplers = {"fast", "process"}
    Every <- MCEvery
    Process = "process"
    PendingNap = 1
    Frame = 1
    IdleFrame = 2
    ClockTick = 5
    Settle = 2
    AnimPeriod = 3
    Hold = 3
    MaxNap = 3
    MaxDraw = 2
    MaxEvents = 2
SPECIFICATION ThreadSpec
INVARIANTS OneRecordPerRun
PROPERTIES WindowOwnsInput EscGoesUp  InputIsShown
