CONSTANTS
    a = a
    b = b
    Worker <- mcWorker
    Watched <- mcWatched
    Width = 3
    Unit = 2
    Word = 2
    RunBefore = 1
    MaxClock = 2
SPECIFICATION MCSpec
INVARIANTS
    StationTypeOK
    BootsWhole
    StateTellsFirmware
    NvsBeforeWifi
    ProfilerTypeOK
    ExactUnlessDisturbed
    CpuDiffUnlessWrapped
PROPERTY UpdateEndsInRestart
