\* Each object has one writer; the logger is shared.
CONSTANTS
    t1 = t1
    t2 = t2
    wifi = wifi
    mqtt = mqtt
    Thread = {t1, t2}
    Object = {wifi, mqtt}
    State = {"off", "on"}
    InitialState = "off"
    Line <- MCLine
    NoLine = NoLine
    LostLine = LostLine
    LogCapacity = 2
    Nobody = Nobody
    Sets <- OneWriterEach
    MaxChanges = 3
SPECIFICATION Spec
INVARIANTS
    TypeOK
    LogIsRecentHistory
    PrintsFullLog
    EveryChangeLogged
PROPERTY MutexReleased
CHECK_DEADLOCK FALSE
