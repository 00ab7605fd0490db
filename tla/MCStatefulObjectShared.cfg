\* Two tasks set one object: a change is missing from the log, or logged twice.
CONSTANTS
    t1 = t1
    t2 = t2
    wifi = wifi
    mqtt = mqtt
    Thread = {t1, t2}
    Object = {wifi}
    State = {"off", "on", "trying"}
    InitialState = "off"
    Line <- MCLine
    NoLine = NoLine
    LostLine = LostLine
    LogCapacity = 2
    Nobody = Nobody
    Sets <- SharedObject
    MaxChanges = 3
SPECIFICATION Spec
INVARIANT EveryChangeLogged
CHECK_DEADLOCK FALSE
