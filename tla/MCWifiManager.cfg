\* The constants of the code; three pending events.
CONSTANTS
    MaxRetry = 5
    InitialBackoff = 10
    MaxBackoff = 300
    MaxEvents = 3
SPECIFICATION Spec
INVARIANTS
    TypeOK
    AtMostMaxRetry
    
    ConnectedIsUp
    AttemptsAfterStart
    SleepsOnlyIfMissed
PROPERTY RetriesEnd
