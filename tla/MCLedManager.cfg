\* Entries that set no LED: the callback takes the mutex beside setLEDMode().
CONSTANTS
    Entries <- QuietEntries
    Calls <- MainCalls
SPECIFICATION Spec
INVARIANTS
    TypeOK
    PinFollowsMode
PROPERTIES
    SetReturns
    BlinkLights
