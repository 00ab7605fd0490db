CONSTANTS
    BufferSize = 3
    Item = {a, b, c}
    NoItem = NoItem
    MovedFrom = MovedFrom
    State = {s, t}
    MaxObservers = 2
    MaxChanges = 3
SPECIFICATION MCSpec
INVARIANTS
    TypeOK
    SizeMatchesIndices
    WindowIsLive
    MachineTypeOK
    EachChangeToldOnce
    ToldInCallOrder
PROPERTY ImplementsFifo
