\* Every fault.
CONSTANTS
    Faults = {"open", "read", "full", "power"}
    MaxLines = 4
SPECIFICATION Spec
INVARIANTS
    TypeOK
    InOrder
    RemovesFirstOnly
    AppendsOwnOnly
    WriteReplaces
    MountedAsAsked
PROPERTY ImplementsQueue
