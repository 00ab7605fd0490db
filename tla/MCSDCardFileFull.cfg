\* A full card, and nothing else that fails.
CONSTANTS
    Faults = {"full"}
    MaxLines = 2
SPECIFICATION Spec
INVARIANT AppendedIsStored
