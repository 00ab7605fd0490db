\* Entries that set an LED: processLog() asks for a mutex it holds.
CONSTANTS
    Entries <- StateEntries
    Calls <- MainCalls
SPECIFICATION Spec
PROPERTY LogProcessed
CHECK_DEADLOCK FALSE
