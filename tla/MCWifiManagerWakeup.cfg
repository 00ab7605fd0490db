\* A notification between the test and the sleep is lost.
CONSTANTS
    MaxRetry = 2
    InitialBackoff = 10
    MaxBackoff = 30
    MaxEvents = 2
SPECIFICATION Spec
PROPERTY DisconnectNoticed
