\* publish() while not connected answers with a message id.
CONSTANTS
    Payload = {"reading"}
    MaxOutbox = 3
SPECIFICATION Spec
INVARIANT NotConnectedFails
