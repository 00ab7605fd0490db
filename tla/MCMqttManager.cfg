\* An outbox of three messages.
CONSTANTS
    Payload = {"reading"}
    MaxOutbox = 3
SPECIFICATION Spec
INVARIANTS
    TypeOK
    StateFollowsClient
