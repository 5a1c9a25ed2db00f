CONSTANTS
    Devices = 2
    Objects <- MCObjects
    Commands <- MCCommands
    Retries = 1
    ApduTime = 1
    BindTime = 0
    MaxId = 2
    MaxPackets = 2
    NULL = NULL
SPECIFICATION BacFacts
INVARIANTS BacTypeOK NoTransactionLeaks ReadingsMatch ErrorsAreHandled
