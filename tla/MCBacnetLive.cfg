CONSTANTS
    Devices = 1
    Objects <- OneDevice
    Commands <- OneWrite
    Retries = 1
    ApduTime = 1
    BindTime = 0
    MaxId = 2
    MaxPackets = 0
    NULL = NULL
SPECIFICATION BacSpec
PROPERTIES WriteReturns RoundEndsUnlessLost CommandHandledUnlessLost
