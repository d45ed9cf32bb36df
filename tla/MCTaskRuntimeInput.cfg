\* Two UI inputs and one daemon death.
SPECIFICATION Spec
CONSTANTS
    first = first
    second = second
    owner = owner
    Task <- MCTask
    Caller <- MCCaller
    Owner <- owner
    Kind <- MCInputs
    Submitter <- MCSubmitter
    Created <- MCCreated
    Expiring <- MCExpiring
    MaxAttempts = 3
    MaxCrashes = 1
    MaxLost = 0
    NoTask = NoTask
INVARIANTS
    InputIsNotRepeated
