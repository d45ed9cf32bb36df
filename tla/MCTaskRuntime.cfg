\* A launch and a UI input, one daemon death, one lost write, fairness.
SPECIFICATION FairSpec
CONSTANTS
    first = first
    second = second
    owner = owner
    Task <- MCTask
    Caller <- MCCaller
    Owner <- owner
    Kind <- MCMixed
    Submitter <- MCSubmitter
    Created <- MCCreated
    Expiring <- MCExpiring
    MaxAttempts = 2
    MaxCrashes = 1
    MaxLost = 1
    NoTask = NoTask
INVARIANTS
    TypeOK
    ActsAreBounded
    MirrorFollows
PROPERTIES
    RevocationStopsWork
    EveryTaskSettles
