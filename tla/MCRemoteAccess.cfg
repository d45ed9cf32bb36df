\* A host and another principal, two sessions of one minute, two addresses,
\* one of each fault, and a clock that is set back once.
SPECIFICATION Spec
CONSTANTS
    Host = {h1}
    Other = {n1}
    Capability = {read}
    Grantable = {read}
    Expiry = {0, 3}
    Address = {a1, a2}
    MaxClock = 3
    MaxSetBacks = 1
    MaxSessions = 2
    MaxMinutes = 1
    MaxMoves = 1
    MaxFaults = 1
    MaxDeaths = 1
INVARIANTS
    TypeOK
    ListenerTellsTruth
PROPERTIES
    EndedStaysEnded
    RevokedNeverActs
    ListenerFollows
