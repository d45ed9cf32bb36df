\* Two DEBs of RootTools, which the updater installs, beside an IPA with the same
\* identifier, which execd installs.
SPECIFICATION Spec
\* All ids used up and nothing queued: the daemon only waits.
CHECK_DEADLOCK FALSE
CONSTANTS
    p1 = p1
    p2 = p2
    p3 = p3
    app = app
    Package <- MCTriple
    Identifier <- MCIdentifier
    RootTools = RootTools
    None = None
    Format <- MCMixed
    Identity <- MCAllSelf
    Attested <- MCHalfSelf
    Size = 2
    MaxCrashes = 1
    MaxLost = 1
INVARIANTS
    OneInstalledPerIdentifier
    LedgerBehindFile
