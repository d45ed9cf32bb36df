\* Two DEBs and an IPA of one identifier, one death of execd, one lost write.
SPECIFICATION Spec
CONSTANTS
    p1 = p1
    p2 = p2
    p3 = p3
    app = app
    Package <- MCTriple
    Identifier <- MCIdentifier
    RootTools = RootTools
    None = None
    Format <- MCMixed
    Identity <- MCOneApp
    Attested <- MCHalf
    Size = 1
    MaxCrashes = 1
    MaxLost = 1
INVARIANTS
    TypeOK
    VerifiedStaysVerified
    InstalledKeepsArtifact
    InstalledIsOnDevice
PROPERTIES
    LifecycleArrows
