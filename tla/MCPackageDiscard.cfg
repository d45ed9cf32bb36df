\* A RootTools DEB discarded while the updater works on it.
SPECIFICATION Spec
CONSTANTS
    p1 = p1
    p2 = p2
    p3 = p3
    app = app
    Package <- MCPackage
    Identifier <- MCIdentifier
    RootTools = RootTools
    None = None
    Format <- MCDebs
    Identity <- MCSelf
    Attested <- MCUnattested
    Size = 1
    MaxCrashes = 0
    MaxLost = 0
INVARIANTS
    InstalledKeepsArtifact
