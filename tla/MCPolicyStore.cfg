\* Four capabilities, two failing file operations, a death of the daemon.
SPECIFICATION Spec
CONSTANTS
    Count = 4
    Risk <- MCRisk
    Hatch = 3
    MaxFaults = 2
    MaxDeaths = 1
INVARIANTS
    TypeOK
    BetweenOldAndNew
    ModeTellsSwitches
PROPERTIES
    SuccessIsWhole
