\* One rename fails while files are put back.
SPECIFICATION Spec
CONSTANTS
    u1 = u1
    u2 = u2
    Update <- MCUpdate
    Base = Base
    TargetCount = 5
    DaemonBinary = 2
    UpdaterBinary = 3
    DaemonPlist = 4
    UpdaterPlist = 5
    MaxReboots = 0
    MaxDeaths = 1
    MaxKickFaults = 0
    MaxFaults = 1
    None = None
CHECK_DEADLOCK FALSE
PROPERTIES
    RollbackRestores
