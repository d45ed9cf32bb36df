\* Two updates of five targets under fairness: two reboots, a death of execd, a
\* kickstart and a restoring rename that fail.
SPECIFICATION FairSpec
CONSTANTS
    u1 = u1
    u2 = u2
    Update <- MCUpdate
    Base = Base
    TargetCount = 5
    DaemonBinary = 2
    UpdaterBinary = 3
    DaemonPlist = 4
    UpdaterPlist = 5
    MaxReboots = 2
    MaxDeaths = 1
    MaxKickFaults = 1
    MaxFaults = 1
    None = None
CHECK_DEADLOCK FALSE
INVARIANTS
    TypeOK
    NoTargetLost
    DaemonSurvives
    OneActiveUnlessKickFails
PROPERTIES
    ImplementsAtomicUpdate
    
    UpdatesSettle
