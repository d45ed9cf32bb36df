\* Three configurations, four samples, two gestures, one death of the provider,
\* one of the daemon, and a clock that is set back once.
SPECIFICATION Spec
CONSTANTS
    Sample <- MCSample
    Request <- MCRequest
    Default <- MCDefault
    Interval = 2
    MaxSetBack = 1
    Gesture <- MCGesture
    MaxChars = 1
    MaxRuns = 2
    MaxLosses = 1
    MaxDeaths = 1
INVARIANTS
    TypeOK
    GuardsFollow
    WholeOrFailed
    FingersLift
PROPERTIES
    PauseIsSticky
    InputHeedsHeat
