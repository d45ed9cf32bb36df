--------------------------- MODULE MCUiExecution ---------------------------
(* Small instances of UiExecution for TLC.                                 *)
EXTENDS UiExecution

Window(on, guard, pause, resume) ==
    [enabled |-> on, charge |-> guard, floor |-> 70, ceiling |-> 80, pause |-> pause, resume |-> resume]

MCDefault == Window(FALSE, FALSE, 4000, 3700)

\* On with the guard, on with lower thresholds, off, and one that is refused.
MCRequest == {Window(TRUE, TRUE, 4000, 3700), Window(TRUE, FALSE, 3750, 3500), MCDefault,
              Window(TRUE, FALSE, 3800, 3700)}

Battery(temp, percent, power) == [temp |-> temp, percent |-> percent, power |-> power]

\* Cool and low, in between, hot and full, and a battery that does not answer.
MCSample == {Battery(3600, 60, TRUE), Battery(3800, 75, TRUE), Battery(4100, 85, TRUE),
             Battery(Missing, 0, FALSE)}

Touch(kind, steps) == [kind |-> kind, steps |-> steps]

\* A swipe (a tap is one without moves), a text that fits and one that is too long.
MCGesture == {Touch("swipe", 1), Touch("text", 1), Touch("text", 2)}
=============================================================================
