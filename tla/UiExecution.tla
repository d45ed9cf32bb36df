---------------------------- MODULE UiExecution ----------------------------
(***************************************************************************)
(* The part of the main loop that brings UI input to the device: an        *)
(* iteration serves a local request, ticks the Remote Worker and gives a   *)
(* queued UI task, if there is one, to the touch adapter (automation_tick).*)
(*                                                                         *)
(* The queue, the grants, the lock state and the provider's probe decide   *)
(* whether there is a task to run at all; they are TaskRuntime's and may   *)
(* decide anything here.  Time that passes inside an iteration is seen by  *)
(* the next one only.                                                      *)
(***************************************************************************)
EXTENDS RemoteWorker, TouchSequence

CONSTANTS MaxDeaths  \* bound on deaths of the daemon

ASSUME UiAssumption == MaxDeaths \in Nat

VARIABLES
    turn,    \* where the iteration is: "local", "tick" or "auto"
    deaths

wvars == <<fixture, worker, wtime>>
vars  == <<wvars, touch, turn, deaths>>

Init == WorkerInit /\ TouchInit /\ turn = "local" /\ deaths = 0

\* rt_remote_worker_ui_allowed
UiAllowed == ~config.enabled \/ ~paused

\* handle: execute_remote_worker_configure, GET /v1/remote-worker or neither.
LocalRequest ==
    /\ turn = "local" /\ turn' = "tick"
    /\ \/ \E c \in Request : Configure(c)
       \/ WorkerTick
       \/ UNCHANGED wvars
    /\ UNCHANGED <<touch, deaths>>

WorkerTurn ==
    /\ turn = "tick" /\ turn' = "auto"
    /\ WorkerTick
    /\ UNCHANGED <<touch, deaths>>

\* automation_tick takes a UI task up to the adapter.
Starts ==
    /\ turn = "auto" /\ phase = "idle"
    /\ UiAllowed
    /\ \E g \in Gesture : Begin(g)
    /\ turn' = "auto"
    /\ UNCHANGED <<wvars, deaths>>

Continues ==
    /\ Daemon
    /\ UNCHANGED <<wvars, turn, deaths>>

\* No task, or the task of this iteration is settled.
Returns ==
    /\ turn = "auto" /\ phase = "idle"
    /\ turn' = "local"
    /\ UNCHANGED <<wvars, touch, deaths>>

TimePasses ==
    /\ turn = "local"
    /\ SecondsPass(1) \/ SecondsPass(Interval) \/ ClockSetBack(1)
    /\ UNCHANGED <<touch, turn, deaths>>

ProviderMoves ==
    /\ Provider
    /\ UNCHANGED <<wvars, turn, deaths>>

\* The daemon dies or is terminated, and main starts again.
Restart ==
    /\ deaths < MaxDeaths
    /\ deaths' = deaths + 1
    /\ turn' = "local"
    /\ WorkerRestart
    /\ TouchDies

Next ==
    \/ LocalRequest \/ WorkerTurn \/ Starts \/ Continues \/ Returns
    \/ TimePasses \/ ProviderMoves \/ Restart

Spec == Init /\ [][Next]_vars
-----------------------------------------------------------------------------
(* Every variable of the worker, of the adapter and of the loop has its    *)
(* type, and the configuration in force is a valid one.                    *)
TypeOK ==
    /\ WorkerTypeOK /\ TouchTypeOK
    /\ turn \in {"local", "tick", "auto"}
    /\ deaths \in 0..MaxDeaths

(* What Remote Worker mode holds on to, it holds only while it works: the  *)
(* display is kept awake only while enabled and not paused, a charge       *)
(* inhibit is the guard's own and is given back when the guard or the mode *)
(* is switched off, and the charge stays in its window                     *)
(* (docs/validation/v0.19-remote-worker.md:24).                            *)
GuardsFollow ==
    /\ awake => config.enabled /\ ~paused
    /\ inhibited => owns /\ config.enabled /\ config.charge
    /\ fixture /\ config.enabled /\ config.charge /\ sample.power =>
          /\ sample.percent >= config.ceiling => inhibited
          /\ sample.percent <= config.floor /\ ~paused => ~inhibited

(* A thermal pause ends only when a sample has cooled to the resume        *)
(* threshold, when the owner switches the mode off, or in a new process:   *)
(* no change of thresholds, lost sample or clock lifts it earlier.         *)
PauseIsSticky ==
    [][paused /\ ~paused' =>
          \/ ~config'.enabled
          \/ sample'.temp # Missing /\ sample'.temp <= config'.resume
          \/ deaths' # deaths]_vars

(* Input is not begun on a device that is too warm, or whose temperature   *)
(* is unknown: the sample it is begun on is below the pause threshold and, *)
(* as long as the clock was not set back, not older than the interval.     *)
InputHeedsHeat ==
    [][last' # last /\ config.enabled =>
          /\ sample.temp # Missing /\ sample.temp < config.pause
          /\ age < Interval \/ setBack > 0]_vars
=============================================================================
