------------------------- MODULE UiExecutionProofs -------------------------
(***************************************************************************)
(* Theorems about the Remote Worker guard and its loop, for every value of *)
(* the constants of UiExecution.                                           *)
(***************************************************************************)
EXTENDS UiExecution, TLAPS

\* The helper is driven with the fixture only, and by nobody else.
HelperInv ==
    /\ config.charge => fixture
    /\ inhibited => owns /\ config.enabled /\ config.charge

\* While input is allowed the last sample is a cool one.
HeatInv == config.enabled /\ ~paused => sample.temp # Missing /\ sample.temp < config.pause

\* A clock that was never set back tells the age of the sample, and in the
\* second of a tick, as after the tick of an iteration, it is a fresh one.
AgeInv ==
    /\ -setBack <= since
    /\ setBack = 0 => since = age
    /\ setBack = 0 /\ (~due \/ turn = "auto") => age < Interval

IInv ==
    /\ WorkerTypeOK /\ turn \in {"local", "tick", "auto"} /\ deaths \in Nat
    /\ HelperInv /\ HeatInv /\ AgeInv
    /\ GuardsFollow

USE WorkerAssumption, UiAssumption DEF WorkerAssumption, UiAssumption

\* The initial states satisfy the invariant.
LEMMA InitIInv == Init => IInv
<1> SUFFICES ASSUME Init PROVE IInv
  OBVIOUS
<1> USE DEF Init, WorkerInit, Pauses
<1>1. WorkerTypeOK
  <2>1. config \in Request \union {Default} /\ Valid(config)
    OBVIOUS
  <2>2. sample \in Sample /\ paused \in BOOLEAN /\ awake \in BOOLEAN
    OBVIOUS
  <2>3. since \in -MaxSetBack..Interval /\ age \in 0..Interval /\ setBack \in 0..MaxSetBack
    OBVIOUS
  <2> QED BY <2>1, <2>2, <2>3 DEF WorkerTypeOK
<1>2. HelperInv /\ HeatInv /\ AgeInv /\ GuardsFollow
  BY DEF HelperInv, HeatInv, AgeInv, GuardsFollow
<1> QED BY <1>1, <1>2 DEF IInv

\* What a tick under a valid configuration leaves behind.
LEMMA ApplyKeeps ==
    ASSUME WorkerTypeOK, HelperInv, AgeInv,
           NEW c \in Request \union {Default}, Valid(c), c.charge => fixture,
           Apply(c), config' = c, UNCHANGED <<fixture, setBack>>
    PROVE  /\ WorkerTypeOK'
           /\ HelperInv' /\ HeatInv' /\ GuardsFollow'
           /\ -setBack' <= since'
           /\ setBack' = 0 => since' = age' /\ age' < Interval
           /\ paused /\ ~paused' => ~c.enabled \/ (sample'.temp # Missing /\ sample'.temp <= c.resume)
<1> USE DEF Apply, WorkerTypeOK
<1>1. sample' \in Sample /\ since' \in -MaxSetBack..Interval /\ age' \in 0..Interval
  BY DEF Resample
<1>2. paused' \in BOOLEAN
  BY DEF Pauses
<1>3. inhibited' \in BOOLEAN /\ owns' \in BOOLEAN
  BY <1>1, <1>2 DEF Guard, Desired
<1>4. awake' \in BOOLEAN /\ (awake' => c.enabled /\ ~paused')
  BY <1>2
<1>5. WorkerTypeOK'
  <2>1. (config \in Request \union {Default} /\ Valid(config))'
    OBVIOUS
  <2> QED BY <1>1, <1>2, <1>3, <1>4, <2>1
<1>6. HelperInv'
  BY <1>2 DEF HelperInv, Guard, Desired
<1>7. HeatInv'
  BY <1>1 DEF HeatInv, Pauses, Valid
<1>8. ASSUME fixture, c.enabled, c.charge, sample'.power
      PROVE  /\ sample'.percent >= c.ceiling => inhibited'
             /\ sample'.percent <= c.floor /\ ~paused' => ~inhibited'
  <2>1. inhibited' = Desired(c, sample', paused')
    BY <1>8 DEF Guard
  <2>2. sample'.percent \in Nat /\ c.floor \in Int /\ c.ceiling \in Int /\ c.floor < c.ceiling
    BY <1>1 DEF Valid
  <2> QED BY <2>1, <2>2 DEF Desired
<1>9. GuardsFollow'
  BY <1>4, <1>6, <1>8 DEF GuardsFollow, HelperInv
<1>10. /\ -setBack' <= since'
       /\ setBack' = 0 => since' = age' /\ age' < Interval
  BY DEF Resample, AgeInv
<1>11. paused /\ ~paused' => ~c.enabled \/ (sample'.temp # Missing /\ sample'.temp <= c.resume)
  BY <1>1 DEF Pauses
<1> QED BY <1>5, <1>6, <1>7, <1>9, <1>10, <1>11

\* Time and a new process keep the worker's part.
LEMMA WorkerKeeps ==
    ASSUME IInv, UNCHANGED deaths,
           \/ WorkerTick /\ turn' # "local"
           \/ (\E c \in Request : Configure(c)) /\ turn' = "tick"
           \/ UNCHANGED wvars /\ (turn' # "auto" \/ turn = "auto")
           \/ (SecondsPass(1) \/ SecondsPass(Interval) \/ ClockSetBack(1)) /\ turn' = "local"
    PROVE  WorkerTypeOK' /\ HelperInv' /\ HeatInv' /\ AgeInv' /\ GuardsFollow'
<1> USE DEF IInv
<1>1. CASE WorkerTick /\ due
  <2>1. Apply(config) /\ UNCHANGED <<fixture, config, setBack>>
    BY <1>1 DEF WorkerTick
  <2>2. config \in Request \union {Default} /\ Valid(config)
    BY DEF WorkerTypeOK
  <2>3. config.charge => fixture
    BY DEF HelperInv
  <2> QED BY <2>1, <2>2, <2>3, ApplyKeeps DEF AgeInv
<1>2. ASSUME NEW c \in Request, Configure(c)
      PROVE  WorkerTypeOK' /\ HelperInv' /\ HeatInv' /\ AgeInv' /\ GuardsFollow'
  <2>1. Apply(c) /\ config' = c /\ Valid(c) /\ (c.charge => fixture) /\ UNCHANGED <<fixture, setBack>>
    BY <1>2 DEF Configure, Keep
  <2> QED BY <2>1, ApplyKeeps DEF AgeInv
<1>3. CASE WorkerTick /\ ~due
  <2>1. UNCHANGED wvars
    BY <1>3 DEF WorkerTick, wvars, worker, wtime
  <2> USE <2>1 DEF wvars, worker, wtime
  <2>2. WorkerTypeOK' /\ HelperInv' /\ HeatInv' /\ GuardsFollow'
    BY DEF WorkerTypeOK, HelperInv, HeatInv, GuardsFollow
  <2>3. AgeInv'
    BY <1>3 DEF AgeInv
  <2> QED BY <2>2, <2>3
<1>4. CASE UNCHANGED wvars /\ (turn' # "auto" \/ turn = "auto")
  <2> USE <1>4 DEF wvars, worker, wtime
  <2>2. WorkerTypeOK' /\ HelperInv' /\ HeatInv' /\ GuardsFollow'
    BY DEF WorkerTypeOK, HelperInv, HeatInv, GuardsFollow
  <2>3. AgeInv'
    BY DEF AgeInv
  <2> QED BY <2>2, <2>3
<1>5. ASSUME NEW n \in Nat \ {0}, SecondsPass(n), turn' = "local"
      PROVE  WorkerTypeOK' /\ HelperInv' /\ HeatInv' /\ AgeInv' /\ GuardsFollow'
  <2> USE <1>5 DEF SecondsPass
  <2>1. HelperInv' /\ HeatInv' /\ GuardsFollow'
    BY DEF HelperInv, HeatInv, GuardsFollow
  <2>2. since' \in -MaxSetBack..Interval /\ age' \in 0..Interval /\ -setBack' <= since'
    BY DEF WorkerTypeOK, AgeInv, Capped
  <2>3. WorkerTypeOK'
    BY <2>2 DEF WorkerTypeOK
  <2>4. AgeInv'
    BY <2>2 DEF AgeInv
  <2> QED BY <2>1, <2>3, <2>4
<1>6. ASSUME ClockSetBack(1), turn' = "local"
      PROVE  WorkerTypeOK' /\ HelperInv' /\ HeatInv' /\ AgeInv' /\ GuardsFollow'
  <2> USE <1>6 DEF ClockSetBack
  <2>1. HelperInv' /\ HeatInv' /\ GuardsFollow'
    BY DEF HelperInv, HeatInv, GuardsFollow
  <2>2. /\ since' \in -MaxSetBack..Interval /\ -setBack' <= since'
        /\ setBack' \in 1..MaxSetBack
    BY DEF WorkerTypeOK, AgeInv
  <2>3. WorkerTypeOK'
    BY <2>2 DEF WorkerTypeOK
  <2>4. AgeInv'
    BY <2>2 DEF AgeInv
  <2> QED BY <2>1, <2>3, <2>4
<1> QED BY <1>1, <1>2, <1>3, <1>4, <1>5, <1>6

\* A new daemon starts with the invariant.
LEMMA RestartKeeps ==
    ASSUME IInv, Restart PROVE WorkerTypeOK' /\ HelperInv' /\ HeatInv' /\ AgeInv' /\ GuardsFollow'
<1> DEFINE guarded == fixture /\ config.enabled /\ config.charge /\ sample'.power
           full    == paused' \/ sample'.percent >= config.ceiling
<1>1. /\ due' = FALSE /\ since' = 0 /\ age' = 0 /\ sample' \in Sample
      /\ paused' = Pauses(config, sample', FALSE)
      /\ UNCHANGED <<fixture, config, setBack>>
      /\ turn' = "local"
  BY DEF Restart, WorkerRestart
<1>2. owns' \in (IF guarded THEN {full} ELSE {FALSE}) /\ inhibited' = owns'
  BY DEF Restart, WorkerRestart
<1>3. awake' \in BOOLEAN /\ (awake' => config.enabled /\ ~paused')
  BY DEF Restart, WorkerRestart
<1>4. paused' \in BOOLEAN
  BY <1>1 DEF Pauses
<1>5. full \in BOOLEAN
  BY <1>4
<1>6. /\ owns' \in BOOLEAN /\ inhibited' = owns'
      /\ guarded => (inhibited' <=> full)
      /\ ~guarded => ~inhibited'
  <2> HIDE DEF guarded, full
  <2> QED BY <1>2, <1>5
<1>7. WorkerTypeOK'
  <2>1. config \in Request \union {Default} /\ Valid(config) /\ fixture \in BOOLEAN /\ setBack \in 0..MaxSetBack
    BY DEF IInv, WorkerTypeOK
  <2>2. (config \in Request \union {Default} /\ Valid(config))'
    BY <1>1, <2>1
  <2>3. since' \in -MaxSetBack..Interval /\ age' \in 0..Interval
    BY <1>1
  <2>4. sample' \in Sample /\ due' \in BOOLEAN /\ UNCHANGED <<fixture, setBack>>
    BY <1>1
  <2>5. owns' \in BOOLEAN /\ inhibited' \in BOOLEAN
    BY <1>6
  <2> QED BY <1>3, <1>4, <2>1, <2>2, <2>3, <2>4, <2>5 DEF WorkerTypeOK
<1>8. HelperInv'
  BY <1>1, <1>6 DEF HelperInv, IInv
<1>9. HeatInv'
  <2>1. sample'.temp \in Int /\ config.pause \in Int
    BY <1>1 DEF IInv, WorkerTypeOK
  <2>2. config.enabled /\ ~paused' => ~(sample'.temp = Missing \/ sample'.temp >= config.pause)
    BY <1>1 DEF Pauses
  <2>3. config' = config
    BY <1>1
  <2> QED BY <2>1, <2>2, <2>3 DEF HeatInv
<1>10. AgeInv'
  BY <1>1 DEF AgeInv, IInv, WorkerTypeOK
<1>11. ASSUME fixture, config.enabled, config.charge, sample'.power
       PROVE  /\ sample'.percent >= config.ceiling => inhibited'
              /\ sample'.percent <= config.floor /\ ~paused' => ~inhibited'
  <2>1. inhibited' <=> full
    BY <1>6, <1>11
  <2>2. sample'.percent \in Nat /\ config.floor \in Int /\ config.ceiling \in Int /\ config.floor < config.ceiling
    BY <1>1 DEF Valid, IInv, WorkerTypeOK
  <2> QED BY <2>1, <2>2
<1>12. GuardsFollow'
  BY <1>1, <1>3, <1>8, <1>11 DEF GuardsFollow, HelperInv
<1> QED BY <1>7, <1>8, <1>9, <1>10, <1>12

\* Every step keeps the invariant.
LEMMA StepIInv == IInv /\ [Next]_vars => IInv'
<1> SUFFICES ASSUME IInv, [Next]_vars PROVE IInv'
  OBVIOUS
<1>1. CASE Restart
  BY <1>1, RestartKeeps DEF IInv, Restart
<1>2. CASE ~Restart
  <2>1. /\ turn' \in {"local", "tick", "auto"} /\ UNCHANGED deaths
        /\ \/ WorkerTick /\ turn' # "local"
           \/ (\E c \in Request : Configure(c)) /\ turn' = "tick"
           \/ UNCHANGED wvars /\ (turn' # "auto" \/ turn = "auto")
           \/ (SecondsPass(1) \/ SecondsPass(Interval) \/ ClockSetBack(1)) /\ turn' = "local"
    BY <1>2 DEF IInv, Next, LocalRequest, WorkerTurn, Starts, Continues, Returns, TimePasses,
       ProviderMoves, vars
  <2> QED BY <2>1, WorkerKeeps DEF IInv
<1> QED BY <1>1, <1>2

\* The inductive invariant holds in every reachable state.
LEMMA Inductive == Spec => []IInv
<1> QED BY InitIInv, StepIInv, PTL DEF Spec
-----------------------------------------------------------------------------
(* The touch adapter's types                                               *)

\* A gesture in progress is a run, and has an event left while it sends.
SendInv ==
    /\ phase # "idle" => last \in Run /\ sent <= Whole
    /\ phase = "send" => sent < Whole

TouchInv == TouchTypeOK /\ SendInv

\* A function on 1..n is a sequence of length n.
LEMMA FunctionIsSequence ==
    ASSUME NEW S, NEW n \in Nat, NEW f \in [1..n -> S]
    PROVE  f \in Seq(S) /\ Len(f) = n
OBVIOUS

\* A gesture sends at least one event, and events only.
LEMMA ScriptType ==
    ASSUME NEW g \in Gesture PROVE Script(g) \in Seq(EventSet) /\ Len(Script(g)) > 0
<1>0. g.steps \in Nat /\ g.kind \in {"tap", "swipe", "text"} /\ (g.kind = "text" => g.steps > 0)
  BY TouchAssumption DEF TouchAssumption
<1>1. CASE g.kind = "tap"
  <2>1. Event("down", 0) \in EventSet /\ Event("up", 0) \in EventSet
    BY DEF Event, EventSet
  <2>2. Script(g) = <<Event("down", 0), Event("up", 0)>>
    BY <1>1 DEF Script
  <2> QED BY <2>1, <2>2
<1>2. CASE g.kind = "swipe"
  <2> DEFINE down == Event("down", 1)
             up == Event("up", 1)
             moves == [i \in 1..g.steps |-> Event("move", 1)]
  <2>1. down \in EventSet /\ up \in EventSet /\ Event("move", 1) \in EventSet
    BY DEF Event, EventSet
  <2>2. Script(g) = (<<down>> \o moves) \o <<up>>
    BY <1>2 DEF Script
  <2>3. moves \in [1..g.steps -> EventSet]
    BY <2>1
  <2>4. moves \in Seq(EventSet) /\ Len(moves) = g.steps
    BY <1>0, <2>3, FunctionIsSequence
  <2>5. <<down>> \in Seq(EventSet) /\ <<up>> \in Seq(EventSet) /\ Len(<<down>>) = 1 /\ Len(<<up>>) = 1
    BY <2>1
  <2> HIDE DEF moves, down, up
  <2>6. <<down>> \o moves \in Seq(EventSet) /\ Len(<<down>> \o moves) = 1 + g.steps
    BY <2>4, <2>5, <1>0
  <2>7. (<<down>> \o moves) \o <<up>> \in Seq(EventSet) /\ Len((<<down>> \o moves) \o <<up>>) = 2 + g.steps
    BY <2>5, <2>6, <1>0
  <2> QED BY <2>2, <2>7, <1>0
<1>3. CASE g.kind = "text"
  <2>1. Script(g) = [i \in 1..g.steps |-> Event("char", i)]
    BY <1>3 DEF Script
  <2>2. \A i \in 1..g.steps : Event("char", i) \in EventSet
    BY <1>0 DEF Event, EventSet
  <2>3. Script(g) \in [1..g.steps -> EventSet]
    BY <2>1, <2>2
  <2> QED BY <1>0, <1>3, <2>3, FunctionIsSequence
<1> QED BY <1>0, <1>1, <1>2, <1>3

\* No gesture has begun.
LEMMA InitTouch == TouchInit => TouchInv
<1> SUFFICES ASSUME TouchInit PROVE TouchInv
  OBVIOUS
<1> USE TouchAssumption DEF TouchAssumption, TouchInit
<1>1. (CHOOSE g \in Gesture : TRUE) \in Gesture
  OBVIOUS
<1>2. gesture \in [Run -> Gesture]
  BY <1>1
<1>3. wire \in Seq(Message) /\ got \in [Run -> Seq(EventSet)]
  OBVIOUS
<1>4. outcome \in [Run -> {"none", "running", "completed", "failed", "refused"}]
  OBVIOUS
<1>5. sent \in Nat /\ last \in 0..MaxRuns /\ losses \in 0..MaxLosses
  OBVIOUS
<1>6. phase = "idle" /\ cut = {} /\ fingers = {} /\ broken = FALSE
  OBVIOUS
<1> HIDE DEF TouchAssumption, TouchInit
<1>7. TouchTypeOK
  BY <1>2, <1>3, <1>4, <1>5, <1>6 DEF TouchTypeOK
<1> QED BY <1>6, <1>7 DEF TouchInv, SendInv

\* What the daemon's side of an end leaves behind.
LEMMA EndsKeeps ==
    ASSUME TouchInv, phase # "idle", NEW o \in {"completed", "failed"}, Ends(o), UNCHANGED provider
    PROVE  TouchInv'
BY DEF TouchInv, TouchTypeOK, SendInv, Ends, provider

\* Every step keeps the types of the adapter and of the provider.
LEMMA TouchStep == TouchInv /\ [Next]_vars => TouchInv'
<1> SUFFICES ASSUME TouchInv, [Next]_vars PROVE TouchInv'
  OBVIOUS
<1> USE TouchAssumption DEF TouchAssumption
<1>0. CASE UNCHANGED touch
  BY <1>0 DEF TouchInv, TouchTypeOK, SendInv, touch, hand, provider, Whole, Current
<1>1. ASSUME NEW g \in Gesture, Begin(g)
      PROVE  TouchInv'
  <2>0. last \in 0..MaxRuns /\ last' = last + 1 /\ last' \in Run /\ last' \in 0..MaxRuns
    BY <1>1 DEF Begin, TouchInv, TouchTypeOK, Run
  <2>1. /\ gesture' \in [Run -> Gesture]
        /\ outcome' \in [Run -> {"none", "running", "completed", "failed", "refused"}]
    BY <1>1, <2>0 DEF Begin, TouchInv, TouchTypeOK
  <2>2. sent' = 0 /\ broken' = FALSE /\ phase' = "send" /\ UNCHANGED <<cut, wire, fingers, got, losses>>
    BY <1>1 DEF Begin
  <2>3. TouchTypeOK'
    BY <2>0, <2>1, <2>2 DEF TouchInv, TouchTypeOK
  <2>4. gesture'[last'] = g
    BY <1>1, <2>0 DEF Begin, TouchInv, TouchTypeOK
  <2>5. SendInv'
    BY <2>0, <2>2, <2>4, ScriptType DEF SendInv, Whole, Current
  <2> QED BY <2>3, <2>5 DEF TouchInv
<1>2. CASE Send
  <2> USE DEF TouchInv, TouchTypeOK, SendInv
  <2>1. last \in Run /\ sent \in Nat /\ sent < Whole /\ Current \in Gesture
    BY <1>2 DEF Send, Current
  <2>2. Script(Current) \in Seq(EventSet)
    BY <2>1, ScriptType
  <2>3. Script(Current)[sent + 1] \in EventSet
    BY <2>1, <2>2 DEF Whole
  <2>4. [run |-> last, event |-> Script(Current)[sent + 1]] \in Message
    BY <2>1, <2>3 DEF Message
  <2>5. wire' \in Seq(Message)
    BY <1>2, <2>4 DEF Send
  <2>6. /\ sent' = sent + 1 /\ phase' \in {"await", "observe", "send"} /\ broken' \in BOOLEAN
        /\ phase' = "send" => sent' # Whole
        /\ UNCHANGED <<gesture, outcome, last, cut, fingers, got, losses>>
    BY <1>2 DEF Send
  <2>7. TouchTypeOK'
    BY <2>1, <2>5, <2>6
  <2>8. Whole' = Whole /\ Whole \in Nat
    BY <2>2, <2>6 DEF Whole, Current
  <2>9. SendInv'
    BY <2>1, <2>6, <2>8
  <2> QED BY <2>7, <2>9
<1>3. CASE SendFails
  BY <1>3, EndsKeeps DEF SendFails
<1>4. CASE Acknowledged
  <2>1. CASE sent = Whole
    BY <1>4, <2>1, EndsKeeps DEF Acknowledged
  <2>2. CASE sent # Whole
    <3>1. /\ phase = "await" /\ phase' = "send" /\ UNCHANGED <<gesture, sent, outcome, last, cut>>
          /\ UNCHANGED provider
      BY <1>4, <2>2 DEF Acknowledged
    <3>2. last \in Run /\ sent \in Nat /\ sent <= Whole /\ Current \in Gesture
      BY <3>1 DEF TouchInv, TouchTypeOK, SendInv, Current
    <3>3. Whole \in Nat
      BY <3>2, ScriptType DEF Whole
    <3>4. TouchTypeOK'
      BY <3>1 DEF TouchInv, TouchTypeOK, provider
    <3>5. SendInv'
      BY <2>2, <3>1, <3>2, <3>3 DEF SendInv, Whole, Current
    <3> QED BY <3>4, <3>5 DEF TouchInv
  <2> QED BY <2>1, <2>2
<1>5. CASE AnswerLost
  BY <1>5, EndsKeeps DEF AnswerLost
<1>6. CASE Observe
  BY <1>6, EndsKeeps DEF Observe
<1>7. CASE TouchDies
  BY <1>0, <1>7, EndsKeeps DEF TouchDies
<1>8. CASE Receive
  <2> USE DEF TouchInv, TouchTypeOK
  <2>0. wire # <<>>
    BY <1>8 DEF Receive
  <2>1. Head(wire) \in Message /\ Tail(wire) \in Seq(Message)
    BY <2>0
  <2>2. Head(wire).run \in Run /\ Head(wire).event \in EventSet
    BY <2>1 DEF Message
  <2>3. got' \in [Run -> Seq(EventSet)]
    BY <1>8, <2>2 DEF Receive
  <2>4. fingers' \subseteq {0, 1}
    <3> DEFINE e == Head(wire).event
    <3>1. fingers' = CASE e.type = "down" -> fingers \union {e.finger}
                       [] e.type = "up"   -> fingers \ {e.finger}
                       [] OTHER           -> fingers
      BY <1>8 DEF Receive
    <3>2. e.type = "down" => e.finger \in {0, 1}
      BY <2>2 DEF EventSet
    <3> HIDE DEF e
    <3> QED BY <3>1, <3>2
  <2>5. TouchTypeOK'
    BY <1>8, <2>1, <2>3, <2>4 DEF Receive, hand
  <2>6. SendInv'
    BY <1>8 DEF Receive, hand, SendInv, Whole, Current
  <2> QED BY <2>5, <2>6
<1>9. CASE Vanish
  BY <1>9 DEF Vanish, TouchInv, TouchTypeOK, SendInv, Whole, Current, hand
<1> QED
  BY <1>0, <1>1, <1>2, <1>3, <1>4, <1>5, <1>6, <1>7, <1>8, <1>9
     DEF Next, vars, LocalRequest, WorkerTurn, Starts, Continues, Returns, TimePasses,
         ProviderMoves, Restart, Daemon, Provider
-----------------------------------------------------------------------------
(* Configuration, sample, gesture and wire have their types                *)
(* (remote_worker_controller.c, zxtouch_insert_text).                      *)
THEOREM TypeCorrect == Spec => []TypeOK
<1> DEFINE I == IInv /\ TouchInv /\ deaths \in 0..MaxDeaths
<1>1. Init => I
  BY InitIInv, InitTouch DEF Init, UiAssumption
<1>2. I /\ [Next]_vars => I'
  <2> SUFFICES ASSUME I, [Next]_vars PROVE I'
    OBVIOUS
  <2>1. deaths' \in 0..MaxDeaths
    BY DEF Next, LocalRequest, WorkerTurn, Starts, Continues, Returns, TimePasses, ProviderMoves,
       Restart, vars
  <2> QED BY <2>1, StepIInv, TouchStep
<1>3. I => TypeOK
  BY DEF IInv, TouchInv, TypeOK
<1> QED BY <1>1, <1>2, <1>3, PTL DEF Spec

(* The assertion, the charge inhibit and the charge window go with the     *)
(* configuration and the pause (apply_assertion_state,                     *)
(* update_charge_control).                                                 *)
THEOREM GuardsAreBound == Spec => []GuardsFollow
<1>1. IInv => GuardsFollow
  BY DEF IInv
<1> QED BY <1>1, Inductive, PTL

(* Only cooling, the owner or a new process ends a thermal pause           *)
(* (update_thermal_state).                                                 *)
THEOREM PausesLast == Spec => PauseIsSticky
<1>1. ASSUME IInv, [Next]_vars
      PROVE  [paused /\ ~paused' =>
                \/ ~config'.enabled
                \/ sample'.temp # Missing /\ sample'.temp <= config'.resume
                \/ deaths' # deaths]_vars
  <2> SUFFICES ASSUME paused, ~paused', deaths' = deaths
               PROVE  \/ ~config'.enabled
                      \/ sample'.temp # Missing /\ sample'.temp <= config'.resume
    OBVIOUS
  <2>1. ~Restart
    BY <1>1 DEF IInv, Restart
  <2>2. (WorkerTick /\ due) \/ \E c \in Request : Configure(c)
    BY <1>1, <2>1 DEF Next, LocalRequest, WorkerTurn, Starts, Continues, Returns, TimePasses,
       ProviderMoves, vars, wvars, worker, WorkerTick, SecondsPass, ClockSetBack
  <2>3. CASE WorkerTick /\ due
    <3>1. Apply(config) /\ UNCHANGED <<fixture, config, setBack>>
      BY <2>3 DEF WorkerTick
    <3>2. config \in Request \union {Default} /\ Valid(config) /\ (config.charge => fixture)
      BY <1>1 DEF IInv, WorkerTypeOK, HelperInv
    <3> QED BY <1>1, <3>1, <3>2, ApplyKeeps DEF IInv
  <2>4. ASSUME NEW c \in Request, Configure(c)
        PROVE  \/ ~config'.enabled
               \/ sample'.temp # Missing /\ sample'.temp <= config'.resume
    <3>1. Apply(c) /\ config' = c /\ Valid(c) /\ (c.charge => fixture) /\ UNCHANGED <<fixture, setBack>>
      BY <2>4 DEF Configure, Keep
    <3> QED BY <1>1, <3>1, ApplyKeeps DEF IInv
  <2> QED BY <2>2, <2>3, <2>4
<1> QED BY <1>1, Inductive, PTL DEF Spec, PauseIsSticky

(* Input is begun on a sample that is cool, and fresh unless the clock was *)
(* set back (rt_remote_worker_ui_allowed, rt_remote_worker_tick).          *)
THEOREM InputIsCool == Spec => InputHeedsHeat
<1>1. ASSUME IInv, [Next]_vars
      PROVE  [last' # last /\ config.enabled =>
                /\ sample.temp # Missing /\ sample.temp < config.pause
                /\ age < Interval \/ setBack > 0]_vars
  <2> SUFFICES ASSUME last' # last, config.enabled
               PROVE  /\ sample.temp # Missing /\ sample.temp < config.pause
                      /\ age < Interval \/ setBack > 0
    OBVIOUS
  <2>1. turn = "auto" /\ UiAllowed
    BY <1>1 DEF Next, LocalRequest, WorkerTurn, Starts, Continues, Returns, TimePasses, ProviderMoves,
       Restart, vars, touch, hand, provider, Daemon, Send, SendFails, Acknowledged, AnswerLost, Observe,
       Provider, Receive, Vanish, TouchDies, Ends
  <2>2. HeatInv /\ AgeInv /\ setBack \in Nat
    BY <1>1 DEF IInv, WorkerTypeOK
  <2> QED BY <2>1, <2>2 DEF UiAllowed, HeatInv, AgeInv
<1> QED BY <1>1, Inductive, PTL DEF Spec, InputHeedsHeat
=============================================================================
