---------------------------- MODULE RemoteWorker ----------------------------
(***************************************************************************)
(* Remote Worker mode (remote_worker_controller.c): the battery sample,    *)
(* the thermal pause with its hysteresis, the assertion that keeps the     *)
(* display awake, and the charge guard.                                    *)
(*                                                                         *)
(* Two kinds of process: with the test fixture every tick samples and a    *)
(* charge helper exists; without it a sample is taken when Interval        *)
(* seconds of wall clock have gone by, and there is no helper.  What the   *)
(* battery says is read nowhere else, so it is chosen when it is sampled.  *)
(* Of the clock only differences are used: whether it is the second of the *)
(* last tick, and how far it is from the last sample.                      *)
(***************************************************************************)
EXTENDS Integers

CONSTANTS Sample,       \* what a sample can find
          Request,      \* configurations the owner asks for
          Default,      \* default_config
          Interval,     \* seconds between samples
          MaxSetBack    \* bound on how far the clock is set back

Missing == -1           \* the temperature of a sample without one

\* config_valid, without the brightness; hundredths of a degree and percent.
Valid(c) ==
    /\ 40 <= c.floor /\ c.floor <= 79
    /\ c.floor + 5 <= c.ceiling /\ c.ceiling <= 90
    /\ 2500 <= c.resume /\ c.resume <= 3900
    /\ c.resume + 200 <= c.pause /\ c.pause <= 4500

ASSUME WorkerAssumption ==
    /\ \A s \in Sample : s.temp \in Int /\ s.percent \in Nat /\ s.power \in BOOLEAN
    /\ \A c \in Request \union {Default} :
          /\ c.enabled \in BOOLEAN /\ c.charge \in BOOLEAN
          /\ {c.floor, c.ceiling, c.resume, c.pause} \subseteq Int
    /\ Valid(Default) /\ ~Default.enabled /\ ~Default.charge
    /\ Interval \in Nat \ {0} /\ MaxSetBack \in Nat

VARIABLES
    fixture,    \* the process has the test fixture
    config,     \* the file and g_state.config: one is written before the other
    sample,     \* the last battery sample
    due,        \* the clock does not show the second of the last tick
    since,      \* the clock minus g_last_battery_sample, Interval for more
    paused,     \* thermal_paused
    awake,      \* assertion_active
    inhibited,  \* charge_inhibited: the helper's, which lives in the daemon
    owns,       \* g_controller_owns_inhibit
    \* observation
    age,        \* the real seconds since the last sample, Interval for more
    setBack     \* how far the clock was set back

worker == <<config, sample, due, since, paused, awake, inhibited, owns>>
wtime  == <<age, setBack>>

Capped(n) == IF n > Interval THEN Interval ELSE n

\* Mutation: the pause is lifted as soon as it would not begin.
PausesNoHysteresis(c, s, p) ==
    c.enabled /\ (s.temp = Missing \/ s.temp >= c.pause)

\* update_thermal_state, from pause p.
Pauses(c, s, p) ==
    c.enabled /\ (s.temp = Missing \/ IF p THEN s.temp > c.resume ELSE s.temp >= c.pause)

\* update_charge_control: whether charging is to be inhibited.
Desired(c, s, p) ==
    IF p \/ s.percent >= c.ceiling THEN TRUE
    ELSE IF s.percent <= c.floor THEN FALSE
    ELSE inhibited

\* Mutation: a guard that is switched off leaves the inhibit to the device.
GuardForgets(c) ==
    IF ~(c.enabled /\ c.charge) \/ ~sample'.power THEN UNCHANGED <<inhibited, owns>>
    ELSE /\ inhibited' = Desired(c, sample', paused')
         /\ owns' = inhibited'

\* Only the fixture's helper is ever driven, and it does not fail.
Guard(c) ==
    IF ~fixture \/ (c.enabled /\ c.charge /\ ~sample'.power)
    THEN UNCHANGED <<inhibited, owns>>
    ELSE IF c.enabled /\ c.charge
    THEN /\ inhibited' = Desired(c, sample', paused')
         /\ owns' = inhibited'
    ELSE /\ inhibited' = (inhibited /\ ~owns)
         /\ owns' = FALSE

\* Mutation: the time of the last sample is noted at every tick.
ResampleNotes ==
    \/ /\ fixture \/ since = Interval
       /\ sample' \in Sample
       /\ since' = 0 /\ age' = 0
    \/ /\ ~fixture /\ since # Interval
       /\ since' = 0
       /\ UNCHANGED <<sample, age>>

Resample ==
    \/ /\ fixture \/ since = Interval
       /\ sample' \in Sample
       /\ since' = 0 /\ age' = 0
    \/ /\ ~fixture /\ since # Interval
       /\ UNCHANGED <<sample, since, age>>

\* rt_remote_worker_tick under configuration c, in a second that is new to it;
\* apply_assertion_state may fail to acquire and will try again.
Apply(c) ==
    /\ due' = FALSE
    /\ Resample
    /\ paused' = Pauses(c, sample', paused)
    /\ Guard(c)
    /\ awake' \in IF c.enabled /\ ~paused' THEN {TRUE, awake} ELSE {FALSE}

WorkerInit ==
    /\ fixture \in BOOLEAN
    /\ config = Default     \* no file yet
    /\ sample \in Sample
    /\ due = FALSE /\ since = 0
    /\ paused = Pauses(config, sample, FALSE)
    /\ awake \in IF config.enabled /\ ~paused THEN BOOLEAN ELSE {FALSE}
    /\ inhibited = FALSE /\ owns = FALSE
    /\ age = 0 /\ setBack = 0

\* rt_remote_worker_tick, from the loop and from GET /v1/remote-worker.
WorkerTick ==
    /\ IF due THEN Apply(config) ELSE UNCHANGED <<worker, age>>
    /\ UNCHANGED <<fixture, config, setBack>>

\* persist_config, a rename, and the assignment after it.
Keep(c) == config' = c

\* Mutation: the thresholds are not compared with each other.
ConfigureUnchecked(c) ==
    /\ c.charge => fixture
    /\ Keep(c)
    /\ Apply(c)
    /\ UNCHANGED <<fixture, setBack>>

\* rt_remote_worker_configure: what is refused or not persisted changes
\* nothing; the tick it forces does not force a sample.
Configure(c) ==
    /\ Valid(c)
    /\ c.charge => fixture
    /\ Keep(c)
    /\ Apply(c)
    /\ UNCHANGED <<fixture, setBack>>

\* rt_remote_worker_init, after a death as after rt_remote_worker_shutdown:
\* the assertion dies with its process.
WorkerRestart ==
    /\ due' = FALSE /\ since' = 0 /\ age' = 0
    /\ sample' \in Sample
    /\ paused' = Pauses(config, sample', FALSE)
    /\ awake' \in IF config.enabled /\ ~paused' THEN BOOLEAN ELSE {FALSE}
    /\ owns' \in IF fixture /\ config.enabled /\ config.charge /\ sample'.power
                 THEN {paused' \/ sample'.percent >= config.ceiling} ELSE {FALSE}
    /\ inhibited' = owns'
    /\ UNCHANGED <<fixture, config, setBack>>

\* Time goes by; a clock that was set back can reach a second again.
SecondsPass(n) ==
    /\ due' \in IF setBack = 0 THEN {TRUE} ELSE BOOLEAN
    /\ since' = Capped(since + n)
    /\ age' = Capped(age + n)
    /\ UNCHANGED <<fixture, config, sample, paused, awake, inhibited, owns, setBack>>

\* The clock is set back, perhaps into the second of the last tick.
ClockSetBack(n) ==
    /\ setBack + n <= MaxSetBack
    /\ setBack' = setBack + n
    /\ since' \in {since - n} \union (IF since = Interval THEN {Interval} ELSE {})
    /\ due' \in BOOLEAN
    /\ UNCHANGED <<fixture, config, sample, paused, awake, inhibited, owns, age>>

WorkerTypeOK ==
    /\ fixture \in BOOLEAN
    /\ config \in Request \union {Default} /\ Valid(config)
    /\ sample \in Sample
    /\ due \in BOOLEAN
    /\ since \in -MaxSetBack..Interval
    /\ paused \in BOOLEAN /\ awake \in BOOLEAN
    /\ inhibited \in BOOLEAN /\ owns \in BOOLEAN
    /\ age \in 0..Interval
    /\ setBack \in 0..MaxSetBack
=============================================================================
