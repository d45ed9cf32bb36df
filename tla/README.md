# RootTools runtime: specifications

TLA+ models of the RootTools runtime, a privileged daemon for a jailbroken
iPhone that carries out typed commands for an owner, for paired principals and
for a local app. Paths below are relative to the repository.

## 1. The system

| Component | State | Operations | Modelled in |
|---|---|---|---|
| Command gateway (`Daemon/roottools_execd.c`: `route_capability`, `ledger_*`, `send_action_receipt`) | SQLite ledger: `action_requests`, `execution_events`, `service_meta.revision` | reserve, admit, started event, execute, stamp the revision, complete, capability switch | `CommandLedger` |
| Task runtime (same file: `task_*`, `automation_*`) | `device_tasks`, mirror `automation_jobs` | submit, cancel, tick, recover | `TaskRuntime` |
| Package controller (`Daemon/package_controller.c`) | `staged_packages`, `package_events`, staged files; the device's package databases | begin, append, commit, discard, install, rollback, uninstall, external install | `PackageLifecycle` |
| Self-update (`Daemon/update_controller.c`, `Daemon/roottools_updater.c`, `self_update_tick`) | `self_updates`, five installed targets with their rollback siblings, two launchd jobs | schedule, kick, claim, switch, health, roll back | `SelfUpdate` |
| Policy store and capability registry (`Daemon/control_plane.c`) | one file per disabled capability, a mode file | switch, set mode, evaluate | `PolicyStore` |
| Principal store (`Daemon/principal_store.c`) | `principals`, `principal_grants` | create, revoke, grant, ungrant, authenticate | `PrincipalStore`, `RemoteAccess` |
| Remote access (`Daemon/remote_access_controller.c`) | a session with expiry and transport in a file, the listener | configure, expire, listener, gate of remote requests | `RemoteAccess` |
| Remote worker (`Daemon/remote_worker_controller.c`) | configuration file, power assertions, charge inhibition, thermal state | configure, tick, shutdown | `RemoteWorker`, `UiExecution` |
| ZXTouch input (`roottools_execd.c`: `zxtouch_*`) | one TCP connection per sequence | tap, swipe, insert text | `TouchSequence`, `UiExecution` |
| Provider registry, runtime observer | none | probes | an environment variable (`providerUp`) where it is asked |
| HTTP parsing, read-only routes, app executors, file scopes | none between requests | - | outcomes chosen freely by `CommandLedger` |
| iOS client, host scripts | views, build products | - | not modelled |

**How they interact.** `execd` is one thread. The loop of `main` serves at most
one connection per listener, then runs the ticks of the remote access and
worker controllers, the task runtime (`automation_tick`) and self-update
(`self_update_tick`). Handlers and ticks therefore never interleave with each
other. What does interleave is everything durable: every `ledger_*`, `task_*`,
`rt_package_*` and `rt_update_*` function opens its own SQLite connection and
commits a transaction of its own, so a handler is a *sequence* of durable steps
that a kill, a failed transaction or a resent request can separate. The updater
is a second process that shares `self_updates`, `staged_packages` and the
installed files, and launchd restarts either. The one thread also has waits that
nothing bounds: the client of a connection, whose request is read before authentication on either
listener (`roottools_execd.c:1271`), and the children of `fixed_spawn_wait`
(`roottools_execd.c:1495`: `uicache`, `uiopen`, `killall`, `launchctl`) and of
`battery_ioreg_snapshot` (`remote_worker_controller.c:224`). While it waits no tick runs.

**What is hard.** A command whose effect is done and whose receipt is not; a
task interrupted between acting and recording; a mirror table updated by a
second transaction; policy and grants that change between submission and
execution; a provider that acts and then reports failure; two processes that
overwrite one row; power loss between any two renames; a thread that is kept waiting
while the clock, the device and the updater go on. `PROJECT.json` lists each
with its line ("hazards") and with the properties that watch it.

**What makes each correct.**

- *Gateway*: a requestId acts at most once and has one receipt, which is true;
  nothing runs that was not admitted as it starts; a revision names one mutation.
- *Task runtime*: repetition is bounded, results are final, revocation stops queued
  work, nothing stays `running` without a tick behind it, every task settles.
- *Packages*: one active package per identifier, verified bytes stay verified,
  artifacts needed for a rollback are kept, rows and history tell the device.
- *Self-update*: no installed file is lost at any instant, execd comes back, an
  update ends as a whole success or a whole rollback, one at a time.
- *Policy store*: no half-done change admits more than the old and new policy do;
  mode and switches agree; the owner is never locked out by a mode.
- *Principal store*: a revoked or expired principal neither authenticates nor
  is granted anything; grants are of R0 and R1 only.
- *Remote access*: no listener without an unexpired session of an active principal.
- *Remote worker*: charging and thermal pauses follow their hysteresis; no assertion
  or inhibition outlives the worker.
- *ZXTouch input*: every touch that goes down comes up, except in a gesture that is
  cut (section 3).

## 2. Modules

Every module has the same shape: durable state first, then the handler's
locals (`pc`, `cur`, ...), then observation variables that the code does not
have and that no guard of the code's actions reads (except the bounds). One
action is one durable step of a handler, named after the function or the branch
it translates; `X` and `XFails` are the two outcomes of a transaction or a
system call. A definition whose comment begins with "Mutation" is not part of
the model: it is a wrong version of the definition after it, used to show that
a property can fail. In the modules with liveness, `waiting` says that the daemon's thread
waits for a client or a child; `Wait` begins such a wait, at the control points where the code
has one, and the thread's next step, or its end, ends it. A kill of the daemon (`Crash`, `ExecdDies`,
`Dies`, `Restart`) is not SIGTERM, which lets the iteration finish.

- **`AtMostOnce`** is what the gateway promises a client: a request is submitted,
  maybe acts, once, and is answered with one final receipt that tells whether it
  acted.
- **`CommandLedger`** is how. `status`, `request`, `receipt` are the columns of
  `action_requests`; `events` and `revision` their tables. `Submit` is the front of
  `route_capability`, `Reserve*` the four outcomes of `ledger_reserve`, `Admit*` the
  judgement of revision, grant, policy and provider, `AppendStarted`, `Execute`,
  `StampRevision`, `Complete` the durable steps that follow. It implements
  `AtMostOnce` by the mapping at its end (property `ImplementsAtMostOnce`).
- **`TaskRuntime`**: `state` and `attempts` are columns of `device_tasks`, `mirror` is
  `automation_jobs.state`. `TickUnauthorized`, `TickWaits`, `TickProviderDown` and
  `TickStart` are the branches of `automation_tick` on the task `task_next` selects;
  `RunMirror`, `Act`, `Settle`, `TickMirror` the steps after it. `RecoverMirror` and
  `RecoverTasks` are the start of `main` after a crash.
- **`PackageLifecycle`**: a package is a row (`state`, `ident`, `received`), a `file` made
  of chunks, and its last `history` event (`package_events`); `device` is what the package managers have.
  `Begin` .. `Ready` are staging, `Start` .. `Record` install and rollback,
  `StartUninstall` .. `Retire` uninstall, `Updater*` the second process.
- **`AtomicUpdate`** is what the self-updater promises the owner: RootTools is of one
  version; the one attempt of an update makes it the update's version at one instant
  or leaves it, and the verdict says which. A mixture can only come from an attempt
  that is interrupted or that cannot put a file back.
- **`SelfUpdate`** is how. `installed` and `backup` are versions of the five targets of
  `run_update` and of their rollback siblings; `upc` walks `run_update` one
  launchctl command, rename or row update at a time, `epc` walks `self_update_tick`.
  `Reboot`, `ExecdDies` and `ExecdRestarts` are launchd and power. It implements
  `AtomicUpdate` by the mapping at its end (property `ImplementsAtomicUpdate`): while an
  update is undecided (from bootout on) the version that counts is the one `before` it,
  the new daemon's answer is the instant of the update, and a kick or a reboot interrupts.
- **`PolicyStore`**: `disabled` are the files of the policy directory, `mode` is `.mode`.
  `Switch` and `Mark` are `rt_capability_set_enabled` for the owner's switch, `SetMode`,
  `Apply` (once per capability, in the order of the registry) and `Commit` are
  `rt_policy_set_mode`; `*Fails` are their failing file operations, `Dies` a death of the
  daemon between two of them.
- **`PrincipalStore`**: `principal` and `grant` are the two tables, `clock` is `time(NULL)`.
  Each operation is one SQLite statement. The module has no `Next` of its own:
  `RemoteAccess` composes it.
- **`RemoteAccess`** composes the principals with the remote session and the main loop.
  `live` is the session in `g_state`, `kept` the one in the state file, `bound` and `reported` the
  address and the listener flag of `g_state`, `socket` the `remote_listener` of `main`.
  `Normalize` is `normalize_runtime_state`, `Loop` the top of the loop, `Start`, `Stop` and
  `StopFails` are `rt_remote_access_configure`, `Observe` is `GET /v1/remote-access`, which looks at the
  session again in the middle of an iteration, `RemoteRequest` and `Authorize` the gate of `handle`
  and the grant it asks for later. `over` records the sessions that have ended for good.
- **`RemoteWorker`**: `sample` is the battery, `paused`, `awake`, `inhibited` and `owns` are the
  thermal pause, the display assertion and the charge inhibit with its owner. `Apply` is the
  whole of `rt_remote_worker_tick`: sample, thermal state, charge control, assertion.
  `since` is what the wall clock says of the sample's age, `age` is the truth.
- **`TouchSequence`**: a gesture is a script of events; `sent` counts those written to the
  ZXTouch connection, `wire` holds what the provider has not applied yet, `fingers` are
  down on the screen. `Send` .. `Observe` are the adapter, `Receive` and `Vanish` the provider.
- **`UiExecution`** composes the two in the order of the main loop: a local request, the
  worker's tick, then `automation_tick`, which starts a gesture only if
  `rt_remote_worker_ui_allowed` says so.
- **`MC*`** give the constants small values. **`*Proofs`** hold the theorems.

`TaskRuntime` rests on `CommandLedger` in one place: a `taskId` is the requestId of the
command that submitted it, so each is submitted at most once.
`PackageLifecycle` shows the updater as three steps; `SelfUpdate` shows the
packages as one choice of whether the artifact verifies. `UiExecution` leaves the
choice of the task to `TaskRuntime` and `RemoteAccess` leaves the policy to
`PolicyStore`: each allows whatever the other could decide.

## 3. Runs

All bounds are constants of the modules: `MaxRevision`, `MaxCrashes`, `MaxLost`,
`MaxReboots`, `MaxDeaths`, `MaxKickFaults`, `MaxFaults`, `MaxClock`, `MaxSetBacks`, `MaxSessions`,
`MaxMinutes`, `MaxMoves`, `MaxRuns`, `MaxLosses`, `MaxSetBack`. `MaxAttempts`, `MaxChars` (256) and
`Interval` (15 seconds) are the code's own, scaled down. Deadlock is checked except in the self-update runs, where every update has
settled in the end, and in `packages_update`, where all ids may be used up.

| Run | Instance | Shows |
|---|---|---|
| `ledger` | 2 requests, a read and a mutation, revisions 0..2, unbounded crashes, resends and lost transactions; ids symmetric | receipts are true, the event log tells how far each request got, revisions are unambiguous and expectations honoured, refinement of `AtMostOnce` (which holds the finality of receipts and at-most-once execution) |
| `ledger_crash` (violated) | the same | two mutations act under one `expectedRevision` when the increment is lost |
| `tasks` | a launch and an input created in the same second, 2 attempts, 1 crash, 1 lost write, waits at any time, fairness (863 000 states) | repetition is bounded, the mirror follows, revocation stops queued work; without a lost write every task settles once the UI stays ready, unless the daemon waits for good |
| `tasks_input` (violated) | two inputs, 1 crash | recovery repeats an input |
| `packages` | 2 DEBs and 1 IPA of one identifier, 1 crash, 1 lost write (2.7 million states) | verified bytes and artifacts last, rows and their last events agree with the device, only documented transitions |
| `packages_update` | 2 RootTools DEBs, which the updater activates, and an IPA with the same identifier, which execd installs, rolls back and uninstalls; 2 chunks each, 1 crash, 1 lost write (2.1 million states) | one active package per identifier while two processes activate, one in the middle of the other, and resumable uploads |
| `packages_discard` (violated) | 2 RootTools DEBs, no faults | a discard during an update leaves an installed row without its file |
| `update` | 2 updates, 5 targets, 2 reboots, a death of execd, a failing kickstart, a failing rename, fairness | no target lost, execd survives, one active update unless a kickstart fails, refinement of `AtomicUpdate` (which holds that success is whole), nothing new after a rollback, every queued update settles unless its updater was killed, execd is stranded or execd waits for good (401 000 states) |
| `update_rollback` (violated) | a restoring rename that fails | "rolled_back" with a target missing |
| `policy` | 4 capabilities (R0, R1, the escape hatch, R2), 2 failing file operations, 1 death | a change lies between the old and the new policy, success is whole, the mode tells the switches |
| `remote` | a host and another principal, two sessions of one minute, two addresses, a failing write, a move, a death, a clock of 3 minutes that is set back once, waits at any time (2.1 million states), fairness | what is over stays over, the revoked never act, the listener is told truthfully and follows the session, unless the daemon waits for good |
| `ui` | 3 configurations and one that is refused, 4 samples, a swipe and texts below and above the character limit, 2 gestures, a death of the provider and of the daemon, a clock that is set back | guards, charge window and thermal pause are bound to the mode, input heeds the heat, what arrives is a whole gesture or is reported failed, fingers lift |

*Why these bounds are enough to be interesting.* Two requests cover every pair
(the ledger relates requests only through the revision); two tasks cover the
order of `task_next`, which compares tasks pairwise; three packages of one
identifier let one be active while another is retained and a third staged; one
fault of each kind at every point meets every window, two sessions let one replace the
other while its request is in progress, a text of two characters against a limit of
one meets the boundary, and two reboots meet the
recovery of a recovery. Fault counts are small because several properties say
what holds *until* a fault (`lost = 0 => ...`): with a bound of one, both sides
occur.

*Fairness.* Weak fairness is asked of the daemon only while its thread does not wait.
`FairSpec` of `TaskRuntime` is fair to the daemon's own steps then: `select` returns after a
second at most, SQLite and ZXTouch are given timeouts, and launchd has `KeepAlive` for execd. `FairSpec` of
`SelfUpdate` is fair to the tick of an execd that does not wait, to the updater's steps (each
command it runs has a timeout) and to launchd's restart. `Spec` of `RemoteAccess` is
fair to `Turn`, the iteration of the main loop. That a wait ends is *not* assumed: a silent client of either
listener, or a child that hangs, may keep the thread for ever (section 1). The
liveness properties therefore begin with `[]<>~waiting`: they speak of every behaviour in which
the daemon is not kept waiting for good, however often and however long it waits. So
`EveryTaskSettles` and `UpdatesSettle` do not promise a time, and `ListenerFollows` says that
the listener is right time and again, not always: while the daemon serves
or waits it is stale, and a peer that connects to it and is silent keeps it open past the end of the session for as
long as it likes. What such a peer cannot do is act: `EndedStaysEnded` has no
fairness and no exception for waits. Clients, policy and the world get no fairness.
`EveryTaskSettles` also assumes that the UI stays ready from some point on; a task waits for ever
otherwise, as it should. No strong fairness is used.

*Violations.* Each run expected to be violated states what a document of the
repository says; `PROJECT.json` quotes the line ("findings"). In short: a lost
revision increment lets two mutations act under one expected revision; recovery
requeues UI input; a failed restoring rename is ignored; a discard races the updater.

*Divergences without a run.* These were met while modelling, and the models
show the code's behaviour without a property against it. A kickstart that fails late reopens
the schedule (`OneActiveUnlessKickFails` excepts it). An app launch is authorised at its
tick under `device.app.launch` whatever capability submitted it.
`docs/architecture/remote-access.md:24` names the loss of the Tailscale address among the ends
of a session; the listener closes, the session stays, and it is served again when the
address returns (`over` therefore leaves this end out). A session reconfigured while its listener is open reports
`listener_active` 0 until the listener next changes. A stop whose state file cannot be
written is answered with a failure, and the next daemon takes the session up again.
The comment at `remote_worker_controller.c:462` announces an immediate sample; the forced
tick applies the new configuration to the last one. The adapter's sockets do not
ignore SIGPIPE, so a provider that closes its connection can take the daemon with
it in the middle of a gesture (`TouchDies`).

Some behaviour is excepted from a property rather than reported. `UpdatesSettle`:
`kickstart -k` kills an updater that claimed its request after execd peeked at it;
the row stays active, every later schedule is refused and the code has no
recovery, so updates whose updater was killed are excepted, as are those queued
when a failed rollback has left no execd to kick the updater (`Stranded`).
`OneActiveUnlessKickFails` excepts a failing kickstart, whose mark overwrites what the updater
wrote. `ActsAreBounded` adds the crashes to its bound, so that a task that takes the daemon
with it is repeated by every restart. `InstalledIsOnDevice` holds until a crash, a lost write or a
provider that acts and fails; nothing reconciles rows and device afterwards.
`ModeTellsSwitches` and `SuccessIsWhole`: when the mode file cannot be written after a
switch, the owner's retry finds the switch as it should be, answers success and
leaves the old mode; the first holds of executions without a failure (and while
no mode was ever written), the second excepts the request that finds nothing to change.
`EndedStaysEnded` holds a daemon to the ends it wrote or answered with success, and to
the expiry in any case. `InputHeedsHeat` takes the age of a sample for granted only while the
clock was not set back, since the code measures it with the wall clock. `FingersLift`
excepts the finger of a gesture that was cut: nothing lifts it but the next gesture.
An IPA whose metadata cannot be read is installed under the identifier its
uploader attested; `InstalledIsOnDevice` is checked with true attestations.

`tasks` takes 2 attempts instead of the 3 of the code: the first failure retries and
the second one settles, which are the two cases of `AfterFailure`; the theorems
hold for any number.

## 4. Proofs

TLAPS proves the following for every value of the constants, from the named
assumption of each module only (`LedgerAssumption`, `TaskAssumption`, `PackageAssumption`,
`UpdateAssumption`, `PolicyAssumption`, `PrincipalAssumption`, `RemoteAssumption`, `WorkerAssumption`,
`TouchAssumption`, `UiAssumption`, which say that the constants are of the right kind, that the null
values are not members of them, and that the default configuration is valid and
off). Each rests on one inductive invariant `IInv`, proved initial and preserved with
one step per action, and lifted by `PTL`. `PROJECT.json` lists the theorems and the
properties of the runs they state. Theorems about `Spec` hold of `FairSpec`, which implies it.

**`CommandLedgerProofs`.** `IInv` is the type invariant with: `RowInv` (what a row in each
state stores), `RunInv` (a request that ran is past admission), `HandlerInv` (the request
being handled is pending and is the one of the row), `AdmitInv` (what was judged at
admission still holds until the executor starts: nothing else runs in between), `StampInv`
(no stored or stamped revision is ahead of the counter), and four of the properties
themselves. The invariant is needed because "at most once" is not inductive: it
holds because a pending row that is not the handler's is never executed. Proved:
type correctness, at-most-once execution, truth of receipts, order of revisions,
finality of stored receipts, execution only of what is admitted, and that each
step of the ledger is a step of `AtMostOnce` or a stutter. The event log needs one more
invariant, `LogInv` (what stands in the log for each state of the row, and what the
handler's control point knows of its own). `AtMostOnceExecution`, `LedgerIsFinal` and
`ExecutesOnlyAdmitted` are proved and not repeated by a run: `ImplementsAtMostOnce` covers them.
`DoubleEffectIsUnanswered` is what remains true where the run `ledger_crash` finds two effects under
one expected revision: at most one of the two has a stored receipt.

**`TaskRuntimeProofs`.** `AttemptInv` (a task that may run has attempts left), `ActInv` (each touch
of the device is matched by an attempt, a crash, a lost write or the result about
to be recorded), `RunInv` (only the tick in progress or a recovery to come has a running
task), `AuthorityInv`, `MirrorInv` (how far the mirror may be behind at each control point).
Proved: all safety properties of the run `tasks`, and `NoOrphanRuns` and `TerminalIsFinal`, which no run repeats.
Two theorems say what `EveryTaskSettles` rests on besides fairness. `SomeTaskIsNext`: a tick finds a
task while one waits, from least elements of the ranks and then of the creation times. And
`TasksAreWorkedOff`: `Left(t)` counts the steps task `t` has left, at most `8 * MaxAttempts + 7`; each
step of the daemon whose write is not lost lowers it for one task and changes no other, and only a
submission, a crash or a lost write raises it (`HeldInv`: a request or tick works on a task that has a row).

**`PackageLifecycleProofs`.** `StepInv` (what each control point relies on, and that every
verified row, and the package the updater works on, is sound) with
`OneInstalledPerIdentifier`. Proved without further assumptions: type correctness, one active
package per identifier, verification lasts. The properties that the updater's
race breaks are proved under `StandAlone` (no RootTools DEB in the catalog), by `ArrowInv`:
artifacts are kept and transitions are the documented ones. `RowsTellTheDevice` also
assumes `Truthful` callers and uses `DeviceInv` (the device is ahead of the rows, and the rows
of the events, only between a provider and the transactions after it). `UploadsAreBehindFile` counts faults: by `UploadInv` the
file of an upload is lost only by one fault, and the empty slot that then takes its
place survives only by a second.

**`SelfUpdateProofs`.** `FileInv` says for each control point of `run_update` where each target and its
old version are: `Kept`, `New` or `Moved` away, in the order of the two renames. With
`NewInv` (a request that is not claimed has no rollback sibling), `LostInv` (what was
missing before this update is in the sibling of an earlier one), `DaemonInv` (at which points
execd may be stopped), `RowInv` (while no kickstart fails, the one active row is the
updater's or waits) and `LaunchInv` it gives all safety properties of the run `update`.
Neither `NoTargetLost` nor `SucceedsWhole` is inductive: a single missing target is
only known to be safe from where the updater stands in the switch. The refinement of
`AtomicUpdate` (`UpdatesAreAtomic`) needs `ClaimInv` besides: a version is nowhere before its
attempt and not among the files the attempt replaces, so that a mixture of old, new and
missing files is of one version only if it is the old or the new one
(`VersionOfMixture`). Each kind of step (execd's, the switch, the middle, the ends) has a
lemma that says what `AtomicUpdate` sees of it. `SucceedsWhole` is proved and not repeated by
a run: `ImplementsAtomicUpdate` covers it. For what `UpdatesSettle` rests on, `OrderInv` says
that targets are switched in order, so that `StepsLeft` is a measure: at most `4 * TargetCount + 13` (33
for the five targets), lowered by each step of the updater, its failures and rollback included, and raised
only by a kick or a reboot (`UpdatersEnd`). `AttendedInv` is `NoUpdateIsForgotten`: an update that was
claimed and has no report is in progress, or its updater was killed.

**`RemoteAccessProofs`.** `HeldInv` (the daemon never holds another session than the file),
`OverInv` (a session that is over and still held is one of a revoked host, so it
admits nobody), `AskInv` (a request in progress was let in into a session that
lasts), `GoneInv` and `OrderInv` (session ids are given out in order). Proved: all safety
properties of the run `remote`, for any principals, grants, clocks and faults. For `ListenerFollows`,
`ListenerIsLookedAfter` says that the loop is back at its top at most four steps after it left it,
whatever it serves, and that its step there puts the listener right unless a bind fails.

**`UiExecutionProofs`.** `HelperInv` (an inhibit is the controller's own), `HeatInv` (without a pause the
last sample is cool), `AgeInv` (a clock that was never set back tells the age of the
sample). Proved: `GuardsFollow`, `PauseIsSticky`, `InputHeedsHeat` and type correctness, the last one with
`SendInv` (a gesture that sends has an event left).

**`PolicyStoreProofs`.** `LoopInv` (the capabilities the loop has passed are as the target
says) with `BetweenOldAndNew` and `ModeTellsSwitches`. Proved: all properties of the run
`policy`. Success is whole because the loop ends at the first failure, and the escape
hatch needs no invariant at all: no step of a mode change disables it.

**`TouchSequenceProofs`.** A run's events are counted on the wire (`Count`, `UnderWay`), and the
lemmas `CountAppend`, `CountTail` and `CountTake` say what sending, applying and losing events do to
the count. `SequenceInv` then says that what a run got, followed by its events under way, is a
beginning of its script (`PrefixInv`); that only the run in hand grows, by what the adapter
counted as sent (`RunInv`, `SentInv`); that nothing is under way and no finger is down on a
broken connection (`BrokenInv`); that the wire keeps the order of the runs, so a run whose
events are still under way lets no later one begin (`WireInv`); and which touch holds each
finger (`FingerInv`). Proved: `WholeOrFailed` and `FingersLift`, for scripts and texts of any length.

**Only model-checked:** liveness (`EveryTaskSettles`, `UpdatesSettle`, `ListenerFollows`), which is out
of the prover's reach: what is missing between the measures above and these properties is
`ENABLED` and the induction that turns a falling measure and weak fairness into an end. Every
invariant and action property of the runs is proved.

## 5. What is abstracted

- JSON, HTTP, base64, hashing, archive parsing and timestamps. A command is the
  record of fields the gateway looks at; two commands have one fingerprint iff
  they are equal. A file is chunks that match the declared hash or do not.
- Executors are a choice of outcome: whether they acted and what they observed.
- Clients are arbitrary: they may send any command in any order, resend and
  give up. Loss of an answer is a client that never reads `reply`.
- The legacy migration of `automation_jobs` in `ledger_open` changes nothing on the
  databases modelled (each mirror row is inserted after its task row).
- The updater's extraction and signing of candidates is one choice of success
  before the switch; `rt_update_mark` is assumed to be stored.
- A principal and its token are one; rotation of the agent's token is not shown.
- Battery samples, thermal thresholds and percentages are the code's numbers;
  brightness, the battery report and `PredictiveChargingInhibit`, which is only
  observed, are left out. The charge helper exists only with the test fixture, as in the code.
- Coordinates and the screen's size are left out of gestures: a point outside the
  screen fails before anything is sent.
- `device_tasks` inserts that fail leave no task and are not shown.
- A provider that reports success is trusted to have acted on the file it was given.

## 6. Not modelled

- *Provider registry, runtime observer*: stateless probes of files and ports. Their
  answers are the variable `providerUp`, or a free choice, where they are asked.
- *HTTP parsing and read-only routes*: one request is read, answered and forgotten;
  no state is kept between requests and no step of another actor can come between.
- *App executors and file scopes*: one system call sequence each, behind the
  gateway; `CommandLedger` chooses their outcome freely.
- *iOS client*: views over an HTTP client. The daemon is the authority for all they
  show, and clients are arbitrary in every module.
- *Host tooling*: build, packaging and qualification scripts on a developer's machine.

## 7. Plan

Done: all modules of section 2, and the proofs of section 4. Left: the composition of `PrincipalStore`
and `PolicyStore` with `TaskRuntime`, in which the free variable `permitted` is what the
two stores say at that moment.
