----------------------------- MODULE SelfUpdate -----------------------------
(***************************************************************************)
(* RootTools replacing itself: execd schedules an update and kicks the     *)
(* launchd job of the updater; the updater, a process of its own, claims   *)
(* the request, stops execd, swaps the installed files one rename at a     *)
(* time, starts the new execd and either keeps it or puts the old files    *)
(* back (update_controller.c, roottools_updater.c, self_update_tick).      *)
(*                                                                         *)
(* The two processes share the rows of self_updates, which rt_update_mark  *)
(* overwrites whatever they hold, and the files.  launchd runs at most one *)
(* updater; "kickstart -k" kills it and starts another.  Each rename, each *)
(* row update and each launchctl command is a step, and a reboot may come  *)
(* between any two of them.                                                *)
(*                                                                         *)
(* Contents of files are versions: the update a file came from, or Base.   *)
(* Sibling candidates are made and removed with the update's own work      *)
(* directory and are not shown.  A claimed request is never queued again,  *)
(* so an update runs at most once and finds no rollback sibling of its own.*)
(***************************************************************************)
EXTENDS Integers, FiniteSets

CONSTANTS Update,        \* requestIds of scheduled updates
          Base,          \* the version installed at first
          TargetCount,   \* number of replaced files and directories, 5 in run_update
          DaemonBinary,  \* the target whose version execd serves
          DaemonPlist,   \* the target launchd loads execd's job from
          UpdaterBinary, \* the target kickstart runs
          UpdaterPlist,  \* the target launchd loads the updater's job from
          MaxReboots,    \* bound on power losses
          MaxDeaths,     \* bound on deaths of execd by itself
          MaxKickFaults, \* bound on "launchctl kickstart" failing
          MaxFaults,     \* bound on renames that fail while files are put back
          None

Target == 1..TargetCount
Version == Update \union {Base}

ASSUME UpdateAssumption ==
    /\ TargetCount \in Nat \ {0}
    /\ {DaemonBinary, DaemonPlist, UpdaterBinary, UpdaterPlist} \subseteq Target
    /\ {MaxReboots, MaxDeaths, MaxKickFaults, MaxFaults} \subseteq Nat
    /\ Base \notin Update
    /\ None \notin Version

VARIABLES
    \* durable
    state,      \* self_updates.state of each request
    installed,  \* the version at each target, None while it is missing
    backup,     \* the rollback sibling of each update and target
    \* launchd and execd
    registered, \* the updater's job is loaded
    loaded,     \* execd's job is bootstrapped: launchd keeps it alive
    serving,    \* the version of the running execd, None when it is down
    epc, peeked,           \* execd: control point, and the request it peeked
    waiting,               \* it is in recv, read or waitpid until a client or a child answers
    \* the updater process
    upc, job, swapped, knew,  \* control point, request, switched targets, old version known
    \* observation
    before,     \* what was installed when the update in progress stopped execd
    killed,     \* the updates whose updater was killed
    reboots, deaths, kickFaults, faults

files   == <<installed, backup>>
execd   == <<registered, loaded, serving, epc, peeked>>
updater == <<upc, job, swapped, knew>>
ghosts  == <<before, killed>>
bounds  == <<reboots, deaths, kickFaults, faults>>
work    == <<state, files, execd, updater, ghosts, bounds>>
vars    == <<work, waiting>>

Active  == {"queued", "launching", "running"}
Settled == {"succeeded", "failed", "rolled_back", "rollback_failed"}

DaemonFiles  == {DaemonBinary, DaemonPlist}
UpdaterFiles == {UpdaterBinary, UpdaterPlist}

Present(fs) == \A t \in fs : installed[t] # None

Mark(u, s) == state' = [state EXCEPT ![u] = s]

Init ==
    /\ state = [u \in Update |-> "absent"]
    /\ installed = [t \in Target |-> Base]
    /\ backup = [u \in Update |-> [t \in Target |-> None]]
    /\ registered = TRUE /\ loaded = TRUE /\ serving = Base
    /\ epc = "idle" /\ peeked = None /\ waiting = FALSE
    /\ upc = "none" /\ job = None /\ swapped = {} /\ knew = FALSE
    /\ before = installed
    /\ killed = {}
    /\ reboots = 0 /\ deaths = 0 /\ kickFaults = 0 /\ faults = 0
-----------------------------------------------------------------------------
(* execd                                                                   *)

\* Mutation: another active update does not keep a new one from being queued.
ScheduleRegardless(u) ==
    /\ epc = "idle"
    /\ state[u] = "absent"
    /\ \A v \in Update : state[v] # "queued"
    /\ Mark(u, "queued")
    /\ UNCHANGED <<files, execd, updater, ghosts, bounds>>

\* rt_update_schedule: one transaction, refused while another update is active.
Schedule(u) ==
    /\ epc = "idle"
    /\ state[u] = "absent"
    /\ \A v \in Update : state[v] \notin Active
    /\ Mark(u, "queued")
    /\ UNCHANGED <<files, execd, updater, ghosts, bounds>>

\* self_update_tick: the queued request, if there is one ...
Peek(u) ==
    /\ epc = "idle"
    /\ state[u] = "queued"
    /\ epc' = IF Present({UpdaterBinary}) THEN "kick" ELSE "mark_failed"
    /\ peeked' = u
    /\ UNCHANGED <<state, files, registered, loaded, serving, updater, ghosts, bounds>>

\* ... and "kickstart -k", which kills the updater that is running ...
Kick ==
    /\ epc = "kick"
    /\ registered /\ Present({UpdaterBinary})
    /\ upc' = "start" /\ job' = None /\ swapped' = {} /\ knew' = FALSE
    /\ killed' = IF upc = "none" \/ job = None THEN killed ELSE killed \union {job}
    /\ epc' = "idle" /\ peeked' = None
    /\ UNCHANGED <<state, files, registered, loaded, serving, before, bounds>>

KickFails ==
    /\ epc = "kick"
    /\ IF registered /\ Present({UpdaterBinary})
       THEN kickFaults < MaxKickFaults /\ kickFaults' = kickFaults + 1
       ELSE UNCHANGED kickFaults
    /\ epc' = "mark_failed"
    /\ UNCHANGED <<state, files, registered, loaded, serving, peeked, updater, ghosts>>
    /\ UNCHANGED <<reboots, deaths, faults>>

\* ... or fails, and the request is marked failed whatever became of it.
MarkKickFailed ==
    /\ epc = "mark_failed"
    /\ Mark(peeked, "failed")
    /\ epc' = "idle" /\ peeked' = None
    /\ UNCHANGED <<files, registered, loaded, serving, updater, ghosts, bounds>>

\* execd is killed, and launchd (KeepAlive) starts what is installed.
ExecdDies ==
    /\ epc # "down"
    /\ deaths < MaxDeaths
    /\ deaths' = deaths + 1
    /\ epc' = "down" /\ peeked' = None /\ serving' = None
    /\ UNCHANGED <<state, files, registered, loaded, updater, ghosts, reboots, kickFaults, faults>>

ExecdRestarts ==
    /\ epc = "down"
    /\ loaded
    /\ Present(DaemonFiles)
    /\ epc' = "idle" /\ serving' = installed[DaemonBinary]
    /\ UNCHANGED <<state, files, registered, loaded, peeked, updater, ghosts, bounds>>
-----------------------------------------------------------------------------
(* The updater: main, then run_update.                                     *)

Goto(l) == upc' = l /\ UNCHANGED <<job, swapped, knew>>
\* Mutation: the updater looks for more work and keeps the old request.
ExitKeepsJob == upc' = "start" /\ UNCHANGED <<job, swapped, knew>>

Exit == upc' = "none" /\ job' = None /\ swapped' = {} /\ knew' = FALSE

\* rt_update_claim_pending: queued -> launching in one transaction.
Claim ==
    /\ upc = "start"
    /\ IF \E u \in Update : state[u] = "queued"
       THEN \E u \in Update :
              /\ state[u] = "queued"
              /\ Mark(u, "launching")
              /\ upc' = "check" /\ job' = u
              /\ UNCHANGED <<swapped, knew>>
       ELSE Exit /\ UNCHANGED state
    /\ UNCHANGED <<files, execd, ghosts, bounds>>

Check ==
    /\ upc = "check"
    /\ IF state[job] = "launching" THEN Goto("prepare") ELSE Exit
    /\ UNCHANGED <<state, files, execd, ghosts, bounds>>

\* "running"; then the package, its extraction, the candidates and their
\* signatures, any of which may fail before anything installed is touched.
Prepare ==
    /\ upc = "prepare"
    /\ Mark(job, "running")
    /\ \E ok \in BOOLEAN : Goto(IF ok THEN "identify" ELSE "fail")
    /\ UNCHANGED <<files, execd, ghosts, bounds>>

\* Mutation: a failed preparation is not recorded.
FailUnmarked ==
    /\ upc = "fail"
    /\ Exit
    /\ UNCHANGED <<state, files, execd, ghosts, bounds>>

Fail ==
    /\ upc = "fail"
    /\ Mark(job, "failed")
    /\ Exit
    /\ UNCHANGED <<files, execd, ghosts, bounds>>

\* Whether a daemon answers within a second, and whether it is the one expected.
Answers == serving # None /\ ~waiting
Serves(v) == serving = v /\ ~waiting

\* http_identity of the daemon to be replaced, then "running / switching".
Identify ==
    /\ upc = "identify"
    /\ knew' = Answers
    /\ Mark(job, "running")
    /\ upc' = "bootout"
    /\ UNCHANGED <<files, execd, job, swapped, ghosts, bounds>>

\* "launchctl bootout" unloads execd and kills it.  Its codes 3 and 5, taken
\* for success, are read as "it was not loaded"; a command that timed out
\* may have stopped it all the same.
Stop(ok) ==
    \/ /\ loaded' = FALSE /\ serving' = None
       /\ epc' = "down" /\ peeked' = None
       /\ UNCHANGED registered
    \/ ~ok /\ UNCHANGED execd

Bootout ==
    /\ upc = "bootout"
    /\ before' = installed
    /\ \E ok \in BOOLEAN :
         /\ Stop(ok)
         /\ Goto(IF ok THEN "swap_out" ELSE "retreat")
    /\ UNCHANGED <<state, files, killed, bounds>>

\* apply_swap, in the order of the targets: the first that is not switched yet.
Turn(t) == t \notin swapped /\ \A s \in Target : s < t => s \in swapped

SwapOut(t) ==
    /\ upc = "swap_out"
    /\ Turn(t)
    /\ \/ /\ backup' = [backup EXCEPT ![job][t] = installed[t]]
          /\ installed' = [installed EXCEPT ![t] = None]
          /\ Goto("swap_in")
       \/ Goto("retreat") /\ UNCHANGED files
    /\ UNCHANGED <<state, execd, ghosts, bounds>>

\* Mutation: the loop of apply_swap ends one target early.
SwapInShort(t) ==
    /\ upc = "swap_in"
    /\ Turn(t)
    /\ installed' = [installed EXCEPT ![t] = job]
    /\ swapped' = swapped \union {t}
    /\ upc' = IF swapped' \union {TargetCount} = Target THEN "bootstrap" ELSE "swap_out"
    /\ UNCHANGED <<state, backup, execd, job, knew, ghosts, bounds>>

SwapIn(t) ==
    /\ upc = "swap_in"
    /\ Turn(t)
    /\ installed' = [installed EXCEPT ![t] = job]
    /\ swapped' = swapped \union {t}
    /\ upc' = IF swapped' = Target THEN "bootstrap" ELSE "swap_out"
    /\ UNCHANGED <<state, backup, execd, job, knew, ghosts, bounds>>

\* The candidate cannot be moved into place: the old file is moved back.
SwapInFails(t) ==
    /\ upc = "swap_in"
    /\ Turn(t)
    /\ \/ /\ installed' = [installed EXCEPT ![t] = backup[job][t]]
          /\ backup' = [backup EXCEPT ![job][t] = None]
          /\ UNCHANGED faults
       \/ /\ faults < MaxFaults
          /\ faults' = faults + 1
          /\ UNCHANGED files
    /\ Goto("retreat")
    /\ UNCHANGED <<state, execd, ghosts, reboots, deaths, kickFaults>>

\* "launchctl bootstrap" loads and starts execd; it fails for a loaded job,
\* and a command that timed out may have loaded it.
Start(ok) ==
    \/ /\ ~loaded /\ Present(DaemonFiles)
       /\ loaded' = TRUE /\ serving' = installed[DaemonBinary] /\ epc' = "idle"
       /\ UNCHANGED <<registered, peeked>>
    \/ ~ok /\ UNCHANGED execd

\* Mutation: the rollback siblings are removed as soon as the files are switched.
BootstrapCleans ==
    /\ upc = "bootstrap"
    /\ backup' = [backup EXCEPT ![job] = [t \in Target |-> None]]
    /\ \E ok \in BOOLEAN :
         /\ Start(ok)
         /\ Goto(IF ok THEN "health" ELSE "retreat")
    /\ UNCHANGED <<state, installed, ghosts, bounds>>

Bootstrap ==
    /\ upc = "bootstrap"
    /\ \E ok \in BOOLEAN :
         /\ Start(ok)
         /\ Goto(IF ok THEN "health" ELSE "retreat")
    /\ UNCHANGED <<state, files, ghosts, bounds>>

\* App registration and wait_identity: the new version must answer.
Health ==
    /\ upc = "health"
    /\ \/ Serves(job) /\ Goto("clean")
       \/ Goto("retreat")
    /\ UNCHANGED <<state, files, execd, ghosts, bounds>>

\* cleanup_swap removes the rollback siblings.
Clean ==
    /\ upc = "clean"
    /\ backup' = [backup EXCEPT ![job] = [t \in Target |-> None]]
    /\ Goto("succeed")
    /\ UNCHANGED <<state, installed, execd, ghosts, bounds>>

Succeed ==
    /\ upc = "succeed"
    /\ Mark(job, "succeeded")
    /\ Exit
    /\ UNCHANGED <<files, execd, ghosts, bounds>>
-----------------------------------------------------------------------------
(* The way back.                                                           *)

Retreat ==
    /\ upc = "retreat"
    /\ Mark(job, "running")
    /\ Goto("stop_again")
    /\ UNCHANGED <<files, execd, ghosts, bounds>>

\* The result of this bootout is ignored.
StopAgain ==
    /\ upc = "stop_again"
    /\ \E ok \in BOOLEAN : Stop(ok)
    /\ Goto(IF swapped = {} THEN "clean_again" ELSE "remove")
    /\ UNCHANGED <<state, files, ghosts, bounds>>

\* rollback_swap, last target first.
Last(t) == t \in swapped /\ \A s \in swapped : s <= t

Remove(t) ==
    /\ upc = "remove"
    /\ Last(t)
    /\ installed' = [installed EXCEPT ![t] = None]
    /\ Goto("restore")
    /\ UNCHANGED <<state, backup, execd, ghosts, bounds>>

\* Mutation: only the first target of the switched ones is put back.
RestoreOnce(t) ==
    /\ upc = "restore"
    /\ Last(t)
    /\ installed' = [installed EXCEPT ![t] = backup[job][t]]
    /\ backup' = [backup EXCEPT ![job][t] = None]
    /\ swapped' = {}
    /\ upc' = "clean_again"
    /\ UNCHANGED <<state, execd, job, knew, ghosts, bounds>>

Restore(t) ==
    /\ upc = "restore"
    /\ Last(t)
    /\ \/ /\ installed' = [installed EXCEPT ![t] = backup[job][t]]
          /\ backup' = [backup EXCEPT ![job][t] = None]
          /\ UNCHANGED faults
       \/ /\ faults < MaxFaults
          /\ faults' = faults + 1
          /\ UNCHANGED files
    /\ swapped' = swapped \ {t}
    /\ upc' = IF swapped' = {} THEN "clean_again" ELSE "remove"
    /\ UNCHANGED <<state, execd, job, knew, ghosts, reboots, deaths, kickFaults>>

CleanAgain ==
    /\ upc = "clean_again"
    /\ backup' = [backup EXCEPT ![job] = [t \in Target |-> None]]
    /\ Goto("restart")
    /\ UNCHANGED <<state, installed, execd, ghosts, bounds>>

\* Mutation: the updater ends once the old files are back.
RestartLeft ==
    /\ upc = "restart"
    /\ Goto("rolled_back")
    /\ UNCHANGED <<state, files, execd, ghosts, bounds>>

Restart ==
    /\ upc = "restart"
    /\ \E ok \in BOOLEAN :
         /\ Start(ok)
         /\ Goto(IF ok THEN "verify" ELSE "give_up")
    /\ UNCHANGED <<state, files, ghosts, bounds>>

\* The old version must answer, if it was known.
Verify ==
    /\ upc = "verify"
    /\ \/ knew /\ Serves(before[DaemonBinary]) /\ Goto("rolled_back")
       \/ Goto("give_up")
    /\ UNCHANGED <<state, files, execd, ghosts, bounds>>

RolledBack ==
    /\ upc = "rolled_back"
    /\ Mark(job, "rolled_back")
    /\ Exit
    /\ UNCHANGED <<files, execd, ghosts, bounds>>

GiveUp ==
    /\ upc = "give_up"
    /\ Mark(job, "rollback_failed")
    /\ Exit
    /\ UNCHANGED <<files, execd, ghosts, bounds>>
-----------------------------------------------------------------------------
\* Power is lost and comes back: RunAtLoad starts what is installed.
Reboot ==
    /\ reboots < MaxReboots
    /\ reboots' = reboots + 1
    /\ registered' = Present(UpdaterFiles)
    /\ loaded' = Present(DaemonFiles)
    /\ serving' = IF loaded' THEN installed[DaemonBinary] ELSE None
    /\ epc' = IF loaded' THEN "idle" ELSE "down"
    /\ peeked' = None
    /\ upc' = IF registered' THEN "start" ELSE "none"
    /\ job' = None /\ swapped' = {} /\ knew' = FALSE
    /\ killed' = IF job = None THEN killed ELSE killed \union {job}
    /\ UNCHANGED <<state, files, before, deaths, kickFaults, faults>>

Tick == (\E u \in Update : Peek(u)) \/ Kick \/ KickFails \/ MarkKickFailed

Switch ==
    \E t \in Target : SwapOut(t) \/ SwapIn(t) \/ SwapInFails(t) \/ Remove(t) \/ Restore(t)

UpdaterStep ==
    \/ Claim \/ Check \/ Prepare \/ Fail \/ Identify \/ Bootout
    \/ Switch
    \/ Bootstrap \/ Health \/ Clean \/ Succeed
    \/ Retreat \/ StopAgain \/ CleanAgain \/ Restart \/ Verify \/ RolledBack \/ GiveUp

\* Nothing bounds some of execd's waits: read_request waits for a client that
\* connected and is silent, executors and ticks for uicache, uiopen and ioreg, and
\* the tick of an update for launchctl.  Its next step, if there is one, or its
\* end, ends the wait.
Wait ==
    /\ epc \in {"idle", "kick"}
    /\ ~waiting
    /\ waiting' = TRUE
    /\ UNCHANGED work

Execd ==
    \/ \E u \in Update : Schedule(u)
    \/ Tick
    \/ ExecdDies
    \/ ExecdRestarts

Next ==
    \/ (Execd \/ Reboot) /\ waiting' = FALSE
    \/ Wait
    \/ UpdaterStep /\ waiting' = (waiting /\ epc' # "down")

Spec == Init /\ [][Next]_vars

(* Fairness: unless it waits, execd's loop ticks: select returns after a   *)
(* second at most.  That a wait ends is not assumed.  Every command the    *)
(* updater runs has a timeout, and launchd restarts a loaded job.          *)
FairSpec ==
    /\ Spec
    /\ WF_vars(~waiting /\ Tick /\ waiting' = FALSE)
    /\ WF_vars(UpdaterStep /\ waiting' = (waiting /\ epc' # "down"))
    /\ WF_vars(ExecdRestarts /\ waiting' = FALSE)
-----------------------------------------------------------------------------
UPC == {"none", "start", "check", "prepare", "fail", "identify", "bootout", "swap_out", "swap_in",
        "bootstrap", "health", "clean", "succeed", "retreat", "stop_again", "remove", "restore",
        "clean_again", "restart", "verify", "rolled_back", "give_up"}

(* Every row, file and local has its type.                                 *)
TypeOK ==
    /\ state \in [Update -> {"absent"} \union Active \union Settled]
    /\ installed \in [Target -> Version \union {None}]
    /\ backup \in [Update -> [Target -> Version \union {None}]]
    /\ registered \in BOOLEAN /\ loaded \in BOOLEAN
    /\ serving \in Version \union {None}
    /\ epc \in {"idle", "kick", "mark_failed", "down"}
    /\ waiting \in BOOLEAN /\ (waiting => epc \in {"idle", "kick"})
    /\ peeked \in IF epc \in {"kick", "mark_failed"} THEN Update ELSE {None}
    /\ upc \in UPC
    /\ job \in IF upc \in {"none", "start"} THEN {None} ELSE Update
    /\ swapped \subseteq Target
    /\ knew \in BOOLEAN
    /\ before \in [Target -> Version \union {None}]
    /\ killed \subseteq Update
    /\ reboots \in 0..MaxReboots /\ deaths \in 0..MaxDeaths
    /\ kickFaults \in 0..MaxKickFaults /\ faults \in 0..MaxFaults

(* No installed file is lost: wherever power fails, each target is in      *)
(* place or its old version is still in a rollback sibling (the order of   *)
(* the two renames of apply_swap and of cleanup_swap).                     *)
NoTargetLost ==
    faults = 0 => \A t \in Target :
        installed[t] # None \/ \E u \in Update : backup[u][t] # None

(* An updater that ends by itself leaves execd loaded, unless it reports   *)
(* that the rollback failed: the serving daemon is stopped for the switch  *)
(* only.                                                                   *)
DaemonSurvives ==
    reboots = 0 /\ upc = "none" /\ ~loaded =>
        \E u \in Update : state[u] = "rollback_failed"

(* "succeeded" means that every target is the update's, and at most one    *)
(* update at a time can get there (run_update).                            *)
SucceedsWhole ==
    [][\A u \in Update : state[u] # "succeeded" /\ state'[u] = "succeeded" =>
          \A t \in Target : installed[t] = u /\ backup[u][t] = None]_vars

(* "rolled_back" means that every file is the one that was there before    *)
(* ("previous files/daemon were restored",                                 *)
(* docs/architecture/self-updater.md:32).                                  *)
RollbackRestores ==
    [][\A u \in Update : state[u] # "rolled_back" /\ state'[u] = "rolled_back" =>
          installed = before]_vars

(* What holds of a rollback whatever fails in it: no file of the new       *)
(* version stays, and one is missing only after a rename that failed.      *)
NothingNewStays ==
    [][\A u \in Update : state[u] # "rolled_back" /\ state'[u] = "rolled_back" =>
          \A t \in Target : installed[t] = before[t] \/ (installed[t] = None /\ faults > 0)]_vars

(* Only one queued, launching or running update exists at a time           *)
(* (docs/architecture/self-updater.md:19).                                 *)
OneActiveUpdate ==
    \A u, v \in Update : state[u] \in Active /\ state[v] \in Active => u = v

(* It does as long as no kickstart fails, whichever updater is killed: a   *)
(* request is queued once, and the row of a killed updater keeps others    *)
(* away.                                                                   *)
OneActiveUnlessKickFails == kickFaults = 0 => OneActiveUpdate

\* The updater has ended and launchd cannot start execd, the only process that
\* kicks the updater again.
Stranded == upc = "none" /\ epc = "down" /\ ~(loaded /\ Present(DaemonFiles))

(* A queued update settles, unless its updater is killed (by a kick that   *)
(* comes after the claim, or by a reboot) or execd is stranded.  Holds     *)
(* where execd does not wait for one client or child for good.             *)
UpdatesSettle ==
    []<>~waiting => \A u \in Update :
        (state[u] = "queued") ~> (state[u] \in Settled \/ u \in killed \/ Stranded)
-----------------------------------------------------------------------------
\* Control points between bootout and the end of the attempt, while files may be
\* switched and the new version has not answered.
Undecided == {"swap_out", "swap_in", "bootstrap", "health", "retreat", "stop_again", "remove",
              "restore", "clean_again", "restart", "verify", "rolled_back", "give_up"}

\* The one version of all targets.
VersionOf(f) == IF \A t \in Target : f[t] = f[1] THEN f[1] ELSE None

(* The updater carries an update out as a whole, with the instant at which *)
(* the new daemon answers for the instant of the update: an attempt that   *)
(* is not interrupted ends with all targets of the update, or with all of  *)
(* them as they were, unless a file could not be put back (run_update).    *)
Promise == INSTANCE AtomicUpdate WITH
    version  <- VersionOf(IF upc \in Undecided THEN before ELSE installed),
    updating <- job,
    taken    <- {u \in Update : state[u] \notin {"absent", "queued"}},
    verdict  <- [u \in Update |-> IF state[u] \in Settled THEN state[u] ELSE "open"],
    broken   <- faults
ImplementsAtomicUpdate == Promise!Spec
=============================================================================
