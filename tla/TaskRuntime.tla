---------------------------- MODULE TaskRuntime ----------------------------
(***************************************************************************)
(* The durable task runtime of roottools_execd: deferred app launches and  *)
(* UI input, from their submission by a gateway executor to the result     *)
(* automation_tick records (device_tasks and its legacy mirror table       *)
(* automation_jobs).                                                       *)
(*                                                                         *)
(* The daemon is one thread: main serves at most one connection per        *)
(* listener and then calls automation_tick, which works on at most one     *)
(* task.  Every task_* and automation_* function commits a transaction of  *)
(* its own, and automation_tick ignores their results, so a tick is a      *)
(* sequence of durable steps at control point pc; the daemon may be killed *)
(* between any two of them and any write may be lost.                      *)
(*                                                                         *)
(* A taskId is the requestId of the command that submitted it, so what the *)
(* command says (its kind, its caller, the second it is stamped with) is a *)
(* function of the task, and the gateway submits each at most once         *)
(* (CommandLedger).  An insert that fails leaves no task and is not shown. *)
(* Every mirror row is inserted after its task row, so the migration of    *)
(* mirror rows at each ledger_open changes nothing on a new database.      *)
(***************************************************************************)
EXTENDS Integers, FiniteSets

CONSTANTS Task,        \* taskIds
          Caller,      \* authenticated callers
          Owner,       \* the owner's caller identity
          Kind,        \* Task -> "app.launch" | "ui"
          Submitter,   \* Task -> Caller
          Created,     \* Task -> created_at, in seconds; two tasks may share it
          Expiring,    \* (caller, capability) grants that have an expires_at
          MaxAttempts, \* 3 in automation_tick
          MaxCrashes,  \* bound on the daemon's deaths
          MaxLost,     \* bound on task and mirror writes that fail
          NoTask

Capability == {"device.task.submit-app-launch", "device.app.launch", "device.ui.input"}

ASSUME TaskAssumption ==
    /\ Owner \in Caller
    /\ Kind \in [Task -> {"app.launch", "ui"}]
    /\ Submitter \in [Task -> Caller]
    /\ Created \in [Task -> Nat]
    /\ Expiring \subseteq Caller \X Capability
    /\ MaxAttempts \in Nat \ {0}
    /\ MaxCrashes \in Nat
    /\ MaxLost \in Nat
    /\ NoTask \notin Task

VARIABLES
    \* durable
    state,       \* device_tasks.state, "absent" without a row
    attempts,    \* device_tasks.attempt_count
    mirror,      \* automation_jobs.state, "absent" without a row
    \* read by the tick
    permitted,   \* (caller, capability) pairs that policy and stored grants admit
    uiReady,     \* unlocked visible UI and no thermal pause
    providerUp,  \* rt_provider_available(ui.springboard or ui.zxtouch)
    \* the daemon
    pc,
    cur,         \* the task of the handler or tick in progress
    next,        \* the state the tick has decided for it
    waiting,     \* main is in recv, read or waitpid until a client or a child answers
    \* observation
    acts,        \* how often a launch was spawned or input was delivered
    crashes, lost

table == <<state, attempts, mirror>>
world == <<permitted, uiReady, providerUp>>
count == <<crashes, lost>>
work  == <<table, world, pc, cur, next, acts, count>>
vars  == <<work, waiting>>

Pending  == {"queued", "waiting_for_unlock", "retrying"}
Terminal == {"completed", "failed", "cancelled"}

\* The capability the submission needs, and the one the row stores.
SubmitCapability(t) ==
    IF Kind[t] = "app.launch" THEN "device.task.submit-app-launch" ELSE "device.ui.input"
StoredCapability(t) ==
    IF Kind[t] = "app.launch" THEN "device.app.launch" ELSE "device.ui.input"

MirrorOf(s) ==
    CASE s \in Pending -> "pending"
      [] s \in Terminal \union {"running"} -> s

Init ==
    /\ state = [t \in Task |-> "absent"]
    /\ attempts = [t \in Task |-> 0]
    /\ mirror = [t \in Task |-> "absent"]
    /\ permitted \in SUBSET (Caller \X Capability)
    /\ uiReady \in BOOLEAN
    /\ providerUp \in BOOLEAN
    /\ pc = "idle"
    /\ cur = NoTask
    /\ next = "absent"
    /\ waiting = FALSE
    /\ acts = [t \in Task |-> 0]
    /\ crashes = 0
    /\ lost = 0

\* A write that fails leaves the tables alone; the daemon carries on.
Lost ==
    /\ lost < MaxLost
    /\ lost' = lost + 1
    /\ UNCHANGED table

\* task_update
TaskUpdate(t, s, increment) ==
    \/ /\ state' = [state EXCEPT ![t] = s]
       /\ attempts' = [attempts EXCEPT ![t] = @ + increment]
       /\ UNCHANGED <<mirror, lost>>
    \/ Lost

\* automation_update_job and automation_cancel_pending touch an existing row only.
MirrorUpdate(t, s) ==
    \/ /\ mirror' = [mirror EXCEPT ![t] = IF @ = "absent" THEN @ ELSE s]
       /\ UNCHANGED <<state, attempts, lost>>
    \/ Lost

Return ==
    /\ pc' = "idle"
    /\ cur' = NoTask
    /\ next' = "absent"
-----------------------------------------------------------------------------
\* execute_queue_app_launch and the execute_ui_*_submit executors.
Submit(t) ==
    /\ pc = "idle"
    /\ state[t] = "absent"
    /\ <<Submitter[t], SubmitCapability(t)>> \in permitted
    /\ state' = [state EXCEPT ![t] = "queued"]
    /\ IF Kind[t] = "app.launch"
       THEN pc' = "submit_mirror" /\ cur' = t
       ELSE UNCHANGED <<pc, cur>>
    /\ UNCHANGED <<attempts, mirror, world, next, acts, count>>

SubmitMirror ==
    /\ pc = "submit_mirror"
    /\ \/ /\ mirror' = [mirror EXCEPT ![cur] = "pending"]
          /\ UNCHANGED <<state, attempts, lost>>
       \/ Lost
    /\ Return
    /\ UNCHANGED <<world, acts, crashes>>

\* The owner cancels any task that waits, a caller its own.
Cancellable(t, c) == state[t] \in Pending /\ (c = Owner \/ c = Submitter[t])

\* execute_automation_cancel.
Cancel(t, c) ==
    /\ pc = "idle"
    /\ Cancellable(t, c)
    /\ state' = [state EXCEPT ![t] = "cancelled"]
    /\ pc' = "cancel_mirror"
    /\ cur' = t
    /\ UNCHANGED <<attempts, mirror, world, next, acts, count>>

CancelMirror ==
    /\ pc = "cancel_mirror"
    /\ IF mirror[cur] = "pending" THEN MirrorUpdate(cur, "cancelled") ELSE UNCHANGED <<table, lost>>
    /\ Return
    /\ UNCHANGED <<world, acts, crashes>>
-----------------------------------------------------------------------------
(* automation_tick                                                         *)

\* task_next: queued before retrying before waiting, the oldest of them first.
Rank(s) == CASE s = "queued" -> 0 [] s = "retrying" -> 1 [] s = "waiting_for_unlock" -> 2
Before(t, u) ==
    \/ Rank(state[t]) < Rank(state[u])
    \/ Rank(state[t]) = Rank(state[u]) /\ Created[t] <= Created[u]
Selected(t) ==
    /\ state[t] \in Pending
    /\ \A u \in Task : state[u] \in Pending => Before(t, u)

Authorized(t) == <<Submitter[t], StoredCapability(t)>> \in permitted

\* The mirror of an app launch follows the task; UI input has none.
ThenMirror(t, s) ==
    IF Kind[t] = "app.launch"
    THEN pc' = "tick_mirror" /\ cur' = t /\ next' = s
    ELSE Return

\* Policy or grant no longer allow the task, or the grant has expired.
TickUnauthorized(t) ==
    /\ pc = "idle"
    /\ Selected(t)
    /\ ~Authorized(t) \/ <<Submitter[t], StoredCapability(t)>> \in Expiring
    /\ TaskUpdate(t, "failed", 0)
    /\ ThenMirror(t, "failed")
    /\ UNCHANGED <<world, acts, crashes>>

\* A task that is already waiting is not written again.
TickWaits(t) ==
    /\ pc = "idle"
    /\ Selected(t)
    /\ Authorized(t)
    /\ ~uiReady
    /\ state[t] # "waiting_for_unlock"
    /\ TaskUpdate(t, "waiting_for_unlock", 0)
    /\ UNCHANGED <<world, pc, cur, next, acts, crashes>>

\* Mutation: the attempt limit is off by one.
AfterFailureLate(t) == IF attempts[t] >= MaxAttempts THEN "failed" ELSE "retrying"

\* Where a transient failure leads: the attempts made include this one.
AfterFailure(t) == IF attempts[t] + 1 >= MaxAttempts THEN "failed" ELSE "retrying"

\* Mutation: an attempt without the provider does not count.
TickProviderDownUncounted(t) ==
    /\ pc = "idle"
    /\ Selected(t)
    /\ Authorized(t)
    /\ uiReady
    /\ ~providerUp
    /\ TaskUpdate(t, AfterFailure(t), 0)
    /\ ThenMirror(t, AfterFailure(t))
    /\ UNCHANGED <<world, acts, crashes>>

TickProviderDown(t) ==
    /\ pc = "idle"
    /\ Selected(t)
    /\ Authorized(t)
    /\ uiReady
    /\ ~providerUp
    /\ TaskUpdate(t, AfterFailure(t), 1)
    /\ ThenMirror(t, AfterFailure(t))
    /\ UNCHANGED <<world, acts, crashes>>

\* Mutation: the authorization of a queued task is not evaluated again.
TickStartUnchecked(t) ==
    /\ pc = "idle"
    /\ Selected(t)
    /\ uiReady
    /\ providerUp
    /\ TaskUpdate(t, "running", 0)
    /\ pc' = IF Kind[t] = "app.launch" THEN "run_mirror" ELSE "act"
    /\ cur' = t
    /\ UNCHANGED <<world, next, acts, crashes>>

\* "running" is written before the device is touched.
TickStart(t) ==
    /\ pc = "idle"
    /\ Selected(t)
    /\ Authorized(t)
    /\ uiReady
    /\ providerUp
    /\ TaskUpdate(t, "running", 0)
    /\ pc' = IF Kind[t] = "app.launch" THEN "run_mirror" ELSE "act"
    /\ cur' = t
    /\ UNCHANGED <<world, next, acts, crashes>>

RunMirror ==
    /\ pc = "run_mirror"
    /\ MirrorUpdate(cur, "running")
    /\ pc' = "act"
    /\ UNCHANGED <<world, cur, next, acts, crashes>>

\* Mutation: a UI input that failed is retried like a launch.
ActRetriesInput ==
    /\ pc = "act"
    /\ \/ /\ next' = AfterFailure(cur)
          /\ acts' \in {acts, [acts EXCEPT ![cur] = @ + 1]}
       \/ /\ next' = "completed"
          /\ acts' = [acts EXCEPT ![cur] = @ + 1]
    /\ pc' = "settle"
    /\ UNCHANGED <<table, world, cur, count>>

\* The launch or the input.  It may fail before the device is touched (no
\* executable, no connection to the provider) or after; a failed launch is
\* retried, failed input is not.  The stored bundle identifier was validated by
\* the submission, so the branch for an invalid one is not reached.
Act ==
    /\ pc = "act"
    /\ \/ /\ next' = IF Kind[cur] = "app.launch" THEN AfterFailure(cur) ELSE "failed"
          /\ acts' \in {acts, [acts EXCEPT ![cur] = @ + 1]}
       \/ /\ next' = "completed"
          /\ acts' = [acts EXCEPT ![cur] = @ + 1]
    /\ pc' = "settle"
    /\ UNCHANGED <<table, world, cur, count>>

Settle ==
    /\ pc = "settle"
    /\ TaskUpdate(cur, next, 1)
    /\ ThenMirror(cur, next)
    /\ UNCHANGED <<world, acts, crashes>>

\* Mutation: every transient failure settles the mirror.
TickMirrorSettles ==
    /\ pc = "tick_mirror"
    /\ MirrorUpdate(cur, IF next = "retrying" THEN "failed" ELSE MirrorOf(next))
    /\ Return
    /\ UNCHANGED <<world, acts, crashes>>

TickMirror ==
    /\ pc = "tick_mirror"
    /\ MirrorUpdate(cur, MirrorOf(next))
    /\ Return
    /\ UNCHANGED <<world, acts, crashes>>
-----------------------------------------------------------------------------
\* execd is killed and starts again ...
Crash ==
    /\ pc # "recover_mirror"
    /\ crashes < MaxCrashes
    /\ crashes' = crashes + 1
    /\ pc' = "recover_mirror"
    /\ cur' = NoTask
    /\ next' = "absent"
    /\ UNCHANGED <<table, world, acts, lost>>

\* ... automation_recover_incomplete_jobs, then task_recover_incomplete ...
RecoverMirror ==
    /\ pc = "recover_mirror"
    /\ \/ /\ mirror' = [t \in Task |-> IF mirror[t] = "running" THEN "pending" ELSE mirror[t]]
          /\ UNCHANGED <<state, attempts, lost>>
       \/ Lost
    /\ pc' = "recover_tasks"
    /\ UNCHANGED <<world, cur, next, acts, crashes>>

\* ... before the first connection is served.
RecoverTasks ==
    /\ pc = "recover_tasks"
    /\ \/ /\ state' = [t \in Task |-> IF state[t] = "running" THEN "queued" ELSE state[t]]
          /\ UNCHANGED <<attempts, mirror, lost>>
       \/ Lost
    /\ pc' = "idle"
    /\ UNCHANGED <<world, cur, next, acts, crashes>>

\* The owner locks and unlocks the device and it heats up and cools down at any
\* time, providers come and go; grants and policy change through this daemon only.
WorldChanges ==
    \/ uiReady' = ~uiReady /\ UNCHANGED <<table, permitted, providerUp, pc, cur, next, acts, count>>
    \/ providerUp' = ~providerUp /\ UNCHANGED <<table, permitted, uiReady, pc, cur, next, acts, count>>

PermissionChanges ==
    /\ pc = "idle" /\ ~waiting
    /\ permitted' \in SUBSET (Caller \X Capability)
    /\ UNCHANGED <<table, uiReady, providerUp, pc, cur, next, acts, count>>

TickSelects ==
    \E t \in Task : TickUnauthorized(t) \/ TickWaits(t) \/ TickProviderDown(t) \/ TickStart(t)

\* What the daemon does of its own accord once it runs.
Daemon ==
    \/ SubmitMirror \/ CancelMirror
    \/ TickSelects
    \/ RunMirror \/ Act \/ Settle \/ TickMirror
    \/ RecoverMirror \/ RecoverTasks

\* The steps of the one thread.
Step ==
    \/ \E t \in Task : Submit(t)
    \/ \E t \in Task, c \in Caller : Cancel(t, c)
    \/ Daemon
    \/ Crash

\* Nothing bounds some of the thread's waits: read_request waits for a client that
\* connected and is silent, fixed_spawn_wait for uicache and uiopen, and between
\* two iterations for launchctl, as battery_ioreg_snapshot does for ioreg.  The
\* thread's next step, if there is one, ends the wait.
Wait ==
    /\ pc \in {"idle", "act"}
    /\ ~waiting
    /\ waiting' = TRUE
    /\ UNCHANGED work

Next ==
    \/ Step /\ waiting' = FALSE
    \/ Wait
    \/ (WorldChanges \/ PermissionChanges) /\ UNCHANGED waiting

Spec == Init /\ [][Next]_vars

(* Fairness: unless it waits, the loop goes on.  select returns after a    *)
(* second at most, each iteration serves at most one connection per        *)
(* listener before its tick, every write returns, and launchd restarts     *)
(* execd.  That a wait ends is not assumed.                                *)
FairSpec == Spec /\ WF_vars(~waiting /\ Daemon /\ waiting' = FALSE)
-----------------------------------------------------------------------------
TaskState == {"absent", "running"} \union Pending \union Terminal
MirrorState == {"absent", "pending", "running"} \union Terminal
Selecting == {"idle", "recover_mirror", "recover_tasks"}
Working == {"submit_mirror", "cancel_mirror", "run_mirror", "act", "settle", "tick_mirror"}

(* Every column and local has its type.                                    *)
TypeOK ==
    /\ state \in [Task -> TaskState]
    /\ attempts \in [Task -> 0..MaxAttempts]
    /\ mirror \in [Task -> MirrorState]
    /\ permitted \subseteq Caller \X Capability
    /\ uiReady \in BOOLEAN
    /\ providerUp \in BOOLEAN
    /\ pc \in Selecting \union Working
    /\ cur \in IF pc \in Working THEN Task ELSE {NoTask}
    /\ next \in IF pc \in {"settle", "tick_mirror"} THEN {"completed", "failed", "retrying"} ELSE {"absent"}
    /\ acts \in [Task -> Nat]
    /\ waiting \in BOOLEAN /\ (waiting => pc \in {"idle", "act"})
    /\ crashes \in 0..MaxCrashes
    /\ lost \in 0..MaxLost

(* The device is touched a bounded number of times for a task: an app      *)
(* launch at most MaxAttempts times and a UI input once, and once more for *)
(* each daemon death or lost write that hid the outcome (attempt_count and *)
(* "task was not retried" in automation_tick).                             *)
Budget(t) == IF Kind[t] = "app.launch" THEN MaxAttempts ELSE 1
ActsAreBounded == \A t \in Task : acts[t] <= Budget(t) + crashes + lost

(* Without lost writes no task is left behind in "running": whenever a     *)
(* client is served, the only running task would be the tick's own, and    *)
(* after a crash recovery has requeued it (task_recover_incomplete).       *)
NoOrphanRuns ==
    lost = 0 /\ pc \in {"idle", "submit_mirror", "cancel_mirror", "tick_mirror"} =>
        \A t \in Task : state[t] # "running"

(* The mirror table never settles ahead of the task, and between two       *)
(* requests it agrees with it unless a crash or a lost write came between  *)
(* the two updates.                                                        *)
MirrorFollows ==
    lost = 0 => \A t \in Task :
        /\ mirror[t] \in Terminal => state[t] = mirror[t]
        /\ crashes = 0 /\ pc = "idle" /\ Kind[t] = "app.launch" /\ state[t] # "absent"
             => mirror[t] = MirrorOf(state[t])

(* A task that completed, failed or was cancelled keeps that state and its *)
(* attempt count through ticks, cancellations, crashes and recoveries.     *)
TerminalIsFinal ==
    [][\A t \in Task : state[t] \in Terminal =>
          state'[t] = state[t] /\ attempts'[t] = attempts[t]]_vars

(* Revoking stops queued work: when the device is touched for a task its   *)
(* caller still holds the stored capability, whatever was revoked between  *)
(* submission and execution (docs/architecture/task-runtime.md:41).        *)
RevocationStopsWork ==
    [][\A t \in Task : acts'[t] # acts[t] => Authorized(t)]_vars

(* A UI that stays ready settles every task: the three ranks of task_next  *)
(* starve none, and attempts run out.  Holds when no write is lost, and of *)
(* a thread that does not wait for one client or child for good.           *)
EveryTaskSettles ==
    <>[](uiReady /\ lost = 0) /\ []<>~waiting =>
        \A t \in Task : (state[t] # "absent") ~> (state[t] \in Terminal)

(* What the runtime documentation says of UI input: once it has started it *)
(* is never repeated (docs/architecture/task-runtime.md:43).               *)
InputIsNotRepeated == \A t \in Task : Kind[t] = "ui" => acts[t] <= 1
=============================================================================
