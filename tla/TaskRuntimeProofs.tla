------------------------- MODULE TaskRuntimeProofs -------------------------
(***************************************************************************)
(* What holds of TaskRuntime for any tasks, callers, attempt limit and     *)
(* number of crashes and lost writes.                                      *)
(***************************************************************************)
EXTENDS TaskRuntime, WellFoundedInduction, TLAPS

InTick == {"run_mirror", "act", "settle"}
Recovering == {"recover_mirror", "recover_tasks"}
Active == Pending \union {"running"}
Faultless == crashes = 0 /\ lost = 0

\* A task that may still run has attempts left; a tick works on such a task
\* and decides for a retry only when another attempt remains.
AttemptInv ==
    /\ \A t \in Task : state[t] = "absent" => attempts[t] = 0
    /\ \A t \in Task : state[t] \in Active => attempts[t] < MaxAttempts
    /\ pc \in InTick => state[cur] \in Active
    /\ pc = "settle" /\ next = "retrying" =>
          attempts[cur] + 1 < MaxAttempts /\ Kind[cur] = "app.launch"

\* Every touch of the device is matched by an attempt, a crash, a lost write or
\* the result the tick is about to record; input is matched without the attempts.
Unsettled(t) == IF pc = "settle" /\ cur = t THEN 1 ELSE 0
Settled(t) == IF state[t] \in Terminal \/ (pc = "settle" /\ cur = t) THEN 1 ELSE 0
ActInv ==
    \A t \in Task :
        /\ acts[t] <= attempts[t] + crashes + lost + Unsettled(t)
        /\ Kind[t] = "ui" => acts[t] <= crashes + lost + Settled(t)

\* Only the tick in progress has a running task, and recovery follows a crash.
RunInv ==
    /\ pc \in Recovering => crashes > 0
    /\ lost = 0 => \A t \in Task :
         state[t] = "running" => pc \in Recovering \/ (pc \in InTick /\ cur = t)
    /\ lost = 0 /\ pc \in InTick => state[cur] = "running"

\* What the tick has checked stays true until it acts.
AuthorityInv == pc \in {"run_mirror", "act"} => Authorized(cur)

\* How far the mirror may be behind.
MirrorInv ==
    /\ pc \in {"submit_mirror", "run_mirror", "tick_mirror"} => Kind[cur] = "app.launch"
    /\ pc = "submit_mirror" => state[cur] = "queued"
    /\ pc = "cancel_mirror" => state[cur] = "cancelled"
    /\ lost = 0 /\ pc = "tick_mirror" => state[cur] = next
    /\ lost = 0 => \A t \in Task : mirror[t] \in Terminal => state[t] = mirror[t]
    /\ Faultless => \A t \in Task : Kind[t] = "app.launch" /\ state[t] # "absent" =>
         IF cur = t /\ pc = "submit_mirror" THEN TRUE
         ELSE IF cur = t /\ pc = "cancel_mirror" THEN mirror[t] = "pending"
         ELSE IF cur = t /\ pc \in {"run_mirror", "tick_mirror"} THEN mirror[t] # "absent"
         ELSE mirror[t] = MirrorOf(state[t])

IInv == TypeOK /\ AttemptInv /\ ActInv /\ RunInv /\ AuthorityInv /\ MirrorInv
-----------------------------------------------------------------------------
\* A wait changes nothing but waiting, so that every step is one of these or
\* leaves the rest alone.
Moves == Step \/ WorldChanges \/ PermissionChanges
LEMMA NextMoves == [Next]_vars => [Moves]_work
BY DEF Next, Wait, Moves, work, vars

\* Every step keeps the types; the attempt limit needs AttemptInv.
LEMMA StepTypeOK ==
    TypeOK /\ AttemptInv /\ [Next]_vars => TypeOK'
<1> SUFFICES ASSUME TypeOK, AttemptInv, [Next]_vars PROVE TypeOK'
    OBVIOUS
<1> USE TaskAssumption
    DEF table, world, count, TypeOK, Working, Selecting, Pending, Terminal, TaskState, MirrorState,
        AttemptInv, InTick, Active
<1>0. [Moves]_work /\ waiting' \in BOOLEAN /\ (waiting' => pc' \in {"idle", "act"})
  <2>1. \/ waiting' = FALSE
        \/ Wait
        \/ (WorldChanges \/ PermissionChanges) /\ waiting' = waiting
        \/ UNCHANGED vars
    BY DEF Next
  <2>2. CASE Wait
    BY <2>2, NextMoves DEF Wait, work
  <2>3. CASE (WorldChanges \/ PermissionChanges) /\ waiting' = waiting
    <3>1. pc' = pc
      BY <2>3 DEF WorldChanges, PermissionChanges
    <3> QED BY <2>3, <3>1, NextMoves
  <2>4. CASE UNCHANGED vars
    BY <2>4, NextMoves DEF work, vars
  <2> QED BY <2>1, <2>2, <2>3, <2>4, NextMoves
<1>1. ASSUME NEW t \in Task, Submit(t) PROVE TypeOK'
  BY <1>0, <1>1 DEF Submit
<1>2. ASSUME NEW t \in Task, NEW c \in Caller, Cancel(t, c) PROVE TypeOK'
  BY <1>0, <1>2 DEF Cancel, Cancellable
<1>3. ASSUME NEW t \in Task, TickUnauthorized(t) PROVE TypeOK'
  BY <1>0, <1>3 DEF TickUnauthorized, Selected, TaskUpdate, Lost, ThenMirror, Return
<1>4. ASSUME NEW t \in Task, TickWaits(t) PROVE TypeOK'
  BY <1>0, <1>4 DEF TickWaits, Selected, TaskUpdate, Lost
<1>5. ASSUME NEW t \in Task, TickProviderDown(t) PROVE TypeOK'
  BY <1>0, <1>5 DEF TickProviderDown, Selected, AfterFailure, TaskUpdate, Lost, ThenMirror, Return
<1>6. ASSUME NEW t \in Task, TickStart(t) PROVE TypeOK'
  BY <1>0, <1>6 DEF TickStart, Selected, TaskUpdate, Lost
<1>7. CASE SubmitMirror
  BY <1>0, <1>7 DEF SubmitMirror, Lost, Return
<1>8. CASE CancelMirror
  BY <1>0, <1>8 DEF CancelMirror, MirrorUpdate, Lost, Return
<1>9. CASE RunMirror
  BY <1>0, <1>9 DEF RunMirror, MirrorUpdate, Lost
<1>10. CASE Act
  BY <1>0, <1>10 DEF Act, AfterFailure
<1>11. CASE Settle
  BY <1>0, <1>11 DEF Settle, TaskUpdate, Lost, ThenMirror, Return
<1>12. CASE TickMirror
  BY <1>0, <1>12 DEF TickMirror, MirrorUpdate, Lost, Return, MirrorOf
<1>13. CASE RecoverMirror
  BY <1>0, <1>13 DEF RecoverMirror, Lost
<1>14. CASE RecoverTasks
  BY <1>0, <1>14 DEF RecoverTasks, Lost
<1>15. CASE Crash
  BY <1>0, <1>15 DEF Crash
<1>16. CASE WorldChanges
  BY <1>0, <1>16 DEF WorldChanges
<1>17. CASE PermissionChanges
  BY <1>0, <1>17 DEF PermissionChanges
<1>18. CASE UNCHANGED work
  BY <1>0, <1>18 DEF work
<1> QED
  BY <1>0, <1>1, <1>2, <1>3, <1>4, <1>5, <1>6, <1>7, <1>8, <1>9, <1>10, <1>11, <1>12, <1>13,
     <1>14, <1>15, <1>16, <1>17, <1>18
     DEF Moves, Step, Daemon, TickSelects

\* Every step leaves an attempt to each task that may still run.
LEMMA StepAttemptInv ==
    TypeOK /\ AttemptInv /\ [Moves]_work => AttemptInv'
<1> SUFFICES ASSUME TypeOK, AttemptInv, [Moves]_work PROVE AttemptInv'
    OBVIOUS
<1> USE TaskAssumption
    DEF table, world, count, TypeOK, Working, Selecting, Pending, Terminal, TaskState, MirrorState,
        AttemptInv, InTick, Active
<1>1. ASSUME NEW t \in Task, Submit(t) PROVE AttemptInv'
  BY <1>1 DEF Submit
<1>2. ASSUME NEW t \in Task, NEW c \in Caller, Cancel(t, c) PROVE AttemptInv'
  BY <1>2 DEF Cancel, Cancellable
<1>3. ASSUME NEW t \in Task, TickUnauthorized(t) PROVE AttemptInv'
  BY <1>3 DEF TickUnauthorized, Selected, TaskUpdate, Lost, ThenMirror, Return
<1>4. ASSUME NEW t \in Task, TickWaits(t) PROVE AttemptInv'
  BY <1>4 DEF TickWaits, Selected, TaskUpdate, Lost
<1>5. ASSUME NEW t \in Task, TickProviderDown(t) PROVE AttemptInv'
  BY <1>5 DEF TickProviderDown, Selected, AfterFailure, TaskUpdate, Lost, ThenMirror, Return
<1>6. ASSUME NEW t \in Task, TickStart(t) PROVE AttemptInv'
  BY <1>6 DEF TickStart, Selected, TaskUpdate, Lost
<1>7. CASE SubmitMirror
  BY <1>7 DEF SubmitMirror, Lost, Return
<1>8. CASE CancelMirror
  BY <1>8 DEF CancelMirror, MirrorUpdate, Lost, Return
<1>9. CASE RunMirror
  BY <1>9 DEF RunMirror, MirrorUpdate, Lost
<1>10. CASE Act
  BY <1>10 DEF Act, AfterFailure
<1>11. CASE Settle
  BY <1>11 DEF Settle, TaskUpdate, Lost, ThenMirror, Return
<1>12. CASE TickMirror
  BY <1>12 DEF TickMirror, MirrorUpdate, Lost, Return, MirrorOf
<1>13. CASE RecoverMirror
  BY <1>13 DEF RecoverMirror, Lost
<1>14. CASE RecoverTasks
  BY <1>14 DEF RecoverTasks, Lost
<1>15. CASE Crash
  BY <1>15 DEF Crash
<1>16. CASE WorldChanges
  BY <1>16 DEF WorldChanges
<1>17. CASE PermissionChanges
  BY <1>17 DEF PermissionChanges
<1>18. CASE UNCHANGED work
  BY <1>18 DEF work
<1> QED
  BY <1>1, <1>2, <1>3, <1>4, <1>5, <1>6, <1>7, <1>8, <1>9, <1>10, <1>11, <1>12, <1>13,
     <1>14, <1>15, <1>16, <1>17, <1>18
     DEF Moves, Step, Daemon, TickSelects

\* Every touch of the device is accounted for.
LEMMA StepActInv ==
    TypeOK /\ TypeOK' /\ AttemptInv /\ ActInv /\ [Moves]_work => ActInv'
<1> SUFFICES ASSUME TypeOK, TypeOK', AttemptInv, ActInv, [Moves]_work PROVE ActInv'
    OBVIOUS
<1> USE TaskAssumption
    DEF table, world, count, TypeOK, Working, Selecting, Pending, Terminal, TaskState, MirrorState,
        AttemptInv, ActInv, Unsettled, Settled, InTick, Active
<1>1. ASSUME NEW t \in Task, Submit(t) PROVE ActInv'
  BY <1>1 DEF Submit
<1>2. ASSUME NEW t \in Task, NEW c \in Caller, Cancel(t, c) PROVE ActInv'
  BY <1>2 DEF Cancel, Cancellable
<1>3. ASSUME NEW t \in Task, TickUnauthorized(t) PROVE ActInv'
  BY <1>3 DEF TickUnauthorized, Selected, TaskUpdate, Lost, ThenMirror, Return
<1>4. ASSUME NEW t \in Task, TickWaits(t) PROVE ActInv'
  BY <1>4 DEF TickWaits, Selected, TaskUpdate, Lost
<1>5. ASSUME NEW t \in Task, TickProviderDown(t) PROVE ActInv'
  BY <1>5 DEF TickProviderDown, Selected, AfterFailure, TaskUpdate, Lost, ThenMirror, Return
<1>6. ASSUME NEW t \in Task, TickStart(t) PROVE ActInv'
  BY <1>6 DEF TickStart, Selected, TaskUpdate, Lost
<1>7. CASE SubmitMirror
  BY <1>7 DEF SubmitMirror, Lost, Return
<1>8. CASE CancelMirror
  BY <1>8 DEF CancelMirror, MirrorUpdate, Lost, Return
<1>9. CASE RunMirror
  BY <1>9 DEF RunMirror, MirrorUpdate, Lost
<1>10. CASE Act
  BY <1>10 DEF Act, AfterFailure
<1>11. CASE Settle
  BY <1>11 DEF Settle, TaskUpdate, Lost, ThenMirror, Return
<1>12. CASE TickMirror
  BY <1>12 DEF TickMirror, MirrorUpdate, Lost, Return, MirrorOf
<1>13. CASE RecoverMirror
  BY <1>13 DEF RecoverMirror, Lost
<1>14. CASE RecoverTasks
  BY <1>14 DEF RecoverTasks, Lost
<1>15. CASE Crash
  BY <1>15 DEF Crash
<1>16. CASE WorldChanges
  BY <1>16 DEF WorldChanges
<1>17. CASE PermissionChanges
  BY <1>17 DEF PermissionChanges
<1>18. CASE UNCHANGED work
  BY <1>18 DEF work
<1> QED
  BY <1>1, <1>2, <1>3, <1>4, <1>5, <1>6, <1>7, <1>8, <1>9, <1>10, <1>11, <1>12, <1>13,
     <1>14, <1>15, <1>16, <1>17, <1>18
     DEF Moves, Step, Daemon, TickSelects

\* No step leaves a running task behind, unless a write is lost.
LEMMA StepRunInv ==
    TypeOK /\ RunInv /\ [Moves]_work => RunInv'
<1> SUFFICES ASSUME TypeOK, RunInv, [Moves]_work PROVE RunInv'
    OBVIOUS
<1> USE TaskAssumption
    DEF table, world, count, TypeOK, Working, Selecting, Pending, Terminal, TaskState, MirrorState,
        RunInv, InTick, Recovering
<1>1. ASSUME NEW t \in Task, Submit(t) PROVE RunInv'
  BY <1>1 DEF Submit
<1>2. ASSUME NEW t \in Task, NEW c \in Caller, Cancel(t, c) PROVE RunInv'
  BY <1>2 DEF Cancel, Cancellable
<1>3. ASSUME NEW t \in Task, TickUnauthorized(t) PROVE RunInv'
  BY <1>3 DEF TickUnauthorized, Selected, TaskUpdate, Lost, ThenMirror, Return
<1>4. ASSUME NEW t \in Task, TickWaits(t) PROVE RunInv'
  BY <1>4 DEF TickWaits, Selected, TaskUpdate, Lost
<1>5. ASSUME NEW t \in Task, TickProviderDown(t) PROVE RunInv'
  BY <1>5 DEF TickProviderDown, Selected, AfterFailure, TaskUpdate, Lost, ThenMirror, Return
<1>6. ASSUME NEW t \in Task, TickStart(t) PROVE RunInv'
  BY <1>6 DEF TickStart, Selected, TaskUpdate, Lost
<1>7. CASE SubmitMirror
  BY <1>7 DEF SubmitMirror, Lost, Return
<1>8. CASE CancelMirror
  BY <1>8 DEF CancelMirror, MirrorUpdate, Lost, Return
<1>9. CASE RunMirror
  BY <1>9 DEF RunMirror, MirrorUpdate, Lost
<1>10. CASE Act
  BY <1>10 DEF Act, AfterFailure
<1>11. CASE Settle
  BY <1>11 DEF Settle, TaskUpdate, Lost, ThenMirror, Return
<1>12. CASE TickMirror
  BY <1>12 DEF TickMirror, MirrorUpdate, Lost, Return, MirrorOf
<1>13. CASE RecoverMirror
  BY <1>13 DEF RecoverMirror, Lost
<1>14. CASE RecoverTasks
  BY <1>14 DEF RecoverTasks, Lost
<1>15. CASE Crash
  BY <1>15 DEF Crash
<1>16. CASE WorldChanges
  BY <1>16 DEF WorldChanges
<1>17. CASE PermissionChanges
  BY <1>17 DEF PermissionChanges
<1>18. CASE UNCHANGED work
  BY <1>18 DEF work
<1> QED
  BY <1>1, <1>2, <1>3, <1>4, <1>5, <1>6, <1>7, <1>8, <1>9, <1>10, <1>11, <1>12, <1>13,
     <1>14, <1>15, <1>16, <1>17, <1>18
     DEF Moves, Step, Daemon, TickSelects

\* No step withdraws the authority of the tick in progress.
LEMMA StepAuthorityInv ==
    TypeOK /\ AuthorityInv /\ [Moves]_work => AuthorityInv'
<1> SUFFICES ASSUME TypeOK, AuthorityInv, [Moves]_work PROVE AuthorityInv'
    OBVIOUS
<1> USE TaskAssumption
    DEF table, world, count, TypeOK, Working, Selecting, Pending, Terminal, TaskState, MirrorState,
        AuthorityInv, Authorized
<1>1. ASSUME NEW t \in Task, Submit(t) PROVE AuthorityInv'
  BY <1>1 DEF Submit
<1>2. ASSUME NEW t \in Task, NEW c \in Caller, Cancel(t, c) PROVE AuthorityInv'
  BY <1>2 DEF Cancel, Cancellable
<1>3. ASSUME NEW t \in Task, TickUnauthorized(t) PROVE AuthorityInv'
  BY <1>3 DEF TickUnauthorized, Selected, TaskUpdate, Lost, ThenMirror, Return
<1>4. ASSUME NEW t \in Task, TickWaits(t) PROVE AuthorityInv'
  BY <1>4 DEF TickWaits, Selected, TaskUpdate, Lost
<1>5. ASSUME NEW t \in Task, TickProviderDown(t) PROVE AuthorityInv'
  BY <1>5 DEF TickProviderDown, Selected, AfterFailure, TaskUpdate, Lost, ThenMirror, Return
<1>6. ASSUME NEW t \in Task, TickStart(t) PROVE AuthorityInv'
  BY <1>6 DEF TickStart, Selected, TaskUpdate, Lost
<1>7. CASE SubmitMirror
  BY <1>7 DEF SubmitMirror, Lost, Return
<1>8. CASE CancelMirror
  BY <1>8 DEF CancelMirror, MirrorUpdate, Lost, Return
<1>9. CASE RunMirror
  BY <1>9 DEF RunMirror, MirrorUpdate, Lost
<1>10. CASE Act
  BY <1>10 DEF Act, AfterFailure
<1>11. CASE Settle
  BY <1>11 DEF Settle, TaskUpdate, Lost, ThenMirror, Return
<1>12. CASE TickMirror
  BY <1>12 DEF TickMirror, MirrorUpdate, Lost, Return, MirrorOf
<1>13. CASE RecoverMirror
  BY <1>13 DEF RecoverMirror, Lost
<1>14. CASE RecoverTasks
  BY <1>14 DEF RecoverTasks, Lost
<1>15. CASE Crash
  BY <1>15 DEF Crash
<1>16. CASE WorldChanges
  BY <1>16 DEF WorldChanges
<1>17. CASE PermissionChanges
  BY <1>17 DEF PermissionChanges
<1>18. CASE UNCHANGED work
  BY <1>18 DEF work
<1> QED
  BY <1>1, <1>2, <1>3, <1>4, <1>5, <1>6, <1>7, <1>8, <1>9, <1>10, <1>11, <1>12, <1>13,
     <1>14, <1>15, <1>16, <1>17, <1>18
     DEF Moves, Step, Daemon, TickSelects

\* The mirror falls behind no further than MirrorInv says.
LEMMA StepMirrorInv ==
    TypeOK /\ AttemptInv /\ RunInv /\ MirrorInv /\ [Moves]_work => MirrorInv'
<1> SUFFICES ASSUME TypeOK, AttemptInv, RunInv, MirrorInv, [Moves]_work PROVE MirrorInv'
    OBVIOUS
<1> USE TaskAssumption
    DEF table, world, count, TypeOK, Working, Selecting, Pending, Terminal, TaskState, MirrorState,
        MirrorInv, MirrorOf, AttemptInv, RunInv, InTick, Recovering, Active, Faultless
<1>1. ASSUME NEW t \in Task, Submit(t) PROVE MirrorInv'
  BY <1>1 DEF Submit
<1>2. ASSUME NEW t \in Task, NEW c \in Caller, Cancel(t, c) PROVE MirrorInv'
  BY <1>2 DEF Cancel, Cancellable
<1>3. ASSUME NEW t \in Task, TickUnauthorized(t) PROVE MirrorInv'
  BY <1>3 DEF TickUnauthorized, Selected, TaskUpdate, Lost, ThenMirror, Return
<1>4. ASSUME NEW t \in Task, TickWaits(t) PROVE MirrorInv'
  BY <1>4 DEF TickWaits, Selected, TaskUpdate, Lost
<1>5. ASSUME NEW t \in Task, TickProviderDown(t) PROVE MirrorInv'
  BY <1>5 DEF TickProviderDown, Selected, AfterFailure, TaskUpdate, Lost, ThenMirror, Return
<1>6. ASSUME NEW t \in Task, TickStart(t) PROVE MirrorInv'
  BY <1>6 DEF TickStart, Selected, TaskUpdate, Lost
<1>7. CASE SubmitMirror
  BY <1>7 DEF SubmitMirror, Lost, Return
<1>8. CASE CancelMirror
  BY <1>8 DEF CancelMirror, MirrorUpdate, Lost, Return
<1>9. CASE RunMirror
  BY <1>9 DEF RunMirror, MirrorUpdate, Lost
<1>10. CASE Act
  BY <1>10 DEF Act, AfterFailure
<1>11. CASE Settle
  BY <1>11 DEF Settle, TaskUpdate, Lost, ThenMirror, Return
<1>12. CASE TickMirror
  BY <1>12 DEF TickMirror, MirrorUpdate, Lost, Return, MirrorOf
<1>13. CASE RecoverMirror
  BY <1>13 DEF RecoverMirror, Lost
<1>14. CASE RecoverTasks
  BY <1>14 DEF RecoverTasks, Lost
<1>15. CASE Crash
  BY <1>15 DEF Crash
<1>16. CASE WorldChanges
  BY <1>16 DEF WorldChanges
<1>17. CASE PermissionChanges
  BY <1>17 DEF PermissionChanges
<1>18. CASE UNCHANGED work
  BY <1>18 DEF work
<1> QED
  BY <1>1, <1>2, <1>3, <1>4, <1>5, <1>6, <1>7, <1>8, <1>9, <1>10, <1>11, <1>12, <1>13,
     <1>14, <1>15, <1>16, <1>17, <1>18
     DEF Moves, Step, Daemon, TickSelects

\* The initial states satisfy the invariant.
LEMMA InitIInv == Init => IInv
<1> SUFFICES ASSUME Init PROVE IInv
  OBVIOUS
<1> USE TaskAssumption DEF Init, Working, Selecting, Pending, Terminal
<1>1. TypeOK
  <2>1. waiting \in BOOLEAN /\ ~waiting
    OBVIOUS
  <2>2. acts \in [Task -> Nat] /\ cur \in {NoTask} /\ next \in {"absent"}
    OBVIOUS
  <2> QED BY <2>1, <2>2 DEF TypeOK, TaskState, MirrorState
<1>2. AttemptInv /\ AuthorityInv /\ RunInv
  BY DEF AttemptInv, AuthorityInv, RunInv, Active, InTick, Recovering
<1>3. ActInv
  BY DEF ActInv, Unsettled, Settled
<1>4. MirrorInv
  BY DEF MirrorInv
<1> QED BY <1>1, <1>2, <1>3, <1>4 DEF IInv

\* The conjunction of the parts is inductive.
LEMMA StepIInv == IInv /\ [Next]_vars => IInv'
BY NextMoves, StepTypeOK, StepAttemptInv, StepActInv, StepRunInv, StepAuthorityInv, StepMirrorInv DEF IInv

\* The inductive invariant holds in every reachable state.
LEMMA AlwaysIInv == Spec => []IInv
BY InitIInv, StepIInv, PTL DEF Spec
-----------------------------------------------------------------------------
\* Every reachable state of the task runtime is well typed; in particular no
\* attempt_count exceeds the limit of automation_tick.
THEOREM TypeCorrect == Spec => []TypeOK
BY AlwaysIInv, PTL DEF IInv

\* A launch touches the device at most MaxAttempts times and a UI input once,
\* and once more for each death or lost write that hid an outcome.
THEOREM DeviceTouchesAreBounded == Spec => []ActsAreBounded
<1>1. IInv => ActsAreBounded
  <2> SUFFICES ASSUME IInv, NEW t \in Task PROVE acts[t] <= Budget(t) + crashes + lost
    BY DEF ActsAreBounded
  <2> USE TaskAssumption DEF IInv, TypeOK
  <2>1. CASE Kind[t] = "ui"
    BY <2>1 DEF ActInv, Settled, Budget
  <2>2. CASE Kind[t] = "app.launch"
    <3>1. attempts[t] + Unsettled(t) <= MaxAttempts
      BY DEF AttemptInv, Unsettled, InTick
    <3> QED BY <2>2, <3>1 DEF ActInv, Unsettled, Budget
  <2> QED BY <2>1, <2>2
<1> QED BY <1>1, AlwaysIInv, PTL

\* Without lost writes no client is served while a task is left "running".
THEOREM NoRunIsOrphaned == Spec => []NoOrphanRuns
<1>1. IInv => NoOrphanRuns
  BY DEF IInv, RunInv, NoOrphanRuns, InTick, Recovering
<1> QED BY <1>1, AlwaysIInv, PTL

\* The legacy mirror is never ahead of the task, and without faults it agrees
\* with it between two requests.
THEOREM MirrorIsFaithful == Spec => []MirrorFollows
<1>1. IInv => MirrorFollows
  BY DEF IInv, MirrorInv, MirrorFollows, Faultless
<1> QED BY <1>1, AlwaysIInv, PTL

\* A settled task is never touched again, by a tick, a cancellation or a recovery.
THEOREM SettledTasksStay == Spec => TerminalIsFinal
<1>1. IInv /\ [Next]_vars =>
        [\A t \in Task : state[t] \in Terminal =>
            state'[t] = state[t] /\ attempts'[t] = attempts[t]]_vars
  <2> SUFFICES ASSUME IInv, [Next]_vars, NEW u \in Task, state[u] \in Terminal
               PROVE  state'[u] = state[u] /\ attempts'[u] = attempts[u]
    OBVIOUS
  <2> USE DEF IInv, TypeOK, table, count, world, Terminal, Pending
  <2>1. ASSUME NEW t \in Task, Submit(t) PROVE state'[u] = state[u] /\ attempts'[u] = attempts[u]
    BY <2>1 DEF Submit
  <2>2. ASSUME NEW t \in Task, NEW c \in Caller, Cancel(t, c)
        PROVE  state'[u] = state[u] /\ attempts'[u] = attempts[u]
    BY <2>2 DEF Cancel, Cancellable
  <2>3. ASSUME NEW t \in Task, TickUnauthorized(t) \/ TickWaits(t) \/ TickProviderDown(t) \/ TickStart(t)
        PROVE  state'[u] = state[u] /\ attempts'[u] = attempts[u]
    BY <2>3 DEF TickUnauthorized, TickWaits, TickProviderDown, TickStart, Selected, TaskUpdate, Lost
  <2>4. CASE Settle
    BY <2>4 DEF Settle, AttemptInv, InTick, Active, TaskUpdate, Lost
  <2>5. CASE RecoverTasks
    BY <2>5 DEF RecoverTasks, Lost
  <2>6. CASE \/ SubmitMirror \/ CancelMirror \/ RunMirror \/ Act \/ TickMirror
             \/ RecoverMirror \/ Crash \/ WorldChanges \/ PermissionChanges \/ UNCHANGED work
    BY <2>6 DEF SubmitMirror, CancelMirror, RunMirror, Act, TickMirror, RecoverMirror, Crash,
                WorldChanges, PermissionChanges, MirrorUpdate, Lost, work
  <2> QED
    BY NextMoves, <2>1, <2>2, <2>3, <2>4, <2>5, <2>6 DEF Moves, Step, Daemon, TickSelects
<1> QED BY <1>1, AlwaysIInv, PTL DEF Spec, TerminalIsFinal

\* The device is touched only for a task whose caller holds the stored capability.
THEOREM RevokedWorkStops == Spec => RevocationStopsWork
<1>1. IInv /\ [Next]_vars => [\A t \in Task : acts'[t] # acts[t] => Authorized(t)]_vars
  <2> SUFFICES ASSUME IInv, [Next]_vars, NEW u \in Task, acts'[u] # acts[u] PROVE Authorized(u)
    OBVIOUS
  <2>1. Act
    BY NextMoves DEF Moves, Step, Daemon, TickSelects, Submit, Cancel, SubmitMirror, CancelMirror, TickUnauthorized,
           TickWaits, TickProviderDown, TickStart, RunMirror, Settle, TickMirror, RecoverMirror,
           RecoverTasks, Crash, WorldChanges, PermissionChanges, work
  <2>2. u = cur
    BY <2>1 DEF Act, IInv, TypeOK
  <2> QED BY <2>1, <2>2 DEF Act, IInv, AuthorityInv
<1> QED BY <1>1, AlwaysIInv, PTL DEF Spec, RevocationStopsWork
-----------------------------------------------------------------------------
(* That task_next finds a task and that each tick brings one nearer to its *)
(* end: what EveryTaskSettles rests on besides fairness.                   *)

\* Some number of any numbers is the least.
LEMMA LeastExists ==
    ASSUME NEW S \in SUBSET Nat, S # {}
    PROVE  \E m \in S : \A n \in S : m <= n
<1> DEFINE Less == OpToRel(<, Nat)
<1>1. IsWellFoundedOn(Less, Nat)
  BY NatLessThanWellFounded
<1>2. \A x, y \in Nat : x < y => <<x, y>> \in Less
  BY DEF OpToRel
<1> HIDE DEF Less
<1>3. PICK m \in S : \A n \in S : <<n, m>> \notin Less
  BY <1>1, WFMin
<1>4. \A n \in S : ~(n < m)
  BY <1>2, <1>3
<1> QED BY <1>4

\* While a task waits, task_next finds one.
TickFindsTask == (\E t \in Task : state[t] \in Pending) => \E t \in Task : Selected(t)

(* A tick is never without a task while one waits: the three ranks and the *)
(* time of creation, which two tasks may share, leave a first one however  *)
(* many wait (task_next).                                                  *)
THEOREM SomeTaskIsNext == Spec => []TickFindsTask
<1>1. TypeOK => TickFindsTask
  <2> SUFFICES ASSUME TypeOK, NEW s \in Task, state[s] \in Pending PROVE \E t \in Task : Selected(t)
    BY DEF TickFindsTask
  <2> DEFINE Waiting == {t \in Task : state[t] \in Pending}
             Ranks   == {Rank(state[t]) : t \in Waiting}
  <2>1. \A t \in Waiting : Rank(state[t]) \in Nat
    BY DEF Pending, Rank
  <2>2. PICK r \in Ranks : \A q \in Ranks : r <= q
    <3>1. Ranks \in SUBSET Nat /\ Ranks # {}
      BY <2>1
    <3> HIDE DEF Ranks
    <3> QED BY <3>1, LeastExists
  <2> DEFINE First == {t \in Waiting : Rank(state[t]) = r}
             Times == {Created[t] : t \in First}
  <2>3. PICK c \in Times : \A d \in Times : c <= d
    <3>1. Times \in SUBSET Nat /\ Times # {}
      BY <2>2, TaskAssumption
    <3> HIDE DEF Times
    <3> QED BY <3>1, LeastExists
  <2>4. PICK t \in First : Created[t] = c
    BY <2>3
  <2>5. ASSUME NEW u \in Task, state[u] \in Pending PROVE Before(t, u)
    <3>1. u \in Waiting /\ r <= Rank(state[u]) /\ Rank(state[t]) = r
      BY <2>2, <2>4, <2>5
    <3>2. CASE Rank(state[u]) = r
      BY <2>3, <2>4, <3>1, <3>2 DEF Before
    <3>3. CASE Rank(state[u]) # r
      <4>1. r \in Nat /\ Rank(state[u]) \in Nat
        BY <2>1, <2>4, <3>1
      <4> QED BY <3>1, <3>3, <4>1 DEF Before
    <3> QED BY <3>2, <3>3
  <2> QED BY <2>4, <2>5 DEF Selected
<1> QED BY <1>1, TypeCorrect, PTL

\* The steps a task has left at most: eight for each attempt that remains, and those
\* of the tick or the request that works on it.
StepLeft ==
    CASE pc \in {"submit_mirror", "tick_mirror"} -> 7
      [] pc = "run_mirror" -> 4
      [] pc = "act"        -> 3
      [] pc = "settle"     -> 2
      [] OTHER             -> 0
Ahead(t) == IF cur = t THEN StepLeft ELSE IF state[t] = "waiting_for_unlock" THEN 5 ELSE 6
Left(t) ==
    CASE state[t] = "absent"     -> 0
      [] state[t] \in Terminal   -> IF cur = t THEN 1 ELSE 0
      [] state[t] \in Active     -> 8 * (MaxAttempts - attempts[t]) + Ahead(t)

\* Unless its write is lost, each step of the daemon lowers the steps one task has left
\* and leaves the others theirs; nothing but a submission, a crash and a lost write
\* raises them.
TasksProgress ==
    [][/\ Daemon /\ pc \notin Recovering /\ lost' = lost =>
            \E t \in Task : Left(t)' < Left(t) /\ \A u \in Task \ {t} : Left(u)' = Left(u)
       /\ (\E t \in Task : Left(t)' > Left(t)) =>
            (\E t \in Task : Submit(t)) \/ Crash \/ lost' # lost]_vars

\* A task that no step works on has as many steps left as before.
LEMMA LeftAlone ==
    ASSUME NEW u \in Task, u # cur, u # cur', state'[u] = state[u], attempts'[u] = attempts[u]
    PROVE  Left(u)' = Left(u)
BY DEF Left, Ahead

\* The steps left of a task that ended, and of one that did not.
LEMMA LeftIs ==
    ASSUME NEW u \in Task
    PROVE  /\ state[u] \in Terminal => Left(u) = IF cur = u THEN 1 ELSE 0
           /\ state[u] \in Active => Left(u) = 8 * (MaxAttempts - attempts[u]) + Ahead(u)
           /\ state'[u] \in Terminal => Left(u)' = IF cur' = u THEN 1 ELSE 0
           /\ state'[u] \in Active => Left(u)' = 8 * (MaxAttempts - attempts'[u]) + Ahead(u)'
BY DEF Left, Terminal, Active, Pending

\* A tick's or a request's step on task t.
Lowers(t) == /\ Left(t)' < Left(t) /\ ~(Left(t)' > Left(t))
             /\ \A u \in Task \ {t} : Left(u)' = Left(u)

\* Steps that choose a task.
LEMMA ChoosingLowers ==
    ASSUME IInv, NEW t \in Task, lost' = lost,
           TickUnauthorized(t) \/ TickWaits(t) \/ TickProviderDown(t) \/ TickStart(t)
           \/ \E c \in Caller : Cancel(t, c)
    PROVE  Lowers(t)
<1>0. /\ state[t] \in Pending /\ state[t] \in Active /\ pc = "idle" /\ cur = NoTask /\ t # NoTask
      /\ attempts[t] \in 0..(MaxAttempts - 1) /\ lost \in Nat /\ MaxAttempts \in Nat
  BY TaskAssumption DEF IInv, TypeOK, AttemptInv, Active, Working, Cancel, Cancellable, Selected, TickUnauthorized, TickWaits,
     TickProviderDown, TickStart
<1>1. \A u \in Task \ {t} : state'[u] = state[u] /\ attempts'[u] = attempts[u] /\ u # cur /\ u # cur'
  BY <1>0, TaskAssumption DEF IInv, TypeOK, Cancel, TickUnauthorized, TickWaits, TickProviderDown, TickStart, TaskUpdate, Lost,
     ThenMirror, Return, table
<1>2. \A u \in Task \ {t} : Left(u)' = Left(u)
  BY <1>1, LeftAlone
<1>3. Left(t) = 8 * (MaxAttempts - attempts[t]) + (IF state[t] = "waiting_for_unlock" THEN 5 ELSE 6)
  BY <1>0, LeftIs DEF Ahead
<1>4. CASE state'[t] \in Terminal
  <2>1. Left(t)' \in {0, 1}
    BY <1>4, LeftIs
  <2> QED BY <1>0, <1>2, <1>3, <2>1 DEF Lowers
<1>5. CASE TickWaits(t)
  <2>1. /\ state[t] # "waiting_for_unlock" /\ state'[t] = "waiting_for_unlock"
        /\ attempts'[t] = attempts[t] /\ cur' = cur
    BY <1>0, <1>5 DEF TickWaits, TaskUpdate, Lost, IInv, TypeOK
  <2>2. Left(t)' = 8 * (MaxAttempts - attempts[t]) + 5
    BY <1>0, <2>1, LeftIs DEF Ahead, Active, Pending
  <2> QED BY <1>0, <1>2, <1>3, <2>1, <2>2 DEF Lowers
<1>6. CASE TickStart(t)
  <2>1. state'[t] = "running" /\ attempts'[t] = attempts[t] /\ cur' = t /\ pc' \in {"run_mirror", "act"}
    BY <1>0, <1>6 DEF TickStart, TaskUpdate, Lost, IInv, TypeOK
  <2>2. Left(t)' \in {8 * (MaxAttempts - attempts[t]) + 4, 8 * (MaxAttempts - attempts[t]) + 3}
    BY <2>1, LeftIs DEF Ahead, StepLeft, Active
  <2> QED BY <1>0, <1>2, <1>3, <2>2 DEF Lowers
<1>7. CASE TickProviderDown(t) /\ state'[t] \notin Terminal
  <2>1. /\ state'[t] = "retrying" /\ attempts'[t] = attempts[t] + 1
        /\ (cur' = t /\ pc' = "tick_mirror") \/ cur' # t
    BY <1>0, <1>7 DEF TickProviderDown, AfterFailure, TaskUpdate, Lost, ThenMirror, Return, IInv, TypeOK, Terminal
  <2>2. Left(t)' \in {8 * (MaxAttempts - (attempts[t] + 1)) + 7, 8 * (MaxAttempts - (attempts[t] + 1)) + 6}
    BY <2>1, LeftIs DEF Ahead, StepLeft, Active, Pending
  <2> QED BY <1>0, <1>2, <1>3, <2>2 DEF Lowers
<1>8. TickUnauthorized(t) \/ (\E c \in Caller : Cancel(t, c)) => state'[t] \in Terminal
  BY <1>0 DEF TickUnauthorized, Cancel, TaskUpdate, Lost, IInv, TypeOK, Terminal
<1> QED BY <1>4, <1>5, <1>6, <1>7, <1>8

\* A request or a tick works on a task that has a row.
HeldInv == pc \in Working => state[cur] # "absent"

\* Rows are not removed.
LEMMA HeldStep == IInv /\ HeldInv /\ [Next]_vars => HeldInv'
<1> SUFFICES ASSUME IInv, HeldInv, [Next]_vars PROVE HeldInv'
  OBVIOUS
<1> USE TaskAssumption DEF table, count, world
<1>0. state \in [Task -> TaskState] /\ cur \in IF pc \in Working THEN Task ELSE {NoTask}
  BY DEF IInv, TypeOK
<1>1. ASSUME NEW t \in Task, Submit(t) PROVE HeldInv'
  BY <1>0, <1>1 DEF HeldInv, Submit, Working
<1>2. ASSUME NEW t \in Task, NEW c \in Caller, Cancel(t, c) PROVE HeldInv'
  BY <1>0, <1>2 DEF HeldInv, Cancel, Working
<1>3. ASSUME NEW t \in Task, TickUnauthorized(t) \/ TickWaits(t) \/ TickProviderDown(t) \/ TickStart(t)
      PROVE  HeldInv'
  <2>1. state[t] \in Pending /\ pc = "idle"
    BY <1>3 DEF TickUnauthorized, TickWaits, TickProviderDown, TickStart, Selected
  <2>2. state'[t] # "absent"
    BY <1>0, <1>3, <2>1 DEF TickUnauthorized, TickWaits, TickProviderDown, TickStart, TaskUpdate, Lost, AfterFailure,
       Pending
  <2>3. cur' = t \/ pc' \notin Working
    BY <1>3, <2>1 DEF TickUnauthorized, TickWaits, TickProviderDown, TickStart, ThenMirror, Return, Working
  <2> QED BY <2>2, <2>3 DEF HeldInv
<1>4. CASE Settle
  <2>1. pc \in Working /\ next # "absent"
    BY <1>4 DEF Settle, Working, IInv, TypeOK
  <2>2. pc' \in Working => cur' = cur
    BY <1>4 DEF Settle, ThenMirror, Return, Working
  <2>3. state'[cur] # "absent"
    BY <1>0, <1>4, <2>1 DEF Settle, TaskUpdate, Lost, HeldInv
  <2> QED BY <2>2, <2>3 DEF HeldInv
<1>5. CASE RecoverTasks
  BY <1>5 DEF RecoverTasks, HeldInv, Working
<1>6. CASE SubmitMirror \/ CancelMirror \/ RunMirror \/ Act \/ TickMirror \/ RecoverMirror \/ Crash
           \/ WorldChanges \/ PermissionChanges \/ UNCHANGED work
  <2>1. state' = state /\ (pc' \in Working => pc \in Working /\ cur' = cur)
    BY <1>6 DEF SubmitMirror, CancelMirror, RunMirror, Act, TickMirror, RecoverMirror, Crash, WorldChanges,
       PermissionChanges, MirrorUpdate, Lost, Return, Working, work
  <2> QED BY <2>1 DEF HeldInv
<1> QED BY NextMoves, <1>1, <1>2, <1>3, <1>4, <1>5, <1>6 DEF Moves, Step, Daemon, TickSelects

\* Steps on the task in hand.
LEMMA WorkingLowers ==
    ASSUME IInv, HeldInv, lost' = lost,
           SubmitMirror \/ CancelMirror \/ RunMirror \/ Act \/ Settle \/ TickMirror
    PROVE  \E t \in Task : Lowers(t)
<1> PICK t \in Task : t = cur /\ pc \in Working
  BY DEF IInv, TypeOK, Working, SubmitMirror, CancelMirror, RunMirror, Act, Settle, TickMirror
<1> SUFFICES Lowers(t)
  OBVIOUS
<1>0. /\ attempts[t] \in 0..MaxAttempts /\ lost \in Nat /\ t # NoTask /\ MaxAttempts \in Nat /\ state[t] \in TaskState
      /\ state[t] \in Active => attempts[t] < MaxAttempts
  BY TaskAssumption DEF IInv, TypeOK, AttemptInv
<1>1. \A u \in Task \ {t} : state'[u] = state[u] /\ attempts'[u] = attempts[u] /\ u # cur /\ u # cur'
  BY TaskAssumption DEF IInv, TypeOK, SubmitMirror, CancelMirror, RunMirror, Act, Settle, TickMirror,
     TaskUpdate, MirrorUpdate, Lost, ThenMirror, Return, table
<1>2. \A u \in Task \ {t} : Left(u)' = Left(u)
  BY <1>1, LeftAlone
<1>3. state[t] \in Terminal \union Active
  BY <1>0 DEF HeldInv, TaskState, Active
<1>4. state[t] \in Active => Left(t) = 8 * (MaxAttempts - attempts[t]) + StepLeft
  BY LeftIs DEF Ahead
<1>5. CASE CancelMirror \/ (TickMirror /\ state[t] \in Terminal)
  <2>1. state[t] \in Terminal /\ state' = state /\ cur' = NoTask
    BY <1>5 DEF CancelMirror, TickMirror, MirrorUpdate, Lost, Return, IInv, MirrorInv, table, Terminal
  <2>2. Left(t) = 1 /\ Left(t)' = 0
    BY <1>0, <2>1, LeftIs
  <2> QED BY <1>2, <2>2 DEF Lowers
<1>6. CASE SubmitMirror \/ (TickMirror /\ state[t] \in Active)
  <2>1. /\ state[t] \in Active /\ state' = state /\ attempts' = attempts /\ cur' = NoTask
        /\ pc \in {"submit_mirror", "tick_mirror"}
    BY <1>6 DEF SubmitMirror, TickMirror, MirrorUpdate, Lost, Return, IInv, MirrorInv, table, Active, Pending
  <2>2. Left(t) = 8 * (MaxAttempts - attempts[t]) + 7
    BY <1>4, <2>1 DEF StepLeft
  <2>3. Left(t)' \in {8 * (MaxAttempts - attempts[t]) + 6, 8 * (MaxAttempts - attempts[t]) + 5}
    BY <1>0, <2>1, LeftIs DEF Ahead
  <2> QED BY <1>0, <1>2, <2>2, <2>3 DEF Lowers
<1>7. CASE RunMirror \/ Act
  <2>1. /\ state[t] \in Active /\ state' = state /\ attempts' = attempts /\ cur' = t
        /\ (pc = "run_mirror" /\ pc' = "act") \/ (pc = "act" /\ pc' = "settle")
    BY <1>7 DEF RunMirror, Act, MirrorUpdate, Lost, IInv, AttemptInv, InTick, table
  <2>2. Left(t)' = 8 * (MaxAttempts - attempts[t]) + StepLeft'
    BY <2>1, LeftIs DEF Ahead
  <2>3. (StepLeft = 4 /\ StepLeft' = 3) \/ (StepLeft = 3 /\ StepLeft' = 2)
    BY <2>1 DEF StepLeft
  <2> QED BY <1>0, <1>2, <1>4, <2>1, <2>2, <2>3 DEF Lowers
<1>8. CASE Settle
  <2>1. state[t] \in Active /\ pc = "settle" /\ next \in {"completed", "failed", "retrying"}
    BY <1>8 DEF Settle, IInv, TypeOK, AttemptInv, InTick
  <2>2. state' = [state EXCEPT ![t] = next] /\ attempts' = [attempts EXCEPT ![t] = @ + 1]
    BY <1>0, <1>8 DEF Settle, TaskUpdate, Lost
  <2>3. state'[t] = next /\ attempts'[t] = attempts[t] + 1
    BY <2>2 DEF IInv, TypeOK
  <2>4. (cur' = t /\ pc' = "tick_mirror") \/ cur' # t
    BY <1>0, <1>8 DEF Settle, ThenMirror, Return
  <2>5. Left(t) = 8 * (MaxAttempts - attempts[t]) + 2
    BY <1>4, <2>1 DEF StepLeft
  <2>6. CASE next = "retrying"
    <3>1. Left(t)' \in {8 * (MaxAttempts - (attempts[t] + 1)) + 7, 8 * (MaxAttempts - (attempts[t] + 1)) + 6}
      BY <2>3, <2>4, <2>6, LeftIs DEF Ahead, StepLeft, Active, Pending
    <3> QED BY <1>0, <1>2, <2>5, <3>1 DEF Lowers
  <2>7. CASE next # "retrying"
    <3>1. Left(t)' \in {0, 1}
      BY <2>1, <2>3, <2>7, LeftIs DEF Terminal
    <3> QED BY <1>0, <1>2, <2>1, <2>5, <3>1 DEF Lowers
  <2> QED BY <2>6, <2>7
<1> QED BY <1>3, <1>5, <1>6, <1>7, <1>8

\* Recovery puts a running task back in the queue with all its steps, as the crash
\* left it; the world and a changed policy leave every task alone.
LEMMA QuietSteps ==
    ASSUME IInv, NEW u \in Task,
           RecoverMirror \/ RecoverTasks \/ WorldChanges \/ PermissionChanges \/ UNCHANGED work
    PROVE  Left(u)' = Left(u)
<1>1. CASE RecoverMirror \/ WorldChanges \/ PermissionChanges \/ UNCHANGED work
  <2>1. /\ UNCHANGED <<state, attempts, cur>>
        /\ pc' = pc \/ u # cur
    BY <1>1, TaskAssumption DEF RecoverMirror, WorldChanges, PermissionChanges, work, table, Lost, IInv, TypeOK, Working
  <2>2. CASE pc' = pc
    BY <2>1, <2>2 DEF Left, Ahead, StepLeft
  <2>3. CASE u # cur
    BY <2>1, <2>3, LeftAlone
  <2> QED BY <2>1, <2>2, <2>3
<1>2. CASE RecoverTasks
  <2>1. u # cur /\ cur' = cur /\ attempts' = attempts /\ state \in [Task -> TaskState]
    BY <1>2, TaskAssumption DEF RecoverTasks, table, Lost, IInv, TypeOK, Working
  <2>2. state'[u] = state[u] \/ (state[u] = "running" /\ state'[u] = "queued")
    BY <1>2, <2>1 DEF RecoverTasks, Lost, table
  <2>3. CASE state'[u] = state[u]
    BY <2>1, <2>3, LeftAlone
  <2>4. CASE state[u] = "running" /\ state'[u] = "queued"
    BY <2>1, <2>4, LeftIs DEF Ahead, Active, Pending
  <2> QED BY <2>2, <2>3, <2>4
<1> QED BY <1>1, <1>2

\* The steps left are a number, and the attempts bound it.
LEMMA LeftType == ASSUME IInv, NEW u \in Task PROVE Left(u) \in 0..(8 * MaxAttempts + 7)
<1>1. state[u] \in TaskState /\ MaxAttempts \in Nat /\ attempts[u] \in 0..MaxAttempts
  BY TaskAssumption DEF IInv, TypeOK
<1>2. Ahead(u) \in {0, 2, 3, 4, 5, 6, 7}
  BY DEF Ahead, StepLeft
<1>3. CASE state[u] = "absent"
  BY <1>1, <1>3 DEF Left, Terminal, Active, Pending
<1>4. CASE state[u] \in Terminal
  <2>1. Left(u) \in {0, 1}
    BY <1>4, LeftIs
  <2> QED BY <1>1, <2>1
<1>5. CASE state[u] \in Active
  <2>1. Left(u) = 8 * (MaxAttempts - attempts[u]) + Ahead(u)
    BY <1>5, LeftIs
  <2>2. 8 * (MaxAttempts - attempts[u]) \in 0..(8 * MaxAttempts) /\ Ahead(u) \in 0..7
    BY <1>1, <1>2
  <2> QED BY <1>1, <2>1, <2>2
<1> QED BY <1>1, <1>3, <1>4, <1>5 DEF TaskState, Active

\* Each row keeps a state in hand.
LEMMA AlwaysHeld == Spec => [](IInv /\ HeldInv)
<1>1. Init => HeldInv
  BY DEF Init, HeldInv, Working
<1> QED BY <1>1, HeldStep, AlwaysIInv, PTL DEF Spec

(* The daemon works its tasks off: a step that is not lost brings one      *)
(* nearer to its end, by at least one of at most 8 * MaxAttempts + 7, and  *)
(* keeps the others where they are, and only a submission, a crash or a    *)
(* lost write ever puts one back (automation_tick, task_update,            *)
(* task_recover_incomplete).                                               *)
THEOREM TasksAreWorkedOff ==
    Spec => [](\A u \in Task : Left(u) \in 0..(8 * MaxAttempts + 7)) /\ TasksProgress
<1>1. ASSUME IInv, HeldInv, [Next]_vars
      PROVE  [/\ Daemon /\ pc \notin Recovering /\ lost' = lost =>
                    \E t \in Task : Left(t)' < Left(t) /\ \A u \in Task \ {t} : Left(u)' = Left(u)
              /\ (\E t \in Task : Left(t)' > Left(t)) =>
                    (\E t \in Task : Submit(t)) \/ Crash \/ lost' # lost]_vars
  <2>1. ASSUME Daemon, pc \notin Recovering, lost' = lost PROVE \E t \in Task : Lowers(t)
    <3>1. CASE TickSelects
      BY <1>1, <2>1, <3>1, ChoosingLowers DEF TickSelects
    <3>2. CASE SubmitMirror \/ CancelMirror \/ RunMirror \/ Act \/ Settle \/ TickMirror
      BY <1>1, <2>1, <3>2, WorkingLowers
    <3>3. ~RecoverMirror /\ ~RecoverTasks
      BY <2>1 DEF RecoverMirror, RecoverTasks, Recovering
    <3> QED BY <2>1, <3>1, <3>2, <3>3 DEF Daemon
  <2>2. \A u \in Task : Left(u) \in Nat
    BY <1>1, LeftType, TaskAssumption
  <2>3. ASSUME NEW t \in Task, Lowers(t) PROVE \A u \in Task : ~(Left(u)' > Left(u))
    BY <2>2, <2>3 DEF Lowers
  <2>4. ASSUME \A u \in Task : Left(u)' = Left(u) PROVE \A u \in Task : ~(Left(u)' > Left(u))
    BY <2>2, <2>4
  <2>5. ASSUME ~(\E t \in Task : Submit(t)), ~Crash, lost' = lost
        PROVE  \A u \in Task : ~(Left(u)' > Left(u))
    <3>1. CASE Daemon /\ pc \notin Recovering
      BY <2>1, <2>3, <2>5, <3>1
    <3>2. CASE RecoverMirror \/ RecoverTasks \/ WorldChanges \/ PermissionChanges \/ UNCHANGED work
      BY <1>1, <2>4, <3>2, QuietSteps
    <3>3. ASSUME NEW t \in Task, NEW c \in Caller, Cancel(t, c)
          PROVE  \A u \in Task : ~(Left(u)' > Left(u))
      BY <1>1, <2>3, <2>5, <3>3, ChoosingLowers
    <3>4. Daemon => pc \notin Recovering \/ RecoverMirror \/ RecoverTasks
      BY DEF Daemon, TickSelects, TickUnauthorized, TickWaits, TickProviderDown, TickStart, SubmitMirror, CancelMirror,
         RunMirror, Act, Settle, TickMirror, Recovering
    <3> QED BY <1>1, <2>5, <3>1, <3>2, <3>3, <3>4, NextMoves DEF Moves, Step
  <2> QED BY <2>1, <2>5 DEF Lowers
<1>2. IInv => \A u \in Task : Left(u) \in 0..(8 * MaxAttempts + 7)
  BY LeftType
<1> QED BY <1>1, <1>2, AlwaysHeld, PTL DEF Spec, TasksProgress
=============================================================================
