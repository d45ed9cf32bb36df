-------------------------- MODULE SelfUpdateProofs --------------------------
(***************************************************************************)
(* Theorems about SelfUpdate, for every number of updates, targets,        *)
(* reboots and faults.                                                     *)
(***************************************************************************)
EXTENDS SelfUpdate, TLAPS

\* Control points of the updater: before anything is touched, while files are
\* switched, with all of them switched, on the way back, and after it.
Early  == {"check", "prepare", "fail", "identify", "bootout"}
Whole  == {"bootstrap", "health", "clean"}
Back   == {"retreat", "stop_again", "remove", "restore"}
After  == {"clean_again", "restart", "verify", "rolled_back", "give_up"}

\* A request that is not claimed yet has no updater and no rollback sibling.
NewInv ==
    /\ \A u \in Update : state[u] \in {"absent", "queued"} =>
          u # job /\ \A t \in Target : backup[u][t] = None
    /\ upc \in Early => \A t \in Target : backup[job][t] = None

\* Where each target and its old version are, by control point.
Kept(t)  == installed[t] = before[t] /\ backup[job][t] = None
New(t)   == installed[t] = job /\ backup[job][t] = before[t]
Moved(t) == installed[t] = None /\ backup[job][t] = before[t]

FileInv ==
    /\ upc = "swap_out" => \A t \in Target : IF t \in swapped THEN New(t) ELSE Kept(t)
    /\ upc = "swap_in" =>
          \A t \in Target : IF t \in swapped THEN New(t) ELSE IF Turn(t) THEN Moved(t) ELSE Kept(t)
    /\ upc \in Whole => swapped = Target /\ \A t \in Target : New(t)
    /\ upc = "succeed" => \A t \in Target : installed[t] = job /\ backup[job][t] = None
    /\ upc \in Back =>
          \A t \in Target :
             IF t \in swapped
             THEN IF upc = "restore" /\ Last(t) THEN Moved(t) ELSE New(t)
             ELSE Kept(t) \/ (faults > 0 /\ installed[t] = None)
    /\ upc \in After =>
          \A t \in Target : installed[t] = before[t] \/ (faults > 0 /\ installed[t] = None)
    /\ upc = "clean_again" /\ faults = 0 => \A t \in Target : backup[job][t] = None

\* What is missing when the update starts is in the sibling of another one.
LostInv ==
    /\ upc \notin {"none", "start"} \union Early /\ faults = 0 =>
          \A t \in Target : before[t] = None =>
             \E u \in Update : u # job /\ backup[u][t] # None
    /\ NoTargetLost

\* Execd is stopped while files are switched, and is loaded otherwise.
Stopped == {"swap_out", "swap_in", "bootstrap", "retreat", "stop_again", "remove", "restore",
            "clean_again", "restart", "give_up"}
DaemonInv ==
    /\ ~loaded => epc = "down"
    /\ upc \in {"swap_out", "swap_in", "bootstrap"} => ~loaded
    /\ reboots = 0 /\ ~loaded =>
          upc \in Stopped \/ (upc = "none" /\ \E u \in Update : state[u] = "rollback_failed")

\* While no kickstart fails, an active row is the updater's, or waits.
RowInv ==
    kickFaults = 0 =>
        /\ OneActiveUpdate
        /\ job # None => state[job] \in {"launching", "running"}
        /\ swapped # {} => epc \notin {"kick", "mark_failed"}
        /\ epc = "mark_failed" => /\ state[peeked] = "queued"
                                  /\ ~registered \/ installed[UpdaterBinary] = None
        /\ epc = "kick" => \/ state[peeked] = "queued"
                           \/ registered /\ installed[UpdaterBinary] # None

\* An updater runs only where launchd could start it.
LaunchInv ==
    /\ ~registered => upc = "none"
    /\ upc \in {"start"} \union Early => installed[UpdaterBinary] # None

SwapInv ==
    /\ upc \in {"none", "start", "clean_again"} \union Early => swapped = {}
    /\ upc \in {"remove", "restore"} => swapped # {}

IInv ==
    /\ TypeOK /\ NewInv /\ FileInv /\ LostInv /\ DaemonInv /\ RowInv /\ LaunchInv /\ SwapInv
-----------------------------------------------------------------------------
USE UpdateAssumption DEF UpdateAssumption, files, execd, updater, ghosts, bounds, Mark, Goto, Exit

\* TypeOK, by parts.
MaybeVersion == Version \union {None}
RowType   == state \in [Update -> {"absent"} \union Active \union Settled]
FileType  == /\ installed \in [Target -> MaybeVersion]
             /\ backup \in [Update -> [Target -> MaybeVersion]]
             /\ before \in [Target -> MaybeVersion]
ExecdType == /\ registered \in BOOLEAN /\ loaded \in BOOLEAN /\ serving \in MaybeVersion
             /\ epc \in {"idle", "kick", "mark_failed", "down"}
             /\ peeked \in IF epc \in {"kick", "mark_failed"} THEN Update ELSE {None}
UpdaterType == /\ upc \in UPC /\ job \in IF upc \in {"none", "start"} THEN {None} ELSE Update
               /\ swapped \subseteq Target /\ knew \in BOOLEAN /\ killed \subseteq Update
BoundType == /\ reboots \in 0..MaxReboots /\ deaths \in 0..MaxDeaths
             /\ kickFaults \in 0..MaxKickFaults /\ faults \in 0..MaxFaults

WaitType == waiting \in BOOLEAN /\ (waiting => epc \in {"idle", "kick"})

\* The parts are the whole of TypeOK.
LEMMA TypesByParts == TypeOK <=> RowType /\ FileType /\ ExecdType /\ UpdaterType /\ BoundType /\ WaitType
BY DEF TypeOK, RowType, FileType, ExecdType, UpdaterType, BoundType, WaitType, MaybeVersion

\* The named targets are targets, and an update is a version.
LEMMA Binaries == /\ DaemonBinary \in Target /\ DaemonPlist \in Target
                  /\ UpdaterBinary \in Target /\ UpdaterPlist \in Target
                  /\ \A u \in Update : u \in Version /\ u # None
                  /\ Version \subseteq MaybeVersion /\ None \in MaybeVersion
BY DEF Version, MaybeVersion

\* The initial states satisfy the invariant.
LEMMA InitIInv == Init => IInv
<1> SUFFICES ASSUME Init PROVE IInv
  OBVIOUS
<1> USE DEF Init
<1>1. TypeOK
  <2>1. RowType /\ FileType
    BY DEF RowType, FileType, MaybeVersion, Version
  <2>2. ExecdType
    BY DEF ExecdType, MaybeVersion, Version
  <2>3. UpdaterType
    BY DEF UpdaterType, UPC
  <2>4. BoundType
    BY DEF BoundType
  <2>5. WaitType
    <3>1. waiting \in BOOLEAN /\ ~waiting
      OBVIOUS
    <3> QED BY <3>1 DEF WaitType
  <2> QED BY <2>1, <2>2, <2>3, <2>4, <2>5, TypesByParts
<1>2. NewInv
  BY Binaries DEF NewInv, Early
<1>2a. FileInv
  BY DEF FileInv, Whole, Back, After
<1>3. LostInv
  BY DEF LostInv, NoTargetLost, Version
<1>4. DaemonInv /\ LaunchInv /\ SwapInv
  BY DEF DaemonInv, LaunchInv, SwapInv, Early
<1>5. RowInv
  BY DEF RowInv, OneActiveUpdate, Active
<1> QED BY <1>1, <1>2, <1>2a, <1>3, <1>4, <1>5 DEF IInv

\* A wait changes nothing but waiting, so that every step is one of these or
\* leaves the rest alone.
Moves == Execd \/ Reboot \/ UpdaterStep
LEMMA NextMoves == [Next]_vars => [Moves]_work
BY DEF Next, Wait, Moves, work, vars

\* Only an execd that is between two steps, or in its kick, waits.
LEMMA WaitStep == TypeOK /\ [Next]_vars => WaitType'
<1> SUFFICES ASSUME TypeOK, [Next]_vars PROVE WaitType'
  OBVIOUS
<1>0. WaitType
  BY TypesByParts
<1>1. CASE waiting' = FALSE
  BY <1>1 DEF WaitType
<1>2. CASE Wait
  BY <1>2 DEF Wait, WaitType, work
<1>3. CASE UpdaterStep /\ waiting' = (waiting /\ epc' # "down")
  <2>1. epc' \in {epc, "idle", "down"}
    BY <1>3 DEF UpdaterStep, Switch, Claim, Check, Prepare, Fail, Identify, Bootout, SwapOut, SwapIn, SwapInFails,
       Bootstrap, Health, Clean, Succeed, Retreat, StopAgain, Remove, Restore, CleanAgain, Restart, Verify,
       RolledBack, GiveUp, Stop, Start
  <2>2. waiting' \in BOOLEAN /\ (waiting' => waiting /\ epc' # "down")
    BY <1>3
  <2> QED BY <1>0, <2>1, <2>2 DEF WaitType
<1>4. CASE UNCHANGED vars
  BY <1>0, <1>4 DEF WaitType, work, vars
<1> QED BY <1>1, <1>2, <1>3, <1>4 DEF Next

\* Every action keeps the types.
LEMMA TypeStep == TypeOK /\ DaemonInv /\ [Next]_vars => TypeOK'
<1> SUFFICES ASSUME TypeOK, DaemonInv, [Next]_vars PROVE TypeOK'
  OBVIOUS
<1>w. [Moves]_work /\ WaitType'
  BY NextMoves, WaitStep
<1>0. RowType /\ FileType /\ ExecdType /\ UpdaterType /\ BoundType
  BY TypesByParts
<1>1. ASSUME NEW u \in Update, Schedule(u) PROVE TypeOK'
  BY <1>w, <1>1 DEF Schedule, WaitType, TypeOK, Active, Settled, UPC
<1>2. ASSUME NEW u \in Update, Peek(u) PROVE TypeOK'
  BY <1>w, <1>2 DEF Peek, WaitType, TypeOK, Active, Settled, UPC
<1>3. ASSUME NEW t \in Target, SwapOut(t) PROVE TypeOK'
  <2>1. RowType'
    BY <1>3, <1>0, Binaries DEF SwapOut, RowType, FileType, ExecdType, UpdaterType, BoundType, UPC, Active, Settled
  <2>2. FileType'
    <3>1. job \in Update /\ installed[t] \in MaybeVersion
      BY <1>3, <1>0 DEF SwapOut, UpdaterType, FileType
    <3>2. installed' \in [Target -> MaybeVersion]
      BY <1>3, <1>0, Binaries DEF SwapOut, FileType
    <3>3. backup' \in [Update -> [Target -> MaybeVersion]]
      BY <1>3, <1>0, <3>1 DEF SwapOut, FileType
    <3> QED BY <1>3, <1>0, <3>2, <3>3 DEF SwapOut, FileType
  <2>3. ExecdType'
    BY <1>3, <1>0, Binaries DEF SwapOut, RowType, FileType, ExecdType, UpdaterType, BoundType, UPC, Active, Settled
  <2>4. UpdaterType'
    BY <1>3, <1>0, Binaries DEF SwapOut, RowType, FileType, ExecdType, UpdaterType, BoundType, UPC, Active, Settled
  <2>5. BoundType'
    BY <1>3, <1>0, Binaries DEF SwapOut, RowType, FileType, ExecdType, UpdaterType, BoundType, UPC, Active, Settled
  <2> QED BY <1>w, <2>1, <2>2, <2>3, <2>4, <2>5
    DEF TypeOK, RowType, FileType, ExecdType, UpdaterType, BoundType, WaitType, MaybeVersion
<1>4. ASSUME NEW t \in Target, SwapIn(t) PROVE TypeOK'
  <2>1. RowType'
    BY <1>4, <1>0, Binaries DEF SwapIn, RowType, FileType, ExecdType, UpdaterType, BoundType, UPC, Active, Settled
  <2>2. FileType'
    BY <1>4, <1>0, Binaries DEF SwapIn, RowType, FileType, ExecdType, UpdaterType, BoundType, UPC, Active, Settled
  <2>3. ExecdType'
    BY <1>4, <1>0, Binaries DEF SwapIn, RowType, FileType, ExecdType, UpdaterType, BoundType, UPC, Active, Settled
  <2>4. UpdaterType'
    BY <1>4, <1>0, Binaries DEF SwapIn, RowType, FileType, ExecdType, UpdaterType, BoundType, UPC, Active, Settled
  <2>5. BoundType'
    BY <1>4, <1>0, Binaries DEF SwapIn, RowType, FileType, ExecdType, UpdaterType, BoundType, UPC, Active, Settled
  <2> QED BY <1>w, <2>1, <2>2, <2>3, <2>4, <2>5
    DEF TypeOK, RowType, FileType, ExecdType, UpdaterType, BoundType, WaitType, MaybeVersion
<1>5. ASSUME NEW t \in Target, SwapInFails(t) PROVE TypeOK'
  <2>1. RowType' /\ ExecdType'
    BY <1>5, <1>0 DEF SwapInFails, RowType, ExecdType
  <2>2. FileType'
    BY <1>5, <1>0, Binaries DEF SwapInFails, FileType, UpdaterType
  <2>3. UpdaterType'
    BY <1>5, <1>0 DEF SwapInFails, UpdaterType, UPC
  <2>4. BoundType'
    BY <1>5, <1>0 DEF SwapInFails, BoundType
  <2> QED BY <1>w, <2>1, <2>2, <2>3, <2>4
    DEF TypeOK, RowType, FileType, ExecdType, UpdaterType, BoundType, WaitType, MaybeVersion
<1>6. ASSUME NEW t \in Target, Remove(t) PROVE TypeOK'
  BY <1>w, <1>6 DEF Remove, WaitType, TypeOK, Active, Settled, UPC
<1>7. ASSUME NEW t \in Target, Restore(t) PROVE TypeOK'
  <2>1. RowType'
    BY <1>7, <1>0, Binaries DEF Restore, RowType, FileType, ExecdType, UpdaterType, BoundType, UPC, Active, Settled
  <2>2. FileType'
    <3>1. job \in Update /\ backup[job][t] \in MaybeVersion
      BY <1>7, <1>0 DEF Restore, UpdaterType, FileType
    <3>2. installed' \in [Target -> MaybeVersion]
      BY <1>7, <1>0, <3>1 DEF Restore, FileType
    <3>3. backup' \in [Update -> [Target -> MaybeVersion]]
      BY <1>7, <1>0, <3>1, Binaries DEF Restore, FileType
    <3> QED BY <1>7, <1>0, <3>2, <3>3 DEF Restore, FileType
  <2>3. ExecdType'
    BY <1>7, <1>0, Binaries DEF Restore, RowType, FileType, ExecdType, UpdaterType, BoundType, UPC, Active, Settled
  <2>4. UpdaterType'
    BY <1>7, <1>0, Binaries DEF Restore, RowType, FileType, ExecdType, UpdaterType, BoundType, UPC, Active, Settled
  <2>5. BoundType'
    BY <1>7, <1>0, Binaries DEF Restore, RowType, FileType, ExecdType, UpdaterType, BoundType, UPC, Active, Settled
  <2> QED BY <1>w, <2>1, <2>2, <2>3, <2>4, <2>5
    DEF TypeOK, RowType, FileType, ExecdType, UpdaterType, BoundType, WaitType, MaybeVersion
<1>8. CASE Kick
  BY <1>w, <1>8 DEF Kick, WaitType, TypeOK, Active, Settled, UPC
<1>9. CASE KickFails
  BY <1>w, <1>9 DEF KickFails, WaitType, TypeOK, Active, Settled, UPC
<1>10. CASE MarkKickFailed
  BY <1>w, <1>10 DEF MarkKickFailed, WaitType, TypeOK, Active, Settled, UPC
<1>11. CASE ExecdDies
  BY <1>w, <1>11 DEF ExecdDies, WaitType, TypeOK, Active, Settled, UPC
<1>12. CASE ExecdRestarts
  BY <1>w, <1>12 DEF ExecdRestarts, WaitType, TypeOK, Active, Settled, UPC
<1>13. CASE Claim
  BY <1>w, <1>13 DEF Claim, WaitType, TypeOK, Active, Settled, UPC
<1>14. CASE Check
  BY <1>w, <1>14 DEF Check, WaitType, TypeOK, Active, Settled, UPC
<1>15. CASE Prepare
  BY <1>w, <1>15 DEF Prepare, WaitType, TypeOK, Active, Settled, UPC
<1>16. CASE Fail
  BY <1>w, <1>16 DEF Fail, WaitType, TypeOK, Active, Settled, UPC
<1>17. CASE Identify
  <2>1. RowType'
    BY <1>17, <1>0, Binaries DEF Identify, Answers, RowType, FileType, ExecdType, UpdaterType, BoundType, UPC, Active, Settled
  <2>2. FileType'
    BY <1>17, <1>0, Binaries DEF Identify, Answers, RowType, FileType, ExecdType, UpdaterType, BoundType, UPC, Active, Settled
  <2>3. ExecdType'
    BY <1>17, <1>0, Binaries DEF Identify, Answers, RowType, FileType, ExecdType, UpdaterType, BoundType, UPC, Active, Settled
  <2>4. UpdaterType'
    BY <1>17, <1>0, Binaries DEF Identify, Answers, RowType, FileType, ExecdType, UpdaterType, BoundType, UPC, Active, Settled
  <2>5. BoundType'
    BY <1>17, <1>0, Binaries DEF Identify, Answers, RowType, FileType, ExecdType, UpdaterType, BoundType, UPC, Active, Settled
  <2> QED BY <1>w, <2>1, <2>2, <2>3, <2>4, <2>5
    DEF TypeOK, RowType, FileType, ExecdType, UpdaterType, BoundType, WaitType, MaybeVersion
<1>18. CASE Bootout
  BY <1>w, <1>18 DEF Bootout, Stop, WaitType, TypeOK, Active, Settled, UPC
<1>19. CASE Bootstrap
  <2>1. RowType'
    BY <1>19, <1>0, Binaries DEF Bootstrap, Start, RowType, FileType, ExecdType, UpdaterType, BoundType, UPC, Active, Settled
  <2>2. FileType'
    BY <1>19, <1>0, Binaries DEF Bootstrap, Start, RowType, FileType, ExecdType, UpdaterType, BoundType, UPC, Active, Settled
  <2>3. ExecdType'
    <3>1. UNCHANGED execd \/ /\ loaded' = TRUE /\ serving' = installed[DaemonBinary] /\ epc' = "idle"
                              /\ UNCHANGED <<registered, peeked>>
      BY <1>w, <1>19 DEF Bootstrap, Start
    <3>2. peeked = None \/ UNCHANGED execd
      BY <1>19, <1>0 DEF Bootstrap, Start, DaemonInv, ExecdType
    <3> QED BY <1>w, <1>0, <3>1, <3>2, Binaries DEF ExecdType, FileType
  <2>4. UpdaterType'
    BY <1>19, <1>0, Binaries DEF Bootstrap, Start, RowType, FileType, ExecdType, UpdaterType, BoundType, UPC, Active, Settled
  <2>5. BoundType'
    BY <1>19, <1>0, Binaries DEF Bootstrap, Start, RowType, FileType, ExecdType, UpdaterType, BoundType, UPC, Active, Settled
  <2> QED BY <1>w, <2>1, <2>2, <2>3, <2>4, <2>5
    DEF TypeOK, RowType, FileType, ExecdType, UpdaterType, BoundType, WaitType, MaybeVersion
<1>20. CASE Health
  BY <1>w, <1>20 DEF Health, WaitType, TypeOK, Active, Settled, UPC
<1>21. CASE Clean
  BY <1>w, <1>21 DEF Clean, WaitType, TypeOK, Active, Settled, UPC
<1>22. CASE Succeed
  BY <1>w, <1>22 DEF Succeed, WaitType, TypeOK, Active, Settled, UPC
<1>23. CASE Retreat
  BY <1>w, <1>23 DEF Retreat, WaitType, TypeOK, Active, Settled, UPC
<1>24. CASE StopAgain
  BY <1>w, <1>24 DEF StopAgain, Stop, WaitType, TypeOK, Active, Settled, UPC
<1>25. CASE CleanAgain
  BY <1>w, <1>25 DEF CleanAgain, WaitType, TypeOK, Active, Settled, UPC
<1>26. CASE Restart
  <2>1. RowType'
    BY <1>26, <1>0, Binaries DEF Restart, Start, RowType, FileType, ExecdType, UpdaterType, BoundType, UPC, Active, Settled
  <2>2. FileType'
    BY <1>26, <1>0, Binaries DEF Restart, Start, RowType, FileType, ExecdType, UpdaterType, BoundType, UPC, Active, Settled
  <2>3. ExecdType'
    <3>1. UNCHANGED execd \/ /\ loaded' = TRUE /\ serving' = installed[DaemonBinary] /\ epc' = "idle"
                              /\ UNCHANGED <<registered, peeked>>
      BY <1>w, <1>26 DEF Restart, Start
    <3>2. peeked = None \/ UNCHANGED execd
      BY <1>26, <1>0 DEF Restart, Start, DaemonInv, ExecdType
    <3> QED BY <1>w, <1>0, <3>1, <3>2, Binaries DEF ExecdType, FileType
  <2>4. UpdaterType'
    BY <1>26, <1>0, Binaries DEF Restart, Start, RowType, FileType, ExecdType, UpdaterType, BoundType, UPC, Active, Settled
  <2>5. BoundType'
    BY <1>26, <1>0, Binaries DEF Restart, Start, RowType, FileType, ExecdType, UpdaterType, BoundType, UPC, Active, Settled
  <2> QED BY <1>w, <2>1, <2>2, <2>3, <2>4, <2>5
    DEF TypeOK, RowType, FileType, ExecdType, UpdaterType, BoundType, WaitType, MaybeVersion
<1>27. CASE Verify
  BY <1>w, <1>27 DEF Verify, WaitType, TypeOK, Active, Settled, UPC
<1>28. CASE RolledBack
  BY <1>w, <1>28 DEF RolledBack, WaitType, TypeOK, Active, Settled, UPC
<1>29. CASE GiveUp
  BY <1>w, <1>29 DEF GiveUp, WaitType, TypeOK, Active, Settled, UPC
<1>30. CASE Reboot
  <2>1. RowType'
    BY <1>30, <1>0, Binaries DEF Reboot, RowType, FileType, ExecdType, UpdaterType, BoundType, UPC, Active, Settled
  <2>2. FileType'
    BY <1>30, <1>0, Binaries DEF Reboot, RowType, FileType, ExecdType, UpdaterType, BoundType, UPC, Active, Settled
  <2>3. ExecdType'
    <3>1. /\ registered' \in BOOLEAN /\ loaded' \in BOOLEAN /\ peeked' = None
          /\ epc' \in {"idle", "down"} /\ serving' \in {installed[DaemonBinary], None}
      BY <1>w, <1>30 DEF Reboot, Present
    <3> QED BY <1>w, <1>0, <3>1, Binaries DEF ExecdType, FileType
  <2>4. UpdaterType'
    BY <1>30, <1>0, Binaries DEF Reboot, RowType, FileType, ExecdType, UpdaterType, BoundType, UPC, Active, Settled
  <2>5. BoundType'
    BY <1>30, <1>0, Binaries DEF Reboot, RowType, FileType, ExecdType, UpdaterType, BoundType, UPC, Active, Settled
  <2> QED BY <1>w, <2>1, <2>2, <2>3, <2>4, <2>5
    DEF TypeOK, RowType, FileType, ExecdType, UpdaterType, BoundType, WaitType, MaybeVersion
<1>31. CASE UNCHANGED work
  BY <1>w, <1>31 DEF work, WaitType, TypeOK, Active, Settled, UPC
<1> QED BY <1>w, <1>1, <1>2, <1>3, <1>4, <1>5, <1>6, <1>7, <1>8, <1>9, <1>10, <1>11, <1>12, <1>13, <1>14, <1>15, <1>16, <1>17, <1>18, <1>19, <1>20, <1>21, <1>22, <1>23, <1>24, <1>25, <1>26, <1>27, <1>28, <1>29, <1>30, <1>31
        DEF Moves, Execd, Tick, UpdaterStep, Switch
-----------------------------------------------------------------------------
\* Steps that are not the updater's, and leave it and the files alone.
Aside == \/ \E u \in Update : Schedule(u) \/ Peek(u)
         \/ KickFails \/ MarkKickFailed \/ ExecdDies \/ ExecdRestarts
         \/ UNCHANGED work

\* Steps after which the updater has nothing in hand, or has not begun.
Fresh == Kick \/ Reboot \/ Claim \/ Check \/ Prepare \/ Fail \/ Identify \/ Succeed \/ RolledBack \/ GiveUp

\* Steps in the middle of the switch that rename nothing.
Middle == Bootout \/ Bootstrap \/ Health \/ Clean \/ Retreat \/ StopAgain \/ CleanAgain \/ Restart \/ Verify

\* Every step is of one of the four kinds.
LEMMA Steps == [Next]_vars => Aside \/ Fresh \/ Middle \/ Switch
BY NextMoves DEF Moves, Execd, Tick, UpdaterStep, Aside, Fresh, Middle, work

\* What the steps of the first kind leave alone.
LEMMA AsideKeeps ==
    ASSUME IInv, Aside
    PROVE  /\ UNCHANGED <<files, updater, before, reboots, registered>>
           /\ faults' = faults
           /\ kickFaults' = 0 => kickFaults = 0
<1>1. kickFaults \in Nat
  BY TypesByParts DEF IInv, BoundType
<1> QED BY <1>1 DEF Aside, Schedule, Peek, KickFails, MarkKickFailed, ExecdDies, ExecdRestarts, work

\* What those of the second kind leave alone.
LEMMA FreshKeeps ==
    ASSUME IInv, Fresh
    PROVE  /\ UNCHANGED <<installed, before>>
           /\ faults' = faults /\ kickFaults' = kickFaults
           /\ upc' \in {"none", "start"} \union Early
           /\ backup' = backup
BY DEF Fresh, Kick, Reboot, Claim, Check, Prepare, Fail, Identify, Succeed, RolledBack, GiveUp, Early

\* The switch works on one target at a time ...
LEMMA OneTurn == ASSUME NEW t \in Target, NEW s \in Target, Turn(t), Turn(s) PROVE s = t
<1>1. s \in Int /\ t \in Int /\ (s < t \/ t < s \/ s = t)
  BY DEF Target
<1> QED BY <1>1 DEF Turn

\* ... and so does the way back.
LEMMA OneLast == ASSUME NEW t \in Target, NEW s \in Target, Last(t), Last(s) PROVE s = t
BY DEF Last, Target

\* Every step keeps the files as the control point says.
LEMMA FileStep == IInv /\ [Next]_vars => FileInv'
<1> SUFFICES ASSUME IInv, [Next]_vars PROVE FileInv'
  OBVIOUS
<1>0. RowType /\ FileType /\ ExecdType /\ UpdaterType /\ BoundType /\ FileInv /\ SwapInv
  BY TypesByParts DEF IInv
<1> USE DEF Whole, Back, After
<1>1. CASE Aside
  BY <1>0, <1>1, AsideKeeps DEF FileInv, Kept, New, Moved, Turn, Last
<1>2. CASE Fresh
  BY <1>0, <1>2, FreshKeeps DEF FileInv, Early
<1>3. CASE Bootout
  <2>1. swapped = {} /\ \A t \in Target : backup[job][t] = None
    BY <1>3 DEF IInv, SwapInv, NewInv, Bootout, Early
  <2>2. upc' \in {"swap_out", "retreat"} /\ before' = installed /\ UNCHANGED <<files, job, swapped, faults>>
    BY <1>3 DEF Bootout
  <2> QED BY <2>1, <2>2 DEF FileInv, Kept
<1>4. CASE Bootstrap \/ Health
  <2>1. /\ upc \in {"bootstrap", "health"} /\ upc' \in {"health", "clean", "retreat"}
        /\ UNCHANGED <<files, job, swapped, faults, before>>
    BY <1>4 DEF Bootstrap, Health
  <2> QED BY <1>0, <2>1 DEF FileInv, Kept, New
<1>5. CASE Clean
  <2>1. /\ upc = "clean" /\ upc' = "succeed" /\ job \in Update
        /\ backup' = [backup EXCEPT ![job] = [t \in Target |-> None]]
        /\ UNCHANGED <<installed, job>>
    BY <1>0, <1>5 DEF Clean, UpdaterType
  <2> QED BY <1>0, <2>1 DEF FileInv, New, FileType
<1>6. CASE Retreat \/ StopAgain
  <2>1. /\ upc \in {"retreat", "stop_again"} /\ upc' \in {"stop_again", "remove", "clean_again"}
        /\ upc' = "clean_again" => swapped = {}
        /\ UNCHANGED <<files, job, swapped, faults, before>>
    BY <1>6 DEF Retreat, StopAgain
  <2> QED BY <1>0, <2>1 DEF FileInv, Kept, New
<1>7. CASE CleanAgain \/ Restart \/ Verify
  <2>1. /\ upc \in After /\ upc' \in {"restart", "verify", "rolled_back", "give_up"}
        /\ UNCHANGED <<installed, job, swapped, faults, before>>
    BY <1>7 DEF CleanAgain, Restart, Verify
  <2> QED BY <1>0, <2>1 DEF FileInv
<1>8. ASSUME NEW t \in Target, SwapOut(t) PROVE FileInv'
  <2>1. upc = "swap_out" /\ Turn(t) /\ job \in Update /\ UNCHANGED <<job, swapped, faults, before>>
    BY <1>0, <1>8 DEF SwapOut, UpdaterType
  <2>2. CASE upc' = "retreat" /\ UNCHANGED files
    BY <1>0, <2>1, <2>2 DEF FileInv, Kept, New
  <2>3. CASE /\ upc' = "swap_in"
             /\ backup' = [backup EXCEPT ![job][t] = installed[t]]
             /\ installed' = [installed EXCEPT ![t] = None]
    <3>1. \A r \in Target : IF r \in swapped THEN New(r) ELSE Kept(r)
      BY <1>0, <2>1 DEF FileInv
    <3>2. ASSUME NEW r \in Target
          PROVE  (IF r \in swapped THEN New(r) ELSE IF Turn(r) THEN Moved(r) ELSE Kept(r))'
      <4>1. CASE r = t
        BY <1>0, <2>1, <2>3, <3>1, <4>1 DEF Turn, Kept, Moved, FileType
      <4>2. CASE r # t
        BY <1>0, <2>1, <2>3, <3>1, <4>2, OneTurn DEF Turn, Kept, New, FileType
      <4> QED BY <4>1, <4>2
    <3> QED BY <2>3, <3>2 DEF FileInv
  <2> QED BY <1>8, <2>2, <2>3 DEF SwapOut
<1>9. ASSUME NEW t \in Target, SwapIn(t) PROVE FileInv'
  <2>1. /\ upc = "swap_in" /\ Turn(t) /\ swapped' = swapped \union {t}
        /\ installed' = [installed EXCEPT ![t] = job]
        /\ upc' = IF swapped' = Target THEN "bootstrap" ELSE "swap_out"
        /\ UNCHANGED <<job, faults, before, backup>>
    BY <1>9 DEF SwapIn
  <2>2. ASSUME NEW r \in Target PROVE (IF r \in swapped THEN New(r) ELSE Kept(r))'
    <3>1. IF r \in swapped THEN New(r) ELSE IF Turn(r) THEN Moved(r) ELSE Kept(r)
      BY <1>0, <2>1 DEF FileInv
    <3>2. CASE r = t
      BY <1>0, <2>1, <3>1, <3>2 DEF Turn, Moved, New, FileType
    <3>3. CASE r # t
      BY <1>0, <2>1, <3>1, <3>3, OneTurn DEF Kept, New, FileType
    <3> QED BY <3>2, <3>3
  <2> QED BY <2>1, <2>2 DEF FileInv
<1>10. ASSUME NEW t \in Target, SwapInFails(t) PROVE FileInv'
  <2>1. upc = "swap_in" /\ Turn(t) /\ job \in Update /\ upc' = "retreat" /\ UNCHANGED <<job, swapped, before>>
    BY <1>0, <1>10 DEF SwapInFails, UpdaterType
  <2>2. \A r \in Target : IF r \in swapped THEN New(r) ELSE IF Turn(r) THEN Moved(r) ELSE Kept(r)
    BY <1>0, <2>1 DEF FileInv
  <2>3. ASSUME NEW r \in Target
        PROVE  (IF r \in swapped THEN New(r) ELSE Kept(r) \/ (faults > 0 /\ installed[r] = None))'
    <3>1. CASE /\ installed' = [installed EXCEPT ![t] = backup[job][t]]
               /\ backup' = [backup EXCEPT ![job][t] = None]
               /\ UNCHANGED faults
      <4>1. CASE r = t
        BY <1>0, <2>1, <2>2, <3>1, <4>1 DEF Turn, Kept, Moved, FileType
      <4>2. CASE r # t
        BY <1>0, <2>1, <2>2, <3>1, <4>2, OneTurn DEF Kept, New, FileType
      <4> QED BY <4>1, <4>2
    <3>2. CASE faults' = faults + 1 /\ UNCHANGED files
      <4>1. faults' > 0
        BY <1>0, <3>2 DEF BoundType
      <4> QED BY <2>1, <2>2, <3>2, <4>1 DEF Kept, New, Moved
    <3> QED BY <1>10, <3>1, <3>2 DEF SwapInFails
  <2> QED BY <2>1, <2>3 DEF FileInv
<1>11. ASSUME NEW t \in Target, Remove(t) PROVE FileInv'
  <2>1. /\ upc = "remove" /\ Last(t) /\ upc' = "restore"
        /\ installed' = [installed EXCEPT ![t] = None]
        /\ UNCHANGED <<job, swapped, before, backup, faults>>
    BY <1>11 DEF Remove
  <2>2. ASSUME NEW r \in Target
        PROVE  (IF r \in swapped THEN IF Last(r) THEN Moved(r) ELSE New(r)
                ELSE Kept(r) \/ (faults > 0 /\ installed[r] = None))'
    <3>1. IF r \in swapped THEN New(r) ELSE Kept(r) \/ (faults > 0 /\ installed[r] = None)
      BY <1>0, <2>1 DEF FileInv
    <3>2. CASE r = t
      BY <1>0, <2>1, <3>1, <3>2 DEF Last, New, Moved, FileType
    <3>3. CASE r # t
      BY <1>0, <2>1, <3>1, <3>3, OneLast DEF Last, Kept, New, FileType
    <3> QED BY <3>2, <3>3
  <2> QED BY <2>1, <2>2 DEF FileInv
<1>12. ASSUME NEW t \in Target, Restore(t) PROVE FileInv'
  <2>1. /\ upc = "restore" /\ Last(t) /\ job \in Update /\ swapped' = swapped \ {t}
        /\ upc' = IF swapped' = {} THEN "clean_again" ELSE "remove"
        /\ UNCHANGED <<job, before>>
    BY <1>0, <1>12 DEF Restore, UpdaterType
  <2>2. \A r \in Target : IF r \in swapped THEN IF Last(r) THEN Moved(r) ELSE New(r)
                          ELSE Kept(r) \/ (faults > 0 /\ installed[r] = None)
    BY <1>0, <2>1 DEF FileInv
  <2>3. ASSUME NEW r \in Target
        PROVE  (IF r \in swapped THEN New(r) ELSE Kept(r) \/ (faults > 0 /\ installed[r] = None))'
    <3>1. CASE /\ installed' = [installed EXCEPT ![t] = backup[job][t]]
               /\ backup' = [backup EXCEPT ![job][t] = None]
               /\ UNCHANGED faults
      <4>1. CASE r = t
        BY <1>0, <2>1, <2>2, <3>1, <4>1 DEF Last, Kept, Moved, FileType
      <4>2. CASE r # t
        BY <1>0, <2>1, <2>2, <3>1, <4>2, OneLast DEF Kept, New, FileType
      <4> QED BY <4>1, <4>2
    <3>2. CASE faults' = faults + 1 /\ UNCHANGED files
      <4>1. faults' > 0
        BY <1>0, <3>2 DEF BoundType
      <4>2. CASE r = t
        BY <2>1, <2>2, <3>2, <4>1, <4>2 DEF Last, Moved
      <4>3. CASE r # t
        BY <2>1, <2>2, <3>2, <4>1, <4>3, OneLast DEF Kept, New
      <4> QED BY <4>2, <4>3
    <3> QED BY <1>12, <3>1, <3>2 DEF Restore
  <2>4. upc' = "clean_again" => swapped' = {}
    BY <2>1
  <2>5. upc' = "clean_again" => \A r \in Target : Kept(r)' \/ (faults' > 0 /\ installed'[r] = None)
    BY <2>3, <2>4
  <2>6. upc' \in {"clean_again", "remove"}
    BY <2>1
  <2> QED BY <1>0, <2>3, <2>5, <2>6 DEF FileInv, Kept
<1> QED BY <1>1, <1>2, <1>3, <1>4, <1>5, <1>6, <1>7, <1>8, <1>9, <1>10, <1>11, <1>12, Steps
        DEF Middle, Switch

\* What the other steps of the updater leave alone.
LEMMA MiddleKeeps ==
    ASSUME IInv, Middle
    PROVE  /\ upc \notin {"none", "start"} /\ job \in Update
           /\ UNCHANGED <<installed, job, swapped, knew, killed, registered, reboots, faults, kickFaults>>
           /\ upc' \notin {"none", "start"} \union Early
           /\ backup' \in {backup, [backup EXCEPT ![job] = [t \in Target |-> None]]}
           /\ state' \in {state, [state EXCEPT ![job] = "running"]}
<1> UpdaterType
  BY TypesByParts DEF IInv
<1> QED
  BY DEF UpdaterType, Middle, Bootout, Bootstrap, Health, Clean, Retreat, StopAgain, CleanAgain,
         Restart, Verify, Start, Stop, Early

\* What a rename can change.
LEMMA SwitchKeeps ==
    ASSUME IInv, NEW t \in Target, SwapOut(t) \/ SwapIn(t) \/ SwapInFails(t) \/ Remove(t) \/ Restore(t)
    PROVE  /\ upc \in {"swap_out", "swap_in", "remove", "restore"} /\ job \in Update
           /\ UNCHANGED <<state, execd, before, killed, job, knew, reboots, kickFaults>>
           /\ upc' \in {"swap_out", "swap_in", "bootstrap", "retreat", "remove", "restore", "clean_again"}
           /\ faults' = 0 => faults = 0
           /\ \/ backup' = backup
              \/ \E v \in {installed[t], None} : backup' = [backup EXCEPT ![job][t] = v]
<1> UpdaterType /\ BoundType
  BY TypesByParts DEF IInv
<1> QED BY DEF UpdaterType, BoundType, SwapOut, SwapIn, SwapInFails, Remove, Restore

\* Every step keeps an unclaimed request without an updater and siblings.
LEMMA NewStep == IInv /\ [Next]_vars => NewInv'
<1> SUFFICES ASSUME IInv, [Next]_vars PROVE NewInv'
  OBVIOUS
<1>0. RowType /\ FileType /\ ExecdType /\ UpdaterType /\ NewInv
  BY TypesByParts DEF IInv
<1>1. CASE Aside
  <2>1. \A u \in Update : state'[u] \in {"absent", "queued"} => state[u] \in {"absent", "queued"}
    BY <1>0, <1>1 DEF Aside, Schedule, Peek, KickFails, MarkKickFailed, ExecdDies, ExecdRestarts, work,
       RowType, ExecdType
  <2> QED BY <1>0, <1>1, <2>1, AsideKeeps DEF NewInv
<1>2. CASE Claim
  <2>1. CASE job' = None /\ upc' = "none" /\ UNCHANGED state
    BY <1>0, <1>2, <2>1, Binaries DEF NewInv, Claim, Early
  <2>2. ASSUME NEW u \in Update, state[u] = "queued", state' = [state EXCEPT ![u] = "launching"],
               upc' = "check", job' = u, UNCHANGED backup
        PROVE  NewInv'
    <3>1. \A t \in Target : backup'[job'][t] = None
      BY <1>0, <2>2 DEF NewInv
    <3>2. \A v \in Update : state'[v] \in {"absent", "queued"} => v # u /\ state[v] \in {"absent", "queued"}
      BY <1>0, <2>2 DEF RowType
    <3> QED BY <1>0, <2>2, <3>1, <3>2 DEF NewInv
  <2> QED BY <1>2, <2>1, <2>2 DEF Claim
<1>3. CASE Fresh /\ ~Claim
  <2>1. /\ \A u \in Update : state'[u] \in {"absent", "queued"} => state[u] \in {"absent", "queued"}
        /\ job' \in {job, None}
        /\ upc' \in Early => upc \in Early /\ job' = job
    BY <1>0, <1>3 DEF Fresh, Kick, Reboot, Check, Prepare, Fail, Identify, Succeed, RolledBack, GiveUp,
       RowType, UpdaterType, Early
  <2>2. backup' = backup
    BY <1>3, FreshKeeps
  <2> QED BY <1>0, <2>1, <2>2, Binaries DEF NewInv
<1>4. CASE Middle
  <2>1. \A u \in Update : state'[u] \in {"absent", "queued"} => state[u] \in {"absent", "queued"}
    BY <1>0, <1>4, MiddleKeeps DEF RowType
  <2>2. \A u \in Update : u # job => backup'[u] = backup[u]
    BY <1>0, <1>4, MiddleKeeps DEF FileType
  <2> QED BY <1>0, <1>4, <2>1, <2>2, MiddleKeeps DEF NewInv
<1>5. CASE Switch
  <2> PICK t \in Target : SwapOut(t) \/ SwapIn(t) \/ SwapInFails(t) \/ Remove(t) \/ Restore(t)
    BY <1>5 DEF Switch
  <2>1. \A u \in Update : u # job => backup'[u] = backup[u]
    BY <1>0, SwitchKeeps DEF FileType
  <2>2. upc' \notin Early /\ job' = job /\ state' = state
    BY SwitchKeeps DEF Early
  <2> QED BY <1>0, <2>1, <2>2 DEF NewInv
<1> QED BY <1>1, <1>2, <1>3, <1>4, <1>5, Steps

\* Every step keeps each target or its old version.
LEMMA LostStep == IInv /\ [Next]_vars => LostInv'
<1> SUFFICES ASSUME IInv, [Next]_vars PROVE LostInv'
  OBVIOUS
<1>0. FileType /\ UpdaterType /\ NewInv /\ FileInv /\ LostInv /\ FileInv'
  BY TypesByParts, FileStep DEF IInv
<1>1. CASE Aside
  BY <1>0, <1>1, AsideKeeps DEF LostInv, NoTargetLost
<1>2. CASE Fresh
  BY <1>0, <1>2, FreshKeeps DEF LostInv, NoTargetLost
<1>3. CASE Bootout
  <2>1. /\ upc = "bootout" /\ before' = installed /\ UNCHANGED <<files, job, faults>>
    BY <1>3 DEF Bootout
  <2>2. \A t \in Target : backup[job][t] = None
    BY <1>0, <2>1 DEF NewInv, Early
  <2> QED BY <1>0, <2>1, <2>2 DEF LostInv, NoTargetLost
<1>4. ASSUME faults' = 0 => \A t \in Target : before'[t] = None =>
                \E u \in Update : u # job' /\ backup'[u][t] # None,
             upc' \notin {"none", "start"} \union Early, job' \in Update,
             upc' \in {"restart", "verify", "rolled_back", "give_up"} /\ faults' = 0 =>
                \A t \in Target : installed'[t] # None \/ \E u \in Update : backup'[u][t] # None
      PROVE  LostInv'
  <2> SUFFICES ASSUME faults' = 0, NEW t \in Target
               PROVE  installed'[t] # None \/ \E u \in Update : backup'[u][t] # None
    BY <1>4 DEF LostInv, NoTargetLost
  <2>1. before'[t] # None \/ \E u \in Update : backup'[u][t] # None
    BY <1>4
  <2>2. job' # None /\ upc' \in UPC
    BY <1>0, <1>4, Binaries, TypeStep DEF IInv, TypeOK
  <2>3. CASE upc' \in {"restart", "verify", "rolled_back", "give_up"}
    BY <1>4, <2>3
  <2>4. CASE upc' \notin {"restart", "verify", "rolled_back", "give_up"}
    <3>1. Kept(t)' \/ New(t)' \/ Moved(t)' \/ installed'[t] = before'[t] \/ installed'[t] = job'
      BY <1>0, <1>4, <2>2, <2>4 DEF FileInv, Whole, Back, After, UPC, Early
    <3> QED BY <1>4, <2>1, <2>2, <3>1 DEF Kept, New, Moved
  <2> QED BY <2>3, <2>4
<1>5. CASE Middle /\ ~Bootout
  <2>1. /\ upc \notin {"none", "start"} \union Early /\ before' = before /\ job' = job /\ job \in Update
        /\ faults' = faults /\ installed' = installed
        /\ upc' \notin {"none", "start"} \union Early
    BY <1>5, MiddleKeeps DEF Middle, Bootstrap, Health, Clean, Retreat, StopAgain, CleanAgain, Restart,
       Verify, Early
  <2>2. \A u \in Update : u # job => backup'[u] = backup[u]
    BY <1>0, <1>5, MiddleKeeps DEF FileType
  <2>3. faults' = 0 => \A t \in Target : before'[t] = None => \E u \in Update : u # job' /\ backup'[u][t] # None
    BY <1>0, <2>1, <2>2 DEF LostInv
  <2>4. ASSUME upc' \in {"restart", "verify", "rolled_back", "give_up"}, faults' = 0, NEW t \in Target
        PROVE  installed'[t] # None \/ \E u \in Update : backup'[u][t] # None
    <3>1. upc \in After
      BY <1>5, <2>4 DEF Middle, Bootstrap, Health, Clean, Retreat, StopAgain, CleanAgain, Restart, Verify,
         After
    <3>2. installed[t] = before[t]
      BY <1>0, <2>1, <2>4, <3>1 DEF FileInv, BoundType
    <3> QED BY <2>1, <2>3, <2>4, <3>2
  <2> QED BY <1>4, <2>1, <2>3, <2>4
<1>6. CASE Switch
  <2> PICK t \in Target : SwapOut(t) \/ SwapIn(t) \/ SwapInFails(t) \/ Remove(t) \/ Restore(t)
    BY <1>6 DEF Switch
  <2>1. \A u \in Update : u # job => backup'[u] = backup[u]
    BY <1>0, SwitchKeeps DEF FileType
  <2>2. /\ upc \notin {"none", "start"} \union Early /\ before' = before /\ job' = job /\ job \in Update
        /\ faults' = 0 => faults = 0
        /\ upc' \notin {"none", "start", "restart", "verify", "rolled_back", "give_up"} \union Early
    BY SwitchKeeps DEF Early
  <2>3. faults' = 0 => \A s \in Target : before'[s] = None => \E u \in Update : u # job' /\ backup'[u][s] # None
    BY <1>0, <2>1, <2>2 DEF LostInv
  <2> QED BY <1>4, <2>2, <2>3
<1> QED BY <1>1, <1>2, <1>3, <1>5, <1>6, Steps

\* Every step keeps the record of what was switched.
LEMMA SwapStep == IInv /\ [Next]_vars => SwapInv'
<1> SUFFICES ASSUME IInv, [Next]_vars PROVE SwapInv'
  OBVIOUS
<1>0. UpdaterType /\ SwapInv
  BY TypesByParts DEF IInv
<1>1. CASE Aside
  BY <1>0, <1>1, AsideKeeps DEF SwapInv
<1>2. CASE Fresh
  <2>1. upc' \in {"none", "start"} \union Early
    BY <1>2, FreshKeeps
  <2>2. swapped' = {}
    BY <1>0, <1>2 DEF Fresh, Kick, Reboot, Claim, Check, Prepare, Fail, Identify, Succeed, RolledBack, GiveUp,
       SwapInv, Early
  <2> QED BY <2>1, <2>2 DEF SwapInv, Early
<1>3. CASE Middle
  BY <1>0, <1>3 DEF SwapInv, Middle, Bootout, Bootstrap, Health, Clean, Retreat, StopAgain, CleanAgain, Restart,
     Verify, Early
<1>4. ASSUME NEW t \in Target, SwapOut(t) \/ SwapIn(t) \/ SwapInFails(t) \/ Remove(t) \/ Restore(t)
      PROVE  SwapInv'
  BY <1>0, <1>4 DEF SwapOut, SwapIn, SwapInFails, Remove, Restore, SwapInv, Last, Early
<1> QED BY <1>1, <1>2, <1>3, <1>4, Steps DEF Switch

\* Every step keeps updaters where launchd can start them.
LEMMA LaunchStep == IInv /\ [Next]_vars => LaunchInv'
<1> SUFFICES ASSUME IInv, [Next]_vars PROVE LaunchInv'
  OBVIOUS
<1>0. ExecdType /\ UpdaterType /\ LaunchInv
  BY TypesByParts DEF IInv
<1>1. CASE Aside
  BY <1>0, <1>1, AsideKeeps DEF LaunchInv
<1>2. CASE Kick
  BY <1>2, Binaries DEF LaunchInv, Kick, Present
<1>3. CASE Reboot
  BY <1>3, Binaries DEF LaunchInv, Reboot, Present, UpdaterFiles, Early
<1>4. CASE Fresh /\ ~Kick /\ ~Reboot
  <2>1. /\ registered' = registered /\ upc # "none"
        /\ upc' \in {"start"} \union Early => upc \in {"start"} \union Early
    BY <1>4 DEF Fresh, Claim, Check, Prepare, Fail, Identify, Succeed, RolledBack, GiveUp, Early
  <2>2. installed' = installed
    BY <1>4, FreshKeeps
  <2> QED BY <1>0, <2>1, <2>2 DEF LaunchInv
<1>5. CASE Middle
  BY <1>0, <1>5, MiddleKeeps DEF LaunchInv
<1>6. ASSUME NEW t \in Target, SwapOut(t) \/ SwapIn(t) \/ SwapInFails(t) \/ Remove(t) \/ Restore(t)
      PROVE  LaunchInv'
  BY <1>0, <1>6, SwitchKeeps DEF LaunchInv, Early
<1> QED BY <1>1, <1>2, <1>3, <1>4, <1>5, <1>6, Steps DEF Switch

\* Every step leaves execd loaded or about to be.
LEMMA DaemonStep == IInv /\ [Next]_vars => DaemonInv'
<1> SUFFICES ASSUME IInv, [Next]_vars PROVE DaemonInv'
  OBVIOUS
<1>0. RowType /\ ExecdType /\ UpdaterType /\ BoundType /\ DaemonInv
  BY TypesByParts DEF IInv
<1> USE DEF DaemonInv, Stopped
<1>1. CASE Aside
  <2>1. loaded' = loaded /\ (~loaded => epc' = "down" /\ state' = state)
    BY <1>0, <1>1 DEF Aside, Schedule, Peek, KickFails, MarkKickFailed, ExecdDies, ExecdRestarts, work
  <2> QED BY <1>0, <1>1, <2>1, AsideKeeps
<1>2. CASE Kick
  BY <1>0, <1>2 DEF Kick
<1>3. CASE Reboot
  <2>1. reboots' # 0
    BY <1>0, <1>3 DEF Reboot, BoundType
  <2> QED BY <1>3, <2>1 DEF Reboot
<1>4. CASE Claim \/ Check \/ Prepare \/ Fail \/ Identify \/ Succeed \/ RolledBack
  <2>1. upc \notin Stopped \union {"none"} /\ UNCHANGED <<execd, reboots>>
    BY <1>4 DEF Claim, Check, Prepare, Fail, Identify, Succeed, RolledBack
  <2>2. upc' \in {"none"} \union Early
    BY <1>4 DEF Claim, Check, Prepare, Fail, Identify, Succeed, RolledBack, Early
  <2> QED BY <1>0, <2>1, <2>2 DEF Early
<1>5. CASE GiveUp
  <2>1. /\ upc' = "none" /\ job \in Update /\ state' = [state EXCEPT ![job] = "rollback_failed"]
        /\ UNCHANGED <<execd, reboots>>
    BY <1>0, <1>5 DEF GiveUp, UpdaterType
  <2>2. state'[job] = "rollback_failed"
    BY <1>0, <2>1 DEF RowType
  <2> QED BY <1>0, <2>1, <2>2
<1>6. CASE Bootout
  BY <1>0, <1>6 DEF Bootout, Stop
<1>7. CASE Bootstrap
  BY <1>0, <1>7 DEF Bootstrap, Start
<1>8. CASE Health \/ Clean \/ Retreat \/ CleanAgain \/ Verify
  <2>1. UNCHANGED <<execd, reboots>> /\ upc' \notin {"swap_out", "swap_in", "bootstrap", "none"}
    BY <1>8 DEF Health, Clean, Retreat, CleanAgain, Verify
  <2>2. upc' \in Stopped \/ upc \notin Stopped \union {"none"}
    BY <1>8 DEF Health, Clean, Retreat, CleanAgain, Verify
  <2> QED BY <1>0, <2>1, <2>2
<1>9. CASE StopAgain
  BY <1>0, <1>9 DEF StopAgain, Stop
<1>10. CASE Restart
  BY <1>0, <1>10 DEF Restart, Start
<1>11. ASSUME NEW t \in Target, SwapOut(t) \/ SwapIn(t) \/ SwapInFails(t) \/ Remove(t) \/ Restore(t)
       PROVE  DaemonInv'
  BY <1>0, <1>11 DEF SwapOut, SwapIn, SwapInFails, Remove, Restore
<1> QED BY <1>1, <1>2, <1>3, <1>4, <1>5, <1>6, <1>7, <1>8, <1>9, <1>10, <1>11, Steps
        DEF Fresh, Middle, Switch

\* Without failing kickstarts every step keeps the active row with its updater.
LEMMA RowStep == IInv /\ [Next]_vars => RowInv'
<1> SUFFICES ASSUME IInv, [Next]_vars, kickFaults' = 0 PROVE RowInv'
  BY DEF RowInv
<1>0. /\ RowType /\ ExecdType /\ UpdaterType /\ BoundType
      /\ SwapInv /\ LaunchInv /\ DaemonInv
  BY TypesByParts DEF IInv
<1>a. kickFaults = 0
  BY <1>0, NextMoves DEF BoundType, Moves, Execd, Tick, UpdaterStep, Switch, Schedule, Peek, Kick, KickFails, MarkKickFailed,
     ExecdDies, ExecdRestarts, Claim, Check, Prepare, Fail, Identify, Bootout, SwapOut, SwapIn, SwapInFails,
     Bootstrap, Health, Clean, Succeed, Retreat, StopAgain, Remove, Restore, CleanAgain, Restart, Verify,
     RolledBack, GiveUp, Reboot, work
<1>b. /\ OneActiveUpdate
      /\ job # None => state[job] \in {"launching", "running"}
      /\ swapped # {} => epc \notin {"kick", "mark_failed"}
      /\ epc = "mark_failed" => /\ state[peeked] = "queued"
                                /\ ~registered \/ installed[UpdaterBinary] = None
      /\ epc = "kick" => \/ state[peeked] = "queued"
                         \/ registered /\ installed[UpdaterBinary] # None
  BY <1>a DEF IInv, RowInv
<1>c. job # None => job \in Update
  BY <1>0 DEF UpdaterType
<1>d. swapped # {} => job # None
  BY <1>0, Binaries DEF UpdaterType, SwapInv
<1>e. epc \in {"kick", "mark_failed"} => peeked \in Update
  BY <1>0 DEF ExecdType
<1> USE DEF Active, OneActiveUpdate
<1>1. ASSUME NEW u \in Update, Schedule(u) PROVE RowInv'
  <2>1. job = None
    BY <1>1, <1>b, <1>c DEF Schedule
  <2>2. state' = [state EXCEPT ![u] = "queued"] /\ epc' = "idle" /\ job' = None
        /\ \A v \in Update : state[v] \notin Active
    BY <1>1, <2>1 DEF Schedule
  <2> QED BY <1>0, <2>2 DEF RowInv, RowType
<1>2. ASSUME NEW u \in Update, Peek(u) PROVE RowInv'
  <2>1. swapped = {}
    BY <1>2, <1>b, <1>c, <1>d DEF Peek
  <2>2. /\ state[u] = "queued" /\ peeked' = u /\ UNCHANGED <<state, installed, registered, job, swapped>>
        /\ epc' = IF installed[UpdaterBinary] # None THEN "kick" ELSE "mark_failed"
    BY <1>2 DEF Peek, Present
  <2> QED BY <1>b, <2>1, <2>2 DEF RowInv
<1>3. CASE KickFails
  <2>1. /\ epc = "kick" /\ epc' = "mark_failed"
        /\ UNCHANGED <<state, installed, registered, peeked, job, swapped>>
    BY <1>3 DEF KickFails
  <2>2. ~registered \/ installed[UpdaterBinary] = None
    BY <1>3, <1>a DEF KickFails, Present
  <2> QED BY <1>b, <2>1, <2>2 DEF RowInv
<1>4. CASE MarkKickFailed
  <2>1. /\ state[peeked] = "queued" /\ peeked \in Update /\ epc' = "idle"
        /\ state' = [state EXCEPT ![peeked] = "failed"] /\ UNCHANGED <<job, swapped>>
    BY <1>4, <1>b, <1>e DEF MarkKickFailed
  <2> QED BY <1>0, <1>b, <1>c, <2>1 DEF RowInv, RowType
<1>5. CASE ExecdDies \/ ExecdRestarts
  <2>1. epc' \in {"down", "idle"} /\ UNCHANGED <<state, job, swapped>>
    BY <1>5 DEF ExecdDies, ExecdRestarts
  <2> QED BY <1>b, <2>1 DEF RowInv
<1>6. CASE Kick \/ Reboot
  <2>1. epc' \in {"down", "idle"} /\ job' = None /\ UNCHANGED state
    BY <1>6 DEF Kick, Reboot
  <2> QED BY <1>b, <2>1 DEF RowInv
<1>7. CASE Claim
  <2>1. /\ upc = "start" /\ swapped = {} /\ UNCHANGED <<execd, installed>>
        /\ registered /\ installed[UpdaterBinary] # None /\ swapped' = {}
    BY <1>0, <1>7 DEF Claim, SwapInv, LaunchInv
  <2>2. CASE job' = None /\ UNCHANGED state
    BY <1>b, <2>1, <2>2 DEF RowInv
  <2>3. ASSUME NEW u \in Update, state[u] = "queued", state' = [state EXCEPT ![u] = "launching"], job' = u
        PROVE  RowInv'
    BY <1>0, <1>b, <2>1, <2>3 DEF RowInv, RowType
  <2> QED BY <1>7, <2>2, <2>3 DEF Claim
<1>8. CASE Check
  <2>1. job' \in {job, None} /\ swapped' \in {swapped, {}} /\ UNCHANGED <<state, execd, installed>>
    BY <1>8 DEF Check
  <2> QED BY <1>b, <2>1 DEF RowInv
<1>9. ASSUME job \in Update, state' \in {state, [state EXCEPT ![job] = "running"]},
             UNCHANGED <<job, installed, registered, swapped>>,
             epc' \in {"kick", "mark_failed"} => UNCHANGED <<epc, peeked>>
      PROVE  RowInv'
  <2>1. state[job] \in {"launching", "running"} /\ state'[job] \in {"launching", "running"}
    BY <1>0, <1>9, <1>b, Binaries DEF RowType
  <2>2. \A u \in Update : (u # job => state'[u] = state[u]) /\ (state'[u] \in Active => state[u] \in Active)
    BY <1>0, <1>9, <2>1 DEF RowType
  <2>3. epc \in {"kick", "mark_failed"} /\ state[peeked] = "queued" => state'[peeked] = "queued"
    BY <1>e, <2>1, <2>2
  <2> QED BY <1>9, <1>b, <2>1, <2>2, <2>3 DEF RowInv
<1>10. CASE Prepare \/ Identify
  BY <1>0, <1>9, <1>10 DEF Prepare, Identify, UpdaterType
<1>11. CASE Middle
  <2>1. epc' \in {"kick", "mark_failed"} => UNCHANGED <<epc, peeked>>
    BY <1>11 DEF Middle, Bootout, Bootstrap, Health, Clean, Retreat, StopAgain, CleanAgain, Restart, Verify,
       Start, Stop
  <2> QED BY <1>9, <1>11, <2>1, MiddleKeeps
<1>12. CASE Fail \/ Succeed \/ RolledBack \/ GiveUp
  <2>1. /\ job \in Update /\ job' = None /\ swapped' = {} /\ UNCHANGED <<execd, installed>>
        /\ \E r \in {"failed", "succeeded", "rolled_back", "rollback_failed"} : state' = [state EXCEPT ![job] = r]
    BY <1>0, <1>12 DEF Fail, Succeed, RolledBack, GiveUp, UpdaterType
  <2>2. \A u \in Update : (u # job => state'[u] = state[u]) /\ (state'[u] \in Active => state[u] \in Active)
    BY <1>0, <2>1 DEF RowType
  <2>3. epc \in {"kick", "mark_failed"} /\ state[peeked] = "queued" => state'[peeked] = "queued"
    BY <1>b, <1>e, <2>1, <2>2, Binaries
  <2> QED BY <1>b, <2>1, <2>2, <2>3 DEF RowInv
<1>13. CASE Switch
  <2> PICK t \in Target : SwapOut(t) \/ SwapIn(t) \/ SwapInFails(t) \/ Remove(t) \/ Restore(t)
    BY <1>13 DEF Switch
  <2>1. epc \notin {"kick", "mark_failed"}
    <3>1. CASE upc \in {"swap_out", "swap_in"}
      BY <1>0, <3>1 DEF DaemonInv
    <3>2. CASE upc \in {"remove", "restore"}
      BY <1>0, <1>b, <3>2 DEF SwapInv
    <3> QED BY <3>1, <3>2, SwitchKeeps
  <2> QED BY <1>b, <2>1, SwitchKeeps DEF RowInv
<1>14. CASE UNCHANGED work
  BY <1>b, <1>14 DEF RowInv, work
<1> QED BY <1>1, <1>2, <1>3, <1>4, <1>5, <1>6, <1>7, <1>8, <1>10, <1>11, <1>12, <1>13, <1>14, Steps
        DEF Aside, Fresh

\* The inductive invariant holds in every reachable state.
LEMMA Inductive == Spec => []IInv
<1>1. Init => IInv
  BY InitIInv
<1>2. IInv /\ [Next]_vars => IInv'
  BY TypeStep, NewStep, FileStep, LostStep, DaemonStep, RowStep, LaunchStep, SwapStep DEF IInv
<1> QED BY <1>1, <1>2, PTL DEF Spec
-----------------------------------------------------------------------------
(* Every row, file and local has its type (update_controller.c).           *)
THEOREM TypeCorrect == Spec => []TypeOK
<1>1. IInv => TypeOK
  BY DEF IInv
<1> QED BY <1>1, Inductive, PTL

(* A target is in place or in a rollback sibling, wherever power fails     *)
(* (apply_swap, rollback_swap, cleanup_swap).                              *)
THEOREM TargetsAreKept == Spec => []NoTargetLost
<1>1. IInv => NoTargetLost
  BY DEF IInv, LostInv
<1> QED BY <1>1, Inductive, PTL

(* An updater that ends leaves execd loaded or reports that the rollback   *)
(* failed (run_update).                                                    *)
THEOREM DaemonIsBack == Spec => []DaemonSurvives
<1>1. IInv => DaemonSurvives
  BY DEF IInv, DaemonInv, DaemonSurvives, Stopped
<1> QED BY <1>1, Inductive, PTL

(* One update at a time is active as long as no kickstart fails            *)
(* (rt_update_schedule, rt_update_claim_pending, rt_update_mark).          *)
THEOREM UpdatesTakeTurns == Spec => []OneActiveUnlessKickFails
<1>1. IInv => OneActiveUnlessKickFails
  BY DEF IInv, RowInv, OneActiveUnlessKickFails
<1> QED BY <1>1, Inductive, PTL

\* Which step settles a row as succeeded or rolled back.
LEMMA Settling ==
    ASSUME IInv, [Next]_vars, NEW u \in Update, state'[u] # state[u]
    PROVE  /\ state'[u] = "succeeded" => Succeed /\ u = job
           /\ state'[u] = "rolled_back" => RolledBack /\ u = job
<1>0. RowType /\ ExecdType /\ UpdaterType
  BY TypesByParts DEF IInv
<1>1. CASE Aside
  BY <1>0, <1>1 DEF Aside, Schedule, Peek, KickFails, MarkKickFailed, ExecdDies, ExecdRestarts, work,
     RowType, ExecdType
<1>2. CASE Fresh
  BY <1>0, <1>2 DEF Fresh, Kick, Reboot, Claim, Check, Prepare, Fail, Identify, Succeed, RolledBack, GiveUp,
     RowType, UpdaterType
<1>3. CASE Middle
  BY <1>0, <1>3, MiddleKeeps DEF RowType
<1>4. CASE Switch
  BY <1>4, SwitchKeeps DEF Switch
<1> QED BY <1>1, <1>2, <1>3, <1>4, Steps

(* A succeeded update has replaced every target and left no sibling        *)
(* (run_update, cleanup_swap).                                             *)
THEOREM SuccessIsWhole == Spec => SucceedsWhole
<1>1. ASSUME IInv, [Next]_vars
      PROVE  [\A u \in Update : state[u] # "succeeded" /\ state'[u] = "succeeded" =>
                \A t \in Target : installed[t] = u /\ backup[u][t] = None]_vars
  BY <1>1, Settling DEF IInv, FileInv, Succeed
<1> QED BY <1>1, Inductive, PTL DEF Spec, SucceedsWhole

(* A rollback leaves the old file at each target, or none after a rename   *)
(* that failed (rollback_swap).                                            *)
THEOREM RollbackLeavesNothingNew == Spec => NothingNewStays
<1>1. ASSUME IInv, [Next]_vars
      PROVE  [\A u \in Update : state[u] # "rolled_back" /\ state'[u] = "rolled_back" =>
                \A t \in Target : installed[t] = before[t] \/ (installed[t] = None /\ faults > 0)]_vars
  BY <1>1, Settling DEF IInv, FileInv, RolledBack, After
<1> QED BY <1>1, Inductive, PTL DEF Spec, NothingNewStays
-----------------------------------------------------------------------------
(* The refinement of AtomicUpdate.                                         *)

\* Where the version of an update can be: nowhere before its attempt, and not among
\* the files it replaces.
ClaimInv ==
    /\ \A u \in Update : state[u] \in {"absent", "queued"} =>
          \A t \in Target : installed[t] # u /\ \A w \in Update : backup[w][t] # u
    /\ upc \in Early =>
          \A t \in Target : installed[t] # job /\ \A w \in Update : backup[w][t] # job
    /\ upc \in Undecided => \A t \in Target : before[t] # job
    /\ job # None => state[job] \in {"launching", "running", "failed"}
    /\ upc = "check" => state[job] # "running"

\* At first there is Base, everywhere.
LEMMA InitClaim == Init => ClaimInv
<1> SUFFICES ASSUME Init PROVE ClaimInv
  OBVIOUS
<1>1. \A t \in Target, u \in Update : installed[t] # u /\ \A w \in Update : backup[w][t] # u
  BY Binaries DEF Init
<1>2. upc = "none" /\ job = None
  BY DEF Init
<1> QED BY <1>1, <1>2 DEF ClaimInv, Early, Undecided

\* Every step keeps it: a version comes in by its own attempt only.
LEMMA ClaimStep == IInv /\ ClaimInv /\ [Next]_vars => ClaimInv'
<1> SUFFICES ASSUME IInv, ClaimInv, [Next]_vars PROVE ClaimInv'
  OBVIOUS
<1>0. RowType /\ FileType /\ ExecdType /\ UpdaterType /\ BoundType
  BY TypesByParts DEF IInv
<1>1. CASE Aside
  <2>1. UNCHANGED <<files, updater, before>>
    BY <1>1, AsideKeeps
  <2>2. \A u \in Update : state'[u] \in {"absent", "queued"} => state[u] \in {"absent", "queued"}
    BY <1>0, <1>1 DEF Aside, Schedule, Peek, KickFails, MarkKickFailed, ExecdDies, ExecdRestarts, work,
       RowType, ExecdType
  <2>3. \A u \in Update : u = job => state'[u] \in {state[u], "failed"}
    BY <1>0, <1>1, Binaries DEF Aside, Schedule, Peek, KickFails, MarkKickFailed, ExecdDies, ExecdRestarts, work,
       RowType, ExecdType, ClaimInv, Active
  <2>4. job # None => job \in Update
    BY <1>0 DEF UpdaterType
  <2>5. upc = "check" => job # None
    BY <1>0, Binaries DEF UpdaterType
  <2> QED BY <2>1, <2>2, <2>3, <2>4, <2>5 DEF ClaimInv, updater
<1>2. CASE Fresh
  <2>1. UNCHANGED <<installed, before, backup>> /\ upc' \in {"none", "start"} \union Early
    BY <1>2, FreshKeeps
  <2>2. \A u \in Update : state'[u] \in {"absent", "queued"} => state[u] \in {"absent", "queued"}
    BY <1>0, <1>2 DEF Fresh, Kick, Reboot, Claim, Check, Prepare, Fail, Identify, Succeed, RolledBack,
       GiveUp, RowType, UpdaterType
  <2>3. upc' \in Early => /\ job' \in Update
                          /\ state[job'] = "queued" \/ (upc \in Early /\ job' = job)
                          /\ state'[job'] \in {"launching", "running", "failed"}
                          /\ upc' = "check" => state'[job'] # "running"
    BY <1>0, <1>2 DEF Fresh, Kick, Reboot, Claim, Check, Prepare, Fail, Identify, Succeed, RolledBack,
       GiveUp, RowType, UpdaterType, ClaimInv, Early
  <2>4. job' # None => upc' \in Early
    BY <1>0, <1>2 DEF Fresh, Kick, Reboot, Claim, Check, Prepare, Fail, Identify, Succeed, RolledBack,
       GiveUp, UpdaterType, Early
  <2>5. upc' \notin Undecided
    BY <2>1 DEF Undecided, Early
  <2> QED BY <2>1, <2>2, <2>3, <2>4, <2>5 DEF ClaimInv, Early
<1>3. CASE Middle
  <2>1. /\ upc \notin {"none", "start"} /\ job \in Update /\ UNCHANGED <<installed, job>>
        /\ upc' \notin {"none", "start"} \union Early
        /\ backup' \in {backup, [backup EXCEPT ![job] = [t \in Target |-> None]]}
        /\ state' \in {state, [state EXCEPT ![job] = "running"]}
    BY <1>3, MiddleKeeps
  <2>2. \A t \in Target, w \in Update : backup'[w][t] \in {backup[w][t], None}
    BY <1>0, <2>1 DEF FileType
  <2>3. \A u \in Update : state'[u] = state[u] \/ (u = job /\ state'[u] = "running")
    BY <1>0, <2>1 DEF RowType
  <2>4. upc' \in Undecided => \A t \in Target : before'[t] # job
    BY <1>3 DEF Middle, Bootout, Bootstrap, Health, Clean, Retreat, StopAgain, CleanAgain, Restart, Verify,
       ClaimInv, Undecided, Early
  <2>5. job \in Version /\ None \notin Update
    BY <2>1 DEF Version
  <2>6. upc' # "check"
    BY <2>1 DEF Early
  <2> QED BY <2>1, <2>2, <2>3, <2>4, <2>5, <2>6 DEF ClaimInv
<1>4. ASSUME NEW t \in Target, SwapOut(t) \/ SwapIn(t) \/ SwapInFails(t) \/ Remove(t) \/ Restore(t)
      PROVE  ClaimInv'
  <2>1. /\ upc \in {"swap_out", "swap_in", "remove", "restore"} /\ job \in Update
        /\ UNCHANGED <<state, before, job>>
        /\ upc' \in {"swap_out", "swap_in", "bootstrap", "retreat", "remove", "restore", "clean_again"}
    BY <1>4, SwitchKeeps
  <2>2. /\ backup' \in {backup, [backup EXCEPT ![job][t] = installed[t]], [backup EXCEPT ![job][t] = None]}
        /\ installed' \in {installed, [installed EXCEPT ![t] = None], [installed EXCEPT ![t] = job],
                           [installed EXCEPT ![t] = backup[job][t]]}
    BY <1>4 DEF SwapOut, SwapIn, SwapInFails, Remove, Restore
  <2>3. ASSUME NEW u \in Update, state[u] \in {"absent", "queued"}, NEW r \in Target
        PROVE  installed'[r] # u /\ \A w \in Update : backup'[w][r] # u
    <3>1. /\ \A q \in Target : installed[q] # u /\ \A w \in Update : backup[w][q] # u
          /\ u # job /\ u # None
      BY <2>1, <2>3, Binaries DEF ClaimInv
    <3>2. installed'[r] \in {installed[r], None, job, backup[job][t]}
      BY <1>0, <2>2 DEF FileType
    <3>3. \A w \in Update : backup'[w][r] \in {backup[w][r], installed[t], None}
      BY <1>0, <2>1, <2>2 DEF FileType
    <3> QED BY <2>1, <3>1, <3>2, <3>3
  <2>4. upc \in Undecided /\ upc' \notin Early /\ upc' # "check"
    BY <2>1 DEF Undecided, Early
  <2> QED BY <2>1, <2>3, <2>4 DEF ClaimInv
<1> QED BY <1>1, <1>2, <1>3, <1>4, Steps DEF Switch

\* A mixture of what was there, of the update's files and of gaps is of one version
\* only if it is one of the two.
LEMMA VersionOfMixture ==
    ASSUME NEW f, NEW g, NEW u, \A t \in Target : g[t] \in {f[t], u, None}
    PROVE  VersionOf(g) \in {VersionOf(f), u, None}
<1>1. 1 \in Target
  BY DEF Target
<1>2. CASE \A t \in Target : g[t] = g[1]
  <2>1. VersionOf(g) = g[1]
    BY <1>2 DEF VersionOf
  <2>2. CASE g[1] \notin {u, None}
    <3>1. \A t \in Target : f[t] = g[1]
      BY <1>2, <2>2
    <3>2. VersionOf(f) = g[1]
      BY <1>1, <3>1 DEF VersionOf
    <3> QED BY <2>1, <3>2
  <2> QED BY <2>1, <2>2
<1>3. CASE ~(\A t \in Target : g[t] = g[1])
  BY <1>3 DEF VersionOf
<1> QED BY <1>2, <1>3

\* The version of files that are all of one, and of files none of which is of u.
LEMMA VersionOfAll ==
    ASSUME NEW f, NEW u
    PROVE  /\ (\A t \in Target : f[t] = u) => VersionOf(f) = u
           /\ u # None /\ (\A t \in Target : f[t] # u) => VersionOf(f) # u
<1>1. 1 \in Target
  BY DEF Target
<1> QED BY <1>1 DEF VersionOf

\* What AtomicUpdate sees of a state.
Current == VersionOf(IF upc \in Undecided THEN before ELSE installed)
Taken   == {u \in Update : state[u] \notin {"absent", "queued"}}
Verdict == [u \in Update |-> IF state[u] \in Settled THEN state[u] ELSE "open"]

\* What it sees of a row that is written.
LEMMA Marked ==
    ASSUME RowType, NEW u \in Update, NEW s, state' = [state EXCEPT ![u] = s]
    PROVE  /\ Verdict' = [Verdict EXCEPT ![u] = IF s \in Settled THEN s ELSE "open"]
           /\ s \notin {"absent", "queued"} => Taken' = Taken \union {u}
           /\ s = "queued" /\ state[u] = "absent" => Taken' = Taken
<1>1. \A w \in Update : state'[w] = IF w = u THEN s ELSE state[w]
  BY DEF RowType
<1> QED BY <1>1 DEF Verdict, Taken

\* In an attempt the files are old, new or missing.
LEMMA Mixture ==
    ASSUME IInv, upc \in Undecided
    PROVE  VersionOf(installed) \in {VersionOf(before), job, None}
<1>0. FileInv /\ faults \in Nat /\ SwapInv
  BY TypesByParts DEF IInv, BoundType
<1>1. \A t \in Target : installed[t] \in {before[t], job, None}
  <2> SUFFICES ASSUME NEW t \in Target PROVE installed[t] \in {before[t], job, None}
    OBVIOUS
  <2> USE DEF Kept, New, Moved
  <2>1. CASE upc = "swap_out"
    BY <1>0, <2>1 DEF FileInv
  <2>2. CASE upc = "swap_in"
    BY <1>0, <2>2 DEF FileInv
  <2>3. CASE upc \in Whole
    BY <1>0, <2>3 DEF FileInv
  <2>4. CASE upc \in Back
    BY <1>0, <2>4 DEF FileInv
  <2>5. CASE upc \in After
    BY <1>0, <2>5 DEF FileInv
  <2> QED BY <2>1, <2>2, <2>3, <2>4, <2>5 DEF Undecided, Whole, Back, After
<1> QED BY <1>1, VersionOfMixture

\* An attempt that is given up leaves the old version, or a mixture if a file
\* could not be put back.
LEMMA PutBack ==
    ASSUME IInv, upc \in After
    PROVE  VersionOf(installed) = VersionOf(before) \/ (faults > 0 /\ VersionOf(installed) = None)
<1>0. FileInv /\ faults \in Nat
  BY TypesByParts DEF IInv, BoundType
<1>1. CASE faults = 0
  <2>1. \A t \in Target : installed[t] = before[t]
    BY <1>0, <1>1 DEF FileInv
  <2>2. 1 \in Target
    BY DEF Target
  <2> QED BY <2>1, <2>2 DEF VersionOf
<1>2. CASE faults > 0
  <2>1. \A t \in Target : installed[t] \in {before[t], None, None}
    BY <1>0 DEF FileInv
  <2>2. VersionOf(installed) \in {VersionOf(before), None, None}
    BY <2>1, VersionOfMixture
  <2> QED BY <1>2, <2>2
<1> QED BY <1>0, <1>1, <1>2

\* The version that counts is of the files as they were while an update is
\* undecided, and of the installed ones otherwise.
LEMMA CurrentIs ==
    /\ upc \in Undecided => Current = VersionOf(before)
    /\ upc \notin Undecided => Current = VersionOf(installed)
    /\ upc' \in Undecided => Current' = VersionOf(before')
    /\ upc' \notin Undecided => Current' = VersionOf(installed')
BY DEF Current

\* A row that is written and reports nothing final is open.
LEMMA Reopened ==
    ASSUME RowType, NEW u \in Update, NEW s \in {"launching", "running"},
           state' = [state EXCEPT ![u] = s]
    PROVE  /\ Verdict' = [Verdict EXCEPT ![u] = "open"]
           /\ Taken' = Taken \union {u}
           /\ state[u] \notin Settled => Verdict' = Verdict
<1>1. s \notin Settled /\ s \notin {"absent", "queued"}
  BY DEF Settled
<1>2. Verdict' = [Verdict EXCEPT ![u] = "open"] /\ Taken' = Taken \union {u}
  BY <1>1, Marked
<1>3. state[u] \notin Settled => Verdict[u] = "open"
  BY DEF Verdict
<1>4. Verdict = [w \in Update |-> Verdict[w]]
  BY DEF Verdict
<1> QED BY <1>2, <1>3, <1>4

\* Steps of execd and launchd: only an update that could not be started is seen.
LEMMA AsideSeen ==
    ASSUME IInv, ClaimInv, Aside
    PROVE  \/ UNCHANGED <<Current, job, Taken, Verdict, faults>>
           \/ \E u \in Update : /\ Taken' = Taken \union {u}
                               /\ Verdict' = [Verdict EXCEPT ![u] = "failed"]
                               /\ UNCHANGED <<Current, job, faults>>
<1>0. RowType /\ ExecdType
  BY TypesByParts DEF IInv
<1>1. UNCHANGED <<installed, before, upc, job, faults>>
  BY AsideKeeps
<1>2. UNCHANGED Current
  BY <1>1 DEF Current
<1>3. CASE UNCHANGED state
  BY <1>1, <1>2, <1>3 DEF Taken, Verdict
<1>4. ASSUME NEW u \in Update, Schedule(u) PROVE UNCHANGED <<Taken, Verdict>>
  <2>1. state[u] = "absent" /\ state' = [state EXCEPT ![u] = "queued"] /\ "queued" \notin Settled
    BY <1>4 DEF Schedule, Settled
  <2>2. Taken' = Taken /\ Verdict' = [Verdict EXCEPT ![u] = "open"]
    BY <1>0, <2>1, Marked
  <2>3. Verdict[u] = "open" /\ Verdict = [w \in Update |-> Verdict[w]]
    BY <2>1 DEF Verdict, Settled
  <2> QED BY <2>2, <2>3
<1>5. CASE MarkKickFailed
  <2>1. PICK u \in Update : u = peeked
    BY <1>0, <1>5 DEF MarkKickFailed, ExecdType
  <2>2. state' = [state EXCEPT ![u] = "failed"] /\ "failed" \in Settled
    BY <1>5, <2>1 DEF MarkKickFailed, Settled
  <2>3. Taken' = Taken \union {u} /\ Verdict' = [Verdict EXCEPT ![u] = "failed"]
    BY <1>0, <2>2, Marked
  <2> QED BY <1>1, <1>2, <2>3
<1> QED BY <1>1, <1>2, <1>3, <1>4, <1>5
        DEF Aside, Peek, KickFails, ExecdDies, ExecdRestarts, work

\* Steps in the middle of the switch: the attempt goes on, or the new daemon
\* has answered.
LEMMA MiddleSeen ==
    ASSUME IInv, ClaimInv, Middle
    PROVE  \/ UNCHANGED <<Current, job, Taken, Verdict, faults>>
           \/ /\ job # None /\ Verdict[job] \in {"open", "failed"}
              /\ Verdict' = [Verdict EXCEPT ![job] = "open"]
              /\ UNCHANGED <<Current, job, Taken, faults>>
           \/ /\ job # None /\ Current # job /\ Current' = job
              /\ UNCHANGED <<job, Taken, Verdict, faults>>
<1>0. RowType /\ FileType /\ UpdaterType
  BY TypesByParts DEF IInv
<1>1. /\ job \in Update /\ job # None /\ UNCHANGED <<installed, job>>
      /\ state[job] \in {"launching", "running", "failed"}
  BY <1>0, MiddleKeeps, Binaries DEF ClaimInv
<1>2. faults' = faults
  BY DEF Middle, Bootout, Bootstrap, Health, Clean, Retreat, StopAgain, CleanAgain, Restart, Verify
<1>3. CASE Retreat
  <2>1. PICK u \in Update : u = job
    BY <1>1
  <2>2. state' = [state EXCEPT ![u] = "running"]
    BY <1>3, <2>1 DEF Retreat
  <2>3. Verdict' = [Verdict EXCEPT ![u] = "open"] /\ Taken' = Taken \union {u}
    BY <1>0, <2>2, Reopened
  <2>4. u \in Taken /\ Verdict[u] \in {"open", "failed"}
    BY <1>1, <2>1 DEF Taken, Verdict, Settled
  <2>5. upc \in Undecided /\ upc' \in Undecided /\ before' = before
    BY <1>3 DEF Retreat, Undecided
  <2>6. Taken' = Taken
    BY <2>3, <2>4
  <2> QED BY <1>1, <1>2, <2>1, <2>3, <2>4, <2>5, <2>6, CurrentIs
<1>4. ~Retreat => UNCHANGED <<Taken, Verdict>>
  <2>1. ~Retreat => UNCHANGED state
    BY DEF Middle, Bootout, Bootstrap, Health, Clean, StopAgain, CleanAgain, Restart, Verify
  <2> QED BY <2>1 DEF Taken, Verdict
<1>5. CASE Bootout
  <2>1. upc \notin Undecided /\ upc' \in Undecided /\ before' = installed /\ ~Retreat
    BY <1>5 DEF Bootout, Undecided, Retreat
  <2> QED BY <1>1, <1>2, <1>4, <2>1, CurrentIs
<1>6. CASE Health /\ upc' = "clean"
  <2>1. upc = "health" /\ upc \in Undecided /\ upc' \notin Undecided /\ ~Retreat
    BY <1>6 DEF Health, Undecided, Retreat
  <2>2. \A t \in Target : installed[t] = job
    BY <2>1 DEF IInv, FileInv, Whole, New
  <2>3. \A t \in Target : before[t] # job
    BY <2>1 DEF ClaimInv
  <2>4. VersionOf(installed) = job /\ VersionOf(before) # job
    BY <1>1, <2>2, <2>3, VersionOfAll
  <2> QED BY <1>1, <1>2, <1>4, <2>1, <2>4, CurrentIs
<1>7. CASE Clean
  <2>1. upc \notin Undecided /\ upc' \notin Undecided /\ ~Retreat
    BY <1>7 DEF Clean, Undecided, Retreat
  <2> QED BY <1>1, <1>2, <1>4, <2>1, CurrentIs
<1>8. CASE Bootstrap \/ (Health /\ upc' # "clean") \/ StopAgain \/ CleanAgain \/ Restart \/ Verify
  <2>1. upc \in Undecided /\ upc' \in Undecided /\ before' = before /\ ~Retreat
    BY <1>8 DEF Bootstrap, Health, StopAgain, CleanAgain, Restart, Verify, Undecided, Retreat
  <2> QED BY <1>1, <1>2, <1>4, <2>1, CurrentIs
<1> QED BY <1>3, <1>5, <1>6, <1>7, <1>8 DEF Middle

\* Steps of the switch: the version that counts stays, and a file that cannot be
\* put back is seen.
LEMMA SwitchSeen ==
    ASSUME IInv, ClaimInv, Switch
    PROVE  /\ UNCHANGED <<Current, job, Taken, Verdict>> /\ job # None
           /\ faults' = faults \/ (Current # job /\ faults' = faults + 1)
<1> PICK t \in Target : SwapOut(t) \/ SwapIn(t) \/ SwapInFails(t) \/ Remove(t) \/ Restore(t)
  BY DEF Switch
<1>1. /\ upc \in {"swap_out", "swap_in", "remove", "restore"} /\ job \in Update
      /\ UNCHANGED <<state, before, job>>
      /\ upc' \in {"swap_out", "swap_in", "bootstrap", "retreat", "remove", "restore", "clean_again"}
  BY SwitchKeeps
<1>2. upc \in Undecided /\ upc' \in Undecided
  BY <1>1 DEF Undecided
<1>3. UNCHANGED <<Current, Taken, Verdict>>
  BY <1>1, <1>2, CurrentIs DEF Taken, Verdict
<1>4. \A r \in Target : before[r] # job
  BY <1>2 DEF ClaimInv
<1>5. job # None /\ Current # job
  BY <1>1, <1>2, <1>4, Binaries, VersionOfAll, CurrentIs
<1>6. faults' = faults \/ faults' = faults + 1
  BY DEF SwapOut, SwapIn, SwapInFails, Remove, Restore
<1> QED BY <1>1, <1>3, <1>5, <1>6

\* The end of an attempt with a report.
Reported(v) ==
    /\ job # None /\ job' = None /\ Verdict' = [Verdict EXCEPT ![job] = v]
    /\ UNCHANGED <<Taken, faults>>

\* What a report does: the row is the attempt's own and is taken already.
LEMMA Reporting ==
    ASSUME IInv, ClaimInv, NEW v \in Settled, job \in Update, job' = None, faults' = faults,
           state' = [state EXCEPT ![job] = v]
    PROVE  Reported(v)
<1>0. RowType
  BY TypesByParts DEF IInv
<1>1. PICK u \in Update : u = job
  OBVIOUS
<1>2. v \notin {"absent", "queued"} /\ u # None /\ state[u] \in {"launching", "running", "failed"}
  BY <1>1, Binaries DEF Settled, ClaimInv
<1>3. state' = [state EXCEPT ![u] = v]
  BY <1>1
<1>4. Verdict' = [Verdict EXCEPT ![u] = v] /\ Taken' = Taken \union {u}
  BY <1>0, <1>2, <1>3, Marked
<1>5. u \in Taken
  BY <1>2 DEF Taken
<1>6. Taken' = Taken
  BY <1>4, <1>5
<1> QED BY <1>1, <1>2, <1>4, <1>6 DEF Reported

\* An attempt begins, goes on, ends with its report, or is killed.
LEMMA FreshSeen ==
    ASSUME IInv, ClaimInv, Fresh
    PROVE  \/ UNCHANGED <<Current, job, Taken, Verdict, faults>>
           \/ \E u \in Update : /\ job = None /\ u \notin Taken /\ job' = u /\ Taken' = Taken \union {u}
                               /\ UNCHANGED <<Current, Verdict, faults>>
           \/ /\ job # None /\ Verdict[job] \in {"open", "failed"}
              /\ Verdict' = [Verdict EXCEPT ![job] = "open"]
              /\ UNCHANGED <<Current, job, Taken, faults>>
           \/ Reported("succeeded") /\ Current = job /\ UNCHANGED Current
           \/ Reported("failed") /\ Current # job /\ UNCHANGED Current
           \/ /\ job # None /\ job' = None /\ Current # job /\ Verdict[job] = "failed"
              /\ UNCHANGED <<Current, Taken, Verdict, faults>>
           \/ /\ Reported("rolled_back") \/ Reported("rollback_failed")
              /\ Current # job
              /\ Current' = Current \/ (faults > 0 /\ Current' = None)
           \/ /\ job # None /\ job' = None /\ Current' \in {Current, job, None}
              /\ UNCHANGED <<Taken, Verdict, faults>>
<1>0. RowType /\ FileType /\ UpdaterType
  BY TypesByParts DEF IInv
<1>1. UNCHANGED <<installed, before, faults>> /\ upc' \in {"none", "start"} \union Early
  BY FreshKeeps
<1>2. upc' \notin Undecided
  BY <1>1 DEF Undecided, Early
<1>3. upc \notin Undecided => Current' = Current
  BY <1>1, <1>2, CurrentIs
<1>4. UNCHANGED state => UNCHANGED <<Taken, Verdict>>
  BY DEF Taken, Verdict
<1>5. upc \in Early \union Undecided => job \in Update /\ job # None
  BY <1>0, Binaries DEF UpdaterType, Early, Undecided
<1>6. upc \in Early => Current # job
  <2> SUFFICES ASSUME upc \in Early PROVE Current # job
    OBVIOUS
  <2>1. \A t \in Target : installed[t] # job
    BY DEF ClaimInv
  <2>2. upc \notin Undecided
    BY DEF Early, Undecided
  <2> QED BY <1>5, <2>1, <2>2, VersionOfAll, CurrentIs
<1>7. CASE Kick \/ Reboot
  <2>1. job' = None /\ UNCHANGED state
    BY <1>7 DEF Kick, Reboot
  <2>2. CASE upc \in Undecided
    <3>1. VersionOf(installed) \in {VersionOf(before), job, None}
      BY <2>2, Mixture
    <3>2. Current' = VersionOf(installed) /\ Current = VersionOf(before)
      BY <1>1, <1>2, <2>2, CurrentIs
    <3> QED BY <1>1, <1>4, <1>5, <2>1, <2>2, <3>1, <3>2
  <2>3. CASE upc \notin Undecided
    BY <1>1, <1>3, <1>4, <2>1, <2>3
  <2> QED BY <2>2, <2>3
<1>8. CASE Claim
  <2>1. upc = "start" /\ job = None /\ upc \notin Undecided
    BY <1>0, <1>8 DEF Claim, UpdaterType, Undecided
  <2>2. CASE job' = None /\ UNCHANGED state
    BY <1>1, <1>3, <1>4, <2>1, <2>2
  <2>3. ASSUME NEW u \in Update, state[u] = "queued", state' = [state EXCEPT ![u] = "launching"], job' = u
        PROVE  /\ job = None /\ u \notin Taken /\ job' = u /\ Taken' = Taken \union {u}
               /\ UNCHANGED <<Current, Verdict, faults>>
    <3>1. u \notin Taken /\ state[u] \notin Settled
      BY <2>3 DEF Taken, Settled
    <3>2. Taken' = Taken \union {u} /\ Verdict' = Verdict
      BY <1>0, <2>3, <3>1, Reopened
    <3> QED BY <1>1, <1>3, <2>1, <2>3, <3>1, <3>2
  <2> QED BY <1>8, <2>2, <2>3 DEF Claim
<1>9. CASE Check
  <2>1. upc = "check" /\ upc \in Early /\ upc \notin Undecided /\ UNCHANGED state
    BY <1>9 DEF Check, Early, Undecided
  <2>2. CASE state[job] = "launching"
    BY <1>1, <1>3, <1>4, <1>9, <2>1, <2>2 DEF Check
  <2>3. CASE state[job] # "launching"
    <3>1. job' = None /\ state[job] = "failed"
      BY <1>5, <1>9, <2>1, <2>3 DEF Check, ClaimInv
    <3>2. Verdict[job] = "failed"
      BY <1>5, <2>1, <3>1 DEF Verdict, Settled
    <3> QED BY <1>1, <1>3, <1>4, <1>5, <1>6, <2>1, <3>1, <3>2
  <2> QED BY <2>2, <2>3
<1>10. CASE Prepare \/ Identify
  <2>1. upc \in Early /\ upc \notin Undecided /\ job' = job
    BY <1>10 DEF Prepare, Identify, Early, Undecided
  <2>2. PICK u \in Update : u = job
    BY <1>5, <2>1
  <2>3. state' = [state EXCEPT ![u] = "running"]
    BY <1>10, <2>2 DEF Prepare, Identify
  <2>4. Verdict' = [Verdict EXCEPT ![u] = "open"] /\ Taken' = Taken \union {u}
    BY <1>0, <2>3, Reopened
  <2>5. u \in Taken /\ Verdict[u] \in {"open", "failed"}
    BY <1>5, <2>1, <2>2 DEF Taken, Verdict, Settled, ClaimInv
  <2>6. Taken' = Taken
    BY <2>4, <2>5
  <2> QED BY <1>1, <1>3, <1>5, <2>1, <2>2, <2>4, <2>5, <2>6
<1>11. CASE Fail
  <2>1. upc \in Early /\ upc \notin Undecided /\ "failed" \in Settled
    BY <1>11 DEF Fail, Early, Undecided, Settled
  <2>2. job' = None /\ state' = [state EXCEPT ![job] = "failed"]
    BY <1>11 DEF Fail
  <2>3. Reported("failed")
    BY <1>1, <1>5, <2>1, <2>2, Reporting
  <2> QED BY <1>3, <1>6, <2>1, <2>3
<1>12. CASE Succeed
  <2>1. upc = "succeed" /\ upc \notin Undecided /\ "succeeded" \in Settled /\ job \in Update
    BY <1>0, <1>12 DEF Succeed, Undecided, Settled, UpdaterType
  <2>2. job' = None /\ state' = [state EXCEPT ![job] = "succeeded"]
    BY <1>12 DEF Succeed
  <2>3. Reported("succeeded")
    BY <1>1, <2>1, <2>2, Reporting
  <2>4. \A t \in Target : installed[t] = job
    BY <2>1 DEF IInv, FileInv
  <2>5. Current = job
    BY <2>1, <2>4, VersionOfAll, CurrentIs
  <2> QED BY <1>3, <2>1, <2>3, <2>5
<1>13. CASE RolledBack \/ GiveUp
  <2>1. upc \in After /\ upc \in Undecided
    BY <1>13 DEF RolledBack, GiveUp, After, Undecided
  <2>2. PICK v \in {"rolled_back", "rollback_failed"} : job' = None /\ state' = [state EXCEPT ![job] = v]
    BY <1>13 DEF RolledBack, GiveUp
  <2>3. Reported(v)
    BY <1>1, <1>5, <2>1, <2>2, Reporting DEF Settled
  <2>4. \A t \in Target : before[t] # job
    BY <2>1 DEF ClaimInv
  <2>5. Current # job
    BY <1>5, <2>1, <2>4, VersionOfAll, CurrentIs
  <2>6. Current = VersionOf(before) /\ Current' = VersionOf(installed)
    BY <1>1, <1>2, <2>1, CurrentIs
  <2>7. Current' = Current \/ (faults > 0 /\ Current' = None)
    BY <2>1, <2>6, PutBack
  <2> QED BY <2>2, <2>3, <2>5, <2>7
<1> QED BY <1>7, <1>8, <1>9, <1>10, <1>11, <1>12, <1>13 DEF Fresh

\* Where an update is, in every reachable state.
LEMMA ClaimsHold == Spec => [](IInv /\ ClaimInv)
<1>1. Init => IInv /\ ClaimInv
  BY InitIInv, InitClaim
<1>2. IInv /\ ClaimInv /\ [Next]_vars => ClaimInv'
  BY ClaimStep
<1> QED BY <1>1, <1>2, Inductive, PTL DEF Spec

(* Each step of the updater, of execd and of launchd is a step of          *)
(* AtomicUpdate or leaves what it speaks of alone (run_update, apply_swap, *)
(* rollback_swap, self_update_tick).                                       *)
THEOREM UpdatesAreAtomic == Spec => ImplementsAtomicUpdate
<1> USE DEF Promise!vars
<1>1. Init => Promise!Init
  <2> SUFFICES ASSUME Init PROVE Promise!Init
    OBVIOUS
  <2>1. 1 \in Target
    BY DEF Target
  <2>2. Current = Base
    BY <2>1, CurrentIs, VersionOfAll DEF Init, Undecided
  <2>3. Taken = {} /\ Verdict = [u \in Update |-> "open"] /\ job = None /\ faults = 0
    BY DEF Init, Taken, Verdict, Settled
  <2> QED BY <2>2, <2>3 DEF Promise!Init, Current, Taken, Verdict
<1>2. IInv /\ ClaimInv /\ [Next]_vars => [Promise!Next]_(Promise!vars)
  <2> SUFFICES ASSUME IInv, ClaimInv, [Next]_vars PROVE [Promise!Next]_(Promise!vars)
    OBVIOUS
  <2>1. CASE UNCHANGED <<Current, job, Taken, Verdict, faults>>
    BY <2>1 DEF Current, Taken, Verdict
  <2>2. ASSUME NEW u \in Update, Taken' = Taken \union {u}, Verdict' = [Verdict EXCEPT ![u] = "failed"],
               UNCHANGED <<Current, job, faults>>
        PROVE  Promise!Next
    <3>1. Promise!Overrule(u)
      BY <2>2 DEF Promise!Overrule, Promise!Says, Current, Taken, Verdict
    <3> QED BY <3>1 DEF Promise!Next
  <2>3. ASSUME NEW u \in Update, job = None, u \notin Taken, job' = u, Taken' = Taken \union {u},
               UNCHANGED <<Current, Verdict, faults>>
        PROVE  Promise!Next
    <3>1. Promise!Begin(u)
      BY <2>3 DEF Promise!Begin, Current, Taken, Verdict
    <3> QED BY <3>1 DEF Promise!Next
  <2>4. ASSUME job # None, Verdict[job] \in {"open", "failed"}, Verdict' = [Verdict EXCEPT ![job] = "open"],
               UNCHANGED <<Current, job, Taken, faults>>
        PROVE  Promise!Next
    <3>1. Promise!Proceed
      BY <2>4 DEF Promise!Proceed, Promise!Says, Current, Taken, Verdict
    <3> QED BY <3>1 DEF Promise!Next
  <2>5. ASSUME job # None, Current # job, Current' = job, UNCHANGED <<job, Taken, Verdict, faults>>
        PROVE  Promise!Next
    <3>1. Promise!Commit
      BY <2>5 DEF Promise!Commit, Current, Taken, Verdict
    <3> QED BY <3>1 DEF Promise!Next
  <2>6. ASSUME Reported("succeeded"), Current = job, UNCHANGED Current PROVE Promise!Next
    <3>1. Promise!Succeed
      BY <2>6 DEF Promise!Succeed, Promise!Ends, Promise!Says, Reported, Current, Taken, Verdict
    <3> QED BY <3>1 DEF Promise!Next
  <2>7. ASSUME Reported("failed"), Current # job, UNCHANGED Current PROVE Promise!Next
    <3>1. Promise!Fail
      BY <2>7 DEF Promise!Fail, Promise!Ends, Promise!Says, Reported, Current, Taken, Verdict
    <3> QED BY <3>1 DEF Promise!Next
  <2>8. ASSUME job # None, job' = None, Current # job, Verdict[job] = "failed",
               UNCHANGED <<Current, Taken, Verdict, faults>>
        PROVE  Promise!Next
    <3>1. Promise!Leave
      BY <2>8 DEF Promise!Leave, Promise!Ends, Current, Taken, Verdict
    <3> QED BY <3>1 DEF Promise!Next
  <2>9. ASSUME NEW v \in {"rolled_back", "rollback_failed"}, Reported(v), Current # job,
               Current' = Current \/ (faults > 0 /\ Current' = None)
        PROVE  Promise!Next
    <3>1. Promise!Undo
      BY <2>9 DEF Promise!Undo, Promise!Ends, Promise!Says, Reported, Current, Taken, Verdict
    <3> QED BY <3>1 DEF Promise!Next
  <2>10. ASSUME job # None, Current # job, faults' = faults + 1, UNCHANGED <<Current, job, Taken, Verdict>>
         PROVE  Promise!Next
    <3>1. Promise!Break
      BY <2>10 DEF Promise!Break, Current, Taken, Verdict
    <3> QED BY <3>1 DEF Promise!Next
  <2>11. ASSUME job # None, job' = None, Current' \in {Current, job, None}, UNCHANGED <<Taken, Verdict, faults>>
         PROVE  Promise!Next
    <3>1. Promise!Interrupt
      BY <2>11 DEF Promise!Interrupt, Promise!Ends, Current, Taken, Verdict
    <3> QED BY <3>1 DEF Promise!Next
  <2>12. CASE Aside
    BY <2>1, <2>2, <2>12, AsideSeen
  <2>13. CASE Fresh
    BY <2>1, <2>3, <2>4, <2>6, <2>7, <2>8, <2>9, <2>11, <2>13, FreshSeen
  <2>14. CASE Middle
    BY <2>1, <2>4, <2>5, <2>14, MiddleSeen
  <2>15. CASE Switch
    BY <2>1, <2>10, <2>15, SwitchSeen
  <2> QED BY <2>12, <2>13, <2>14, <2>15, Steps
<1> QED BY <1>1, <1>2, ClaimsHold, PTL DEF Spec, ImplementsAtomicUpdate, Promise!Spec
-----------------------------------------------------------------------------
(* That an updater ends: what UpdatesSettle rests on besides fairness.     *)

\* The targets are switched, and put back, in order.
OrderInv ==
    /\ \E k \in 0..TargetCount : swapped = 1..k
    /\ upc \in {"swap_out", "swap_in"} => swapped # Target

\* An update that was claimed and has no report is in progress, or its updater was
\* killed.
AttendedInv == \A u \in Update : state[u] \in {"launching", "running"} => u = job \/ u \in killed

\* The steps an updater has left at most.
Switched == CHOOSE k \in 0..TargetCount : swapped = 1..k
StepsLeft ==
    CASE upc = "none" -> 0
      [] upc \in {"fail", "succeed", "rolled_back", "give_up"} -> 1
      [] upc \in {"clean", "verify"} -> 2
      [] upc = "restart" -> 3
      [] upc = "clean_again" -> 4
      [] upc = "restore" -> 2 * Switched + 3
      [] upc = "remove" -> 2 * Switched + 4
      [] upc = "stop_again" -> 2 * TargetCount + 5
      [] upc = "retreat" -> 2 * TargetCount + 6
      [] upc = "health" -> 2 * TargetCount + 7
      [] upc = "bootstrap" -> 2 * TargetCount + 8
      [] upc = "swap_in" -> 4 * TargetCount - 2 * Switched + 7
      [] upc = "swap_out" -> 4 * TargetCount - 2 * Switched + 8
      [] upc = "bootout" -> 4 * TargetCount + 9
      [] upc = "identify" -> 4 * TargetCount + 10
      [] upc = "prepare" -> 4 * TargetCount + 11
      [] upc = "check" -> 4 * TargetCount + 12
      [] upc = "start" -> 4 * TargetCount + 13

\* Different numbers of targets are different sets of them.
LEMMA Initial == ASSUME NEW j \in Nat, NEW k \in Nat, 1..j = 1..k PROVE j = k
<1>1. CASE j < k
  <2>1. k \in 1..k /\ k \notin 1..j
    BY <1>1
  <2> QED BY <2>1
<1>2. CASE k < j
  <2>1. j \in 1..j /\ j \notin 1..k
    BY <1>2
  <2> QED BY <2>1
<1> QED BY <1>1, <1>2

\* How many targets are switched.
LEMMA SwitchedIs == ASSUME NEW k \in 0..TargetCount, swapped = 1..k PROVE Switched = k
<1>1. Switched \in 0..TargetCount /\ swapped = 1..Switched
  BY DEF Switched
<1> QED BY <1>1, Initial

\* And after a step.
LEMMA SwitchedNext == ASSUME NEW k \in 0..TargetCount, swapped' = 1..k PROVE Switched' = k
<1>1. Switched' \in 0..TargetCount /\ swapped' = 1..Switched'
  BY DEF Switched
<1> QED BY <1>1, Initial

\* Whose turn it is.
LEMMA InTurn ==
    ASSUME NEW k \in 0..TargetCount, swapped = 1..k, NEW t \in Target
    PROVE  /\ Turn(t) => t = k + 1 /\ swapped \union {t} = 1..(k + 1) /\ k + 1 \in 0..TargetCount
           /\ Last(t) => t = k /\ k > 0 /\ swapped \ {t} = 1..(k - 1) /\ k - 1 \in 0..TargetCount
<1>1. ASSUME Turn(t) PROVE t = k + 1
  <2>1. t \in Nat /\ t <= TargetCount /\ t > k
    BY <1>1 DEF Turn, Target
  <2>2. CASE t > k + 1
    <3>1. k + 1 \in Target /\ k + 1 < t /\ k + 1 \notin 1..k
      BY <2>1, <2>2 DEF Target
    <3> QED BY <1>1, <3>1 DEF Turn
  <2> QED BY <2>1, <2>2
<1>2. ASSUME Last(t) PROVE t = k /\ k > 0
  <2>1. t \in 1..k /\ k \in 1..k
    BY <1>2 DEF Last
  <2>2. k <= t
    BY <1>2, <2>1 DEF Last
  <2> QED BY <2>1, <2>2
<1>3. 1..k \union {k + 1} = 1..(k + 1)
  OBVIOUS
<1>4. k > 0 => 1..k \ {k} = 1..(k - 1)
  OBVIOUS
<1>5. Turn(t) => k + 1 \in 0..TargetCount
  BY <1>1 DEF Target
<1>6. k > 0 => k - 1 \in 0..TargetCount
  OBVIOUS
<1> QED BY <1>1, <1>2, <1>3, <1>4, <1>5, <1>6

\* All targets are switched when none is left.
LEMMA AllSwitched == ASSUME NEW k \in 0..TargetCount PROVE 1..k = Target <=> k = TargetCount
BY Initial DEF Target

\* Nothing is switched or claimed at first.
LEMMA InitOrder == Init => OrderInv /\ AttendedInv
<1> SUFFICES ASSUME Init PROVE OrderInv /\ AttendedInv
  OBVIOUS
<1>1. swapped = 1..0 /\ 0 \in 0..TargetCount
  BY DEF Init
<1> QED BY <1>1 DEF Init, OrderInv, AttendedInv

\* Every step keeps the order, and an update without a report attended.
LEMMA OrderStep == IInv /\ OrderInv /\ [Next]_vars => OrderInv'
<1> SUFFICES ASSUME IInv, OrderInv, [Next]_vars PROVE OrderInv'
  OBVIOUS
<1>0. PICK k \in 0..TargetCount : swapped = 1..k
  BY DEF OrderInv
<1>e. {} = 1..0 /\ 0 \in 0..TargetCount /\ Target # {}
  BY DEF Target
<1>s. UpdaterType /\ SwapInv
  BY TypesByParts DEF IInv
<1>1. CASE Aside
  BY <1>1, AsideKeeps DEF OrderInv, updater
<1>2. CASE Fresh
  <2>1. upc' \notin {"swap_out", "swap_in"} /\ (UNCHANGED swapped \/ swapped' = {})
    BY <1>2 DEF Fresh, Kick, Reboot, Claim, Check, Prepare, Fail, Identify, Succeed, RolledBack, GiveUp
  <2> QED BY <1>0, <1>e, <2>1 DEF OrderInv
<1>3. CASE Middle
  <2>1. swapped' = swapped
    BY <1>3 DEF Middle, Bootout, Bootstrap, Health, Clean, Retreat, StopAgain, CleanAgain, Restart, Verify
  <2>2. upc' \in {"swap_out", "swap_in"} => swapped = {}
    BY <1>3, <1>s DEF Middle, Bootout, Bootstrap, Health, Clean, Retreat, StopAgain, CleanAgain, Restart, Verify,
       SwapInv, Early
  <2> QED BY <1>0, <1>e, <2>1, <2>2 DEF OrderInv
<1>4. ASSUME NEW t \in Target, SwapOut(t) \/ SwapInFails(t) \/ Remove(t) PROVE OrderInv'
  <2>1. swapped' = swapped /\ (upc' \in {"swap_out", "swap_in"} => upc = "swap_out")
    BY <1>4 DEF SwapOut, SwapInFails, Remove
  <2> QED BY <2>1 DEF OrderInv
<1>5. ASSUME NEW t \in Target, SwapIn(t) PROVE OrderInv'
  <2>1. Turn(t) /\ swapped' = swapped \union {t} /\ (upc' \in {"swap_out", "swap_in"} => swapped' # Target)
    BY <1>5 DEF SwapIn
  <2>2. swapped' = 1..(k + 1) /\ k + 1 \in 0..TargetCount
    BY <1>0, <2>1, InTurn
  <2> QED BY <2>1, <2>2 DEF OrderInv
<1>6. ASSUME NEW t \in Target, Restore(t) PROVE OrderInv'
  <2>1. Last(t) /\ swapped' = swapped \ {t} /\ upc' \notin {"swap_out", "swap_in"}
    BY <1>6 DEF Restore
  <2>2. swapped' = 1..(k - 1) /\ k - 1 \in 0..TargetCount
    BY <1>0, <2>1, InTurn
  <2> QED BY <2>1, <2>2 DEF OrderInv
<1> QED BY <1>1, <1>2, <1>3, <1>4, <1>5, <1>6, Steps DEF Switch

\* No step leaves a claimed update behind without its report, but a kill.
LEMMA AttendedStep == IInv /\ ClaimInv /\ AttendedInv /\ [Next]_vars => AttendedInv'
<1> SUFFICES ASSUME IInv, ClaimInv, AttendedInv, [Next]_vars PROVE AttendedInv'
  OBVIOUS
<1>0. RowType /\ ExecdType /\ UpdaterType
  BY TypesByParts DEF IInv
<1>1. CASE Aside
  <2>1. \A u \in Update : state'[u] \in {"launching", "running"} => state'[u] = state[u]
    BY <1>0, <1>1 DEF Aside, Schedule, Peek, KickFails, MarkKickFailed, ExecdDies, ExecdRestarts, work,
       RowType, ExecdType
  <2>2. job' = job /\ killed' = killed
    BY <1>1 DEF Aside, Schedule, Peek, KickFails, MarkKickFailed, ExecdDies, ExecdRestarts, work
  <2> QED BY <2>1, <2>2 DEF AttendedInv
<1>2. CASE Kick \/ Reboot
  <2>1. state' = state /\ killed \subseteq killed'
    BY <1>2 DEF Kick, Reboot
  <2>2. job \in Update => job \in killed'
    BY <1>0, <1>2, Binaries DEF Kick, Reboot, UpdaterType
  <2> QED BY <2>1, <2>2 DEF AttendedInv
<1>3. CASE Claim
  <2>1. job = None /\ killed' = killed
    BY <1>0, <1>3 DEF Claim, UpdaterType
  <2>2. \/ state' = state
        \/ \E u \in Update : job' = u /\ state' = [state EXCEPT ![u] = "launching"]
    BY <1>3 DEF Claim
  <2> QED BY <1>0, <2>1, <2>2, Binaries DEF AttendedInv, RowType
<1>4. CASE Check
  <2>1. UNCHANGED <<state, killed>> /\ job \in Update /\ upc = "check"
    BY <1>0, <1>4 DEF Check, UpdaterType
  <2>2. job' = job \/ state[job] # "launching"
    BY <1>4 DEF Check
  <2>3. state[job] # "running"
    BY <2>1 DEF ClaimInv
  <2> QED BY <2>1, <2>2, <2>3 DEF AttendedInv
<1>5. CASE Prepare \/ Identify
  <2>1. UNCHANGED <<killed, job>> /\ state' = [state EXCEPT ![job] = "running"]
    BY <1>5 DEF Prepare, Identify
  <2> QED BY <1>0, <2>1 DEF AttendedInv, RowType
<1>6. CASE Fail \/ Succeed \/ RolledBack \/ GiveUp
  <2>1. /\ killed' = killed /\ job \in Update
        /\ \E v \in Settled : state' = [state EXCEPT ![job] = v]
    BY <1>0, <1>6 DEF Fail, Succeed, RolledBack, GiveUp, UpdaterType, Settled
  <2> QED BY <1>0, <2>1 DEF AttendedInv, RowType, Settled
<1>7. CASE Middle
  <2>1. /\ UNCHANGED <<killed, job>>
        /\ state' \in {state, [state EXCEPT ![job] = "running"]}
    BY <1>7 DEF Middle, Bootout, Bootstrap, Health, Clean, Retreat, StopAgain, CleanAgain, Restart, Verify
  <2> QED BY <1>0, <2>1 DEF AttendedInv, RowType
<1>8. CASE Switch
  <2>1. UNCHANGED <<state, killed, job>>
    BY <1>8 DEF Switch, SwapOut, SwapIn, SwapInFails, Remove, Restore
  <2> QED BY <2>1 DEF AttendedInv
<1> QED BY <1>1, <1>2, <1>3, <1>4, <1>5, <1>6, <1>7, <1>8, Steps DEF Fresh

\* Every step but a kick and a reboot leaves the updater no more steps than before,
\* and its own leave it fewer.
UpdaterEnds ==
    [][/\ UpdaterStep => StepsLeft' < StepsLeft
       /\ StepsLeft' > StepsLeft => Kick \/ Reboot]_vars

\* The steps left while targets are switched.
LEMMA StepsInSwitch ==
    /\ upc = "restore" => StepsLeft = 2 * Switched + 3
    /\ upc = "remove" => StepsLeft = 2 * Switched + 4
    /\ upc = "swap_in" => StepsLeft = 4 * TargetCount - 2 * Switched + 7
    /\ upc = "swap_out" => StepsLeft = 4 * TargetCount - 2 * Switched + 8
    /\ upc' = "remove" => StepsLeft' = 2 * Switched' + 4
    /\ upc' = "clean_again" => StepsLeft' = 4
    /\ upc' = "swap_out" => StepsLeft' = 4 * TargetCount - 2 * Switched' + 8
    /\ upc' = "bootstrap" => StepsLeft' = 2 * TargetCount + 8
BY DEF StepsLeft

\* The steps left are a number, of which there are 33 at most for five targets.
LEMMA StepsLeftType == IInv /\ OrderInv => StepsLeft \in 0..(4 * TargetCount + 13)
<1> SUFFICES ASSUME IInv, OrderInv PROVE StepsLeft \in 0..(4 * TargetCount + 13)
  OBVIOUS
<1>0. PICK k \in 0..TargetCount : swapped = 1..k
  BY DEF OrderInv
<1>1. Switched = k
  BY <1>0, SwitchedIs
<1>2. upc \in UPC
  BY TypesByParts DEF IInv, UpdaterType
<1>3. CASE upc \in {"restore", "remove", "swap_in", "swap_out"}
  <2>1. StepsLeft \in {2 * k + 3, 2 * k + 4, 4 * TargetCount - 2 * k + 7, 4 * TargetCount - 2 * k + 8}
    BY <1>1, <1>3, StepsInSwitch
  <2> QED BY <2>1
<1>4. CASE upc \notin {"restore", "remove", "swap_in", "swap_out"}
  <2>1. StepsLeft \in {0, 1, 2, 3, 4, 2 * TargetCount + 5, 2 * TargetCount + 6, 2 * TargetCount + 7,
                       2 * TargetCount + 8, 4 * TargetCount + 9, 4 * TargetCount + 10,
                       4 * TargetCount + 11, 4 * TargetCount + 12, 4 * TargetCount + 13}
    BY <1>2, <1>4, Zenon DEF StepsLeft, UPC
  <2> QED BY <2>1
<1> QED BY <1>3, <1>4

\* The updater's own steps, by what they do to the switched targets.
LEMMA StepsLeftFall ==
    ASSUME IInv, OrderInv, OrderInv', UpdaterStep
    PROVE  StepsLeft' < StepsLeft /\ ~(StepsLeft' > StepsLeft)
<1>0. PICK k \in 0..TargetCount : swapped = 1..k
  BY DEF OrderInv
<1>1. Switched = k
  BY <1>0, SwitchedIs
<1>2. UpdaterType /\ SwapInv
  BY TypesByParts DEF IInv
<1>3. CASE Claim \/ Check \/ Prepare \/ Fail \/ Identify \/ Succeed \/ RolledBack \/ GiveUp
  <2>1. /\ upc = "start" => upc' \in {"check", "none"}
        /\ upc = "check" => upc' \in {"prepare", "none"}
        /\ upc = "prepare" => upc' \in {"identify", "fail"}
        /\ upc = "identify" => upc' = "bootout"
        /\ upc \in {"fail", "succeed", "rolled_back", "give_up"} => upc' = "none"
        /\ upc \in {"start", "check", "prepare", "identify", "fail", "succeed", "rolled_back", "give_up"}
    BY <1>3 DEF Claim, Check, Prepare, Fail, Identify, Succeed, RolledBack, GiveUp
  <2> QED BY <2>1 DEF StepsLeft
<1>4. CASE Bootout \/ Bootstrap \/ Health \/ Clean \/ Retreat
  <2>1. /\ upc = "bootout" => upc' \in {"swap_out", "retreat"}
        /\ upc = "bootstrap" => upc' \in {"health", "retreat"}
        /\ upc = "health" => upc' \in {"clean", "retreat"}
        /\ upc = "clean" => upc' = "succeed"
        /\ upc = "retreat" => upc' = "stop_again"
        /\ upc \in {"bootout", "bootstrap", "health", "clean", "retreat"}
        /\ swapped' = swapped
    BY <1>4 DEF Bootout, Bootstrap, Health, Clean, Retreat
  <2>2. Switched' = k
    BY <1>0, <2>1, SwitchedNext
  <2> QED BY <2>1, <2>2 DEF StepsLeft
<1>5. CASE StopAgain \/ CleanAgain \/ Restart \/ Verify
  <2>1. /\ upc = "stop_again" => upc' \in {"clean_again", "remove"}
        /\ upc = "clean_again" => upc' = "restart"
        /\ upc = "restart" => upc' \in {"verify", "give_up"}
        /\ upc = "verify" => upc' \in {"rolled_back", "give_up"}
        /\ upc \in {"stop_again", "clean_again", "restart", "verify"}
        /\ swapped' = swapped
    BY <1>5 DEF StopAgain, CleanAgain, Restart, Verify
  <2>2. Switched' = k
    BY <1>0, <2>1, SwitchedNext
  <2> QED BY <2>1, <2>2 DEF StepsLeft
<1>6. ASSUME NEW t \in Target, SwapOut(t) \/ SwapInFails(t) \/ Remove(t)
      PROVE  StepsLeft' < StepsLeft /\ ~(StepsLeft' > StepsLeft)
  <2>1. /\ upc = "swap_out" => upc' \in {"swap_in", "retreat"}
        /\ upc = "swap_in" => upc' = "retreat"
        /\ upc = "remove" => upc' = "restore"
        /\ upc \in {"swap_out", "swap_in", "remove"}
        /\ swapped' = swapped
    BY <1>6 DEF SwapOut, SwapInFails, Remove
  <2>2. Switched' = k
    BY <1>0, <2>1, SwitchedNext
  <2> QED BY <1>1, <2>1, <2>2 DEF StepsLeft
<1>7. ASSUME NEW t \in Target, SwapIn(t)
      PROVE  StepsLeft' < StepsLeft /\ ~(StepsLeft' > StepsLeft)
  <2>1. /\ Turn(t) /\ swapped' = swapped \union {t} /\ upc = "swap_in"
        /\ upc' = IF swapped' = Target THEN "bootstrap" ELSE "swap_out"
    BY <1>7 DEF SwapIn
  <2>2. swapped' = 1..(k + 1) /\ k + 1 \in 0..TargetCount
    BY <1>0, <2>1, InTurn
  <2>3. Switched' = k + 1 /\ (swapped' = Target => k + 1 = TargetCount)
    BY <2>2, SwitchedNext, AllSwitched
  <2>4. StepsLeft = 4 * TargetCount - 2 * k + 7
    BY <1>1, <2>1, StepsInSwitch
  <2>5. CASE swapped' = Target
    BY <2>1, <2>3, <2>4, <2>5, StepsInSwitch
  <2>6. CASE swapped' # Target
    <3>1. StepsLeft' = 4 * TargetCount - 2 * (k + 1) + 8
      BY <2>1, <2>3, <2>6, StepsInSwitch
    <3> QED BY <2>4, <3>1
  <2> QED BY <2>5, <2>6
<1>8. ASSUME NEW t \in Target, Restore(t)
      PROVE  StepsLeft' < StepsLeft /\ ~(StepsLeft' > StepsLeft)
  <2>1. /\ Last(t) /\ swapped' = swapped \ {t} /\ upc = "restore" /\ upc' \in {"clean_again", "remove"}
    BY <1>8 DEF Restore
  <2>2. swapped' = 1..(k - 1) /\ k - 1 \in 0..TargetCount
    BY <1>0, <2>1, InTurn
  <2>3. Switched' = k - 1
    BY <2>2, SwitchedNext
  <2>4. StepsLeft = 2 * k + 3
    BY <1>1, <2>1, StepsInSwitch
  <2>5. StepsLeft' \in {4, 2 * (k - 1) + 4}
    BY <2>1, <2>3, StepsInSwitch
  <2>6. k > 0
    BY <1>0, <2>1, InTurn
  <2> QED BY <2>4, <2>5, <2>6
<1> QED BY <1>3, <1>4, <1>5, <1>6, <1>7, <1>8 DEF UpdaterStep, Switch

\* The order and the attendance hold in every reachable state.
LEMMA AttendedHolds == Spec => [](IInv /\ OrderInv /\ AttendedInv)
<1>1. Init => OrderInv /\ AttendedInv
  BY InitOrder
<1>2. IInv /\ ClaimInv /\ OrderInv /\ AttendedInv /\ [Next]_vars => OrderInv' /\ AttendedInv'
  BY OrderStep, AttendedStep
<1> QED BY <1>1, <1>2, ClaimsHold, PTL DEF Spec

(* An updater ends: whatever fails in it, it has a number of steps left,   *)
(* 33 at most for five targets, that each of its steps lowers and only a   *)
(* kick or a reboot, which start another one, can raise (run_update).      *)
THEOREM UpdatersEnd == Spec => [](StepsLeft \in 0..(4 * TargetCount + 13)) /\ UpdaterEnds
<1>1. IInv /\ OrderInv => StepsLeft \in 0..(4 * TargetCount + 13)
  BY StepsLeftType
<1>2. ASSUME IInv, OrderInv, OrderInv', [Next]_vars
      PROVE  [/\ UpdaterStep => StepsLeft' < StepsLeft
              /\ StepsLeft' > StepsLeft => Kick \/ Reboot]_vars
  <2>0. StepsLeft \in Int
    BY <1>2, StepsLeftType
  <2>1. CASE UpdaterStep
    <3>1. StepsLeft' < StepsLeft /\ ~(StepsLeft' > StepsLeft)
      BY <1>2, <2>1, StepsLeftFall
    <3> QED BY <3>1
  <2>2. CASE Kick \/ Reboot
    BY <2>2, <2>1
  <2>3. CASE Aside
    <3>1. UNCHANGED <<upc, swapped>>
      BY <1>2, <2>3, AsideKeeps DEF updater
    <3>2. StepsLeft' = StepsLeft
      BY <3>1 DEF StepsLeft, Switched
    <3> QED BY <2>0, <2>1, <3>2
  <2> QED BY <1>2, <2>1, <2>2, <2>3, NextMoves DEF Moves, Execd, Tick, Aside
<1> QED BY <1>1, <1>2, AttendedHolds, PTL DEF Spec, UpdaterEnds

(* No update is forgotten: one that was claimed and has no report yet is   *)
(* the one its updater is at, or that updater was killed (run_update,      *)
(* rt_update_claim_pending).                                               *)
THEOREM NoUpdateIsForgotten == Spec => []AttendedInv
BY AttendedHolds, PTL
=============================================================================
