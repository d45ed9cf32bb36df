----------------------- MODULE PackageLifecycleProofs -----------------------
(***************************************************************************)
(* What holds of PackageLifecycle for any packages, identifiers, sizes and *)
(* number of crashes and lost writes.                                      *)
(***************************************************************************)
EXTENDS PackageLifecycle, TLAPS

Verified == {"ready"} \union Managed

\* A slot whose identity is known and whose bytes are the hashed ones, or gone.
Sound(p) ==
    /\ ident[p] # None
    /\ file[p] \in {None, Empty} \/ Intact(p)

\* What the steps of an operation, and the updater, rely on from those before.
StepInv ==
    /\ pc = "insert" => file[cur] = Empty
    /\ pc = "advance" => state[cur] = "uploading" /\ received[cur] < Size
    /\ pc = "ready" => state[cur] = "uploading" /\ Sound(cur)
    /\ pc = "discard" => state[cur] # "absent"
    /\ pc \in Acting => state[cur] \in Verified /\ Sound(cur)
    /\ upc # "none" => /\ Sound(updating) /\ state[updating] \notin {"absent", "uploading"}
                       /\ Format[updating] = "deb" /\ ident[updating] = RootTools
    /\ \A p \in Package : state[p] \in Verified => Sound(p)

IInv == TypeOK /\ StepInv /\ OneInstalledPerIdentifier
-----------------------------------------------------------------------------
\* Every step keeps the types.
LEMMA StepTypeOK ==
    TypeOK /\ StepInv /\ [Next]_vars => TypeOK'
<1> SUFFICES ASSUME TypeOK, StepInv, [Next]_vars PROVE TypeOK'
  OBVIOUS
<1> USE PackageAssumption
    DEF rows, handler, updater, ghosts, Work, Done, TypeOK, Staging, Managed, Action, Settling, Acting
<1>1. ASSUME NEW p \in Package, Begin(p) PROVE TypeOK'
  BY <1>1 DEF Begin, Chunks, Empty
<1>2. ASSUME NEW p \in Package, AppendTorn(p) PROVE TypeOK'
  BY <1>2 DEF AppendTorn, Chunks
<1>3. ASSUME NEW p \in Package, NEW bytes \in {"good", "bad"}, Append(p, bytes)
       PROVE  TypeOK'
  BY <1>3 DEF Append, Chunks
<1>4. ASSUME NEW p \in Package, Discard(p) PROVE TypeOK'
  BY <1>4 DEF Discard
<1>5. ASSUME NEW p \in Package, CommitFails(p) PROVE TypeOK'
  <2>1. /\ state' = [state EXCEPT ![p] = "failed"] \/ UNCHANGED state
        /\ lost' \in 0..MaxLost /\ lost' >= lost
    BY <1>5 DEF CommitFails, PutFailed, Put, Lose
  <2>2. state[p] = "uploading"
    BY <1>5 DEF CommitFails, Uploaded
  <2>3. UNCHANGED <<ident, received, file, history, device, pc, cur, op, upc, updating, uncertain, crashes>>
    BY <1>5 DEF CommitFails
  <2>4. pc = "idle"
    BY <1>5 DEF CommitFails
  <2> QED BY <2>1, <2>2, <2>3, <2>4 DEF Intact
<1>6. ASSUME NEW p \in Package, CommitVerifies(p) PROVE TypeOK'
  BY <1>6 DEF CommitVerifies, Uploaded, Intact, Inspected
<1>7. ASSUME NEW p \in Package, CommitIdentifies(p) PROVE TypeOK'
  BY <1>7 DEF CommitIdentifies, Identified, Uploaded, Intact
<1>8. CASE Insert
  BY <1>8 DEF Insert, Put
<1>9. CASE InsertFails
  BY <1>9 DEF InsertFails, Lose
<1>10. CASE Advance
  BY <1>10 DEF Advance, StepInv
<1>11. CASE AdvanceFails
  BY <1>11 DEF AdvanceFails, Lose
<1>12. CASE Ready
  BY <1>12 DEF Ready, Put
<1>13. CASE ReadyFails
  BY <1>13 DEF ReadyFails, Lose
<1>14. CASE MarkDiscarded
  BY <1>14 DEF MarkDiscarded, Put
<1>15. CASE MarkDiscardedFails
  BY <1>15 DEF MarkDiscardedFails, Lose
<1>16. ASSUME NEW p \in Package, NEW o \in {"install", "rollback"}, Start(p, o)
       PROVE  TypeOK'
  BY <1>16 DEF Start, Installable, Rollbackable, Generic, Reinspected
<1>17. ASSUME NEW p \in Package, StartUninstall(p) PROVE TypeOK'
  BY <1>17 DEF StartUninstall, Generic
<1>18. CASE Installs
  BY <1>18 DEF Installs, Given, Found, DeviceWith
<1>19. CASE InstallFails
  BY <1>19 DEF InstallFails
<1>20. CASE InstallUncertain
  BY <1>20 DEF InstallUncertain, Given, DeviceWith
<1>21. CASE Activate
  <2>1. state' \in [Package -> Staging \union Managed]
    BY <1>21 DEF Activate, Activated
  <2> QED BY <2>1, <1>21 DEF Activate
<1>22. CASE ActivateFails
  BY <1>22 DEF ActivateFails, Lose
<1>23. CASE Uninstalls
  BY <1>23 DEF Uninstalls, DeviceWithout, StepInv, Sound
<1>24. CASE UninstallFails
  BY <1>24 DEF UninstallFails
<1>25. CASE UninstallUncertain
  BY <1>25 DEF UninstallUncertain, DeviceWithout, StepInv, Sound
<1>26. CASE Retire
  BY <1>26 DEF Retire, Put
<1>27. CASE RetireFails
  BY <1>27 DEF RetireFails, Lose
<1>28. CASE Record
  BY <1>28 DEF Record
<1>29. CASE RecordFails
  BY <1>29 DEF RecordFails, Lose
<1>30. CASE Crash
  <2>1. device' \in [{"deb", "ipa"} -> [Identifier -> Package \union {None}]]
    <3>1. CASE UNCHANGED device
      BY <3>1
    <3>2. CASE pc = "install" /\ Given(cur) /\ device' = DeviceWith(cur)
      BY <3>2 DEF DeviceWith
    <3>3. CASE pc = "uninstall" /\ device' = DeviceWithout(cur)
      BY <3>3 DEF DeviceWithout, StepInv, Sound
    <3> QED BY <1>30, <3>1, <3>2, <3>3 DEF Crash
  <2>2. UNCHANGED <<state, ident, received, file, history, upc, updating, uncertain, lost>>
    BY <1>30 DEF Crash
  <2>3. crashes' \in 0..MaxCrashes /\ pc' = "idle" /\ cur' = None /\ op' = None
    BY <1>30 DEF Crash
  <2> QED BY <2>1, <2>2, <2>3
<1>31. ASSUME NEW p \in Package, UpdaterResolves(p) PROVE TypeOK'
  BY <1>31 DEF UpdaterResolves
<1>32. CASE UpdaterGivesUp
  BY <1>32 DEF UpdaterGivesUp
<1>33. CASE UpdaterActivates
  <2>1. state' \in [Package -> Staging \union Managed]
    BY <1>33 DEF UpdaterActivates, Activated
  <2> QED BY <2>1, <1>33 DEF UpdaterActivates
<1>34. CASE UpdaterRecords
  <2>1. history' \in [Package -> Action \union {"self-update", None}]
    BY <1>34 DEF UpdaterRecords
  <2>2. lost' \in 0..MaxLost
    BY <1>34 DEF UpdaterRecords, Lose
  <2> QED BY <2>1, <2>2, <1>34 DEF UpdaterRecords
<1>35. CASE UNCHANGED vars
  BY <1>35 DEF vars
<1> HIDE DEF rows, handler, updater, ghosts, Work, Done, TypeOK, Staging, Managed, Action,
     Settling, Acting
<1> QED
  BY <1>1, <1>2, <1>3, <1>4, <1>5, <1>6, <1>7, <1>8, <1>9, <1>10, <1>11, <1>12,
     <1>13, <1>14, <1>15, <1>16, <1>17, <1>18, <1>19, <1>20, <1>21, <1>22, <1>23, <1>24,
     <1>25, <1>26, <1>27, <1>28, <1>29, <1>30, <1>31, <1>32, <1>33, <1>34, <1>35
     DEF Next, Stage, Manage, Update

\* Every step keeps what the next one relies on.
LEMMA StepStepInv ==
    TypeOK /\ StepInv /\ [Next]_vars => StepInv'
<1> SUFFICES ASSUME TypeOK, StepInv, [Next]_vars PROVE StepInv'
  OBVIOUS
<1> USE PackageAssumption
    DEF rows, handler, updater, ghosts, Work, Done, TypeOK, Staging, Managed, Action, Settling, Acting,
        StepInv, Sound, Intact, Verified, Chunks, Empty
<1>1. ASSUME NEW p \in Package, Begin(p) PROVE StepInv'
  BY ZenonT(60), <1>1 DEF Begin
<1>2. ASSUME NEW p \in Package, AppendTorn(p) PROVE StepInv'
  BY ZenonT(60), <1>2 DEF AppendTorn
<1>3. ASSUME NEW p \in Package, NEW bytes \in {"good", "bad"}, Append(p, bytes)
       PROVE  StepInv'
  BY ZenonT(60), <1>3 DEF Append
<1>4. ASSUME NEW p \in Package, Discard(p) PROVE StepInv'
  BY ZenonT(60), <1>4 DEF Discard
<1>5. ASSUME NEW p \in Package, CommitFails(p) PROVE StepInv'
  <2>1. /\ state' = [state EXCEPT ![p] = "failed"] \/ UNCHANGED state
        /\ lost' \in 0..MaxLost /\ lost' >= lost
    BY <1>5 DEF CommitFails, PutFailed, Put, Lose
  <2>2. state[p] = "uploading"
    BY <1>5 DEF CommitFails, Uploaded
  <2>3. UNCHANGED <<ident, received, file, history, device, pc, cur, op, upc, updating, uncertain, crashes>>
    BY <1>5 DEF CommitFails
  <2>4. pc = "idle"
    BY <1>5 DEF CommitFails
  <2> QED BY <2>1, <2>2, <2>3, <2>4 DEF Intact
<1>6. ASSUME NEW p \in Package, CommitVerifies(p) PROVE StepInv'
  BY <1>6 DEF CommitVerifies, Uploaded, Intact, Inspected
<1>7. ASSUME NEW p \in Package, CommitIdentifies(p) PROVE StepInv'
  <2>1. /\ pc' = "ready" /\ cur' = p /\ state[p] = "uploading" /\ Intact(p) /\ ident[p] = None
        /\ UNCHANGED <<state, received, file, upc, updating>>
    BY <1>7 DEF CommitIdentifies, Identified, Uploaded
  <2>2. ident' = [ident EXCEPT ![p] = Identity[p]] /\ Identity[p] # None
    BY <1>7 DEF CommitIdentifies, Identified
  <2>3. \A q \in Package : Sound(q) => q # p /\ Sound(q)' /\ ident'[q] = ident[q]
    BY <2>1, <2>2
  <2>4. Sound(p)'
    BY <2>1, <2>2
  <2>5. upc # "none" => updating \in Package
    OBVIOUS
  <2> HIDE DEF TypeOK, Sound, Intact
  <2> QED
    BY <2>1, <2>3, <2>4, <2>5
<1>8. CASE Insert
  BY <1>8 DEF Insert, Put
<1>9. CASE InsertFails
  BY ZenonT(60), <1>9 DEF InsertFails, Lose
<1>10. CASE Advance
  BY <1>10 DEF Advance
<1>11. CASE AdvanceFails
  BY <1>11 DEF AdvanceFails, Lose
<1>12. CASE Ready
  BY ZenonT(60), <1>12 DEF Ready, Put
<1>13. CASE ReadyFails
  BY <1>13 DEF ReadyFails, Lose
<1>14. CASE MarkDiscarded
  BY ZenonT(60), <1>14 DEF MarkDiscarded, Put
<1>15. CASE MarkDiscardedFails
  BY <1>15 DEF MarkDiscardedFails, Lose
<1>16. ASSUME NEW p \in Package, NEW o \in {"install", "rollback"}, Start(p, o)
       PROVE  StepInv'
  BY <1>16 DEF Start, Installable, Rollbackable, Generic, Reinspected
<1>17. ASSUME NEW p \in Package, StartUninstall(p) PROVE StepInv'
  BY <1>17 DEF StartUninstall, Generic
<1>18. CASE Installs
  BY <1>18 DEF Installs, Given, Found, DeviceWith
<1>19. CASE InstallFails
  BY <1>19 DEF InstallFails
<1>20. CASE InstallUncertain
  BY <1>20 DEF InstallUncertain, Given, DeviceWith
<1>21. CASE Activate
  BY <1>21 DEF Activate, Activated
<1>22. CASE ActivateFails
  BY <1>22 DEF ActivateFails, Lose
<1>23. CASE Uninstalls
  BY <1>23 DEF Uninstalls, DeviceWithout
<1>24. CASE UninstallFails
  BY <1>24 DEF UninstallFails
<1>25. CASE UninstallUncertain
  BY <1>25 DEF UninstallUncertain, DeviceWithout
<1>26. CASE Retire
  BY ZenonT(60), <1>26 DEF Retire, Put
<1>27. CASE RetireFails
  BY <1>27 DEF RetireFails, Lose
<1>28. CASE Record
  BY <1>28 DEF Record
<1>29. CASE RecordFails
  BY <1>29 DEF RecordFails, Lose
<1>30. CASE Crash
  BY <1>30 DEF Crash, DeviceWith, DeviceWithout
<1>31. ASSUME NEW p \in Package, UpdaterResolves(p) PROVE StepInv'
  BY <1>31 DEF UpdaterResolves
<1>32. CASE UpdaterGivesUp
  BY <1>32 DEF UpdaterGivesUp
<1>33. CASE UpdaterActivates
  BY <1>33 DEF UpdaterActivates, Activated
<1>34. CASE UpdaterRecords
  BY <1>34 DEF UpdaterRecords, Lose
<1>35. CASE UNCHANGED vars
  BY <1>35 DEF vars
<1> HIDE DEF rows, handler, updater, ghosts, Work, Done, TypeOK, Staging, Managed, Action,
     Settling, Acting, StepInv, Sound, Intact, Verified, Chunks, Empty
<1> QED
  BY <1>1, <1>2, <1>3, <1>4, <1>5, <1>6, <1>7, <1>8, <1>9, <1>10, <1>11, <1>12,
     <1>13, <1>14, <1>15, <1>16, <1>17, <1>18, <1>19, <1>20, <1>21, <1>22, <1>23, <1>24,
     <1>25, <1>26, <1>27, <1>28, <1>29, <1>30, <1>31, <1>32, <1>33, <1>34, <1>35
     DEF Next, Stage, Manage, Update

\* No step makes a second package active for an identifier.
LEMMA StepOneInstalled ==
    TypeOK /\ StepInv /\ OneInstalledPerIdentifier /\ [Next]_vars => OneInstalledPerIdentifier'
<1> SUFFICES ASSUME TypeOK, StepInv, OneInstalledPerIdentifier, [Next]_vars PROVE OneInstalledPerIdentifier'
  OBVIOUS
<1> USE PackageAssumption
    DEF rows, handler, updater, ghosts, Work, Done, TypeOK, Staging, Managed, Action, Settling, Acting,
        StepInv, OneInstalledPerIdentifier
<1>1. ASSUME NEW p \in Package, Begin(p) PROVE OneInstalledPerIdentifier'
  BY <1>1 DEF Begin
<1>2. ASSUME NEW p \in Package, AppendTorn(p) PROVE OneInstalledPerIdentifier'
  BY <1>2 DEF AppendTorn
<1>3. ASSUME NEW p \in Package, NEW bytes \in {"good", "bad"}, Append(p, bytes)
       PROVE  OneInstalledPerIdentifier'
  BY <1>3 DEF Append
<1>4. ASSUME NEW p \in Package, Discard(p) PROVE OneInstalledPerIdentifier'
  BY <1>4 DEF Discard
<1>5. ASSUME NEW p \in Package, CommitFails(p) PROVE OneInstalledPerIdentifier'
  BY <1>5 DEF CommitFails, PutFailed, Uploaded, Intact, Inspected, Put, Lose
<1>6. ASSUME NEW p \in Package, CommitVerifies(p) PROVE OneInstalledPerIdentifier'
  BY <1>6 DEF CommitVerifies, Uploaded, Intact, Inspected
<1>7. ASSUME NEW p \in Package, CommitIdentifies(p) PROVE OneInstalledPerIdentifier'
  BY <1>7 DEF CommitIdentifies, Identified, Uploaded, Intact
<1>8. CASE Insert
  BY <1>8 DEF Insert, Put
<1>9. CASE InsertFails
  BY <1>9 DEF InsertFails, Lose
<1>10. CASE Advance
  BY <1>10 DEF Advance
<1>11. CASE AdvanceFails
  BY <1>11 DEF AdvanceFails, Lose
<1>12. CASE Ready
  BY <1>12 DEF Ready, Put
<1>13. CASE ReadyFails
  BY <1>13 DEF ReadyFails, Lose
<1>14. CASE MarkDiscarded
  BY <1>14 DEF MarkDiscarded, Put
<1>15. CASE MarkDiscardedFails
  BY <1>15 DEF MarkDiscardedFails, Lose
<1>16. ASSUME NEW p \in Package, NEW o \in {"install", "rollback"}, Start(p, o)
       PROVE  OneInstalledPerIdentifier'
  BY <1>16 DEF Start, Installable, Rollbackable, Generic, Reinspected
<1>17. ASSUME NEW p \in Package, StartUninstall(p) PROVE OneInstalledPerIdentifier'
  BY <1>17 DEF StartUninstall, Generic
<1>18. CASE Installs
  BY <1>18 DEF Installs, Given, Found, DeviceWith
<1>19. CASE InstallFails
  BY <1>19 DEF InstallFails
<1>20. CASE InstallUncertain
  BY <1>20 DEF InstallUncertain, Given, DeviceWith
<1>21. CASE Activate
  BY <1>21 DEF Activate, Activated
<1>22. CASE ActivateFails
  BY <1>22 DEF ActivateFails, Lose
<1>23. CASE Uninstalls
  BY <1>23 DEF Uninstalls, DeviceWithout
<1>24. CASE UninstallFails
  BY <1>24 DEF UninstallFails
<1>25. CASE UninstallUncertain
  BY <1>25 DEF UninstallUncertain, DeviceWithout
<1>26. CASE Retire
  BY <1>26 DEF Retire, Put
<1>27. CASE RetireFails
  BY <1>27 DEF RetireFails, Lose
<1>28. CASE Record
  BY <1>28 DEF Record
<1>29. CASE RecordFails
  BY <1>29 DEF RecordFails, Lose
<1>30. CASE Crash
  BY <1>30 DEF Crash, DeviceWith, DeviceWithout
<1>31. ASSUME NEW p \in Package, UpdaterResolves(p) PROVE OneInstalledPerIdentifier'
  BY <1>31 DEF UpdaterResolves
<1>32. CASE UpdaterGivesUp
  BY <1>32 DEF UpdaterGivesUp
<1>33. CASE UpdaterActivates
  BY <1>33 DEF UpdaterActivates, Activated
<1>34. CASE UpdaterRecords
  BY <1>34 DEF UpdaterRecords, Lose
<1>35. CASE UNCHANGED vars
  BY <1>35 DEF vars
<1> QED
  BY <1>1, <1>2, <1>3, <1>4, <1>5, <1>6, <1>7, <1>8, <1>9, <1>10, <1>11, <1>12,
     <1>13, <1>14, <1>15, <1>16, <1>17, <1>18, <1>19, <1>20, <1>21, <1>22, <1>23, <1>24,
     <1>25, <1>26, <1>27, <1>28, <1>29, <1>30, <1>31, <1>32, <1>33, <1>34, <1>35
     DEF Next, Stage, Manage, Update

\* The initial states satisfy the invariant.
LEMMA InitIInv == Init => IInv
<1> SUFFICES ASSUME Init PROVE IInv
  OBVIOUS
<1> USE PackageAssumption DEF Init, Staging, Managed, Action, Settling, Acting
<1>1. TypeOK
  <2>1. device \in [{"deb", "ipa"} -> [Identifier -> Package \union {None}]]
    OBVIOUS
  <2>2. received \in [Package -> 0..Size]
    OBVIOUS
  <2>3. crashes \in 0..MaxCrashes /\ lost \in 0..MaxLost
    OBVIOUS
  <2> QED BY <2>1, <2>2, <2>3 DEF TypeOK
<1>2. StepInv
  BY DEF StepInv, Verified
<1>3. OneInstalledPerIdentifier
  BY DEF OneInstalledPerIdentifier
<1> QED BY <1>1, <1>2, <1>3 DEF IInv

\* The conjunction of the parts is inductive.
LEMMA StepIInv == IInv /\ [Next]_vars => IInv'
BY StepTypeOK, StepStepInv, StepOneInstalled DEF IInv

\* The inductive invariant holds in every reachable state.
LEMMA AlwaysIInv == Spec => []IInv
BY InitIInv, StepIInv, PTL DEF Spec
-----------------------------------------------------------------------------
\* Every reachable state of the package controller is well typed; in particular
\* received_size never passes the declared size.
THEOREM TypeCorrect == Spec => []TypeOK
BY AlwaysIInv, PTL DEF IInv

\* Whatever fails and whichever process activates, an identifier has at most one
\* installed row (activate_package).
THEOREM OneActivePackage == Spec => []OneInstalledPerIdentifier
BY AlwaysIInv, PTL DEF IInv

\* Under a verified row the file is the hashed one, missing or empty, and the
\* identity is known, through crashes, lost writes and reused ids.
THEOREM VerificationLasts == Spec => []VerifiedStaysVerified
<1>1. IInv => VerifiedStaysVerified
  BY DEF IInv, StepInv, Sound, Verified, VerifiedStaysVerified
<1> QED BY <1>1, AlwaysIInv, PTL
-----------------------------------------------------------------------------
(* Without a RootTools DEB the updater never touches the catalog; when what*)
(* callers attest is true as well, rows tell what is on the device.        *)
StandAlone == \A p \in Package : Format[p] = "deb" => Identity[p] # RootTools
Truthful   == \A p \in Package : Attested[p] \in {None, Identity[p]}

\* What an operation has checked of its package stays so until its row changes.
ArrowInv ==
    /\ upc = "none"
    /\ pc = "discard" => state[cur] \notin {"absent", "installed"}
    /\ pc = "insert" => state[cur] # "installed"
    /\ pc = "ready" => file[cur] # None
    /\ pc \in {"install", "activate"} =>
          /\ op # "uninstall"
          /\ IF op = "rollback" THEN state[cur] = "retained" ELSE state[cur] \in {"ready", "uninstalled"}
    /\ pc = "activate" => file[cur] # None
    /\ pc \in {"uninstall", "retire"} => state[cur] = "installed"
    /\ \A p \in Package : state[p] = "installed" => file[p] # None

\* The device is ahead of the rows only between a provider and its transaction.
Faultless == crashes = 0 /\ lost = 0 /\ ~uncertain
\* The last event of p's tells how its row came to be, or is about to.
Logged(p, actions) == (IF pc = "record" /\ cur = p THEN op ELSE history[p]) \in actions
LogTells(p) ==
    /\ state[p] = "installed" => Logged(p, {"install", "rollback"})
    /\ state[p] = "uninstalled" => Logged(p, {"uninstall"})
DeviceInv ==
    /\ \A p \in Package : ident[p] \in {None, Identity[p]}
    /\ Faultless /\ pc = "activate" => device[Format[cur]][ident[cur]] = cur
    /\ Faultless => \A p \in Package : state[p] = "installed" /\ Generic(p) =>
          \/ device[Format[p]][ident[p]] = p
          \/ pc = "activate" /\ Format[p] = Format[cur] /\ ident[p] = ident[cur]
          \/ pc = "retire" /\ p = cur
    /\ Faultless => \A p \in Package : Generic(p) => LogTells(p)
    /\ pc \in {"uninstall", "retire"} => op = "uninstall"

\* No step of execd alone breaks it.
LEMMA StepArrowInv ==
    StandAlone /\ TypeOK /\ StepInv /\ ArrowInv /\ [Next]_vars => ArrowInv'
<1> SUFFICES ASSUME StandAlone, TypeOK, StepInv, ArrowInv, [Next]_vars PROVE ArrowInv'
  OBVIOUS
<1> USE PackageAssumption
    DEF rows, handler, updater, ghosts, Work, Done, TypeOK, Staging, Managed, Action, Settling, Acting,
        StepInv, ArrowInv, StandAlone, Verified, Chunks, Empty
<1>1. ASSUME NEW p \in Package, Begin(p) PROVE ArrowInv'
  BY <1>1 DEF Begin
<1>2. ASSUME NEW p \in Package, AppendTorn(p) PROVE ArrowInv'
  BY <1>2 DEF AppendTorn
<1>3. ASSUME NEW p \in Package, NEW bytes \in {"good", "bad"}, Append(p, bytes)
       PROVE  ArrowInv'
  BY <1>3 DEF Append
<1>4. ASSUME NEW p \in Package, Discard(p) PROVE ArrowInv'
  BY <1>4 DEF Discard
<1>5. ASSUME NEW p \in Package, CommitFails(p) PROVE ArrowInv'
  <2>1. /\ state' = [state EXCEPT ![p] = "failed"] \/ UNCHANGED state
        /\ lost' \in 0..MaxLost /\ lost' >= lost
    BY <1>5 DEF CommitFails, PutFailed, Put, Lose
  <2>2. state[p] = "uploading"
    BY <1>5 DEF CommitFails, Uploaded
  <2>3. UNCHANGED <<ident, received, file, history, device, pc, cur, op, upc, updating, uncertain, crashes>>
    BY <1>5 DEF CommitFails
  <2>4. pc = "idle"
    BY <1>5 DEF CommitFails
  <2> QED BY <2>1, <2>2, <2>3, <2>4 DEF Intact
<1>6. ASSUME NEW p \in Package, CommitVerifies(p) PROVE ArrowInv'
  BY <1>6 DEF CommitVerifies, Uploaded, Intact, Inspected
<1>7. ASSUME NEW p \in Package, CommitIdentifies(p) PROVE ArrowInv'
  BY <1>7 DEF CommitIdentifies, Identified, Uploaded, Intact
<1>8. CASE Insert
  BY <1>8 DEF Insert, Put
<1>9. CASE InsertFails
  BY <1>9 DEF InsertFails, Lose
<1>10. CASE Advance
  BY <1>10 DEF Advance
<1>11. CASE AdvanceFails
  BY <1>11 DEF AdvanceFails, Lose
<1>12. CASE Ready
  BY <1>12 DEF Ready, Put
<1>13. CASE ReadyFails
  BY <1>13 DEF ReadyFails, Lose
<1>14. CASE MarkDiscarded
  BY <1>14 DEF MarkDiscarded, Put
<1>15. CASE MarkDiscardedFails
  BY <1>15 DEF MarkDiscardedFails, Lose
<1>16. ASSUME NEW p \in Package, NEW o \in {"install", "rollback"}, Start(p, o)
       PROVE  ArrowInv'
  BY <1>16 DEF Start, Installable, Rollbackable, Generic, Reinspected
<1>17. ASSUME NEW p \in Package, StartUninstall(p) PROVE ArrowInv'
  BY <1>17 DEF StartUninstall, Generic
<1>18. CASE Installs
  BY <1>18 DEF Installs, Given, Found, DeviceWith
<1>19. CASE InstallFails
  BY <1>19 DEF InstallFails
<1>20. CASE InstallUncertain
  BY <1>20 DEF InstallUncertain, Given, DeviceWith
<1>21. CASE Activate
  BY <1>21 DEF Activate, Activated
<1>22. CASE ActivateFails
  BY <1>22 DEF ActivateFails, Lose
<1>23. CASE Uninstalls
  BY <1>23 DEF Uninstalls, DeviceWithout
<1>24. CASE UninstallFails
  BY <1>24 DEF UninstallFails
<1>25. CASE UninstallUncertain
  BY <1>25 DEF UninstallUncertain, DeviceWithout
<1>26. CASE Retire
  BY <1>26 DEF Retire, Put
<1>27. CASE RetireFails
  BY <1>27 DEF RetireFails, Lose
<1>28. CASE Record
  BY <1>28 DEF Record
<1>29. CASE RecordFails
  BY <1>29 DEF RecordFails, Lose
<1>30. CASE Crash
  BY <1>30 DEF Crash, DeviceWith, DeviceWithout
<1>31. ASSUME NEW p \in Package, UpdaterResolves(p) PROVE ArrowInv'
  BY <1>31 DEF UpdaterResolves
<1>32. CASE UpdaterGivesUp
  BY <1>32 DEF UpdaterGivesUp
<1>33. CASE UpdaterActivates
  BY <1>33 DEF UpdaterActivates, Activated
<1>34. CASE UpdaterRecords
  BY <1>34 DEF UpdaterRecords, Lose
<1>35. CASE UNCHANGED vars
  BY <1>35 DEF vars
<1> QED
  BY <1>1, <1>2, <1>3, <1>4, <1>5, <1>6, <1>7, <1>8, <1>9, <1>10, <1>11, <1>12,
     <1>13, <1>14, <1>15, <1>16, <1>17, <1>18, <1>19, <1>20, <1>21, <1>22, <1>23, <1>24,
     <1>25, <1>26, <1>27, <1>28, <1>29, <1>30, <1>31, <1>32, <1>33, <1>34, <1>35
     DEF Next, Stage, Manage, Update

\* Every change of the device is followed by its row, or counted as a fault.
LEMMA StepDeviceInv ==
    StandAlone /\ Truthful /\ IInv /\ ArrowInv /\ DeviceInv /\ [Next]_vars => DeviceInv'
<1> SUFFICES ASSUME StandAlone, Truthful, IInv, ArrowInv, DeviceInv, [Next]_vars PROVE DeviceInv'
  OBVIOUS
<1> USE PackageAssumption
    DEF IInv, rows, handler, updater, ghosts, Work, Done, TypeOK, Staging, Managed, Action, Settling, Acting,
        StepInv, Sound, ArrowInv, DeviceInv, Faultless, Generic, Logged, LogTells, OneInstalledPerIdentifier, StandAlone, Truthful
<1>1. ASSUME NEW p \in Package, Begin(p) PROVE DeviceInv'
  BY <1>1 DEF Begin
<1>2. ASSUME NEW p \in Package, AppendTorn(p) PROVE DeviceInv'
  BY <1>2 DEF AppendTorn
<1>3. ASSUME NEW p \in Package, NEW bytes \in {"good", "bad"}, Append(p, bytes)
       PROVE  DeviceInv'
  BY <1>3 DEF Append
<1>4. ASSUME NEW p \in Package, Discard(p) PROVE DeviceInv'
  BY <1>4 DEF Discard
<1>5. ASSUME NEW p \in Package, CommitFails(p) PROVE DeviceInv'
  <2>1. /\ state' = [state EXCEPT ![p] = "failed"] \/ UNCHANGED state
        /\ lost' \in 0..MaxLost /\ lost' >= lost
    BY <1>5 DEF CommitFails, PutFailed, Put, Lose
  <2>2. state[p] = "uploading"
    BY <1>5 DEF CommitFails, Uploaded
  <2>3. UNCHANGED <<ident, received, file, history, device, pc, cur, op, upc, updating, uncertain, crashes>>
    BY <1>5 DEF CommitFails
  <2>4. pc = "idle"
    BY <1>5 DEF CommitFails
  <2> QED BY <2>1, <2>2, <2>3, <2>4 DEF Intact
<1>6. ASSUME NEW p \in Package, CommitVerifies(p) PROVE DeviceInv'
  BY <1>6 DEF CommitVerifies, Uploaded, Intact, Inspected
<1>7. ASSUME NEW p \in Package, CommitIdentifies(p) PROVE DeviceInv'
  BY <1>7 DEF CommitIdentifies, Identified, Uploaded, Intact
<1>8. CASE Insert
  BY <1>8 DEF Insert, Put
<1>9. CASE InsertFails
  <2>1. /\ crashes' = crashes /\ uncertain' = uncertain /\ lost \in Nat /\ (lost' = 0 => lost = 0)
        /\ pc = "insert" /\ pc' = "idle"
    BY <1>9 DEF InsertFails, Lose
  <2>2. UNCHANGED <<state, ident, history, device>>
    BY <1>9 DEF InsertFails
  <2>3. \A p \in Package : Generic(p)' = Generic(p) /\ (LogTells(p) => LogTells(p)')
    BY <2>1, <2>2
  <2>4. Faultless' => Faultless
    BY <2>1
  <2>5. DeviceInv'
    BY <2>1, <2>2, <2>3, <2>4
  <2> QED BY <2>5
<1>10. CASE Advance
  BY <1>10 DEF Advance
<1>11. CASE AdvanceFails
  BY <1>11 DEF AdvanceFails, Lose
<1>12. CASE Ready
  BY <1>12 DEF Ready, Put
<1>13. CASE ReadyFails
  BY <1>13 DEF ReadyFails, Lose
<1>14. CASE MarkDiscarded
  BY <1>14 DEF MarkDiscarded, Put
<1>15. CASE MarkDiscardedFails
  BY <1>15 DEF MarkDiscardedFails, Lose
<1>16. ASSUME NEW p \in Package, NEW o \in {"install", "rollback"}, Start(p, o)
       PROVE  DeviceInv'
  BY <1>16 DEF Start, Installable, Rollbackable, Generic, Reinspected
<1>17. ASSUME NEW p \in Package, StartUninstall(p) PROVE DeviceInv'
  BY <1>17 DEF StartUninstall, Generic
<1>18. CASE Installs
  BY <1>18 DEF Installs, Given, Found, DeviceWith
<1>19. CASE InstallFails
  BY <1>19 DEF InstallFails
<1>20. CASE InstallUncertain
  BY <1>20 DEF InstallUncertain, Given, DeviceWith
<1>21. CASE Activate
  BY <1>21 DEF Activate, Activated
<1>22. CASE ActivateFails
  BY <1>22 DEF ActivateFails, Lose
<1>23. CASE Uninstalls
  BY <1>23 DEF Uninstalls, DeviceWithout
<1>24. CASE UninstallFails
  BY <1>24 DEF UninstallFails
<1>25. CASE UninstallUncertain
  BY <1>25 DEF UninstallUncertain, DeviceWithout
<1>26. CASE Retire
  BY <1>26 DEF Retire, Put
<1>27. CASE RetireFails
  BY <1>27 DEF RetireFails, Lose
<1>28. CASE Record
  <2>1. /\ pc = "record" /\ pc' = "idle" /\ cur \in Package /\ op \in Action
        /\ history' = [history EXCEPT ![cur] = op]
        /\ UNCHANGED <<state, ident, device, uncertain, crashes, lost>>
    BY <1>28 DEF Record
  <2>2. \A p \in Package : history'[p] = IF p = cur THEN op ELSE history[p]
    BY <2>1
  <2>3. \A p \in Package : Generic(p)' = Generic(p) /\ (LogTells(p) => LogTells(p)')
    BY <2>1, <2>2
  <2>4. Faultless' => Faultless
    BY <2>1
  <2>5. DeviceInv'
    BY <2>1, <2>2, <2>3, <2>4
  <2> QED BY <2>5
<1>29. CASE RecordFails
  BY <1>29 DEF RecordFails, Lose
<1>30. CASE Crash
  BY <1>30 DEF Crash, DeviceWith, DeviceWithout
<1>31. ASSUME NEW p \in Package, UpdaterResolves(p) PROVE DeviceInv'
  BY <1>31 DEF UpdaterResolves
<1>32. CASE UpdaterGivesUp
  BY <1>32 DEF UpdaterGivesUp
<1>33. CASE UpdaterActivates
  BY <1>33 DEF UpdaterActivates, Activated
<1>34. CASE UpdaterRecords
  BY <1>34 DEF UpdaterRecords, Lose
<1>35. CASE UNCHANGED vars
  BY <1>35 DEF vars
<1> HIDE DEF IInv, rows, handler, updater, ghosts, Work, Done, TypeOK, Staging, Managed,
     Action, Settling, Acting, StepInv, Sound, ArrowInv, DeviceInv, Faultless, Generic, Logged, LogTells,
     OneInstalledPerIdentifier, StandAlone, Truthful
<1> QED
  BY <1>1, <1>2, <1>3, <1>4, <1>5, <1>6, <1>7, <1>8, <1>9, <1>10, <1>11, <1>12,
     <1>13, <1>14, <1>15, <1>16, <1>17, <1>18, <1>19, <1>20, <1>21, <1>22, <1>23, <1>24,
     <1>25, <1>26, <1>27, <1>28, <1>29, <1>30, <1>31, <1>32, <1>33, <1>34, <1>35
     DEF Next, Stage, Manage, Update

\* ArrowInv and DeviceInv hold initially, and so always.
LEMMA AlwaysArrowInv == ASSUME StandAlone PROVE Spec => []ArrowInv
<1>1. Init => ArrowInv
  BY PackageAssumption DEF Init, ArrowInv
<1>2. IInv /\ ArrowInv /\ [Next]_vars => ArrowInv'
  BY StandAlone, StepArrowInv DEF IInv
<1> QED BY <1>1, <1>2, AlwaysIInv, PTL DEF Spec

\* Without a RootTools DEB the device is ahead of the rows only in between.
LEMMA AlwaysDeviceInv == ASSUME StandAlone, Truthful PROVE Spec => []DeviceInv
<1>1. Init => DeviceInv
  BY PackageAssumption DEF Init, DeviceInv, LogTells
<1>2. IInv /\ ArrowInv /\ DeviceInv /\ [Next]_vars => DeviceInv'
  BY StandAlone, Truthful, StepDeviceInv
<1> QED BY <1>1, <1>2, AlwaysIInv, AlwaysArrowInv, StandAlone, PTL DEF Spec

\* Without a RootTools DEB an installed package keeps its artifact, which is
\* the hashed one (rt_package_discard refuses installed rows).
THEOREM ArtifactsAreKept == ASSUME StandAlone PROVE Spec => []InstalledKeepsArtifact
<1>1. ArrowInv => InstalledKeepsArtifact
  BY DEF ArrowInv, InstalledKeepsArtifact
<1> QED BY <1>1, AlwaysArrowInv, StandAlone, PTL

\* With truthful callers besides, and without faults, an installed row names
\* what its identifier stands for on the device, and the last event of a row
\* tells what was done to it (install, rollback and uninstall).
THEOREM RowsTellTheDevice ==
    ASSUME StandAlone, Truthful PROVE Spec => []InstalledIsOnDevice
<1>1. DeviceInv => InstalledIsOnDevice
  BY DEF DeviceInv, Faultless, LogTells, Logged, InstalledIsOnDevice
<1> QED BY <1>1, AlwaysDeviceInv, StandAlone, Truthful, PTL

\* Without a RootTools DEB the rows take only the documented arrows: retained
\* by being superseded, installed again by a rollback, and never from a failed or
\* discarded upload (activate_package, installable_state, rollbackable_state).
THEOREM ArrowsAreDocumented == ASSUME StandAlone PROVE Spec => LifecycleArrows
<1>1. IInv /\ ArrowInv /\ [Next]_vars => [\A p \in Package : Arrow(p)]_vars
  <2> SUFFICES ASSUME IInv, ArrowInv, [Next]_vars, NEW q \in Package, state'[q] # state[q]
               PROVE  Arrow(q)
    BY DEF Arrow
  <2> USE PackageAssumption
      DEF IInv, TypeOK, StepInv, ArrowInv, Staging, Managed, Settling, Acting, Verified, Arrow
  <2>1. ASSUME NEW p \in Package, CommitFails(p) PROVE Arrow(q)
    BY <2>1 DEF CommitFails, Uploaded, PutFailed, Put
  <2>2. CASE Insert
    BY <2>2 DEF Insert, Put
  <2>3. CASE Ready
    BY <2>3 DEF Ready, Put
  <2>4. CASE MarkDiscarded
    BY <2>4 DEF MarkDiscarded, Put
  <2>5. CASE Activate
    <3>1. state'[q] \in {"installed", "retained"} /\ state'[cur] = "installed" /\ cur \in Package
      BY <2>5 DEF Activate, Activated
    <3>2. CASE q = cur
      BY <2>5, <3>1, <3>2 DEF Activate
    <3>3. CASE q # cur
      <4>1. state'[q] = "retained" /\ state[q] = "installed" /\ ident[q] = ident[cur]
        BY <2>5, <3>3 DEF Activate, Activated
      <4> QED BY <3>1, <3>3, <4>1
    <3> QED BY <3>2, <3>3
  <2>6. CASE Retire
    BY <2>6 DEF Retire, Put
  <2>7. ~UpdaterActivates
    BY DEF UpdaterActivates
  <2> QED
    BY <2>1, <2>2, <2>3, <2>4, <2>5, <2>6, <2>7
       DEF Next, Stage, Manage, Update, rows, Begin, AppendTorn, Append, Discard, CommitVerifies,
           CommitIdentifies, Identified, InsertFails, Advance, AdvanceFails, ReadyFails, MarkDiscardedFails,
           Start, StartUninstall, Installs, InstallFails, InstallUncertain, ActivateFails,
           Uninstalls, UninstallFails, UninstallUncertain, RetireFails, Record, RecordFails,
           Crash, UpdaterResolves, UpdaterGivesUp, UpdaterRecords, vars
<1> QED BY <1>1, AlwaysIInv, AlwaysArrowInv, StandAlone, PTL DEF Spec, LifecycleArrows, Arrow
-----------------------------------------------------------------------------
(* The upload                                                              *)

OnDisk(p) == \A c \in 1..received[p] : file[p][c] # "none"

\* How the received size of an upload can get ahead of its file: one fault
\* loses the file of a row, a second one leaves the empty slot that a second
\* begin of the id made in its place.
Behind(p) ==
    /\ state[p] = "absent" => received[p] = 0
    /\ state[p] = "uploading" /\ file[p] = None =>
          (pc = "discard" /\ cur = p) \/ crashes + lost >= 1
    /\ state[p] = "uploading" /\ file[p] # None =>
          (pc = "insert" /\ cur = p) \/ OnDisk(p) \/ crashes + lost >= 2

UploadInv ==
    /\ \A p \in Package : Behind(p)
    /\ pc = "insert" /\ state[cur] = "uploading" => crashes + lost >= 1
    /\ pc = "advance" => file[cur] # None /\ file[cur][received[cur] + 1] # "none"

\* A step that neither stages bytes nor leaves a step of the upload half done.
Quiet ==
    /\ UNCHANGED <<received, file>>
    /\ crashes' + lost' >= crashes + lost
    /\ \A p \in Package : state'[p] \in {"absent", "uploading"} => state'[p] = state[p]
    /\ \/ UNCHANGED <<pc, cur>>
       \/ pc \notin {"insert", "discard"} /\ pc' \notin {"insert", "advance"}

\* The steps of an upload; all others are quiet.
Uploads ==
    \/ \E p \in Package : \/ Begin(p) \/ AppendTorn(p) \/ Discard(p)
                          \/ \E bytes \in {"good", "bad"} : Append(p, bytes)
    \/ Insert \/ InsertFails \/ Advance \/ MarkDiscarded \/ MarkDiscardedFails \/ Crash

\* Verifying, installing, uninstalling and updating leave uploads alone.
LEMMA OthersAreQuiet == IInv /\ [Next]_vars => Uploads \/ Quiet
<1> SUFFICES ASSUME IInv, [Next]_vars PROVE Uploads \/ Quiet
  OBVIOUS
<1>0. TypeOK /\ crashes \in Nat /\ lost \in Nat
  BY PackageAssumption DEF IInv, TypeOK
<1> USE <1>0 DEF Quiet, rows, handler, updater, ghosts, Work, Done, TypeOK, Settling, Acting
<1>1. CASE Stage
  <2>1. ASSUME NEW p \in Package, CommitFails(p) PROVE Quiet
    BY <2>1 DEF CommitFails, PutFailed, Put, Lose
  <2>2. ASSUME NEW p \in Package, CommitVerifies(p) PROVE Quiet
    BY <2>2 DEF CommitVerifies
  <2>3. ASSUME NEW p \in Package, CommitIdentifies(p) PROVE Quiet
    BY <2>3 DEF CommitIdentifies
  <2>4. CASE AdvanceFails
    BY <2>4 DEF AdvanceFails, Lose
  <2>5. CASE Ready
    BY <2>5 DEF Ready, Put
  <2>6. CASE ReadyFails
    BY <2>6 DEF ReadyFails, Lose
  <2> QED BY <1>1, <2>1, <2>2, <2>3, <2>4, <2>5, <2>6 DEF Stage, Uploads
<1>2. CASE Manage
  <2>1. ASSUME NEW p \in Package, NEW o \in {"install", "rollback"}, Start(p, o) PROVE Quiet
    BY <2>1 DEF Start
  <2>2. ASSUME NEW p \in Package, StartUninstall(p) PROVE Quiet
    BY <2>2 DEF StartUninstall
  <2>3. CASE Activate
    BY <2>3 DEF Activate, Activated
  <2>4. CASE Retire
    BY <2>4 DEF Retire, Put
  <2>5. CASE Installs \/ InstallFails \/ InstallUncertain
    BY <2>5 DEF Installs, InstallFails, InstallUncertain
  <2>6. CASE ActivateFails \/ RetireFails \/ RecordFails
    BY <2>6 DEF ActivateFails, RetireFails, RecordFails, Lose
  <2>7. CASE Uninstalls \/ UninstallFails \/ UninstallUncertain \/ Record
    BY <2>7 DEF Uninstalls, UninstallFails, UninstallUncertain, Record
  <2> QED BY <1>2, <2>1, <2>2, <2>3, <2>4, <2>5, <2>6, <2>7 DEF Manage
<1>3. CASE Update
  <2>1. ASSUME NEW p \in Package, UpdaterResolves(p) PROVE Quiet
    BY <2>1 DEF UpdaterResolves
  <2>2. CASE UpdaterGivesUp
    BY <2>2 DEF UpdaterGivesUp
  <2>3. CASE UpdaterActivates
    BY <2>3 DEF UpdaterActivates, Activated
  <2>4. CASE UpdaterRecords
    BY <2>4 DEF UpdaterRecords, Lose
  <2> QED BY <1>3, <2>1, <2>2, <2>3, <2>4 DEF Update
<1>4. CASE UNCHANGED vars
  BY <1>4 DEF vars
<1> QED BY <1>1, <1>2, <1>3, <1>4 DEF Next, Uploads

\* No row and no file.
LEMMA InitUploadInv == Init => UploadInv
BY DEF Init, UploadInv, Behind

\* What one more fault makes of the number of faults.
LEMMA OneFaultMore ==
  ASSUME NEW c \in Nat, NEW l \in Nat, NEW d \in Nat, NEW m \in Nat, d + m = c + l + 1
  PROVE  /\ d + m >= 1
         /\ c + l >= 1 => d + m >= 2
         /\ c + l >= 2 => d + m >= 2
OBVIOUS

\* Every step keeps the received size behind the file, as long as it can.
LEMMA StepUploadInv == IInv /\ UploadInv /\ [Next]_vars => UploadInv'
<1> SUFFICES ASSUME IInv, UploadInv, [Next]_vars PROVE UploadInv'
  OBVIOUS
<1>0. TypeOK /\ StepInv /\ crashes \in Nat /\ lost \in Nat
  BY PackageAssumption DEF IInv, TypeOK
<1>a. /\ \A q \in Package : Behind(q)
      /\ pc = "insert" /\ state[cur] = "uploading" => crashes + lost >= 1
      /\ pc = "advance" => file[cur] # None /\ file[cur][received[cur] + 1] # "none"
  BY DEF UploadInv
<1> USE PackageAssumption DEF rows, handler, updater, ghosts, Work, Done, Settling, Acting
<1>1. ASSUME NEW p \in Package, Begin(p) PROVE UploadInv'
  <2>1. /\ pc = "idle" /\ pc' = "insert" /\ cur' = p /\ file[p] = None
        /\ UNCHANGED <<state, received, crashes, lost>>
        /\ \A q \in Package \ {p} : file'[q] = file[q]
    BY <1>0, <1>1 DEF Begin, TypeOK
  <2>2. \A q \in Package \ {p} : Behind(q)'
    BY <1>a, <2>1 DEF Behind, OnDisk
  <2>3. file'[p] # None
    BY <1>0, <1>1 DEF Begin, TypeOK, Empty
  <2> QED BY <1>a, <2>1, <2>2, <2>3 DEF UploadInv, Behind
<1>2. ASSUME NEW p \in Package, AppendTorn(p) PROVE UploadInv'
  <2>1. /\ pc = "idle" /\ state[p] = "uploading" /\ received[p] \in 0..Size /\ received[p] < Size
        /\ file[p] \in Chunks /\ file' = [file EXCEPT ![p][received[p] + 1] = "bad"]
        /\ UNCHANGED <<state, received, pc, cur, crashes, lost>>
    BY <1>0, <1>2 DEF AppendTorn, TypeOK
  <2>2. file'[p] = [file[p] EXCEPT ![received[p] + 1] = "bad"] /\ file'[p] \in Chunks
    BY <1>0, <2>1 DEF Chunks, TypeOK
  <2>3. \A q \in Package \ {p} : Behind(q)'
    BY <1>0, <1>a, <2>1 DEF Behind, OnDisk, TypeOK
  <2>4. OnDisk(p) => OnDisk(p)'
    BY <2>1, <2>2 DEF Chunks, OnDisk
  <2>5. file[p] # None /\ file'[p] # None
    BY <2>1, <2>2 DEF Chunks
  <2>6. Behind(p)'
    BY <1>a, <2>1, <2>4, <2>5 DEF Behind
  <2> QED BY <2>1, <2>3, <2>6 DEF UploadInv
<1>3. ASSUME NEW p \in Package, NEW bytes \in {"good", "bad"}, Append(p, bytes)
      PROVE  UploadInv'
  <2>1. /\ pc = "idle" /\ state[p] = "uploading" /\ received[p] \in 0..Size /\ received[p] < Size
        /\ file[p] \in Chunks /\ file' = [file EXCEPT ![p][received[p] + 1] = bytes]
        /\ pc' = "advance" /\ cur' = p
        /\ UNCHANGED <<state, received, crashes, lost>>
    BY <1>0, <1>3 DEF Append, TypeOK
  <2>2. file'[p] = [file[p] EXCEPT ![received[p] + 1] = bytes] /\ file'[p] \in Chunks
    BY <1>0, <2>1 DEF Chunks, TypeOK
  <2>3. \A q \in Package \ {p} : Behind(q)'
    BY <1>0, <1>a, <2>1 DEF Behind, OnDisk, TypeOK
  <2>4. (OnDisk(p) => OnDisk(p)') /\ file'[p][received[p] + 1] # "none"
    BY <2>1, <2>2 DEF Chunks, OnDisk
  <2>5. file[p] # None /\ file'[p] # None
    BY <2>1, <2>2 DEF Chunks
  <2>6. Behind(p)'
    BY <1>a, <2>1, <2>4, <2>5 DEF Behind
  <2> QED BY <2>1, <2>3, <2>4, <2>5, <2>6 DEF UploadInv
<1>4. ASSUME NEW p \in Package, Discard(p) PROVE UploadInv'
  <2>1. /\ pc = "idle" /\ pc' = "discard" /\ cur' = p /\ file'[p] = None /\ state[p] # "absent"
        /\ UNCHANGED <<state, received, crashes, lost>>
        /\ \A q \in Package \ {p} : file'[q] = file[q]
    BY <1>0, <1>4 DEF Discard, TypeOK
  <2>2. \A q \in Package \ {p} : Behind(q)'
    BY <1>a, <2>1 DEF Behind, OnDisk
  <2> QED BY <2>1, <2>2 DEF UploadInv, Behind
<1>5. CASE Insert
  <2>1. PICK p \in Package : p = cur
    BY <1>0, <1>5 DEF Insert, TypeOK
  <2>2. /\ pc = "insert" /\ pc' = "idle" /\ state[p] = "absent" /\ file[p] # None
        /\ UNCHANGED <<received, file, crashes, lost>>
        /\ state'[p] = "uploading" /\ \A q \in Package \ {p} : state'[q] = state[q]
    BY <1>0, <1>5, <2>1 DEF Insert, Put, TypeOK, StepInv, Empty
  <2>3. OnDisk(p)'
    BY <1>a, <2>2 DEF OnDisk, Behind
  <2>4. \A q \in Package \ {p} : Behind(q)'
    BY <1>a, <2>1, <2>2 DEF Behind, OnDisk
  <2> QED BY <2>2, <2>3, <2>4 DEF UploadInv, Behind
<1>6. CASE InsertFails
  <2>1. PICK p \in Package : p = cur
    BY <1>0, <1>6 DEF InsertFails, TypeOK
  <2>2. /\ pc = "insert" /\ pc' = "idle" /\ file'[p] = None
        /\ UNCHANGED <<received, state, crashes>> /\ lost' \in {lost, lost + 1}
        /\ \A q \in Package \ {p} : file'[q] = file[q]
    BY <1>0, <1>6, <2>1 DEF InsertFails, Lose, TypeOK
  <2>3. \A q \in Package \ {p} : Behind(q)'
    BY <1>0, <1>a, <2>1, <2>2 DEF Behind, OnDisk
  <2>4. state'[p] = "uploading" => crashes' + lost' >= 1
    BY <1>0, <1>a, <2>1, <2>2
  <2>5. Behind(p)'
    BY <1>a, <2>2, <2>4 DEF Behind
  <2> QED BY <2>2, <2>3, <2>5 DEF UploadInv
<1>7. CASE Advance
  <2>1. PICK p \in Package : p = cur
    BY <1>0, <1>7 DEF Advance, TypeOK
  <2>2. /\ received[p] \in Nat /\ received'[p] = received[p] + 1
        /\ \A q \in Package \ {p} : received'[q] = received[q]
        /\ state[p] = "uploading" /\ file[p] # None /\ file[p][received[p] + 1] # "none"
        /\ pc = "advance" /\ pc' = "idle" /\ UNCHANGED <<state, file, crashes, lost>>
    BY <1>0, <1>a, <1>7, <2>1 DEF Advance, StepInv, TypeOK
  <2>3. OnDisk(p) => OnDisk(p)'
    BY <2>2 DEF OnDisk
  <2>4. \A q \in Package \ {p} : Behind(q)'
    BY <1>a, <2>2 DEF Behind, OnDisk
  <2>5. Behind(p)'
    BY <1>a, <2>2, <2>3 DEF Behind
  <2> QED BY <2>2, <2>4, <2>5 DEF UploadInv
<1>8. CASE MarkDiscarded
  <2>1. PICK p \in Package : p = cur
    BY <1>0, <1>8 DEF MarkDiscarded, TypeOK
  <2>2. /\ pc = "discard" /\ pc' = "idle" /\ UNCHANGED <<received, file, crashes, lost>>
        /\ state'[p] = "discarded" /\ \A q \in Package \ {p} : state'[q] = state[q]
    BY <1>0, <1>8, <2>1 DEF MarkDiscarded, Put, TypeOK
  <2> QED BY <1>a, <2>1, <2>2 DEF UploadInv, Behind, OnDisk
<1>9. CASE MarkDiscardedFails \/ Crash
  <2>1. /\ pc' = "idle" /\ UNCHANGED <<state, received, file>>
        /\ crashes' \in Nat /\ lost' \in Nat /\ crashes' + lost' = crashes + lost + 1
    BY <1>0, <1>9 DEF MarkDiscardedFails, Crash, Lose
  <2>a. /\ crashes' + lost' >= 1
        /\ crashes + lost >= 1 => crashes' + lost' >= 2
        /\ crashes + lost >= 2 => crashes' + lost' >= 2
    BY <1>0, <2>1, OneFaultMore
  <2>2. ASSUME NEW q \in Package PROVE Behind(q)'
    <3>1. Behind(q) /\ (OnDisk(q) => OnDisk(q)')
      BY <1>a, <2>1 DEF OnDisk
    <3>2. CASE pc = "insert" /\ cur = q
      <4>1. state[q] = "uploading" => crashes' + lost' >= 2
        BY <1>a, <2>a, <3>2
      <4> QED BY <2>1, <2>a, <3>1, <4>1 DEF Behind
    <3>3. CASE ~(pc = "insert" /\ cur = q)
      BY <2>1, <2>a, <3>1, <3>3 DEF Behind
    <3> QED BY <3>2, <3>3
  <2> QED BY <2>1, <2>2 DEF UploadInv
<1>10. CASE Quiet
  <2>1. /\ UNCHANGED <<received, file>>
        /\ \A q \in Package : state'[q] \in {"absent", "uploading"} => state'[q] = state[q]
    BY <1>10 DEF Quiet
  <2>2. crashes' \in Nat /\ lost' \in Nat /\ crashes' + lost' >= crashes + lost
    <3>1. TypeOK'
      BY <1>0, StepTypeOK
    <3>2. crashes' \in Nat /\ lost' \in Nat
      BY <3>1 DEF TypeOK
    <3> QED BY <3>2, <1>10 DEF Quiet
  <2>3. /\ crashes + lost >= 1 => crashes' + lost' >= 1
        /\ crashes + lost >= 2 => crashes' + lost' >= 2
    <3>1. \A a, b, c, d \in Nat : c + d >= a + b =>
            (a + b >= 1 => c + d >= 1) /\ (a + b >= 2 => c + d >= 2)
      OBVIOUS
    <3> QED BY <1>0, <2>2, <3>1
  <2>4. ASSUME NEW q \in Package
        PROVE  /\ Behind(q) /\ OnDisk(q)' = OnDisk(q)
               /\ state'[q] = "absent" => state[q] = "absent"
               /\ state'[q] = "uploading" => state[q] = "uploading"
    BY <1>a, <2>1 DEF OnDisk
  <2>5. CASE UNCHANGED <<pc, cur>>
    <3>1. ASSUME NEW q \in Package PROVE Behind(q)'
      BY <2>1, <2>5, <2>3, <2>4 DEF Behind
    <3>2. pc' = "insert" /\ state'[cur'] = "uploading" => crashes' + lost' >= 1
      <4>1. pc' = "insert" => cur \in Package
        BY <1>0, <2>5 DEF TypeOK
      <4> QED BY <1>a, <2>1, <2>3, <2>5, <4>1
    <3>3. pc' = "advance" => file'[cur'] # None /\ file'[cur'][received'[cur'] + 1] # "none"
      BY <1>a, <2>1, <2>5
    <3> QED BY <3>1, <3>2, <3>3 DEF UploadInv
  <2>6. CASE pc \notin {"insert", "discard"} /\ pc' \notin {"insert", "advance"}
    <3>1. ASSUME NEW q \in Package PROVE Behind(q)'
      BY <2>1, <2>6, <2>3, <2>4 DEF Behind
    <3> QED BY <2>6, <3>1 DEF UploadInv
  <2> QED BY <1>10, <2>5, <2>6 DEF Quiet
<1> QED
  BY <1>1, <1>2, <1>3, <1>4, <1>5, <1>6, <1>7, <1>8, <1>9, <1>10, OthersAreQuiet
     DEF Uploads

\* The received size of an upload is never ahead of its file, whatever single
\* fault happens (rt_package_append).
THEOREM UploadsAreBehindFile == Spec => []LedgerBehindFile
<1>1. IInv /\ UploadInv => LedgerBehindFile
  <2> SUFFICES ASSUME IInv, UploadInv, crashes + lost <= 1, NEW p \in Package,
                      state[p] = "uploading", file[p] # None, ~(pc = "insert" /\ cur = p)
               PROVE  OnDisk(p)
    BY DEF LedgerBehindFile, OnDisk
  <2>1. crashes \in Nat /\ lost \in Nat
    BY PackageAssumption DEF IInv, TypeOK
  <2> QED BY <2>1 DEF UploadInv, Behind
<1> QED
  BY <1>1, InitUploadInv, StepUploadInv, AlwaysIInv, PTL DEF Spec
=============================================================================
