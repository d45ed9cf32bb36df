-------------------------- MODULE PackageLifecycle --------------------------
(***************************************************************************)
(* The package controller: staging slots, the verification of what was     *)
(* uploaded, and install, retain, rollback and uninstall of what was       *)
(* verified (package_controller.c), with the updater's claim on a RootTools*)
(* package (roottools_updater.c).                                          *)
(*                                                                         *)
(* A staged package is a row of staged_packages and a file; the provider   *)
(* (apt, dpkg or the TrollStore helper) changes the device.  execd runs    *)
(* one operation at a time, as a sequence of durable steps at control      *)
(* point pc: it may die between any two of them, and any transaction may   *)
(* fail.  The updater is a second process with the same database.          *)
(*                                                                         *)
(* A file is its chunks, each as the declared SHA-256 wants it ("good") or *)
(* not; the declared hash is thus that of the file with all chunks good.   *)
(* The provider reports success only if it installed or removed what it    *)
(* was given; it may have done so and report a failure.                    *)
(***************************************************************************)
EXTENDS Integers

CONSTANTS Package,     \* packageIds
          Identifier,  \* dpkg package names and bundle identifiers
          Format,      \* Package -> "deb" | "ipa"; "tipa" is treated as "ipa"
          Identity,    \* Package -> Identifier: what the file says it is
          Attested,    \* Package -> expectedIdentifier of the caller, None for ""
          RootTools,   \* com.arthur.roottools
          Size,        \* number of chunks of a package
          MaxCrashes,  \* bound on deaths of execd
          MaxLost,     \* bound on transactions that fail
          None

ASSUME PackageAssumption ==
    /\ Format \in [Package -> {"deb", "ipa"}]
    /\ Identity \in [Package -> Identifier]
    /\ Attested \in [Package -> Identifier \union {None}]
    /\ RootTools \in Identifier
    /\ Size \in Nat \ {0}
    /\ MaxCrashes \in Nat
    /\ MaxLost \in Nat
    /\ None \notin Identifier
    /\ None \notin Package
    /\ None \notin [1..Size -> {"none", "good", "bad"}]

Chunks == [1..Size -> {"none", "good", "bad"}]
Empty  == [c \in 1..Size |-> "none"]

VARIABLES
    \* durable
    state,     \* staged_packages.state, "absent" without a row
    ident,     \* staged_packages.expected_identifier
    received,  \* staged_packages.received_size
    file,      \* the staged file, None without one
    history,   \* the action of the package's last package_events row
    device,    \* what is installed under a format and an identifier
    \* execd's operation
    pc, cur, op,
    \* the updater
    upc, updating,
    \* observation
    uncertain, \* a provider changed the device and reported a failure
    crashes, lost

rows    == <<state, ident, received>>
handler == <<pc, cur, op>>
updater == <<upc, updating>>
ghosts  == <<uncertain, crashes>>
vars    == <<rows, file, history, device, handler, updater, ghosts, lost>>

Init ==
    /\ state = [p \in Package |-> "absent"]
    /\ ident = [p \in Package |-> None]
    /\ received = [p \in Package |-> 0]
    /\ file = [p \in Package |-> None]
    /\ history = [p \in Package |-> None]
    /\ device = [f \in {"deb", "ipa"} |-> [i \in Identifier |-> None]]
    /\ pc = "idle" /\ cur = None /\ op = None
    /\ upc = "none" /\ updating = None
    /\ uncertain = FALSE /\ crashes = 0 /\ lost = 0
-----------------------------------------------------------------------------
\* The operation works on p and goes on at control point k, or ends.
Work(p, k) == pc' = k /\ cur' = p
Done == pc' = "idle" /\ cur' = None /\ op' = None

\* A transaction that is not committed: refused by SQLite, busy, no space.
Lose == lost < MaxLost /\ lost' = lost + 1

Put(p, s) == state' = [state EXCEPT ![p] = s]

\* "dpkg-deb -f" or the IPA's Info.plist: the identity, if it can be read.
Inspected(p) == {Identity[p], None}

-----------------------------------------------------------------------------
(* Staging                                                                 *)

\* rt_package_begin: the slot is created exclusively ...
Begin(p) ==
    /\ pc = "idle"
    /\ file[p] = None
    /\ file' = [file EXCEPT ![p] = Empty]
    /\ Work(p, "insert")
    /\ UNCHANGED <<rows, history, device, op, updater, ghosts, lost>>

\* ... then its row is inserted ...
Insert ==
    /\ pc = "insert"
    /\ state[cur] = "absent"
    /\ Put(cur, "uploading")
    /\ ident' = [ident EXCEPT ![cur] = Attested[cur]]
    /\ Done
    /\ UNCHANGED <<received, file, history, device, updater, ghosts, lost>>

\* ... or the file is unlinked, when the id has a row or it cannot be stored.
InsertFails ==
    /\ pc = "insert"
    /\ \/ state[cur] # "absent" /\ UNCHANGED lost
       \/ Lose
    /\ file' = [file EXCEPT ![cur] = None]
    /\ Done
    /\ UNCHANGED <<rows, history, device, updater, ghosts>>

\* Mutation: a chunk may end behind the declared size.
AppendOverrun(p, bytes) ==
    /\ pc = "idle"
    /\ state[p] = "uploading" /\ file[p] # None
    /\ file' = [file EXCEPT ![p][received[p] + 1] = bytes]
    /\ Work(p, "advance")
    /\ UNCHANGED <<rows, history, device, op, updater, ghosts, lost>>

\* Mutation: the failure of the write is not noticed.
AppendUnchecked(p, bytes) ==
    /\ pc = "idle"
    /\ state[p] = "uploading" /\ received[p] < Size /\ file[p] # None
    /\ UNCHANGED file
    /\ Work(p, "advance")
    /\ UNCHANGED <<rows, history, device, op, updater, ghosts, lost>>

\* rt_package_append: the next chunk is written and synced ...
Append(p, bytes) ==
    /\ pc = "idle"
    /\ state[p] = "uploading" /\ received[p] < Size /\ file[p] # None
    /\ file' = [file EXCEPT ![p][received[p] + 1] = bytes]
    /\ Work(p, "advance")
    /\ UNCHANGED <<rows, history, device, op, updater, ghosts, lost>>

\* ... or written in part, which fails the request ...
AppendTorn(p) ==
    /\ pc = "idle"
    /\ state[p] = "uploading" /\ received[p] < Size /\ file[p] # None
    /\ file' = [file EXCEPT ![p][received[p] + 1] = "bad"]
    /\ UNCHANGED <<rows, history, device, handler, updater, ghosts, lost>>

\* ... and received_size advances if it still is the chunk's offset.
Advance ==
    /\ pc = "advance"
    /\ received' = [received EXCEPT ![cur] = @ + 1]
    /\ Done
    /\ UNCHANGED <<state, ident, file, history, device, updater, ghosts, lost>>

AdvanceFails ==
    /\ pc = "advance"
    /\ Lose
    /\ Done
    /\ UNCHANGED <<rows, file, history, device, updater, ghosts>>

Uploaded(p) == state[p] = "uploading" /\ received[p] = Size /\ file[p] # None
Intact(p) == file[p] = [c \in 1..Size |-> "good"]

\* update_state whose result is ignored: failed, or unchanged.
PutFailed(p) ==
    \/ Put(p, "failed") /\ UNCHANGED lost
    \/ UNCHANGED state /\ Lose

\* rt_package_commit: the hash or the identity does not match, or there is
\* no identity at all.
CommitFails(p) ==
    /\ pc = "idle" /\ Uploaded(p)
    /\ \/ ~Intact(p)
       \/ \E seen \in Inspected(p) :
             \/ seen # None /\ ident[p] \notin {None, seen}
             \/ seen = None /\ ident[p] = None
    /\ PutFailed(p)
    /\ UNCHANGED <<ident, received, file, history, device, handler, updater, ghosts>>

\* Mutation: the hash of the file is not compared.
CommitUnhashed(p) ==
    /\ pc = "idle" /\ Uploaded(p)
    /\ ident[p] # None /\ \E seen \in Inspected(p) : seen \in {None, ident[p]}
    /\ Work(p, "ready")
    /\ UNCHANGED <<rows, file, history, device, op, updater, ghosts, lost>>

\* The attested identity is the inspected one, or could not be inspected.
CommitVerifies(p) ==
    /\ pc = "idle" /\ Uploaded(p) /\ Intact(p)
    /\ ident[p] # None /\ \E seen \in Inspected(p) : seen \in {None, ident[p]}
    /\ Work(p, "ready")
    /\ UNCHANGED <<rows, file, history, device, op, updater, ghosts, lost>>

Identified(p) == [ident EXCEPT ![p] = Identity[p]]

\* Nothing was attested: the inspected identity is stored first.
CommitIdentifies(p) ==
    /\ pc = "idle" /\ Uploaded(p) /\ Intact(p)
    /\ ident[p] = None
    /\ ident' = Identified(p)
    /\ Work(p, "ready")
    /\ UNCHANGED <<state, received, file, history, device, op, updater, ghosts, lost>>

Ready ==
    /\ pc = "ready"
    /\ Put(cur, "ready")
    /\ Done
    /\ UNCHANGED <<ident, received, file, history, device, updater, ghosts, lost>>

ReadyFails ==
    /\ pc = "ready"
    /\ Lose
    /\ Done
    /\ UNCHANGED <<rows, file, history, device, updater, ghosts>>

\* Mutation: an installed package can be discarded.
DiscardAny(p) ==
    /\ pc = "idle"
    /\ state[p] # "absent"
    /\ file' = [file EXCEPT ![p] = None]
    /\ Work(p, "discard")
    /\ UNCHANGED <<rows, history, device, op, updater, ghosts, lost>>

\* rt_package_discard: the file goes first ...
Discard(p) ==
    /\ pc = "idle"
    /\ state[p] \notin {"absent", "installed"}
    /\ file' = [file EXCEPT ![p] = None]
    /\ Work(p, "discard")
    /\ UNCHANGED <<rows, history, device, op, updater, ghosts, lost>>

\* ... then the row says so, whatever it says by now.
MarkDiscarded ==
    /\ pc = "discard"
    /\ Put(cur, "discarded")
    /\ Done
    /\ UNCHANGED <<ident, received, file, history, device, updater, ghosts, lost>>

MarkDiscardedFails ==
    /\ pc = "discard"
    /\ Lose
    /\ Done
    /\ UNCHANGED <<rows, file, history, device, updater, ghosts>>
-----------------------------------------------------------------------------
(* The managed lifecycle                                                   *)

Generic(p) == Format[p] = "deb" => ident[p] # RootTools

\* A DEB is inspected again before it is installed; an IPA is not.
Reinspected(p) == Format[p] = "deb" => file[p] # None /\ Identity[p] = ident[p]

\* Mutation: a retained package can be installed without a rollback.
InstallableRetained(p) == state[p] \in {"ready", "uninstalled", "retained"}

Installable(p) == state[p] \in {"ready", "uninstalled"}
Rollbackable(p) == state[p] = "retained"

\* install_deb_internal and install_ipa_internal up to the provider, as an
\* install or as a rollback.
Start(p, o) ==
    /\ pc = "idle"
    /\ IF o = "rollback" THEN Rollbackable(p) ELSE Installable(p)
    /\ Generic(p) /\ Reinspected(p)
    /\ op' = o
    /\ Work(p, "install")
    /\ UNCHANGED <<rows, file, history, device, updater, ghosts, lost>>

\* A provider installs the staged file, unless it is missing or empty.
Given(p) == file[p] \notin {None, Empty}
\* What the post-condition asks of the device: is p's identifier there?
Found(p, d) == d[Format[p]][ident[p]] # None
DeviceWith(p) == [device EXCEPT ![Format[p]][Identity[p]] = p]

\* The provider succeeds and the expected identifier is there.
Installs ==
    /\ pc = "install"
    /\ Given(cur)
    /\ device' = DeviceWith(cur)
    /\ Found(cur, device')
    /\ Work(cur, "activate")
    /\ UNCHANGED <<rows, file, history, op, updater, ghosts, lost>>

\* The provider or the verification fails, and the device is as it was ...
InstallFails ==
    /\ pc = "install"
    /\ Done
    /\ UNCHANGED <<rows, file, history, device, updater, ghosts, lost>>

\* ... or is not.
InstallUncertain ==
    /\ pc = "install"
    /\ Given(cur)
    /\ device' = DeviceWith(cur)
    /\ uncertain' = TRUE
    /\ Done
    /\ UNCHANGED <<rows, file, history, updater, crashes, lost>>

\* Mutation: only packages of p's own format are retired, so that a DEB and an
\* IPA of one identifier are both active.
ActivatedOfItsFormat(p) ==
    [q \in Package |->
        IF q = p THEN "installed"
        ELSE IF state[q] = "installed" /\ ident[q] = ident[p] /\ Format[q] = Format[p]
             THEN "retained" ELSE state[q]]

\* The rows once p is active: no other row of its identifier is.
Activated(p) ==
    [q \in Package |->
        IF q = p THEN "installed"
        ELSE IF state[q] = "installed" /\ ident[q] = ident[p] THEN "retained" ELSE state[q]]

\* activate_package, one transaction.
Activate ==
    /\ pc = "activate"
    /\ state' = Activated(cur)
    /\ Work(cur, "record")
    /\ UNCHANGED <<ident, received, file, history, device, op, updater, ghosts, lost>>

\* Its failure is ignored, and the operation reported as a success.
ActivateFails ==
    /\ pc = "activate"
    /\ Lose
    /\ Work(cur, "record")
    /\ UNCHANGED <<rows, file, history, device, op, updater, ghosts>>

\* rt_package_uninstall_deb and rt_package_uninstall_ipa up to the provider.
StartUninstall(p) ==
    /\ pc = "idle"
    /\ state[p] = "installed"
    /\ Generic(p)
    /\ op' = "uninstall"
    /\ Work(p, "uninstall")
    /\ UNCHANGED <<rows, file, history, device, updater, ghosts, lost>>

DeviceWithout(p) == [device EXCEPT ![Format[p]][ident[p]] = None]

Uninstalls ==
    /\ pc = "uninstall"
    /\ device' = DeviceWithout(cur)
    /\ Work(cur, "retire")
    /\ UNCHANGED <<rows, file, history, op, updater, ghosts, lost>>

UninstallFails ==
    /\ pc = "uninstall"
    /\ Done
    /\ UNCHANGED <<rows, file, history, device, updater, ghosts, lost>>

UninstallUncertain ==
    /\ pc = "uninstall"
    /\ device' = DeviceWithout(cur)
    /\ uncertain' = TRUE
    /\ Done
    /\ UNCHANGED <<rows, file, history, updater, crashes, lost>>

\* Mutation: the row stays as it was.
RetireSkipped ==
    /\ pc = "retire"
    /\ Work(cur, "record")
    /\ UNCHANGED <<rows, file, history, device, op, updater, ghosts, lost>>

Retire ==
    /\ pc = "retire"
    /\ Put(cur, "uninstalled")
    /\ Work(cur, "record")
    /\ UNCHANGED <<ident, received, file, history, device, op, updater, ghosts, lost>>

RetireFails ==
    /\ pc = "retire"
    /\ Lose
    /\ Work(cur, "record")
    /\ UNCHANGED <<rows, file, history, device, op, updater, ghosts>>

\* record_event: the row of package_events for what was done.
Record ==
    /\ pc = "record"
    /\ history' = [history EXCEPT ![cur] = op]
    /\ Done
    /\ UNCHANGED <<rows, file, device, updater, ghosts, lost>>

RecordFails ==
    /\ pc = "record"
    /\ Lose
    /\ Done
    /\ UNCHANGED <<rows, file, history, device, updater, ghosts>>

\* execd is killed; a provider that was running goes on to its end.
Crash ==
    /\ crashes < MaxCrashes
    /\ crashes' = crashes + 1
    /\ \/ UNCHANGED device
       \/ pc = "install" /\ Given(cur) /\ device' = DeviceWith(cur)
       \/ pc = "uninstall" /\ device' = DeviceWithout(cur)
    /\ Done
    /\ UNCHANGED <<rows, file, history, updater, uncertain, lost>>
-----------------------------------------------------------------------------
(* The updater                                                             *)

\* run_update resolves and inspects the artifact of a ready RootTools DEB.
UpdaterResolves(p) ==
    /\ upc = "none"
    /\ state[p] = "ready" /\ Format[p] = "deb"
    /\ ident[p] = RootTools /\ Identity[p] = RootTools
    /\ file[p] # None
    /\ upc' = "update" /\ updating' = p
    /\ UNCHANGED <<rows, file, history, device, handler, ghosts, lost>>

\* The update fails, or its updater is killed.
UpdaterGivesUp ==
    /\ upc = "update"
    /\ upc' = "none" /\ updating' = None
    /\ UNCHANGED <<rows, file, history, device, handler, ghosts, lost>>

\* rt_package_mark_external_install: activated whatever its state by now ...
UpdaterActivates ==
    /\ upc = "update"
    /\ state' = Activated(updating)
    /\ upc' = "record"
    /\ UNCHANGED <<ident, received, file, history, device, handler, updating, ghosts, lost>>

\* ... and recorded as an action of the updater's.
UpdaterRecords ==
    /\ upc = "record"
    /\ \/ history' = [history EXCEPT ![updating] = "self-update"] /\ UNCHANGED lost
       \/ UNCHANGED history /\ Lose
    /\ upc' = "none" /\ updating' = None
    /\ UNCHANGED <<rows, file, device, handler, ghosts>>
-----------------------------------------------------------------------------
Stage ==
    \/ \E p \in Package :
          \/ Begin(p) \/ AppendTorn(p) \/ Discard(p)
          \/ \E bytes \in {"good", "bad"} : Append(p, bytes)
          \/ CommitFails(p) \/ CommitVerifies(p) \/ CommitIdentifies(p)
    \/ Insert \/ InsertFails \/ Advance \/ AdvanceFails \/ Ready \/ ReadyFails
    \/ MarkDiscarded \/ MarkDiscardedFails

Manage ==
    \/ \E p \in Package :
          \/ \E o \in {"install", "rollback"} : Start(p, o)
          \/ StartUninstall(p)
    \/ Installs \/ InstallFails \/ InstallUncertain \/ Activate \/ ActivateFails
    \/ Uninstalls \/ UninstallFails \/ UninstallUncertain \/ Retire \/ RetireFails
    \/ Record \/ RecordFails

Update ==
    \/ \E p \in Package : UpdaterResolves(p)
    \/ UpdaterGivesUp \/ UpdaterActivates \/ UpdaterRecords

Next == Stage \/ Manage \/ Update \/ Crash

Spec == Init /\ [][Next]_vars
-----------------------------------------------------------------------------
Staging  == {"absent", "uploading", "ready", "failed", "discarded"}
Managed  == {"installed", "retained", "uninstalled"}
Action   == {"install", "rollback", "uninstall"}
Settling == {"insert", "advance", "ready", "discard"}
Acting   == {"install", "activate", "uninstall", "retire", "record"}

(* Every row, file and local has its type.                                 *)
TypeOK ==
    /\ state \in [Package -> Staging \union Managed]
    /\ ident \in [Package -> Identifier \union {None}]
    /\ received \in [Package -> 0..Size]
    /\ file \in [Package -> Chunks \union {None}]
    /\ history \in [Package -> Action \union {"self-update", None}]
    /\ device \in [{"deb", "ipa"} -> [Identifier -> Package \union {None}]]
    /\ pc \in {"idle"} \union Settling \union Acting
    /\ cur \in IF pc = "idle" THEN {None} ELSE Package
    /\ op \in IF pc \in Acting THEN Action ELSE {None}
    /\ upc \in {"none", "update", "record"}
    /\ updating \in IF upc = "none" THEN {None} ELSE Package
    /\ uncertain \in BOOLEAN
    /\ crashes \in 0..MaxCrashes
    /\ lost \in 0..MaxLost

(* At most one package is active for an identifier, whatever fails and     *)
(* whichever process activates: the retiring update and the activating one *)
(* are one transaction (activate_package).                                 *)
OneInstalledPerIdentifier ==
    \A p, q \in Package :
        state[p] = "installed" /\ state[q] = "installed" /\ ident[p] = ident[q] => p = q

(* The received-size ledger is never ahead of the file: a fault between    *)
(* the two makes the client send the chunk again ("each chunk is synced    *)
(* before the received-size ledger advances",                              *)
(* docs/architecture/package-controller.md:33).  It takes two faults to    *)
(* break this: one that leaves a discarded upload's row, and one that      *)
(* leaves the empty slot of a second begin; the hash then refuses it.      *)
LedgerBehindFile ==
    crashes + lost <= 1 =>
        \A p \in Package : state[p] = "uploading" /\ file[p] # None /\ ~(pc = "insert" /\ cur = p) =>
            \A c \in 1..received[p] : file[p][c] # "none"

(* What a provider can be given is what was hashed and identified: under a *)
(* verified row the file is gone, as it was hashed, or an empty slot that a*)
(* second begin of the same id created and did not live to unlink.         *)
VerifiedStaysVerified ==
    \A p \in Package : state[p] \in {"ready"} \union Managed =>
        /\ ident[p] # None
        /\ file[p] \in {None, Empty} \/ Intact(p)

(* RootTools keeps the artifact of an installed package                    *)
(* (docs/architecture/package-controller.md:98).                          *)
InstalledKeepsArtifact ==
    \A p \in Package : state[p] = "installed" => file[p] # None

(* Between two operations an installed row is what is installed on the     *)
(* device under its identifier, and the last event of an installed or      *)
(* uninstalled row tells how it became so (record_event), unless execd     *)
(* died, a write was lost or a provider changed the device and failed.     *)
InstalledIsOnDevice ==
    pc = "idle" /\ crashes = 0 /\ lost = 0 /\ ~uncertain =>
        \A p \in Package : Generic(p) =>
            /\ state[p] = "installed" =>
                  /\ device[Format[p]][ident[p]] = p
                  /\ history[p] \in {"install", "rollback"}
            /\ state[p] = "uninstalled" => history[p] = "uninstall"

Arrow(p) ==
    state'[p] # state[p] =>
        /\ state'[p] = "retained" =>
              /\ state[p] = "installed"
              /\ \E q \in Package \ {p} : ident[q] = ident[p] /\ state'[q] = "installed"
        /\ state[p] = "retained" /\ state'[p] = "installed" => op = "rollback"
        /\ state[p] \in {"failed", "discarded"} => state'[p] \notin {"ready"} \union Managed

(* The documented arrows of the lifecycle: a row becomes retained only when*)
(* another of its identifier becomes installed, a retained row comes back  *)
(* by a rollback only, and a failed or discarded upload is never installed *)
(* (docs/architecture/package-controller.md:100).                          *)
LifecycleArrows == [][\A p \in Package : Arrow(p)]_vars
=============================================================================
