---------------------------- MODULE PolicyStore ----------------------------
(***************************************************************************)
(* The owner's execution policy (control_plane.c): one file per disabled   *)
(* capability and a file that names the policy mode.  The switch of one    *)
(* capability (handle_capability_set) and the change of mode               *)
(* (execute_policy_set_mode) are sequences of file operations, each of     *)
(* which may fail, and the daemon may die between any two of them.  The    *)
(* daemon is one thread, so two of these handlers never interleave.        *)
(*                                                                         *)
(* Capabilities are numbered in the order of kCapabilities.  Those that    *)
(* the daemon hard-disables (R3) are left out: every function skips them.  *)
(* Reads of the policy directory do not fail, and what is written survives *)
(* the death of the daemon.  The admission of a mode change is             *)
(* CommandLedger's; only the capability it needs is asked for here.        *)
(***************************************************************************)
EXTENDS Integers, FiniteSets

CONSTANTS Count,      \* number of compiled capabilities that are not R3
          Risk,       \* capability -> "R0", "R1" or "R2"
          Hatch,      \* device.policy.set-mode
          MaxFaults,  \* bound on file operations that fail
          MaxDeaths   \* bound on deaths of the daemon inside a handler

Capability == 1..Count
Mode == {"restricted", "standard", "developer"}

ASSUME PolicyAssumption ==
    /\ Count \in Nat \ {0}
    /\ Risk \in [Capability -> {"R0", "R1", "R2"}]
    /\ Hatch \in Capability
    /\ MaxFaults \in Nat /\ MaxDeaths \in Nat

VARIABLES
    \* durable
    disabled,   \* the capabilities that have a file
    mode,       \* the content of .mode, "absent" without one
    \* the daemon
    pc,
    at,         \* the capability the loop of rt_policy_set_mode has reached
    goal,       \* the mode asked for
    \* observation
    answer,     \* what the last request was told, "none" while it was not
    before,     \* the disabled capabilities when it began
    target,     \* the ones it was to leave
    faults, deaths

store == <<disabled, mode>>
ghost == <<before, target>>
count == <<faults, deaths>>
vars  == <<store, pc, at, goal, answer, ghost, count>>

\* What rt_policy_set_mode leaves disabled: the escape hatch stays open.
Narrowed(m) ==
    IF m = "restricted" THEN {c \in Capability : Risk[c] # "R0" /\ c # Hatch} ELSE {}

\* Mutation: without a mode file the switches are not looked at.
ReportedStandard == IF mode # "absent" THEN mode ELSE "standard"

\* rt_policy_mode_get: without a file the switches decide.
Reported ==
    IF mode # "absent" THEN mode
    ELSE IF disabled # {} THEN "custom" ELSE "standard"

Init ==
    /\ disabled = {} /\ mode = "absent"
    /\ pc = "idle" /\ at = 1 /\ goal = "standard"
    /\ answer = "none"
    /\ before = {} /\ target = {}
    /\ faults = 0 /\ deaths = 0

Set(c, on) == IF on THEN disabled \ {c} ELSE disabled \union {c}

\* The end of a handler.
Return(a) == pc' = "idle" /\ answer' = a

Fault ==
    /\ faults < MaxFaults
    /\ faults' = faults + 1
    /\ UNCHANGED deaths

\* unlink fails and changes nothing; a file that is created and then not
\* written or not synced stays.
Torn(c, on) == disabled' \in {disabled} \union (IF on THEN {} ELSE {Set(c, FALSE)})

Begin(t) ==
    /\ pc = "idle"
    /\ before' = disabled
    /\ target' = t
-----------------------------------------------------------------------------
(* rt_capability_set_enabled for handle_capability_set                     *)

\* The file first; the mode follows if the file was not as it should be.
Switch(c, on) ==
    /\ Begin(Set(c, on))
    /\ disabled' = Set(c, on)
    /\ IF disabled' # disabled
       THEN pc' = "mark" /\ answer' = "none"
       ELSE Return("ok")
    /\ UNCHANGED <<mode, at, goal, count>>

SwitchFails(c, on) ==
    /\ Begin(Set(c, on))
    /\ Torn(c, on)
    /\ Return("failed")
    /\ Fault
    /\ UNCHANGED <<mode, at, goal>>

Mark ==
    /\ pc = "mark"
    /\ mode' = "custom"
    /\ Return("ok")
    /\ UNCHANGED <<disabled, at, goal, ghost, count>>

\* rt_policy_write_mode replaces .mode by a rename: a failure leaves the old one.
MarkFails ==
    /\ pc = "mark"
    /\ Return("failed")
    /\ Fault
    /\ UNCHANGED <<store, at, goal, ghost>>
-----------------------------------------------------------------------------
(* rt_policy_set_mode for execute_policy_set_mode                          *)

\* A denied change of mode touches nothing and is not shown.
SetMode(m) ==
    /\ Begin(Narrowed(m))
    /\ Hatch \notin disabled
    /\ pc' = "apply" /\ at' = 1 /\ goal' = m
    /\ answer' = "none"
    /\ UNCHANGED <<store, count>>

Wanted == at \notin Narrowed(goal)

\* Mutation: the loop tests its bound after the increment.
ApplyOverruns ==
    /\ pc = "apply"
    /\ disabled' = Set(at, Wanted)
    /\ IF at > Count THEN pc' = "commit" /\ UNCHANGED at ELSE at' = at + 1 /\ UNCHANGED pc
    /\ UNCHANGED <<mode, goal, answer, ghost, count>>

\* Mutation: the loop begins with an empty directory.
ApplyClears ==
    /\ pc = "apply"
    /\ disabled' = IF at = 1 /\ Wanted THEN {} ELSE Set(at, Wanted)
    /\ IF at = Count THEN pc' = "commit" /\ UNCHANGED at ELSE at' = at + 1 /\ UNCHANGED pc
    /\ UNCHANGED <<mode, goal, answer, ghost, count>>

Apply ==
    /\ pc = "apply"
    /\ disabled' = Set(at, Wanted)
    /\ IF at = Count THEN pc' = "commit" /\ UNCHANGED at ELSE at' = at + 1 /\ UNCHANGED pc
    /\ UNCHANGED <<mode, goal, answer, ghost, count>>

\* Mutation: the loop goes on after a switch that failed.
ApplyFailsGoesOn ==
    /\ pc = "apply"
    /\ Torn(at, Wanted)
    /\ IF at = Count THEN pc' = "commit" /\ UNCHANGED at ELSE at' = at + 1 /\ UNCHANGED pc
    /\ Fault
    /\ UNCHANGED <<mode, goal, answer, ghost>>

\* The loop ends at the first switch that fails.
ApplyFails ==
    /\ pc = "apply"
    /\ Torn(at, Wanted)
    /\ Return("failed")
    /\ Fault
    /\ UNCHANGED <<mode, at, goal, ghost>>

Commit ==
    /\ pc = "commit"
    /\ mode' = goal
    /\ Return("ok")
    /\ UNCHANGED <<disabled, at, goal, ghost, count>>

CommitFails ==
    /\ pc = "commit"
    /\ Return("failed")
    /\ Fault
    /\ UNCHANGED <<store, at, goal, ghost>>
-----------------------------------------------------------------------------
\* The daemon is killed inside a handler; the next one finds the files as they are.
Dies ==
    /\ pc # "idle"
    /\ deaths < MaxDeaths
    /\ deaths' = deaths + 1
    /\ Return("none")
    /\ UNCHANGED <<store, at, goal, ghost, faults>>

Next ==
    \/ \E c \in Capability, on \in BOOLEAN : Switch(c, on) \/ SwitchFails(c, on)
    \/ Mark \/ MarkFails
    \/ \E m \in Mode : SetMode(m)
    \/ Apply \/ ApplyFails
    \/ Commit \/ CommitFails
    \/ Dies

Spec == Init /\ [][Next]_vars
-----------------------------------------------------------------------------
(* Every file and local has its type.                                      *)
TypeOK ==
    /\ disabled \subseteq Capability
    /\ mode \in Mode \union {"custom", "absent"}
    /\ pc \in {"idle", "mark", "apply", "commit"}
    /\ at \in Capability
    /\ goal \in Mode
    /\ answer \in {"none", "ok", "failed"}
    /\ before \subseteq Capability
    /\ target \subseteq Capability
    /\ faults \in 0..MaxFaults
    /\ deaths \in 0..MaxDeaths

(* A policy change that is under way, failed or was cut short by a death   *)
(* admits nothing that neither the old nor the new policy admits, and      *)
(* denies nothing that both admit (rt_policy_set_mode).                    *)
BetweenOldAndNew ==
    /\ before \intersect target \subseteq disabled
    /\ disabled \subseteq before \union target

(* A change that is answered with success is whole, whatever failed before *)
(* it: the switches are the ones asked for, and the mode is custom or      *)
(* agrees with them, unless nothing had to change ("enables all compiled   *)
(* non-R3 capabilities", docs/architecture/permission-model.md:36).        *)
SuccessIsWhole ==
    [][pc' = "idle" /\ answer' = "ok" =>
          /\ disabled' = target'
          /\ \/ mode' = "custom"
             \/ mode' = goal' /\ disabled' = Narrowed(goal')
             \/ pc = "idle" /\ UNCHANGED store]_vars

(* The mode tells the switches ("individual capability changes mark the    *)
(* policy as Custom", docs/validation/v0.15-permission-model.md:13): a     *)
(* mode other than custom has exactly its own switches between two         *)
(* requests, until something fails, and whatever failed as long as no mode *)
(* was written.                                                            *)
ModeTellsSwitches ==
    /\ pc = "idle" /\ Reported # "custom"
    /\ (faults = 0 /\ deaths = 0) \/ mode = "absent"
    => disabled = Narrowed(Reported)

(* Only the owner's own switch closes the escape hatch: no change of mode, *)
(* failed or not, locks the owner out of the next one (the comment in      *)
(* rt_policy_set_mode).                                                    *)
HatchStaysOpen ==
    [][(Hatch \notin disabled /\ Hatch \in disabled') => (pc = "idle")]_vars
=============================================================================
