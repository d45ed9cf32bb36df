---------------------------- MODULE AtomicUpdate ----------------------------
(***************************************************************************)
(* What the self-updater promises the owner: all of RootTools is of one    *)
(* version.  An update has one attempt; the attempt makes RootTools the    *)
(* update's version at one instant or leaves it as it was, and the verdict *)
(* says which.  Only an attempt that is interrupted, by a power loss or by *)
(* a second kick, or that cannot put a file back may leave a mixture, and  *)
(* the next update that succeeds ends it.                                  *)
(***************************************************************************)
EXTENDS Naturals

CONSTANTS Update,    \* the updates
          Base,      \* the version installed at first
          None

VARIABLES version,   \* the version of RootTools, None while it is a mixture
          updating,  \* the update that is attempted, None between two attempts
          taken,     \* the updates that have had their attempt
          verdict,   \* Update -> "open" or what is reported of it
          broken     \* files that could not be put back

vars == <<version, updating, taken, verdict, broken>>

Init ==
    /\ version = Base /\ updating = None /\ taken = {} /\ broken = 0
    /\ verdict = [u \in Update |-> "open"]

Begin(u) ==
    /\ updating = None /\ u \notin taken
    /\ updating' = u /\ taken' = taken \union {u}
    /\ UNCHANGED <<version, verdict, broken>>

\* What is reported of u from now on.
Says(u, v) == verdict' = [verdict EXCEPT ![u] = v]

\* The attempt goes on, whatever was reported of it.
Proceed ==
    /\ updating # None
    /\ verdict[updating] \in {"open", "failed"} /\ Says(updating, "open")
    /\ UNCHANGED <<version, updating, taken, broken>>

\* The instant of the update.
Commit ==
    /\ updating # None /\ version # updating
    /\ version' = updating
    /\ UNCHANGED <<updating, taken, verdict, broken>>

Ends == updating # None /\ updating' = None /\ UNCHANGED <<taken, broken>>

Succeed == Ends /\ version = updating /\ Says(updating, "succeeded") /\ UNCHANGED version
Fail    == Ends /\ version # updating /\ Says(updating, "failed") /\ UNCHANGED version

\* It is found to be failed already.
Leave == Ends /\ version # updating /\ verdict[updating] = "failed" /\ UNCHANGED <<version, verdict>>

\* The new version did not answer; the old one is back, if its files are.
Undo ==
    /\ Ends /\ version # updating
    /\ \E v \in {"rolled_back", "rollback_failed"} : Says(updating, v)
    /\ version' = version \/ (broken > 0 /\ version' = None)

\* A file cannot be put back: the attempt will not be committed.
Break ==
    /\ updating # None /\ version # updating
    /\ broken' = broken + 1
    /\ UNCHANGED <<version, updating, taken, verdict>>

Interrupt ==
    /\ Ends /\ UNCHANGED verdict
    /\ version' \in {version, updating, None}

\* An update that could not be started is failed, whatever became of it.
Overrule(u) ==
    /\ taken' = taken \union {u} /\ Says(u, "failed")
    /\ UNCHANGED <<version, updating, broken>>

Next ==
    \/ \E u \in Update : Begin(u) \/ Overrule(u)
    \/ Proceed \/ Commit \/ Succeed \/ Fail \/ Leave \/ Undo \/ Break \/ Interrupt

Spec == Init /\ [][Next]_vars
=============================================================================
