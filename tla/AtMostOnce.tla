----------------------------- MODULE AtMostOnce -----------------------------
(***************************************************************************)
(* What the command gateway promises the caller of a typed command: a      *)
(* requestId is bound to the first command that uses it, that command is   *)
(* performed at most once whatever the caller resends and whenever the     *)
(* daemon dies, and once a result is recorded it never changes and says    *)
(* truthfully whether the device was touched.                              *)
(***************************************************************************)
EXTENDS Naturals

CONSTANTS RequestId,     \* identities a caller may choose
          Command,       \* records with a field "id" in RequestId
          Receipt,       \* records with a Boolean field "executed"
          NoCommand,
          NoReceipt

VARIABLES phase,         \* RequestId -> "new" | "open" | "done"
          bound,         \* RequestId -> the command the identity stands for
          performed,     \* RequestId -> how often it was performed
          touched,       \* the requests whose performance changed the device
          result         \* RequestId -> the recorded result

vars == <<phase, bound, performed, touched, result>>

Init ==
    /\ phase = [i \in RequestId |-> "new"]
    /\ bound = [i \in RequestId |-> NoCommand]
    /\ performed = [i \in RequestId |-> 0]
    /\ touched = {}
    /\ result = [i \in RequestId |-> NoReceipt]

\* The first use of an identity binds it to a command.
Accept(c) ==
    /\ phase[c.id] = "new"
    /\ phase' = [phase EXCEPT ![c.id] = "open"]
    /\ bound' = [bound EXCEPT ![c.id] = c]
    /\ UNCHANGED <<performed, touched, result>>

\* The command is performed; it may or may not change the device.
Perform(i) ==
    /\ phase[i] = "open"
    /\ performed[i] = 0
    /\ performed' = [performed EXCEPT ![i] = 1]
    /\ touched' \in {touched, touched \union {i}}
    /\ UNCHANGED <<phase, bound, result>>

\* A result is recorded, once; any receipt that tells the truth will do.
Settle(i) ==
    /\ phase[i] = "open"
    /\ phase' = [phase EXCEPT ![i] = "done"]
    /\ result'[i] \in Receipt
    /\ result'[i].executed = (i \in touched)
    /\ result' = [result EXCEPT ![i] = result'[i]]
    /\ UNCHANGED <<bound, performed, touched>>

Next ==
    \/ \E c \in Command : Accept(c)
    \/ \E i \in RequestId : Perform(i) \/ Settle(i)

Spec == Init /\ [][Next]_vars
=============================================================================
