--------------------------- MODULE PrincipalStore ---------------------------
(***************************************************************************)
(* Named command principals and their capability grants                    *)
(* (principal_store.c), the executors through which the owner manages them *)
(* and the wall clock that every expiry is compared with.                  *)
(*                                                                         *)
(* Each operation is one SQLite statement, so it happens or it does not;   *)
(* the store survives the death of the daemon.  A refused or failed        *)
(* operation changes nothing and is not shown.  A principal and its token  *)
(* are one: tokens are random, unique and never given out again, and of    *)
(* kinds the code only asks whether one is "host".                         *)
(***************************************************************************)
EXTENDS Integers

CONSTANTS Host,         \* principals of kind host
          Other,        \* principals of the other kinds
          Capability,
          Grantable,    \* the compiled R0 and R1 ones
          Expiry,       \* the expiries grants are given with
          MaxClock,     \* bound on time
          MaxSetBacks   \* bound on how often the clock is set back

Principal == Host \union Other

ASSUME PrincipalAssumption ==
    /\ Host \intersect Other = {}
    /\ Grantable \subseteq Capability
    /\ MaxClock \in Nat \ {0} /\ MaxSetBacks \in Nat
    /\ Expiry \subseteq Nat

VARIABLES
    principal,  \* id -> "absent", "active" or "revoked"
    grant,      \* id -> capability -> the expiry of its row
    clock,      \* time(NULL)
    setBacks,
    gone        \* observation: the principals whose revocation was answered

store == <<principal, grant>>
time  == <<clock, setBacks>>

NoGrant == -1   \* no row
Forever == 0    \* a row whose expires_at is NULL

PrincipalInit ==
    /\ principal = [p \in Principal |-> "absent"]
    /\ grant = [p \in Principal |-> [c \in Capability |-> NoGrant]]
    /\ clock = 1 /\ setBacks = 0
    /\ gone = {}

\* principal_active, rt_principal_authenticate of p's token.
Active(p) == p \in Principal /\ principal[p] = "active"

\* rt_principal_active_kind
ActiveHost(p) == Active(p) /\ p \in Host

\* rt_principal_capability_allowed
Allowed(p, c) ==
    /\ Active(p)
    /\ grant[p][c] = Forever \/ grant[p][c] > clock

\* Mutation: the id of a revoked principal can be used again.
CreateAgain(p) ==
    /\ principal[p] # "active"
    /\ principal' = [principal EXCEPT ![p] = "active"]
    /\ UNCHANGED <<grant, gone>>

\* rt_principal_create: the primary key keeps revoked ids too.
Create(p) ==
    /\ principal[p] = "absent"
    /\ principal' = [principal EXCEPT ![p] = "active"]
    /\ UNCHANGED <<grant, gone>>

\* rt_principal_revoke leaves the grants where they are.
Revoke(p) ==
    /\ Active(p)
    /\ principal' = [principal EXCEPT ![p] = "revoked"]
    /\ gone' = gone \union {p}
    /\ UNCHANGED grant

\* Mutation: nobody looks whether there is such a principal.
GrantToNobody(p, c, until) ==
    /\ c \in Grantable
    /\ until = Forever \/ until > clock
    /\ grant' = [grant EXCEPT ![p][c] = until]
    /\ UNCHANGED <<principal, gone>>

\* execute_principal_grant and rt_principal_grant: a second grant replaces
\* the expiry of the first.
Grant(p, c, until) ==
    /\ c \in Grantable
    /\ until = Forever \/ until > clock
    /\ Active(p)
    /\ grant' = [grant EXCEPT ![p][c] = until]
    /\ UNCHANGED <<principal, gone>>

\* rt_principal_ungrant
Ungrant(p, c) ==
    /\ grant[p][c] # NoGrant
    /\ grant' = [grant EXCEPT ![p][c] = NoGrant]
    /\ UNCHANGED <<principal, gone>>

\* Time passes; the device's clock is set by hand or by the network.
Tick ==
    /\ clock < MaxClock
    /\ clock' = clock + 1
    /\ UNCHANGED setBacks

SetBack ==
    /\ setBacks < MaxSetBacks
    /\ clock' \in 1..(clock - 1)
    /\ setBacks' = setBacks + 1

PrincipalTypeOK ==
    /\ principal \in [Principal -> {"absent", "active", "revoked"}]
    /\ grant \in [Principal -> [Capability -> {NoGrant} \union Expiry]]
    /\ \A p \in Principal, c \in Capability :
          grant[p][c] # NoGrant => c \in Grantable /\ principal[p] # "absent"
    /\ clock \in 1..MaxClock
    /\ setBacks \in 0..MaxSetBacks
    /\ gone \subseteq Principal
=============================================================================
