---------------------------- MODULE RemoteAccess ----------------------------
(***************************************************************************)
(* The bounded remote session (remote_access_controller.c), the listener   *)
(* the main loop opens for it on the Tailscale address, and the gate a     *)
(* remote request passes (handle), over the principals and the clock of    *)
(* PrincipalStore.                                                         *)
(*                                                                         *)
(* One thread runs it all: an iteration looks at the session and the       *)
(* listener, serves at most one local and one remote request, and starts   *)
(* again.  Time, the network and the death of the daemon do not wait for   *)
(* it.  The two looks at the top of the loop are one, and so are a         *)
(* configuration and its read-back; a request that is refused before it    *)
(* touches anything is the turn without a request; the device policy that  *)
(* is also asked may refuse anything (PolicyStore).  A client that is      *)
(* silent keeps the thread from all of it.                                 *)
(***************************************************************************)
EXTENDS PrincipalStore

CONSTANTS Address,      \* addresses of the Tailscale range
          MaxSessions,  \* bound on sessions that are started
          MaxMinutes,   \* bound on the duration of one
          MaxMoves,     \* bound on changes of the device's address
          MaxFaults,    \* bound on failing writes, reads and binds
          MaxDeaths     \* bound on deaths of the daemon

ASSUME RemoteAssumption ==
    /\ 0 \notin Address \union Principal
    /\ MaxSessions \in Nat /\ MaxMinutes \in Nat \ {0}
    /\ MaxMoves \in Nat /\ MaxFaults \in Nat /\ MaxDeaths \in Nat

None == [host |-> 0, until |-> 0, id |-> 0]
NoAddress == 0

VARIABLES
    \* the device
    address,    \* the Tailscale address it has, if any
    \* durable
    kept,       \* the session in the state file
    \* the daemon
    live,       \* the session in g_state
    bound,      \* g_state.bind_address
    reported,   \* g_state.listener_active
    socket,     \* the address of remote_listener
    pc,
    ask,        \* the request that was let in: who, for what, in which session
    waiting,    \* main is in recv, read or waitpid until a client or a child answers
    \* observation
    acted,      \* the request that was executed in this iteration
    started,    \* how many sessions were started
    over,       \* the sessions that have ended for good
    moves, faults, deaths

session == <<kept, live, bound, reported>>
count   == <<moves, faults, deaths>>
work    == <<store, time, gone, address, session, socket, pc, ask, acted, started, over, count>>
vars    == <<work, waiting>>

NoAsk == [by |-> 0, cap |-> 0, in |-> 0]
Local == 0      \* the session of a request on the loopback listener

Init ==
    /\ PrincipalInit
    /\ address \in Address \union {NoAddress}
    /\ kept = None /\ live = None
    /\ bound = address /\ reported = FALSE
    /\ socket = NoAddress
    /\ pc = "loop" /\ ask = NoAsk /\ waiting = FALSE
    /\ acted = NoAsk /\ started = 0 /\ over = {}
    /\ moves = 0 /\ faults = 0 /\ deaths = 0

\* One of persist_state, the principal store and create_ipv4_listener fails, or
\* several at once.
Fault == faults < MaxFaults /\ faults' = faults + 1
-----------------------------------------------------------------------------
(* normalize_runtime_state, called with s in memory                        *)

Lapsed(s) == s # None /\ (s.until <= clock \/ ~ActiveHost(s.host))

\* Mutation: the address is looked up only while none is known.
LookUpOnce == bound' = IF bound # NoAddress THEN bound ELSE address

\* tailnet_ipv4
LookUp == bound' = address

\* No session is left in memory and in the file.
Close ==
    /\ live' = None /\ kept' = None
    /\ over' = over \union ({live.id, kept.id} \ {None.id})

Normalize(s) ==
    /\ LookUp
    /\ \/ /\ ~Lapsed(s)
          /\ live' = s
          /\ UNCHANGED <<kept, over, faults>>
       \/ /\ Lapsed(s)
          /\ Close
          /\ UNCHANGED faults
       \* a principal store that cannot be read knows no active host
       \/ /\ s # None /\ ~Lapsed(s)
          /\ Close
          /\ Fault
       \* either way, the result of persist_state is not looked at
       \/ /\ s # None
          /\ live' = None
          /\ Fault
          /\ UNCHANGED <<kept, over>>
-----------------------------------------------------------------------------
(* The top of the loop of main                                             *)

\* The address the listener should have.
Called(s) == IF s = None THEN NoAddress ELSE bound'

\* Mutation: closing the listener is not reported.
ListenSilently ==
    /\ socket' = Called(live')
    /\ reported' = (reported \/ (socket' # socket /\ socket' # NoAddress))

\* The listener is closed, opened, or closed and opened elsewhere.
Listen ==
    /\ socket' = Called(live')
    /\ reported' = IF socket' = socket THEN reported ELSE socket' # NoAddress

\* create_ipv4_listener fails after the old listener is closed.
ListenFails ==
    /\ Called(live') \notin {socket, NoAddress}
    /\ socket' = NoAddress
    /\ reported' = FALSE

Loop ==
    /\ pc = "loop"
    /\ pc' = "local"
    /\ Normalize(live)
    /\ Listen
    /\ acted' = NoAsk
    /\ UNCHANGED <<store, time, gone, address, ask, started, moves, deaths>>

LoopBindFails ==
    /\ pc = "loop"
    /\ pc' = "local"
    /\ ~Lapsed(live) /\ live' = live /\ LookUp
    /\ ListenFails
    /\ Fault
    /\ acted' = NoAsk
    /\ UNCHANGED <<store, time, gone, address, kept, over, ask, started, moves, deaths>>
-----------------------------------------------------------------------------
(* A local request of the owner                                            *)

Served == pc = "local" /\ pc' = "remote"

Manage ==
    /\ Served
    /\ \E p \in Principal :
          \/ Create(p) \/ Revoke(p)
          \/ \E c \in Capability :
                \/ Ungrant(p, c)
                \/ \E until \in Expiry : Grant(p, c, until)
    \* a session of a revoked principal has ended
    /\ over' = over \union {s.id : s \in {t \in {live, kept} : t # None /\ t.host \in gone'}}
    /\ UNCHANGED <<time, address, session, socket, ask, acted, started, count>>

\* rt_remote_access_configure, enabled: the listener is not looked at.
Started(p, minutes) ==
    /\ Served
    /\ ActiveHost(p)
    /\ address # NoAddress
    /\ LookUp
    /\ reported' = FALSE
    /\ UNCHANGED <<store, time, gone, address, socket, ask, acted, moves, deaths>>

Start(p, minutes) ==
    /\ Started(p, minutes)
    /\ started < MaxSessions
    /\ started' = started + 1
    /\ live' = [host |-> p, until |-> clock + minutes, id |-> started']
    /\ kept' = live'
    /\ over' = over \union ({live.id, kept.id} \ {None.id})
    /\ UNCHANGED faults

\* The file keeps the session it had.
StartFails(p, minutes) ==
    /\ Started(p, minutes)
    /\ live' = None
    /\ Fault
    /\ UNCHANGED <<kept, over, started>>

\* Mutation: only the session in memory is stopped.
StopInMemory ==
    /\ Served
    /\ live' = None
    /\ over' = over \union ({live.id, kept.id} \ {None.id})
    /\ LookUp
    /\ reported' = FALSE
    /\ UNCHANGED <<store, time, gone, kept, address, socket, ask, acted, started, count>>

\* rt_remote_access_configure, disabled.
Stop ==
    /\ Served
    /\ Close
    /\ LookUp
    /\ reported' = FALSE
    /\ UNCHANGED <<store, time, gone, address, socket, ask, acted, started, count>>

\* Answered with a failure: the next daemon takes the session up again.
StopFails ==
    /\ Served
    /\ live' = None
    /\ LookUp
    /\ reported' = FALSE
    /\ Fault
    /\ UNCHANGED <<store, time, gone, kept, over, address, socket, ask, acted, started, moves, deaths>>

\* GET /v1/remote-access of the owner: rt_remote_access_snapshot looks again.
Observe ==
    /\ Served
    /\ Normalize(live)
    /\ UNCHANGED <<store, time, gone, address, reported, socket, ask, acted, started, moves, deaths>>

\* Nobody connects within a second, or the request touches nothing.
NoRequest ==
    /\ \/ Served
       \/ pc = "remote" /\ pc' = "loop"
    /\ UNCHANGED <<store, time, gone, address, session, socket, ask, acted, started, over, count>>
-----------------------------------------------------------------------------
(* A request of a principal, local or remote                               *)

LocalRequest(p, c) ==
    /\ pc = "local"
    /\ Active(p)
    /\ pc' = "authorize"
    /\ ask' = [by |-> p, cap |-> c, in |-> Local]
    /\ UNCHANGED <<store, time, gone, address, session, socket, acted, started, over, count>>

\* handle with remote_ingress: the owner's and the agent's token are refused,
\* a principal's passes if the session, looked at again, is its own.
RemoteRequest(p, c) ==
    /\ pc = "remote"
    /\ socket # NoAddress
    /\ Active(p)
    /\ Normalize(live)
    /\ IF live' # None /\ live'.host = p
       THEN pc' = "authorize" /\ ask' = [by |-> p, cap |-> c, in |-> live'.id]
       ELSE pc' = "loop" /\ UNCHANGED ask
    /\ UNCHANGED <<store, time, gone, address, reported, socket, acted, started, moves, deaths>>

\* principal_grant_allows, asked when the request is about to be executed; one that
\* is executed may be GET /v1/remote-access.
Authorize ==
    /\ pc = "authorize"
    /\ pc' = IF ask.in = Local THEN "remote" ELSE "loop"
    /\ ask' = NoAsk
    /\ \/ Allowed(ask.by, ask.cap) /\ acted' = ask /\ Normalize(live)
       \/ Allowed(ask.by, ask.cap) /\ acted' = ask /\ UNCHANGED <<kept, live, bound, over, faults>>
       \/ UNCHANGED <<acted, kept, live, bound, over, faults>>
    /\ UNCHANGED <<store, time, gone, address, reported, socket, started, moves, deaths>>
-----------------------------------------------------------------------------
(* What does not wait for the daemon                                       *)

TimePasses ==
    /\ Tick \/ SetBack
    /\ UNCHANGED <<store, gone, address, session, socket, pc, ask, acted, started, over, count>>

Move ==
    /\ moves < MaxMoves
    /\ moves' = moves + 1
    /\ address' \in (Address \union {NoAddress}) \ {address}
    /\ UNCHANGED <<store, time, gone, session, socket, pc, ask, acted, started, over, faults, deaths>>

\* The daemon dies anywhere; rt_remote_access_init of the next one reads the
\* file and looks at the session in it.
Restart ==
    /\ deaths < MaxDeaths
    /\ deaths' = deaths + 1
    /\ Normalize(kept)
    /\ reported' = FALSE
    /\ socket' = NoAddress
    /\ pc' = "loop" /\ ask' = NoAsk /\ acted' = NoAsk
    /\ UNCHANGED <<store, time, gone, address, started, moves>>

Turn ==
    \/ Loop \/ LoopBindFails
    \/ Manage \/ Stop \/ StopFails \/ Observe
    \/ \E p \in Host, minutes \in 1..MaxMinutes : Start(p, minutes) \/ StartFails(p, minutes)
    \/ \E p \in Principal, c \in Capability : LocalRequest(p, c) \/ RemoteRequest(p, c)
    \/ NoRequest
    \/ Authorize

\* Nothing bounds some of the thread's waits: read_request waits for a client of
\* either listener that connected and is silent, whoever it is, executors and the
\* ticks at the end of an iteration for uiopen, launchctl and ioreg.  The thread's
\* next step, if there is one, ends the wait.
Wait ==
    /\ ~waiting
    /\ waiting' = TRUE
    /\ UNCHANGED work

Next ==
    \/ (Turn \/ Restart) /\ waiting' = FALSE
    \/ Wait
    \/ (TimePasses \/ Move) /\ UNCHANGED waiting

\* Unless it waits, the loop turns: select waits for at most a second.  That a wait
\* ends is not assumed.
Spec == Init /\ [][Next]_vars /\ WF_vars(~waiting /\ Turn /\ waiting' = FALSE)
-----------------------------------------------------------------------------
(* Every column, file and local has its type, and no row grants what is    *)
(* not grantable.                                                          *)
TypeOK ==
    /\ PrincipalTypeOK
    /\ address \in Address \union {NoAddress} /\ bound \in Address \union {NoAddress}
    /\ socket \in Address \union {NoAddress}
    /\ {live, kept} \subseteq
         {None} \union [host : Host, until : 2..(MaxClock + MaxMinutes), id : 1..MaxSessions]
    /\ reported \in BOOLEAN
    /\ pc \in {"loop", "local", "remote", "authorize"}
    /\ {ask, acted} \subseteq
         {NoAsk} \union [by : Principal, cap : Capability, in : {Local} \union 1..MaxSessions]
    /\ waiting \in BOOLEAN
    /\ started \in 0..MaxSessions
    /\ over \subseteq 1..MaxSessions
    /\ moves \in 0..MaxMoves /\ faults \in 0..MaxFaults /\ deaths \in 0..MaxDeaths

(* What is over stays over: once a session was stopped or replaced with    *)
(* success, its host was revoked, or its expiry was seen and written, no   *)
(* request is executed in it again, whatever dies, is set back or was let  *)
(* in before; and none is let in when the time is up, seen or not          *)
(* (docs/architecture/remote-access.md, Session lifecycle).                *)
EndedStaysEnded ==
    [][/\ acted' # acted /\ acted'.in # Local => acted'.in \notin over
       /\ ask' # ask /\ ask'.in # Local => clock < live'.until]_vars

(* A principal whose revocation was answered never acts again, although    *)
(* its grants stay in the table (rt_principal_revoke).                     *)
RevokedNeverActs ==
    [][acted' # acted => acted'.by \notin gone]_vars

(* What GET /v1/remote-access says of the listener is not more than there  *)
(* is, and while requests are served the listener is the one the session   *)
(* and the address of that iteration call for.                             *)
ListenerTellsTruth ==
    /\ reported => socket # NoAddress
    /\ pc = "local" /\ socket # NoAddress => live # None /\ socket = bound

(* The listener follows the session: time and again it is open exactly on  *)
(* the device's address while a session lasts, and closed otherwise.       *)
(* Holds of a thread that does not wait for one client or child for good:  *)
(* one that does leaves the listener as it is, past the session's end.     *)
ListenerFollows ==
    []<>~waiting => []<>(socket = IF live = None \/ Lapsed(live) THEN NoAddress ELSE address)
=============================================================================
