------------------------- MODULE RemoteAccessProofs -------------------------
(***************************************************************************)
(* Theorems about RemoteAccess, for every value of its constants.          *)
(***************************************************************************)
EXTENDS RemoteAccess, TLAPS

Session == [host : Host, until : 2..(MaxClock + MaxMinutes), id : 1..MaxSessions]
Request == [by : Principal, cap : Capability, in : {Local} \union 1..MaxSessions]

\* TypeOK, by parts.
DeviceType ==
    /\ PrincipalTypeOK
    /\ address \in Address \union {NoAddress}
    /\ bound \in Address \union {NoAddress}
    /\ socket \in Address \union {NoAddress}
SessionType ==
    /\ live \in {None} \union Session
    /\ kept \in {None} \union Session
    /\ started \in 0..MaxSessions
    /\ over \subseteq 1..MaxSessions
RequestType ==
    /\ reported \in BOOLEAN
    /\ pc \in {"loop", "local", "remote", "authorize"}
    /\ ask \in {NoAsk} \union Request
    /\ acted \in {NoAsk} \union Request
CountType == moves \in 0..MaxMoves /\ faults \in 0..MaxFaults /\ deaths \in 0..MaxDeaths

\* Ids are given out in order.
OrderInv == over \subseteq 1..started /\ live.id <= started /\ kept.id <= started

\* The daemon never holds another session than the file.
HeldInv == live \in {None, kept}

\* Whose revocation was answered is revoked for good.
GoneInv == \A p \in gone : principal[p] = "revoked"

\* A session that is over and still held is one of a revoked host.
OverInv == \A s \in {live, kept} : s # None /\ s.id \in over => principal[s.host] = "revoked"

\* A request that was let in was let in into a session that lasts.
AskInv == pc = "authorize" /\ ask.in # Local => ask.in \notin over

Types == DeviceType /\ SessionType /\ RequestType /\ CountType
IInv ==
    /\ Types /\ OrderInv /\ HeldInv /\ GoneInv /\ OverInv /\ AskInv
    /\ ListenerTellsTruth

USE PrincipalAssumption, RemoteAssumption DEF PrincipalAssumption, RemoteAssumption

\* The parts are the whole of TypeOK.
LEMMA TypesByParts == Types /\ waiting \in BOOLEAN <=> TypeOK
BY DEF Types, TypeOK, DeviceType, SessionType, RequestType, CountType, Session, Request

\* The initial states satisfy the invariant.
LEMMA InitIInv == Init => IInv
<1> SUFFICES ASSUME Init PROVE IInv
  OBVIOUS
<1> USE DEF Init, PrincipalInit, None, NoAsk, NoAddress, Local, NoGrant
<1>1. DeviceType
  <2>1. principal \in [Principal -> {"absent", "active", "revoked"}]
    OBVIOUS
  <2>2. grant \in [Principal -> [Capability -> {NoGrant} \union Expiry]]
    OBVIOUS
  <2> QED BY <2>1, <2>2 DEF DeviceType, PrincipalTypeOK
<1>2. SessionType
  BY DEF SessionType
<1>3. RequestType
  BY DEF RequestType
<1>4. CountType
  BY DEF CountType
<1>5. OrderInv /\ HeldInv /\ GoneInv /\ OverInv /\ AskInv /\ ListenerTellsTruth
  BY DEF OrderInv, HeldInv, GoneInv, OverInv, AskInv, ListenerTellsTruth
<1> QED BY <1>1, <1>2, <1>3, <1>4, <1>5 DEF IInv, Types
-----------------------------------------------------------------------------
\* A wait changes nothing but waiting, so that every step is one of these or
\* leaves the rest alone.
Moves == Turn \/ Restart \/ TimePasses \/ Move
LEMMA NextMoves == [Next]_vars => [Moves]_work
BY DEF Next, Wait, Moves, work, vars

USE DEF store, time, session, count, Fault, LookUp

\* What the owner does to the store keeps its type, and revocation lasts.
LEMMA ManageKeeps ==
    ASSUME PrincipalTypeOK, GoneInv, Manage
    PROVE  /\ PrincipalTypeOK' /\ GoneInv'
           /\ \A p \in Principal : principal[p] = "revoked" => principal'[p] = "revoked"
<1> USE DEF PrincipalTypeOK, GoneInv, Active
<1>0. UNCHANGED <<clock, setBacks>>
  BY DEF Manage
<1>1. ASSUME NEW p \in Principal, Create(p)
      PROVE  /\ PrincipalTypeOK' /\ GoneInv'
             /\ \A q \in Principal : principal[q] = "revoked" => principal'[q] = "revoked"
  BY <1>0, <1>1 DEF Create
<1>2. ASSUME NEW p \in Principal, Revoke(p)
      PROVE  /\ PrincipalTypeOK' /\ GoneInv'
             /\ \A q \in Principal : principal[q] = "revoked" => principal'[q] = "revoked"
  BY <1>0, <1>2 DEF Revoke
<1>3. ASSUME NEW p \in Principal, NEW c \in Capability, Ungrant(p, c)
      PROVE  /\ PrincipalTypeOK' /\ GoneInv'
             /\ \A q \in Principal : principal[q] = "revoked" => principal'[q] = "revoked"
  BY <1>0, <1>3 DEF Ungrant
<1>4. ASSUME NEW p \in Principal, NEW c \in Capability, NEW until \in Expiry, Grant(p, c, until)
      PROVE  /\ PrincipalTypeOK' /\ GoneInv'
             /\ \A q \in Principal : principal[q] = "revoked" => principal'[q] = "revoked"
  BY <1>0, <1>4 DEF Grant
<1> QED BY <1>1, <1>2, <1>3, <1>4 DEF Manage

\* The ids of the sessions held are in range.
LEMMA Ids == ASSUME SessionType PROVE live.id \in 0..MaxSessions /\ kept.id \in 0..MaxSessions
<1>1. \A t \in {None} \union Session : t.id \in 0..MaxSessions
  BY DEF None, Session
<1> QED BY <1>1 DEF SessionType

\* The sessions that end were started.
LEMMA Ending ==
    ASSUME SessionType, OrderInv
    PROVE  /\ over \union ({live.id, kept.id} \ {None.id}) \subseteq 1..started
           /\ over \union ({live.id, kept.id} \ {None.id}) \subseteq 1..MaxSessions
<1>1. None.id = 0
  BY DEF None
<1>2. {live.id, kept.id} \ {None.id} \subseteq 1..started
  BY <1>1, Ids DEF SessionType, OrderInv
<1>3. {live.id, kept.id} \ {None.id} \subseteq 1..MaxSessions
  BY <1>1, Ids
<1> QED BY <1>2, <1>3 DEF SessionType, OrderInv

\* A look at the session keeps it, or leaves none; one that is left lasts.
LEMMA NormalizeKeeps ==
    ASSUME IInv, NEW s \in {live, kept}, Normalize(s), UNCHANGED <<store, gone, started>>
    PROVE  /\ bound' \in Address \union {NoAddress}
           /\ SessionType' /\ faults' \in 0..MaxFaults
           /\ OrderInv' /\ HeldInv' /\ OverInv'
           /\ live' # None => live' = s /\ ~Lapsed(s) /\ over' = over
<1> USE DEF IInv, Types, DeviceType, SessionType, CountType, OrderInv, HeldInv, OverInv
<1>1. bound' = address
  BY DEF Normalize
<1>2. CASE ~Lapsed(s) /\ live' = s /\ UNCHANGED <<kept, over, faults>>
  BY <1>1, <1>2
<1>3. CASE Close /\ (UNCHANGED faults \/ Fault)
  <2>1. live' = None /\ kept' = None
    BY <1>3 DEF Close
  <2>2. over' \subseteq 1..started /\ over' \subseteq 1..MaxSessions
    BY <1>3, Ending DEF Close
  <2>3. faults' \in 0..MaxFaults
    BY <1>3
  <2> QED BY <1>1, <2>1, <2>2, <2>3 DEF None
<1>4. CASE live' = None /\ Fault /\ UNCHANGED <<kept, over>>
  <2>1. faults' \in 0..MaxFaults
    BY <1>4
  <2> QED BY <1>1, <1>4, <2>1 DEF None
<1> QED BY <1>2, <1>3, <1>4 DEF Normalize
-----------------------------------------------------------------------------
\* Nothing the invariant is about has changed, except what is named.
Rest == <<store, time, gone, address>>

\* The top of the loop keeps the invariant.
LEMMA LoopKeeps == ASSUME IInv, Loop PROVE IInv'
<1>1. pc' = "local" /\ Normalize(live) /\ Listen /\ acted' = NoAsk /\ UNCHANGED <<Rest, ask, started, moves, deaths>>
  BY DEF Loop, Rest
<1>2. /\ bound' \in Address \union {NoAddress}
      /\ SessionType' /\ CountType' /\ OrderInv' /\ HeldInv' /\ OverInv'
  BY <1>1, NormalizeKeeps DEF Rest, IInv, Types, CountType
<1>3. socket' = IF live' = None THEN NoAddress ELSE bound'
  BY <1>1 DEF Listen, Called
<1>4. DeviceType'
  BY <1>1, <1>2, <1>3 DEF IInv, Types, DeviceType, PrincipalTypeOK, Rest
<1>5. RequestType'
  BY <1>1 DEF IInv, Types, RequestType, Listen
<1>6. GoneInv' /\ AskInv'
  BY <1>1 DEF IInv, GoneInv, AskInv, Rest
<1>7. ListenerTellsTruth'
  BY <1>1, <1>3 DEF IInv, ListenerTellsTruth, Listen
<1> QED BY <1>2, <1>4, <1>5, <1>6, <1>7 DEF IInv, Types

\* So it does when the listener cannot be bound.
LEMMA LoopBindFailsKeeps == ASSUME IInv, LoopBindFails PROVE IInv'
<1> USE DEF IInv, LoopBindFails, ListenFails
<1>1. DeviceType'
  BY DEF Types, DeviceType, PrincipalTypeOK
<1>2. SessionType' /\ RequestType'
  BY DEF Types, SessionType, RequestType
<1>3. CountType'
  BY DEF Types, CountType
<1>4. OrderInv' /\ HeldInv' /\ GoneInv' /\ OverInv'
  BY DEF OrderInv, HeldInv, GoneInv, OverInv
<1>5. AskInv' /\ ListenerTellsTruth'
  BY DEF AskInv, ListenerTellsTruth
<1> QED BY <1>1, <1>2, <1>3, <1>4, <1>5 DEF Types

\* What the owner does to principals keeps the invariant.
LEMMA ManageKeepsIInv == ASSUME IInv, Manage PROVE IInv'
<1> USE DEF IInv, Types
<1>1. /\ pc = "local" /\ pc' = "remote"
      /\ over' = over \union {s.id : s \in {t \in {live, kept} : t # None /\ t.host \in gone'}}
      /\ UNCHANGED <<time, address, session, socket, ask, acted, started, count>>
  BY DEF Manage, Served
<1>2. /\ PrincipalTypeOK' /\ GoneInv'
      /\ \A p \in Principal : principal[p] = "revoked" => principal'[p] = "revoked"
  BY ManageKeeps DEF DeviceType
<1>3. DeviceType' /\ RequestType' /\ CountType'
  BY <1>1, <1>2 DEF DeviceType, RequestType, CountType
<1>4. {s.id : s \in {t \in {live, kept} : t # None /\ t.host \in gone'}} \subseteq {live.id, kept.id} \ {None.id}
  <2>1. \A t \in Session : t.id # None.id
    BY DEF Session, None
  <2> QED BY <2>1 DEF SessionType
<1>5. over' \subseteq 1..started /\ over' \subseteq 1..MaxSessions
  BY <1>1, <1>4, Ending
<1>6. SessionType' /\ OrderInv' /\ HeldInv'
  BY <1>1, <1>5 DEF SessionType, OrderInv, HeldInv
<1>7. OverInv'
  <2> SUFFICES ASSUME NEW s \in {live, kept}, s # None, s.id \in over'
               PROVE  principal'[s.host] = "revoked"
    BY <1>1 DEF OverInv
  <2>1. s \in Session /\ s.host \in Principal
    BY DEF SessionType, Session, Principal
  <2>2. CASE s.id \in over
    BY <1>2, <2>1, <2>2 DEF OverInv
  <2>3. CASE s.id \notin over
    <3>1. PICK t \in {live, kept} : t # None /\ t.host \in gone' /\ t.id = s.id
      BY <1>1, <2>3
    <3>2. t = s
      BY <3>1 DEF HeldInv
    <3> QED BY <3>1, <3>2, <1>2 DEF GoneInv
  <2> QED BY <2>2, <2>3
<1>8. AskInv' /\ ListenerTellsTruth'
  BY <1>1 DEF AskInv, ListenerTellsTruth
<1> QED BY <1>2, <1>3, <1>6, <1>7, <1>8

\* Starting and stopping
LEMMA ConfigureKeeps ==
    ASSUME IInv,
           \/ \E p \in Host, minutes \in 1..MaxMinutes : Start(p, minutes) \/ StartFails(p, minutes)
           \/ Stop \/ StopFails
    PROVE  IInv'
<1> USE DEF IInv, Types
<1>1. /\ pc = "local" /\ pc' = "remote" /\ bound' = address /\ reported' = FALSE
      /\ UNCHANGED <<store, time, gone, address, socket, ask, acted>>
  BY DEF Start, StartFails, Stop, StopFails, Started, Served
<1>2. DeviceType' /\ GoneInv' /\ AskInv' /\ ListenerTellsTruth'
  BY <1>1 DEF DeviceType, PrincipalTypeOK, GoneInv, AskInv, ListenerTellsTruth
<1>3. RequestType'
  BY <1>1 DEF RequestType
<1>4. ASSUME NEW p \in Host, NEW minutes \in 1..MaxMinutes, Start(p, minutes)
      PROVE  SessionType' /\ CountType' /\ OrderInv' /\ HeldInv' /\ OverInv'
  <2> DEFINE new == [host |-> p, until |-> clock + minutes, id |-> started + 1]
  <2>1. /\ started < MaxSessions /\ started' = started + 1
        /\ live' = new /\ kept' = new
        /\ over' = over \union ({live.id, kept.id} \ {None.id})
        /\ UNCHANGED count
    BY <1>4 DEF Start, Started
  <2>2. new \in Session
    BY <2>1 DEF Session, SessionType, DeviceType, PrincipalTypeOK
  <2>3. over' \subseteq 1..started /\ over' \subseteq 1..MaxSessions
    BY <2>1, Ending
  <2>4. new.id \notin over' /\ new.id = started + 1
    BY <2>3 DEF SessionType
  <2>5. started' \in 0..MaxSessions /\ over' \subseteq 1..started'
    BY <2>1, <2>3 DEF SessionType
  <2>6. SessionType' /\ CountType'
    BY <2>1, <2>2, <2>3, <2>5 DEF SessionType, CountType
  <2> HIDE DEF new
  <2>7. OrderInv' /\ HeldInv' /\ OverInv'
    <3>1. started \in Int
      BY DEF SessionType
    <3> QED BY <2>1, <2>4, <2>5, <3>1 DEF OrderInv, HeldInv, OverInv
  <2> QED BY <2>6, <2>7
<1>5. ASSUME NEW p \in Host, NEW minutes \in 1..MaxMinutes, StartFails(p, minutes)
      PROVE  SessionType' /\ CountType' /\ OrderInv' /\ HeldInv' /\ OverInv'
  <2>1. live' = None /\ Fault /\ UNCHANGED <<store, kept, over, started, moves, deaths>>
    BY <1>5 DEF StartFails, Started
  <2>2. SessionType' /\ CountType'
    BY <2>1 DEF SessionType, CountType
  <2>3. OrderInv' /\ HeldInv' /\ OverInv'
    BY <2>1 DEF OrderInv, HeldInv, OverInv, SessionType, None
  <2> QED BY <2>2, <2>3
<1>6. ASSUME Stop
      PROVE  SessionType' /\ CountType' /\ OrderInv' /\ HeldInv' /\ OverInv'
  <2>1. live' = None /\ kept' = None /\ UNCHANGED <<started, count>>
    BY <1>6 DEF Stop, Close
  <2>2. over' \subseteq 1..started /\ over' \subseteq 1..MaxSessions
    BY <1>6, Ending DEF Stop, Close
  <2>3. SessionType' /\ CountType'
    BY <2>1, <2>2 DEF SessionType, CountType
  <2>4. OrderInv' /\ HeldInv' /\ OverInv'
    BY <2>1, <2>2 DEF OrderInv, HeldInv, OverInv, SessionType, None
  <2> QED BY <2>3, <2>4
<1>7. ASSUME StopFails
      PROVE  SessionType' /\ CountType' /\ OrderInv' /\ HeldInv' /\ OverInv'
  <2>1. live' = None /\ Fault /\ UNCHANGED <<store, kept, over, started, moves, deaths>>
    BY <1>7 DEF StopFails
  <2>2. SessionType' /\ CountType'
    BY <2>1 DEF SessionType, CountType
  <2>3. OrderInv' /\ HeldInv' /\ OverInv'
    BY <2>1 DEF OrderInv, HeldInv, OverInv, SessionType, None
  <2> QED BY <2>2, <2>3
<1> QED BY <1>2, <1>3, <1>4, <1>5, <1>6, <1>7

\* A session that lasts and is of an active host is not over.
LEMMA NotOver == ASSUME IInv, live # None, ~Lapsed(live) PROVE live.id \notin over
BY DEF IInv, OverInv, Lapsed, ActiveHost, Active

\* Letting a request in keeps the invariant.
LEMMA RequestKeeps ==
    ASSUME IInv,
           NEW p \in Principal, NEW c \in Capability,
           LocalRequest(p, c) \/ RemoteRequest(p, c)
    PROVE  IInv'
<1> USE DEF IInv, Types
<1>1. CASE LocalRequest(p, c)
  <2> USE DEF LocalRequest
  <2>1. ask' \in Request
    BY <1>1 DEF Request
  <2>2. DeviceType' /\ SessionType' /\ CountType'
    BY <1>1 DEF DeviceType, PrincipalTypeOK, SessionType, CountType
  <2>3. RequestType'
    BY <1>1, <2>1 DEF RequestType
  <2>4. OrderInv' /\ HeldInv' /\ GoneInv' /\ OverInv'
    BY <1>1 DEF OrderInv, HeldInv, GoneInv, OverInv
  <2>5. AskInv' /\ ListenerTellsTruth'
    BY <1>1 DEF AskInv, ListenerTellsTruth
  <2> QED BY <2>2, <2>3, <2>4, <2>5
<1>2. CASE RemoteRequest(p, c)
  <2>1. /\ Normalize(live) /\ pc' \in {"loop", "authorize"}
        /\ UNCHANGED <<store, time, gone, address, reported, socket, acted, started, moves, deaths>>
    BY <1>2 DEF RemoteRequest
  <2>2. /\ bound' \in Address \union {NoAddress}
        /\ SessionType' /\ CountType' /\ OrderInv' /\ HeldInv' /\ OverInv'
        /\ live' # None => live' = live /\ ~Lapsed(live) /\ over' = over
    BY <2>1, NormalizeKeeps DEF CountType
  <2>3. DeviceType' /\ GoneInv'
    BY <2>1, <2>2 DEF DeviceType, PrincipalTypeOK, GoneInv
  <2>4. CASE pc' = "authorize"
    <3>1. live' # None /\ ask' = [by |-> p, cap |-> c, in |-> live'.id]
      BY <1>2, <2>4 DEF RemoteRequest
    <3>2. live'.id \in 1..MaxSessions
      BY <2>2, <3>1 DEF SessionType, Session
    <3>3. ask' \in Request
      BY <3>1, <3>2 DEF Request
    <3>4. live'.id \notin over'
      BY <2>2, <3>1, NotOver
    <3>5. RequestType'
      BY <2>1, <2>4, <3>3 DEF RequestType
    <3> QED BY <2>1, <2>2, <2>3, <2>4, <3>1, <3>4, <3>5 DEF AskInv, ListenerTellsTruth
  <2>5. CASE pc' = "loop"
    <3>1. UNCHANGED ask
      BY <1>2, <2>5 DEF RemoteRequest
    <3>2. RequestType'
      BY <2>1, <2>5, <3>1 DEF RequestType
    <3> QED BY <2>1, <2>2, <2>3, <2>5, <3>2 DEF AskInv, ListenerTellsTruth
  <2> QED BY <2>1, <2>4, <2>5
<1> QED BY <1>1, <1>2

\* A look at the session in the middle of an iteration keeps the invariant.
LEMMA ObserveKeeps == ASSUME IInv, Observe PROVE IInv'
<1> USE DEF IInv, Types
<1>1. /\ pc' = "remote" /\ Normalize(live)
      /\ UNCHANGED <<store, time, gone, address, reported, socket, ask, acted, started, moves, deaths>>
  BY DEF Observe, Served
<1>2. /\ bound' \in Address \union {NoAddress}
      /\ SessionType' /\ CountType' /\ OrderInv' /\ HeldInv' /\ OverInv'
  BY <1>1, NormalizeKeeps DEF CountType
<1>3. DeviceType' /\ RequestType'
  BY <1>1, <1>2 DEF DeviceType, PrincipalTypeOK, RequestType
<1>4. GoneInv' /\ AskInv' /\ ListenerTellsTruth'
  BY <1>1 DEF GoneInv, AskInv, ListenerTellsTruth
<1> QED BY <1>2, <1>3, <1>4

\* So does the request that is executed, whether it looks or not.
LEMMA AuthorizeKeeps == ASSUME IInv, Authorize PROVE IInv'
<1> USE DEF IInv, Types
<1>1. /\ pc' \in {"loop", "remote"} /\ ask' = NoAsk /\ acted' \in {ask, acted}
      /\ Normalize(live) \/ UNCHANGED <<kept, live, bound, over, faults>>
      /\ UNCHANGED <<store, time, gone, address, reported, socket, started, moves, deaths>>
  BY DEF Authorize
<1>2. /\ bound' \in Address \union {NoAddress}
      /\ SessionType' /\ CountType' /\ OrderInv' /\ HeldInv' /\ OverInv'
  <2>1. CASE Normalize(live)
    BY <1>1, <2>1, NormalizeKeeps DEF CountType
  <2>2. CASE UNCHANGED <<kept, live, bound, over, faults>>
    BY <1>1, <2>2 DEF DeviceType, SessionType, CountType, OrderInv, HeldInv, OverInv
  <2> QED BY <1>1, <2>1, <2>2
<1>3. DeviceType'
  BY <1>1, <1>2 DEF DeviceType, PrincipalTypeOK
<1>4. RequestType'
  BY <1>1 DEF RequestType
<1>5. GoneInv' /\ AskInv' /\ ListenerTellsTruth'
  BY <1>1 DEF GoneInv, AskInv, ListenerTellsTruth
<1> QED BY <1>2, <1>3, <1>4, <1>5

\* A new daemon starts with the invariant.
LEMMA RestartKeeps == ASSUME IInv, Restart PROVE IInv'
<1> USE DEF IInv, Types
<1>1. /\ Normalize(kept) /\ reported' = FALSE /\ socket' = NoAddress
      /\ pc' = "loop" /\ ask' = NoAsk /\ acted' = NoAsk
      /\ deaths < MaxDeaths /\ deaths' = deaths + 1
      /\ UNCHANGED <<store, time, gone, address, started, moves>>
  BY DEF Restart
<1>2. /\ bound' \in Address \union {NoAddress}
      /\ SessionType' /\ faults' \in 0..MaxFaults /\ OrderInv' /\ HeldInv' /\ OverInv'
  BY <1>1, NormalizeKeeps
<1>3. DeviceType'
  BY <1>1, <1>2 DEF DeviceType, PrincipalTypeOK
<1>4. RequestType'
  BY <1>1 DEF RequestType
<1>5. CountType'
  BY <1>1, <1>2 DEF CountType
<1>6. GoneInv' /\ AskInv' /\ ListenerTellsTruth'
  BY <1>1 DEF GoneInv, AskInv, ListenerTellsTruth
<1> QED BY <1>2, <1>3, <1>4, <1>5, <1>6

\* Every step keeps the invariant.
LEMMA StepIInv == IInv /\ [Next]_vars => IInv'
<1> SUFFICES ASSUME IInv, [Next]_vars PROVE IInv'
  OBVIOUS
<1>1. CASE Loop
  BY <1>1, LoopKeeps
<1>2. CASE LoopBindFails
  BY <1>2, LoopBindFailsKeeps
<1>3. CASE Manage
  BY <1>3, ManageKeepsIInv
<1>4. CASE \/ Stop \/ StopFails
           \/ \E p \in Host, minutes \in 1..MaxMinutes : Start(p, minutes) \/ StartFails(p, minutes)
  BY <1>4, ConfigureKeeps
<1>5. ASSUME NEW p \in Principal, NEW c \in Capability, LocalRequest(p, c) \/ RemoteRequest(p, c)
      PROVE  IInv'
  BY <1>5, RequestKeeps
<1>6. CASE Restart
  BY <1>6, RestartKeeps
<1> USE DEF IInv, Types
<1>7. CASE NoRequest
  <2>1. pc' \in {"loop", "remote"} /\ UNCHANGED <<store, time, gone, address, session, socket, ask, acted, started, over, count>>
    BY <1>7 DEF NoRequest, Served
  <2>2. DeviceType' /\ SessionType' /\ CountType'
    BY <2>1 DEF DeviceType, PrincipalTypeOK, SessionType, CountType
  <2>3. RequestType'
    BY <2>1 DEF RequestType
  <2>4. OrderInv' /\ HeldInv' /\ GoneInv' /\ OverInv' /\ AskInv' /\ ListenerTellsTruth'
    BY <2>1 DEF OrderInv, HeldInv, GoneInv, OverInv, AskInv, ListenerTellsTruth
  <2> QED BY <2>2, <2>3, <2>4
<1>8. CASE Authorize \/ Observe
  BY <1>8, AuthorizeKeeps, ObserveKeeps
<1>9. CASE TimePasses
  <2>1. /\ clock' \in 1..MaxClock /\ setBacks' \in 0..MaxSetBacks
        /\ UNCHANGED <<store, gone, address, session, socket, pc, ask, acted, started, over, count>>
    BY <1>9 DEF TimePasses, Tick, SetBack, DeviceType, PrincipalTypeOK
  <2>2. DeviceType' /\ SessionType' /\ RequestType' /\ CountType'
    BY <2>1 DEF DeviceType, PrincipalTypeOK, SessionType, RequestType, CountType
  <2>3. OrderInv' /\ HeldInv' /\ GoneInv' /\ OverInv' /\ AskInv' /\ ListenerTellsTruth'
    BY <2>1 DEF OrderInv, HeldInv, GoneInv, OverInv, AskInv, ListenerTellsTruth
  <2> QED BY <2>2, <2>3
<1>10. CASE Move
  <2>1. /\ address' \in Address \union {NoAddress} /\ moves' \in 0..MaxMoves
        /\ UNCHANGED <<store, time, gone, session, socket, pc, ask, acted, started, over, faults, deaths>>
    BY <1>10 DEF Move, CountType
  <2>2. DeviceType' /\ SessionType' /\ RequestType' /\ CountType'
    BY <2>1 DEF DeviceType, PrincipalTypeOK, SessionType, RequestType, CountType
  <2>3. OrderInv' /\ HeldInv' /\ GoneInv' /\ OverInv' /\ AskInv' /\ ListenerTellsTruth'
    BY <2>1 DEF OrderInv, HeldInv, GoneInv, OverInv, AskInv, ListenerTellsTruth
  <2> QED BY <2>2, <2>3
<1>11. CASE UNCHANGED work
  <2> USE <1>11 DEF work
  <2>1. DeviceType' /\ SessionType' /\ RequestType' /\ CountType'
    BY DEF DeviceType, PrincipalTypeOK, SessionType, RequestType, CountType
  <2>2. OrderInv' /\ HeldInv' /\ GoneInv' /\ OverInv' /\ AskInv' /\ ListenerTellsTruth'
    BY DEF OrderInv, HeldInv, GoneInv, OverInv, AskInv, ListenerTellsTruth
  <2> QED BY <2>1, <2>2
<1> QED
  BY <1>1, <1>2, <1>3, <1>4, <1>5, <1>6, <1>7, <1>8, <1>9, <1>10, <1>11,
     NextMoves DEF Moves, Turn
-----------------------------------------------------------------------------
\* The inductive invariant holds in every reachable state.
LEMMA Inductive == Spec => []IInv
<1>1. Init => IInv
  BY InitIInv
<1>2. IInv /\ [Next]_vars => IInv'
  BY StepIInv
<1> QED BY <1>1, <1>2, PTL DEF Spec

(* Every file and local has its type (principal_store.c,                   *)
(* remote_access_controller.c).                                            *)
THEOREM TypeCorrect == Spec => []TypeOK
<1>1. IInv /\ waiting \in BOOLEAN => TypeOK
  BY TypesByParts DEF IInv
<1>2. Init => waiting \in BOOLEAN
  BY DEF Init
<1>3. waiting \in BOOLEAN /\ [Next]_vars => (waiting \in BOOLEAN)'
  BY DEF Next, Wait, vars
<1> QED BY <1>1, <1>2, <1>3, Inductive, PTL DEF Spec

(* What the daemon says of its listener is true, and requests are served   *)
(* on the listener the session and the address call for                    *)
(* (rt_remote_access_listener_status, main).                               *)
THEOREM ListenerIsTold == Spec => []ListenerTellsTruth
<1>1. IInv => ListenerTellsTruth
  BY DEF IInv
<1> QED BY <1>1, Inductive, PTL

(* No request is executed in a session that is over, and none is let in    *)
(* after its time (normalize_runtime_state, handle).                       *)
THEOREM EndIsFinal == Spec => EndedStaysEnded
<1>1. ASSUME IInv, [Next]_vars
      PROVE  [/\ acted' # acted /\ acted'.in # Local => acted'.in \notin over
              /\ ask' # ask /\ ask'.in # Local => clock < live'.until]_vars
  <2>1. ASSUME acted' # acted, acted'.in # Local PROVE acted'.in \notin over
    <3>1. acted' = NoAsk \/ Authorize
      BY <1>1, <2>1, NextMoves DEF Moves, Turn, work, Loop, LoopBindFails, Manage, Stop, StopFails, Start,
         StartFails, Started, LocalRequest, RemoteRequest, NoRequest, Observe, TimePasses, Move, Restart
    <3> QED BY <1>1, <2>1, <3>1 DEF Authorize, IInv, AskInv, NoAsk, Local
  <2>2. ASSUME ask' # ask, ask'.in # Local PROVE clock < live'.until
    <3>1. ask' # NoAsk
      BY <2>2 DEF NoAsk, Local
    <3>2. PICK p \in Principal, c \in Capability : LocalRequest(p, c) \/ RemoteRequest(p, c)
      BY <1>1, <2>2, <3>1, NextMoves DEF Moves, Turn, work, Loop, LoopBindFails, Manage, Stop, StopFails, Start,
         StartFails, Started, Authorize, NoRequest, Observe, TimePasses, Move, Restart
    <3>3. RemoteRequest(p, c)
      BY <2>2, <3>2 DEF LocalRequest
    <3>4. Normalize(live) /\ live' # None /\ UNCHANGED <<store, gone, started>>
      BY <2>2, <3>3 DEF RemoteRequest
    <3>5. live' = live /\ ~Lapsed(live)
      BY <1>1, <3>4, NormalizeKeeps
    <3>6. live.until \in Int /\ clock \in Int
      BY <1>1, <3>4, <3>5 DEF IInv, Types, SessionType, Session, DeviceType, PrincipalTypeOK
    <3> QED BY <3>4, <3>5, <3>6 DEF Lapsed
  <2> QED BY <2>1, <2>2
<1> QED BY <1>1, Inductive, PTL DEF Spec, EndedStaysEnded

(* A principal whose revocation was answered never acts again              *)
(* (rt_principal_revoke, rt_principal_capability_allowed).                 *)
THEOREM RevokedArePowerless == Spec => RevokedNeverActs
<1>1. ASSUME IInv, [Next]_vars
      PROVE  [acted' # acted => acted'.by \notin gone]_vars
  <2> SUFFICES ASSUME acted' # acted PROVE acted'.by \notin gone
    OBVIOUS
  <2>1. acted' = NoAsk \/ Authorize
    BY <1>1, NextMoves DEF Moves, Turn, work, Loop, LoopBindFails, Manage, Stop, StopFails, Start,
       StartFails, Started, LocalRequest, RemoteRequest, NoRequest, Observe, TimePasses, Move, Restart
  <2>2. CASE acted' = NoAsk
    BY <1>1, <2>2 DEF NoAsk, IInv, Types, DeviceType, PrincipalTypeOK
  <2>3. CASE Authorize
    BY <1>1, <2>3 DEF Authorize, Allowed, Active, IInv, GoneInv
  <2> QED BY <2>1, <2>2, <2>3
<1> QED BY <1>1, Inductive, PTL DEF Spec, RevokedNeverActs
-----------------------------------------------------------------------------
(* That the loop comes around: what ListenerFollows rests on besides       *)
(* fairness.                                                               *)

\* The steps to the top of the loop at most.
TurnsLeft ==
    CASE pc = "loop"                          -> 0
      [] pc = "authorize" /\ ask.in # Local   -> 1
      [] pc = "remote"                        -> 2
      [] pc = "authorize" /\ ask.in = Local   -> 3
      [] pc = "local"                         -> 4

\* The listener is where the session and the address call for it.
Right == socket = IF live = None \/ Lapsed(live) THEN NoAddress ELSE address

\* Each step of the loop is one towards its top, and the step at the top puts the
\* listener right, unless a bind fails.
LoopComesAround ==
    [][/\ Turn => pc = "loop" \/ TurnsLeft' < TurnsLeft
       /\ Turn /\ pc = "loop" => LoopBindFails \/ Right']_vars

(* The loop of main is back at its top at most four steps after it left    *)
(* it, whatever it serves and whatever fails in it, and there looks after  *)
(* the listener: a stale one is closed or moved unless the bind fails      *)
(* (main, normalize_runtime_state).                                        *)
THEOREM ListenerIsLookedAfter == Spec => LoopComesAround
<1>1. ASSUME IInv, [Next]_vars
      PROVE  [/\ Turn => pc = "loop" \/ TurnsLeft' < TurnsLeft
              /\ Turn /\ pc = "loop" => LoopBindFails \/ Right']_vars
  <2>1. ASSUME Manage \/ Stop \/ StopFails \/ Observe
               \/ \E p \in Host, minutes \in 1..MaxMinutes : Start(p, minutes) \/ StartFails(p, minutes)
        PROVE  pc = "local" /\ pc' = "remote"
    BY <2>1 DEF Manage, Stop, StopFails, Observe, Start, StartFails, Started, Served
  <2>2. ASSUME NEW p \in Principal, NEW c \in Capability, LocalRequest(p, c)
        PROVE  pc = "local" /\ pc' = "authorize" /\ ask'.in = Local
    BY <2>2 DEF LocalRequest
  <2>3. ASSUME NEW p \in Principal, NEW c \in Capability, RemoteRequest(p, c)
        PROVE  pc = "remote" /\ (pc' = "loop" \/ (pc' = "authorize" /\ ask'.in # Local))
    <3>1. live' \in {live, None}
      BY <2>3 DEF RemoteRequest, Normalize, Close
    <3>2. live' # None => live'.id # Local
      BY <1>1, <3>1 DEF IInv, Types, SessionType, Session, Local
    <3> QED BY <2>3, <3>2 DEF RemoteRequest
  <2>4. ASSUME Authorize
        PROVE  pc = "authorize" /\ pc' = IF ask.in = Local THEN "remote" ELSE "loop"
    BY <2>4 DEF Authorize
  <2>5. ASSUME NoRequest
        PROVE  (pc = "local" /\ pc' = "remote") \/ (pc = "remote" /\ pc' = "loop")
    BY <2>5 DEF NoRequest, Served
  <2>6. ASSUME Loop PROVE pc = "loop" /\ Right'
    <3>1. socket' = IF live' = None THEN NoAddress ELSE address'
      BY <2>6 DEF Loop, Listen, Called, Normalize
    <3>2. live' = None \/ (~Lapsed(live) /\ live' = live)
      BY <2>6 DEF Loop, Normalize, Close
    <3>3. live' = live => Lapsed(live)' = Lapsed(live)
      BY <2>6 DEF Loop, Lapsed, ActiveHost, Active
    <3> QED BY <2>6, <3>1, <3>2, <3>3 DEF Loop, Right
  <2>7. LoopBindFails => pc = "loop"
    BY DEF LoopBindFails
  <2>8. CASE Turn
    <3>1. pc = "loop" \/ TurnsLeft' < TurnsLeft
      BY <2>1, <2>2, <2>3, <2>4, <2>5, <2>6, <2>7, <2>8 DEF Turn, TurnsLeft
    <3>2. pc = "loop" => LoopBindFails \/ Right'
      BY <2>1, <2>2, <2>3, <2>4, <2>5, <2>6, <2>8 DEF Turn
    <3> QED BY <3>1, <3>2
  <2> QED BY <2>8
<1> QED BY <1>1, Inductive, PTL DEF Spec, LoopComesAround
=============================================================================
