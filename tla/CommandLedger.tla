--------------------------- MODULE CommandLedger ---------------------------
(***************************************************************************)
(* The command gateway of roottools_execd: one typed command from the      *)
(* idempotency reservation to the durable receipt (route_capability and    *)
(* send_action_receipt), and the owner's capability switch                 *)
(* (handle_capability_set).                                                *)
(*                                                                         *)
(* execd is single threaded: it serves one connection at a time, so there  *)
(* is one handler, at control point pc.  Every ledger function opens its   *)
(* own SQLite connection and commits its own transaction, so the handler   *)
(* is a sequence of durable steps; the daemon may be killed between any    *)
(* two of them and any transaction may fail.  What is durable survives a   *)
(* restart; pc, cur, outcome and stamp are the handler's locals and do not.*)
(*                                                                         *)
(* A command stands for the request body with its authenticated caller:    *)
(* the fields of the record are the ones the gateway looks at, and two     *)
(* commands have the same SHA-256 fingerprint iff they are equal.          *)
(***************************************************************************)
EXTENDS Integers, Sequences

CONSTANTS RequestId,      \* requestIds callers use
          Caller,         \* authenticated callers
          Capability,     \* capability ids of the registry
          Mutating,       \* the capabilities of risk R1 or higher
          NeedsProvider,  \* those whose provider must be up at submission
          Expectation,    \* the expectedRevision values callers send
          MaxRevision,    \* bound: no state change is admitted at this revision
          NoCommand,      \* no request row, or no request being handled
          NoReceipt       \* no receipt stored

NoExpectation == -1

Command == [id     : RequestId,
            caller : Caller,
            cap    : Capability,
            expect : {NoExpectation} \union Expectation]

Receipt == [executed : BOOLEAN, ok : BOOLEAN, allowed : BOOLEAN, revision : Nat]

ASSUME LedgerAssumption ==
    /\ MaxRevision \in Nat
    /\ Expectation \subseteq Nat
    /\ Mutating \subseteq Capability
    /\ NeedsProvider \subseteq Capability
    /\ NoCommand \notin Command
    /\ NoReceipt \notin Receipt

VARIABLES
    \* durable: the SQLite ledger
    status,      \* action_requests.state: "absent" | "pending" (0) | "complete" (1)
    request,     \* the stored caller, capability and fingerprint
    receipt,     \* action_requests.receipt
    events,      \* execution_events of each request, in sequence order
    revision,    \* service_meta.revision
    \* durable, kept by other components and read here
    permitted,   \* (caller, capability) pairs that stored grants and policy admit
    providerUp,  \* rt_provider_available of the needed provider
    \* the handler
    pc, cur, outcome, stamp,
    \* observation
    reply,       \* the response written on the current connection
    runs,        \* how often the executor of a request was entered
    effects      \* the requests whose executor reported executed

durable == <<status, request, receipt, events, revision>>
world   == <<permitted, providerUp>>
handler == <<cur, outcome, stamp>>
vars    == <<durable, world, pc, handler, reply, runs, effects>>

NoOutcome == [executed |-> FALSE, ok |-> FALSE, allowed |-> FALSE]

\* What an executor can report: nothing was done (its arguments are refused),
\* or it acted and its post-condition was or was not observed.
Outcome == [executed : BOOLEAN, ok : BOOLEAN, allowed : BOOLEAN]
ExecutorOutcome == {o \in Outcome : o.allowed /\ (o.ok => o.executed)}

Answer(kind, i, r) == [kind |-> kind, id |-> i, receipt |-> r]
NoReply == Answer("none", NoCommand, NoReceipt)

Event(kind, rev) == [kind |-> kind, revision |-> rev]

AppendEvent(i, kind, rev) ==
    events' = [events EXCEPT ![i] = Append(@, Event(kind, rev))]

\* Mutation: the handler's locals are kept when it answers an error.
RefuseKeepsCommand(kind) ==
    /\ reply' = Answer(kind, NoCommand, NoReceipt)
    /\ pc' = "idle"
    /\ UNCHANGED <<cur, outcome, stamp>>

\* The response that ends a handler without a receipt (4xx and 5xx).
Refuse(kind) ==
    /\ reply' = Answer(kind, NoCommand, NoReceipt)
    /\ pc' = "idle"
    /\ cur' = NoCommand
    /\ outcome' = NoOutcome
    /\ stamp' = 0

Init ==
    /\ status = [i \in RequestId |-> "absent"]
    /\ request = [i \in RequestId |-> NoCommand]
    /\ receipt = [i \in RequestId |-> NoReceipt]
    /\ events = [i \in RequestId |-> <<>>]
    /\ revision = 0
    /\ permitted \in SUBSET (Caller \X Capability)
    /\ providerUp \in BOOLEAN
    /\ pc = "idle"
    /\ cur = NoCommand
    /\ outcome = NoOutcome
    /\ stamp = 0
    /\ reply = NoReply
    /\ runs = [i \in RequestId |-> 0]
    /\ effects = {}
-----------------------------------------------------------------------------
(* ledger_reserve: the lookup and the reservation are one transaction.     *)

\* An unknown requestId: the pending row and the "accepted" event commit together.
ReserveNew(c) ==
    /\ pc = "idle"
    /\ status[c.id] = "absent"
    /\ revision < MaxRevision
    /\ status' = [status EXCEPT ![c.id] = "pending"]
    /\ request' = [request EXCEPT ![c.id] = c]
    /\ AppendEvent(c.id, "accepted", revision)
    /\ pc' = "admit"
    /\ cur' = c
    /\ reply' = NoReply
    /\ UNCHANGED <<receipt, revision, world, outcome, stamp, runs, effects>>

\* The same command again after its receipt was stored: the receipt is replayed.
ReserveReplay(c) ==
    /\ pc = "idle"
    /\ status[c.id] = "complete"
    /\ request[c.id] = c
    /\ reply' = Answer("replay", c.id, receipt[c.id])
    /\ UNCHANGED <<durable, world, pc, handler, runs, effects>>

\* Another command under a requestId in use: 409.
ReserveConflict(c) ==
    /\ pc = "idle"
    /\ status[c.id] # "absent"
    /\ request[c.id] # c
    /\ Refuse("conflict")
    /\ UNCHANGED <<durable, world, runs, effects>>

\* The same command again while its row is pending: 409, never re-executed.
ReserveIndeterminate(c) ==
    /\ pc = "idle"
    /\ status[c.id] = "pending"
    /\ request[c.id] = c
    /\ Refuse("indeterminate")
    /\ UNCHANGED <<durable, world, runs, effects>>

\* The reservation transaction fails and rolls back: 500.
ReserveFails(c) ==
    /\ pc = "idle"
    /\ Refuse("error")
    /\ UNCHANGED <<durable, world, runs, effects>>

Submit(c) ==
    \/ ReserveNew(c)
    \/ ReserveReplay(c)
    \/ ReserveConflict(c)
    \/ ReserveIndeterminate(c)
    \/ ReserveFails(c)
-----------------------------------------------------------------------------
(* route_capability after the reservation: expectedRevision, grant, policy *)
(* and provider, in that order; nothing durable changes between them.      *)

\* Mutation: only a revision ahead of the device's counts as stale.
StaleIfAhead == cur.expect > revision

Stale == cur.expect # NoExpectation /\ cur.expect # revision
Permitted == <<cur.caller, cur.cap>> \in permitted
Unavailable == cur.cap \in NeedsProvider /\ ~providerUp

\* Mutation: every decided outcome is reported as executed.
DecideExecuted(allowed) ==
    /\ outcome' = [executed |-> TRUE, ok |-> FALSE, allowed |-> allowed]
    /\ pc' = "stamp"
    /\ UNCHANGED <<durable, world, cur, stamp, reply, runs, effects>>

\* The outcome is known without running the executor.
Decide(allowed) ==
    /\ outcome' = [executed |-> FALSE, ok |-> FALSE, allowed |-> allowed]
    /\ pc' = "stamp"
    /\ UNCHANGED <<durable, world, cur, stamp, reply, runs, effects>>

\* A stored grant may have an expires_at in the past when it is asked for.
AdmitReject ==
    /\ pc = "admit"
    /\ \E expired \in BOOLEAN : Stale \/ ~Permitted \/ expired
    /\ Decide(FALSE)

AdmitUnavailable ==
    /\ pc = "admit"
    /\ ~Stale /\ Permitted /\ Unavailable
    /\ Decide(TRUE)

AdmitStart ==
    /\ pc = "admit"
    /\ ~Stale /\ Permitted /\ ~Unavailable
    /\ pc' = "start"
    /\ UNCHANGED <<durable, world, handler, reply, runs, effects>>

\* The revision needed to judge expectedRevision cannot be read: 500, still pending.
AdmitFails ==
    /\ pc = "admit"
    /\ cur.expect # NoExpectation
    /\ Refuse("error")
    /\ UNCHANGED <<durable, world, runs, effects>>

\* The "started" event is durable before the executor runs ...
AppendStarted ==
    /\ pc = "start"
    /\ AppendEvent(cur.id, "started", revision)
    /\ pc' = "execute"
    /\ UNCHANGED <<status, request, receipt, revision, world, handler, reply, runs, effects>>

\* Mutation: the result of appending "started" is ignored.
AppendStartedIgnored ==
    /\ pc = "start"
    /\ pc' = "execute"
    /\ UNCHANGED <<durable, world, handler, reply, runs, effects>>

\* ... and without it the executor does not run.
AppendStartedFails ==
    /\ pc = "start"
    /\ Decide(TRUE)

\* The executor acts on the device; its durable results are those of the
\* component it belongs to.
Execute ==
    /\ pc = "execute"
    /\ \E o \in ExecutorOutcome :
         /\ outcome' = o
         /\ effects' = IF o.executed THEN effects \union {cur.id} ELSE effects
    /\ runs' = [runs EXCEPT ![cur.id] = @ + 1]
    /\ pc' = "stamp"
    /\ UNCHANGED <<durable, world, cur, stamp, reply>>
-----------------------------------------------------------------------------
(* send_action_receipt: the revision, then the receipt with its event.     *)

CountsAsMutation == outcome.executed /\ cur.cap \in Mutating

\* Mutation: the receipt of a mutation carries the revision it was judged at.
StampCurrentRevision ==
    /\ pc = "stamp"
    /\ stamp' = revision
    /\ pc' = "complete"
    /\ UNCHANGED <<durable, world, cur, outcome, reply, runs, effects>>

\* ledger_increment_revision after a mutation, ledger_current_revision otherwise.
StampRevision ==
    /\ pc = "stamp"
    /\ revision' = IF CountsAsMutation THEN revision + 1 ELSE revision
    /\ stamp' = revision'
    /\ pc' = "complete"
    /\ UNCHANGED <<status, request, receipt, events, world, cur, outcome, reply, runs, effects>>

TerminalKind ==
    IF ~outcome.allowed THEN "rejected" ELSE IF outcome.ok THEN "completed" ELSE "failed"

\* ledger_complete: row, receipt and terminal event in one transaction, then the reply.
Complete ==
    /\ pc = "complete"
    /\ status[cur.id] = "pending"
    /\ LET r == [executed |-> outcome.executed, ok |-> outcome.ok,
                 allowed |-> outcome.allowed, revision |-> stamp]
       IN  /\ status' = [status EXCEPT ![cur.id] = "complete"]
           /\ receipt' = [receipt EXCEPT ![cur.id] = r]
           /\ AppendEvent(cur.id, TerminalKind, stamp)
           /\ reply' = Answer("receipt", cur.id, r)
    /\ pc' = "idle"
    /\ cur' = NoCommand
    /\ outcome' = NoOutcome
    /\ stamp' = 0
    /\ UNCHANGED <<request, revision, world, runs, effects>>

\* Either transaction fails: 500, the row stays pending for good.
ReceiptFails ==
    /\ pc \in {"stamp", "complete"}
    /\ Refuse("error")
    /\ UNCHANGED <<durable, world, runs, effects>>
-----------------------------------------------------------------------------
(* handle_capability_set: the policy file first, then the revision.        *)

SwitchCapability(k, on) ==
    /\ pc = "idle"
    /\ revision < MaxRevision
    /\ permitted' = IF on THEN permitted \union (Caller \X {k})
                          ELSE permitted \ (Caller \X {k})
    /\ permitted' # permitted
    /\ pc' = "switched"
    /\ reply' = NoReply
    /\ UNCHANGED <<durable, providerUp, handler, runs, effects>>

StampSwitch ==
    /\ pc = "switched"
    /\ revision' = revision + 1
    /\ pc' = "idle"
    /\ UNCHANGED <<status, request, receipt, events, world, handler, reply, runs, effects>>

\* "capability policy changed but execution revision could not be persisted"
StampSwitchFails ==
    /\ pc = "switched"
    /\ Refuse("error")
    /\ UNCHANGED <<durable, world, runs, effects>>
-----------------------------------------------------------------------------
\* Grants and policy are edited, always by a request of their own; providers come
\* and go at any time but are looked at once per handler, so "between" is enough.
WorldChanges ==
    /\ pc = "idle"
    /\ \/ /\ permitted' \in SUBSET (Caller \X Capability)
          /\ UNCHANGED providerUp
       \/ /\ providerUp' = ~providerUp
          /\ UNCHANGED permitted
    /\ UNCHANGED <<durable, pc, handler, reply, runs, effects>>

\* execd is killed at any point and loses the handler's locals ...
Crash ==
    /\ pc # "down"
    /\ pc' = "down"
    /\ cur' = NoCommand
    /\ outcome' = NoOutcome
    /\ stamp' = 0
    /\ UNCHANGED <<durable, world, reply, runs, effects>>

\* Mutation: the start-up recovery drops the rows of interrupted requests.
RestartForgetsPending ==
    /\ pc = "down"
    /\ pc' = "idle"
    /\ status' = [i \in RequestId |-> IF status[i] = "pending" THEN "absent" ELSE status[i]]
    /\ UNCHANGED <<request, receipt, events, revision, world, handler, reply, runs, effects>>

\* ... and launchd (KeepAlive) starts it again; main touches no action request.
Restart ==
    /\ pc = "down"
    /\ pc' = "idle"
    /\ UNCHANGED <<durable, world, handler, reply, runs, effects>>

Step ==
    \/ AdmitReject \/ AdmitUnavailable \/ AdmitStart \/ AdmitFails
    \/ AppendStarted \/ AppendStartedFails
    \/ Execute
    \/ StampRevision \/ Complete \/ ReceiptFails
    \/ StampSwitch \/ StampSwitchFails

Next ==
    \/ \E c \in Command : Submit(c)
    \/ \E k \in Capability, on \in BOOLEAN : SwitchCapability(k, on)
    \/ Step
    \/ WorldChanges
    \/ Crash
    \/ Restart

Spec == Init /\ [][Next]_vars
-----------------------------------------------------------------------------
PC == {"idle", "admit", "start", "execute", "stamp", "complete", "switched", "down"}
Busy == {"admit", "start", "execute", "stamp", "complete"}
Kinds == {"accepted", "started", "rejected", "completed", "failed"}
ReplyKind == {"none", "receipt", "replay", "conflict", "indeterminate", "error"}

(* Every variable has the type its column, file or local has in execd.     *)
TypeOK ==
    /\ status \in [RequestId -> {"absent", "pending", "complete"}]
    /\ request \in [RequestId -> Command \union {NoCommand}]
    /\ receipt \in [RequestId -> Receipt \union {NoReceipt}]
    /\ events \in [RequestId -> Seq([kind : Kinds, revision : Nat])]
    /\ revision \in Nat
    /\ permitted \subseteq Caller \X Capability
    /\ providerUp \in BOOLEAN
    /\ pc \in PC
    /\ cur \in IF pc \in Busy THEN Command ELSE {NoCommand}
    /\ outcome \in Outcome
    /\ stamp \in Nat
    /\ reply \in [kind : ReplyKind, id : RequestId \union {NoCommand},
                  receipt : Receipt \union {NoReceipt}]
    /\ runs \in [RequestId -> Nat]
    /\ effects \subseteq RequestId

(* At most once: whatever is resent, and wherever the daemon dies, the     *)
(* executor of a requestId is entered at most once (ledger_reserve answers *)
(* a pending row with "will not be replayed").                             *)
AtMostOnceExecution == \A i \in RequestId : runs[i] <= 1

(* A receipt tells the truth about the device: it says "executed" exactly  *)
(* when the executor acted, and a request refused by revision, grant or    *)
(* policy never reached its executor (route_capability's early receipts).  *)
ReceiptTruth ==
    \A i \in RequestId : status[i] = "complete" =>
        /\ receipt[i].executed = (i \in effects)
        /\ ~receipt[i].allowed => runs[i] = 0

(* A receipt that was sent, first hand or replayed, is the stored one: a   *)
(* client never holds an answer that a restart forgets (ledger_complete    *)
(* commits before send_response).                                          *)
AnswerIsDurable ==
    reply.kind \in {"receipt", "replay"} =>
        /\ status[reply.id] = "complete"
        /\ receipt[reply.id] = reply.receipt

(* The event log tells how far a request got, also after a crash: accepted *)
(* iff reserved, "started" before the executor ran, one terminal event iff *)
(* the receipt is stored, and nothing after it (execution_events).         *)
EventKinds(i) == [n \in DOMAIN events[i] |-> events[i][n].kind]
Terminal == {"rejected", "completed", "failed"}
EventsTellProgress ==
    \A i \in RequestId :
        CASE status[i] = "absent"   -> EventKinds(i) = <<>>
          [] status[i] = "pending"  -> /\ EventKinds(i) \in {<<"accepted">>, <<"accepted", "started">>}
                                       /\ runs[i] > 0 => Len(events[i]) = 2
          [] status[i] = "complete" -> /\ EventKinds(i) \in {<<"accepted", k>> : k \in Terminal}
                                            \union {<<"accepted", "started", k>> : k \in Terminal}
                                       /\ runs[i] > 0 => Len(events[i]) = 3

(* A revision names one device state: two stored receipts of mutations     *)
(* never carry the same revision, whatever fails between the increment and *)
(* the receipt (ledger_increment_revision).                                *)
IsMutation(i) ==
    /\ status[i] = "complete"
    /\ receipt[i].executed
    /\ request[i].cap \in Mutating
RevisionNamesOneMutation ==
    \A i, j \in RequestId :
        IsMutation(i) /\ IsMutation(j) /\ receipt[i].revision = receipt[j].revision => i = j

(* expectedRevision: a stored receipt that says "executed" for a command   *)
(* with expectedRevision e was produced from revision e: a mutation moved  *)
(* the device to e + 1, and a read saw e (the stale_revision check).       *)
ExpectedRevisionHonoured ==
    \A i \in RequestId :
        status[i] = "complete" /\ receipt[i].executed /\ request[i].expect # NoExpectation =>
            receipt[i].revision =
                request[i].expect + (IF request[i].cap \in Mutating THEN 1 ELSE 0)

(* A stored receipt is final and a bound requestId keeps its command: no   *)
(* later step of any request rewrites either (UPDATE ... WHERE state=0).   *)
LedgerIsFinal ==
    [][\A i \in RequestId :
        /\ status[i] = "complete" => status'[i] = "complete" /\ receipt'[i] = receipt[i]
        /\ status[i] # "absent" => status'[i] # "absent" /\ request'[i] = request[i]]_vars

(* The executor runs only for a command that the stored grants, the policy *)
(* and the revision admit at the moment it runs, not merely when it was    *)
(* accepted.                                                               *)
ExecutesOnlyAdmitted ==
    [][\A i \in RequestId : runs'[i] # runs[i] =>
        /\ <<cur.caller, cur.cap>> \in permitted
        /\ cur.expect \in {NoExpectation, revision}
        /\ i = cur.id /\ status[i] = "pending" /\ request[i] = cur]_vars

(* What optimistic concurrency control would promise across a crash: two   *)
(* commands that expect the same revision never both change the device     *)
(* (docs/architecture/command-gateway.md:34).                              *)
OneEffectPerExpectedRevision ==
    \A i, j \in effects :
        /\ request[i].cap \in Mutating /\ request[j].cap \in Mutating
        /\ request[i].expect # NoExpectation
        /\ request[i].expect = request[j].expect
        => i = j

(* The gateway implements the at-most-once command service.                *)
Promise == INSTANCE AtMostOnce WITH
    phase     <- [i \in RequestId |->
                    CASE status[i] = "absent"   -> "new"
                      [] status[i] = "pending"  -> "open"
                      [] status[i] = "complete" -> "done"],
    bound     <- request,
    performed <- runs,
    touched   <- effects,
    result    <- receipt
ImplementsAtMostOnce == Promise!Spec
=============================================================================
