------------------------ MODULE CommandLedgerProofs ------------------------
(***************************************************************************)
(* Proofs about CommandLedger for any requests, callers, capabilities and  *)
(* bounds.  The inductive invariant IInv says what the handler's control   *)
(* point knows about the ledger row it works on.                           *)
(***************************************************************************)
EXTENDS CommandLedger, TLAPS

\* A row is bound to a command of its own id, and has a receipt iff complete.
RowInv ==
    \A i \in RequestId :
        /\ status[i] = "absent" => runs[i] = 0
        /\ status[i] # "absent" => request[i] \in Command /\ request[i].id = i
        /\ status[i] = "complete" => receipt[i] \in Receipt

\* The executor ran at most once, and only it touches the device.
RunInv ==
    \A i \in RequestId : runs[i] \in {0, 1} /\ (i \in effects => runs[i] = 1)

\* The row of the handled command is pending and bound to it; before the
\* executor it has not run, after it the outcome says what happened.
HandlerInv ==
    pc \in Busy =>
        /\ status[cur.id] = "pending" /\ request[cur.id] = cur
        /\ pc \in {"admit", "start", "execute"} => runs[cur.id] = 0
        /\ pc \in {"stamp", "complete"} =>
             /\ outcome.executed = (cur.id \in effects)
             /\ ~outcome.allowed => runs[cur.id] = 0

\* Past admission the command is permitted and not stale.
AdmitInv ==
    /\ pc \in {"start", "execute"} =>
         <<cur.caller, cur.cap>> \in permitted /\ cur.expect \in {NoExpectation, revision}
    /\ pc = "stamp" /\ outcome.executed => cur.expect \in {NoExpectation, revision}

\* The stamp is the current revision, fresh when it is a mutation's.
StampInv ==
    /\ \A i \in RequestId : status[i] = "complete" => receipt[i].revision <= revision
    /\ pc = "complete" =>
         /\ stamp = revision
         /\ outcome.executed /\ cur.expect # NoExpectation =>
              stamp = cur.expect + (IF cur.cap \in Mutating THEN 1 ELSE 0)
         /\ CountsAsMutation =>
              \A i \in RequestId : status[i] = "complete" => receipt[i].revision < stamp

IInv ==
    /\ TypeOK /\ RowInv /\ RunInv /\ HandlerInv /\ AdmitInv /\ StampInv
    /\ ReceiptTruth /\ AnswerIsDurable
    /\ RevisionNamesOneMutation /\ ExpectedRevisionHonoured
-----------------------------------------------------------------------------
USE DEF Busy, PC, NoOutcome

\* The initial columns, files and locals have their types.
LEMMA InitTypeOK == Init => TypeOK
BY LedgerAssumption DEF Init, TypeOK, NoReply, Answer, ReplyKind, Outcome

\* Every action keeps the types of the columns, files and locals.
LEMMA StepTypeOK == TypeOK /\ [Next]_vars => TypeOK'
<1> SUFFICES ASSUME TypeOK, [Next]_vars PROVE TypeOK'
  OBVIOUS
<1> USE LedgerAssumption DEF TypeOK, Outcome, ReplyKind, Kinds, durable, world, handler, NoReply, Answer
<1>1. ASSUME NEW c \in Command, Submit(c) PROVE TypeOK'
  <2>1. c.id \in RequestId
    BY DEF Command
  <2>2. CASE ReserveNew(c)
    BY <2>1, <2>2 DEF ReserveNew, AppendEvent, Event
  <2>3. CASE ReserveReplay(c)
    BY <2>1, <2>3 DEF ReserveReplay
  <2>4. CASE ReserveConflict(c)
    BY <2>4 DEF ReserveConflict, Refuse
  <2>5. CASE ReserveIndeterminate(c)
    BY <2>5 DEF ReserveIndeterminate, Refuse
  <2>6. CASE ReserveFails(c)
    BY <2>6 DEF ReserveFails, Refuse
  <2> QED BY <1>1, <2>2, <2>3, <2>4, <2>5, <2>6 DEF Submit
<1>2. ASSUME NEW k \in Capability, NEW on \in BOOLEAN, SwitchCapability(k, on) PROVE TypeOK'
  BY <1>2 DEF SwitchCapability
<1>3. CASE AdmitReject
  BY <1>3 DEF AdmitReject, Decide
<1>4. CASE AdmitUnavailable
  BY <1>4 DEF AdmitUnavailable, Decide
<1>5. CASE AdmitStart
  BY <1>5 DEF AdmitStart
<1>6. CASE AdmitFails
  BY <1>6 DEF AdmitFails, Refuse
<1>7. CASE AppendStarted
  BY <1>7 DEF AppendStarted, AppendEvent, Event, Command
<1>8. CASE AppendStartedFails
  BY <1>8 DEF AppendStartedFails, Decide
<1>9. CASE Execute
  <2>1. cur \in Command /\ cur.id \in RequestId
    BY <1>9 DEF Execute, Command
  <2>2. PICK o \in ExecutorOutcome :
          /\ outcome' = o
          /\ effects' = IF o.executed THEN effects \union {cur.id} ELSE effects
    BY <1>9 DEF Execute
  <2>3. outcome' \in Outcome
    BY <2>2 DEF ExecutorOutcome
  <2>4. effects' \subseteq RequestId
    BY <2>1, <2>2
  <2>5. runs' \in [RequestId -> Nat]
    BY <2>1, <1>9 DEF Execute
  <2> QED BY <2>1, <2>3, <2>4, <2>5, <1>9 DEF Execute
<1>10. CASE StampRevision
  BY <1>10 DEF StampRevision, CountsAsMutation, Command
<1>11. CASE Complete
  <2> DEFINE r == [executed |-> outcome.executed, ok |-> outcome.ok,
                   allowed |-> outcome.allowed, revision |-> stamp]
  <2>1. cur.id \in RequestId
    BY <1>11 DEF Complete, Command
  <2>2. r \in Receipt
    BY DEF Receipt
  <2>3. receipt' \in [RequestId -> Receipt \union {NoReceipt}]
    BY <2>1, <2>2, <1>11 DEF Complete
  <2>4. reply' \in [kind : ReplyKind, id : RequestId \union {NoCommand},
                    receipt : Receipt \union {NoReceipt}]
    BY <2>1, <2>2, <1>11 DEF Complete
  <2>5. TerminalKind \in Kinds
    BY DEF TerminalKind
  <2>6. events' \in [RequestId -> Seq([kind : Kinds, revision : Nat])]
    BY <2>1, <2>5, <1>11 DEF Complete, AppendEvent, Event
  <2> QED BY <2>1, <2>3, <2>4, <2>6, <1>11 DEF Complete
<1>12. CASE ReceiptFails
  BY <1>12 DEF ReceiptFails, Refuse
<1>13. CASE StampSwitch
  BY <1>13 DEF StampSwitch
<1>14. CASE StampSwitchFails
  BY <1>14 DEF StampSwitchFails, Refuse
<1>15. CASE WorldChanges
  BY ZenonT(60), <1>15 DEF WorldChanges
<1>16. CASE Crash
  BY <1>16 DEF Crash
<1>17. CASE Restart
  BY <1>17 DEF Restart
<1>18. CASE UNCHANGED vars
  BY <1>18
     DEF vars
<1> QED
  BY <1>1, <1>2, <1>3, <1>4, <1>5, <1>6, <1>7, <1>8, <1>9, <1>10,
     <1>11, <1>12, <1>13, <1>14, <1>15, <1>16, <1>17, <1>18
     DEF Next, Step

\* Every reachable state of the gateway is well typed.
THEOREM TypeCorrect == Spec => []TypeOK
BY InitTypeOK, StepTypeOK, PTL DEF Spec
-----------------------------------------------------------------------------
\* The initial states satisfy the invariant.
LEMMA InitIInv == Init => IInv
<1> SUFFICES ASSUME Init PROVE IInv
  OBVIOUS
<1>1. TypeOK
  BY InitTypeOK
<1> QED
  BY <1>1 DEF Init, IInv, RowInv, RunInv, HandlerInv, AdmitInv, StampInv, ReceiptTruth,
     AnswerIsDurable, RevisionNamesOneMutation, ExpectedRevisionHonoured, IsMutation,
     NoReply, Answer

\* Every step of the handler, of the daemon and of the world keeps it.
LEMMA StepIInv == IInv /\ [Next]_vars => IInv'
<1> SUFFICES ASSUME IInv, [Next]_vars PROVE IInv'
  OBVIOUS
<1>0. TypeOK /\ TypeOK'
  BY StepTypeOK DEF IInv
<1> USE <1>0, LedgerAssumption DEF IInv, RowInv, RunInv, HandlerInv, AdmitInv, StampInv,
     ReceiptTruth, AnswerIsDurable, RevisionNamesOneMutation, ExpectedRevisionHonoured,
     IsMutation, CountsAsMutation, TypeOK, durable, world, handler, NoReply, Answer, Command
<1>1. ASSUME NEW c \in Command, Submit(c) PROVE IInv'
  <2>2. CASE ReserveNew(c)
    <3>1. RowInv'
      BY <2>2 DEF ReserveNew
    <3>2. RunInv'
      BY <2>2 DEF ReserveNew
    <3>3. HandlerInv'
      BY <2>2 DEF ReserveNew
    <3>4. AdmitInv'
      BY <2>2 DEF ReserveNew
    <3>5. StampInv'
      BY <2>2 DEF ReserveNew
    <3>6. ReceiptTruth'
      BY <2>2 DEF ReserveNew
    <3>7. AnswerIsDurable'
      BY <2>2 DEF ReserveNew
    <3>8. RevisionNamesOneMutation'
      BY <2>2 DEF ReserveNew
    <3>9. ExpectedRevisionHonoured'
      BY <2>2 DEF ReserveNew
    <3> HIDE DEF RowInv, RunInv, HandlerInv, AdmitInv, StampInv, ReceiptTruth, AnswerIsDurable, RevisionNamesOneMutation, ExpectedRevisionHonoured
    <3> QED BY <3>1, <3>2, <3>3, <3>4, <3>5, <3>6, <3>7, <3>8, <3>9 DEF IInv
  <2>3. CASE ReserveReplay(c)
    BY <2>3 DEF ReserveReplay
  <2>4. CASE ReserveConflict(c)
    BY <2>4 DEF ReserveConflict, Refuse
  <2>5. CASE ReserveIndeterminate(c)
    BY <2>5 DEF ReserveIndeterminate, Refuse
  <2>6. CASE ReserveFails(c)
    BY <2>6 DEF ReserveFails, Refuse
  <2> QED BY <1>1, <2>2, <2>3, <2>4, <2>5, <2>6 DEF Submit
<1>2. ASSUME NEW k \in Capability, NEW on \in BOOLEAN, SwitchCapability(k, on) PROVE IInv'
  BY <1>2 DEF SwitchCapability
<1>3. CASE AdmitReject
  <2>1. RowInv'
    BY <1>3 DEF AdmitReject, Decide
  <2>2. RunInv'
    BY <1>3 DEF AdmitReject, Decide
  <2>3. HandlerInv'
    <3>1. cur \in Command /\ cur.id \in RequestId /\ cur.id \notin effects /\ runs[cur.id] = 0
      BY <1>3 DEF AdmitReject, Decide
    <3>2. ~outcome'.executed /\ outcome'.executed \in BOOLEAN
      BY <1>3 DEF AdmitReject, Decide
    <3>3. pc' = "stamp" /\ UNCHANGED <<status, request, cur, runs, effects>>
      BY <1>3 DEF AdmitReject, Decide
    <3>4. outcome'.executed = (cur'.id \in effects')
      BY <3>1, <3>2, <3>3
    <3> QED BY <3>1, <3>3, <3>4
  <2>4. AdmitInv'
    BY <1>3 DEF AdmitReject, Decide
  <2>5. StampInv'
    BY <1>3 DEF AdmitReject, Decide
  <2>6. ReceiptTruth'
    BY <1>3 DEF AdmitReject, Decide
  <2>7. AnswerIsDurable'
    BY <1>3 DEF AdmitReject, Decide
  <2>8. RevisionNamesOneMutation'
    BY <1>3 DEF AdmitReject, Decide
  <2>9. ExpectedRevisionHonoured'
    BY <1>3 DEF AdmitReject, Decide
  <2> HIDE DEF RowInv, RunInv, HandlerInv, AdmitInv, StampInv, ReceiptTruth, AnswerIsDurable, RevisionNamesOneMutation, ExpectedRevisionHonoured
  <2> QED BY <2>1, <2>2, <2>3, <2>4, <2>5, <2>6, <2>7, <2>8, <2>9 DEF IInv
<1>4. CASE AdmitUnavailable
  <2>1. RowInv'
    BY <1>4 DEF AdmitUnavailable, Decide
  <2>2. RunInv'
    BY <1>4 DEF AdmitUnavailable, Decide
  <2>3. HandlerInv'
    <3>1. cur \in Command /\ cur.id \in RequestId /\ cur.id \notin effects /\ runs[cur.id] = 0
      BY <1>4 DEF AdmitUnavailable, Decide
    <3>2. ~outcome'.executed /\ outcome'.executed \in BOOLEAN
      BY <1>4 DEF AdmitUnavailable, Decide
    <3>3. pc' = "stamp" /\ UNCHANGED <<status, request, cur, runs, effects>>
      BY <1>4 DEF AdmitUnavailable, Decide
    <3>4. outcome'.executed = (cur'.id \in effects')
      BY <3>1, <3>2, <3>3
    <3> QED BY <3>1, <3>3, <3>4
  <2>4. AdmitInv'
    BY <1>4 DEF AdmitUnavailable, Decide
  <2>5. StampInv'
    BY <1>4 DEF AdmitUnavailable, Decide
  <2>6. ReceiptTruth'
    BY <1>4 DEF AdmitUnavailable, Decide
  <2>7. AnswerIsDurable'
    BY <1>4 DEF AdmitUnavailable, Decide
  <2>8. RevisionNamesOneMutation'
    BY <1>4 DEF AdmitUnavailable, Decide
  <2>9. ExpectedRevisionHonoured'
    BY <1>4 DEF AdmitUnavailable, Decide
  <2> HIDE DEF RowInv, RunInv, HandlerInv, AdmitInv, StampInv, ReceiptTruth, AnswerIsDurable, RevisionNamesOneMutation, ExpectedRevisionHonoured
  <2> QED BY <2>1, <2>2, <2>3, <2>4, <2>5, <2>6, <2>7, <2>8, <2>9 DEF IInv
<1>5. CASE AdmitStart
  BY <1>5 DEF AdmitStart, Stale, Permitted
<1>6. CASE AdmitFails
  BY <1>6 DEF AdmitFails, Refuse
<1>7. CASE AppendStarted
  BY <1>7 DEF AppendStarted
<1>8. CASE AppendStartedFails
  <2>1. RowInv'
    BY <1>8 DEF AppendStartedFails, Decide
  <2>2. RunInv'
    BY <1>8 DEF AppendStartedFails, Decide
  <2>3. HandlerInv'
    <3>1. cur \in Command /\ cur.id \in RequestId /\ cur.id \notin effects /\ runs[cur.id] = 0
      BY <1>8 DEF AppendStartedFails, Decide
    <3>2. ~outcome'.executed /\ outcome'.executed \in BOOLEAN
      BY <1>8 DEF AppendStartedFails, Decide
    <3>3. pc' = "stamp" /\ UNCHANGED <<status, request, cur, runs, effects>>
      BY <1>8 DEF AppendStartedFails, Decide
    <3>4. outcome'.executed = (cur'.id \in effects')
      BY <3>1, <3>2, <3>3
    <3> QED BY <3>1, <3>3, <3>4
  <2>4. AdmitInv'
    BY <1>8 DEF AppendStartedFails, Decide
  <2>5. StampInv'
    BY <1>8 DEF AppendStartedFails, Decide
  <2>6. ReceiptTruth'
    BY <1>8 DEF AppendStartedFails, Decide
  <2>7. AnswerIsDurable'
    BY <1>8 DEF AppendStartedFails, Decide
  <2>8. RevisionNamesOneMutation'
    BY <1>8 DEF AppendStartedFails, Decide
  <2>9. ExpectedRevisionHonoured'
    BY <1>8 DEF AppendStartedFails, Decide
  <2> HIDE DEF RowInv, RunInv, HandlerInv, AdmitInv, StampInv, ReceiptTruth, AnswerIsDurable, RevisionNamesOneMutation, ExpectedRevisionHonoured
  <2> QED BY <2>1, <2>2, <2>3, <2>4, <2>5, <2>6, <2>7, <2>8, <2>9 DEF IInv
<1>9. CASE Execute
  <2>1. RowInv'
    BY <1>9 DEF Execute, ExecutorOutcome, Outcome
  <2>2. RunInv'
    BY <1>9 DEF Execute, ExecutorOutcome, Outcome
  <2>3. HandlerInv'
    BY <1>9 DEF Execute, ExecutorOutcome, Outcome
  <2>4. AdmitInv'
    BY <1>9 DEF Execute, ExecutorOutcome, Outcome
  <2>5. StampInv'
    BY <1>9 DEF Execute, ExecutorOutcome, Outcome
  <2>6. ReceiptTruth'
    BY <1>9 DEF Execute, ExecutorOutcome, Outcome
  <2>7. AnswerIsDurable'
    BY <1>9 DEF Execute, ExecutorOutcome, Outcome
  <2>8. RevisionNamesOneMutation'
    BY <1>9 DEF Execute, ExecutorOutcome, Outcome
  <2>9. ExpectedRevisionHonoured'
    BY <1>9 DEF Execute, ExecutorOutcome, Outcome
  <2> HIDE DEF RowInv, RunInv, HandlerInv, AdmitInv, StampInv, ReceiptTruth, AnswerIsDurable, RevisionNamesOneMutation, ExpectedRevisionHonoured
  <2> QED BY <2>1, <2>2, <2>3, <2>4, <2>5, <2>6, <2>7, <2>8, <2>9 DEF IInv
<1>10. CASE StampRevision
  <2>1. RowInv'
    BY <1>10 DEF StampRevision
  <2>2. RunInv'
    BY <1>10 DEF StampRevision
  <2>3. HandlerInv'
    BY <1>10 DEF StampRevision
  <2>4. AdmitInv'
    BY <1>10 DEF StampRevision
  <2>5. StampInv'
    BY <1>10 DEF StampRevision, Receipt
  <2>6. ReceiptTruth'
    BY <1>10 DEF StampRevision
  <2>7. AnswerIsDurable'
    BY <1>10 DEF StampRevision
  <2>8. RevisionNamesOneMutation'
    BY <1>10 DEF StampRevision
  <2>9. ExpectedRevisionHonoured'
    BY <1>10 DEF StampRevision
  <2> HIDE DEF RowInv, RunInv, HandlerInv, AdmitInv, StampInv, ReceiptTruth, AnswerIsDurable, RevisionNamesOneMutation, ExpectedRevisionHonoured
  <2> QED BY <2>1, <2>2, <2>3, <2>4, <2>5, <2>6, <2>7, <2>8, <2>9 DEF IInv
<1>11. CASE Complete
  <2>1. RowInv'
    <3>1. receipt'[cur.id] \in Receipt
      BY <1>11 DEF Complete, Receipt, Outcome
    <3> QED BY <3>1, <1>11 DEF Complete
  <2>2. RunInv'
    BY <1>11 DEF Complete
  <2>3. HandlerInv'
    BY <1>11 DEF Complete
  <2>4. AdmitInv'
    BY <1>11 DEF Complete
  <2>5. StampInv'
    BY <1>11 DEF Complete
  <2>6. ReceiptTruth'
    BY <1>11 DEF Complete
  <2>7. AnswerIsDurable'
    BY <1>11 DEF Complete
  <2>8. RevisionNamesOneMutation'
    BY <1>11 DEF Complete
  <2>9. ExpectedRevisionHonoured'
    BY <1>11 DEF Complete
  <2> HIDE DEF RowInv, RunInv, HandlerInv, AdmitInv, StampInv, ReceiptTruth, AnswerIsDurable, RevisionNamesOneMutation, ExpectedRevisionHonoured
  <2> QED BY <2>1, <2>2, <2>3, <2>4, <2>5, <2>6, <2>7, <2>8, <2>9 DEF IInv
<1>12. CASE ReceiptFails
  BY <1>12 DEF ReceiptFails, Refuse
<1>13. CASE StampSwitch
  <2>1. RowInv'
    BY <1>13 DEF StampSwitch
  <2>2. RunInv'
    BY <1>13 DEF StampSwitch
  <2>3. HandlerInv'
    BY <1>13 DEF StampSwitch
  <2>4. AdmitInv'
    BY <1>13 DEF StampSwitch
  <2>5. StampInv'
    BY <1>13 DEF StampSwitch, Receipt
  <2>6. ReceiptTruth'
    BY <1>13 DEF StampSwitch
  <2>7. AnswerIsDurable'
    BY <1>13 DEF StampSwitch
  <2>8. RevisionNamesOneMutation'
    BY <1>13 DEF StampSwitch
  <2>9. ExpectedRevisionHonoured'
    BY <1>13 DEF StampSwitch
  <2> HIDE DEF RowInv, RunInv, HandlerInv, AdmitInv, StampInv, ReceiptTruth, AnswerIsDurable, RevisionNamesOneMutation, ExpectedRevisionHonoured
  <2> QED BY <2>1, <2>2, <2>3, <2>4, <2>5, <2>6, <2>7, <2>8, <2>9 DEF IInv
<1>14. CASE StampSwitchFails
  BY <1>14 DEF StampSwitchFails, Refuse
<1>15. CASE WorldChanges
  BY <1>15 DEF WorldChanges
<1>16. CASE Crash
  BY <1>16 DEF Crash
<1>17. CASE Restart
  BY <1>17 DEF Restart
<1>18. CASE UNCHANGED vars
  BY <1>18
     DEF vars
<1> HIDE DEF IInv, RowInv, RunInv, HandlerInv, AdmitInv, StampInv,
     ReceiptTruth, AnswerIsDurable, RevisionNamesOneMutation, ExpectedRevisionHonoured,
     IsMutation, CountsAsMutation, TypeOK, durable, world, handler, NoReply, Answer, Command
<1> QED
  BY <1>1, <1>2, <1>3, <1>4, <1>5, <1>6, <1>7, <1>8, <1>9, <1>10,
     <1>11, <1>12, <1>13, <1>14, <1>15, <1>16, <1>17, <1>18
     DEF Next, Step

\* The inductive invariant holds in every reachable state.
LEMMA AlwaysIInv == Spec => []IInv
BY InitIInv, StepIInv, PTL DEF Spec

\* At most once, for any number of requests, retries, failures and restarts.
THEOREM ExecutesAtMostOnce == Spec => []AtMostOnceExecution
<1>1. IInv => AtMostOnceExecution
  <2> SUFFICES ASSUME IInv, NEW i \in RequestId PROVE runs[i] <= 1
    BY DEF AtMostOnceExecution
  <2>1. runs[i] = 0 \/ runs[i] = 1
    BY DEF IInv, RunInv
  <2> QED BY <2>1
<1> QED
  BY <1>1, AlwaysIInv, PTL

\* Stored receipts say what the executor did, and answers sent are stored ones.
THEOREM ReceiptsAreTrue == Spec => [](ReceiptTruth /\ AnswerIsDurable)
<1>1. IInv => ReceiptTruth /\ AnswerIsDurable
  BY DEF IInv
<1> QED
  BY <1>1, AlwaysIInv, PTL

\* No two mutations are stored under one revision.
THEOREM RevisionsAreOrdered == Spec => []RevisionNamesOneMutation
<1>1. IInv => RevisionNamesOneMutation
  BY DEF IInv
<1> QED
  BY <1>1, AlwaysIInv, PTL

\* What a stored receipt answers to a command with an expectedRevision was
\* produced from that revision.
THEOREM ExpectationsAreHonoured == Spec => []ExpectedRevisionHonoured
<1>1. IInv => ExpectedRevisionHonoured
  BY DEF IInv
<1> QED
  BY <1>1, AlwaysIInv, PTL

\* Of two effects under one expected revision, only one has a stored receipt.
OneEffectAnswered ==
    \A i, j \in effects :
        /\ status[i] = "complete" /\ status[j] = "complete"
        /\ request[i].cap \in Mutating /\ request[j].cap \in Mutating
        /\ request[i].expect # NoExpectation
        /\ request[i].expect = request[j].expect
        => i = j

(* What holds of optimistic concurrency across crashes: of two mutations   *)
(* that expect the same revision and both changed the device, one has no   *)
(* stored receipt, so that only one was ever answered (ledger_complete).   *)
THEOREM DoubleEffectIsUnanswered == Spec => []OneEffectAnswered
<1>1. IInv => OneEffectAnswered
  <2> SUFFICES ASSUME IInv, NEW i \in effects, NEW j \in effects,
                      status[i] = "complete", status[j] = "complete",
                      request[i].cap \in Mutating, request[j].cap \in Mutating,
                      request[i].expect # NoExpectation, request[i].expect = request[j].expect
               PROVE  i = j
    BY DEF OneEffectAnswered
  <2>1. i \in RequestId /\ j \in RequestId
    BY DEF IInv, TypeOK
  <2>2. receipt[i].executed /\ receipt[j].executed
    BY <2>1 DEF IInv, ReceiptTruth
  <2>3. receipt[i].revision = request[i].expect + 1 /\ receipt[j].revision = request[j].expect + 1
    BY <2>1, <2>2 DEF IInv, ExpectedRevisionHonoured
  <2> QED BY <2>1, <2>2, <2>3 DEF IInv, RevisionNamesOneMutation, IsMutation
<1> QED BY <1>1, AlwaysIInv, PTL
-----------------------------------------------------------------------------
\* Which actions write the ledger rows, and which enters the executor.
LEMMA RowWriters ==
    ASSUME Next
    PROVE  \/ UNCHANGED <<status, request, receipt>>
           \/ \E c \in Command : ReserveNew(c)
           \/ Complete
BY DEF Next, Submit, Step, ReserveReplay, ReserveConflict, ReserveIndeterminate, ReserveFails,
   SwitchCapability, AdmitReject, AdmitUnavailable, AdmitStart, AdmitFails, AppendStarted,
   AppendStartedFails, Execute, StampRevision, ReceiptFails, StampSwitch, StampSwitchFails,
   WorldChanges, Crash, Restart, Decide, Refuse, durable

\* Only Execute enters an executor or changes the device.
LEMMA ExecutorEntry ==
    ASSUME Next
    PROVE  UNCHANGED <<runs, effects>> \/ Execute
BY DEF Next, Submit, Step, ReserveNew, ReserveReplay, ReserveConflict, ReserveIndeterminate,
   ReserveFails, SwitchCapability, AdmitReject, AdmitUnavailable, AdmitStart, AdmitFails,
   AppendStarted, AppendStartedFails, StampRevision, Complete, ReceiptFails, StampSwitch,
   StampSwitchFails, WorldChanges, Crash, Restart, Decide, Refuse

\* A stored receipt and a binding are never rewritten.
THEOREM StoredReceiptIsFinal == Spec => LedgerIsFinal
<1> DEFINE Final == \A i \in RequestId :
        /\ status[i] = "complete" => status'[i] = "complete" /\ receipt'[i] = receipt[i]
        /\ status[i] # "absent" => status'[i] # "absent" /\ request'[i] = request[i]
<1>1. IInv /\ [Next]_vars => [Final]_vars
  <2> SUFFICES ASSUME IInv, Next PROVE Final
    OBVIOUS
  <2>1. CASE UNCHANGED <<status, request, receipt>>
    BY <2>1
  <2>2. ASSUME NEW c \in Command, ReserveNew(c) PROVE Final
    BY <2>2 DEF ReserveNew, Command, IInv, TypeOK
  <2>3. CASE Complete
    BY <2>3 DEF Complete, Command, IInv, TypeOK
  <2> QED BY <2>1, <2>2, <2>3, RowWriters
<1> QED
  BY <1>1, AlwaysIInv, PTL DEF Spec, LedgerIsFinal

\* Authority and revision hold at the moment the executor runs.
THEOREM ExecutionIsAdmitted == Spec => ExecutesOnlyAdmitted
<1> DEFINE Admitted == \A i \in RequestId : runs'[i] # runs[i] =>
        /\ <<cur.caller, cur.cap>> \in permitted
        /\ cur.expect \in {NoExpectation, revision}
        /\ i = cur.id /\ status[i] = "pending" /\ request[i] = cur
<1>1. IInv /\ [Next]_vars => [Admitted]_vars
  <2> SUFFICES ASSUME IInv, Next PROVE Admitted
    OBVIOUS
  <2>1. CASE UNCHANGED <<runs, effects>>
    BY <2>1
  <2>2. CASE Execute
    BY <2>2 DEF Execute, IInv, TypeOK, HandlerInv, AdmitInv, Command
  <2> QED BY <2>1, <2>2, ExecutorEntry
<1> QED
  BY <1>1, AlwaysIInv, PTL DEF Spec, ExecutesOnlyAdmitted
-----------------------------------------------------------------------------
\* The gateway implements AtMostOnce: reserving accepts, the executor performs,
\* ledger_complete settles, and every other step stutters.
THEOREM GatewayImplementsAtMostOnce == Spec => ImplementsAtMostOnce
<1> USE DEF Promise!vars
<1>1. Init => Promise!Init
  BY DEF Init, Promise!Init
<1>2. IInv /\ [Next]_vars => [Promise!Next]_(Promise!vars)
  <2> SUFFICES ASSUME IInv, [Next]_vars PROVE [Promise!Next]_(Promise!vars)
    OBVIOUS
  <2>1. CASE UNCHANGED vars
    BY <2>1 DEF vars, durable
  <2>2. ASSUME NEW c \in Command, ReserveNew(c) PROVE Promise!Accept(c)
    BY <2>2 DEF ReserveNew, Promise!Accept, Command, IInv, TypeOK
  <2>3. CASE Execute
    <3>1. cur.id \in RequestId /\ status[cur.id] = "pending" /\ runs[cur.id] = 0
      BY <2>3 DEF Execute, Command, IInv, TypeOK, HandlerInv
    <3>2. runs' = [runs EXCEPT ![cur.id] = 1] /\ effects' \in {effects, effects \union {cur.id}}
      BY <3>1, <2>3 DEF Execute, IInv, TypeOK
    <3>3. UNCHANGED <<status, request, receipt>>
      BY <2>3 DEF Execute, durable
    <3>4. Promise!Perform(cur.id)
      BY <3>1, <3>2, <3>3 DEF Promise!Perform
    <3> QED BY <3>1, <3>4 DEF Promise!Next
  <2>4. CASE Complete
    <3> DEFINE r == [executed |-> outcome.executed, ok |-> outcome.ok,
                     allowed |-> outcome.allowed, revision |-> stamp]
    <3>1. cur.id \in RequestId /\ status[cur.id] = "pending"
          /\ outcome.executed = (cur.id \in effects)
      BY <2>4 DEF Complete, Command, IInv, TypeOK, HandlerInv
    <3>2. /\ status' = [status EXCEPT ![cur.id] = "complete"]
          /\ receipt' = [receipt EXCEPT ![cur.id] = r]
          /\ UNCHANGED <<request, runs, effects>>
      BY <2>4 DEF Complete
    <3>3. receipt'[cur.id] = r /\ r \in Receipt
      BY <3>1, <3>2 DEF IInv, TypeOK, Receipt, Outcome
    <3>0. PICK k \in RequestId : k = cur.id
      BY <3>1
    <3>4. Promise!Settle(k)
      <4>1. receipt'[k].executed = (k \in effects)
        BY <3>0, <3>1, <3>3
      <4>2. receipt' = [receipt EXCEPT ![k] = receipt'[k]]
        BY <3>0, <3>2, <3>3
      <4>3. receipt'[k] \in Receipt
        BY <3>0, <3>3
      <4>4. status \in [RequestId -> {"absent", "pending", "complete"}]
        BY DEF IInv, TypeOK
      <4> HIDE DEF r
      <4>5. [i \in RequestId |-> CASE status'[i] = "absent"   -> "new"
                                  [] status'[i] = "pending"  -> "open"
                                  [] status'[i] = "complete" -> "done"]
            = [[i \in RequestId |-> CASE status[i] = "absent"   -> "new"
                                     [] status[i] = "pending"  -> "open"
                                     [] status[i] = "complete" -> "done"]
               EXCEPT ![k] = "done"]
        BY <3>0, <3>1, <3>2, <4>4
      <4> QED BY <3>0, <3>1, <3>2, <4>1, <4>2, <4>3, <4>5 DEF Promise!Settle
    <3> QED BY <3>4 DEF Promise!Next
  <2>5. CASE UNCHANGED <<status, request, receipt, runs, effects>>
    BY <2>5
  <2>6. \/ UNCHANGED vars
        \/ \E c \in Command : ReserveNew(c)
        \/ Execute \/ Complete
        \/ UNCHANGED <<status, request, receipt, runs, effects>>
    BY RowWriters, ExecutorEntry
  <2> QED BY <2>1, <2>2, <2>3, <2>4, <2>5, <2>6 DEF Promise!Next
<1> QED
  BY <1>1, <1>2, AlwaysIInv, PTL DEF Spec, ImplementsAtMostOnce, Promise!Spec
-----------------------------------------------------------------------------
(* The event log                                                           *)

Accepted(i) == Len(events[i]) = 1 /\ events[i][1].kind = "accepted"
Begun(i) ==
    Len(events[i]) = 2 /\ events[i][1].kind = "accepted" /\ events[i][2].kind = "started"
Closed(i) ==
    \/ Len(events[i]) = 2 /\ events[i][1].kind = "accepted" /\ events[i][2].kind \in Terminal
    \/ /\ Len(events[i]) = 3 /\ events[i][1].kind = "accepted"
       /\ events[i][2].kind = "started" /\ events[i][3].kind \in Terminal

\* How long the log of each request is and what stands in it; the handler
\* knows whether its own request was started.
LogInv ==
    /\ \A i \in RequestId :
          /\ status[i] = "absent" => events[i] = <<>>
          /\ status[i] = "pending" =>
                (Accepted(i) \/ Begun(i)) /\ (runs[i] > 0 => Begun(i))
          /\ status[i] = "complete" => Closed(i) /\ (runs[i] > 0 => Len(events[i]) = 3)
    /\ pc \in {"admit", "start"} => Accepted(cur.id)
    /\ pc = "execute" => Begun(cur.id)

\* A log appended to has one more event, the appended one.
LEMMA Appended ==
    ASSUME TypeOK, NEW i \in RequestId, NEW kind \in Kinds, NEW rev \in Nat,
           AppendEvent(i, kind, rev)
    PROVE  /\ \A j \in RequestId \ {i} : events'[j] = events[j]
           /\ Len(events'[i]) = Len(events[i]) + 1
           /\ events'[i][Len(events[i]) + 1].kind = kind
           /\ \A n \in 1..Len(events[i]) : events'[i][n] = events[i][n]
<1> DEFINE e == Event(kind, rev)
<1>1. events[i] \in Seq([kind : Kinds, revision : Nat])
  BY DEF TypeOK
<1>2. e \in [kind : Kinds, revision : Nat] /\ e.kind = kind
  BY DEF Event
<1>3. events' = [events EXCEPT ![i] = Append(events[i], e)]
  BY DEF AppendEvent
<1>4. events'[i] = Append(events[i], e) /\ \A j \in RequestId \ {i} : events'[j] = events[j]
  BY <1>3 DEF TypeOK
<1> HIDE DEF e
<1> QED BY <1>1, <1>2, <1>4

\* The empty ledger has empty logs.
LEMMA InitLogInv == Init => LogInv
BY DEF Init, LogInv

\* Which actions append to the log, and what the others change.
LEMMA LogWriters ==
    ASSUME Next
    PROVE  \/ \E c \in Command : ReserveNew(c)
           \/ AppendStarted
           \/ Complete
           \/ Execute
           \/ /\ UNCHANGED <<status, events, runs>>
              /\ \/ pc' \notin {"admit", "start", "execute"}
                 \/ pc = "admit" /\ pc' = "start" /\ UNCHANGED cur
                 \/ UNCHANGED <<pc, cur>>
BY DEF Next, Submit, Step, ReserveReplay, ReserveConflict, ReserveIndeterminate, ReserveFails,
   SwitchCapability, AdmitReject, AdmitUnavailable, AdmitStart, AdmitFails,
   AppendStartedFails, StampRevision, ReceiptFails, StampSwitch,
   StampSwitchFails, WorldChanges, Crash, Restart, Decide, Refuse, durable, handler

\* Every step keeps the logs in step with the rows and the handler.
LEMMA StepLogInv == IInv /\ LogInv /\ [Next]_vars => LogInv'
<1> SUFFICES ASSUME IInv, LogInv, [Next]_vars PROVE LogInv'
  OBVIOUS
<1>0. TypeOK /\ RowInv /\ RunInv /\ HandlerInv
  BY DEF IInv
<1>1. CASE UNCHANGED vars
  BY <1>1 DEF vars, durable, handler, LogInv, Accepted, Begun, Closed
<1>2. ASSUME NEW c \in Command, ReserveNew(c) PROVE LogInv'
  <2>1. PICK k \in RequestId : k = c.id
    BY DEF Command
  <2>2. Len(events[k]) = 0 /\ runs[k] = 0 /\ revision \in Nat
    BY <1>0, <1>2, <2>1 DEF ReserveNew, LogInv, RowInv, TypeOK
  <2>3. AppendEvent(k, "accepted", revision)
    BY <1>2, <2>1 DEF ReserveNew
  <2>4. "accepted" \in Kinds
    BY DEF Kinds
  <2>5. /\ \A j \in RequestId \ {k} : events'[j] = events[j]
        /\ Len(events'[k]) = Len(events[k]) + 1
        /\ events'[k][Len(events[k]) + 1].kind = "accepted"
    BY <1>0, <2>2, <2>3, <2>4, Appended
  <2>6. /\ status'[k] = "pending" /\ \A j \in RequestId \ {k} : status'[j] = status[j]
        /\ pc' = "admit" /\ cur' = c /\ runs' = runs
    BY <1>0, <1>2, <2>1 DEF ReserveNew, TypeOK
  <2> QED BY <2>1, <2>2, <2>5, <2>6 DEF LogInv, Accepted, Begun, Closed
<1>3. CASE AppendStarted
  <2>1. PICK k \in RequestId : k = cur.id
    BY <1>0, <1>3 DEF AppendStarted, TypeOK, Command
  <2>2. Accepted(k) /\ status[k] = "pending" /\ revision \in Nat
    BY <1>0, <1>3, <2>1 DEF AppendStarted, LogInv, TypeOK, HandlerInv
  <2>3. AppendEvent(k, "started", revision)
    BY <1>3, <2>1 DEF AppendStarted
  <2>4. "started" \in Kinds
    BY DEF Kinds
  <2>5. /\ \A j \in RequestId \ {k} : events'[j] = events[j]
        /\ Len(events'[k]) = Len(events[k]) + 1
        /\ events'[k][Len(events[k]) + 1].kind = "started"
        /\ \A n \in 1..Len(events[k]) : events'[k][n] = events[k][n]
    BY <1>0, <2>2, <2>3, <2>4, Appended
  <2>6. Begun(k)'
    BY <2>2, <2>5 DEF Accepted, Begun
  <2>7. pc' = "execute" /\ UNCHANGED <<status, cur, runs>>
    BY <1>3 DEF AppendStarted, handler
  <2> QED BY <2>1, <2>2, <2>5, <2>6, <2>7 DEF LogInv, Accepted, Begun, Closed
<1>4. CASE Execute
  <2>1. /\ Begun(cur.id) /\ status[cur.id] = "pending" /\ cur.id \in RequestId
        /\ pc' = "stamp" /\ UNCHANGED <<status, events>>
        /\ \A j \in RequestId \ {cur.id} : runs'[j] = runs[j]
    BY <1>0, <1>4 DEF Execute, LogInv, TypeOK, HandlerInv, Command, durable
  <2> QED BY <2>1 DEF LogInv, Accepted, Begun, Closed
<1>5. CASE Complete
  <2>1. PICK k \in RequestId : k = cur.id
    BY <1>0, <1>5 DEF Complete, TypeOK, Command
  <2>2. status[k] = "pending" /\ TerminalKind \in Terminal /\ stamp \in Nat
    BY <1>0, <1>5, <2>1 DEF Complete, TypeOK, TerminalKind, Terminal
  <2>3. (Accepted(k) \/ Begun(k)) /\ (runs[k] > 0 => Begun(k))
    BY <2>2 DEF LogInv
  <2>4. AppendEvent(k, TerminalKind, stamp)
    BY <1>5, <2>1 DEF Complete
  <2>5. /\ \A j \in RequestId \ {k} : events'[j] = events[j]
        /\ Len(events'[k]) = Len(events[k]) + 1
        /\ events'[k][Len(events[k]) + 1].kind = TerminalKind
        /\ \A n \in 1..Len(events[k]) : events'[k][n] = events[k][n]
    BY <1>0, <2>2, <2>4, Appended DEF Kinds, Terminal
  <2>6. /\ status'[k] = "complete" /\ \A j \in RequestId \ {k} : status'[j] = status[j]
        /\ pc' = "idle" /\ runs' = runs
    BY <1>0, <1>5, <2>1 DEF Complete, TypeOK
  <2>7. Closed(k)' /\ (Begun(k) => Len(events'[k]) = 3)
    <3>1. CASE Accepted(k)
      BY <2>2, <2>5, <3>1 DEF Accepted, Begun, Closed
    <3>2. CASE Begun(k)
      BY <2>2, <2>5, <3>2 DEF Begun, Closed
    <3> QED BY <2>3, <3>1, <3>2
  <2>8. ASSUME NEW j \in RequestId \ {k}
        PROVE  /\ Accepted(j)' = Accepted(j) /\ Begun(j)' = Begun(j) /\ Closed(j)' = Closed(j)
               /\ UNCHANGED <<events[j], status[j], runs[j]>>
    BY <2>5, <2>6 DEF Accepted, Begun, Closed
  <2> QED BY <2>3, <2>6, <2>7, <2>8 DEF LogInv
<1>6. CASE /\ UNCHANGED <<status, events, runs>>
           /\ \/ pc' \notin {"admit", "start", "execute"}
              \/ pc = "admit" /\ pc' = "start" /\ UNCHANGED cur
              \/ UNCHANGED <<pc, cur>>
  BY <1>6 DEF LogInv, Accepted, Begun, Closed
<1> QED BY <1>1, <1>2, <1>3, <1>4, <1>5, <1>6, LogWriters

\* The kinds of a log are the tuple of its events' kinds.
LEMMA KindsOfLog ==
    ASSUME TypeOK, NEW i \in RequestId
    PROVE  /\ events[i] = <<>> => EventKinds(i) = <<>>
           /\ Len(events[i]) = 1 => EventKinds(i) = <<events[i][1].kind>>
           /\ Len(events[i]) = 2 => EventKinds(i) = <<events[i][1].kind, events[i][2].kind>>
           /\ Len(events[i]) = 3 =>
                EventKinds(i) = <<events[i][1].kind, events[i][2].kind, events[i][3].kind>>
<1>0. events[i] \in Seq([kind : Kinds, revision : Nat])
  BY DEF TypeOK
<1>1. DOMAIN events[i] = 1..Len(events[i])
  BY <1>0
<1>2. ASSUME events[i] = <<>> PROVE EventKinds(i) = <<>>
  BY <1>1, <1>2 DEF EventKinds
<1>3. ASSUME Len(events[i]) = 1 PROVE EventKinds(i) = <<events[i][1].kind>>
  <2>1. DOMAIN events[i] = 1..1
    BY <1>1, <1>3
  <2> QED BY <2>1 DEF EventKinds
<1>4. ASSUME Len(events[i]) = 2
      PROVE  EventKinds(i) = <<events[i][1].kind, events[i][2].kind>>
  <2>1. DOMAIN events[i] = 1..2
    BY <1>1, <1>4
  <2> QED BY <2>1 DEF EventKinds
<1>5. ASSUME Len(events[i]) = 3
      PROVE  EventKinds(i) = <<events[i][1].kind, events[i][2].kind, events[i][3].kind>>
  <2>1. DOMAIN events[i] = 1..3
    BY <1>1, <1>5
  <2> QED BY <2>1 DEF EventKinds
<1> QED BY <1>2, <1>3, <1>4, <1>5

\* The event log of a request tells how far it got.
THEOREM LogsTellProgress == Spec => []EventsTellProgress
<1>1. IInv /\ LogInv => EventsTellProgress
  <2> SUFFICES ASSUME IInv, LogInv, NEW i \in RequestId
               PROVE  CASE status[i] = "absent"   -> EventKinds(i) = <<>>
                        [] status[i] = "pending"  ->
                             /\ EventKinds(i) \in {<<"accepted">>, <<"accepted", "started">>}
                             /\ runs[i] > 0 => Len(events[i]) = 2
                        [] status[i] = "complete" ->
                             /\ EventKinds(i) \in {<<"accepted", k>> : k \in Terminal}
                                     \union {<<"accepted", "started", k>> : k \in Terminal}
                             /\ runs[i] > 0 => Len(events[i]) = 3
    BY DEF EventsTellProgress
  <2>0. TypeOK /\ status[i] \in {"absent", "pending", "complete"}
    BY DEF IInv, TypeOK
  <2>1. CASE status[i] = "absent"
    BY <2>0, <2>1, KindsOfLog DEF LogInv
  <2>2. CASE status[i] = "pending"
    BY <2>0, <2>2, KindsOfLog DEF LogInv, Accepted, Begun
  <2>3. CASE status[i] = "complete"
    BY <2>0, <2>3, KindsOfLog DEF LogInv, Closed
  <2> QED BY <2>0, <2>1, <2>2, <2>3
<1> QED
  BY <1>1, InitLogInv, StepLogInv, AlwaysIInv, PTL DEF Spec
=============================================================================
