------------------------- MODULE PolicyStoreProofs -------------------------
(***************************************************************************)
(* What holds of PolicyStore for any registry and any number of failing    *)
(* file operations and deaths.                                             *)
(***************************************************************************)
EXTENDS PolicyStore, TLAPS

\* How much of a change has been done at each control point.
LoopInv ==
    /\ pc = "mark" => disabled = target
    /\ pc \in {"apply", "commit"} => target = Narrowed(goal)
    /\ pc = "apply" => \A c \in Capability : c < at => (c \in disabled <=> c \in target)
    /\ pc = "commit" => disabled = target

IInv == TypeOK /\ LoopInv /\ BetweenOldAndNew /\ ModeTellsSwitches

\* What a mode leaves disabled is a set of capabilities.
LEMMA NarrowedType == \A m \in Mode : Narrowed(m) \subseteq Capability
BY DEF Narrowed

\* Setting the capability that the loop has reached makes the set agree with the
\* target up to there.
LEMMA LoopAdvances ==
    ASSUME NEW D, NEW T, NEW k \in Capability, D \subseteq Capability, T \subseteq Capability,
           \A c \in Capability : c < k => (c \in D <=> c \in T),
           NEW E, E = IF k \notin T THEN D \ {k} ELSE D \union {k}
    PROVE  /\ \A c \in Capability : c < k + 1 => (c \in E <=> c \in T)
           /\ k = Count => E = T
<1>1. ASSUME NEW c \in Capability, c < k + 1 PROVE c \in E <=> c \in T
  <2>1. c < k \/ c = k
    BY <1>1, PolicyAssumption DEF Capability
  <2> QED
    BY <2>1
<1>2. ASSUME k = Count PROVE E = T
  <2>1. \A c \in Capability : c < k + 1
    BY <1>2, PolicyAssumption DEF Capability
  <2>2. E \subseteq Capability
    OBVIOUS
  <2> QED
    BY <1>1, <2>1, <2>2
<1> QED
  BY <1>1, <1>2

\* The store starts without switches, mode or request.
LEMMA InitInv == Init => IInv
BY PolicyAssumption DEF Init, IInv, TypeOK, LoopInv, BetweenOldAndNew, ModeTellsSwitches,
   Reported, Narrowed, Capability, Mode

\* Every step keeps the types.
LEMMA StepTypeOK == IInv /\ [Next]_vars => TypeOK'
<1> SUFFICES ASSUME IInv, [Next]_vars PROVE TypeOK'
  OBVIOUS
<1> USE PolicyAssumption, NarrowedType DEF IInv, TypeOK
<1>1. ASSUME NEW c \in Capability, NEW on \in BOOLEAN, Switch(c, on) PROVE TypeOK'
  BY <1>1 DEF Switch, Begin, Set, Return, count
<1>2. ASSUME NEW c \in Capability, NEW on \in BOOLEAN, SwitchFails(c, on) PROVE TypeOK'
  BY <1>2 DEF SwitchFails, Begin, Set, Torn, Return, Fault
<1>3. CASE Mark
  BY <1>3 DEF Mark, Return, ghost, count
<1>4. CASE MarkFails
  BY <1>4 DEF MarkFails, Return, Fault, store, ghost
<1>5. ASSUME NEW m \in Mode, SetMode(m) PROVE TypeOK'
  BY <1>5 DEF SetMode, Begin, store, count, Capability
<1>6. CASE Apply
  BY <1>6 DEF Apply, Set, ghost, count, Capability
<1>7. CASE ApplyFails
  BY <1>7 DEF ApplyFails, Torn, Set, Return, Fault, ghost
<1>8. CASE Commit
  BY <1>8 DEF Commit, Return, ghost, count
<1>9. CASE CommitFails
  BY <1>9 DEF CommitFails, Return, Fault, store, ghost
<1>10. CASE Dies
  BY <1>10 DEF Dies, Return, store, ghost
<1>11. CASE UNCHANGED vars
  BY <1>11 DEF vars, store, ghost, count
<1> QED
  BY <1>1, <1>2, <1>3, <1>4, <1>5, <1>6, <1>7, <1>8, <1>9, <1>10, <1>11 DEF Next

\* Every step keeps what the loop of rt_policy_set_mode has done so far.
LEMMA StepLoop == IInv /\ [Next]_vars => LoopInv' /\ BetweenOldAndNew'
<1> SUFFICES ASSUME IInv, [Next]_vars PROVE LoopInv' /\ BetweenOldAndNew'
  OBVIOUS
<1> USE PolicyAssumption, NarrowedType DEF IInv, TypeOK, LoopInv, BetweenOldAndNew
<1>1. ASSUME NEW c \in Capability, NEW on \in BOOLEAN, Switch(c, on)
      PROVE  LoopInv' /\ BetweenOldAndNew'
  BY <1>1 DEF Switch, Begin, Set, Return
<1>2. ASSUME NEW c \in Capability, NEW on \in BOOLEAN, SwitchFails(c, on)
      PROVE  LoopInv' /\ BetweenOldAndNew'
  BY <1>2 DEF SwitchFails, Begin, Set, Torn, Return
<1>3. CASE Mark
  BY <1>3 DEF Mark, Return, ghost
<1>4. CASE MarkFails
  BY <1>4 DEF MarkFails, Return, store, ghost
<1>5. ASSUME NEW m \in Mode, SetMode(m) PROVE LoopInv' /\ BetweenOldAndNew'
  BY <1>5 DEF SetMode, Begin, store, Capability
<1>6. CASE Apply
  <2>1. disabled' = IF at \notin target THEN disabled \ {at} ELSE disabled \union {at}
    BY <1>6 DEF Apply, Set, Wanted
  <2>2. /\ \A c \in Capability : c < at + 1 => (c \in disabled' <=> c \in target)
        /\ at = Count => disabled' = target
    <3>1. /\ at \in Capability /\ disabled \subseteq Capability /\ target \subseteq Capability
          /\ \A c \in Capability : c < at => (c \in disabled <=> c \in target)
      BY <1>6 DEF Apply
    <3> HIDE DEF IInv, TypeOK, LoopInv, BetweenOldAndNew
    <3> QED
      BY <2>1, <3>1, LoopAdvances
  <2>3. UNCHANGED <<goal, before, target>>
    BY <1>6 DEF Apply, ghost
  <2>4. LoopInv'
    BY <1>6, <2>2, <2>3 DEF Apply
  <2>5. BetweenOldAndNew'
    BY <2>1, <2>3
  <2> QED
    BY <2>4, <2>5
<1>7. CASE ApplyFails
  BY <1>7 DEF ApplyFails, Torn, Set, Wanted, Return, ghost
<1>8. CASE Commit
  BY <1>8 DEF Commit, Return, ghost
<1>9. CASE CommitFails
  BY <1>9 DEF CommitFails, Return, store, ghost
<1>10. CASE Dies
  BY <1>10 DEF Dies, Return, store, ghost
<1>11. CASE UNCHANGED vars
  BY <1>11 DEF vars, store, ghost
<1> QED
  BY <1>1, <1>2, <1>3, <1>4, <1>5, <1>6, <1>7, <1>8, <1>9, <1>10, <1>11 DEF Next

\* Every step keeps the mode and the switches in agreement.
LEMMA StepMode == IInv /\ [Next]_vars => ModeTellsSwitches'
<1> SUFFICES ASSUME IInv, [Next]_vars PROVE ModeTellsSwitches'
  OBVIOUS
<1> USE PolicyAssumption DEF IInv, TypeOK, LoopInv, ModeTellsSwitches, Reported, Narrowed
<1>1. ASSUME NEW c \in Capability, NEW on \in BOOLEAN, Switch(c, on) PROVE ModeTellsSwitches'
  BY <1>1 DEF Switch, Begin, Return, count
<1>2. ASSUME NEW c \in Capability, NEW on \in BOOLEAN, SwitchFails(c, on)
      PROVE  ModeTellsSwitches'
  BY <1>2 DEF SwitchFails, Fault
<1>3. CASE Mark
  BY <1>3 DEF Mark, Return
<1>4. CASE MarkFails
  BY <1>4 DEF MarkFails, Fault, store
<1>5. ASSUME NEW m \in Mode, SetMode(m) PROVE ModeTellsSwitches'
  BY <1>5 DEF SetMode
<1>6. CASE Apply
  BY <1>6 DEF Apply
<1>7. CASE ApplyFails
  BY <1>7 DEF ApplyFails, Fault
<1>8. CASE Commit
  BY <1>8 DEF Commit, Return, Mode
<1>9. CASE CommitFails
  BY <1>9 DEF CommitFails, Fault
<1>10. CASE Dies
  BY <1>10 DEF Dies, store
<1>11. CASE UNCHANGED vars
  BY <1>11 DEF vars, store, count
<1> QED
  BY <1>1, <1>2, <1>3, <1>4, <1>5, <1>6, <1>7, <1>8, <1>9, <1>10, <1>11 DEF Next

\* The inductive invariant holds in every reachable state.
THEOREM Invariance == Spec => []IInv
<1>1. IInv /\ [Next]_vars => IInv'
  BY StepTypeOK, StepLoop, StepMode DEF IInv
<1> QED
  BY InitInv, <1>1, PTL DEF Spec

(* Every file and local keeps its type.                                    *)
THEOREM TypeCorrect == Spec => []TypeOK
<1>1. IInv => TypeOK
  BY DEF IInv
<1> QED
  BY Invariance, <1>1, PTL

(* A policy change in progress, failed or cut short lies between the old   *)
(* policy and the new one (rt_policy_set_mode, rt_capability_set_enabled). *)
THEOREM ChangesStayBetween == Spec => []BetweenOldAndNew
<1>1. IInv => BetweenOldAndNew
  BY DEF IInv
<1> QED
  BY Invariance, <1>1, PTL

(* The reported mode tells the switches until something fails              *)
(* (rt_policy_mode_get).                                                   *)
THEOREM ModeIsTold == Spec => []ModeTellsSwitches
<1>1. IInv => ModeTellsSwitches
  BY DEF IInv
<1> QED
  BY Invariance, <1>1, PTL

(* A policy change answered with success is whole.                         *)
THEOREM SuccessfulChangesAreWhole == Spec => SuccessIsWhole
<1> DEFINE Whole ==
      pc' = "idle" /\ answer' = "ok" =>
          /\ disabled' = target'
          /\ \/ mode' = "custom"
             \/ mode' = goal' /\ disabled' = Narrowed(goal')
             \/ pc = "idle" /\ UNCHANGED store
<1>1. ASSUME IInv, Next PROVE Whole
  <2> SUFFICES ASSUME pc' = "idle", answer' = "ok" PROVE Whole
    OBVIOUS
  <2> USE <1>1 DEF IInv, LoopInv
  <2>1. ASSUME NEW c \in Capability, NEW on \in BOOLEAN, Switch(c, on) PROVE Whole
    BY <2>1 DEF Switch, Begin, store
  <2>2. CASE Mark
    BY <2>2 DEF Mark, ghost
  <2>3. CASE Commit
    BY <2>3 DEF Commit, ghost
  <2>4. ~SetMode("restricted") /\ ~SetMode("standard") /\ ~SetMode("developer")
    BY DEF SetMode
  <2>5. ~Apply
    BY DEF Apply
  <2>6. \A c \in Capability, on \in BOOLEAN : ~SwitchFails(c, on)
    BY DEF SwitchFails, Return
  <2>7. ~MarkFails /\ ~ApplyFails /\ ~CommitFails /\ ~Dies
    BY DEF MarkFails, ApplyFails, CommitFails, Dies, Return
  <2> QED
    BY <2>1, <2>2, <2>3, <2>4, <2>5, <2>6, <2>7 DEF Next, Mode
<1>2. IInv /\ [Next]_vars => [Whole]_vars
  BY <1>1
<1> QED
  BY Invariance, <1>2, PTL DEF Spec, SuccessIsWhole

(* No change of mode closes the escape hatch.                              *)
THEOREM EscapeHatchStaysOpen == Spec => HatchStaysOpen
<1> DEFINE Open == (Hatch \notin disabled /\ Hatch \in disabled') => (pc = "idle")
<1>1. ASSUME Next PROVE Open
  <2> SUFFICES ASSUME Hatch \notin disabled, Hatch \in disabled' PROVE pc = "idle"
    OBVIOUS
  <2>1. Hatch \notin Narrowed(goal)
    BY DEF Narrowed
  <2>2. ~Apply /\ ~ApplyFails
    BY <2>1 DEF Apply, ApplyFails, Torn, Set, Wanted
  <2>3. ~Mark /\ ~MarkFails /\ ~Commit /\ ~CommitFails /\ ~Dies
    BY DEF Mark, MarkFails, Commit, CommitFails, Dies, store
  <2> QED
    BY <1>1, <2>2, <2>3 DEF Next, Switch, SwitchFails, SetMode, Begin
<1>2. [Next]_vars => [Open]_vars
  BY <1>1
<1> QED
  BY <1>2, PTL DEF Spec, HatchStaysOpen
=============================================================================
