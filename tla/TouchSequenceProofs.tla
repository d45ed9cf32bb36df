------------------------ MODULE TouchSequenceProofs ------------------------
(***************************************************************************)
(* What arrives at the touch provider, and which fingers it holds, for     *)
(* every gesture and every run of them.                                    *)
(***************************************************************************)
EXTENDS UiExecutionProofs, FiniteSetTheorems

\* Events of run r that were applied or will be, unless they are lost.
Arrived(r) == Len(got[r]) + UnderWay(r)

IsTouch(r) == gesture[r].kind # "text"
Length(r)  == Len(Script(gesture[r]))
InHand(r)  == r = last /\ phase # "idle"
Sends(r)   == outcome[r] \notin {"none", "refused"} /\ (InHand(r) => sent > 0)

\* A touch of which nothing was lost.
Settled(r) == r \in cut \/ InHand(r) \/ Arrived(r) = Length(r)

\* What was applied and what is under way are the beginning of the gesture.
PrefixInv ==
    \A r \in Run :
        /\ \A i \in 1..Len(got[r]) : i <= Length(r) /\ got[r][i] = Script(gesture[r])[i]
        /\ \A i \in 1..Len(wire) : wire[i].run = r =>
              LET n == Len(got[r]) + Count(wire, i, r) IN
                  n <= Length(r) /\ wire[i].event = Script(gesture[r])[n]
        /\ ~IsTouch(r) => Arrived(r) <= MaxChars

\* Runs are taken one after the other, and only those that sent something arrive.
RunInv ==
    \A r \in Run :
        /\ InHand(r) <=> outcome[r] = "running"
        /\ Arrived(r) > 0 => r <= last /\ Sends(r)
        /\ outcome[r] # "none" => r <= last

\* What the adapter knows of the run in hand.
SentInv ==
    phase # "idle" =>
        /\ Arrived(last) <= sent
        /\ ~IsTouch(last) => sent <= MaxChars
        /\ phase = "send" /\ ~IsTouch(last) => Len(got[last]) = sent
        /\ IsTouch(last) /\ ~broken => Arrived(last) = sent
        /\ phase = "await" <=> ~IsTouch(last) /\ phase # "send"
        /\ phase = "observe" => sent = Whole

\* Over a connection that broke nothing arrives before the next gesture.
BrokenInv ==
    /\ broken => wire = <<>> /\ fingers = {}
    /\ losses = 0 => ~broken

\* What "completed" says.
DoneInv ==
    \A r \in Run : outcome[r] = "completed" =>
        IF IsTouch(r) THEN losses = 0 => Arrived(r) = Length(r) ELSE Len(got[r]) = Length(r)

\* Run q has not begun to arrive, and its first event will.
Later(q) == Len(got[q]) = 0 /\ (IsTouch(q) /\ Sends(q) => UnderWay(q) > 0)

\* The wire keeps the order of the runs.
WireInv ==
    \A i \in 1..Len(wire) :
        /\ \A j \in i..Len(wire) : wire[i].run <= wire[j].run
        /\ wire[i].run <= last
        /\ IsTouch(wire[i].run) => Settled(wire[i].run)
        /\ \A q \in Run : q > wire[i].run => Later(q)

\* Touch r put finger f on the screen, its last event has not been applied, and
\* no later touch of f has begun.
Holds(f, r) ==
    /\ IsTouch(r) /\ Finger(gesture[r]) = f
    /\ Len(got[r]) \in 1..(Length(r) - 1)
    /\ Settled(r)
    /\ \A q \in Run : q > r /\ IsTouch(q) /\ Finger(gesture[q]) = f /\ Sends(q) => Later(q)

FingerInv == \A f \in fingers : \E r \in Run : Holds(f, r)

SequenceInv == PrefixInv /\ RunInv /\ SentInv /\ BrokenInv /\ DoneInv /\ WireInv /\ FingerInv
-----------------------------------------------------------------------------
(* Counting                                                                *)

\* A count is a natural number, and counts nothing in nothing.
LEMMA CountType ==
    ASSUME NEW w, NEW n \in Nat, NEW r
    PROVE  Count(w, n, r) \in Nat /\ IsFiniteSet({i \in 1..n : w[i].run = r})
<1>1. IsFiniteSet(1..n)
  BY FS_Interval
<1>2. {i \in 1..n : w[i].run = r} \subseteq 1..n
  OBVIOUS
<1>3. IsFiniteSet({i \in 1..n : w[i].run = r})
  BY <1>1, <1>2, FS_Subset
<1> QED BY <1>3, FS_CardinalityType DEF Count

\* Among no positions there is none to count.
LEMMA CountNothing == ASSUME NEW w, NEW r PROVE Count(w, 0, r) = 0
<1>1. {i \in 1..0 : w[i].run = r} = {}
  OBVIOUS
<1> QED BY <1>1, FS_EmptySet DEF Count

\* One more position.
LEMMA CountNext ==
    ASSUME NEW w, NEW n \in Nat, NEW r
    PROVE  Count(w, n + 1, r) = Count(w, n, r) + (IF w[n + 1].run = r THEN 1 ELSE 0)
<1> DEFINE S == {i \in 1..n : w[i].run = r}
           T == {i \in 1..(n + 1) : w[i].run = r}
<1>1. IsFiniteSet(S) /\ Cardinality(S) = Count(w, n, r) /\ Cardinality(T) = Count(w, n + 1, r)
  <2>1. IsFiniteSet(S)
    <3>1. S \subseteq 1..n /\ IsFiniteSet(1..n)
      BY FS_Interval
    <3> HIDE DEF S
    <3> QED BY <3>1, FS_Subset
  <2>2. Cardinality(S) = Count(w, n, r)
    BY Zenon DEF Count
  <2>3. Cardinality(T) = Count(w, n + 1, r)
    BY Zenon DEF Count
  <2> QED BY <2>1, <2>2, <2>3
<1>2. CASE w[n + 1].run = r
  <2>1. T = S \union {n + 1} /\ n + 1 \notin S
    BY <1>2
  <2>2. Cardinality(T) = Cardinality(S) + 1
    BY <1>1, <2>1, FS_AddElement
  <2> HIDE DEF S, T
  <2> QED BY <1>1, <1>2, <2>2
<1>3. CASE w[n + 1].run # r
  <2>1. T = S
    BY <1>3
  <2>2. Count(w, n, r) \in Nat
    BY CountType
  <2> HIDE DEF S, T
  <2> QED BY <1>1, <1>3, <2>1, <2>2
<1> QED BY <1>2, <1>3

\* What is counted is the runs.
LEMMA CountSame ==
    ASSUME NEW w, NEW v, NEW n \in Nat, NEW r, \A i \in 1..n : w[i] = v[i]
    PROVE  Count(w, n, r) = Count(v, n, r)
<1>1. {i \in 1..n : w[i].run = r} = {i \in 1..n : v[i].run = r}
  OBVIOUS
<1> QED BY <1>1 DEF Count

\* More positions, more events.
LEMMA CountGrows ==
    ASSUME NEW w, NEW m \in Nat, NEW n \in Nat, m <= n, NEW r
    PROVE  Count(w, m, r) <= Count(w, n, r)
<1> DEFINE S == {i \in 1..m : w[i].run = r}
           T == {i \in 1..n : w[i].run = r}
<1>1. S \subseteq T
  OBVIOUS
<1>2. IsFiniteSet(T)
  BY CountType
<1> QED BY <1>1, <1>2, FS_Subset DEF Count

\* The first event leaves: the others move up by one.
LEMMA CountTail ==
    ASSUME NEW S, NEW w \in Seq(S), w # <<>>, NEW n \in Nat, n < Len(w), NEW r
    PROVE  Count(w, n + 1, r) = Count(Tail(w), n, r) + (IF w[1].run = r THEN 1 ELSE 0)
<1> DEFINE v == Tail(w)
           A == {i \in 1..n : v[i].run = r}
           B == {i \in 2..(n + 1) : w[i].run = r}
           T == {i \in 1..(n + 1) : w[i].run = r}
           f == [i \in A |-> i + 1]
<1>1. \A i \in 1..n : v[i] = w[i + 1]
  OBVIOUS
<1>2. f \in Bijection(A, B)
  <2>1. f \in [A -> B] /\ \A i \in A : f[i] = i + 1
    BY <1>1
  <2>2. \A i \in A : i \in Nat
    OBVIOUS
  <2>3. \A k \in B : k \in Nat /\ k - 1 \in A
    BY <1>1
  <2> HIDE DEF A, B, f
  <2>4. f \in Injection(A, B)
    <3>1. \A i, j \in A : f[i] = f[j] => i = j
      BY <2>1, <2>2
    <3> QED BY <2>1, <3>1 DEF Injection, IsInjective
  <2>5. ASSUME NEW k \in B PROVE \E i \in A : f[i] = k
    BY <2>1, <2>3
  <2>6. f \in Surjection(A, B)
    BY <2>1, <2>5 DEF Surjection
  <2> QED BY <2>4, <2>6 DEF Bijection
<1>3. /\ IsFiniteSet(A)
      /\ Cardinality(A) = Count(v, n, r) /\ Cardinality(T) = Count(w, n + 1, r)
  <2>1. IsFiniteSet(A)
    <3>1. A \subseteq 1..n /\ IsFiniteSet(1..n)
      BY FS_Interval
    <3> HIDE DEF A
    <3> QED BY <3>1, FS_Subset
  <2> QED BY <2>1 DEF Count
<1>4. Count(v, n, r) \in Nat
  BY CountType
<1>5. IsFiniteSet(B) /\ Cardinality(B) = Cardinality(A)
  BY <1>2, <1>3, FS_Bijection DEF ExistsBijection
<1>6. CASE w[1].run = r
  <2>1. T = B \union {1} /\ 1 \notin B
    BY <1>6
  <2>2. Cardinality(T) = Cardinality(B) + 1
    BY <1>5, <2>1, FS_AddElement
  <2> HIDE DEF A, B, T
  <2> QED BY <1>3, <1>4, <1>5, <1>6, <2>2
<1>7. CASE w[1].run # r
  <2>1. T = B
    BY <1>7
  <2> HIDE DEF A, B, T
  <2> QED BY <1>3, <1>4, <1>5, <1>7, <2>1
<1> QED BY <1>6, <1>7

\* How a wire that got another message is counted.
LEMMA CountAppend ==
    ASSUME NEW S, NEW w \in Seq(S), NEW m \in S, NEW r
    PROVE  LET v == Append(w, m) IN
           /\ \A i \in 1..Len(w) : v[i] = w[i] /\ Count(v, i, r) = Count(w, i, r)
           /\ Len(v) = Len(w) + 1 /\ v[Len(v)] = m
           /\ Count(v, Len(v), r) = Count(w, Len(w), r) + (IF m.run = r THEN 1 ELSE 0)
<1> DEFINE v == Append(w, m)
<1>1. /\ Len(w) \in Nat /\ Len(v) = Len(w) + 1 /\ v[Len(w) + 1] = m
      /\ \A i \in 1..Len(w) : v[i] = w[i]
  OBVIOUS
<1> HIDE DEF v
<1>2. \A n \in 0..Len(w) : Count(v, n, r) = Count(w, n, r)
  <2> SUFFICES ASSUME NEW n \in 0..Len(w) PROVE Count(v, n, r) = Count(w, n, r)
    OBVIOUS
  <2>1. n \in Nat /\ \A i \in 1..n : v[i] = w[i]
    BY <1>1
  <2> QED BY <2>1, CountSame
<1>3. Count(v, Len(v), r) = Count(v, Len(w), r) + (IF m.run = r THEN 1 ELSE 0)
  BY <1>1, CountNext
<1>4. /\ \A i \in 1..Len(w) : v[i] = w[i] /\ Count(v, i, r) = Count(w, i, r)
      /\ Len(v) = Len(w) + 1 /\ v[Len(v)] = m
      /\ Count(v, Len(v), r) = Count(w, Len(w), r) + (IF m.run = r THEN 1 ELSE 0)
  BY <1>1, <1>2, <1>3
<1> QED BY <1>4 DEF v

\* And one that lost its first message.
LEMMA CountTake ==
    ASSUME NEW S, NEW w \in Seq(S), w # <<>>, NEW r
    PROVE  LET v == Tail(w) IN
           /\ Len(v) \in Nat /\ Len(w) = Len(v) + 1
           /\ \A i \in 1..Len(v) :
                 /\ v[i] = w[i + 1]
                 /\ Count(w, i + 1, r) = Count(v, i, r) + (IF w[1].run = r THEN 1 ELSE 0)
           /\ Count(w, Len(w), r) = Count(v, Len(v), r) + (IF w[1].run = r THEN 1 ELSE 0)
<1> DEFINE v == Tail(w)
<1>1. Len(v) \in Nat /\ Len(w) = Len(v) + 1 /\ \A i \in 1..Len(v) : v[i] = w[i + 1]
  OBVIOUS
<1>2. ASSUME NEW n \in 0..Len(v)
      PROVE  Count(w, n + 1, r) = Count(v, n, r) + (IF w[1].run = r THEN 1 ELSE 0)
  <2>1. n \in Nat /\ n < Len(w)
    BY <1>1
  <2> QED BY <2>1, CountTail
<1> HIDE DEF v
<1>3. /\ Len(v) \in Nat /\ Len(w) = Len(v) + 1
      /\ \A i \in 1..Len(v) :
            /\ v[i] = w[i + 1]
            /\ Count(w, i + 1, r) = Count(v, i, r) + (IF w[1].run = r THEN 1 ELSE 0)
      /\ Count(w, Len(w), r) = Count(v, Len(v), r) + (IF w[1].run = r THEN 1 ELSE 0)
  BY <1>1, <1>2
<1> QED BY <1>3 DEF v

\* A touch puts its finger down first and lifts it last; a text has no finger.
LEMMA ScriptShape ==
    ASSUME NEW g \in Gesture
    PROVE  /\ Len(Script(g)) \in Nat /\ Len(Script(g)) > 0
           /\ g.kind = "text" => \A k \in 1..Len(Script(g)) : Script(g)[k].type = "char"
           /\ g.kind # "text" =>
                 /\ Len(Script(g)) > 1
                 /\ Script(g)[1] = Event("down", Finger(g))
                 /\ Script(g)[Len(Script(g))] = Event("up", Finger(g))
                 /\ \A k \in 2..(Len(Script(g)) - 1) : Script(g)[k].type = "move"
<1>0. g.steps \in Nat /\ g.kind \in {"tap", "swipe", "text"}
  BY TouchAssumption DEF TouchAssumption
<1>1. CASE g.kind = "tap"
  <2>1. Script(g) = <<Event("down", 0), Event("up", 0)>> /\ Finger(g) = 0
    BY <1>1 DEF Script, Finger
  <2> QED BY <1>1, <2>1
<1>2. CASE g.kind = "swipe"
  <2> DEFINE down == Event("down", 1)
             up == Event("up", 1)
             move == Event("move", 1)
             moves == [i \in 1..g.steps |-> move]
  <2>1. Script(g) = (<<down>> \o moves) \o <<up>> /\ Finger(g) = 1
    BY <1>2 DEF Script, Finger
  <2>2. down \in EventSet /\ up \in EventSet /\ move \in EventSet /\ move.type = "move"
    BY DEF Event, EventSet
  <2>3. moves \in [1..g.steps -> EventSet] /\ \A i \in 1..g.steps : moves[i] = move
    BY <2>2
  <2>4. moves \in Seq(EventSet) /\ Len(moves) = g.steps
    BY <1>0, <2>3, FunctionIsSequence
  <2> HIDE DEF moves, move
  <2> DEFINE s == <<down>> \o moves
  <2>5. /\ s \in Seq(EventSet) /\ Len(s) = g.steps + 1 /\ s[1] = down
        /\ \A k \in 2..(g.steps + 1) : s[k] = moves[k - 1]
    BY <1>0, <2>2, <2>4
  <2> HIDE DEF s, down, up
  <2> DEFINE t == s \o <<up>>
  <2>6. /\ Len(t) = g.steps + 2 /\ t[1] = down /\ t[g.steps + 2] = up
        /\ \A k \in 2..(g.steps + 1) : t[k] = s[k]
    <3>1. Len(s) \in Nat /\ Len(t) = Len(s) + 1 /\ t[Len(s) + 1] = up /\ \A k \in 1..Len(s) : t[k] = s[k]
      BY <2>5
    <3> HIDE DEF t
    <3>2. Len(s) = g.steps + 1 /\ Len(s) + 1 = g.steps + 2 /\ 1 \in 1..Len(s)
      BY <1>0, <2>5
    <3>3. \A k \in 2..(g.steps + 1) : k \in 1..Len(s)
      BY <1>0, <3>2
    <3>4. t[1] = down
      BY <2>5, <3>1, <3>2
    <3> QED BY <3>1, <3>2, <3>3, <3>4, <1>0
  <2> HIDE DEF t
  <2>7. \A k \in 2..(g.steps + 1) : t[k] = move
    BY <1>0, <2>3, <2>5, <2>6
  <2>8. Script(g) = t /\ down = Event("down", Finger(g)) /\ up = Event("up", Finger(g))
    BY <2>1 DEF t, s, down, up
  <2> QED BY <1>0, <1>2, <2>2, <2>6, <2>7, <2>8
<1>3. CASE g.kind = "text"
  <2>1. Script(g) = [i \in 1..g.steps |-> Event("char", i)]
    BY <1>3 DEF Script
  <2>2. \A k \in 1..g.steps : Script(g)[k].type = "char"
    BY <2>1 DEF Event
  <2>3. Len(Script(g)) \in Nat /\ Len(Script(g)) > 0
    BY ScriptType
  <2>4. DOMAIN Script(g) = 1..g.steps
    BY <2>1
  <2>5. DOMAIN Script(g) = 1..Len(Script(g))
    BY ScriptType
  <2> QED BY <1>3, <2>2, <2>3, <2>4, <2>5
<1> QED BY <1>0, <1>1, <1>2, <1>3
-----------------------------------------------------------------------------
(* Steps                                                                   *)

\* The kinds of the numbers.
LEMMA Numbers ==
    ASSUME TouchInv
    PROVE  /\ last \in Nat /\ sent \in Nat /\ Len(wire) \in Nat
           /\ \A r \in Run : /\ r \in Nat /\ gesture[r] \in Gesture /\ got[r] \in Seq(EventSet)
                             /\ Len(got[r]) \in Nat /\ UnderWay(r) \in Nat /\ Arrived(r) \in Nat
                             /\ Length(r) \in Nat /\ Length(r) > 0 /\ (IsTouch(r) => Length(r) > 1)
           /\ \A i \in 1..Len(wire) : wire[i] \in Message /\ wire[i].run \in Run
           /\ phase # "idle" => last \in Run /\ Whole = Length(last)
<1> USE DEF TouchInv, TouchTypeOK
<1>1. last \in Nat /\ sent \in Nat /\ Len(wire) \in Nat /\ wire \in Seq(Message)
  BY TouchAssumption DEF TouchAssumption
<1>2. ASSUME NEW r \in Run
      PROVE  /\ r \in Nat /\ gesture[r] \in Gesture /\ got[r] \in Seq(EventSet)
             /\ Len(got[r]) \in Nat /\ UnderWay(r) \in Nat /\ Arrived(r) \in Nat
             /\ Length(r) \in Nat /\ Length(r) > 0 /\ (IsTouch(r) => Length(r) > 1)
  <2>1. r \in Nat /\ gesture[r] \in Gesture /\ got[r] \in Seq(EventSet) /\ Len(got[r]) \in Nat
    BY DEF Run
  <2>2. UnderWay(r) \in Nat
    BY <1>1, CountType DEF UnderWay
  <2>3. Length(r) \in Nat /\ Length(r) > 0 /\ (IsTouch(r) => Length(r) > 1)
    BY <2>1, ScriptShape DEF Length, IsTouch
  <2> QED BY <2>1, <2>2, <2>3 DEF Arrived
<1>3. \A i \in 1..Len(wire) : wire[i] \in Message
  BY <1>1
<1>4. \A m \in Message : m.run \in Run
  BY DEF Message
<1>5. phase # "idle" => last \in Run /\ Whole = Length(last)
  BY DEF SendInv, Whole, Current, Length
<1> QED BY <1>1, <1>2, <1>3, <1>4, <1>5

\* A run with a message on the wire is under way.
LEMMA IsUnderWay ==
    ASSUME TouchInv, NEW i \in 1..Len(wire), NEW r, wire[i].run = r, r \in Run
    PROVE  UnderWay(r) > 0 /\ Arrived(r) > 0 /\ Count(wire, i, r) \in Nat /\ Count(wire, i, r) > 0
<1>1. i \in Nat /\ i - 1 \in Nat /\ Len(wire) \in Nat /\ UnderWay(r) \in Nat /\ Len(got[r]) \in Nat
  BY Numbers
<1>2. PICK n \in Nat : i = n + 1
  BY <1>1
<1>3. Count(wire, i, r) = Count(wire, n, r) + 1 /\ Count(wire, n, r) \in Nat
  <2>1. Count(wire, n + 1, r) = Count(wire, n, r) + (IF wire[n + 1].run = r THEN 1 ELSE 0)
    BY CountNext
  <2> QED BY <1>2, <2>1, CountType
<1>4. Count(wire, i, r) <= UnderWay(r)
  BY <1>1, CountGrows DEF UnderWay
<1> QED BY <1>1, <1>3, <1>4 DEF Arrived

\* No gesture has begun.
LEMMA InitSequence == TouchInit => SequenceInv
<1> SUFFICES ASSUME TouchInit PROVE SequenceInv
  OBVIOUS
<1>1. /\ phase = "idle" /\ last = 0 /\ wire = <<>> /\ fingers = {} /\ broken = FALSE
      /\ Len(wire) = 0 /\ \A r \in Run : got[r] = <<>> /\ Len(got[r]) = 0 /\ outcome[r] = "none"
  BY DEF TouchInit
<1>2. \A r \in Run : UnderWay(r) = 0 /\ Arrived(r) = 0
  BY <1>1, CountNothing DEF UnderWay, Arrived
<1>3. PrefixInv
  BY <1>1, <1>2, TouchAssumption DEF PrefixInv, TouchAssumption
<1>4. RunInv
  BY <1>1, <1>2 DEF RunInv, InHand
<1>5. SentInv /\ BrokenInv /\ DoneInv /\ WireInv /\ FingerInv
  BY <1>1 DEF SentInv, BrokenInv, DoneInv, WireInv, FingerInv
<1> QED BY <1>3, <1>4, <1>5 DEF SequenceInv

\* A new gesture is a new run.
LEMMA BeginKeeps ==
    ASSUME TouchInv, SequenceInv, NEW g \in Gesture, Begin(g)
    PROVE  SequenceInv'
<1>a. PICK n \in Run : n = last + 1
  BY TouchAssumption DEF Begin, TouchInv, TouchTypeOK, Run, TouchAssumption
<1>0. /\ last \in Nat /\ last' = n /\ n = last + 1 /\ n \in Nat
      /\ phase = "idle" /\ phase' = "send" /\ sent' = 0 /\ broken' = FALSE
      /\ UNCHANGED <<cut, wire, fingers, got, losses>>
  BY <1>a DEF Begin, TouchInv, TouchTypeOK, Run
<1>1. /\ \A r \in Run : r # n => gesture'[r] = gesture[r] /\ outcome'[r] = outcome[r]
      /\ gesture'[n] = g /\ outcome'[n] = "running"
  BY <1>a DEF Begin, TouchInv, TouchTypeOK
<1>2. ASSUME NEW r \in Run
      PROVE  /\ UnderWay(r)' = UnderWay(r) /\ Arrived(r)' = Arrived(r)
             /\ ~InHand(r)
             /\ r # n => /\ IsTouch(r)' = IsTouch(r) /\ Length(r)' = Length(r)
                         /\ ~InHand(r)' /\ (Sends(r)' <=> Sends(r))
                         /\ (Settled(r) => Settled(r)')
                         /\ (Later(r) => Later(r)')
  BY <1>0, <1>1 DEF UnderWay, Arrived, IsTouch, Length, InHand, Sends, Settled, Later
<1>3. /\ Arrived(n) = 0 /\ Len(got[n]) = 0 /\ UnderWay(n) = 0
      /\ ~Sends(n)' /\ InHand(n)' /\ Later(n)'
  <2>1. Arrived(n) = 0 /\ Len(got[n]) \in Nat /\ UnderWay(n) \in Nat /\ Arrived(n) \in Nat
    BY <1>0, Numbers DEF SequenceInv, RunInv
  <2>2. ~Sends(n)' /\ InHand(n)'
    BY <1>0 DEF Sends, InHand
  <2>3. Len(got[n]) = 0 /\ UnderWay(n) = 0
    BY <2>1 DEF Arrived
  <2> QED BY <1>0, <2>1, <2>2, <2>3 DEF Later
<1>4. PrefixInv'
  <2>1. ASSUME NEW r \in Run
        PROVE  /\ \A i \in 1..Len(got[r]) : i <= Length(r)' /\ got[r][i] = Script(gesture'[r])[i]
               /\ \A i \in 1..Len(wire) : wire[i].run = r =>
                     LET k == Len(got[r]) + Count(wire, i, r) IN
                         k <= Length(r)' /\ wire[i].event = Script(gesture'[r])[k]
               /\ ~IsTouch(r)' => Arrived(r) <= MaxChars
    <3>1. CASE r = n
      <4>1. \A i \in 1..Len(wire) : wire[i].run # n
        BY <1>0, Numbers DEF SequenceInv, WireInv
      <4> QED BY <1>3, <3>1, <4>1, TouchAssumption DEF TouchAssumption
    <3>2. CASE r # n
      BY <1>1, <1>2, <3>2 DEF SequenceInv, PrefixInv, Length
    <3> QED BY <3>1, <3>2
  <2> QED BY <1>0, <1>2, <2>1 DEF PrefixInv
<1>5. RunInv'
  <2>1. ASSUME NEW r \in Run
        PROVE  /\ InHand(r)' <=> outcome'[r] = "running"
               /\ Arrived(r)' > 0 => r <= last' /\ Sends(r)'
               /\ outcome'[r] # "none" => r <= last'
    <3>1. CASE r = n
      BY <1>0, <1>1, <1>2, <1>3, <3>1
    <3>2. CASE r # n
      <4>1. /\ InHand(r) <=> outcome[r] = "running"
            /\ Arrived(r) > 0 => r <= last /\ Sends(r)
            /\ outcome[r] # "none" => r <= last
        BY DEF SequenceInv, RunInv
      <4>2. r \in Nat
        BY DEF Run
      <4> QED BY <1>0, <1>1, <1>2, <3>2, <4>1, <4>2
    <3> QED BY <3>1, <3>2
  <2> QED BY <2>1 DEF RunInv
<1>6. SentInv'
  BY <1>0, <1>2, <1>3, TouchAssumption DEF SentInv, TouchAssumption
<1>7. BrokenInv' /\ DoneInv'
  BY <1>0, <1>1, <1>2 DEF SequenceInv, BrokenInv, DoneInv
<1>8. WireInv'
  <2>1. ASSUME NEW i \in 1..Len(wire), NEW r \in Run, r = wire[i].run
        PROVE  /\ \A j \in i..Len(wire) : r <= wire[j].run
               /\ r <= last'
               /\ IsTouch(r)' => Settled(r)'
               /\ \A q \in Run : q > r => Later(q)'
    <3>1. /\ \A j \in i..Len(wire) : r <= wire[j].run
          /\ r <= last
          /\ IsTouch(r) => Settled(r)
          /\ \A q \in Run : q > r => Later(q)
      BY <2>1 DEF SequenceInv, WireInv
    <3>2. r \in Nat /\ r # n /\ r <= last'
      BY <1>0, <3>1 DEF Run
    <3> QED BY <1>2, <1>3, <3>1, <3>2
  <2>2. \A i \in 1..Len(wire) : wire[i].run \in Run
    BY Numbers
  <2> QED BY <1>0, <2>1, <2>2 DEF WireInv
<1>9. FingerInv'
  <2>1. ASSUME NEW f, NEW r \in Run, Holds(f, r) PROVE Holds(f, r)'
    <3>1. r # n
      BY <1>3, <2>1 DEF Holds
    <3>2. \A q \in Run : q # n => Finger(gesture[q])' = Finger(gesture[q])
      BY <1>1 DEF Finger
    <3> QED BY <1>0, <1>2, <1>3, <2>1, <3>1, <3>2 DEF Holds
  <2> QED BY <1>0, <2>1 DEF SequenceInv, FingerInv
<1> QED BY <1>4, <1>5, <1>6, <1>7, <1>8, <1>9 DEF SequenceInv

\* The end of a gesture changes only what the daemon knows.
LEMMA EndsSequence ==
    ASSUME TouchInv, SequenceInv, phase # "idle", UNCHANGED provider,
           NEW o \in {"completed", "failed"}, Ends(o),
           o = "completed" => sent = Whole /\ (~IsTouch(last) => Len(got[last]) = sent)
    PROVE  SequenceInv'
<1>0. /\ last \in Run /\ last' = last /\ sent \in Nat /\ sent <= Whole /\ Whole = Length(last)
      /\ Length(last) \in Nat /\ Arrived(last) \in Nat
      /\ phase' = "idle" /\ sent' = 0
      /\ UNCHANGED <<gesture, wire, fingers, broken, got, losses>>
  BY Numbers DEF Ends, provider, TouchInv, SendInv
<1>1. /\ outcome'[last] = (IF sent = 0 THEN "refused" ELSE o)
      /\ \A r \in Run : r # last => outcome'[r] = outcome[r]
      /\ cut \subseteq cut'
      /\ IsTouch(last) /\ sent > 0 /\ sent # Whole => last \in cut'
      /\ cut' \subseteq cut \union {last}
  BY <1>0 DEF Ends, TouchInv, TouchTypeOK, IsTouch, Current
<1>2. ASSUME NEW r \in Run
      PROVE  /\ UnderWay(r)' = UnderWay(r) /\ Arrived(r)' = Arrived(r)
             /\ IsTouch(r)' = IsTouch(r) /\ Length(r)' = Length(r) /\ ~InHand(r)'
             /\ InHand(r) <=> r = last
  BY <1>0 DEF UnderWay, Arrived, IsTouch, Length, InHand
<1>3. ASSUME NEW r \in Run PROVE (Sends(r)' <=> Sends(r)) /\ (Later(r)' <=> Later(r))
  <2>1. outcome[last] = "running"
    BY <1>0, <1>2 DEF SequenceInv, RunInv
  <2>2. Sends(r)' <=> Sends(r)
    BY <1>0, <1>1, <1>2, <2>1 DEF Sends
  <2> QED BY <1>0, <1>2, <2>2 DEF Later
<1>4. ASSUME NEW r \in Run, IsTouch(r), Settled(r), Arrived(r) > 0, ~broken PROVE Settled(r)'
  <2>1. CASE r # last
    BY <1>0, <1>1, <1>2, <1>4, <2>1 DEF Settled
  <2>2. CASE r = last
    <3>1. Arrived(last) = sent /\ sent > 0
      BY <1>0, <1>4, <2>2 DEF SequenceInv, SentInv
    <3> QED BY <1>0, <1>1, <1>2, <1>4, <2>2, <3>1 DEF Settled
  <2> QED BY <2>1, <2>2
<1>5. PrefixInv'
  <2>1. ASSUME NEW r \in Run
        PROVE  /\ \A i \in 1..Len(got[r]) : i <= Length(r) /\ got[r][i] = Script(gesture[r])[i]
               /\ \A i \in 1..Len(wire) : wire[i].run = r =>
                     LET k == Len(got[r]) + Count(wire, i, r) IN
                         k <= Length(r) /\ wire[i].event = Script(gesture[r])[k]
               /\ ~IsTouch(r) => Arrived(r) <= MaxChars
    BY DEF SequenceInv, PrefixInv
  <2> QED BY <1>0, <1>2, <2>1 DEF PrefixInv
<1>6. RunInv'
  <2>1. ASSUME NEW r \in Run
        PROVE  /\ outcome'[r] # "running"
               /\ Arrived(r)' > 0 => r <= last' /\ Sends(r)'
               /\ outcome'[r] # "none" => r <= last'
    <3>1. /\ InHand(r) <=> outcome[r] = "running"
          /\ Arrived(r) > 0 => r <= last /\ Sends(r)
          /\ outcome[r] # "none" => r <= last
      BY DEF SequenceInv, RunInv
    <3>2. r \in Nat
      BY DEF Run
    <3> QED BY <1>0, <1>1, <1>2, <1>3, <3>1, <3>2
  <2> QED BY <1>2, <2>1 DEF RunInv
<1>7. SentInv' /\ BrokenInv'
  BY <1>0 DEF SequenceInv, SentInv, BrokenInv
<1>8. DoneInv'
  <2>1. ASSUME NEW r \in Run, outcome'[r] = "completed"
        PROVE  IF IsTouch(r) THEN losses = 0 => Arrived(r) = Length(r) ELSE Len(got[r]) = Length(r)
    <3>1. CASE r # last
      BY <1>1, <2>1, <3>1 DEF SequenceInv, DoneInv
    <3>2. CASE r = last
      BY <1>0, <1>1, <2>1, <3>2 DEF SequenceInv, SentInv, BrokenInv
    <3> QED BY <3>1, <3>2
  <2> QED BY <1>0, <1>2, <2>1 DEF DoneInv
<1>9. WireInv'
  <2>1. ASSUME NEW i \in 1..Len(wire), NEW r \in Run, r = wire[i].run
        PROVE  /\ \A j \in i..Len(wire) : r <= wire[j].run
               /\ r <= last
               /\ IsTouch(r)' => Settled(r)'
               /\ \A q \in Run : q > r => Later(q)'
    <3>1. /\ \A j \in i..Len(wire) : r <= wire[j].run
          /\ r <= last
          /\ IsTouch(r) => Settled(r)
          /\ \A q \in Run : q > r => Later(q)
      BY <2>1 DEF SequenceInv, WireInv
    <3>2. ~broken
      BY <2>1 DEF SequenceInv, BrokenInv
    <3>3. Arrived(r) > 0
      BY <2>1, IsUnderWay
    <3> QED BY <1>2, <1>3, <1>4, <3>1, <3>2, <3>3
  <2>2. \A i \in 1..Len(wire) : wire[i].run \in Run
    BY Numbers
  <2> QED BY <1>0, <2>1, <2>2 DEF WireInv
<1>10. FingerInv'
  <2>1. ASSUME NEW f \in fingers, NEW r \in Run, Holds(f, r) PROVE Holds(f, r)'
    <3>1. Arrived(r) > 0 /\ ~broken
      <4>1. Len(got[r]) > 0
        BY <2>1, Numbers DEF Holds
      <4>2. Len(got[r]) \in Nat /\ UnderWay(r) \in Nat
        BY Numbers
      <4> QED BY <2>1, <4>1, <4>2 DEF Arrived, SequenceInv, BrokenInv
    <3>2. Settled(r)'
      BY <1>4, <2>1, <3>1 DEF Holds
    <3>3. \A q \in Run : Finger(gesture[q])' = Finger(gesture[q])
      BY <1>0 DEF Finger
    <3> QED BY <1>0, <1>2, <1>3, <2>1, <3>2, <3>3 DEF Holds
  <2> QED BY <1>0, <2>1 DEF SequenceInv, FingerInv
<1> QED BY <1>5, <1>6, <1>7, <1>8, <1>9, <1>10 DEF SequenceInv

\* The answer to a character lets the next one go.
LEMMA NextCharacter ==
    ASSUME TouchInv, SequenceInv, phase = "await", ~Waiting, Len(got[last]) = sent, phase' = "send",
           UNCHANGED <<gesture, sent, outcome, last, cut>>, UNCHANGED provider
    PROVE  SequenceInv'
<1>0. UNCHANGED <<gesture, sent, outcome, last, cut, wire, fingers, broken, got, losses>>
  BY DEF provider
<1>1. \A r \in Run : /\ UnderWay(r)' = UnderWay(r) /\ Arrived(r)' = Arrived(r)
                     /\ IsTouch(r)' = IsTouch(r) /\ Length(r)' = Length(r)
                     /\ (InHand(r)' <=> InHand(r)) /\ (Sends(r)' <=> Sends(r))
                     /\ (Settled(r)' <=> Settled(r)) /\ (Later(r)' <=> Later(r))
  BY <1>0 DEF UnderWay, Arrived, IsTouch, Length, InHand, Sends, Settled, Later
<1>2. PrefixInv' /\ RunInv' /\ BrokenInv' /\ DoneInv'
  BY <1>0, <1>1 DEF SequenceInv, PrefixInv, RunInv, BrokenInv, DoneInv, Length
<1>3. SentInv'
  BY <1>0, <1>1, Numbers DEF SequenceInv, SentInv, IsTouch, Arrived, UnderWay
<1>4. WireInv' /\ FingerInv'
  BY <1>0 DEF SequenceInv, WireInv, FingerInv, Holds, UnderWay, Arrived, IsTouch, Length, InHand,
     Sends, Settled, Later, Finger
<1> QED BY <1>2, <1>3, <1>4 DEF SequenceInv

\* An event is sent to a connection that broke, or put last on the wire.
LEMMA SendKeeps ==
    ASSUME TouchInv, SequenceInv, Send
    PROVE  SequenceInv'
<1>0. /\ phase = "send" /\ last \in Run /\ last \in Nat /\ sent \in Nat /\ sent' = sent + 1
      /\ sent < Length(last) /\ Length(last) \in Nat /\ Whole = Length(last) /\ Whole' = Whole
      /\ broken' = (broken /\ IsTouch(last))
      /\ phase' = IF IsTouch(last) THEN IF sent' = Whole THEN "observe" ELSE "send" ELSE "await"
      /\ ~IsTouch(last) => sent < MaxChars
      /\ Arrived(last) <= sent /\ Arrived(last) \in Nat /\ Len(got[last]) \in Nat
      /\ outcome[last] = "running"
      /\ UNCHANGED <<gesture, outcome, last, cut, fingers, got, losses>>
  BY Numbers DEF Send, TouchInv, SendInv, Whole, Current, IsTouch, SequenceInv, SentInv, RunInv,
     InHand, Whole, Current
<1>1. ASSUME NEW r \in Run
      PROVE  /\ IsTouch(r)' = IsTouch(r) /\ Length(r)' = Length(r)
             /\ InHand(r)' <=> InHand(r)
             /\ InHand(r) <=> r = last
             /\ Sends(r) => Sends(r)'
             /\ r # last => (Sends(r)' <=> Sends(r))
  BY <1>0 DEF IsTouch, Length, InHand, Sends
<1>2. Sends(last)'
  BY <1>0 DEF Sends
<1>3. CASE broken'
  <2>1. /\ wire' = wire /\ wire = <<>> /\ Len(wire) = 0 /\ fingers = {} /\ losses # 0 /\ IsTouch(last)
    BY <1>0, <1>3 DEF Send, SequenceInv, BrokenInv
  <2>2. ASSUME NEW r \in Run PROVE UnderWay(r)' = UnderWay(r) /\ Arrived(r)' = Arrived(r)
    <3>1. UnderWay(r)' = UnderWay(r)
      BY <2>1 DEF UnderWay
    <3> QED BY <1>0, <3>1 DEF Arrived
  <2>3. PrefixInv'
    <3>1. ASSUME NEW r \in Run
          PROVE  /\ \A i \in 1..Len(got[r]) : i <= Length(r) /\ got[r][i] = Script(gesture[r])[i]
                 /\ ~IsTouch(r) => Arrived(r)' <= MaxChars
      BY <2>2 DEF SequenceInv, PrefixInv
    <3>2. Len(wire') = 0
      BY <2>1
    <3>3. ASSUME NEW r \in Run
          PROVE  /\ \A i \in 1..Len(got'[r]) :
                       i <= Length(r)' /\ got'[r][i] = Script(gesture'[r])[i]
                 /\ ~IsTouch(r)' => Arrived(r)' <= MaxChars
      BY <1>0, <1>1, <3>1
    <3>4. 1..Len(wire') = {}
      BY <3>2
    <3> QED BY <3>3, <3>4, Zenon DEF PrefixInv
  <2>4. RunInv'
    BY <1>0, <1>1, <2>2 DEF SequenceInv, RunInv
  <2>5. SentInv'
    BY <1>0, <1>1, <1>3, <2>1, <2>2 DEF SentInv
  <2>6. BrokenInv' /\ DoneInv'
    BY <1>0, <1>1, <2>1, <2>2 DEF SequenceInv, BrokenInv, DoneInv
  <2>7. WireInv' /\ FingerInv'
    BY <1>0, <2>1 DEF WireInv, FingerInv
  <2> QED BY <2>3, <2>4, <2>5, <2>6, <2>7 DEF SequenceInv
<1>4. CASE ~broken'
  <2> DEFINE m == [run |-> last, event |-> Script(gesture[last])[sent + 1]]
             k == Len(wire) + 1
  <2>1. /\ wire' = Append(wire, m) /\ m \in Message /\ m.run = last
        /\ m.event = Script(gesture[last])[sent + 1]
        /\ wire \in Seq(Message) /\ Len(wire) \in Nat
    <3>1. /\ wire' = Append(wire, m) /\ m.run = last /\ m.event = Script(gesture[last])[sent + 1]
          /\ wire \in Seq(Message) /\ Len(wire) \in Nat
      BY <1>4, Numbers DEF Send, Current, TouchInv, TouchTypeOK
    <3>2. gesture[last] \in Gesture
      BY <1>0, Numbers
    <3>3. Script(gesture[last]) \in Seq(EventSet) /\ sent + 1 \in 1..Len(Script(gesture[last]))
      BY <1>0, <3>2, ScriptType DEF Length
    <3>4. Script(gesture[last])[sent + 1] \in EventSet
      BY <3>3
    <3> QED BY <1>0, <3>1, <3>4 DEF Message
  <2> HIDE DEF m
  <2>2. /\ Len(wire') = k /\ k \in Nat /\ wire'[k] = m
        /\ \A i \in 1..Len(wire) : wire'[i] = wire[i]
        /\ \A r : /\ \A i \in 1..Len(wire) : Count(wire', i, r) = Count(wire, i, r)
                  /\ Count(wire', k, r) = UnderWay(r) + (IF last = r THEN 1 ELSE 0)
    BY <2>1, CountAppend DEF UnderWay
  <2> HIDE DEF k
  <2>3. ASSUME NEW r \in Run
        PROVE  /\ UnderWay(r)' = UnderWay(r) + (IF last = r THEN 1 ELSE 0)
               /\ Arrived(r)' = Arrived(r) + (IF last = r THEN 1 ELSE 0)
               /\ UnderWay(r) \in Nat /\ Arrived(r) \in Nat /\ Len(got[r]) \in Nat
    <3>1. UnderWay(r) \in Nat /\ Arrived(r) \in Nat /\ Len(got[r]) \in Nat
      BY Numbers
    <3>2. UnderWay(r)' = UnderWay(r) + (IF last = r THEN 1 ELSE 0)
      <4>1. UnderWay(r)' = Count(wire', k, r)
        BY <2>2 DEF UnderWay
      <4> QED BY <2>2, <4>1
    <3>3. Arrived(r) = Len(got[r]) + UnderWay(r) /\ Arrived(r)' = Len(got[r]) + UnderWay(r)'
      BY <1>0 DEF Arrived
    <3> QED BY <3>1, <3>2, <3>3
  <2>4. Arrived(last) = sent
    <3>1. CASE IsTouch(last)
      BY <1>0, <1>4, <3>1 DEF SequenceInv, SentInv
    <3>2. CASE ~IsTouch(last)
      <4>1. Len(got[last]) = sent
        BY <1>0, <3>2 DEF SequenceInv, SentInv
      <4> QED BY <1>0, <2>3, <4>1 DEF Arrived
    <3> QED BY <3>1, <3>2
  <2>5. Len(got[last]) + Count(wire', k, last) = sent + 1
    BY <1>0, <2>2, <2>3, <2>4 DEF Arrived
  <2>6. ASSUME NEW q \in Run
        PROVE  /\ q # last => (Later(q) => Later(q)') /\ (Settled(q) => Settled(q)')
               /\ q = last /\ Len(got[last]) = 0 => Later(q)'
               /\ q = last => Settled(q)'
    BY <1>0, <1>1, <2>3 DEF Later, Settled
  <2>7. PrefixInv'
    <3>1. ASSUME NEW r \in Run
          PROVE  /\ \A i \in 1..Len(got[r]) : i <= Length(r) /\ got[r][i] = Script(gesture[r])[i]
                 /\ \A i \in 1..k : wire'[i].run = r =>
                       LET n == Len(got[r]) + Count(wire', i, r) IN
                           n <= Length(r) /\ wire'[i].event = Script(gesture[r])[n]
                 /\ ~IsTouch(r) => Arrived(r)' <= MaxChars
      <4>1. /\ \A i \in 1..Len(got[r]) : i <= Length(r) /\ got[r][i] = Script(gesture[r])[i]
            /\ \A i \in 1..Len(wire) : wire[i].run = r =>
                  LET n == Len(got[r]) + Count(wire, i, r) IN
                      n <= Length(r) /\ wire[i].event = Script(gesture[r])[n]
            /\ ~IsTouch(r) => Arrived(r) <= MaxChars
        BY DEF SequenceInv, PrefixInv
      <4>2. ASSUME NEW i \in 1..k, wire'[i].run = r
            PROVE  LET n == Len(got[r]) + Count(wire', i, r) IN
                       n <= Length(r) /\ wire'[i].event = Script(gesture[r])[n]
        <5>1. CASE i = k
          <6>1. r = last /\ Len(got[r]) + Count(wire', i, r) = sent + 1
            BY <2>1, <2>2, <2>5, <4>2, <5>1
          <6> QED BY <1>0, <2>1, <2>2, <5>1, <6>1
        <5>2. CASE i # k
          <6>1. i \in 1..Len(wire)
            BY <2>1, <5>2 DEF k
          <6> QED BY <2>2, <4>1, <4>2, <6>1
        <5> QED BY <5>1, <5>2
      <4>3. ~IsTouch(r) => Arrived(r)' <= MaxChars
        BY <1>0, <2>3, <2>4, <4>1, TouchAssumption DEF TouchAssumption
      <4> QED BY <4>1, <4>2, <4>3
    <3> QED BY <1>0, <1>1, <2>2, <3>1 DEF PrefixInv
  <2>8. RunInv'
    <3>1. ASSUME NEW r \in Run
          PROVE  /\ InHand(r)' <=> outcome[r] = "running"
                 /\ Arrived(r)' > 0 => r <= last /\ Sends(r)'
                 /\ outcome[r] # "none" => r <= last
      BY <1>0, <1>1, <1>2, <2>3 DEF SequenceInv, RunInv
    <3> QED BY <1>0, <3>1 DEF RunInv
  <2>9. SentInv'
    BY <1>0, <1>1, <2>3, <2>4, TouchAssumption DEF SentInv, TouchAssumption
  <2>10. BrokenInv' /\ DoneInv'
    <3>1. \A r \in Run : outcome[r] = "completed" => r # last
      BY <1>0
    <3> QED BY <1>0, <1>1, <1>4, <2>3, <3>1 DEF SequenceInv, BrokenInv, DoneInv
  <2>11. WireInv'
    <3>1. ASSUME NEW i \in 1..k, NEW r \in Run, r = wire'[i].run
          PROVE  /\ \A j \in i..k : r <= wire'[j].run
                 /\ r <= last
                 /\ IsTouch(r) => Settled(r)'
                 /\ \A q \in Run : q > r => Later(q)'
      <4>1. CASE i = k
        <5>1. r = last /\ \A j \in i..k : j = k
          BY <2>1, <2>2, <3>1, <4>1
        <5>2. ASSUME NEW q \in Run, q > last PROVE Later(q)'
          <6>1. q \in Nat /\ outcome[q] = "none" /\ ~(Arrived(q) > 0)
            BY <1>0, <5>2 DEF SequenceInv, RunInv, Run
          <6>2. Len(got[q]) = 0 /\ ~Sends(q)
            BY <2>3, <6>1 DEF Arrived, Sends
          <6>3. q # last /\ Later(q)
            BY <1>0, <5>2, <6>1, <6>2 DEF Later
          <6> QED BY <2>6, <6>3
        <5> QED BY <1>0, <2>1, <2>2, <2>6, <5>1, <5>2
      <4>2. CASE i # k
        <5>1. i \in 1..Len(wire) /\ wire[i].run = r
          BY <2>1, <2>2, <3>1, <4>2 DEF k
        <5>2. /\ \A j \in i..Len(wire) : r <= wire[j].run
              /\ r <= last
              /\ IsTouch(r) => Settled(r)
              /\ \A q \in Run : q > r => Later(q)
          BY <5>1 DEF SequenceInv, WireInv
        <5>3. ASSUME NEW j \in i..k PROVE r <= wire'[j].run
          <6>1. j = k \/ j \in i..Len(wire)
            BY <2>1, <5>1 DEF k
          <6> QED BY <2>1, <2>2, <5>1, <5>2, <6>1
        <5>4. ASSUME NEW q \in Run, q > r PROVE Later(q)'
          <6>1. Later(q)
            BY <5>2, <5>4
          <6> QED BY <2>6, <6>1 DEF Later
        <5> QED BY <2>6, <5>2, <5>3, <5>4
      <4> QED BY <4>1, <4>2
    <3>2. \A i \in 1..k : wire'[i].run \in Run
      <4>1. ASSUME NEW i \in 1..k PROVE wire'[i].run \in Run
        <5>1. i = k \/ i \in 1..Len(wire)
          BY <2>1 DEF k
        <5> QED BY <1>0, <2>1, <2>2, <5>1, Numbers
      <4> QED BY <4>1
    <3> QED BY <1>0, <1>1, <2>2, <3>1, <3>2 DEF WireInv
  <2>12. FingerInv'
    <3>1. ASSUME NEW f, NEW r \in Run, Holds(f, r) PROVE Holds(f, r)'
      <4>1. Settled(r)'
        BY <2>6, <3>1 DEF Holds
      <4>2. ASSUME NEW q \in Run, q > r, IsTouch(q), Finger(gesture[q]) = f, Sends(q)'
            PROVE  Later(q)'
        <5>1. CASE q # last
          BY <1>1, <2>6, <3>1, <4>2, <5>1 DEF Holds
        <5>2. CASE q = last /\ Sends(last)
          <6>1. Later(last)
            BY <3>1, <4>2, <5>2 DEF Holds
          <6> QED BY <2>6, <5>2, <6>1 DEF Later
        <5>3. CASE q = last /\ ~Sends(last)
          <6>1. sent = 0
            BY <1>0, <5>3 DEF Sends
          <6>2. Len(got[last]) = 0
            BY <2>3, <2>4, <5>3, <6>1 DEF Arrived
          <6> QED BY <2>6, <5>3, <6>2
        <5> QED BY <5>1, <5>2, <5>3
      <4>3. \A q \in Run : Finger(gesture[q])' = Finger(gesture[q])
        BY <1>0 DEF Finger
      <4> QED BY <1>0, <1>1, <3>1, <4>1, <4>2, <4>3 DEF Holds
    <3> QED BY <1>0, <3>1 DEF SequenceInv, FingerInv
  <2> QED BY <2>7, <2>8, <2>9, <2>10, <2>11, <2>12 DEF SequenceInv
<1> QED BY <1>3, <1>4

\* The provider applies the first event on the wire.
LEMMA ReceiveKeeps ==
    ASSUME TouchInv, SequenceInv, Receive
    PROVE  SequenceInv'
<1>a. wire # <<>> /\ wire \in Seq(Message) /\ got \in [Run -> Seq(EventSet)]
  BY DEF Receive, TouchInv, TouchTypeOK
<1>b. Head(wire) = wire[1] /\ Len(wire) \in Nat /\ 1 \in 1..Len(wire) /\ wire[1] \in Message
  BY <1>a
<1>c. PICK p \in Run : p = wire[1].run
  BY <1>b DEF Message
<1>d. PICK e \in EventSet : e = wire[1].event
  BY <1>b DEF Message
<1>e. PICK k \in Nat : k = Len(got[p]) + 1
  BY <1>a
<1>f. /\ fingers' = CASE e.type = "down" -> fingers \union {e.finger}
                      [] e.type = "up"   -> fingers \ {e.finger}
                      [] OTHER           -> fingers
      /\ got' = [got EXCEPT ![p] = Append(@, e)]
  BY <1>b, <1>c, <1>d DEF Receive
<1>0. /\ Len(wire) \in Nat /\ 1 \in 1..Len(wire)
      /\ p \in Nat /\ wire' = Tail(wire)
      /\ ~broken
      /\ UNCHANGED <<phase, gesture, sent, outcome, last, cut, broken, losses>>
  BY <1>a, <1>b DEF Receive, hand, SequenceInv, BrokenInv, Run
<1>1. ASSUME NEW r \in Run
      PROVE  /\ Len(got[r]) \in Nat /\ Len(got'[r]) \in Nat /\ UnderWay(r) \in Nat
             /\ p # r => Len(got'[r]) = Len(got[r])
             /\ p = r => Len(got'[r]) = Len(got[r]) + 1
  BY <1>a, <1>f, Numbers
<1>g. ASSUME NEW r \in Run
      PROVE  /\ p # r => got'[r] = got[r]
             /\ \A i \in 1..Len(got[r]) : got'[r][i] = got[r][i]
             /\ p = r => got'[r][Len(got[r]) + 1] = e
  BY <1>a, <1>f
<1>2. /\ Len(wire') \in Nat /\ Len(wire) = Len(wire') + 1
      /\ \A i \in 1..Len(wire') : wire'[i] = wire[i + 1]
      /\ \A r : /\ \A i \in 1..Len(wire') :
                      Count(wire, i + 1, r) = Count(wire', i, r) + (IF p = r THEN 1 ELSE 0)
                /\ UnderWay(r) = Count(wire', Len(wire'), r) + (IF p = r THEN 1 ELSE 0)
  <2> DEFINE v == Tail(wire)
  <2>1. ASSUME NEW r
        PROVE  /\ Len(v) \in Nat /\ Len(wire) = Len(v) + 1
               /\ \A i \in 1..Len(v) :
                     /\ v[i] = wire[i + 1]
                     /\ Count(wire, i + 1, r) = Count(v, i, r) + (IF p = r THEN 1 ELSE 0)
               /\ UnderWay(r) = Count(v, Len(v), r) + (IF p = r THEN 1 ELSE 0)
    BY <1>a, <1>c, CountTake DEF UnderWay
  <2>2. wire' = v
    BY <1>0
  <2> HIDE DEF v
  <2> QED BY <2>1, <2>2
<1>3. ASSUME NEW r \in Run
      PROVE  /\ IsTouch(r)' = IsTouch(r) /\ Length(r)' = Length(r) /\ (InHand(r)' <=> InHand(r))
             /\ (Sends(r)' <=> Sends(r))
             /\ UnderWay(r)' \in Nat /\ UnderWay(r) = UnderWay(r)' + (IF p = r THEN 1 ELSE 0)
             /\ Arrived(r)' = Arrived(r) /\ (Settled(r)' <=> Settled(r))
             /\ Finger(gesture[r])' = Finger(gesture[r])
  <2>1. IsTouch(r)' = IsTouch(r) /\ Length(r)' = Length(r) /\ (InHand(r)' <=> InHand(r))
        /\ (Sends(r)' <=> Sends(r)) /\ Finger(gesture[r])' = Finger(gesture[r])
    BY <1>0 DEF IsTouch, Length, InHand, Sends, Finger
  <2>2. UnderWay(r)' = Count(wire', Len(wire'), r) /\ UnderWay(r)' \in Nat
    BY <1>2, CountType DEF UnderWay
  <2>3. UnderWay(r) = UnderWay(r)' + (IF p = r THEN 1 ELSE 0)
    BY <1>2, <2>2
  <2>4. Arrived(r) = Len(got[r]) + UnderWay(r) /\ Arrived(r)' = Len(got'[r]) + UnderWay(r)'
    BY DEF Arrived
  <2>5. Arrived(r)' = Arrived(r)
    BY <1>1, <2>2, <2>3, <2>4
  <2>6. Settled(r)' <=> Settled(r)
    BY <1>0, <2>1, <2>5 DEF Settled
  <2> QED BY <2>1, <2>2, <2>3, <2>5, <2>6
<1>4. ASSUME NEW q \in Run, q # p PROVE Later(q)' <=> Later(q)
  <2>1. UnderWay(q)' = UnderWay(q) /\ Len(got'[q]) = Len(got[q])
    BY <1>1, <1>3, <1>4
  <2>2. IsTouch(q)' = IsTouch(q) /\ (Sends(q)' <=> Sends(q))
    BY <1>3
  <2> QED BY <2>1, <2>2, Zenon DEF Later
<1>5. k \in Nat /\ k > 0 /\ k <= Length(p) /\ Length(p) \in Nat /\ e = Script(gesture[p])[k]
  <2>1. Count(wire, 1, p) = 1
    <3>1. Count(wire, 0 + 1, p) = Count(wire, 0, p) + (IF wire[0 + 1].run = p THEN 1 ELSE 0)
      BY CountNext
    <3> QED BY <1>c, <3>1, CountNothing
  <2>2. LET n == Len(got[p]) + Count(wire, 1, p) IN
            n <= Length(p) /\ wire[1].event = Script(gesture[p])[n]
    BY <1>0, <1>c DEF SequenceInv, PrefixInv
  <2>3. Len(got[p]) \in Nat /\ Length(p) \in Nat
    BY <1>0, Numbers
  <2> QED BY <1>d, <1>e, <2>1, <2>2, <2>3
<1>6. UnderWay(p) > 0 /\ Arrived(p) > 0
  BY <1>0, <1>c, IsUnderWay
<1>7. PrefixInv'
  <2>1. ASSUME NEW r \in Run
        PROVE  /\ \A i \in 1..Len(got'[r]) : i <= Length(r) /\ got'[r][i] = Script(gesture[r])[i]
               /\ \A i \in 1..Len(wire') : wire'[i].run = r =>
                     LET n == Len(got'[r]) + Count(wire', i, r) IN
                         n <= Length(r) /\ wire'[i].event = Script(gesture[r])[n]
               /\ ~IsTouch(r) => Arrived(r) <= MaxChars
    <3>1. /\ \A i \in 1..Len(got[r]) : i <= Length(r) /\ got[r][i] = Script(gesture[r])[i]
          /\ \A i \in 1..Len(wire) : wire[i].run = r =>
                LET n == Len(got[r]) + Count(wire, i, r) IN
                    n <= Length(r) /\ wire[i].event = Script(gesture[r])[n]
          /\ ~IsTouch(r) => Arrived(r) <= MaxChars
      BY DEF SequenceInv, PrefixInv
    <3>2. ASSUME NEW i \in 1..Len(got'[r])
          PROVE  i <= Length(r) /\ got'[r][i] = Script(gesture[r])[i]
      <4>1. i \in 1..Len(got[r]) \/ (p = r /\ i = k)
        BY <1>1, <1>e, <3>2
      <4> QED BY <1>5, <1>e, <1>g, <3>1, <4>1
    <3>3. ASSUME NEW i \in 1..Len(wire'), wire'[i].run = r
          PROVE  LET n == Len(got'[r]) + Count(wire', i, r) IN
                     n <= Length(r) /\ wire'[i].event = Script(gesture[r])[n]
      <4>1. i + 1 \in 1..Len(wire) /\ wire[i + 1].run = r /\ wire'[i] = wire[i + 1]
        BY <1>2, <3>3
      <4>2. Count(wire, i + 1, r) = Count(wire', i, r) + (IF p = r THEN 1 ELSE 0)
        BY <1>2
      <4>3. Count(wire', i, r) \in Nat
        <5>1. i \in Nat
          BY <1>2
        <5> QED BY <5>1, CountType
      <4>4. Len(got'[r]) + Count(wire', i, r) = Len(got[r]) + Count(wire, i + 1, r)
        BY <1>1, <4>2, <4>3
      <4> QED BY <3>1, <4>1, <4>4
    <3> QED BY <3>1, <3>2, <3>3
  <2> QED BY <1>0, <1>3, <2>1 DEF PrefixInv
<1>8. RunInv'
  <2>1. \A r \in Run : /\ InHand(r) <=> outcome[r] = "running"
                       /\ Arrived(r) > 0 => r <= last /\ Sends(r)
                       /\ outcome[r] # "none" => r <= last
    BY DEF SequenceInv, RunInv
  <2> QED BY <1>0, <1>3, <2>1 DEF RunInv
<1>9. SentInv'
  <2>1. CASE phase = "idle"
    BY <1>0, <2>1 DEF SentInv
  <2>2. CASE phase # "idle"
    <3>1. last \in Run /\ Whole' = Whole /\ Arrived(last) \in Nat /\ Len(got[last]) \in Nat /\ sent \in Nat
      BY <1>0, <2>2, Numbers DEF Whole, Current
    <3>2. phase = "send" /\ ~IsTouch(last) => got'[last] = got[last]
      <4>1. phase = "send" /\ ~IsTouch(last) => UnderWay(last) = 0
        BY <1>1, <2>2, <3>1 DEF SequenceInv, SentInv, Arrived
      <4> QED BY <1>6, <1>g, <3>1, <4>1
    <3> QED BY <1>0, <1>3, <2>2, <3>1, <3>2 DEF SequenceInv, SentInv
  <2> QED BY <2>1, <2>2
<1>10. BrokenInv' /\ DoneInv'
  <2>1. ASSUME NEW r \in Run, outcome[r] = "completed"
        PROVE  IF IsTouch(r) THEN losses = 0 => Arrived(r) = Length(r) ELSE Len(got'[r]) = Length(r)
    <3>1. IF IsTouch(r) THEN losses = 0 => Arrived(r) = Length(r) ELSE Len(got[r]) = Length(r)
      BY <2>1 DEF SequenceInv, DoneInv
    <3>2. r = p => Len(got[r]) # Length(r)
      BY <1>1, <1>5, <1>e
    <3> QED BY <1>1, <3>1, <3>2
  <2> QED BY <1>0, <1>3, <2>1 DEF BrokenInv, DoneInv
<1>11. WireInv'
  <2>1. ASSUME NEW i \in 1..Len(wire'), NEW r \in Run, r = wire'[i].run
        PROVE  /\ \A j \in i..Len(wire') : r <= wire'[j].run
               /\ r <= last
               /\ IsTouch(r) => Settled(r)
               /\ \A q \in Run : q > r => Later(q)'
    <3>1. i + 1 \in 1..Len(wire) /\ wire[i + 1].run = r
      BY <1>2, <2>1
    <3>2. /\ \A j \in (i + 1)..Len(wire) : r <= wire[j].run
          /\ r <= last
          /\ IsTouch(r) => Settled(r)
          /\ \A q \in Run : q > r => Later(q)
      BY <3>1 DEF SequenceInv, WireInv
    <3>3. p <= r /\ r \in Nat
      <4>1. \A j \in 1..Len(wire) : wire[1].run <= wire[j].run
        BY <1>0 DEF SequenceInv, WireInv
      <4> QED BY <1>c, <3>1, <4>1 DEF Run
    <3>4. ASSUME NEW j \in i..Len(wire') PROVE r <= wire'[j].run
      <4>1. j + 1 \in (i + 1)..Len(wire) /\ j \in 1..Len(wire')
        BY <1>2
      <4> QED BY <1>2, <3>2, <4>1
    <3>5. ASSUME NEW q \in Run, q > r PROVE Later(q)'
      <4>1. q # p
        BY <1>0, <3>3, <3>5 DEF Run
      <4> QED BY <1>4, <3>2, <3>5, <4>1
    <3> QED BY <3>2, <3>4, <3>5
  <2>2. ASSUME NEW i \in 1..Len(wire') PROVE wire'[i].run \in Run
    <3>1. i + 1 \in 1..Len(wire)
      BY <1>2
    <3> QED BY <1>2, <3>1, Numbers
  <2> QED BY <1>0, <1>3, <2>1, <2>2 DEF WireInv
<1>12. FingerInv'
  <2>1. ASSUME NEW q \in Run, q > p PROVE Later(q)'
    <3>1. Later(q)
      BY <1>0, <1>c, <2>1 DEF SequenceInv, WireInv
    <3> QED BY <1>0, <1>4, <2>1, <3>1 DEF Run
  <2>2. /\ Length(p) \in Nat /\ gesture[p] \in Gesture
        /\ ~IsTouch(p) => e.type = "char"
        /\ IsTouch(p) => /\ Length(p) > 1
                         /\ k = 1 => e = Event("down", Finger(gesture[p]))
                         /\ k = Length(p) => e = Event("up", Finger(gesture[p]))
                         /\ k \in 2..(Length(p) - 1) => e.type = "move"
    BY <1>0, <1>5, Numbers, ScriptShape DEF IsTouch, Length
  <2>3. ASSUME NEW f \in fingers' PROVE \E r \in Run : Holds(f, r)'
    <3>1. CASE k = 1 /\ IsTouch(p) /\ Finger(gesture[p]) = f
      <4>1. Len(got'[p]) \in 1..(Length(p) - 1)
        BY <1>1, <1>5, <1>e, <2>2, <3>1
      <4>2. Settled(p)
        BY <1>0, <1>c, <3>1 DEF SequenceInv, WireInv
      <4>3. Holds(f, p)'
        BY <1>0, <1>3, <2>1, <3>1, <4>1, <4>2 DEF Holds
      <4> QED BY <1>0, <4>3
    <3>2. CASE ~(k = 1 /\ IsTouch(p) /\ Finger(gesture[p]) = f)
      <4>1. f \in fingers
        <5>1. e.type = "down" => e.finger # f
          BY <1>5, <2>2, <3>2 DEF Event
        <5> QED BY <1>f, <2>3, <5>1
      <4>2. PICK r \in Run : Holds(f, r)
        BY <4>1 DEF SequenceInv, FingerInv
      <4>3. CASE r # p
        <5>1. ASSUME NEW q \in Run, q > r, IsTouch(q), Finger(gesture[q]) = f, Sends(q)
              PROVE  Later(q)'
          <6>1. Later(q)
            BY <4>2, <5>1 DEF Holds
          <6>2. q # p
            <7>1. q = p => k = 1
              BY <1>e, <6>1 DEF Later
            <7> QED BY <3>2, <5>1, <7>1
          <6> QED BY <1>4, <6>1, <6>2
        <5> QED BY <1>1, <1>3, <4>2, <4>3, <5>1 DEF Holds
      <4>4. CASE r = p
        <5>1. IsTouch(p) /\ Finger(gesture[p]) = f /\ Len(got[p]) \in 1..(Length(p) - 1) /\ Settled(p)
          BY <4>2, <4>4 DEF Holds
        <5>2. k # Length(p)
          BY <1>f, <2>2, <2>3, <5>1 DEF Event
        <5>3. Len(got'[p]) \in 1..(Length(p) - 1)
          BY <1>1, <1>5, <1>e, <2>2, <5>1, <5>2
        <5>4. Holds(f, p)'
          BY <1>0, <1>3, <2>1, <5>1, <5>3 DEF Holds
        <5> QED BY <1>0, <5>4
      <4> QED BY <4>3, <4>4
    <3> QED BY <3>1, <3>2
  <2> QED BY <2>3 DEF FingerInv
<1> QED BY <1>7, <1>8, <1>9, <1>10, <1>11, <1>12 DEF SequenceInv

\* The provider dies: nothing is under way and no finger is down.
LEMMA VanishKeeps ==
    ASSUME TouchInv, SequenceInv, Vanish
    PROVE  SequenceInv'
<1>0. /\ wire' = <<>> /\ Len(wire') = 0 /\ fingers' = {} /\ broken' = TRUE /\ losses' # 0
      /\ UNCHANGED <<phase, gesture, sent, outcome, last, cut, got>>
  BY TouchAssumption DEF Vanish, hand, TouchInv, TouchTypeOK, TouchAssumption
<1>1. ASSUME NEW r \in Run
      PROVE  /\ UnderWay(r)' = 0 /\ Arrived(r)' \in Nat /\ Arrived(r) \in Nat
             /\ Arrived(r)' <= Arrived(r)
             /\ IsTouch(r)' = IsTouch(r) /\ Length(r)' = Length(r)
             /\ (InHand(r)' <=> InHand(r)) /\ (Sends(r)' <=> Sends(r))
  <2>1. UnderWay(r)' = 0
    BY <1>0, CountNothing DEF UnderWay
  <2>2. Len(got[r]) \in Nat /\ UnderWay(r) \in Nat
    BY Numbers
  <2>3. Arrived(r)' = Len(got[r]) /\ Arrived(r) = Len(got[r]) + UnderWay(r)
    BY <1>0, <2>1, <2>2 DEF Arrived
  <2> QED BY <1>0, <2>1, <2>2, <2>3 DEF IsTouch, Length, InHand, Sends
<1>2. PrefixInv'
  <2>1. ASSUME NEW r \in Run
        PROVE  /\ \A i \in 1..Len(got[r]) : i <= Length(r) /\ got[r][i] = Script(gesture[r])[i]
               /\ ~IsTouch(r) => Arrived(r)' <= MaxChars
    BY <1>1, TouchAssumption DEF SequenceInv, PrefixInv, TouchAssumption
  <2> QED BY <1>0, <1>1, <2>1 DEF PrefixInv
<1>3. RunInv'
  <2>1. ASSUME NEW r \in Run
        PROVE  /\ InHand(r) <=> outcome[r] = "running"
               /\ Arrived(r)' > 0 => r <= last /\ Sends(r)
               /\ outcome[r] # "none" => r <= last
    BY <1>1 DEF SequenceInv, RunInv
  <2> QED BY <1>0, <1>1, <2>1 DEF RunInv
<1>4. SentInv'
  BY <1>0, <1>1, Numbers DEF SequenceInv, SentInv, Whole, Current
<1>5. BrokenInv' /\ DoneInv'
  BY <1>0, <1>1 DEF SequenceInv, BrokenInv, DoneInv
<1>6. WireInv' /\ FingerInv'
  BY <1>0 DEF WireInv, FingerInv
<1> QED BY <1>2, <1>3, <1>4, <1>5, <1>6 DEF SequenceInv

\* Every step of the loop keeps the invariant.
LEMMA SequenceStep == TouchInv /\ SequenceInv /\ [Next]_vars => SequenceInv'
<1> SUFFICES ASSUME TouchInv, SequenceInv, [Next]_vars PROVE SequenceInv'
  OBVIOUS
<1>0. CASE UNCHANGED touch
  <2>1. UNCHANGED <<phase, gesture, sent, outcome, last, cut, wire, fingers, broken, got, losses>>
    BY <1>0 DEF touch, hand, provider
  <2> QED BY <2>1 DEF SequenceInv, PrefixInv, RunInv, SentInv, BrokenInv, DoneInv, WireInv, FingerInv,
             Holds, Later, Settled, Sends, InHand, Length, IsTouch, Arrived, UnderWay, Whole, Current
<1>1. ASSUME NEW g \in Gesture, Begin(g) PROVE SequenceInv'
  BY <1>1, BeginKeeps
<1>2. CASE Send
  BY <1>2, SendKeeps
<1>3. CASE SendFails
  BY <1>3, EndsSequence DEF SendFails
<1>4. CASE Acknowledged
  <2>1. CASE sent = Whole
    BY <1>4, <2>1, EndsSequence DEF Acknowledged
  <2>2. CASE sent # Whole
    BY <1>4, <2>2, NextCharacter DEF Acknowledged
  <2> QED BY <2>1, <2>2
<1>5. CASE AnswerLost
  BY <1>5, EndsSequence DEF AnswerLost
<1>6. CASE Observe
  <2>1. sent = Whole /\ IsTouch(last)
    BY <1>6 DEF Observe, SequenceInv, SentInv
  <2> QED BY <1>6, <2>1, EndsSequence DEF Observe
<1>7. CASE TouchDies
  BY <1>0, <1>7, EndsSequence DEF TouchDies
<1>8. CASE Receive
  BY <1>8, ReceiveKeeps
<1>9. CASE Vanish
  BY <1>9, VanishKeeps
<1> QED
  BY <1>0, <1>1, <1>2, <1>3, <1>4, <1>5, <1>6, <1>7, <1>8, <1>9
     DEF Next, vars, LocalRequest, WorkerTurn, Starts, Continues, Returns, TimePasses,
         ProviderMoves, Restart, Daemon, Provider

\* The inductive invariant holds in every reachable state.
LEMMA SequenceInductive == Spec => [](TouchInv /\ SequenceInv)
<1>1. Init => TouchInv /\ SequenceInv
  BY InitTouch, InitSequence DEF Init
<1>2. (TouchInv /\ SequenceInv) /\ [Next]_vars => (TouchInv /\ SequenceInv)'
  BY TouchStep, SequenceStep
<1> QED BY <1>1, <1>2, PTL DEF Spec
-----------------------------------------------------------------------------
(* Every gesture arrives from its beginning and in order, and one that is  *)
(* reported completed has arrived or is under way as a whole               *)
(* (zxtouch_tap_point, zxtouch_swipe_points, zxtouch_insert_text).         *)
THEOREM GesturesArriveWhole == Spec => []WholeOrFailed
<1>1. TouchInv /\ SequenceInv => WholeOrFailed
  <2> SUFFICES ASSUME TouchInv, SequenceInv PROVE WholeOrFailed
    OBVIOUS
  <2>1. ASSUME NEW r \in Run
        PROVE  /\ \A i \in 1..Len(got[r]) :
                     i <= Len(Script(gesture[r])) /\ got[r][i] = Script(gesture[r])[i]
               /\ \A i \in 1..Len(wire) : wire[i].run = r =>
                     /\ Len(got[r]) + Count(wire, i, r) <= Len(Script(gesture[r]))
                     /\ wire[i].event = Script(gesture[r])[Len(got[r]) + Count(wire, i, r)]
               /\ gesture[r].kind = "text" => Len(got[r]) + UnderWay(r) <= MaxChars
    BY DEF SequenceInv, PrefixInv, Length, IsTouch, Arrived
  <2>2. ASSUME NEW r \in Run, outcome[r] = "completed", losses = 0 \/ gesture[r].kind = "text"
        PROVE  Len(got[r]) + (IF gesture[r].kind = "text" THEN 0 ELSE UnderWay(r))
                 = Len(Script(gesture[r]))
    <3>1. IF IsTouch(r) THEN losses = 0 => Arrived(r) = Length(r) ELSE Len(got[r]) = Length(r)
      BY <2>2 DEF SequenceInv, DoneInv
    <3>2. Len(got[r]) \in Nat
      BY Numbers
    <3> QED BY <2>2, <3>1, <3>2 DEF IsTouch, Arrived, Length
  <2> QED BY <2>1, <2>2 DEF WholeOrFailed
<1> QED BY <1>1, SequenceInductive, PTL

(* Between two gestures, with nothing under way, a finger is down only if  *)
(* the last gesture that used it was cut (zxtouch_tap_point,               *)
(* zxtouch_swipe_points: no event is sent to undo an earlier one).         *)
THEOREM FingersAreLifted == Spec => []FingersLift
<1>1. TouchInv /\ SequenceInv => FingersLift
  <2> SUFFICES ASSUME TouchInv, SequenceInv, phase = "idle", wire = <<>>, NEW f \in fingers
               PROVE  \E r \in Touches(f) \intersect cut : \A q \in Touches(f) : q <= r
    BY DEF FingersLift
  <2>1. PICK r \in Run : Holds(f, r)
    BY DEF SequenceInv, FingerInv
  <2>2. ASSUME NEW q \in Run PROVE q \in Nat /\ UnderWay(q) = 0 /\ Arrived(q) = Len(got[q])
    <3>1. Len(wire) = 0 /\ Len(got[q]) \in Nat
      BY Numbers
    <3>2. UnderWay(q) = 0
      BY <3>1, CountNothing DEF UnderWay
    <3> QED BY <3>1, <3>2 DEF Arrived, Run
  <2>3. IsTouch(r) /\ Finger(gesture[r]) = f /\ Len(got[r]) \in 1..(Length(r) - 1) /\ Settled(r)
    BY <2>1 DEF Holds
  <2>4. Arrived(r) > 0 /\ Arrived(r) # Length(r)
    BY <2>2, <2>3, Numbers
  <2>5. r \in cut
    BY <2>3, <2>4 DEF Settled, InHand
  <2>6. r \in Touches(f)
    BY <2>3, <2>4 DEF SequenceInv, RunInv, Sends, IsTouch, Touches
  <2>7. ASSUME NEW q \in Touches(f) PROVE q <= r
    <3>1. q \in Run /\ IsTouch(q) /\ Finger(gesture[q]) = f /\ Sends(q)
      BY DEF Touches, IsTouch, Sends, InHand
    <3>2. ~Later(q)
      BY <2>2, <3>1 DEF Later
    <3> QED BY <2>1, <2>2, <3>1, <3>2 DEF Holds
  <2> QED BY <2>5, <2>6, <2>7
<1> QED BY <1>1, SequenceInductive, PTL
=============================================================================
