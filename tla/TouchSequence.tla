--------------------------- MODULE TouchSequence ---------------------------
(***************************************************************************)
(* The ZXTouch adapter (zxtouch_tap_point, zxtouch_swipe_points,           *)
(* zxtouch_insert_text): one gesture at a time is sent event by event to a *)
(* provider outside the daemon, which applies what it was sent in order    *)
(* and at its own pace.  A tap or a swipe sends its events over one        *)
(* connection and reads no answer to them; it only asks for the screen's   *)
(* size before and after.  A text opens a connection for each character    *)
(* and waits for its answer.                                               *)
(*                                                                         *)
(* A gesture is its kind and its length: a character that is refused for   *)
(* what it is ends a text as a connection that fails does.                 *)
(***************************************************************************)
EXTENDS Integers, Sequences, FiniteSets

CONSTANTS Gesture,    \* [kind, steps]: moves of a swipe, characters of a text
          MaxChars,   \* characters zxtouch_insert_text sends at most (256)
          MaxRuns,    \* bound on gestures that are begun
          MaxLosses   \* bound on deaths of the provider

ASSUME TouchAssumption ==
    /\ Gesture # {}
    /\ \A g \in Gesture : /\ g.kind \in {"tap", "swipe", "text"}
                          /\ g.steps \in Nat
                          /\ g.kind = "text" => g.steps > 0
    /\ MaxChars \in Nat /\ MaxRuns \in Nat /\ MaxLosses \in Nat

Run == 1..MaxRuns
Finger(g) == IF g.kind = "tap" THEN 0 ELSE 1
Event(t, f) == [type |-> t, finger |-> f]

\* Mutation: a swipe ends with the finger on the screen.
ScriptHolds(g) ==
    CASE g.kind = "tap"   -> <<Event("down", 0), Event("up", 0)>>
      [] g.kind = "swipe" -> <<Event("down", 1)>> \o [i \in 1..g.steps |-> Event("move", 1)]
      [] g.kind = "text"  -> [i \in 1..g.steps |-> Event("char", i)]

\* What a gesture sends.
Script(g) ==
    CASE g.kind = "tap"   -> <<Event("down", 0), Event("up", 0)>>
      [] g.kind = "swipe" -> <<Event("down", 1)>> \o [i \in 1..g.steps |-> Event("move", 1)]
                               \o <<Event("up", 1)>>
      [] g.kind = "text"  -> [i \in 1..g.steps |-> Event("char", i)]

VARIABLES
    \* the daemon
    phase,    \* "idle", "send", "await" the answer to a character, "observe" the screen
    gesture,  \* per run, the gesture
    sent,     \* events of the current run that were sent
    outcome,  \* per run, "none", "running", "completed", "failed", or
              \* "refused" when it failed before anything was sent
    last,     \* the current or last run
    \* the provider
    wire,     \* events sent and not yet applied, with their run
    fingers,  \* fingers it holds on the screen
    broken,   \* it died since the connection was opened
    \* observation
    got,      \* per run, the events it applied
    cut,      \* touches that ended between their first and their last event
    losses

hand     == <<phase, gesture, sent, outcome, last, cut>>
provider == <<wire, fingers, broken, got, losses>>
touch    == <<hand, provider>>

TouchInit ==
    /\ phase = "idle"
    /\ gesture = [r \in Run |-> CHOOSE g \in Gesture : TRUE]
    /\ sent = 0 /\ last = 0 /\ cut = {}
    /\ outcome = [r \in Run |-> "none"]
    /\ wire = <<>> /\ fingers = {} /\ broken = FALSE
    /\ got = [r \in Run |-> <<>>]
    /\ losses = 0

Current == gesture[last]
Whole   == Len(Script(Current))

Ends(o) ==
    /\ phase' = "idle"
    /\ outcome' = [outcome EXCEPT ![last] = IF sent = 0 THEN "refused" ELSE o]
    /\ cut' = IF Current.kind # "text" /\ sent \in 1..(Whole - 1) THEN cut \union {last} ELSE cut
    /\ sent' = 0
    /\ UNCHANGED <<gesture, last>>
-----------------------------------------------------------------------------
\* The gesture is begun: the points are inside the screen and the adapter
\* accepts a connection; a gesture that fails before changes nothing.
Begin(g) ==
    /\ phase = "idle" /\ last < MaxRuns
    /\ last' = last + 1
    /\ gesture' = [gesture EXCEPT ![last'] = g]
    /\ sent' = 0 /\ broken' = FALSE
    /\ phase' = "send"
    /\ outcome' = [outcome EXCEPT ![last'] = "running"]
    /\ UNCHANGED <<cut, wire, fingers, got, losses>>

\* What is written to a connection that broke may be taken and lost; each
\* character has a connection of its own, and only MaxChars are sent.
Send ==
    /\ phase = "send"
    /\ Current.kind = "text" => sent < MaxChars
    /\ broken' = (broken /\ Current.kind # "text")
    /\ wire' = IF broken' THEN wire
               ELSE Append(wire, [run |-> last, event |-> Script(Current)[sent + 1]])
    /\ sent' = sent + 1
    /\ phase' = IF Current.kind = "text" THEN "await"
                ELSE IF sent' = Whole THEN "observe" ELSE "send"
    /\ UNCHANGED <<gesture, outcome, last, cut, fingers, got, losses>>

\* No connection, a connection that broke, or a character that is not sent:
\* what was sent so far stays, and a finger that is down stays down.
SendFails ==
    /\ phase = "send"
    /\ Ends("failed")
    /\ UNCHANGED provider

\* The answer to a character, read before the timeout.
Waiting == \E i \in DOMAIN wire : wire[i].run = last
Acknowledged ==
    /\ phase = "await"
    /\ ~Waiting /\ Len(got[last]) = sent
    /\ IF sent = Whole
       THEN Ends("completed")
       ELSE phase' = "send" /\ UNCHANGED <<gesture, sent, outcome, last, cut>>
    /\ UNCHANGED provider

\* Mutation: no answer is as good as one.
AnswerLostGoesOn ==
    /\ phase = "await"
    /\ IF sent = Whole
       THEN Ends("completed")
       ELSE phase' = "send" /\ UNCHANGED <<gesture, sent, outcome, last, cut>>
    /\ UNCHANGED provider

\* No answer in time, or an answer that is not "0".
AnswerLost ==
    /\ phase = "await"
    /\ Ends("failed")
    /\ UNCHANGED provider

\* The screen is looked at again; only this tells how a touch went.
Observe ==
    /\ phase = "observe"
    /\ Ends("completed") \/ Ends("failed")
    /\ UNCHANGED provider

\* The daemon dies in the middle of it, by a write to a closed connection for
\* one: nobody lifts the finger.
TouchDies ==
    IF phase = "idle" THEN UNCHANGED touch ELSE Ends("failed") /\ UNCHANGED provider
-----------------------------------------------------------------------------
(* The provider (external)                                                 *)

\* One event is applied.
Receive ==
    /\ wire # <<>>
    /\ LET e == Head(wire).event IN
          fingers' = CASE e.type = "down" -> fingers \union {e.finger}
                       [] e.type = "up"   -> fingers \ {e.finger}
                       [] OTHER           -> fingers
    /\ got' = [got EXCEPT ![Head(wire).run] = Append(@, Head(wire).event)]
    /\ wire' = Tail(wire)
    /\ UNCHANGED <<hand, broken, losses>>

\* It dies and is started again: what it had not applied is lost, and the
\* screen is touched by nobody.
Vanish ==
    /\ losses < MaxLosses
    /\ losses' = losses + 1
    /\ wire' = <<>> /\ fingers' = {} /\ broken' = TRUE
    /\ UNCHANGED <<hand, got>>

Daemon == Send \/ SendFails \/ Acknowledged \/ AnswerLost \/ Observe
Provider == Receive \/ Vanish
-----------------------------------------------------------------------------
\* What can be sent.
EventSet == [type : {"down", "move", "up"}, finger : {0, 1}] \union [type : {"char"}, finger : Nat]
Message  == [run : Run, event : EventSet]

TouchTypeOK ==
    /\ phase \in {"idle", "send", "await", "observe"}
    /\ gesture \in [Run -> Gesture]
    /\ sent \in Nat /\ last \in 0..MaxRuns
    /\ outcome \in [Run -> {"none", "running", "completed", "failed", "refused"}]
    /\ cut \subseteq Run
    /\ wire \in Seq(Message) /\ got \in [Run -> Seq(EventSet)]
    /\ fingers \subseteq {0, 1} /\ broken \in BOOLEAN
    /\ losses \in 0..MaxLosses

\* How many of the first n events of w are of run r, and how many are under way.
Count(w, n, r) == Cardinality({i \in 1..n : w[i].run = r})
UnderWay(r)    == Count(wire, Len(wire), r)

(* What arrives at the provider is a beginning of the gesture, in order,   *)
(* and what is under way continues it, never more than MaxChars characters.*)
(* It has arrived or is under way as a whole when the gesture is reported  *)
(* completed, unless the provider died; the characters of a text have      *)
(* arrived ("acknowledged all text characters", automation_tick).          *)
WholeOrFailed ==
    \A r \in Run : LET text  == gesture[r].kind = "text"
                       whole == Script(gesture[r])
                       next(i) == Len(got[r]) + Count(wire, i, r) IN
        /\ \A i \in 1..Len(got[r]) : i <= Len(whole) /\ got[r][i] = whole[i]
        /\ \A i \in 1..Len(wire) : wire[i].run = r =>
              next(i) <= Len(whole) /\ wire[i].event = whole[next(i)]
        /\ text => Len(got[r]) + UnderWay(r) <= MaxChars
        /\ outcome[r] = "completed" /\ (losses = 0 \/ text) =>
              Len(got[r]) + (IF text THEN 0 ELSE UnderWay(r)) = Len(whole)

\* Touches of a finger that sent anything.
Touches(f) == {r \in Run : /\ gesture[r].kind # "text" /\ Finger(gesture[r]) = f
                           /\ outcome[r] \notin {"none", "refused"}}

(* No finger is left on the screen: between two gestures, once everything  *)
(* sent was applied, a finger is down only if the last gesture that used   *)
(* it was cut in the middle, so the next one that is sent whole lifts it.  *)
FingersLift ==
    phase = "idle" /\ wire = <<>> => \A f \in fingers :
        \E r \in Touches(f) \intersect cut : \A q \in Touches(f) : q <= r
=============================================================================
