-------------------------- MODULE WaitingUserProofs --------------------------
(***************************************************************************)
(* What the iOS pages promise users who tap only when every phone has      *)
(* caught up with the record: for any phones, clock, hours and bounds,     *)
(* RecordViewController implements StudyRecord, and the history lists      *)
(* every session counted.  If they also see that the button says what the  *)
(* record says, no read of a running session comes back empty.             *)
(***************************************************************************)
EXTENDS RecordViewControllerProofs

-----------------------------------------------------------------------------
(* The record, session by session.                                         *)

CheckedInAt(r) == r[In(Next1(r))]

\* Sessions are numbered from 1, each with its check-in and its end; the one
\* after them is running or is not there.
Shape(r) == \A k \in Keys :
  /\ k <= r[NumSessions] => r[In(k)] # Null /\ r[Out(k)] # Null
  /\ k > r[NumSessions] => r[Out(k)] = Null
  /\ k > Next1(r) => r[In(k)] = Null

\* What the page does to it: startRecording, recordSession, setValue(nil).
CheckedIn(r, in) == Apply(r, Set(In(Next1(r)), in))
Recorded(r, out) ==
  Apply(Apply(Apply(r, Set(NumSessions, Next1(r))), Set(Out(Next1(r)), out)),
        Set(TotalHours, r[TotalHours] + Hours[out - CheckedInAt(r)]))
Dismissed(r) == Apply(r, Remove(Next1(r)))

Moved(r, t) ==
  \/ t = r
  \/ ~Running(r) /\ \E in \in Times : t = CheckedIn(r, in)
  \/ Running(r) /\ \E out \in Times : out > CheckedInAt(r) + Limit /\ t = Recorded(r, out)
  \/ Running(r) /\ t = Dismissed(r)

-----------------------------------------------------------------------------
(* The inductive invariant: one phone at a time has anything to do for the  *)
(* record.  It decides what to do while every phone sees what the server    *)
(* has, then its writes are under way until all of them have arrived.       *)

OnlyValues(s) == \A i \in DOMAIN s : s[i].type = "value"

Idle(d) == OnlyValues(events[d]) /\ (alert[d] # Null => alert[d].type # "confirm")

Calm(d) == pending[d] = <<>> /\ Idle(d)

\* A tap, the session it stops, and the question about it: all of them are about
\* the record as it is.
Asked(d) ==
  /\ events[d] = <<TapRead(db)>> /\ alert[d] = Null
  /\ recording[d] => ~Running(db)
  /\ Users = "careful" => (recording[d] <=> ~Running(db))

Found(d) ==
  /\ events[d] = <<StopRead(db[NumSessions], db[TotalHours], CheckedInAt(db))>>
  /\ alert[d] = Null
  /\ Users = "careful" => Running(db)

Question(r, out) ==
  [type |-> "confirm", n |-> r[NumSessions], total |-> r[TotalHours],
   interval |-> out - CheckedInAt(r), out |-> out]

Confirming(d) ==
  /\ events[d] = <<>> /\ Running(db) /\ alert[d] # Null
  /\ \E out \in Times : out > CheckedInAt(db) + Limit /\ alert[d] = Question(db, out)

Synced(d) == heard[d] = db /\ \A i \in DOMAIN inbox[d] : inbox[d][i].record = db

Deciding(d) ==
  /\ pending[d] = <<>> /\ Synced(d) /\ db[NumSessions] < faults.taps
  /\ Asked(d) \/ Found(d) \/ Confirming(d)

\* Writes to different leaves, of which the server has those it took.
Apart(q) == \A i \in DOMAIN q, j \in DOMAIN q : i # j => q[i].leaves \cap q[j].leaves = {}

Landed(r, q, n) == \A i \in DOMAIN q : i <= n =>
  \A l \in Leaves : l \in q[i].leaves => r[l] = q[i].val

Writing(d) ==
  pending[d] # <<>> /\ Idle(d) /\ Apart(pending[d]) /\ Landed(db, pending[d], taken[d])

\* The button says what the flag says, but between a tap and its answer.
ButtonOK(d) == Asked(d) \/ (recording[d] <=> screen[d].title = "Stop")

PhoneInTurn(d) == waiting[d] = 0 /\ ButtonOK(d) /\ (Calm(d) \/ Deciding(d) \/ Writing(d))

TruthOK == Shape(Truth) /\ Truth[NumSessions] <= faults.taps

TurnsInv ==
  /\ \A d \in Devices : PhoneInTurn(d)
  /\ \A d \in Devices, e \in Devices : d # e => Calm(d) \/ Calm(e)
  /\ TruthOK

\* Nobody stops a session while an alert is open, so each one is shown,
AllShown == faults.unshown = {}

\* and a settled page shows the session that runs.
WaitingInv == TurnsInv /\ AllShown /\ FollowInv

-----------------------------------------------------------------------------
(* Sessions in the record.                                                 *)

\* The leaves of a session.
LEMMA SessionLeaves ==
  ASSUME NEW k \in Keys
  PROVE  /\ In(k) \in Leaves /\ Out(k) \in Leaves /\ k \in Nat
         /\ In(k) # NumSessions /\ In(k) # TotalHours
         /\ Out(k) # NumSessions /\ Out(k) # TotalHours
         /\ \A j : In(k) # Out(j)
         /\ \A j : In(k) = In(j) <=> k = j
         /\ \A j : Out(k) = Out(j) <=> k = j
<1>1. In(k) \in Leaves /\ Out(k) \in Leaves /\ k \in Nat
  BY LeafFacts
<1>2. k # 0
  BY DEF Keys
<1>3. QED
  BY <1>1, <1>2 DEF In, Out, NumSessions, TotalHours

\* What a record in shape says of the session that runs and of those that ended.
LEMMA ShapeFacts ==
  ASSUME NEW r \in Records, Shape(r), r[NumSessions] <= MaxTaps
  PROVE  /\ Next1(r) \in Keys /\ r[NumSessions] \in Nat /\ Next1(r) = r[NumSessions] + 1
         /\ r[Out(Next1(r))] = Null
         /\ Running(r) <=> CheckedInAt(r) # Null
         /\ Field(r, In(Next1(r))) = CheckedInAt(r)
         /\ CheckedInAt(r) \in Times \cup {Null}
         /\ Entered(r) = 1..r[NumSessions]
         /\ 1..r[NumSessions] \subseteq Keys
         /\ \A k \in 1..r[NumSessions] : r[In(k)] \in Times /\ r[Out(k)] # Null
<1>1. r[NumSessions] \in Nat /\ MaxTaps \in Nat /\ Next1(r) = r[NumSessions] + 1
  BY RecordFacts, ConstantsOK DEF Next1
<1>2. Next1(r) \in Keys /\ 1..r[NumSessions] \subseteq Keys
  BY <1>1 DEF Keys
<1>3. r[Out(Next1(r))] = Null
  BY <1>1, <1>2 DEF Shape
<1>4. In(Next1(r)) \in Leaves /\ Out(Next1(r)) \in Leaves
  BY <1>2, SessionLeaves
<1>5. Running(r) <=> CheckedInAt(r) # Null
  BY <1>3, <1>4 DEF Running, Child, Field, CheckedInAt
<1>6. Field(r, In(Next1(r))) = CheckedInAt(r)
  BY <1>4 DEF Field, CheckedInAt
<1>7. \A k \in Keys : r[In(k)] \in Times \cup {Null}
  BY RecordFacts
<1>8. \A k \in Keys : Child(r, k) <=> r[In(k)] # Null \/ r[Out(k)] # Null
  BY SessionLeaves DEF Child, Field
<1>9. \A k \in Keys : k \in Nat /\ (k <= r[NumSessions] \/ k = Next1(r) \/ k > Next1(r))
  BY <1>1, LeafFacts
<1>10. \A k \in Keys : k \in Entered(r) <=> k <= r[NumSessions]
  <2> TAKE k \in Keys
  <2>1. k \in Entered(r) <=> Child(r, k) /\ k # Next1(r)
    BY DEF Entered
  <2>2. CASE k <= r[NumSessions]
    BY <2>1, <2>2, <1>1, <1>8, <1>9 DEF Shape
  <2>3. CASE k = Next1(r)
    BY <2>1, <2>3, <1>1
  <2>4. CASE k > Next1(r)
    <3>1. k > r[NumSessions] /\ ~(k <= r[NumSessions])
      BY <2>4, <1>1, <1>9
    <3>2. ~Child(r, k)
      BY <2>4, <3>1, <1>8 DEF Shape
    <3>3. QED
      BY <2>1, <3>1, <3>2
  <2>5. QED
    BY <1>9, <2>2, <2>3, <2>4
<1>11. Entered(r) = 1..r[NumSessions]
  <2>1. Entered(r) \subseteq Keys
    BY DEF Entered
  <2>2. \A k \in Keys : k \in 1..r[NumSessions] <=> k <= r[NumSessions]
    BY <1>1 DEF Keys
  <2>3. QED
    BY <1>2, <1>10, <2>1, <2>2
<1>12. \A k \in 1..r[NumSessions] : r[In(k)] \in Times /\ r[Out(k)] # Null
  BY <1>2, <1>7 DEF Shape
<1>13. QED
  BY <1>1, <1>2, <1>3, <1>5, <1>6, <1>7, <1>11, <1>12 DEF CheckedInAt

\* What each of the three changes.
LEMMA CheckedInFields ==
  ASSUME NEW r, NEW in, Next1(r) \in Keys
  PROVE  LET t == CheckedIn(r, in)
         IN  /\ t[NumSessions] = r[NumSessions] /\ t[TotalHours] = r[TotalHours]
             /\ \A k \in Keys : t[In(k)] = IF k = Next1(r) THEN in ELSE r[In(k)]
             /\ \A k \in Keys : t[Out(k)] = r[Out(k)]
BY LeafFacts, SessionLeaves DEF CheckedIn, Apply, Set

LEMMA DismissedFields ==
  ASSUME NEW r, Next1(r) \in Keys
  PROVE  LET t == Dismissed(r)
         IN  /\ t[NumSessions] = r[NumSessions] /\ t[TotalHours] = r[TotalHours]
             /\ \A k \in Keys : t[In(k)] = IF k = Next1(r) THEN Null ELSE r[In(k)]
             /\ \A k \in Keys : t[Out(k)] = IF k = Next1(r) THEN Null ELSE r[Out(k)]
<1> DEFINE t == Dismissed(r)
           w == Remove(Next1(r))
<1>1. \A l \in Leaves : t[l] = IF l \in {In(Next1(r)), Out(Next1(r))} THEN Null ELSE r[l]
  BY DEF Dismissed, Apply, Remove
<1> HIDE DEF t
<1>2. NumSessions \notin {In(Next1(r)), Out(Next1(r))} /\ TotalHours \notin {In(Next1(r)), Out(Next1(r))}
  BY SessionLeaves
<1>3. \A k \in Keys : In(k) \in {In(Next1(r)), Out(Next1(r))} <=> k = Next1(r)
  BY SessionLeaves
<1>4. \A k \in Keys : Out(k) \in {In(Next1(r)), Out(Next1(r))} <=> k = Next1(r)
  BY SessionLeaves
<1>5. QED
  BY <1>1, <1>2, <1>3, <1>4, LeafFacts, SessionLeaves DEF t

LEMMA RecordedFields ==
  ASSUME NEW r, NEW out, Next1(r) \in Keys
  PROVE  LET t == Recorded(r, out)
         IN  /\ t[NumSessions] = Next1(r)
             /\ t[TotalHours] = r[TotalHours] + Hours[out - CheckedInAt(r)]
             /\ \A k \in Keys : t[In(k)] = r[In(k)]
             /\ \A k \in Keys : t[Out(k)] = IF k = Next1(r) THEN out ELSE r[Out(k)]
<1> DEFINE t == Recorded(r, out)
           h == r[TotalHours] + Hours[out - CheckedInAt(r)]
<1>1. \A l \in Leaves : t[l] = IF l = TotalHours THEN h
                               ELSE IF l = Out(Next1(r)) THEN out
                               ELSE IF l = NumSessions THEN Next1(r) ELSE r[l]
  BY DEF Recorded, Apply, Set
<1> HIDE DEF t, h
<1>2. NumSessions # Out(Next1(r)) /\ TotalHours # Out(Next1(r))
  BY SessionLeaves
<1>3. QED
  BY <1>1, <1>2, LeafFacts, SessionLeaves DEF t, h

\* A move keeps the record in shape, and counts a session only where one runs.
LEMMA MovedShape ==
  ASSUME NEW r \in Records, NEW t, Shape(r), r[NumSessions] <= MaxTaps, Moved(r, t)
  PROVE  /\ Shape(t)
         /\ t[NumSessions] = r[NumSessions] \/ t[NumSessions] = r[NumSessions] + 1
<1>1. /\ Next1(r) \in Keys /\ r[NumSessions] \in Nat /\ Next1(r) = r[NumSessions] + 1
      /\ Running(r) <=> CheckedInAt(r) # Null
  BY ShapeFacts
<1>2. \A k \in Keys : k \in Nat
  BY LeafFacts
<1>3. CASE t = r
  BY <1>3
<1>4. ASSUME NEW in \in Times, t = CheckedIn(r, in)
      PROVE  Shape(t) /\ t[NumSessions] = r[NumSessions]
  <2>1. /\ t[NumSessions] = r[NumSessions] /\ Next1(t) = Next1(r)
        /\ \A k \in Keys : t[In(k)] = IF k = Next1(r) THEN in ELSE r[In(k)]
        /\ \A k \in Keys : t[Out(k)] = r[Out(k)]
    BY <1>1, <1>4, CheckedInFields DEF Next1
  <2>2. QED
    BY <1>1, <1>2, <2>1 DEF Shape
<1>5. ASSUME Running(r), NEW out \in Times, t = Recorded(r, out)
      PROVE  Shape(t) /\ t[NumSessions] = r[NumSessions] + 1
  <2>1. /\ t[NumSessions] = Next1(r) /\ Next1(t) = Next1(r) + 1
        /\ \A k \in Keys : t[In(k)] = r[In(k)]
        /\ \A k \in Keys : t[Out(k)] = IF k = Next1(r) THEN out ELSE r[Out(k)]
    BY <1>1, <1>5, RecordedFields DEF Next1
  <2>2. out # Null /\ r[In(Next1(r))] # Null
    BY <1>1, <1>5, ConstantsOK, TimesFacts DEF CheckedInAt
  <2>3. SUFFICES ASSUME NEW k \in Keys
                 PROVE  /\ k <= t[NumSessions] => t[In(k)] # Null /\ t[Out(k)] # Null
                        /\ k > t[NumSessions] => t[Out(k)] = Null
                        /\ k > Next1(t) => t[In(k)] = Null
    BY <1>1, <2>1 DEF Shape
  <2>4. /\ k <= r[NumSessions] => r[In(k)] # Null /\ r[Out(k)] # Null
        /\ k > r[NumSessions] => r[Out(k)] = Null
        /\ k > Next1(r) => r[In(k)] = Null
    BY DEF Shape
  <2>5. k \in Nat
    BY <1>2
  <2>6. QED
    BY <1>1, <2>1, <2>2, <2>4, <2>5
<1>6. ASSUME t = Dismissed(r)
      PROVE  Shape(t) /\ t[NumSessions] = r[NumSessions]
  <2>1. /\ t[NumSessions] = r[NumSessions] /\ Next1(t) = Next1(r)
        /\ \A k \in Keys : t[In(k)] = IF k = Next1(r) THEN Null ELSE r[In(k)]
        /\ \A k \in Keys : t[Out(k)] = IF k = Next1(r) THEN Null ELSE r[Out(k)]
    BY <1>1, <1>6, DismissedFields DEF Next1
  <2>2. QED
    BY <1>1, <1>2, <2>1 DEF Shape
<1>7. QED
  BY <1>3, <1>4, <1>5, <1>6 DEF Moved

-----------------------------------------------------------------------------
(* The record as it will be.                                               *)

TruthOf(r, p) ==
  LET busy == {d \in Devices : p[d] # <<>>}
  IN  IF busy = {} THEN r ELSE Under(r, p[CHOOSE d \in busy : TRUE])

\* Truth, as a function of the server and of the writes under way.
LEMMA TruthIs == Truth = TruthOf(db, pending) /\ Truth' = TruthOf(db', pending')
BY DEF Truth, TruthOf

\* It is a record.
LEMMA TruthOfType ==
  ASSUME NEW r \in Records, NEW p \in [Devices -> Seq(Writes)]
  PROVE  TruthOf(r, p) \in Records
<1> DEFINE busy == {d \in Devices : p[d] # <<>>}
<1>1. CASE busy = {}
  BY <1>1 DEF TruthOf
<1>2. CASE busy # {}
  <2>1. (CHOOSE d \in busy : TRUE) \in Devices
    BY <1>2
  <2>2. PICK c \in Devices : c = CHOOSE d \in busy : TRUE
    BY <2>1
  <2>3. TruthOf(r, p) = Under(r, p[c])
    BY <1>2, <2>2 DEF TruthOf
  <2>4. p[c] \in Seq(Writes)
    OBVIOUS
  <2>5. QED
    BY <2>3, <2>4, UnderType
<1>3. QED
  BY <1>1, <1>2

\* The only phone with writes is the one whose writes count.
LEMMA OneWriter ==
  ASSUME NEW r \in Records, NEW p, NEW d \in Devices,
         \A e \in Devices : e # d => p[e] = <<>>
  PROVE  TruthOf(r, p) = Under(r, p[d])
<1> DEFINE busy == {e \in Devices : p[e] # <<>>}
<1>1. CASE p[d] = <<>>
  <2>1. busy = {}
    BY <1>1
  <2>2. TruthOf(r, p) = r
    BY <2>1 DEF TruthOf
  <2>3. QED
    BY <1>1, <2>2, UnderNothing
<1>2. CASE p[d] # <<>>
  <2>1. busy = {d}
    BY <1>2
  <2>2. TruthOf(r, p) = Under(r, p[CHOOSE e \in {d} : TRUE])
    BY <2>1 DEF TruthOf
  <2>3. (CHOOSE e \in {d} : TRUE) = d
    OBVIOUS
  <2>4. QED
    BY <2>2, <2>3
<1>3. QED
  BY <1>1, <1>2

\* Writes apart do not hide one another.
LEMMA UnderApart ==
  ASSUME NEW r, NEW q \in Seq(Writes), Apart(q), NEW l \in Leaves
  PROVE  /\ \A i \in DOMAIN q : l \in q[i].leaves => Under(r, q)[l] = q[i].val
         /\ (\A i \in DOMAIN q : l \notin q[i].leaves) => Under(r, q)[l] = r[l]
<1> DEFINE over == {i \in DOMAIN q : l \in q[i].leaves}
<1>1. Under(r, q)[l] = IF over = {} THEN r[l] ELSE q[Max(over)].val
  BY DEF Under
<1>2. ASSUME NEW i \in DOMAIN q, l \in q[i].leaves
      PROVE  Under(r, q)[l] = q[i].val
  <2>1. over = {i}
    BY <1>2 DEF Apart
  <2>2. Len(q) \in Nat /\ over \in SUBSET (1..Len(q))
    BY LenProperties
  <2>3. Max(over) \in over
    <3> HIDE DEF over
    <3> QED BY <2>1, <2>2, MaxIsIn
  <2>4. QED
    BY <1>1, <2>1, <2>3
<1>3. QED
  BY <1>1, <1>2

\* Two records are the same leaf by leaf.
LEMMA SameUnder ==
  ASSUME NEW r, NEW q, NEW s, NEW p, \A l \in Leaves : Under(r, q)[l] = Under(s, p)[l]
  PROVE  Under(r, q) = Under(s, p)
<1>1. PICK u : u = Under(r, q)
  OBVIOUS
<1>2. PICK v : v = Under(s, p)
  OBVIOUS
<1>3. u = [l \in Leaves |-> u[l]]
  BY <1>1 DEF Under
<1>4. v = [l \in Leaves |-> v[l]]
  BY <1>2 DEF Under
<1>5. \A l \in Leaves : u[l] = v[l]
  BY <1>1, <1>2
<1>6. u = v
  BY <1>3, <1>4, <1>5
<1>7. QED
  BY <1>1, <1>2, <1>6

\* The server takes a write: what the record will be is the same.
LEMMA UnderTake ==
  ASSUME NEW r, NEW q \in Seq(Writes), Apart(q), NEW n \in DOMAIN q
  PROVE  Under(Apply(r, q[n]), q) = Under(r, q)
<1>1. SUFFICES ASSUME NEW l \in Leaves
               PROVE  Under(Apply(r, q[n]), q)[l] = Under(r, q)[l]
  <2>1. PICK s : s = Apply(r, q[n])
    OBVIOUS
  <2>2. QED
    BY <2>1, SameUnder
<1>2. CASE \E i \in DOMAIN q : l \in q[i].leaves
  BY <1>2, UnderApart
<1>3. CASE \A i \in DOMAIN q : l \notin q[i].leaves
  <2>1. Apply(r, q[n])[l] = r[l]
    BY <1>3 DEF Apply
  <2>2. QED
    BY <1>3, <2>1, UnderApart
<1>4. QED
  BY <1>2, <1>3

\* A record has the writes the server has taken.
LEMMA UnderLanded ==
  ASSUME NEW r \in Records, NEW q \in Seq(Writes), Apart(q), Landed(r, q, Len(q))
  PROVE  Under(r, q) = r
<1>1. PICK u : u = Under(r, q)
  OBVIOUS
<1>2. ASSUME NEW l \in Leaves
      PROVE  u[l] = r[l]
  <2>1. CASE \E i \in DOMAIN q : l \in q[i].leaves
    <3>1. PICK i \in DOMAIN q : l \in q[i].leaves
      BY <2>1
    <3>2. i <= Len(q)
      BY LenProperties
    <3>3. u[l] = q[i].val
      BY <1>1, <1>2, <3>1, UnderApart
    <3>4. QED
      BY <1>2, <3>1, <3>2, <3>3 DEF Landed
  <2>2. CASE \A i \in DOMAIN q : l \notin q[i].leaves
    BY <1>1, <1>2, <2>2, UnderApart
  <2>3. QED
    BY <2>1, <2>2
<1>3. u = [l \in Leaves |-> u[l]]
  BY <1>1 DEF Under
<1>4. r = [l \in Leaves |-> r[l]]
  BY DEF Records
<1>5. QED
  BY <1>1, <1>2, <1>3, <1>4

\* A write the server has may be forgotten.
LEMMA UnderTail ==
  ASSUME NEW r, NEW q \in Seq(Writes), q # <<>>, Apart(q), NEW n \in Nat, n > 0, Landed(r, q, n)
  PROVE  /\ Under(r, Tail(q)) = Under(r, q)
         /\ Apart(Tail(q)) /\ Landed(r, Tail(q), n - 1)
<1>1. /\ Tail(q) \in Seq(Writes) /\ 1 \in DOMAIN q
      /\ \A i \in DOMAIN Tail(q) : i \in Nat /\ i + 1 \in DOMAIN q /\ Tail(q)[i] = q[i + 1]
      /\ \A i \in DOMAIN q : i # 1 => i \in Nat /\ i - 1 \in DOMAIN Tail(q) /\ q[i] = Tail(q)[i - 1]
  BY TailFacts
<1>2. Apart(Tail(q))
  <2> SUFFICES ASSUME NEW i \in DOMAIN Tail(q), NEW j \in DOMAIN Tail(q), i # j
               PROVE  Tail(q)[i].leaves \cap Tail(q)[j].leaves = {}
    BY DEF Apart
  <2>1. i + 1 \in DOMAIN q /\ j + 1 \in DOMAIN q /\ i + 1 # j + 1
    BY <1>1
  <2>2. q[i + 1].leaves \cap q[j + 1].leaves = {}
    BY <2>1 DEF Apart
  <2>3. QED
    BY <1>1, <2>2
<1>3. Landed(r, Tail(q), n - 1)
  <2> SUFFICES ASSUME NEW i \in DOMAIN Tail(q), i <= n - 1, NEW l \in Leaves, l \in Tail(q)[i].leaves
               PROVE  r[l] = Tail(q)[i].val
    BY DEF Landed
  <2>1. i + 1 \in DOMAIN q /\ i + 1 <= n /\ Tail(q)[i] = q[i + 1]
    BY <1>1
  <2>2. QED
    BY <2>1 DEF Landed
<1>4. ASSUME NEW l \in Leaves
      PROVE  Under(r, Tail(q))[l] = Under(r, q)[l]
  <2>1. CASE l \in q[1].leaves
    <3>1. Under(r, q)[l] = q[1].val
      BY <1>1, <2>1, UnderApart
    <3>2. r[l] = q[1].val
      <4>1. 1 <= n
        OBVIOUS
      <4>2. QED
        BY <1>1, <2>1, <4>1 DEF Landed
    <3>3. \A i \in DOMAIN Tail(q) : l \notin Tail(q)[i].leaves
      <4> SUFFICES ASSUME NEW i \in DOMAIN Tail(q), l \in Tail(q)[i].leaves
                   PROVE  FALSE
        OBVIOUS
      <4>1. i + 1 \in DOMAIN q /\ i + 1 # 1 /\ l \in q[i + 1].leaves
        BY <1>1
      <4>2. q[i + 1].leaves \cap q[1].leaves = {}
        BY <1>1, <4>1 DEF Apart
      <4>3. QED
        BY <2>1, <4>1, <4>2
    <3>4. PICK t : t = Tail(q)
      OBVIOUS
    <3>5. t \in Seq(Writes) /\ Apart(t) /\ \A i \in DOMAIN t : l \notin t[i].leaves
      BY <1>1, <1>2, <3>3, <3>4
    <3>6. Under(r, t)[l] = r[l]
      BY <3>5, UnderApart
    <3>7. QED
      BY <3>1, <3>2, <3>4, <3>6
  <2>2. CASE l \notin q[1].leaves /\ \E i \in DOMAIN q : l \in q[i].leaves
    <3>1. PICK i \in DOMAIN q : l \in q[i].leaves
      BY <2>2
    <3>2. i - 1 \in DOMAIN Tail(q) /\ Tail(q)[i - 1] = q[i]
      BY <1>1, <2>2, <3>1
    <3>3. Under(r, q)[l] = q[i].val
      BY <3>1, UnderApart
    <3>4. PICK j \in DOMAIN Tail(q) : j = i - 1 /\ l \in Tail(q)[j].leaves
      BY <3>1, <3>2
    <3>5. PICK t : t = Tail(q)
      OBVIOUS
    <3>6. Under(r, t)[l] = t[j].val
      <4>1. t \in Seq(Writes) /\ Apart(t) /\ j \in DOMAIN t /\ l \in t[j].leaves
        BY <1>1, <1>2, <3>4, <3>5
      <4>2. QED
        BY <4>1, UnderApart
    <3>7. QED
      BY <3>2, <3>3, <3>4, <3>5, <3>6
  <2>3. CASE \A i \in DOMAIN q : l \notin q[i].leaves
    <3>1. \A i \in DOMAIN Tail(q) : l \notin Tail(q)[i].leaves
      BY <1>1, <2>3
    <3>2. Under(r, q)[l] = r[l]
      BY <2>3, UnderApart
    <3>3. PICK t : t = Tail(q)
      OBVIOUS
    <3>4. t \in Seq(Writes) /\ Apart(t) /\ \A i \in DOMAIN t : l \notin t[i].leaves
      BY <1>1, <1>2, <3>1, <3>3
    <3>5. Under(r, t)[l] = r[l]
      BY <3>4, UnderApart
    <3>6. QED
      BY <3>2, <3>3, <3>5
  <2>4. QED
    BY <2>1, <2>2, <2>3
<1>5. \A l \in Leaves : Under(r, Tail(q))[l] = Under(r, q)[l]
  BY <1>4
<1>6. Under(r, Tail(q)) = Under(r, q)
  <2>1. PICK t : t = Tail(q)
    OBVIOUS
  <2>2. QED
    BY <1>5, <2>1, SameUnder
<1>7. QED
  BY <1>2, <1>3, <1>6

-----------------------------------------------------------------------------
(* A move is a step of StudyRecord.                                        *)

Finished(r) == [k \in Entered(r) |-> [in |-> r[In(k)], out |-> r[Out(k)]]]
RunningIn(r) == Field(r, In(Next1(r)))

\* A session recorded comes after those before it.
LEMMA FinishedAppend ==
  ASSUME NEW n \in Nat, NEW S, NEW s \in [1..n -> S], NEW x \in S,
         NEW t \in [1..(n + 1) -> S], t[n + 1] = x, \A k \in 1..n : t[k] = s[k]
  PROVE  t = Append(s, x)
<1>1. s \in Seq(S) /\ Len(s) = n
  OBVIOUS
<1>2. PICK u : u = Append(s, x)
  OBVIOUS
<1>3. /\ u \in Seq(S) /\ DOMAIN u = 1..(n + 1) /\ u[n + 1] = x
      /\ \A k \in 1..n : u[k] = s[k]
  BY <1>1, <1>2, AppendProperties, LenProperties
<1>4. u \in [1..(n + 1) -> S]
  BY <1>3
<1>5. \A k \in 1..(n + 1) : k = n + 1 \/ k \in 1..n
  OBVIOUS
<1>6. \A k \in 1..(n + 1) : u[k] = t[k]
  BY <1>3, <1>5
<1>7. t = u
  BY <1>4, <1>6
<1>8. QED
  BY <1>2, <1>7

\* A move that changes something is a check-in, an entry or a dismissal.
LEMMA MovedRefines ==
  ASSUME NEW r \in Records, NEW t \in Records, Shape(r), r[NumSessions] < MaxTaps,
         Moved(r, t), t # r
  PROVE  \/ /\ RunningIn(r) = Null /\ RunningIn(t) \in Times
            /\ Finished(t) = Finished(r) /\ t[TotalHours] = r[TotalHours]
         \/ /\ RunningIn(r) # Null /\ RunningIn(t) = Null
            /\ \E out \in Times :
                 /\ out > RunningIn(r) + Limit
                 /\ Finished(t) = Append(Finished(r), [in |-> RunningIn(r), out |-> out])
                 /\ t[TotalHours] = r[TotalHours] + Hours[out - RunningIn(r)]
         \/ /\ RunningIn(r) # Null /\ RunningIn(t) = Null
            /\ Finished(t) = Finished(r) /\ t[TotalHours] = r[TotalHours]
<1> DEFINE n == r[NumSessions]
           row(q, k) == [in |-> q[In(k)], out |-> q[Out(k)]]
           same == Finished(t) = Finished(r) /\ t[TotalHours] = r[TotalHours]
           begun == RunningIn(r) = Null /\ RunningIn(t) \in Times /\ same
           dropped == RunningIn(r) # Null /\ RunningIn(t) = Null /\ same
           ended(out) == /\ RunningIn(r) # Null /\ RunningIn(t) = Null
                         /\ out > RunningIn(r) + Limit
                         /\ Finished(t) = Append(Finished(r), [in |-> RunningIn(r), out |-> out])
                         /\ t[TotalHours] = r[TotalHours] + Hours[out - RunningIn(r)]
<1>0. n <= MaxTaps /\ n + 1 <= MaxTaps
  BY RecordFacts, ConstantsOK
<1>1. /\ Next1(r) \in Keys /\ n \in Nat /\ Next1(r) = n + 1
      /\ r[Out(Next1(r))] = Null
      /\ Running(r) <=> RunningIn(r) # Null
      /\ RunningIn(r) = CheckedInAt(r)
      /\ Entered(r) = 1..n /\ 1..n \subseteq Keys
  BY <1>0, ShapeFacts DEF RunningIn
<1>2. Finished(r) = [k \in 1..n |-> row(r, k)]
  BY <1>1 DEF Finished
<1>3. Shape(t) /\ t[NumSessions] <= MaxTaps
  BY <1>0, MovedShape
<1>4. /\ RunningIn(t) = CheckedInAt(t) /\ Entered(t) = 1..t[NumSessions]
      /\ Finished(t) = [k \in 1..t[NumSessions] |-> row(t, k)]
  BY <1>3, ShapeFacts DEF RunningIn, Finished
<1>5. \A k \in 1..n : k \in Keys /\ k # Next1(r)
  BY <1>1
<1>6. ASSUME ~Running(r), NEW in \in Times, t = CheckedIn(r, in)
      PROVE  begun
  <2>1. /\ t[NumSessions] = n /\ t[TotalHours] = r[TotalHours] /\ Next1(t) = Next1(r)
        /\ \A k \in Keys : t[In(k)] = IF k = Next1(r) THEN in ELSE r[In(k)]
        /\ \A k \in Keys : t[Out(k)] = r[Out(k)]
    BY <1>1, <1>6, CheckedInFields DEF Next1
  <2>2. RunningIn(t) = in
    BY <1>1, <1>4, <2>1 DEF CheckedInAt
  <2>3. \A k \in 1..n : row(t, k) = row(r, k)
    BY <1>5, <2>1
  <2>4. Finished(t) = Finished(r)
    BY <1>2, <1>4, <2>1, <2>3
  <2>5. QED
    BY <1>1, <1>6, <2>1, <2>2, <2>4
<1>7. ASSUME Running(r), t = Dismissed(r)
      PROVE  dropped
  <2>1. /\ t[NumSessions] = n /\ t[TotalHours] = r[TotalHours] /\ Next1(t) = Next1(r)
        /\ \A k \in Keys : t[In(k)] = IF k = Next1(r) THEN Null ELSE r[In(k)]
        /\ \A k \in Keys : t[Out(k)] = IF k = Next1(r) THEN Null ELSE r[Out(k)]
    BY <1>1, <1>7, DismissedFields DEF Next1
  <2>2. RunningIn(t) = Null
    BY <1>1, <1>4, <2>1 DEF CheckedInAt
  <2>3. \A k \in 1..n : row(t, k) = row(r, k)
    BY <1>5, <2>1
  <2>4. Finished(t) = Finished(r)
    BY <1>2, <1>4, <2>1, <2>3
  <2>5. QED
    BY <1>1, <1>7, <2>1, <2>2, <2>4
<1>8. ASSUME Running(r), NEW out \in Times, out > CheckedInAt(r) + Limit, t = Recorded(r, out)
      PROVE  ended(out)
  <2>1. /\ t[NumSessions] = n + 1 /\ Next1(t) = n + 2
        /\ t[TotalHours] = r[TotalHours] + Hours[out - CheckedInAt(r)]
        /\ \A k \in Keys : t[In(k)] = r[In(k)]
        /\ \A k \in Keys : t[Out(k)] = IF k = Next1(r) THEN out ELSE r[Out(k)]
    BY <1>1, <1>8, RecordedFields DEF Next1
  <2>2. RunningIn(t) = Null
    <3>1. n + 2 \in Keys /\ n + 2 > Next1(r)
      BY <1>0, <1>1, ConstantsOK DEF Keys
    <3>2. r[In(n + 2)] = Null
      BY <3>1 DEF Shape
    <3>3. QED
      BY <1>4, <2>1, <3>1, <3>2 DEF CheckedInAt
  <2>3. PICK x : x = [in |-> RunningIn(r), out |-> out]
    OBVIOUS
  <2>4. row(t, n + 1) = x
    BY <1>1, <2>1, <2>3 DEF CheckedInAt
  <2>5. \A k \in 1..n : row(t, k) = row(r, k)
    BY <1>5, <2>1
  <2>6. PICK S : S = {row(r, k) : k \in 1..n} \cup {x}
    OBVIOUS
  <2>7. PICK s : s = Finished(r)
    OBVIOUS
  <2>8. s \in [1..n -> S] /\ x \in S /\ \A k \in 1..n : s[k] = row(r, k)
    BY <1>2, <2>6, <2>7
  <2>9. Finished(t) = [k \in 1..(n + 1) |-> row(t, k)]
    BY <1>4, <2>1
  <2>10. \A k \in 1..(n + 1) : row(t, k) = IF k = n + 1 THEN x ELSE s[k]
    <3> TAKE k \in 1..(n + 1)
    <3>1. k = n + 1 \/ (k \in 1..n /\ k # n + 1)
      BY <1>1
    <3> HIDE DEF row, n
    <3>2. CASE k = n + 1
      BY <2>4, <3>2
    <3>3. CASE k \in 1..n /\ k # n + 1
      BY <2>5, <2>8, <3>3
    <3> QED BY <3>1, <3>2, <3>3
  <2>11. Finished(t) = [k \in 1..(n + 1) |-> IF k = n + 1 THEN x ELSE s[k]]
    BY <2>9, <2>10
  <2>12. Finished(t) = Append(s, x)
    <3>1. PICK f : f = Finished(t)
      OBVIOUS
    <3> HIDE DEF row, n
    <3>2. f = [k \in 1..(n + 1) |-> IF k = n + 1 THEN x ELSE s[k]]
      BY <2>11, <3>1
    <3>3. n \in Nat /\ s \in [1..n -> S] /\ x \in S
      BY <1>1, <2>8
    <3>4. PICK m \in Nat : m = n
      BY <3>3
    <3>5. s \in [1..m -> S] /\ x \in S
      BY <3>3, <3>4
    <3>6. f = [k \in 1..(m + 1) |-> IF k = m + 1 THEN x ELSE s[k]]
      BY <3>2, <3>4
    <3>7. f \in [1..(m + 1) -> S] /\ f[m + 1] = x /\ \A k \in 1..m : f[k] = s[k]
      BY <3>5, <3>6
    <3>8. f = Append(s, x)
      BY <3>5, <3>7, FinishedAppend
    <3>9. QED
      BY <3>1, <3>8
  <2>13. QED
    BY <1>1, <1>8, <2>1, <2>2, <2>3, <2>7, <2>12
<1>9. begun \/ dropped \/ \E out \in Times : ended(out)
  <2> HIDE DEF begun, dropped, ended
  <2> QED BY <1>6, <1>7, <1>8 DEF Moved
<1>10. QED
  BY <1>9

\* What the page promises of a step.
LEMMA MovedPromised ==
  ASSUME Truth \in Records, Truth' \in Records, Shape(Truth), Truth[NumSessions] < MaxTaps,
         Moved(Truth, Truth')
  PROVE  Truth' = Truth \/ Promised!Next
<1> SUFFICES ASSUME Truth' # Truth
             PROVE  Promised!Next
  OBVIOUS
<1>1. PICK r \in Records : r = Truth
  OBVIOUS
<1>2. PICK t \in Records : t = Truth'
  OBVIOUS
<1>3. \/ /\ RunningIn(r) = Null /\ RunningIn(t) \in Times
         /\ Finished(t) = Finished(r) /\ t[TotalHours] = r[TotalHours]
      \/ /\ RunningIn(r) # Null /\ RunningIn(t) = Null
         /\ \E out \in Times :
              /\ out > RunningIn(r) + Limit
              /\ Finished(t) = Append(Finished(r), [in |-> RunningIn(r), out |-> out])
              /\ t[TotalHours] = r[TotalHours] + Hours[out - RunningIn(r)]
      \/ /\ RunningIn(r) # Null /\ RunningIn(t) = Null
         /\ Finished(t) = Finished(r) /\ t[TotalHours] = r[TotalHours]
  BY <1>1, <1>2, MovedRefines
<1>4. /\ Finished(Truth) = Finished(r) /\ RunningIn(Truth) = RunningIn(r)
      /\ Truth[TotalHours] = r[TotalHours]
      /\ Finished(Truth)' = Finished(t) /\ RunningIn(Truth)' = RunningIn(t)
      /\ Truth'[TotalHours] = t[TotalHours]
  BY <1>1, <1>2 DEF Finished, RunningIn, Entered, Child, Field, Next1
<1>5. Promised!CheckIn <=>
        /\ RunningIn(Truth) = Null /\ RunningIn(Truth)' \in Times
        /\ Finished(Truth)' = Finished(Truth) /\ Truth'[TotalHours] = Truth[TotalHours]
  BY DEF Promised!CheckIn, Finished, RunningIn
<1>6. Promised!Dismiss <=>
        /\ RunningIn(Truth) # Null /\ RunningIn(Truth)' = Null
        /\ Finished(Truth)' = Finished(Truth) /\ Truth'[TotalHours] = Truth[TotalHours]
  BY DEF Promised!Dismiss, Finished, RunningIn
<1>7. Promised!Enter <=>
        /\ RunningIn(Truth) # Null /\ RunningIn(Truth)' = Null
        /\ \E out \in Times :
             /\ out > RunningIn(Truth) + Limit
             /\ Finished(Truth)' = Append(Finished(Truth), [in |-> RunningIn(Truth), out |-> out])
             /\ Truth'[TotalHours] = Truth[TotalHours] + Hours[out - RunningIn(Truth)]
  BY DEF Promised!Enter, Finished, RunningIn
<1>8. Promised!CheckIn \/ Promised!Enter \/ Promised!Dismiss
  BY <1>3, <1>4, <1>5, <1>6, <1>7
<1>9. QED
  BY <1>8 DEF Promised!Next

\* The empty record is the promised one.
LEMMA InitPromised == Init => Promised!Init
<1> SUFFICES ASSUME Init
             PROVE  Promised!Init
  OBVIOUS
<1>1. Truth = EmptyRecord
  BY DEF Init, Truth
<1>2. EmptyRecord[TotalHours] = 0 /\ EmptyRecord[NumSessions] = 0
  BY LeafFacts DEF EmptyRecord
<1>3. \A k : Field(EmptyRecord, In(k)) = Null \/ In(k) \in Counters
  BY DEF Field, EmptyRecord, Counters
<1>4. \A k : Field(EmptyRecord, Out(k)) = Null \/ Out(k) \in Counters
  BY DEF Field, EmptyRecord, Counters
<1>5. \A k \in Nat : Field(EmptyRecord, In(k)) = Null /\ Field(EmptyRecord, Out(k)) = Null
  BY <1>3, <1>4, LeafFacts
<1>6. Next1(EmptyRecord) \in Nat /\ Entered(EmptyRecord) = {}
  <2>1. Next1(EmptyRecord) \in Nat
    BY <1>2 DEF Next1
  <2>2. \A k \in Keys : ~Child(EmptyRecord, k)
    BY <1>5, LeafFacts DEF Child
  <2>3. QED
    BY <2>1, <2>2 DEF Entered
<1>7. Field(Truth, In(Next1(Truth))) = Null /\ Truth[TotalHours] = 0 /\ Entered(Truth) = {}
  BY <1>1, <1>2, <1>5, <1>6
<1>8. [k \in Entered(Truth) |-> [in |-> Truth[In(k)], out |-> Truth[Out(k)]]] = <<>>
  BY <1>7
<1>9. QED
  BY <1>7, <1>8 DEF Promised!Init

-----------------------------------------------------------------------------
(* Queues of records only.                                                 *)

\* A shorter queue,
LEMMA OnlyTail ==
  ASSUME NEW S, NEW s \in Seq(S), s # <<>>, OnlyValues(s)
  PROVE  OnlyValues(Tail(s))
BY TailFacts DEF OnlyValues

\* its head,
LEMMA OnlyHead ==
  ASSUME NEW S, NEW s \in Seq(S), s # <<>>, OnlyValues(s)
  PROVE  Head(s).type = "value"
BY TailFacts DEF OnlyValues

\* two of them joined,
LEMMA OnlyJoin ==
  ASSUME NEW s \in Seq(Events), NEW t \in Seq(Events), OnlyValues(s), OnlyValues(t)
  PROVE  s \o t \in Seq(Events) /\ OnlyValues(s \o t)
<1>1. PICK u : u = s \o t
  OBVIOUS
<1>2. /\ u \in Seq(Events) /\ DOMAIN u = 1..(Len(s) + Len(t)) /\ Len(s) \in Nat /\ Len(t) \in Nat
      /\ \A i \in 1..(Len(s) + Len(t)) : u[i] = IF i <= Len(s) THEN s[i] ELSE t[i - Len(s)]
      /\ DOMAIN s = 1..Len(s) /\ DOMAIN t = 1..Len(t)
  BY <1>1, JoinFacts, LenProperties
<1>3. SUFFICES ASSUME NEW i \in DOMAIN u
               PROVE  u[i].type = "value"
  BY <1>1, <1>2 DEF OnlyValues
<1>4. CASE i <= Len(s)
  <2>1. i \in DOMAIN s /\ u[i] = s[i]
    BY <1>2, <1>4
  <2>2. QED
    BY <2>1 DEF OnlyValues
<1>5. CASE ~(i <= Len(s))
  <2>1. i - Len(s) \in DOMAIN t /\ u[i] = t[i - Len(s)]
    BY <1>2, <1>5
  <2>2. QED
    BY <2>1 DEF OnlyValues
<1>6. QED
  BY <1>4, <1>5

\* the event of a change,
LEMMA OnlyRaised ==
  ASSUME NEW old, NEW new \in Records
  PROVE  Raised(old, new) \in Seq(Events) /\ OnlyValues(Raised(old, new))
<1>1. Value(new) \in Events /\ Value(new).type = "value"
  BY DEF Value, Events
<1>2. PICK v \in Events : v = Value(new)
  BY <1>1
<1>3. <<v>> \in Seq(Events) /\ <<>> \in Seq(Events)
  OBVIOUS
<1>4. OnlyValues(<<v>>) /\ OnlyValues(<<>>)
  BY <1>1, <1>2 DEF OnlyValues
<1>5. QED
  BY <1>2, <1>3, <1>4 DEF Raised

\* of a write,
LEMMA OnlySet ==
  ASSUME NEW r \in Records, NEW w \in Writes
  PROVE  SetEvents(r, w) \in Seq(Events) /\ OnlyValues(SetEvents(r, w))
BY ApplyType, OnlyRaised DEF SetEvents

\* and those of three.
LEMMA OnlySet3 ==
  ASSUME NEW r \in Records, NEW w1 \in Writes, NEW w2 \in Writes, NEW w3 \in Writes
  PROVE  /\ SetEvents3(r, w1, w2, w3) \in Seq(Events)
         /\ OnlyValues(SetEvents3(r, w1, w2, w3))
<1>1. Apply(r, w1) \in Records
  BY ApplyType
<1>2. Apply(Apply(r, w1), w2) \in Records
  BY <1>1, ApplyType
<1>3. PICK a : a = SetEvents(r, w1)
  OBVIOUS
<1>4. PICK b : b = SetEvents(Apply(r, w1), w2)
  OBVIOUS
<1>5. PICK c : c = SetEvents(Apply(Apply(r, w1), w2), w3)
  OBVIOUS
<1>6. a \in Seq(Events) /\ OnlyValues(a) /\ b \in Seq(Events) /\ OnlyValues(b)
  BY <1>1, <1>3, <1>4, OnlySet
<1>7. c \in Seq(Events) /\ OnlyValues(c)
  BY <1>2, <1>5, OnlySet
<1>8. PICK ab : ab = a \o b
  OBVIOUS
<1>9. ab \in Seq(Events) /\ OnlyValues(ab)
  BY <1>6, <1>8, OnlyJoin
<1>10. ab \o c \in Seq(Events) /\ OnlyValues(ab \o c)
  BY <1>7, <1>9, OnlyJoin
<1>11. SetEvents3(r, w1, w2, w3) = ab \o c
  BY <1>3, <1>4, <1>5, <1>8 DEF SetEvents3
<1>12. QED
  BY <1>10, <1>11

-----------------------------------------------------------------------------
(* Who is doing what.                                                      *)

\* Where one phone has something to do, the others have nothing.
LEMMA Alone ==
  ASSUME TurnsInv, NEW d \in Devices, ~Calm(d)
  PROVE  \A e \in Devices : e # d => Calm(e) /\ pending[e] = <<>>
BY DEF TurnsInv, Calm

\* The record as it will be, with the writes of at most one phone.
LEMMA TruthFacts ==
  ASSUME IInv, TurnsInv
  PROVE  /\ db \in Records /\ Truth \in Records
         /\ \A d \in Devices : (\A e \in Devices : e # d => pending[e] = <<>>) =>
              Truth = Under(db, pending[d])
         /\ (\A e \in Devices : pending[e] = <<>>) => Truth = db
         /\ Shape(Truth) /\ Truth[NumSessions] <= faults.taps
         /\ Truth[NumSessions] <= MaxTaps /\ faults.taps \in Nat /\ faults.taps <= MaxTaps
         /\ db # Null
<1>1. TypeOK
  BY Typed
<1>2. db \in Records /\ faults.taps \in 0..MaxTaps
  BY <1>1 DEF TypeOK
<1>3. \A d \in Devices : pending[d] \in Seq(Writes)
  BY <1>1 DEF TypeOK
<1>4. Truth \in Records
  BY <1>1, <1>2, TruthOfType, TruthIs DEF TypeOK
<1>5. ASSUME NEW d \in Devices, \A e \in Devices : e # d => pending[e] = <<>>
      PROVE  Truth = Under(db, pending[d])
  BY <1>2, <1>5, OneWriter, TruthIs
<1>6. (\A e \in Devices : pending[e] = <<>>) => Truth = db
  BY DEF Truth
<1>7. Shape(Truth) /\ Truth[NumSessions] <= faults.taps
  BY DEF TurnsInv, TruthOK
<1>8. Truth[NumSessions] \in Nat /\ MaxTaps \in Nat
  BY <1>4, RecordFacts, ConstantsOK
<1>9. Truth[NumSessions] <= MaxTaps
  BY <1>2, <1>7, <1>8
<1>10. db # Null
  BY <1>2, NullOK
<1>11. QED
  BY <1>2, <1>4, <1>5, <1>6, <1>7, <1>8, <1>9, <1>10

\* A phone that decides has something to do.
LEMMA AskedBusy ==
  ASSUME NEW d, Asked(d)
  PROVE  ~Idle(d)
<1>1. events[d][1].type = "tap" /\ 1 \in DOMAIN events[d]
  BY DEF Asked, TapRead
<1>2. QED
  BY <1>1 DEF Idle, OnlyValues

LEMMA DecidingBusy ==
  ASSUME NEW d, Deciding(d)
  PROVE  ~Calm(d)
<1>1. CASE Asked(d)
  BY <1>1, AskedBusy DEF Calm
<1>2. CASE Found(d)
  <2>1. events[d][1].type = "stop" /\ 1 \in DOMAIN events[d]
    BY <1>2 DEF Found, StopRead
  <2>2. QED
    BY <2>1 DEF Calm, Idle, OnlyValues
<1>3. CASE Confirming(d)
  <2>1. PICK out \in Times : alert[d] = Question(db, out)
    BY <1>3 DEF Confirming
  <2>2. alert[d].type = "confirm" /\ alert[d] # Null
    BY <1>3, <2>1 DEF Question, Confirming
  <2>3. QED
    BY <2>2 DEF Calm, Idle
<1>4. QED
  BY <1>1, <1>2, <1>3 DEF Deciding

\* What a phone that decides knows: the record, all of it, which nobody changes.
LEMMA DecidingFacts ==
  ASSUME IInv, TurnsInv, NEW d \in Devices, Deciding(d)
  PROVE  /\ \A e \in Devices : e # d => Calm(e)
         /\ \A e \in Devices : pending[e] = <<>>
         /\ Truth = db /\ heard[d] = db /\ View(d) = db
         /\ db \in Records /\ Shape(db)
         /\ db[NumSessions] \in Nat /\ db[NumSessions] < MaxTaps
         /\ db[NumSessions] < faults.taps
         /\ taken[d] = 0 /\ waiting[d] = 0 /\ heard[d] # Null
<1>1. pending[d] = <<>> /\ heard[d] = db /\ db[NumSessions] < faults.taps
  BY DEF Deciding, Synced
<1>2. ~Calm(d)
  BY DecidingBusy
<1>3. \A e \in Devices : e # d => Calm(e) /\ pending[e] = <<>>
  BY <1>2, Alone
<1>4. \A e \in Devices : pending[e] = <<>>
  BY <1>1, <1>3
<1>5. Truth = db /\ db \in Records /\ db # Null
  BY <1>4, TruthFacts
<1>6. View(d) = db
  BY <1>1, <1>5, UnderNothing DEF View
<1>7. db[NumSessions] \in Nat /\ faults.taps \in Nat /\ faults.taps <= MaxTaps /\ MaxTaps \in Nat
  BY <1>5, RecordFacts, TruthFacts, ConstantsOK
<1>8. db[NumSessions] < MaxTaps
  BY <1>1, <1>7
<1>9. taken[d] = 0
  <2>1. taken[d] \in Nat /\ taken[d] <= Len(pending[d])
    BY NetworkKept
  <2>2. QED
    BY <1>1, <2>1
<1>10. Shape(db) /\ waiting[d] = 0
  BY <1>5 DEF TurnsInv, TruthOK, PhoneInTurn
<1>11. QED
  BY <1>1, <1>3, <1>4, <1>5, <1>6, <1>7, <1>8, <1>9, <1>10

\* Taps, stops and questions are a deciding phone's.
LEMMA TapIsAsked ==
  ASSUME IInv, TurnsInv, NEW d \in Devices, HasEvent(d, "tap")
  PROVE  Deciding(d) /\ Asked(d)
<1>1. events[d] \in Seq(Events) /\ events[d] # <<>> /\ Head(events[d]).type = "tap"
  BY PageFacts DEF HasEvent
<1>2. ~OnlyValues(events[d])
  BY <1>1, OnlyHead
<1>3. Deciding(d)
  BY <1>2 DEF TurnsInv, PhoneInTurn, Calm, Writing, Idle
<1>4. ~Found(d) /\ ~Confirming(d)
  BY <1>1 DEF Found, StopRead, Confirming
<1>5. QED
  BY <1>3, <1>4 DEF Deciding

LEMMA StopIsFound ==
  ASSUME IInv, TurnsInv, NEW d \in Devices, HasEvent(d, "stop")
  PROVE  Deciding(d) /\ Found(d)
<1>1. events[d] \in Seq(Events) /\ events[d] # <<>> /\ Head(events[d]).type = "stop"
  BY PageFacts DEF HasEvent
<1>2. ~OnlyValues(events[d])
  BY <1>1, OnlyHead
<1>3. Deciding(d)
  BY <1>2 DEF TurnsInv, PhoneInTurn, Calm, Writing, Idle
<1>4. ~Asked(d) /\ ~Confirming(d)
  BY <1>1 DEF Asked, TapRead, Confirming
<1>5. QED
  BY <1>3, <1>4 DEF Deciding

LEMMA QuestionIsConfirming ==
  ASSUME IInv, TurnsInv, NEW d \in Devices, alert[d] # Null, alert[d].type = "confirm"
  PROVE  Deciding(d) /\ Confirming(d)
<1>1. Deciding(d)
  BY DEF TurnsInv, PhoneInTurn, Calm, Writing, Idle
<1>2. QED
  BY <1>1 DEF Deciding, Asked, Found

-----------------------------------------------------------------------------
(* What a step of one phone leaves of the invariant.                       *)

SameApp(e) ==
  /\ pending'[e] = pending[e] /\ events'[e] = events[e] /\ alert'[e] = alert[e]
  /\ recording'[e] = recording[e] /\ screen'[e] = screen[e]

SameClient(e) ==
  /\ heard'[e] = heard[e] /\ inbox'[e] = inbox[e] /\ waiting'[e] = waiting[e]
  /\ taken'[e] = taken[e]

\* A phone that does not step keeps what it was doing,
LEMMA SameCalm ==
  ASSUME NEW e, SameApp(e), Calm(e)
  PROVE  Calm(e)'
BY DEF SameApp, Calm, Idle

\* and all of the invariant, as long as the record is the same.
LEMMA SamePhone ==
  ASSUME NEW e, PhoneInTurn(e), SameApp(e), SameClient(e), db' = db,
         faults.taps \in Nat, faults'.taps \in Nat, faults.taps <= faults'.taps,
         db[NumSessions] \in Nat
  PROVE  PhoneInTurn(e)'
<1>1. /\ Asked(e) => Asked(e)'
      /\ Found(e) => Found(e)'
      /\ Confirming(e) => Confirming(e)'
  BY DEF SameApp, Asked, Found, Confirming
<1>2. Synced(e) => Synced(e)'
  BY DEF SameClient, Synced
<1>3. db[NumSessions] < faults.taps => db'[NumSessions] < faults'.taps
  OBVIOUS
<1>4. Deciding(e) => Deciding(e)'
  BY <1>1, <1>2, <1>3 DEF Deciding, SameApp
<1>5. Writing(e) => Writing(e)'
  BY DEF Writing, Idle, SameApp, SameClient
<1>6. Calm(e) => Calm(e)'
  BY SameCalm
<1>7. ButtonOK(e) => ButtonOK(e)'
  BY <1>1 DEF ButtonOK, SameApp
<1>8. QED
  BY <1>4, <1>5, <1>6, <1>7 DEF PhoneInTurn, SameClient

\* What a step does to the record as it will be.
Step == Moved(Truth, Truth') /\ (Truth' = Truth \/ Truth[NumSessions] < MaxTaps)

\* One phone steps, on the record as it is.
LEMMA PhoneStepInTurn ==
  ASSUME IInv, IInv', TurnsInv, NEW d \in Devices, db' = db,
         \A e \in Devices : e # d => SameApp(e) /\ SameClient(e),
         faults.taps <= faults'.taps,
         PhoneInTurn(d)', Calm(d)' \/ \A e \in Devices : e # d => Calm(e),
         TruthOK'
  PROVE  TurnsInv'
<1>1. faults.taps \in Nat /\ faults'.taps \in Nat
  BY ConstantsOK DEF IInv, ControlOK
<1>2. db[NumSessions] \in Nat
  BY TruthFacts, RecordFacts
<1>3. \A e \in Devices : PhoneInTurn(e)'
  BY <1>1, <1>2, SamePhone DEF TurnsInv
<1>4. \A e \in Devices : e # d => (Calm(e) => Calm(e)')
  BY SameCalm
<1>5. \A e \in Devices, f \in Devices : e # f => Calm(e)' \/ Calm(f)'
  BY <1>4 DEF TurnsInv
<1>6. QED
  BY <1>3, <1>5 DEF TurnsInv

\* Nothing is written: the record will be the same.
LEMMA QuietStep ==
  ASSUME IInv, IInv', TurnsInv, NEW d \in Devices, db' = db, pending' = pending,
         \A e \in Devices : e # d => SameApp(e) /\ SameClient(e),
         faults.taps <= faults'.taps,
         PhoneInTurn(d)', Calm(d)' \/ \A e \in Devices : e # d => Calm(e)
  PROVE  TurnsInv' /\ Step
<1>1. Truth' = Truth
  BY DEF Truth
<1>2. Truth[NumSessions] <= faults'.taps
  <2>1. faults.taps \in Nat /\ faults'.taps \in Nat
    BY ConstantsOK DEF IInv, ControlOK
  <2>2. Truth[NumSessions] \in Nat /\ Truth[NumSessions] <= faults.taps
    BY TruthFacts, RecordFacts
  <2>3. QED
    BY <2>1, <2>2
<1>3. TruthOK'
  BY <1>1, <1>2, TruthFacts DEF TruthOK
<1>4. QED
  BY <1>1, <1>3, PhoneStepInTurn DEF Step, Moved

\* A deciding phone writes: from now on its writes are under way.
LEMMA WriteStep ==
  ASSUME IInv, IInv', TurnsInv, NEW d \in Devices, Deciding(d), db' = db,
         NEW q \in Seq(Writes), q # <<>>, Apart(q), pending' = [pending EXCEPT ![d] = q],
         UNCHANGED <<taken, heard, inbox, waiting>>, faults'.taps = faults.taps,
         \A e \in Devices : e # d => SameApp(e),
         Idle(d)', recording'[d] <=> screen'[d].title = "Stop",
         NEW t, t = Under(db, q), Moved(db, t)
  PROVE  TurnsInv' /\ Step
<1>1. /\ \A e \in Devices : e # d => Calm(e)
      /\ \A e \in Devices : pending[e] = <<>>
      /\ Truth = db /\ db \in Records /\ Shape(db) /\ db[NumSessions] \in Nat
      /\ db[NumSessions] < MaxTaps /\ db[NumSessions] < faults.taps
      /\ taken[d] = 0 /\ waiting[d] = 0
  BY DecidingFacts
<1>2. pending'[d] = q /\ \A e \in Devices : e # d => pending'[e] = <<>>
  BY <1>1, PageFacts
<1>3. Truth' = t
  <2>1. PICK p : p = pending'
    OBVIOUS
  <2>2. p[d] = q /\ \A e \in Devices : e # d => p[e] = <<>>
    BY <1>2, <2>1
  <2>3. TruthOf(db, p) = Under(db, p[d])
    <3>1. db \in Records
      BY <1>1
    <3>2. QED
      BY <2>2, <3>1, OneWriter
  <2>4. QED
    BY <2>1, <2>2, <2>3, TruthIs
<1>4. Step
  BY <1>1, <1>3 DEF Step
<1>5. TruthOK'
  <2>1. /\ Shape(t)
        /\ t[NumSessions] = db[NumSessions] \/ t[NumSessions] = db[NumSessions] + 1
    BY <1>1, MovedShape, ConstantsOK
  <2>2. faults.taps \in Nat
    BY TruthFacts
  <2>3. t[NumSessions] <= faults'.taps
    BY <1>1, <2>1, <2>2
  <2>4. QED
    BY <1>3, <2>1, <2>3 DEF TruthOK
<1>6. Landed(db', pending'[d], taken'[d])
  <2>1. \A i \in DOMAIN q : ~(i <= 0)
    BY LenProperties
  <2>2. QED
    BY <1>1, <1>2, <2>1 DEF Landed
<1>7. Writing(d)'
  BY <1>2, <1>6 DEF Writing
<1>8. PhoneInTurn(d)'
  BY <1>1, <1>7 DEF PhoneInTurn, ButtonOK
<1>9. \A e \in Devices : e # d => SameClient(e)
  BY DEF SameClient
<1>10. faults.taps <= faults'.taps
  BY TruthFacts
<1>11. TurnsInv'
  BY <1>1, <1>5, <1>8, <1>9, <1>10, PhoneStepInTurn
<1>12. QED
  BY <1>4, <1>11

-----------------------------------------------------------------------------
(* Each action keeps the invariant, and moves the record or leaves it.      *)

\* A user taps when all is settled: the tap is about the record as it is.  The flag
\* was TRUE if a session runs, because the page shows it; a careful user sees to the
\* converse.
LEMMA startRecordingInTurn ==
  ASSUME IInv, IInv', TurnsInv, ShowsSession, AllShown, NEW d \in Devices,
         startRecording(d), Users # "hasty"
  PROVE  TurnsInv' /\ Step
<1>1. /\ \A e \in Devices : Caught(e) /\ alert[e] = Null
      /\ Users = "careful" => (screen[d].title = "Stop" <=> Running(db))
  BY DEF startRecording, MayTap, Settled
<1>2. \A e \in Devices : pending[e] = <<>> /\ events[e] = <<>> /\ inbox[e] = <<>>
                         /\ heard[e] = db /\ waiting[e] = 0
  BY <1>1 DEF Caught
<1>3. db \in Records /\ db # Null /\ Truth = db /\ Truth[NumSessions] <= faults.taps
      /\ faults.taps \in Nat /\ db[NumSessions] \in Nat
  BY <1>2, TruthFacts, RecordFacts
<1>4. View(d) = db
  BY <1>2, <1>3, UnderNothing DEF View
<1>5. /\ UNCHANGED <<db, pending, taken, inbox, heard, waiting, screen, alert>>
      /\ recording' = [recording EXCEPT ![d] = ~@]
      /\ events' = [events EXCEPT ![d] = Append(@, TapRead(View(d)))]
      /\ faults' = [faults EXCEPT !.taps = @ + 1]
  BY <1>2, <1>3 DEF startRecording, server
<1>6. faults'.taps = faults.taps + 1
  BY <1>5, PageFacts DEF Faults
<1>7. \A e \in Devices : Calm(e)
  BY <1>1, <1>2 DEF Calm, Idle, OnlyValues
<1>8. /\ Running(db) => recording[d]
      /\ Users = "careful" => (recording[d] <=> Running(db))
  <2>1. ~Asked(d)
    BY <1>2 DEF Asked
  <2>2. ButtonOK(d)
    BY DEF TurnsInv, PhoneInTurn
  <2>3. Running(db) => recording[d]
    BY <1>1 DEF ShowsSession, AllShown
  <2>4. QED
    BY <1>1, <2>1, <2>2, <2>3 DEF ButtonOK
<1>9. Asked(d)'
  <2>1. events'[d] = <<TapRead(db)>>
    <3>1. PICK x : x = TapRead(db)
      OBVIOUS
    <3>2. events'[d] = Append(events[d], x)
      BY <1>4, <1>5, <3>1, PageFacts
    <3>3. Append(<<>>, x) = <<x>>
      OBVIOUS
    <3>4. QED
      BY <1>2, <3>1, <3>2, <3>3
  <2>2. /\ recording'[d] => ~Running(db)
        /\ Users = "careful" => (recording'[d] <=> ~Running(db))
    BY <1>5, <1>8, PageFacts
  <2>3. alert'[d] = Null
    BY <1>1, <1>5
  <2>4. QED
    BY <1>5, <2>1, <2>2, <2>3 DEF Asked
<1>10. Deciding(d)'
  <2>1. db[NumSessions] < faults'.taps
    BY <1>3, <1>6
  <2>2. Synced(d)'
    BY <1>2, <1>5 DEF Synced
  <2>3. QED
    BY <1>2, <1>5, <1>9, <2>1, <2>2 DEF Deciding
<1>11. PhoneInTurn(d)'
  BY <1>2, <1>5, <1>9, <1>10 DEF PhoneInTurn, ButtonOK
<1>12. \A e \in Devices : e # d => SameApp(e) /\ SameClient(e)
  BY <1>5, PageFacts DEF SameApp, SameClient
<1>13. faults.taps <= faults'.taps
  BY <1>3, <1>6
<1>14. QED
  BY <1>5, <1>7, <1>11, <1>12, <1>13, QuietStep

\* Writes to different leaves.
LEMMA ApartOne ==
  ASSUME NEW w
  PROVE  Apart(<<w>>)
BY DEF Apart

LEMMA ApartThree ==
  ASSUME NEW w1, NEW w2, NEW w3, w1.leaves \cap w2.leaves = {},
         w1.leaves \cap w3.leaves = {}, w2.leaves \cap w3.leaves = {}
  PROVE  Apart(<<w1, w2, w3>>)
<1>1. PICK q : q = <<w1, w2, w3>>
  OBVIOUS
<1>2. DOMAIN q = 1..3 /\ q[1] = w1 /\ q[2] = w2 /\ q[3] = w3
  BY <1>1
<1>3. \A i \in 1..3 : i = 1 \/ i = 2 \/ i = 3
  OBVIOUS
<1>4. Apart(q)
  BY <1>2, <1>3 DEF Apart
<1>5. QED
  BY <1>1, <1>4

\* Writes made on the record as it is.
LEMMA UnderOne ==
  ASSUME NEW r \in Records, NEW w \in Writes
  PROVE  Under(r, <<w>>) = Apply(r, w) /\ <<w>> \in Seq(Writes) /\ <<w>> # <<>>
<1>1. <<>> \in Seq(Writes) /\ Append(<<>>, w) = <<w>>
  OBVIOUS
<1>2. Under(r, Append(<<>>, w)) = Apply(Under(r, <<>>), w)
  BY <1>1, UnderAppend
<1>3. QED
  BY <1>1, <1>2, UnderNothing

\* Three of them.
LEMMA UnderFirstThree ==
  ASSUME NEW r \in Records, NEW w1 \in Writes, NEW w2 \in Writes, NEW w3 \in Writes
  PROVE  /\ Under(r, <<w1, w2, w3>>) = Apply(Apply(Apply(r, w1), w2), w3)
         /\ <<w1, w2, w3>> \in Seq(Writes) /\ <<w1, w2, w3>> # <<>>
<1>0. <<w1, w2, w3>> \in Seq(Writes) /\ <<w1, w2, w3>> # <<>>
  OBVIOUS
<1>1. PICK q \in Seq(Writes) : q = <<>>
  BY EmptySeq
<1>2. Under(r, q \o <<w1, w2, w3>>) = Apply(Apply(Apply(Under(r, q), w1), w2), w3)
  BY UnderThree
<1>3. q \o <<w1, w2, w3>> = <<w1, w2, w3>>
  BY <1>1
<1>4. Under(r, q) = r
  BY <1>1, UnderNothing
<1>5. QED
  BY <1>0, <1>2, <1>3, <1>4

\* Yes: the session asked about is recorded.
LEMMA recordSessionInTurn ==
  ASSUME IInv, IInv', TurnsInv, NEW d \in Devices, recordSession(d)
  PROVE  TurnsInv' /\ Step
<1> DEFINE a == alert[d]
           num == Set(NumSessions, a.n + 1)
           out == Set(Out(a.n + 1), a.out)
           tot == Set(TotalHours, NewTotal(a))
           q == <<num, out, tot>>
<1>1. /\ a # Null /\ a.type = "confirm"
      /\ alert' = [alert EXCEPT ![d] = Null]
      /\ pending' = [pending EXCEPT ![d] = pending[d] \o q]
      /\ events' = [events EXCEPT ![d] = events[d] \o SetEvents3(View(d), num, out, tot)]
      /\ UNCHANGED <<db, now, taken, inbox, heard, waiting, recording, screen, faults>>
  BY DEF recordSession, server
<1>2. Deciding(d) /\ Confirming(d)
  BY <1>1, QuestionIsConfirming
<1>3. /\ Truth = db /\ View(d) = db /\ db \in Records
      /\ db[NumSessions] \in Nat /\ Shape(db) /\ db[NumSessions] < MaxTaps
      /\ pending[d] = <<>>
  BY <1>2, DecidingFacts
<1>4. PICK o \in Times : o > CheckedInAt(db) + Limit /\ a = Question(db, o)
  BY <1>2 DEF Confirming
<1>5. /\ events[d] = <<>> /\ Running(db)
      /\ a.n + 1 = Next1(db) /\ a.out = o
      /\ NewTotal(a) = db[TotalHours] + Hours[o - CheckedInAt(db)]
  BY <1>2, <1>4 DEF Confirming, Question, Next1, NewTotal
<1>6. num \in Writes /\ out \in Writes /\ tot \in Writes
  <2>1. a.n \in Nat /\ a.total \in Nat /\ a.interval \in Intervals /\ a.out \in Times
    BY <1>1, PageFacts DEF Alerts
  <2>2. NewTotal(a) \in Nat
    <3> HIDE DEF a
    <3> QED BY <2>1, ConstantsOK DEF NewTotal
  <2>3. a.n + 1 \in Nat /\ NumSessions \in Counters /\ TotalHours \in Counters
    BY <2>1 DEF Counters
  <2>4. QED
    BY <2>1, <2>2, <2>3, SetCounterType, SetOutType
<1>7. num.leaves = {NumSessions} /\ out.leaves = {Out(a.n + 1)} /\ tot.leaves = {TotalHours}
  BY DEF Set
<1>8. NumSessions # TotalHours /\ Out(a.n + 1) # NumSessions /\ Out(a.n + 1) # TotalHours
  <2>1. a.n + 1 \in Keys
    <3>1. db[NumSessions] <= MaxTaps
      BY <1>3, ConstantsOK
    <3>2. QED
      BY <1>3, <1>5, <3>1, ShapeFacts
  <2>2. QED
    BY <2>1, LeafFacts, SessionLeaves
<1>9. num = Set(NumSessions, Next1(db)) /\ out = Set(Out(Next1(db)), o)
      /\ tot = Set(TotalHours, db[TotalHours] + Hours[o - CheckedInAt(db)])
  BY <1>5
<1> HIDE DEF num, out, tot
<1>10. Apart(q)
  BY <1>7, <1>8, ApartThree
<1>11. Under(db, q) = Recorded(db, o) /\ q \in Seq(Writes) /\ q # <<>>
  BY <1>3, <1>6, <1>9, UnderFirstThree DEF Recorded
<1>12. Moved(db, Under(db, q))
  BY <1>4, <1>5, <1>11 DEF Moved
<1>13. pending' = [pending EXCEPT ![d] = q]
  <2>1. <<>> \o q = q
    BY <1>11
  <2>2. QED
    BY <1>1, <1>3, <2>1
<1>14. OnlyValues(events'[d]) /\ alert'[d] = Null
  <2>1. PICK v : v = SetEvents3(View(d), num, out, tot)
    OBVIOUS
  <2>2. v \in Seq(Events) /\ OnlyValues(v)
    BY <1>3, <1>6, <2>1, OnlySet3
  <2>3. events'[d] = <<>> \o v
    BY <1>1, <1>5, <2>1, PageFacts
  <2>4. <<>> \o v = v
    BY <2>2
  <2>5. QED
    BY <1>1, <2>2, <2>3, <2>4, PageFacts
<1>15. recording'[d] <=> screen'[d].title = "Stop"
  <2>1. ButtonOK(d) /\ ~Asked(d)
    BY <1>5 DEF TurnsInv, PhoneInTurn, Asked
  <2>2. QED
    BY <1>1, <2>1 DEF ButtonOK
<1>16. \A e \in Devices : e # d => SameApp(e)
  BY <1>1, PageFacts DEF SameApp
<1>17. Idle(d)'
  BY <1>14 DEF Idle
<1> HIDE DEF q
<1>18. QED
  BY <1>1, <1>2, <1>10, <1>11, <1>12, <1>13, <1>15, <1>16, <1>17, WriteStep

\* A dismissal: of the running session, by the phone that stopped it.
LEMMA DismissInTurn ==
  ASSUME IInv, IInv', TurnsInv, NEW d \in Devices, Deciding(d), Running(db),
         NEW es \in Seq(Events), OnlyValues(es), dismissSession(d, db[NumSessions], es),
         alert'[d] # Null => alert'[d].type # "confirm",
         UNCHANGED <<db, taken, inbox, heard, waiting, recording, screen>>,
         faults'.taps = faults.taps,
         \A e \in Devices : e # d => alert'[e] = alert[e],
         recording[d] <=> screen[d].title = "Stop"
  PROVE  TurnsInv' /\ Step
<1> DEFINE w == Remove(Next1(db))
           q == <<w>>
<1>1. /\ Truth = db /\ View(d) = db /\ db \in Records
      /\ db[NumSessions] \in Nat /\ pending[d] = <<>>
  BY DecidingFacts
<1>2. /\ pending' = [pending EXCEPT ![d] = Append(pending[d], w)]
      /\ events' = [events EXCEPT ![d] = es \o SetEvents(View(d), w)]
  BY DEF dismissSession, Next1
<1>3. w \in Writes
  BY <1>1, RemoveType DEF Next1
<1>4. Under(db, q) = Dismissed(db) /\ q \in Seq(Writes) /\ q # <<>> /\ Apart(q)
  <2> HIDE DEF w
  <2>1. Under(db, q) = Apply(db, w) /\ q \in Seq(Writes) /\ q # <<>> /\ Apart(q)
    BY <1>1, <1>3, UnderOne, ApartOne
  <2>2. QED
    BY <2>1 DEF w, Dismissed
<1>5. Moved(db, Under(db, q))
  BY <1>4 DEF Moved
<1>6. pending' = [pending EXCEPT ![d] = q]
  BY <1>1, <1>2
<1>7. Idle(d)'
  <2>1. PICK v : v = SetEvents(View(d), w)
    OBVIOUS
  <2>2. v \in Seq(Events) /\ OnlyValues(v)
    <3> HIDE DEF w
    <3> QED BY <1>1, <1>3, <2>1, OnlySet
  <2>3. OnlyValues(es \o v)
    BY <2>2, OnlyJoin
  <2>4. events'[d] = es \o v
    BY <1>2, <2>1, PageFacts
  <2>5. QED
    BY <2>3, <2>4 DEF Idle
<1>8. \A e \in Devices : e # d => SameApp(e)
  BY <1>2, PageFacts DEF SameApp
<1> HIDE DEF w, q
<1>9. QED
  BY <1>4, <1>5, <1>6, <1>7, <1>8, WriteStep

\* No: the session asked about is dismissed.
LEMMA DeclineInTurn ==
  ASSUME IInv, IInv', TurnsInv, NEW d \in Devices, Decline(d)
  PROVE  TurnsInv' /\ Step
<1>1. /\ alert[d] # Null /\ alert[d].type = "confirm"
      /\ alert' = [alert EXCEPT ![d] = Null]
      /\ dismissSession(d, alert[d].n, events[d])
      /\ UNCHANGED <<db, taken, inbox, heard, waiting, recording, screen, faults>>
  BY DEF Decline, server
<1>2. Deciding(d) /\ Confirming(d)
  BY <1>1, QuestionIsConfirming
<1>3. events[d] = <<>> /\ Running(db) /\ alert[d].n = db[NumSessions]
  BY <1>2 DEF Confirming, Question
<1>4. recording[d] <=> screen[d].title = "Stop"
  BY <1>3 DEF TurnsInv, PhoneInTurn, ButtonOK, Asked
<1>5. events[d] \in Seq(Events) /\ OnlyValues(events[d])
  BY <1>3 DEF OnlyValues
<1>6. alert'[d] = Null /\ \A e \in Devices : e # d => alert'[e] = alert[e]
  BY <1>1, PageFacts
<1>7. dismissSession(d, db[NumSessions], events[d])
  BY <1>1, <1>3
<1>8. QED
  BY <1>1, <1>2, <1>3, <1>4, <1>5, <1>6, <1>7, DismissInTurn

\* OK on a warning changes nothing for the record.
LEMMA CloseWarningInTurn ==
  ASSUME IInv, IInv', TurnsInv, NEW d \in Devices, CloseWarning(d)
  PROVE  TurnsInv' /\ Step
<1>1. /\ alert[d] # Null /\ alert[d].type = "warning"
      /\ alert' = [alert EXCEPT ![d] = Null]
      /\ UNCHANGED <<db, pending, taken, inbox, heard, waiting, events, recording, screen, faults>>
  BY DEF CloseWarning, server, client
<1>2. ~Deciding(d)
  <2>1. ~Asked(d) /\ ~Found(d)
    BY <1>1 DEF Asked, Found
  <2>2. ~Confirming(d)
    <3> SUFFICES ASSUME Confirming(d)
                 PROVE  FALSE
      OBVIOUS
    <3>1. PICK out \in Times : alert[d] = Question(db, out)
      BY DEF Confirming
    <3>2. Question(db, out).type = "confirm"
      BY DEF Question
    <3>3. QED
      BY <1>1, <3>1, <3>2
  <2>3. QED
    BY <2>1, <2>2 DEF Deciding
<1>3. alert'[d] = Null /\ \A e \in Devices : e # d => alert'[e] = alert[e]
  BY <1>1, PageFacts
<1>4. PhoneInTurn(d) /\ ~Asked(d)
  BY <1>1 DEF TurnsInv, Asked
<1>5. /\ Calm(d) => Calm(d)'
      /\ Writing(d) => Writing(d)'
  BY <1>1, <1>3 DEF Calm, Writing, Idle
<1>6. PhoneInTurn(d)'
  BY <1>1, <1>2, <1>4, <1>5 DEF PhoneInTurn, ButtonOK
<1>7. Calm(d)' \/ \A e \in Devices : e # d => Calm(e)
  BY <1>5, Alone
<1>8. \A e \in Devices : e # d => SameApp(e) /\ SameClient(e)
  BY <1>1, <1>3 DEF SameApp, SameClient
<1>9. faults.taps <= faults'.taps
  BY <1>1, TruthFacts
<1>10. QED
  BY <1>1, <1>6, <1>7, <1>8, <1>9, QuietStep

\* A record heard is shown, by a phone that is idle.
LEMMA observeValueInTurn ==
  ASSUME IInv, IInv', TurnsInv, NEW d \in Devices, observeValue(d)
  PROVE  TurnsInv' /\ Step
<1> DEFINE r == Head(events[d]).record
           rec == recording[d] \/ Running(r)
<1>1. /\ events[d] # <<>> /\ Head(events[d]).type = "value"
      /\ events' = [events EXCEPT ![d] = Tail(events[d])]
      /\ recording' = [recording EXCEPT ![d] = rec]
      /\ screen' = [screen EXCEPT ![d] = [title |-> IF rec THEN "Stop" ELSE "Start",
                                          checkIn |-> IF rec THEN ShownIn(r) ELSE Null]]
      /\ faults' = [faults EXCEPT !.unshown = @ \ {d}]
      /\ UNCHANGED <<db, conn, pending, taken, inbox, heard, waiting, alert>>
  BY DEF observeValue, HasEvent, updateScreen, server, client
<1>2. ~Deciding(d)
  BY <1>1 DEF Deciding, Asked, Found, Confirming, TapRead, StopRead
<1>3. PhoneInTurn(d)
  BY DEF TurnsInv
<1>4. OnlyValues(events'[d])
  <2>1. OnlyValues(events[d])
    BY <1>2, <1>3 DEF PhoneInTurn, Calm, Writing, Idle
  <2>2. events[d] \in Seq(Events) /\ events'[d] = Tail(events[d])
    BY <1>1, PageFacts
  <2>3. QED
    BY <1>1, <2>1, <2>2, OnlyTail
<1>5. /\ Calm(d) => Calm(d)'
      /\ Writing(d) => Writing(d)'
  BY <1>1, <1>4 DEF Calm, Writing, Idle
<1>6. recording'[d] <=> screen'[d].title = "Stop"
  <2> HIDE DEF rec
  <2>1. recording'[d] = rec /\ screen'[d].title = IF rec THEN "Stop" ELSE "Start"
    BY <1>1, PageFacts
  <2>2. QED
    BY <2>1
<1>7. PhoneInTurn(d)'
  BY <1>1, <1>2, <1>3, <1>5, <1>6 DEF PhoneInTurn, ButtonOK
<1>8. Calm(d)' \/ \A e \in Devices : e # d => Calm(e)
  BY <1>5, Alone
<1>9. \A e \in Devices : e # d => SameApp(e) /\ SameClient(e)
  BY <1>1, PageFacts DEF SameApp, SameClient
<1>10. faults.taps <= faults'.taps
  BY <1>1, TruthFacts, PageFacts DEF Faults
<1>11. QED
  BY <1>1, <1>7, <1>8, <1>9, <1>10, QuietStep

\* A tap that sets the flag checks a session in: none is running.
LEMMA checkInInTurn ==
  ASSUME IInv, IInv', TurnsInv, NEW d \in Devices, checkIn(d)
  PROVE  TurnsInv' /\ Step
<1> DEFINE e == Head(events[d])
           w == Set(In(e.n + 1), now)
           q == <<w>>
<1>1. /\ HasEvent(d, "tap") /\ recording[d]
      /\ pending' = [pending EXCEPT ![d] = Append(pending[d], w)]
      /\ events' = [events EXCEPT ![d] = Tail(events[d]) \o SetEvents(View(d), w)]
      /\ screen' = [screen EXCEPT ![d] = [title |-> "Stop", checkIn |-> now]]
      /\ UNCHANGED <<db, taken, inbox, heard, waiting, recording, alert, faults>>
  BY DEF checkIn, updateScreen, server
<1>2. Deciding(d) /\ Asked(d)
  BY <1>1, TapIsAsked
<1>3. /\ Truth = db /\ View(d) = db /\ db \in Records
      /\ db[NumSessions] \in Nat /\ pending[d] = <<>>
  BY <1>2, DecidingFacts
<1>4. ~Running(db) /\ alert[d] = Null
  BY <1>1, <1>2 DEF Asked
<1>5. e.n + 1 = Next1(db) /\ Tail(events[d]) = <<>>
  <2>1. PICK x : x = TapRead(db)
    OBVIOUS
  <2>2. events[d] = <<x>>
    BY <1>2, <2>1 DEF Asked
  <2>3. Head(events[d]) = x /\ Tail(events[d]) = <<>>
    BY <2>2
  <2>4. QED
    BY <2>1, <2>3 DEF TapRead, Next1
<1>6. now \in Times /\ w = Set(In(Next1(db)), now)
  BY <1>5, PageFacts
<1> HIDE DEF e
<1>7. w \in Writes
  BY <1>3, <1>6, SetInType DEF Next1
<1> HIDE DEF w
<1>8. Under(db, q) = CheckedIn(db, now) /\ q \in Seq(Writes) /\ q # <<>> /\ Apart(q)
  <2>1. Under(db, q) = Apply(db, w) /\ q \in Seq(Writes) /\ q # <<>> /\ Apart(q)
    BY <1>3, <1>7, UnderOne, ApartOne
  <2>2. QED
    BY <1>6, <2>1 DEF CheckedIn
<1>9. Moved(db, Under(db, q))
  BY <1>4, <1>6, <1>8 DEF Moved
<1>10. pending' = [pending EXCEPT ![d] = q]
  BY <1>1, <1>3
<1>11. Idle(d)'
  <2>1. PICK v : v = SetEvents(View(d), w)
    OBVIOUS
  <2>2. v \in Seq(Events) /\ OnlyValues(v)
    BY <1>3, <1>7, <2>1, OnlySet
  <2>3. events'[d] = <<>> \o v
    BY <1>1, <1>5, <2>1, PageFacts
  <2>4. <<>> \o v = v
    BY <2>2
  <2>5. QED
    BY <1>1, <1>4, <2>2, <2>3, <2>4 DEF Idle
<1>12. recording'[d] <=> screen'[d].title = "Stop"
  BY <1>1, PageFacts
<1>13. \A p \in Devices : p # d => SameApp(p)
  BY <1>1, PageFacts DEF SameApp
<1> HIDE DEF q
<1>14. QED
  BY <1>1, <1>2, <1>8, <1>9, <1>10, <1>11, <1>12, <1>13, WriteStep

\* One that clears it looks the running session up.
LEMMA readSessionInTurn ==
  ASSUME IInv, IInv', TurnsInv, NEW d \in Devices, readSession(d)
  PROVE  TurnsInv' /\ Step
<1> DEFINE e == Head(events[d])
           s == StopRead(e.n, e.total, Field(View(d), In(e.n + 1)))
<1>1. /\ HasEvent(d, "tap") /\ ~recording[d]
      /\ events' = [events EXCEPT ![d] = Append(Tail(events[d]), s)]
      /\ screen' = [screen EXCEPT ![d] = [title |-> "Start", checkIn |-> Null]]
      /\ UNCHANGED <<db, pending, taken, inbox, heard, waiting, recording, alert, faults>>
  BY DEF readSession, updateScreen, server, client
<1>2. Deciding(d) /\ Asked(d)
  BY <1>1, TapIsAsked
<1>3. /\ View(d) = db /\ db \in Records /\ Shape(db) /\ db[NumSessions] <= MaxTaps
      /\ waiting[d] = 0 /\ \A p \in Devices : p # d => Calm(p)
  BY <1>2, DecidingFacts, ConstantsOK
<1>4. (Users = "careful" => Running(db)) /\ alert[d] = Null
  BY <1>1, <1>2 DEF Asked
<1>5. /\ e.n = db[NumSessions] /\ e.total = db[TotalHours] /\ Tail(events[d]) = <<>>
  <2>1. PICK x : x = TapRead(db)
    OBVIOUS
  <2>2. events[d] = <<x>>
    BY <1>2, <2>1 DEF Asked
  <2>3. Head(events[d]) = x /\ Tail(events[d]) = <<>>
    BY <2>2
  <2>4. QED
    BY <2>1, <2>3 DEF TapRead
<1>6. s = StopRead(db[NumSessions], db[TotalHours], CheckedInAt(db))
  <2>1. Field(View(d), In(e.n + 1)) = CheckedInAt(db)
    BY <1>3, <1>5, ShapeFacts DEF Next1
  <2>2. QED
    BY <1>5, <2>1
<1> HIDE DEF s
<1>7. events'[d] = <<s>>
  <2>1. events'[d] = Append(Tail(events[d]), s)
    BY <1>1, PageFacts
  <2>2. Append(<<>>, s) = <<s>>
    OBVIOUS
  <2>3. QED
    BY <1>5, <2>1, <2>2
<1>8. Found(d)'
  BY <1>1, <1>4, <1>6, <1>7 DEF Found, CheckedInAt, Next1
<1>9. Deciding(d)'
  <2>1. Synced(d)' /\ db'[NumSessions] < faults'.taps
    BY <1>1, <1>2 DEF Deciding, Synced
  <2>2. QED
    BY <1>1, <1>2, <1>8, <2>1 DEF Deciding
<1>10. recording'[d] <=> screen'[d].title = "Stop"
  BY <1>1, PageFacts
<1>11. PhoneInTurn(d)'
  BY <1>1, <1>3, <1>9, <1>10 DEF PhoneInTurn, ButtonOK
<1>12. \A p \in Devices : p # d => SameApp(p) /\ SameClient(p)
  BY <1>1, PageFacts DEF SameApp, SameClient
<1>13. faults.taps <= faults'.taps
  BY <1>1, TruthFacts
<1>14. QED
  BY <1>1, <1>3, <1>11, <1>12, <1>13, QuietStep

\* What the answer of that read carries.
LEMMA FoundFacts ==
  ASSUME IInv, TurnsInv, NEW d \in Devices, HasEvent(d, "stop")
  PROVE  /\ Deciding(d) /\ alert[d] = Null
         /\ Head(events[d]).n = db[NumSessions] /\ Head(events[d]).total = db[TotalHours]
         /\ Head(events[d]).in = CheckedInAt(db)
         /\ Head(events[d]).in # Null => Running(db) /\ CheckedInAt(db) \in Times
         /\ Users = "careful" => Head(events[d]).in # Null
         /\ Tail(events[d]) = <<>>
         /\ recording[d] <=> screen[d].title = "Stop"
<1>1. Deciding(d) /\ Found(d)
  BY StopIsFound
<1>2. db \in Records /\ Shape(db) /\ db[NumSessions] <= MaxTaps
  BY <1>1, DecidingFacts, ConstantsOK
<1>3. PICK x : x = StopRead(db[NumSessions], db[TotalHours], CheckedInAt(db))
  OBVIOUS
<1>4. events[d] = <<x>> /\ alert[d] = Null /\ (Users = "careful" => Running(db))
  BY <1>1, <1>3 DEF Found
<1>5. Head(events[d]) = x /\ Tail(events[d]) = <<>> /\ events[d][1] = x
  BY <1>4
<1>6. x.type = "stop" /\ x.n = db[NumSessions] /\ x.total = db[TotalHours] /\ x.in = CheckedInAt(db)
  BY <1>3 DEF StopRead
<1>7. /\ Running(db) => CheckedInAt(db) \in Times /\ CheckedInAt(db) # Null
      /\ CheckedInAt(db) # Null => Running(db)
  BY <1>2, ShapeFacts
<1>8. ~Asked(d)
  <2> SUFFICES ASSUME Asked(d)
               PROVE  FALSE
    OBVIOUS
  <2>1. PICK y : y = TapRead(db)
    OBVIOUS
  <2>2. events[d] = <<y>>
    BY <2>1 DEF Asked
  <2>3. events[d][1] = y
    BY <2>2
  <2>4. y.type = "tap"
    BY <2>1 DEF TapRead
  <2>5. QED
    BY <1>5, <1>6, <2>3, <2>4
<1>9. recording[d] <=> screen[d].title = "Stop"
  BY <1>8 DEF TurnsInv, PhoneInTurn, ButtonOK
<1>10. QED
  BY <1>1, <1>4, <1>5, <1>6, <1>7, <1>9

\* A long session is asked about,
LEMMA confirmSessionInTurn ==
  ASSUME IInv, IInv', TurnsInv, NEW d \in Devices, confirmSession(d)
  PROVE  TurnsInv' /\ Step
<1> DEFINE e == Head(events[d])
           a == [type |-> "confirm", n |-> e.n, total |-> e.total,
                 interval |-> now - e.in, out |-> now]
<1>1. /\ HasEvent(d, "stop") /\ e.in # Null /\ LongEnough(now - e.in)
      /\ alert' = [alert EXCEPT ![d] = IF alert[d] = Null THEN a ELSE alert[d]]
      /\ faults' = [faults EXCEPT !.unshown = IF alert[d] = Null THEN faults.unshown
                                              ELSE faults.unshown \cup {d}]
      /\ events' = [events EXCEPT ![d] = Tail(events[d])]
      /\ UNCHANGED <<db, now, pending, taken, inbox, heard, waiting, recording, screen>>
  BY DEF confirmSession, present, server, client
<1>2. /\ Deciding(d) /\ Running(db) /\ alert[d] = Null
      /\ e.n = db[NumSessions] /\ e.total = db[TotalHours] /\ e.in = CheckedInAt(db)
      /\ CheckedInAt(db) \in Times
      /\ Tail(events[d]) = <<>>
      /\ recording[d] <=> screen[d].title = "Stop"
  BY <1>1, FoundFacts
<1>3. now \in Times /\ Limit \in Nat /\ Times \subseteq Nat
  BY PageFacts, ConstantsOK, TimesFacts
<1>4. a = Question(db, now) /\ LongEnough(now - CheckedInAt(db))
  BY <1>1, <1>2 DEF Question
<1>5. a # Null
  <2>1. now - CheckedInAt(db) \in Intervals
    BY <1>2, <1>3, <1>4, IntervalOK
  <2>2. db[NumSessions] \in Nat /\ db[TotalHours] \in Nat
    BY TruthFacts, RecordFacts
  <2>3. Question(db, now) \in Alerts
    BY <1>3, <2>1, <2>2 DEF Question, Alerts
  <2>4. QED
    BY <1>4, <2>3, NullOK
<1> HIDE DEF e, a
<1>6. now > CheckedInAt(db) + Limit
  <2>1. PICK x \in Nat : x = CheckedInAt(db)
    BY <1>2, <1>3
  <2>2. now - x > Limit /\ now \in Nat
    BY <1>3, <1>4, <2>1 DEF LongEnough
  <2>3. now > x + Limit
    BY <1>3, <2>2
  <2>4. QED
    BY <2>1, <2>3
<1>7. alert'[d] = a /\ events'[d] = <<>>
  BY <1>1, <1>2, PageFacts
<1>8. Confirming(d)'
  <2>1. /\ events'[d] = <<>> /\ Running(db) /\ alert'[d] # Null
        /\ \E out \in Times : out > CheckedInAt(db) + Limit /\ alert'[d] = Question(db, out)
    BY <1>2, <1>3, <1>4, <1>5, <1>6, <1>7
  <2>2. db' = db
    BY <1>1
  <2>3. QED
    BY <2>1, <2>2 DEF Confirming
<1>9. faults'.taps = faults.taps
  BY <1>1, PageFacts DEF Faults
<1>10. Deciding(d)'
  <2>1. Synced(d)' /\ db'[NumSessions] < faults'.taps
    BY <1>1, <1>2, <1>9 DEF Deciding, Synced
  <2>2. QED
    BY <1>1, <1>2, <1>8, <2>1 DEF Deciding
<1>11. waiting[d] = 0 /\ \A p \in Devices : p # d => Calm(p)
  BY <1>2, DecidingFacts
<1>12. PhoneInTurn(d)'
  BY <1>1, <1>2, <1>10, <1>11 DEF PhoneInTurn, ButtonOK
<1>13. \A p \in Devices : p # d => SameApp(p) /\ SameClient(p)
  BY <1>1, PageFacts DEF SameApp, SameClient
<1>14. faults.taps <= faults'.taps
  BY <1>9, TruthFacts
<1>15. QED
  BY <1>1, <1>11, <1>12, <1>13, <1>14, QuietStep

\* a short one dismissed,
LEMMA rejectSessionInTurn ==
  ASSUME IInv, IInv', TurnsInv, NEW d \in Devices, rejectSession(d)
  PROVE  TurnsInv' /\ Step
<1> DEFINE e == Head(events[d])
           a == [type |-> "warning"]
<1>1. /\ HasEvent(d, "stop") /\ e.in # Null
      /\ alert' = [alert EXCEPT ![d] = IF alert[d] = Null THEN a ELSE alert[d]]
      /\ faults' = [faults EXCEPT !.unshown = IF alert[d] = Null THEN faults.unshown
                                              ELSE faults.unshown \cup {d}]
      /\ dismissSession(d, e.n, Tail(events[d]))
      /\ UNCHANGED <<db, taken, inbox, heard, waiting, recording, screen>>
  BY DEF rejectSession, present, server
<1>2. /\ Deciding(d) /\ Running(db) /\ alert[d] = Null
      /\ e.n = db[NumSessions] /\ Tail(events[d]) = <<>>
      /\ recording[d] <=> screen[d].title = "Stop"
  BY <1>1, FoundFacts
<1>3. Tail(events[d]) \in Seq(Events) /\ OnlyValues(Tail(events[d]))
  <2>1. PICK t : t = Tail(events[d])
    OBVIOUS
  <2>2. t = <<>>
    BY <1>2, <2>1
  <2>3. t \in Seq(Events) /\ OnlyValues(t)
    BY <2>2, EmptySeq DEF OnlyValues
  <2>4. QED
    BY <2>1, <2>3
<1>4. a.type = "warning"
  OBVIOUS
<1> HIDE DEF a
<1>5. alert'[d] = a /\ \A p \in Devices : p # d => alert'[p] = alert[p]
  BY <1>1, <1>2, PageFacts
<1>6. faults'.taps = faults.taps
  BY <1>1, PageFacts DEF Faults
<1>7. dismissSession(d, db[NumSessions], Tail(events[d]))
  BY <1>1, <1>2
<1>8. alert'[d] # Null => alert'[d].type # "confirm"
  BY <1>4, <1>5
<1>9. QED
  BY <1>1, <1>2, <1>3, <1>5, <1>6, <1>7, <1>8, DismissInTurn

\* The state of the record's phones does not change.
LEMMA SameInTurn ==
  ASSUME TurnsInv, UNCHANGED <<db, pending, taken, inbox, heard, waiting, events,
                                 recording, screen, alert, faults>>
  PROVE  TurnsInv' /\ Step
<1>1. Truth' = Truth
  BY DEF Truth
<1>2. TruthOK'
  BY <1>1 DEF TurnsInv, TruthOK
<1>3. \A d \in Devices : PhoneInTurn(d)'
  <2> SUFFICES ASSUME NEW d \in Devices
               PROVE  PhoneInTurn(d)'
    OBVIOUS
  <2>1. /\ Calm(d) => Calm(d)'
        /\ Writing(d) => Writing(d)'
        /\ Asked(d) => Asked(d)'
        /\ Found(d) => Found(d)'
        /\ Confirming(d) => Confirming(d)'
        /\ Synced(d) => Synced(d)'
    BY DEF Calm, Writing, Idle, Asked, Found, Confirming, Synced
  <2>2. PhoneInTurn(d)
    BY DEF TurnsInv
  <2>3. QED
    BY <2>1, <2>2 DEF PhoneInTurn, Deciding, ButtonOK
<1>4. \A d \in Devices : Calm(d) => Calm(d)'
  BY DEF Calm, Idle
<1>5. \A d \in Devices, e \in Devices : d # e => Calm(d)' \/ Calm(e)'
  BY <1>4 DEF TurnsInv
<1>6. QED
  BY <1>1, <1>2, <1>3, <1>5 DEF TurnsInv, Step, Moved

\* A phone that has nothing to do stays so, whatever becomes of the record.
LEMMA CalmPhone ==
  ASSUME NEW e, PhoneInTurn(e), Calm(e), SameApp(e), waiting'[e] = waiting[e]
  PROVE  PhoneInTurn(e)'
<1>1. ~Asked(e)
  BY AskedBusy DEF Calm
<1>2. Calm(e)'
  BY SameCalm
<1>3. recording'[e] <=> screen'[e].title = "Stop"
  BY <1>1 DEF PhoneInTurn, ButtonOK, SameApp
<1>4. QED
  BY <1>2, <1>3 DEF PhoneInTurn, ButtonOK

\* The server takes a write: it lands where no other one does.
LEMMA TakeWriteInTurn ==
  ASSUME IInv, IInv', TurnsInv, NEW d \in Devices, TakeWrite(d)
  PROVE  TurnsInv' /\ Truth' = Truth
<1> DEFINE q == pending[d]
           n == taken[d] + 1
<1>1. /\ taken[d] < Len(q) /\ db' = Apply(db, q[n])
      /\ taken' = [taken EXCEPT ![d] = n]
      /\ UNCHANGED <<pending, heard, waiting, events, recording, screen, alert, faults>>
  BY DEF TakeWrite, app
<1>2. q \in Seq(Writes) /\ taken[d] \in Nat /\ Len(q) \in Nat /\ taken \in [Devices -> Nat]
  BY PageFacts, NetworkKept
<1>3. n \in DOMAIN q /\ q # <<>> /\ n \in Nat
  <2> HIDE DEF q
  <2> QED BY <1>1, <1>2, LenProperties
<1>4. Writing(d) /\ ~Calm(d) /\ waiting[d] = 0 /\ ButtonOK(d)
  BY <1>3 DEF TurnsInv, PhoneInTurn, Calm, Deciding
<1>5. \A e \in Devices : e # d => Calm(e) /\ pending[e] = <<>>
  BY <1>4, Alone
<1>6. Apart(q) /\ Landed(db, q, taken[d]) /\ Idle(d)
  BY <1>4 DEF Writing
<1>7. Truth' = Truth
  <2>1. db \in Records /\ Truth = Under(db, q)
    BY <1>5, TruthFacts
  <2>2. db' \in Records
    BY DEF IInv, DataUnder, RecordsUnder
  <2>3. PICK r \in Records : r = db'
    BY <2>2
  <2>4. TruthOf(r, pending) = Under(r, pending[d])
    BY <1>5, OneWriter
  <2>5. Under(Apply(db, q[n]), q) = Under(db, q)
    <3> HIDE DEF q, n
    <3> QED BY <1>2, <1>3, <1>6, UnderTake
  <2>6. Truth' = TruthOf(db', pending)
    BY <1>1, TruthIs
  <2>7. Truth' = Under(r, q)
    BY <2>3, <2>4, <2>6
  <2>8. QED
    BY <1>1, <2>1, <2>3, <2>5, <2>7
<1>8. Landed(db', q, n)
  <2> SUFFICES ASSUME NEW i \in DOMAIN q, i <= n, NEW l \in Leaves, l \in q[i].leaves
               PROVE  db'[l] = q[i].val
    BY DEF Landed
  <2>1. db'[l] = IF l \in q[n].leaves THEN q[n].val ELSE db[l]
    BY <1>1 DEF Apply
  <2>2. CASE i = n
    BY <2>1, <2>2
  <2>3. CASE i # n
    <3> HIDE DEF q
    <3>1. i <= taken[d]
      BY <1>2, <2>3, LenProperties
    <3>2. db[l] = q[i].val
      BY <1>6, <3>1 DEF Landed
    <3>3. l \notin q[n].leaves
      <4> HIDE DEF n
      <4> QED BY <1>3, <1>6, <2>3 DEF Apart
    <3>4. QED
      BY <2>1, <3>2, <3>3
  <2>4. QED
    BY <2>2, <2>3
<1>9. Writing(d)'
  <2>1. taken'[d] = n
    BY <1>1, <1>2
  <2>2. QED
    BY <1>1, <1>3, <1>6, <1>8, <2>1 DEF Writing, Idle
<1>10. PhoneInTurn(d)'
  <2>1. ~Asked(d)
    BY <1>6, AskedBusy
  <2>2. recording'[d] <=> screen'[d].title = "Stop"
    BY <1>1, <1>4, <2>1 DEF ButtonOK
  <2>3. QED
    BY <1>1, <1>4, <1>9, <2>2 DEF PhoneInTurn, ButtonOK
<1>11. \A e \in Devices : SameApp(e)
  BY <1>1 DEF SameApp
<1>12. \A e \in Devices : e # d => PhoneInTurn(e)' /\ Calm(e)'
  <2> SUFFICES ASSUME NEW e \in Devices, e # d
               PROVE  PhoneInTurn(e)' /\ Calm(e)'
    OBVIOUS
  <2>1. PhoneInTurn(e) /\ Calm(e) /\ SameApp(e) /\ waiting'[e] = waiting[e]
    BY <1>1, <1>5, <1>11 DEF TurnsInv
  <2>2. QED
    BY <2>1, CalmPhone, SameCalm
<1>13. TruthOK'
  BY <1>1, <1>7 DEF TurnsInv, TruthOK
<1>14. QED
  BY <1>7, <1>10, <1>12, <1>13 DEF TurnsInv

\* What is heard is queued as records only, no read being kept waiting.
LEMMA HeardValues ==
  ASSUME IInv, NEW d \in Devices, waiting[d] = 0, NEW new \in Records, NEW old
  PROVE  LET es == IF heard[d] = Null THEN <<Value(new)>> \o [i \in 1..waiting[d] |-> TapRead(new)]
                   ELSE Raised(old, new)
         IN  es \in Seq(Events) /\ OnlyValues(es)
<1>0. Value(new) \in Events /\ Value(new).type = "value"
  BY DEF Value, Events
<1>1. PICK v \in Events : v = Value(new) /\ v.type = "value"
  BY <1>0
<1>2. [i \in 1..waiting[d] |-> TapRead(new)] = <<>>
  OBVIOUS
<1>3. <<v>> \o <<>> = <<v>>
  OBVIOUS
<1>4. <<v>> \in Seq(Events) /\ OnlyValues(<<v>>)
  BY <1>1 DEF OnlyValues
<1>5. Raised(old, new) \in Seq(Events) /\ OnlyValues(Raised(old, new))
  BY OnlyRaised
<1>6. <<Value(new)>> \o [i \in 1..waiting[d] |-> TapRead(new)] = <<v>>
  BY <1>1, <1>2, <1>3
<1>7. QED
  BY <1>4, <1>5, <1>6

\* The write acknowledged is there.
LEMMA AckFacts ==
  ASSUME IInv, NEW d \in Devices, inbox[d] # <<>>, Head(inbox[d]).ack
  PROVE  taken[d] > 0 /\ pending[d] # <<>>
<1>1. PICK c \in Nat : c = confirmed
  BY NetworkKept
<1>2. /\ inbox[d] \in Seq(MessagesUnder(c)) /\ taken[d] = Cardinality(AckSet(inbox[d]))
      /\ taken[d] <= Len(pending[d]) /\ taken[d] \in Nat
  BY <1>1, NetworkKept
<1>3. taken[d] > 0
  BY <1>1, <1>2, AckTail
<1>4. QED
  BY <1>2, <1>3, NetworkKept

\* What is heard changes what a phone knows; the record will be the same.
LEMMA HearInTurn ==
  ASSUME IInv, IInv', TurnsInv, NEW d \in Devices, Hear(d)
  PROVE  TurnsInv' /\ Truth' = Truth
<1> DEFINE m == Head(inbox[d])
           q == IF m.ack THEN Tail(pending[d]) ELSE pending[d]
           new == Under(m.record, q)
           es == IF heard[d] = Null THEN <<Value(new)>> \o [i \in 1..waiting[d] |-> TapRead(new)]
                 ELSE Raised(View(d), new)
           t == IF m.ack THEN taken[d] - 1 ELSE taken[d]
<1>1. /\ inbox[d] # <<>>
      /\ inbox' = [inbox EXCEPT ![d] = Tail(inbox[d])]
      /\ heard' = [heard EXCEPT ![d] = m.record]
      /\ pending' = [pending EXCEPT ![d] = q]
      /\ taken' = [taken EXCEPT ![d] = t]
      /\ waiting' = [waiting EXCEPT ![d] = 0]
      /\ events' = [events EXCEPT ![d] = events[d] \o es]
      /\ UNCHANGED <<db, recording, screen, alert, faults>>
  BY DEF Hear, server
<1>2. waiting[d] = 0 /\ PhoneInTurn(d)
  BY DEF TurnsInv, PhoneInTurn
<1>3. /\ new \in Records /\ events[d] \in Seq(Events) /\ pending[d] \in Seq(Writes)
      /\ DOMAIN heard = Devices
  BY HearType, PageFacts
<1>4. es \in Seq(Events) /\ OnlyValues(es)
  <2> HIDE DEF new
  <2> QED BY <1>2, <1>3, HeardValues
<1>5. /\ taken \in [Devices -> Nat] /\ inbox \in [Devices -> Seq(Messages)]
      /\ pending \in [Devices -> Seq(Writes)] /\ waiting \in [Devices -> Nat]
      /\ events \in [Devices -> Seq(Events)]
  BY Typed DEF TypeOK
<1>6. m.ack => taken[d] > 0 /\ pending[d] # <<>>
  BY <1>1, AckFacts
<1> HIDE DEF m, new
<1>7. events'[d] = events[d] \o es /\ pending'[d] = q /\ taken'[d] = t /\ waiting'[d] = 0
      /\ heard'[d] = m.record /\ inbox'[d] = Tail(inbox[d])
  <2> HIDE DEF es, q, t
  <2>1. events'[d] = events[d] \o es
    BY <1>1, <1>5
  <2>2. pending'[d] = q
    BY <1>1, <1>5
  <2>3. taken'[d] = t /\ waiting'[d] = 0
    BY <1>1, <1>5
  <2>4. heard'[d] = m.record
    BY <1>1, <1>3
  <2>5. inbox'[d] = Tail(inbox[d])
    BY <1>1, <1>5
  <2>6. QED
    BY <2>1, <2>2, <2>3, <2>4, <2>5
<1>8. OnlyValues(events[d]) => OnlyValues(events'[d])
  <2> HIDE DEF es
  <2> QED BY <1>3, <1>4, <1>7, OnlyJoin
<1>9. Idle(d) => Idle(d)'
  BY <1>1, <1>8 DEF Idle
<1>10. \A e \in Devices : e # d => SameApp(e) /\ SameClient(e)
  <2> HIDE DEF es, q, t
  <2> QED BY <1>1, <1>5 DEF SameApp, SameClient
<1>11. faults.taps <= faults'.taps
  BY <1>1, TruthFacts
<1>12. Idle(d) => (recording'[d] <=> screen'[d].title = "Stop")
  BY <1>1, <1>2, AskedBusy DEF PhoneInTurn, ButtonOK
<1>13. pending[d] = <<>> => ~m.ack /\ pending' = pending /\ taken'[d] = taken[d]
  BY <1>1, <1>5, <1>6, <1>7
<1>14. pending' = pending => Truth' = Truth
  <2> SUFFICES ASSUME pending' = pending
               PROVE  Truth' = Truth
    OBVIOUS
  <2>1. db' = db
    BY <1>1
  <2>2. QED
    BY <2>1 DEF Truth
<1>15. CASE Calm(d)
  <2>1. pending' = pending /\ Calm(d)'
    BY <1>9, <1>13, <1>15 DEF Calm
  <2>2. PhoneInTurn(d)'
    BY <1>7, <1>12, <1>15, <2>1 DEF Calm, PhoneInTurn, ButtonOK
  <2>3. QED
    BY <1>1, <1>10, <1>11, <1>14, <2>1, <2>2, QuietStep
<1>16. CASE Deciding(d)
  <2>1. /\ \A e \in Devices : e # d => Calm(e)
        /\ heard[d] = db /\ View(d) = db /\ db \in Records /\ heard[d] # Null
        /\ pending[d] = <<>>
    BY <1>16, DecidingFacts
  <2>2. m.record = db
    <3>1. 1 \in DOMAIN inbox[d] /\ m = inbox[d][1]
      BY <1>1, <1>5, TailFacts DEF m
    <3>2. QED
      BY <1>16, <3>1 DEF Deciding, Synced
  <2>3. new = db
    BY <1>13, <2>1, <2>2, UnderNothing DEF new
  <2>4. events'[d] = events[d]
    <3>1. es = <<>>
      BY <2>1, <2>3 DEF Raised
    <3>2. events[d] \o <<>> = events[d]
      BY <1>3
    <3>3. QED
      BY <1>7, <3>1, <3>2
  <2>5. /\ Asked(d) => Asked(d)'
        /\ Found(d) => Found(d)'
        /\ Confirming(d) => Confirming(d)'
    BY <1>1, <2>4 DEF Asked, Found, Confirming
  <2>6. Synced(d)'
    <3>1. \A i \in DOMAIN Tail(inbox[d]) : Tail(inbox[d])[i].record = db
      <4> TAKE i \in DOMAIN Tail(inbox[d])
      <4>1. i + 1 \in DOMAIN inbox[d] /\ Tail(inbox[d])[i] = inbox[d][i + 1]
        BY <1>1, <1>5, TailFacts
      <4>2. QED
        BY <1>16, <4>1 DEF Deciding, Synced
    <3>2. QED
      BY <1>1, <1>7, <2>2, <3>1 DEF Synced
  <2>7. Deciding(d)'
    BY <1>1, <1>13, <1>16, <2>1, <2>5, <2>6 DEF Deciding
  <2>8. PhoneInTurn(d)'
    BY <1>1, <1>2, <1>7, <2>5, <2>7 DEF PhoneInTurn, ButtonOK
  <2>9. QED
    BY <1>1, <1>10, <1>11, <1>13, <1>14, <2>1, <2>8, QuietStep
<1>17. CASE Writing(d)
  <2>1. ~Calm(d) /\ pending[d] # <<>> /\ Apart(pending[d]) /\ Landed(db, pending[d], taken[d])
        /\ Idle(d)
    BY <1>17 DEF Writing, Calm
  <2>2. \A e \in Devices : e # d => Calm(e) /\ pending[e] = <<>>
    BY <2>1, Alone
  <2>3. CASE ~m.ack
    <3>1. pending' = pending /\ taken'[d] = taken[d]
      BY <1>1, <1>5, <1>7, <2>3
    <3>2. Writing(d)'
      BY <1>1, <1>9, <2>1, <3>1 DEF Writing
    <3>3. PhoneInTurn(d)'
      BY <1>7, <1>12, <2>1, <3>2 DEF PhoneInTurn, ButtonOK
    <3>4. QED
      BY <1>1, <1>10, <1>11, <1>14, <2>2, <3>1, <3>3, QuietStep
  <2>4. CASE m.ack
    <3>1. taken[d] \in Nat /\ taken[d] > 0 /\ db \in Records
      BY <1>5, <1>6, <2>4, TruthFacts
    <3>2. PICK p : p = Tail(pending[d])
      OBVIOUS
    <3>3. /\ Under(db, p) = Under(db, pending[d])
          /\ Apart(p) /\ Landed(db, p, taken[d] - 1)
      BY <1>3, <2>1, <3>1, <3>2, UnderTail
    <3>4. pending'[d] = p /\ taken'[d] = taken[d] - 1
      BY <1>7, <2>4, <3>2
    <3>5. Calm(d)' \/ Writing(d)'
      BY <1>1, <1>9, <2>1, <3>3, <3>4 DEF Calm, Writing
    <3>6. PhoneInTurn(d)'
      BY <1>7, <1>12, <2>1, <3>5 DEF PhoneInTurn, ButtonOK
    <3>7. Truth' = Truth
      <4>1. Truth = Under(db, pending[d])
        BY <2>2, TruthFacts
      <4>2. PICK z : z = pending'
        OBVIOUS
      <4>3. z[d] = p /\ \A e \in Devices : e # d => z[e] = <<>>
        BY <1>10, <2>2, <3>4, <4>2 DEF SameApp
      <4>4. TruthOf(db, z) = Under(db, z[d])
        BY <3>1, <4>3, OneWriter
      <4>5. Truth' = TruthOf(db, z)
        BY <1>1, <4>2, TruthIs
      <4>6. QED
        BY <3>3, <4>1, <4>3, <4>4, <4>5
    <3>8. TruthOK'
      BY <1>1, <3>7 DEF TurnsInv, TruthOK
    <3>9. TurnsInv'
      BY <1>1, <1>10, <1>11, <2>2, <3>6, <3>8, PhoneStepInTurn
    <3>10. QED
      BY <3>7, <3>9
  <2>5. QED
    BY <2>3, <2>4
<1>18. QED
  BY <1>2, <1>15, <1>16, <1>17 DEF PhoneInTurn

\* The connection goes and comes back: a phone that decides sees what it saw.
LEMMA DisconnectInTurn ==
  ASSUME IInv, IInv', TurnsInv, NEW d \in Devices, Disconnect(d)
  PROVE  TurnsInv' /\ Step
<1>1. /\ taken' = [taken EXCEPT ![d] = 0]
      /\ inbox' = [inbox EXCEPT ![d] = <<>>]
      /\ faults' = [faults EXCEPT !.disconnects = @ + 1]
      /\ UNCHANGED <<db, pending, heard, waiting, events, recording, screen, alert>>
  BY DEF Disconnect, server, app
<1>2. /\ taken \in [Devices -> Nat] /\ inbox \in [Devices -> Seq(Messages)]
      /\ pending[d] \in Seq(Writes)
  BY Typed DEF TypeOK
<1>3. faults'.taps = faults.taps
  BY <1>1, PageFacts DEF Faults
<1>4. Calm(d) => Calm(d)'
  BY <1>1 DEF Calm, Idle
<1>5. Deciding(d) => Deciding(d)'
  <2>1. /\ Asked(d) => Asked(d)'
        /\ Found(d) => Found(d)'
        /\ Confirming(d) => Confirming(d)'
    BY <1>1 DEF Asked, Found, Confirming
  <2>2. inbox'[d] = <<>>
    BY <1>1, <1>2
  <2>3. Synced(d) => Synced(d)'
    BY <1>1, <2>2 DEF Synced
  <2>4. QED
    BY <1>1, <1>3, <2>1, <2>3 DEF Deciding
<1>6. Writing(d) => Writing(d)'
  <2>1. taken'[d] = 0
    BY <1>1, <1>2
  <2>2. \A i \in DOMAIN pending[d] : ~(i <= 0)
    BY <1>2, LenProperties
  <2>3. Landed(db', pending'[d], taken'[d])
    BY <1>1, <2>1, <2>2 DEF Landed
  <2>4. QED
    BY <1>1, <2>3 DEF Writing, Idle
<1>7. PhoneInTurn(d)'
  <2>1. ButtonOK(d)'
    BY <1>1 DEF TurnsInv, PhoneInTurn, ButtonOK, Asked
  <2>2. QED
    BY <1>1, <1>4, <1>5, <1>6, <2>1 DEF TurnsInv, PhoneInTurn
<1>8. Calm(d)' \/ \A e \in Devices : e # d => Calm(e)
  BY <1>4, Alone
<1>9. \A e \in Devices : e # d => SameApp(e) /\ SameClient(e)
  BY <1>1, <1>2 DEF SameApp, SameClient
<1>10. faults.taps <= faults'.taps
  BY <1>3, TruthFacts
<1>11. QED
  BY <1>1, <1>7, <1>8, <1>9, <1>10, QuietStep

\* The listen is answered with the record as it is.
LEMMA ReconnectInTurn ==
  ASSUME IInv, IInv', TurnsInv, NEW d \in Devices, Reconnect(d)
  PROVE  TurnsInv' /\ Step
<1> DEFINE m == [record |-> db, ack |-> FALSE]
<1>1. /\ inbox' = [inbox EXCEPT ![d] = <<m>>]
      /\ UNCHANGED <<db, pending, taken, heard, waiting, events, recording, screen, alert, faults>>
  BY DEF Reconnect, server, app
<1>2. inbox \in [Devices -> Seq(Messages)]
  BY Typed DEF TypeOK
<1>3. Calm(d) => Calm(d)'
  BY <1>1 DEF Calm, Idle
<1>4. Deciding(d) => Deciding(d)'
  <2>1. /\ Asked(d) => Asked(d)'
        /\ Found(d) => Found(d)'
        /\ Confirming(d) => Confirming(d)'
    BY <1>1 DEF Asked, Found, Confirming
  <2>2. m.record = db
    OBVIOUS
  <2> HIDE DEF m
  <2>3. inbox'[d] = <<m>> /\ \A i \in DOMAIN <<m>> : <<m>>[i] = m
    BY <1>1, <1>2
  <2>4. Synced(d) => Synced(d)'
    BY <1>1, <2>2, <2>3 DEF Synced
  <2>5. QED
    BY <1>1, <2>1, <2>4 DEF Deciding
<1>5. Writing(d) => Writing(d)'
  BY <1>1 DEF Writing, Idle
<1>6. PhoneInTurn(d)'
  <2>1. ButtonOK(d)'
    BY <1>1 DEF TurnsInv, PhoneInTurn, ButtonOK, Asked
  <2>2. QED
    BY <1>1, <1>3, <1>4, <1>5, <2>1 DEF TurnsInv, PhoneInTurn
<1>7. Calm(d)' \/ \A e \in Devices : e # d => Calm(e)
  BY <1>3, Alone
<1>8. \A e \in Devices : e # d => SameApp(e) /\ SameClient(e)
  BY <1>1, <1>2 DEF SameApp, SameClient
<1>9. faults.taps <= faults'.taps
  BY <1>1, TruthFacts
<1>10. QED
  BY <1>1, <1>6, <1>7, <1>8, <1>9, QuietStep

\* Where no record and no write changes, neither does the record to be.
LEMMA SameTruth ==
  ASSUME db' = db, pending' = pending
  PROVE  Truth' = Truth
BY DEF Truth

\* A process that dies with nothing to send that the server has not taken: the
\* record will be as it was to be.
LEMMA RelaunchTruth ==
  ASSUME IInv, IInv', TurnsInv, NEW d \in Devices, taken[d] = Len(pending[d]), Relaunched(d)
  PROVE  Truth' = Truth /\ pending'[d] = <<>> /\ (\A e \in Devices : e # d => pending'[e] = pending[e])
<1>1. db' = db /\ pending' = [pending EXCEPT ![d] = <<>>]
  BY DEF Relaunched, server
<1>2. pending'[d] = <<>> /\ \A e \in Devices : e # d => pending'[e] = pending[e]
  BY <1>1, PageFacts
<1>3. CASE pending[d] = <<>>
  <2>1. pending' = pending
    BY <1>1, <1>3, PageFacts
  <2>2. Truth' = Truth
    BY <1>1, <2>1, SameTruth
  <2>3. QED
    BY <1>2, <2>2
<1>4. CASE pending[d] # <<>>
  <2>1. Writing(d)
    BY <1>4 DEF TurnsInv, PhoneInTurn, Calm, Deciding
  <2>2. PICK q \in Seq(Writes) : q = pending[d]
    BY PageFacts
  <2>3. Apart(q) /\ Landed(db, q, Len(q)) /\ db \in Records
    BY <2>1, <2>2, TruthFacts DEF Writing
  <2>4. \A e \in Devices : e # d => pending[e] = <<>>
    BY <1>4, Alone DEF Calm
  <2>5. Under(db, q) = db
    BY <2>3, UnderLanded
  <2>6. Truth = db
    <3>1. Truth = Under(db, pending[d])
      BY <2>4, TruthFacts
    <3>2. QED
      BY <2>2, <2>5, <3>1
  <2>7. \A e \in Devices : pending'[e] = <<>>
    BY <1>2, <2>4
  <2>8. Truth' = db
    BY <1>1, <2>7 DEF Truth
  <2>9. QED
    BY <1>2, <2>6, <2>8
<1>5. QED
  BY <1>3, <1>4

LEMMA RelaunchInTurn ==
  ASSUME IInv, IInv', TurnsInv, NEW d \in Devices, taken[d] = Len(pending[d]), Relaunched(d),
         faults'.taps = faults.taps
  PROVE  TurnsInv' /\ Step
<1> DEFINE m == [record |-> db, ack |-> FALSE]
<1>1. /\ taken' = [taken EXCEPT ![d] = 0]
      /\ inbox' = [inbox EXCEPT ![d] = <<m>>]
      /\ heard' = [heard EXCEPT ![d] = Null]
      /\ waiting' = [waiting EXCEPT ![d] = 0]
      /\ events' = [events EXCEPT ![d] = <<>>]
      /\ recording' = [recording EXCEPT ![d] = FALSE]
      /\ screen' = [screen EXCEPT ![d] = Fresh]
      /\ alert' = [alert EXCEPT ![d] = Null]
      /\ db' = db
  BY DEF Relaunched, server
<1> HIDE DEF m
<1>2. /\ taken \in [Devices -> Nat] /\ inbox \in [Devices -> Seq(Messages)]
      /\ waiting \in [Devices -> Nat]
  BY Typed DEF TypeOK
<1>3. /\ Truth' = Truth /\ pending'[d] = <<>>
      /\ \A e \in Devices : e # d => pending'[e] = pending[e]
  BY RelaunchTruth
<1>4. /\ events'[d] = <<>> /\ alert'[d] = Null /\ waiting'[d] = 0
      /\ recording'[d] = FALSE /\ screen'[d] = Fresh
  BY <1>1, <1>2, PageFacts
<1>5. Calm(d)'
  BY <1>3, <1>4 DEF Calm, Idle, OnlyValues
<1>6. PhoneInTurn(d)'
  BY <1>4, <1>5 DEF PhoneInTurn, ButtonOK, Fresh
<1>7. \A e \in Devices : e # d => SameApp(e) /\ SameClient(e)
  BY <1>1, <1>2, <1>3, PageFacts DEF SameApp, SameClient
<1>8. faults.taps <= faults'.taps
  BY TruthFacts
<1>9. TruthOK'
  BY <1>3, TruthFacts DEF TruthOK
<1>10. QED
  BY <1>1, <1>3, <1>5, <1>6, <1>7, <1>8, <1>9, PhoneStepInTurn DEF Step, Moved

\* A death that loses no write: the server had taken them all.
LEMMA KillLoses ==
  ASSUME IInv, NEW d \in Devices, Kill(d), faults'.lost = {}
  PROVE  taken[d] = Len(pending[d])
<1>1. PICK u : u = IF taken[d] < Len(pending[d]) THEN faults.lost \cup {d} ELSE faults.lost
  OBVIOUS
<1>2. faults'.lost = u
  BY <1>1, PageFacts DEF Kill, Faults
<1>3. ~(taken[d] < Len(pending[d]))
  BY <1>1, <1>2
<1>4. taken[d] \in Nat /\ Len(pending[d]) \in Nat /\ taken[d] <= Len(pending[d])
  BY Typed DEF TypeOK
<1>5. QED
  BY <1>3, <1>4

LEMMA KillInTurn ==
  ASSUME IInv, IInv', TurnsInv, NEW d \in Devices, Kill(d), faults'.lost = {}
  PROVE  TurnsInv' /\ Step
<1>1. taken[d] = Len(pending[d]) /\ Relaunched(d)
  BY KillLoses DEF Kill
<1>2. faults'.taps = faults.taps
  BY PageFacts DEF Kill, Faults
<1>3. QED
  BY <1>1, <1>2, RelaunchInTurn

\* A phone that crashes has no writes either.
LEMMA CrashLoses ==
  ASSUME IInv, TurnsInv, NEW d \in Devices, Crash(d)
  PROVE  taken[d] = Len(pending[d])
<1>1. pending[d] = <<>>
  BY FoundFacts DEF Crash, Deciding
<1>2. Len(pending[d]) = 0 /\ taken[d] \in Nat /\ taken[d] <= Len(pending[d])
  BY <1>1, Typed DEF TypeOK
<1>3. QED
  BY <1>2

\* Nor has one that crashes, which was about to ask about a session that is gone.
LEMMA CrashInTurn ==
  ASSUME IInv, IInv', TurnsInv, NEW d \in Devices, Crash(d)
  PROVE  TurnsInv' /\ Step
<1>1. taken[d] = Len(pending[d]) /\ Relaunched(d)
  BY CrashLoses DEF Crash
<1>2. faults'.taps = faults.taps
  BY PageFacts DEF Crash, Faults
<1>3. QED
  BY <1>1, <1>2, RelaunchInTurn

\* Initially nobody has anything to do.
LEMMA InitInTurn == Init => TurnsInv
<1> SUFFICES ASSUME Init
             PROVE  TurnsInv
  OBVIOUS
<1>1. \A d \in Devices : Calm(d)
  BY DEF Init, Calm, Idle, OnlyValues
<1>2. \A d \in Devices : waiting[d] = 0 /\ ButtonOK(d)
  BY DEF Init, ButtonOK, Fresh
<1>3. Truth = EmptyRecord
  BY DEF Init, Truth
<1>4. EmptyRecord[NumSessions] = 0
  BY LeafFacts DEF EmptyRecord
<1>5. \A k \in Keys : EmptyRecord[In(k)] = Null /\ EmptyRecord[Out(k)] = Null /\ ~(k <= 0)
  <2> TAKE k \in Keys
  <2>1. In(k) \in Leaves /\ Out(k) \in Leaves
        /\ In(k) \notin {NumSessions, TotalHours} /\ Out(k) \notin {NumSessions, TotalHours}
    BY SessionLeaves
  <2>2. QED
    BY <2>1 DEF EmptyRecord, Keys
<1>6. Shape(EmptyRecord)
  BY <1>4, <1>5 DEF Shape
<1>7. TruthOK
  BY <1>3, <1>4, <1>6 DEF Init, TruthOK
<1>8. QED
  BY <1>1, <1>2, <1>7 DEF TurnsInv, PhoneInTurn

\* The invariant is inductive, and each step moves the record or leaves it.
LEMMA NextInTurn ==
  ASSUME IInv, IInv', TurnsInv, ShowsSession, AllShown, [Next]_vars, Users # "hasty",
         faults'.lost = {}
  PROVE  TurnsInv' /\ Step
<1>1. CASE UNCHANGED vars
  BY <1>1, SameInTurn DEF vars, server, client, app
<1>2. CASE Tick
  BY <1>2, SameInTurn DEF Tick, client, app
<1>3. ASSUME NEW d \in Devices, User(d)
      PROVE  TurnsInv' /\ Step
  <2>1. CASE OpenHistory(d) \/ CloseHistory(d)
    BY <2>1, SameInTurn DEF OpenHistory, CloseHistory, server, client
  <2>2. QED
    BY <1>3, <2>1, startRecordingInTurn, recordSessionInTurn, DeclineInTurn,
       CloseWarningInTurn DEF User
<1>4. ASSUME NEW d \in Devices, MainThread(d)
      PROVE  TurnsInv' /\ Step
  BY <1>4, observeValueInTurn, checkInInTurn, readSessionInTurn, confirmSessionInTurn,
     rejectSessionInTurn, CrashInTurn DEF MainThread
<1>5. ASSUME NEW d \in Devices, Network(d)
      PROVE  TurnsInv' /\ Step
  <2>1. Truth' = Truth => Step
    BY DEF Step, Moved
  <2>2. QED
    BY <1>5, <2>1, TakeWriteInTurn, HearInTurn, ReconnectInTurn DEF Network
<1>6. ASSUME NEW d \in Devices, Disconnect(d) \/ Kill(d)
      PROVE  TurnsInv' /\ Step
  BY <1>6, DisconnectInTurn, KillInTurn
<1>7. QED
  BY <1>1, <1>2, <1>3, <1>4, <1>5, <1>6 DEF Next

\* No alert is left out: what is asked about or warned of has been waited for.
LEMMA NextShown ==
  ASSUME IInv, TurnsInv, AllShown, [Next]_vars
  PROVE  AllShown'
<1>1. faults \in Faults
  BY Typed DEF TypeOK, Faults
<1>2. \A d : faults.unshown \ {d} = {}
  BY DEF AllShown
<1>3. CASE UNCHANGED faults
  BY <1>3 DEF AllShown
<1>4. ASSUME NEW d \in Devices, confirmSession(d) \/ rejectSession(d)
      PROVE  AllShown'
  <2>1. HasEvent(d, "stop")
    BY <1>4 DEF confirmSession, rejectSession
  <2>2. alert[d] = Null
    BY <2>1, FoundFacts
  <2>3. faults' = [faults EXCEPT !.unshown = IF alert[d] = Null THEN faults.unshown
                                              ELSE faults.unshown \cup {d}]
    BY <1>4 DEF confirmSession, rejectSession, present
  <2>4. QED
    BY <1>1, <2>2, <2>3 DEF AllShown, Faults
<1>5. ASSUME NEW d \in Devices, startRecording(d) \/ observeValue(d) \/ Crash(d)
                                 \/ Disconnect(d) \/ Kill(d)
      PROVE  AllShown'
  <2>1. \/ faults' = [faults EXCEPT !.taps = @ + 1]
        \/ faults' = [faults EXCEPT !.unshown = @ \ {d}]
        \/ faults' = [faults EXCEPT !.disconnects = @ + 1]
        \/ \E u : faults' = [faults EXCEPT !.kills = @ + 1, !.unshown = @ \ {d}, !.lost = u]
    BY <1>5 DEF startRecording, observeValue, Crash, Disconnect, Kill
  <2>2. faults'.unshown = faults.unshown \/ faults'.unshown = faults.unshown \ {d}
    BY <1>1, <2>1 DEF Faults
  <2>3. QED
    BY <1>2, <2>2 DEF AllShown
<1>6. ASSUME NEW d \in Devices, User(d), ~startRecording(d)
      PROVE  UNCHANGED faults
  BY <1>6 DEF User, recordSession, Decline, CloseWarning, OpenHistory, CloseHistory
<1>7. ASSUME NEW d \in Devices, checkIn(d) \/ readSession(d)
      PROVE  UNCHANGED faults
  BY <1>7 DEF checkIn, readSession
<1>8. ASSUME NEW d \in Devices, Network(d)
      PROVE  UNCHANGED faults
  BY <1>8 DEF Network, TakeWrite, Hear, Reconnect
<1>9. UNCHANGED vars \/ Tick => UNCHANGED faults
  BY DEF vars, Tick
<1>10. QED
  BY <1>3, <1>4, <1>5, <1>6, <1>7, <1>8, <1>9 DEF Next, MainThread

\* After a step, too, the record to be is a record.
LEMMA NextTruthType ==
  ASSUME IInv'
  PROVE  Truth' \in Records
<1>1. PICK c : c = confirmed'
  OBVIOUS
<1>2. db' \in RecordsUnder(c) /\ pending' \in [Devices -> Seq(WritesUnder(c))]
  BY <1>1 DEF IInv, DataUnder, RecordsUnder, WritesUnder
<1>3. RecordsUnder(c) \subseteq Records /\ WritesUnder(c) \subseteq Writes
  BY DEF RecordsUnder, WritesUnder
<1>4. Seq(WritesUnder(c)) \subseteq Seq(Writes)
  BY <1>3, SeqMonotonic
<1>5. PICK r \in Records : r = db'
  BY <1>2, <1>3
<1>6. PICK p \in [Devices -> Seq(Writes)] : p = pending'
  BY <1>2, <1>4
<1>7. TruthOf(r, p) \in Records
  BY TruthOfType
<1>8. QED
  BY <1>5, <1>6, <1>7, TruthIs

\* The variables of StudyRecord.
RecordVars ==
  <<[k \in Entered(Truth) |-> [in |-> Truth[In(k)], out |-> Truth[Out(k)]]],
    Truth[TotalHours], Field(Truth, In(Next1(Truth)))>>

\* Every step of the phones is one of the promised record, or none.
LEMMA StepPromised ==
  ASSUME IInv, IInv', TurnsInv, Step
  PROVE  [Promised!Next]_RecordVars
<1>1. CASE Truth' = Truth
  BY <1>1 DEF RecordVars, Entered, Child, Field, Next1
<1>2. CASE Truth[NumSessions] < MaxTaps
  <2>1. Truth \in Records /\ Shape(Truth) /\ Truth' \in Records
    BY TruthFacts, NextTruthType
  <2>2. Truth' = Truth \/ Promised!Next
    BY <1>2, <2>1, MovedPromised DEF Step
  <2>3. QED
    BY <1>1, <2>2
<1>3. QED
  BY <1>1, <1>2 DEF Step

\* The invariant is inductive beside IInv, as long as no process dies with writes
\* the server has not taken.
LEMMA WaitingInductive ==
  ASSUME Users # "hasty"
  PROVE  IInv /\ WaitingInv /\ [Next]_vars /\ (faults.lost = {})' => IInv' /\ WaitingInv' /\ Step
<1> SUFFICES ASSUME IInv, WaitingInv, [Next]_vars, faults'.lost = {}
             PROVE  IInv' /\ WaitingInv' /\ Step
  OBVIOUS
<1>1. TurnsInv /\ AllShown /\ FollowInv
  BY DEF WaitingInv
<1>2. IInv' /\ FollowInv' /\ AllShown'
  BY <1>1, Inductive, NextFollows, NextShown
<1>3. ShowsSession
  BY <1>1, FollowsShows
<1>4. TurnsInv' /\ Step
  BY <1>1, <1>2, <1>3, NextInTurn
<1>5. QED
  BY <1>2, <1>4 DEF WaitingInv

\* A write that was lost stays lost.
LEMMA LostStays ==
  ASSUME IInv, [Next]_vars, faults'.lost = {}
  PROVE  faults.lost = {}
<1>1. faults \in Faults
  BY Typed DEF TypeOK, Faults
<1>2. CASE UNCHANGED faults
  BY <1>2
<1>3. ASSUME NEW d \in Devices, startRecording(d) \/ observeValue(d) \/ Crash(d) \/ Disconnect(d)
                                 \/ confirmSession(d) \/ rejectSession(d)
      PROVE  faults'.lost = faults.lost
  <2>1. \/ faults' = [faults EXCEPT !.taps = @ + 1]
        \/ \E u : faults' = [faults EXCEPT !.unshown = u]
        \/ faults' = [faults EXCEPT !.disconnects = @ + 1]
    BY <1>3 DEF startRecording, observeValue, Crash, Disconnect, confirmSession, rejectSession, present
  <2>2. QED
    BY <1>1, <2>1 DEF Faults
<1>4. ASSUME NEW d \in Devices, Kill(d)
      PROVE  faults.lost \subseteq faults'.lost
  <2>1. PICK u : u = IF taken[d] < Len(pending[d]) THEN faults.lost \cup {d} ELSE faults.lost
    OBVIOUS
  <2>2. faults'.lost = u
    BY <1>1, <1>4, <2>1 DEF Kill, Faults
  <2>3. QED
    BY <2>1, <2>2
<1>5. ASSUME NEW d \in Devices, User(d), ~startRecording(d)
      PROVE  UNCHANGED faults
  BY <1>5 DEF User, recordSession, Decline, CloseWarning, OpenHistory, CloseHistory
<1>6. ASSUME NEW d \in Devices, checkIn(d) \/ readSession(d)
      PROVE  UNCHANGED faults
  BY <1>6 DEF checkIn, readSession
<1>7. ASSUME NEW d \in Devices, Network(d)
      PROVE  UNCHANGED faults
  BY <1>7 DEF Network, TakeWrite, Hear, Reconnect
<1>8. UNCHANGED vars \/ Tick => UNCHANGED faults
  BY DEF vars, Tick
<1>9. QED
  BY <1>2, <1>3, <1>4, <1>5, <1>6, <1>7, <1>8 DEF Next, MainThread

LEMMA WaitingInit == Init => IInv /\ WaitingInv
<1>1. Init => AllShown
  BY DEF Init, AllShown
<1>2. QED
  BY <1>1, InitOK, InitInTurn, InitFollows DEF WaitingInv

-----------------------------------------------------------------------------
(* The theorems about the record.                                          *)

\* With users who tap only when every phone has caught up, the phones, their cached
\* reads, the writes sent again and the processes that crash, or die with every
\* write they had taken by the server, amount to the promised record: whatever order
\* everything arrives in, one session at a time is checked in, and ends entered under
\* the next number with its own hours, or dismissed.  A death that loses a write may
\* leave an entry cut short, see recordSession.
THEOREM RecordPromised ==
  ASSUME Users # "hasty"
  PROVE  Spec /\ [](faults.lost = {}) => RecordSpec
<1>1. Init => IInv /\ WaitingInv
  BY WaitingInit
<1>2. IInv /\ WaitingInv /\ [Next]_vars /\ (faults.lost = {})' => (IInv /\ WaitingInv)'
  BY WaitingInductive
<1>3. Init => Promised!Init
  BY InitPromised
<1>4. IInv /\ WaitingInv /\ [Next]_vars /\ (faults.lost = {})' => [Promised!Next]_RecordVars
  <2> SUFFICES ASSUME IInv, WaitingInv, [Next]_vars, (faults.lost = {})'
               PROVE  [Promised!Next]_RecordVars
    OBVIOUS
  <2>1. IInv' /\ Step /\ TurnsInv
    BY WaitingInductive DEF WaitingInv
  <2>2. QED
    BY <2>1, StepPromised
<1>5. QED
  BY <1>1, <1>2, <1>3, <1>4, PTL DEF Spec, RecordSpec, Promised!Spec, RecordVars

\* Users who look at the button besides never meet the crash of
\* `(value?["in"] as? Int64)!' before a death loses a write: the read of the session
\* to stop finds its check-in.  With users who only wait it may not.
THEOREM CarefulNeverCrashes ==
  ASSUME Users = "careful"
  PROVE  Spec => [](faults.lost = {} => StopFindsSession)
<1> DEFINE I == IInv /\ (faults.lost = {} => WaitingInv)
<1>1. Init => I
  BY WaitingInit
<1>2. I /\ [Next]_vars => I'
  BY WaitingInductive, Inductive, LostStays
<1>3. I => (faults.lost = {} => StopFindsSession)
  BY FoundFacts DEF StopFindsSession, WaitingInv
<1> HIDE DEF I
<1>4. QED
  BY <1>1, <1>2, <1>3, PTL DEF Spec

-----------------------------------------------------------------------------
(* The history.  Sessions that have ended stay as they are: a record of an  *)
(* earlier time, which the server, a message or a callback may still hold,  *)
(* has some of those of a later one.                                        *)

Ended(r, k) == r[Out(k)] # Null

Below(r, t) == \A k \in Keys : Ended(r, k) => r[In(k)] = t[In(k)] /\ r[Out(k)] = t[Out(k)]

\* No check-in is under way, or being removed, of a session that has ended.
Untouched == \A d \in Devices : \A i \in DOMAIN pending[d] : \A k \in Keys :
  In(k) \in pending[d][i].leaves => ~Ended(Truth, k)

Row(r, k) == [in |-> r[In(k)], out |-> r[Out(k)]]

Table(s, t) ==
  /\ DOMAIN s \subseteq Keys /\ s = [k \in DOMAIN s |-> Row(t, k)]
  /\ \A k \in DOMAIN s : Ended(t, k)

\* An open history has rows of ended sessions, and hears of earlier records only;
\* with nothing left to handle it has those of what the phone last heard.
Lists(d) ==
  /\ Calm(d) /\ heard[d] # Null
  /\ Below(heard[d], Truth)
  /\ \A i \in DOMAIN inbox[d] : Below(inbox[d][i].record, Truth)
  /\ \A i \in DOMAIN events[d] : Below(events[d][i].record, Truth)
  /\ Table(sessions[d], Truth)
  /\ events[d] = <<>> => \A k \in Keys : Ended(heard[d], k) => k \in DOMAIN sessions[d]

HistoryInv ==
  /\ Below(db, Truth) /\ Untouched
  /\ \A d \in Devices : sessions[d] # Null => Lists(d)

\* A record has its own sessions.
LEMMA BelowSelf == \A r : Below(r, r)
BY DEF Below

\* Earlier is transitive.
LEMMA BelowBelow ==
  ASSUME NEW r, NEW s, NEW t, Below(r, s), Below(s, t)
  PROVE  Below(r, t)
BY DEF Below, Ended

\* A move changes nothing of a session that has ended.
LEMMA MovedGrows ==
  ASSUME NEW r \in Records, NEW t, Shape(r), r[NumSessions] <= MaxTaps, Moved(r, t)
  PROVE  Below(r, t)
<1>1. Next1(r) \in Keys /\ r[Out(Next1(r))] = Null
  BY ShapeFacts
<1>2. SUFFICES ASSUME NEW k \in Keys, k # Next1(r)
               PROVE  r[In(k)] = t[In(k)] /\ r[Out(k)] = t[Out(k)]
  BY <1>1 DEF Below, Ended
<1>3. ASSUME NEW in \in Times, t = CheckedIn(r, in)
      PROVE  r[In(k)] = t[In(k)] /\ r[Out(k)] = t[Out(k)]
  BY <1>1, <1>2, <1>3, CheckedInFields
<1>4. ASSUME NEW out \in Times, t = Recorded(r, out)
      PROVE  r[In(k)] = t[In(k)] /\ r[Out(k)] = t[Out(k)]
  BY <1>1, <1>2, <1>4, RecordedFields
<1>5. ASSUME t = Dismissed(r)
      PROVE  r[In(k)] = t[In(k)] /\ r[Out(k)] = t[Out(k)]
  BY <1>1, <1>2, <1>5, DismissedFields
<1>6. QED
  BY <1>3, <1>4, <1>5 DEF Moved

\* What a step leaves of the record to be.
LEMMA StepGrows ==
  ASSUME IInv, TurnsInv, Step
  PROVE  Below(Truth, Truth')
<1>1. PICK r \in Records : r = Truth
  BY TruthFacts
<1>2. PICK t : t = Truth'
  OBVIOUS
<1>3. Shape(r) /\ r[NumSessions] <= MaxTaps
  BY <1>1, TruthFacts
<1>4. Moved(r, t)
  BY <1>1, <1>2 DEF Step
<1>5. Below(r, t)
  BY <1>3, <1>4, MovedGrows
<1>6. QED
  BY <1>1, <1>2, <1>5

\* The rows of an earlier record are those of a later one.
LEMMA TableGrows ==
  ASSUME NEW s, NEW t, NEW u, Table(s, t), Below(t, u)
  PROVE  Table(s, u)
<1>1. \A k \in DOMAIN s : k \in Keys /\ Ended(t, k)
  BY DEF Table
<1>2. \A k \in DOMAIN s : Row(u, k) = Row(t, k) /\ Ended(u, k)
  BY <1>1 DEF Below, Row, Ended
<1>3. QED
  BY <1>2 DEF Table

\* What a callback enters of a record.
LEMMA TableListed ==
  ASSUME NEW s, NEW t, Shape(t), t[NumSessions] \in Nat, NEW r, Table(s, t), Below(r, t)
  PROVE  /\ Table(Listed(s, r), t)
         /\ DOMAIN Listed(s, r) = DOMAIN s \cup {k \in Keys : Ended(r, k)}
<1> DEFINE ended == {k \in Keys : r[Out(k)] # Null}
           in(k) == IF r[In(k)] = Null THEN 0 ELSE r[In(k)]
           rows == [k \in DOMAIN s \cup ended |->
                      IF k \in ended THEN [in |-> in(k), out |-> r[Out(k)]] ELSE s[k]]
<1>1. Listed(s, r) = rows
  BY DEF Listed
<1>2. \A k \in ended : Ended(t, k) /\ r[In(k)] = t[In(k)] /\ r[Out(k)] = t[Out(k)] /\ t[In(k)] # Null
  <2> SUFFICES ASSUME NEW k \in ended
               PROVE  Ended(t, k) /\ r[In(k)] = t[In(k)] /\ r[Out(k)] = t[Out(k)] /\ t[In(k)] # Null
    OBVIOUS
  <2>1. Ended(t, k) /\ r[In(k)] = t[In(k)] /\ r[Out(k)] = t[Out(k)]
    BY DEF Below, Ended
  <2>2. k \in Nat
    BY LeafFacts
  <2>3. k <= t[NumSessions]
    BY <2>1, <2>2 DEF Shape, Ended
  <2>4. QED
    BY <2>1, <2>3 DEF Shape
<1>3. \A k \in ended : [in |-> in(k), out |-> r[Out(k)]] = Row(t, k)
  BY <1>2 DEF Row
<1>4. \A k \in DOMAIN s : s[k] = Row(t, k) /\ Ended(t, k) /\ k \in Keys
  BY DEF Table
<1>5. DOMAIN rows = DOMAIN s \cup ended
  OBVIOUS
<1>6. rows = [k \in DOMAIN s \cup ended |-> Row(t, k)]
  <2> HIDE DEF in, ended
  <2>1. \A k \in DOMAIN s \cup ended :
          (IF k \in ended THEN [in |-> in(k), out |-> r[Out(k)]] ELSE s[k]) = Row(t, k)
    BY <1>3, <1>4
  <2>2. QED
    BY <2>1
<1>7. \A k \in DOMAIN s \cup ended : Ended(t, k) /\ k \in Keys
  BY <1>2, <1>4
<1>8. Table(rows, t)
  <2> HIDE DEF rows, ended
  <2> QED BY <1>5, <1>6, <1>7 DEF Table
<1>9. ended = {k \in Keys : Ended(r, k)}
  BY DEF Ended
<1>10. QED
  BY <1>1, <1>5, <1>8, <1>9

-----------------------------------------------------------------------------
(* What a step of one phone leaves of it.                                   *)

\* A phone that does nothing keeps its history, whatever is sent to it.
LEMMA SameLists ==
  ASSUME NEW e, Lists(e), SameApp(e), sessions'[e] = sessions[e], heard'[e] = heard[e],
         Below(Truth, Truth'), \A i \in DOMAIN inbox'[e] : Below(inbox'[e][i].record, Truth')
  PROVE  Lists(e)'
<1>1. Calm(e)'
  BY SameCalm DEF Lists
<1>2. Below(heard'[e], Truth')
  BY BelowBelow DEF Lists
<1>3. \A i \in DOMAIN events'[e] : Below(events'[e][i].record, Truth')
  BY BelowBelow DEF Lists, SameApp
<1>4. Table(sessions'[e], Truth')
  BY TableGrows DEF Lists
<1>5. QED
  BY <1>1, <1>2, <1>3, <1>4 DEF Lists, SameApp

\* One phone steps.
LEMMA PhoneHistory ==
  ASSUME HistoryInv, NEW d \in Devices, Below(Truth, Truth'), Below(db', Truth'), Untouched',
         \A e \in Devices : e # d => SameApp(e) /\ SameClient(e) /\ sessions'[e] = sessions[e],
         sessions'[d] # Null => Lists(d)'
  PROVE  HistoryInv'
<1>1. ASSUME NEW e \in Devices, e # d, sessions'[e] # Null
      PROVE  Lists(e)'
  <2>1. Lists(e) /\ SameApp(e) /\ sessions'[e] = sessions[e] /\ heard'[e] = heard[e]
        /\ inbox'[e] = inbox[e]
    BY <1>1 DEF HistoryInv, SameClient
  <2>2. \A i \in DOMAIN inbox'[e] : Below(inbox'[e][i].record, Truth')
    BY <2>1, BelowBelow DEF Lists
  <2>3. QED
    BY <2>1, <2>2, SameLists
<1>2. QED
  BY <1>1 DEF HistoryInv

\* Nothing is written.
LEMMA QuietHistory ==
  ASSUME HistoryInv, NEW d \in Devices, db' = db, pending' = pending,
         \A e \in Devices : e # d => SameApp(e) /\ SameClient(e) /\ sessions'[e] = sessions[e],
         sessions'[d] # Null => Lists(d)'
  PROVE  HistoryInv'
<1>1. Truth' = Truth
  BY DEF Truth
<1>2. Below(Truth, Truth') /\ Below(db', Truth')
  BY <1>1, BelowSelf DEF HistoryInv
<1>3. Untouched'
  BY <1>1 DEF HistoryInv, Untouched
<1>4. QED
  BY <1>2, <1>3, PhoneHistory

\* A phone that decides has no history open.
LEMMA DecidingCloses ==
  ASSUME IInv, TurnsInv, HistoryInv, NEW d \in Devices, Deciding(d)
  PROVE  sessions[d] = Null
<1>1. ~Calm(d)
  BY DecidingBusy
<1>2. QED
  BY <1>1 DEF HistoryInv, Lists

\* A phone that decides writes, to no session that has ended.
LEMMA WriteHistory ==
  ASSUME IInv, IInv', TurnsInv, HistoryInv, Step, NEW d \in Devices, Deciding(d), db' = db,
         NEW q \in Seq(Writes), pending' = [pending EXCEPT ![d] = q],
         \A i \in DOMAIN q : \A k \in Keys :
           In(k) \in q[i].leaves => Under(db, q)[Out(k)] = Null,
         UNCHANGED <<sessions, taken, heard, inbox, waiting>>,
         \A e \in Devices : e # d => SameApp(e)
  PROVE  HistoryInv'
<1>1. /\ \A e \in Devices : pending[e] = <<>>
      /\ Truth = db /\ db \in Records
  BY DecidingFacts
<1>2. pending'[d] = q /\ \A e \in Devices : e # d => pending'[e] = <<>>
  BY <1>1, PageFacts
<1>3. Truth' = Under(db, q)
  <2>1. PICK p : p = pending'
    OBVIOUS
  <2>2. p[d] = q /\ \A e \in Devices : e # d => p[e] = <<>>
    BY <1>2, <2>1
  <2>3. TruthOf(db, p) = Under(db, p[d])
    <3>1. db \in Records
      BY <1>1
    <3>2. QED
      BY <2>2, <3>1, OneWriter
  <2>4. QED
    BY <2>1, <2>2, <2>3, TruthIs
<1>4. Untouched'
  <2> SUFFICES ASSUME NEW e \in Devices, NEW i \in DOMAIN pending'[e], NEW k \in Keys,
                      In(k) \in pending'[e][i].leaves
               PROVE  Truth'[Out(k)] = Null
    BY DEF Untouched, Ended
  <2>1. CASE e = d
    BY <1>2, <1>3, <2>1
  <2>2. CASE e # d
    BY <1>2, <2>2
  <2>3. QED
    BY <2>1, <2>2
<1>5. Below(Truth, Truth') /\ Below(db', Truth')
  BY <1>1, StepGrows
<1>6. sessions'[d] = Null
  BY DecidingCloses
<1>7. \A e \in Devices : e # d => SameApp(e) /\ SameClient(e) /\ sessions'[e] = sessions[e]
  BY DEF SameClient
<1>8. QED
  BY <1>4, <1>5, <1>6, <1>7, PhoneHistory

\* Types after a step.
LEMMA NextPending ==
  ASSUME IInv', NEW d \in Devices
  PROVE  pending'[d] \in Seq(Writes)
<1>1. PICK c : c = confirmed'
  OBVIOUS
<1>2. pending'[d] \in Seq(WritesUnder(c))
  BY <1>1 DEF IInv, DataUnder, WritesUnder
<1>3. WritesUnder(c) \subseteq Writes
  BY DEF WritesUnder
<1>4. QED
  BY <1>2, <1>3, SeqMonotonic

\* Types after a step.
LEMMA NextInbox ==
  ASSUME IInv', NEW d \in Devices
  PROVE  inbox'[d] \in Seq(Messages)
<1>1. PICK c : c = confirmed'
  OBVIOUS
<1>2. inbox'[d] \in Seq(MessagesUnder(c))
  BY <1>1 DEF IInv, DataUnder, MessagesUnder, RecordsUnder
<1>3. MessagesUnder(c) \subseteq Messages
  BY DEF MessagesUnder, Messages, RecordsUnder
<1>4. QED
  BY <1>2, <1>3, SeqMonotonic

\* The actions of a phone that decides: it has no history open.
LEMMA startRecordingHistory ==
  ASSUME IInv, HistoryInv, NEW d \in Devices, startRecording(d)
  PROVE  HistoryInv'
<1>1. /\ sessions[d] = Null
      /\ recording' = [recording EXCEPT ![d] = ~@]
      /\ \/ waiting' = [waiting EXCEPT ![d] = @ + 1] /\ UNCHANGED events
         \/ events' = [events EXCEPT ![d] = Append(@, TapRead(View(d)))] /\ UNCHANGED waiting
      /\ UNCHANGED <<db, pending, taken, inbox, heard, screen, alert, sessions>>
  BY DEF startRecording, server
<1>2. waiting \in [Devices -> Nat]
  BY Typed DEF TypeOK
<1>3. \A e \in Devices : e # d => SameApp(e) /\ SameClient(e) /\ sessions'[e] = sessions[e]
  BY <1>1, <1>2, PageFacts DEF SameApp, SameClient
<1>4. QED
  BY <1>1, <1>3, QuietHistory

\* recordSession writes no check-in.
LEMMA recordSessionHistory ==
  ASSUME IInv, IInv', TurnsInv, HistoryInv, Step, NEW d \in Devices, recordSession(d)
  PROVE  HistoryInv'
<1> DEFINE a == alert[d]
           num == Set(NumSessions, a.n + 1)
           out == Set(Out(a.n + 1), a.out)
           tot == Set(TotalHours, NewTotal(a))
<1>1. /\ a # Null /\ a.type = "confirm"
      /\ alert' = [alert EXCEPT ![d] = Null]
      /\ pending' = [pending EXCEPT ![d] = pending[d] \o <<num, out, tot>>]
      /\ events' = [events EXCEPT ![d] = events[d] \o SetEvents3(View(d), num, out, tot)]
      /\ UNCHANGED <<db, taken, inbox, heard, waiting, recording, screen, sessions>>
  BY DEF recordSession, server
<1>2. Deciding(d) /\ pending[d] = <<>>
  BY <1>1, QuestionIsConfirming DEF Deciding
<1>3. num.leaves = {NumSessions} /\ out.leaves = {Out(a.n + 1)} /\ tot.leaves = {TotalHours}
  BY DEF Set
<1>4. \A e \in Devices : e # d => SameApp(e)
  BY <1>1, PageFacts DEF SameApp
<1> HIDE DEF num, out, tot
<1>5. PICK q : q = <<num, out, tot>>
  OBVIOUS
<1>6. <<>> \o q = q
  BY <1>5
<1>7. pending'[d] = q /\ pending' = [pending EXCEPT ![d] = q]
  BY <1>1, <1>2, <1>5, <1>6, PageFacts
<1>8. q \in Seq(Writes)
  BY <1>7, NextPending
<1>9. \A i \in DOMAIN q : \A k \in Keys : In(k) \notin q[i].leaves
  <2> TAKE i \in DOMAIN q
  <2> TAKE k \in Keys
  <2>1. q[i] \in {num, out, tot}
    BY <1>5
  <2>2. In(k) # NumSessions /\ In(k) # TotalHours /\ In(k) # Out(a.n + 1)
    BY SessionLeaves
  <2>3. QED
    BY <1>3, <2>1, <2>2
<1>10. QED
  BY <1>1, <1>2, <1>4, <1>7, <1>8, <1>9, WriteHistory

\* A dismissal removes the check-in of a session that has not ended.
LEMMA DismissHistory ==
  ASSUME IInv, IInv', TurnsInv, HistoryInv, Step, NEW d \in Devices, Deciding(d),
         NEW es, dismissSession(d, db[NumSessions], es),
         UNCHANGED <<db, taken, inbox, heard, waiting, recording, screen, sessions>>,
         \A e \in Devices : e # d => alert'[e] = alert[e]
  PROVE  HistoryInv'
<1>1. /\ db \in Records /\ Shape(db) /\ db[NumSessions] <= MaxTaps
      /\ pending[d] = <<>> /\ db[NumSessions] \in Nat
  BY DecidingFacts, ConstantsOK DEF Deciding
<1>2. PICK w : w = Remove(Next1(db))
  OBVIOUS
<1>3. /\ pending' = [pending EXCEPT ![d] = Append(pending[d], w)]
      /\ events' = [events EXCEPT ![d] = es \o SetEvents(View(d), w)]
  BY <1>2 DEF dismissSession, Next1
<1>4. PICK q : q = <<w>>
  OBVIOUS
<1>5. pending'[d] = q /\ pending' = [pending EXCEPT ![d] = q]
  BY <1>1, <1>3, <1>4, PageFacts
<1>6. q \in Seq(Writes)
  BY <1>5, NextPending
<1>7. w.leaves = {In(Next1(db)), Out(Next1(db))} /\ w.val = Null
  BY <1>2 DEF Remove
<1>8. \A i \in DOMAIN q : \A k \in Keys :
        In(k) \in q[i].leaves => Under(db, q)[Out(k)] = Null
  <2> SUFFICES ASSUME NEW i \in DOMAIN q, NEW k \in Keys, In(k) \in q[i].leaves
               PROVE  Under(db, q)[Out(k)] = Null
    OBVIOUS
  <2>1. q[i] = w
    BY <1>4
  <2>2. k = Next1(db) /\ Out(k) \in Leaves
    BY <1>7, <2>1, SessionLeaves
  <2>3. Apart(q)
    BY <1>4, ApartOne
  <2>4. QED
    BY <1>6, <1>7, <2>1, <2>2, <2>3, UnderApart
<1>9. \A e \in Devices : e # d => SameApp(e)
  BY <1>3, PageFacts DEF SameApp
<1>10. QED
  BY <1>5, <1>6, <1>8, <1>9, WriteHistory

\* No.
LEMMA DeclineHistory ==
  ASSUME IInv, IInv', TurnsInv, HistoryInv, Step, NEW d \in Devices, Decline(d)
  PROVE  HistoryInv'
<1>1. /\ alert[d] # Null /\ alert[d].type = "confirm"
      /\ alert' = [alert EXCEPT ![d] = Null]
      /\ dismissSession(d, alert[d].n, events[d])
      /\ UNCHANGED <<db, taken, inbox, heard, waiting, recording, screen, sessions>>
  BY DEF Decline, server
<1>2. Deciding(d) /\ alert[d].n = db[NumSessions]
  <2>1. Deciding(d) /\ Confirming(d)
    BY <1>1, QuestionIsConfirming
  <2>2. PICK out \in Times : alert[d] = Question(db, out)
    BY <2>1 DEF Confirming
  <2>3. QED
    BY <2>1, <2>2 DEF Question
<1>3. dismissSession(d, db[NumSessions], events[d])
  BY <1>1, <1>2
<1>4. \A e \in Devices : e # d => alert'[e] = alert[e]
  BY <1>1, PageFacts
<1>5. QED
  BY <1>1, <1>2, <1>3, <1>4, DismissHistory

\* A short session.
LEMMA rejectSessionHistory ==
  ASSUME IInv, IInv', TurnsInv, HistoryInv, Step, NEW d \in Devices, rejectSession(d)
  PROVE  HistoryInv'
<1>1. /\ HasEvent(d, "stop") /\ present(d, [type |-> "warning"])
      /\ dismissSession(d, Head(events[d]).n, Tail(events[d]))
      /\ UNCHANGED <<db, taken, inbox, heard, waiting, recording, screen, sessions>>
  BY DEF rejectSession, server
<1>2. Deciding(d) /\ Head(events[d]).n = db[NumSessions]
  BY <1>1, FoundFacts
<1>3. dismissSession(d, db[NumSessions], Tail(events[d]))
  BY <1>1, <1>2
<1>4. \A e \in Devices : e # d => alert'[e] = alert[e]
  BY <1>1, PageFacts DEF present
<1>5. QED
  BY <1>1, <1>2, <1>3, <1>4, DismissHistory

\* A check-in is written for a session that has not ended.
LEMMA checkInHistory ==
  ASSUME IInv, IInv', TurnsInv, HistoryInv, Step, NEW d \in Devices, checkIn(d)
  PROVE  HistoryInv'
<1> DEFINE e == Head(events[d])
<1>1. PICK w : w = Set(In(e.n + 1), now)
  OBVIOUS
<1>2. /\ HasEvent(d, "tap")
      /\ pending' = [pending EXCEPT ![d] = Append(pending[d], w)]
      /\ events' = [events EXCEPT ![d] = Tail(events[d]) \o SetEvents(View(d), w)]
      /\ screen' = [screen EXCEPT ![d] = [title |-> "Stop", checkIn |-> now]]
      /\ UNCHANGED <<db, taken, inbox, heard, waiting, recording, alert, sessions>>
  BY <1>1 DEF checkIn, updateScreen, server
<1>3. Deciding(d) /\ Asked(d) /\ pending[d] = <<>>
  BY <1>2, TapIsAsked DEF Deciding
<1>4. /\ db \in Records /\ Shape(db) /\ db[NumSessions] <= MaxTaps
  BY <1>3, DecidingFacts, ConstantsOK
<1>5. e.n + 1 = Next1(db)
  <2>1. PICK x : x = TapRead(db)
    OBVIOUS
  <2>2. events[d] = <<x>>
    BY <1>3, <2>1 DEF Asked
  <2>3. Head(events[d]) = x
    BY <2>2
  <2>4. QED
    BY <2>1, <2>3 DEF TapRead, Next1
<1>6. w.leaves = {In(Next1(db))}
  BY <1>1, <1>5 DEF Set
<1>7. PICK q : q = <<w>>
  OBVIOUS
<1>8. pending'[d] = q /\ pending' = [pending EXCEPT ![d] = q]
  BY <1>2, <1>3, <1>7, PageFacts
<1>9. q \in Seq(Writes)
  BY <1>8, NextPending
<1>10. \A i \in DOMAIN q : \A k \in Keys :
         In(k) \in q[i].leaves => Under(db, q)[Out(k)] = Null
  <2> SUFFICES ASSUME NEW i \in DOMAIN q, NEW k \in Keys, In(k) \in q[i].leaves
               PROVE  Under(db, q)[Out(k)] = Null
    OBVIOUS
  <2>1. \A j \in DOMAIN q : q[j] = w
    BY <1>7
  <2>2. k = Next1(db) /\ Out(k) \in Leaves
    BY <1>6, <2>1, SessionLeaves
  <2>3. \A j \in DOMAIN q : Out(k) \notin q[j].leaves
    BY <1>6, <2>1, <2>2, SessionLeaves
  <2>4. Apart(q)
    BY <1>7, ApartOne
  <2>5. Under(db, q)[Out(k)] = db[Out(k)]
    BY <1>9, <2>2, <2>3, <2>4, UnderApart
  <2>6. QED
    BY <1>4, <2>2, <2>5, ShapeFacts
<1>11. \A p \in Devices : p # d => SameApp(p)
  BY <1>2, PageFacts DEF SameApp
<1>12. QED
  BY <1>2, <1>3, <1>8, <1>9, <1>10, <1>11, WriteHistory

\* The reads and the question write nothing.
LEMMA readSessionHistory ==
  ASSUME IInv, TurnsInv, HistoryInv, NEW d \in Devices, readSession(d)
  PROVE  HistoryInv'
<1> DEFINE e == Head(events[d])
           s == StopRead(e.n, e.total, Field(View(d), In(e.n + 1)))
<1>1. /\ HasEvent(d, "tap")
      /\ events' = [events EXCEPT ![d] = Append(Tail(events[d]), s)]
      /\ screen' = [screen EXCEPT ![d] = [title |-> "Start", checkIn |-> Null]]
      /\ UNCHANGED <<db, pending, taken, inbox, heard, waiting, recording, alert, sessions>>
  BY DEF readSession, updateScreen, server, client
<1> HIDE DEF s
<1>2. sessions[d] = Null
  BY <1>1, TapIsAsked, DecidingCloses
<1>3. \A p \in Devices : p # d => SameApp(p) /\ SameClient(p) /\ sessions'[p] = sessions[p]
  BY <1>1, PageFacts DEF SameApp, SameClient
<1>4. QED
  BY <1>1, <1>2, <1>3, QuietHistory

\* The question.
LEMMA confirmSessionHistory ==
  ASSUME IInv, TurnsInv, HistoryInv, NEW d \in Devices, confirmSession(d)
  PROVE  HistoryInv'
<1> DEFINE e == Head(events[d])
           a == [type |-> "confirm", n |-> e.n, total |-> e.total,
                 interval |-> now - e.in, out |-> now]
<1>1. /\ HasEvent(d, "stop")
      /\ alert' = [alert EXCEPT ![d] = IF alert[d] = Null THEN a ELSE alert[d]]
      /\ events' = [events EXCEPT ![d] = Tail(events[d])]
      /\ UNCHANGED <<db, pending, taken, inbox, heard, waiting, recording, screen, sessions>>
  BY DEF confirmSession, present, server, client
<1> HIDE DEF a
<1>2. sessions[d] = Null
  BY <1>1, FoundFacts, DecidingCloses
<1>3. \A p \in Devices : p # d => SameApp(p) /\ SameClient(p) /\ sessions'[p] = sessions[p]
  BY <1>1, PageFacts DEF SameApp, SameClient
<1>4. QED
  BY <1>1, <1>2, <1>3, QuietHistory

\* A record heard is entered; the last one is what the phone last heard.
LEMMA observeValueHistory ==
  ASSUME IInv, TurnsInv, TurnsInv', FollowInv, HistoryInv, NEW d \in Devices, observeValue(d)
  PROVE  HistoryInv'
<1> DEFINE r == Head(events[d]).record
           rec == recording[d] \/ Running(r)
<1>1. /\ events[d] # <<>> /\ Head(events[d]).type = "value"
      /\ events' = [events EXCEPT ![d] = Tail(events[d])]
      /\ recording' = [recording EXCEPT ![d] = rec]
      /\ screen' = [screen EXCEPT ![d] = [title |-> IF rec THEN "Stop" ELSE "Start",
                                          checkIn |-> IF rec THEN ShownIn(r) ELSE Null]]
      /\ sessions' = [sessions EXCEPT ![d] = IF sessions[d] = Null THEN Null
                                             ELSE Listed(sessions[d], r)]
      /\ UNCHANGED <<db, pending, taken, inbox, heard, waiting, alert>>
  BY DEF observeValue, HasEvent, updateScreen, server, client
<1>2. DOMAIN sessions = Devices
  BY Typed DEF TypeOK, TablesOK
<1>3. \A e \in Devices : e # d => SameApp(e) /\ SameClient(e) /\ sessions'[e] = sessions[e]
  <2> HIDE DEF rec, r
  <2> QED BY <1>1, <1>2, PageFacts DEF SameApp, SameClient
<1>4. ASSUME sessions'[d] # Null
      PROVE  Lists(d)'
  <2>1. sessions[d] # Null /\ sessions'[d] = Listed(sessions[d], r)
    BY <1>1, <1>2, <1>4
  <2>2. Lists(d)
    BY <2>1 DEF HistoryInv
  <2>3. events[d] \in Seq(Events) /\ events'[d] = Tail(events[d])
    BY <1>1, PageFacts
  <2>4. 1 \in DOMAIN events[d] /\ Head(events[d]) = events[d][1]
        /\ \A i \in DOMAIN Tail(events[d]) : i + 1 \in DOMAIN events[d]
                                             /\ Tail(events[d])[i] = events[d][i + 1]
    BY <1>1, <2>3, TailFacts
  <2>5. Below(r, Truth) /\ Table(sessions[d], Truth)
    BY <2>2, <2>4 DEF Lists
  <2>6. Shape(Truth) /\ Truth[NumSessions] \in Nat
    BY TruthFacts, RecordFacts
  <2>7. Truth' = Truth
    BY <1>1 DEF Truth
  <2>8. /\ Table(sessions'[d], Truth')
        /\ DOMAIN sessions'[d] = DOMAIN sessions[d] \cup {k \in Keys : Ended(r, k)}
    <3> HIDE DEF r
    <3> QED BY <2>1, <2>5, <2>6, <2>7, TableListed
  <2>9. Calm(d)'
    <3>1. OnlyValues(events'[d])
      BY <1>1, <2>2, <2>3, OnlyTail DEF Lists, Calm, Idle
    <3>2. QED
      BY <1>1, <2>2, <3>1 DEF Lists, Calm, Idle
  <2>10. \A i \in DOMAIN events'[d] : Below(events'[d][i].record, Truth')
    BY <2>2, <2>3, <2>4, <2>7 DEF Lists
  <2>11. ASSUME events'[d] = <<>>
         PROVE  r = heard[d]
    <3>1. heard[d] # Null /\ pending[d] = <<>>
      BY <2>2 DEF Lists, Calm
    <3>2. heard[d] \in Records
      BY <3>1, PageFacts
    <3>3. View(d) = heard[d]
      BY <3>1, <3>2, UnderNothing DEF View
    <3>4. Current(events[d], View(d))
      BY <3>1 DEF FollowInv, PhoneFollows
    <3>5. ~Has(Tail(events[d]), "value")
      <4>1. PICK t : t = Tail(events[d])
        OBVIOUS
      <4>2. t = <<>>
        BY <2>3, <2>11, <4>1
      <4>3. ~Has(t, "value")
        BY <4>2 DEF Has
      <4>4. QED
        BY <4>1, <4>3
    <3>6. QED
      BY <1>1, <2>3, <3>3, <3>4, <3>5, CurrentHead
  <2>12. events'[d] = <<>> => \A k \in Keys : Ended(heard'[d], k) => k \in DOMAIN sessions'[d]
    BY <1>1, <2>8, <2>11
  <2>13. QED
    BY <1>1, <2>2, <2>7, <2>8, <2>9, <2>10, <2>12 DEF Lists
<1>5. QED
  BY <1>1, <1>3, <1>4, QuietHistory

\* OK on a warning leaves the history as it is.
LEMMA CloseWarningHistory ==
  ASSUME IInv, HistoryInv, NEW d \in Devices, CloseWarning(d)
  PROVE  HistoryInv'
<1>1. /\ alert' = [alert EXCEPT ![d] = Null]
      /\ UNCHANGED <<db, pending, taken, inbox, heard, waiting, events, recording, screen, sessions>>
  BY DEF CloseWarning, server, client
<1>2. alert'[d] = Null /\ \A e \in Devices : e # d => alert'[e] = alert[e]
  BY <1>1, PageFacts
<1>3. Truth' = Truth
  BY <1>1 DEF Truth
<1>4. Calm(d) => Calm(d)'
  BY <1>1, <1>2 DEF Calm, Idle
<1>5. Lists(d) => Lists(d)'
  BY <1>1, <1>3, <1>4 DEF Lists
<1>6. sessions'[d] # Null => Lists(d)'
  BY <1>1, <1>5 DEF HistoryInv
<1>7. \A e \in Devices : e # d => SameApp(e) /\ SameClient(e) /\ sessions'[e] = sessions[e]
  BY <1>1, <1>2 DEF SameApp, SameClient
<1>8. QED
  BY <1>1, <1>6, <1>7, QuietHistory

\* The page opens when all is settled, with the sessions of the record.
LEMMA OpenHistoryHistory ==
  ASSUME IInv, TurnsInv, HistoryInv, NEW d \in Devices, OpenHistory(d)
  PROVE  HistoryInv'
<1>1. /\ sessions' = [sessions EXCEPT ![d] = Listed(<<>>, View(d))]
      /\ UNCHANGED <<db, pending, taken, inbox, heard, waiting, events, recording, screen, alert>>
  BY DEF OpenHistory, server, client
<1>2. /\ \A e \in Devices : pending[e] = <<>>
      /\ inbox[d] = <<>> /\ heard[d] = db /\ events[d] = <<>> /\ alert[d] = Null
  BY DEF OpenHistory, Settled, Caught
<1>3. /\ db \in Records /\ db # Null /\ Truth = db /\ Shape(Truth) /\ Truth[NumSessions] \in Nat
  BY <1>2, TruthFacts, RecordFacts
<1>4. View(d) = db
  BY <1>2, <1>3, UnderNothing DEF View
<1>5. Truth' = Truth
  BY <1>1 DEF Truth
<1>6. DOMAIN sessions = Devices
  BY Typed DEF TypeOK, TablesOK
<1>7. sessions'[d] = Listed(<<>>, db)
  BY <1>1, <1>4, <1>6
<1>8. Table(<<>>, Truth)
  BY DEF Table
<1>9. /\ Table(sessions'[d], Truth')
      /\ DOMAIN sessions'[d] = DOMAIN <<>> \cup {k \in Keys : Ended(db, k)}
  <2>1. PICK s : s = <<>>
    OBVIOUS
  <2>2. Table(s, Truth)
    BY <1>8, <2>1
  <2>3. Below(db, Truth)
    BY <1>3, BelowSelf
  <2>4. Table(Listed(s, db), Truth) /\ DOMAIN Listed(s, db) = DOMAIN s \cup {k \in Keys : Ended(db, k)}
    BY <1>3, <2>2, <2>3, TableListed
  <2>5. QED
    BY <1>5, <1>7, <2>1, <2>4
<1>10. Calm(d)'
  BY <1>1, <1>2 DEF Calm, Idle, OnlyValues
<1>11. Lists(d)'
  BY <1>1, <1>2, <1>3, <1>5, <1>9, <1>10, BelowSelf DEF Lists
<1>12. \A e \in Devices : e # d => SameApp(e) /\ SameClient(e) /\ sessions'[e] = sessions[e]
  BY <1>1, <1>6 DEF SameApp, SameClient
<1>13. QED
  BY <1>1, <1>11, <1>12, QuietHistory

\* Back.
LEMMA CloseHistoryHistory ==
  ASSUME IInv, HistoryInv, NEW d \in Devices, CloseHistory(d)
  PROVE  HistoryInv'
<1>1. /\ sessions' = [sessions EXCEPT ![d] = Null]
      /\ UNCHANGED <<db, pending, taken, inbox, heard, waiting, events, recording, screen, alert>>
  BY DEF CloseHistory, server, client
<1>2. DOMAIN sessions = Devices
  BY Typed DEF TypeOK, TablesOK
<1>3. sessions'[d] = Null
  BY <1>1, <1>2
<1>4. \A e \in Devices : e # d => SameApp(e) /\ SameClient(e) /\ sessions'[e] = sessions[e]
  BY <1>1, <1>2 DEF SameApp, SameClient
<1>5. QED
  BY <1>1, <1>3, <1>4, QuietHistory

\* The server takes a write: what it then has, and tells, is of the record to be.
LEMMA TakeWriteHistory ==
  ASSUME IInv, IInv', TurnsInv, HistoryInv, NEW d \in Devices, TakeWrite(d)
  PROVE  HistoryInv'
<1> DEFINE q == pending[d]
           n == taken[d] + 1
           told(e) == [record |-> db', ack |-> e = d]
<1>1. /\ taken[d] < Len(q) /\ db' = Apply(db, q[n])
      /\ inbox' = [e \in Devices |-> IF conn[e] THEN Append(inbox[e], told(e)) ELSE inbox[e]]
      /\ UNCHANGED <<pending, heard, events, recording, screen, alert, sessions>>
  BY DEF TakeWrite, app
<1>2. Truth' = Truth
  BY TakeWriteInTurn
<1>3. q \in Seq(Writes) /\ taken[d] \in Nat /\ Len(q) \in Nat
  BY PageFacts, NetworkKept
<1>4. n \in DOMAIN q /\ q # <<>>
  <2> HIDE DEF q
  <2> QED BY <1>1, <1>3, LenProperties
<1>5. ~Calm(d) /\ Apart(q)
  BY <1>4 DEF TurnsInv, PhoneInTurn, Calm, Deciding, Writing
<1>6. \A e \in Devices : e # d => pending[e] = <<>>
  BY <1>5, Alone
<1>7. Truth = Under(db, q)
  BY <1>6, TruthFacts
<1>8. Below(db', Truth)
  <2> SUFFICES ASSUME NEW k \in Keys, db'[Out(k)] # Null
               PROVE  db'[In(k)] = Truth[In(k)] /\ db'[Out(k)] = Truth[Out(k)]
    BY DEF Below, Ended
  <2>1. In(k) \in Leaves /\ Out(k) \in Leaves
    BY SessionLeaves
  <2>2. \A l \in Leaves : db'[l] = IF l \in q[n].leaves THEN q[n].val ELSE db[l]
    BY <1>1 DEF Apply
  <2>3. \A l \in Leaves : l \in q[n].leaves => db'[l] = Truth[l]
    <3> HIDE DEF q, n
    <3> QED BY <1>3, <1>4, <1>5, <1>7, <2>2, UnderApart
  <2>4. CASE Out(k) \in q[n].leaves
    <3>1. db'[Out(k)] = Truth[Out(k)] /\ Ended(Truth, k)
      BY <2>1, <2>3, <2>4 DEF Ended
    <3>2. \A i \in DOMAIN q : In(k) \notin q[i].leaves
      BY <3>1 DEF HistoryInv, Untouched
    <3>3. Truth[In(k)] = db[In(k)]
      <4> HIDE DEF q
      <4> QED BY <1>3, <1>5, <1>7, <2>1, <3>2, UnderApart
    <3>4. db'[In(k)] = db[In(k)]
      BY <1>4, <2>1, <2>2, <3>2
    <3>5. QED
      BY <3>1, <3>3, <3>4
  <2>5. CASE Out(k) \notin q[n].leaves
    <3>1. db'[Out(k)] = db[Out(k)]
      BY <2>1, <2>2, <2>5
    <3>2. db[Out(k)] = Truth[Out(k)] /\ db[In(k)] = Truth[In(k)]
      BY <3>1 DEF HistoryInv, Below, Ended
    <3>3. db'[In(k)] = Truth[In(k)]
      BY <2>1, <2>2, <2>3, <3>2
    <3>4. QED
      BY <3>1, <3>2, <3>3
  <2>6. QED
    BY <2>4, <2>5
<1>9. Untouched'
  BY <1>1, <1>2 DEF HistoryInv, Untouched
<1>10. ASSUME NEW e \in Devices, sessions'[e] # Null
       PROVE  Lists(e)'
  <2>1. Lists(e)
    BY <1>1, <1>10 DEF HistoryInv
  <2>2. SameApp(e) /\ heard'[e] = heard[e] /\ sessions'[e] = sessions[e]
    BY <1>1 DEF SameApp
  <2>3. PICK m : m = told(e)
    OBVIOUS
  <2>4. m.record = db'
    BY <2>3
  <2>5. inbox'[e] = Append(inbox[e], m) \/ inbox'[e] = inbox[e]
    BY <1>1, <2>3
  <2>6. inbox[e] \in Seq(Messages) /\ inbox'[e] \in Seq(Messages)
    BY NextInbox, Typed DEF TypeOK
  <2>7. \A i \in DOMAIN inbox'[e] : inbox'[e][i] = m \/ (i \in DOMAIN inbox[e] /\ inbox'[e][i] = inbox[e][i])
    <3>1. CASE inbox'[e] = inbox[e]
      BY <3>1
    <3>2. CASE inbox'[e] = Append(inbox[e], m)
      <4>1. PICK s \in Seq(Messages) : s = inbox[e]
        BY <2>6
      <4>2. DOMAIN s = 1..Len(s) /\ Len(s) \in Nat /\ DOMAIN Append(s, m) = 1..(Len(s) + 1)
            /\ Append(s, m)[Len(s) + 1] = m /\ \A i \in 1..Len(s) : Append(s, m)[i] = s[i]
        OBVIOUS
      <4>3. \A i \in 1..(Len(s) + 1) : i = Len(s) + 1 \/ i \in 1..Len(s)
        BY <4>2
      <4>4. QED
        BY <3>2, <4>1, <4>2, <4>3
    <3>3. QED
      BY <2>5, <3>1, <3>2
  <2>8. \A i \in DOMAIN inbox'[e] : Below(inbox'[e][i].record, Truth')
    <3> TAKE i \in DOMAIN inbox'[e]
    <3>1. CASE inbox'[e][i] = m
      BY <1>2, <1>8, <2>4, <3>1
    <3>2. CASE i \in DOMAIN inbox[e] /\ inbox'[e][i] = inbox[e][i]
      BY <1>2, <2>1, <3>2 DEF Lists
    <3>3. QED
      BY <2>7, <3>1, <3>2
  <2>9. Below(Truth, Truth')
    BY <1>2, BelowSelf
  <2>10. QED
    BY <2>1, <2>2, <2>8, <2>9, SameLists
<1>11. QED
  BY <1>2, <1>8, <1>9, <1>10 DEF HistoryInv

\* What is heard is of the record to be, and queued for the listener if it is new.
LEMMA HearHistory ==
  ASSUME IInv, IInv', TurnsInv, TurnsInv', HistoryInv, NEW d \in Devices, Hear(d)
  PROVE  HistoryInv'
<1> DEFINE m == Head(inbox[d])
           q == IF m.ack THEN Tail(pending[d]) ELSE pending[d]
           new == Under(m.record, q)
           es == IF heard[d] = Null THEN <<Value(new)>> \o [i \in 1..waiting[d] |-> TapRead(new)]
                 ELSE Raised(View(d), new)
<1>1. /\ inbox[d] # <<>>
      /\ inbox' = [inbox EXCEPT ![d] = Tail(inbox[d])]
      /\ heard' = [heard EXCEPT ![d] = m.record]
      /\ pending' = [pending EXCEPT ![d] = q]
      /\ waiting' = [waiting EXCEPT ![d] = 0]
      /\ events' = [events EXCEPT ![d] = events[d] \o es]
      /\ UNCHANGED <<db, recording, screen, alert, sessions>>
      /\ \E t : taken' = [taken EXCEPT ![d] = t]
  BY DEF Hear, server
<1>2. Truth' = Truth
  BY HearInTurn
<1>3. /\ taken \in [Devices -> Nat] /\ inbox \in [Devices -> Seq(Messages)]
      /\ pending \in [Devices -> Seq(Writes)] /\ waiting \in [Devices -> Nat]
      /\ events \in [Devices -> Seq(Events)] /\ DOMAIN heard = Devices
  BY Typed, PageFacts DEF TypeOK
<1>4. m \in Messages /\ new \in Records
  BY <1>1, <1>3, TailFacts, HearType
<1>5. m.ack => pending[d] # <<>>
  BY <1>1, AckFacts
<1> HIDE DEF m, new
<1>6. events'[d] = events[d] \o es /\ pending'[d] = q /\ heard'[d] = m.record
      /\ inbox'[d] = Tail(inbox[d])
  <2> HIDE DEF es, q
  <2> QED BY <1>1, <1>3
<1>7. \A e \in Devices : e # d =>
        /\ SameApp(e) /\ heard'[e] = heard[e] /\ inbox'[e] = inbox[e] /\ waiting'[e] = waiting[e]
        /\ taken'[e] = taken[e] /\ sessions'[e] = sessions[e]
  <2> HIDE DEF es, q
  <2> QED BY <1>1, <1>3 DEF SameApp
<1>8. Untouched'
  <2> SUFFICES ASSUME NEW e \in Devices, NEW i \in DOMAIN pending'[e], NEW k \in Keys,
                      In(k) \in pending'[e][i].leaves
               PROVE  ~Ended(Truth, k)
    BY <1>2 DEF Untouched, Ended
  <2>1. \E j \in DOMAIN pending[e] : pending[e][j] = pending'[e][i]
    <3>1. CASE e # d
      BY <1>7, <3>1 DEF SameApp
    <3>2. CASE e = d /\ ~m.ack
      BY <1>6, <3>2
    <3>3. CASE e = d /\ m.ack
      <4>1. pending'[e] = Tail(pending[d]) /\ pending[d] # <<>> /\ pending[d] \in Seq(Writes)
        BY <1>3, <1>5, <1>6, <3>3
      <4>2. PICK p \in Seq(Writes) : p = pending[d]
        BY <4>1
      <4>3. \A j \in DOMAIN Tail(p) : j + 1 \in DOMAIN p /\ Tail(p)[j] = p[j + 1]
        BY <4>1, <4>2, TailFacts
      <4>4. QED
        BY <3>3, <4>1, <4>2, <4>3
    <3>4. QED
      BY <3>1, <3>2, <3>3
  <2>2. QED
    BY <2>1 DEF HistoryInv, Untouched
<1>9. ASSUME sessions'[d] # Null
      PROVE  Lists(d)'
  <2>1. sessions[d] # Null /\ sessions'[d] = sessions[d] /\ Lists(d)
    BY <1>1, <1>9 DEF HistoryInv
  <2>2. heard[d] # Null /\ pending[d] = <<>> /\ ~m.ack /\ q = <<>> /\ waiting[d] = 0
    <3>1. heard[d] # Null /\ pending[d] = <<>>
      BY <2>1 DEF Lists, Calm
    <3>2. waiting[d] = 0
      BY DEF TurnsInv, PhoneInTurn
    <3>3. QED
      BY <1>5, <3>1, <3>2
  <2>3. m.record \in Records /\ new = m.record
    <3>1. m.record \in Records
      BY <1>4 DEF Messages
    <3>2. QED
      BY <2>2, <3>1, UnderNothing DEF new
  <2>4. View(d) = heard[d]
    <3>1. heard[d] \in Records
      BY <2>2, PageFacts
    <3>2. QED
      BY <2>2, <3>1, UnderNothing DEF View
  <2>5. es = Raised(heard[d], m.record)
    BY <2>2, <2>3, <2>4
  <2>6. 1 \in DOMAIN inbox[d] /\ m = inbox[d][1]
        /\ \A i \in DOMAIN Tail(inbox[d]) : i + 1 \in DOMAIN inbox[d] /\ Tail(inbox[d])[i] = inbox[d][i + 1]
    BY <1>1, <1>3, TailFacts DEF m
  <2>7. Below(m.record, Truth')
    BY <1>2, <2>1, <2>6 DEF Lists
  <2>8. \A i \in DOMAIN inbox'[d] : Below(inbox'[d][i].record, Truth')
    BY <1>2, <1>6, <2>1, <2>6 DEF Lists
  <2>9. CASE heard[d] = m.record
    <3>1. es = <<>>
      BY <2>5, <2>9 DEF Raised
    <3>2. events[d] \o <<>> = events[d]
      BY <1>3
    <3>3. events'[d] = events[d]
      BY <1>6, <3>1, <3>2
    <3>4. Calm(d)'
      BY <1>1, <1>6, <2>1, <2>2, <3>3 DEF Lists, Calm, Idle
    <3>5. QED
      BY <1>1, <1>2, <1>6, <2>1, <2>7, <2>8, <2>9, <3>3, <3>4 DEF Lists
  <2>10. CASE heard[d] # m.record
    <3>0. Value(m.record).type = "value" /\ Value(m.record).record = m.record
      BY DEF Value
    <3>1. PICK v : v = Value(m.record) /\ v.type = "value" /\ v.record = m.record
      BY <3>0
    <3>2. v \in Events
      BY <2>3, <3>1 DEF Value, Events
    <3>3. es = <<v>>
      BY <2>5, <2>10, <3>1 DEF Raised
    <3>4. PICK s \in Seq(Events) : s = events[d]
      BY <1>3
    <3>5. events'[d] = s \o <<v>>
      BY <1>6, <3>3, <3>4
    <3>6. /\ DOMAIN (s \o <<v>>) = 1..(Len(s) + 1) /\ Len(s) \in Nat /\ DOMAIN s = 1..Len(s)
          /\ (s \o <<v>>)[Len(s) + 1] = v /\ \A i \in 1..Len(s) : (s \o <<v>>)[i] = s[i]
      OBVIOUS
    <3>7. \A i \in DOMAIN events'[d] : events'[d][i] = v \/ (i \in DOMAIN s /\ events'[d][i] = s[i])
      <4>1. \A i \in 1..(Len(s) + 1) : i = Len(s) + 1 \/ i \in 1..Len(s)
        BY <3>6
      <4>2. QED
        BY <3>5, <3>6, <4>1
    <3>8. events'[d] # <<>>
      <4>1. 1 \in DOMAIN (s \o <<v>>)
        BY <3>6
      <4>2. QED
        BY <3>5, <4>1
    <3>9. \A i \in DOMAIN events'[d] : Below(events'[d][i].record, Truth') /\ events'[d][i].type = "value"
      BY <1>2, <2>1, <2>7, <3>1, <3>4, <3>7 DEF Lists, Calm, Idle, OnlyValues
    <3>10. Calm(d)'
      BY <1>1, <1>6, <2>1, <2>2, <3>9 DEF Lists, Calm, Idle, OnlyValues
    <3>11. m.record # Null
      BY <2>3, NullOK
    <3>12. QED
      BY <1>1, <1>2, <1>6, <2>1, <2>7, <2>8, <3>8, <3>9, <3>10, <3>11 DEF Lists
  <2>11. QED
    BY <2>9, <2>10
<1>10. Below(Truth, Truth') /\ Below(db', Truth')
  BY <1>1, <1>2, BelowSelf DEF HistoryInv
<1>11. \A e \in Devices : e # d => SameApp(e) /\ SameClient(e) /\ sessions'[e] = sessions[e]
  BY <1>7 DEF SameClient
<1>12. QED
  BY <1>8, <1>9, <1>10, <1>11, PhoneHistory

\* What was on the way is lost: fewer records are to be heard.
LEMMA DisconnectHistory ==
  ASSUME IInv, HistoryInv, NEW d \in Devices, Disconnect(d)
  PROVE  HistoryInv'
<1>1. /\ taken' = [taken EXCEPT ![d] = 0]
      /\ inbox' = [inbox EXCEPT ![d] = <<>>]
      /\ UNCHANGED <<db, pending, heard, waiting, events, recording, screen, alert, sessions>>
  BY DEF Disconnect, server, app
<1>2. taken \in [Devices -> Nat] /\ inbox \in [Devices -> Seq(Messages)]
  BY Typed DEF TypeOK
<1>3. inbox'[d] = <<>> /\ Truth' = Truth
  BY <1>1, <1>2 DEF Truth
<1>4. Lists(d) => Lists(d)'
  BY <1>1, <1>3 DEF Lists, Calm, Idle
<1>5. sessions'[d] # Null => Lists(d)'
  BY <1>1, <1>4 DEF HistoryInv
<1>6. \A e \in Devices : e # d => SameApp(e) /\ SameClient(e) /\ sessions'[e] = sessions[e]
  BY <1>1, <1>2 DEF SameApp, SameClient
<1>7. QED
  BY <1>1, <1>5, <1>6, QuietHistory

\* The answer of the listen is of the record as it is.
LEMMA ReconnectHistory ==
  ASSUME IInv, HistoryInv, NEW d \in Devices, Reconnect(d)
  PROVE  HistoryInv'
<1> DEFINE m == [record |-> db, ack |-> FALSE]
<1>1. /\ inbox' = [inbox EXCEPT ![d] = <<m>>]
      /\ UNCHANGED <<db, pending, taken, heard, waiting, events, recording, screen, alert, sessions>>
  BY DEF Reconnect, server, app
<1>2. inbox \in [Devices -> Seq(Messages)]
  BY Typed DEF TypeOK
<1>3. m.record = db
  OBVIOUS
<1> HIDE DEF m
<1>4. inbox'[d] = <<m>> /\ Truth' = Truth
  BY <1>1, <1>2 DEF Truth
<1>5. \A i \in DOMAIN inbox'[d] : Below(inbox'[d][i].record, Truth')
  BY <1>3, <1>4 DEF HistoryInv
<1>6. Lists(d) => Lists(d)'
  BY <1>1, <1>4, <1>5 DEF Lists, Calm, Idle
<1>7. sessions'[d] # Null => Lists(d)'
  BY <1>1, <1>6 DEF HistoryInv
<1>8. \A e \in Devices : e # d => SameApp(e) /\ SameClient(e) /\ sessions'[e] = sessions[e]
  BY <1>1, <1>2 DEF SameApp, SameClient
<1>9. QED
  BY <1>1, <1>7, <1>8, QuietHistory

\* A process that starts again has no history open.
LEMMA RelaunchHistory ==
  ASSUME IInv, IInv', TurnsInv, HistoryInv, NEW d \in Devices, taken[d] = Len(pending[d]),
         Relaunched(d)
  PROVE  HistoryInv'
<1> DEFINE m == [record |-> db, ack |-> FALSE]
<1>1. /\ taken' = [taken EXCEPT ![d] = 0]
      /\ inbox' = [inbox EXCEPT ![d] = <<m>>]
      /\ heard' = [heard EXCEPT ![d] = Null]
      /\ waiting' = [waiting EXCEPT ![d] = 0]
      /\ events' = [events EXCEPT ![d] = <<>>]
      /\ recording' = [recording EXCEPT ![d] = FALSE]
      /\ screen' = [screen EXCEPT ![d] = Fresh]
      /\ alert' = [alert EXCEPT ![d] = Null]
      /\ sessions' = [sessions EXCEPT ![d] = Null]
      /\ db' = db
  BY DEF Relaunched, server
<1> HIDE DEF m
<1>2. /\ taken \in [Devices -> Nat] /\ inbox \in [Devices -> Seq(Messages)]
      /\ waiting \in [Devices -> Nat] /\ DOMAIN sessions = Devices
  BY Typed DEF TypeOK, TablesOK
<1>3. /\ Truth' = Truth /\ pending'[d] = <<>>
      /\ \A e \in Devices : e # d => pending'[e] = pending[e]
  BY RelaunchTruth
<1>4. sessions'[d] = Null
  BY <1>1, <1>2
<1>5. \A e \in Devices : e # d => SameApp(e) /\ SameClient(e) /\ sessions'[e] = sessions[e]
  BY <1>1, <1>2, <1>3, PageFacts DEF SameApp, SameClient
<1>6. Below(Truth, Truth') /\ Below(db', Truth')
  BY <1>1, <1>3, BelowSelf DEF HistoryInv
<1>7. Untouched'
  <2>1. \A e \in Devices : pending'[e] = pending[e] \/ pending'[e] = <<>>
    BY <1>3
  <2>2. QED
    BY <1>3, <2>1 DEF HistoryInv, Untouched
<1>8. QED
  BY <1>4, <1>5, <1>6, <1>7, PhoneHistory

LEMMA KillHistory ==
  ASSUME IInv, IInv', TurnsInv, HistoryInv, NEW d \in Devices, Kill(d), faults'.lost = {}
  PROVE  HistoryInv'
BY RelaunchHistory, KillLoses DEF Kill

LEMMA CrashHistory ==
  ASSUME IInv, IInv', TurnsInv, HistoryInv, NEW d \in Devices, Crash(d)
  PROVE  HistoryInv'
<1>1. taken[d] = Len(pending[d]) /\ Relaunched(d)
  BY CrashLoses DEF Crash
<1>2. QED
  BY <1>1, RelaunchHistory

\* Nothing of it changes.
LEMMA SameHistory ==
  ASSUME HistoryInv, UNCHANGED <<db, pending, inbox, heard, events, alert, sessions>>
  PROVE  HistoryInv'
<1>1. Truth' = Truth
  BY DEF Truth
<1>2. Below(db', Truth') /\ Untouched'
  BY <1>1 DEF HistoryInv, Untouched
<1>3. \A d \in Devices : Lists(d) => Lists(d)'
  BY <1>1 DEF Lists, Calm, Idle
<1>4. QED
  BY <1>2, <1>3 DEF HistoryInv

\* Initially no history is open.
LEMMA InitHistory == Init => HistoryInv
<1> SUFFICES ASSUME Init
             PROVE  HistoryInv
  OBVIOUS
<1>1. Truth = db
  BY DEF Init, Truth
<1>2. \A d \in Devices : pending[d] = <<>> /\ sessions[d] = Null
  BY DEF Init
<1>3. QED
  BY <1>1, <1>2, BelowSelf DEF HistoryInv, Untouched

\* The invariant is inductive beside the others.
LEMMA NextHistory ==
  ASSUME IInv, IInv', TurnsInv, TurnsInv', FollowInv, HistoryInv, Step, [Next]_vars,
         Users # "hasty", faults'.lost = {}
  PROVE  HistoryInv'
<1>1. CASE UNCHANGED vars
  BY <1>1, SameHistory DEF vars, server, client, app
<1>2. CASE Tick
  BY <1>2, SameHistory DEF Tick, client, app
<1>3. ASSUME NEW d \in Devices, User(d)
      PROVE  HistoryInv'
  BY <1>3, startRecordingHistory, recordSessionHistory, DeclineHistory, CloseWarningHistory,
     OpenHistoryHistory, CloseHistoryHistory DEF User
<1>4. ASSUME NEW d \in Devices, MainThread(d)
      PROVE  HistoryInv'
  BY <1>4, observeValueHistory, checkInHistory, readSessionHistory, confirmSessionHistory,
     rejectSessionHistory, CrashHistory DEF MainThread
<1>5. ASSUME NEW d \in Devices, Network(d)
      PROVE  HistoryInv'
  BY <1>5, TakeWriteHistory, HearHistory, ReconnectHistory DEF Network
<1>6. ASSUME NEW d \in Devices, Disconnect(d) \/ Kill(d)
      PROVE  HistoryInv'
  BY <1>6, DisconnectHistory, KillHistory
<1>7. QED
  BY <1>1, <1>2, <1>3, <1>4, <1>5, <1>6 DEF Next

\* Once everything has arrived, the rows are those of the record.
LEMMA HistoryIsComplete == IInv /\ TurnsInv /\ HistoryInv => HistoryComplete
<1> SUFFICES ASSUME IInv, TurnsInv, HistoryInv, NEW d \in Devices, sessions[d] # Null,
                    \A e \in Devices : Caught(e)
             PROVE  sessions[d] = [k \in 1..db[NumSessions] |-> [in |-> db[In(k)], out |-> db[Out(k)]]]
  BY DEF HistoryComplete
<1>1. Lists(d) /\ events[d] = <<>> /\ heard[d] = db /\ \A e \in Devices : pending[e] = <<>>
  BY DEF HistoryInv, Caught
<1>2. Truth = db /\ Shape(db) /\ db[NumSessions] <= MaxTaps /\ db \in Records
  BY <1>1, TruthFacts
<1>3. 1..db[NumSessions] \subseteq Keys /\ db[NumSessions] \in Nat
  BY <1>2, ShapeFacts
<1>4. \A k \in Keys : k \in Nat /\ (Ended(db, k) <=> k <= db[NumSessions])
  BY <1>2, <1>3, LeafFacts DEF Shape, Ended
<1>5. Table(sessions[d], db) /\ \A k \in Keys : Ended(db, k) => k \in DOMAIN sessions[d]
  BY <1>1, <1>2 DEF Lists
<1>6. DOMAIN sessions[d] = 1..db[NumSessions]
  <2>1. \A k : k \in DOMAIN sessions[d] <=> k \in Keys /\ Ended(db, k)
    BY <1>5 DEF Table
  <2>2. \A k : k \in 1..db[NumSessions] <=> k \in Keys /\ k <= db[NumSessions]
    BY <1>3 DEF Keys
  <2>3. QED
    BY <1>4, <2>1, <2>2, <1>5 DEF Table
<1>7. sessions[d] = [k \in DOMAIN sessions[d] |-> Row(db, k)]
  BY <1>5 DEF Table
<1>8. QED
  BY <1>6, <1>7 DEF Row

-----------------------------------------------------------------------------
(* The theorem about the history.                                          *)

\* With users who wait, an open history has, once everything written has arrived,
\* exactly the sessions counted, each in its row, however many records it heard
\* of in between and although it never takes a row away: tableView looks up row i
\* under number i.  Until, that is, a process dies with a write the server has not
\* taken: the entry it cuts short may be counted without its end.
THEOREM HistoryListsAll ==
  ASSUME Users # "hasty"
  PROVE  Spec => [](faults.lost = {} => HistoryComplete)
<1> DEFINE I == IInv /\ (faults.lost = {} => WaitingInv /\ HistoryInv)
<1>1. Init => I
  BY WaitingInit, InitHistory
<1>2. I /\ [Next]_vars => I'
  <2> SUFFICES ASSUME I, [Next]_vars, faults'.lost = {}
               PROVE  I'
    BY Inductive
  <2>1. faults.lost = {}
    BY LostStays
  <2>2. IInv' /\ WaitingInv' /\ Step
    BY <2>1, WaitingInductive
  <2>3. HistoryInv'
    BY <2>1, <2>2, NextHistory DEF WaitingInv
  <2>4. QED
    BY <2>2, <2>3
<1>3. I => (faults.lost = {} => HistoryComplete)
  BY HistoryIsComplete DEF WaitingInv
<1> HIDE DEF I
<1>4. QED
  BY <1>1, <1>2, <1>3, PTL DEF Spec
=============================================================================
