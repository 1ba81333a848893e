---------------------- MODULE RecordViewControllerProofs ----------------------
(***************************************************************************)
(* For any phones, users, clock, hours and bounds: the iOS record page is  *)
(* typed, the record never has more hours than were answered Yes, and a    *)
(* page that has caught up shows the session that runs.                    *)
(***************************************************************************)
EXTENDS RecordViewController, TLAPS, SequenceTheorems, FiniteSetTheorems,
        WellFoundedInduction

-----------------------------------------------------------------------------
(* Leaves, fields and writes.                                              *)

\* The counters are leaves, and no check-in; a session's fields are no counters.
LEMMA LeafFacts ==
  /\ NumSessions \in Leaves /\ TotalHours \in Leaves
  /\ NumSessions # TotalHours
  /\ Counters \subseteq Leaves
  /\ \A k \in Keys : In(k) \in Leaves /\ Out(k) \in Leaves
  /\ \A k \in Nat : In(k) \in Fields /\ Out(k) \in Fields
  /\ \A k \in Nat : In(k) \in CheckIns /\ Out(k) \notin CheckIns
  /\ \A k \in Nat : In(k) \notin Counters /\ Out(k) \notin Counters
  /\ \A l \in Counters : l \in Fields /\ l \notin CheckIns
  /\ Keys \subseteq Nat
  /\ \A k \in Nat : In(k) \in Leaves => k \in Keys
BY ConstantsOK
   DEF NumSessions, TotalHours, Leaves, Counters, Keys, In, Out, Fields, CheckIns

LEMMA TimesFacts == Times \subseteq Nat /\ Times \subseteq 0..MaxTime
                    /\ Intervals \subseteq Nat /\ 0 \in 0..MaxTime
BY ConstantsOK DEF Times, Intervals

\* What a record holds.
LEMMA RecordFacts ==
  ASSUME NEW r \in Records
  PROVE  /\ r \in [Leaves -> Nat \cup {Null}]
         /\ r[NumSessions] \in Nat /\ r[TotalHours] \in Nat
         /\ Next1(r) \in Nat
         /\ \A k \in Keys : r[In(k)] \in Times \cup {Null}
         /\ \A k \in Nat : Field(r, In(k)) \in Times \cup {Null}
<1>1. /\ r \in [Leaves -> Nat \cup {Null}]
      /\ \A l \in Counters : r[l] \in Nat
      /\ \A k \in Keys : r[In(k)] \in Times \cup {Null}
  BY DEF Records
<1>2. r[NumSessions] \in Nat /\ r[TotalHours] \in Nat
  BY <1>1 DEF Counters
<1>3. Next1(r) \in Nat
  BY <1>2 DEF Next1
<1>4. ASSUME NEW k \in Nat
      PROVE  Field(r, In(k)) \in Times \cup {Null}
  <2>1. CASE In(k) \in Leaves
    BY <2>1, <1>1, LeafFacts DEF Field
  <2>2. CASE In(k) \notin Leaves
    BY <2>2 DEF Field
  <2>3. QED
    BY <2>1, <2>2
<1>5. QED
  BY <1>1, <1>2, <1>3, <1>4

LEMMA EmptyRecordType == EmptyRecord \in Records
<1>1. EmptyRecord \in [Leaves -> Nat \cup {Null}]
  BY DEF EmptyRecord
<1>2. \A l \in Counters : EmptyRecord[l] \in Nat
  BY LeafFacts DEF EmptyRecord, Counters
<1>3. \A k \in Keys : EmptyRecord[In(k)] \in Times \cup {Null}
  BY LeafFacts DEF EmptyRecord, Counters
<1>4. QED
  BY <1>1, <1>2, <1>3 DEF Records

\* The writes the page makes.
LEMMA SetCounterType ==
  ASSUME NEW l \in Counters, NEW v \in Nat
  PROVE  Set(l, v) \in Writes
<1>1. Set(l, v) \in [leaves : SUBSET Fields, val : Nat \cup {Null}]
  BY LeafFacts DEF Set
<1>2. QED
  BY <1>1, LeafFacts DEF Set, Writes

LEMMA SetInType ==
  ASSUME NEW k \in Nat, NEW v \in Times
  PROVE  Set(In(k), v) \in Writes /\ TotalHours \notin Set(In(k), v).leaves
<1>1. Set(In(k), v) \in [leaves : SUBSET Fields, val : Nat \cup {Null}]
  BY LeafFacts, TimesFacts DEF Set
<1>2. QED
  BY <1>1, LeafFacts DEF Set, Writes, Counters

LEMMA SetOutType ==
  ASSUME NEW k \in Nat, NEW v \in Times
  PROVE  Set(Out(k), v) \in Writes /\ TotalHours \notin Set(Out(k), v).leaves
<1>1. Set(Out(k), v) \in [leaves : SUBSET Fields, val : Nat \cup {Null}]
  BY LeafFacts, TimesFacts DEF Set
<1>2. QED
  BY <1>1, LeafFacts DEF Set, Writes, Counters

LEMMA RemoveType ==
  ASSUME NEW k \in Nat
  PROVE  Remove(k) \in Writes /\ TotalHours \notin Remove(k).leaves
<1>1. Remove(k) \in [leaves : SUBSET Fields, val : Nat \cup {Null}]
  BY LeafFacts DEF Remove
<1>2. QED
  BY <1>1, LeafFacts DEF Remove, Writes, Counters

LEMMA ApplyType ==
  ASSUME NEW r \in Records, NEW w \in Writes
  PROVE  Apply(r, w) \in Records
<1>1. /\ w.val \in Nat \cup {Null}
      /\ \A l \in w.leaves : l \in Counters => w.val \in Nat
      /\ \A l \in w.leaves : l \in CheckIns => w.val \in Times \cup {Null}
  BY DEF Writes
<1>2. Apply(r, w) \in [Leaves -> Nat \cup {Null}]
  BY <1>1, RecordFacts DEF Apply
<1>3. \A l \in Counters : Apply(r, w)[l] \in Nat
  BY <1>1, LeafFacts DEF Apply, Records
<1>4. \A k \in Keys : Apply(r, w)[In(k)] \in Times \cup {Null}
  BY <1>1, LeafFacts DEF Apply, Records
<1>5. QED
  BY <1>2, <1>3, <1>4 DEF Records

\* The last of some positions of a sequence is one of them.
LEMMA MaxIsIn ==
  ASSUME NEW n \in Nat, NEW S \in SUBSET (1..n), S # {}
  PROVE  Max(S) \in S
<1> DEFINE T == {n - i : i \in S}
<1> DEFINE R == {ss \in Nat \X Nat : ss[1] < ss[2]}
<1>a. T \subseteq Nat
  OBVIOUS
<1>b. PICK e \in S : TRUE
  OBVIOUS
<1>c. n - e \in T
  OBVIOUS
<1>1. T \subseteq Nat /\ T # {}
  <2> HIDE DEF T
  <2> QED BY <1>a, <1>c
<1>d. OpToRel(<, Nat) = R
  BY Zenon DEF OpToRel
<1>e. IsWellFoundedOn(R, Nat)
  <2> HIDE DEF R
  <2> QED BY <1>d, NatLessThanWellFounded, Zenon
<1>2. PICK x \in T : \A y \in T : ~(<<y, x>> \in R)
  <2> HIDE DEF T, R
  <2> QED BY <1>1, <1>e, WFMin
<1>3. \A y \in T : ~(y < x)
  <2> TAKE y \in T
  <2>1. y \in Nat /\ x \in Nat /\ <<y, x>> \notin R
    <3> HIDE DEF T, R
    <3> QED BY <1>1, <1>2
  <2> QED BY <2>1
<1>4. PICK i \in S : x = n - i
  OBVIOUS
<1>5. \A j \in S : i >= j
  <2> TAKE j \in S
  <2>1. ~(n - j < x)
    BY <1>3
  <2> QED BY <2>1, <1>4
<1>6. QED
  BY <1>4, <1>5 DEF Max

\* A record under writes: each leaf is that of the record or of a write.
LEMMA UnderLeaf ==
  ASSUME NEW r, NEW q \in Seq(Writes), NEW l \in Leaves
  PROVE  \/ Under(r, q)[l] = r[l]
         \/ \E i \in DOMAIN q : l \in q[i].leaves /\ Under(r, q)[l] = q[i].val
<1> DEFINE over == {i \in DOMAIN q : l \in q[i].leaves}
<1>1. Under(r, q)[l] = IF over = {} THEN r[l] ELSE q[Max(over)].val
  BY DEF Under
<1>2. CASE over = {}
  BY <1>1, <1>2
<1>3. CASE over # {}
  <2>1. Len(q) \in Nat /\ over \in SUBSET (1..Len(q))
    BY LenProperties
  <2>2. Max(over) \in over
    <3> HIDE DEF over
    <3> QED BY <1>3, <2>1, MaxIsIn
  <2>3. QED
    BY <1>1, <1>3, <2>2
<1>4. QED
  BY <1>2, <1>3

LEMMA UnderType ==
  ASSUME NEW r \in Records, NEW q \in Seq(Writes)
  PROVE  Under(r, q) \in Records
<1>1. \A i \in DOMAIN q : q[i] \in Writes
  BY ElementOfSeq, LenProperties
<1>2. \A i \in DOMAIN q : /\ q[i].val \in Nat \cup {Null}
                          /\ \A l \in q[i].leaves : l \in Counters => q[i].val \in Nat
                          /\ \A l \in q[i].leaves : l \in CheckIns => q[i].val \in Times \cup {Null}
  BY <1>1 DEF Writes
<1>3. \A l \in Leaves : Under(r, q)[l] \in Nat \cup {Null}
  BY <1>2, UnderLeaf, RecordFacts
<1>4. Under(r, q) \in [Leaves -> Nat \cup {Null}]
  BY <1>3 DEF Under
<1>5. \A l \in Counters : Under(r, q)[l] \in Nat
  <2> TAKE l \in Counters
  <2>1. l \in Leaves /\ r[l] \in Nat
    BY LeafFacts DEF Records
  <2> QED BY <2>1, <1>2, UnderLeaf
<1>6. \A k \in Keys : Under(r, q)[In(k)] \in Times \cup {Null}
  <2> TAKE k \in Keys
  <2>1. In(k) \in Leaves /\ In(k) \in CheckIns /\ r[In(k)] \in Times \cup {Null}
    BY LeafFacts DEF Records
  <2> QED BY <2>1, <1>2, UnderLeaf
<1>7. QED
  BY <1>4, <1>5, <1>6 DEF Records

-----------------------------------------------------------------------------
(* The same, counting no more than c hours.                                *)

LEMMA ApplyUnder ==
  ASSUME NEW c \in Nat, NEW r \in RecordsUnder(c), NEW w \in WritesUnder(c)
  PROVE  Apply(r, w) \in RecordsUnder(c)
<1>1. r \in Records /\ w \in Writes
  BY DEF RecordsUnder, WritesUnder
<1>2. Apply(r, w) \in Records
  BY <1>1, ApplyType
<1>3. Apply(r, w)[TotalHours] <= c
  BY LeafFacts DEF Apply, RecordsUnder, WritesUnder
<1>4. QED
  BY <1>2, <1>3 DEF RecordsUnder

LEMMA UnderUnder ==
  ASSUME NEW c \in Nat, NEW r \in RecordsUnder(c), NEW q \in Seq(WritesUnder(c))
  PROVE  Under(r, q) \in RecordsUnder(c)
<1>1. r \in Records /\ r[TotalHours] <= c
  BY DEF RecordsUnder
<1>2. WritesUnder(c) \subseteq Writes
  BY DEF WritesUnder
<1>3. q \in Seq(Writes)
  BY <1>2, SeqMonotonic
<1>4. Under(r, q) \in Records
  BY <1>1, <1>3, UnderType
<1>5. \A i \in DOMAIN q : TotalHours \in q[i].leaves => q[i].val <= c
  <2>1. \A i \in DOMAIN q : q[i] \in WritesUnder(c)
    BY ElementOfSeq, LenProperties
  <2>2. QED
    BY <2>1 DEF WritesUnder
<1>6. TotalHours \in Leaves
  BY LeafFacts
<1>7. Under(r, q)[TotalHours] <= c
  BY <1>1, <1>3, <1>5, <1>6, UnderLeaf
<1>8. QED
  BY <1>4, <1>7 DEF RecordsUnder

\* The events raised for the listener.
LEMMA ValueType ==
  ASSUME NEW c \in Nat, NEW r \in Records
  PROVE  Value(r) \in EventsUnder(c)
<1>1. Value(r) \in Events
  BY DEF Value, Events
<1>2. Value(r).type = "value"
  BY DEF Value
<1>3. QED
  BY <1>1, <1>2 DEF EventsUnder

LEMMA RaisedType ==
  ASSUME NEW c \in Nat, NEW old, NEW new \in Records
  PROVE  Raised(old, new) \in Seq(EventsUnder(c))
<1>1. Value(new) \in EventsUnder(c)
  BY ValueType
<1>2. QED
  BY <1>1 DEF Raised

LEMMA SetEventsType ==
  ASSUME NEW c \in Nat, NEW r \in Records, NEW w \in Writes
  PROVE  SetEvents(r, w) \in Seq(EventsUnder(c))
BY ApplyType, RaisedType DEF SetEvents

LEMMA SetEvents3Type ==
  ASSUME NEW c \in Nat, NEW r \in Records,
         NEW w1 \in Writes, NEW w2 \in Writes, NEW w3 \in Writes
  PROVE  SetEvents3(r, w1, w2, w3) \in Seq(EventsUnder(c))
<1>1. Apply(r, w1) \in Records
  BY ApplyType
<1>2. Apply(Apply(r, w1), w2) \in Records
  BY <1>1, ApplyType
<1>3. /\ SetEvents(r, w1) \in Seq(EventsUnder(c))
      /\ SetEvents(Apply(r, w1), w2) \in Seq(EventsUnder(c))
      /\ SetEvents(Apply(Apply(r, w1), w2), w3) \in Seq(EventsUnder(c))
  BY <1>1, <1>2, SetEventsType
<1>4. QED
  BY <1>3, ConcatProperties DEF SetEvents3

LEMMA TapReadType ==
  ASSUME NEW c \in Nat, NEW r \in RecordsUnder(c)
  PROVE  TapRead(r) \in EventsUnder(c)
<1>1. r[NumSessions] \in Nat /\ r[TotalHours] \in Nat /\ r[TotalHours] <= c
  BY RecordFacts DEF RecordsUnder
<1>2. TapRead(r) \in Events /\ TapRead(r).total = r[TotalHours]
  BY <1>1 DEF TapRead, Events
<1>3. QED
  BY <1>1, <1>2 DEF EventsUnder

\* What a tap's event and a stop's event carry.
LEMMA TapFacts ==
  ASSUME NEW c \in Nat, NEW e \in EventsUnder(c), e.type = "tap"
  PROVE  e.n \in Nat /\ e.total \in Nat /\ e.total <= c
BY DEF EventsUnder, Events

LEMMA StopFacts ==
  ASSUME NEW c \in Nat, NEW e \in EventsUnder(c), e.type = "stop"
  PROVE  e.n \in Nat /\ e.total \in Nat /\ e.total <= c /\ e.in \in Times \cup {Null}
BY DEF EventsUnder, Events

LEMMA ValueFacts ==
  ASSUME NEW c \in Nat, NEW e \in EventsUnder(c), e.type = "value"
  PROVE  e.record \in Records
BY DEF EventsUnder, Events

LEMMA ConfirmFacts ==
  ASSUME NEW c \in Nat, NEW a \in AlertsUnder(c), a.type = "confirm"
  PROVE  /\ a.n \in Nat /\ a.total \in Nat /\ a.total <= c
         /\ a.interval \in Intervals /\ a.out \in Times
BY DEF AlertsUnder, Alerts

\* The check-in shown is a time, or 1970.
LEMMA ShownInType ==
  ASSUME NEW r \in Records
  PROVE  ShownIn(r) \in 0..MaxTime
<1>1. Field(r, In(Next1(r))) \in Times \cup {Null}
  BY RecordFacts
<1>2. QED
  BY <1>1, TimesFacts DEF ShownIn

\* The writes of the page count no more than what was confirmed.
LEMMA PlainWrite ==
  ASSUME NEW c \in Nat, NEW w \in Writes, TotalHours \notin w.leaves
  PROVE  w \in WritesUnder(c)
BY DEF WritesUnder

\* More hours cover what fewer did.
LEMMA DataMonotonic ==
  ASSUME NEW c \in Nat, NEW c2 \in Nat, c <= c2, DataUnder(c)
  PROVE  DataUnder(c2)
<1>1. RecordsUnder(c) \subseteq RecordsUnder(c2)
  BY RecordFacts DEF RecordsUnder
<1>2. WritesUnder(c) \subseteq WritesUnder(c2)
  <2> SUFFICES ASSUME NEW w \in WritesUnder(c), TotalHours \in w.leaves
               PROVE  w.val <= c2
    BY DEF WritesUnder
  <2>1. w \in Writes /\ w.val <= c
    BY DEF WritesUnder
  <2>2. w.val \in Nat
    BY <2>1 DEF Writes, Counters
  <2>3. QED
    BY <2>1, <2>2
<1>3. MessagesUnder(c) \subseteq MessagesUnder(c2)
  BY <1>1 DEF MessagesUnder
<1>4. EventsUnder(c) \subseteq EventsUnder(c2)
  <2> SUFFICES ASSUME NEW e \in EventsUnder(c), e.type # "value"
               PROVE  e.total <= c2
    BY DEF EventsUnder
  <2>1. e.type = "tap" \/ e.type = "stop"
    BY DEF EventsUnder, Events
  <2>2. e.total \in Nat /\ e.total <= c
    BY <2>1, TapFacts, StopFacts
  <2>3. QED
    BY <2>2
<1>5. AlertsUnder(c) \subseteq AlertsUnder(c2)
  <2> SUFFICES ASSUME NEW a \in AlertsUnder(c), a.type = "confirm"
               PROVE  a.total <= c2
    BY DEF AlertsUnder
  <2>1. a.total \in Nat /\ a.total <= c
    BY ConfirmFacts
  <2>2. QED
    BY <2>1
<1>6. /\ Seq(WritesUnder(c)) \subseteq Seq(WritesUnder(c2))
      /\ Seq(MessagesUnder(c)) \subseteq Seq(MessagesUnder(c2))
      /\ Seq(EventsUnder(c)) \subseteq Seq(EventsUnder(c2))
  BY <1>2, <1>3, <1>4, SeqMonotonic
<1>7. /\ db \in RecordsUnder(c)
      /\ pending \in [Devices -> Seq(WritesUnder(c))]
      /\ inbox \in [Devices -> Seq(MessagesUnder(c))]
      /\ heard \in [Devices -> RecordsUnder(c) \cup {Null}]
      /\ events \in [Devices -> Seq(EventsUnder(c))]
      /\ alert \in [Devices -> AlertsUnder(c) \cup {Null}]
      /\ \A d \in Devices :
           events[d] # <<>> \/ alert[d] # Null => heard[d] \in RecordsUnder(c)
  BY DEF DataUnder
<1>8. QED
  BY <1>1, <1>5, <1>6, <1>7 DEF DataUnder

-----------------------------------------------------------------------------
(* Acknowledgements on their way.                                          *)

AckSet(s) == {i \in DOMAIN s : s[i].ack}

LEMMA AckSetFinite ==
  ASSUME NEW M, NEW s \in Seq(M)
  PROVE  IsFiniteSet(AckSet(s)) /\ Cardinality(AckSet(s)) \in Nat
<1>1. DOMAIN s = 1..Len(s) /\ Len(s) \in Nat
  BY LenProperties
<1>2. IsFiniteSet(1..Len(s))
  BY <1>1, FS_Interval
<1>3. AckSet(s) \in SUBSET (1..Len(s))
  BY <1>1 DEF AckSet
<1>4. IsFiniteSet(AckSet(s))
  BY <1>2, <1>3, FS_Subset
<1>5. QED
  BY <1>4, FS_CardinalityType

LEMMA AckAppend ==
  ASSUME NEW c \in Nat, NEW s \in Seq(MessagesUnder(c)), NEW m \in MessagesUnder(c)
  PROVE  Cardinality(AckSet(Append(s, m))) =
           IF m.ack THEN Cardinality(AckSet(s)) + 1 ELSE Cardinality(AckSet(s))
<1> DEFINE n == Len(s) + 1
           t == Append(s, m)
<1>1. /\ Len(s) \in Nat /\ DOMAIN s = 1..Len(s) /\ DOMAIN t = 1..n
      /\ t[n] = m /\ \A i \in 1..Len(s) : t[i] = s[i]
  BY AppendProperties, LenProperties
<1>2. n \notin AckSet(s)
  BY <1>1 DEF AckSet
<1>3. AckSet(t) = IF m.ack THEN AckSet(s) \cup {n} ELSE AckSet(s)
  BY <1>1 DEF AckSet
<1>4. IsFiniteSet(AckSet(s))
  BY AckSetFinite
<1>5. Cardinality(AckSet(s) \cup {n}) = Cardinality(AckSet(s)) + 1
  BY <1>2, <1>4, FS_AddElement
<1>6. QED
  BY <1>3, <1>5

LEMMA AckTail ==
  ASSUME NEW c \in Nat, NEW s \in Seq(MessagesUnder(c)), s # <<>>
  PROVE  /\ Head(s).ack => Cardinality(AckSet(s)) > 0
         /\ Cardinality(AckSet(Tail(s))) =
              IF Head(s).ack THEN Cardinality(AckSet(s)) - 1 ELSE Cardinality(AckSet(s))
<1> DEFINE t == Tail(s)
           rest == AckSet(s) \ {1}
           f == [i \in AckSet(t) |-> i + 1]
<1>1. /\ Len(s) \in Nat \ {0} /\ DOMAIN s = 1..Len(s) /\ Head(s) = s[1]
      /\ Len(t) = Len(s) - 1 /\ DOMAIN t = 1..Len(t)
      /\ \A i \in 1..Len(t) : t[i] = s[i + 1]
  BY HeadTailProperties, LenProperties, EmptySeq
<1>2. IsFiniteSet(AckSet(s)) /\ Cardinality(AckSet(s)) \in Nat
  BY AckSetFinite
<1>3. f \in Bijection(AckSet(t), rest)
  <2>1. f \in [AckSet(t) -> rest]
    BY <1>1 DEF AckSet
  <2>2. \A i, j \in AckSet(t) : f[i] = f[j] => i = j
    BY <1>1 DEF AckSet
  <2>3. \A k \in rest : \E i \in AckSet(t) : f[i] = k
    <3> TAKE k \in rest
    <3>1. k - 1 \in AckSet(t) /\ k - 1 + 1 = k
      BY <1>1 DEF AckSet
    <3> QED BY <3>1
  <2>4. QED
    <3> HIDE DEF f, rest
    <3> QED BY <2>1, <2>2, <2>3 DEF Bijection, Injection, Surjection, IsInjective
<1>4. IsFiniteSet(AckSet(t))
  BY <1>1, HeadTailProperties, AckSetFinite
<1>5. Cardinality(rest) = Cardinality(AckSet(t))
  <2>1. ExistsBijection(AckSet(t), rest)
    <3> HIDE DEF f, rest
    <3> QED BY <1>3 DEF ExistsBijection
  <2>2. QED
    BY <1>4, <2>1, FS_Bijection
<1>6. Cardinality(rest) = IF 1 \in AckSet(s) THEN Cardinality(AckSet(s)) - 1
                          ELSE Cardinality(AckSet(s))
  BY <1>2, FS_RemoveElement
<1>7. 1 \in AckSet(s) <=> Head(s).ack
  BY <1>1 DEF AckSet
<1>8. Head(s).ack => Cardinality(AckSet(s)) > 0
  <2>1. Cardinality(AckSet(s)) = 0 => AckSet(s) = {}
    BY <1>2, FS_EmptySet
  <2>2. QED
    BY <1>2, <1>7, <2>1
<1>9. QED
  <2>1. Cardinality(AckSet(t)) =
          IF Head(s).ack THEN Cardinality(AckSet(s)) - 1 ELSE Cardinality(AckSet(s))
    <3> HIDE DEF t, rest
    <3> QED BY <1>5, <1>6, <1>7
  <2>2. QED
    BY <1>8, <2>1

LEMMA AckNone ==
  ASSUME NEW r
  PROVE  /\ Cardinality(AckSet(<<>>)) = 0
         /\ Cardinality(AckSet(<<[record |-> r, ack |-> FALSE]>>)) = 0
<1>1. AckSet(<<>>) = {} /\ AckSet(<<[record |-> r, ack |-> FALSE]>>) = {}
  BY DEF AckSet
<1>2. QED
  BY <1>1, FS_EmptySet

-----------------------------------------------------------------------------
(* What the invariant says of one phone.                                   *)

LEMMA AcksAreAckSet == \A d : Acks(d) = AckSet(inbox[d])
BY DEF Acks, AckSet

LEMMA PhoneFacts ==
  ASSUME IInv, NEW d \in Devices
  PROVE  /\ confirmed \in Nat
         /\ db \in RecordsUnder(confirmed)
         /\ pending[d] \in Seq(WritesUnder(confirmed))
         /\ inbox[d] \in Seq(MessagesUnder(confirmed))
         /\ events[d] \in Seq(EventsUnder(confirmed))
         /\ heard[d] # Null => heard[d] \in RecordsUnder(confirmed)
         /\ alert[d] # Null => alert[d] \in AlertsUnder(confirmed)
         /\ events[d] # <<>> \/ alert[d] # Null => heard[d] \in RecordsUnder(confirmed)
         /\ \A c : RecordsUnder(c) \subseteq Records /\ WritesUnder(c) \subseteq Writes
<1>1. confirmed \in Nat
  BY DEF IInv, ControlOK
<1>2. /\ db \in RecordsUnder(confirmed)
      /\ pending[d] \in Seq(WritesUnder(confirmed))
      /\ inbox[d] \in Seq(MessagesUnder(confirmed))
      /\ events[d] \in Seq(EventsUnder(confirmed))
      /\ heard[d] # Null => heard[d] \in RecordsUnder(confirmed)
      /\ alert[d] # Null => alert[d] \in AlertsUnder(confirmed)
      /\ events[d] # <<>> \/ alert[d] # Null => heard[d] \in RecordsUnder(confirmed)
  BY DEF IInv, DataUnder
<1>5. \A c : RecordsUnder(c) \subseteq Records /\ WritesUnder(c) \subseteq Writes
  BY DEF RecordsUnder, WritesUnder
<1>6. QED
  BY <1>1, <1>2, <1>5

\* An event taken from, or added to, a phone's queue.
LEMMA EventFacts ==
  ASSUME NEW c \in Nat, NEW es \in Seq(EventsUnder(c)), es # <<>>
  PROVE  Head(es) \in EventsUnder(c) /\ Tail(es) \in Seq(EventsUnder(c))
BY HeadTailProperties

LEMMA AppendOne ==
  ASSUME NEW S, NEW s \in Seq(S), NEW x \in S
  PROVE  /\ Append(s, x) \in Seq(S)
         /\ Append(s, x) # <<>>
         /\ Len(Append(s, x)) = Len(s) + 1
BY AppendProperties, EmptySeq

LEMMA Joined ==
  ASSUME NEW S, NEW s \in Seq(S), NEW t \in Seq(S)
  PROVE  /\ s \o t \in Seq(S)
         /\ Len(s \o t) = Len(s) + Len(t) /\ Len(t) \in Nat /\ Len(s) \in Nat
BY ConcatProperties, LenProperties

\* What a phone that has heard of the record sees.
LEMMA ViewType ==
  ASSUME IInv, NEW d \in Devices, heard[d] \in RecordsUnder(confirmed)
  PROVE  View(d) \in RecordsUnder(confirmed) /\ View(d) \in Records
BY PhoneFacts, UnderUnder DEF View, RecordsUnder

-----------------------------------------------------------------------------
(* The invariant holds initially, and each action keeps it.                *)

LEMMA InitOK == Init => IInv
<1> SUFFICES ASSUME Init
             PROVE  IInv
  OBVIOUS
<1>0. confirmed = 0 /\ now = 1 /\ 1 \in Times
  BY ConstantsOK DEF Init, Times
<1>1. EmptyRecord \in RecordsUnder(0)
  BY EmptyRecordType DEF RecordsUnder, EmptyRecord, Leaves
<1>2. [record |-> EmptyRecord, ack |-> FALSE] \in MessagesUnder(0)
  BY <1>1 DEF MessagesUnder
<1>3. DataUnder(0)
  BY <1>1, <1>2 DEF Init, DataUnder
<1>4. \A d \in Devices : Acks(d) = AckSet(<<[record |-> EmptyRecord, ack |-> FALSE]>>)
  BY AcksAreAckSet DEF Init
<1>5. \A d \in Devices : taken[d] <= Len(pending[d]) /\ taken[d] = Cardinality(Acks(d))
  BY <1>4, AckNone DEF Init
<1>6. ControlOK
  BY <1>0, <1>5, ConstantsOK DEF Init, ControlOK, Fresh, TablesOK
<1>7. QED
  BY <1>0, <1>3, <1>6 DEF IInv

\* What the user and the main thread do: queues and alerts change, what was
\* heard does not.
Screens == [title : {"Start", "Stop"}, checkIn : 0..MaxTime \cup {Null}]
Faults == [taps : 0..MaxTaps, disconnects : 0..MaxDisconnects, kills : 0..MaxKills,
           unshown : SUBSET Devices, lost : SUBSET Devices]

LEMMA PhoneStep ==
  ASSUME IInv, confirmed' \in Nat, confirmed <= confirmed',
         pending' \in [Devices -> Seq(WritesUnder(confirmed'))],
         events' \in [Devices -> Seq(EventsUnder(confirmed'))],
         alert' \in [Devices -> AlertsUnder(confirmed') \cup {Null}],
         \A e \in Devices : Len(pending'[e]) >= Len(pending[e]),
         \A e \in Devices : events'[e] # <<>> \/ alert'[e] # Null =>
           heard[e] \in RecordsUnder(confirmed),
         UNCHANGED <<db, now, conn, taken, inbox, heard>>,
         waiting' \in [Devices -> Nat],
         recording' \in [Devices -> BOOLEAN],
         screen' \in [Devices -> Screens],
         TablesOK',
         faults' \in Faults
  PROVE  IInv'
<1>1. PICK c \in Nat : c = confirmed'
  OBVIOUS
<1>2. DataUnder(c)
  BY <1>1, DataMonotonic DEF IInv, ControlOK
<1>3. /\ db \in RecordsUnder(c)
      /\ inbox \in [Devices -> Seq(MessagesUnder(c))]
      /\ heard \in [Devices -> RecordsUnder(c) \cup {Null}]
  BY <1>2 DEF DataUnder
<1>4. RecordsUnder(confirmed) \subseteq RecordsUnder(c)
  BY <1>1, RecordFacts DEF RecordsUnder, IInv, ControlOK
<1>5. DataUnder(confirmed)'
  BY <1>1, <1>3, <1>4 DEF DataUnder
<1>6. \A e \in Devices : taken'[e] <= Len(pending'[e]) /\ taken'[e] = Cardinality(Acks(e)')
  <2> TAKE e \in Devices
  <2>1. taken[e] \in Nat /\ taken[e] <= Len(pending[e]) /\ taken[e] = Cardinality(Acks(e))
    BY DEF IInv, ControlOK
  <2>2. Len(pending[e]) \in Nat /\ Len(pending'[e]) \in Nat
    <3>1. pending[e] \in Seq(WritesUnder(confirmed))
      BY DEF IInv, DataUnder
    <3>2. pending'[e] \in Seq(WritesUnder(c))
      BY <1>1
    <3> QED BY <3>1, <3>2, LenProperties
  <2>3. Acks(e)' = Acks(e)
    BY DEF Acks
  <2> QED BY <2>1, <2>2, <2>3
<1>7. ControlOK'
  BY <1>6 DEF IInv, ControlOK, Screens, Faults
<1>8. QED
  BY <1>5, <1>7 DEF IInv

\* The parts of the invariant that such a step starts from.
LEMMA Kept ==
  ASSUME IInv
  PROVE  /\ confirmed \in Nat /\ confirmed <= confirmed
         /\ now \in Times
         /\ waiting \in [Devices -> Nat]
         /\ recording \in [Devices -> BOOLEAN]
         /\ screen \in [Devices -> Screens]
         /\ TablesOK
         /\ faults \in Faults
         /\ pending \in [Devices -> Seq(WritesUnder(confirmed))]
         /\ events \in [Devices -> Seq(EventsUnder(confirmed))]
         /\ alert \in [Devices -> AlertsUnder(confirmed) \cup {Null}]
         /\ \A e \in Devices : events[e] # <<>> \/ alert[e] # Null =>
              heard[e] \in RecordsUnder(confirmed)
         /\ \A e \in Devices : Len(pending[e]) \in Nat /\ Len(pending[e]) >= Len(pending[e])
<1>1. confirmed \in Nat /\ confirmed <= confirmed
  BY DEF IInv, ControlOK
<1>2. pending \in [Devices -> Seq(WritesUnder(confirmed))]
  BY DEF IInv, DataUnder
<1>3. \A e \in Devices : Len(pending[e]) \in Nat /\ Len(pending[e]) >= Len(pending[e])
  <2> TAKE e \in Devices
  <2>1. Len(pending[e]) \in Nat
    BY <1>2, LenProperties
  <2> QED BY <2>1
<1>4. QED
  BY <1>1, <1>2, <1>3 DEF IInv, ControlOK, DataUnder, Screens, Faults

LEMMA startRecordingOK ==
  ASSUME IInv, NEW d \in Devices, startRecording(d)
  PROVE  IInv'
<1>1. UNCHANGED <<db, pending, inbox, heard, alert, conn, taken, screen, sessions, now, confirmed>>
  BY DEF startRecording, server
<1>2. faults' \in Faults
  <2>1. faults \in Faults /\ faults.taps < MaxTaps /\ MaxTaps \in Nat
        /\ faults' = [faults EXCEPT !.taps = @ + 1]
    BY Kept, ConstantsOK DEF startRecording
  <2>2. faults.taps + 1 \in 0..MaxTaps
    BY <2>1 DEF Faults
  <2>3. QED
    BY <2>1, <2>2 DEF Faults
<1>3. recording' \in [Devices -> BOOLEAN]
  BY Kept DEF startRecording
<1>4. CASE heard[d] = Null
  <2>1. UNCHANGED events /\ waiting' = [waiting EXCEPT ![d] = waiting[d] + 1]
    BY <1>4 DEF startRecording
  <2>2. waiting' \in [Devices -> Nat]
    BY <2>1, Kept
  <2>3. DataUnder(confirmed)'
    BY <1>1, <2>1 DEF DataUnder, IInv
  <2>4. ControlOK'
    BY <1>1, <1>2, <1>3, <2>2 DEF ControlOK, Acks, IInv, Faults, TablesOK
  <2>5. QED
    BY <2>3, <2>4 DEF IInv
<1>5. CASE heard[d] # Null
  <2>1. heard[d] \in RecordsUnder(confirmed) /\ events[d] \in Seq(EventsUnder(confirmed))
    BY <1>5, PhoneFacts
  <2>2. Append(events[d], TapRead(View(d))) \in Seq(EventsUnder(confirmed))
    BY <2>1, ViewType, TapReadType, AppendOne, PhoneFacts
  <2>3. events' = [events EXCEPT ![d] = Append(events[d], TapRead(View(d)))]
        /\ UNCHANGED waiting
    BY <1>5 DEF startRecording
  <2>4. /\ events' \in [Devices -> Seq(EventsUnder(confirmed))]
        /\ \A e \in Devices : events'[e] # <<>> \/ alert'[e] # Null =>
             heard[e] \in RecordsUnder(confirmed)
    BY <1>1, <2>1, <2>2, <2>3, Kept
  <2>5. QED
    BY <1>1, <1>2, <1>3, <2>3, <2>4, Kept, PhoneStep DEF TablesOK
<1>6. QED
  BY <1>4, <1>5

\* Yes: the hours written are the hours confirmed, on top of an older total.
LEMMA recordSessionOK ==
  ASSUME IInv, NEW d \in Devices, recordSession(d)
  PROVE  IInv'
<1> DEFINE a == alert[d]
           c == confirmed + Hours[a.interval]
           num == Set(NumSessions, a.n + 1)
           out == Set(Out(a.n + 1), a.out)
           tot == Set(TotalHours, NewTotal(a))
           ws == <<num, out, tot>>
           es == SetEvents3(View(d), num, out, tot)
<1>1. /\ a # Null /\ a.type = "confirm"
      /\ alert' = [alert EXCEPT ![d] = Null]
      /\ pending' = [pending EXCEPT ![d] = pending[d] \o ws]
      /\ events' = [events EXCEPT ![d] = events[d] \o es]
      /\ confirmed' = c
      /\ UNCHANGED <<db, now, conn, taken, inbox, heard, waiting, recording, screen,
                     sessions, faults>>
  BY DEF recordSession, server
<1>2. a \in AlertsUnder(confirmed) /\ confirmed \in Nat
      /\ heard[d] \in RecordsUnder(confirmed)
  BY <1>1, PhoneFacts
<1>3. /\ a.n \in Nat /\ a.total \in Nat /\ a.total <= confirmed
      /\ a.interval \in Intervals /\ a.out \in Times
  <2> HIDE DEF a
  <2> QED BY <1>1, <1>2, ConfirmFacts
<1>4. c \in Nat /\ confirmed <= c /\ NewTotal(a) \in Nat /\ NewTotal(a) <= c
      /\ a.n + 1 \in Nat
  BY <1>2, <1>3, ConstantsOK DEF NewTotal
<1>5. num \in Writes /\ out \in Writes /\ tot \in Writes
  BY <1>3, <1>4, SetCounterType, SetOutType DEF Counters
<1>6. num \in WritesUnder(c) /\ out \in WritesUnder(c) /\ tot \in WritesUnder(c)
  <2>1. TotalHours \notin num.leaves
    BY LeafFacts DEF Set
  <2>2. TotalHours \notin out.leaves
    BY <1>3, <1>4, SetOutType
  <2>3. tot.val = NewTotal(a)
    BY DEF Set
  <2>4. QED
    BY <1>4, <1>5, <2>1, <2>2, <2>3 DEF WritesUnder
<1> HIDE DEF c, num, out, tot, a
<1>7. DataUnder(c)
  BY <1>2, <1>4, DataMonotonic DEF IInv
<1>8. ws \in Seq(WritesUnder(c)) /\ es \in Seq(EventsUnder(c))
  BY <1>2, <1>4, <1>5, <1>6, ViewType, SetEvents3Type
<1>9. pending[d] \in Seq(WritesUnder(c)) /\ events[d] \in Seq(EventsUnder(c))
  BY <1>7 DEF DataUnder
<1>10. /\ pending[d] \o ws \in Seq(WritesUnder(c)) /\ events[d] \o es \in Seq(EventsUnder(c))
       /\ Len(pending[d] \o ws) >= Len(pending[d])
  <2> HIDE DEF ws, es
  <2> QED BY <1>8, <1>9, Joined
<1>11. /\ pending' \in [Devices -> Seq(WritesUnder(c))]
       /\ events' \in [Devices -> Seq(EventsUnder(c))]
       /\ alert' \in [Devices -> AlertsUnder(c) \cup {Null}]
       /\ \A e \in Devices : Len(pending'[e]) >= Len(pending[e])
       /\ \A e \in Devices : events'[e] # <<>> \/ alert'[e] # Null =>
            heard[e] \in RecordsUnder(confirmed)
  <2> HIDE DEF ws, es
  <2> QED BY <1>1, <1>2, <1>7, <1>10, Kept DEF DataUnder
<1>12. QED
  <2> HIDE DEF ws, es
  <2> QED BY <1>1, <1>4, <1>11, Kept, PhoneStep DEF TablesOK

\* What dismissing session n + 1 queues, evs being left to run.
LEMMA DismissType ==
  ASSUME IInv, NEW d \in Devices, heard[d] \in RecordsUnder(confirmed),
         NEW n \in Nat, NEW evs \in Seq(EventsUnder(confirmed))
  PROVE  /\ Append(pending[d], Remove(n + 1)) \in Seq(WritesUnder(confirmed))
         /\ Len(Append(pending[d], Remove(n + 1))) >= Len(pending[d])
         /\ evs \o SetEvents(View(d), Remove(n + 1)) \in Seq(EventsUnder(confirmed))
<1>1. n + 1 \in Nat /\ confirmed \in Nat /\ pending[d] \in Seq(WritesUnder(confirmed))
  BY PhoneFacts
<1>2. Remove(n + 1) \in Writes /\ Remove(n + 1) \in WritesUnder(confirmed)
  BY <1>1, RemoveType, PlainWrite
<1>3. SetEvents(View(d), Remove(n + 1)) \in Seq(EventsUnder(confirmed))
  BY <1>1, <1>2, ViewType, SetEventsType
<1>4. Len(pending[d]) \in Nat
  BY <1>1, LenProperties
<1>5. QED
  BY <1>1, <1>2, <1>3, <1>4, AppendOne, Joined

LEMMA DeclineOK ==
  ASSUME IInv, NEW d \in Devices, Decline(d)
  PROVE  IInv'
<1> DEFINE n == alert[d].n
           q == Append(pending[d], Remove(n + 1))
           es == events[d] \o SetEvents(View(d), Remove(n + 1))
<1>1. /\ alert[d] # Null /\ alert[d].type = "confirm"
      /\ alert' = [alert EXCEPT ![d] = Null]
      /\ pending' = [pending EXCEPT ![d] = q] /\ events' = [events EXCEPT ![d] = es]
      /\ UNCHANGED <<db, now, conn, taken, inbox, heard, waiting, recording, screen,
                     sessions, confirmed, faults>>
  BY DEF Decline, dismissSession, server
<1>2. /\ n \in Nat /\ heard[d] \in RecordsUnder(confirmed)
      /\ events[d] \in Seq(EventsUnder(confirmed))
  BY <1>1, PhoneFacts, ConfirmFacts
<1>3. /\ q \in Seq(WritesUnder(confirmed)) /\ Len(q) >= Len(pending[d])
      /\ es \in Seq(EventsUnder(confirmed))
  <2> HIDE DEF n
  <2> QED BY <1>2, DismissType
<1> HIDE DEF q, es
<1>4. /\ pending' \in [Devices -> Seq(WritesUnder(confirmed))]
      /\ events' \in [Devices -> Seq(EventsUnder(confirmed))]
      /\ alert' \in [Devices -> AlertsUnder(confirmed) \cup {Null}]
      /\ \A e \in Devices : Len(pending'[e]) >= Len(pending[e])
      /\ \A e \in Devices : events'[e] # <<>> \/ alert'[e] # Null =>
           heard[e] \in RecordsUnder(confirmed)
  BY <1>1, <1>2, <1>3, Kept
<1>5. QED
  BY <1>1, <1>4, Kept, PhoneStep DEF TablesOK

LEMMA CloseWarningOK ==
  ASSUME IInv, NEW d \in Devices, CloseWarning(d)
  PROVE  IInv'
<1>1. /\ alert' = [alert EXCEPT ![d] = Null]
      /\ UNCHANGED <<server, client, events, recording, screen, sessions, confirmed, faults>>
  BY DEF CloseWarning
<1>2. UNCHANGED <<db, now, conn, pending, taken, inbox, heard, waiting, events,
                  recording, screen, sessions, confirmed, faults>>
  BY <1>1 DEF server, client
<1>3. /\ alert' \in [Devices -> AlertsUnder(confirmed) \cup {Null}]
      /\ \A e \in Devices : events'[e] # <<>> \/ alert'[e] # Null =>
           heard[e] \in RecordsUnder(confirmed)
  BY <1>1, <1>2, Kept
<1>4. QED
  BY <1>2, <1>3, Kept, PhoneStep DEF TablesOK

\* The history keeps numbers of sessions.
LEMMA ListedKeys ==
  ASSUME NEW rows, NEW r, DOMAIN rows \subseteq Keys
  PROVE  DOMAIN Listed(rows, r) \subseteq Keys
BY DEF Listed

LEMMA HistoryOK ==
  ASSUME IInv, NEW d \in Devices, OpenHistory(d) \/ CloseHistory(d)
  PROVE  IInv'
<1>1. UNCHANGED <<db, now, conn, pending, taken, inbox, heard, waiting, events,
                  recording, screen, alert, confirmed, faults>>
  BY DEF OpenHistory, CloseHistory, server, client
<1>2. \/ sessions' = [sessions EXCEPT ![d] = Listed(<<>>, View(d))]
      \/ sessions' = [sessions EXCEPT ![d] = Null]
  BY DEF OpenHistory, CloseHistory
<1>3. DOMAIN Listed(<<>>, View(d)) \subseteq Keys
  BY ListedKeys
<1>4. TablesOK /\ TablesOK'
  BY <1>2, <1>3, Kept DEF TablesOK
<1>5. QED
  BY <1>1, <1>4, Kept, PhoneStep

\* The event at the head of a queue, and what is left.
LEMMA QueueFacts ==
  ASSUME IInv, NEW d \in Devices, events[d] # <<>>
  PROVE  /\ Head(events[d]) \in EventsUnder(confirmed)
         /\ Tail(events[d]) \in Seq(EventsUnder(confirmed))
         /\ heard[d] \in RecordsUnder(confirmed)
         /\ View(d) \in Records
         /\ pending[d] \in Seq(WritesUnder(confirmed))
         /\ Len(pending[d]) \in Nat
         /\ confirmed \in Nat
BY PhoneFacts, EventFacts, ViewType, Kept

LEMMA observeValueOK ==
  ASSUME IInv, NEW d \in Devices, observeValue(d)
  PROVE  IInv'
<1> DEFINE r == Head(events[d]).record
           rec == recording[d] \/ Running(r)
           rows == IF sessions[d] = Null THEN Null ELSE Listed(sessions[d], r)
<1>1. /\ events[d] # <<>> /\ Head(events[d]).type = "value"
      /\ events' = [events EXCEPT ![d] = Tail(events[d])]
      /\ recording' = [recording EXCEPT ![d] = rec]
      /\ screen' = [screen EXCEPT ![d] =
           [title |-> IF rec THEN "Stop" ELSE "Start",
            checkIn |-> IF rec THEN ShownIn(r) ELSE Null]]
      /\ sessions' = [sessions EXCEPT ![d] = rows]
      /\ UNCHANGED <<db, now, conn, pending, taken, inbox, heard, waiting, alert,
                     confirmed>>
  BY DEF observeValue, HasEvent, updateScreen, server, client
<1>2. r \in Records /\ Tail(events[d]) \in Seq(EventsUnder(confirmed))
      /\ heard[d] \in RecordsUnder(confirmed)
  BY <1>1, QueueFacts, ValueFacts
<1>3. rec \in BOOLEAN /\ ShownIn(r) \in 0..MaxTime
  <2>1. recording[d] \in BOOLEAN /\ Running(r) \in BOOLEAN
    BY Kept DEF Running, Child
  <2>2. QED
    BY <1>2, <2>1, ShownInType
<1>4. rows # Null => DOMAIN rows \subseteq Keys
  BY Kept, ListedKeys DEF TablesOK
<1> HIDE DEF r, rec, rows
<1>5. /\ events' \in [Devices -> Seq(EventsUnder(confirmed))]
      /\ \A e \in Devices : events'[e] # <<>> \/ alert'[e] # Null =>
           heard[e] \in RecordsUnder(confirmed)
  BY <1>1, <1>2, Kept
<1>6. recording' \in [Devices -> BOOLEAN] /\ screen' \in [Devices -> Screens]
  <2>1. [title |-> IF rec THEN "Stop" ELSE "Start",
         checkIn |-> IF rec THEN ShownIn(r) ELSE Null] \in Screens
    BY <1>3 DEF Screens
  <2>2. QED
    BY <1>1, <1>3, <2>1, Kept
<1>7. TablesOK'
  BY <1>1, <1>4, Kept DEF TablesOK
<1>8. faults' \in Faults
  <2>1. faults' = [faults EXCEPT !.unshown = faults.unshown \ {d}]
    BY DEF observeValue
  <2>2. faults \in Faults /\ faults.unshown \ {d} \in SUBSET Devices
    BY Kept DEF Faults
  <2>3. QED
    BY <2>1, <2>2 DEF Faults
<1>9. QED
  BY <1>1, <1>5, <1>6, <1>7, <1>8, Kept, PhoneStep

LEMMA checkInOK ==
  ASSUME IInv, NEW d \in Devices, checkIn(d)
  PROVE  IInv'
<1> DEFINE n == Head(events[d]).n
           w == Set(In(n + 1), now)
           q == Append(pending[d], w)
           es == Tail(events[d]) \o SetEvents(View(d), w)
<1>1. /\ events[d] # <<>> /\ Head(events[d]).type = "tap"
      /\ pending' = [pending EXCEPT ![d] = q] /\ events' = [events EXCEPT ![d] = es]
      /\ screen' = [screen EXCEPT ![d] = [title |-> "Stop", checkIn |-> now]]
      /\ UNCHANGED <<db, now, conn, taken, inbox, heard, waiting, recording, alert,
                     sessions, confirmed, faults>>
  BY DEF checkIn, HasEvent, updateScreen, server
<1>2. n \in Nat /\ n + 1 \in Nat /\ now \in Times
  BY <1>1, QueueFacts, TapFacts, Kept
<1> HIDE DEF n
<1>3. w \in Writes /\ w \in WritesUnder(confirmed)
  BY <1>1, <1>2, SetInType, PlainWrite, QueueFacts
<1> HIDE DEF w
<1>4. SetEvents(View(d), w) \in Seq(EventsUnder(confirmed))
  BY <1>1, <1>3, QueueFacts, SetEventsType
<1>5. /\ q \in Seq(WritesUnder(confirmed)) /\ Len(q) >= Len(pending[d])
      /\ es \in Seq(EventsUnder(confirmed)) /\ heard[d] \in RecordsUnder(confirmed)
  BY <1>1, <1>3, <1>4, QueueFacts, AppendOne, Joined
<1> HIDE DEF q, es
<1>6. /\ pending' \in [Devices -> Seq(WritesUnder(confirmed))]
      /\ events' \in [Devices -> Seq(EventsUnder(confirmed))]
      /\ \A e \in Devices : Len(pending'[e]) >= Len(pending[e])
      /\ \A e \in Devices : events'[e] # <<>> \/ alert'[e] # Null =>
           heard[e] \in RecordsUnder(confirmed)
  BY <1>1, <1>5, Kept
<1>7. screen' \in [Devices -> Screens]
  BY <1>1, <1>2, TimesFacts, Kept DEF Screens
<1>8. QED
  BY <1>1, <1>6, <1>7, Kept, PhoneStep DEF TablesOK

LEMMA readSessionOK ==
  ASSUME IInv, NEW d \in Devices, readSession(d)
  PROVE  IInv'
<1> DEFINE e == Head(events[d])
           s == StopRead(e.n, e.total, Field(View(d), In(e.n + 1)))
           es == Append(Tail(events[d]), s)
<1>1. /\ events[d] # <<>> /\ e.type = "tap"
      /\ events' = [events EXCEPT ![d] = es]
      /\ screen' = [screen EXCEPT ![d] = [title |-> "Start", checkIn |-> Null]]
      /\ UNCHANGED <<db, now, conn, pending, taken, inbox, heard, waiting, recording,
                     alert, sessions, confirmed, faults>>
  BY DEF readSession, HasEvent, updateScreen, server, client
<1>2. e.n \in Nat /\ e.n + 1 \in Nat /\ e.total \in Nat /\ e.total <= confirmed
  BY <1>1, QueueFacts, TapFacts
<1>3. Field(View(d), In(e.n + 1)) \in Times \cup {Null}
  <2> HIDE DEF e
  <2> QED BY <1>1, <1>2, QueueFacts, RecordFacts
<1>4. s \in EventsUnder(confirmed)
  <2> HIDE DEF e
  <2>1. s \in Events /\ s.total = e.total
    BY <1>2, <1>3 DEF StopRead, Events
  <2> QED BY <1>2, <2>1 DEF EventsUnder
<1> HIDE DEF s
<1>5. es \in Seq(EventsUnder(confirmed)) /\ heard[d] \in RecordsUnder(confirmed)
  BY <1>1, <1>4, QueueFacts, AppendOne
<1> HIDE DEF es
<1>6. /\ events' \in [Devices -> Seq(EventsUnder(confirmed))]
      /\ \A p \in Devices : events'[p] # <<>> \/ alert'[p] # Null =>
           heard[p] \in RecordsUnder(confirmed)
      /\ screen' \in [Devices -> Screens]
  BY <1>1, <1>5, Kept DEF Screens
<1>7. QED
  BY <1>1, <1>6, Kept, PhoneStep DEF TablesOK

\* The phones on which an alert was not shown are phones.
LEMMA PresentFaults ==
  ASSUME IInv, NEW d \in Devices, NEW a, present(d, a)
  PROVE  faults' \in Faults
<1> DEFINE u == IF alert[d] = Null THEN faults.unshown ELSE faults.unshown \cup {d}
<1>1. faults \in Faults
  BY Kept
<1>2. u \in SUBSET Devices
  BY <1>1 DEF Faults
<1>3. faults' = [faults EXCEPT !.unshown = u]
  BY DEF present
<1> HIDE DEF u
<1>4. QED
  BY <1>1, <1>2, <1>3 DEF Faults

\* A session long enough to be asked about is an interval of the clock.
LEMMA IntervalOK ==
  ASSUME NEW i \in Times, NEW o \in Times, LongEnough(o - i)
  PROVE  o - i \in Intervals
<1>1. /\ i \in 1..MaxTime /\ o \in 1..MaxTime /\ o - i > Limit
      /\ MaxTime \in Nat /\ Limit \in Nat
  BY ConstantsOK DEF Times, LongEnough
<1> QED BY <1>1 DEF Intervals

\* The question asked carries the total that was read.
LEMMA confirmSessionOK ==
  ASSUME IInv, NEW d \in Devices, confirmSession(d)
  PROVE  IInv'
<1> DEFINE e == Head(events[d])
           a == [type |-> "confirm", n |-> e.n, total |-> e.total,
                 interval |-> now - e.in, out |-> now]
<1>1. /\ events[d] # <<>> /\ e.type = "stop" /\ e.in # Null
      /\ LongEnough(now - e.in)
      /\ alert' = [alert EXCEPT ![d] = IF alert[d] = Null THEN a ELSE alert[d]]
      /\ events' = [events EXCEPT ![d] = Tail(events[d])]
      /\ UNCHANGED <<db, now, conn, pending, taken, inbox, heard, waiting, recording,
                     screen, sessions, confirmed>>
      /\ faults' \in Faults
  <2>1. faults' \in Faults
    BY PresentFaults DEF confirmSession
  <2>2. QED
    BY <2>1 DEF confirmSession, HasEvent, present, server, client
<1>2. e.n \in Nat /\ e.total \in Nat /\ e.total <= confirmed /\ e.in \in Times
      /\ now \in Times
  BY <1>1, QueueFacts, StopFacts, Kept
<1>3. now - e.in \in Intervals
  <2> HIDE DEF e
  <2> QED BY <1>1, <1>2, IntervalOK
<1>4. a \in AlertsUnder(confirmed)
  <2> HIDE DEF e
  <2>1. a \in Alerts /\ a.total = e.total
    BY <1>2, <1>3 DEF Alerts
  <2> QED BY <1>2, <2>1 DEF AlertsUnder
<1> HIDE DEF a
<1>5. /\ events' \in [Devices -> Seq(EventsUnder(confirmed))]
      /\ alert' \in [Devices -> AlertsUnder(confirmed) \cup {Null}]
      /\ \A p \in Devices : events'[p] # <<>> \/ alert'[p] # Null =>
           heard[p] \in RecordsUnder(confirmed)
  BY <1>1, <1>4, QueueFacts, Kept
<1>6. QED
  BY <1>1, <1>5, Kept, PhoneStep DEF TablesOK

LEMMA rejectSessionOK ==
  ASSUME IInv, NEW d \in Devices, rejectSession(d)
  PROVE  IInv'
<1> DEFINE n == Head(events[d]).n
           a == [type |-> "warning"]
           q == Append(pending[d], Remove(n + 1))
           es == Tail(events[d]) \o SetEvents(View(d), Remove(n + 1))
<1>1. /\ events[d] # <<>> /\ Head(events[d]).type = "stop"
      /\ alert' = [alert EXCEPT ![d] = IF alert[d] = Null THEN a ELSE alert[d]]
      /\ pending' = [pending EXCEPT ![d] = q] /\ events' = [events EXCEPT ![d] = es]
      /\ UNCHANGED <<db, now, conn, taken, inbox, heard, waiting, recording, screen,
                     sessions, confirmed>>
      /\ faults' \in Faults
  <2>1. faults' \in Faults
    BY PresentFaults DEF rejectSession
  <2>2. QED
    BY <2>1 DEF rejectSession, HasEvent, present, dismissSession, server
<1>2. n \in Nat
  BY <1>1, QueueFacts, StopFacts
<1>3. /\ q \in Seq(WritesUnder(confirmed)) /\ Len(q) >= Len(pending[d])
      /\ es \in Seq(EventsUnder(confirmed)) /\ heard[d] \in RecordsUnder(confirmed)
  <2> HIDE DEF n
  <2> QED BY <1>1, <1>2, QueueFacts, DismissType
<1>4. a \in AlertsUnder(confirmed)
  BY DEF AlertsUnder, Alerts
<1> HIDE DEF q, es, a
<1>5. /\ pending' \in [Devices -> Seq(WritesUnder(confirmed))]
      /\ events' \in [Devices -> Seq(EventsUnder(confirmed))]
      /\ alert' \in [Devices -> AlertsUnder(confirmed) \cup {Null}]
      /\ \A e \in Devices : Len(pending'[e]) >= Len(pending[e])
      /\ \A e \in Devices : events'[e] # <<>> \/ alert'[e] # Null =>
           heard[e] \in RecordsUnder(confirmed)
  BY <1>1, <1>3, <1>4, Kept
<1>6. QED
  BY <1>1, <1>5, Kept, PhoneStep DEF TablesOK

-----------------------------------------------------------------------------
(* The network, the clock and process deaths.                              *)

\* What such steps keep: how each phone's acknowledgements count.
LEMMA NetworkStep ==
  ASSUME IInv, confirmed' = confirmed,
         NEW c \in Nat, c = confirmed, DataUnder(c)',
         conn' \in [Devices -> BOOLEAN],
         taken' \in [Devices -> Nat],
         \A e \in Devices : taken'[e] <= Len(pending'[e])
                            /\ taken'[e] = Cardinality(AckSet(inbox'[e])),
         \A e \in Devices : conn'[e] \/ taken'[e] = 0,
         waiting' \in [Devices -> Nat],
         recording' \in [Devices -> BOOLEAN],
         screen' \in [Devices -> Screens],
         TablesOK',
         now' \in Times,
         faults' \in Faults
  PROVE  IInv'
<1>1. DataUnder(confirmed)'
  BY DEF DataUnder
<1>2. \A e \in Devices : Acks(e)' = AckSet(inbox'[e])
  BY DEF Acks, AckSet
<1>3. confirmed' \in Nat
  OBVIOUS
<1>4. ControlOK'
  BY <1>2, <1>3 DEF ControlOK, Screens, Faults
<1>5. QED
  BY <1>1, <1>4 DEF IInv

\* Where such a step starts from.
LEMMA NetworkKept ==
  ASSUME IInv
  PROVE  /\ confirmed \in Nat /\ now \in Times
         /\ conn \in [Devices -> BOOLEAN]
         /\ taken \in [Devices -> Nat]
         /\ waiting \in [Devices -> Nat]
         /\ TablesOK
         /\ db \in RecordsUnder(confirmed)
         /\ pending \in [Devices -> Seq(WritesUnder(confirmed))]
         /\ inbox \in [Devices -> Seq(MessagesUnder(confirmed))]
         /\ heard \in [Devices -> RecordsUnder(confirmed) \cup {Null}]
         /\ events \in [Devices -> Seq(EventsUnder(confirmed))]
         /\ alert \in [Devices -> AlertsUnder(confirmed) \cup {Null}]
         /\ \A e \in Devices : events[e] # <<>> \/ alert[e] # Null =>
              heard[e] \in RecordsUnder(confirmed)
         /\ \A e \in Devices : /\ taken[e] \in Nat /\ taken[e] <= Len(pending[e])
                               /\ taken[e] = Cardinality(AckSet(inbox[e]))
                               /\ Len(pending[e]) \in Nat
                               /\ conn[e] \/ taken[e] = 0
<1>1. \A e \in Devices : /\ taken[e] \in Nat /\ taken[e] <= Len(pending[e])
                         /\ taken[e] = Cardinality(AckSet(inbox[e]))
                         /\ conn[e] \/ taken[e] = 0
  BY AcksAreAckSet DEF IInv, ControlOK
<1>2. QED
  BY <1>1, Kept DEF IInv, ControlOK, DataUnder

LEMMA RelaunchedOK ==
  ASSUME IInv, NEW d \in Devices, Relaunched(d), faults' \in Faults
  PROVE  IInv'
<1> DEFINE m == [record |-> db, ack |-> FALSE]
<1>1. PICK c \in Nat : c = confirmed
  BY NetworkKept
<1>2. m \in MessagesUnder(c) /\ Cardinality(AckSet(<<m>>)) = 0
  BY <1>1, NetworkKept, AckNone DEF MessagesUnder
<1>3. <<m>> \in Seq(MessagesUnder(c))
  BY <1>2
<1>4. /\ conn' = [conn EXCEPT ![d] = TRUE]
      /\ pending' = [pending EXCEPT ![d] = <<>>]
      /\ taken' = [taken EXCEPT ![d] = 0]
      /\ inbox' = [inbox EXCEPT ![d] = <<m>>]
      /\ heard' = [heard EXCEPT ![d] = Null]
      /\ waiting' = [waiting EXCEPT ![d] = 0]
      /\ events' = [events EXCEPT ![d] = <<>>]
      /\ recording' = [recording EXCEPT ![d] = FALSE]
      /\ screen' = [screen EXCEPT ![d] = Fresh]
      /\ alert' = [alert EXCEPT ![d] = Null]
      /\ sessions' = [sessions EXCEPT ![d] = Null]
      /\ UNCHANGED <<db, now, confirmed>>
  BY DEF Relaunched, server
<1> HIDE DEF m
<1>5. DataUnder(c)'
  BY <1>1, <1>3, <1>4, NetworkKept DEF DataUnder
<1>6. \A e \in Devices : taken'[e] <= Len(pending'[e])
                         /\ taken'[e] = Cardinality(AckSet(inbox'[e]))
  <2> TAKE e \in Devices
  <2>1. CASE e = d
    <3>1. taken'[e] = 0 /\ pending'[e] = <<>> /\ inbox'[e] = <<m>>
      BY <1>4, <2>1, NetworkKept
    <3> QED BY <1>2, <3>1
  <2>2. CASE e # d
    <3>1. taken'[e] = taken[e] /\ pending'[e] = pending[e] /\ inbox'[e] = inbox[e]
      BY <1>4, <2>2, NetworkKept
    <3> QED BY <3>1, NetworkKept
  <2> QED BY <2>1, <2>2
<1>7. /\ conn' \in [Devices -> BOOLEAN] /\ taken' \in [Devices -> Nat]
      /\ waiting' \in [Devices -> Nat] /\ recording' \in [Devices -> BOOLEAN]
      /\ screen' \in [Devices -> Screens] /\ TablesOK' /\ now' \in Times
  <2>1. Fresh \in Screens
    BY DEF Fresh, Screens
  <2>2. QED
    BY <1>4, <2>1, Kept, NetworkKept DEF TablesOK
<1>8. \A e \in Devices : conn'[e] \/ taken'[e] = 0
  BY <1>4, NetworkKept
<1>9. QED
  BY <1>1, <1>4, <1>5, <1>6, <1>7, <1>8, NetworkStep

LEMMA CrashKillOK ==
  ASSUME IInv, NEW d \in Devices, Crash(d) \/ Kill(d)
  PROVE  IInv'
<1>1. CASE Crash(d)
  <2>1. faults \in Faults /\ faults' = [faults EXCEPT !.unshown = @ \ {d}] /\ Relaunched(d)
    BY <1>1, Kept DEF Crash
  <2>2. faults' \in Faults
    BY <2>1 DEF Faults
  <2>3. QED
    BY <2>1, <2>2, RelaunchedOK
<1>2. CASE Kill(d)
  <2>1. PICK u : u = IF taken[d] < Len(pending[d]) THEN faults.lost \cup {d} ELSE faults.lost
    OBVIOUS
  <2>2. faults \in Faults /\ faults.kills < MaxKills /\ MaxKills \in Nat
        /\ faults' = [faults EXCEPT !.kills = faults.kills + 1, !.unshown = faults.unshown \ {d},
                                    !.lost = u]
        /\ Relaunched(d)
    BY <1>2, <2>1, Kept, ConstantsOK DEF Kill
  <2>3. faults.kills + 1 \in 0..MaxKills /\ u \in SUBSET Devices
    BY <2>1, <2>2 DEF Faults
  <2>4. faults' \in Faults
    BY <2>2, <2>3 DEF Faults
  <2>5. QED
    BY <2>2, <2>4, RelaunchedOK
<1>3. QED
  BY <1>1, <1>2

LEMMA TakeWriteOK ==
  ASSUME IInv, NEW d \in Devices, TakeWrite(d)
  PROVE  IInv'
<1> DEFINE w == pending[d][taken[d] + 1]
           m(e) == [record |-> Apply(db, w), ack |-> e = d]
<1>1. PICK c \in Nat : c = confirmed
  BY NetworkKept
<1>2. /\ conn[d] /\ taken[d] < Len(pending[d])
      /\ db' = Apply(db, w)
      /\ taken' = [taken EXCEPT ![d] = taken[d] + 1]
      /\ inbox' = [e \in Devices |->
           IF conn[e] THEN Append(inbox[e], m(e)) ELSE inbox[e]]
      /\ UNCHANGED <<now, conn, pending, heard, waiting, events, recording, screen,
                     alert, sessions, confirmed, faults>>
  BY DEF TakeWrite, app
<1>3. w \in WritesUnder(c)
  <2>1. pending[d] \in Seq(WritesUnder(c)) /\ taken[d] \in Nat /\ Len(pending[d]) \in Nat
    BY <1>1, NetworkKept
  <2>2. QED
    BY <1>2, <2>1, ElementOfSeq
<1> HIDE DEF w
<1>4. db' \in RecordsUnder(c)
  BY <1>1, <1>2, <1>3, NetworkKept, ApplyUnder
<1>5. \A e \in Devices : m(e) \in MessagesUnder(c)
  BY <1>2, <1>4 DEF MessagesUnder
<1>6. \A e \in Devices :
        /\ inbox[e] \in Seq(MessagesUnder(c))
        /\ Append(inbox[e], m(e)) \in Seq(MessagesUnder(c))
        /\ Cardinality(AckSet(Append(inbox[e], m(e)))) =
             IF e = d THEN Cardinality(AckSet(inbox[e])) + 1 ELSE Cardinality(AckSet(inbox[e]))
  <2> TAKE e \in Devices
  <2>1. inbox[e] \in Seq(MessagesUnder(c)) /\ m(e) \in MessagesUnder(c)
    BY <1>1, <1>5, NetworkKept
  <2>2. m(e).ack <=> e = d
    OBVIOUS
  <2> HIDE DEF m
  <2>3. Cardinality(AckSet(Append(inbox[e], m(e)))) =
          IF m(e).ack THEN Cardinality(AckSet(inbox[e])) + 1 ELSE Cardinality(AckSet(inbox[e]))
    BY <2>1, AckAppend
  <2>4. Append(inbox[e], m(e)) \in Seq(MessagesUnder(c))
    BY <2>1, AppendOne
  <2> QED BY <2>1, <2>2, <2>3, <2>4
<1> HIDE DEF m
<1>7. inbox' \in [Devices -> Seq(MessagesUnder(c))]
  BY <1>2, <1>6
<1>8. DataUnder(c)'
  BY <1>1, <1>2, <1>4, <1>7, NetworkKept DEF DataUnder
<1>9. \A e \in Devices : taken'[e] <= Len(pending'[e])
                         /\ taken'[e] = Cardinality(AckSet(inbox'[e]))
  <2> TAKE e \in Devices
  <2>1. /\ taken[e] \in Nat /\ taken[e] <= Len(pending[e]) /\ Len(pending[e]) \in Nat
        /\ taken[e] = Cardinality(AckSet(inbox[e]))
    BY NetworkKept
  <2>2. CASE e = d
    <3>1. taken'[e] = taken[e] + 1 /\ pending'[e] = pending[e]
          /\ inbox'[e] = Append(inbox[e], m(e))
      BY <1>2, <2>2, NetworkKept
    <3> QED BY <1>2, <1>6, <2>1, <2>2, <3>1
  <2>3. CASE e # d
    <3>1. taken'[e] = taken[e] /\ pending'[e] = pending[e]
          /\ inbox'[e] = IF conn[e] THEN Append(inbox[e], m(e)) ELSE inbox[e]
      BY <1>2, <2>3, NetworkKept
    <3> QED BY <1>6, <2>1, <2>3, <3>1
  <2> QED BY <2>2, <2>3
<1>10. taken' \in [Devices -> Nat]
  BY <1>2, NetworkKept
<1>11. \A e \in Devices : conn'[e] \/ taken'[e] = 0
  BY <1>2, NetworkKept
<1>12. /\ conn' \in [Devices -> BOOLEAN] /\ TablesOK' /\ waiting' \in [Devices -> Nat]
       /\ recording' \in [Devices -> BOOLEAN] /\ screen' \in [Devices -> Screens]
       /\ now' \in Times /\ faults' \in Faults
  BY <1>2, Kept, NetworkKept DEF TablesOK
<1>13. QED
  BY <1>1, <1>2, <1>8, <1>9, <1>10, <1>11, <1>12, NetworkStep

\* Hearing of the record: the head of the inbox is taken, with its write if it
\* is an acknowledgement.
LEMMA HearOK ==
  ASSUME IInv, NEW d \in Devices, Hear(d)
  PROVE  IInv'
<1> DEFINE m == Head(inbox[d])
           q == IF m.ack THEN Tail(pending[d]) ELSE pending[d]
           new == Under(m.record, q)
           reads == [i \in 1..waiting[d] |-> TapRead(new)]
           es == IF heard[d] = Null THEN <<Value(new)>> \o reads ELSE Raised(View(d), new)
           t == IF m.ack THEN taken[d] - 1 ELSE taken[d]
<1>1. PICK c \in Nat : c = confirmed
  BY NetworkKept
<1>2. /\ inbox[d] # <<>>
      /\ inbox' = [inbox EXCEPT ![d] = Tail(inbox[d])]
      /\ heard' = [heard EXCEPT ![d] = m.record]
      /\ pending' = [pending EXCEPT ![d] = q]
      /\ taken' = [taken EXCEPT ![d] = t]
      /\ waiting' = [waiting EXCEPT ![d] = 0]
      /\ events' = [events EXCEPT ![d] = events[d] \o es]
      /\ UNCHANGED <<db, now, conn, recording, screen, alert, sessions, confirmed, faults>>
  BY DEF Hear, server
<1>3. inbox[d] \in Seq(MessagesUnder(c)) /\ pending[d] \in Seq(WritesUnder(c))
      /\ events[d] \in Seq(EventsUnder(c)) /\ waiting[d] \in Nat
  BY <1>1, NetworkKept
<1>4. m \in MessagesUnder(c) /\ Tail(inbox[d]) \in Seq(MessagesUnder(c))
  BY <1>2, <1>3, HeadTailProperties
<1>5. m.record \in RecordsUnder(c) /\ m.ack \in BOOLEAN
  <2> HIDE DEF m
  <2> QED BY <1>4 DEF MessagesUnder
<1>6. /\ m.ack => taken[d] > 0
      /\ Cardinality(AckSet(Tail(inbox[d]))) = t
  <2>1. taken[d] = Cardinality(AckSet(inbox[d]))
    BY NetworkKept
  <2>2. QED
    BY <1>1, <1>2, <1>3, <2>1, AckTail
<1>7. q \in Seq(WritesUnder(c)) /\ t \in Nat /\ t <= Len(q)
  <2>1. taken[d] \in Nat /\ taken[d] <= Len(pending[d]) /\ Len(pending[d]) \in Nat
    BY NetworkKept
  <2> HIDE DEF m
  <2>2. CASE m.ack
    <3>1. pending[d] # <<>>
      BY <1>6, <2>1, <2>2
    <3>2. Tail(pending[d]) \in Seq(WritesUnder(c)) /\ Len(Tail(pending[d])) = Len(pending[d]) - 1
      BY <1>3, <3>1, HeadTailProperties
    <3> QED BY <1>6, <2>1, <2>2, <3>2
  <2>3. CASE ~m.ack
    BY <1>3, <2>1, <2>3
  <2> QED BY <2>2, <2>3
<1> HIDE DEF m, q, t
<1>8. new \in RecordsUnder(c) /\ new \in Records
  BY <1>5, <1>7, UnderUnder DEF RecordsUnder
<1> HIDE DEF new
<1>9. es \in Seq(EventsUnder(c))
  <2>1. TapRead(new) \in EventsUnder(c) /\ Value(new) \in EventsUnder(c)
    BY <1>8, TapReadType, ValueType
  <2>2. reads \in Seq(EventsUnder(c)) /\ <<Value(new)>> \in Seq(EventsUnder(c))
    <3>1. PICK k \in Nat : k = waiting[d]
      BY <1>3
    <3>2. PICK x \in EventsUnder(c) : x = TapRead(new)
      BY <2>1
    <3>3. [i \in 1..k |-> x] \in Seq(EventsUnder(c))
      OBVIOUS
    <3>4. PICK v \in EventsUnder(c) : v = Value(new)
      BY <2>1
    <3>5. <<v>> \in Seq(EventsUnder(c))
      OBVIOUS
    <3> QED BY <3>1, <3>2, <3>3, <3>4, <3>5
  <2>3. <<Value(new)>> \o reads \in Seq(EventsUnder(c))
    <3> HIDE DEF reads
    <3> QED BY <2>2, Joined
  <2>4. Raised(View(d), new) \in Seq(EventsUnder(c))
    BY <1>8, RaisedType
  <2> QED BY <2>3, <2>4
<1> HIDE DEF es
<1>10. events[d] \o es \in Seq(EventsUnder(c))
  BY <1>3, <1>9, Joined
<1>11. \A e \in Devices : events'[e] # <<>> \/ alert'[e] # Null => heard'[e] \in RecordsUnder(c)
  <2> TAKE e \in Devices
  <2>1. CASE e = d
    <3>1. heard'[e] = m.record
      BY <1>2, <2>1, NetworkKept
    <3> QED BY <1>5, <3>1
  <2>2. CASE e # d
    BY <1>1, <1>2, <2>2, NetworkKept
  <2> QED BY <2>1, <2>2
<1>12. DataUnder(c)'
  BY <1>1, <1>2, <1>4, <1>5, <1>7, <1>10, <1>11, NetworkKept DEF DataUnder
<1>13. \A e \in Devices : taken'[e] <= Len(pending'[e])
                          /\ taken'[e] = Cardinality(AckSet(inbox'[e]))
  <2> TAKE e \in Devices
  <2>1. CASE e = d
    <3>1. taken'[e] = t /\ pending'[e] = q /\ inbox'[e] = Tail(inbox[d])
      BY <1>2, <2>1, NetworkKept
    <3> QED BY <1>6, <1>7, <3>1
  <2>2. CASE e # d
    <3>1. taken'[e] = taken[e] /\ pending'[e] = pending[e] /\ inbox'[e] = inbox[e]
      BY <1>2, <2>2, NetworkKept
    <3> QED BY <3>1, NetworkKept
  <2> QED BY <2>1, <2>2
<1>14. /\ taken' \in [Devices -> Nat] /\ waiting' \in [Devices -> Nat]
       /\ \A e \in Devices : conn'[e] \/ taken'[e] = 0
  <2>1. taken' \in [Devices -> Nat] /\ waiting' \in [Devices -> Nat]
    BY <1>2, <1>7, NetworkKept
  <2>2. \A e \in Devices : conn[e] \/ taken[e] = 0
    BY NetworkKept
  <2>3. conn[d] \/ t = 0
    BY <1>6, <2>2 DEF t
  <2>4. QED
    BY <1>2, <2>1, <2>2, <2>3, NetworkKept
<1>15. QED
  BY <1>1, <1>2, <1>12, <1>13, <1>14, Kept, NetworkKept, NetworkStep DEF TablesOK

\* A connection lost, or made again: nothing is on the way, or one message.
LEMMA ConnectionOK ==
  ASSUME IInv, NEW d \in Devices, Disconnect(d) \/ Reconnect(d)
  PROVE  IInv'
<1> DEFINE m == [record |-> db, ack |-> FALSE]
<1>1. PICK c \in Nat : c = confirmed
  BY NetworkKept
<1>2. PICK s \in {<<>>, <<m>>} :
      /\ conn' = [conn EXCEPT ![d] = ~conn[d]]
      /\ taken' = [taken EXCEPT ![d] = 0]
      /\ inbox' = [inbox EXCEPT ![d] = s]
      /\ UNCHANGED <<db, now, pending, heard, waiting, events, recording, screen, alert,
                     sessions, confirmed>>
  <2>1. CASE Disconnect(d)
    BY <2>1 DEF Disconnect, server, app
  <2>2. CASE Reconnect(d)
    <3>1. taken = [taken EXCEPT ![d] = 0]
      BY <2>2, NetworkKept DEF Reconnect
    <3> QED BY <2>2, <3>1, NetworkKept DEF Reconnect, server, app
  <2> QED BY <2>1, <2>2
<1>3. m \in MessagesUnder(c) /\ Cardinality(AckSet(s)) = 0
  BY <1>1, NetworkKept, AckNone DEF MessagesUnder
<1>4. s \in Seq(MessagesUnder(c))
  <2>1. <<m>> \in Seq(MessagesUnder(c))
    <3> HIDE DEF m
    <3> QED BY <1>3
  <2>2. <<>> \in Seq(MessagesUnder(c))
    OBVIOUS
  <2> HIDE DEF m
  <2> QED BY <2>1, <2>2
<1> HIDE DEF m
<1>5. inbox' \in [Devices -> Seq(MessagesUnder(c))]
  BY <1>1, <1>2, <1>4, NetworkKept
<1>6. DataUnder(c)'
  BY <1>1, <1>2, <1>5, NetworkKept DEF DataUnder
<1>7. \A e \in Devices : /\ taken'[e] <= Len(pending'[e])
                         /\ taken'[e] = Cardinality(AckSet(inbox'[e]))
                         /\ conn'[e] \/ taken'[e] = 0
  <2> TAKE e \in Devices
  <2>1. CASE e = d
    <3>1. taken'[e] = 0 /\ pending'[e] = pending[e] /\ inbox'[e] = s
      BY <1>2, <2>1, NetworkKept
    <3> QED BY <1>3, <3>1, NetworkKept
  <2>2. CASE e # d
    <3>1. /\ taken'[e] = taken[e] /\ pending'[e] = pending[e] /\ inbox'[e] = inbox[e]
          /\ conn'[e] = conn[e]
      BY <1>2, <2>2, NetworkKept
    <3> QED BY <3>1, NetworkKept
  <2> QED BY <2>1, <2>2
<1>8. faults' \in Faults
  <2>1. CASE Disconnect(d)
    <3>1. faults \in Faults /\ faults.disconnects < MaxDisconnects /\ MaxDisconnects \in Nat
          /\ faults' = [faults EXCEPT !.disconnects = @ + 1]
      BY <2>1, Kept, ConstantsOK DEF Disconnect
    <3>2. faults.disconnects + 1 \in 0..MaxDisconnects
      BY <3>1 DEF Faults
    <3> QED BY <3>1, <3>2 DEF Faults
  <2>2. CASE Reconnect(d)
    BY <2>2, Kept DEF Reconnect
  <2> QED BY <2>1, <2>2
<1>9. /\ conn' \in [Devices -> BOOLEAN] /\ taken' \in [Devices -> Nat] /\ TablesOK'
      /\ waiting' \in [Devices -> Nat] /\ recording' \in [Devices -> BOOLEAN]
      /\ screen' \in [Devices -> Screens] /\ now' \in Times
  BY <1>2, Kept, NetworkKept DEF TablesOK
<1>10. QED
  BY <1>1, <1>2, <1>6, <1>7, <1>8, <1>9, NetworkStep

LEMMA TickOK ==
  ASSUME IInv, Tick
  PROVE  IInv'
<1>1. /\ now' \in Times
      /\ UNCHANGED <<db, conn, pending, taken, inbox, heard, waiting, events, recording,
                     screen, alert, sessions, confirmed, faults>>
  BY Kept, ConstantsOK DEF Tick, client, app, Times
<1>2. DataUnder(confirmed)'
  BY <1>1 DEF IInv, DataUnder
<1>3. ControlOK'
  BY <1>1 DEF IInv, ControlOK, TablesOK, Acks
<1>4. QED
  BY <1>2, <1>3 DEF IInv

LEMMA StutterOK ==
  ASSUME IInv, UNCHANGED vars
  PROVE  IInv'
<1>1. UNCHANGED <<db, now, conn, pending, taken, inbox, heard, waiting, events, recording,
                  screen, alert, sessions, confirmed, faults>>
  BY DEF vars, server, client, app
<1>2. DataUnder(confirmed)'
  BY <1>1 DEF IInv, DataUnder
<1>3. ControlOK'
  BY <1>1 DEF IInv, ControlOK, TablesOK, Acks
<1>4. QED
  BY <1>2, <1>3 DEF IInv

-----------------------------------------------------------------------------
(* The theorems.                                                           *)

LEMMA Inductive == IInv /\ [Next]_vars => IInv'
<1> SUFFICES ASSUME IInv, [Next]_vars
             PROVE  IInv'
  OBVIOUS
<1>1. CASE UNCHANGED vars
  BY <1>1, StutterOK
<1>2. CASE Tick
  BY <1>2, TickOK
<1>3. ASSUME NEW d \in Devices, User(d)
      PROVE  IInv'
  BY <1>3, startRecordingOK, recordSessionOK, DeclineOK, CloseWarningOK, HistoryOK DEF User
<1>4. ASSUME NEW d \in Devices, MainThread(d)
      PROVE  IInv'
  BY <1>4, observeValueOK, checkInOK, readSessionOK, confirmSessionOK, rejectSessionOK,
     CrashKillOK DEF MainThread
<1>5. ASSUME NEW d \in Devices, Network(d) \/ Disconnect(d) \/ Kill(d)
      PROVE  IInv'
  BY <1>5, TakeWriteOK, HearOK, ConnectionOK, CrashKillOK DEF Network
<1>6. QED
  BY <1>1, <1>2, <1>3, <1>4, <1>5 DEF Next

LEMMA Typed == IInv => TypeOK
<1> SUFFICES ASSUME IInv
             PROVE  TypeOK
  OBVIOUS
<1>1. PICK c \in Nat : c = confirmed
  BY NetworkKept
<1>2. /\ RecordsUnder(c) \subseteq Records /\ WritesUnder(c) \subseteq Writes
      /\ MessagesUnder(c) \subseteq Messages /\ EventsUnder(c) \subseteq Events
      /\ AlertsUnder(c) \subseteq Alerts
  BY DEF RecordsUnder, WritesUnder, MessagesUnder, Messages, EventsUnder, AlertsUnder
<1>3. /\ Seq(WritesUnder(c)) \subseteq Seq(Writes)
      /\ Seq(MessagesUnder(c)) \subseteq Seq(Messages)
      /\ Seq(EventsUnder(c)) \subseteq Seq(Events)
  BY <1>2, SeqMonotonic
<1>4. /\ db \in Records
      /\ pending \in [Devices -> Seq(Writes)]
      /\ inbox \in [Devices -> Seq(Messages)]
      /\ heard \in [Devices -> Records \cup {Null}]
      /\ events \in [Devices -> Seq(Events)]
      /\ alert \in [Devices -> Alerts \cup {Null}]
  BY <1>1, <1>2, <1>3, NetworkKept
<1>5. QED
  BY <1>4 DEF IInv, ControlOK, TypeOK

\* On every phone, whatever its user and the network do, the counters stay
\* numbers, and the writes the server has taken are those whose acknowledgement
\* is on its way: the client drops a write when, and only when, it was taken.
THEOREM TypeCorrect == Spec => []TypeOK
<1>1. Spec => []IInv
  BY InitOK, Inductive, PTL DEF Spec
<1>2. QED
  BY <1>1, Typed, PTL

\* However many phones write back the totals they read, in whatever order, again
\* after a lost connection or after another phone's: the record never holds more
\* hours than were answered Yes.
THEOREM NeverMoreThanConfirmed == Spec => []ConfirmedHours
<1>1. Spec => []IInv
  BY InitOK, Inductive, PTL DEF Spec
<1>2. IInv => ConfirmedHours
  BY DEF IInv, DataUnder, RecordsUnder, ConfirmedHours
<1>3. QED
  BY <1>1, <1>2, PTL

-----------------------------------------------------------------------------
(* Why the page shows the session that runs.  A queue is current when the   *)
(* last record in it is what the phone sees, and every tap after it was     *)
(* read from that.                                                          *)

NoValueAfter(s, i) == \A j \in DOMAIN s : j > i => s[j].type # "value"

Current(s, v) == \A i \in DOMAIN s : NoValueAfter(s, i) =>
  /\ s[i].type = "value" => s[i].record = v
  /\ s[i].type = "tap" => s[i].n = v[NumSessions]

Has(s, type) == \E i \in DOMAIN s : s[i].type = type

Shown(d) == screen[d].title = "Stop" /\ screen[d].checkIn = ShownIn(View(d))

\* The session running is about to be asked about or dismissed.
Stopping(d) ==
  \/ \E i \in DOMAIN events[d] :
       events[d][i].type = "stop" /\ events[d][i].n = View(d)[NumSessions]
  \/ alert[d] # Null /\ alert[d].type = "confirm" /\ alert[d].n = View(d)[NumSessions]

\* With no record and no tap left to handle, the page shows the session that
\* runs, or is stopping it.
Follows(d) ==
  \/ Has(events[d], "value") \/ Has(events[d], "tap")
  \/ recording[d] /\ Shown(d)
  \/ ~recording[d] /\ Stopping(d)

PhoneFollows(d) == heard[d] # Null =>
  /\ Current(events[d], View(d))
  /\ Running(View(d)) /\ d \notin faults.unshown => Follows(d)

FollowInv == \A d \in Devices : PhoneFollows(d)

LEMMA TailFacts ==
  ASSUME NEW S, NEW s \in Seq(S), s # <<>>
  PROVE  /\ Tail(s) \in Seq(S) /\ Head(s) \in S /\ 1 \in DOMAIN s /\ Head(s) = s[1]
         /\ \A i \in DOMAIN Tail(s) : i \in Nat /\ i + 1 \in DOMAIN s /\ Tail(s)[i] = s[i + 1]
         /\ \A i \in DOMAIN s : i # 1 => i \in Nat /\ i - 1 \in DOMAIN Tail(s) /\ s[i] = Tail(s)[i - 1]
<1>1. /\ Len(s) \in Nat \ {0} /\ DOMAIN s = 1..Len(s) /\ Head(s) = s[1] /\ Head(s) \in S
      /\ Tail(s) \in Seq(S) /\ Len(Tail(s)) = Len(s) - 1 /\ DOMAIN Tail(s) = 1..Len(Tail(s))
      /\ \A i \in 1..Len(Tail(s)) : Tail(s)[i] = s[i + 1]
  BY HeadTailProperties, LenProperties, EmptySeq
<1>2. \A i \in DOMAIN s : i # 1 => i - 1 \in 1..Len(Tail(s)) /\ (i - 1) + 1 = i
  BY <1>1
<1>3. QED
  BY <1>1, <1>2

LEMMA CurrentTail ==
  ASSUME NEW S, NEW s \in Seq(S), s # <<>>, NEW v, Current(s, v)
  PROVE  Current(Tail(s), v)
<1>1. SUFFICES ASSUME NEW i \in DOMAIN Tail(s), NoValueAfter(Tail(s), i)
               PROVE  /\ Tail(s)[i].type = "value" => Tail(s)[i].record = v
                      /\ Tail(s)[i].type = "tap" => Tail(s)[i].n = v[NumSessions]
  BY DEF Current
<1>2. i \in Nat /\ i + 1 \in DOMAIN s /\ Tail(s)[i] = s[i + 1]
  BY TailFacts
<1>3. NoValueAfter(s, i + 1)
  <2> SUFFICES ASSUME NEW j \in DOMAIN s, j > i + 1
               PROVE  s[j].type # "value"
    BY DEF NoValueAfter
  <2>1. DOMAIN s = 1..Len(s) /\ Len(s) \in Nat
    BY LenProperties
  <2>2. j # 1 /\ j \in Nat
    BY <1>2, <2>1
  <2>3. j - 1 \in DOMAIN Tail(s) /\ s[j] = Tail(s)[j - 1] /\ j - 1 > i
    BY <1>2, <2>2, TailFacts
  <2>4. QED
    BY <2>3, <1>1 DEF NoValueAfter
<1>4. QED
  BY <1>2, <1>3 DEF Current

LEMMA HasTail ==
  ASSUME NEW S, NEW s \in Seq(S), s # <<>>, NEW type, Head(s).type # type
  PROVE  Has(s, type) <=> Has(Tail(s), type)
<1>1. ASSUME NEW i \in DOMAIN s, s[i].type = type
      PROVE  Has(Tail(s), type)
  <2>1. i # 1
    BY <1>1, TailFacts
  <2>2. i - 1 \in DOMAIN Tail(s) /\ s[i] = Tail(s)[i - 1]
    BY <2>1, TailFacts
  <2>3. QED
    BY <1>1, <2>2 DEF Has
<1>2. ASSUME NEW i \in DOMAIN Tail(s), Tail(s)[i].type = type
      PROVE  Has(s, type)
  <2>1. i + 1 \in DOMAIN s /\ Tail(s)[i] = s[i + 1]
    BY TailFacts
  <2>2. QED
    BY <1>2, <2>1 DEF Has
<1>3. QED
  BY <1>1, <1>2 DEF Has

\* The head of a queue without another record is current.
LEMMA CurrentHead ==
  ASSUME NEW S, NEW s \in Seq(S), s # <<>>, NEW v, Current(s, v), ~Has(Tail(s), "value")
  PROVE  /\ Head(s).type = "value" => Head(s).record = v
         /\ Head(s).type = "tap" => Head(s).n = v[NumSessions]
<1>1. DOMAIN s = 1..Len(s) /\ Len(s) \in Nat
  BY LenProperties
<1>2. NoValueAfter(s, 1)
  <2> SUFFICES ASSUME NEW j \in DOMAIN s, j > 1
               PROVE  s[j].type # "value"
    BY DEF NoValueAfter
  <2>1. j # 1
    BY <1>1
  <2>2. j - 1 \in DOMAIN Tail(s) /\ s[j] = Tail(s)[j - 1]
    BY <2>1, TailFacts
  <2>3. QED
    BY <2>2 DEF Has
<1>3. 1 \in DOMAIN s /\ Head(s) = s[1]
  BY TailFacts
<1>4. QED
  BY <1>2, <1>3 DEF Current

LEMMA AppendFacts ==
  ASSUME NEW S, NEW s \in Seq(S), NEW x \in S
  PROVE  /\ Append(s, x) \in Seq(S) /\ Len(s) \in Nat /\ DOMAIN s = 1..Len(s)
         /\ DOMAIN Append(s, x) = 1..(Len(s) + 1)
         /\ Append(s, x)[Len(s) + 1] = x
         /\ \A i \in DOMAIN s : i \in DOMAIN Append(s, x) /\ Append(s, x)[i] = s[i]
BY AppendProperties, LenProperties

LEMMA CurrentAppend ==
  ASSUME NEW S, NEW s \in Seq(S), NEW x \in S, NEW v, Current(s, v),
         x.type # "value", x.type = "tap" => x.n = v[NumSessions]
  PROVE  Current(Append(s, x), v)
<1> DEFINE t == Append(s, x)
<1>1. /\ Len(s) \in Nat /\ DOMAIN s = 1..Len(s) /\ DOMAIN t = 1..(Len(s) + 1)
      /\ t[Len(s) + 1] = x /\ \A i \in DOMAIN s : i \in DOMAIN t /\ t[i] = s[i]
  BY AppendFacts
<1> HIDE DEF t
<1>2. SUFFICES ASSUME NEW i \in DOMAIN t, NoValueAfter(t, i)
               PROVE  /\ t[i].type = "value" => t[i].record = v
                      /\ t[i].type = "tap" => t[i].n = v[NumSessions]
  BY DEF Current, t
<1>3. CASE i = Len(s) + 1
  BY <1>1, <1>3
<1>4. CASE i # Len(s) + 1
  <2>1. i \in DOMAIN s /\ t[i] = s[i]
    BY <1>1, <1>4
  <2>2. NoValueAfter(s, i)
    BY <1>1, <1>2 DEF NoValueAfter
  <2>3. QED
    BY <2>1, <2>2 DEF Current
<1>5. QED
  BY <1>3, <1>4

\* A record at the end makes any queue current.
LEMMA CurrentValue ==
  ASSUME NEW S, NEW s \in Seq(S), NEW r, Value(r) \in S
  PROVE  Current(Append(s, Value(r)), r) /\ Has(Append(s, Value(r)), "value")
<1> DEFINE t == Append(s, Value(r))
<1>1. /\ Len(s) \in Nat /\ DOMAIN s = 1..Len(s) /\ DOMAIN t = 1..(Len(s) + 1)
      /\ t[Len(s) + 1] = Value(r)
  BY AppendFacts
<1> HIDE DEF t
<1>2. Value(r).type = "value" /\ Value(r).record = r
  BY DEF Value
<1>3. Len(s) + 1 \in DOMAIN t
  BY <1>1
<1>4. \A i \in DOMAIN t : NoValueAfter(t, i) => i = Len(s) + 1
  BY <1>1, <1>2, <1>3 DEF NoValueAfter
<1>5. Current(t, r) /\ Has(t, "value")
  BY <1>1, <1>2, <1>3, <1>4 DEF Current, Has
<1>6. QED
  BY <1>5 DEF t

\* What the listener is told of a change, at the end of a current queue.
LEMMA CurrentRaised ==
  ASSUME NEW S, NEW s \in Seq(S), NEW old, NEW new, Value(new) \in S, Current(s, old)
  PROVE  /\ s \o Raised(old, new) \in Seq(S)
         /\ Current(s \o Raised(old, new), new)
         /\ \/ Has(s \o Raised(old, new), "value")
            \/ new = old /\ s \o Raised(old, new) = s
<1>1. CASE old = new
  <2>1. s \o Raised(old, new) = s
    BY <1>1 DEF Raised
  <2>2. QED
    BY <1>1, <2>1
<1>2. CASE old # new
  <2>1. s \o Raised(old, new) = Append(s, Value(new))
    BY <1>2 DEF Raised
  <2>2. Append(s, Value(new)) \in Seq(S)
    BY AppendFacts
  <2>3. QED
    BY <2>1, <2>2, CurrentValue
<1>3. QED
  BY <1>1, <1>2

LEMMA HasMore ==
  ASSUME NEW S, NEW s \in Seq(S), NEW old, NEW new, Value(new) \in S, NEW type, Has(s, type)
  PROVE  Has(s \o Raised(old, new), type)
<1>1. CASE old = new
  <2>1. s \o Raised(old, new) = s
    BY <1>1 DEF Raised
  <2>2. QED
    BY <2>1
<1>2. CASE old # new
  <2>1. s \o Raised(old, new) = Append(s, Value(new))
    BY <1>2 DEF Raised
  <2>2. QED
    BY <2>1, AppendFacts DEF Has
<1>3. QED
  BY <1>1, <1>2

-----------------------------------------------------------------------------
(* What a phone sees when it writes.                                       *)

LEMMA MaxIsAbove ==
  ASSUME NEW n \in Nat, NEW S \in SUBSET (1..n), n \in S
  PROVE  Max(S) = n
<1>1. \A y \in S : n >= y
  OBVIOUS
<1>2. PICK x \in S : \A y \in S : x >= y
  BY <1>1
<1>3. Max(S) \in S /\ \A y \in S : Max(S) >= y
  BY <1>2 DEF Max
<1>4. PICK m : m = Max(S)
  OBVIOUS
<1>5. m \in 1..n /\ m >= n
  BY <1>3, <1>4
<1>6. m = n
  BY <1>5
<1>7. QED
  BY <1>4, <1>6

\* A write is on top of those before it.
LEMMA UnderAppend ==
  ASSUME NEW r, NEW q \in Seq(Writes), NEW w \in Writes
  PROVE  Under(r, Append(q, w)) = Apply(Under(r, q), w)
<1> DEFINE t == Append(q, w)
           n == Len(q) + 1
           over(s, l) == {i \in DOMAIN s : l \in s[i].leaves}
<1>1. /\ Len(q) \in Nat /\ n \in Nat /\ DOMAIN q = 1..Len(q) /\ DOMAIN t = 1..n
      /\ t[n] = w /\ \A i \in DOMAIN q : i \in DOMAIN t /\ t[i] = q[i]
  BY AppendFacts
<1> HIDE DEF t
<1>2. ASSUME NEW l \in Leaves
      PROVE  Under(r, t)[l] = Apply(Under(r, q), w)[l]
  <2>1. /\ Under(r, t)[l] = IF over(t, l) = {} THEN r[l] ELSE t[Max(over(t, l))].val
        /\ Under(r, q)[l] = IF over(q, l) = {} THEN r[l] ELSE q[Max(over(q, l))].val
        /\ Apply(Under(r, q), w)[l] = IF l \in w.leaves THEN w.val ELSE Under(r, q)[l]
    BY DEF Under, Apply
  <2>2. CASE l \in w.leaves
    <3>1. n \in over(t, l) /\ over(t, l) \in SUBSET (1..n)
      BY <1>1, <2>2
    <3>2. Max(over(t, l)) = n
      <4> HIDE DEF over, n
      <4> QED BY <1>1, <3>1, MaxIsAbove
    <3>3. QED
      BY <1>1, <2>1, <2>2, <3>1, <3>2
  <2>3. CASE l \notin w.leaves
    <3>1. over(t, l) = over(q, l)
      BY <1>1, <2>3
    <3>2. CASE over(q, l) = {}
      BY <2>1, <2>3, <3>1, <3>2
    <3>3. CASE over(q, l) # {}
      <4>1. over(q, l) \in SUBSET (1..Len(q))
        BY <1>1
      <4>2. Max(over(q, l)) \in over(q, l)
        <5> HIDE DEF over
        <5> QED BY <1>1, <3>3, <4>1, MaxIsIn
      <4>3. t[Max(over(q, l))] = q[Max(over(q, l))]
        BY <1>1, <4>2
      <4>4. QED
        BY <2>1, <2>3, <3>1, <3>3, <4>3
    <3>4. QED
      BY <3>2, <3>3
  <2>4. QED
    BY <2>2, <2>3
<1>3. /\ DOMAIN Under(r, t) = Leaves /\ Under(r, t) = [l \in Leaves |-> Under(r, t)[l]]
      /\ Apply(Under(r, q), w) = [l \in Leaves |-> Apply(Under(r, q), w)[l]]
  BY DEF Under, Apply
<1>4. Under(r, t) = Apply(Under(r, q), w)
  BY <1>2, <1>3
<1>5. QED
  BY <1>4 DEF t

LEMMA UnderThree ==
  ASSUME NEW r, NEW q \in Seq(Writes), NEW w1 \in Writes, NEW w2 \in Writes, NEW w3 \in Writes
  PROVE  Under(r, q \o <<w1, w2, w3>>) = Apply(Apply(Apply(Under(r, q), w1), w2), w3)
<1>1. q \o <<w1, w2, w3>> = Append(Append(Append(q, w1), w2), w3)
  OBVIOUS
<1>2. Append(q, w1) \in Seq(Writes) /\ Append(Append(q, w1), w2) \in Seq(Writes)
  BY AppendFacts
<1>3. Under(r, Append(q, w1)) = Apply(Under(r, q), w1)
  BY UnderAppend
<1>4. Under(r, Append(Append(q, w1), w2)) = Apply(Under(r, Append(q, w1)), w2)
  BY <1>2, UnderAppend
<1>5. Under(r, Append(Append(Append(q, w1), w2), w3))
        = Apply(Under(r, Append(Append(q, w1), w2)), w3)
  BY <1>2, UnderAppend
<1>6. QED
  BY <1>1, <1>3, <1>4, <1>5

\* Nothing on top.
LEMMA UnderNothing ==
  ASSUME NEW r \in Records
  PROVE  Under(r, <<>>) = r
BY DEF Under, Records

\* The state of a phone, as the proofs below need it.
LEMMA PageFacts ==
  ASSUME IInv, NEW d \in Devices
  PROVE  /\ events \in [Devices -> Seq(Events)] /\ events[d] \in Seq(Events)
         /\ pending \in [Devices -> Seq(Writes)] /\ pending[d] \in Seq(Writes)
         /\ DOMAIN heard = Devices /\ DOMAIN alert = Devices
         /\ DOMAIN screen = Devices /\ recording \in [Devices -> BOOLEAN]
         /\ heard[d] # Null => heard[d] \in Records /\ View(d) \in Records
         /\ alert[d] # Null => alert[d] \in Alerts
         /\ faults \in Faults
         /\ now \in Times
<1>1. TypeOK
  BY Typed
<1>2. heard[d] # Null => heard[d] \in Records
  BY <1>1 DEF TypeOK
<1>3. pending[d] \in Seq(Writes)
  BY <1>1 DEF TypeOK
<1>4. heard[d] # Null => View(d) \in Records
  BY <1>2, <1>3, UnderType DEF View
<1>5. QED
  BY <1>1, <1>2, <1>3, <1>4 DEF TypeOK, Faults

\* One write: the queue is current again, and has a record in it unless the
\* write changed nothing.
LEMMA OneWrite ==
  ASSUME IInv, NEW d \in Devices, heard[d] # Null, NEW w \in Writes,
         NEW s \in Seq(Events), Current(s, View(d)),
         heard'[d] = heard[d], pending'[d] = Append(pending[d], w),
         events'[d] = s \o SetEvents(View(d), w)
  PROVE  /\ Current(events'[d], View(d)')
         /\ \/ Has(events'[d], "value")
            \/ events'[d] = s /\ View(d)' = View(d) /\ View(d) = Apply(View(d), w)
<1>1. View(d) \in Records /\ pending[d] \in Seq(Writes)
  BY PageFacts
<1>2. View(d)' = Apply(View(d), w)
  BY <1>1, UnderAppend DEF View
<1>3. Value(View(d)') \in Events
  BY <1>1, <1>2, ApplyType DEF Value, Events
<1>4. events'[d] = s \o Raised(View(d), View(d)')
  BY <1>2 DEF SetEvents
<1>5. QED
  BY <1>2, <1>3, <1>4, CurrentRaised

-----------------------------------------------------------------------------
(* The page follows the session: initially, and after each action.         *)

\* What one phone does leaves the others as they were.
LEMMA OthersFollow ==
  ASSUME FollowInv, NEW d \in Devices, PhoneFollows(d)',
         \A e \in Devices : e # d =>
           /\ heard'[e] = heard[e] /\ pending'[e] = pending[e] /\ events'[e] = events[e]
           /\ recording'[e] = recording[e] /\ screen'[e] = screen[e] /\ alert'[e] = alert[e]
           /\ e \in faults'.unshown <=> e \in faults.unshown
  PROVE  FollowInv'
<1>1. SUFFICES ASSUME NEW e \in Devices, e # d
               PROVE  PhoneFollows(e)'
  BY DEF FollowInv
<1>2. PhoneFollows(e)
  BY DEF FollowInv
<1>3. /\ heard'[e] = heard[e] /\ pending'[e] = pending[e] /\ events'[e] = events[e]
      /\ recording'[e] = recording[e] /\ screen'[e] = screen[e] /\ alert'[e] = alert[e]
      /\ e \in faults'.unshown <=> e \in faults.unshown
  BY <1>1
<1>4. View(e)' = View(e)
  BY <1>3 DEF View
<1>5. Follows(e) <=> Follows(e)'
  BY <1>3, <1>4 DEF Follows, Shown, Stopping
<1>6. QED
  BY <1>2, <1>3, <1>4, <1>5 DEF PhoneFollows

LEMMA InitFollows == Init => FollowInv
BY DEF Init, FollowInv, PhoneFollows

\* Whatever leaves the pages, their queues and their views alone.
LEMMA SameFollows ==
  ASSUME FollowInv, UNCHANGED <<heard, pending, events, recording, screen, alert>>,
         faults'.unshown = faults.unshown
  PROVE  FollowInv'
<1>1. SUFFICES ASSUME NEW e \in Devices
               PROVE  PhoneFollows(e)'
  BY DEF FollowInv
<1>2. PhoneFollows(e)
  BY DEF FollowInv
<1>3. View(e)' = View(e)
  BY DEF View
<1>4. Follows(e) <=> Follows(e)'
  BY <1>3 DEF Follows, Shown, Stopping
<1>5. QED
  BY <1>2, <1>3, <1>4 DEF PhoneFollows

\* A tap is read from what the phone sees.
LEMMA startRecordingFollows ==
  ASSUME IInv, FollowInv, NEW d \in Devices, startRecording(d)
  PROVE  FollowInv'
<1>1. /\ UNCHANGED <<heard, pending, screen, alert>>
      /\ recording' = [recording EXCEPT ![d] = ~@]
      /\ heard[d] # Null => events' = [events EXCEPT ![d] = Append(@, TapRead(View(d)))]
      /\ heard[d] = Null => UNCHANGED events
      /\ faults' = [faults EXCEPT !.taps = @ + 1]
  BY DEF startRecording
<1>2. faults'.unshown = faults.unshown
  BY <1>1, PageFacts DEF Faults
<1>3. PhoneFollows(d)'
  <2>1. SUFFICES ASSUME heard'[d] # Null
                 PROVE  Current(events'[d], View(d)') /\ Follows(d)'
    BY DEF PhoneFollows
  <2>2. heard[d] # Null /\ View(d)' = View(d) /\ View(d) \in Records
    BY <1>1, <2>1, PageFacts DEF View
  <2>3. TapRead(View(d)) \in Events
    BY <2>2, RecordFacts DEF TapRead, Events
  <2>4. TapRead(View(d)).type = "tap" /\ TapRead(View(d)).n = View(d)[NumSessions]
    BY DEF TapRead
  <2>5. events'[d] = Append(events[d], TapRead(View(d)))
    BY <1>1, <2>2, PageFacts
  <2>6. Current(events[d], View(d))
    BY <2>2 DEF FollowInv, PhoneFollows
  <2>7. Current(events'[d], View(d))
    BY <2>3, <2>4, <2>5, <2>6, PageFacts, CurrentAppend
  <2>8. Has(events'[d], "tap")
    <3>1. /\ Len(events[d]) + 1 \in DOMAIN events'[d]
          /\ events'[d][Len(events[d]) + 1] = TapRead(View(d))
      BY <2>3, <2>5, PageFacts, AppendFacts
    <3>2. QED
      BY <2>4, <3>1 DEF Has
  <2>9. QED
    BY <2>2, <2>7, <2>8 DEF Follows
<1>4. QED
  BY <1>1, <1>2, <1>3, PageFacts, OthersFollow

\* A dismissal of a session other than the one running.
LEMMA RemovedIsGone ==
  ASSUME NEW r \in Records, r = Apply(r, Remove(r[NumSessions] + 1))
  PROVE  ~Running(r)
<1> DEFINE k == r[NumSessions] + 1
<1>1. \A l \in Leaves : l \in {In(k), Out(k)} => r[l] = Null
  <2>1. \A l \in Leaves : r[l] = IF l \in {In(k), Out(k)} THEN Null ELSE r[l]
    BY DEF Apply, Remove
  <2>2. QED
    BY <2>1
<1>2. QED
  BY <1>1 DEF Running, Next1, Child, Field

\* The events of three writes, joined and queued, or queued one by one.
JoinedAlike(s, t, u, v) == s \o ((t \o u) \o v) = ((s \o t) \o u) \o v

LEMMA FourJoined ==
  ASSUME NEW s \in Seq(Events), NEW t \in Seq(Events), NEW u \in Seq(Events),
         NEW v \in Seq(Events)
  PROVE  JoinedAlike(s, t, u, v)
<1>1. PICK x \in Seq(Events) : x = t \o u
  BY ConcatProperties
<1>2. (s \o t) \o u = s \o (t \o u)
  OBVIOUS
<1>3. (s \o x) \o v = s \o (x \o v)
  OBVIOUS
<1> QED BY <1>1, <1>2, <1>3, Zenon DEF JoinedAlike

\* Yes: the count moves on from the one that was asked about.
LEMMA recordSessionFollows ==
  ASSUME IInv, FollowInv, NEW d \in Devices, recordSession(d)
  PROVE  FollowInv'
<1> DEFINE a == alert[d]
           num == Set(NumSessions, a.n + 1)
           out == Set(Out(a.n + 1), a.out)
           tot == Set(TotalHours, NewTotal(a))
           v1 == Apply(View(d), num)
           v2 == Apply(v1, out)
           v3 == Apply(v2, tot)
           s1 == events[d] \o Raised(View(d), v1)
           s2 == s1 \o Raised(v1, v2)
           s3 == s2 \o Raised(v2, v3)
<1>1. /\ a # Null /\ a.type = "confirm"
      /\ alert' = [alert EXCEPT ![d] = Null]
      /\ pending' = [pending EXCEPT ![d] = @ \o <<num, out, tot>>]
      /\ events' = [events EXCEPT ![d] = @ \o SetEvents3(View(d), num, out, tot)]
      /\ UNCHANGED <<heard, recording, screen, faults>>
  BY DEF recordSession
<1>2. a.n \in Nat /\ num \in Writes /\ out \in Writes /\ tot \in Writes
  <2>1. a.n \in Nat /\ a.total \in Nat /\ a.interval \in Intervals /\ a.out \in Times
    BY <1>1, PageFacts DEF Alerts
  <2>2. NewTotal(a) \in Nat
    <3> HIDE DEF a
    <3> QED BY <2>1, ConstantsOK DEF NewTotal
  <2>3. a.n + 1 \in Nat /\ NumSessions \in Counters /\ TotalHours \in Counters
    BY <2>1 DEF Counters
  <2>4. QED
    BY <2>1, <2>2, <2>3, SetCounterType, SetOutType
<1>3. SUFFICES PhoneFollows(d)'
  BY <1>1, PageFacts, OthersFollow
<1>4. SUFFICES ASSUME heard'[d] # Null
               PROVE  /\ Current(events'[d], View(d)')
                      /\ Running(View(d)') /\ d \notin faults'.unshown => Follows(d)'
  BY DEF PhoneFollows
<1>5. /\ heard[d] # Null /\ View(d) \in Records /\ events[d] \in Seq(Events)
      /\ pending[d] \in Seq(Writes) /\ Current(events[d], View(d))
  BY <1>1, <1>4, PageFacts DEF FollowInv, PhoneFollows
<1>6. v1 \in Records /\ v2 \in Records /\ v3 \in Records
  <2> HIDE DEF num, out, tot
  <2> QED BY <1>2, <1>5, ApplyType
<1>7. View(d)' = v3
  <2> HIDE DEF num, out, tot
  <2>1. pending'[d] = pending[d] \o <<num, out, tot>>
    BY <1>1, PageFacts
  <2>2. View(d)' = Under(heard[d], pending'[d])
    BY <1>1 DEF View
  <2>3. QED
    BY <1>2, <1>5, <2>1, <2>2, UnderThree DEF View
<1>8. /\ Value(v1) \in Events /\ Value(v2) \in Events /\ Value(v3) \in Events
  <2> HIDE DEF v1, v2, v3
  <2> QED BY <1>6 DEF Value, Events
<1>9. events'[d] = s3
  <2>1. events'[d] = events[d] \o ((Raised(View(d), v1) \o Raised(v1, v2)) \o Raised(v2, v3))
    BY <1>1, PageFacts DEF SetEvents3, SetEvents
  <2> HIDE DEF v1, v2, v3
  <2>2. /\ Raised(View(d), v1) \in Seq(Events) /\ Raised(v1, v2) \in Seq(Events)
        /\ Raised(v2, v3) \in Seq(Events)
    BY <1>8 DEF Raised
  <2>3. events[d] \o ((Raised(View(d), v1) \o Raised(v1, v2)) \o Raised(v2, v3)) = s3
    <3>1. JoinedAlike(events[d], Raised(View(d), v1), Raised(v1, v2), Raised(v2, v3))
      BY <1>5, <2>2, FourJoined
    <3> QED BY <3>1, Zenon DEF JoinedAlike, s1, s2, s3
  <2>4. QED
    BY <2>1, <2>3
<1>10. /\ Current(s3, v3)
       /\ Has(s3, "value") \/ (s3 = events[d] /\ v3 = View(d) /\ v1 = View(d))
  <2> HIDE DEF v1, v2, v3
  <2>1. /\ s1 \in Seq(Events) /\ Current(s1, v1)
        /\ Has(s1, "value") \/ (v1 = View(d) /\ s1 = events[d])
    BY <1>5, <1>8, CurrentRaised
  <2> HIDE DEF s1
  <2>2. /\ s2 \in Seq(Events) /\ Current(s2, v2)
        /\ Has(s2, "value") \/ (v2 = v1 /\ s2 = s1)
    BY <1>8, <2>1, CurrentRaised
  <2> HIDE DEF s2
  <2>3. /\ s3 \in Seq(Events) /\ Current(s3, v3)
        /\ Has(s3, "value") \/ (v3 = v2 /\ s3 = s2)
    BY <1>8, <2>2, CurrentRaised
  <2> HIDE DEF s3
  <2>4. Has(s2, "value") => Has(s3, "value")
    BY <2>2, <2>3, <1>8, HasMore DEF s3
  <2>5. Has(s1, "value") => Has(s2, "value")
    BY <2>1, <2>2, <1>8, HasMore DEF s2
  <2>6. QED
    BY <2>1, <2>2, <2>3, <2>4, <2>5
<1>11. v1[NumSessions] = a.n + 1
  BY LeafFacts DEF Apply, Set
<1> HIDE DEF v1, v2, v3, s1, s2, s3
<1>12. CASE Has(s3, "value")
  BY <1>7, <1>9, <1>10, <1>12 DEF Follows
<1>13. CASE s3 = events[d] /\ v3 = View(d) /\ v1 = View(d)
  <2>1. SUFFICES ASSUME Running(View(d)), d \notin faults.unshown
                 PROVE  Follows(d)'
    BY <1>1, <1>7, <1>9, <1>10, <1>13
  <2>2. Follows(d)
    BY <1>5, <2>1 DEF FollowInv, PhoneFollows
  <2>3. a.n # View(d)[NumSessions]
    BY <1>2, <1>11, <1>13
  <2>4. View(d)' = View(d) /\ events'[d] = events[d] /\ alert'[d] = Null
        /\ recording'[d] = recording[d] /\ screen'[d] = screen[d]
    BY <1>1, <1>7, <1>9, <1>13, PageFacts
  <2>5. QED
    BY <2>2, <2>3, <2>4 DEF Follows, Shown, Stopping
<1>14. QED
  BY <1>10, <1>12, <1>13

\* No: the session asked about is gone, the one running too if it is that one.
LEMMA DeclineFollows ==
  ASSUME IInv, FollowInv, NEW d \in Devices, Decline(d)
  PROVE  FollowInv'
<1> DEFINE n == alert[d].n
           w == Remove(n + 1)
<1>1. /\ alert[d] # Null /\ alert[d].type = "confirm"
      /\ alert' = [alert EXCEPT ![d] = Null]
      /\ pending' = [pending EXCEPT ![d] = Append(pending[d], w)]
      /\ events' = [events EXCEPT ![d] = events[d] \o SetEvents(View(d), w)]
      /\ UNCHANGED <<heard, recording, screen, faults>>
  BY DEF Decline, dismissSession
<1>2. n \in Nat /\ w \in Writes
  <2>1. n \in Nat
    BY <1>1, PageFacts DEF Alerts
  <2>2. QED
    BY <2>1, RemoveType
<1>3. SUFFICES PhoneFollows(d)'
  BY <1>1, PageFacts, OthersFollow
<1>4. SUFFICES ASSUME heard'[d] # Null
               PROVE  /\ Current(events'[d], View(d)')
                      /\ Running(View(d)') /\ d \notin faults'.unshown => Follows(d)'
  BY DEF PhoneFollows
<1>5. /\ heard[d] # Null /\ View(d) \in Records /\ events[d] \in Seq(Events)
      /\ Current(events[d], View(d))
  BY <1>1, <1>4, PageFacts DEF FollowInv, PhoneFollows
<1> HIDE DEF w
<1>6. /\ Current(events'[d], View(d)')
      /\ \/ Has(events'[d], "value")
         \/ events'[d] = events[d] /\ View(d)' = View(d) /\ View(d) = Apply(View(d), w)
  BY <1>1, <1>2, <1>5, PageFacts, OneWrite
<1>7. CASE Has(events'[d], "value")
  BY <1>6, <1>7 DEF Follows
<1>8. CASE events'[d] = events[d] /\ View(d)' = View(d) /\ View(d) = Apply(View(d), w)
  <2>1. SUFFICES ASSUME Running(View(d)), d \notin faults.unshown
                 PROVE  Follows(d)'
    BY <1>1, <1>6, <1>8
  <2>2. Follows(d)
    BY <1>5, <2>1 DEF FollowInv, PhoneFollows
  <2>3. n # View(d)[NumSessions]
    BY <1>5, <1>8, <2>1, RemovedIsGone DEF w
  <2>4. /\ alert'[d] = Null /\ recording'[d] = recording[d] /\ screen'[d] = screen[d]
    BY <1>1, PageFacts
  <2>5. QED
    BY <1>8, <2>2, <2>3, <2>4 DEF Follows, Shown, Stopping
<1>9. QED
  BY <1>6, <1>7, <1>8

LEMMA CloseWarningFollows ==
  ASSUME IInv, FollowInv, NEW d \in Devices, CloseWarning(d)
  PROVE  FollowInv'
<1>1. /\ alert[d].type = "warning"
      /\ alert' = [alert EXCEPT ![d] = Null]
      /\ UNCHANGED <<heard, pending, events, recording, screen, faults>>
  BY DEF CloseWarning, client
<1>2. View(d)' = View(d)
  BY <1>1 DEF View
<1>3. Follows(d) => Follows(d)'
  BY <1>1, <1>2 DEF Follows, Shown, Stopping
<1>4. PhoneFollows(d)'
  BY <1>1, <1>2, <1>3 DEF FollowInv, PhoneFollows
<1>5. QED
  BY <1>1, <1>4, PageFacts, OthersFollow

\* The last record queued is the one the phone sees.
LEMMA observeValueFollows ==
  ASSUME IInv, FollowInv, NEW d \in Devices, observeValue(d)
  PROVE  FollowInv'
<1> DEFINE r == Head(events[d]).record
           rec == recording[d] \/ Running(r)
<1>1. /\ events[d] # <<>> /\ Head(events[d]).type = "value"
      /\ events' = [events EXCEPT ![d] = Tail(events[d])]
      /\ recording' = [recording EXCEPT ![d] = rec]
      /\ screen' = [screen EXCEPT ![d] =
           [title |-> IF rec THEN "Stop" ELSE "Start",
            checkIn |-> IF rec THEN ShownIn(r) ELSE Null]]
      /\ faults' = [faults EXCEPT !.unshown = faults.unshown \ {d}]
      /\ UNCHANGED <<heard, pending, alert>>
  BY DEF observeValue, HasEvent, updateScreen, client
<1>2. SUFFICES PhoneFollows(d)'
  <2>1. faults'.unshown = faults.unshown \ {d}
    BY <1>1, PageFacts DEF Faults
  <2>2. \A e \in Devices : e # d => (e \in faults'.unshown <=> e \in faults.unshown)
    BY <2>1
  <2>3. QED
    BY <1>1, <2>2, PageFacts, OthersFollow
<1>3. SUFFICES ASSUME heard'[d] # Null
               PROVE  /\ Current(events'[d], View(d)')
                      /\ Running(View(d)') => Follows(d)'
  BY DEF PhoneFollows
<1>4. /\ heard[d] # Null /\ View(d)' = View(d) /\ events[d] \in Seq(Events)
      /\ Current(events[d], View(d)) /\ events'[d] = Tail(events[d])
  BY <1>1, <1>3, PageFacts DEF FollowInv, PhoneFollows, View
<1>5. Current(events'[d], View(d)')
  BY <1>1, <1>4, CurrentTail
<1>6. ASSUME Running(View(d)), ~Has(Tail(events[d]), "value")
      PROVE  Follows(d)'
  <2>1. r = View(d)
    BY <1>1, <1>4, <1>6, CurrentHead
  <2>2. Running(r)
    BY <1>6, <2>1
  <2>3. recording'[d] = TRUE /\ screen'[d].title = "Stop" /\ screen'[d].checkIn = ShownIn(r)
    BY <1>1, <2>2, PageFacts
  <2>4. QED
    BY <1>4, <2>1, <2>3 DEF Follows, Shown
<1>7. QED
  BY <1>4, <1>5, <1>6 DEF Follows

\* A record that had the write already has its session checked in then.
LEMMA CheckedInAlready ==
  ASSUME NEW r \in Records, NEW t \in Times, Running(r),
         r = Apply(r, Set(In(r[NumSessions] + 1), t))
  PROVE  ShownIn(r) = t
<1> DEFINE k == r[NumSessions] + 1
<1>1. k \in Nat /\ t # Null
  BY RecordFacts, TimesFacts, ConstantsOK DEF Next1
<1>2. In(k) \in Leaves
  <2>1. In(k) \in Leaves \/ Out(k) \in Leaves
    BY DEF Running, Next1, Child, Field
  <2>2. Out(k) \in Leaves => k \in Keys
    BY <1>1 DEF Leaves, Out, NumSessions, TotalHours
  <2>3. QED
    BY <2>1, <2>2, LeafFacts
<1>3. Apply(r, Set(In(k), t))[In(k)] = t
  BY <1>2 DEF Apply, Set
<1>4. r[In(k)] = t
  BY <1>3
<1>5. Field(r, In(Next1(r))) = t
  BY <1>2, <1>4 DEF Field, Next1
<1>6. QED
  BY <1>1, <1>5 DEF ShownIn

\* A check-in shows itself, or is shown when its record is.
LEMMA checkInFollows ==
  ASSUME IInv, FollowInv, NEW d \in Devices, checkIn(d)
  PROVE  FollowInv'
<1> DEFINE n == Head(events[d]).n
           w == Set(In(n + 1), now)
<1>1. /\ events[d] # <<>> /\ Head(events[d]).type = "tap" /\ recording[d]
      /\ pending' = [pending EXCEPT ![d] = Append(pending[d], w)]
      /\ events' = [events EXCEPT ![d] = Tail(events[d]) \o SetEvents(View(d), w)]
      /\ screen' = [screen EXCEPT ![d] = [title |-> "Stop", checkIn |-> now]]
      /\ UNCHANGED <<heard, recording, alert, faults>>
  BY DEF checkIn, HasEvent, updateScreen
<1>2. n \in Nat /\ w \in Writes /\ Head(events[d]) \in Events /\ Tail(events[d]) \in Seq(Events)
  <2>1. Head(events[d]) \in Events /\ Tail(events[d]) \in Seq(Events)
    BY <1>1, PageFacts, TailFacts
  <2>2. n \in Nat
    BY <1>1, <2>1 DEF Events
  <2>3. w \in Writes
    BY <2>2, PageFacts, SetInType
  <2>4. QED
    BY <2>1, <2>2, <2>3
<1>3. SUFFICES PhoneFollows(d)'
  BY <1>1, PageFacts, OthersFollow
<1>4. SUFFICES ASSUME heard'[d] # Null
               PROVE  /\ Current(events'[d], View(d)')
                      /\ Running(View(d)') /\ d \notin faults'.unshown => Follows(d)'
  BY DEF PhoneFollows
<1>5. /\ heard[d] # Null /\ View(d) \in Records /\ events[d] \in Seq(Events)
      /\ Current(events[d], View(d)) /\ Current(Tail(events[d]), View(d))
  <2>1. /\ heard[d] # Null /\ View(d) \in Records /\ events[d] \in Seq(Events)
        /\ Current(events[d], View(d))
    BY <1>1, <1>4, PageFacts DEF FollowInv, PhoneFollows
  <2>2. QED
    BY <1>1, <2>1, CurrentTail
<1> HIDE DEF w
<1>6. /\ Current(events'[d], View(d)')
      /\ \/ Has(events'[d], "value")
         \/ events'[d] = Tail(events[d]) /\ View(d)' = View(d) /\ View(d) = Apply(View(d), w)
  BY <1>1, <1>2, <1>5, PageFacts, OneWrite
<1>7. CASE Has(events'[d], "value")
  BY <1>6, <1>7 DEF Follows
<1>8. CASE /\ events'[d] = Tail(events[d]) /\ View(d)' = View(d)
           /\ View(d) = Apply(View(d), w) /\ ~Has(Tail(events[d]), "value")
  <2>1. SUFFICES ASSUME Running(View(d))
                 PROVE  Follows(d)'
    BY <1>6, <1>8
  <2>2. n = View(d)[NumSessions]
    BY <1>1, <1>5, <1>8, CurrentHead
  <2>3. ShownIn(View(d)) = now
    BY <1>5, <1>8, <2>1, <2>2, PageFacts, CheckedInAlready DEF w
  <2>4. recording'[d] /\ screen'[d].title = "Stop" /\ screen'[d].checkIn = now
    BY <1>1, PageFacts
  <2>5. QED
    BY <1>8, <2>3, <2>4 DEF Follows, Shown
<1>9. QED
  BY <1>6, <1>7, <1>8

\* With the flag FALSE the read of the session to stop is queued.
LEMMA readSessionFollows ==
  ASSUME IInv, FollowInv, NEW d \in Devices, readSession(d)
  PROVE  FollowInv'
<1> DEFINE e == Head(events[d])
           s == StopRead(e.n, e.total, Field(View(d), In(e.n + 1)))
<1>1. /\ events[d] # <<>> /\ e.type = "tap" /\ ~recording[d]
      /\ events' = [events EXCEPT ![d] = Append(Tail(events[d]), s)]
      /\ screen' = [screen EXCEPT ![d] = [title |-> "Start", checkIn |-> Null]]
      /\ UNCHANGED <<heard, pending, recording, alert, faults>>
  BY DEF readSession, HasEvent, updateScreen, client
<1>2. SUFFICES PhoneFollows(d)'
  BY <1>1, PageFacts, OthersFollow
<1>3. SUFFICES ASSUME heard'[d] # Null
               PROVE  /\ Current(events'[d], View(d)')
                      /\ Running(View(d)') => Follows(d)'
  BY DEF PhoneFollows
<1>4. /\ heard[d] # Null /\ View(d)' = View(d) /\ View(d) \in Records
      /\ events[d] \in Seq(Events) /\ Current(events[d], View(d))
      /\ events'[d] = Append(Tail(events[d]), s)
  BY <1>1, <1>3, PageFacts DEF FollowInv, PhoneFollows, View
<1>5. e \in Events /\ Tail(events[d]) \in Seq(Events) /\ Current(Tail(events[d]), View(d))
  BY <1>1, <1>4, TailFacts, CurrentTail
<1>6. s \in Events /\ s.type = "stop" /\ s.n = e.n
  <2>1. e.n \in Nat /\ e.total \in Nat
    <3> HIDE DEF e, s
    <3> QED BY <1>1, <1>5 DEF Events
  <2>2. Field(View(d), In(e.n + 1)) \in Times \cup {Null}
    <3> HIDE DEF e, s
    <3> QED BY <1>4, <2>1, RecordFacts
  <2> HIDE DEF e
  <2>3. QED
    BY <2>1, <2>2 DEF StopRead, Events
<1> HIDE DEF s
<1>7. Current(events'[d], View(d)')
  BY <1>4, <1>5, <1>6, CurrentAppend
<1>8. ASSUME Running(View(d)), ~Has(Tail(events[d]), "value")
      PROVE  Follows(d)'
  <2>1. e.n = View(d)[NumSessions]
    BY <1>1, <1>4, <1>8, CurrentHead
  <2>2. \E i \in DOMAIN events'[d] : events'[d][i] = s
    BY <1>4, <1>5, <1>6, AppendFacts
  <2>3. PICK i \in DOMAIN events'[d] :
          events'[d][i].type = "stop" /\ events'[d][i].n = View(d)'[NumSessions]
    BY <1>4, <1>6, <2>1, <2>2
  <2>4. ~recording'[d]
    BY <1>1
  <2>5. QED
    BY <2>3, <2>4 DEF Follows, Stopping
<1>9. ASSUME Has(Tail(events[d]), "value")
      PROVE  Has(events'[d], "value")
  BY <1>4, <1>5, <1>6, <1>9, AppendFacts DEF Has
<1>10. QED
  BY <1>4, <1>7, <1>8, <1>9 DEF Follows

LEMMA JoinFacts ==
  ASSUME NEW s \in Seq(Events), NEW t \in Seq(Events)
  PROVE  /\ s \o t \in Seq(Events) /\ Len(s \o t) = Len(s) + Len(t)
         /\ \A i \in 1..(Len(s) + Len(t)) :
              (s \o t)[i] = IF i <= Len(s) THEN s[i] ELSE t[i - Len(s)]
BY ConcatProperties

\* What is heard first: the record, and the reads that waited for it.
LEMMA FirstHeard ==
  ASSUME NEW s \in Seq(Events), NEW r \in Records, NEW k \in Nat, Value(r) \in Events
  PROVE  LET t == s \o (<<Value(r)>> \o [i \in 1..k |-> TapRead(r)])
         IN  Current(t, r) /\ Has(t, "value")
<1> DEFINE reads == [i \in 1..k |-> TapRead(r)]
           v == <<Value(r)>>
           t == s \o (v \o reads)
           n == Len(s) + 1
<1>1. TapRead(r) \in Events
  BY RecordFacts DEF TapRead, Events
<1>2. /\ TapRead(r).type = "tap" /\ TapRead(r).n = r[NumSessions]
      /\ Value(r).type = "value" /\ Value(r).record = r
  BY DEF TapRead, Value
<1>3. reads \in Seq(Events) /\ Len(reads) = k /\ v \in Seq(Events) /\ Len(v) = 1
      /\ v[1] = Value(r) /\ \A i \in 1..k : reads[i] = TapRead(r)
  <2> HIDE DEF t, n
  <2> QED BY <1>1
<1> HIDE DEF reads, v
<1>4. /\ v \o reads \in Seq(Events) /\ Len(v \o reads) = k + 1
      /\ \A i \in 1..(k + 1) : (v \o reads)[i] = IF i = 1 THEN Value(r) ELSE TapRead(r)
  <2>1. /\ v \o reads \in Seq(Events) /\ Len(v \o reads) = 1 + k
        /\ \A i \in 1..(1 + k) : (v \o reads)[i] = IF i <= 1 THEN v[i] ELSE reads[i - 1]
    <3>1. v \in Seq(Events) /\ reads \in Seq(Events) /\ Len(v) = 1 /\ Len(reads) = k
      BY <1>3
    <3>2. /\ v \o reads \in Seq(Events) /\ Len(v \o reads) = Len(v) + Len(reads)
          /\ \A i \in 1..(Len(v) + Len(reads)) :
               (v \o reads)[i] = IF i <= Len(v) THEN v[i] ELSE reads[i - Len(v)]
      BY <3>1, JoinFacts, Zenon
    <3>3. QED
      BY <3>1, <3>2
  <2>2. \A i \in 1..(k + 1) : (v \o reads)[i] = IF i = 1 THEN Value(r) ELSE TapRead(r)
    BY <1>3, <2>1
  <2>3. QED
    BY <2>1, <2>2
<1>5. /\ Len(s) \in Nat /\ DOMAIN t = 1..(Len(s) + (k + 1))
      /\ \A i \in 1..(Len(s) + (k + 1)) :
           t[i] = IF i <= Len(s) THEN s[i] ELSE (v \o reads)[i - Len(s)]
  BY <1>4, ConcatProperties, LenProperties
<1> HIDE DEF t
<1>6. n \in DOMAIN t /\ t[n] = Value(r)
  <2>1. n \in 1..(Len(s) + (k + 1)) /\ ~(n <= Len(s)) /\ n - Len(s) = 1
    BY <1>5
  <2>2. t[n] = (v \o reads)[1]
    BY <1>5, <2>1
  <2>3. QED
    BY <1>4, <1>5, <2>1, <2>2
<1>7. \A i \in DOMAIN t : i > n => t[i] = TapRead(r)
  <2> SUFFICES ASSUME NEW i \in DOMAIN t, i > n
               PROVE  t[i] = TapRead(r)
    OBVIOUS
  <2>1. i - Len(s) \in 1..(k + 1) /\ i - Len(s) # 1 /\ ~(i <= Len(s))
    BY <1>5
  <2>2. QED
    BY <1>4, <1>5, <2>1
<1>8. \A i \in DOMAIN t : NoValueAfter(t, i) => i = n \/ i > n
  BY <1>2, <1>5, <1>6 DEF NoValueAfter
<1>9. Current(t, r)
  BY <1>2, <1>6, <1>7, <1>8 DEF Current
<1>10. Has(t, "value")
  BY <1>2, <1>6 DEF Has
<1>11. QED
  BY <1>9, <1>10 DEF t, v, reads

LEMMA HearType ==
  ASSUME IInv, NEW d \in Devices, Hear(d)
  PROVE  LET m == Head(inbox[d])
         IN  /\ Under(m.record, IF m.ack THEN Tail(pending[d]) ELSE pending[d]) \in Records
             /\ waiting[d] \in Nat /\ events[d] \in Seq(Events)
<1> DEFINE m == Head(inbox[d])
           q == IF m.ack THEN Tail(pending[d]) ELSE pending[d]
<1>1. TypeOK /\ inbox[d] # <<>>
  BY Typed DEF Hear
<1>2. inbox[d] \in Seq(Messages) /\ pending[d] \in Seq(Writes) /\ waiting[d] \in Nat
      /\ events[d] \in Seq(Events)
  BY <1>1 DEF TypeOK
<1>3. m \in Messages
  BY <1>1, <1>2, TailFacts
<1>4. m.ack => pending[d] # <<>>
  <2>1. PICK c \in Nat : c = confirmed
    BY NetworkKept
  <2>2. /\ inbox[d] \in Seq(MessagesUnder(c)) /\ taken[d] = Cardinality(AckSet(inbox[d]))
        /\ taken[d] <= Len(pending[d])
    BY <2>1, NetworkKept
  <2> HIDE DEF m
  <2>3. m.ack => taken[d] > 0
    BY <1>1, <2>1, <2>2, AckTail DEF m
  <2>4. QED
    BY <2>2, <2>3, NetworkKept
<1>5. q \in Seq(Writes)
  BY <1>2, <1>4, TailFacts
<1>6. m.record \in Records
  BY <1>3 DEF Messages
<1> HIDE DEF m, q
<1>7. Under(m.record, q) \in Records
  BY <1>5, <1>6, UnderType
<1>8. QED
  BY <1>2, <1>7 DEF m, q

\* The alert asks about the session that is stopped, or is not shown.
LEMMA confirmSessionFollows ==
  ASSUME IInv, FollowInv, NEW d \in Devices, confirmSession(d)
  PROVE  FollowInv'
<1> DEFINE e == Head(events[d])
           a == [type |-> "confirm", n |-> e.n, total |-> e.total,
                 interval |-> now - e.in, out |-> now]
           u == IF alert[d] = Null THEN faults.unshown ELSE faults.unshown \cup {d}
<1>1. /\ events[d] # <<>> /\ e.type = "stop" /\ e.in # Null /\ LongEnough(now - e.in)
      /\ alert' = [alert EXCEPT ![d] = IF alert[d] = Null THEN a ELSE alert[d]]
      /\ faults' = [faults EXCEPT !.unshown = u]
      /\ events' = [events EXCEPT ![d] = Tail(events[d])]
      /\ UNCHANGED <<heard, pending, recording, screen>>
  BY DEF confirmSession, HasEvent, present, client
<1>2. a.type = "confirm" /\ a.n = e.n
  OBVIOUS
<1>3. e \in Events /\ Tail(events[d]) \in Seq(Events)
  BY <1>1, PageFacts, TailFacts
<1>4. a # Null
  <2>1. e.n \in Nat /\ e.total \in Nat /\ e.in \in Times
    <3> HIDE DEF e, a
    <3> QED BY <1>1, <1>3 DEF Events
  <2>2. now - e.in \in Intervals
    <3>1. now \in Times
      BY PageFacts
    <3> HIDE DEF e, a
    <3> QED BY <1>1, <2>1, <3>1, IntervalOK
  <2>3. a \in Alerts
    <3> HIDE DEF e
    <3> QED BY <2>1, <2>2, PageFacts DEF Alerts
  <2>4. QED
    BY <2>3, NullOK
<1>5. faults'.unshown = u
  BY <1>1, PageFacts DEF Faults
<1>6. PhoneFollows(d)'
  <2>1. SUFFICES ASSUME heard'[d] # Null
                 PROVE  /\ Current(events'[d], View(d)')
                        /\ Running(View(d)') /\ d \notin faults'.unshown => Follows(d)'
    BY DEF PhoneFollows
  <2>2. /\ heard[d] # Null /\ View(d)' = View(d) /\ events[d] \in Seq(Events)
        /\ Current(events[d], View(d)) /\ events'[d] = Tail(events[d])
        /\ recording'[d] = recording[d] /\ screen'[d] = screen[d]
        /\ alert'[d] = IF alert[d] = Null THEN a ELSE alert[d]
    BY <1>1, <2>1, PageFacts DEF FollowInv, PhoneFollows, View
  <2>3. Current(events'[d], View(d)')
    BY <1>1, <2>2, CurrentTail
  <2>4. SUFFICES ASSUME Running(View(d)), d \notin u
                 PROVE  Follows(d)'
    BY <1>5, <2>2, <2>3
  <2>5. d \notin faults.unshown /\ alert[d] = Null /\ alert'[d] = a
    BY <2>2, <2>4
  <2>6. Follows(d)
    BY <2>2, <2>4, <2>5 DEF FollowInv, PhoneFollows
  <2>7. /\ Has(events[d], "value") => Has(events'[d], "value")
        /\ Has(events[d], "tap") => Has(events'[d], "tap")
    BY <1>1, <2>2, HasTail
  <2>8. Stopping(d) => Stopping(d)'
    <3>1. SUFFICES ASSUME Stopping(d)
                   PROVE  Stopping(d)'
      OBVIOUS
    <3>2. PICK i \in DOMAIN events[d] :
            events[d][i].type = "stop" /\ events[d][i].n = View(d)[NumSessions]
      BY <2>5, <3>1 DEF Stopping
    <3>3. CASE i = 1
      <4>1. e.n = View(d)[NumSessions]
        BY <1>1, <2>2, <3>2, <3>3, TailFacts
      <4>2. alert'[d] # Null /\ alert'[d].type = "confirm" /\ alert'[d].n = View(d)'[NumSessions]
        BY <1>2, <1>4, <2>2, <2>5, <4>1
      <4>3. QED
        BY <4>2 DEF Stopping
    <3>4. CASE i # 1
      <4>1. i - 1 \in DOMAIN events'[d] /\ events'[d][i - 1] = events[d][i]
        <5>1. i - 1 \in DOMAIN Tail(events[d]) /\ events[d][i] = Tail(events[d])[i - 1]
          BY <1>1, <2>2, <3>4, TailFacts
        <5>2. QED
          BY <2>2, <5>1
      <4>2. QED
        BY <2>2, <3>2, <4>1 DEF Stopping
    <3>5. QED
      BY <3>3, <3>4
  <2>9. Shown(d) <=> Shown(d)'
    BY <2>2 DEF Shown
  <2>10. QED
    BY <2>2, <2>6, <2>7, <2>8, <2>9 DEF Follows
<1>7. \A p \in Devices : p # d => (p \in faults'.unshown <=> p \in faults.unshown)
  BY <1>5
<1>8. QED
  BY <1>1, <1>6, <1>7, PageFacts, OthersFollow

\* A short session is dismissed; the one running too if it is that one.
LEMMA rejectSessionFollows ==
  ASSUME IInv, FollowInv, NEW d \in Devices, rejectSession(d)
  PROVE  FollowInv'
<1> DEFINE n == Head(events[d]).n
           w == Remove(n + 1)
           a == [type |-> "warning"]
           u == IF alert[d] = Null THEN faults.unshown ELSE faults.unshown \cup {d}
<1>1. /\ events[d] # <<>> /\ Head(events[d]).type = "stop"
      /\ alert' = [alert EXCEPT ![d] = IF alert[d] = Null THEN a ELSE alert[d]]
      /\ faults' = [faults EXCEPT !.unshown = u]
      /\ pending' = [pending EXCEPT ![d] = Append(pending[d], w)]
      /\ events' = [events EXCEPT ![d] = Tail(events[d]) \o SetEvents(View(d), w)]
      /\ UNCHANGED <<heard, recording, screen>>
  BY DEF rejectSession, HasEvent, present, dismissSession
<1>2. n \in Nat /\ w \in Writes /\ Tail(events[d]) \in Seq(Events)
  <2>1. Head(events[d]) \in Events /\ Tail(events[d]) \in Seq(Events)
    BY <1>1, PageFacts, TailFacts
  <2>2. n \in Nat
    BY <1>1, <2>1 DEF Events
  <2>3. QED
    BY <2>1, <2>2, RemoveType
<1>3. faults'.unshown = u
  BY <1>1, PageFacts DEF Faults
<1>4. PhoneFollows(d)'
  <2>1. SUFFICES ASSUME heard'[d] # Null
                 PROVE  /\ Current(events'[d], View(d)')
                        /\ Running(View(d)') /\ d \notin faults'.unshown => Follows(d)'
    BY DEF PhoneFollows
  <2>2. /\ heard[d] # Null /\ View(d) \in Records /\ events[d] \in Seq(Events)
        /\ Current(events[d], View(d)) /\ Current(Tail(events[d]), View(d))
        /\ recording'[d] = recording[d] /\ screen'[d] = screen[d]
        /\ alert'[d] = IF alert[d] = Null THEN a ELSE alert[d]
    <3>1. /\ heard[d] # Null /\ View(d) \in Records /\ events[d] \in Seq(Events)
          /\ Current(events[d], View(d))
          /\ recording'[d] = recording[d] /\ screen'[d] = screen[d]
          /\ alert'[d] = IF alert[d] = Null THEN a ELSE alert[d]
      BY <1>1, <2>1, PageFacts DEF FollowInv, PhoneFollows
    <3>2. QED
      BY <1>1, <3>1, CurrentTail
  <2> HIDE DEF w
  <2>3. /\ Current(events'[d], View(d)')
        /\ \/ Has(events'[d], "value")
           \/ events'[d] = Tail(events[d]) /\ View(d)' = View(d) /\ View(d) = Apply(View(d), w)
    BY <1>1, <1>2, <2>2, PageFacts, OneWrite
  <2>4. CASE Has(events'[d], "value")
    BY <2>3, <2>4 DEF Follows
  <2>5. CASE events'[d] = Tail(events[d]) /\ View(d)' = View(d) /\ View(d) = Apply(View(d), w)
    <3>1. SUFFICES ASSUME Running(View(d)), d \notin u
                   PROVE  Follows(d)'
      BY <1>3, <2>3, <2>5
    <3>2. d \notin faults.unshown /\ alert[d] = Null
      BY <3>1
    <3>3. Follows(d)
      BY <2>2, <3>1, <3>2 DEF FollowInv, PhoneFollows
    <3>4. n # View(d)[NumSessions]
      BY <2>2, <2>5, <3>1, RemovedIsGone DEF w
    <3>5. /\ Has(events[d], "value") => Has(events'[d], "value")
          /\ Has(events[d], "tap") => Has(events'[d], "tap")
      BY <1>1, <2>2, <2>5, HasTail
    <3>6. Stopping(d) => Stopping(d)'
      <4>1. SUFFICES ASSUME Stopping(d)
                     PROVE  Stopping(d)'
        OBVIOUS
      <4>2. PICK i \in DOMAIN events[d] :
              events[d][i].type = "stop" /\ events[d][i].n = View(d)[NumSessions]
        BY <3>2, <4>1 DEF Stopping
      <4>3. i # 1
        BY <1>1, <2>2, <3>4, <4>2, TailFacts
      <4>4. i - 1 \in DOMAIN events'[d] /\ events'[d][i - 1] = events[d][i]
        <5>1. i - 1 \in DOMAIN Tail(events[d]) /\ events[d][i] = Tail(events[d])[i - 1]
          BY <1>1, <2>2, <4>3, TailFacts
        <5>2. QED
          BY <2>5, <5>1
      <4>5. QED
        BY <2>5, <4>2, <4>4 DEF Stopping
    <3>7. Shown(d) <=> Shown(d)'
      BY <2>2, <2>5 DEF Shown
    <3>8. QED
      BY <2>2, <3>3, <3>5, <3>6, <3>7 DEF Follows
  <2>6. QED
    BY <2>3, <2>4, <2>5
<1>5. \A p \in Devices : p # d => (p \in faults'.unshown <=> p \in faults.unshown)
  BY <1>3
<1>6. QED
  BY <1>1, <1>4, <1>5, PageFacts, OthersFollow

LEMMA RelaunchedFollows ==
  ASSUME IInv, FollowInv, NEW d \in Devices, Crash(d) \/ Kill(d)
  PROVE  FollowInv'
<1>1. /\ pending' = [pending EXCEPT ![d] = <<>>]
      /\ heard' = [heard EXCEPT ![d] = Null]
      /\ events' = [events EXCEPT ![d] = <<>>]
      /\ recording' = [recording EXCEPT ![d] = FALSE]
      /\ screen' = [screen EXCEPT ![d] = Fresh]
      /\ alert' = [alert EXCEPT ![d] = Null]
  BY DEF Crash, Kill, Relaunched
<1>2. faults'.unshown = faults.unshown \ {d}
  BY PageFacts DEF Crash, Kill, Faults
<1>3. PhoneFollows(d)'
  BY <1>1, PageFacts DEF PhoneFollows
<1>4. QED
  BY <1>1, <1>2, <1>3, PageFacts, OthersFollow

\* The record heard is queued last, and the taps that waited are read from it.
LEMMA HearFollows ==
  ASSUME IInv, FollowInv, NEW d \in Devices, Hear(d)
  PROVE  FollowInv'
<1> DEFINE m == Head(inbox[d])
           q == IF m.ack THEN Tail(pending[d]) ELSE pending[d]
           new == Under(m.record, q)
           reads == [i \in 1..waiting[d] |-> TapRead(new)]
<1>1. /\ heard' = [heard EXCEPT ![d] = m.record]
      /\ pending' = [pending EXCEPT ![d] = q]
      /\ heard[d] = Null =>
           events' = [events EXCEPT ![d] = events[d] \o (<<Value(new)>> \o reads)]
      /\ heard[d] # Null => events' = [events EXCEPT ![d] = events[d] \o Raised(View(d), new)]
      /\ UNCHANGED <<recording, screen, alert, faults>>
  BY DEF Hear
<1>2. View(d)' = new
  BY <1>1, PageFacts DEF View
<1>3. new \in Records /\ waiting[d] \in Nat /\ events[d] \in Seq(Events)
  BY HearType
<1> HIDE DEF new
<1>4. Value(new) \in Events
  BY <1>3 DEF Value, Events
<1>5. CASE heard[d] = Null
  <2>1. events'[d] = events[d] \o (<<Value(new)>> \o reads)
    BY <1>1, <1>5, PageFacts
  <2>2. Current(events'[d], new) /\ Has(events'[d], "value")
    BY <1>3, <1>4, <2>1, FirstHeard
  <2>3. PhoneFollows(d)'
    BY <1>2, <2>2 DEF PhoneFollows, Follows
  <2>4. QED
    BY <1>1, <1>5, <2>3, PageFacts, OthersFollow
<1>6. CASE heard[d] # Null
  <2>1. events'[d] = events[d] \o Raised(View(d), new) /\ Current(events[d], View(d))
    BY <1>1, <1>6, PageFacts DEF FollowInv, PhoneFollows
  <2>2. /\ Current(events'[d], new)
        /\ \/ Has(events'[d], "value")
           \/ new = View(d) /\ events'[d] = events[d]
    BY <1>3, <1>4, <2>1, CurrentRaised
  <2>3. PhoneFollows(d)'
    <3>1. CASE Has(events'[d], "value")
      BY <1>2, <2>2, <3>1 DEF PhoneFollows, Follows
    <3>2. CASE new = View(d) /\ events'[d] = events[d]
      <4>1. PhoneFollows(d)
        BY DEF FollowInv
      <4>2. Follows(d) => Follows(d)'
        BY <1>1, <1>2, <3>2 DEF Follows, Shown, Stopping
      <4>3. QED
        BY <1>1, <1>2, <1>6, <2>2, <3>2, <4>1, <4>2 DEF PhoneFollows
    <3>3. QED
      BY <2>2, <3>1, <3>2
  <2>4. QED
    BY <1>1, <1>6, <2>3, PageFacts, OthersFollow
<1>7. QED
  BY <1>5, <1>6

LEMMA NextFollows == IInv /\ FollowInv /\ [Next]_vars => FollowInv'
<1> SUFFICES ASSUME IInv, FollowInv, [Next]_vars
             PROVE  FollowInv'
  OBVIOUS
<1>1. CASE UNCHANGED vars
  BY <1>1, SameFollows DEF vars, client, app
<1>2. CASE Tick
  BY <1>2, SameFollows DEF Tick, client, app
<1>3. ASSUME NEW d \in Devices, OpenHistory(d) \/ CloseHistory(d)
      PROVE  FollowInv'
  BY <1>3, SameFollows DEF OpenHistory, CloseHistory, client
<1>4. ASSUME NEW d \in Devices, TakeWrite(d) \/ Reconnect(d)
      PROVE  FollowInv'
  BY <1>4, SameFollows DEF TakeWrite, Reconnect, app
<1>5. ASSUME NEW d \in Devices, Disconnect(d)
      PROVE  FollowInv'
  <2>1. faults' = [faults EXCEPT !.disconnects = @ + 1]
        /\ UNCHANGED <<heard, pending, events, recording, screen, alert>>
    BY <1>5 DEF Disconnect, app
  <2>2. faults'.unshown = faults.unshown
    BY <2>1, PageFacts DEF Faults
  <2>3. QED
    BY <2>1, <2>2, SameFollows
<1>6. ASSUME NEW d \in Devices, User(d)
      PROVE  FollowInv'
  BY <1>3, <1>6, startRecordingFollows, recordSessionFollows, DeclineFollows,
     CloseWarningFollows DEF User
<1>7. ASSUME NEW d \in Devices, MainThread(d)
      PROVE  FollowInv'
  BY <1>7, observeValueFollows, checkInFollows, readSessionFollows, confirmSessionFollows,
     rejectSessionFollows, RelaunchedFollows DEF MainThread
<1>8. ASSUME NEW d \in Devices, Network(d) \/ Kill(d)
      PROVE  FollowInv'
  BY <1>4, <1>8, HearFollows, RelaunchedFollows DEF Network
<1>9. QED
  BY <1>1, <1>2, <1>5, <1>6, <1>7, <1>8 DEF Next

\* A page that has caught up has nothing left to handle.
LEMMA FollowsShows == IInv /\ FollowInv => ShowsSession
<1> SUFFICES ASSUME IInv, FollowInv, NEW d \in Devices,
                    Caught(d), alert[d] = Null, d \notin faults.unshown, Running(db)
             PROVE  /\ recording[d] /\ screen[d].title = "Stop"
                    /\ screen[d].checkIn = ShownIn(db)
  BY DEF ShowsSession
<1>1. pending[d] = <<>> /\ heard[d] = db /\ events[d] = <<>>
  BY DEF Caught
<1>2. db \in Records /\ db # Null
  BY NullOK DEF IInv, DataUnder, RecordsUnder
<1>3. View(d) = db
  BY <1>1, <1>2, UnderNothing DEF View
<1>4. Follows(d)
  BY <1>1, <1>2, <1>3 DEF FollowInv, PhoneFollows
<1>5. ~Has(events[d], "value") /\ ~Has(events[d], "tap") /\ ~Stopping(d)
  BY <1>1 DEF Has, Stopping
<1>6. QED
  BY <1>3, <1>4, <1>5 DEF Follows, Shown

\* However users tap, whatever other phones write and the network does: the page
\* of a phone that has caught up with a running session shows it and offers to
\* stop it, unless UIKit did not show one of its alerts.  Every change of what the
\* phone sees is queued for the listener, which sets the flag again; a tap that
\* cleared it is on its way to an alert about that very session.
THEOREM PageShowsSession == Spec => []ShowsSession
<1>1. Spec => []IInv
  BY InitOK, Inductive, PTL DEF Spec
<1>2. Init => FollowInv
  BY InitFollows
<1>3. IInv /\ FollowInv /\ [Next]_vars => FollowInv'
  BY NextFollows
<1>4. IInv /\ FollowInv => ShowsSession
  BY FollowsShows
<1>5. QED
  BY <1>1, <1>2, <1>3, <1>4, PTL DEF Spec
=============================================================================
