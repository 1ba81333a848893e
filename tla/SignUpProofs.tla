------------------------------ MODULE SignUpProofs ------------------------------
(***************************************************************************)
(* For any phones and bounds: a record that is there has its totalHours, a *)
(* counter falls only to old values, and a record without its count is     *)
(* only there while a sign-up is on its way or after one was cut short.    *)
(***************************************************************************)
EXTENDS SignUp, TLAPS, SequenceTheorems, WellFoundedInduction

\* The write brings the hours; it brings something else of the record.
BringsHours(w) == "totalHours" \in w.fields
BringsOther(w) == "numSessions" \in w.fields \/ "sisterName" \in w.fields

HasHours(d) == d["totalHours"] # Null

\* Whatever else of the record a phone still has to write comes after the hours,
\* and hours that the server took are there.
QueueOK(q, n, d) ==
  /\ \A i \in DOMAIN q : BringsOther(q[i]) => HasHours(d) \/ \E j \in 1..i : BringsHours(q[j])
  /\ \A j \in 1..n : BringsHours(q[j]) => HasHours(d)

HoursFirst == \A p \in Phones : QueueOK(pending[p], taken[p], db)

\* A write of a sign-up among the first i brings the counter.
Brought(q, i, f) == \E j \in 1..i : OfSignUp(q[j]) /\ f \in q[j].fields

\* A counter that the server took is there, and a write of one has that of a sign-up
\* before it, or is one.
CounterOK(q, n, d, f) ==
  /\ \A i \in 1..n : f \in q[i].fields => d[f] # Null
  /\ \A i \in DOMAIN q : f \in q[i].fields => d[f] # Null \/ Brought(q, i, f)

\* What an iPhone read is there or on its way from it.
AskedOK(a, q, d) == a # Null => \A f \in Counters : d[f] # Null \/ Brought(q, Len(q), f)

Counting == \A p \in Phones :
  /\ \A f \in Counters : CounterOK(pending[p], taken[p], db, f)
  /\ AskedOK(asked[p], pending[p], db)

\* An Android asks nothing, and has nothing out but the writes of a sign-up.
AndroidOnly == \A p \in Android :
  asked[p] = Null /\ \A i \in DOMAIN pending[p] : OfSignUp(pending[p][i])

IInv == TypeOK /\ SistersPageOpens /\ HoursFirst /\ Counting /\ AndroidOnly

-----------------------------------------------------------------------------
(* Fields and writes.                                                      *)

LEMMA FieldFacts ==
  /\ Fields = {"totalHours", "numSessions", "sisterName", "admin"}
  /\ Counters \subseteq Fields
  /\ 0 # Null
BY ConstantsOK DEF Fields, Counters

LEMMA WriteType ==
  ASSUME NEW fs \in SUBSET Fields
  PROVE  /\ Write(fs) \in Writes /\ Write(fs).fields = fs
         /\ OfSignUp(Write(fs))
BY DEF Write, Put, Writes, OfSignUp

LEMMA PutType ==
  ASSUME NEW fs \in SUBSET Fields, NEW v \in Nat
  PROVE  Put(fs, v) \in Writes /\ Put(fs, v).fields = fs /\ Put(fs, v).val = v
BY DEF Put, Writes

LEMMA SignUpWrites ==
  /\ AndroidWrites \in Seq(Writes) /\ Len(AndroidWrites) = 3
  /\ IosWrites \in Seq(Writes) /\ Len(IosWrites) = 1
  /\ BringsHours(AndroidWrites[1]) /\ BringsHours(IosWrites[1])
  /\ \A t \in {AndroidWrites, IosWrites} : \A k \in DOMAIN t : OfSignUp(t[k])
<1>1. /\ Write({"totalHours"}) \in Writes /\ Write({"totalHours"}).fields = {"totalHours"}
      /\ Write({"numSessions"}) \in Writes
      /\ Write({"sisterName"}) \in Writes
  BY FieldFacts, WriteType
<1>2. /\ Write({"sisterName", "numSessions", "totalHours"}) \in Writes
      /\ Write({"sisterName", "numSessions", "totalHours"}).fields
           = {"sisterName", "numSessions", "totalHours"}
  BY FieldFacts, WriteType
<1>3. \A t \in {AndroidWrites, IosWrites} : \A k \in DOMAIN t : OfSignUp(t[k])
  BY DEF AndroidWrites, IosWrites, Write, Put, OfSignUp
<1>4. QED
  BY <1>1, <1>2, <1>3 DEF AndroidWrites, IosWrites, BringsHours

LEMMA ApplyType ==
  ASSUME NEW r \in [Fields -> Nat \cup {Null}], NEW w \in Writes
  PROVE  /\ Apply(r, w) \in [Fields -> Nat \cup {Null}]
         /\ \A f \in Fields : r[f] # Null => Apply(r, w)[f] # Null
         /\ \A f \in Fields : f \in w.fields => Apply(r, w)[f] # Null
         /\ \A f \in Fields : f \notin w.fields => Apply(r, w)[f] = r[f]
BY FieldFacts, ConstantsOK DEF Apply, Writes

-----------------------------------------------------------------------------
(* Queues.                                                                 *)

\* More of the record at the server, or fewer writes taken, leave a queue as it is.
LEMMA QueueMonotonic ==
  ASSUME NEW q, NEW n \in Nat, NEW m \in Nat, m <= n,
         NEW d, NEW d2, HasHours(d) => HasHours(d2),
         QueueOK(q, n, d)
  PROVE  QueueOK(q, m, d2)
BY DEF QueueOK

\* Writes that bring the hours first, or nothing of the record, may be added, and any
\* behind hours that are there or on their way.
LEMMA QueueJoined ==
  ASSUME NEW q \in Seq(Writes), NEW n \in Nat, n <= Len(q), NEW d,
         QueueOK(q, n, d), NEW t \in Seq(Writes), t # <<>>,
         \/ BringsHours(t[1]) \/ HasHours(d) \/ (\E j \in DOMAIN q : BringsHours(q[j]))
         \/ \A k \in DOMAIN t : ~BringsOther(t[k])
  PROVE  QueueOK(q \o t, n, d) /\ q \o t \in Seq(Writes) /\ n <= Len(q \o t)
<1>1. /\ q \o t \in Seq(Writes) /\ Len(q \o t) = Len(q) + Len(t)
      /\ Len(q) \in Nat /\ Len(t) \in Nat /\ Len(t) >= 1
      /\ DOMAIN q = 1..Len(q) /\ DOMAIN t = 1..Len(t) /\ DOMAIN (q \o t) = 1..(Len(q) + Len(t))
      /\ \A i \in 1..Len(q) : (q \o t)[i] = q[i]
      /\ \A i \in 1..Len(t) : (q \o t)[Len(q) + i] = t[i]
  BY ConcatProperties, LenProperties, EmptySeq
<1>2. ASSUME NEW i \in DOMAIN (q \o t), BringsOther((q \o t)[i])
      PROVE  HasHours(d) \/ \E j \in 1..i : BringsHours((q \o t)[j])
  <2>1. CASE i <= Len(q)
    <3>1. i \in DOMAIN q /\ (q \o t)[i] = q[i]
      BY <1>1, <2>1
    <3>2. HasHours(d) \/ \E j \in 1..i : BringsHours(q[j])
      BY <1>2, <3>1 DEF QueueOK
    <3>3. \A j \in 1..i : (q \o t)[j] = q[j]
      BY <1>1, <2>1
    <3>4. QED
      BY <3>2, <3>3
  <2>2. CASE i > Len(q)
    <3>1. i - Len(q) \in 1..Len(t) /\ (q \o t)[i] = t[i - Len(q)]
      <4>1. i - Len(q) \in 1..Len(t) /\ i = Len(q) + (i - Len(q))
        BY <1>1, <2>2
      <4>2. QED
        BY <1>1, <4>1
    <3>2. BringsHours(t[1]) \/ HasHours(d) \/ \E j \in DOMAIN q : BringsHours(q[j])
      BY <1>1, <1>2, <3>1
    <3>3. Len(q) + 1 \in 1..i /\ (q \o t)[Len(q) + 1] = t[1]
      BY <1>1, <2>2
    <3>4. \A j \in DOMAIN q : j \in 1..i /\ (q \o t)[j] = q[j]
      BY <1>1, <2>2
    <3>5. QED
      BY <3>2, <3>3, <3>4
  <2>3. QED
    BY <1>1, <2>1, <2>2
<1>3. \A j \in 1..n : BringsHours((q \o t)[j]) => HasHours(d)
  BY <1>1 DEF QueueOK
<1>4. QueueOK(q \o t, n, d)
  BY <1>2, <1>3 DEF QueueOK
<1>5. QED
  BY <1>1, <1>4

\* The server takes the next write.
LEMMA QueueTaken ==
  ASSUME NEW q \in Seq(Writes), NEW n \in Nat, n + 1 <= Len(q),
         NEW d, NEW d2, QueueOK(q, n, d), HasHours(d) => HasHours(d2),
         BringsHours(q[n + 1]) => HasHours(d2),
         NEW q2, DOMAIN q2 = DOMAIN q, \A i \in DOMAIN q : q2[i].fields = q[i].fields
  PROVE  /\ QueueOK(q2, n + 1, d2)
         /\ BringsOther(q[n + 1]) => HasHours(d2)
<1>1. DOMAIN q = 1..Len(q) /\ Len(q) \in Nat /\ n + 1 \in DOMAIN q
  BY LenProperties
<1>2. \A i \in DOMAIN q : /\ BringsHours(q2[i]) = BringsHours(q[i])
                          /\ BringsOther(q2[i]) = BringsOther(q[i])
  BY DEF BringsHours, BringsOther
<1>3. \A j \in 1..(n + 1) : BringsHours(q[j]) => HasHours(d2)
  <2> TAKE j \in 1..(n + 1)
  <2>1. j \in 1..n \/ j = n + 1
    OBVIOUS
  <2>2. QED
    BY <2>1 DEF QueueOK
<1>4. BringsOther(q[n + 1]) => HasHours(d2)
  BY <1>1, <1>3 DEF QueueOK
<1>5. \A i \in DOMAIN q : BringsOther(q[i]) => HasHours(d2) \/ \E j \in 1..i : BringsHours(q[j])
  BY DEF QueueOK
<1>6. \A i \in DOMAIN q : 1..i \subseteq DOMAIN q
  BY <1>1
<1>7. QED
  BY <1>1, <1>2, <1>3, <1>4, <1>5, <1>6 DEF QueueOK

\* The client hears that the first write was taken.
LEMMA QueueTail ==
  ASSUME NEW q \in Seq(Writes), NEW n \in Nat, 0 < n, n <= Len(q),
         NEW d, QueueOK(q, n, d)
  PROVE  QueueOK(Tail(q), n - 1, d) /\ Tail(q) \in Seq(Writes)
         /\ n - 1 \in Nat /\ n - 1 <= Len(Tail(q))
<1>1. /\ q # <<>> /\ Len(q) \in Nat /\ DOMAIN q = 1..Len(q)
      /\ Tail(q) \in Seq(Writes) /\ Len(Tail(q)) = Len(q) - 1
      /\ DOMAIN Tail(q) = 1..(Len(q) - 1)
      /\ \A i \in 1..(Len(q) - 1) : Tail(q)[i] = q[i + 1]
  BY HeadTailProperties, LenProperties, EmptySeq
<1>2. ASSUME NEW i \in DOMAIN Tail(q), BringsOther(Tail(q)[i])
      PROVE  HasHours(d) \/ \E j \in 1..i : BringsHours(Tail(q)[j])
  <2>1. i + 1 \in DOMAIN q /\ BringsOther(q[i + 1])
    BY <1>1, <1>2
  <2>2. HasHours(d) \/ \E j \in 1..(i + 1) : BringsHours(q[j])
    BY <2>1 DEF QueueOK
  <2>3. ASSUME NEW j \in 1..(i + 1), BringsHours(q[j]), ~HasHours(d)
        PROVE  \E k \in 1..i : BringsHours(Tail(q)[k])
    <3>1. j # 1
      BY <2>3 DEF QueueOK
    <3>2. j - 1 \in 1..i /\ Tail(q)[j - 1] = q[j]
      <4>1. j - 1 \in 1..i /\ j - 1 + 1 = j
        BY <1>1, <3>1
      <4>2. QED
        BY <1>1, <4>1
    <3>3. QED
      BY <2>3, <3>2
  <2>4. QED
    BY <2>2, <2>3
<1>3. \A j \in 1..(n - 1) : BringsHours(Tail(q)[j]) => HasHours(d)
  <2> TAKE j \in 1..(n - 1)
  <2>1. j + 1 \in 1..n /\ Tail(q)[j] = q[j + 1]
    BY <1>1
  <2>2. QED
    BY <2>1 DEF QueueOK
<1>4. QED
  BY <1>1, <1>2, <1>3 DEF QueueOK

\* The last of some positions of a sequence is one of them.
LEMMA MaxIsIn ==
  ASSUME NEW n \in Nat, NEW S \in SUBSET (1..n), S # {}
  PROVE  Max(S) \in S
<1> DEFINE T == {n - i : i \in S}
<1> DEFINE R == {ss \in Nat \X Nat : ss[1] < ss[2]}
<1>1. T \subseteq Nat /\ T # {}
  OBVIOUS
<1>2. IsWellFoundedOn(R, Nat)
  <2>1. OpToRel(<, Nat) = R
    BY Zenon DEF OpToRel
  <2> HIDE DEF R
  <2>2. QED
    BY <2>1, NatLessThanWellFounded, Zenon
<1>3. PICK x \in T : \A y \in T : ~(<<y, x>> \in R)
  <2> HIDE DEF T, R
  <2>1. QED
    BY <1>1, <1>2, WFMin
<1>4. \A y \in T : ~(y < x)
  <2> TAKE y \in T
  <2>1. y \in Nat /\ x \in Nat /\ <<y, x>> \notin R
    <3> HIDE DEF T, R
    <3> QED BY <1>1, <1>3
  <2>2. QED
    BY <2>1
<1>5. PICK i \in S : x = n - i
  OBVIOUS
<1>6. \A j \in S : i >= j
  <2> TAKE j \in S
  <2>1. ~(n - j < x)
    BY <1>4
  <2>2. QED
    BY <1>5, <2>1
<1>7. QED
  BY <1>5, <1>6 DEF Max

\* More at the server, or fewer writes taken, leave a counter as it is.
LEMMA CounterMonotonic ==
  ASSUME NEW q, NEW n \in Nat, NEW m \in Nat, m <= n, NEW d, NEW d2, NEW f \in Counters,
         d[f] # Null => d2[f] # Null, CounterOK(q, n, d, f)
  PROVE  CounterOK(q, m, d2, f)
BY DEF CounterOK

\* Writes of a sign-up may be added, and those of a counter that is there or brought.
LEMMA CounterJoined ==
  ASSUME NEW q \in Seq(Writes), NEW n \in Nat, n <= Len(q), NEW d, NEW f \in Counters,
         CounterOK(q, n, d, f), NEW t \in Seq(Writes),
         \A k \in DOMAIN t : f \in t[k].fields =>
           OfSignUp(t[k]) \/ d[f] # Null \/ Brought(q, Len(q), f)
  PROVE  /\ CounterOK(q \o t, n, d, f)
         /\ Brought(q, Len(q), f) => Brought(q \o t, Len(q \o t), f)
<1>1. /\ Len(q \o t) = Len(q) + Len(t)
      /\ Len(q) \in Nat /\ Len(t) \in Nat
      /\ DOMAIN q = 1..Len(q) /\ DOMAIN t = 1..Len(t) /\ DOMAIN (q \o t) = 1..(Len(q) + Len(t))
      /\ \A i \in 1..Len(q) : (q \o t)[i] = q[i]
      /\ \A i \in 1..Len(t) : (q \o t)[Len(q) + i] = t[i]
  BY ConcatProperties, LenProperties
<1>2. \A i, k \in Nat : i <= Len(q) /\ i <= k /\ Brought(q, i, f) => Brought(q \o t, k, f)
  <2> TAKE i, k \in Nat
  <2> HAVE i <= Len(q) /\ i <= k /\ Brought(q, i, f)
  <2>1. PICK j \in 1..i : OfSignUp(q[j]) /\ f \in q[j].fields
    BY DEF Brought
  <2>2. j \in 1..k /\ (q \o t)[j] = q[j]
    BY <1>1
  <2>3. QED
    BY <2>1, <2>2 DEF Brought
<1>3. ASSUME NEW i \in DOMAIN (q \o t), f \in (q \o t)[i].fields
      PROVE  d[f] # Null \/ Brought(q \o t, i, f)
  <2>1. CASE i <= Len(q)
    <3>1. i \in DOMAIN q /\ (q \o t)[i] = q[i] /\ i \in Nat
      BY <1>1, <2>1
    <3>2. d[f] # Null \/ Brought(q, i, f)
      BY <1>3, <3>1 DEF CounterOK
    <3>3. QED
      BY <1>2, <2>1, <3>1, <3>2
  <2>2. CASE i > Len(q)
    <3>1. i - Len(q) \in 1..Len(t) /\ i = Len(q) + (i - Len(q)) /\ i \in Nat /\ i \in 1..i
      BY <1>1, <2>2
    <3>2. (q \o t)[i] = t[i - Len(q)]
      BY <1>1, <3>1
    <3>3. OfSignUp((q \o t)[i]) \/ d[f] # Null \/ Brought(q, Len(q), f)
      BY <1>1, <1>3, <3>1, <3>2
    <3>4. OfSignUp((q \o t)[i]) => Brought(q \o t, i, f)
      BY <1>3, <3>1 DEF Brought
    <3>5. Brought(q, Len(q), f) => Brought(q \o t, i, f)
      BY <1>1, <1>2, <2>2, <3>1
    <3>6. QED
      BY <3>3, <3>4, <3>5
  <2>3. QED
    BY <1>1, <2>1, <2>2
<1>4. \A j \in 1..n : f \in (q \o t)[j].fields => d[f] # Null
  BY <1>1 DEF CounterOK
<1>5. Brought(q, Len(q), f) => Brought(q \o t, Len(q \o t), f)
  <2>1. Len(q) + Len(t) \in Nat /\ Len(q) <= Len(q) + Len(t) /\ Len(q) <= Len(q)
    BY <1>1
  <2>2. QED
    BY <1>1, <1>2, <2>1
<1>6. QED
  BY <1>3, <1>4, <1>5 DEF CounterOK

\* The server takes the next write, which changes no counter that is not brought.
LEMMA CounterTaken ==
  ASSUME NEW q \in Seq(Writes), NEW n \in Nat, n + 1 <= Len(q), NEW f \in Counters,
         NEW d, NEW d2, CounterOK(q, n, d, f), d[f] # Null => d2[f] # Null,
         f \in q[n + 1].fields => d2[f] # Null,
         NEW q2, DOMAIN q2 = DOMAIN q,
         \A i \in DOMAIN q : q2[i].fields = q[i].fields /\ q2[i].val = q[i].val
  PROVE  /\ CounterOK(q2, n + 1, d2, f)
         /\ Brought(q, Len(q), f) => Brought(q2, Len(q), f)
<1>1. DOMAIN q = 1..Len(q) /\ Len(q) \in Nat
  BY LenProperties
<1>2. \A i \in DOMAIN q : OfSignUp(q2[i]) = OfSignUp(q[i])
  BY DEF OfSignUp
<1>3. ASSUME NEW i \in 0..Len(q), Brought(q, i, f)
      PROVE  Brought(q2, i, f)
  <2>1. 1..i \subseteq DOMAIN q
    BY <1>1
  <2>2. QED
    BY <1>2, <1>3, <2>1 DEF Brought
<1>4. \A j \in 1..(n + 1) : f \in q2[j].fields => d2[f] # Null
  <2> TAKE j \in 1..(n + 1)
  <2>1. j \in DOMAIN q /\ (j \in 1..n \/ j = n + 1)
    BY <1>1
  <2>2. QED
    BY <2>1 DEF CounterOK
<1>5. \A i \in DOMAIN q : f \in q2[i].fields => d2[f] # Null \/ Brought(q2, i, f)
  BY <1>1, <1>3 DEF CounterOK
<1>6. Brought(q, Len(q), f) => Brought(q2, Len(q), f)
  BY <1>1, <1>3
<1>7. QED
  BY <1>4, <1>5, <1>6 DEF CounterOK

\* The client hears that the first write was taken.
LEMMA CounterTail ==
  ASSUME NEW q \in Seq(Writes), NEW n \in Nat, 0 < n, n <= Len(q), NEW f \in Counters,
         NEW d, CounterOK(q, n, d, f)
  PROVE  /\ CounterOK(Tail(q), n - 1, d, f)
         /\ Brought(q, Len(q), f) => d[f] # Null \/ Brought(Tail(q), Len(Tail(q)), f)
<1>1. /\ q # <<>> /\ Len(q) \in Nat /\ DOMAIN q = 1..Len(q)
      /\ Len(Tail(q)) = Len(q) - 1
      /\ DOMAIN Tail(q) = 1..(Len(q) - 1)
      /\ \A i \in 1..(Len(q) - 1) : Tail(q)[i] = q[i + 1]
  BY HeadTailProperties, LenProperties, EmptySeq
<1>2. ASSUME NEW i \in 1..Len(q), Brought(q, i, f), d[f] = Null
      PROVE  Brought(Tail(q), i - 1, f)
  <2>1. PICK j \in 1..i : OfSignUp(q[j]) /\ f \in q[j].fields
    BY <1>2 DEF Brought
  <2>2. j # 1
    BY <1>2, <2>1 DEF CounterOK
  <2>3. j - 1 \in 1..(i - 1) /\ j - 1 \in 1..(Len(q) - 1) /\ j - 1 + 1 = j
    BY <1>1, <2>2
  <2>4. Tail(q)[j - 1] = q[j]
    BY <1>1, <2>3
  <2>5. QED
    BY <2>1, <2>3, <2>4 DEF Brought
<1>3. \A i \in DOMAIN Tail(q) : f \in Tail(q)[i].fields => d[f] # Null \/ Brought(Tail(q), i, f)
  <2> TAKE i \in DOMAIN Tail(q)
  <2> HAVE f \in Tail(q)[i].fields
  <2>1. i + 1 \in 1..Len(q) /\ i + 1 - 1 = i /\ Tail(q)[i] = q[i + 1]
    BY <1>1
  <2>2. d[f] # Null \/ Brought(q, i + 1, f)
    BY <1>1, <2>1 DEF CounterOK
  <2>3. QED
    BY <1>2, <2>1, <2>2
<1>4. \A j \in 1..(n - 1) : f \in Tail(q)[j].fields => d[f] # Null
  <2> TAKE j \in 1..(n - 1)
  <2>1. j + 1 \in 1..n /\ Tail(q)[j] = q[j + 1]
    BY <1>1
  <2>2. QED
    BY <2>1 DEF CounterOK
<1>5. Brought(q, Len(q), f) => d[f] # Null \/ Brought(Tail(q), Len(Tail(q)), f)
  <2>1. Len(q) \in 1..Len(q)
    BY <1>1
  <2>2. QED
    BY <1>1, <1>2, <2>1
<1>6. QED
  BY <1>3, <1>4, <1>5 DEF CounterOK

-----------------------------------------------------------------------------
(* The steps.                                                              *)

PendingType == pending \in [Phones -> Seq(Writes)]

\* What the invariant says of the server and of the queues.
Data ==
  /\ db \in [Fields -> Nat \cup {Null}]
  /\ PendingType
  /\ taken \in [Phones -> Nat] /\ \A p \in Phones : taken[p] <= Len(pending[p])

\* What it says of the pages and of the authentication service.
Rest ==
  /\ account \in BOOLEAN /\ cut \in BOOLEAN
  /\ page \in [Phones -> {"form", "creating", "away", "signedIn", "app"}]
  /\ call \in [Phones -> {"none", "sent", "ok", "taken"}]
  /\ user \in [Phones -> BOOLEAN] /\ reading \in [Phones -> BOOLEAN]
  /\ conn \in [Phones -> BOOLEAN]

AskedType == asked \in [Phones -> [Counters -> Nat] \cup {Null}]

LEMMA TypeParts == TypeOK <=> Rest /\ Data /\ AskedType
BY DEF TypeOK, Rest, Data, PendingType, AskedType

\* The record at the server is as it should be, and the queues.
Ordered == SistersPageOpens /\ HoursFirst

LEMMA InitOK == Init => IInv
<1> SUFFICES ASSUME Init PROVE IInv
  OBVIOUS
<1>1. Rest
  BY DEF Init, Rest
<1>2. Data
  <2>1. \A p \in Phones : pending[p] = <<>> /\ taken[p] = 0
    BY DEF Init
  <2>2. <<>> \in Seq(Writes) /\ Len(<<>>) = 0
    BY EmptySeq
  <2>3. PendingType
    BY <2>2 DEF Init, PendingType
  <2>4. db \in [Fields -> Nat \cup {Null}] /\ taken \in [Phones -> Nat]
    BY DEF Init
  <2>5. \A p \in Phones : taken[p] <= Len(pending[p])
    BY <2>1, <2>2
  <2>6. QED
    BY <2>3, <2>4, <2>5 DEF Data
<1>3. SistersPageOpens
  BY DEF Init, SistersPageOpens
<1>4. HoursFirst
  BY DEF Init, HoursFirst, QueueOK
<1>5. AskedType
  BY DEF Init, AskedType
<1>6. Counting
  BY DEF Init, Counting, CounterOK, AskedOK
<1>7. AndroidOnly
  BY ConstantsOK DEF Init, AndroidOnly
<1>8. QED
  BY <1>1, <1>2, <1>3, <1>4, <1>5, <1>6, <1>7, TypeParts DEF IInv

\* The pages stay of their types, whatever the step.
LEMMA RestStep ==
  ASSUME Rest, Next
  PROVE  Rest'
<1> USE DEF Rest, auth, client
<1>1. PICK p \in Phones :
        \/ createAccount(p) \/ CreateUser(p) \/ Created(p) \/ Refused(p)
        \/ Leave(p) \/ Return(p) \/ Unheard(p) \/ signIn(p) \/ signOut(p)
        \/ \E f \in Counters : Count(p, f)
        \/ startRecording(p) \/ recordSession(p)
        \/ AdminRead(p) \/ TakeWrite(p) \/ Ack(p)
        \/ Disconnect(p) \/ Reconnect(p) \/ Kill(p)
  BY DEF Next, Callback, Network
<1>2. CASE createAccount(p)
  BY <1>2 DEF createAccount
<1>3. CASE CreateUser(p)
  BY <1>3 DEF CreateUser
<1>4. CASE Created(p)
  BY <1>4 DEF Created
<1>5. CASE Refused(p)
  BY <1>5 DEF Refused
<1>6. CASE Leave(p)
  BY <1>6 DEF Leave
<1>7. CASE Return(p)
  BY <1>7 DEF Return
<1>8. CASE Unheard(p)
  BY <1>8 DEF Unheard
<1>9. CASE signIn(p)
  BY <1>9 DEF signIn
<1>10. CASE signOut(p)
  BY <1>10 DEF signOut
<1>11. CASE \E f \in Counters : Count(p, f)
  BY <1>11 DEF Count
<1>12. CASE AdminRead(p)
  BY <1>12 DEF AdminRead
<1>13. CASE TakeWrite(p)
  BY <1>13 DEF TakeWrite
<1>14. CASE Ack(p)
  BY <1>14 DEF Ack
<1>15. CASE Disconnect(p)
  BY <1>15 DEF Disconnect
<1>16. CASE Reconnect(p)
  BY <1>16 DEF Reconnect
<1>17. CASE Kill(p)
  BY <1>17 DEF Kill
<1>18. CASE startRecording(p)
  BY <1>18 DEF startRecording
<1>19. CASE recordSession(p)
  BY <1>19 DEF recordSession
<1>20. QED
  BY <1>1, <1>2, <1>3, <1>4, <1>5, <1>6, <1>7, <1>8, <1>9, <1>10, <1>11,
     <1>12, <1>13, <1>14, <1>15, <1>16, <1>17, <1>18, <1>19

\* Steps that neither the record nor the queues take part in.
LEMMA QuietStep ==
  ASSUME Data, Ordered, UNCHANGED <<db, pending, taken>>
  PROVE  Data' /\ Ordered'
BY DEF Data, PendingType, Ordered, SistersPageOpens, HoursFirst, HasHours, QueueOK

\* A phone adds writes that bring the hours first, or nothing of the record, or has
\* brought the hours before.
LEMMA JoinStep ==
  ASSUME Data, Ordered, NEW p \in Phones, NEW t \in Seq(Writes), t # <<>>,
         \/ BringsHours(t[1]) \/ HasHours(db)
         \/ (\E j \in DOMAIN pending[p] : BringsHours(pending[p][j]))
         \/ \A k \in DOMAIN t : ~BringsOther(t[k]),
         pending' = [pending EXCEPT ![p] = @ \o t], UNCHANGED <<db, taken>>
  PROVE  Data' /\ Ordered'
<1>1. pending[p] \in Seq(Writes) /\ taken[p] \in Nat /\ taken[p] <= Len(pending[p])
  BY DEF Data, PendingType
<1>2. QueueOK(pending[p], taken[p], db)
  BY DEF Ordered, HoursFirst, HasHours
<1> DEFINE q == pending[p] \o t
<1>3. QueueOK(q, taken[p], db) /\ q \in Seq(Writes) /\ taken[p] <= Len(q)
  BY <1>1, <1>2, QueueJoined
<1>4. pending'[p] = q /\ \A r \in Phones \ {p} : pending'[r] = pending[r]
  BY DEF Data, PendingType
<1>5. pending' \in [Phones -> Seq(Writes)]
  BY <1>3 DEF Data, PendingType
<1>6. Data'
  BY <1>3, <1>4, <1>5 DEF Data, PendingType
<1>7. HoursFirst'
  <2>1. HasHours(db') = HasHours(db) /\ taken' = taken
    BY DEF HasHours
  <2>2. ASSUME NEW r \in Phones
        PROVE  QueueOK(pending'[r], taken[r], db)
    BY <1>3, <1>4 DEF Ordered, HoursFirst
  <2>3. QED
    BY <2>1, <2>2 DEF HoursFirst, QueueOK
<1>8. QED
  BY <1>6, <1>7 DEF Ordered, SistersPageOpens

\* The server takes the next write of a phone.
LEMMA TakeStep ==
  ASSUME Data, Ordered, NEW p \in Phones, TakeWrite(p)
  PROVE  Data' /\ Ordered'
<1> DEFINE q == pending[p]
           i == taken[p] + 1
           w == q[i]
           q2 == [q EXCEPT ![i] = [w EXCEPT !.tried = TRUE]]
<1>1. q \in Seq(Writes) /\ taken[p] \in Nat /\ i \in 1..Len(q) /\ Len(q) \in Nat
      /\ DOMAIN q = 1..Len(q)
  BY LenProperties DEF Data, PendingType, TakeWrite
<1>2. w \in Writes
  BY <1>1, ElementOfSeq
<1>3. [w EXCEPT !.tried = TRUE] \in Writes /\ [w EXCEPT !.tried = TRUE].fields = w.fields
  BY <1>2 DEF Writes
<1>4. /\ q2 \in Seq(Writes) /\ Len(q2) = Len(q) /\ DOMAIN q2 = DOMAIN q
      /\ \A k \in DOMAIN q : q2[k].fields = q[k].fields
  <2>1. q2 \in Seq(Writes) /\ Len(q2) = Len(q)
    BY <1>1, <1>3, ExceptSeq
  <2>2. DOMAIN q2 = DOMAIN q
    OBVIOUS
  <2>3. \A k \in DOMAIN q : q2[k] = IF k = i THEN [w EXCEPT !.tried = TRUE] ELSE q[k]
    BY <1>1
  <2>4. QED
    BY <1>3, <2>1, <2>2, <2>3
<1>5. /\ db' = Apply(db, w) /\ pending' = [pending EXCEPT ![p] = q2]
      /\ taken' = [taken EXCEPT ![p] = i]
  BY DEF TakeWrite
<1> HIDE DEF q2, w
<1>6. /\ pending'[p] = q2 /\ taken'[p] = i
      /\ \A r \in Phones \ {p} : pending'[r] = pending[r] /\ taken'[r] = taken[r]
  BY <1>5 DEF Data, PendingType
<1>7. /\ db' \in [Fields -> Nat \cup {Null}]
      /\ \A f \in Fields : db[f] # Null => db'[f] # Null
      /\ \A f \in Fields : f \in w.fields => db'[f] # Null
      /\ \A f \in Fields : f \notin w.fields => db'[f] = db[f]
  <2>1. db \in [Fields -> Nat \cup {Null}]
    BY DEF Data
  <2>2. db' = Apply(db, w)
    BY <1>5
  <2>3. /\ Apply(db, w) \in [Fields -> Nat \cup {Null}]
        /\ \A f \in Fields : db[f] # Null => Apply(db, w)[f] # Null
        /\ \A f \in Fields : f \in w.fields => Apply(db, w)[f] # Null
        /\ \A f \in Fields : f \notin w.fields => Apply(db, w)[f] = db[f]
    BY <1>2, <2>1, ApplyType
  <2>4. QED
    BY <2>2, <2>3
<1>8. Data'
  <2>1. pending' \in [Phones -> Seq(Writes)]
    BY <1>4, <1>5 DEF Data, PendingType
  <2>2. taken' \in [Phones -> Nat]
    BY <1>1, <1>5 DEF Data
  <2>3. \A r \in Phones : taken'[r] <= Len(pending'[r])
    BY <1>1, <1>4, <1>6 DEF Data
  <2>4. QED
    BY <1>7, <2>1, <2>2, <2>3 DEF Data, PendingType
<1>9. /\ HasHours(db) => HasHours(db')
      /\ BringsHours(w) => HasHours(db')
  BY <1>7, FieldFacts DEF HasHours, BringsHours
<1>10. QueueOK(q2, i, db') /\ (BringsOther(w) => HasHours(db'))
  <2>1. QueueOK(q, taken[p], db) /\ taken[p] + 1 <= Len(q)
    BY <1>1 DEF Ordered, HoursFirst
  <2>2. BringsHours(q[taken[p] + 1]) => HasHours(db')
    BY <1>9 DEF w
  <2>3. /\ QueueOK(q2, taken[p] + 1, db')
        /\ BringsOther(q[taken[p] + 1]) => HasHours(db')
    <3> HIDE DEF q
    <3>1. QED
      BY <1>1, <1>4, <1>9, <2>1, <2>2, QueueTaken
  <2>4. QED
    BY <2>3 DEF w
<1>11. HoursFirst'
  <2>1. ASSUME NEW r \in Phones
        PROVE  QueueOK(pending'[r], taken'[r], db')
    <3>1. CASE r = p
      BY <1>6, <1>10, <3>1
    <3>2. CASE r # p
      <4>1. QueueOK(pending[r], taken[r], db) /\ taken[r] \in Nat
        BY DEF Ordered, HoursFirst, Data
      <4>2. QueueOK(pending[r], taken[r], db')
        BY <1>9, <4>1, QueueMonotonic
      <4>3. QED
        BY <1>6, <3>2, <4>2
    <3>3. QED
      BY <3>1, <3>2
  <2>2. QED
    BY <2>1 DEF HoursFirst, QueueOK
<1>12. SistersPageOpens'
  <2>1. ASSUME NEW f \in Fields \ {"admin"}, db'[f] # Null
        PROVE  HasHours(db')
    <3>1. CASE f \in w.fields
      BY <1>9, <1>10, <3>1, FieldFacts DEF BringsHours, BringsOther
    <3>2. CASE f \notin w.fields
      BY <1>7, <1>9, <2>1, <3>2 DEF Ordered, SistersPageOpens, HasHours
    <3>3. QED
      BY <3>1, <3>2
  <2>2. QED
    BY <2>1 DEF SistersPageOpens, HasHours
<1>13. QED
  BY <1>8, <1>11, <1>12 DEF Ordered

\* A phone's queue and what the server took of it change together, as before.
LEMMA QueueStep ==
  ASSUME Data, Ordered, NEW p \in Phones,
         NEW q \in Seq(Writes), NEW n \in Nat, n <= Len(q), QueueOK(q, n, db),
         pending' = [pending EXCEPT ![p] = q], taken' = [taken EXCEPT ![p] = n],
         UNCHANGED db
  PROVE  Data' /\ Ordered'
<1>1. /\ pending'[p] = q /\ taken'[p] = n
      /\ \A r \in Phones \ {p} : pending'[r] = pending[r] /\ taken'[r] = taken[r]
  BY DEF Data, PendingType
<1>2. Data'
  BY <1>1 DEF Data, PendingType
<1>3. HoursFirst'
  <2>1. HasHours(db') = HasHours(db)
    BY DEF HasHours
  <2>2. ASSUME NEW r \in Phones
        PROVE  QueueOK(pending'[r], taken'[r], db)
    BY <1>1 DEF Ordered, HoursFirst
  <2>3. QED
    BY <2>1, <2>2 DEF HoursFirst, QueueOK
<1>4. QED
  BY <1>2, <1>3 DEF Ordered, SistersPageOpens

\* A session is counted in a counter that is there.
LEMMA CountStep ==
  ASSUME Data, Ordered, NEW p \in Phones, NEW f \in Counters, Count(p, f)
  PROVE  Data' /\ Ordered'
<1>1. /\ f \in Fields /\ db[f] \in Nat /\ db[f] # Null
      /\ db' = [db EXCEPT ![f] = @ + 1] /\ UNCHANGED <<pending, taken>>
  BY FieldFacts DEF Count, Data, client
<1>2. db[f] + 1 \in Nat /\ db[f] + 1 # Null
  BY <1>1, ConstantsOK
<1>3. db' \in [Fields -> Nat \cup {Null}] /\ \A g \in Fields : (db'[g] # Null) <=> (db[g] # Null)
  BY <1>1, <1>2 DEF Data
<1>4. Data'
  BY <1>1, <1>3 DEF Data, PendingType
<1>5. HasHours(db') = HasHours(db)
  BY <1>3, FieldFacts DEF HasHours
<1>6. HoursFirst'
  <2>1. \A r \in Phones : QueueOK(pending[r], taken[r], db)
    BY DEF Ordered, HoursFirst
  <2>2. QED
    BY <1>1, <1>5, <2>1 DEF HoursFirst, QueueOK
<1>7. SistersPageOpens'
  BY <1>3, FieldFacts DEF Ordered, SistersPageOpens
<1>8. QED
  BY <1>4, <1>6, <1>7 DEF Ordered

\* Steps after which a client has the same writes out, and has read no more.
LEMMA KnownQuiet ==
  ASSUME Data, Counting, AndroidOnly, pending' = pending,
         \A p \in Phones : asked'[p] \in {Null, asked[p]},
         \A p \in Phones : taken'[p] \in Nat /\ taken'[p] <= taken[p],
         \A f \in Counters : db[f] # Null => db'[f] # Null
  PROVE  Counting' /\ AndroidOnly'
<1>1. ASSUME NEW p \in Phones, NEW f \in Counters
      PROVE  CounterOK(pending[p], taken'[p], db', f)
  <2>1. CounterOK(pending[p], taken[p], db, f) /\ taken[p] \in Nat
    BY DEF Counting, Data
  <2>2. QED
    BY <2>1, CounterMonotonic
<1>2. ASSUME NEW p \in Phones
      PROVE  AskedOK(asked'[p], pending[p], db')
  BY DEF Counting, AskedOK
<1>3. Counting'
  BY <1>1, <1>2 DEF Counting
<1>4. AndroidOnly'
  BY ConstantsOK DEF AndroidOnly
<1>5. QED
  BY <1>3, <1>4

\* A phone adds writes of a sign-up, or of counters that are there or brought.
LEMMA KnownJoin ==
  ASSUME Data, Counting, AndroidOnly, NEW p \in Phones, NEW t \in Seq(Writes),
         \A f \in Counters : \A k \in DOMAIN t : f \in t[k].fields =>
           OfSignUp(t[k]) \/ db[f] # Null \/ Brought(pending[p], Len(pending[p]), f),
         p \in Android => \A k \in DOMAIN t : OfSignUp(t[k]),
         \A q \in Phones : asked'[q] \in {Null, asked[q]},
         pending' = [pending EXCEPT ![p] = @ \o t], UNCHANGED <<db, taken>>
  PROVE  Counting' /\ AndroidOnly'
<1> DEFINE n == Len(pending[p])
<1>1. /\ pending'[p] = pending[p] \o t /\ pending[p] \in Seq(Writes)
      /\ taken[p] \in Nat /\ taken[p] <= n
      /\ \A q \in Phones \ {p} : pending'[q] = pending[q]
  BY DEF Data, PendingType
<1>2. ASSUME NEW f \in Counters
      PROVE  /\ CounterOK(pending'[p], taken[p], db, f)
             /\ Brought(pending[p], n, f) => Brought(pending'[p], Len(pending'[p]), f)
  <2>1. CounterOK(pending[p], taken[p], db, f)
    BY DEF Counting
  <2>2. \A k \in DOMAIN t : f \in t[k].fields =>
          OfSignUp(t[k]) \/ db[f] # Null \/ Brought(pending[p], Len(pending[p]), f)
    OBVIOUS
  <2>3. /\ CounterOK(pending[p] \o t, taken[p], db, f)
        /\ Brought(pending[p], Len(pending[p]), f) =>
             Brought(pending[p] \o t, Len(pending[p] \o t), f)
    BY <1>1, <2>1, <2>2, CounterJoined
  <2>4. QED
    BY <1>1, <2>3
<1>3. AskedOK(asked'[p], pending'[p], db)
  BY <1>2 DEF Counting, AskedOK
<1>4. \A q \in Phones \ {p} : AskedOK(asked'[q], pending'[q], db)
  BY <1>1 DEF Counting, AskedOK
<1>5. Counting'
  <2>1. ASSUME NEW q \in Phones, NEW f \in Counters
        PROVE  CounterOK(pending'[q], taken'[q], db', f)
    <3>1. CASE q = p
      BY <1>2, <3>1
    <3>2. CASE q # p
      BY <1>1, <3>2 DEF Counting
    <3>3. QED
      BY <3>1, <3>2
  <2>2. ASSUME NEW q \in Phones
        PROVE  AskedOK(asked'[q], pending'[q], db')
    <3>1. CASE q = p
      BY <1>3, <3>1
    <3>2. CASE q # p
      BY <1>4, <3>2
    <3>3. QED
      BY <3>1, <3>2
  <2>3. QED
    BY <2>1, <2>2 DEF Counting
<1>6. AndroidOnly'
  <2>1. ASSUME NEW q \in Android
        PROVE  asked'[q] = Null /\ \A i \in DOMAIN pending'[q] : OfSignUp(pending'[q][i])
    <3>1. q \in Phones /\ asked[q] = Null /\ \A i \in DOMAIN pending[q] : OfSignUp(pending[q][i])
      BY ConstantsOK DEF AndroidOnly
    <3>2. CASE q # p
      BY <1>1, <3>1, <3>2
    <3>3. CASE q = p
      <4>1. /\ n \in Nat /\ DOMAIN pending[p] = 1..n /\ DOMAIN t = 1..Len(t) /\ Len(t) \in Nat
            /\ DOMAIN pending'[p] = 1..(n + Len(t))
            /\ \A i \in 1..n : pending'[p][i] = pending[p][i]
            /\ \A i \in 1..Len(t) : pending'[p][n + i] = t[i]
        BY <1>1, ConcatProperties, LenProperties
      <4>2. ASSUME NEW i \in DOMAIN pending'[p]
            PROVE  OfSignUp(pending'[p][i])
        <5>1. CASE i <= n
          BY <3>1, <3>3, <4>1, <5>1
        <5>2. CASE i > n
          <6>1. i - n \in 1..Len(t) /\ n + (i - n) = i
            BY <4>1, <5>2
          <6>2. pending'[p][i] = t[i - n] /\ i - n \in DOMAIN t
            BY <4>1, <6>1
          <6>3. QED
            BY <3>3, <6>2
        <5>3. QED
          BY <4>1, <5>1, <5>2
      <4>3. QED
        BY <3>1, <3>3, <4>2
    <3>4. QED
      BY <3>2, <3>3
  <2>2. QED
    BY <2>1 DEF AndroidOnly
<1>7. QED
  BY <1>5, <1>6

\* The server takes the next write of a phone.
LEMMA KnownTaken ==
  ASSUME Data, Counting, AndroidOnly, NEW p \in Phones, TakeWrite(p)
  PROVE  Counting' /\ AndroidOnly'
<1> DEFINE q == pending[p]
           i == taken[p] + 1
           w == q[i]
           v == [w EXCEPT !.tried = TRUE]
<1>1. /\ q \in Seq(Writes) /\ i \in DOMAIN q /\ taken[p] \in Nat /\ w \in Writes
      /\ i <= Len(q) /\ DOMAIN q = 1..Len(q)
  BY LenProperties, ElementOfSeq DEF Data, PendingType, TakeWrite
<1>2. v.fields = w.fields /\ v.val = w.val
  BY <1>1 DEF Writes
<1>3. /\ db' = Apply(db, w) /\ pending' = [pending EXCEPT ![p] = [q EXCEPT ![i] = v]]
      /\ taken'[p] = i /\ asked' = asked
      /\ \A r \in Phones \ {p} : taken'[r] = taken[r]
  BY DEF TakeWrite, Data
<1> HIDE DEF v
<1>4. /\ pending'[p] = [q EXCEPT ![i] = v]
      /\ \A r \in Phones \ {p} : pending'[r] = pending[r]
  BY <1>3 DEF Data, PendingType
<1>5. /\ DOMAIN pending'[p] = DOMAIN q
      /\ \A k \in DOMAIN q : /\ pending'[p][k].fields = q[k].fields
                             /\ pending'[p][k].val = q[k].val
  BY <1>1, <1>2, <1>4
<1>6. pending'[p] \in Seq(Writes) /\ Len(pending'[p]) = Len(q)
  <2>1. v \in Writes
    BY <1>1 DEF Writes, v
  <2>2. QED
    BY <1>1, <1>4, <2>1, ExceptSeq
<1>7. \A f \in Fields : /\ db[f] # Null => db'[f] # Null
                        /\ f \in w.fields => db'[f] # Null
  <2>1. /\ \A f \in Fields : db[f] # Null => Apply(db, w)[f] # Null
        /\ \A f \in Fields : f \in w.fields => Apply(db, w)[f] # Null
    <3>1. db \in [Fields -> Nat \cup {Null}]
      BY DEF Data
    <3> HIDE DEF w
    <3>2. QED
      BY <1>1, <3>1, ApplyType
  <2>2. QED
    BY <1>3, <2>1
<1>8. ASSUME NEW f \in Counters
      PROVE  /\ CounterOK(pending'[p], i, db', f)
             /\ Brought(q, Len(q), f) => Brought(pending'[p], Len(pending'[p]), f)
  <2>1. CounterOK(q, taken[p], db, f) /\ f \in Fields
    BY FieldFacts DEF Counting
  <2>2. /\ db[f] # Null => db'[f] # Null
        /\ f \in q[taken[p] + 1].fields => db'[f] # Null
    BY <1>7, <2>1
  <2>3. taken[p] + 1 <= Len(q)
    BY <1>1
  <2> HIDE DEF q
  <2>4. /\ CounterOK(pending'[p], taken[p] + 1, db', f)
        /\ Brought(q, Len(q), f) => Brought(pending'[p], Len(q), f)
    BY <1>1, <1>5, <2>1, <2>2, <2>3, CounterTaken
  <2>5. QED
    BY <1>6, <2>4
<1>9. ASSUME NEW r \in Phones \ {p}, NEW f \in Counters
      PROVE  CounterOK(pending'[r], taken'[r], db', f)
  <2>1. CounterOK(pending[r], taken[r], db, f) /\ taken[r] \in Nat /\ f \in Fields
    BY FieldFacts DEF Counting, Data
  <2>2. CounterOK(pending[r], taken[r], db', f)
    BY <1>7, <2>1, CounterMonotonic
  <2>3. QED
    BY <1>3, <1>4, <2>2
<1>10. ASSUME NEW r \in Phones
       PROVE  AskedOK(asked'[r], pending'[r], db')
  <2>1. AskedOK(asked[r], pending[r], db)
    BY DEF Counting
  <2>2. CASE r = p
    BY <1>3, <1>7, <1>8, <2>1, <2>2, FieldFacts DEF AskedOK
  <2>3. CASE r # p
    BY <1>3, <1>4, <1>7, <2>1, <2>3, FieldFacts DEF AskedOK
  <2>4. QED
    BY <2>2, <2>3
<1>11. Counting'
  <2>1. ASSUME NEW r \in Phones, NEW f \in Counters
        PROVE  CounterOK(pending'[r], taken'[r], db', f)
    <3>1. CASE r = p
      BY <1>3, <1>8, <3>1
    <3>2. CASE r # p
      BY <1>9, <3>2
    <3>3. QED
      BY <3>1, <3>2
  <2>2. QED
    BY <1>10, <2>1 DEF Counting
<1>12. AndroidOnly'
  BY <1>3, <1>4, <1>5, ConstantsOK DEF AndroidOnly, OfSignUp
<1>13. QED
  BY <1>11, <1>12

\* The client hears of the write it sent first.
LEMMA KnownAck ==
  ASSUME Data, Counting, AndroidOnly, NEW p \in Phones, Ack(p)
  PROVE  Counting' /\ AndroidOnly'
<1> DEFINE q == pending[p]
<1>1. /\ q \in Seq(Writes) /\ taken[p] \in Nat /\ taken[p] > 0
      /\ taken[p] <= Len(q) /\ db' = db /\ asked' = asked
      /\ taken'[p] = taken[p] - 1 /\ pending'[p] = Tail(q)
      /\ \A r \in Phones \ {p} : pending'[r] = pending[r] /\ taken'[r] = taken[r]
  BY DEF Data, PendingType, Ack
<1>2. ASSUME NEW f \in Counters
      PROVE  /\ CounterOK(Tail(q), taken[p] - 1, db, f)
             /\ Brought(q, Len(q), f) => db[f] # Null \/ Brought(Tail(q), Len(Tail(q)), f)
  <2>1. CounterOK(q, taken[p], db, f)
    BY DEF Counting
  <2> HIDE DEF q
  <2>2. QED
    BY <1>1, <2>1, CounterTail
<1>3. AskedOK(asked[p], Tail(q), db)
  BY <1>2 DEF Counting, AskedOK
<1>4. Counting'
  <2>1. ASSUME NEW r \in Phones
        PROVE  /\ \A f \in Counters : CounterOK(pending'[r], taken'[r], db', f)
               /\ AskedOK(asked'[r], pending'[r], db')
    <3>1. CASE r = p
      BY <1>1, <1>2, <1>3, <3>1
    <3>2. CASE r # p
      BY <1>1, <3>2 DEF Counting
    <3>3. QED
      BY <3>1, <3>2
  <2>2. QED
    BY <2>1 DEF Counting
<1>5. AndroidOnly'
  <2>1. \A k \in DOMAIN Tail(q) : k + 1 \in DOMAIN q /\ Tail(q)[k] = q[k + 1]
    BY <1>1, HeadTailProperties, LenProperties, EmptySeq
  <2>2. ASSUME NEW r \in Android
        PROVE  asked'[r] = Null /\ \A k \in DOMAIN pending'[r] : OfSignUp(pending'[r][k])
    <3>1. r \in Phones /\ asked[r] = Null /\ \A k \in DOMAIN pending[r] : OfSignUp(pending[r][k])
      BY ConstantsOK DEF AndroidOnly
    <3>2. CASE r = p
      BY <1>1, <2>1, <3>1, <3>2
    <3>3. CASE r # p
      BY <1>1, <3>1, <3>3
    <3>4. QED
      BY <3>2, <3>3
  <2>3. QED
    BY <2>2 DEF AndroidOnly
<1>6. QED
  BY <1>4, <1>5

\* A process dies with what it had out and what it had read.
LEMMA KnownKill ==
  ASSUME Data, AskedType, Counting, AndroidOnly, NEW p \in Phones, Kill(p)
  PROVE  Counting' /\ AndroidOnly'
<1>1. /\ db' = db /\ taken'[p] = 0 /\ pending'[p] = <<>> /\ asked'[p] = Null
      /\ \A r \in Phones \ {p} :
           pending'[r] = pending[r] /\ taken'[r] = taken[r] /\ asked'[r] = asked[r]
  BY DEF Kill, Data, PendingType, AskedType
<1>2. \A f \in Counters : CounterOK(<<>>, 0, db, f)
  BY DEF CounterOK
<1>3. Counting'
  <2>1. ASSUME NEW r \in Phones
        PROVE  /\ \A f \in Counters : CounterOK(pending'[r], taken'[r], db', f)
               /\ AskedOK(asked'[r], pending'[r], db')
    <3>1. CASE r = p
      BY <1>1, <1>2, <3>1 DEF AskedOK
    <3>2. CASE r # p
      BY <1>1, <3>2 DEF Counting
    <3>3. QED
      BY <3>1, <3>2
  <2>2. QED
    BY <2>1 DEF Counting
<1>4. AndroidOnly'
  <2>1. ASSUME NEW q \in Android
        PROVE  asked'[q] = Null /\ \A i \in DOMAIN pending'[q] : OfSignUp(pending'[q][i])
    <3>1. CASE q = p
      BY <1>1, <3>1
    <3>2. CASE q # p
      BY <1>1, <3>2, ConstantsOK DEF AndroidOnly
    <3>3. QED
      BY <3>1, <3>2
  <2>2. QED
    BY <2>1 DEF AndroidOnly
<1>5. QED
  BY <1>3, <1>4

\* What a client sees is at the server or in a write it has out.
LEMMA ViewIsKnown ==
  ASSUME Data, Counting, NEW p \in Phones, NEW f \in Counters, View(p, f) # Null
  PROVE  /\ View(p, f) \in Nat
         /\ db[f] # Null \/ Brought(pending[p], Len(pending[p]), f)
<1>1. /\ pending[p] \in Seq(Writes) /\ Len(pending[p]) \in Nat
      /\ DOMAIN pending[p] = 1..Len(pending[p])
  BY LenProperties DEF Data, PendingType
<1>2. CASE Over(p, f) = {}
  <2>1. View(p, f) = db[f] /\ db[f] \in Nat \cup {Null}
    BY <1>2, FieldFacts DEF View, Data
  <2>2. QED
    BY <2>1
<1>3. CASE Over(p, f) # {}
  <2>1. PICK i \in Over(p, f) : i = Max(Over(p, f))
    <3>1. Over(p, f) \in SUBSET (1..Len(pending[p]))
      BY <1>1 DEF Over
    <3>2. QED
      BY <1>1, <1>3, <3>1, MaxIsIn
  <2>2. View(p, f) = pending[p][i].val /\ i \in 1..Len(pending[p]) /\ f \in pending[p][i].fields
    BY <1>1, <1>3, <2>1 DEF View, Over
  <2>3. pending[p][i] \in Writes
    BY <1>1, <2>2, ElementOfSeq
  <2>4. db[f] # Null \/ Brought(pending[p], i, f)
    BY <1>1, <2>2 DEF Counting, CounterOK
  <2>5. Brought(pending[p], i, f) => Brought(pending[p], Len(pending[p]), f)
    BY <1>1, <2>2 DEF Brought
  <2>6. QED
    BY <2>2, <2>3, <2>4, <2>5 DEF Writes
<1>4. QED
  BY <1>2, <1>3

LEMMA KnownRead ==
  ASSUME Data, AskedType, Counting, AndroidOnly, NEW p \in Phones, startRecording(p)
  PROVE  AskedType' /\ Counting' /\ AndroidOnly'
<1> DEFINE c == [f \in Counters |-> View(p, f)]
<1>1. /\ asked' = [asked EXCEPT ![p] = c] /\ UNCHANGED <<db, pending, taken>>
      /\ p \notin Android /\ \A f \in Counters : View(p, f) # Null
  BY DEF startRecording, client
<1>2. \A f \in Counters : /\ View(p, f) \in Nat
                          /\ db[f] # Null \/ Brought(pending[p], Len(pending[p]), f)
  BY <1>1, ViewIsKnown
<1>3. c \in [Counters -> Nat]
  BY <1>2
<1> HIDE DEF c
<1>4. asked'[p] = c /\ \A q \in Phones \ {p} : asked'[q] = asked[q]
  BY <1>1 DEF AskedType
<1>5. AskedType'
  BY <1>1, <1>3 DEF AskedType
<1>6. Counting'
  <2>1. ASSUME NEW q \in Phones PROVE AskedOK(asked'[q], pending[q], db)
    <3>1. CASE q = p
      BY <1>2, <3>1 DEF AskedOK
    <3>2. CASE q # p
      BY <1>4, <3>2 DEF Counting
    <3>3. QED
      BY <3>1, <3>2
  <2>2. \A q \in Phones, f \in Counters : CounterOK(pending[q], taken[q], db, f)
    BY DEF Counting
  <2>3. QED
    BY <1>1, <2>1, <2>2 DEF Counting
<1>7. AndroidOnly'
  BY <1>1, <1>4, ConstantsOK DEF AndroidOnly
<1>8. QED
  BY <1>5, <1>6, <1>7

\* The writes of an iPhone's count.
LEMMA CountsType ==
  ASSUME NEW c \in [Counters -> Nat]
  PROVE  /\ Counts(c) \in Seq(Writes) /\ DOMAIN Counts(c) = {1, 2} /\ Counts(c) # <<>>
         /\ Counts(c)[1].fields = {"numSessions"} /\ Counts(c)[2].fields = {"totalHours"}
         /\ \A k \in DOMAIN Counts(c) : ~OfSignUp(Counts(c)[k])
<1> DEFINE v == Put({"numSessions"}, c["numSessions"] + 1)
           w == Put({"totalHours"}, c["totalHours"] + 1)
<1>1. /\ c["numSessions"] + 1 \in Nat /\ c["numSessions"] + 1 # 0
      /\ c["totalHours"] + 1 \in Nat /\ c["totalHours"] + 1 # 0
  BY DEF Counters
<1>2. /\ v \in Writes /\ v.fields = {"numSessions"} /\ ~OfSignUp(v)
      /\ w \in Writes /\ w.fields = {"totalHours"} /\ ~OfSignUp(w)
  BY <1>1, FieldFacts, PutType DEF OfSignUp
<1>3. Counts(c) = <<v, w>>
  BY DEF Counts
<1> HIDE DEF v, w
<1>4. QED
  BY <1>2, <1>3

\* What is known of the counters is known after every step.
LEMMA KnownStep ==
  ASSUME Data, AskedType, Counting, AndroidOnly, [Next]_vars
  PROVE  AskedType' /\ Counting' /\ AndroidOnly'
<1>1. \A p \in Phones : taken[p] \in Nat /\ taken[p] <= taken[p]
  BY DEF Data
<1>2. CASE UNCHANGED vars
  <2>1. UNCHANGED <<db, pending, taken, asked>>
    BY <1>2 DEF vars, client
  <2>2. QED
    BY <1>1, <2>1, KnownQuiet DEF AskedType
<1>3. CASE Next
  <2>1. PICK p \in Phones :
          \/ createAccount(p) \/ CreateUser(p) \/ Created(p) \/ Refused(p)
          \/ Leave(p) \/ Return(p) \/ Unheard(p) \/ signIn(p) \/ signOut(p)
          \/ \E f \in Counters : Count(p, f)
          \/ startRecording(p) \/ recordSession(p)
          \/ AdminRead(p) \/ TakeWrite(p) \/ Ack(p)
          \/ Disconnect(p) \/ Reconnect(p) \/ Kill(p)
    BY <1>3 DEF Next, Callback, Network
  <2>2. /\ pending[p] \in Seq(Writes) /\ taken[p] \in Nat /\ taken[p] <= Len(pending[p])
    BY DEF Data, PendingType
  <2>3. CASE createAccount(p) \/ CreateUser(p) \/ Refused(p) \/ Leave(p) \/ Return(p)
             \/ Unheard(p) \/ signIn(p) \/ Reconnect(p)
    <3>1. UNCHANGED <<db, pending, taken, asked>>
      BY <2>3 DEF createAccount, CreateUser, Refused, Leave, Return, Unheard, signIn,
           Reconnect, client
    <3>2. QED
      BY <1>1, <3>1, KnownQuiet DEF AskedType
  <2>4. CASE signOut(p)
    <3>1. UNCHANGED <<db, pending, taken>> /\ asked' = [asked EXCEPT ![p] = Null]
      BY <2>4 DEF signOut, client
    <3>2. AskedType' /\ \A q \in Phones : asked'[q] \in {Null, asked[q]}
      BY <3>1 DEF AskedType
    <3>3. QED
      BY <1>1, <3>1, <3>2, KnownQuiet
  <2>5. CASE Disconnect(p)
    <3>1. UNCHANGED <<db, pending, asked>> /\ taken' = [taken EXCEPT ![p] = 0]
      BY <2>5 DEF Disconnect
    <3>2. \A q \in Phones : taken'[q] \in Nat /\ taken'[q] <= taken[q]
      BY <3>1 DEF Data
    <3>3. QED
      BY <3>1, <3>2, KnownQuiet DEF AskedType
  <2>6. CASE \E f \in Counters : Count(p, f)
    <3>1. PICK f \in Counters : Count(p, f)
      BY <2>6
    <3>2. /\ UNCHANGED <<pending, taken, asked>> /\ db' = [db EXCEPT ![f] = @ + 1]
          /\ db[f] # Null /\ f \in Fields
      BY <3>1, FieldFacts DEF Count, client
    <3>3. db[f] \in Nat /\ db[f] + 1 # Null
      BY <3>2, ConstantsOK DEF Data
    <3>4. \A g \in Counters : db[g] # Null => db'[g] # Null
      BY <3>2, <3>3, FieldFacts DEF Data
    <3>5. QED
      BY <1>1, <3>2, <3>4, KnownQuiet DEF AskedType
  <2>7. CASE Created(p)
    <3> DEFINE t == IF p \in Android THEN AndroidWrites ELSE IosWrites
    <3>1. t \in Seq(Writes) /\ \A k \in DOMAIN t : OfSignUp(t[k])
      BY SignUpWrites
    <3>2. pending' = [pending EXCEPT ![p] = @ \o t] /\ UNCHANGED <<db, taken, asked>>
      BY <2>7 DEF Created
    <3> HIDE DEF t
    <3>3. QED
      BY <3>1, <3>2, KnownJoin DEF AskedType
  <2>8. CASE AdminRead(p)
    <3> DEFINE w == Write({"admin"})
               t == <<w>>
    <3>1. w \in Writes /\ OfSignUp(w)
      BY FieldFacts, WriteType
    <3> HIDE DEF w
    <3>2. t \in Seq(Writes) /\ \A k \in DOMAIN t : OfSignUp(t[k])
      BY <3>1
    <3>3. Append(pending[p], w) = pending[p] \o t
      BY <2>2, <3>1, AppendIsConcat
    <3>4. pending' = [pending EXCEPT ![p] = @ \o t] /\ UNCHANGED <<db, taken, asked>>
      BY <2>8, <3>3 DEF AdminRead, w
    <3> HIDE DEF t
    <3>5. QED
      BY <3>2, <3>4, KnownJoin DEF AskedType
  <2>9. CASE recordSession(p)
    <3>1. /\ asked[p] # Null /\ asked' = [asked EXCEPT ![p] = Null]
          /\ pending' = [pending EXCEPT ![p] = @ \o Counts(asked[p])]
          /\ UNCHANGED <<db, taken>>
      BY <2>9 DEF recordSession
    <3>2. AskedType' /\ \A q \in Phones : asked'[q] \in {Null, asked[q]}
      BY <3>1 DEF AskedType
    <3>3. asked[p] \in [Counters -> Nat]
      BY <3>1 DEF AskedType
    <3>4. Counts(asked[p]) \in Seq(Writes)
      BY <3>3, CountsType
    <3>5. \A f \in Counters : db[f] # Null \/ Brought(pending[p], Len(pending[p]), f)
      BY <3>1 DEF Counting, AskedOK
    <3>6. p \notin Android
      BY <3>1 DEF AndroidOnly
    <3>7. QED
      BY <3>1, <3>2, <3>4, <3>5, <3>6, KnownJoin
  <2>10. CASE Kill(p)
    <3>1. asked' = [asked EXCEPT ![p] = Null]
      BY <2>10 DEF Kill
    <3>2. AskedType'
      BY <3>1 DEF AskedType
    <3>3. QED
      BY <2>10, <3>2, KnownKill
  <2>11. CASE TakeWrite(p)
    BY <2>11, KnownTaken DEF AskedType, TakeWrite
  <2>12. CASE Ack(p)
    BY <2>12, KnownAck DEF AskedType, Ack
  <2>13. QED
    BY <2>1, <2>3, <2>4, <2>5, <2>6, <2>7, <2>8, <2>9, <2>10, <2>11, <2>12, KnownRead
<1>4. QED
  BY <1>2, <1>3

\* Every step keeps the invariant.
LEMMA Inductive == IInv /\ [Next]_vars => IInv'
<1> SUFFICES ASSUME IInv, [Next]_vars PROVE IInv'
  OBVIOUS
<1>1. Rest /\ Data /\ Ordered /\ AskedType /\ Counting /\ AndroidOnly
  BY TypeParts DEF IInv, Ordered
<1>k. AskedType' /\ Counting' /\ AndroidOnly'
  BY <1>1, KnownStep
<1>2. CASE UNCHANGED vars
  <2>1. UNCHANGED <<db, pending, taken>>
    BY <1>2 DEF vars, client
  <2>2. Rest'
    BY <1>1, <1>2 DEF Rest, vars, auth, client
  <2>3. QED
    BY <1>1, <1>k, <2>1, <2>2, QuietStep DEF IInv, TypeOK, Ordered, Rest, Data,
       PendingType, AskedType
<1>3. CASE Next
  <2>1. PICK p \in Phones :
          \/ createAccount(p) \/ CreateUser(p) \/ Created(p) \/ Refused(p)
          \/ Leave(p) \/ Return(p) \/ Unheard(p) \/ signIn(p) \/ signOut(p)
          \/ \E f \in Counters : Count(p, f)
          \/ startRecording(p) \/ recordSession(p)
          \/ AdminRead(p) \/ TakeWrite(p) \/ Ack(p)
          \/ Disconnect(p) \/ Reconnect(p) \/ Kill(p)
    BY <1>3 DEF Next, Callback, Network
  <2>2. /\ pending[p] \in Seq(Writes) /\ taken[p] \in Nat
        /\ taken[p] <= Len(pending[p]) /\ QueueOK(pending[p], taken[p], db)
    BY <1>1 DEF Data, PendingType, Ordered, HoursFirst
  <2>3. Data' /\ Ordered'
    <3>1. CASE createAccount(p) \/ CreateUser(p) \/ Refused(p) \/ Leave(p) \/ Return(p)
               \/ Unheard(p) \/ signIn(p) \/ signOut(p) \/ startRecording(p) \/ Reconnect(p)
      <4>1. UNCHANGED <<db, pending, taken>>
        BY <3>1 DEF createAccount, CreateUser, Refused, Leave, Return, Unheard, signIn,
             signOut, startRecording, Reconnect, client
      <4>2. QED
        BY <1>1, <4>1, QuietStep
    <3>2. CASE Created(p)
      <4> DEFINE t == IF p \in Android THEN AndroidWrites ELSE IosWrites
      <4>1. t \in Seq(Writes) /\ t # <<>> /\ BringsHours(t[1])
        <5>1. /\ AndroidWrites \in Seq(Writes) /\ AndroidWrites # <<>>
              /\ BringsHours(AndroidWrites[1])
              /\ IosWrites \in Seq(Writes) /\ IosWrites # <<>>
              /\ BringsHours(IosWrites[1])
          BY SignUpWrites, EmptySeq
        <5>2. t = AndroidWrites \/ t = IosWrites
          OBVIOUS
        <5> HIDE DEF t
        <5>3. QED
          BY <5>1, <5>2
      <4>2. pending' = [pending EXCEPT ![p] = @ \o t] /\ UNCHANGED <<db, taken>>
        BY <3>2 DEF Created
      <4> HIDE DEF t
      <4>3. QED
        BY <1>1, <4>1, <4>2, JoinStep
    <3>3. CASE \E f \in Counters : Count(p, f)
      BY <1>1, <3>3, CountStep
    <3>4. CASE AdminRead(p)
      <4> DEFINE w == Write({"admin"})
                 t == <<w>>
      <4>1. w \in Writes /\ w.fields = {"admin"}
        BY FieldFacts, WriteType
      <4>2. t \in Seq(Writes) /\ Len(t) = 1 /\ DOMAIN t = {1} /\ t[1] = w
        <5> HIDE DEF w
        <5>1. QED
          BY <4>1
      <4>3. t # <<>> /\ \A k \in DOMAIN t : ~BringsOther(t[k])
        <5>1. ~BringsOther(w)
          BY <4>1 DEF BringsOther
        <5>2. QED
          BY <4>2, <5>1
      <4>4. Append(pending[p], w) = pending[p] \o t
        <5> HIDE DEF w
        <5>1. QED
          BY <2>2, <4>1, AppendIsConcat
      <4>5. pending' = [pending EXCEPT ![p] = @ \o t] /\ UNCHANGED <<db, taken>>
        BY <3>4, <4>4 DEF AdminRead
      <4> HIDE DEF t
      <4>6. QED
        BY <1>1, <4>2, <4>3, <4>5, JoinStep
    <3>5. CASE TakeWrite(p)
      BY <1>1, <3>5, TakeStep
    <3>6. CASE Ack(p)
      <4>1. 0 < taken[p] /\ UNCHANGED db
        BY <3>6, <2>2 DEF Ack
      <4>2. /\ QueueOK(Tail(pending[p]), taken[p] - 1, db)
            /\ Tail(pending[p]) \in Seq(Writes)
            /\ taken[p] - 1 \in Nat /\ taken[p] - 1 <= Len(Tail(pending[p]))
        BY <2>2, <4>1, QueueTail
      <4>3. /\ pending' = [pending EXCEPT ![p] = Tail(pending[p])]
            /\ taken' = [taken EXCEPT ![p] = taken[p] - 1]
        BY <3>6 DEF Ack
      <4>4. QED
        BY <1>1, <4>1, <4>2, <4>3, QueueStep
    <3>7. CASE Disconnect(p)
      <4>1. QueueOK(pending[p], 0, db) /\ 0 <= Len(pending[p])
        BY <2>2, QueueMonotonic, LenProperties
      <4>2. /\ pending' = [pending EXCEPT ![p] = pending[p]]
            /\ taken' = [taken EXCEPT ![p] = 0] /\ UNCHANGED db
        BY <1>1, <3>7 DEF Disconnect, Data, PendingType
      <4>3. QED
        BY <1>1, <2>2, <4>1, <4>2, QueueStep
    <3>8. CASE Kill(p)
      <4> DEFINE q == <<>>
      <4>1. q \in Seq(Writes) /\ 0 <= Len(q)
        BY EmptySeq
      <4>2. QueueOK(q, 0, db)
        BY DEF QueueOK
      <4>3. /\ pending' = [pending EXCEPT ![p] = q]
            /\ taken' = [taken EXCEPT ![p] = 0] /\ UNCHANGED db
        BY <3>8 DEF Kill
      <4> HIDE DEF q
      <4>4. QED
        BY <1>1, <4>1, <4>2, <4>3, QueueStep
    <3>9. CASE recordSession(p)
      <4>1. /\ asked[p] # Null /\ UNCHANGED <<db, taken>>
            /\ pending' = [pending EXCEPT ![p] = @ \o Counts(asked[p])]
        BY <3>9 DEF recordSession
      <4>2. Counts(asked[p]) \in Seq(Writes) /\ Counts(asked[p]) # <<>>
        BY <1>1, <4>1, CountsType DEF AskedType
      <4>3. HasHours(db) \/ \E j \in DOMAIN pending[p] : BringsHours(pending[p][j])
        <5>1. db["totalHours"] # Null \/ Brought(pending[p], Len(pending[p]), "totalHours")
          BY <1>1, <4>1 DEF Counting, AskedOK, Counters
        <5>2. DOMAIN pending[p] = 1..Len(pending[p])
          BY <2>2, LenProperties
        <5>3. QED
          BY <5>1, <5>2 DEF Brought, BringsHours, HasHours
      <4>4. QED
        BY <1>1, <4>1, <4>2, <4>3, JoinStep
    <3>10. QED
      BY <2>1, <3>1, <3>2, <3>3, <3>4, <3>5, <3>6, <3>7, <3>8, <3>9
  <2>4. Rest'
    BY <1>1, <1>3, RestStep
  <2>5. QED
    BY <1>k, <2>3, <2>4 DEF IInv, TypeOK, Ordered, Rest, Data, PendingType, AskedType
<1>4. QED
  BY <1>2, <1>3

-----------------------------------------------------------------------------
(* A sign-up writes a counter from one phone only, once.                    *)

\* The phone may write the counter for a sign-up: it has the answer that makes it (0),
\* or the write stands at this place of its queue.
Holds(p, i, f) ==
  \/ i = 0 /\ call[p] = "ok"
  \/ i \in DOMAIN pending[p] /\ OfSignUp(pending[p][i]) /\ f \in pending[p][i].fields

\* Nobody may before there is an account, and one write does at a time; once the
\* counter is there, that write has been to the server.
Once(f) ==
  /\ ~account => db[f] = Null /\ \A p \in Phones, i \in Nat : ~Holds(p, i, f)
  /\ \A p, q \in Phones, i, j \in Nat :
       Holds(p, i, f) /\ Holds(q, j, f) => p = q /\ i = j
  /\ db[f] # Null =>
       \A p \in Phones, i \in Nat : Holds(p, i, f) => i > 0 /\ pending[p][i].tried

WrittenOnce == \A f \in Counters : Once(f)

LEMMA InitOnce == Init => WrittenOnce
BY FieldFacts DEF Init, WrittenOnce, Once, Holds

\* Steps after which a phone may write what it could before, or less of it.
LEMMA OnceKept ==
  ASSUME WrittenOnce, account' = account,
         \A f \in Counters : (db'[f] = Null) <=> (db[f] = Null),
         \A f \in Counters : \A p \in Phones, i \in Nat :
           Holds(p, i, f)' => Holds(p, i, f) /\ (i > 0 => pending'[p][i] = pending[p][i])
  PROVE  WrittenOnce'
<1> SUFFICES ASSUME NEW f \in Counters PROVE Once(f)'
  BY DEF WrittenOnce
<1>1. Once(f)
  BY DEF WrittenOnce
<1>2. ~account' => db'[f] = Null /\ \A p \in Phones, i \in Nat : ~Holds(p, i, f)'
  BY <1>1 DEF Once
<1>3. \A p, q \in Phones, i, j \in Nat :
        Holds(p, i, f)' /\ Holds(q, j, f)' => p = q /\ i = j
  BY <1>1 DEF Once
<1>4. db'[f] # Null =>
        \A p \in Phones, i \in Nat : Holds(p, i, f)' => i > 0 /\ pending'[p][i].tried
  BY <1>1 DEF Once
<1>5. QED
  BY <1>2, <1>3, <1>4 DEF Once

\* The server makes the account.
LEMMA OnceCreateUser ==
  ASSUME Rest, Data, WrittenOnce, NEW p \in Phones, CreateUser(p)
  PROVE  WrittenOnce'
<1> SUFFICES ASSUME NEW f \in Counters PROVE Once(f)'
  BY DEF WrittenOnce
<1>1. Once(f)
  BY DEF WrittenOnce
<1>2. /\ account' = TRUE /\ UNCHANGED <<db, pending>>
      /\ call'[p] = (IF account THEN "taken" ELSE "ok")
      /\ \A q \in Phones \ {p} : call'[q] = call[q]
  BY DEF CreateUser, Rest, client
<1>3. CASE account
  <2>1. \A q \in Phones, i \in Nat : Holds(q, i, f)' => Holds(q, i, f)
    BY <1>2, <1>3 DEF Holds
  <2>2. QED
    BY <1>1, <1>2, <1>3, <2>1 DEF Once
<1>4. CASE ~account
  <2>1. db'[f] = Null /\ \A q \in Phones, i \in Nat : ~Holds(q, i, f)
    BY <1>1, <1>2, <1>4 DEF Once
  <2>2. \A q \in Phones, i \in Nat : Holds(q, i, f)' => q = p /\ i = 0
    <3> TAKE q \in Phones, i \in Nat
    <3> HAVE Holds(q, i, f)'
    <3>1. ~Holds(q, i, f)
      BY <2>1
    <3>2. i = 0 /\ call'[q] = "ok"
      BY <1>2, <3>1 DEF Holds
    <3>3. q = p
      BY <1>2, <3>1, <3>2 DEF Holds
    <3>4. QED
      BY <3>2, <3>3
  <2>3. QED
    BY <1>2, <2>1, <2>2 DEF Once
<1>5. QED
  BY <1>3, <1>4

\* The answer turns into the writes of the sign-up, which name a counter once.
LEMMA SignUpWritesOnce ==
  ASSUME NEW t \in {AndroidWrites, IosWrites}, NEW f \in Counters
  PROVE  \A i, j \in DOMAIN t : f \in t[i].fields /\ f \in t[j].fields => i = j
<1>1. f \in {"totalHours", "numSessions"}
  BY DEF Counters
<1>2. CASE t = AndroidWrites
  <2>1. DOMAIN t = 1..3 /\ t[1].fields = {"totalHours"} /\ t[2].fields = {"numSessions"}
        /\ t[3].fields = {"sisterName"}
    BY <1>2 DEF AndroidWrites, Write, Put
  <2>2. QED
    BY <1>1, <2>1
<1>3. CASE t = IosWrites
  <2>1. DOMAIN t = 1..1
    BY <1>3 DEF IosWrites
  <2>2. QED
    BY <2>1
<1>4. QED
  BY <1>2, <1>3

LEMMA OnceCreated ==
  ASSUME Rest, Data, WrittenOnce, NEW p \in Phones, Created(p)
  PROVE  WrittenOnce'
<1> SUFFICES ASSUME NEW f \in Counters PROVE Once(f)'
  BY DEF WrittenOnce
<1>1. Once(f)
  BY DEF WrittenOnce
<1>2. PICK t \in {AndroidWrites, IosWrites} : pending' = [pending EXCEPT ![p] = @ \o t]
  BY DEF Created
<1>3. t \in Seq(Writes)
  BY SignUpWrites
<1>4. \A i, j \in DOMAIN t : f \in t[i].fields /\ f \in t[j].fields => i = j
  BY SignUpWritesOnce
<1>5. call[p] = "ok" /\ call'[p] = "none" /\ account' = account /\ db' = db
      /\ (\A q \in Phones \ {p} : call'[q] = call[q])
  BY DEF Created, Rest
<1>6. /\ Holds(p, 0, f)
      /\ \A q \in Phones, i \in Nat : Holds(q, i, f) => q = p /\ i = 0
  <2>1. Holds(p, 0, f)
    BY <1>5 DEF Holds
  <2>2. QED
    BY <1>1, <2>1 DEF Once
<1>7. account /\ db[f] = Null
  BY <1>1, <1>6 DEF Once, Rest
<1>8. /\ pending'[p] = pending[p] \o t /\ pending[p] \in Seq(Writes)
      /\ \A q \in Phones \ {p} : pending'[q] = pending[q]
  BY <1>2 DEF Data, PendingType
<1> DEFINE n == Len(pending[p])
<1>9. /\ n \in Nat /\ DOMAIN pending[p] = 1..n /\ DOMAIN t = 1..Len(t) /\ Len(t) \in Nat
      /\ DOMAIN pending'[p] = 1..(n + Len(t))
      /\ \A i \in 1..n : pending'[p][i] = pending[p][i]
      /\ \A i \in 1..Len(t) : pending'[p][n + i] = t[i]
  BY <1>3, <1>8, ConcatProperties, LenProperties
<1>10. ASSUME NEW q \in Phones, NEW i \in Nat, Holds(q, i, f)'
       PROVE  q = p /\ i - n \in DOMAIN t /\ f \in t[i - n].fields
  <2>1. q = p
    <3>1. q # p => Holds(q, i, f)
      BY <1>5, <1>8, <1>10 DEF Holds
    <3>2. QED
      BY <1>6, <3>1
  <2>2. /\ i \in 1..(n + Len(t)) /\ f \in pending'[p][i].fields
        /\ OfSignUp(pending'[p][i])
    BY <1>5, <1>9, <1>10, <2>1 DEF Holds
  <2>3. i > n
    <3>1. i <= n => Holds(p, i, f)
      BY <1>9, <2>2 DEF Holds
    <3>2. QED
      BY <1>6, <1>9, <2>2, <3>1
  <2>4. i - n \in 1..Len(t) /\ n + (i - n) = i
    BY <1>9, <2>2, <2>3
  <2>5. QED
    BY <1>9, <2>1, <2>2, <2>4
<1>11. ASSUME NEW q \in Phones, NEW r \in Phones, NEW i \in Nat, NEW j \in Nat,
              Holds(q, i, f)', Holds(r, j, f)'
       PROVE  q = r /\ i = j
  <2>1. i - n = j - n /\ q = p /\ r = p
    BY <1>4, <1>10, <1>11
  <2>2. QED
    BY <1>9, <2>1
<1>12. QED
  BY <1>5, <1>7, <1>11 DEF Once

\* The write at the place the server takes next is marked, and nothing else.
LEMMA OnceTaken ==
  ASSUME Rest, Data, Counting, WrittenOnce, NEW p \in Phones, TakeWrite(p)
  PROVE  WrittenOnce'
<1> SUFFICES ASSUME NEW f \in Counters PROVE Once(f)'
  BY DEF WrittenOnce
<1>1. Once(f) /\ f \in Fields
  BY FieldFacts DEF WrittenOnce
<1> DEFINE q == pending[p]
           i == taken[p] + 1
           w == q[i]
           v == [w EXCEPT !.tried = TRUE]
<1>2. /\ q \in Seq(Writes) /\ i \in DOMAIN q /\ i \in Nat /\ i > 0
      /\ w \in Writes
  BY LenProperties, ElementOfSeq DEF Data, PendingType, TakeWrite
<1>3. v.fields = w.fields /\ v.tried /\ (OfSignUp(v) <=> OfSignUp(w))
  BY <1>2 DEF Writes, OfSignUp
<1>4. /\ db' = Apply(db, w) /\ pending' = [pending EXCEPT ![p] = [q EXCEPT ![i] = v]]
      /\ account' = account /\ call' = call
  BY DEF TakeWrite, auth
<1> HIDE DEF v
<1>5. /\ \A r \in Phones \ {p} : pending'[r] = pending[r]
      /\ DOMAIN pending'[p] = DOMAIN q /\ pending'[p][i] = v
      /\ \A k \in DOMAIN q \ {i} : pending'[p][k] = q[k]
  BY <1>2, <1>4 DEF Data, PendingType
<1>6. \A r \in Phones, k \in Nat : Holds(r, k, f)' => Holds(r, k, f)
  <2> TAKE r \in Phones, k \in Nat
  <2> HAVE Holds(r, k, f)'
  <2>1. CASE r # p
    BY <1>4, <1>5, <2>1 DEF Holds
  <2>2. CASE r = p /\ k = i
    BY <1>2, <1>3, <1>4, <1>5, <2>2 DEF Holds
  <2>3. CASE r = p /\ k # i
    BY <1>2, <1>4, <1>5, <2>3 DEF Holds
  <2>4. QED
    BY <2>1, <2>2, <2>3
<1>7. f \notin w.fields => db'[f] = db[f]
  BY <1>1, <1>4 DEF Apply
<1>8. f \in w.fields => Holds(p, i, f) \/ db[f] # Null
  <2> SUFFICES ASSUME f \in w.fields, ~OfSignUp(w) PROVE db[f] # Null
    BY <1>2 DEF Holds
  <2>1. CounterOK(q, taken[p], db, f) /\ taken[p] \in Nat
    BY DEF Counting, Data
  <2>2. CASE Brought(q, i, f)
    <3>1. PICK j \in 1..i : OfSignUp(q[j]) /\ f \in q[j].fields
      BY <2>2 DEF Brought
    <3>2. j \in 1..taken[p]
      BY <2>1, <3>1
    <3>3. QED
      BY <2>1, <3>1, <3>2 DEF CounterOK
  <2>3. QED
    BY <1>2, <2>1, <2>2 DEF CounterOK
<1>9. ~account' => db'[f] = Null /\ \A r \in Phones, k \in Nat : ~Holds(r, k, f)'
  BY <1>1, <1>2, <1>4, <1>6, <1>7, <1>8 DEF Once
<1>10. \A r, s \in Phones, k, l \in Nat :
         Holds(r, k, f)' /\ Holds(s, l, f)' => r = s /\ k = l
  BY <1>1, <1>6 DEF Once
<1>11. ASSUME db'[f] # Null, NEW r \in Phones, NEW k \in Nat, Holds(r, k, f)'
       PROVE  k > 0 /\ pending'[r][k].tried
  <2>1. Holds(r, k, f)
    BY <1>6, <1>11
  <2>2. CASE r = p /\ k = i
    BY <1>2, <1>3, <1>5, <2>2
  <2>3. CASE ~(r = p /\ k = i)
    <3>1. f \notin w.fields \/ db[f] # Null
      BY <1>1, <1>2, <1>8, <2>1, <2>3 DEF Once
    <3>2. k > 0 /\ pending[r][k].tried
      BY <1>1, <1>7, <1>11, <2>1, <3>1 DEF Once
    <3>3. k \in DOMAIN pending[r]
      BY <2>1, <3>2 DEF Holds
    <3>4. pending'[r][k] = pending[r][k]
      BY <1>5, <2>3, <3>3
    <3>5. QED
      BY <3>2, <3>4
  <2>4. QED
    BY <2>2, <2>3
<1>12. QED
  BY <1>9, <1>10, <1>11 DEF Once

\* The queue moves up by one.
LEMMA OnceAck ==
  ASSUME Rest, Data, WrittenOnce, NEW p \in Phones, Ack(p)
  PROVE  WrittenOnce'
<1> SUFFICES ASSUME NEW f \in Counters PROVE Once(f)'
  BY DEF WrittenOnce
<1>1. Once(f)
  BY DEF WrittenOnce
<1>2. /\ pending[p] \in Seq(Writes) /\ taken[p] \in Nat /\ taken[p] > 0
      /\ taken[p] <= Len(pending[p]) /\ pending' = [pending EXCEPT ![p] = Tail(@)]
      /\ account' = account /\ call' = call /\ db' = db
  BY DEF Data, PendingType, Ack, auth
<1>3. /\ pending'[p] = Tail(pending[p])
      /\ \A r \in Phones \ {p} : pending'[r] = pending[r]
  BY <1>2 DEF Data, PendingType
<1>4. /\ Len(pending[p]) \in Nat /\ DOMAIN pending[p] = 1..Len(pending[p])
      /\ DOMAIN pending'[p] = 1..(Len(pending[p]) - 1)
      /\ \A k \in 1..(Len(pending[p]) - 1) : pending'[p][k] = pending[p][k + 1]
  <2>1. pending[p] # <<>> /\ Len(pending[p]) \in Nat /\ DOMAIN pending[p] = 1..Len(pending[p])
    BY <1>2, LenProperties, EmptySeq
  <2>2. /\ Tail(pending[p]) \in Seq(Writes)
        /\ Len(Tail(pending[p])) = Len(pending[p]) - 1
        /\ \A k \in 1..Len(Tail(pending[p])) : Tail(pending[p])[k] = pending[p][k + 1]
    BY <1>2, <2>1, HeadTailProperties
  <2>3. DOMAIN Tail(pending[p]) = 1..Len(Tail(pending[p]))
    BY <2>2, LenProperties
  <2>4. QED
    BY <1>3, <2>1, <2>2, <2>3
<1> DEFINE was(r, k) == IF r = p /\ k > 0 THEN k + 1 ELSE k
<1>5. ASSUME NEW r \in Phones, NEW k \in Nat, Holds(r, k, f)'
      PROVE  /\ was(r, k) \in Nat /\ Holds(r, was(r, k), f)
             /\ k > 0 => pending'[r][k] = pending[r][was(r, k)]
  <2>1. CASE r # p
    BY <1>2, <1>3, <1>5, <2>1 DEF Holds
  <2>2. CASE r = p /\ k = 0
    BY <1>2, <1>4, <1>5, <2>2 DEF Holds
  <2>3. CASE r = p /\ k > 0
    <3>1. /\ k \in DOMAIN pending'[p] /\ f \in pending'[p][k].fields
          /\ OfSignUp(pending'[p][k])
      BY <1>5, <2>3 DEF Holds
    <3>2. k + 1 \in DOMAIN pending[p] /\ pending'[p][k] = pending[p][k + 1]
      BY <1>4, <2>3, <3>1
    <3>3. QED
      BY <2>3, <3>1, <3>2 DEF Holds
  <2>4. QED
    BY <2>1, <2>2, <2>3
<1>6. \A r, s \in Phones, k, l \in Nat :
        Holds(r, k, f)' /\ Holds(s, l, f)' => r = s /\ k = l
  <2> TAKE r, s \in Phones, k, l \in Nat
  <2> HAVE Holds(r, k, f)' /\ Holds(s, l, f)'
  <2>1. r = s /\ was(r, k) = was(s, l)
    <3>1. /\ Holds(r, was(r, k), f) /\ was(r, k) \in Nat
          /\ Holds(s, was(s, l), f) /\ was(s, l) \in Nat
      BY <1>5
    <3> HIDE DEF was
    <3>2. QED
      BY <1>1, <3>1 DEF Once
  <2>2. QED
    BY <2>1
<1>7. ASSUME db'[f] # Null, NEW r \in Phones, NEW k \in Nat, Holds(r, k, f)'
      PROVE  k > 0 /\ pending'[r][k].tried
  <2>1. /\ Holds(r, was(r, k), f) /\ was(r, k) \in Nat
        /\ k > 0 => pending'[r][k] = pending[r][was(r, k)]
    BY <1>5, <1>7
  <2>2. was(r, k) > 0 /\ pending[r][was(r, k)].tried
    <3> HIDE DEF was
    <3>1. QED
      BY <1>1, <1>2, <1>7, <2>1 DEF Once
  <2>3. k > 0
    BY <2>2
  <2>4. QED
    BY <2>1, <2>2, <2>3
<1>8. ~account' => db'[f] = Null /\ \A r \in Phones, k \in Nat : ~Holds(r, k, f)'
  <2> SUFFICES ASSUME ~account'
               PROVE  db'[f] = Null /\ \A r \in Phones, k \in Nat : ~Holds(r, k, f)'
    OBVIOUS
  <2>1. db[f] = Null /\ \A r \in Phones, k \in Nat : ~Holds(r, k, f)
    BY <1>1, <1>2 DEF Once
  <2>2. ASSUME NEW r \in Phones, NEW k \in Nat, Holds(r, k, f)' PROVE FALSE
    <3>1. was(r, k) \in Nat /\ Holds(r, was(r, k), f)
      BY <1>5, <2>2
    <3> HIDE DEF was
    <3>2. QED
      BY <2>1, <3>1
  <2>3. QED
    BY <1>2, <2>1, <2>2
<1>9. QED
  BY <1>6, <1>7, <1>8 DEF Once

LEMMA OnceStep ==
  ASSUME IInv, WrittenOnce, [Next]_vars
  PROVE  WrittenOnce'
<1>1. Rest /\ Data /\ Counting /\ AskedType
  BY TypeParts DEF IInv
<1>2. CASE UNCHANGED vars
  BY <1>2, OnceKept DEF vars, auth, client, Holds
<1>3. CASE Next
  <2>1. PICK p \in Phones :
          \/ createAccount(p) \/ CreateUser(p) \/ Created(p) \/ Refused(p)
          \/ Leave(p) \/ Return(p) \/ Unheard(p) \/ signIn(p) \/ signOut(p)
          \/ \E f \in Counters : Count(p, f)
          \/ startRecording(p) \/ recordSession(p)
          \/ AdminRead(p) \/ TakeWrite(p) \/ Ack(p)
          \/ Disconnect(p) \/ Reconnect(p) \/ Kill(p)
    BY <1>3 DEF Next, Callback, Network
  <2>2. CASE createAccount(p) \/ Refused(p) \/ Leave(p) \/ Return(p) \/ Unheard(p)
             \/ signIn(p) \/ signOut(p) \/ startRecording(p) \/ Disconnect(p) \/ Reconnect(p)
    <3>1. /\ UNCHANGED <<account, db, pending>>
          /\ \A q \in Phones : call'[q] = "ok" => call[q] = "ok"
      BY <1>1, <2>2 DEF createAccount, Refused, Leave, Return, Unheard, signIn, signOut,
           startRecording, Disconnect, Reconnect, auth, client, Rest
    <3>2. \A f \in Counters : \A q \in Phones, i \in Nat :
            Holds(q, i, f)' => Holds(q, i, f) /\ (i > 0 => pending'[q][i] = pending[q][i])
      BY <3>1 DEF Holds
    <3>3. QED
      BY <3>1, <3>2, OnceKept
  <2>3. CASE \E f \in Counters : Count(p, f)
    <3>1. PICK f \in Counters : Count(p, f)
      BY <2>3
    <3>2. /\ UNCHANGED <<account, call, pending>>
          /\ db' = [db EXCEPT ![f] = @ + 1] /\ db[f] # Null /\ f \in Fields
      BY <3>1, FieldFacts DEF Count, auth, client
    <3>3. db[f] \in Nat /\ db[f] + 1 # Null
      BY <1>1, <3>2, ConstantsOK DEF Data
    <3>4. \A g \in Counters : (db'[g] = Null) <=> (db[g] = Null)
      BY <1>1, <3>2, <3>3, FieldFacts DEF Data
    <3>5. \A g \in Counters : \A q \in Phones, i \in Nat :
            Holds(q, i, g)' => Holds(q, i, g) /\ (i > 0 => pending'[q][i] = pending[q][i])
      BY <3>2 DEF Holds
    <3>6. QED
      BY <3>2, <3>4, <3>5, OnceKept
  <2>4. CASE AdminRead(p)
    <3> DEFINE w == Write({"admin"})
    <3>1. w \in Writes /\ w.fields = {"admin"}
      BY FieldFacts, WriteType
    <3> HIDE DEF w
    <3>2. /\ UNCHANGED <<account, call, db>>
          /\ pending' = [pending EXCEPT ![p] = Append(@, w)]
      BY <2>4 DEF AdminRead, auth, w
    <3>3. /\ pending[p] \in Seq(Writes) /\ pending'[p] = Append(pending[p], w)
          /\ \A q \in Phones \ {p} : pending'[q] = pending[q]
      BY <1>1, <3>2 DEF Data, PendingType
    <3>4. /\ Len(pending[p]) \in Nat /\ DOMAIN pending[p] = 1..Len(pending[p])
          /\ DOMAIN pending'[p] = 1..(Len(pending[p]) + 1)
          /\ pending'[p][Len(pending[p]) + 1] = w
          /\ \A i \in 1..Len(pending[p]) : pending'[p][i] = pending[p][i]
      BY <3>1, <3>3, AppendProperties, LenProperties
    <3>5. ASSUME NEW f \in Counters, NEW q \in Phones, NEW i \in Nat, Holds(q, i, f)'
          PROVE  Holds(q, i, f) /\ (i > 0 => pending'[q][i] = pending[q][i])
      <4>1. CASE q # p
        BY <3>2, <3>3, <3>5, <4>1 DEF Holds
      <4>2. CASE q = p /\ i > 0
        <5>1. /\ i \in DOMAIN pending'[p] /\ f \in pending'[p][i].fields
              /\ OfSignUp(pending'[p][i])
          BY <3>5, <4>2 DEF Holds
        <5>2. i # Len(pending[p]) + 1
          BY <3>1, <3>4, <5>1 DEF Counters
        <5>3. QED
          BY <3>4, <4>2, <5>1, <5>2 DEF Holds
      <4>3. CASE q = p /\ i = 0
        BY <3>2, <3>4, <3>5, <4>3 DEF Holds
      <4>4. QED
        BY <4>1, <4>2, <4>3
    <3>6. QED
      BY <3>2, <3>5, OnceKept
  <2>5. CASE Kill(p)
    <3>1. /\ UNCHANGED <<account, db>> /\ call'[p] = "none" /\ pending'[p] = <<>>
          /\ \A q \in Phones \ {p} : call'[q] = call[q] /\ pending'[q] = pending[q]
      BY <1>1, <2>5 DEF Kill, Rest, Data, PendingType
    <3>2. \A f \in Counters : \A q \in Phones, i \in Nat :
            Holds(q, i, f)' => Holds(q, i, f) /\ (i > 0 => pending'[q][i] = pending[q][i])
      BY <3>1 DEF Holds
    <3>3. QED
      BY <3>1, <3>2, OnceKept
  <2>6. CASE recordSession(p)
    <3>1. /\ asked[p] # Null /\ UNCHANGED <<account, call, db>>
          /\ pending' = [pending EXCEPT ![p] = @ \o Counts(asked[p])]
      BY <2>6 DEF recordSession, auth
    <3> DEFINE t == Counts(asked[p])
    <3>2. t \in Seq(Writes) /\ \A k \in DOMAIN t : ~OfSignUp(t[k])
      BY <1>1, <3>1, CountsType DEF AskedType
    <3>3. /\ pending[p] \in Seq(Writes) /\ pending'[p] = pending[p] \o t
          /\ \A q \in Phones \ {p} : pending'[q] = pending[q]
      BY <1>1, <3>1 DEF Data, PendingType
    <3> HIDE DEF t
    <3>4. /\ Len(pending[p]) \in Nat /\ DOMAIN pending[p] = 1..Len(pending[p])
          /\ DOMAIN t = 1..Len(t) /\ Len(t) \in Nat
          /\ DOMAIN pending'[p] = 1..(Len(pending[p]) + Len(t))
          /\ \A i \in 1..Len(pending[p]) : pending'[p][i] = pending[p][i]
          /\ \A i \in 1..Len(t) : pending'[p][Len(pending[p]) + i] = t[i]
      BY <3>2, <3>3, ConcatProperties, LenProperties
    <3>5. ASSUME NEW f \in Counters, NEW q \in Phones, NEW i \in Nat, Holds(q, i, f)'
          PROVE  Holds(q, i, f) /\ (i > 0 => pending'[q][i] = pending[q][i])
      <4>1. CASE q # p
        BY <3>1, <3>3, <3>5, <4>1 DEF Holds
      <4>2. CASE q = p /\ i > 0
        <5>1. i \in DOMAIN pending'[p] /\ f \in pending'[p][i].fields /\ OfSignUp(pending'[p][i])
          BY <3>5, <4>2 DEF Holds
        <5>2. i <= Len(pending[p])
          <6> SUFFICES ASSUME i > Len(pending[p]) PROVE FALSE
            BY <3>4
          <6>1. i - Len(pending[p]) \in 1..Len(t) /\ Len(pending[p]) + (i - Len(pending[p])) = i
            BY <3>4, <5>1
          <6>2. pending'[p][i] = t[i - Len(pending[p])]
            BY <3>4, <6>1
          <6>3. QED
            BY <3>2, <3>4, <5>1, <6>1, <6>2
        <5>3. QED
          BY <3>4, <4>2, <5>1, <5>2 DEF Holds
      <4>3. CASE q = p /\ i = 0
        BY <3>1, <3>4, <3>5, <4>3 DEF Holds
      <4>4. QED
        BY <4>1, <4>2, <4>3
    <3>6. QED
      BY <3>1, <3>5, OnceKept
  <2>7. QED
    BY <1>1, <2>1, <2>2, <2>3, <2>4, <2>5, <2>6, OnceCreateUser, OnceCreated, OnceTaken, OnceAck
<1>4. QED
  BY <1>2, <1>3

\* A step that lowers a counter takes a sign-up's write that was taken before, or an
\* iPhone's count.
LEMMA FallStep ==
  ASSUME IInv, WrittenOnce, [Next]_vars, NEW f \in Counters, db[f] # Null
  PROVE  \/ db'[f] >= db[f]
         \/ \E p \in Phones :
              /\ taken'[p] = taken[p] + 1
              /\ LET w == pending[p][taken'[p]]
                 IN  IF OfSignUp(w) THEN w.tried ELSE p \notin Android
<1>1. Rest /\ Data /\ AndroidOnly /\ f \in Fields /\ db[f] \in Nat
  BY TypeParts, FieldFacts DEF IInv, Data
<1>2. CASE UNCHANGED db
  BY <1>1, <1>2
<1>3. ASSUME NEW p \in Phones, NEW g \in Counters, Count(p, g)
      PROVE  db'[f] >= db[f]
  <2>1. db' = [db EXCEPT ![g] = db[g] + 1]
    BY <1>3 DEF Count
  <2>2. db'[f] = (IF f = g THEN db[f] + 1 ELSE db[f])
    BY <1>1, <2>1 DEF Data
  <2>3. QED
    BY <1>1, <2>2
<1>4. ASSUME NEW p \in Phones, TakeWrite(p)
      PROVE  \/ db'[f] = db[f]
             \/ /\ taken'[p] = taken[p] + 1
                /\ OfSignUp(pending[p][taken'[p]]) => pending[p][taken'[p]].tried
                /\ ~OfSignUp(pending[p][taken'[p]]) => p \notin Android
  <2> DEFINE i == taken[p] + 1
  <2>1. /\ taken'[p] = i /\ db' = Apply(db, pending[p][i])
        /\ i \in Nat /\ i \in DOMAIN pending[p]
    BY <1>1, <1>4, LenProperties DEF TakeWrite, Data, PendingType
  <2> HIDE DEF i
  <2>2. CASE f \in pending[p][i].fields
    <3>1. ASSUME OfSignUp(pending[p][i]) PROVE pending[p][i].tried
      <4>1. Holds(p, i, f)
        BY <2>1, <2>2, <3>1 DEF Holds
      <4>2. QED
        BY <2>1, <4>1 DEF WrittenOnce, Once
    <3>2. ~OfSignUp(pending[p][i]) => p \notin Android
      BY <1>1, <2>1 DEF AndroidOnly
    <3>3. QED
      BY <2>1, <3>1, <3>2 DEF i
  <2>3. CASE f \notin pending[p][i].fields
    BY <1>1, <2>1, <2>3 DEF Apply
  <2>4. QED
    BY <2>2, <2>3
<1>5. CASE Next /\ db' # db
  <2>1. PICK p \in Phones : TakeWrite(p) \/ \E g \in Counters : Count(p, g)
    BY <1>5 DEF Next, Callback, Network, createAccount, CreateUser, Created, Refused, Leave, Return, Unheard,
       signIn, signOut, startRecording, recordSession, AdminRead, Ack, Disconnect, Reconnect, Kill
  <2>2. QED
    BY <1>1, <1>3, <1>4, <2>1
<1>6. QED
  BY <1>2, <1>5 DEF vars

-----------------------------------------------------------------------------
(* Who writes the hours writes the count.                                  *)

BringsCount(w) == "numSessions" \in w.fields
HasCount(d) == d["numSessions"] # Null

\* Hours come with the count or behind it, or on an Android with the count in the same
\* queue; a count that the server took is there.
CountOK(p) ==
  /\ \A i \in DOMAIN pending[p] : BringsHours(pending[p][i]) =>
       \/ HasCount(db)
       \/ \E j \in DOMAIN pending[p] : BringsCount(pending[p][j]) /\ (j <= i \/ p \in Android)
  /\ \A i \in 1..taken[p] : BringsCount(pending[p][i]) => HasCount(db)

CountOnTheWay == \E p \in Android : \E i \in DOMAIN pending[p] : BringsCount(pending[p][i])

CountFollows ==
  /\ \A p \in Phones : CountOK(p)
  /\ HasHours(db) => HasCount(db) \/ cut \/ CountOnTheWay

LEMMA FollowsIsHalfMade == CountFollows => HalfMadeOnTheWay
BY DEF CountFollows, HalfMadeOnTheWay, HasHours, HasCount, CountOnTheWay, BringsCount

LEMMA InitFollows == Init => CountFollows
BY FieldFacts DEF Init, CountFollows, CountOK, HasHours

\* Steps that change neither what is there nor the queues; fewer may be taken.
LEMMA FollowsKept ==
  ASSUME Data, CountFollows, cut => cut', pending' = pending,
         HasHours(db') => HasHours(db), HasCount(db') <=> HasCount(db),
         \A p \in Phones : taken'[p] \in Nat /\ taken'[p] <= taken[p]
  PROVE  CountFollows'
<1>1. ASSUME NEW p \in Phones PROVE CountOK(p)'
  <2>1. CountOK(p) /\ taken[p] \in Nat
    BY DEF CountFollows, Data
  <2>2. 1..taken'[p] \subseteq 1..taken[p]
    BY <2>1
  <2>3. QED
    BY <2>1, <2>2 DEF CountOK
<1>2. CountOnTheWay => CountOnTheWay'
  BY DEF CountOnTheWay
<1>3. QED
  BY <1>1, <1>2 DEF CountFollows

\* The writes of a sign-up, or the flag, are queued.
LEMMA FollowsJoin ==
  ASSUME Data, CountFollows, NEW p \in Phones, NEW t \in Seq(Writes),
         \A i \in DOMAIN t : BringsHours(t[i]) =>
           \E j \in DOMAIN t : BringsCount(t[j]) /\ (j <= i \/ p \in Android),
         pending' = [pending EXCEPT ![p] = @ \o t], UNCHANGED <<db, taken, cut>>
  PROVE  CountFollows'
<1> DEFINE n == Len(pending[p])
<1>1. /\ pending'[p] = pending[p] \o t /\ pending[p] \in Seq(Writes)
      /\ taken[p] \in Nat /\ taken[p] <= n
      /\ \A q \in Phones \ {p} : pending'[q] = pending[q]
  BY DEF Data, PendingType
<1>2. /\ n \in Nat /\ DOMAIN pending[p] = 1..n /\ DOMAIN t = 1..Len(t) /\ Len(t) \in Nat
      /\ DOMAIN pending'[p] = 1..(n + Len(t))
      /\ \A i \in 1..n : pending'[p][i] = pending[p][i]
      /\ \A i \in 1..Len(t) : pending'[p][n + i] = t[i]
  BY <1>1, ConcatProperties, LenProperties
<1>3. CountOK(p)'
  <2>1. CountOK(p)
    BY DEF CountFollows
  <2>2. ASSUME NEW i \in DOMAIN pending'[p], BringsHours(pending'[p][i])
        PROVE  \/ HasCount(db)
               \/ \E j \in DOMAIN pending'[p] :
                    BringsCount(pending'[p][j]) /\ (j <= i \/ p \in Android)
    <3>1. CASE i <= n
      <4>1. i \in DOMAIN pending[p] /\ BringsHours(pending[p][i])
        BY <1>2, <2>2, <3>1
      <4>2. \A j \in DOMAIN pending[p] : j \in DOMAIN pending'[p] /\ pending'[p][j] = pending[p][j]
        BY <1>2
      <4>3. QED
        BY <2>1, <4>1, <4>2 DEF CountOK
    <3>2. CASE i > n
      <4>1. i - n \in DOMAIN t /\ n + (i - n) = i
        BY <1>2, <3>2
      <4>2. BringsHours(t[i - n])
        BY <1>2, <2>2, <4>1
      <4>3. PICK j \in DOMAIN t : BringsCount(t[j]) /\ (j <= i - n \/ p \in Android)
        BY <4>1, <4>2
      <4>4. n + j \in DOMAIN pending'[p] /\ pending'[p][n + j] = t[j] /\ (j <= i - n => n + j <= i)
        BY <1>2, <3>2
      <4>5. QED
        BY <4>3, <4>4
    <3>3. QED
      BY <1>2, <3>1, <3>2
  <2>3. \A i \in 1..taken[p] : pending'[p][i] = pending[p][i]
    BY <1>1, <1>2
  <2>4. QED
    BY <2>1, <2>2, <2>3 DEF CountOK
<1>4. ASSUME NEW q \in Phones \ {p} PROVE CountOK(q)'
  BY <1>1 DEF CountFollows, CountOK
<1>5. CountOnTheWay => CountOnTheWay'
  <2>1. \A q \in Phones : \A i \in DOMAIN pending[q] :
          i \in DOMAIN pending'[q] /\ pending'[q][i] = pending[q][i]
    BY <1>1, <1>2
  <2>2. QED
    BY <2>1, ConstantsOK DEF CountOnTheWay
<1>6. QED
  BY <1>3, <1>4, <1>5 DEF CountFollows

LEMMA FollowsTaken ==
  ASSUME Data, CountFollows, NEW p \in Phones, TakeWrite(p)
  PROVE  CountFollows'
<1> DEFINE q == pending[p]
           i == taken[p] + 1
           w == q[i]
           v == [w EXCEPT !.tried = TRUE]
<1>1. /\ q \in Seq(Writes) /\ i \in DOMAIN q /\ taken[p] \in Nat /\ w \in Writes
  BY LenProperties, ElementOfSeq DEF Data, PendingType, TakeWrite
<1>2. v.fields = w.fields
  BY <1>1 DEF Writes
<1>3. /\ db' = Apply(db, w) /\ pending' = [pending EXCEPT ![p] = [q EXCEPT ![i] = v]]
      /\ cut' = cut /\ taken'[p] = i /\ \A r \in Phones \ {p} : taken'[r] = taken[r]
  BY DEF TakeWrite, Data
<1> HIDE DEF v
<1>4. \A r \in Phones : /\ DOMAIN pending'[r] = DOMAIN pending[r]
                        /\ \A k \in DOMAIN pending[r] : pending'[r][k].fields = pending[r][k].fields
  BY <1>1, <1>2, <1>3 DEF Data, PendingType
<1>5. \A r \in Phones : \A k \in DOMAIN pending[r] :
        /\ BringsHours(pending'[r][k]) <=> BringsHours(pending[r][k])
        /\ BringsCount(pending'[r][k]) <=> BringsCount(pending[r][k])
  BY <1>4 DEF BringsHours, BringsCount
<1>6. /\ HasCount(db) => HasCount(db')
      /\ BringsCount(w) => HasCount(db')
      /\ HasHours(db') => HasHours(db) \/ BringsHours(w)
  <2>1. /\ \A f \in Fields : db[f] # Null => Apply(db, w)[f] # Null
        /\ \A f \in Fields : f \in w.fields => Apply(db, w)[f] # Null
        /\ \A f \in Fields : f \notin w.fields => Apply(db, w)[f] = db[f]
    <3>1. db \in [Fields -> Nat \cup {Null}]
      BY DEF Data
    <3> HIDE DEF w
    <3>2. QED
      BY <1>1, <3>1, ApplyType
  <2> HIDE DEF w
  <2>2. QED
    BY <1>3, <2>1, FieldFacts DEF HasCount, HasHours, BringsCount, BringsHours
<1>7. ASSUME NEW r \in Phones PROVE CountOK(r)'
  <2>1. CountOK(r) /\ CountOK(p)
    BY DEF CountFollows
  <2>2. ASSUME NEW k \in 1..taken'[r], BringsCount(pending'[r][k]) PROVE HasCount(db')
    <3>1. /\ DOMAIN pending[r] = 1..Len(pending[r]) /\ taken[r] \in Nat
          /\ taken[r] <= Len(pending[r]) /\ Len(pending[r]) \in Nat
      BY LenProperties DEF Data, PendingType
    <3>2. k \in DOMAIN pending[r] /\ (k \in 1..taken[r] \/ (r = p /\ k = i))
      BY <1>1, <1>3, <3>1
    <3>3. BringsCount(pending[r][k])
      BY <1>5, <2>2, <3>2
    <3>4. QED
      BY <1>6, <2>1, <3>2, <3>3 DEF CountOK
  <2>3. ASSUME NEW k \in DOMAIN pending'[r], BringsHours(pending'[r][k])
        PROVE  \/ HasCount(db')
               \/ \E j \in DOMAIN pending'[r] :
                    BringsCount(pending'[r][j]) /\ (j <= k \/ r \in Android)
    <3>1. k \in DOMAIN pending[r] /\ BringsHours(pending[r][k])
      BY <1>4, <1>5, <2>3
    <3>2. \/ HasCount(db)
          \/ \E j \in DOMAIN pending[r] :
               BringsCount(pending[r][j]) /\ (j <= k \/ r \in Android)
      BY <2>1, <3>1 DEF CountOK
    <3>3. QED
      BY <1>4, <1>5, <1>6, <3>2
  <2>4. QED
    BY <2>2, <2>3 DEF CountOK
<1>8. ASSUME HasHours(db'), ~HasCount(db'), ~cut'
      PROVE  CountOnTheWay'
  <2>1. CountOnTheWay \/ \E j \in DOMAIN pending[p] : BringsCount(pending[p][j]) /\ p \in Android
    <3>1. CASE HasHours(db)
      BY <1>3, <1>6, <1>8, <3>1 DEF CountFollows
    <3>2. CASE ~HasHours(db)
      <4>1. BringsHours(q[i]) /\ ~HasCount(db) /\ CountOK(p)
        BY <1>6, <1>8, <3>2 DEF CountFollows
      <4>2. PICK j \in DOMAIN q : BringsCount(q[j]) /\ (j <= i \/ p \in Android)
        BY <1>1, <4>1 DEF CountOK
      <4>3. j # i
        BY <1>6, <1>8, <4>2
      <4>4. j \notin 1..taken[p]
        BY <4>1, <4>2 DEF CountOK
      <4>5. ~(j <= i)
        BY <1>1, <4>3, <4>4, LenProperties
      <4>6. QED
        BY <4>2, <4>5
    <3>3. QED
      BY <3>1, <3>2
  <2>2. QED
    BY <1>4, <1>5, <2>1, ConstantsOK DEF CountOnTheWay
<1>9. QED
  BY <1>7, <1>8 DEF CountFollows

LEMMA FollowsAck ==
  ASSUME Data, CountFollows, NEW p \in Phones, Ack(p)
  PROVE  CountFollows'
<1>1. /\ pending[p] \in Seq(Writes) /\ taken[p] \in Nat /\ taken[p] > 0
      /\ taken[p] <= Len(pending[p]) /\ db' = db /\ cut' = cut
      /\ taken'[p] = taken[p] - 1 /\ pending'[p] = Tail(pending[p])
      /\ \A r \in Phones \ {p} : pending'[r] = pending[r] /\ taken'[r] = taken[r]
  BY DEF Data, PendingType, Ack
<1>2. /\ Len(pending[p]) \in Nat /\ DOMAIN pending[p] = 1..Len(pending[p])
      /\ DOMAIN pending'[p] = 1..(Len(pending[p]) - 1)
      /\ \A k \in 1..(Len(pending[p]) - 1) : pending'[p][k] = pending[p][k + 1]
  <2>1. pending[p] # <<>> /\ Len(pending[p]) \in Nat /\ DOMAIN pending[p] = 1..Len(pending[p])
    BY <1>1, LenProperties, EmptySeq
  <2>2. /\ Tail(pending[p]) \in Seq(Writes)
        /\ Len(Tail(pending[p])) = Len(pending[p]) - 1
        /\ \A k \in 1..Len(Tail(pending[p])) : Tail(pending[p])[k] = pending[p][k + 1]
    BY <1>1, <2>1, HeadTailProperties
  <2>3. DOMAIN Tail(pending[p]) = 1..Len(Tail(pending[p]))
    BY <2>2, LenProperties
  <2>4. QED
    BY <1>1, <2>1, <2>2, <2>3
<1>3. CountOK(p)
  BY DEF CountFollows
\* A count that leaves the queue is there.
<1>4. ASSUME NEW j \in DOMAIN pending[p], BringsCount(pending[p][j]), ~HasCount(db)
      PROVE  /\ j > 1 /\ j - 1 \in DOMAIN pending'[p]
             /\ BringsCount(pending'[p][j - 1])
  <2>1. j # 1
    BY <1>1, <1>3, <1>4 DEF CountOK
  <2>2. j - 1 \in 1..(Len(pending[p]) - 1) /\ j - 1 + 1 = j
    BY <1>2, <2>1
  <2>3. QED
    BY <1>2, <1>4, <2>2
<1>5. CountOK(p)'
  <2>1. ASSUME NEW k \in DOMAIN pending'[p], BringsHours(pending'[p][k]), ~HasCount(db)
        PROVE  \E j \in DOMAIN pending'[p] :
                 BringsCount(pending'[p][j]) /\ (j <= k \/ p \in Android)
    <3>1. k + 1 \in DOMAIN pending[p] /\ BringsHours(pending[p][k + 1])
      BY <1>2, <2>1
    <3>2. PICK j \in DOMAIN pending[p] :
            BringsCount(pending[p][j]) /\ (j <= k + 1 \/ p \in Android)
      BY <1>3, <2>1, <3>1 DEF CountOK
    <3>3. j - 1 \in DOMAIN pending'[p] /\ BringsCount(pending'[p][j - 1])
      BY <1>4, <2>1, <3>2
    <3>4. j <= k + 1 => j - 1 <= k
      BY <1>2
    <3>5. QED
      BY <3>2, <3>3, <3>4
  <2>2. ASSUME NEW k \in 1..taken'[p], BringsCount(pending'[p][k]) PROVE HasCount(db)
    <3>1. k + 1 \in 1..taken[p] /\ pending'[p][k] = pending[p][k + 1]
      BY <1>1, <1>2
    <3>2. QED
      BY <1>3, <2>2, <3>1 DEF CountOK
  <2>3. QED
    BY <1>1, <2>1, <2>2 DEF CountOK
<1>6. ASSUME NEW r \in Phones \ {p} PROVE CountOK(r)'
  BY <1>1 DEF CountFollows, CountOK
<1>7. ~HasCount(db) /\ CountOnTheWay => CountOnTheWay'
  <2> SUFFICES ASSUME ~HasCount(db), NEW r \in Android, NEW k \in DOMAIN pending[r],
                      BringsCount(pending[r][k])
               PROVE  CountOnTheWay'
    BY DEF CountOnTheWay
  <2>1. CASE r = p
    BY <1>4, <2>1 DEF CountOnTheWay
  <2>2. CASE r # p
    BY <1>1, <2>2, ConstantsOK DEF CountOnTheWay
  <2>3. QED
    BY <2>1, <2>2
<1>8. QED
  BY <1>1, <1>5, <1>6, <1>7 DEF CountFollows

LEMMA FollowsKill ==
  ASSUME Data, AndroidOnly, CountFollows, NEW p \in Phones, Kill(p)
  PROVE  CountFollows'
<1>1. /\ db' = db
      /\ cut' = (cut \/ call[p] = "ok" \/ reading[p]
                    \/ \E i \in DOMAIN pending[p] : OfSignUp(pending[p][i]))
      /\ taken'[p] = 0 /\ pending'[p] = <<>>
      /\ \A r \in Phones \ {p} : pending'[r] = pending[r] /\ taken'[r] = taken[r]
  BY DEF Kill, Data, PendingType
<1>2. CountOK(p)'
  BY <1>1 DEF CountOK
<1>3. ASSUME NEW r \in Phones \ {p} PROVE CountOK(r)'
  BY <1>1 DEF CountFollows, CountOK
<1>4. /\ cut => cut'
      /\ (\E i \in DOMAIN pending[p] : OfSignUp(pending[p][i])) => cut'
  BY <1>1, Zenon
<1>5. CountOnTheWay => CountOnTheWay' \/ cut'
  <2> SUFFICES ASSUME NEW r \in Android, NEW k \in DOMAIN pending[r],
                      BringsCount(pending[r][k])
               PROVE  CountOnTheWay' \/ cut'
    BY DEF CountOnTheWay
  <2>1. CASE r = p
    BY <1>4, <2>1 DEF AndroidOnly
  <2>2. CASE r # p
    BY <1>1, <2>2, ConstantsOK DEF CountOnTheWay
  <2>3. QED
    BY <2>1, <2>2
<1>6. QED
  BY <1>1, <1>2, <1>3, <1>4, <1>5 DEF CountFollows

LEMMA FollowsStep ==
  ASSUME IInv, CountFollows, [Next]_vars
  PROVE  CountFollows'
<1>1. Rest /\ Data /\ AskedType /\ AndroidOnly
  BY TypeParts DEF IInv
<1>2. \A p \in Phones : taken[p] \in Nat /\ taken[p] <= taken[p]
  BY <1>1 DEF Data
<1>3. CASE UNCHANGED vars
  BY <1>1, <1>2, <1>3, FollowsKept DEF vars, client
<1>4. CASE Next
  <2>1. PICK p \in Phones :
          \/ createAccount(p) \/ CreateUser(p) \/ Created(p) \/ Refused(p)
          \/ Leave(p) \/ Return(p) \/ Unheard(p) \/ signIn(p) \/ signOut(p)
          \/ \E f \in Counters : Count(p, f)
          \/ startRecording(p) \/ recordSession(p)
          \/ AdminRead(p) \/ TakeWrite(p) \/ Ack(p)
          \/ Disconnect(p) \/ Reconnect(p) \/ Kill(p)
    BY <1>4 DEF Next, Callback, Network
  <2>2. CASE createAccount(p) \/ CreateUser(p) \/ Refused(p) \/ Leave(p) \/ Return(p)
             \/ Unheard(p) \/ signIn(p) \/ signOut(p) \/ startRecording(p) \/ Reconnect(p)
    <3>1. UNCHANGED <<db, pending, taken>>
      BY <2>2 DEF createAccount, CreateUser, Refused, Leave, Return, Unheard, signIn,
           signOut, startRecording, Reconnect, client
    <3>2. cut => cut'
      <4>1. CASE Unheard(p)
        <5>1. cut' = (cut \/ call[p] = "ok")
          BY <4>1 DEF Unheard
        <5>2. QED
          BY <5>1, Zenon
      <4>2. CASE ~Unheard(p)
        <5>1. cut' = cut
          BY <2>2, <4>2 DEF createAccount, CreateUser, Refused, Leave, Return, signIn,
               signOut, startRecording, Reconnect
        <5>2. QED
          BY <5>1
      <4>3. QED
        BY <4>1, <4>2
    <3>3. QED
      BY <1>1, <1>2, <3>1, <3>2, FollowsKept
  <2>3. CASE Created(p)
    <3> DEFINE t == IF p \in Android THEN AndroidWrites ELSE IosWrites
    <3>1. t \in Seq(Writes)
      BY SignUpWrites
    <3>2. CASE p \in Android
      <4>1. 2 \in DOMAIN AndroidWrites /\ AndroidWrites[2].fields = {"numSessions"}
        BY DEF AndroidWrites, Write, Put
      <4>2. QED
        BY <1>1, <2>3, <3>1, <3>2, <4>1, FollowsJoin DEF Created, BringsCount
    <3>3. CASE p \notin Android
      <4>1. DOMAIN IosWrites = 1..1
            /\ IosWrites[1].fields = {"sisterName", "numSessions", "totalHours"}
        BY DEF IosWrites, Write, Put
      <4>2. \A i \in DOMAIN IosWrites : BringsCount(IosWrites[i])
        BY <4>1 DEF BringsCount
      <4>3. t = IosWrites /\ IosWrites \in Seq(Writes)
        BY <3>3, SignUpWrites
      <4>4. /\ pending' = [pending EXCEPT ![p] = @ \o IosWrites]
            /\ UNCHANGED <<db, taken, cut>>
        BY <2>3, <3>3 DEF Created
      <4>5. \A i \in DOMAIN IosWrites : i <= i
        BY <4>1
      <4>6. \A i \in DOMAIN IosWrites : BringsHours(IosWrites[i]) =>
              \E j \in DOMAIN IosWrites :
                BringsCount(IosWrites[j]) /\ (j <= i \/ p \in Android)
        BY <4>2, <4>5
      <4>7. QED
        BY <1>1, <4>3, <4>4, <4>6, FollowsJoin
    <3>4. QED
      BY <3>2, <3>3
  <2>4. CASE \E f \in Counters : Count(p, f)
    <3>1. PICK f \in Counters : Count(p, f)
      BY <2>4
    <3>2. /\ UNCHANGED <<pending, taken, cut>>
          /\ db' = [db EXCEPT ![f] = @ + 1] /\ db[f] # Null /\ f \in Fields
      BY <3>1, FieldFacts DEF Count, client
    <3>3. (HasHours(db') => HasHours(db)) /\ (HasCount(db') <=> HasCount(db))
      <4>1. db[f] \in Nat /\ db[f] + 1 # Null
        BY <1>1, <3>2, ConstantsOK DEF Data
      <4>2. QED
        BY <1>1, <3>2, <4>1, FieldFacts DEF Data, HasHours, HasCount
    <3>4. QED
      BY <1>1, <1>2, <3>2, <3>3, FollowsKept
  <2>5. CASE AdminRead(p)
    <3> DEFINE w == Write({"admin"})
               t == <<w>>
    <3>1. w \in Writes /\ w.fields = {"admin"}
      BY FieldFacts, WriteType
    <3>2. ~BringsHours(w)
      BY <3>1 DEF BringsHours
    <3>3. pending[p] \in Seq(Writes)
      BY <1>1 DEF Data, PendingType
    <3>4. /\ UNCHANGED <<db, taken, cut>>
          /\ pending' = [pending EXCEPT ![p] = Append(pending[p], w)]
      BY <2>5 DEF AdminRead
    <3> HIDE DEF w
    <3>5. t \in Seq(Writes) /\ DOMAIN t = 1..1 /\ t[1] = w
      BY <3>1
    <3>6. pending' = [pending EXCEPT ![p] = @ \o t]
      BY <3>1, <3>3, <3>4, AppendIsConcat
    <3>7. \A i \in DOMAIN t : ~BringsHours(t[i])
      BY <3>2, <3>5
    <3> HIDE DEF t
    <3>8. QED
      BY <1>1, <3>4, <3>5, <3>6, <3>7, FollowsJoin
  <2>6. CASE Disconnect(p)
    <3>1. /\ UNCHANGED <<db, pending, cut>>
          /\ \A q \in Phones : taken'[q] \in Nat /\ taken'[q] <= taken[q]
      BY <1>1, <2>6 DEF Disconnect, Data
    <3>2. QED
      BY <1>1, <3>1, FollowsKept
  <2>7. CASE recordSession(p)
    <3>1. /\ asked[p] # Null /\ UNCHANGED <<db, taken, cut>>
          /\ pending' = [pending EXCEPT ![p] = @ \o Counts(asked[p])]
      BY <2>7 DEF recordSession
    <3> DEFINE t == Counts(asked[p])
    <3>2. /\ t \in Seq(Writes) /\ DOMAIN t = {1, 2}
          /\ t[1].fields = {"numSessions"} /\ t[2].fields = {"totalHours"}
      BY <1>1, <3>1, CountsType DEF AskedType
    <3> HIDE DEF t
    <3>3. 1 \in DOMAIN t /\ BringsCount(t[1]) /\ \A i \in DOMAIN t : 1 <= i
      BY <3>2 DEF BringsCount
    <3>4. \A i \in DOMAIN t : BringsHours(t[i]) =>
            \E j \in DOMAIN t : BringsCount(t[j]) /\ (j <= i \/ p \in Android)
      BY <3>3
    <3>5. pending' = [pending EXCEPT ![p] = @ \o t]
      BY <3>1 DEF t
    <3>6. QED
      BY <1>1, <3>1, <3>2, <3>4, <3>5, FollowsJoin
  <2>8. QED
    BY <1>1, <2>1, <2>2, <2>3, <2>4, <2>5, <2>6, <2>7, FollowsTaken, FollowsAck, FollowsKill
<1>5. QED
  BY <1>3, <1>4

-----------------------------------------------------------------------------
(* The theorems.                                                           *)

\* Whatever the phones do and lose, the sign-up keeps its types, and no client has
\* sent more than it has to send.
THEOREM TypeCorrect == Spec => []TypeOK
<1>1. IInv => TypeOK
  BY DEF IInv
<1>2. QED
  BY <1>1, InitOK, Inductive, PTL DEF Spec

\* However many phones sign up, lose their connection or die, a record that has a
\* count or a name has its totalHours: the writes are queued and sent again in the
\* order of createAccount, hours first, so the page of the sisters' hours opens.
THEOREM HoursAlwaysThere == Spec => []SistersPageOpens
<1>1. IInv => SistersPageOpens
  BY DEF IInv
<1>2. QED
  BY <1>1, InitOK, Inductive, PTL DEF Spec

\* A counter falls only when the server takes a write of a sign-up for the second
\* time, after a lost connection, or one that an iPhone worked out from an older read:
\* of all phones that ask for the account one gets it, and it writes a counter once.
THEOREM CountersFallOnlyToOldValues == Spec => FallsOnlyToOldValues
<1>1. IInv /\ WrittenOnce /\ [Next]_vars => WrittenOnce'
  BY OnceStep
<1>2. IInv /\ WrittenOnce /\ [Next]_vars =>
        [\A f \in Counters : db[f] # Null =>
           \/ db'[f] >= db[f]
           \/ \E p \in Phones :
                /\ taken'[p] = taken[p] + 1
                /\ LET w == pending[p][taken'[p]]
                   IN  IF OfSignUp(w) THEN w.tried ELSE p \notin Android]_vars
  BY FallStep
<1>3. QED
  BY <1>1, <1>2, InitOK, InitOnce, Inductive, PTL DEF Spec, FallsOnlyToOldValues

\* A record that has hours and no count, on which the iOS record page stops, is only
\* there while an Android's sign-up is on its way or after one was cut short,
\* whoever else signs up, counts or loses the connection.
THEOREM HalfMadeOnlyOnTheWay == Spec => []HalfMadeOnTheWay
<1>1. IInv /\ CountFollows /\ [Next]_vars => CountFollows'
  BY FollowsStep
<1>2. QED
  BY <1>1, InitOK, InitFollows, Inductive, FollowsIsHalfMade, PTL DEF Spec

=============================================================================
