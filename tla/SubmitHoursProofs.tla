-------------------------- MODULE SubmitHoursProofs --------------------------
(***************************************************************************)
(* For any devices, sessions, credits and bounds: SubmitHours is typed, and *)
(* counts no submission twice.  Until the answer to a read runs a waiting  *)
(* transaction again, its counters add up and it implements HoursLedger.   *)
(***************************************************************************)
EXTENDS SubmitHours, HoursTheorems, SequenceTheorems

-----------------------------------------------------------------------------
(* Queues of transactions.                                                 *)

\* The value a transaction computes is a number or absent.
LEMMA OutputType ==
  \A p \in Paths, S \in SUBSET Sessions, v \in Value : Output(p, S, v) \in Value
BY AmountType DEF Output, Value

\* From a value that is there, it computes one.
LEMMA OutputThere ==
  ASSUME NEW p \in Paths, NEW S \in SUBSET Sessions, NEW v \in Value, v # Null
  PROVE  Output(p, S, v) \in Nat /\ Output(p, S, v) # Null
BY AmountType, ConstantsOK DEF Output, Value

\* Running one group of submissions and then another is running both.
LEMMA OutputUnion ==
  ASSUME NEW p \in Paths, NEW S \in SUBSET Sessions, NEW T \in SUBSET Sessions,
         S \cap T = {}, NEW v \in Value
  PROVE  Output(p, T, Output(p, S, v)) = Output(p, S \cup T, v)
<1>1. Amount(p, S \cup T) = Amount(p, S) + Amount(p, T)
  BY AmountUnion
<1>2. Amount(p, S) \in Nat /\ Amount(p, T) \in Nat
  BY AmountType
<1>3. CASE v = Null
  BY <1>3 DEF Output
<1>4. CASE v \in Nat
  <2>1. v + Amount(p, S) # Null /\ v # Null
    BY <1>2, <1>4, ConstantsOK
  <2>2. QED
    BY <1>1, <1>2, <1>4, <2>1 DEF Output
<1>5. QED
  BY <1>3, <1>4 DEF Value

\* The submissions of a queue are sessions.
LEMMA IdsType == \A q \in Seq(Entry) : Ids(q) \in SUBSET Sessions
<1> SUFFICES ASSUME NEW q \in Seq(Entry)
             PROVE  Ids(q) \in SUBSET Sessions
  OBVIOUS
<1>1. \A i \in DOMAIN q : q[i] \in Entry
  BY LenProperties, ElementOfSeq
<1>2. QED
  BY <1>1 DEF Ids, Entry

\* A path with nothing to do is in order.
LEMMA IdleOK ==
  ASSUME NEW p \in Paths
  PROVE  Idle \in Transactions /\ TransactionsOK(Idle) /\ Exact(p, Idle)
         /\ Ids(Idle.queue) = {} /\ Batch(Idle) = {}
<1>1. Idle \in Transactions
  BY DEF Idle, Transactions, Value
<1>2. Ids(Idle.queue) = {} /\ Batch(Idle) = {}
  BY DEF Idle, Ids, Batch
<1>3. Output(p, {}, Null) = Null
  BY DEF Output
<1>4. TransactionsOK(Idle) /\ Exact(p, Idle)
  BY <1>2, <1>3 DEF Idle, TransactionsOK, Exact, Distinct
<1>5. QED
  BY <1>1, <1>2, <1>4

\* Running and sending a queue of different submissions leaves it in order.
LEMMA SentOK ==
  ASSUME NEW p \in Paths, NEW q \in Seq(Entry), q # <<>>, Distinct(q), NEW v \in Value
  PROVE  /\ Sent(p, q, v) \in Transactions
         /\ TransactionsOK(Sent(p, q, v))
         /\ Exact(p, Sent(p, q, v))
         /\ Ids(Sent(p, q, v).queue) = Ids(q)
         /\ Sent(p, q, v).sent > 0
         /\ Sent(p, q, v).reply = "none"
<1> DEFINE r == [i \in 1..Len(q) |-> [id |-> q[i].id, tries |-> q[i].tries + 1]]
<1>1. Len(q) \in Nat /\ Len(q) > 0 /\ DOMAIN q = 1..Len(q)
  BY EmptySeq, LenProperties
<1>2. \A i \in 1..Len(q) : q[i] \in Entry
  BY ElementOfSeq
<1>3. r \in Seq(Entry) /\ Len(r) = Len(q) /\ DOMAIN r = 1..Len(q)
  <2>1. \A i \in 1..Len(q) : [id |-> q[i].id, tries |-> q[i].tries + 1] \in Entry
    BY <1>2 DEF Entry
  <2>2. r \in [1..Len(q) -> Entry]
    BY <2>1
  <2>3. r \in Seq(Entry)
    BY <1>1, <2>2, SeqDef
  <2>4. QED
    BY <1>1, <2>2, <2>3, LenProperties
<1>4. Ids(r) = Ids(q)
  BY <1>1, <1>3 DEF Ids
<1>5. Distinct(r)
  BY <1>1, <1>3 DEF Distinct
<1>6. Output(p, Ids(q), v) \in Value
  BY IdsType, OutputType
<1>7. Sent(p, q, v) = [queue |-> r, sent |-> Len(q), base |-> v,
        val |-> Output(p, Ids(q), v), out |-> Output(p, Ids(q), v),
        reply |-> "none", now |-> Null]
  BY DEF Sent
<1>8. Sent(p, q, v) \in Transactions
  BY <1>1, <1>3, <1>6, <1>7 DEF Transactions, Value
<1>9. Batch(Sent(p, q, v)) = Ids(r)
  <2>1. Sent(p, q, v).queue = r /\ Sent(p, q, v).sent = Len(q)
    BY <1>7
  <2>2. Batch(Sent(p, q, v)) = {r[i].id : i \in 1..Len(q)}
    BY <2>1 DEF Batch
  <2>3. Ids(r) = {r[i].id : i \in 1..Len(q)}
    <3> HIDE DEF r
    <3>1. QED
      BY <1>3 DEF Ids
  <2>4. QED
    BY <2>2, <2>3
<1>10. v # Null => Output(p, Ids(q), v) # Null
  BY IdsType, OutputThere
<1>11. TransactionsOK(Sent(p, q, v))
  BY <1>1, <1>3, <1>5, <1>7, <1>10 DEF TransactionsOK
<1>12. Exact(p, Sent(p, q, v))
  BY <1>4, <1>7, <1>9 DEF Exact
<1>13. QED
  BY <1>1, <1>4, <1>7, <1>8, <1>11, <1>12

\* The rest of a queue holds different submissions of that queue.
LEMMA SuffixOK ==
  ASSUME NEW q \in Seq(Entry), Distinct(q), NEW k \in 0..Len(q)
  PROVE  LET r == SubSeq(q, k + 1, Len(q)) IN
         /\ r \in Seq(Entry) /\ Distinct(r)
         /\ Ids(r) = {q[i].id : i \in (k + 1)..Len(q)}
<1> DEFINE r == SubSeq(q, k + 1, Len(q))
<1>1. Len(q) \in Nat /\ DOMAIN q = 1..Len(q)
  BY LenProperties
<1>2. \A i \in (k + 1)..Len(q) : q[i] \in Entry
  BY <1>1, ElementOfSeq
<1>3. /\ r \in Seq(Entry)
      /\ Len(r) = IF k + 1 <= Len(q) THEN Len(q) - k ELSE 0
      /\ \A i \in 1..(Len(q) - k) : r[i] = q[k + i]
  BY <1>1, <1>2, SubSeqProperties
<1>4. DOMAIN r = 1..(Len(q) - k)
  BY <1>1, <1>3, LenProperties
<1>5. Distinct(r)
  <2>1. SUFFICES ASSUME NEW i \in DOMAIN r, NEW j \in DOMAIN r, r[i].id = r[j].id
                 PROVE  i = j
    BY DEF Distinct
  <2>. HIDE DEF r
  <2>2. r[i] = q[k + i] /\ r[j] = q[k + j]
    BY <1>3, <1>4
  <2>3. k + i \in DOMAIN q /\ k + j \in DOMAIN q
    BY <1>1, <1>4
  <2>4. k + i = k + j
    BY <2>1, <2>2, <2>3 DEF Distinct
  <2>5. i \in Int /\ j \in Int /\ k \in Int
    BY <1>1, <1>4
  <2>6. QED
    BY <2>4, <2>5
<1>6. Ids(r) = {q[i].id : i \in (k + 1)..Len(q)}
  <2>1. ASSUME NEW i \in DOMAIN r
        PROVE  r[i].id \in {q[j].id : j \in (k + 1)..Len(q)}
    BY <1>1, <1>3, <1>4
  <2>2. ASSUME NEW j \in (k + 1)..Len(q)
        PROVE  q[j].id \in Ids(r)
    <3>1. j - k \in DOMAIN r /\ r[j - k] = q[j]
      BY <1>1, <1>3, <1>4
    <3>2. QED
      BY <3>1 DEF Ids
  <2>3. QED
    BY <2>1, <2>2 DEF Ids
<1>7. QED
  BY <1>3, <1>5, <1>6

\* A queue is its batch and, behind it, what waits: different submissions.
LEMMA WaitingOK ==
  ASSUME NEW t \in Transactions, TransactionsOK(t)
  PROVE  /\ Waiting(t) \in Seq(Entry) /\ Distinct(Waiting(t))
         /\ Batch(t) \in SUBSET Sessions /\ Ids(Waiting(t)) \in SUBSET Sessions
         /\ Ids(t.queue) = Batch(t) \cup Ids(Waiting(t))
         /\ Batch(t) \cap Ids(Waiting(t)) = {}
<1>1. t.queue \in Seq(Entry) /\ t.sent \in 0..Len(t.queue) /\ Distinct(t.queue)
  BY DEF Transactions, TransactionsOK
<1>2. Len(t.queue) \in Nat /\ DOMAIN t.queue = 1..Len(t.queue)
  BY <1>1, LenProperties
<1>3. /\ Waiting(t) \in Seq(Entry) /\ Distinct(Waiting(t))
      /\ Ids(Waiting(t)) = {t.queue[i].id : i \in (t.sent + 1)..Len(t.queue)}
  BY <1>1, SuffixOK DEF Waiting
<1> DEFINE q == t.queue
           n == t.sent
<1>4. Ids(q) = Batch(t) \cup Ids(Waiting(t))
  <2>1. Ids(q) = {q[i].id : i \in 1..Len(q)} /\ Batch(t) = {q[i].id : i \in 1..n}
    BY <1>2 DEF Ids, Batch
  <2>2. 1..Len(q) = (1..n) \cup ((n + 1)..Len(q))
    BY <1>1, <1>2
  <2>3. QED
    BY <1>3, <2>1, <2>2
<1>5. Batch(t) \cap Ids(Waiting(t)) = {}
  <2>1. ASSUME NEW i \in 1..n, NEW j \in (n + 1)..Len(q)
        PROVE  q[i].id # q[j].id
    <3>1. i \in DOMAIN q /\ j \in DOMAIN q /\ i # j
      BY <1>1, <1>2
    <3>2. QED
      BY <1>1, <3>1 DEF Distinct
  <2>2. QED
    BY <1>3, <2>1 DEF Batch
<1>6. Ids(t.queue) \in SUBSET Sessions
  BY <1>1, IdsType
<1>7. QED
  BY <1>3, <1>4, <1>5, <1>6

\* What a transaction queue holds and shows has the right type.
LEMMA FieldsOK ==
  ASSUME NEW t \in Transactions
  PROVE  /\ t.queue \in Seq(Entry) /\ t.sent \in Nat
         /\ t.base \in Value /\ t.val \in Value /\ t.out \in Value /\ t.now \in Value
         /\ t.reply \in {"none", "ok", "datastale"}
BY DEF Transactions

\* After "ok", what waited was computed from the very value the server holds.
LEMMA RestOK ==
  ASSUME NEW p \in Paths, NEW t \in Transactions, TransactionsOK(t), Exact(p, t),
         t.reply = "ok"
  PROVE  t.out = Output(p, Ids(Waiting(t)), t.now)
<1>1. t.now = Output(p, Batch(t), t.base)
  BY DEF TransactionsOK, Exact
<1>2. t.out = Output(p, Batch(t) \cup Ids(Waiting(t)), t.base)
  BY WaitingOK DEF Exact
<1>3. t.base \in Value
  BY FieldsOK
<1>4. QED
  BY <1>1, <1>2, <1>3, WaitingOK, OutputUnion

\* Starting one more transaction behind others leaves the queue in order.
LEMMA EnqueueOK ==
  ASSUME NEW p \in Paths, NEW t \in Transactions, TransactionsOK(t),
         NEW s \in Sessions, s \notin Ids(t.queue), t.sent > 0
  PROVE  LET u == Enqueue(p, t, s) IN
         /\ u \in Transactions /\ TransactionsOK(u)
         /\ Ids(u.queue) = Ids(t.queue) \cup {s} /\ Batch(u) = Batch(t)
         /\ u.sent = t.sent /\ u.reply = t.reply
<1> DEFINE u == Enqueue(p, t, s)
           q == t.queue
           r == Append(q, NewEntry(s))
<1>1. q \in Seq(Entry) /\ t.sent \in 1..Len(q) /\ Distinct(q) /\ Len(q) \in Nat
      /\ DOMAIN q = 1..Len(q)
  BY FieldsOK, LenProperties DEF TransactionsOK
<1>2. NewEntry(s) \in Entry /\ NewEntry(s).id = s
  BY DEF NewEntry, Entry
<1>3. /\ r \in Seq(Entry) /\ Len(r) = Len(q) + 1 /\ DOMAIN r = 1..(Len(q) + 1)
      /\ \A i \in 1..Len(q) : r[i] = q[i]
      /\ r[Len(q) + 1] = NewEntry(s)
  BY <1>1, <1>2, AppendProperties, LenProperties
<1>4. Ids(r) = Ids(q) \cup {s}
  <2>1. \A i \in DOMAIN r : r[i].id \in Ids(q) \cup {s}
    BY <1>1, <1>2, <1>3 DEF Ids
  <2>2. \A i \in DOMAIN q : q[i].id \in Ids(r)
    BY <1>1, <1>3 DEF Ids
  <2>3. s \in Ids(r)
    BY <1>1, <1>2, <1>3 DEF Ids
  <2>4. QED
    BY <2>1, <2>2, <2>3 DEF Ids
<1>5. Distinct(r)
  BY <1>1, <1>2, <1>3 DEF Distinct, Ids
<1>7. Output(p, {s}, t.out) \in Value
  BY FieldsOK, OutputType
<1>8. /\ u.queue = r /\ u.out = Output(p, {s}, t.out)
      /\ u.sent = t.sent /\ u.base = t.base /\ u.val = t.val
      /\ u.reply = t.reply /\ u.now = t.now
  BY DEF Enqueue, Transactions
<1>9. u \in Transactions
  BY <1>3, <1>7 DEF Enqueue, Transactions
<1>10. Batch(u) = Batch(t)
  BY <1>1, <1>3, <1>8 DEF Batch
<1>11. TransactionsOK(u)
  <2>1. u.sent \in 0..Len(u.queue) /\ u.sent # 0
    BY <1>1, <1>3, <1>8
  <2>2. u.base # Null => u.val # Null /\ u.out # Null
    <3>1. {s} \in SUBSET Sessions
      OBVIOUS
    <3>2. QED
      BY <1>8, <3>1, FieldsOK, OutputThere DEF TransactionsOK
  <2>3. u.reply = "ok" => u.base # Null /\ u.now = u.val
    BY <1>8 DEF TransactionsOK
  <2>4. QED
    BY <1>5, <1>8, <2>1, <2>2, <2>3 DEF TransactionsOK
<1>12. QED
  BY <1>4, <1>8, <1>9, <1>10, <1>11

\* Only its queue and its output change.
LEMMA EnqueueValues ==
  ASSUME NEW p \in Paths, NEW t \in Transactions, NEW s
  PROVE  LET u == Enqueue(p, t, s) IN
         /\ u.sent = t.sent /\ u.base = t.base /\ u.val = t.val
         /\ u.reply = t.reply /\ u.now = t.now
         /\ u.out = Output(p, {s}, t.out)
BY DEF Enqueue, Transactions

\* It computes its value from the hash's, too.
LEMMA EnqueueExact ==
  ASSUME NEW p \in Paths, NEW t \in Transactions, TransactionsOK(t),
         NEW s \in Sessions, s \notin Ids(t.queue), t.sent > 0, Exact(p, t)
  PROVE  Exact(p, Enqueue(p, t, s))
<1> DEFINE u == Enqueue(p, t, s)
<1>1. /\ Ids(u.queue) = Ids(t.queue) \cup {s} /\ Batch(u) = Batch(t)
      /\ u.val = t.val /\ u.base = t.base /\ u.out = Output(p, {s}, t.out)
  <2>1. Ids(u.queue) = Ids(t.queue) \cup {s} /\ Batch(u) = Batch(t)
    BY EnqueueOK
  <2>2. u.val = t.val /\ u.base = t.base /\ u.out = Output(p, {s}, t.out)
    BY EnqueueValues
  <2>3. QED
    BY <2>1, <2>2
<1>2. Ids(t.queue) \in SUBSET Sessions /\ Ids(t.queue) \cap {s} = {} /\ {s} \in SUBSET Sessions
  BY FieldsOK, IdsType
<1>3. t.out = Output(p, Ids(t.queue), t.base) /\ t.base \in Value
  BY FieldsOK DEF Exact
<1>4. Output(p, {s}, t.out) = Output(p, Ids(t.queue) \cup {s}, t.base)
  BY <1>2, <1>3, OutputUnion
<1> HIDE DEF u
<1>5. Exact(p, u)
  BY <1>1, <1>4 DEF Exact
<1>6. QED
  BY <1>5 DEF u

-----------------------------------------------------------------------------
(* Sequences of outstanding writes.                                        *)

\* The domain of a sequence of writes, and its elements.
LEMMA WritesOK ==
  ASSUME NEW ws \in Seq(Writes)
  PROVE  /\ Len(ws) \in Nat /\ DOMAIN ws = 1..Len(ws)
         /\ \A i \in 1..Len(ws) : ws[i] \in Writes
BY LenProperties, ElementOfSeq

\* Writes added behind others: what is where.
LEMMA ConcatOK ==
  ASSUME NEW ws \in Seq(Writes), NEW vs \in Seq(Writes)
  PROVE  /\ ws \o vs \in Seq(Writes)
         /\ Len(ws \o vs) = Len(ws) + Len(vs)
         /\ \A i \in 1..Len(ws) : (ws \o vs)[i] = ws[i]
         /\ \A i \in (Len(ws) + 1)..(Len(ws) + Len(vs)) : (ws \o vs)[i] = vs[i - Len(ws)]
BY ConcatProperties, WritesOK

\* Neither part has a put of p: nor have they together.
LEMMA NoPutConcat ==
  ASSUME NEW p \in Paths, NEW ws \in Seq(Writes), NEW vs \in Seq(Writes),
         NoPut(p, ws), NoPut(p, vs)
  PROVE  NoPut(p, ws \o vs)
<1>1. \A i \in 1..Len(ws) : ws[i] # Put(p)
  BY WritesOK DEF NoPut
<1>2. \A i \in 1..Len(vs) : vs[i] # Put(p)
  BY WritesOK DEF NoPut
<1>3. DOMAIN (ws \o vs) = 1..(Len(ws) + Len(vs)) /\ Len(ws) \in Nat /\ Len(vs) \in Nat
  BY ConcatOK, WritesOK
<1>4. ASSUME NEW i \in (Len(ws) + 1)..(Len(ws) + Len(vs))
      PROVE  (ws \o vs)[i] # Put(p)
  <2>1. (ws \o vs)[i] = vs[i - Len(ws)]
    BY ConcatOK
  <2>2. i - Len(ws) \in 1..Len(vs)
    BY <1>3
  <2>3. QED
    BY <1>2, <2>1, <2>2
<1>5. \A i \in 1..Len(ws) : (ws \o vs)[i] # Put(p)
  BY <1>1, ConcatOK
<1>6. \A i \in DOMAIN (ws \o vs) :
        i \in 1..Len(ws) \/ i \in (Len(ws) + 1)..(Len(ws) + Len(vs))
  BY <1>3
<1>7. QED
  BY <1>4, <1>5, <1>6 DEF NoPut

\* One part has one put of p and the other none: together they have one.
LEMMA UniqueConcat ==
  ASSUME NEW p \in Paths, NEW ws \in Seq(Writes), NEW vs \in Seq(Writes),
         \/ Unique(p, ws) /\ NoPut(p, vs)
         \/ NoPut(p, ws) /\ Unique(p, vs)
  PROVE  Unique(p, ws \o vs)
<1>1. DOMAIN (ws \o vs) = 1..(Len(ws) + Len(vs)) /\ Len(ws) \in Nat /\ Len(vs) \in Nat
      /\ DOMAIN ws = 1..Len(ws) /\ DOMAIN vs = 1..Len(vs)
  BY ConcatOK, WritesOK
<1>2. SUFFICES ASSUME NEW i \in 1..(Len(ws) + Len(vs)), NEW j \in 1..(Len(ws) + Len(vs)),
                      (ws \o vs)[i] = Put(p), (ws \o vs)[j] = Put(p)
               PROVE  i = j
  BY <1>1 DEF Unique
<1>3. CASE Unique(p, ws) /\ NoPut(p, vs)
  <2>1. ASSUME NEW k \in (Len(ws) + 1)..(Len(ws) + Len(vs))
        PROVE  (ws \o vs)[k] # Put(p)
    <3>1. (ws \o vs)[k] = vs[k - Len(ws)]
      BY ConcatOK
    <3>2. k - Len(ws) \in DOMAIN vs
      BY <1>1
    <3>3. QED
      BY <1>3, <3>1, <3>2 DEF NoPut
  <2>2. i \in 1..Len(ws) /\ j \in 1..Len(ws)
    BY <1>1, <1>2, <2>1
  <2>3. ws[i] = Put(p) /\ ws[j] = Put(p)
    BY <1>2, <2>2, ConcatOK
  <2>4. QED
    BY <1>1, <1>3, <2>2, <2>3 DEF Unique
<1>4. CASE NoPut(p, ws) /\ Unique(p, vs)
  <2>1. \A k \in 1..Len(ws) : (ws \o vs)[k] # Put(p)
    BY <1>1, <1>4, ConcatOK DEF NoPut
  <2>2. i \in (Len(ws) + 1)..(Len(ws) + Len(vs)) /\ j \in (Len(ws) + 1)..(Len(ws) + Len(vs))
    BY <1>1, <1>2, <2>1
  <2>3. vs[i - Len(ws)] = Put(p) /\ vs[j - Len(ws)] = Put(p)
    BY <1>2, <2>2, ConcatOK
  <2>4. i - Len(ws) = j - Len(ws)
    BY <1>1, <1>4, <2>2, <2>3 DEF Unique
  <2>5. QED
    BY <1>1, <2>4
<1>5. QED
  BY <1>3, <1>4

\* A put is a write, and the puts of the two paths are different.
LEMMA PutOK ==
  /\ \A p \in Paths : Put(p) \in Writes /\ <<Put(p)>> \in Seq(Writes)
  /\ \A p, q \in Paths : Put(p) = Put(q) => p = q
  /\ \A p \in Paths : Put(p).type = "put"
<1>1. \A p \in Paths : Put(p) \in Writes
  BY DEF Put, Writes
<1>2. \A p, q \in Paths : Put(p) = Put(q) => p = q
  <2>1. \A p \in Paths : Put(p).path = p
    BY DEF Put
  <2>2. QED
    BY <2>1
<1>3. \A p \in Paths : Put(p).type = "put"
  BY DEF Put
<1>4. QED
  BY <1>1, <1>2, <1>3

\* What is sent for a queue: one put of its path, or nothing for no queue.
LEMMA PutsOfOK ==
  ASSUME NEW p \in Paths, NEW q
  PROVE  /\ PutsOf(p, q) \in Seq(Writes)
         /\ Unique(p, PutsOf(p, q))
         /\ q = <<>> => NoPut(p, PutsOf(p, q))
         /\ \A o \in Paths \ {p} : NoPut(o, PutsOf(p, q)) /\ Unique(o, PutsOf(p, q))
<1>1. <<>> \in Seq(Writes) /\ DOMAIN <<>> = {}
  BY EmptySeq
<1>2. <<Put(p)>> \in Seq(Writes) /\ DOMAIN <<Put(p)>> = {1} /\ <<Put(p)>>[1] = Put(p)
  BY PutOK
<1>3. \A o \in Paths : NoPut(o, <<>>) /\ Unique(o, <<>>)
  BY <1>1 DEF NoPut, Unique
<1>4. Unique(p, <<Put(p)>>)
  BY <1>2 DEF Unique
<1>5. \A o \in Paths \ {p} : NoPut(o, <<Put(p)>>) /\ Unique(o, <<Put(p)>>)
  BY <1>2, PutOK DEF NoPut, Unique
<1>6. QED
  BY <1>1, <1>2, <1>3, <1>4, <1>5 DEF PutsOf

\* Taking the put of p out leaves none of p, and the other path as it was.
LEMMA RemoveOK ==
  ASSUME NEW p \in Paths, NEW ws \in Seq(Writes), Unique(p, ws)
  PROVE  LET r == RemoveFirst(ws, Put(p)) IN
         /\ r \in Seq(Writes) /\ NoPut(p, r)
         /\ \A o \in Paths : NoPut(o, ws) => NoPut(o, r)
         /\ \A o \in Paths : Unique(o, ws) => Unique(o, r)
<1> DEFINE r == RemoveFirst(ws, Put(p))
           n == Len(ws)
<1>1. n \in Nat /\ DOMAIN ws = 1..n /\ \A i \in 1..n : ws[i] \in Writes
  BY WritesOK
<1>2. CASE \A i \in 1..n : ws[i] # Put(p)
  <2>1. r = ws
    BY <1>2 DEF RemoveFirst
  <2>2. QED
    BY <1>1, <1>2, <2>1 DEF NoPut
<1>3. CASE \E i \in 1..n : ws[i] = Put(p)
  <2>1. PICK i \in 1..n : ws[i] = Put(p)
    BY <1>3
  <2>2. {j \in 1..n : ws[j] = Put(p)} = {i}
    BY <1>1, <2>1 DEF Unique
  <2>3. Min({i}) = i
    BY <1>1 DEF Min
  <2>4. SelectInSeq(ws, LAMBDA w : w = Put(p)) = i
    BY <2>2, <2>3 DEF SelectInSeq
  <2> DEFINE a == SubSeq(ws, 1, i - 1)
             b == SubSeq(ws, i + 1, n)
  <2>5. r = a \o b
    BY <1>3, <2>4 DEF RemoveFirst, RemoveAt
  <2>6. /\ a \in Seq(Writes) /\ Len(a) = i - 1
        /\ \A k \in 1..(i - 1) : a[k] = ws[k]
    <3>1. \A k \in 1..(i - 1) : ws[k] \in Writes
      BY <1>1
    <3>2. /\ a \in Seq(Writes) /\ Len(a) = IF 1 <= i - 1 THEN i - 1 ELSE 0
          /\ \A k \in 1..(i - 1) : a[k] = ws[k]
      BY <1>1, <3>1, SubSeqProperties
    <3> HIDE DEF n, a
    <3>3. (IF 1 <= i - 1 THEN i - 1 ELSE 0) = i - 1
      <4>1. n \in Nat /\ i \in 1..n
        BY <1>1
      <4>2. CASE 1 <= i - 1
        BY <4>2
      <4>3. CASE ~(1 <= i - 1)
        BY <4>1, <4>3
      <4>4. QED
        BY <4>2, <4>3
    <3>4. QED
      BY <3>2, <3>3
  <2>7. /\ b \in Seq(Writes) /\ Len(b) = n - i
        /\ \A k \in 1..(n - i) : b[k] = ws[i + k]
    <3>1. \A k \in (i + 1)..n : ws[k] \in Writes
      BY <1>1
    <3>2. /\ b \in Seq(Writes) /\ Len(b) = IF i + 1 <= n THEN n - i ELSE 0
          /\ \A k \in 1..(n - i) : b[k] = ws[i + k]
      BY <1>1, <3>1, SubSeqProperties
    <3> HIDE DEF n, b
    <3>3. (IF i + 1 <= n THEN n - i ELSE 0) = n - i
      <4>1. n \in Nat /\ i \in 1..n
        BY <1>1
      <4>2. CASE i + 1 <= n
        BY <4>2
      <4>3. CASE ~(i + 1 <= n)
        BY <4>1, <4>3
      <4>4. QED
        BY <4>2, <4>3
    <3>4. Len(b) = n - i
      BY <3>2, <3>3
    <3>5. QED
      BY <3>2, <3>4
  <2> HIDE DEF r, a, b
  <2>8. r \in Seq(Writes) /\ DOMAIN r = 1..(n - 1)
    <3>1. r \in Seq(Writes) /\ Len(r) = Len(a) + Len(b)
      BY <2>5, <2>6, <2>7, ConcatOK
    <3>2. Len(r) = n - 1
      BY <1>1, <2>6, <2>7, <3>1
    <3>3. QED
      BY <3>1, <3>2, WritesOK
  <2>9. ASSUME NEW k \in 1..(n - 1)
        PROVE  r[k] = ws[IF k < i THEN k ELSE k + 1]
    <3>1. CASE k < i
      BY <1>1, <2>5, <2>6, <2>7, <3>1, ConcatOK
    <3>2. CASE ~(k < i)
      <4>1. k \in (Len(a) + 1)..(Len(a) + Len(b)) /\ k - Len(a) \in 1..(n - i)
        BY <1>1, <2>6, <2>7, <3>2
      <4>2. r[k] = b[k - Len(a)]
        BY <2>5, <2>6, <2>7, <4>1, ConcatOK
      <4>3. b[k - Len(a)] = ws[i + (k - Len(a))]
        BY <2>7, <4>1
      <4>4. i + (k - Len(a)) = k + 1
        BY <1>1, <2>6
      <4>5. QED
        BY <3>2, <4>2, <4>3, <4>4
    <3>3. QED
      BY <3>1, <3>2
  <2>10. \A k \in 1..(n - 1) : LET m == IF k < i THEN k ELSE k + 1 IN m \in 1..n /\ m # i
    BY <1>1
  <2>11. NoPut(p, r)
    BY <2>2, <2>8, <2>9, <2>10 DEF NoPut
  <2>12. \A o \in Paths : NoPut(o, ws) => NoPut(o, r)
    BY <1>1, <2>8, <2>9, <2>10 DEF NoPut
  <2>13. \A o \in Paths : Unique(o, ws) => Unique(o, r)
    <3>1. SUFFICES ASSUME NEW o \in Paths, Unique(o, ws),
                          NEW k \in 1..(n - 1), NEW m \in 1..(n - 1),
                          r[k] = Put(o), r[m] = Put(o)
                   PROVE  k = m
      BY <2>8 DEF Unique
    <3>2. (IF k < i THEN k ELSE k + 1) = (IF m < i THEN m ELSE m + 1)
      BY <1>1, <2>9, <2>10, <3>1 DEF Unique
    <3>3. QED
      BY <1>1, <3>2
  <2>14. QED
    BY <2>8, <2>11, <2>12, <2>13 DEF r
<1>4. QED
  BY <1>2, <1>3

\* With both puts taken out there is none.
LEMMA WithoutPutsOK ==
  ASSUME NEW ws \in Seq(Writes), \A p \in Paths : Unique(p, ws)
  PROVE  WithoutPuts(ws) \in Seq(Writes) /\ \A p \in Paths : NoPut(p, WithoutPuts(ws))
<1> DEFINE r == RemoveFirst(ws, Put(NumSessions))
<1>1. NumSessions \in Paths /\ TotalHours \in Paths
  BY DEF Paths
<1>2. r \in Seq(Writes) /\ NoPut(NumSessions, r) /\ Unique(TotalHours, r)
  BY <1>1, RemoveOK
<1>3. QED
  BY <1>1, <1>2, RemoveOK DEF WithoutPuts, Paths

\* The first write goes: the others move up by one, and if it was the put of p
\* then none of p is left.
LEMMA TailOK ==
  ASSUME NEW ws \in Seq(Writes), ws # <<>>
  PROVE  /\ Tail(ws) \in Seq(Writes) /\ Len(Tail(ws)) = Len(ws) - 1
         /\ Head(ws) = ws[1] /\ Len(ws) \in Nat \ {0}
         /\ \A i \in 1..(Len(ws) - 1) : Tail(ws)[i] = ws[i + 1]
         /\ \A p \in Paths : Unique(p, ws) => Unique(p, Tail(ws))
         /\ \A p \in Paths : Unique(p, ws) /\ Head(ws) = Put(p) => NoPut(p, Tail(ws))
         /\ \A p \in Paths : NoPut(p, ws) => NoPut(p, Tail(ws))
<1>1. Len(ws) \in Nat \ {0} /\ DOMAIN ws = 1..Len(ws)
  BY EmptySeq, LenProperties
<1>2. /\ Tail(ws) \in Seq(Writes) /\ Len(Tail(ws)) = Len(ws) - 1
      /\ \A i \in 1..(Len(ws) - 1) : Tail(ws)[i] = ws[i + 1]
  BY HeadTailProperties
<1>3. DOMAIN Tail(ws) = 1..(Len(ws) - 1)
  BY <1>2, LenProperties
<1>4. Head(ws) = ws[1]
  BY <1>1, HeadTailOfSubSeq, SubSeqFull
<1>5. \A p \in Paths : Unique(p, ws) => Unique(p, Tail(ws))
  BY <1>1, <1>2, <1>3 DEF Unique
<1>6. \A p \in Paths : Unique(p, ws) /\ Head(ws) = Put(p) => NoPut(p, Tail(ws))
  BY <1>1, <1>2, <1>3, <1>4 DEF Unique, NoPut
<1>7. \A p \in Paths : NoPut(p, ws) => NoPut(p, Tail(ws))
  BY <1>1, <1>2, <1>3 DEF NoPut
<1>8. QED
  BY <1>1, <1>2, <1>4, <1>5, <1>6, <1>7

-----------------------------------------------------------------------------
(* Puts and the queues they stand for.                                     *)

\* The first write goes, answered: the others still agree with their queues.
LEMMA PutsTail ==
  ASSUME NEW ws \in Seq(Writes), NEW n \in Nat, n > 0, NEW ts, PutsAgree(ws, n, ts)
  PROVE  /\ ws # <<>> /\ Tail(ws) \in Seq(Writes)
         /\ PutsAgree(Tail(ws), n - 1, ts)
<1>1. Len(ws) \in Nat /\ n <= Len(ws) /\ DOMAIN ws = 1..Len(ws)
  BY LenProperties DEF PutsAgree
<1>2. ws # <<>>
  BY <1>1
<1>3. /\ Tail(ws) \in Seq(Writes) /\ Len(Tail(ws)) = Len(ws) - 1
      /\ \A i \in 1..(Len(ws) - 1) : Tail(ws)[i] = ws[i + 1]
      /\ \A p \in Paths : Unique(p, ws) => Unique(p, Tail(ws))
  BY <1>2, TailOK
<1>4. DOMAIN Tail(ws) = 1..(Len(ws) - 1)
  BY <1>3, LenProperties
<1>5. ASSUME NEW p \in Paths, NEW i \in 1..(Len(ws) - 1), Tail(ws)[i] = Put(p)
      PROVE  ts[p].sent > 0 /\ (i <= n - 1 <=> ts[p].reply # "none")
  <2>1. i + 1 \in DOMAIN ws /\ ws[i + 1] = Put(p)
    BY <1>1, <1>3, <1>5
  <2>2. i <= n - 1 <=> i + 1 <= n
    OBVIOUS
  <2>3. QED
    BY <2>1, <2>2 DEF PutsAgree
<1>6. QED
  BY <1>1, <1>2, <1>3, <1>4, <1>5 DEF PutsAgree

\* Writes added at the end: each put among them is the only one of its path and
\* its queue waits for the answer.
LEMMA PutsAppend ==
  ASSUME NEW ws \in Seq(Writes), NEW vs \in Seq(Writes), NEW n \in Nat, NEW ts,
         PutsAgree(ws, n, ts),
         \A p \in Paths : \/ NoPut(p, vs)
                          \/ /\ NoPut(p, ws) /\ Unique(p, vs)
                             /\ ts[p].sent > 0 /\ ts[p].reply = "none"
  PROVE  ws \o vs \in Seq(Writes) /\ PutsAgree(ws \o vs, n, ts)
<1>1. /\ Len(ws) \in Nat /\ Len(vs) \in Nat /\ n <= Len(ws)
      /\ DOMAIN ws = 1..Len(ws) /\ DOMAIN vs = 1..Len(vs)
  BY WritesOK DEF PutsAgree
<1>2. /\ ws \o vs \in Seq(Writes) /\ Len(ws \o vs) = Len(ws) + Len(vs)
      /\ DOMAIN (ws \o vs) = 1..(Len(ws) + Len(vs))
  BY <1>1, ConcatOK, WritesOK
<1>3. ASSUME NEW p \in Paths
      PROVE  Unique(p, ws \o vs)
  BY UniqueConcat DEF PutsAgree
<1>4. ASSUME NEW p \in Paths, NEW i \in 1..(Len(ws) + Len(vs)), (ws \o vs)[i] = Put(p)
      PROVE  ts[p].sent > 0 /\ (i <= n <=> ts[p].reply # "none")
  <2>1. CASE i <= Len(ws)
    <3>1. i \in DOMAIN ws /\ ws[i] = Put(p)
      BY <1>1, <1>4, <2>1, ConcatOK
    <3>2. QED
      BY <3>1 DEF PutsAgree
  <2>2. CASE i > Len(ws)
    <3>1. i - Len(ws) \in DOMAIN vs /\ i \in (Len(ws) + 1)..(Len(ws) + Len(vs))
      BY <1>1, <2>2
    <3>2. vs[i - Len(ws)] = Put(p)
      BY <1>4, <3>1, ConcatOK
    <3>3. ~NoPut(p, vs)
      BY <3>1, <3>2 DEF NoPut
    <3>4. QED
      BY <1>1, <2>2, <3>3
  <2>3. QED
    BY <1>1, <2>1, <2>2
<1>5. QED
  BY <1>1, <1>2, <1>3, <1>4 DEF PutsAgree

\* Queues change, but not where a put is outstanding.
LEMMA PutsQueues ==
  ASSUME NEW ws \in Seq(Writes), NEW n \in Nat, NEW ts, NEW us, PutsAgree(ws, n, ts),
         \A p \in Paths : \/ NoPut(p, ws)
                          \/ us[p].sent = ts[p].sent /\ us[p].reply = ts[p].reply
  PROVE  PutsAgree(ws, n, us)
BY DEF PutsAgree, NoPut

\* The next write is answered: if it is a put, its queue knows the reply.
LEMMA PutsServed ==
  ASSUME NEW ws \in Seq(Writes), NEW n \in Nat, n < Len(ws), NEW ts, NEW us,
         PutsAgree(ws, n, ts),
         \A p \in Paths : us[p].sent = ts[p].sent,
         \A p \in Paths : IF ws[n + 1] = Put(p) THEN us[p].reply # "none"
                          ELSE us[p].reply = ts[p].reply
  PROVE  PutsAgree(ws, n + 1, us)
<1>1. Len(ws) \in Nat /\ DOMAIN ws = 1..Len(ws) /\ n + 1 \in DOMAIN ws
  BY WritesOK
<1>2. ASSUME NEW p \in Paths, NEW i \in DOMAIN ws, ws[i] = Put(p)
      PROVE  us[p].sent > 0 /\ (i <= n + 1 <=> us[p].reply # "none")
  <2>1. ts[p].sent > 0 /\ (i <= n <=> ts[p].reply # "none")
    BY <1>2 DEF PutsAgree
  <2>2. CASE i = n + 1
    BY <1>1, <1>2, <2>1, <2>2
  <2>3. CASE i # n + 1
    <3>1. ws[n + 1] # Put(p)
      BY <1>1, <1>2, <2>3 DEF PutsAgree, Unique
    <3>2. i <= n + 1 <=> i <= n
      BY <1>1, <2>3
    <3>3. QED
      BY <2>1, <3>1, <3>2
  <2>4. QED
    BY <2>2, <2>3
<1>3. QED
  BY <1>1, <1>2 DEF PutsAgree

\* The sessions a run writes are writes, and none is a put.
LEMMA SessionPutsOK ==
  ASSUME NEW d \in Devices, NEW p, NEW n \in Nat, NEW v \in Value,
         n > 0 => field[d] \in Sessions
  PROVE  /\ SessionPuts(d, p, n, v) \in Seq(Writes)
         /\ \A o \in Paths : NoPut(o, SessionPuts(d, p, n, v))
<1> DEFINE ws == [i \in 1..n |-> SessionPut(d, v + i)]
<1>1. CASE p = NumSessions /\ v # Null
  <2>1. v \in Nat
    BY <1>1 DEF Value
  <2>2. ASSUME NEW i \in 1..n
        PROVE  SessionPut(d, v + i) \in Writes /\ SessionPut(d, v + i).type = "session"
    <3>1. v + i \in Keys /\ field[d] \in Sessions
      BY <2>1 DEF Keys
    <3>2. QED
      BY <3>1 DEF SessionPut, Writes
  <2>3. ws \in [1..n -> Writes]
    BY <2>2
  <2>4. ws \in Seq(Writes) /\ DOMAIN ws = 1..n
    BY <2>3, SeqDef
  <2>5. \A o \in Paths : NoPut(o, ws)
    BY <2>2, <2>4, PutOK DEF NoPut
  <2>6. QED
    BY <1>1, <2>4, <2>5 DEF SessionPuts
<1>2. CASE ~(p = NumSessions /\ v # Null)
  <2>1. SessionPuts(d, p, n, v) = <<>>
    BY <1>2 DEF SessionPuts
  <2>2. <<>> \in Seq(Writes) /\ DOMAIN <<>> = {}
    BY EmptySeq
  <2>3. QED
    BY <2>1, <2>2 DEF NoPut
<1>3. QED
  BY <1>1, <1>2

\* The put of one path is no session, and no put of another path.
LEMMA OnePutOK ==
  ASSUME NEW p \in Paths
  PROVE  /\ <<Put(p)>> \in Seq(Writes) /\ Unique(p, <<Put(p)>>)
         /\ \A o \in Paths \ {p} : NoPut(o, <<Put(p)>>)
<1>1. <<Put(p)>> \in Seq(Writes) /\ DOMAIN <<Put(p)>> = {1} /\ <<Put(p)>>[1] = Put(p)
  BY PutOK
<1>2. QED
  BY <1>1, PutOK DEF NoPut, Unique

-----------------------------------------------------------------------------
(* The invariant: where it holds at first, and what a device keeps of it    *)
(* while another one acts.                                                  *)

\* Nothing is under way at first, and nothing is counted.
LEMMA InitOK == Init => IInv
<1> SUFFICES ASSUME Init
             PROVE  IInv
  OBVIOUS
<1>1. \A p \in Paths : Idle \in Transactions
  BY IdleOK
<1>2. <<>> \in Seq(Writes)
  BY EmptySeq
<1>3. TypeOK
  BY <1>1, <1>2, ConstantsOK DEF Init, TypeOK, Value
<1>5. CountedOK
  BY DEF Init, CountedOK
<1>6. ASSUME NEW d \in Devices
      PROVE  DeviceOK(d)
  <2>1. PutsAgree(outstanding[d], answered[d], txn[d])
    <3>1. DOMAIN <<>> = {} /\ Len(<<>>) = 0
      OBVIOUS
    <3>2. QED
      BY <3>1 DEF Init, PutsAgree, Unique
  <2>2. FieldOK(d)
    BY DEF Init, FieldOK
  <2>3. OnceOK(d)
    BY IdleOK DEF Init, OnceOK, Asked
  <2>4. \A p \in Paths : TransactionsOK(txn[d][p])
    BY IdleOK DEF Init
  <2>5. QED
    BY <2>1, <2>2, <2>3, <2>4 DEF DeviceOK
<1>7. QED
  BY <1>3, <1>5, <1>6 DEF IInv

\* A device nothing happened to keeps its part of the invariant while others
\* start, stop and count sessions of their own.
LEMMA OtherDeviceOK ==
  ASSUME NEW e \in Devices, DeviceOK(e),
         outstanding'[e] = outstanding[e], answered'[e] = answered[e],
         txn'[e] = txn[e], field'[e] = field[e],
         popups'[e] = popups[e], reading'[e] = reading[e],
         \A s \in Sessions : /\ stage[s] = "ended" => stage'[s] = "ended"
                             /\ stage[s] # "new" => stage'[s] # "new",
         \A p \in Paths : \A s \in counted'[p] : Owner[s] = e => s \in counted[p],
         TypeOK
  PROVE  DeviceOK(e)'
<1>1. PutsAgree(outstanding[e], answered[e], txn[e])'
  BY DEF DeviceOK, PutsAgree
<1>2. FieldOK(e)'
  BY DEF DeviceOK, FieldOK, TypeOK
<1>3. OnceOK(e)'
  <2>1. \A p \in Paths : Ids(txn[e][p].queue) \in SUBSET Sessions
    BY FieldsOK, IdsType DEF TypeOK
  <2>2. Asked(e)' = Asked(e) /\ Asked(e) \in SUBSET Sessions
    BY DEF Asked, TypeOK
  <2>3. (popups[e] \cap reading[e] = {})'
    BY DEF DeviceOK, OnceOK
  <2>4. \A s \in Asked(e) : (Owner[s] = e /\ stage[s] = "ended" /\ field[e] # Null)'
    BY <2>2 DEF DeviceOK, OnceOK
  <2>5. ASSUME NEW p \in Paths
        PROVE  /\ \A s \in Asked(e) : (s \notin counted[p] /\ s \notin Ids(txn[e][p].queue))'
               /\ \A s \in Ids(txn[e][p].queue) :
                    (/\ Owner[s] = e /\ stage[s] = "ended" /\ field[e] # Null
                     /\ s \in counted[p] => txn[e][p].reply = "ok" /\ s \in Batch(txn[e][p]))'
    BY <2>1, <2>2 DEF DeviceOK, OnceOK
  <2>6. QED
    BY <2>2, <2>3, <2>4, <2>5 DEF OnceOK
<1>4. \A p \in Paths : TransactionsOK(txn[e][p])'
  BY DEF DeviceOK
<1>5. QED
  BY <1>1, <1>2, <1>3, <1>4 DEF DeviceOK

-----------------------------------------------------------------------------
(* The user's actions.                                                     *)

\* START leaves the invariant: a new session has been asked about nowhere.
LEMMA StartOK ==
  ASSUME IInv, NEW d \in Devices, Start(d)
  PROVE  IInv'
<1> USE DEF server, client
<1>1. TypeOK /\ \A e \in Devices : DeviceOK(e)
  BY DEF IInv
<1>2. PICK s \in Sessions :
        /\ Owner[s] = d /\ stage[s] = "new"
        /\ stage' = [stage EXCEPT ![s] = "running"]
        /\ field' = [field EXCEPT ![d] = s]
  BY DEF Start
<1>3. UNCHANGED <<rec, stored, counted, conn, outstanding, answered, cache, txn,
                  popups, reading, viewing, toasted, faults>>
  BY DEF Start
<1>4. TypeOK'
  BY <1>1, <1>2, <1>3 DEF TypeOK
<1>6. \A r \in Sessions : /\ stage[r] = "ended" => stage'[r] = "ended"
                          /\ stage[r] # "new" => stage'[r] # "new"
  BY <1>1, <1>2 DEF TypeOK
<1>7. CountedOK'
  BY <1>1, <1>3, <1>6 DEF IInv, CountedOK, TypeOK
<1>8. ASSUME NEW e \in Devices
      PROVE  DeviceOK(e)'
  <2>1. CASE e # d
    <3>1. field'[e] = field[e]
      BY <1>1, <1>2, <2>1 DEF TypeOK
    <3>2. QED
      BY <1>1, <1>3, <1>6, <3>1, OtherDeviceOK
  <2>2. CASE e = d
    <3>1. field'[d] = s /\ s # Null /\ stage'[s] = "running"
      BY <1>1, <1>2, ConstantsOK DEF TypeOK
    <3>2. PutsAgree(outstanding[d], answered[d], txn[d])'
      BY <1>1, <1>3 DEF DeviceOK, PutsAgree
    <3>3. FieldOK(d)'
      BY <1>2, <3>1 DEF FieldOK
    <3>4. OnceOK(d)'
      <4>1. \A p \in Paths : Ids(txn[d][p].queue) \in SUBSET Sessions
        BY <1>1, FieldsOK, IdsType DEF TypeOK
      <4>2. Asked(d) \in SUBSET Sessions
        BY <1>1 DEF TypeOK, Asked
      <4>3. OnceOK(d)
        BY <1>1 DEF DeviceOK
      <4>4. QED
        BY <1>3, <1>6, <3>1, <4>1, <4>2, <4>3 DEF OnceOK, Asked
    <3>5. \A p \in Paths : TransactionsOK(txn[d][p])'
      BY <1>1, <1>3 DEF DeviceOK
    <3>6. QED
      BY <2>2, <3>2, <3>3, <3>4, <3>5 DEF DeviceOK
  <2>3. QED
    BY <2>1, <2>2
<1>9. QED
  BY <1>4, <1>7, <1>8 DEF IInv

\* STOP leaves the invariant: the session that ends was running, so it has not
\* been asked about before.
LEMMA StopOK ==
  ASSUME IInv, NEW d \in Devices, Stop(d)
  PROVE  IInv'
<1> USE DEF server, client
<1> DEFINE s == field[d]
<1>1. TypeOK /\ \A e \in Devices : DeviceOK(e)
  BY DEF IInv
<1>2. /\ s \in Sessions /\ s # Null /\ stage[s] = "running"
      /\ stage' = [stage EXCEPT ![s] = "ended"]
      /\ \/ popups' = [popups EXCEPT ![d] = @ \cup {s}]
         \/ popups' = popups
  BY <1>1 DEF Stop, Running, TypeOK
<1>3. UNCHANGED <<rec, stored, counted, conn, outstanding, answered, cache, txn,
                  field, reading, viewing, toasted, faults>>
  BY DEF Stop
<1>4. TypeOK'
  <2>1. popups' \in [Devices -> SUBSET Sessions]
    <3>1. popups \in [Devices -> SUBSET Sessions] /\ popups[d] \cup {s} \in SUBSET Sessions
      BY <1>1, <1>2 DEF TypeOK
    <3>2. QED
      BY <1>2, <3>1
  <2>2. stage' \in [Sessions -> {"new", "running", "ended"}]
    BY <1>1, <1>2 DEF TypeOK
  <2>3. QED
    BY <1>1, <1>3, <2>1, <2>2 DEF TypeOK
<1>6. \A r \in Sessions : /\ stage[r] = "ended" => stage'[r] = "ended"
                          /\ stage[r] # "new" => stage'[r] # "new"
  BY <1>1, <1>2 DEF TypeOK
<1>7. CountedOK'
  BY <1>1, <1>3, <1>6 DEF IInv, CountedOK, TypeOK
<1>8. ASSUME NEW e \in Devices
      PROVE  DeviceOK(e)'
  <2>1. CASE e # d
    <3>1. popups'[e] = popups[e]
      BY <1>1, <1>2, <2>1 DEF TypeOK
    <3>2. QED
      BY <1>1, <1>3, <1>6, <3>1, OtherDeviceOK
  <2>2. CASE e = d
    <3>1. popups'[d] \in {popups[d], popups[d] \cup {s}} /\ stage'[s] = "ended"
      BY <1>1, <1>2 DEF TypeOK
    <3>2. PutsAgree(outstanding[d], answered[d], txn[d])'
      BY <1>1, <1>3 DEF DeviceOK, PutsAgree
    <3>3. FieldOK(d)'
      BY <1>1, <1>3, <1>6 DEF DeviceOK, FieldOK, TypeOK
    <3>4. OnceOK(d)'
      <4>1. \A p \in Paths : Ids(txn[d][p].queue) \in SUBSET Sessions
        BY <1>1, FieldsOK, IdsType DEF TypeOK
      <4>2. Asked(d) \in SUBSET Sessions
        BY <1>1 DEF TypeOK, Asked
      <4>3. OnceOK(d) /\ FieldOK(d)
        BY <1>1 DEF DeviceOK
      <4>4. Owner[s] = d /\ s \notin Asked(d) /\ \A p \in Paths : s \notin counted[p]
                         /\ s \notin Ids(txn[d][p].queue)
        BY <1>2, <4>3 DEF OnceOK, FieldOK, IInv, CountedOK
      <4>5. Asked(d)' \subseteq Asked(d) \cup {s}
        BY <1>3, <3>1 DEF Asked
      <4>6. (popups[d] \cap reading[d] = {})'
        BY <1>3, <3>1, <4>3, <4>4 DEF OnceOK, Asked
      <4>7. QED
        BY <1>2, <1>3, <1>6, <3>1, <4>1, <4>2, <4>3, <4>4, <4>5, <4>6 DEF OnceOK
    <3>5. \A p \in Paths : TransactionsOK(txn[d][p])'
      BY <1>1, <1>3 DEF DeviceOK
    <3>6. QED
      BY <2>2, <3>2, <3>3, <3>4, <3>5 DEF DeviceOK
  <2>3. QED
    BY <2>1, <2>2
<1>9. QED
  BY <1>4, <1>7, <1>8 DEF IInv

\* YES and NO leave the invariant: a session in a popup goes to the single read
\* or nowhere.
LEMMA PopupOK ==
  ASSUME IInv, NEW d \in Devices, NEW s \in Sessions, Submit(d, s) \/ Decline(d, s)
  PROVE  IInv'
<1> USE DEF server, client
<1>1. TypeOK /\ \A e \in Devices : DeviceOK(e)
  BY DEF IInv
<1>2. /\ s \in popups[d]
      /\ popups' = [popups EXCEPT ![d] = @ \ {s}]
      /\ reading' \in {reading, [reading EXCEPT ![d] = @ \cup {s}]}
      /\ toasted' \in {toasted, toasted \cup {s}}
  BY DEF Submit, Decline
<1>3. UNCHANGED <<rec, stored, counted, conn, outstanding, answered, cache, txn,
                  stage, field, viewing, faults>>
  BY DEF Submit, Decline
<1>4. TypeOK'
  <2>1. popups' \in [Devices -> SUBSET Sessions]
    <3>1. popups \in [Devices -> SUBSET Sessions] /\ popups[d] \ {s} \in SUBSET Sessions
      BY <1>1 DEF TypeOK
    <3>2. QED
      BY <1>2, <3>1
  <2>2. reading' \in [Devices -> SUBSET Sessions] /\ toasted' \subseteq Sessions
    <3>1. reading \in [Devices -> SUBSET Sessions] /\ reading[d] \cup {s} \in SUBSET Sessions
          /\ toasted \subseteq Sessions
      BY <1>1 DEF TypeOK
    <3>2. QED
      BY <1>2, <3>1
  <2>3. QED
    BY <1>1, <1>3, <2>1, <2>2 DEF TypeOK
<1>6. CountedOK'
  BY <1>3 DEF IInv, CountedOK
<1>7. ASSUME NEW e \in Devices
      PROVE  DeviceOK(e)'
  <2>1. CASE e # d
    <3>1. popups'[e] = popups[e] /\ reading'[e] = reading[e]
      BY <1>1, <1>2, <2>1 DEF TypeOK
    <3>2. QED
      BY <1>1, <1>3, <3>1, OtherDeviceOK
  <2>2. CASE e = d
    <3>1. popups'[d] = popups[d] \ {s} /\ reading'[d] \in {reading[d], reading[d] \cup {s}}
      BY <1>1, <1>2 DEF TypeOK
    <3>2. PutsAgree(outstanding[d], answered[d], txn[d])' /\ FieldOK(d)'
      BY <1>1, <1>3 DEF DeviceOK, PutsAgree, FieldOK
    <3>3. OnceOK(d)'
      BY <1>1, <1>2, <1>3, <3>1 DEF DeviceOK, OnceOK, Asked
    <3>4. \A p \in Paths : TransactionsOK(txn[d][p])'
      BY <1>1, <1>3 DEF DeviceOK
    <3>5. QED
      BY <2>2, <3>2, <3>3, <3>4 DEF DeviceOK
  <2>3. QED
    BY <2>1, <2>2
<1>8. QED
  BY <1>4, <1>6, <1>7 DEF IInv

-----------------------------------------------------------------------------
(* The actions of the network and the server.                              *)

\* The invariant of a device whose queues did not change, when nothing else of
\* it did but its outstanding writes.
LEMMA WritesStepOK ==
  ASSUME IInv, NEW d \in Devices,
         UNCHANGED <<rec, counted, stage, field, popups, reading, txn>>,
         outstanding' = [outstanding EXCEPT ![d] = outstanding'[d]],
         answered' = [answered EXCEPT ![d] = answered'[d]],
         PutsAgree(outstanding'[d], answered'[d], txn[d]),
         TypeOK'
  PROVE  IInv'
<1>1. TypeOK /\ \A e \in Devices : DeviceOK(e)
  BY DEF IInv
<1>2. ASSUME NEW e \in Devices
      PROVE  DeviceOK(e)'
  <2>1. CASE e # d
    <3>1. outstanding'[e] = outstanding[e] /\ answered'[e] = answered[e]
      BY <1>1, <2>1 DEF TypeOK
    <3>2. QED
      BY <1>1, <3>1, OtherDeviceOK
  <2>2. CASE e = d
    <3>1. PutsAgree(outstanding[d], answered[d], txn[d])'
      OBVIOUS
    <3>2. FieldOK(d)' /\ OnceOK(d)'
      BY <1>1 DEF DeviceOK, FieldOK, OnceOK, Asked
    <3>3. \A p \in Paths : TransactionsOK(txn[d][p])'
      BY <1>1 DEF DeviceOK
    <3>4. QED
      BY <2>2, <3>1, <3>2, <3>3 DEF DeviceOK
  <2>3. QED
    BY <2>1, <2>2
<1>3. CountedOK'
  BY DEF IInv, CountedOK
<1>4. QED
  BY <1>2, <1>3 DEF IInv

\* The opening of the history page leaves the invariant: it only starts a read.
LEMMA ReadHistoryOK ==
  ASSUME IInv, NEW d \in Devices, ReadHistory(d)
  PROVE  IInv'
<1> USE DEF server, client
<1>1. TypeOK /\ DeviceOK(d)
  BY DEF IInv
<1>2. /\ viewing' = [viewing EXCEPT ![d] = TRUE]
      /\ UNCHANGED <<rec, stored, counted, conn, outstanding, answered, cache, txn, stage,
                     field, popups, reading, toasted, faults>>
  BY DEF ReadHistory
<1>3. TypeOK'
  <2>1. viewing' \in [Devices -> BOOLEAN]
    BY <1>1, <1>2 DEF TypeOK
  <2>2. QED
    BY <1>1, <1>2, <2>1 DEF TypeOK
<1>4. outstanding' = [outstanding EXCEPT ![d] = outstanding'[d]]
      /\ answered' = [answered EXCEPT ![d] = answered'[d]]
  BY <1>1, <1>2 DEF TypeOK
<1>5. PutsAgree(outstanding'[d], answered'[d], txn[d])
  BY <1>1, <1>2 DEF DeviceOK
<1>6. QED
  BY <1>2, <1>3, <1>4, <1>5, WritesStepOK

\* The end of its read leaves the invariant: it changes only what is cached.
LEMMA HistoryShownOK ==
  ASSUME IInv, NEW d \in Devices, HistoryShown(d)
  PROVE  IInv'
<1> USE DEF server
<1> DEFINE kept == [p \in Paths |-> Keep(reading[d] # {}, txn[d][p].queue, cache[d][p])]
<1>1. TypeOK /\ DeviceOK(d)
  BY DEF IInv
<1>2. /\ viewing' = [viewing EXCEPT ![d] = FALSE]
      /\ cache' = [cache EXCEPT ![d] = kept]
      /\ UNCHANGED <<rec, stored, counted, conn, outstanding, answered, txn, stage,
                     field, popups, reading, toasted, faults>>
  BY DEF HistoryShown
<1>3. kept \in [Paths -> Value]
  BY <1>1 DEF Keep, Value, TypeOK
<1>4. TypeOK'
  <2> HIDE DEF kept
  <2>1. viewing' \in [Devices -> BOOLEAN] /\ cache' \in [Devices -> [Paths -> Value]]
    BY <1>1, <1>2, <1>3 DEF TypeOK
  <2>2. QED
    BY <1>1, <1>2, <2>1 DEF TypeOK
<1>5. outstanding' = [outstanding EXCEPT ![d] = outstanding'[d]]
      /\ answered' = [answered EXCEPT ![d] = answered'[d]]
  BY <1>1, <1>2 DEF TypeOK
<1>6. PutsAgree(outstanding'[d], answered'[d], txn[d])
  BY <1>1, <1>2 DEF DeviceOK
<1>7. QED
  BY <1>2, <1>4, <1>5, <1>6, WritesStepOK

\* A data message leaves the invariant: it changes only what is cached.
LEMMA DataUpdateOK ==
  ASSUME IInv, NEW d \in Devices, DataUpdate(d)
  PROVE  IInv'
<1> USE DEF server, app
<1>1. TypeOK /\ \A e \in Devices : DeviceOK(e)
  BY DEF IInv
<1>2. /\ cache' = [cache EXCEPT ![d] =
           [p \in Paths |-> Keep(Listening(d), txn[d][p].queue, rec[p])]]
      /\ UNCHANGED <<rec, stored, counted, conn, outstanding, answered, txn, stage,
                     field, popups, reading, viewing, toasted, faults>>
  BY DEF DataUpdate
<1>3. \A p \in Paths : Keep(Listening(d), txn[d][p].queue, rec[p]) \in Value
  BY <1>1 DEF Keep, Value, TypeOK
<1>4. cache' \in [Devices -> [Paths -> Value]]
  <2>1. cache \in [Devices -> [Paths -> Value]]
    BY <1>1 DEF TypeOK
  <2>2. QED
    BY <1>2, <1>3, <2>1
<1>5. TypeOK'
  BY <1>1, <1>2, <1>4 DEF TypeOK
<1>6. outstanding' = [outstanding EXCEPT ![d] = outstanding'[d]]
      /\ answered' = [answered EXCEPT ![d] = answered'[d]]
  BY <1>1, <1>2 DEF TypeOK
<1>7. PutsAgree(outstanding'[d], answered'[d], txn[d])
  BY <1>1, <1>2 DEF DeviceOK
<1>8. QED
  BY <1>2, <1>5, <1>6, <1>7, WritesStepOK

\* The answer to an ordinary write leaves the invariant: no put goes with it.
LEMMA AckSetOK ==
  ASSUME IInv, NEW d \in Devices, AckSet(d)
  PROVE  IInv'
<1> USE DEF server, app
<1> DEFINE ws == outstanding[d]
           n == answered[d]
<1>1. /\ TypeOK /\ ws \in Seq(Writes) /\ n \in Nat /\ n > 0
      /\ PutsAgree(ws, n, txn[d])
  BY DEF IInv, DeviceOK, TypeOK, AckSet
<1>2. /\ outstanding' = [outstanding EXCEPT ![d] = Tail(ws)]
      /\ answered' = [answered EXCEPT ![d] = n - 1]
      /\ UNCHANGED <<rec, stored, counted, conn, cache, txn, stage, field, popups,
                     reading, viewing, toasted, faults>>
  BY DEF AckSet
<1>3. Tail(ws) \in Seq(Writes) /\ PutsAgree(Tail(ws), n - 1, txn[d]) /\ n - 1 \in Nat
  BY <1>1, PutsTail
<1>4. outstanding'[d] = Tail(ws) /\ answered'[d] = n - 1
  BY <1>1, <1>2 DEF TypeOK
<1>5. TypeOK'
  <2>1. outstanding' \in [Devices -> Seq(Writes)] /\ answered' \in [Devices -> Nat]
    BY <1>1, <1>2, <1>3 DEF TypeOK
  <2>2. QED
    BY <1>1, <1>2, <2>1 DEF TypeOK
<1>6. QED
  BY <1>2, <1>3, <1>4, <1>5, WritesStepOK

\* The server's taking a session leaves the invariant: it is not the next put.
LEMMA ServerSetOK ==
  ASSUME IInv, NEW d \in Devices, ServerSet(d)
  PROVE  IInv'
<1> USE DEF client, app
<1> DEFINE ws == outstanding[d]
           n == answered[d]
           w == NextWrite(d)
<1>1. /\ TypeOK /\ ws \in Seq(Writes) /\ n \in Nat /\ n < Len(ws)
      /\ PutsAgree(ws, n, txn[d])
  BY DEF IInv, DeviceOK, TypeOK, ServerSet, HasWrite
<1>2. /\ answered' = [answered EXCEPT ![d] = n + 1]
      /\ stored' = [k \in DOMAIN stored \cup {w.key} |->
           IF k = w.key THEN [s |-> w.s, ended |-> w.ended] ELSE stored[k]]
      /\ UNCHANGED <<rec, counted, conn, outstanding, cache, txn, stage, field, popups,
                     reading, viewing, toasted, faults>>
  BY DEF ServerSet
<1>3. w \in Writes /\ w.type = "session" /\ w = ws[n + 1]
  <2>1. n + 1 \in 1..Len(ws)
    BY <1>1, WritesOK
  <2>2. QED
    BY <1>1, <2>1, WritesOK DEF NextWrite, ServerSet
<1>4. w.key \in Keys /\ w.s \in Sessions /\ w.ended \in BOOLEAN
  BY <1>3 DEF Writes
<1>5. TypeOK'
  <2>1. answered' \in [Devices -> Nat]
    BY <1>1, <1>2 DEF TypeOK
  <2>2. DOMAIN stored' \subseteq Keys
        /\ \A k \in DOMAIN stored' : stored'[k] \in [s : Sessions, ended : BOOLEAN]
    BY <1>1, <1>2, <1>4 DEF TypeOK
  <2>3. QED
    BY <1>1, <1>2, <2>1, <2>2 DEF TypeOK
<1>6. PutsAgree(ws, n + 1, txn[d])
  <2>1. \A p \in Paths : ws[n + 1] # Put(p)
    BY <1>3, PutOK
  <2>2. QED
    BY <1>1, <2>1, PutsServed
<1>7. outstanding'[d] = ws /\ answered'[d] = n + 1
      /\ outstanding' = [outstanding EXCEPT ![d] = outstanding'[d]]
  BY <1>1, <1>2 DEF TypeOK
<1>8. QED
  BY <1>2, <1>5, <1>6, <1>7, WritesStepOK

\* Coming back online leaves the invariant.
LEMMA ReconnectOK ==
  ASSUME IInv, NEW d \in Devices, Reconnect(d)
  PROVE  IInv'
<1> USE DEF server, app
<1>1. TypeOK /\ DeviceOK(d)
  BY DEF IInv
<1>2. /\ conn' = [conn EXCEPT ![d] = TRUE]
      /\ UNCHANGED <<rec, stored, counted, outstanding, answered, cache, txn, stage,
                     field, popups, reading, viewing, toasted, faults>>
  BY DEF Reconnect
<1>3. TypeOK'
  <2>1. conn' \in [Devices -> BOOLEAN]
    BY <1>1, <1>2 DEF TypeOK
  <2>2. QED
    BY <1>1, <1>2, <2>1 DEF TypeOK
<1>4. outstanding' = [outstanding EXCEPT ![d] = outstanding'[d]]
      /\ answered' = [answered EXCEPT ![d] = answered'[d]]
  BY <1>1, <1>2 DEF TypeOK
<1>5. PutsAgree(outstanding'[d], answered'[d], txn[d])
  BY <1>1, <1>2 DEF DeviceOK
<1>6. QED
  BY <1>2, <1>3, <1>4, <1>5, WritesStepOK

-----------------------------------------------------------------------------
(* The actions that change transaction queues.                             *)

\* The invariant after a step of d that starts, completes, reruns or gives up
\* transactions of d and counts nothing: every queue is in order and holds
\* submissions of d that are not counted.
LEMMA QueueStepOK ==
  ASSUME IInv, NEW d \in Devices,
         UNCHANGED <<rec, counted, stage>>,
         \A e \in Devices \ {d} :
            /\ outstanding'[e] = outstanding[e] /\ answered'[e] = answered[e]
            /\ txn'[e] = txn[e] /\ field'[e] = field[e]
            /\ popups'[e] = popups[e] /\ reading'[e] = reading[e],
         PutsAgree(outstanding[d], answered[d], txn[d])',
         FieldOK(d)', OnceOK(d)',
         \A p \in Paths : TransactionsOK(txn[d][p])',
         TypeOK'
  PROVE  IInv'
<1>1. TypeOK /\ \A e \in Devices : DeviceOK(e)
  BY DEF IInv
<1>2. ASSUME NEW e \in Devices
      PROVE  DeviceOK(e)'
  <2>1. CASE e # d
    BY <1>1, <2>1, OtherDeviceOK
  <2>2. CASE e = d
    BY <2>2 DEF DeviceOK
  <2>3. QED
    BY <2>1, <2>2
<1>3. CountedOK'
  BY DEF IInv, CountedOK
<1>4. QED
  BY <1>2, <1>3 DEF IInv

\* When the queue of p becomes r, a part of what it was that is not counted, and
\* nothing is asked, a session is still submitted and counted at most once.
LEMMA OnceStepOK ==
  ASSUME IInv, NEW d \in Devices, NEW p \in Paths,
         UNCHANGED <<counted, stage, field, popups, reading>>,
         \A o \in Paths \ {p} : txn'[d][o] = txn[d][o],
         Ids(txn'[d][p].queue) \subseteq Ids(txn[d][p].queue) \ counted[p]
  PROVE  OnceOK(d)'
<1>1. OnceOK(d) /\ Asked(d)' = Asked(d)
  BY DEF IInv, DeviceOK, Asked
<1>2. (popups[d] \cap reading[d] = {})'
      /\ \A s \in Asked(d) : (Owner[s] = d /\ stage[s] = "ended" /\ field[d] # Null)'
  BY <1>1 DEF OnceOK
<1>3. ASSUME NEW o \in Paths
      PROVE  /\ \A s \in Asked(d) : (s \notin counted[o] /\ s \notin Ids(txn[d][o].queue))'
             /\ \A s \in Ids(txn'[d][o].queue) :
                  (/\ Owner[s] = d /\ stage[s] = "ended" /\ field[d] # Null
                   /\ s \in counted[o] => txn[d][o].reply = "ok" /\ s \in Batch(txn[d][o]))'
  <2>1. CASE o = p
    BY <1>1, <2>1 DEF OnceOK
  <2>2. CASE o # p
    BY <1>1, <2>2 DEF OnceOK
  <2>3. QED
    BY <2>1, <2>2
<1>4. QED
  BY <1>1, <1>2, <1>3 DEF OnceOK

\* What TransactionOk and TransactionStale share: the answer to the put of p is
\* heard, and its queue becomes u, whose put, if any, is sent behind the others.
LEMMA AnsweredOK ==
  ASSUME IInv, NEW d \in Devices, NEW p \in Paths,
         NEW u \in Transactions, NEW q, NEW sets \in Seq(Writes), NEW c \in Value,
         answered[d] > 0, Head(outstanding[d]) = Put(p),
         cache' = [cache EXCEPT ![d][p] = c],
         txn' = [txn EXCEPT ![d][p] = u],
         outstanding' = [outstanding EXCEPT ![d] = (Tail(@) \o PutsOf(p, q)) \o sets],
         answered' = [answered EXCEPT ![d] = @ - 1],
         UNCHANGED <<rec, stored, counted, conn, stage, field, popups, reading,
                     viewing, toasted, faults>>,
         q # <<>> => u.sent > 0 /\ u.reply = "none",
         \A o \in Paths : NoPut(o, sets),
         TransactionsOK(u),
         Ids(u.queue) \subseteq Ids(txn[d][p].queue) \ counted[p]
  PROVE  IInv'
<1> DEFINE ws == outstanding[d]
           n == answered[d]
           vs == Tail(ws) \o PutsOf(p, q)
<1>1. /\ TypeOK /\ DeviceOK(d) /\ ws \in Seq(Writes) /\ n \in Nat
      /\ PutsAgree(ws, n, txn[d])
  BY DEF IInv, DeviceOK, TypeOK
<1>2. /\ txn'[d][p] = u
      /\ \A o \in Paths \ {p} : txn'[d][o] = txn[d][o]
      /\ \A e \in Devices \ {d} : txn'[e] = txn[e]
      /\ txn' \in [Devices -> [Paths -> Transactions]]
  <2>1. txn \in [Devices -> [Paths -> Transactions]]
    BY <1>1 DEF TypeOK
  <2>2. QED
    BY <2>1
<1>3. ws # <<>> /\ Tail(ws) \in Seq(Writes) /\ PutsAgree(Tail(ws), n - 1, txn[d])
      /\ n - 1 \in Nat
  BY <1>1, PutsTail
<1>4. NoPut(p, Tail(ws))
  <2>1. Unique(p, ws)
    BY <1>1 DEF PutsAgree
  <2>2. QED
    BY <1>1, <1>3, <2>1, TailOK
<1>5. PutsAgree(Tail(ws), n - 1, txn'[d])
  <2>1. \A o \in Paths : NoPut(o, Tail(ws)) \/ txn'[d][o] = txn[d][o]
    BY <1>2, <1>4
  <2> QED BY <1>3, <2>1, PutsQueues
<1>6. vs \in Seq(Writes) /\ PutsAgree(vs, n - 1, txn'[d])
  <2>1. PutsOf(p, q) \in Seq(Writes)
    BY PutsOfOK
  <2>2. ASSUME NEW o \in Paths
        PROVE  \/ NoPut(o, PutsOf(p, q))
               \/ /\ NoPut(o, Tail(ws)) /\ Unique(o, PutsOf(p, q))
                  /\ txn'[d][o].sent > 0 /\ txn'[d][o].reply = "none"
    <3>1. CASE o = p /\ q # <<>>
      BY <1>2, <1>4, <3>1, PutsOfOK
    <3>2. CASE o = p /\ q = <<>>
      BY <3>2, PutsOfOK
    <3>3. CASE o # p
      BY <3>3, PutsOfOK
    <3>4. QED
      BY <3>1, <3>2, <3>3
  <2>3. QED
    BY <1>3, <1>5, <2>1, <2>2, PutsAppend
<1>7. vs \o sets \in Seq(Writes) /\ PutsAgree(vs \o sets, n - 1, txn'[d])
  BY <1>3, <1>6, PutsAppend
<1>8. /\ outstanding' = [outstanding EXCEPT ![d] = vs \o sets]
      /\ answered' = [answered EXCEPT ![d] = n - 1]
  OBVIOUS
<1>9. outstanding'[d] = vs \o sets /\ answered'[d] = n - 1
  BY <1>1, <1>8 DEF TypeOK
<1>10. TypeOK'
  <2>1. outstanding' \in [Devices -> Seq(Writes)]
    BY <1>1, <1>7, <1>8 DEF TypeOK
  <2>2. answered' \in [Devices -> Nat]
    BY <1>1, <1>3, <1>8 DEF TypeOK
  <2>3. cache' \in [Devices -> [Paths -> Value]]
    BY <1>1 DEF TypeOK
  <2>4. QED
    BY <1>1, <1>2, <2>1, <2>2, <2>3 DEF TypeOK
<1>11. PutsAgree(outstanding[d], answered[d], txn[d])'
  BY <1>7, <1>9
<1>12. FieldOK(d)'
  BY <1>1 DEF DeviceOK, FieldOK
<1>13. OnceOK(d)'
  BY <1>2, OnceStepOK
<1>14. \A o \in Paths : TransactionsOK(txn[d][o])'
  BY <1>1, <1>2 DEF DeviceOK
<1>15. \A e \in Devices \ {d} : outstanding'[e] = outstanding[e] /\ answered'[e] = answered[e]
  BY <1>1, <1>8 DEF TypeOK
<1>16. QED
  BY <1>2, <1>10, <1>11, <1>12, <1>13, <1>14, <1>15, QueueStepOK

\* What a queue holds: nothing counted unless its batch was accepted, and then
\* nothing counted behind the batch; and the field of its device is set.
LEMMA QueueOK ==
  ASSUME IInv, NEW d \in Devices, NEW p \in Paths
  PROVE  /\ txn[d][p] \in Transactions /\ TransactionsOK(txn[d][p])
         /\ Ids(txn[d][p].queue) \in SUBSET Sessions
         /\ txn[d][p].reply # "ok" => Ids(txn[d][p].queue) \cap counted[p] = {}
         /\ Ids(Waiting(txn[d][p])) \subseteq Ids(txn[d][p].queue) \ counted[p]
         /\ Ids(txn[d][p].queue) # {} => field[d] \in Sessions
<1> DEFINE t == txn[d][p]
<1>1. TypeOK /\ t \in Transactions /\ TransactionsOK(t)
  BY DEF IInv, DeviceOK, TypeOK
<1>2. Ids(t.queue) \in SUBSET Sessions
  BY <1>1, FieldsOK, IdsType
<1>3. \A s \in Ids(t.queue) :
        field[d] # Null /\ (s \in counted[p] => t.reply = "ok" /\ s \in Batch(t))
  BY DEF IInv, DeviceOK, OnceOK
<1>4. Ids(t.queue) = Batch(t) \cup Ids(Waiting(t)) /\ Batch(t) \cap Ids(Waiting(t)) = {}
  BY <1>1, WaitingOK
<1>5. field[d] \in Sessions \cup {Null}
  BY <1>1 DEF TypeOK
<1>6. QED
  BY <1>1, <1>2, <1>3, <1>4, <1>5

\* Running what is left of a queue leaves it in order, with the same submissions.
LEMMA RunAllOK ==
  ASSUME NEW p \in Paths, NEW q \in Seq(Entry), Distinct(q), NEW v \in Value
  PROVE  /\ RunAll(p, q, v) \in Transactions /\ TransactionsOK(RunAll(p, q, v))
         /\ Exact(p, RunAll(p, q, v))
         /\ Ids(RunAll(p, q, v).queue) = Ids(q)
         /\ q # <<>> => RunAll(p, q, v).sent > 0 /\ RunAll(p, q, v).reply = "none"
<1>1. CASE q = <<>>
  BY <1>1, IdleOK DEF RunAll, Ids, Idle
<1>2. CASE q # <<>>
  BY <1>2, SentOK DEF RunAll
<1>3. QED
  BY <1>1, <1>2

\* A queue that is not empty has submissions.
LEMMA IdsNonempty == \A q \in Seq(Entry) : q # <<>> => Ids(q) # {} /\ Len(q) > 0
<1> SUFFICES ASSUME NEW q \in Seq(Entry), q # <<>>
             PROVE  Ids(q) # {} /\ Len(q) > 0
  OBVIOUS
<1>1. Len(q) \in Nat \ {0} /\ DOMAIN q = 1..Len(q)
  BY EmptySeq, LenProperties
<1>2. 1 \in DOMAIN q
  BY <1>1
<1>3. QED
  BY <1>1, <1>2 DEF Ids

\* Writing the value a record has already changes nothing.
LEMMA SameOutput ==
  ASSUME NEW t \in Transactions, NEW v, t.val = v, t.out = v
  PROVE  [t EXCEPT !.val = v, !.out = v] = t
BY DEF Transactions

\* A queue sent with a value computed before.
Carried(p, q, v, o) == [Sent(p, q, v) EXCEPT !.val = o, !.out = o]

\* Sending what waited with the value computed for it leaves the queue in order.
LEMMA CarriedOK ==
  ASSUME NEW p \in Paths, NEW q \in Seq(Entry), q # <<>>, Distinct(q), NEW v \in Value,
         NEW o \in Value, o # Null
  PROVE  LET w == Carried(p, q, v, o) IN
         /\ w \in Transactions /\ TransactionsOK(w) /\ Ids(w.queue) = Ids(q)
         /\ w.sent > 0 /\ w.reply = "none" /\ w.now = Null
         /\ w.val = o /\ w.out = o
<1> DEFINE x == Sent(p, q, v)
           w == [x EXCEPT !.val = o, !.out = o]
<1>1. /\ x \in Transactions /\ TransactionsOK(x) /\ Ids(x.queue) = Ids(q)
      /\ x.sent > 0 /\ x.reply = "none"
  BY SentOK
<1>2. x.now = Null
  BY DEF Sent
<1> HIDE DEF x
<1>3. /\ w.queue = x.queue /\ w.sent = x.sent /\ w.base = x.base /\ w.reply = x.reply
      /\ w.now = x.now /\ w.val = o /\ w.out = o /\ w \in Transactions
  BY <1>1 DEF Transactions
<1> HIDE DEF w
<1>4. TransactionsOK(w)
  BY <1>1, <1>3 DEF TransactionsOK
<1>5. QED
  BY <1>1, <1>2, <1>3, <1>4 DEF w, x, Carried

\* "ok" leaves the invariant: what waited is sent with the value it computed.
LEMMA TransactionOkOK ==
  ASSUME IInv, NEW d \in Devices, NEW p \in Paths, TransactionOk(d, p)
  PROVE  IInv'
<1> USE DEF server, app
<1> DEFINE t == txn[d][p]
           rest == Waiting(t)
           u == IF rest = <<>> THEN Idle
                ELSE [Sent(p, rest, t.now) EXCEPT !.val = t.out, !.out = t.out]
           c == Keep(Listening(d), rest, t.now)
<1>1. /\ TypeOK /\ t \in Transactions /\ TransactionsOK(t) /\ t.reply = "ok"
      /\ t.now \in Value
  BY QueueOK, FieldsOK DEF IInv, TransactionOk
<1>2. rest \in Seq(Entry) /\ Distinct(rest)
  BY <1>1, WaitingOK
<1>3. t.out \in Value /\ t.out # Null
  BY <1>1, FieldsOK DEF TransactionsOK
<1>4. /\ u \in Transactions /\ TransactionsOK(u) /\ Ids(u.queue) = Ids(rest)
      /\ rest # <<>> => u.sent > 0 /\ u.reply = "none"
  <2>1. CASE rest = <<>>
    <3>1. u = Idle
      BY <2>1
    <3> HIDE DEF u, rest
    <3>2. Ids(rest) = {}
      BY <2>1 DEF Ids
    <3>3. QED
      BY <2>1, <3>1, <3>2, IdleOK
  <2>2. CASE rest # <<>>
    <3>1. PICK v \in Value, o \in Value : v = t.now /\ o = t.out /\ o # Null
      BY <1>1, <1>3
    <3> HIDE DEF rest
    <3> DEFINE w == Carried(p, rest, v, o)
    <3>2. u = w
      BY <2>2, <3>1 DEF Carried
    <3>3. /\ w \in Transactions /\ TransactionsOK(w) /\ Ids(w.queue) = Ids(rest)
          /\ w.sent > 0 /\ w.reply = "none"
      BY <1>2, <2>2, <3>1, CarriedOK
    <3> HIDE DEF w, u
    <3>4. QED
      BY <3>2, <3>3
  <2>3. QED
    BY <2>1, <2>2
<1> HIDE DEF u, rest
<1>5. Ids(u.queue) \subseteq Ids(t.queue) \ counted[p]
  BY <1>4, QueueOK DEF rest
<1>6. c \in Value
  BY <1>1 DEF Keep, Value
<1>7. <<>> \in Seq(Writes) /\ \A o \in Paths : NoPut(o, <<>>)
  BY EmptySeq DEF NoPut
<1>8. /\ answered[d] > 0 /\ Head(outstanding[d]) = Put(p)
      /\ cache' = [cache EXCEPT ![d][p] = c]
      /\ txn' = [txn EXCEPT ![d][p] = u]
      /\ outstanding' = [outstanding EXCEPT ![d] = Tail(@) \o PutsOf(p, rest)]
      /\ answered' = [answered EXCEPT ![d] = @ - 1]
      /\ UNCHANGED <<rec, stored, counted, conn, stage, field, popups, reading,
                     viewing, toasted, faults>>
  BY DEF TransactionOk, u, rest
<1>9. Tail(outstanding[d]) \o PutsOf(p, rest)
        = (Tail(outstanding[d]) \o PutsOf(p, rest)) \o <<>>
  <2>1. /\ outstanding[d] \in Seq(Writes) /\ answered[d] \in Nat
        /\ PutsAgree(outstanding[d], answered[d], txn[d])
    BY DEF IInv, DeviceOK, TypeOK
  <2>2. Tail(outstanding[d]) \in Seq(Writes)
    BY <1>8, <2>1, PutsTail
  <2>3. QED
    BY <2>2, PutsOfOK, ConcatOK, ConcatEmptySeq
<1>10. outstanding' = [outstanding EXCEPT ![d] = (Tail(@) \o PutsOf(p, rest)) \o <<>>]
  BY <1>8, <1>9
<1> HIDE DEF u, c, rest
<1>11. QED
  BY <1>4, <1>5, <1>6, <1>7, <1>8, <1>10, AnsweredOK DEF t

\* "datastale" leaves the invariant: no submission of the queue was counted, and
\* those run again start from the value the server holds.
LEMMA TransactionStaleOK ==
  ASSUME IInv, NEW d \in Devices, NEW p \in Paths, TransactionStale(d, p)
  PROVE  IInv'
<1> USE DEF server, app
<1> DEFINE t == txn[d][p]
           exhausted == {i \in DOMAIN t.queue : t.queue[i].tries >= MaxRetries}
           k == Cardinality(exhausted)
           again == SubSeq(t.queue, k + 1, Len(t.queue))
           u == RunAll(p, again, t.now)
           c == Keep(Listening(d), again, t.now)
           sets == SessionPuts(d, p, Len(again), t.now)
<1>1. /\ TypeOK /\ t \in Transactions /\ TransactionsOK(t) /\ t.reply = "datastale"
      /\ t.now \in Value /\ t.queue \in Seq(Entry) /\ Distinct(t.queue)
  BY QueueOK, FieldsOK DEF IInv, TransactionStale, TransactionsOK
<1>1a. t.queue \in Seq(Entry)
  BY <1>1
<1>2. k \in 0..Len(t.queue)
  <2>1. Len(t.queue) \in Nat /\ DOMAIN t.queue = 1..Len(t.queue)
    BY <1>1a, LenProperties
  <2>2. IsFiniteSet(1..Len(t.queue)) /\ Cardinality(1..Len(t.queue)) = Len(t.queue)
    BY <2>1, FS_Interval
  <2>3. exhausted \in SUBSET (1..Len(t.queue))
    BY <2>1
  <2>4. k <= Len(t.queue) /\ k \in Nat
    BY <2>2, <2>3, FS_Subset, FS_CardinalityType
  <2>5. QED
    BY <2>1, <2>4
<1>3. /\ again \in Seq(Entry) /\ Distinct(again)
      /\ Ids(again) = {t.queue[i].id : i \in (k + 1)..Len(t.queue)}
  BY <1>1, <1>2, SuffixOK
<1>4. Ids(again) \subseteq Ids(t.queue)
  <2>1. Len(t.queue) \in Nat /\ DOMAIN t.queue = 1..Len(t.queue)
    BY <1>1a, LenProperties
  <2> HIDE DEF k
  <2>2. (k + 1)..Len(t.queue) \subseteq DOMAIN t.queue
    BY <1>2, <2>1
  <2>3. QED
    BY <1>3, <2>2 DEF Ids
<1>5. /\ u \in Transactions /\ TransactionsOK(u) /\ Ids(u.queue) = Ids(again)
      /\ again # <<>> => u.sent > 0 /\ u.reply = "none"
  BY <1>1, <1>3, RunAllOK
<1>6. Ids(u.queue) \subseteq Ids(t.queue) \ counted[p]
  BY <1>1, <1>4, <1>5, QueueOK
<1>7. c \in Value
  BY <1>1 DEF Keep, Value
<1>8. sets \in Seq(Writes) /\ \A o \in Paths : NoPut(o, sets)
  <2>1. Len(again) \in Nat
    BY <1>3, LenProperties
  <2>2. Len(again) > 0 => field[d] \in Sessions
    <3>1. Len(<<>>) = 0
      OBVIOUS
    <3>2. Ids(again) # {} => field[d] \in Sessions
      BY <1>4, QueueOK
    <3> HIDE DEF again
    <3>3. CASE again = <<>>
      <4>1. Len(again) = 0
        BY <3>1, <3>3
      <4>2. ~(Len(again) > 0)
        BY <4>1
      <4>3. QED
        BY <4>2
    <3>4. CASE again # <<>>
      <4>1. Ids(again) # {}
        BY <1>3, <3>4, IdsNonempty
      <4>2. QED
        BY <3>2, <4>1
    <3>5. QED
      BY <3>3, <3>4
  <2>3. QED
    BY <1>1, <2>1, <2>2, SessionPutsOK
<1>9. /\ answered[d] > 0 /\ Head(outstanding[d]) = Put(p)
      /\ cache' = [cache EXCEPT ![d][p] = c]
      /\ txn' = [txn EXCEPT ![d][p] = u]
      /\ outstanding' = [outstanding EXCEPT ![d] = (Tail(@) \o PutsOf(p, again)) \o sets]
      /\ answered' = [answered EXCEPT ![d] = @ - 1]
      /\ UNCHANGED <<rec, stored, counted, conn, stage, field, popups, reading,
                     viewing, toasted, faults>>
  BY DEF TransactionStale
<1> HIDE DEF u, c, again, sets
<1>10. QED
  BY <1>5, <1>6, <1>7, <1>8, <1>9, AnsweredOK DEF t

\* What a put the server answers does: its batch was counted nowhere, so it can
\* be entered in the ledger, and nothing else of the record changes.
LEMMA ServerEnters ==
  ASSUME IInv, NEW d \in Devices, NEW p \in Paths, ServerCompareAndPut(d, p)
  PROVE  LET t == txn[d][p] IN
         /\ t \in Transactions /\ TransactionsOK(t) /\ t.reply = "none" /\ t.sent > 0
         /\ Batch(t) \in SUBSET Sessions /\ Batch(t) # {}
         /\ Batch(t) \subseteq Ids(t.queue)
         /\ Ids(t.queue) \cap counted[p] = {}
         /\ t.base = rec[p] => t.val \in Nat
         /\ t.base = rec[p] /\ Exact(p, t) => t.val = rec[p] + Amount(p, Batch(t))
<1> DEFINE t == txn[d][p]
           ws == outstanding[d]
           n == answered[d]
<1>1. /\ TypeOK /\ ws \in Seq(Writes) /\ n \in Nat /\ n < Len(ws) /\ ws[n + 1] = Put(p)
      /\ PutsAgree(ws, n, txn[d])
  BY DEF IInv, DeviceOK, TypeOK, ServerCompareAndPut, HasWrite, NextWrite
<1>2. t \in Transactions /\ TransactionsOK(t)
  BY QueueOK
<1>3. t.sent > 0 /\ t.reply = "none"
  <2>1. n + 1 \in DOMAIN ws /\ ~(n + 1 <= n)
    BY <1>1, WritesOK
  <2>2. QED
    BY <1>1, <2>1 DEF PutsAgree
<1>4. /\ Batch(t) \in SUBSET Sessions /\ Batch(t) \subseteq Ids(t.queue)
  BY <1>2, WaitingOK
<1>5. Batch(t) # {}
  <2>1. t.sent \in Nat /\ 1 \in 1..t.sent
    BY <1>2, <1>3, FieldsOK
  <2>2. QED
    BY <2>1 DEF Batch
<1>6. Ids(t.queue) \cap counted[p] = {}
  BY <1>3, QueueOK
<1>7. ASSUME t.base = rec[p]
      PROVE  t.val \in Nat
  <2>1. rec[p] \in Nat /\ rec[p] # Null
    BY <1>1, ConstantsOK DEF TypeOK
  <2>2. QED
    BY <1>2, <1>7, <2>1, FieldsOK DEF TransactionsOK, Value
<1>8. ASSUME t.base = rec[p], Exact(p, t)
      PROVE  t.val = rec[p] + Amount(p, Batch(t))
  <2>1. rec[p] \in Nat /\ rec[p] # Null
    BY <1>1, ConstantsOK DEF TypeOK
  <2>2. t.val = Output(p, Batch(t), rec[p])
    BY <1>8 DEF Exact
  <2>3. QED
    BY <2>1, <2>2 DEF Output
<1>9. QED
  BY <1>2, <1>3, <1>4, <1>5, <1>6, <1>7, <1>8

\* The server's answer to a put leaves the invariant.
LEMMA ServerCompareAndPutOK ==
  ASSUME IInv, NEW d \in Devices, NEW p \in Paths, ServerCompareAndPut(d, p)
  PROVE  IInv'
<1> USE DEF app
<1> DEFINE t == txn[d][p]
           ok == t.base = rec[p]
           u == [t EXCEPT !.reply = IF ok THEN "ok" ELSE "datastale", !.now = rec'[p]]
           ws == outstanding[d]
           n == answered[d]
<1>1. /\ TypeOK /\ ws \in Seq(Writes) /\ n \in Nat /\ n < Len(ws) /\ ws[n + 1] = Put(p)
      /\ PutsAgree(ws, n, txn[d]) /\ \A e \in Devices : DeviceOK(e)
  BY DEF IInv, DeviceOK, TypeOK, ServerCompareAndPut, HasWrite, NextWrite
<1>2. /\ rec' = IF ok THEN [rec EXCEPT ![p] = t.val] ELSE rec
      /\ counted' = IF ok THEN [counted EXCEPT ![p] = @ \cup Batch(t)] ELSE counted
      /\ txn' = [txn EXCEPT ![d][p] = u]
      /\ answered' = [answered EXCEPT ![d] = n + 1]
      /\ UNCHANGED <<stored, conn, outstanding, cache, stage, field, popups, reading,
                     viewing, toasted, faults>>
  BY DEF ServerCompareAndPut, Accepts
<1>3. /\ t \in Transactions /\ TransactionsOK(t) /\ t.reply = "none" /\ t.sent > 0
      /\ Batch(t) \in SUBSET Sessions
      /\ Batch(t) \subseteq Ids(t.queue) /\ Ids(t.queue) \in SUBSET Sessions
      /\ Ids(t.queue) \cap counted[p] = {}
      /\ ok => t.val \in Nat
  BY ServerEnters, QueueOK
<1>4. /\ rec \in [Paths -> Nat] /\ counted \in [Paths -> SUBSET Sessions]
      /\ txn \in [Devices -> [Paths -> Transactions]]
  BY <1>1 DEF TypeOK
<1>5. /\ rec' \in [Paths -> Nat]
      /\ rec'[p] = IF ok THEN t.val ELSE rec[p]
      /\ \A o \in Paths \ {p} : rec'[o] = rec[o]
  BY <1>2, <1>3, <1>4
<1>6. /\ counted' \in [Paths -> SUBSET Sessions]
      /\ counted'[p] = IF ok THEN counted[p] \cup Batch(t) ELSE counted[p]
      /\ \A o \in Paths \ {p} : counted'[o] = counted[o]
  BY <1>2, <1>3, <1>4
<1>7. /\ u \in Transactions /\ u.queue = t.queue /\ u.sent = t.sent /\ u.base = t.base
      /\ u.val = t.val /\ u.out = t.out /\ u.now = rec'[p]
      /\ u.reply = IF ok THEN "ok" ELSE "datastale"
  <2>1. rec'[p] \in Value
    BY <1>5 DEF Value
  <2>2. QED
    BY <1>3, <2>1 DEF Transactions
<1> HIDE DEF u
<1>8. /\ txn' \in [Devices -> [Paths -> Transactions]]
      /\ txn'[d][p] = u /\ \A o \in Paths \ {p} : txn'[d][o] = txn[d][o]
      /\ \A e \in Devices \ {d} : txn'[e] = txn[e]
  BY <1>2, <1>4, <1>7
<1>9. /\ answered' \in [Devices -> Nat] /\ answered'[d] = n + 1
      /\ \A e \in Devices \ {d} : answered'[e] = answered[e]
  <2>1. answered \in [Devices -> Nat]
    BY <1>1 DEF TypeOK
  <2>2. QED
    BY <1>1, <1>2, <2>1
<1>10. TypeOK'
  BY <1>1, <1>2, <1>5, <1>6, <1>8, <1>9 DEF TypeOK
<1>12. CountedOK'
  <2>1. \A s \in Batch(t) : stage[s] = "ended"
    BY <1>1, <1>3 DEF DeviceOK, OnceOK
  <2>2. QED
    BY <1>2, <1>6, <2>1 DEF IInv, CountedOK
<1>13. ASSUME NEW e \in Devices \ {d}
       PROVE  DeviceOK(e)'
  <2>1. \A s \in Batch(t) : Owner[s] = d
    BY <1>1, <1>3 DEF DeviceOK, OnceOK
  <2>2. \A o \in Paths : \A s \in counted'[o] : Owner[s] = e => s \in counted[o]
    BY <1>6, <2>1
  <2>3. outstanding'[e] = outstanding[e] /\ field'[e] = field[e]
        /\ popups'[e] = popups[e] /\ reading'[e] = reading[e]
    BY <1>2
  <2>4. QED
    BY <1>1, <1>2, <1>8, <1>9, <2>2, <2>3, OtherDeviceOK
<1>14. PutsAgree(outstanding[d], answered[d], txn[d])'
  <2>1. \A o \in Paths : txn'[d][o].sent = txn[d][o].sent
    BY <1>7, <1>8
  <2>2. ASSUME NEW o \in Paths
        PROVE  IF ws[n + 1] = Put(o) THEN txn'[d][o].reply # "none"
               ELSE txn'[d][o].reply = txn[d][o].reply
    <3>1. ws[n + 1] = Put(o) <=> o = p
      BY <1>1, PutOK
    <3>2. QED
      BY <1>7, <1>8, <3>1
  <2>3. PutsAgree(ws, n + 1, txn'[d])
    BY <1>1, <2>1, <2>2, PutsServed
  <2>4. QED
    BY <1>2, <1>9, <2>3
<1>15. FieldOK(d)'
  BY <1>1, <1>2 DEF DeviceOK, FieldOK
<1>16. OnceOK(d)'
  <2>1. OnceOK(d) /\ Asked(d)' = Asked(d)
    BY <1>1, <1>2 DEF DeviceOK, Asked
  <2>2. Ids(u.queue) = Ids(t.queue) /\ Batch(u) = Batch(t)
    BY <1>7 DEF Batch
  <2>3. ASSUME NEW o \in Paths
        PROVE  /\ \A s \in Asked(d) : (s \notin counted[o] /\ s \notin Ids(txn[d][o].queue))'
               /\ \A s \in Ids(txn'[d][o].queue) :
                    (/\ Owner[s] = d /\ stage[s] = "ended" /\ field[d] # Null
                     /\ s \in counted[o] => txn[d][o].reply = "ok" /\ s \in Batch(txn[d][o]))'
    <3>1. CASE o = p
      BY <1>2, <1>3, <1>6, <1>7, <1>8, <2>1, <2>2, <3>1 DEF OnceOK
    <3>2. CASE o # p
      BY <1>2, <1>6, <1>8, <2>1, <3>2 DEF OnceOK
    <3>3. QED
      BY <3>1, <3>2
  <2>4. (popups[d] \cap reading[d] = {})'
        /\ \A s \in Asked(d) : (Owner[s] = d /\ stage[s] = "ended" /\ field[d] # Null)'
    BY <1>2, <2>1 DEF OnceOK
  <2>5. QED
    BY <2>1, <2>3, <2>4 DEF OnceOK
<1>17. \A o \in Paths : TransactionsOK(txn[d][o])'
  <2>1. TransactionsOK(u)
    <3>1. u.reply = "ok" => u.base # Null /\ u.now = u.val
      <4>1. rec[p] # Null
        BY <1>4, ConstantsOK
      <4>2. QED
        BY <1>5, <1>7, <4>1
    <3>2. QED
      BY <1>3, <1>7, <3>1 DEF TransactionsOK
  <2>2. QED
    BY <1>1, <1>8, <2>1 DEF DeviceOK
<1>18. QED
  BY <1>10, <1>12, <1>13, <1>14, <1>15, <1>16, <1>17 DEF IInv, DeviceOK

\* One more of any of them is a number of them.
LEMMA FaultsOK ==
  \A f \in [disconnects : Nat, kills : Nat, reruns : Nat] :
    /\ [f EXCEPT !.disconnects = @ + 1] \in [disconnects : Nat, kills : Nat, reruns : Nat]
    /\ [f EXCEPT !.kills = @ + 1] \in [disconnects : Nat, kills : Nat, reruns : Nat]
    /\ [f EXCEPT !.reruns = @ + 1] \in [disconnects : Nat, kills : Nat, reruns : Nat]
OBVIOUS

\* The death of the process leaves the invariant: nothing of it is under way.
LEMMA KillOK ==
  ASSUME IInv, NEW d \in Devices, Kill(d)
  PROVE  IInv'
<1> USE DEF server
<1>1. TypeOK
  BY DEF IInv
<1>2. /\ faults' = [faults EXCEPT !.kills = @ + 1]
      /\ conn' = [conn EXCEPT ![d] = TRUE]
      /\ outstanding' = [outstanding EXCEPT ![d] = <<>>]
      /\ answered' = [answered EXCEPT ![d] = 0]
      /\ cache' = [cache EXCEPT ![d] = [p \in Paths |-> Null]]
      /\ txn' = [txn EXCEPT ![d] = [p \in Paths |-> Idle]]
      /\ field' = [field EXCEPT ![d] = Null]
      /\ popups' = [popups EXCEPT ![d] = {}]
      /\ reading' = [reading EXCEPT ![d] = {}]
      /\ viewing' = [viewing EXCEPT ![d] = FALSE]
      /\ UNCHANGED <<rec, stored, counted, stage, toasted>>
  BY DEF Kill
<1>3. /\ outstanding'[d] = <<>> /\ answered'[d] = 0 /\ field'[d] = Null
      /\ txn'[d] = [p \in Paths |-> Idle] /\ Asked(d)' = {}
      /\ \A e \in Devices \ {d} :
            /\ outstanding'[e] = outstanding[e] /\ answered'[e] = answered[e]
            /\ txn'[e] = txn[e] /\ field'[e] = field[e]
            /\ popups'[e] = popups[e] /\ reading'[e] = reading[e]
  BY <1>1, <1>2 DEF TypeOK, Asked
<1>4. TypeOK'
  <2>1. <<>> \in Seq(Writes) /\ [p \in Paths |-> Idle] \in [Paths -> Transactions]
        /\ [p \in Paths |-> Null] \in [Paths -> Value]
    BY IdleOK, EmptySeq DEF Value
  <2>2. outstanding' \in [Devices -> Seq(Writes)] /\ answered' \in [Devices -> Nat]
        /\ cache' \in [Devices -> [Paths -> Value]]
        /\ txn' \in [Devices -> [Paths -> Transactions]]
    BY <1>1, <1>2, <2>1 DEF TypeOK
  <2>3. field' \in [Devices -> Sessions \cup {Null}] /\ popups' \in [Devices -> SUBSET Sessions]
        /\ reading' \in [Devices -> SUBSET Sessions] /\ viewing' \in [Devices -> BOOLEAN]
    BY <1>1, <1>2 DEF TypeOK
  <2>4. conn' \in [Devices -> BOOLEAN]
    BY <1>1, <1>2 DEF TypeOK
  <2>5. faults' \in [disconnects : Nat, kills : Nat, reruns : Nat]
    BY <1>1, <1>2, FaultsOK DEF TypeOK
  <2>6. QED
    BY <1>1, <1>2, <2>2, <2>3, <2>4, <2>5 DEF TypeOK
<1>5. PutsAgree(outstanding[d], answered[d], txn[d])'
  <2>1. DOMAIN <<>> = {} /\ Len(<<>>) = 0
    OBVIOUS
  <2>2. QED
    BY <1>3, <2>1 DEF PutsAgree, Unique
<1>6. FieldOK(d)'
  BY <1>3 DEF FieldOK
<1>7. OnceOK(d)'
  <2>1. popups'[d] = {}
    BY <1>1, <1>2 DEF TypeOK
  <2>2. QED
    BY <1>3, <2>1, IdleOK DEF OnceOK
<1>8. \A p \in Paths : TransactionsOK(txn[d][p])'
  BY <1>3, IdleOK
<1>9. QED
  BY <1>2, <1>3, <1>4, <1>5, <1>6, <1>7, <1>8, QueueStepOK

\* A lost connection leaves the invariant: the puts that were sent go with their
\* batches, and what waited behind them was not counted.
LEMMA DisconnectOK ==
  ASSUME IInv, NEW d \in Devices, Disconnect(d)
  PROVE  IInv'
<1> USE DEF server, app
<1> DEFINE rest == [p \in Paths |-> Waiting(txn[d][p])]
           n == Len(rest[NumSessions])
           sets == SessionPuts(d, NumSessions, n, cache[d][NumSessions])
           us == [p \in Paths |-> RunAll(p, rest[p], cache[d][p])]
           cs == [p \in Paths |-> Keep(Listening(d), rest[p], cache[d][p])]
           w0 == WithoutPuts(outstanding[d])
           w1 == w0 \o PutsOf(NumSessions, rest[NumSessions])
           w2 == w1 \o PutsOf(TotalHours, rest[TotalHours])
<1>1. /\ TypeOK /\ outstanding[d] \in Seq(Writes)
      /\ PutsAgree(outstanding[d], answered[d], txn[d])
      /\ cache \in [Devices -> [Paths -> Value]]
  BY DEF IInv, DeviceOK, TypeOK
<1>2. /\ conn' = [conn EXCEPT ![d] = FALSE]
      /\ txn' = [txn EXCEPT ![d] = us]
      /\ cache' = [cache EXCEPT ![d] = cs]
      /\ outstanding' = [outstanding EXCEPT ![d] = w2 \o sets]
      /\ answered' = [answered EXCEPT ![d] = 0]
      /\ faults' = [faults EXCEPT !.disconnects = @ + 1]
      /\ UNCHANGED <<rec, stored, counted, stage, field, popups, reading, viewing, toasted>>
  BY DEF Disconnect
<1>3. NumSessions \in Paths /\ TotalHours \in Paths /\ NumSessions # TotalHours
      /\ \A p \in Paths : p = NumSessions \/ p = TotalHours
  BY DEF Paths, NumSessions, TotalHours
<1>4. ASSUME NEW p \in Paths
      PROVE  /\ rest[p] \in Seq(Entry) /\ Distinct(rest[p])
             /\ Ids(rest[p]) \subseteq Ids(txn[d][p].queue) \ counted[p]
             /\ us[p] \in Transactions /\ TransactionsOK(us[p])
             /\ Ids(us[p].queue) = Ids(rest[p])
             /\ rest[p] # <<>> => us[p].sent > 0 /\ us[p].reply = "none"
             /\ cs[p] \in Value
  <2>1. rest[p] \in Seq(Entry) /\ Distinct(rest[p])
        /\ Ids(rest[p]) \subseteq Ids(txn[d][p].queue) \ counted[p]
    BY QueueOK, WaitingOK
  <2>2. cache[d][p] \in Value
    BY <1>1
  <2>3. us[p] = RunAll(p, rest[p], cache[d][p])
    OBVIOUS
  <2>4. cs[p] \in Value
    BY <2>2 DEF Keep, Value
  <2> HIDE DEF us, rest, cs
  <2>5. QED
    BY <2>1, <2>2, <2>3, <2>4, RunAllOK
<1>5. sets \in Seq(Writes) /\ \A p \in Paths : NoPut(p, sets)
  <2> DEFINE q == rest[NumSessions]
  <2>1. q \in Seq(Entry) /\ cache[d][NumSessions] \in Value
        /\ Ids(q) \subseteq Ids(txn[d][NumSessions].queue)
    <3>1. /\ rest[NumSessions] \in Seq(Entry)
          /\ Ids(rest[NumSessions]) \subseteq Ids(txn[d][NumSessions].queue) \ counted[NumSessions]
      BY <1>3, <1>4
    <3>2. cache[d][NumSessions] \in Value
      BY <1>1, <1>3
    <3> HIDE DEF rest
    <3> QED BY <3>1, <3>2
  <2>2. Ids(q) # {} => field[d] \in Sessions
    BY <1>3, <2>1, QueueOK
  <2> HIDE DEF q
  <2>3. Len(q) \in Nat
    BY <2>1, LenProperties
  <2>4. Len(q) > 0 => field[d] \in Sessions
    <3>1. CASE q = <<>>
      <4>1. Len(<<>>) = 0
        OBVIOUS
      <4>2. ~(Len(q) > 0)
        BY <3>1, <4>1
      <4>3. QED
        BY <4>2
    <3>2. CASE q # <<>>
      BY <2>1, <2>2, <3>2, IdsNonempty
    <3>3. QED
      BY <3>1, <3>2
  <2>5. QED
    BY <2>1, <2>3, <2>4, SessionPutsOK DEF q
<1> HIDE DEF us, cs, rest, sets
<1>6. w0 \in Seq(Writes) /\ \A p \in Paths : NoPut(p, w0)
  BY <1>1, WithoutPutsOK DEF PutsAgree
<1> HIDE DEF w0
<1>7. PutsAgree(w0, 0, us)
  <2>1. Len(w0) \in Nat
    BY <1>6, WritesOK
  <2>2. QED
    BY <1>6, <2>1 DEF PutsAgree, NoPut, Unique
<1>8. w1 \in Seq(Writes) /\ PutsAgree(w1, 0, us) /\ NoPut(TotalHours, w1)
  <2>1. ASSUME NEW p \in Paths
        PROVE  \/ NoPut(p, PutsOf(NumSessions, rest[NumSessions]))
               \/ /\ NoPut(p, w0) /\ Unique(p, PutsOf(NumSessions, rest[NumSessions]))
                  /\ us[p].sent > 0 /\ us[p].reply = "none"
    <3>1. CASE p = NumSessions
      BY <1>4, <1>6, <3>1, PutsOfOK
    <3>2. CASE p # NumSessions
      BY <1>3, <3>2, PutsOfOK
    <3>3. QED
      BY <3>1, <3>2
  <2>2. PutsOf(NumSessions, rest[NumSessions]) \in Seq(Writes)
        /\ NoPut(TotalHours, PutsOf(NumSessions, rest[NumSessions]))
    BY <1>3, PutsOfOK
  <2>3. w1 \in Seq(Writes) /\ PutsAgree(w1, 0, us)
    BY <1>6, <1>7, <2>1, <2>2, PutsAppend
  <2>4. QED
    BY <1>3, <1>6, <2>2, <2>3, NoPutConcat
<1> HIDE DEF w1
<1>9. w2 \in Seq(Writes) /\ PutsAgree(w2, 0, us)
  <2>1. ASSUME NEW p \in Paths
        PROVE  \/ NoPut(p, PutsOf(TotalHours, rest[TotalHours]))
               \/ /\ NoPut(p, w1) /\ Unique(p, PutsOf(TotalHours, rest[TotalHours]))
                  /\ us[p].sent > 0 /\ us[p].reply = "none"
    <3>1. CASE p = TotalHours
      BY <1>4, <1>8, <3>1, PutsOfOK
    <3>2. CASE p # TotalHours
      BY <1>3, <3>2, PutsOfOK
    <3>3. QED
      BY <3>1, <3>2
  <2>2. PutsOf(TotalHours, rest[TotalHours]) \in Seq(Writes)
    BY <1>3, PutsOfOK
  <2>3. QED
    BY <1>8, <2>1, <2>2, PutsAppend
<1> HIDE DEF w2
<1>10. w2 \o sets \in Seq(Writes) /\ PutsAgree(w2 \o sets, 0, us)
  BY <1>5, <1>9, PutsAppend
<1>11. /\ us \in [Paths -> Transactions] /\ cs \in [Paths -> Value]
  BY <1>4 DEF us, cs
<1>12. /\ outstanding'[d] = w2 \o sets /\ answered'[d] = 0 /\ txn'[d] = us
       /\ \A e \in Devices \ {d} :
             /\ outstanding'[e] = outstanding[e] /\ answered'[e] = answered[e]
             /\ txn'[e] = txn[e]
  BY <1>1, <1>2 DEF TypeOK
<1>13. TypeOK'
  <2>1. outstanding' \in [Devices -> Seq(Writes)] /\ answered' \in [Devices -> Nat]
        /\ conn' \in [Devices -> BOOLEAN]
    BY <1>1, <1>2, <1>10 DEF TypeOK
  <2>2. txn' \in [Devices -> [Paths -> Transactions]] /\ cache' \in [Devices -> [Paths -> Value]]
    BY <1>1, <1>2, <1>11 DEF TypeOK
  <2>3. faults' \in [disconnects : Nat, kills : Nat, reruns : Nat]
    BY <1>1, <1>2, FaultsOK DEF TypeOK
  <2>4. QED
    BY <1>1, <1>2, <2>1, <2>2, <2>3 DEF TypeOK
<1>14. PutsAgree(outstanding[d], answered[d], txn[d])'
  BY <1>10, <1>12
<1>15. FieldOK(d)'
  BY <1>2 DEF IInv, DeviceOK, FieldOK
<1>16. OnceOK(d)'
  <2>1. OnceOK(d) /\ Asked(d)' = Asked(d)
    BY <1>2 DEF IInv, DeviceOK, Asked
  <2>2. \A p \in Paths : Ids(txn'[d][p].queue) \subseteq Ids(txn[d][p].queue) \ counted[p]
    BY <1>4, <1>12
  <2>3. QED
    BY <1>2, <2>1, <2>2 DEF OnceOK
<1>17. \A p \in Paths : TransactionsOK(txn[d][p])'
  BY <1>4, <1>12
<1>18. QED
  BY <1>2, <1>12, <1>13, <1>14, <1>15, <1>16, <1>17, QueueStepOK

\* What the second and third transaction of a read find: starting them for s
\* leaves each queue in order, with s added, and only a path that had no queue
\* has a put to send.
LEMMA StartQueueOK ==
  ASSUME IInv, NEW d \in Devices, NEW p \in Paths, NEW s \in reading[d], NEW v \in Value
  PROVE  LET t == txn[d][p]
             u == IF t.queue = <<>> THEN Sent(p, <<NewEntry(s)>>, v) ELSE Enqueue(p, t, s)
         IN  /\ u \in Transactions /\ TransactionsOK(u)
             /\ Ids(u.queue) = Ids(t.queue) \cup {s}
             /\ t.queue = <<>> => u.sent > 0 /\ u.reply = "none" /\ NoPut(p, outstanding[d])
             /\ t.queue # <<>> => u.sent = t.sent /\ u.reply = t.reply /\ Batch(u) = Batch(t)
<1> DEFINE t == txn[d][p]
<1>1. /\ t \in Transactions /\ TransactionsOK(t) /\ s \in Sessions
      /\ s \notin Ids(t.queue)
  BY QueueOK DEF IInv, DeviceOK, OnceOK, TypeOK, Asked
<1>2. CASE t.queue = <<>>
  <2> DEFINE q == <<NewEntry(s)>>
  <2>1. NewEntry(s) \in Entry /\ NewEntry(s).id = s
    BY <1>1 DEF NewEntry, Entry
  <2>2. q \in Seq(Entry) /\ Len(q) = 1 /\ DOMAIN q = {1} /\ q[1] = NewEntry(s) /\ q # <<>>
    BY <2>1
  <2>3. Distinct(q) /\ Ids(q) = {s}
    BY <2>1, <2>2 DEF Distinct, Ids
  <2>4. Ids(t.queue) = {}
    <3>1. DOMAIN <<>> = {}
      OBVIOUS
    <3>2. QED
      BY <1>2, <3>1 DEF Ids
  <2>5. t.sent = 0
    <3>1. Len(<<>>) = 0
      OBVIOUS
    <3>2. t.sent \in 0..Len(t.queue)
      BY <1>1 DEF TransactionsOK
    <3>3. t.sent \in 0..0
      BY <1>2, <3>1, <3>2
    <3>4. QED
      BY <3>3
  <2>6. NoPut(p, outstanding[d])
    <3>1. PutsAgree(outstanding[d], answered[d], txn[d])
      BY DEF IInv, DeviceOK
    <3>2. ~(t.sent > 0)
      BY <2>5
    <3>3. QED
      BY <3>1, <3>2 DEF PutsAgree, NoPut
  <2> HIDE DEF q
  <2>7. /\ Sent(p, q, v) \in Transactions /\ TransactionsOK(Sent(p, q, v))
        /\ Ids(Sent(p, q, v).queue) = Ids(q)
        /\ Sent(p, q, v).sent > 0 /\ Sent(p, q, v).reply = "none"
    BY <2>2, <2>3, SentOK
  <2> DEFINE u == IF t.queue = <<>> THEN Sent(p, <<NewEntry(s)>>, v) ELSE Enqueue(p, t, s)
  <2>8. u = Sent(p, q, v)
    BY <1>2 DEF q
  <2> HIDE DEF u
  <2>9. /\ u \in Transactions /\ TransactionsOK(u)
        /\ Ids(u.queue) = Ids(t.queue) \cup {s} /\ u.sent > 0 /\ u.reply = "none"
    BY <2>3, <2>4, <2>7, <2>8
  <2> HIDE DEF t
  <2>10. QED
    BY <1>2, <2>6, <2>9 DEF t, u
<1>3. CASE t.queue # <<>>
  <2>1. t.sent > 0
    BY <1>1, <1>3, FieldsOK DEF TransactionsOK
  <2> DEFINE u == Enqueue(p, t, s)
  <2>2. /\ u \in Transactions /\ TransactionsOK(u)
        /\ Ids(u.queue) = Ids(t.queue) \cup {s} /\ Batch(u) = Batch(t)
        /\ u.sent = t.sent /\ u.reply = t.reply
    <3> HIDE DEF t
    <3>1. u \in Transactions /\ TransactionsOK(u)
      BY <1>1, <2>1, EnqueueOK
    <3>2. Ids(u.queue) = Ids(t.queue) \cup {s} /\ Batch(u) = Batch(t)
      BY <1>1, <2>1, EnqueueOK
    <3>3. u.sent = t.sent /\ u.reply = t.reply
      BY <1>1, <2>1, EnqueueOK
    <3> HIDE DEF u
    <3>4. QED
      BY <3>1, <3>2, <3>3
  <2> HIDE DEF t, u
  <2>3. QED
    BY <1>3, <2>2 DEF t, u
<1>4. QED
  BY <1>2, <1>3

\* Starting the transactions of a submission leaves the invariant: it was asked
\* about, so it is in no queue and not counted.
LEMMA StartTransactionsOK ==
  ASSUME IInv, NEW d \in Devices, NEW s \in Sessions, StartTransactions(d, s)
  PROVE  IInv'
<1> USE DEF server
<1> DEFINE listening == viewing[d] \/ reading[d] # {s}
           in(p) == Latest(d, p, listening)
           num == IF txn[d][NumSessions].queue = <<>> THEN <<Put(NumSessions)>> ELSE <<>>
           hours == IF txn[d][TotalHours].queue = <<>> THEN <<Put(TotalHours)>> ELSE <<>>
           session == SessionPuts(d, NumSessions, 1, in(NumSessions))
           us == [p \in Paths |-> IF txn[d][p].queue = <<>>
                    THEN Sent(p, <<NewEntry(s)>>, in(p)) ELSE Enqueue(p, txn[d][p], s)]
           cs == [p \in Paths |->
                    IF listening \/ txn[d][p].queue # <<>> THEN cache[d][p] ELSE Null]
           ws == outstanding[d]
           n == answered[d]
<1>1. /\ TypeOK /\ ws \in Seq(Writes) /\ n \in Nat /\ PutsAgree(ws, n, txn[d])
      /\ OnceOK(d) /\ FieldOK(d) /\ s \in reading[d]
      /\ cache \in [Devices -> [Paths -> Value]]
      /\ field[d] \in Sessions
  <2>1. TypeOK /\ PutsAgree(ws, n, txn[d]) /\ OnceOK(d) /\ FieldOK(d) /\ s \in reading[d]
    BY DEF IInv, DeviceOK, StartTransactions
  <2>2. field[d] # Null
    BY <2>1 DEF OnceOK, Asked
  <2>3. QED
    BY <2>1, <2>2 DEF TypeOK
<1>2. /\ reading' = [reading EXCEPT ![d] = @ \ {s}]
      /\ txn' = [txn EXCEPT ![d] = us]
      /\ cache' = [cache EXCEPT ![d] = cs]
      /\ \/ outstanding' = [outstanding EXCEPT ![d] = ((ws \o num) \o session) \o hours]
         \/ outstanding' = [outstanding EXCEPT ![d] = ((ws \o num) \o hours) \o session]
      /\ UNCHANGED <<rec, stored, counted, conn, answered, stage, field, popups,
                     viewing, toasted, faults>>
  BY DEF StartTransactions
<1>3. NumSessions \in Paths /\ TotalHours \in Paths /\ NumSessions # TotalHours
      /\ \A p \in Paths : p = NumSessions \/ p = TotalHours
  BY DEF Paths, NumSessions, TotalHours
<1>4. ASSUME NEW p \in Paths
      PROVE  /\ us[p] \in Transactions /\ TransactionsOK(us[p])
             /\ Ids(us[p].queue) = Ids(txn[d][p].queue) \cup {s}
             /\ txn[d][p].queue = <<>> =>
                  us[p].sent > 0 /\ us[p].reply = "none" /\ NoPut(p, ws)
             /\ txn[d][p].queue # <<>> =>
                  us[p].sent = txn[d][p].sent /\ us[p].reply = txn[d][p].reply
                  /\ Batch(us[p]) = Batch(txn[d][p])
             /\ cs[p] \in Value /\ in(p) \in Value
  <2>1. cache[d][p] \in Value
    BY <1>1
  <2>2. txn[d][p].out \in Value
    BY QueueOK, FieldsOK
  <2>3. in(p) \in Value
    BY <2>1, <2>2 DEF Latest, Value
  <2>4. cs[p] \in Value
    BY <2>1 DEF Value
  <2>5. us[p] = IF txn[d][p].queue = <<>>
                  THEN Sent(p, <<NewEntry(s)>>, in(p)) ELSE Enqueue(p, txn[d][p], s)
    OBVIOUS
  <2> DEFINE v == in(p)
  <2> HIDE DEF us, cs
  <2>6. v \in Value
    BY <2>3
  <2>7. us[p] = IF txn[d][p].queue = <<>>
                  THEN Sent(p, <<NewEntry(s)>>, v) ELSE Enqueue(p, txn[d][p], s)
    BY <2>5
  <2> HIDE DEF v
  <2> DEFINE t == txn[d][p]
             u == IF t.queue = <<>> THEN Sent(p, <<NewEntry(s)>>, v) ELSE Enqueue(p, t, s)
  <2>8. /\ u \in Transactions /\ TransactionsOK(u)
        /\ Ids(u.queue) = Ids(t.queue) \cup {s}
        /\ t.queue = <<>> => u.sent > 0 /\ u.reply = "none" /\ NoPut(p, ws)
        /\ t.queue # <<>> => u.sent = t.sent /\ u.reply = t.reply /\ Batch(u) = Batch(t)
    BY <1>1, <2>6, StartQueueOK
  <2>9. us[p] = u
    BY <2>7
  <2> HIDE DEF u
  <2>10. QED
    BY <2>3, <2>4, <2>8, <2>9
<1>5. session \in Seq(Writes) /\ \A p \in Paths : NoPut(p, session)
  <2>1. in(NumSessions) \in Value
    BY <1>3, <1>4
  <2> HIDE DEF in
  <2>2. QED
    BY <1>1, <2>1, SessionPutsOK
<1>6. /\ num \in Seq(Writes) /\ hours \in Seq(Writes)
      /\ Unique(NumSessions, num) /\ NoPut(TotalHours, num)
      /\ Unique(TotalHours, hours) /\ NoPut(NumSessions, hours)
      /\ txn[d][NumSessions].queue # <<>> => NoPut(NumSessions, num)
      /\ txn[d][TotalHours].queue # <<>> => NoPut(TotalHours, hours)
  <2>1. <<>> \in Seq(Writes) /\ \A p \in Paths : NoPut(p, <<>>) /\ Unique(p, <<>>)
    BY EmptySeq DEF NoPut, Unique
  <2>2. QED
    BY <1>3, <2>1, OnePutOK
<1> HIDE DEF us, cs, in, session, num, hours
<1>7. PutsAgree(ws, n, us)
  BY <1>1, <1>4, PutsQueues
<1>8. ws \o num \in Seq(Writes) /\ PutsAgree(ws \o num, n, us)
  <2>1. ASSUME NEW p \in Paths
        PROVE  \/ NoPut(p, num)
               \/ NoPut(p, ws) /\ Unique(p, num) /\ us[p].sent > 0 /\ us[p].reply = "none"
    BY <1>3, <1>4, <1>6
  <2>2. QED
    BY <1>1, <1>6, <1>7, <2>1, PutsAppend
<1>9. ASSUME NEW vs \in Seq(Writes), PutsAgree(vs, n, us),
             NoPut(TotalHours, ws) => NoPut(TotalHours, vs)
      PROVE  vs \o hours \in Seq(Writes) /\ PutsAgree(vs \o hours, n, us)
  <2>1. ASSUME NEW p \in Paths
        PROVE  \/ NoPut(p, hours)
               \/ NoPut(p, vs) /\ Unique(p, hours) /\ us[p].sent > 0 /\ us[p].reply = "none"
    BY <1>3, <1>4, <1>6, <1>9
  <2>2. QED
    BY <1>1, <1>6, <1>9, <2>1, PutsAppend
<1>10. ASSUME NEW vs \in Seq(Writes), PutsAgree(vs, n, us)
       PROVE  vs \o session \in Seq(Writes) /\ PutsAgree(vs \o session, n, us)
  BY <1>1, <1>5, <1>10, PutsAppend
<1>11. NoPut(TotalHours, ws) => NoPut(TotalHours, ws \o num)
                                /\ NoPut(TotalHours, (ws \o num) \o session)
  BY <1>1, <1>3, <1>5, <1>6, <1>8, NoPutConcat
<1>12. outstanding'[d] \in Seq(Writes) /\ PutsAgree(outstanding'[d], n, us)
  <2>1. ((ws \o num) \o session) \o hours \in Seq(Writes)
        /\ PutsAgree(((ws \o num) \o session) \o hours, n, us)
    BY <1>8, <1>9, <1>10, <1>11
  <2>2. ((ws \o num) \o hours) \o session \in Seq(Writes)
        /\ PutsAgree(((ws \o num) \o hours) \o session, n, us)
    BY <1>8, <1>9, <1>10, <1>11
  <2>3. \/ outstanding'[d] = ((ws \o num) \o session) \o hours
        \/ outstanding'[d] = ((ws \o num) \o hours) \o session
    BY <1>1, <1>2 DEF TypeOK
  <2>4. QED
    BY <2>1, <2>2, <2>3
<1>13. /\ outstanding' = [outstanding EXCEPT ![d] = outstanding'[d]]
       /\ txn'[d] = us
       /\ \A e \in Devices \ {d} :
             /\ outstanding'[e] = outstanding[e] /\ answered'[e] = answered[e]
             /\ txn'[e] = txn[e] /\ reading'[e] = reading[e]
  BY <1>1, <1>2 DEF TypeOK
<1>14. us \in [Paths -> Transactions] /\ cs \in [Paths -> Value]
  BY <1>4 DEF us, cs
<1>15. TypeOK'
  <2>1. outstanding' \in [Devices -> Seq(Writes)]
    BY <1>1, <1>12, <1>13 DEF TypeOK
  <2>2. txn' \in [Devices -> [Paths -> Transactions]] /\ cache' \in [Devices -> [Paths -> Value]]
    BY <1>1, <1>2, <1>14 DEF TypeOK
  <2>3. reading' \in [Devices -> SUBSET Sessions]
    BY <1>1, <1>2 DEF TypeOK
  <2>4. QED
    BY <1>1, <1>2, <2>1, <2>2, <2>3 DEF TypeOK
<1>16. PutsAgree(outstanding[d], answered[d], txn[d])'
  BY <1>2, <1>12, <1>13
<1>17. FieldOK(d)'
  BY <1>1, <1>2 DEF FieldOK
<1>18. OnceOK(d)'
  <2>1. reading'[d] = reading[d] \ {s}
    BY <1>1, <1>2 DEF TypeOK
  <2>2. s \in Asked(d) /\ s \notin popups[d] /\ Asked(d)' = Asked(d) \ {s}
    BY <1>1, <1>2, <2>1 DEF Asked, OnceOK
  <2>3. Owner[s] = d /\ stage[s] = "ended" /\ field[d] # Null
        /\ \A p \in Paths : s \notin counted[p]
    BY <1>1, <2>2 DEF OnceOK
  <2>4. (popups[d] \cap reading[d] = {})'
        /\ \A r \in Asked(d) : (Owner[r] = d /\ stage[r] = "ended" /\ field[d] # Null)'
    BY <1>1, <1>2, <2>1, <2>2 DEF OnceOK
  <2>5. ASSUME NEW p \in Paths
        PROVE  /\ \A r \in Asked(d)' : (r \notin counted[p] /\ r \notin Ids(txn[d][p].queue))'
               /\ \A r \in Ids(txn'[d][p].queue) :
                    (/\ Owner[r] = d /\ stage[r] = "ended" /\ field[d] # Null
                     /\ r \in counted[p] => txn[d][p].reply = "ok" /\ r \in Batch(txn[d][p]))'
    <3>1. Ids(txn'[d][p].queue) = Ids(txn[d][p].queue) \cup {s}
      BY <1>4, <1>13
    <3>2. \A r \in Asked(d)' : (r \notin counted[p] /\ r \notin Ids(txn[d][p].queue))'
      BY <1>1, <1>2, <2>2, <3>1 DEF OnceOK
    <3>3. \A r \in Ids(txn[d][p].queue) \cup {s} :
             Owner[r] = d /\ stage[r] = "ended" /\ field[d] # Null
      BY <1>1, <2>3 DEF OnceOK
    <3>4. ASSUME NEW r \in Ids(txn[d][p].queue), r \in counted[p]
          PROVE  txn'[d][p].reply = "ok" /\ r \in Batch(txn'[d][p])
      <4>1. txn[d][p].reply = "ok" /\ r \in Batch(txn[d][p])
        BY <1>1, <3>4 DEF OnceOK
      <4>2. txn[d][p].queue # <<>>
        <5>1. DOMAIN <<>> = {}
          OBVIOUS
        <5>2. QED
          BY <3>4, <5>1 DEF Ids
      <4>3. QED
        BY <1>4, <1>13, <4>1, <4>2
    <3>5. ASSUME s \in counted[p]
          PROVE  FALSE
      BY <2>3, <3>5
    <3>6. ASSUME NEW r \in Ids(txn'[d][p].queue)
          PROVE  (/\ Owner[r] = d /\ stage[r] = "ended" /\ field[d] # Null
                  /\ r \in counted[p] => txn[d][p].reply = "ok" /\ r \in Batch(txn[d][p]))'
      <4>1. r \in Ids(txn[d][p].queue) \cup {s}
        BY <3>1
      <4>2. (Owner[r] = d /\ stage[r] = "ended" /\ field[d] # Null)'
        BY <1>2, <3>3, <4>1
      <4>3. r \in counted'[p] => r \in Ids(txn[d][p].queue) /\ r \in counted[p]
        BY <1>2, <3>5, <4>1
      <4>4. QED
        BY <3>4, <4>2, <4>3
    <3>7. QED
      BY <3>2, <3>6
  <2>6. QED
    BY <1>2, <2>2, <2>4, <2>5 DEF OnceOK
<1>19. \A p \in Paths : TransactionsOK(txn[d][p])'
  BY <1>4, <1>13
<1>20. QED
  BY <1>2, <1>13, <1>15, <1>16, <1>17, <1>18, <1>19, QueueStepOK

\* Running what waits again leaves a queue in order.
LEMMA RunAgainOK ==
  ASSUME NEW p \in Paths, NEW t \in Transactions, TransactionsOK(t), NEW v \in Nat
  PROVE  LET u == RunAgain(p, t, v) IN
         /\ u \in Transactions /\ TransactionsOK(u)
         /\ u.queue = t.queue /\ u.sent = t.sent /\ u.reply = t.reply /\ Batch(u) = Batch(t)
         /\ u.val = t.val /\ u.now = t.now
         /\ u.out \in {t.out, Output(p, Ids(Waiting(t)), v)}
<1> DEFINE u == RunAgain(p, t, v)
           o == Output(p, Ids(Waiting(t)), v)
<1>1. CASE Waiting(t) = <<>>
  BY <1>1 DEF RunAgain
<1>2. CASE Waiting(t) # <<>>
  <2>1. o \in Value /\ o # Null
    <3>1. v \in Value /\ v # Null /\ Ids(Waiting(t)) \in SUBSET Sessions
      BY WaitingOK, ConstantsOK DEF Value
    <3>2. QED
      BY <3>1, OutputThere DEF Value
  <2>2. u = [t EXCEPT !.out = o]
    BY <1>2 DEF RunAgain
  <2> HIDE DEF o, u
  <2>3. /\ u.queue = t.queue /\ u.sent = t.sent /\ u.base = t.base /\ u.val = t.val
        /\ u.out = o /\ u.reply = t.reply /\ u.now = t.now /\ u \in Transactions
    BY <2>1, <2>2 DEF Transactions
  <2>4. TransactionsOK(u) /\ Batch(u) = Batch(t)
    BY <2>1, <2>3 DEF TransactionsOK, Batch
  <2>5. QED
    BY <2>3, <2>4 DEF u, o
<1>3. QED
  BY <1>1, <1>2

\* The answer to a read leaves the invariant: only the output of what waits changes,
\* and the writes of the sessions it runs again are put behind the others.
LEMMA AnswerReadOK ==
  ASSUME IInv, NEW d \in Devices, AnswerRead(d)
  PROVE  IInv'
<1> USE DEF server, app
<1> DEFINE us == [p \in Paths |-> RunAgain(p, txn[d][p], rec[p])]
           ws == outstanding[d]
           q == Waiting(txn[d][NumSessions])
           sets == SessionPuts(d, NumSessions, Len(q), rec[NumSessions])
<1>1. /\ TypeOK /\ ws \in Seq(Writes) /\ answered[d] \in Nat
      /\ PutsAgree(ws, answered[d], txn[d]) /\ OnceOK(d)
  BY DEF IInv, DeviceOK, TypeOK
<1>2. /\ faults' = [faults EXCEPT !.reruns = @ + 1]
      /\ cache' = [cache EXCEPT ![d] = rec]
      /\ txn' = [txn EXCEPT ![d] = us]
      /\ outstanding' = [outstanding EXCEPT ![d] = ws \o sets]
      /\ UNCHANGED <<rec, stored, counted, conn, answered, stage, field, popups, reading,
                     viewing, toasted>>
  <2>1. [txn EXCEPT ![d] = [p \in Paths |-> RunAgain(p, @[p], rec[p])]] = [txn EXCEPT ![d] = us]
    OBVIOUS
  <2> HIDE DEF us
  <2>2. QED
    BY <2>1 DEF AnswerRead
<1>3. rec \in [Paths -> Nat] /\ NumSessions \in Paths
  BY <1>1 DEF TypeOK, Paths
<1>4. ASSUME NEW p \in Paths
      PROVE  /\ us[p] \in Transactions /\ TransactionsOK(us[p])
             /\ us[p].queue = txn[d][p].queue /\ us[p].sent = txn[d][p].sent
             /\ us[p].reply = txn[d][p].reply /\ Batch(us[p]) = Batch(txn[d][p])
  <2>1. PICK v \in Nat : v = rec[p]
    BY <1>3
  <2>2. us[p] = RunAgain(p, txn[d][p], v)
    BY <2>1
  <2> HIDE DEF us
  <2>3. QED
    BY <2>2, QueueOK, RunAgainOK
<1>5. sets \in Seq(Writes) /\ \A p \in Paths : NoPut(p, sets)
  <2>1. q \in Seq(Entry) /\ Ids(q) \subseteq Ids(txn[d][NumSessions].queue)
    BY <1>3, QueueOK, WaitingOK
  <2>2. Ids(q) # {} => field[d] \in Sessions
    BY <1>3, <2>1, QueueOK
  <2>3. rec[NumSessions] \in Value
    BY <1>3 DEF Value
  <2> HIDE DEF q
  <2>4. Len(q) \in Nat
    BY <2>1, LenProperties
  <2>5. Len(q) > 0 => field[d] \in Sessions
    <3>1. CASE q = <<>>
      <4>1. Len(<<>>) = 0
        OBVIOUS
      <4>2. ~(Len(q) > 0)
        BY <3>1, <4>1
      <4>3. QED
        BY <4>2
    <3>2. CASE q # <<>>
      BY <2>1, <2>2, <3>2, IdsNonempty
    <3>3. QED
      BY <3>1, <3>2
  <2>6. QED
    BY <2>3, <2>4, <2>5, SessionPutsOK
<1> HIDE DEF us, q, sets
<1>6. PutsAgree(ws, answered[d], us)
  BY <1>1, <1>4, PutsQueues
<1>7. ws \o sets \in Seq(Writes) /\ PutsAgree(ws \o sets, answered[d], us)
  BY <1>1, <1>5, <1>6, PutsAppend
<1>8. us \in [Paths -> Transactions]
  BY <1>4 DEF us
<1>9. /\ outstanding'[d] = ws \o sets /\ txn'[d] = us
      /\ \A e \in Devices \ {d} : outstanding'[e] = outstanding[e] /\ txn'[e] = txn[e]
  BY <1>1, <1>2 DEF TypeOK
<1>10. TypeOK'
  <2>1. outstanding' \in [Devices -> Seq(Writes)]
    BY <1>1, <1>2, <1>7 DEF TypeOK
  <2>2. txn' \in [Devices -> [Paths -> Transactions]]
    BY <1>1, <1>2, <1>8 DEF TypeOK
  <2>3. cache' \in [Devices -> [Paths -> Value]]
    <3>1. rec \in [Paths -> Value]
      BY <1>3 DEF Value
    <3>2. QED
      BY <1>1, <1>2, <3>1 DEF TypeOK
  <2>4. faults' \in [disconnects : Nat, kills : Nat, reruns : Nat]
    BY <1>1, <1>2, FaultsOK DEF TypeOK
  <2>5. QED
    BY <1>1, <1>2, <2>1, <2>2, <2>3, <2>4 DEF TypeOK
<1>11. PutsAgree(outstanding[d], answered[d], txn[d])'
  BY <1>2, <1>7, <1>9
<1>12. FieldOK(d)'
  BY <1>2 DEF IInv, DeviceOK, FieldOK
<1>13. OnceOK(d)'
  <2>1. Asked(d)' = Asked(d)
    BY <1>2 DEF Asked
  <2>2. \A p \in Paths : /\ Ids(txn'[d][p].queue) = Ids(txn[d][p].queue)
                         /\ txn'[d][p].reply = txn[d][p].reply
                         /\ Batch(txn'[d][p]) = Batch(txn[d][p])
    BY <1>4, <1>9
  <2>3. QED
    BY <1>1, <1>2, <2>1, <2>2 DEF OnceOK
<1>14. \A p \in Paths : TransactionsOK(txn[d][p])'
  BY <1>4, <1>9
<1>15. QED
  BY <1>2, <1>9, <1>10, <1>11, <1>12, <1>13, <1>14, QueueStepOK

-----------------------------------------------------------------------------
(* Every step keeps the invariant.                                         *)

\* Every step keeps the invariant.
LEMMA StepOK == IInv /\ [Next]_vars => IInv'
<1> SUFFICES ASSUME IInv, [Next]_vars
             PROVE  IInv'
  OBVIOUS
<1>1. CASE Next
  <2>1. PICK d \in Devices :
          \/ Start(d) \/ Stop(d) \/ ReadHistory(d) \/ HistoryShown(d)
          \/ \E s \in Sessions : Submit(d, s) \/ Decline(d, s) \/ StartTransactions(d, s)
          \/ Serve(d) \/ Hear(d) \/ DataUpdate(d) \/ AnswerRead(d)
          \/ Disconnect(d) \/ Reconnect(d) \/ Kill(d)
    BY <1>1 DEF Next
  <2>2. CASE Start(d)
    BY <2>2, StartOK
  <2>3. CASE Stop(d)
    BY <2>3, StopOK
  <2>4. CASE Disconnect(d)
    BY <2>4, DisconnectOK
  <2>5. CASE Kill(d)
    BY <2>5, KillOK
  <2>6. CASE \E s \in Sessions : Submit(d, s) \/ Decline(d, s)
    BY <2>6, PopupOK
  <2>7. CASE \E s \in Sessions : StartTransactions(d, s)
    BY <2>7, StartTransactionsOK
  <2>8. CASE ServerSet(d)
    BY <2>8, ServerSetOK
  <2>9. CASE DataUpdate(d)
    BY <2>9, DataUpdateOK
  <2>10. CASE AckSet(d)
    BY <2>10, AckSetOK
  <2>11. CASE Reconnect(d)
    BY <2>11, ReconnectOK
  <2>12. CASE \E p \in Paths : ServerCompareAndPut(d, p)
    BY <2>12, ServerCompareAndPutOK
  <2>13. CASE \E p \in Paths : TransactionOk(d, p)
    BY <2>13, TransactionOkOK
  <2>14. CASE \E p \in Paths : TransactionStale(d, p)
    BY <2>14, TransactionStaleOK
  <2>15. CASE ReadHistory(d)
    BY <2>15, ReadHistoryOK
  <2>16. CASE HistoryShown(d)
    BY <2>16, HistoryShownOK
  <2>17. CASE AnswerRead(d)
    BY <2>17, AnswerReadOK
  <2>18. QED
    BY <2>1, <2>2, <2>3, <2>4, <2>5, <2>6, <2>7, <2>8, <2>9, <2>10, <2>11, <2>12,
       <2>13, <2>14, <2>15, <2>16, <2>17 DEF Serve, Hear
<1>2. CASE UNCHANGED vars
  <2>1. UNCHANGED <<rec, stored, counted, conn, outstanding, answered, cache, txn, stage,
                    field, popups, reading, viewing, toasted, faults>>
    BY <1>2 DEF vars, server, client, app
  <2>2. TypeOK'
    BY <2>1 DEF IInv, TypeOK
  <2>3. CountedOK'
    BY <2>1 DEF IInv, CountedOK
  <2>4. TypeOK /\ \A e \in Devices : DeviceOK(e)
    BY DEF IInv
  <2>5. \A e \in Devices : DeviceOK(e)'
    BY <2>1, <2>4, OtherDeviceOK
  <2>6. QED
    BY <2>2, <2>3, <2>5 DEF IInv
<1>3. QED
  BY <1>1, <1>2

-----------------------------------------------------------------------------
(* What the values are.  A queue goes on in one of a few ways, from the     *)
(* values its client knows: what is cached and the answer to its put.       *)

\* u is how the client goes on with the queue t of p, when it has the value c cached
\* and the server has counted C.
Continued(p, t, u, c, C) ==
  \/ u = t
  \/ \E q \in Seq(Entry), v \in {Null, c, t.now} :
       Distinct(q) /\ Ids(q) \cap C = {} /\ u = RunAll(p, q, v)
  \/ \E s \in Sessions \ (Ids(t.queue) \cup C) : t.sent > 0 /\ u = Enqueue(p, t, s)
  \/ t.reply = "ok" /\ Waiting(t) # <<>> /\ u = Carried(p, Waiting(t), t.now, t.out)

\* Nothing is counted, every queue of a device goes on, and it hears no other
\* value than the server's or an answer's.
GoesOn(d) == \A p \in Paths :
  /\ Continued(p, txn[d][p], txn'[d][p], cache[d][p], counted[p])
  /\ cache'[d][p] \in {Null, cache[d][p], rec[p], txn[d][p].now}

\* A step of one device that goes on is no step of the server.
Client(d) ==
  /\ UNCHANGED <<rec, counted>>
  /\ GoesOn(d)
  /\ \A e \in Devices \ {d} : txn'[e] = txn[e] /\ cache'[e] = cache[e]

\* A device that does nothing goes on.
LEMMA StillClient ==
  ASSUME UNCHANGED <<rec, counted, cache, txn>>, NEW d \in Devices
  PROVE  Client(d)
BY DEF Client, GoesOn, Continued

\* The user's steps, the server's ordinary writes and what is heard of the record
\* leave the queues alone.
LEMMA QuietClient ==
  ASSUME IInv, NEW d \in Devices,
         \/ Start(d) \/ Stop(d) \/ ReadHistory(d) \/ HistoryShown(d) \/ ServerSet(d)
         \/ AckSet(d) \/ DataUpdate(d) \/ Reconnect(d)
         \/ \E s \in Sessions : Submit(d, s) \/ Decline(d, s)
  PROVE  Client(d)
<1>1. CASE \/ Start(d) \/ Stop(d) \/ ReadHistory(d) \/ ServerSet(d) \/ AckSet(d)
           \/ Reconnect(d) \/ \E s \in Sessions : Submit(d, s) \/ Decline(d, s)
  <2>1. UNCHANGED <<rec, counted, cache, txn>>
    BY <1>1 DEF Start, Stop, ReadHistory, ServerSet, AckSet, Reconnect, Submit, Decline,
       server, client
  <2>2. QED
    BY <2>1, StillClient
<1>2. ASSUME UNCHANGED <<rec, counted, txn>>,
             NEW cs \in [Paths -> Value], cache' = [cache EXCEPT ![d] = cs],
             \A p \in Paths : cs[p] \in {Null, cache[d][p], rec[p]}
      PROVE  Client(d)
  <2>1. cache \in [Devices -> [Paths -> Value]]
    BY DEF IInv, TypeOK
  <2>2. cache'[d] = cs /\ \A e \in Devices \ {d} : cache'[e] = cache[e]
    BY <1>2, <2>1
  <2>3. QED
    BY <1>2, <2>2 DEF Client, GoesOn, Continued
<1>3. \A p \in Paths : cache[d][p] \in Value /\ rec[p] \in Value
  BY DEF IInv, TypeOK, Value
<1>4. CASE HistoryShown(d)
  <2> DEFINE cs == [p \in Paths |-> Keep(reading[d] # {}, txn[d][p].queue, cache[d][p])]
  <2>1. \A p \in Paths : cs[p] \in {Null, cache[d][p], rec[p]}
    BY DEF Keep
  <2>2. cs \in [Paths -> Value]
    BY <1>3 DEF Keep, Value
  <2>3. UNCHANGED <<rec, counted, txn>> /\ cache' = [cache EXCEPT ![d] = cs]
    BY <1>4 DEF HistoryShown, server
  <2> HIDE DEF cs
  <2>4. QED
    BY <1>2, <2>1, <2>2, <2>3
<1>5. CASE DataUpdate(d)
  <2> DEFINE cs == [p \in Paths |-> Keep(Listening(d), txn[d][p].queue, rec[p])]
  <2>1. \A p \in Paths : cs[p] \in {Null, cache[d][p], rec[p]}
    BY DEF Keep
  <2>2. cs \in [Paths -> Value]
    BY <1>3 DEF Keep, Value
  <2>3. UNCHANGED <<rec, counted, txn>> /\ cache' = [cache EXCEPT ![d] = cs]
    BY <1>5 DEF DataUpdate, server
  <2> HIDE DEF cs
  <2>4. QED
    BY <1>2, <2>1, <2>2, <2>3
<1>6. QED
  BY <1>1, <1>4, <1>5

\* A step that replaces the queues and what is cached of one device is the client's
\* if each of them goes on.
LEMMA QueuesClient ==
  ASSUME IInv, NEW d \in Devices, UNCHANGED <<rec, counted>>,
         NEW us, NEW cs, txn' = [txn EXCEPT ![d] = us], cache' = [cache EXCEPT ![d] = cs],
         \A p \in Paths : /\ Continued(p, txn[d][p], us[p], cache[d][p], counted[p])
                          /\ cs[p] \in {Null, cache[d][p], rec[p], txn[d][p].now}
  PROVE  Client(d)
<1>1. txn \in [Devices -> [Paths -> Transactions]] /\ cache \in [Devices -> [Paths -> Value]]
  BY DEF IInv, TypeOK
<1>2. /\ txn'[d] = us /\ cache'[d] = cs
      /\ \A e \in Devices \ {d} : txn'[e] = txn[e] /\ cache'[e] = cache[e]
  BY <1>1
<1>3. QED
  BY <1>2 DEF Client, GoesOn

\* So is one that replaces one queue of it.
LEMMA QueueClient ==
  ASSUME IInv, NEW d \in Devices, NEW p \in Paths, UNCHANGED <<rec, counted>>,
         NEW u, NEW c, txn' = [txn EXCEPT ![d][p] = u], cache' = [cache EXCEPT ![d][p] = c],
         Continued(p, txn[d][p], u, cache[d][p], counted[p]),
         c \in {Null, cache[d][p], rec[p], txn[d][p].now}
  PROVE  Client(d)
<1>1. txn \in [Devices -> [Paths -> Transactions]] /\ cache \in [Devices -> [Paths -> Value]]
  BY DEF IInv, TypeOK
<1>2. /\ txn'[d][p] = u /\ cache'[d][p] = c
      /\ \A o \in Paths \ {p} : txn'[d][o] = txn[d][o] /\ cache'[d][o] = cache[d][o]
      /\ \A e \in Devices \ {d} : txn'[e] = txn[e] /\ cache'[e] = cache[e]
  BY <1>1
<1>3. ASSUME NEW o \in Paths
      PROVE  /\ Continued(o, txn[d][o], txn'[d][o], cache[d][o], counted[o])
             /\ cache'[d][o] \in {Null, cache[d][o], rec[o], txn[d][o].now}
  <2>1. CASE o = p
    BY <1>2, <2>1
  <2>2. CASE o # p
    BY <1>2, <2>2 DEF Continued
  <2>3. QED
    BY <2>1, <2>2
<1>4. QED
  BY <1>2, <1>3 DEF Client, GoesOn

\* The answer to a put makes its queue go on.
LEMMA AnswerClient ==
  ASSUME IInv, NEW d \in Devices, NEW p \in Paths,
         TransactionOk(d, p) \/ TransactionStale(d, p)
  PROVE  Client(d)
<1> DEFINE t == txn[d][p]
<1>1. t \in Transactions /\ TransactionsOK(t)
  BY QueueOK
<1>2. CASE TransactionOk(d, p)
  <2> DEFINE rest == Waiting(t)
             u == IF rest = <<>> THEN Idle
                  ELSE [Sent(p, rest, t.now) EXCEPT !.val = t.out, !.out = t.out]
             c == Keep(Listening(d), rest, t.now)
  <2>1. /\ t.reply = "ok" /\ UNCHANGED <<rec, counted>>
        /\ txn' = [txn EXCEPT ![d][p] = u] /\ cache' = [cache EXCEPT ![d][p] = c]
    BY <1>2 DEF TransactionOk, server
  <2>2. c \in {Null, cache[d][p], rec[p], t.now}
    BY DEF Keep
  <2>3. CASE rest = <<>>
    <3>1. u = RunAll(p, <<>>, Null)
      BY <2>3 DEF RunAll
    <3>2. <<>> \in Seq(Entry) /\ Distinct(<<>>) /\ Ids(<<>>) = {}
      BY EmptySeq DEF Distinct, Ids
    <3> HIDE DEF u
    <3>3. Continued(p, t, u, cache[d][p], counted[p])
      BY <3>1, <3>2 DEF Continued
    <3> HIDE DEF t, c
    <3>4. QED
      BY <2>1, <2>2, <3>3, QueueClient DEF t
  <2>4. CASE rest # <<>>
    <3>1. u = Carried(p, rest, t.now, t.out)
      BY <2>4 DEF Carried
    <3> HIDE DEF u
    <3>2. Continued(p, t, u, cache[d][p], counted[p])
      BY <2>1, <2>4, <3>1 DEF Continued
    <3> HIDE DEF t, c
    <3>3. QED
      BY <2>1, <2>2, <3>2, QueueClient DEF t
  <2>5. QED
    BY <2>3, <2>4
<1>3. CASE TransactionStale(d, p)
  <2> DEFINE k == Cardinality({i \in DOMAIN t.queue : t.queue[i].tries >= MaxRetries})
             again == SubSeq(t.queue, k + 1, Len(t.queue))
             u == RunAll(p, again, t.now)
             c == Keep(Listening(d), again, t.now)
  <2>1. /\ t.reply = "datastale" /\ UNCHANGED <<rec, counted>>
        /\ txn' = [txn EXCEPT ![d][p] = u] /\ cache' = [cache EXCEPT ![d][p] = c]
    BY <1>3 DEF TransactionStale, server
  <2>2. c \in {Null, cache[d][p], rec[p], t.now}
    BY DEF Keep
  <2>3. t.queue \in Seq(Entry) /\ Distinct(t.queue)
    BY <1>1, FieldsOK DEF TransactionsOK
  <2>4. k \in 0..Len(t.queue)
    <3>1. Len(t.queue) \in Nat /\ DOMAIN t.queue = 1..Len(t.queue)
      BY <2>3, LenProperties
    <3>2. IsFiniteSet(1..Len(t.queue)) /\ Cardinality(1..Len(t.queue)) = Len(t.queue)
      BY <3>1, FS_Interval
    <3>3. {i \in DOMAIN t.queue : t.queue[i].tries >= MaxRetries} \in SUBSET (1..Len(t.queue))
      BY <3>1
    <3>4. k <= Len(t.queue) /\ k \in Nat
      BY <3>2, <3>3, FS_Subset, FS_CardinalityType
    <3>5. QED
      BY <3>1, <3>4
  <2> HIDE DEF k
  <2>5. /\ again \in Seq(Entry) /\ Distinct(again)
        /\ Ids(again) = {t.queue[i].id : i \in (k + 1)..Len(t.queue)}
    BY <2>3, <2>4, SuffixOK
  <2>6. Ids(again) \subseteq Ids(t.queue)
    <3>1. Len(t.queue) \in Nat /\ DOMAIN t.queue = 1..Len(t.queue)
      BY <2>3, LenProperties
    <3>2. (k + 1)..Len(t.queue) \subseteq DOMAIN t.queue
      BY <2>4, <3>1
    <3>3. QED
      BY <2>5, <3>2 DEF Ids
  <2>7. Ids(again) \cap counted[p] = {}
    BY <2>1, <2>6, QueueOK
  <2> HIDE DEF again, c
  <2>8. Continued(p, t, u, cache[d][p], counted[p])
    BY <2>5, <2>7 DEF Continued
  <2> HIDE DEF t, u
  <2>9. QED
    BY <2>1, <2>2, <2>8, QueueClient DEF t
<1>4. QED
  BY <1>2, <1>3

\* After a failure every queue goes on with what waited, or with nothing.
LEMMA FailureClient ==
  ASSUME IInv, NEW d \in Devices, Disconnect(d) \/ Kill(d)
  PROVE  Client(d)
<1>1. CASE Disconnect(d)
  <2> DEFINE us == [p \in Paths |-> RunAll(p, Waiting(txn[d][p]), cache[d][p])]
             cs == [p \in Paths |-> Keep(Listening(d), Waiting(txn[d][p]), cache[d][p])]
  <2>1. /\ txn' = [txn EXCEPT ![d] = us] /\ cache' = [cache EXCEPT ![d] = cs]
        /\ UNCHANGED <<rec, counted>>
    <3> DEFINE rest == [p \in Paths |-> Waiting(txn[d][p])]
    <3>1. /\ txn' = [txn EXCEPT ![d] = [p \in Paths |-> RunAll(p, rest[p], cache[d][p])]]
          /\ cache' = [cache EXCEPT ![d] =
               [p \in Paths |-> Keep(Listening(d), rest[p], cache[d][p])]]
          /\ UNCHANGED <<rec, counted>>
      BY <1>1 DEF Disconnect, server
    <3>2. /\ us = [p \in Paths |-> RunAll(p, rest[p], cache[d][p])]
          /\ cs = [p \in Paths |-> Keep(Listening(d), rest[p], cache[d][p])]
      OBVIOUS
    <3> HIDE DEF us, cs, rest
    <3>3. QED
      BY <3>1, <3>2
  <2>2. ASSUME NEW p \in Paths
        PROVE  /\ Continued(p, txn[d][p], us[p], cache[d][p], counted[p])
               /\ cs[p] \in {Null, cache[d][p], rec[p], txn[d][p].now}
    <3> DEFINE q == Waiting(txn[d][p])
    <3>1. q \in Seq(Entry) /\ Distinct(q) /\ Ids(q) \cap counted[p] = {}
      BY QueueOK, WaitingOK
    <3>2. us[p] = RunAll(p, q, cache[d][p]) /\ cs[p] = Keep(Listening(d), q, cache[d][p])
      OBVIOUS
    <3> HIDE DEF q, us, cs
    <3>3. Continued(p, txn[d][p], us[p], cache[d][p], counted[p])
      BY <3>1, <3>2 DEF Continued
    <3>4. QED
      BY <3>2, <3>3 DEF Keep
  <2> HIDE DEF us, cs
  <2>3. QED
    BY <2>1, <2>2, QueuesClient
<1>2. CASE Kill(d)
  <2> DEFINE us == [p \in Paths |-> Idle]
             cs == [p \in Paths |-> Null]
  <2>1. /\ txn' = [txn EXCEPT ![d] = us] /\ cache' = [cache EXCEPT ![d] = cs]
        /\ UNCHANGED <<rec, counted>>
    BY <1>2 DEF Kill, server
  <2>2. ASSUME NEW p \in Paths
        PROVE  /\ Continued(p, txn[d][p], us[p], cache[d][p], counted[p])
               /\ cs[p] \in {Null, cache[d][p], rec[p], txn[d][p].now}
    <3>1. us[p] = RunAll(p, <<>>, Null) /\ cs[p] = Null
      BY DEF RunAll
    <3>2. <<>> \in Seq(Entry) /\ Distinct(<<>>) /\ Ids(<<>>) = {}
      BY EmptySeq DEF Distinct, Ids
    <3> HIDE DEF us, cs
    <3>3. Continued(p, txn[d][p], us[p], cache[d][p], counted[p])
      BY <3>1, <3>2 DEF Continued
    <3>4. QED
      BY <3>1, <3>3
  <2> HIDE DEF us, cs
  <2>3. QED
    BY <2>1, <2>2, QueuesClient
<1>3. QED
  BY <1>1, <1>2

\* Starting the transactions of a submission sends the first one of a path, from
\* what is cached or from nothing, or puts one more behind the others.
LEMMA StartTransactionsClient ==
  ASSUME IInv, NEW d \in Devices, NEW s \in Sessions, StartTransactions(d, s)
  PROVE  Client(d)
<1> DEFINE listening == viewing[d] \/ reading[d] # {s}
           in(p) == Latest(d, p, listening)
           us == [p \in Paths |-> IF txn[d][p].queue = <<>>
                    THEN Sent(p, <<NewEntry(s)>>, in(p)) ELSE Enqueue(p, txn[d][p], s)]
           cs == [p \in Paths |->
                    IF listening \/ txn[d][p].queue # <<>> THEN cache[d][p] ELSE Null]
<1>1. /\ txn' = [txn EXCEPT ![d] = us] /\ cache' = [cache EXCEPT ![d] = cs]
      /\ s \in reading[d] /\ UNCHANGED <<rec, counted>>
  BY DEF StartTransactions, server
<1>2. ASSUME NEW p \in Paths
      PROVE  /\ Continued(p, txn[d][p], us[p], cache[d][p], counted[p])
             /\ cs[p] \in {Null, cache[d][p], rec[p], txn[d][p].now}
  <2> DEFINE t == txn[d][p]
  <2>1. t \in Transactions /\ TransactionsOK(t)
    BY QueueOK
  <2>2. s \notin counted[p] /\ s \notin Ids(t.queue)
    BY <1>1 DEF IInv, DeviceOK, OnceOK, Asked
  <2>3. cs[p] \in {Null, cache[d][p]}
    OBVIOUS
  <2>4. us[p] = IF t.queue = <<>> THEN Sent(p, <<NewEntry(s)>>, in(p)) ELSE Enqueue(p, t, s)
    OBVIOUS
  <2>5. t.queue = <<>> => in(p) \in {Null, cache[d][p]}
    BY DEF Latest
  <2> DEFINE v == in(p)
             q == <<NewEntry(s)>>
  <2> HIDE DEF us, cs, in
  <2>6. Continued(p, t, us[p], cache[d][p], counted[p])
    <3>1. CASE t.queue = <<>>
      <4>1. NewEntry(s) \in Entry /\ NewEntry(s).id = s
        BY DEF NewEntry, Entry
      <4>2. q \in Seq(Entry) /\ DOMAIN q = {1} /\ q[1] = NewEntry(s) /\ q # <<>>
        BY <4>1
      <4>3. Distinct(q) /\ Ids(q) = {s}
        BY <4>1, <4>2 DEF Distinct, Ids
      <4>4. us[p] = RunAll(p, q, v)
        BY <2>4, <3>1, <4>2 DEF RunAll
      <4> HIDE DEF q, t
      <4>5. v \in {Null, cache[d][p], t.now}
        BY <2>5, <3>1
      <4> HIDE DEF v
      <4>6. QED
        BY <2>2, <4>2, <4>3, <4>4, <4>5 DEF Continued
    <3>2. CASE t.queue # <<>>
      <4>1. t.sent > 0
        BY <2>1, <3>2, FieldsOK DEF TransactionsOK
      <4>2. us[p] = Enqueue(p, t, s)
        BY <2>4, <3>2
      <4> HIDE DEF t
      <4>3. s \in Sessions \ (Ids(t.queue) \cup counted[p])
        BY <2>2
      <4>4. QED
        BY <4>1, <4>2, <4>3 DEF Continued
    <3>3. QED
      BY <3>1, <3>2
  <2>7. QED
    BY <2>3, <2>6
<1> HIDE DEF us, cs
<1>3. QED
  BY <1>1, <1>2, QueuesClient

\* A step is the server answering a put, the answer to a read, or the client's.
LEMMA WhoseStep ==
  ASSUME IInv, [Next]_vars
  PROVE  \/ \E d \in Devices, p \in Paths : ServerCompareAndPut(d, p)
         \/ \E d \in Devices : AnswerRead(d)
         \/ \E d \in Devices : Client(d)
         \/ UNCHANGED <<rec, counted, cache, txn, faults>>
<1>1. CASE Next
  <2>1. PICK d \in Devices :
          \/ Start(d) \/ Stop(d) \/ ReadHistory(d) \/ HistoryShown(d)
          \/ \E s \in Sessions : Submit(d, s) \/ Decline(d, s) \/ StartTransactions(d, s)
          \/ Serve(d) \/ Hear(d) \/ DataUpdate(d) \/ AnswerRead(d)
          \/ Disconnect(d) \/ Reconnect(d) \/ Kill(d)
    BY <1>1 DEF Next
  <2>2. CASE \/ Start(d) \/ Stop(d) \/ ReadHistory(d) \/ HistoryShown(d) \/ ServerSet(d)
             \/ AckSet(d) \/ DataUpdate(d) \/ Reconnect(d)
             \/ \E s \in Sessions : Submit(d, s) \/ Decline(d, s)
    <3>1. Client(d)
      BY <2>2, QuietClient
    <3>2. QED
      BY <3>1
  <2>3. CASE \E p \in Paths : TransactionOk(d, p) \/ TransactionStale(d, p)
    <3>1. Client(d)
      BY <2>3, AnswerClient
    <3>2. QED
      BY <3>1
  <2>4. CASE Disconnect(d) \/ Kill(d)
    <3>1. Client(d)
      BY <2>4, FailureClient
    <3>2. QED
      BY <3>1
  <2>5. CASE \E s \in Sessions : StartTransactions(d, s)
    <3>1. Client(d)
      BY <2>5, StartTransactionsClient
    <3>2. QED
      BY <3>1
  <2>6. CASE AnswerRead(d) \/ \E p \in Paths : ServerCompareAndPut(d, p)
    BY <2>6
  <2>7. QED
    BY <2>1, <2>2, <2>3, <2>4, <2>5, <2>6 DEF Serve, Hear
<1>2. CASE UNCHANGED vars
  BY <1>2 DEF vars, server, client
<1>3. QED
  BY <1>1, <1>2

\* What the server's answer to a put changes.
LEMMA ServerStep ==
  ASSUME IInv, NEW d \in Devices, NEW p \in Paths, ServerCompareAndPut(d, p)
  PROVE  LET t == txn[d][p]
             u == txn'[d][p]
         IN  /\ u.queue = t.queue /\ u.sent = t.sent /\ u.base = t.base
             /\ u.val = t.val /\ u.out = t.out /\ u.now = rec'[p] /\ Batch(u) = Batch(t)
             /\ u.reply = IF t.base = rec[p] THEN "ok" ELSE "datastale"
             /\ rec'[p] = IF t.base = rec[p] THEN t.val ELSE rec[p]
             /\ counted'[p] = IF t.base = rec[p] THEN counted[p] \cup Batch(t) ELSE counted[p]
<1> DEFINE t == txn[d][p]
           ok == t.base = rec[p]
           u == [t EXCEPT !.reply = IF ok THEN "ok" ELSE "datastale", !.now = rec'[p]]
<1>1. /\ rec' = IF ok THEN [rec EXCEPT ![p] = t.val] ELSE rec
      /\ counted' = IF ok THEN [counted EXCEPT ![p] = @ \cup Batch(t)] ELSE counted
      /\ txn' = [txn EXCEPT ![d][p] = u]
      /\ cache' = cache
  BY DEF ServerCompareAndPut, Accepts
<1>2. /\ rec \in [Paths -> Nat] /\ counted \in [Paths -> SUBSET Sessions]
      /\ txn \in [Devices -> [Paths -> Transactions]] /\ t \in Transactions
  BY DEF IInv, TypeOK
<1>3. /\ u.queue = t.queue /\ u.sent = t.sent /\ u.base = t.base
      /\ u.val = t.val /\ u.out = t.out /\ u.now = rec'[p]
      /\ u.reply = IF ok THEN "ok" ELSE "datastale"
  BY <1>2 DEF Transactions
<1> HIDE DEF u
<1>4. txn'[d][p] = u
  BY <1>1, <1>2
<1>5. Batch(u) = Batch(t)
  BY <1>3 DEF Batch
<1>6. rec'[p] = IF ok THEN t.val ELSE rec[p]
  BY <1>1, <1>2
<1>7. counted'[p] = IF ok THEN counted[p] \cup Batch(t) ELSE counted[p]
  BY <1>1, <1>2
<1> HIDE DEF t
<1>8. QED
  BY <1>3, <1>4, <1>5, <1>6, <1>7 DEF t

\* What it leaves alone: the other counter, the other queues and what is cached.
LEMMA ServerFrame ==
  ASSUME IInv, NEW d \in Devices, NEW p \in Paths, ServerCompareAndPut(d, p)
  PROVE  /\ \A o \in Paths : o # p => rec'[o] = rec[o] /\ counted'[o] = counted[o]
         /\ \A e \in Devices, o \in Paths : e # d \/ o # p => txn'[e][o] = txn[e][o]
         /\ cache' = cache
<1>1. /\ rec \in [Paths -> Nat] /\ counted \in [Paths -> SUBSET Sessions]
      /\ txn \in [Devices -> [Paths -> Transactions]]
  BY DEF IInv, TypeOK
<1>2. PICK r, C, u :
        /\ rec' = rec \/ rec' = [rec EXCEPT ![p] = r]
        /\ counted' = counted \/ counted' = [counted EXCEPT ![p] = C]
        /\ txn' = [txn EXCEPT ![d][p] = u]
        /\ cache' = cache
  BY DEF ServerCompareAndPut
<1>3. \A o \in Paths : o # p => rec'[o] = rec[o] /\ counted'[o] = counted[o]
  BY <1>1, <1>2
<1>4. \A e \in Devices, o \in Paths : e # d \/ o # p => txn'[e][o] = txn[e][o]
  BY <1>1, <1>2
<1>5. QED
  BY <1>2, <1>3, <1>4

-----------------------------------------------------------------------------
(* No update is lost: as long as AnswerRead runs nothing again, every value *)
(* is computed from the hash's and the counters add up.                     *)

\* A queue that goes on goes on computing from the hash's value.
LEMMA ExactContinued ==
  ASSUME NEW p \in Paths, NEW t \in Transactions, TransactionsOK(t), Exact(p, t),
         NEW c \in Value, NEW C, NEW u, Continued(p, t, u, c, C)
  PROVE  Exact(p, u)
<1>1. t.now \in Value /\ t.out \in Value /\ Null \in Value
  BY FieldsOK DEF Value
<1>2. CASE u = t
  BY <1>2
<1>3. ASSUME NEW q \in Seq(Entry), NEW v \in {Null, c, t.now}, Distinct(q), u = RunAll(p, q, v)
      PROVE  Exact(p, u)
  <2>1. v \in Value
    BY <1>1
  <2>2. Exact(p, RunAll(p, q, v))
    BY <1>3, <2>1, RunAllOK
  <2>3. QED
    BY <1>3, <2>2
<1>4. ASSUME NEW s \in Sessions, s \notin Ids(t.queue), t.sent > 0, u = Enqueue(p, t, s)
      PROVE  Exact(p, u)
  BY <1>4, EnqueueExact
<1>5. CASE t.reply = "ok" /\ Waiting(t) # <<>> /\ u = Carried(p, Waiting(t), t.now, t.out)
  <2>1. PICK q \in Seq(Entry), v \in Value, o \in Value :
          q = Waiting(t) /\ v = t.now /\ o = t.out /\ o = Output(p, Ids(q), v)
    BY <1>1, <1>5, WaitingOK, RestOK
  <2> DEFINE x == Sent(p, q, v)
  <2>2. x.val = o /\ x.out = o /\ x \in Transactions
    <3>1. x.val = Output(p, Ids(q), v) /\ x.out = Output(p, Ids(q), v)
      BY DEF Sent
    <3>2. x \in Transactions
      BY <1>5, <2>1, WaitingOK, SentOK
    <3>3. QED
      BY <2>1, <3>1, <3>2
  <2>3. Exact(p, x)
    BY <1>5, <2>1, WaitingOK, SentOK
  <2>4. u = [x EXCEPT !.val = o, !.out = o]
    BY <1>5, <2>1 DEF Carried
  <2> HIDE DEF x
  <2>5. u = x
    BY <2>2, <2>4, SameOutput
  <2>6. QED
    BY <2>3, <2>5
<1>6. QED
  BY <1>2, <1>3, <1>4, <1>5 DEF Continued

\* Nothing is counted at first, and there is nothing to compute.
LEMMA ExactInit == Init => ExactInv
BY IdleOK, AmountEmpty DEF Init, ExactInv, CountersAddUp

\* A client that goes on leaves every value exact.
LEMMA ExactClient ==
  ASSUME IInv, ExactInv, NEW d \in Devices, Client(d)
  PROVE  ExactInv'
<1>1. CountersAddUp'
  BY DEF ExactInv, CountersAddUp, Client
<1>2. ASSUME NEW e \in Devices, NEW p \in Paths
      PROVE  Exact(p, txn'[e][p])
  <2>1. CASE e # d
    BY <2>1 DEF Client, ExactInv
  <2>2. CASE e = d
    <3>1. Continued(p, txn[d][p], txn'[d][p], cache[d][p], counted[p])
      BY DEF Client, GoesOn
    <3>2. cache[d][p] \in Value
      BY DEF IInv, TypeOK
    <3>3. txn[d][p] \in Transactions /\ TransactionsOK(txn[d][p]) /\ Exact(p, txn[d][p])
      BY QueueOK DEF ExactInv
    <3>4. Exact(p, txn'[d][p])
      BY <3>1, <3>2, <3>3, ExactContinued
    <3>5. QED
      BY <2>2, <3>4
  <2>3. QED
    BY <2>1, <2>2
<1>3. QED
  BY <1>1, <1>2 DEF ExactInv

\* A put the server takes adds its batch to the counter and to what is counted.
LEMMA ExactServer ==
  ASSUME IInv, ExactInv, NEW d \in Devices, NEW p \in Paths, ServerCompareAndPut(d, p)
  PROVE  ExactInv'
<1> DEFINE t == txn[d][p]
<1>1. /\ t.base = rec[p] => t.val = rec[p] + Amount(p, Batch(t))
      /\ Batch(t) \in SUBSET Sessions /\ counted[p] \cap Batch(t) = {}
      /\ counted[p] \in SUBSET Sessions /\ rec[p] = Amount(p, counted[p])
  <2>1. counted[p] \in SUBSET Sessions /\ Exact(p, t) /\ rec[p] = Amount(p, counted[p])
    BY DEF IInv, TypeOK, ExactInv, CountersAddUp
  <2>2. QED
    BY <2>1, ServerEnters
<1>2. /\ rec'[p] = IF t.base = rec[p] THEN t.val ELSE rec[p]
      /\ counted'[p] = IF t.base = rec[p] THEN counted[p] \cup Batch(t) ELSE counted[p]
  BY ServerStep
<1>3. /\ \A o \in Paths : o # p => rec'[o] = rec[o] /\ counted'[o] = counted[o]
      /\ \A e \in Devices, o \in Paths : e # d \/ o # p => txn'[e][o] = txn[e][o]
  BY ServerFrame
<1>4. rec'[p] = Amount(p, counted'[p])
  <2>1. Amount(p, counted[p] \cup Batch(t)) = Amount(p, counted[p]) + Amount(p, Batch(t))
    BY <1>1, AmountUnion
  <2> HIDE DEF t
  <2>2. QED
    BY <1>1, <1>2, <2>1
<1>5. CountersAddUp'
  <2>1. \A o \in Paths \ {p} : rec'[o] = Amount(o, counted'[o])
    BY <1>3 DEF ExactInv, CountersAddUp
  <2>2. QED
    BY <1>4, <2>1 DEF CountersAddUp
<1>6. ASSUME NEW e \in Devices, NEW o \in Paths
      PROVE  Exact(o, txn'[e][o])
  <2>1. CASE e = d /\ o = p
    <3>1. /\ txn'[d][p].queue = t.queue /\ txn'[d][p].base = t.base
          /\ txn'[d][p].val = t.val /\ txn'[d][p].out = t.out
          /\ Batch(txn'[d][p]) = Batch(t)
      BY ServerStep
    <3>2. Exact(p, t)
      BY DEF ExactInv
    <3>3. Exact(p, txn'[d][p])
      BY <3>1, <3>2 DEF Exact
    <3>4. QED
      BY <2>1, <3>3
  <2>2. CASE ~(e = d /\ o = p)
    <3>1. txn'[e][o] = txn[e][o]
      BY <1>3, <2>2
    <3>2. QED
      BY <3>1 DEF ExactInv
  <2>3. QED
    BY <2>1, <2>2
<1>7. QED
  BY <1>5, <1>6 DEF ExactInv

\* Every step that runs nothing again leaves every value exact.
LEMMA ExactStep ==
  ASSUME IInv, ExactInv, [Next]_vars, faults.reruns' = 0
  PROVE  ExactInv'
<1>1. CASE \E d \in Devices, p \in Paths : ServerCompareAndPut(d, p)
  BY <1>1, ExactServer
<1>2. CASE \E d \in Devices : AnswerRead(d)
  <2>1. faults.reruns \in Nat /\ faults.reruns' = faults.reruns + 1
    BY <1>2 DEF IInv, TypeOK, AnswerRead
  <2>2. QED
    BY <2>1
<1>3. CASE \E d \in Devices : Client(d)
  BY <1>3, ExactClient
<1>4. CASE UNCHANGED <<rec, counted, cache, txn, faults>>
  BY <1>4 DEF ExactInv, CountersAddUp
<1>5. QED
  BY <1>1, <1>2, <1>3, <1>4, WhoseStep

-----------------------------------------------------------------------------
(* No submission is ever counted twice: every value is what some            *)
(* submissions add up to, whatever runs again.                              *)

\* What is known of fewer submissions is known of more.
LEMMA KnownMore ==
  ASSUME NEW p \in Paths, NEW v, NEW C, NEW D, C \subseteq D, Known(p, v, C)
  PROVE  Known(p, v, D)
BY DEF Known

\* What is computed for submissions of its own from what is known.
LEMMA KnownOutput ==
  ASSUME NEW p \in Paths, NEW v, NEW C \in SUBSET Sessions, NEW T \in SUBSET Sessions,
         Known(p, v, C), T \cap C = {}
  PROVE  Known(p, Output(p, T, v), C \cup T)
<1>1. CASE v = Null
  BY <1>1 DEF Known, Output
<1>2. CASE v # Null
  <2>1. PICK S \in SUBSET C : v = Amount(p, S)
    BY <1>2 DEF Known
  <2>2. S \in SUBSET Sessions /\ S \cap T = {} /\ S \cup T \in SUBSET (C \cup T)
    OBVIOUS
  <2>3. Amount(p, S \cup T) = Amount(p, S) + Amount(p, T)
    BY <2>2, AmountUnion
  <2>4. Output(p, T, v) = Amount(p, S \cup T)
    BY <1>2, <2>1, <2>3 DEF Output
  <2>5. QED
    BY <2>2, <2>4 DEF Known
<1>3. QED
  BY <1>1, <1>2

\* A queue run from what is known computes what is known with its submissions.
LEMMA SumsRunAll ==
  ASSUME NEW p \in Paths, NEW C \in SUBSET Sessions, NEW q \in Seq(Entry),
         Ids(q) \cap C = {}, NEW v, Known(p, v, C)
  PROVE  Sums(p, RunAll(p, q, v), C)
<1>1. CASE q = <<>>
  <2>1. Idle.now = Null /\ Idle.val = Null /\ Idle.out = Null /\ Idle.reply = "none"
    BY DEF Idle
  <2>2. RunAll(p, q, v) = Idle
    BY <1>1 DEF RunAll
  <2>3. QED
    BY <2>1, <2>2 DEF Sums, Known
<1>2. CASE q # <<>>
  <2> DEFINE x == Sent(p, q, v)
             r == [i \in 1..Len(q) |-> [id |-> q[i].id, tries |-> q[i].tries + 1]]
  <2>1. /\ x.queue = r /\ x.sent = Len(q) /\ x.now = Null /\ x.reply = "none"
        /\ x.val = Output(p, Ids(q), v) /\ x.out = Output(p, Ids(q), v)
    BY DEF Sent
  <2>2. Len(q) \in Nat /\ DOMAIN q = 1..Len(q)
    BY LenProperties
  <2>3. Ids(r) = Ids(q)
    BY <2>2 DEF Ids
  <2>4. Ids(x.queue) = Ids(q)
    BY <2>1, <2>3
  <2>5. Batch(x) = Ids(q)
    <3>1. Batch(x) = {r[i].id : i \in 1..Len(q)}
      BY <2>1 DEF Batch
    <3>2. Ids(r) = {r[i].id : i \in 1..Len(q)}
      BY DEF Ids
    <3>3. QED
      BY <2>3, <3>1, <3>2
  <2>6. Known(p, Output(p, Ids(q), v), C \cup Ids(q))
    BY IdsType, KnownOutput
  <2>7. Known(p, Null, C)
    BY DEF Known
  <2>8. RunAll(p, q, v) = x
    BY <1>2 DEF RunAll
  <2> HIDE DEF x
  <2>9. QED
    BY <2>1, <2>4, <2>5, <2>6, <2>7, <2>8 DEF Sums
<1>3. QED
  BY <1>1, <1>2

\* One more behind the others adds its own submission to what they compute.
LEMMA SumsEnqueue ==
  ASSUME NEW p \in Paths, NEW C \in SUBSET Sessions, NEW t \in Transactions,
         TransactionsOK(t), Sums(p, t, C), t.sent > 0,
         NEW s \in Sessions, s \notin Ids(t.queue), s \notin C
  PROVE  Sums(p, Enqueue(p, t, s), C)
<1> DEFINE u == Enqueue(p, t, s)
<1>1. Ids(u.queue) = Ids(t.queue) \cup {s} /\ Batch(u) = Batch(t)
  BY EnqueueOK
<1>2. u.reply = t.reply /\ u.now = t.now /\ u.val = t.val /\ u.out = Output(p, {s}, t.out)
  BY EnqueueValues
<1>3. /\ C \cup Ids(t.queue) \in SUBSET Sessions /\ {s} \in SUBSET Sessions
      /\ {s} \cap (C \cup Ids(t.queue)) = {}
  BY FieldsOK, IdsType
<1>4. Known(p, Output(p, {s}, t.out), (C \cup Ids(t.queue)) \cup {s})
  BY <1>3, KnownOutput DEF Sums
<1>5. (C \cup Ids(t.queue)) \cup {s} = C \cup (Ids(t.queue) \cup {s})
  OBVIOUS
<1> HIDE DEF u
<1>6. Known(p, u.out, C \cup Ids(u.queue))
  BY <1>1, <1>2, <1>4, <1>5
<1>7. Sums(p, u, C)
  BY <1>1, <1>2, <1>6 DEF Sums
<1>8. QED
  BY <1>7 DEF u

\* What waited behind an accepted batch carries its value on: the batch is counted.
LEMMA SumsCarried ==
  ASSUME NEW p \in Paths, NEW C \in SUBSET Sessions, NEW t \in Transactions,
         TransactionsOK(t), Sums(p, t, C), t.reply = "ok", Waiting(t) # <<>>
  PROVE  Sums(p, Carried(p, Waiting(t), t.now, t.out), C)
<1>1. PICK q \in Seq(Entry), v \in Value, o \in Value :
        /\ q = Waiting(t) /\ v = t.now /\ o = t.out /\ o # Null /\ q # <<>> /\ Distinct(q)
  BY WaitingOK, FieldsOK DEF TransactionsOK
<1> DEFINE w == Carried(p, q, v, o)
<1>2. /\ w \in Transactions /\ TransactionsOK(w) /\ Ids(w.queue) = Ids(q)
      /\ w.reply = "none" /\ w.now = Null /\ w.val = o /\ w.out = o
  BY <1>1, CarriedOK
<1>3. Batch(w) = Ids(q)
  <2>1. w.sent = Len(q) /\ w.queue = [i \in 1..Len(q) |-> [id |-> q[i].id, tries |-> q[i].tries + 1]]
    BY DEF Carried, Sent
  <2>2. Len(q) \in Nat /\ DOMAIN q = 1..Len(q)
    BY LenProperties
  <2> HIDE DEF w
  <2>3. QED
    BY <2>1, <2>2 DEF Batch, Ids
<1> HIDE DEF w
<1>4. C \cup Ids(t.queue) = C \cup Ids(q)
  BY <1>1, WaitingOK DEF Sums
<1>5. Known(p, o, C \cup Ids(q))
  BY <1>1, <1>4 DEF Sums
<1>6. Known(p, Null, C)
  BY DEF Known
<1>7. Sums(p, w, C)
  BY <1>2, <1>3, <1>5, <1>6 DEF Sums
<1>8. QED
  BY <1>1, <1>7 DEF w

\* However a queue goes on, it computes sums.
LEMMA SumsContinued ==
  ASSUME NEW p \in Paths, NEW C \in SUBSET Sessions, NEW t \in Transactions,
         TransactionsOK(t), Sums(p, t, C), NEW c, Known(p, c, C),
         NEW u, Continued(p, t, u, c, C)
  PROVE  Sums(p, u, C)
<1>1. CASE u = t
  BY <1>1
<1>2. ASSUME NEW q \in Seq(Entry), NEW v \in {Null, c, t.now}, Ids(q) \cap C = {},
             u = RunAll(p, q, v)
      PROVE  Sums(p, u, C)
  <2>1. Known(p, Null, C) /\ Known(p, t.now, C)
    BY DEF Known, Sums
  <2>2. Known(p, v, C)
    BY <2>1
  <2>3. Sums(p, RunAll(p, q, v), C)
    BY <1>2, <2>2, SumsRunAll
  <2>4. QED
    BY <1>2, <2>3
<1>3. ASSUME NEW s \in Sessions \ (Ids(t.queue) \cup C), t.sent > 0, u = Enqueue(p, t, s)
      PROVE  Sums(p, u, C)
  BY <1>3, SumsEnqueue
<1>4. CASE t.reply = "ok" /\ Waiting(t) # <<>> /\ u = Carried(p, Waiting(t), t.now, t.out)
  BY <1>4, SumsCarried
<1>5. QED
  BY <1>1, <1>2, <1>3, <1>4 DEF Continued

\* At first every counter is 0, and nothing is known.
LEMMA SumsInit == Init => SumsInv
<1> SUFFICES ASSUME Init
             PROVE  SumsInv
  OBVIOUS
<1>1. NoneCountedTwice
  BY AmountEmpty DEF Init, NoneCountedTwice
<1>2. \A p \in Paths : Known(p, Null, {})
  BY DEF Known
<1>3. ASSUME NEW p \in Paths
      PROVE  Sums(p, Idle, {})
  <2>1. Idle.now = Null /\ Idle.val = Null /\ Idle.out = Null /\ Idle.reply = "none"
    BY DEF Idle
  <2>2. QED
    BY <2>1 DEF Sums, Known
<1>4. \A d \in Devices, p \in Paths :
        counted[p] = {} /\ cache[d][p] = Null /\ txn[d][p] = Idle
  BY DEF Init
<1>5. QED
  BY <1>1, <1>2, <1>3, <1>4 DEF SumsInv

\* What is known, and the sums of a device, stay so when more is counted.
LEMMA SumsMore ==
  ASSUME NEW p \in Paths, NEW t, NEW C, NEW D, C \subseteq D, Sums(p, t, C)
  PROVE  Sums(p, t, D)
<1>1. Known(p, t.now, D)
  BY KnownMore DEF Sums
<1>2. Known(p, t.val, D \cup Batch(t))
  BY KnownMore DEF Sums
<1>3. Known(p, t.out, D \cup Ids(t.queue))
  BY KnownMore DEF Sums
<1>4. t.reply = "ok" => Batch(t) \subseteq D
  BY DEF Sums
<1>5. QED
  BY <1>1, <1>2, <1>3, <1>4 DEF Sums

\* The server's counters are known to be sums.
LEMMA RecKnown ==
  ASSUME NoneCountedTwice, NEW p \in Paths
  PROVE  Known(p, rec[p], counted[p])
BY DEF NoneCountedTwice, Known

\* A client that goes on computes sums.
LEMMA SumsClient ==
  ASSUME IInv, SumsInv, NEW d \in Devices, Client(d)
  PROVE  SumsInv'
<1>1. NoneCountedTwice'
  BY DEF SumsInv, NoneCountedTwice, Client
<1>2. ASSUME NEW e \in Devices, NEW p \in Paths
      PROVE  Known(p, cache'[e][p], counted'[p]) /\ Sums(p, txn'[e][p], counted'[p])
  <2>1. counted' = counted
    BY DEF Client
  <2>2. CASE e # d
    BY <2>1, <2>2 DEF Client, SumsInv
  <2>3. CASE e = d
    <3>1. /\ Continued(p, txn[d][p], txn'[d][p], cache[d][p], counted[p])
          /\ cache'[d][p] \in {Null, cache[d][p], rec[p], txn[d][p].now}
      BY DEF Client, GoesOn
    <3>2. /\ Known(p, cache[d][p], counted[p]) /\ Sums(p, txn[d][p], counted[p])
          /\ counted[p] \in SUBSET Sessions
      BY DEF SumsInv, IInv, TypeOK
    <3>3. txn[d][p] \in Transactions /\ TransactionsOK(txn[d][p])
      BY QueueOK
    <3>4. Sums(p, txn'[d][p], counted[p])
      BY <3>1, <3>2, <3>3, SumsContinued
    <3>5. /\ Known(p, Null, counted[p]) /\ Known(p, rec[p], counted[p])
          /\ Known(p, txn[d][p].now, counted[p])
      BY <3>2, RecKnown DEF Known, Sums, SumsInv
    <3>6. Known(p, cache'[d][p], counted[p])
      BY <3>1, <3>2, <3>5
    <3>7. QED
      BY <2>1, <2>3, <3>4, <3>6
  <2>4. QED
    BY <2>2, <2>3
<1>3. QED
  BY <1>1, <1>2 DEF SumsInv

\* The server takes what is a sum with the batch it counts.
LEMMA SumsServer ==
  ASSUME IInv, SumsInv, NEW d \in Devices, NEW p \in Paths, ServerCompareAndPut(d, p)
  PROVE  SumsInv'
<1> DEFINE t == txn[d][p]
           u == txn'[d][p]
<1>1. /\ u.queue = t.queue /\ u.val = t.val /\ u.out = t.out /\ u.now = rec'[p]
      /\ Batch(u) = Batch(t)
      /\ u.reply = IF t.base = rec[p] THEN "ok" ELSE "datastale"
  BY ServerStep
<1>2. /\ rec'[p] = IF t.base = rec[p] THEN t.val ELSE rec[p]
      /\ counted'[p] = IF t.base = rec[p] THEN counted[p] \cup Batch(t) ELSE counted[p]
  BY ServerStep
<1>3. /\ \A o \in Paths : o # p => rec'[o] = rec[o] /\ counted'[o] = counted[o]
      /\ \A e \in Devices, o \in Paths : e # d \/ o # p => txn'[e][o] = txn[e][o]
      /\ cache' = cache
  BY ServerFrame
<1>4. NoneCountedTwice /\ Sums(p, t, counted[p]) /\ (t.base = rec[p] => t.val \in Nat)
  BY ServerEnters DEF SumsInv
<1> HIDE DEF t, u
<1>5. \E S \in SUBSET counted'[p] : rec'[p] = Amount(p, S)
  <2>1. CASE t.base = rec[p]
    <3>1. Known(p, t.val, counted[p] \cup Batch(t)) /\ t.val # Null
      BY <1>4, <2>1, ConstantsOK DEF Sums
    <3>2. QED
      BY <1>2, <2>1, <3>1 DEF Known
  <2>2. CASE t.base # rec[p]
    BY <1>2, <1>4, <2>2 DEF NoneCountedTwice
  <2>3. QED
    BY <2>1, <2>2
<1>6. NoneCountedTwice'
  <2>1. \A o \in Paths \ {p} : \E S \in SUBSET counted'[o] : rec'[o] = Amount(o, S)
    BY <1>3, <1>4 DEF NoneCountedTwice
  <2>2. QED
    BY <1>5, <2>1 DEF NoneCountedTwice
<1>7. \A o \in Paths : counted[o] \subseteq counted'[o]
  BY <1>2, <1>3
<1>8. Sums(p, u, counted'[p])
  <2>1. Known(p, u.now, counted'[p])
    BY <1>1, <1>5 DEF Known
  <2>2. Known(p, u.val, counted'[p] \cup Batch(u)) /\ Known(p, u.out, counted'[p] \cup Ids(u.queue))
    <3>1. Sums(p, t, counted'[p])
      BY <1>4, <1>7, SumsMore
    <3>2. QED
      BY <1>1, <3>1 DEF Sums
  <2>3. u.reply = "ok" => Batch(u) \subseteq counted'[p]
    BY <1>1, <1>2
  <2>4. QED
    BY <2>1, <2>2, <2>3 DEF Sums
<1>9. ASSUME NEW e \in Devices, NEW o \in Paths
      PROVE  Known(o, cache'[e][o], counted'[o]) /\ Sums(o, txn'[e][o], counted'[o])
  <2>1. Known(o, cache[e][o], counted[o]) /\ Sums(o, txn[e][o], counted[o])
    BY DEF SumsInv
  <2>2. Known(o, cache'[e][o], counted'[o])
    BY <1>3, <1>7, <2>1, KnownMore
  <2>3. CASE e = d /\ o = p
    BY <1>8, <2>2, <2>3 DEF u
  <2>4. CASE ~(e = d /\ o = p)
    <3>1. txn'[e][o] = txn[e][o]
      BY <1>3, <2>4
    <3>2. Sums(o, txn[e][o], counted'[o])
      BY <1>7, <2>1, SumsMore
    <3>3. QED
      BY <2>2, <3>1, <3>2
  <2>5. QED
    BY <2>3, <2>4
<1>10. QED
  BY <1>6, <1>9 DEF SumsInv

\* What runs again computes the server's sum and its own submissions, which may
\* leave out those of the put in front of it: a sum all the same.
LEMMA SumsAnswerRead ==
  ASSUME IInv, SumsInv, NEW d \in Devices, AnswerRead(d)
  PROVE  SumsInv'
<1> DEFINE us == [p \in Paths |-> RunAgain(p, txn[d][p], rec[p])]
<1>1. UNCHANGED <<rec, counted>> /\ cache' = [cache EXCEPT ![d] = rec]
  BY DEF AnswerRead, server
<1>2. txn' = [txn EXCEPT ![d] = us]
  <2>1. [txn EXCEPT ![d] = [p \in Paths |-> RunAgain(p, @[p], rec[p])]] = [txn EXCEPT ![d] = us]
    OBVIOUS
  <2> HIDE DEF us
  <2>2. QED
    BY <2>1 DEF AnswerRead
<1>3. /\ rec \in [Paths -> Nat] /\ counted \in [Paths -> SUBSET Sessions]
      /\ txn \in [Devices -> [Paths -> Transactions]] /\ cache \in [Devices -> [Paths -> Value]]
  BY DEF IInv, TypeOK
<1>4. ASSUME NEW p \in Paths
      PROVE  Sums(p, us[p], counted[p])
  <2>1. PICK v \in Nat : v = rec[p]
    BY <1>3
  <2> DEFINE t == txn[d][p]
             u == RunAgain(p, t, v)
             C == counted[p]
  <2>2. us[p] = u
    BY <2>1
  <2>3. t \in Transactions /\ TransactionsOK(t) /\ Sums(p, t, C) /\ C \in SUBSET Sessions
    BY <1>3, QueueOK DEF SumsInv
  <2>4. /\ Ids(Waiting(t)) \in SUBSET Sessions /\ Ids(Waiting(t)) \cap C = {}
        /\ Ids(Waiting(t)) \subseteq Ids(t.queue)
    BY QueueOK
  <2>5. Known(p, v, C)
    BY <2>1, RecKnown DEF SumsInv
  <2> HIDE DEF t, C, us
  <2>6. /\ u.queue = t.queue /\ u.reply = t.reply /\ Batch(u) = Batch(t)
        /\ u.val = t.val /\ u.now = t.now
        /\ u.out \in {t.out, Output(p, Ids(Waiting(t)), v)}
    BY <2>3, RunAgainOK
  <2> HIDE DEF u
  <2>7. Known(p, Output(p, Ids(Waiting(t)), v), C \cup Ids(Waiting(t)))
    BY <2>3, <2>4, <2>5, KnownOutput
  <2>8. Known(p, Output(p, Ids(Waiting(t)), v), C \cup Ids(t.queue))
    <3>1. C \cup Ids(Waiting(t)) \subseteq C \cup Ids(t.queue)
      BY <2>4
    <3>2. QED
      BY <2>7, <3>1, KnownMore
  <2>9. Known(p, u.out, C \cup Ids(u.queue))
    BY <2>3, <2>6, <2>8 DEF Sums
  <2>10. Sums(p, u, C)
    BY <2>3, <2>6, <2>9 DEF Sums
  <2>11. QED
    BY <2>2, <2>10 DEF C
<1> HIDE DEF us
<1>5. /\ txn'[d] = us /\ cache'[d] = rec
      /\ \A e \in Devices \ {d} : txn'[e] = txn[e] /\ cache'[e] = cache[e]
  BY <1>1, <1>2, <1>3
<1>6. NoneCountedTwice'
  BY <1>1 DEF SumsInv, NoneCountedTwice
<1>7. ASSUME NEW e \in Devices, NEW p \in Paths
      PROVE  Known(p, cache'[e][p], counted'[p]) /\ Sums(p, txn'[e][p], counted'[p])
  <2>1. CASE e = d
    BY <1>1, <1>4, <1>5, <2>1, RecKnown DEF SumsInv
  <2>2. CASE e # d
    BY <1>1, <1>5, <2>2 DEF SumsInv
  <2>3. QED
    BY <2>1, <2>2
<1>8. QED
  BY <1>6, <1>7 DEF SumsInv

\* Every step leaves every value a sum.
LEMMA SumsStep ==
  ASSUME IInv, SumsInv, [Next]_vars
  PROVE  SumsInv'
<1>1. CASE \E d \in Devices, p \in Paths : ServerCompareAndPut(d, p)
  BY <1>1, SumsServer
<1>2. CASE \E d \in Devices : AnswerRead(d)
  BY <1>2, SumsAnswerRead
<1>3. CASE \E d \in Devices : Client(d)
  BY <1>3, SumsClient
<1>4. CASE UNCHANGED <<rec, counted, cache, txn, faults>>
  BY <1>4 DEF SumsInv, NoneCountedTwice
<1>5. QED
  BY <1>1, <1>2, <1>3, <1>4, WhoseStep

-----------------------------------------------------------------------------
(* The theorems.                                                           *)

\* What holds of every state: always, and until AnswerRead runs something again.
Invariants == IInv /\ SumsInv /\ (faults.reruns = 0 => ExactInv)

\* Messages that run something again are counted, and never taken back.
LEMMA RerunsGrow ==
  ASSUME IInv, [Next]_vars, faults.reruns' = 0
  PROVE  faults.reruns = 0
<1>1. faults \in [disconnects : Nat, kills : Nat, reruns : Nat]
  BY DEF IInv, TypeOK
<1>2. CASE UNCHANGED faults
  BY <1>2
<1>3. CASE \E d \in Devices : Disconnect(d) \/ Kill(d)
  BY <1>1, <1>3 DEF Disconnect, Kill
<1>4. CASE \E d \in Devices : AnswerRead(d)
  BY <1>1, <1>4 DEF AnswerRead
<1>5. ASSUME NEW d \in Devices,
             \/ Start(d) \/ Stop(d) \/ ReadHistory(d) \/ HistoryShown(d)
             \/ \E s \in Sessions : Submit(d, s) \/ Decline(d, s) \/ StartTransactions(d, s)
      PROVE  UNCHANGED faults
  BY <1>5 DEF Start, Stop, ReadHistory, HistoryShown, Submit, Decline, StartTransactions
<1>6. ASSUME NEW d \in Devices, Serve(d) \/ Hear(d) \/ DataUpdate(d) \/ Reconnect(d)
      PROVE  UNCHANGED faults
  BY <1>6 DEF Serve, Hear, ServerSet, ServerCompareAndPut, AckSet, TransactionOk,
     TransactionStale, DataUpdate, Reconnect
<1>7. UNCHANGED vars => UNCHANGED faults
  BY DEF vars
<1>8. QED
  BY <1>2, <1>3, <1>4, <1>5, <1>6, <1>7 DEF Next

\* The inductive invariants are inductive, for any devices, sessions, hours and
\* bounds: in every reachable state the queues, puts and popups agree (IInv) and
\* every value is a sum of submissions, none twice (SumsInv); the sums are exact as
\* long as no message ran a waiting transaction again (FRepo.m:1140-1222).
THEOREM Inductive == Spec => []Invariants
<1>1. Init => Invariants
  BY InitOK, SumsInit, ExactInit DEF Invariants
<1>2. Invariants /\ [Next]_vars => Invariants'
  <2> SUFFICES ASSUME Invariants, [Next]_vars
               PROVE  Invariants'
    OBVIOUS
  <2>1. IInv /\ SumsInv
    BY DEF Invariants
  <2>2. IInv' /\ SumsInv'
    BY <2>1, StepOK, SumsStep
  <2>3. ASSUME faults.reruns' = 0
        PROVE  ExactInv'
    <3>1. ExactInv
      BY <2>1, <2>3, RerunsGrow DEF Invariants
    <3>2. QED
      BY <2>1, <2>3, <3>1, ExactStep
  <2>4. QED
    BY <2>2, <2>3 DEF Invariants
<1>3. QED
  BY <1>1, <1>2, PTL DEF Spec

\* Every variable keeps its type (HomeFragment.java:39-46 and what the Firebase
\* client keeps for it).
THEOREM TypeCorrect == Spec => []TypeOK
<1>1. Invariants => TypeOK
  BY DEF Invariants, IInv
<1>2. QED
  BY <1>1, Inductive, PTL

\* Whatever the devices, the retries, the failures and what runs again: each counter
\* is the sum over some of the submissions the server accepted, so none is in it
\* twice (FRepo.m:1103-1222).
THEOREM NeverCountedTwice == Spec => []NoneCountedTwice
<1>1. Invariants => NoneCountedTwice
  BY DEF Invariants, SumsInv
<1>2. QED
  BY <1>1, Inductive, PTL

\* totalHours and numSessions are the sums over all the submissions the server
\* accepted, each once (HomeFragment.java:159-205), until the answer to a read of
\* hours/<uid> runs a transaction that waits behind a sent one again.
THEOREM CountersCorrect == Spec => [](faults.reruns = 0 => CountersAddUp)
<1>1. Invariants => (faults.reruns = 0 => CountersAddUp)
  BY DEF Invariants, ExactInv
<1>2. QED
  BY <1>1, Inductive, PTL

\* Until then, every step of the phones and the server is one of the ledger or none.
LEMMA LedgerStep ==
  ASSUME IInv, ExactInv, [Next]_vars
  PROVE  [Ledger!Next]_<<rec, counted>>
<1>1. CASE \E d \in Devices, p \in Paths : ServerCompareAndPut(d, p)
  <2>1. PICK d \in Devices, p \in Paths : ServerCompareAndPut(d, p)
    BY <1>1
  <2> DEFINE t == txn[d][p]
             S == Batch(t)
  <2>2. /\ S \in SUBSET Sessions /\ S # {} /\ S \cap counted[p] = {}
        /\ t.base = rec[p] => t.val = rec[p] + Amount(p, S)
    <3>1. Exact(p, t)
      BY DEF ExactInv
    <3>2. QED
      BY <2>1, <3>1, ServerEnters
  <2>3. CASE t.base = rec[p]
    <3>1. /\ rec' = [rec EXCEPT ![p] = t.val]
          /\ counted' = [counted EXCEPT ![p] = @ \cup S]
      BY <2>1, <2>3 DEF ServerCompareAndPut, Accepts
    <3> HIDE DEF S
    <3>2. S \subseteq Sessions \ counted[p]
      BY <2>2
    <3>3. rec' = [rec EXCEPT ![p] = @ + Ledger!Amount(p, S)]
      <4>1. Ledger!Amount(p, S) = Amount(p, S)
        BY DEF Ledger!Amount, Ledger!NumSessions, Ledger!Cardinality, Amount, NumSessions,
           Cardinality
      <4>2. t.val = rec[p] + Ledger!Amount(p, S)
        BY <2>2, <2>3, <4>1
      <4>3. QED
        BY <3>1, <4>2
    <3>4. Ledger!Enter(p, S)
      BY <3>1, <3>2, <3>3 DEF Ledger!Enter
    <3>5. QED
      BY <2>2, <3>4 DEF Ledger!Next, Ledger!Paths, Ledger!NumSessions, Ledger!TotalHours,
         Paths, NumSessions, TotalHours
  <2>4. CASE t.base # rec[p]
    <3>1. rec' = rec /\ counted' = counted
      BY <2>1, <2>4 DEF ServerCompareAndPut, Accepts
    <3>2. QED
      BY <3>1
  <2>5. QED
    BY <2>3, <2>4
<1>2. CASE \E d \in Devices : AnswerRead(d)
  BY <1>2 DEF AnswerRead, server
<1>3. CASE \E d \in Devices : Client(d)
  BY <1>3 DEF Client
<1>4. CASE UNCHANGED <<rec, counted, cache, txn, faults>>
  BY <1>4
<1>5. QED
  BY <1>1, <1>2, <1>3, <1>4, WhoseStep

\* The ledger starts as the record does.
LEMMA LedgerInit == Init => Ledger!Init
BY DEF Init, Ledger!Init, Ledger!Paths, Ledger!NumSessions, Ledger!TotalHours,
   Paths, NumSessions, TotalHours

\* The phones, the network and the server implement the ledger as long as no answer
\* to a read runs a waiting transaction again: every change of the record up to
\* then enters submissions that were not entered before.
THEOREM ImplementsLedgerUntilRerun == Spec => LedgerUntilRerun
<1>1. ASSUME Invariants, [Next]_vars
      PROVE  [faults.reruns' > 0 \/ UNCHANGED <<rec, counted>> \/ Ledger!Next]_vars
  <2>1. CASE faults.reruns' = 0
    <3>1. faults.reruns = 0
      BY <1>1, <2>1, RerunsGrow DEF Invariants
    <3>2. [Ledger!Next]_<<rec, counted>>
      BY <1>1, <3>1, LedgerStep DEF Invariants
    <3>3. QED
      BY <3>2
  <2>2. CASE faults.reruns' # 0
    <3>1. faults'.reruns \in Nat
      BY <1>1, StepOK DEF Invariants, IInv, TypeOK
    <3>2. QED
      BY <2>2, <3>1
  <2>3. QED
    BY <2>1, <2>2
<1>2. QED
  BY <1>1, LedgerInit, Inductive, PTL DEF Spec, LedgerUntilRerun

\* An account on which it never happens is a ledger for good.
THEOREM ImplementsLedger == Spec /\ [](faults.reruns = 0) => LedgerSpec
<1>1. ASSUME Invariants, faults.reruns = 0, [Next]_vars
      PROVE  [Ledger!Next]_<<rec, counted>>
  BY <1>1, LedgerStep DEF Invariants
<1>2. QED
  BY <1>1, LedgerInit, Inductive, PTL DEF Spec, LedgerSpec, Ledger!Spec

=============================================================================
