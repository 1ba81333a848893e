------------------------- MODULE SessionStorageProofs -------------------------
(***************************************************************************)
(* For any devices, sessions, credits and bounds: what becomes of the      *)
(* submissions a user was told of, of the sessions stored for them, and    *)
(* what the history pages show of these.                                   *)
(*                                                                         *)
(* Five invariants, each on top of IInv: what a client was told of a       *)
(* counter (HeardInv), under which numbers sessions are stored or still to *)
(* be stored (KeysInv, which needs HeardInv), where a submission is until  *)
(* it is counted (CoverInv, which needs HeardInv), that a patient user     *)
(* stores complete sessions only (PatientInv), and what one phone's writes *)
(* amount to once they have arrived (OneInv).                              *)
(***************************************************************************)
EXTENDS SubmitHoursProofs, HoursHistory, FunctionTheorems

-----------------------------------------------------------------------------
(* What users were told, and how often a client was wrong about a counter.  *)

\* No transaction of the outstanding put was sent more than n times.
SentAtMost(t, n) == \A i \in 1..t.sent : t.queue[i].tries <= n

\* Every "datastale" is worth an accepted submission: a put was sent at most twice
\* more than the submissions its hash counts, and if it was refused they are fewer
\* than those the client was told of.
TriesOK(p, t, C) ==
  /\ \A i \in (t.sent + 1)..Len(t.queue) : t.queue[i].tries = 0
  /\ t.base = Null => SentAtMost(t, 1)
  /\ t.base # Null =>
       \E S \in SUBSET C : /\ S \cap Ids(t.queue) = {} /\ t.base = Amount(p, S)
                           /\ SentAtMost(t, Cardinality(S) + 2)
  /\ t.reply = "datastale" =>
       \E S \in SUBSET C : t.now = Amount(p, S) /\ SentAtMost(t, Cardinality(S) + 1)

\* What is under way was announced, and until AnswerRead runs something again a put
\* is refused for a reason.
Heard(d, p) ==
  /\ Ids(txn[d][p].queue) \subseteq toasted
  /\ faults.reruns = 0 => TriesOK(p, txn[d][p], counted[p])

HeardInv ==
  /\ \A p \in Paths : counted[p] \subseteq toasted
  /\ \A d \in Devices : reading[d] \subseteq toasted
  /\ \A d \in Devices, p \in Paths : Heard(d, p)

-----------------------------------------------------------------------------
(* The numbers under which sessions are stored, or will be.                *)

PutKeys(ws) == {ws[i].key : i \in {j \in 1..Len(ws) : ws[j].type = "session"}}

\* The ordinary writes among the first n are in the database.
ServedOK(ws, n, K) == \A i \in 1..n : ws[i].type = "session" => ws[i].key \in K

Written == DOMAIN stored \cup UNION {PutKeys(outstanding[d]) : d \in Devices}

\* Up to this number there is no gap.
Filled(v) == v = Null \/ 1..v \subseteq Written

\* The numbers the client of d knows, or computed.
Results(t) == {t.val, t.out, t.now}
Numbers(d) == {cache[d][NumSessions]} \cup Results(txn[d][NumSessions])

KeysInv ==
  /\ \A k \in DOMAIN stored : k <= Cardinality(toasted)
  /\ \A d \in Devices : \A k \in PutKeys(outstanding[d]) : k <= Cardinality(toasted)
  /\ \A d \in Devices : ServedOK(outstanding[d], answered[d], DOMAIN stored)
  /\ faults.kills = 0 =>
       /\ Filled(rec[NumSessions])
       /\ \A d \in Devices : \A v \in Numbers(d) : Filled(v)
       /\ \A k \in Written : Filled(k)

-----------------------------------------------------------------------------
(* Nobody who was told "Hours submitted" is forgotten.                     *)

\* On its way to the counter p.
OnTheWay(p) == UNION {reading[d] \cup Ids(txn[d][p].queue) : d \in Devices}

CoverInv ==
  faults.disconnects = 0 /\ faults.kills = 0 /\ faults.reruns = 0 =>
    \A p \in Paths : toasted \subseteq counted[p] \cup OnTheWay(p)

-----------------------------------------------------------------------------
(* Values a client was told of.                                            *)

\* What was true of fewer accepted submissions stays true of more.
LEMMA TriesMore ==
  ASSUME NEW p, NEW t, NEW C, NEW D, C \subseteq D, TriesOK(p, t, C)
  PROVE  TriesOK(p, t, D)
BY DEF TriesOK

\* A path with nothing to do was sent nothing.
LEMMA IdleTries ==
  ASSUME NEW p, NEW C
  PROVE  TriesOK(p, Idle, C)
<1>1. Idle.queue = <<>> /\ Idle.sent = 0 /\ Idle.base = Null /\ Idle.reply = "none"
  BY DEF Idle
<1>2. (0 + 1)..Len(<<>>) = {} /\ 1..0 = {}
  OBVIOUS
<1> QED BY <1>1, <1>2 DEF TriesOK, SentAtMost

\* Running a queue once more: one try more each, from a value that is known.
LEMMA SentTries ==
  ASSUME NEW p \in Paths, NEW q \in Seq(Entry), q # <<>>, Distinct(q), NEW v \in Value,
         NEW C \in SUBSET Sessions,
         v = Null => \A i \in 1..Len(q) : q[i].tries = 0,
         v # Null =>
           \E S \in SUBSET C : /\ S \cap Ids(q) = {} /\ v = Amount(p, S)
                               /\ \A i \in 1..Len(q) : q[i].tries <= Cardinality(S) + 1
  PROVE  TriesOK(p, RunAll(p, q, v), C)
<1> DEFINE t == Sent(p, q, v)
<1>1. Len(q) \in Nat /\ \A i \in 1..Len(q) : q[i] \in Entry
  BY LenProperties, ElementOfSeq
<1>2. /\ t.sent = Len(q) /\ t.base = v /\ t.reply = "none"
      /\ t.queue = [i \in 1..Len(q) |-> [id |-> q[i].id, tries |-> q[i].tries + 1]]
  BY DEF Sent
<1>3. Ids(t.queue) = Ids(q)
  BY SentOK
<1>4. Len(t.queue) = Len(q)
  BY <1>1, <1>2
<1>5. \A i \in 1..Len(q) : t.queue[i].tries = q[i].tries + 1 /\ q[i].tries \in Nat
  BY <1>1, <1>2 DEF Entry
<1>. HIDE DEF t
<1>6. \A i \in (t.sent + 1)..Len(t.queue) : t.queue[i].tries = 0
  BY <1>1, <1>2, <1>4
<1>7. t.base = Null => SentAtMost(t, 1)
  BY <1>2, <1>5 DEF SentAtMost
<1>8. ASSUME t.base # Null
      PROVE  \E S \in SUBSET C : /\ S \cap Ids(t.queue) = {} /\ t.base = Amount(p, S)
                                 /\ SentAtMost(t, Cardinality(S) + 2)
  <2>1. PICK S \in SUBSET C : /\ S \cap Ids(q) = {} /\ v = Amount(p, S)
                              /\ \A i \in 1..Len(q) : q[i].tries <= Cardinality(S) + 1
    BY <1>2, <1>8
  <2>2. Cardinality(S) \in Nat
    BY SessionSetsFinite
  <2>3. SentAtMost(t, Cardinality(S) + 2)
    BY <1>2, <1>5, <2>1, <2>2 DEF SentAtMost
  <2> QED BY <1>2, <1>3, <2>1, <2>3
<1>9. TriesOK(p, t, C)
  BY <1>2, <1>6, <1>7, <1>8 DEF TriesOK
<1> QED BY <1>9 DEF RunAll, t

\* The same for any queue, and for what waited, never sent before.
LEMMA RunTries ==
  ASSUME NEW p \in Paths, NEW q \in Seq(Entry), Distinct(q), NEW v \in Value,
         NEW C \in SUBSET Sessions, Ids(q) \cap C = {}, Known(p, v, C),
         \A i \in 1..Len(q) : q[i].tries = 0
  PROVE  TriesOK(p, RunAll(p, q, v), C)
<1>1. CASE q = <<>>
  BY <1>1, IdleTries DEF RunAll
<1>2. CASE q # <<>>
  <2>1. ASSUME v # Null
        PROVE  \E S \in SUBSET C : /\ S \cap Ids(q) = {} /\ v = Amount(p, S)
                                   /\ \A i \in 1..Len(q) : q[i].tries <= Cardinality(S) + 1
    <3>1. PICK S \in SUBSET C : v = Amount(p, S)
      BY <2>1 DEF Known
    <3>2. Cardinality(S) \in Nat
      BY SessionSetsFinite
    <3> QED BY <3>1, <3>2
  <2> QED BY <1>2, <2>1, SentTries
<1> QED BY <1>1, <1>2

\* What waited behind a batch was never sent.
LEMMA WaitingTries ==
  ASSUME NEW p \in Paths, NEW t \in Transactions, TransactionsOK(t),
         NEW C, TriesOK(p, t, C)
  PROVE  \A i \in 1..Len(Waiting(t)) : Waiting(t)[i].tries = 0
<1> DEFINE q == t.queue
           n == t.sent
           r == SubSeq(q, n + 1, Len(q))
<1>1. q \in Seq(Entry) /\ n \in 0..Len(q) /\ Len(q) \in Nat
  BY FieldsOK, LenProperties DEF TransactionsOK
<1>2. \A i \in (n + 1)..Len(q) : q[i] \in Entry
  BY <1>1, ElementOfSeq
<1>3. /\ Len(r) = IF n + 1 <= Len(q) THEN Len(q) - n ELSE 0
      /\ \A i \in 1..(Len(q) - n) : r[i] = q[n + i]
  <2>1. PICK a \in Int, b \in Int : a = n + 1 /\ b = Len(q)
    BY <1>1
  <2>. HIDE DEF q, n
  <2>2. /\ Len(SubSeq(q, a, b)) = IF a <= b THEN b - a + 1 ELSE 0
        /\ \A i \in 1..(b - a + 1) : SubSeq(q, a, b)[i] = q[a + i - 1]
    BY <1>2, <2>1, SubSeqProperties
  <2>3. r = SubSeq(q, a, b)
    BY <2>1
  <2>4. n \in Int /\ Len(q) \in Int
    BY <1>1
  <2>. HIDE DEF r
  <2>5. \A i \in 1..(Len(q) - n) : i \in 1..(b - a + 1) /\ a + i - 1 = n + i
    BY <2>1, <2>4
  <2>6. (IF a <= b THEN b - a + 1 ELSE 0) = IF n + 1 <= Len(q) THEN Len(q) - n ELSE 0
    BY <2>1, <2>4
  <2> QED BY <2>2, <2>3, <2>5, <2>6
<1>4. \A i \in (n + 1)..Len(q) : q[i].tries = 0
  BY DEF TriesOK
<1>. HIDE DEF q, n, r
<1>5. \A i \in 1..Len(r) : i \in 1..(Len(q) - n) /\ n + i \in (n + 1)..Len(q)
  BY <1>1, <1>3
<1>6. \A i \in 1..Len(r) : r[i].tries = 0
  BY <1>3, <1>4, <1>5
<1> QED BY <1>6 DEF Waiting, q, n, r

\* One more transaction behind others: it waits.
LEMMA EnqueueTries ==
  ASSUME NEW p \in Paths, NEW t \in Transactions, TransactionsOK(t), t.sent > 0,
         NEW s \in Sessions, s \notin Ids(t.queue),
         NEW C, s \notin C, TriesOK(p, t, C)
  PROVE  TriesOK(p, Enqueue(p, t, s), C)
<1> DEFINE u == Enqueue(p, t, s)
           q == t.queue
           r == Append(q, NewEntry(s))
<1>1. q \in Seq(Entry) /\ t.sent \in 1..Len(q) /\ Len(q) \in Nat
  BY FieldsOK, LenProperties DEF TransactionsOK
<1>2. NewEntry(s) \in Entry /\ NewEntry(s).tries = 0
  BY DEF NewEntry, Entry
<1>3. /\ Len(r) = Len(q) + 1
      /\ \A i \in 1..Len(q) : r[i] = q[i]
      /\ r[Len(q) + 1] = NewEntry(s)
  BY <1>1, <1>2, AppendProperties
<1>4. /\ u.queue = r /\ u.sent = t.sent /\ u.base = t.base /\ u.reply = t.reply /\ u.now = t.now
  BY DEF Enqueue, Transactions
<1>5. Ids(u.queue) = Ids(q) \cup {s} /\ Batch(u) = Batch(t)
  BY EnqueueOK
<1>. HIDE DEF q, r, u
<1>6. \A i \in (u.sent + 1)..Len(u.queue) : u.queue[i].tries = 0
  <2>1. \A i \in (t.sent + 1)..Len(q) : q[i].tries = 0
    BY DEF TriesOK, q
  <2>2. \A i \in (t.sent + 1)..Len(r) : i \in (t.sent + 1)..Len(q) \/ i = Len(q) + 1
    BY <1>1, <1>3
  <2>3. \A i \in (t.sent + 1)..Len(q) : i \in 1..Len(q)
    BY <1>1
  <2> QED BY <1>2, <1>3, <1>4, <2>1, <2>2, <2>3
<1>7. \A n : SentAtMost(t, n) => SentAtMost(u, n)
  <2>1. \A i \in 1..t.sent : i \in 1..Len(q)
    BY <1>1
  <2> QED BY <1>3, <1>4, <2>1 DEF SentAtMost, q
<1>8. ASSUME NEW S \in SUBSET C, S \cap Ids(q) = {}
      PROVE  S \cap Ids(u.queue) = {}
  BY <1>5, <1>8
<1> QED BY <1>4, <1>5, <1>6, <1>7, <1>8 DEF TriesOK, q, u

\* The server's answer: accepted, the batch counts; refused, the server counts
\* more than the hash did.
LEMMA AnswerTries ==
  ASSUME NEW p \in Paths, NEW t \in Transactions, TransactionsOK(t),
         NEW C \in SUBSET Sessions, TriesOK(p, t, C), NEW ok \in BOOLEAN, NEW v,
         ~ok => v = Amount(p, C) /\ v # t.base /\ v # Null
  PROVE  LET u == [t EXCEPT !.reply = IF ok THEN "ok" ELSE "datastale", !.now = v]
         IN  TriesOK(p, u, IF ok THEN C \cup Batch(t) ELSE C)
<1> DEFINE u == [t EXCEPT !.reply = IF ok THEN "ok" ELSE "datastale", !.now = v]
           D == IF ok THEN C \cup Batch(t) ELSE C
<1>1. /\ u.queue = t.queue /\ u.sent = t.sent /\ u.base = t.base /\ u.now = v
      /\ ok => u.reply = "ok"
      /\ ~ok => u.reply = "datastale"
  BY DEF Transactions
<1>2. Batch(u) = Batch(t) /\ (ok => Batch(u) \subseteq D) /\ C \subseteq D /\ (~ok => D = C)
  BY <1>1 DEF Batch
<1>. HIDE DEF u, D
<1>3. \A n : SentAtMost(u, n) <=> SentAtMost(t, n)
  BY <1>1 DEF SentAtMost
<1>4. ASSUME ~ok
      PROVE  \E S \in SUBSET D : u.now = Amount(p, S) /\ SentAtMost(u, Cardinality(S) + 1)
  <2>1. SentAtMost(t, Cardinality(C) + 1)
    <3>1. IsFiniteSet(C) /\ Cardinality(C) \in Nat
      BY SessionSetsFinite
    <3>2. \A i \in 1..t.sent : t.queue[i].tries \in Nat
      <4>1. t.queue \in Seq(Entry) /\ t.sent \in 0..Len(t.queue) /\ Len(t.queue) \in Nat
        BY FieldsOK, LenProperties DEF TransactionsOK
      <4>2. \A i \in 1..t.sent : i \in 1..Len(t.queue)
        BY <4>1
      <4>3. \A i \in 1..Len(t.queue) : t.queue[i] \in Entry
        BY <4>1, ElementOfSeq
      <4> QED BY <4>2, <4>3 DEF Entry
    <3>3. CASE t.base = Null
      <4>1. SentAtMost(t, 1)
        BY <3>3 DEF TriesOK
      <4> QED BY <3>1, <3>2, <4>1 DEF SentAtMost
    <3>4. CASE t.base # Null
      <4>1. PICK S \in SUBSET C : t.base = Amount(p, S) /\ SentAtMost(t, Cardinality(S) + 2)
        BY <3>4 DEF TriesOK
      <4>2. S # C
        BY <1>4, <4>1
      <4>3. Cardinality(S) \in Nat /\ Cardinality(S) <= Cardinality(C)
            /\ Cardinality(S) # Cardinality(C)
        BY <3>1, <4>2, FS_Subset, SessionSetsFinite
      <4>4. Cardinality(S) + 2 <= Cardinality(C) + 1
        BY <3>1, <4>3
      <4> QED BY <3>1, <3>2, <4>1, <4>3, <4>4 DEF SentAtMost
    <3> QED BY <3>3, <3>4
  <2>2. C \in SUBSET D /\ u.now = Amount(p, C)
    BY <1>1, <1>2, <1>4
  <2> QED BY <1>3, <2>1, <2>2
<1>5. TriesOK(p, u, D)
  <2>1. TriesOK(p, t, D)
    BY <1>2, TriesMore
  <2> QED BY <1>1, <1>2, <1>3, <1>4, <2>1 DEF TriesOK
<1> QED BY <1>5 DEF u, D

-----------------------------------------------------------------------------
(* What users were told, and what puts were refused for: every step.       *)

\* One device does something, the others keep their queues.
LEMMA HeardStep ==
  ASSUME IInv, HeardInv, NEW d \in Devices,
         \A e \in Devices \ {d} : reading'[e] = reading[e] /\ txn'[e] = txn[e],
         faults.reruns' = 0 => faults.reruns = 0,
         toasted \subseteq toasted',
         \A p \in Paths : counted[p] \subseteq counted'[p] /\ counted'[p] \subseteq toasted',
         reading'[d] \subseteq toasted',
         \A p \in Paths : Heard(d, p)'
  PROVE  HeardInv'
<1>1. \A e \in Devices : reading'[e] \subseteq toasted'
  BY DEF HeardInv
<1>2. ASSUME NEW e \in Devices, NEW p \in Paths
      PROVE  Heard(e, p)'
  <2>1. CASE e = d
    BY <2>1
  <2>2. CASE e # d
    <3>1. Heard(e, p) /\ txn'[e] = txn[e]
      BY <2>2 DEF HeardInv
    <3>2. ASSUME faults.reruns' = 0
          PROVE  TriesOK(p, txn[e][p], counted'[p])
      BY <3>1, <3>2, TriesMore DEF Heard
    <3> QED BY <3>1, <3>2 DEF Heard
  <2> QED BY <2>1, <2>2
<1> QED BY <1>1, <1>2 DEF HeardInv

\* No queue changes.
LEMMA HeardQuiet ==
  ASSUME IInv, HeardInv,
         UNCHANGED <<txn, counted, faults>>, toasted \subseteq toasted',
         \A e \in Devices : reading'[e] \subseteq toasted'
  PROVE  HeardInv'
BY DEF HeardInv, Heard

\* Until AnswerRead runs something again, the server's record is what all the
\* accepted submissions add up to.
LEMMA RecExact ==
  ASSUME IInv, ExactInv, NEW p \in Paths
  PROVE  /\ counted[p] \in SUBSET Sessions /\ rec[p] = Amount(p, counted[p])
         /\ rec[p] \in Nat /\ rec[p] # Null
<1>1. counted[p] \in SUBSET Sessions /\ rec[p] = Amount(p, counted[p]) /\ rec[p] \in Nat
  BY DEF IInv, ExactInv, TypeOK, CountersAddUp
<1> QED BY <1>1, ConstantsOK

LEMMA HeardUser ==
  ASSUME IInv, HeardInv, NEW d \in Devices,
         \/ Start(d) \/ Stop(d) \/ ReadHistory(d) \/ HistoryShown(d) \/ ServerSet(d)
         \/ AckSet(d) \/ DataUpdate(d) \/ Reconnect(d)
         \/ \E s \in Sessions : Submit(d, s) \/ Decline(d, s)
  PROVE  HeardInv'
<1> USE DEF server, client, app
<1>1. CASE \/ Start(d) \/ Stop(d) \/ ReadHistory(d) \/ HistoryShown(d) \/ ServerSet(d)
           \/ AckSet(d) \/ DataUpdate(d) \/ Reconnect(d)
           \/ \E s \in Sessions : Decline(d, s)
  <2>1. UNCHANGED <<txn, counted, toasted, reading, faults>>
    BY <1>1 DEF Start, Stop, ReadHistory, HistoryShown, ServerSet, AckSet, DataUpdate,
       Reconnect, Decline
  <2> QED BY <2>1, HeardQuiet DEF HeardInv
<1>2. CASE \E s \in Sessions : Submit(d, s)
  <2>1. PICK s \in Sessions : Submit(d, s)
    BY <1>2
  <2>2. /\ UNCHANGED <<txn, counted, faults>> /\ toasted' = toasted \cup {s}
        /\ reading' = [reading EXCEPT ![d] = @ \cup {s}]
    BY <2>1 DEF Submit
  <2>3. \A e \in Devices : reading'[e] \subseteq reading[e] \cup {s}
    BY <2>2 DEF IInv, TypeOK
  <2> QED BY <2>2, <2>3, HeardQuiet DEF HeardInv
<1> QED BY <1>1, <1>2

\* A refusal is worth a submission: what the put was computed from left one out.
LEMMA HeardServer ==
  ASSUME IInv, faults.reruns = 0 => ExactInv, HeardInv,
         NEW d \in Devices, NEW p \in Paths, ServerCompareAndPut(d, p)
  PROVE  HeardInv'
<1> USE DEF server, client, app
<1> DEFINE t == txn[d][p]
           C == counted[p]
           u(ok, v) == [t EXCEPT !.reply = IF ok THEN "ok" ELSE "datastale", !.now = v]
<1>1. /\ t \in Transactions /\ TransactionsOK(t) /\ Batch(t) \subseteq Ids(t.queue)
  BY ServerEnters
<1>2. UNCHANGED <<toasted, reading, faults>>
  BY DEF ServerCompareAndPut
<1>3. Heard(d, p) /\ counted[p] \subseteq toasted /\ C \in SUBSET Sessions
  BY DEF HeardInv, IInv, TypeOK
<1>4. /\ \A e \in Devices \ {d} : txn'[e] = txn[e]
      /\ \A o \in Paths \ {p} : txn'[d][o] = txn[d][o] /\ counted'[o] = counted[o]
      /\ Ids(txn'[d][p].queue) = Ids(t.queue)
      /\ counted'[p] \in {C, C \cup Batch(t)}
      /\ faults.reruns = 0 => TriesOK(p, txn'[d][p], counted'[p])
  <2>1. CASE t.base = rec[p]
    <3>1. /\ txn' = [txn EXCEPT ![d][p] = u(TRUE, rec'[p])]
          /\ counted' = [counted EXCEPT ![p] = @ \cup Batch(t)]
      BY <2>1 DEF ServerCompareAndPut, Accepts
    <3>2. ASSUME faults.reruns = 0
          PROVE  TriesOK(p, u(TRUE, rec'[p]), C \cup Batch(t))
      BY <1>1, <1>3, <3>2, AnswerTries DEF Heard
    <3>3. u(TRUE, rec'[p]).queue = t.queue
      BY <1>1 DEF Transactions
    <3>. HIDE DEF u
    <3> QED BY <3>1, <3>2, <3>3 DEF IInv, TypeOK
  <2>2. CASE t.base # rec[p]
    <3>1. /\ txn' = [txn EXCEPT ![d][p] = u(FALSE, rec[p])]
          /\ counted' = counted
      BY <2>2 DEF ServerCompareAndPut, Accepts
    <3>2. ASSUME faults.reruns = 0
          PROVE  TriesOK(p, u(FALSE, rec[p]), C)
      BY <1>1, <1>3, <2>2, <3>2, RecExact, AnswerTries DEF Heard
    <3>3. u(FALSE, rec[p]).queue = t.queue
      BY <1>1 DEF Transactions
    <3>. HIDE DEF u
    <3> QED BY <3>1, <3>2, <3>3 DEF IInv, TypeOK
  <2> QED BY <2>1, <2>2
<1>5. \A o \in Paths : counted[o] \subseteq counted'[o] /\ counted'[o] \subseteq toasted'
  BY <1>1, <1>2, <1>3, <1>4 DEF Heard, HeardInv
<1>6. ASSUME NEW o \in Paths
      PROVE  Heard(d, o)'
  <2>1. Heard(d, o)
    BY DEF HeardInv
  <2>2. faults.reruns = 0 => TriesOK(o, txn'[d][o], counted'[o])
    BY <1>4, <2>1 DEF Heard
  <2>3. Ids(txn'[d][o].queue) \subseteq toasted'
    BY <1>2, <1>3, <1>4, <2>1 DEF Heard
  <2> QED BY <1>2, <2>2, <2>3 DEF Heard
<1> QED BY <1>2, <1>4, <1>5, <1>6, HeardStep DEF HeardInv

\* A queue of device d changes.
LEMMA HeardQueue ==
  ASSUME IInv, HeardInv, NEW d \in Devices, NEW p \in Paths, NEW u,
         UNCHANGED <<counted, toasted, reading, faults>>,
         txn' = [txn EXCEPT ![d][p] = u],
         Ids(u.queue) \subseteq Ids(txn[d][p].queue),
         faults.reruns = 0 => TriesOK(p, u, counted[p])
  PROVE  HeardInv'
<1>1. /\ \A e \in Devices \ {d} : txn'[e] = txn[e]
      /\ \A o \in Paths \ {p} : txn'[d][o] = txn[d][o]
      /\ txn'[d][p] = u
  BY DEF IInv, TypeOK
<1>2. ASSUME NEW o \in Paths
      PROVE  Heard(d, o)'
  <2>1. Heard(d, o)
    BY DEF HeardInv
  <2>2. CASE o = p
    BY <1>1, <2>1, <2>2 DEF Heard
  <2>3. CASE o # p
    BY <1>1, <2>1, <2>3 DEF Heard
  <2> QED BY <2>2, <2>3
<1> QED BY <1>1, <1>2, HeardStep DEF HeardInv

LEMMA HeardOk ==
  ASSUME IInv, SumsInv, HeardInv, NEW d \in Devices, NEW p \in Paths, TransactionOk(d, p)
  PROVE  HeardInv'
<1> USE DEF server, app
<1> DEFINE t == txn[d][p]
           C == counted[p]
           rest == Waiting(t)
           u == IF rest = <<>> THEN Idle
                ELSE [Sent(p, rest, t.now) EXCEPT !.val = t.out, !.out = t.out]
<1>1. /\ t \in Transactions /\ TransactionsOK(t) /\ t.reply = "ok"
      /\ Ids(t.queue) \in SUBSET Sessions /\ t.now \in Value
      /\ Ids(rest) \subseteq Ids(t.queue) \ C
  BY QueueOK, FieldsOK DEF TransactionOk
<1>2. Heard(d, p) /\ C \in SUBSET Sessions /\ Known(p, t.now, C)
  BY DEF HeardInv, IInv, TypeOK, SumsInv, Sums
<1>3. rest \in Seq(Entry) /\ Distinct(rest)
  BY <1>1, WaitingOK
<1>4. Ids(rest) \cap C = {}
  BY <1>1
<1>5. ASSUME faults.reruns = 0
      PROVE  TriesOK(p, RunAll(p, rest, t.now), C)
  <2>1. \A i \in 1..Len(rest) : rest[i].tries = 0
    BY <1>1, <1>2, <1>5, WaitingTries DEF Heard
  <2>. HIDE DEF t, rest, C
  <2> QED BY <1>1, <1>2, <1>3, <1>4, <2>1, RunTries
<1>6. /\ Ids(u.queue) \subseteq Ids(t.queue)
      /\ faults.reruns = 0 => TriesOK(p, u, C)
  <2>1. CASE rest = <<>>
    <3>1. Ids(Idle.queue) = {}
      BY IdleOK
    <3> QED BY <2>1, <3>1, IdleTries
  <2>2. CASE rest # <<>>
    <3> DEFINE w == Sent(p, rest, t.now)
    <3>1. w \in Transactions /\ Ids(w.queue) = Ids(rest) /\ w = RunAll(p, rest, t.now)
      BY <1>1, <1>3, <2>2, SentOK DEF RunAll
    <3>2. /\ u.queue = w.queue /\ u.sent = w.sent /\ u.base = w.base
          /\ u.reply = w.reply /\ u.now = w.now
      BY <2>2, <3>1 DEF Transactions
    <3>. HIDE DEF w, u
    <3>3. faults.reruns = 0 => TriesOK(p, w, C)
      BY <1>5, <3>1
    <3>4. faults.reruns = 0 => TriesOK(p, u, C)
      BY <3>2, <3>3 DEF TriesOK, SentAtMost
    <3> QED BY <1>1, <3>1, <3>2, <3>4
  <2> QED BY <2>1, <2>2
<1>7. txn' = [txn EXCEPT ![d][p] = u] /\ UNCHANGED <<counted, toasted, reading, faults>>
  BY DEF TransactionOk
<1>. HIDE DEF u
<1> QED BY <1>6, <1>7, HeardQueue

\* How long what is behind the first k of n elements is.
LEMMA RestLength ==
  ASSUME NEW n \in Nat, NEW k \in 0..n
  PROVE  (IF k + 1 <= n THEN n - k ELSE 0) = n - k
<1>1. CASE k + 1 <= n
  BY <1>1
<1>2. CASE ~(k + 1 <= n)
  <2>1. n - k = 0
    BY <1>2
  <2> QED BY <1>2, <2>1
<1> QED BY <1>1, <1>2

\* The transactions a client has sent too often are the first of its queue.
LEMMA AgainOK ==
  ASSUME NEW p \in Paths, NEW t \in Transactions, TransactionsOK(t)
  PROVE  LET k == Cardinality({i \in DOMAIN t.queue : t.queue[i].tries >= MaxRetries})
             again == SubSeq(t.queue, k + 1, Len(t.queue))
         IN  /\ k \in 0..Len(t.queue)
             /\ again \in Seq(Entry) /\ Distinct(again)
             /\ Ids(again) \subseteq Ids(t.queue)
             /\ Len(again) = Len(t.queue) - k
             /\ \A i \in 1..Len(again) : again[i] = t.queue[k + i] /\ k + i \in 1..Len(t.queue)
<1> DEFINE q == t.queue
           exhausted == {i \in DOMAIN q : q[i].tries >= MaxRetries}
           k == Cardinality(exhausted)
           again == SubSeq(q, k + 1, Len(q))
<1>1. q \in Seq(Entry) /\ Distinct(q)
  BY FieldsOK DEF TransactionsOK
<1>2. Len(q) \in Nat /\ DOMAIN q = 1..Len(q)
  BY <1>1, LenProperties
<1>3. k \in 0..Len(q)
  <2>1. IsFiniteSet(1..Len(q)) /\ Cardinality(1..Len(q)) = Len(q)
    BY <1>2, FS_Interval
  <2>2. exhausted \in SUBSET (1..Len(q))
    BY <1>2
  <2>3. k <= Len(q) /\ k \in Nat
    BY <2>1, <2>2, FS_Subset, FS_CardinalityType
  <2> QED BY <1>2, <2>3
<1>. HIDE DEF k, q
<1>4. /\ again \in Seq(Entry) /\ Distinct(again)
      /\ Ids(again) = {q[i].id : i \in (k + 1)..Len(q)}
  BY <1>1, <1>3, SuffixOK
<1>5. \A i \in (k + 1)..Len(q) : q[i] \in Entry
  BY <1>1, <1>2, <1>3, ElementOfSeq
<1>6. /\ Len(again) = IF k + 1 <= Len(q) THEN Len(q) - k ELSE 0
      /\ \A i \in 1..(Len(q) - k) : again[i] = q[k + i]
  BY <1>2, <1>3, <1>5, SubSeqProperties
<1>. HIDE DEF again
<1>7. Len(again) = Len(q) - k
  BY <1>2, <1>3, <1>6, RestLength
<1>8. \A i \in 1..Len(again) : k + i \in 1..Len(q)
  BY <1>2, <1>3, <1>7
<1>9. (k + 1)..Len(q) \subseteq DOMAIN q
  BY <1>2, <1>3
<1>10. Ids(again) \subseteq Ids(q)
  BY <1>4, <1>9 DEF Ids
<1> QED BY <1>3, <1>4, <1>6, <1>7, <1>8, <1>10 DEF k, again, exhausted, q

LEMMA HeardStale ==
  ASSUME IInv, HeardInv, NEW d \in Devices, NEW p \in Paths, TransactionStale(d, p)
  PROVE  HeardInv'
<1> USE DEF server, app
<1> DEFINE t == txn[d][p]
           C == counted[p]
           k == Cardinality({i \in DOMAIN t.queue : t.queue[i].tries >= MaxRetries})
           again == SubSeq(t.queue, k + 1, Len(t.queue))
           u == RunAll(p, again, t.now)
<1>1. /\ t \in Transactions /\ TransactionsOK(t) /\ t.reply = "datastale"
      /\ t.now \in Value /\ t.queue \in Seq(Entry)
      /\ Ids(t.queue) \cap C = {}
  BY QueueOK, FieldsOK DEF TransactionStale
<1>2. Heard(d, p) /\ C \in SUBSET Sessions
  BY DEF HeardInv, IInv, TypeOK
<1>3. /\ again \in Seq(Entry) /\ Distinct(again) /\ Ids(again) \subseteq Ids(t.queue)
      /\ \A i \in 1..Len(again) : again[i] = t.queue[k + i] /\ k + i \in 1..Len(t.queue)
  BY <1>1, AgainOK
<1>. HIDE DEF again, k
<1>4. Ids(u.queue) = Ids(again)
  BY <1>1, <1>3, RunAllOK
<1>5. ASSUME faults.reruns = 0
      PROVE  TriesOK(p, u, C)
  <2>1. PICK S \in SUBSET C : t.now = Amount(p, S) /\ SentAtMost(t, Cardinality(S) + 1)
    BY <1>1, <1>2, <1>5 DEF Heard, TriesOK
  <2>2. Cardinality(S) \in Nat /\ t.now # Null
    BY <1>2, <2>1, SessionSetsFinite, AmountType, ConstantsOK
  <2>3. \A i \in 1..Len(t.queue) : t.queue[i].tries <= Cardinality(S) + 1
    <3>1. t.sent \in 0..Len(t.queue) /\ Len(t.queue) \in Nat
      BY <1>1, LenProperties DEF TransactionsOK
    <3>2. \A i \in 1..Len(t.queue) : i \in 1..t.sent \/ i \in (t.sent + 1)..Len(t.queue)
      BY <3>1
    <3>3. \A i \in (t.sent + 1)..Len(t.queue) : t.queue[i].tries = 0
      BY <1>2, <1>5 DEF Heard, TriesOK
    <3> QED BY <2>1, <2>2, <3>2, <3>3 DEF SentAtMost
  <2>4. CASE again = <<>>
    <3>1. u = Idle
      BY <2>4 DEF RunAll
    <3> QED BY <3>1, IdleTries
  <2>5. CASE again # <<>>
    <3>1. \A i \in 1..Len(again) : again[i].tries <= Cardinality(S) + 1
      BY <1>3, <2>3
    <3>2. S \cap Ids(again) = {}
      BY <1>1, <1>3
    <3> QED BY <1>1, <1>2, <1>3, <2>1, <2>2, <2>5, <3>1, <3>2, SentTries
  <2> QED BY <2>4, <2>5
<1>6. txn' = [txn EXCEPT ![d][p] = u] /\ UNCHANGED <<counted, toasted, reading, faults>>
  BY DEF TransactionStale, again, k
<1>. HIDE DEF u
<1> QED BY <1>3, <1>4, <1>5, <1>6, HeardQueue

LEMMA HeardKill ==
  ASSUME IInv, HeardInv, NEW d \in Devices, Kill(d)
  PROVE  HeardInv'
<1>1. /\ txn' = [txn EXCEPT ![d] = [p \in Paths |-> Idle]]
      /\ reading' = [reading EXCEPT ![d] = {}]
      /\ faults' = [faults EXCEPT !.kills = @ + 1]
      /\ UNCHANGED <<counted, toasted>>
  BY DEF Kill, server
<1>2. /\ \A p \in Paths : txn'[d][p] = Idle
      /\ reading'[d] = {} /\ faults.reruns' = faults.reruns
      /\ \A e \in Devices \ {d} : reading'[e] = reading[e] /\ txn'[e] = txn[e]
  BY <1>1 DEF IInv, TypeOK
<1>3. ASSUME NEW p \in Paths
      PROVE  Heard(d, p)'
  <2>1. Ids(Idle.queue) = {}
    BY IdleOK
  <2> QED BY <1>2, <2>1, IdleTries DEF Heard
<1> QED BY <1>1, <1>2, <1>3, HeardStep DEF HeardInv

LEMMA HeardDisconnect ==
  ASSUME IInv, SumsInv, HeardInv, NEW d \in Devices, Disconnect(d)
  PROVE  HeardInv'
<1> USE DEF server, app
<1> DEFINE rest(p) == Waiting(txn[d][p])
           u(p) == RunAll(p, rest(p), cache[d][p])
<1>1. /\ txn' = [txn EXCEPT ![d] = [p \in Paths |-> u(p)]]
      /\ faults' = [faults EXCEPT !.disconnects = @ + 1]
      /\ UNCHANGED <<counted, toasted, reading>>
  BY DEF Disconnect
<1>2. /\ \A p \in Paths : txn'[d][p] = u(p)
      /\ \A e \in Devices \ {d} : txn'[e] = txn[e]
      /\ faults.reruns' = faults.reruns
  <2>. HIDE DEF u
  <2> QED BY <1>1 DEF IInv, TypeOK
<1>3. ASSUME NEW p \in Paths
      PROVE  Heard(d, p)'
  <2> DEFINE t == txn[d][p]
             r == rest(p)
             v == cache[d][p]
             C == counted[p]
  <2>1. Heard(d, p) /\ C \in SUBSET Sessions /\ v \in Value /\ Known(p, v, C)
    BY DEF HeardInv, IInv, TypeOK, SumsInv
  <2>2. /\ t \in Transactions /\ TransactionsOK(t)
        /\ Ids(r) \subseteq Ids(t.queue) /\ Ids(r) \cap C = {}
    BY QueueOK
  <2>3. r \in Seq(Entry) /\ Distinct(r)
    BY <2>2, WaitingOK
  <2>4. faults.reruns = 0 => \A i \in 1..Len(r) : r[i].tries = 0
    BY <2>1, <2>2, WaitingTries DEF Heard
  <2>. HIDE DEF r, v, C
  <2>5. Ids(RunAll(p, r, v).queue) = Ids(r)
    BY <2>1, <2>3, RunAllOK
  <2>6. faults.reruns = 0 => TriesOK(p, RunAll(p, r, v), C)
    BY <2>1, <2>2, <2>3, <2>4, RunTries
  <2> QED BY <1>1, <1>2, <2>1, <2>2, <2>5, <2>6 DEF Heard, r, v, C
<1> QED BY <1>1, <1>2, <1>3, HeardStep DEF HeardInv

LEMMA HeardStart ==
  ASSUME IInv, SumsInv, HeardInv, NEW d \in Devices, NEW s \in Sessions,
         StartTransactions(d, s)
  PROVE  HeardInv'
<1> USE DEF server, client, app
<1> DEFINE listening == viewing[d] \/ reading[d] # {s}
           in(p) == Latest(d, p, listening)
           u(p) == IF txn[d][p].queue = <<>> THEN Sent(p, <<NewEntry(s)>>, in(p))
                   ELSE Enqueue(p, txn[d][p], s)
<1>1. /\ s \in reading[d] /\ reading' = [reading EXCEPT ![d] = @ \ {s}]
      /\ txn' = [txn EXCEPT ![d] = [p \in Paths |-> u(p)]]
      /\ UNCHANGED <<counted, toasted, faults>>
  BY DEF StartTransactions
<1>2. /\ \A p \in Paths : txn'[d][p] = u(p)
      /\ reading'[d] \subseteq reading[d]
      /\ \A e \in Devices \ {d} : reading'[e] = reading[e] /\ txn'[e] = txn[e]
  <2>. HIDE DEF u
  <2> QED BY <1>1 DEF IInv, TypeOK
<1>3. ASSUME NEW p \in Paths
      PROVE  Heard(d, p)'
  <2> DEFINE t == txn[d][p]
             C == counted[p]
  <2>1. /\ Heard(d, p) /\ C \in SUBSET Sessions /\ cache[d][p] \in Value /\ s \in toasted
        /\ Known(p, cache[d][p], C)
    BY <1>1 DEF HeardInv, IInv, TypeOK, SumsInv
  <2>2. /\ s \notin C /\ s \notin Ids(t.queue)
        /\ t \in Transactions /\ TransactionsOK(t) /\ t.out \in Value
    BY <1>1, QueueOK, FieldsOK DEF IInv, DeviceOK, OnceOK, Asked
  <2>3. in(p) \in Value
    BY <2>1, <2>2 DEF Latest, Value
  <2>4. Ids(u(p).queue) = Ids(t.queue) \cup {s}
    BY <1>1, <2>3, StartQueueOK
  <2>5. ASSUME faults.reruns = 0
        PROVE  TriesOK(p, u(p), C)
    <3>1. CASE t.queue # <<>>
      <4>1. t.sent > 0
        BY <2>2, <3>1, FieldsOK DEF TransactionsOK
      <4>2. TriesOK(p, Enqueue(p, t, s), C)
        BY <2>1, <2>2, <2>5, <4>1, EnqueueTries DEF Heard
      <4> QED BY <3>1, <4>2
    <3>2. CASE t.queue = <<>>
      <4> DEFINE q == <<NewEntry(s)>>
      <4>1. NewEntry(s) \in Entry /\ NewEntry(s).id = s /\ NewEntry(s).tries = 0
        BY DEF NewEntry, Entry
      <4>2. q \in Seq(Entry) /\ Len(q) = 1 /\ DOMAIN q = {1} /\ q[1] = NewEntry(s) /\ q # <<>>
        BY <4>1
      <4>. HIDE DEF q
      <4>3. Distinct(q) /\ Ids(q) = {s} /\ \A i \in 1..Len(q) : q[i].tries = 0
        BY <4>1, <4>2 DEF Distinct, Ids
      <4>4. Known(p, in(p), C)
        BY <2>1, <3>2 DEF Latest, Known
      <4>5. Ids(q) \cap C = {}
        BY <2>2, <4>3
      <4>. HIDE DEF in, C
      <4>6. TriesOK(p, RunAll(p, q, in(p)), C)
        BY <2>1, <2>3, <4>2, <4>3, <4>4, <4>5, RunTries
      <4> QED BY <3>2, <4>2, <4>6 DEF RunAll, q
    <3> QED BY <3>1, <3>2
  <2>. HIDE DEF u
  <2> QED BY <1>1, <1>2, <2>1, <2>4, <2>5 DEF Heard
<1> QED BY <1>1, <1>2, <1>3, HeardStep DEF HeardInv

\* What AnswerRead runs again are submissions announced before.
LEMMA HeardAnswerRead ==
  ASSUME IInv, HeardInv, NEW d \in Devices, AnswerRead(d)
  PROVE  HeardInv'
<1> DEFINE us == [p \in Paths |-> RunAgain(p, txn[d][p], rec[p])]
<1>1. /\ txn' = [txn EXCEPT ![d] = us] /\ faults' = [faults EXCEPT !.reruns = @ + 1]
      /\ UNCHANGED <<counted, toasted, reading>>
  <2>1. [txn EXCEPT ![d] = [p \in Paths |-> RunAgain(p, @[p], rec[p])]] = [txn EXCEPT ![d] = us]
    OBVIOUS
  <2>. HIDE DEF us
  <2> QED BY <2>1 DEF AnswerRead, server, app
<1>2. \A p \in Paths : Ids(us[p].queue) = Ids(txn[d][p].queue)
  <2>1. \A p \in Paths : rec[p] \in Nat
    BY DEF IInv, TypeOK
  <2>2. \A p \in Paths : us[p].queue = txn[d][p].queue
    BY <2>1, QueueOK, RunAgainOK
  <2> QED BY <2>2
<1>. HIDE DEF us
<1>3. /\ txn'[d] = us /\ \A e \in Devices \ {d} : txn'[e] = txn[e]
      /\ faults.reruns' # 0
  BY <1>1 DEF IInv, TypeOK
<1>4. \A p \in Paths : Heard(d, p)'
  BY <1>1, <1>2, <1>3 DEF HeardInv, Heard
<1> QED BY <1>1, <1>3, <1>4, HeardStep DEF HeardInv

LEMMA HeardInit == Init => HeardInv
<1> SUFFICES ASSUME Init PROVE HeardInv
  OBVIOUS
<1>1. /\ txn = [d \in Devices |-> [p \in Paths |-> Idle]]
      /\ reading = [d \in Devices |-> {}]
      /\ counted = [p \in Paths |-> {}]
  BY DEF Init
<1>2. \A p \in Paths : Ids(Idle.queue) = {}
  BY IdleOK
<1>3. \A d \in Devices, p \in Paths : Heard(d, p)
  BY <1>1, <1>2, IdleTries DEF Heard
<1> QED BY <1>1, <1>3 DEF HeardInv

LEMMA HeardNext == Invariants /\ HeardInv /\ [Next]_vars => HeardInv'
<1> SUFFICES ASSUME IInv, SumsInv, faults.reruns = 0 => ExactInv, HeardInv, [Next]_vars
             PROVE  HeardInv'
  BY DEF Invariants
<1>1. CASE UNCHANGED vars
  <2>1. UNCHANGED <<txn, counted, toasted, reading, faults>>
    BY <1>1 DEF vars, server, client, app
  <2> QED BY <2>1, HeardQuiet DEF HeardInv
<1>2. CASE Next
  BY <1>2, HeardUser, HeardServer, HeardOk, HeardStale, HeardKill, HeardDisconnect,
     HeardStart, HeardAnswerRead DEF Next, Serve, Hear
<1> QED BY <1>1, <1>2

-----------------------------------------------------------------------------
(* Numbers of the sessions a sequence of writes stores.                    *)

LEMMA PutKeysIn ==
  ASSUME NEW ws, NEW i \in 1..Len(ws), ws[i].type = "session"
  PROVE  ws[i].key \in PutKeys(ws)
BY DEF PutKeys

LEMMA PutKeysOf ==
  ASSUME NEW ws, NEW k \in PutKeys(ws)
  PROVE  \E i \in 1..Len(ws) : ws[i].type = "session" /\ ws[i].key = k
BY DEF PutKeys

LEMMA PutKeysConcat ==
  ASSUME NEW ws \in Seq(Writes), NEW vs \in Seq(Writes)
  PROVE  PutKeys(ws \o vs) = PutKeys(ws) \cup PutKeys(vs)
<1> DEFINE us == ws \o vs
           n == Len(ws)
           m == Len(vs)
<1>1. /\ n \in Nat /\ m \in Nat /\ Len(us) = n + m
      /\ \A i \in 1..n : us[i] = ws[i]
      /\ \A i \in (n + 1)..(n + m) : us[i] = vs[i - n]
  BY ConcatOK, WritesOK
<1>. HIDE DEF us, n, m
<1>2. ASSUME NEW k \in PutKeys(us)
      PROVE  k \in PutKeys(ws) \cup PutKeys(vs)
  <2>1. PICK i \in 1..(n + m) : us[i].type = "session" /\ us[i].key = k
    <3>1. \E i \in 1..Len(us) : us[i].type = "session" /\ us[i].key = k
      BY PutKeysOf
    <3> QED BY <1>1, <3>1
  <2>2. CASE i \in 1..n
    BY <1>1, <2>1, <2>2, PutKeysIn DEF n
  <2>3. CASE i \in (n + 1)..(n + m)
    <3>1. i - n \in 1..m
      BY <1>1, <2>3
    <3> QED BY <1>1, <2>1, <2>3, <3>1, PutKeysIn DEF m
  <2> QED BY <1>1, <2>2, <2>3
<1>3. ASSUME NEW k \in PutKeys(ws)
      PROVE  k \in PutKeys(us)
  <2>1. PICK i \in 1..n : ws[i].type = "session" /\ ws[i].key = k
    BY PutKeysOf DEF n
  <2>2. i \in 1..Len(us) /\ us[i] = ws[i]
    BY <1>1
  <2> QED BY <2>1, <2>2, PutKeysIn
<1>4. ASSUME NEW k \in PutKeys(vs)
      PROVE  k \in PutKeys(us)
  <2>1. PICK i \in 1..m : vs[i].type = "session" /\ vs[i].key = k
    BY PutKeysOf DEF m
  <2>2. n + i \in (n + 1)..(n + m) /\ n + i \in 1..Len(us) /\ (n + i) - n = i
    BY <1>1
  <2>3. us[n + i] = vs[i]
    BY <1>1, <2>2
  <2> QED BY <2>1, <2>2, <2>3, PutKeysIn
<1> QED BY <1>2, <1>3, <1>4 DEF us

\* Puts of a counter store no session.
LEMMA PutKeysNone ==
  /\ PutKeys(<<>>) = {}
  /\ \A p \in Paths : PutKeys(<<Put(p)>>) = {}
  /\ \A p \in Paths : \A q : PutKeys(PutsOf(p, q)) = {}
<1>1. PutKeys(<<>>) = {}
  BY DEF PutKeys
<1>2. ASSUME NEW p \in Paths
      PROVE  PutKeys(<<Put(p)>>) = {}
  <2>1. Len(<<Put(p)>>) = 1 /\ <<Put(p)>>[1].type # "session"
    BY PutOK
  <2> QED BY <2>1 DEF PutKeys
<1> QED BY <1>1, <1>2 DEF PutsOf

\* What runs of the numSessions transaction write: each number they computed.
LEMMA PutKeysSets ==
  ASSUME NEW d \in Devices, NEW p, NEW n \in Nat, NEW v \in Value
  PROVE  PutKeys(SessionPuts(d, p, n, v))
           = IF p = NumSessions /\ v # Null THEN (v + 1)..(v + n) ELSE {}
<1> DEFINE ws == SessionPuts(d, p, n, v)
<1>1. CASE p = NumSessions /\ v # Null
  <2>1. v \in Nat
    BY <1>1 DEF Value
  <2>2. ws = [i \in 1..n |-> SessionPut(d, v + i)]
    BY <1>1 DEF SessionPuts
  <2>. HIDE DEF ws
  <2>3. Len(ws) = n /\ \A i \in 1..n : ws[i].type = "session" /\ ws[i].key = v + i
    BY <2>2 DEF SessionPut
  <2>4. \A k \in PutKeys(ws) : k \in (v + 1)..(v + n)
    BY <2>1, <2>3, PutKeysOf
  <2>5. ASSUME NEW k \in (v + 1)..(v + n)
        PROVE  k \in PutKeys(ws)
    <3>1. k - v \in 1..n /\ v + (k - v) = k
      BY <2>1
    <3> QED BY <2>3, <3>1, PutKeysIn
  <2> QED BY <1>1, <2>4, <2>5 DEF ws
<1>2. CASE ~(p = NumSessions /\ v # Null)
  <2>1. ws = <<>>
    BY <1>2 DEF SessionPuts
  <2> QED BY <1>2, <2>1, PutKeysNone
<1> QED BY <1>1, <1>2

\* The first write goes.
LEMMA PutKeysTail ==
  ASSUME NEW ws \in Seq(Writes), ws # <<>>
  PROVE  /\ PutKeys(Tail(ws)) \subseteq PutKeys(ws)
         /\ \A k \in PutKeys(ws) : \/ k \in PutKeys(Tail(ws))
                                   \/ ws[1].type = "session" /\ ws[1].key = k
         /\ \A n \in Nat : \A K : n > 0 /\ ServedOK(ws, n, K) /\ n <= Len(ws)
                                => ServedOK(Tail(ws), n - 1, K)
<1> DEFINE ts == Tail(ws)
           n == Len(ws)
<1>1. /\ n \in Nat \ {0} /\ Len(ts) = n - 1
      /\ \A i \in 1..(n - 1) : ts[i] = ws[i + 1]
  BY TailOK
<1>. HIDE DEF ts, n
<1>2. ASSUME NEW k \in PutKeys(ts)
      PROVE  k \in PutKeys(ws)
  <2>1. PICK i \in 1..(n - 1) : ts[i].type = "session" /\ ts[i].key = k
    BY <1>1, PutKeysOf
  <2>2. i + 1 \in 1..n
    BY <1>1
  <2> QED BY <1>1, <2>1, <2>2, PutKeysIn DEF n
<1>3. ASSUME NEW k \in PutKeys(ws)
      PROVE  k \in PutKeys(ts) \/ (ws[1].type = "session" /\ ws[1].key = k)
  <2>1. PICK i \in 1..n : ws[i].type = "session" /\ ws[i].key = k
    BY PutKeysOf DEF n
  <2>2. CASE i = 1
    BY <2>1, <2>2
  <2>3. CASE i # 1
    <3>1. i - 1 \in 1..(n - 1) /\ (i - 1) + 1 = i /\ i - 1 \in 1..Len(ts)
      BY <1>1, <2>3
    <3>2. ts[i - 1] = ws[i]
      BY <1>1, <3>1
    <3> QED BY <2>1, <3>1, <3>2, PutKeysIn
  <2> QED BY <2>2, <2>3
<1>4. ASSUME NEW m \in Nat, NEW K, m > 0, ServedOK(ws, m, K), m <= n
      PROVE  ServedOK(ts, m - 1, K)
  <2>1. ASSUME NEW i \in 1..(m - 1), ts[i].type = "session"
        PROVE  ts[i].key \in K
    <3>1. i + 1 \in 1..m /\ i \in 1..(n - 1)
      BY <1>1, <1>4
    <3> QED BY <1>1, <1>4, <2>1, <3>1 DEF ServedOK
  <2> QED BY <2>1 DEF ServedOK
<1> QED BY <1>2, <1>3, <1>4 DEF ts, n

\* A put goes first, or puts are added: the sessions are the same.
LEMMA PutKeysAnswered ==
  ASSUME NEW ws \in Seq(Writes), ws # <<>>, ws[1].type # "session"
  PROVE  PutKeys(Tail(ws)) = PutKeys(ws)
<1>1. PutKeys(Tail(ws)) \subseteq PutKeys(ws)
  BY PutKeysTail
<1>2. \A k \in PutKeys(ws) : k \in PutKeys(Tail(ws))
  BY PutKeysTail
<1> QED BY <1>1, <1>2

LEMMA PutKeysMore ==
  ASSUME NEW ws \in Seq(Writes), NEW vs \in Seq(Writes), PutKeys(vs) = {}
  PROVE  ws \o vs \in Seq(Writes) /\ PutKeys(ws \o vs) = PutKeys(ws)
<1>1. ws \o vs \in Seq(Writes)
  BY ConcatOK
<1>2. PutKeys(ws \o vs) = PutKeys(ws) \cup PutKeys(vs)
  BY PutKeysConcat
<1> QED BY <1>1, <1>2

LEMMA ServedConcat ==
  ASSUME NEW ws \in Seq(Writes), NEW vs \in Seq(Writes), NEW n \in Nat, n <= Len(ws),
         NEW K, ServedOK(ws, n, K)
  PROVE  ServedOK(ws \o vs, n, K)
<1>1. Len(ws) \in Nat /\ \A i \in 1..n : i \in 1..Len(ws)
  BY WritesOK
<1>2. \A i \in 1..Len(ws) : (ws \o vs)[i] = ws[i]
  BY ConcatOK
<1> QED BY <1>1, <1>2 DEF ServedOK

\* Taking a put out takes out nothing else.
LEMMA RemoveSplit ==
  ASSUME NEW p \in Paths, NEW ws \in Seq(Writes), Unique(p, ws)
  PROVE  \/ RemoveFirst(ws, Put(p)) = ws
         \/ \E a \in Seq(Writes), b \in Seq(Writes) :
              RemoveFirst(ws, Put(p)) = a \o b /\ ws = (a \o <<Put(p)>>) \o b
<1> DEFINE r == RemoveFirst(ws, Put(p))
           n == Len(ws)
<1>1. n \in Nat /\ DOMAIN ws = 1..n /\ \A i \in 1..n : ws[i] \in Writes
  BY WritesOK
<1>3. CASE \A i \in 1..n : ws[i] # Put(p)
  BY <1>3 DEF RemoveFirst
<1>4. CASE \E i \in 1..n : ws[i] = Put(p)
  <2>1. PICK i \in 1..n : ws[i] = Put(p)
    BY <1>4
  <2>2. {j \in 1..n : ws[j] = Put(p)} = {i}
    BY <1>1, <2>1 DEF Unique
  <2>3. Min({i}) = i
    BY <1>1 DEF Min
  <2>4. SelectInSeq(ws, LAMBDA w : w = Put(p)) = i
    BY <2>2, <2>3 DEF SelectInSeq
  <2> DEFINE a == SubSeq(ws, 1, i - 1)
             b == SubSeq(ws, i + 1, n)
             q == <<Put(p)>>
  <2>5. r = a \o b
    BY <1>4, <2>4 DEF RemoveFirst, RemoveAt
  <2>6. a \in Seq(Writes) /\ b \in Seq(Writes) /\ q \in Seq(Writes)
    <3>1. (\A k \in 1..(i - 1) : ws[k] \in Writes) /\ (\A k \in (i + 1)..n : ws[k] \in Writes)
      BY <1>1
    <3> QED BY <1>1, <3>1, SubSeqProperties, PutOK
  <2>7. ws = (a \o q) \o b
    <3>1. /\ Len(a) = i - 1 /\ \A k \in 1..(i - 1) : a[k] = ws[k]
      <4>1. \A k \in 1..(i - 1) : ws[k] \in Writes
        BY <1>1
      <4>2. /\ Len(a) = IF 1 <= i - 1 THEN i - 1 ELSE 0
            /\ \A k \in 1..(i - 1) : a[k] = ws[k]
        BY <1>1, <4>1, SubSeqProperties
      <4>. HIDE DEF a
      <4>3. CASE 1 <= i - 1
        BY <4>2, <4>3
      <4>4. CASE ~(1 <= i - 1)
        <5>1. Len(a) = 0 /\ i - 1 = 0
          BY <1>1, <4>2, <4>4
        <5> QED BY <4>2, <5>1
      <4> QED BY <4>3, <4>4
    <3>2. /\ Len(b) = n - i /\ \A k \in 1..(n - i) : b[k] = ws[i + k]
      <4>1. \A k \in (i + 1)..n : ws[k] \in Writes
        BY <1>1
      <4>2. /\ Len(b) = IF i + 1 <= n THEN n - i ELSE 0
            /\ \A k \in 1..(n - i) : b[k] = ws[i + k]
        BY <1>1, <4>1, SubSeqProperties
      <4>. HIDE DEF b, n
      <4>3. i \in 0..n
        BY <1>1
      <4> QED BY <1>1, <4>2, <4>3, RestLength
    <3>3. Len(q) = 1 /\ q[1] = Put(p)
      OBVIOUS
    <3> DEFINE e == a \o q
               f == e \o b
    <3>. HIDE DEF a, b, q, n
    <3>4. /\ e \in Seq(Writes) /\ Len(e) = i
          /\ \A k \in 1..(i - 1) : e[k] = ws[k]
          /\ e[i] = Put(p)
      <4>1. Len(a) + Len(q) = i /\ i \in (Len(a) + 1)..(Len(a) + Len(q)) /\ i - Len(a) = 1
        BY <1>1, <3>1, <3>3
      <4>2. e \in Seq(Writes) /\ Len(e) = Len(a) + Len(q)
            /\ (\A k \in 1..Len(a) : e[k] = a[k])
            /\ e[i] = q[i - Len(a)]
        BY <2>6, <4>1, ConcatOK
      <4>. HIDE DEF e
      <4> QED BY <3>1, <3>3, <4>1, <4>2
    <3>. HIDE DEF e
    <3>5. /\ f \in Seq(Writes) /\ Len(f) = n
          /\ \A k \in 1..i : f[k] = e[k]
          /\ \A k \in (i + 1)..n : f[k] = b[k - i]
      <4>1. Len(e) + Len(b) = n /\ Len(e) = i
        BY <1>1, <3>2, <3>4
      <4>2. b \in Seq(Writes) /\ e \in Seq(Writes)
        BY <2>6, <3>4
      <4>3. f \in Seq(Writes) /\ Len(f) = Len(e) + Len(b)
            /\ (\A k \in 1..Len(e) : f[k] = e[k])
            /\ (\A k \in (Len(e) + 1)..(Len(e) + Len(b)) : f[k] = b[k - Len(e)])
        BY <4>2, ConcatOK
      <4>. HIDE DEF f
      <4> QED BY <4>1, <4>3
    <3>. HIDE DEF f
    <3>6. ASSUME NEW k \in 1..n
          PROVE  f[k] = ws[k]
      <4>1. CASE k \in 1..(i - 1)
        <5>1. k \in 1..i
          BY <1>1, <4>1
        <5> QED BY <3>4, <3>5, <4>1, <5>1
      <4>2. CASE k = i
        BY <1>1, <2>1, <3>4, <3>5, <4>2
      <4>3. CASE k \in (i + 1)..n
        <5>1. k - i \in 1..(n - i) /\ i + (k - i) = k
          BY <1>1, <4>3
        <5> QED BY <3>2, <3>5, <4>3, <5>1
      <4> QED BY <1>1, <4>1, <4>2, <4>3
    <3>7. f = ws
      <4>1. DOMAIN f = DOMAIN ws
        BY <1>1, <3>5, WritesOK
      <4> QED BY <1>1, <3>5, <3>6, <4>1
    <3> QED BY <3>7 DEF e, f
  <2>. HIDE DEF a, b, q, r
  <2> QED BY <2>5, <2>6, <2>7 DEF q, r
<1> QED BY <1>3, <1>4 DEF r

\* Taking puts out loses no session.
LEMMA PutKeysRemove ==
  ASSUME NEW p \in Paths, NEW ws \in Seq(Writes), Unique(p, ws)
  PROVE  LET r == RemoveFirst(ws, Put(p)) IN
         r \in Seq(Writes) /\ PutKeys(r) = PutKeys(ws)
<1> DEFINE r == RemoveFirst(ws, Put(p))
           q == <<Put(p)>>
<1>1. r \in Seq(Writes) /\ q \in Seq(Writes) /\ PutKeys(q) = {}
  BY RemoveOK, PutOK, PutKeysNone
<1>2. ASSUME r # ws
      PROVE  PutKeys(r) = PutKeys(ws)
  <2>1. PICK a \in Seq(Writes), b \in Seq(Writes) : r = a \o b /\ ws = (a \o q) \o b
    BY <1>2, RemoveSplit
  <2>. HIDE DEF q, r
  <2>2. a \o q \in Seq(Writes)
    BY <1>1, ConcatOK
  <2>3. PutKeys(ws) = (PutKeys(a) \cup PutKeys(q)) \cup PutKeys(b)
    BY <1>1, <2>1, <2>2, PutKeysConcat
  <2>4. PutKeys(r) = PutKeys(a) \cup PutKeys(b)
    BY <2>1, PutKeysConcat
  <2> QED BY <1>1, <2>3, <2>4
<1>3. PutKeys(r) = PutKeys(ws)
  BY <1>2
<1> QED BY <1>1, <1>3

LEMMA PutKeysWithout ==
  ASSUME NEW ws \in Seq(Writes), \A p \in Paths : Unique(p, ws)
  PROVE  PutKeys(WithoutPuts(ws)) = PutKeys(ws) /\ WithoutPuts(ws) \in Seq(Writes)
<1> DEFINE r == RemoveFirst(ws, Put(NumSessions))
<1>1. NumSessions \in Paths /\ TotalHours \in Paths
  BY DEF Paths
<1>2. r \in Seq(Writes) /\ Unique(TotalHours, r) /\ PutKeys(r) = PutKeys(ws)
  BY <1>1, RemoveOK, PutKeysRemove
<1>. HIDE DEF r
<1>3. PutKeys(RemoveFirst(r, Put(TotalHours))) = PutKeys(r)
  BY <1>1, <1>2, PutKeysRemove
<1> QED BY <1>2, <1>3, WithoutPutsOK DEF WithoutPuts, r

-----------------------------------------------------------------------------
(* How many submissions there are.                                         *)

\* The submissions of a queue are as many as its transactions.
LEMMA IdsCount ==
  ASSUME NEW q \in Seq(Entry), Distinct(q)
  PROVE  Cardinality(Ids(q)) = Len(q) /\ Len(q) \in Nat
<1> DEFINE n == Len(q)
           f == [i \in 1..n |-> q[i].id]
<1>1. n \in Nat /\ DOMAIN q = 1..n
  BY LenProperties
<1>2. f \in Bijection(1..n, Ids(q))
  <2>1. f \in [1..n -> Ids(q)]
    BY <1>1 DEF Ids
  <2>2. \A i, j \in 1..n : f[i] = f[j] => i = j
    BY <1>1 DEF Distinct
  <2>3. \A s \in Ids(q) : \E i \in 1..n : f[i] = s
    BY <1>1 DEF Ids
  <2>. HIDE DEF f, n
  <2> QED BY <2>1, <2>2, <2>3, Fun_IsBij
<1>3. IsFiniteSet(1..n) /\ Cardinality(1..n) = n
  BY <1>1, FS_Interval
<1>4. ExistsBijection(1..n, Ids(q))
  BY <1>2 DEF ExistsBijection
<1> QED BY <1>1, <1>3, <1>4, FS_Bijection

\* Two groups of submissions users were told of are no more than all of these.
LEMMA ToldOf ==
  ASSUME IInv, NEW S \in SUBSET toasted, NEW Q \in SUBSET toasted, S \cap Q = {}
  PROVE  /\ Cardinality(S) + Cardinality(Q) <= Cardinality(toasted)
         /\ Cardinality(S) \in Nat /\ Cardinality(Q) \in Nat /\ Cardinality(toasted) \in Nat
<1>1. toasted \in SUBSET Sessions
  BY DEF IInv, TypeOK
<1>2. S \cup Q \in SUBSET toasted
  OBVIOUS
<1>3. /\ IsFiniteSet(toasted) /\ Cardinality(toasted) \in Nat
      /\ IsFiniteSet(S) /\ Cardinality(S) \in Nat
      /\ IsFiniteSet(Q) /\ Cardinality(Q) \in Nat
  BY <1>1, <1>2, SessionSetsFinite
<1>4. Cardinality(S \cup Q) <= Cardinality(toasted)
  BY <1>2, <1>3, FS_Subset
<1>5. Cardinality(S \cup Q) = Cardinality(S) + Cardinality(Q) - Cardinality(S \cap Q)
  BY <1>3, FS_Union
<1>6. Cardinality(S \cap Q) = 0
  BY FS_EmptySet
<1> QED BY <1>3, <1>4, <1>5, <1>6

\* A number for one more session, when sessions are written under ks: it is not
\* beyond the submissions made, and there is no gap before it.
NumberOK(k, ks) ==
  /\ k <= Cardinality(toasted)
  /\ faults.kills = 0 => 1..k \subseteq Written \cup ks

\* Transactions that run, from what some submissions of C add up to, store sessions
\* under good numbers when they are themselves for others than those of C.
LEMMA PutsNumbered ==
  ASSUME IInv, NEW d \in Devices, NEW p \in Paths, NEW v \in Value,
         NEW C \in SUBSET toasted, NEW Q \in SUBSET toasted, Q \cap C = {}, Known(p, v, C),
         p = NumSessions /\ faults.kills = 0 => Filled(v), NEW n \in Nat, n = Cardinality(Q)
  PROVE  LET ks == PutKeys(SessionPuts(d, p, n, v)) IN \A k \in ks : NumberOK(k, ks)
<1> DEFINE ks == PutKeys(SessionPuts(d, p, n, v))
<1>1. ks = IF p = NumSessions /\ v # Null THEN (v + 1)..(v + n) ELSE {}
  BY PutKeysSets
<1>. HIDE DEF ks
<1>2. CASE ~(p = NumSessions /\ v # Null)
  BY <1>1, <1>2 DEF ks
<1>3. CASE p = NumSessions /\ v # Null
  <2>1. v \in Nat /\ ks = (v + 1)..(v + n)
    BY <1>1, <1>3 DEF Value
  <2>2. PICK S \in SUBSET C : v = Cardinality(S)
    BY <1>3 DEF Known, Amount
  <2>3. v + n <= Cardinality(toasted) /\ Cardinality(toasted) \in Nat
    <3>1. S \in SUBSET toasted /\ S \cap Q = {}
      BY <2>2
    <3> QED BY <2>2, <3>1, ToldOf
  <2>4. ASSUME NEW k \in ks
        PROVE  NumberOK(k, ks)
    <3>1. k <= Cardinality(toasted)
      BY <2>1, <2>3
    <3>2. \A i \in 1..k : i \in 1..v \/ i \in ks
      BY <2>1
    <3>3. faults.kills = 0 => 1..v \subseteq Written
      BY <1>3 DEF Filled
    <3> QED BY <3>1, <3>2, <3>3 DEF NumberOK
  <2> QED BY <2>4 DEF ks
<1> QED BY <1>2, <1>3

\* Running a queue computes the numbers under which it stores sessions.
LEMMA RunKeys ==
  ASSUME IInv, HeardInv, NEW d \in Devices, NEW p \in Paths, NEW q \in Seq(Entry), Distinct(q),
         NEW v \in Value, Known(p, v, counted[p]), Ids(q) \in SUBSET toasted,
         Ids(q) \cap counted[p] = {}, p = NumSessions /\ faults.kills = 0 => Filled(v)
  PROVE  LET ks == PutKeys(SessionPuts(d, p, Len(q), v)) IN
         /\ p = NumSessions => Results(RunAll(p, q, v)) \subseteq {Null} \cup ks
         /\ \A k \in ks : NumberOK(k, ks)
<1> DEFINE ks == PutKeys(SessionPuts(d, p, Len(q), v))
<1>1. Cardinality(Ids(q)) = Len(q) /\ Len(q) \in Nat
  BY IdsCount
<1>2. ks = IF p = NumSessions /\ v # Null THEN (v + 1)..(v + Len(q)) ELSE {}
  BY <1>1, PutKeysSets
<1>3. \A k \in ks : NumberOK(k, ks)
  <2>1. counted[p] \in SUBSET toasted
    BY DEF HeardInv
  <2>. HIDE DEF ks
  <2> QED BY <1>1, <2>1, PutsNumbered DEF ks
<1>. HIDE DEF ks
<1>4. ASSUME p = NumSessions
      PROVE  Results(RunAll(p, q, v)) \subseteq {Null} \cup ks
  <2>1. CASE q = <<>>
    BY <2>1 DEF RunAll, Idle, Results
  <2>2. CASE q # <<>>
    <3>1. /\ RunAll(p, q, v).val = Output(p, Ids(q), v) /\ RunAll(p, q, v).out = Output(p, Ids(q), v)
          /\ RunAll(p, q, v).now = Null
      BY <2>2 DEF RunAll, Sent
    <3>2. Output(p, Ids(q), v) \in {Null} \cup ks
      <4>1. CASE v = Null
        BY <4>1 DEF Output
      <4>2. CASE v # Null
        <5>1. v \in Nat /\ Output(p, Ids(q), v) = v + Len(q) /\ Len(q) > 0
          BY <1>1, <1>4, <2>2, <4>2, IdsNonempty DEF Output, Amount, Value
        <5> QED BY <1>1, <1>2, <1>4, <4>2, <5>1
      <4> QED BY <4>1, <4>2
    <3> QED BY <3>1, <3>2 DEF Results
  <2> QED BY <2>1, <2>2
<1> QED BY <1>3, <1>4 DEF ks

LEMMA PutKeysType ==
  ASSUME NEW ws \in Seq(Writes)
  PROVE  PutKeys(ws) \subseteq Keys
<1> SUFFICES ASSUME NEW k \in PutKeys(ws)
             PROVE  k \in Keys
  OBVIOUS
<1>1. PICK i \in 1..Len(ws) : ws[i].type = "session" /\ ws[i].key = k
  BY PutKeysOf
<1>2. ws[i] \in Writes
  BY WritesOK
<1> QED BY <1>1, <1>2 DEF Writes

-----------------------------------------------------------------------------
(* The numbers of the sessions: every step.                                *)

\* What a step of device d must show for the numbers to stay in order.
LEMMA KeysStep ==
  ASSUME IInv, KeysInv, IInv', NEW d \in Devices,
         \A e \in Devices \ {d} :
           /\ outstanding'[e] = outstanding[e] /\ answered'[e] = answered[e]
           /\ txn'[e] = txn[e] /\ cache'[e] = cache[e],
         toasted \subseteq toasted',
         DOMAIN stored \subseteq DOMAIN stored',
         DOMAIN stored' \subseteq DOMAIN stored \cup PutKeys(outstanding[d]),
         \A k \in PutKeys(outstanding'[d]) :
           k \in PutKeys(outstanding[d]) \/ NumberOK(k, PutKeys(outstanding'[d])),
         ServedOK(outstanding'[d], answered'[d], DOMAIN stored'),
         faults'.kills = 0 =>
           /\ faults.kills = 0
           /\ PutKeys(outstanding[d]) \subseteq PutKeys(outstanding'[d]) \cup DOMAIN stored'
           /\ {rec'[NumSessions]} \cup Numbers(d)'
                \subseteq {rec[NumSessions], Null} \cup Numbers(d) \cup PutKeys(outstanding'[d])
  PROVE  KeysInv'
<1>1. Cardinality(toasted) \in Nat /\ Cardinality(toasted') \in Nat
      /\ Cardinality(toasted) <= Cardinality(toasted')
  <2>1. toasted \in SUBSET Sessions /\ toasted' \in SUBSET Sessions
    BY DEF IInv, TypeOK
  <2> QED BY <2>1, SessionSetsFinite, FS_Subset
<1>2. \A e \in Devices : PutKeys(outstanding[e]) \subseteq Keys
  BY PutKeysType DEF IInv, TypeOK
<1>3. \A k \in Keys : k <= Cardinality(toasted) => k <= Cardinality(toasted')
  BY <1>1 DEF Keys
<1>4. \A e \in Devices : \A k \in PutKeys(outstanding[e]) : k <= Cardinality(toasted')
  BY <1>2, <1>3 DEF KeysInv
<1>5. \A k \in DOMAIN stored' : k <= Cardinality(toasted')
  <2>1. DOMAIN stored \subseteq Keys
    BY DEF IInv, TypeOK
  <2> QED BY <1>3, <1>4, <2>1 DEF KeysInv
<1>6. \A e \in Devices : \A k \in PutKeys(outstanding'[e]) : k <= Cardinality(toasted')
  <2>1. PutKeys(outstanding'[d]) \subseteq Keys
    BY PutKeysType DEF IInv, TypeOK
  <2>2. \A k \in PutKeys(outstanding'[d]) : k <= Cardinality(toasted')
    BY <1>3, <1>4, <2>1 DEF NumberOK
  <2> QED BY <1>4, <2>2
<1>7. \A e \in Devices : ServedOK(outstanding'[e], answered'[e], DOMAIN stored')
  BY DEF KeysInv, ServedOK
<1>8. ASSUME faults'.kills = 0
      PROVE  /\ Filled(rec[NumSessions])'
             /\ \A e \in Devices : \A v \in Numbers(e)' : Filled(v)'
             /\ \A k \in Written' : Filled(k)'
  <2>1. \A e \in Devices : PutKeys(outstanding[e]) \subseteq PutKeys(outstanding'[e]) \cup DOMAIN stored'
    BY <1>8
  <2>2. Written \subseteq Written'
    BY <2>1 DEF Written
  <2>3. \A e \in Devices : PutKeys(outstanding'[e]) \subseteq Written'
    BY DEF Written
  <2>4. \A v : Filled(v) => v = Null \/ 1..v \subseteq Written'
    BY <2>2 DEF Filled
  <2>5. ASSUME NEW k \in Written'
        PROVE  1..k \subseteq Written' \/ k = Null
    <3>1. CASE k \in Written
      BY <1>8, <2>4, <3>1 DEF KeysInv
    <3>2. CASE k \notin Written
      <4>1. k \in PutKeys(outstanding'[d]) /\ k \notin PutKeys(outstanding[d])
        BY <3>2 DEF Written
      <4>2. 1..k \subseteq Written \cup PutKeys(outstanding'[d])
        BY <1>8, <4>1 DEF NumberOK
      <4> QED BY <2>2, <2>3, <4>2
    <3> QED BY <3>1, <3>2
  <2>6. \A v \in {rec[NumSessions], Null} \cup Numbers(d) \cup PutKeys(outstanding'[d]) :
          v = Null \/ 1..v \subseteq Written'
    BY <1>8, <2>3, <2>4, <2>5 DEF KeysInv
  <2>7. \A v \in {rec'[NumSessions]} \cup Numbers(d)' : v = Null \/ 1..v \subseteq Written'
    BY <1>8, <2>6
  <2>8. ASSUME NEW e \in Devices \ {d}, NEW v \in Numbers(e)'
        PROVE  v = Null \/ 1..v \subseteq Written'
    <3>1. Numbers(e)' = Numbers(e)
      BY DEF Numbers
    <3>. HIDE DEF Numbers
    <3> QED BY <1>8, <2>4, <2>8, <3>1 DEF KeysInv
  <2>. HIDE DEF Numbers, Written
  <2> QED BY <2>5, <2>7, <2>8 DEF Filled
<1>. HIDE DEF Written, Numbers, Filled
<1> QED BY <1>5, <1>6, <1>7, <1>8 DEF KeysInv

\* Steps that write nothing and run nothing.
LEMMA KeysQuiet ==
  ASSUME IInv, KeysInv, IInv',
         UNCHANGED <<outstanding, answered, txn, stored, rec>>,
         \A d \in Devices : cache'[d][NumSessions] \in {cache[d][NumSessions], rec[NumSessions], Null},
         toasted \subseteq toasted', faults'.kills = faults.kills
  PROVE  KeysInv'
<1>1. Cardinality(toasted) \in Nat /\ Cardinality(toasted') \in Nat
      /\ Cardinality(toasted) <= Cardinality(toasted')
  <2>1. toasted \in SUBSET Sessions /\ toasted' \in SUBSET Sessions
    BY DEF IInv, TypeOK
  <2> QED BY <2>1, SessionSetsFinite, FS_Subset
<1>2. DOMAIN stored \subseteq Keys /\ \A d \in Devices : PutKeys(outstanding[d]) \subseteq Keys
  BY PutKeysType DEF IInv, TypeOK
<1>3. \A k \in Keys : k <= Cardinality(toasted) => k <= Cardinality(toasted')
  BY <1>1 DEF Keys
<1>4. Written' = Written /\ \A v : Filled(v)' <=> Filled(v)
  BY DEF Written, Filled
<1>5. ASSUME NEW d \in Devices
      PROVE  Numbers(d)' \subseteq Numbers(d) \cup {rec[NumSessions], Null}
  BY DEF Numbers, Results
<1>6. Filled(Null)
  BY DEF Filled
<1>7. DOMAIN stored' = DOMAIN stored /\ rec' = rec /\ outstanding' = outstanding
      /\ answered' = answered
  OBVIOUS
<1>8. \A k \in DOMAIN stored' : k <= Cardinality(toasted')
  BY <1>2, <1>3, <1>7 DEF KeysInv
<1>9. \A d \in Devices : \A k \in PutKeys(outstanding'[d]) : k <= Cardinality(toasted')
  BY <1>2, <1>3, <1>7 DEF KeysInv
<1>. HIDE DEF Written, Numbers, Filled
<1>10. faults'.kills = 0 =>
         /\ Filled(rec'[NumSessions])
         /\ \A d \in Devices : \A v \in Numbers(d)' : Filled(v)
         /\ \A k \in Written' : Filled(k)
  BY <1>4, <1>5, <1>6, <1>7 DEF KeysInv
<1>11. \A d \in Devices : ServedOK(outstanding'[d], answered'[d], DOMAIN stored')
  BY <1>7 DEF KeysInv
<1> QED BY <1>4, <1>8, <1>9, <1>10, <1>11 DEF KeysInv

LEMMA KeysUser ==
  ASSUME IInv, KeysInv, IInv', NEW d \in Devices,
         \/ Start(d) \/ Stop(d) \/ ReadHistory(d) \/ HistoryShown(d) \/ DataUpdate(d) \/ Reconnect(d)
         \/ \E s \in Sessions : Submit(d, s) \/ Decline(d, s)
  PROVE  KeysInv'
<1>1. /\ UNCHANGED <<outstanding, answered, txn, stored, rec>>
      /\ toasted \subseteq toasted' /\ faults'.kills = faults.kills
  BY DEF Start, Stop, ReadHistory, HistoryShown, DataUpdate, Reconnect, Submit, Decline,
         server, client, app
<1>2. \A e \in Devices : cache'[e][NumSessions] \in {cache[e][NumSessions], rec[NumSessions], Null}
  <2>1. cache \in [Devices -> [Paths -> Value]] /\ NumSessions \in Paths
    BY DEF IInv, TypeOK, Paths
  <2>2. CASE cache' = cache
    BY <2>2
  <2>3. CASE HistoryShown(d)
    BY <2>1, <2>3 DEF HistoryShown, Keep
  <2>4. CASE DataUpdate(d)
    BY <2>1, <2>4 DEF DataUpdate, Keep
  <2> QED BY <2>2, <2>3, <2>4 DEF Start, Stop, ReadHistory, Reconnect, Submit, Decline, client
<1> QED BY <1>1, <1>2, KeysQuiet

\* A session reaches the database: it was outstanding.
LEMMA KeysServerSet ==
  ASSUME IInv, KeysInv, IInv', NEW d \in Devices, ServerSet(d)
  PROVE  KeysInv'
<1> DEFINE ws == outstanding[d]
           n == answered[d]
           w == ws[n + 1]
<1>1. /\ ws \in Seq(Writes) /\ n \in Nat /\ n + 1 \in 1..Len(ws) /\ w.type = "session"
      /\ DOMAIN stored' = DOMAIN stored \cup {w.key}
      /\ answered' = [answered EXCEPT ![d] = n + 1]
      /\ UNCHANGED <<rec, outstanding, txn, cache, toasted, faults>>
  <2>1. ws \in Seq(Writes) /\ n \in Nat /\ n < Len(ws)
    BY DEF ServerSet, HasWrite, IInv, TypeOK
  <2>2. Len(ws) \in Nat
    BY <2>1, WritesOK
  <2> QED BY <2>1, <2>2 DEF ServerSet, NextWrite, app
<1>2. w.key \in PutKeys(ws)
  BY <1>1, PutKeysIn
<1>3. answered'[d] = n + 1 /\ \A e \in Devices \ {d} : answered'[e] = answered[e]
  BY <1>1 DEF IInv, TypeOK
<1>4. ServedOK(ws, n + 1, DOMAIN stored')
  <2>1. \A i \in 1..(n + 1) : i \in 1..n \/ i = n + 1
    BY <1>1
  <2>2. ServedOK(ws, n, DOMAIN stored)
    BY DEF KeysInv
  <2> QED BY <1>1, <2>1, <2>2 DEF ServedOK
<1>5. Numbers(d)' = Numbers(d)
  BY <1>1 DEF Numbers
<1>. HIDE DEF Numbers
<1> QED BY <1>1, <1>2, <1>3, <1>4, <1>5, KeysStep DEF KeysInv

\* A session's write is acknowledged: it was in the database before.
LEMMA KeysAckSet ==
  ASSUME IInv, KeysInv, IInv', NEW d \in Devices, AckSet(d)
  PROVE  KeysInv'
<1> DEFINE ws == outstanding[d]
           n == answered[d]
<1>1. /\ ws \in Seq(Writes) /\ n \in Nat /\ n > 0 /\ n <= Len(ws)
      /\ PutsAgree(ws, n, txn[d])
  BY DEF AckSet, IInv, DeviceOK, PutsAgree, TypeOK
<1>2. ws # <<>> /\ ws[1] = Head(ws)
  BY <1>1, PutsTail, TailOK
<1>3. /\ outstanding' = [outstanding EXCEPT ![d] = Tail(ws)]
      /\ answered' = [answered EXCEPT ![d] = n - 1]
      /\ UNCHANGED <<rec, stored, txn, cache, toasted, faults>>
      /\ ws[1].type = "session"
  BY <1>2 DEF AckSet, server, app
<1>4. /\ outstanding'[d] = Tail(ws) /\ answered'[d] = n - 1
      /\ \A e \in Devices \ {d} : outstanding'[e] = outstanding[e] /\ answered'[e] = answered[e]
  BY <1>3 DEF IInv, TypeOK
<1>5. ServedOK(ws, n, DOMAIN stored)
  BY DEF KeysInv
<1>6. ServedOK(Tail(ws), n - 1, DOMAIN stored)
  BY <1>1, <1>2, <1>5, PutKeysTail
<1>7. ws[1].key \in DOMAIN stored
  <2>1. 1 \in 1..n
    BY <1>1
  <2> QED BY <1>3, <1>5, <2>1 DEF ServedOK
<1>8. /\ PutKeys(Tail(ws)) \subseteq PutKeys(ws)
      /\ PutKeys(ws) \subseteq PutKeys(Tail(ws)) \cup DOMAIN stored
  BY <1>1, <1>2, <1>7, PutKeysTail
<1>. HIDE DEF ws, n
<1>9. outstanding[d] = ws
  BY DEF ws
<1>10. Numbers(d)' = Numbers(d)
  BY <1>3 DEF Numbers
<1>. HIDE DEF Numbers
<1> QED BY <1>3, <1>4, <1>6, <1>8, <1>9, <1>10, KeysStep DEF KeysInv

\* The numbers a new value of the counter promises were computed.
LEMMA KeysServerPut ==
  ASSUME IInv, KeysInv, IInv', NEW d \in Devices, NEW p \in Paths, ServerCompareAndPut(d, p)
  PROVE  KeysInv'
<1> DEFINE t == txn[d][p]
           ws == outstanding[d]
           n == answered[d]
           N == NumSessions
<1>9. N \in Paths
  BY DEF Paths
<1>2. /\ ws \in Seq(Writes) /\ n \in Nat /\ n + 1 \in 1..Len(ws) /\ ws[n + 1] = Put(p)
  <2>1. ws \in Seq(Writes) /\ n \in Nat /\ n < Len(ws)
    BY DEF ServerCompareAndPut, HasWrite, IInv, TypeOK
  <2>2. Len(ws) \in Nat
    BY <2>1, WritesOK
  <2> QED BY <2>1, <2>2 DEF ServerCompareAndPut, NextWrite
<1>3. /\ answered' = [answered EXCEPT ![d] = n + 1]
      /\ UNCHANGED <<stored, outstanding, toasted, faults>>
  BY DEF ServerCompareAndPut, app
<1>4. answered'[d] = n + 1 /\ \A e \in Devices \ {d} : answered'[e] = answered[e]
  BY <1>3 DEF IInv, TypeOK
<1>5. ServedOK(ws, n + 1, DOMAIN stored)
  <2>1. \A i \in 1..(n + 1) : i \in 1..n \/ i = n + 1
    BY <1>2
  <2>2. ServedOK(ws, n, DOMAIN stored)
    BY DEF KeysInv
  <2>3. ws[n + 1].type # "session"
    BY <1>2, PutOK
  <2> QED BY <2>1, <2>2, <2>3 DEF ServedOK
<1>6. /\ \A e \in Devices \ {d} : txn'[e] = txn[e] /\ cache'[e] = cache[e]
      /\ cache' = cache
  <2>1. \A e \in Devices \ {d} : \A o \in Paths : txn'[e][o] = txn[e][o]
    BY ServerFrame
  <2>2. txn \in [Devices -> [Paths -> Transactions]] /\ txn' \in [Devices -> [Paths -> Transactions]]
    BY DEF IInv, TypeOK
  <2> QED BY <2>1, <2>2, ServerFrame
<1>7. {rec'[N]} \cup Numbers(d)' \subseteq {rec[N], Null} \cup Numbers(d)
  <2>1. CASE p = N
    <3>1. /\ txn'[d][N].val = t.val /\ txn'[d][N].out = t.out /\ txn'[d][N].now = rec'[N]
          /\ rec'[N] \in {rec[N], t.val} /\ cache'[d][N] = cache[d][N]
      BY <1>6, <2>1, ServerStep
    <3> QED BY <2>1, <3>1 DEF Numbers, Results
  <2>2. CASE p # N
    <3>1. rec'[N] = rec[N] /\ txn'[d][N] = txn[d][N] /\ cache'[d][N] = cache[d][N]
      BY <1>6, <1>9, <2>2, ServerFrame
    <3> QED BY <3>1 DEF Numbers
  <2> QED BY <2>1, <2>2
<1>. HIDE DEF t, Numbers
<1> QED BY <1>3, <1>4, <1>5, <1>6, <1>7, KeysStep DEF KeysInv, N

\* A put is answered: it stored no session, and only the first of its queue's
\* numbers are no longer waited for.
LEMMA KeysOk ==
  ASSUME IInv, KeysInv, IInv', NEW d \in Devices, NEW p \in Paths, TransactionOk(d, p)
  PROVE  KeysInv'
<1> DEFINE t == txn[d][p]
           ws == outstanding[d]
           n == answered[d]
           rest == Waiting(t)
           u == IF rest = <<>> THEN Idle
                ELSE [Sent(p, rest, t.now) EXCEPT !.val = t.out, !.out = t.out]
           put == PutsOf(p, rest)
<1>1. /\ t \in Transactions /\ TransactionsOK(t) /\ t.reply = "ok"
      /\ t.base # Null /\ t.now = t.val
  BY QueueOK DEF TransactionOk, TransactionsOK
<1>2. /\ ws \in Seq(Writes) /\ n \in Nat /\ n > 0 /\ n <= Len(ws)
      /\ PutsAgree(ws, n, txn[d])
  BY DEF TransactionOk, IInv, DeviceOK, PutsAgree, TypeOK
<1>3. /\ ws # <<>> /\ ws[1] = Put(p) /\ ws[1].type # "session"
      /\ Tail(ws) \in Seq(Writes) /\ n - 1 \in Nat /\ n - 1 <= Len(Tail(ws))
      /\ put \in Seq(Writes) /\ PutKeys(put) = {}
  <2>1. ws # <<>> /\ Tail(ws) \in Seq(Writes) /\ PutsAgree(Tail(ws), n - 1, txn[d])
    BY <1>2, PutsTail
  <2>2. ws[1] = Put(p)
    BY <1>2, <2>1, TailOK DEF TransactionOk
  <2> QED BY <1>2, <2>1, <2>2, PutOK, PutsOfOK, PutKeysNone DEF PutsAgree
<1>4. /\ outstanding' = [outstanding EXCEPT ![d] = Tail(ws) \o put]
      /\ answered' = [answered EXCEPT ![d] = n - 1]
      /\ txn' = [txn EXCEPT ![d][p] = u]
      /\ cache' = [cache EXCEPT ![d][p] = Keep(Listening(d), rest, t.now)]
      /\ UNCHANGED <<rec, stored, toasted, faults>>
  BY DEF TransactionOk, server, app
<1>5. Results(u) \subseteq {Null, t.out}
  <2>1. CASE rest = <<>>
    BY <2>1 DEF Results, Idle
  <2>2. CASE rest # <<>>
    <3>1. /\ rest \in Seq(Entry) /\ Distinct(rest) /\ t.now \in Value
          /\ t.out \in Value /\ t.out # Null
      <4>1. rest \in Seq(Entry) /\ Distinct(rest)
        BY <1>1, WaitingOK
      <4> QED BY <1>1, <4>1, FieldsOK DEF TransactionsOK
    <3>2. u = Carried(p, rest, t.now, t.out)
      BY <2>2 DEF Carried
    <3>. HIDE DEF u, rest, t
    <3>3. u.val = t.out /\ u.out = t.out /\ u.now = Null
      BY <2>2, <3>1, <3>2, CarriedOK
    <3> QED BY <3>3 DEF Results
  <2> QED BY <2>1, <2>2
<1>. HIDE DEF u, put, rest
<1>6. /\ outstanding'[d] = Tail(ws) \o put /\ answered'[d] = n - 1
      /\ \A e \in Devices \ {d} :
           outstanding'[e] = outstanding[e] /\ answered'[e] = answered[e]
           /\ txn'[e] = txn[e] /\ cache'[e] = cache[e]
      /\ txn'[d][p] = u /\ cache'[d][p] \in {t.now, Null}
      /\ \A o \in Paths \ {p} : txn'[d][o] = txn[d][o] /\ cache'[d][o] = cache[d][o]
  BY <1>4 DEF IInv, TypeOK, Keep
<1>7. ServedOK(Tail(ws) \o put, n - 1, DOMAIN stored)
  <2>1. ServedOK(ws, n, DOMAIN stored)
    BY DEF KeysInv
  <2>2. ServedOK(Tail(ws), n - 1, DOMAIN stored)
    BY <1>2, <1>3, <2>1, PutKeysTail
  <2> QED BY <1>3, <2>2, ServedConcat
<1>8. PutKeys(Tail(ws) \o put) = PutKeys(ws)
  <2>1. PutKeys(Tail(ws)) = PutKeys(ws)
    BY <1>2, <1>3, PutKeysAnswered
  <2> QED BY <1>3, <2>1, PutKeysMore
<1>9. NumSessions \in Paths
  BY DEF Paths
<1>10. Numbers(d)' \subseteq {Null} \cup Numbers(d)
  BY <1>5, <1>6, <1>9 DEF Numbers, Results
<1> DEFINE vs == Tail(ws) \o put
<1>11. outstanding'[d] = vs /\ PutKeys(vs) = PutKeys(outstanding[d])
       /\ ServedOK(vs, n - 1, DOMAIN stored)
  BY <1>6, <1>7, <1>8
<1>. HIDE DEF vs, ws, n, t, Numbers
<1> QED BY <1>4, <1>6, <1>10, <1>11, KeysStep

\* A queue runs again: it writes sessions under the numbers it computes now.
LEMMA KeysStale ==
  ASSUME IInv, SumsInv, HeardInv, KeysInv, IInv', NEW d \in Devices, NEW p \in Paths,
         TransactionStale(d, p)
  PROVE  KeysInv'
<1> DEFINE t == txn[d][p]
           ws == outstanding[d]
           n == answered[d]
           k == Cardinality({i \in DOMAIN t.queue : t.queue[i].tries >= MaxRetries})
           again == SubSeq(t.queue, k + 1, Len(t.queue))
           u == RunAll(p, again, t.now)
           put == PutsOf(p, again)
           sets == SessionPuts(d, p, Len(again), t.now)
<1>1. /\ t \in Transactions /\ TransactionsOK(t) /\ t.reply = "datastale"
      /\ t.now \in Value /\ Ids(t.queue) \cap counted[p] = {}
      /\ Ids(t.queue) # {} => field[d] \in Sessions
  BY QueueOK, FieldsOK DEF TransactionStale
<1>2. /\ again \in Seq(Entry) /\ Distinct(again) /\ Ids(again) \subseteq Ids(t.queue)
      /\ Ids(again) \cap counted[p] = {}
  BY <1>1, AgainOK
<1>3. Heard(d, p)
  BY DEF HeardInv
<1>4. /\ Known(p, t.now, counted[p]) /\ Ids(again) \in SUBSET toasted
      /\ p = NumSessions /\ faults.kills = 0 => Filled(t.now)
  <2>1. Known(p, t.now, counted[p])
    BY DEF SumsInv, Sums
  <2>2. p = NumSessions => t.now \in Numbers(d)
    BY DEF Numbers, Results
  <2>3. Ids(again) \in SUBSET toasted
    BY <1>2, <1>3 DEF Heard
  <2>. HIDE DEF t, Numbers, again
  <2> QED BY <2>1, <2>2, <2>3 DEF KeysInv
<1>5. /\ ws \in Seq(Writes) /\ n \in Nat /\ n > 0 /\ n <= Len(ws)
      /\ PutsAgree(ws, n, txn[d])
  BY DEF TransactionStale, IInv, DeviceOK, PutsAgree, TypeOK
<1>6. /\ outstanding' = [outstanding EXCEPT ![d] = (Tail(ws) \o put) \o sets]
      /\ answered' = [answered EXCEPT ![d] = n - 1]
      /\ txn' = [txn EXCEPT ![d][p] = u]
      /\ cache' = [cache EXCEPT ![d][p] = Keep(Listening(d), again, t.now)]
      /\ UNCHANGED <<rec, stored, toasted, faults>>
  BY DEF TransactionStale, server, app
<1>. HIDE DEF k, again
<1>7. /\ ws # <<>> /\ ws[1] = Put(p) /\ ws[1].type # "session"
      /\ Tail(ws) \in Seq(Writes) /\ n - 1 \in Nat /\ n - 1 <= Len(Tail(ws))
      /\ put \in Seq(Writes) /\ PutKeys(put) = {}
  <2>1. ws # <<>> /\ Tail(ws) \in Seq(Writes) /\ PutsAgree(Tail(ws), n - 1, txn[d])
    BY <1>5, PutsTail
  <2>2. ws[1] = Put(p)
    BY <1>5, <2>1, TailOK DEF TransactionStale
  <2> QED BY <1>5, <2>1, <2>2, PutOK, PutsOfOK, PutKeysNone DEF PutsAgree
<1>8. sets \in Seq(Writes)
  <2>1. Len(again) \in Nat
    BY <1>2, LenProperties
  <2>2. Len(again) > 0 => field[d] \in Sessions
    <3>1. Len(<<>>) = 0
      OBVIOUS
    <3>2. CASE again = <<>>
      BY <3>1, <3>2
    <3>3. CASE again # <<>>
      BY <1>1, <1>2, <3>3, IdsNonempty
    <3> QED BY <3>2, <3>3
  <2> QED BY <1>1, <2>1, <2>2, SessionPutsOK
<1>9. /\ p = NumSessions => Results(u) \subseteq {Null} \cup PutKeys(sets)
      /\ \A i \in PutKeys(sets) : NumberOK(i, PutKeys(sets))
  BY <1>1, <1>2, <1>4, RunKeys
<1>. HIDE DEF u, put, sets
<1> DEFINE vs == (Tail(ws) \o put) \o sets
<1>10. /\ outstanding'[d] = vs /\ answered'[d] = n - 1
       /\ \A e \in Devices \ {d} :
            outstanding'[e] = outstanding[e] /\ answered'[e] = answered[e]
            /\ txn'[e] = txn[e] /\ cache'[e] = cache[e]
       /\ txn'[d][p] = u /\ cache'[d][p] \in {t.now, Null}
       /\ \A o \in Paths \ {p} : txn'[d][o] = txn[d][o] /\ cache'[d][o] = cache[d][o]
  BY <1>6 DEF IInv, TypeOK, Keep
<1>11. ServedOK(vs, n - 1, DOMAIN stored)
  <2>1. ServedOK(ws, n, DOMAIN stored)
    BY DEF KeysInv
  <2>2. ServedOK(Tail(ws), n - 1, DOMAIN stored)
    BY <1>5, <1>7, <2>1, PutKeysTail
  <2> DEFINE v == Tail(ws) \o put
  <2>3. ServedOK(v, n - 1, DOMAIN stored) /\ v \in Seq(Writes) /\ n - 1 <= Len(v)
    <3>1. Len(v) = Len(Tail(ws)) + Len(put) /\ v \in Seq(Writes)
      BY <1>7, ConcatOK
    <3>2. Len(Tail(ws)) \in Nat /\ Len(put) \in Nat
      BY <1>7, WritesOK
    <3>3. n - 1 <= Len(v)
      BY <1>7, <3>1, <3>2
    <3> QED BY <1>7, <2>2, <3>1, <3>3, ServedConcat
  <2>. HIDE DEF v
  <2>4. ServedOK(v \o sets, n - 1, DOMAIN stored)
    BY <1>7, <1>8, <2>3, ServedConcat
  <2> QED BY <2>4 DEF v, vs
<1>12. PutKeys(vs) = PutKeys(ws) \cup PutKeys(sets)
  <2>1. PutKeys(Tail(ws)) = PutKeys(ws)
    BY <1>5, <1>7, PutKeysAnswered
  <2>2. Tail(ws) \o put \in Seq(Writes) /\ PutKeys(Tail(ws) \o put) = PutKeys(ws)
    BY <1>7, <2>1, PutKeysMore
  <2> QED BY <1>8, <2>2, PutKeysConcat
<1>13. Numbers(d)' \subseteq {Null} \cup Numbers(d) \cup PutKeys(vs)
  <2>1. NumSessions \in Paths
    BY DEF Paths
  <2>2. CASE p = NumSessions
    <3>1. Results(txn'[d][NumSessions]) \subseteq {Null} \cup PutKeys(vs)
      BY <1>9, <1>10, <1>12, <2>2
    <3>2. cache'[d][NumSessions] \in {Null} \cup Numbers(d)
      BY <1>10, <2>2 DEF Numbers, Results
    <3>. HIDE DEF vs, Results
    <3> QED BY <3>1, <3>2 DEF Numbers
  <2>3. CASE p # NumSessions
    BY <1>10, <2>1, <2>3 DEF Numbers
  <2> QED BY <2>2, <2>3
<1>14. outstanding[d] = ws
  OBVIOUS
<1>. HIDE DEF vs, ws, n, t, Numbers
<1>15. \A i \in PutKeys(vs) : i \in PutKeys(ws) \/ NumberOK(i, PutKeys(vs))
  BY <1>9, <1>12 DEF NumberOK
<1> QED BY <1>6, <1>10, <1>11, <1>12, <1>13, <1>14, <1>15, KeysStep

\* A lost connection takes no session back, and what runs again writes its own.
LEMMA KeysDisconnect ==
  ASSUME IInv, SumsInv, HeardInv, KeysInv, IInv', NEW d \in Devices, Disconnect(d)
  PROVE  KeysInv'
<1> DEFINE N == NumSessions
           rest(p) == Waiting(txn[d][p])
           r == rest(N)
           v == cache[d][N]
           sets == SessionPuts(d, N, Len(r), v)
           u(p) == RunAll(p, rest(p), cache[d][p])
           ws == outstanding[d]
           w0 == WithoutPuts(ws)
           put1 == PutsOf(N, r)
           put2 == PutsOf(TotalHours, rest(TotalHours))
           vs == ((w0 \o put1) \o put2) \o sets
<1>1. /\ txn' = [txn EXCEPT ![d] = [p \in Paths |-> u(p)]]
      /\ outstanding' = [outstanding EXCEPT ![d] = vs]
      /\ answered' = [answered EXCEPT ![d] = 0]
      /\ faults' = [faults EXCEPT !.disconnects = @ + 1]
      /\ cache' = [cache EXCEPT ![d] = [p \in Paths |-> Keep(Listening(d), rest(p), cache[d][p])]]
      /\ UNCHANGED <<rec, stored, toasted>>
  <2> DEFINE f == [p \in Paths |-> Waiting(txn[d][p])]
  <2>1. f[N] = rest(N) /\ f[TotalHours] = rest(TotalHours) /\ \A p \in Paths : f[p] = rest(p)
    BY DEF Paths
  <2>2. /\ txn' = [txn EXCEPT ![d] = [p \in Paths |-> RunAll(p, f[p], cache[d][p])]]
        /\ outstanding' = [outstanding EXCEPT ![d] =
             ((w0 \o PutsOf(N, f[N])) \o PutsOf(TotalHours, f[TotalHours]))
               \o SessionPuts(d, N, Len(f[N]), v)]
    BY DEF Disconnect
  <2>3. /\ answered' = [answered EXCEPT ![d] = 0]
        /\ faults' = [faults EXCEPT !.disconnects = @ + 1]
        /\ cache' = [cache EXCEPT ![d] =
             [p \in Paths |-> Keep(Listening(d), f[p], cache[d][p])]]
        /\ UNCHANGED <<rec, stored, toasted>>
    BY DEF Disconnect, server, app
  <2>. HIDE DEF f, rest
  <2> QED BY <2>1, <2>2, <2>3
<1>2. N \in Paths /\ TotalHours \in Paths
  BY DEF Paths
<1>3. /\ Heard(d, N) /\ counted[N] \in SUBSET Sessions /\ v \in Value
      /\ ws \in Seq(Writes) /\ PutsAgree(ws, answered[d], txn[d])
  BY <1>2 DEF HeardInv, IInv, DeviceOK, TypeOK
<1>4. /\ r \in Seq(Entry) /\ Distinct(r)
      /\ Ids(r) \in SUBSET toasted /\ Ids(r) \cap counted[N] = {}
      /\ Ids(r) # {} => field[d] \in Sessions
  BY <1>2, <1>3, QueueOK, WaitingOK DEF Heard
<1>5. /\ Known(N, v, counted[N])
      /\ faults.kills = 0 => Filled(v)
  <2>1. Known(N, v, counted[N])
    BY <1>2 DEF SumsInv
  <2>2. v \in Numbers(d)
    BY DEF Numbers
  <2>. HIDE DEF v, N, Numbers
  <2> QED BY <2>1, <2>2 DEF KeysInv
<1>. HIDE DEF N
<1>6. /\ PutKeys(w0) = PutKeys(ws) /\ w0 \in Seq(Writes)
      /\ put1 \in Seq(Writes) /\ PutKeys(put1) = {}
      /\ put2 \in Seq(Writes) /\ PutKeys(put2) = {}
  BY <1>2, <1>3, PutKeysWithout, PutsOfOK, PutKeysNone DEF PutsAgree
<1>. HIDE DEF r, v
<1>7. sets \in Seq(Writes)
  <2>1. Len(r) \in Nat
    BY <1>4, LenProperties
  <2>2. Len(r) > 0 => field[d] \in Sessions
    <3>1. Len(<<>>) = 0
      OBVIOUS
    <3>2. CASE r = <<>>
      BY <3>1, <3>2
    <3>3. CASE r # <<>>
      BY <1>4, <3>3, IdsNonempty
    <3> QED BY <3>2, <3>3
  <2> QED BY <1>3, <2>1, <2>2, SessionPutsOK
<1>8. /\ Results(RunAll(N, r, v)) \subseteq {Null} \cup PutKeys(sets)
      /\ \A i \in PutKeys(sets) : NumberOK(i, PutKeys(sets))
  BY <1>2, <1>3, <1>4, <1>5, RunKeys DEF N
<1>9. RunAll(N, r, v) = u(N)
  BY DEF r, v
<1>. HIDE DEF u, w0, put1, put2, sets
<1>10. PutKeys(vs) = PutKeys(ws) \cup PutKeys(sets)
  <2>1. w0 \o put1 \in Seq(Writes) /\ PutKeys(w0 \o put1) = PutKeys(ws)
    BY <1>6, PutKeysMore
  <2> DEFINE w1 == w0 \o put1
  <2>. HIDE DEF w1
  <2>2. w1 \o put2 \in Seq(Writes) /\ PutKeys(w1 \o put2) = PutKeys(ws)
    BY <1>6, <2>1, PutKeysMore DEF w1
  <2> QED BY <1>7, <2>2, PutKeysConcat DEF w1
<1>. HIDE DEF vs
<1>11. /\ outstanding'[d] = vs /\ answered'[d] = 0 /\ txn'[d][N] = u(N)
       /\ \A e \in Devices \ {d} :
            outstanding'[e] = outstanding[e] /\ answered'[e] = answered[e]
            /\ txn'[e] = txn[e] /\ cache'[e] = cache[e]
       /\ cache'[d][N] \in {Null, cache[d][N]}
  BY <1>1, <1>2 DEF IInv, TypeOK, Keep
<1>12. ServedOK(vs, 0, DOMAIN stored)
  BY DEF ServedOK
<1>13. faults'.kills = faults.kills
  BY <1>1, FaultsOK DEF IInv, TypeOK
<1>14. Numbers(d)' \subseteq {Null} \cup Numbers(d) \cup PutKeys(vs)
  <2>1. Results(txn'[d][NumSessions]) \subseteq {Null} \cup PutKeys(vs)
    BY <1>8, <1>9, <1>10, <1>11 DEF N
  <2>2. cache'[d][NumSessions] \in {Null} \cup Numbers(d)
    BY <1>11 DEF Numbers, N
  <2>. HIDE DEF Results
  <2> QED BY <2>1, <2>2 DEF Numbers
<1>15. outstanding[d] = ws
  OBVIOUS
<1>. HIDE DEF ws, Numbers
<1>16. \A i \in PutKeys(vs) : i \in PutKeys(ws) \/ NumberOK(i, PutKeys(vs))
  BY <1>8, <1>10 DEF NumberOK
<1> QED BY <1>1, <1>10, <1>11, <1>12, <1>13, <1>14, <1>15, <1>16, KeysStep

\* The death of a process: what it had not written is lost, and the rest stays in
\* order.
LEMMA KeysKill ==
  ASSUME IInv, KeysInv, IInv', NEW d \in Devices, Kill(d)
  PROVE  KeysInv'
<1>1. /\ outstanding' = [outstanding EXCEPT ![d] = <<>>]
      /\ answered' = [answered EXCEPT ![d] = 0]
      /\ txn' = [txn EXCEPT ![d] = [p \in Paths |-> Idle]]
      /\ cache' = [cache EXCEPT ![d] = [p \in Paths |-> Null]]
      /\ faults' = [faults EXCEPT !.kills = @ + 1]
      /\ UNCHANGED <<rec, stored, toasted>>
  BY DEF Kill, server
<1>2. /\ outstanding'[d] = <<>> /\ answered'[d] = 0
      /\ \A e \in Devices \ {d} :
           outstanding'[e] = outstanding[e] /\ answered'[e] = answered[e]
           /\ txn'[e] = txn[e] /\ cache'[e] = cache[e]
  BY <1>1 DEF IInv, TypeOK
<1>3. faults'.kills # 0
  <2>1. faults.kills \in Nat /\ faults'.kills = faults.kills + 1
    BY <1>1 DEF IInv, TypeOK
  <2> QED BY <2>1
<1>4. PutKeys(outstanding'[d]) = {}
  BY <1>2, PutKeysNone
<1>5. ServedOK(outstanding'[d], answered'[d], DOMAIN stored)
  BY <1>2 DEF ServedOK
<1>. HIDE DEF Numbers
<1> QED BY <1>1, <1>2, <1>3, <1>4, <1>5, KeysStep

\* One more transaction behind others stores under the next number.
LEMMA EnqueueKeys ==
  ASSUME IInv, SumsInv, HeardInv, KeysInv, NEW d \in Devices, NEW s \in reading[d],
         txn[d][NumSessions].queue # <<>>
  PROVE  LET t == txn[d][NumSessions]
             ks == PutKeys(SessionPuts(d, NumSessions, 1, t.out))
         IN  /\ Results(Enqueue(NumSessions, t, s)) \subseteq {Null} \cup Results(t) \cup ks
             /\ \A k \in ks : NumberOK(k, ks)
<1> DEFINE N == NumSessions
           t == txn[d][N]
           u == Enqueue(N, t, s)
           ks == PutKeys(SessionPuts(d, N, 1, t.out))
           C == counted[N] \cup Ids(t.queue)
<1>1. N \in Paths
  BY DEF Paths
<1>2. t \in Transactions /\ t.out \in Value
  <2>1. t \in Transactions
    BY <1>1, QueueOK
  <2> QED BY <2>1, FieldsOK
<1>3. s \notin C /\ s \in Sessions /\ s \in toasted
  BY <1>1 DEF IInv, DeviceOK, OnceOK, Asked, HeardInv, TypeOK
<1>4. u.val = t.val /\ u.now = t.now /\ u.out = Output(N, {s}, t.out)
  BY <1>2 DEF Enqueue, Transactions
<1>5. ks = IF t.out # Null THEN (t.out + 1)..(t.out + 1) ELSE {}
  BY <1>2, PutKeysSets
<1>6. C \in SUBSET toasted
  BY <1>1 DEF HeardInv, Heard
<1>7. Known(N, t.out, C)
  BY <1>1 DEF SumsInv, Sums
<1>8. faults.kills = 0 => Filled(t.out)
  <2>1. t.out \in Numbers(d)
    BY DEF Numbers, Results
  <2>. HIDE DEF t, Numbers
  <2> QED BY <2>1 DEF KeysInv
<1>9. \A k \in ks : NumberOK(k, ks)
  <2>1. {s} \in SUBSET toasted /\ {s} \cap C = {} /\ 1 = Cardinality({s}) /\ 1 \in Nat
    BY <1>3, FS_Singleton
  <2>. HIDE DEF t, C, N
  <2> QED BY <1>1, <1>2, <1>6, <1>7, <1>8, <2>1, PutsNumbered DEF N
<1>10. Output(N, {s}, t.out) \in {Null} \cup ks
  <2>1. CASE t.out = Null
    BY <2>1 DEF Output
  <2>2. CASE t.out # Null
    <3>1. t.out \in Nat /\ Output(N, {s}, t.out) = t.out + 1
      BY <1>2, <2>2, FS_Singleton DEF Output, Amount, Value
    <3> QED BY <1>5, <2>2, <3>1
  <2> QED BY <2>1, <2>2
<1>. HIDE DEF ks, u
<1>11. Results(u) \subseteq {Null} \cup Results(t) \cup ks
  BY <1>4, <1>10 DEF Results
<1> QED BY <1>9, <1>11 DEF ks, u

\* A submission's two transactions start: the first stores the session under the
\* number it computed.
LEMMA KeysStart ==
  ASSUME IInv, SumsInv, HeardInv, KeysInv, IInv', NEW d \in Devices, NEW s \in Sessions,
         StartTransactions(d, s)
  PROVE  KeysInv'
<1> DEFINE N == NumSessions
           listening == viewing[d] \/ reading[d] # {s}
           in(p) == Latest(d, p, listening)
           v == in(N)
           num == IF txn[d][N].queue = <<>> THEN <<Put(N)>> ELSE <<>>
           hours == IF txn[d][TotalHours].queue = <<>> THEN <<Put(TotalHours)>> ELSE <<>>
           session == SessionPuts(d, N, 1, v)
           u(p) == IF txn[d][p].queue = <<>> THEN Sent(p, <<NewEntry(s)>>, in(p))
                   ELSE Enqueue(p, txn[d][p], s)
           ws == outstanding[d]
           t == txn[d][N]
<1>1. N \in Paths /\ TotalHours \in Paths
  BY DEF Paths
<1>2. /\ s \in reading[d]
      /\ txn' = [txn EXCEPT ![d] = [p \in Paths |-> u(p)]]
      /\ \/ outstanding' = [outstanding EXCEPT ![d] = ((ws \o num) \o session) \o hours]
         \/ outstanding' = [outstanding EXCEPT ![d] = ((ws \o num) \o hours) \o session]
      /\ cache' = [cache EXCEPT ![d] = [p \in Paths |->
           IF listening \/ txn[d][p].queue # <<>> THEN cache[d][p] ELSE Null]]
      /\ UNCHANGED <<rec, stored, answered, toasted, faults>>
  BY DEF StartTransactions, server
<1>3. /\ ws \in Seq(Writes) /\ answered[d] \in Nat /\ answered[d] <= Len(ws)
      /\ field[d] \in Sessions /\ Heard(d, N)
      /\ cache[d][N] \in Value /\ s \in toasted /\ s \notin counted[N]
  <2>1. /\ ws \in Seq(Writes) /\ answered[d] \in Nat /\ PutsAgree(ws, answered[d], txn[d])
        /\ OnceOK(d) /\ field[d] \in Sessions \cup {Null} /\ s \in Asked(d)
        /\ cache[d][N] \in Value
    <3>1. /\ ws \in Seq(Writes) /\ answered[d] \in Nat /\ field[d] \in Sessions \cup {Null}
          /\ cache[d][N] \in Value
      BY <1>1 DEF IInv, TypeOK
    <3>2. PutsAgree(ws, answered[d], txn[d]) /\ OnceOK(d)
      BY DEF IInv, DeviceOK
    <3>3. s \in Asked(d)
      BY <1>2 DEF Asked
    <3> QED BY <3>1, <3>2, <3>3
  <2>2. field[d] # Null /\ s \notin counted[N]
    BY <1>1, <2>1 DEF OnceOK
  <2> QED BY <1>1, <1>2, <2>1, <2>2 DEF HeardInv, PutsAgree
<1>4. v \in Value
  <2>1. t.out \in Value
    BY <1>1, QueueOK, FieldsOK
  <2> QED BY <1>3, <2>1 DEF Latest, Value
<1>5. /\ num \in Seq(Writes) /\ PutKeys(num) = {}
      /\ hours \in Seq(Writes) /\ PutKeys(hours) = {}
      /\ session \in Seq(Writes)
  <2>1. <<>> \in Seq(Writes)
    BY EmptySeq
  <2>2. num \in Seq(Writes) /\ PutKeys(num) = {} /\ hours \in Seq(Writes) /\ PutKeys(hours) = {}
    BY <1>1, <2>1, PutOK, PutKeysNone
  <2>. HIDE DEF in, num, hours
  <2> QED BY <1>3, <1>4, <2>2, SessionPutsOK
<1>6. /\ Results(u(N)) \subseteq {Null} \cup Results(t) \cup PutKeys(session)
      /\ \A k \in PutKeys(session) : NumberOK(k, PutKeys(session))
  <2>1. CASE t.queue # <<>>
    <3>1. v = t.out /\ u(N) = Enqueue(N, t, s)
      BY <2>1 DEF Latest
    <3>. HIDE DEF u, in
    <3> QED BY <1>2, <2>1, <3>1, EnqueueKeys
  <2>2. CASE t.queue = <<>>
    <3> DEFINE q == <<NewEntry(s)>>
    <3>1. NewEntry(s) \in Entry /\ NewEntry(s).id = s
      BY DEF NewEntry, Entry
    <3>2. q \in Seq(Entry) /\ Len(q) = 1 /\ DOMAIN q = {1} /\ q[1] = NewEntry(s) /\ q # <<>>
      BY <3>1
    <3>3. u(N) = RunAll(N, q, v)
      BY <2>2, <3>2 DEF RunAll
    <3>4. Known(N, v, counted[N]) /\ (faults.kills = 0 => Filled(v))
      <4>1. v \in {Null, cache[d][N]}
        BY <2>2 DEF Latest
      <4>2. cache[d][N] \in Numbers(d) /\ Known(N, cache[d][N], counted[N])
        BY <1>1 DEF Numbers, SumsInv
      <4>. HIDE DEF Numbers, v, N
      <4>3. faults.kills = 0 => Filled(cache[d][N])
        BY <4>2 DEF KeysInv
      <4> QED BY <4>1, <4>2, <4>3 DEF Known, Filled
    <3>. HIDE DEF q, u, in
    <3>5. Distinct(q) /\ Ids(q) = {s}
      BY <3>1, <3>2 DEF Distinct, Ids
    <3>6. Ids(q) \in SUBSET toasted /\ Ids(q) \cap counted[N] = {}
      BY <1>3, <3>5
    <3>7. /\ Results(RunAll(N, q, v)) \subseteq {Null} \cup PutKeys(SessionPuts(d, N, Len(q), v))
          /\ \A k \in PutKeys(SessionPuts(d, N, Len(q), v)) :
               NumberOK(k, PutKeys(SessionPuts(d, N, Len(q), v)))
      BY <1>1, <1>4, <3>2, <3>4, <3>5, <3>6, RunKeys DEF N
    <3> QED BY <3>2, <3>3, <3>7
  <2> QED BY <2>1, <2>2
<1>. HIDE DEF N, in, v, num, hours, session, u
<1>7. PICK vs \in Seq(Writes) :
        /\ outstanding' = [outstanding EXCEPT ![d] = vs]
        /\ PutKeys(vs) = PutKeys(ws) \cup PutKeys(session)
        /\ ServedOK(vs, answered[d], DOMAIN stored)
  <2> DEFINE w == ws \o num
             w1 == (w \o session) \o hours
             w2 == (w \o hours) \o session
  <2>1. w \in Seq(Writes) /\ PutKeys(w) = PutKeys(ws)
    BY <1>3, <1>5, PutKeysMore
  <2>2. ServedOK(ws, answered[d], DOMAIN stored)
    BY DEF KeysInv
  <2>3. Len(ws) \in Nat /\ Len(w) \in Nat /\ Len(num) \in Nat /\ Len(w) = Len(ws) + Len(num)
        /\ Len(session) \in Nat /\ Len(hours) \in Nat
    BY <1>3, <1>5, <2>1, WritesOK, ConcatOK
  <2>4. ServedOK(w, answered[d], DOMAIN stored) /\ answered[d] <= Len(w)
    BY <1>3, <1>5, <2>2, <2>3, ServedConcat
  <2>. HIDE DEF w
  <2>5. /\ w1 \in Seq(Writes) /\ PutKeys(w1) = PutKeys(ws) \cup PutKeys(session)
        /\ ServedOK(w1, answered[d], DOMAIN stored)
    <3> DEFINE x == w \o session
    <3>1. /\ x \in Seq(Writes) /\ PutKeys(x) = PutKeys(ws) \cup PutKeys(session)
          /\ Len(x) = Len(w) + Len(session)
      BY <1>5, <2>1, PutKeysConcat, ConcatOK
    <3>2. ServedOK(x, answered[d], DOMAIN stored) /\ answered[d] <= Len(x)
      <4>1. answered[d] <= Len(x)
        BY <1>3, <2>3, <2>4, <3>1
      <4> QED BY <1>3, <1>5, <2>1, <2>4, <4>1, ServedConcat
    <3>. HIDE DEF x
    <3>3. x \o hours \in Seq(Writes) /\ PutKeys(x \o hours) = PutKeys(x)
          /\ ServedOK(x \o hours, answered[d], DOMAIN stored)
      BY <1>3, <1>5, <3>1, <3>2, PutKeysMore, ServedConcat
    <3> QED BY <3>1, <3>3 DEF x
  <2>6. /\ w2 \in Seq(Writes) /\ PutKeys(w2) = PutKeys(ws) \cup PutKeys(session)
        /\ ServedOK(w2, answered[d], DOMAIN stored)
    <3> DEFINE x == w \o hours
    <3>1. /\ x \in Seq(Writes) /\ PutKeys(x) = PutKeys(ws)
          /\ Len(x) = Len(w) + Len(hours)
      BY <1>5, <2>1, PutKeysMore, ConcatOK
    <3>2. ServedOK(x, answered[d], DOMAIN stored) /\ answered[d] <= Len(x)
      <4>1. answered[d] <= Len(x)
        BY <1>3, <2>3, <2>4, <3>1
      <4> QED BY <1>3, <1>5, <2>1, <2>4, <4>1, ServedConcat
    <3>. HIDE DEF x
    <3>3. x \o session \in Seq(Writes) /\ PutKeys(x \o session) = PutKeys(x) \cup PutKeys(session)
          /\ ServedOK(x \o session, answered[d], DOMAIN stored)
      BY <1>3, <1>5, <3>1, <3>2, PutKeysConcat, ConcatOK, ServedConcat
    <3> QED BY <3>1, <3>3 DEF x
  <2>7. \/ outstanding' = [outstanding EXCEPT ![d] = w1]
        \/ outstanding' = [outstanding EXCEPT ![d] = w2]
    BY <1>2 DEF w
  <2>. HIDE DEF w1, w2
  <2> QED BY <2>5, <2>6, <2>7
<1>8. /\ outstanding'[d] = vs /\ txn'[d][N] = u(N)
      /\ \A e \in Devices \ {d} :
           outstanding'[e] = outstanding[e] /\ txn'[e] = txn[e] /\ cache'[e] = cache[e]
      /\ cache'[d][N] \in {Null, cache[d][N]}
  BY <1>1, <1>2, <1>7 DEF IInv, TypeOK
<1>9. Numbers(d)' \subseteq {Null} \cup Numbers(d) \cup PutKeys(vs)
  <2>1. Results(txn'[d][NumSessions]) \subseteq {Null} \cup Results(txn[d][NumSessions]) \cup PutKeys(vs)
    BY <1>6, <1>7, <1>8 DEF N
  <2>2. cache'[d][NumSessions] \in {Null, cache[d][NumSessions]}
    BY <1>8 DEF N
  <2>. HIDE DEF Results
  <2> QED BY <2>1, <2>2 DEF Numbers
<1>10. outstanding[d] = ws
  OBVIOUS
<1>. HIDE DEF ws, t, Numbers
<1>11. \A i \in PutKeys(vs) : i \in PutKeys(ws) \/ NumberOK(i, PutKeys(vs))
  BY <1>6, <1>7 DEF NumberOK
<1> QED BY <1>2, <1>7, <1>8, <1>9, <1>10, <1>11, KeysStep

\* A message runs waiting transactions again: they write under the numbers behind
\* the server's.
LEMMA KeysAnswerRead ==
  ASSUME IInv, SumsInv, HeardInv, KeysInv, IInv', NEW d \in Devices, AnswerRead(d)
  PROVE  KeysInv'
<1> DEFINE N == NumSessions
           t == txn[d][N]
           r == Waiting(t)
           v == rec[N]
           ws == outstanding[d]
           n == answered[d]
           sets == SessionPuts(d, N, Len(r), v)
           u == RunAgain(N, t, v)
           vs == ws \o sets
           ks == PutKeys(sets)
<1>1. N \in Paths
  BY DEF Paths
<1>2. /\ txn' = [txn EXCEPT ![d] = [p \in Paths |-> RunAgain(p, @[p], rec[p])]]
      /\ cache' = [cache EXCEPT ![d] = rec]
      /\ outstanding' = [outstanding EXCEPT ![d] = vs]
      /\ faults' = [faults EXCEPT !.reruns = @ + 1]
      /\ UNCHANGED <<rec, stored, answered, toasted>>
  BY DEF AnswerRead, server, app
<1>3. /\ outstanding'[d] = vs /\ answered'[d] = n /\ txn'[d][N] = u /\ cache'[d][N] = v
      /\ \A e \in Devices \ {d} :
           /\ outstanding'[e] = outstanding[e] /\ answered'[e] = answered[e]
           /\ txn'[e] = txn[e] /\ cache'[e] = cache[e]
      /\ faults'.kills = faults.kills
  <2>1. /\ txn \in [Devices -> [Paths -> Transactions]] /\ cache \in [Devices -> [Paths -> Value]]
        /\ outstanding \in [Devices -> Seq(Writes)]
        /\ faults \in [disconnects : Nat, kills : Nat, reruns : Nat]
    BY DEF IInv, TypeOK
  <2> QED BY <1>1, <1>2, <2>1
<1>4. /\ t \in Transactions /\ TransactionsOK(t) /\ v \in Nat /\ v \in Value /\ v # Null
      /\ ws \in Seq(Writes) /\ n \in Nat /\ n <= Len(ws) /\ OnceOK(d)
      /\ counted[N] \in SUBSET toasted
      /\ Ids(t.queue) \in SUBSET toasted
  <2>1. t \in Transactions /\ TransactionsOK(t)
    BY <1>1, QueueOK
  <2>2. v \in Nat /\ ws \in Seq(Writes) /\ n \in Nat
    BY <1>1 DEF IInv, TypeOK
  <2>3. n <= Len(ws) /\ OnceOK(d)
    BY DEF IInv, DeviceOK, PutsAgree
  <2>4. counted[N] \in SUBSET toasted /\ Ids(t.queue) \in SUBSET toasted
    BY <1>1 DEF HeardInv, Heard
  <2> QED BY <2>1, <2>2, <2>3, <2>4, ConstantsOK DEF Value
<1>5. /\ r \in Seq(Entry) /\ Distinct(r) /\ Ids(r) \in SUBSET Ids(t.queue)
      /\ Ids(r) \cap Batch(t) = {}
  BY <1>1, <1>4, WaitingOK
<1>6. Ids(r) \cap counted[N] = {} /\ (Ids(r) # {} => field[d] \in Sessions)
  <2>1. \A x \in Ids(t.queue) : field[d] # Null /\ (x \in counted[N] => x \in Batch(t))
    BY <1>1, <1>4 DEF OnceOK
  <2>2. field[d] \in Sessions \cup {Null}
    BY DEF IInv, TypeOK
  <2> QED BY <1>5, <2>1, <2>2
<1>7. Cardinality(Ids(r)) = Len(r) /\ Len(r) \in Nat
  BY <1>5, IdsCount
<1>8. Known(N, v, counted[N]) /\ (faults.kills = 0 => Filled(v))
  BY <1>1, RecKnown DEF SumsInv, KeysInv
<1>. HIDE DEF t, r, v, N, ws, n
<1>9. sets \in Seq(Writes)
  <2>1. Len(r) > 0 => field[d] \in Sessions
    <3>1. Len(<<>>) = 0
      OBVIOUS
    <3>2. CASE r = <<>>
      BY <3>1, <3>2
    <3>3. CASE r # <<>>
      BY <1>5, <1>6, <3>3, IdsNonempty
    <3> QED BY <3>2, <3>3
  <2> QED BY <1>4, <1>7, <2>1, SessionPutsOK
<1>10. \A k \in ks : NumberOK(k, ks)
  <2>1. Ids(r) \in SUBSET toasted /\ Len(r) = Cardinality(Ids(r))
    BY <1>4, <1>5, <1>7
  <2> QED BY <1>1, <1>4, <1>6, <1>7, <1>8, <2>1, PutsNumbered
<1>11. ks = (v + 1)..(v + Len(r))
  BY <1>4, <1>7, PutKeysSets DEF N
<1>. HIDE DEF sets, ks
<1>12. u.val = t.val /\ u.now = t.now /\ u.out \in {t.out} \cup ks
  <2>1. CASE r = <<>>
    BY <2>1 DEF RunAgain, r
  <2>2. CASE r # <<>>
    <3>1. u.val = t.val /\ u.now = t.now
      BY <1>1, <1>4, RunAgainOK
    <3>2. u = [t EXCEPT !.out = Output(N, Ids(r), v)]
      BY <2>2 DEF RunAgain, r
    <3>3. u.out = v + Len(r)
      BY <1>4, <1>7, <3>2 DEF Output, Amount, N, Transactions
    <3>4. Len(r) > 0
      BY <1>5, <2>2, IdsNonempty
    <3> QED BY <1>4, <1>7, <1>11, <3>1, <3>3, <3>4
  <2> QED BY <2>1, <2>2
<1>. HIDE DEF u
<1>13. vs \in Seq(Writes) /\ PutKeys(vs) = PutKeys(ws) \cup ks
  BY <1>4, <1>9, PutKeysConcat, ConcatOK DEF ks
<1>14. ServedOK(vs, n, DOMAIN stored)
  <2>1. ServedOK(ws, n, DOMAIN stored)
    BY DEF KeysInv, ws, n
  <2> QED BY <1>4, <1>9, <2>1, ServedConcat
<1>. HIDE DEF vs
<1>15. Numbers(d)' \subseteq {rec[N], Null} \cup Numbers(d) \cup PutKeys(vs)
  <2>1. cache'[d][NumSessions] = rec[N] /\ txn'[d][NumSessions] = u /\ txn[d][NumSessions] = t
    BY <1>3 DEF N, v, t
  <2>2. u.val \in {t.val} \cup PutKeys(vs) /\ u.now = t.now /\ u.out \in {t.out} \cup PutKeys(vs)
    BY <1>12, <1>13
  <2> QED BY <2>1, <2>2 DEF Numbers, Results
<1>16. outstanding[d] = ws /\ rec'[N] = rec[N]
  BY <1>2 DEF ws
<1>17. \A k \in PutKeys(vs) : k \in PutKeys(ws) \/ NumberOK(k, PutKeys(vs))
  BY <1>10, <1>13 DEF NumberOK
<1>. HIDE DEF Numbers
<1> QED BY <1>2, <1>3, <1>13, <1>14, <1>15, <1>16, <1>17, KeysStep DEF N

LEMMA KeysInit == Init => KeysInv
<1> SUFFICES ASSUME Init PROVE KeysInv
  OBVIOUS
<1>1. /\ stored = <<>> /\ rec = [p \in Paths |-> 0]
      /\ outstanding = [d \in Devices |-> <<>>] /\ answered = [d \in Devices |-> 0]
      /\ txn = [d \in Devices |-> [p \in Paths |-> Idle]]
  BY DEF Init
<1>2. NumSessions \in Paths
  BY DEF Paths
<1>3. DOMAIN stored = {} /\ 1..rec[NumSessions] = {}
  BY <1>1, <1>2
<1>4. \A d \in Devices : PutKeys(outstanding[d]) = {}
  BY <1>1, PutKeysNone
<1>5. \A d \in Devices : ServedOK(outstanding[d], answered[d], DOMAIN stored)
  BY <1>1 DEF ServedOK
<1>6. Filled(rec[NumSessions]) /\ Filled(Null)
  BY <1>3 DEF Filled
<1>7. \A d \in Devices : Numbers(d) = {Null}
  <2>1. cache = [d \in Devices |-> [p \in Paths |-> Null]]
    BY DEF Init
  <2> QED BY <1>1, <1>2, <2>1 DEF Numbers, Results, Idle
<1>8. Written = {}
  BY <1>3, <1>4 DEF Written
<1>. HIDE DEF Written, Numbers, Filled
<1> QED BY <1>3, <1>4, <1>5, <1>6, <1>7, <1>8 DEF KeysInv

LEMMA KeysNext == Invariants /\ HeardInv /\ KeysInv /\ [Next]_vars => KeysInv'
<1> SUFFICES ASSUME Invariants, HeardInv, KeysInv, [Next]_vars
             PROVE  KeysInv'
  OBVIOUS
<1>1. IInv /\ SumsInv /\ IInv'
  BY StepOK DEF Invariants
<1>2. CASE UNCHANGED vars
  <2>1. /\ UNCHANGED <<outstanding, answered, txn, stored, rec>> /\ cache' = cache
        /\ toasted' = toasted /\ faults' = faults
    BY <1>2 DEF vars, server, client, app
  <2> QED BY <1>1, <2>1, KeysQuiet
<1>3. CASE Next
  BY <1>1, <1>3, KeysUser, KeysServerSet, KeysServerPut, KeysAckSet, KeysOk, KeysStale, KeysKill,
     KeysDisconnect, KeysStart, KeysAnswerRead DEF Next, Serve, Hear
<1> QED BY <1>2, <1>3

-----------------------------------------------------------------------------
(* Where a submission is: every step.                                      *)

\* What a step of device d must show for no submission to be forgotten.
LEMMA CoverStep ==
  ASSUME CoverInv, NEW d \in Devices,
         \A e \in Devices \ {d} : reading[e] \subseteq reading'[e] /\ txn'[e] = txn[e],
         faults'.disconnects = 0 /\ faults'.kills = 0 /\ faults'.reruns = 0 =>
           /\ faults.disconnects = 0 /\ faults.kills = 0 /\ faults.reruns = 0
           /\ toasted' \subseteq toasted \cup reading'[d]
           /\ \A p \in Paths :
                /\ counted[p] \subseteq counted'[p]
                /\ reading[d] \cup Ids(txn[d][p].queue)
                     \subseteq counted'[p] \cup reading'[d] \cup Ids(txn'[d][p].queue)
  PROVE  CoverInv'
<1> SUFFICES ASSUME faults'.disconnects = 0 /\ faults'.kills = 0 /\ faults'.reruns = 0,
                    NEW p \in Paths, NEW s \in toasted'
             PROVE  s \in counted'[p] \cup OnTheWay(p)'
  BY DEF CoverInv
<1>1. \A e \in Devices : reading'[e] \cup Ids(txn'[e][p].queue) \subseteq OnTheWay(p)'
  BY DEF OnTheWay
<1>2. CASE s \in reading'[d]
  BY <1>1, <1>2
<1>3. CASE s \notin reading'[d]
  <2>1. s \in counted[p] \cup OnTheWay(p)
    BY <1>3 DEF CoverInv
  <2>2. CASE s \in counted[p]
    BY <2>2
  <2>3. CASE s \in OnTheWay(p)
    <3>1. PICK e \in Devices : s \in reading[e] \cup Ids(txn[e][p].queue)
      BY <2>3 DEF OnTheWay
    <3>2. CASE e = d
      BY <1>1, <3>1, <3>2
    <3>3. CASE e # d
      <4>1. reading[e] \cup Ids(txn[e][p].queue) \subseteq reading'[e] \cup Ids(txn'[e][p].queue)
        BY <3>3
      <4> QED BY <1>1, <3>1, <4>1
    <3> QED BY <3>2, <3>3
  <2> QED BY <2>1, <2>2, <2>3
<1> QED BY <1>2, <1>3

LEMMA CoverUser ==
  ASSUME IInv, CoverInv, NEW d \in Devices,
         \/ Start(d) \/ Stop(d) \/ ReadHistory(d) \/ HistoryShown(d) \/ DataUpdate(d)
         \/ ServerSet(d) \/ AckSet(d) \/ Reconnect(d)
         \/ \E s \in Sessions : Submit(d, s) \/ Decline(d, s)
  PROVE  CoverInv'
<1> USE DEF server, client, app
<1>1. UNCHANGED <<txn, counted, faults>>
  BY DEF Start, Stop, ReadHistory, HistoryShown, DataUpdate, ServerSet, AckSet, Reconnect,
         Submit, Decline
<1>2. CASE UNCHANGED <<toasted, reading>>
  BY <1>1, <1>2, CoverStep
<1>3. CASE \E s \in Sessions : Submit(d, s)
  <2>1. PICK s \in Sessions : Submit(d, s)
    BY <1>3
  <2>2. /\ toasted' = toasted \cup {s}
        /\ reading' = [reading EXCEPT ![d] = @ \cup {s}]
    BY <2>1 DEF Submit
  <2>3. reading'[d] = reading[d] \cup {s} /\ \A e \in Devices \ {d} : reading'[e] = reading[e]
    BY <2>2 DEF IInv, TypeOK
  <2> QED BY <1>1, <2>2, <2>3, CoverStep
<1> QED BY <1>2, <1>3 DEF Start, Stop, ReadHistory, HistoryShown, DataUpdate, ServerSet, AckSet,
         Reconnect, Decline

\* A lost connection, the death of a process and an answer that runs transactions
\* again are what loses submissions.
LEMMA CoverFault ==
  ASSUME IInv, NEW d \in Devices, Disconnect(d) \/ Kill(d) \/ AnswerRead(d)
  PROVE  CoverInv'
<1>1. faults \in [disconnects : Nat, kills : Nat, reruns : Nat]
  BY DEF IInv, TypeOK
<1>2. \/ faults' = [faults EXCEPT !.disconnects = @ + 1]
      \/ faults' = [faults EXCEPT !.kills = @ + 1]
      \/ faults' = [faults EXCEPT !.reruns = @ + 1]
  BY DEF Disconnect, Kill, AnswerRead
<1>3. ~(faults'.disconnects = 0 /\ faults'.kills = 0 /\ faults'.reruns = 0)
  BY <1>1, <1>2
<1> QED BY <1>3 DEF CoverInv

\* The server counts.
LEMMA CoverServer ==
  ASSUME IInv, CoverInv, NEW d \in Devices, NEW p \in Paths, ServerCompareAndPut(d, p)
  PROVE  CoverInv'
<1> DEFINE t == txn[d][p]
           u(ok, v) == [t EXCEPT !.reply = IF ok THEN "ok" ELSE "datastale", !.now = v]
<1>1. UNCHANGED <<toasted, reading, faults>>
  BY DEF ServerCompareAndPut, app
<1>2. \A o \in Paths : counted[o] \subseteq counted'[o]
  BY DEF ServerCompareAndPut, Accepts, IInv, TypeOK
<1>3. \A v : \A ok \in BOOLEAN : u(ok, v).queue = t.queue
  <2>1. t \in Transactions
    BY ServerEnters
  <2> QED BY <2>1 DEF Transactions
<1>4. PICK ok \in BOOLEAN : txn' = [txn EXCEPT ![d][p] = u(ok, rec'[p])]
  BY DEF ServerCompareAndPut, Accepts
<1>. HIDE DEF u
<1>5. /\ \A e \in Devices \ {d} : txn'[e] = txn[e]
      /\ \A o \in Paths : txn'[d][o].queue = txn[d][o].queue
  BY <1>3, <1>4 DEF IInv, TypeOK
<1> QED BY <1>1, <1>2, <1>5, CoverStep

\* A queue changes: what leaves it is counted.
LEMMA CoverQueue ==
  ASSUME IInv, CoverInv, NEW d \in Devices, NEW p \in Paths, NEW u,
         UNCHANGED <<counted, toasted, reading, faults>>,
         txn' = [txn EXCEPT ![d][p] = u],
         Ids(txn[d][p].queue) \subseteq counted[p] \cup Ids(u.queue)
  PROVE  CoverInv'
<1>1. /\ \A e \in Devices \ {d} : txn'[e] = txn[e]
      /\ \A o \in Paths \ {p} : txn'[d][o] = txn[d][o]
      /\ txn'[d][p] = u
  BY DEF IInv, TypeOK
<1> QED BY <1>1, CoverStep

LEMMA CoverOk ==
  ASSUME IInv, SumsInv, CoverInv, NEW d \in Devices, NEW p \in Paths, TransactionOk(d, p)
  PROVE  CoverInv'
<1> USE DEF server, app
<1> DEFINE t == txn[d][p]
           rest == Waiting(t)
           u == IF rest = <<>> THEN Idle
                ELSE [Sent(p, rest, t.now) EXCEPT !.val = t.out, !.out = t.out]
<1>1. t \in Transactions /\ TransactionsOK(t) /\ t.reply = "ok" /\ t.now \in Value
  BY QueueOK, FieldsOK DEF TransactionOk
<1>2. Batch(t) \subseteq counted[p]
  BY <1>1 DEF SumsInv, Sums
<1>3. rest \in Seq(Entry) /\ Distinct(rest) /\ Ids(t.queue) = Batch(t) \cup Ids(rest)
  BY <1>1, WaitingOK
<1>4. Ids(u.queue) = Ids(rest)
  <2>1. CASE rest = <<>>
    BY <2>1 DEF Idle
  <2>2. CASE rest # <<>>
    <3> DEFINE w == Sent(p, rest, t.now)
    <3>1. w \in Transactions /\ Ids(w.queue) = Ids(rest)
      BY <1>1, <1>3, <2>2, SentOK
    <3>2. u.queue = w.queue
      BY <2>2, <3>1 DEF Transactions
    <3> QED BY <3>1, <3>2
  <2> QED BY <2>1, <2>2
<1>5. txn' = [txn EXCEPT ![d][p] = u] /\ UNCHANGED <<counted, toasted, reading, faults>>
  BY DEF TransactionOk
<1>. HIDE DEF u
<1> QED BY <1>2, <1>3, <1>4, <1>5, CoverQueue

\* A refused put is no reason to give up as long as the client may send more often
\* than there are submissions to be refused for.
LEMMA CoverStale ==
  ASSUME IInv, HeardInv, CoverInv, MaxRetries > Cardinality(Sessions), faults.reruns = 0,
         NEW d \in Devices, NEW p \in Paths, TransactionStale(d, p)
  PROVE  CoverInv'
<1> USE DEF server, app
<1> DEFINE t == txn[d][p]
           q == t.queue
           exhausted == {i \in DOMAIN q : q[i].tries >= MaxRetries}
           k == Cardinality(exhausted)
           again == SubSeq(q, k + 1, Len(q))
           u == RunAll(p, again, t.now)
<1>1. /\ t \in Transactions /\ TransactionsOK(t) /\ t.reply = "datastale"
      /\ t.now \in Value /\ q \in Seq(Entry)
      /\ Ids(q) \cap counted[p] = {} /\ Ids(q) \in SUBSET Sessions
  BY QueueOK, FieldsOK DEF TransactionStale
<1>2. /\ Len(q) \in Nat /\ DOMAIN q = 1..Len(q) /\ t.sent \in 0..Len(q)
      /\ \A i \in 1..Len(q) : q[i] \in Entry
  BY <1>1, LenProperties, ElementOfSeq DEF TransactionsOK
<1>3. TriesOK(p, t, counted[p]) /\ counted[p] \in SUBSET Sessions
  BY DEF HeardInv, Heard, IInv, TypeOK
<1>4. PICK S \in SUBSET counted[p] : SentAtMost(t, Cardinality(S) + 1)
  BY <1>1, <1>3 DEF TriesOK
<1>5. \A i \in DOMAIN q : q[i].tries < MaxRetries
  <2> SUFFICES ASSUME NEW i \in DOMAIN q
               PROVE  q[i].tries < MaxRetries
    OBVIOUS
  <2>1. MaxRetries \in Nat \ {0} /\ Cardinality(Sessions) \in Nat /\ q[i].tries \in Nat
    BY <1>2, ConstantsOK, SessionSetsFinite DEF Entry
  <2>2. CASE i \in 1..t.sent
    <3>1. q[i].tries <= Cardinality(S) + 1
      BY <1>4, <2>2 DEF SentAtMost
    <3>2. q[i].id \in Sessions \ S
      BY <1>1, <1>4 DEF Ids
    <3>3. S \in SUBSET Sessions /\ S # Sessions
      BY <1>3, <1>4, <3>2
    <3>4. Cardinality(S) \in Nat /\ Cardinality(S) < Cardinality(Sessions)
      BY <2>1, <3>3, SessionSetsFinite, SessionsFinite, FS_Subset
    <3> QED BY <2>1, <3>1, <3>4
  <2>3. CASE i \in (t.sent + 1)..Len(q)
    <3>1. q[i].tries = 0
      BY <1>3, <2>3 DEF TriesOK
    <3> QED BY <2>1, <3>1
  <2> QED BY <1>2, <2>2, <2>3
<1>6. k = 0
  <2>1. \A i \in DOMAIN q : ~(q[i].tries >= MaxRetries)
    <3>1. \A i \in DOMAIN q : q[i].tries \in Nat /\ MaxRetries \in Nat
      BY <1>2, ConstantsOK DEF Entry
    <3> QED BY <1>5, <3>1
  <2>2. exhausted = {}
    BY <2>1
  <2> QED BY <2>2, FS_EmptySet
<1>7. /\ again \in Seq(Entry) /\ Distinct(again)
      /\ Len(again) = Len(q) - k
      /\ \A i \in 1..Len(again) : again[i] = q[k + i]
  BY <1>1, AgainOK
<1>8. txn' = [txn EXCEPT ![d][p] = u] /\ UNCHANGED <<counted, toasted, reading, faults>>
  BY DEF TransactionStale
<1>. HIDE DEF k, again, q
<1>9. Ids(q) \subseteq Ids(again)
  <2>1. Len(again) = Len(q) /\ DOMAIN again = 1..Len(again)
    BY <1>2, <1>6, <1>7, LenProperties
  <2>2. \A i \in 1..Len(q) : again[i] = q[i]
    BY <1>6, <1>7, <2>1
  <2> QED BY <1>2, <2>1, <2>2 DEF Ids
<1>10. Ids(u.queue) = Ids(again)
  BY <1>1, <1>7, RunAllOK
<1>. HIDE DEF u
<1> QED BY <1>8, <1>9, <1>10, CoverQueue DEF q

\* A submission leaves the read for the two queues.
LEMMA CoverStart ==
  ASSUME IInv, CoverInv, NEW d \in Devices, NEW s \in Sessions, StartTransactions(d, s)
  PROVE  CoverInv'
<1> USE DEF server, client, app
<1> DEFINE listening == viewing[d] \/ reading[d] # {s}
           in(p) == Latest(d, p, listening)
           u(p) == IF txn[d][p].queue = <<>> THEN Sent(p, <<NewEntry(s)>>, in(p))
                   ELSE Enqueue(p, txn[d][p], s)
<1>1. /\ s \in reading[d] /\ reading' = [reading EXCEPT ![d] = @ \ {s}]
      /\ txn' = [txn EXCEPT ![d] = [p \in Paths |-> u(p)]]
      /\ UNCHANGED <<counted, toasted, faults>>
  BY DEF StartTransactions
<1>2. ASSUME NEW p \in Paths
      PROVE  Ids(u(p).queue) = Ids(txn[d][p].queue) \cup {s}
  <2>1. txn[d][p].out \in Value /\ cache[d][p] \in Value
    BY QueueOK, FieldsOK DEF IInv, TypeOK
  <2>2. in(p) \in Value
    BY <2>1 DEF Latest, Value
  <2>. HIDE DEF in
  <2> QED BY <1>1, <2>2, StartQueueOK
<1>. HIDE DEF u
<1>3. /\ \A p \in Paths : txn'[d][p] = u(p)
      /\ reading'[d] = reading[d] \ {s}
      /\ \A e \in Devices \ {d} : reading'[e] = reading[e] /\ txn'[e] = txn[e]
  BY <1>1 DEF IInv, TypeOK
<1>4. \A p \in Paths : reading[d] \cup Ids(txn[d][p].queue)
                         \subseteq counted'[p] \cup reading'[d] \cup Ids(txn'[d][p].queue)
  BY <1>2, <1>3
<1> QED BY <1>1, <1>3, <1>4, CoverStep

LEMMA CoverInit == Init => CoverInv
BY DEF Init, CoverInv

LEMMA CoverNext ==
  ASSUME MaxRetries > Cardinality(Sessions)
  PROVE  Invariants /\ HeardInv /\ CoverInv /\ [Next]_vars => CoverInv'
<1> SUFFICES ASSUME Invariants, HeardInv, CoverInv, [Next]_vars
             PROVE  CoverInv'
  OBVIOUS
<1>1. CASE UNCHANGED vars
  <2>1. UNCHANGED <<reading, txn, counted, toasted, faults>>
    BY <1>1 DEF vars, server, client, app
  <2> QED BY <2>1 DEF CoverInv, OnTheWay
<1>2. CASE faults.reruns # 0
  <2>1. IInv /\ faults'.reruns # 0
    BY <1>2, RerunsGrow DEF Invariants
  <2> QED BY <2>1 DEF CoverInv
<1>3. CASE faults.reruns = 0 /\ Next
  <2>1. IInv /\ SumsInv
    BY DEF Invariants
  <2> QED BY <1>3, <2>1, CoverUser, CoverFault, CoverServer, CoverOk, CoverStale, CoverStart
             DEF Next, Serve, Hear
<1> QED BY <1>1, <1>2, <1>3

-----------------------------------------------------------------------------
(* The theorems.                                                           *)

\* Whatever fails and whatever runs again, only what was announced is under way or
\* counted (HomeFragment.java:147-158); and until the answer to a read runs a waiting
\* transaction again, a put that was refused is worth an accepted submission of
\* another (FRepo.m:1066-1091).
THEOREM HeardAlways == Spec => []HeardInv
<1>1. Init => HeardInv
  BY HeardInit
<1>2. Invariants /\ HeardInv /\ [Next]_vars => HeardInv'
  BY HeardNext
<1> QED BY <1>1, <1>2, Inductive, PTL DEF Spec

\* The numbers of the sessions are in order in every reachable state.
LEMMA KeysAlways == Spec => []KeysInv
<1>1. Init => KeysInv
  BY KeysInit
<1>2. Invariants /\ HeardInv /\ KeysInv /\ [Next]_vars => KeysInv'
  BY KeysNext
<1> QED BY <1>1, <1>2, Inductive, HeardAlways, PTL DEF Spec

\* No session is stored under a number beyond the submissions made, however many
\* devices submit, and however often connections are lost, transactions run again
\* and processes die (HomeFragment.java:188-205).
THEOREM NoKeyBeyondSubmissions == Spec => []KeysBounded
<1>1. KeysInv => KeysBounded
  BY DEF KeysInv, KeysBounded
<1> QED BY <1>1, KeysAlways, PTL

\* As long as no process died, every number the counter promises has a session
\* stored under it once the network is quiet (HomeFragment.java:188-205).
THEOREM EveryNumberIsStored == Spec => []CountedIsStored
<1>1. IInv /\ KeysInv => CountedIsStored
  <2> SUFFICES ASSUME IInv, KeysInv, Quiescent, faults.kills = 0
               PROVE  1..rec[NumSessions] \subseteq DOMAIN stored
    BY DEF CountedIsStored
  <2>1. \A d \in Devices : PutKeys(outstanding[d]) = {}
    BY PutKeysNone DEF Quiescent
  <2>2. rec[NumSessions] \in Nat /\ rec[NumSessions] # Null
    BY ConstantsOK DEF IInv, TypeOK, Paths
  <2> QED BY <2>1, <2>2 DEF KeysInv, Filled, Written
<1>2. Invariants => IInv
  BY DEF Invariants
<1> QED BY <1>1, <1>2, Inductive, KeysAlways, PTL

\* As long as no connection was lost, no process died and no answer to a read ran a
\* waiting transaction again (FRepo.m:1140-1222), everything announced as "Hours
\* submitted" (HomeFragment.java:150) is in both counters once the network is quiet,
\* provided the client's tries (25) are more than the sessions there are: a refusal
\* is worth another submission.
THEOREM NobodyIsForgotten ==
  ASSUME MaxRetries > Cardinality(Sessions)
  PROVE  Spec => []SubmittedIsCounted
<1>1. HeardInv /\ CoverInv => SubmittedIsCounted
  <2> SUFFICES ASSUME HeardInv, CoverInv, Quiescent,
                      faults.disconnects = 0 /\ faults.kills = 0 /\ faults.reruns = 0,
                      NEW p \in Paths
               PROVE  counted[p] = toasted
    BY DEF SubmittedIsCounted
  <2>1. \A d \in Devices : reading[d] = {} /\ Ids(txn[d][p].queue) = {}
    BY DEF Quiescent, Ids
  <2>2. OnTheWay(p) = {}
    BY <2>1 DEF OnTheWay
  <2> QED BY <2>2 DEF HeardInv, CoverInv
<1>2. Init => CoverInv
  BY CoverInit
<1>3. Invariants /\ HeardInv /\ CoverInv /\ [Next]_vars => CoverInv'
  BY CoverNext
<1> QED BY <1>1, <1>2, <1>3, Inductive, HeardAlways, PTL DEF Spec

-----------------------------------------------------------------------------
(* What the history pages show.                                            *)

\* Writes that store no running session.
CompleteWrites == {w \in Writes : w.type = "session" => w.ended = TRUE}

\* A patient user is not recording while a submission is under way, so what is
\* written is complete.
PatientInv ==
  /\ \A d \in Devices : Running(d) => ~Submitting(d)
  /\ \A d \in Devices : outstanding[d] \in Seq(CompleteWrites)
  /\ \A k \in DOMAIN stored : stored[k].ended = TRUE

\* Taking a put out leaves the other writes.
LEMMA RemoveComplete ==
  ASSUME NEW p \in Paths, NEW ws \in Seq(CompleteWrites), Unique(p, ws)
  PROVE  RemoveFirst(ws, Put(p)) \in Seq(CompleteWrites)
<1> DEFINE n == Len(ws)
<1>1. n \in Nat /\ DOMAIN ws = 1..n /\ \A i \in 1..n : ws[i] \in CompleteWrites
  BY LenProperties, ElementOfSeq
<1>2. CASE \A i \in 1..n : ws[i] # Put(p)
  BY <1>2 DEF RemoveFirst
<1>3. CASE \E i \in 1..n : ws[i] = Put(p)
  <2>1. PICK i \in 1..n : ws[i] = Put(p)
    BY <1>3
  <2>2. {j \in 1..n : ws[j] = Put(p)} = {i}
    BY <1>1, <2>1 DEF Unique
  <2>3. Min({i}) = i
    BY <1>1 DEF Min
  <2>4. SelectInSeq(ws, LAMBDA w : w = Put(p)) = i
    BY <2>2, <2>3 DEF SelectInSeq
  <2> DEFINE a == SubSeq(ws, 1, i - 1)
             b == SubSeq(ws, i + 1, n)
  <2>5. RemoveFirst(ws, Put(p)) = a \o b
    BY <1>3, <2>4 DEF RemoveFirst, RemoveAt
  <2>6. a \in Seq(CompleteWrites) /\ b \in Seq(CompleteWrites)
    <3>1. /\ \A k \in 1..(i - 1) : ws[k] \in CompleteWrites
          /\ \A k \in (i + 1)..n : ws[k] \in CompleteWrites
      BY <1>1
    <3> QED BY <1>1, <3>1, SubSeqProperties
  <2>. HIDE DEF a, b
  <2> QED BY <2>5, <2>6, ConcatProperties
<1> QED BY <1>2, <1>3

LEMMA WithoutComplete ==
  ASSUME NEW ws \in Seq(CompleteWrites), ws \in Seq(Writes), \A p \in Paths : Unique(p, ws)
  PROVE  WithoutPuts(ws) \in Seq(CompleteWrites)
<1> DEFINE r == RemoveFirst(ws, Put(NumSessions))
<1>1. NumSessions \in Paths /\ TotalHours \in Paths
  BY DEF Paths
<1>2. r \in Seq(CompleteWrites) /\ Unique(TotalHours, r)
  BY <1>1, RemoveComplete, RemoveOK
<1>. HIDE DEF r
<1>3. RemoveFirst(r, Put(TotalHours)) \in Seq(CompleteWrites)
  BY <1>1, <1>2, RemoveComplete
<1> QED BY <1>3 DEF WithoutPuts, r

LEMMA PutsComplete ==
  /\ <<>> \in Seq(CompleteWrites)
  /\ \A p \in Paths : <<Put(p)>> \in Seq(CompleteWrites)
  /\ \A p \in Paths : \A q : PutsOf(p, q) \in Seq(CompleteWrites)
<1>1. <<>> \in Seq(CompleteWrites)
  BY EmptySeq
<1>2. \A p \in Paths : Put(p) \in CompleteWrites
  BY PutOK DEF CompleteWrites
<1>3. \A p \in Paths : <<Put(p)>> \in Seq(CompleteWrites)
  BY <1>2
<1> QED BY <1>1, <1>3 DEF PutsOf

\* While a submission is under way, the session in a patient user's field is over.
LEMMA FieldEnded ==
  ASSUME IInv, PatientInv, NEW d \in Devices, Submitting(d)
  PROVE  field[d] \in Sessions /\ stage[field[d]] = "ended"
<1>1. ~Running(d) /\ field[d] \in Sessions \cup {Null}
  BY DEF PatientInv, IInv, TypeOK
<1>2. field[d] # Null
  <2>1. CASE popups[d] # {} \/ reading[d] # {}
    BY <2>1 DEF IInv, DeviceOK, OnceOK, Asked
  <2>2. CASE \E p \in Paths : txn[d][p].queue # <<>>
    <3>1. PICK p \in Paths : txn[d][p].queue # <<>>
      BY <2>2
    <3>2. txn[d][p].queue \in Seq(Entry)
      BY QueueOK, FieldsOK
    <3>3. Ids(txn[d][p].queue) # {}
      BY <3>1, <3>2, IdsNonempty
    <3>4. field[d] \in Sessions
      BY <3>3, QueueOK
    <3> QED BY <3>4, ConstantsOK
  <2> QED BY <2>1, <2>2 DEF Submitting
<1>3. stage[field[d]] # "new"
  BY <1>2 DEF IInv, DeviceOK, FieldOK
<1> QED BY <1>1, <1>2, <1>3 DEF Running, IInv, TypeOK

LEMMA SetsComplete ==
  ASSUME IInv, PatientInv, NEW d \in Devices, NEW p, NEW n \in Nat, NEW v \in Value,
         n > 0 => Submitting(d)
  PROVE  SessionPuts(d, p, n, v) \in Seq(CompleteWrites)
<1>1. CASE p = NumSessions /\ v # Null
  <2>1. v \in Nat
    BY <1>1 DEF Value
  <2> DEFINE ws == [i \in 1..n |-> SessionPut(d, v + i)]
  <2>2. SessionPuts(d, p, n, v) = ws
    BY <1>1 DEF SessionPuts
  <2>3. ASSUME NEW i \in 1..n
        PROVE  SessionPut(d, v + i) \in CompleteWrites
    <3>1. field[d] \in Sessions /\ stage[field[d]] = "ended"
      BY <2>3, FieldEnded
    <3>2. v + i \in Keys
      BY <2>1 DEF Keys
    <3>3. SessionPut(d, v + i) = [type |-> "session", key |-> v + i, s |-> field[d], ended |-> TRUE]
      BY <3>1 DEF SessionPut
    <3>4. [type |-> "session", key |-> v + i, s |-> field[d], ended |-> TRUE] \in Writes
      BY <3>1, <3>2 DEF Writes
    <3>5. SessionPut(d, v + i).ended = TRUE
      BY <3>3
    <3> QED BY <3>3, <3>4, <3>5 DEF CompleteWrites
  <2>4. ws \in [1..n -> CompleteWrites]
    BY <2>3
  <2>5. ws \in Seq(CompleteWrites)
    BY <2>4, SeqDef
  <2> QED BY <2>2, <2>5
<1>2. CASE ~(p = NumSessions /\ v # Null)
  BY <1>2, PutsComplete DEF SessionPuts
<1> QED BY <1>1, <1>2

-----------------------------------------------------------------------------
(* The patient user: every step.                                           *)

\* What a step of device d must show.
LEMMA PatientStep ==
  ASSUME PatientInv, NEW d \in Devices,
         \A e \in Devices \ {d} :
           /\ Running(e)' => Running(e)
           /\ popups'[e] = popups[e] /\ reading'[e] = reading[e] /\ txn'[e] = txn[e]
           /\ outstanding'[e] = outstanding[e],
         Running(d)' => ~Submitting(d)',
         outstanding'[d] \in Seq(CompleteWrites),
         \A k \in DOMAIN stored' : stored'[k].ended = TRUE
  PROVE  PatientInv'
<1>1. \A e \in Devices : Running(e)' => ~Submitting(e)'
  BY DEF PatientInv, Submitting
<1> QED BY <1>1 DEF PatientInv

\* A step of the client: the user has not stopped or started anything.
LEMMA PatientClient ==
  ASSUME PatientInv, NEW d \in Devices,
         UNCHANGED <<stored, stage, field>>,
         \A e \in Devices \ {d} :
           /\ popups'[e] = popups[e] /\ reading'[e] = reading[e] /\ txn'[e] = txn[e]
           /\ outstanding'[e] = outstanding[e],
         Submitting(d)' => Submitting(d),
         outstanding'[d] \in Seq(CompleteWrites)
  PROVE  PatientInv'
<1>1. \A e \in Devices : Running(e)' <=> Running(e)
  BY DEF Running
<1>2. Running(d)' => ~Submitting(d)'
  BY <1>1 DEF PatientInv
<1> QED BY <1>1, <1>2, PatientStep DEF PatientInv

\* START and STOP.
LEMMA PatientRecords ==
  ASSUME Patient, IInv, PatientInv, NEW d \in Devices, Start(d) \/ Stop(d)
  PROVE  PatientInv'
<1> USE DEF server, client
<1>1. UNCHANGED <<stored, outstanding, reading, txn>>
  BY DEF Start, Stop
<1>2. /\ stage \in [Sessions -> {"new", "running", "ended"}]
      /\ field \in [Devices -> Sessions \cup {Null}]
      /\ popups \in [Devices -> SUBSET Sessions] /\ Null \notin Sessions
      /\ \A e \in Devices : field[e] # Null => Owner[field[e]] = e /\ stage[field[e]] # "new"
  BY ConstantsOK DEF IInv, TypeOK, DeviceOK, FieldOK
<1>3. CASE Start(d)
  <2>1. PICK s \in Sessions : /\ stage[s] = "new" /\ stage' = [stage EXCEPT ![s] = "running"]
                              /\ field' = [field EXCEPT ![d] = s]
    BY <1>3 DEF Start
  <2>2. popups' = popups /\ ~Submitting(d)
    BY <1>3 DEF Start
  <2>3. ~Submitting(d)'
    BY <1>1, <2>2 DEF Submitting
  <2>4. \A e \in Devices \ {d} : Running(e)' => Running(e)
    BY <1>2, <2>1 DEF Running
  <2> QED BY <1>1, <2>2, <2>3, <2>4, PatientStep DEF PatientInv
<1>4. CASE Stop(d)
  <2>1. /\ stage' = [stage EXCEPT ![field[d]] = "ended"] /\ UNCHANGED field
        /\ popups' = [popups EXCEPT ![d] = @ \cup {field[d]}] \/ UNCHANGED popups
        /\ field[d] \in Sessions
    BY <1>2, <1>4 DEF Stop, Running
  <2>2. ~Running(d)'
    BY <1>2, <2>1 DEF Running
  <2>3. \A e \in Devices \ {d} : (Running(e)' => Running(e)) /\ popups'[e] = popups[e]
    BY <1>2, <2>1 DEF Running
  <2> QED BY <1>1, <2>2, <2>3, PatientStep DEF PatientInv
<1> QED BY <1>3, <1>4

\* YES, NO, and what only changes caches, connections and what was answered.
LEMMA PatientQuiet ==
  ASSUME IInv, PatientInv, NEW d \in Devices,
         \/ \E s \in Sessions : Submit(d, s) \/ Decline(d, s)
         \/ ReadHistory(d) \/ HistoryShown(d) \/ DataUpdate(d) \/ Reconnect(d)
  PROVE  PatientInv'
<1> USE DEF server, client, app
<1>1. UNCHANGED <<stored, outstanding, txn, stage, field>>
  BY DEF Submit, Decline, ReadHistory, HistoryShown, DataUpdate, Reconnect
<1>2. /\ \A e \in Devices \ {d} : popups'[e] = popups[e] /\ reading'[e] = reading[e]
      /\ Submitting(d)' => Submitting(d)
  <2>1. CASE \E s \in Sessions : Submit(d, s) \/ Decline(d, s)
    <3>1. PICK s \in Sessions : Submit(d, s) \/ Decline(d, s)
      BY <2>1
    <3>2. Submitting(d)
      BY <3>1 DEF Submit, Decline, Submitting
    <3>3. /\ popups' = [popups EXCEPT ![d] = @ \ {s}]
          /\ reading' = [reading EXCEPT ![d] = @ \cup {s}] \/ reading' = reading
      BY <3>1 DEF Submit, Decline
    <3> QED BY <3>2, <3>3 DEF IInv, TypeOK
  <2>2. CASE ReadHistory(d) \/ HistoryShown(d) \/ DataUpdate(d) \/ Reconnect(d)
    <3>1. UNCHANGED <<popups, reading, txn>>
      BY <2>2 DEF ReadHistory, HistoryShown, DataUpdate, Reconnect
    <3> QED BY <3>1 DEF Submitting
  <2> QED BY <2>1, <2>2
<1> QED BY <1>1, <1>2, PatientClient DEF PatientInv

\* The server takes a write.
LEMMA PatientServer ==
  ASSUME IInv, PatientInv, NEW d \in Devices,
         ServerSet(d) \/ \E p \in Paths : ServerCompareAndPut(d, p)
  PROVE  PatientInv'
<1> USE DEF app
<1>1. UNCHANGED <<outstanding, stage, field, popups, reading>>
  BY DEF ServerSet, ServerCompareAndPut
<1>2. CASE ServerSet(d)
  <2> DEFINE w == outstanding[d][answered[d] + 1]
  <2>1. /\ txn' = txn /\ w.type = "session"
        /\ stored' = [k \in DOMAIN stored \cup {w.key} |->
                        IF k = w.key THEN [s |-> w.s, ended |-> w.ended] ELSE stored[k]]
    BY <1>2 DEF ServerSet, NextWrite
  <2>2. w \in CompleteWrites
    <3>1. /\ outstanding[d] \in Seq(CompleteWrites)
          /\ answered[d] \in Nat /\ answered[d] < Len(outstanding[d])
      BY <1>2 DEF ServerSet, HasWrite, PatientInv, IInv, TypeOK
    <3>2. answered[d] + 1 \in 1..Len(outstanding[d])
      BY <3>1, LenProperties
    <3> QED BY <3>1, <3>2, ElementOfSeq
  <2>3. w.ended = TRUE
    BY <2>1, <2>2 DEF CompleteWrites
  <2>. HIDE DEF w
  <2>4. \A k \in DOMAIN stored' : stored'[k].ended = TRUE
    BY <2>1, <2>3 DEF PatientInv
  <2>5. \A e \in Devices : (Running(e)' <=> Running(e)) /\ (Submitting(e)' <=> Submitting(e))
    BY <1>1, <2>1 DEF Running, Submitting
  <2> QED BY <1>1, <2>4, <2>5 DEF PatientInv
<1>3. CASE \E p \in Paths : ServerCompareAndPut(d, p)
  <2>1. PICK p \in Paths : ServerCompareAndPut(d, p)
    BY <1>3
  <2> DEFINE t == txn[d][p]
             u(ok, v) == [t EXCEPT !.reply = IF ok THEN "ok" ELSE "datastale", !.now = v]
  <2>2. \A v : \A ok \in BOOLEAN : u(ok, v).queue = t.queue
    <3>1. t \in Transactions
      BY <2>1, ServerEnters
    <3> QED BY <3>1 DEF Transactions
  <2>3. PICK ok \in BOOLEAN : txn' = [txn EXCEPT ![d][p] = u(ok, rec'[p])]
    BY <2>1 DEF ServerCompareAndPut, Accepts
  <2>. HIDE DEF u
  <2>4. /\ \A e \in Devices \ {d} : txn'[e] = txn[e]
        /\ \A o \in Paths : txn'[d][o].queue = txn[d][o].queue
    BY <2>2, <2>3 DEF IInv, TypeOK
  <2>5. Submitting(d)' => Submitting(d)
    BY <1>1, <2>4 DEF Submitting
  <2>6. stored' = stored
    BY <2>1 DEF ServerCompareAndPut
  <2> QED BY <1>1, <2>4, <2>5, <2>6, PatientClient DEF PatientInv
<1> QED BY <1>2, <1>3

LEMMA PatientAckSet ==
  ASSUME IInv, PatientInv, NEW d \in Devices, AckSet(d)
  PROVE  PatientInv'
<1> USE DEF server, app
<1> DEFINE ws == outstanding[d]
<1>1. /\ outstanding' = [outstanding EXCEPT ![d] = Tail(ws)]
      /\ UNCHANGED <<stored, txn, stage, field, popups, reading>>
  BY DEF AckSet
<1>2. ws # <<>> /\ ws \in Seq(CompleteWrites)
  <2>1. /\ ws \in Seq(Writes) /\ answered[d] \in Nat /\ answered[d] > 0
        /\ PutsAgree(ws, answered[d], txn[d])
    BY DEF AckSet, IInv, DeviceOK, TypeOK
  <2> QED BY <2>1, PutsTail DEF PatientInv
<1>3. Tail(ws) \in Seq(CompleteWrites)
  BY <1>2, HeadTailProperties
<1>4. outstanding'[d] = Tail(ws) /\ \A e \in Devices \ {d} : outstanding'[e] = outstanding[e]
  BY <1>1 DEF IInv, TypeOK
<1>5. Submitting(d)' => Submitting(d)
  BY <1>1 DEF Submitting
<1> QED BY <1>1, <1>3, <1>4, <1>5, PatientClient

\* A put is answered, and puts and sessions are written behind the others.
LEMMA PatientAnswer ==
  ASSUME IInv, PatientInv, NEW d \in Devices, NEW p \in Paths, NEW u, NEW q,
         NEW sets \in Seq(CompleteWrites),
         answered[d] > 0, txn[d][p].queue # <<>>,
         txn' = [txn EXCEPT ![d][p] = u],
         outstanding' = [outstanding EXCEPT ![d] = (Tail(@) \o PutsOf(p, q)) \o sets],
         UNCHANGED <<stored, stage, field, popups, reading>>
  PROVE  PatientInv'
<1> DEFINE ws == outstanding[d]
           vs == (Tail(ws) \o PutsOf(p, q)) \o sets
<1>1. ws # <<>> /\ ws \in Seq(CompleteWrites)
  <2>1. /\ ws \in Seq(Writes) /\ answered[d] \in Nat /\ PutsAgree(ws, answered[d], txn[d])
    BY DEF IInv, DeviceOK, TypeOK
  <2> QED BY <2>1, PutsTail DEF PatientInv
<1>2. Tail(ws) \in Seq(CompleteWrites) /\ PutsOf(p, q) \in Seq(CompleteWrites)
  BY <1>1, HeadTailProperties, PutsComplete
<1>3. vs \in Seq(CompleteWrites)
  BY <1>2, ConcatProperties
<1>. HIDE DEF vs
<1>4. /\ outstanding'[d] = vs
      /\ \A e \in Devices \ {d} : outstanding'[e] = outstanding[e] /\ txn'[e] = txn[e]
  BY DEF IInv, TypeOK, vs
<1>5. Submitting(d)
  BY DEF Submitting
<1> QED BY <1>3, <1>4, <1>5, PatientClient

\* The put at the head of the outstanding writes stands for a queue.
LEMMA HeadPut ==
  ASSUME IInv, NEW d \in Devices, NEW p \in Paths,
         answered[d] > 0, Head(outstanding[d]) = Put(p)
  PROVE  txn[d][p].queue # <<>>
<1> DEFINE ws == outstanding[d]
<1>1. /\ ws \in Seq(Writes) /\ answered[d] \in Nat /\ PutsAgree(ws, answered[d], txn[d])
  BY DEF IInv, DeviceOK, TypeOK
<1>2. ws # <<>> /\ ws[1] = Put(p) /\ 1 \in DOMAIN ws
  <2>1. ws # <<>>
    BY <1>1, PutsTail
  <2> QED BY <1>1, <2>1, TailOK, WritesOK
<1>3. txn[d][p].sent > 0
  BY <1>1, <1>2 DEF PutsAgree
<1>4. txn[d][p].sent \in 0..Len(txn[d][p].queue) /\ txn[d][p].queue \in Seq(Entry)
  BY QueueOK, FieldsOK DEF TransactionsOK
<1>5. Len(txn[d][p].queue) # 0
  BY <1>3, <1>4, LenProperties
<1> QED BY <1>4, <1>5, EmptySeq

LEMMA PatientOk ==
  ASSUME IInv, PatientInv, NEW d \in Devices, NEW p \in Paths, TransactionOk(d, p)
  PROVE  PatientInv'
<1> USE DEF server, app
<1> DEFINE t == txn[d][p]
           rest == Waiting(t)
           u == IF rest = <<>> THEN Idle
                ELSE [Sent(p, rest, t.now) EXCEPT !.val = t.out, !.out = t.out]
           ws == outstanding[d]
<1>1. /\ answered[d] > 0 /\ t.queue # <<>>
      /\ txn' = [txn EXCEPT ![d][p] = u]
      /\ outstanding' = [outstanding EXCEPT ![d] = Tail(@) \o PutsOf(p, rest)]
      /\ UNCHANGED <<stored, stage, field, popups, reading>>
  BY HeadPut DEF TransactionOk
<1>2. (Tail(ws) \o PutsOf(p, rest)) \o <<>> = Tail(ws) \o PutsOf(p, rest)
  <2>1. Tail(ws) \in Seq(Writes)
    <3>1. ws \in Seq(Writes) /\ answered[d] \in Nat /\ PutsAgree(ws, answered[d], txn[d])
      BY DEF IInv, DeviceOK, TypeOK
    <3> QED BY <1>1, <3>1, PutsTail
  <2>2. Tail(ws) \o PutsOf(p, rest) \in Seq(Writes)
    BY <2>1, PutsOfOK, ConcatOK
  <2> QED BY <2>2, ConcatEmptySeq
<1>3. outstanding' = [outstanding EXCEPT ![d] = (Tail(@) \o PutsOf(p, rest)) \o <<>>]
  BY <1>1, <1>2
<1>. HIDE DEF u, rest
<1> QED BY <1>1, <1>3, PutsComplete, PatientAnswer

LEMMA PatientStale ==
  ASSUME IInv, PatientInv, NEW d \in Devices, NEW p \in Paths, TransactionStale(d, p)
  PROVE  PatientInv'
<1> USE DEF server, app
<1> DEFINE t == txn[d][p]
           k == Cardinality({i \in DOMAIN t.queue : t.queue[i].tries >= MaxRetries})
           again == SubSeq(t.queue, k + 1, Len(t.queue))
           u == RunAll(p, again, t.now)
           sets == SessionPuts(d, p, Len(again), t.now)
<1>1. /\ answered[d] > 0 /\ t.queue # <<>>
      /\ txn' = [txn EXCEPT ![d][p] = u]
      /\ outstanding' = [outstanding EXCEPT ![d] = (Tail(@) \o PutsOf(p, again)) \o sets]
      /\ UNCHANGED <<stored, stage, field, popups, reading>>
  BY HeadPut DEF TransactionStale
<1>2. t \in Transactions /\ TransactionsOK(t) /\ t.now \in Value
  BY QueueOK, FieldsOK
<1>3. again \in Seq(Entry) /\ Len(again) \in Nat
  BY <1>2, AgainOK, LenProperties
<1>4. Submitting(d)
  BY <1>1 DEF Submitting
<1>. HIDE DEF again, u
<1>5. sets \in Seq(CompleteWrites)
  BY <1>2, <1>3, <1>4, SetsComplete
<1>. HIDE DEF sets
<1> QED BY <1>1, <1>5, PatientAnswer

LEMMA PatientDisconnect ==
  ASSUME IInv, PatientInv, NEW d \in Devices, Disconnect(d)
  PROVE  PatientInv'
<1> USE DEF server, app
<1> DEFINE f == [p \in Paths |-> Waiting(txn[d][p])]
           r == f[NumSessions]
           us == [p \in Paths |-> RunAll(p, f[p], cache[d][p])]
           sets == SessionPuts(d, NumSessions, Len(r), cache[d][NumSessions])
           w0 == WithoutPuts(outstanding[d])
           put1 == PutsOf(NumSessions, r)
           put2 == PutsOf(TotalHours, f[TotalHours])
           vs == ((w0 \o put1) \o put2) \o sets
<1>1. /\ txn' = [txn EXCEPT ![d] = us]
      /\ outstanding' = [outstanding EXCEPT ![d] = vs]
      /\ UNCHANGED <<stored, stage, field, popups, reading>>
  BY DEF Disconnect
<1>2. \A p \in Paths : /\ f[p] \in Seq(Entry) /\ Distinct(f[p])
                       /\ Ids(f[p]) \subseteq Ids(txn[d][p].queue)
                       /\ txn[d][p].queue \in Seq(Entry)
  BY QueueOK, WaitingOK, FieldsOK
<1>3. NumSessions \in Paths /\ TotalHours \in Paths
  BY DEF Paths
<1>4. \A p \in Paths : f[p] # <<>> => txn[d][p].queue # <<>>
  <2>1. Ids(<<>>) = {}
    BY DEF Ids
  <2>. HIDE DEF f
  <2> QED BY <1>2, <2>1, IdsNonempty
<1>5. \A p \in Paths : us[p].queue # <<>> => f[p] # <<>>
  <2> SUFFICES ASSUME NEW p \in Paths, f[p] = <<>>
               PROVE  us[p].queue = <<>>
    OBVIOUS
  <2>1. us[p] = RunAll(p, f[p], cache[d][p])
    OBVIOUS
  <2>. HIDE DEF us, f
  <2> QED BY <2>1 DEF RunAll, Idle
<1>6. cache[d][NumSessions] \in Value /\ w0 \in Seq(CompleteWrites)
      /\ put1 \in Seq(CompleteWrites) /\ put2 \in Seq(CompleteWrites)
  <2>1. /\ outstanding[d] \in Seq(CompleteWrites) /\ outstanding[d] \in Seq(Writes)
        /\ \A p \in Paths : Unique(p, outstanding[d])
        /\ cache[d][NumSessions] \in Value
    BY <1>3 DEF IInv, TypeOK, DeviceOK, PutsAgree, PatientInv
  <2>2. w0 \in Seq(CompleteWrites)
    BY <2>1, WithoutComplete
  <2>. HIDE DEF w0, f
  <2> QED BY <1>3, <2>1, <2>2, PutsComplete
<1>. HIDE DEF f
<1>7. sets \in Seq(CompleteWrites)
  <2>1. Len(r) \in Nat /\ (Len(r) > 0 => r # <<>>)
    <3>1. r \in Seq(Entry)
      BY <1>2, <1>3
    <3>2. Len(<<>>) = 0
      OBVIOUS
    <3>3. Len(r) \in Nat
      BY <3>1, LenProperties
    <3>4. CASE r = <<>>
      <4>1. Len(r) = 0
        BY <3>2, <3>4
      <4> QED BY <3>3, <4>1
    <3>5. CASE r # <<>>
      BY <3>3, <3>5
    <3> QED BY <3>4, <3>5
  <2>2. Len(r) > 0 => Submitting(d)
    BY <1>3, <1>4, <2>1 DEF Submitting
  <2> QED BY <1>6, <2>1, <2>2, SetsComplete
<1>. HIDE DEF w0, put1, put2, sets, us
<1>8. vs \in Seq(CompleteWrites)
  <2>1. w0 \o put1 \in Seq(CompleteWrites)
    BY <1>6, ConcatProperties
  <2>2. (w0 \o put1) \o put2 \in Seq(CompleteWrites)
    BY <1>6, <2>1, ConcatProperties
  <2> QED BY <1>7, <2>2, ConcatProperties
<1>. HIDE DEF vs
<1>9. /\ outstanding'[d] = vs /\ txn'[d] = us
      /\ \A e \in Devices \ {d} : outstanding'[e] = outstanding[e] /\ txn'[e] = txn[e]
  BY <1>1 DEF IInv, TypeOK
<1>10. Submitting(d)' => Submitting(d)
  BY <1>1, <1>4, <1>5, <1>9 DEF Submitting
<1> QED BY <1>1, <1>8, <1>9, <1>10, PatientClient

LEMMA PatientKill ==
  ASSUME IInv, PatientInv, NEW d \in Devices, Kill(d)
  PROVE  PatientInv'
<1>1. /\ outstanding' = [outstanding EXCEPT ![d] = <<>>]
      /\ txn' = [txn EXCEPT ![d] = [p \in Paths |-> Idle]]
      /\ field' = [field EXCEPT ![d] = Null]
      /\ popups' = [popups EXCEPT ![d] = {}]
      /\ reading' = [reading EXCEPT ![d] = {}]
      /\ UNCHANGED <<stored, stage>>
  BY DEF Kill, server
<1>2. /\ outstanding'[d] = <<>> /\ field'[d] = Null
      /\ \A e \in Devices \ {d} :
           /\ outstanding'[e] = outstanding[e] /\ txn'[e] = txn[e] /\ field'[e] = field[e]
           /\ popups'[e] = popups[e] /\ reading'[e] = reading[e]
  BY <1>1 DEF IInv, TypeOK
<1>3. ~Running(d)' /\ \A e \in Devices \ {d} : Running(e)' => Running(e)
  BY <1>1, <1>2 DEF Running
<1>4. outstanding'[d] \in Seq(CompleteWrites)
  BY <1>2, PutsComplete
<1> QED BY <1>1, <1>2, <1>3, <1>4, PatientStep DEF PatientInv

LEMMA PatientStart ==
  ASSUME IInv, PatientInv, NEW d \in Devices, NEW s \in Sessions, StartTransactions(d, s)
  PROVE  PatientInv'
<1> USE DEF server
<1> DEFINE N == NumSessions
           listening == viewing[d] \/ reading[d] # {s}
           in(p) == Latest(d, p, listening)
           v == in(N)
           num == IF txn[d][N].queue = <<>> THEN <<Put(N)>> ELSE <<>>
           hours == IF txn[d][TotalHours].queue = <<>> THEN <<Put(TotalHours)>> ELSE <<>>
           session == SessionPuts(d, N, 1, v)
           u(p) == IF txn[d][p].queue = <<>> THEN Sent(p, <<NewEntry(s)>>, in(p))
                   ELSE Enqueue(p, txn[d][p], s)
           ws == outstanding[d]
           us == [p \in Paths |-> u(p)]
<1>1. N \in Paths /\ TotalHours \in Paths
  BY DEF Paths
<1>2. /\ s \in reading[d]
      /\ txn' = [txn EXCEPT ![d] = us]
      /\ reading' = [reading EXCEPT ![d] = @ \ {s}]
      /\ \/ outstanding' = [outstanding EXCEPT ![d] = ((ws \o num) \o session) \o hours]
         \/ outstanding' = [outstanding EXCEPT ![d] = ((ws \o num) \o hours) \o session]
      /\ UNCHANGED <<stored, stage, field, popups>>
  BY DEF StartTransactions
<1>3. Submitting(d)
  BY <1>2 DEF Submitting
<1>4. v \in Value
  <2>1. txn[d][N].out \in Value /\ cache[d][N] \in Value
    BY <1>1, QueueOK, FieldsOK DEF IInv, TypeOK
  <2> QED BY <2>1 DEF Latest, Value
<1>5. ws \in Seq(CompleteWrites) /\ num \in Seq(CompleteWrites) /\ hours \in Seq(CompleteWrites)
  BY <1>1, PutsComplete DEF PatientInv
<1>. HIDE DEF in, v, num, hours, us
<1>6. session \in Seq(CompleteWrites)
  BY <1>3, <1>4, SetsComplete
<1>. HIDE DEF session, ws, N
<1>7. /\ ((ws \o num) \o session) \o hours \in Seq(CompleteWrites)
      /\ ((ws \o num) \o hours) \o session \in Seq(CompleteWrites)
  <2>1. ws \o num \in Seq(CompleteWrites)
    BY <1>5, ConcatProperties
  <2>2. (ws \o num) \o session \in Seq(CompleteWrites) /\ (ws \o num) \o hours \in Seq(CompleteWrites)
    BY <1>5, <1>6, <2>1, ConcatProperties
  <2> QED BY <1>5, <1>6, <2>2, ConcatProperties
<1>8. /\ outstanding'[d] \in Seq(CompleteWrites)
      /\ \A e \in Devices \ {d} :
           outstanding'[e] = outstanding[e] /\ txn'[e] = txn[e] /\ reading'[e] = reading[e]
  BY <1>2, <1>7 DEF IInv, TypeOK
<1> QED BY <1>2, <1>3, <1>8, PatientClient

\* What waits and runs again is under way already.
LEMMA PatientAnswerRead ==
  ASSUME IInv, PatientInv, NEW d \in Devices, AnswerRead(d)
  PROVE  PatientInv'
<1> USE DEF server, app
<1> DEFINE us == [p \in Paths |-> RunAgain(p, txn[d][p], rec[p])]
           r == Waiting(txn[d][NumSessions])
           ws == outstanding[d]
           sets == SessionPuts(d, NumSessions, Len(r), rec[NumSessions])
           vs == ws \o sets
<1>1. /\ txn' = [txn EXCEPT ![d] = us]
      /\ outstanding' = [outstanding EXCEPT ![d] = vs]
      /\ UNCHANGED <<stored, stage, field, popups, reading>>
  <2>1. [txn EXCEPT ![d] = [p \in Paths |-> RunAgain(p, @[p], rec[p])]] = [txn EXCEPT ![d] = us]
    OBVIOUS
  <2>. HIDE DEF us
  <2> QED BY <2>1 DEF AnswerRead
<1>2. NumSessions \in Paths /\ \A p \in Paths : rec[p] \in Nat
  BY DEF Paths, IInv, TypeOK
<1>3. ASSUME NEW p \in Paths PROVE us[p].queue = txn[d][p].queue
  <2>1. /\ rec[p] \in Nat /\ txn[d][p] \in Transactions /\ TransactionsOK(txn[d][p])
    BY <1>2, QueueOK
  <2>2. RunAgain(p, txn[d][p], rec[p]).queue = txn[d][p].queue
    BY <2>1, RunAgainOK
  <2> QED BY <2>2
<1>4. /\ r \in Seq(Entry) /\ Distinct(r) /\ Len(r) \in Nat
      /\ Ids(r) \subseteq Ids(txn[d][NumSessions].queue)
  <2>1. /\ r \in Seq(Entry) /\ Distinct(r)
        /\ Ids(r) \subseteq Ids(txn[d][NumSessions].queue)
    BY <1>2, QueueOK, WaitingOK
  <2>. HIDE DEF r
  <2> QED BY <2>1, LenProperties
<1>5. Len(r) > 0 => Submitting(d)
  <2>1. CASE txn[d][NumSessions].queue = <<>>
    <3>. HIDE DEF r
    <3>1. Ids(r) = {}
      <4>1. Ids(<<>>) = {}
        BY DEF Ids
      <4> QED BY <1>4, <2>1, <4>1
    <3>2. r = <<>>
      BY <1>4, <3>1, IdsNonempty
    <3> QED BY <3>2
  <2>2. CASE txn[d][NumSessions].queue # <<>>
    BY <1>2, <2>2 DEF Submitting
  <2> QED BY <2>1, <2>2
<1>6. rec[NumSessions] \in Value /\ ws \in Seq(CompleteWrites)
  BY <1>2 DEF Value, PatientInv
<1>. HIDE DEF r
<1>7. sets \in Seq(CompleteWrites)
  BY <1>4, <1>5, <1>6, SetsComplete
<1>. HIDE DEF sets, us
<1>8. vs \in Seq(CompleteWrites)
  BY <1>6, <1>7, ConcatProperties
<1>. HIDE DEF vs
<1>9. /\ outstanding'[d] = vs /\ txn'[d] = us
      /\ \A e \in Devices \ {d} : outstanding'[e] = outstanding[e] /\ txn'[e] = txn[e]
  BY <1>1 DEF IInv, TypeOK
<1>10. Submitting(d)' => Submitting(d)
  BY <1>1, <1>3, <1>9 DEF Submitting
<1> QED BY <1>1, <1>8, <1>9, <1>10, PatientClient

LEMMA PatientInit == Init => PatientInv
<1> SUFFICES ASSUME Init PROVE PatientInv
  OBVIOUS
<1>1. /\ stored = <<>> /\ outstanding = [d \in Devices |-> <<>>]
      /\ field = [d \in Devices |-> Null]
  BY DEF Init
<1> QED BY <1>1, PutsComplete DEF PatientInv, Running

LEMMA PatientNext ==
  ASSUME Patient
  PROVE  IInv /\ PatientInv /\ [Next]_vars => PatientInv'
<1> SUFFICES ASSUME IInv, PatientInv, [Next]_vars
             PROVE  PatientInv'
  OBVIOUS
<1>1. CASE UNCHANGED vars
  <2>1. UNCHANGED <<stored, outstanding, txn, stage, field, popups, reading>>
    BY <1>1 DEF vars, server, client, app
  <2> QED BY <2>1 DEF PatientInv, Running, Submitting
<1>2. CASE Next
  BY <1>2, PatientRecords, PatientQuiet, PatientServer, PatientAckSet, PatientOk, PatientStale,
     PatientDisconnect, PatientKill, PatientStart, PatientAnswerRead DEF Next, Serve, Hear
<1> QED BY <1>1, <1>2

-----------------------------------------------------------------------------
(* Two ways to list sessions.                                              *)

LEMMA UpTo ==
  ASSUME NEW n \in Nat
  PROVE  IsFiniteSet(1..n) /\ Cardinality(1..n) = n
<1>1. 1 \in Int /\ n \in Int /\ (1 > n => n = 0)
  OBVIOUS
<1> QED BY <1>1, FS_Interval

\* Numbers with no gap are those from 1.
LEMMA NoGap ==
  ASSUME NEW K \in SUBSET Keys, NEW c \in Nat, \A k \in K : k <= c, \A k \in K : 1..k \subseteq K
  PROVE  Cardinality(K) \in Nat /\ K = 1..Cardinality(K)
<1>1. K \subseteq 1..c /\ \A k \in K : k \in Nat /\ k >= 1
  BY DEF Keys
<1>2. IsFiniteSet(K) /\ Cardinality(K) \in Nat
  <2>1. IsFiniteSet(1..c)
    BY UpTo
  <2>2. IsFiniteSet(K)
    BY <1>1, <2>1, FS_Subset
  <2> QED BY <2>2, FS_CardinalityType
<1>3. \A k \in K : k <= Cardinality(K)
  <2> SUFFICES ASSUME NEW k \in K
               PROVE  k <= Cardinality(K)
    OBVIOUS
  <2>1. IsFiniteSet(1..k) /\ Cardinality(1..k) = k
    BY <1>1, UpTo
  <2>2. 1..k \subseteq K
    OBVIOUS
  <2>3. Cardinality(1..k) <= Cardinality(K)
    BY <1>2, <2>2, FS_Subset
  <2> QED BY <2>1, <2>3
<1> DEFINE n == Cardinality(K)
<1>4. IsFiniteSet(1..n) /\ Cardinality(1..n) = n
  BY <1>2, UpTo
<1>5. K \subseteq 1..n
  BY <1>1, <1>2, <1>3
<1> QED BY <1>2, <1>4, <1>5, FS_Subset

LEMMA RankedNumber ==
  ASSUME NEW n \in Nat, NEW i \in 1..n
  PROVE  Ranked(1..n, i) = i
<1>1. \A k \in 1..n : Cardinality({j \in 1..n : j <= k}) = k
  <2> SUFFICES ASSUME NEW k \in 1..n
               PROVE  Cardinality({j \in 1..n : j <= k}) = k
    OBVIOUS
  <2>1. {j \in 1..n : j <= k} = 1..k
    OBVIOUS
  <2>2. k \in Nat
    OBVIOUS
  <2> QED BY <2>1, <2>2, UpTo
<1> QED BY <1>1 DEF Ranked

\* Complete sessions with no gap are listed alike.
LEMMA ListedAlike ==
  ASSUME NEW st, NEW n \in Nat, DOMAIN st = 1..n, \A k \in 1..n : st[k].ended = TRUE
  PROVE  Gallery(st) = Table(st)
<1>1. Cardinality(1..n) = n
  BY UpTo
<1>2. Gallery(st) = [i \in 1..n |-> st[i].s]
  BY <1>1, RankedNumber DEF Gallery
<1>3. {k \in DOMAIN st : st[k].ended} = 1..n
  OBVIOUS
<1>4. Table(st) = [row \in 1..n |-> st[row].s]
  BY <1>1, <1>3 DEF Table
<1> QED BY <1>2, <1>4

\* A patient user's sisters see the same rows on both platforms once the network is
\* quiet, and unless a process died: refused, aborted and given up transactions leave
\* no gap among the numbers (GalleryFragment.java:61-84, ViewController.swift:29-46).
THEOREM HistoriesAgree == Spec => []SameHistory
<1>1. CASE Patient
  <2>1. IInv /\ KeysInv /\ PatientInv => SameHistory
    <3> SUFFICES ASSUME IInv, KeysInv, PatientInv, Quiescent, faults.kills = 0
                 PROVE  Gallery(stored) = Table(stored)
      BY DEF SameHistory
    <3>1. Written = DOMAIN stored
      <4>1. \A d \in Devices : PutKeys(outstanding[d]) = {}
        BY PutKeysNone DEF Quiescent
      <4> QED BY <4>1 DEF Written
    <3>2. /\ DOMAIN stored \in SUBSET Keys /\ Cardinality(toasted) \in Nat
          /\ \A k \in DOMAIN stored : k <= Cardinality(toasted) /\ 1..k \subseteq DOMAIN stored
      <4>1. DOMAIN stored \in SUBSET Keys /\ Cardinality(toasted) \in Nat
        BY SessionSetsFinite DEF IInv, TypeOK
      <4>2. \A k \in DOMAIN stored : k <= Cardinality(toasted) /\ Filled(k)
        BY <3>1 DEF KeysInv
      <4>3. \A k \in DOMAIN stored : k # Null
        BY <4>1, ConstantsOK DEF Keys
      <4> QED BY <3>1, <4>1, <4>2, <4>3 DEF Filled
    <3>3. PICK n \in Nat : DOMAIN stored = 1..n
      BY <3>2, NoGap
    <3> QED BY <3>3, ListedAlike DEF PatientInv
  <2>2. Init => PatientInv
    BY PatientInit
  <2>3. IInv /\ PatientInv /\ [Next]_vars => PatientInv'
    BY <1>1, PatientNext
  <2>4. Invariants => IInv
    BY DEF Invariants
  <2> QED BY <2>1, <2>2, <2>3, <2>4, Inductive, KeysAlways, PTL DEF Spec
<1>2. CASE ~Patient
  <2>1. SameHistory
    BY <1>2 DEF SameHistory
  <2> QED BY <2>1, PTL
<1> QED BY <1>1, <1>2

-----------------------------------------------------------------------------
(* What the record will hold once the writes on their way have arrived.     *)

\* The i-th of the first n writes stores a session, and none behind it does under
\* the same number.
LastAt(ws, n, i) ==
  /\ ws[i].type = "session"
  /\ \A j \in (i + 1)..n : ws[j].type = "session" => ws[j].key # ws[i].key

\* s is what the last write for k on its way stores.
LastPut(ws, k, s) ==
  \E i \in 1..Len(ws) : LastAt(ws, Len(ws), i) /\ ws[i].key = k /\ ws[i].s = s

\* s is what is stored under k once the writes on their way have arrived.
Holds(st, ws, k, s) ==
  \/ LastPut(ws, k, s)
  \/ k \notin PutKeys(ws) /\ k \in DOMAIN st /\ st[k].s = s

\* What the server took is in the database.
TakenOK(st, ws, n) ==
  \A i \in 1..n : LastAt(ws, n, i) => ws[i].key \in DOMAIN st /\ st[ws[i].key].s = ws[i].s

\* Such a write is one of those on their way.
LEMMA LastPutKey ==
  ASSUME NEW ws \in Seq(Writes), NEW k, NEW s, LastPut(ws, k, s)
  PROVE  k \in PutKeys(ws)
<1>1. PICK i \in 1..Len(ws) : ws[i].type = "session" /\ ws[i].key = k
  BY DEF LastPut, LastAt
<1> QED BY <1>1, PutKeysIn

\* Of writes behind others, the later ones decide.
LEMMA LastPutConcat ==
  ASSUME NEW ws \in Seq(Writes), NEW vs \in Seq(Writes), NEW k, NEW s
  PROVE  LastPut(ws \o vs, k, s)
           <=> LastPut(vs, k, s) \/ (k \notin PutKeys(vs) /\ LastPut(ws, k, s))
<1> DEFINE us == ws \o vs
           n == Len(ws)
           m == Len(vs)
<1>1. /\ n \in Nat /\ m \in Nat /\ Len(us) = n + m
      /\ \A i \in 1..n : us[i] = ws[i]
      /\ \A i \in (n + 1)..(n + m) : us[i] = vs[i - n]
      /\ \A i \in 1..m : us[n + i] = vs[i]
  <2>1. /\ n \in Nat /\ m \in Nat /\ Len(us) = n + m
        /\ \A i \in 1..n : us[i] = ws[i]
        /\ \A i \in (n + 1)..(n + m) : us[i] = vs[i - n]
    BY ConcatOK, WritesOK
  <2>. HIDE DEF us, n, m
  <2>2. ASSUME NEW i \in 1..m
        PROVE  us[n + i] = vs[i]
    <3>1. n + i \in (n + 1)..(n + m) /\ (n + i) - n = i
      BY <2>1
    <3> QED BY <2>1, <3>1
  <2> QED BY <2>1, <2>2
<1>. HIDE DEF us, n, m
<1>2. ASSUME LastPut(us, k, s)
      PROVE  LastPut(vs, k, s) \/ (k \notin PutKeys(vs) /\ LastPut(ws, k, s))
  <2>1. PICK i \in 1..(n + m) : /\ us[i].type = "session" /\ us[i].key = k /\ us[i].s = s
                                /\ \A j \in (i + 1)..(n + m) : us[j].type = "session" => us[j].key # k
    BY <1>1, <1>2 DEF LastPut, LastAt
  <2>2. CASE i \in 1..n
    <3>1. \A j \in (i + 1)..n : ws[j].type = "session" => ws[j].key # k
      <4>1. \A j \in (i + 1)..n : j \in 1..n /\ j \in (i + 1)..(n + m)
        BY <1>1, <2>2
      <4> QED BY <1>1, <2>1, <4>1
    <3>2. LastPut(ws, k, s)
      BY <1>1, <2>1, <2>2, <3>1 DEF LastPut, LastAt, n
    <3>3. ASSUME k \in PutKeys(vs)
          PROVE  FALSE
      <4>1. PICK j \in 1..m : vs[j].type = "session" /\ vs[j].key = k
        BY <3>3, PutKeysOf DEF m
      <4>2. n + j \in (i + 1)..(n + m) /\ us[n + j] = vs[j]
        BY <1>1, <2>2
      <4> QED BY <2>1, <4>1, <4>2
    <3> QED BY <3>2, <3>3
  <2>3. CASE i \in (n + 1)..(n + m)
    <3>1. i - n \in 1..m /\ us[i] = vs[i - n]
      BY <1>1, <2>3
    <3>2. ASSUME NEW j \in (i - n + 1)..m, vs[j].type = "session"
          PROVE  vs[j].key # k
      <4>1. n + j \in (i + 1)..(n + m) /\ j \in 1..m
        BY <1>1, <2>3
      <4> QED BY <1>1, <2>1, <3>2, <4>1
    <3> QED BY <2>1, <3>1, <3>2 DEF LastPut, LastAt, m
  <2> QED BY <1>1, <2>2, <2>3
<1>3. ASSUME LastPut(vs, k, s)
      PROVE  LastPut(us, k, s)
  <2>1. PICK i \in 1..m : /\ vs[i].type = "session" /\ vs[i].key = k /\ vs[i].s = s
                          /\ \A j \in (i + 1)..m : vs[j].type = "session" => vs[j].key # k
    BY <1>3 DEF LastPut, LastAt, m
  <2>2. n + i \in 1..(n + m) /\ us[n + i] = vs[i]
    BY <1>1
  <2>3. ASSUME NEW j \in (n + i + 1)..(n + m), us[j].type = "session"
        PROVE  us[j].key # k
    <3>1. j - n \in (i + 1)..m /\ j \in (n + 1)..(n + m)
      BY <1>1
    <3> QED BY <1>1, <2>1, <2>3, <3>1
  <2> QED BY <1>1, <2>1, <2>2, <2>3 DEF LastPut, LastAt
<1>4. ASSUME LastPut(ws, k, s), k \notin PutKeys(vs)
      PROVE  LastPut(us, k, s)
  <2>1. PICK i \in 1..n : /\ ws[i].type = "session" /\ ws[i].key = k /\ ws[i].s = s
                          /\ \A j \in (i + 1)..n : ws[j].type = "session" => ws[j].key # k
    BY <1>4 DEF LastPut, LastAt, n
  <2>2. i \in 1..(n + m) /\ us[i] = ws[i]
    BY <1>1
  <2>3. ASSUME NEW j \in (i + 1)..(n + m), us[j].type = "session"
        PROVE  us[j].key # k
    <3>1. CASE j \in 1..n
      BY <1>1, <2>1, <2>3, <3>1
    <3>2. CASE j \in (n + 1)..(n + m)
      <4>1. j - n \in 1..m /\ us[j] = vs[j - n]
        BY <1>1, <3>2
      <4> QED BY <1>4, <2>3, <4>1, PutKeysIn DEF m
    <3> QED BY <1>1, <3>1, <3>2
  <2> QED BY <1>1, <2>1, <2>2, <2>3 DEF LastPut, LastAt
<1> QED BY <1>2, <1>3, <1>4 DEF us

\* Writes behind others: what they store counts, else what the others do.
LEMMA HoldsConcat ==
  ASSUME NEW st, NEW ws \in Seq(Writes), NEW vs \in Seq(Writes), NEW k, NEW s
  PROVE  Holds(st, ws \o vs, k, s)
           <=> LastPut(vs, k, s) \/ (k \notin PutKeys(vs) /\ Holds(st, ws, k, s))
<1>1. PutKeys(ws \o vs) = PutKeys(ws) \cup PutKeys(vs)
  BY PutKeysConcat
<1>2. LastPut(ws \o vs, k, s)
        <=> LastPut(vs, k, s) \/ (k \notin PutKeys(vs) /\ LastPut(ws, k, s))
  BY LastPutConcat
<1> QED BY <1>1, <1>2 DEF Holds

\* Puts behind others store nothing.
LEMMA HoldsMore ==
  ASSUME NEW st, NEW ws \in Seq(Writes), NEW vs \in Seq(Writes), PutKeys(vs) = {}
  PROVE  \A k, s : Holds(st, ws \o vs, k, s) <=> Holds(st, ws, k, s)
<1>1. \A k, s : ~LastPut(vs, k, s)
  BY LastPutKey
<1> QED BY <1>1, HoldsConcat

\* One session at most is stored under a number.
LEMMA HoldsUnique ==
  ASSUME NEW st, NEW ws \in Seq(Writes), NEW k, NEW s, NEW r,
         Holds(st, ws, k, s), Holds(st, ws, k, r)
  PROVE  s = r
<1>1. CASE LastPut(ws, k, s) /\ LastPut(ws, k, r)
  <2>1. PICK i \in 1..Len(ws) : LastAt(ws, Len(ws), i) /\ ws[i].key = k /\ ws[i].s = s
    BY <1>1 DEF LastPut
  <2>2. PICK j \in 1..Len(ws) : LastAt(ws, Len(ws), j) /\ ws[j].key = k /\ ws[j].s = r
    BY <1>1 DEF LastPut
  <2>3. Len(ws) \in Nat
    BY WritesOK
  <2>4. CASE i = j
    BY <2>1, <2>2, <2>4
  <2>5. CASE i < j
    <3>1. j \in (i + 1)..Len(ws)
      BY <2>3, <2>5
    <3> QED BY <2>1, <2>2, <3>1 DEF LastAt
  <2>6. CASE j < i
    <3>1. i \in (j + 1)..Len(ws)
      BY <2>3, <2>6
    <3> QED BY <2>1, <2>2, <3>1 DEF LastAt
  <2> QED BY <2>3, <2>4, <2>5, <2>6
<1>2. CASE ~(LastPut(ws, k, s) /\ LastPut(ws, k, r))
  BY <1>2, LastPutKey DEF Holds
<1> QED BY <1>1, <1>2

\* The writes on their way are the first one and the others.
LEMMA HeadSplit ==
  ASSUME NEW ws \in Seq(Writes), ws # <<>>
  PROVE  /\ <<ws[1]>> \in Seq(Writes) /\ Tail(ws) \in Seq(Writes)
         /\ ws = <<ws[1]>> \o Tail(ws)
<1> DEFINE a == <<ws[1]>>
           b == Tail(ws)
           n == Len(ws)
<1>1. n \in Nat \ {0} /\ DOMAIN ws = 1..n /\ ws[1] \in Writes
      /\ b \in Seq(Writes) /\ Len(b) = n - 1 /\ \A i \in 1..(n - 1) : b[i] = ws[i + 1]
  BY TailOK, WritesOK
<1>2. a \in Seq(Writes) /\ Len(a) = 1 /\ a[1] = ws[1]
  BY <1>1
<1>. HIDE DEF a, b, n
<1> DEFINE us == a \o b
<1>3. /\ us \in Seq(Writes) /\ Len(us) = n /\ us[1] = a[1]
      /\ \A i \in 2..n : us[i] = b[i - 1]
  <2>1. /\ us \in Seq(Writes) /\ Len(us) = Len(a) + Len(b)
        /\ \A i \in 1..Len(a) : us[i] = a[i]
        /\ \A i \in (Len(a) + 1)..(Len(a) + Len(b)) : us[i] = b[i - Len(a)]
    BY <1>1, <1>2, ConcatOK
  <2>2. Len(a) + Len(b) = n /\ Len(a) + 1 = 2 /\ 1 \in 1..Len(a)
    BY <1>1, <1>2
  <2>. HIDE DEF us
  <2> QED BY <1>2, <2>1, <2>2
<1>. HIDE DEF us
<1>4. DOMAIN us = 1..n
  BY <1>1, <1>3, WritesOK
<1>5. ASSUME NEW i \in 1..n
      PROVE  us[i] = ws[i]
  <2>1. CASE i = 1
    BY <1>2, <1>3, <2>1
  <2>2. CASE i # 1
    <3>1. i \in 2..n /\ i - 1 \in 1..(n - 1) /\ (i - 1) + 1 = i
      BY <1>1, <2>2
    <3> QED BY <1>1, <1>3, <3>1
  <2> QED BY <2>1, <2>2
<1>6. us = ws
  <2>1. us = [i \in 1..n |-> us[i]] /\ ws = [i \in 1..n |-> ws[i]]
    BY <1>1, <1>3, <1>4
  <2> QED BY <1>5, <2>1
<1> QED BY <1>1, <1>2, <1>6 DEF us, a, b

\* The first write goes, with nothing of it lost: a put stored nothing, and what a
\* session's write stored is in the database.
LEMMA HoldsTail ==
  ASSUME NEW st, NEW ws \in Seq(Writes), ws # <<>>,
         \/ ws[1].type # "session"
         \/ \E n \in 1..Len(ws) : TakenOK(st, ws, n)
  PROVE  \A k, s : Holds(st, Tail(ws), k, s) <=> Holds(st, ws, k, s)
<1> DEFINE a == <<ws[1]>>
           b == Tail(ws)
<1>1. a \in Seq(Writes) /\ b \in Seq(Writes) /\ ws = a \o b /\ Len(a) = 1 /\ a[1] = ws[1]
  BY HeadSplit
<1>2. PutKeys(a) = IF ws[1].type = "session" THEN {ws[1].key} ELSE {}
  <2>1. \A i \in 1..Len(a) : i = 1
    BY <1>1
  <2>2. 1 \in 1..Len(a)
    BY <1>1
  <2>. HIDE DEF a
  <2> QED BY <1>1, <2>1, <2>2 DEF PutKeys
<1>3. \A k, s : LastPut(a, k, s) <=> ws[1].type = "session" /\ k = ws[1].key /\ s = ws[1].s
  <2>1. \A i \in 1..Len(a) : i = 1
    BY <1>1
  <2>2. 1 \in 1..Len(a) /\ (1 + 1)..Len(a) = {}
    BY <1>1
  <2>. HIDE DEF a
  <2> QED BY <1>1, <2>1, <2>2 DEF LastPut, LastAt
<1>. HIDE DEF a, b
<1>4. \A k, s : LastPut(ws, k, s) <=> LastPut(b, k, s) \/ (k \notin PutKeys(b) /\ LastPut(a, k, s))
  BY <1>1, LastPutConcat
<1>5. PutKeys(ws) = PutKeys(a) \cup PutKeys(b)
  BY <1>1, PutKeysConcat
<1>6. CASE ws[1].type # "session"
  BY <1>2, <1>3, <1>4, <1>5, <1>6 DEF Holds, b
<1>7. CASE ws[1].type = "session"
  <2> DEFINE w == ws[1]
  <2>1. ASSUME w.key \notin PutKeys(b)
        PROVE  w.key \in DOMAIN st /\ st[w.key].s = w.s
    <3>1. PICK n \in 1..Len(ws) : TakenOK(st, ws, n)
      BY <1>7
    <3>2. Len(ws) \in Nat \ {0} /\ Len(b) = Len(ws) - 1
          /\ \A i \in 1..(Len(ws) - 1) : b[i] = ws[i + 1]
      BY TailOK DEF b
    <3>3. ASSUME NEW j \in (1 + 1)..n, ws[j].type = "session"
          PROVE  ws[j].key # w.key
      <4>1. j - 1 \in 1..Len(b) /\ (j - 1) + 1 = j
        BY <3>2
      <4>2. b[j - 1] = ws[j]
        BY <3>2, <4>1
      <4> QED BY <2>1, <3>3, <4>1, <4>2, PutKeysIn
    <3>4. LastAt(ws, n, 1) /\ 1 \in 1..n
      BY <1>7, <3>1, <3>3 DEF LastAt
    <3> QED BY <3>1, <3>4 DEF TakenOK
  <2> QED BY <1>2, <1>3, <1>4, <1>5, <1>7, <2>1 DEF Holds, b
<1> QED BY <1>6, <1>7

\* Then the others are what the server took.
LEMMA TakenTail ==
  ASSUME NEW st, NEW ws \in Seq(Writes), ws # <<>>, NEW n \in 1..Len(ws), TakenOK(st, ws, n)
  PROVE  TakenOK(st, Tail(ws), n - 1)
<1> DEFINE b == Tail(ws)
<1>1. Len(ws) \in Nat \ {0} /\ Len(b) = Len(ws) - 1
      /\ \A i \in 1..(Len(ws) - 1) : b[i] = ws[i + 1]
  BY TailOK
<1>. HIDE DEF b
<1>2. ASSUME NEW i \in 1..(n - 1), LastAt(b, n - 1, i)
      PROVE  b[i].key \in DOMAIN st /\ st[b[i].key].s = b[i].s
  <2>1. i \in 1..(Len(ws) - 1) /\ i + 1 \in 1..n
    BY <1>1
  <2>2. b[i] = ws[i + 1]
    BY <1>1, <2>1
  <2>3. ASSUME NEW j \in ((i + 1) + 1)..n, ws[j].type = "session"
        PROVE  ws[j].key # ws[i + 1].key
    <3>1. j - 1 \in (i + 1)..(n - 1) /\ j - 1 \in 1..(Len(ws) - 1) /\ (j - 1) + 1 = j
      BY <1>1
    <3>2. b[j - 1] = ws[j]
      BY <1>1, <3>1
    <3> QED BY <1>2, <2>2, <2>3, <3>1, <3>2 DEF LastAt
  <2>4. LastAt(ws, n, i + 1)
    BY <1>2, <2>2, <2>3 DEF LastAt
  <2> QED BY <2>1, <2>2, <2>4 DEF TakenOK
<1> QED BY <1>2 DEF TakenOK, b

\* Writes sent behind those the server took change nothing of what it took.
LEMMA TakenConcat ==
  ASSUME NEW st, NEW ws \in Seq(Writes), NEW vs \in Seq(Writes), NEW n \in Nat, n <= Len(ws),
         TakenOK(st, ws, n)
  PROVE  TakenOK(st, ws \o vs, n)
<1>1. Len(ws) \in Nat /\ \A i \in 1..n : i \in 1..Len(ws)
  BY WritesOK
<1>2. \A i \in 1..n : (ws \o vs)[i] = ws[i]
  BY <1>1, ConcatOK
<1>3. ASSUME NEW i \in 1..n, LastAt(ws \o vs, n, i)
      PROVE  LastAt(ws, n, i)
  <2>1. \A j \in (i + 1)..n : j \in 1..n
    OBVIOUS
  <2> QED BY <1>2, <1>3, <2>1 DEF LastAt
<1> QED BY <1>2, <1>3 DEF TakenOK

\* A put is taken: it stores nothing.
LEMMA TakenPut ==
  ASSUME NEW st, NEW ws \in Seq(Writes), NEW n \in Nat, TakenOK(st, ws, n),
         ws[n + 1].type # "session"
  PROVE  TakenOK(st, ws, n + 1)
<1> SUFFICES ASSUME NEW i \in 1..(n + 1), LastAt(ws, n + 1, i)
             PROVE  ws[i].key \in DOMAIN st /\ st[ws[i].key].s = ws[i].s
  BY DEF TakenOK
<1>1. i # n + 1
  BY DEF LastAt
<1>2. i \in 1..n
  BY <1>1
<1>3. \A j \in (i + 1)..n : j \in (i + 1)..(n + 1)
  OBVIOUS
<1>4. LastAt(ws, n, i)
  BY <1>3 DEF LastAt
<1> QED BY <1>2, <1>4 DEF TakenOK

\* A session's write is taken: it is what the database has, until the next.
LEMMA TakenSet ==
  ASSUME NEW st, NEW ws \in Seq(Writes), NEW n \in Nat, n + 1 \in 1..Len(ws),
         TakenOK(st, ws, n), ws[n + 1].type = "session",
         NEW st2, DOMAIN st2 = DOMAIN st \cup {ws[n + 1].key},
         st2[ws[n + 1].key].s = ws[n + 1].s,
         \A k \in DOMAIN st \ {ws[n + 1].key} : st2[k] = st[k]
  PROVE  /\ TakenOK(st2, ws, n + 1)
         /\ \A k, s : Holds(st2, ws, k, s) <=> Holds(st, ws, k, s)
<1> DEFINE w == ws[n + 1]
<1>1. ASSUME NEW i \in 1..(n + 1), LastAt(ws, n + 1, i)
      PROVE  ws[i].key \in DOMAIN st2 /\ st2[ws[i].key].s = ws[i].s
  <2>1. CASE i = n + 1
    BY <2>1
  <2>2. CASE i # n + 1
    <3>1. i \in 1..n /\ n + 1 \in (i + 1)..(n + 1)
      BY <2>2
    <3>2. ws[i].key # w.key
      BY <1>1, <3>1 DEF LastAt
    <3>3. \A j \in (i + 1)..n : j \in (i + 1)..(n + 1)
      OBVIOUS
    <3>4. LastAt(ws, n, i)
      BY <1>1, <3>3 DEF LastAt
    <3> QED BY <3>1, <3>2, <3>4 DEF TakenOK
  <2> QED BY <2>1, <2>2
<1>2. w.key \in PutKeys(ws)
  BY PutKeysIn
<1>3. \A k, s : Holds(st2, ws, k, s) <=> Holds(st, ws, k, s)
  BY <1>2 DEF Holds
<1> QED BY <1>1, <1>3 DEF TakenOK

\* A put given up stored nothing.
LEMMA HoldsRemove ==
  ASSUME NEW st, NEW p \in Paths, NEW ws \in Seq(Writes), Unique(p, ws)
  PROVE  \A k, s : Holds(st, RemoveFirst(ws, Put(p)), k, s) <=> Holds(st, ws, k, s)
<1> DEFINE r == RemoveFirst(ws, Put(p))
           q == <<Put(p)>>
<1>1. q \in Seq(Writes) /\ PutKeys(q) = {}
  BY PutOK, PutKeysNone
<1>2. ASSUME r # ws
      PROVE  \A k, s : Holds(st, r, k, s) <=> Holds(st, ws, k, s)
  <2>1. PICK a \in Seq(Writes), b \in Seq(Writes) : r = a \o b /\ ws = (a \o q) \o b
    BY <1>2, RemoveSplit
  <2>. HIDE DEF q, r
  <2>2. a \o q \in Seq(Writes) /\ \A k, s : Holds(st, a \o q, k, s) <=> Holds(st, a, k, s)
    BY <1>1, ConcatOK, HoldsMore
  <2>3. \A k, s : Holds(st, ws, k, s)
          <=> LastPut(b, k, s) \/ (k \notin PutKeys(b) /\ Holds(st, a \o q, k, s))
    BY <2>1, <2>2, HoldsConcat
  <2>4. \A k, s : Holds(st, r, k, s)
          <=> LastPut(b, k, s) \/ (k \notin PutKeys(b) /\ Holds(st, a, k, s))
    BY <2>1, HoldsConcat
  <2> QED BY <2>2, <2>3, <2>4
<1>3. CASE r = ws
  BY <1>3
<1> QED BY <1>2, <1>3

\* A lost connection takes the puts off the list, and with them nothing stored.
LEMMA HoldsWithout ==
  ASSUME NEW st, NEW ws \in Seq(Writes), \A p \in Paths : Unique(p, ws)
  PROVE  \A k, s : Holds(st, WithoutPuts(ws), k, s) <=> Holds(st, ws, k, s)
<1> DEFINE r == RemoveFirst(ws, Put(NumSessions))
<1>1. NumSessions \in Paths /\ TotalHours \in Paths
  BY DEF Paths
<1>2. r \in Seq(Writes) /\ Unique(TotalHours, r)
      /\ \A k, s : Holds(st, r, k, s) <=> Holds(st, ws, k, s)
  BY <1>1, RemoveOK, HoldsRemove
<1>. HIDE DEF r
<1>3. \A k, s : Holds(st, RemoveFirst(r, Put(TotalHours)), k, s) <=> Holds(st, r, k, s)
  BY <1>1, <1>2, HoldsRemove
<1> QED BY <1>2, <1>3 DEF WithoutPuts, r

-----------------------------------------------------------------------------
(* One phone, a patient user.                                              *)

\* There is one session to be asked about, read for or counted at a time: the one
\* in the field.
OneAtATime(d) ==
  /\ ~viewing[d]
  /\ popups[d] \cup reading[d] \subseteq {field[d]}
  /\ \A p \in Paths : Ids(txn[d][p].queue) \subseteq {field[d]}

\* The record will have s under k once the writes on their way have arrived.
Kept(d, k, s) == Holds(stored, outstanding[d], k, s)

\* A put of numSessions is sent with the value the server has, or with none, and
\* then the session is stored, or will be, under the next number.
NextOK(d) ==
  LET t == txn[d][NumSessions]
      n == rec[NumSessions]
  IN
  /\ t.reply = "datastale" => t.now = n
  /\ t.queue # <<>> /\ t.reply # "ok" /\ t.base # Null =>
       t.base = n /\ Kept(d, n + 1, field[d])

\* What was counted is kept under the numbers counted so far, and nothing else is.
StoreInv(d) ==
  /\ TakenOK(stored, outstanding[d], answered[d])
  /\ \A k \in 1..rec[NumSessions] : \A s \in Sessions :
       Kept(d, k, s) => s \in counted[NumSessions]
  /\ \A s \in counted[NumSessions] : \E k \in 1..rec[NumSessions] : Kept(d, k, s)
  /\ NextOK(d)

\* A dead process takes its writes with it, and they are not to be found any more.
OneInv(d) == OneAtATime(d) /\ (faults.kills = 0 => StoreInv(d))

\* A transaction that is not over has one entry, the session in the field, and sent it.
LEMMA OneQueue ==
  ASSUME IInv, NEW d \in Devices, OneAtATime(d), NEW p \in Paths, txn[d][p].queue # <<>>
  PROVE  /\ Len(txn[d][p].queue) = 1 /\ txn[d][p].sent = 1
         /\ Ids(txn[d][p].queue) = {field[d]} /\ Batch(txn[d][p]) = {field[d]}
         /\ field[d] \in Sessions
<1> DEFINE t == txn[d][p]
           q == t.queue
<1>1. /\ t \in Transactions /\ TransactionsOK(t)
      /\ Ids(q) # {} => field[d] \in Sessions
      /\ q \in Seq(Entry) /\ Distinct(q)
  BY QueueOK, FieldsOK DEF TransactionsOK
<1>2. Ids(q) = {field[d]} /\ field[d] \in Sessions
  <2>1. Ids(q) \subseteq {field[d]} /\ Ids(q) # {}
    BY <1>1, IdsNonempty DEF OneAtATime
  <2> QED BY <1>1, <2>1
<1>3. Len(q) = 1
  <2>1. Cardinality(Ids(q)) = Len(q)
    BY <1>1, IdsCount
  <2> QED BY <1>2, <2>1, FS_Singleton
<1>4. t.sent = 1
  BY <1>1, <1>3 DEF TransactionsOK
<1>5. Batch(t) = Ids(q)
  <2>1. DOMAIN q = 1..1
    BY <1>1, <1>3, LenProperties
  <2> QED BY <1>4, <2>1 DEF Batch, Ids
<1> QED BY <1>2, <1>3, <1>4, <1>5

\* So nothing waits behind it for its turn.
LEMMA NoneWaits ==
  ASSUME IInv, NEW d \in Devices, OneAtATime(d), NEW p \in Paths
  PROVE  Waiting(txn[d][p]) = <<>>
<1> DEFINE t == txn[d][p]
<1>1. /\ Waiting(t) \in Seq(Entry) /\ Ids(t.queue) = Batch(t) \cup Ids(Waiting(t))
      /\ Batch(t) \cap Ids(Waiting(t)) = {}
  BY QueueOK, WaitingOK
<1>2. Ids(Waiting(t)) = {}
  <2>1. CASE t.queue = <<>>
    <3>1. Ids(<<>>) = {}
      BY DEF Ids
    <3> QED BY <1>1, <2>1, <3>1
  <2>2. CASE t.queue # <<>>
    BY <1>1, <2>2, OneQueue
  <2> QED BY <2>1, <2>2
<1> QED BY <1>1, <1>2, IdsNonempty

\* The session one run stores.
LEMMA OneSet ==
  ASSUME NEW d \in Devices, NEW v \in Nat, field[d] \in Sessions
  PROVE  LET ws == SessionPuts(d, NumSessions, 1, v) IN
         /\ ws \in Seq(Writes) /\ PutKeys(ws) = {v + 1}
         /\ \A k, s : LastPut(ws, k, s) <=> k = v + 1 /\ s = field[d]
<1> DEFINE ws == SessionPuts(d, NumSessions, 1, v)
<1>1. v # Null /\ v \in Value
  BY ConstantsOK DEF Value
<1>2. ws \in Seq(Writes)
  BY <1>1, SessionPutsOK
<1>3. PutKeys(ws) = (v + 1)..(v + 1)
  BY <1>1, PutKeysSets
<1>4. ws = [i \in 1..1 |-> SessionPut(d, v + i)]
  BY <1>1 DEF SessionPuts
<1>. HIDE DEF ws
<1>5. /\ Len(ws) = 1 /\ ws[1].type = "session" /\ ws[1].key = v + 1 /\ ws[1].s = field[d]
  BY <1>4 DEF SessionPut
<1>6. \A k, s : LastPut(ws, k, s) <=> k = v + 1 /\ s = field[d]
  <2>1. 1..Len(ws) = {1} /\ (1 + 1)..Len(ws) = {}
    BY <1>5
  <2> QED BY <1>5, <2>1 DEF LastPut, LastAt
<1> QED BY <1>2, <1>3, <1>6 DEF ws

-----------------------------------------------------------------------------
(* One phone: every step.                                                  *)

\* What keeps the counter and the sessions kept under its numbers.
LEMMA StoreStep ==
  ASSUME IInv, NEW d \in Devices, StoreInv(d),
         rec'[NumSessions] = rec[NumSessions], counted'[NumSessions] = counted[NumSessions],
         TakenOK(stored', outstanding'[d], answered'[d]),
         \A k \in 1..rec[NumSessions] : \A s : Kept(d, k, s)' <=> Kept(d, k, s),
         NextOK(d)'
  PROVE  StoreInv(d)'
<1>1. \A k \in 1..rec[NumSessions] : \A s \in Sessions :
        Kept(d, k, s)' => s \in counted[NumSessions]
  BY DEF StoreInv
<1>2. \A s \in counted[NumSessions] : \E k \in 1..rec[NumSessions] : Kept(d, k, s)'
  BY DEF StoreInv
<1> QED BY <1>1, <1>2 DEF StoreInv

\* Steps that write nothing and run nothing.
LEMMA StoreQuiet ==
  ASSUME NEW d \in Devices, StoreInv(d),
         UNCHANGED <<stored, outstanding, answered, txn, rec, counted>>,
         field'[d] = field[d] \/ txn[d][NumSessions].queue = <<>>
  PROVE  StoreInv(d)'
<1>1. \A k, s : Kept(d, k, s)' <=> Kept(d, k, s)
  BY DEF Kept
<1>2. NextOK(d)'
  BY <1>1 DEF StoreInv, NextOK
<1> QED BY <1>1, <1>2 DEF StoreInv

\* Taps, reads and the events of the connection leave the counters alone.
LEMMA OneUser ==
  ASSUME Patient, Viewers = {}, IInv, NEW d \in Devices, OneInv(d),
         \/ Start(d) \/ Stop(d) \/ ReadHistory(d) \/ HistoryShown(d) \/ DataUpdate(d) \/ Reconnect(d)
         \/ \E s \in Sessions : Submit(d, s) \/ Decline(d, s)
  PROVE  OneInv(d)'
<1>1. UNCHANGED <<stored, outstanding, answered, txn, rec, counted, faults>>
  BY DEF Start, Stop, ReadHistory, HistoryShown, DataUpdate, Reconnect, Submit, Decline,
         server, client, app
<1>2. /\ popups \in [Devices -> SUBSET Sessions] /\ reading \in [Devices -> SUBSET Sessions]
      /\ field \in [Devices -> Sessions \cup {Null}]
  BY DEF IInv, TypeOK
<1>3. OneAtATime(d)
  BY DEF OneInv
<1>4. OneAtATime(d)' /\ (field'[d] = field[d] \/ txn[d][NumSessions].queue = <<>>)
  <2>1. CASE Start(d)
    <3>1. /\ popups[d] = {} /\ reading[d] = {} /\ \A p \in Paths : txn[d][p].queue = <<>>
          /\ UNCHANGED <<popups, reading, viewing>>
      BY <2>1 DEF Start, Submitting
    <3> QED BY <1>1, <1>3, <3>1 DEF OneAtATime, Ids, Paths
  <2>2. CASE Stop(d)
    <3>1. /\ UNCHANGED <<field, reading, viewing>>
          /\ popups' = [popups EXCEPT ![d] = @ \cup {field[d]}] \/ UNCHANGED popups
      BY <2>2 DEF Stop
    <3> QED BY <1>1, <1>2, <1>3, <3>1 DEF OneAtATime
  <2>3. CASE \E s \in Sessions : Submit(d, s) \/ Decline(d, s)
    <3>1. PICK s \in Sessions : Submit(d, s) \/ Decline(d, s)
      BY <2>3
    <3>2. /\ s \in popups[d] /\ popups' = [popups EXCEPT ![d] = @ \ {s}]
          /\ UNCHANGED <<field, viewing>>
          /\ reading' = [reading EXCEPT ![d] = @ \cup {s}] \/ reading' = reading
      BY <3>1 DEF Submit, Decline
    <3> QED BY <1>1, <1>2, <1>3, <3>2 DEF OneAtATime
  <2>4. CASE ReadHistory(d) \/ HistoryShown(d) \/ DataUpdate(d) \/ Reconnect(d)
    <3>1. UNCHANGED <<popups, reading, field, viewing>>
      BY <1>3, <2>4 DEF ReadHistory, HistoryShown, DataUpdate, Reconnect, OneAtATime, app
    <3> QED BY <1>1, <1>3, <3>1 DEF OneAtATime
  <2> QED BY <2>1, <2>2, <2>3, <2>4
<1>5. faults'.kills = 0 => StoreInv(d)'
  BY <1>1, <1>4, StoreQuiet DEF OneInv
<1> QED BY <1>4, <1>5 DEF OneInv

\* The same field, and no submission but those there were.
LEMMA OneStill ==
  ASSUME NEW d \in Devices, OneAtATime(d), UNCHANGED <<viewing, popups, reading, field>>,
         \A p \in Paths : Ids(txn'[d][p].queue) \subseteq Ids(txn[d][p].queue)
  PROVE  OneAtATime(d)'
BY DEF OneAtATime

\* A session reaches the database.
LEMMA OneServerSet ==
  ASSUME IInv, NEW d \in Devices, OneInv(d), ServerSet(d)
  PROVE  OneInv(d)'
<1> DEFINE ws == outstanding[d]
           n == answered[d]
           w == ws[n + 1]
<1>1. /\ ws \in Seq(Writes) /\ n \in Nat /\ n + 1 \in 1..Len(ws) /\ w.type = "session"
      /\ stored' = [k \in DOMAIN stored \cup {w.key} |->
                      IF k = w.key THEN [s |-> w.s, ended |-> w.ended] ELSE stored[k]]
      /\ answered' = [answered EXCEPT ![d] = n + 1]
      /\ UNCHANGED <<rec, counted, outstanding, txn, faults>>
      /\ UNCHANGED <<viewing, popups, reading, field>>
  <2>1. ws \in Seq(Writes) /\ n \in Nat /\ n < Len(ws)
    BY DEF ServerSet, HasWrite, IInv, TypeOK
  <2>2. Len(ws) \in Nat
    BY <2>1, WritesOK
  <2> QED BY <2>1, <2>2 DEF ServerSet, NextWrite, app
<1>2. OneAtATime(d)'
  BY <1>1, OneStill DEF OneInv
<1>3. ASSUME faults.kills = 0
      PROVE  StoreInv(d)'
  <2>1. StoreInv(d) /\ answered'[d] = n + 1
    BY <1>1, <1>3 DEF OneInv, IInv, TypeOK
  <2>2. /\ DOMAIN stored' = DOMAIN stored \cup {w.key} /\ stored'[w.key].s = w.s
        /\ \A k \in DOMAIN stored \ {w.key} : stored'[k] = stored[k]
    <3>. HIDE DEF w
    <3> QED BY <1>1
  <2>3. TakenOK(stored, ws, n)
    BY <2>1 DEF StoreInv
  <2>4. /\ TakenOK(stored', ws, n + 1)
        /\ \A k, s : Holds(stored', ws, k, s) <=> Holds(stored, ws, k, s)
    <3>1. PICK st : st = stored
      OBVIOUS
    <3>2. PICK st2 : st2 = stored'
      OBVIOUS
    <3>3. /\ ws \in Seq(Writes) /\ n \in Nat /\ n + 1 \in 1..Len(ws)
          /\ TakenOK(st, ws, n) /\ ws[n + 1].type = "session"
          /\ DOMAIN st2 = DOMAIN st \cup {ws[n + 1].key} /\ st2[ws[n + 1].key].s = ws[n + 1].s
          /\ \A k \in DOMAIN st \ {ws[n + 1].key} : st2[k] = st[k]
      BY <1>1, <2>2, <2>3, <3>1, <3>2
    <3>. HIDE DEF ws, n
    <3>4. TakenOK(st2, ws, n + 1) /\ \A k, s : Holds(st2, ws, k, s) <=> Holds(st, ws, k, s)
      BY <3>3, TakenSet
    <3> QED BY <3>1, <3>2, <3>4
  <2>5. \A k, s : Kept(d, k, s)' <=> Kept(d, k, s)
    BY <1>1, <2>4 DEF Kept
  <2>6. NextOK(d)'
    BY <1>1, <2>1, <2>5 DEF StoreInv, NextOK
  <2> QED BY <1>1, <2>1, <2>4, <2>5, <2>6, StoreStep
<1> QED BY <1>1, <1>2, <1>3 DEF OneInv

\* The server answers a write it took: it stays in the database.
LEMMA OneAckSet ==
  ASSUME IInv, NEW d \in Devices, OneInv(d), AckSet(d)
  PROVE  OneInv(d)'
<1> DEFINE ws == outstanding[d]
           n == answered[d]
<1>1. /\ ws \in Seq(Writes) /\ n \in Nat /\ n > 0 /\ n <= Len(ws)
      /\ PutsAgree(ws, n, txn[d])
  BY DEF AckSet, IInv, DeviceOK, PutsAgree, TypeOK
<1>2. ws # <<>> /\ n \in 1..Len(ws)
  <2>1. Len(ws) \in Nat
    BY <1>1, WritesOK
  <2> QED BY <1>1, <2>1, PutsTail
<1>3. /\ outstanding' = [outstanding EXCEPT ![d] = Tail(ws)]
      /\ answered' = [answered EXCEPT ![d] = n - 1]
      /\ UNCHANGED <<rec, counted, stored, txn, faults>>
      /\ UNCHANGED <<viewing, popups, reading, field>>
  BY DEF AckSet, server, app
<1>4. OneAtATime(d)'
  BY <1>3, OneStill DEF OneInv
<1>5. outstanding'[d] = Tail(ws) /\ answered'[d] = n - 1
  BY <1>3 DEF IInv, TypeOK
<1>6. ASSUME faults.kills = 0
      PROVE  StoreInv(d)'
  <2>1. StoreInv(d) /\ TakenOK(stored, ws, n)
    BY <1>6 DEF OneInv, StoreInv
  <2>2. TakenOK(stored, Tail(ws), n - 1)
        /\ \A k, s : Holds(stored, Tail(ws), k, s) <=> Holds(stored, ws, k, s)
    BY <1>1, <1>2, <2>1, TakenTail, HoldsTail
  <2>3. \A k, s : Kept(d, k, s)' <=> Kept(d, k, s)
    BY <1>3, <1>5, <2>2 DEF Kept
  <2>4. NextOK(d)'
    BY <1>3, <2>1, <2>3 DEF StoreInv, NextOK
  <2> QED BY <1>3, <1>5, <2>1, <2>2, <2>3, <2>4, StoreStep
<1> QED BY <1>3, <1>4, <1>6 DEF OneInv

\* A put is answered, and writes follow: what these store counts, else what was kept.
LEMMA AnswerKept ==
  ASSUME IInv, NEW d \in Devices, NEW p \in Paths, StoreInv(d),
         answered[d] > 0, Head(outstanding[d]) = Put(p), NEW q, NEW sets \in Seq(Writes),
         outstanding' = [outstanding EXCEPT ![d] = (Tail(@) \o PutsOf(p, q)) \o sets],
         answered' = [answered EXCEPT ![d] = @ - 1], stored' = stored
  PROVE  /\ TakenOK(stored', outstanding'[d], answered'[d])
         /\ \A k, s : Kept(d, k, s)'
              <=> LastPut(sets, k, s) \/ (k \notin PutKeys(sets) /\ Kept(d, k, s))
<1> DEFINE ws == outstanding[d]
           n == answered[d]
           b == Tail(ws)
           put == PutsOf(p, q)
           bs == b \o put
           vs == bs \o sets
<1>1. /\ ws \in Seq(Writes) /\ n \in Nat /\ n > 0 /\ n <= Len(ws) /\ PutsAgree(ws, n, txn[d])
      /\ TakenOK(stored, ws, n)
  BY DEF IInv, DeviceOK, PutsAgree, TypeOK, StoreInv
<1>2. /\ ws # <<>> /\ n \in 1..Len(ws) /\ ws[1].type # "session"
      /\ b \in Seq(Writes) /\ Len(b) = Len(ws) - 1 /\ Len(ws) \in Nat
  <2>1. ws # <<>> /\ Len(ws) \in Nat
    BY <1>1, PutsTail, WritesOK
  <2>2. b \in Seq(Writes) /\ Len(b) = Len(ws) - 1 /\ ws[1] = Put(p)
    BY <2>1, <1>1, TailOK
  <2> QED BY <1>1, <2>1, <2>2, PutOK
<1>3. put \in Seq(Writes) /\ PutKeys(put) = {}
  BY PutsOfOK, PutKeysNone
<1>4. /\ TakenOK(stored, b, n - 1)
      /\ \A k, s : Holds(stored, b, k, s) <=> Holds(stored, ws, k, s)
  BY <1>1, <1>2, TakenTail, HoldsTail
<1>5. n - 1 \in Nat /\ n - 1 <= Len(b)
  BY <1>1, <1>2
<1>. HIDE DEF ws, n, b, put
<1>6. /\ bs \in Seq(Writes) /\ n - 1 <= Len(bs) /\ TakenOK(stored, bs, n - 1)
      /\ \A k, s : Holds(stored, bs, k, s) <=> Holds(stored, b, k, s)
  <2>1. bs \in Seq(Writes) /\ Len(bs) = Len(b) + Len(put) /\ Len(b) \in Nat /\ Len(put) \in Nat
    BY <1>2, <1>3, ConcatOK, WritesOK
  <2>2. TakenOK(stored, bs, n - 1)
    BY <1>2, <1>3, <1>4, <1>5, TakenConcat
  <2>3. \A k, s : Holds(stored, bs, k, s) <=> Holds(stored, b, k, s)
    BY <1>2, <1>3, HoldsMore
  <2> QED BY <1>5, <2>1, <2>2, <2>3
<1>. HIDE DEF bs
<1>7. TakenOK(stored, vs, n - 1)
  BY <1>5, <1>6, TakenConcat
<1>8. \A k, s : Holds(stored, vs, k, s)
        <=> LastPut(sets, k, s) \/ (k \notin PutKeys(sets) /\ Holds(stored, bs, k, s))
  BY <1>6, HoldsConcat
<1>9. outstanding'[d] = vs /\ answered'[d] = n - 1
  BY DEF IInv, TypeOK, vs, bs, b, put, ws, n
<1>. HIDE DEF vs
<1>10. \A k, s : Kept(d, k, s)' <=> Holds(stored, vs, k, s)
  BY <1>9 DEF Kept
<1>11. \A k, s : Kept(d, k, s) <=> Holds(stored, ws, k, s)
  BY DEF Kept, ws
<1> QED BY <1>4, <1>6, <1>7, <1>8, <1>9, <1>10, <1>11

\* "ok" for a put: nothing waits, so no number is given and no session written.
LEMMA OneOk ==
  ASSUME IInv, NEW d \in Devices, OneInv(d), NEW p \in Paths, TransactionOk(d, p)
  PROVE  OneInv(d)'
<1> DEFINE t == txn[d][p]
           ws == outstanding[d]
<1>1. OneAtATime(d) /\ Waiting(t) = <<>>
  BY NoneWaits DEF OneInv
<1>2. /\ answered[d] > 0 /\ Head(ws) = Put(p)
      /\ txn' = [txn EXCEPT ![d][p] = Idle]
      /\ outstanding' = [outstanding EXCEPT ![d] = Tail(@) \o PutsOf(p, <<>>)]
      /\ answered' = [answered EXCEPT ![d] = @ - 1]
      /\ UNCHANGED <<rec, stored, counted, faults>>
      /\ UNCHANGED <<viewing, popups, reading, field>>
  BY <1>1 DEF TransactionOk, server, app
<1>3. /\ txn'[d][p] = Idle /\ \A o \in Paths \ {p} : txn'[d][o] = txn[d][o]
  BY <1>2 DEF IInv, TypeOK
<1>4. OneAtATime(d)'
  <2>1. Idle.queue = <<>> /\ Ids(<<>>) = {}
    BY DEF Idle, Ids
  <2>2. \A o \in Paths : Ids(txn'[d][o].queue) \subseteq Ids(txn[d][o].queue)
    BY <1>3, <2>1
  <2> QED BY <1>1, <1>2, <2>2, OneStill
<1>5. ASSUME faults.kills = 0
      PROVE  StoreInv(d)'
  <2>1. StoreInv(d)
    BY <1>5 DEF OneInv
  <2>2. outstanding' = [outstanding EXCEPT ![d] = (Tail(@) \o PutsOf(p, <<>>)) \o <<>>]
    <3>1. Tail(ws) \in Seq(Writes)
      <4>1. ws \in Seq(Writes) /\ answered[d] \in Nat /\ PutsAgree(ws, answered[d], txn[d])
        BY DEF IInv, DeviceOK, TypeOK
      <4> QED BY <1>2, <4>1, PutsTail
    <3>2. Tail(ws) \o PutsOf(p, <<>>) \in Seq(Writes)
      BY <3>1, PutsOfOK, ConcatOK
    <3>3. (Tail(ws) \o PutsOf(p, <<>>)) \o <<>> = Tail(ws) \o PutsOf(p, <<>>)
      BY <3>2, ConcatEmptySeq
    <3> QED BY <1>2, <3>3
  <2>3. <<>> \in Seq(Writes) /\ PutKeys(<<>>) = {}
    BY EmptySeq, PutKeysNone
  <2>4. /\ TakenOK(stored', outstanding'[d], answered'[d])
        /\ \A k, s : Kept(d, k, s)'
             <=> LastPut(<<>>, k, s) \/ (k \notin PutKeys(<<>>) /\ Kept(d, k, s))
    BY <1>2, <2>1, <2>2, <2>3, AnswerKept
  <2>5. \A k, s : Kept(d, k, s)' <=> Kept(d, k, s)
    BY <2>3, <2>4, LastPutKey
  <2>6. NextOK(d)'
    <3>1. CASE p = NumSessions
      <4>1. Idle.queue = <<>> /\ Idle.reply = "none"
        BY DEF Idle
      <4> QED BY <1>3, <3>1, <4>1 DEF NextOK
    <3>2. CASE p # NumSessions
      <4>1. txn'[d][NumSessions] = txn[d][NumSessions]
        BY <1>3, <3>2 DEF Paths
      <4> QED BY <1>2, <2>1, <2>5, <4>1 DEF StoreInv, NextOK
    <3> QED BY <3>1, <3>2
  <2> QED BY <1>2, <2>1, <2>4, <2>5, <2>6, StoreStep
<1> QED BY <1>2, <1>4, <1>5 DEF OneInv

\* "datastale" for a put: the function runs again on the value the server has, and its
\* session goes under the next number, behind what was written for the stale one.
LEMMA OneStale ==
  ASSUME IInv, NEW d \in Devices, OneInv(d), NEW p \in Paths, TransactionStale(d, p)
  PROVE  OneInv(d)'
<1> DEFINE t == txn[d][p]
           q == t.queue
           x == Cardinality({i \in DOMAIN q : q[i].tries >= MaxRetries})
           again == SubSeq(q, x + 1, Len(q))
           u == RunAll(p, again, t.now)
           sets == SessionPuts(d, p, Len(again), t.now)
<1>1. /\ answered[d] > 0 /\ Head(outstanding[d]) = Put(p) /\ t.reply = "datastale"
      /\ txn' = [txn EXCEPT ![d][p] = u]
      /\ outstanding' = [outstanding EXCEPT ![d] = (Tail(@) \o PutsOf(p, again)) \o sets]
      /\ answered' = [answered EXCEPT ![d] = @ - 1]
      /\ UNCHANGED <<rec, stored, counted, faults>>
      /\ UNCHANGED <<viewing, popups, reading, field>>
  BY DEF TransactionStale, server, app
<1>2. t \in Transactions /\ TransactionsOK(t) /\ t.now \in Value /\ q # <<>>
  BY <1>1, QueueOK, FieldsOK, HeadPut
<1>3. /\ OneAtATime(d) /\ Len(q) = 1 /\ Ids(q) = {field[d]} /\ field[d] \in Sessions
  BY <1>2, OneQueue DEF OneInv
<1>4. /\ again \in Seq(Entry) /\ Distinct(again) /\ Ids(again) \subseteq Ids(q)
  BY <1>2, AgainOK
<1>5. Len(again) = 0 \/ Len(again) = 1
  <2>1. Cardinality(Ids(again)) = Len(again) /\ Len(again) \in Nat
    BY <1>4, IdsCount
  <2>2. Ids(again) = {} \/ Ids(again) = {field[d]}
    BY <1>3, <1>4
  <2> QED BY <2>1, <2>2, FS_Singleton, FS_EmptySet
<1>. HIDE DEF x, again
<1>6. /\ Ids(u.queue) = Ids(again) /\ (u.queue # <<>> => again # <<>> /\ u.base = t.now)
      /\ u.reply = "none"
  <2>1. Ids(u.queue) = Ids(again)
    BY <1>2, <1>4, RunAllOK
  <2>2. CASE again = <<>>
    BY <2>1, <2>2 DEF RunAll, Idle
  <2>3. CASE again # <<>>
    BY <2>1, <2>3 DEF RunAll, Sent
  <2> QED BY <2>2, <2>3
<1>. HIDE DEF u
<1>7. /\ txn'[d][p] = u /\ \A o \in Paths \ {p} : txn'[d][o] = txn[d][o]
  BY <1>1 DEF IInv, TypeOK
<1>8. OneAtATime(d)'
  <2>1. \A o \in Paths : Ids(txn'[d][o].queue) \subseteq Ids(txn[d][o].queue)
    BY <1>4, <1>6, <1>7
  <2> QED BY <1>1, <1>3, <2>1, OneStill
<1>9. ASSUME faults.kills = 0
      PROVE  StoreInv(d)'
  <2>1. StoreInv(d)
    BY <1>9 DEF OneInv
  <2>2. sets \in Seq(Writes)
    BY <1>2, <1>3, <1>5, SessionPutsOK
  <2>3. /\ TakenOK(stored', outstanding'[d], answered'[d])
        /\ \A k, s : Kept(d, k, s)'
             <=> LastPut(sets, k, s) \/ (k \notin PutKeys(sets) /\ Kept(d, k, s))
    BY <1>1, <2>1, <2>2, AnswerKept
  <2>4. CASE p # NumSessions \/ Len(again) = 0
    <3>1. PutKeys(sets) = {}
      <4>1. PICK m \in Nat : m = Len(again)
        BY <1>5
      <4>2. PICK v \in Value : v = t.now
        BY <1>2
      <4>3. PutKeys(SessionPuts(d, p, m, v))
              = IF p = NumSessions /\ v # Null THEN (v + 1)..(v + m) ELSE {}
        BY PutKeysSets
      <4>4. \A w \in Nat : (w + 1)..(w + 0) = {}
        OBVIOUS
      <4> QED BY <2>4, <4>1, <4>2, <4>3, <4>4 DEF Value
    <3>2. \A k, s : Kept(d, k, s)' <=> Kept(d, k, s)
      BY <2>2, <2>3, <3>1, LastPutKey
    <3>3. NextOK(d)'
      <4>1. CASE p # NumSessions
        <5>1. txn'[d][NumSessions] = txn[d][NumSessions]
          BY <1>7, <4>1 DEF Paths
        <5> QED BY <1>1, <2>1, <3>2, <5>1 DEF StoreInv, NextOK
      <4>2. CASE p = NumSessions
        <5>1. again = <<>>
          BY <1>4, <2>4, <4>2, EmptySeq
        <5> QED BY <1>6, <1>7, <4>2, <5>1 DEF NextOK
      <4> QED BY <4>1, <4>2
    <3> QED BY <1>1, <2>1, <2>3, <3>2, <3>3, StoreStep
  <2>5. CASE p = NumSessions /\ Len(again) = 1
    <3> DEFINE n == rec[NumSessions]
    <3>1. t.now = n /\ n \in Nat
      BY <1>1, <2>1, <2>5 DEF StoreInv, NextOK, IInv, TypeOK, Paths
    <3>2. PutKeys(sets) = {n + 1} /\ \A k, s : LastPut(sets, k, s) <=> k = n + 1 /\ s = field[d]
      BY <1>3, <2>5, <3>1, OneSet
    <3>3. \A k \in 1..n : k # n + 1
      BY <3>1
    <3>4. \A k \in 1..n : \A s : Kept(d, k, s)' <=> Kept(d, k, s)
      BY <2>3, <3>2, <3>3
    <3>5. \A k, s : k = n + 1 /\ s = field[d] => Kept(d, k, s)'
      BY <2>3, <3>2
    <3>6. NextOK(d)'
      <4>1. txn'[d][NumSessions] = u /\ rec'[NumSessions] = n /\ field' = field
        BY <1>1, <1>7, <2>5
      <4>2. u.queue # <<>> => u.base = n
        BY <1>6, <3>1
      <4>3. \A k, s : Kept(d, k, s)' <=> Holds(stored', outstanding'[d], k, s)
        BY DEF Kept
      <4> QED BY <1>6, <3>5, <4>1, <4>2, <4>3 DEF NextOK, Kept
    <3> QED BY <1>1, <2>1, <2>3, <3>4, <3>6, StoreStep
  <2> QED BY <1>5, <2>4, <2>5
<1> QED BY <1>1, <1>8, <1>9 DEF OneInv

\* An accepted put counts the one session of its batch, which is kept under the
\* number it makes the last.
LEMMA OneServerPut ==
  ASSUME IInv, ExactInv, NEW d \in Devices, OneInv(d), NEW p \in Paths,
         ServerCompareAndPut(d, p)
  PROVE  OneInv(d)'
<1> DEFINE t == txn[d][p]
           ws == outstanding[d]
           n == answered[d]
           ok == t.base = rec[p]
           c == rec[NumSessions]
           u(r, v) == [t EXCEPT !.reply = r, !.now = v]
<1>1. /\ t \in Transactions /\ t.reply = "none" /\ t.sent > 0 /\ Batch(t) # {}
      /\ Batch(t) \subseteq Ids(t.queue)
      /\ ok => t.val = rec[p] + Amount(p, Batch(t))
  BY ServerEnters DEF ExactInv
<1>2. /\ ws \in Seq(Writes) /\ n \in Nat /\ n + 1 \in 1..Len(ws) /\ ws[n + 1] = Put(p)
  <2>1. ws \in Seq(Writes) /\ n \in Nat /\ n < Len(ws)
    BY DEF ServerCompareAndPut, HasWrite, IInv, TypeOK
  <2>2. Len(ws) \in Nat
    BY <2>1, WritesOK
  <2> QED BY <2>1, <2>2 DEF ServerCompareAndPut, NextWrite
<1>3. /\ rec' = IF ok THEN [rec EXCEPT ![p] = t.val] ELSE rec
      /\ counted' = IF ok THEN [counted EXCEPT ![p] = @ \cup Batch(t)] ELSE counted
      /\ txn' = [txn EXCEPT ![d][p] = u(IF ok THEN "ok" ELSE "datastale", rec'[p])]
      /\ answered' = [answered EXCEPT ![d] = n + 1]
      /\ UNCHANGED <<stored, outstanding, faults>>
      /\ UNCHANGED <<viewing, popups, reading, field>>
  BY DEF ServerCompareAndPut, Accepts, app
<1>4. \A r, v : /\ u(r, v).queue = t.queue /\ u(r, v).base = t.base
                /\ u(r, v).reply = r /\ u(r, v).now = v
  BY <1>1 DEF Transactions
<1>. HIDE DEF u
<1>5. /\ answered'[d] = n + 1
      /\ txn'[d][p] = u(IF ok THEN "ok" ELSE "datastale", rec'[p])
      /\ \A o \in Paths \ {p} :
           txn'[d][o] = txn[d][o] /\ rec'[o] = rec[o] /\ counted'[o] = counted[o]
      /\ rec'[p] = IF ok THEN t.val ELSE rec[p]
      /\ counted'[p] = IF ok THEN counted[p] \cup Batch(t) ELSE counted[p]
  <2>1. /\ answered \in [Devices -> Nat] /\ rec \in [Paths -> Nat]
        /\ counted \in [Paths -> SUBSET Sessions] /\ txn \in [Devices -> [Paths -> Transactions]]
    BY DEF IInv, TypeOK
  <2>. HIDE DEF t, n, ok
  <2>2. answered'[d] = n + 1
        /\ txn'[d][p] = u(IF ok THEN "ok" ELSE "datastale", rec'[p])
        /\ \A o \in Paths \ {p} : txn'[d][o] = txn[d][o]
    BY <1>3, <2>1
  <2>3. CASE ok
    BY <1>3, <2>1, <2>2, <2>3
  <2>4. CASE ~ok
    BY <1>3, <2>1, <2>2, <2>4
  <2> QED BY <2>3, <2>4
<1>6. OneAtATime(d)'
  <2>1. \A o \in Paths : Ids(txn'[d][o].queue) \subseteq Ids(txn[d][o].queue)
    BY <1>4, <1>5
  <2> QED BY <1>3, <2>1, OneStill DEF OneInv
<1>7. NumSessions \in Paths /\ c \in Nat
  BY DEF Paths, IInv, TypeOK
<1>8. ASSUME faults.kills = 0
      PROVE  StoreInv(d)'
  <2>1. StoreInv(d) /\ OneAtATime(d)
    BY <1>8 DEF OneInv
  <2>2. TakenOK(stored', outstanding'[d], answered'[d])
    <3>1. TakenOK(stored, ws, n) /\ ws[n + 1].type # "session"
      BY <1>2, <2>1, PutOK DEF StoreInv
    <3>2. TakenOK(stored, ws, n + 1)
      BY <1>2, <3>1, TakenPut
    <3> QED BY <1>3, <1>5, <3>2
  <2>3. \A k, s : Kept(d, k, s)' <=> Kept(d, k, s)
    BY <1>3 DEF Kept
  <2>4. CASE p # NumSessions
    <3>1. /\ txn'[d][NumSessions] = txn[d][NumSessions] /\ rec'[NumSessions] = c
          /\ counted'[NumSessions] = counted[NumSessions]
      BY <1>5, <1>7, <2>4
    <3>2. NextOK(d)'
      BY <1>3, <2>1, <2>3, <3>1 DEF StoreInv, NextOK
    <3> QED BY <2>1, <2>2, <2>3, <3>1, <3>2, StoreStep
  <2>5. CASE p = NumSessions /\ ~ok
    <3>1. /\ rec'[NumSessions] = c /\ counted'[NumSessions] = counted[NumSessions]
          /\ txn'[d][NumSessions] = u("datastale", c)
      BY <1>5, <2>5
    <3>2. u("datastale", c).base = t.base /\ u("datastale", c).now = c
          /\ u("datastale", c).queue = t.queue
      BY <1>4
    <3>3. t.queue # <<>> /\ t.base # Null => t.base = c
      BY <1>1, <2>1, <2>5 DEF StoreInv, NextOK
    <3>4. ~(t.queue # <<>> /\ t.base # Null)
      BY <2>5, <3>3
    <3>5. NextOK(d)'
      BY <3>1, <3>2, <3>4 DEF NextOK
    <3> QED BY <2>1, <2>2, <2>3, <3>1, <3>5, StoreStep
  <2>6. CASE p = NumSessions /\ ok
    <3>1. t.queue # <<>>
      BY <1>1 DEF Ids
    <3>2. Batch(t) = {field[d]} /\ field[d] \in Sessions
      BY <2>1, <3>1, OneQueue
    <3>3. t.val = c + 1
      BY <1>1, <2>6, <3>2, FS_Singleton DEF Amount
    <3>4. rec'[NumSessions] = c + 1 /\ counted'[NumSessions] = counted[NumSessions] \cup {field[d]}
      BY <1>5, <2>6, <3>2, <3>3
    <3>5. Kept(d, c + 1, field[d])
      <4>1. c # Null
        BY <1>7, ConstantsOK
      <4>2. t.queue # <<>> /\ t.reply # "ok" /\ t.base # Null
        BY <1>1, <2>6, <3>1, <4>1
      <4> QED BY <2>1, <2>6, <4>2 DEF StoreInv, NextOK
    <3>6. ASSUME NEW k \in 1..(c + 1), NEW s \in Sessions, Kept(d, k, s)
          PROVE  s \in counted'[NumSessions]
      <4>1. CASE k \in 1..c
        BY <2>1, <3>4, <3>6, <4>1 DEF StoreInv
      <4>2. CASE k = c + 1
        <5>1. s = field[d]
          BY <1>2, <3>5, <3>6, <4>2, HoldsUnique DEF Kept
        <5> QED BY <3>4, <5>1
      <4> QED BY <1>7, <4>1, <4>2
    <3>7. ASSUME NEW s \in counted'[NumSessions]
          PROVE  \E k \in 1..(c + 1) : Kept(d, k, s)
      <4>1. CASE s \in counted[NumSessions]
        <5>1. PICK k \in 1..c : Kept(d, k, s)
          BY <2>1, <4>1 DEF StoreInv
        <5>2. k \in 1..(c + 1)
          BY <1>7
        <5> QED BY <5>1, <5>2
      <4>2. CASE s = field[d]
        <5>1. c + 1 \in 1..(c + 1)
          BY <1>7
        <5> QED BY <3>5, <4>2, <5>1
      <4> QED BY <3>4, <4>1, <4>2
    <3>8. NextOK(d)'
      <4>1. txn'[d][NumSessions].reply = "ok"
        BY <1>4, <1>5, <2>6
      <4> QED BY <4>1 DEF NextOK
    <3>. HIDE DEF c
    <3> QED BY <2>2, <2>3, <3>4, <3>6, <3>7, <3>8 DEF StoreInv
  <2> QED BY <2>4, <2>5, <2>6
<1> QED BY <1>3, <1>6, <1>8 DEF OneInv

\* A lost connection gives the transactions up; the session's write stays.
LEMMA OneDisconnect ==
  ASSUME IInv, NEW d \in Devices, OneInv(d), Disconnect(d)
  PROVE  OneInv(d)'
<1> DEFINE v == cache[d][NumSessions]
           ws == outstanding[d]
           f == [p \in Paths |-> Waiting(txn[d][p])]
           w0 == WithoutPuts(ws)
           put1 == PutsOf(NumSessions, <<>>)
           put2 == PutsOf(TotalHours, <<>>)
           sets == SessionPuts(d, NumSessions, 0, v)
           vs == ((w0 \o put1) \o put2) \o sets
<1>1. NumSessions \in Paths /\ TotalHours \in Paths
  BY DEF Paths
<1>2. f[NumSessions] = <<>> /\ f[TotalHours] = <<>> /\ \A p \in Paths : f[p] = <<>>
  BY <1>1, NoneWaits DEF OneInv
<1>3. /\ txn' = [txn EXCEPT ![d] = [p \in Paths |-> RunAll(p, f[p], cache[d][p])]]
      /\ outstanding' = [outstanding EXCEPT ![d] =
           ((w0 \o PutsOf(NumSessions, f[NumSessions])) \o PutsOf(TotalHours, f[TotalHours]))
             \o SessionPuts(d, NumSessions, Len(f[NumSessions]), v)]
      /\ answered' = [answered EXCEPT ![d] = 0]
      /\ faults' = [faults EXCEPT !.disconnects = @ + 1]
      /\ UNCHANGED <<rec, stored, counted>>
      /\ UNCHANGED <<viewing, popups, reading, field>>
  BY DEF Disconnect, server, app
<1>. HIDE DEF f
<1>4. outstanding' = [outstanding EXCEPT ![d] = vs]
  <2>1. Len(<<>>) = 0
    OBVIOUS
  <2> QED BY <1>2, <1>3, <2>1
<1>5. \A p \in Paths : txn'[d][p] = Idle
  <2>1. \A p \in Paths : RunAll(p, f[p], cache[d][p]) = Idle
    BY <1>2 DEF RunAll
  <2> QED BY <1>3, <2>1 DEF IInv, TypeOK
<1>6. OneAtATime(d)'
  <2>1. Idle.queue = <<>> /\ Ids(<<>>) = {}
    BY DEF Idle, Ids
  <2>2. \A p \in Paths : Ids(txn'[d][p].queue) \subseteq Ids(txn[d][p].queue)
    BY <1>5, <2>1
  <2> QED BY <1>3, <2>2, OneStill DEF OneInv
<1>7. faults'.kills = faults.kills
  BY <1>3, FaultsOK DEF IInv, TypeOK
<1>8. ASSUME faults.kills = 0
      PROVE  StoreInv(d)'
  <2>1. StoreInv(d)
    BY <1>8 DEF OneInv
  <2>2. ws \in Seq(Writes) /\ (\A p \in Paths : Unique(p, ws)) /\ v \in Value
    BY <1>1 DEF IInv, DeviceOK, PutsAgree, TypeOK
  <2>3. w0 \in Seq(Writes) /\ \A k, s : Holds(stored, w0, k, s) <=> Holds(stored, ws, k, s)
    BY <2>2, WithoutPutsOK, HoldsWithout
  <2>4. /\ put1 \in Seq(Writes) /\ PutKeys(put1) = {} /\ put2 \in Seq(Writes) /\ PutKeys(put2) = {}
    BY <1>1, PutsOfOK, PutKeysNone
  <2>5. sets \in Seq(Writes) /\ PutKeys(sets) = {}
    <3>1. sets \in Seq(Writes)
      <4>1. PICK n \in Nat : n = 0
        OBVIOUS
      <4>2. n > 0 => field[d] \in Sessions
        BY <4>1
      <4>3. SessionPuts(d, NumSessions, n, v) \in Seq(Writes)
        BY <2>2, <4>2, SessionPutsOK
      <4> QED BY <4>1, <4>3
    <3>2. PutKeys(sets) = IF v # Null THEN (v + 1)..(v + 0) ELSE {}
      BY <2>2, PutKeysSets
    <3>3. \A w \in Nat : (w + 1)..(w + 0) = {}
      OBVIOUS
    <3> QED BY <2>2, <3>1, <3>2, <3>3 DEF Value
  <2>. HIDE DEF w0, put1, put2, sets
  <2> DEFINE w1 == w0 \o put1
             w2 == w1 \o put2
  <2>6. w1 \in Seq(Writes) /\ \A k, s : Holds(stored, w1, k, s) <=> Holds(stored, w0, k, s)
    BY <2>3, <2>4, ConcatOK, HoldsMore
  <2>. HIDE DEF w1
  <2>7. w2 \in Seq(Writes) /\ \A k, s : Holds(stored, w2, k, s) <=> Holds(stored, w1, k, s)
    BY <2>4, <2>6, ConcatOK, HoldsMore
  <2>. HIDE DEF w2
  <2>8. \A k, s : Holds(stored, w2 \o sets, k, s) <=> Holds(stored, w2, k, s)
    BY <2>5, <2>7, HoldsMore
  <2>9. vs = w2 \o sets
    BY DEF w1, w2
  <2>. HIDE DEF vs
  <2>10. outstanding'[d] = vs /\ answered'[d] = 0
    BY <1>3, <1>4 DEF IInv, TypeOK
  <2>11. \A k, s : Kept(d, k, s)' <=> Holds(stored, vs, k, s)
    BY <1>3, <2>10 DEF Kept
  <2>12. \A k, s : Kept(d, k, s)' <=> Kept(d, k, s)
    BY <2>3, <2>6, <2>7, <2>8, <2>9, <2>11 DEF Kept
  <2>13. TakenOK(stored', outstanding'[d], answered'[d])
    BY <2>10 DEF TakenOK
  <2>14. NextOK(d)'
    <3>1. Idle.queue = <<>> /\ Idle.reply = "none"
      BY DEF Idle
    <3> QED BY <1>1, <1>5, <3>1 DEF NextOK
  <2> QED BY <1>3, <2>1, <2>12, <2>13, <2>14, StoreStep
<1> QED BY <1>6, <1>7, <1>8 DEF OneInv

\* A killed process forgets what it asked, read for and counted.
LEMMA OneKill ==
  ASSUME IInv, NEW d \in Devices, Kill(d)
  PROVE  OneInv(d)'
<1>1. /\ txn' = [txn EXCEPT ![d] = [p \in Paths |-> Idle]]
      /\ popups' = [popups EXCEPT ![d] = {}]
      /\ reading' = [reading EXCEPT ![d] = {}]
      /\ viewing' = [viewing EXCEPT ![d] = FALSE]
      /\ faults' = [faults EXCEPT !.kills = @ + 1]
  BY DEF Kill
<1>2. /\ popups'[d] = {} /\ reading'[d] = {} /\ viewing'[d] = FALSE
      /\ \A p \in Paths : txn'[d][p] = Idle
  BY <1>1 DEF IInv, TypeOK
<1>3. Idle.queue = <<>> /\ Ids(<<>>) = {}
  BY DEF Idle, Ids
<1>4. faults'.kills # 0
  <2>1. faults.kills \in Nat /\ faults'.kills = faults.kills + 1
    BY <1>1 DEF IInv, TypeOK
  <2> QED BY <2>1
<1> QED BY <1>2, <1>3, <1>4 DEF OneInv, OneAtATime

\* The one submission that was read for starts: its function finds no value, stores
\* nothing, and will run again.
LEMMA OneStart ==
  ASSUME IInv, NEW d \in Devices, OneInv(d), NEW s \in Sessions, StartTransactions(d, s)
  PROVE  OneInv(d)'
<1> DEFINE N == NumSessions
           ws == outstanding[d]
           new(p) == Sent(p, <<NewEntry(s)>>, Null)
           num == <<Put(N)>>
           hours == <<Put(TotalHours)>>
<1>1. N \in Paths /\ TotalHours \in Paths
  BY DEF Paths
<1>2. s \in reading[d] /\ reading[d] = {s} /\ ~viewing[d] /\ field[d] = s /\ popups[d] = {}
  <2>1. s \in reading[d] /\ OneAtATime(d) /\ popups[d] \cap reading[d] = {}
    BY DEF StartTransactions, OneInv, IInv, DeviceOK, OnceOK
  <2> QED BY <2>1 DEF OneAtATime
<1>3. \A p \in Paths : txn[d][p].queue = <<>>
  <2> SUFFICES ASSUME NEW p \in Paths, txn[d][p].queue # <<>>
               PROVE  FALSE
    OBVIOUS
  <2>1. s \in Ids(txn[d][p].queue)
    BY <1>2, OneQueue DEF OneInv
  <2> QED BY <1>2, <2>1 DEF IInv, DeviceOK, OnceOK, Asked
<1>4. \A p \in Paths : Latest(d, p, viewing[d] \/ reading[d] # {s}) = Null
  BY <1>2, <1>3 DEF Latest
<1>5. SessionPuts(d, N, 1, Null) = <<>>
  BY DEF SessionPuts
<1>6. /\ txn' = [txn EXCEPT ![d] = [p \in Paths |-> new(p)]]
      /\ reading' = [reading EXCEPT ![d] = @ \ {s}]
      /\ \/ outstanding' = [outstanding EXCEPT ![d] = ((ws \o num) \o <<>>) \o hours]
         \/ outstanding' = [outstanding EXCEPT ![d] = ((ws \o num) \o hours) \o <<>>]
      /\ UNCHANGED <<rec, stored, counted, answered, faults>>
      /\ UNCHANGED <<viewing, popups, field>>
  <2> DEFINE in(p) == Latest(d, p, viewing[d] \/ reading[d] # {s})
  <2>1. /\ txn' = [txn EXCEPT ![d] = [p \in Paths |->
               IF txn[d][p].queue = <<>> THEN Sent(p, <<NewEntry(s)>>, in(p))
               ELSE Enqueue(p, txn[d][p], s)]]
        /\ reading' = [reading EXCEPT ![d] = @ \ {s}]
        /\ UNCHANGED <<rec, stored, counted, answered, faults, viewing, popups, field>>
    BY DEF StartTransactions, server
  <2>2. \/ outstanding' = [outstanding EXCEPT ![d] =
             ((ws \o (IF txn[d][N].queue = <<>> THEN num ELSE <<>>))
               \o SessionPuts(d, N, 1, in(N)))
               \o (IF txn[d][TotalHours].queue = <<>> THEN hours ELSE <<>>)]
        \/ outstanding' = [outstanding EXCEPT ![d] =
             ((ws \o (IF txn[d][N].queue = <<>> THEN num ELSE <<>>))
               \o (IF txn[d][TotalHours].queue = <<>> THEN hours ELSE <<>>))
               \o SessionPuts(d, N, 1, in(N))]
    BY DEF StartTransactions
  <2>. HIDE DEF in, num, hours, N
  <2>3. \A p \in Paths : in(p) = Null
    BY <1>4 DEF in
  <2>4. [p \in Paths |-> IF txn[d][p].queue = <<>> THEN Sent(p, <<NewEntry(s)>>, in(p))
                         ELSE Enqueue(p, txn[d][p], s)]
          = [p \in Paths |-> new(p)]
    BY <1>3, <2>3
  <2>5. \/ outstanding' = [outstanding EXCEPT ![d] = ((ws \o num) \o <<>>) \o hours]
        \/ outstanding' = [outstanding EXCEPT ![d] = ((ws \o num) \o hours) \o <<>>]
    BY <1>1, <1>3, <1>5, <2>2, <2>3
  <2> QED BY <2>1, <2>4, <2>5
<1>7. /\ reading'[d] = {} /\ \A p \in Paths : txn'[d][p] = new(p)
  BY <1>2, <1>6 DEF IInv, TypeOK
<1>8. \A p \in Paths : /\ Ids(new(p).queue) = {s} /\ new(p).base = Null /\ new(p).reply = "none"
  <2> DEFINE q == <<NewEntry(s)>>
  <2>1. q \in Seq(Entry) /\ Distinct(q) /\ q # <<>> /\ Ids(q) = {s}
    <3>1. NewEntry(s) \in Entry /\ NewEntry(s).id = s
      BY DEF NewEntry, Entry
    <3>2. q \in Seq(Entry) /\ DOMAIN q = {1} /\ q[1] = NewEntry(s)
      BY <3>1
    <3>3. q # <<>>
      OBVIOUS
    <3>. HIDE DEF q
    <3> QED BY <3>1, <3>2, <3>3 DEF Distinct, Ids
  <2>2. Null \in Value
    BY DEF Value
  <2>. HIDE DEF q
  <2>3. \A p \in Paths : RunAll(p, q, Null) = Sent(p, q, Null)
    BY <2>1 DEF RunAll
  <2>4. \A p \in Paths : Ids(Sent(p, q, Null).queue) = {s}
    BY <2>1, <2>2, <2>3, RunAllOK
  <2>5. \A p \in Paths : Sent(p, q, Null).base = Null /\ Sent(p, q, Null).reply = "none"
    BY DEF Sent
  <2> QED BY <2>4, <2>5 DEF q
<1>. HIDE DEF new
<1>9. OneAtATime(d)'
  BY <1>2, <1>6, <1>7, <1>8 DEF OneAtATime
<1>10. ASSUME faults.kills = 0
       PROVE  StoreInv(d)'
  <2>1. StoreInv(d)
    BY <1>10 DEF OneInv
  <2>2. /\ ws \in Seq(Writes) /\ answered[d] \in Nat /\ answered[d] <= Len(ws)
    BY DEF IInv, DeviceOK, PutsAgree, TypeOK
  <2>3. TakenOK(stored, ws, answered[d])
    BY <2>1 DEF StoreInv
  <2>4. /\ num \in Seq(Writes) /\ PutKeys(num) = {} /\ hours \in Seq(Writes) /\ PutKeys(hours) = {}
        /\ <<>> \in Seq(Writes)
    BY <1>1, PutOK, PutKeysNone, EmptySeq
  <2>. HIDE DEF num, hours
  <2> DEFINE vs == (ws \o num) \o hours
  <2>5. vs \in Seq(Writes) /\ ws \o num \in Seq(Writes)
    BY <2>2, <2>4, ConcatOK
  <2>6. outstanding'[d] = vs
    <3>1. ((ws \o num) \o <<>>) \o hours = vs /\ ((ws \o num) \o hours) \o <<>> = vs
      BY <2>5, ConcatEmptySeq
    <3>2. outstanding' = [outstanding EXCEPT ![d] = vs]
      BY <1>6, <3>1
    <3> QED BY <3>2 DEF IInv, TypeOK
  <2> DEFINE w == ws \o num
  <2>7. /\ w \in Seq(Writes) /\ answered[d] <= Len(w) /\ TakenOK(stored, w, answered[d])
        /\ \A k, r : Holds(stored, w, k, r) <=> Holds(stored, ws, k, r)
    <3>1. Len(w) = Len(ws) + Len(num) /\ Len(ws) \in Nat /\ Len(num) \in Nat
      BY <2>2, <2>4, ConcatOK, WritesOK
    <3>2. answered[d] <= Len(w)
      BY <2>2, <3>1
    <3> QED BY <2>2, <2>3, <2>4, <2>5, <3>2, TakenConcat, HoldsMore
  <2>8. vs = w \o hours
    OBVIOUS
  <2>. HIDE DEF vs, w
  <2>9. /\ TakenOK(stored, vs, answered[d])
        /\ \A k, r : Holds(stored, vs, k, r) <=> Holds(stored, w, k, r)
    BY <2>2, <2>4, <2>7, <2>8, TakenConcat, HoldsMore
  <2>10. \A k, r : Kept(d, k, r)' <=> Kept(d, k, r)
    BY <1>6, <2>6, <2>7, <2>9 DEF Kept
  <2>11. NextOK(d)'
    BY <1>1, <1>7, <1>8 DEF NextOK
  <2> QED BY <1>6, <2>1, <2>6, <2>9, <2>10, <2>11, StoreStep
<1> QED BY <1>6, <1>9, <1>10 DEF OneInv

\* Nothing is counted and nothing stored.
LEMMA OneInit ==
  ASSUME NEW d \in Devices, Init
  PROVE  OneInv(d)
<1>1. /\ viewing[d] = FALSE /\ popups[d] = {} /\ reading[d] = {} /\ outstanding[d] = <<>>
      /\ answered[d] = 0 /\ rec[NumSessions] = 0 /\ counted[NumSessions] = {}
      /\ \A p \in Paths : txn[d][p] = Idle
  BY DEF Init, Paths
<1>2. Idle.queue = <<>> /\ Idle.reply = "none" /\ Ids(<<>>) = {}
  BY DEF Idle, Ids
<1>3. OneAtATime(d)
  BY <1>1, <1>2 DEF OneAtATime
<1>4. TakenOK(stored, outstanding[d], answered[d])
  BY <1>1 DEF TakenOK
<1>5. NextOK(d)
  BY <1>1, <1>2 DEF NextOK, Paths
<1> QED BY <1>1, <1>3, <1>4, <1>5 DEF OneInv, StoreInv

\* Nothing waits, so no answer to a read runs anything again.
LEMMA OneNoRerun ==
  ASSUME IInv, NEW d \in Devices, OneInv(d)
  PROVE  ~AnswerRead(d)
<1>1. \A p \in Paths : Waiting(txn[d][p]) = <<>>
  BY NoneWaits DEF OneInv
<1> QED BY <1>1 DEF AnswerRead

\* Every step of the phone keeps the invariant.
LEMMA OneNext ==
  ASSUME Patient, Viewers = {}, NEW d \in Devices, Devices = {d}
  PROVE  Invariants /\ faults.reruns = 0 /\ OneInv(d) /\ [Next]_vars => OneInv(d)'
<1> SUFFICES ASSUME IInv, ExactInv, OneInv(d), [Next]_vars
             PROVE  OneInv(d)'
  BY DEF Invariants
<1>1. CASE UNCHANGED vars
  <2>1. /\ UNCHANGED <<stored, outstanding, answered, txn, rec, counted, field, faults>>
        /\ UNCHANGED <<viewing, popups, reading>>
    BY <1>1 DEF vars, server, client, app
  <2>2. OneAtATime(d)'
    BY <2>1 DEF OneInv, OneAtATime
  <2>3. faults.kills = 0 => StoreInv(d)'
    BY <2>1, StoreQuiet DEF OneInv
  <2> QED BY <2>1, <2>2, <2>3 DEF OneInv
<1>2. CASE Next
  <2>1. PICK e \in Devices :
          \/ Start(e) \/ Stop(e) \/ ReadHistory(e) \/ HistoryShown(e)
          \/ \E s \in Sessions : Submit(e, s) \/ Decline(e, s) \/ StartTransactions(e, s)
          \/ Serve(e) \/ Hear(e) \/ DataUpdate(e) \/ AnswerRead(e)
          \/ Disconnect(e) \/ Reconnect(e) \/ Kill(e)
    BY <1>2 DEF Next
  <2>2. e = d
    OBVIOUS
  <2> QED BY <2>1, <2>2, OneNoRerun, OneUser, OneServerSet, OneServerPut, OneAckSet, OneOk, OneStale,
             OneDisconnect, OneKill, OneStart DEF Serve, Hear
<1> QED BY <1>1, <1>2

\* So there is no such answer.
LEMMA OneReruns ==
  ASSUME NEW d \in Devices, Devices = {d}
  PROVE  IInv /\ faults.reruns = 0 /\ OneInv(d) /\ [Next]_vars => faults'.reruns = 0
<1> SUFFICES ASSUME IInv, faults.reruns = 0, OneInv(d), [Next]_vars
             PROVE  faults'.reruns = 0
  OBVIOUS
<1>1. faults \in [disconnects : Nat, kills : Nat, reruns : Nat]
  BY DEF IInv, TypeOK
<1>2. CASE faults' = faults
  BY <1>2
<1>3. CASE Disconnect(d) \/ Kill(d)
  BY <1>1, <1>3 DEF Disconnect, Kill
<1>4. ~AnswerRead(d)
  BY OneNoRerun
<1>5. faults' = faults \/ \E e \in Devices : Disconnect(e) \/ Kill(e) \/ AnswerRead(e)
  <2>1. ASSUME NEW e \in Devices,
               \/ Start(e) \/ Stop(e) \/ ReadHistory(e) \/ HistoryShown(e)
               \/ \E s \in Sessions : Submit(e, s) \/ Decline(e, s) \/ StartTransactions(e, s)
        PROVE  faults' = faults
    BY <2>1 DEF Start, Stop, ReadHistory, HistoryShown, Submit, Decline, StartTransactions
  <2>2. ASSUME NEW e \in Devices, Serve(e) \/ Hear(e) \/ DataUpdate(e) \/ Reconnect(e)
        PROVE  faults' = faults
    BY <2>2 DEF Serve, Hear, ServerSet, ServerCompareAndPut, AckSet, TransactionOk,
       TransactionStale, DataUpdate, Reconnect
  <2>3. UNCHANGED vars => faults' = faults
    BY DEF vars
  <2> QED BY <2>1, <2>2, <2>3 DEF Next
<1> QED BY <1>2, <1>3, <1>4, <1>5

\* A patient user with one phone, who does not open the history page, finds the
\* submissions that were counted, complete, and no others, under the counted numbers,
\* whatever connections were lost on the way, unless a process died
\* (HomeFragment.java:188-205).
THEOREM CountedAreKept ==
  ASSUME Patient, Viewers = {}, NEW phone, Devices = {phone}
  PROVE  Spec => []StoredIsSubmitted
<1>1. phone \in Devices
  OBVIOUS
<1>2. IInv /\ KeysInv /\ PatientInv /\ OneInv(phone) => StoredIsSubmitted
  <2> SUFFICES ASSUME IInv, KeysInv, PatientInv, StoreInv(phone), Quiescent, faults.kills = 0
               PROVE  {stored[k] : k \in 1..rec[NumSessions]}
                        = {[s |-> s, ended |-> TRUE] : s \in counted[NumSessions]}
    BY DEF StoredIsSubmitted, OneInv
  <2> DEFINE n == rec[NumSessions]
             whole(s) == [s |-> s, ended |-> TRUE]
  <2>1. /\ outstanding[phone] = <<>> /\ PutKeys(<<>>) = {}
        /\ \A k, s : ~LastPut(<<>>, k, s)
    BY <1>1, PutKeysNone, EmptySeq, LastPutKey DEF Quiescent
  <2>2. \A k, s : Kept(phone, k, s) <=> k \in DOMAIN stored /\ stored[k].s = s
    BY <2>1 DEF Kept, Holds
  <2>3. 1..n \subseteq DOMAIN stored
    <3>1. \A d \in Devices : PutKeys(outstanding[d]) = {}
      BY PutKeysNone DEF Quiescent
    <3>2. n \in Nat /\ n # Null
      BY ConstantsOK DEF IInv, TypeOK, Paths
    <3> QED BY <3>1, <3>2 DEF KeysInv, Filled, Written
  <2>4. \A k \in 1..n : stored[k] = whole(stored[k].s) /\ stored[k].s \in Sessions
    <3> SUFFICES ASSUME NEW k \in 1..n
                 PROVE  stored[k] = whole(stored[k].s) /\ stored[k].s \in Sessions
      OBVIOUS
    <3>1. stored[k] \in [s : Sessions, ended : BOOLEAN] /\ stored[k].ended = TRUE
      BY <2>3 DEF IInv, TypeOK, PatientInv
    <3> QED BY <3>1
  <2>5. \A k \in 1..n : stored[k].s \in counted[NumSessions]
    BY <2>2, <2>3, <2>4 DEF StoreInv
  <2>6. \A s \in counted[NumSessions] : \E k \in 1..n : stored[k].s = s
    BY <2>2 DEF StoreInv
  <2> HIDE DEF n, whole
  <2>7. {stored[k] : k \in 1..n} = {whole(s) : s \in counted[NumSessions]}
    BY <2>4, <2>5, <2>6
  <2> QED BY <2>7 DEF n, whole
<1> DEFINE calm == faults.reruns = 0
<1>3. Init => PatientInv /\ OneInv(phone) /\ calm
  BY <1>1, PatientInit, OneInit DEF Init
<1>4. IInv /\ PatientInv /\ [Next]_vars => PatientInv'
  BY PatientNext
<1>5. Invariants /\ calm /\ OneInv(phone) /\ [Next]_vars => OneInv(phone)'
  BY <1>1, OneNext
<1>6. IInv /\ calm /\ OneInv(phone) /\ [Next]_vars => calm'
  BY <1>1, OneReruns
<1>7. Invariants => IInv
  BY DEF Invariants
<1>. HIDE DEF calm
<1> QED BY <1>2, <1>3, <1>4, <1>5, <1>6, <1>7, Inductive, KeysAlways, PTL DEF Spec
=============================================================================
