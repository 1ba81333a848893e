----------------------------- MODULE SubmitHours -----------------------------
(***************************************************************************)
(* One account of the Android application, signed in on several devices:   *)
(* the START/STOP button and the submit popups of HomeFragment, the        *)
(* Firebase client that runs its two transactions, and the server's record *)
(* hours/<uid>.                                                            *)
(*                                                                         *)
(* A submission adds its credit to totalHours and one to numSessions, each *)
(* in a transaction of its own: the client computes the new value from the *)
(* value it believes current, and the server takes it only when that       *)
(* belief is right.  The function that computes numSessions also writes    *)
(* the session, with an ordinary setValue, under the number it computed.   *)
(***************************************************************************)
EXTENDS HoursCounters, Sequences, SequencesExt

CONSTANTS
  Devices,        \* phones signed in to the account
  Owner,          \* the device that creates each session
  Viewers,        \* devices whose user also opens the history page
  Patient,        \* TRUE: START is pressed only once nothing is being submitted
  MaxRetries,     \* sends of one transaction before the client gives up (25)
  MaxDisconnects, \* bound on lost connections
  MaxKills,       \* bound on process deaths
  MaxReruns,      \* bound on messages that run waiting transactions again
  Null            \* no value: the data is absent, or not known to the client

ASSUME ConstantsOK ==
  /\ Owner \in [Sessions -> Devices]
  /\ Viewers \subseteq Devices
  /\ Patient \in BOOLEAN
  /\ MaxRetries \in Nat \ {0}
  /\ MaxDisconnects \in Nat /\ MaxKills \in Nat /\ MaxReruns \in Nat
  /\ Null \notin Int /\ Null \notin Sessions

VARIABLES
  rec,         \* server: the values of totalHours and numSessions
  stored,      \* server: the numbered sessions, key -> [s, ended]
  conn,        \* is the device connected?
  outstanding, \* writes the client has not seen answered, in order
  answered,    \* how many of those the server has already answered
  cache,       \* server value the client last heard of, per path
  txn,         \* the client's transaction queue of each path
  stage,       \* a StudySession object: "new", "running" or "ended"
  field,       \* HomeFragment.studySession
  popups,      \* sessions whose submit popup is open
  reading,     \* submissions waiting for the single read of hours/<uid>
  viewing,     \* is the history page waiting for its read of hours/<uid>?
  toasted,     \* history: submissions announced as "Hours submitted"
  counted,     \* history: submissions the server accepted, per path
  faults       \* how many disconnects, kills and such messages there were

server == <<rec, stored, counted>>
client == <<conn, outstanding, answered, cache, txn>>
app    == <<stage, field, popups, reading, viewing, toasted>>
vars   == <<server, client, app, faults>>

-----------------------------------------------------------------------------
(* Transactions of one path.  The queue holds the transactions in the order *)
(* they were started; the first `sent' of them share one outstanding put    *)
(* that replaces `base' by `val'; `out' is the output of the last one.      *)

Idle == [queue |-> <<>>, sent |-> 0, base |-> Null, val |-> Null,
         out |-> Null, reply |-> "none", now |-> Null]

Ids(q) == {q[i].id : i \in DOMAIN q}
Batch(t) == {t.queue[i].id : i \in 1..t.sent}

\* Mutants: the batch is not taken out, or one transaction too many is.
WaitingAll(t) == t.queue
WaitingOneLess(t) == SubSeq(t.queue, t.sent + 2, Len(t.queue))

Waiting(t) == SubSeq(t.queue, t.sent + 1, Len(t.queue))

\* doTransaction, for the submissions S one after the other: a value that is
\* not there is left alone.
Output(p, S, v) == IF v = Null THEN Null ELSE v + Amount(p, S)

\* Run all of q from value v and put the result: every one counts a try.
Sent(p, q, v) ==
  LET out == Output(p, Ids(q), v) IN
  [queue |-> [i \in 1..Len(q) |-> [id |-> q[i].id, tries |-> q[i].tries + 1]],
   sent |-> Len(q), base |-> v, val |-> out, out |-> out,
   reply |-> "none", now |-> Null]

NewEntry(s) == [id |-> s, tries |-> 0]

RunAll(p, q, v) == IF q = <<>> THEN Idle ELSE Sent(p, q, v)

\* Mutant: run it on what the first one saw.
EnqueueFromBase(p, t, s) ==
  [t EXCEPT !.queue = Append(@, NewEntry(s)), !.out = Output(p, {s}, t.base)]

\* Run one more behind those of t, without sending it yet.
Enqueue(p, t, s) ==
  [t EXCEPT !.queue = Append(@, NewEntry(s)), !.out = Output(p, {s}, t.out)]

Put(p) == [type |-> "put", path |-> p]

\* Mutant: what is left of a queue is never sent.
PutsOfNone(p, q) == <<>>

PutsOf(p, q) == IF q = <<>> THEN <<>> ELSE <<Put(p)>>

\* Mutants: the session goes under the number before, or after, the one computed.
SessionPutBefore(d, key) ==
  [type |-> "session", key |-> key - 1, s |-> field[d], ended |-> stage[field[d]] = "ended"]
SessionPutAfter(d, key) ==
  [type |-> "session", key |-> key + 1, s |-> field[d], ended |-> stage[field[d]] = "ended"]

\* setValue of the session the field refers to NOW.
SessionPut(d, key) ==
  [type |-> "session", key |-> key, s |-> field[d], ended |-> stage[field[d]] = "ended"]

\* Mutant: every run in a row writes under the same number.
SessionPutsSame(d, p, n, v) ==
  IF p = NumSessions /\ v # Null
    THEN [i \in 1..n |-> SessionPut(d, v + 1)]
    ELSE <<>>

\* Mutant: a counter that is not there is taken for 0.
SessionPutsNull(d, p, n, v) ==
  IF p = NumSessions
    THEN [i \in 1..n |-> SessionPut(d, IF v = Null THEN i ELSE v + i)]
    ELSE <<>>

\* What n runs of the numSessions transaction write on the way, starting from
\* v: a session under each number computed.
SessionPuts(d, p, n, v) ==
  IF p = NumSessions /\ v # Null
    THEN [i \in 1..n |-> SessionPut(d, v + i)]
    ELSE <<>>

\* What the transactions of p see: the output of the one before, else what is
\* cached for a listener that is still installed.
Latest(d, p, listening) ==
  IF txn[d][p].queue # <<>> THEN txn[d][p].out
  ELSE IF listening THEN cache[d][p] ELSE Null

\* Mutant: a listener alone keeps nothing cached.
KeepQueued(listening, q, v) == IF q # <<>> THEN v ELSE Null

\* A value stays cached only as long as somebody listens for it.
Keep(listening, q, v) == IF listening \/ q # <<>> THEN v ELSE Null

Listening(d) == viewing[d] \/ reading[d] # {}

-----------------------------------------------------------------------------
Init ==
  /\ rec = [p \in Paths |-> 0]
  /\ stored = <<>>
  /\ conn = [d \in Devices |-> TRUE]
  /\ outstanding = [d \in Devices |-> <<>>]
  /\ answered = [d \in Devices |-> 0]
  /\ cache = [d \in Devices |-> [p \in Paths |-> Null]]
  /\ txn = [d \in Devices |-> [p \in Paths |-> Idle]]
  /\ stage = [s \in Sessions |-> "new"]
  /\ field = [d \in Devices |-> Null]
  /\ popups = [d \in Devices |-> {}]
  /\ reading = [d \in Devices |-> {}]
  /\ viewing = [d \in Devices |-> FALSE]
  /\ toasted = {}
  /\ counted = [p \in Paths |-> {}]
  /\ faults = [disconnects |-> 0, kills |-> 0, reruns |-> 0]

-----------------------------------------------------------------------------
(* The user at the record page.                                            *)

Running(d) == field[d] # Null /\ stage[field[d]] = "running"

Submitting(d) ==
  \/ popups[d] # {} \/ reading[d] # {}
  \/ \E p \in Paths : txn[d][p].queue # <<>>

\* onCheckedChanged(true): a new StudySession in the field.
Start(d) ==
  /\ ~Running(d)
  /\ Patient => ~Submitting(d)
  /\ \E s \in Sessions :
       /\ Owner[s] = d /\ stage[s] = "new"
       /\ stage' = [stage EXCEPT ![s] = "running"]
       /\ field' = [field EXCEPT ![d] = s]
  /\ UNCHANGED <<server, client, popups, reading, viewing, toasted, faults>>

\* onCheckedChanged(false): setOut, then the submit popup if the session was
\* long enough, else a popup that only says so.
Stop(d) ==
  /\ Running(d)
  /\ stage' = [stage EXCEPT ![field[d]] = "ended"]
  /\ \/ popups' = [popups EXCEPT ![d] = @ \cup {field[d]}]
     \/ UNCHANGED popups
  /\ UNCHANGED <<server, client, field, reading, viewing, toasted, faults>>

\* YES: the toast, and a single read of hours/<uid>.
Submit(d, s) ==
  /\ s \in popups[d]
  /\ popups' = [popups EXCEPT ![d] = @ \ {s}]
  /\ toasted' = toasted \cup {s}
  /\ reading' = [reading EXCEPT ![d] = @ \cup {s}]
  /\ UNCHANGED <<server, client, stage, field, viewing, faults>>

\* NO.
Decline(d, s) ==
  /\ s \in popups[d]
  /\ popups' = [popups EXCEPT ![d] = @ \ {s}]
  /\ UNCHANGED <<server, client, stage, field, reading, viewing, toasted, faults>>

\* onDataChange of the single read: the read's listener goes, then one
\* transaction per counter starts.  A path that has none under way sends at
\* once.  The session is written by a task the first transaction posts, so it
\* may be queued before or after the second transaction's put.
StartTransactions(d, s) ==
  LET listening == viewing[d] \/ reading[d] # {s}
      in(p) == Latest(d, p, listening)
      first(p) == txn[d][p].queue = <<>>
      num == IF first(NumSessions) THEN <<Put(NumSessions)>> ELSE <<>>
      hours == IF first(TotalHours) THEN <<Put(TotalHours)>> ELSE <<>>
      session == SessionPuts(d, NumSessions, 1, in(NumSessions))
  IN
  /\ s \in reading[d]
  /\ \A p \in Paths : cache[d][p] # Null
  /\ reading' = [reading EXCEPT ![d] = @ \ {s}]
  /\ txn' = [txn EXCEPT ![d] = [p \in Paths |->
       IF first(p) THEN Sent(p, <<NewEntry(s)>>, in(p))
       ELSE Enqueue(p, txn[d][p], s)]]
  /\ cache' = [cache EXCEPT ![d] = [p \in Paths |->
       IF listening \/ ~first(p) THEN cache[d][p] ELSE Null]]
  /\ \/ outstanding' = [outstanding EXCEPT ![d] = @ \o num \o session \o hours]
     \/ outstanding' = [outstanding EXCEPT ![d] = @ \o num \o hours \o session]
  /\ UNCHANGED <<server, conn, answered, stage, field, popups, viewing, toasted, faults>>

\* The history page reads the same record once.  The user follows the advice of
\* strings.xml:5 not to open it while recording.
ReadHistory(d) ==
  /\ d \in Viewers /\ ~viewing[d] /\ ~Running(d)
  /\ viewing' = [viewing EXCEPT ![d] = TRUE]
  /\ UNCHANGED <<server, client, stage, field, popups, reading, toasted, faults>>

\* Its onDataChange: the read's listener goes, nothing is written.
HistoryShown(d) ==
  /\ viewing[d]
  /\ \A p \in Paths : cache[d][p] # Null
  /\ viewing' = [viewing EXCEPT ![d] = FALSE]
  /\ cache' = [cache EXCEPT ![d] = [p \in Paths |->
       Keep(reading[d] # {}, txn[d][p].queue, cache[d][p])]]
  /\ UNCHANGED <<server, conn, outstanding, answered, txn, stage, field, popups,
                 reading, toasted, faults>>

-----------------------------------------------------------------------------
(* The server, taking the writes of one connection in order.               *)

NextWrite(d) == outstanding[d][answered[d] + 1]
HasWrite(d) == conn[d] /\ answered[d] < Len(outstanding[d])

\* A put with a hash is taken only if the hash is that of the current value.
Accepts(t, v) == t.base = v

ServerCompareAndPut(d, p) ==
  LET t == txn[d][p]
      ok == Accepts(t, rec[p])
  IN
  /\ HasWrite(d) /\ NextWrite(d) = Put(p)
  /\ rec' = IF ok THEN [rec EXCEPT ![p] = t.val] ELSE rec
  /\ counted' = IF ok THEN [counted EXCEPT ![p] = @ \cup Batch(t)] ELSE counted
  /\ txn' = [txn EXCEPT ![d][p] =
       [@ EXCEPT !.reply = IF ok THEN "ok" ELSE "datastale", !.now = rec'[p]]]
  /\ answered' = [answered EXCEPT ![d] = @ + 1]
  /\ UNCHANGED <<stored, conn, outstanding, cache, app, faults>>

ServerSet(d) ==
  LET w == NextWrite(d) IN
  /\ HasWrite(d) /\ w.type = "session"
  /\ stored' = [k \in DOMAIN stored \cup {w.key} |->
                  IF k = w.key THEN [s |-> w.s, ended |-> w.ended] ELSE stored[k]]
  /\ answered' = [answered EXCEPT ![d] = @ + 1]
  /\ UNCHANGED <<rec, counted, conn, outstanding, cache, txn, app, faults>>

-----------------------------------------------------------------------------
(* The client, hearing from the server.                                    *)

\* A data message for what the client listens to.  No answer to a write may
\* be waiting in front of it.  It raises no event for a counter whose put is
\* outstanding, and re-runs nothing.
DataUpdate(d) ==
  LET heard == [p \in Paths |->
        Keep(Listening(d), txn[d][p].queue, rec[p])]
  IN
  /\ conn[d] /\ answered[d] = 0
  /\ cache[d] # heard
  /\ cache' = [cache EXCEPT ![d] = heard]
  /\ UNCHANGED <<server, conn, outstanding, answered, txn, app, faults>>

\* Mutant: they run on their own output.
RunAgainOnOut(p, t, v) ==
  IF Waiting(t) = <<>> THEN t
  ELSE [t EXCEPT !.out = Output(p, Ids(Waiting(t)), t.out)]

\* Run what waits behind a sent put again, from v.
RunAgain(p, t, v) ==
  IF Waiting(t) = <<>> THEN t
  ELSE [t EXCEPT !.out = Output(p, Ids(Waiting(t)), v)]

\* The message that answers a read of hours/<uid> raises the read's event, and so
\* re-runs the transactions that wait behind a sent one.  They see the server's
\* value without any write of the queue, the sent put left out like the others.
\* (A read that joins another, still waiting, brings no message of its own.)
AnswerRead(d) ==
  /\ conn[d] /\ answered[d] = 0 /\ Listening(d)
  /\ \E p \in Paths : Waiting(txn[d][p]) # <<>>
  /\ faults.reruns < MaxReruns
  /\ faults' = [faults EXCEPT !.reruns = @ + 1]
  /\ cache' = [cache EXCEPT ![d] = rec]
  /\ txn' = [txn EXCEPT ![d] = [p \in Paths |-> RunAgain(p, @[p], rec[p])]]
  /\ outstanding' = [outstanding EXCEPT ![d] = @ \o
       SessionPuts(d, NumSessions, Len(Waiting(txn[d][NumSessions])), rec[NumSessions])]
  /\ UNCHANGED <<server, conn, answered, app>>

AckSet(d) ==
  /\ conn[d] /\ answered[d] > 0
  /\ Head(outstanding[d]).type = "session"
  /\ outstanding' = [outstanding EXCEPT ![d] = Tail(@)]
  /\ answered' = [answered EXCEPT ![d] = @ - 1]
  /\ UNCHANGED <<server, conn, cache, txn, app, faults>>

\* "ok": the batch is complete and what waited behind it is sent.
TransactionOk(d, p) ==
  LET t == txn[d][p]
      rest == Waiting(t)
  IN
  /\ conn[d] /\ answered[d] > 0
  /\ Head(outstanding[d]) = Put(p) /\ t.reply = "ok"
  /\ cache' = [cache EXCEPT ![d][p] = Keep(Listening(d), rest, t.now)]
  /\ txn' = [txn EXCEPT ![d][p] =
       IF rest = <<>> THEN Idle
       ELSE [Sent(p, rest, t.now) EXCEPT !.val = t.out, !.out = t.out]]
  /\ outstanding' = [outstanding EXCEPT ![d] = Tail(@) \o PutsOf(p, rest)]
  /\ answered' = [answered EXCEPT ![d] = @ - 1]
  /\ UNCHANGED <<server, conn, app, faults>>

\* "datastale": give up on the transactions sent too often (an older one has
\* never been sent less often than a younger one), run the others again.
TransactionStale(d, p) ==
  LET t == txn[d][p]
      exhausted == {i \in DOMAIN t.queue : t.queue[i].tries >= MaxRetries}
      again == SubSeq(t.queue, Cardinality(exhausted) + 1, Len(t.queue))
  IN
  /\ conn[d] /\ answered[d] > 0
  /\ Head(outstanding[d]) = Put(p) /\ t.reply = "datastale"
  /\ cache' = [cache EXCEPT ![d][p] = Keep(Listening(d), again, t.now)]
  /\ txn' = [txn EXCEPT ![d][p] = RunAll(p, again, t.now)]
  /\ outstanding' = [outstanding EXCEPT ![d] =
       Tail(@) \o PutsOf(p, again) \o SessionPuts(d, p, Len(again), t.now)]
  /\ answered' = [answered EXCEPT ![d] = @ - 1]
  /\ UNCHANGED <<server, conn, app, faults>>

-----------------------------------------------------------------------------
(* Failures.                                                               *)

\* Mutant: a lost connection forgets the ordinary writes too.
WithoutAny(ws) == <<>>

WithoutPuts(ws) == RemoveFirst(RemoveFirst(ws, Put(NumSessions)), Put(TotalHours))

\* onDisconnect: every transaction whose put was sent is aborted, those that
\* waited behind it run again, on what is cached; their puts are not sent.
\* Ordinary writes stay outstanding.
Disconnect(d) ==
  LET rest == [p \in Paths |-> Waiting(txn[d][p])]
      sets == SessionPuts(d, NumSessions, Len(rest[NumSessions]), cache[d][NumSessions])
  IN
  /\ conn[d] /\ faults.disconnects < MaxDisconnects
  /\ faults' = [faults EXCEPT !.disconnects = @ + 1]
  /\ conn' = [conn EXCEPT ![d] = FALSE]
  /\ txn' = [txn EXCEPT ![d] = [p \in Paths |-> RunAll(p, rest[p], cache[d][p])]]
  /\ cache' = [cache EXCEPT ![d] = [p \in Paths |-> Keep(Listening(d), rest[p], cache[d][p])]]
  /\ outstanding' = [outstanding EXCEPT ![d] =
       WithoutPuts(@) \o PutsOf(NumSessions, rest[NumSessions])
                      \o PutsOf(TotalHours, rest[TotalHours]) \o sets]
  /\ answered' = [answered EXCEPT ![d] = 0]
  /\ UNCHANGED <<server, app>>

\* restoreState: the outstanding writes are sent again, in order.
Reconnect(d) ==
  /\ ~conn[d]
  /\ conn' = [conn EXCEPT ![d] = TRUE]
  /\ UNCHANGED <<server, outstanding, answered, cache, txn, app, faults>>

\* The process dies and the app is started again: nothing was on disk.
Kill(d) ==
  /\ faults.kills < MaxKills
  /\ faults' = [faults EXCEPT !.kills = @ + 1]
  /\ conn' = [conn EXCEPT ![d] = TRUE]
  /\ outstanding' = [outstanding EXCEPT ![d] = <<>>]
  /\ answered' = [answered EXCEPT ![d] = 0]
  /\ cache' = [cache EXCEPT ![d] = [p \in Paths |-> Null]]
  /\ txn' = [txn EXCEPT ![d] = [p \in Paths |-> Idle]]
  /\ field' = [field EXCEPT ![d] = Null]
  /\ popups' = [popups EXCEPT ![d] = {}]
  /\ reading' = [reading EXCEPT ![d] = {}]
  /\ viewing' = [viewing EXCEPT ![d] = FALSE]
  /\ UNCHANGED <<server, stage, toasted>>

-----------------------------------------------------------------------------
\* What happens without the user: fairness is assumed of these only.
Serve(d) == ServerSet(d) \/ \E p \in Paths : ServerCompareAndPut(d, p)
Hear(d) == AckSet(d) \/ \E p \in Paths : TransactionOk(d, p) \/ TransactionStale(d, p)

Next ==
  \E d \in Devices :
    \/ Start(d) \/ Stop(d) \/ ReadHistory(d) \/ HistoryShown(d)
    \/ \E s \in Sessions : Submit(d, s) \/ Decline(d, s) \/ StartTransactions(d, s)
    \/ Serve(d) \/ Hear(d) \/ DataUpdate(d) \/ AnswerRead(d)
    \/ Disconnect(d) \/ Reconnect(d) \/ Kill(d)

Spec == Init /\ [][Next]_vars

Fairness == \A d \in Devices :
  /\ WF_vars(Serve(d)) /\ WF_vars(Hear(d)) /\ WF_vars(DataUpdate(d)) /\ WF_vars(Reconnect(d))
  /\ \A s \in Sessions : WF_vars(StartTransactions(d, s))

FairSpec == Spec /\ Fairness

-----------------------------------------------------------------------------
(* Properties.                                                             *)

Keys == Nat \ {0}
Value == Nat \cup {Null}
Entry == [id : Sessions, tries : Nat]
Transactions == [queue : Seq(Entry), sent : Nat, base : Value, val : Value,
                 out : Value, reply : {"none", "ok", "datastale"}, now : Value]
Writes == [type : {"put"}, path : Paths]
   \cup [type : {"session"}, key : Keys, s : Sessions, ended : BOOLEAN]

TypeOK ==
  /\ rec \in [Paths -> Nat]
  /\ DOMAIN stored \subseteq Keys
  /\ \A k \in DOMAIN stored : stored[k] \in [s : Sessions, ended : BOOLEAN]
  /\ conn \in [Devices -> BOOLEAN]
  /\ outstanding \in [Devices -> Seq(Writes)]
  /\ answered \in [Devices -> Nat]
  /\ cache \in [Devices -> [Paths -> Value]]
  /\ txn \in [Devices -> [Paths -> Transactions]]
  /\ stage \in [Sessions -> {"new", "running", "ended"}]
  /\ field \in [Devices -> Sessions \cup {Null}]
  /\ popups \in [Devices -> SUBSET Sessions]
  /\ reading \in [Devices -> SUBSET Sessions]
  /\ viewing \in [Devices -> BOOLEAN]
  /\ toasted \subseteq Sessions
  /\ counted \in [Paths -> SUBSET Sessions]
  /\ faults \in [disconnects : Nat, kills : Nat, reruns : Nat]

\* Nothing of a submission is under way on any device.
Quiescent == \A d \in Devices :
  /\ conn[d] /\ outstanding[d] = <<>> /\ reading[d] = {}
  /\ \A p \in Paths : txn[d][p].queue = <<>>

InFlight(s) == \E d \in Devices :
  \/ s \in reading[d]
  \/ \E p \in Paths : s \in Ids(txn[d][p].queue)

\* The server's counters are exactly the sums over the submissions it took,
\* each once: no update is lost to another device, and no retry, no resent
\* write and no disconnect makes one count twice (HomeFragment.java:159-205).
\* Where submissions overlap on a phone it holds until AnswerRead.
CountersAddUp == \A p \in Paths : rec[p] = Amount(p, counted[p])

\* The record is a ledger: every step of the server enters submissions that were
\* not entered before, and nothing else ever touches the counters.
Ledger == INSTANCE HoursLedger
LedgerSpec == Ledger!Spec

\* It is one as long as no waiting transaction was run again by AnswerRead.
LedgerUntilRerun ==
  Ledger!Init /\ [][faults.reruns' > 0 \/ UNCHANGED <<rec, counted>> \/ Ledger!Next]_vars

\* Whatever runs again: a counter is the sum over some of the submissions the server
\* accepted, none of them twice (FRepo.m:1140-1222).  AnswerRead makes it lose some.
NoneCountedTwice == \A p \in Paths : \E S \in SUBSET counted[p] : rec[p] = Amount(p, S)

\* As long as no connection is lost, no process dies and no waiting transaction was
\* run again, every submission the user was told of is in both counters once the
\* network is quiet.
SubmittedIsCounted ==
  (Quiescent /\ faults.disconnects = 0 /\ faults.kills = 0 /\ faults.reruns = 0) =>
     \A p \in Paths : counted[p] = toasted

\* Every number the counter promises has a session stored under it, unless a
\* process died: an aborted transaction does not take its session back, and a
\* lost connection does not lose the session of an accepted one.
CountedIsStored ==
  (Quiescent /\ faults.kills = 0) => 1..rec[NumSessions] \subseteq DOMAIN stored

\* No session is ever stored under a number beyond the submissions made, however
\* often transactions ran again.
KeysBounded == \A k \in DOMAIN stored : k <= Cardinality(toasted)

\* With one device, whose user starts a session only after the last one is
\* settled, the sessions stored under the counted numbers are exactly the
\* submitted ones the server counted, complete, even across lost connections.
StoredIsSubmitted ==
  (Quiescent /\ faults.kills = 0) =>
    LET kept == {stored[k] : k \in 1..rec[NumSessions]} IN
    kept = {[s |-> s, ended |-> TRUE] : s \in counted[NumSessions]}

\* What the toast says, "Hours submitted" (HomeFragment.java:150): unless the
\* process died, a submission so announced is in both counters in the end.
ToastIsKept ==
  (Quiescent /\ faults.kills = 0) => \A p \in Paths : toasted \subseteq counted[p]

\* What the comment says, "increment numSessions by 1, add new session to db"
\* (HomeFragment.java:185): with no failure at all, the session of each counted
\* submission is in the database, complete.
CountedIsKept ==
  (Quiescent /\ faults.disconnects = 0 /\ faults.kills = 0) =>
    \A s \in counted[NumSessions] :
      \E k \in DOMAIN stored : stored[k] = [s |-> s, ended |-> TRUE]

\* A submission does not stay under way for ever: it is counted or given up.
SubmissionSettles == \A s \in Sessions : s \in toasted ~> ~InFlight(s)

-----------------------------------------------------------------------------
(* The inductive invariants: what always holds (IInv), what holds of the     *)
(* values besides (SumsInv), and what does until AnswerRead (ExactInv).      *)

Distinct(q) == \A i, j \in DOMAIN q : q[i].id = q[j].id => i = j

\* A queue and the put that stands for its first part agree.
TransactionsOK(t) ==
  /\ t.sent \in 0..Len(t.queue)
  /\ t.sent = 0 => t.queue = <<>>
  /\ Distinct(t.queue)
  /\ t.base # Null => t.val # Null /\ t.out # Null
  /\ t.reply = "ok" => t.base # Null /\ t.now = t.val

\* What was computed is the hash's value plus what the transactions add.
Exact(p, t) ==
  /\ t.val = Output(p, Batch(t), t.base)
  /\ t.out = Output(p, Ids(t.queue), t.base)

\* A value is no guess: it is what some of the submissions of C add up to.
Known(p, v, C) == v = Null \/ \E S \in SUBSET C : v = Amount(p, S)

\* So is what is heard, and what is computed, with the submissions it is for.
Sums(p, t, C) ==
  /\ Known(p, t.now, C)
  /\ Known(p, t.val, C \cup Batch(t))
  /\ Known(p, t.out, C \cup Ids(t.queue))
  /\ t.reply = "ok" => Batch(t) \subseteq C

\* A queue has at most one put outstanding, answered when its reply is known.
Unique(p, ws) == \A i, j \in DOMAIN ws : ws[i] = Put(p) /\ ws[j] = Put(p) => i = j
NoPut(p, ws) == \A i \in DOMAIN ws : ws[i] # Put(p)
PutsAgree(ws, n, ts) ==
  /\ n <= Len(ws)
  /\ \A p \in Paths :
       /\ Unique(p, ws)
       /\ \A i \in DOMAIN ws : ws[i] = Put(p) =>
            ts[p].sent > 0 /\ (i <= n <=> ts[p].reply # "none")

\* The object in the field was created on this device.
FieldOK(d) == field[d] # Null => Owner[field[d]] = d /\ stage[field[d]] # "new"

Asked(d) == popups[d] \cup reading[d]

\* A session is asked about, then submitted, then counted, and never again.
OnceOK(d) ==
  /\ popups[d] \cap reading[d] = {}
  /\ \A s \in Asked(d) :
       Owner[s] = d /\ stage[s] = "ended" /\ field[d] # Null
  /\ \A p \in Paths :
       /\ \A s \in Asked(d) : s \notin counted[p] /\ s \notin Ids(txn[d][p].queue)
       /\ \A s \in Ids(txn[d][p].queue) :
            /\ Owner[s] = d /\ stage[s] = "ended" /\ field[d] # Null
            /\ s \in counted[p] => txn[d][p].reply = "ok" /\ s \in Batch(txn[d][p])

CountedOK == \A p \in Paths : \A s \in counted[p] : stage[s] = "ended"

DeviceOK(d) ==
  /\ PutsAgree(outstanding[d], answered[d], txn[d])
  /\ FieldOK(d)
  /\ OnceOK(d)
  /\ \A p \in Paths : TransactionsOK(txn[d][p])

IInv ==
  /\ TypeOK
  /\ CountedOK
  /\ \A d \in Devices : DeviceOK(d)

SumsInv ==
  /\ NoneCountedTwice
  /\ \A d \in Devices, p \in Paths :
       /\ Known(p, cache[d][p], counted[p])
       /\ Sums(p, txn[d][p], counted[p])

ExactInv ==
  /\ CountersAddUp
  /\ \A d \in Devices, p \in Paths : Exact(p, txn[d][p])

=============================================================================
