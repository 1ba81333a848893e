------------------------- MODULE RecordViewController -------------------------
(***************************************************************************)
(* One account of the iOS application, signed in on several phones: the    *)
(* Start/Stop button and the alerts of RecordViewController, the history   *)
(* table of ViewController, the Firebase client under them, and the        *)
(* server's record hours/<uid>.                                            *)
(*                                                                         *)
(* A running session is kept in the record itself, as the numbered child   *)
(* after the last one counted, so that every phone of the account sees it. *)
(* The button toggles a flag at once; what it does is decided when a read  *)
(* of the record comes back.                                               *)
(***************************************************************************)
EXTENDS Integers, FiniteSets, Sequences, FiniteSetsExt

CONSTANTS
  Devices,        \* phones signed in to the account
  Viewers,        \* phones whose user also opens the history
  Users,          \* how users behave, see MayTap
  Limit,          \* the interval a session must exceed (1800000 ms)
  Hours,          \* interval -> its hours, rounded as recordSession does
  MaxTime,        \* bound on the clock
  MaxTaps,        \* bound on taps of the button
  MaxDisconnects, \* bound on lost connections
  MaxKills,       \* bound on process deaths
  Null            \* no value

Times == 1..MaxTime
Intervals == 0..MaxTime

ASSUME ConstantsOK ==
  /\ Users \in {"hasty", "waiting", "careful"}
  /\ Viewers \subseteq Devices
  /\ MaxTime \in Nat \ {0} /\ MaxTaps \in Nat /\ Limit \in Nat
  /\ Hours \in [Intervals -> Nat]
  /\ MaxDisconnects \in Nat /\ MaxKills \in Nat
  /\ Null \notin Nat

VARIABLES
  db,        \* server: the value at each leaf of the record
  conn,      \* is the phone connected?
  pending,   \* writes the client has not seen acknowledged, in order
  taken,     \* how many of those the server has taken on this connection
  inbox,     \* messages of the server on their way to the phone
  heard,     \* the record as the client last heard it, Null before that
  events,    \* callbacks queued on the main thread
  waiting,   \* single reads that wait for the first answer
  recording, \* RecordViewController.recording
  screen,    \* the title of the button and the check-in time shown
  alert,     \* the alert that is open
  sessions,  \* ViewController.sessions while the history is open, else Null
  now,       \* the clock
  confirmed, \* history: hours of the sessions answered Yes
  faults     \* taps, disconnects and kills so far, the phones on which an alert
             \* was not shown since the listener last heard a record, and those
             \* whose process died with writes the server had not taken

server == <<db, now>>
client == <<conn, pending, taken, inbox, heard, waiting>>
app    == <<events, recording, screen, alert, sessions>>
vars   == <<server, client, app, confirmed, faults>>

-----------------------------------------------------------------------------
(* The record: a leaf is a field of the record itself, numbered 0, or of   *)
(* one of its sessions.                                                    *)

Keys == 1..(MaxTaps + 1)

NumSessions == <<0, "numSessions">>
TotalHours  == <<0, "totalHours">>
In(k)  == <<k, "in">>
Out(k) == <<k, "out">>

Leaves == {NumSessions, TotalHours} \cup (Keys \X {"in", "out"})

EmptyRecord == [l \in Leaves |-> IF l \in {NumSessions, TotalHours} THEN 0 ELSE Null]

\* A leaf that is not there has no value.
Field(r, l) == IF l \in Leaves THEN r[l] ELSE Null

Child(r, k) == Field(r, In(k)) # Null \/ Field(r, Out(k)) # Null

\* The session checked in, if there is one.
Next1(r) == r[NumSessions] + 1
Running(r) == Child(r, Next1(r))

Set(l, v) == [leaves |-> {l}, val |-> v]

\* Mutant: the whole record goes.
RemoveRecord(k) == [leaves |-> Leaves, val |-> Null]

Remove(k) == [leaves |-> {In(k), Out(k)}, val |-> Null]

Apply(r, w) == [l \in Leaves |-> IF l \in w.leaves THEN w.val ELSE r[l]]

\* A record under writes still to be acknowledged: the last one of each leaf
\* hides what is below.
Under(r, q) == [l \in Leaves |->
  LET over == {i \in DOMAIN q : l \in q[i].leaves}
  IN  IF over = {} THEN r[l] ELSE q[Max(over)].val]

View(d) == Under(heard[d], pending[d])

-----------------------------------------------------------------------------
(* Callbacks queued on the main thread.                                    *)

Value(r) == [type |-> "value", record |-> r]
TapRead(r) == [type |-> "tap", n |-> r[NumSessions], total |-> r[TotalHours]]
StopRead(n, total, in) == [type |-> "stop", n |-> n, total |-> total, in |-> in]

\* Mutant: the listener hears of the count only.
RaisedCount(old, new) ==
  IF old[NumSessions] = new[NumSessions] THEN <<>> ELSE <<Value(new)>>

\* An event for the listener if the record changed.
Raised(old, new) == IF old = new THEN <<>> ELSE <<Value(new)>>

\* One setValue, and the three of recordSession, each raising its own event.
SetEvents(r, w) == Raised(r, Apply(r, w))
SetEvents3(r, a, b, c) ==
  SetEvents(r, a) \o SetEvents(Apply(r, a), b) \o SetEvents(Apply(Apply(r, a), b), c)

updateScreen(d, rec, in) ==
  screen' = [screen EXCEPT ![d] =
    [title |-> IF rec THEN "Stop" ELSE "Start", checkIn |-> IF rec THEN in ELSE Null]]

-----------------------------------------------------------------------------
Fresh == [title |-> "Start", checkIn |-> Null]

Init ==
  /\ db = EmptyRecord
  /\ conn = [d \in Devices |-> TRUE]
  /\ pending = [d \in Devices |-> <<>>]
  /\ taken = [d \in Devices |-> 0]
  /\ inbox = [d \in Devices |-> <<[record |-> EmptyRecord, ack |-> FALSE]>>]
  /\ heard = [d \in Devices |-> Null]
  /\ events = [d \in Devices |-> <<>>]
  /\ waiting = [d \in Devices |-> 0]
  /\ recording = [d \in Devices |-> FALSE]
  /\ screen = [d \in Devices |-> Fresh]
  /\ alert = [d \in Devices |-> Null]
  /\ sessions = [d \in Devices |-> Null]
  /\ now = 1
  /\ confirmed = 0
  /\ faults = [taps |-> 0, disconnects |-> 0, kills |-> 0, unshown |-> {},
               lost |-> {}]

-----------------------------------------------------------------------------
(* The user.  A hasty one taps whenever the button is there.  A waiting one *)
(* taps only when every phone has caught up with the record and no alert is *)
(* open; a careful one also checks that the button says what the record     *)
(* says: see StopFindsSession for why it may not.                           *)

Caught(d) ==
  /\ conn[d] /\ pending[d] = <<>> /\ inbox[d] = <<>> /\ heard[d] = db
  /\ events[d] = <<>> /\ waiting[d] = 0

Settled == \A d \in Devices : Caught(d) /\ alert[d] = Null

MayTap(d) ==
  /\ Users # "hasty" => Settled
  /\ Users = "careful" => (screen[d].title = "Stop" <=> Running(db))

\* startRecording: the flag is toggled, and a single read of the record asked
\* for; it is answered from the cache once the listener has the record.
startRecording(d) ==
  /\ alert[d] = Null /\ sessions[d] = Null
  /\ faults.taps < MaxTaps /\ MayTap(d)
  /\ recording' = [recording EXCEPT ![d] = ~@]
  /\ IF heard[d] = Null
       THEN /\ waiting' = [waiting EXCEPT ![d] = @ + 1]
            /\ UNCHANGED events
       ELSE /\ events' = [events EXCEPT ![d] = Append(@, TapRead(View(d)))]
            /\ UNCHANGED waiting
  /\ faults' = [faults EXCEPT !.taps = @ + 1]
  /\ UNCHANGED <<server, conn, pending, taken, inbox, heard, screen, alert,
                 sessions, confirmed>>

\* Mutant: the time until the answer is counted too.
NewTotalNow(a) == a.total + Hours[a.interval + (now - a.out)]

NewTotal(a) == a.total + Hours[a.interval]

\* Yes: recordSession, three writes from what the reads saw before the alert.
recordSession(d) ==
  LET a == alert[d]
      num == Set(NumSessions, a.n + 1)
      out == Set(Out(a.n + 1), a.out)
      tot == Set(TotalHours, NewTotal(a))
  IN
  /\ a # Null /\ a.type = "confirm"
  /\ alert' = [alert EXCEPT ![d] = Null]
  /\ pending' = [pending EXCEPT ![d] = @ \o <<num, out, tot>>]
  /\ events' = [events EXCEPT ![d] = @ \o SetEvents3(View(d), num, out, tot)]
  /\ confirmed' = confirmed + Hours[a.interval]
  /\ UNCHANGED <<server, conn, taken, inbox, heard, waiting, recording, screen,
                 sessions, faults>>

\* setValue(nil) of the numbered session; evs is what the main thread has left.
dismissSession(d, n, evs) ==
  /\ pending' = [pending EXCEPT ![d] = Append(@, Remove(n + 1))]
  /\ events' = [events EXCEPT ![d] = evs \o SetEvents(View(d), Remove(n + 1))]

\* No.
Decline(d) ==
  /\ alert[d] # Null /\ alert[d].type = "confirm"
  /\ alert' = [alert EXCEPT ![d] = Null]
  /\ dismissSession(d, alert[d].n, events[d])
  /\ UNCHANGED <<server, conn, taken, inbox, heard, waiting, recording, screen,
                 sessions, confirmed, faults>>

\* OK on the warning.
CloseWarning(d) ==
  /\ alert[d] # Null /\ alert[d].type = "warning"
  /\ alert' = [alert EXCEPT ![d] = Null]
  /\ UNCHANGED <<server, client, events, recording, screen, sessions, confirmed, faults>>

\* Mutant: a session still running is listed.
ListedRunning(rows, r) ==
  LET there == {k \in Keys : Child(r, k)}
  IN  [k \in DOMAIN rows \cup there |->
        IF k \in there THEN [in |-> r[In(k)], out |-> r[Out(k)]] ELSE rows[k]]

\* What ViewController keeps of a record: sessions with an out are entered,
\* none is ever taken away.
Listed(rows, r) ==
  LET ended == {k \in Keys : r[Out(k)] # Null}
      in(k) == IF r[In(k)] = Null THEN 0 ELSE r[In(k)]
  IN  [k \in DOMAIN rows \cup ended |->
        IF k \in ended THEN [in |-> in(k), out |-> r[Out(k)]] ELSE rows[k]]

\* The history page, opened from a settled page, and Back.
OpenHistory(d) ==
  /\ d \in Viewers /\ sessions[d] = Null /\ Settled
  /\ sessions' = [sessions EXCEPT ![d] = Listed(<<>>, View(d))]
  /\ UNCHANGED <<server, client, events, recording, screen, alert, confirmed, faults>>

CloseHistory(d) ==
  /\ sessions[d] # Null
  /\ sessions' = [sessions EXCEPT ![d] = Null]
  /\ UNCHANGED <<server, client, events, recording, screen, alert, confirmed, faults>>

-----------------------------------------------------------------------------
(* Callbacks on the main thread, in the order they were raised.             *)

HasEvent(d, type) == events[d] # <<>> /\ Head(events[d]).type = type

\* The check-in of the running session; without one, the clock starts in 1970.
ShownIn(r) == IF Field(r, In(Next1(r))) = Null THEN 0 ELSE Field(r, In(Next1(r)))

\* The listeners of viewDidLoad: a record with a session after the last one
\* counted sets the flag, no record clears it.
observeValue(d) ==
  LET r == Head(events[d]).record
      in == ShownIn(r)
      rec == recording[d] \/ Running(r)
  IN
  /\ HasEvent(d, "value")
  /\ events' = [events EXCEPT ![d] = Tail(@)]
  /\ recording' = [recording EXCEPT ![d] = rec]
  /\ updateScreen(d, rec, in)
  /\ sessions' = [sessions EXCEPT ![d] = IF @ = Null THEN Null ELSE Listed(@, r)]
  /\ faults' = [faults EXCEPT !.unshown = @ \ {d}]
  /\ UNCHANGED <<server, client, alert, confirmed>>

\* The read of a tap, with the flag TRUE: the session is checked in.
checkIn(d) ==
  LET e == Head(events[d])
      w == Set(In(e.n + 1), now)
  IN
  /\ HasEvent(d, "tap") /\ recording[d]
  /\ pending' = [pending EXCEPT ![d] = Append(@, w)]
  /\ events' = [events EXCEPT ![d] = Tail(@) \o SetEvents(View(d), w)]
  /\ updateScreen(d, TRUE, now)
  /\ UNCHANGED <<server, conn, taken, inbox, heard, waiting, recording, alert,
                 sessions, confirmed, faults>>

\* With the flag FALSE: a read of the numbered session, answered from the cache.
readSession(d) ==
  LET e == Head(events[d]) IN
  /\ HasEvent(d, "tap") /\ ~recording[d]
  /\ events' = [events EXCEPT ![d] =
       Append(Tail(@), StopRead(e.n, e.total, Field(View(d), In(e.n + 1))))]
  /\ updateScreen(d, FALSE, 0)
  /\ UNCHANGED <<server, client, recording, alert, sessions, confirmed, faults>>

\* UIKit presents one alert at a time; another one is not shown.
present(d, a) ==
  /\ alert' = [alert EXCEPT ![d] = IF @ = Null THEN a ELSE @]
  /\ faults' = [faults EXCEPT !.unshown = IF alert[d] = Null THEN @ ELSE @ \cup {d}]

\* Mutant: Android's comparison.
LongEnoughOrEqual(interval) == interval >= Limit

LongEnough(interval) == interval > Limit

\* Its answer: a long session is asked about,
confirmSession(d) ==
  LET e == Head(events[d]) IN
  /\ HasEvent(d, "stop") /\ e.in # Null
  /\ LongEnough(now - e.in)
  /\ present(d, [type |-> "confirm", n |-> e.n, total |-> e.total,
                 interval |-> now - e.in, out |-> now])
  /\ events' = [events EXCEPT ![d] = Tail(@)]
  /\ UNCHANGED <<server, client, recording, screen, sessions, confirmed>>

\* a short one dismissed with a warning,
rejectSession(d) ==
  LET e == Head(events[d]) IN
  /\ HasEvent(d, "stop") /\ e.in # Null
  /\ ~LongEnough(now - e.in)
  /\ present(d, [type |-> "warning"])
  /\ dismissSession(d, e.n, Tail(events[d]))
  /\ UNCHANGED <<server, conn, taken, inbox, heard, waiting, recording, screen,
                 sessions, confirmed>>

\* The application starts again: nothing of the client is on disk.
Relaunched(d) ==
  /\ conn' = [conn EXCEPT ![d] = TRUE]
  /\ pending' = [pending EXCEPT ![d] = <<>>]
  /\ taken' = [taken EXCEPT ![d] = 0]
  /\ inbox' = [inbox EXCEPT ![d] = <<[record |-> db, ack |-> FALSE]>>]
  /\ heard' = [heard EXCEPT ![d] = Null]
  /\ waiting' = [waiting EXCEPT ![d] = 0]
  /\ events' = [events EXCEPT ![d] = <<>>]
  /\ recording' = [recording EXCEPT ![d] = FALSE]
  /\ screen' = [screen EXCEPT ![d] = Fresh]
  /\ alert' = [alert EXCEPT ![d] = Null]
  /\ sessions' = [sessions EXCEPT ![d] = Null]
  /\ UNCHANGED <<server, confirmed>>

\* and one that is not there crashes on `(value?["in"] as? Int64)!'.
Crash(d) ==
  /\ HasEvent(d, "stop") /\ Head(events[d]).in = Null
  /\ Relaunched(d)
  /\ faults' = [faults EXCEPT !.unshown = @ \ {d}]

MainThread(d) ==
  \/ observeValue(d) \/ checkIn(d) \/ readSession(d)
  \/ confirmSession(d) \/ rejectSession(d) \/ Crash(d)

-----------------------------------------------------------------------------
(* The server and the connection.                                          *)

\* The server takes the next write of a connection: every connected phone is
\* told of the record, and the writer that it was taken.
TakeWrite(d) ==
  /\ conn[d] /\ taken[d] < Len(pending[d])
  /\ db' = Apply(db, pending[d][taken[d] + 1])
  /\ taken' = [taken EXCEPT ![d] = @ + 1]
  /\ inbox' = [e \in Devices |->
       IF conn[e] THEN Append(inbox[e], [record |-> db', ack |-> e = d]) ELSE inbox[e]]
  /\ UNCHANGED <<now, conn, pending, heard, waiting, app, confirmed, faults>>

\* The client hears of the record.  The first time it answers the reads that
\* were waiting; later the listener is called if what it sees has changed.
Hear(d) ==
  LET m == Head(inbox[d])
      q == IF m.ack THEN Tail(pending[d]) ELSE pending[d]
      new == Under(m.record, q)
  IN
  /\ inbox[d] # <<>>
  /\ inbox' = [inbox EXCEPT ![d] = Tail(@)]
  /\ heard' = [heard EXCEPT ![d] = m.record]
  /\ pending' = [pending EXCEPT ![d] = q]
  /\ taken' = [taken EXCEPT ![d] = IF m.ack THEN @ - 1 ELSE @]
  /\ waiting' = [waiting EXCEPT ![d] = 0]
  /\ events' = [events EXCEPT ![d] = @ \o
       IF heard[d] = Null THEN <<Value(new)>> \o [i \in 1..waiting[d] |-> TapRead(new)]
       ELSE Raised(View(d), new)]
  /\ UNCHANGED <<server, conn, recording, screen, alert, sessions, confirmed, faults>>

\* What was on the way is lost; writes not acknowledged will be sent again.
Disconnect(d) ==
  /\ conn[d] /\ faults.disconnects < MaxDisconnects
  /\ conn' = [conn EXCEPT ![d] = FALSE]
  /\ taken' = [taken EXCEPT ![d] = 0]
  /\ inbox' = [inbox EXCEPT ![d] = <<>>]
  /\ faults' = [faults EXCEPT !.disconnects = @ + 1]
  /\ UNCHANGED <<server, pending, heard, waiting, app, confirmed>>

\* Mutant: the writes are sent again, the listen is not.
ReconnectDeaf(d) ==
  /\ ~conn[d]
  /\ conn' = [conn EXCEPT ![d] = TRUE]
  /\ UNCHANGED <<server, pending, taken, inbox, heard, waiting, app, confirmed, faults>>

\* restoreState: the listen first, then the writes in order.
Reconnect(d) ==
  /\ ~conn[d]
  /\ conn' = [conn EXCEPT ![d] = TRUE]
  /\ inbox' = [inbox EXCEPT ![d] = <<[record |-> db, ack |-> FALSE]>>]
  /\ UNCHANGED <<server, pending, taken, heard, waiting, app, confirmed, faults>>

\* The process dies, at any time: the writes it had are kept nowhere else.
Kill(d) ==
  /\ faults.kills < MaxKills
  /\ Relaunched(d)
  /\ faults' = [faults EXCEPT !.kills = @ + 1, !.unshown = @ \ {d},
       !.lost = IF taken[d] < Len(pending[d]) THEN @ \cup {d} ELSE @]

Tick ==
  /\ now < MaxTime
  /\ now' = now + 1
  /\ UNCHANGED <<db, client, app, confirmed, faults>>

User(d) ==
  \/ startRecording(d) \/ recordSession(d) \/ Decline(d) \/ CloseWarning(d)
  \/ OpenHistory(d) \/ CloseHistory(d)

Network(d) == TakeWrite(d) \/ Hear(d) \/ Reconnect(d)

Next ==
  \/ \E d \in Devices :
       User(d) \/ MainThread(d) \/ Network(d) \/ Disconnect(d) \/ Kill(d)
  \/ Tick

\* A phone's main thread runs what is queued for it, and the client comes back
\* after a lost connection, sends what it has and hears what is sent to it.
\* Nothing is assumed of the user or the clock.
Fairness == \A d \in Devices : WF_vars(MainThread(d)) /\ WF_vars(Network(d))

Spec == Init /\ [][Next]_vars
LiveSpec == Spec /\ Fairness

-----------------------------------------------------------------------------
(* Properties.                                                             *)

\* The counters are numbers, and sessions begin when the clock says.
CheckIns == Nat \X {"in"}
Counters == {NumSessions, TotalHours}
Fields == Counters \cup (Nat \X {"in", "out"})

Records == {r \in [Leaves -> Nat \cup {Null}] :
  /\ \A l \in Counters : r[l] \in Nat
  /\ \A k \in Keys : r[In(k)] \in Times \cup {Null}}
Writes == {w \in [leaves : SUBSET Fields, val : Nat \cup {Null}] :
  \A l \in w.leaves :
    /\ l \in Counters => w.val \in Nat
    /\ l \in CheckIns => w.val \in Times \cup {Null}}
Messages == [record : Records, ack : BOOLEAN]
Events ==
  [type : {"value"}, record : Records]
    \cup [type : {"tap"}, n : Nat, total : Nat]
    \cup [type : {"stop"}, n : Nat, total : Nat, in : Times \cup {Null}]
Alerts ==
  [type : {"warning"}]
    \cup [type : {"confirm"}, n : Nat, total : Nat, interval : Intervals, out : Times]

\* No value is none of these.
ASSUME NullOK == Null \notin Records /\ Null \notin Alerts

\* The history is a table of numbered sessions.
TablesOK ==
  /\ DOMAIN sessions = Devices
  /\ \A d \in Devices : sessions[d] # Null => DOMAIN sessions[d] \subseteq Keys

Acks(d) == {i \in DOMAIN inbox[d] : inbox[d][i].ack}

\* The type invariant: every write a client has sent and not seen acknowledged has
\* its acknowledgement on the way, and no write ever leaves a counter without a number.
TypeOK ==
  /\ db \in Records
  /\ conn \in [Devices -> BOOLEAN]
  /\ pending \in [Devices -> Seq(Writes)]
  /\ taken \in [Devices -> Nat]
  /\ \A d \in Devices : taken[d] <= Len(pending[d]) /\ taken[d] = Cardinality(Acks(d))
  /\ inbox \in [Devices -> Seq(Messages)]
  /\ heard \in [Devices -> Records \cup {Null}]
  /\ events \in [Devices -> Seq(Events)]
  /\ waiting \in [Devices -> Nat]
  /\ recording \in [Devices -> BOOLEAN]
  /\ screen \in [Devices -> [title : {"Start", "Stop"}, checkIn : 0..MaxTime \cup {Null}]]
  /\ alert \in [Devices -> Alerts \cup {Null}]
  /\ TablesOK
  /\ now \in Times /\ confirmed \in Nat
  /\ faults \in [taps : 0..MaxTaps, disconnects : 0..MaxDisconnects, kills : 0..MaxKills,
                unshown : SUBSET Devices, lost : SUBSET Devices]

\* However users tap, and whatever the network does: a page that has caught up
\* with a record in which a session runs offers to stop it, and shows when it was
\* checked in.  The listener of viewDidLoad makes up for every toggle of the flag
\* that came to nothing; except when the alert about that session was not shown,
\* another one being open: then the flag stays FALSE until it hears another record.
ShowsSession == \A d \in Devices :
  Caught(d) /\ alert[d] = Null /\ d \notin faults.unshown /\ Running(db) =>
    /\ recording[d] /\ screen[d].title = "Stop"
    /\ screen[d].checkIn = ShownIn(db)

\* The hours of the record never exceed those of the sessions answered Yes, in
\* whatever order stale counters are written back: recordSession adds to a total
\* that was once right.
ConfirmedHours == db[TotalHours] <= confirmed

\* A read of the session to stop finds its check-in: the code force-unwraps it.
StopFindsSession == \A d \in Devices : HasEvent(d, "stop") => Head(events[d]).in # Null

\* With users who wait, an open history lists the sessions counted, row by row,
\* once everything written has arrived: tableView looks up row i under number i.
HistoryComplete == \A d \in Devices :
  sessions[d] # Null /\ (\A e \in Devices : Caught(e)) =>
    sessions[d] = [k \in 1..db[NumSessions] |-> [in |-> db[In(k)], out |-> db[Out(k)]]]

\* With users who wait, the record, as it will be once the writes under way have
\* arrived, goes through check-ins, entries and dismissals only.  The writes are
\* one phone's: nobody taps while another phone has any.
Truth ==
  LET busy == {d \in Devices : pending[d] # <<>>}
  IN  IF busy = {} THEN db ELSE Under(db, pending[CHOOSE d \in busy : TRUE])

Entered(r) == {k \in Keys : Child(r, k)} \ {Next1(r)}

Promised == INSTANCE StudyRecord WITH
  finished <- [k \in Entered(Truth) |-> [in |-> Truth[In(k)], out |-> Truth[Out(k)]]],
  hours <- Truth[TotalHours],
  running <- Field(Truth, In(Next1(Truth)))

RecordSpec == Promised!Spec

\* Every phone catches up with the record again and again, whatever connections
\* were lost and processes died: no write, read or event is left behind.
CatchesUp == \A d \in Devices : []<>Caught(d)

-----------------------------------------------------------------------------
(* The inductive invariant behind ConfirmedHours: whatever the phones have  *)
(* read, queued, sent or are asking about counts no more than c hours; and  *)
(* a phone with anything to do for the record has heard of it.              *)

RecordsUnder(c) == {r \in Records : r[TotalHours] <= c}
WritesUnder(c) == {w \in Writes : TotalHours \in w.leaves => w.val <= c}
MessagesUnder(c) == [record : RecordsUnder(c), ack : BOOLEAN]
EventsUnder(c) == {e \in Events : e.type # "value" => e.total <= c}
AlertsUnder(c) == {a \in Alerts : a.type = "confirm" => a.total <= c}

DataUnder(c) ==
  /\ db \in RecordsUnder(c)
  /\ pending \in [Devices -> Seq(WritesUnder(c))]
  /\ inbox \in [Devices -> Seq(MessagesUnder(c))]
  /\ heard \in [Devices -> RecordsUnder(c) \cup {Null}]
  /\ events \in [Devices -> Seq(EventsUnder(c))]
  /\ alert \in [Devices -> AlertsUnder(c) \cup {Null}]
  /\ \A d \in Devices : events[d] # <<>> \/ alert[d] # Null => heard[d] \in RecordsUnder(c)

ControlOK ==
  /\ conn \in [Devices -> BOOLEAN]
  /\ taken \in [Devices -> Nat]
  /\ \A d \in Devices : taken[d] <= Len(pending[d]) /\ taken[d] = Cardinality(Acks(d))
  /\ \A d \in Devices : conn[d] \/ taken[d] = 0
  /\ waiting \in [Devices -> Nat]
  /\ recording \in [Devices -> BOOLEAN]
  /\ screen \in [Devices -> [title : {"Start", "Stop"}, checkIn : 0..MaxTime \cup {Null}]]
  /\ TablesOK
  /\ now \in Times /\ confirmed \in Nat
  /\ faults \in [taps : 0..MaxTaps, disconnects : 0..MaxDisconnects, kills : 0..MaxKills,
                unshown : SUBSET Devices, lost : SUBSET Devices]

IInv == ControlOK /\ DataUnder(confirmed)
=============================================================================
