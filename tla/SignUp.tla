-------------------------------- MODULE SignUp --------------------------------
(***************************************************************************)
(* One account, from the form of EmailPasswordActivity (Android) or        *)
(* LoginViewController (iOS) to the record hours/<uid> and the flag        *)
(* users/<uid> the other pages count on.  The account is made by the       *)
(* authentication service; the record by ordinary writes of the phone that *)
(* asked for it, in the callback of the answer.  Meanwhile other phones    *)
(* count sessions in the record: an Android in transactions, an iPhone by  *)
(* ordinary writes of what it read before plus one.                        *)
(***************************************************************************)
EXTENDS Integers, Sequences, FiniteSets, FiniteSetsExt

CONSTANTS
  Phones,         \* phones whose user knows the e-mail and password
  Android,        \* those that are Androids
  MaxCounted,     \* bound on the sessions counted meanwhile
  MaxFailures,    \* bound on forms left, connections lost and processes that die
  Null            \* no value

ASSUME ConstantsOK ==
  /\ Android \subseteq Phones
  /\ MaxCounted \in Nat /\ MaxFailures \in Nat
  /\ Null \notin Nat

VARIABLES
  account,   \* authentication service: is there an account?
  db,        \* database server: the fields of the account
  page,      \* "form", "creating", "away", "signedIn" (its buttons) or "app"
  call,      \* the call of createUser: "none", "sent", or its answer "ok" or "taken"
  user,      \* is a current user kept on the phone?
  reading,   \* is the read of adminCode waiting?
  asked,     \* the counters an iPhone read for the session it asks about, or Null
  conn,      \* is the database client connected?
  pending,   \* writes not seen acknowledged, in order
  taken,     \* how many of those the server took on this connection
  cut,       \* history: was the sign-up cut short?
  faults     \* sessions counted and failures so far

auth   == <<account, call, user>>
client == <<reading, conn, pending, taken>>
vars   == <<auth, db, page, asked, client, cut, faults>>

Counters == {"totalHours", "numSessions"}
Fields == Counters \cup {"sisterName", "admin"}

\* A write sets some fields; tried says that the server took it before.
Put(fs, v) == [fields |-> fs, val |-> v, tried |-> FALSE]

\* A sign-up sets fields to 0, which stands for the name and the flag as well.
Write(fs) == Put(fs, 0)
OfSignUp(w) == w.val = 0

Apply(r, w) == [f \in Fields |-> IF f \in w.fields THEN w.val ELSE r[f]]

\* A field as a client sees it, under the writes it has out.
Over(p, f) == {i \in DOMAIN pending[p] : f \in pending[p][i].fields}
View(p, f) == IF Over(p, f) = {} THEN db[f] ELSE pending[p][Max(Over(p, f))].val

\* Mutant: the count before the hours.
AndroidWritesSwapped ==
  <<Write({"numSessions"}), Write({"totalHours"}), Write({"sisterName"})>>

AndroidWrites ==
  <<Write({"totalHours"}), Write({"numSessions"}), Write({"sisterName"})>>

\* Mutant: the fields one after the other.
IosWritesOneByOne ==
  <<Write({"sisterName"}), Write({"totalHours"}), Write({"numSessions"})>>

IosWrites == <<Write({"sisterName", "numSessions", "totalHours"})>>

-----------------------------------------------------------------------------
Init ==
  /\ account = FALSE
  /\ db = [f \in Fields |-> Null]
  /\ page = [p \in Phones |-> "form"]
  /\ call = [p \in Phones |-> "none"]
  /\ user = [p \in Phones |-> FALSE]
  /\ reading = [p \in Phones |-> FALSE]
  /\ asked = [p \in Phones |-> Null]
  /\ conn = [p \in Phones |-> TRUE]
  /\ pending = [p \in Phones |-> <<>>]
  /\ taken = [p \in Phones |-> 0]
  /\ cut = FALSE
  /\ faults = [counted |-> 0, failures |-> 0]

\* createAccount, SignUp: the request goes out.
createAccount(p) ==
  /\ page[p] = "form" /\ call[p] = "none"
  /\ page' = [page EXCEPT ![p] = "creating"]
  /\ call' = [call EXCEPT ![p] = "sent"]
  /\ UNCHANGED <<account, user, db, asked, client, cut, faults>>

\* The service makes the account, once.
CreateUser(p) ==
  /\ call[p] = "sent"
  /\ account' = TRUE
  /\ call' = [call EXCEPT ![p] = IF account THEN "taken" ELSE "ok"]
  /\ UNCHANGED <<user, db, page, asked, client, cut, faults>>

\* The callback of a new account: a read of adminCode, the writes, the main page.
Created(p) ==
  /\ page[p] = "creating" /\ call[p] = "ok"
  /\ call' = [call EXCEPT ![p] = "none"]
  /\ user' = [user EXCEPT ![p] = TRUE]
  /\ reading' = [reading EXCEPT ![p] = TRUE]
  /\ pending' = [pending EXCEPT ![p] =
       @ \o (IF p \in Android THEN AndroidWrites ELSE IosWrites)]
  /\ page' = [page EXCEPT ![p] = "app"]
  /\ UNCHANGED <<account, db, asked, conn, taken, cut, faults>>

\* The callback of a failure: a message, and the form again.
Refused(p) ==
  /\ page[p] = "creating" /\ call[p] = "taken"
  /\ call' = [call EXCEPT ![p] = "none"]
  /\ page' = [page EXCEPT ![p] = "form"]
  /\ UNCHANGED <<account, user, db, asked, client, cut, faults>>

\* onStop takes away the activity's listener, the request goes on; in iOS the
\* closure stays.
Leave(p) ==
  /\ p \in Android /\ page[p] = "creating" /\ faults.failures < MaxFailures
  /\ page' = [page EXCEPT ![p] = "away"]
  /\ faults' = [faults EXCEPT !.failures = @ + 1]
  /\ UNCHANGED <<auth, db, asked, client, cut>>

\* onStart: updateUI shows the buttons of a current user, or the form.
Return(p) ==
  /\ page[p] = "away"
  /\ page' = [page EXCEPT ![p] = IF user[p] THEN "signedIn" ELSE "form"]
  /\ UNCHANGED <<auth, db, asked, client, cut, faults>>

\* An answer nobody listens for: the SDK keeps the new user all the same.
Unheard(p) ==
  /\ page[p] # "creating" /\ call[p] \in {"ok", "taken"}
  /\ call' = [call EXCEPT ![p] = "none"]
  /\ user' = [user EXCEPT ![p] = @ \/ call[p] = "ok"]
  /\ cut' = (cut \/ call[p] = "ok")
  /\ UNCHANGED <<account, db, page, asked, client, faults>>

\* signIn, SignIn and its callback.
signIn(p) ==
  /\ page[p] = "form" /\ account
  /\ user' = [user EXCEPT ![p] = TRUE]
  /\ page' = [page EXCEPT ![p] = "app"]
  /\ UNCHANGED <<account, call, db, asked, client, cut, faults>>

\* signOut, logout: the database client keeps its writes.
signOut(p) ==
  /\ page[p] \in {"signedIn", "app"}
  /\ asked' = [asked EXCEPT ![p] = Null]
  /\ user' = [user EXCEPT ![p] = FALSE]
  /\ page' = [page EXCEPT ![p] = "form"]
  /\ UNCHANGED <<account, call, db, client, cut, faults>>

\* A signed-in Android counts a session in a counter it finds, once the server has
\* the writes before it; see SubmitHours for the transaction.
Count(p, f) ==
  /\ p \in Android /\ page[p] = "app" /\ conn[p] /\ taken[p] = Len(pending[p])
  /\ db[f] # Null /\ faults.counted < MaxCounted
  /\ db' = [db EXCEPT ![f] = @ + 1]
  /\ faults' = [faults EXCEPT !.counted = @ + 1]
  /\ UNCHANGED <<auth, page, asked, client, cut>>

\* The reads of an iPhone's tap that stops a session, which the alert keeps: the
\* counters as the client has them.  Without a connection only what the phone
\* wrote itself is news.  The next tap reads again, and so it does after a No.
startRecording(p) ==
  /\ p \notin Android /\ page[p] = "app" /\ faults.counted < MaxCounted
  /\ \A f \in Counters : View(p, f) # Null /\ (conn[p] \/ Over(p, f) # {})
  /\ asked' = [asked EXCEPT ![p] = [f \in Counters |-> View(p, f)]]
  /\ UNCHANGED <<auth, db, page, client, cut, faults>>

\* Yes: the number and the hours of what was read and this session, written as any
\* other value.
Counts(c) ==
  <<Put({"numSessions"}, c["numSessions"] + 1), Put({"totalHours"}, c["totalHours"] + 1)>>

recordSession(p) ==
  /\ page[p] = "app" /\ asked[p] # Null /\ faults.counted < MaxCounted
  /\ pending' = [pending EXCEPT ![p] = @ \o Counts(asked[p])]
  /\ asked' = [asked EXCEPT ![p] = Null]
  /\ faults' = [faults EXCEPT !.counted = @ + 1]
  /\ UNCHANGED <<auth, db, page, reading, conn, taken, cut>>

-----------------------------------------------------------------------------
(* The database client of a phone.                                         *)

\* Mutant: the callback starts the counters again.
AdminReadAll(p) ==
  /\ reading[p] /\ conn[p]
  /\ reading' = [reading EXCEPT ![p] = FALSE]
  /\ pending' = [pending EXCEPT ![p] = Append(@, Write(Fields))]
  /\ UNCHANGED <<auth, db, page, asked, conn, taken, cut, faults>>

\* The answer to the read of adminCode: the flag is written.
AdminRead(p) ==
  /\ reading[p] /\ conn[p]
  /\ reading' = [reading EXCEPT ![p] = FALSE]
  /\ pending' = [pending EXCEPT ![p] = Append(@, Write({"admin"}))]
  /\ UNCHANGED <<auth, db, page, asked, conn, taken, cut, faults>>

TakeWrite(p) ==
  LET i == taken[p] + 1 IN
  /\ conn[p] /\ i <= Len(pending[p])
  /\ db' = Apply(db, pending[p][i])
  /\ pending' = [pending EXCEPT ![p][i].tried = TRUE]
  /\ taken' = [taken EXCEPT ![p] = i]
  /\ UNCHANGED <<auth, page, asked, reading, conn, cut, faults>>

\* Mutant: what was sent is counted on.
AckUncounted(p) ==
  /\ conn[p] /\ taken[p] > 0
  /\ pending' = [pending EXCEPT ![p] = Tail(@)]
  /\ UNCHANGED <<auth, db, page, asked, reading, conn, taken, cut, faults>>

Ack(p) ==
  /\ conn[p] /\ taken[p] > 0
  /\ pending' = [pending EXCEPT ![p] = Tail(@)]
  /\ taken' = [taken EXCEPT ![p] = @ - 1]
  /\ UNCHANGED <<auth, db, page, asked, reading, conn, cut, faults>>

Disconnect(p) ==
  /\ conn[p] /\ faults.failures < MaxFailures
  /\ conn' = [conn EXCEPT ![p] = FALSE]
  /\ taken' = [taken EXCEPT ![p] = 0]
  /\ faults' = [faults EXCEPT !.failures = @ + 1]
  /\ UNCHANGED <<auth, db, page, asked, reading, pending, cut>>

\* Mutant: what is not acknowledged is forgotten.
ReconnectForgetful(p) ==
  /\ ~conn[p]
  /\ conn' = [conn EXCEPT ![p] = TRUE]
  /\ pending' = [pending EXCEPT ![p] = <<>>]
  /\ UNCHANGED <<auth, db, page, asked, reading, taken, cut, faults>>

\* restoreState: the writes are sent again, in order.
Reconnect(p) ==
  /\ ~conn[p]
  /\ conn' = [conn EXCEPT ![p] = TRUE]
  /\ UNCHANGED <<auth, db, page, asked, reading, pending, taken, cut, faults>>

\* The process dies: the current user is on disk, nothing else is.
Kill(p) ==
  /\ faults.failures < MaxFailures
  /\ page' = [page EXCEPT ![p] = IF user[p] THEN "app" ELSE "form"]
  /\ call' = [call EXCEPT ![p] = "none"]
  /\ reading' = [reading EXCEPT ![p] = FALSE]
  /\ conn' = [conn EXCEPT ![p] = TRUE]
  /\ pending' = [pending EXCEPT ![p] = <<>>]
  /\ taken' = [taken EXCEPT ![p] = 0]
  /\ asked' = [asked EXCEPT ![p] = Null]
  /\ cut' = (cut \/ call[p] = "ok" \/ reading[p]
                 \/ \E i \in DOMAIN pending[p] : OfSignUp(pending[p][i]))
  /\ faults' = [faults EXCEPT !.failures = @ + 1]
  /\ UNCHANGED <<account, user, db>>

Callback(p) == Created(p) \/ Unheard(p)

Network(p) == AdminRead(p) \/ TakeWrite(p) \/ Ack(p) \/ Reconnect(p)

Next == \E p \in Phones :
  \/ createAccount(p) \/ CreateUser(p) \/ Callback(p) \/ Refused(p)
  \/ Leave(p) \/ Return(p) \/ signIn(p) \/ signOut(p)
  \/ (\E f \in Counters : Count(p, f)) \/ startRecording(p) \/ recordSession(p)
  \/ Network(p) \/ Disconnect(p) \/ Kill(p)

\* Requests are answered, callbacks run, and a client comes back after a lost
\* connection and sends what it has.
Fairness == \A p \in Phones :
  WF_vars(CreateUser(p)) /\ WF_vars(Callback(p)) /\ WF_vars(Network(p))

Spec == Init /\ [][Next]_vars /\ Fairness

-----------------------------------------------------------------------------
(* Properties.                                                             *)

Writes == [fields : SUBSET Fields, val : Nat, tried : BOOLEAN]

\* The type invariant: a client has sent no more than it has to send.
TypeOK ==
  /\ account \in BOOLEAN /\ cut \in BOOLEAN
  /\ db \in [Fields -> Nat \cup {Null}]
  /\ page \in [Phones -> {"form", "creating", "away", "signedIn", "app"}]
  /\ call \in [Phones -> {"none", "sent", "ok", "taken"}]
  /\ user \in [Phones -> BOOLEAN] /\ reading \in [Phones -> BOOLEAN]
  /\ conn \in [Phones -> BOOLEAN]
  /\ pending \in [Phones -> Seq(Writes)]
  /\ asked \in [Phones -> [Counters -> Nat] \cup {Null}]
  /\ taken \in [Phones -> Nat] /\ \A p \in Phones : taken[p] <= Len(pending[p])

\* Whoever dies or is disconnected during a sign-up, a record that is there has its
\* totalHours: SistersHoursFragment unboxes that of every record of the sorority,
\* so one without would keep the page from opening for everybody.
SistersPageOpens ==
  (\E f \in Fields \ {"admin"} : db[f] # Null) => db["totalHours"] # Null

\* A record with hours and no count, on which the iOS record page stops at
\* `numSessions!', is seen only while an Android's sign-up still has the count to
\* write, or after one was cut short.
HalfMadeOnTheWay ==
  db["totalHours"] # Null /\ db["numSessions"] = Null =>
    \/ cut
    \/ \E p \in Android : \E i \in DOMAIN pending[p] : "numSessions" \in pending[p][i].fields

\* A counter falls only to an old value: when the server takes a sign-up's zero for
\* the second time, after a lost connection, or an iPhone's count, which it worked
\* out from what it had read.  An Android's counting lowers none, and no sign-up
\* starts a counter again that another phone has counted in.
FallsOnlyToOldValues ==
  [][\A f \in Counters : db[f] # Null =>
       \/ db'[f] >= db[f]
       \/ \E p \in Phones :
            /\ taken'[p] = taken[p] + 1
            /\ LET w == pending[p][taken'[p]]
               IN  IF OfSignUp(w) THEN w.tried ELSE p \notin Android]_vars

\* A sign-up that is not cut short ends with every field of the account written.
Complete == \A f \in Fields : db[f] # Null

EventuallyComplete == (account /\ ~cut) ~> (Complete \/ cut)
=============================================================================
