# StudyHours: a TLA+ model

StudyHours lets the members of a sorority record how long they study. It is two
applications, one for Android (Java) and one for iOS (Swift), over one Firebase
Realtime Database. There is no server code: what keeps the record of a sister
right, or does not, is what the phones do with the database.

This directory holds TLA+ modules of the parts modelled so far, the TLC
configurations that check them, and TLAPS proofs. `PROJECT.json` lists, for each
definition, the source lines it models; for each run, what it checks; for each
property, a mutation of the model that breaks it; the hazards of the code; and
the disagreements between the code and its own texts.

Paths: `A/` is `src/Android/Frontend/app/src/main/java/com/example/studyhours/`,
`I/` is `src/iOS/StudyHours/StudyHours/`, and `P/` is
`src/iOS/StudyHours/Pods/FirebaseDatabase/Firebase/Database/`.

## The system

The database holds, per account,

    hours/<uid> = { totalHours, numSessions, sisterName, "1": {in, out}, "2": ... }
    users/<uid> = { admin }
    adminCode

| component | where | its state | its operations |
|---|---|---|---|
| Record page, Android | `A/ui/home/HomeFragment.java`, `A/StudySession.java` | toggle button, chronometer, `studySession`, `checkIn`, `stopOffset`, `inherited`, `WasRunning`, open popups | START, STOP, YES, NO, save and restore |
| Submission, Android | `HomeFragment.java:147-217` | a single read and two transactions under way | read `hours/<uid>`, transact on each counter, store the session |
| Activity, Android | `A/MainActivity.java` | fragment back stack | open a page, Back, log out |
| Sign-up and sign-in, Android | `A/EmailPasswordActivity.java` | current user | create account with three writes, sign in, sign out |
| History and sisters' hours, Android | `A/ui/gallery`, `A/ui/sistersHours` | lists, a single read under way | show, open a sister |
| Record page, iOS | `I/RecordViewController.swift` | `recording`, timer, listener | tap, confirm, record, dismiss |
| Sign-up and sign-in, iOS | `I/LoginViewController.swift` | current user | create account with one write, sign in |
| History, iOS | `I/ViewController.swift` | sessions by number, listener | show |
| Database client | `P/Core/FRepo.m`, `P/Core/FPersistentConnection.m` (iOS pod) | transaction queues, outstanding writes, cache | run, send, retry, abort, restore |

The pages talk to the database client by calls, and it answers by callbacks on
the main thread; the phones talk to each other only through the database. The
hard behaviours come from there:

* the counters of one account are changed from several phones, in two separate
  transactions, each of which runs the application's function again on every
  conflict and after a lost connection;
* the function that computes `numSessions` has a side effect, an ordinary
  `setValue` of the session, which is neither undone nor held back when the
  transaction fails;
* popups, reads and transactions finish long after the button was pressed, and
  look at fields of the page at that time;
* Android stops, destroys and restores the page at any moment, and a restored
  toggle button calls the same listener as a pressed one;
* nothing of the client is on disk: a process death forgets all of it.

What makes each part correct:

* submission: each announced submission is counted once in each counter and its
  session is stored; the counters are the sums over the accepted submissions;
  every submission settles;
* record page: what is asked about is what was studied, whatever Android did;
  its state can always be saved;
* iOS recording: one tap starts or stops one session, on any device of the
  account, and a confirmed session is counted once;
* sign-up: an account has a record and its admin flag, or is not usable;
* histories: every counted session is shown, once, in order.

## The modules

| module | what it is |
|---|---|
| `HoursCounters` | the two counters and what a set of submissions adds to each |
| `HoursLedger` | abstract specification of `hours/<uid>` under Android submissions: they are entered in each counter, once |
| `SubmitHours` | the phones, the client and the server of one account; `LedgerSpec` is `HoursLedger` under the identity mapping of `rec` and `counted` |
| `HoursHistory` | what the history pages of both applications list of the record of `SubmitHours` |
| `MCSubmitHours` | constants of `SubmitHours` for TLC |
| `HomeFragment` | the Android record page under the back stack and Android's life cycle |
| `StudyRecord` | abstract specification of `hours/<uid>` under the iOS page: one session is checked in at a time, then entered or dismissed |
| `RecordViewController` | the iOS record page and history on several phones, the client and the server; `RecordSpec` is `StudyRecord` under a refinement mapping |
| `SignUp` | account, record and admin flag, made from either platform |
| `Duration` | how long a session must be, and its hours, on each platform |
| `MCRecordViewController`, `MCSignUp` | constants of these for TLC |
| `HoursTheorems` | theorems about `Amount` and about `Duration` |
| `HoursLedgerProofs`, `SubmitHoursProofs` | theorems about the ledger and `SubmitHours` |
| `SessionStorageProofs` | theorems about the sessions `SubmitHours` stores and what the history pages list of them |
| `HomeFragmentProofs` | theorems about `HomeFragment` |
| `RecordViewControllerProofs` | theorems about `RecordViewController`, whatever its users do |
| `WaitingUserProofs` | theorems about `RecordViewController` when its users wait, or are careful: the refinement of `StudyRecord`, the history |
| `SignUpProofs` | theorems about `SignUp` |

### SubmitHours

One account, a set of devices, each with one record page. A session is a
`StudySession` object; its times are abstracted to a stage (new, running, ended)
and its length to a credit. `Credit` is a function on sets of sessions with the
additivity that sums of hours have, because that is all the properties need;
`MCCredit` takes it as the sum of weights that are all different, so that a
total tells which sessions are in it. The `#.#` rounding of each session's hours
is inside the credit of that session; the floating point of the running total is
not modelled.

| state | code |
|---|---|
| `field`, `stage` | `HomeFragment.studySession` and the object it refers to |
| `popups`, `reading` | open submit popups; submissions waiting for their single read |
| `viewing` | the single read of the history page |
| `txn[d][p]` | the transaction queue of one path: entries with their tries, the first `sent` of them in one put with hash value `base` and new value `val` |
| `outstanding[d]`, `answered[d]` | `outstandingPuts`, in order, and how many of them the server has already taken |
| `cache[d][p]` | what the client last heard of the counter, kept only while somebody listens or a transaction is queued |
| `rec`, `stored` | the counters and the numbered sessions at the server |
| `toasted`, `counted` | history, for the properties |

| action | code |
|---|---|
| `Start`, `Stop` | `onCheckedChanged`, `HomeFragment.java:97-258`; a session too short gets the other popup, which changes nothing |
| `Submit`, `Decline` | the two buttons of the popup, 147-225 |
| `StartTransactions` | `onDataChange` of the single read, 154-207, with all that `runTransaction` does at once: read the cache, run the function, queue, send if nothing is under way |
| `ReadHistory`, `HistoryShown` | `GalleryFragment.java:59-88` |
| `ServerCompareAndPut`, `ServerSet` | the server taking the next write of a connection (external) |
| `TransactionOk`, `TransactionStale`, `AckSet`, `DataUpdate` | the client's handlers of the answers and of data messages |
| `AnswerRead` | the data message that answers a read of `hours/<uid>` while transactions wait behind a sent one, `FRepo.m:659-662` with 1103-1222 |
| `Disconnect`, `Reconnect` | `FPersistentConnection.m` 364-396, 872-895, 988-1018 |
| `Kill` | the process dies; the application starts again with nothing |

The Android Firebase library is not in the repository. Its protocol is read from
the iOS library that is vendored under `Pods`, which implements the same one; the
map names those lines. The server, Android's fragment manager and the death of a
process are external.

Choices a reader should know of:

* The session's `setValue` runs inside `doTransaction`, as a task of its own
  posted to the client: it may be queued before or after the put of
  `totalHours`, and the model takes either order.
* The popups are `PopupWindow`s and not modal: START stays pressable while one is
  open. `Patient` (TRUE in some runs) is a user who waits until the last
  submission has settled.
* Writes that are outstanding hide the server's values from the application, so a
  data message for a counter with a put outstanding raises no event and re-runs
  nothing (`DataUpdate`).
* The message that answers a listen at `hours/<uid>` does raise one, that of the
  read, and the client then runs what waits in the queues under that path again
  (`AnswerRead`). It takes the writes of the whole queue out of what the function sees
  (`FRepo.m:1140-1143`), also that of a transaction already sent: the waiting one
  computes the server's value plus its own part, and after the "ok" of the sent one it
  is sent with the new hash (1063) and accepted. So an accepted submission is lost,
  and when it was worth more than the waiting one, `totalHours` falls. It takes one
  submission sent, one waiting, and a third read (a third YES, or the history page)
  answered only then. `faults.reruns` counts these messages, `MaxReruns` bounds them;
  what the counters add up to is stated up to the first one (`LedgerUntilRerun`,
  `SubmittedIsCounted`), and `NoneCountedTwice` of all of them. Other messages cannot
  do this: those of a counter's own path raise no event, and those of a numbered
  session are under a path with no transaction above it (1280-1292).
* After a lost connection the transactions that waited are sent again with the
  put of `numSessions` before that of `totalHours`; the two are of different
  paths and commute at the server.
* A read may be answered from what transactions keep cached before the server has
  answered it, which is more than the library allows, and a callback may be late
  relative to the user's next press.
* The user opens the history page only while not recording, as `strings.xml:5`
  asks; what happens otherwise is the subject of `HomeFragment`.
* The account exists and its record reads zero in the initial state.

### HomeFragment

The back stack as a sequence of pages, each a record with the fields of the
fragment, its button, its chronometer and the bundle that waits for it. `Checked`
and `Unchecked` are the two branches of the listener; `CreateView`,
`ActivityCreated` and `SaveInstanceState` are the callbacks; `Show` and
`Recreated` are what Android's fragment manager (androidx.fragment 1.0, with
appcompat 1.0.2 in the build file) does around them: a page that becomes visible gets a view,
then its bundle, then its view state, and restoring a checked button calls the
listener; a page on the back stack that is made again gets no view until it is
shown. Actions: `Tick`, `Start`, `Stop`, `Answer`, `Navigate`, `Back`, `Finish`,
`Recreate`, `SaveFails`. `pressed`, `studied` and `left` are history. There is
one clock.

### RecordViewController

One account, several iPhones, each with the record page and, under it, the
history. iOS keeps a running session in the record itself: tapping Start writes
`in` under the number after `numSessions`, so every phone of the account sees
it. The record is a function from leaves (the two counters, and `in` and `out` of
each number) to values; a write sets some leaves, and what the application sees
is the record last heard with the writes still to be acknowledged on top
(`Under`).

| state | code |
|---|---|
| `recording`, `screen` | the flag of `RecordViewController`; the title of the button and the check-in shown |
| `events` | callbacks queued on the main thread: records for the listeners, answers to the read of a tap and to the read of the session to stop |
| `alert` | the alert presented, with what its buttons have captured |
| `waiting` | reads that wait for the first answer of the server |
| `heard`, `pending`, `taken`, `inbox` | the client's copy of the record, its writes, how many of them the server has taken, and what the server has sent |
| `sessions` | `ViewController.sessions` while the history is open |
| `db`, `now` | the record at the server; the clock |
| `confirmed` | history: hours of the sessions answered Yes |
| `faults.unshown` | history: the phones on which an alert was not shown since the page last followed the record |

| action | code (`I/RecordViewController.swift` unless named) |
|---|---|
| `startRecording` | 105-107: the flag is toggled at once, the read is asked for |
| `checkIn`, `readSession` | its callback, 108-145, by the value of the flag *then* |
| `confirmSession`, `rejectSession`, `Crash` | the callback of the second read, 117-140; a session that is not there stops the application at the `!` of 119 |
| `recordSession`, `Decline`, `CloseWarning` | the buttons of the alerts, 125-138 and 152-169: three writes, or one that removes the session |
| `observeValue` | the listeners of both pages, 31-55 and `I/ViewController.swift:54-77` |
| `OpenHistory`, `CloseHistory` | `I/ViewController.swift:50` and Back |
| `TakeWrite`, `Hear`, `Disconnect`, `Reconnect`, `Kill`, `Tick` | server, client, process, clock |

Choices a reader should know of:

* Each local write raises its own event for the listeners, if the record they see
  changes; so do the server's messages. A read is answered from the cache once
  the listener has the record, which it keeps; a read asked for before is answered
  right after the first record.
* The acknowledgement of a write and the record the server sends to its writer
  arrive together.
* UIKit presents one alert at a time; a second one is dropped.
* `Users` says how users behave. *Hasty* ones tap whenever the button is there.
  *Waiting* ones tap when every phone has caught up with the record. *Careful* ones
  also look whether the button says what the record says. What holds for each is
  what the runs and the proofs show: the code needs users who wait to keep its
  record (`RecordPromised`), and those who only wait can still stop the application
  (`RecordTwoPhones`), which careful ones cannot (`CarefulNeverCrashes`).
* A process may die at any moment, whatever its users do, and loses the writes the
  server has not taken. `faults.lost` is history: the phones to which that happened.
  A death between the three writes of `recordSession` (158-163) leaves a session
  counted without its end or its hours, which no user can mend and `StudyRecord`
  does not describe: what the record promises is proved up to such a death, and for
  all others.
* The history is opened from a settled page, is modal to the record page, and
  its listener sees what the other one sees.
* `LongEnough` counts in ticks of forty minutes; the MC module's assumption
  `LimitAgrees` ties it to the comparison in milliseconds, and `MCHours` takes the
  hours from `Duration`. Logging out is in `SignUp`; the minute timer and the
  texts are left out.

### SignUp

The account (one, known to several phones), the current user each phone keeps on
disk, and the fields of `hours/<uid>` and `users/<uid>`. A field is absent, or a
number; the name and the flag are 0 once they are written. Android's
`createAccount` writes totalHours, numSessions and sisterName one after the
other, iOS's `SignUp` in one write; both then read `adminCode` and write the flag
in the callback (`AdminRead`). Android's listener belongs to the activity and is
gone after `onStop` (`Leave`, `Unheard`, `Return`); the iOS closure is not.
An Android signed in meanwhile counts sessions in transactions (`Count`, one counter
at a time; `SubmitHours` has them in detail). An iPhone reads both counters when a tap
stops a session (`startRecording`), keeps what it read in its alert (`asked`), and on
Yes writes both, plus the session, as ordinary values (`recordSession`): they are
queued, sent again after a lost connection, and overwrite what others counted in
between. What it reads is the server's value under its own writes (`View`); without a
connection only its own writes tell it anything. Each session is worth one in both
counters. `cut` is history: an account made while nobody listened, or a
process death with part of the sign-up to do.

Left out: the form's validation, display name and e-mail verification; the
content of `adminCode`, which is there and a number; more than one createUser
call of a phone at once; a write refused by rules that are not in the repository.

### HoursHistory and Duration

`HoursHistory` states over `SubmitHours` what `GalleryFragment` lists (by
number) and what the table of `ViewController` lists (as many rows as there are
sessions with an `out`, each looked up under its position). `Duration` has the two
comparisons with half an hour and the rounding to a tenth. Half-way between two
tenths `HALF_UP` and `%.1f` act on a double that is not exactly half-way, and
`Nearest` allows both.

## The runs

| run | instance | shows |
|---|---|---|
| `SubmitOneDevice` | 1 device, 3 sessions, patient, 2 lost connections | `TypeOK`, `CountedIsStored`, `StoredIsSubmitted`; `SubmissionSettles` under fairness |
| `SubmitTwoDevices` | 2 devices, 3 sessions (2 on one), not patient, history page on one, 1 read's answer that runs waiting transactions again, no failure | `SubmittedIsCounted`, `CountedIsStored`, `KeysBounded`, `NoneCountedTwice`; `LedgerUntilRerun` |
| `SubmitFailures` | 2 devices, 1 session each, patient, 1 lost connection, 1 process death, history page, given up after 2 sends | `CountersAddUp`, `KeysBounded`, `SameHistory`; `SubmissionSettles`, `LedgerSpec` |
| `SubmitClobbered` | 2 devices, 1 session each, patient, no failure | `CountedIsKept` fails |
| `SubmitRestarted` | 1 device, 2 sessions, not patient, no failure | `CountedIsKept` fails |
| `SubmitDisconnected` | 1 device, 2 sessions, 1 lost connection | `ToastIsKept` fails |
| `HomeLifecycle` | 3 pages, 4 ticks, `Long` = 2 | `ClockShowsSession`, `KeptInBackground`, `NeverMoreThanStudied`, `OnlyBackRestarts` |
| `HomeSaveFails` | 3 pages, 3 ticks | `StateCanBeSaved` fails |
| `RecordWaiting` | 2 iPhones, waiting users, 3 ticks, 4 taps, 1 lost connection, history on one | `HistoryComplete`, `RecordSpec`; `CatchesUp` under fairness |
| `RecordHasty` | 2 iPhones, hasty users, 3 ticks, 3 taps, 1 process death | `TypeOK`, `ShowsSession`, `ConfirmedHours` |
| `RecordTwoPhones` | 2 iPhones, waiting users, no failure | `StopFindsSession` fails |
| `SignUpTwoPhones` | an Android and an iPhone, 2 sessions counted, 2 failures (forms left, lost connections, process deaths) | `TypeOK`, `SistersPageOpens`, `HalfMadeOnTheWay`; `FallsOnlyToOldValues`, `EventuallyComplete` |

Why the bounds are enough. Conflict needs two writers of one path: two devices.
A queue with a sent part and a waiting part needs two submissions of one device,
and one more device to make the sent part stale: three sessions. A third read for
`AnswerRead` is that of the history page, on the phone with two submissions. All
runs of `SubmitHours` have `MaxReruns` 1; in those other than `SubmitTwoDevices` it is
never reached, since no transaction waits behind another while a read is out, or no
device has more than one session. In `SubmitTwoDevices` the two sessions of one phone
are worth the same (`AlikeCredit`) and taken up to symmetry (its properties are
invariants and a property of steps). Loss of an
answer and of a resent write needs one lost connection, a mistake about the
first one needs a second. `MaxRetries` is 25 in the client
(`P/Constants/FConstants.m:181`); 2 makes the limit reachable in `SubmitFailures`,
and the runs that keep 25 never reach it. A page restored, left and restored again
needs two pages and a third on top. `MaxDisconnects`, `MaxKills`, `MaxTime` and
`MaxPages` are bounds of the model and no limits of the code.
`StoredIsSubmitted` is claimed for a patient user who does not have the history
page waiting across a session.

On iOS, a session that is entered takes two taps and one tick, and a second
session after it two more taps; a total that is stale needs one start, and a
stop on each of two phones before either answers Yes: three taps. `Limit` is 0 ticks, so that a session
within one tick is too short and one over a tick long enough. The phones of
`RecordHasty` are alike and taken up to symmetry (its properties are invariants);
in `RecordWaiting` one phone is a viewer and there is liveness, and no symmetry is
used. `RecordHasty` has no lost connection, to stay small: `NeverMoreThanConfirmed`
is proved for any number of them. `MaxTaps`, `MaxCounted`, `MaxFailures` and
`MaxReruns` are bounds of the model as well. Two failures of `SignUpTwoPhones` are any
two: a lost connection and another one, or a process death after a form was left. A
counter that falls needs one (a write sent again), or none (an iPhone's count over an
Android's). Deadlock is not checked: in every run the user may
have done all the bounds let her do.

Fairness. Weak fairness for each device of the server taking its next write, of the
client hearing the next answer, of data messages, of reconnection, and of the
read's callback: the network layer and the main thread do these without being
asked, and none of them stays enabled for ever without being done. Nothing is
assumed of the user, of failures, or of the history page. In
`RecordViewController` a phone's main thread and its network are each weakly fair:
the main thread runs what is queued for it, and the client comes back, sends and
hears. In `SignUp` the authentication service answers, callbacks run, and the
client does the same; `Leave` and `Return`, signing in and out are the user's and
not fair.

What fails, and why it matters:

* `SubmitClobbered`. Both phones compute number 1, both write their session under
  it; the one whose put is refused computes 2 and writes again. One session is
  under both numbers, the other is gone, though both are counted
  (`HomeFragment.java:196`).
* `SubmitRestarted`. STOP, START, YES: the transaction stores the running session
  (`HomeFragment.java:106` and `196`).
* `SubmitDisconnected`. The toast says "Hours submitted" before anything is sent;
  a lost connection aborts the transactions and `onComplete` is empty.
* `RecordTwoPhones`. One phone starts and stops a session; the other one has seen
  it start, and nothing tells its page that it has ended: it says Stop, its tap
  clears the flag, and the read finds no session to end
  (`RecordViewController.swift:43`, `:119`).
* `HomeSaveFails`. Turn the phone with the record page on the back stack, then
  turn it again.

What the passing runs are about, where that is not plain from the names:

* `RecordSpec`. `finished` is what is stored under all numbers but the next one,
  `hours` the total, `running` the check-in under the next number, all of `Truth`: the
  record as it will be when the writes on their way have arrived. The three writes
  of `recordSession` are queued at once and become one `Enter`. It says that waiting
  users on several phones never lose, split, or double a session, across lost
  connections, writes sent again and the crash that `StopFindsSession` is about. The
  instance has no process death; `RecordPromised` covers those that lose no write.
* `ShowsSession`. The flag is toggled by taps and set by the listener, and two taps
  in a row run the same branch twice; still a page that has caught up, with no
  alert open, says Stop if a session runs. The one exception is the history
  variable `faults.unshown`. The alert about the running session may be dropped,
  one with an older count being open, and Yes to that one may write what the record
  has already, so that no event follows. The flag then stays FALSE and the page says
  Start while a session runs, until its listener hears another record. It takes two
  phones and five taps, beyond the three of `RecordHasty`; the proof found it.
* `ConfirmedHours`. Phones overwrite each other's totals with what they read
  before an alert. That loses hours; it never makes any up.
* `HistoryComplete` and `SameHistory`. Rows are looked up by position and sessions
  kept by number: right only as long as the numbers have no gap. `SameHistory` is
  about patient users. Of one who presses START while a submission is under way the
  running session may be stored, without `out` (`SubmitRestarted`); the iOS table
  then drops it and, if it is not the last, leaves the last row blank, while
  Android lists it.
* `LedgerUntilRerun` and `NoneCountedTwice`. Up to the first message that runs a
  waiting transaction again, every change of a counter enters submissions that were
  not entered before. From then on counters lose submissions, and the values that
  clients know are sums over fewer; but no order of refusals, messages and failures
  makes one count twice.
* `FallsOnlyToOldValues`. Counters do fall. A sign-up's zeros may reach the server again
  after a lost connection, when another phone of the account has counted already; and
  an iPhone writes what it read before its alert, plus one, over what others have
  counted since, or sends an old count again. The property says that there is no other
  way here: no sign-up's write that arrives for the first time takes a counter back,
  and no Android's counting does (that `AnswerRead` may is the subject of
  `SubmitHours`, whose transactions `Count` takes for one step).
* `SistersPageOpens`. The sisters' page unboxes every record's totalHours; Android
  writes it first, iOS together with the rest, so no order of events leaves a record
  without.

## The proofs

All constants are arbitrary up to the named assumptions: `SessionsFinite`,
`CreditIsAdditive` (`HoursCounters`), `ConstantsOK` (`SubmitHours`,
`HomeFragment`, `RecordViewController`, `SignUp`) and `NullOK`
(`RecordViewController`: no value is neither a record nor an alert). TLC evaluates
them in the runs. Some theorems have a hypothesis of their own, named below:
`NobodyIsForgotten`, `HistoriesAgree` (in the property), `CountedAreKept`, and the
three of `WaitingUserProofs`.

For `SubmitHours`:

* `TypeCorrect`: `Spec => []TypeOK`.
* `CountersCorrect`: `Spec => [](faults.reruns = 0 => CountersAddUp)`. The counters
  are the sums over the accepted submissions, for any number of devices, sessions,
  refusals, lost connections and process deaths, until `AnswerRead` runs a waiting
  transaction again.
* `NeverCountedTwice`: `Spec => []NoneCountedTwice`. Also after that, a counter is the
  sum over some of the accepted submissions.
* `ImplementsLedgerUntilRerun`: `Spec => LedgerUntilRerun`. Every step up to the first
  such message is a step of the ledger or none. `ImplementsLedger`: `Spec /\
  [](faults.reruns = 0) => LedgerSpec`.
* `LedgerAddsUp` (`HoursLedgerProofs`): the ledger's counters are the sums.

`CountersAddUp` alone is not inductive: to know that an accepted put adds exactly
its batch, and nothing already counted, one has to know what the client's queue
and its outstanding put have to do with each other. The invariants come in three
parts, by how long they hold. `IInv` always holds:

* `TransactionsOK`: a path with a queue has something sent, no submission is queued
  twice, and a put with a hash has a value;
* `PutsAgree`: a path has at most one put outstanding, it has one only if
  something is sent, and it is answered exactly when the reply is known, so that
  no old put is ever taken for a new one;
* `OnceOK` and `CountedOK`: a session moves from popup to read to queue to
  counted, on its own device, and is in the queue and counted at once only in a
  batch whose "ok" has not been heard yet;
* `FieldOK`: the field refers to a session of this device that was started.

`SumsInv` always holds too, and is about the values: what the server has, what a
client heard, and what it computed, is the sum over some of the submissions accepted or
queued (`Known`, `Sums`). `ExactInv` holds as long as `faults.reruns = 0`: the put's
value is the hash's value plus what its batch adds, the last output is the same
for the whole queue (`Exact`), and the counters are the sums over all that was accepted.
`AnswerRead` breaks `Exact`, and only that.

TLC also finds `IInv`, `SumsInv` and `ExactInv` (the last up to a rerun) invariant in the
instances of `SubmitFailures` and of a smaller `SubmitTwoDevices`. Each action has a lemma
(`StartOK`, `StopOK`, ..., `AnswerReadOK`) that it keeps `IInv`, and others that it
keeps the values; the lemmas on writes and queues before them say what appending, removing
and acknowledging do to each conjunct; `Inductive` is `Spec => []Invariants`, the three
together. `LedgerStep` shows that only an accepting `ServerCompareAndPut` changes
`rec` or `counted`, and enters its batch.

For the sessions stored (`SessionStorageProofs`), on top of `IInv`:

* `NoKeyBeyondSubmissions`: `Spec => []KeysBounded`, and `EveryNumberIsStored`:
  `Spec => []CountedIsStored`. A function that runs again stores its session under
  another number, so the numbers in use say nothing by themselves. `KeysInv`: up to
  each number a client knows or computed (`Numbers`), up to the counter, and up to
  each number stored or written and on its way, there is no gap (`Filled`), unless a
  process died; none of them is above the submissions made; and what the server took is
  stored. A function that runs from `v` writes under `v + 1`, so it closes the gap it
  would open. `AnswerRead` keeps all this: its outputs are smaller, and no others.
* `HeardAlways`: `Spec => []HeardInv`. What is under way or counted was announced; and,
  as long as `faults.reruns = 0`, `TriesOK`: a put's hash is the sum over some accepted
  submissions, and it was sent at most twice more than these are. For every
  refusal shows the client a sum over more of them than its hash counted, so a
  transaction is refused at most once for each session there is.
* `NobodyIsForgotten`: `Spec => []SubmittedIsCounted` if `MaxRetries >
  Cardinality(Sessions)`. `CoverInv`: what was announced is counted, or waits
  for its read or in a queue, as long as nothing failed and no answer to a read ran
  waiting transactions again. A transaction could still be given up after
  `MaxRetries` sends; `TriesOK` says why it is not. The client has 25
  (`FConstants.m:181`), and with more sessions than that under way at once the
  property may fail: the hypothesis is not idle. After such an answer the property
  fails: a submission is announced and accepted, and in no counter.
* `HistoriesAgree`: `Spec => []SameHistory`. `PatientInv`: a user who does not
  record while she submits has complete sessions written, only. With `KeysInv` the
  numbers stored are `1..n`; `RankedNumber` and `ListedAlike` do the rest.
* `CountedAreKept`: `Spec => []StoredIsSubmitted` for one phone, a patient user
  and no history page waiting; any sessions, lost connections, refusals and aborts.
  `OneInv`: one submission is under way at a time; a put of `numSessions` is sent
  with the value the server has, or with none; and what the record will hold under
  the numbers counted, once the writes on their way have arrived (`Kept`), is what
  was counted, session for session. `LastPutConcat`, `HoldsTail`, `HoldsRemove` and
  the lemmas beside them say how `Kept` changes when writes are appended, taken,
  acknowledged or given up. Each hypothesis is needed: two phones overwrite each
  other (`SubmitClobbered`), an impatient user stores what runs (`SubmitRestarted`),
  and a history page that waits keeps an old counter cached, so that the
  function of a later submission writes under a number that is taken. With these
  hypotheses nothing waits while a read is out, so `AnswerRead` never happens
  (`OneNoRerun`).

TLC finds these invariants to hold on the instances of `SubmitFailures` and
`SubmitOneDevice`, the last one with a process death besides.

For `HomeFragment`, for any clock, back stack and `Long`, all its safety but
`StateCanBeSaved`, which fails:

* `ClockFollowsSession`: `Spec => []ClockShowsSession`.
* `BackgroundLosesNothing`: `Spec => []KeptInBackground`.
* `NeverOvercredited`: `Spec => []NeverMoreThanStudied`.
* `OnlyBackLosesCheckIn`: `Spec => OnlyBackRestarts`. `CheckInsKept` says it of one
  step: each page keeps the check-in it had, in its object or its bundle.

The invariant has to follow a page through its object, its bundle and back.
`FieldsOK`: a page with a view has no bundle, a page that runs counts from its
check-in in whichever holds it, and a restored object has forgotten that it was
restored. `CreditOK`: a running page never counts from before its START, and
from just then while no other page was opened. `StackOK`: the visible page has
been shown, and those below it were left. `PopupOK`: the same of what a popup asks
about.

For `RecordViewController`, for any set of phones, users, clock, limit, hours and
bounds:

* `TypeCorrect`: `Spec => []TypeOK`. The part that says something: the writes the
  server has taken are as many as the acknowledgements on their way, so the client
  drops a write only if it was taken.
* `NeverMoreThanConfirmed`: `Spec => []ConfirmedHours`.
* `PageShowsSession`: `Spec => []ShowsSession`.

`ConfirmedHours` alone is not inductive: the total comes from an alert, which had it
from an event, which had it from the client's view. `IInv` bounds all of them:
`DataUnder(c)` says that the record, every copy heard or on its way, every write
queued, every event and every alert counts at most `c` hours, and it holds of
`c = confirmed`. Answering Yes raises `confirmed` by what the write may exceed the
old total (`DataMonotonic`, `recordSessionOK`); nothing else raises any of them.
`ControlOK` has the types and the acknowledgements. `PhoneStep` covers the steps of
the user and the main thread, `NetworkStep` those of the network; each action has a
lemma, and `Inductive` puts them together.

`ShowsSession` speaks of pages that have caught up; in between, the flag, the
screen and the record disagree in many ways. `FollowInv` says what stays true.
`Current`: the last record queued for a listener is what the phone sees, and the
taps queued after it have read its number. `Follows`, when a session runs: there is
still a record or a tap to handle; or the flag is TRUE and the screen shows the
session; or the flag is FALSE and the answer or the alert about this very session
is coming. A tap alone changes nothing but the flag, and its read is a
tap to handle; handling it with the flag TRUE checks in or shows the warning, with the flag
FALSE leads to the last case; and closing that alert writes, which queues a record,
unless the write changes nothing: the exception above.

For `RecordViewController` with users who wait or are careful (`WaitingUserProofs`),
for any phones, viewers, clock, limit, hours and bounds, lost connections and process
deaths included, up to a death that loses a write the server has not taken
(`faults.lost`):

* `RecordPromised`: `Spec /\ [](faults.lost = {}) => RecordSpec` if `Users # "hasty"`.
* `HistoryListsAll`: `Spec => [](faults.lost = {} => HistoryComplete)` if
  `Users # "hasty"`.
* `CarefulNeverCrashes`: `Spec => [](faults.lost = {} => StopFindsSession)` if
  `Users = "careful"`. `RecordTwoPhones` shows that waiting is not enough for it.

A death with writes that the server has taken, but not acknowledged, loses nothing and is
covered. One that loses writes is not, and cannot be: of the three writes of
`recordSession` the number may have arrived and the end not (`swift:158-163`), and then
a session is counted that has no end. Nothing in the code repairs it, whatever the users
do. What holds across every death, for every user, is `NeverMoreThanConfirmed` and
`PageShowsSession`.

The code checks nothing of what these users do. Hasty ones break `RecordSpec`: after
three taps before the first answer, the callbacks check in twice.

`Truth`, the record as it will be when the writes under way have arrived, is a choice
among the phones with writes, so the refinement mapping is a function of the state
only if no two phones write at once. `TurnsInv`, beside `IInv`, says that of any two
phones one is `Calm`, with no write and no question for the user. The other may be

* `Deciding`: nothing is written, it has heard just what the server has (`Synced`),
  and it is at one of three places: a tap with its read (`Asked`: no session runs if the
  flag is TRUE), the read of the session to stop (`Found`, with the number, the total
  and the check-in, if any, of the record as it is), or the question whether to keep the
  session (`Confirming`, with the numbers of that same record);
* `Writing`: its writes have different leaves (`Apart`), and the server has the leaves
  of those it took (`Landed`). Hence a write sent again after a lost connection changes
  nothing, and taking the next one does not change `Truth`.

That a tap never checks in over a session that runs is not in the guard of waiting
users: the flag is TRUE because a page that has caught up shows the session
(`ShowsSession`), which holds unless an alert was dropped, and none is when users
wait (`AllShown`). So `FollowInv` is part of the induction (`WaitingInv`). The converse,
a flag that is TRUE with no session, is what waiting allows: it leads to the crash,
which writes nothing.

`TruthOK` gives the record its shape: sessions `1..n` with both ends, at most one
begun after them, nothing else; and `n` is no more than the taps, so that the keys
suffice. `Moved` is a step of the record in terms of leaves; `MovedRefines` and
`MovedPromised` show that it is a step of `StudyRecord`, with the three writes of
`recordSession` as one `Enter`; each action has a lemma that it keeps `TurnsInv` and
moves `Truth` so, and `NextInTurn` combines them.

`HistoryComplete` compares a table that only grows with a record that a phone hears of
late. `HistoryInv` rests on this: sessions that have ended never change (`MovedGrows`).
So every record of an earlier time, at the server, in a message or in a callback, has
some of the ended sessions of `Truth` (`Below`), and no check-in being written or
removed is of one that has ended (`Untouched`). The table has rows of ended sessions
only, and when nothing is left to handle, all those of the record last heard (`Lists`);
`Current` of `FollowInv` says that this is the record.

TLC finds `TurnsInv`, `AllShown`, `FollowInv` and `HistoryInv` to hold on the instance
of `RecordWaiting` with a process death besides, and `StopFindsSession` on the same one
with careful users.

For `SignUp`, for any phones, Android or not, and any bounds, all its safety:

* `TypeCorrect`: `Spec => []TypeOK`.
* `HoursAlwaysThere`: `Spec => []SistersPageOpens`. `HoursFirst` strengthens it:
  in every queue, what else is written of the record comes after the hours, or the
  hours are there; and hours the server took are there. A lost connection only
  starts the queue again (`QueueMonotonic`), an acknowledgement only takes away
  what the server has (`QueueTail`).
* `HalfMadeOnlyOnTheWay`: `Spec => []HalfMadeOnTheWay`. `CountFollows`: a write of
  the hours brings the count, or has it in the same queue on an Android, or the
  count is there.
* `CountersFallOnlyToOldValues`: `Spec => FallsOnlyToOldValues`. `WrittenOnce`: before
  there is an account no phone may write a counter; then one does at a time, first
  as the answer it waits for and then as one write of its queue; and once the
  counter is there, that write has been to the server. So a sign-up's write that lowers
  it was taken before; any other write of a counter is an iPhone's. `Counting` tells them
  apart: an iPhone's count is never 0, since it was worked out from numbers.

For `Duration`: `NearestExists`, `PlatformsAgree` (the two roundings differ by a
tenth at most), `AcceptedIsHalfHour`, `ThresholdsDiffer` (the platforms differ on
exactly half an hour and nowhere else).

Model-checked only: `SubmissionSettles`, `CatchesUp` and `EventuallyComplete`, liveness
under fairness, which is out of the prover's reach.

## Not modelled

* One record under both applications at once. A sister with an Android and an
  iPhone can have an Android submission numbered like the session that runs on the
  iPhone; `GalleryFragment` throws on a session without `out`. Both are hazards
  without a property.
* The list of sisters (`SistersHoursFragment`): its map by name and total; names.
* Logging out of either application during a session; a second clock for the
  wall time; fragments after they are detached.
* Security rules of the database, which are not in the repository; the validation
  of the forms; layouts, texts and formats; view models, delegates and the
  project's tests, which are empty templates.
* The vendored pods other than the database client (analytics, authentication,
  leveldb, nanopb, GTMSessionFetcher): third-party code that this program calls
  and does not define. They are most of the C and C++ in the repository; the
  program's own code is Java and Swift, and modelling more of the pods would say
  nothing about it. Of the database client: the sync tree beyond `Under`,
  queries, persistence (not enabled), onDisconnect writes.

## Plan

1. One record under both platforms: the transactions of `SubmitHours` against the
   check-ins of `RecordViewController`.
2. A wall clock apart from elapsed time in `HomeFragment`.
3. A weaker rule for users of iPhones than to wait for every phone: one phone used at a
   time, whether or not it has caught up.
