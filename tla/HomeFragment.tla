----------------------------- MODULE HomeFragment -----------------------------
(***************************************************************************)
(* The record page of the Android application under the life cycle of its  *)
(* fragment: the user starts and stops sessions, opens other pages, goes   *)
(* Back, turns the phone, lets the app run in the background.              *)
(*                                                                         *)
(* A page on the back stack keeps its HomeFragment object but loses its    *)
(* view; when Android destroys the activity the objects go too and are     *)
(* made again from what onSaveInstanceState saved.  In both cases the      *)
(* restored toggle button calls onCheckedChanged as if START were pressed. *)
(***************************************************************************)
EXTENDS Integers, Sequences, SequencesExt

CONSTANTS
  Long,      \* shortest session that may be submitted
  MaxTime,   \* bound on the clock
  MaxPages,  \* bound on the back stack
  Null       \* no object, no bundle

\* What onSaveInstanceState puts into a bundle.
Bundles == [clock : Int, running : BOOLEAN, offset : Int, checkIn : Int]

ASSUME ConstantsOK ==
  /\ Long \in Nat \ {0}
  /\ MaxTime \in Nat
  /\ MaxPages \in Nat \ {0}
  /\ Null \notin Int /\ Null \notin Bundles

VARIABLES
  now,      \* System.currentTimeMillis and SystemClock.elapsedRealtime
  pages,    \* the fragments, the visible one last
  popups,   \* submit popups that are open
  crashed   \* has a handler thrown?

vars == <<now, pages, popups, crashed>>

-----------------------------------------------------------------------------
(* A page.  For a HomeFragment:                                            *)
(*   view        recordButton and chronometer are set in this object       *)
(*   checked     the toggle button, or its saved view state                *)
(*   base        the time the chronometer counts from                      *)
(*   in          studySession.in, Null without a studySession              *)
(*   checkIn, stopOffset, inherited, WasRunning   fields of the fragment   *)
(*   saved       the bundle that waits for onActivityCreated               *)
(* and, of its history, when START was pressed and whether the user opened *)
(* another page since.                                                     *)

NewPage(home) ==
  [home |-> home, view |-> FALSE, checked |-> FALSE, base |-> 0, in |-> Null,
   checkIn |-> 0, stopOffset |-> 0, inherited |-> FALSE, WasRunning |-> FALSE,
   saved |-> Null, pressed |-> 0, left |-> FALSE]

\* Mutants: a restored button restarts the session; so does none that was ever
\* restored running; START leaves the clock alone.
CheckedAnew(f) ==
  [f EXCEPT !.checked = TRUE, !.inherited = FALSE, !.base = now, !.in = now, !.checkIn = now]
CheckedEither(f) ==
  LET g == [f EXCEPT !.checked = TRUE, !.inherited = FALSE] IN
  IF f.inherited \/ f.WasRunning THEN g
  ELSE [g EXCEPT !.base = now, !.in = now, !.checkIn = now]
CheckedClockless(f) ==
  LET g == [f EXCEPT !.checked = TRUE, !.inherited = FALSE] IN
  IF f.inherited /\ f.WasRunning THEN g
  ELSE [g EXCEPT !.in = now, !.checkIn = now]

\* onCheckedChanged(true).
Checked(f) ==
  LET g == [f EXCEPT !.checked = TRUE, !.inherited = FALSE] IN
  IF f.inherited /\ f.WasRunning THEN g
  ELSE [g EXCEPT !.base = now, !.in = now, !.checkIn = now]

\* onCheckedChanged(false).
Unchecked(f) ==
  [f EXCEPT !.checked = FALSE, !.inherited = FALSE, !.stopOffset = now - f.base]

\* onCreateView: a new button and a new chronometer.
CreateView(f) == [f EXCEPT !.view = TRUE, !.base = now]

\* onActivityCreated, with the bundle if there is one.
ActivityCreated(f) ==
  LET g == [f EXCEPT !.inherited = TRUE, !.WasRunning = f.saved.running,
                     !.stopOffset = f.saved.offset, !.checkIn = f.saved.checkIn,
                     !.saved = Null]
  IN
  IF f.saved = Null THEN f
  ELSE IF f.saved.running
    THEN [g EXCEPT !.base = f.saved.clock, !.in = f.saved.checkIn]
    ELSE [g EXCEPT !.base = now - f.saved.offset]

\* The page becomes visible; restoring a checked button calls its listener.
Show(f) ==
  LET g == ActivityCreated(CreateView(f)) IN
  IF ~f.home THEN f ELSE IF g.checked THEN Checked(g) ELSE g

ShowLast(ps) == IF ps = <<>> THEN ps ELSE Front(ps) \o <<Show(Last(ps))>>

\* onSaveInstanceState, and the new object that gets the bundle.
SaveInstanceState(f) ==
  [clock |-> f.base, running |-> f.checked, offset |-> f.stopOffset, checkIn |-> f.checkIn]

Recreated(f) ==
  [NewPage(f.home) EXCEPT !.checked = f.checked, !.pressed = f.pressed, !.left = f.left,
     !.saved = IF f.home THEN SaveInstanceState(f) ELSE Null]

Visible == IF pages = <<>> THEN NewPage(FALSE) ELSE Last(pages)

-----------------------------------------------------------------------------
Init ==
  /\ now = 0
  /\ pages = ShowLast(<<NewPage(TRUE)>>)
  /\ popups = {}
  /\ crashed = FALSE

Tick ==
  /\ now < MaxTime
  /\ now' = now + 1
  /\ UNCHANGED <<pages, popups, crashed>>

\* The user presses START.
Start ==
  /\ Visible.home /\ ~Visible.checked
  /\ pages' = Front(pages) \o <<[Checked(Visible) EXCEPT !.pressed = now, !.left = FALSE]>>
  /\ UNCHANGED <<now, popups, crashed>>

\* The user presses STOP: a session that was long enough is asked about.
Stop ==
  /\ Visible.home /\ Visible.checked
  /\ pages' = Front(pages) \o <<Unchecked(Visible)>>
  /\ popups' = IF now - Visible.in < Long THEN popups
               ELSE popups \cup {[page |-> Len(pages), diff |-> now - Visible.in,
                                  studied |-> now - Visible.pressed,
                                  left |-> Visible.left]}
  /\ UNCHANGED <<now, crashed>>

\* YES or NO.  YES shows a toast on the activity of the fragment, which is gone
\* when the fragment was popped.
Answer(p, yes) ==
  /\ p \in popups
  /\ popups' = popups \ {p}
  /\ crashed' = (crashed \/ (yes /\ p.page = 0))
  /\ UNCHANGED <<now, pages>>

\* A page is chosen in the drawer: it replaces the visible one, which goes to the
\* back stack.
Navigate(home) ==
  /\ Len(pages) < MaxPages
  /\ pages' = ShowLast(Append([i \in DOMAIN pages |-> [pages[i] EXCEPT !.left = TRUE]],
                              NewPage(home)))
  /\ UNCHANGED <<now, popups, crashed>>

\* The popups are no modal dialogs: Back goes to the activity.
Back ==
  /\ pages # <<>>
  /\ pages' = ShowLast(Front(pages))
  /\ popups' = {[p EXCEPT !.page = IF @ = Len(pages) THEN 0 ELSE @] : p \in popups}
  /\ UNCHANGED <<now, crashed>>

\* Back with no page left, or signing out: the activity finishes, and the next one
\* starts with a record page of its own.
Finish ==
  /\ pages' = ShowLast(<<NewPage(TRUE)>>)
  /\ popups' = {}
  /\ UNCHANGED <<now, crashed>>

\* Android saves every page before it stops the activity.
CanSave == \A i \in DOMAIN pages : pages[i].home => pages[i].view

\* The phone is turned, or the process dies in the background and comes back: the
\* pages are made again, and only the visible one gets a view.
Recreate ==
  /\ CanSave
  /\ pages' = ShowLast([i \in DOMAIN pages |-> Recreated(pages[i])])
  /\ popups' = {}
  /\ UNCHANGED <<now, crashed>>

\* Stopped while a page has no view to ask for its state.
SaveFails ==
  /\ ~CanSave
  /\ crashed' = TRUE
  /\ UNCHANGED <<now, pages, popups>>

Next ==
  /\ ~crashed
  /\ \/ Tick \/ Start \/ Stop
     \/ \E p \in popups, yes \in BOOLEAN : Answer(p, yes)
     \/ \E home \in BOOLEAN : Navigate(home)
     \/ Back \/ Finish \/ Recreate \/ SaveFails

Spec == Init /\ [][Next]_vars

-----------------------------------------------------------------------------
(* Properties.                                                             *)

\* The check-in of a page, in its object or in its bundle.
CheckIn(f) == IF f.saved = Null THEN f.checkIn ELSE f.saved.checkIn

\* While the record page is visible and running, the clock on it counts from the
\* very moment the session would be credited from, whatever was done to the page.
ClockShowsSession ==
  Visible.home /\ Visible.checked => Visible.in # Null /\ Visible.base = Visible.in

\* "You can let the app run in the background and use your phone as normal"
\* (strings.xml:5): unless another page was opened, what is asked about is exactly
\* the time since START was pressed, however often Android stopped, destroyed and
\* restored the app.
KeptInBackground == \A p \in popups : ~p.left => p.diff = p.studied

\* No restored or reopened page ever credits more than was studied: a session never
\* begins before START was pressed on its page.
NeverMoreThanStudied ==
  /\ \A i \in DOMAIN pages : pages[i].checked => CheckIn(pages[i]) >= pages[i].pressed
  /\ \A p \in popups : p.diff <= p.studied

\* The check-in of a page that stays running is lost only by going Back to it, and
\* not even then if Android destroyed the activity meanwhile: the popups, opening
\* pages, turning the phone and waiting never touch it.
OnlyBackRestarts ==
  [][\A i \in DOMAIN pages \cap DOMAIN pages' :
       pages[i].checked /\ pages'[i].checked =>
         \/ CheckIn(pages'[i]) = CheckIn(pages[i])
         \/ Len(pages') < Len(pages) /\ pages[i].saved = Null]_vars

\* "Save myVar's value in saveInstanceState bundle" (HomeFragment.java:50): the
\* state of the record page can be saved whenever Android stops the activity.
StateCanBeSaved == CanSave
=============================================================================
