----------------------------- MODULE HoursHistory -----------------------------
(***************************************************************************)
(* The history pages of both applications over the record that             *)
(* submissions make: GalleryFragment lists the stored sessions by number,  *)
(* ViewController looks up as many rows as it found sessions, by position. *)
(***************************************************************************)
EXTENDS SubmitHours

\* The i-th of a set of numbers, in ascending order.
Ranked(ks, i) == CHOOSE k \in ks : Cardinality({j \in ks : j <= k}) = i

\* onDataChange: a sorted set of the numbers, and the session of each.
Gallery(st) ==
  [i \in 1..Cardinality(DOMAIN st) |-> st[Ranked(DOMAIN st, i)].s]

\* numberOfRowsInSection and cellForRowAt: only sessions with an out are kept, and
\* a row whose number is missing stays blank.
Table(st) ==
  LET sessions == {k \in DOMAIN st : st[k].ended} IN
  [row \in 1..Cardinality(sessions) |->
     IF row \in sessions THEN st[row].s ELSE Null]

\* Both platforms show a sister the same sessions in the same order, and no blank
\* row, once nothing is being submitted and unless a process died: neither a lost
\* connection nor a submission given up leaves a gap among the numbers.  Of a user
\* who starts a session while one is being submitted, the running one may be
\* stored, which only GalleryFragment lists.
SameHistory ==
  (Patient /\ Quiescent /\ faults.kills = 0) => Gallery(stored) = Table(stored)
=============================================================================
