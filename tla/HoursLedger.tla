----------------------------- MODULE HoursLedger -----------------------------
(***************************************************************************)
(* What the record hours/<uid> promises, with no phones, network or        *)
(* retries: submissions are entered in each counter, once, some at a time. *)
(***************************************************************************)
EXTENDS HoursCounters

VARIABLES
  rec,      \* the values of the counters
  counted   \* the submissions entered, per counter

Init ==
  /\ rec = [p \in Paths |-> 0]
  /\ counted = [p \in Paths |-> {}]

\* A group of submissions, none entered before, is entered in one counter.
Enter(p, S) ==
  /\ S \subseteq Sessions \ counted[p]
  /\ rec' = [rec EXCEPT ![p] = @ + Amount(p, S)]
  /\ counted' = [counted EXCEPT ![p] = @ \cup S]

Next == \E p \in Paths, S \in (SUBSET Sessions) \ {{}} : Enter(p, S)

Spec == Init /\ [][Next]_<<rec, counted>>

\* The counters are exactly the sums over the submissions entered.
AddsUp ==
  /\ counted \in [Paths -> SUBSET Sessions]
  /\ rec = [p \in Paths |-> Amount(p, counted[p])]
=============================================================================
