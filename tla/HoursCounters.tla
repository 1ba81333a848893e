---------------------------- MODULE HoursCounters ----------------------------
(***************************************************************************)
(* The two counters of the record hours/<uid> and what a set of submitted  *)
(* sessions adds to each: one per session to numSessions, the session's    *)
(* hours to totalHours.                                                    *)
(***************************************************************************)
EXTENDS Integers, FiniteSets

CONSTANTS
  Sessions,  \* StudySession objects the app may create
  Credit     \* hours credited for a set of submissions

NumSessions == "numSessions"
TotalHours  == "totalHours"
Paths == {NumSessions, TotalHours}

Amount(p, S) == IF p = NumSessions THEN Cardinality(S) ELSE Credit[S]

ASSUME SessionsFinite == IsFiniteSet(Sessions)

\* Hours add up, and a session long enough to be submitted is worth some.
ASSUME CreditIsAdditive ==
  /\ Credit \in [SUBSET Sessions -> Nat]
  /\ Credit[{}] = 0
  /\ \A S, T \in SUBSET Sessions :
        S \cap T = {} => Credit[S \cup T] = Credit[S] + Credit[T]
  /\ \A s \in Sessions : Credit[{s}] > 0

=============================================================================
