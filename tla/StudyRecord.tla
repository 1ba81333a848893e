----------------------------- MODULE StudyRecord -----------------------------
(***************************************************************************)
(* What the iOS record page promises of the record hours/<uid>, with no    *)
(* phones, reads or network: one session at a time is checked in, and ends *)
(* either entered under the next number with its hours, or dismissed.      *)
(***************************************************************************)
EXTENDS Naturals, Sequences

CONSTANTS
  Times,   \* when a session may begin and end
  Hours,   \* interval -> the hours it is worth
  Limit,   \* an interval is entered only if it is longer
  Null     \* no session is checked in

VARIABLES
  finished, \* the sessions entered, by number
  hours,    \* totalHours
  running   \* when the running session was checked in

Init == finished = <<>> /\ hours = 0 /\ running = Null

CheckIn ==
  /\ running = Null
  /\ running' \in Times
  /\ UNCHANGED <<finished, hours>>

Enter ==
  /\ running # Null
  /\ \E out \in Times :
       /\ out > running + Limit
       /\ finished' = Append(finished, [in |-> running, out |-> out])
       /\ hours' = hours + Hours[out - running]
  /\ running' = Null

Dismiss ==
  /\ running # Null
  /\ running' = Null
  /\ UNCHANGED <<finished, hours>>

Next == CheckIn \/ Enter \/ Dismiss

Spec == Init /\ [][Next]_<<finished, hours, running>>
=============================================================================
