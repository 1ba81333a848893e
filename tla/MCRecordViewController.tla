----------------------- MODULE MCRecordViewController -----------------------
(* Instances of RecordViewController for TLC.  The clock ticks every forty   *)
(* minutes, so that one tick is long enough and two are not worth twice one. *)
EXTENDS RecordViewController, Duration, TLC

CONSTANTS d1, d2

TickMs == 2400000
MCHours == [i \in Intervals |-> CHOOSE t \in 0..(7 * MaxTime) : Nearest(i * TickMs, t)]

\* `interval > Limit' counted in ticks is the comparison in milliseconds.
ASSUME LimitAgrees ==
  \A i \in Intervals : i > Limit <=> LongEnoughIos(i * TickMs)

\* The phones are alike where none of them is a viewer.
Alike == Permutations(Devices)
=============================================================================
