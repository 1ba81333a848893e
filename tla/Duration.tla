------------------------------- MODULE Duration -------------------------------
(***************************************************************************)
(* How long a session must be, and the hours it is worth, on each platform.*)
(* Intervals are in milliseconds, hours in tenths: both platforms keep one *)
(* decimal.                                                                *)
(***************************************************************************)
EXTENDS Integers

HalfHour == 1800000
Tenth == 360000

\* HomeFragment: diff >= 1800000.
LongEnoughAndroid(diff) == diff >= HalfHour

\* RecordViewController: interval > 1800000.
LongEnoughIos(interval) == interval > HalfHour

\* One decimal of interval / 3600000, by DecimalFormat("#.#") with HALF_UP or by
\* "%.1f": the nearest tenth.  Half-way between two, the double is already off, and
\* either may come out.
Nearest(interval, t) == 2 * interval <= Tenth * (2 * t + 1)
                     /\ 2 * interval >= Tenth * (2 * t - 1)
=============================================================================
