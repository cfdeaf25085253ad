----------------------------- MODULE Inflation ------------------------------
(***************************************************************************)
(* Cumulative inflation (src/app/services/inflation.py): the monthly rates *)
(* of a window compounded.  A date is <<year, month, day>>, a period       *)
(* <<year, month>>; a rate is a number of 1/RateUnit, a factor a fraction  *)
(* <<num, den>>.                                                           *)
(***************************************************************************)
EXTENDS Integers, Sequences, FiniteSetsExt, SequencesExt

CONSTANTS RateUnit

ASSUME InflationAssumption == RateUnit \in Nat \ {0}

Period == Int \X (1..12)
Date == Int \X (1..12) \X (1..31)

MonthOf(date) == <<date[1], date[2]>>

NotLater(p, q) == p[1] < q[1] \/ (p[1] = q[1] /\ p[2] <= q[2])

Precedes(date, other) ==
    \/ date[1] < other[1]
    \/ date[1] = other[1] /\ date[2] < other[2]
    \/ date[1] = other[1] /\ date[2] = other[2] /\ date[3] < other[3]

(* Fault: the year turns a month early.                                    *)
FollowingEarly(p) == IF p[2] >= 11 THEN <<p[1] + 1, 1>> ELSE <<p[1], p[2] + 1>>

Following(p) == IF p[2] + 1 > 12 THEN <<p[1] + 1, 1>> ELSE <<p[1], p[2] + 1>>

MonthsInRange(from, to) ==
    LET months[p \in Period] ==
            IF NotLater(p, to) THEN <<p>> \o months[Following(p)] ELSE <<>>
    IN  months[from]

(* One plus the inflation of the window; a month without a rate has none.  *)
Compounded(rates, periods) ==
    FoldLeft(LAMBDA f, p : <<f[1] * (RateUnit + IF p \in DOMAIN rates THEN rates[p] ELSE 0),
                             f[2] * RateUnit>>,
             <<1, 1>>, periods)

(* A window that ends before it begins has no inflation, also within one   *)
(* month.                                                                  *)
CumulativeInflation(rates, from, to) ==
    IF Precedes(to, from) THEN <<1, 1>>
    ELSE Compounded(rates, MonthsInRange(MonthOf(from), MonthOf(to)))
=============================================================================
