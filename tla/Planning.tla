------------------------------ MODULE Planning ------------------------------
(***************************************************************************)
(* What the program says about plans: allocation against a target          *)
(* (src/app/services/allocation.py), progress of goals (goals.py),         *)
(* projection of net worth (projection.py), and performance against        *)
(* inflation and a hurdle (performance.py, inflation.py).  All of it is    *)
(* computed from the tables of Reports; goals, assumptions and inflation   *)
(* rates, which UserData keeps, are constants here.                        *)
(*                                                                         *)
(* A share is a number of 1/RateUnit, a return or a rate the fraction of   *)
(* one plus it.  Division is exact here; Decimal rounds at 28 digits.      *)
(***************************************************************************)
EXTENDS ReportsPast, Inflation

CONSTANTS
    ClassOf,        \* the class of an asset
    Goals,          \* the goals, in creation order
    Rates,          \* the inflation rates, by period
    DateOf,         \* the year, month and day of the month of a day
    AnnualGrowths,  \* the annual growths that may be assumed
    Growth,         \* external: the twelfth root of one plus an annual growth
    Contributions,  \* the monthly contributions to project with
    Horizon         \* bound: months projected

ASSUME PlanningAssumption ==
    /\ Assets \subseteq DOMAIN ClassOf
    /\ Horizon \in Nat /\ Contributions \subseteq Int /\ AnnualGrowths \subseteq Int
    /\ Growth[2 * RateUnit] = RateUnit
    /\ \A annual \in AnnualGrowths, n \in 1..3 :
           2 * RateUnit + annual * n > 0 => Growth[2 * RateUnit + annual * n] \in Int
    /\ DOMAIN Goals \subseteq Nat
    /\ \A g \in DOMAIN Goals :
           /\ IsFiniteSet(DOMAIN Goals[g].target)
           /\ \A k \in DOMAIN Goals[g].target : Goals[g].target[k] \in Int
           /\ Goals[g].target_value \in Int \cup {None}

NoValues == [k \in {} |-> 0]
Of(values, key) == IF key \in DOMAIN values THEN values[key] ELSE 0
SumOf(values) == MapThenSumSet(LAMBDA k : values[k], DOMAIN values)
Magnitude(n) == IF n < 0 THEN -n ELSE n

-----------------------------------------------------------------------------
(* The value of each class that is held, what has no value left out.       *)
ClassValues(holdings, ccy) ==
    [class \in {ClassOf[pair[2]] : pair \in DOMAIN holdings} |->
        SumIn([pair \in {p \in DOMAIN holdings : ClassOf[p[2]] = class} |-> holdings[pair]], ccy)]

(* _target_from_goal: the goal that is named, or the latest active one.    *)
TargetFromGoal(goal_id) ==
    LET named == {g \in DOMAIN Goals :
                     /\ Goals[g].type = "target_allocation"
                     /\ IF goal_id # None THEN g = goal_id ELSE Goals[g].status = "active"}
    IN  IF named = {} THEN NoValues ELSE Goals[Max(named)].target

(* Fault: only the classes of the target are balanced.                     *)
TargetClasses(class_values, target) == DOMAIN target

AllClasses(class_values, target) == DOMAIN class_values \cup DOMAIN target

(* Without any value there are no current shares.                          *)
Shares(class_values) == IF SumOf(class_values) = 0 THEN NoValues ELSE class_values

(* Drifts are numbers of 1/(RateUnit * base), amounts to buy, or to sell   *)
(* when negative, of 1/RateUnit.                                           *)
Base(class_values) == IF SumOf(class_values) = 0 THEN 1 ELSE SumOf(class_values)

Drift(class_values, target, keys) ==
    [k \in keys |-> Of(Shares(class_values), k) * RateUnit - Of(target, k) * Base(class_values)]

AllocationReport(class_values, target) ==
    LET keys == AllClasses(class_values, target)
    IN  [total  |-> SumOf(class_values),
         drift  |-> Drift(class_values, target, keys),
         amount |-> [k \in keys |-> Of(target, k) * SumOf(class_values)
                                        - Of(class_values, k) * RateUnit]]

-----------------------------------------------------------------------------
(* Progress.  An allocation is reached as far as its drifts are small:     *)
(* 100 per cent less half their sum.                                       *)
CurrencyOf(goal) == IF goal.currency = USD THEN USD ELSE IRR

ProgressAllocation(class_values, goal) ==
    LET drift == Drift(class_values, goal.target,
                       DOMAIN goal.target \cup DOMAIN Shares(class_values))
        whole == 2 * RateUnit * Base(class_values)
    IN  [drift   |-> drift,
         percent |-> <<100 * (whole - SumOf([k \in DOMAIN drift |-> Magnitude(drift[k])])), whole>>]

AtLeast(fraction, n) == fraction[1] * fraction[2] >= n * fraction[2] * fraction[2]

ProgressNetWorth(net_worth, goal) ==
    LET current == net_worth[CurrencyOf(goal)]
    IN  IF goal.target_value \in {None, 0} THEN [current |-> current, remaining |-> None, achieved |-> FALSE]
        ELSE [current   |-> current,
              remaining |-> goal.target_value - current,
              achieved  |-> AtLeast(<<100 * current, goal.target_value>>, 100)]

-----------------------------------------------------------------------------
(* Performance of a window in a currency, nominal and real; inflation of   *)
(* -100 per cent is a division by zero.                                    *)
CurrencyBlock(w, inflation) ==
    LET twr == Twr(w)
    IN  [nominal |-> twr,
         real    |-> IF inflation[1] = 0 THEN Raised
                     ELSE <<twr[1] * inflation[2], twr[2] * inflation[1]>>]

(* Fault: the growth of the dollar upside down.                            *)
RialGrowth(from, to) ==
    LET fx_from == FxUsdIrr(from)
        fx_to   == FxUsdIrr(to)
    IN  IF {fx_from, fx_to} \cap {None, 0} # {} THEN <<1, 1>> ELSE <<fx_from, fx_to>>

UsdGrowth(from, to) ==
    LET fx_from == FxUsdIrr(from)
        fx_to   == FxUsdIrr(to)
    IN  IF {fx_from, fx_to} \cap {None, 0} # {} THEN <<1, 1>> ELSE <<fx_to, fx_from>>

Inflated(from, to) == CumulativeInflation(Rates, DateOf[from], DateOf[to])

Hurdle(settings, from, to) ==
    CASE settings.hurdle_mode = "fixed"      -> <<RateUnit + OrElse(settings.hurdle_fixed_rate, 0), RateUnit>>
      [] settings.hurdle_mode = "inflation"  -> Inflated(from, to)
      [] settings.hurdle_mode = "usd_growth" -> UsdGrowth(from, to)

Beats(return, rate) == return[1] * rate[2] > rate[1] * return[2]

PerformanceReport(rial, dollar) ==
    LET inflation == Inflated(Day(rial.from), Day(rial.to))
    IN  [irr       |-> CurrencyBlock(rial, inflation),
         usd       |-> CurrencyBlock(dollar, inflation),
         inflation |-> inflation]

InflationComparison(rial, dollar, settings) ==
    LET report == PerformanceReport(rial, dollar)
    IN  [real_irr        |-> report.irr.real,
         usd_based       |-> report.usd.nominal,
         beats_inflation |-> Beats(report.irr.nominal, report.inflation),
         beats_hurdle    |-> Beats(report.irr.nominal,
                                   Hurdle(settings, Day(rial.from), Day(rial.to)))]

-----------------------------------------------------------------------------
(* Projection.  A scenario halves, keeps or exceeds by half the growth     *)
(* that is assumed.  Growth maps twice one plus the annual growth, in      *)
(* 1/RateUnit, to one plus the monthly.                                    *)
Scenarios == [pessimistic |-> 1, realistic |-> 2, optimistic |-> 3]

MonthlyFactor(annual, scenario) ==
    LET base == 2 * RateUnit + annual * Scenarios[scenario]
    IN  IF base <= 0 THEN 0 ELSE Growth[base]

(* Fault: an empty portfolio has no bucket for contributions.              *)
SharesOnly(class_values) == Shares(class_values)

(* How a contribution is shared, in 1/Base.                                *)
ContributionShares(class_values) ==
    IF SumOf(class_values) = 0 THEN [class \in {"fiat"} |-> 1] ELSE class_values

(* RateUnit to the power of a number of months.                            *)
Compounding(months) == Product([m \in 1..months |-> RateUnit])

(* The net worth after each month: every class grows, then takes its share *)
(* of the contribution.  Values are numbers of                             *)
(* 1/(Base * Compounding(month)); in dollars they are what they are at the *)
(* rate of today, if there is one.                                         *)
Project(class_values, liabilities_irr, fx, growth, contribution, scenario) ==
    LET shares  == ContributionShares(class_values)
        base    == Base(class_values)
        classes == DOMAIN class_values \cup DOMAIN shares
        factor  == [c \in classes |-> MonthlyFactor(Of(growth, c), scenario)]
        values[month \in 0..Horizon] ==
            IF month = 0 THEN [c \in classes |-> Of(class_values, c) * base]
            ELSE [c \in classes |-> values[month - 1][c] * factor[c]
                                       + contribution * Of(shares, c) * Compounding(month)]
    IN  [month \in 1..Horizon |->
            LET unit    == base * Compounding(month)
                net_irr == SumOf(values[month]) - liabilities_irr * unit
            IN  [net_worth_irr |-> <<net_irr, unit>>,
                 net_worth_usd |-> IF fx \in {None, 0} THEN None
                                   ELSE <<net_irr * One, unit * fx>>]]

-----------------------------------------------------------------------------
GoalsOf(type) == {g \in DOMAIN Goals : Goals[g].type = type}

(* The class values once every amount of a report is bought or sold, as    *)
(* numbers of 1/RateUnit.                                                  *)
Rebalanced(values, report) ==
    [k \in DOMAIN values \cup DOMAIN report.amount |->
        Of(values, k) * RateUnit + Of(report.amount, k)]

(* A target that shares out the whole.                                     *)
SharesOutAll(target) == SumOf(target) = RateUnit /\ \A k \in DOMAIN target : target[k] >= 0

Full(progress) == progress.percent[1] = 100 * progress.percent[2]

TargetReached(values, goal, report, progress) ==
    /\ \A k \in DOMAIN report.drift : Of(progress.drift, k) = report.drift[k]
    /\ SharesOutAll(goal.target) /\ report.total # 0 =>
           LET after == Rebalanced(values, report)
           IN  /\ SumOf(after) = report.total * RateUnit
               /\ Full(ProgressAllocation(after, goal))
               /\ progress.percent[1] >= 0
               /\ Full(progress) <=> \A k \in DOMAIN report.amount : report.amount[k] = 0

(* Who buys and sells what the allocation report of a goal says has then   *)
(* reached it: nothing is added to the portfolio or left over, and the     *)
(* progress of the goal, which is computed elsewhere, is 100 per cent, and *)
(* is so before only when there is nothing to buy or sell                  *)
(* (allocation.py:53-72, goals.py:187-196).                                *)
RebalanceReachesTarget ==
    LET holdings == ValuedHoldings(Now)
    IN  ~Raises(holdings) =>
            \A g \in GoalsOf("target_allocation") :
                LET values == ClassValues(holdings, CurrencyOf(Goals[g]))
                IN  TargetReached(values, Goals[g],
                                  AllocationReport(values, TargetFromGoal(g)),
                                  ProgressAllocation(values, Goals[g]))

(* Where the reports of both currencies can be compared: the FX rate is    *)
(* known, one rate, and changes at no flow, and there is something to      *)
(* return at every start.                                                  *)
Comparable(rial, dollar) ==
    /\ Computed(rial) /\ Computed(dollar)
    /\ \A t \in DOMAIN rial.value \cup DOMAIN rial.flow :
           FxUsdIrr(Day(t)) \notin {None, 0} /\ ~QuotedTwice(Day(t))
    /\ \A t \in DOMAIN rial.flow : FxUsdIrr(Day(t)) = FxUsdIrr(Day(t - 1))
    /\ \A cut \in Cuts(dollar) : StartOf(dollar, cut) # 0

Gains(return) == return[1] > return[2]

(* A hurdle is a change of units: to beat the growth of the dollar is to   *)
(* gain in dollars, and to beat inflation is to gain in real terms         *)
(* (inflation.py:54-59, 92-99, performance.py:203-204).                    *)
HurdlesAreUnits ==
    \A d \in Spans :
        LET rial == Window(d[1], d[2], IRR)
            dollar == Window(d[1], d[2], USD)
        IN  Comparable(rial, dollar) =>
                LET said == [mode \in {"usd_growth", "inflation"} |->
                                InflationComparison(rial, dollar, [hurdle_mode |-> mode,
                                                               hurdle_fixed_rate |-> None])]
                IN  /\ said["usd_growth"].beats_hurdle <=> Gains(said["usd_growth"].usd_based)
                    /\ said["inflation"].real_irr # Raised =>
                           /\ said["inflation"].beats_inflation <=> Gains(said["inflation"].real_irr)
                           /\ said["inflation"].beats_hurdle <=> Gains(said["inflation"].real_irr)

(* What assets and equal contributions become when all grow alike.         *)
Annuity(assets, contribution, factor) ==
    LET sum[month \in 0..Horizon] ==
            IF month = 0 THEN assets
            ELSE sum[month - 1] * factor + contribution * Compounding(month)
    IN  sum

(* When every class grows alike, only the sums matter: a projection is the *)
(* growth of the live net worth's assets and an annuity of the             *)
(* contributions, however the portfolio is made up and also when it is     *)
(* empty; and a goal of net worth is reached when nothing remains          *)
(* (projection.py:45-75, goals.py:158-170).                                *)
ContributionsKept ==
    LET holdings == ValuedHoldings(Now)
        debts    == Debts(Now)
        live     == NetWorth(holdings, debts)
        owed     == SumIn(debts, IRR)
    IN  live # Raised =>
            /\ \A annual \in AnnualGrowths, contribution \in Contributions,
                  scenario \in DOMAIN Scenarios :
                   LET alike     == [c \in Range(ClassOf) \cup {"fiat"} |-> annual]
                       projected == Project(ClassValues(holdings, IRR), owed, FxUsdIrr(Day(Now)),
                                            alike, contribution, scenario)
                       assets    == Annuity(live.net_worth[IRR] + owed, contribution,
                                            MonthlyFactor(annual, scenario))
                   IN  \A month \in 1..Horizon :
                           LET net == projected[month].net_worth_irr
                           IN  (net[1] + owed * net[2]) * Compounding(month)
                                   = assets[month] * net[2]
            /\ \A g \in GoalsOf("target_net_worth") :
                   LET progress == ProgressNetWorth(live.net_worth, Goals[g])
                   IN  progress.remaining # None /\ Goals[g].target_value > 0 =>
                           (progress.achieved <=> progress.remaining <= 0)
=============================================================================
