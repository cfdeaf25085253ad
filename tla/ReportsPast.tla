---------------------------- MODULE ReportsPast -----------------------------
(***************************************************************************)
(* The reports of a moment beside the reports of the same moment over      *)
(* tables without the rows of later dates.                                 *)
(***************************************************************************)
EXTENDS Reports

(* The tables as they would be had nothing later been entered.             *)
Past(at) == INSTANCE Reports WITH
    price_rows <- {p \in price_rows : p.as_of <= Day(at)},
    posted     <- {row \in posted : row.occurred_at <= at},
    events     <- [e \in {e \in DOMAIN events : events[e].occurred_at <= at} |-> events[e]]

(* Net worth and performance up to a moment never change through a price,  *)
(* a transaction, its reversal or a debt event of a later date: each of    *)
(* the queries behind them stops at the moment (valuation.py:38,           *)
(* holdings.py:30, liabilities.py:52, performance.py:55).                  *)
PastIsFixed == \A at \in Days : Report(at) = Past(at)!Report(at)
=============================================================================
