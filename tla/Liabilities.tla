---------------------------- MODULE Liabilities -----------------------------
(***************************************************************************)
(* Debts and their events (src/app/services/liabilities.py).  A balance is *)
(* never stored: it is derived from the events up to a moment.             *)
(* A refused request (404 or 422) leaves the tables alone and is no step.  *)
(***************************************************************************)
EXTENDS Integers, Sequences, FiniteSetsExt

CONSTANTS
    DebtCurrencies, \* the currencies a liability is taken in
    EventBodies,    \* the events that may be requested
    Absent,         \* an optional component that is not given
    MaxLiabilities, \* bound: liabilities created
    MaxEvents       \* bound: events recorded

EventTypes == {"disbursement", "repayment", "interest"}

ASSUME LiabilitiesAssumption ==
    /\ MaxLiabilities \in Nat /\ MaxEvents \in Nat
    /\ Absent \notin Int
    /\ EventBodies \subseteq
           [type : EventTypes, currency : DebtCurrencies, amount : Nat \ {0}, occurred_at : Int,
            principal : Nat \cup {Absent}, interest : Nat \cup {Absent}]

VARIABLES
    liabilities,    \* the currency of each liability, in creation order
    events,         \* the event rows, with the liability each belongs to
    debt_audit      \* audit_log rows about liabilities and events

debtVars == <<liabilities, events, debt_audit>>

-----------------------------------------------------------------------------
DebtsInit == liabilities = <<>> /\ events = <<>> /\ debt_audit = <<>>

CreateLiability(currency) ==
    /\ Len(liabilities) < MaxLiabilities
    /\ liabilities' = Append(liabilities, currency)
    /\ debt_audit' = Append(debt_audit, [entity |-> "liability", id |-> Len(liabilities) + 1])
    /\ UNCHANGED events

Given(component) == IF component = Absent THEN 0 ELSE component

(* Fault: the components are not compared with the amount.                 *)
ComponentsUnchecked(body) == TRUE

(* A repayment says how it is split, or is all principal.                  *)
Unsplit(body) == body.principal = Absent /\ body.interest = Absent

ComponentsAgree(body) ==
    \/ body.type # "repayment"
    \/ Unsplit(body)
    \/ Given(body.principal) + Given(body.interest) = body.amount

(* Fault: a disbursement keeps the components it was sent with.            *)
RowWithComponents(liability, body) ==
    [liability |-> liability, type |-> body.type, amount |-> body.amount,
     occurred_at |-> body.occurred_at,
     principal |-> Given(body.principal), interest |-> Given(body.interest)]

EventRow(liability, body) ==
    [liability   |-> liability,
     type        |-> body.type,
     amount      |-> body.amount,
     occurred_at |-> body.occurred_at,
     principal   |-> IF body.type # "repayment" THEN Absent
                     ELSE IF Unsplit(body) THEN body.amount ELSE Given(body.principal),
     interest    |-> IF body.type # "repayment" THEN Absent ELSE Given(body.interest)]

AddEvent(liability, body) ==
    /\ Len(events) < MaxEvents
    /\ body.currency = liabilities[liability]
    /\ ComponentsAgree(body)
    /\ events' = Append(events, EventRow(liability, body))
    /\ debt_audit' = Append(debt_audit,
                            [entity |-> "liability_event", id |-> Len(events) + 1])
    /\ UNCHANGED liabilities

-----------------------------------------------------------------------------
(* outstanding: principal and interest are settled apart.  A repayment's   *)
(* amount is not used.                                                     *)
Upto(liability, at) ==
    {e \in DOMAIN events : events[e].liability = liability /\ events[e].occurred_at <= at}

Amount(es, type) ==
    MapThenSumSet(LAMBDA e : events[e].amount, {e \in es : events[e].type = type})

Settled(es, component(_)) ==
    MapThenSumSet(LAMBDA e : component(events[e]), {e \in es : events[e].type = "repayment"})

PrincipalOutstanding(liability, at) ==
    LET es == Upto(liability, at)
    IN  Amount(es, "disbursement") - Settled(es, LAMBDA e : e.principal)

InterestUnpaid(liability, at) ==
    LET es == Upto(liability, at)
    IN  Amount(es, "interest") - Settled(es, LAMBDA e : e.interest)

TotalOutstanding(liability, at) ==
    PrincipalOutstanding(liability, at) + InterestUnpaid(liability, at)

-----------------------------------------------------------------------------
(* At every moment what is owed is what was lent and what interest was     *)
(* recognised, less every payment once: the split of a repayment neither   *)
(* loses money nor counts interest twice (liabilities.py:3-5).             *)
BalanceAgrees ==
    \A liability \in DOMAIN liabilities, at \in {events[e].occurred_at : e \in DOMAIN events} :
        LET es == Upto(liability, at)
        IN  TotalOutstanding(liability, at) =
                Amount(es, "disbursement") + Amount(es, "interest") - Amount(es, "repayment")
=============================================================================
