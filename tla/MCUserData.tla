----------------------------- MODULE MCUserData -----------------------------
(***************************************************************************)
(* An instance of UserData for TLC: ann, who has a goal, an account and a  *)
(* rate of inflation, bob, an asset of the system, and somebody who is     *)
(* about to register.                                                      *)
(***************************************************************************)
EXTENDS UserData, TLC

CONSTANTS ann, bob

ARow(table, owner, key, columns) ==
    [table |-> table, owner |-> owner, deleted |-> FALSE, key |-> key, columns |-> columns]

November == <<1, 11>>
December == <<1, 12>>

Rows ==
    <<ARow("goal", ann, None, [title |-> "house", status |-> "active"]),
      ARow("account", ann, None, [name |-> "bank"]),
      ARow("asset", None, None, [name |-> "gold"]),
      ARow("inflation_rate", ann, <<ann, November>>, [rate |-> 1])>>

Request(op, table, user, key, target, set, closes) ==
    [op |-> op, table |-> table, user |-> user, key |-> key, target |-> target,
     set |-> set, closes |-> closes]

Upsert(table, user, key, set) == Request("upsert", table, user, key, 0, set, FALSE)
Change(table, user, id, set) == Request("change", table, user, None, id, set, FALSE)
NoColumns == [c \in {} |-> None]

(* The first request may create a goal, which is then number 5.            *)
GoalRequests ==
    {Request("create", "goal", bob, None, 0, [title |-> "car", status |-> "active"], FALSE),
     Change("goal", ann, 1, [title |-> "car"]),
     Change("goal", ann, 1, [title |-> "house", status |-> "achieved"]),
     Change("goal", bob, 5, [title |-> "boat"])}

AccountRequests ==
    {Change("account", ann, 2, [name |-> "broker"]),
     Request("change", "account", ann, None, 2, NoColumns, TRUE),
     Change("asset", ann, 3, [name |-> "broker"])}

KeyedRequests ==
    {Request("register", "user", None, "cid", 0, [password |-> "x"], FALSE)}
    \cup {Upsert("inflation_rate", ann, <<ann, p>>, [rate |-> 2]) : p \in {November, December}}
    \cup {Upsert("assumptions", bob, bob, [hurdle_mode |-> "fixed"])}

SomeRequests == GoalRequests \cup AccountRequests \cup KeyedRequests
=============================================================================
