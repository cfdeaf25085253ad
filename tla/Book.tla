-------------------------------- MODULE Book --------------------------------
(***************************************************************************)
(* What the ledger promises, without lots: a book of dated entries that    *)
(* may be voided, in which no balance is ever negative at any entry.  A    *)
(* request is carried out and leaves the book covered, or it is refused    *)
(* and leaves the book alone.                                              *)
(***************************************************************************)
EXTENDS Integers, FiniteSetsExt

CONSTANTS
    Pairs,   \* the balances: one per (account, asset)
    Days     \* the moments an entry may be dated

VARIABLES
    book,    \* the entries that count
    answer   \* "accepted" or "refused", the last request's

NotAfter(e, f) == e.day < f.day \/ (e.day = f.day /\ e.seq <= f.seq)

Balance(entries, pair) == MapThenSumSet(LAMBDA e : e.delta[pair], entries)

(* Every balance is covered at every entry of the book.                    *)
Covered(entries) ==
    \A f \in entries, pair \in Pairs :
        Balance({e \in entries : NotAfter(e, f)}, pair) >= 0

Init == book = {} /\ answer = "accepted"

(* An entry is booked under a number of its own, or an old one is voided;  *)
(* an entry that no longer counts may be filed away.                       *)
Enter ==
    \E e \in book' \ book :
        /\ e.seq \in Nat /\ e.day \in Days /\ \A pair \in Pairs : e.delta[pair] \in Int
        /\ \A f \in book : f.seq < e.seq
        /\ book' = book \cup {e}

Void == \E e \in book : book' = book \ {e}

Accept ==
    /\ Enter \/ Void \/ book' = book
    /\ Covered(book')
    /\ answer' = "accepted"

Refuse == answer' = "refused" /\ UNCHANGED book

Next == Accept \/ Refuse

Spec == Init /\ [][Next]_<<book, answer>>
=============================================================================
