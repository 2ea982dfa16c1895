--------------------------- MODULE MonthlyArchive ---------------------------
(***************************************************************************)
(* What a customer is promised about statements (statements/tasks.py,      *)
(* "the answer does not change between the 1st and the 8th"; models.py,    *)
(* AccountQuerySet.with_balance): a month is stated once per account, with *)
(* the balances before and after it, and nothing is posted into a month    *)
(* that has been stated. Statements.tla is the code that has to keep it.   *)
(***************************************************************************)
EXTENDS Integers, Sequences, Functions

VARIABLES
    book,       \* the lines of the ledger
    issued      \* the balances stated, by account and month

archiveVars == <<book, issued>>

(* A month is two instants long: all but its last day, and its last day.   *)
Begin(m) == 2 * m
Until(m) == 2 * m + 2

Before(a, instant) ==
    LET lines == {n \in DOMAIN book : book[n].account = a /\ book[n].at < instant}
    IN  SumFunction([n \in lines |-> book[n].amount])

Stated(a, m) == \E s \in issued : s.account = a /\ s.month = m

Init == book = <<>> /\ issued = {}

Post ==
    /\ Len(book') > Len(book)
    /\ SubSeq(book', 1, Len(book)) = book
    /\ \A n \in Len(book) + 1..Len(book') : \A s \in issued :
          s.account = book'[n].account => book'[n].at >= Until(s.month)
    /\ UNCHANGED issued

Issue ==
    /\ \E s \in issued' \ issued :
          /\ ~Stated(s.account, s.month)
          /\ s.opening = Before(s.account, Begin(s.month))
          /\ s.closing = Before(s.account, Until(s.month))
          /\ issued' = issued \cup {s}
    /\ UNCHANGED book

Spec == Init /\ [][Post \/ Issue]_archiveVars
=============================================================================
