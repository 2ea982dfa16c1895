----------------------------- MODULE Statements -----------------------------
(***************************************************************************)
(* Monthly statements, backend/statements: runs of generate_monthly, fired *)
(* by Beat or by hand, that read the journal, the orders and the price     *)
(* ticks while transfers, fills, the market and the purge go on, write a   *)
(* file and then a row for every account and every portfolio, and settle a *)
(* race between two runs by the unique indexes of the row.                 *)
(*                                                                         *)
(* Time is a counter of instants, two to a month. The clock may advance    *)
(* between the stamping of a line and its commit.                          *)
(***************************************************************************)
EXTENDS Market, Sequences, Functions

CONSTANTS
    Desks,          \* processes that may run generate_monthly
    Users, Accounts,
    Chart,          \* owner, type and instrument (0 for none) of each account
    Deals,          \* what may be posted: sequences of [account, amount, shares]
    InitialPrice    \* of every instrument, before its first tick

Brokerage == 0      \* the account_id of a brokerage statement: NULL

ASSUME StatementsAssumption ==
    /\ Users \subseteq Nat
    /\ Accounts \subseteq Nat \ {Brokerage}
    /\ \A a \in Accounts :
          /\ Chart[a].owner \in Users
          /\ Chart[a].type \in {"asset", "equity", "income"}
          /\ Chart[a].instrument \in Instruments \cup {0}
    /\ Deals \subseteq Seq([account : Accounts, amount : Int, shares : Int])
    /\ InitialPrice \in Nat

VARIABLES
    book,       \* committed journal lines, with their created_at
    inflight,   \* postings stamped and not committed
    orders,     \* resolved orders; refused: another attempt is about to reject it
    rows,       \* Statement rows
    files,      \* the statements on disk
    desk,       \* the run of each desk
    complete,   \* history: the months of the runs that ended without a failure
    strays      \* history: files that a failed or killed run left behind

statementVars == <<book, inflight, orders, rows, files, desk, complete, strays>>
vars == <<marketVars, statementVars>>

-----------------------------------------------------------------------------
(* The queries.                                                            *)

(* Mutant: the inclusive last day used where a query needs what follows it. *)
LastDay(m) == 2 * m + 1

(* Period.start_at and Period.end_at.                                      *)
StartAt(m) == 2 * m
EndAt(m) == 2 * m + 2

Spendable(u) ==
    {a \in Accounts : Chart[a].owner = u /\ Chart[a].instrument = 0 /\ Chart[a].type = "asset"}
Positions(u) ==
    {a \in Accounts : Chart[a].owner = u /\ Chart[a].instrument # 0 /\ Chart[a].type = "asset"}

Lines(a, from, until) ==
    {n \in DOMAIN book : book[n].account = a /\ from <= book[n].at /\ book[n].at < until}
Amounts(lines) == SumFunction([n \in lines |-> book[n].amount])
Balance(a, instant) == Amounts(Lines(a, 0, instant))
Quantity(a, instant) == SumFunction([n \in Lines(a, 0, instant) |-> book[n].shares])

Holdings(u, instant) == {a \in Positions(u) : Quantity(a, instant) # 0}

(* Orders that are FILLED now and were resolved in the month.              *)
Fills(u, m) ==
    {o \in orders : /\ o.user = u /\ o.status = "filled"
                    /\ StartAt(m) <= o.resolved /\ o.resolved < EndAt(m)}

(* Mutant: the trades of somebody who sold everything are forgotten.       *)
HoldsAtTheEnd(u, m) == Holdings(u, EndAt(m)) # {}
HasActivity(u, m) == Holdings(u, EndAt(m)) # {} \/ Fills(u, m) # {}

(* Mutant: the price of today, Instrument.current_price.                   *)
CurrentPrice(i, m) == IF last[i] = NoTick THEN InitialPrice ELSE last[i].price

PeriodEndPrice(i, m) ==
    LET before == {t \in Of(ticks, i) : t.at < EndAt(m)}
    IN IF before = {} THEN InitialPrice ELSE Newest(before).price

CostBasis(u, m) ==
    SumFunction([a \in Holdings(u, EndAt(m)) |-> Balance(a, EndAt(m))])
MarketValue(u, m) ==
    SumFunction([a \in Holdings(u, EndAt(m)) |->
                    PeriodEndPrice(Chart[a].instrument, m) * Quantity(a, EndAt(m))])

-----------------------------------------------------------------------------
(* Postings: transfers, and the fills of orders.                           *)

(* A sell finds the shares on the position it has locked (get_quantity).   *)
SharesAreHeld(deal) ==
    \A n \in DOMAIN deal :
        LET a == deal[n].account IN
        deal[n].shares < 0 =>
            /\ Quantity(a, clock + 1) + deal[n].shares >= 0
            /\ \A p \in inflight : \A k \in DOMAIN p.deal : p.deal[k].account # a

(* The lines are created, and stamped, inside the transaction.             *)
Stamp(deal) ==
    /\ Spend("postings")
    /\ SharesAreHeld(deal)
    /\ inflight' = inflight \cup {[deal |-> deal, at |-> clock, nr |-> left["postings"]]}
    /\ UNCHANGED <<ticks, last, tickers, quoted, clock,
                   book, orders, rows, files, desk, complete, strays>>

(* Whose order the deal fills: the owner of its position line.             *)
Traders(deal) ==
    {u \in Users : \E n \in DOMAIN deal : deal[n].account \in Positions(u)}

(* A fill stamps its order after its lines, in the same transaction. By    *)
(* then another attempt at the order may have been refused, rolled back    *)
(* and be on its way to say so.                                            *)
Commit(p) ==
    /\ book' = book \o [n \in DOMAIN p.deal |->
                           [account |-> p.deal[n].account, amount |-> p.deal[n].amount,
                            shares |-> p.deal[n].shares, at |-> p.at]]
    /\ inflight' = inflight \ {p}
    /\ \E resolved \in p.at..clock, refused \in BOOLEAN :
          /\ orders' = orders \cup
                {[nr |-> p.nr, user |-> u, status |-> "filled", posted |-> p.at,
                  resolved |-> resolved, refused |-> refused] : u \in Traders(p.deal)}
          /\ IF refused THEN Spend("refusals") ELSE UNCHANGED left
    /\ UNCHANGED <<ticks, last, tickers, quoted, clock, rows, files, desk, complete, strays>>

(* reject_order writes by primary key, whatever the order has become.      *)
RejectOrder(o) ==
    /\ o.refused
    /\ orders' = (orders \ {o})
          \cup {[o EXCEPT !.status = "rejected", !.resolved = clock, !.refused = FALSE]}
    /\ UNCHANGED <<marketVars, book, inflight, rows, files, desk, complete, strays>>

RollBack(p) ==
    /\ inflight' = inflight \ {p}
    /\ UNCHANGED <<marketVars, book, orders, rows, files, desk, complete, strays>>

(* Time passes.                                                            *)
Elapse ==
    /\ Spend("until")
    /\ clock' = clock + 1
    /\ UNCHANGED <<ticks, last, tickers, quoted, statementVars>>

-----------------------------------------------------------------------------
(* A run.                                                                  *)

Idle == [step |-> "idle", month |-> 0, todo |-> {}, user |-> 0, account |-> 0,
         opening |-> 0, closing |-> 0, count |-> 0, file |-> 0, ok |-> TRUE]

(* A run goes through the users by age, and through the accounts of each,  *)
(* oldest first, before the user's portfolio.                              *)
Subjects(u) == {[user |-> u, account |-> a] : a \in Spendable(u) \cup {Brokerage}}
AllSubjects == UNION {Subjects(u) : u \in Users}

First(subjects) ==
    LET u == Min({s.user : s \in subjects})
        accounts == {s.account : s \in {r \in subjects : r.user = u}} \ {Brokerage}
    IN  [user |-> u, account |-> IF accounts = {} THEN Brokerage ELSE Min(accounts)]

Go(w, step) == desk' = [desk EXCEPT ![w].step = step]
DeskOnly == UNCHANGED <<marketVars, book, inflight, orders, rows, files, complete, strays>>

(* Beat fires at a quarter past midnight of the 1st, when "a late tick     *)
(* from the previous month has long since landed" (config/settings), or    *)
(* someone runs the command later. What was stamped in the month has been  *)
(* committed or rolled back by then, and what was refused has been written *)
(* down: Celery kills a task after six minutes, and that no request lives  *)
(* for a quarter of an hour is assumed here as it is by the schedule.      *)
Generate(w, m) ==
    /\ desk[w].step = "idle"
    /\ EndAt(m) <= clock
    /\ \A p \in inflight : p.at >= EndAt(m)
    /\ \A o \in orders : o.refused => o.resolved >= EndAt(m)
    /\ \A t \in Tickers : tick[t] = "save" => quote[t].at >= EndAt(m)
    /\ Spend("batches")
    /\ desk' = [desk EXCEPT ![w] = [Idle EXCEPT !.step = "next", !.month = m,
                                                !.todo = AllSubjects]]
    /\ UNCHANGED <<ticks, last, tickers, quoted, clock,
                   book, inflight, orders, rows, files, complete, strays>>

Same(r, s, m) == r.user = s.user /\ r.account = s.account /\ r.month = m

(* The check both kinds start with, outside of any transaction.            *)
Exists(s, m) == \E r \in rows : Same(r, s, m)

Take(w) ==
    LET d == desk[w]
        s == First(d.todo)
    IN
    /\ d.step = "next"
    /\ d.todo # {}
    /\ desk' = [desk EXCEPT ![w] =
                  [d EXCEPT !.todo = @ \ {s}, !.user = s.user, !.account = s.account,
                            !.step = IF Exists(s, d.month) THEN "next"
                                     ELSE IF s.account = Brokerage THEN "activity"
                                     ELSE "opening"]]
    /\ DeskOnly

(* build_cash_statement: the balance before the month, then its lines; an  *)
(* account with neither is skipped.                                        *)
ReadOpening(w) ==
    /\ desk[w].step = "opening"
    /\ desk' = [desk EXCEPT ![w].opening = Balance(desk[w].account, StartAt(desk[w].month)),
                            ![w].step = "lines"]
    /\ DeskOnly

ReadLines(w) ==
    LET d == desk[w]
        lines == Lines(d.account, StartAt(d.month), EndAt(d.month))
        closing == d.opening + Amounts(lines)
        nothing == lines = {} /\ d.opening = 0 /\ closing = 0
    IN
    /\ d.step = "lines"
    /\ desk' = [desk EXCEPT ![w].closing = closing, ![w].count = Cardinality(lines),
                            ![w].step = IF nothing THEN "next" ELSE "file"]
    /\ DeskOnly

(* has_activity, then build_brokerage_statement, whose queries see the     *)
(* same closed month.                                                      *)
CheckActivity(w) ==
    /\ desk[w].step = "activity"
    /\ Go(w, IF HasActivity(desk[w].user, desk[w].month) THEN "value" ELSE "next")
    /\ DeskOnly

Value(w) ==
    LET d == desk[w] IN
    /\ d.step = "value"
    /\ desk' = [desk EXCEPT ![w].opening = CostBasis(d.user, d.month),
                            ![w].closing = MarketValue(d.user, d.month),
                            ![w].count = Cardinality(Fills(d.user, d.month)),
                            ![w].step = "file"]
    /\ DeskOnly

(* Mutant: the storage overwrites.                                         *)
FixedName(s, m) == 0

(* The storage answers with a name nothing has: the plain one (0), or one  *)
(* with a random suffix.                                                   *)
FreeName(s, m) ==
    LET taken == {f.name : f \in {g \in files : Same(g, s, m)}}
    IN IF 0 \notin taken THEN 0 ELSE Max(taken) + 1

Document(d, name) ==
    [user |-> d.user, account |-> d.account, month |-> d.month, name |-> name,
     opening |-> d.opening, closing |-> d.closing, count |-> d.count]
FileOf(d) == {f \in files : Same(f, d, d.month) /\ f.name = d.file}

(* FileField.save: the bytes, then the row.                                *)
SaveFile(w) ==
    LET d == desk[w]
        name == FreeName(d, d.month)
    IN
    /\ d.step = "file"
    /\ files' = {f \in files : ~(Same(f, d, d.month) /\ f.name = name)} \cup {Document(d, name)}
    /\ desk' = [desk EXCEPT ![w].file = name, ![w].step = "row"]
    /\ UNCHANGED <<marketVars, book, inflight, orders, rows, complete, strays>>

InsertRow(w) ==
    LET d == desk[w] IN
    /\ d.step = "row"
    /\ \/ /\ ~Exists(d, d.month)
          /\ rows' = rows \cup
                {[user |-> d.user, account |-> d.account, month |-> d.month, file |-> d.file,
                  opening |-> d.opening, closing |-> d.closing, count |-> d.count,
                  generated |-> clock]}
          /\ Go(w, "next")
       \/ /\ Exists(d, d.month)
          /\ Go(w, "delete")
          /\ UNCHANGED rows
    /\ UNCHANGED <<marketVars, book, inflight, orders, files, complete, strays>>

(* IntegrityError: the file goes.                                          *)
DeleteFile(w) ==
    /\ desk[w].step = "delete"
    /\ files' = files \ FileOf(desk[w])
    /\ Go(w, "next")
    /\ UNCHANGED <<marketVars, book, inflight, orders, rows, complete, strays>>

LeftBehind(d) == IF d.step \in {"row", "delete"} THEN FileOf(d) ELSE {}

(* Any other exception: logged, and the run goes on with the next subject. *)
Fails(w) ==
    /\ desk[w].step \notin {"idle", "next"}
    /\ Spend("failures")
    /\ strays' = strays \cup LeftBehind(desk[w])
    /\ desk' = [desk EXCEPT ![w].step = "next", ![w].ok = FALSE]
    /\ UNCHANGED <<ticks, last, tickers, quoted, clock, book, inflight, orders, rows, files, complete>>

KillDesk(w) ==
    /\ desk[w].step # "idle"
    /\ Spend("kills")
    /\ strays' = strays \cup LeftBehind(desk[w])
    /\ desk' = [desk EXCEPT ![w] = Idle]
    /\ UNCHANGED <<ticks, last, tickers, quoted, clock, book, inflight, orders, rows, files, complete>>

EndGenerate(w) ==
    LET d == desk[w] IN
    /\ d.step = "next" /\ d.todo = {}
    /\ complete' = IF d.ok THEN complete \cup {d.month} ELSE complete
    /\ desk' = [desk EXCEPT ![w] = Idle]
    /\ UNCHANGED <<marketVars, book, inflight, orders, rows, files, strays>>

-----------------------------------------------------------------------------
Init ==
    /\ MarketInit
    /\ book = <<>> /\ inflight = {} /\ orders = {}
    /\ rows = {} /\ files = {}
    /\ desk = [w \in Desks |-> Idle]
    /\ complete = {} /\ strays = {}

DeskStep(w) ==
    \/ \E m \in 0..clock : Generate(w, m)
    \/ Take(w) \/ ReadOpening(w) \/ ReadLines(w) \/ CheckActivity(w) \/ Value(w)
    \/ SaveFile(w) \/ InsertRow(w) \/ DeleteFile(w)
    \/ Fails(w) \/ KillDesk(w) \/ EndGenerate(w)

Next ==
    \/ MarketNext /\ UNCHANGED statementVars
    \/ \E d \in Deals : Stamp(d)
    \/ \E p \in inflight : Commit(p) \/ RollBack(p)
    \/ \E o \in orders : RejectOrder(o)
    \/ Elapse
    \/ \E w \in Desks : DeskStep(w)

Spec == Init /\ [][Next]_vars

-----------------------------------------------------------------------------
(* Properties.                                                             *)

Cash(S) == {r \in S : r.account # Brokerage}

archive == INSTANCE MonthlyArchive WITH
    book <- book,
    issued <- {[account |-> r.account, month |-> r.month, opening |-> r.opening,
                closing |-> r.closing] : r \in Cash(rows)}

(* The statements of cash accounts implement the archive: whatever is      *)
(* posted, killed, run twice or run late, a month is stated once, the      *)
(* balances are those before and after every line of the month, the one    *)
(* posted in its last moment included, and no line joins a stated month.   *)
ImplementsArchive == archive!Spec

(* "Write the file and the row, or neither" (_persist): a row's file is    *)
(* there and prints the row's balances, for the download view opens it     *)
(* without a check; and a file without a row belongs to a run that is      *)
(* about to insert the row or to delete the file, unless an exception that *)
(* is not the index's, or a kill, came between the two.                    *)
FilesMatchRows ==
    /\ \A r \in rows : \E f \in files :
          /\ Same(f, r, r.month) /\ f.name = r.file
          /\ f.opening = r.opening /\ f.closing = r.closing /\ f.count = r.count
    /\ \A f \in files :
          \/ f \in strays
          \/ \E r \in rows : Same(r, f, f.month) /\ r.file = f.name
          \/ \E w \in Desks : desk[w].step \in {"row", "delete"} /\ f \in FileOf(desk[w])

Stated(u, a, m) == \E r \in rows : r.user = u /\ r.account = a /\ r.month = m

(* A month that some run went through without a failure has a statement    *)
(* for every account that held or moved money in it and for every user who *)
(* held an instrument at its end or had an order filled in it, also when   *)
(* another run was killed beside it or had a failure: a repeated run       *)
(* repairs (generate_monthly, "safe to run twice"). A user whose shares    *)
(* moved in the month goes without in two cases only: an order behind the  *)
(* move was overwritten as rejected, or was resolved after the month in    *)
(* whose last moment its entry was stamped.                                *)
RunLeavesNoGap ==
    \A m \in complete : \A u \in Users :
        /\ \A a \in Spendable(u) :
              Balance(a, StartAt(m)) # 0 \/ Lines(a, StartAt(m), EndAt(m)) # {}
                  => Stated(u, a, m)
        /\ \A a \in Positions(u) : Quantity(a, EndAt(m)) # 0 => Stated(u, Brokerage, m)
        /\ \A o \in orders :
              o.user = u /\ o.status = "filled"
                /\ StartAt(m) <= o.resolved /\ o.resolved < EndAt(m)
                  => Stated(u, Brokerage, m)
        /\ \A a \in Positions(u) :
              Lines(a, StartAt(m), EndAt(m)) # {} /\ ~Stated(u, Brokerage, m)
                  => \E o \in orders :
                        /\ o.user = u /\ StartAt(m) <= o.posted /\ o.posted < EndAt(m)
                        /\ o.status = "rejected" \/ o.resolved >= EndAt(m)

(* A brokerage statement values every position at the last price inside    *)
(* its month however late it is generated, and whatever the market did     *)
(* and the purge deleted since, as long as that price was younger than the *)
(* retention at the time (purge_price_ticks: a year and a month).          *)
BrokerageValued ==
    \A r \in rows :
        LET shares(a) == Quantity(a, 2 * r.month + 2)
            held == {a \in Accounts : /\ Chart[a].owner = r.user /\ Chart[a].type = "asset"
                                      /\ Chart[a].instrument # 0 /\ shares(a) # 0}
            inside(a) == {t \in Of(quoted, Chart[a].instrument) : t.at < 2 * r.month + 2}
            known(a) == inside(a) = {} \/ Newest(inside(a)).at >= r.generated - Retention
            price(a) == IF inside(a) = {} THEN InitialPrice ELSE Newest(inside(a)).price
        IN r.account = Brokerage /\ (\A a \in held : known(a))
              => r.closing = SumFunction([a \in held |-> price(a) * shares(a)])
=============================================================================
