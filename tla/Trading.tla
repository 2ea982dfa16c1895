------------------------------ MODULE Trading ------------------------------
(***************************************************************************)
(* The life of an order: backend/trading/services.py and the matching      *)
(* sweep, backend/trading/tasks.py, as transactions on Postgres under READ *)
(* COMMITTED.                                                              *)
(*                                                                         *)
(* Placers are request handlers inside place_order. A placement commits    *)
(* its order row as OPEN before it tries to fill it, so a market order can *)
(* be seen by everybody in between. Sweepers are Celery workers inside     *)
(* match_resting_orders; several may run at once, because the task is      *)
(* dispatched after every tick, by beat, and again when a worker dies.     *)
(* Both fill through execute_fill, which locks the cash and position       *)
(* accounts in ascending order; a sweeper also holds the order row.        *)
(* Around them the market ticks, owners cancel, and transfers (see         *)
(* Transfers) move cash.                                                   *)
(*                                                                         *)
(* One instrument: fills of two instruments meet only in the cash account. *)
(***************************************************************************)
EXTENDS Integers, Sequences, FiniteSets, FiniteSetsExt, Money

CONSTANTS
    Placers, Sweepers, Nobody,
    Users,
    Accounts,       \* account rows, numbered in ascending UUID order
    Owner,          \* the user of each account
    PositionOf,     \* the position account of each user
    NoKey, Keys,    \* the NULL idempotency key, and those clients send
    Tickets,        \* orders that may be asked for
    Prices,         \* prices the market may tick to, in money quanta
    Scale,          \* share quanta in one share
    Opening,        \* opening balance of each account
    OpeningShares,  \* opening holding of each position
    Movements,      \* amounts transfers bring in (> 0) or take out (< 0)
    MaxRequests, MaxTransfers, MaxCrashes   \* bounds on each kind of event

Workers == Placers \cup Sweepers
Positions == {PositionOf[u] : u \in Users}

NoTicket == [cash |-> 0, side |-> "none", type |-> "none", limit |-> 0,
             quantity |-> 0, key |-> NoKey]

ASSUME WorkersAssumption ==
    Placers \cap Sweepers = {} /\ Nobody \notin Placers \cup Sweepers

ASSUME AccountsAssumption ==
    /\ Accounts \subseteq Nat \ {0}
    /\ Owner \in [Accounts -> Users]
    /\ PositionOf \in [Users -> Accounts]
    /\ \A u \in Users : Owner[PositionOf[u]] = u
    /\ Opening \in [Accounts -> Nat]
    /\ OpeningShares \in [Positions -> Nat]
    /\ \A a \in Positions : OpeningShares[a] = 0 => Opening[a] = 0

ASSUME TicketsAssumption ==
    /\ NoKey \notin Keys
    /\ Tickets \subseteq [cash : Accounts \ Positions, side : {"buy", "sell"},
                          type : {"market", "limit"}, limit : Int,
                          quantity : Int, key : Keys \cup {NoKey}]

ASSUME MarketAssumption ==
    Prices # {} /\ Prices \subseteq Nat \ {0} /\ Scale \in Nat \ {0} /\ Movements \subseteq Int

ASSUME BoundsAssumption ==
    MaxRequests \in Nat /\ MaxTransfers \in Nat /\ MaxCrashes \in Nat

VARIABLES
    orders,         \* order rows, in creation order
    journal,        \* committed entries keyed "order:<pk>", in commit order
    balance,        \* SUM(amount) of each account: cash, or cost basis
    shares,         \* SUM(quantity) of each position account
    gains,          \* realized P&L of each user, the negated income account
    trail,          \* committed audit rows
    price,          \* the last tick
    holder,         \* who holds each account row FOR UPDATE
    claim,          \* who holds each order row
    pc,             \* the next statement of each worker
    ticket,         \* the arguments of each placer's place_order() call
    target,         \* the order each worker is filling
    quote,          \* the price it fills at
    wanted,         \* the accounts it has still to lock
    draft,          \* the entry its transaction has inserted
    queue,          \* the candidates a sweeper has not looked at yet
    reply,          \* what each placer was told
    transfers, crashes, requests    \* events so far, at most Max...

worker == <<ticket, target, quote, wanted, draft, queue, reply>>
ledger == <<journal, balance, shares, gains>>
budget == <<transfers, crashes, requests>>
vars == <<orders, ledger, trail, price, holder, claim, pc, worker, budget>>

-----------------------------------------------------------------------------
(* Domains.                                                                *)

(* status is "open", "filled", "cancelled" or "rejected".                  *)
NewOrder(k) == [ticket |-> k, status |-> "open", price |-> 0, entry |-> 0]

Row(action, o) == [action |-> action, order |-> o]

NoEntry == [order |-> 0, price |-> 0, cash |-> 0, basis |-> 0, shares |-> 0, gain |-> 0]

NoReply == [outcome |-> "none", order |-> 0, status |-> "none"]
Told(outcome, o, s) == [outcome |-> outcome, order |-> o, status |-> s]

Least(S) == CHOOSE a \in S : \A b \in S : a <= b
Newest(S) == CHOOSE o \in S : \A p \in S : o >= p

Position(o) == PositionOf[Owner[orders[o].ticket.cash]]

(* Order.crosses: a limit is the worst price its owner accepts.            *)
Crosses(k, p) ==
    \/ k.type = "market"
    \/ k.side = "buy" /\ p <= k.limit
    \/ k.side = "sell" /\ p >= k.limit

-----------------------------------------------------------------------------
(* The lines of a fill, execute_fill with _buy_lines and _sell_lines.      *)

Notional(k, p) == RoundHalfEven(p * k.quantity, Scale)

(* Mutant: the average cost first, then the multiplication.                *)
CostByAverage(quantity, held, basis) == quantity * RoundHalfEven(basis, held)

(* The cost of what is sold: all of the basis on a full exit, else the     *)
(* part of it rounded once.                                                *)
CostOf(quantity, held, basis) ==
    IF quantity = held THEN basis ELSE RoundHalfEven(basis * quantity, held)

(* The errors in REJECTABLE.                                               *)
Refused(o, p) ==
    LET k == orders[o].ticket
        a == Position(o)
    IN  \/ Notional(k, p) <= 0
        \/ k.side = "buy" /\ balance[k.cash] < Notional(k, p)
        \/ k.side = "sell" /\ shares[a] < k.quantity
        \/ /\ k.side = "sell" /\ shares[a] >= k.quantity
           /\ CostOf(k.quantity, shares[a], balance[a]) <= 0

FillEntry(o, p) ==
    LET k == orders[o].ticket
        a == Position(o)
        n == Notional(k, p)
        cost == CostOf(k.quantity, shares[a], balance[a])
    IN  IF k.side = "buy"
        THEN [order |-> o, price |-> p, cash |-> -n, basis |-> n,
              shares |-> k.quantity, gain |-> 0]
        ELSE [order |-> o, price |-> p, cash |-> n, basis |-> -cost,
              shares |-> -k.quantity, gain |-> n - cost]

EntriesOf(o) == {n \in DOMAIN journal : journal[n].order = o}

-----------------------------------------------------------------------------
Init ==
    /\ orders = <<>>
    /\ journal = <<>>
    /\ balance = Opening
    /\ shares = OpeningShares
    /\ gains = [u \in Users |-> 0]
    /\ trail = {}
    /\ price \in Prices
    /\ holder = [a \in Accounts |-> Nobody]
    /\ claim = [o \in 1..MaxRequests |-> Nobody]
    /\ pc = [w \in Workers |-> "idle"]
    /\ ticket = [p \in Placers |-> NoTicket]
    /\ target = [w \in Workers |-> 0]
    /\ quote = [w \in Workers |-> 0]
    /\ wanted = [w \in Workers |-> {}]
    /\ draft = [w \in Workers |-> NoEntry]
    /\ queue = [s \in Sweepers |-> {}]
    /\ reply = [p \in Placers |-> NoReply]
    /\ transfers = 0
    /\ crashes = 0
    /\ requests = 0

-----------------------------------------------------------------------------
(* Pieces the statements are made of.                                      *)

GoTo(w, statement) == pc' = [pc EXCEPT ![w] = statement]

(* The end of a transaction frees the account rows and the order row.      *)
ReleaseLocks(w) ==
    /\ holder' = [a \in Accounts |-> IF holder[a] = w THEN Nobody ELSE holder[a]]
    /\ claim' = [o \in DOMAIN claim |-> IF claim[o] = w THEN Nobody ELSE claim[o]]

Answer(w, outcome, o, s) ==
    reply' = [p \in Placers |-> IF p = w THEN Told(outcome, o, s) ELSE reply[p]]

(* execute_fill opens its transaction to lock both accounts.               *)
BeginFill(w, o, p) ==
    /\ target' = [target EXCEPT ![w] = o]
    /\ quote' = [quote EXCEPT ![w] = p]
    /\ wanted' = [wanted EXCEPT ![w] = {orders[o].ticket.cash, Position(o)}]
    /\ GoTo(w, "lock")

(* After an order a sweeper looks at its next candidate; a placer is done. *)
Finish(w) == GoTo(w, IF w \in Sweepers THEN "next" ELSE "idle")

(* The worker dies, or raises something nobody catches: Postgres rolls its *)
(* transaction back, a request ends without an order, a sweep without      *)
(* looking at its other candidates.                                        *)
Die(w) ==
    /\ ReleaseLocks(w)
    /\ GoTo(w, "idle")
    /\ target' = [target EXCEPT ![w] = 0]
    /\ quote' = [quote EXCEPT ![w] = 0]
    /\ wanted' = [wanted EXCEPT ![w] = {}]
    /\ draft' = [draft EXCEPT ![w] = NoEntry]
    /\ queue' = [s \in Sweepers |-> IF s = w THEN {} ELSE queue[s]]
    /\ Answer(w, "none", 0, "none")
    /\ UNCHANGED <<orders, ledger, trail, price, ticket, transfers, requests>>

-----------------------------------------------------------------------------
(* place_order.                                                            *)

Valid(k) == k.quantity > 0 /\ (k.type = "limit" => k.limit > 0)

(* The replay check sees only this user's orders.                          *)
OwnOrders(k) ==
    {o \in DOMAIN orders : /\ k.key # NoKey /\ orders[o].ticket.key = k.key
                           /\ Owner[orders[o].ticket.cash] = Owner[k.cash]}

(* A key is compared by fingerprint, which digests every field of the      *)
(* request.                                                                *)
(* Mutant: the key alone decides.                                          *)
SameKey(o, k) == orders[o].ticket.key = k.key
SameRequest(o, k) == orders[o].ticket = k

(* The view reads the instrument, with its price; place_order validates    *)
(* and looks the key up.                                                   *)
Receive(p, k) ==
    /\ pc[p] = "idle"
    /\ requests < MaxRequests
    /\ requests' = requests + 1
    /\ ticket' = [ticket EXCEPT ![p] = k]
    /\ \/ /\ ~Valid(k)
          /\ Answer(p, "invalid", 0, "none")
          /\ UNCHANGED <<pc, quote>>
       \/ \E o \in OwnOrders(k) :
          /\ Valid(k)
          /\ IF SameRequest(o, k)
             THEN Answer(p, "replayed", o, orders[o].status)
             ELSE Answer(p, "conflict", 0, "none")
          /\ UNCHANGED <<pc, quote>>
       \/ /\ Valid(k) /\ OwnOrders(k) = {}
          /\ Answer(p, "none", 0, "none")
          /\ quote' = [quote EXCEPT ![p] = price]
          /\ GoTo(p, "insert")
    /\ UNCHANGED <<orders, ledger, trail, price, holder, claim, target, wanted,
                   draft, queue, transfers, crashes>>

(* The order row, committed on its own. The unique index of the key covers *)
(* all users.                                                              *)
InsertOrder(p) ==
    LET k == ticket[p]
        taken == k.key # NoKey /\ \E o \in DOMAIN orders : orders[o].ticket.key = k.key
    IN
    /\ pc[p] = "insert"
    /\ \/ /\ taken
          /\ Answer(p, "conflict", 0, "none")
          /\ quote' = [quote EXCEPT ![p] = 0]
          /\ GoTo(p, "idle")
          /\ UNCHANGED <<orders, target>>
       \/ /\ ~taken
          /\ orders' = Append(orders, NewOrder(k))
          /\ target' = [target EXCEPT ![p] = Len(orders) + 1]
          /\ GoTo(p, "placed")
          /\ UNCHANGED <<reply, quote>>
    /\ UNCHANGED <<ledger, trail, price, holder, claim, ticket, wanted, draft,
                   queue, budget>>

(* The ORDER_PLACED row; then a market order is filled at once.            *)
RecordPlaced(p) ==
    /\ pc[p] = "placed"
    /\ trail' = trail \cup {Row("placed", target[p])}
    /\ IF ticket[p].type = "market"
       THEN BeginFill(p, target[p], quote[p])
       ELSE GoTo(p, "rest") /\ UNCHANGED <<target, quote, wanted>>
    /\ UNCHANGED <<orders, ledger, price, holder, claim, ticket, draft, queue,
                   reply, budget>>

(* The ORDER_RESTED row of a limit order, which is returned as it was made. *)
RecordRested(p) ==
    /\ pc[p] = "rest"
    /\ trail' = trail \cup {Row("rested", target[p])}
    /\ Answer(p, "placed", target[p], "open")
    /\ target' = [target EXCEPT ![p] = 0]
    /\ quote' = [quote EXCEPT ![p] = 0]
    /\ GoTo(p, "idle")
    /\ UNCHANGED <<orders, ledger, price, holder, claim, ticket, wanted, draft,
                   queue, budget>>

-----------------------------------------------------------------------------
(* execute_fill, the same for placers and sweepers.                        *)

(* Mutant: plain reads of the accounts, which wait for nobody.             *)
ReadAccount(w) ==
    LET a == Least(wanted[w]) IN
    /\ pc[w] = "lock"
    /\ holder' = [holder EXCEPT ![a] = w]
    /\ wanted' = [wanted EXCEPT ![w] = @ \ {a}]
    /\ GoTo(w, IF wanted[w] = {a} THEN "check" ELSE "lock")
    /\ UNCHANGED <<orders, ledger, trail, price, claim, ticket, target, quote,
                   draft, queue, reply, budget>>

(* lock_accounts, one row per statement.                                   *)
LockAccount(w) ==
    LET a == Least(wanted[w]) IN
    /\ pc[w] = "lock"
    /\ holder[a] = Nobody
    /\ holder' = [holder EXCEPT ![a] = w]
    /\ wanted' = [wanted EXCEPT ![w] = @ \ {a}]
    /\ GoTo(w, IF wanted[w] = {a} THEN "check" ELSE "lock")
    /\ UNCHANGED <<orders, ledger, trail, price, claim, ticket, target, quote,
                   draft, queue, reply, budget>>

(* The affordability checks, then post_entry. A refusal unwinds the whole  *)
(* transaction, the order row included. The key order:<pk> makes a second  *)
(* posting of the order an IntegrityError, which nothing here catches; two *)
(* fills of one order hold the same accounts, so they never meet on it     *)
(* uncommitted.                                                            *)
CheckAndPost(w) ==
    LET o == target[w] IN
    /\ pc[w] = "check"
    /\ \/ /\ Refused(o, quote[w])
          /\ ReleaseLocks(w)
          /\ GoTo(w, "reject")
          /\ UNCHANGED <<orders, ledger, trail, price, worker, transfers,
                         crashes, requests>>
       \/ /\ ~Refused(o, quote[w]) /\ EntriesOf(o) # {}
          /\ Die(w)
          /\ UNCHANGED crashes
       \/ /\ ~Refused(o, quote[w]) /\ EntriesOf(o) = {}
          /\ draft' = [draft EXCEPT ![w] = FillEntry(o, quote[w])]
          /\ GoTo(w, "save")
          /\ UNCHANGED <<orders, ledger, trail, price, holder, claim, ticket,
                         target, quote, wanted, queue, reply, transfers,
                         crashes, requests>>

(* order.save() as FILLED: an UPDATE by primary key, which waits for       *)
(* whoever holds the row and looks at nothing in it.                       *)
SaveOrder(w) ==
    LET o == target[w] IN
    /\ pc[w] = "save"
    /\ claim[o] \in {Nobody, w}
    /\ claim' = [claim EXCEPT ![o] = w]
    /\ GoTo(w, "commit")
    /\ UNCHANGED <<orders, ledger, trail, price, holder, worker, budget>>

(* COMMIT: the entry, the order and the audit row become visible together. *)
Commit(w) ==
    LET d == draft[w]
        k == orders[d.order].ticket
        a == Position(d.order)
    IN
    /\ pc[w] = "commit"
    /\ journal' = Append(journal, d)
    /\ balance' = [balance EXCEPT ![k.cash] = @ + d.cash, ![a] = @ + d.basis]
    /\ shares' = [shares EXCEPT ![a] = @ + d.shares]
    /\ gains' = [gains EXCEPT ![Owner[a]] = @ + d.gain]
    /\ orders' = [orders EXCEPT ![d.order].status = "filled",
                                ![d.order].price = d.price,
                                ![d.order].entry = Len(journal) + 1]
    /\ trail' = trail \cup {Row("filled", d.order)}
    /\ draft' = [draft EXCEPT ![w] = NoEntry]
    /\ target' = [target EXCEPT ![w] = 0]
    /\ quote' = [quote EXCEPT ![w] = 0]
    /\ Answer(w, "placed", d.order, "filled")
    /\ ReleaseLocks(w)
    /\ Finish(w)
    /\ UNCHANGED <<price, ticket, wanted, queue, budget>>

(* Mutant: the whole row is saved, as it was read before the fill.         *)
RejectWholeRow(w) ==
    LET o == target[w] IN
    /\ pc[w] = "reject"
    /\ claim[o] = Nobody
    /\ orders' = [orders EXCEPT ![o] = [NewOrder(@.ticket) EXCEPT !.status = "rejected"]]
    /\ GoTo(w, "rejected")
    /\ UNCHANGED <<ledger, trail, price, holder, claim, worker, budget>>

(* reject_order, outside the transaction that failed: again an UPDATE by   *)
(* primary key of status and reason, whatever the row says by now.         *)
RejectOrder(w) ==
    LET o == target[w] IN
    /\ pc[w] = "reject"
    /\ claim[o] = Nobody
    /\ orders' = [orders EXCEPT ![o].status = "rejected"]
    /\ GoTo(w, "rejected")
    /\ UNCHANGED <<ledger, trail, price, holder, claim, worker, budget>>

RecordRejected(w) ==
    /\ pc[w] = "rejected"
    /\ trail' = trail \cup {Row("rejected", target[w])}
    /\ Answer(w, "refused", target[w], "rejected")
    /\ target' = [target EXCEPT ![w] = 0]
    /\ quote' = [quote EXCEPT ![w] = 0]
    /\ Finish(w)
    /\ UNCHANGED <<orders, ledger, price, holder, claim, ticket, wanted, draft,
                   queue, budget>>

-----------------------------------------------------------------------------
(* match_resting_orders.                                                   *)

(* Mutant: only resting limit orders are candidates.                       *)
ScanLimitOrders(s) ==
    /\ pc[s] = "idle"
    /\ queue' = [queue EXCEPT ![s] = {o \in DOMAIN orders :
                    orders[o].status = "open" /\ orders[o].ticket.type = "limit"}]
    /\ queue'[s] # {}
    /\ GoTo(s, "next")
    /\ UNCHANGED <<orders, ledger, trail, price, holder, claim, ticket, target,
                   quote, wanted, draft, reply, budget>>

(* The candidate ids, read without locks.                                  *)
Scan(s) ==
    /\ pc[s] = "idle"
    /\ queue' = [queue EXCEPT ![s] = {o \in DOMAIN orders : orders[o].status = "open"}]
    /\ queue'[s] # {}
    /\ GoTo(s, "next")
    /\ UNCHANGED <<orders, ledger, trail, price, holder, claim, ticket, target,
                   quote, wanted, draft, reply, budget>>

(* Mutants: the sweep trusts its scan, or does not ask for the price.      *)
MatchStale(s) ==
    LET o == Newest(queue[s]) IN
    /\ pc[s] = "next"
    /\ queue[s] # {}
    /\ queue' = [queue EXCEPT ![s] = @ \ {o}]
    /\ IF claim[o] = Nobody /\ Crosses(orders[o].ticket, price)
       THEN claim' = [claim EXCEPT ![o] = s] /\ BeginFill(s, o, price)
       ELSE UNCHANGED <<claim, pc, target, quote, wanted>>
    /\ UNCHANGED <<orders, ledger, trail, price, holder, ticket, draft, reply, budget>>

MatchAnyPrice(s) ==
    LET o == Newest(queue[s]) IN
    /\ pc[s] = "next"
    /\ queue[s] # {}
    /\ queue' = [queue EXCEPT ![s] = @ \ {o}]
    /\ IF claim[o] = Nobody /\ orders[o].status = "open"
       THEN claim' = [claim EXCEPT ![o] = s] /\ BeginFill(s, o, price)
       ELSE UNCHANGED <<claim, pc, target, quote, wanted>>
    /\ UNCHANGED <<orders, ledger, trail, price, holder, ticket, draft, reply, budget>>

(* _match_one for the newest candidate: SELECT ... FOR UPDATE SKIP LOCKED  *)
(* of the row if it is still open, and the price it is filled at.          *)
MatchNext(s) ==
    LET o == Newest(queue[s]) IN
    /\ pc[s] = "next"
    /\ queue[s] # {}
    /\ queue' = [queue EXCEPT ![s] = @ \ {o}]
    /\ IF claim[o] = Nobody /\ orders[o].status = "open" /\ Crosses(orders[o].ticket, price)
       THEN claim' = [claim EXCEPT ![o] = s] /\ BeginFill(s, o, price)
       ELSE UNCHANGED <<claim, pc, target, quote, wanted>>
    /\ UNCHANGED <<orders, ledger, trail, price, holder, ticket, draft, reply, budget>>

EndSweep(s) ==
    /\ pc[s] = "next"
    /\ queue[s] = {}
    /\ GoTo(s, "idle")
    /\ UNCHANGED <<orders, ledger, trail, price, holder, claim, worker, budget>>

-----------------------------------------------------------------------------
(* Everybody else.                                                         *)

(* cancel_order: UPDATE ... WHERE status = 'open', which waits for the row *)
(* and looks again; then the audit row, in a commit of its own, which a    *)
(* crash can lose.                                                         *)
Cancel(o) ==
    /\ orders[o].status = "open"
    /\ claim[o] = Nobody
    /\ orders' = [orders EXCEPT ![o].status = "cancelled"]
    /\ trail' \in {trail, trail \cup {Row("cancelled", o)}}
    /\ UNCHANGED <<ledger, price, holder, claim, pc, worker, budget>>

(* advance_prices. *)
Tick ==
    /\ price' \in Prices \ {price}
    /\ UNCHANGED <<orders, ledger, trail, holder, claim, pc, worker, budget>>

(* transfer(), as MoneyLedger specifies it: seen from one cash account it  *)
(* waits for the row and never overdraws it.                               *)
Transfer(a, m) ==
    /\ transfers < MaxTransfers
    /\ holder[a] = Nobody
    /\ balance[a] + m >= 0
    /\ balance' = [balance EXCEPT ![a] = @ + m]
    /\ transfers' = transfers + 1
    /\ UNCHANGED <<orders, journal, shares, gains, trail, price, holder, claim,
                   pc, worker, crashes, requests>>

Crash(w) ==
    /\ pc[w] # "idle"
    /\ crashes < MaxCrashes
    /\ crashes' = crashes + 1
    /\ Die(w)

(* Who waits for whom: for an account row or for an order row.             *)
WaitsFor(v, w) ==
    \/ pc[v] = "lock" /\ holder[Least(wanted[v])] = w
    \/ pc[v] = "save" /\ claim[target[v]] = w /\ v # w
    \/ pc[v] = "reject" /\ claim[target[v]] = w

(* A cycle of waiting workers: everyone in S waits in S and is waited for. *)
Cycle(S) ==
    /\ S # {}
    /\ \A v \in S : \E w \in S : WaitsFor(v, w)
    /\ \A w \in S : \E v \in S : WaitsFor(v, w)

(* Postgres breaks a cycle by failing one of its transactions with an      *)
(* OperationalError, which is not in REJECTABLE.                           *)
DeadlockVictim(w) ==
    /\ \E S \in SUBSET Workers : w \in S /\ Cycle(S)
    /\ Die(w)
    /\ UNCHANGED crashes

Step(w) ==
    \/ w \in Placers /\ (InsertOrder(w) \/ RecordPlaced(w) \/ RecordRested(w))
    \/ LockAccount(w) \/ CheckAndPost(w) \/ SaveOrder(w) \/ Commit(w)
    \/ RejectOrder(w) \/ RecordRejected(w) \/ DeadlockVictim(w)
    \/ w \in Sweepers /\ (MatchNext(w) \/ EndSweep(w))

Environment ==
    \/ \E p \in Placers, k \in Tickets : Receive(p, k)
    \/ \E o \in DOMAIN orders : Cancel(o)
    \/ Tick
    \/ \E a \in Accounts \ Positions, m \in Movements : Transfer(a, m)
    \/ \E w \in Workers : Crash(w)

Next ==
    \/ \E w \in Workers : Step(w)
    \/ \E s \in Sweepers : Scan(s)
    \/ Environment

Spec == Init /\ [][Next]_vars

(* Workers keep running and Postgres serves lock waiters in turn. Sweeps   *)
(* recur: beat dispatches one every five ticks whatever happened before.   *)
Fairness ==
    /\ \A w \in Workers : /\ WF_vars(Step(w))
                          /\ SF_vars(LockAccount(w))
                          /\ SF_vars(SaveOrder(w) \/ RejectOrder(w))
    /\ \A s \in Sweepers : WF_vars(Scan(s))

FairSpec == Spec /\ Fairness

-----------------------------------------------------------------------------
(* Properties.                                                             *)

(* The fills and transfers that race for one account never overdraw its    *)
(* cash, sell shares that are not there, or leave a negative cost basis.   *)
NothingOversold ==
    /\ \A a \in Accounts : balance[a] >= 0
    /\ \A a \in Positions : shares[a] >= 0

(* An order is posted once, though a placer and any number of sweepers may *)
(* be filling it, and a crash may have interrupted one of them.            *)
PostedOnce ==
    \A m, n \in DOMAIN journal : journal[m].order = journal[n].order => m = n

(* What a fill moved stays attributable: its order points at its entry and *)
(* the log has its ORDER_FILLED row, and neither exists without it, no     *)
(* matter who overwrites the order's status afterwards.                    *)
EntryAndOrderAgree ==
    /\ \A n \in DOMAIN journal :
         /\ orders[journal[n].order].entry = n
         /\ orders[journal[n].order].price = journal[n].price
         /\ Row("filled", journal[n].order) \in trail
    /\ \A o \in DOMAIN orders :
         orders[o].entry = 0 => Row("filled", o) \notin trail

(* Closing a position leaves no cost basis behind, whatever partial exits  *)
(* were rounded on the way (_sell_lines, "the full exit").                 *)
NoDust == \A a \in Positions : shares[a] = 0 => balance[a] = 0

(* A fill never executes at a worse price than the limit its owner set,    *)
(* although the price ticks while the sweep waits for the account rows.    *)
LimitRespected ==
    \A n \in DOMAIN journal :
        Crosses(orders[journal[n].order].ticket, journal[n].price)

(* A limit order that was cancelled or rejected is never posted: the       *)
(* cancel and the sweep race for the row, and one of them loses.           *)
ResolvedLimitOrderStaysUnposted ==
    [][\A o \in DOMAIN orders :
         /\ orders[o].ticket.type = "limit"
         /\ orders[o].status # "open"
         => orders'[o].entry = orders[o].entry]_vars

(* A placer is told about its own order: a key never returns an order of   *)
(* another user, nor a different order of the same user.                   *)
ReplyNamesOwnOrder ==
    \A p \in Placers :
        reply[p].order # 0 => orders[reply[p].order].ticket = ticket[p]

(* A market order that nobody has filled or refused yet.                   *)
Pending(o) ==
    /\ o \in DOMAIN orders
    /\ orders[o].ticket.type = "market"
    /\ orders[o].status = "open"

(* No market order stays pending: if its placer dies, is a deadlock victim *)
(* or loses a race, a sweep resolves it.                                   *)
MarketOrdersResolve ==
    \A o \in 1..MaxRequests : Pending(o) ~> ~Pending(o)

-----------------------------------------------------------------------------
(* What the documents say and the code does not keep.                      *)

(* "sixteen concurrent transfers or trades cannot ... deadlock each other" *)
(* (README.md). A sweep holds the order row before it locks the accounts;  *)
(* a placement locks the accounts before it updates the order row.         *)
NoDeadlock == \A S \in SUBSET Workers : ~Cycle(S)

(* "NULL until it fills, and forever if it never does" (Order.entry): an   *)
(* order that has an entry is filled.                                      *)
EntryMeansFilled ==
    \A o \in DOMAIN orders : orders[o].entry # 0 => orders[o].status = "filled"
=============================================================================
