--------------------------- MODULE TradingProofs ---------------------------
(***************************************************************************)
(* Theorems about Trading, for any users, accounts, prices, orders,        *)
(* placers and sweepers. One invariant carries all of them: what a worker  *)
(* knows about the order it is filling, which rows it holds, that the      *)
(* entry it is about to commit is still affordable, and what the journal,  *)
(* the orders and the audit trail say of each other.                       *)
(***************************************************************************)
EXTENDS Trading, TLAPS, WellFoundedInduction, FiniteSetTheorems,
        SequenceTheorems

-----------------------------------------------------------------------------
(* Lemmas about the data.                                                  *)

(* A sweep takes the newest of the orders it has still to look at.         *)
LEMMA NewestExists ==
    ASSUME NEW n \in Nat, NEW S \in SUBSET (1..n), S # {}
    PROVE  Newest(S) \in S
<1> DEFINE T == {k \in Nat : n - k \in S}
<1>1. \A o \in S : o \in 1..n /\ n - o \in Nat /\ n - (n - o) = o
  OBVIOUS
<1>2. \A o \in S : n - o \in T
  BY <1>1
<1>3. T \subseteq Nat /\ T # {}
  BY <1>2
<1>4. IsWellFoundedOn(OpToRel(<, Nat), Nat)
  BY NatLessThanWellFounded
<1>5. PICK x \in T : \A y \in T : ~(<<y, x>> \in OpToRel(<, Nat))
  <2> HIDE DEF T
  <2> QED BY <1>3, <1>4, WFMin
<1>6. \A y \in T : ~(y < x)
  BY <1>5 DEF OpToRel
<1>7. n - x \in S
  BY <1>5
<1>8. ASSUME NEW p \in S PROVE n - x >= p
  <2>1. n - p \in T /\ ~(n - p < x)
    BY <1>2, <1>6
  <2>2. n - p \in Nat /\ x \in Nat
    BY <1>1, <1>3
  <2> QED BY <1>1, <2>1, <2>2
<1> QED BY <1>7, <1>8 DEF Newest

LEMMA Quotients ==
    ASSUME NEW num \in Int, NEW den \in Nat \ {0}
    PROVE  /\ num \div den \in Int /\ num % den \in 0..den - 1
           /\ num = den * (num \div den) + (num % den)
  OBVIOUS

LEMMA RoundType ==
    ASSUME NEW num \in Int, NEW den \in Nat \ {0}
    PROVE  RoundHalfEven(num, den) \in Int
  BY Quotients DEF RoundHalfEven

(* A partial exit never costs more than the whole basis.                   *)
LEMMA PartCostsLess ==
    ASSUME NEW basis \in Nat, NEW q \in Nat \ {0}, NEW held \in Nat, q < held
    PROVE  RoundHalfEven(basis * q, held) \in Int /\ RoundHalfEven(basis * q, held) <= basis
<1> DEFINE f == (basis * q) \div held
           r == (basis * q) % held
<1>1. basis * q \in Int /\ held \in Nat \ {0}
  OBVIOUS
<1>2. f \in Int /\ r \in 0..held - 1 /\ basis * q = held * f + r
  BY <1>1, Quotients
<1>3. RoundHalfEven(basis * q, held) \in {f, f + 1}
      /\ (r = 0 => RoundHalfEven(basis * q, held) = f)
  BY <1>1, <1>2 DEF RoundHalfEven
<1> HIDE DEF f, r
<1>4. PICK d \in Nat \ {0} : held = q + d
  <2>1. held - q \in Nat \ {0} /\ held = q + (held - q)
    OBVIOUS
  <2> QED BY <2>1
<1>5. CASE f > basis
  <2>1. PICK e \in Nat \ {0} : f = basis + e
    <3>1. f - basis \in Nat \ {0} /\ f = basis + (f - basis)
      BY <1>2, <1>5
    <3> QED BY <3>1
  <2>2. held * f = held * basis + held * e
    BY <2>1
  <2>3. held * basis = q * basis + d * basis
    BY <1>4
  <2>4. held * e > 0 /\ d * basis >= 0
    BY <1>4, <2>1
  <2>5. basis * q = q * basis
    OBVIOUS
  <2> QED BY <1>2, <2>2, <2>3, <2>4, <2>5
<1>6. CASE f = basis
  <2>1. held * f = q * basis + d * basis
    BY <1>4, <1>6
  <2>2. d * basis >= 0 /\ q * basis = basis * q
    BY <1>4
  <2>3. r = 0
    BY <1>2, <2>1, <2>2
  <2> QED BY <1>2, <1>3, <1>6, <2>3
<1>7. CASE f < basis
  BY <1>2, <1>3, <1>7
<1> QED BY <1>2, <1>5, <1>6, <1>7

-----------------------------------------------------------------------------
(* The invariant.                                                          *)

Filling == {"lock", "check", "save", "commit"}
Busy == Filling \cup {"placed", "rest", "reject", "rejected"}

Statuses == {"open", "filled", "cancelled", "rejected"}
OrderRow == [ticket : {t \in Tickets : Valid(t)}, status : Statuses, price : Nat, entry : Nat]
EntryRow == [order : Nat, price : Nat, cash : Int, basis : Int, shares : Int, gain : Int]

Typed ==
    /\ orders \in Seq(OrderRow)
    /\ journal \in Seq(EntryRow)
    /\ balance \in [Accounts -> Nat] /\ shares \in [Positions -> Nat]
    /\ price \in Nat
    /\ DOMAIN holder = Accounts /\ DOMAIN claim = 1..MaxRequests
    /\ DOMAIN pc = Workers /\ DOMAIN ticket = Placers
    /\ target \in [Workers -> Nat] /\ quote \in [Workers -> Nat]
    /\ DOMAIN wanted = Workers /\ DOMAIN draft = Workers
    /\ DOMAIN queue = Sweepers /\ DOMAIN reply = Placers

(* Every order uses up one of the requests.                                *)
Inserting == {p \in Placers : pc[p] = "insert"}
RoomInv ==
    /\ IsFiniteSet(Inserting)
    /\ requests \in Nat /\ requests <= MaxRequests
    /\ Len(orders) + Cardinality(Inserting) <= requests

(* What a worker knows about its order.                                    *)
Knows(w) ==
    /\ pc[w] \in Busy => target[w] \in DOMAIN orders
    /\ pc[w] \in Filling => Crosses(orders[target[w]].ticket, quote[w])
    /\ w \in Placers =>
          /\ pc[w] \in Busy => orders[target[w]].ticket = ticket[w]
          /\ pc[w] = "insert" => ticket[w] \in Tickets /\ Valid(ticket[w])
          /\ reply[w].order # 0 => /\ reply[w].order \in DOMAIN orders
                                   /\ orders[reply[w].order].ticket = ticket[w]
    /\ w \in Sweepers => queue[w] \subseteq DOMAIN orders

(* The accounts of a fill, which its worker holds or is about to lock.     *)
Places(o) == {orders[o].ticket.cash, Position(o)}
Holds(w) ==
    pc[w] \in Filling =>
        \A a \in Places(target[w]) : holder[a] = w \/ (pc[w] = "lock" /\ a \in wanted[w])

(* What was checked is still so when the entry is committed.               *)
Covered(w) ==
    pc[w] \in {"save", "commit"} =>
        /\ draft[w] = FillEntry(target[w], quote[w])
        /\ ~Refused(target[w], quote[w])
        /\ EntriesOf(target[w]) = {}

(* A limit order is filled under its claim, and is open until then; every  *)
(* order is claimed when its row has been written.                         *)
Claims(w) ==
    /\ pc[w] \in Filling /\ orders[target[w]].ticket.type = "limit" =>
          claim[target[w]] = w /\ orders[target[w]].status = "open"
    /\ pc[w] = "commit" => claim[target[w]] = w

(* What the journal, the orders and the trail say of each other.           *)
BooksInv ==
    /\ \A n \in DOMAIN journal : journal[n].order \in DOMAIN orders
    /\ \A r \in trail : r.order \in DOMAIN orders
    /\ PostedOnce /\ EntryAndOrderAgree /\ LimitRespected

WorkerInv(w) == Knows(w) /\ Holds(w) /\ Covered(w) /\ Claims(w)
IInv == Typed /\ RoomInv /\ (\A w \in Workers : WorkerInv(w)) /\ BooksInv /\ NoDust

-----------------------------------------------------------------------------
(* Frames: what a step leaves of the invariant where it does nothing.      *)

LEMMA OrderFacts ==
    ASSUME Typed, NEW o \in DOMAIN orders
    PROVE  /\ o \in Nat /\ orders[o] \in OrderRow
           /\ orders[o].ticket \in Tickets /\ Valid(orders[o].ticket)
           /\ orders[o].ticket.cash \in Accounts \ Positions
           /\ Position(o) \in Positions /\ Position(o) \in Accounts
           /\ Places(o) \subseteq Accounts
<1>1. o \in Nat /\ orders[o] \in OrderRow
  BY DEF Typed
<1>2. orders[o].ticket \in Tickets /\ Valid(orders[o].ticket)
  BY <1>1 DEF OrderRow
<1>3. orders[o].ticket.cash \in Accounts \ Positions
  BY <1>2, TicketsAssumption
<1>4. Position(o) \in Positions /\ Position(o) \in Accounts
  BY <1>3, AccountsAssumption DEF Position, Positions
<1> QED BY <1>1, <1>2, <1>3, <1>4 DEF Places

LEMMA OrdersFit ==
    ASSUME IInv
    PROVE  DOMAIN orders = 1..Len(orders) /\ Len(orders) \in Nat /\ DOMAIN orders \subseteq DOMAIN claim
<1>1. Len(orders) \in Nat /\ DOMAIN orders = 1..Len(orders)
  BY DEF IInv, Typed
<1>2. Cardinality(Inserting) \in Nat
  BY FS_CardinalityType DEF IInv, RoomInv
<1>3. Len(orders) <= MaxRequests
  BY <1>1, <1>2, BoundsAssumption DEF IInv, RoomInv
<1> QED BY <1>1, <1>3, BoundsAssumption DEF IInv, Typed

(* Orders stay, with their tickets.                                        *)
OrdersKept ==
    \A o \in DOMAIN orders : o \in DOMAIN orders' /\ orders'[o].ticket = orders[o].ticket

LEMMA SamePlaces ==
    ASSUME OrdersKept, NEW o \in DOMAIN orders
    PROVE  Position(o)' = Position(o) /\ Places(o)' = Places(o)
  BY DEF OrdersKept, Position, Places

(* A worker that takes no step.                                            *)
Rests(v) ==
    /\ pc'[v] = pc[v] /\ target'[v] = target[v] /\ quote'[v] = quote[v]
    /\ wanted'[v] = wanted[v] /\ draft'[v] = draft[v]
    /\ v \in Placers => ticket'[v] = ticket[v] /\ reply'[v] = reply[v]
    /\ v \in Sweepers => queue'[v] = queue[v]

(* Nobody touches the rows it holds.                                       *)
RowsKept(v) ==
    /\ \A a \in Accounts : holder[a] = v =>
          /\ holder'[a] = v /\ balance'[a] = balance[a]
          /\ a \in Positions => shares'[a] = shares[a]
    /\ \A o \in DOMAIN orders : claim[o] = v =>
          claim'[o] = v /\ orders'[o].status = orders[o].status

LEMMA FillingHeld ==
    ASSUME IInv, NEW w \in Workers, pc[w] \in {"check", "save", "commit"}
    PROVE  /\ target[w] \in DOMAIN orders
           /\ holder[orders[target[w]].ticket.cash] = w /\ holder[Position(target[w])] = w
  BY DEF IInv, WorkerInv, Knows, Holds, Filling, Busy, Places

(* What can be afforded depends on the rows of the two accounts only.      *)
LEMMA SameFill ==
    ASSUME Typed, OrdersKept, NEW o \in DOMAIN orders, NEW p,
           balance'[orders[o].ticket.cash] = balance[orders[o].ticket.cash],
           balance'[Position(o)] = balance[Position(o)],
           shares'[Position(o)] = shares[Position(o)]
    PROVE  Refused(o, p)' = Refused(o, p) /\ FillEntry(o, p)' = FillEntry(o, p)
<1>1. Position(o)' = Position(o) /\ orders'[o].ticket = orders[o].ticket
  BY SamePlaces DEF OrdersKept
<1>2. Refused(o, p)' = Refused(o, p)
  BY <1>1 DEF Refused, Notional, CostOf
<1>3. FillEntry(o, p)' = FillEntry(o, p)
  BY <1>1 DEF FillEntry, Notional, CostOf
<1> QED BY <1>2, <1>3

LEMMA Frame ==
    ASSUME IInv, OrdersKept, NEW v \in Workers, Rests(v), RowsKept(v),
           pc[v] \in {"save", "commit"} => EntriesOf(target[v])' = EntriesOf(target[v])
    PROVE  WorkerInv(v)'
<1>1. Knows(v) /\ Holds(v) /\ Covered(v) /\ Claims(v)
  BY DEF IInv, WorkerInv
<1>2. Knows(v)'
  BY <1>1 DEF Knows, Rests, OrdersKept, Busy, Filling
<1>3. ASSUME pc[v] \in Filling
      PROVE  /\ target[v] \in DOMAIN orders /\ Places(target[v]) \subseteq Accounts
             /\ Places(target[v])' = Places(target[v])
  <2>1. target[v] \in DOMAIN orders /\ target'[v] = target[v]
    BY <1>1, <1>3 DEF Knows, Filling, Busy, Rests
  <2>2. Places(target[v]) \subseteq Accounts
    BY <2>1, OrderFacts DEF IInv
  <2>3. Places(target[v])' = Places(target[v])
    BY <2>1 DEF Places, Position, OrdersKept
  <2> QED BY <2>1, <2>2, <2>3
<1>4. Holds(v)'
  <2> SUFFICES ASSUME pc[v] \in Filling,
                      NEW a \in Places(target[v])
               PROVE  holder'[a] = v \/ (pc[v] = "lock" /\ a \in wanted[v])
    BY <1>3 DEF Holds, Rests, Places, Position
  <2> QED BY <1>1, <1>3 DEF Holds, RowsKept
<1>5. Covered(v)'
  <2> SUFFICES ASSUME pc[v] \in {"save", "commit"} PROVE Covered(v)'
    BY DEF Covered, Rests
  <2>1. target[v] \in DOMAIN orders /\ holder[orders[target[v]].ticket.cash] = v
        /\ holder[Position(target[v])] = v
    BY FillingHeld
  <2>2. /\ balance'[orders[target[v]].ticket.cash] = balance[orders[target[v]].ticket.cash]
        /\ balance'[Position(target[v])] = balance[Position(target[v])]
        /\ shares'[Position(target[v])] = shares[Position(target[v])]
    BY <2>1, OrderFacts DEF RowsKept, IInv
  <2>3. /\ Refused(target[v], quote[v])' = Refused(target[v], quote[v])
        /\ FillEntry(target[v], quote[v])' = FillEntry(target[v], quote[v])
    BY <2>1, <2>2, SameFill DEF IInv, Rests
  <2> QED BY <1>1, <2>3 DEF Covered, Rests
<1>6. Claims(v)'
  <2>1. pc'[v] = pc[v] /\ target'[v] = target[v]
    BY DEF Rests
  <2>2. pc[v] = "commit" => claim[target[v]] = v /\ claim'[target[v]] = v
    BY <1>1, <1>3 DEF Claims, RowsKept, Filling
  <2>3. pc[v] \in Filling /\ orders'[target[v]].ticket.type = "limit" =>
           claim'[target[v]] = v /\ orders'[target[v]].status = "open"
    BY <1>1, <1>3 DEF Claims, RowsKept, OrdersKept
  <2> QED BY <2>1, <2>2, <2>3 DEF Claims
<1> QED BY <1>2, <1>4, <1>5, <1>6 DEF WorkerInv

LEMMA RoomKept ==
    ASSUME IInv, requests' = requests, Len(orders') = Len(orders),
           \A p \in Placers : pc'[p] = "insert" => pc[p] = "insert"
    PROVE  RoomInv'
<1>1. Inserting' \subseteq Inserting
  BY DEF Inserting
<1>2. IsFiniteSet(Inserting') /\ Cardinality(Inserting') <= Cardinality(Inserting)
  BY <1>1, FS_Subset DEF IInv, RoomInv
<1>3. Cardinality(Inserting) \in Nat /\ Cardinality(Inserting') \in Nat /\ Len(orders) \in Nat
  BY <1>2, FS_CardinalityType DEF IInv, RoomInv, Typed
<1> QED BY <1>2, <1>3, BoundsAssumption DEF IInv, RoomInv

(* A step that posts nothing.                                              *)
LEMMA BooksKept ==
    ASSUME IInv, OrdersKept, journal' = journal, trail \subseteq trail',
           \A o \in DOMAIN orders :
              orders'[o].entry = orders[o].entry /\ orders'[o].price = orders[o].price,
           \A o \in DOMAIN orders' : o \in DOMAIN orders \/ orders'[o].entry = 0,
           \A r \in trail' : r \in trail \/ (r.action # "filled" /\ r.order \in DOMAIN orders')
    PROVE  BooksInv'
<1>1. BooksInv
  BY DEF IInv
<1>2. PostedOnce' /\ LimitRespected'
  BY <1>1 DEF BooksInv, PostedOnce, LimitRespected, OrdersKept
<1>3. (\A n \in DOMAIN journal : journal[n].order \in DOMAIN orders)'
      /\ (\A r \in trail : r.order \in DOMAIN orders)'
  BY <1>1 DEF BooksInv, OrdersKept
<1>4. EntryAndOrderAgree'
  <2>1. ASSUME NEW o \in DOMAIN orders', orders'[o].entry = 0, Row("filled", o) \in trail'
        PROVE  FALSE
    <3>1. Row("filled", o) \in trail /\ o \in DOMAIN orders
      BY <1>1, <2>1 DEF BooksInv, Row
    <3> QED BY <1>1, <2>1, <3>1 DEF BooksInv, EntryAndOrderAgree
  <2>2. ASSUME NEW n \in DOMAIN journal'
        PROVE  /\ orders'[journal'[n].order].entry = n
               /\ orders'[journal'[n].order].price = journal'[n].price
               /\ Row("filled", journal'[n].order) \in trail'
    BY <1>1 DEF BooksInv, EntryAndOrderAgree
  <2> QED BY <2>1, <2>2 DEF EntryAndOrderAgree
<1> QED BY <1>2, <1>3, <1>4 DEF BooksInv

LEMMA Bystander ==
    ASSUME IInv, OrdersKept, journal' = journal, NEW v \in Workers, Rests(v), RowsKept(v)
    PROVE  WorkerInv(v)'
<1>1. EntriesOf(target[v])' = EntriesOf(target[v])
  BY DEF EntriesOf, Rests
<1> QED BY <1>1, Frame

(* A step of w alone that moves no money, releases no row of another       *)
(* worker, and changes no order.                                           *)
LEMMA OwnStep ==
    ASSUME IInv, NEW w \in Workers, UNCHANGED <<orders, ledger>>,
           Typed', RoomInv', WorkerInv(w)',
           \A v \in Workers : v # w => Rests(v),
           \A a \in Accounts : holder[a] \notin {w, Nobody} => holder'[a] = holder[a],
           \A o \in DOMAIN claim : claim[o] \notin {w, Nobody} => claim'[o] = claim[o],
           trail \subseteq trail',
           \A r \in trail' : r \in trail \/ (r.action # "filled" /\ r.order \in DOMAIN orders)
    PROVE  IInv'
<1>1. OrdersKept
  BY DEF OrdersKept
<1>2. ASSUME NEW v \in Workers, v # w PROVE WorkerInv(v)'
  <2>1. v # Nobody
    BY WorkersAssumption DEF Workers
  <2>2. RowsKept(v)
    BY <1>2, <2>1, OrdersFit DEF RowsKept, ledger
  <2> QED BY <1>1, <1>2, <2>2, Bystander DEF ledger
<1>3. BooksInv'
  BY <1>1, BooksKept DEF ledger
<1>4. NoDust'
  BY DEF IInv, NoDust, ledger
<1> QED BY <1>2, <1>3, <1>4 DEF IInv

-----------------------------------------------------------------------------
(* place_order.                                                            *)

LEMMA ReceiveKept ==
    ASSUME IInv, NEW p \in Placers, NEW k \in Tickets, Receive(p, k)
    PROVE  IInv'
<1>1. /\ p \in Workers /\ p \notin Sweepers
      /\ pc[p] = "idle" /\ requests < MaxRequests /\ requests' = requests + 1
      /\ ticket' = [ticket EXCEPT ![p] = k]
      /\ UNCHANGED <<orders, ledger, trail, price, holder, claim, target, wanted, draft, queue>>
  BY WorkersAssumption DEF Receive, Workers
<1>2. /\ \/ UNCHANGED <<pc, quote>>
         \/ /\ Valid(k)
            /\ quote' = [quote EXCEPT ![p] = price] /\ pc' = [pc EXCEPT ![p] = "insert"]
  BY DEF Receive, GoTo
<1>3. /\ DOMAIN reply' = Placers
      /\ \A v \in Placers : v # p => reply'[v] = reply[v]
      /\ reply'[p].order = 0 \/ (/\ reply'[p].order \in DOMAIN orders
                                 /\ orders[reply'[p].order].ticket = k)
  <2>1. PICK outcome, o, st : /\ Answer(p, outcome, o, st)
                              /\ o = 0 \/ (o \in DOMAIN orders /\ orders[o].ticket = k)
    BY DEF Receive, OwnOrders, SameRequest
  <2>2. reply' = [q \in Placers |-> IF q = p THEN Told(outcome, o, st) ELSE reply[q]]
    BY <2>1 DEF Answer
  <2>3. reply'[p] = Told(outcome, o, st)
    BY <2>2
  <2>4. reply'[p].order = o
    BY <2>3 DEF Told
  <2>5. DOMAIN reply' = Placers /\ \A v \in Placers : v # p => reply'[v] = reply[v]
    BY <2>2
  <2> QED BY <2>1, <2>4, <2>5
<1>4. Typed'
  <2>1. /\ DOMAIN pc' = Workers /\ DOMAIN ticket' = Placers /\ DOMAIN reply' = Placers
        /\ quote' \in [Workers -> Nat]
    <3>1. CASE UNCHANGED <<pc, quote>>
      BY <1>1, <1>3, <3>1 DEF IInv, Typed
    <3>2. CASE /\ quote' = [quote EXCEPT ![p] = price]
               /\ pc' = [pc EXCEPT ![p] = "insert"]
      BY <1>1, <1>3, <3>2 DEF IInv, Typed
    <3> QED BY <1>2, <3>1, <3>2
  <2> QED BY <1>1, <2>1 DEF IInv, Typed, ledger
<1>5. RoomInv'
  <2>1. Inserting' = Inserting \/ Inserting' = Inserting \cup {p}
    <3>1. CASE UNCHANGED <<pc, quote>>
      BY <3>1 DEF Inserting
    <3>2. CASE pc' = [pc EXCEPT ![p] = "insert"]
      <4>1. \A v \in Workers : pc'[v] = IF v = p THEN "insert" ELSE pc[v]
        BY <3>2 DEF IInv, Typed
      <4> QED BY <1>1, <4>1 DEF Inserting, Workers
    <3> QED BY <1>2, <3>1, <3>2
  <2>2. IsFiniteSet(Inserting') /\ Cardinality(Inserting') <= Cardinality(Inserting) + 1
    <3>1. IsFiniteSet(Inserting) /\ Cardinality(Inserting) \in Nat
      BY FS_CardinalityType DEF IInv, RoomInv
    <3>2. /\ IsFiniteSet(Inserting \cup {p})
          /\ Cardinality(Inserting \cup {p}) =
                IF p \in Inserting THEN Cardinality(Inserting) ELSE Cardinality(Inserting) + 1
      BY <3>1, FS_AddElement
    <3>3. CASE Inserting' = Inserting
      BY <3>1, <3>3
    <3>4. CASE Inserting' = Inserting \cup {p}
      BY <3>1, <3>2, <3>4
    <3> QED BY <2>1, <3>3, <3>4
  <2>3. Cardinality(Inserting) \in Nat /\ Cardinality(Inserting') \in Nat /\ Len(orders) \in Nat
    BY <2>2, FS_CardinalityType DEF IInv, RoomInv, Typed
  <2> QED BY <1>1, <2>2, <2>3, BoundsAssumption DEF IInv, RoomInv
<1>6. pc'[p] \in {"idle", "insert"} /\ (pc'[p] = "insert" => Valid(k))
  BY <1>1, <1>2 DEF IInv, Typed
<1>7. WorkerInv(p)'
  <2>1. Knows(p)'
    BY <1>1, <1>3, <1>6 DEF Knows, Busy, Filling, IInv, Typed
  <2>2. Holds(p)' /\ Covered(p)' /\ Claims(p)'
    BY <1>6 DEF Holds, Covered, Claims, Filling
  <2> QED BY <2>1, <2>2 DEF WorkerInv
<1>8. \A v \in Workers : v # p => Rests(v)
  BY <1>1, <1>2, <1>3 DEF Rests, IInv, Typed
<1> QED BY <1>1, <1>4, <1>5, <1>7, <1>8, OwnStep

LEMMA InsertOrderKept ==
    ASSUME IInv, NEW p \in Placers, InsertOrder(p)
    PROVE  IInv'
<1> DEFINE k == ticket[p]
<1>1. /\ p \in Workers /\ p \notin Sweepers /\ pc[p] = "insert"
      /\ k \in Tickets /\ Valid(k)
      /\ UNCHANGED <<ledger, trail, price, holder, claim, ticket, wanted, draft, queue, requests>>
  BY WorkersAssumption DEF InsertOrder, Workers, IInv, WorkerInv, Knows, budget
<1>2. CASE /\ Answer(p, "conflict", 0, "none")
           /\ quote' = [quote EXCEPT ![p] = 0]
           /\ GoTo(p, "idle")
           /\ UNCHANGED <<orders, target>>
  <2>1. /\ DOMAIN reply' = Placers /\ reply'[p].order = 0
        /\ \A v \in Placers : v # p => reply'[v] = reply[v]
    BY <1>2 DEF Answer, Told
  <2>2. Typed'
    BY <1>1, <1>2, <2>1 DEF IInv, Typed, ledger, GoTo
  <2>3. pc'[p] = "idle" /\ \A v \in Workers : v # p => pc'[v] = pc[v]
    BY <1>1, <1>2 DEF IInv, Typed, GoTo
  <2>4. RoomInv'
    BY <1>1, <1>2, <2>3, RoomKept DEF Workers
  <2>5. WorkerInv(p)'
    BY <1>1, <2>1, <2>3 DEF WorkerInv, Knows, Holds, Covered, Claims, Busy, Filling
  <2>6. \A v \in Workers : v # p => Rests(v)
    BY <1>1, <1>2, <2>1, <2>3 DEF Rests, IInv, Typed
  <2> QED BY <1>1, <1>2, <2>2, <2>4, <2>5, <2>6, OwnStep
<1>3. CASE /\ orders' = Append(orders, NewOrder(k))
           /\ target' = [target EXCEPT ![p] = Len(orders) + 1]
           /\ GoTo(p, "placed")
           /\ UNCHANGED <<reply, quote>>
  <2>1. NewOrder(k) \in OrderRow /\ orders \in Seq(OrderRow) /\ Len(orders) \in Nat
    <3>1. NewOrder(k) \in OrderRow
      BY <1>1 DEF NewOrder, OrderRow, Statuses
    <3> QED BY <3>1 DEF IInv, Typed
  <2>2. /\ orders' \in Seq(OrderRow) /\ Len(orders') = Len(orders) + 1
        /\ DOMAIN orders = 1..Len(orders) /\ DOMAIN orders' = 1..Len(orders) + 1
        /\ \A o \in DOMAIN orders : o \in DOMAIN orders' /\ orders'[o] = orders[o]
        /\ orders'[Len(orders) + 1] = NewOrder(k)
    BY <1>3, <2>1
  <2>3. pc'[p] = "placed" /\ \A v \in Workers : v # p => pc'[v] = pc[v]
    BY <1>1, <1>3 DEF IInv, Typed, GoTo
  <2>4. target'[p] = Len(orders) + 1
    BY <1>1, <1>3 DEF IInv, Typed
  <2>5. Typed'
    BY <1>1, <1>3, <2>1, <2>2 DEF IInv, Typed, ledger, GoTo
  <2>6. RoomInv'
    <3>1. Inserting' = Inserting \ {p} /\ p \in Inserting
      BY <1>1, <2>3 DEF Inserting, Workers
    <3>2. IsFiniteSet(Inserting') /\ Cardinality(Inserting') = Cardinality(Inserting) - 1
      BY <3>1, FS_RemoveElement DEF IInv, RoomInv
    <3>3. Cardinality(Inserting) \in Nat
      BY FS_CardinalityType DEF IInv, RoomInv
    <3> QED BY <1>1, <2>1, <2>2, <3>2, <3>3 DEF IInv, RoomInv
  <2>7. OrdersKept
    BY <2>2 DEF OrdersKept
  <2>8. WorkerInv(p)'
    <3>1. Knows(p) BY <1>1 DEF IInv, WorkerInv
    <3>2. Knows(p)'
      BY <1>1, <1>3, <2>1, <2>2, <2>3, <2>4, <2>7, <3>1 DEF Knows, Busy, Filling, NewOrder, OrdersKept
    <3> QED BY <2>3, <3>2 DEF WorkerInv, Holds, Covered, Claims, Filling
  <2>9. ASSUME NEW v \in Workers, v # p PROVE WorkerInv(v)'
    <3>1. Rests(v)
      BY <1>1, <1>3, <2>3, <2>9 DEF Rests, IInv, Typed
    <3>2. RowsKept(v)
      BY <1>1, <2>2 DEF RowsKept, ledger
    <3> QED BY <1>1, <2>7, <3>1, <3>2, Bystander DEF ledger
  <2>10. BooksInv'
    <3>1. \A o \in DOMAIN orders' : o \in DOMAIN orders \/ orders'[o].entry = 0
      BY <2>1, <2>2 DEF NewOrder
    <3> QED BY <1>1, <2>2, <2>7, <3>1, BooksKept DEF ledger
  <2>11. NoDust'
    BY <1>1 DEF IInv, NoDust, ledger
  <2> QED BY <2>5, <2>6, <2>8, <2>9, <2>10, <2>11 DEF IInv
<1> QED BY <1>2, <1>3 DEF InsertOrder

(* What BeginFill gives its worker.                                        *)
LEMMA FillBegun ==
    ASSUME IInv, NEW w \in Workers, NEW o \in DOMAIN orders, NEW p \in Nat,
           orders' = orders, BeginFill(w, o, p)
    PROVE  /\ pc'[w] = "lock" /\ target'[w] = o /\ quote'[w] = p
           /\ DOMAIN pc' = Workers /\ DOMAIN wanted' = Workers
           /\ target' \in [Workers -> Nat] /\ quote' \in [Workers -> Nat]
           /\ Holds(w)' /\ Covered(w)'
           /\ \A v \in Workers : v # w =>
                 /\ pc'[v] = pc[v] /\ target'[v] = target[v]
                 /\ quote'[v] = quote[v] /\ wanted'[v] = wanted[v]
<1>1. o \in Nat
  BY OrderFacts DEF IInv
<1>2. /\ pc' = [pc EXCEPT ![w] = "lock"] /\ target' = [target EXCEPT ![w] = o]
      /\ quote' = [quote EXCEPT ![w] = p]
      /\ wanted' = [wanted EXCEPT ![w] = Places(o)]
  BY DEF BeginFill, GoTo, Places
<1>3. /\ pc'[w] = "lock" /\ target'[w] = o /\ quote'[w] = p /\ wanted'[w] = Places(o)
      /\ DOMAIN pc' = Workers /\ DOMAIN wanted' = Workers
      /\ target' \in [Workers -> Nat] /\ quote' \in [Workers -> Nat]
      /\ \A v \in Workers : v # w =>
            /\ pc'[v] = pc[v] /\ target'[v] = target[v]
            /\ quote'[v] = quote[v] /\ wanted'[v] = wanted[v]
  BY <1>1, <1>2 DEF IInv, Typed
<1>4. Places(o)' = Places(o)
  BY DEF Places, Position
<1>5. Holds(w)' /\ Covered(w)'
  BY <1>3, <1>4 DEF Holds, Covered, Places, Position
<1> QED BY <1>3, <1>5

LEMMA RecordPlacedKept ==
    ASSUME IInv, NEW p \in Placers, RecordPlaced(p)
    PROVE  IInv'
<1>1. /\ p \in Workers /\ p \notin Sweepers /\ pc[p] = "placed"
      /\ trail' = trail \cup {Row("placed", target[p])}
      /\ UNCHANGED <<orders, ledger, price, holder, claim, ticket, draft, queue, reply, requests>>
  BY WorkersAssumption DEF RecordPlaced, Workers, budget
<1>2. /\ Knows(p) /\ target[p] \in DOMAIN orders /\ orders[target[p]].ticket = ticket[p]
      /\ quote[p] \in Nat
  BY <1>1 DEF IInv, Typed, WorkerInv, Knows, Busy
<1>3. /\ pc'[p] \in {"lock", "rest"} /\ target'[p] = target[p] /\ quote'[p] = quote[p]
      /\ pc'[p] = "lock" => ticket[p].type = "market"
      /\ DOMAIN pc' = Workers /\ DOMAIN wanted' = Workers
      /\ target' \in [Workers -> Nat] /\ quote' \in [Workers -> Nat]
      /\ Holds(p)' /\ Covered(p)'
      /\ \A v \in Workers : v # p =>
            /\ pc'[v] = pc[v] /\ target'[v] = target[v]
            /\ quote'[v] = quote[v] /\ wanted'[v] = wanted[v]
  <2>1. CASE ticket[p].type = "market"
    BY <1>1, <1>2, <2>1, FillBegun DEF RecordPlaced
  <2>2. CASE ticket[p].type # "market"
    <3>1. pc' = [pc EXCEPT ![p] = "rest"] /\ UNCHANGED <<target, quote, wanted>>
      BY <2>2 DEF RecordPlaced, GoTo
    <3>2. pc'[p] = "rest" /\ \A v \in Workers : v # p => pc'[v] = pc[v]
      BY <1>1, <3>1 DEF IInv, Typed
    <3> QED BY <1>1, <2>2, <3>1, <3>2 DEF IInv, Typed, Holds, Covered, Filling
  <2> QED BY <2>1, <2>2
<1>4. Typed'
  BY <1>1, <1>3 DEF IInv, Typed, ledger
<1>5. RoomInv'
  BY <1>1, <1>3, RoomKept DEF Workers
<1>6. WorkerInv(p)'
  <2>1. Knows(p)'
    BY <1>1, <1>2, <1>3 DEF Knows, Busy, Filling, Crosses
  <2>2. Claims(p)'
    BY <1>1, <1>2, <1>3 DEF Claims, Filling
  <2> QED BY <1>3, <2>1, <2>2 DEF WorkerInv
<1>7. \A v \in Workers : v # p => Rests(v)
  BY <1>1, <1>3 DEF Rests
<1>8. \A r \in trail' : r \in trail \/ (r.action # "filled" /\ r.order \in DOMAIN orders)
  BY <1>1, <1>2 DEF Row
<1> QED BY <1>1, <1>4, <1>5, <1>6, <1>7, <1>8, OwnStep

(* The last step of a call: the order is recorded, the caller answered.    *)
LEMMA AnswerKept ==
    ASSUME IInv, NEW w \in Workers, NEW action, NEW outcome, NEW st,
           pc[w] \in Busy, action # "filled",
           trail' = trail \cup {Row(action, target[w])},
           Answer(w, outcome, target[w], st),
           target' = [target EXCEPT ![w] = 0], quote' = [quote EXCEPT ![w] = 0],
           pc' = [pc EXCEPT ![w] = IF w \in Sweepers THEN "next" ELSE "idle"],
           UNCHANGED <<orders, ledger, price, holder, claim, ticket, wanted, draft, queue, requests>>
    PROVE  IInv'
<1>1. Knows(w) /\ target[w] \in DOMAIN orders
  BY DEF IInv, WorkerInv, Knows
<1>2. pc'[w] \in {"next", "idle"} /\ \A v \in Workers : v # w => pc'[v] = pc[v]
  BY DEF IInv, Typed
<1>3. /\ DOMAIN reply' = Placers
      /\ \A v \in Placers : v # w => reply'[v] = reply[v]
      /\ w \in Placers => reply'[w].order = target[w]
  BY DEF Answer, Told
<1>4. Typed'
  BY <1>3 DEF IInv, Typed, ledger
<1>5. RoomInv'
  BY <1>2, RoomKept DEF Workers
<1>6. WorkerInv(w)'
  <2>1. w \in Placers => orders[target[w]].ticket = ticket[w]
    BY <1>1 DEF Knows
  <2> QED BY <1>1, <1>2, <1>3, <2>1
          DEF WorkerInv, Knows, Holds, Covered, Claims, Busy, Filling
<1>7. \A v \in Workers : v # w => Rests(v)
  BY <1>2, <1>3 DEF Rests, IInv, Typed
<1>8. \A r \in trail' : r \in trail \/ (r.action # "filled" /\ r.order \in DOMAIN orders)
  BY <1>1 DEF Row
<1> QED BY <1>4, <1>5, <1>6, <1>7, <1>8, OwnStep

LEMMA RecordRestedKept ==
    ASSUME IInv, NEW p \in Placers, RecordRested(p)
    PROVE  IInv'
<1>1. p \in Workers /\ p \notin Sweepers /\ pc[p] = "rest"
  BY WorkersAssumption DEF Workers, RecordRested
<1> QED BY <1>1, AnswerKept DEF RecordRested, Busy, GoTo, budget

LEMMA RecordRejectedKept ==
    ASSUME IInv, NEW w \in Workers, RecordRejected(w)
    PROVE  IInv'
  BY AnswerKept DEF RecordRejected, Busy, Finish, GoTo, budget

-----------------------------------------------------------------------------
(* execute_fill up to its COMMIT, and the ends of a worker.                *)

LEMMA LockAccountKept ==
    ASSUME IInv, NEW w \in Workers, LockAccount(w)
    PROVE  IInv'
<1> DEFINE a == Least(wanted[w])
<1>1. /\ pc[w] = "lock" /\ holder[a] = Nobody
      /\ holder' = [holder EXCEPT ![a] = w]
      /\ wanted' = [wanted EXCEPT ![w] = @ \ {a}]
      /\ pc' = [pc EXCEPT ![w] = IF wanted[w] = {a} THEN "check" ELSE "lock"]
      /\ UNCHANGED <<orders, ledger, trail, price, claim, ticket, target, quote, draft, queue,
                     reply, requests>>
  BY DEF LockAccount, GoTo, budget
<1> HIDE DEF a
<1>2. /\ pc'[w] \in {"check", "lock"} /\ wanted'[w] = wanted[w] \ {a}
      /\ pc'[w] = "check" => wanted[w] = {a}
      /\ \A v \in Workers : v # w => pc'[v] = pc[v] /\ wanted'[v] = wanted[v]
      /\ \A b \in Accounts : holder'[b] = IF b = a THEN w ELSE holder[b]
  BY <1>1 DEF IInv, Typed
<1>3. Typed'
  BY <1>1 DEF IInv, Typed, ledger
<1>4. RoomInv'
  BY <1>1, <1>2, RoomKept DEF Workers
<1>5. Knows(w) /\ Holds(w) /\ Claims(w) /\ target[w] \in DOMAIN orders
  BY <1>1 DEF IInv, WorkerInv, Knows, Busy, Filling
<1>6. Knows(w)' /\ Claims(w)' /\ Covered(w)'
  BY <1>1, <1>2, <1>5 DEF Knows, Claims, Covered, Busy, Filling
<1>7. Holds(w)'
  <2>1. Places(target[w])' = Places(target[w]) /\ Places(target[w]) \subseteq Accounts
    BY <1>1, <1>5, OrderFacts DEF Places, Position, IInv
  <2>2. ASSUME NEW b \in Places(target[w])
        PROVE  holder'[b] = w \/ (pc'[w] = "lock" /\ b \in wanted'[w])
    <3>1. holder[b] = w \/ b \in wanted[w]
      BY <1>1, <1>5 DEF Holds, Filling
    <3> QED BY <1>2, <2>1, <3>1
  <2> QED BY <1>1, <2>1, <2>2 DEF Holds
<1>8. \A v \in Workers : v # w => Rests(v)
  BY <1>1, <1>2 DEF Rests
<1>9. \A b \in Accounts : holder[b] \notin {w, Nobody} => holder'[b] = holder[b]
  BY <1>1, <1>2
<1> QED BY <1>1, <1>3, <1>4, <1>6, <1>7, <1>8, <1>9, OwnStep DEF WorkerInv

LEMMA SaveOrderKept ==
    ASSUME IInv, NEW w \in Workers, SaveOrder(w)
    PROVE  IInv'
<1> DEFINE o == target[w]
<1>1. /\ pc[w] = "save" /\ claim[o] \in {Nobody, w}
      /\ claim' = [claim EXCEPT ![o] = w] /\ pc' = [pc EXCEPT ![w] = "commit"]
      /\ UNCHANGED <<orders, ledger, trail, price, holder, worker, requests>>
  BY DEF SaveOrder, GoTo, budget
<1>2. pc'[w] = "commit" /\ \A v \in Workers : v # w => pc'[v] = pc[v]
  BY <1>1 DEF IInv, Typed
<1>3. Typed'
  BY <1>1 DEF IInv, Typed, ledger, worker
<1>4. RoomInv'
  BY <1>1, <1>2, RoomKept DEF Workers
<1>5. WorkerInv(w) /\ o \in DOMAIN orders /\ o \in DOMAIN claim
  BY <1>1, OrdersFit DEF IInv, WorkerInv, Knows, Busy, Filling
<1>6. Knows(w)' /\ Claims(w)'
  BY <1>1, <1>2, <1>5 DEF WorkerInv, Knows, Claims, Busy, Filling, worker
<1>7. Holds(w)'
  BY <1>1, <1>2, <1>5 DEF WorkerInv, Holds, Filling, Places, Position, worker
<1>8. Covered(w)'
  BY <1>1, <1>2, <1>5 DEF WorkerInv, Covered, FillEntry, Refused, EntriesOf, Notional, CostOf, Position,
                          worker, ledger
<1>9. \A v \in Workers : v # w => Rests(v)
  BY <1>1, <1>2 DEF Rests, worker
<1>10. \A x \in DOMAIN claim : claim[x] \notin {w, Nobody} => claim'[x] = claim[x]
  BY <1>1
<1> QED BY <1>1, <1>3, <1>4, <1>6, <1>7, <1>8, <1>9, <1>10, OwnStep DEF WorkerInv

LEMMA ReleaseKeeps ==
    ASSUME IInv, NEW w \in Workers, ReleaseLocks(w)
    PROVE  /\ DOMAIN holder' = Accounts /\ DOMAIN claim' = 1..MaxRequests
           /\ \A a \in Accounts : holder[a] \notin {w, Nobody} => holder'[a] = holder[a]
           /\ \A o \in DOMAIN claim : claim[o] \notin {w, Nobody} => claim'[o] = claim[o]
  BY DEF IInv, Typed, ReleaseLocks

LEMMA DieKept ==
    ASSUME IInv, NEW w \in Workers, Die(w)
    PROVE  IInv'
<1>1. /\ pc' = [pc EXCEPT ![w] = "idle"]
      /\ target' = [target EXCEPT ![w] = 0] /\ quote' = [quote EXCEPT ![w] = 0]
      /\ wanted' = [wanted EXCEPT ![w] = {}] /\ draft' = [draft EXCEPT ![w] = NoEntry]
      /\ queue' = [s \in Sweepers |-> IF s = w THEN {} ELSE queue[s]]
      /\ ReleaseLocks(w) /\ Answer(w, "none", 0, "none")
      /\ UNCHANGED <<orders, ledger, trail, price, ticket, requests>>
  BY DEF Die, GoTo
<1>2. pc'[w] = "idle" /\ \A v \in Workers : v # w => pc'[v] = pc[v]
  BY <1>1 DEF IInv, Typed
<1>3. /\ DOMAIN reply' = Placers
      /\ \A v \in Placers : v # w => reply'[v] = reply[v]
      /\ w \in Placers => reply'[w].order = 0
  BY <1>1 DEF Answer, Told
<1>4. Typed'
  BY <1>1, <1>3, ReleaseKeeps DEF IInv, Typed, ledger
<1>5. RoomInv'
  BY <1>1, <1>2, RoomKept DEF Workers
<1>6. WorkerInv(w)'
  BY <1>1, <1>2, <1>3 DEF WorkerInv, Knows, Holds, Covered, Claims, Busy, Filling
<1>7. \A v \in Workers : v # w => Rests(v)
  BY <1>1, <1>2, <1>3 DEF Rests, IInv, Typed
<1> QED BY <1>1, <1>4, <1>5, <1>6, <1>7, ReleaseKeeps, OwnStep

LEMMA CheckAndPostKept ==
    ASSUME IInv, NEW w \in Workers, CheckAndPost(w)
    PROVE  IInv'
<1> DEFINE o == target[w]
<1>1. pc[w] = "check" /\ WorkerInv(w) /\ o \in DOMAIN orders
  BY DEF CheckAndPost, IInv, WorkerInv, Knows, Busy, Filling
<1>2. CASE /\ ReleaseLocks(w) /\ GoTo(w, "reject")
           /\ UNCHANGED <<orders, ledger, trail, price, worker, transfers, crashes, requests>>
  <2>1. pc'[w] = "reject" /\ \A v \in Workers : v # w => pc'[v] = pc[v]
    BY <1>2 DEF IInv, Typed, GoTo
  <2>2. Typed'
    BY <1>2, ReleaseKeeps DEF IInv, Typed, ledger, worker, GoTo
  <2>3. RoomInv'
    BY <1>2, <2>1, RoomKept DEF Workers
  <2>4. WorkerInv(w)'
    BY <1>1, <1>2, <2>1 DEF WorkerInv, Knows, Holds, Covered, Claims, Busy, Filling, worker
  <2>5. \A v \in Workers : v # w => Rests(v)
    BY <1>2, <2>1 DEF Rests, worker
  <2> QED BY <1>2, <2>2, <2>3, <2>4, <2>5, ReleaseKeeps, OwnStep
<1>3. CASE Die(w)
  BY <1>3, DieKept
<1>4. CASE /\ ~Refused(o, quote[w]) /\ EntriesOf(o) = {}
           /\ draft' = [draft EXCEPT ![w] = FillEntry(o, quote[w])] /\ GoTo(w, "save")
           /\ UNCHANGED <<orders, ledger, trail, price, holder, claim, ticket, target, quote,
                          wanted, queue, reply, transfers, crashes, requests>>
  <2>1. /\ pc'[w] = "save" /\ draft'[w] = FillEntry(o, quote[w])
        /\ \A v \in Workers : v # w => pc'[v] = pc[v] /\ draft'[v] = draft[v]
    BY <1>4 DEF IInv, Typed, GoTo
  <2>2. Typed'
    BY <1>4 DEF IInv, Typed, ledger, GoTo
  <2>3. RoomInv'
    BY <1>4, <2>1, RoomKept DEF Workers
  <2>4. Knows(w)' /\ Claims(w)'
    BY <1>1, <1>4, <2>1 DEF WorkerInv, Knows, Claims, Busy, Filling
  <2>5. Holds(w)'
    BY <1>1, <1>4, <2>1 DEF WorkerInv, Holds, Filling, Places, Position
  <2>6. Covered(w)'
    BY <1>4, <2>1 DEF Covered, FillEntry, Refused, EntriesOf, Notional, CostOf, Position, ledger
  <2>7. \A v \in Workers : v # w => Rests(v)
    BY <1>4, <2>1 DEF Rests
  <2> QED BY <1>4, <2>2, <2>3, <2>4, <2>5, <2>6, <2>7, OwnStep DEF WorkerInv
<1> QED BY <1>2, <1>3, <1>4 DEF CheckAndPost

-----------------------------------------------------------------------------
(* match_resting_orders.                                                   *)

LEMMA ScanKept ==
    ASSUME IInv, NEW s \in Sweepers, Scan(s)
    PROVE  IInv'
<1> DEFINE open == {o \in DOMAIN orders : orders[o].status = "open"}
<1>1. /\ s \in Workers /\ s \notin Placers /\ pc[s] = "idle"
      /\ queue' = [queue EXCEPT ![s] = open]
      /\ pc' = [pc EXCEPT ![s] = "next"]
      /\ UNCHANGED <<orders, ledger, trail, price, holder, claim, ticket, target, quote, wanted,
                     draft, reply, requests>>
  BY WorkersAssumption DEF Scan, GoTo, Workers, budget
<1>2. pc'[s] = "next" /\ \A v \in Workers : v # s => pc'[v] = pc[v]
  BY <1>1 DEF IInv, Typed
<1>3. queue'[s] \subseteq DOMAIN orders /\ \A v \in Sweepers : v # s => queue'[v] = queue[v]
  BY <1>1 DEF IInv, Typed
<1>4. Typed'
  BY <1>1 DEF IInv, Typed, ledger
<1>5. RoomInv'
  BY <1>1, <1>2, RoomKept DEF Workers
<1>6. WorkerInv(s)'
  BY <1>1, <1>2, <1>3 DEF WorkerInv, Knows, Holds, Covered, Claims, Busy, Filling
<1>7. \A v \in Workers : v # s => Rests(v)
  BY <1>1, <1>2, <1>3 DEF Rests
<1> QED BY <1>1, <1>4, <1>5, <1>6, <1>7, OwnStep

LEMMA MatchNextKept ==
    ASSUME IInv, NEW s \in Sweepers, MatchNext(s)
    PROVE  IInv'
<1> DEFINE o == Newest(queue[s])
<1>1. /\ s \in Workers /\ s \notin Placers /\ pc[s] = "next" /\ queue[s] # {}
      /\ queue' = [queue EXCEPT ![s] = @ \ {o}]
      /\ UNCHANGED <<orders, ledger, trail, price, holder, ticket, draft, reply, requests>>
  BY WorkersAssumption DEF MatchNext, Workers, budget
<1>2. /\ queue[s] \subseteq DOMAIN orders
      /\ DOMAIN orders = 1..Len(orders) /\ Len(orders) \in Nat /\ DOMAIN orders \subseteq DOMAIN claim
  BY <1>1, OrdersFit DEF IInv, WorkerInv, Knows
<1>3. o \in DOMAIN orders /\ o \in DOMAIN claim
  BY <1>1, <1>2, NewestExists
<1>4. /\ queue'[s] \subseteq DOMAIN orders
      /\ \A v \in Sweepers : v # s => queue'[v] = queue[v]
      /\ DOMAIN queue' = Sweepers
  BY <1>1, <1>2 DEF IInv, Typed
<1>5. CASE /\ claim[o] = Nobody /\ orders[o].status = "open" /\ Crosses(orders[o].ticket, price)
           /\ claim' = [claim EXCEPT ![o] = s] /\ BeginFill(s, o, price)
  <2>1. price \in Nat
    BY DEF IInv, Typed
  <2>2. /\ pc'[s] = "lock" /\ target'[s] = o /\ quote'[s] = price
        /\ DOMAIN pc' = Workers /\ DOMAIN wanted' = Workers
        /\ target' \in [Workers -> Nat] /\ quote' \in [Workers -> Nat]
        /\ Holds(s)' /\ Covered(s)'
        /\ \A v \in Workers : v # s =>
              /\ pc'[v] = pc[v] /\ target'[v] = target[v]
              /\ quote'[v] = quote[v] /\ wanted'[v] = wanted[v]
    BY <1>1, <1>3, <1>5, <2>1, FillBegun
  <2>3. Typed'
    BY <1>1, <1>4, <1>5, <2>2 DEF IInv, Typed, ledger
  <2>4. RoomInv'
    BY <1>1, <2>2, RoomKept DEF Workers
  <2>5. Knows(s)'
    BY <1>1, <1>3, <1>4, <1>5, <2>2 DEF Knows, Busy, Filling
  <2>6. Claims(s)'
    BY <1>1, <1>3, <1>5, <2>2 DEF Claims
  <2>7. \A v \in Workers : v # s => Rests(v)
    BY <1>1, <1>4, <2>2 DEF Rests
  <2>8. \A x \in DOMAIN claim : claim[x] \notin {s, Nobody} => claim'[x] = claim[x]
    BY <1>5
  <2> QED BY <1>1, <2>2, <2>3, <2>4, <2>5, <2>6, <2>7, <2>8, OwnStep DEF WorkerInv
<1>6. CASE UNCHANGED <<claim, pc, target, quote, wanted>>
  <2>1. Typed'
    BY <1>1, <1>4, <1>6 DEF IInv, Typed, ledger
  <2>2. RoomInv'
    BY <1>1, <1>6, RoomKept
  <2>3. WorkerInv(s)'
    BY <1>1, <1>4, <1>6 DEF WorkerInv, Knows, Holds, Covered, Claims, Busy, Filling
  <2>4. \A v \in Workers : v # s => Rests(v)
    BY <1>1, <1>4, <1>6 DEF Rests
  <2> QED BY <1>1, <1>6, <2>1, <2>2, <2>3, <2>4, OwnStep
<1> QED BY <1>5, <1>6 DEF MatchNext

LEMMA EndSweepKept ==
    ASSUME IInv, NEW s \in Sweepers, EndSweep(s)
    PROVE  IInv'
<1>1. /\ s \in Workers /\ s \notin Placers
      /\ pc' = [pc EXCEPT ![s] = "idle"] /\ queue[s] = {}
      /\ UNCHANGED <<orders, ledger, trail, price, holder, claim, worker, requests>>
  BY WorkersAssumption DEF EndSweep, GoTo, Workers, budget
<1>2. pc'[s] = "idle" /\ \A v \in Workers : v # s => pc'[v] = pc[v]
  BY <1>1 DEF IInv, Typed
<1>3. Typed'
  BY <1>1 DEF IInv, Typed, ledger, worker
<1>4. RoomInv'
  BY <1>1, <1>2, RoomKept DEF Workers
<1>5. WorkerInv(s)'
  BY <1>1, <1>2 DEF WorkerInv, Knows, Holds, Covered, Claims, Busy, Filling, worker
<1>6. \A v \in Workers : v # s => Rests(v)
  BY <1>1, <1>2 DEF Rests, worker
<1> QED BY <1>1, <1>3, <1>4, <1>5, <1>6, OwnStep

-----------------------------------------------------------------------------
(* Everybody else.                                                         *)

LEMMA AllRest ==
    ASSUME UNCHANGED <<pc, worker>>
    PROVE  \A v \in Workers : Rests(v)
  BY DEF Rests, worker

LEMMA TickKept ==
    ASSUME IInv, Tick
    PROVE  IInv'
<1>1. price' \in Nat /\ UNCHANGED <<orders, ledger, trail, holder, claim, pc, worker, requests>>
  BY MarketAssumption DEF Tick, budget
<1>2. Typed'
  BY <1>1 DEF IInv, Typed, ledger, worker
<1>3. RoomInv'
  BY <1>1, RoomKept
<1>4. OrdersKept /\ \A v \in Workers : RowsKept(v)
  BY <1>1 DEF OrdersKept, RowsKept, ledger
<1>5. \A v \in Workers : WorkerInv(v)'
  BY <1>1, <1>4, AllRest, Bystander DEF ledger
<1>6. BooksInv'
  BY <1>1, <1>4, BooksKept DEF ledger
<1>7. NoDust'
  BY <1>1 DEF IInv, NoDust, ledger
<1> QED BY <1>2, <1>3, <1>5, <1>6, <1>7 DEF IInv

LEMMA TransferKept ==
    ASSUME IInv, NEW a \in Accounts \ Positions, NEW m \in Movements, Transfer(a, m)
    PROVE  IInv'
<1>1. /\ holder[a] = Nobody /\ balance[a] + m >= 0
      /\ balance' = [balance EXCEPT ![a] = @ + m]
      /\ UNCHANGED <<orders, journal, shares, gains, trail, price, holder, claim, pc, worker, requests>>
  BY DEF Transfer
<1>2. balance' \in [Accounts -> Nat] /\ \A b \in Accounts : b # a => balance'[b] = balance[b]
  <2>1. balance[a] \in Nat /\ m \in Int
    BY MarketAssumption DEF IInv, Typed
  <2>2. balance[a] + m \in Nat
    BY <1>1, <2>1
  <2> QED BY <1>1, <2>2 DEF IInv, Typed
<1>3. Typed'
  BY <1>1, <1>2 DEF IInv, Typed, worker
<1>4. RoomInv'
  BY <1>1, RoomKept
<1>5. OrdersKept
  BY <1>1 DEF OrdersKept
<1>6. ASSUME NEW v \in Workers PROVE RowsKept(v)
  <2>1. v # Nobody
    BY WorkersAssumption DEF Workers
  <2> QED BY <1>1, <1>2, <2>1 DEF RowsKept
<1>7. \A v \in Workers : WorkerInv(v)'
  BY <1>1, <1>5, <1>6, AllRest, Bystander
<1>8. BooksInv'
  BY <1>1, <1>5, BooksKept
<1>9. NoDust'
  <2>1. Positions \subseteq Accounts
    BY AccountsAssumption DEF Positions
  <2> QED BY <1>1, <1>2, <2>1 DEF IInv, NoDust
<1> QED BY <1>3, <1>4, <1>7, <1>8, <1>9 DEF IInv

(* A status is written while nobody claims the order.                      *)
LEMMA StatusStep ==
    ASSUME IInv, NEW o \in DOMAIN orders, NEW st \in Statuses, claim[o] = Nobody,
           orders' = [orders EXCEPT ![o].status = st],
           UNCHANGED <<ledger, holder, claim>>,
           trail \subseteq trail',
           \A r \in trail' : r \in trail \/ (r.action # "filled" /\ r.order \in DOMAIN orders)
    PROVE  /\ orders' \in Seq(OrderRow) /\ Len(orders') = Len(orders)
           /\ OrdersKept /\ BooksInv' /\ NoDust'
           /\ \A v \in Workers : Rests(v) => WorkerInv(v)'
<1> DEFINE row == [orders[o] EXCEPT !.status = st]
<1>1. orders \in Seq(OrderRow) /\ o \in 1..Len(orders)
  BY OrdersFit DEF IInv, Typed
<1>2. row \in OrderRow /\ row.ticket = orders[o].ticket
      /\ row.entry = orders[o].entry /\ row.price = orders[o].price
  <2>1. orders[o] \in OrderRow
    BY <1>1
  <2> QED BY <2>1 DEF OrderRow
<1>3. orders' = [orders EXCEPT ![o] = row]
  OBVIOUS
<1> HIDE DEF row
<1>4. orders' \in Seq(OrderRow) /\ Len(orders') = Len(orders) /\ DOMAIN orders' = DOMAIN orders
      /\ \A p \in DOMAIN orders : orders'[p] = IF p = o THEN row ELSE orders[p]
  BY <1>1, <1>2, <1>3, ExceptSeq
<1>5. OrdersKept
  BY <1>2, <1>4 DEF OrdersKept
<1>6. BooksInv'
  BY <1>2, <1>4, <1>5, BooksKept DEF ledger
<1>7. ASSUME NEW v \in Workers, Rests(v) PROVE WorkerInv(v)'
  <2>1. v # Nobody
    BY WorkersAssumption DEF Workers
  <2>2. RowsKept(v)
    BY <1>4, <2>1 DEF RowsKept, ledger
  <2> QED BY <1>5, <1>7, <2>2, Bystander DEF ledger
<1>8. NoDust'
  BY DEF IInv, NoDust, ledger
<1> QED BY <1>4, <1>5, <1>6, <1>7, <1>8

LEMMA CancelKept ==
    ASSUME IInv, NEW o \in DOMAIN orders, Cancel(o)
    PROVE  IInv'
<1>1. /\ claim[o] = Nobody /\ orders' = [orders EXCEPT ![o].status = "cancelled"]
      /\ trail' \in {trail, trail \cup {Row("cancelled", o)}}
      /\ UNCHANGED <<ledger, price, holder, claim, pc, worker, requests>>
  BY DEF Cancel, budget
<1>2. /\ trail \subseteq trail'
      /\ \A r \in trail' : r \in trail \/ (r.action # "filled" /\ r.order \in DOMAIN orders)
  BY <1>1 DEF Row
<1>3. /\ orders' \in Seq(OrderRow) /\ Len(orders') = Len(orders)
      /\ BooksInv' /\ NoDust' /\ \A v \in Workers : Rests(v) => WorkerInv(v)'
  <2>1. "cancelled" \in Statuses
    BY DEF Statuses
  <2> QED BY <1>1, <1>2, <2>1, StatusStep
<1>4. Typed'
  BY <1>1, <1>3 DEF IInv, Typed, ledger, worker
<1>5. RoomInv'
  BY <1>1, <1>3, RoomKept
<1> QED BY <1>1, <1>3, <1>4, <1>5, AllRest DEF IInv

LEMMA RejectOrderKept ==
    ASSUME IInv, NEW w \in Workers, RejectOrder(w)
    PROVE  IInv'
<1> DEFINE o == target[w]
<1>1. /\ pc[w] = "reject" /\ claim[o] = Nobody /\ orders' = [orders EXCEPT ![o].status = "rejected"]
      /\ pc' = [pc EXCEPT ![w] = "rejected"]
      /\ UNCHANGED <<ledger, trail, price, holder, claim, worker, requests>>
  BY DEF RejectOrder, GoTo, budget
<1>2. Knows(w) /\ o \in DOMAIN orders
  BY <1>1 DEF IInv, WorkerInv, Knows, Busy
<1>3. pc'[w] = "rejected" /\ \A v \in Workers : v # w => pc'[v] = pc[v]
  BY <1>1 DEF IInv, Typed
<1>4. /\ orders' \in Seq(OrderRow) /\ Len(orders') = Len(orders) /\ OrdersKept
      /\ BooksInv' /\ NoDust' /\ \A v \in Workers : Rests(v) => WorkerInv(v)'
  <2>1. "rejected" \in Statuses
    BY DEF Statuses
  <2> QED BY <1>1, <1>2, <2>1, StatusStep
<1>5. Typed'
  BY <1>1, <1>4 DEF IInv, Typed, ledger, worker
<1>6. RoomInv'
  BY <1>1, <1>3, <1>4, RoomKept DEF Workers
<1>7. WorkerInv(w)'
  BY <1>1, <1>2, <1>3, <1>4
     DEF WorkerInv, Knows, Holds, Covered, Claims, Busy, Filling, OrdersKept, worker
<1>8. \A v \in Workers : v # w => Rests(v)
  BY <1>1, <1>3 DEF Rests, worker
<1> QED BY <1>4, <1>5, <1>6, <1>7, <1>8 DEF IInv

-----------------------------------------------------------------------------
(* COMMIT of a fill.                                                       *)

(* An entry that is not refused leaves no balance or holding negative, and *)
(* no basis without shares.                                                *)
LEMMA FillEffect ==
    ASSUME Typed, NEW o \in DOMAIN orders, NEW p \in Nat, ~Refused(o, p)
    PROVE  /\ FillEntry(o, p) \in EntryRow
           /\ FillEntry(o, p).order = o /\ FillEntry(o, p).price = p
           /\ balance[orders[o].ticket.cash] + FillEntry(o, p).cash \in Nat
           /\ balance[Position(o)] + FillEntry(o, p).basis \in Nat
           /\ shares[Position(o)] + FillEntry(o, p).shares \in Nat
           /\ shares[Position(o)] + FillEntry(o, p).shares = 0 =>
                 balance[Position(o)] + FillEntry(o, p).basis = 0
<1> DEFINE k == orders[o].ticket
           a == Position(o)
           n == Notional(k, p)
           cost == CostOf(k.quantity, shares[a], balance[a])
<1>1. /\ o \in Nat /\ k.cash \in Accounts /\ a \in Positions /\ a \in Accounts
      /\ k.side \in {"buy", "sell"} /\ k.quantity \in Nat \ {0}
  <2>1. k \in Tickets /\ Valid(k)
    BY OrderFacts
  <2>2. k.side \in {"buy", "sell"} /\ k.quantity \in Int
    BY <2>1, TicketsAssumption
  <2> QED BY <2>1, <2>2, OrderFacts DEF Valid
<1>2. balance[k.cash] \in Nat /\ balance[a] \in Nat /\ shares[a] \in Nat
  BY <1>1 DEF Typed
<1>3. n \in Nat \ {0}
  <2>1. p * k.quantity \in Int /\ Scale \in Nat \ {0}
    BY <1>1, MarketAssumption
  <2>2. n \in Int
    BY <2>1, RoundType DEF Notional
  <2> QED BY <2>2 DEF Refused
<1>4. CASE k.side = "buy"
  <2>1. FillEntry(o, p) = [order |-> o, price |-> p, cash |-> -n, basis |-> n,
                           shares |-> k.quantity, gain |-> 0]
    BY <1>4 DEF FillEntry
  <2>2. balance[k.cash] >= n
    BY <1>2, <1>3, <1>4 DEF Refused
  <2> HIDE DEF k, a, n
  <2>3. balance[k.cash] + (-n) \in Nat /\ balance[a] + n \in Nat
        /\ shares[a] + k.quantity \in Nat \ {0} /\ -n \in Int
    BY <1>1, <1>2, <1>3, <2>2
  <2> QED BY <1>1, <1>3, <2>1, <2>3 DEF EntryRow, k, a
<1>5. CASE k.side = "sell"
  <2>1. FillEntry(o, p) = [order |-> o, price |-> p, cash |-> n, basis |-> -cost,
                           shares |-> -k.quantity, gain |-> n - cost]
    BY <1>5 DEF FillEntry
  <2>2. shares[a] >= k.quantity
    BY <1>1, <1>2, <1>5 DEF Refused
  <2>3. cost \in Int /\ cost <= balance[a] /\ (k.quantity = shares[a] => cost = balance[a])
    <3>1. CASE k.quantity = shares[a]
      BY <1>2, <3>1 DEF CostOf
    <3>2. CASE k.quantity # shares[a]
      <4>1. cost = RoundHalfEven(balance[a] * k.quantity, shares[a])
        BY <3>2 DEF CostOf
      <4>2. k.quantity < shares[a]
        BY <1>1, <1>2, <2>2, <3>2
      <4> QED BY <1>1, <1>2, <3>2, <4>1, <4>2, PartCostsLess
    <3> QED BY <3>1, <3>2
  <2> HIDE DEF k, a, n, cost
  <2>4. /\ balance[k.cash] + n \in Nat /\ balance[a] + (-cost) \in Nat
        /\ shares[a] + (-k.quantity) \in Nat
        /\ -cost \in Int /\ n - cost \in Int /\ -k.quantity \in Int
        /\ shares[a] + (-k.quantity) = 0 => balance[a] + (-cost) = 0
    BY <1>1, <1>2, <1>3, <2>2, <2>3
  <2> QED BY <1>1, <1>3, <2>1, <2>4 DEF EntryRow, k, a
<1> QED BY <1>1, <1>4, <1>5

LEMMA CommitKept ==
    ASSUME IInv, NEW w \in Workers, Commit(w)
    PROVE  IInv'
<1> DEFINE o == target[w]
           d == draft[w]
           cash == orders[o].ticket.cash
           a == Position(o)
           row == [orders[o] EXCEPT !.status = "filled", !.price = d.price,
                                    !.entry = Len(journal) + 1]
<1>1. pc[w] = "commit" /\ WorkerInv(w) /\ o \in DOMAIN orders /\ quote[w] \in Nat
  BY DEF Commit, IInv, WorkerInv, Knows, Busy, Filling, Typed
<1>2. /\ d = FillEntry(o, quote[w]) /\ ~Refused(o, quote[w]) /\ EntriesOf(o) = {}
      /\ claim[o] = w /\ Crosses(orders[o].ticket, quote[w])
      /\ w \in Placers => orders[o].ticket = ticket[w]
  BY <1>1 DEF WorkerInv, Knows, Covered, Claims, Busy, Filling
<1>3. /\ d \in EntryRow /\ d.order = o /\ d.price = quote[w]
      /\ balance[cash] + d.cash \in Nat /\ balance[a] + d.basis \in Nat
      /\ shares[a] + d.shares \in Nat
      /\ shares[a] + d.shares = 0 => balance[a] + d.basis = 0
  BY <1>1, <1>2, FillEffect DEF IInv
<1>4. cash \in Accounts \ Positions /\ a \in Positions /\ a \in Accounts
      /\ holder[cash] = w /\ holder[a] = w
  BY <1>1, OrderFacts, FillingHeld DEF IInv
<1> HIDE DEF o, d, a
<1>5. /\ journal' = Append(journal, d)
      /\ balance' = [balance EXCEPT ![cash] = @ + d.cash, ![a] = @ + d.basis]
      /\ shares' = [shares EXCEPT ![a] = @ + d.shares]
      /\ orders' = [orders EXCEPT ![o].status = "filled", ![o].price = d.price,
                                  ![o].entry = Len(journal) + 1]
      /\ trail' = trail \cup {Row("filled", o)}
      /\ draft' = [draft EXCEPT ![w] = NoEntry]
      /\ target' = [target EXCEPT ![w] = 0] /\ quote' = [quote EXCEPT ![w] = 0]
      /\ Answer(w, "placed", o, "filled") /\ ReleaseLocks(w)
      /\ pc' = [pc EXCEPT ![w] = IF w \in Sweepers THEN "next" ELSE "idle"]
      /\ UNCHANGED <<price, ticket, wanted, queue, requests>>
  BY <1>3 DEF Commit, Finish, GoTo, budget, d, a
<1>6. /\ journal' \in Seq(EntryRow) /\ Len(journal) \in Nat
      /\ DOMAIN journal = 1..Len(journal) /\ DOMAIN journal' = 1..Len(journal) + 1
      /\ \A n \in DOMAIN journal : journal'[n] = journal[n]
      /\ journal'[Len(journal) + 1] = d
  BY <1>3, <1>5 DEF IInv, Typed
<1>7. /\ orders' \in Seq(OrderRow) /\ Len(orders') = Len(orders) /\ DOMAIN orders' = DOMAIN orders
      /\ \A x \in DOMAIN orders : x # o => orders'[x] = orders[x]
      /\ orders'[o].ticket = orders[o].ticket /\ orders'[o].price = d.price
      /\ orders'[o].entry = Len(journal) + 1
  <2>1. orders \in Seq(OrderRow) /\ o \in 1..Len(orders) /\ orders[o] \in OrderRow
    BY <1>1, OrdersFit, OrderFacts DEF IInv, Typed
  <2>2. orders' = [orders EXCEPT ![o] = row]
    BY <1>5
  <2>3. /\ row \in OrderRow /\ row.ticket = orders[o].ticket /\ row.price = d.price
        /\ row.entry = Len(journal) + 1
    <3>1. d.price \in Nat /\ Len(journal) + 1 \in Nat /\ "filled" \in Statuses
      BY <1>1, <1>3, <1>6 DEF Statuses
    <3>2. PICK x, n, m : x = orders[o] /\ n = d.price /\ m = Len(journal) + 1
      OBVIOUS
    <3>3. row = [x EXCEPT !.status = "filled", !.price = n, !.entry = m]
      BY <3>2
    <3> HIDE DEF row
    <3>4. x \in OrderRow /\ n \in Nat /\ m \in Nat
      BY <2>1, <3>1, <3>2
    <3>5. row \in OrderRow /\ row.ticket = x.ticket /\ row.price = n /\ row.entry = m
      BY <3>1, <3>3, <3>4 DEF OrderRow
    <3> QED BY <3>2, <3>5
  <2> HIDE DEF row
  <2> QED BY <2>1, <2>2, <2>3, ExceptSeq
<1>8. /\ balance' \in [Accounts -> Nat] /\ shares' \in [Positions -> Nat]
      /\ \A b \in Accounts : holder[b] # w => balance'[b] = balance[b]
      /\ \A b \in Positions : b # a => balance'[b] = balance[b] /\ shares'[b] = shares[b]
      /\ balance'[a] = balance[a] + d.basis /\ shares'[a] = shares[a] + d.shares
  <2>1. Positions \subseteq Accounts /\ cash # a /\ \A b \in Positions : b # cash
    BY <1>4, AccountsAssumption DEF Positions
  <2>2. balance \in [Accounts -> Nat] /\ shares \in [Positions -> Nat]
    BY DEF IInv, Typed
  <2>3. balance' \in [Accounts -> Nat] /\ shares' \in [Positions -> Nat]
    BY <1>3, <1>4, <1>5, <2>1, <2>2
  <2>4. \A b \in Accounts : balance'[b] = IF b = a THEN balance[b] + d.basis
                                          ELSE IF b = cash THEN balance[b] + d.cash ELSE balance[b]
    BY <1>4, <1>5, <2>1, <2>2
  <2>5. \A b \in Positions : shares'[b] = IF b = a THEN shares[b] + d.shares ELSE shares[b]
    BY <1>4, <1>5, <2>2
  <2> HIDE DEF cash
  <2> QED BY <1>4, <2>1, <2>3, <2>4, <2>5
<1>9. /\ pc'[w] \in {"next", "idle"} /\ \A v \in Workers : v # w => pc'[v] = pc[v]
  BY <1>5 DEF IInv, Typed
<1>10. /\ DOMAIN reply' = Placers
       /\ \A v \in Placers : v # w => reply'[v] = reply[v]
       /\ w \in Placers => reply'[w].order = o
  BY <1>5 DEF Answer, Told
<1>11. OrdersKept
  BY <1>7 DEF OrdersKept
<1>12. Typed'
  BY <1>5, <1>6, <1>7, <1>8, <1>10, ReleaseKeeps DEF IInv, Typed
<1>13. RoomInv'
  BY <1>5, <1>7, <1>9, RoomKept DEF Workers
<1>14. WorkerInv(w)'
  <2>1. Knows(w) /\ o \in DOMAIN orders
    BY <1>1 DEF WorkerInv, o
  <2> QED BY <1>2, <1>5, <1>7, <1>9, <1>10, <2>1
          DEF WorkerInv, Knows, Holds, Covered, Claims, Busy, Filling
<1>15. ASSUME NEW v \in Workers, v # w PROVE WorkerInv(v)'
  <2>1. v # Nobody
    BY WorkersAssumption DEF Workers
  <2>2. Rests(v)
    BY <1>5, <1>9, <1>10, <1>15 DEF Rests, IInv, Typed
  <2>3. RowsKept(v)
    <3>1. \A b \in Accounts : holder[b] = v =>
             /\ holder'[b] = v /\ balance'[b] = balance[b]
             /\ b \in Positions => shares'[b] = shares[b]
      BY <1>4, <1>5, <1>8, <1>15, <2>1, ReleaseKeeps
    <3>2. \A x \in DOMAIN orders : claim[x] = v =>
             claim'[x] = v /\ orders'[x].status = orders[x].status
      BY <1>2, <1>5, <1>7, <1>15, <2>1, OrdersFit, ReleaseKeeps
    <3> QED BY <3>1, <3>2 DEF RowsKept
  <2>4. ASSUME pc[v] \in {"save", "commit"} PROVE EntriesOf(target[v])' = EntriesOf(target[v])
    <3>1. target[v] # o
      BY <1>4, <1>15, <2>4, FillingHeld DEF a
    <3>2. target'[v] = target[v]
      BY <2>2 DEF Rests
    <3> QED BY <1>3, <1>6, <3>1, <3>2 DEF EntriesOf
  <2> QED BY <1>11, <2>2, <2>3, <2>4, Frame
<1>16. BooksInv'
  <2>1. BooksInv /\ o \in DOMAIN orders
    BY <1>1 DEF IInv, o
  <2>2. \A n \in DOMAIN journal : journal[n].order # o
    BY <1>2 DEF EntriesOf
  <2>3. \A n \in DOMAIN journal' : n \in DOMAIN journal \/ n = Len(journal) + 1
    BY <1>6
  <2>4. PostedOnce'
    <3> SUFFICES ASSUME NEW m \in DOMAIN journal', NEW n \in DOMAIN journal',
                        journal'[m].order = journal'[n].order
                 PROVE  m = n
      BY DEF PostedOnce
    <3>1. m \in DOMAIN journal /\ n \in DOMAIN journal => m = n
      BY <1>6, <2>1 DEF BooksInv, PostedOnce
    <3> QED BY <1>3, <1>6, <2>2, <2>3, <3>1
  <2>5. LimitRespected'
    <3> SUFFICES ASSUME NEW n \in DOMAIN journal'
                 PROVE  Crosses(orders'[journal'[n].order].ticket, journal'[n].price)
      BY DEF LimitRespected
    <3>1. CASE n \in DOMAIN journal
      BY <1>6, <1>11, <2>1, <3>1 DEF BooksInv, LimitRespected, OrdersKept
    <3>2. CASE n = Len(journal) + 1
      BY <1>2, <1>3, <1>6, <1>7, <3>2
    <3> QED BY <2>3, <3>1, <3>2
  <2>6. (\A n \in DOMAIN journal : journal[n].order \in DOMAIN orders)'
    BY <1>3, <1>6, <1>7, <2>1, <2>3 DEF BooksInv
  <2>7. (\A r \in trail : r.order \in DOMAIN orders)'
    BY <1>5, <1>7, <2>1 DEF BooksInv, Row
  <2>8. EntryAndOrderAgree'
    <3>1. ASSUME NEW n \in DOMAIN journal'
          PROVE  /\ orders'[journal'[n].order].entry = n
                 /\ orders'[journal'[n].order].price = journal'[n].price
                 /\ Row("filled", journal'[n].order) \in trail'
      <4>1. CASE n \in DOMAIN journal
        <5>1. journal'[n] = journal[n] /\ journal[n].order \in DOMAIN orders
              /\ journal[n].order # o
          BY <1>6, <2>1, <2>2, <4>1 DEF BooksInv
        <5>2. orders'[journal[n].order] = orders[journal[n].order]
          BY <1>7, <5>1
        <5> QED BY <1>5, <2>1, <4>1, <5>1, <5>2 DEF BooksInv, EntryAndOrderAgree
      <4>2. CASE n = Len(journal) + 1
        BY <1>3, <1>5, <1>6, <1>7, <4>2
      <4> QED BY <2>3, <4>1, <4>2
    <3>2. ASSUME NEW x \in DOMAIN orders', orders'[x].entry = 0, Row("filled", x) \in trail'
          PROVE  FALSE
      <4>1. x # o
        BY <1>6, <1>7, <3>2
      <4>2. Row("filled", x) # Row("filled", o)
        BY <4>1 DEF Row
      <4> QED BY <1>5, <1>7, <2>1, <3>2, <4>1, <4>2 DEF BooksInv, EntryAndOrderAgree
    <3> QED BY <3>1, <3>2 DEF EntryAndOrderAgree
  <2> QED BY <2>4, <2>5, <2>6, <2>7, <2>8 DEF BooksInv
<1>17. NoDust'
  <2>1. NoDust
    BY DEF IInv
  <2> QED BY <1>3, <1>8, <2>1 DEF NoDust
<1> QED BY <1>12, <1>13, <1>14, <1>15, <1>16, <1>17 DEF IInv

-----------------------------------------------------------------------------
(* The invariant holds.                                                    *)

LEMMA Starts == Init => IInv
<1> SUFFICES ASSUME Init PROVE IInv
  OBVIOUS
<1>1. Positions \subseteq Accounts /\ Prices \subseteq Nat
  BY AccountsAssumption, MarketAssumption DEF Positions
<1>2. DOMAIN orders = {} /\ DOMAIN journal = {} /\ Len(orders) = 0
  BY DEF Init
<1>3. Typed
  <2>1. orders \in Seq(OrderRow) /\ journal \in Seq(EntryRow)
    BY DEF Init
  <2>2. balance \in [Accounts -> Nat] /\ shares \in [Positions -> Nat] /\ price \in Nat
    BY <1>1, AccountsAssumption DEF Init
  <2> QED BY <2>1, <2>2 DEF Init, Typed
<1>4. RoomInv
  <2>1. Inserting = {}
    BY DEF Init, Inserting, Workers
  <2>2. IsFiniteSet(Inserting) /\ Cardinality(Inserting) = 0
    BY <2>1, FS_EmptySet
  <2> QED BY <1>2, <2>2, BoundsAssumption DEF Init, RoomInv
<1>5. ASSUME NEW w \in Workers PROVE WorkerInv(w)
  <2>1. pc[w] = "idle"
    BY DEF Init
  <2>2. w \in Placers => reply[w].order = 0
    BY DEF Init, NoReply
  <2>3. w \in Sweepers => queue[w] = {}
    BY DEF Init
  <2> QED BY <2>1, <2>2, <2>3 DEF WorkerInv, Knows, Holds, Covered, Claims, Busy, Filling
<1>6. BooksInv
  BY <1>2 DEF Init, BooksInv, PostedOnce, EntryAndOrderAgree, LimitRespected
<1>7. NoDust
  BY AccountsAssumption DEF Init, NoDust
<1> QED BY <1>3, <1>4, <1>5, <1>6, <1>7 DEF IInv

LEMMA StepKept ==
    ASSUME IInv, NEW w \in Workers, Step(w)
    PROVE  IInv'
<1>1. CASE w \in Placers /\ InsertOrder(w)
  BY <1>1, InsertOrderKept
<1>2. CASE w \in Placers /\ RecordPlaced(w)
  BY <1>2, RecordPlacedKept
<1>3. CASE w \in Placers /\ RecordRested(w)
  BY <1>3, RecordRestedKept
<1>4. CASE LockAccount(w)
  BY <1>4, LockAccountKept
<1>5. CASE CheckAndPost(w)
  BY <1>5, CheckAndPostKept
<1>6. CASE SaveOrder(w)
  BY <1>6, SaveOrderKept
<1>7. CASE Commit(w)
  BY <1>7, CommitKept
<1>8. CASE RejectOrder(w)
  BY <1>8, RejectOrderKept
<1>9. CASE RecordRejected(w)
  BY <1>9, RecordRejectedKept
<1>10. CASE DeadlockVictim(w)
  BY <1>10, DieKept DEF DeadlockVictim
<1>11. CASE w \in Sweepers /\ MatchNext(w)
  BY <1>11, MatchNextKept
<1>12. CASE w \in Sweepers /\ EndSweep(w)
  BY <1>12, EndSweepKept
<1> QED BY <1>1, <1>2, <1>3, <1>4, <1>5, <1>6, <1>7, <1>8, <1>9, <1>10, <1>11, <1>12 DEF Step

LEMMA EnvironmentKept ==
    ASSUME IInv, Environment
    PROVE  IInv'
<1>1. ASSUME NEW p \in Placers, NEW k \in Tickets, Receive(p, k) PROVE IInv'
  BY <1>1, ReceiveKept
<1>2. ASSUME NEW o \in DOMAIN orders, Cancel(o) PROVE IInv'
  BY <1>2, CancelKept
<1>3. ASSUME NEW a \in Accounts \ Positions, NEW m \in Movements, Transfer(a, m) PROVE IInv'
  BY <1>3, TransferKept
<1>4. ASSUME NEW w \in Workers, Crash(w) PROVE IInv'
  BY <1>4, DieKept DEF Crash
<1> QED BY <1>1, <1>2, <1>3, <1>4, TickKept DEF Environment

LEMMA StandsStill ==
    ASSUME IInv, UNCHANGED vars
    PROVE  IInv'
<1>1. /\ UNCHANGED <<orders, journal, balance, shares, trail, price, holder, claim, pc, requests>>
      /\ UNCHANGED <<ticket, target, quote, wanted, draft, queue, reply>>
  BY DEF vars, ledger, worker, budget
<1>2. Typed' /\ RoomInv' /\ NoDust'
  BY <1>1 DEF IInv, Typed, RoomInv, Inserting, NoDust
<1>3. BooksInv'
  BY <1>1 DEF IInv, BooksInv, PostedOnce, EntryAndOrderAgree, LimitRespected
<1>4. ASSUME NEW w \in Workers PROVE WorkerInv(w)'
  <2>1. UNCHANGED <<pc, worker>> /\ OrdersKept /\ RowsKept(w)
    BY <1>1 DEF worker, OrdersKept, RowsKept
  <2> QED BY <1>1, <2>1, AllRest, Bystander
<1> QED BY <1>2, <1>3, <1>4 DEF IInv

LEMMA Kept == IInv /\ [Next]_vars => IInv'
<1> SUFFICES ASSUME IInv, [Next]_vars PROVE IInv'
  OBVIOUS
<1>1. ASSUME NEW w \in Workers, Step(w) PROVE IInv'
  BY <1>1, StepKept
<1>2. ASSUME NEW s \in Sweepers, Scan(s) PROVE IInv'
  BY <1>2, ScanKept
<1>3. CASE Environment
  BY <1>3, EnvironmentKept
<1>4. CASE UNCHANGED vars
  BY <1>4, StandsStill
<1> QED BY <1>1, <1>2, <1>3, <1>4 DEF Next

LEMMA InvariantHolds == Spec => []IInv
<1> QED BY Starts, Kept, PTL DEF Spec

-----------------------------------------------------------------------------
(* What follows.                                                           *)

(* execute_fill checks under the locks of both accounts what it moves at   *)
(* COMMIT, and a partial exit never costs more than the basis: no cash     *)
(* account is overdrawn, no holding oversold, no basis below zero.         *)
THEOREM NeverOversold == Spec => []NothingOversold
<1>1. IInv => NothingOversold
  BY DEF IInv, Typed, NothingOversold
<1> QED BY <1>1, InvariantHolds, PTL

(* execute_fill posts an order at most once, whoever fills it: both        *)
(* accounts are locked from the look at the journal to the COMMIT.         *)
THEOREM OrdersPostedOnce == Spec => []PostedOnce
<1>1. IInv => PostedOnce
  BY DEF IInv, BooksInv
<1> QED BY <1>1, InvariantHolds, PTL

(* Entry, order and ORDER_FILLED row of a fill name one another, although  *)
(* reject_order and cancel_order may overwrite the order's status.         *)
THEOREM EntriesAndOrdersAgree == Spec => []EntryAndOrderAgree
<1>1. IInv => EntryAndOrderAgree
  BY DEF IInv, BooksInv
<1> QED BY <1>1, InvariantHolds, PTL

(* The price a fill posts is the one its sweep or its placement compared   *)
(* with the limit, however the price ticks in between.                     *)
THEOREM LimitsRespected == Spec => []LimitRespected
<1>1. IInv => LimitRespected
  BY DEF IInv, BooksInv
<1> QED BY <1>1, InvariantHolds, PTL

(* _sell_lines takes the whole basis on a full exit: a position without    *)
(* shares has no basis left.                                               *)
THEOREM NoDustLeft == Spec => []NoDust
<1>1. IInv => NoDust
  BY DEF IInv
<1> QED BY <1>1, InvariantHolds, PTL

(* place_order answers with the order of its own arguments, replayed or    *)
(* newly placed.                                                           *)
THEOREM RepliesNameOwnOrder == Spec => []ReplyNamesOwnOrder
<1>1. IInv => ReplyNamesOwnOrder
  BY DEF IInv, WorkerInv, Knows, ReplyNamesOwnOrder, Workers
<1> QED BY <1>1, InvariantHolds, PTL

(* Only the COMMIT of a fill writes Order.entry, and the fill of a limit   *)
(* order has held the row since a sweep saw it open.                       *)
LEMMA CommitFillsOpen ==
    ASSUME IInv, NEW w \in Workers, Commit(w), NEW o \in DOMAIN orders,
           orders[o].ticket.type = "limit", orders[o].status # "open"
    PROVE  orders'[o].entry = orders[o].entry
<1>1. pc[w] = "commit" /\ WorkerInv(w) /\ target[w] \in DOMAIN orders
  BY DEF Commit, IInv, WorkerInv, Knows, Busy, Filling
<1>2. draft[w].order = target[w]
  BY <1>1 DEF WorkerInv, Covered, FillEntry
<1>3. target[w] # o
  BY <1>1 DEF WorkerInv, Claims, Filling
<1> QED BY <1>2, <1>3 DEF Commit

(* The cancel and the sweep race for the row of a limit order: a resolved  *)
(* one is never posted afterwards.                                         *)
THEOREM ResolvedStaysUnposted == Spec => ResolvedLimitOrderStaysUnposted
<1> DEFINE Resolved == \A o \in DOMAIN orders :
                          /\ orders[o].ticket.type = "limit"
                          /\ orders[o].status # "open"
                          => orders'[o].entry = orders[o].entry
<1>1. IInv /\ [Next]_vars => [Resolved]_vars
  <2> SUFFICES ASSUME IInv, Next PROVE Resolved
    OBVIOUS
  <2>1. ASSUME orders' = orders PROVE Resolved
    BY <2>1
  <2>2. ASSUME NEW w \in Workers, Step(w) PROVE Resolved
    <3>1. CASE w \in Placers /\ InsertOrder(w)
      <4>1. orders' = orders \/ orders' = Append(orders, NewOrder(ticket[w]))
        BY <3>1 DEF InsertOrder
      <4>2. orders \in Seq(OrderRow)
        BY DEF IInv, Typed
      <4> QED BY <4>1, <4>2
    <3>2. CASE w \in Placers /\ (RecordPlaced(w) \/ RecordRested(w))
      BY <3>2, <2>1 DEF RecordPlaced, RecordRested
    <3>3. CASE LockAccount(w) \/ CheckAndPost(w) \/ SaveOrder(w)
      BY <3>3, <2>1 DEF LockAccount, CheckAndPost, SaveOrder, Die
    <3>4. CASE Commit(w)
      BY <3>4, CommitFillsOpen
    <3>5. CASE RejectOrder(w)
      BY <3>5 DEF RejectOrder
    <3>6. CASE RecordRejected(w) \/ DeadlockVictim(w)
      BY <3>6, <2>1 DEF RecordRejected, DeadlockVictim, Die
    <3>7. CASE w \in Sweepers /\ (MatchNext(w) \/ EndSweep(w))
      BY <3>7, <2>1 DEF MatchNext, EndSweep
    <3> QED BY <2>2, <3>1, <3>2, <3>3, <3>4, <3>5, <3>6, <3>7 DEF Step
  <2>3. ASSUME NEW s \in Sweepers, Scan(s) PROVE Resolved
    BY <2>1, <2>3 DEF Scan
  <2>4. CASE Environment
    <3>1. ASSUME NEW p \in Placers, NEW k \in Tickets, Receive(p, k) PROVE Resolved
      BY <2>1, <3>1 DEF Receive
    <3>2. ASSUME NEW o \in DOMAIN orders, Cancel(o) PROVE Resolved
      BY <3>2 DEF Cancel
    <3>3. ASSUME Tick PROVE Resolved
      BY <2>1, <3>3 DEF Tick
    <3>4. ASSUME NEW a \in Accounts \ Positions, NEW m \in Movements, Transfer(a, m)
          PROVE  Resolved
      BY <2>1, <3>4 DEF Transfer
    <3>5. ASSUME NEW w \in Workers, Crash(w) PROVE Resolved
      BY <2>1, <3>5 DEF Crash, Die
    <3> QED BY <2>4, <3>1, <3>2, <3>3, <3>4, <3>5 DEF Environment
  <2> QED BY <2>2, <2>3, <2>4 DEF Next
<1>2. Spec => [][Resolved]_vars
  <2> HIDE DEF Resolved
  <2> QED BY <1>1, InvariantHolds, PTL DEF Spec
<1> QED BY <1>2 DEF ResolvedLimitOrderStaysUnposted
=============================================================================
