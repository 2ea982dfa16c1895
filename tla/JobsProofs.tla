----------------------------- MODULE JobsProofs -----------------------------
(***************************************************************************)
(* Theorems about the scheduled jobs, for any number of workers, desks,    *)
(* runs, failures and kills, any chart of accounts and any postings.       *)
(*                                                                         *)
(* The market: the price on display is the newest tick (MInv). Statements: *)
(* once a month may be stated no line, no tick and no fill joins it and no *)
(* fill leaves it (Closed, FillsFixed), so what a run reads about it stays *)
(* true, and so do the rows it inserts and the gaps it does not leave      *)
(* (JInv). Files: a run between a file and a row holds a file that no row  *)
(* and no other run names (FilesInv). The rows of cash accounts implement  *)
(* MonthlyArchive.                                                         *)
(***************************************************************************)
EXTENDS Statements, SumTheorems

(* What the price on display and the ticks rest on.                        *)
priceVars == <<last, quoted, stamps, lock, tick, quote, outlived>>

TickersTyped ==
    /\ DOMAIN tick = Tickers /\ DOMAIN quote = Tickers /\ DOMAIN last = Instruments
    /\ stamps \in Nat
    /\ \A t \in quoted : t.stamp \in Nat /\ t.stamp <= stamps
    /\ \A w \in Tickers : tick[w] = "save" => quote[w].stamp \in Nat /\ quote[w].stamp <= stamps

(* A run that has not ended has the mutex, so no two of them meet; what it *)
(* is about to save is newer than every tick there is.                     *)
OneRun == \A w \in Tickers : tick[w] # "idle" => lock = w
SavesNewest ==
    \A w \in Tickers : tick[w] = "save" =>
        quote[w].stamp = stamps /\ \A t \in quoted : t.stamp < stamps

MInv == TickersTyped /\ (~outlived => OneRun /\ SavesNewest) /\ LastPriceIsNewest

-----------------------------------------------------------------------------
(* A tick younger than all the others is the newest one.                   *)
LEMMA YoungestIsNewest ==
    ASSUME NEW S, NEW t, t.stamp \in Nat, \A u \in S : u.stamp \in Nat /\ u.stamp < t.stamp
    PROVE  Newest(S \cup {t}) = t
<1> DEFINE Top(x) == \A u \in S \cup {t} : u.stamp <= x.stamp
<1>1. t \in S \cup {t} /\ Top(t)
  OBVIOUS
<1>2. ASSUME NEW x \in S \cup {t}, Top(x) PROVE x = t
  BY <1>2
<1> HIDE DEF Top
<1>3. (CHOOSE x \in S \cup {t} : Top(x)) = t
  BY <1>1, <1>2
<1> QED BY <1>3 DEF Newest, Top

(* Everything that is not a step of the market.                            *)
LEMMA Bystander ==
    ASSUME MInv, UNCHANGED priceVars
    PROVE  MInv'
  BY DEF MInv, priceVars, TickersTyped, OneRun, SavesNewest, LastPriceIsNewest

-----------------------------------------------------------------------------
(* The steps of advance_prices.                                            *)

LEMMA StartKept ==
    ASSUME MInv, NEW w \in Tickers, StartRun(w)
    PROVE  MInv'
<1>1. UNCHANGED <<last, quoted, stamps, quote, outlived>>
  BY DEF StartRun
<1>2. CASE UNCHANGED <<lock, tick>>
  BY <1>1, <1>2, Bystander DEF priceVars
<1>3. CASE Acquire(w) /\ tick' = [tick EXCEPT ![w] = "walk"]
  <2>1. TickersTyped' /\ LastPriceIsNewest'
    BY <1>1, <1>3 DEF MInv, TickersTyped, LastPriceIsNewest
  <2>2. ASSUME ~outlived' PROVE OneRun' /\ SavesNewest'
    <3>1. \A v \in Tickers : tick[v] = "idle"
      BY <1>1, <1>3, <2>2, MarketAssumption DEF MInv, OneRun, Acquire
    <3>2. \A v \in Tickers : tick'[v] # "save" /\ (tick'[v] # "idle" => v = w)
      BY <1>3, <3>1 DEF MInv, TickersTyped
    <3> QED BY <1>3, <3>2 DEF OneRun, SavesNewest, Acquire
  <2> QED BY <2>1, <2>2 DEF MInv
<1> QED BY <1>2, <1>3 DEF StartRun

LEMMA CreateKept ==
    ASSUME MInv, NEW w \in Tickers, CreateTick(w)
    PROVE  MInv'
<1>1. /\ tick[w] = "walk" /\ tick' = [tick EXCEPT ![w] = "save"]
      /\ stamps' = stamps + 1
      /\ UNCHANGED <<last, quoted, lock, outlived>>
  BY DEF CreateTick
<1>2. PICK price \in Prices :
          quote' = [quote EXCEPT ![w] = [instrument |-> Min(todo[w]), price |-> price,
                                         at |-> clock, stamp |-> stamps + 1]]
  BY DEF CreateTick
<1>3. TickersTyped'
  BY <1>1, <1>2 DEF MInv, TickersTyped
<1>4. LastPriceIsNewest'
  BY <1>1 DEF MInv, LastPriceIsNewest
<1>5. ASSUME ~outlived' PROVE OneRun' /\ SavesNewest'
  <2>1. lock = w /\ \A v \in Tickers : tick[v] # "idle" => v = w
    BY <1>1, <1>5 DEF MInv, OneRun
  <2>2. OneRun'
    BY <1>1, <2>1 DEF MInv, TickersTyped, OneRun
  <2>3. quote'[w].stamp = stamps'
    BY <1>1, <1>2 DEF MInv, TickersTyped
  <2>4. \A t \in quoted' : t.stamp < stamps'
    BY <1>1 DEF MInv, TickersTyped
  <2>5. \A v \in Tickers : tick'[v] = "save" => v = w
    BY <1>1, <2>1 DEF MInv, TickersTyped
  <2> QED BY <2>2, <2>3, <2>4, <2>5 DEF SavesNewest
<1> QED BY <1>3, <1>4, <1>5 DEF MInv

LEMMA SaveKept ==
    ASSUME MInv, NEW w \in Tickers, SaveTick(w)
    PROVE  MInv'
<1> DEFINE t == quote[w]
<1>1. /\ tick[w] = "save" /\ tick' = [tick EXCEPT ![w] = "walk"]
      /\ quoted' = quoted \cup {t}
      /\ last' = [last EXCEPT ![t.instrument] = t]
      /\ UNCHANGED <<lock, quote, stamps, outlived>>
  BY DEF SaveTick
<1>2. CASE outlived
  BY <1>1, <1>2 DEF MInv, TickersTyped, LastPriceIsNewest
<1>3. CASE ~outlived
  <2>1. t.stamp = stamps /\ \A u \in quoted : u.stamp < t.stamp
    BY <1>1, <1>3 DEF MInv, SavesNewest
  <2>2. TickersTyped'
    BY <1>1, <2>1 DEF MInv, TickersTyped
  <2>3. \A v \in Tickers : tick'[v] # "idle" => v = w
    BY <1>1, <1>3 DEF MInv, OneRun, TickersTyped
  <2>4. OneRun' /\ SavesNewest'
    BY <1>1, <1>3, <2>3 DEF MInv, OneRun, SavesNewest, TickersTyped
  <2>5. ASSUME NEW i \in Instruments
        PROVE  last'[i] = IF Of(quoted', i) = {} THEN NoTick ELSE Newest(Of(quoted', i))
    <3>1. CASE i # t.instrument
      <4>1. last'[i] = last[i] /\ Of(quoted', i) = Of(quoted, i)
        BY <1>1, <3>1 DEF MInv, TickersTyped, Of
      <4> QED BY <1>3, <4>1 DEF MInv, LastPriceIsNewest
    <3>2. CASE i = t.instrument
      <4>1. last'[i] = t /\ Of(quoted', i) = Of(quoted, i) \cup {t}
        BY <1>1, <3>2 DEF MInv, TickersTyped, Of
      <4>2. Newest(Of(quoted, i) \cup {t}) = t
        BY <2>1, YoungestIsNewest DEF MInv, TickersTyped, Of
      <4> QED BY <4>1, <4>2
    <3> QED BY <3>1, <3>2
  <2> QED BY <2>2, <2>4, <2>5 DEF MInv, LastPriceIsNewest
<1> QED BY <1>2, <1>3

(* A run that ends, or is killed, leaves nobody at work.                   *)
LEMMA EndKept ==
    ASSUME MInv, NEW w \in Tickers, EndRun(w) \/ KillTicker(w)
    PROVE  MInv'
<1>1. /\ tick[w] # "idle" /\ tick' = [tick EXCEPT ![w] = "idle"]
      /\ UNCHANGED <<last, quoted, stamps, quote, outlived>>
  BY DEF EndRun, KillTicker
<1>2. TickersTyped' /\ LastPriceIsNewest'
  BY <1>1 DEF MInv, TickersTyped, LastPriceIsNewest
<1>3. ASSUME ~outlived' PROVE OneRun' /\ SavesNewest'
  <2>1. \A v \in Tickers : tick[v] # "idle" => v = w
    BY <1>1, <1>3 DEF MInv, OneRun
  <2>2. \A v \in Tickers : tick'[v] = "idle"
    BY <1>1, <2>1 DEF MInv, TickersTyped
  <2> QED BY <2>2 DEF OneRun, SavesNewest
<1> QED BY <1>2, <1>3 DEF MInv

LEMMA LimitKept ==
    ASSUME MInv, NEW w \in Tickers, HitSoftLimit(w)
    PROVE  MInv'
<1>1. /\ tick[w] # "idle" /\ tick' = [tick EXCEPT ![w] = "abort"]
      /\ UNCHANGED <<last, quoted, stamps, lock, quote, outlived>>
  BY DEF HitSoftLimit
<1>2. \A v \in Tickers : /\ tick'[v] # "idle" => tick[v] # "idle"
                         /\ tick'[v] = "save" => tick[v] = "save"
  BY <1>1 DEF MInv, TickersTyped
<1>3. TickersTyped' /\ LastPriceIsNewest'
  BY <1>1 DEF MInv, TickersTyped, LastPriceIsNewest
<1>4. ASSUME ~outlived' PROVE OneRun' /\ SavesNewest'
  BY <1>1, <1>2, <1>4 DEF MInv, OneRun, SavesNewest
<1> QED BY <1>3, <1>4 DEF MInv

(* The mutex may expire only if its run is dead, or on its way out.        *)
LEMMA ExpiryKept ==
    ASSUME MInv, LockExpires
    PROVE  MInv'
<1>1. /\ tick[lock] \in {"idle", "abort"}
      /\ outlived' = (outlived \/ tick[lock] = "abort")
      /\ UNCHANGED <<last, tick, quote, quoted, stamps>>
  BY DEF LockExpires
<1>2. CASE outlived'
  BY <1>1, <1>2 DEF MInv, TickersTyped, LastPriceIsNewest
<1>3. CASE ~outlived'
  <2>1. ~outlived /\ tick[lock] = "idle"
    BY <1>1, <1>3
  <2>2. \A v \in Tickers : tick[v] = "idle"
    BY <2>1 DEF MInv, OneRun
  <2>3. OneRun' /\ SavesNewest'
    BY <1>1, <2>2 DEF OneRun, SavesNewest
  <2>4. TickersTyped' /\ LastPriceIsNewest'
    BY <1>1, <2>1 DEF MInv, TickersTyped, LastPriceIsNewest
  <2> QED BY <2>3, <2>4 DEF MInv
<1> QED BY <1>2, <1>3

-----------------------------------------------------------------------------
LEMMA MarketStarts == Init => MInv
  BY DEF Init, MarketInit, MInv, TickersTyped, OneRun, SavesNewest, LastPriceIsNewest, Of

LEMMA MarketKept == MInv /\ [Next]_vars => MInv'
<1> SUFFICES ASSUME MInv, [Next]_vars PROVE MInv'
  OBVIOUS
<1>1. CASE MarketNext
  <2>1. CASE PurgeTicks
    BY <2>1, Bystander DEF PurgeTicks, tickers, priceVars
  <2> QED BY <1>1, <2>1, StartKept, CreateKept, SaveKept, EndKept, LimitKept, ExpiryKept
          DEF MarketNext
<1>2. CASE \E d \in Deals : Stamp(d)
  BY <1>2, Bystander DEF Stamp, tickers, priceVars
<1>3. CASE \E p \in inflight : Commit(p) \/ RollBack(p)
  BY <1>3, Bystander DEF Commit, RollBack, marketVars, tickers, priceVars
<1>4. CASE Elapse
  BY <1>4, Bystander DEF Elapse, tickers, priceVars
<1>5. CASE \E w \in Desks : DeskStep(w)
  <2>1. UNCHANGED priceVars
    BY <1>5 DEF DeskStep, Generate, Take, ReadOpening, ReadLines, CheckActivity, Value, SaveFile,
                InsertRow, DeleteFile, Fails, KillDesk, EndGenerate, DeskOnly, marketVars,
                tickers, priceVars
  <2> QED BY <2>1, Bystander
<1>6. CASE UNCHANGED vars
  BY <1>6, Bystander DEF vars, marketVars, tickers, priceVars
<1>7. CASE \E o \in orders : RejectOrder(o)
  BY <1>7, Bystander DEF RejectOrder, marketVars, tickers, priceVars
<1> QED BY <1>1, <1>2, <1>3, <1>4, <1>5, <1>6, <1>7 DEF Next

(* "last_price is the newest row in ticks" (Instrument): the column that   *)
(* fills and screens read never disagrees with the ticks that              *)
(* advance_prices committed, however its runs overlap, fail or die, unless *)
(* one of them outlives its mutex.                                         *)
THEOREM LastPriceHolds == Spec => []LastPriceIsNewest
<1>1. MInv => LastPriceIsNewest
  BY DEF MInv
<1> QED BY <1>1, MarketStarts, MarketKept, PTL DEF Spec

-----------------------------------------------------------------------------
(* What is stored.                                                         *)
LineRow == [account : Accounts, amount : Int, shares : Int, at : Nat]

(* Stamps tell the ticks apart; the purge only takes old ones.             *)
TicksKnown ==
    /\ stamps \in Nat /\ DOMAIN tick = Tickers /\ DOMAIN quote = Tickers
    /\ \A t \in quoted : t.stamp \in 1..stamps /\ t.at \in Nat
    /\ \A t, u \in quoted : t.stamp = u.stamp => t = u
    /\ \A w \in Tickers : tick[w] = "save" =>
          /\ quote[w].stamp \in 1..stamps /\ quote[w].at \in Nat
          /\ \A t \in quoted : t.stamp # quote[w].stamp
          /\ \A v \in Tickers : tick[v] = "save" /\ v # w => quote[v].stamp # quote[w].stamp
    /\ ticks \subseteq quoted
    /\ \A t \in quoted : t \in ticks \/ t.at < clock - Retention

BookKnown ==
    /\ clock \in Nat
    /\ book \in Seq(LineRow)
    /\ \A p \in inflight : p.deal \in Deals /\ p.at \in Nat

(* An order is resolved after its lines were stamped, and every line on a  *)
(* position is that of an order.                                           *)
Order(o) ==
    /\ o \in [nr : {o.nr}, user : Users, status : {"filled", "rejected"}, posted : Nat,
              resolved : 0..clock, refused : BOOLEAN]
    /\ o.posted <= o.resolved
Ordered(line, S) ==
    \A u \in Users : line.account \in Positions(u) =>
        \E o \in S : o.user = u /\ o.posted = line.at
OrdersKnown ==
    /\ \A o \in orders : Order(o)
    /\ \A n \in DOMAIN book : Ordered(book[n], orders)

(* A month is closed: no line and no tick will join it, and no order       *)
(* resolved in it is about to be overwritten.                              *)
Closed(m) ==
    /\ m \in Nat /\ EndAt(m) <= clock
    /\ \A p \in inflight : p.at >= EndAt(m)
    /\ \A o \in orders : o.refused => o.resolved >= EndAt(m)
    /\ \A t \in Tickers : tick[t] = "save" => quote[t].at >= EndAt(m)

Base == TicksKnown /\ BookKnown /\ OrdersKnown

-----------------------------------------------------------------------------
LEMMA BaseStarts == Init => Base
BY DEF Init, MarketInit, Base, TicksKnown, BookKnown, OrdersKnown

LEMMA TicksKept == Base /\ [Next]_vars => TicksKnown'
<1> SUFFICES ASSUME Base, [Next]_vars PROVE TicksKnown'
  OBVIOUS
<1> USE DEF Base, TicksKnown
<1>1. CASE UNCHANGED <<ticks, tick, quote, quoted, stamps>> /\ clock' \in Nat /\ clock <= clock'
  BY <1>1, MarketAssumption DEF BookKnown
<1>2. ASSUME NEW w \in Tickers, StartRun(w) PROVE TicksKnown'
  BY <1>2 DEF StartRun
<1>3. ASSUME NEW w \in Tickers, CreateTick(w) PROVE TicksKnown'
  <2>1. PICK q : /\ q.at = clock /\ q.stamp = stamps + 1 /\ quote' = [quote EXCEPT ![w] = q]
    BY <1>3 DEF CreateTick
  <2>2. /\ stamps' = stamps + 1 /\ tick' = [tick EXCEPT ![w] = "save"] /\ clock \in Nat
        /\ UNCHANGED <<ticks, quoted, clock>>
    BY <1>3 DEF CreateTick, BookKnown
  <2>3. quote'[w] = q /\ \A v \in Tickers : v # w => quote'[v] = quote[v] /\ tick'[v] = tick[v]
    BY <2>1, <2>2
  <2>4. \A t \in quoted : t.stamp \in 1..stamps' /\ t.stamp # q.stamp
    BY <2>1, <2>2
  <2>5. \A v \in Tickers : v # w /\ tick[v] = "save" =>
           quote[v].stamp \in 1..stamps' /\ quote[v].stamp # q.stamp
    BY <2>1, <2>2
  <2>6. q.stamp \in 1..stamps' /\ q.at \in Nat
    BY <2>1, <2>2
  <2>7. ASSUME NEW v \in Tickers, tick'[v] = "save"
        PROVE  /\ quote'[v].stamp \in 1..stamps' /\ quote'[v].at \in Nat
               /\ \A t \in quoted' : t.stamp # quote'[v].stamp
               /\ \A x \in Tickers : tick'[x] = "save" /\ x # v => quote'[x].stamp # quote'[v].stamp
    <3>1. CASE v = w
      BY <2>2, <2>3, <2>4, <2>5, <2>6, <3>1
    <3>2. CASE v # w
      BY <2>2, <2>3, <2>5, <2>7, <3>2
    <3> QED BY <3>1, <3>2
  <2>8. stamps' \in Nat /\ DOMAIN tick' = Tickers /\ DOMAIN quote' = Tickers
    BY <2>1, <2>2
  <2>9. /\ \A t \in quoted' : t.stamp \in 1..stamps' /\ t.at \in Nat
        /\ \A t, u \in quoted' : t.stamp = u.stamp => t = u
    BY <2>2, <2>4
  <2>10. ticks' \subseteq quoted' /\ \A t \in quoted' : t \in ticks' \/ t.at < clock' - Retention
    BY <2>2
  <2> QED BY <2>7, <2>8, <2>9, <2>10
<1>4. ASSUME NEW w \in Tickers, SaveTick(w) PROVE TicksKnown'
  BY <1>4 DEF SaveTick
<1>5. ASSUME NEW w \in Tickers, EndRun(w) \/ HitSoftLimit(w) \/ KillTicker(w) PROVE TicksKnown'
  BY <1>5 DEF EndRun, HitSoftLimit, KillTicker
<1>6. CASE LockExpires
  BY <1>6 DEF LockExpires
<1>7. CASE PurgeTicks
  <2>1. /\ ticks' = {t \in ticks : t.at >= clock - Retention} /\ clock \in Nat
        /\ UNCHANGED <<tick, quote, stamps, quoted, clock>>
    BY <1>7 DEF PurgeTicks, tickers, BookKnown
  <2>2. \A t \in quoted : t \in ticks' \/ t.at < clock - Retention
    BY <2>1, MarketAssumption
  <2> QED BY <2>1, <2>2
<1>8. CASE \E d \in Deals : Stamp(d)
  BY <1>1, <1>8 DEF Stamp, tickers, BookKnown
<1>9. CASE \E p \in inflight : Commit(p) \/ RollBack(p)
  BY <1>1, <1>9 DEF Commit, RollBack, marketVars, tickers, BookKnown
<1>10. CASE Elapse
  BY <1>1, <1>10 DEF Elapse, tickers, BookKnown
<1>11. CASE \E w \in Desks : DeskStep(w)
  <2>1. UNCHANGED <<ticks, tick, quote, quoted, stamps, clock>>
    BY <1>11 DEF DeskStep, Generate, Take, ReadOpening, ReadLines, CheckActivity, Value, SaveFile,
                InsertRow, DeleteFile, Fails, KillDesk, EndGenerate, DeskOnly, marketVars, tickers
  <2> QED BY <1>1, <2>1 DEF BookKnown
<1>12. CASE UNCHANGED vars
  BY <1>1, <1>12 DEF vars, marketVars, tickers, BookKnown
<1>13. CASE \E o \in orders : RejectOrder(o)
  BY <1>1, <1>13 DEF RejectOrder, marketVars, tickers, BookKnown
<1> QED BY <1>2, <1>3, <1>4, <1>5, <1>6, <1>7, <1>8, <1>9, <1>10, <1>11, <1>12, <1>13
        DEF Next, MarketNext

(* The lines a posting becomes.                                            *)
LineOf(p, n) == [account |-> p.deal[n].account, amount |-> p.deal[n].amount,
                 shares |-> p.deal[n].shares, at |-> p.at]

LEMMA CommittedLines ==
  ASSUME Base, NEW p \in inflight
  PROVE  /\ [n \in DOMAIN p.deal |-> LineOf(p, n)] \in Seq(LineRow)
         /\ Len([n \in DOMAIN p.deal |-> LineOf(p, n)]) = Len(p.deal)
         /\ DOMAIN p.deal = 1..Len(p.deal) /\ Len(p.deal) \in Nat
         /\ \A n \in DOMAIN p.deal : LineOf(p, n) \in LineRow /\ LineOf(p, n).at = p.at
<1> DEFINE D == p.deal
           L == [account : Accounts, amount : Int, shares : Int]
<1>1. D \in Seq(L) /\ p.at \in Nat
  BY StatementsAssumption DEF Base, BookKnown
<1>2. DOMAIN D = 1..Len(D) /\ Len(D) \in Nat /\ \A n \in DOMAIN D : D[n] \in L
  <2> HIDE DEF D, L
  <2> QED BY <1>1
<1>3. \A n \in DOMAIN D : LineOf(p, n) \in LineRow /\ LineOf(p, n).at = p.at
  BY <1>1, <1>2 DEF LineOf, LineRow
<1> HIDE DEF D, L
<1>4. [n \in 1..Len(D) |-> LineOf(p, n)] \in [1..Len(D) -> LineRow]
  BY <1>2, <1>3
<1>5. /\ [n \in 1..Len(D) |-> LineOf(p, n)] \in Seq(LineRow)
      /\ Len([n \in 1..Len(D) |-> LineOf(p, n)]) = Len(D)
  BY <1>2, <1>4
<1>6. DOMAIN D = 1..Len(D)
  BY <1>2
<1> QED BY <1>2, <1>3, <1>5, <1>6 DEF D

(* The book only grows, and every new line is stamped like its posting.    *)
LEMMA BookGrows ==
  ASSUME Base, [Next]_vars
  PROVE  /\ book' \in Seq(LineRow) /\ Len(book) <= Len(book')
         /\ \A n \in 1..Len(book) : book'[n] = book[n]
         /\ \/ book' = book
            \/ \E p \in inflight : \A n \in Len(book) + 1..Len(book') : book'[n].at = p.at
<1>1. book \in Seq(LineRow) /\ Len(book) \in Nat
  BY DEF Base, BookKnown
<1>2. CASE book' = book
  BY <1>1, <1>2
<1>3. ASSUME NEW p \in inflight, Commit(p)
      PROVE  /\ book' \in Seq(LineRow) /\ Len(book) <= Len(book')
             /\ \A n \in 1..Len(book) : book'[n] = book[n]
             /\ \A n \in Len(book) + 1..Len(book') : book'[n].at = p.at
  <2> DEFINE new == [n \in DOMAIN p.deal |-> LineOf(p, n)]
  <2>1. book' = book \o new
    BY <1>3 DEF Commit, LineOf
  <2>2. new \in Seq(LineRow) /\ Len(new) \in Nat /\ \A n \in 1..Len(new) : new[n].at = p.at
    BY CommittedLines
  <2> HIDE DEF new
  <2> QED BY <1>1, <2>1, <2>2
<1>4. CASE \E p \in inflight : Commit(p)
  BY <1>3, <1>4
<1>5. CASE ~\E p \in inflight : Commit(p)
  <2>1. book' = book
    BY <1>5 DEF Next, MarketNext, StartRun, CreateTick, SaveTick, EndRun, HitSoftLimit, KillTicker,
       LockExpires, PurgeTicks, Stamp, RollBack, RejectOrder, Elapse, DeskStep, Generate, Take,
       ReadOpening, ReadLines, CheckActivity, Value, SaveFile, InsertRow, DeleteFile, Fails, KillDesk,
       EndGenerate, DeskOnly, vars, statementVars
  <2> QED BY <1>2, <2>1
<1> QED BY <1>4, <1>5

(* What is in flight, and what a ticker is about to save, was there before *)
(* or is stamped now.                                                      *)
LEMMA StampedNow ==
  ASSUME Base, [Next]_vars
  PROVE  /\ clock' \in Nat /\ clock <= clock'
         /\ \A p \in inflight' : p \in inflight \/ (p.deal \in Deals /\ p.at = clock)
         /\ \A w \in Tickers : tick'[w] = "save" =>
               (tick[w] = "save" /\ quote'[w] = quote[w]) \/ quote'[w].at = clock
<1> USE DEF Base, BookKnown, TicksKnown
<1>1. CASE UNCHANGED <<clock, inflight, tick, quote>>
  BY <1>1
<1>2. ASSUME NEW w \in Tickers, StartRun(w) \/ SaveTick(w) \/ EndRun(w) \/ HitSoftLimit(w) \/ KillTicker(w),
             UNCHANGED statementVars
      PROVE  /\ UNCHANGED <<clock, inflight, quote>>
             /\ \A v \in Tickers : tick'[v] = "save" => tick[v] = "save"
  BY <1>2 DEF StartRun, SaveTick, EndRun, HitSoftLimit, KillTicker, statementVars
<1>3. ASSUME NEW w \in Tickers, CreateTick(w), UNCHANGED statementVars
      PROVE  /\ UNCHANGED <<clock, inflight>>
             /\ \A v \in Tickers : tick'[v] = "save" =>
                   (tick[v] = "save" /\ quote'[v] = quote[v]) \/ quote'[v].at = clock
  <2>1. PICK q : q.at = clock /\ quote' = [quote EXCEPT ![w] = q]
    BY <1>3 DEF CreateTick
  <2>2. tick' = [tick EXCEPT ![w] = "save"] /\ UNCHANGED <<clock, inflight>>
    BY <1>3 DEF CreateTick, statementVars
  <2> QED BY <2>1, <2>2
<1>4. CASE LockExpires /\ UNCHANGED statementVars
  BY <1>1, <1>4 DEF LockExpires, statementVars
<1>5. CASE PurgeTicks /\ UNCHANGED statementVars
  BY <1>1, <1>5 DEF PurgeTicks, tickers, statementVars
<1>6. CASE \E d \in Deals : Stamp(d)
  BY <1>6 DEF Stamp, tickers
<1>7. CASE \E p \in inflight : Commit(p) \/ RollBack(p)
  BY <1>7 DEF Commit, RollBack, marketVars, tickers
<1>8. CASE Elapse
  BY <1>8 DEF Elapse, tickers, statementVars
<1>9. CASE \E w \in Desks : DeskStep(w)
  <2>1. UNCHANGED <<clock, inflight, tick, quote>>
    BY <1>9 DEF DeskStep, Generate, Take, ReadOpening, ReadLines, CheckActivity, Value, SaveFile,
                InsertRow, DeleteFile, Fails, KillDesk, EndGenerate, DeskOnly, marketVars, tickers
  <2> QED BY <1>1, <2>1
<1>10. CASE UNCHANGED vars
  BY <1>1, <1>10 DEF vars, marketVars, tickers, statementVars
<1>11. CASE MarketNext /\ UNCHANGED statementVars
  BY <1>2, <1>3, <1>4, <1>5, <1>11 DEF MarketNext
<1>12. CASE \E o \in orders : RejectOrder(o)
  BY <1>1, <1>12 DEF RejectOrder, marketVars, tickers
<1> QED BY <1>6, <1>7, <1>8, <1>9, <1>10, <1>11, <1>12 DEF Next

(* A filled order is that of a posting that commits, resolved after its    *)
(* lines were stamped.                                                     *)
FilledBy(p, o) ==
    /\ o.posted = p.at /\ o.resolved \in p.at..clock /\ o.status = "filled"
    /\ o.user \in Traders(p.deal) /\ o.refused \in BOOLEAN
    /\ o = [nr |-> o.nr, user |-> o.user, status |-> o.status, posted |-> o.posted,
            resolved |-> o.resolved, refused |-> o.refused]
Rejection(o) == [o EXCEPT !.status = "rejected", !.resolved = clock, !.refused = FALSE]

LEMMA OrdersStep ==
  ASSUME Base, [Next]_vars
  PROVE  \/ orders' = orders /\ book' = book
         \/ \E p \in inflight :
               /\ Commit(p) /\ orders \subseteq orders'
               /\ \A o \in orders' : o \in orders \/ FilledBy(p, o)
               /\ \A u \in Traders(p.deal) : \E o \in orders' : o.user = u /\ o.posted = p.at
         \/ \E r \in orders : /\ r.refused /\ book' = book
                             /\ orders' = (orders \ {r}) \cup {Rejection(r)}
<1>1. ASSUME NEW p \in inflight, Commit(p)
      PROVE  /\ orders \subseteq orders'
             /\ \A o \in orders' : o \in orders \/ FilledBy(p, o)
             /\ \A u \in Traders(p.deal) : \E o \in orders' : o.user = u /\ o.posted = p.at
  <2> DEFINE order(u, k, refused) ==
               [nr |-> p.nr, user |-> u, status |-> "filled", posted |-> p.at,
                resolved |-> k, refused |-> refused]
  <2>1. PICK k \in p.at..clock, refused \in BOOLEAN :
            orders' = orders \cup {order(u, k, refused) : u \in Traders(p.deal)}
    BY <1>1 DEF Commit
  <2>2. \A u \in Traders(p.deal) : /\ FilledBy(p, order(u, k, refused))
                                  /\ order(u, k, refused).user = u
                                  /\ order(u, k, refused).posted = p.at
    BY <2>1 DEF FilledBy
  <2> HIDE DEF order
  <2>3. orders \subseteq orders' /\ \A o \in orders' : o \in orders \/ FilledBy(p, o)
    BY <2>1, <2>2
  <2>4. \A u \in Traders(p.deal) : order(u, k, refused) \in orders'
    BY <2>1
  <2> QED BY <2>2, <2>3, <2>4
<1>2. ASSUME NEW r \in orders, RejectOrder(r)
      PROVE  r.refused /\ book' = book /\ orders' = (orders \ {r}) \cup {Rejection(r)}
  BY <1>2 DEF RejectOrder, Rejection
<1>3. CASE ~(\E p \in inflight : Commit(p)) /\ ~(\E r \in orders : RejectOrder(r))
  BY <1>3 DEF Next, MarketNext, StartRun, CreateTick, SaveTick, EndRun, HitSoftLimit, KillTicker,
       LockExpires, PurgeTicks, Stamp, RollBack, Elapse, DeskStep, Generate, Take, ReadOpening,
       ReadLines, CheckActivity, Value, SaveFile, InsertRow, DeleteFile, Fails, KillDesk,
       EndGenerate, DeskOnly, vars, statementVars
<1> QED BY <1>1, <1>2, <1>3

LEMMA RejectionIs ==
  ASSUME Base, NEW r \in orders, NEW o, o = Rejection(r)
  PROVE  /\ Order(o) /\ o.user = r.user /\ o.posted = r.posted
         /\ o.status = "rejected" /\ o.resolved = clock /\ ~o.refused
<1>1. /\ r \in [nr : {r.nr}, user : Users, status : {"filled", "rejected"}, posted : Nat,
              resolved : 0..clock, refused : BOOLEAN]
      /\ r.posted <= r.resolved /\ clock \in Nat
  BY DEF Base, OrdersKnown, BookKnown, Order
<1>2. o = [nr |-> r.nr, user |-> r.user, status |-> "rejected", posted |-> r.posted,
           resolved |-> clock, refused |-> FALSE]
  <2>1. r = [nr |-> r.nr, user |-> r.user, status |-> r.status, posted |-> r.posted,
             resolved |-> r.resolved, refused |-> r.refused]
    BY <1>1
  <2> QED BY <2>1 DEF Rejection
<1>3. /\ o \in [nr : {r.nr}, user : Users, status : {"filled", "rejected"}, posted : Nat,
              resolved : 0..clock, refused : BOOLEAN]
      /\ o.nr = r.nr /\ o.user = r.user /\ o.posted = r.posted
      /\ o.status = "rejected" /\ o.resolved = clock /\ ~o.refused
  BY <1>1, <1>2
<1>4. o.posted <= o.resolved
  BY <1>1, <1>2
<1> QED BY <1>3, <1>4 DEF Order

LEMMA OrdersAreKnown ==
  ASSUME Base, [Next]_vars
  PROVE  OrdersKnown'
<1>1. clock \in Nat /\ clock' \in Nat /\ clock <= clock'
  BY StampedNow DEF Base, BookKnown
<1>2. \A o : Order(o) => Order(o)'
  BY <1>1 DEF Order
<1>3. \A o \in orders : Order(o)
  BY DEF Base, OrdersKnown
<1>4. \A line : (\A o \in orders : \E q \in orders' : q.user = o.user /\ q.posted = o.posted)
              /\ Ordered(line, orders) => Ordered(line, orders')
  BY DEF Ordered
<1>5. CASE orders' = orders /\ book' = book
  BY <1>2, <1>4, <1>5 DEF Base, OrdersKnown
<1>6. ASSUME NEW p \in inflight, Commit(p), orders \subseteq orders',
             \A o \in orders' : o \in orders \/ FilledBy(p, o),
             \A u \in Traders(p.deal) : \E o \in orders' : o.user = u /\ o.posted = p.at
      PROVE  OrdersKnown'
  <2> DEFINE new == [n \in DOMAIN p.deal |-> LineOf(p, n)]
  <2>1. book' = book \o new
    BY <1>6 DEF Commit, LineOf
  <2>2. /\ new \in Seq(LineRow) /\ Len(new) \in Nat /\ DOMAIN p.deal = 1..Len(new)
        /\ \A n \in 1..Len(new) : new[n] = LineOf(p, n)
    BY CommittedLines
  <2>3. \A n \in DOMAIN p.deal : Ordered(LineOf(p, n), orders')
    <3> SUFFICES ASSUME NEW n \in DOMAIN p.deal, NEW u \in Users,
                        p.deal[n].account \in Positions(u)
                 PROVE  \E o \in orders' : o.user = u /\ o.posted = p.at
      BY DEF Ordered, LineOf
    <3>1. u \in Traders(p.deal)
      BY DEF Traders
    <3> QED BY <1>6, <3>1
  <2>4. \A n \in DOMAIN book : Ordered(book[n], orders')
    BY <1>4, <1>6 DEF Base, OrdersKnown
  <2>5. \A o \in orders' : Order(o)'
    <3>1. ASSUME NEW o, FilledBy(p, o) PROVE Order(o)'
      <4>1. o.user \in Users /\ p.at \in Nat
        BY <3>1 DEF FilledBy, Traders, Base, BookKnown
      <4> QED BY <1>1, <3>1, <4>1 DEF FilledBy, Order
    <3> QED BY <1>2, <1>3, <1>6, <3>1
  <2> HIDE DEF new
  <2>6. book \in Seq(LineRow)
    BY DEF Base, BookKnown
  <2>7. \A n \in DOMAIN book' : \/ n \in DOMAIN book /\ book'[n] = book[n]
                              \/ \E k \in 1..Len(new) : book'[n] = new[k]
    <3> PICK s \in Seq(LineRow) : s = book
      BY <2>6
    <3> PICK t \in Seq(LineRow) : t = new
      BY <2>2
    <3>1. /\ DOMAIN s = 1..Len(s) /\ DOMAIN (s \o t) = 1..Len(s) + Len(t)
          /\ Len(s) \in Nat /\ Len(t) \in Nat
      OBVIOUS
    <3>2. ASSUME NEW n \in 1..Len(s) + Len(t)
          PROVE  \/ n \in 1..Len(s) /\ (s \o t)[n] = s[n]
                 \/ \E k \in 1..Len(t) : (s \o t)[n] = t[k]
      <4>1. CASE n <= Len(s)
        BY <3>1, <4>1
      <4>2. CASE n > Len(s)
        <5>1. n - Len(s) \in 1..Len(t) /\ (s \o t)[n] = t[n - Len(s)]
          BY <3>1, <4>2
        <5> QED BY <5>1
      <4> QED BY <3>1, <4>1, <4>2
    <3> QED BY <2>1, <3>1, <3>2
  <2>8. \A n \in DOMAIN book' : Ordered(book'[n], orders')
    BY <2>2, <2>3, <2>4, <2>7
  <2> QED BY <2>5, <2>8 DEF OrdersKnown
<1>7. ASSUME NEW r \in orders, r.refused, book' = book,
             orders' = (orders \ {r}) \cup {Rejection(r)}
      PROVE  OrdersKnown'
  <2>1. PICK q : q = Rejection(r)
    OBVIOUS
  <2>2. Order(q) /\ q.user = r.user /\ q.posted = r.posted
    BY <2>1, RejectionIs
  <2>3. \A o \in orders : \E x \in orders' : x.user = o.user /\ x.posted = o.posted
    BY <1>7, <2>1, <2>2
  <2> QED BY <1>2, <1>3, <1>4, <1>7, <2>1, <2>2, <2>3 DEF Base, OrdersKnown
<1> QED BY <1>5, <1>6, <1>7, OrdersStep

LEMMA BaseKept == Base /\ [Next]_vars => Base'
<1> SUFFICES ASSUME Base, [Next]_vars PROVE Base'
  OBVIOUS
<1>1. BookKnown'
  BY BookGrows, StampedNow DEF Base, BookKnown
<1> QED BY <1>1, TicksKept, OrdersAreKnown DEF Base

LEMMA ClosedStays ==
  ASSUME Base, [Next]_vars, NEW m, Closed(m)
  PROVE  Closed(m)'
<1>1. m \in Nat /\ EndAt(m) \in Nat /\ EndAt(m)' = EndAt(m) /\ EndAt(m) <= clock
  BY DEF Closed, EndAt
<1>2. clock \in Nat
  BY DEF Base, BookKnown
<1>3. \A o \in orders' : o.refused => o.resolved >= EndAt(m)
  <2>1. ASSUME NEW p \in inflight, NEW o, FilledBy(p, o) PROVE o.resolved >= EndAt(m)
    <3>1. p.at \in Nat /\ p.at >= EndAt(m)
      BY DEF Closed, Base, BookKnown
    <3> QED BY <1>1, <1>2, <2>1, <3>1 DEF FilledBy
  <2>2. \A r \in orders : ~Rejection(r).refused
    BY RejectionIs
  <2> QED BY <2>1, <2>2, OrdersStep DEF Closed
<1> QED BY <1>1, <1>2, <1>3, StampedNow DEF Closed

-----------------------------------------------------------------------------
(* What is asked about a closed month has the same answer ever after.      *)
LEMMA LinesFixed ==
  ASSUME Base, [Next]_vars, NEW m, Closed(m), NEW a, NEW from, NEW k \in Nat, k <= EndAt(m)
  PROVE  /\ Lines(a, from, k)' = Lines(a, from, k)
         /\ \A n \in Lines(a, from, k) : book'[n] = book[n]
<1>1. /\ book \in Seq(LineRow) /\ book' \in Seq(LineRow) /\ Len(book) <= Len(book')
      /\ \A n \in 1..Len(book) : book'[n] = book[n]
  BY BookGrows DEF Base, BookKnown
<1>2. EndAt(m) \in Nat
  BY DEF Closed, EndAt
<1>3. ASSUME NEW n \in Len(book) + 1..Len(book') PROVE ~(book'[n].at < k)
  <2>1. CASE book' = book
    BY <1>1, <1>3, <2>1
  <2>2. CASE \E p \in inflight : \A j \in Len(book) + 1..Len(book') : book'[j].at = p.at
    <3>1. PICK p \in inflight : book'[n].at = p.at
      BY <1>3, <2>2
    <3>2. p.at \in Nat /\ p.at >= EndAt(m)
      BY DEF Closed, Base, BookKnown
    <3> QED BY <1>2, <3>1, <3>2
  <2> QED BY <2>1, <2>2, BookGrows
<1>4. Len(book) \in Nat /\ Len(book') \in Nat /\ DOMAIN book = 1..Len(book) /\ DOMAIN book' = 1..Len(book')
  BY <1>1
<1>5. \A n \in DOMAIN book' : n \in DOMAIN book \/ n \in Len(book) + 1..Len(book')
  BY <1>4
<1>6. \A n \in DOMAIN book : n \in DOMAIN book' /\ book'[n] = book[n]
  BY <1>1, <1>4
<1> QED BY <1>3, <1>5, <1>6 DEF Lines

LEMMA AnswersFixed ==
  ASSUME Base, [Next]_vars, NEW m, Closed(m), NEW a, NEW from, NEW k \in Nat, k <= EndAt(m)
  PROVE  /\ Amounts(Lines(a, from, k))' = Amounts(Lines(a, from, k))
         /\ Balance(a, k)' = Balance(a, k)
         /\ Quantity(a, k)' = Quantity(a, k)
<1>1. ASSUME NEW f
      PROVE  /\ Lines(a, f, k)' = Lines(a, f, k)
             /\ \A n \in Lines(a, f, k) : book'[n] = book[n]
  BY LinesFixed
<1>2. \A f : Amounts(Lines(a, f, k))' = Amounts(Lines(a, f, k))
  <2> SUFFICES ASSUME NEW f PROVE Amounts(Lines(a, f, k))' = Amounts(Lines(a, f, k))
    OBVIOUS
  <2> DEFINE L == Lines(a, f, k)
  <2>1. [n \in L |-> book[n].amount]' = [n \in L |-> book[n].amount]
    BY <1>1
  <2> QED BY <2>1 DEF Amounts
<1>3. Quantity(a, k)' = Quantity(a, k)
  <2> DEFINE L == Lines(a, 0, k)
  <2>1. [n \in L |-> book[n].shares]' = [n \in L |-> book[n].shares]
    BY <1>1
  <2> QED BY <2>1 DEF Quantity
<1> QED BY <1>2, <1>3 DEF Balance

(* A month's bounds.                                                       *)
LEMMA Bounds ==
  ASSUME NEW m \in Nat
  PROVE  StartAt(m) \in Nat /\ EndAt(m) \in Nat /\ StartAt(m) <= EndAt(m)
BY DEF StartAt, EndAt

(* What was filled in a closed month stays, and nothing joins it.          *)
LEMMA FillsFixed ==
  ASSUME Base, [Next]_vars, NEW m, Closed(m), NEW u
  PROVE  Fills(u, m)' = Fills(u, m)
<1>1. m \in Nat /\ EndAt(m) \in Nat /\ clock \in Nat /\ EndAt(m) <= clock
  BY Bounds DEF Closed, Base, BookKnown
<1>2. CASE orders' = orders
  BY <1>2 DEF Fills
<1>3. ASSUME NEW p \in inflight, orders \subseteq orders',
             \A o \in orders' : o \in orders \/ FilledBy(p, o)
      PROVE  Fills(u, m)' = Fills(u, m)
  <2>1. p.at \in Nat /\ p.at >= EndAt(m)
    BY DEF Closed, Base, BookKnown
  <2>2. \A o : FilledBy(p, o) => ~(o.resolved < EndAt(m))
    BY <1>1, <2>1 DEF FilledBy
  <2> QED BY <1>3, <2>2 DEF Fills
<1>4. ASSUME NEW r \in orders, r.refused, orders' = (orders \ {r}) \cup {Rejection(r)}
      PROVE  Fills(u, m)' = Fills(u, m)
  <2>1. ~(r.resolved < EndAt(m))
    <3>1. r.resolved >= EndAt(m) /\ r.resolved \in Nat
      BY <1>1, <1>4 DEF Closed, Base, OrdersKnown, Order
    <3> QED BY <1>1, <3>1
  <2>2. Rejection(r).status # "filled"
    BY RejectionIs
  <2> QED BY <1>4, <2>1, <2>2 DEF Fills
<1> QED BY <1>2, <1>3, <1>4, OrdersStep

LEMMA MonthFixed ==
  ASSUME Base, [Next]_vars, NEW m, Closed(m), NEW u
  PROVE  /\ Holdings(u, EndAt(m))' = Holdings(u, EndAt(m))
         /\ HasActivity(u, m)' = HasActivity(u, m)
<1>1. m \in Nat
  BY DEF Closed
<1>2. EndAt(m) \in Nat /\ EndAt(m) <= EndAt(m)
  BY <1>1, Bounds
<1>3. \A a : /\ Quantity(a, EndAt(m))' = Quantity(a, EndAt(m))
             /\ Lines(a, StartAt(m), EndAt(m))' = Lines(a, StartAt(m), EndAt(m))
  BY <1>2, AnswersFixed, LinesFixed
<1>4. Holdings(u, EndAt(m))' = Holdings(u, EndAt(m))
  BY <1>3 DEF Holdings
<1>5. Fills(u, m)' = Fills(u, m)
  BY FillsFixed
<1> QED BY <1>4, <1>5 DEF HasActivity

(* The prices inside a month: every tick there ever was, and the last.     *)
Inside(i, m) == {t \in Of(quoted, i) : t.at < EndAt(m)}
PriceIn(i, m) == IF Inside(i, m) = {} THEN InitialPrice ELSE Newest(Inside(i, m)).price
Kept(i, m, instant) == Inside(i, m) = {} \/ Newest(Inside(i, m)).at >= instant - Retention

LEMMA InsideFixed ==
  ASSUME Base, [Next]_vars, NEW m, Closed(m), NEW i
  PROVE  Inside(i, m)' = Inside(i, m)
<1>1. CASE quoted' = quoted
  BY <1>1 DEF Inside, Of
<1>2. ASSUME NEW w \in Tickers, SaveTick(w) PROVE Inside(i, m)' = Inside(i, m)
  <2>1. tick[w] = "save" /\ quoted' = quoted \cup {quote[w]}
    BY <1>2 DEF SaveTick
  <2>2. ~(quote[w].at < EndAt(m))
    <3>1. quote[w].at >= EndAt(m) /\ quote[w].at \in Nat /\ EndAt(m) \in Nat
      BY <2>1, Bounds DEF Closed, Base, TicksKnown
    <3> QED BY <3>1
  <2> QED BY <2>1, <2>2 DEF Inside, Of
<1>3. CASE ~\E w \in Tickers : SaveTick(w)
  <2>1. quoted' = quoted
    BY <1>3 DEF Next, MarketNext, StartRun, CreateTick, SaveTick, EndRun, HitSoftLimit, KillTicker,
       LockExpires, PurgeTicks, Stamp, Commit, RollBack, RejectOrder, Elapse, DeskStep, Generate, Take,
       ReadOpening, ReadLines, CheckActivity, Value, SaveFile, InsertRow, DeleteFile, Fails,
       KillDesk, EndGenerate, DeskOnly, vars, marketVars
  <2> QED BY <1>1, <2>1
<1> QED BY <1>2, <1>3

(* The newest of a set of ticks with bounded stamps.                       *)
LEMMA NewestIn ==
  ASSUME NEW S, S # {}, NEW N \in Nat, \A t \in S : t.stamp \in 1..N
  PROVE  Newest(S) \in S /\ \A u \in S : u.stamp <= Newest(S).stamp
<1> DEFINE T == {N - t.stamp : t \in S}
<1>1. T \in SUBSET Nat /\ T # {}
  <2>1. \A t \in S : N - t.stamp \in Nat
    OBVIOUS
  <2> QED BY <2>1
<1>2. PICK y \in T : \A z \in T : y <= z
  <2> HIDE DEF T
  <2> QED BY <1>1, LeastOf
<1>3. PICK x \in S : y = N - x.stamp
  OBVIOUS
<1>4. \A u \in S : u.stamp <= x.stamp
  <2> SUFFICES ASSUME NEW u \in S PROVE u.stamp <= x.stamp
    OBVIOUS
  <2>1. N - u.stamp \in T /\ u.stamp \in 1..N /\ x.stamp \in 1..N
    OBVIOUS
  <2>2. y <= N - u.stamp
    BY <1>2, <2>1
  <2> HIDE DEF T
  <2> QED BY <1>3, <2>1, <2>2
<1> QED BY <1>4 DEF Newest

LEMMA InsideKnown ==
  ASSUME Base, NEW m \in Nat, NEW i, Inside(i, m) # {}
  PROVE  /\ Newest(Inside(i, m)) \in Inside(i, m) /\ Newest(Inside(i, m)).at \in Nat
         /\ \A u \in Inside(i, m) : u.stamp <= Newest(Inside(i, m)).stamp
<1>1. stamps \in Nat /\ \A t \in Inside(i, m) : t.stamp \in 1..stamps /\ t.at \in Nat
  BY DEF Base, TicksKnown, Inside, Of
<1> QED BY <1>1, NewestIn

(* While the last tick of a month is younger than the retention, the       *)
(* purge has not taken it, and the query finds it.                         *)
LEMMA PriceFound ==
  ASSUME Base, NEW m \in Nat, NEW i, Kept(i, m, clock)
  PROVE  PeriodEndPrice(i, m) = PriceIn(i, m)
<1> DEFINE before == {t \in Of(ticks, i) : t.at < EndAt(m)}
<1>1. before \subseteq Inside(i, m)
  BY DEF Base, TicksKnown, Inside, Of
<1>2. CASE Inside(i, m) = {}
  BY <1>1, <1>2 DEF PeriodEndPrice, PriceIn
<1>3. CASE Inside(i, m) # {}
  <2> DEFINE t == Newest(Inside(i, m))
             s == Newest(before)
  <2>1. t \in Inside(i, m) /\ t.at \in Nat /\ (\A u \in Inside(i, m) : u.stamp <= t.stamp)
        /\ t.at >= clock - Retention /\ clock \in Nat /\ Retention \in Nat
    BY <1>3, InsideKnown, MarketAssumption DEF Kept, Base, BookKnown
  <2>2. t \in quoted /\ t.instrument = i /\ t.at < EndAt(m)
    BY <2>1 DEF Inside, Of
  <2>3. t \in ticks
    BY <2>1, <2>2 DEF Base, TicksKnown
  <2>4. t \in before
    BY <2>2, <2>3 DEF Of
  <2>5. stamps \in Nat /\ \A u \in before : u.stamp \in 1..stamps
    BY <1>1 DEF Base, TicksKnown, Inside, Of
  <2>6. s \in before /\ t.stamp <= s.stamp
    <3> HIDE DEF before, t
    <3> QED BY <2>4, <2>5, NewestIn
  <2>7. s \in quoted /\ s.stamp <= t.stamp /\ s.stamp \in Nat /\ t.stamp \in Nat
    <3>1. s \in Inside(i, m)
      BY <1>1, <2>6
    <3> QED BY <2>1, <2>2, <3>1 DEF Inside, Of, Base, TicksKnown
  <2>8. s.stamp = t.stamp
    BY <2>6, <2>7
  <2>9. s = t
    BY <2>2, <2>7, <2>8 DEF Base, TicksKnown
  <2>10. PeriodEndPrice(i, m) = s.price
    BY <2>4 DEF PeriodEndPrice
  <2> QED BY <1>3, <2>9, <2>10 DEF PriceIn
<1> QED BY <1>2, <1>3

(* A closing that values user u's positions of month m, if the prices were *)
(* kept until the instant.                                                 *)
Worth(u, m) ==
    SumFunction([a \in Holdings(u, EndAt(m)) |->
                    PriceIn(Chart[a].instrument, m) * Quantity(a, EndAt(m))])
Valued(u, m, closing, instant) ==
    (\A a \in Holdings(u, EndAt(m)) : Kept(Chart[a].instrument, m, instant))
        => closing = Worth(u, m)

LEMMA MarketValued ==
  ASSUME Base, NEW m \in Nat, NEW u
  PROVE  Valued(u, m, MarketValue(u, m), clock)
<1> SUFFICES ASSUME \A a \in Holdings(u, EndAt(m)) : Kept(Chart[a].instrument, m, clock)
             PROVE  MarketValue(u, m) = Worth(u, m)
  BY DEF Valued
<1>1. \A a \in Holdings(u, EndAt(m)) :
         PeriodEndPrice(Chart[a].instrument, m) = PriceIn(Chart[a].instrument, m)
  BY PriceFound
<1> DEFINE H == Holdings(u, EndAt(m))
<1>2. [a \in H |-> PeriodEndPrice(Chart[a].instrument, m) * Quantity(a, EndAt(m))]
       = [a \in H |-> PriceIn(Chart[a].instrument, m) * Quantity(a, EndAt(m))]
  BY <1>1
<1> QED BY <1>2 DEF MarketValue, Worth

LEMMA ValuedStays ==
  ASSUME Base, [Next]_vars, NEW m, Closed(m), NEW u, NEW c, NEW g, Valued(u, m, c, g)
  PROVE  Valued(u, m, c, g)'
<1>1. m \in Nat /\ EndAt(m) \in Nat /\ EndAt(m) <= EndAt(m)
  BY Bounds DEF Closed
<1>2. Holdings(u, EndAt(m))' = Holdings(u, EndAt(m))
  BY MonthFixed
<1>3. \A a : Quantity(a, EndAt(m))' = Quantity(a, EndAt(m))
  BY <1>1, AnswersFixed
<1>4. \A i : Inside(i, m)' = Inside(i, m)
  BY InsideFixed
<1>5. \A i : PriceIn(i, m)' = PriceIn(i, m) /\ Kept(i, m, g)' = Kept(i, m, g)
  BY <1>4 DEF PriceIn, Kept
<1> DEFINE H == Holdings(u, EndAt(m))
<1>6. [a \in H |-> PriceIn(Chart[a].instrument, m) * Quantity(a, EndAt(m))]'
       = [a \in H |-> PriceIn(Chart[a].instrument, m) * Quantity(a, EndAt(m))]
  BY <1>2, <1>3, <1>5
<1>7. Worth(u, m)' = Worth(u, m)
  BY <1>6 DEF Worth
<1> QED BY <1>2, <1>5, <1>7 DEF Valued

LEMMA ValuedLater ==
  ASSUME Base, NEW m \in Nat, NEW u, NEW c, NEW g \in Nat, NEW h \in Nat, g <= h,
         Valued(u, m, c, g)
  PROVE  Valued(u, m, c, h)
<1>1. \A i : Kept(i, m, h) => Kept(i, m, g)
  <2> SUFFICES ASSUME NEW i, Inside(i, m) # {}, Newest(Inside(i, m)).at >= h - Retention
               PROVE  Newest(Inside(i, m)).at >= g - Retention
    BY DEF Kept
  <2> DEFINE x == Newest(Inside(i, m)).at
  <2>1. x \in Nat /\ Retention \in Nat
    BY InsideKnown, MarketAssumption
  <2>2. x >= h - Retention
    OBVIOUS
  <2> HIDE DEF x
  <2>3. x >= g - Retention
    BY <2>1, <2>2
  <2> QED BY <2>3 DEF x
<1> QED BY <1>1 DEF Valued

-----------------------------------------------------------------------------
(* Before a month and in it is before its end.                             *)
LEMMA LinesFinite ==
  ASSUME Base, NEW a, NEW from, NEW until
  PROVE  /\ IsFiniteSet(Lines(a, from, until)) /\ Lines(a, from, until) \subseteq DOMAIN book
         /\ \A n \in Lines(a, from, until) : book[n].amount \in Int
<1>1. book \in Seq(LineRow)
  BY DEF Base, BookKnown
<1>2. DOMAIN book = 1..Len(book) /\ Len(book) \in Int /\ 1 \in Int /\ \A n \in DOMAIN book : book[n] \in LineRow
  BY <1>1
<1>3. IsFiniteSet(1..Len(book))
  BY <1>2, FS_Interval, Zenon
<1>4. Lines(a, from, until) \in SUBSET (1..Len(book))
  BY <1>2 DEF Lines
<1>5. IsFiniteSet(Lines(a, from, until))
  BY <1>3, <1>4, FS_Subset
<1> QED BY <1>2, <1>4, <1>5 DEF LineRow

LEMMA OpeningAndLines ==
  ASSUME Base, NEW m \in Nat, NEW a
  PROVE  Balance(a, EndAt(m)) = Balance(a, StartAt(m)) + Amounts(Lines(a, StartAt(m), EndAt(m)))
<1> DEFINE A == Lines(a, 0, StartAt(m))
           B == Lines(a, StartAt(m), EndAt(m))
           C == Lines(a, 0, EndAt(m))
           f == [n \in C |-> book[n].amount]
           g == [n \in A |-> book[n].amount]
           h == [n \in B |-> book[n].amount]
<1>1. StartAt(m) \in Nat /\ EndAt(m) \in Nat /\ StartAt(m) <= EndAt(m)
  BY Bounds
<1>2. \A n \in DOMAIN book : book[n].at \in Nat
  <2>1. book \in Seq(LineRow)
    BY DEF Base, BookKnown
  <2>2. \A n \in DOMAIN book : book[n] \in LineRow
    BY <2>1
  <2> QED BY <2>2 DEF LineRow
<1>3. A \cap B = {} /\ A \cup B = C
  BY <1>1, <1>2 DEF Lines
<1>4. IsFiniteSet(A) /\ IsFiniteSet(B) /\ \A n \in C : book[n].amount \in Int
  BY LinesFinite
<1>5. /\ Balance(a, EndAt(m)) = SumFunctionOnSet(f, C)
      /\ Balance(a, StartAt(m)) = SumFunctionOnSet(g, A)
      /\ Amounts(B) = SumFunctionOnSet(h, B)
  BY DEF Balance, Amounts, SumFunction
<1>6. /\ \A n \in C : f[n] \in Int
      /\ \A n \in A : f[n] = g[n]
      /\ \A n \in B : f[n] = h[n]
  BY <1>3, <1>4
<1> HIDE DEF A, B, C, f, g, h
<1>7. SumFunctionOnSet(f, A \cup B) = SumFunctionOnSet(f, A) + SumFunctionOnSet(f, B)
  BY <1>3, <1>4, <1>6, SumUnion
<1>8. SumFunctionOnSet(f, A) = SumFunctionOnSet(g, A) /\ SumFunctionOnSet(f, B) = SumFunctionOnSet(h, B)
  BY <1>4, <1>6, SumSame
<1> QED BY <1>3, <1>5, <1>7, <1>8 DEF B

-----------------------------------------------------------------------------
(* A run.                                                                  *)
Steps == {"idle", "next", "opening", "lines", "activity", "value", "file", "row", "delete"}
Shaped(d) ==
    d \in [step : Steps, month : {d.month}, todo : SUBSET AllSubjects, user : {d.user},
           account : {d.account}, opening : {d.opening}, closing : {d.closing},
           count : {d.count}, file : {d.file}, ok : BOOLEAN]

SubjectOf(d) == [user |-> d.user, account |-> d.account]

(* A month owes a subject nothing more.                                    *)
Nothing(s, m) ==
    IF s.account = Brokerage THEN ~HasActivity(s.user, m)
    ELSE Balance(s.account, StartAt(m)) = 0 /\ Lines(s.account, StartAt(m), EndAt(m)) = {}
Settled(s, m) == Exists(s, m) \/ Nothing(s, m)

(* What a run has read is what the month it works on says, and it has seen *)
(* to every subject it went past.                                          *)
Progress(d) ==
    d.ok => \A s \in AllSubjects : \/ s \in d.todo \/ Settled(s, d.month)
                                   \/ d.step # "next" /\ s = SubjectOf(d)

BalancesRead(d) ==
    /\ d.opening = Balance(d.account, StartAt(d.month))
    /\ d.closing = Balance(d.account, EndAt(d.month))

Reads(d) ==
    /\ d.step \in {"opening", "lines"} => d.account # Brokerage
    /\ d.step \in {"activity", "value"} => d.account = Brokerage
    /\ d.step = "lines" => d.opening = Balance(d.account, StartAt(d.month))
    /\ d.step \in {"file", "row"} /\ d.account # Brokerage => BalancesRead(d)
    /\ d.step \in {"file", "row"} /\ d.account = Brokerage =>
          Valued(d.user, d.month, d.closing, clock)
    /\ d.step = "delete" => Exists(d, d.month)

Works(d) ==
    /\ Closed(d.month)
    /\ Progress(d)
    /\ d.step # "next" => SubjectOf(d) \in AllSubjects
    /\ Reads(d)

Good(d) == Shaped(d) /\ (d.step # "idle" => Works(d))

RowGood(r) ==
    /\ Closed(r.month) /\ SubjectOf(r) \in AllSubjects /\ r.generated \in Nat
    /\ r.account = Brokerage => Valued(r.user, r.month, r.closing, r.generated)

Done(m) == Closed(m) /\ \A s \in AllSubjects : Settled(s, m)

JInv ==
    /\ Base
    /\ DOMAIN desk = Desks /\ \A d \in {desk[w] : w \in Desks} : Good(d)
    /\ \A r \in rows : RowGood(r)
    /\ \A m \in complete : Done(m)

-----------------------------------------------------------------------------
(* Rows stay, so what is settled stays settled.                            *)
LEMMA RowsGrow == ASSUME [Next]_vars PROVE rows \subseteq rows'
BY DEF Next, MarketNext, StartRun, CreateTick, SaveTick, EndRun, HitSoftLimit, KillTicker,
       LockExpires, PurgeTicks, Stamp, Commit, RollBack, RejectOrder, Elapse, DeskStep, Generate, Take,
       ReadOpening, ReadLines, CheckActivity, Value, SaveFile, InsertRow, DeleteFile, Fails,
       KillDesk, EndGenerate, DeskOnly, vars, statementVars

LEMMA SettledStays ==
  ASSUME Base, [Next]_vars, NEW m, Closed(m), NEW s, Settled(s, m)
  PROVE  Settled(s, m)'
<1>1. StartAt(m) \in Nat /\ EndAt(m) \in Nat /\ StartAt(m) <= EndAt(m) /\ EndAt(m) <= EndAt(m)
  BY Bounds DEF Closed
<1>2. Exists(s, m) => Exists(s, m)'
  BY RowsGrow DEF Exists, Same
<1>3. HasActivity(s.user, m)' = HasActivity(s.user, m)
  BY MonthFixed
<1>4. Balance(s.account, StartAt(m))' = Balance(s.account, StartAt(m))
  BY <1>1, AnswersFixed
<1>5. Lines(s.account, StartAt(m), EndAt(m))' = Lines(s.account, StartAt(m), EndAt(m))
  BY <1>1, LinesFixed
<1> QED BY <1>2, <1>3, <1>4, <1>5 DEF Settled, Nothing

LEMMA GoodStays ==
  ASSUME Base, [Next]_vars, NEW d, Good(d)
  PROVE  Good(d)'
<1>1. CASE d.step = "idle"
  BY <1>1 DEF Good, Shaped
<1>2. CASE d.step # "idle"
  <2> DEFINE m == d.month
  <2>1. Works(d) /\ Closed(m) /\ m \in Nat
    BY <1>2 DEF Good, Works, Closed
  <2>2. Closed(m)'
    BY <2>1, ClosedStays
  <2>3. StartAt(m) \in Nat /\ EndAt(m) \in Nat /\ StartAt(m) <= EndAt(m) /\ EndAt(m) <= EndAt(m)
    BY <2>1, Bounds
  <2>4. \A s : Settled(s, m) => Settled(s, m)'
    BY <2>1, SettledStays
  <2>5. Progress(d)'
    BY <2>1, <2>4 DEF Works, Progress
  <2>6. /\ Balance(d.account, StartAt(m))' = Balance(d.account, StartAt(m))
        /\ Balance(d.account, EndAt(m))' = Balance(d.account, EndAt(m))
    BY <2>1, <2>3, AnswersFixed
  <2>7. Valued(d.user, m, d.closing, clock) => Valued(d.user, m, d.closing, clock)'
    <3> SUFFICES ASSUME Valued(d.user, m, d.closing, clock)
                 PROVE  Valued(d.user, m, d.closing, clock)'
      OBVIOUS
    <3>1. PICK g : g = clock
      OBVIOUS
    <3>2. PICK h : h = clock'
      OBVIOUS
    <3>3. g \in Nat /\ h \in Nat /\ g <= h
      BY <3>1, <3>2, StampedNow DEF Base, BookKnown
    <3>4. Valued(d.user, m, d.closing, g)
      BY <3>1
    <3>5. Valued(d.user, m, d.closing, h)
      BY <2>1, <3>3, <3>4, ValuedLater
    <3>6. Valued(d.user, m, d.closing, h)'
      BY <2>1, <3>5, ValuedStays
    <3> QED BY <3>2, <3>6
  <2>8. Exists(d, m) => Exists(d, m)'
    BY RowsGrow DEF Exists, Same
  <2> QED BY <1>2, <2>1, <2>2, <2>5, <2>6, <2>7, <2>8
          DEF Good, Works, Reads, Shaped, BalancesRead
<1> QED BY <1>1, <1>2

LEMMA RowStays ==
  ASSUME Base, [Next]_vars, NEW r, RowGood(r)
  PROVE  RowGood(r)'
<1>1. Closed(r.month)'
  BY ClosedStays DEF RowGood
<1>2. Valued(r.user, r.month, r.closing, r.generated) => Valued(r.user, r.month, r.closing, r.generated)'
  BY ValuedStays DEF RowGood
<1> QED BY <1>1, <1>2 DEF RowGood

LEMMA DoneStays ==
  ASSUME Base, [Next]_vars, NEW m, Done(m)
  PROVE  Done(m)'
BY ClosedStays, SettledStays DEF Done

-----------------------------------------------------------------------------
(* The next subject of a run is one of those left.                         *)
LEMMA MinOf ==
  ASSUME NEW T \in SUBSET Nat, T # {}
  PROVE  Min(T) \in T
BY LeastOf DEF Min

LEMMA FirstIn ==
  ASSUME NEW S \in SUBSET AllSubjects, S # {}
  PROVE  First(S) \in S
<1> DEFINE users == {s.user : s \in S}
           u == Min(users)
           own == {r \in S : r.user = u}
           all == {s.account : s \in own}
           accounts == all \ {Brokerage}
<1>1. \A s \in S : /\ s = [user |-> s.user, account |-> s.account]
                   /\ s.user \in Nat /\ s.account \in Nat
  BY StatementsAssumption DEF AllSubjects, Subjects, Spendable, Brokerage
<1>2. users \in SUBSET Nat /\ users # {}
  BY <1>1
<1>3. u \in users
  <2> HIDE DEF users
  <2> QED BY <1>2, MinOf
<1>4. PICK s \in S : s.user = u
  BY <1>3
<1> HIDE DEF u
<1>5. First(S) = [user |-> u, account |-> IF accounts = {} THEN Brokerage ELSE Min(accounts)]
  BY DEF First, u
<1>6. CASE accounts = {}
  <2>1. s.account \in all
    BY <1>4
  <2>2. s.account = Brokerage
    BY <1>6, <2>1
  <2>3. s = [user |-> u, account |-> Brokerage]
    BY <1>1, <1>4, <2>2
  <2> QED BY <1>5, <1>6, <2>3
<1>7. CASE accounts # {}
  <2>1. accounts \in SUBSET Nat
    BY <1>1
  <2>2. Min(accounts) \in accounts
    <3> HIDE DEF accounts
    <3> QED BY <1>7, <2>1, MinOf
  <2>3. PICK r \in own : r.account = Min(accounts)
    BY <2>2
  <2>4. r = [user |-> u, account |-> Min(accounts)]
    BY <1>1, <2>3
  <2> QED BY <1>5, <1>7, <2>3, <2>4
<1> QED BY <1>6, <1>7

LEMMA IdleShaped == Shaped(Idle) /\ Idle.step = "idle" /\ Idle.ok
BY DEF Shaped, Idle, Steps

-----------------------------------------------------------------------------
(* The steps of a run. What they leave alone answers as before.            *)
LEMMA SameAnswers ==
  ASSUME UNCHANGED book
  PROVE  \A a, k, from : /\ Balance(a, k)' = Balance(a, k)
                         /\ Lines(a, from, k)' = Lines(a, from, k)
BY DEF Balance, Amounts, Lines

(* What a step that goes on with its subject, or is through with it, owes. *)
LEMMA Proceeds ==
  ASSUME Base, [Next]_vars, NEW d, Good(d), d.step \notin {"idle", "next"},
         NEW f, Shaped(f), f.step # "idle", f.month = d.month, f.todo = d.todo, f.user = d.user,
         f.account = d.account, f.ok => d.ok, Reads(f)',
         f.ok /\ f.step = "next" => Settled(SubjectOf(d), d.month)'
  PROVE  Good(f)'
<1>1. Works(d)'
  BY GoodStays DEF Good
<1>2. SubjectOf(f) = SubjectOf(d)
  BY DEF SubjectOf
<1>3. Progress(f)'
  BY <1>1, <1>2 DEF Works, Progress
<1>4. Works(f)'
  BY <1>1, <1>2, <1>3 DEF Works
<1> QED BY <1>4 DEF Good, Shaped

LEMMA DeskGood ==
  ASSUME JInv, NEW w \in Desks, NEW d, d = desk[w]
  PROVE  Base /\ Good(d) /\ Shaped(d) /\ (d.step # "idle" => Works(d) /\ d.month \in Nat)
BY DEF JInv, Good, Works, Closed

LEMMA OpeningRead ==
  ASSUME JInv, [Next]_vars, NEW w \in Desks, ReadOpening(w), NEW d, d = desk[w], NEW f, f = desk'[w]
  PROVE  Good(f)'
<1> DEFINE e == [[d EXCEPT !.opening = Balance(d.account, StartAt(d.month))] EXCEPT !.step = "lines"]
<1>1. Good(d) /\ d.step = "opening" /\ Works(d) /\ Shaped(d) /\ Base
  BY DeskGood DEF ReadOpening
<1>2. f = e /\ UNCHANGED book
  BY DEF JInv, ReadOpening, DeskOnly
<1>3. /\ Shaped(f) /\ f.step = "lines" /\ f.month = d.month /\ f.todo = d.todo /\ f.user = d.user
      /\ f.account = d.account /\ f.ok = d.ok
      /\ f.opening = Balance(d.account, StartAt(d.month))
  BY <1>1, <1>2 DEF Shaped, Steps
<1> HIDE DEF e
<1>4. f.opening = Balance(f.account, StartAt(f.month))'
  BY <1>2, <1>3, SameAnswers
<1>5. Reads(f)'
  BY <1>1, <1>3, <1>4 DEF Works, Reads
<1> QED BY <1>1, <1>3, <1>5, Proceeds

LEMMA LinesRead ==
  ASSUME JInv, [Next]_vars, NEW w \in Desks, ReadLines(w), NEW d, d = desk[w], NEW f, f = desk'[w]
  PROVE  Good(f)'
<1> DEFINE lines == Lines(d.account, StartAt(d.month), EndAt(d.month))
           closing == d.opening + Amounts(lines)
           nothing == lines = {} /\ d.opening = 0 /\ closing = 0
           n == Cardinality(lines)
           step == IF nothing THEN "next" ELSE "file"
           e == [[[d EXCEPT !.closing = closing] EXCEPT !.count = n] EXCEPT !.step = step]
<1>1. Good(d) /\ d.step = "lines" /\ Works(d) /\ Shaped(d) /\ Base /\ d.month \in Nat
  BY DeskGood DEF ReadLines
<1>2. f = e /\ UNCHANGED <<book, rows>>
  BY DEF JInv, ReadLines, DeskOnly
<1>3. d.opening = Balance(d.account, StartAt(d.month)) /\ d.account # Brokerage
  BY <1>1 DEF Works, Reads
<1>4. closing = Balance(d.account, EndAt(d.month))
  BY <1>1, <1>3, OpeningAndLines
<1>5. nothing => lines = {} /\ Balance(d.account, StartAt(d.month)) = 0
  BY <1>3
<1>6. step = "file" \/ (step = "next" /\ nothing)
  OBVIOUS
<1>7. lines = {} /\ Balance(d.account, StartAt(d.month)) = 0 => Settled(SubjectOf(d), d.month)'
  BY <1>2, <1>3, SameAnswers DEF Settled, Nothing, SubjectOf
<1> HIDE DEF closing, nothing, n, step
<1>8. /\ Shaped(f) /\ f.step = step /\ f.month = d.month /\ f.todo = d.todo /\ f.user = d.user
      /\ f.account = d.account /\ f.ok = d.ok /\ f.opening = d.opening /\ f.closing = closing
  BY <1>1, <1>2, <1>6 DEF Shaped, Steps
<1> HIDE DEF e
<1>9. BalancesRead(f)'
  BY <1>2, <1>3, <1>4, <1>8, SameAnswers DEF BalancesRead
<1>10. Reads(f)'
  BY <1>3, <1>6, <1>8, <1>9 DEF Reads
<1> QED BY <1>1, <1>5, <1>6, <1>7, <1>8, <1>10, Proceeds

LEMMA ActivityChecked ==
  ASSUME JInv, [Next]_vars, NEW w \in Desks, CheckActivity(w), NEW d, d = desk[w], NEW f, f = desk'[w]
  PROVE  Good(f)'
<1> DEFINE active == HasActivity(d.user, d.month)
           step == IF active THEN "value" ELSE "next"
<1>1. Good(d) /\ d.step = "activity" /\ Works(d) /\ Shaped(d) /\ Base /\ Closed(d.month)
  BY DeskGood DEF CheckActivity, Works
<1>2. f = [d EXCEPT !.step = step]
  BY DEF JInv, CheckActivity, DeskOnly, Go
<1>3. d.account = Brokerage
  BY <1>1 DEF Works, Reads
<1>4. active' = active
  BY <1>1, MonthFixed
<1>5. ~active => Settled(SubjectOf(d), d.month)'
  BY <1>3, <1>4 DEF Settled, Nothing, SubjectOf
<1>6. step = "value" \/ (step = "next" /\ ~active)
  OBVIOUS
<1> HIDE DEF active, step
<1>7. /\ Shaped(f) /\ f.step = step /\ f.month = d.month /\ f.todo = d.todo /\ f.user = d.user
      /\ f.account = d.account /\ f.ok = d.ok
  BY <1>1, <1>2, <1>6 DEF Shaped, Steps
<1>8. Reads(f)'
  BY <1>3, <1>6, <1>7 DEF Reads
<1> QED BY <1>1, <1>5, <1>6, <1>7, <1>8, Proceeds

LEMMA ValueRead ==
  ASSUME JInv, [Next]_vars, NEW w \in Desks, Value(w), NEW d, d = desk[w], NEW f, f = desk'[w]
  PROVE  Good(f)'
<1> DEFINE basis == CostBasis(d.user, d.month)
           worth == MarketValue(d.user, d.month)
           n == Cardinality(Fills(d.user, d.month))
           e == [[[[d EXCEPT !.opening = basis] EXCEPT !.closing = worth] EXCEPT !.count = n]
                    EXCEPT !.step = "file"]
<1>1. Good(d) /\ d.step = "value" /\ Works(d) /\ Shaped(d) /\ Base /\ d.month \in Nat /\ Closed(d.month)
  BY DeskGood DEF Value, Works
<1>2. f = e /\ UNCHANGED clock
  BY DEF JInv, Value, DeskOnly, marketVars
<1>3. d.account = Brokerage
  BY <1>1 DEF Works, Reads
<1>4. PICK g : g = clock
  OBVIOUS
<1>5. PICK c : c = worth
  OBVIOUS
<1>6. Valued(d.user, d.month, c, g)
  BY <1>1, <1>4, <1>5, MarketValued
<1>7. Valued(d.user, d.month, c, g)'
  BY <1>1, <1>6, ValuedStays
<1> HIDE DEF basis, worth, n
<1>8. /\ Shaped(f) /\ f.step = "file" /\ f.month = d.month /\ f.todo = d.todo /\ f.user = d.user
      /\ f.account = d.account /\ f.ok = d.ok /\ f.closing = c
  BY <1>1, <1>2, <1>5 DEF Shaped, Steps
<1> HIDE DEF e
<1>9. Reads(f)'
  BY <1>2, <1>3, <1>4, <1>7, <1>8 DEF Reads
<1> QED BY <1>1, <1>8, <1>9, Proceeds

LEMMA FileSaved ==
  ASSUME JInv, [Next]_vars, NEW w \in Desks, SaveFile(w), NEW d, d = desk[w], NEW f, f = desk'[w]
  PROVE  Good(f)'
<1> DEFINE name == FreeName(d, d.month)
           e == [[d EXCEPT !.file = name] EXCEPT !.step = "row"]
<1>1. Good(d) /\ d.step = "file" /\ Works(d) /\ Shaped(d) /\ Base
  BY DeskGood DEF SaveFile
<1>2. f = e
  BY DEF JInv, SaveFile
<1>3. Reads(d)'
  BY <1>1, GoodStays DEF Good, Works
<1> HIDE DEF name
<1>4. /\ Shaped(f) /\ f.step = "row" /\ f.month = d.month /\ f.todo = d.todo /\ f.user = d.user
      /\ f.account = d.account /\ f.ok = d.ok /\ f.opening = d.opening /\ f.closing = d.closing
  BY <1>1, <1>2 DEF Shaped, Steps
<1> HIDE DEF e
<1>5. Reads(f)'
  BY <1>1, <1>3, <1>4 DEF Reads, BalancesRead
<1> QED BY <1>1, <1>4, <1>5, Proceeds

(* The row, or the file of another one, is there.                          *)
LEMMA RowInserted ==
  ASSUME JInv, [Next]_vars, NEW w \in Desks, InsertRow(w), NEW d, d = desk[w], NEW f, f = desk'[w]
  PROVE  Good(f)' /\ \A r \in rows' : RowGood(r)'
<1> DEFINE new == [user |-> d.user, account |-> d.account, month |-> d.month, file |-> d.file,
                   opening |-> d.opening, closing |-> d.closing, count |-> d.count,
                   generated |-> clock]
<1>1. Good(d) /\ d.step = "row" /\ Works(d) /\ Shaped(d) /\ Base
  BY DeskGood DEF InsertRow
<1>2. \A r \in rows : RowGood(r)'
  BY RowStays DEF JInv
<1>3. CASE ~Exists(d, d.month) /\ rows' = rows \cup {new} /\ Go(w, "next")
  <2>1. f = [d EXCEPT !.step = "next"] /\ clock' = clock
    BY <1>3 DEF JInv, Go, InsertRow, marketVars
  <2>2. /\ Shaped(f) /\ f.step = "next" /\ f.month = d.month /\ f.todo = d.todo /\ f.user = d.user
        /\ f.account = d.account /\ f.ok = d.ok
    BY <1>1, <2>1 DEF Shaped, Steps
  <2>3. new.user = d.user /\ new.account = d.account /\ new.month = d.month /\ new \in rows'
        /\ new.closing = d.closing /\ new.generated = clock
    BY <1>3
  <2>4. PICK r : r = new
    OBVIOUS
  <2> HIDE DEF new
  <2>5. Settled(SubjectOf(d), d.month)'
    BY <2>3 DEF Settled, Exists, Same, SubjectOf
  <2>6. Reads(f)'
    BY <2>2 DEF Reads
  <2>7. Good(f)'
    BY <1>1, <2>2, <2>5, <2>6, Proceeds
  <2>8. Works(d)' /\ Reads(d)'
    BY <1>1, GoodStays DEF Good, Works
  <2>9. RowGood(r)'
    <3>1. Closed(r.month)' /\ SubjectOf(r) \in AllSubjects /\ r.generated \in Nat
      BY <1>1, <2>3, <2>4, <2>8 DEF Works, SubjectOf, Base, BookKnown
    <3>2. r.account = Brokerage => Valued(r.user, r.month, r.closing, r.generated)'
      BY <1>1, <2>1, <2>3, <2>4, <2>8 DEF Reads
    <3> QED BY <3>1, <3>2 DEF RowGood
  <2> QED BY <1>2, <1>3, <2>4, <2>7, <2>9
<1>4. CASE Exists(d, d.month) /\ Go(w, "delete") /\ rows' = rows
  <2>1. f = [d EXCEPT !.step = "delete"]
    BY <1>4 DEF JInv, Go, InsertRow
  <2>2. /\ Shaped(f) /\ f.step = "delete" /\ f.month = d.month /\ f.todo = d.todo /\ f.user = d.user
        /\ f.account = d.account /\ f.ok = d.ok
    BY <1>1, <2>1 DEF Shaped, Steps
  <2>3. Exists(f, f.month)'
    BY <1>4, <2>2 DEF Exists, Same
  <2>4. Reads(f)'
    BY <2>2, <2>3 DEF Reads
  <2>5. Good(f)'
    BY <1>1, <2>2, <2>4, Proceeds
  <2> QED BY <1>2, <1>4, <2>5
<1> QED BY <1>1, <1>3, <1>4 DEF InsertRow

LEMMA FileDeleted ==
  ASSUME JInv, [Next]_vars, NEW w \in Desks, DeleteFile(w), NEW d, d = desk[w], NEW f, f = desk'[w]
  PROVE  Good(f)'
<1>1. Good(d) /\ d.step = "delete" /\ Works(d) /\ Shaped(d) /\ Base
  BY DeskGood DEF DeleteFile
<1>2. f = [d EXCEPT !.step = "next"] /\ rows' = rows
  BY DEF JInv, DeleteFile, Go
<1>3. /\ Shaped(f) /\ f.step = "next" /\ f.month = d.month /\ f.todo = d.todo /\ f.user = d.user
      /\ f.account = d.account /\ f.ok = d.ok
  BY <1>1, <1>2 DEF Shaped, Steps
<1>4. Settled(SubjectOf(d), d.month)'
  BY <1>1, <1>2 DEF Works, Reads, Settled, Exists, Same, SubjectOf
<1>5. Reads(f)'
  BY <1>3 DEF Reads
<1> QED BY <1>1, <1>3, <1>4, <1>5, Proceeds

LEMMA RunFailed ==
  ASSUME JInv, [Next]_vars, NEW w \in Desks, Fails(w), NEW d, d = desk[w], NEW f, f = desk'[w]
  PROVE  Good(f)'
<1> DEFINE e == [[d EXCEPT !.step = "next"] EXCEPT !.ok = FALSE]
<1>1. Good(d) /\ d.step \notin {"idle", "next"} /\ Shaped(d) /\ Base
  BY DeskGood DEF Fails
<1>2. f = e
  BY DEF JInv, Fails
<1>3. /\ Shaped(f) /\ f.step = "next" /\ f.month = d.month /\ f.todo = d.todo /\ f.user = d.user
      /\ f.account = d.account /\ f.ok = FALSE
  BY <1>1, <1>2 DEF Shaped, Steps
<1> HIDE DEF e
<1>4. Reads(f)'
  BY <1>3 DEF Reads
<1> QED BY <1>1, <1>3, <1>4, Proceeds

(* Between two subjects.                                                   *)
LEMMA SubjectTaken ==
  ASSUME JInv, [Next]_vars, NEW w \in Desks, Take(w), NEW d, d = desk[w], NEW f, f = desk'[w]
  PROVE  Good(f)'
<1> DEFINE s == First(d.todo)
           there == Exists(s, d.month)
           step == IF there THEN "next" ELSE IF s.account = Brokerage THEN "activity" ELSE "opening"
           others == d.todo \ {s}
           e == [[[[d EXCEPT !.todo = others] EXCEPT !.user = s.user]
                     EXCEPT !.account = s.account] EXCEPT !.step = step]
<1>1. Good(d) /\ d.step = "next" /\ Works(d) /\ Shaped(d) /\ Base /\ d.todo # {}
  BY DeskGood DEF Take
<1>2. f = e /\ rows' = rows
  BY DEF JInv, Take, DeskOnly
<1>3. s \in d.todo /\ s \in AllSubjects /\ d.todo \in SUBSET AllSubjects
  <2>1. d.todo \in SUBSET AllSubjects
    BY <1>1 DEF Shaped
  <2> QED BY <1>1, <2>1, FirstIn
<1>4. s = [user |-> s.user, account |-> s.account]
  <2> HIDE DEF s
  <2> QED BY <1>3 DEF AllSubjects, Subjects
<1>5. there => Settled(s, d.month)'
  BY <1>2 DEF Settled, Exists, Same
<1>6. \/ step = "next" /\ there
      \/ step = "activity" /\ s.account = Brokerage
      \/ step = "opening" /\ s.account # Brokerage
  OBVIOUS
<1> HIDE DEF s
<1>6a. others \in SUBSET AllSubjects /\ step \in Steps
  BY <1>3, <1>6 DEF Steps
<1> HIDE DEF there, step, others
<1>7. /\ Shaped(f) /\ f.step = step /\ f.month = d.month /\ f.todo = others /\ f.user = s.user
      /\ f.account = s.account /\ f.ok = d.ok
  BY <1>1, <1>2, <1>6a DEF Shaped
<1> HIDE DEF e
<1>8. SubjectOf(f) = s
  BY <1>4, <1>7 DEF SubjectOf
<1>9. Works(d)'
  BY <1>1, GoodStays DEF Good
<1>10. Progress(f)'
  <2> SUFFICES ASSUME f.ok, NEW t \in AllSubjects
               PROVE  t \in f.todo \/ Settled(t, f.month)' \/ (f.step # "next" /\ t = SubjectOf(f))
    BY DEF Progress
  <2>1. t \in d.todo \/ Settled(t, d.month)'
    BY <1>1, <1>7, <1>9 DEF Works, Progress
  <2>2. CASE t = s
    BY <1>5, <1>6, <1>7, <1>8, <2>2
  <2>3. CASE t # s
    BY <1>7, <2>1, <2>3 DEF others
  <2> QED BY <2>2, <2>3
<1>11. Reads(f)'
  BY <1>6, <1>7 DEF Reads
<1>12. Works(f)'
  BY <1>3, <1>7, <1>8, <1>9, <1>10, <1>11 DEF Works
<1> QED BY <1>7, <1>12 DEF Good, Shaped

LEMMA RunStarted ==
  ASSUME JInv, [Next]_vars, NEW w \in Desks, NEW m \in 0..clock, Generate(w, m),
         NEW f, f = desk'[w]
  PROVE  Good(f)'
<1> PICK d : d = Idle
  OBVIOUS
<1> DEFINE e == [[[d EXCEPT !.step = "next"] EXCEPT !.month = m] EXCEPT !.todo = AllSubjects]
<1>1. Base /\ clock \in Nat /\ m \in Nat
  BY DEF JInv, Base, BookKnown
<1>2. f = e
  BY DEF JInv, Generate
<1>3. Closed(m)
  BY <1>1 DEF Generate, Closed
<1>4. Closed(m)'
  BY <1>1, <1>3, ClosedStays
<1>5. Shaped(f) /\ f.step = "next" /\ f.month = m /\ f.todo = AllSubjects
  BY <1>2, IdleShaped DEF Shaped, Steps
<1> HIDE DEF e
<1>6. Progress(f)' /\ Reads(f)'
  BY <1>5 DEF Progress, Reads
<1>7. Works(f)'
  BY <1>4, <1>5, <1>6 DEF Works
<1> QED BY <1>5, <1>7 DEF Good, Shaped

LEMMA RunOver ==
  ASSUME JInv, [Next]_vars, NEW w \in Desks, KillDesk(w) \/ EndGenerate(w), NEW f, f = desk'[w]
  PROVE  Good(f)' /\ \A m \in complete' : Done(m)'
<1>1. f = Idle
  BY DEF JInv, KillDesk, EndGenerate
<1>2. Good(f)'
  BY <1>1, IdleShaped DEF Good, Shaped
<1>3. \A m \in complete : Done(m)'
  BY DoneStays DEF JInv
<1>4. CASE KillDesk(w)
  BY <1>2, <1>3, <1>4 DEF KillDesk
<1>5. CASE EndGenerate(w)
  <2> PICK d : d = desk[w]
    OBVIOUS
  <2>1. d.step = "next" /\ d.todo = {} /\ complete' = IF d.ok THEN complete \cup {d.month} ELSE complete
    BY <1>5 DEF EndGenerate
  <2>2. Base /\ Good(d) /\ Works(d)
    BY <2>1, DeskGood
  <2>3. Works(d)'
    BY <2>1, <2>2, GoodStays DEF Good
  <2>4. d.ok => Done(d.month)'
    BY <2>1, <2>3 DEF Works, Progress, Done
  <2> QED BY <1>2, <1>3, <2>1, <2>4
<1> QED BY <1>4, <1>5

-----------------------------------------------------------------------------
LEMMA JobsStart == Init => JInv
<1> SUFFICES ASSUME Init PROVE JInv
  OBVIOUS
<1>1. \A d \in {desk[w] : w \in Desks} : d = Idle
  BY DEF Init
<1>2. \A d \in {desk[w] : w \in Desks} : Good(d)
  BY <1>1, IdleShaped DEF Good
<1> QED BY <1>2, BaseStarts DEF Init, JInv

(* A step of desk w leaves the other desks alone.                          *)
LEMMA OneDesk ==
  ASSUME JInv, [Next]_vars, NEW w \in Desks, DeskStep(w)
  PROVE  DOMAIN desk' = Desks /\ \A v \in Desks : v # w => desk'[v] = desk[v]
BY DEF JInv, DeskStep, Generate, Take, ReadOpening, ReadLines, CheckActivity, Value, SaveFile,
       InsertRow, DeleteFile, Fails, KillDesk, EndGenerate, DeskOnly, Go

LEMMA DeskKept ==
  ASSUME JInv, [Next]_vars, NEW w \in Desks, DeskStep(w), NEW f, f = desk'[w]
  PROVE  Good(f)' /\ (\A r \in rows' : RowGood(r)') /\ (\A m \in complete' : Done(m)')
<1> PICK d : d = desk[w]
  OBVIOUS
<1>1. (\A r \in rows : RowGood(r)') /\ (\A m \in complete : Done(m)')
  BY RowStays, DoneStays DEF JInv
<1>2. CASE \E m \in 0..clock : Generate(w, m)
  BY <1>1, <1>2, RunStarted DEF Generate
<1>3. CASE Take(w)
  BY <1>1, <1>3, SubjectTaken DEF Take, DeskOnly
<1>4. CASE ReadOpening(w)
  BY <1>1, <1>4, OpeningRead DEF ReadOpening, DeskOnly
<1>5. CASE ReadLines(w)
  BY <1>1, <1>5, LinesRead DEF ReadLines, DeskOnly
<1>6. CASE CheckActivity(w)
  BY <1>1, <1>6, ActivityChecked DEF CheckActivity, DeskOnly
<1>7. CASE Value(w)
  BY <1>1, <1>7, ValueRead DEF Value, DeskOnly
<1>8. CASE SaveFile(w)
  BY <1>1, <1>8, FileSaved DEF SaveFile
<1>9. CASE InsertRow(w)
  BY <1>1, <1>9, RowInserted DEF InsertRow
<1>10. CASE DeleteFile(w)
  BY <1>1, <1>10, FileDeleted DEF DeleteFile
<1>11. CASE Fails(w)
  BY <1>1, <1>11, RunFailed DEF Fails
<1>12. CASE KillDesk(w) \/ EndGenerate(w)
  BY <1>1, <1>12, RunOver DEF KillDesk, EndGenerate
<1> QED BY <1>2, <1>3, <1>4, <1>5, <1>6, <1>7, <1>8, <1>9, <1>10, <1>11, <1>12 DEF DeskStep

LEMMA JobsKept == JInv /\ [Next]_vars => JInv'
<1> SUFFICES ASSUME JInv, [Next]_vars PROVE JInv'
  OBVIOUS
<1>1. Base'
  BY BaseKept DEF JInv
<1>2. CASE \E w \in Desks : DeskStep(w)
  <2>1. PICK w \in Desks : DeskStep(w)
    BY <1>2
  <2>2. DOMAIN desk' = Desks /\ \A v \in Desks : v # w => desk'[v] = desk[v]
    BY <2>1, OneDesk
  <2>3. PICK f : f = desk'[w]
    OBVIOUS
  <2>4. Good(f)' /\ (\A r \in rows' : RowGood(r)') /\ (\A m \in complete' : Done(m)')
    BY <2>1, <2>3, DeskKept
  <2>5. \A d \in {desk[v] : v \in Desks} : Good(d)'
    BY GoodStays DEF JInv
  <2>6. \A d \in {desk'[v] : v \in Desks} : Good(d)'
    BY <2>2, <2>3, <2>4, <2>5
  <2> QED BY <1>1, <2>2, <2>4, <2>6 DEF JInv
<1>3. CASE ~\E w \in Desks : DeskStep(w)
  <2>1. UNCHANGED <<desk, rows, complete>>
    BY <1>3 DEF Next, Stamp, Commit, RollBack, RejectOrder, Elapse, vars, statementVars
  <2>2. \A d \in {desk[v] : v \in Desks} : Good(d)'
    BY GoodStays DEF JInv
  <2>3. (\A r \in rows : RowGood(r)') /\ (\A m \in complete : Done(m)')
    BY RowStays, DoneStays DEF JInv
  <2> QED BY <1>1, <2>1, <2>2, <2>3 DEF JInv
<1> QED BY <1>2, <1>3

-----------------------------------------------------------------------------
(* The promises about statements.                                          *)

LEMMA SubjectsOf ==
  ASSUME NEW u \in Users
  PROVE  /\ [user |-> u, account |-> Brokerage] \in AllSubjects
         /\ \A a \in Spendable(u) : [user |-> u, account |-> a] \in AllSubjects /\ a # Brokerage
<1>1. \A a \in Spendable(u) \cup {Brokerage} : [user |-> u, account |-> a] \in Subjects(u)
  BY DEF Subjects
<1>2. Subjects(u) \subseteq AllSubjects
  BY DEF AllSubjects
<1>3. \A a \in Spendable(u) : a # Brokerage
  BY StatementsAssumption DEF Spendable
<1> QED BY <1>1, <1>2, <1>3

LEMMA OwnerOf ==
  ASSUME NEW s \in AllSubjects, s.account # Brokerage
  PROVE  s.user = Chart[s.account].owner
<1>1. PICK u \in Users : s \in Subjects(u)
  BY DEF AllSubjects
<1>2. PICK a \in Spendable(u) \cup {Brokerage} : s = [user |-> u, account |-> a]
  BY <1>1 DEF Subjects
<1>3. s.user = u /\ s.account \in Spendable(u)
  BY <1>2
<1> QED BY <1>3 DEF Spendable

LEMMA NoGap == JInv => RunLeavesNoGap
<1> SUFFICES ASSUME JInv, NEW m \in complete, NEW u \in Users
             PROVE  /\ \A a \in Spendable(u) :
                          Balance(a, StartAt(m)) # 0 \/ Lines(a, StartAt(m), EndAt(m)) # {}
                              => Stated(u, a, m)
                    /\ \A a \in Positions(u) :
                          Quantity(a, EndAt(m)) # 0 => Stated(u, Brokerage, m)
                    /\ \A o \in orders :
                          o.user = u /\ o.status = "filled"
                            /\ StartAt(m) <= o.resolved /\ o.resolved < EndAt(m)
                              => Stated(u, Brokerage, m)
                    /\ \A a \in Positions(u) :
                          Lines(a, StartAt(m), EndAt(m)) # {} /\ ~Stated(u, Brokerage, m)
                              => \E o \in orders :
                                    /\ o.user = u /\ StartAt(m) <= o.posted /\ o.posted < EndAt(m)
                                    /\ o.status = "rejected" \/ o.resolved >= EndAt(m)
  BY DEF RunLeavesNoGap
<1>1. (\A s \in AllSubjects : Settled(s, m)) /\ Base /\ m \in Nat
  BY DEF JInv, Done, Closed
<1>2. ASSUME NEW a, Exists([user |-> u, account |-> a], m) PROVE Stated(u, a, m)
  BY <1>2 DEF Exists, Same, Stated
<1>3. HasActivity(u, m) => Stated(u, Brokerage, m)
  BY <1>1, <1>2, SubjectsOf DEF Settled, Nothing
<1>4. ASSUME NEW a \in Spendable(u),
             Balance(a, StartAt(m)) # 0 \/ Lines(a, StartAt(m), EndAt(m)) # {}
      PROVE  Stated(u, a, m)
  BY <1>1, <1>2, <1>4, SubjectsOf DEF Settled, Nothing
<1>5. ASSUME NEW a \in Positions(u), Quantity(a, EndAt(m)) # 0
      PROVE  Stated(u, Brokerage, m)
  BY <1>3, <1>5 DEF HasActivity, Holdings
<1>6. ASSUME NEW o \in orders, o.user = u, o.status = "filled",
             StartAt(m) <= o.resolved, o.resolved < EndAt(m)
      PROVE  Stated(u, Brokerage, m)
  BY <1>3, <1>6 DEF HasActivity, Fills
<1>7. ASSUME NEW a \in Positions(u), NEW n \in Lines(a, StartAt(m), EndAt(m)),
             ~Stated(u, Brokerage, m)
      PROVE  \E o \in orders : /\ o.user = u /\ StartAt(m) <= o.posted /\ o.posted < EndAt(m)
                               /\ o.status = "rejected" \/ o.resolved >= EndAt(m)
  <2>1. /\ n \in DOMAIN book /\ book[n].account = a
        /\ StartAt(m) <= book[n].at /\ book[n].at < EndAt(m)
    BY <1>7 DEF Lines
  <2>2. PICK o \in orders : o.user = u /\ o.posted = book[n].at
    BY <1>1, <2>1 DEF Base, OrdersKnown, Ordered
  <2>3. /\ o.status \in {"filled", "rejected"} /\ o.posted \in Nat /\ o.resolved \in Nat
        /\ o.posted <= o.resolved /\ StartAt(m) \in Nat /\ EndAt(m) \in Nat
    BY <1>1, Bounds DEF Base, OrdersKnown, Order
  <2>4. o.status = "rejected" \/ o.resolved >= EndAt(m)
    <3>1. ASSUME o.status = "filled", o.resolved < EndAt(m) PROVE FALSE
      BY <1>6, <1>7, <2>1, <2>2, <2>3, <3>1
    <3> QED BY <2>3, <3>1
  <2> QED BY <2>1, <2>2, <2>4
<1> QED BY <1>4, <1>5, <1>6, <1>7

(* A month that some run went through without a failure has every          *)
(* statement it owes, whatever other runs did to it and failed at: one for *)
(* every account that held or moved money, one for every user who held an  *)
(* instrument at its end or had an order filled in it (generate_monthly,   *)
(* has_activity). Whoever's shares moved and who has none had an order     *)
(* overwritten as rejected, or resolved after the month.                   *)
THEOREM RunLeavesNoGapHolds == Spec => []RunLeavesNoGap
BY NoGap, JobsStart, JobsKept, PTL DEF Spec

LEMMA AllValued == JInv => BrokerageValued
<1> SUFFICES ASSUME JInv, NEW r \in rows, r.account = Brokerage
             PROVE  LET shares(a) == Quantity(a, 2 * r.month + 2)
                        held == {a \in Accounts : /\ Chart[a].owner = r.user /\ Chart[a].type = "asset"
                                                  /\ Chart[a].instrument # 0 /\ shares(a) # 0}
                        inside(a) == {t \in Of(quoted, Chart[a].instrument) : t.at < 2 * r.month + 2}
                        known(a) == inside(a) = {} \/ Newest(inside(a)).at >= r.generated - Retention
                        price(a) == IF inside(a) = {} THEN InitialPrice ELSE Newest(inside(a)).price
                    IN  (\A a \in held : known(a))
                           => r.closing = SumFunction([a \in held |-> price(a) * shares(a)])
  BY DEF BrokerageValued
<1> DEFINE shares(a) == Quantity(a, 2 * r.month + 2)
           held == {a \in Accounts : /\ Chart[a].owner = r.user /\ Chart[a].type = "asset"
                                     /\ Chart[a].instrument # 0 /\ shares(a) # 0}
           inside(a) == {t \in Of(quoted, Chart[a].instrument) : t.at < 2 * r.month + 2}
           known(a) == inside(a) = {} \/ Newest(inside(a)).at >= r.generated - Retention
           price(a) == IF inside(a) = {} THEN InitialPrice ELSE Newest(inside(a)).price
           H == Holdings(r.user, EndAt(r.month))
<1>1. held = H
  BY DEF Holdings, Positions, EndAt
<1>2. \A a : /\ inside(a) = Inside(Chart[a].instrument, r.month)
             /\ shares(a) = Quantity(a, EndAt(r.month))
  BY DEF Inside, EndAt
<1>3. \A a : /\ price(a) = PriceIn(Chart[a].instrument, r.month)
             /\ known(a) = Kept(Chart[a].instrument, r.month, r.generated)
  BY <1>2 DEF PriceIn, Kept
<1>4. Valued(r.user, r.month, r.closing, r.generated)
  BY DEF JInv, RowGood
<1>5. (\A a \in H : Kept(Chart[a].instrument, r.month, r.generated))
        => r.closing = SumFunction([a \in H |->
              PriceIn(Chart[a].instrument, r.month) * Quantity(a, EndAt(r.month))])
  BY <1>4 DEF Valued, Worth
<1> HIDE DEF shares, held, inside, known, price, H
<1>6. [a \in H |-> PriceIn(Chart[a].instrument, r.month) * Quantity(a, EndAt(r.month))]
        = [a \in held |-> price(a) * shares(a)]
  BY <1>1, <1>2, <1>3
<1>7. (\A a \in held : known(a)) => r.closing = SumFunction([a \in held |-> price(a) * shares(a)])
  BY <1>1, <1>3, <1>5, <1>6
<1> QED BY <1>7 DEF shares, held, inside, known, price

(* However late a brokerage statement is generated, it values every        *)
(* position at the last price inside its month, as long as that tick was   *)
(* younger than the retention of the purge (period_end_prices).            *)
THEOREM BrokerageValuedHolds == Spec => []BrokerageValued
BY AllValued, JobsStart, JobsKept, PTL DEF Spec

-----------------------------------------------------------------------------
(* The archive. A step of the service is one of the archive, or none.      *)

Issued == {[account |-> r.account, month |-> r.month, opening |-> r.opening,
            closing |-> r.closing] : r \in Cash(rows)}

LEMMA BeforeIs ==
  ASSUME Base, NEW a, NEW k \in Nat
  PROVE  archive!Before(a, k) = Balance(a, k)
<1> DEFINE old == {n \in DOMAIN book : book[n].account = a /\ book[n].at < k}
<1>1. \A n \in DOMAIN book : book[n].at \in Nat
  <2>1. book \in Seq(LineRow)
    BY DEF Base, BookKnown
  <2>2. \A n \in DOMAIN book : book[n] \in LineRow
    BY <2>1
  <2> QED BY <2>2 DEF LineRow
<1>2. old = Lines(a, 0, k)
  BY <1>1 DEF Lines
<1>3. archive!Before(a, k) = SumFunction([n \in old |-> book[n].amount])
  BY DEF archive!Before, archive!SumFunction, archive!SumFunctionOnSet, archive!FoldFunctionOnSet,
         archive!MapThenFoldSet, SumFunction, SumFunctionOnSet, FoldFunctionOnSet, MapThenFoldSet
<1> QED BY <1>2, <1>3 DEF Balance, Amounts

LEMMA SameLines ==
  ASSUME NEW S, NEW s \in Seq(S), NEW t \in Seq(S), Len(s) = Len(t),
         \A n \in 1..Len(s) : s[n] = t[n]
  PROVE  s = t
OBVIOUS

(* A committed posting: its lines are younger than every month stated.     *)
LEMMA PostIsPost ==
  ASSUME JInv, [Next]_vars, UNCHANGED rows, book' # book
  PROVE  archive!Post
<1>1. /\ book \in Seq(LineRow) /\ book' \in Seq(LineRow) /\ Len(book) <= Len(book')
      /\ \A n \in 1..Len(book) : book'[n] = book[n]
      /\ \E p \in inflight : \A n \in Len(book) + 1..Len(book') : book'[n].at = p.at
  BY BookGrows DEF JInv, Base, BookKnown
<1>2. Len(book) \in Nat /\ Len(book') \in Nat /\ DOMAIN book = 1..Len(book) /\ DOMAIN book' = 1..Len(book')
  BY <1>1
<1>3. Len(book') > Len(book)
  <2>1. Len(book') # Len(book)
    BY <1>1, SameLines
  <2>2. Len(book) <= Len(book')
    BY <1>1
  <2>3. Len(book) \in Nat /\ Len(book') \in Nat
    BY <1>2
  <2>4. \A i, j \in Nat : i <= j /\ j # i => j > i
    OBVIOUS
  <2> QED BY <2>1, <2>2, <2>3, <2>4
<1>4. SubSeq(book', 1, Len(book)) = book
  <2> DEFINE kept == SubSeq(book', 1, Len(book))
  <2>1. kept \in Seq(LineRow) /\ Len(kept) = Len(book) /\ \A n \in 1..Len(kept) : kept[n] = book'[n]
    <3>1. PICK s \in Seq(LineRow) : s = book'
      BY <1>1
    <3>2. PICK k \in Nat : k = Len(book) /\ k <= Len(s)
      BY <1>1, <1>2, <3>1
    <3>3. \A i \in 1..k : s[i] \in LineRow
      BY <3>2
    <3>4. SubSeq(s, 1, k) = [i \in 1..k |-> s[i]]
      BY <3>2
    <3> QED BY <3>1, <3>2, <3>3, <3>4
  <2> HIDE DEF kept
  <2>2. kept = book
    BY <1>1, <2>1, SameLines
  <2> QED BY <2>2 DEF kept
<1>5. \A n \in Len(book) + 1..Len(book') : \A s \in Issued : book'[n].at >= archive!Until(s.month)
  <2> SUFFICES ASSUME NEW n \in Len(book) + 1..Len(book'), NEW r \in rows
               PROVE  book'[n].at >= archive!Until(r.month)
    BY DEF Issued, Cash
  <2>1. PICK p \in inflight : book'[n].at = p.at
    BY <1>1
  <2>2. p.at >= EndAt(r.month)
    BY DEF JInv, RowGood, Closed
  <2> QED BY <2>1, <2>2 DEF archive!Until, EndAt
<1>6. Issued' = Issued
  BY DEF Issued, Cash
<1> QED BY <1>3, <1>4, <1>5, <1>6 DEF archive!Post, Issued

(* A row of an account that has one for the month is not inserted.         *)
LEMMA InsertIsIssue ==
  ASSUME JInv, NEW w \in Desks, InsertRow(w), Issued' # Issued
  PROVE  archive!Issue
<1> PICK d : d = desk[w]
  OBVIOUS
<1>1. Base /\ d.step = "row" /\ Works(d) /\ d.month \in Nat
  BY DeskGood DEF InsertRow
<1> DEFINE new == [user |-> d.user, account |-> d.account, month |-> d.month, file |-> d.file,
                   opening |-> d.opening, closing |-> d.closing, count |-> d.count,
                   generated |-> clock]
           s == [account |-> d.account, month |-> d.month, opening |-> d.opening,
                 closing |-> d.closing]
<1>2. ~Exists(d, d.month) /\ rows' = rows \cup {new} /\ book' = book
  <2>1. rows' # rows
    BY DEF Issued, Cash
  <2> QED BY <2>1 DEF InsertRow
<1>3. d.account # Brokerage
  <2>1. d.account = Brokerage => Cash(rows') = Cash(rows)
    BY <1>2 DEF Cash
  <2> QED BY <2>1 DEF Issued, Cash
<1>4. Issued' = Issued \cup {s}
  <2>1. Cash(rows') = Cash(rows) \cup {new}
    BY <1>2, <1>3 DEF Cash
  <2> QED BY <2>1 DEF Issued, Cash
<1>5. BalancesRead(d)
  BY <1>1, <1>3 DEF Works, Reads
<1>6. s \notin Issued /\ s \in Issued'
  BY <1>4
<1>7. ~archive!Stated(d.account, d.month)
  <2> SUFFICES ASSUME NEW r \in rows, r.account = d.account, r.month = d.month PROVE FALSE
    BY DEF archive!Stated, Issued, Cash
  <2>1. SubjectOf(r) \in AllSubjects /\ SubjectOf(d) \in AllSubjects
    BY <1>1 DEF JInv, RowGood, Works
  <2>2. r.user = Chart[r.account].owner /\ d.user = Chart[d.account].owner
    BY <1>3, <2>1, OwnerOf DEF SubjectOf
  <2> QED BY <1>2, <2>2 DEF Exists, Same
<1>8. /\ s.opening = archive!Before(s.account, archive!Begin(s.month))
      /\ s.closing = archive!Before(s.account, archive!Until(s.month))
  <2>1. StartAt(d.month) \in Nat /\ EndAt(d.month) \in Nat
    BY <1>1, Bounds
  <2>2. archive!Begin(d.month) = StartAt(d.month) /\ archive!Until(d.month) = EndAt(d.month)
    BY DEF archive!Begin, archive!Until, StartAt, EndAt
  <2>3. /\ archive!Before(d.account, StartAt(d.month)) = Balance(d.account, StartAt(d.month))
        /\ archive!Before(d.account, EndAt(d.month)) = Balance(d.account, EndAt(d.month))
    BY <1>1, <2>1, BeforeIs
  <2> QED BY <1>5, <2>2, <2>3 DEF BalancesRead
<1> QED BY <1>2, <1>4, <1>6, <1>7, <1>8 DEF archive!Issue, Issued

LEMMA StepIsStep ==
  ASSUME JInv, [Next]_vars
  PROVE  [archive!Post \/ archive!Issue]_(archive!archiveVars)
<1>1. CASE \E w \in Desks : InsertRow(w)
  <2>1. PICK w \in Desks : InsertRow(w)
    BY <1>1
  <2>2. CASE Issued' # Issued
    BY <2>1, <2>2, InsertIsIssue
  <2>3. CASE Issued' = Issued
    BY <2>1, <2>3 DEF InsertRow, archive!archiveVars, Issued
  <2> QED BY <2>2, <2>3
<1>2. CASE ~\E w \in Desks : InsertRow(w)
  <2>1. rows' = rows
    BY <1>2 DEF Next, MarketNext, StartRun, CreateTick, SaveTick, EndRun, HitSoftLimit, KillTicker,
       LockExpires, PurgeTicks, Stamp, Commit, RollBack, RejectOrder, Elapse, DeskStep, Generate, Take,
       ReadOpening, ReadLines, CheckActivity, Value, SaveFile, DeleteFile, Fails, KillDesk,
       EndGenerate, DeskOnly, vars, statementVars
  <2>2. CASE book' # book
    BY <2>1, <2>2, PostIsPost
  <2>3. CASE book' = book
    BY <2>1, <2>3 DEF archive!archiveVars, Cash
  <2> QED BY <2>2, <2>3
<1> QED BY <1>1, <1>2

(* The service implements the archive: with any number of runs, kills and  *)
(* failures, for any accounts and postings, a month is stated once, with   *)
(* the balances before and after all of its lines, and no line joins a     *)
(* month that was stated.                                                  *)
THEOREM ArchiveImplemented == Spec => ImplementsArchive
<1>1. Init => archive!Init
  BY DEF Init, archive!Init, Cash
<1> QED BY <1>1, JobsStart, JobsKept, StepIsStep, PTL DEF Spec, ImplementsArchive, archive!Spec

-----------------------------------------------------------------------------
(* Files and rows. A run between the two holds a file that no row and no   *)
(* other run names.                                                        *)
Owes(d) == d.step \in {"row", "delete"}
Names(f, d) == Same(f, d, d.month) /\ f.name = d.file

Named(F) == \E top \in Nat : \A f \in F : f.name \in 0..top
Apart(F) == \A f, g \in F : Same(f, g, g.month) /\ f.name = g.name => f = g
Printed(r, F) ==
    \E f \in F : /\ Names(f, r)
                 /\ f.opening = r.opening /\ f.closing = r.closing /\ f.count = r.count
Holds(d, F, R) ==
    Owes(d) => /\ Document(d, d.file) \in F
               /\ \A r \in R : Same(r, d, d.month) => r.file # d.file
Rivals(D) ==
    \A v, w \in Desks : v # w /\ Owes(D[v]) /\ Owes(D[w]) /\ Same(D[v], D[w], D[w].month)
                            => D[v].file # D[w].file
Owned(f, R, D, S) ==
    \/ f \in S
    \/ \E r \in R : Same(r, f, f.month) /\ r.file = f.name
    \/ \E w \in Desks : Owes(D[w]) /\ Names(f, D[w])

Matching(F, R, D, S) ==
    /\ Named(F) /\ Apart(F) /\ Rivals(D)
    /\ \A r \in R : Printed(r, F)
    /\ \A w \in Desks : Holds(D[w], F, R)
    /\ \A f \in F : Owned(f, R, D, S)

FilesInv == Matching(files, rows, desk, strays)

(* The storage's name is new (Storage.get_available_name).                 *)
LEMMA MaxOf ==
  ASSUME NEW top \in Nat, NEW T \in SUBSET (0..top), T # {}
  PROVE  Max(T) \in T /\ \A n \in T : n <= Max(T)
<1> DEFINE above == {n \in Nat : \A t \in T : t <= n}
<1>1. above # {} /\ above \in SUBSET Nat
  BY DEF above
<1>2. PICK m \in above : \A n \in above : m <= n
  BY <1>1, LeastOf
<1>3. m \in Nat /\ \A t \in T : t <= m
  BY <1>2
<1>4. m \in T
  <2> SUFFICES ASSUME m \notin T PROVE FALSE
    OBVIOUS
  <2>1. PICK t \in T : TRUE
    OBVIOUS
  <2>2. \A s \in T : s \in Nat /\ s <= m - 1
    BY <1>3
  <2>3. m - 1 \in Nat
    BY <1>3, <2>1, <2>2
  <2>4. m - 1 \in above
    BY <2>2, <2>3
  <2> QED BY <1>2, <1>3, <2>4
<1>5. \E x \in T : \A y \in T : x >= y
  BY <1>3, <1>4
<1>6. Max(T) \in T /\ \A y \in T : Max(T) >= y
  BY <1>5 DEF Max
<1> QED BY <1>6

LEMMA NameIsFree ==
  ASSUME Named(files), NEW s, NEW m, NEW name, name = FreeName(s, m)
  PROVE  name \in Nat /\ \A f \in files : Same(f, s, m) => f.name # name
<1> DEFINE taken == {f.name : f \in {g \in files : Same(g, s, m)}}
<1>1. PICK top \in Nat : \A f \in files : f.name \in 0..top
  BY DEF Named
<1>2. taken \in SUBSET (0..top)
  BY <1>1
<1>3. \A f \in files : Same(f, s, m) => f.name \in taken
  OBVIOUS
<1>4. name = IF 0 \notin taken THEN 0 ELSE Max(taken) + 1
  BY DEF FreeName
<1> HIDE DEF taken
<1>5. CASE 0 \notin taken
  BY <1>3, <1>4, <1>5
<1>6. CASE 0 \in taken
  <2>1. Max(taken) \in taken /\ \A n \in taken : n <= Max(taken)
    <3>1. taken # {}
      BY <1>6
    <3> QED BY <1>1, <1>2, <3>1, MaxOf
  <2>2. Max(taken) \in Nat
    <3>1. Max(taken) \in 0..top
      BY <1>2, <2>1
    <3> QED BY <1>1, <3>1
  <2>3. \A n \in taken : n # Max(taken) + 1
    BY <1>2, <2>1, <2>2
  <2> QED BY <1>3, <1>4, <1>6, <2>2, <2>3
<1> QED BY <1>5, <1>6

(* A step that gives up what its run held.                                 *)
LEMMA Released ==
  ASSUME NEW F, NEW R, NEW D, NEW S, Matching(F, R, D, S),
         NEW w \in Desks, NEW E, \A v \in Desks : v # w => E[v] = D[v], ~Owes(E[w]),
         NEW T, S \subseteq T, Owes(D[w]) => \A f \in F : Names(f, D[w]) => f \in T
  PROVE  Matching(F, R, E, T)
<1>1. Rivals(E)
  BY DEF Matching, Rivals
<1>2. \A v \in Desks : Holds(E[v], F, R)
  BY DEF Matching, Holds
<1>3. ASSUME NEW f \in F PROVE Owned(f, R, E, T)
  <2>1. Owned(f, R, D, S)
    BY DEF Matching
  <2> QED BY <2>1 DEF Owned
<1> QED BY <1>1, <1>2, <1>3 DEF Matching

(* FileField.save, under a name that nothing has.                          *)
LEMMA DocumentNames ==
  ASSUME NEW d, NEW n
  PROVE  LET f == Document(d, n)
         IN  f.user = d.user /\ f.account = d.account /\ f.month = d.month /\ f.name = n
             /\ f.opening = d.opening /\ f.closing = d.closing /\ f.count = d.count
BY DEF Document

LEMMA Saved ==
  ASSUME NEW F, NEW R, NEW D, NEW S, Matching(F, R, D, S),
         NEW w \in Desks, NEW E, \A v \in Desks : v # w => E[v] = D[v],
         ~Owes(D[w]), Owes(E[w]), E[w].file \in Nat,
         \A f \in F : Same(f, E[w], E[w].month) => f.name # E[w].file
  PROVE  Matching(F \cup {Document(E[w], E[w].file)}, R, E, S)
<1> PICK e : e = E[w]
  OBVIOUS
<1> PICK new : new = Document(e, e.file)
  OBVIOUS
<1> DEFINE G == F \cup {new}
<1>1. /\ new.user = e.user /\ new.account = e.account /\ new.month = e.month /\ new.name = e.file
      /\ Names(new, e)
  BY DocumentNames DEF Names, Same
<1>2. Named(G)
  <2>1. PICK top \in Nat : \A f \in F : f.name \in 0..top
    BY DEF Matching, Named
  <2>2. top + e.file \in Nat /\ \A f \in G : f.name \in 0..(top + e.file)
    BY <1>1, <2>1
  <2> QED BY <2>2 DEF Named
<1>3. Apart(G)
  BY <1>1 DEF Matching, Apart, Same
<1>4. \A r \in R : Printed(r, G)
  BY DEF Matching, Printed
<1>5. Rivals(E)
  <2> SUFFICES ASSUME NEW u \in Desks, NEW v \in Desks, u # v, Owes(E[u]), Owes(E[v]),
                      Same(E[u], E[v], E[v].month), E[u].file = E[v].file
               PROVE  FALSE
    BY DEF Rivals
  <2>1. ASSUME NEW x \in Desks, x # w, Owes(E[x]), Same(E[x], e, e.month), E[x].file = e.file
        PROVE  FALSE
    <3> PICK g : g = Document(E[x], E[x].file)
      OBVIOUS
    <3>1. g \in F
      BY <2>1 DEF Matching, Holds
    <3>2. Same(g, e, e.month) /\ g.name = e.file
      BY <2>1, DocumentNames DEF Same
    <3> QED BY <3>1, <3>2
  <2>2. u # w /\ v # w
    BY <2>1 DEF Same
  <2> QED BY <2>2 DEF Matching, Rivals
<1>6. ASSUME NEW v \in Desks PROVE Holds(E[v], G, R)
  <2>1. CASE v = w
    <3>1. ASSUME NEW r \in R, Same(r, e, e.month), r.file = e.file PROVE FALSE
      <4>1. PICK f \in F : Names(f, r)
        BY DEF Matching, Printed
      <4> QED BY <3>1, <4>1 DEF Names, Same
    <3> QED BY <2>1, <3>1 DEF Holds
  <2>2. CASE v # w
    <3>1. Holds(D[v], F, R) /\ E[v] = D[v]
      BY <2>2 DEF Matching
    <3> QED BY <3>1 DEF Holds
  <2> QED BY <2>1, <2>2
<1>7. ASSUME NEW f \in G PROVE Owned(f, R, E, S)
  <2>1. CASE f = new
    BY <1>1, <2>1 DEF Owned
  <2>2. CASE f \in F
    <3>1. Owned(f, R, D, S)
      BY <2>2 DEF Matching
    <3> QED BY <3>1 DEF Owned
  <2> QED BY <2>1, <2>2
<1> QED BY <1>2, <1>3, <1>4, <1>5, <1>6, <1>7 DEF Matching

(* The row, with the file of the run (Statement.objects.create).           *)
LEMMA Inserted ==
  ASSUME NEW F, NEW R, NEW D, NEW S, Matching(F, R, D, S),
         NEW w \in Desks, NEW E, \A v \in Desks : v # w => E[v] = D[v],
         Owes(D[w]), ~Owes(E[w]), NEW new, Same(new, D[w], D[w].month), new.file = D[w].file,
         new.opening = D[w].opening, new.closing = D[w].closing, new.count = D[w].count
  PROVE  Matching(F, R \cup {new}, E, S)
<1> PICK d : d = D[w]
  OBVIOUS
<1>1. Printed(new, F)
  <2> PICK f : f = Document(d, d.file)
    OBVIOUS
  <2>1. f \in F
    BY DEF Matching, Holds
  <2>2. Names(f, new) /\ f.opening = d.opening /\ f.closing = d.closing /\ f.count = d.count
    BY DocumentNames DEF Names, Same
  <2> QED BY <2>1, <2>2 DEF Printed
<1>2. Rivals(E)
  BY DEF Matching, Rivals
<1>3. ASSUME NEW v \in Desks PROVE Holds(E[v], F, R \cup {new})
  <2> SUFFICES ASSUME Owes(E[v]) PROVE Holds(E[v], F, R \cup {new})
    BY DEF Holds
  <2>1. v # w /\ E[v] = D[v] /\ Holds(D[v], F, R)
    BY DEF Matching
  <2>2. Same(new, D[v], D[v].month) => new.file # D[v].file
    <3> SUFFICES ASSUME Same(new, D[v], D[v].month) PROVE d.file # D[v].file
      OBVIOUS
    <3>1. Same(D[w], D[v], D[v].month)
      BY DEF Same
    <3> QED BY <2>1, <3>1 DEF Matching, Rivals
  <2> QED BY <2>1, <2>2 DEF Holds
<1>4. ASSUME NEW f \in F PROVE Owned(f, R \cup {new}, E, S)
  <2>1. CASE Names(f, d)
    <3>1. Same(new, f, f.month) /\ new.file = f.name
      BY <2>1 DEF Names, Same
    <3> QED BY <3>1 DEF Owned
  <2>2. CASE ~Names(f, d)
    <3>1. Owned(f, R, D, S)
      BY DEF Matching
    <3> QED BY <2>2, <3>1 DEF Owned
  <2> QED BY <2>1, <2>2
<1> QED BY <1>1, <1>2, <1>3, <1>4 DEF Matching

(* IntegrityError: another run's row, and its file, are not this one's.    *)
LEMMA Refused ==
  ASSUME NEW F, NEW R, NEW D, NEW S, Matching(F, R, D, S),
         NEW w \in Desks, NEW E, \A v \in Desks : v # w => E[v] = D[v],
         Owes(D[w]), Owes(E[w]), Same(E[w], D[w], D[w].month), E[w].file = D[w].file,
         Document(E[w], E[w].file) = Document(D[w], D[w].file)
  PROVE  Matching(F, R, E, S)
<1>1. Rivals(E)
  BY DEF Matching, Rivals, Same
<1>2. ASSUME NEW v \in Desks PROVE Holds(E[v], F, R)
  <2>1. Holds(D[v], F, R)
    BY DEF Matching
  <2>2. CASE v = w
    BY <2>1, <2>2 DEF Holds, Same
  <2> QED BY <2>1, <2>2
<1>3. ASSUME NEW f \in F PROVE Owned(f, R, E, S)
  <2>1. Owned(f, R, D, S)
    BY DEF Matching
  <2>2. Names(f, D[w]) => Names(f, E[w])
    BY DEF Names, Same
  <2> QED BY <2>1, <2>2 DEF Owned
<1> QED BY <1>1, <1>2, <1>3 DEF Matching

LEMMA Deleted ==
  ASSUME NEW F, NEW R, NEW D, NEW S, Matching(F, R, D, S),
         NEW w \in Desks, NEW E, \A v \in Desks : v # w => E[v] = D[v],
         Owes(D[w]), ~Owes(E[w])
  PROVE  Matching({f \in F : ~Names(f, D[w])}, R, E, S)
<1> PICK d : d = D[w]
  OBVIOUS
<1> DEFINE G == {f \in F : ~Names(f, d)}
<1>1. Named(G) /\ Apart(G)
  BY DEF Matching, Named, Apart
<1>2. Rivals(E)
  BY DEF Matching, Rivals
<1>3. ASSUME NEW r \in R PROVE Printed(r, G)
  <2>1. PICK f \in F : /\ Names(f, r)
                       /\ f.opening = r.opening /\ f.closing = r.closing /\ f.count = r.count
    BY DEF Matching, Printed
  <2>2. ~Names(f, d)
    <3> SUFFICES ASSUME Names(f, d) PROVE FALSE
      OBVIOUS
    <3>1. Same(r, d, d.month) /\ r.file = d.file
      BY <2>1 DEF Names, Same
    <3> QED BY <3>1 DEF Matching, Holds
  <2> QED BY <2>1, <2>2 DEF Printed
<1>4. ASSUME NEW v \in Desks PROVE Holds(E[v], G, R)
  <2> SUFFICES ASSUME Owes(E[v]) PROVE Holds(E[v], G, R)
    BY DEF Holds
  <2>1. v # w /\ E[v] = D[v] /\ Holds(D[v], F, R)
    BY DEF Matching
  <2> PICK g : g = Document(D[v], D[v].file)
    OBVIOUS
  <2>2. ~Names(g, d)
    <3> SUFFICES ASSUME Names(g, d) PROVE FALSE
      OBVIOUS
    <3>1. Same(D[v], d, d.month) /\ D[v].file = d.file
      BY DocumentNames DEF Names, Same
    <3> QED BY <2>1, <3>1 DEF Matching, Rivals
  <2> QED BY <2>1, <2>2 DEF Holds
<1>5. ASSUME NEW f \in G PROVE Owned(f, R, E, S)
  <2>1. Owned(f, R, D, S)
    BY DEF Matching
  <2> QED BY <2>1 DEF Owned
<1> QED BY <1>1, <1>2, <1>3, <1>4, <1>5 DEF Matching

LEMMA StepsOwingNothing ==
  ASSUME JInv, [Next]_vars, NEW w \in Desks, DeskStep(w), NEW f, f = desk'[w],
         ~(SaveFile(w) \/ InsertRow(w) \/ DeleteFile(w) \/ Fails(w) \/ KillDesk(w))
  PROVE  ~Owes(f)
<1> PICK d : d = desk[w]
  OBVIOUS
<1>1. Shaped(d) /\ DOMAIN desk = Desks
  BY DeskGood DEF JInv
<1>2. CASE \E m \in 0..clock : Generate(w, m)
  <2>1. PICK m \in 0..clock : Generate(w, m)
    BY <1>2
  <2>2. PICK g : g = Idle
    OBVIOUS
  <2>3. f = [[[g EXCEPT !.step = "next"] EXCEPT !.month = m] EXCEPT !.todo = AllSubjects]
    BY <1>1, <2>1, <2>2 DEF Generate
  <2> QED BY <2>2, <2>3, IdleShaped DEF Shaped, Owes
<1>3. CASE Take(w)
  <2> DEFINE s == First(d.todo)
             step == IF Exists(s, d.month) THEN "next"
                     ELSE IF s.account = Brokerage THEN "activity" ELSE "opening"
             others == d.todo \ {s}
  <2>1. f = [[[[d EXCEPT !.todo = others] EXCEPT !.user = s.user]
                EXCEPT !.account = s.account] EXCEPT !.step = step]
    BY <1>1, <1>3 DEF Take
  <2>2. step \notin {"row", "delete"}
    OBVIOUS
  <2> HIDE DEF s, step, others
  <2> QED BY <1>1, <2>1, <2>2 DEF Shaped, Owes
<1>4. CASE ReadOpening(w)
  <2> DEFINE opening == Balance(d.account, StartAt(d.month))
  <2>1. f = [[d EXCEPT !.opening = opening] EXCEPT !.step = "lines"]
    BY <1>1, <1>4 DEF ReadOpening
  <2> HIDE DEF opening
  <2> QED BY <1>1, <2>1 DEF Shaped, Owes
<1>5. CASE ReadLines(w)
  BY <1>1, <1>5 DEF ReadLines, Shaped, Owes
<1>6. CASE CheckActivity(w)
  BY <1>1, <1>6 DEF CheckActivity, Go, Shaped, Owes
<1>7. CASE Value(w)
  <2> DEFINE basis == CostBasis(d.user, d.month)
             worth == MarketValue(d.user, d.month)
             fills == Cardinality(Fills(d.user, d.month))
  <2>1. f = [[[[d EXCEPT !.opening = basis] EXCEPT !.closing = worth] EXCEPT !.count = fills]
               EXCEPT !.step = "file"]
    BY <1>1, <1>7 DEF Value
  <2> HIDE DEF basis, worth, fills
  <2> QED BY <1>1, <2>1 DEF Shaped, Owes
<1>8. CASE EndGenerate(w)
  BY <1>1, <1>8, IdleShaped DEF EndGenerate, Owes
<1> QED BY <1>2, <1>3, <1>4, <1>5, <1>6, <1>7, <1>8 DEF DeskStep

LEMMA FilesKept == JInv /\ FilesInv /\ [Next]_vars => FilesInv'
<1> SUFFICES ASSUME JInv, FilesInv, [Next]_vars PROVE FilesInv'
  OBVIOUS
<1>1. ASSUME NEW w \in Desks, DeskStep(w) PROVE FilesInv'
  <2> PICK d : d = desk[w]
    OBVIOUS
  <2> PICK f : f = desk'[w]
    OBVIOUS
  <2>1. \A v \in Desks : v # w => desk'[v] = desk[v]
    BY <1>1, OneDesk
  <2>2. Matching(files, rows, desk, strays)
    BY DEF FilesInv
  <2>3. Shaped(d) /\ Named(files) /\ DOMAIN desk = Desks
    BY <2>2, DeskGood DEF Matching, JInv
  <2>4. CASE SaveFile(w)
    <3> DEFINE name == FreeName(d, d.month)
               e == [[d EXCEPT !.file = name] EXCEPT !.step = "row"]
    <3>1. f = e /\ d.step = "file"
      BY <2>3, <2>4 DEF SaveFile
    <3>2. name \in Nat /\ \A g \in files : Same(g, d, d.month) => g.name # name
      <4> HIDE DEF name
      <4> QED BY <2>3, NameIsFree DEF name
    <3> HIDE DEF name
    <3>3. /\ f.step = "row" /\ f.month = d.month /\ f.user = d.user /\ f.account = d.account
          /\ f.opening = d.opening /\ f.closing = d.closing /\ f.count = d.count /\ f.file = name
      BY <2>3, <3>1 DEF Shaped
    <3>4. Document(f, f.file) = Document(d, name)
      BY <3>3 DEF Document
    <3>5. files' = files \cup {Document(f, f.file)} /\ UNCHANGED <<rows, strays>>
      <4>1. {g \in files : ~(Same(g, d, d.month) /\ g.name = name)} = files
        BY <3>2
      <4> QED BY <2>4, <3>4, <4>1 DEF SaveFile, name
    <3>6. ~Owes(d) /\ Owes(f) /\ \A g \in files : Same(g, f, f.month) => g.name # f.file
      BY <3>1, <3>2, <3>3 DEF Owes, Same
    <3>7. Matching(files \cup {Document(f, f.file)}, rows, desk', strays)
      BY <2>1, <2>2, <3>2, <3>3, <3>6, Saved
    <3> QED BY <3>5, <3>7 DEF FilesInv
  <2>5. CASE InsertRow(w)
    <3>1. d.step = "row" /\ UNCHANGED <<files, strays>> /\ Owes(d)
      BY <2>5 DEF InsertRow, Owes
    <3>2. CASE ~Exists(d, d.month)
      <4> DEFINE new == [user |-> d.user, account |-> d.account, month |-> d.month, file |-> d.file,
                         opening |-> d.opening, closing |-> d.closing, count |-> d.count,
                         generated |-> clock]
      <4>1. rows' = rows \cup {new} /\ f = [d EXCEPT !.step = "next"]
        BY <2>3, <2>5, <3>2 DEF InsertRow, Go
      <4>2. ~Owes(f)
        BY <2>3, <4>1 DEF Shaped, Owes
      <4>3. /\ Same(new, d, d.month) /\ new.file = d.file /\ new.opening = d.opening
            /\ new.closing = d.closing /\ new.count = d.count
        BY DEF Same
      <4> HIDE DEF new
      <4>4. Matching(files, rows \cup {new}, desk', strays)
        BY <2>1, <2>2, <3>1, <4>2, <4>3, Inserted
      <4> QED BY <3>1, <4>1, <4>4 DEF FilesInv
    <3>3. CASE Exists(d, d.month)
      <4>1. rows' = rows /\ f = [d EXCEPT !.step = "delete"]
        BY <2>3, <2>5, <3>3 DEF InsertRow, Go
      <4>2. /\ f.step = "delete" /\ f.month = d.month /\ f.user = d.user /\ f.account = d.account
            /\ f.opening = d.opening /\ f.closing = d.closing /\ f.count = d.count /\ f.file = d.file
        BY <2>3, <4>1 DEF Shaped
      <4>3. Owes(f) /\ Same(f, d, d.month) /\ Document(f, f.file) = Document(d, d.file)
        BY <4>2 DEF Owes, Same, Document
      <4>4. Matching(files, rows, desk', strays)
        BY <2>1, <2>2, <3>1, <4>2, <4>3, Refused
      <4> QED BY <3>1, <4>1, <4>4 DEF FilesInv
    <3> QED BY <3>2, <3>3
  <2>6. CASE DeleteFile(w)
    <3>1. /\ d.step = "delete" /\ UNCHANGED <<rows, strays>> /\ Owes(d)
          /\ f = [d EXCEPT !.step = "next"] /\ files' = files \ FileOf(d)
      BY <2>3, <2>6 DEF DeleteFile, Owes, Go
    <3>2. ~Owes(f)
      BY <2>3, <3>1 DEF Shaped, Owes
    <3>3. files' = {g \in files : ~Names(g, d)}
      BY <3>1 DEF FileOf, Names
    <3>4. Owes(desk[w]) /\ ~Owes(desk'[w])
      BY <3>1, <3>2
    <3>5. Matching({g \in files : ~Names(g, desk[w])}, rows, desk', strays)
      BY <2>1, <2>2, <3>4, Deleted, Zenon
    <3> QED BY <3>1, <3>3, <3>5 DEF FilesInv
  <2>7. CASE Fails(w) \/ KillDesk(w)
    <3>1. UNCHANGED <<files, rows>> /\ strays' = strays \cup LeftBehind(d)
      BY <2>7 DEF Fails, KillDesk
    <3>2. ~Owes(f)
      <4>1. CASE KillDesk(w)
        BY <2>3, <4>1, IdleShaped DEF KillDesk, Owes
      <4>2. CASE Fails(w)
        <5>1. f = [[d EXCEPT !.step = "next"] EXCEPT !.ok = FALSE]
          BY <2>3, <4>2 DEF Fails
        <5> QED BY <2>3, <5>1 DEF Shaped, Owes
      <4> QED BY <2>7, <4>1, <4>2
    <3>3. Owes(d) => \A g \in files : Names(g, d) => g \in strays'
      BY <3>1 DEF Owes, LeftBehind, FileOf, Names
    <3>4. Matching(files, rows, desk', strays')
      BY <2>1, <2>2, <3>1, <3>2, <3>3, Released
    <3> QED BY <3>1, <3>4 DEF FilesInv
  <2>8. CASE ~(SaveFile(w) \/ InsertRow(w) \/ DeleteFile(w) \/ Fails(w) \/ KillDesk(w))
    <3>1. ~Owes(d) /\ UNCHANGED <<files, rows, strays>>
      BY <1>1, <2>8 DEF DeskStep, Generate, Take, ReadOpening, ReadLines, CheckActivity, Value,
                        EndGenerate, DeskOnly, Owes
    <3>2. ~Owes(f)
      BY <1>1, <2>3, <2>8, StepsOwingNothing
    <3>3. Matching(files, rows, desk', strays)
      BY <2>1, <2>2, <3>1, <3>2, Released
    <3> QED BY <3>1, <3>3 DEF FilesInv
  <2> QED BY <2>4, <2>5, <2>6, <2>7, <2>8
<1>2. CASE ~\E w \in Desks : DeskStep(w)
  <2>1. UNCHANGED <<files, rows, desk, strays>>
    BY <1>2 DEF Next, Stamp, Commit, RollBack, RejectOrder, Elapse, vars, statementVars
  <2> QED BY <2>1 DEF FilesInv
<1> QED BY <1>1, <1>2

LEMMA FilesMatch == FilesInv => FilesMatchRows
<1> SUFFICES ASSUME FilesInv PROVE FilesMatchRows
  OBVIOUS
<1>1. \A r \in rows : Printed(r, files)
  BY DEF FilesInv, Matching
<1>2. \A f \in files : Owned(f, rows, desk, strays)
  BY DEF FilesInv, Matching
<1> QED BY <1>1, <1>2 DEF FilesMatchRows, Printed, Owned, Owes, Names, FileOf

LEMMA FilesStart == Init => FilesInv
<1> SUFFICES ASSUME Init PROVE FilesInv
  OBVIOUS
<1>1. \A w \in Desks : ~Owes(desk[w])
  BY IdleShaped DEF Init, Owes
<1>2. files = {} /\ rows = {}
  BY DEF Init
<1>3. Named(files) /\ Apart(files)
  BY <1>2 DEF Named, Apart
<1> QED BY <1>1, <1>2, <1>3 DEF FilesInv, Matching, Rivals, Holds

(* "Write the file and the row, or neither" (_persist), for any number of  *)
(* runs and whatever is killed or fails: a row's file is there and prints  *)
(* its balances, and a file without a row is about to get one or to be     *)
(* deleted, unless a failure came between.                                 *)
THEOREM FilesMatchRowsHolds == Spec => []FilesMatchRows
BY FilesMatch, FilesStart, FilesKept, JobsStart, JobsKept, PTL DEF Spec
=============================================================================
