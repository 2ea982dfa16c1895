------------------------------- MODULE Market -------------------------------
(***************************************************************************)
(* The simulated market, backend/markets/tasks.py: workers that advance    *)
(* every active instrument under a mutex in the cache, and the weekly      *)
(* purge of old ticks.                                                     *)
(*                                                                         *)
(* The mutex expires by itself after five ticks (300 s), which is also the *)
(* soft time limit of a Celery task: a run that reaches it gets an         *)
(* exception, deletes the mutex on its way out, and is killed a minute     *)
(* later if it does not come out. So the mutex of a run that is dead or on *)
(* its way out may expire, and that of a run that works may not. The value *)
(* in the cache names no owner; `lock' remembers it only to say when it    *)
(* may expire.                                                             *)
(***************************************************************************)
EXTENDS Integers, FiniteSets, FiniteSetsExt

CONSTANTS
    Tickers,        \* workers that may run advance_prices
    NoTicker,       \* the mutex is free
    Instruments,    \* active instruments, in the order of their symbols
    Prices,         \* what a price source may answer, quantized and above the floor
    Retention,      \* PRICE_TICK_RETENTION_DAYS, in instants
    Loads           \* what happens, one of them in each behaviour

Budgets == {"runs", "limits", "kills", "purges", "postings", "refusals", "batches", "failures",
            "until"}

ASSUME MarketAssumption ==
    /\ NoTicker \notin Tickers
    /\ Instruments \subseteq Nat
    /\ Prices \subseteq Nat \ {0}
    /\ Retention \in Nat
ASSUME LoadsAssumption == \A l \in Loads : \A b \in Budgets : l[b] \in Nat

VARIABLES
    ticks,      \* PriceTick rows
    last,       \* last_price and last_tick_at of each instrument
    lock,       \* markets:advance_prices:lock
    tick,       \* the next statement of each ticker
    todo,       \* instruments its run has still to advance
    quote,      \* the tick it is saving
    quoted,     \* history: every tick that was committed
    stamps,     \* ticks created so far
    outlived,   \* history: a run outlived its mutex
    clock,      \* the current instant
    left        \* what is left of the load's budgets

tickers == <<lock, tick, todo, quote, stamps, outlived>>
marketVars == <<ticks, last, tickers, quoted, clock, left>>

NoTick == [instrument |-> 0, price |-> 0, at |-> 0, stamp |-> 0]
Newest(S) == CHOOSE t \in S : \A u \in S : u.stamp <= t.stamp
Of(S, i) == {t \in S : t.instrument = i}

Spend(budget) == left[budget] > 0 /\ left' = [left EXCEPT ![budget] = @ - 1]

MarketInit ==
    /\ left \in Loads
    /\ ticks = {} /\ quoted = {}
    /\ last = [i \in Instruments |-> NoTick]
    /\ lock = NoTicker
    /\ tick = [w \in Tickers |-> "idle"]
    /\ todo = [w \in Tickers |-> {}]
    /\ quote = [w \in Tickers |-> NoTick]
    /\ stamps = 0
    /\ outlived = FALSE
    /\ clock = 0

-----------------------------------------------------------------------------
(* advance_prices.                                                         *)

(* Mutant: the run starts whether or not another holds the mutex.          *)
AcquireAnyway(w) == lock' = w

(* cache.add.                                                              *)
Acquire(w) == lock = NoTicker /\ lock' = w

(* Beat fires, or a message that was not acknowledged is delivered again;  *)
(* without the mutex the run returns at once.                              *)
StartRun(w) ==
    /\ tick[w] = "idle"
    /\ Spend("runs")
    /\ \/ /\ Acquire(w)
          /\ tick' = [tick EXCEPT ![w] = "walk"]
          /\ todo' = [todo EXCEPT ![w] = Instruments]
       \/ /\ lock # NoTicker
          /\ UNCHANGED <<lock, tick, todo>>
    /\ UNCHANGED <<ticks, last, quote, quoted, stamps, outlived, clock>>

(* The next instrument gets a price and, in its own transaction, a tick    *)
(* whose created_at is now.                                                *)
CreateTick(w) ==
    /\ tick[w] = "walk"
    /\ todo[w] # {}
    /\ \E price \in Prices :
          quote' = [quote EXCEPT ![w] = [instrument |-> Min(todo[w]), price |-> price,
                                         at |-> clock, stamp |-> stamps + 1]]
    /\ stamps' = stamps + 1
    /\ tick' = [tick EXCEPT ![w] = "save"]
    /\ UNCHANGED <<ticks, last, lock, todo, quoted, outlived, clock, left>>

(* instrument.save() and COMMIT.                                           *)
SaveTick(w) ==
    LET t == quote[w] IN
    /\ tick[w] = "save"
    /\ ticks' = ticks \cup {t}
    /\ quoted' = quoted \cup {t}
    /\ last' = [last EXCEPT ![t.instrument] = t]
    /\ todo' = [todo EXCEPT ![w] = @ \ {t.instrument}]
    /\ tick' = [tick EXCEPT ![w] = "walk"]
    /\ UNCHANGED <<lock, quote, stamps, outlived, clock, left>>

(* finally: the mutex is deleted, whoever set it. The matching sweep that  *)
(* the run dispatches is in Trading.tla.                                   *)
EndRun(w) ==
    /\ tick[w] = "abort" \/ (tick[w] = "walk" /\ todo[w] = {})
    /\ lock' = NoTicker
    /\ tick' = [tick EXCEPT ![w] = "idle"]
    /\ todo' = [todo EXCEPT ![w] = {}]
    /\ UNCHANGED <<ticks, last, quote, quoted, stamps, outlived, clock, left>>

(* SoftTimeLimitExceeded, or any other exception: the transaction of the   *)
(* current instrument rolls back.                                          *)
HitSoftLimit(w) ==
    /\ tick[w] \in {"walk", "save"}
    /\ Spend("limits")
    /\ tick' = [tick EXCEPT ![w] = "abort"]
    /\ UNCHANGED <<ticks, last, lock, todo, quote, quoted, stamps, outlived, clock>>

(* The worker is killed; the mutex stays.                                  *)
KillTicker(w) ==
    /\ tick[w] # "idle"
    /\ Spend("kills")
    /\ tick' = [tick EXCEPT ![w] = "idle"]
    /\ todo' = [todo EXCEPT ![w] = {}]
    /\ UNCHANGED <<ticks, last, lock, quote, quoted, stamps, outlived, clock>>

LockExpires ==
    /\ lock # NoTicker
    /\ tick[lock] \in {"idle", "abort"}
    /\ lock' = NoTicker
    /\ outlived' = (outlived \/ tick[lock] = "abort")
    /\ UNCHANGED <<ticks, last, tick, todo, quote, quoted, stamps, clock, left>>

(* purge_price_ticks: one DELETE.                                          *)
PurgeTicks ==
    /\ Spend("purges")
    /\ ticks' = {t \in ticks : t.at >= clock - Retention}
    /\ UNCHANGED <<last, tickers, quoted, clock>>

MarketNext ==
    \/ \E w \in Tickers :
          StartRun(w) \/ CreateTick(w) \/ SaveTick(w) \/ EndRun(w) \/ HitSoftLimit(w)
              \/ KillTicker(w)
    \/ LockExpires \/ PurgeTicks

(* last_price is "the newest row in ticks" (Instrument): fills and the     *)
(* screens read the column, the price history reads the rows, and they     *)
(* agree however runs are repeated, killed or overtaken, unless a run on   *)
(* its way out outlived its mutex.                                         *)
LastPriceIsNewest ==
    ~outlived => \A i \in Instruments :
        last[i] = IF Of(quoted, i) = {} THEN NoTick ELSE Newest(Of(quoted, i))
=============================================================================
