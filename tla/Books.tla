------------------------------- MODULE Books -------------------------------
(***************************************************************************)
(* The entries of the ledger across the releases that rewrote them. The    *)
(* migration 0006 gives keyed entries the digest of the request they were  *)
(* posted for (backend/ledger/fingerprints.py), 0008 adds contra legs to   *)
(* the fills posted without them, 0009 makes Postgres demand the legs      *)
(* (backend/ledger/share_conservation.py and the migrations), and          *)
(* reconciliation scans the whole table (backend/ledger/reconciliation.py).*)
(*                                                                         *)
(* deploy.sh migrates first and then replaces the replicas, so an earlier  *)
(* release posts against each of these schemas, and the current one        *)
(* against the last. The lines of one entry are stored within              *)
(* microseconds: here they share the stamp `now`.                          *)
(***************************************************************************)
EXTENDS Posting, FiniteSetsExt

CONSTANTS
    Past,       \* the histories the migrations may find: sequences of lists of lines
    MaxTime,    \* bound on the clock
    NoKey,      \* the NULL key and
    NoRequest   \* the NULL fingerprint of an entry

ASSUME PastAssumption ==
    /\ Past \subseteq Seq(Seq(Line)) /\ MaxTime \in Nat
    /\ NoKey \notin {"order", "transfer"}

VARIABLES
    books,      \* the committed entries
    schema,     \* the last migration that was applied
    now,
    report      \* the last reconciliation: under which schema, and the (invariant, subject) found

booksVars == <<lines, stage, books, schema, now, report>>

-----------------------------------------------------------------------------
(* A fill is keyed by its order, a transfer by its client or not at all,   *)
(* other entries are not. What a key stands for is a request: the order,   *)
(* or the source, the destination and the amount of the transfer.          *)

IsTransfer(ls) ==
    /\ Len(ls) = 2 /\ \A n \in DOMAIN ls : ~IsPosition(ls[n])
    /\ Rows(ls)[1].amount < 0 /\ ls[1].account # ls[2].account

KeysOf(ls) ==
    CASE \E n \in DOMAIN ls : IsPosition(ls[n]) -> {"order"}
      [] IsTransfer(ls) -> {"transfer", NoKey}
      [] OTHER -> {NoKey}

Request(ls, key) ==
    CASE key = "transfer" -> <<ls[1].account, ls[2].account, -Rows(ls)[1].amount>>
      [] key = "order" -> <<"order", ls>>
      [] OTHER -> NoRequest

Stamped(r, t) == [account |-> r.account, amount |-> r.amount, quantity |-> r.quantity, at |-> t]

Entry(ls, t, key, digested) ==
    [rows |-> [n \in DOMAIN ls |-> Stamped(Stored(ls[n]), t)],
     key |-> key, request |-> Request(ls, key),
     digest |-> IF digested THEN Request(ls, key) ELSE NoRequest]

(* Shares of instrument i that the rows of an entry stamped before t move. *)
SharesBefore(rows, i, t) ==
    LET group == {n \in DOMAIN rows : Instrument(rows[n]) = i /\ rows[n].at < t
                                      /\ rows[n].quantity # NoQuantity}
    IN  SumFunction([n \in group |-> rows[n].quantity])

Shares(rows, i) == SharesBefore(rows, i, MaxTime + 1)

(* The rows of an account, by entry and place, and what they add up to.    *)
Places(a) ==
    UNION {{<<n, r>> : r \in {q \in DOMAIN books[n].rows : books[n].rows[q].account = a}}
           : n \in DOMAIN books}

RowAt(p) == books[p[1]].rows[p[2]]

Balance(a) == SumFunction([p \in Places(a) |-> RowAt(p).amount])

Held(a) ==
    SumFunction([p \in {q \in Places(a) : RowAt(q).quantity # NoQuantity} |-> RowAt(p).quantity])

-----------------------------------------------------------------------------
(* What post_entry took before contra legs existed: every line moved money *)
(* and nobody counted shares.                                              *)

OldAccepted(rows) == IsFill(rows) /\ \A n \in DOMAIN rows : rows[n].amount # 0

(* What is in a history was posted by such a release.                      *)
ASSUME HistoriesAssumption ==
    \A past \in Past : \A n \in DOMAIN past : OldAccepted(Rows(past[n]))

(* A digest is demanded with a key from 0006 on, conserved shares from     *)
(* 0009 on.                                                                *)
OldCommits(e) ==
    /\ EntryBalanced(e.rows)
    /\ schema # "0005" => e.key = NoKey \/ e.digest # NoRequest
    /\ schema = "0009" => EntryConservesShares(e.rows)

(* Releases older than 0006 know no digests.                               *)
OldPost ==
    /\ stage = "built"
    /\ \E key \in KeysOf(lines), digested \in {schema # "0005", FALSE} :
         LET e == Entry(lines, now, key, digested)
         IN  CASE ~OldAccepted(Rows(lines)) -> stage' = "oldRefused" /\ UNCHANGED books
               [] OldAccepted(Rows(lines)) /\ OldCommits(e) ->
                      stage' = "oldPosted" /\ books' = Append(books, e)
               [] OTHER -> stage' = "oldAborted" /\ UNCHANGED books
    /\ UNCHANGED <<lines, schema, now, report>>

-----------------------------------------------------------------------------
(* backfill_entry_fingerprints: the request behind a transfer is read off  *)
(* the signs of its lines, the one behind a fill off the order.            *)

(* Mutant: the sign of the source line is kept.                            *)
RecoveredUnsigned(e) ==
    IF e.key = "order" THEN e.request
    ELSE LET source == CHOOSE n \in DOMAIN e.rows : e.rows[n].amount < 0
             destination == CHOOSE n \in DOMAIN e.rows : e.rows[n].amount > 0
         IN  <<e.rows[source].account, e.rows[destination].account, e.rows[source].amount>>

Recovered(e) ==
    IF e.key = "order" THEN e.request
    ELSE LET source == CHOOSE n \in DOMAIN e.rows : e.rows[n].amount < 0
             destination == CHOOSE n \in DOMAIN e.rows : e.rows[n].amount > 0
         IN  <<e.rows[source].account, e.rows[destination].account, -e.rows[source].amount>>

(* Migration 0006.                                                         *)
BackfillFingerprints ==
    /\ schema = "0005"
    /\ schema' = "0006"
    /\ books' = [n \in DOMAIN books |->
                    IF books[n].key # NoKey /\ books[n].digest = NoRequest
                    THEN [books[n] EXCEPT !.digest = Recovered(books[n])] ELSE books[n]]
    /\ UNCHANGED <<lines, stage, now, report>>

-----------------------------------------------------------------------------
HeldRows(e, i) == {n \in DOMAIN e : /\ Instrument(e[n]) = i /\ e[n].account \in Assets
                                    /\ e[n].quantity # NoQuantity}

(* ensure_share_contras opens the contra accounts of these.                *)
Traded == {i \in Instruments : \E n \in DOMAIN books : HeldRows(books[n].rows, i) # {}}

NetHeld(e, i) == SumFunction([n \in HeldRows(e, i) |-> e[n].quantity])

HasContra(e, i) == \E n \in DOMAIN e : e[n].account = ContraOf[i]

(* Mutant: the leg gets the time of the migration, as auto_now_add would   *)
(* have it.                                                                *)
StampNow(e, i) == now

(* MIN(l.created_at) of its siblings.                                      *)
StampOf(e, i) == Min({e[n].at : n \in HeldRows(e, i)})

(* backfill_contra_lines: one leg for each instrument that an entry moved  *)
(* in holdings, unless the entry has one.                                  *)
Backfilled(e) ==
    LET leg(i) == [account |-> ContraOf[i], amount |-> 0, quantity |-> -NetHeld(e, i),
                   at |-> StampOf(e, i)]
    IN  e \o SetToSeq({leg(i) : i \in {j \in Traded : NetHeld(e, j) # 0 /\ ~HasContra(e, j)}})

(* Migration 0008.                                                         *)
BackfillShareContras ==
    /\ schema = "0006"
    /\ schema' = "0008"
    /\ books' = [n \in DOMAIN books |-> [books[n] EXCEPT !.rows = Backfilled(@)]]
    /\ UNCHANGED <<lines, stage, now, report>>

(* find_unconserved_entries, asked by 0009 and by every reconciliation.    *)
Unconserved ==
    {s \in (DOMAIN books) \X (Instruments \cup {NoInstrument}) : Shares(books[s[1]].rows, s[2]) # 0}

(* Migration 0009 creates the trigger and scans in one transaction, whose  *)
(* lock on the table keeps writers out. An entry that does not conserve    *)
(* shares rolls it back, and the next attempt starts with 0009 again.      *)
EnforceConservation ==
    /\ schema = "0008"
    /\ schema' = IF Unconserved = {} THEN "0009" ELSE schema
    /\ UNCHANGED <<lines, stage, books, now, report>>

-----------------------------------------------------------------------------
(* check_invariants, by the nightly task or by hand.                       *)

Violations ==
    {<<"unbalanced_entry", n>> : n \in {k \in DOMAIN books : ~EntryBalanced(books[k].rows)}}
    \cup {<<"unconserved_shares", s>> : s \in Unconserved}
    \cup {<<"negative_asset_balance", a>> : a \in {b \in Assets : Balance(b) < 0}}
    \cup {<<"negative_holding", a>> :
              a \in {b \in Assets : InstrumentOf[b] # NoInstrument /\ Held(b) < 0}}

CheckInvariants ==
    /\ report' = [schema |-> schema, found |-> Violations]
    /\ UNCHANGED <<lines, stage, books, schema, now>>

-----------------------------------------------------------------------------
(* The new release completes its fills and posts them, once 0009 is in.    *)
NewConserve == schema = "0009" /\ Conserve /\ UNCHANGED <<books, schema, now, report>>

NewPost ==
    /\ schema = "0009"
    /\ Post
    /\ \E key \in KeysOf(lines) :
         books' = IF stage' = "posted" THEN Append(books, Entry(lines, now, key, TRUE)) ELSE books
    /\ UNCHANGED <<schema, now, report>>

Elapse ==
    /\ now < MaxTime
    /\ now' = now + 1
    /\ UNCHANGED <<lines, stage, books, schema, report>>

BooksInit ==
    /\ Init
    /\ \E past \in Past :
         books \in {[n \in DOMAIN past |-> Entry(past[n], 0, keys[n], FALSE)] :
                       keys \in {k \in [DOMAIN past -> {"order", "transfer", NoKey}] :
                                    \A n \in DOMAIN past : k[n] \in KeysOf(past[n])}}
    /\ schema = "0005" /\ now = 0 /\ report = [schema |-> "0005", found |-> {}]

BooksNext ==
    \/ OldPost \/ BackfillFingerprints \/ BackfillShareContras \/ EnforceConservation
    \/ NewConserve \/ NewPost
    \/ CheckInvariants \/ Elapse

BooksSpec == BooksInit /\ [][BooksNext]_booksVars

-----------------------------------------------------------------------------
(* Once the trigger is in, every entry, however old and whichever release  *)
(* posted it, conserves the shares of each instrument, and does so at any  *)
(* past instant: a statement of a closed period that is built again counts *)
(* both sides of a fill or neither ("a July statement has to keep saying   *)
(* what it said"). Reconciliation agrees: from then on it only finds       *)
(* overdrawn accounts and holdings.                                        *)
HistoryConserved ==
    /\ schema = "0009" =>
           \A n \in DOMAIN books, i \in Instruments, t \in 0..MaxTime + 1 :
               SharesBefore(books[n].rows, i, t) = 0
    /\ report.schema = "0009" =>
           \A v \in report.found : v[1] \in {"negative_asset_balance", "negative_holding"}

(* A retry that reaches a later release than its first attempt still       *)
(* replays: whichever release posted a keyed entry, the digest that        *)
(* _replayed_entry compares is that of the request the key was spent on.   *)
OldKeysReplay ==
    schema # "0005" =>
        \A n \in DOMAIN books : books[n].key # NoKey => books[n].digest = books[n].request
=============================================================================
