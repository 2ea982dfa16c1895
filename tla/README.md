# Formal models of the Banking-App

The Banking-App is a Django service on Postgres and Redis with a React client: a double-entry
ledger with idempotent transfers, a brokerage on top of it, sessions with rotating refresh tokens,
a WebSocket feed and monthly statements. This directory holds TLA+ models of the parts whose
correctness depends on interleaving, failure or rounding, the TLC configurations that check them,
and proofs of the most important results. Paths below are relative to `src/backend` unless they
start with `src/`.

## The system

| Component | State | Operations | Talks to |
|---|---|---|---|
| Ledger (`ledger/`) | `JournalEntry`, `JournalLine`; balances are sums of lines and never stored | `post_entry`, `conserve_shares`, `transfer`, `get_balance`, `get_quantity`, the two deferred triggers | locks account rows; audit rows in its transaction; events on commit |
| Reconciliation and backfills (`ledger/reconciliation.py`, `share_conservation.py`, migrations) | none of its own | checks the invariants over all entries; adds digests and contra legs to entries older than both | ledger, audit |
| Trading (`trading/`) | `Order` (open, filled, cancelled, rejected) | `place_order`, `execute_fill`, `cancel_order`, `reject_order`, the sweep `match_resting_orders` | ledger, markets, audit, events |
| Markets (`markets/`) | `Instrument.last_price`, `PriceTick`, a mutex in the cache | `advance_prices` (Celery beat), which dispatches the sweep | trading, events |
| Identity (`identity/`) | `AuthSession`, outstanding and blacklisted tokens, TOTP devices and challenges | register, login, MFA, refresh with rotation and reuse detection, logout, revocation | audit, realtime (session kill), onboarding |
| Accounts (`accounts/`) | account rows: owner, type, instrument, encrypted number | look-ups, numbering, backfills; created on first use by the others | everything that locks or sums |
| Realtime (`realtime/`) | socket groups per user, session and symbol | publish on commit; consumer with auth, re-auth, subscribe, kill | Redis channel layer |
| Statements (`statements/`) | `Statement` rows and PDF files | generate a month, regenerate | ledger |
| Audit (`audit/`) | append-only `AuditEvent` | `record_audit`, ambient request context | written by all |
| Frontend (`src/frontend/src`) | access token in memory, refresh token in localStorage, one shared refresh, socket with retry and re-auth timers, attempt keys of two forms | API client, auth provider, `StreamClient`, transfer form, order ticket | HTTP and WebSocket API |
| Encryption (`common/crypto.py`) | a ring of labelled keys, read at boot | `encrypt`, `decrypt`; rotation by an operator | account numbers, TOTP secrets |
| Deployment (`src/deploy`) | `deploy/.env` | `deploy.sh`: migrate, then one replica after the other; Celery beat and workers with late acknowledgement | everything that runs |

The hard behaviour is in six places. Requests of several web replicas and Celery workers run at
once under READ COMMITTED, so a check is only worth the lock it is made under. Clients retry, and
the key of a retry is looked up at three different places. Work is split over several transactions
(order row, fill, rejection), and a process may die between them. Amounts are rounded on every
line, while totals are judged in two places. And the page has to make one session, one attempt and one
stream out of requests and sockets that fail one by one. A release replaces one process at a time, so code
and configuration of two releases serve the same rows. `PROJECT.json` lists each hazard at its line.

## Modules

| Module | Models | Lines of the code |
|---|---|---|
| `LedgerData` | what a keyed transfer request is and how an entry moves balances | `ledger/fingerprints.py`, `ledger/models.py` |
| `MoneyLedger` | the abstract promise: an append-only journal, every movement covered, every key spent once | `ledger/services.py` |
| `Transfers` | `transfer()` statement by statement, any number of threads, crashes | `ledger/services.py` 246-429 |
| `TransfersProofs` | theorems about `Transfers` | |
| `Money` | rounding half to even of an exact quotient | `common/money.py` |
| `Posting` | `post_entry` and `conserve_shares` in front of CHECK constraints and triggers | `ledger/services.py` 48-243, migrations 0002 and 0009 |
| `Trading` | placement, fill, rejection, cancellation and sweeps of orders | `trading/services.py`, `trading/tasks.py` |
| `TradingProofs` | theorems about it | |
| `Books` | entries older than the invariants: earlier releases, the backfills, the migration that creates the trigger, the reconciliation; over `Posting` | `ledger/fingerprints.py`, `share_conservation.py`, `reconciliation.py`, migrations 0005-0009, `src/deploy/deploy.sh` |
| `BooksProofs` | theorems about `Posting` and `Books` | |
| `ChannelLayer` | group membership and `group_send` of the Redis channel layer | `realtime/events.py` |
| `Sessions` | logins, rotation and replay of refresh tokens, logout, revocation, TOTP devices and codes | `identity/services.py`, `serializers.py`, `views.py`, `tokens.py`, `authentication.py` |
| `Streams` | the WebSocket consumer, over `Sessions` and `ChannelLayer` | `realtime/consumers.py` |
| `StreamsProofs` | theorems about the two | |
| `Numbers` | account numbers and their check digits | `accounts/numbers.py` |
| `Vault` | the encrypted columns, the rotation of keys and the rolling release, over `Numbers` | `common/crypto.py`, `accounts/models.py`, `accounts/admin.py`, both `backfills.py`, `identity/models.py`, `src/deploy/deploy.sh` |
| `Onboarding` | registrations statement by statement, and who a login resolves to | `identity/serializers.py` 60-100, `identity/backends.py`, `ledger/onboarding.py` |
| `CustomersProofs` | theorems about the three | |
| `Client` | one page: API client, token store, auth provider and the two forms, against the server as they can tell it apart | `src/frontend/src/api`, `auth`, `routes/Transfer.tsx`, `routes/OrderTicket.tsx`, the views behind them |
| `Feed` | the price stream of that page and the consumer's end of its socket, over `Client` | `src/frontend/src/realtime` |
| `FrontendProofs` | theorems about the two | |
| `Market` | runs of the price ticker under a mutex that expires, and the purge of ticks | `markets/tasks.py` |
| `MonthlyArchive` | the abstract promise: a month is stated once, with the balances around it, and nothing joins it later | `statements/tasks.py`, `accounts/models.py` |
| `Statements` | runs of the statement generator read by read and write by write, over `Market`; implements `MonthlyArchive` | `statements/` |
| `JobsProofs` | theorems about `Market` and `Statements` | |
| `SumTheorems` | what the proofs need to know of sums over finite sets | |
| `MC*` | instances for TLC | |

### Transfers

A thread is a request handler of any replica; `pc` names its next SQL statement. `journal`,
`balance` and `audit` hold what is committed; `written` holds what a thread's own transaction has
inserted and nobody else sees. `holder` is the row lock (`SELECT ... FOR UPDATE`) of each account,
`slot` the uncommitted entry in the unique index of the key: a second INSERT of the key waits for
it. `Receive` is the part of `transfer()` before its transaction, with the first look-up of the key;
`LockAccount` is one round of the loop in `lock_accounts`; `Recheck`, `CheckFunds`, `PostEntry`,
`RecordAudit` and `Commit` follow the atomic block; `Recover` is the IntegrityError handler. The
payload fingerprint is abstracted to equality of the requests it digests. A retry is a request like
any other. `Crash` may happen at every statement. The re-raise in the IntegrityError handler is dead
code as long as entries are never deleted, and the replay branch of `Recover` is never reached: two
equal requests need the same rows, so they meet under the locks, and only requests on disjoint
accounts meet in the index.

Left out: the view, which audits rejections after the fact; the creation of accounts; the
descriptions of entries. The KEY SHARE locks that foreign keys take on account rows are left out
too: those rows are either locked already by the same transaction, or the waiting transaction is a
single INSERT that holds nothing another one waits for.

### Posting and Books

`Init` picks any list of raw lines; `Conserve` is the call of the fill builders and `Post` is
`post_entry` followed by COMMIT. `Fine` raw units make one stored quantum, so rounding happens on
every line. `Accepted` is the validation of the service, `CommitSucceeds` the constraints of the
database, written from their SQL and not from the service: SUM skips NULL and the accounts
without an instrument form a group of their own. `conserve_shares` applied a second time appends a
second set of contra legs, although its comment says it must not; no caller does that, and
`post_entry` refuses the result.

`Books` puts the posting of one list into a ledger that already has a history (`Past`) from before
digests and contra legs. `deploy.sh` migrates before it replaces the replicas, so `OldPost`, the
`post_entry` of an earlier release, may happen under every schema, between any two of
`BackfillFingerprints` (0006), `BackfillShareContras` (0008; the constraint that 0007 loosens is
dropped in the same step) and `EnforceConservation` (0009, which verifies all entries and then creates
the trigger); the current release posts (`NewConserve`, `NewPost`) only under 0009. `Recovered`
rebuilds a request from the lines of a two-line entry; `CheckInvariants` is the reconciliation.
The lines of one entry share one stamp: the microseconds between them are
abstracted. Not a property, but visible in the model: a fill that the old release posts between 0008
and 0009 makes the verification of 0009 fail, and the next `migrate` starts with 0009 again, so a
person has to add the contra legs.

### Trading

Placers run `place_order`, sweepers run `match_resting_orders`; both fill through the actions of
`execute_fill` (`LockAccount`, `CheckAndPost`, `SaveOrder`, `Commit`). The order row is committed
OPEN by `InsertOrder` before a market order is filled, so a sweep may pick it up: the source of the
findings. `claim` is the lock on an order row: `MatchNext` takes it with SKIP LOCKED, `SaveOrder`
and `RejectOrder` wait for it. `DeadlockVictim` is Postgres breaking a cycle of waiting
transactions. `Tick`, `Transfer` and `Cancel` are the environment; `Transfer` is the abstract
movement that `Transfers` implements, seen from one cash account. Money counts quanta of 0.0001 and
shares quanta of 1/`Scale`; `Notional` and `CostOf` round as the code does. Python's 28 digits
before the quantization are taken as exact.

Left out: the check that the instrument is active, the creation of accounts on first use, the
reason of a rejection, and events. One instrument is modelled, since fills of two instruments share
only the cash account.

### Sessions and Streams

The identity views open no transaction, so every statement commits alone: `pc` names the next
statement of a request handler, and an action is one statement with the branches that follow it.
`call` is what the request asked and what the handler has read so far. A request runs to its end
through the same actions whoever shares them: `OpenSession` and `MintPair` end both the password login
and its second step, `VerifyTotp` serves login, confirmation and disabling, and `RevokeSession`,
`BlacklistFamily` and `AnnounceRevocation` are `revoke_session`, called by logout, by
`handle_possible_reuse` and by `MfaDisableView`. `Crash` may end a handler between any two statements.

A refresh token is its row. `listed` says whether the text in the row names the session, which is
what `_blacklist_family_refresh_tokens` searches for: rotation stores the text with the claim, but
`for_user` stores it before `_issue_pair` sets the claim. An access token is only its session,
because the session row is what decides whether it is good; a client sends those of the session it
holds. TOTP steps are the counter `now`, and a code is the pair of the device that made it and its
counter.

`Streams` adds the sockets. The auth handler awaits three times, so it is three actions
(`AuthFrame`, `TakeIdentity`, `JoinSession`); the timers and messages of other processes fall
between them, while frames, channel messages and `disconnect` wait until it has returned
(`step = "ready"`). `Send` puts a message in the inbox of the present members or loses it, since
`_send` swallows errors. `code` is the close code, set once.

Left out: throttling, expired and garbage tokens on HTTP, which are refused before any
of these statements; administrative revocation, which calls the same `revoke_session`; the
`last_used_at` column that `touch_session` writes; prices, which every subscriber may see. Audit
rows carry the number of the request that wrote them, so that two rows can be told apart.

### Numbers and Vault

A stored value is the pair of the label of its key and of what it decrypts to: the data keys and nonces of the
envelope do not outlive one call. `keyring` is `FIELD_ENCRYPTION_KEYS` as the operator edits it in `deploy/.env`,
`ring` the copy each replica took when it booted, `script` what `deploy.sh` has left to do. `Deploy` starts it,
`AssignMissingNumbers` and `EncryptMfaSecrets` are its data migrations, `Roll` replaces one replica, and
`StopHalfWay` is `set -e`. Between any two of these the replicas serve: `OpenAccount` is `Account.save` of a new row,
`Enroll`, `Confirm` and `Disable` are the views of the second factor as far as they touch the secret (their
interleavings are in `Sessions`). `OpenForm` and `SaveForm` are the change page of the admin, which carries all
columns of the row from the one to the other; only `id` and `created_at` are read-only there, so a page may also
change the type or the instrument of the account, which makes a customer's account a bookkeeping one or the reverse,
and empty the boxes of the two number columns. `edited` remembers which accounts were changed in this way: what the
code promises of a number, it promises of the others. `RekeyAccount` and `RekeyDevice` re-save a row under the current key.

The operator is assumed to do what the comments of `crypto.py` and of the settings say, in that order: keys are
prepended between releases, and `DropKey` waits until a release is complete and no row refers to the
oldest key. Admin pages are not rows, and no operator can see which are open, so a page may be posted after
the key of its ciphertext has gone. Other text typed into the ciphertext box than none, which no key would have
written, and the deletion of accounts are left out. The release
before encryption is not modelled: once 0005 and 0002 have run, its INSERTs lack a NOT NULL column. Devices start
with one secret or none per user.

A number is one integer, digits before check digits. `SlipsOf` are the numbers that differ from it in one digit or
by the exchange of two neighbours, written as differences: a few of them are no such slip, which makes the
property stronger.

### Onboarding

A request of `RegisterView` is one statement per action. `CheckUsername` and `CheckEmail` are the validators of the
serializer, outside the transaction; `DrawKey` and `InsertUser` are the INSERT of `create_user`, which draws
its primary key before it meets the unique index of the username, and there waits for an uncommitted row;
`OpenStarterAccounts`, `PostOpeningDeposit` and `RecordOpened` follow `open_starter_accounts`; `RollBack` may happen at
every statement and also stands for the death of the handler. A row of `users` is visible to others
when its status is committed. `Resolve` is the look-up of `EmailOrUsernameBackend`. The deposit is a setting in the code;
it is part of the form here, so that users with and without one meet. Passwords are left out.

### Client and Feed

A page runs one callback at a time, so an action of `Client` is what happens between two awaits; what
interleaves are the requests under way (`Slots`), the clock and the server. Tokens are pairs named after
their session and their place in its family. The server is reduced to what the page can tell apart: which
tokens are good, and what each idempotency key is bound to (`TransferAnswers`, `OrderAnswers`,
`LogoutAnswers`, `ServeRefresh` give every answer of the views and what is committed by then). `Unauthorized`,
`Refreshed` and `RefreshFailed` are `sendWithRefresh` and the shared promise `refreshInFlight`; `Submit`
and `Submitted` are the forms with `attemptKey`. `Lose` is a network error: the page is told that a request
failed, and the request is served before, or stays in `limbo` and is served later (`ServeLate`), or never.
`Reload` forgets the memory of the page and keeps localStorage.

`Feed` adds `StreamClient`, `StreamProvider` and the screen whose symbol is streamed. `up` and `down` are
the frames on the wire, `wanted` the client's subscriptions, `prices` those of the consumer. `Follows` is
what the provider's effects and the token store's listener do in the step of `Client` that changes
the user object or the tokens, so `Next` conjoins the two. A user object is new on every load of the user,
which replaces the client. The consumer of one connection is `FrameArrives` and `ServerEnds`; `Streams`
has the whole of it.

Left out: query caching, backoff intervals (a timer may fire at any time), a second tab, form
validation, the screens that only read.

### Market and Statements

A ticker is a Celery worker inside `advance_prices`: `StartRun` takes the mutex with `cache.add`,
`CreateTick` and `SaveTick` are the transaction of one instrument, `EndRun` deletes the mutex, whoever
set it. The soft time limit of a task is the lifetime of the mutex, so a run that still works has it;
`HitSoftLimit` sends it to its `finally`, where the hard limit or a slow exit lets the mutex expire
under it (`LockExpires`). That case is recorded in `outlived`. `PurgeTicks` is the weekly DELETE.

`Statements` adds the journal lines with their stamps (set inside the transaction, so `Stamp` and
`Commit` are two actions), the orders that fills resolve, a clock of two instants to a month, and processes that run `generate_monthly`:
`Take` is the check for an existing row, then come the queries one by one, `SaveFile`, `InsertRow` under
the unique index and `DeleteFile` on its IntegrityError. `Fails` is any other exception, which is logged
while the run goes on; `KillDesk` ends a run anywhere. `Generate` may be by Beat or by hand, for any
month that is over. It assumes that what was stamped in the month has committed or rolled back by then, and that an
attempt refused in it has been written down, as
the schedule does (`config/settings/base.py` 238-240: a quarter of an hour after midnight). The cash
statements implement `MonthlyArchive` under the mapping in `Statements!archive`.

`has_activity` and the trades of a brokerage statement do not read the journal but `FILLED` orders by `resolved_at`
(`HasActivity`, `Fills`), so orders are rows of their own here: `Commit` of a deal with a line on a position
stamps its order, at some instant between the lines and the COMMIT. `refused` is the other attempt at that order that
`Trading` has in full: it failed, and `RejectOrder` overwrites the order by primary key later, with a new
`resolved_at`. Sells find the shares they sell (`SharesAreHeld`), so that a user may have sold everything by the
end of the month and the orders alone decide.

Left out: rendering, the download view, the audit row; several instruments to a portfolio in the run
(the module has any number).

## Runs

| Run | Instance | What it shows |
|---|---|---|
| `transfers` | 3 threads, 4 accounts, one key, 3 requests per behaviour | refinement of `MoneyLedger` (hence no overdraft, and a key spent once), answers about the caller's own request, audit rows and events exactly for the committed entries, ordered waiting, and every request ends |
| `posting` | every list of up to three out of 13 lines, posted by the current or an earlier release between any two migrations, on a history of three older entries | the service foresees every refusal of the database; completed fills are accepted; the backfills leave history conserved at every past instant, and its keys replay |
| `trading` | 2 users, 2 placers, 2 sweeps of which three play, 2 requests, 1 transfer or 1 crash, 2 share quanta to a share | nothing is oversold; a closed position leaves no basis; orders, entries and audit rows agree, so each order is posted once; limits are respected, a key never returns another order, a resolved limit order is never posted |
| `trading_live` | 1 placer, 1 sweep, 1 transfer, 1 crash, fair | market orders are resolved |
| `streams` | 2 handlers, 1 socket, 2 users, four loads | a code is spent once, a replay ends the session, nothing is granted after revocation, disabling MFA ends every session; a socket gets its own user's events only, its groups match its subscriptions, and it does not outlive its session |
| `frontend` | one page, 2 call slots and a spare, 2 symbols, six loads | no refresh token is presented twice and the session survives, an attempt makes one posting or order and its notice is true, the prices shown follow the screen and the stream comes back |
| `jobs` | 2 tickers, 2 desks, 2 users, 4 accounts, 1 instrument, six loads | the price on display is the newest tick, files and rows match, a run leaves no gap but where an order was overwritten or resolved later, positions are valued at the end of the month, refinement of `MonthlyArchive` |
| `customers` | 3 keys, 2 replicas, 1 account, 1 user, 2 secrets, 2 numbers of five digits, 1 admin page; 3 registrations out of 4 forms; three loads | no stored value loses its number or its secret, whatever releases, backfills, re-keying and a late admin page do, nor its key, but by a page that was open when the key was dropped; the digits in the clear match; no slip of the pen makes a valid number; who is registered has all a customer has, twins raced, nobody takes a login over |
| `trading_deadlock`, `trading_entry`, `frontend_logout`, `frontend_ticket` | small instances | the disagreements below |

Bounds. Three threads are enough for a chain of waiters, and for two requests that share a key to
meet a third one on the same rows; the properties are about pairs of threads. Requests, transfers and
crashes are bounded by `MaxRequests`, `MaxTransfers` and `MaxCrashes`; the proofs have no such values.
Two prices are enough for a limit that is crossed and one that is not, and for a gain and a loss. The
holding of three quanta for four units of money makes partial exits round both ways. In `trading` three of
four workers play (`cast`): two placers, a sweep and a transfer, or a placer and two sweeps, where one worker may die;
that is one more worker than an account, an order or a key needs to be contended for. A second user, who sends the same key,
has cash and no shares.

In `posting` three lines are one fill before its contra legs, or a leg too many; the 13 lines cover cash
and savings, an account that is not in USD, positions of two instruments and a contra, with and without
quantities, and ties in the rounding of both. `HistoryConserved` says that once 0009 has run every entry conserves shares per instrument at every
past instant (two are told apart, `MaxTime`), and that a reconciliation can find nothing but negative
balances and holdings.

A behaviour of `streams`, `frontend`, `jobs` or `customers` runs one load, so that the states of the loads add up and do
not multiply.

* `streams`: `Tokens` (login, refresh and logout: four requests and a crash, so that a login, its rotation, a
  replay and a logout may all meet), `SecondFactor` (logins with a code against the disabling of the
  device), `Enrollment` (two enrollments and two confirmations) and `OneSocket` (three frames, one event,
  one logout, sessions of two users). Two concurrent handlers suffice: the properties relate two
  requests. `WS_MAX_SUBSCRIPTIONS` is 1 with two symbols, so that the limit is met.
* `frontend`: `Requests` (queries that meet two expiries and a reload), `SignOuts` (with a second
  login and a lost reply), `Transferring` and `Ordering` (lost, repeated and late replies), `Watching` (a lost
  connection, a reload, two moves between symbols) and `Closing` (an expiry, a revocation, a sign-out
  under an open socket). Two calls under way are what it takes for a 401 to find a refresh running.
* `jobs`: `Ticking` (three runs, one time limit, one kill, one purge), `Closing` (two postings
  around the end of a month, two runs of the generator), `Months` (two runs over two months), `Failing` (three runs, of which one fails and one is killed),
  `Refusing` (a buy and a sell, one of them overwritten as rejected, in the month or after it) and
  `Valuing` (a position, prices in and after the month, a purge). A month has two instants, and ticks
  are kept for two, so that a price may be gone by the time a statement needs it. Tickers and desks are
  symmetric.
* `customers`: `rows` (accounts and devices are opened, enrolled and re-keyed) and `pages` (accounts alone, beside an
  admin page that may change them), where three keys are a rotation on top of a rotation, with a key to drop
  under both; rows are written one by one, and the properties speak of one row each. Numbers have five digits instead of ten, one more
  than the last four, so that they are not the whole body; the proof is for four to ten. And `registration`, where
  the four forms share a username, a username in another case, an address, and a username that is another's
  address; the third registration meets what the first two left.

Deadlock is checked where workers or threads run all the time (`transfers` and the trading runs). It is not
in `posting`, where an entry is posted and the behaviour ends, and not in `streams`, `frontend`, `jobs` and
`customers`, where everybody may rest once a load is used up. In `Transfers` a thread may always crash, so a deadlock of
threads would not be one of the model: `OrderedWaiting` is the property that excludes it.

Fairness. A running thread goes on (weak fairness of its steps). Postgres serves lock waiters in
the order of their arrival, so a lock that is freed again and again is granted (strong fairness of
`LockAccount`, `PostEntry`, `SaveOrder`, `RejectOrder`). Sweeps recur, because beat dispatches one
every five ticks whatever happened before (`config/settings/base.py`). Nothing makes a request, a
tick, a cancellation or a crash happen. In `Streams` a resumed auth handler, a pending disconnect and
an armed timer go on, because asyncio runs every ready task; channel messages need not arrive, and
`RevokedSocketCloses` does not use them: the expiry timer alone closes a socket whose kill was lost.
In `Feed` the browser runs every callback and fires every timer, and the server answers what reached it;
the user, the network's losses and the expiry of tokens need not do anything.

## Disagreements between code and documents

Shown by a run:

* `NoDeadlock`: a sweep locks the row of an OPEN market order and then its accounts; the placement
  of that order holds the accounts and then updates the row. README.md says sixteen concurrent
  trades cannot deadlock each other. Postgres fails one of them with an error that is not in
  `REJECTABLE`, so the request or the rest of the sweep is lost; the order is resolved later
  (`MarketOrdersResolve`).
* `EntryMeansFilled`: `reject_order` writes the status by primary key, whatever it is by now. When
  one attempt is refused while the other one fills the order, the order ends up rejected and has an
  entry that moved money. Statements and the order list show it as rejected, since
  `build_brokerage_statement` asks for filled orders.
* `SignOutRevokes`: a sign-out whose access token has expired refreshes first and then sends the same
  body again, with the refresh token that was just rotated away. The server refuses it, `signOut` ignores
  that, and the session stays alive (`AuthProvider.tsx` 125-128).
* `RestingMeansOpen`: the retry of a market order that was refused is answered 201 with the rejected
  order, where `trading/views.py` promises a filled one; the order ticket says that it rests.

Not shown by a run.

* Trading: a cancellation between a refused fill and `reject_order` is overwritten in the same way
  (`test_orders_limit.py` 127 tests the sequential case). Partial exits can use up the basis while a sliver of
  shares is left; its cost rounds to zero and `_sell_lines` refuses every sale of it.
* Identity: `identity/services.py` 78 says that revocation blacklists every live refresh token of the
  family. The token of a login is missed, because the stored text has no `sid` yet, and so is a successor
  whose row a concurrent rotation inserts afterwards; neither can be used (`NothingAfterRevocation`). Two
  replays of one token that race may both audit `token_reuse_detected`; two concurrent refreshes of one
  token may both succeed, which forks the family; two concurrent enrollments leave two unconfirmed
  devices, and confirmation reads the older one; a handler that dies between blacklisting the token and
  revoking the session leaves a session without a usable token.
* Trading: `cancel_order` commits the status and its audit row one after the other, so a crash leaves a
  cancellation without a row (`trading/services.py` 431).
* Accounts: a type or an instrument changed on the admin page leaves a customer's account without a number, or a
  bookkeeping one with it, for good: `save` numbers new rows only (`accounts/admin.py` 22, `models.py` 205;
  `CustomersAreNumbered`). Nothing keeps two accounts from drawing the same number, which no index can see in ciphertext.
* Encryption: `crypto.py` 22 says that a rotation has "no window where half the table is unreadable". While a
  release rolls, `app_blue` writes under the new key and `app_green` cannot read that; a second factor confirmed on
  one replica fails on the other. Deploying the new key behind the old one first would close the window. The
  same docstring lets the old key go "when nothing references it", but an admin page opened before its row was re-keyed
  writes the old ciphertext back, unreadable if the key has gone meanwhile; `NothingOrphaned` says that this is the only
  way. It also says to "re-save the rows", but saving a row does not encrypt it again; only assigning `number` or
  `secret` does, and no command of the repository does that.
* Registration: addresses are "enforced unique" by a query before the transaction. Two registrations at once both
  pass, and only so (`TwinsRaced`); the login by that address reaches the older user. Usernames are compared
  exactly at registration and without case at login: who registers "Ann" while "ann" exists can never log in by it.
* Realtime: `consumers.py` 134-136 says that a socket moved to a new session is no longer closed by the
  revocation of the old one, but the consumer never leaves the old group, neither then nor in `disconnect`.
  A session revoked between the token check and the `group_add` of its socket is not followed by a kill,
  so the socket lives on until the token expires.
* Frontend: `client.ts` 163-169 takes a network error or a 5xx during a refresh for the end of the session,
  where `AuthProvider.tsx` 68-76 means to tell the two apart. "Your transfer was not sent." is also said
  when only the reply was lost. A late reply of `me` after a sign-out sets the user again, a refresh that ends
  after `clearSession` stores tokens again, and a close with 4403 may clear a newer login. A reload during a
  refresh, or a second tab, replays a rotated token. The re-auth timer sends the token it has, refreshed or
  not; `connected` stays true after the socket closes; 4429 clears the subscriptions.
* Back office: an instrument whose ticks have all been purged (delisted, or idle for `PRICE_TICK_RETENTION_DAYS`)
  is valued at its initial price. An exception other than IntegrityError leaves the file without its row
  (`statements/tasks.py` 129). A run of `advance_prices` that outlives its mutex deletes that of another
  run. A fill around midnight at the end of a month may have its order and its lines in different months. Somebody who
  sold out by such a fill, or by one whose order was overwritten as rejected (`EntryMeansFilled`), gets no
  statement for the month although "the user did" something in it (`statements/services.py` 281); `RunLeavesNoGap`
  says that these are the only two cases.
  `generate_monthly` does not refuse the current month, and run by hand within seconds of midnight it may
  miss a posting in flight, whose lines are stamped in the closed month (`accounts/models.py` 43).

## Proofs

`TransfersProofs` proves, for all accounts, keys, threads, requests and bounds, `OrderedWaiting`,
`LogMatchesLedger`, `AnswerNamesTheRequest` and the refinement `ImplementsLedger`, and beside them `TypeOK`, `NoOverdraft`
and `KeySpentOnce`.

Two inductive invariants carry them. `IInv` holds what a thread knows at each statement: its
request is valid (`ValidInv`); it holds exactly the rows it has stopped wanting, and takes them in
ascending order (`HoldsInv`); it has a slot of the key index exactly while its entry is uncommitted
(`SlotInv`); the journal has no entry with a key whose slot it has (`KeyInv`); and the balance it
checked still covers the amount (`FundsInv`). None of the properties is inductive without these: an
overdraft is impossible because the row of the source is held from the check to COMMIT, and nobody
else can reduce the balance meanwhile (`CommitDisjoint`). `Frame` says that a step of one thread
leaves the locks of the others alone, so most of the proof is about a thread's own step. `LogInv`
relates answers, audit rows and events to the journal; it needs only `TypeOK` and that the journal
grows (`JournalGrows`). The refinement is the identity on the journal and the balances: `Commit` is
`Post` of the abstract ledger (`CommitEffect`), every other step stutters.

`TradingProofs` proves every safety property of `Trading`: `NothingOversold`, `NoDust`,
`PostedOnce`, `EntryAndOrderAgree` (which implies it), `LimitRespected`, `ReplyNamesOwnOrder` and
`ResolvedLimitOrderStaysUnposted`, for any users, accounts, prices, tickets, placers and sweepers. Its
`IInv` says of each worker what it knows about its order (`Knows`), that it holds both accounts of the
fill or is about to (`Holds`), that a drafted entry is still affordable, still the one execute_fill would
compute and the only one of its order (`Covered`), and that a limit order is filled under its claim while
it is open (`Claims`); `BooksInv` relates journal, orders and trail. `Covered` is why nothing is oversold or
posted twice: what it depends on are rows that `Holds` keeps from everybody else (`Frame`, `SameFill`). The
arithmetic is in `PartCostsLess`: a partial exit, rounded half to even, never costs more than the basis.
`RoomInv` bounds the number of orders, so that each has a row that can be claimed.

`StreamsProofs` proves that nothing is granted after revocation, a replay ends its family, disabling MFA ends the
sessions, a code is spent once, a session is revoked once (`RevokedOnceHolds`, which no run repeats), a socket gets
its own user's events only, and its groups match its subscriptions. For the last one `GroupsInv` says that the
price groups of a socket are its subscriptions as long as it is there, and that an auth handler only runs on a
socket that is there; what a socket leaves when it goes is then all of it, because the only user group it can be in
is that of its identity (`SInv`). `TypeOK` needs more than types: which rows a handler may name at each statement is
in `IInv`, and `Ranged` adds the rest (budgets, TOTP steps within reach of the clock, the rows a call names at
all, a socket whose handler rests joins nothing). Assumed are finitely many symbols and at least one user.

`FrontendProofs` is about any number of calls under way, losses, expiries, late requests and reloads. `PageInv` has one
part for each property beside the types and the tokens issued: `OnceInv` (a token that was presented is held by
nobody but the call that presents it, because the refresh in flight is shared), `SurvivesInv` (what expired is only
ever the access token), `KeysInv` (the key of an attempt is held by that attempt's requests alone and bound at
most once), `NumbersInv` with `RepliesTrue` (what a form says of its submission is what the row says). `FeedInv` is
about the socket: `Streamed` folds the frames on their way into what the consumer will stream once it has read
them, so that sending changes it by one frame, reading leaves it alone, and `PricesFollowScreen` is the case without
frames.

`SumTheorems` is induction by the least counterexample: if some subset had no sum, or a sum that the theorem does
not allow, a smallest one would (`LeastOf`, from the well-founded order of the numbers), and it is refuted by
the one before. It gives that sums over finite sets exist, do not depend on the order in which elements are taken,
are those of equal functions, and add up over disjoint sets.

`BooksProofs` uses it for `Posting` and `Books`. The loops of `post_entry` and `conserve_shares`, which fill a dictionary line
by line, and the `SUM ... GROUP BY` of the triggers are the same sums (`AddingSums`, `TallySums`), so what the service
accepts the database accepts (`ServiceForesees`); what `conserve_shares` appends brings each instrument back to zero
(`FillCompleted`, `CompletedFillIsAccepted`). `BooksInv` says of every entry of the history that it has one instant
and balances, that it conserves shares once the backfill has run, and that its key and digest are what its lines
say; the backfills keep that, which gives `HistoryConserved` and `OldKeysReplay`. Assumed are finitely many
instruments and `HistoriesAssumption`, the entries an earlier release could have posted; the run evaluates both.

`JobsProofs` proves every property of the jobs. `LastPriceIsNewest`: unless a run has outlived its mutex, a run that
has not ended holds it, so no two of them meet (`OneRun`), and what it is about to save is stamped later than every
tick there is (`SavesNewest`). About statements everything rests on `Closed`: of a month that may be stated,
nothing stamped is still uncommitted and no order resolved in it is about to be overwritten, and a month that is closed
stays closed. So its lines, balances, fills and activity
are the same in every later state (`LinesFixed`, `AnswersFixed`, `FillsFixed`, `MonthFixed`), and the price at its end is too while
the purge has not reached it (`PriceFound`). `JInv` adds what a run knows at each step (`Good`: what it has read is what the
month says, and every subject it went past is settled), what a row says (`RowGood`) and what a completed run
leaves (`Done`). `OrdersKnown` gives every line on a position an order that was resolved no earlier than the line was
stamped, which leaves the two cases of `RunLeavesNoGap`. All this gives `RunLeavesNoGap` and `BrokerageValued`, and the refinement of `MonthlyArchive`: a COMMIT is its
`Post`, an INSERT of a cash statement its `Issue`, where the opening balance plus the lines is the closing balance
because they are sums over disjoint sets of lines (`OpeningAndLines`). `FilesMatchRows` has an invariant of its own,
`FilesInv`: a run between file and row holds a file that no row and no other run names. A deal is assumed to be a
sequence of lines on the chart's accounts (`StatementsAssumption`).

`CustomersProofs` proves every safety property of `Vault` and `Onboarding`. `VaultInv` says of each account what holds of it as
long as nobody retyped it or emptied its number by hand (`Retyped`, `Renumbered`): its digits match, and it has a number
exactly if a customer holds it (`AccountsOk`). Nothing may run before both migrations did (`Served`,
`Scripted`), or a row could be opened and then numbered a second time. A page that was opened long ago holds the
number and the type of its row, since a row keeps them (`FormsOk`), so posting it unchanged changes no value
(`NumbersAreForLife`). `RowsAreSound` is the part of it that speaks of one row: mask, number, slips and sealed secrets.
`NothingOrphaned` is about steps: a ciphertext that appears in a table comes from another row, from the first key of
a ring, or from a page (`WrittenColumns`). Of these the first has a key the operator kept because a row named it;
the second has one because every replica that runs writes under a key the operator still has (`Covered`),
since a key is dropped from the end after all replicas have the whole ring; so only the third may be without
(`OrphansArePosted`). `SlipsAreCaught` is arithmetic: a valid number is 1 modulo 97
(`ValidIsOneModulo97`), and no place times a digit, or nine times that, is a multiple of the prime 97
(`SlipsAreNoMultiples`).

`RegistrationInv` says of each request what it owns: before its INSERT nothing, in its transaction a user row and
the rows the statements so far have written, afterwards all of them or none (`OwnLedger`); each user row belongs to
one request, and open and committed usernames differ (`UsernamesDiffer`, which no run repeats). `TwinsRaced` holds since the check saw every user committed
by then and committed users stay. `OldestKeepsTheLogin` is about the first match, which can only be replaced by a
smaller key. Assumed are `BodyDigits` between four and ten (the code has ten), that numbers are drawn from the body space, and
that the placeholders are no values.

The other assumptions are those the modules name: accounts are numbers in lock order, opening balances are not
negative, a user's position account is not one of the cash accounts of the tickets, a position without
shares opens without a basis, prices are positive, and `NoKey`, `NoThread` and `Nobody` are none of the keys,
threads or workers.

Model-checked only: liveness (`EveryRequestEnds`, `MarketOrdersResolve`, `RevokedSocketCloses`, `StreamComesBack`), which needs
fairness and ENABLED. Every invariant, action property and refinement that a passing run checks has a theorem.

## Not modelled

Rendering, the other pages of the admin, pagination, logging, the OpenAPI schema, the presentation in the frontend
and in the portfolio view, the demo data and the benchmark: they keep no state that these properties depend on. Of
the deployment, backups, the proxy and the worker's restart are left out. Nor are the redaction of audit rows, the
audit rows that the ledger and trading views write about refusals, and the backfill of order digests modelled.

## Plan

Done: the ledger with its history, trading, identity and realtime, the client, markets and statements, registration, encryption and the release; proofs
of all their safety properties and of both refinements.

Left, in this order:

1. The backfill of order digests.
2. The audit rows of the ledger and trading views.
3. A second tab, which shares localStorage but not the promise of the refresh.
