------------------------------- MODULE Client -------------------------------
(***************************************************************************)
(* One browser page: the API client, the token store, the auth provider    *)
(* and the two forms that move money (frontend/src/api, auth, routes),     *)
(* against the part of the server they can tell apart: which tokens are    *)
(* good, and which idempotency key is bound to what.                       *)
(*                                                                         *)
(* The page runs one callback at a time, so an action is what happens      *)
(* between two awaits. What interleaves are its requests, of which any     *)
(* number are on their way at once, and the clock.                         *)
(***************************************************************************)
EXTENDS Integers, Sequences, FiniteSets

CONSTANTS
    Slots,      \* the requests a page has under way at once
    Spare,      \* and the one a stream starts when its session is lost
    Loads       \* what the user and the world do, one of them in each behaviour

Budgets == {"calls", "losses", "expiries", "revocations", "reloads", "moves"}
Kinds == {"query", "me", "login", "logout", "transfer", "order"}

ASSUME SlotsAssumption == Spare \notin Slots
ASSUME LoadsAssumption ==
    \A l \in Loads :
        /\ l.kinds \subseteq Kinds
        /\ l.sockets \in BOOLEAN
        /\ l.left \in [Budgets -> Nat]

VARIABLES
    server,     \* AuthSession and OutstandingToken: newest, expired and revoked serials
    bound,      \* JournalEntry and Order by idempotency key
    limbo,      \* requests the page gave up on and the server may still get
    access,     \* the access token, in memory
    stored,     \* the refresh token, in localStorage
    user,       \* the user object of the provider, 0 for null
    refresh,    \* refreshInFlight
    call,       \* the apiFetch calls under way
    form,       \* attemptKey and the notice of each form
    presented,  \* history: the refresh tokens this page load sent, in order
    disturbed,  \* history: a loss, a revocation elsewhere, a reload in the middle
    leaving,    \* history: sessions whose user asked to sign out
    load, left  \* the load, and what is left of its budgets

serverVars == <<server, bound, limbo>>
pageVars == <<access, stored, user, refresh, call, form>>
clientVars == <<serverVars, pageVars, presented, disturbed, leaving, load, left>>

-----------------------------------------------------------------------------
(* A token pair is named after its session and its place in the family.    *)
Blank == [session |-> 0, serial |-> 0]
NewSession == [newest |-> 1, expired |-> 0, revoked |-> FALSE]
Pair(s, n) == [session |-> s, serial |-> n]
Newest(s) == Pair(s, server[s].newest)

(* SessionAwareJWTAuthentication: an access token is good until it expires *)
(* or its session is revoked.                                              *)
Good(token) ==
    /\ token.session # 0
    /\ ~server[token.session].revoked
    /\ token.serial > server[token.session].expired

Lost == [code |-> "lost", pair |-> Blank, status |-> "none"]
Code(code) == [Lost EXCEPT !.code = code]
Granted(pair) == [Lost EXCEPT !.code = "200", !.pair = pair]
Shown(code, status) == [Lost EXCEPT !.code = code, !.status = status]

NoCall == [kind |-> "none", step |-> "idle", again |-> FALSE, token |-> Blank,
           body |-> "none", key |-> 0, attempt |-> 0, captured |-> Blank,
           number |-> 0, reply |-> Lost]

(* What a page asks, and the request that follows a sign-in or a reload.   *)
Asking(kind, token) == [NoCall EXCEPT !.kind = kind, !.token = token]
LoadingUser(token) ==
    [NoCall EXCEPT !.kind = "me", !.step = "sent", !.token = token, !.body = "signing in"]

Bodies(kind) == IF kind = "order" THEN {"market", "limit"} ELSE {"small", "large"}
NoNotice == [text |-> "none", key |-> 0, body |-> "none", number |-> 0, status |-> "none"]

(* A form that is mounted again knows nothing of the attempt before.       *)
Forms == {"transfer", "order"}
NextAttempt(f, notice) == [attempt |-> form[f].attempt + 1, key |-> 0, notice |-> notice]

Spend(budget) == left[budget] > 0 /\ left' = [left EXCEPT ![budget] = @ - 1]
Waiting == {c \in DOMAIN call : call[c].step = "waiting"}

ClientInit ==
    /\ load \in Loads
    /\ left = load.left
    /\ server = <<NewSession>>
    /\ bound = <<>>
    /\ limbo = {}
    /\ access = Pair(1, 1)
    /\ stored = Pair(1, 1)
    /\ user = 1
    /\ refresh = [state |-> "none", token |-> Blank, reply |-> Lost]
    /\ call = [c \in Slots \cup {Spare} |-> NoCall]
    /\ form = [f \in Forms |-> [attempt |-> 1, key |-> 0, notice |-> NoNotice]]
    /\ presented = <<>>
    /\ disturbed = FALSE
    /\ leaving = {}

-----------------------------------------------------------------------------
(* The server, as the page sees it: every way it may answer a request, and *)
(* what it has committed by then.                                          *)

Answer(reply) == [reply |-> reply, server |-> server, bound |-> bound]

(* POST /transfers/: 201 for a new entry, 200 for a replay, 409 for a key  *)
(* spent on another movement, 400 for what the ledger refuses, which binds *)
(* no key.                                                                 *)
Row(q, status) ==
    [form |-> q.kind, body |-> q.body, attempt |-> q.attempt, number |-> q.number,
     status |-> status]
Binding(q, status) ==
    [k \in DOMAIN bound \cup {q.key} |-> IF k = q.key THEN Row(q, status) ELSE bound[k]]
Binds(reply, q, status) == [reply |-> reply, server |-> server, bound |-> Binding(q, status)]

TransferAnswers(q) ==
    IF q.key \in DOMAIN bound
    THEN {Answer(Code(IF bound[q.key].body = q.body THEN "200" ELSE "409"))}
    ELSE {Answer(Code("400")), Binds(Code("201"), q, "posted")}

(* POST /orders/: the row is bound to its key before its fill is tried, so *)
(* a refused market order stays, rejected; a replay is 201 with the row as *)
(* it is now.                                                              *)
OrderAnswers(q) ==
    LET placed(code, status) == Binds(Shown(code, status), q, status) IN
    IF q.key \in DOMAIN bound
    THEN {Answer(IF bound[q.key].body = q.body
                 THEN Shown("201", bound[q.key].status)
                 ELSE Code("409"))}
    ELSE IF q.body = "market" THEN {placed("201", "filled"), placed("400", "rejected")}
    ELSE {placed("201", "open")}

(* POST /auth/logout/: LogoutSerializer takes the newest refresh token of  *)
(* the session and refuses one that was rotated away.                      *)
LogoutAnswers(q) ==
    LET s == q.captured.session IN
    IF q.captured = Newest(s) /\ ~server[s].revoked
    THEN {[reply |-> Code("200"), server |-> [server EXCEPT ![s].revoked = TRUE],
           bound |-> bound]}
    ELSE {Answer(Code("401"))}

(* POST /auth/token/ and /auth/token/mfa/.                                 *)
LoginAnswers ==
    {Answer(Code("401")),
     [reply |-> Granted(Pair(Len(server) + 1, 1)), server |-> Append(server, NewSession),
      bound |-> bound]}

Answers(q) ==
    IF q.kind = "login" THEN LoginAnswers
    ELSE IF ~Good(q.token) THEN {Answer(Code("401"))}
    ELSE CASE q.kind = "transfer" -> TransferAnswers(q)
           [] q.kind = "order" -> OrderAnswers(q)
           [] q.kind = "logout" -> LogoutAnswers(q)
           [] OTHER -> {Answer(Code("200"))}

Commit(answer) == server' = answer.server /\ bound' = answer.bound

Serve(c) ==
    /\ call[c].step = "sent"
    /\ \E a \in Answers(call[c]) :
          /\ Commit(a)
          /\ call' = [call EXCEPT ![c].step = "answered", ![c].reply = a.reply]
    /\ UNCHANGED <<limbo, access, stored, user, refresh, form, presented, disturbed, leaving,
                   load, left>>

(* A request the page has given up on arrives after all.                   *)
ServeLate ==
    /\ \E q \in limbo :
          /\ limbo' = limbo \ {q}
          /\ \E a \in Answers(q) : Commit(a)
    /\ UNCHANGED <<pageVars, presented, disturbed, leaving, load, left>>

(* POST /auth/token/refresh/: the newest token is rotated, and a token     *)
(* that was rotated away takes its session with it (handle_possible_reuse).*)
ServeRefresh ==
    LET s == refresh.token.session
        good == refresh.token = Newest(s) /\ ~server[s].revoked
    IN
    /\ refresh.state = "sent"
    /\ server' = [server EXCEPT ![s].newest = IF good THEN @ + 1 ELSE @,
                                ![s].revoked = ~good]
    /\ refresh' = [refresh EXCEPT !.state = "answered",
                      !.reply = IF good THEN Granted(Pair(s, server[s].newest + 1))
                                ELSE Code("401")]
    /\ UNCHANGED <<bound, limbo, access, stored, user, call, form, presented, disturbed,
                   leaving, load, left>>

(* The matching sweep fills or rejects an order that rests.                *)
Resolve(k) ==
    /\ bound[k].status = "open"
    /\ \E status \in {"filled", "rejected"} : bound' = [bound EXCEPT ![k].status = status]
    /\ UNCHANGED <<server, limbo, pageVars, presented, disturbed, leaving, load, left>>

-----------------------------------------------------------------------------
(* The token store, and the ends of a session on the page. Without a user  *)
(* RequireAuth unmounts every screen but the login, the forms included.    *)

(* Mutant: the rotated refresh token is not stored.                        *)
SetAccessOnly(pair) == access' = pair /\ stored' = IF stored = Blank THEN pair ELSE stored

SetTokens(pair) == access' = pair /\ stored' = pair
ClearSession == access' = Blank /\ stored' = Blank

Unmounted == [f \in Forms |-> NextAttempt(f, NoNotice)]
NoUser == user' = 0 /\ form' = Unmounted

NewUser == user' = IF user = 1 THEN 2 ELSE 1

Ends(S) == [c \in DOMAIN call |-> IF c \in S THEN NoCall ELSE call[c]]

(* announceExpiry, by every call of S at once.                             *)
Expire(S) ==
    /\ ClearSession
    /\ NoUser
    /\ call' = Ends(S)

(* What a call sends: sendWithRefresh reads the access token when it       *)
(* starts, and the resend is given the token of the refresh.               *)
Again(q, token) == [q EXCEPT !.step = "sent", !.again = TRUE, !.token = token]
Resent(S, token) == [c \in DOMAIN call |-> IF c \in S THEN Again(call[c], token) ELSE call[c]]

(* Mutant: every 401 starts a refresh of its own, which replaces the one   *)
(* that was there.                                                         *)
RefreshAlone(c) ==
    /\ refresh' = [state |-> "sent", token |-> stored, reply |-> Lost]
    /\ presented' = Append(presented, stored)
    /\ call' = [call EXCEPT ![c].step = "waiting"]

(* refreshOnce: join the refresh in flight, or start it.                   *)
RefreshOnce(c) ==
    /\ call' = [call EXCEPT ![c].step = "waiting"]
    /\ \/ /\ refresh.state # "none"
          /\ UNCHANGED <<refresh, presented>>
       \/ /\ refresh.state = "none"
          /\ refresh' = [state |-> "sent", token |-> stored, reply |-> Lost]
          /\ presented' = Append(presented, stored)

(* sendWithRefresh on the first 401 of a call. Without a stored token the  *)
(* refresh fails before it is sent.                                        *)
Unauthorized(c) ==
    LET q == call[c] IN
    /\ q.step = "answered" /\ q.reply.code = "401" /\ q.kind # "login" /\ ~q.again
    /\ IF refresh.state = "none" /\ stored = Blank
       THEN Expire({c}) /\ UNCHANGED <<refresh, presented>>
       ELSE RefreshOnce(c) /\ UNCHANGED <<access, stored, user, form>>
    /\ UNCHANGED <<serverVars, disturbed, leaving, load, left>>

(* refreshAccessToken resolves: the pair is stored, refreshInFlight is     *)
(* null again, and everyone who waited sends again.                        *)
Refreshed ==
    /\ refresh.state = "answered" /\ refresh.reply.code = "200"
    /\ SetTokens(refresh.reply.pair)
    /\ call' = Resent(Waiting, refresh.reply.pair)
    /\ refresh' = [refresh EXCEPT !.state = "none", !.token = Blank, !.reply = Lost]
    /\ UNCHANGED <<serverVars, user, form, presented, disturbed, leaving, load, left>>

(* It rejects: each of them announces that the session is over.            *)
RefreshFailed ==
    /\ refresh.state = "answered" /\ refresh.reply.code # "200"
    /\ Expire(Waiting)
    /\ refresh' = [refresh EXCEPT !.state = "none", !.token = Blank, !.reply = Lost]
    /\ UNCHANGED <<serverVars, presented, disturbed, leaving, load, left>>

(* The second send is inside the same try: also a network error on it is   *)
(* announced as the end of the session.                                    *)
ResendLost(c) ==
    /\ call[c].step = "answered" /\ call[c].again /\ call[c].reply.code = "lost"
    /\ Expire({c})
    /\ UNCHANGED <<serverVars, refresh, presented, disturbed, leaving, load, left>>

-----------------------------------------------------------------------------
(* Replies, as the callers of apiFetch take them.                          *)

Replied(c, kind) ==
    /\ call[c].step = "answered"
    /\ call[c].kind = kind
    /\ call[c].again => call[c].reply.code # "lost"
    /\ ~call[c].again => (call[c].reply.code # "401" \/ kind = "login")
    /\ UNCHANGED <<serverVars, refresh, presented, disturbed, leaving, load, left>>

QueryReplied(c) ==
    /\ Replied(c, "query")
    /\ call' = Ends({c})
    /\ UNCHANGED <<access, stored, user, form>>

(* loadUser: every answer is a new object.                                 *)
UserLoaded(c) ==
    /\ Replied(c, "me")
    /\ call' = Ends({c})
    /\ IF call[c].reply.code = "200" THEN NewUser ELSE UNCHANGED user
    /\ UNCHANGED <<access, stored, form>>

(* signIn and completeMfa: store the pair, then load the user.             *)
SignedIn(c) ==
    LET pair == call[c].reply.pair IN
    /\ Replied(c, "login")
    /\ IF call[c].reply.code = "200"
       THEN /\ SetTokens(pair)
            /\ call' = [call EXCEPT ![c] = LoadingUser(pair)]
       ELSE /\ call' = Ends({c})
            /\ UNCHANGED <<access, stored>>
    /\ UNCHANGED <<user, form>>

(* signOut: whatever the server said, the page forgets the session.        *)
SignedOut(c) ==
    /\ Replied(c, "logout")
    /\ ClearSession
    /\ NoUser
    /\ call' = Ends({c})

(* Mutant: a reply is taken for a new posting, whatever its status.        *)
SentWhateverStatus(reply) ==
    CASE reply.code \in {"200", "201"} -> "sent"
      [] reply.code = "409" -> "conflict"
      [] reply.code = "lost" -> "unreachable"
      [] OTHER -> "refused"

(* useTransfer and onSubmit: what the form says.                           *)
TransferText(reply) ==
    CASE reply.code = "201" -> "sent"
      [] reply.code = "200" -> "already"
      [] reply.code = "409" -> "conflict"
      [] reply.code = "lost" -> "unreachable"
      [] OTHER -> "refused"

OrderText(reply) ==
    CASE reply.code = "201" -> IF reply.status = "filled" THEN "filled" ELSE "resting"
      [] reply.code = "409" -> "conflict"
      [] reply.code = "lost" -> "unreachable"
      [] OTHER -> "refused"

(* The key survives what may be retried, and is dropped with an answer     *)
(* that ends the attempt. A form that was unmounted meanwhile is not told. *)
Notify(c, text) ==
    LET q == call[c]
        notice == [text |-> text, key |-> q.key, body |-> q.body, number |-> q.number,
                   status |-> q.reply.status]
    IN
    form' = IF form[q.kind].attempt # q.attempt THEN form
            ELSE IF text \in {"unreachable", "refused"}
            THEN [form EXCEPT ![q.kind].notice = notice]
            ELSE [form EXCEPT ![q.kind] = NextAttempt(q.kind, notice)]

Submitted(c) ==
    /\ \/ Replied(c, "transfer") /\ Notify(c, TransferText(call[c].reply))
       \/ Replied(c, "order") /\ Notify(c, OrderText(call[c].reply))
    /\ call' = Ends({c})
    /\ UNCHANGED <<access, stored, user>>

-----------------------------------------------------------------------------
(* The user.                                                               *)

Numbered(q) == [q EXCEPT !.step = "sent", !.number = left.calls]

Starts(c, q) == call[c].step = "idle" /\ call' = [call EXCEPT ![c] = Numbered(q)]

Asks(c, q) ==
    /\ c # Spare
    /\ q.kind \in load.kinds
    /\ Spend("calls")
    /\ Starts(c, q)
    /\ UNCHANGED <<serverVars, access, stored, user, refresh, presented, disturbed, load>>

Fetch(c, kind) ==
    /\ user # 0
    /\ Asks(c, Asking(kind, access))
    /\ UNCHANGED <<form, leaving>>

SignIn(c) ==
    /\ user = 0
    /\ \A d \in DOMAIN call : call[d].kind # "login" /\ call[d].body # "signing in"
    /\ Asks(c, Asking("login", Blank))
    /\ UNCHANGED <<form, leaving>>

(* signOut reads the refresh token, then sends it.                         *)
SignOutCall == [Asking("logout", access) EXCEPT !.captured = stored]

SignOut(c) ==
    /\ user # 0
    /\ stored # Blank
    /\ Asks(c, SignOutCall)
    /\ leaving' = leaving \cup {stored.session}
    /\ UNCHANGED form

(* Nothing to revoke: only the page forgets.                               *)
SignOutLocally ==
    /\ user # 0
    /\ stored = Blank
    /\ "logout" \in load.kinds
    /\ ClearSession
    /\ NoUser
    /\ UNCHANGED <<serverVars, refresh, call, presented, disturbed, leaving, load, left>>

(* Mutant: the key is made in the mutation, as a retry would.              *)
AttemptKeyMinted(f) == left.calls

(* attemptKey.current ??= crypto.randomUUID().                             *)
AttemptKey(f) == IF form[f].key = 0 THEN left.calls ELSE form[f].key

(* onSubmit, with whatever the fields hold by now. The button is disabled  *)
(* while a submission of this form is pending.                             *)
Submission(f, body) ==
    [Asking(f, access) EXCEPT !.body = body, !.key = AttemptKey(f), !.attempt = form[f].attempt]

Submit(c, f, body) ==
    /\ user # 0
    /\ \A d \in DOMAIN call : call[d].kind = f => call[d].attempt # form[f].attempt
    /\ Asks(c, Submission(f, body))
    /\ form' = [form EXCEPT ![f].key = AttemptKey(f), ![f].notice = NoNotice]
    /\ UNCHANGED leaving

-----------------------------------------------------------------------------
(* The world.                                                              *)

Matters(q) == q.kind \in {"transfer", "order", "logout"} /\ q.step = "sent"

(* The page is told that a request failed; it may have been served, or be  *)
(* served later. A proxy's 502 for the refresh counts as one.              *)
Lose(c) ==
    /\ call[c].step \in {"sent", "answered"}
    /\ Spend("losses")
    /\ call' = [call EXCEPT ![c].step = "answered", ![c].reply = Lost]
    /\ limbo' = limbo \cup {q \in {call[c]} : Matters(q)}
    /\ disturbed' = TRUE
    /\ UNCHANGED <<server, bound, access, stored, user, refresh, form, presented, leaving, load>>

LoseRefresh ==
    /\ refresh.state \in {"sent", "answered"}
    /\ Spend("losses")
    /\ refresh' = [refresh EXCEPT !.state = "answered", !.reply = Lost]
    /\ disturbed' = TRUE
    /\ UNCHANGED <<serverVars, access, stored, user, call, form, presented, leaving, load>>

(* The access tokens issued so far reach their end.                        *)
ExpireAccess(s) ==
    /\ server[s].expired < server[s].newest
    /\ Spend("expiries")
    /\ server' = [server EXCEPT ![s].expired = server[s].newest]
    /\ UNCHANGED <<bound, limbo, pageVars, presented, disturbed, leaving, load>>

(* Another device of the user's disables the second factor, or the refresh *)
(* token comes to its own end.                                             *)
RevokeElsewhere(s) ==
    /\ ~server[s].revoked
    /\ Spend("revocations")
    /\ server' = [server EXCEPT ![s].revoked = TRUE]
    /\ disturbed' = TRUE
    /\ UNCHANGED <<bound, limbo, pageVars, presented, leaving, load>>

(* The page is loaded again: memory is gone, localStorage is not, and the  *)
(* bootstrap of the provider loads the user if there is a token to spend.  *)
Reload ==
    /\ Spend("reloads")
    /\ access' = Blank
    /\ user' = 0
    /\ form' = Unmounted
    /\ refresh' = [state |-> "none", token |-> Blank, reply |-> Lost]
    /\ presented' = <<>>
    /\ limbo' = limbo \cup {q \in {call[c] : c \in DOMAIN call} : Matters(q)}
    /\ disturbed' = (disturbed \/ refresh.state # "none")
    /\ IF stored = Blank THEN call' = [c \in DOMAIN call |-> NoCall]
       ELSE \E b \in Slots :
               call' = [c \in DOMAIN call |-> IF c = b THEN LoadingUser(Blank) ELSE NoCall]
    /\ UNCHANGED <<server, bound, stored, leaving, load>>

Progress(c) ==
    \/ Serve(c) \/ Unauthorized(c) \/ ResendLost(c) \/ QueryReplied(c)
    \/ UserLoaded(c) \/ SignedIn(c) \/ SignedOut(c) \/ Submitted(c)

Asked(c) ==
    \/ \E kind \in {"query", "me"} : Fetch(c, kind)
    \/ SignIn(c) \/ SignOut(c)
    \/ \E f \in Forms : \E body \in Bodies(f) : Submit(c, f, body)

World ==
    \/ \E c \in DOMAIN call : Lose(c)
    \/ LoseRefresh \/ Reload \/ ServeLate
    \/ \E s \in DOMAIN server : ExpireAccess(s) \/ RevokeElsewhere(s)
    \/ \E k \in DOMAIN bound : Resolve(k)

ClientNext ==
    \/ \E c \in DOMAIN call : Progress(c) \/ Asked(c)
    \/ ServeRefresh \/ Refreshed \/ RefreshFailed \/ SignOutLocally
    \/ World
=============================================================================
