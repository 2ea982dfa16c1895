------------------------------- MODULE Streams ------------------------------
(***************************************************************************)
(* Sockets on top of Sessions: StreamConsumer in                           *)
(* backend/realtime/consumers.py. Channels runs the handlers of one socket *)
(* one after the other; the two timers are tasks beside them, and sessions *)
(* are revoked by other processes at any time, in particular while the     *)
(* auth handler awaits the database or the channel layer.                  *)
(***************************************************************************)
EXTENDS Sessions

CONSTANTS
    Symbols,                \* instruments that can be subscribed to
    WS_MAX_SUBSCRIPTIONS

ASSUME SymbolsAssumption == WS_MAX_SUBSCRIPTIONS \in Nat /\ IsFiniteSet(Symbols)

VARIABLES
    socket,         \* absent, open, closing (close sent or received), gone
    identity,       \* session of the last accepted auth frame, or 0
    joining,        \* session an auth handler has checked and not finished
    step,           \* what that handler does next
    timer,          \* the task that will close the socket
    code,           \* the close code
    prices,         \* self.subscriptions
    received,       \* users whose events the client was sent
    frames, events  \* events so far

consumer == <<socket, identity, joining, step, timer, code, prices, received>>
streamBudget == <<frames, events>>
sessionState == <<tables, trail, now, handlers, accepted, budget>>
vars == <<sessionVars, consumer, streamBudget>>

UserOf(s) == sessions[s].user
PriceGroups(symbols) == {PriceGroup(i) : i \in symbols}

Init ==
    /\ SessionsInit
    /\ socket = [k \in Sockets |-> "absent"]
    /\ identity = [k \in Sockets |-> 0]
    /\ joining = [k \in Sockets |-> 0]
    /\ step = [k \in Sockets |-> "ready"]
    /\ timer = [k \in Sockets |-> "none"]
    /\ code = [k \in Sockets |-> 0]
    /\ prices = [k \in Sockets |-> {}]
    /\ received = [k \in Sockets |-> {}]
    /\ frames = 0
    /\ events = 0

-----------------------------------------------------------------------------
(* close(): the first code wins; what follows is up to disconnect.         *)
Close(k, c) ==
    IF socket[k] = "open"
    THEN socket' = [socket EXCEPT ![k] = "closing"] /\ code' = [code EXCEPT ![k] = c]
    ELSE UNCHANGED <<socket, code>>

(* connect.                                                                *)
Connect(k) ==
    /\ socket[k] = "absent"
    /\ k \in load.sockets
    /\ socket' = [socket EXCEPT ![k] = "open"]
    /\ timer' = [timer EXCEPT ![k] = "deadline"]
    /\ UNCHANGED <<sessionState, layer, identity, joining, step, code, prices, received,
                   streamBudget>>

Frame(k) ==
    /\ socket[k] = "open"
    /\ step[k] = "ready"
    /\ frames < load.frames
    /\ frames' = frames + 1

(* Mutant: whoever has a valid token may take the socket over.             *)
AcceptableToAny(k, s) == ActiveSession(s)

(* authenticate_token, then the check that the user stays the same.        *)
Acceptable(k, s) ==
    /\ ActiveSession(s)
    /\ identity[k] # 0 => UserOf(s) = UserOf(identity[k])

(* An auth frame with an access token of session s, or with an expired or  *)
(* malformed one (0).                                                      *)
AuthFrame(k, s) ==
    /\ Frame(k)
    /\ \/ /\ ~Acceptable(k, s)
          /\ Close(k, 4401)
          /\ UNCHANGED <<joining, step>>
       \/ /\ Acceptable(k, s)
          /\ joining' = [joining EXCEPT ![k] = s]
          /\ step' = [step EXCEPT ![k] = "user"]
          /\ UNCHANGED <<socket, code>>
    /\ UNCHANGED <<sessionState, layer, identity, timer, prices, received, events>>

(* The handler resumes: the identity is set, the timers are cancelled, and *)
(* the first time the socket joins its user's group.                       *)
TakeIdentity(k) ==
    LET s == joining[k] IN
    /\ step[k] = "user"
    /\ identity' = [identity EXCEPT ![k] = s]
    /\ timer' = [timer EXCEPT ![k] = "none"]
    /\ Join(k, IF identity[k] = 0 THEN {UserGroup(UserOf(s))} ELSE {})
    /\ step' = [step EXCEPT ![k] = "session"]
    /\ UNCHANGED <<sessionState, inbox, socket, joining, code, prices, received, streamBudget>>

(* Mutant: the expiry task of a token is armed by the first auth only.     *)
JoinSessionUntimed(k) ==
    /\ step[k] = "session"
    /\ Join(k, {SessionGroup(joining[k])})
    /\ step' = [step EXCEPT ![k] = "ready"]
    /\ joining' = [joining EXCEPT ![k] = 0]
    /\ UNCHANGED <<sessionState, inbox, socket, identity, timer, code, prices, received,
                   streamBudget>>

(* It joins the session's group, arms the expiry and answers auth.ok.      *)
JoinSession(k) ==
    /\ step[k] = "session"
    /\ Join(k, {SessionGroup(joining[k])})
    /\ timer' = [timer EXCEPT ![k] = "expiry"]
    /\ step' = [step EXCEPT ![k] = "ready"]
    /\ joining' = [joining EXCEPT ![k] = 0]
    /\ UNCHANGED <<sessionState, inbox, socket, identity, code, prices, received,
                   streamBudget>>

TooMany(k, symbols) == Cardinality(prices[k] \cup symbols) > WS_MAX_SUBSCRIPTIONS

(* _handle_subscribe, behind the check in receive_json that every frame    *)
(* but auth needs an identity.                                             *)
Subscribe(k, symbols) ==
    /\ Frame(k)
    /\ \/ /\ identity[k] = 0
          /\ Close(k, 4401)
          /\ UNCHANGED <<prices, members>>
       \/ /\ identity[k] # 0
          /\ TooMany(k, symbols)
          /\ Close(k, 4429)
          /\ UNCHANGED <<prices, members>>
       \/ /\ identity[k] # 0
          /\ ~TooMany(k, symbols)
          /\ prices' = [prices EXCEPT ![k] = @ \cup symbols]
          /\ Join(k, PriceGroups(symbols))
          /\ UNCHANGED <<socket, code>>
    /\ UNCHANGED <<sessionState, inbox, identity, joining, step, timer, received, events>>

(* _handle_unsubscribe.                                                    *)
Unsubscribe(k, symbols) ==
    /\ Frame(k)
    /\ identity[k] # 0
    /\ prices' = [prices EXCEPT ![k] = @ \ symbols]
    /\ Leave(k, PriceGroups(symbols))
    /\ UNCHANGED <<sessionState, inbox, socket, identity, joining, step, timer, code,
                   received, events>>

-----------------------------------------------------------------------------
(* stream_event and session_kill.                                          *)
Deliver(k) ==
    LET m == Head(inbox[k]) IN
    /\ socket[k] \in {"open", "closing"}
    /\ step[k] = "ready"
    /\ inbox[k] # <<>>
    /\ inbox' = [inbox EXCEPT ![k] = Tail(@)]
    /\ \/ /\ m.type = "stream_event"
          /\ received' = [received EXCEPT ![k] = @ \cup {m.of}]
          /\ UNCHANGED <<socket, code>>
       \/ /\ m.type = "session_kill"
          /\ Close(k, 4403)
          /\ UNCHANGED received
    /\ UNCHANGED <<sessionState, members, identity, joining, step, timer, prices,
                   streamBudget>>

(* _close_when_deadline_passes and _close_when_token_expires.              *)
TimerFires(k) ==
    /\ timer[k] # "none"
    /\ Close(k, 4401)
    /\ timer' = [timer EXCEPT ![k] = "none"]
    /\ UNCHANGED <<sessionState, layer, identity, joining, step, prices, received,
                   streamBudget>>

ClientLeaves(k) ==
    /\ socket[k] = "open"
    /\ Close(k, 1000)
    /\ UNCHANGED <<sessionState, layer, identity, joining, step, timer, prices, received,
                   streamBudget>>

(* Mutant: the price groups are kept.                                      *)
OwnGroupsOnly(k) ==
    IF identity[k] = 0 THEN {}
    ELSE {UserGroup(UserOf(identity[k])), SessionGroup(identity[k])}

(* The groups disconnect leaves.                                           *)
GroupsLeft(k) ==
    PriceGroups(prices[k])
    \cup IF identity[k] = 0 THEN {}
         ELSE {UserGroup(UserOf(identity[k])), SessionGroup(identity[k])}

(* disconnect, dispatched like any other message: after the handler that   *)
(* is running.                                                             *)
Disconnect(k) ==
    /\ socket[k] = "closing"
    /\ step[k] = "ready"
    /\ socket' = [socket EXCEPT ![k] = "gone"]
    /\ timer' = [timer EXCEPT ![k] = "none"]
    /\ Leave(k, GroupsLeft(k))
    /\ UNCHANGED <<sessionState, inbox, identity, joining, step, code, prices, received,
                   streamBudget>>

(* publish, called by transfers and fills: an event of user u.             *)
Publish(u) ==
    /\ events < load.events
    /\ events' = events + 1
    /\ Send(UserGroup(u), StreamEvent(u))
    /\ UNCHANGED <<sessionState, consumer, frames>>

Socket(k) ==
    \/ Connect(k)
    \/ \E s \in 0..Len(sessions) : AuthFrame(k, s)
    \/ TakeIdentity(k) \/ JoinSession(k)
    \/ \E symbols \in SUBSET Symbols \ {{}} : Subscribe(k, symbols) \/ Unsubscribe(k, symbols)
    \/ Deliver(k) \/ TimerFires(k) \/ ClientLeaves(k) \/ Disconnect(k)

Next ==
    \/ (SessionsNext \/ Tick) /\ UNCHANGED <<consumer, streamBudget>>
    \/ \E k \in Sockets : Socket(k)
    \/ \E u \in Users : Publish(u)

Spec == Init /\ [][Next]_vars

(* asyncio runs every task that is ready: handlers resume, timers fire,    *)
(* and a closed connection is reported. Frames and requests may never come.*)
FairSpec ==
    /\ Spec
    /\ \A k \in Sockets : WF_vars(TakeIdentity(k) \/ JoinSession(k) \/ Disconnect(k))
                          /\ WF_vars(TimerFires(k))

-----------------------------------------------------------------------------
Outcomes == {"none", "ok", "challenged", "refused", "replayed", "error", "lost"}
(* The statements of each operation, in the order of the code.             *)
StatementsOf(op) == {"idle"} \cup
    CASE op = "login" -> {"password", "open", "mint"}
      [] op = "verify" -> {"challenge", "device", "verify", "spend", "open", "mint"}
      [] op = "refresh" -> {"parse", "active", "reparse", "blacklist", "outstand",
                            "reuse", "revoke", "family", "announce"}
      [] op = "logout" -> {"authenticate", "parse", "blacklist", "revoke", "family", "announce"}
      [] op = "enroll" -> {"authenticate", "device", "clear", "create"}
      [] op = "confirm" -> {"authenticate", "device", "verify", "confirm"}
      [] op = "disable" -> {"authenticate", "device", "verify", "delete", "list",
                            "revoke", "family", "announce"}
      [] OTHER -> {}

(* Every row names rows that exist, every handler stands at a statement of *)
(* its operation's, and every socket knows a session of its own.           *)
TypeOK ==
    /\ load \in Loads /\ requests \in 0..load.requests /\ crashes \in 0..load.crashes
    /\ frames \in 0..load.frames /\ events \in 0..load.events /\ now \in 1..load.until
    /\ \A s \in DOMAIN sessions : sessions[s] \in [user : Users, revoked : BOOLEAN]
    /\ \A k \in DOMAIN tokens :
          tokens[k] \in [session : DOMAIN sessions, listed : BOOLEAN, black : BOOLEAN]
    /\ \A d \in DOMAIN devices :
          devices[d] \in [user : Users, state : {"unconfirmed", "confirmed", "deleted"},
                          last : -1 .. now + 1]
    /\ \A c \in DOMAIN challenges : challenges[c] \in [user : Users, live : BOOLEAN]
    /\ \A t \in Threads :
          /\ pc[t] \in StatementsOf(call[t].op) /\ reply[t] \in Outcomes
          /\ call[t].op \in Operations \cup {"none"}
          /\ call[t].user \in Users
          /\ call[t].session \in 0..Len(sessions)
          /\ call[t].token \in 0..Len(tokens)
          /\ call[t].device \in 0..Len(devices)
          /\ call[t].victim \in 0..Len(sessions)
          /\ call[t].victims \subseteq SessionsOf(call[t].user)
    /\ \A k \in Sockets :
          /\ socket[k] \in {"absent", "open", "closing", "gone"}
          /\ {identity[k], joining[k]} \subseteq 0..Len(sessions)
          /\ step[k] \in {"ready", "user", "session"}
          /\ joining[k] # 0 <=> step[k] # "ready"
          /\ timer[k] \in {"none", "deadline", "expiry"}
          /\ code[k] \in {0, 1000, 4401, 4403, 4429}

(* A TOTP code opens one door: of two requests that submit it, one gets    *)
(* through verify_totp, however they interleave, and across logins,        *)
(* confirmations and the disabling of the device.                          *)
CodeSpentOnce ==
    \A a, b \in accepted : a.code = b.code => a.request = b.request

(* revoke_session may be called by a logout, several replays and           *)
(* MfaDisableView at once: one of them audits it.                          *)
RevokedOnce ==
    \A a, b \in trail :
        (a.action = "session_revoked" /\ b.action = a.action /\ b.of = a.of)
            => a.request = b.request /\ sessions[a.of].revoked

(* When the replay of a rotated refresh token has been answered, its       *)
(* session is revoked (handle_possible_reuse), by this handler or another. *)
ReplayEndsFamily ==
    \A t \in Threads : reply[t] = "replayed" => sessions[tokens[call[t].token].session].revoked

(* A request that arrives after its session was revoked is refused, also   *)
(* if it brings a refresh token that was being rotated when the session    *)
(* fell and that no blacklist knows.                                       *)
NothingAfterRevocation ==
    \A t \in Threads : call[t].late => reply[t] \notin {"ok", "challenged"}

(* MfaDisableView answers once every session that existed when the device  *)
(* was deleted is revoked, the one that asked included.                    *)
DisableEndsSessions ==
    \A t \in Threads : call[t].op = "disable" /\ reply[t] = "ok" =>
        \A s \in call[t].witnessed : sessions[s].revoked

(* A socket is only ever sent events of the user it is authenticated as,   *)
(* whichever tokens its auth frames brought.                               *)
StreamsOwnEvents ==
    \A k \in Sockets : received[k] # {} =>
        identity[k] # 0 /\ received[k] = {UserOf(identity[k])}

(* Subscriptions stay within the limit and are the price groups the layer  *)
(* has the socket in. A socket that is gone is in no price or user group,  *)
(* also if it was closed while its auth handler was joining them.          *)
GroupsMatchSubscriptions ==
    \A k \in Sockets :
        /\ Cardinality(prices[k]) <= WS_MAX_SUBSCRIPTIONS
        /\ {i \in Symbols : <<PriceGroup(i), k>> \in members}
               = IF socket[k] = "gone" THEN {} ELSE prices[k]
        /\ socket[k] = "gone" => \A u \in Users : <<UserGroup(u), k>> \notin members

OutlivesSession(k) ==
    socket[k] = "open" /\ identity[k] # 0 /\ sessions[identity[k]].revoked

(* A socket does not outlive its session: also if the revocation fell into *)
(* its auth handler, or its message was lost, it is closed or moves on to  *)
(* another session.                                                        *)
RevokedSocketCloses ==
    \A k \in Sockets : OutlivesSession(k) ~> ~OutlivesSession(k)
=============================================================================
