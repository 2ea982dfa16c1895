------------------------------ MODULE Sessions ------------------------------
(***************************************************************************)
(* Logins, refresh tokens, revocation and TOTP: backend/identity. Every    *)
(* statement commits on its own (the views open no transaction), so two    *)
(* requests of one user interleave between any two of them, and a request  *)
(* that dies leaves the statements it had reached.                         *)
(*                                                                         *)
(* A session is one login; its refresh tokens form a family that rotation  *)
(* extends. Access tokens are not rows: whoever has a refresh token of a   *)
(* session may send an access token of it, and the check of either ends at *)
(* the session row.                                                        *)
(***************************************************************************)
EXTENDS Integers, Sequences, FiniteSets, ChannelLayer

CONSTANTS
    Users,
    Threads,        \* request handlers
    Loads           \* what the clients do, one of them in each behaviour

Operations == {"login", "verify", "refresh", "logout", "enroll", "confirm", "disable"}

ASSUME LoadsAssumption ==
    Loads \subseteq [ops : SUBSET Operations, users : SUBSET Users, requests : Nat,
                     crashes : Nat, until : Nat \ {0}, opened : Seq(Users), enrolled : SUBSET Users,
                     sockets : SUBSET Sockets, frames : Nat, events : Nat]
ASSUME UsersAssumption == Users # {}
ASSUME EnrolledAssumption == \A l \in Loads : IsFiniteSet(l.enrolled)

VARIABLES
    sessions,       \* AuthSession rows
    tokens,         \* OutstandingToken rows, with their blacklist rows
    devices,        \* MfaDevice rows
    challenges,     \* MFAPendingToken and its key in the cache
    trail,          \* audit rows
    now,            \* the current timestep of TOTP
    pc,             \* the next statement of each handler
    call,           \* what it was asked, and its local variables
    reply,          \* how its last request ended
    accepted,       \* every code verify_totp accepted, and for which request
    load, requests, crashes     \* the load and its events so far

tables == <<sessions, tokens, devices, challenges>>
handlers == <<pc, call, reply>>
budget == <<load, requests, crashes>>
sessionVars == <<tables, trail, now, handlers, accepted, budget, layer>>

-----------------------------------------------------------------------------
(* Rows. A token is listed if the text its row stores carries the session  *)
(* id: for_user stores the row before _issue_pair sets the claim, rotation *)
(* stores it after.                                                        *)

NewSession(u) == [user |-> u, revoked |-> FALSE]
NewToken(s, listed) == [session |-> s, listed |-> listed, black |-> FALSE]
NewDevice(u) == [user |-> u, state |-> "unconfirmed", last |-> -1]
NewChallenge(u) == [user |-> u, live |-> TRUE]

NoCode == [device |-> 0, counter |-> 0]
Codes == {[device |-> d, counter |-> n] : d \in DOMAIN devices, n \in now - 1 .. now + 1}
             \cup {NoCode}

NoCall == [op |-> "none", user |-> CHOOSE u \in Users : TRUE, session |-> 0, token |-> 0,
           challenge |-> 0, code |-> NoCode, device |-> 0, victims |-> {},
           victim |-> 0, witnessed |-> {}, late |-> FALSE, number |-> 0]

Newest(x, S) == x \in S /\ \A y \in S : x >= y

Devices(u, state) == {d \in DOMAIN devices : devices[d].user = u /\ devices[d].state = state}
SessionsOf(u) == {s \in DOMAIN sessions : sessions[s].user = u}
ActiveSession(s) == s \in DOMAIN sessions /\ ~sessions[s].revoked

(* An audit row names what it is about, and here the request that wrote it.*)
Row(t, action, of) == [action |-> action, of |-> of, request |-> call[t].number]
Audit(t, action, of) == trail' = trail \cup {Row(t, action, of)}

GoTo(t, statement) ==
    pc' = [pc EXCEPT ![t] = statement] /\ UNCHANGED <<reply, load, requests, crashes>>

(* The handler answers. What it was asked stays readable until the next    *)
(* request.                                                                *)
Finish(t, outcome) ==
    /\ pc' = [pc EXCEPT ![t] = "idle"]
    /\ reply' = [reply EXCEPT ![t] = outcome]
    /\ UNCHANGED budget

-----------------------------------------------------------------------------
SessionsInit ==
    /\ load \in Loads
    /\ sessions = [s \in DOMAIN load.opened |-> NewSession(load.opened[s])]
    /\ tokens = [s \in DOMAIN load.opened |-> NewToken(s, FALSE)]
    /\ devices \in {ds \in [1..Cardinality(load.enrolled) ->
                               [user : load.enrolled, state : {"confirmed"}, last : {-1}]] :
                      {ds[d].user : d \in DOMAIN ds} = load.enrolled}
    /\ challenges = <<>>
    /\ trail = {}
    /\ now = 1
    /\ pc = [t \in Threads |-> "idle"]
    /\ call = [t \in Threads |-> NoCall]
    /\ reply = [t \in Threads |-> "none"]
    /\ accepted = {}
    /\ requests = 0
    /\ crashes = 0
    /\ LayerInit

(* Every request a client may send now. The access token of enroll,        *)
(* confirm, disable and logout belongs to the session the client holds.    *)
LoginCalls == {[NoCall EXCEPT !.op = "login", !.user = u] : u \in load.users}

VerifyCall(n, k) ==
    [NoCall EXCEPT !.op = "verify", !.user = challenges[n].user, !.challenge = n, !.code = k]
VerifyCalls == {VerifyCall(n, k) : n \in DOMAIN challenges, k \in Codes}

CallOf(op, s) ==
    [NoCall EXCEPT !.op = op, !.user = sessions[s].user, !.session = s,
                   !.late = sessions[s].revoked]

TokenCalls ==
    {[CallOf(op, tokens[k].session) EXCEPT !.token = k] :
        op \in {"refresh", "logout"}, k \in DOMAIN tokens}

DeviceCalls ==
    {[CallOf(op, s) EXCEPT !.code = k] :
        op \in {"confirm", "disable"}, s \in DOMAIN sessions, k \in Codes}

EnrollCalls == {CallOf("enroll", s) : s \in DOMAIN sessions}

Calls == LoginCalls \cup VerifyCalls \cup TokenCalls \cup DeviceCalls \cup EnrollCalls

FirstStatement(op) ==
    CASE op = "login" -> "password"
      [] op = "verify" -> "challenge"
      [] op = "refresh" -> "parse"
      [] OTHER -> "authenticate"

Receive(t) ==
    /\ pc[t] = "idle"
    /\ requests < load.requests
    /\ \E c \in Calls :
          /\ c.op \in load.ops
          /\ call' = [call EXCEPT ![t] = [c EXCEPT !.number = requests + 1]]
          /\ pc' = [pc EXCEPT ![t] = FirstStatement(c.op)]
    /\ reply' = [reply EXCEPT ![t] = "none"]
    /\ requests' = requests + 1
    /\ UNCHANGED <<tables, trail, now, accepted, load, crashes, layer>>

(* SessionAwareJWTAuthentication.get_user.                                 *)
Authenticate(t) ==
    LET c == call[t] IN
    /\ pc[t] = "authenticate"
    /\ IF ~ActiveSession(c.session) THEN Finish(t, "refused")
       ELSE GoTo(t, IF c.op = "logout" THEN "parse" ELSE "device")
    /\ UNCHANGED <<tables, trail, now, call, accepted, layer>>

-----------------------------------------------------------------------------
(* Login: TokenObtainPairWithMFASerializer and _issue_pair.                *)

(* The password step. A wrong password is audited; a user with a confirmed *)
(* device gets a challenge, whose key is set in the cache.                 *)
CheckPassword(t) ==
    LET u == call[t].user IN
    /\ pc[t] = "password"
    /\ \/ /\ Finish(t, "refused")
          /\ Audit(t, "login_failed", u)
          /\ UNCHANGED challenges
       \/ /\ Devices(u, "confirmed") # {}
          /\ challenges' = Append(challenges, NewChallenge(u))
          /\ Finish(t, "challenged")
          /\ Audit(t, "mfa_challenged", u)
       \/ /\ Devices(u, "confirmed") = {}
          /\ GoTo(t, "open")
          /\ UNCHANGED <<challenges, trail>>
    /\ UNCHANGED <<sessions, tokens, devices, now, call, accepted, layer>>

(* start_session.                                                          *)
OpenSession(t) ==
    /\ pc[t] = "open"
    /\ sessions' = Append(sessions, NewSession(call[t].user))
    /\ call' = [call EXCEPT ![t].session = Len(sessions) + 1]
    /\ GoTo(t, "mint")
    /\ UNCHANGED <<tokens, devices, challenges, trail, now, accepted, layer>>

(* RefreshToken.for_user, the sid claim and the answer.                    *)
MintPair(t) ==
    LET c == call[t] IN
    /\ pc[t] = "mint"
    /\ tokens' = Append(tokens, NewToken(c.session, FALSE))
    /\ trail' = trail \cup {Row(t, "login_succeeded", c.user)}
                    \cup IF c.op = "verify" THEN {Row(t, "mfa_verified", c.user)} ELSE {}
    /\ Finish(t, "ok")
    /\ UNCHANGED <<sessions, devices, challenges, now, call, accepted, layer>>

(* The second step, MFAVerifySerializer: the key must still be there.      *)
CheckChallenge(t) ==
    /\ pc[t] = "challenge"
    /\ IF challenges[call[t].challenge].live THEN GoTo(t, "device")
       ELSE Finish(t, "refused")
    /\ UNCHANGED <<tables, trail, now, call, accepted, layer>>

(* cache.delete.                                                           *)
SpendChallenge(t) ==
    /\ pc[t] = "spend"
    /\ challenges' = [challenges EXCEPT ![call[t].challenge].live = FALSE]
    /\ GoTo(t, "open")
    /\ UNCHANGED <<sessions, tokens, devices, trail, now, call, accepted, layer>>

-----------------------------------------------------------------------------
(* Authenticator apps: verify_totp, and the views that enroll, confirm and *)
(* disable a device.                                                       *)

(* The device the operation reads: the confirmed one, or the oldest one    *)
(* still unconfirmed.                                                      *)
Candidates(c) == Devices(c.user, IF c.op = "confirm" THEN "unconfirmed" ELSE "confirmed")

ReadDevice(t) ==
    LET c == call[t] IN
    /\ pc[t] = "device"
    /\ IF c.op = "enroll"
       THEN /\ IF Candidates(c) # {} THEN Finish(t, "refused") ELSE GoTo(t, "clear")
            /\ UNCHANGED call
       ELSE IF Candidates(c) = {}
       THEN Finish(t, "refused") /\ UNCHANGED call
       ELSE \E d \in Candidates(c) :
               /\ \A other \in Candidates(c) : d <= other
               /\ call' = [call EXCEPT ![t].device = d]
               /\ GoTo(t, "verify")
    /\ UNCHANGED <<tables, trail, now, accepted, layer>>

(* enroll_totp, first half: unconfirmed devices go.                        *)
ClearUnconfirmed(t) ==
    /\ pc[t] = "clear"
    /\ devices' = [d \in DOMAIN devices |->
                      IF d \in Devices(call[t].user, "unconfirmed")
                      THEN [devices[d] EXCEPT !.state = "deleted"] ELSE devices[d]]
    /\ GoTo(t, "create")
    /\ UNCHANGED <<sessions, tokens, challenges, trail, now, call, accepted, layer>>

CreateDevice(t) ==
    /\ pc[t] = "create"
    /\ devices' = Append(devices, NewDevice(call[t].user))
    /\ Audit(t, "mfa_enrolled", call[t].user)
    /\ Finish(t, "ok")
    /\ UNCHANGED <<sessions, tokens, challenges, now, call, accepted, layer>>

(* A code is good for the device whose secret made it, one step either     *)
(* side of now.                                                            *)
Matches(c) == c.code.device = c.device /\ c.code.counter \in now - 1 .. now + 1

(* Mutant: the step is marked as used without asking whether it was.       *)
UnusedStepForgotten(c) == Matches(c) /\ devices[c.device].state # "deleted"

(* The conditional UPDATE finds its row.                                   *)
UnusedStep(c) ==
    /\ Matches(c)
    /\ devices[c.device].state # "deleted"
    /\ devices[c.device].last < c.code.counter

(* verify_totp: burn the step of a good code; refuse any other.            *)
VerifyTotp(t) ==
    LET c == call[t] IN
    /\ pc[t] = "verify"
    /\ \/ /\ UnusedStep(c)
          /\ devices' = [devices EXCEPT ![c.device].last = c.code.counter]
          /\ accepted' = accepted \cup {[code |-> c.code, request |-> c.number]}
          /\ GoTo(t, CASE c.op = "verify" -> "spend"
                       [] c.op = "confirm" -> "confirm"
                       [] OTHER -> "delete")
          /\ UNCHANGED trail
       \/ /\ ~UnusedStep(c)
          /\ Finish(t, "refused")
          /\ Audit(t, "mfa_failed", c.user)
          /\ UNCHANGED <<devices, accepted>>
    /\ UNCHANGED <<sessions, tokens, challenges, now, call, layer>>

(* confirm_totp's save: an error if the row is gone, or if the user has    *)
(* another confirmed device (the unique constraint).                       *)
ConfirmDevice(t) ==
    LET c == call[t]
        fails == \/ devices[c.device].state = "deleted"
                 \/ Devices(c.user, "confirmed") \ {c.device} # {}
    IN
    /\ pc[t] = "confirm"
    /\ \/ /\ fails
          /\ Finish(t, "error")
          /\ UNCHANGED <<devices, trail>>
       \/ /\ ~fails
          /\ devices' = [devices EXCEPT ![c.device].state = "confirmed"]
          /\ Audit(t, "mfa_confirmed", c.user)
          /\ Finish(t, "ok")
    /\ UNCHANGED <<sessions, tokens, challenges, now, call, accepted, layer>>

(* MfaDisableView deletes the device ...                                   *)
DeleteDevice(t) ==
    LET c == call[t] IN
    /\ pc[t] = "delete"
    /\ devices' = [devices EXCEPT ![c.device].state = "deleted"]
    /\ call' = [call EXCEPT ![t].witnessed = SessionsOf(c.user)]
    /\ Audit(t, "mfa_disabled", c.user)
    /\ GoTo(t, "list")
    /\ UNCHANGED <<sessions, tokens, challenges, now, accepted, layer>>

(* Mutant: the session that asked is kept.                                 *)
OtherVictims(c) == {s \in SessionsOf(c.user) : ActiveSession(s)} \ {c.session}

Victims(c) == {s \in SessionsOf(c.user) : ActiveSession(s)}

(* ... then reads which sessions to revoke, and revokes one by one, the    *)
(* newest first.                                                           *)
RevokeNext(t, victims) ==
    \/ /\ victims = {}
       /\ call' = [call EXCEPT ![t].victims = {}]
       /\ Finish(t, IF call[t].op = "refresh" THEN "replayed" ELSE "ok")
    \/ \E s \in victims :
          /\ Newest(s, victims)
          /\ call' = [call EXCEPT ![t].victims = victims, ![t].victim = s]
          /\ GoTo(t, "revoke")

ListSessions(t) ==
    /\ pc[t] = "list"
    /\ RevokeNext(t, Victims(call[t]))
    /\ UNCHANGED <<tables, trail, now, accepted, layer>>

-----------------------------------------------------------------------------
(* Revocation: revoke_session, called by logout, by a replay and by        *)
(* MfaDisableView.                                                         *)

(* What follows revoke_session in its caller.                              *)
AfterRevocation(t, rows) ==
    LET c == call[t] IN
    /\ trail' = trail \cup rows
                    \cup IF c.op = "logout" THEN {Row(t, "logout", c.user)} ELSE {}
    /\ RevokeNext(t, c.victims \ {c.victim})

(* Mutant: read the row, then save it.                                     *)
RevokeUnconditionally(t) ==
    /\ pc[t] = "revoke"
    /\ sessions' = [sessions EXCEPT ![call[t].victim].revoked = TRUE]
    /\ GoTo(t, "family")
    /\ UNCHANGED <<tokens, devices, challenges, trail, now, call, accepted, layer>>

(* The conditional UPDATE; the loser returns at once.                      *)
RevokeSession(t) ==
    LET s == call[t].victim IN
    /\ pc[t] = "revoke"
    /\ \/ /\ sessions[s].revoked
          /\ AfterRevocation(t, {})
          /\ UNCHANGED sessions
       \/ /\ ~sessions[s].revoked
          /\ sessions' = [sessions EXCEPT ![s].revoked = TRUE]
          /\ GoTo(t, "family")
          /\ UNCHANGED <<trail, call>>
    /\ UNCHANGED <<tokens, devices, challenges, now, accepted, layer>>

(* _blacklist_family_refresh_tokens: the rows whose text names the session.*)
BlacklistFamily(t) ==
    LET s == call[t].victim IN
    /\ pc[t] = "family"
    /\ tokens' = [k \in DOMAIN tokens |->
                     [tokens[k] EXCEPT !.black = @ \/ (tokens[k].session = s /\ tokens[k].listed)]]
    /\ GoTo(t, "announce")
    /\ UNCHANGED <<sessions, devices, challenges, trail, now, call, accepted, layer>>

(* The audit row, and publish_session_revoked.                             *)
AnnounceRevocation(t) ==
    LET s == call[t].victim IN
    /\ pc[t] = "announce"
    /\ Send(SessionGroup(s), SessionKill(s))
    /\ AfterRevocation(t, {Row(t, "session_revoked", s)})
    /\ UNCHANGED <<tables, now, accepted>>

-----------------------------------------------------------------------------
(* Refresh and logout.                                                     *)

(* Mutant: stock rotation, where a replay is refused and nothing else.     *)
ParseStock(t) ==
    LET c == call[t] IN
    /\ pc[t] = "parse"
    /\ IF tokens[c.token].black
       THEN Finish(t, IF c.op = "refresh" THEN "replayed" ELSE "refused")
       ELSE GoTo(t, IF c.op = "refresh" THEN "active" ELSE "blacklist")
    /\ UNCHANGED <<tables, trail, now, call, accepted, layer>>

(* RefreshToken(raw) raises for a blacklisted token. To the refresh view   *)
(* that is a possible replay.                                              *)
ParseToken(t) ==
    LET c == call[t] IN
    /\ pc[t] = "parse"
    /\ IF tokens[c.token].black
       THEN IF c.op = "refresh" THEN GoTo(t, "reuse") ELSE Finish(t, "refused")
       ELSE GoTo(t, IF c.op = "refresh" THEN "active" ELSE "blacklist")
    /\ UNCHANGED <<tables, trail, now, call, accepted, layer>>

(* handle_possible_reuse: one alarm, unless the session is revoked already.*)
HandleReuse(t) ==
    LET s == tokens[call[t].token].session IN
    /\ pc[t] = "reuse"
    /\ \/ /\ sessions[s].revoked
          /\ Finish(t, "replayed")
          /\ UNCHANGED <<trail, call>>
       \/ /\ ~sessions[s].revoked
          /\ Audit(t, "token_reuse_detected", s)
          /\ call' = [call EXCEPT ![t].victim = s]
          /\ GoTo(t, "revoke")
    /\ UNCHANGED <<tables, now, accepted, layer>>

(* Mutant: the session check is dropped for performance.                   *)
SkipSession(t) ==
    /\ pc[t] = "active"
    /\ GoTo(t, "reparse")
    /\ UNCHANGED <<tables, trail, now, call, accepted, layer>>

(* active_session.                                                         *)
CheckSession(t) ==
    /\ pc[t] = "active"
    /\ IF ActiveSession(tokens[call[t].token].session) THEN GoTo(t, "reparse")
       ELSE Finish(t, "refused")
    /\ UNCHANGED <<tables, trail, now, call, accepted, layer>>

(* The library parses the token again ...                                  *)
ParseAgain(t) ==
    /\ pc[t] = "reparse"
    /\ IF tokens[call[t].token].black THEN Finish(t, "refused") ELSE GoTo(t, "blacklist")
    /\ UNCHANGED <<tables, trail, now, call, accepted, layer>>

(* ... and blacklists it, as logout does.                                  *)
BlacklistToken(t) ==
    LET c == call[t] IN
    /\ pc[t] = "blacklist"
    /\ tokens' = [tokens EXCEPT ![c.token].black = TRUE]
    /\ IF c.op = "refresh"
       THEN GoTo(t, "outstand") /\ UNCHANGED call
       ELSE /\ call' = [call EXCEPT ![t].victim = tokens[c.token].session]
            /\ GoTo(t, "revoke")
    /\ UNCHANGED <<sessions, devices, challenges, trail, now, accepted, layer>>

(* The successor's row, touch_session, the audit row and the answer.       *)
RotateToken(t) ==
    LET s == tokens[call[t].token].session IN
    /\ pc[t] = "outstand"
    /\ tokens' = Append(tokens, NewToken(s, TRUE))
    /\ Audit(t, "token_refreshed", s)
    /\ Finish(t, "ok")
    /\ UNCHANGED <<sessions, devices, challenges, now, call, accepted, layer>>

-----------------------------------------------------------------------------
(* A handler dies between two statements.                                  *)
Crash(t) ==
    /\ pc[t] # "idle"
    /\ crashes < load.crashes
    /\ crashes' = crashes + 1
    /\ pc' = [pc EXCEPT ![t] = "idle"]
    /\ reply' = [reply EXCEPT ![t] = "lost"]
    /\ UNCHANGED <<tables, trail, now, call, accepted, load, requests, layer>>

Tick ==
    /\ now < load.until
    /\ now' = now + 1
    /\ UNCHANGED <<tables, trail, handlers, accepted, budget, layer>>

Statement(t) ==
    \/ Authenticate(t) \/ CheckPassword(t) \/ OpenSession(t) \/ MintPair(t)
    \/ CheckChallenge(t) \/ SpendChallenge(t)
    \/ ReadDevice(t) \/ ClearUnconfirmed(t) \/ CreateDevice(t)
    \/ VerifyTotp(t) \/ ConfirmDevice(t) \/ DeleteDevice(t) \/ ListSessions(t)
    \/ RevokeSession(t) \/ BlacklistFamily(t) \/ AnnounceRevocation(t)
    \/ ParseToken(t) \/ HandleReuse(t) \/ CheckSession(t) \/ ParseAgain(t)
    \/ BlacklistToken(t) \/ RotateToken(t)

SessionsNext == \E t \in Threads : Receive(t) \/ Statement(t) \/ Crash(t)
=============================================================================
