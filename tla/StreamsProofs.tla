--------------------------- MODULE StreamsProofs ---------------------------
(***************************************************************************)
(* Theorems about identity and realtime, for any users, request handlers,  *)
(* sockets and loads. First sessions, refresh tokens and TOTP codes; then  *)
(* sockets: whatever its clients, the handlers of other processes and the  *)
(* channel layer do, a socket gets the events of one user, and the layer   *)
(* has it in the groups it subscribed to.                                  *)
(***************************************************************************)
EXTENDS Streams, SequenceTheorems, FiniteSetTheorems, TLAPS

-----------------------------------------------------------------------------
(* Types: the tables are sequences of rows, and a token has its session.   *)

SessionRow == [user : Users, revoked : BOOLEAN]
TokenRow == [session : Nat, listed : BOOLEAN, black : BOOLEAN]
DeviceRow == [user : Users, state : {"unconfirmed", "confirmed", "deleted"}, last : Int]
ChallengeRow == [user : Users, live : BOOLEAN]

CallRow == [op : Operations \cup {"none"}, user : Users \cup {NoCall.user}, session : Nat,
            token : Nat, challenge : Nat, code : [device : Nat, counter : Int], device : Nat,
            victims : SUBSET Nat, victim : Nat, witnessed : SUBSET Nat, late : BOOLEAN,
            number : Nat]

Typed ==
    /\ sessions \in Seq(SessionRow)
    /\ tokens \in Seq(TokenRow)
    /\ devices \in Seq(DeviceRow)
    /\ challenges \in Seq(ChallengeRow)
    /\ now \in Int
    /\ requests \in Nat
    /\ call \in [Threads -> CallRow]
    /\ DOMAIN pc = Threads
    /\ DOMAIN reply = Threads
    /\ load \in Loads
    /\ \A k \in DOMAIN tokens : tokens[k].session \in DOMAIN sessions

(* Appending a row and rewriting one.                                      *)
LEMMA Appending ==
    ASSUME NEW S, NEW rows \in Seq(S), NEW row \in S
    PROVE  /\ Append(rows, row) \in Seq(S)
           /\ DOMAIN rows = 1..Len(rows)
           /\ Len(rows) \in Nat
           /\ DOMAIN Append(rows, row) = 1..(Len(rows) + 1)
           /\ \A i \in DOMAIN rows : Append(rows, row)[i] = rows[i] /\ rows[i] \in S
           /\ Append(rows, row)[Len(rows) + 1] = row
  BY AppendProperties, LenProperties, ElementOfSeq

LEMMA Rewriting ==
    ASSUME NEW S, NEW rows \in Seq(S), NEW new, DOMAIN new = DOMAIN rows,
           \A i \in DOMAIN rows : new[i] \in S, new = [i \in DOMAIN new |-> new[i]]
    PROVE  new \in Seq(S)
<1>1. DOMAIN rows = 1..Len(rows) /\ Len(rows) \in Nat
  BY LenProperties
<1>2. new \in [1..Len(rows) -> S]
  BY <1>1
<1> QED BY <1>1, <1>2, SeqDef

LEMMA RowsTyped ==
    ASSUME Typed
    PROVE  /\ \A s \in DOMAIN sessions : sessions[s] \in SessionRow
           /\ \A k \in DOMAIN tokens : tokens[k] \in TokenRow
           /\ \A d \in DOMAIN devices : devices[d] \in DeviceRow
           /\ \A c \in DOMAIN challenges : challenges[c] \in ChallengeRow
           /\ DOMAIN sessions = 1..Len(sessions) /\ Len(sessions) \in Nat
           /\ DOMAIN tokens = 1..Len(tokens) /\ Len(tokens) \in Nat
           /\ DOMAIN devices = 1..Len(devices) /\ Len(devices) \in Nat
           /\ DOMAIN challenges = 1..Len(challenges) /\ Len(challenges) \in Nat
  BY LenProperties, ElementOfSeq DEF Typed

LEMMA InitTyped == Init => Typed
<1> SUFFICES ASSUME Init PROVE Typed
  OBVIOUS
<1> USE DEF Init, SessionsInit
<1>1. load \in Loads /\ load.opened \in Seq(Users)
  BY LoadsAssumption
<1>2. sessions \in Seq(SessionRow) /\ tokens \in Seq(TokenRow) /\ DOMAIN sessions = DOMAIN tokens
      /\ \A k \in DOMAIN tokens : tokens[k].session = k
  <2>1. DOMAIN load.opened = 1..Len(load.opened) /\ Len(load.opened) \in Nat
        /\ \A s \in DOMAIN load.opened : load.opened[s] \in Users
    BY <1>1, LenProperties, ElementOfSeq
  <2>2. sessions \in [1..Len(load.opened) -> SessionRow]
    BY <2>1 DEF NewSession, SessionRow
  <2>3. tokens \in [1..Len(load.opened) -> TokenRow]
    BY <2>1 DEF NewToken, TokenRow
  <2> QED BY <2>1, <2>2, <2>3, SeqDef DEF NewToken
<1>3. devices \in Seq(DeviceRow)
  <2>1. Cardinality(load.enrolled) \in Nat /\ load.enrolled \subseteq Users
    BY <1>1, LoadsAssumption, EnrolledAssumption, FS_CardinalityType
  <2>2. devices \in [1..Cardinality(load.enrolled) -> DeviceRow]
    BY <2>1 DEF DeviceRow
  <2> QED BY <2>1, <2>2, SeqDef
<1>4. challenges \in Seq(ChallengeRow)
  BY EmptySeq
<1>5. call \in [Threads -> CallRow]
  BY DEF NoCall, CallRow, NoCode
<1>6. DOMAIN pc = Threads /\ DOMAIN reply = Threads
  OBVIOUS
<1>7. now \in Int /\ requests \in Nat
  OBVIOUS
<1> QED BY <1>1, <1>2, <1>3, <1>4, <1>5, <1>6, <1>7 DEF Typed

-----------------------------------------------------------------------------
(* What one statement does to the tables.                                  *)

TablesTyped ==
    /\ sessions \in Seq(SessionRow)
    /\ tokens \in Seq(TokenRow)
    /\ devices \in Seq(DeviceRow)
    /\ challenges \in Seq(ChallengeRow)
    /\ \A k \in DOMAIN tokens : tokens[k].session \in DOMAIN sessions

SessionsGrow ==
    \A s \in DOMAIN sessions :
        /\ s \in DOMAIN sessions'
        /\ sessions'[s].user = sessions[s].user
        /\ sessions[s].revoked => sessions'[s].revoked

TokensGrow ==
    \A k \in DOMAIN tokens : k \in DOMAIN tokens' /\ tokens'[k].session = tokens[k].session

DevicesGrow ==
    \A d \in DOMAIN devices : d \in DOMAIN devices' /\ devices[d].last <= devices'[d].last

LEMMA SessionOpens ==
    ASSUME Typed, NEW u \in Users, sessions' = Append(sessions, NewSession(u))
    PROVE  sessions' \in Seq(SessionRow) /\ SessionsGrow
<1>1. NewSession(u) \in SessionRow
  BY DEF NewSession, SessionRow
<1> QED BY <1>1, Appending DEF Typed, SessionsGrow

LEMMA SessionsRewritten ==
    ASSUME Typed, DOMAIN sessions' = DOMAIN sessions,
           sessions' = [s \in DOMAIN sessions' |-> sessions'[s]],
           \A s \in DOMAIN sessions : \/ sessions'[s] = sessions[s]
                                      \/ sessions'[s] = [sessions[s] EXCEPT !.revoked = TRUE]
    PROVE  sessions' \in Seq(SessionRow) /\ SessionsGrow
<1>1. \A s \in DOMAIN sessions : sessions[s] \in SessionRow
  BY RowsTyped
<1>2. \A s \in DOMAIN sessions : /\ sessions'[s] \in SessionRow
                                 /\ sessions'[s].user = sessions[s].user
                                 /\ sessions[s].revoked => sessions'[s].revoked
  BY <1>1 DEF SessionRow
<1>3. sessions' \in Seq(SessionRow)
  BY <1>2, Rewriting DEF Typed
<1> QED BY <1>2, <1>3 DEF SessionsGrow

LEMMA TokenAdded ==
    ASSUME Typed, NEW s \in DOMAIN sessions, NEW listed \in BOOLEAN,
           tokens' = Append(tokens, NewToken(s, listed))
    PROVE  /\ tokens' \in Seq(TokenRow) /\ TokensGrow
           /\ \A k \in DOMAIN tokens' : tokens'[k].session \in DOMAIN sessions
<1>1. NewToken(s, listed) \in TokenRow /\ NewToken(s, listed).session = s
  BY RowsTyped DEF NewToken, TokenRow
<1>2. /\ tokens' \in Seq(TokenRow)
      /\ DOMAIN tokens = 1..Len(tokens) /\ Len(tokens) \in Nat
      /\ DOMAIN tokens' = 1..(Len(tokens) + 1)
      /\ \A k \in DOMAIN tokens : tokens'[k] = tokens[k]
      /\ tokens'[Len(tokens) + 1] = NewToken(s, listed)
  BY <1>1, Appending DEF Typed
<1>3. \A k \in DOMAIN tokens' : k \in DOMAIN tokens \/ k = Len(tokens) + 1
  BY <1>2
<1> QED BY <1>1, <1>2, <1>3 DEF Typed, TokensGrow

LEMMA TokensBlacklisted ==
    ASSUME Typed, DOMAIN tokens' = DOMAIN tokens,
           tokens' = [k \in DOMAIN tokens' |-> tokens'[k]],
           \A k \in DOMAIN tokens : \/ tokens'[k] = tokens[k]
                                    \/ \E b \in BOOLEAN : tokens'[k] = [tokens[k] EXCEPT !.black = b]
    PROVE  /\ tokens' \in Seq(TokenRow) /\ TokensGrow
           /\ \A k \in DOMAIN tokens' : tokens'[k].session \in DOMAIN sessions
<1>1. \A k \in DOMAIN tokens : tokens[k] \in TokenRow
  BY RowsTyped
<1>2. \A k \in DOMAIN tokens : tokens'[k] \in TokenRow /\ tokens'[k].session = tokens[k].session
  BY <1>1 DEF TokenRow
<1>3. tokens' \in Seq(TokenRow)
  BY <1>2, Rewriting DEF Typed
<1> QED BY <1>2, <1>3 DEF Typed, TokensGrow

LEMMA DeviceAdded ==
    ASSUME Typed, NEW u \in Users, devices' = Append(devices, NewDevice(u))
    PROVE  devices' \in Seq(DeviceRow) /\ DevicesGrow
<1>1. NewDevice(u) \in DeviceRow
  BY DEF NewDevice, DeviceRow
<1>2. \A d \in DOMAIN devices : devices[d].last \in Int
  BY RowsTyped DEF DeviceRow
<1> QED BY <1>1, <1>2, Appending DEF Typed, DevicesGrow

LEMMA DevicesRewritten ==
    ASSUME Typed, DOMAIN devices' = DOMAIN devices,
           devices' = [d \in DOMAIN devices' |-> devices'[d]],
           \A d \in DOMAIN devices :
              \/ devices'[d] = devices[d]
              \/ \E x \in {"unconfirmed", "confirmed", "deleted"} :
                    devices'[d] = [devices[d] EXCEPT !.state = x]
              \/ \E n \in Int : devices[d].last <= n /\ devices'[d] = [devices[d] EXCEPT !.last = n]
    PROVE  devices' \in Seq(DeviceRow) /\ DevicesGrow
<1>1. \A d \in DOMAIN devices : devices[d] \in DeviceRow
  BY RowsTyped
<1>2. \A d \in DOMAIN devices : devices'[d] \in DeviceRow /\ devices[d].last <= devices'[d].last
  BY <1>1 DEF DeviceRow
<1>3. devices' \in Seq(DeviceRow)
  BY <1>2, Rewriting DEF Typed
<1> QED BY <1>2, <1>3 DEF DevicesGrow

LEMMA TablesKept ==
    ASSUME Typed
    PROVE  /\ UNCHANGED sessions => SessionsGrow /\ sessions' \in Seq(SessionRow)
           /\ UNCHANGED tokens => TokensGrow /\ tokens' \in Seq(TokenRow)
           /\ UNCHANGED devices => DevicesGrow /\ devices' \in Seq(DeviceRow)
           /\ UNCHANGED challenges => challenges' \in Seq(ChallengeRow)
           /\ SessionsGrow /\ UNCHANGED tokens =>
                 \A k \in DOMAIN tokens' : tokens'[k].session \in DOMAIN sessions'
<1>1. \A d \in DOMAIN devices : devices[d].last <= devices[d].last
  BY RowsTyped DEF DeviceRow
<1> QED BY <1>1 DEF Typed, SessionsGrow, TokensGrow, DevicesGrow

-----------------------------------------------------------------------------
(* What a handler knows at its statement.                                  *)

Revoking == {"revoke", "family", "announce"}

Stands(t) == pc[t] \in StatementsOf(call[t].op) /\ (pc[t] # "idle" => reply[t] = "none")

OwnRows(t) ==
    LET c == call[t] IN
    /\ c.op # "none" => c.user \in Users
    /\ c.op \in {"refresh", "logout"} => c.token \in DOMAIN tokens
    /\ pc[t] = "mint" => c.session \in DOMAIN sessions
    /\ pc[t] \in {"verify", "confirm", "delete"} => c.device \in DOMAIN devices
    /\ c.victims \subseteq DOMAIN sessions
    /\ c.op = "refresh" => c.victims = {}

(* The session being revoked; for a replay, that of the token.             *)
VictimKnown(t) ==
    LET c == call[t] IN
    /\ pc[t] \in Revoking =>
          /\ c.victim \in DOMAIN sessions
          /\ c.op = "refresh" => c.victim = tokens[c.token].session
    /\ pc[t] \in {"family", "announce"} => sessions[c.victim].revoked
    /\ reply[t] = "replayed" => c.op = "refresh" /\ sessions[tokens[c.token].session].revoked

(* Every session that MfaDisableView must end is revoked or on its list.   *)
WitnessedKnown(t) ==
    LET c == call[t] IN
    c.op = "disable" =>
        /\ c.witnessed \subseteq DOMAIN sessions
        /\ pc[t] = "list" => \A s \in c.witnessed : sessions[s].user = c.user
        /\ pc[t] \in Revoking => \A s \in c.witnessed : sessions[s].revoked \/ s \in c.victims
        /\ reply[t] = "ok" => \A s \in c.witnessed : sessions[s].revoked

(* A request of a revoked session does not get past its session check.     *)
LateKnown(t) ==
    LET c == call[t] IN
    c.late =>
        /\ c.session \in DOMAIN sessions /\ sessions[c.session].revoked
        /\ c.op \notin {"login", "verify"}
        /\ pc[t] \in {"idle", "authenticate"} \cup
              IF c.op = "refresh" THEN {"parse", "reuse", "active"} ELSE {}
        /\ c.op = "refresh" => tokens[c.token].session = c.session
        /\ reply[t] \notin {"ok", "challenged"}

Known(t) == Stands(t) /\ OwnRows(t) /\ VictimKnown(t) /\ WitnessedKnown(t) /\ LateKnown(t)

Grow == SessionsGrow /\ TokensGrow /\ DevicesGrow

Others(t) ==
    \A u \in Threads \ {t} : pc'[u] = pc[u] /\ call'[u] = call[u] /\ reply'[u] = reply[u]

(* The rows that a handler knows of outlive the steps of the others.       *)
LEMMA KnownStable ==
    ASSUME Typed, Typed', Grow, NEW t \in Threads, Known(t),
           pc'[t] = pc[t], call'[t] = call[t], reply'[t] = reply[t]
    PROVE  Known(t)'
<1> USE DEF Known
<1>1. /\ call[t] \in CallRow
      /\ \A s \in DOMAIN sessions : sessions[s] \in SessionRow
      /\ \A k \in DOMAIN tokens : tokens[k].session \in DOMAIN sessions
  BY RowsTyped DEF Typed
<1>2. Stands(t)'
  BY DEF Stands
<1>3. OwnRows(t)'
  BY DEF OwnRows, Grow, SessionsGrow, TokensGrow, DevicesGrow
<1>4. VictimKnown(t)'
  BY <1>1 DEF VictimKnown, OwnRows, Grow, SessionsGrow, TokensGrow, Revoking
<1>5. WitnessedKnown(t)'
  BY DEF WitnessedKnown, Grow, SessionsGrow, Revoking
<1>6. LateKnown(t)'
  BY <1>1 DEF LateKnown, OwnRows, Grow, SessionsGrow, TokensGrow
<1> QED BY <1>2, <1>3, <1>4, <1>5, <1>6

LEMMA GoToEffect ==
    ASSUME Typed, NEW t \in Threads, NEW p, GoTo(t, p)
    PROVE  /\ DOMAIN pc' = Threads /\ pc'[t] = p /\ UNCHANGED <<reply, load, requests>>
           /\ \A u \in Threads \ {t} : pc'[u] = pc[u]
  BY DEF Typed, GoTo

LEMMA FinishEffect ==
    ASSUME Typed, NEW t \in Threads, NEW o, Finish(t, o)
    PROVE  /\ DOMAIN pc' = Threads /\ DOMAIN reply' = Threads
           /\ pc'[t] = "idle" /\ reply'[t] = o /\ UNCHANGED <<load, requests>>
           /\ \A u \in Threads \ {t} : pc'[u] = pc[u] /\ reply'[u] = reply[u]
  BY DEF Typed, Finish, budget

(* A request that ends without being granted anything.                     *)
LEMMA TurnedAway ==
    ASSUME Typed, Grow, NEW t \in Threads, Known(t), call'[t] = call[t], pc'[t] = "idle",
           reply'[t] \in {"refused", "error", "lost"}
    PROVE  Known(t)'
<1> USE DEF Known
<1>1. /\ call[t] \in CallRow
      /\ \A k \in DOMAIN tokens : tokens[k].session \in DOMAIN sessions
  BY DEF Typed
<1>2. Stands(t)'
  BY DEF Stands, StatementsOf
<1>3. OwnRows(t)'
  BY DEF OwnRows, Grow, SessionsGrow, TokensGrow
<1>4. VictimKnown(t)'
  BY DEF VictimKnown, Revoking
<1>5. WitnessedKnown(t)'
  BY DEF WitnessedKnown, Grow, SessionsGrow, Revoking
<1>6. LateKnown(t)'
  BY <1>1 DEF LateKnown, OwnRows, Grow, SessionsGrow, TokensGrow
<1> QED BY <1>2, <1>3, <1>4, <1>5, <1>6

(* The same request, whatever else the handler has read for it.            *)
SameRequest(t) ==
    /\ call'[t].op = call[t].op
    /\ call'[t].user = call[t].user
    /\ call'[t].token = call[t].token
    /\ call'[t].victims = call[t].victims
    /\ call'[t].witnessed = call[t].witnessed
    /\ call'[t].late = call[t].late

(* A request that goes on, before it has anything to revoke.               *)
LEMMA GoesOn ==
    ASSUME Typed, Grow, NEW t \in Threads, Known(t), SameRequest(t), reply'[t] = reply[t],
           reply[t] = "none", ~call[t].late, pc'[t] \in StatementsOf(call[t].op),
           pc'[t] = "mint" => call'[t].session \in DOMAIN sessions',
           pc'[t] \in {"verify", "confirm", "delete"} => call'[t].device \in DOMAIN devices,
           pc'[t] \notin Revoking \cup {"list"}
    PROVE  Known(t)'
<1> USE DEF Known, SameRequest
<1>1. Stands(t)'
  BY DEF Stands
<1>2. OwnRows(t)'
  BY DEF OwnRows, Grow, SessionsGrow, TokensGrow, DevicesGrow
<1>3. VictimKnown(t)'
  BY DEF VictimKnown, Revoking
<1>4. WitnessedKnown(t)'
  BY DEF WitnessedKnown, Grow, SessionsGrow
<1>5. LateKnown(t)'
  BY DEF LateKnown
<1> QED BY <1>1, <1>2, <1>3, <1>4, <1>5

(* A request that is granted, and has revoked nothing.                     *)
LEMMA Granted ==
    ASSUME Typed, Grow, NEW t \in Threads, Known(t), call'[t] = call[t], pc'[t] = "idle",
           reply'[t] \in {"ok", "challenged"}, ~call[t].late, call[t].op # "disable"
    PROVE  Known(t)'
<1> USE DEF Known
<1>1. Stands(t)'
  BY DEF Stands, StatementsOf
<1>2. OwnRows(t)'
  BY DEF OwnRows, Grow, SessionsGrow, TokensGrow
<1>3. VictimKnown(t)' /\ WitnessedKnown(t)' /\ LateKnown(t)'
  BY DEF VictimKnown, WitnessedKnown, LateKnown, Revoking
<1> QED BY <1>1, <1>2, <1>3

(* Where a handler stands says what it was asked.                          *)
LEMMA AtStatement ==
    ASSUME Typed, NEW t \in Threads, Known(t), pc[t] # "idle"
    PROVE  /\ reply[t] = "none"
           /\ call[t].op \in Operations
           /\ pc[t] = "password" => call[t].op = "login"
           /\ pc[t] \in {"challenge", "spend"} => call[t].op = "verify"
           /\ pc[t] \in {"open", "mint"} => call[t].op \in {"login", "verify"}
           /\ pc[t] = "device" => call[t].op \in {"verify", "enroll", "confirm", "disable"}
           /\ pc[t] = "verify" => call[t].op \in {"verify", "confirm", "disable"}
           /\ pc[t] \in {"clear", "create"} => call[t].op = "enroll"
           /\ pc[t] = "confirm" => call[t].op = "confirm"
           /\ pc[t] \in {"delete", "list"} => call[t].op = "disable"
           /\ pc[t] \in {"parse", "blacklist"} => call[t].op \in {"refresh", "logout"}
           /\ pc[t] \in {"reuse", "active", "reparse", "outstand"} => call[t].op = "refresh"
           /\ pc[t] \in Revoking => call[t].op \in {"refresh", "logout", "disable"}
           /\ pc[t] \notin {"authenticate", "parse", "reuse", "active"} => ~call[t].late
<1>1. call[t].op \in Operations \cup {"none"}
  BY DEF Typed, CallRow
<1> QED BY <1>1 DEF Known, Stands, StatementsOf, LateKnown, Operations, Revoking

(* The types after a step that moves handler t and rewrites some tables.   *)
Moves(t) ==
    \/ \E p : GoTo(t, p)
    \/ \E o : Finish(t, o)

LEMMA Retyped ==
    ASSUME Typed, NEW t \in Threads, Moves(t), UNCHANGED now,
           call' \in [Threads -> CallRow],
           \A u \in Threads \ {t} : call'[u] = call[u],
           \/ sessions' \in Seq(SessionRow) /\ SessionsGrow
           \/ UNCHANGED sessions,
           \/ /\ tokens' \in Seq(TokenRow) /\ TokensGrow
              /\ \A k \in DOMAIN tokens' : tokens'[k].session \in DOMAIN sessions
           \/ UNCHANGED tokens,
           \/ devices' \in Seq(DeviceRow) /\ DevicesGrow
           \/ UNCHANGED devices,
           \/ challenges' \in Seq(ChallengeRow)
           \/ UNCHANGED challenges
    PROVE  Typed' /\ Grow /\ Others(t)
<1>1. /\ sessions' \in Seq(SessionRow) /\ SessionsGrow
      /\ tokens' \in Seq(TokenRow) /\ TokensGrow
      /\ devices' \in Seq(DeviceRow) /\ DevicesGrow
      /\ challenges' \in Seq(ChallengeRow)
  BY TablesKept
<1>2. \A k \in DOMAIN tokens' : tokens'[k].session \in DOMAIN sessions'
  BY <1>1 DEF Typed, SessionsGrow
<1>3. /\ DOMAIN pc' = Threads /\ DOMAIN reply' = Threads /\ UNCHANGED <<load, requests>>
      /\ \A u \in Threads \ {t} : pc'[u] = pc[u] /\ reply'[u] = reply[u]
  BY GoToEffect, FinishEffect DEF Moves, Typed
<1> QED BY <1>1, <1>2, <1>3 DEF Typed, Grow, Others

Step(t) == Typed' /\ Grow /\ Others(t) /\ Known(t)'

LEMMA CallEdited ==
    ASSUME Typed, NEW t \in Threads
    PROVE  /\ \A n \in Nat :
                 /\ [call[t] EXCEPT !.session = n] \in CallRow
                 /\ [call[t] EXCEPT !.device = n] \in CallRow
                 /\ [call[t] EXCEPT !.victim = n] \in CallRow
           /\ \A S \in SUBSET Nat :
                 /\ [call[t] EXCEPT !.victims = S] \in CallRow
                 /\ [call[t] EXCEPT !.witnessed = S] \in CallRow
                 /\ \A n \in Nat : [call[t] EXCEPT !.victims = S, !.victim = n] \in CallRow
<1>1. call[t] \in CallRow
  BY DEF Typed
<1>2. ASSUME NEW n \in Nat
      PROVE  /\ [call[t] EXCEPT !.session = n] \in CallRow
             /\ [call[t] EXCEPT !.device = n] \in CallRow
             /\ [call[t] EXCEPT !.victim = n] \in CallRow
  BY <1>1 DEF CallRow
<1>3. ASSUME NEW S \in SUBSET Nat
      PROVE  /\ [call[t] EXCEPT !.victims = S] \in CallRow
             /\ [call[t] EXCEPT !.witnessed = S] \in CallRow
             /\ \A n \in Nat : [call[t] EXCEPT !.victims = S, !.victim = n] \in CallRow
  BY <1>1 DEF CallRow
<1> QED BY <1>2, <1>3

LEMMA CallReplaced ==
    ASSUME Typed, NEW t \in Threads, NEW c \in CallRow, call' = [call EXCEPT ![t] = c]
    PROVE  /\ call' \in [Threads -> CallRow] /\ call'[t] = c
           /\ \A u \in Threads \ {t} : call'[u] = call[u]
  BY DEF Typed

LEMMA Quiet ==
    ASSUME Typed, NEW t \in Threads, Moves(t), UNCHANGED <<tables, now, call>>
    PROVE  Typed' /\ Grow /\ Others(t)
<1>1. call' \in [Threads -> CallRow]
  BY DEF Typed
<1> QED BY <1>1, Retyped DEF tables

LEMMA StepAuthenticate ==
    ASSUME Typed, NEW t \in Threads, Known(t), Authenticate(t)
    PROVE  Step(t)
<1>1. Typed' /\ Grow /\ Others(t)
  BY Quiet DEF Authenticate, Moves
<1>2. reply[t] = "none" /\ call'[t] = call[t]
  BY AtStatement DEF Authenticate
<1>3. CASE Finish(t, "refused")
  BY <1>1, <1>2, <1>3, FinishEffect, TurnedAway DEF Step
<1>4. CASE /\ ActiveSession(call[t].session)
           /\ GoTo(t, IF call[t].op = "logout" THEN "parse" ELSE "device")
  <2>1. ~call[t].late
    BY <1>4 DEF Known, LateKnown, ActiveSession
  <2>2. pc'[t] = (IF call[t].op = "logout" THEN "parse" ELSE "device") /\ reply'[t] = reply[t]
    BY <1>4, GoToEffect
  <2>3. pc'[t] \in StatementsOf(call[t].op)
    BY <2>2 DEF Known, Stands, Authenticate, StatementsOf
  <2> QED BY <1>1, <1>2, <2>1, <2>2, <2>3, GoesOn DEF Step, Revoking, SameRequest
<1> QED BY <1>3, <1>4 DEF Authenticate

-----------------------------------------------------------------------------
(* Logins.                                                                 *)

LEMMA StepCheckPassword ==
    ASSUME Typed, NEW t \in Threads, Known(t), CheckPassword(t)
    PROVE  Step(t)
<1>1. /\ call[t].op = "login" /\ ~call[t].late /\ reply[t] = "none"
      /\ call[t].user \in Users
      /\ call' = call
  BY AtStatement DEF CheckPassword, Known, OwnRows
<1>2. \/ UNCHANGED challenges
      \/ challenges' \in Seq(ChallengeRow)
  <2>1. NewChallenge(call[t].user) \in ChallengeRow
    BY <1>1 DEF NewChallenge, ChallengeRow
  <2>2. challenges \in Seq(ChallengeRow)
    BY DEF Typed
  <2>3. Append(challenges, NewChallenge(call[t].user)) \in Seq(ChallengeRow)
    BY <2>1, <2>2, Appending
  <2> QED BY <2>3 DEF CheckPassword
<1>3. Typed' /\ Grow /\ Others(t)
  BY <1>1, <1>2, Retyped DEF CheckPassword, Moves, Typed
<1>4. CASE Finish(t, "refused")
  BY <1>1, <1>3, <1>4, FinishEffect, TurnedAway DEF Step
<1>5. CASE Finish(t, "challenged")
  BY <1>1, <1>3, <1>5, FinishEffect, Granted DEF Step
<1>6. CASE GoTo(t, "open")
  <2>1. pc'[t] = "open" /\ reply'[t] = reply[t] /\ "open" \in StatementsOf("login")
    BY <1>6, GoToEffect DEF StatementsOf
  <2> QED BY <1>1, <1>3, <2>1, GoesOn DEF Step, Revoking, SameRequest
<1> QED BY <1>4, <1>5, <1>6 DEF CheckPassword

LEMMA StepOpenSession ==
    ASSUME Typed, NEW t \in Threads, Known(t), OpenSession(t)
    PROVE  Step(t)
<1>1. /\ call[t].op \in {"login", "verify"} /\ ~call[t].late /\ reply[t] = "none"
      /\ call[t].user \in Users
  BY AtStatement DEF OpenSession, Known, OwnRows, Operations
<1>2. /\ sessions' \in Seq(SessionRow) /\ SessionsGrow
      /\ Len(sessions) + 1 \in DOMAIN sessions' /\ Len(sessions) + 1 \in Nat
  <2>1. NewSession(call[t].user) \in SessionRow
    BY <1>1 DEF NewSession, SessionRow
  <2> QED BY <1>1, <2>1, SessionOpens, Appending DEF OpenSession, Typed
<1>3. /\ call' \in [Threads -> CallRow]
      /\ call'[t].session = Len(sessions) + 1 /\ SameRequest(t)
      /\ \A u \in Threads \ {t} : call'[u] = call[u]
  <2> DEFINE c == [call[t] EXCEPT !.session = Len(sessions) + 1]
  <2>1. c \in CallRow /\ c.session = Len(sessions) + 1
    BY <1>2, CallEdited DEF Typed, CallRow
  <2>2. call'[t] = c
    BY <2>1, CallReplaced DEF OpenSession
  <2>3. SameRequest(t)
    BY <2>2 DEF SameRequest, Typed, CallRow
  <2> QED BY <2>1, <2>2, <2>3, CallReplaced DEF OpenSession
<1>4. Typed' /\ Grow /\ Others(t)
  BY <1>2, <1>3, Retyped DEF OpenSession, Moves
<1>5. pc'[t] = "mint" /\ reply'[t] = reply[t]
  BY GoToEffect DEF OpenSession
<1>6. "mint" \in StatementsOf(call[t].op)
  BY <1>1 DEF StatementsOf
<1> QED BY <1>1, <1>2, <1>3, <1>4, <1>5, <1>6, GoesOn DEF Step, Revoking

LEMMA StepMintPair ==
    ASSUME Typed, NEW t \in Threads, Known(t), MintPair(t)
    PROVE  Step(t)
<1>1. /\ call[t].op \in {"login", "verify"} /\ ~call[t].late
      /\ call[t].session \in DOMAIN sessions
      /\ call' = call
  BY AtStatement DEF MintPair, Known, OwnRows
<1>2. /\ tokens' \in Seq(TokenRow) /\ TokensGrow
      /\ \A k \in DOMAIN tokens' : tokens'[k].session \in DOMAIN sessions
  BY <1>1, TokenAdded DEF MintPair
<1>3. Typed' /\ Grow /\ Others(t)
  BY <1>1, <1>2, Retyped DEF MintPair, Moves, Typed
<1> QED BY <1>1, <1>3, FinishEffect, Granted DEF Step, MintPair

LEMMA StepCheckChallenge ==
    ASSUME Typed, NEW t \in Threads, Known(t), CheckChallenge(t)
    PROVE  Step(t)
<1>1. Typed' /\ Grow /\ Others(t)
  BY Quiet DEF CheckChallenge, Moves
<1>2. reply[t] = "none" /\ call'[t] = call[t] /\ call[t].op = "verify" /\ ~call[t].late
  BY AtStatement DEF CheckChallenge
<1>3. CASE Finish(t, "refused")
  BY <1>1, <1>2, <1>3, FinishEffect, TurnedAway DEF Step
<1>4. CASE GoTo(t, "device")
  <2>1. pc'[t] = "device" /\ reply'[t] = reply[t] /\ "device" \in StatementsOf("verify")
    BY <1>4, GoToEffect DEF StatementsOf
  <2> QED BY <1>1, <1>2, <2>1, GoesOn DEF Step, Revoking, SameRequest
<1> QED BY <1>3, <1>4 DEF CheckChallenge

LEMMA StepSpendChallenge ==
    ASSUME Typed, NEW t \in Threads, Known(t), SpendChallenge(t)
    PROVE  Step(t)
<1>1. reply[t] = "none" /\ call' = call /\ call[t].op = "verify" /\ ~call[t].late
  BY AtStatement DEF SpendChallenge
<1>2. challenges' \in Seq(ChallengeRow)
  <2>1. /\ DOMAIN challenges' = DOMAIN challenges
        /\ challenges' = [c \in DOMAIN challenges' |-> challenges'[c]]
        /\ \A c \in DOMAIN challenges : challenges'[c] \in ChallengeRow
    BY RowsTyped DEF SpendChallenge, ChallengeRow
  <2>2. challenges \in Seq(ChallengeRow)
    BY DEF Typed
  <2> QED BY <2>1, <2>2, Rewriting
<1>3. Typed' /\ Grow /\ Others(t)
  BY <1>1, <1>2, Retyped DEF SpendChallenge, Moves, Typed
<1>4. pc'[t] = "open" /\ reply'[t] = reply[t] /\ "open" \in StatementsOf("verify")
  BY GoToEffect DEF SpendChallenge, StatementsOf
<1> QED BY <1>1, <1>3, <1>4, GoesOn DEF Step, Revoking, SameRequest

-----------------------------------------------------------------------------
(* Devices.                                                                *)

LEMMA StepReadDevice ==
    ASSUME Typed, NEW t \in Threads, Known(t), ReadDevice(t)
    PROVE  Step(t)
<1>1. /\ reply[t] = "none" /\ ~call[t].late
      /\ call[t].op \in {"verify", "enroll", "confirm", "disable"}
  BY AtStatement DEF ReadDevice
<1>2. CASE call' = call /\ Finish(t, "refused")
  <2>1. Typed' /\ Grow /\ Others(t)
    BY <1>2, Quiet DEF ReadDevice, Moves
  <2> QED BY <1>2, <2>1, FinishEffect, TurnedAway DEF Step
<1>3. CASE call' = call /\ call[t].op = "enroll" /\ GoTo(t, "clear")
  <2>1. Typed' /\ Grow /\ Others(t)
    BY <1>3, Quiet DEF ReadDevice, Moves
  <2>2. pc'[t] = "clear" /\ reply'[t] = reply[t] /\ "clear" \in StatementsOf("enroll")
    BY <1>3, GoToEffect DEF StatementsOf
  <2> QED BY <1>1, <1>3, <2>1, <2>2, GoesOn DEF Step, Revoking, SameRequest
<1>4. ASSUME NEW d \in DOMAIN devices, call[t].op # "enroll", GoTo(t, "verify"),
             call' = [call EXCEPT ![t].device = d]
      PROVE  Step(t)
  <2> DEFINE c == [call[t] EXCEPT !.device = d]
  <2>1. c \in CallRow /\ c.device = d
    <3>1. d \in Nat
      BY RowsTyped
    <3> QED BY <3>1, CallEdited DEF Typed, CallRow
  <2>2. /\ call' \in [Threads -> CallRow] /\ call'[t] = c
        /\ \A u \in Threads \ {t} : call'[u] = call[u]
    BY <1>4, <2>1, CallReplaced
  <2>3. SameRequest(t)
    BY <2>2 DEF SameRequest, Typed, CallRow
  <2>4. Typed' /\ Grow /\ Others(t)
    BY <1>4, <2>2, Retyped DEF ReadDevice, Moves, tables
  <2>5. pc'[t] = "verify" /\ reply'[t] = reply[t]
    BY <1>4, GoToEffect
  <2>6. "verify" \in StatementsOf(call[t].op)
    BY <1>1, <1>4 DEF StatementsOf
  <2> QED BY <1>1, <2>1, <2>2, <2>3, <2>4, <2>5, <2>6, GoesOn DEF Step, Revoking
<1> QED BY <1>2, <1>3, <1>4 DEF ReadDevice, Candidates, Devices

LEMMA StepClearUnconfirmed ==
    ASSUME Typed, NEW t \in Threads, Known(t), ClearUnconfirmed(t)
    PROVE  Step(t)
<1>1. reply[t] = "none" /\ call' = call /\ call[t].op = "enroll" /\ ~call[t].late
  BY AtStatement DEF ClearUnconfirmed
<1>2. devices' \in Seq(DeviceRow) /\ DevicesGrow
  BY DevicesRewritten DEF ClearUnconfirmed
<1>3. Typed' /\ Grow /\ Others(t)
  BY <1>1, <1>2, Retyped DEF ClearUnconfirmed, Moves, Typed
<1>4. pc'[t] = "create" /\ reply'[t] = reply[t] /\ "create" \in StatementsOf("enroll")
  BY GoToEffect DEF ClearUnconfirmed, StatementsOf
<1> QED BY <1>1, <1>3, <1>4, GoesOn DEF Step, Revoking, SameRequest

LEMMA StepCreateDevice ==
    ASSUME Typed, NEW t \in Threads, Known(t), CreateDevice(t)
    PROVE  Step(t)
<1>1. /\ call' = call /\ call[t].op = "enroll" /\ ~call[t].late
      /\ call[t].user \in Users
  BY AtStatement DEF CreateDevice, Known, OwnRows
<1>2. devices' \in Seq(DeviceRow) /\ DevicesGrow
  BY <1>1, DeviceAdded DEF CreateDevice
<1>3. Typed' /\ Grow /\ Others(t)
  BY <1>1, <1>2, Retyped DEF CreateDevice, Moves, Typed
<1> QED BY <1>1, <1>3, FinishEffect, Granted DEF Step, CreateDevice

(* The step of an accepted code is used from then on.                      *)
LEMMA StepBurnt ==
    ASSUME Typed, NEW c \in CallRow, UnusedStep(c), c.device \in DOMAIN devices,
           devices' = [devices EXCEPT ![c.device].last = c.code.counter]
    PROVE  /\ devices' \in Seq(DeviceRow) /\ DevicesGrow
           /\ devices'[c.device].last = c.code.counter
<1>1. /\ c.code.counter \in Int
      /\ \A d \in DOMAIN devices : devices[d] \in DeviceRow
      /\ devices[c.device].last < c.code.counter
  BY RowsTyped DEF UnusedStep, CallRow
<1>2. /\ DOMAIN devices' = DOMAIN devices
      /\ devices' = [d \in DOMAIN devices' |-> devices'[d]]
      /\ \A d \in DOMAIN devices : d # c.device => devices'[d] = devices[d]
      /\ devices'[c.device] = [devices[c.device] EXCEPT !.last = c.code.counter]
  OBVIOUS
<1>3. \A d \in DOMAIN devices :
         \/ devices'[d] = devices[d]
         \/ \E n \in Int : devices[d].last <= n /\ devices'[d] = [devices[d] EXCEPT !.last = n]
  BY <1>1, <1>2 DEF DeviceRow
<1>4. devices'[c.device].last = c.code.counter
  BY <1>1, <1>2 DEF DeviceRow
<1>5. devices' \in Seq(DeviceRow) /\ DevicesGrow
  BY <1>2, <1>3, DevicesRewritten
<1> QED BY <1>4, <1>5

LEMMA StepVerifyTotp ==
    ASSUME Typed, NEW t \in Threads, Known(t), VerifyTotp(t)
    PROVE  Step(t)
<1>1. /\ reply[t] = "none" /\ ~call[t].late /\ call' = call
      /\ call[t].op \in {"verify", "confirm", "disable"}
      /\ call[t].device \in DOMAIN devices /\ call[t] \in CallRow
  BY AtStatement DEF VerifyTotp, Known, OwnRows, Typed
<1>2. CASE Finish(t, "refused") /\ UNCHANGED devices
  <2>1. Typed' /\ Grow /\ Others(t)
    BY <1>2, Quiet DEF VerifyTotp, Moves, tables
  <2> QED BY <1>1, <1>2, <2>1, FinishEffect, TurnedAway DEF Step
<1>3. CASE /\ UnusedStep(call[t])
           /\ devices' = [devices EXCEPT ![call[t].device].last = call[t].code.counter]
           /\ GoTo(t, CASE call[t].op = "verify" -> "spend"
                        [] call[t].op = "confirm" -> "confirm"
                        [] OTHER -> "delete")
  <2>1. devices' \in Seq(DeviceRow) /\ DevicesGrow
    BY <1>1, <1>3, StepBurnt
  <2>2. Typed' /\ Grow /\ Others(t)
    BY <1>1, <1>3, <2>1, Retyped DEF VerifyTotp, Moves, Typed
  <2>3. /\ reply'[t] = reply[t]
        /\ pc'[t] = CASE call[t].op = "verify" -> "spend"
                      [] call[t].op = "confirm" -> "confirm"
                      [] OTHER -> "delete"
    BY <1>3, GoToEffect
  <2>4. pc'[t] \in StatementsOf(call[t].op) /\ pc'[t] \in {"spend", "confirm", "delete"}
    BY <1>1, <2>3 DEF StatementsOf
  <2> QED BY <1>1, <2>2, <2>3, <2>4, GoesOn DEF Step, Revoking, SameRequest
<1> QED BY <1>2, <1>3 DEF VerifyTotp

LEMMA StepConfirmDevice ==
    ASSUME Typed, NEW t \in Threads, Known(t), ConfirmDevice(t)
    PROVE  Step(t)
<1>1. call' = call /\ call[t].op = "confirm" /\ ~call[t].late
  BY AtStatement DEF ConfirmDevice
<1>2. CASE Finish(t, "error") /\ UNCHANGED devices
  <2>1. Typed' /\ Grow /\ Others(t)
    BY <1>2, Quiet DEF ConfirmDevice, Moves, tables
  <2> QED BY <1>1, <1>2, <2>1, FinishEffect, TurnedAway DEF Step
<1>3. CASE /\ Finish(t, "ok")
           /\ devices' = [devices EXCEPT ![call[t].device].state = "confirmed"]
  <2>1. devices' \in Seq(DeviceRow) /\ DevicesGrow
    <3>1. /\ DOMAIN devices' = DOMAIN devices
          /\ devices' = [d \in DOMAIN devices' |-> devices'[d]]
          /\ \A d \in DOMAIN devices :
                \/ devices'[d] = devices[d]
                \/ devices'[d] = [devices[d] EXCEPT !.state = "confirmed"]
      BY <1>3
    <3> QED BY <3>1, DevicesRewritten
  <2>2. Typed' /\ Grow /\ Others(t)
    BY <1>1, <1>3, <2>1, Retyped DEF ConfirmDevice, Moves, Typed
  <2> QED BY <1>1, <1>3, <2>2, FinishEffect, Granted DEF Step
<1> QED BY <1>2, <1>3 DEF ConfirmDevice

-----------------------------------------------------------------------------
(* Revocation.                                                             *)

LEMMA StepDeleteDevice ==
    ASSUME Typed, NEW t \in Threads, Known(t), DeleteDevice(t)
    PROVE  Step(t)
<1> DEFINE c == [call[t] EXCEPT !.witnessed = SessionsOf(call[t].user)]
<1>1. /\ call[t].op = "disable" /\ ~call[t].late /\ reply[t] = "none"
      /\ call[t] \in CallRow
  BY AtStatement DEF DeleteDevice, Typed
<1>2. SessionsOf(call[t].user) \in SUBSET Nat
  BY RowsTyped DEF SessionsOf
<1>3. c \in CallRow
  BY <1>2, CallEdited
<1>4. /\ call'[t] = c /\ call' \in [Threads -> CallRow]
      /\ \A u \in Threads \ {t} : call'[u] = call[u]
  BY <1>3, CallReplaced DEF DeleteDevice
<1>5. devices' \in Seq(DeviceRow) /\ DevicesGrow
  <2>1. /\ DOMAIN devices' = DOMAIN devices
        /\ devices' = [d \in DOMAIN devices' |-> devices'[d]]
        /\ \A d \in DOMAIN devices :
              \/ devices'[d] = devices[d]
              \/ devices'[d] = [devices[d] EXCEPT !.state = "deleted"]
    BY DEF DeleteDevice
  <2> QED BY <2>1, DevicesRewritten
<1>6. Typed' /\ Grow /\ Others(t)
  BY <1>4, <1>5, Retyped DEF DeleteDevice, Moves
<1>7. pc'[t] = "list" /\ reply'[t] = reply[t]
  BY GoToEffect DEF DeleteDevice
<1>8. /\ c.op = "disable" /\ c.user = call[t].user /\ c.victims = call[t].victims /\ ~c.late
      /\ c.witnessed = SessionsOf(call[t].user)
  BY <1>1 DEF CallRow
<1> HIDE DEF c
<1>9. Stands(t)'
  BY <1>1, <1>4, <1>7, <1>8 DEF Stands, StatementsOf
<1>10. OwnRows(t)'
  BY <1>1, <1>4, <1>6, <1>7, <1>8 DEF OwnRows, Known, Grow, SessionsGrow
<1>11. VictimKnown(t)' /\ LateKnown(t)'
  BY <1>1, <1>4, <1>7, <1>8 DEF VictimKnown, LateKnown, Revoking
<1>12. WitnessedKnown(t)'
  BY <1>1, <1>4, <1>6, <1>7, <1>8 DEF WitnessedKnown, SessionsOf, Revoking, Grow, SessionsGrow
<1> QED BY <1>6, <1>9, <1>10, <1>11, <1>12 DEF Step, Known

(* The round of revocations goes on to the next victim, or ends.           *)
LEMMA NextVictim ==
    ASSUME Typed, Grow, NEW t \in Threads, Known(t), reply[t] = "none", ~call[t].late,
           call[t].op \in {"refresh", "logout", "disable"},
           NEW victims \in SUBSET DOMAIN sessions, RevokeNext(t, victims),
           call[t].op = "refresh" =>
              victims = {} /\ sessions'[tokens[call[t].token].session].revoked,
           call[t].op = "disable" =>
              \A s \in call[t].witnessed : sessions'[s].revoked \/ s \in victims
    PROVE  /\ Known(t)' /\ Moves(t)
           /\ call' \in [Threads -> CallRow]
           /\ \A u \in Threads \ {t} : call'[u] = call[u]
<1> DEFINE Same(c) == /\ c.op = call[t].op /\ c.user = call[t].user /\ c.token = call[t].token
                      /\ c.witnessed = call[t].witnessed /\ c.late = call[t].late
<1>1. call[t] \in CallRow /\ victims \in SUBSET Nat
  BY RowsTyped DEF Typed
<1>2. CASE /\ victims = {} /\ call' = [call EXCEPT ![t].victims = {}]
           /\ Finish(t, IF call[t].op = "refresh" THEN "replayed" ELSE "ok")
  <2> DEFINE c == [call[t] EXCEPT !.victims = {}]
  <2>1. c \in CallRow /\ Same(c) /\ c.victims = {}
    BY <1>1, CallEdited DEF CallRow
  <2>2. /\ call' \in [Threads -> CallRow] /\ call'[t] = c
        /\ \A u \in Threads \ {t} : call'[u] = call[u]
    BY <1>2, <2>1, CallReplaced
  <2>3. pc'[t] = "idle" /\ reply'[t] = (IF call[t].op = "refresh" THEN "replayed" ELSE "ok")
    BY <1>2, FinishEffect
  <2> HIDE DEF c
  <2>4. Stands(t)'
    BY <2>1, <2>2, <2>3 DEF Stands, StatementsOf
  <2>5. OwnRows(t)'
    BY <2>1, <2>2, <2>3 DEF OwnRows, Known, Grow, TokensGrow
  <2>6. VictimKnown(t)'
    BY <2>1, <2>2, <2>3 DEF VictimKnown, Revoking, Known, OwnRows, Grow, TokensGrow
  <2>7. WitnessedKnown(t)' /\ LateKnown(t)'
    BY <1>2, <2>1, <2>2, <2>3 DEF WitnessedKnown, LateKnown, Revoking, Known, Grow, SessionsGrow
  <2> QED BY <1>2, <2>2, <2>4, <2>5, <2>6, <2>7 DEF Known, Moves
<1>3. ASSUME NEW s \in victims, GoTo(t, "revoke"),
             call' = [call EXCEPT ![t].victims = victims, ![t].victim = s]
      PROVE  /\ Known(t)' /\ Moves(t)
             /\ call' \in [Threads -> CallRow]
             /\ \A u \in Threads \ {t} : call'[u] = call[u]
  <2> DEFINE c == [call[t] EXCEPT !.victims = victims, !.victim = s]
  <2>1. c \in CallRow /\ Same(c) /\ c.victims = victims /\ c.victim = s
    BY <1>1, CallEdited DEF CallRow
  <2>2. /\ call' \in [Threads -> CallRow] /\ call'[t] = c
        /\ \A u \in Threads \ {t} : call'[u] = call[u]
    <3>1. call' = [call EXCEPT ![t] = c]
      BY <1>1, <1>3 DEF Typed
    <3> QED BY <2>1, <3>1, CallReplaced
  <2>3. pc'[t] = "revoke" /\ reply'[t] = reply[t]
    BY <1>3, GoToEffect
  <2> HIDE DEF c
  <2>4. Stands(t)'
    BY <2>1, <2>2, <2>3 DEF Stands, StatementsOf
  <2>5. OwnRows(t)'
    BY <2>1, <2>2, <2>3 DEF OwnRows, Known, Grow, TokensGrow, SessionsGrow
  <2>6. VictimKnown(t)'
    BY <2>1, <2>2, <2>3 DEF VictimKnown, Revoking, Grow, SessionsGrow
  <2>7. WitnessedKnown(t)' /\ LateKnown(t)'
    BY <2>1, <2>2, <2>3 DEF WitnessedKnown, LateKnown, Revoking, Known, Grow, SessionsGrow
  <2> QED BY <1>3, <2>2, <2>4, <2>5, <2>6, <2>7 DEF Known, Moves
<1> QED BY <1>2, <1>3 DEF RevokeNext

LEMMA StepListSessions ==
    ASSUME Typed, NEW t \in Threads, Known(t), ListSessions(t)
    PROVE  Step(t)
<1>1. reply[t] = "none" /\ call[t].op = "disable" /\ ~call[t].late
  BY AtStatement DEF ListSessions
<1>2. Grow /\ sessions' = sessions
  BY TablesKept DEF ListSessions, tables, Grow
<1>3. \A s \in call[t].witnessed : sessions'[s].revoked \/ s \in Victims(call[t])
  BY <1>1, <1>2 DEF Known, WitnessedKnown, ListSessions, Victims, SessionsOf, ActiveSession
<1>4. Victims(call[t]) \in SUBSET DOMAIN sessions
  BY DEF Victims, SessionsOf
<1>5. /\ Known(t)' /\ Moves(t)
      /\ call' \in [Threads -> CallRow]
      /\ \A u \in Threads \ {t} : call'[u] = call[u]
  BY <1>1, <1>2, <1>3, <1>4, NextVictim DEF ListSessions
<1>6. Typed' /\ Grow /\ Others(t)
  BY <1>5, Retyped DEF ListSessions, tables
<1> QED BY <1>5, <1>6 DEF Step

(* What a handler knows while it revokes, once the victim has fallen.      *)
LEMMA OnToTheNext ==
    ASSUME Typed, Grow, NEW t \in Threads, Known(t), pc[t] \in Revoking,
           sessions'[call[t].victim].revoked,
           RevokeNext(t, call[t].victims \ {call[t].victim})
    PROVE  /\ Known(t)' /\ Moves(t)
           /\ call' \in [Threads -> CallRow]
           /\ \A u \in Threads \ {t} : call'[u] = call[u]
<1>1. reply[t] = "none" /\ call[t].op \in {"refresh", "logout", "disable"} /\ ~call[t].late
  BY AtStatement DEF Revoking
<1>2. /\ call[t].victims \ {call[t].victim} \in SUBSET DOMAIN sessions
      /\ call[t].op = "refresh" => call[t].victims = {}
  BY DEF Known, OwnRows
<1>3. call[t].op = "refresh" => call[t].victim = tokens[call[t].token].session
  BY DEF Known, VictimKnown
<1>4. call[t].op = "disable" =>
         \A s \in call[t].witnessed : sessions'[s].revoked
                                      \/ s \in call[t].victims \ {call[t].victim}
  BY DEF Known, WitnessedKnown, Grow, SessionsGrow
<1> QED BY <1>1, <1>2, <1>3, <1>4, NextVictim

(* A handler that stays with its victim.                                   *)
LEMMA StaysWithVictim ==
    ASSUME Typed, Grow, NEW t \in Threads, Known(t), pc[t] \in Revoking,
           pc'[t] \in {"family", "announce"}, reply'[t] = reply[t], call'[t] = call[t],
           sessions'[call[t].victim].revoked
    PROVE  Known(t)'
<1>1. reply[t] = "none" /\ call[t].op \in {"refresh", "logout", "disable"} /\ ~call[t].late
  BY AtStatement DEF Revoking
<1>2. Stands(t)'
  BY <1>1 DEF Stands, StatementsOf
<1>3. OwnRows(t)'
  BY DEF OwnRows, Known, Grow, SessionsGrow, TokensGrow
<1>4. VictimKnown(t)'
  BY <1>1 DEF VictimKnown, OwnRows, Known, Revoking, Grow, SessionsGrow, TokensGrow
<1>5. WitnessedKnown(t)' /\ LateKnown(t)'
  BY <1>1 DEF WitnessedKnown, LateKnown, Known, Revoking, Grow, SessionsGrow
<1> QED BY <1>2, <1>3, <1>4, <1>5 DEF Known

LEMMA StepRevokeSession ==
    ASSUME Typed, NEW t \in Threads, Known(t), RevokeSession(t)
    PROVE  Step(t)
<1> DEFINE s == call[t].victim
<1>1. s \in DOMAIN sessions /\ pc[t] \in Revoking
  BY DEF RevokeSession, Known, VictimKnown, Revoking
<1>2. CASE sessions[s].revoked /\ AfterRevocation(t, {}) /\ UNCHANGED sessions
  <2>1. Grow
    BY <1>2, TablesKept DEF RevokeSession, Grow
  <2>2. /\ Known(t)' /\ Moves(t)
        /\ call' \in [Threads -> CallRow]
        /\ \A u \in Threads \ {t} : call'[u] = call[u]
    BY <1>1, <1>2, <2>1, OnToTheNext DEF AfterRevocation
  <2>3. Typed' /\ Grow /\ Others(t)
    BY <1>2, <2>2, Retyped DEF RevokeSession
  <2> QED BY <2>2, <2>3 DEF Step
<1>3. CASE /\ sessions' = [sessions EXCEPT ![s].revoked = TRUE]
           /\ GoTo(t, "family") /\ UNCHANGED call
  <2>1. sessions' \in Seq(SessionRow) /\ SessionsGrow
    <3>1. /\ DOMAIN sessions' = DOMAIN sessions
          /\ sessions' = [i \in DOMAIN sessions' |-> sessions'[i]]
          /\ \A i \in DOMAIN sessions :
                \/ sessions'[i] = sessions[i]
                \/ sessions'[i] = [sessions[i] EXCEPT !.revoked = TRUE]
      BY <1>3
    <3> QED BY <3>1, SessionsRewritten
  <2>2. call' \in [Threads -> CallRow]
    BY <1>3 DEF Typed
  <2>3. Typed' /\ Grow /\ Others(t)
    BY <1>3, <2>1, <2>2, Retyped DEF RevokeSession, Moves
  <2>4. sessions'[s].revoked
    BY <1>1, <1>3, RowsTyped DEF SessionRow
  <2>5. pc'[t] = "family" /\ reply'[t] = reply[t]
    BY <1>3, GoToEffect
  <2> QED BY <1>1, <1>3, <2>3, <2>4, <2>5, StaysWithVictim DEF Step
<1> QED BY <1>2, <1>3 DEF RevokeSession

LEMMA StepBlacklistFamily ==
    ASSUME Typed, NEW t \in Threads, Known(t), BlacklistFamily(t)
    PROVE  Step(t)
<1> DEFINE s == call[t].victim
<1>1. s \in DOMAIN sessions /\ pc[t] \in Revoking /\ sessions[s].revoked
  BY DEF BlacklistFamily, Known, VictimKnown, Revoking
<1>2. /\ tokens' \in Seq(TokenRow) /\ TokensGrow
      /\ \A k \in DOMAIN tokens' : tokens'[k].session \in DOMAIN sessions
  <2>1. \A k \in DOMAIN tokens : \E b \in BOOLEAN : tokens'[k] = [tokens[k] EXCEPT !.black = b]
    <3> TAKE k \in DOMAIN tokens
    <3> DEFINE b == tokens[k].black \/ (tokens[k].session = s /\ tokens[k].listed)
    <3>1. b \in BOOLEAN
      OBVIOUS
    <3>2. tokens'[k] = [tokens[k] EXCEPT !.black = b]
      BY DEF BlacklistFamily
    <3> QED BY <3>1, <3>2
  <2>2. DOMAIN tokens' = DOMAIN tokens /\ tokens' = [k \in DOMAIN tokens' |-> tokens'[k]]
    BY DEF BlacklistFamily
  <2> QED BY <2>1, <2>2, TokensBlacklisted
<1>3. call' = call /\ call' \in [Threads -> CallRow]
  BY DEF BlacklistFamily, Typed
<1>4. Typed' /\ Grow /\ Others(t)
  BY <1>2, <1>3, Retyped DEF BlacklistFamily, Moves
<1>5. pc'[t] = "announce" /\ reply'[t] = reply[t] /\ sessions' = sessions
  BY GoToEffect DEF BlacklistFamily
<1> QED BY <1>1, <1>3, <1>4, <1>5, StaysWithVictim DEF Step

LEMMA StepAnnounceRevocation ==
    ASSUME Typed, NEW t \in Threads, Known(t), AnnounceRevocation(t)
    PROVE  Step(t)
<1>1. pc[t] \in Revoking /\ sessions[call[t].victim].revoked
  BY DEF AnnounceRevocation, Known, VictimKnown, Revoking
<1>2. Grow /\ sessions' = sessions
  BY TablesKept DEF AnnounceRevocation, tables, Grow
<1>3. /\ Known(t)' /\ Moves(t)
      /\ call' \in [Threads -> CallRow]
      /\ \A u \in Threads \ {t} : call'[u] = call[u]
  BY <1>1, <1>2, OnToTheNext DEF AnnounceRevocation, AfterRevocation
<1>4. Typed' /\ Grow /\ Others(t)
  BY <1>3, Retyped DEF AnnounceRevocation, tables
<1> QED BY <1>3, <1>4 DEF Step

-----------------------------------------------------------------------------
(* Refresh and logout.                                                     *)

LEMMA StepParseToken ==
    ASSUME Typed, NEW t \in Threads, Known(t), ParseToken(t)
    PROVE  Step(t)
<1>1. Typed' /\ Grow /\ Others(t)
  BY Quiet DEF ParseToken, Moves
<1>2. reply[t] = "none" /\ call' = call /\ call[t].op \in {"refresh", "logout"}
  BY AtStatement DEF ParseToken
<1>3. CASE Finish(t, "refused")
  BY <1>1, <1>2, <1>3, FinishEffect, TurnedAway DEF Step
<1>4. ASSUME NEW p \in {"reuse", "active", "blacklist"}, GoTo(t, p),
             p \in {"reuse", "active"} <=> call[t].op = "refresh"
      PROVE  Step(t)
  <2>1. pc'[t] = p /\ reply'[t] = reply[t]
    BY <1>4, GoToEffect
  <2>2. Stands(t)'
    BY <1>2, <1>4, <2>1 DEF Stands, StatementsOf
  <2>3. OwnRows(t)'
    BY <1>1, <1>2, <2>1 DEF OwnRows, Known, Grow, SessionsGrow, TokensGrow
  <2>4. VictimKnown(t)' /\ WitnessedKnown(t)'
    BY <1>2, <2>1 DEF VictimKnown, WitnessedKnown, Revoking
  <2>5. LateKnown(t)'
    BY <1>2, <1>4, <2>1 DEF LateKnown, Known, ParseToken, tables
  <2> QED BY <1>1, <2>2, <2>3, <2>4, <2>5 DEF Step, Known
<1> QED BY <1>2, <1>3, <1>4 DEF ParseToken

(* The first session that a logout or a replay revokes.                    *)
LEMMA FirstVictim ==
    ASSUME Typed, Grow, NEW t \in Threads, Known(t), reply[t] = "none", ~call[t].late,
           call[t].op \in {"refresh", "logout"}, NEW s \in DOMAIN sessions,
           s = tokens[call[t].token].session, GoTo(t, "revoke"),
           call' = [call EXCEPT ![t].victim = s]
    PROVE  /\ Known(t)' /\ call' \in [Threads -> CallRow]
           /\ \A u \in Threads \ {t} : call'[u] = call[u]
<1> DEFINE c == [call[t] EXCEPT !.victim = s]
<1>1. c \in CallRow
  <2>1. s \in Nat
    BY RowsTyped
  <2> QED BY <2>1, CallEdited
<1>2. /\ c.op = call[t].op /\ c.user = call[t].user /\ c.token = call[t].token
      /\ c.victims = call[t].victims /\ c.late = call[t].late /\ c.victim = s
  BY DEF Typed, CallRow
<1>3. /\ call' \in [Threads -> CallRow] /\ call'[t] = c
      /\ \A u \in Threads \ {t} : call'[u] = call[u]
  BY <1>1, CallReplaced
<1>4. pc'[t] = "revoke" /\ reply'[t] = reply[t]
  BY GoToEffect
<1> HIDE DEF c
<1>5. Stands(t)'
  BY <1>2, <1>3, <1>4 DEF Stands, StatementsOf
<1>6. OwnRows(t)'
  BY <1>2, <1>3, <1>4 DEF OwnRows, Known, Grow, SessionsGrow, TokensGrow
<1>7. VictimKnown(t)'
  BY <1>2, <1>3, <1>4 DEF VictimKnown, OwnRows, Known, Revoking, Grow, SessionsGrow, TokensGrow
<1>8. WitnessedKnown(t)' /\ LateKnown(t)'
  BY <1>2, <1>3, <1>4 DEF WitnessedKnown, LateKnown
<1> QED BY <1>3, <1>5, <1>6, <1>7, <1>8 DEF Known

LEMMA StepHandleReuse ==
    ASSUME Typed, NEW t \in Threads, Known(t), HandleReuse(t)
    PROVE  Step(t)
<1> DEFINE s == tokens[call[t].token].session
<1>1. /\ reply[t] = "none" /\ call[t].op = "refresh"
      /\ call[t].token \in DOMAIN tokens /\ s \in DOMAIN sessions
  BY AtStatement DEF HandleReuse, Known, OwnRows, Typed
<1>2. Grow /\ sessions' = sessions /\ tokens' = tokens
  BY TablesKept DEF HandleReuse, tables, Grow
<1>3. CASE sessions[s].revoked /\ call' = call /\ Finish(t, "replayed")
  <2>1. Typed' /\ Grow /\ Others(t)
    BY <1>3, Quiet DEF HandleReuse, Moves
  <2>2. pc'[t] = "idle" /\ reply'[t] = "replayed"
    BY <1>3, FinishEffect
  <2>3. Stands(t)'
    BY <1>3, <2>2 DEF Stands, StatementsOf
  <2>4. OwnRows(t)'
    BY <1>2, <1>3, <2>2 DEF OwnRows, Known
  <2>5. VictimKnown(t)'
    BY <1>1, <1>2, <1>3, <2>2 DEF VictimKnown, Revoking
  <2>6. WitnessedKnown(t)' /\ LateKnown(t)'
    BY <1>1, <1>2, <1>3, <2>2 DEF WitnessedKnown, LateKnown, Known
  <2> QED BY <2>1, <2>3, <2>4, <2>5, <2>6 DEF Step, Known
<1>4. CASE /\ ~sessions[s].revoked /\ GoTo(t, "revoke")
           /\ call' = [call EXCEPT ![t].victim = s]
  <2>1. ~call[t].late
    BY <1>1, <1>4 DEF Known, LateKnown
  <2>2. /\ Known(t)' /\ call' \in [Threads -> CallRow]
        /\ \A u \in Threads \ {t} : call'[u] = call[u]
    BY <1>1, <1>2, <1>4, <2>1, FirstVictim
  <2>3. Typed' /\ Grow /\ Others(t)
    BY <1>4, <2>2, Retyped DEF HandleReuse, Moves, tables
  <2> QED BY <2>2, <2>3 DEF Step
<1> QED BY <1>3, <1>4 DEF HandleReuse

LEMMA StepCheckSession ==
    ASSUME Typed, NEW t \in Threads, Known(t), CheckSession(t)
    PROVE  Step(t)
<1>1. Typed' /\ Grow /\ Others(t)
  BY Quiet DEF CheckSession, Moves
<1>2. reply[t] = "none" /\ call' = call /\ call[t].op = "refresh"
  BY AtStatement DEF CheckSession
<1>3. CASE Finish(t, "refused")
  BY <1>1, <1>2, <1>3, FinishEffect, TurnedAway DEF Step
<1>4. CASE ActiveSession(tokens[call[t].token].session) /\ GoTo(t, "reparse")
  <2>1. ~call[t].late
    BY <1>2, <1>4 DEF Known, LateKnown, ActiveSession
  <2>2. pc'[t] = "reparse" /\ reply'[t] = reply[t] /\ "reparse" \in StatementsOf("refresh")
    BY <1>4, GoToEffect DEF StatementsOf
  <2> QED BY <1>1, <1>2, <2>1, <2>2, GoesOn DEF Step, Revoking, SameRequest
<1> QED BY <1>3, <1>4 DEF CheckSession

LEMMA StepParseAgain ==
    ASSUME Typed, NEW t \in Threads, Known(t), ParseAgain(t)
    PROVE  Step(t)
<1>1. Typed' /\ Grow /\ Others(t)
  BY Quiet DEF ParseAgain, Moves
<1>2. reply[t] = "none" /\ call' = call /\ call[t].op = "refresh" /\ ~call[t].late
  BY AtStatement DEF ParseAgain
<1>3. CASE Finish(t, "refused")
  BY <1>1, <1>2, <1>3, FinishEffect, TurnedAway DEF Step
<1>4. CASE GoTo(t, "blacklist")
  <2>1. pc'[t] = "blacklist" /\ reply'[t] = reply[t] /\ "blacklist" \in StatementsOf("refresh")
    BY <1>4, GoToEffect DEF StatementsOf
  <2> QED BY <1>1, <1>2, <2>1, GoesOn DEF Step, Revoking, SameRequest
<1> QED BY <1>3, <1>4 DEF ParseAgain

LEMMA StepBlacklistToken ==
    ASSUME Typed, NEW t \in Threads, Known(t), BlacklistToken(t)
    PROVE  Step(t)
<1>1. /\ reply[t] = "none" /\ call[t].op \in {"refresh", "logout"} /\ ~call[t].late
      /\ call[t].token \in DOMAIN tokens /\ tokens[call[t].token].session \in DOMAIN sessions
  BY AtStatement DEF BlacklistToken, Known, OwnRows, Typed
<1>2. /\ tokens' \in Seq(TokenRow) /\ TokensGrow
      /\ \A k \in DOMAIN tokens' : tokens'[k].session \in DOMAIN sessions
  <2>1. \A k \in DOMAIN tokens : \/ tokens'[k] = tokens[k]
                                 \/ tokens'[k] = [tokens[k] EXCEPT !.black = TRUE]
    BY DEF BlacklistToken
  <2>2. DOMAIN tokens' = DOMAIN tokens /\ tokens' = [k \in DOMAIN tokens' |-> tokens'[k]]
    BY DEF BlacklistToken
  <2> QED BY <2>1, <2>2, TokensBlacklisted
<1>3. Grow
  BY <1>2, TablesKept DEF BlacklistToken, Grow
<1>4. CASE call[t].op = "refresh" /\ GoTo(t, "outstand") /\ UNCHANGED call
  <2>1. call' \in [Threads -> CallRow]
    BY <1>4 DEF Typed
  <2>2. Typed' /\ Grow /\ Others(t)
    BY <1>2, <1>4, <2>1, Retyped DEF BlacklistToken, Moves
  <2>3. pc'[t] = "outstand" /\ reply'[t] = reply[t] /\ "outstand" \in StatementsOf("refresh")
    BY <1>4, GoToEffect DEF StatementsOf
  <2> QED BY <1>1, <1>4, <2>2, <2>3, GoesOn DEF Step, Revoking, SameRequest
<1>5. CASE /\ GoTo(t, "revoke")
           /\ call' = [call EXCEPT ![t].victim = tokens[call[t].token].session]
  <2>1. /\ Known(t)' /\ call' \in [Threads -> CallRow]
        /\ \A u \in Threads \ {t} : call'[u] = call[u]
    BY <1>1, <1>3, <1>5, FirstVictim
  <2>2. Typed' /\ Grow /\ Others(t)
    BY <1>2, <1>5, <2>1, Retyped DEF BlacklistToken, Moves
  <2> QED BY <2>1, <2>2 DEF Step
<1> QED BY <1>4, <1>5 DEF BlacklistToken

LEMMA StepRotateToken ==
    ASSUME Typed, NEW t \in Threads, Known(t), RotateToken(t)
    PROVE  Step(t)
<1>1. /\ call[t].op = "refresh" /\ ~call[t].late
      /\ tokens[call[t].token].session \in DOMAIN sessions
      /\ call' = call /\ call' \in [Threads -> CallRow]
  BY AtStatement DEF RotateToken, Known, OwnRows, Typed
<1>2. /\ tokens' \in Seq(TokenRow) /\ TokensGrow
      /\ \A k \in DOMAIN tokens' : tokens'[k].session \in DOMAIN sessions
  BY <1>1, TokenAdded DEF RotateToken
<1>3. Typed' /\ Grow /\ Others(t)
  BY <1>1, <1>2, Retyped DEF RotateToken, Moves
<1> QED BY <1>1, <1>3, FinishEffect, Granted DEF Step, RotateToken

-----------------------------------------------------------------------------
(* Arrivals, crashes and everything else.                                  *)

Arriving(c) ==
    /\ c \in CallRow /\ c.op \in Operations /\ c.user \in Users
    /\ c.victims = {} /\ c.witnessed = {}
    /\ c.op \in {"refresh", "logout"} => /\ c.token \in DOMAIN tokens
                                         /\ c.session = tokens[c.token].session
    /\ c.late => /\ c.session \in DOMAIN sessions /\ sessions[c.session].revoked
                 /\ c.op \notin {"login", "verify"}

LEMMA RowEdited ==
    ASSUME NEW d \in CallRow, NEW k \in Nat, NEW e \in [device : Nat, counter : Int]
    PROVE  /\ [d EXCEPT !.token = k] \in CallRow /\ [d EXCEPT !.token = k].token = k
           /\ [d EXCEPT !.code = e] \in CallRow
           /\ \A c \in {[d EXCEPT !.token = k], [d EXCEPT !.code = e]} :
                 /\ c.op = d.op /\ c.user = d.user /\ c.victims = d.victims
                 /\ c.witnessed = d.witnessed /\ c.session = d.session /\ c.late = d.late
  BY DEF CallRow

LEMMA CallsKnown ==
    ASSUME Typed, NEW c \in Calls
    PROVE  Arriving(c)
<1> USE RowsTyped DEF Operations
<1>1. NoCall \in CallRow /\ NoCall.victims = {} /\ NoCall.witnessed = {} /\ ~NoCall.late
  BY DEF NoCall, CallRow, NoCode
<1>2. Codes \subseteq [device : Nat, counter : Int]
  <2>1. \A n \in now - 1 .. now + 1 : n \in Int
    BY DEF Typed
  <2>2. \A d \in DOMAIN devices : d \in Nat
    OBVIOUS
  <2> QED BY <2>1, <2>2 DEF Codes, NoCode
<1>3. ASSUME NEW op \in Operations, NEW s \in DOMAIN sessions
      PROVE  /\ CallOf(op, s) \in CallRow
             /\ CallOf(op, s).op = op /\ CallOf(op, s).user \in Users
             /\ CallOf(op, s).victims = {} /\ CallOf(op, s).witnessed = {}
             /\ CallOf(op, s).session = s /\ CallOf(op, s).late = sessions[s].revoked
  <2>1. s \in Nat /\ sessions[s] \in SessionRow
    OBVIOUS
  <2> QED BY <1>1, <2>1 DEF CallOf, CallRow, SessionRow
<1>4. CASE c \in LoginCalls
  <2>1. PICK u \in load.users : c = [NoCall EXCEPT !.op = "login", !.user = u]
    BY <1>4 DEF LoginCalls
  <2>2. u \in Users
    BY LoadsAssumption DEF Typed
  <2> QED BY <1>1, <2>1, <2>2 DEF Arriving, CallRow
<1>5. CASE c \in VerifyCalls
  <2>1. PICK n \in DOMAIN challenges, k \in Codes : c = VerifyCall(n, k)
    BY <1>5 DEF VerifyCalls
  <2>2. challenges[n].user \in Users /\ n \in Nat
    BY DEF ChallengeRow
  <2> QED BY <1>1, <1>2, <2>1, <2>2 DEF VerifyCall, Arriving, CallRow
<1>6. CASE c \in TokenCalls
  <2>1. PICK op \in {"refresh", "logout"}, k \in DOMAIN tokens :
           c = [CallOf(op, tokens[k].session) EXCEPT !.token = k]
    BY <1>6 DEF TokenCalls
  <2>2. tokens[k].session \in DOMAIN sessions /\ k \in Nat
    BY DEF Typed
  <2> DEFINE d == CallOf(op, tokens[k].session)
  <2>3. /\ d \in CallRow /\ d.op = op /\ d.user \in Users
        /\ d.victims = {} /\ d.witnessed = {}
        /\ d.session = tokens[k].session /\ d.late = sessions[d.session].revoked
    BY <1>3, <2>2
  <2>4. c = [d EXCEPT !.token = k]
    BY <2>1
  <2> HIDE DEF d
  <2>5. /\ c \in CallRow /\ c.token = k
        /\ c.op = d.op /\ c.user = d.user /\ c.victims = d.victims
        /\ c.witnessed = d.witnessed /\ c.session = d.session /\ c.late = d.late
    BY <1>1, <2>2, <2>3, <2>4, RowEdited DEF CallRow
  <2> QED BY <2>2, <2>3, <2>5 DEF Arriving
<1>7. CASE c \in DeviceCalls
  <2>1. PICK op \in {"confirm", "disable"}, s \in DOMAIN sessions, k \in Codes :
           c = [CallOf(op, s) EXCEPT !.code = k]
    BY <1>7 DEF DeviceCalls
  <2> DEFINE d == CallOf(op, s)
  <2>2. /\ d \in CallRow /\ d.op = op /\ d.user \in Users
        /\ d.victims = {} /\ d.witnessed = {}
        /\ d.session = s /\ d.late = sessions[s].revoked
    BY <1>3
  <2>3. c = [d EXCEPT !.code = k]
    BY <2>1
  <2> HIDE DEF d
  <2>4. /\ c \in CallRow
        /\ c.op = d.op /\ c.user = d.user /\ c.victims = d.victims
        /\ c.witnessed = d.witnessed /\ c.session = d.session /\ c.late = d.late
    BY <1>2, <2>2, <2>3, RowEdited DEF CallRow
  <2> QED BY <2>2, <2>4 DEF Arriving
<1>8. CASE c \in EnrollCalls
  <2>1. PICK s \in DOMAIN sessions : c = CallOf("enroll", s)
    BY <1>8 DEF EnrollCalls
  <2> QED BY <1>3, <2>1 DEF Arriving
<1> QED BY <1>4, <1>5, <1>6, <1>7, <1>8 DEF Calls

LEMMA StepReceive ==
    ASSUME Typed, NEW t \in Threads, Known(t), Receive(t)
    PROVE  Step(t)
<1>1. PICK c \in Calls : /\ call' = [call EXCEPT ![t] = [c EXCEPT !.number = requests + 1]]
                         /\ pc' = [pc EXCEPT ![t] = FirstStatement(c.op)]
  BY DEF Receive
<1> DEFINE d == [c EXCEPT !.number = requests + 1]
<1>2. Arriving(c)
  BY CallsKnown
<1>3. /\ d \in CallRow
      /\ d.op = c.op /\ d.user = c.user /\ d.victims = c.victims /\ d.witnessed = c.witnessed
      /\ d.token = c.token /\ d.session = c.session /\ d.late = c.late
  <2>1. c \in CallRow /\ requests + 1 \in Nat
    BY <1>2 DEF Arriving, Typed
  <2> QED BY <2>1 DEF CallRow
<1>4. /\ call' \in [Threads -> CallRow] /\ call'[t] = d
      /\ \A u \in Threads \ {t} : call'[u] = call[u]
  BY <1>1, <1>3, CallReplaced
<1>5. /\ pc'[t] = FirstStatement(c.op) /\ reply'[t] = "none"
      /\ DOMAIN pc' = Threads /\ DOMAIN reply' = Threads
      /\ \A u \in Threads \ {t} : pc'[u] = pc[u] /\ reply'[u] = reply[u]
  BY <1>1 DEF Receive, Typed
<1>6. UNCHANGED <<sessions, tokens, devices, challenges, now, load>> /\ requests' = requests + 1
  BY DEF Receive, tables
<1>7. Typed' /\ Grow
  <2>1. Grow /\ \A k \in DOMAIN tokens' : tokens'[k].session \in DOMAIN sessions'
    BY <1>6, TablesKept DEF Grow
  <2> QED BY <1>4, <1>5, <1>6, <2>1 DEF Typed
<1>8. Others(t)
  BY <1>4, <1>5 DEF Others
<1> HIDE DEF d
<1>9. Stands(t)'
  BY <1>2, <1>3, <1>4, <1>5 DEF Stands, StatementsOf, FirstStatement, Operations, Arriving
<1>10. \/ pc'[t] \in {"password", "challenge", "authenticate"}
       \/ pc'[t] = "parse" /\ c.op = "refresh"
  BY <1>5 DEF FirstStatement
<1>11. OwnRows(t)'
  BY <1>2, <1>3, <1>4, <1>6, <1>10 DEF OwnRows, Arriving
<1>12. VictimKnown(t)' /\ WitnessedKnown(t)'
  BY <1>2, <1>3, <1>4, <1>5, <1>10 DEF VictimKnown, WitnessedKnown, Revoking, Arriving
<1>13. LateKnown(t)'
  BY <1>2, <1>3, <1>4, <1>5, <1>6 DEF LateKnown, FirstStatement, Arriving
<1> QED BY <1>7, <1>8, <1>9, <1>11, <1>12, <1>13 DEF Step, Known

LEMMA StepCrash ==
    ASSUME Typed, NEW t \in Threads, Known(t), Crash(t)
    PROVE  Step(t)
<1>1. /\ pc'[t] = "idle" /\ reply'[t] = "lost" /\ call' = call
      /\ DOMAIN pc' = Threads /\ DOMAIN reply' = Threads
      /\ \A u \in Threads \ {t} : pc'[u] = pc[u] /\ reply'[u] = reply[u]
      /\ UNCHANGED <<sessions, tokens, devices, challenges, now, load, requests>>
  BY DEF Crash, tables, Typed
<1>2. Grow /\ \A k \in DOMAIN tokens' : tokens'[k].session \in DOMAIN sessions'
  BY <1>1, TablesKept DEF Grow
<1>3. Typed' /\ Others(t)
  BY <1>1, <1>2 DEF Typed, Others
<1> QED BY <1>1, <1>2, <1>3, TurnedAway DEF Step

-----------------------------------------------------------------------------
(* The inductive invariant of the handlers.                                *)

IInv == Typed /\ \A t \in Threads : Known(t)

LEMMA HandlerStep ==
    ASSUME IInv, NEW t \in Threads, Receive(t) \/ Statement(t) \/ Crash(t)
    PROVE  IInv' /\ Grow /\ Others(t)
<1>1. Step(t)
  <2> USE DEF IInv
  <2>1. CASE Receive(t) \/ Crash(t)
    BY <2>1, StepReceive, StepCrash
  <2>2. CASE Authenticate(t) \/ CheckPassword(t) \/ OpenSession(t) \/ MintPair(t)
             \/ CheckChallenge(t) \/ SpendChallenge(t)
    BY <2>2, StepAuthenticate, StepCheckPassword, StepOpenSession, StepMintPair,
       StepCheckChallenge, StepSpendChallenge
  <2>3. CASE ReadDevice(t) \/ ClearUnconfirmed(t) \/ CreateDevice(t)
             \/ VerifyTotp(t) \/ ConfirmDevice(t) \/ DeleteDevice(t) \/ ListSessions(t)
    BY <2>3, StepReadDevice, StepClearUnconfirmed, StepCreateDevice, StepVerifyTotp,
       StepConfirmDevice, StepDeleteDevice, StepListSessions
  <2>4. CASE RevokeSession(t) \/ BlacklistFamily(t) \/ AnnounceRevocation(t)
    BY <2>4, StepRevokeSession, StepBlacklistFamily, StepAnnounceRevocation
  <2>5. CASE ParseToken(t) \/ HandleReuse(t) \/ CheckSession(t) \/ ParseAgain(t)
             \/ BlacklistToken(t) \/ RotateToken(t)
    BY <2>5, StepParseToken, StepHandleReuse, StepCheckSession, StepParseAgain,
       StepBlacklistToken, StepRotateToken
  <2> QED BY <2>1, <2>2, <2>3, <2>4, <2>5 DEF Statement
<1>2. ASSUME NEW u \in Threads \ {t}
      PROVE  Known(u)'
  BY <1>1, <1>2, KnownStable DEF Step, Others, IInv
<1> QED BY <1>1, <1>2 DEF Step, IInv

(* Sockets, events and the clock leave the handlers and their rows alone.  *)
Apart == UNCHANGED <<tables, trail, handlers, accepted, budget>> /\ now' \in Int

LEMMA ApartStep ==
    ASSUME IInv, Apart
    PROVE  IInv' /\ Grow
<1>1. /\ UNCHANGED <<sessions, tokens, devices, challenges, pc, call, reply, load, requests>>
      /\ now' \in Int
  BY DEF Apart, tables, handlers, budget
<1>2. Grow /\ \A k \in DOMAIN tokens' : tokens'[k].session \in DOMAIN sessions'
  BY <1>1, TablesKept DEF Grow, IInv
<1>3. Typed'
  BY <1>1, <1>2 DEF Typed, IInv
<1>4. ASSUME NEW t \in Threads
      PROVE  Known(t)'
  BY <1>1, <1>2, <1>3, KnownStable DEF IInv
<1> QED BY <1>2, <1>3, <1>4 DEF IInv

LEMMA EitherStep ==
    ASSUME IInv, [Next]_vars
    PROVE  Apart \/ \E t \in Threads : Receive(t) \/ Statement(t) \/ Crash(t)
<1>1. CASE UNCHANGED vars
  BY <1>1 DEF vars, sessionVars, Apart, IInv, Typed
<1>2. CASE Tick
  BY <1>2 DEF Tick, Apart, IInv, Typed
<1>3. ASSUME NEW k \in Sockets, Socket(k)
      PROVE  UNCHANGED sessionState
  BY <1>3 DEF Socket, Connect, AuthFrame, TakeIdentity, JoinSession, Subscribe, Unsubscribe,
              Deliver, TimerFires, ClientLeaves, Disconnect
<1>4. ASSUME NEW u \in Users, Publish(u)
      PROVE  UNCHANGED sessionState
  BY <1>4 DEF Publish
<1>5. UNCHANGED sessionState => Apart
  BY DEF sessionState, Apart, IInv, Typed
<1> QED BY <1>1, <1>2, <1>3, <1>4, <1>5 DEF Next, SessionsNext

LEMMA IInvHolds == Spec => []IInv
<1>1. Init => IInv
  <2> SUFFICES ASSUME Init
               PROVE  IInv
    OBVIOUS
  <2>1. Typed
    BY InitTyped
  <2>2. ASSUME NEW t \in Threads
        PROVE  Known(t)
    <3>1. pc[t] = "idle" /\ call[t] = NoCall /\ reply[t] = "none"
      BY DEF Init, SessionsInit
    <3>2. NoCall.op = "none" /\ NoCall.victims = {} /\ ~NoCall.late
      BY DEF NoCall
    <3> QED BY <3>1, <3>2 DEF Known, Stands, StatementsOf, OwnRows, VictimKnown,
                              WitnessedKnown, LateKnown, Revoking
  <2> QED BY <2>1, <2>2 DEF IInv
<1>2. IInv /\ [Next]_vars => IInv'
  BY EitherStep, HandlerStep, ApartStep
<1> QED BY <1>1, <1>2, PTL DEF Spec

-----------------------------------------------------------------------------
(* A request that arrives after its session was revoked is granted nothing:*)
(* no new token pair, no device, no answer but a refusal or a replay.      *)
THEOREM NothingAfterRevocationHolds == Spec => []NothingAfterRevocation
<1>1. IInv => NothingAfterRevocation
  BY DEF IInv, Known, LateKnown, NothingAfterRevocation
<1> QED BY <1>1, IInvHolds, PTL

(* A replay that has been answered has ended its session.                  *)
THEOREM ReplayEndsFamilyHolds == Spec => []ReplayEndsFamily
<1>1. IInv => ReplayEndsFamily
  BY DEF IInv, Known, VictimKnown, ReplayEndsFamily
<1> QED BY <1>1, IInvHolds, PTL

(* MfaDisableView answers when every session it must end is revoked, the   *)
(* one that asked included, however many there are.                        *)
THEOREM DisableEndsSessionsHolds == Spec => []DisableEndsSessions
<1>1. IInv => DisableEndsSessions
  BY DEF IInv, Known, WitnessedKnown, DisableEndsSessions
<1> QED BY <1>1, IInvHolds, PTL

-----------------------------------------------------------------------------
(* Codes. The step of every accepted code has been used, so the code is    *)
(* refused the second time.                                                *)

CodesUsed ==
    /\ \A a \in accepted : /\ a.code.device \in DOMAIN devices /\ a.code.counter \in Int
                           /\ a.code.counter <= devices[a.code.device].last
    /\ CodeSpentOnce

LEMMA OnlyVerifyAccepts ==
    ASSUME NEW t \in Threads, Receive(t) \/ Statement(t) \/ Crash(t)
    PROVE  VerifyTotp(t) \/ UNCHANGED accepted
  BY DEF Receive, Statement, Crash, Authenticate, CheckPassword, OpenSession, MintPair,
         CheckChallenge, SpendChallenge, ReadDevice, ClearUnconfirmed, CreateDevice,
         ConfirmDevice, DeleteDevice, ListSessions, RevokeSession, BlacklistFamily,
         AnnounceRevocation, ParseToken, HandleReuse, CheckSession, ParseAgain,
         BlacklistToken, RotateToken

LEMMA UsedStays ==
    ASSUME CodesUsed, IInv, IInv', Grow, UNCHANGED accepted
    PROVE  CodesUsed'
<1>1. \A d \in DOMAIN devices : /\ d \in DOMAIN devices' /\ devices[d].last <= devices'[d].last
                                /\ devices[d].last \in Int /\ devices'[d].last \in Int
  <2>1. \A d \in DOMAIN devices : devices[d].last \in Int
    BY RowsTyped DEF IInv, DeviceRow
  <2>2. \A d \in DOMAIN devices' : devices'[d] \in DeviceRow
    BY LenProperties, ElementOfSeq DEF IInv, Typed
  <2> QED BY <2>1, <2>2 DEF Grow, DevicesGrow, DeviceRow
<1> QED BY <1>1 DEF CodesUsed, CodeSpentOnce

LEMMA CodesStep ==
    ASSUME CodesUsed, IInv, IInv', [Next]_vars
    PROVE  CodesUsed'
<1>1. CASE Apart
  BY <1>1, ApartStep, UsedStays DEF Apart
<1>2. ASSUME NEW t \in Threads, Receive(t) \/ Statement(t) \/ Crash(t)
      PROVE  CodesUsed'
  <2>1. Grow
    BY <1>2, HandlerStep
  <2>2. CASE UNCHANGED accepted
    BY <2>1, <2>2, UsedStays
  <2>3. CASE VerifyTotp(t) /\ ~UNCHANGED accepted
    <3> DEFINE c == call[t]
               new == [code |-> c.code, request |-> c.number]
    <3>1. /\ UnusedStep(c) /\ accepted' = accepted \cup {new}
          /\ devices' = [devices EXCEPT ![c.device].last = c.code.counter]
      BY <2>3 DEF VerifyTotp
    <3>2. c \in CallRow /\ c.device \in DOMAIN devices
      BY <2>3 DEF VerifyTotp, IInv, Typed, Known, OwnRows
    <3>3. /\ c.code.device = c.device /\ devices[c.device].last < c.code.counter
          /\ c.code.counter \in Int
      BY <3>1, <3>2 DEF UnusedStep, Matches, CallRow
    <3>4. DevicesGrow /\ devices'[c.device].last = c.code.counter
      BY <3>1, <3>2, StepBurnt DEF IInv
    <3>5. \A d \in DOMAIN devices : /\ d \in DOMAIN devices' /\ devices[d].last <= devices'[d].last
                                    /\ devices[d].last \in Int /\ devices'[d].last \in Int
      <4>1. \A d \in DOMAIN devices : devices[d].last \in Int
        BY RowsTyped DEF IInv, DeviceRow
      <4>2. \A d \in DOMAIN devices' : devices'[d] \in DeviceRow
        BY LenProperties, ElementOfSeq DEF IInv, Typed
      <4> QED BY <3>4, <4>1, <4>2 DEF DevicesGrow, DeviceRow
    <3>6. \A a \in accepted : a.code # new.code
      BY <3>2, <3>3, <3>5 DEF CodesUsed
    <3>7. \A a \in accepted' : /\ a.code.device \in DOMAIN devices' /\ a.code.counter \in Int
                               /\ a.code.counter <= devices'[a.code.device].last
      <4>1. ASSUME NEW a \in accepted
            PROVE  /\ a.code.device \in DOMAIN devices' /\ a.code.counter \in Int
                   /\ a.code.counter <= devices'[a.code.device].last
        BY <3>5 DEF CodesUsed
      <4>2. /\ new.code.device \in DOMAIN devices' /\ new.code.counter \in Int
            /\ new.code.counter <= devices'[new.code.device].last
        BY <3>2, <3>3, <3>4, <3>5
      <4> QED BY <3>1, <4>1, <4>2
    <3>8. CodeSpentOnce'
      BY <3>1, <3>6 DEF CodesUsed, CodeSpentOnce
    <3> QED BY <3>7, <3>8 DEF CodesUsed
  <2> QED BY <1>2, <2>2, <2>3, OnlyVerifyAccepts
<1> QED BY <1>1, <1>2, EitherStep

(* A TOTP code opens one door: no two requests get through verify_totp     *)
(* with the same one.                                                      *)
THEOREM CodeSpentOnceHolds == Spec => []CodeSpentOnce
<1>1. Init => CodesUsed
  BY DEF Init, SessionsInit, CodesUsed, CodeSpentOnce
<1>2. IInv /\ IInv' /\ CodesUsed /\ [Next]_vars => CodesUsed'
  BY CodesStep
<1>3. CodesUsed => CodeSpentOnce
  BY DEF CodesUsed
<1> QED BY <1>1, <1>2, <1>3, IInvHolds, PTL DEF Spec

-----------------------------------------------------------------------------
(* Audit rows of revocations. The handler whose UPDATE found its row has   *)
(* the session for itself until it has written the row.                    *)

Winning(t) == pc[t] \in {"family", "announce"}

RowsUnique ==
    /\ \A r \in trail : r.action = "session_revoked" =>
          /\ r.of \in DOMAIN sessions /\ sessions[r.of].revoked
          /\ \A t \in Threads : Winning(t) => call[t].victim # r.of
    /\ \A t, u \in Threads :
          t # u /\ Winning(t) /\ Winning(u) => call[t].victim # call[u].victim
    /\ RevokedOnce

(* What most statements do: no such row, and no new winner.                *)
LogsNothing(t) ==
    /\ \A r \in trail' : r.action = "session_revoked" => r \in trail
    /\ pc'[t] \notin {"family", "announce"}

LEMMA MostLogNothing ==
    ASSUME Typed, NEW t \in Threads, Receive(t) \/ Statement(t) \/ Crash(t)
    PROVE  RevokeSession(t) \/ BlacklistFamily(t) \/ AnnounceRevocation(t) \/ LogsNothing(t)
<1> USE DEF LogsNothing, Audit, Row, GoTo, Finish, Typed
<1>1. CASE Receive(t) \/ Crash(t)
  BY <1>1 DEF Receive, Crash, FirstStatement
<1>2. CASE Authenticate(t)
  BY <1>2 DEF Authenticate
<1>3. CASE CheckPassword(t)
  BY <1>3 DEF CheckPassword
<1>4. CASE OpenSession(t)
  BY <1>4 DEF OpenSession
<1>5. CASE MintPair(t)
  BY <1>5 DEF MintPair
<1>6. CASE CheckChallenge(t)
  BY <1>6 DEF CheckChallenge
<1>7. CASE SpendChallenge(t)
  BY <1>7 DEF SpendChallenge
<1>8. CASE ReadDevice(t)
  BY <1>8 DEF ReadDevice
<1>9. CASE ClearUnconfirmed(t)
  BY <1>9 DEF ClearUnconfirmed
<1>10. CASE CreateDevice(t)
  BY <1>10 DEF CreateDevice
<1>11. CASE ConfirmDevice(t)
  BY <1>11 DEF ConfirmDevice
<1>12. CASE DeleteDevice(t)
  BY <1>12 DEF DeleteDevice
<1>13. CASE ListSessions(t)
  BY <1>13 DEF ListSessions, RevokeNext
<1>14. CASE ParseToken(t)
  BY <1>14 DEF ParseToken
<1>15. CASE HandleReuse(t)
  BY <1>15 DEF HandleReuse
<1>16. CASE CheckSession(t)
  BY <1>16 DEF CheckSession
<1>17. CASE ParseAgain(t)
  BY <1>17 DEF ParseAgain
<1>18. CASE BlacklistToken(t)
  BY <1>18 DEF BlacklistToken
<1>19. CASE RotateToken(t)
  BY <1>19 DEF RotateToken
<1>20. CASE VerifyTotp(t)
  BY <1>20 DEF VerifyTotp
<1> QED BY <1>1, <1>2, <1>3, <1>4, <1>5, <1>6, <1>7, <1>8, <1>9, <1>10, <1>11, <1>12,
           <1>13, <1>14, <1>15, <1>16, <1>17, <1>18, <1>19, <1>20 DEF Statement

LEMMA RowsKeptApart ==
    ASSUME RowsUnique, SessionsGrow, NEW t \in Threads, Others(t), LogsNothing(t)
    PROVE  RowsUnique'
<1>1. \A u \in Threads : Winning(u)' => Winning(u) /\ call'[u].victim = call[u].victim
  BY DEF Winning, LogsNothing, Others
<1>2. \A r \in trail' : r.action = "session_revoked" =>
         /\ r.of \in DOMAIN sessions' /\ sessions'[r.of].revoked
         /\ \A u \in Threads : Winning(u)' => call'[u].victim # r.of
  BY <1>1 DEF RowsUnique, LogsNothing, SessionsGrow
<1>3. RevokedOnce'
  BY <1>2 DEF RowsUnique, RevokedOnce, LogsNothing
<1> QED BY <1>1, <1>2, <1>3 DEF RowsUnique

LEMMA RowsRevokeSession ==
    ASSUME RowsUnique, IInv, SessionsGrow, NEW t \in Threads, Others(t), RevokeSession(t)
    PROVE  RowsUnique'
<1> DEFINE s == call[t].victim
<1>1. CASE sessions[s].revoked /\ AfterRevocation(t, {})
  <2>1. LogsNothing(t)
    BY <1>1 DEF AfterRevocation, LogsNothing, RevokeNext, Row, GoTo, Finish, IInv, Typed
  <2> QED BY <2>1, RowsKeptApart
<1>2. CASE ~sessions[s].revoked /\ GoTo(t, "family") /\ UNCHANGED <<trail, call>>
  <2>1. /\ trail' = trail /\ call' = call
        /\ \A u \in Threads \ {t} : Winning(u)' = Winning(u)
    BY <1>2 DEF Others, Winning
  <2>2. \A u \in Threads : Winning(u) => sessions[call[u].victim].revoked
    BY DEF IInv, Known, VictimKnown, Winning
  <2>3. \A u \in Threads \ {t} : Winning(u) => call[u].victim # s
    BY <1>2, <2>2
  <2>4. \A r \in trail' : r.action = "session_revoked" =>
           /\ r.of \in DOMAIN sessions' /\ sessions'[r.of].revoked
           /\ \A u \in Threads : Winning(u)' => call'[u].victim # r.of
    BY <1>2, <2>1 DEF RowsUnique, SessionsGrow
  <2>5. \A u, v \in Threads :
           u # v /\ Winning(u)' /\ Winning(v)' => call'[u].victim # call'[v].victim
    BY <2>1, <2>3 DEF RowsUnique
  <2>6. RevokedOnce'
    BY <2>1, <2>4 DEF RowsUnique, RevokedOnce
  <2> QED BY <2>4, <2>5, <2>6 DEF RowsUnique
<1> QED BY <1>1, <1>2 DEF RevokeSession

LEMMA RowsBlacklistFamily ==
    ASSUME RowsUnique, SessionsGrow, NEW t \in Threads, Others(t), BlacklistFamily(t)
    PROVE  RowsUnique'
<1>1. /\ trail' = trail /\ call' = call
      /\ \A u \in Threads : Winning(u)' => Winning(u)
  BY DEF BlacklistFamily, Others, Winning
<1>2. \A r \in trail' : r.action = "session_revoked" =>
         r.of \in DOMAIN sessions' /\ sessions'[r.of].revoked
  BY <1>1 DEF RowsUnique, SessionsGrow
<1>3. RevokedOnce'
  BY <1>1, <1>2 DEF RowsUnique, RevokedOnce
<1> QED BY <1>1, <1>2, <1>3 DEF RowsUnique

LEMMA RowsAnnounceRevocation ==
    ASSUME RowsUnique, IInv, SessionsGrow, NEW t \in Threads, Others(t), AnnounceRevocation(t)
    PROVE  RowsUnique'
<1> DEFINE s == call[t].victim
           new == Row(t, "session_revoked", s)
<1>1. /\ Winning(t) /\ s \in DOMAIN sessions /\ sessions[s].revoked
  BY DEF AnnounceRevocation, IInv, Known, VictimKnown, Winning, Revoking
<1>2. /\ \A r \in trail' : r.action = "session_revoked" => r \in trail \/ r = new
      /\ new.of = s
  BY DEF AnnounceRevocation, AfterRevocation, Row
<1>3. \A r \in trail : r.action = "session_revoked" => r.of # s
  BY <1>1 DEF RowsUnique
<1>4. ~Winning(t)'
  BY DEF AnnounceRevocation, AfterRevocation, RevokeNext, GoTo, Finish, IInv, Typed, Winning
<1>5. \A u \in Threads : Winning(u)' => u # t /\ Winning(u) /\ call'[u] = call[u]
  BY <1>4 DEF Others, Winning
<1>6. \A u \in Threads : Winning(u)' => call'[u].victim # s
  BY <1>1, <1>5 DEF RowsUnique
<1>7. \A r \in trail' : r.action = "session_revoked" =>
         /\ r.of \in DOMAIN sessions' /\ sessions'[r.of].revoked
         /\ \A u \in Threads : Winning(u)' => call'[u].victim # r.of
  BY <1>1, <1>2, <1>5, <1>6 DEF RowsUnique, SessionsGrow
<1>8. RevokedOnce'
  BY <1>2, <1>3, <1>7 DEF RowsUnique, RevokedOnce
<1> QED BY <1>5, <1>7, <1>8 DEF RowsUnique

LEMMA RowsStep ==
    ASSUME RowsUnique, IInv, [Next]_vars
    PROVE  RowsUnique'
<1>1. CASE Apart
  <2>1. UNCHANGED <<sessions, trail, pc, call>>
    BY <1>1 DEF Apart, tables, handlers
  <2> QED BY <2>1 DEF RowsUnique, RevokedOnce, Winning
<1>2. ASSUME NEW t \in Threads, Receive(t) \/ Statement(t) \/ Crash(t)
      PROVE  RowsUnique'
  <2>1. SessionsGrow /\ Others(t)
    BY <1>2, HandlerStep DEF Grow
  <2> QED BY <1>2, <2>1, MostLogNothing, RowsKeptApart, RowsRevokeSession,
             RowsBlacklistFamily, RowsAnnounceRevocation DEF IInv
<1> QED BY <1>1, <1>2, EitherStep

(* A revocation is audited once, by whoever made it, and never for a       *)
(* session that is not revoked.                                            *)
THEOREM RevokedOnceHolds == Spec => []RevokedOnce
<1>1. Init => RowsUnique
  BY DEF Init, SessionsInit, RowsUnique, RevokedOnce, Winning
<1>2. IInv /\ RowsUnique /\ [Next]_vars => RowsUnique'
  BY RowsStep
<1>3. RowsUnique => RevokedOnce
  BY DEF RowsUnique
<1> QED BY <1>1, <1>2, <1>3, IInvHolds, PTL DEF Spec

-----------------------------------------------------------------------------
(* The user whose events socket k may get, and the messages it may hold.   *)
UsersOf(k) == IF identity[k] = 0 THEN {} ELSE {UserOf(identity[k])}
Proper(k) == {SessionKill(s) : s \in Nat} \cup {StreamEvent(u) : u \in UsersOf(k)}

ConsumerTyped ==
    /\ identity \in [Sockets -> Nat] /\ joining \in [Sockets -> Nat]
    /\ DOMAIN step = Sockets /\ DOMAIN received = Sockets /\ DOMAIN inbox = Sockets

(* What the auth handler of a socket knows while it awaits.                *)
HandlerKnown(k) ==
    /\ identity[k] # 0 => identity[k] \in DOMAIN sessions
    /\ step[k] # "ready" => joining[k] \in DOMAIN sessions
    /\ step[k] = "user" /\ identity[k] # 0 => UserOf(joining[k]) = UserOf(identity[k])

Follows(k) ==
    /\ HandlerKnown(k)
    /\ \A u \in Users : <<UserGroup(u), k>> \in members => u \in UsersOf(k)
    /\ inbox[k] \in Seq(Proper(k))
    /\ received[k] \subseteq UsersOf(k)

SInv == ConsumerTyped /\ \A k \in Sockets : Follows(k)

-----------------------------------------------------------------------------
LEMMA SameUsers ==
    ASSUME SessionsGrow, NEW k \in Sockets, HandlerKnown(k), identity'[k] = identity[k]
    PROVE  UsersOf(k)' = UsersOf(k)
  BY DEF SessionsGrow, UsersOf, UserOf, HandlerKnown

LEMMA HandlerKept ==
    ASSUME SessionsGrow, NEW k \in Sockets, HandlerKnown(k), identity'[k] = identity[k],
           joining'[k] = joining[k], step'[k] = step[k]
    PROVE  HandlerKnown(k)'
  BY DEF SessionsGrow, HandlerKnown, UserOf

LEMMA MoreProper ==
    ASSUME NEW k \in Sockets, UsersOf(k) \subseteq UsersOf(k)', NEW q \in Seq(Proper(k))
    PROVE  q \in Seq(Proper(k)')
<1>1. Proper(k) \subseteq Proper(k)'
  BY DEF Proper
<1> QED BY <1>1, SeqMonotonic

(* A socket that a step does not touch.                                    *)
LEMMA FollowsKept ==
    ASSUME SessionsGrow, NEW k \in Sockets, Follows(k), HandlerKnown(k)',
           UsersOf(k) \subseteq UsersOf(k)',
           \A u \in Users : <<UserGroup(u), k>> \in members' => u \in UsersOf(k)',
           inbox'[k] = inbox[k] \/ inbox'[k] \in Seq(Proper(k)'),
           received'[k] \subseteq UsersOf(k)'
    PROVE  Follows(k)'
  BY MoreProper DEF Follows

(* A message that is sent goes to members of its group, so an event of u   *)
(* goes to sockets of u.                                                   *)
LEMMA SendProper ==
    ASSUME ConsumerTyped, NEW k \in Sockets, Follows(k), NEW group, NEW m, Send(group, m),
           <<group, k>> \in members => m \in Proper(k)
    PROVE  inbox'[k] \in Seq(Proper(k)) /\ members' = members /\ DOMAIN inbox' = Sockets
<1>1. inbox[k] \in Seq(Proper(k))
  BY DEF Follows
<1>2. CASE inbox'[k] = Append(inbox[k], m) /\ <<group, k>> \in members
  BY <1>1, <1>2, AppendProperties DEF Send, ConsumerTyped
<1>3. CASE inbox'[k] = inbox[k]
  BY <1>1, <1>3 DEF Send, ConsumerTyped
<1> QED BY <1>2, <1>3 DEF Send, ConsumerTyped

-----------------------------------------------------------------------------
(* The steps of socket j leave every other socket alone.                   *)

Aside(j) ==
    /\ sessions' = sessions
    /\ \A k \in Sockets \ {j} :
          /\ identity'[k] = identity[k] /\ joining'[k] = joining[k] /\ step'[k] = step[k]
          /\ inbox'[k] = inbox[k] /\ received'[k] = received[k]
          /\ \A u \in Users : <<UserGroup(u), k>> \in members' => <<UserGroup(u), k>> \in members

LEMMA AsideFollows ==
    ASSUME SInv, IInv, NEW j \in Sockets, Aside(j), NEW k \in Sockets, k # j
    PROVE  Follows(k)'
<1>1. SessionsGrow
  BY TablesKept DEF Aside, IInv
<1>2. /\ Follows(k) /\ HandlerKnown(k)
      /\ identity'[k] = identity[k] /\ joining'[k] = joining[k] /\ step'[k] = step[k]
  BY DEF SInv, Follows, Aside
<1>3. UsersOf(k)' = UsersOf(k) /\ HandlerKnown(k)'
  BY <1>1, <1>2, SameUsers, HandlerKept
<1> QED BY <1>1, <1>2, <1>3, FollowsKept DEF Aside, Follows

(* A step of socket j that keeps its identity and its user groups.         *)
LEMMA SameIdentity ==
    ASSUME SInv, IInv, NEW j \in Sockets, sessions' = sessions, HandlerKnown(j)',
           identity'[j] = identity[j],
           \A u \in Users : <<UserGroup(u), j>> \in members' => <<UserGroup(u), j>> \in members,
           inbox'[j] = inbox[j] \/ inbox'[j] \in Seq(Proper(j)'),
           received'[j] \subseteq UsersOf(j)
    PROVE  Follows(j)'
<1>1. SessionsGrow
  BY TablesKept DEF IInv
<1>2. Follows(j) /\ HandlerKnown(j)
  BY DEF SInv, Follows
<1>3. UsersOf(j)' = UsersOf(j)
  BY <1>1, <1>2, SameUsers
<1> QED BY <1>1, <1>2, <1>3, FollowsKept DEF Follows

(* Steps that do not concern the auth handler, the inbox or the user's     *)
(* group.                                                                  *)
LEMMA PlainSocketStep ==
    ASSUME SInv, IInv, NEW j \in Sockets,
           \/ Connect(j) \/ TimerFires(j) \/ ClientLeaves(j) \/ Disconnect(j)
           \/ \E symbols \in SUBSET Symbols \ {{}} : Subscribe(j, symbols) \/ Unsubscribe(j, symbols)
    PROVE  SInv'
<1>1. /\ UNCHANGED <<sessions, identity, joining, step, inbox, received>>
      /\ \A k \in Sockets, u \in Users :
            <<UserGroup(u), k>> \in members' => <<UserGroup(u), k>> \in members
  <2> USE DEF sessionState, tables, layer, streamBudget
  <2>1. CASE Connect(j) \/ TimerFires(j) \/ ClientLeaves(j)
    BY <2>1 DEF Connect, TimerFires, ClientLeaves
  <2>2. CASE Disconnect(j)
    BY <2>2 DEF Disconnect, Leave
  <2>3. ASSUME NEW symbols \in SUBSET Symbols \ {{}}, Subscribe(j, symbols)
        PROVE  /\ UNCHANGED <<sessions, identity, joining, step, inbox, received>>
               /\ \A k \in Sockets, u \in Users :
                     <<UserGroup(u), k>> \in members' => <<UserGroup(u), k>> \in members
    BY <2>3 DEF Subscribe, Join, PriceGroups, PriceGroup, UserGroup
  <2>4. ASSUME NEW symbols \in SUBSET Symbols \ {{}}, Unsubscribe(j, symbols)
        PROVE  /\ UNCHANGED <<sessions, identity, joining, step, inbox, received>>
               /\ \A k \in Sockets, u \in Users :
                     <<UserGroup(u), k>> \in members' => <<UserGroup(u), k>> \in members
    BY <2>4 DEF Unsubscribe, Leave
  <2> QED BY <2>1, <2>2, <2>3, <2>4
<1>2. SessionsGrow
  BY <1>1, TablesKept DEF IInv
<1>3. ConsumerTyped'
  BY <1>1 DEF SInv, ConsumerTyped
<1>4. ASSUME NEW k \in Sockets
      PROVE  Follows(k)'
  <2>1. HandlerKnown(k)'
    BY <1>1, <1>2, HandlerKept DEF SInv, Follows
  <2> QED BY <1>1, <2>1, SameIdentity DEF SInv, Follows
<1> QED BY <1>3, <1>4 DEF SInv

LEMMA AuthFrameStep ==
    ASSUME SInv, IInv, NEW j \in Sockets, NEW s, AuthFrame(j, s)
    PROVE  SInv'
<1>1. UNCHANGED <<sessions, identity, inbox, members, received>>
  BY DEF AuthFrame, sessionState, tables, layer
<1>2. \/ UNCHANGED <<joining, step>>
      \/ /\ Acceptable(j, s)
         /\ joining' = [joining EXCEPT ![j] = s] /\ step' = [step EXCEPT ![j] = "user"]
  BY DEF AuthFrame
<1>3. Acceptable(j, s) => s \in DOMAIN sessions /\ s \in Nat
  BY RowsTyped DEF Acceptable, ActiveSession, IInv
<1>4. ConsumerTyped'
  BY <1>1, <1>2, <1>3 DEF SInv, ConsumerTyped
<1>5. Aside(j)
  BY <1>1, <1>2 DEF Aside, SInv, ConsumerTyped
<1>6. HandlerKnown(j)'
  BY <1>1, <1>2, <1>3 DEF HandlerKnown, SInv, Follows, ConsumerTyped, Acceptable, UserOf
<1>7. Follows(j)'
  BY <1>1, <1>6, SameIdentity DEF SInv, Follows
<1> QED BY <1>4, <1>5, <1>7, AsideFollows DEF SInv

(* The first time, the socket gets its user; later, the same one.          *)
LEMMA TakeIdentityStep ==
    ASSUME SInv, IInv, NEW j \in Sockets, TakeIdentity(j)
    PROVE  SInv'
<1> DEFINE s == joining[j]
<1>1. /\ step[j] = "user" /\ UNCHANGED <<sessions, inbox, joining, received>>
      /\ identity' = [identity EXCEPT ![j] = s] /\ step' = [step EXCEPT ![j] = "session"]
      /\ Join(j, IF identity[j] = 0 THEN {UserGroup(UserOf(s))} ELSE {})
  BY DEF TakeIdentity, sessionState, tables
<1>2. /\ Follows(j) /\ HandlerKnown(j) /\ s \in DOMAIN sessions /\ s \in Nat /\ s # 0
      /\ identity[j] # 0 => UserOf(s) = UserOf(identity[j])
  BY <1>1, RowsTyped DEF SInv, Follows, HandlerKnown, IInv
<1>3. ConsumerTyped'
  BY <1>1, <1>2 DEF SInv, ConsumerTyped
<1>4. Aside(j)
  BY <1>1 DEF Aside, SInv, ConsumerTyped, Join
<1>5. UsersOf(j)' = {UserOf(s)} /\ UsersOf(j) \subseteq {UserOf(s)}
  BY <1>1, <1>2 DEF UsersOf, UserOf, SInv, ConsumerTyped
<1>6. HandlerKnown(j)'
  BY <1>1, <1>2 DEF HandlerKnown, SInv, ConsumerTyped
<1>7. \A u \in Users : <<UserGroup(u), j>> \in members' => u \in UsersOf(j)'
  BY <1>1, <1>2, <1>5 DEF Join, Follows, UserGroup
<1>8. SessionsGrow
  BY <1>1, TablesKept DEF IInv
<1>9. Follows(j)'
  BY <1>1, <1>2, <1>5, <1>6, <1>7, <1>8, FollowsKept DEF Follows
<1> QED BY <1>3, <1>4, <1>9, AsideFollows DEF SInv

LEMMA JoinSessionStep ==
    ASSUME SInv, IInv, NEW j \in Sockets, JoinSession(j)
    PROVE  SInv'
<1>1. /\ UNCHANGED <<sessions, inbox, identity, received>>
      /\ joining' = [joining EXCEPT ![j] = 0] /\ step' = [step EXCEPT ![j] = "ready"]
      /\ Join(j, {SessionGroup(joining[j])})
  BY DEF JoinSession, sessionState, tables
<1>2. ConsumerTyped'
  BY <1>1 DEF SInv, ConsumerTyped
<1>3. \A k \in Sockets, u \in Users :
         <<UserGroup(u), k>> \in members' => <<UserGroup(u), k>> \in members
  BY <1>1 DEF Join, SessionGroup, UserGroup
<1>4. Aside(j)
  BY <1>1, <1>3 DEF Aside, SInv, ConsumerTyped
<1>5. HandlerKnown(j)'
  BY <1>1 DEF HandlerKnown, SInv, Follows, ConsumerTyped
<1>6. Follows(j)'
  BY <1>1, <1>3, <1>5, SameIdentity DEF SInv, Follows
<1> QED BY <1>2, <1>4, <1>6, AsideFollows DEF SInv

LEMMA DeliverStep ==
    ASSUME SInv, IInv, NEW j \in Sockets, Deliver(j)
    PROVE  SInv'
<1> DEFINE m == Head(inbox[j])
<1>1. /\ UNCHANGED <<sessions, members, identity, joining, step>>
      /\ inbox[j] # <<>> /\ inbox' = [inbox EXCEPT ![j] = Tail(inbox[j])]
      /\ \/ m.type = "stream_event" /\ received' = [received EXCEPT ![j] = received[j] \cup {m.of}]
         \/ UNCHANGED received
  BY DEF Deliver, sessionState, tables
<1>2. Follows(j) /\ HandlerKnown(j) /\ inbox[j] \in Seq(Proper(j))
  BY DEF SInv, Follows
<1>3. m \in Proper(j) /\ Tail(inbox[j]) \in Seq(Proper(j))
  BY <1>1, <1>2, HeadTailProperties
<1>4. m.type = "stream_event" => m.of \in UsersOf(j)
  BY <1>3 DEF Proper, SessionKill, StreamEvent
<1>5. ConsumerTyped' /\ Aside(j)
  BY <1>1 DEF SInv, ConsumerTyped, Aside
<1>6. received'[j] \subseteq UsersOf(j)
  BY <1>1, <1>2, <1>4 DEF Follows, SInv, ConsumerTyped
<1>7. SessionsGrow
  BY <1>1, TablesKept DEF IInv
<1>8. HandlerKnown(j)' /\ UsersOf(j)' = UsersOf(j)
  BY <1>1, <1>2, <1>7, HandlerKept, SameUsers
<1>9. inbox'[j] = Tail(inbox[j])
  BY <1>1 DEF SInv, ConsumerTyped
<1>10. inbox'[j] \in Seq(Proper(j)')
  BY <1>3, <1>8, <1>9, MoreProper
<1>11. Follows(j)'
  BY <1>1, <1>6, <1>8, <1>10, SameIdentity
<1> QED BY <1>5, <1>11, AsideFollows DEF SInv

-----------------------------------------------------------------------------
(* Steps of others: what they send is proper for every socket it reaches.  *)

LEMMA OutsideStep ==
    ASSUME SInv, SessionsGrow, UNCHANGED <<identity, joining, step, received>>,
           members' = members, DOMAIN inbox' = Sockets,
           \A k \in Sockets : inbox'[k] = inbox[k] \/ inbox'[k] \in Seq(Proper(k))
    PROVE  SInv'
<1>1. ConsumerTyped'
  BY DEF SInv, ConsumerTyped
<1>2. ASSUME NEW k \in Sockets
      PROVE  Follows(k)'
  <2>1. Follows(k) /\ HandlerKnown(k)
    BY DEF SInv, Follows
  <2>2. HandlerKnown(k)' /\ UsersOf(k)' = UsersOf(k)
    BY <2>1, HandlerKept, SameUsers
  <2>3. inbox'[k] = inbox[k] \/ inbox'[k] \in Seq(Proper(k)')
    BY <2>2, MoreProper
  <2> QED BY <2>1, <2>2, <2>3, FollowsKept DEF Follows
<1> QED BY <1>1, <1>2 DEF SInv

LEMMA PublishStep ==
    ASSUME SInv, IInv, NEW u \in Users, Publish(u)
    PROVE  SInv'
<1>1. /\ Send(UserGroup(u), StreamEvent(u))
      /\ UNCHANGED <<sessions, identity, joining, step, received>>
  BY DEF Publish, sessionState, tables, consumer
<1>2. \A k \in Sockets : <<UserGroup(u), k>> \in members => StreamEvent(u) \in Proper(k)
  BY DEF SInv, Follows, Proper
<1>3. /\ members' = members /\ DOMAIN inbox' = Sockets
      /\ \A k \in Sockets : inbox'[k] \in Seq(Proper(k))
  <2>1. members' = members /\ DOMAIN inbox' = Sockets
    BY <1>1 DEF Send, SInv, ConsumerTyped
  <2>2. ASSUME NEW k \in Sockets
        PROVE  inbox'[k] \in Seq(Proper(k))
    BY <1>1, <1>2, SendProper DEF SInv
  <2> QED BY <2>1, <2>2
<1>4. SessionsGrow
  BY <1>1, TablesKept DEF IInv
<1> QED BY <1>1, <1>3, <1>4, OutsideStep

LEMMA OnlyKillsAreSent ==
    ASSUME IInv, NEW t \in Threads, Receive(t) \/ Statement(t) \/ Crash(t)
    PROVE  \/ UNCHANGED layer
           \/ \E s \in Nat : Send(SessionGroup(s), SessionKill(s))
<1>1. CASE AnnounceRevocation(t)
  <2>1. call[t].victim \in Nat
    BY DEF IInv, Typed, CallRow
  <2> QED BY <1>1, <2>1 DEF AnnounceRevocation
<1>2. CASE ~AnnounceRevocation(t)
  BY <1>2 DEF Receive, Statement, Crash, Authenticate, CheckPassword, OpenSession, MintPair,
         CheckChallenge, SpendChallenge, ReadDevice, ClearUnconfirmed, CreateDevice,
         VerifyTotp, ConfirmDevice, DeleteDevice, ListSessions, RevokeSession,
         BlacklistFamily, ParseToken, HandleReuse, CheckSession, ParseAgain,
         BlacklistToken, RotateToken
<1> QED BY <1>1, <1>2

LEMMA HandlersStep ==
    ASSUME SInv, IInv, UNCHANGED consumer,
           NEW t \in Threads, Receive(t) \/ Statement(t) \/ Crash(t)
    PROVE  SInv'
<1>1. SessionsGrow
  BY HandlerStep DEF Grow
<1>2. UNCHANGED <<identity, joining, step, received>>
  BY DEF consumer
<1>3. CASE UNCHANGED layer
  BY <1>1, <1>2, <1>3, OutsideStep DEF layer, SInv, ConsumerTyped
<1>4. ASSUME NEW s \in Nat, Send(SessionGroup(s), SessionKill(s))
      PROVE  SInv'
  <2>1. \A k \in Sockets : SessionKill(s) \in Proper(k)
    BY DEF Proper
  <2>2. members' = members /\ DOMAIN inbox' = Sockets
    BY <1>4 DEF Send, SInv, ConsumerTyped
  <2>3. ASSUME NEW k \in Sockets
        PROVE  inbox'[k] \in Seq(Proper(k))
    BY <1>4, <2>1, SendProper DEF SInv
  <2> QED BY <1>1, <1>2, <2>2, <2>3, OutsideStep
<1> QED BY <1>3, <1>4, OnlyKillsAreSent

LEMMA QuietStep ==
    ASSUME SInv, IInv, UNCHANGED <<sessions, layer, identity, joining, step, received>>
    PROVE  SInv'
<1>1. SessionsGrow
  BY TablesKept DEF IInv
<1> QED BY <1>1, OutsideStep DEF layer, SInv, ConsumerTyped

LEMMA SInvStep ==
    ASSUME SInv, IInv, [Next]_vars
    PROVE  SInv'
<1>1. CASE UNCHANGED vars
  BY <1>1, QuietStep DEF vars, sessionVars, tables, consumer
<1>2. CASE Tick /\ UNCHANGED consumer
  BY <1>2, QuietStep DEF Tick, tables, consumer
<1>3. CASE SessionsNext /\ UNCHANGED consumer
  BY <1>3, HandlersStep DEF SessionsNext
<1>4. ASSUME NEW j \in Sockets, Socket(j)
      PROVE  SInv'
  BY <1>4, PlainSocketStep, AuthFrameStep, TakeIdentityStep, JoinSessionStep, DeliverStep
     DEF Socket
<1>5. ASSUME NEW u \in Users, Publish(u)
      PROVE  SInv'
  BY <1>5, PublishStep
<1> QED BY <1>1, <1>2, <1>3, <1>4, <1>5 DEF Next

(* The first state.                                                        *)
LEMMA InitFollows == Init => SInv
<1> SUFFICES ASSUME Init
             PROVE  SInv
  OBVIOUS
<1>1. ConsumerTyped
  BY DEF Init, SessionsInit, LayerInit, ConsumerTyped
<1>2. ASSUME NEW k \in Sockets
      PROVE  Follows(k)
  <2>1. /\ identity[k] = 0 /\ step[k] = "ready" /\ received[k] = {}
        /\ members = {} /\ inbox[k] = <<>>
    BY DEF Init, SessionsInit, LayerInit
  <2> QED BY <2>1, EmptySeq DEF Follows, HandlerKnown
<1> QED BY <1>1, <1>2 DEF SInv

(* A socket is only ever sent events of the user it is authenticated as:   *)
(* for any number of sockets, whichever tokens their auth frames bring and *)
(* whatever is sent, lost or revoked while their handlers await.           *)
THEOREM StreamsOwnEventsHolds == Spec => []StreamsOwnEvents
<1>1. Init => SInv
  BY InitFollows
<1>2. IInv /\ SInv /\ [Next]_vars => SInv'
  BY SInvStep
<1>3. SInv => StreamsOwnEvents
  BY DEF SInv, Follows, UsersOf, StreamsOwnEvents
<1> QED BY <1>1, <1>2, <1>3, IInvHolds, PTL DEF Spec

-----------------------------------------------------------------------------
(* Groups and subscriptions.                                               *)

(* Why they match: the price groups of a socket are its subscriptions as   *)
(* long as it is there, an auth handler only runs on a socket that is      *)
(* there, and a socket that is gone has left its user's group.             *)
Grouped(k) ==
    /\ prices[k] \subseteq Symbols
    /\ Cardinality(prices[k]) <= WS_MAX_SUBSCRIPTIONS
    /\ \A i \in Symbols : <<PriceGroup(i), k>> \in members <=> socket[k] # "gone" /\ i \in prices[k]
    /\ socket[k] = "gone" => \A u \in Users : <<UserGroup(u), k>> \notin members
    /\ step[k] # "ready" => socket[k] \in {"open", "closing"}

GroupsInv ==
    /\ DOMAIN socket = Sockets /\ DOMAIN prices = Sockets /\ DOMAIN step = Sockets
    /\ \A k \in Sockets : Grouped(k)

(* The groups have different names.                                        *)
LEMMA GroupsApart ==
    /\ \A i, j : PriceGroup(i) = PriceGroup(j) => i = j
    /\ \A i, u : PriceGroup(i) # UserGroup(u) /\ PriceGroup(i) # SessionGroup(u)
    /\ \A s, u : SessionGroup(s) # UserGroup(u)
  BY DEF PriceGroup, UserGroup, SessionGroup

(* A step of socket j: the others keep their groups.                       *)
OthersStay(j) ==
    /\ DOMAIN socket' = Sockets /\ DOMAIN prices' = Sockets /\ DOMAIN step' = Sockets
    /\ \A k \in Sockets \ {j} :
          /\ socket'[k] = socket[k] /\ prices'[k] = prices[k] /\ step'[k] = step[k]
          /\ \A g : <<g, k>> \in members' <=> <<g, k>> \in members

LEMMA OthersStayGrouped ==
    ASSUME GroupsInv, NEW j \in Sockets, OthersStay(j), Grouped(j)'
    PROVE  GroupsInv'
<1>1. ASSUME NEW k \in Sockets, k # j PROVE Grouped(k)'
  BY <1>1 DEF GroupsInv, OthersStay, Grouped
<1> QED BY <1>1 DEF GroupsInv, OthersStay

LEMMA Joins ==
    ASSUME NEW j, NEW groups, Join(j, groups)
    PROVE  /\ \A g : <<g, j>> \in members' <=> <<g, j>> \in members \/ g \in groups
           /\ \A k, g : k # j => (<<g, k>> \in members' <=> <<g, k>> \in members)
  BY DEF Join

LEMMA Leaves ==
    ASSUME NEW j, NEW groups, Leave(j, groups)
    PROVE  /\ \A g : <<g, j>> \in members' <=> <<g, j>> \in members /\ g \notin groups
           /\ \A k, g : k # j => (<<g, k>> \in members' <=> <<g, k>> \in members)
  BY DEF Leave

(* Closing takes no groups away.                                           *)
LEMMA Closing ==
    ASSUME GroupsInv, NEW j \in Sockets, NEW c, Close(j, c)
    PROVE  /\ DOMAIN socket' = Sockets /\ \A k \in Sockets \ {j} : socket'[k] = socket[k]
           /\ socket'[j] = socket[j] \/ (socket[j] = "open" /\ socket'[j] = "closing")
  BY DEF Close, GroupsInv

(* A step that keeps groups and subscriptions, and no more than closes.    *)
LEMMA Unmoved ==
    ASSUME GroupsInv, NEW j \in Sockets, members' = members, prices' = prices,
           DOMAIN socket' = Sockets, \A k \in Sockets \ {j} : socket'[k] = socket[k],
           DOMAIN step' = Sockets, \A k \in Sockets \ {j} : step'[k] = step[k],
           socket'[j] = socket[j] \/ (socket[j] \in {"absent", "open"} /\ socket'[j] # "gone"),
           step'[j] # "ready" => socket'[j] \in {"open", "closing"}
    PROVE  GroupsInv'
<1>1. OthersStay(j)
  BY DEF OthersStay, GroupsInv
<1>2. Grouped(j)'
  BY DEF GroupsInv, Grouped
<1> QED BY <1>1, <1>2, OthersStayGrouped

LEMMA SubscribeGroups ==
    ASSUME GroupsInv, NEW j \in Sockets, NEW symbols \in SUBSET Symbols, Subscribe(j, symbols)
    PROVE  GroupsInv'
<1>1. socket[j] = "open" /\ step[j] = "ready" /\ step' = step
  BY DEF Subscribe, Frame
<1>2. ASSUME NEW c, Close(j, c), UNCHANGED <<prices, members>> PROVE GroupsInv'
  <2>1. /\ DOMAIN socket' = Sockets /\ \A k \in Sockets \ {j} : socket'[k] = socket[k]
        /\ socket'[j] \in {"open", "closing"}
    BY <1>1, <1>2, Closing
  <2> QED BY <1>1, <1>2, <2>1, Unmoved DEF GroupsInv
<1>3. CASE /\ ~TooMany(j, symbols) /\ socket' = socket
           /\ prices' = [prices EXCEPT ![j] = @ \cup symbols]
           /\ Join(j, PriceGroups(symbols))
  <2>1. prices'[j] = prices[j] \cup symbols /\ \A k \in Sockets \ {j} : prices'[k] = prices[k]
    BY <1>3 DEF GroupsInv
  <2>2. OthersStay(j)
    BY <1>1, <1>3, <2>1, Joins DEF OthersStay, GroupsInv
  <2>3. prices'[j] \subseteq Symbols
    BY <2>1 DEF GroupsInv, Grouped
  <2>4. Cardinality(prices'[j]) <= WS_MAX_SUBSCRIPTIONS
    <3>1. IsFiniteSet(prices'[j])
      BY <2>3, SymbolsAssumption, FS_Subset
    <3>2. Cardinality(prices'[j]) \in Nat
      BY <3>1, FS_CardinalityType
    <3>3. ~(Cardinality(prices'[j]) > WS_MAX_SUBSCRIPTIONS)
      BY <1>3, <2>1, Zenon DEF TooMany
    <3> QED BY <3>2, <3>3, SymbolsAssumption
  <2>5. \A i : PriceGroup(i) \in PriceGroups(symbols) <=> i \in symbols
    BY GroupsApart DEF PriceGroups
  <2>6. \A i \in Symbols : <<PriceGroup(i), j>> \in members' <=> i \in prices'[j]
    BY <1>1, <1>3, <2>1, <2>5, Joins DEF GroupsInv, Grouped
  <2>7. socket'[j] = "open" /\ step'[j] = "ready"
    BY <1>1, <1>3
  <2>8. Grouped(j)'
    BY <2>3, <2>4, <2>6, <2>7 DEF Grouped
  <2> QED BY <2>2, <2>8, OthersStayGrouped
<1> QED BY <1>2, <1>3 DEF Subscribe

LEMMA UnsubscribeGroups ==
    ASSUME GroupsInv, NEW j \in Sockets, NEW symbols \in SUBSET Symbols, Unsubscribe(j, symbols)
    PROVE  GroupsInv'
<1>1. /\ socket[j] = "open" /\ step[j] = "ready" /\ step' = step /\ socket' = socket
      /\ prices' = [prices EXCEPT ![j] = @ \ symbols] /\ Leave(j, PriceGroups(symbols))
  BY DEF Unsubscribe, Frame
<1>2. prices'[j] = prices[j] \ symbols /\ \A k \in Sockets \ {j} : prices'[k] = prices[k]
  BY <1>1 DEF GroupsInv
<1>3. OthersStay(j)
  BY <1>1, <1>2, Leaves DEF OthersStay, GroupsInv
<1>4. prices'[j] \subseteq Symbols /\ prices'[j] \subseteq prices[j]
  BY <1>2 DEF GroupsInv, Grouped
<1>5. Cardinality(prices'[j]) <= WS_MAX_SUBSCRIPTIONS
  <2>1. IsFiniteSet(prices[j])
    BY SymbolsAssumption, FS_Subset DEF GroupsInv, Grouped
  <2>2. /\ Cardinality(prices'[j]) <= Cardinality(prices[j])
        /\ Cardinality(prices'[j]) \in Nat /\ Cardinality(prices[j]) \in Nat
    BY <1>4, <2>1, FS_Subset, FS_CardinalityType
  <2>3. Cardinality(prices[j]) <= WS_MAX_SUBSCRIPTIONS
    BY DEF GroupsInv, Grouped
  <2> QED BY <2>2, <2>3, SymbolsAssumption
<1>6. \A i : PriceGroup(i) \in PriceGroups(symbols) <=> i \in symbols
  BY GroupsApart DEF PriceGroups
<1>7. \A i \in Symbols : <<PriceGroup(i), j>> \in members' <=> i \in prices'[j]
  BY <1>1, <1>2, <1>6, Leaves DEF GroupsInv, Grouped
<1>8. socket'[j] = "open" /\ step'[j] = "ready"
  BY <1>1
<1>9. Grouped(j)'
  BY <1>4, <1>5, <1>7, <1>8 DEF Grouped
<1> QED BY <1>3, <1>9, OthersStayGrouped

(* The handler of a socket that is there joins other groups.               *)
LEMMA HandlerGroups ==
    ASSUME GroupsInv, NEW j \in Sockets, TakeIdentity(j) \/ JoinSession(j)
    PROVE  GroupsInv'
<1>1. /\ step[j] # "ready" /\ socket' = socket /\ prices' = prices
      /\ DOMAIN step' = Sockets /\ \A k \in Sockets \ {j} : step'[k] = step[k]
  BY DEF TakeIdentity, JoinSession, GroupsInv
<1>2. PICK groups : Join(j, groups) /\ \A i : PriceGroup(i) \notin groups
  <2>1. CASE TakeIdentity(j)
    BY <2>1, GroupsApart DEF TakeIdentity
  <2>2. CASE JoinSession(j)
    BY <2>2, GroupsApart DEF JoinSession
  <2> QED BY <2>1, <2>2
<1>3. socket[j] \in {"open", "closing"}
  BY <1>1 DEF GroupsInv, Grouped
<1>4. OthersStay(j)
  BY <1>1, <1>2, Joins DEF OthersStay, GroupsInv
<1>5. \A i : <<PriceGroup(i), j>> \in members' <=> <<PriceGroup(i), j>> \in members
  BY <1>2, Joins
<1>6. Grouped(j)'
  BY <1>1, <1>3, <1>5 DEF GroupsInv, Grouped
<1> QED BY <1>4, <1>6, OthersStayGrouped

(* A socket that goes leaves what it was in: its prices, and the group of  *)
(* its user, the only one it was in (SInv).                                *)
LEMMA DisconnectGroups ==
    ASSUME GroupsInv, SInv, NEW j \in Sockets, Disconnect(j)
    PROVE  GroupsInv'
<1>1. /\ step[j] = "ready" /\ step' = step /\ prices' = prices
      /\ socket' = [socket EXCEPT ![j] = "gone"] /\ Leave(j, GroupsLeft(j))
  BY DEF Disconnect
<1>2. socket'[j] = "gone" /\ OthersStay(j)
  BY <1>1, Leaves DEF OthersStay, GroupsInv
<1>3. \A i \in Symbols : <<PriceGroup(i), j>> \notin members'
  <2>1. \A i \in prices[j] : PriceGroup(i) \in GroupsLeft(j)
    BY DEF GroupsLeft, PriceGroups
  <2>2. socket[j] # "gone"
    BY DEF Disconnect
  <2>3. \A i \in Symbols : <<PriceGroup(i), j>> \in members <=> i \in prices[j]
    BY <2>2 DEF GroupsInv, Grouped
  <2> QED BY <1>1, <2>1, <2>3, Leaves
<1>4. \A u \in Users : <<UserGroup(u), j>> \notin members'
  <2> SUFFICES ASSUME NEW u \in Users, <<UserGroup(u), j>> \in members'
               PROVE  FALSE
    OBVIOUS
  <2>1. <<UserGroup(u), j>> \in members /\ UserGroup(u) \notin GroupsLeft(j)
    BY <1>1, Leaves
  <2>2. u \in UsersOf(j)
    BY <2>1 DEF SInv, Follows
  <2>3. UserGroup(u) \in GroupsLeft(j)
    BY <2>2 DEF UsersOf, GroupsLeft
  <2> QED BY <2>1, <2>3
<1>5. Grouped(j)'
  BY <1>1, <1>2, <1>3, <1>4 DEF GroupsInv, Grouped
<1> QED BY <1>2, <1>5, OthersStayGrouped

LEMMA GroupsStep ==
    ASSUME GroupsInv, SInv, IInv, [Next]_vars
    PROVE  GroupsInv'
<1>1. CASE UNCHANGED <<consumer, members>>
  BY <1>1 DEF consumer, GroupsInv, Grouped
<1>2. CASE UNCHANGED vars
  BY <1>1, <1>2 DEF vars, sessionVars, layer
<1>3. CASE Tick /\ UNCHANGED consumer
  BY <1>1, <1>3 DEF Tick, layer
<1>4. CASE SessionsNext /\ UNCHANGED consumer
  BY <1>1, <1>4, OnlyKillsAreSent DEF SessionsNext, Send, layer
<1>5. ASSUME NEW u \in Users, Publish(u) PROVE GroupsInv'
  BY <1>1, <1>5 DEF Publish, Send
<1>6. ASSUME NEW j \in Sockets, Connect(j) PROVE GroupsInv'
  <2>1. /\ members' = members /\ prices' = prices /\ step' = step
        /\ socket[j] = "absent" /\ socket' = [socket EXCEPT ![j] = "open"]
    BY <1>6 DEF Connect, layer
  <2>2. /\ DOMAIN socket' = Sockets /\ socket'[j] = "open"
        /\ \A k \in Sockets \ {j} : socket'[k] = socket[k]
    BY <2>1 DEF GroupsInv
  <2> QED BY <2>1, <2>2, Unmoved DEF GroupsInv
<1>7. ASSUME NEW j \in Sockets, NEW c, Close(j, c), UNCHANGED <<members, prices, step>>
      PROVE  GroupsInv'
  <2>1. step[j] # "ready" => socket'[j] \in {"open", "closing"}
    BY <1>7, Closing DEF GroupsInv, Grouped
  <2>2. socket'[j] = socket[j] \/ (socket[j] \in {"absent", "open"} /\ socket'[j] # "gone")
    BY <1>7, Closing
  <2> QED BY <1>7, <2>1, <2>2, Closing, Unmoved DEF GroupsInv
<1>8. ASSUME NEW j \in Sockets, NEW s, AuthFrame(j, s) PROVE GroupsInv'
  <2>1. /\ UNCHANGED <<members, prices>> /\ socket[j] = "open"
        /\ \/ Close(j, 4401) /\ step' = step
           \/ socket' = socket /\ step' = [step EXCEPT ![j] = "user"]
    BY <1>8 DEF AuthFrame, Frame, layer
  <2>2. CASE socket' = socket /\ step' = [step EXCEPT ![j] = "user"]
    <3>1. DOMAIN step' = Sockets /\ \A k \in Sockets \ {j} : step'[k] = step[k]
      BY <2>2 DEF GroupsInv
    <3> QED BY <2>1, <2>2, <3>1, Unmoved DEF GroupsInv
  <2> QED BY <1>7, <2>1, <2>2
<1>9. ASSUME NEW j \in Sockets, TimerFires(j) \/ ClientLeaves(j) PROVE GroupsInv'
  BY <1>7, <1>9 DEF TimerFires, ClientLeaves, layer
<1>10. ASSUME NEW j \in Sockets, Deliver(j) PROVE GroupsInv'
  <2>1. CASE UNCHANGED <<socket, code>>
    BY <1>10, <2>1 DEF Deliver, GroupsInv, Grouped
  <2>2. CASE Close(j, 4403)
    BY <1>7, <1>10, <2>2 DEF Deliver
  <2> QED BY <1>10, <2>1, <2>2 DEF Deliver
<1>11. ASSUME NEW j \in Sockets, Socket(j) PROVE GroupsInv'
  BY <1>6, <1>8, <1>9, <1>10, <1>11, SubscribeGroups, UnsubscribeGroups, HandlerGroups,
     DisconnectGroups DEF Socket
<1> QED BY <1>2, <1>3, <1>4, <1>5, <1>11 DEF Next

(* However frames, closes and revocations fall into the handlers of a      *)
(* socket, its subscriptions stay within WS_MAX_SUBSCRIPTIONS and are the  *)
(* price groups the channel layer has it in; and disconnect leaves nothing *)
(* of it there but a session group.                                        *)
THEOREM GroupsMatchSubscriptionsHolds == Spec => []GroupsMatchSubscriptions
<1>1. Init => SInv /\ GroupsInv
  <2> SUFFICES ASSUME Init
               PROVE  SInv /\ GroupsInv
    OBVIOUS
  <2>1. SInv
    BY InitFollows
  <2>2. Cardinality({}) = 0
    BY FS_EmptySet
  <2>3. GroupsInv
    BY <2>2, SymbolsAssumption DEF Init, SessionsInit, LayerInit, GroupsInv, Grouped
  <2> QED BY <2>1, <2>3
<1>2. IInv /\ SInv /\ GroupsInv /\ [Next]_vars => SInv' /\ GroupsInv'
  BY SInvStep, GroupsStep
<1>3. GroupsInv => GroupsMatchSubscriptions
  BY DEF GroupsInv, Grouped, GroupsMatchSubscriptions
<1> QED BY <1>1, <1>2, <1>3, IInvHolds, PTL DEF Spec

-----------------------------------------------------------------------------
(* The types of Streams. They need what a handler knows of its rows, and   *)
(* say more than it has to: how far budgets and TOTP steps go, which rows  *)
(* may be named at all, and what a socket is when no handler runs.         *)

Budgeted ==
    /\ requests \in 0..load.requests /\ crashes \in 0..load.crashes
    /\ frames \in 0..load.frames /\ events \in 0..load.events
    /\ now \in 1..load.until

Stepped == \A d \in DOMAIN devices : devices[d].last \in -1 .. now + 1

Pointers(t) ==
    LET c == call[t] IN
    /\ c.user \in Users
    /\ {c.session, c.victim} \subseteq {0} \cup DOMAIN sessions
    /\ c.token \in {0} \cup DOMAIN tokens
    /\ c.device \in {0} \cup DOMAIN devices
    /\ c.victims \subseteq SessionsOf(c.user)

Resting(k) ==
    /\ socket[k] \in {"absent", "open", "closing", "gone"}
    /\ step[k] \in {"ready", "user", "session"}
    /\ step[k] = "ready" => joining[k] = 0
    /\ timer[k] \in {"none", "deadline", "expiry"}
    /\ code[k] \in {0, 1000, 4401, 4403, 4429}

SocketsTyped ==
    /\ DOMAIN socket = Sockets /\ DOMAIN step = Sockets /\ DOMAIN joining = Sockets
    /\ DOMAIN timer = Sockets /\ DOMAIN code = Sockets
    /\ \A k \in Sockets : Resting(k)

Ranged ==
    /\ Budgeted /\ Stepped
    /\ \A t \in Threads : Pointers(t) /\ reply[t] \in Outcomes
    /\ SocketsTyped

LEMMA LoadTyped ==
    ASSUME Typed
    PROVE  /\ load.requests \in Nat /\ load.crashes \in Nat /\ load.until \in Nat \ {0}
           /\ load.frames \in Nat /\ load.events \in Nat /\ load.users \subseteq Users
BY LoadsAssumption DEF Typed

LEMMA SomeUser == NoCall.user \in Users
BY UsersAssumption DEF NoCall

LEMMA TypesFollow ==
    ASSUME IInv, SInv, Ranged
    PROVE  TypeOK
<1>1. /\ DOMAIN sessions = 1..Len(sessions) /\ DOMAIN tokens = 1..Len(tokens)
      /\ DOMAIN devices = 1..Len(devices)
      /\ Len(sessions) \in Nat /\ Len(tokens) \in Nat /\ Len(devices) \in Nat
  BY RowsTyped DEF IInv
<1>2. \A s \in DOMAIN sessions : sessions[s] \in [user : Users, revoked : BOOLEAN]
  BY RowsTyped DEF IInv, SessionRow
<1>3. \A k \in DOMAIN tokens :
         tokens[k] \in [session : DOMAIN sessions, listed : BOOLEAN, black : BOOLEAN]
  <2> TAKE k \in DOMAIN tokens
  <2>1. tokens[k] \in TokenRow /\ tokens[k].session \in DOMAIN sessions
    BY RowsTyped DEF IInv, Typed
  <2> QED BY <2>1 DEF TokenRow
<1>4. \A d \in DOMAIN devices :
         devices[d] \in [user : Users, state : {"unconfirmed", "confirmed", "deleted"},
                         last : -1 .. now + 1]
  <2> TAKE d \in DOMAIN devices
  <2>1. devices[d] \in DeviceRow /\ devices[d].last \in -1 .. now + 1
    BY RowsTyped DEF IInv, Ranged, Stepped
  <2> QED BY <2>1 DEF DeviceRow
<1>5. \A c \in DOMAIN challenges : challenges[c] \in [user : Users, live : BOOLEAN]
  BY RowsTyped DEF IInv, ChallengeRow
<1>6. ASSUME NEW t \in Threads
      PROVE  /\ pc[t] \in StatementsOf(call[t].op) /\ reply[t] \in Outcomes
             /\ call[t].op \in Operations \cup {"none"}
             /\ call[t].user \in Users
             /\ call[t].session \in 0..Len(sessions)
             /\ call[t].token \in 0..Len(tokens)
             /\ call[t].device \in 0..Len(devices)
             /\ call[t].victim \in 0..Len(sessions)
             /\ call[t].victims \subseteq SessionsOf(call[t].user)
  <2>1. pc[t] \in StatementsOf(call[t].op) /\ call[t].op \in Operations \cup {"none"}
    BY DEF IInv, Known, Stands, Typed, CallRow
  <2>2. Pointers(t) /\ reply[t] \in Outcomes
    BY DEF Ranged
  <2> QED BY <1>1, <2>1, <2>2 DEF Pointers
<1>7. ASSUME NEW k \in Sockets
      PROVE  /\ socket[k] \in {"absent", "open", "closing", "gone"}
             /\ {identity[k], joining[k]} \subseteq 0..Len(sessions)
             /\ step[k] \in {"ready", "user", "session"}
             /\ joining[k] # 0 <=> step[k] # "ready"
             /\ timer[k] \in {"none", "deadline", "expiry"}
             /\ code[k] \in {0, 1000, 4401, 4403, 4429}
  <2>1. Resting(k) /\ HandlerKnown(k) /\ identity[k] \in Nat
    BY DEF Ranged, SocketsTyped, SInv, Follows, ConsumerTyped
  <2> QED BY <1>1, <2>1 DEF Resting, HandlerKnown
<1>8. load \in Loads /\ Budgeted
  BY DEF IInv, Typed, Ranged
<1> QED BY <1>2, <1>3, <1>4, <1>5, <1>6, <1>7, <1>8 DEF TypeOK, Budgeted

LEMMA RangesStart == Init => Ranged
<1> SUFFICES ASSUME Init PROVE Ranged
  OBVIOUS
<1>1. Typed
  BY InitTyped
<1>2. Budgeted
  BY <1>1, LoadTyped DEF Init, SessionsInit, Budgeted
<1>3. Stepped
  BY DEF Init, SessionsInit, Stepped
<1>4. ASSUME NEW t \in Threads PROVE Pointers(t) /\ reply[t] \in Outcomes
  <2>1. call[t] = NoCall /\ reply[t] = "none"
    BY DEF Init, SessionsInit
  <2>2. /\ NoCall.session = 0 /\ NoCall.victim = 0 /\ NoCall.token = 0 /\ NoCall.device = 0
        /\ NoCall.victims = {}
    BY DEF NoCall
  <2> QED BY <2>1, <2>2, SomeUser DEF Pointers, Outcomes
<1>5. SocketsTyped
  BY DEF Init, SocketsTyped, Resting
<1> QED BY <1>2, <1>3, <1>4, <1>5 DEF Ranged

-----------------------------------------------------------------------------
(* Handlers. Rows are only added, so what a call names stays.              *)
LEMMA PointersStay ==
    ASSUME Grow, NEW t \in Threads, Pointers(t), call'[t] = call[t]
    PROVE  Pointers(t)'
<1>1. SessionsOf(call[t].user) \subseteq SessionsOf(call[t].user)'
  BY DEF SessionsOf, Grow, SessionsGrow
<1> QED BY <1>1 DEF Pointers, Grow, SessionsGrow, TokensGrow, DevicesGrow

(* A call in which one row was written down.                               *)
LEMMA PointersMove ==
    ASSUME Grow, NEW t \in Threads, Pointers(t), NEW c, c = call'[t],
           c.user = call[t].user, c.token = call[t].token,
           c.session = call[t].session \/ c.session \in DOMAIN sessions',
           c.device = call[t].device \/ c.device \in DOMAIN devices,
           c.victim = call[t].victim \/ c.victim \in DOMAIN sessions,
           c.victims \subseteq SessionsOf(c.user)
    PROVE  Pointers(t)'
<1>1. SessionsOf(c.user) \subseteq SessionsOf(c.user)'
  BY DEF SessionsOf, Grow, SessionsGrow
<1> QED BY <1>1 DEF Pointers, Grow, SessionsGrow, TokensGrow, DevicesGrow

LEMMA NextVictimNamed ==
    ASSUME IInv, Grow, NEW t \in Threads, Pointers(t), NEW victims,
           victims \subseteq SessionsOf(call[t].user), RevokeNext(t, victims)
    PROVE  Pointers(t)' /\ (reply[t] \in Outcomes => reply'[t] \in Outcomes)
<1> PICK c : c = call[t]
  OBVIOUS
<1>1. c \in CallRow /\ DOMAIN call = Threads /\ DOMAIN reply = Threads
  BY DEF IInv, Typed
<1>2. CASE /\ victims = {} /\ call' = [call EXCEPT ![t].victims = {}]
           /\ Finish(t, IF call[t].op = "refresh" THEN "replayed" ELSE "ok")
  <2> PICK e : e = call'[t]
    OBVIOUS
  <2>1. e = [c EXCEPT !.victims = {}]
    BY <1>1, <1>2
  <2>2. /\ e.user = c.user /\ e.token = c.token /\ e.session = c.session /\ e.device = c.device
        /\ e.victim = c.victim /\ e.victims = {}
    BY <1>1, <2>1 DEF CallRow
  <2>3. Pointers(t)'
    BY <2>2, PointersMove
  <2> QED BY <1>1, <1>2, <2>3 DEF Finish, Outcomes
<1>3. ASSUME NEW s \in victims, call' = [call EXCEPT ![t].victims = victims, ![t].victim = s],
             GoTo(t, "revoke")
      PROVE  Pointers(t)' /\ reply' = reply
  <2> PICK e : e = call'[t]
    OBVIOUS
  <2>1. e = [[c EXCEPT !.victims = victims] EXCEPT !.victim = s]
    BY <1>1, <1>3
  <2>2. /\ e.user = c.user /\ e.token = c.token /\ e.session = c.session /\ e.device = c.device
        /\ e.victim = s /\ e.victims = victims
    BY <1>1, <2>1 DEF CallRow
  <2>3. s \in DOMAIN sessions
    BY DEF SessionsOf
  <2>4. Pointers(t)'
    BY <2>2, <2>3, PointersMove
  <2> QED BY <1>3, <2>4 DEF GoTo
<1> QED BY <1>2, <1>3 DEF RevokeNext

LEMMA CallsNamed ==
    ASSUME Typed, NEW c \in Calls
    PROVE  /\ c.user \in Users /\ c.session \in {0} \cup DOMAIN sessions
           /\ c.token \in {0} \cup DOMAIN tokens
           /\ c.device = 0 /\ c.victim = 0 /\ c.victims = {} /\ c \in CallRow
<1> DEFINE Named(d) == /\ d.user \in Users /\ d.session \in {0} \cup DOMAIN sessions
                       /\ d.token \in {0} \cup DOMAIN tokens
                       /\ d.device = 0 /\ d.victim = 0 /\ d.victims = {}
<1>1. c \in CallRow
  BY CallsKnown DEF Arriving
<1>2. /\ NoCall \in CallRow /\ NoCall.session = 0 /\ NoCall.token = 0 /\ NoCall.device = 0
      /\ NoCall.victim = 0 /\ NoCall.victims = {}
  BY SomeUser DEF NoCall, CallRow, NoCode
<1>3. ASSUME NEW op, NEW s \in DOMAIN sessions, NEW e, e = CallOf(op, s)
      PROVE  /\ Named(e) /\ e = [n \in DOMAIN NoCall |-> e[n]]
             /\ \A k \in DOMAIN tokens : Named([e EXCEPT !.token = k])
             /\ \A k : Named([e EXCEPT !.code = k])
  <2>1. sessions[s].user \in Users
    BY RowsTyped DEF SessionRow
  <2> QED BY <1>2, <1>3, <2>1 DEF CallOf, CallRow, NoCall
<1>4. CASE c \in LoginCalls
  <2>1. PICK u \in load.users : c = [NoCall EXCEPT !.op = "login", !.user = u]
    BY <1>4 DEF LoginCalls
  <2>2. u \in Users
    BY LoadTyped
  <2> QED BY <1>1, <1>2, <2>1, <2>2 DEF CallRow
<1>5. CASE c \in VerifyCalls
  <2>1. PICK n \in DOMAIN challenges, k \in Codes : c = VerifyCall(n, k)
    BY <1>5 DEF VerifyCalls
  <2>2. challenges[n].user \in Users
    BY RowsTyped DEF ChallengeRow
  <2> QED BY <1>1, <1>2, <2>1, <2>2 DEF VerifyCall, CallRow
<1>6. CASE c \in TokenCalls
  <2>1. PICK op \in {"refresh", "logout"}, k \in DOMAIN tokens :
           c = [CallOf(op, tokens[k].session) EXCEPT !.token = k]
    BY <1>6 DEF TokenCalls
  <2>2. tokens[k].session \in DOMAIN sessions
    BY DEF Typed
  <2>3. Named(c)
    BY <1>3, <2>1, <2>2
  <2> QED BY <1>1, <2>3
<1>7. CASE c \in DeviceCalls
  <2>1. PICK op \in {"confirm", "disable"}, s \in DOMAIN sessions, k \in Codes :
           c = [CallOf(op, s) EXCEPT !.code = k]
    BY <1>7 DEF DeviceCalls
  <2>2. Named(c)
    BY <1>3, <2>1
  <2> QED BY <1>1, <2>2
<1>8. CASE c \in EnrollCalls
  <2>1. PICK s \in DOMAIN sessions : c = CallOf("enroll", s)
    BY <1>8 DEF EnrollCalls
  <2>2. Named(c)
    BY <1>3, <2>1
  <2> QED BY <1>1, <2>2
<1> QED BY <1>4, <1>5, <1>6, <1>7, <1>8 DEF Calls

LEMMA ReceivedNamed ==
    ASSUME IInv, Grow, NEW t \in Threads, Receive(t)
    PROVE  Pointers(t)' /\ reply'[t] \in Outcomes
<1>1. PICK c \in Calls : call' = [call EXCEPT ![t] = [c EXCEPT !.number = requests + 1]]
  BY DEF Receive
<1>2. /\ c.user \in Users /\ c.session \in {0} \cup DOMAIN sessions
      /\ c.token \in {0} \cup DOMAIN tokens
      /\ c.device = 0 /\ c.victim = 0 /\ c.victims = {} /\ c \in CallRow
  BY CallsNamed DEF IInv
<1> PICK d : d = [c EXCEPT !.number = requests + 1]
  OBVIOUS
<1>3. /\ d.user = c.user /\ d.session = c.session /\ d.token = c.token /\ d.device = c.device
      /\ d.victim = c.victim /\ d.victims = c.victims
  BY <1>2 DEF CallRow
<1>4. call'[t] = d /\ UNCHANGED <<sessions, tokens>>
  BY <1>1 DEF Receive, tables, IInv, Typed
<1>5. reply'[t] = "none"
  BY DEF Receive, IInv, Typed
<1> QED BY <1>2, <1>3, <1>4, <1>5 DEF Pointers, Outcomes

LEMMA StatementNamed ==
    ASSUME IInv, Grow, NEW t \in Threads, Pointers(t), Statement(t)
    PROVE  Pointers(t)'
<1> PICK c : c = call[t]
  OBVIOUS
<1> PICK e : e = call'[t]
  OBVIOUS
<1>1. c \in CallRow /\ DOMAIN call = Threads /\ Known(t) /\ Typed
  BY DEF IInv, Typed
<1>2. /\ \A k \in DOMAIN tokens : tokens[k].session \in DOMAIN sessions
      /\ DOMAIN sessions = 1..Len(sessions) /\ Len(sessions) \in Nat
  BY <1>1, RowsTyped DEF Typed
<1>3. CASE call' = call
  BY <1>3, PointersStay
<1>4. CASE OpenSession(t)
  <2>1. e = [c EXCEPT !.session = Len(sessions) + 1]
    BY <1>1, <1>4 DEF OpenSession
  <2>2. /\ e.user = c.user /\ e.token = c.token /\ e.device = c.device
        /\ e.victim = c.victim /\ e.victims = c.victims /\ e.session = Len(sessions) + 1
    BY <1>1, <2>1 DEF CallRow
  <2>3. Len(sessions) + 1 \in DOMAIN sessions'
    <3>1. sessions' = Append(sessions, NewSession(c.user)) /\ c.user \in Users
      BY <1>4 DEF OpenSession, Pointers
    <3>2. NewSession(c.user) \in SessionRow
      BY <3>1 DEF NewSession, SessionRow
    <3> QED BY <1>1, <1>2, <3>1, <3>2, Appending DEF Typed
  <2> QED BY <2>2, <2>3, PointersMove DEF Pointers
<1>5. CASE ReadDevice(t) /\ call' # call
  <2>1. PICK d \in Candidates(c) : e = [c EXCEPT !.device = d]
    BY <1>1, <1>5 DEF ReadDevice
  <2>2. /\ e.user = c.user /\ e.token = c.token /\ e.session = c.session /\ e.device = d
        /\ e.victim = c.victim /\ e.victims = c.victims
    BY <1>1, <2>1 DEF CallRow
  <2>3. d \in DOMAIN devices
    BY DEF Candidates, Devices
  <2> QED BY <2>2, <2>3, PointersMove DEF Pointers
<1>6. CASE DeleteDevice(t)
  <2> DEFINE own == SessionsOf(c.user)
  <2>1. e = [c EXCEPT !.witnessed = own]
    BY <1>1, <1>6 DEF DeleteDevice
  <2> HIDE DEF own
  <2>2. /\ e.user = c.user /\ e.token = c.token /\ e.session = c.session /\ e.device = c.device
        /\ e.victim = c.victim /\ e.victims = c.victims
    BY <1>1, <2>1 DEF CallRow
  <2> QED BY <2>2, PointersMove DEF Pointers
<1>7. CASE ListSessions(t)
  <2>1. RevokeNext(t, Victims(c)) /\ Victims(c) \subseteq SessionsOf(c.user)
    BY <1>7 DEF ListSessions, Victims
  <2> QED BY <2>1, NextVictimNamed
<1>8. ASSUME NEW logged, AfterRevocation(t, logged) PROVE Pointers(t)'
  <2>1. RevokeNext(t, c.victims \ {c.victim}) /\ c.victims \ {c.victim} \subseteq SessionsOf(c.user)
    BY <1>8 DEF AfterRevocation, Pointers
  <2> QED BY <2>1, NextVictimNamed
<1>9. CASE RevokeSession(t) \/ AnnounceRevocation(t)
  BY <1>3, <1>8, <1>9 DEF RevokeSession, AnnounceRevocation
<1>10. CASE (HandleReuse(t) \/ BlacklistToken(t)) /\ call' # call
  <2> DEFINE s == tokens[c.token].session
  <2>1. e = [c EXCEPT !.victim = s]
    BY <1>1, <1>10 DEF HandleReuse, BlacklistToken
  <2>2. s \in DOMAIN sessions
    <3>1. c.op \in {"refresh", "logout"}
      BY <1>1, <1>10, AtStatement DEF HandleReuse, BlacklistToken
    <3> QED BY <1>1, <1>2, <3>1 DEF Known, OwnRows
  <2> HIDE DEF s
  <2>3. /\ e.user = c.user /\ e.token = c.token /\ e.session = c.session /\ e.device = c.device
        /\ e.victim = s /\ e.victims = c.victims
    BY <1>1, <2>1 DEF CallRow
  <2> QED BY <2>2, <2>3, PointersMove DEF Pointers
<1>11. CASE ~(OpenSession(t) \/ ReadDevice(t) \/ DeleteDevice(t) \/ ListSessions(t)
              \/ RevokeSession(t) \/ AnnounceRevocation(t) \/ HandleReuse(t) \/ BlacklistToken(t))
  <2>1. call' = call
    BY <1>11 DEF Statement, Authenticate, CheckPassword, MintPair, CheckChallenge, SpendChallenge,
           ClearUnconfirmed, CreateDevice, VerifyTotp, ConfirmDevice, BlacklistFamily,
           ParseToken, CheckSession, ParseAgain, RotateToken
  <2> QED BY <1>3, <2>1
<1> QED BY <1>3, <1>4, <1>5, <1>6, <1>7, <1>9, <1>10, <1>11

(* Every statement ends in an outcome that the views have, and leaves the  *)
(* budget alone.                                                           *)
LEMMA Outcome ==
    ASSUME DOMAIN reply = Threads, NEW t \in Threads, NEW o \in Outcomes, Finish(t, o)
    PROVE  reply'[t] \in Outcomes /\ UNCHANGED <<load, requests, crashes>>
BY DEF Finish, budget

LEMMA NoOutcome ==
    ASSUME NEW t \in Threads, NEW p, GoTo(t, p), reply[t] \in Outcomes
    PROVE  reply'[t] \in Outcomes /\ UNCHANGED <<load, requests, crashes>>
BY DEF GoTo

LEMMA StatementAnswers ==
    ASSUME IInv, NEW t \in Threads, reply[t] \in Outcomes, Statement(t)
    PROVE  reply'[t] \in Outcomes /\ UNCHANGED <<load, requests, crashes, now>>
<1> DEFINE Ends == \E o \in Outcomes : Finish(t, o)
           Goes == \E p : GoTo(t, p)
<1>1. Ends \/ Goes => reply'[t] \in Outcomes /\ UNCHANGED <<load, requests, crashes>>
  BY Outcome, NoOutcome DEF IInv, Typed
<1>2. {"ok", "challenged", "refused", "replayed", "error"} \subseteq Outcomes
  BY DEF Outcomes
<1> HIDE DEF Ends, Goes
<1>3. (\A o \in Outcomes : Finish(t, o) => Ends) /\ (\A p : GoTo(t, p) => Goes)
  BY DEF Ends, Goes
<1>4. \A victims : RevokeNext(t, victims) => Ends \/ Goes
  BY <1>2, <1>3 DEF RevokeNext
<1>5. CASE Authenticate(t) \/ CheckPassword(t) \/ OpenSession(t) \/ MintPair(t)
           \/ CheckChallenge(t) \/ SpendChallenge(t)
  <2>1. (Ends \/ Goes) /\ now' = now
    BY <1>2, <1>3, <1>5 DEF Authenticate, CheckPassword, OpenSession, MintPair,
                            CheckChallenge, SpendChallenge
  <2> QED BY <1>1, <2>1
<1>6. CASE ReadDevice(t) \/ ClearUnconfirmed(t) \/ CreateDevice(t)
           \/ VerifyTotp(t) \/ ConfirmDevice(t) \/ DeleteDevice(t)
  <2>1. (Ends \/ Goes) /\ now' = now
    BY <1>2, <1>3, <1>6 DEF ReadDevice, ClearUnconfirmed, CreateDevice, VerifyTotp,
                            ConfirmDevice, DeleteDevice
  <2> QED BY <1>1, <2>1
<1>7. CASE ListSessions(t) \/ RevokeSession(t) \/ BlacklistFamily(t) \/ AnnounceRevocation(t)
  <2>1. (Ends \/ Goes) /\ now' = now
    BY <1>3, <1>4, <1>7 DEF ListSessions, RevokeSession, BlacklistFamily, AnnounceRevocation,
                            AfterRevocation
  <2> QED BY <1>1, <2>1
<1>8. CASE ParseToken(t) \/ HandleReuse(t) \/ CheckSession(t) \/ ParseAgain(t)
           \/ BlacklistToken(t) \/ RotateToken(t)
  <2>1. (Ends \/ Goes) /\ now' = now
    BY <1>2, <1>3, <1>8 DEF ParseToken, HandleReuse, CheckSession, ParseAgain,
                            BlacklistToken, RotateToken
  <2> QED BY <1>1, <2>1
<1> QED BY <1>5, <1>6, <1>7, <1>8 DEF Statement

(* A step of TOTP that was used is one that its clock has had.             *)
LEMMA DevicesStepped ==
    ASSUME IInv, Budgeted, Stepped, NEW t \in Threads, Statement(t), now' = now
    PROVE  Stepped'
<1>1. Typed /\ Known(t) /\ now \in Nat /\ now' = now
  BY LoadTyped DEF IInv, Budgeted
<1>2. \A d \in DOMAIN devices : devices[d] \in DeviceRow
  BY <1>1, RowsTyped
<1>3. CASE devices' = devices
  BY <1>1, <1>3 DEF Stepped
<1>4. CASE ClearUnconfirmed(t)
  <2>1. /\ DOMAIN devices' = DOMAIN devices
        /\ \A d \in DOMAIN devices : \/ devices'[d] = devices[d]
                                     \/ devices'[d] = [devices[d] EXCEPT !.state = "deleted"]
    BY <1>4 DEF ClearUnconfirmed
  <2>2. \A d \in DOMAIN devices : devices'[d].last = devices[d].last
    BY <1>2, <2>1 DEF DeviceRow
  <2> QED BY <1>1, <2>1, <2>2 DEF Stepped
<1>5. CASE CreateDevice(t)
  <2> DEFINE new == NewDevice(call[t].user)
  <2>1. devices' = Append(devices, new) /\ call[t].user \in Users
    BY <1>1, <1>5, AtStatement DEF CreateDevice, Known, OwnRows, Operations
  <2>2. new \in DeviceRow /\ new.last = -1
    BY <2>1 DEF NewDevice, DeviceRow
  <2> HIDE DEF new
  <2>3. /\ DOMAIN devices = 1..Len(devices) /\ Len(devices) \in Nat
        /\ DOMAIN devices' = 1..(Len(devices) + 1)
        /\ \A d \in DOMAIN devices : devices'[d] = devices[d]
        /\ devices'[Len(devices) + 1] = new
    BY <1>1, <2>1, <2>2, Appending DEF Typed
  <2>4. \A d \in DOMAIN devices' : d \in DOMAIN devices \/ d = Len(devices) + 1
    BY <2>3
  <2> QED BY <1>1, <2>2, <2>3, <2>4 DEF Stepped
<1>6. CASE VerifyTotp(t) /\ devices' # devices
  <2> DEFINE c == call[t]
             d == c.device
             n == c.code.counter
  <2>1. UnusedStep(c) /\ devices' = [devices EXCEPT ![d].last = n]
    BY <1>6 DEF VerifyTotp
  <2>2. n \in now - 1 .. now + 1
    BY <2>1 DEF UnusedStep, Matches
  <2> HIDE DEF c, d, n
  <2>3. \A x \in DOMAIN devices : devices'[x].last = devices[x].last \/ devices'[x].last = n
    BY <1>2, <2>1 DEF DeviceRow
  <2>4. n \in -1 .. now + 1 /\ DOMAIN devices' = DOMAIN devices
    BY <1>1, <2>1, <2>2
  <2> QED BY <1>1, <2>3, <2>4 DEF Stepped
<1>7. CASE (ConfirmDevice(t) \/ DeleteDevice(t)) /\ devices' # devices
  <2>1. PICK x \in {"confirmed", "deleted"} : devices' = [devices EXCEPT ![call[t].device].state = x]
    BY <1>7 DEF ConfirmDevice, DeleteDevice
  <2>2. \A d \in DOMAIN devices : devices'[d].last = devices[d].last
    BY <1>2, <2>1 DEF DeviceRow
  <2>3. DOMAIN devices' = DOMAIN devices
    BY <2>1
  <2> QED BY <1>1, <2>2, <2>3 DEF Stepped
<1>8. CASE ~(ClearUnconfirmed(t) \/ CreateDevice(t) \/ VerifyTotp(t) \/ ConfirmDevice(t) \/ DeleteDevice(t))
  <2>1. devices' = devices
    BY <1>8 DEF Statement, Authenticate, CheckPassword, OpenSession, MintPair, CheckChallenge,
           SpendChallenge, ReadDevice, ListSessions, RevokeSession, BlacklistFamily,
           AnnounceRevocation, ParseToken, HandleReuse, CheckSession, ParseAgain,
           BlacklistToken, RotateToken, tables
  <2> QED BY <1>3, <2>1
<1> QED BY <1>3, <1>4, <1>5, <1>6, <1>7, <1>8

(* What the steps of a handler leave: budgets, and the calls of others.    *)
LEMMA HandlerRanged ==
    ASSUME IInv, Ranged, UNCHANGED <<consumer, streamBudget>>,
           NEW t \in Threads, Receive(t) \/ Statement(t) \/ Crash(t)
    PROVE  Ranged'
<1>1. IInv' /\ Grow /\ Others(t)
  BY HandlerStep
<1>2. SocketsTyped'
  BY DEF consumer, Ranged, SocketsTyped, Resting
<1>3. ASSUME NEW u \in Threads, u # t PROVE Pointers(u)' /\ reply'[u] \in Outcomes
  <2>1. call'[u] = call[u] /\ reply'[u] = reply[u]
    BY <1>1, <1>3 DEF Others
  <2> QED BY <1>1, <2>1, PointersStay DEF Ranged
<1>4. /\ requests \in 0..load.requests /\ crashes \in 0..load.crashes
      /\ frames \in 0..load.frames /\ events \in 0..load.events /\ now \in 1..load.until
      /\ load.requests \in Nat /\ load.crashes \in Nat
      /\ DOMAIN reply = Threads /\ Pointers(t) /\ reply[t] \in Outcomes
  BY LoadTyped DEF Ranged, Budgeted, IInv, Typed
<1>5. CASE Receive(t)
  <2>1. /\ requests < load.requests /\ requests' = requests + 1
        /\ UNCHANGED <<devices, now, load, crashes, frames, events>>
    BY <1>5 DEF Receive, tables, streamBudget
  <2>2. Budgeted'
    BY <1>4, <2>1 DEF Budgeted
  <2>3. Stepped'
    BY <2>1 DEF Ranged, Stepped
  <2>4. Pointers(t)' /\ reply'[t] \in Outcomes
    BY <1>1, <1>5, ReceivedNamed
  <2> QED BY <1>2, <1>3, <2>2, <2>3, <2>4 DEF Ranged
<1>6. CASE Crash(t)
  <2>1. /\ crashes < load.crashes /\ crashes' = crashes + 1
        /\ UNCHANGED <<devices, now, load, requests, frames, events, call>>
        /\ reply' = [reply EXCEPT ![t] = "lost"]
    BY <1>6 DEF Crash, tables, streamBudget
  <2>2. Budgeted'
    BY <1>4, <2>1 DEF Budgeted
  <2>3. Stepped'
    BY <2>1 DEF Ranged, Stepped
  <2>4. Pointers(t)'
    BY <1>1, <1>4, <2>1, PointersStay
  <2>5. reply'[t] \in Outcomes
    BY <1>4, <2>1 DEF Outcomes
  <2> QED BY <1>2, <1>3, <2>2, <2>3, <2>4, <2>5 DEF Ranged
<1>7. CASE Statement(t)
  <2>1. /\ reply'[t] \in Outcomes
        /\ UNCHANGED <<load, requests, crashes, now, frames, events>>
    BY <1>4, <1>7, StatementAnswers DEF streamBudget
  <2>2. Budgeted'
    BY <1>4, <2>1 DEF Budgeted
  <2>3. Stepped'
    BY <1>7, <2>1, DevicesStepped DEF Ranged
  <2>4. Pointers(t)'
    BY <1>1, <1>4, <1>7, StatementNamed
  <2> QED BY <1>2, <1>3, <2>1, <2>2, <2>3, <2>4 DEF Ranged
<1> QED BY <1>5, <1>6, <1>7

(* Time passes, and the codes of the step before stay in reach.            *)
LEMMA TickRanged ==
    ASSUME IInv, Ranged, UNCHANGED <<consumer, streamBudget>>, Tick
    PROVE  Ranged'
<1>1. /\ now < load.until /\ now' = now + 1 /\ load.until \in Nat /\ now \in 1..load.until
      /\ UNCHANGED <<sessions, tokens, devices, call, reply, load, requests, crashes,
                     frames, events>>
  BY LoadTyped DEF Tick, tables, handlers, budget, streamBudget, IInv, Ranged, Budgeted
<1>2. Budgeted'
  BY <1>1 DEF Ranged, Budgeted
<1>3. Stepped'
  BY <1>1 DEF Ranged, Stepped
<1>4. SocketsTyped'
  BY DEF consumer, Ranged, SocketsTyped, Resting
<1>5. \A t \in Threads : Pointers(t)' /\ reply'[t] \in Outcomes
  BY <1>1 DEF Ranged, Pointers, SessionsOf
<1> QED BY <1>2, <1>3, <1>4, <1>5 DEF Ranged

-----------------------------------------------------------------------------
(* Sockets. A step of one leaves the sessions alone, and the other sockets.*)
Alone(j) ==
    /\ DOMAIN socket' = Sockets /\ DOMAIN step' = Sockets /\ DOMAIN joining' = Sockets
    /\ DOMAIN timer' = Sockets /\ DOMAIN code' = Sockets
    /\ \A k \in Sockets \ {j} :
          /\ socket'[k] = socket[k] /\ step'[k] = step[k] /\ joining'[k] = joining[k]
          /\ timer'[k] = timer[k] /\ code'[k] = code[k]

LEMMA SocketRanged ==
    ASSUME IInv, Ranged, UNCHANGED sessionState, NEW j \in Sockets, Alone(j), Resting(j)',
           \/ UNCHANGED frames
           \/ frames < load.frames /\ frames' = frames + 1,
           UNCHANGED events
    PROVE  Ranged'
<1>1. UNCHANGED <<sessions, tokens, devices, now, call, reply, load, requests, crashes>>
  BY DEF sessionState, tables, handlers, budget
<1>2. Budgeted'
  BY <1>1, LoadTyped DEF IInv, Ranged, Budgeted
<1>3. Stepped'
  BY <1>1 DEF Ranged, Stepped
<1>4. \A t \in Threads : Pointers(t)' /\ reply'[t] \in Outcomes
  BY <1>1 DEF Ranged, Pointers, SessionsOf
<1>5. ASSUME NEW k \in Sockets, k # j PROVE Resting(k)'
  BY <1>5 DEF Alone, Ranged, SocketsTyped, Resting
<1>6. SocketsTyped'
  BY <1>5 DEF Alone, SocketsTyped
<1> QED BY <1>2, <1>3, <1>4, <1>6 DEF Ranged

LEMMA CloseAlone ==
    ASSUME SocketsTyped, NEW j \in Sockets, NEW c \in {1000, 4401, 4403, 4429}, Close(j, c)
    PROVE  /\ DOMAIN socket' = Sockets /\ DOMAIN code' = Sockets
           /\ \A k \in Sockets \ {j} : socket'[k] = socket[k] /\ code'[k] = code[k]
           /\ socket'[j] \in {"absent", "open", "closing", "gone"}
           /\ code'[j] \in {0, 1000, 4401, 4403, 4429}
  BY DEF Close, SocketsTyped, Resting

LEMMA SocketStepRanged ==
    ASSUME IInv, Ranged, NEW j \in Sockets, Socket(j)
    PROVE  Ranged'
<1> USE DEF SocketsTyped, Resting, Alone
<1>1. SocketsTyped /\ Resting(j)
  BY DEF Ranged
<1>2. \A s : Acceptable(j, s) => s # 0
  BY RowsTyped DEF Acceptable, ActiveSession, IInv
<1>3. ASSUME NEW c \in {1000, 4401, 4403, 4429}, Close(j, c) \/ UNCHANGED <<socket, code>>,
             UNCHANGED <<joining, step>>,
             UNCHANGED timer \/ timer' = [timer EXCEPT ![j] = "none"]
      PROVE  Alone(j) /\ Resting(j)'
  <2>1. /\ DOMAIN socket' = Sockets /\ DOMAIN code' = Sockets
        /\ \A k \in Sockets \ {j} : socket'[k] = socket[k] /\ code'[k] = code[k]
        /\ socket'[j] \in {"absent", "open", "closing", "gone"}
        /\ code'[j] \in {0, 1000, 4401, 4403, 4429}
    BY <1>1, <1>3, CloseAlone
  <2> QED BY <1>1, <1>3, <2>1
<1>4. CASE Connect(j)
  <2>1. Alone(j) /\ Resting(j)' /\ UNCHANGED sessionState /\ UNCHANGED <<frames, events>>
    BY <1>1, <1>4 DEF Connect, streamBudget
  <2> QED BY <2>1, SocketRanged
<1>5. ASSUME NEW s, AuthFrame(j, s) PROVE Ranged'
  <2>1. /\ UNCHANGED sessionState /\ UNCHANGED <<timer, events>>
        /\ frames < load.frames /\ frames' = frames + 1
        /\ \/ Close(j, 4401) /\ UNCHANGED <<joining, step>>
           \/ /\ joining' = [joining EXCEPT ![j] = s] /\ step' = [step EXCEPT ![j] = "user"]
              /\ UNCHANGED <<socket, code>>
    BY <1>5 DEF AuthFrame, Frame
  <2>2. Alone(j) /\ Resting(j)'
    BY <1>1, <1>3, <2>1
  <2> QED BY <2>1, <2>2, SocketRanged
<1>6. CASE TakeIdentity(j) \/ JoinSession(j)
  <2>1. /\ UNCHANGED sessionState /\ UNCHANGED <<socket, code, frames, events>>
        /\ \E x \in {"none", "expiry"} : timer' = [timer EXCEPT ![j] = x]
        /\ \/ step' = [step EXCEPT ![j] = "session"] /\ UNCHANGED joining
           \/ step' = [step EXCEPT ![j] = "ready"] /\ joining' = [joining EXCEPT ![j] = 0]
    BY <1>6 DEF TakeIdentity, JoinSession, streamBudget
  <2>2. Alone(j) /\ Resting(j)'
    BY <1>1, <2>1
  <2> QED BY <2>1, <2>2, SocketRanged
<1>7. ASSUME NEW symbols, Subscribe(j, symbols) \/ Unsubscribe(j, symbols) PROVE Ranged'
  <2>1. /\ UNCHANGED sessionState /\ UNCHANGED <<timer, events, joining, step>>
        /\ frames < load.frames /\ frames' = frames + 1
        /\ \E c \in {4401, 4429} : Close(j, c) \/ UNCHANGED <<socket, code>>
    BY <1>7 DEF Subscribe, Unsubscribe, Frame
  <2> QED BY <1>3, <2>1, SocketRanged
<1>8. CASE Deliver(j) \/ TimerFires(j) \/ ClientLeaves(j)
  <2>1. /\ UNCHANGED sessionState /\ UNCHANGED <<frames, events, joining, step>>
        /\ \E c \in {1000, 4401, 4403} : Close(j, c) \/ UNCHANGED <<socket, code>>
        /\ UNCHANGED timer \/ timer' = [timer EXCEPT ![j] = "none"]
    BY <1>8 DEF Deliver, TimerFires, ClientLeaves, streamBudget
  <2> QED BY <1>3, <2>1, SocketRanged
<1>9. CASE Disconnect(j)
  <2>1. Alone(j) /\ Resting(j)' /\ UNCHANGED sessionState /\ UNCHANGED <<frames, events>>
    BY <1>1, <1>9 DEF Disconnect, streamBudget
  <2> QED BY <2>1, SocketRanged
<1> QED BY <1>4, <1>5, <1>6, <1>7, <1>8, <1>9 DEF Socket

LEMMA PublishRanged ==
    ASSUME IInv, Ranged, NEW u \in Users, Publish(u)
    PROVE  Ranged'
<1>1. /\ events < load.events /\ events' = events + 1
      /\ UNCHANGED <<sessions, tokens, devices, now, call, reply, load, requests, crashes, frames>>
      /\ UNCHANGED consumer
  BY DEF Publish, sessionState, tables, handlers, budget
<1>2. Budgeted'
  BY <1>1, LoadTyped DEF IInv, Ranged, Budgeted
<1>3. Stepped'
  BY <1>1 DEF Ranged, Stepped
<1>4. \A t \in Threads : Pointers(t)' /\ reply'[t] \in Outcomes
  BY <1>1 DEF Ranged, Pointers, SessionsOf
<1>5. SocketsTyped'
  BY <1>1 DEF consumer, Ranged, SocketsTyped, Resting
<1> QED BY <1>2, <1>3, <1>4, <1>5 DEF Ranged

LEMMA RangedStep ==
    ASSUME IInv, Ranged, [Next]_vars
    PROVE  Ranged'
<1>1. CASE UNCHANGED vars
  <2>1. /\ UNCHANGED <<sessions, tokens, devices, now, call, reply, load, requests, crashes,
                       frames, events>>
        /\ UNCHANGED consumer
    BY <1>1 DEF vars, sessionVars, tables, handlers, budget, streamBudget
  <2>2. Budgeted' /\ Stepped'
    BY <2>1 DEF Ranged, Budgeted, Stepped
  <2>3. SocketsTyped'
    BY <2>1 DEF consumer, Ranged, SocketsTyped, Resting
  <2>4. \A t \in Threads : Pointers(t)' /\ reply'[t] \in Outcomes
    BY <2>1 DEF Ranged, Pointers, SessionsOf
  <2> QED BY <2>2, <2>3, <2>4 DEF Ranged
<1>2. CASE SessionsNext /\ UNCHANGED <<consumer, streamBudget>>
  BY <1>2, HandlerRanged DEF SessionsNext
<1>3. CASE Tick /\ UNCHANGED <<consumer, streamBudget>>
  BY <1>3, TickRanged
<1>4. CASE \E k \in Sockets : Socket(k)
  BY <1>4, SocketStepRanged
<1>5. CASE \E u \in Users : Publish(u)
  BY <1>5, PublishRanged
<1> QED BY <1>1, <1>2, <1>3, <1>4, <1>5 DEF Next

(* Every row names rows that exist, every handler stands at a statement of *)
(* its operation's and names rows that exist, no TOTP step is burnt that   *)
(* its clock has not had, and a socket joins a session exactly while its   *)
(* auth handler runs: for any users, handlers, sockets and loads.          *)
THEOREM StreamsTyped == Spec => []TypeOK
<1>1. Init => SInv /\ Ranged
  BY InitFollows, RangesStart
<1>2. IInv /\ SInv /\ Ranged /\ [Next]_vars => SInv' /\ Ranged'
  BY SInvStep, RangedStep
<1>3. IInv /\ SInv /\ Ranged => TypeOK
  BY TypesFollow
<1> QED BY <1>1, <1>2, <1>3, IInvHolds, PTL DEF Spec
=============================================================================
