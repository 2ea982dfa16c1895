--------------------------- MODULE FrontendProofs ---------------------------
(***************************************************************************)
(* Theorems about the page: a refresh token is presented once, a session   *)
(* only ends because somebody ends it, an attempt moves money once,        *)
(* notices are true, and the price stream follows the screen. They hold    *)
(* for every load: any number of calls at once, of losses, expiries, late  *)
(* requests and reloads.                                                   *)
(*                                                                         *)
(* The invariant has one part for each of them, and a type part. It is     *)
(* proved of the steps of Feed, which are the page's with those of its     *)
(* stream. For the stream, the frames on their way to the consumer are     *)
(* folded into what it will stream once it has read them (Streamed); a     *)
(* frame that is sent changes that by what it says, and reading one does   *)
(* not change it.                                                          *)
(***************************************************************************)
EXTENDS Feed, SequenceTheorems, TLAPS

Calls == Slots \cup {Spare}

(* What the variables of the page hold, and the rows of the server.        *)
Session == [newest : Nat \ {0}, expired : Nat, revoked : BOOLEAN]
Token == [session : Nat, serial : Nat]
Codes == {"lost", "200", "201", "400", "401", "409"}
Statuses == {"none", "posted", "open", "filled", "rejected"}
BodyNames == {"none", "signing in", "small", "large", "market", "limit"}
Texts == {"none", "sent", "already", "conflict", "unreachable", "refused", "filled", "resting"}
Reply == [code : Codes, pair : Token, status : Statuses]
Request ==
    [kind : Kinds \cup {"none"}, step : {"idle", "sent", "answered", "waiting"},
     again : BOOLEAN, token : Token, body : BodyNames, key : Nat, attempt : Nat,
     captured : Token, number : Nat, reply : Reply]
RowType == [form : Forms, body : BodyNames, attempt : Nat, number : Nat, status : Statuses]
Notice == [text : Texts, key : Nat, body : BodyNames, number : Nat, status : Statuses]

(* The types of the page's variables.                                      *)
PageTyped ==
    /\ load \in Loads
    /\ left \in [Budgets -> Nat]
    /\ server \in Seq(Session)
    /\ DOMAIN bound \subseteq Nat /\ bound \in [DOMAIN bound -> RowType]
    /\ limbo \subseteq Request
    /\ access \in Token /\ stored \in Token
    /\ user \in 0..2
    /\ refresh \in [state : {"none", "sent", "answered"}, token : Token, reply : Reply]
    /\ call \in [Calls -> Request]
    /\ form \in [Forms -> [attempt : Nat, key : Nat, notice : Notice]]
    /\ presented \in Seq(Token)
    /\ disturbed \in BOOLEAN

(* A token is blank or one the server has issued. Serials only grow.       *)
IssuedBy(sv, t) ==
    \/ t = Blank
    \/ t.session \in DOMAIN sv /\ t.serial \in 1..sv[t.session].newest
Issued(t) == IssuedBy(server, t)
Grown(sv) ==
    \A s \in DOMAIN server : s \in DOMAIN sv /\ server[s].newest <= sv[s].newest

(* Every token the page or a reply holds was issued, and no blank one is   *)
(* presented.                                                              *)
TokensIssued ==
    /\ Issued(access) /\ Issued(stored) /\ Issued(refresh.token) /\ Issued(refresh.reply.pair)
    /\ \A c \in Calls : Issued(call[c].reply.pair)
    /\ \A n \in DOMAIN presented : Issued(presented[n]) /\ presented[n] # Blank
    /\ refresh.state # "none" => refresh.token # Blank

(* Expiry stays behind issue, a waiting call has a refresh to wait for,    *)
(* keys die with the user, and budgets are only spent.                     *)
StepsKnown ==
    /\ \A s \in DOMAIN server : server[s].expired <= server[s].newest
    /\ \A c \in Calls :
          /\ call[c].step = "idle" <=> call[c] = NoCall
          /\ call[c].step = "waiting" => refresh.state # "none"
          /\ call[c].step = "waiting" => call[c].kind # "login"
    /\ \A f \in Forms : form[f].key # 0 => user # 0
    /\ \A d \in {"losses", "calls"} : left[d] <= load.left[d]

(* A login was answered with a pair; nobody else knows that session yet.   *)
LoggedIn(c) ==
    call[c].kind = "login" /\ call[c].step = "answered" /\ call[c].reply.code = "200"
Unclaimed(s) ==
    /\ s \in DOMAIN server
    /\ stored.session # s /\ refresh.token.session # s /\ refresh.reply.pair.session # s
    /\ \A n \in DOMAIN presented : presented[n].session # s

(* Why a refresh token is presented once: there is one login at a time,    *)
(* its session is unknown to the page until it is taken over, the stored   *)
(* token has been presented only while its refresh is under way, and the   *)
(* pair of an answered refresh was never presented.                        *)
OneLogin == \A c, d \in Calls : call[c].kind = "login" /\ call[d].kind = "login" => c = d
LoginFresh == \A c \in Calls : LoggedIn(c) => Unclaimed(call[c].reply.pair.session)
StoredFresh == \A n \in DOMAIN presented : presented[n] = stored => refresh.state # "none"
ReplyFresh ==
    refresh.state = "answered" /\ refresh.reply.code = "200" =>
        refresh.reply.pair # Blank /\ \A n \in DOMAIN presented : presented[n] # refresh.reply.pair
OnceInv == OneLogin /\ LoginFresh /\ StoredFresh /\ ReplyFresh /\ RefreshPresentedOnce

(* The newest token of its session.                                        *)
NewestOf(sv, t) == t # Blank /\ t.session \in DOMAIN sv /\ t.serial = sv[t.session].newest
IsNewest(t) == NewestOf(server, t)
Undisturbed == ~disturbed /\ leaving = {}

(* Why a session survives: while nothing is disturbed and nobody leaves,   *)
(* the page holds the newest token of a session nobody revoked (its        *)
(* refresh holds it, between answer and storage), and no sign-out is on    *)
(* its way.                                                                *)
SurvivesInv ==
    Undisturbed =>
        /\ stored # Blank
        /\ \A s \in DOMAIN server : ~server[s].revoked
        /\ refresh.state # "answered" => IsNewest(stored)
        /\ refresh.state = "sent" => IsNewest(refresh.token)
        /\ refresh.state = "answered" => refresh.reply.code = "200" /\ IsNewest(refresh.reply.pair)
        /\ \A c \in Calls :
              /\ call[c].kind # "logout"
              /\ call[c].step = "answered" => call[c].reply.code # "lost"
              /\ LoggedIn(c) => IsNewest(call[c].reply.pair)
        /\ \A q \in limbo : q.kind # "logout"

(* A request or a row carries attempt a of form f under key k.             *)
Uses(f, a, k) ==
    \/ \E c \in Calls : call[c].kind = f /\ call[c].attempt = a /\ call[c].key = k
    \/ \E q \in limbo : q.kind = f /\ q.attempt = a /\ q.key = k
    \/ k \in DOMAIN bound /\ bound[k].form = f /\ bound[k].attempt = a

(* Why an attempt moves once: it has one key, in the form, in every        *)
(* request made of it and in the row that was bound to it.                 *)
KeysInv ==
    /\ \A f \in Forms, a, j, k \in Nat : Uses(f, a, j) /\ Uses(f, a, k) => j = k
    /\ \A f \in Forms, a, k \in Nat : Uses(f, a, k) =>
          /\ a <= form[f].attempt
          /\ a = form[f].attempt => form[f].key = k /\ k # 0

(* The requests that move money or place orders, by how far they are.      *)
Moves(q) == q.kind \in Forms
Pending(q) ==
    \/ q.step \in {"sent", "waiting"}
    \/ q.step = "answered" /\ q.reply.code = "401"
GaveUp(q) == q.step = "answered" /\ q.reply.code = "lost"
UnservedBy(b, q) == \A k \in DOMAIN b : b[k].number # q.number
Unserved(q) == UnservedBy(bound, q)

(* Requests are numbered apart: a request that has not been served bound   *)
(* no row, and one the page gave up on is served at most once.             *)
NumbersInv ==
    /\ \A c \in Calls : Moves(call[c]) => call[c].number > left["calls"]
    /\ \A q \in limbo : Moves(q) => q.number > left["calls"] /\ Unserved(q)
    /\ \A k \in DOMAIN bound : bound[k].number > left["calls"]
    /\ \A c \in Calls : Moves(call[c]) /\ Pending(call[c]) => Unserved(call[c])
    /\ \A c, d \in Calls :
          Moves(call[c]) /\ Moves(call[d]) /\ call[c].number = call[d].number => c = d
    /\ \A p, q \in limbo : Moves(p) /\ Moves(q) /\ p.number = q.number => p = q
    /\ \A c \in Calls, q \in limbo :
          Moves(call[c]) /\ Moves(q) /\ call[c].number = q.number => GaveUp(call[c])

(* What a reply says of the row its key is bound to.                       *)
ReplyTrue(b, q, reply) ==
    /\ q.kind = "transfer" /\ reply.code \in {"200", "201"} =>
          /\ q.key \in DOMAIN b /\ b[q.key].body = q.body
          /\ reply.code = "201" => b[q.key].number = q.number
          /\ reply.code = "200" => b[q.key].number # q.number
    /\ q.kind = "order" /\ reply.code = "201" /\ reply.status = "filled" =>
          q.key \in DOMAIN b /\ b[q.key].body = q.body /\ b[q.key].status = "filled"

(* What the replies that wait to be read say is so.                        *)
RepliesTrue ==
    \A c \in Calls : call[c].step = "answered" => ReplyTrue(bound, call[c], call[c].reply)

-----------------------------------------------------------------------------
(* The records the model is made of have the types above.                  *)
LEMMA Vocabulary ==
    /\ Blank \in Token
    /\ \A s, n \in Nat : Pair(s, n) \in Token
    /\ NoNotice \in Notice
    /\ Forms \subseteq Kinds
    /\ NewSession \in Session
<1>1. Blank \in Token /\ \A s, n \in Nat : Pair(s, n) \in Token
  BY DEF Blank, Token, Pair
<1>2. NoNotice \in Notice
  BY DEF NoNotice, Notice, Texts, BodyNames, Statuses
<1>3. NewSession \in Session
  BY DEF NewSession, Session
<1> QED BY <1>1, <1>2, <1>3 DEF Forms, Kinds

(* So have the replies; their fields.                                      *)
LEMMA Replies ==
    /\ Lost \in Reply /\ Lost.code = "lost" /\ Lost.pair = Blank /\ Lost.status = "none"
    /\ \A code \in Codes :
          /\ Code(code) \in Reply /\ Code(code).code = code
          /\ Code(code).pair = Blank /\ Code(code).status = "none"
    /\ \A code \in Codes, status \in Statuses :
          /\ Shown(code, status) \in Reply /\ Shown(code, status).code = code
          /\ Shown(code, status).pair = Blank /\ Shown(code, status).status = status
    /\ \A pair \in Token :
          /\ Granted(pair) \in Reply /\ Granted(pair).code = "200" /\ Granted(pair).pair = pair
<1>1. Lost \in Reply /\ Lost.code = "lost" /\ Lost.pair = Blank /\ Lost.status = "none"
  BY Vocabulary DEF Lost, Reply, Codes, Statuses
<1>2. ASSUME NEW code \in Codes
      PROVE  /\ Code(code) \in Reply /\ Code(code).code = code
             /\ Code(code).pair = Blank /\ Code(code).status = "none"
  BY <1>1 DEF Code, Reply
<1>3. ASSUME NEW code \in Codes, NEW status \in Statuses
      PROVE  /\ Shown(code, status) \in Reply /\ Shown(code, status).code = code
             /\ Shown(code, status).pair = Blank /\ Shown(code, status).status = status
  BY <1>1, <1>3 DEF Shown, Reply
<1>4. ASSUME NEW pair \in Token
      PROVE  /\ Granted(pair) \in Reply /\ Granted(pair).code = "200"
             /\ Granted(pair).pair = pair
  BY <1>1, <1>4 DEF Granted, Reply, Codes
<1> QED BY <1>1, <1>2, <1>3, <1>4

(* The empty slot.                                                         *)
LEMMA NoCallTyped ==
    /\ NoCall \in Request /\ NoCall.reply = Lost /\ NoCall.reply.pair = Blank
    /\ NoCall.kind = "none" /\ NoCall.step = "idle" /\ ~NoCall.again
    /\ NoCall.number = 0 /\ NoCall.body = "none"
<1>1. NoCall \in Request
  BY Vocabulary, Replies DEF NoCall, Request, BodyNames
<1> QED BY <1>1, Replies DEF NoCall

(* A request before it is sent.                                            *)
LEMMA AskingTyped ==
    ASSUME NEW kind \in Kinds, NEW t \in Token
    PROVE  /\ Asking(kind, t) \in Request
           /\ Asking(kind, t).kind = kind /\ Asking(kind, t).reply = Lost
           /\ ~Asking(kind, t).again /\ Asking(kind, t).body = "none"
  BY NoCallTyped DEF Asking, Request

(* The loading of the user, with the token that was just stored.           *)
LEMMA LoadingTyped ==
    ASSUME NEW t \in Token
    PROVE  /\ LoadingUser(t) \in Request
           /\ LoadingUser(t).kind = "me" /\ LoadingUser(t).reply = Lost
           /\ LoadingUser(t).step = "sent" /\ ~LoadingUser(t).again
  BY NoCallTyped DEF LoadingUser, Request, Kinds, BodyNames

(* What a request may be answered.                                         *)
NewRow(q, a) ==
    /\ q.key \notin DOMAIN bound
    /\ DOMAIN a.bound = DOMAIN bound \cup {q.key}
    /\ a.bound \in [DOMAIN a.bound -> RowType]
    /\ \A k \in DOMAIN bound : a.bound[k] = bound[k]
    /\ a.bound[q.key].form = q.kind /\ a.bound[q.key].attempt = q.attempt
    /\ a.bound[q.key].body = q.body /\ a.bound[q.key].number = q.number

(* A fresh key is bound to the row of its request; nothing else changes.   *)
LEMMA RowBound ==
    ASSUME PageTyped, NEW q \in Request, q.kind \in Forms, NEW st \in Statuses, NEW r,
           q.key \notin DOMAIN bound, NEW a, a = Binds(r, q, st)
    PROVE  /\ a.reply = r /\ a.server = server
           /\ NewRow(q, a) /\ a.bound[q.key].status = st
<1>1. a.reply = r /\ a.server = server /\ a.bound = Binding(q, st)
  BY DEF Binds
<1>2. Row(q, st) \in RowType
  BY DEF Row, RowType, Request
<1>3. /\ DOMAIN a.bound = DOMAIN bound \cup {q.key}
      /\ a.bound \in [DOMAIN a.bound -> RowType]
      /\ \A k \in DOMAIN bound : a.bound[k] = bound[k]
      /\ a.bound[q.key] = Row(q, st)
  BY <1>1, <1>2 DEF Binding, PageTyped
<1> QED BY <1>1, <1>3 DEF NewRow, Row

(* A transfer binds its key, repeats its row, or changes nothing.          *)
LEMMA TransferAnswered ==
    ASSUME PageTyped, NEW q \in Request, q.kind = "transfer", NEW a \in TransferAnswers(q)
    PROVE  /\ a.server = server
           /\ a.reply \in Reply /\ a.reply.pair = Blank
           /\ a.reply.code \in {"200", "201", "400", "409"}
           /\ \/ a.bound = bound /\ a.reply.code # "201"
              \/ NewRow(q, a) /\ a.reply.code = "201"
           /\ a.reply.code = "200" => q.key \in DOMAIN bound /\ bound[q.key].body = q.body
<1>1. CASE q.key \in DOMAIN bound
  BY <1>1, Replies DEF TransferAnswers, Answer, Codes
<1>2. CASE q.key \notin DOMAIN bound
  <2>1. CASE a = Answer(Code("400"))
    BY <1>2, <2>1, Replies DEF Answer, Codes
  <2>2. CASE a = Binds(Code("201"), q, "posted")
    BY <1>2, <2>2, RowBound, Replies DEF Codes, Statuses, Forms
  <2> QED BY <1>2, <2>1, <2>2 DEF TransferAnswers
<1> QED BY <1>1, <1>2

(* So does an order.                                                       *)
LEMMA OrderAnswered ==
    ASSUME PageTyped, NEW q \in Request, q.kind = "order", NEW a \in OrderAnswers(q)
    PROVE  /\ a.server = server
           /\ a.reply \in Reply /\ a.reply.pair = Blank
           /\ a.reply.code \in {"201", "400", "409"}
           /\ a.bound = bound \/ NewRow(q, a)
           /\ a.reply.code = "201" /\ a.reply.status = "filled" =>
                 /\ q.key \in DOMAIN a.bound /\ a.bound[q.key].body = q.body
                 /\ a.bound[q.key].status = "filled"
<1>1. CASE q.key \in DOMAIN bound
  <2>1. bound[q.key].status \in Statuses
    BY <1>1 DEF PageTyped, RowType
  <2>2. a.server = server /\ a.bound = bound
    BY <1>1 DEF OrderAnswers, Answer
  <2>3. \/ a.reply = Code("409")
        \/ bound[q.key].body = q.body /\ a.reply = Shown("201", bound[q.key].status)
    BY <1>1 DEF OrderAnswers, Answer
  <2>4. CASE a.reply = Code("409")
    BY <2>2, <2>4, Replies DEF Codes
  <2>5. CASE bound[q.key].body = q.body /\ a.reply = Shown("201", bound[q.key].status)
    BY <1>1, <2>1, <2>2, <2>5, Replies DEF Codes
  <2> QED BY <2>3, <2>4, <2>5
<1>2. CASE q.key \notin DOMAIN bound
  <2>1. PICK code \in {"201", "400"}, status \in {"filled", "rejected", "open"} :
            a = Binds(Shown(code, status), q, status)
    BY <1>2 DEF OrderAnswers
  <2>2. code \in Codes /\ status \in Statuses
    BY DEF Codes, Statuses
  <2>3. /\ a.reply = Shown(code, status) /\ a.server = server
        /\ NewRow(q, a) /\ a.bound[q.key].status = status
    BY <1>2, <2>1, <2>2, RowBound DEF Forms
  <2> QED BY <2>2, <2>3, Replies DEF NewRow
<1> QED BY <1>1, <1>2

(* Whatever is asked: what the server, the rows and the reply are after    *)
(* it.                                                                     *)
LEMMA Answered ==
    ASSUME PageTyped, NEW q \in Request, NEW a \in Answers(q)
    PROVE  /\ a.reply \in Reply /\ a.reply.code # "lost"
           /\ \/ a.server = server /\ a.reply.pair = Blank
              \/ /\ q.kind = "login" /\ a.server = Append(server, NewSession)
                 /\ a.reply.code = "200" /\ a.reply.pair = Pair(Len(server) + 1, 1)
              \/ /\ q.kind = "logout" /\ a.reply.pair = Blank
                 /\ a.server = [server EXCEPT ![q.captured.session].revoked = TRUE]
           /\ q.kind = "login" /\ a.reply.code = "200" => a.server # server
           /\ a.bound = bound \/ (q.kind \in Forms /\ NewRow(q, a) /\ a.reply.code # "401")
<1>1. Len(server) \in Nat /\ Pair(Len(server) + 1, 1) \in Token
  <2>1. Len(server) \in Nat
    BY LenProperties DEF PageTyped
  <2> QED BY <2>1, Vocabulary
<1>2. CASE q.kind = "login"
  <2>1. CASE a = Answer(Code("401"))
    BY <1>2, <2>1, Replies DEF Answer, Codes
  <2>2. CASE a = [reply |-> Granted(Pair(Len(server) + 1, 1)),
                  server |-> Append(server, NewSession), bound |-> bound]
    <3>1. a.server # server
      BY <1>1, <2>2, Vocabulary, LenProperties, AppendProperties DEF PageTyped
    <3> QED BY <1>1, <1>2, <2>2, <3>1, Replies DEF Codes
  <2> QED BY <1>2, <2>1, <2>2 DEF Answers, LoginAnswers
<1>3. CASE q.kind # "login" /\ a = Answer(Code("401"))
  BY <1>3, Replies DEF Answer, Codes
<1>4. CASE q.kind = "transfer" /\ a \in TransferAnswers(q)
  BY <1>4, TransferAnswered DEF Forms
<1>5. CASE q.kind = "order" /\ a \in OrderAnswers(q)
  BY <1>5, OrderAnswered DEF Forms
<1>6. CASE q.kind = "logout" /\ a \in LogoutAnswers(q)
  BY <1>6, Replies DEF LogoutAnswers, Answer, Codes
<1>7. CASE q.kind \in {"query", "me", "none"} /\ a = Answer(Code("200"))
  BY <1>7, Replies DEF Answer, Codes
<1> QED BY <1>2, <1>3, <1>4, <1>5, <1>6, <1>7 DEF Answers, Request, Kinds

(* What a commit leaves has the types of the rows.                         *)
CommittedTyped(a) ==
    /\ a.server \in Seq(Session)
    /\ DOMAIN a.bound \subseteq Nat /\ a.bound \in [DOMAIN a.bound -> RowType]

(* One session of the server is changed.                                   *)
Patched(sv, s, e) ==
    /\ sv \in Seq(Session) /\ DOMAIN sv = DOMAIN server /\ Len(sv) = Len(server)
    /\ sv[s] = e
    /\ \A r \in DOMAIN server \ {s} : sv[r] = server[r]

(* Changing one session leaves the others.                                 *)
LEMMA Patching ==
    ASSUME PageTyped, NEW s \in DOMAIN server, NEW e \in Session, NEW sv,
           sv = [server EXCEPT ![s] = e]
    PROVE  Patched(sv, s, e)
<1>1. s \in 1..Len(server)
  BY LenProperties DEF PageTyped
<1> QED BY <1>1, ExceptSeq, LenProperties DEF PageTyped, Patched

(* Revoking a session keeps its tokens as they are.                        *)
LEMMA Revoking ==
    ASSUME PageTyped, NEW s
    PROVE  LET sv == [server EXCEPT ![s].revoked = TRUE] IN
           /\ sv \in Seq(Session) /\ DOMAIN sv = DOMAIN server
           /\ \A r \in DOMAIN server :
                 /\ sv[r].newest = server[r].newest /\ sv[r].expired = server[r].expired
                 /\ r # s => sv[r] = server[r]
<1> DEFINE sv == [server EXCEPT ![s].revoked = TRUE]
<1>1. CASE s \in DOMAIN server
  <2>1. s \in 1..Len(server) /\ server[s] \in Session
    BY <1>1, LenProperties, ElementOfSeq DEF PageTyped
  <2>2. [server[s] EXCEPT !.revoked = TRUE] \in Session
    BY <2>1 DEF Session
  <2>3. sv = [server EXCEPT ![s] = [server[s] EXCEPT !.revoked = TRUE]]
    OBVIOUS
  <2>4. sv \in Seq(Session)
    BY <2>1, <2>2, <2>3, ExceptSeq DEF PageTyped
  <2> QED BY <2>1, <2>3, <2>4 DEF Session, PageTyped
<1>2. CASE s \notin DOMAIN server
  <2>1. sv = server
    BY <1>2 DEF PageTyped
  <2> QED BY <2>1 DEF PageTyped
<1> QED BY <1>1, <1>2

(* An answer leaves typed rows.                                            *)
LEMMA AnswerTyped ==
    ASSUME PageTyped, NEW q \in Request, NEW a \in Answers(q)
    PROVE  CommittedTyped(a)
<1>1. a.server \in Seq(Session)
  <2>1. CASE a.server = server
    BY <2>1 DEF PageTyped
  <2>2. CASE a.server = Append(server, NewSession)
    BY <2>2, Vocabulary, AppendProperties DEF PageTyped
  <2>3. CASE a.server = [server EXCEPT ![q.captured.session].revoked = TRUE]
    BY <2>3, Revoking
  <2> QED BY <2>1, <2>2, <2>3, Answered
<1>2. DOMAIN a.bound \subseteq Nat /\ a.bound \in [DOMAIN a.bound -> RowType]
  <2>1. CASE a.bound = bound
    BY <2>1 DEF PageTyped
  <2>2. CASE NewRow(q, a)
    BY <2>2 DEF PageTyped, NewRow, Request
  <2> QED BY <2>1, <2>2, Answered
<1> QED BY <1>1, <1>2 DEF CommittedTyped

-----------------------------------------------------------------------------
(* A step of the socket, for the page: nothing, or the sign-out of a lost  *)
(* session.                                                                *)
LostSessionSignsOut ==
    /\ call[Spare].step = "idle"
    /\ call' = [call EXCEPT ![Spare] = [SignOutCall EXCEPT !.step = "sent"]]
    /\ leaving' = leaving \cup {stored.session}
    /\ UNCHANGED <<serverVars, access, stored, user, refresh, form, presented, disturbed, load,
                   left>>
Spends == left' = left \/ \E b \in {"losses", "moves"} : Spend(b)
SocketMoves == UNCHANGED <<serverVars, pageVars, presented, disturbed, leaving, load>> /\ Spends

(* Seen from the page, every step is its own, nothing, or the sign-out of  *)
(* a lost session.                                                         *)
LEMMA StepsOfThePage ==
    ASSUME [Next]_vars
    PROVE  ClientNext \/ LostSessionSignsOut \/ SocketMoves
<1>1. CASE ClientNext /\ Follows
  BY <1>1
<1>2. CASE RetryFires \/ BecomesVisible \/ Opens \/ ReauthFires \/ Authenticated
           \/ FrameArrives \/ ServerEnds
  BY <1>2 DEF RetryFires, BecomesVisible, Opens, ReauthFires, Authenticated, FrameArrives,
              ServerEnds, SocketMoves, Spends, clientVars
<1>3. CASE CloseArrives
  <2> DEFINE code == Head(down).code
  <2>1. Closed(code) /\ (code = 4403 => call[Spare].step = "idle")
    BY <1>3 DEF CloseArrives
  <2>2. CASE SessionLost(code)
    BY <2>1, <2>2 DEF SessionLost, Closed, LostSessionSignsOut
  <2>3. CASE ~SessionLost(code)
    BY <2>1, <2>3 DEF SessionLost, Closed, SocketMoves, Spends, pageVars
  <2> QED BY <2>2, <2>3
<1>4. CASE ConnectionLost
  BY <1>4 DEF ConnectionLost, SocketMoves, Spends
<1>5. CASE \E symbols \in Screens : Navigate(symbols)
  BY <1>5 DEF Navigate, SocketMoves, Spends
<1>6. CASE UNCHANGED vars
  BY <1>6 DEF vars, clientVars, SocketMoves, Spends
<1> QED BY <1>1, <1>2, <1>3, <1>4, <1>5, <1>6 DEF Next

-----------------------------------------------------------------------------
(* A budget that is spent stays a number.                                  *)
LEMMA Spent ==
    ASSUME PageTyped, NEW b \in Budgets, Spend(b)
    PROVE  /\ left' \in [Budgets -> Nat] /\ left[b] > 0
           /\ \A d \in Budgets : left'[d] = IF d = b THEN left[d] - 1 ELSE left[d]
  BY DEF PageTyped, Spend

(* A request on its way, with its number.                                  *)
LEMMA NumberedTyped ==
    ASSUME PageTyped, NEW q \in Request
    PROVE  /\ Numbered(q) \in Request
           /\ Numbered(q).step = "sent" /\ Numbered(q).number = left["calls"]
           /\ Numbered(q).kind = q.kind /\ Numbered(q).reply = q.reply
           /\ Numbered(q).key = q.key /\ Numbered(q).attempt = q.attempt
           /\ Numbered(q).body = q.body /\ Numbered(q).again = q.again
<1>1. left["calls"] \in Nat
  BY DEF PageTyped, Budgets
<1> QED BY <1>1 DEF Request, Numbered

(* Starting a request changes its slot alone.                              *)
LEMMA Starting ==
    ASSUME PageTyped, NEW c \in Calls, NEW q \in Request, Starts(c, q)
    PROVE  /\ call' \in [Calls -> Request]
           /\ call[c].step = "idle" /\ call'[c] = Numbered(q)
           /\ \A d \in Calls \ {c} : call'[d] = call[d]
  BY NumberedTyped DEF Starts, PageTyped

(* Every session of the server is one.                                     *)
LEMMA SessionsTyped ==
    ASSUME PageTyped
    PROVE  /\ Len(server) \in Nat /\ DOMAIN server = 1..Len(server)
           /\ \A s \in DOMAIN server : /\ server[s] \in Session /\ s \in Nat \ {0}
                                       /\ server[s].newest \in Nat \ {0}
                                       /\ server[s].expired \in Nat
<1>1. Len(server) \in Nat /\ DOMAIN server = 1..Len(server)
  BY LenProperties DEF PageTyped
<1>2. \A s \in DOMAIN server : server[s] \in Session
  BY <1>1, ElementOfSeq DEF PageTyped
<1> QED BY <1>1, <1>2 DEF Session

(* Every slot holds a request.                                             *)
LEMMA CallsTyped ==
    ASSUME PageTyped, NEW c \in Calls
    PROVE  call[c] \in Request
  BY DEF PageTyped

(* Ending calls.                                                           *)
LEMMA EndsTyped ==
    ASSUME PageTyped, NEW S
    PROVE  /\ Ends(S) \in [Calls -> Request]
           /\ \A c \in Calls : Ends(S)[c] = IF c \in S THEN NoCall ELSE call[c]
  BY NoCallTyped DEF PageTyped, Ends

(* Sending calls again.                                                    *)
LEMMA ResentTyped ==
    ASSUME PageTyped, NEW S, NEW t \in Token
    PROVE  /\ Resent(S, t) \in [Calls -> Request]
           /\ \A c \in Calls : Resent(S, t)[c] = IF c \in S THEN Again(call[c], t) ELSE call[c]
<1>1. \A c \in Calls : call[c] \in Request /\ Again(call[c], t) \in Request
  BY DEF PageTyped, Request, Again
<1> QED BY <1>1 DEF PageTyped, Resent

(* The next attempt of a form.                                             *)
LEMMA NextAttemptTyped ==
    ASSUME PageTyped, NEW f \in Forms, NEW n \in Notice
    PROVE  NextAttempt(f, n) \in [attempt : Nat, key : Nat, notice : Notice]
  BY DEF PageTyped, NextAttempt

(* Unmounting the forms.                                                   *)
LEMMA UnmountedTyped ==
    ASSUME PageTyped
    PROVE  Unmounted \in [Forms -> [attempt : Nat, key : Nat, notice : Notice]]
  BY NextAttemptTyped, Vocabulary DEF Unmounted

(* Types survive the service of a request.                                 *)
LEMMA TypedServe ==
    ASSUME PageTyped, NEW c \in Calls, Serve(c)
    PROVE  PageTyped'
<1>1. PICK a \in Answers(call[c]) :
          /\ Commit(a)
          /\ call' = [call EXCEPT ![c].step = "answered", ![c].reply = a.reply]
  BY DEF Serve
<1> DEFINE q == call[c]
<1>2. q \in Request
  BY CallsTyped
<1>3. [q EXCEPT !.step = "answered", !.reply = a.reply] \in Request
  BY <1>2, Answered DEF Request
<1>4. call' \in [Calls -> Request]
  BY <1>1, <1>3 DEF PageTyped
<1>5. CommittedTyped(a)
  BY <1>2, AnswerTyped
<1> QED BY <1>1, <1>4, <1>5 DEF Serve, PageTyped, Commit, CommittedTyped

(* A refresh is served with the newest token of a session that lives.      *)
GoodRefresh ==
    LET s == refresh.token.session IN refresh.token = Newest(s) /\ ~server[s].revoked
RefreshServed(s) ==
    /\ s \in DOMAIN server
    /\ Patched(server', s, server'[s])
    /\ server'[s].expired = server[s].expired
    /\ refresh'.state = "answered" /\ refresh'.token = refresh.token
    /\ \/ /\ GoodRefresh
          /\ server'[s].newest = server[s].newest + 1 /\ ~server'[s].revoked
          /\ refresh'.reply.code = "200"
          /\ refresh'.reply.pair = Pair(s, server[s].newest + 1)
       \/ /\ ~GoodRefresh
          /\ server'[s].newest = server[s].newest
          /\ refresh'.reply.code = "401" /\ refresh'.reply.pair = Blank

(* What the service of a refresh does to its session and to the reply, and *)
(* that types survive it.                                                  *)
LEMMA TypedServeRefresh ==
    ASSUME PageTyped, TokensIssued, ServeRefresh
    PROVE  PageTyped' /\ RefreshServed(refresh.token.session)
<1> DEFINE s == refresh.token.session
           good == refresh.token = Newest(s) /\ ~server[s].revoked
           e == [server[s] EXCEPT !.newest = IF good THEN @ + 1 ELSE @, !.revoked = ~good]
           r == IF good THEN Granted(Pair(s, server[s].newest + 1)) ELSE Code("401")
<1>1. s \in DOMAIN server /\ s \in Nat /\ server[s] \in Session
  <2>1. s \in DOMAIN server
    BY DEF ServeRefresh, TokensIssued, Issued, IssuedBy
  <2> QED BY <2>1, LenProperties, ElementOfSeq DEF PageTyped
<1>2. e \in Session
  <2>1. /\ server[s].newest + 1 \in Nat \ {0} /\ server[s].newest \in Nat \ {0}
        /\ server[s].expired \in Nat /\ (~good) \in BOOLEAN
    BY <1>1 DEF Session
  <2> DEFINE n == IF good THEN server[s].newest + 1 ELSE server[s].newest
             b == ~good
  <2>2. n \in Nat \ {0} /\ b \in BOOLEAN
    BY <2>1
  <2>3. e = [server[s] EXCEPT !.newest = n, !.revoked = b]
    OBVIOUS
  <2> HIDE DEF n, b, good, e
  <2> QED BY <1>1, <2>2, <2>3 DEF Session
<1>3. server' = [server EXCEPT ![s] = e]
  BY DEF ServeRefresh
<1>4. Patched(server', s, e)
  BY <1>1, <1>2, <1>3, Patching
<1>5. /\ r \in Reply
      /\ good => r.code = "200" /\ r.pair = Pair(s, server[s].newest + 1)
      /\ ~good => r.code = "401" /\ r.pair = Blank
  <2>1. Pair(s, server[s].newest + 1) \in Token
    BY <1>1, Vocabulary DEF Session
  <2> QED BY <2>1, Replies DEF Codes
<1>6. refresh' = [refresh EXCEPT !.state = "answered", !.reply = r]
  BY DEF ServeRefresh
<1> HIDE DEF e, r, good, s
<1>7. refresh' \in [state : {"none", "sent", "answered"}, token : Token, reply : Reply]
      /\ refresh'.state = "answered" /\ refresh'.token = refresh.token /\ refresh'.reply = r
  BY <1>5, <1>6 DEF PageTyped
<1>8. PageTyped'
  BY <1>4, <1>7 DEF PageTyped, Patched, ServeRefresh
<1>9. /\ e.expired = server[s].expired
      /\ good => e.newest = server[s].newest + 1 /\ ~e.revoked
      /\ ~good => e.newest = server[s].newest
  BY <1>1 DEF e, Session
<1>10. good <=> GoodRefresh
  BY DEF good, s, GoodRefresh
<1>11. RefreshServed(s)
  BY <1>1, <1>4, <1>5, <1>7, <1>9, <1>10 DEF RefreshServed, Patched
<1> QED BY <1>8, <1>11 DEF s

(* Types survive the client's part of a refresh.                           *)
LEMMA TypedRefreshSteps ==
    ASSUME PageTyped
    PROVE  /\ \A c \in Calls : Unauthorized(c) => PageTyped'
           /\ Refreshed => PageTyped'
           /\ RefreshFailed => PageTyped'
           /\ \A c \in Calls : ResendLost(c) => PageTyped'
<1>1. \A S : Expire(S) =>
         /\ access' = Blank /\ stored' = Blank /\ user' = 0 /\ call' \in [Calls -> Request]
         /\ form' \in [Forms -> [attempt : Nat, key : Nat, notice : Notice]]
  BY EndsTyped, UnmountedTyped DEF Expire, ClearSession, NoUser
<1>2. ASSUME NEW c \in Calls, Unauthorized(c) PROVE PageTyped'
  <2>1. CASE Expire({c}) /\ UNCHANGED <<refresh, presented>>
    BY <1>1, <1>2, <2>1, Vocabulary DEF PageTyped, Unauthorized, serverVars
  <2>2. CASE RefreshOnce(c) /\ UNCHANGED <<access, stored, user, form>>
    <3>1. [call[c] EXCEPT !.step = "waiting"] \in Request
      BY CallsTyped DEF Request
    <3>2. call' \in [Calls -> Request]
      BY <2>2, <3>1 DEF RefreshOnce, PageTyped
    <3>3. refresh' \in [state : {"none", "sent", "answered"}, token : Token, reply : Reply]
      BY <2>2, Replies DEF RefreshOnce, PageTyped
    <3>4. presented' \in Seq(Token)
      <4>1. presented' = presented \/ presented' = Append(presented, stored)
        BY <2>2 DEF RefreshOnce
      <4>2. Append(presented, stored) \in Seq(Token)
        BY AppendProperties DEF PageTyped
      <4> QED BY <4>1, <4>2 DEF PageTyped
    <3> QED BY <1>2, <2>2, <3>2, <3>3, <3>4 DEF PageTyped, Unauthorized, serverVars
  <2> QED BY <1>2, <2>1, <2>2 DEF Unauthorized
<1>3. [refresh EXCEPT !.state = "none", !.token = Blank, !.reply = Lost]
        \in [state : {"none", "sent", "answered"}, token : Token, reply : Reply]
  BY Replies, Vocabulary DEF PageTyped
<1>4. ASSUME Refreshed PROVE PageTyped'
  <2>1. refresh.reply.pair \in Token
    BY DEF PageTyped, Reply
  <2>2. Resent(Waiting, refresh.reply.pair) \in [Calls -> Request]
    BY <2>1, ResentTyped
  <2> QED BY <1>3, <1>4, <2>1, <2>2 DEF Refreshed, PageTyped, SetTokens, serverVars
<1>5. ASSUME RefreshFailed PROVE PageTyped'
  BY <1>1, <1>3, <1>5, Vocabulary DEF RefreshFailed, PageTyped, serverVars
<1>6. ASSUME NEW c \in Calls, ResendLost(c) PROVE PageTyped'
  BY <1>1, <1>6, Vocabulary DEF ResendLost, PageTyped, serverVars
<1> QED BY <1>2, <1>4, <1>5, <1>6

(* Types survive the replies to everything but the forms.                  *)
LEMMA TypedReplies ==
    ASSUME PageTyped, NEW c \in Calls,
           QueryReplied(c) \/ UserLoaded(c) \/ SignedIn(c) \/ SignedOut(c)
    PROVE  PageTyped'
<1>1. CASE QueryReplied(c)
  BY <1>1, EndsTyped DEF QueryReplied, Replied, PageTyped, serverVars
<1>2. CASE UserLoaded(c)
  <2>1. user' \in 0..2
    BY <1>2 DEF UserLoaded, NewUser, PageTyped
  <2> QED BY <1>2, <2>1, EndsTyped DEF UserLoaded, Replied, PageTyped, serverVars
<1>3. CASE SignedIn(c)
  <2>1. call[c].reply.pair \in Token
    BY CallsTyped DEF Request, Reply
  <2>2. LoadingUser(call[c].reply.pair) \in Request
    BY <2>1, LoadingTyped
  <2>3. call' \in [Calls -> Request]
    <3>1. call' = Ends({c}) \/ call' = [call EXCEPT ![c] = LoadingUser(call[c].reply.pair)]
      BY <1>3 DEF SignedIn
    <3>2. [call EXCEPT ![c] = LoadingUser(call[c].reply.pair)] \in [Calls -> Request]
      BY <2>2 DEF PageTyped
    <3> QED BY <3>1, <3>2, EndsTyped
  <2>4. access' \in Token /\ stored' \in Token
    BY <1>3, <2>1 DEF SignedIn, SetTokens, PageTyped
  <2> QED BY <1>3, <2>3, <2>4 DEF SignedIn, Replied, PageTyped, serverVars
<1>4. CASE SignedOut(c)
  BY <1>4, EndsTyped, UnmountedTyped, Vocabulary
     DEF SignedOut, Replied, ClearSession, NoUser, PageTyped, serverVars
<1> QED BY <1>1, <1>2, <1>3, <1>4

(* Types survive the replies to the forms.                                 *)
LEMMA TypedSubmitted ==
    ASSUME PageTyped, NEW c \in Calls, Submitted(c)
    PROVE  PageTyped'
<1> DEFINE q == call[c]
<1>1. q \in Request
  BY CallsTyped
<1>2. PICK text \in Texts : Notify(c, text) /\ q.kind \in Forms
  BY DEF Submitted, Replied, TransferText, OrderText, Texts, Forms
<1> DEFINE n == [text |-> text, key |-> q.key, body |-> q.body, number |-> q.number,
                 status |-> q.reply.status]
<1>3. n \in Notice
  BY <1>1 DEF Notice, Request, Reply
<1>4. form' \in [Forms -> [attempt : Nat, key : Nat, notice : Notice]]
  <2>1. CASE form' = form
    BY <2>1 DEF PageTyped
  <2>2. CASE form' = [form EXCEPT ![q.kind].notice = n]
    BY <1>2, <1>3, <2>2 DEF PageTyped
  <2>3. CASE form' = [form EXCEPT ![q.kind] = NextAttempt(q.kind, n)]
    BY <1>2, <1>3, <2>3, NextAttemptTyped DEF PageTyped
  <2> QED BY <1>2, <2>1, <2>2, <2>3 DEF Notify
<1> QED BY <1>4, EndsTyped DEF Submitted, Replied, PageTyped, serverVars

(* The sign-out request.                                                   *)
LEMMA SignOutTyped ==
    ASSUME PageTyped
    PROVE  /\ SignOutCall \in Request /\ SignOutCall.kind = "logout"
           /\ SignOutCall.captured = stored /\ SignOutCall.reply = Lost /\ ~SignOutCall.again
           /\ SignOutCall.body = "none"
<1>1. Asking("logout", access) \in Request /\ Asking("logout", access).kind = "logout"
      /\ Asking("logout", access).reply = Lost /\ ~Asking("logout", access).again
      /\ Asking("logout", access).body = "none"
  BY AskingTyped DEF PageTyped, Kinds
<1> QED BY <1>1 DEF PageTyped, SignOutCall, Request

(* The submission of a form.                                               *)
LEMMA SubmissionTyped ==
    ASSUME PageTyped, NEW f \in Forms, NEW body \in Bodies(f)
    PROVE  /\ Submission(f, body) \in Request
           /\ Submission(f, body).kind = f /\ Submission(f, body).reply = Lost
           /\ ~Submission(f, body).again /\ Submission(f, body).body = body
           /\ Submission(f, body).key = AttemptKey(f)
           /\ Submission(f, body).attempt = form[f].attempt
           /\ AttemptKey(f) \in Nat /\ body \in BodyNames /\ body # "signing in"
<1>1. AttemptKey(f) \in Nat /\ form[f].attempt \in Nat
  BY DEF AttemptKey, PageTyped, Budgets
<1>2. /\ Asking(f, access) \in Request /\ Asking(f, access).kind = f
      /\ Asking(f, access).reply = Lost /\ ~Asking(f, access).again
  BY AskingTyped, Vocabulary DEF PageTyped
<1>3. body \in BodyNames /\ body # "signing in"
  BY DEF Bodies, BodyNames
<1> QED BY <1>1, <1>2, <1>3 DEF Submission, Request

(* Every request the user makes is a new one.                              *)
NewRequest(c, q) ==
    /\ q.reply = Lost /\ ~q.again /\ q.kind # "none" /\ q.body # "signing in"
    /\ Asks(c, q)

(* A request that is not a submission moves no money and leaves the forms. *)
LEMMA AskedQuietly ==
    ASSUME PageTyped, NEW c \in Calls,
           (\E kind \in {"query", "me"} : Fetch(c, kind)) \/ SignIn(c) \/ SignOut(c)
    PROVE  \E q \in Request : /\ NewRequest(c, q) /\ q.kind \in {"query", "me", "login", "logout"}
                              /\ q.kind = "login" => SignIn(c)
                              /\ q.kind = "logout" => leaving' # {}
<1>1. access \in Token /\ Blank \in Token
  BY Vocabulary DEF PageTyped
<1>2. ASSUME NEW kind \in {"query", "me"}, Fetch(c, kind)
      PROVE  \E q \in Request : NewRequest(c, q) /\ q.kind = kind
  <2>1. /\ Asking(kind, access) \in Request /\ Asking(kind, access).reply = Lost
        /\ ~Asking(kind, access).again /\ Asking(kind, access).kind = kind
        /\ Asking(kind, access).body = "none"
    BY <1>1, AskingTyped DEF Kinds
  <2> QED BY <1>2, <2>1 DEF Fetch, NewRequest
<1>3. CASE SignIn(c)
  <2>1. /\ Asking("login", Blank) \in Request /\ NewRequest(c, Asking("login", Blank))
        /\ Asking("login", Blank).kind = "login"
    BY <1>1, <1>3, AskingTyped DEF SignIn, Kinds, NewRequest
  <2> QED BY <1>3, <2>1
<1>4. CASE SignOut(c)
  <2>1. SignOutCall \in Request /\ NewRequest(c, SignOutCall) /\ SignOutCall.kind = "logout"
    BY <1>4, SignOutTyped DEF SignOut, NewRequest
  <2>2. leaving' # {}
    BY <1>4 DEF SignOut
  <2> QED BY <2>1, <2>2
<1>5. CASE \E kind \in {"query", "me"} : Fetch(c, kind)
  BY <1>2, <1>5
<1> QED BY <1>3, <1>4, <1>5

(* A submission takes or makes the key of its form.                        *)
LEMMA Submitting ==
    ASSUME PageTyped, NEW c \in Calls, NEW f \in Forms, NEW body \in Bodies(f), Submit(c, f, body)
    PROVE  NewRequest(c, Submission(f, body)) /\ Submission(f, body) \in Request
<1> DEFINE q == Submission(f, body)
<1>1. /\ q \in Request /\ q.kind = f /\ q.reply = Lost /\ ~q.again /\ q.body # "signing in"
  BY SubmissionTyped
<1>2. Asks(c, q)
  BY DEF Submit
<1> QED BY <1>1, <1>2 DEF Forms, NewRequest

(* Whatever the user asks is a new request.                                *)
LEMMA AskedRequest ==
    ASSUME PageTyped, NEW c \in Calls, Asked(c)
    PROVE  \E q \in Request : NewRequest(c, q)
  BY AskedQuietly, Submitting DEF Asked

(* It takes an idle slot and one of the calls that are left.               *)
LEMMA NewRequestStarts ==
    ASSUME PageTyped, NEW c \in Calls, NEW q \in Request, NewRequest(c, q)
    PROVE  /\ call[c].step = "idle" /\ call' = [call EXCEPT ![c] = Numbered(q)]
           /\ call'[c] = Numbered(q) /\ Numbered(q).reply = Lost
           /\ \A d \in Calls \ {c} : call'[d] = call[d]
           /\ Spend("calls")
           /\ UNCHANGED <<serverVars, access, stored, user, refresh, presented, disturbed, load>>
  BY Starting, NumberedTyped DEF NewRequest, Asks, Starts

(* Types survive what the user asks.                                       *)
LEMMA TypedAsked ==
    ASSUME PageTyped, NEW c \in Calls, Asked(c)
    PROVE  PageTyped'
<1>1. ASSUME NEW q \in Request, Asks(c, q)
      PROVE  call' \in [Calls -> Request] /\ left' \in [Budgets -> Nat]
  BY <1>1, Starting, Spent DEF Asks, Budgets
<1>2. ASSUME NEW kind \in {"query", "me"}, Fetch(c, kind) PROVE PageTyped'
  <2>1. Asking(kind, access) \in Request
    BY AskingTyped DEF PageTyped, Kinds
  <2> QED BY <1>1, <1>2, <2>1 DEF Fetch, Asks, PageTyped, serverVars
<1>3. CASE SignIn(c)
  <2>1. Asking("login", Blank) \in Request
    BY AskingTyped, Vocabulary DEF Kinds
  <2> QED BY <1>1, <1>3, <2>1 DEF SignIn, Asks, PageTyped, serverVars
<1>4. CASE SignOut(c)
  BY <1>1, <1>4, SignOutTyped DEF SignOut, Asks, PageTyped, serverVars
<1>5. ASSUME NEW f \in Forms, NEW body \in Bodies(f), Submit(c, f, body) PROVE PageTyped'
  <2>1. [form EXCEPT ![f].key = AttemptKey(f), ![f].notice = NoNotice]
          \in [Forms -> [attempt : Nat, key : Nat, notice : Notice]]
    <3>1. AttemptKey(f) \in Nat
      BY SubmissionTyped
    <3> QED BY <3>1, Vocabulary DEF PageTyped
  <2> QED BY <1>1, <1>5, <2>1, SubmissionTyped DEF Submit, Asks, PageTyped, serverVars
<1> QED BY <1>2, <1>3, <1>4, <1>5 DEF Asked

(* Types survive losses, reloads, late service and other devices.          *)
LEMMA TypedWorld ==
    ASSUME PageTyped, World
    PROVE  PageTyped'
<1>1. ASSUME NEW c \in Calls, Lose(c) PROVE PageTyped'
  <2> Lost \in Reply /\ call[c] \in Request
    BY CallsTyped, Replies
  <2>1. [call[c] EXCEPT !.step = "answered", !.reply = Lost] \in Request
    BY DEF Request
  <2>2. call' \in [Calls -> Request]
    BY <1>1, <2>1 DEF Lose, PageTyped
  <2>3. limbo' \subseteq Request
    BY <1>1, CallsTyped DEF Lose, PageTyped
  <2> QED BY <1>1, <2>2, <2>3, Spent DEF Lose, PageTyped, Budgets
<1>2. CASE LoseRefresh
  <2>1. refresh' \in [state : {"none", "sent", "answered"}, token : Token, reply : Reply]
    BY <1>2, Replies DEF LoseRefresh, PageTyped
  <2> QED BY <1>2, <2>1, Spent DEF LoseRefresh, PageTyped, serverVars, Budgets
<1>3. CASE Reload
  <2>1. call' \in [Calls -> Request]
    <3>1. LoadingUser(Blank) \in Request
      BY LoadingTyped, Vocabulary
    <3> QED BY <1>3, <3>1, NoCallTyped DEF Reload, PageTyped
  <2>2. limbo' \subseteq Request
    BY <1>3, CallsTyped DEF Reload, PageTyped
  <2>3. refresh' \in [state : {"none", "sent", "answered"}, token : Token, reply : Reply]
    BY <1>3, Replies, Vocabulary DEF Reload
  <2>4. presented' \in Seq(Token) /\ disturbed' \in BOOLEAN
    BY <1>3, EmptySeq DEF Reload
  <2> QED BY <1>3, <2>1, <2>2, <2>3, <2>4, Spent, UnmountedTyped, Vocabulary
          DEF Reload, PageTyped, Budgets
<1>4. CASE ServeLate
  <2>1. PICK q \in limbo : limbo' = limbo \ {q} /\ \E a \in Answers(q) : Commit(a)
    BY <1>4 DEF ServeLate
  <2>2. PICK a \in Answers(q) : Commit(a)
    BY <2>1
  <2>3. CommittedTyped(a)
    BY AnswerTyped DEF PageTyped
  <2> QED BY <1>4, <2>1, <2>2, <2>3 DEF ServeLate, PageTyped, pageVars, Commit, CommittedTyped
<1>5. ASSUME NEW s \in DOMAIN server, ExpireAccess(s) PROVE PageTyped'
  <2>1. [server[s] EXCEPT !.expired = server[s].newest] \in Session
    <3>1. server[s] \in Session
      BY LenProperties, ElementOfSeq DEF PageTyped
    <3> QED BY <3>1 DEF Session
  <2>2. Patched(server', s, [server[s] EXCEPT !.expired = server[s].newest])
    BY <1>5, <2>1, Patching DEF ExpireAccess
  <2> QED BY <1>5, <2>2, Spent DEF ExpireAccess, PageTyped, pageVars, Patched, Budgets
<1>6. ASSUME NEW s \in DOMAIN server, RevokeElsewhere(s) PROVE PageTyped'
  BY <1>6, Revoking, Spent DEF RevokeElsewhere, PageTyped, pageVars, Budgets
<1>7. ASSUME NEW k \in DOMAIN bound, Resolve(k) PROVE PageTyped'
  <2>1. PICK status \in Statuses : bound' = [bound EXCEPT ![k].status = status]
    BY <1>7 DEF Resolve, Statuses
  <2>2. bound' \in [DOMAIN bound' -> RowType] /\ DOMAIN bound' = DOMAIN bound
    BY <2>1 DEF PageTyped, RowType
  <2> QED BY <1>7, <2>2 DEF Resolve, PageTyped, pageVars
<1> QED BY <1>1, <1>2, <1>3, <1>4, <1>5, <1>6, <1>7 DEF World, PageTyped

(* Types survive every step of the page and its stream.                    *)
LEMMA TypedStep ==
    ASSUME PageTyped, TokensIssued, [Next]_vars
    PROVE  PageTyped'
<1>1. CASE \E c \in Calls : Progress(c)
  BY <1>1, TypedServe, TypedRefreshSteps, TypedReplies, TypedSubmitted DEF Progress
<1>2. CASE \E c \in Calls : Asked(c)
  BY <1>2, TypedAsked
<1>3. CASE ServeRefresh \/ Refreshed \/ RefreshFailed
  BY <1>3, TypedServeRefresh, TypedRefreshSteps
<1>4. CASE SignOutLocally
  BY <1>4, UnmountedTyped, Vocabulary DEF SignOutLocally, ClearSession, NoUser, PageTyped, serverVars
<1>5. CASE World
  BY <1>5, TypedWorld
<1>6. CASE LostSessionSignsOut
  <2>1. [SignOutCall EXCEPT !.step = "sent"] \in Request
    BY SignOutTyped DEF Request
  <2> QED BY <1>6, <2>1 DEF LostSessionSignsOut, PageTyped, serverVars
<1>7. CASE SocketMoves
  BY <1>7, Spent DEF SocketMoves, Spends, PageTyped, serverVars, pageVars, Budgets
<1> QED BY <1>1, <1>2, <1>3, <1>4, <1>5, <1>6, <1>7, StepsOfThePage DEF ClientNext, PageTyped

-----------------------------------------------------------------------------
(* A token that was issued stays issued.                                   *)
LEMMA StillIssued ==
    ASSUME PageTyped, NEW sv \in Seq(Session), Grown(sv), NEW t \in Token, Issued(t)
    PROVE  IssuedBy(sv, t)
<1>1. CASE t.session \in DOMAIN server /\ t.serial \in 1..server[t.session].newest
  <2>1. server[t.session] \in Session /\ sv[t.session] \in Session
    BY <1>1, LenProperties, ElementOfSeq DEF PageTyped, Grown
  <2> QED BY <1>1, <2>1 DEF Grown, IssuedBy, Session, Token
<1> QED BY <1>1 DEF Issued, IssuedBy

(* An answer forgets no session and takes no serial back.                  *)
LEMMA AnswerGrows ==
    ASSUME PageTyped, NEW q \in Request, NEW a \in Answers(q)
    PROVE  Grown(a.server) /\ IssuedBy(a.server, a.reply.pair)
<1>0. \A s \in DOMAIN server : server[s].newest \in Nat
  BY SessionsTyped
<1>1. CASE a.server = server /\ a.reply.pair = Blank
  BY <1>0, <1>1 DEF Grown, IssuedBy
<1>2. CASE a.server = Append(server, NewSession) /\ a.reply.pair = Pair(Len(server) + 1, 1)
  <2> DEFINE n == Len(server) + 1
             sv == Append(server, NewSession)
  <2>1. NewSession \in Session /\ NewSession.newest = 1
    BY Vocabulary DEF NewSession
  <2>2. /\ sv \in Seq(Session) /\ Len(sv) = n /\ sv[n] = NewSession
        /\ \A s \in 1..Len(server) : sv[s] = server[s]
    BY <2>1, AppendProperties DEF PageTyped
  <2>3. DOMAIN sv = 1..n /\ DOMAIN server = 1..Len(server) /\ Len(server) \in Nat
    BY <2>2, LenProperties DEF PageTyped
  <2> QED BY <1>0, <1>2, <2>1, <2>2, <2>3 DEF Grown, IssuedBy, Pair
<1>3. CASE a.server = [server EXCEPT ![q.captured.session].revoked = TRUE] /\ a.reply.pair = Blank
  BY <1>0, <1>3, Revoking DEF Grown, IssuedBy
<1> QED BY <1>1, <1>2, <1>3, Answered

(* Nor does any step.                                                      *)
LEMMA ServerGrows ==
    ASSUME PageTyped, TokensIssued, [Next]_vars
    PROVE  Grown(server')
<1>0. \A s \in DOMAIN server : server[s] \in Session
  BY SessionsTyped
<1>1. CASE UNCHANGED server
  BY <1>0, <1>1 DEF Grown, Session
<1>2. ASSUME NEW c \in Calls, Serve(c) PROVE Grown(server')
  BY <1>2, CallsTyped, AnswerGrows DEF Serve, Commit
<1>3. CASE ServeRefresh
  <2> DEFINE s == refresh.token.session
  <2>1. RefreshServed(s)
    BY <1>3, TypedServeRefresh
  <2>2. DOMAIN server' = DOMAIN server /\ server[s].newest <= server'[s].newest
    BY <1>0, <2>1 DEF RefreshServed, Patched, Session
  <2>3. \A r \in DOMAIN server : r # s => server'[r] = server[r]
    BY <2>1 DEF RefreshServed, Patched
  <2> QED BY <1>0, <2>2, <2>3 DEF Grown, Session
<1>4. CASE ServeLate
  <2>1. PICK q \in limbo : \E a \in Answers(q) : Commit(a)
    BY <1>4 DEF ServeLate
  <2> QED BY <2>1, AnswerGrows DEF Commit, PageTyped
<1>5. ASSUME NEW s \in DOMAIN server, ExpireAccess(s) PROVE Grown(server')
  BY <1>0, <1>5 DEF ExpireAccess, Grown, Session, PageTyped
<1>6. ASSUME NEW s \in DOMAIN server, RevokeElsewhere(s) PROVE Grown(server')
  BY <1>0, <1>6, Revoking DEF RevokeElsewhere, Grown, Session
<1>7. ASSUME NEW c \in Calls, Progress(c), ~Serve(c) PROVE UNCHANGED server
  BY <1>7 DEF Progress, Unauthorized, ResendLost, QueryReplied, UserLoaded, SignedIn, SignedOut,
              Submitted, Replied, serverVars
<1>8. ASSUME NEW c \in Calls, Asked(c) PROVE UNCHANGED server
  BY <1>8 DEF Asked, Fetch, SignIn, SignOut, Submit, Asks, serverVars
<1>9. CASE \/ Refreshed \/ RefreshFailed \/ SignOutLocally \/ LoseRefresh \/ Reload \/ SocketMoves
           \/ LostSessionSignsOut \/ (\E c \in Calls : Lose(c)) \/ (\E k \in DOMAIN bound : Resolve(k))
  BY <1>1, <1>9 DEF Refreshed, RefreshFailed, SignOutLocally, LoseRefresh, Reload, SocketMoves,
              LostSessionSignsOut, Lose, Resolve, serverVars
<1> QED BY <1>1, <1>2, <1>3, <1>4, <1>5, <1>6, <1>7, <1>8, <1>9, StepsOfThePage
        DEF ClientNext, World, PageTyped

(* The tokens of replies are tokens.                                       *)
LEMMA TokensTyped ==
    ASSUME PageTyped
    PROVE  /\ access \in Token /\ stored \in Token /\ refresh.token \in Token
           /\ refresh.reply \in Reply /\ refresh.reply.pair \in Token
           /\ \A c \in Calls : call[c].reply \in Reply /\ call[c].reply.pair \in Token
           /\ \A n \in DOMAIN presented : presented[n] \in Token
<1>1. refresh.reply \in Reply /\ refresh.reply.pair \in Token
  BY DEF PageTyped, Reply
<1>2. ASSUME NEW c \in Calls PROVE call[c].reply \in Reply /\ call[c].reply.pair \in Token
  BY CallsTyped DEF Request, Reply
<1>3. \A n \in DOMAIN presented : presented[n] \in Token
  BY LenProperties, ElementOfSeq DEF PageTyped
<1> QED BY <1>1, <1>2, <1>3 DEF PageTyped

(* Every step keeps TokensIssued.                                          *)
LEMMA IssuedStep ==
    ASSUME PageTyped, TokensIssued, [Next]_vars
    PROVE  TokensIssued'
<1> DEFINE Fine(t) == IssuedBy(server', t)
<1>1. Grown(server') /\ server' \in Seq(Session)
  BY ServerGrows, TypedStep DEF PageTyped
<1>2. \A t \in Token : Issued(t) => Fine(t)
  BY <1>1, StillIssued
<1>3. /\ Fine(access) /\ Fine(stored) /\ Fine(refresh.token) /\ Fine(refresh.reply.pair)
      /\ \A c \in Calls : Fine(call[c].reply.pair)
      /\ \A n \in DOMAIN presented : Fine(presented[n])
  BY <1>2, TokensTyped DEF TokensIssued
<1>4. Fine(Blank)
  BY DEF IssuedBy
<1>5. TokensIssued' <=>
        /\ Fine(access') /\ Fine(stored') /\ Fine(refresh'.token) /\ Fine(refresh'.reply.pair)
        /\ \A c \in Calls : Fine(call'[c].reply.pair)
        /\ \A n \in DOMAIN presented' : Fine(presented'[n]) /\ presented'[n] # Blank
        /\ refresh'.state # "none" => refresh'.token # Blank
  BY DEF TokensIssued, Issued
<1> HIDE DEF Fine
<1>6. \A n \in DOMAIN presented : presented[n] # Blank
  BY DEF TokensIssued
<1>7. refresh.state # "none" => refresh.token # Blank
  BY DEF TokensIssued
<1>8. Lost.pair = Blank /\ NoCall.reply.pair = Blank
  BY Replies, NoCallTyped
<1> DEFINE RestKept == UNCHANGED <<access, stored, refresh, presented>>
<1>9. ASSUME RestKept, \A c \in Calls : Fine(call'[c].reply.pair) PROVE TokensIssued'
  BY <1>3, <1>5, <1>6, <1>7, <1>9
<1>10. ASSUME NEW S PROVE \A c \in Calls : Fine(Ends(S)[c].reply.pair)
  BY <1>3, <1>4, <1>8, EndsTyped
<1>11. ASSUME NEW S, Expire(S), UNCHANGED presented, refresh' = refresh \/
              refresh' = [refresh EXCEPT !.state = "none", !.token = Blank, !.reply = Lost]
       PROVE  TokensIssued'
  <2>1. Fine(refresh'.token) /\ Fine(refresh'.reply.pair)
        /\ (refresh'.state # "none" => refresh'.token # Blank)
    BY <1>3, <1>4, <1>7, <1>8, <1>11 DEF PageTyped
  <2> QED BY <1>3, <1>4, <1>5, <1>6, <1>10, <1>11, <2>1 DEF Expire, ClearSession
<1>12. ASSUME NEW c \in Calls, Serve(c) PROVE TokensIssued'
  <2>1. PICK a \in Answers(call[c]) :
            Commit(a) /\ call' = [call EXCEPT ![c].step = "answered", ![c].reply = a.reply]
    BY <1>12 DEF Serve
  <2>2. Fine(a.reply.pair)
    BY <2>1, AnswerGrows, CallsTyped DEF Commit, Fine
  <2>3. \A d \in Calls : call'[d].reply.pair = IF d = c THEN a.reply.pair ELSE call[d].reply.pair
    BY <2>1 DEF PageTyped
  <2> QED BY <1>3, <1>9, <1>12, <2>2, <2>3 DEF Serve
<1>13. ASSUME NEW c \in Calls, Unauthorized(c) PROVE TokensIssued'
  <2>1. CASE Expire({c}) /\ UNCHANGED <<refresh, presented>>
    BY <1>11, <2>1
  <2>2. CASE RefreshOnce(c) /\ UNCHANGED <<access, stored, user, form>>
             /\ (refresh.state # "none" \/ stored # Blank)
    <3>1. \A d \in Calls : call'[d].reply.pair = call[d].reply.pair
      BY <2>2 DEF RefreshOnce, PageTyped
    <3>2. CASE UNCHANGED <<refresh, presented>>
      BY <1>3, <1>9, <2>2, <3>1, <3>2
    <3>3. CASE /\ refresh.state = "none"
               /\ refresh' = [state |-> "sent", token |-> stored, reply |-> Lost]
               /\ presented' = Append(presented, stored)
      <4>1. Fine(refresh'.token) /\ Fine(refresh'.reply.pair) /\ refresh'.token # Blank
        BY <1>3, <1>4, <1>8, <2>2, <3>3
      <4>2. \A n \in DOMAIN presented' : \/ n \in DOMAIN presented /\ presented'[n] = presented[n]
                                         \/ presented'[n] = stored
        BY <3>3, AppendProperties, LenProperties DEF PageTyped
      <4> QED BY <1>3, <1>5, <1>6, <2>2, <3>1, <3>3, <4>1, <4>2
    <3> QED BY <2>2, <3>2, <3>3 DEF RefreshOnce
  <2> QED BY <1>13, <2>1, <2>2 DEF Unauthorized
<1>14. CASE ServeRefresh
  <2> DEFINE s == refresh.token.session
  <2>1. RefreshServed(s)
    BY <1>14, TypedServeRefresh
  <2>2. Fine(refresh'.reply.pair)
    <3>1. s \in DOMAIN server /\ DOMAIN server' = DOMAIN server /\ server[s].newest \in Nat
      BY <2>1, SessionsTyped DEF RefreshServed, Patched
    <3>2. CASE /\ refresh'.reply.pair = Pair(s, server[s].newest + 1)
               /\ server'[s].newest = server[s].newest + 1
      BY <3>1, <3>2 DEF Fine, IssuedBy, Pair
    <3> QED BY <1>4, <2>1, <3>2 DEF RefreshServed
  <2>3. refresh'.token # Blank
    BY <1>7, <1>14, <2>1 DEF RefreshServed, ServeRefresh
  <2> QED BY <1>3, <1>5, <1>6, <1>14, <2>1, <2>2, <2>3 DEF RefreshServed, ServeRefresh
<1>15. CASE Refreshed
  <2>1. \A c \in Calls : call'[c].reply.pair = call[c].reply.pair
    <3>1. \A q \in Request, t \in Token : Again(q, t).reply = q.reply
      BY DEF Request, Again
    <3> QED BY <1>15, <3>1, ResentTyped, TokensTyped, CallsTyped DEF Refreshed
  <2>2. refresh'.token = Blank /\ refresh'.reply = Lost /\ refresh'.state = "none"
    BY <1>15 DEF Refreshed, PageTyped
  <2> QED BY <1>3, <1>4, <1>5, <1>6, <1>8, <1>15, <2>1, <2>2 DEF Refreshed, SetTokens
<1>16. CASE RefreshFailed
  BY <1>11, <1>16 DEF RefreshFailed
<1>17. ASSUME NEW c \in Calls, ResendLost(c) PROVE TokensIssued'
  BY <1>11, <1>17 DEF ResendLost
<1>18. ASSUME NEW c \in Calls, QueryReplied(c) \/ UserLoaded(c) \/ Submitted(c)
       PROVE  TokensIssued'
  BY <1>9, <1>10, <1>18 DEF QueryReplied, UserLoaded, Submitted, Replied
<1>19. ASSUME NEW c \in Calls, SignedIn(c) PROVE TokensIssued'
  <2>1. \A d \in Calls : Fine(call'[d].reply.pair)
    <3>1. CASE call' = Ends({c})
      BY <1>10, <3>1
    <3>2. CASE call' = [call EXCEPT ![c] = LoadingUser(call[c].reply.pair)]
      BY <1>3, <1>4, <1>8, <3>2, LoadingTyped, TokensTyped DEF PageTyped
    <3> QED BY <1>19, <3>1, <3>2 DEF SignedIn
  <2>2. Fine(access') /\ Fine(stored')
    BY <1>3, <1>19 DEF SignedIn, SetTokens
  <2> QED BY <1>3, <1>5, <1>6, <1>7, <1>19, <2>1, <2>2 DEF SignedIn, Replied
<1>20. ASSUME NEW c \in Calls, SignedOut(c) PROVE TokensIssued'
  BY <1>3, <1>4, <1>5, <1>6, <1>7, <1>10, <1>20 DEF SignedOut, Replied, ClearSession
<1>21. ASSUME NEW c \in Calls, Asked(c) PROVE TokensIssued'
  <2>1. \A d \in Calls : call'[d].reply.pair \in {Blank, call[d].reply.pair}
    <3>1. PICK q \in Request : NewRequest(c, q)
      BY <1>21, AskedRequest
    <3> QED BY <1>8, <3>1, NewRequestStarts
  <2> QED BY <1>3, <1>4, <1>9, <1>21, <2>1 DEF Asked, Fetch, SignIn, SignOut, Submit, Asks
<1>22. CASE SignOutLocally
  BY <1>3, <1>4, <1>5, <1>6, <1>7, <1>22 DEF SignOutLocally, ClearSession
<1>23. ASSUME NEW c \in Calls, Lose(c) PROVE TokensIssued'
  <2>1. \A d \in Calls : call'[d].reply.pair \in {Blank, call[d].reply.pair}
    BY <1>8, <1>23 DEF Lose, PageTyped
  <2> QED BY <1>3, <1>4, <1>9, <1>23, <2>1 DEF Lose
<1>24. CASE LoseRefresh
  <2>1. refresh'.token = refresh.token /\ refresh'.reply = Lost /\ refresh.state # "none"
    BY <1>24 DEF LoseRefresh, PageTyped
  <2> QED BY <1>3, <1>4, <1>5, <1>6, <1>7, <1>8, <1>24, <2>1 DEF LoseRefresh
<1>25. CASE Reload
  <2>1. \A d \in Calls : call'[d].reply.pair = Blank
    BY <1>8, <1>25, NoCallTyped, LoadingTyped, Vocabulary DEF Reload, PageTyped
  <2> QED BY <1>3, <1>4, <1>5, <1>8, <1>25, <2>1 DEF Reload
<1>26. CASE ServeLate \/ SocketMoves \/ \E k \in DOMAIN bound : Resolve(k)
  BY <1>3, <1>9, <1>26 DEF ServeLate, SocketMoves, Resolve, pageVars
<1>27. CASE \E s \in DOMAIN server : ExpireAccess(s) \/ RevokeElsewhere(s)
  BY <1>3, <1>9, <1>27 DEF ExpireAccess, RevokeElsewhere, pageVars
<1>28. CASE LostSessionSignsOut
  <2>1. \A d \in Calls : call'[d].reply.pair \in {Blank, call[d].reply.pair}
    BY <1>8, <1>28, SignOutTyped DEF LostSessionSignsOut, PageTyped, Request
  <2> QED BY <1>3, <1>4, <1>9, <1>28, <2>1 DEF LostSessionSignsOut
<1> QED BY <1>12, <1>13, <1>14, <1>15, <1>16, <1>17, <1>18, <1>19, <1>20, <1>21, <1>22, <1>23,
           <1>24, <1>25, <1>26, <1>27, <1>28, StepsOfThePage
        DEF ClientNext, Progress, World, PageTyped

-----------------------------------------------------------------------------
(* What a step makes of a call.                                            *)
Waits(q, r) ==
    /\ q.step = "answered" /\ q.reply.code = "401" /\ q.kind # "login" /\ ~q.again
    /\ r = [q EXCEPT !.step = "waiting"]
Resends(q, r) == q.step = "waiting" /\ \E t \in Token : r = Again(q, t)
LoadsUser(r) == \E t \in Token : r = LoadingUser(t)
QuietCall(q, r) == r = q \/ r = NoCall \/ Waits(q, r) \/ Resends(q, r) \/ LoadsUser(r)

(* What such a step leaves of a call's fields.                             *)
LEMMA QuietFields ==
    ASSUME NEW q \in Request, NEW r, QuietCall(q, r)
    PROVE  /\ r.reply \in {q.reply, Lost} /\ r.step \in {q.step, "idle", "waiting", "sent"}
           /\ r.kind \in {q.kind, "none", "me"}
           /\ r.kind \notin {"none", "me"} =>
                 /\ r.reply = q.reply
                 /\ r.key = q.key /\ r.attempt = q.attempt /\ r.body = q.body
                 /\ r.number = q.number /\ r.captured = q.captured
                 /\ r.step = "answered" => r = q
                 /\ Pending(r) => Pending(q)
                 /\ GaveUp(q) => r = q
<1>1. CASE r = q \/ r = NoCall
  BY <1>1, NoCallTyped DEF Pending
<1>2. CASE Waits(q, r)
  BY <1>2 DEF Waits, Request, Pending, GaveUp
<1>3. CASE Resends(q, r)
  BY <1>3 DEF Resends, Again, Request, Pending, GaveUp
<1>4. CASE LoadsUser(r)
  BY <1>4, LoadingTyped DEF LoadsUser
<1> QED BY <1>1, <1>2, <1>3, <1>4 DEF QuietCall

(* A form moves on to its next attempts, and an attempt keeps its key.     *)
FormsMoveOn ==
    \A f \in Forms :
        /\ form'[f].attempt >= form[f].attempt
        /\ form'[f].attempt = form[f].attempt => form'[f].key = form[f].key
        /\ form'[f].key \in {0, form[f].key}

NoticesKept == \A f \in Forms : form'[f].notice \in {form[f].notice, NoNotice}

(* The steps that serve nothing, ask nothing and lose nothing.             *)
QuietStep ==
    /\ UNCHANGED <<limbo, bound>>
    /\ left'["calls"] <= left["calls"]
    /\ \A c \in Calls : \/ QuietCall(call[c], call'[c])
                        \/ /\ call[c].step = "idle" /\ call'[c].kind \notin Forms \cup {"none"}
                           /\ call'[c].step = "sent" /\ call'[c].reply = Lost
                           /\ call'[c].kind = "login" => SignIn(c)
                           /\ call'[c].kind = "logout" => leaving' # {}
    /\ FormsMoveOn
    /\ NoticesKept \/ \E c \in Calls : Submitted(c)

(* Unmounting moves every form on.                                         *)
LEMMA UnmountedMovesOn ==
    ASSUME PageTyped, form' = Unmounted
    PROVE  FormsMoveOn /\ NoticesKept
  BY DEF FormsMoveOn, NoticesKept, Unmounted, NextAttempt, PageTyped

(* So does a reply that ends an attempt.                                   *)
LEMMA SubmittedMovesOn ==
    ASSUME PageTyped, NEW c \in Calls, Submitted(c)
    PROVE  FormsMoveOn
<1> DEFINE q == call[c]
<1>1. PICK text \in Texts : Notify(c, text) /\ q.kind \in Forms
  BY DEF Submitted, Replied, TransferText, OrderText, Texts, Forms
<1> DEFINE n == [text |-> text, key |-> q.key, body |-> q.body, number |-> q.number,
                 status |-> q.reply.status]
<1>2. CASE form' = form
  BY <1>2 DEF FormsMoveOn, PageTyped
<1>3. CASE form' = [form EXCEPT ![q.kind].notice = n]
  BY <1>3 DEF FormsMoveOn, PageTyped
<1>4. CASE form' = [form EXCEPT ![q.kind] = NextAttempt(q.kind, n)]
  BY <1>4 DEF FormsMoveOn, PageTyped, NextAttempt
<1> QED BY <1>1, <1>2, <1>3, <1>4 DEF Notify

(* Every step is quiet or one of those.                                    *)
LEMMA QuietSteps ==
    ASSUME PageTyped, [Next]_vars
    PROVE  \/ QuietStep
           \/ \E c \in Calls : Serve(c) \/ Lose(c)
           \/ ServeLate \/ Reload
           \/ \E c \in Calls, f \in Forms : \E body \in Bodies(f) : Submit(c, f, body)
           \/ \E k \in DOMAIN bound : Resolve(k)
<1>1. \A b \in Budgets : left[b] \in Nat
  BY DEF PageTyped
<1>2. UNCHANGED form => FormsMoveOn /\ NoticesKept
  BY DEF FormsMoveOn, NoticesKept, PageTyped
<1>3. UNCHANGED left => left'["calls"] <= left["calls"]
  BY <1>1 DEF Budgets
<1>4. \A b \in Budgets : Spend(b) => left'["calls"] <= left["calls"]
  BY <1>1, Spent DEF Budgets
<1>5. \A c \in Calls : call[c] \in Request
  BY CallsTyped
<1>6. UNCHANGED call => \A c \in Calls : QuietCall(call[c], call'[c])
  BY DEF QuietCall
<1>7. \A S : call' = Ends(S) => \A c \in Calls : QuietCall(call[c], call'[c])
  BY EndsTyped DEF QuietCall
<1>8. \A S : Expire(S) => FormsMoveOn /\ NoticesKept /\ \A c \in Calls : QuietCall(call[c], call'[c])
  BY <1>7, UnmountedMovesOn DEF Expire, NoUser
<1>9. ASSUME NEW c \in Calls, Unauthorized(c) PROVE QuietStep
  <2>1. CASE Expire({c})
    BY <1>3, <1>8, <1>9, <2>1 DEF QuietStep, Unauthorized, serverVars
  <2>2. CASE RefreshOnce(c) /\ UNCHANGED <<access, stored, user, form>>
    <3>1. Waits(call[c], call'[c]) /\ \A d \in Calls \ {c} : call'[d] = call[d]
      BY <1>9, <2>2 DEF RefreshOnce, Unauthorized, Waits, PageTyped
    <3> QED BY <1>2, <1>3, <1>9, <2>2, <3>1 DEF QuietStep, QuietCall, Unauthorized, serverVars
  <2> QED BY <1>9, <2>1, <2>2 DEF Unauthorized
<1>10. CASE Refreshed
  <2>1. \A c \in Calls : call'[c] = call[c] \/ Resends(call[c], call'[c])
    BY <1>10, ResentTyped, TokensTyped DEF Refreshed, Waiting, Resends, PageTyped
  <2> QED BY <1>2, <1>3, <1>10, <2>1 DEF QuietStep, QuietCall, Refreshed, serverVars
<1>11. CASE RefreshFailed \/ \E c \in Calls : ResendLost(c)
  BY <1>3, <1>8, <1>11 DEF QuietStep, RefreshFailed, ResendLost, serverVars
<1>12. ASSUME NEW c \in Calls, QueryReplied(c) \/ UserLoaded(c) PROVE QuietStep
  BY <1>2, <1>3, <1>7, <1>12 DEF QuietStep, QueryReplied, UserLoaded, Replied, serverVars
<1>13. ASSUME NEW c \in Calls, SignedIn(c) PROVE QuietStep
  <2>1. call' = Ends({c}) \/ call' = [call EXCEPT ![c] = LoadingUser(call[c].reply.pair)]
    BY <1>13 DEF SignedIn
  <2>2. \A d \in Calls : QuietCall(call[d], call'[d])
    BY <1>7, <2>1, TokensTyped DEF QuietCall, LoadsUser, PageTyped
  <2> QED BY <1>2, <1>3, <1>13, <2>2 DEF QuietStep, SignedIn, Replied, serverVars
<1>14. ASSUME NEW c \in Calls, SignedOut(c) PROVE QuietStep
  BY <1>3, <1>7, <1>14, UnmountedMovesOn DEF QuietStep, SignedOut, Replied, NoUser, serverVars
<1>15. ASSUME NEW c \in Calls, Submitted(c) PROVE QuietStep
  <2>1. call' = Ends({c}) /\ UNCHANGED <<serverVars, left>>
    BY <1>15 DEF Submitted, Replied
  <2> QED BY <1>3, <1>7, <1>15, <2>1, SubmittedMovesOn DEF QuietStep, serverVars
<1>16. ASSUME NEW c \in Calls, NEW q \in Request, NewRequest(c, q), q.kind \notin Forms,
              q.kind = "login" => SignIn(c), q.kind = "logout" => leaving' # {},
              UNCHANGED form
       PROVE  QuietStep
  <2>1. /\ call[c].step = "idle" /\ call'[c] = Numbered(q) /\ Numbered(q).reply = Lost
        /\ \A d \in Calls \ {c} : call'[d] = call[d]
        /\ Spend("calls") /\ UNCHANGED <<limbo, bound>>
    BY <1>16, NewRequestStarts DEF serverVars
  <2>2. /\ Numbered(q).kind \notin Forms \cup {"none"} /\ Numbered(q).step = "sent"
        /\ Numbered(q).kind = q.kind
    BY <1>16, NumberedTyped DEF NewRequest
  <2> QED BY <1>2, <1>4, <1>16, <2>1, <2>2 DEF QuietStep, QuietCall, Budgets
<1>17. ASSUME NEW c \in Calls, (\E kind \in {"query", "me"} : Fetch(c, kind)) \/ SignIn(c) \/ SignOut(c)
       PROVE  QuietStep
  <2>1. UNCHANGED form
    BY <1>17 DEF Fetch, SignIn, SignOut
  <2>2. \E q \in Request : /\ NewRequest(c, q) /\ q.kind \notin Forms
                           /\ q.kind = "login" => SignIn(c)
                           /\ q.kind = "logout" => leaving' # {}
    BY <1>17, AskedQuietly DEF Forms
  <2> QED BY <1>16, <2>1, <2>2
<1>18. CASE SignOutLocally
  BY <1>3, <1>6, <1>18, UnmountedMovesOn DEF QuietStep, SignOutLocally, NoUser, serverVars
<1>19. CASE ServeRefresh
  BY <1>2, <1>3, <1>6, <1>19 DEF QuietStep, ServeRefresh
<1>20. CASE LoseRefresh
  BY <1>2, <1>4, <1>6, <1>20 DEF QuietStep, LoseRefresh, serverVars, Budgets
<1>21. CASE \E s \in DOMAIN server : ExpireAccess(s) \/ RevokeElsewhere(s)
  BY <1>2, <1>4, <1>6, <1>21 DEF QuietStep, ExpireAccess, RevokeElsewhere, pageVars, Budgets
<1>22. CASE LostSessionSignsOut
  <2>1. call' = [call EXCEPT ![Spare] = [SignOutCall EXCEPT !.step = "sent"]] /\ call[Spare].step = "idle"
    BY <1>22 DEF LostSessionSignsOut
  <2>2. LET q == [SignOutCall EXCEPT !.step = "sent"] IN
        q.kind = "logout" /\ q.step = "sent" /\ q.reply = Lost
    BY SignOutTyped DEF Request
  <2>3. call'[Spare] = [SignOutCall EXCEPT !.step = "sent"] /\ \A d \in Calls \ {Spare} : call'[d] = call[d]
    BY <2>1 DEF PageTyped, Calls
  <2>4. leaving' # {}
    BY <1>22 DEF LostSessionSignsOut
  <2> QED BY <1>2, <1>3, <1>22, <2>1, <2>2, <2>3, <2>4
          DEF QuietStep, QuietCall, LostSessionSignsOut, serverVars, Forms
<1>23. CASE SocketMoves
  BY <1>2, <1>3, <1>4, <1>6, <1>23 DEF QuietStep, SocketMoves, Spends, serverVars, pageVars, Budgets
<1> QED BY <1>9, <1>10, <1>11, <1>12, <1>13, <1>14, <1>15, <1>17, <1>18, <1>19, <1>20, <1>21, <1>22,
           <1>23, StepsOfThePage
        DEF ClientNext, Progress, Asked, World, PageTyped

-----------------------------------------------------------------------------
(* One attempt, one key.                                                   *)
LEMMA KeysKept ==
    ASSUME PageTyped, PageTyped', KeysInv, FormsMoveOn,
           \A f \in Forms, a, k \in Nat : Uses(f, a, k)' => Uses(f, a, k)
    PROVE  KeysInv'
<1>1. \A f \in Forms, a, j, k \in Nat : (Uses(f, a, j) /\ Uses(f, a, k) => j = k)'
  BY DEF KeysInv
<1>2. ASSUME NEW f \in Forms, NEW a \in Nat, NEW k \in Nat, Uses(f, a, k)'
      PROVE  a <= form'[f].attempt /\ (a = form'[f].attempt => form'[f].key = k /\ k # 0)
  <2>1. a <= form[f].attempt /\ (a = form[f].attempt => form[f].key = k /\ k # 0)
    BY <1>2 DEF KeysInv
  <2>2. form[f].attempt \in Nat /\ form'[f].attempt \in Nat /\ form'[f].attempt >= form[f].attempt
        /\ (form'[f].attempt = form[f].attempt => form'[f].key = form[f].key)
    BY DEF FormsMoveOn, PageTyped
  <2> QED BY <2>1, <2>2
<1> QED BY <1>1, <1>2 DEF KeysInv

(* The row a request is bound to carries its form and its attempt.         *)
LEMMA RowUses ==
    ASSUME PageTyped, NEW q \in Request, NEW a \in Answers(q), bound' = a.bound,
           NEW f \in Forms, NEW n \in Nat, NEW k \in Nat,
           k \in DOMAIN bound', bound'[k].form = f, bound'[k].attempt = n
    PROVE  \/ k \in DOMAIN bound /\ bound[k].form = f /\ bound[k].attempt = n
           \/ q.kind = f /\ q.attempt = n /\ q.key = k
<1>1. CASE a.bound = bound
  BY <1>1
<1>2. CASE NewRow(q, a)
  BY <1>2 DEF NewRow
<1> QED BY <1>1, <1>2, Answered

(* Every step keeps the keys of the attempts.                              *)
LEMMA KeysStep ==
    ASSUME PageTyped, PageTyped', KeysInv, [Next]_vars
    PROVE  KeysInv'
<1>1. CASE QuietStep
  <2>1. \A c \in Calls : call'[c].kind \in Forms =>
            /\ call'[c].kind = call[c].kind /\ call'[c].attempt = call[c].attempt
            /\ call'[c].key = call[c].key
    BY <1>1, QuietFields, CallsTyped DEF QuietStep, Forms
  <2> QED BY <1>1, <2>1, KeysKept DEF QuietStep, Uses
<1>2. ASSUME NEW c \in Calls, Serve(c) PROVE KeysInv'
  <2>1. PICK a \in Answers(call[c]) :
            Commit(a) /\ call' = [call EXCEPT ![c].step = "answered", ![c].reply = a.reply]
    BY <1>2 DEF Serve
  <2>2. \A d \in Calls : call'[d].kind = call[d].kind /\ call'[d].attempt = call[d].attempt
                         /\ call'[d].key = call[d].key
    BY <2>1 DEF PageTyped, Request
  <2>3. FormsMoveOn /\ limbo' = limbo
    BY <1>2 DEF Serve, FormsMoveOn, PageTyped
  <2>4. ASSUME NEW f \in Forms, NEW n \in Nat, NEW k \in Nat, Uses(f, n, k)'
        PROVE  Uses(f, n, k)
    <3>1. CASE k \in DOMAIN bound' /\ bound'[k].form = f /\ bound'[k].attempt = n
      <4>1. call[c] \in Request /\ bound' = a.bound
        BY <2>1, CallsTyped DEF Commit
      <4> QED BY <3>1, <4>1, RowUses DEF Uses
    <3> QED BY <2>2, <2>3, <2>4, <3>1 DEF Uses
  <2> QED BY <2>3, <2>4, KeysKept
<1>3. CASE ServeLate
  <2>1. PICK q \in limbo : limbo' = limbo \ {q} /\ \E a \in Answers(q) : Commit(a)
    BY <1>3 DEF ServeLate
  <2>2. PICK a \in Answers(q) : Commit(a)
    BY <2>1
  <2>3. FormsMoveOn /\ call' = call
    BY <1>3 DEF ServeLate, pageVars, FormsMoveOn, PageTyped
  <2>4. ASSUME NEW f \in Forms, NEW n \in Nat, NEW k \in Nat, Uses(f, n, k)'
        PROVE  Uses(f, n, k)
    <3>1. CASE k \in DOMAIN bound' /\ bound'[k].form = f /\ bound'[k].attempt = n
      <4>1. q \in Request /\ bound' = a.bound
        BY <2>2 DEF Commit, PageTyped
      <4> QED BY <3>1, <4>1, RowUses DEF Uses
    <3> QED BY <2>1, <2>3, <2>4, <3>1 DEF Uses
  <2> QED BY <2>3, <2>4, KeysKept
<1>4. ASSUME NEW c \in Calls, Lose(c) PROVE KeysInv'
  <2>1. \A d \in Calls : call'[d].kind = call[d].kind /\ call'[d].attempt = call[d].attempt
                         /\ call'[d].key = call[d].key
    BY <1>4 DEF Lose, PageTyped, Request
  <2>2. FormsMoveOn /\ bound' = bound /\ limbo' \subseteq limbo \cup {call[c]}
    BY <1>4 DEF Lose, FormsMoveOn, PageTyped
  <2>3. ASSUME NEW f \in Forms, NEW n \in Nat, NEW k \in Nat, Uses(f, n, k)'
        PROVE  Uses(f, n, k)
    BY <2>1, <2>2, <2>3 DEF Uses
  <2> QED BY <2>2, <2>3, KeysKept
<1>5. CASE Reload
  <2>1. \A c \in Calls : call'[c].kind \notin Forms
    BY <1>5, NoCallTyped, LoadingTyped, Vocabulary DEF Reload, PageTyped, Forms
  <2>2. FormsMoveOn
    BY <1>5, UnmountedMovesOn DEF Reload
  <2>3. bound' = bound /\ limbo' \subseteq limbo \cup {call[c] : c \in Calls}
    BY <1>5 DEF Reload, PageTyped
  <2>4. ASSUME NEW f \in Forms, NEW n \in Nat, NEW k \in Nat, Uses(f, n, k)'
        PROVE  Uses(f, n, k)
    BY <2>1, <2>3, <2>4 DEF Uses
  <2> QED BY <2>2, <2>4, KeysKept
<1>6. ASSUME NEW c \in Calls, NEW f \in Forms, NEW body \in Bodies(f), Submit(c, f, body)
      PROVE  KeysInv'
  <2> DEFINE q == Numbered(Submission(f, body))
             key == AttemptKey(f)
             now == form[f].attempt
  <2>1. /\ q.kind = f /\ q.key = key /\ q.attempt = now /\ key \in Nat
        /\ call'[c] = q /\ \A d \in Calls \ {c} : call'[d] = call[d]
        /\ bound' = bound /\ limbo' = limbo
    <3> DEFINE s == Submission(f, body)
    <3>1. s \in Request /\ s.kind = f /\ s.key = key /\ s.attempt = now /\ key \in Nat
      BY SubmissionTyped
    <3>2. NewRequest(c, s)
      BY <1>6, Submitting
    <3> HIDE DEF s
    <3>3. Numbered(s).kind = f /\ Numbered(s).key = key /\ Numbered(s).attempt = now
      BY <3>1, NumberedTyped
    <3>4. /\ call'[c] = Numbered(s) /\ \A d \in Calls \ {c} : call'[d] = call[d]
          /\ bound' = bound /\ limbo' = limbo
      BY <3>1, <3>2, NewRequestStarts DEF serverVars
    <3> QED BY <3>1, <3>3, <3>4 DEF s
  <2>2. /\ form'[f].attempt = now /\ form'[f].key = key
        /\ \A g \in Forms \ {f} : form'[g] = form[g]
    BY <1>6 DEF Submit, PageTyped
  <2>3. key # 0 /\ (form[f].key # 0 => key = form[f].key)
    BY <1>6 DEF Submit, Asks, Spend, AttemptKey
  <2>4. ASSUME NEW g \in Forms, NEW n \in Nat, NEW k \in Nat, Uses(g, n, k)'
        PROVE  Uses(g, n, k) \/ (g = f /\ n = now /\ k = key)
    BY <2>1, <2>4 DEF Uses
  <2>5. \A k \in Nat : Uses(f, now, k) => k = key
    BY <2>3 DEF KeysInv, PageTyped
  <2> HIDE DEF q, key, now
  <2>6. \A g \in Forms, n, j, k \in Nat : (Uses(g, n, j) /\ Uses(g, n, k) => j = k)'
    BY <2>4, <2>5 DEF KeysInv
  <2>7. ASSUME NEW g \in Forms, NEW n \in Nat, NEW k \in Nat, Uses(g, n, k)'
        PROVE  n <= form'[g].attempt /\ (n = form'[g].attempt => form'[g].key = k /\ k # 0)
    <3>1. CASE Uses(g, n, k) /\ g # f
      BY <2>2, <3>1 DEF KeysInv
    <3>2. CASE Uses(g, n, k) /\ g = f
      BY <2>2, <2>3, <2>5, <3>2 DEF KeysInv, now
    <3>3. CASE g = f /\ n = now /\ k = key
      BY <2>2, <2>3, <3>3 DEF now, PageTyped
    <3> QED BY <2>4, <2>7, <3>1, <3>2, <3>3
  <2> QED BY <2>6, <2>7 DEF KeysInv
<1>7. ASSUME NEW k \in DOMAIN bound, Resolve(k) PROVE KeysInv'
  <2>1. PICK status \in Statuses : bound' = [bound EXCEPT ![k].status = status]
    BY <1>7 DEF Resolve, Statuses
  <2>2. DOMAIN bound' = DOMAIN bound
        /\ \A j \in DOMAIN bound : bound'[j].form = bound[j].form
                                   /\ bound'[j].attempt = bound[j].attempt
    BY <2>1 DEF PageTyped, RowType
  <2>3. FormsMoveOn /\ call' = call /\ limbo' = limbo
    BY <1>7 DEF Resolve, pageVars, FormsMoveOn, PageTyped
  <2>4. ASSUME NEW f \in Forms, NEW n \in Nat, NEW j \in Nat, Uses(f, n, j)'
        PROVE  Uses(f, n, j)
    BY <2>2, <2>3, <2>4 DEF Uses
  <2> QED BY <2>3, <2>4, KeysKept
<1> QED BY <1>1, <1>2, <1>3, <1>4, <1>5, <1>6, <1>7, QuietSteps

-----------------------------------------------------------------------------
(* A request is served once.                                               *)
QuietMoves ==
    \A c \in Calls : Moves(call'[c]) =>
        /\ Moves(call[c]) /\ call'[c].number = call[c].number
        /\ Pending(call'[c]) => Pending(call[c])
        /\ GaveUp(call[c]) => GaveUp(call'[c])
        /\ call'[c].step = "answered" => call'[c] = call[c]

(* A quiet step starts no movement and answers none.                       *)
LEMMA QuietStepsMoveNothing ==
    ASSUME PageTyped, QuietStep
    PROVE  QuietMoves
  BY QuietFields, CallsTyped DEF QuietStep, QuietMoves, Moves, Forms

(* Serving a request binds its row, once.                                  *)
LEMMA NumbersServed ==
    ASSUME PageTyped, NumbersInv, NEW c \in Calls, Serve(c)
    PROVE  NumbersInv'
<1> DEFINE q == call[c]
<1>1. PICK a \in Answers(q) :
          Commit(a) /\ call' = [call EXCEPT ![c].step = "answered", ![c].reply = a.reply]
  BY DEF Serve
<1>2. q \in Request /\ q.step = "sent" /\ a.reply.code # "lost"
  BY <1>1, CallsTyped, Answered DEF Serve
<1>3. /\ \A d \in Calls : call'[d].kind = call[d].kind /\ call'[d].number = call[d].number
      /\ \A d \in Calls \ {c} : call'[d] = call[d]
      /\ call'[c].step = "answered" /\ call'[c].reply = a.reply
  BY <1>1 DEF PageTyped, Request
<1>4. limbo' = limbo /\ left' = left
  BY DEF Serve
<1>5. CASE bound' = bound
  <2>1. \A p : UnservedBy(bound', p) <=> Unserved(p)
    BY <1>5 DEF Unserved, UnservedBy
  <2>2. \A d \in Calls : Moves(call'[d]) /\ Pending(call'[d]) => Unserved(call[d])
    BY <1>2, <1>3 DEF NumbersInv, Moves, Pending
  <2>3. \A d \in Calls : GaveUp(call[d]) => GaveUp(call'[d])
    BY <1>2, <1>3 DEF GaveUp
  <2> QED BY <1>3, <1>4, <1>5, <2>2, <2>3 DEF NumbersInv, Moves, Unserved, UnservedBy
<1>6. CASE Moves(q) /\ NewRow(q, a) /\ a.reply.code # "401"
  <2>1. /\ DOMAIN bound' = DOMAIN bound \cup {q.key} /\ bound'[q.key].number = q.number
        /\ \A k \in DOMAIN bound : bound'[k] = bound[k]
    BY <1>1, <1>6 DEF Commit, NewRow
  <2>2. \A p : Unserved(p) /\ p.number # q.number => UnservedBy(bound', p)
    BY <2>1 DEF Unserved, UnservedBy
  <2>3. \A k \in DOMAIN bound' : bound'[k].number > left'["calls"]
    BY <1>4, <1>6, <2>1 DEF NumbersInv
  <2>4. \A p \in limbo : Moves(p) => p.number # q.number
    BY <1>2, <1>6 DEF NumbersInv, GaveUp
  <2>5. ASSUME NEW d \in Calls, Moves(call'[d]), Pending(call'[d]) PROVE UnservedBy(bound', call'[d])
    <3>1. d # c
      BY <1>3, <1>6, <2>5 DEF Pending
    <3>2. Moves(call[d]) /\ Pending(call[d]) /\ call[d].number # q.number
      BY <1>3, <1>6, <2>5, <3>1 DEF NumbersInv, Moves
    <3> QED BY <1>3, <2>2, <3>1, <3>2 DEF NumbersInv
  <2>6. \A d \in Calls : GaveUp(call[d]) => GaveUp(call'[d])
    BY <1>2, <1>3 DEF GaveUp
  <2>7. \A d \in Calls : Moves(call'[d]) <=> Moves(call[d])
    BY <1>3 DEF Moves
  <2> QED BY <1>3, <1>4, <2>2, <2>3, <2>4, <2>5, <2>6, <2>7 DEF NumbersInv, Unserved
<1> QED BY <1>1, <1>2, <1>5, <1>6, Answered DEF Commit, Moves

(* So does serving a request the page gave up on.                          *)
LEMMA NumbersServedLate ==
    ASSUME PageTyped, NumbersInv, ServeLate
    PROVE  NumbersInv'
<1>1. PICK q \in limbo : limbo' = limbo \ {q} /\ \E a \in Answers(q) : Commit(a)
  BY DEF ServeLate
<1>2. PICK a \in Answers(q) : Commit(a)
  BY <1>1
<1>3. call' = call /\ left' = left /\ q \in Request
  BY DEF ServeLate, pageVars, PageTyped
<1>4. CASE bound' = bound
  BY <1>1, <1>3, <1>4 DEF NumbersInv, Unserved, UnservedBy
<1>5. CASE Moves(q) /\ NewRow(q, a)
  <2>1. /\ DOMAIN bound' = DOMAIN bound \cup {q.key} /\ bound'[q.key].number = q.number
        /\ \A k \in DOMAIN bound : bound'[k] = bound[k]
    BY <1>2, <1>5 DEF Commit, NewRow
  <2>2. \A p : Unserved(p) /\ p.number # q.number => UnservedBy(bound', p)
    BY <2>1 DEF Unserved, UnservedBy
  <2>3. \A k \in DOMAIN bound' : bound'[k].number > left'["calls"]
    BY <1>3, <1>5, <2>1 DEF NumbersInv
  <2>4. \A p \in limbo' : Moves(p) => p.number # q.number
    BY <1>1, <1>5 DEF NumbersInv
  <2>5. \A d \in Calls : Moves(call[d]) /\ Pending(call[d]) => call[d].number # q.number
    BY <1>5 DEF NumbersInv, GaveUp, Pending
  <2> QED BY <1>1, <1>3, <2>2, <2>3, <2>4, <2>5 DEF NumbersInv, Unserved
<1> QED BY <1>2, <1>3, <1>4, <1>5, Answered DEF Commit, Moves

(* A quiet step keeps the numbers.                                         *)
LEMMA NumbersQuiet ==
    ASSUME PageTyped, PageTyped', NumbersInv, QuietStep
    PROVE  NumbersInv'
<1>1. QuietMoves /\ bound' = bound /\ limbo' = limbo /\ left'["calls"] <= left["calls"]
  BY QuietStepsMoveNothing DEF QuietStep
<1>2. left["calls"] \in Nat /\ left'["calls"] \in Nat
  BY DEF PageTyped, Budgets
<1>3. \A c \in Calls : Moves(call'[c]) => call'[c].number > left'["calls"]
  <2>1. \A c \in Calls : call[c].number \in Nat
    BY CallsTyped DEF Request
  <2> QED BY <1>1, <1>2, <2>1 DEF QuietMoves, NumbersInv
<1>4. \A q \in limbo' : Moves(q) => q.number > left'["calls"] /\ UnservedBy(bound', q)
  <2>1. \A q \in limbo : q.number \in Nat
    BY DEF Request, PageTyped
  <2> QED BY <1>1, <1>2, <2>1 DEF NumbersInv, Unserved, UnservedBy
<1>5. \A k \in DOMAIN bound' : bound'[k].number > left'["calls"]
  <2>1. \A k \in DOMAIN bound : bound[k].number \in Nat
    BY DEF RowType, PageTyped
  <2> QED BY <1>1, <1>2, <2>1 DEF NumbersInv
<1>6. \A c \in Calls : Moves(call'[c]) /\ Pending(call'[c]) => UnservedBy(bound', call'[c])
  BY <1>1 DEF QuietMoves, NumbersInv, Unserved, UnservedBy
<1>7. \A c, d \in Calls :
         Moves(call'[c]) /\ Moves(call'[d]) /\ call'[c].number = call'[d].number => c = d
  BY <1>1 DEF QuietMoves, NumbersInv
<1>8. \A c \in Calls, q \in limbo' :
         Moves(call'[c]) /\ Moves(q) /\ call'[c].number = q.number => GaveUp(call'[c])
  BY <1>1 DEF QuietMoves, NumbersInv
<1>9. \A p, q \in limbo' : Moves(p) /\ Moves(q) /\ p.number = q.number => p = q
  BY <1>1 DEF NumbersInv
<1> QED BY <1>3, <1>4, <1>5, <1>6, <1>7, <1>8, <1>9 DEF NumbersInv, Unserved

(* A lost request may be in limbo too.                                     *)
LEMMA NumbersLost ==
    ASSUME PageTyped, NumbersInv, NEW c \in Calls, Lose(c)
    PROVE  NumbersInv'
<1> DEFINE q == call[c]
<1>1. Lost \in Reply /\ Lost.code = "lost" /\ q \in Request
  BY Replies, CallsTyped
<1>2. /\ \A d \in Calls : call'[d].kind = call[d].kind /\ call'[d].number = call[d].number
      /\ \A d \in Calls \ {c} : call'[d] = call[d]
      /\ GaveUp(call'[c]) /\ ~Pending(call'[c])
  BY <1>1 DEF Lose, PageTyped, Request, GaveUp, Pending
<1>3. bound' = bound /\ left'["calls"] = left["calls"]
  BY Spent DEF Lose, Budgets
<1>4. \A p \in limbo' : p \in limbo \/ (p = q /\ q.step = "sent")
  BY DEF Lose, Matters
<1>5. q.step = "sent" /\ Moves(q) => Unserved(q) /\ \A p \in limbo : Moves(p) => p.number # q.number
  BY DEF NumbersInv, Pending, GaveUp
<1>6. \A d \in Calls : Moves(call'[d]) <=> Moves(call[d])
  BY <1>2 DEF Moves
<1>7. \A p \in limbo' : Moves(p) => p.number > left'["calls"] /\ UnservedBy(bound', p)
  BY <1>3, <1>4, <1>5 DEF NumbersInv, Unserved
<1>8. \A p, r \in limbo' : Moves(p) /\ Moves(r) /\ p.number = r.number => p = r
  BY <1>4, <1>5 DEF NumbersInv
<1>9. \A d \in Calls, p \in limbo' :
         Moves(call'[d]) /\ Moves(p) /\ call'[d].number = p.number => GaveUp(call'[d])
  BY <1>2, <1>4, <1>6 DEF NumbersInv
<1>10. \A d \in Calls : Moves(call'[d]) /\ Pending(call'[d]) => UnservedBy(bound', call'[d])
  BY <1>2, <1>3, <1>6 DEF NumbersInv, Unserved
<1> QED BY <1>2, <1>3, <1>6, <1>7, <1>8, <1>9, <1>10 DEF NumbersInv, Unserved

(* A reload leaves every request in limbo.                                 *)
LEMMA NumbersReloaded ==
    ASSUME PageTyped, NumbersInv, Reload
    PROVE  NumbersInv'
<1>1. \A c \in Calls : ~Moves(call'[c])
  BY NoCallTyped, LoadingTyped, Vocabulary DEF Reload, PageTyped, Moves, Forms
<1>2. bound' = bound /\ left'["calls"] = left["calls"]
  BY Spent DEF Reload, Budgets
<1>3. \A p \in limbo' : p \in limbo \/ \E c \in Calls : p = call[c] /\ call[c].step = "sent"
  BY DEF Reload, Matters, PageTyped
<1>4. \A c \in Calls : call[c].step = "sent" /\ Moves(call[c]) =>
         Unserved(call[c]) /\ \A p \in limbo : Moves(p) => p.number # call[c].number
  BY DEF NumbersInv, Pending, GaveUp
<1>5. \A p \in limbo' : Moves(p) => p.number > left'["calls"] /\ UnservedBy(bound', p)
  BY <1>2, <1>3, <1>4 DEF NumbersInv, Unserved
<1>6. \A p, r \in limbo' : Moves(p) /\ Moves(r) /\ p.number = r.number => p = r
  BY <1>3, <1>4 DEF NumbersInv
<1> QED BY <1>1, <1>2, <1>5, <1>6 DEF NumbersInv, Unserved

(* A new request is numbered below every request before it.                *)
LEMMA NumbersSubmitted ==
    ASSUME PageTyped, NumbersInv, NEW c \in Calls, NEW f \in Forms, NEW body \in Bodies(f),
           Submit(c, f, body)
    PROVE  NumbersInv'
<1>0. left["calls"] \in Nat
  BY DEF PageTyped, Budgets
<1>1. /\ Moves(call'[c]) /\ call'[c].number = left["calls"] /\ call'[c].step = "sent"
      /\ \A d \in Calls \ {c} : call'[d] = call[d]
      /\ bound' = bound /\ limbo' = limbo
      /\ left'["calls"] \in Nat /\ left["calls"] = left'["calls"] + 1
  <2> DEFINE s == Submission(f, body)
  <2>1. s \in Request /\ s.kind = f /\ NewRequest(c, s)
    BY SubmissionTyped, Submitting
  <2> HIDE DEF s
  <2>2. Numbered(s).kind = f /\ Numbered(s).number = left["calls"] /\ Numbered(s).step = "sent"
    BY <2>1, NumberedTyped
  <2>3. /\ call'[c] = Numbered(s) /\ \A d \in Calls \ {c} : call'[d] = call[d]
        /\ bound' = bound /\ limbo' = limbo /\ Spend("calls")
    BY <2>1, NewRequestStarts DEF serverVars
  <2>4. left["calls"] > 0 /\ left'["calls"] = left["calls"] - 1
    BY <2>3, Spent DEF Budgets
  <2> QED BY <1>0, <2>2, <2>3, <2>4 DEF Moves
<1>2. \A d \in Calls : call[d].number \in Nat
  BY CallsTyped DEF Request
<1>3. \A q \in limbo : q.number \in Nat
  BY DEF Request, PageTyped
<1>4. \A k \in DOMAIN bound : bound[k].number \in Nat
  BY DEF RowType, PageTyped
<1>5. \A d \in Calls : Moves(call'[d]) => call'[d].number > left'["calls"]
  BY <1>0, <1>1, <1>2 DEF NumbersInv
<1>6. \A q \in limbo' : Moves(q) => q.number > left'["calls"] /\ UnservedBy(bound', q)
  BY <1>0, <1>1, <1>3 DEF NumbersInv, Unserved
<1>7. \A k \in DOMAIN bound' : bound'[k].number > left'["calls"]
  BY <1>0, <1>1, <1>4 DEF NumbersInv
<1>8. \A d \in Calls : Moves(call'[d]) /\ Pending(call'[d]) => UnservedBy(bound', call'[d])
  <2>1. UnservedBy(bound, call'[c])
    BY <1>0, <1>1, <1>4 DEF NumbersInv, UnservedBy
  <2> QED BY <1>1, <2>1 DEF NumbersInv, Unserved
<1>9. \A d, e \in Calls :
         Moves(call'[d]) /\ Moves(call'[e]) /\ call'[d].number = call'[e].number => d = e
  BY <1>0, <1>1, <1>2 DEF NumbersInv
<1>10. \A d \in Calls, q \in limbo' :
         Moves(call'[d]) /\ Moves(q) /\ call'[d].number = q.number => GaveUp(call'[d])
  BY <1>0, <1>1, <1>3 DEF NumbersInv
<1> QED BY <1>1, <1>5, <1>6, <1>7, <1>8, <1>9, <1>10 DEF NumbersInv, Unserved

(* The sweep changes the status of a row alone.                            *)
LEMMA RowsResolved ==
    ASSUME PageTyped, NEW k \in DOMAIN bound, Resolve(k)
    PROVE  /\ DOMAIN bound' = DOMAIN bound
           /\ \A j \in DOMAIN bound :
                 /\ bound'[j].number = bound[j].number /\ bound'[j].body = bound[j].body
                 /\ bound[j].status = "filled" => bound'[j].status = "filled"
<1>1. PICK status \in Statuses : bound' = [bound EXCEPT ![k].status = status]
  BY DEF Resolve, Statuses
<1>2. bound[k].status = "open"
  BY DEF Resolve
<1> QED BY <1>1, <1>2 DEF PageTyped, RowType

(* Every step keeps the numbers.                                           *)
LEMMA NumbersStep ==
    ASSUME PageTyped, PageTyped', NumbersInv, [Next]_vars
    PROVE  NumbersInv'
<1>1. ASSUME NEW k \in DOMAIN bound, Resolve(k) PROVE NumbersInv'
  <2>1. DOMAIN bound' = DOMAIN bound /\ \A j \in DOMAIN bound : bound'[j].number = bound[j].number
    BY <1>1, RowsResolved
  <2>2. \A q : UnservedBy(bound', q) <=> Unserved(q)
    BY <2>1 DEF Unserved, UnservedBy
  <2>3. call' = call /\ limbo' = limbo /\ left' = left
    BY <1>1 DEF Resolve, pageVars
  <2> QED BY <2>1, <2>2, <2>3 DEF NumbersInv, Unserved
<1> QED BY <1>1, NumbersQuiet, NumbersServed, NumbersLost, NumbersServedLate, NumbersReloaded,
           NumbersSubmitted, QuietSteps

-----------------------------------------------------------------------------
(* What was said of a row stays true of it.                                *)
Keeps(b, d) ==
    \A k \in DOMAIN b :
        /\ k \in DOMAIN d /\ d[k].number = b[k].number /\ d[k].body = b[k].body
        /\ b[k].status = "filled" => d[k].status = "filled"

(* Rows keep their form, body and number, and a filled order is filled.    *)
LEMMA BoundKept ==
    ASSUME PageTyped, [Next]_vars
    PROVE  Keeps(bound, bound')
<1>1. \A q \in Request : \A a \in Answers(q) : Keeps(bound, a.bound)
  BY Answered DEF Keeps, NewRow
<1>2. ASSUME bound' = bound PROVE Keeps(bound, bound')
  BY <1>2 DEF Keeps
<1>3. CASE QuietStep
  BY <1>2, <1>3 DEF QuietStep
<1>4. ASSUME NEW c \in Calls, Serve(c) PROVE Keeps(bound, bound')
  BY <1>1, <1>4, CallsTyped DEF Serve, Commit
<1>5. CASE ServeLate
  BY <1>1, <1>5 DEF ServeLate, Commit, PageTyped
<1>6. CASE Reload \/ \E c \in Calls : Lose(c)
  BY <1>2, <1>6 DEF Reload, Lose
<1>7. CASE \E c \in Calls, f \in Forms : \E body \in Bodies(f) : Submit(c, f, body)
  BY <1>2, <1>7 DEF Submit, Asks, serverVars
<1>8. ASSUME NEW k \in DOMAIN bound, Resolve(k) PROVE Keeps(bound, bound')
  BY <1>8, RowsResolved DEF Keeps
<1> QED BY <1>3, <1>4, <1>5, <1>6, <1>7, <1>8, QuietSteps

(* So a true reply stays true.                                             *)
LEMMA ReplyStays ==
    ASSUME NEW b, NEW d, Keeps(b, d), NEW q, NEW reply, ReplyTrue(b, q, reply)
    PROVE  ReplyTrue(d, q, reply)
  BY DEF Keeps, ReplyTrue

(* The reply is true of the rows it was committed with.                    *)
LEMMA AnswerTrue ==
    ASSUME PageTyped, NEW q \in Request, Moves(q) => Unserved(q), NEW a \in Answers(q)
    PROVE  ReplyTrue(a.bound, q, a.reply)
<1>1. CASE ~Moves(q)
  BY <1>1 DEF Moves, Forms, ReplyTrue
<1>2. CASE Moves(q) /\ a = Answer(Code("401"))
  BY <1>2, Replies DEF Answer, Codes, ReplyTrue
<1>3. CASE q.kind = "transfer" /\ a \in TransferAnswers(q)
  <2>1. Unserved(q)
    BY <1>3 DEF Moves, Forms
  <2>2. CASE NewRow(q, a) /\ a.reply.code = "201"
    BY <1>3, <2>2 DEF NewRow, ReplyTrue
  <2>3. CASE a.bound = bound /\ a.reply.code # "201"
    BY <1>3, <2>1, <2>3, TransferAnswered DEF ReplyTrue, Unserved, UnservedBy
  <2> QED BY <1>3, <2>2, <2>3, TransferAnswered
<1>4. CASE q.kind = "order" /\ a \in OrderAnswers(q)
  BY <1>4, OrderAnswered DEF ReplyTrue
<1> QED BY <1>1, <1>2, <1>3, <1>4 DEF Answers, Moves, Forms

(* Every step keeps the replies true.                                      *)
LEMMA RepliesStep ==
    ASSUME PageTyped, PageTyped', NumbersInv, RepliesTrue, [Next]_vars
    PROVE  RepliesTrue'
<1>1. Keeps(bound, bound')
  BY BoundKept
<1>2. ASSUME NEW c \in Calls, call'[c] = call[c], call'[c].step = "answered"
      PROVE  ReplyTrue(bound', call'[c], call'[c].reply)
  BY <1>1, <1>2, ReplyStays DEF RepliesTrue
<1>3. ASSUME NEW c \in Calls, ~Moves(call'[c])
      PROVE  ReplyTrue(bound', call'[c], call'[c].reply)
  BY <1>3 DEF ReplyTrue, Moves, Forms
<1>4. CASE QuietStep
  BY <1>2, <1>3, <1>4, QuietStepsMoveNothing DEF QuietMoves, RepliesTrue
<1>5. ASSUME NEW c \in Calls, Serve(c) PROVE RepliesTrue'
  <2>1. PICK a \in Answers(call[c]) :
            Commit(a) /\ call' = [call EXCEPT ![c].step = "answered", ![c].reply = a.reply]
    BY <1>5 DEF Serve
  <2>2. /\ \A d \in Calls \ {c} : call'[d] = call[d]
        /\ call'[c].kind = call[c].kind /\ call'[c].key = call[c].key
        /\ call'[c].body = call[c].body /\ call'[c].number = call[c].number
        /\ call'[c].reply = a.reply /\ bound' = a.bound
    BY <2>1 DEF PageTyped, Request, Commit
  <2>3. Moves(call[c]) => Unserved(call[c])
    BY <1>5 DEF Serve, NumbersInv, Pending
  <2>4. ReplyTrue(bound', call[c], a.reply)
    BY <2>1, <2>2, <2>3, AnswerTrue, CallsTyped
  <2>5. ReplyTrue(bound', call'[c], call'[c].reply)
    BY <2>2, <2>4 DEF ReplyTrue
  <2> QED BY <1>2, <2>2, <2>5 DEF RepliesTrue
<1>6. CASE ServeLate \/ \E k \in DOMAIN bound : Resolve(k)
  BY <1>2, <1>6 DEF ServeLate, Resolve, pageVars, RepliesTrue
<1>7. ASSUME NEW c \in Calls, Lose(c) PROVE RepliesTrue'
  <2>1. /\ \A d \in Calls \ {c} : call'[d] = call[d]
        /\ call'[c].reply = Lost
    BY <1>7, Replies DEF Lose, PageTyped
  <2>2. ReplyTrue(bound', call'[c], call'[c].reply)
    BY <2>1, Replies DEF ReplyTrue
  <2> QED BY <1>2, <2>1, <2>2 DEF RepliesTrue
<1>8. CASE Reload
  <2>1. \A c \in Calls : ~Moves(call'[c])
    BY <1>8, NoCallTyped, LoadingTyped, Vocabulary DEF Reload, PageTyped, Moves, Forms
  <2> QED BY <1>3, <2>1 DEF RepliesTrue
<1>9. ASSUME NEW c \in Calls, NEW f \in Forms, NEW body \in Bodies(f), Submit(c, f, body)
      PROVE  RepliesTrue'
  <2>1. PICK s \in Request : NewRequest(c, s)
    BY <1>9, Submitting
  <2>2. call'[c].step = "sent" /\ \A d \in Calls \ {c} : call'[d] = call[d]
    BY <2>1, NewRequestStarts, NumberedTyped
  <2> QED BY <1>2, <2>2 DEF RepliesTrue
<1> QED BY <1>4, <1>5, <1>6, <1>7, <1>8, <1>9, QuietSteps

-----------------------------------------------------------------------------
(* What a form says.                                                       *)
NoticeTrue(b, n) ==
    n.text \in {"sent", "already", "filled"} =>
        /\ n.key \in DOMAIN b
        /\ b[n.key].body = n.body
        /\ n.text = "sent" => b[n.key].number = n.number
        /\ n.text = "already" => b[n.key].number # n.number
        /\ n.text = "filled" => b[n.key].status = "filled"

(* A notice repeats its reply.                                             *)
LEMMA NoticeOfReply ==
    ASSUME PageTyped, RepliesTrue, NEW c \in Calls, Submitted(c), NEW f \in Forms,
           form'[f].notice # form[f].notice
    PROVE  NoticeTrue(bound, form'[f].notice)
<1> DEFINE q == call[c]
           says(text) == [text |-> text, key |-> q.key, body |-> q.body, number |-> q.number,
                          status |-> q.reply.status]
<1>1. q.step = "answered" /\ ReplyTrue(bound, q, q.reply)
  BY DEF Submitted, Replied, RepliesTrue
<1>2. ASSUME NEW text, Notify(c, text) PROVE form'[f].notice = says(text)
  <2>1. form' # form
    OBVIOUS
  <2>2. CASE form' = [form EXCEPT ![q.kind].notice = says(text)]
    BY <2>2 DEF PageTyped
  <2>3. CASE form' = [form EXCEPT ![q.kind] = NextAttempt(q.kind, says(text))]
    BY <2>3 DEF PageTyped, NextAttempt
  <2> QED BY <1>2, <2>1, <2>2, <2>3 DEF Notify
<1>3. CASE q.kind = "transfer" /\ Notify(c, TransferText(q.reply))
  <2> DEFINE text == TransferText(q.reply)
  <2>1. form'[f].notice = says(text)
    BY <1>2, <1>3
  <2>2. /\ text # "filled"
        /\ text = "sent" => q.reply.code = "201"
        /\ text = "already" => q.reply.code = "200"
    BY DEF TransferText
  <2> HIDE DEF text
  <2> QED BY <1>1, <1>3, <2>1, <2>2 DEF NoticeTrue, ReplyTrue
<1>4. CASE q.kind = "order" /\ Notify(c, OrderText(q.reply))
  <2> DEFINE text == OrderText(q.reply)
  <2>1. form'[f].notice = says(text)
    BY <1>2, <1>4
  <2>2. /\ text \notin {"sent", "already"}
        /\ text = "filled" => q.reply.code = "201" /\ q.reply.status = "filled"
    BY DEF OrderText
  <2> HIDE DEF text
  <2> QED BY <1>1, <1>4, <2>1, <2>2 DEF NoticeTrue, ReplyTrue
<1> QED BY <1>3, <1>4 DEF Submitted, Replied

(* Every step keeps the notices true.                                      *)
LEMMA NoticesStep ==
    ASSUME PageTyped, RepliesTrue, NoticeIsTrue, [Next]_vars
    PROVE  NoticeIsTrue'
<1>1. \A f \in Forms : NoticeTrue(bound, form[f].notice)
  BY DEF NoticeIsTrue, NoticeTrue
<1>2. NoticeIsTrue' <=> \A f \in Forms : NoticeTrue(bound', form'[f].notice)
  BY DEF NoticeIsTrue, NoticeTrue
<1>3. \A n : NoticeTrue(bound, n) => NoticeTrue(bound', n)
  BY BoundKept DEF Keeps, NoticeTrue
<1>4. NoticeTrue(bound', NoNotice)
  BY DEF NoticeTrue, NoNotice
<1>5. ASSUME NoticesKept PROVE NoticeIsTrue'
  BY <1>1, <1>2, <1>3, <1>4, <1>5 DEF NoticesKept
<1>6. ASSUME NEW c \in Calls, Submitted(c) PROVE NoticeIsTrue'
  BY <1>1, <1>2, <1>3, <1>6, NoticeOfReply
<1>7. CASE QuietStep
  BY <1>5, <1>6, <1>7 DEF QuietStep
<1>8. CASE (\E c \in Calls : Serve(c) \/ Lose(c)) \/ ServeLate \/ \E k \in DOMAIN bound : Resolve(k)
  BY <1>5, <1>8 DEF Serve, Lose, ServeLate, Resolve, pageVars, NoticesKept
<1>9. CASE Reload
  BY <1>5, <1>9, UnmountedMovesOn DEF Reload
<1>10. ASSUME NEW c \in Calls, NEW f \in Forms, NEW body \in Bodies(f), Submit(c, f, body)
       PROVE  NoticeIsTrue'
  <2>1. NoticesKept
    BY <1>10 DEF Submit, NoticesKept, PageTyped
  <2> QED BY <1>5, <2>1
<1> QED BY <1>7, <1>8, <1>9, <1>10, QuietSteps

-----------------------------------------------------------------------------
(* Calls, their steps, and the refresh they wait for.                      *)
LEMMA StepsOfCalls ==
    ASSUME PageTyped, StepsKnown, [Next]_vars, NEW c \in Calls
    PROVE  /\ call'[c].step = "idle" <=> call'[c] = NoCall
           /\ call'[c].step = "waiting" =>
                 \/ call[c].step = "waiting" /\ call'[c].kind = call[c].kind
                 \/ Waits(call[c], call'[c])
<1>1. call[c] \in Request /\ NoCall.step = "idle"
  BY CallsTyped, NoCallTyped
<1>2. call[c].step = "idle" <=> call[c] = NoCall
  BY DEF StepsKnown
<1>3. CASE QuietCall(call[c], call'[c])
  <2>1. CASE Resends(call[c], call'[c])
    BY <1>1, <2>1 DEF Resends, Again, Request
  <2>2. CASE LoadsUser(call'[c])
    BY <1>1, <2>2, LoadingTyped DEF LoadsUser
  <2>3. CASE Waits(call[c], call'[c])
    BY <1>1, <2>3 DEF Waits, Request
  <2> QED BY <1>1, <1>2, <1>3, <2>1, <2>2, <2>3 DEF QuietCall
<1>4. CASE call'[c].step \in {"sent", "answered"}
  BY <1>1, <1>4
<1>5. CASE QuietStep
  BY <1>3, <1>4, <1>5 DEF QuietStep
<1>6. CASE call'[c] = call[c]
  BY <1>3, <1>6 DEF QuietCall
<1>7. CASE \E d \in Calls : Serve(d) \/ Lose(d)
  BY <1>1, <1>4, <1>6, <1>7 DEF Serve, Lose, PageTyped, Request
<1>8. CASE ServeLate \/ \E k \in DOMAIN bound : Resolve(k)
  BY <1>6, <1>8 DEF ServeLate, Resolve, pageVars
<1>9. CASE Reload
  <2>1. call'[c] = NoCall \/ call'[c] = LoadingUser(Blank)
    BY <1>9 DEF Reload, PageTyped
  <2> QED BY <1>3, <2>1, Vocabulary DEF QuietCall, LoadsUser
<1>10. ASSUME NEW d \in Calls, NEW f \in Forms, NEW body \in Bodies(f), Submit(d, f, body)
       PROVE  call'[c] = call[c] \/ call'[c].step = "sent"
  BY <1>10, Submitting, NewRequestStarts, NumberedTyped
<1> QED BY <1>4, <1>5, <1>6, <1>7, <1>8, <1>9, <1>10, QuietSteps

(* A refresh only ends with everybody who waits for it.                    *)
LEMMA RefreshEnds ==
    ASSUME PageTyped, [Next]_vars, NEW c \in Calls, refresh'.state = "none",
           call'[c].step = "waiting"
    PROVE  call[c].step = "waiting" /\ refresh.state = "none"
<1>1. call[c] \in Request /\ NoCall.step = "idle"
  BY CallsTyped, NoCallTyped
<1>2. \A S : call' = Ends(S) => c \notin S /\ call'[c] = call[c]
  BY <1>1, EndsTyped
<1>3. ASSUME NEW q \in Request, NEW d \in Calls, NewRequest(d, q)
      PROVE  call'[c] = call[c] /\ refresh' = refresh
  BY <1>3, NewRequestStarts, NumberedTyped
<1>4. ASSUME NEW d \in Calls, Unauthorized(d) PROVE call'[c] = call[c] /\ refresh' = refresh
  BY <1>2, <1>4 DEF Unauthorized, Expire, RefreshOnce
<1>5. ~Refreshed
  <2> SUFFICES ASSUME Refreshed PROVE FALSE
    OBVIOUS
  <2>1. \A t \in Token : Again(call[c], t).step = "sent"
    BY <1>1 DEF Again, Request
  <2>2. call'[c] = IF c \in Waiting THEN Again(call[c], refresh.reply.pair) ELSE call[c]
    BY ResentTyped, TokensTyped DEF Refreshed
  <2>3. c \in Waiting <=> call[c].step = "waiting"
    BY DEF Waiting, PageTyped
  <2> QED BY <2>1, <2>2, <2>3, TokensTyped
<1>6. ~RefreshFailed
  BY <1>1, <1>2 DEF RefreshFailed, Expire, Waiting, PageTyped
<1>7. ~Reload
  BY <1>1, LoadingTyped, Vocabulary DEF Reload, PageTyped
<1>8. ~ServeRefresh /\ ~LoseRefresh
  BY DEF ServeRefresh, LoseRefresh, PageTyped
<1>9. ASSUME NEW d \in Calls, Serve(d) \/ Lose(d) PROVE call'[c] = call[c] /\ refresh' = refresh
  BY <1>1, <1>9 DEF Serve, Lose, PageTyped, Request
<1>10. ASSUME NEW d \in Calls, SignedIn(d) PROVE call'[c] = call[c] /\ refresh' = refresh
  BY <1>1, <1>2, <1>10, LoadingTyped, TokensTyped DEF SignedIn, Replied, PageTyped
<1>11. ASSUME NEW d \in Calls,
              ResendLost(d) \/ QueryReplied(d) \/ UserLoaded(d) \/ SignedOut(d) \/ Submitted(d)
       PROVE  call'[c] = call[c] /\ refresh' = refresh
  BY <1>2, <1>11 DEF ResendLost, QueryReplied, UserLoaded, SignedOut, Submitted, Replied, Expire
<1>12. CASE LostSessionSignsOut
  BY <1>12, SignOutTyped DEF LostSessionSignsOut, PageTyped, Request
<1>13. CASE SignOutLocally \/ SocketMoves \/ ServeLate
  BY <1>13 DEF SignOutLocally, SocketMoves, ServeLate, pageVars
<1>14. CASE \E s \in DOMAIN server : ExpireAccess(s) \/ RevokeElsewhere(s)
  BY <1>14 DEF ExpireAccess, RevokeElsewhere, pageVars
<1>15. CASE \E k \in DOMAIN bound : Resolve(k)
  BY <1>15 DEF Resolve, pageVars
<1> QED BY <1>3, <1>4, <1>5, <1>6, <1>7, <1>8, <1>9, <1>10, <1>11, <1>12, <1>13, <1>14, <1>15,
           AskedRequest, StepsOfThePage
        DEF ClientNext, Progress, World, PageTyped

(* A user leaves with the keys of the forms.                               *)
LEMMA UserLeaves ==
    ASSUME PageTyped, [Next]_vars, user' = 0
    PROVE  user = 0 \/ form' = Unmounted
<1>1. ASSUME NEW c \in Calls, Asked(c) PROVE user' = user
  BY <1>1, AskedRequest, NewRequestStarts
<1>2. ASSUME NEW c \in Calls, Unauthorized(c) \/ ResendLost(c) PROVE user' = user \/ form' = Unmounted
  BY <1>2 DEF Unauthorized, ResendLost, Expire, NoUser
<1>3. ASSUME NEW c \in Calls, UserLoaded(c) PROVE user' = user
  BY <1>3 DEF UserLoaded, NewUser
<1>4. ASSUME NEW c \in Calls,
             Serve(c) \/ QueryReplied(c) \/ SignedIn(c) \/ SignedOut(c) \/ Submitted(c) \/ Lose(c)
      PROVE  user' = user \/ form' = Unmounted
  BY <1>4 DEF Serve, QueryReplied, SignedIn, SignedOut, Submitted, Lose, NoUser
<1>5. CASE ServeRefresh \/ Refreshed \/ RefreshFailed \/ SignOutLocally \/ LoseRefresh \/ Reload
  BY <1>5 DEF ServeRefresh, Refreshed, RefreshFailed, SignOutLocally, LoseRefresh, Reload, Expire,
              NoUser
<1>6. CASE \/ ServeLate \/ SocketMoves \/ LostSessionSignsOut
           \/ \E s \in DOMAIN server : ExpireAccess(s) \/ RevokeElsewhere(s)
           \/ \E k \in DOMAIN bound : Resolve(k)
  BY <1>6 DEF ServeLate, SocketMoves, LostSessionSignsOut, ExpireAccess, RevokeElsewhere, Resolve,
              pageVars
<1> QED BY <1>1, <1>2, <1>3, <1>4, <1>5, <1>6, StepsOfThePage
        DEF ClientNext, Progress, World, PageTyped

(* Expiry stays behind issue.                                              *)
LEMMA ExpiryKnown ==
    ASSUME PageTyped, TokensIssued, StepsKnown, [Next]_vars, NEW s \in DOMAIN server'
    PROVE  server'[s].expired <= server'[s].newest
<1>1. \A r \in DOMAIN server : /\ server[r] \in Session /\ server[r].expired <= server[r].newest
                               /\ server[r].newest \in Nat /\ server[r].expired \in Nat
  BY SessionsTyped DEF StepsKnown
<1>2. CASE UNCHANGED server
  BY <1>1, <1>2
<1>3. ASSUME NEW q \in Request, NEW a \in Answers(q), Commit(a)
      PROVE  server'[s].expired <= server'[s].newest
  <2>1. CASE server' = server
    BY <1>1, <2>1
  <2>2. CASE server' = Append(server, NewSession)
    <3>1. NewSession \in Session /\ NewSession.expired = 0 /\ NewSession.newest = 1
      BY Vocabulary DEF NewSession
    <3>2. (s \in DOMAIN server /\ server'[s] = server[s]) \/ server'[s] = NewSession
      BY <2>2, <3>1, AppendProperties, LenProperties DEF PageTyped
    <3> QED BY <1>1, <3>1, <3>2
  <2>3. CASE server' = [server EXCEPT ![q.captured.session].revoked = TRUE]
    BY <1>1, <2>3, Revoking
  <2> QED BY <1>3, <2>1, <2>2, <2>3, Answered DEF Commit
<1>4. CASE ServeRefresh
  <2>1. RefreshServed(refresh.token.session)
    BY <1>4, TypedServeRefresh
  <2> QED BY <1>1, <2>1 DEF RefreshServed, Patched
<1>5. ASSUME NEW r \in DOMAIN server, ExpireAccess(r) PROVE server'[s].expired <= server'[s].newest
  <2>1. server' = [server EXCEPT ![r].expired = server[r].newest]
    BY <1>5 DEF ExpireAccess
  <2>2. s \in DOMAIN server
    BY <2>1 DEF PageTyped
  <2>3. s # r => server'[s] = server[s]
    BY <2>1, <2>2 DEF PageTyped
  <2>4. server'[r].expired = server[r].newest /\ server'[r].newest = server[r].newest
    BY <1>1, <2>1 DEF PageTyped, Session
  <2> QED BY <1>1, <2>2, <2>3, <2>4
<1>6. ASSUME NEW r \in DOMAIN server, RevokeElsewhere(r)
      PROVE  server'[s].expired <= server'[s].newest
  BY <1>1, <1>6, Revoking DEF RevokeElsewhere
<1>7. ASSUME NEW c \in Calls, Serve(c) PROVE server'[s].expired <= server'[s].newest
  BY <1>3, <1>7, CallsTyped DEF Serve
<1>8. CASE ServeLate
  BY <1>3, <1>8 DEF ServeLate, PageTyped
<1>9. ASSUME NEW c \in Calls, Progress(c), ~Serve(c) PROVE UNCHANGED server
  BY <1>9 DEF Progress, Unauthorized, ResendLost, QueryReplied, UserLoaded, SignedIn, SignedOut,
              Submitted, Replied, serverVars
<1>10. ASSUME NEW c \in Calls, Asked(c) PROVE UNCHANGED server
  BY <1>10 DEF Asked, Fetch, SignIn, SignOut, Submit, Asks, serverVars
<1>11. CASE \/ Refreshed \/ RefreshFailed \/ SignOutLocally \/ LoseRefresh \/ Reload \/ SocketMoves
            \/ LostSessionSignsOut \/ (\E c \in Calls : Lose(c))
            \/ (\E k \in DOMAIN bound : Resolve(k))
  BY <1>2, <1>11 DEF Refreshed, RefreshFailed, SignOutLocally, LoseRefresh, Reload, SocketMoves,
              LostSessionSignsOut, Lose, Resolve, serverVars
<1> QED BY <1>2, <1>4, <1>5, <1>6, <1>7, <1>8, <1>9, <1>10, <1>11, StepsOfThePage
        DEF ClientNext, World, PageTyped

(* Budgets only shrink.                                                    *)
LEMMA BudgetsShrink ==
    ASSUME PageTyped, [Next]_vars
    PROVE  load' = load /\ \A b \in Budgets : left'[b] <= left[b]
<1>1. \A b \in Budgets : left[b] \in Nat
  BY DEF PageTyped
<1>2. \A d \in Budgets : Spend(d) => \A b \in Budgets : left'[b] <= left[b]
  BY <1>1, Spent
<1>3. left' = left => \A b \in Budgets : left'[b] <= left[b]
  BY <1>1
<1>4. ASSUME NEW c \in Calls, Asked(c) PROVE load' = load /\ Spend("calls")
  BY <1>4, AskedRequest, NewRequestStarts
<1>5. ASSUME NEW c \in Calls, Progress(c) PROVE load' = load /\ left' = left
  BY <1>5 DEF Progress, Serve, Unauthorized, ResendLost, QueryReplied, UserLoaded, SignedIn,
              SignedOut, Submitted, Replied
<1>6. CASE ServeRefresh \/ Refreshed \/ RefreshFailed \/ SignOutLocally \/ ServeLate
           \/ LostSessionSignsOut \/ \E k \in DOMAIN bound : Resolve(k)
  BY <1>3, <1>6 DEF ServeRefresh, Refreshed, RefreshFailed, SignOutLocally, ServeLate,
                    LostSessionSignsOut, Resolve
<1>7. ASSUME \/ LoseRefresh \/ Reload \/ \E c \in Calls : Lose(c)
             \/ \E s \in DOMAIN server : ExpireAccess(s) \/ RevokeElsewhere(s)
      PROVE  load' = load /\ \E b \in Budgets : Spend(b)
  BY <1>7 DEF LoseRefresh, Reload, Lose, ExpireAccess, RevokeElsewhere, Budgets
<1>8. CASE SocketMoves
  BY <1>2, <1>3, <1>8 DEF SocketMoves, Spends, Budgets
<1> QED BY <1>2, <1>3, <1>4, <1>5, <1>6, <1>7, <1>8, StepsOfThePage
        DEF ClientNext, World, PageTyped, Budgets

(* Every step keeps StepsKnown.                                            *)
LEMMA StepsKnownStep ==
    ASSUME PageTyped, PageTyped', TokensIssued, StepsKnown, [Next]_vars
    PROVE  StepsKnown'
<1>1. \A c \in Calls : call'[c].step = "idle" <=> call'[c] = NoCall
  BY StepsOfCalls
<1>2. \A c \in Calls : call'[c].step = "waiting" => refresh'.state # "none"
  BY RefreshEnds DEF StepsKnown
<1>3. ASSUME NEW c \in Calls, call'[c].step = "waiting" PROVE call'[c].kind # "login"
  <2>1. CASE Waits(call[c], call'[c])
    BY <2>1, CallsTyped DEF Waits, Request
  <2> QED BY <1>3, <2>1, StepsOfCalls DEF StepsKnown
<1>4. ASSUME NEW f \in Forms, form'[f].key # 0 PROVE user' # 0
  <2>1. CASE FormsMoveOn
    <3>1. form' # Unmounted
      BY <1>4 DEF Unmounted, NextAttempt
    <3> QED BY <1>4, <2>1, <3>1, UserLeaves DEF FormsMoveOn, StepsKnown
  <2>2. CASE \E c \in Calls, g \in Forms : \E body \in Bodies(g) : Submit(c, g, body)
    BY <2>2 DEF Submit, Asks
  <2>3. CASE UNCHANGED form
    BY <2>1, <2>3 DEF FormsMoveOn, PageTyped
  <2>4. CASE QuietStep
    BY <2>1, <2>4 DEF QuietStep
  <2>5. CASE (\E c \in Calls : Serve(c) \/ Lose(c)) \/ ServeLate \/ \E k \in DOMAIN bound : Resolve(k)
    BY <2>3, <2>5 DEF Serve, Lose, ServeLate, Resolve, pageVars
  <2>6. CASE Reload
    BY <2>1, <2>6, UnmountedMovesOn DEF Reload
  <2> QED BY <2>2, <2>4, <2>5, <2>6, QuietSteps
<1>5. \A d \in {"losses", "calls"} : left'[d] <= load'.left[d]
  <2>1. ASSUME NEW d \in {"losses", "calls"} PROVE left'[d] <= load'.left[d]
    <3>1. d \in Budgets /\ load' = load
      BY BudgetsShrink DEF Budgets
    <3>2. left[d] \in Nat /\ left'[d] \in Nat /\ load.left[d] \in Nat
      BY <3>1, LoadsAssumption DEF PageTyped
    <3> QED BY <3>1, <3>2, BudgetsShrink DEF StepsKnown
  <2> QED BY <2>1
<1> QED BY <1>1, <1>2, <1>3, <1>4, <1>5, ExpiryKnown DEF StepsKnown

-----------------------------------------------------------------------------
(* What a step makes of the refresh tokens of the page.                    *)
Settled == refresh'.state = "none" /\ refresh'.token = Blank /\ refresh'.reply = Lost
TokensKept == UNCHANGED <<stored, refresh, presented>>
Cleared == stored' = Blank /\ presented' = presented /\ (refresh' = refresh \/ Settled)
Started ==
    /\ refresh.state = "none" /\ stored # Blank
    /\ refresh'.state = "sent" /\ refresh'.token = stored /\ refresh'.reply = Lost
    /\ stored' = stored /\ presented' = Append(presented, stored)
Renewed ==
    /\ refresh.state = "answered" /\ refresh.reply.code = "200"
    /\ stored' = refresh.reply.pair /\ Settled
    /\ presented' = presented
Adopted(c) ==
    /\ LoggedIn(c)
    /\ call' = [call EXCEPT ![c] = LoadingUser(call[c].reply.pair)]
    /\ stored' = call[c].reply.pair /\ UNCHANGED <<server, refresh, presented>>
RefreshGone ==
    /\ refresh'.state = "answered" /\ refresh'.token = refresh.token /\ refresh'.reply = Lost
    /\ UNCHANGED <<stored, presented>>
Forgotten == Settled /\ stored' = stored /\ presented' = <<>>

(* Every step does one of these to the refresh tokens.                     *)
LEMMA TokenSteps ==
    ASSUME PageTyped, [Next]_vars
    PROVE  \/ TokensKept
           \/ /\ Cleared
              /\ \/ refresh.state = "none" /\ stored = Blank
                 \/ refresh.state = "answered" /\ refresh.reply.code # "200"
                 \/ stored = Blank
                 \/ \E c \in Calls : /\ call[c].step = "answered"
                                     /\ call[c].reply.code = "lost" \/ call[c].kind = "logout"
           \/ Started \/ Renewed \/ (\E c \in Calls : Adopted(c))
           \/ RefreshGone /\ disturbed'
           \/ Forgotten /\ (refresh.state # "none" => disturbed')
           \/ ServeRefresh
<1>1. LET r == [refresh EXCEPT !.state = "none", !.token = Blank, !.reply = Lost] IN
      r.state = "none" /\ r.token = Blank /\ r.reply = Lost
  BY DEF PageTyped
<1>2. ASSUME NEW c \in Calls, Asked(c) PROVE TokensKept
  BY <1>2, AskedRequest, NewRequestStarts DEF TokensKept
<1>3. ASSUME NEW c \in Calls, Unauthorized(c)
      PROVE  \/ TokensKept \/ Started
             \/ Cleared /\ stored = Blank
  <2>1. CASE refresh.state = "none" /\ stored = Blank /\ Expire({c}) /\ UNCHANGED <<refresh, presented>>
    BY <2>1 DEF Expire, ClearSession, Cleared
  <2>2. CASE RefreshOnce(c) /\ UNCHANGED <<access, stored, user, form>>
             /\ (refresh.state # "none" \/ stored # Blank)
    BY <2>2 DEF RefreshOnce, Started, TokensKept
  <2> QED BY <1>3, <2>1, <2>2 DEF Unauthorized
<1>4. CASE Refreshed
  BY <1>1, <1>4 DEF Refreshed, Renewed, Settled, SetTokens
<1>5. CASE RefreshFailed
  BY <1>1, <1>5 DEF RefreshFailed, Cleared, Settled, Expire, ClearSession
<1>6. ASSUME NEW c \in Calls, ResendLost(c) PROVE Cleared /\ call[c].step = "answered" /\ call[c].reply.code = "lost"
  BY <1>6 DEF ResendLost, Cleared, Expire, ClearSession
<1>7. ASSUME NEW c \in Calls, SignedOut(c)
      PROVE  Cleared /\ call[c].step = "answered" /\ call[c].kind = "logout"
  BY <1>7 DEF SignedOut, Replied, Cleared, ClearSession
<1>8. ASSUME NEW c \in Calls, SignedIn(c) PROVE TokensKept \/ Adopted(c)
  BY <1>8 DEF SignedIn, Replied, TokensKept, Adopted, LoggedIn, SetTokens, serverVars
<1>9. ASSUME NEW c \in Calls, Serve(c) \/ QueryReplied(c) \/ UserLoaded(c) \/ Submitted(c) \/ Lose(c)
      PROVE  TokensKept
  BY <1>9 DEF Serve, QueryReplied, UserLoaded, Submitted, Lose, Replied, TokensKept
<1>10. CASE SignOutLocally
  BY <1>10 DEF SignOutLocally, Cleared, ClearSession
<1>11. CASE LoseRefresh
  BY <1>11 DEF LoseRefresh, RefreshGone, PageTyped
<1>12. CASE Reload
  BY <1>12 DEF Reload, Forgotten, Settled
<1>13. CASE \/ ServeLate \/ SocketMoves \/ LostSessionSignsOut
            \/ \E s \in DOMAIN server : ExpireAccess(s) \/ RevokeElsewhere(s)
            \/ \E k \in DOMAIN bound : Resolve(k)
  BY <1>13 DEF ServeLate, SocketMoves, LostSessionSignsOut, ExpireAccess, RevokeElsewhere, Resolve,
               pageVars, TokensKept
<1> QED BY <1>2, <1>3, <1>4, <1>5, <1>6, <1>7, <1>8, <1>9, <1>10, <1>11, <1>12, <1>13,
           StepsOfThePage
        DEF ClientNext, Progress, World, PageTyped

(* Logins, and what their answer is.                                       *)
LEMMA LoginSteps ==
    ASSUME PageTyped, [Next]_vars, NEW c \in Calls
    PROVE  /\ call'[c].kind = "login" =>
                 \/ call[c].kind = "login"
                 \/ /\ \A d \in Calls : call[d].kind # "login"
                    /\ \A d \in Calls \ {c} : call'[d] = call[d]
           /\ LoggedIn(c)' =>
                 \/ LoggedIn(c) /\ call'[c] = call[c]
                 \/ /\ TokensKept /\ server' = Append(server, NewSession)
                    /\ call'[c].reply.pair = Pair(Len(server) + 1, 1)
<1>1. call[c] \in Request
  BY CallsTyped
<1> DEFINE Fine == /\ call'[c].kind = "login" => call[c].kind = "login"
                   /\ LoggedIn(c)' => LoggedIn(c) /\ call'[c] = call[c]
<1>2. CASE QuietCall(call[c], call'[c])
  <2>1. Fine
    BY <1>1, <1>2, QuietFields DEF LoggedIn
  <2> QED BY <2>1
<1>3. CASE call'[c] = call[c]
  BY <1>2, <1>3 DEF QuietCall
<1>4. ASSUME SignIn(c)
      PROVE  /\ \A d \in Calls : call[d].kind # "login"
             /\ \A d \in Calls \ {c} : call'[d] = call[d]
  <2>1. \A d \in Calls : call[d].kind # "login"
    BY <1>4 DEF SignIn, PageTyped
  <2> QED BY <1>4, <2>1 DEF SignIn, Asks, Starts, PageTyped
<1>5. CASE /\ call'[c].step = "sent" /\ call'[c].reply = Lost
           /\ call'[c].kind = "login" => SignIn(c)
  <2>1. ~LoggedIn(c)'
    BY <1>5 DEF LoggedIn
  <2> QED BY <1>5, <1>4, <2>1
<1>6. ASSUME NEW d \in Calls, Serve(d)
      PROVE  /\ call'[c].kind = call[c].kind
             /\ LoggedIn(c)' => \/ LoggedIn(c) /\ call'[c] = call[c]
                                \/ /\ TokensKept /\ server' = Append(server, NewSession)
                                   /\ call'[c].reply.pair = Pair(Len(server) + 1, 1)
  <2>1. PICK a \in Answers(call[d]) :
            Commit(a) /\ call' = [call EXCEPT ![d].step = "answered", ![d].reply = a.reply]
    BY <1>6 DEF Serve
  <2>2. CASE c # d
    BY <2>1, <2>2 DEF PageTyped, LoggedIn
  <2>3. CASE c = d
    <3>1. call'[c].kind = call[c].kind /\ call'[c].reply = a.reply
      BY <1>1, <2>1, <2>3 DEF PageTyped, Request
    <3>2. TokensKept
      BY <1>6 DEF Serve, TokensKept
    <3>3. ASSUME LoggedIn(c)' PROVE call[c].kind = "login" /\ a.reply.code = "200"
      BY <3>1, <3>3 DEF LoggedIn
    <3>4. ASSUME LoggedIn(c)' PROVE /\ a.server = Append(server, NewSession)
                                    /\ a.reply.pair = Pair(Len(server) + 1, 1)
      BY <1>1, <2>1, <2>3, <3>3, <3>4, Answered
    <3> QED BY <2>1, <3>1, <3>2, <3>4 DEF Commit
  <2> QED BY <2>2, <2>3
<1>7. ASSUME NEW d \in Calls, Lose(d)
      PROVE  call'[c].kind = call[c].kind /\ (LoggedIn(c)' => LoggedIn(c) /\ call'[c] = call[c])
  BY <1>1, <1>7, Replies DEF Lose, PageTyped, Request, LoggedIn
<1>8. CASE ServeLate \/ \E k \in DOMAIN bound : Resolve(k)
  BY <1>3, <1>8 DEF ServeLate, Resolve, pageVars
<1>9. CASE Reload
  <2>1. call'[c] = NoCall \/ call'[c] = LoadingUser(Blank)
    BY <1>9 DEF Reload, PageTyped
  <2> QED BY <1>2, <2>1, Vocabulary DEF QuietCall, LoadsUser
<1>10. ASSUME NEW d \in Calls, NEW f \in Forms, NEW body \in Bodies(f), Submit(d, f, body)
       PROVE  call'[c] = call[c] \/ (call'[c].kind # "login" /\ ~LoggedIn(c)')
  <2> DEFINE q == Submission(f, body)
  <2>1. q \in Request /\ q.kind = f /\ NewRequest(d, q)
    BY <1>10, SubmissionTyped, Submitting
  <2> HIDE DEF q
  <2> QED BY <2>1, NewRequestStarts, NumberedTyped DEF Forms, LoggedIn
<1>11. CASE QuietStep
  BY <1>2, <1>5, <1>11 DEF QuietStep
<1> QED BY <1>3, <1>6, <1>7, <1>8, <1>9, <1>10, <1>11, QuietSteps

-----------------------------------------------------------------------------
(* Each refresh token is presented once.                                   *)
LEMMA LastPresented ==
    ASSUME PageTyped, NEW t \in Token, presented' = Append(presented, t)
    PROVE  /\ Len(presented) \in Nat /\ DOMAIN presented = 1..Len(presented)
           /\ DOMAIN presented' = 1..(Len(presented) + 1)
           /\ presented'[Len(presented) + 1] = t
           /\ \A n \in DOMAIN presented : presented'[n] = presented[n]
  BY AppendProperties, LenProperties DEF PageTyped

(* The blank token is of no session.                                       *)
LEMMA BlankUnclaimed == Blank.session = 0
  BY DEF Blank

(* The session of a login stays unknown until it is taken over.            *)
LEMMA LoginsStayFresh ==
    ASSUME PageTyped, TokensIssued, OnceInv, [Next]_vars, NEW c \in Calls, LoggedIn(c)',
           NEW s, s = call'[c].reply.pair.session
    PROVE  Unclaimed(s)'
<1> DEFINE Free(t) == t.session # s
<1>0. \A r \in DOMAIN server : r \in Nat \ {0} /\ r \in DOMAIN server'
  BY SessionsTyped, ServerGrows DEF Grown
<1>1. CASE /\ TokensKept /\ server' = Append(server, NewSession)
           /\ call'[c].reply.pair = Pair(Len(server) + 1, 1)
  <2>1. s = Len(server) + 1 /\ s \in DOMAIN server' /\ s \notin DOMAIN server /\ s # 0
    <3>1. NewSession \in Session /\ server \in Seq(Session)
      BY Vocabulary DEF PageTyped
    <3>2. Len(server) \in Nat /\ DOMAIN server = 1..Len(server)
      BY SessionsTyped
    <3>3. DOMAIN server' = 1..(Len(server) + 1)
      BY <1>1, <3>1, AppendProperties, LenProperties
    <3> QED BY <1>1, <3>2, <3>3 DEF Pair
  <2>2. \A t : Issued(t) => Free(t)
    BY <2>1, BlankUnclaimed DEF Issued, IssuedBy
  <2> QED BY <1>1, <2>1, <2>2 DEF Unclaimed, TokensIssued, TokensKept
<1>2. CASE LoggedIn(c) /\ call'[c] = call[c]
  <2>1. /\ s \in DOMAIN server' /\ s # 0
        /\ Free(stored) /\ Free(refresh.token) /\ Free(refresh.reply.pair)
        /\ \A n \in DOMAIN presented : Free(presented[n])
    BY <1>0, <1>2 DEF OnceInv, LoginFresh, Unclaimed
  <2>2. Free(Blank) /\ Free(Lost.pair)
    BY <2>1, BlankUnclaimed, Replies
  <2>3. ASSUME Free(stored'), Free(refresh'.token), Free(refresh'.reply.pair),
               \A n \in DOMAIN presented' : Free(presented'[n])
        PROVE  Unclaimed(s)'
    BY <2>1, <2>3 DEF Unclaimed
  <2> HIDE DEF Free
  <2>4. CASE TokensKept
    BY <2>1, <2>3, <2>4 DEF TokensKept
  <2>5. CASE Cleared
    BY <2>1, <2>2, <2>3, <2>5 DEF Cleared, Settled
  <2>6. CASE Started
    <3>1. \A n \in DOMAIN presented' : Free(presented'[n])
      BY <2>1, <2>6, LastPresented, TokensTyped DEF Started
    <3> QED BY <2>1, <2>2, <2>3, <2>6, <3>1 DEF Started
  <2>7. CASE Renewed
    BY <2>1, <2>2, <2>3, <2>7 DEF Renewed, Settled
  <2>8. ~\E d \in Calls : Adopted(d)
    <3> SUFFICES ASSUME NEW d \in Calls, Adopted(d) PROVE FALSE
      OBVIOUS
    <3>1. d = c
      BY <1>2 DEF OnceInv, OneLogin, Adopted, LoggedIn
    <3>2. call'[c].kind = "me"
      BY <3>1, LoadingTyped, TokensTyped DEF Adopted, PageTyped
    <3> QED BY <1>2, <3>2 DEF LoggedIn
  <2>9. CASE RefreshGone
    BY <2>1, <2>2, <2>3, <2>9 DEF RefreshGone
  <2>10. CASE Forgotten
    <3>1. DOMAIN presented' = {}
      BY <2>10 DEF Forgotten
    <3> QED BY <2>1, <2>2, <2>3, <2>10, <3>1 DEF Forgotten, Settled
  <2>11. CASE ServeRefresh
    <3>1. RefreshServed(refresh.token.session)
      BY <2>11, TypedServeRefresh
    <3>2. refresh'.token = refresh.token
          /\ (refresh'.reply.pair = Blank \/ refresh'.reply.pair.session = refresh.token.session)
      BY <3>1 DEF RefreshServed, Pair
    <3>3. Free(refresh'.reply.pair)
      BY <2>1, <2>2, <3>2 DEF Free
    <3> QED BY <2>1, <2>3, <2>11, <3>2, <3>3 DEF ServeRefresh
  <2> QED BY <2>4, <2>5, <2>6, <2>7, <2>8, <2>9, <2>10, <2>11, TokenSteps
<1> QED BY <1>1, <1>2, LoginSteps

(* The stored token is fresh, and presenting it keeps them apart.          *)
LEMMA PresentedStep ==
    ASSUME PageTyped, TokensIssued, OnceInv, [Next]_vars
    PROVE  StoredFresh' /\ ReplyFresh' /\ RefreshPresentedOnce'
<1>0. /\ \A n \in DOMAIN presented : presented[n] = stored => refresh.state # "none"
      /\ \A n \in DOMAIN presented : presented[n] # Blank
      /\ \A m, n \in DOMAIN presented : presented[m] = presented[n] => m = n
      /\ refresh.state = "answered" /\ refresh.reply.code = "200" =>
            /\ refresh.reply.pair # Blank
            /\ \A n \in DOMAIN presented : presented[n] # refresh.reply.pair
  BY DEF OnceInv, StoredFresh, ReplyFresh, RefreshPresentedOnce, TokensIssued
<1>1. CASE TokensKept
  BY <1>0, <1>1 DEF TokensKept, StoredFresh, ReplyFresh, RefreshPresentedOnce
<1>2. CASE Cleared
  BY <1>0, <1>2 DEF Cleared, Settled, StoredFresh, ReplyFresh, RefreshPresentedOnce
<1>3. CASE Started
  <2> DEFINE l == Len(presented) + 1
  <2>1. /\ Len(presented) \in Nat /\ DOMAIN presented = 1..Len(presented)
        /\ DOMAIN presented' = 1..l /\ presented'[l] = stored
        /\ \A n \in DOMAIN presented : presented'[n] = presented[n] /\ presented[n] # stored
    BY <1>0, <1>3, LastPresented, TokensTyped DEF Started
  <2>2. \A n \in DOMAIN presented' : n \in DOMAIN presented \/ n = l
    BY <2>1
  <2> HIDE DEF l
  <2>3. RefreshPresentedOnce'
    BY <1>0, <2>1, <2>2 DEF RefreshPresentedOnce
  <2> QED BY <1>3, <2>3 DEF Started, StoredFresh, ReplyFresh
<1>4. CASE Renewed
  BY <1>0, <1>4 DEF Renewed, Settled, StoredFresh, ReplyFresh, RefreshPresentedOnce
<1>5. ASSUME NEW c \in Calls, Adopted(c) PROVE StoredFresh' /\ ReplyFresh' /\ RefreshPresentedOnce'
  <2>1. Unclaimed(call[c].reply.pair.session)
    BY <1>5 DEF Adopted, OnceInv, LoginFresh
  <2>2. \A n \in DOMAIN presented : presented[n] # stored'
    BY <1>5, <2>1 DEF Adopted, Unclaimed
  <2> QED BY <1>0, <1>5, <2>2 DEF Adopted, StoredFresh, ReplyFresh, RefreshPresentedOnce
<1>6. CASE RefreshGone
  BY <1>0, <1>6, Replies DEF RefreshGone, StoredFresh, ReplyFresh, RefreshPresentedOnce
<1>7. CASE Forgotten
  BY <1>7 DEF Forgotten, Settled, StoredFresh, ReplyFresh, RefreshPresentedOnce
<1>8. CASE ServeRefresh
  <2> DEFINE s == refresh.token.session
  <2>1. RefreshServed(s) /\ presented' = presented /\ stored' = stored
    BY <1>8, TypedServeRefresh DEF ServeRefresh
  <2>2. CASE GoodRefresh
    <3>1. refresh'.reply.pair = Pair(s, server[s].newest + 1) /\ s \in DOMAIN server
          /\ server[s].newest \in Nat
      BY <2>1, <2>2, SessionsTyped DEF RefreshServed
    <3>2. \A t : Issued(t) => t # refresh'.reply.pair
      BY <3>1, BlankUnclaimed, SessionsTyped DEF Issued, IssuedBy, Pair
    <3>3. refresh'.reply.pair # Blank /\ \A n \in DOMAIN presented : presented[n] # refresh'.reply.pair
      BY <3>2 DEF TokensIssued, Issued, IssuedBy
    <3> QED BY <1>0, <2>1, <3>3 DEF RefreshServed, StoredFresh, ReplyFresh, RefreshPresentedOnce
  <2>3. CASE ~GoodRefresh
    BY <1>0, <2>1, <2>3 DEF RefreshServed, StoredFresh, ReplyFresh, RefreshPresentedOnce
  <2> QED BY <2>2, <2>3
<1> QED BY <1>1, <1>2, <1>3, <1>4, <1>5, <1>6, <1>7, <1>8, TokenSteps

(* Every step keeps the refresh tokens apart.                              *)
LEMMA OnceStep ==
    ASSUME PageTyped, TokensIssued, OnceInv, [Next]_vars
    PROVE  OnceInv'
<1>1. OneLogin'
  <2> SUFFICES ASSUME NEW c \in Calls, NEW d \in Calls, call'[c].kind = "login",
                      call'[d].kind = "login"
               PROVE  c = d
    BY DEF OneLogin
  <2>1. call[c].kind = "login" /\ call[d].kind = "login" => c = d
    BY DEF OnceInv, OneLogin
  <2>2. ASSUME NEW e \in Calls, NEW f \in Calls, call'[f].kind = "login",
               \A g \in Calls : call[g].kind # "login", \A g \in Calls \ {e} : call'[g] = call[g]
        PROVE  f = e
    BY <2>2
  <2> QED BY <2>1, <2>2, LoginSteps
<1>2. LoginFresh'
  <2>1. ASSUME NEW c \in Calls, LoggedIn(c)', NEW s, s = call'[c].reply.pair.session
        PROVE  /\ s \in DOMAIN server'
               /\ stored'.session # s /\ refresh'.token.session # s
               /\ refresh'.reply.pair.session # s
               /\ \A n \in DOMAIN presented' : presented'[n].session # s
    BY <2>1, LoginsStayFresh DEF Unclaimed
  <2> QED BY <2>1 DEF LoginFresh, Unclaimed
<1> QED BY <1>1, <1>2, PresentedStep DEF OnceInv

-----------------------------------------------------------------------------
(* A session ends because somebody ends it.                                *)
LEMMA NothingHappened ==
    ASSUME PageTyped, [Next]_vars, Undisturbed'
    PROVE  /\ Undisturbed
           /\ ~LoseRefresh /\ (\A c \in Calls : ~Lose(c)) /\ \A s : ~RevokeElsewhere(s)
<1>1. disturbed \in BOOLEAN
  BY DEF PageTyped
<1>2. ~LoseRefresh /\ (\A c \in Calls : ~Lose(c)) /\ \A s : ~RevokeElsewhere(s)
  BY DEF LoseRefresh, Lose, RevokeElsewhere, Undisturbed
<1>3. leaving \subseteq leaving' /\ (disturbed => disturbed')
  <2>1. ASSUME NEW c \in Calls, Asked(c) PROVE leaving \subseteq leaving' /\ disturbed' = disturbed
    BY <2>1, AskedRequest, NewRequestStarts DEF Asked, Fetch, SignIn, SignOut, Submit
  <2>2. ASSUME NEW c \in Calls, Progress(c) PROVE leaving' = leaving /\ disturbed' = disturbed
    BY <2>2 DEF Progress, Serve, Unauthorized, ResendLost, QueryReplied, UserLoaded, SignedIn,
                SignedOut, Submitted, Replied
  <2>3. CASE ServeRefresh \/ Refreshed \/ RefreshFailed \/ SignOutLocally \/ ServeLate
             \/ LostSessionSignsOut \/ SocketMoves \/ \E k \in DOMAIN bound : Resolve(k)
    BY <2>3 DEF ServeRefresh, Refreshed, RefreshFailed, SignOutLocally, ServeLate,
                LostSessionSignsOut, SocketMoves, Resolve
  <2>4. CASE Reload
    BY <1>1, <2>4 DEF Reload
  <2>5. CASE \E s \in DOMAIN server : ExpireAccess(s)
    BY <2>5 DEF ExpireAccess
  <2> QED BY <1>2, <2>1, <2>2, <2>3, <2>4, <2>5, StepsOfThePage
          DEF ClientNext, World, PageTyped
<1> QED BY <1>1, <1>2, <1>3 DEF Undisturbed

(* Then no session was revoked, and the newest token is what it was or     *)
(* what the refresh issued.                                                *)
LEMMA SessionsKept ==
    ASSUME PageTyped, TokensIssued, SurvivesInv, [Next]_vars, Undisturbed', ~ServeRefresh
    PROVE  /\ \A s \in DOMAIN server' : ~server'[s].revoked
           /\ \A t : NewestOf(server, t) => NewestOf(server', t)
<1>0. /\ Undisturbed /\ \A s : ~RevokeElsewhere(s)
      /\ \A s \in DOMAIN server : ~server[s].revoked
      /\ \A c \in Calls : call[c].kind # "logout"
      /\ \A q \in limbo : q.kind # "logout"
  BY NothingHappened DEF SurvivesInv
<1>1. CASE UNCHANGED server
  BY <1>0, <1>1
<1>2. ASSUME NEW q \in Request, q.kind # "logout", NEW a \in Answers(q), Commit(a)
      PROVE  /\ \A s \in DOMAIN server' : ~server'[s].revoked
             /\ \A t : NewestOf(server, t) => NewestOf(server', t)
  <2>1. CASE server' = Append(server, NewSession)
    <3>1. NewSession \in Session /\ ~NewSession.revoked
      BY Vocabulary DEF NewSession
    <3>2. /\ \A s \in DOMAIN server : s \in DOMAIN server' /\ server'[s] = server[s]
          /\ \A s \in DOMAIN server' : s \in DOMAIN server \/ server'[s] = NewSession
      BY <2>1, <3>1, AppendProperties, LenProperties DEF PageTyped
    <3> QED BY <1>0, <3>1, <3>2 DEF NewestOf
  <2> QED BY <1>1, <1>2, <2>1, Answered DEF Commit
<1>3. ASSUME NEW s \in DOMAIN server, ExpireAccess(s)
      PROVE  /\ \A r \in DOMAIN server' : ~server'[r].revoked
             /\ \A t : NewestOf(server, t) => NewestOf(server', t)
  <2>1. server' = [server EXCEPT ![s].expired = server[s].newest] /\ server[s] \in Session
    BY <1>3, SessionsTyped DEF ExpireAccess
  <2>2. DOMAIN server' = DOMAIN server /\ \A r \in DOMAIN server \ {s} : server'[r] = server[r]
    BY <2>1 DEF PageTyped
  <2>3. server'[s].newest = server[s].newest /\ server'[s].revoked = server[s].revoked
    BY <2>1 DEF PageTyped, Session
  <2> QED BY <1>0, <2>2, <2>3 DEF NewestOf
<1>4. ASSUME NEW c \in Calls, Serve(c)
      PROVE  /\ \A s \in DOMAIN server' : ~server'[s].revoked
             /\ \A t : NewestOf(server, t) => NewestOf(server', t)
  BY <1>0, <1>2, <1>4, CallsTyped DEF Serve
<1>5. CASE ServeLate
  BY <1>0, <1>2, <1>5 DEF ServeLate, PageTyped
<1>6. ASSUME NEW c \in Calls, Progress(c), ~Serve(c) PROVE UNCHANGED server
  BY <1>6 DEF Progress, Unauthorized, ResendLost, QueryReplied, UserLoaded, SignedIn, SignedOut,
              Submitted, Replied, serverVars
<1>7. ASSUME NEW c \in Calls, Asked(c) PROVE UNCHANGED server
  BY <1>7 DEF Asked, Fetch, SignIn, SignOut, Submit, Asks, serverVars
<1>8. CASE \/ Refreshed \/ RefreshFailed \/ SignOutLocally \/ LoseRefresh \/ Reload \/ SocketMoves
           \/ LostSessionSignsOut \/ (\E c \in Calls : Lose(c))
           \/ (\E k \in DOMAIN bound : Resolve(k))
  BY <1>1, <1>8 DEF Refreshed, RefreshFailed, SignOutLocally, LoseRefresh, Reload, SocketMoves,
              LostSessionSignsOut, Lose, Resolve, serverVars
<1> QED BY <1>0, <1>1, <1>3, <1>4, <1>5, <1>6, <1>7, <1>8, StepsOfThePage
        DEF ClientNext, World, PageTyped

(* Then no request was lost and no sign-out made.                          *)
LEMMA CallsSurvive ==
    ASSUME PageTyped, SurvivesInv, [Next]_vars, Undisturbed'
    PROVE  /\ \A c \in Calls :
                 /\ call'[c].kind # "logout"
                 /\ call'[c].step = "answered" => call'[c].reply.code # "lost"
           /\ \A q \in limbo' : q.kind # "logout"
<1>0. /\ \A c \in Calls : ~Lose(c)
      /\ leaving' = {}
      /\ \A q \in limbo : q.kind # "logout"
      /\ \A c \in Calls : /\ call[c].kind # "logout"
                          /\ call[c].step = "answered" => call[c].reply.code # "lost"
  BY NothingHappened DEF SurvivesInv, Undisturbed
<1>1. CASE QuietStep
  <2>1. ASSUME NEW c \in Calls, QuietCall(call[c], call'[c])
        PROVE  /\ call'[c].kind # "logout"
               /\ call'[c].step = "answered" => call'[c].reply.code # "lost"
    <3>1. call[c] \in Request
      BY CallsTyped
    <3>2. CASE call'[c] = call[c] \/ call'[c] = NoCall
      BY <1>0, <3>2, NoCallTyped
    <3>3. CASE Waits(call[c], call'[c])
      BY <1>0, <3>1, <3>3 DEF Waits, Request
    <3>4. CASE Resends(call[c], call'[c])
      BY <1>0, <3>1, <3>4 DEF Resends, Again, Request
    <3>5. CASE LoadsUser(call'[c])
      BY <3>5, LoadingTyped DEF LoadsUser
    <3> QED BY <2>1, <3>2, <3>3, <3>4, <3>5 DEF QuietCall
  <2> QED BY <1>0, <1>1, <2>1 DEF QuietStep
<1>2. ASSUME NEW c \in Calls, Serve(c)
      PROVE  \A d \in Calls : /\ call'[d].kind # "logout"
                              /\ call'[d].step = "answered" => call'[d].reply.code # "lost"
  <2>1. PICK a \in Answers(call[c]) :
            call' = [call EXCEPT ![c].step = "answered", ![c].reply = a.reply]
    BY <1>2 DEF Serve
  <2>2. a.reply.code # "lost"
    BY <2>1, Answered, CallsTyped
  <2>3. call'[c].kind = call[c].kind /\ call'[c].reply = a.reply
        /\ \A d \in Calls \ {c} : call'[d] = call[d]
    BY <2>1 DEF PageTyped, Request
  <2> QED BY <1>0, <2>2, <2>3
<1>3. CASE Reload
  <2>1. \A c \in Calls : call'[c] = NoCall \/ call'[c] = LoadingUser(Blank)
    BY <1>3 DEF Reload, PageTyped
  <2>2. \A c \in Calls : call'[c].kind # "logout" /\ call'[c].step # "answered"
    BY <2>1, NoCallTyped, LoadingTyped, Vocabulary
  <2>3. \A q \in limbo' : q \in limbo \/ \E c \in Calls : q = call[c]
    BY <1>3 DEF Reload, PageTyped
  <2> QED BY <1>0, <2>2, <2>3
<1>4. ASSUME NEW c \in Calls, NEW f \in Forms, NEW body \in Bodies(f), Submit(c, f, body)
      PROVE  /\ limbo' = limbo
             /\ \A d \in Calls : /\ call'[d].kind # "logout"
                                 /\ call'[d].step = "answered" => call'[d].reply.code # "lost"
  <2> DEFINE q == Submission(f, body)
  <2>1. q \in Request /\ q.kind = f /\ NewRequest(c, q)
    BY SubmissionTyped, <1>4, Submitting
  <2> HIDE DEF q
  <2>2. limbo' = limbo /\ call'[c].kind = f /\ call'[c].step = "sent"
        /\ \A d \in Calls \ {c} : call'[d] = call[d]
    BY <2>1, NewRequestStarts, NumberedTyped DEF serverVars
  <2> QED BY <1>0, <2>2 DEF Forms
<1>5. CASE ServeLate \/ \E k \in DOMAIN bound : Resolve(k)
  BY <1>0, <1>5 DEF ServeLate, Resolve, pageVars
<1>6. CASE \E c \in Calls : Serve(c)
  BY <1>0, <1>2, <1>6 DEF Serve
<1> QED BY <1>0, <1>1, <1>3, <1>4, <1>5, <1>6, QuietSteps

(* Then the refresh was served with the newest token, and has it.          *)
LEMMA RefreshSurvives ==
    ASSUME PageTyped, TokensIssued, OnceInv, SurvivesInv, Undisturbed, ServeRefresh
    PROVE  /\ \A s \in DOMAIN server' : ~server'[s].revoked
           /\ refresh'.state = "answered" /\ refresh'.reply.code = "200"
           /\ NewestOf(server', refresh'.reply.pair)
           /\ \A c \in Calls : LoggedIn(c) => NewestOf(server', call[c].reply.pair)
<1> DEFINE s == refresh.token.session
<1>1. RefreshServed(s) /\ NewestOf(server, refresh.token)
  BY TypedServeRefresh DEF SurvivesInv, ServeRefresh, IsNewest
<1>2. GoodRefresh
  BY <1>1, TokensTyped DEF GoodRefresh, NewestOf, SurvivesInv, Newest, Pair, Token
<1>3. /\ s \in DOMAIN server /\ DOMAIN server' = DOMAIN server
      /\ \A r \in DOMAIN server \ {s} : server'[r] = server[r]
      /\ server'[s].newest = server[s].newest + 1 /\ ~server'[s].revoked
      /\ refresh'.state = "answered" /\ refresh'.reply.code = "200"
      /\ refresh'.reply.pair = Pair(s, server[s].newest + 1)
  BY <1>1, <1>2 DEF RefreshServed, Patched
<1>4. s # 0 /\ server[s].newest \in Nat
  BY <1>3, SessionsTyped
<1>5. refresh'.reply.pair # Blank
  BY <1>3, <1>4 DEF Pair, Blank
<1>6. ASSUME NEW c \in Calls, LoggedIn(c) PROVE NewestOf(server', call[c].reply.pair)
  <2>1. NewestOf(server, call[c].reply.pair) /\ call[c].reply.pair.session # s
    BY <1>6 DEF SurvivesInv, IsNewest, OnceInv, LoginFresh, Unclaimed
  <2> QED BY <1>3, <2>1 DEF NewestOf
<1> QED BY <1>3, <1>5, <1>6 DEF NewestOf, Pair, SurvivesInv

(* Every step keeps the sessions alive.                                    *)
LEMMA SurvivesStep ==
    ASSUME PageTyped, TokensIssued, OnceInv, SurvivesInv, [Next]_vars
    PROVE  SurvivesInv'
<1> SUFFICES ASSUME Undisturbed'
             PROVE  /\ stored' # Blank
                    /\ \A s \in DOMAIN server' : ~server'[s].revoked
                    /\ refresh'.state # "answered" => NewestOf(server', stored')
                    /\ refresh'.state = "sent" => NewestOf(server', refresh'.token)
                    /\ refresh'.state = "answered" =>
                          refresh'.reply.code = "200" /\ NewestOf(server', refresh'.reply.pair)
                    /\ \A c \in Calls : LoggedIn(c)' => NewestOf(server', call'[c].reply.pair)
  BY CallsSurvive DEF SurvivesInv, IsNewest
<1>1. Undisturbed /\ ~disturbed'
  BY NothingHappened DEF Undisturbed
<1>2. /\ stored # Blank
      /\ refresh.state # "answered" => NewestOf(server, stored)
      /\ refresh.state = "sent" => NewestOf(server, refresh.token)
      /\ refresh.state = "answered" =>
            refresh.reply.code = "200" /\ NewestOf(server, refresh.reply.pair)
      /\ \A c \in Calls : LoggedIn(c) => NewestOf(server, call[c].reply.pair)
      /\ \A c \in Calls : /\ call[c].kind # "logout"
                          /\ call[c].step = "answered" => call[c].reply.code # "lost"
  BY <1>1 DEF SurvivesInv, IsNewest
<1>3. CASE ServeRefresh
  <2>1. stored' = stored /\ call' = call
    BY <1>3 DEF ServeRefresh
  <2> QED BY <1>1, <1>2, <1>3, <2>1, RefreshSurvives DEF LoggedIn
<1>4. CASE ~ServeRefresh
  <2>1. /\ \A s \in DOMAIN server' : ~server'[s].revoked
        /\ \A t : NewestOf(server, t) => NewestOf(server', t)
    BY <1>4, SessionsKept
  <2>2. ASSUME NEW c \in Calls, LoggedIn(c)' PROVE NewestOf(server', call'[c].reply.pair)
    <3>1. CASE LoggedIn(c) /\ call'[c] = call[c]
      BY <1>2, <2>1, <3>1
    <3>2. CASE server' = Append(server, NewSession) /\ call'[c].reply.pair = Pair(Len(server) + 1, 1)
      <4> DEFINE l == Len(server) + 1
      <4>1. NewSession \in Session /\ NewSession.newest = 1
        BY Vocabulary DEF NewSession
      <4>2. l \in DOMAIN server' /\ server'[l] = NewSession /\ l # 0
        BY <3>2, <4>1, AppendProperties, LenProperties, SessionsTyped DEF PageTyped
      <4> QED BY <3>2, <4>1, <4>2 DEF NewestOf, Pair, Blank
    <3> QED BY <2>2, <3>1, <3>2, LoginSteps
  <2>3. stored' # Blank
    <3>1. Renewed => NewestOf(server, stored')
      BY <1>2 DEF Renewed
    <3>2. \A c \in Calls : Adopted(c) => NewestOf(server, stored')
      BY <1>2 DEF Adopted
    <3>3. \A t : NewestOf(server, t) => t # Blank
      BY DEF NewestOf
    <3>4. refresh.state = "none" \/ refresh.state = "answered" => NewestOf(server, stored) \/ refresh.reply.code = "200"
      BY <1>2
    <3> QED BY <1>1, <1>2, <1>4, <3>1, <3>2, <3>3, <3>4, TokenSteps
            DEF TokensKept, Started, RefreshGone, Forgotten
  <2>4. /\ refresh'.state # "answered" => NewestOf(server, stored')
        /\ refresh'.state = "sent" => NewestOf(server, refresh'.token)
        /\ refresh'.state = "answered" =>
              refresh'.reply.code = "200" /\ NewestOf(server, refresh'.reply.pair)
    <3>1. CASE TokensKept
      BY <1>2, <3>1 DEF TokensKept
    <3>2. CASE Started
      BY <1>2, <3>2 DEF Started
    <3>3. CASE Renewed
      BY <1>2, <3>3 DEF Renewed, Settled
    <3>4. CASE \E c \in Calls : Adopted(c)
      BY <1>2, <3>4 DEF Adopted
    <3>5. CASE Forgotten /\ refresh.state = "none"
      BY <1>2, <3>5 DEF Forgotten, Settled
    <3> QED BY <1>1, <1>2, <1>4, <2>3, <3>1, <3>2, <3>3, <3>4, <3>5, TokenSteps DEF Cleared
  <2> QED BY <2>1, <2>2, <2>3, <2>4
<1> QED BY <1>3, <1>4

-----------------------------------------------------------------------------
(* The first state.                                                        *)
LEMMA FirstPage ==
    ASSUME Init
    PROVE  /\ server = <<NewSession>> /\ DOMAIN server = {1}
           /\ server[1].newest = 1 /\ server[1].expired = 0 /\ ~server[1].revoked
           /\ DOMAIN bound = {} /\ DOMAIN presented = {}
           /\ limbo = {} /\ access = Pair(1, 1) /\ stored = Pair(1, 1) /\ user = 1
           /\ refresh.state = "none" /\ refresh.token = Blank /\ refresh.reply = Lost
           /\ \A c \in Calls : call[c] = NoCall
           /\ \A f \in Forms : form[f].key = 0 /\ form[f].notice = NoNotice
           /\ load \in Loads /\ left = load.left
<1>1. server = <<NewSession>> /\ bound = <<>> /\ presented = <<>>
  BY DEF Init, ClientInit
<1>2. DOMAIN server = {1} /\ server[1] = NewSession
  BY <1>1
<1> QED BY <1>1, <1>2 DEF Init, ClientInit, Calls, NewSession

(* It is typed.                                                            *)
LEMMA FirstTyped == Init => PageTyped
<1> SUFFICES ASSUME Init PROVE PageTyped
  OBVIOUS
<1>1. server \in Seq(Session)
  <2>1. server = <<NewSession>> /\ NewSession \in Session
    BY FirstPage, Vocabulary
  <2> QED BY <2>1
<1>2. DOMAIN bound \subseteq Nat /\ bound \in [DOMAIN bound -> RowType] /\ presented \in Seq(Token)
  <2>1. bound = <<>> /\ presented = <<>>
    BY DEF Init, ClientInit
  <2> QED BY <2>1, EmptySeq
<1>3. call \in [Calls -> Request]
  BY NoCallTyped DEF Init, ClientInit, Calls
<1>4. form \in [Forms -> [attempt : Nat, key : Nat, notice : Notice]]
  BY Vocabulary DEF Init, ClientInit
<1>5. left \in [Budgets -> Nat]
  BY FirstPage, LoadsAssumption
<1>6. refresh \in [state : {"none", "sent", "answered"}, token : Token, reply : Reply]
  BY Vocabulary, Replies DEF Init, ClientInit
<1>7. /\ disturbed = FALSE
      /\ load \in Loads /\ limbo = {} /\ user \in 0..2 /\ access \in Token /\ stored \in Token
  BY FirstPage, Vocabulary DEF Init, ClientInit
<1> QED BY <1>1, <1>2, <1>3, <1>4, <1>5, <1>6, <1>7 DEF PageTyped

(* Every part of the invariant holds of it.                                *)
LEMMA FirstInvariants ==
    Init => /\ TokensIssued /\ StepsKnown /\ OnceInv /\ SurvivesInv
            /\ KeysInv /\ NumbersInv /\ RepliesTrue /\ NoticeIsTrue
<1> SUFFICES ASSUME Init
             PROVE  /\ TokensIssued /\ StepsKnown /\ OnceInv /\ SurvivesInv
                    /\ KeysInv /\ NumbersInv /\ RepliesTrue /\ NoticeIsTrue
  OBVIOUS
<1>1. Lost.pair = Blank /\ NoCall.reply = Lost /\ NoCall.kind = "none" /\ NoCall.step = "idle"
  BY Replies, NoCallTyped
<1>2. /\ \A c \in Calls : call[c] = NoCall /\ ~Moves(call[c]) /\ ~LoggedIn(c)
  BY <1>1, FirstPage DEF Moves, Forms, LoggedIn
<1>3. TokensIssued
  BY <1>1, <1>2, FirstPage DEF TokensIssued, Issued, IssuedBy, Pair
<1>4. StepsKnown
  <2>1. \A d \in {"losses", "calls"} : left[d] <= load.left[d]
    <3>1. \A d \in {"losses", "calls"} : left[d] = load.left[d] /\ load.left[d] \in Nat
      BY FirstPage, LoadsAssumption DEF Budgets
    <3> QED BY <3>1
  <2> QED BY <1>1, <1>2, <2>1, FirstPage DEF StepsKnown
<1>5. OnceInv
  BY <1>1, <1>2, FirstPage DEF OnceInv, OneLogin, LoginFresh, StoredFresh, ReplyFresh,
                               RefreshPresentedOnce
<1>6. SurvivesInv
  <2>1. Pair(1, 1) # Blank
    BY DEF Pair, Blank
  <2> QED BY <1>1, <1>2, <2>1, FirstPage DEF SurvivesInv, IsNewest, NewestOf, Pair
<1>7. KeysInv
  BY <1>1, <1>2, FirstPage DEF KeysInv, Uses, Forms
<1>8. NumbersInv
  BY <1>2, FirstPage DEF NumbersInv
<1>9. RepliesTrue
  BY <1>1, <1>2 DEF RepliesTrue
<1>10. NoticeIsTrue
  <2>1. NoNotice.text = "none"
    BY DEF NoNotice
  <2> QED BY <2>1, FirstPage DEF NoticeIsTrue
<1> QED BY <1>3, <1>4, <1>5, <1>6, <1>7, <1>8, <1>9, <1>10

(* The inductive invariant of the page.                                    *)
PageInv ==
    /\ PageTyped /\ TokensIssued /\ StepsKnown /\ OnceInv /\ SurvivesInv
    /\ KeysInv /\ NumbersInv /\ RepliesTrue /\ NoticeIsTrue

(* It holds of every step, those of the stream included.                   *)
LEMMA PageInvariant == Spec => []PageInv
<1>1. Init => PageInv
  BY FirstTyped, FirstInvariants DEF PageInv
<1>2. PageInv /\ [Next]_vars => PageInv'
  <2> SUFFICES ASSUME PageInv, [Next]_vars PROVE PageInv'
    OBVIOUS
  <2>1. PageTyped' /\ TokensIssued'
    BY TypedStep, IssuedStep DEF PageInv
  <2>2. StepsKnown'
    BY <2>1, StepsKnownStep DEF PageInv
  <2>3. OnceInv' /\ SurvivesInv'
    BY OnceStep, SurvivesStep DEF PageInv
  <2>4. KeysInv' /\ NumbersInv'
    BY <2>1, KeysStep, NumbersStep DEF PageInv
  <2>5. RepliesTrue' /\ NoticeIsTrue'
    BY <2>1, RepliesStep, NoticesStep DEF PageInv
  <2> QED BY <2>1, <2>2, <2>3, <2>4, <2>5 DEF PageInv
<1> QED BY <1>1, <1>2, PTL DEF Spec

(* However many requests get their 401 at once, and whatever is lost or    *)
(* late, a page load presents each refresh token once: the promise of      *)
(* client.ts that every concurrent 401 awaits the same refresh. (The       *)
(* server would take a second time for a replay.)                          *)
THEOREM RefreshTokensArePresentedOnce == Spec => []RefreshPresentedOnce
<1>1. PageInv => RefreshPresentedOnce
  BY DEF PageInv, OnceInv
<1> QED BY <1>1, PageInvariant, PTL

(* Without a loss, a revocation elsewhere or a sign-out, the page keeps    *)
(* its tokens and the server revokes no session, however expiries fall     *)
(* between requests, refreshes and resends (sendWithRefresh, refreshOnce). *)
THEOREM SessionsSurvive == Spec => []SessionSurvives
<1>1. PageInv => SessionSurvives
  BY DEF PageInv, SurvivesInv, Undisturbed, SessionSurvives
<1> QED BY <1>1, PageInvariant, PTL

(* One attempt of a form is one row of the server, whatever is lost, late, *)
(* resent after a refresh or submitted again (attemptKey of the transfer   *)
(* form and the order ticket).                                             *)
THEOREM AttemptsMoveOnce == Spec => []AttemptMovesOnce
<1>1. PageInv => AttemptMovesOnce
  <2> SUFFICES ASSUME PageInv, NEW j \in DOMAIN bound, NEW k \in DOMAIN bound,
                      bound[j].form = bound[k].form, bound[j].attempt = bound[k].attempt
               PROVE  j = k
    BY DEF AttemptMovesOnce
  <2>1. j \in Nat /\ k \in Nat /\ bound[j] \in RowType /\ KeysInv
    BY DEF PageInv, PageTyped
  <2>2. Uses(bound[j].form, bound[j].attempt, j) /\ Uses(bound[j].form, bound[j].attempt, k)
    BY DEF Uses
  <2>3. bound[j].form \in Forms /\ bound[j].attempt \in Nat
    BY <2>1 DEF RowType
  <2> QED BY <2>1, <2>2, <2>3 DEF KeysInv
<1> QED BY <1>1, PageInvariant, PTL

(* What a form tells the user of its submission is so: 'sent' of the       *)
(* movement it made, 'already sent' of one made before, 'filled' of a      *)
(* filled order (onSubmit).                                                *)
THEOREM NoticesAreTrue == Spec => []NoticeIsTrue
<1>1. PageInv => NoticeIsTrue
  BY DEF PageInv
<1> QED BY <1>1, PageInvariant, PTL

-----------------------------------------------------------------------------
(* The price stream.                                                       *)

(* The frames, to the server and back.                                     *)
UpFrame == [type : {"auth", "subscribe", "unsubscribe"}, token : Token, symbols : SUBSET Symbols]
DownFrame == [type : {"auth.ok", "close"}, code : {0, 4401, 4403}]

(* The types of the stream's variables.                                    *)
SocketTyped ==
    /\ ws \in {"none", "connecting", "open", "closing"}
    /\ up \in Seq(UpFrame) /\ down \in Seq(DownFrame)
    /\ wanted \in SUBSET Symbols /\ mounted \in SUBSET Symbols /\ prices \in SUBSET Symbols
    /\ connected \in BOOLEAN
    /\ authed \in Token

(* The tokens on the socket were issued.                                   *)
FramesIssued == Issued(authed) /\ \A n \in DOMAIN up : Issued(up[n].token)

(* Once the frames u are read, a consumer that streams p streams s.        *)
Streamed(u, p, s) ==
    \/ \E n \in DOMAIN u : /\ s \in u[n].symbols /\ u[n].type = "subscribe"
                           /\ \A m \in DOMAIN u : m > n => s \notin u[m].symbols
    \/ s \in p /\ \A n \in DOMAIN u : s \notin u[n].symbols

(* Why an authenticated socket streams what the screen shows: what the     *)
(* frames on their way add up to is never more than what is wanted, and is *)
(* all of it once auth.ok was read; what is wanted never exceeds what is   *)
(* mounted, and is that while the page is connected.                       *)
ScreenFollowed ==
    /\ user = 0 => mounted = {} /\ ~connected /\ ws = "none"
    /\ wanted \subseteq mounted
    /\ connected => wanted = mounted
    /\ ws \in {"none", "connecting"} => up = <<>> /\ down = <<>> /\ prices = {} /\ authed = Blank
    /\ ws = "open" => \A s \in Symbols : Streamed(up, prices, s) => s \in wanted
    /\ (ws = "open" /\ authed # Blank /\ \A n \in DOMAIN down : down[n].type # "auth.ok") =>
          connected /\ \A s \in wanted : Streamed(up, prices, s)
    /\ \A n \in DOMAIN up : up[n].type = "auth" => up[n].symbols = {}

-----------------------------------------------------------------------------
(* What is streamed once the frames on their way are read.                 *)
LEMMA FramesTyped ==
    /\ \A t \in Token : Auth(t) \in UpFrame /\ Auth(t).type = "auth" /\ Auth(t).token = t
                        /\ Auth(t).symbols = {}
    /\ \A S \in SUBSET Symbols :
          /\ Subscribing(S) \in UpFrame /\ Subscribing(S).type = "subscribe"
          /\ Subscribing(S).token = Blank /\ Subscribing(S).symbols = S
          /\ Unsubscribing(S) \in UpFrame /\ Unsubscribing(S).type = "unsubscribe"
          /\ Unsubscribing(S).token = Blank /\ Unsubscribing(S).symbols = S
<1>1. Blank \in Token
  BY Vocabulary
<1> QED BY <1>1 DEF Auth, Subscribing, Unsubscribing, UpFrame

(* w is u, and a last frame f unless there is none to send.                *)
Adds(u, none, f, w) ==
    /\ w \in Seq(UpFrame)
    /\ \A n \in DOMAIN w : w[n] = f \/ (n \in DOMAIN u /\ w[n] = u[n])
    /\ \A p, s : Streamed(w, p, s) <=>
          IF none \/ s \notin f.symbols THEN Streamed(u, p, s) ELSE f.type = "subscribe"

LEMMA Adding ==
    ASSUME NEW u \in Seq(UpFrame), NEW f \in UpFrame, NEW none \in BOOLEAN, NEW w,
           w = u \o (IF none THEN <<>> ELSE <<f>>)
    PROVE  Adds(u, none, f, w)
<1>1. CASE none
  <2>1. w = u
    BY <1>1, ConcatEmptySeq
  <2> QED BY <1>1, <2>1 DEF Adds
<1>2. CASE ~none
  <2> DEFINE l == Len(u) + 1
  <2>1. w = u \o <<f>> /\ <<f>> \in Seq(UpFrame) /\ Len(<<f>>) = 1 /\ <<f>>[1] = f
    BY <1>2
  <2>2. Len(u) \in Nat /\ DOMAIN u = 1..Len(u)
    BY LenProperties
  <2>3. /\ w \in Seq(UpFrame) /\ Len(w) = l
        /\ \A n \in 1..l : w[n] = IF n <= Len(u) THEN u[n] ELSE <<f>>[n - Len(u)]
    BY <2>1, <2>2, ConcatProperties
  <2>4. DOMAIN w = 1..l
    BY <2>3, LenProperties
  <2>5. w[l] = f /\ l \in DOMAIN w /\ \A n \in DOMAIN u : n \in DOMAIN w /\ w[n] = u[n] /\ l > n
    BY <2>1, <2>2, <2>3, <2>4
  <2>6. \A n \in DOMAIN w : n \in DOMAIN u \/ n = l
    BY <2>2, <2>4
  <2>7. \A n \in DOMAIN u : ~(n > l) /\ ~(l > l)
    BY <2>2
  <2> HIDE DEF l
  <2>8. ASSUME NEW p, NEW s, s \in f.symbols
        PROVE  Streamed(w, p, s) <=> f.type = "subscribe"
    <3>1. f.type = "subscribe" => Streamed(w, p, s)
      BY <2>5, <2>6, <2>7, <2>8 DEF Streamed
    <3>2. Streamed(w, p, s) => f.type = "subscribe"
      BY <2>5, <2>6, <2>8 DEF Streamed
    <3> QED BY <3>1, <3>2
  <2>9. ASSUME NEW p, NEW s, s \notin f.symbols
        PROVE  Streamed(w, p, s) <=> Streamed(u, p, s)
    BY <2>5, <2>6, <2>9 DEF Streamed
  <2> QED BY <1>2, <2>3, <2>5, <2>6, <2>8, <2>9 DEF Adds
<1> QED BY <1>1, <1>2

(* Reading the first frame changes nothing of it.                          *)
LEMMA Reading ==
    ASSUME NEW u \in Seq(UpFrame), u # <<>>, NEW p, NEW q, NEW s,
           s \in q <=> IF s \in Head(u).symbols THEN Head(u).type = "subscribe" ELSE s \in p
    PROVE  Streamed(Tail(u), q, s) <=> Streamed(u, p, s)
<1> DEFINE f == Head(u)
           v == Tail(u)
<1>1. Len(u) \in Nat /\ DOMAIN u = 1..Len(u) /\ Len(u) # 0
  BY LenProperties, EmptySeq
<1>2. v \in Seq(UpFrame) /\ Len(v) = Len(u) - 1 /\ \A n \in 1..Len(v) : v[n] = u[n + 1]
  BY HeadTailProperties
<1>3. DOMAIN v = 1..Len(v)
  BY <1>2, LenProperties
<1>4. u[1] = f /\ 1 \in DOMAIN u
  BY <1>1
<1>5. \A n \in DOMAIN v : n + 1 \in DOMAIN u /\ v[n] = u[n + 1] /\ n + 1 > 1
  BY <1>1, <1>2, <1>3
<1>6. \A m \in DOMAIN u : m = 1 \/ (m > 1 /\ m - 1 \in DOMAIN v /\ u[m] = v[m - 1])
  BY <1>1, <1>2, <1>3
<1>7. /\ \A n \in DOMAIN v, m \in DOMAIN v : m > n <=> m + 1 > n + 1
      /\ \A n \in DOMAIN u, m \in DOMAIN u : m > n <=> m - 1 > n - 1
      /\ \A n \in DOMAIN v : (n + 1) - 1 = n
      /\ ~(1 > 1)
  BY <1>1, <1>2, <1>3
<1> HIDE DEF f, v
<1>8. CASE \E n \in DOMAIN v : s \in v[n].symbols
  <2>1. Streamed(v, q, s) <=>
          \E n \in DOMAIN v : /\ s \in v[n].symbols /\ v[n].type = "subscribe"
                              /\ \A m \in DOMAIN v : m > n => s \notin v[m].symbols
    BY <1>8 DEF Streamed
  <2>2. ASSUME NEW n \in DOMAIN v, s \in v[n].symbols, v[n].type = "subscribe",
               \A m \in DOMAIN v : m > n => s \notin v[m].symbols
        PROVE  Streamed(u, p, s)
    <3>1. n + 1 \in DOMAIN u /\ s \in u[n + 1].symbols /\ u[n + 1].type = "subscribe"
      BY <1>5, <2>2
    <3>2. ASSUME NEW m \in DOMAIN u, m > n + 1 PROVE s \notin u[m].symbols
      <4>1. m # 1 /\ m - 1 \in DOMAIN v /\ u[m] = v[m - 1] /\ m - 1 > n
        BY <1>1, <1>3, <1>2, <1>6, <3>2
      <4> QED BY <2>2, <4>1
    <3> QED BY <3>1, <3>2 DEF Streamed
  <2>3. ASSUME NEW m \in DOMAIN u, s \in u[m].symbols, u[m].type = "subscribe",
               \A k \in DOMAIN u : k > m => s \notin u[k].symbols
        PROVE  Streamed(v, q, s)
    <3>1. m # 1
      BY <1>5, <1>8, <2>3
    <3>2. m - 1 \in DOMAIN v /\ s \in v[m - 1].symbols /\ v[m - 1].type = "subscribe"
      BY <1>6, <2>3, <3>1
    <3>3. ASSUME NEW k \in DOMAIN v, k > m - 1 PROVE s \notin v[k].symbols
      <4>1. k + 1 \in DOMAIN u /\ v[k] = u[k + 1] /\ k + 1 > m
        BY <1>1, <1>2, <1>3, <1>5, <3>3
      <4> QED BY <2>3, <4>1
    <3> QED BY <3>2, <3>3 DEF Streamed
  <2>4. ~\A m \in DOMAIN u : s \notin u[m].symbols
    BY <1>5, <1>8
  <2> QED BY <2>1, <2>2, <2>3, <2>4 DEF Streamed, f, v
<1>9. CASE \A n \in DOMAIN v : s \notin v[n].symbols
  <2>1. Streamed(v, q, s) <=> s \in q
    BY <1>9 DEF Streamed
  <2>2. \A m \in DOMAIN u : s \in u[m].symbols => m = 1
    BY <1>6, <1>9
  <2>3. Streamed(u, p, s) <=> IF s \in f.symbols THEN f.type = "subscribe" ELSE s \in p
    BY <1>4, <1>7, <2>2 DEF Streamed
  <2> QED BY <2>1, <2>3 DEF f, v
<1> QED BY <1>8, <1>9

-----------------------------------------------------------------------------
(* The steps, for the socket.                                              *)
FeedKept == UNCHANGED <<up, down, wanted, connected, mounted, authed, prices>>
Reaches == ws' = ws \/ (ws = "none" /\ ws' = "connecting")
Identifies ==
    /\ up' = up \/ \E t \in Token : IssuedBy(server', t) /\ up' = Sent(<<Auth(t)>>)
    /\ UNCHANGED <<ws, down, wanted, connected, mounted, authed, prices>>
SocketGone == NoSocket("none") /\ UNCHANGED <<wanted, connected, mounted>>
LoadsKept == UNCHANGED <<server, user>>
SocketStep ==
    \/ user' = user /\ user # 0 /\ FeedKept /\ Reaches
    \/ user' = user /\ UNCHANGED ws /\ FeedKept
    \/ user' = user /\ user # 0 /\ Identifies
    \/ user' # user /\ ReplaceClient
    \/ LoadsKept /\ Opens
    \/ LoadsKept /\ Authenticated
    \/ user' = user /\ SocketGone
    \/ LoadsKept /\ \E symbols \in Screens : Navigate(symbols)
    \/ LoadsKept /\ FrameArrives
    \/ LoadsKept /\ ServerEnds

(* Every step is one of these to the socket.                               *)
LEMMA SocketSteps ==
    ASSUME PageTyped, PageTyped', TokensIssued', SocketTyped, [Next]_vars
    PROVE  SocketStep
<1>1. CASE ClientNext /\ Follows
  <2>1. CASE user' # user
    BY <1>1, <2>1 DEF Follows, SocketStep
  <2>2. CASE user' = user /\ user # 0 /\ Reauthenticate(access')
    <3>1. access' \in Token /\ IssuedBy(server', access')
      BY DEF PageTyped, TokensIssued, Issued
    <3>2. Identifies
      BY <2>2, <3>1 DEF Reauthenticate, Identifies
    <3> QED BY <2>2, <3>2 DEF SocketStep
  <2>3. CASE user' = user /\ UNCHANGED feedVars
    BY <2>3 DEF feedVars, SocketStep, FeedKept
  <2> QED BY <1>1, <2>1, <2>2, <2>3 DEF Follows
<1>2. CASE RetryFires
  BY <1>2 DEF RetryFires, Here, Connects, clientVars, pageVars, SocketStep, FeedKept, Reaches
<1>3. CASE BecomesVisible
  BY <1>3 DEF BecomesVisible, Here, Connects, clientVars, pageVars, SocketStep, FeedKept, Reaches
<1>4. CASE Opens \/ Authenticated \/ FrameArrives \/ ServerEnds
  BY <1>4 DEF Opens, Authenticated, FrameArrives, ServerEnds, clientVars, serverVars, pageVars,
              LoadsKept, SocketStep
<1>5. CASE ReauthFires
  <2>1. access' = access /\ server' = server /\ user' = user /\ user # 0 /\ Reauthenticate(access)
    BY <1>5 DEF ReauthFires, Here, clientVars, serverVars, pageVars
  <2>2. access \in Token /\ IssuedBy(server', access)
    BY <2>1 DEF PageTyped, TokensIssued, Issued
  <2>3. Identifies
    BY <2>1, <2>2 DEF Reauthenticate, Identifies
  <2> QED BY <2>1, <2>3 DEF SocketStep
<1>6. CASE CloseArrives
  <2>1. Head(down).code # 4429
    <3>1. Head(down) \in DownFrame
      BY <1>6, HeadTailProperties DEF CloseArrives, SocketTyped
    <3> QED BY <3>1 DEF DownFrame
  <2> QED BY <1>6, <2>1 DEF CloseArrives, Closed, SocketGone, SocketStep
<1>7. CASE ConnectionLost
  BY <1>7 DEF ConnectionLost, pageVars, SocketGone, SocketStep
<1>8. CASE \E symbols \in Screens : Navigate(symbols)
  BY <1>8 DEF Navigate, serverVars, pageVars, LoadsKept, SocketStep
<1>9. CASE UNCHANGED vars
  BY <1>9 DEF vars, clientVars, pageVars, feedVars, SocketStep, FeedKept
<1> QED BY <1>1, <1>2, <1>3, <1>4, <1>5, <1>6, <1>7, <1>8, <1>9 DEF Next

(* What the client sends when it is authenticated, and when it navigates.  *)
AuthenticationSends(w) ==
    w = up \o ((IF wanted = {} THEN <<>> ELSE <<Subscribing(wanted)>>)
               \o (IF connected \/ wanted \cap mounted = {} THEN <<>>
                   ELSE <<Unsubscribing(mounted)>>)
               \o (IF connected \/ mounted = {} THEN <<>> ELSE <<Subscribing(mounted)>>))

(* Frames are sent one after the other.                                    *)
LEMMA FramesConcatenate ==
    \A s, t, u \in Seq(UpFrame) : (s \o t) \o u = s \o (t \o u)
<1> SUFFICES ASSUME NEW s \in Seq(UpFrame), NEW t \in Seq(UpFrame), NEW u \in Seq(UpFrame)
             PROVE  (s \o t) \o u = s \o (t \o u)
  OBVIOUS
<1> HIDE DEF UpFrame
<1> QED BY ConcatAssociative

(* What authentication sends, frame by frame.                              *)
LEMMA Resubscribing ==
    ASSUME SocketTyped, NEW w, AuthenticationSends(w)
    PROVE  \E v, x :
              /\ Adds(up, wanted = {}, Subscribing(wanted), v)
              /\ Adds(v, connected \/ wanted \cap mounted = {}, Unsubscribing(mounted), x)
              /\ Adds(x, connected \/ mounted = {}, Subscribing(mounted), w)
<1> DEFINE a == IF wanted = {} THEN <<>> ELSE <<Subscribing(wanted)>>
           b == IF connected \/ wanted \cap mounted = {} THEN <<>> ELSE <<Unsubscribing(mounted)>>
           c == IF connected \/ mounted = {} THEN <<>> ELSE <<Subscribing(mounted)>>
           v == up \o a
           x == v \o b
<1>1. /\ Subscribing(wanted) \in UpFrame /\ Unsubscribing(mounted) \in UpFrame
      /\ Subscribing(mounted) \in UpFrame /\ up \in Seq(UpFrame)
  BY FramesTyped DEF SocketTyped
<1>2. a \in Seq(UpFrame) /\ b \in Seq(UpFrame) /\ c \in Seq(UpFrame)
  BY <1>1
<1>3. w = up \o ((a \o b) \o c)
  BY DEF AuthenticationSends
<1>4. Adds(up, wanted = {}, Subscribing(wanted), v)
  BY <1>1, Adding
<1>5. v \in Seq(UpFrame) /\ a \o b \in Seq(UpFrame)
  BY <1>2, <1>4, ConcatProperties DEF Adds
<1>6. Adds(v, connected \/ wanted \cap mounted = {}, Unsubscribing(mounted), x)
  BY <1>1, <1>5, Adding DEF SocketTyped
<1>7. x \in Seq(UpFrame)
  BY <1>6 DEF Adds
<1>8. w = x \o c
  <2> HIDE DEF a, b, c
  <2>1. w = (up \o (a \o b)) \o c
    <3>1. w = up \o ((a \o b) \o c)
      BY <1>3
    <3> QED BY <1>1, <1>2, <1>5, <3>1, FramesConcatenate
  <2>2. up \o (a \o b) = (up \o a) \o b
    BY <1>1, <1>2, FramesConcatenate
  <2> QED BY <2>1, <2>2
<1>9. Adds(x, connected \/ mounted = {}, Subscribing(mounted), w)
  BY <1>1, <1>7, <1>8, Adding DEF SocketTyped
<1> QED BY <1>4, <1>6, <1>9

(* What navigation sends, frame by frame.                                  *)
LEMMA Navigating ==
    ASSUME SocketTyped, NEW gone \in SUBSET Symbols, NEW new \in SUBSET Symbols, NEW w,
           w = up \o ((IF gone = {} THEN <<>> ELSE <<Unsubscribing(gone)>>)
                      \o (IF new = {} THEN <<>> ELSE <<Subscribing(new)>>))
    PROVE  \E v : /\ Adds(up, gone = {}, Unsubscribing(gone), v)
                  /\ Adds(v, new = {}, Subscribing(new), w)
<1> DEFINE a == IF gone = {} THEN <<>> ELSE <<Unsubscribing(gone)>>
           b == IF new = {} THEN <<>> ELSE <<Subscribing(new)>>
           v == up \o a
<1>1. Unsubscribing(gone) \in UpFrame /\ Subscribing(new) \in UpFrame /\ up \in Seq(UpFrame)
  BY FramesTyped DEF SocketTyped
<1>2. a \in Seq(UpFrame) /\ b \in Seq(UpFrame)
  BY <1>1
<1>3. Adds(up, gone = {}, Unsubscribing(gone), v)
  BY <1>1, Adding
<1>4. v \in Seq(UpFrame)
  BY <1>3 DEF Adds
<1>5. w = v \o b
  <2> HIDE DEF a, b
  <2>1. w = up \o (a \o b)
    BY DEF a, b
  <2> QED BY <1>1, <1>2, <2>1, FramesConcatenate
<1>6. Adds(v, new = {}, Subscribing(new), w)
  BY <1>1, <1>4, <1>5, Adding
<1> QED BY <1>3, <1>6

(* A new user object has a new client, and its socket knows nothing.       *)
LEMMA Replacing ==
    ASSUME SocketTyped, ReplaceClient
    PROVE  /\ ws' \in {"none", "connecting"} /\ (user' = 0 => ws' = "none")
           /\ up' = <<>> /\ down' = <<>> /\ authed' = Blank /\ prices' = {}
           /\ connected' = FALSE /\ mounted' \in SUBSET Symbols /\ wanted' \in SUBSET Symbols
           /\ user # 0 /\ user' # 0 => mounted' = mounted
           /\ user' = 0 /\ user # 0 => mounted' = {}
           /\ wanted' = IF connected /\ user' # 0 THEN mounted ELSE {}
<1>1. ASSUME mounted' \in Screens \/ mounted' = mounted \/ mounted' = {}
      PROVE  mounted' \in SUBSET Symbols
  BY <1>1 DEF Screens, SocketTyped
<1>2. mounted' = mounted \/ mounted' \in Screens \/ mounted' = {}
  BY DEF ReplaceClient
<1> QED BY <1>1, <1>2 DEF ReplaceClient, NoSocket, SocketTyped

(* A frame is read, or the socket is closed over it.                       *)
Reads ==
    LET f == Head(up) IN
    /\ up # <<>> /\ up' = Tail(up)
    /\ UNCHANGED ws
    /\ f.type = "auth" => authed' = f.token /\ down' = Append(down, AuthOk) /\ prices' = prices
    /\ f.type # "auth" => authed' = authed /\ down' = down /\ authed # Blank
    /\ f.type = "subscribe" => prices' = prices \cup f.symbols
    /\ f.type = "unsubscribe" => prices' = prices \ f.symbols

(* The consumer reads a frame or closes on it.                             *)
LEMMA FrameRead ==
    ASSUME FrameArrives
    PROVE  ServerCloses(4401) \/ Reads
<1> DEFINE f == Head(up)
<1>1. CASE (f.type = "auth" /\ ~Good(f.token)) \/ (f.type # "auth" /\ authed = Blank)
  BY <1>1 DEF FrameArrives
<1>2. CASE ~((f.type = "auth" /\ ~Good(f.token)) \/ (f.type # "auth" /\ authed = Blank))
  BY <1>2 DEF FrameArrives, Reads
<1> QED BY <1>1, <1>2

(* Types survive every step of the socket.                                 *)
LEMMA SocketTypedStep ==
    ASSUME PageTyped, SocketTyped, SocketStep
    PROVE  SocketTyped'
<1>1. CASE FeedKept /\ (Reaches \/ UNCHANGED ws)
  BY <1>1 DEF FeedKept, Reaches, SocketTyped
<1>2. CASE Identifies
  <2>1. ASSUME NEW t \in Token, up' = Sent(<<Auth(t)>>) PROVE up' \in Seq(UpFrame)
    <3>1. Auth(t) \in UpFrame
      BY FramesTyped
    <3>2. <<Auth(t)>> \in Seq(UpFrame)
      BY <3>1
    <3>3. up \o <<Auth(t)>> \in Seq(UpFrame)
      BY <3>2, ConcatProperties DEF SocketTyped
    <3> QED BY <2>1, <3>3 DEF Sent, SocketTyped
  <2> QED BY <1>2, <2>1 DEF Identifies, SocketTyped
<1>3. CASE ReplaceClient
  <2>1. up' \in Seq(UpFrame) /\ down' \in Seq(DownFrame)
    BY <1>3, Replacing, EmptySeq
  <2> QED BY <1>3, <2>1, Replacing, Vocabulary DEF SocketTyped
<1>4. CASE Opens
  <2>1. Auth(access) \in UpFrame
    BY FramesTyped DEF PageTyped
  <2>2. up' \in Seq(UpFrame)
    BY <1>4, <2>1 DEF Opens
  <2> QED BY <1>4, <2>2 DEF Opens, SocketTyped
<1>5. CASE Authenticated
  <2>1. up' \in Seq(UpFrame)
    <3>1. CASE AuthenticationSends(up')
      BY <3>1, Resubscribing DEF Adds
    <3>2. CASE up' = up
      BY <3>2 DEF SocketTyped
    <3> QED BY <1>5, <3>1, <3>2 DEF Authenticated, Sent, AuthenticationSends, Resubscriptions
  <2>2. down' \in Seq(DownFrame)
    BY <1>5, HeadTailProperties DEF Authenticated, SocketTyped
  <2> QED BY <1>5, <2>1, <2>2 DEF Authenticated, SocketTyped
<1>6. CASE SocketGone
  <2>1. up' \in Seq(UpFrame) /\ down' \in Seq(DownFrame)
    BY <1>6, EmptySeq DEF SocketGone, NoSocket
  <2> QED BY <1>6, <2>1, Vocabulary DEF SocketGone, NoSocket, SocketTyped
<1>7. ASSUME NEW symbols \in Screens, Navigate(symbols) PROVE SocketTyped'
  <2> DEFINE gone == mounted \cap wanted
             new == symbols \ (wanted \ gone)
  <2>1. symbols \in SUBSET Symbols /\ gone \in SUBSET Symbols /\ new \in SUBSET Symbols
    BY DEF Screens, SocketTyped
  <2>2. up' \in Seq(UpFrame)
    <3>1. CASE up' = up \o ((IF gone = {} THEN <<>> ELSE <<Unsubscribing(gone)>>)
                            \o (IF new = {} THEN <<>> ELSE <<Subscribing(new)>>))
      <4> HIDE DEF gone, new
      <4> QED BY <2>1, <3>1, Navigating DEF Adds
    <3>2. CASE up' = up
      BY <3>2 DEF SocketTyped
    <3> QED BY <1>7, <3>1, <3>2 DEF Navigate, Sent
  <2>3. wanted' \in SUBSET Symbols
    BY <1>7, <2>1 DEF Navigate, SocketTyped
  <2> QED BY <1>7, <2>1, <2>2, <2>3 DEF Navigate, SocketTyped
<1>8. ASSUME NEW code \in {4401, 4403}, ServerCloses(code) PROVE
         /\ up' \in Seq(UpFrame) /\ down' \in Seq(DownFrame) /\ authed' \in Token
         /\ prices' \in SUBSET Symbols /\ ws' = "closing"
  <2>1. CloseWith(code) \in DownFrame
    BY DEF CloseWith, DownFrame
  <2>2. down' \in Seq(DownFrame)
    BY <1>8, <2>1, AppendProperties DEF ServerCloses, SocketTyped
  <2>3. up' \in Seq(UpFrame)
    BY <1>8, EmptySeq DEF ServerCloses
  <2> QED BY <1>8, <2>2, <2>3, Vocabulary DEF ServerCloses
<1>9. CASE FrameArrives
  <2>1. CASE ServerCloses(4401)
    BY <1>8, <1>9, <2>1 DEF FrameArrives, SocketTyped
  <2>2. CASE Reads
    <3>1. Head(up) \in UpFrame /\ Tail(up) \in Seq(UpFrame)
      BY <2>2, HeadTailProperties DEF Reads, SocketTyped
    <3>2. Append(down, AuthOk) \in Seq(DownFrame)
      <4>1. AuthOk \in DownFrame
        BY DEF AuthOk, DownFrame
      <4> QED BY <4>1, AppendProperties DEF SocketTyped
    <3>3. Head(up).token \in Token /\ Head(up).symbols \in SUBSET Symbols
          /\ Head(up).type \in {"auth", "subscribe", "unsubscribe"}
      BY <3>1 DEF UpFrame
    <3>4. up' \in Seq(UpFrame) /\ down' \in Seq(DownFrame) /\ authed' \in Token
          /\ prices' \in SUBSET Symbols /\ ws' = ws
      BY <2>2, <3>1, <3>2, <3>3 DEF Reads, SocketTyped
    <3> QED BY <1>9, <3>4 DEF FrameArrives, SocketTyped
  <2> QED BY <1>9, <2>1, <2>2, FrameRead
<1>10. CASE ServerEnds
  BY <1>8, <1>10 DEF ServerEnds, SocketTyped
<1> QED BY <1>1, <1>2, <1>3, <1>4, <1>5, <1>6, <1>7, <1>9, <1>10 DEF SocketStep

(* Every token that is on its way was issued.                              *)
LEMMA FramesIssuedStep ==
    ASSUME PageTyped, PageTyped', TokensIssued, SocketTyped, FramesIssued, SocketStep,
           Grown(server')
    PROVE  FramesIssued'
<1> DEFINE Fine(t) == IssuedBy(server', t)
           Frames(u) == \A n \in DOMAIN u : Fine(u[n].token)
<1>1. \A t \in Token : Issued(t) => Fine(t)
  <2>1. server' \in Seq(Session)
    BY DEF PageTyped
  <2> QED BY <2>1, StillIssued
<1>2. Fine(authed) /\ Frames(up)
  <2>1. \A n \in DOMAIN up : up[n] \in UpFrame
    BY LenProperties, ElementOfSeq DEF SocketTyped
  <2>2. \A n \in DOMAIN up : up[n].token \in Token
    BY <2>1 DEF UpFrame
  <2> QED BY <1>1, <2>2 DEF FramesIssued, SocketTyped
<1>3. Fine(Blank)
  BY DEF IssuedBy
<1>4. FramesIssued' <=> Fine(authed') /\ Frames(up')
  BY DEF FramesIssued, Issued
<1>5. \A u, f, w, none : Adds(u, none, f, w) /\ Frames(u) /\ Fine(f.token) => Frames(w)
  BY DEF Adds
<1> HIDE DEF Fine
<1>6. CASE FeedKept
  BY <1>2, <1>4, <1>6 DEF FeedKept
<1>7. CASE Identifies
  <2>1. ASSUME NEW t \in Token, Fine(t), up' = Sent(<<Auth(t)>>) PROVE Frames(up')
    <3>1. Auth(t) \in UpFrame /\ Auth(t).token = t
      BY FramesTyped
    <3>2. Adds(up, FALSE, Auth(t), up \o <<Auth(t)>>)
      BY <3>1, Adding DEF SocketTyped
    <3> QED BY <1>2, <1>5, <2>1, <3>1, <3>2 DEF Sent
  <2> QED BY <1>2, <1>4, <1>7, <2>1 DEF Identifies, Fine
<1>8. CASE ReplaceClient \/ SocketGone
  <2>1. up' = <<>> /\ authed' = Blank
    BY <1>8 DEF ReplaceClient, SocketGone, NoSocket
  <2> QED BY <1>3, <1>4, <2>1
<1>9. CASE Opens
  <2>1. up' = <<Auth(access)>> /\ authed' = authed /\ Auth(access).token = access
    BY <1>9, FramesTyped DEF Opens, PageTyped
  <2>2. Fine(access)
    BY <1>1 DEF TokensIssued, PageTyped
  <2> QED BY <1>2, <1>4, <2>1, <2>2
<1>10. CASE Authenticated
  <2>1. CASE AuthenticationSends(up')
    BY <1>2, <1>3, <1>4, <1>5, <1>10, <2>1, Resubscribing, FramesTyped DEF Authenticated, SocketTyped
  <2>2. CASE up' = up
    BY <1>2, <1>4, <1>10, <2>2 DEF Authenticated
  <2> QED BY <1>10, <2>1, <2>2 DEF Authenticated, Sent, AuthenticationSends, Resubscriptions
<1>11. ASSUME NEW symbols \in Screens, Navigate(symbols) PROVE FramesIssued'
  <2> DEFINE gone == mounted \cap wanted
             new == symbols \ (wanted \ gone)
  <2>1. gone \in SUBSET Symbols /\ new \in SUBSET Symbols
    BY DEF Screens, SocketTyped
  <2>2. CASE up' = up \o ((IF gone = {} THEN <<>> ELSE <<Unsubscribing(gone)>>)
                          \o (IF new = {} THEN <<>> ELSE <<Subscribing(new)>>))
    <3> HIDE DEF gone, new
    <3>1. authed' = authed
      BY <1>11 DEF Navigate
    <3> QED BY <1>2, <1>3, <1>4, <1>5, <2>1, <2>2, <3>1, Navigating, FramesTyped
  <2>3. CASE up' = up
    BY <1>2, <1>4, <1>11, <2>3 DEF Navigate
  <2> QED BY <1>11, <2>2, <2>3 DEF Navigate, Sent
<1>12. CASE FrameArrives
  <2>1. CASE ServerCloses(4401)
    BY <1>3, <1>4, <2>1 DEF ServerCloses
  <2>2. CASE Reads
    <3>1. up' = Tail(up) /\ up # <<>> /\ authed' \in {authed, Head(up).token}
      BY <2>2 DEF Reads
    <3>2. Len(up) \in Nat \ {0} /\ DOMAIN up = 1..Len(up)
      BY <3>1, LenProperties, EmptySeq DEF SocketTyped
    <3>3. Head(up) = up[1] /\ 1 \in DOMAIN up
      BY <3>2
    <3>4. \A n \in DOMAIN up' : n + 1 \in DOMAIN up /\ up'[n] = up[n + 1]
      BY <3>1, <3>2, HeadTailProperties, LenProperties DEF SocketTyped
    <3> QED BY <1>2, <1>4, <3>1, <3>3, <3>4
  <2> QED BY <1>12, <2>1, <2>2, FrameRead
<1>13. CASE ServerEnds
  BY <1>3, <1>4, <1>13 DEF ServerEnds, ServerCloses
<1> QED BY <1>6, <1>7, <1>8, <1>9, <1>10, <1>11, <1>12, <1>13 DEF SocketStep

-----------------------------------------------------------------------------
(* What is streamed follows the screen.                                    *)

(* The authentication frames on their way name no symbol.                  *)
Bare(u) == \A n \in DOMAIN u : u[n].type = "auth" => u[n].symbols = {}

(* ScreenFollowed while the socket is not open.                            *)
LEMMA NotOpen ==
    ASSUME ws' # "open", Bare(up'),
           user' = 0 => mounted' = {} /\ connected' = FALSE /\ ws' = "none",
           wanted' \subseteq mounted', connected' => wanted' = mounted',
           ws' \in {"none", "connecting"} =>
               up' = <<>> /\ down' = <<>> /\ prices' = {} /\ authed' = Blank
    PROVE  ScreenFollowed'
BY DEF ScreenFollowed, Bare

(* ScreenFollowed when it is open.                                         *)
LEMMA StillOpen ==
    ASSUME ws' = "open", user' # 0, Bare(up'),
           wanted' \subseteq mounted', connected' => wanted' = mounted',
           \A s \in Symbols : Streamed(up', prices', s) => s \in wanted',
           (authed' # Blank /\ \A n \in DOMAIN down' : down'[n].type # "auth.ok") =>
               connected' /\ \A s \in wanted' : Streamed(up', prices', s)
    PROVE  ScreenFollowed'
BY DEF ScreenFollowed, Bare

(* Without frames, the consumer streams what it streams.                   *)
LEMMA NothingStreamed ==
    \A s : ~Streamed(<<>>, {}, s) /\ \A p : Streamed(<<>>, p, s) <=> s \in p
<1>1. DOMAIN <<>> = {}
  BY EmptySeq
<1> QED BY <1>1 DEF Streamed

(* The socket opens, and sends who it is.                                  *)
LEMMA OpensFollows ==
    ASSUME PageTyped, SocketTyped, ScreenFollowed, LoadsKept, Opens
    PROVE  ScreenFollowed'
<1>1. user # 0 /\ user' = user /\ up = <<>> /\ down = <<>> /\ prices = {} /\ authed = Blank
  BY DEF ScreenFollowed, LoadsKept, Opens
<1> DEFINE f == Auth(access)
<1>2. f \in UpFrame /\ f.type = "auth" /\ f.symbols = {}
  BY FramesTyped DEF PageTyped
<1>3. /\ ws' = "open" /\ up' = <<f>> /\ wanted' = wanted /\ mounted' = mounted
      /\ connected' = connected /\ authed' = Blank /\ prices' = {}
  BY <1>1 DEF Opens
<1>4. DOMAIN up' = {1} /\ up'[1] = f
  BY <1>3
<1> HIDE DEF f
<1>5. Bare(up') /\ \A s : ~Streamed(up', prices', s)
  BY <1>2, <1>3, <1>4 DEF Bare, Streamed
<1> QED BY <1>1, <1>3, <1>5, StillOpen DEF ScreenFollowed

(* It says so again when the tokens change; that changes no subscription.  *)
LEMMA IdentifiesFollows ==
    ASSUME PageTyped, SocketTyped, ScreenFollowed, user' = user, user # 0, Identifies
    PROVE  ScreenFollowed'
<1>1. UNCHANGED <<ws, down, wanted, connected, mounted, authed, prices>>
  BY DEF Identifies
<1>2. CASE up' = up
  BY <1>1, <1>2 DEF ScreenFollowed
<1>3. ASSUME NEW t \in Token, up' = Sent(<<Auth(t)>>), ws = "open" PROVE ScreenFollowed'
  <2>1. Auth(t) \in UpFrame /\ Auth(t).type = "auth" /\ Auth(t).symbols = {}
    BY FramesTyped
  <2>2. up' = up \o (IF FALSE THEN <<>> ELSE <<Auth(t)>>)
    BY <1>3 DEF Sent
  <2>3. Adds(up, FALSE, Auth(t), up')
    BY <2>1, <2>2, Adding DEF SocketTyped
  <2>4. Bare(up')
    BY <2>1, <2>3 DEF Adds, Bare, ScreenFollowed
  <2>5. \A s : Streamed(up', prices, s) <=> Streamed(up, prices, s)
    BY <2>1, <2>3 DEF Adds
  <2> QED BY <1>1, <1>3, <2>4, <2>5, StillOpen DEF ScreenFollowed
<1>4. ASSUME NEW t \in Token, up' = Sent(<<Auth(t)>>), ws # "open" PROVE up' = up
  BY <1>4 DEF Sent
<1> QED BY <1>2, <1>3, <1>4 DEF Identifies

(* On auth.ok everything wanted is subscribed to, what the first render    *)
(* adds included.                                                          *)
LEMMA AuthenticatedFollows ==
    ASSUME SocketTyped, ScreenFollowed, LoadsKept, Authenticated
    PROVE  ScreenFollowed'
<1>1. user' = user /\ user # 0 /\ ws \in {"open", "closing"}
  BY DEF ScreenFollowed, LoadsKept, Authenticated, SocketTyped
<1>2. /\ ws' = ws /\ mounted' = mounted /\ authed' = authed /\ prices' = prices
      /\ connected' = TRUE /\ wanted' = mounted
  BY DEF Authenticated, ScreenFollowed
<1>3. CASE ws = "open"
  <2>1. AuthenticationSends(up')
    BY <1>3 DEF Authenticated, Sent, AuthenticationSends, Resubscriptions
  <2>2. PICK v, x :
              /\ Adds(up, wanted = {}, Subscribing(wanted), v)
              /\ Adds(v, connected \/ wanted \cap mounted = {}, Unsubscribing(mounted), x)
              /\ Adds(x, connected \/ mounted = {}, Subscribing(mounted), up')
    BY <2>1, Resubscribing
  <2>3. /\ Subscribing(wanted).type = "subscribe" /\ Subscribing(wanted).symbols = wanted
        /\ Unsubscribing(mounted).type = "unsubscribe" /\ Unsubscribing(mounted).symbols = mounted
        /\ Subscribing(mounted).type = "subscribe" /\ Subscribing(mounted).symbols = mounted
    BY FramesTyped DEF SocketTyped
  <2>4. \A s \in Symbols : Streamed(v, prices, s) <=> s \in wanted
    BY <1>3, <2>2, <2>3 DEF Adds, ScreenFollowed
  <2>5. ASSUME connected
        PROVE  \A s \in Symbols : Streamed(up', prices, s) <=> s \in mounted
    <3>1. wanted = mounted
      BY <2>5 DEF ScreenFollowed
    <3>2. \A s : Streamed(x, prices, s) <=> Streamed(v, prices, s)
      BY <2>2, <2>5 DEF Adds
    <3>3. \A s : Streamed(up', prices, s) <=> Streamed(x, prices, s)
      BY <2>2, <2>5 DEF Adds
    <3> QED BY <2>4, <3>1, <3>2, <3>3
  <2>6. ASSUME ~connected
        PROVE  \A s \in Symbols : Streamed(up', prices, s) <=> s \in mounted
    <3>1. \A s \in Symbols : ~Streamed(x, prices, s)
      <4>1. wanted \cap mounted = wanted
        BY DEF ScreenFollowed
      <4>2. CASE wanted = {}
        BY <2>2, <2>4, <4>1, <4>2 DEF Adds
      <4>3. CASE wanted # {}
        <5>1. \A s : Streamed(x, prices, s) <=>
                IF s \notin mounted THEN Streamed(v, prices, s)
                ELSE "unsubscribe" = "subscribe"
          BY <2>2, <2>3, <2>6, <4>1, <4>3 DEF Adds
        <5> QED BY <2>4, <5>1 DEF ScreenFollowed
      <4> QED BY <4>2, <4>3
    <3>2. \A s \in Symbols : Streamed(up', prices, s) <=> s \in mounted
      BY <2>2, <2>3, <2>6, <3>1 DEF Adds
    <3> QED BY <3>2
  <2>7. \A s \in Symbols : Streamed(up', prices, s) <=> s \in mounted
    BY <2>5, <2>6
  <2>8. Bare(up')
    <3>1. \A u, f, w, none : Adds(u, none, f, w) /\ Bare(u) /\ f.type # "auth" => Bare(w)
      BY DEF Adds, Bare
    <3> QED BY <2>2, <2>3, <3>1 DEF ScreenFollowed, Bare
  <2> QED BY <1>1, <1>2, <1>3, <2>7, <2>8, StillOpen DEF SocketTyped
<1>4. CASE ws = "closing"
  <2>1. up' = up
    BY <1>4 DEF Authenticated, Sent
  <2> QED BY <1>1, <1>2, <1>4, <2>1, NotOpen DEF ScreenFollowed, Bare
<1> QED BY <1>1, <1>3, <1>4

(* Another screen.                                                         *)
LEMMA NavigateFollows ==
    ASSUME SocketTyped, ScreenFollowed, LoadsKept, NEW symbols \in Screens, Navigate(symbols)
    PROVE  ScreenFollowed'
<1> DEFINE gone == mounted \cap wanted
           new == symbols \ (wanted \ gone)
<1>1. gone = wanted /\ new = symbols /\ wanted' = symbols /\ mounted' = symbols
  BY DEF Navigate, ScreenFollowed
<1>2. /\ user # 0 /\ user' = user
      /\ UNCHANGED <<ws, down, connected, authed, prices>>
  BY DEF Navigate, Here, LoadsKept
<1>3. symbols \in SUBSET Symbols /\ wanted \in SUBSET Symbols
  BY DEF Screens, SocketTyped
<1>4. CASE ws = "open"
  <2>1. up' = up \o ((IF wanted = {} THEN <<>> ELSE <<Unsubscribing(wanted)>>)
                     \o (IF symbols = {} THEN <<>> ELSE <<Subscribing(symbols)>>))
    BY <1>1, <1>4 DEF Navigate, Sent
  <2>2. PICK v : /\ Adds(up, wanted = {}, Unsubscribing(wanted), v)
                 /\ Adds(v, symbols = {}, Subscribing(symbols), up')
    BY <1>3, <2>1, Navigating
  <2>3. /\ Unsubscribing(wanted).type = "unsubscribe" /\ Unsubscribing(wanted).symbols = wanted
        /\ Subscribing(symbols).type = "subscribe" /\ Subscribing(symbols).symbols = symbols
    BY <1>3, FramesTyped
  <2>4. \A s \in Symbols : ~Streamed(v, prices, s)
    <3>1. \A s : Streamed(v, prices, s) <=>
            IF s \notin wanted THEN Streamed(up, prices, s) ELSE FALSE
      BY <2>2, <2>3 DEF Adds
    <3> QED BY <1>4, <3>1 DEF ScreenFollowed
  <2>5. \A s \in Symbols : Streamed(up', prices, s) <=> s \in symbols
    BY <2>2, <2>3, <2>4 DEF Adds
  <2>6. Bare(up')
    <3>1. \A u, f, w, none : Adds(u, none, f, w) /\ Bare(u) /\ f.type # "auth" => Bare(w)
      BY DEF Adds, Bare
    <3> QED BY <2>2, <2>3, <3>1 DEF ScreenFollowed, Bare
  <2> QED BY <1>1, <1>2, <1>3, <1>4, <2>5, <2>6, StillOpen DEF ScreenFollowed
<1>5. CASE ws # "open"
  <2>1. up' = up
    BY <1>5 DEF Navigate, Sent
  <2> QED BY <1>1, <1>2, <1>5, <2>1, NotOpen DEF ScreenFollowed, Bare
<1> QED BY <1>4, <1>5

(* The consumer closes.                                                    *)
LEMMA ClosesFollows ==
    ASSUME ScreenFollowed, LoadsKept, ws = "open", UNCHANGED <<wanted, connected, mounted>>,
           NEW code, ServerCloses(code)
    PROVE  ScreenFollowed'
<1>1. user' # 0
  BY DEF ScreenFollowed, LoadsKept
<1>2. Bare(up')
  BY EmptySeq DEF ServerCloses, Bare
<1>3. ws' = "closing"
  BY DEF ServerCloses
<1> QED BY <1>1, <1>2, <1>3, NotOpen DEF ScreenFollowed

(* The consumer reads a frame.                                             *)
LEMMA ReadsFollows ==
    ASSUME SocketTyped, ScreenFollowed, LoadsKept, FrameArrives, Reads
    PROVE  ScreenFollowed'
<1> DEFINE f == Head(up)
<1>1. /\ user' = user /\ user # 0 /\ ws = "open" /\ ws' = "open" /\ up # <<>> /\ up' = Tail(up)
      /\ UNCHANGED <<wanted, connected, mounted>>
  BY DEF ScreenFollowed, LoadsKept, FrameArrives, Reads
<1>2. Len(up) \in Nat \ {0} /\ DOMAIN up = 1..Len(up)
  BY <1>1, LenProperties, EmptySeq DEF SocketTyped
<1>3. f = up[1] /\ 1 \in DOMAIN up
  BY <1>2
<1>4. \A n \in DOMAIN up' : n + 1 \in DOMAIN up /\ up'[n] = up[n + 1]
  BY <1>1, <1>2, HeadTailProperties, LenProperties DEF SocketTyped
<1>5. Bare(up')
  BY <1>4 DEF Bare, ScreenFollowed
<1>6. f \in UpFrame
  BY <1>1, HeadTailProperties DEF SocketTyped
<1>7. f.type \in {"auth", "subscribe", "unsubscribe"} /\ f.symbols \in SUBSET Symbols
  BY <1>6 DEF UpFrame
<1>8. f.type = "auth" => f.symbols = {}
  BY <1>3 DEF ScreenFollowed
<1>9. \A s : s \in prices' <=> IF s \in f.symbols THEN f.type = "subscribe" ELSE s \in prices
  BY <1>7, <1>8 DEF Reads
<1>10. \A s : Streamed(up', prices', s) <=> Streamed(up, prices, s)
  BY <1>1, <1>9, Reading DEF SocketTyped
<1>11. CASE f.type = "auth"
  <2>1. AuthOk \in DownFrame /\ AuthOk.type = "auth.ok"
    BY DEF AuthOk, DownFrame
  <2>2. down' = Append(down, AuthOk) /\ down \in Seq(DownFrame)
    BY <1>11 DEF Reads, SocketTyped
  <2>3. Len(down) + 1 \in DOMAIN down' /\ down'[Len(down) + 1] = AuthOk
    BY <2>1, <2>2, AppendProperties, LenProperties
  <2> QED BY <1>1, <1>5, <1>10, <2>1, <2>3, StillOpen DEF ScreenFollowed
<1>12. CASE f.type # "auth"
  <2>1. authed' = authed /\ down' = down
    BY <1>12 DEF Reads
  <2> QED BY <1>1, <1>5, <1>10, <2>1, StillOpen DEF ScreenFollowed
<1> QED BY <1>11, <1>12

(* Every step keeps the stream on the screen.                              *)
LEMMA ScreenFollowedStep ==
    ASSUME PageTyped, SocketTyped, ScreenFollowed, SocketStep
    PROVE  ScreenFollowed'
<1>1. CASE user' = user /\ FeedKept /\ UNCHANGED ws
  BY <1>1 DEF FeedKept, ScreenFollowed
<1>2. CASE user' = user /\ user # 0 /\ FeedKept /\ ws = "none" /\ ws' = "connecting"
  BY <1>2, NotOpen DEF FeedKept, ScreenFollowed, Bare
<1>3. CASE user' # user /\ ReplaceClient
  <2>1. Bare(up')
    BY <1>3, Replacing, EmptySeq DEF Bare
  <2>2. user = 0 => mounted = {} /\ ~connected
    BY DEF ScreenFollowed
  <2>3. user' = 0 => mounted' = {}
    BY <1>3, Replacing, <2>2
  <2>4. wanted' \subseteq mounted'
    <3>1. CASE connected /\ user' # 0
      BY <1>3, <2>2, <3>1, Replacing
    <3>2. CASE ~(connected /\ user' # 0)
      BY <1>3, <3>2, Replacing
    <3> QED BY <3>1, <3>2
  <2>5. ws' # "open" /\ connected' = FALSE /\ (user' = 0 => ws' = "none")
        /\ up' = <<>> /\ down' = <<>> /\ prices' = {} /\ authed' = Blank
    BY <1>3, Replacing
  <2> QED BY <2>1, <2>3, <2>4, <2>5, NotOpen
<1>4. CASE user' = user /\ SocketGone
  <2>1. Bare(up')
    BY <1>4, EmptySeq DEF SocketGone, NoSocket, Bare
  <2> QED BY <1>4, <2>1, NotOpen DEF SocketGone, NoSocket, ScreenFollowed
<1>5. CASE LoadsKept /\ FrameArrives
  <2>1. CASE ServerCloses(4401)
    BY <1>5, <2>1, ClosesFollows DEF FrameArrives
  <2> QED BY <1>5, <2>1, FrameRead, ReadsFollows
<1>6. CASE LoadsKept /\ ServerEnds
  BY <1>6, ClosesFollows DEF ServerEnds
<1> QED BY <1>1, <1>2, <1>3, <1>4, <1>5, <1>6, OpensFollows, IdentifiesFollows,
           AuthenticatedFollows, NavigateFollows DEF SocketStep, Reaches

-----------------------------------------------------------------------------
(* The inductive invariant of the page and its stream.                     *)
FeedInv == PageInv /\ SocketTyped /\ FramesIssued /\ ScreenFollowed

(* The first state.                                                        *)
LEMMA FirstSocket == Init => SocketTyped /\ FramesIssued /\ ScreenFollowed
<1> SUFFICES ASSUME Init PROVE SocketTyped /\ FramesIssued /\ ScreenFollowed
  OBVIOUS
<1>1. /\ ws = "connecting" /\ up = <<>> /\ down = <<>> /\ wanted = {} /\ connected = FALSE
      /\ mounted = {} /\ authed = Blank /\ prices = {} /\ user = 1
  BY FirstPage DEF Init, FeedInit
<1>2. SocketTyped
  BY <1>1, EmptySeq, Vocabulary DEF SocketTyped
<1>3. FramesIssued
  BY <1>1, EmptySeq DEF FramesIssued, Issued, IssuedBy
<1>4. ScreenFollowed
  BY <1>1, EmptySeq DEF ScreenFollowed
<1> QED BY <1>2, <1>3, <1>4

(* It holds of every step, with the page's.                                *)
LEMMA FeedInvariant == Spec => []FeedInv
<1>1. Init => SocketTyped /\ FramesIssued /\ ScreenFollowed
  BY FirstSocket
<1>2. PageInv /\ PageInv' /\ SocketTyped /\ FramesIssued /\ ScreenFollowed /\ [Next]_vars
         => SocketTyped' /\ FramesIssued' /\ ScreenFollowed'
  <2> SUFFICES ASSUME PageInv, PageInv', SocketTyped, FramesIssued, ScreenFollowed, [Next]_vars
               PROVE  SocketTyped' /\ FramesIssued' /\ ScreenFollowed'
    OBVIOUS
  <2>1. PageTyped /\ PageTyped' /\ TokensIssued /\ TokensIssued' /\ SocketStep
    BY SocketSteps DEF PageInv
  <2>2. Grown(server')
    BY <2>1, ServerGrows
  <2> QED BY <2>1, <2>2, SocketTypedStep, FramesIssuedStep, ScreenFollowedStep
<1> QED BY <1>1, <1>2, PageInvariant, PTL DEF Spec, FeedInv

(* An authenticated socket whose frames are all handled streams the        *)
(* symbols of the screen and no other, through reconnects, new users,      *)
(* token changes and navigations while it was not open (StreamClient,      *)
(* StreamProvider and the consumer's receive_json).                        *)
THEOREM PricesFollowTheScreen == Spec => []PricesFollowScreen
<1>1. FeedInv => PricesFollowScreen
  <2> SUFFICES ASSUME FeedInv, user # 0, ws = "open", authed # Blank, up = <<>>, down = <<>>
               PROVE  prices = mounted
    BY DEF PricesFollowScreen
  <2>1. DOMAIN down = {}
    BY EmptySeq
  <2>2. \A s : Streamed(up, prices, s) <=> s \in prices
    BY NothingStreamed
  <2>3. wanted = mounted /\ \A s \in wanted : s \in prices
    BY <2>1, <2>2 DEF FeedInv, ScreenFollowed
  <2>4. \A s \in Symbols : s \in prices => s \in wanted
    BY <2>2 DEF FeedInv, ScreenFollowed
  <2>5. prices \in SUBSET Symbols
    BY DEF FeedInv, SocketTyped
  <2> QED BY <2>3, <2>4, <2>5
<1> QED BY <1>1, FeedInvariant, PTL

(* The page and its stream keep their types; above all, the page only ever *)
(* holds tokens the server issued.                                         *)
THEOREM PageIsTyped == Spec => []TypeOK
<1>1. FeedInv => TypeOK
  <2> SUFFICES ASSUME FeedInv PROVE TypeOK
    OBVIOUS
  <2>1. PageTyped /\ TokensIssued /\ StepsKnown /\ SocketTyped /\ FramesIssued /\ SurvivesInv
    BY DEF FeedInv, PageInv
  <2>2. \A s \in DOMAIN server :
           server[s] \in [newest : Nat \ {0}, expired : 0..server[s].newest, revoked : BOOLEAN]
    <3> SUFFICES ASSUME NEW s \in DOMAIN server
                 PROVE  server[s] \in
                          [newest : Nat \ {0}, expired : 0..server[s].newest, revoked : BOOLEAN]
      OBVIOUS
    <3>1. server[s] \in Session /\ server[s].expired <= server[s].newest
      BY <2>1, LenProperties, ElementOfSeq DEF PageTyped, StepsKnown
    <3> QED BY <3>1 DEF Session
  <2>3. \A token \in {access, stored, authed, refresh.token} :
           token = Blank \/ /\ token.session \in DOMAIN server
                            /\ token.serial \in 1..server[token.session].newest
    BY <2>1 DEF TokensIssued, FramesIssued, Issued, IssuedBy
  <2>4. user \in 0..2 /\ refresh.state \in {"none", "sent", "answered"}
    BY <2>1 DEF PageTyped
  <2>5. \A c \in DOMAIN call :
           /\ call[c].kind \in Kinds \cup {"none"}
           /\ call[c].step \in {"idle", "sent", "answered", "waiting"}
           /\ call[c].step = "idle" <=> call[c] = NoCall
           /\ call[c].step = "waiting" => refresh.state # "none"
    <3> SUFFICES ASSUME NEW c \in Calls
                 PROVE  /\ call[c].kind \in Kinds \cup {"none"}
                        /\ call[c].step \in {"idle", "sent", "answered", "waiting"}
                        /\ call[c].step = "idle" <=> call[c] = NoCall
                        /\ call[c].step = "waiting" => refresh.state # "none"
      BY <2>1 DEF PageTyped
    <3>1. call[c] \in Request
      BY <2>1 DEF PageTyped
    <3>2. call[c].kind \in Kinds \cup {"none"}
          /\ call[c].step \in {"idle", "sent", "answered", "waiting"}
      BY <3>1 DEF Request
    <3> QED BY <2>1, <3>2 DEF StepsKnown
  <2>6. \A f \in Forms : form[f].key # 0 => user # 0
    BY <2>1 DEF StepsKnown
  <2>7. ws \in {"none", "connecting", "open", "closing"}
        /\ wanted \cup mounted \cup prices \subseteq Symbols
    BY <2>1 DEF SocketTyped
  <2>8. \A d \in {"losses", "calls"} : left[d] \in 0..load.left[d]
    <3> SUFFICES ASSUME NEW d \in {"losses", "calls"} PROVE left[d] \in 0..load.left[d]
      OBVIOUS
    <3>1. left[d] \in Nat /\ load.left[d] \in Nat /\ left[d] <= load.left[d]
      BY <2>1, LoadsAssumption DEF PageTyped, StepsKnown, Budgets
    <3> QED BY <3>1
  <2> QED BY <2>2, <2>3, <2>4, <2>5, <2>6, <2>7, <2>8 DEF TypeOK
<1> QED BY <1>1, FeedInvariant, PTL
=============================================================================
