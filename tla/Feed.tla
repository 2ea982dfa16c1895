-------------------------------- MODULE Feed --------------------------------
(***************************************************************************)
(* The price stream of the page (frontend/src/realtime): one StreamClient  *)
(* per user object, its socket, and the screen whose symbol it follows,    *)
(* together with the page of Client.tla, whose tokens and user they take.  *)
(* The other end of the socket is the consumer of Streams.tla, reduced to  *)
(* the frames of one connection.                                           *)
(*                                                                         *)
(* Frames arrive in the order they were sent. A socket that is replaced is *)
(* forgotten: its client has closed it and ignores its close event.        *)
(***************************************************************************)
EXTENDS Client

CONSTANT Symbols

VARIABLES
    ws,         \* this.socket: none, connecting or open
    up, down,   \* frames on their way to the server, and to the client
    wanted,     \* StreamClient.subscriptions
    retry,      \* the retry timer is armed
    reauth,     \* the reauth timer is armed
    connected,  \* the state of StreamProvider
    mounted,    \* the symbol of the instrument screen, if it is mounted
    authed,     \* the token the consumer's identity rests on
    prices      \* the subscriptions of the consumer

socketVars == <<ws, up, down, authed, prices>>
feedVars == <<ws, up, down, wanted, retry, reauth, connected, mounted, authed, prices>>
vars == <<clientVars, feedVars>>

-----------------------------------------------------------------------------
Auth(token) == [type |-> "auth", token |-> token, symbols |-> {}]
Subscribing(symbols) == [type |-> "subscribe", token |-> Blank, symbols |-> symbols]
Unsubscribing(symbols) == [type |-> "unsubscribe", token |-> Blank, symbols |-> symbols]
AuthOk == [type |-> "auth.ok", code |-> 0]
CloseWith(code) == [type |-> "close", code |-> code]

(* send: only an open socket takes frames.                                 *)
Sent(frames) == IF ws = "open" THEN up \o frames ELSE up

FeedInit ==
    /\ ws = "connecting"
    /\ up = <<>> /\ down = <<>>
    /\ wanted = {}
    /\ retry = FALSE /\ reauth = FALSE
    /\ connected = FALSE
    /\ mounted = {}
    /\ authed = Blank
    /\ prices = {}

Init == ClientInit /\ FeedInit

-----------------------------------------------------------------------------
(* The effect of StreamProvider and the store's listener: what the stream  *)
(* does in the step that changes the user object or the tokens.            *)

Screens == {{}} \cup {{i} : i \in Symbols}

(* No socket is left on either side.                                       *)
NoSocket(state) ==
    /\ ws' = state
    /\ up' = <<>> /\ down' = <<>>
    /\ authed' = Blank
    /\ prices' = {}

(* Cleanup closes the old client. The new one connects if there is a       *)
(* token; if the page was connected it renders again, and the screen       *)
(* subscribes anew. Without a user everything is unmounted. With the first *)
(* user the screen mounts before there is a client to subscribe with: only *)
(* auth.ok makes up for it.                                                *)
ReplaceClient ==
    /\ NoSocket(IF user' # 0 /\ access' # Blank THEN "connecting" ELSE "none")
    /\ IF user # 0 /\ user' # 0 THEN mounted' = mounted
       ELSE mounted' \in IF user' # 0 /\ load.sockets THEN Screens ELSE {{}}
    /\ wanted' = IF connected /\ user' # 0 THEN mounted ELSE {}
    /\ retry' = FALSE /\ reauth' = FALSE
    /\ connected' = FALSE

(* reauthenticate, called by the timer and by onTokensChanged.             *)
Reauthenticate(token) ==
    /\ up' = IF token # Blank THEN Sent(<<Auth(token)>>) ELSE up
    /\ UNCHANGED <<ws, down, authed, prices, wanted, retry, connected, mounted>>

Follows ==
    IF user' # user THEN ReplaceClient
    ELSE IF access' # access /\ user # 0 THEN Reauthenticate(access') /\ UNCHANGED reauth
    ELSE UNCHANGED feedVars

-----------------------------------------------------------------------------
(* The client.                                                             *)

Here == user # 0

(* connect(), by the retry timer or when the page becomes visible.         *)
Connects == ws' = IF ws = "none" /\ access # Blank THEN "connecting" ELSE ws

RetryFires ==
    /\ Here /\ retry
    /\ retry' = FALSE
    /\ Connects
    /\ UNCHANGED <<clientVars, up, down, wanted, reauth, connected, mounted, authed, prices>>

BecomesVisible ==
    /\ Here /\ ws = "none" /\ access # Blank
    /\ Connects
    /\ UNCHANGED <<clientVars, up, down, wanted, retry, reauth, connected, mounted, authed,
                   prices>>

(* onopen: the first frame is the auth frame. A load may have a proxy that *)
(* lets no socket through.                                                 *)
Opens ==
    /\ ws = "connecting"
    /\ load.sockets
    /\ ws' = "open"
    /\ up' = <<Auth(access)>>
    /\ UNCHANGED <<clientVars, down, wanted, retry, reauth, connected, mounted, authed, prices>>

ReauthFires ==
    /\ Here /\ reauth
    /\ reauth' = FALSE
    /\ Reauthenticate(access)
    /\ UNCHANGED clientVars

(* Mutant: auth.ok of a later connection subscribes to nothing.            *)
FirstSubscriptions == {}

(* Everything this client was watching.                                    *)
Resubscriptions == wanted

(* onmessage, auth.ok. The first one since the page was disconnected       *)
(* renders it again, and the effect of the screen runs: unsubscribe, then  *)
(* subscribe.                                                              *)
Authenticated ==
    /\ down # <<>> /\ Head(down).type = "auth.ok"
    /\ down' = Tail(down)
    /\ up' = Sent((IF Resubscriptions = {} THEN <<>> ELSE <<Subscribing(Resubscriptions)>>)
                  \o (IF connected \/ wanted \cap mounted = {} THEN <<>>
                      ELSE <<Unsubscribing(mounted)>>)
                  \o (IF connected \/ mounted = {} THEN <<>> ELSE <<Subscribing(mounted)>>))
    /\ wanted' = IF connected THEN wanted ELSE wanted \cup mounted
    /\ connected' = TRUE
    /\ reauth' = TRUE
    /\ UNCHANGED <<clientVars, ws, retry, mounted, authed, prices>>

(* Mutant: a lost connection is not tried again.                           *)
NoRetry(code) == FALSE

(* Whether onclose ends the session, and whether it schedules a reconnect. *)
SessionLost(code) == code = 4403
Retries(code) == ~SessionLost(code)

(* onclose. 4403 signs out, in the call slot that is kept for it.          *)
Closed(code) ==
    /\ NoSocket("none")
    /\ reauth' = FALSE
    /\ retry' = (retry \/ Retries(code))
    /\ wanted' = IF code = 4429 THEN {} ELSE wanted
    /\ IF ~SessionLost(code) THEN UNCHANGED <<call, leaving>>
       ELSE /\ call' = [call EXCEPT ![Spare] = [SignOutCall EXCEPT !.step = "sent"]]
            /\ leaving' = leaving \cup {stored.session}
    /\ UNCHANGED <<serverVars, access, stored, user, refresh, form, presented, disturbed,
                   load, left, connected, mounted>>

(* The sign-outs of two such closes take turns in the slot.                *)
CloseArrives ==
    /\ Here
    /\ down # <<>> /\ Head(down).type = "close"
    /\ Head(down).code = 4403 => call[Spare].step = "idle"
    /\ Closed(Head(down).code)

(* The connection fails, or is lost with every frame on it.                *)
ConnectionLost ==
    /\ Here /\ ws # "none"
    /\ Spend("losses")
    /\ NoSocket("none")
    /\ reauth' = FALSE
    /\ retry' = (retry \/ Retries(1006))
    /\ UNCHANGED <<serverVars, pageVars, presented, disturbed, leaving, load, wanted, connected,
                   mounted>>

(* The user goes to the screen of another instrument, or leaves it. The    *)
(* effect's cleanup runs first.                                            *)
Navigate(symbols) ==
    LET gone == mounted \cap wanted
        new == symbols \ (wanted \ gone)
    IN
    /\ Here /\ symbols # mounted
    /\ Spend("moves")
    /\ mounted' = symbols
    /\ wanted' = (wanted \ gone) \cup new
    /\ up' = Sent((IF gone = {} THEN <<>> ELSE <<Unsubscribing(gone)>>)
                  \o (IF new = {} THEN <<>> ELSE <<Subscribing(new)>>))
    /\ UNCHANGED <<serverVars, pageVars, presented, disturbed, leaving, load, ws, down, retry,
                   reauth, connected, authed, prices>>

-----------------------------------------------------------------------------
(* The consumer.                                                           *)

(* close: nothing that is still on its way up is read.                     *)
ServerCloses(code) ==
    /\ down' = Append(down, CloseWith(code))
    /\ up' = <<>>
    /\ authed' = Blank
    /\ prices' = {}
    /\ ws' = "closing"

(* receive_json.                                                           *)
FrameArrives ==
    LET f == Head(up) IN
    /\ ws = "open" /\ up # <<>>
    /\ IF (f.type = "auth" /\ ~Good(f.token)) \/ (f.type # "auth" /\ authed = Blank)
       THEN ServerCloses(4401)
       ELSE /\ up' = Tail(up)
            /\ authed' = IF f.type = "auth" THEN f.token ELSE authed
            /\ down' = IF f.type = "auth" THEN Append(down, AuthOk) ELSE down
            /\ prices' = CASE f.type = "subscribe" -> prices \cup f.symbols
                           [] f.type = "unsubscribe" -> prices \ f.symbols
                           [] OTHER -> prices
            /\ UNCHANGED ws
    /\ UNCHANGED <<clientVars, wanted, retry, reauth, connected, mounted>>

(* _close_when_token_expires, session_kill. The message of a revocation    *)
(* may be lost; then the expiry closes the socket.                         *)
ServerEnds ==
    /\ ws = "open" /\ authed # Blank /\ ~Good(authed)
    /\ \/ ServerCloses(4401) /\ server[authed.session].expired >= authed.serial
       \/ ServerCloses(4403) /\ server[authed.session].revoked
    /\ UNCHANGED <<clientVars, wanted, retry, reauth, connected, mounted>>

Next ==
    \/ ClientNext /\ Follows
    \/ RetryFires \/ BecomesVisible \/ Opens \/ ReauthFires \/ Authenticated
    \/ CloseArrives \/ ConnectionLost
    \/ \E symbols \in Screens : Navigate(symbols)
    \/ FrameArrives \/ ServerEnds

Spec == Init /\ [][Next]_vars

(* The server answers, callbacks run, timers fire. The user and the world  *)
(* need not do anything.                                                   *)
FairSpec ==
    /\ Spec
    /\ WF_vars(RetryFires) /\ WF_vars(Opens) /\ WF_vars(Authenticated)
    /\ WF_vars(CloseArrives) /\ WF_vars(FrameArrives) /\ WF_vars(ServerEnds)
    /\ WF_vars((ServeRefresh \/ Refreshed \/ RefreshFailed) /\ Follows)
    /\ \A c \in Slots \cup {Spare} : WF_vars(Progress(c) /\ Follows)

-----------------------------------------------------------------------------
(* Properties.                                                             *)

(* The page knows only tokens the server issued, every request is one the  *)
(* page can send, and every socket end knows what it may know.             *)
TypeOK ==
    /\ \A s \in DOMAIN server :
          server[s] \in [newest : Nat \ {0}, expired : 0..server[s].newest, revoked : BOOLEAN]
    /\ \A token \in {access, stored, authed, refresh.token} :
          token = Blank \/ /\ token.session \in DOMAIN server
                           /\ token.serial \in 1..server[token.session].newest
    /\ user \in 0..2
    /\ refresh.state \in {"none", "sent", "answered"}
    /\ \A c \in DOMAIN call :
          /\ call[c].kind \in Kinds \cup {"none"}
          /\ call[c].step \in {"idle", "sent", "answered", "waiting"}
          /\ call[c].step = "idle" <=> call[c] = NoCall
          /\ call[c].step = "waiting" => refresh.state # "none"
    /\ \A f \in Forms : form[f].key # 0 => user # 0
    /\ ws \in {"none", "connecting", "open", "closing"}
    /\ wanted \cup mounted \cup prices \subseteq Symbols
    /\ \A d \in {"losses", "calls"} : left[d] \in 0..load.left[d]

(* Every refresh token is sent once by a page load, however many requests  *)
(* get their 401 at once (client.ts, "every concurrent 401 awaits this     *)
(* exact promise"): a second time would be a replay.                       *)
RefreshPresentedOnce ==
    \A m, n \in DOMAIN presented : presented[m] = presented[n] => m = n

(* A session only ends because somebody ends it: expired access tokens,    *)
(* however they fall between requests, refreshes and resends, neither cost *)
(* the page its tokens nor make the server take it for a thief.            *)
SessionSurvives ==
    (~disturbed /\ leaving = {}) =>
        stored # Blank /\ \A s \in DOMAIN server : ~server[s].revoked

(* One attempt, one movement: until a form has shown how its attempt       *)
(* ended, whatever is lost, late or sent again makes one posting or order. *)
AttemptMovesOnce ==
    \A j, k \in DOMAIN bound :
        bound[j].form = bound[k].form /\ bound[j].attempt = bound[k].attempt => j = k

(* "Sent" is said of a movement of this very request, "already sent" of    *)
(* one of an earlier request for the same movement, and "filled" of an     *)
(* order that was filled.                                                  *)
NoticeIsTrue ==
    \A f \in Forms :
        LET n == form[f].notice IN
        n.text \in {"sent", "already", "filled"} =>
            /\ n.key \in DOMAIN bound
            /\ bound[n.key].body = n.body
            /\ n.text = "sent" => bound[n.key].number = n.number
            /\ n.text = "already" => bound[n.key].number # n.number
            /\ n.text = "filled" => bound[n.key].status = "filled"

(* Once the frames on its way are handled, an authenticated socket streams *)
(* what the screen shows and nothing else, through reconnects, new users   *)
(* and navigations while it was not open.                                  *)
PricesFollowScreen ==
    (user # 0 /\ ws = "open" /\ authed # Blank /\ up = <<>> /\ down = <<>>)
        => prices = mounted

(* A page with a good token comes to stream, however its connections end.  *)
Live == load.sockets /\ user # 0 /\ Good(access) => ws = "open" /\ authed # Blank
StreamComesBack == []<>Live

(* AuthProvider.tsx:125, "The server revoking the session is what makes    *)
(* logout real": a sign-out whose requests all got through has revoked.    *)
SignOutRevokes ==
    (~disturbed /\ \A c \in DOMAIN call : call[c].kind # "logout")
        => \A s \in leaving : server[s].revoked

(* OrderTicket.tsx: "Order resting. It will fill when ...": said of an     *)
(* order that was open when the reply was made.                            *)
RestingMeansOpen ==
    form["order"].notice.text = "resting" => form["order"].notice.status = "open"
=============================================================================
