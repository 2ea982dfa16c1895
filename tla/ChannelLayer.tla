---------------------------- MODULE ChannelLayer ----------------------------
(***************************************************************************)
(* The Redis channel layer that carries events from the code that commits  *)
(* them to the sockets that follow them: backend/realtime/events.py, and   *)
(* the groups that consumers join. A publish reaches the sockets that are  *)
(* members when it is sent, or none of them: _send swallows every failure. *)
(***************************************************************************)
EXTENDS Integers, Sequences

CONSTANT Sockets

VARIABLES
    members,        \* pairs <<group, socket>>
    inbox           \* the messages each socket has still to handle

layer == <<members, inbox>>

UserGroup(u) == <<"user", u>>
SessionGroup(s) == <<"session", s>>
PriceGroup(i) == <<"prices", i>>

StreamEvent(u) == [type |-> "stream_event", of |-> u]
SessionKill(s) == [type |-> "session_kill", of |-> s]

LayerInit == members = {} /\ inbox = [k \in Sockets |-> <<>>]

(* group_add and group_discard of one socket, for a set of groups.         *)
Join(k, groups) == members' = members \cup (groups \X {k})
Leave(k, groups) == members' = members \ (groups \X {k})

(* _send: group_send to the present members, or an error that is logged.   *)
Send(group, message) ==
    /\ \/ inbox' = [k \in Sockets |->
                       IF <<group, k>> \in members
                       THEN Append(inbox[k], message) ELSE inbox[k]]
       \/ inbox' = inbox
    /\ UNCHANGED members
=============================================================================
