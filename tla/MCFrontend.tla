----------------------------- MODULE MCFrontend -----------------------------
(***************************************************************************)
(* Instances of Feed for TLC. A behaviour runs one of the loads, so the    *)
(* states of the loads add up and do not multiply.                         *)
(***************************************************************************)
EXTENDS Feed

Load(kinds, calls, losses, expiries, revocations, reloads, moves, sockets) ==
    [kinds |-> kinds, sockets |-> sockets,
     left |-> [calls |-> calls, losses |-> losses, expiries |-> expiries,
               revocations |-> revocations, reloads |-> reloads, moves |-> moves]]

(* Requests that meet expired tokens, each other, a sign-out or a reload.  *)
Requests == Load({"query", "me"}, 4, 0, 2, 0, 1, 0, FALSE)
SignOuts == Load({"me", "logout", "login"}, 3, 1, 1, 0, 0, 0, FALSE)

(* Forms whose replies are lost, sent twice or come late.                  *)
Transferring == Load({"transfer"}, 3, 2, 1, 0, 0, 0, FALSE)
Ordering == Load({"order"}, 2, 1, 1, 0, 1, 0, FALSE)

(* The stream: lost connections, new users and navigation; and tokens that *)
(* expire, a revocation and a sign-out.                                    *)
Watching == Load({"me"}, 1, 1, 0, 0, 1, 2, TRUE)
Closing == Load({"query", "logout"}, 1, 0, 1, 1, 0, 1, TRUE)

MCLoads == {Requests, SignOuts, Transferring, Ordering, Watching, Closing}
JustSignOuts == {[SignOuts EXCEPT !.left.losses = 0]}
JustOrders == {Ordering}
=============================================================================
