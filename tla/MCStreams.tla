----------------------------- MODULE MCStreams ------------------------------
(***************************************************************************)
(* Instances of Streams for TLC. A behaviour runs one of the loads, so the *)
(* states of the loads add up and do not multiply.                         *)
(***************************************************************************)
EXTENDS Streams

CONSTANTS u1, u2, t1, t2, k1, i1, i2

Load(ops, clients, requests_, crashes_, until, opened, enrolled, sockets, frames_, events_) ==
    [ops |-> ops, users |-> clients, requests |-> requests_, crashes |-> crashes_,
     until |-> until, opened |-> opened, enrolled |-> enrolled, sockets |-> sockets,
     frames |-> frames_, events |-> events_]

(* Refresh tokens: rotations, replays and logouts of one or two sessions.  *)
Tokens == Load({"login", "refresh", "logout"}, {u1}, 4, 1, 1, <<u1>>, {}, {}, 0, 0)

(* Authenticators: logins with a second factor against the disabling of    *)
(* the device, and enrollments against each other.                         *)
SecondFactor == Load({"login", "verify", "disable"}, {u1}, 3, 0, 2, <<u1, u2>>, {u1}, {}, 0, 0)
Enrollment == Load({"enroll", "confirm"}, {u1}, 4, 0, 2, <<u1>>, {}, {}, 0, 0)

(* One socket, two sessions of its user and one of another user, a logout. *)
OneSocket == Load({"logout"}, {}, 1, 0, 1, <<u1, u1, u2>>, {}, {k1}, 3, 1)

MCLoads == {Tokens, SecondFactor, Enrollment, OneSocket}
=============================================================================
