------------------------ MODULE MCBookingTransactions ------------------------
(***************************************************************************)
(* Instances of BookingTransactions for TLC: two requests for one room,     *)
(* by one user for disjoint times (the limit decides) or by two users for   *)
(* overlapping times (the constraint decides).                              *)
(***************************************************************************)
EXTENDS BookingTransactions, TLC

CONSTANTS alice, bob, r1, c1, c2

MCRole == [u \in Users |-> "userRole"]
MCAllowedRoles == [r \in Rooms |-> {}]

Wish(u, s, e) == [user |-> u, room |-> r1, start |-> s, end |-> e]

MCWishes == {(c1 :> Wish(alice, 1, 2)) @@ (c2 :> Wish(alice, 3, 5)),
             (c1 :> Wish(bob, 4, 6)) @@ (c2 :> Wish(alice, 3, 5))}
=============================================================================
