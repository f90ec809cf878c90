------------------------------ MODULE MCWaitlist ------------------------------
(***************************************************************************)
(* Instances of Waitlist for TLC: one room, one contested slot, two users   *)
(* (only PRO plans may queue) and an admin who approves and rejects.        *)
(***************************************************************************)
EXTENDS Waitlist, TLC

CONSTANTS alice, bob, root, r1, b1, b2, b3

MCRole == [u \in Users |-> IF u = root THEN "adminRole" ELSE "userRole"]
MCAllowedRoles == [r \in Rooms |-> {}]
MCAutoApprove == [r \in Rooms |-> FALSE]
NoPrincipal == [d \in Devices |-> root]

Interval(s, e) == [start |-> s, end |-> e]
OneSlot == {Interval(1, 2)}

Symmetry == Permutations(BookingIds)
=============================================================================
