--------------------------- MODULE MCBookingService ---------------------------
(***************************************************************************)
(* Instances of BookingService for TLC.                                    *)
(***************************************************************************)
EXTENDS BookingService, TLC

CONSTANTS alice, root, walkin1, r1, r2, d1, b1, b2

MCRole == [u \in Users |->
  IF u = root THEN "adminRole" ELSE "userRole"]

\* r2 confirms by itself and is for users and admins only.
MCAllowedRoles == [r \in Rooms |->
  IF r = r2 THEN {"userRole", "adminRole"} ELSE {}]
MCAutoApprove == [r \in Rooms |-> r = r2]
NoPrincipal == [d \in Devices |-> walkin1]

Interval(s, e) == [start |-> s, end |-> e]
LivenessSlots == {Interval(1, 2), Interval(2, 3)}
LateSlots == {Interval(1, 2), Interval(3, 4)}

Symmetry == Permutations(BookingIds)
=============================================================================
