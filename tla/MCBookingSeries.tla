--------------------------- MODULE MCBookingSeries ---------------------------
(***************************************************************************)
(* Instances of BookingSeries for TLC: weeks of two days, days of one tick.*)
(***************************************************************************)
EXTENDS BookingSeries, TLC

CONSTANTS alice, root, walkin1, r1, b1, b2, b3, s1, s2

MCRole == [u \in Users |-> IF u = root THEN "adminRole" ELSE "userRole"]
MCAllowedRoles == [r \in Rooms |-> {}]
MCAutoApprove == [r \in Rooms |-> FALSE]
NoPrincipal == [d \in Devices |-> walkin1]

Weekly(days) ==
  [room |-> r1, startDate |-> 1, endDate |-> 2, days |-> days,
   open |-> 0, close |-> 1]
MCTemplates == {Weekly({0}), Weekly({0, 1})}
PlainSlot == {[start |-> 3, end |-> 4]}

\* Alice's access is scheduled to end at 1, or ends at once at 1.
MCStripeEvent == [e \in StripeEvents |->
  [user |-> alice,
   kind |-> IF e = 1 THEN "deleted" ELSE "ending",
   at   |-> IF e = 1 THEN 1 ELSE 0,
   ends |-> IF e = 1 THEN {} ELSE {1}]]

Symmetry == Permutations(BookingIds) \cup Permutations(SeriesIds)
=============================================================================
