---------------------------- MODULE BookingPolicy ----------------------------
(***************************************************************************)
(* BookingPolicyService.validateCreate: what one transaction reads of the   *)
(* room, user and booking rows before it inserts or moves a booking, and    *)
(* the first rule the request breaks.  The variables are those rows.        *)
(*                                                                          *)
(* Attendees and capacity, the length limit and the arithmetic of opening   *)
(* hours are left out: a room is "open", "closed" (no opening hours, or a   *)
(* closure, on the requested day) or "inactive" for every request alike.    *)
(***************************************************************************)
EXTENDS Integers, FiniteSets

CONSTANTS
  BookingIds,       \* rows the booking table may come to hold
  Users, Rooms,
  NoUser, NoRoom,   \* contents of a row that was never inserted
  Role,             \* [Users -> roles], the role column
  AllowedRoles,     \* [Rooms -> sets of roles], {} admits everybody
  UserLimit, TeacherLimit, ProLimit,   \* active bookings per user
  FreeAdvance, ProAdvance              \* how far ahead a start may lie

RoleNames == {"userRole", "teacherRole", "adminRole"}

ASSUME PolicyAssumption ==
  /\ NoUser \notin Users
  /\ NoRoom \notin Rooms
  /\ Role \in [Users -> RoleNames]
  /\ AllowedRoles \in [Rooms -> SUBSET RoleNames]
  /\ UserLimit \in Nat /\ TeacherLimit \in Nat /\ ProLimit \in Nat
  /\ FreeAdvance \in Nat /\ ProAdvance \in Nat

VARIABLES
  now,         \* the clock
  status,      \* [BookingIds -> Statuses]
  data,        \* [BookingIds -> who, where and when]
  plan,        \* [Users -> {"FREE", "PRO"}]
  roomState    \* [Rooms -> {"open", "closed", "inactive"}]

\* "NONE": the row does not exist yet.
Statuses == {"NONE", "PENDING", "CONFIRMED", "CHECKED_IN", "COMPLETED",
             "CANCELLED", "REJECTED", "EXPIRED"}

ActiveStatuses == {"PENDING", "CONFIRMED", "CHECKED_IN"}

\* Mutant of CanMove: expiry does not look at the status again.
CanMoveLateExpiry(from, to) ==
  \/ from = "PENDING" /\ to \in {"CONFIRMED", "REJECTED", "CANCELLED"}
  \/ from = "CONFIRMED" /\ to \in {"CHECKED_IN", "CANCELLED"}
  \/ from \in {"CONFIRMED", "CHECKED_IN"} /\ to = "EXPIRED"
  \/ from = "CHECKED_IN" /\ to = "COMPLETED"

\* Mutant of CanMove: a booking can be cancelled twice.
CanMoveCancelAgain(from, to) ==
  \/ from = "PENDING" /\ to \in {"CONFIRMED", "REJECTED", "CANCELLED"}
  \/ from = "CONFIRMED" /\ to \in {"CHECKED_IN", "CANCELLED", "EXPIRED"}
  \/ from = "CHECKED_IN" /\ to = "COMPLETED"
  \/ from = "CANCELLED" /\ to = "CANCELLED"

\* TRANSITIONS of booking.service.ts.
CanMove(from, to) ==
  \/ from = "PENDING" /\ to \in {"CONFIRMED", "REJECTED", "CANCELLED"}
  \/ from = "CONFIRMED" /\ to \in {"CHECKED_IN", "CANCELLED", "EXPIRED"}
  \/ from = "CHECKED_IN" /\ to = "COMPLETED"

Active(b) == status[b] \in ActiveStatuses

Overlaps(x, y) == x.start < y.end /\ y.start < x.end

\* Active bookings of the same user, or in the same room, other than those
\* in `except' (excludeBookingId).
ActiveOf(u, except) ==
  {b \in BookingIds \ except : Active(b) /\ data[b].user = u}

UserConflict(req, except) ==
  \E b \in ActiveOf(req.user, except) : Overlaps(data[b], req)

\* Mutant of RoomConflict: a room in use is not a room booked.
RoomConflictUntilCheckIn(req, except) ==
  \E b \in BookingIds \ except :
    status[b] \in {"PENDING", "CONFIRMED"} /\ data[b].room = req.room
    /\ Overlaps(data[b], req)

RoomConflict(req, except) ==
  \E b \in BookingIds \ except :
    Active(b) /\ data[b].room = req.room /\ Overlaps(data[b], req)

ActiveLimit(u) ==
  IF plan[u] = "PRO" THEN ProLimit
  ELSE IF Role[u] = "teacherRole" THEN TeacherLimit ELSE UserLimit

Advance(u) == IF plan[u] = "PRO" THEN ProAdvance ELSE FreeAdvance

RoleAllowed(u, r) == AllowedRoles[r] = {} \/ Role[u] \in AllowedRoles[r]

AtLimit(u, except) ==
  Role[u] # "adminRole" /\ Cardinality(ActiveOf(u, except)) >= ActiveLimit(u)

TooFarAhead(req) ==
  Role[req.user] # "adminRole" /\ req.start > now + Advance(req.user)

\* The first rule broken, in the order the code tests them; the order is
\* visible because the waitlist treats some verdicts as final for the slot.
Verdict(req, except, allowRoomConflict) ==
  IF req.start < now THEN "START_TIME_IN_PAST"
  ELSE IF roomState[req.room] = "inactive" THEN "ROOM_INACTIVE"
  ELSE IF ~RoleAllowed(req.user, req.room) THEN "ROLE_NOT_ALLOWED"
  ELSE IF roomState[req.room] = "closed" THEN "ROOM_CLOSED"
  ELSE IF TooFarAhead(req) THEN "ADVANCE_LIMIT_EXCEEDED"
  ELSE IF UserConflict(req, except) THEN "USER_OVERLAP"
  ELSE IF RoomConflict(req, except) /\ ~allowRoomConflict THEN "ROOM_OVERLAP"
  ELSE IF AtLimit(req.user, except) THEN "ACTIVE_LIMIT_EXCEEDED"
  ELSE "OK"
=============================================================================
