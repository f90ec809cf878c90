---------------------------- MODULE CheckInPolicy ----------------------------
(***************************************************************************)
(* The rules of check-in/check-in-policy.service.ts as pure operators:      *)
(* the check-in window, the lifetime of a QR token, and which kiosk device  *)
(* may act for a room.  Times are ticks of one clock; the policy adds and   *)
(* compares instants only.                                                  *)
(***************************************************************************)
EXTENDS Integers

CONSTANTS
  Early,      \* CHECK_IN_EARLY_MINUTES
  Late,       \* CHECK_IN_LATE_MINUTES
  QrTtl       \* QR_TOKEN_TTL_MS

ASSUME WindowAssumption == Early \in Nat /\ Late \in Nat /\ QrTtl \in Nat

OpensAt(start) == start - Early

ClosesAt(start) == start + Late

\* Both ends are inside: the code rejects now < opensAt and now > closesAt.
InWindow(start, t) == OpensAt(start) <= t /\ t <= ClosesAt(start)

\* A token dies with the window even if its own lifetime is longer.
QrExpiry(start, t) ==
  IF t + QrTtl <= ClosesAt(start) THEN t + QrTtl ELSE ClosesAt(start)

\* The device row as the transaction reads it, against the room that is
\* being opened.  A device without a room matches no room.
TrustedDevice(d, room) == d.active /\ ~d.revoked /\ d.room = room

\* Mutant of MayCheckIn: the lifetime of the token stands for the window.
MayCheckInWithToken(stat, start, expires, t) ==
  stat = "CONFIRMED" /\ t <= expires

\* What a scan needs of the booking row: status, window and token lifetime.
MayCheckIn(stat, start, expires, t) ==
  /\ stat = "CONFIRMED"
  /\ InWindow(start, t)
  /\ t <= expires
=============================================================================
