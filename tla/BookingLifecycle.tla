--------------------------- MODULE BookingLifecycle ---------------------------
(***************************************************************************)
(* What the system promises about one booking, whoever acts on it: the     *)
(* state machine of the README (TRANSITIONS in booking.service.ts) and a    *)
(* trail with one entry per status the booking has had, which is never      *)
(* rewritten.  BookingService and the modules above it are shown to         *)
(* implement this specification.                                            *)
(***************************************************************************)
EXTENDS Naturals, Sequences

CONSTANT BookingIds

VARIABLES
  state,    \* [BookingIds -> status], "NONE" before the booking exists
  trail     \* [BookingIds -> sequence of statuses entered]

vars == <<state, trail>>

\* TRANSITIONS.
Moves(s) ==
  CASE s = "PENDING"    -> {"CONFIRMED", "REJECTED", "CANCELLED"}
    [] s = "CONFIRMED"  -> {"CHECKED_IN", "CANCELLED", "EXPIRED"}
    [] s = "CHECKED_IN" -> {"COMPLETED"}
    [] OTHER            -> {}

Init ==
  /\ state = [b \in BookingIds |-> "NONE"]
  /\ trail = [b \in BookingIds |-> <<>>]

\* A request, or an approved one, appears.
Register(b) ==
  /\ state[b] = "NONE"
  /\ \E s \in {"PENDING", "CONFIRMED"} :
       /\ state' = [state EXCEPT ![b] = s]
       /\ trail' = [trail EXCEPT ![b] = <<s>>]

\* A walk-in is confirmed and checked in by one transaction.
RegisterPresent(b) ==
  /\ state[b] = "NONE"
  /\ state' = [state EXCEPT ![b] = "CHECKED_IN"]
  /\ trail' = [trail EXCEPT ![b] = <<"CONFIRMED", "CHECKED_IN">>]

Move(b) ==
  \E s \in Moves(state[b]) :
    /\ state' = [state EXCEPT ![b] = s]
    /\ trail' = [trail EXCEPT ![b] = Append(@, s)]

\* A PRO plan that ends takes the user's coming occurrences with it.
CancelTogether(B) ==
  /\ \A b \in B : "CANCELLED" \in Moves(state[b])
  /\ state' = [b \in BookingIds |-> IF b \in B THEN "CANCELLED" ELSE state[b]]
  /\ trail' = [b \in BookingIds |->
                 IF b \in B THEN Append(trail[b], "CANCELLED") ELSE trail[b]]

Next ==
  \/ \E b \in BookingIds : Register(b) \/ RegisterPresent(b) \/ Move(b)
  \/ \E B \in SUBSET BookingIds : CancelTogether(B)

Spec == Init /\ [][Next]_vars
=============================================================================
