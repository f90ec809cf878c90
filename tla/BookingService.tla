---------------------------- MODULE BookingService ----------------------------
(***************************************************************************)
(* booking/booking.service.ts without its waitlist (Waitlist adds it): the  *)
(* booking rows, their event log and QR tokens, and everybody who writes    *)
(* them -- users, admins, kiosk devices, the expiry and check-out jobs and  *)
(* the editor of recurring occurrences.                                     *)
(*                                                                          *)
(* A SERIALIZABLE transaction (withSerializableRetry) is one step; module   *)
(* BookingTransactions looks inside.  What runs outside one transaction is  *)
(* several steps with the values read earlier kept in the caller's local    *)
(* state: generateQr (READ COMMITTED), the kiosk routes (authenticate, then *)
(* act), and the jobs (read the due rows, then settle them one by one).     *)
(***************************************************************************)
EXTENDS BookingPolicy, CheckInPolicy, Sequences

CONSTANTS
  Slots,            \* intervals users ask for, records [start, end]
  AutoApprove,      \* [Rooms -> BOOLEAN]
  Occurrences,      \* rows that belong to a recurring series
  Devices, Principal,       \* kiosks; [Devices -> their system user]
  WalkInDelay, WalkInDurations,
  QrCalls, Kiosks,          \* generateQr and kiosk requests in flight
  ExpireRuns, CompleteRuns, \* executions of the two jobs in flight
  BatchSize,                \* `take' of the jobs' queries
  ProAtStart,               \* users on the PRO plan to begin with
  ChangingUsers, ChangingRooms, ChangingDevices, \* rows others modify
  MaxTime, MaxTokens, MaxVersion, MaxFaults      \* bounds of the model

ASSUME ServiceAssumption ==
  /\ \A s \in Slots : s.start \in Nat /\ s.end \in Nat /\ s.start < s.end
  /\ Slots \subseteq [start : Nat, end : Nat]
  /\ AutoApprove \in [Rooms -> BOOLEAN]
  /\ Occurrences \subseteq BookingIds
  /\ Principal \in [Devices -> Users]
  /\ WalkInDelay \in 0..Early /\ WalkInDurations \subseteq Nat \ {0}
  /\ BatchSize \in Nat \ {0}
  /\ ChangingDevices \subseteq Devices
  /\ MaxTime \in Nat /\ MaxTokens \in Nat /\ MaxVersion \in Nat
  /\ MaxFaults \in Nat

VARIABLES
  events,       \* [BookingIds -> Seq(Event)], the booking_events rows
  qr,           \* [BookingIds -> at most one token: hash and expiry]
  checkedInAt,  \* [BookingIds -> time], meaningful once checked in
  issued,       \* tokens issued so far
  device,       \* [Devices -> row]
  qrCall,       \* [QrCalls -> at most one request, with what it read]
  kiosk,        \* [Kiosks -> at most one request, with what it read]
  expireDue,    \* [ExpireRuns -> rows the run read and has not settled]
  completeDue,  \* [CompleteRuns -> likewise]
  faults        \* database failures that cut a job short

rows == <<status, data, events, checkedInAt>>
calls == <<qrCall, kiosk>>
jobs == <<expireDue, completeDue, faults>>
settings == <<plan, roomState, device>>
vars == <<now, rows, qr, issued, settings, calls, jobs>>

Row == [user : Users \cup {NoUser}, room : Rooms \cup {NoRoom},
        start : Nat, end : Nat]
Blank == [user |-> NoUser, room |-> NoRoom, start |-> 0, end |-> 0]
Token == [token : Nat, expires : Nat]
DeviceRow == [room : Rooms \cup {NoRoom}, active : BOOLEAN,
              revoked : BOOLEAN, version : Nat]
QrRequest == [booking : BookingIds, start : Nat, at : Nat]
KioskRequest == [dev : Devices, version : Nat, room : Rooms \cup {NoRoom},
                 at : Nat, seen : Nat]
Event == [prev : Statuses, new : Statuses]

\* People sign in; the walk-in principals of the kiosks cannot.
Clients == Users \ {Principal[d] : d \in Devices}
Admins == {u \in Clients : Role[u] = "adminRole"}

Init ==
  /\ now = 0
  /\ status = [b \in BookingIds |-> "NONE"]
  /\ data = [b \in BookingIds |-> Blank]
  /\ events = [b \in BookingIds |-> <<>>]
  /\ checkedInAt = [b \in BookingIds |-> 0]
  /\ qr = [b \in BookingIds |-> {}]
  /\ issued = 0
  /\ plan = [u \in Users |-> IF u \in ProAtStart THEN "PRO" ELSE "FREE"]
  /\ roomState = [r \in Rooms |-> "open"]
  /\ device \in [Devices -> [room : Rooms, active : BOOLEAN,
                             revoked : {FALSE}, version : {1}]]
  /\ \A d, e \in Devices : d # e => device[d].room # device[e].room
  /\ qrCall = [c \in QrCalls |-> {}]
  /\ kiosk = [k \in Kiosks |-> {}]
  /\ expireDue = [j \in ExpireRuns |-> {}]
  /\ completeDue = [j \in CompleteRuns |-> {}]
  /\ faults = 0

-----------------------------------------------------------------------------
(* Writing a booking row.                                                   *)

\* Mutants of EventOf: the row is read after its update; the field is missing.
EventOfUpdated(from, to) == [prev |-> to, new |-> to]
EventOfNew(from, to) == [new |-> to]

EventOf(from, to) == [prev |-> from, new |-> to]

\* booking.create followed by recordEvent, for each status of the new row.
Insert(b, req, path) ==
  /\ status[b] = "NONE"
  /\ status' = [status EXCEPT ![b] = path[Len(path)]]
  /\ data' = [data EXCEPT ![b] = req]
  /\ events' = [events EXCEPT ![b] =
       [i \in 1..Len(path) |->
          EventOf(IF i = 1 THEN "NONE" ELSE path[i - 1], path[i])]]

\* The conditional update and its event; also checkInByDevice's own.
SetStatus(b, to) ==
  /\ status' = [status EXCEPT ![b] = to]
  /\ events' = [events EXCEPT ![b] = Append(@, EventOf(status[b], to))]
  /\ UNCHANGED data

\* transitionBooking.  The token of the row, if any, stays where it is.
TransitionBooking(b, to) ==
  /\ CanMove(status[b], to)
  /\ SetStatus(b, to)
  /\ UNCHANGED <<checkedInAt, qr>>

-----------------------------------------------------------------------------
(* Requests of signed-in users and admins.                                  *)

AutoConfirm(u, r) ==
  AutoApprove[r] \/ Role[u] \in {"teacherRole", "adminRole"}

CreateBooking(u, r, s, b) ==
  LET req == [user |-> u, room |-> r, start |-> s.start, end |-> s.end]
  IN  /\ Verdict(req, {}, FALSE) = "OK"
      /\ Insert(b, req, IF AutoConfirm(u, r) THEN <<"CONFIRMED">>
                                             ELSE <<"PENDING">>)
      /\ UNCHANGED <<now, checkedInAt, qr, issued, settings, calls, jobs>>

\* cancelBooking; also forceDeleteBooking, which is an admin's cancellation.
CancelBooking(u, b) ==
  /\ u \in Admins \/ data[b].user = u
  /\ TransitionBooking(b, "CANCELLED")
  /\ UNCHANGED <<now, issued, settings, calls, jobs>>

ApproveBooking(b) ==
  /\ Admins # {}
  /\ TransitionBooking(b, "CONFIRMED")
  /\ UNCHANGED <<now, issued, settings, calls, jobs>>

RejectBooking(b) ==
  /\ Admins # {}
  /\ TransitionBooking(b, "REJECTED")
  /\ UNCHANGED <<now, issued, settings, calls, jobs>>

\* The check-out route: admins and teachers, at any time.
CheckOut(u, b) ==
  /\ Role[u] \in {"adminRole", "teacherRole"}
  /\ TransitionBooking(b, "COMPLETED")
  /\ UNCHANGED <<now, issued, settings, calls, jobs>>

\* generateQr, first statement: the row is read and checked ...
GenerateQrRead(c, u, b) ==
  /\ qrCall[c] = {}
  /\ u \in Admins \/ data[b].user = u
  /\ status[b] = "CONFIRMED"
  /\ InWindow(data[b].start, now)
  /\ qrCall' = [qrCall EXCEPT ![c] =
       {[booking |-> b, start |-> data[b].start, at |-> now]}]
  /\ UNCHANGED <<now, rows, qr, issued, settings, kiosk, jobs>>

\* Mutant of QrStillWanted: the update has no condition.
QrAlwaysWanted(b) == TRUE

\* ... and the update that follows applies only to a row still CONFIRMED.
QrStillWanted(b) == status[b] = "CONFIRMED"

GenerateQrWrite(c) ==
  \E q \in qrCall[c] :
    /\ qrCall' = [qrCall EXCEPT ![c] = {}]
    /\ \/ /\ QrStillWanted(q.booking)
          /\ issued < MaxTokens
          /\ issued' = issued + 1
          /\ qr' = [qr EXCEPT ![q.booking] =
               {[token |-> issued + 1,
                 expires |-> QrExpiry(q.start, q.at)]}]
       \/ /\ ~QrStillWanted(q.booking)
          /\ UNCHANGED <<qr, issued>>
    /\ UNCHANGED <<now, rows, settings, kiosk, jobs>>

-----------------------------------------------------------------------------
(* Kiosk requests: authenticateDevice, then one transaction.                *)

Authenticate(k, d) ==
  /\ kiosk[k] = {}
  /\ device[d].active /\ ~device[d].revoked
  /\ kiosk' = [kiosk EXCEPT ![k] =
       {[dev |-> d, version |-> device[d].version, room |-> device[d].room,
         at |-> now, seen |-> issued]}]
  /\ UNCHANGED <<now, rows, qr, issued, settings, qrCall, jobs>>

\* Mutant of CurrentCredential: the transaction trusts the authentication.
AuthenticatedCredential(call) == TRUE

CurrentCredential(call) == device[call.dev].version = call.version

\* checkInByDevice: the token was in the request, `at' is taken between the
\* authentication and the transaction (whose retries keep it), everything
\* else is read by the transaction.  The token found is consumed.
CheckInByDevice(k, b) ==
  \E call \in kiosk[k], q \in qr[b] : \E at \in call.at..now :
    /\ q.token <= call.seen
    /\ CurrentCredential(call)
    /\ TrustedDevice(device[call.dev], data[b].room)
    /\ MayCheckIn(status[b], data[b].start, q.expires, at)
    /\ SetStatus(b, "CHECKED_IN")
    /\ checkedInAt' = [checkedInAt EXCEPT ![b] = at]
    /\ qr' = [qr EXCEPT ![b] = {}]
    /\ kiosk' = [kiosk EXCEPT ![k] = {}]
    /\ UNCHANGED <<now, issued, settings, qrCall, jobs>>

\* createWalkIn: confirmed and checked in by one transaction.
WalkIn(k, duration, b) ==
  \E call \in kiosk[k] : \E at \in call.at..now :
    LET d == device[call.dev]
        start == at + WalkInDelay
        req == [user |-> Principal[call.dev], room |-> d.room,
                start |-> start, end |-> start + duration]
    IN  /\ call.room # NoRoom
        /\ CurrentCredential(call)
        /\ TrustedDevice(d, call.room)
        /\ Verdict(req, {}, FALSE) = "OK"
        /\ Insert(b, req, <<"CONFIRMED", "CHECKED_IN">>)
        /\ checkedInAt' = [checkedInAt EXCEPT ![b] = at]
        /\ kiosk' = [kiosk EXCEPT ![k] = {}]
        /\ UNCHANGED <<now, qr, issued, settings, qrCall, jobs>>

\* Rejected, rate limited, or the server died: nothing is written.
KioskFails(k) ==
  /\ kiosk[k] # {}
  /\ kiosk' = [kiosk EXCEPT ![k] = {}]
  /\ UNCHANGED <<now, rows, qr, issued, settings, qrCall, jobs>>

-----------------------------------------------------------------------------
(* The jobs: expireDueBookings and completeDueBookings.                     *)

\* Mutant of Overdue: the grace period is forgotten.
OverdueAtStart(b) == status[b] = "CONFIRMED" /\ data[b].start < now

\* Strictly after the inclusive check-in window.
Overdue(b) == status[b] = "CONFIRMED" /\ data[b].start < now - Late

PastEnd(b) == status[b] = "CHECKED_IN" /\ data[b].end < now

\* findMany without an order: any BatchSize of the rows, or all of them.
Batches(S) ==
  {D \in SUBSET S : D # {} /\ (D = S \/ Cardinality(D) = BatchSize)
                           /\ Cardinality(D) <= BatchSize}

StartExpiry(j) ==
  /\ expireDue[j] = {}
  /\ \E D \in Batches({b \in BookingIds : Overdue(b)}) :
       expireDue' = [expireDue EXCEPT ![j] = D]
  /\ UNCHANGED <<now, rows, qr, issued, settings, calls, completeDue, faults>>

StartCompletion(j) ==
  /\ completeDue[j] = {}
  /\ \E D \in Batches({b \in BookingIds : PastEnd(b)}) :
       completeDue' = [completeDue EXCEPT ![j] = D]
  /\ UNCHANGED <<now, rows, qr, issued, settings, calls, expireDue, faults>>

\* Mutant of Settle: a booking that moved on is never given up.
SettleStrictly(b, to) == TransitionBooking(b, to)

\* One iteration: INVALID_STATE_TRANSITION is swallowed.
Settle(b, to) ==
  \/ TransitionBooking(b, to)
  \/ ~CanMove(status[b], to) /\ UNCHANGED <<rows, qr>>

ExpireNext(j) ==
  /\ \E b \in expireDue[j] :
       /\ Settle(b, "EXPIRED")
       /\ expireDue' = [expireDue EXCEPT ![j] = @ \ {b}]
  /\ UNCHANGED <<now, issued, settings, calls, completeDue, faults>>

CompleteNext(j) ==
  /\ \E b \in completeDue[j] :
       /\ Settle(b, "COMPLETED")
       /\ completeDue' = [completeDue EXCEPT ![j] = @ \ {b}]
  /\ UNCHANGED <<now, issued, settings, calls, expireDue, faults>>

\* Any other error leaves the loop: the rest of the batch is not settled.
JobFails ==
  /\ faults < MaxFaults
  /\ faults' = faults + 1
  /\ \/ \E j \in ExpireRuns : expireDue[j] # {}
          /\ expireDue' = [expireDue EXCEPT ![j] = {}]
          /\ UNCHANGED completeDue
     \/ \E j \in CompleteRuns : completeDue[j] # {}
          /\ completeDue' = [completeDue EXCEPT ![j] = {}]
          /\ UNCHANGED expireDue
  /\ UNCHANGED <<now, rows, qr, issued, settings, calls>>

-----------------------------------------------------------------------------
(* Other writers of the rows this service reads.                            *)

\* Mutant of NoActiveOverlap: the constraint on users is missing.
NoRoomOverlap(row, b) == ~RoomConflict(row, {b})

\* The exclusion constraints of the booking table, as they bind row b.
NoActiveOverlap(row, b) == ~UserConflict(row, {b}) /\ ~RoomConflict(row, {b})

EditableStatuses == {"PENDING", "CONFIRMED"}

\* BookingSeriesService.editOccurrence by the owner or an admin: the row
\* moves, its status and events do not, and its token is withdrawn.  Plan
\* and policy are asked about the editor, so that for somebody else's row
\* only the constraints of the table look at the owner's other bookings.
EditOccurrence(u, b, r, s) ==
  LET row == [user |-> data[b].user, room |-> r,
              start |-> s.start, end |-> s.end]
  IN  /\ b \in Occurrences
      /\ u \in Admins \/ data[b].user = u
      /\ status[b] \in EditableStatuses
      /\ plan[u] = "PRO"
      /\ Verdict([row EXCEPT !.user = u], {b}, FALSE) = "OK"
      /\ NoActiveOverlap(row, b)
      /\ data' = [data EXCEPT ![b] = row]
      /\ qr' = [qr EXCEPT ![b] = {}]
      /\ UNCHANGED <<now, status, events, checkedInAt, issued, settings,
                     calls, jobs>>

\* DeviceService, one action per operation on an existing device.  The room
\* column is unique.
SetDevice(d, row) ==
  /\ device' = [device EXCEPT ![d] = row]
  /\ UNCHANGED <<now, rows, qr, issued, plan, roomState, calls, jobs>>

UpdateDevice(d) ==
  \E r \in Rooms \cup {NoRoom} :
    /\ r # NoRoom => \A e \in Devices \ {d} : device[e].room # r
    /\ SetDevice(d, [device[d] EXCEPT !.room = r])

RotateDeviceKey(d) ==
  /\ ~device[d].revoked /\ device[d].version < MaxVersion
  /\ SetDevice(d, [device[d] EXCEPT !.version = @ + 1])

\* The credential version stays what it was.
RevokeDevice(d) ==
  SetDevice(d, [device[d] EXCEPT !.active = FALSE, !.revoked = TRUE])

ReactivateDevice(d) ==
  /\ device[d].version < MaxVersion
  /\ SetDevice(d, [room |-> device[d].room, active |-> TRUE,
                    revoked |-> FALSE, version |-> device[d].version + 1])

\* checkout.session.completed: the plan, and no booking, changes.
UpgradePlan(u) ==
  /\ plan' = [plan EXCEPT ![u] = "PRO"]
  /\ UNCHANGED <<now, rows, qr, issued, roomState, device, calls, jobs>>

FutureOccurrences(u, at) ==
  {b \in Occurrences : /\ data[b].user = u /\ status[b] \in EditableStatuses
                       /\ data[b].start >= at}

\* The loop of cancelForUsers.
Withdraw(B) ==
  /\ status' = [b \in BookingIds |-> IF b \in B THEN "CANCELLED" ELSE status[b]]
  /\ events' = [b \in BookingIds |->
       IF b \in B THEN Append(events[b], EventOf(status[b], "CANCELLED"))
       ELSE events[b]]
  /\ qr' = [b \in BookingIds |-> IF b \in B THEN {} ELSE qr[b]]
  /\ UNCHANGED <<data, checkedInAt>>

\* One user of expireDueProAccess, in one transaction: the plan ends and
\* with it the occurrences to come, by the clock of the job's claim.
ExpireProAccess(u) ==
  /\ plan[u] = "PRO"
  /\ plan' = [plan EXCEPT ![u] = "FREE"]
  /\ \E at \in 0..now : Withdraw(FutureOccurrences(u, at))
  /\ UNCHANGED <<now, issued, roomState, device, calls, jobs>>

\* Admins change rooms and closures whatever is booked.
ChangeRoom(r) ==
  /\ \E s \in {"open", "closed", "inactive"} :
       roomState' = [roomState EXCEPT ![r] = s]
  /\ UNCHANGED <<now, rows, qr, issued, plan, device, calls, jobs>>

Tick ==
  /\ now < MaxTime
  /\ now' = now + 1
  /\ UNCHANGED <<rows, qr, issued, settings, calls, jobs>>

-----------------------------------------------------------------------------
RequestStep ==
  \/ \E u \in Clients, r \in Rooms, s \in Slots, b \in BookingIds :
       CreateBooking(u, r, s, b)
  \/ \E b \in BookingIds : ApproveBooking(b)
  \/ \E u \in Clients, b \in BookingIds : CheckOut(u, b)
  \/ \E c \in QrCalls, u \in Clients, b \in BookingIds :
       GenerateQrRead(c, u, b)
  \/ \E c \in QrCalls : GenerateQrWrite(c)

\* The steps that give a slot back on somebody's decision.
ReleaseStep ==
  \/ \E u \in Clients, b \in BookingIds : CancelBooking(u, b)
  \/ \E b \in BookingIds : RejectBooking(b)

KioskStep ==
  \/ \E k \in Kiosks, d \in Devices : Authenticate(k, d)
  \/ \E k \in Kiosks, b \in BookingIds : CheckInByDevice(k, b)
  \/ \E k \in Kiosks, m \in WalkInDurations, b \in BookingIds :
       WalkIn(k, m, b)
  \/ \E k \in Kiosks : KioskFails(k)

ExpiryStep == \E j \in ExpireRuns : StartExpiry(j) \/ ExpireNext(j)
CompletionStep == \E j \in CompleteRuns : StartCompletion(j) \/ CompleteNext(j)

OtherStep ==
  \/ \E u \in Clients, b \in BookingIds, r \in Rooms, s \in Slots :
       EditOccurrence(u, b, r, s)
  \/ \E d \in ChangingDevices :
       UpdateDevice(d) \/ RotateDeviceKey(d) \/ RevokeDevice(d)
       \/ ReactivateDevice(d)
  \/ \E u \in ChangingUsers : UpgradePlan(u) \/ ExpireProAccess(u)
  \/ \E r \in ChangingRooms : ChangeRoom(r)

\* Everything but the releases.
CoreStep ==
  RequestStep \/ KioskStep \/ ExpiryStep \/ CompletionStep \/ JobFails
  \/ OtherStep \/ Tick

Next == CoreStep \/ ReleaseStep

Spec == Init /\ [][Next]_vars

\* The clock runs and the durable jobs are executed again and again (module
\* BackgroundJobs); users, kiosks and admins owe nothing.
FairSpec ==
  Spec /\ WF_vars(Tick) /\ WF_vars(ExpiryStep) /\ WF_vars(CompletionStep)

-----------------------------------------------------------------------------
(* Properties.                                                              *)

\* Every variable keeps its shape.
TypeOK ==
  /\ now \in Nat
  /\ status \in [BookingIds -> Statuses]
  /\ data \in [BookingIds -> Row]
  /\ events \in [BookingIds -> Seq(Event)]
  /\ checkedInAt \in [BookingIds -> Nat]
  /\ qr \in [BookingIds -> SUBSET Token]
  /\ issued \in Nat
  /\ plan \in [Users -> {"FREE", "PRO"}]
  /\ roomState \in [Rooms -> {"open", "closed", "inactive"}]
  /\ device \in [Devices -> DeviceRow]
  /\ qrCall \in [QrCalls -> SUBSET QrRequest]
  /\ kiosk \in [Kiosks -> SUBSET KioskRequest]
  /\ expireDue \in [ExpireRuns -> SUBSET BookingIds]
  /\ completeDue \in [CompleteRuns -> SUBSET BookingIds]
  /\ faults \in Nat

\* Two bookings that hold their interval never overlap in a room or for a
\* user, whichever of the three ways (request, walk-in, moved occurrence)
\* put them there and whatever was released in between.
NoDoubleBooking ==
  \A a, b \in BookingIds :
    (a # b /\ Active(a) /\ Active(b) /\ Overlaps(data[a], data[b]))
      => data[a].user # data[b].user /\ data[a].room # data[b].room

\* A guest who is checked in was let in during the window of the booking as
\* it stands, although requests carry clocks, tokens and booking times read
\* before the row was moved.
CheckInWithinWindow ==
  \A b \in BookingIds :
    status[b] \in {"CHECKED_IN", "COMPLETED"}
      => InWindow(data[b].start, checkedInAt[b])

\* A booking that has been used carries no redeemable token, even when a QR
\* request read the row before the check-in and writes after it.
NoQrAfterCheckIn ==
  \A b \in BookingIds : status[b] \in {"CHECKED_IN", "COMPLETED"} => qr[b] = {}

\* A kiosk request authenticated with a credential that was since rotated,
\* revoked or moved to another room writes nothing.
StaleKioskWritesNothing ==
  [][\A k \in Kiosks : \A call \in kiosk[k] :
       (kiosk'[k] = {} /\ status' # status) =>
          /\ device[call.dev].version = call.version
          /\ device[call.dev].active /\ ~device[call.dev].revoked
          /\ \A b \in BookingIds : status'[b] # status[b]
               => data'[b].room = device[call.dev].room]_vars

\* A booking becomes a no-show only once its check-in window has closed
\* (BookingStatus.EXPIRED in schema.prisma: "did not check in within grace
\* period").
ExpiredOnlyAfterGrace ==
  [][\A b \in BookingIds :
       status[b] = "CONFIRMED" /\ status'[b] = "EXPIRED"
         => now > ClosesAt(data[b].start)]_vars

\* The statuses an event log, and every event log, passes through.
Trail(e) == [i \in DOMAIN e |-> e[i].new]
Trails == [b \in BookingIds |-> Trail(events[b])]

\* Every status change follows the state machine of the README and appends
\* to the event log exactly the statuses passed through.
Lifecycle == INSTANCE BookingLifecycle WITH state <- status, trail <- Trails

LifecycleSpec == Lifecycle!Spec

\* Each event starts from the status the previous one ended in, and the
\* last one names the status of the row.
EventChain ==
  \A b \in BookingIds :
    LET e == events[b]
    IN  /\ status[b] = IF e = <<>> THEN "NONE" ELSE e[Len(e)].new
        /\ \A i \in 1..Len(e) :
             e[i].prev = IF i = 1 THEN "NONE" ELSE e[i - 1].new

\* A no-show does not hold its room for ever: the expiry job gets to it.
NoShowReleased ==
  \A b \in BookingIds :
    (status[b] = "CONFIRMED" /\ now > ClosesAt(data[b].start))
      ~> status[b] # "CONFIRMED"

\* A guest who never checks out is checked out by the job.
GuestCheckedOut ==
  \A b \in BookingIds :
    (status[b] = "CHECKED_IN" /\ now > data[b].end) ~> status[b] = "COMPLETED"
=============================================================================
