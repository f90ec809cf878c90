------------------------- MODULE BookingServiceProofs -------------------------
(***************************************************************************)
(* Theorems about BookingService, for every value of its constants.        *)
(*                                                                          *)
(* The steps of the service fall into four kinds, and every proof below     *)
(* follows them: a row is inserted (Inserts), the status of a row moves     *)
(* along the state machine (Moves), an existing row takes a new place       *)
(* (EditOccurrence), or rows are cancelled together when a plan ends        *)
(* (Withdraw); all other steps leave the rows alone.                        *)
(***************************************************************************)
EXTENDS BookingService, SequenceTheorems, TLAPS

Paths == {<<"PENDING">>, <<"CONFIRMED">>, <<"CONFIRMED", "CHECKED_IN">>}

RowsTyped ==
  /\ status \in [BookingIds -> Statuses]
  /\ data \in [BookingIds -> Row]
  /\ events \in [BookingIds -> Seq(Event)]

-----------------------------------------------------------------------------
(* Lemmas about the policy and about writing a row.                         *)

\* A request that passes validateCreate meets no active booking, and its
\* user is below the limit of active bookings.
LEMMA VerdictClear ==
  ASSUME NEW req, NEW except, Verdict(req, except, FALSE) = "OK"
  PROVE  /\ ~UserConflict(req, except) /\ ~RoomConflict(req, except)
         /\ ~AtLimit(req.user, except)
BY DEF Verdict

\* booking.create with its events keeps the types of the rows.
LEMMA InsertTyped ==
  ASSUME RowsTyped, NEW b \in BookingIds, NEW req \in Row,
         NEW path \in Paths, Insert(b, req, path)
  PROVE  RowsTyped'
<1>1. /\ path[Len(path)] \in Statuses
      /\ Len(path) \in Nat
      /\ \A i \in 1..Len(path) : path[i] \in Statuses
  BY DEF Paths, Statuses
<1>2. [i \in 1..Len(path) |->
         EventOf(IF i = 1 THEN "NONE" ELSE path[i - 1], path[i])]
        \in Seq(Event)
  <2>1. \A i \in 1..Len(path) :
          EventOf(IF i = 1 THEN "NONE" ELSE path[i - 1], path[i]) \in Event
    BY <1>1 DEF EventOf, Event, Statuses
  <2>2. QED
    BY <1>1, <2>1, IsASeq
<1>3. QED
  BY <1>1, <1>2 DEF Insert, RowsTyped

\* So does the conditional update of the status.
LEMMA SetStatusTyped ==
  ASSUME RowsTyped, NEW b \in BookingIds, NEW to \in Statuses,
         SetStatus(b, to)
  PROVE  RowsTyped'
<1>1. EventOf(status[b], to) \in Event
  BY DEF RowsTyped, EventOf, Event
<1>2. Append(events[b], EventOf(status[b], to)) \in Seq(Event)
  BY <1>1 DEF RowsTyped
<1>3. QED
  BY <1>2 DEF SetStatus, RowsTyped

\* So does the loop of cancelForUsers.
LEMMA WithdrawTyped ==
  ASSUME RowsTyped, qr \in [BookingIds -> SUBSET Token],
         NEW B \in SUBSET BookingIds, Withdraw(B)
  PROVE  RowsTyped' /\ qr' \in [BookingIds -> SUBSET Token]
<1>1. "CANCELLED" \in Statuses
  BY DEF Statuses
<1>2. \A b \in BookingIds :
        Append(events[b], EventOf(status[b], "CANCELLED")) \in Seq(Event)
  <2> SUFFICES ASSUME NEW b \in BookingIds
               PROVE  Append(events[b], EventOf(status[b], "CANCELLED"))
                        \in Seq(Event)
    OBVIOUS
  <2>1. EventOf(status[b], "CANCELLED") \in Event
    BY <1>1 DEF RowsTyped, EventOf, Event
  <2>2. QED
    BY <2>1 DEF RowsTyped
<1>3. QED
  BY <1>1, <1>2 DEF Withdraw, RowsTyped

\* The target of a legal move is a status.
LEMMA CanMoveTyped ==
  ASSUME NEW from, NEW to, CanMove(from, to)
  PROVE  to \in Statuses
BY DEF CanMove, Statuses

LEMMA QrExpiryTyped ==
  ASSUME NEW start \in Nat, NEW t \in Nat
  PROVE  QrExpiry(start, t) \in Nat
BY WindowAssumption DEF QrExpiry, ClosesAt

-----------------------------------------------------------------------------
(* Type correctness.                                                        *)

\* The types of everything but the rows.
RestTyped ==
  /\ now \in Nat
  /\ checkedInAt \in [BookingIds -> Nat]
  /\ qr \in [BookingIds -> SUBSET Token]
  /\ issued \in Nat
  /\ plan \in [Users -> {"FREE", "PRO"}]
  /\ roomState \in [Rooms -> {"open", "closed", "inactive"}]
  /\ device \in [Devices -> DeviceRow]
  /\ qrCall \in [QrCalls -> SUBSET QrRequest]
  /\ kiosk \in [Kiosks -> SUBSET KioskRequest]
  /\ expireDue \in [ExpireRuns -> SUBSET BookingIds]
  /\ completeDue \in [CompleteRuns -> SUBSET BookingIds]
  /\ faults \in Nat

LEMMA TypeSplit ==
  /\ TypeOK <=> RowsTyped /\ RestTyped
  /\ TypeOK' <=> RowsTyped' /\ RestTyped'
BY DEF TypeOK, RowsTyped, RestTyped

LEMMA InitTyped == Init => TypeOK
<1>1. ASSUME Init PROVE RowsTyped
  BY <1>1 DEF Init, RowsTyped, Statuses, Row, Blank
<1>2. ASSUME Init PROVE RestTyped
  <2>1. ASSUME NEW d \in [room : Rooms, active : BOOLEAN,
                            revoked : {FALSE}, version : {1}]
        PROVE  d \in DeviceRow
    <3>1. d.room \in Rooms \cup {NoRoom} /\ d.version \in Nat
      OBVIOUS
    <3>2. d.active \in BOOLEAN /\ d.revoked \in {FALSE}
      BY Zenon
    <3>3. d.active \in BOOLEAN /\ d.revoked \in BOOLEAN
      BY <3>2, Zenon
    <3>4. d = [room |-> d.room, active |-> d.active,
               revoked |-> d.revoked, version |-> d.version]
      OBVIOUS
    <3>5. QED
      BY <3>1, <3>3, <3>4 DEF DeviceRow
  <2>2. device \in [Devices -> DeviceRow]
    BY <1>2, <2>1 DEF Init
  <2>3. QED
    BY <1>2, <2>2 DEF Init, RestTyped
<1>3. QED
  BY <1>1, <1>2, TypeSplit

\* transitionBooking, whatever the new status.
LEMMA TransitionTyped ==
  ASSUME RowsTyped, NEW b \in BookingIds, NEW to, TransitionBooking(b, to)
  PROVE  RowsTyped'
BY CanMoveTyped, SetStatusTyped DEF TransitionBooking

-----------------------------------------------------------------------------
(* What the three actions with local names do, for any proof to cite.       *)

\* createBooking inserts a row that conflicts with no other.
LEMMA CreateEffect ==
  ASSUME TypeOK, NEW u \in Clients, NEW r \in Rooms, NEW s \in Slots,
         NEW b \in BookingIds, CreateBooking(u, r, s, b)
  PROVE  \E req \in Row, path \in {<<"PENDING">>, <<"CONFIRMED">>} :
           /\ ~UserConflict(req, {}) /\ ~RoomConflict(req, {})
           /\ ~AtLimit(req.user, {})
           /\ Insert(b, req, path)
           /\ UNCHANGED <<now, checkedInAt, qr, issued, settings, calls, jobs>>
<1> DEFINE req == [user |-> u, room |-> r, start |-> s.start, end |-> s.end]
           path == IF AutoConfirm(u, r) THEN <<"CONFIRMED">>
                                        ELSE <<"PENDING">>
<1>1. req \in Row /\ path \in {<<"PENDING">>, <<"CONFIRMED">>}
  BY ServiceAssumption DEF Row, Clients
<1>2. /\ ~UserConflict(req, {}) /\ ~RoomConflict(req, {})
      /\ ~AtLimit(req.user, {})
  BY VerdictClear DEF CreateBooking
<1>3. QED
  BY <1>1, <1>2 DEF CreateBooking

\* checkInByDevice moves a CONFIRMED row inside its window.
LEMMA CheckInEffect ==
  ASSUME TypeOK, NEW k \in Kiosks, NEW b \in BookingIds, CheckInByDevice(k, b)
  PROVE  \E at \in Nat :
           /\ status[b] = "CONFIRMED" /\ InWindow(data[b].start, at)
           /\ SetStatus(b, "CHECKED_IN")
           /\ checkedInAt' = [checkedInAt EXCEPT ![b] = at]
           /\ qr' = [qr EXCEPT ![b] = {}]
           /\ kiosk' = [kiosk EXCEPT ![k] = {}]
           /\ UNCHANGED <<now, issued, settings, qrCall, jobs>>
<1>1. PICK call \in kiosk[k] : \E at \in call.at..now :
        /\ status[b] = "CONFIRMED" /\ InWindow(data[b].start, at)
        /\ SetStatus(b, "CHECKED_IN")
        /\ checkedInAt' = [checkedInAt EXCEPT ![b] = at]
        /\ qr' = [qr EXCEPT ![b] = {}]
        /\ kiosk' = [kiosk EXCEPT ![k] = {}]
        /\ UNCHANGED <<now, issued, settings, qrCall, jobs>>
  BY DEF CheckInByDevice, MayCheckIn
<1>2. call.at..now \subseteq Nat
  BY DEF TypeOK, KioskRequest
<1>3. QED
  BY <1>1, <1>2

\* createWalkIn inserts a row that conflicts with no other, checked in
\* inside its own window.
LEMMA WalkInEffect ==
  ASSUME TypeOK, NEW k \in Kiosks, NEW m \in WalkInDurations,
         NEW b \in BookingIds, WalkIn(k, m, b)
  PROVE  \E at \in Nat, req \in Row :
           /\ ~UserConflict(req, {}) /\ ~RoomConflict(req, {})
           /\ ~AtLimit(req.user, {})
           /\ InWindow(req.start, at)
           /\ Insert(b, req, <<"CONFIRMED", "CHECKED_IN">>)
           /\ checkedInAt' = [checkedInAt EXCEPT ![b] = at]
           /\ kiosk' = [kiosk EXCEPT ![k] = {}]
           /\ UNCHANGED <<now, qr, issued, settings, qrCall, jobs>>
<1> DEFINE Req(call, at) ==
             [user |-> Principal[call.dev], room |-> device[call.dev].room,
              start |-> at + WalkInDelay, end |-> at + WalkInDelay + m]
<1>1. PICK call \in kiosk[k] : \E at \in call.at..now :
        /\ Verdict(Req(call, at), {}, FALSE) = "OK"
        /\ Insert(b, Req(call, at), <<"CONFIRMED", "CHECKED_IN">>)
        /\ checkedInAt' = [checkedInAt EXCEPT ![b] = at]
        /\ kiosk' = [kiosk EXCEPT ![k] = {}]
        /\ UNCHANGED <<now, qr, issued, settings, qrCall, jobs>>
  BY DEF WalkIn
<1>2. call.at..now \subseteq Nat /\ call.dev \in Devices
  BY DEF TypeOK, KioskRequest
<1>3. ASSUME NEW at \in Nat
      PROVE  Req(call, at) \in Row /\ InWindow(Req(call, at).start, at)
  <2>1. /\ Principal[call.dev] \in Users
        /\ device[call.dev].room \in Rooms \cup {NoRoom}
    BY <1>2, ServiceAssumption DEF TypeOK, DeviceRow
  <2>2. at + WalkInDelay \in Nat /\ at + WalkInDelay + m \in Nat
    BY ServiceAssumption, WindowAssumption
  <2>3. InWindow(at + WalkInDelay, at)
    BY ServiceAssumption, WindowAssumption DEF InWindow, OpensAt, ClosesAt
  <2>4. QED
    BY <2>1, <2>2, <2>3 DEF Row
<1>4. QED
  BY <1>1, <1>2, <1>3, VerdictClear

-----------------------------------------------------------------------------
(* Type correctness, continued: one lemma per group of steps.               *)

LEMMA RequestTyped ==
  ASSUME TypeOK, RequestStep
  PROVE  TypeOK'
<1> USE TypeSplit
<1>1. CASE \E u \in Clients, r \in Rooms, s \in Slots, b \in BookingIds :
             CreateBooking(u, r, s, b)
  <2>1. PICK b \in BookingIds, req \in Row, path \in Paths :
          /\ Insert(b, req, path)
          /\ UNCHANGED <<now, checkedInAt, qr, issued, settings, calls, jobs>>
    BY <1>1, CreateEffect DEF Paths
  <2>2. RowsTyped'
    BY <2>1, InsertTyped
  <2>3. QED
    BY <2>1, <2>2 DEF RestTyped, settings, calls, jobs
<1>2. CASE \E b \in BookingIds : ApproveBooking(b)
  BY <1>2, TransitionTyped
  DEF ApproveBooking, TransitionBooking, RestTyped, settings, calls, jobs
<1>3. CASE \E u \in Clients, b \in BookingIds : CheckOut(u, b)
  BY <1>3, TransitionTyped
  DEF CheckOut, TransitionBooking, RestTyped, settings, calls, jobs
<1>4. CASE \E c \in QrCalls, u \in Clients, b \in BookingIds :
             GenerateQrRead(c, u, b)
  <2>1. PICK c \in QrCalls, u \in Clients, b \in BookingIds :
          GenerateQrRead(c, u, b)
    BY <1>4
  <2>2. [booking |-> b, start |-> data[b].start, at |-> now] \in QrRequest
    BY DEF RowsTyped, RestTyped, Row, QrRequest
  <2>3. qrCall' \in [QrCalls -> SUBSET QrRequest]
    BY <2>1, <2>2 DEF GenerateQrRead, RestTyped
  <2>4. QED
    BY <2>1, <2>3
    DEF GenerateQrRead, RowsTyped, RestTyped, rows, settings, jobs
<1>5. CASE \E c \in QrCalls : GenerateQrWrite(c)
  <2>1. PICK c \in QrCalls : GenerateQrWrite(c)
    BY <1>5
  <2>2. PICK q \in qrCall[c] :
          /\ qrCall' = [qrCall EXCEPT ![c] = {}]
          /\ \/ /\ issued' = issued + 1
                /\ qr' = [qr EXCEPT ![q.booking] =
                     {[token |-> issued + 1,
                       expires |-> QrExpiry(q.start, q.at)]}]
             \/ UNCHANGED <<qr, issued>>
    BY <2>1 DEF GenerateQrWrite
  <2>3. q \in QrRequest
    BY <2>2 DEF RestTyped
  <2>4. [token |-> issued + 1, expires |-> QrExpiry(q.start, q.at)] \in Token
    <3>1. QrExpiry(q.start, q.at) \in Nat
      BY <2>3, QrExpiryTyped DEF QrRequest
    <3>2. QED
      BY <3>1 DEF RestTyped, Token
  <2>5. /\ qr' \in [BookingIds -> SUBSET Token]
        /\ issued' \in Nat
        /\ qrCall' \in [QrCalls -> SUBSET QrRequest]
    BY <2>2, <2>3, <2>4 DEF RestTyped, QrRequest
  <2>6. QED
    BY <2>1, <2>5
    DEF GenerateQrWrite, RowsTyped, RestTyped, rows, settings, jobs
<1>6. QED
  BY <1>1, <1>2, <1>3, <1>4, <1>5 DEF RequestStep

LEMMA KioskTyped ==
  ASSUME TypeOK, KioskStep
  PROVE  TypeOK'
<1> USE TypeSplit
<1>1. CASE \E k \in Kiosks, d \in Devices : Authenticate(k, d)
  <2>1. PICK k \in Kiosks, d \in Devices : Authenticate(k, d)
    BY <1>1
  <2>2. [dev |-> d, version |-> device[d].version, room |-> device[d].room,
         at |-> now, seen |-> issued] \in KioskRequest
    BY DEF RestTyped, DeviceRow, KioskRequest
  <2>3. kiosk' \in [Kiosks -> SUBSET KioskRequest]
    BY <2>1, <2>2 DEF Authenticate, RestTyped
  <2>4. QED
    BY <2>1, <2>3
    DEF Authenticate, RowsTyped, RestTyped, rows, settings, jobs
<1>2. CASE \E k \in Kiosks, b \in BookingIds : CheckInByDevice(k, b)
  <2>1. PICK k \in Kiosks, b \in BookingIds, at \in Nat :
          /\ SetStatus(b, "CHECKED_IN")
          /\ checkedInAt' = [checkedInAt EXCEPT ![b] = at]
          /\ qr' = [qr EXCEPT ![b] = {}]
          /\ kiosk' = [kiosk EXCEPT ![k] = {}]
          /\ UNCHANGED <<now, issued, settings, qrCall, jobs>>
    BY <1>2, CheckInEffect
  <2>2. RowsTyped'
    BY <2>1, SetStatusTyped DEF Statuses
  <2>3. QED
    BY <2>1, <2>2 DEF RestTyped, settings, jobs
<1>3. CASE \E k \in Kiosks, m \in WalkInDurations, b \in BookingIds :
             WalkIn(k, m, b)
  <2>1. PICK k \in Kiosks, b \in BookingIds, at \in Nat, req \in Row :
          /\ Insert(b, req, <<"CONFIRMED", "CHECKED_IN">>)
          /\ checkedInAt' = [checkedInAt EXCEPT ![b] = at]
          /\ kiosk' = [kiosk EXCEPT ![k] = {}]
          /\ UNCHANGED <<now, qr, issued, settings, qrCall, jobs>>
    BY <1>3, WalkInEffect
  <2>2. RowsTyped'
    BY <2>1, InsertTyped DEF Paths
  <2>3. QED
    BY <2>1, <2>2 DEF RestTyped, settings, jobs
<1>4. CASE \E k \in Kiosks : KioskFails(k)
  BY <1>4 DEF KioskFails, RowsTyped, RestTyped, rows, settings, jobs
<1>5. QED
  BY <1>1, <1>2, <1>3, <1>4 DEF KioskStep

\* One row settled by a job, or skipped.
LEMMA SettleTyped ==
  ASSUME RowsTyped, NEW b \in BookingIds, NEW to, Settle(b, to)
  PROVE  RowsTyped' /\ UNCHANGED <<checkedInAt, qr>>
<1>1. CASE TransitionBooking(b, to)
  BY <1>1, TransitionTyped DEF TransitionBooking
<1>2. CASE UNCHANGED <<rows, qr>>
  BY <1>2 DEF rows, RowsTyped
<1>3. QED
  BY <1>1, <1>2 DEF Settle

LEMMA JobTyped ==
  ASSUME TypeOK, ReleaseStep \/ ExpiryStep \/ CompletionStep \/ JobFails
  PROVE  TypeOK'
<1> USE TypeSplit
<1>1. CASE ReleaseStep
  BY <1>1, TransitionTyped
  DEF ReleaseStep, CancelBooking, RejectBooking, TransitionBooking,
      RestTyped, settings, calls, jobs
<1>2. CASE \E j \in ExpireRuns : StartExpiry(j)
  BY <1>2 DEF StartExpiry, Batches, RowsTyped, RestTyped, rows, settings, calls
<1>3. CASE \E j \in CompleteRuns : StartCompletion(j)
  BY <1>3
  DEF StartCompletion, Batches, RowsTyped, RestTyped, rows, settings, calls
<1>4. CASE \E j \in ExpireRuns : ExpireNext(j)
  <2>1. PICK j \in ExpireRuns, b \in BookingIds :
          /\ Settle(b, "EXPIRED")
          /\ expireDue' = [expireDue EXCEPT ![j] = @ \ {b}]
          /\ UNCHANGED <<now, issued, settings, calls, completeDue, faults>>
    BY <1>4 DEF ExpireNext, RestTyped
  <2>2. RowsTyped' /\ UNCHANGED <<checkedInAt, qr>>
    BY <2>1, SettleTyped
  <2>3. QED
    BY <2>1, <2>2 DEF RestTyped, settings, calls
<1>5. CASE \E j \in CompleteRuns : CompleteNext(j)
  <2>1. PICK j \in CompleteRuns, b \in BookingIds :
          /\ Settle(b, "COMPLETED")
          /\ completeDue' = [completeDue EXCEPT ![j] = @ \ {b}]
          /\ UNCHANGED <<now, issued, settings, calls, expireDue, faults>>
    BY <1>5 DEF CompleteNext, RestTyped
  <2>2. RowsTyped' /\ UNCHANGED <<checkedInAt, qr>>
    BY <2>1, SettleTyped
  <2>3. QED
    BY <2>1, <2>2 DEF RestTyped, settings, calls
<1>6. CASE JobFails
  <2>1. /\ expireDue' \in [ExpireRuns -> SUBSET BookingIds]
        /\ completeDue' \in [CompleteRuns -> SUBSET BookingIds]
    BY <1>6 DEF JobFails, RestTyped
  <2>2. QED
    BY <1>6, <2>1 DEF JobFails, RowsTyped, RestTyped, rows, settings, calls
<1>7. QED
  BY <1>1, <1>2, <1>3, <1>4, <1>5, <1>6 DEF ExpiryStep, CompletionStep

LEMMA OtherTyped ==
  ASSUME TypeOK, OtherStep \/ Tick
  PROVE  TypeOK'
<1> USE TypeSplit
<1>1. CASE \E u \in Clients, b \in BookingIds, r \in Rooms, s \in Slots :
             EditOccurrence(u, b, r, s)
  <2>1. PICK u \in Clients, b \in BookingIds, r \in Rooms, s \in Slots :
          EditOccurrence(u, b, r, s)
    BY <1>1
  <2>2. [user |-> data[b].user, room |-> r, start |-> s.start, end |-> s.end]
          \in Row
    BY ServiceAssumption DEF RowsTyped, Row
  <2>3. RowsTyped'
    BY <2>1, <2>2 DEF EditOccurrence, RowsTyped
  <2>4. QED
    BY <2>1, <2>3 DEF EditOccurrence, RestTyped, settings, calls, jobs
<1>2. CASE \E d \in ChangingDevices :
             UpdateDevice(d) \/ RotateDeviceKey(d) \/ RevokeDevice(d)
             \/ ReactivateDevice(d)
  <2>1. PICK d \in Devices : UpdateDevice(d) \/ RotateDeviceKey(d)
                             \/ RevokeDevice(d) \/ ReactivateDevice(d)
    BY <1>2, ServiceAssumption
  <2>2. ASSUME NEW row \in DeviceRow, SetDevice(d, row)
        PROVE  TypeOK'
    BY <2>2 DEF SetDevice, RowsTyped, RestTyped, rows, calls, jobs
  <2>3. device[d] \in DeviceRow
    BY DEF RestTyped
  <2>4. CASE UpdateDevice(d)
    <3>1. PICK r \in Rooms \cup {NoRoom} :
            SetDevice(d, [device[d] EXCEPT !.room = r])
      BY <2>4 DEF UpdateDevice
    <3>2. [device[d] EXCEPT !.room = r] \in DeviceRow
      BY <2>3 DEF DeviceRow
    <3>3. QED
      BY <2>2, <3>1, <3>2
  <2>5. CASE RotateDeviceKey(d)
    <3>1. [device[d] EXCEPT !.version = @ + 1] \in DeviceRow
      BY <2>3 DEF DeviceRow
    <3>2. QED
      BY <2>2, <2>5, <3>1 DEF RotateDeviceKey
  <2>6. CASE RevokeDevice(d)
    <3>1. [device[d] EXCEPT !.active = FALSE, !.revoked = TRUE] \in DeviceRow
      BY <2>3 DEF DeviceRow
    <3>2. QED
      BY <2>2, <2>6, <3>1 DEF RevokeDevice
  <2>7. CASE ReactivateDevice(d)
    <3>1. [room |-> device[d].room, active |-> TRUE, revoked |-> FALSE,
           version |-> device[d].version + 1] \in DeviceRow
      BY <2>3 DEF DeviceRow
    <3>2. QED
      BY <2>2, <2>7, <3>1 DEF ReactivateDevice
  <2>8. QED
    BY <2>1, <2>4, <2>5, <2>6, <2>7
<1>3. CASE \E u \in ChangingUsers : UpgradePlan(u) \/ ExpireProAccess(u)
  <2>1. CASE \E u \in ChangingUsers : UpgradePlan(u)
    BY <2>1 DEF UpgradePlan, RowsTyped, RestTyped, rows, calls, jobs
  <2>2. CASE \E u \in ChangingUsers : ExpireProAccess(u)
    <3>1. PICK u \in ChangingUsers, at \in 0..now :
            /\ Withdraw(FutureOccurrences(u, at))
            /\ plan' = [plan EXCEPT ![u] = "FREE"]
            /\ UNCHANGED <<now, issued, roomState, device, calls, jobs>>
      BY <2>2 DEF ExpireProAccess
    <3>2. FutureOccurrences(u, at) \in SUBSET BookingIds
      BY ServiceAssumption DEF FutureOccurrences
    <3>3. RowsTyped' /\ qr' \in [BookingIds -> SUBSET Token]
      BY <3>1, <3>2, WithdrawTyped DEF RestTyped
    <3>4. QED
      BY <3>1, <3>3 DEF Withdraw, RestTyped, calls, jobs
  <2>3. QED
    BY <1>3, <2>1, <2>2
<1>4. CASE \E r \in ChangingRooms : ChangeRoom(r)
  BY <1>4 DEF ChangeRoom, RowsTyped, RestTyped, rows, calls, jobs
<1>5. CASE Tick
  BY <1>5 DEF Tick, RowsTyped, RestTyped, rows, settings, calls, jobs
<1>6. QED
  BY <1>1, <1>2, <1>3, <1>4, <1>5 DEF OtherStep

\* Every variable keeps its shape, whatever the requests, devices and jobs.
THEOREM TypeCorrect == Spec => []TypeOK
<1>1. Init => TypeOK
  BY InitTyped
<1>2. TypeOK /\ [Next]_vars => TypeOK'
  <2>1. ASSUME TypeOK, Next PROVE TypeOK'
    BY <2>1, RequestTyped, KioskTyped, JobTyped, OtherTyped DEF Next, CoreStep
  <2>2. ASSUME TypeOK, UNCHANGED vars PROVE TypeOK'
    BY <2>2 DEF vars, rows, settings, calls, jobs, TypeOK
  <2>3. QED
    BY <2>1, <2>2
<1>3. QED
  BY <1>1, <1>2, PTL DEF Spec

-----------------------------------------------------------------------------
(* The kinds of steps, as seen by the rows, their tokens and check-in times. *)

\* The rows stay; at most the token of a CONFIRMED one is replaced.
Keeps ==
  /\ UNCHANGED <<status, data, events, checkedInAt>>
  /\ \/ UNCHANGED qr
     \/ \E b \in BookingIds, t \in SUBSET Token :
          status[b] = "CONFIRMED" /\ qr' = [qr EXCEPT ![b] = t]

\* A row appears: a request, a confirmed booking or a walk-in.
Registers(b, req, path) ==
  /\ ~UserConflict(req, {}) /\ ~RoomConflict(req, {})
  /\ ~AtLimit(req.user, {})
  /\ Insert(b, req, path)
  /\ UNCHANGED qr
  /\ \/ /\ path \in {<<"PENDING">>, <<"CONFIRMED">>}
        /\ UNCHANGED checkedInAt
     \/ /\ path = <<"CONFIRMED", "CHECKED_IN">>
        /\ \E at \in Nat : /\ InWindow(req.start, at)
                           /\ checkedInAt' = [checkedInAt EXCEPT ![b] = at]

\* A row moves along the state machine.
MovesTo(b, to) ==
  /\ CanMove(status[b], to)
  /\ SetStatus(b, to)
  /\ \/ to # "CHECKED_IN" /\ UNCHANGED <<checkedInAt, qr>>
     \/ /\ to = "CHECKED_IN" /\ qr' = [qr EXCEPT ![b] = {}]
        /\ \E at \in Nat : /\ InWindow(data[b].start, at)
                           /\ checkedInAt' = [checkedInAt EXCEPT ![b] = at]

\* An occurrence takes another place.
Edits(b, row) ==
  /\ status[b] \in EditableStatuses
  /\ NoActiveOverlap(row, b)
  /\ data' = [data EXCEPT ![b] = row]
  /\ qr' = [qr EXCEPT ![b] = {}]
  /\ UNCHANGED <<status, events, checkedInAt>>

\* Rows that may still be cancelled are, all at once.
Withdraws(B) ==
  /\ \A b \in B : status[b] \in EditableStatuses
  /\ Withdraw(B)

RowStep ==
  \/ Keeps
  \/ \E b \in BookingIds, req \in Row, path \in Paths : Registers(b, req, path)
  \/ \E b \in BookingIds, to \in Statuses : MovesTo(b, to)
  \/ \E b \in BookingIds, row \in Row : b \in Occurrences /\ Edits(b, row)
  \/ \E B \in SUBSET BookingIds : Withdraws(B)

LEMMA TransitionMoves ==
  ASSUME NEW b \in BookingIds, NEW to, to # "CHECKED_IN",
         TransitionBooking(b, to)
  PROVE  RowStep
BY CanMoveTyped DEF TransitionBooking, MovesTo, RowStep

LEMMA SettleMoves ==
  ASSUME NEW b \in BookingIds, NEW to, to # "CHECKED_IN", Settle(b, to)
  PROVE  RowStep
BY TransitionMoves DEF Settle, RowStep, Keeps, rows

\* Every step of the service is of one of these kinds.
LEMMA EveryStep ==
  ASSUME TypeOK, Next
  PROVE  RowStep
<1>1. CASE RequestStep
  <2>1. CASE \E u \in Clients, r \in Rooms, s \in Slots, b \in BookingIds :
               CreateBooking(u, r, s, b)
    BY <2>1, CreateEffect DEF Paths, Registers, RowStep
  <2>2. CASE \E b \in BookingIds : ApproveBooking(b)
    BY <2>2, TransitionMoves DEF ApproveBooking
  <2>3. CASE \E u \in Clients, b \in BookingIds : CheckOut(u, b)
    BY <2>3, TransitionMoves DEF CheckOut
  <2>4. CASE \E c \in QrCalls, u \in Clients, b \in BookingIds :
               GenerateQrRead(c, u, b)
    BY <2>4 DEF GenerateQrRead, RowStep, Keeps, rows
  <2>5. CASE \E c \in QrCalls : GenerateQrWrite(c)
    <3>1. PICK c \in QrCalls, q \in QrRequest :
            /\ UNCHANGED rows
            /\ \/ /\ status[q.booking] = "CONFIRMED"
                  /\ qr' = [qr EXCEPT ![q.booking] =
                       {[token |-> issued + 1,
                         expires |-> QrExpiry(q.start, q.at)]}]
               \/ UNCHANGED qr
      BY <2>5 DEF GenerateQrWrite, QrStillWanted, TypeOK
    <3>2. QrExpiry(q.start, q.at) \in Nat /\ q.booking \in BookingIds
      BY QrExpiryTyped DEF QrRequest
    <3>3. [token |-> issued + 1, expires |-> QrExpiry(q.start, q.at)] \in Token
      BY <3>2 DEF Token, TypeOK
    <3>4. QED
      BY <3>1, <3>2, <3>3 DEF RowStep, Keeps, rows
  <2>6. QED
    BY <1>1, <2>1, <2>2, <2>3, <2>4, <2>5 DEF RequestStep
<1>2. CASE KioskStep
  <2>1. CASE \E k \in Kiosks, d \in Devices : Authenticate(k, d)
    BY <2>1 DEF Authenticate, RowStep, Keeps, rows
  <2>2. CASE \E k \in Kiosks, b \in BookingIds : CheckInByDevice(k, b)
    <3>1. PICK b \in BookingIds, at \in Nat :
            /\ status[b] = "CONFIRMED" /\ InWindow(data[b].start, at)
            /\ SetStatus(b, "CHECKED_IN")
            /\ checkedInAt' = [checkedInAt EXCEPT ![b] = at]
            /\ qr' = [qr EXCEPT ![b] = {}]
      BY <2>2, CheckInEffect
    <3>2. CanMove(status[b], "CHECKED_IN") /\ "CHECKED_IN" \in Statuses
      BY <3>1 DEF CanMove, Statuses
    <3>3. MovesTo(b, "CHECKED_IN")
      BY <3>1, <3>2 DEF MovesTo
    <3>4. QED
      BY <3>2, <3>3 DEF RowStep
  <2>3. CASE \E k \in Kiosks, m \in WalkInDurations, b \in BookingIds :
               WalkIn(k, m, b)
    BY <2>3, WalkInEffect DEF Paths, Registers, RowStep
  <2>4. CASE \E k \in Kiosks : KioskFails(k)
    BY <2>4 DEF KioskFails, RowStep, Keeps, rows
  <2>5. QED
    BY <1>2, <2>1, <2>2, <2>3, <2>4 DEF KioskStep
<1>3. CASE ExpiryStep
  BY <1>3, SettleMoves
  DEF ExpiryStep, StartExpiry, ExpireNext, RowStep, Keeps, rows, TypeOK
<1>4. CASE CompletionStep
  BY <1>4, SettleMoves
  DEF CompletionStep, StartCompletion, CompleteNext, RowStep, Keeps, rows, TypeOK
<1>5. CASE JobFails \/ Tick
  BY <1>5 DEF JobFails, Tick, RowStep, Keeps, rows
<1>6. CASE OtherStep
  <2>1. CASE \E u \in Clients, b \in BookingIds, r \in Rooms, s \in Slots :
               EditOccurrence(u, b, r, s)
    <3>1. PICK u \in Clients, b \in BookingIds, r \in Rooms, s \in Slots :
            EditOccurrence(u, b, r, s)
      BY <2>1
    <3>2. [user |-> data[b].user, room |-> r, start |-> s.start,
           end |-> s.end] \in Row
      BY ServiceAssumption DEF TypeOK, Row
    <3>3. QED
      BY <3>1, <3>2 DEF EditOccurrence, Edits, RowStep
  <2>2. CASE \E d \in ChangingDevices :
               UpdateDevice(d) \/ RotateDeviceKey(d) \/ RevokeDevice(d)
               \/ ReactivateDevice(d)
    BY <2>2 DEF UpdateDevice, RotateDeviceKey, RevokeDevice, ReactivateDevice,
                SetDevice, RowStep, Keeps, rows
  <2>3. CASE \/ \E u \in ChangingUsers : UpgradePlan(u)
             \/ \E r \in ChangingRooms : ChangeRoom(r)
    BY <2>3 DEF UpgradePlan, ChangeRoom, RowStep, Keeps, rows
  <2>4. CASE \E u \in ChangingUsers : ExpireProAccess(u)
    <3>1. PICK u, at : Withdraw(FutureOccurrences(u, at))
      BY <2>4 DEF ExpireProAccess
    <3>2. FutureOccurrences(u, at) \in SUBSET BookingIds
      BY ServiceAssumption DEF FutureOccurrences
    <3>3. \A b \in FutureOccurrences(u, at) : status[b] \in EditableStatuses
      BY DEF FutureOccurrences
    <3>4. QED
      BY <3>1, <3>2, <3>3 DEF Withdraws, RowStep
  <2>5. QED
    BY <1>6, <2>1, <2>2, <2>3, <2>4 DEF OtherStep
<1>7. CASE ReleaseStep
  BY <1>7, TransitionMoves DEF ReleaseStep, CancelBooking, RejectBooking
<1>8. QED
  BY <1>1, <1>2, <1>3, <1>4, <1>5, <1>6, <1>7 DEF Next, CoreStep

-----------------------------------------------------------------------------
(* No room and no user is booked twice.                                     *)

\* An invariant whose clauses speak of two rows survives a step that gives
\* no row a new claim.
LEMMA NoNewClaim ==
  ASSUME NoDoubleBooking,
         \A b \in BookingIds : Active(b)' => Active(b) /\ data'[b] = data[b]
  PROVE  NoDoubleBooking'
BY DEF NoDoubleBooking, Overlaps

\* ... and a step that gives one row a new claim which meets no other.
LEMMA OneNewClaim ==
  ASSUME NoDoubleBooking, NEW c \in BookingIds, NEW row,
         data'[c] = row, NoActiveOverlap(row, c),
         \A b \in BookingIds \ {c} :
           data'[b] = data[b] /\ status'[b] = status[b]
  PROVE  NoDoubleBooking'
<1> SUFFICES ASSUME NEW a \in BookingIds, NEW b \in BookingIds, a # b,
                    Active(a)', Active(b)', Overlaps(data[a], data[b])'
             PROVE  /\ data'[a].user # data'[b].user
                    /\ data'[a].room # data'[b].room
  BY DEF NoDoubleBooking
<1>1. CASE a # c /\ b # c
  BY <1>1 DEF NoDoubleBooking, Active, Overlaps
<1>2. CASE a = c
  BY <1>2 DEF NoActiveOverlap, UserConflict, RoomConflict, ActiveOf, Active,
              Overlaps
<1>3. CASE b = c
  BY <1>3 DEF NoActiveOverlap, UserConflict, RoomConflict, ActiveOf, Active,
              Overlaps
<1>4. QED
  BY <1>1, <1>2, <1>3

\* Every kind of step keeps the claims apart.
LEMMA RowStepClear ==
  ASSUME TypeOK, NoDoubleBooking, RowStep
  PROVE  NoDoubleBooking'
<1>1. CASE Keeps
  BY <1>1, NoNewClaim DEF Keeps, Active
<1>2. ASSUME NEW b \in BookingIds, NEW req \in Row, NEW path \in Paths,
             Registers(b, req, path)
      PROVE  NoDoubleBooking'
  <2>1. NoActiveOverlap(req, b)
    BY <1>2 DEF Registers, NoActiveOverlap, UserConflict, RoomConflict,
                ActiveOf
  <2>2. QED
    BY <1>2, <2>1, OneNewClaim DEF Registers, Insert, TypeOK
<1>3. ASSUME NEW b \in BookingIds, NEW to \in Statuses, MovesTo(b, to)
      PROVE  NoDoubleBooking'
  BY <1>3, NoNewClaim
  DEF MovesTo, SetStatus, CanMove, Active, ActiveStatuses, TypeOK
<1>4. ASSUME NEW b \in BookingIds, NEW row \in Row, Edits(b, row)
      PROVE  NoDoubleBooking'
  BY <1>4, OneNewClaim DEF Edits, TypeOK
<1>5. ASSUME NEW B \in SUBSET BookingIds, Withdraws(B)
      PROVE  NoDoubleBooking'
  BY <1>5, NoNewClaim DEF Withdraws, Withdraw, Active, ActiveStatuses
<1>6. QED
  BY <1>1, <1>2, <1>3, <1>4, <1>5 DEF RowStep

\* Two bookings that hold their interval never overlap in a room or for a
\* user: the check each transaction makes suffices in every interleaving.
THEOREM NeverDoubleBooked == Spec => []NoDoubleBooking
<1>1. Init => NoDoubleBooking
  BY DEF Init, NoDoubleBooking, Active, ActiveStatuses
<1>2. TypeOK /\ NoDoubleBooking /\ [Next]_vars => NoDoubleBooking'
  <2>1. ASSUME TypeOK, NoDoubleBooking, Next PROVE NoDoubleBooking'
    BY <2>1, EveryStep, RowStepClear
  <2>2. ASSUME NoDoubleBooking, UNCHANGED vars PROVE NoDoubleBooking'
    BY <2>2, NoNewClaim DEF Active, vars, rows
  <2>3. QED
    BY <2>1, <2>2
<1>3. QED
  BY <1>1, <1>2, TypeCorrect, PTL DEF Spec

-----------------------------------------------------------------------------
(* Tokens and check-in times.                                               *)

\* The strengthening: a row that does not exist yet has no token either.
NoTokenLeft ==
  \A b \in BookingIds :
    status[b] \in {"NONE", "CHECKED_IN", "COMPLETED"} => qr[b] = {}

LEMMA RowStepTokens ==
  ASSUME TypeOK, NoTokenLeft, RowStep
  PROVE  NoTokenLeft'
<1>1. CASE Keeps
  BY <1>1 DEF Keeps, NoTokenLeft, TypeOK, rows
<1>2. ASSUME NEW b \in BookingIds, NEW req \in Row, NEW path \in Paths,
             Registers(b, req, path)
      PROVE  NoTokenLeft'
  BY <1>2 DEF Registers, Insert, NoTokenLeft, TypeOK
<1>3. ASSUME NEW b \in BookingIds, NEW to \in Statuses, MovesTo(b, to)
      PROVE  NoTokenLeft'
  BY <1>3 DEF MovesTo, SetStatus, CanMove, NoTokenLeft, TypeOK
<1>4. ASSUME NEW b \in BookingIds, NEW row \in Row, Edits(b, row)
      PROVE  NoTokenLeft'
  BY <1>4 DEF Edits, NoTokenLeft, TypeOK
<1>5. ASSUME NEW B \in SUBSET BookingIds, Withdraws(B)
      PROVE  NoTokenLeft'
  BY <1>5 DEF Withdraws, Withdraw, NoTokenLeft
<1>6. QED
  BY <1>1, <1>2, <1>3, <1>4, <1>5 DEF RowStep

\* A used booking carries no redeemable token, even when a QR request read
\* the row before the check-in and writes after it.
THEOREM NoTokenSurvives == Spec => []NoQrAfterCheckIn
<1>1. Init => NoTokenLeft
  BY DEF Init, NoTokenLeft
<1>2. TypeOK /\ NoTokenLeft /\ [Next]_vars => NoTokenLeft'
  <2>1. ASSUME TypeOK, NoTokenLeft, Next PROVE NoTokenLeft'
    BY <2>1, EveryStep, RowStepTokens
  <2>2. ASSUME NoTokenLeft, UNCHANGED vars PROVE NoTokenLeft'
    BY <2>2 DEF NoTokenLeft, vars, rows
  <2>3. QED
    BY <2>1, <2>2
<1>3. NoTokenLeft => NoQrAfterCheckIn
  BY DEF NoTokenLeft, NoQrAfterCheckIn
<1>4. QED
  BY <1>1, <1>2, <1>3, TypeCorrect, PTL DEF Spec

LEMMA RowStepWindow ==
  ASSUME TypeOK, CheckInWithinWindow, RowStep
  PROVE  CheckInWithinWindow'
<1>1. CASE Keeps
  BY <1>1 DEF Keeps, CheckInWithinWindow, rows
<1>2. ASSUME NEW b \in BookingIds, NEW req \in Row, NEW path \in Paths,
             Registers(b, req, path)
      PROVE  CheckInWithinWindow'
  <2>1. /\ status' = [status EXCEPT ![b] = path[Len(path)]]
        /\ data' = [data EXCEPT ![b] = req]
    BY <1>2 DEF Registers, Insert
  <2>2. CASE path \in {<<"PENDING">>, <<"CONFIRMED">>}
    <3>1. path[Len(path)] \in {"PENDING", "CONFIRMED"}
      BY <2>2
    <3>2. path # <<"CONFIRMED", "CHECKED_IN">>
      BY <2>2
    <3>3. status'[b] \in {"PENDING", "CONFIRMED"} /\ UNCHANGED checkedInAt
      BY <1>2, <2>1, <3>1, <3>2 DEF Registers, TypeOK
    <3>4. QED
      BY <2>1, <3>3 DEF CheckInWithinWindow, TypeOK
  <2>3. CASE path = <<"CONFIRMED", "CHECKED_IN">>
    <3>1. PICK at \in Nat :
            /\ InWindow(req.start, at)
            /\ checkedInAt' = [checkedInAt EXCEPT ![b] = at]
      BY <1>2, <2>3 DEF Registers
    <3>2. QED
      BY <2>1, <3>1 DEF CheckInWithinWindow, TypeOK
  <2>4. QED
    BY <2>2, <2>3 DEF Paths
<1>3. ASSUME NEW b \in BookingIds, NEW to \in Statuses, MovesTo(b, to)
      PROVE  CheckInWithinWindow'
  BY <1>3 DEF MovesTo, SetStatus, CanMove, CheckInWithinWindow, TypeOK
<1>4. ASSUME NEW b \in BookingIds, NEW row \in Row, Edits(b, row)
      PROVE  CheckInWithinWindow'
  BY <1>4 DEF Edits, EditableStatuses, CheckInWithinWindow, TypeOK
<1>5. ASSUME NEW B \in SUBSET BookingIds, Withdraws(B)
      PROVE  CheckInWithinWindow'
  BY <1>5 DEF Withdraws, Withdraw, CheckInWithinWindow
<1>6. QED
  BY <1>1, <1>2, <1>3, <1>4, <1>5 DEF RowStep

\* A guest who is checked in was let in during the window of the booking as
\* it stands now, wherever it was moved in the meantime.
THEOREM CheckedInInWindow == Spec => []CheckInWithinWindow
<1>1. Init => CheckInWithinWindow
  BY DEF Init, CheckInWithinWindow
<1>2. TypeOK /\ CheckInWithinWindow /\ [Next]_vars => CheckInWithinWindow'
  <2>1. ASSUME TypeOK, CheckInWithinWindow, Next PROVE CheckInWithinWindow'
    BY <2>1, EveryStep, RowStepWindow
  <2>2. ASSUME CheckInWithinWindow, UNCHANGED vars PROVE CheckInWithinWindow'
    BY <2>2 DEF CheckInWithinWindow, vars, rows
  <2>3. QED
    BY <2>1, <2>2
<1>3. QED
  BY <1>1, <1>2, TypeCorrect, PTL DEF Spec

-----------------------------------------------------------------------------
(* Stale kiosk requests.                                                    *)

\* A kiosk route handles one request at a time.
OneCall == \A k \in Kiosks : \A x, y \in kiosk[k] : x = y

\* Only the kiosk routes start or end a kiosk request.
LEMMA OthersKeepKiosks ==
  ASSUME RequestStep \/ ExpiryStep \/ CompletionStep \/ JobFails \/ OtherStep
         \/ Tick \/ ReleaseStep
  PROVE  UNCHANGED kiosk
<1>1. CASE RequestStep
  BY <1>1 DEF RequestStep, CreateBooking, ApproveBooking, CheckOut,
              GenerateQrRead, GenerateQrWrite, calls
<1>2. CASE ReleaseStep
  BY <1>2 DEF ReleaseStep, CancelBooking, RejectBooking, calls
<1>3. CASE ExpiryStep \/ CompletionStep \/ JobFails
  BY <1>3 DEF ExpiryStep, CompletionStep, JobFails, StartExpiry, ExpireNext,
              StartCompletion, CompleteNext, calls
<1>4. CASE OtherStep
  BY <1>4 DEF OtherStep, EditOccurrence, UpdateDevice, RotateDeviceKey,
              RevokeDevice, ReactivateDevice, SetDevice, UpgradePlan,
              ExpireProAccess, ChangeRoom, calls
<1>5. CASE Tick
  BY <1>5 DEF Tick, calls
<1>6. QED
  BY <1>1, <1>2, <1>3, <1>4, <1>5

LEMMA KioskOneCall ==
  ASSUME TypeOK, OneCall, KioskStep
  PROVE  OneCall'
<1>1. CASE \E k \in Kiosks, d \in Devices : Authenticate(k, d)
  <2>1. PICK k \in Kiosks, d \in Devices : Authenticate(k, d)
    BY <1>1
  <2>2. PICK x : kiosk' = [kiosk EXCEPT ![k] = {x}]
    BY <2>1 DEF Authenticate
  <2>3. QED
    BY <2>2 DEF OneCall, TypeOK
<1>2. ASSUME NEW k \in Kiosks, kiosk' = [kiosk EXCEPT ![k] = {}]
      PROVE  OneCall'
  BY <1>2 DEF OneCall, TypeOK
<1>3. CASE \E k \in Kiosks, b \in BookingIds : CheckInByDevice(k, b)
  BY <1>2, <1>3 DEF CheckInByDevice
<1>4. CASE \E k \in Kiosks, m \in WalkInDurations, b \in BookingIds :
             WalkIn(k, m, b)
  BY <1>2, <1>4 DEF WalkIn
<1>5. CASE \E k \in Kiosks : KioskFails(k)
  BY <1>2, <1>5 DEF KioskFails
<1>6. QED
  BY <1>1, <1>3, <1>4, <1>5 DEF KioskStep

\* What the device row says when the transaction of a kiosk request writes.
Fresh(call) ==
  /\ device[call.dev].version = call.version
  /\ device[call.dev].active /\ ~device[call.dev].revoked
  /\ \A b \in BookingIds :
       status'[b] # status[b] => data'[b].room = device[call.dev].room

\* The check-in of a kiosk reads the device again with the row it writes.
LEMMA CheckInFresh ==
  ASSUME TypeOK, NEW k \in Kiosks, NEW b \in BookingIds, CheckInByDevice(k, b)
  PROVE  /\ kiosk' = [kiosk EXCEPT ![k] = {}]
         /\ \E call \in kiosk[k] : Fresh(call)
<1>1. PICK call \in kiosk[k] :
        /\ device[call.dev].version = call.version
        /\ device[call.dev].active /\ ~device[call.dev].revoked
        /\ device[call.dev].room = data[b].room
        /\ status' = [status EXCEPT ![b] = "CHECKED_IN"] /\ data' = data
        /\ kiosk' = [kiosk EXCEPT ![k] = {}]
  BY DEF CheckInByDevice, CurrentCredential, TrustedDevice, SetStatus
<1>2. Fresh(call)
  BY <1>1 DEF Fresh, TypeOK
<1>3. QED
  BY <1>1, <1>2

\* So does the walk-in, which takes the room from the row it has just read.
LEMMA WalkInFresh ==
  ASSUME TypeOK, NEW k \in Kiosks, NEW m \in WalkInDurations,
         NEW b \in BookingIds, WalkIn(k, m, b)
  PROVE  /\ kiosk' = [kiosk EXCEPT ![k] = {}]
         /\ \E call \in kiosk[k] : Fresh(call)
<1>1. PICK call \in kiosk[k] : \E req, to :
        /\ device[call.dev].version = call.version
        /\ device[call.dev].active /\ ~device[call.dev].revoked
        /\ req.room = device[call.dev].room
        /\ status' = [status EXCEPT ![b] = to]
        /\ data' = [data EXCEPT ![b] = req]
        /\ kiosk' = [kiosk EXCEPT ![k] = {}]
  BY DEF WalkIn, CurrentCredential, TrustedDevice, Insert
<1>2. Fresh(call)
  BY <1>1 DEF Fresh, TypeOK
<1>3. QED
  BY <1>1, <1>2

\* A request that ends with a write found its credential current, its device
\* active, and the rows it wrote in the room of that device.
LEMMA KioskWrites ==
  ASSUME TypeOK, OneCall, [Next]_vars, NEW k \in Kiosks, NEW call \in kiosk[k],
         kiosk'[k] = {}, status' # status
  PROVE  Fresh(call)
<1>1. kiosk' # kiosk
  OBVIOUS
<1>2. KioskStep
  BY <1>1, OthersKeepKiosks DEF Next, CoreStep, vars, calls
<1>3. ASSUME NEW j \in Kiosks, kiosk' = [kiosk EXCEPT ![j] = {}],
             \E c \in kiosk[j] : Fresh(c)
      PROVE  Fresh(call)
  <2>1. j = k
    BY <1>3 DEF TypeOK
  <2>2. QED
    BY <1>3, <2>1 DEF OneCall
<1>4. CASE \E j \in Kiosks, b \in BookingIds : CheckInByDevice(j, b)
  BY <1>3, <1>4, CheckInFresh
<1>5. CASE \E j \in Kiosks, m \in WalkInDurations, b \in BookingIds :
             WalkIn(j, m, b)
  BY <1>3, <1>5, WalkInFresh
<1>6. QED
  BY <1>2, <1>4, <1>5 DEF KioskStep, Authenticate, KioskFails, rows

\* A kiosk request whose credential was rotated, or whose device was revoked
\* or moved to another room after it was authenticated, writes nothing.
THEOREM StaleKiosksWriteNothing == Spec => StaleKioskWritesNothing
<1>1. Init => OneCall
  BY DEF Init, OneCall
<1>2. TypeOK /\ OneCall /\ [Next]_vars => OneCall'
  <2>1. ASSUME TypeOK, OneCall, Next PROVE OneCall'
    BY <2>1, KioskOneCall, OthersKeepKiosks DEF Next, CoreStep, OneCall
  <2>2. ASSUME OneCall, UNCHANGED vars PROVE OneCall'
    BY <2>2 DEF OneCall, vars, calls
  <2>3. QED
    BY <2>1, <2>2
<1>3. TypeOK /\ OneCall /\ [Next]_vars =>
        [\A k \in Kiosks : \A call \in kiosk[k] :
           (kiosk'[k] = {} /\ status' # status) =>
              /\ device[call.dev].version = call.version
              /\ device[call.dev].active /\ ~device[call.dev].revoked
              /\ \A b \in BookingIds : status'[b] # status[b]
                   => data'[b].room = device[call.dev].room]_vars
  BY KioskWrites DEF Fresh
<1>4. QED
  BY <1>1, <1>2, <1>3, TypeCorrect, PTL DEF Spec, StaleKioskWritesNothing

-----------------------------------------------------------------------------
(* No-shows.                                                                *)

\* What the expiry job read stays true of every row that cannot be moved,
\* however long the run takes to settle its batch.
DueStillOverdue ==
  \A j \in ExpireRuns : \A b \in expireDue[j] \ Occurrences :
    status[b] # "NONE" /\ data[b].start < now - Late

\* The clock never goes back, and a run reads overdue rows only.
LEMMA DueRead ==
  ASSUME TypeOK, Next
  PROVE  /\ now' >= now
         /\ \A j \in ExpireRuns : \A b \in expireDue'[j] :
              b \in expireDue[j] \/ Overdue(b)
<1>0. ASSUME UNCHANGED <<now, expireDue>>
      PROVE  /\ now' >= now
             /\ \A j \in ExpireRuns : \A b \in expireDue'[j] :
                  b \in expireDue[j] \/ Overdue(b)
  BY <1>0 DEF TypeOK
<1>1. CASE RequestStep \/ KioskStep \/ ReleaseStep
  <2>1. ASSUME RequestStep PROVE UNCHANGED <<now, expireDue>>
    BY <2>1 DEF RequestStep, CreateBooking, ApproveBooking, CheckOut,
                GenerateQrRead, GenerateQrWrite, jobs
  <2>2. ASSUME KioskStep PROVE UNCHANGED <<now, expireDue>>
    BY <2>2 DEF KioskStep, Authenticate, CheckInByDevice, WalkIn, KioskFails,
                jobs
  <2>3. ASSUME ReleaseStep PROVE UNCHANGED <<now, expireDue>>
    BY <2>3 DEF ReleaseStep, CancelBooking, RejectBooking, jobs
  <2>4. UNCHANGED <<now, expireDue>>
    BY <1>1, <2>1, <2>2, <2>3
  <2>5. QED
    BY <1>0, <2>4
<1>2. CASE CompletionStep \/ OtherStep
  <2>1. ASSUME CompletionStep PROVE UNCHANGED <<now, expireDue>>
    BY <2>1 DEF CompletionStep, StartCompletion, CompleteNext
  <2>2. ASSUME OtherStep PROVE UNCHANGED <<now, expireDue>>
    BY <2>2 DEF OtherStep, EditOccurrence, UpdateDevice, RotateDeviceKey,
                RevokeDevice, ReactivateDevice, SetDevice, UpgradePlan,
                ExpireProAccess, ChangeRoom, jobs
  <2>3. UNCHANGED <<now, expireDue>>
    BY <1>2, <2>1, <2>2
  <2>4. QED
    BY <1>0, <2>3
<1>3. CASE \E j \in ExpireRuns : StartExpiry(j)
  BY <1>3 DEF StartExpiry, Batches, TypeOK
<1>4. CASE \E j \in ExpireRuns : ExpireNext(j)
  BY <1>4 DEF ExpireNext, TypeOK
<1>5. CASE JobFails
  <2>1. CASE UNCHANGED expireDue
    BY <1>0, <1>5, <2>1 DEF JobFails
  <2>2. ASSUME NEW j \in ExpireRuns, expireDue' = [expireDue EXCEPT ![j] = {}]
        PROVE  \A i \in ExpireRuns : expireDue'[i] \subseteq expireDue[i]
    BY <2>2 DEF TypeOK
  <2>3. now' = now /\ now \in Nat
    BY <1>5 DEF JobFails, TypeOK
  <2>4. QED
    BY <1>5, <2>1, <2>2, <2>3 DEF JobFails
<1>6. CASE Tick
  BY <1>6 DEF Tick, jobs, TypeOK
<1>7. QED
  BY <1>1, <1>2, <1>3, <1>4, <1>5, <1>6 DEF Next, CoreStep, ExpiryStep

\* Nothing but editOccurrence moves an existing row.
LEMMA FixedRows ==
  ASSUME TypeOK, RowStep, NEW b \in BookingIds \ Occurrences,
         status[b] # "NONE"
  PROVE  status'[b] # "NONE" /\ data'[b] = data[b]
<1>1. CASE Keeps
  BY <1>1 DEF Keeps
<1>2. ASSUME NEW c \in BookingIds, NEW req \in Row, NEW path \in Paths,
             Registers(c, req, path)
      PROVE  status'[b] # "NONE" /\ data'[b] = data[b]
  BY <1>2 DEF Registers, Insert, TypeOK
<1>3. ASSUME NEW c \in BookingIds, NEW to \in Statuses, MovesTo(c, to)
      PROVE  status'[b] # "NONE" /\ data'[b] = data[b]
  BY <1>3 DEF MovesTo, SetStatus, CanMove, TypeOK
<1>4. ASSUME NEW c \in BookingIds, NEW row \in Row, c \in Occurrences,
             Edits(c, row)
      PROVE  status'[b] # "NONE" /\ data'[b] = data[b]
  BY <1>4 DEF Edits, TypeOK
<1>5. ASSUME NEW B \in SUBSET BookingIds, Withdraws(B)
      PROVE  status'[b] # "NONE" /\ data'[b] = data[b]
  BY <1>5 DEF Withdraws, Withdraw
<1>6. QED
  BY <1>1, <1>2, <1>3, <1>4, <1>5 DEF RowStep

\* Only the expiry job makes a no-show, and only of a row it has read.
LEMMA OnlyJobExpires ==
  ASSUME TypeOK, Next, NEW b \in BookingIds,
         status[b] = "CONFIRMED", status'[b] = "EXPIRED"
  PROVE  \E j \in ExpireRuns : b \in expireDue[j]
<1>1. ASSUME NEW c \in BookingIds, NEW to, to # "EXPIRED",
             Settle(c, to)
      PROVE  FALSE
  BY <1>1 DEF Settle, TransitionBooking, SetStatus, rows, TypeOK
<1>2. CASE RequestStep
  <2>1. ASSUME NEW c \in BookingIds, NEW req \in Row, NEW path \in Paths,
               Insert(c, req, path)
        PROVE  FALSE
    BY <2>1 DEF Insert, TypeOK
  <2>2. CASE \E u \in Clients, r \in Rooms, s \in Slots, c \in BookingIds :
               CreateBooking(u, r, s, c)
    BY <2>1, <2>2, CreateEffect DEF Paths
  <2>3. QED
    BY <1>1, <1>2, <2>2
    DEF RequestStep, ApproveBooking, CheckOut, Settle, GenerateQrRead,
        GenerateQrWrite, rows
<1>3. CASE KioskStep
  <2>1. CASE \E k \in Kiosks, c \in BookingIds : CheckInByDevice(k, c)
    BY <2>1 DEF CheckInByDevice, SetStatus, TypeOK
  <2>2. CASE \E k \in Kiosks, m \in WalkInDurations, c \in BookingIds :
               WalkIn(k, m, c)
    <3>1. PICK c \in BookingIds, req \in Row :
            Insert(c, req, <<"CONFIRMED", "CHECKED_IN">>)
      BY <2>2, WalkInEffect
    <3>2. QED
      BY <3>1 DEF Insert, TypeOK
  <2>3. QED
    BY <1>3, <2>1, <2>2 DEF KioskStep, Authenticate, KioskFails, rows
<1>4. CASE ReleaseStep
  BY <1>1, <1>4 DEF ReleaseStep, CancelBooking, RejectBooking, Settle
<1>5. CASE CompletionStep
  BY <1>1, <1>5
  DEF CompletionStep, StartCompletion, CompleteNext, rows, TypeOK
<1>6. CASE JobFails \/ Tick
  BY <1>6 DEF JobFails, Tick, rows
<1>7. CASE OtherStep
  <2>1. ASSUME NEW B, Withdraw(B)
        PROVE  FALSE
    BY <2>1 DEF Withdraw
  <2>2. QED
    BY <1>7, <2>1
    DEF OtherStep, EditOccurrence, UpdateDevice, RotateDeviceKey, RevokeDevice,
        ReactivateDevice, SetDevice, UpgradePlan, ExpireProAccess, ChangeRoom,
        rows
<1>8. CASE ExpiryStep
  <2>1. ASSUME NEW j \in ExpireRuns, NEW c \in expireDue[j],
               Settle(c, "EXPIRED")
        PROVE  c = b
    BY <2>1 DEF Settle, TransitionBooking, SetStatus, rows, TypeOK
  <2>2. QED
    BY <1>8, <2>1 DEF ExpiryStep, StartExpiry, ExpireNext, rows
<1>9. QED
  BY <1>2, <1>3, <1>4, <1>5, <1>6, <1>7, <1>8 DEF Next, CoreStep

\* A booking that belongs to no series becomes a no-show only once its
\* check-in window has closed: the job settles its batch by what it read, and
\* no such row moves in between.  (An occurrence may move: that is the
\* finding of the README.)
THEOREM FixedRowsExpireAfterGrace ==
  Spec => [][\A b \in BookingIds \ Occurrences :
               status[b] = "CONFIRMED" /\ status'[b] = "EXPIRED"
                 => now > ClosesAt(data[b].start)]_vars
<1>1. Init => DueStillOverdue
  BY DEF Init, DueStillOverdue
<1>2. TypeOK /\ TypeOK' /\ DueStillOverdue /\ [Next]_vars => DueStillOverdue'
  <2>1. ASSUME TypeOK, TypeOK', DueStillOverdue, Next,
               NEW j \in ExpireRuns, NEW b \in expireDue'[j] \ Occurrences
        PROVE  status'[b] # "NONE" /\ data'[b].start < now' - Late
    <3>1. b \in BookingIds /\ data[b].start \in Nat /\ now \in Nat
          /\ now' \in Nat /\ Late \in Nat
      BY <2>1, WindowAssumption DEF TypeOK, Row
    <3>2. status[b] # "NONE" /\ data[b].start < now - Late
      BY <2>1, DueRead DEF DueStillOverdue, Overdue
    <3>3. status'[b] # "NONE" /\ data'[b] = data[b]
      BY <2>1, <3>1, <3>2, EveryStep, FixedRows
    <3>4. now' >= now
      BY <2>1, DueRead
    <3>5. QED
      BY <3>1, <3>2, <3>3, <3>4
  <2>2. ASSUME DueStillOverdue, UNCHANGED vars PROVE DueStillOverdue'
    BY <2>2 DEF DueStillOverdue, vars, rows, jobs
  <2>3. QED
    BY <2>1, <2>2 DEF DueStillOverdue
<1>3. TypeOK /\ DueStillOverdue /\ [Next]_vars =>
        [\A b \in BookingIds \ Occurrences :
           status[b] = "CONFIRMED" /\ status'[b] = "EXPIRED"
             => now > ClosesAt(data[b].start)]_vars
  <2>1. ASSUME TypeOK, DueStillOverdue, Next, NEW b \in BookingIds \ Occurrences,
               status[b] = "CONFIRMED", status'[b] = "EXPIRED"
        PROVE  now > ClosesAt(data[b].start)
    <3>1. data[b].start < now - Late
      BY <2>1, OnlyJobExpires DEF DueStillOverdue
    <3>2. data[b].start \in Nat /\ now \in Nat /\ Late \in Nat
      BY <2>1, WindowAssumption DEF TypeOK, Row
    <3>3. QED
      BY <3>1, <3>2 DEF ClosesAt
  <2>2. QED
    BY <2>1
<1>4. QED
  BY <1>1, <1>2, <1>3, TypeCorrect, PTL DEF Spec

\* Where no booking belongs to a series, every no-show is one.
THEOREM ExpireAfterGrace ==
  ASSUME Occurrences = {}
  PROVE  Spec => ExpiredOnlyAfterGrace
<1>1. [\A b \in BookingIds \ Occurrences :
         status[b] = "CONFIRMED" /\ status'[b] = "EXPIRED"
           => now > ClosesAt(data[b].start)]_vars
      => [\A b \in BookingIds :
            status[b] = "CONFIRMED" /\ status'[b] = "EXPIRED"
              => now > ClosesAt(data[b].start)]_vars
  OBVIOUS
<1>2. QED
  BY <1>1, FixedRowsExpireAfterGrace, PTL DEF ExpiredOnlyAfterGrace

-----------------------------------------------------------------------------
(* The event log.                                                           *)

\* The chain of one row.
Chained(s, e) ==
  /\ s = IF e = <<>> THEN "NONE" ELSE e[Len(e)].new
  /\ \A i \in 1..Len(e) : e[i].prev = IF i = 1 THEN "NONE" ELSE e[i - 1].new

LEMMA ChainAppend ==
  ASSUME NEW e \in Seq(Event), NEW s \in Statuses, NEW to \in Statuses,
         Chained(s, e)
  PROVE  Chained(to, Append(e, EventOf(s, to)))
<1> DEFINE x == EventOf(s, to)
           f == Append(e, x)
<1>1. x \in Event /\ x.prev = s /\ x.new = to
  BY DEF EventOf, Event
<1>2. /\ Len(f) = Len(e) + 1 /\ f # <<>>
      /\ f[Len(e) + 1] = x
      /\ \A i \in 1..Len(e) : f[i] = e[i]
  BY <1>1
<1>3. Len(e) \in Nat /\ (e = <<>> <=> Len(e) = 0)
  OBVIOUS
<1> HIDE DEF x, f
<1>4. \A i \in 1..Len(f) : f[i].prev = IF i = 1 THEN "NONE" ELSE f[i - 1].new
  <2> SUFFICES ASSUME NEW i \in 1..Len(f)
               PROVE  f[i].prev = IF i = 1 THEN "NONE" ELSE f[i - 1].new
    OBVIOUS
  <2>1. CASE i \in 1..Len(e)
    BY <1>2, <1>3, <2>1 DEF Chained
  <2>2. CASE i = Len(e) + 1
    BY <1>1, <1>2, <1>3, <2>2 DEF Chained
  <2>3. QED
    BY <1>2, <1>3, <2>1, <2>2
<1>5. QED
  BY <1>1, <1>2, <1>4 DEF Chained, f, x

\* A row that appears brings the events of its path.
LEMMA RegistersChained ==
  ASSUME TypeOK, NEW b \in BookingIds, NEW req \in Row, NEW path \in Paths,
         Registers(b, req, path)
  PROVE  status[b] = "NONE" /\ Chained(status'[b], events'[b])
<1>1. /\ status'[b] = path[Len(path)]
      /\ events'[b] = [i \in 1..Len(path) |->
           EventOf(IF i = 1 THEN "NONE" ELSE path[i - 1], path[i])]
  BY DEF Registers, Insert, TypeOK
<1>2. /\ Len(path) \in Nat /\ Len(path) # 0
      /\ Len(events'[b]) = Len(path)
  <2>1. Len(path) \in Nat /\ Len(path) # 0
    BY DEF Paths
  <2>2. QED
    BY <1>1, <2>1
<1>3. \A i \in 1..Len(path) : events'[b][i] =
        EventOf(IF i = 1 THEN "NONE" ELSE path[i - 1], path[i])
  BY <1>1
<1>4. events'[b] # <<>>
  <2>1. Len(<<>>) = 0
    OBVIOUS
  <2>2. Len(events'[b]) # 0
    BY <1>2
  <2>3. QED
    BY <2>1, <2>2
<1>5. status[b] = "NONE"
  BY DEF Registers, Insert
<1>6. QED
  BY <1>1, <1>2, <1>3, <1>4, <1>5 DEF Chained, EventOf

\* A step leaves a row and its log alone, brings both into being, or moves an
\* active row and logs the move.
LEMMA RowLog ==
  ASSUME TypeOK, RowStep, NEW b \in BookingIds
  PROVE  \/ status'[b] = status[b] /\ events'[b] = events[b]
         \/ status[b] = "NONE" /\ Chained(status'[b], events'[b])
         \/ /\ Active(b) /\ status'[b] \in Statuses
            /\ events'[b] = Append(events[b], EventOf(status[b], status'[b]))
<1> DEFINE Logged == \/ status'[b] = status[b] /\ events'[b] = events[b]
                     \/ status[b] = "NONE" /\ Chained(status'[b], events'[b])
                     \/ /\ Active(b) /\ status'[b] \in Statuses
                        /\ events'[b] = Append(events[b],
                                               EventOf(status[b], status'[b]))
<1>1. CASE Keeps
  BY <1>1 DEF Keeps
<1>2. ASSUME NEW c \in BookingIds, NEW req \in Row, NEW path \in Paths,
             Registers(c, req, path)
      PROVE  Logged
  <2>1. CASE c = b
    BY <1>2, <2>1, RegistersChained
  <2>2. CASE c # b
    BY <1>2, <2>2 DEF Registers, Insert, TypeOK
  <2>3. QED
    BY <2>1, <2>2
<1>3. ASSUME NEW c \in BookingIds, NEW to \in Statuses, MovesTo(c, to)
      PROVE  Logged
  <2>1. CASE c = b
    <3>1. /\ status'[b] = to
          /\ events'[b] = Append(events[b], EventOf(status[b], to))
      BY <1>3, <2>1 DEF MovesTo, SetStatus, TypeOK
    <3>2. Active(b)
      BY <1>3, <2>1 DEF MovesTo, CanMove, Active, ActiveStatuses
    <3>3. QED
      BY <3>1, <3>2
  <2>2. CASE c # b
    BY <1>3, <2>2 DEF MovesTo, SetStatus, TypeOK
  <2>3. QED
    BY <2>1, <2>2
<1>4. ASSUME NEW c \in BookingIds, NEW row \in Row, Edits(c, row)
      PROVE  Logged
  BY <1>4 DEF Edits
<1>5. ASSUME NEW B \in SUBSET BookingIds, Withdraws(B)
      PROVE  Logged
  <2>1. CASE b \in B
    <3>1. /\ status'[b] = "CANCELLED"
          /\ events'[b] = Append(events[b], EventOf(status[b], "CANCELLED"))
      BY <1>5, <2>1 DEF Withdraws, Withdraw
    <3>2. Active(b) /\ "CANCELLED" \in Statuses
      BY <1>5, <2>1 DEF Withdraws, EditableStatuses, Active, ActiveStatuses,
                        Statuses
    <3>3. QED
      BY <3>1, <3>2
  <2>2. CASE b \notin B
    BY <1>5, <2>2 DEF Withdraws, Withdraw
  <2>3. QED
    BY <2>1, <2>2
<1>6. QED
  BY <1>1, <1>2, <1>3, <1>4, <1>5 DEF RowStep

\* Each event starts from the status the previous one ended in, and the last
\* one names the status of the row.
THEOREM EventsChained == Spec => []EventChain
<1>0. /\ EventChain <=> \A b \in BookingIds : Chained(status[b], events[b])
      /\ EventChain' <=> \A b \in BookingIds : Chained(status'[b], events'[b])
  BY DEF EventChain, Chained
<1>1. Init => EventChain
  BY <1>0 DEF Init, Chained
<1>2. TypeOK /\ EventChain /\ [Next]_vars => EventChain'
  <2>1. ASSUME TypeOK, EventChain, Next, NEW b \in BookingIds
        PROVE  Chained(status'[b], events'[b])
    <3>1. /\ Chained(status[b], events[b])
          /\ events[b] \in Seq(Event) /\ status[b] \in Statuses
      BY <1>0, <2>1 DEF TypeOK
    <3>2. status'[b] \in Statuses => Chained(status'[b],
            Append(events[b], EventOf(status[b], status'[b])))
      BY <3>1, ChainAppend
    <3>3. QED
      BY <2>1, <3>1, <3>2, EveryStep, RowLog
  <2>2. CASE UNCHANGED vars
    BY <2>2 DEF EventChain, vars, rows
  <2>3. QED
    BY <1>0, <2>1, <2>2
<1>3. QED
  BY <1>1, <1>2, TypeCorrect, PTL DEF Spec

-----------------------------------------------------------------------------
(* The service implements BookingLifecycle.                                 *)

LEMMA TrailAppend ==
  ASSUME NEW e \in Seq(Event), NEW x \in Event
  PROVE  Trail(Append(e, x)) = Append(Trail(e), x.new)
<1>1. /\ Len(Append(e, x)) = Len(e) + 1
      /\ DOMAIN Append(e, x) = 1..(Len(e) + 1) /\ DOMAIN e = 1..Len(e)
      /\ Append(e, x)[Len(e) + 1] = x
      /\ \A i \in 1..Len(e) : Append(e, x)[i] = e[i]
      /\ Len(e) \in Nat
  OBVIOUS
<1>2. Trail(e) \in Seq(Statuses)
  <2>1. Trail(e) = [i \in 1..Len(e) |-> e[i].new]
    BY <1>1 DEF Trail
  <2>2. \A i \in 1..Len(e) : e[i].new \in Statuses
    <3>1. \A i \in 1..Len(e) : e[i] \in Event
      OBVIOUS
    <3>2. \A y \in Event : y.new \in Statuses
      BY DEF Event
    <3>3. QED
      BY <3>1, <3>2
  <2>3. QED
    BY <1>1, <2>1, <2>2, IsASeq
<1>3. Len(Trail(e)) = Len(e)
  BY <1>2 DEF Trail
<1>4. Append(Trail(e), x.new) =
        [i \in 1..(Len(e) + 1) |-> IF i = Len(e) + 1 THEN x.new ELSE e[i].new]
  BY <1>2, <1>3 DEF Trail, Event
<1>5. QED
  BY <1>1, <1>4 DEF Trail

\* How a change of one row shows in the abstract state.
LEMMA TrailsExcept ==
  ASSUME TypeOK, NEW b \in BookingIds, NEW e,
         events' = [events EXCEPT ![b] = e]
  PROVE  Trails' = [Trails EXCEPT ![b] = Trail(e)]
BY DEF TypeOK, Trails

\* A row that appears is a Register or a RegisterPresent.
LEMMA RegistersImplements ==
  ASSUME TypeOK, NEW b \in BookingIds, NEW req \in Row, NEW path \in Paths,
         Registers(b, req, path)
  PROVE  Lifecycle!Register(b) \/ Lifecycle!RegisterPresent(b)
<1> DEFINE e == [i \in 1..Len(path) |->
                   EventOf(IF i = 1 THEN "NONE" ELSE path[i - 1], path[i])]
<1>1. /\ status[b] = "NONE"
      /\ status' = [status EXCEPT ![b] = path[Len(path)]]
      /\ events' = [events EXCEPT ![b] = e]
  BY DEF Registers, Insert
<1>2. Len(path) \in Nat /\ path = [i \in 1..Len(path) |-> path[i]]
  BY DEF Paths
<1>3. Trail(e) = path
  BY <1>2 DEF Trail, EventOf
<1>4. Trails' = [Trails EXCEPT ![b] = path]
  BY <1>1, <1>3, TrailsExcept
<1>5. CASE path = <<"CONFIRMED", "CHECKED_IN">>
  BY <1>1, <1>4, <1>5 DEF Lifecycle!RegisterPresent
<1>6. CASE path \in {<<"PENDING">>, <<"CONFIRMED">>}
  <2>1. PICK s \in {"PENDING", "CONFIRMED"} : path = <<s>>
    BY <1>6
  <2>2. path[Len(path)] = s
    BY <2>1
  <2>3. QED
    BY <1>1, <1>4, <2>1, <2>2 DEF Lifecycle!Register
<1>7. QED
  BY <1>5, <1>6 DEF Paths

\* A row that moves is a Move.
LEMMA MovesImplements ==
  ASSUME TypeOK, NEW b \in BookingIds, NEW to \in Statuses, MovesTo(b, to)
  PROVE  Lifecycle!Move(b)
<1>1. /\ CanMove(status[b], to)
      /\ status' = [status EXCEPT ![b] = to]
      /\ events' = [events EXCEPT ![b] =
                      Append(events[b], EventOf(status[b], to))]
  BY DEF MovesTo, SetStatus
<1>2. to \in Lifecycle!Moves(status[b])
  BY <1>1 DEF CanMove, Lifecycle!Moves
<1>3. EventOf(status[b], to) \in Event /\ EventOf(status[b], to).new = to
  BY DEF EventOf, Event, TypeOK
<1>4. Trail(Append(events[b], EventOf(status[b], to)))
        = Append(Trail(events[b]), to)
  BY <1>3, TrailAppend DEF TypeOK
<1>5. Trails' = [Trails EXCEPT ![b] = Append(Trails[b], to)]
  BY <1>1, <1>4, TrailsExcept DEF Trails
<1>6. QED
  BY <1>1, <1>2, <1>5 DEF Lifecycle!Move

\* Rows cancelled together are a CancelTogether.
LEMMA WithdrawImplements ==
  ASSUME TypeOK, NEW B \in SUBSET BookingIds, Withdraws(B)
  PROVE  Lifecycle!CancelTogether(B)
<1>1. \A b \in B : "CANCELLED" \in Lifecycle!Moves(status[b])
  BY DEF Withdraws, EditableStatuses, Lifecycle!Moves
<1>2. \A b \in BookingIds : Trail(Append(events[b], EventOf(status[b], "CANCELLED")))
                                = Append(Trail(events[b]), "CANCELLED")
  <2> SUFFICES ASSUME NEW b \in BookingIds
               PROVE  Trail(Append(events[b], EventOf(status[b], "CANCELLED")))
                        = Append(Trail(events[b]), "CANCELLED")
    OBVIOUS
  <2>1. /\ EventOf(status[b], "CANCELLED") \in Event
        /\ EventOf(status[b], "CANCELLED").new = "CANCELLED"
        /\ events[b] \in Seq(Event)
    BY DEF EventOf, Event, TypeOK, Statuses
  <2>2. QED
    BY <2>1, TrailAppend
<1>3. Trails' = [b \in BookingIds |->
                   IF b \in B THEN Append(Trails[b], "CANCELLED") ELSE Trails[b]]
  BY <1>2 DEF Withdraws, Withdraw, Trails
<1>4. QED
  BY <1>1, <1>3 DEF Withdraws, Withdraw, Lifecycle!CancelTogether

\* Every kind of step is one of the state machine, or none.
LEMMA RowStepImplements ==
  ASSUME TypeOK, RowStep
  PROVE  Lifecycle!Next \/ UNCHANGED Lifecycle!vars
<1>1. CASE Keeps
  BY <1>1 DEF Keeps, Lifecycle!vars, Trails
<1>2. CASE \E b \in BookingIds, row \in Row : Edits(b, row)
  BY <1>2 DEF Edits, Lifecycle!vars, Trails
<1>3. CASE \E b \in BookingIds, req \in Row, path \in Paths :
             Registers(b, req, path)
  BY <1>3, RegistersImplements DEF Lifecycle!Next
<1>4. CASE \E b \in BookingIds, to \in Statuses : MovesTo(b, to)
  BY <1>4, MovesImplements DEF Lifecycle!Next
<1>5. CASE \E B \in SUBSET BookingIds : Withdraws(B)
  BY <1>5, WithdrawImplements DEF Lifecycle!Next
<1>6. QED
  BY <1>1, <1>2, <1>3, <1>4, <1>5 DEF RowStep

\* Every behaviour of the service is one the README's state machine allows,
\* and the event log is exactly the trail of statuses passed through.
THEOREM ImplementsLifecycle == Spec => LifecycleSpec
<1>1. Init => Lifecycle!Init
  BY DEF Init, Lifecycle!Init, Trails, Trail
<1>2. TypeOK /\ [Next]_vars => [Lifecycle!Next]_(Lifecycle!vars)
  <2>1. ASSUME TypeOK, Next
        PROVE  Lifecycle!Next \/ UNCHANGED Lifecycle!vars
    BY <2>1, EveryStep, RowStepImplements
  <2>2. ASSUME UNCHANGED vars PROVE UNCHANGED Lifecycle!vars
    BY <2>2 DEF vars, rows, Lifecycle!vars, Trails
  <2>3. QED
    BY <2>1, <2>2
<1>3. QED
  BY <1>1, <1>2, TypeCorrect, PTL DEF Spec, LifecycleSpec, Lifecycle!Spec
=============================================================================
