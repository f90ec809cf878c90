-------------------------- MODULE BookingSeriesProofs --------------------------
(***************************************************************************)
(* Theorems about BookingSeries, for every value of its constants.          *)
(*                                                                          *)
(* Of the bookings, a step does what a step of BookingService does, or it   *)
(* withdraws rows together, moves one occurrence, rewrites a whole series   *)
(* (Rewrites) or cancels what a downgrade has read (Downgrades).            *)
(***************************************************************************)
EXTENDS BookingSeries, BookingServiceProofs, FiniteSetTheorems

Member == [series : SeriesIds \cup {NoSeries}, date : Nat]

SeriesTyped ==
  /\ series \in [SeriesIds -> SeriesRow]
  /\ member \in [BookingIds -> Member]
  /\ planEnds \in [Users -> SUBSET Nat]
  /\ processed \in SUBSET StripeEvents
  /\ delivery \in [Deliveries -> SUBSET Transaction]

\* A row of the series table exists before its occurrences do, and a series
\* has one occurrence at most for each date.
MembersUnique ==
  /\ \A b \in BookingIds : member[b].series \in SeriesIds
                              => series[member[b].series].state # "NONE"
  /\ \A b, c \in BookingIds :
       (b # c /\ member[b].series \in SeriesIds
              /\ member[b].series = member[c].series)
         => member[b].date # member[c].date

-----------------------------------------------------------------------------
(* Dates and occurrences.                                                   *)

LEMMA OccurrenceTyped ==
  ASSUME NEW t \in Template, NEW d \in Nat, NEW u \in Users \cup {NoUser}
  PROVE  Occurrence(t, d, u) \in Row
<1>1. d * DayLength \in Nat
  BY SeriesAssumption
<1>2. d * DayLength + t.open \in Nat /\ d * DayLength + t.close \in Nat
  BY <1>1 DEF Template
<1>3. QED
  BY <1>2 DEF Occurrence, Row, Template

\* The times of day of a template lie within a day.
LEMMA DatesApart ==
  ASSUME NEW t \in Template, t.close <= DayLength,
         NEW d \in Nat, NEW e \in Nat, d # e, NEW u, NEW v
  PROVE  ~Overlaps(Occurrence(t, d, u), Occurrence(t, e, v))
<1>1. /\ DayLength \in Nat /\ t.open \in Nat /\ t.close \in Nat
      /\ d * DayLength \in Int /\ e * DayLength \in Int
  BY SeriesAssumption DEF Template
<1>2. ASSUME NEW x \in Nat, NEW y \in Nat, x < y
      PROVE  x * DayLength + DayLength <= y * DayLength
  <2>1. /\ y * DayLength = x * DayLength + (y - x) * DayLength
        /\ (y - x) * DayLength = DayLength + (y - x - 1) * DayLength
    BY <1>1
  <2>2. (y - x - 1) * DayLength \in Nat
    <3>1. y - x - 1 \in Nat
      BY <1>2
    <3>2. QED
      BY <1>1, <3>1
  <2>3. x * DayLength \in Int /\ y * DayLength \in Int
    BY <1>1
  <2>4. QED
    BY <1>1, <2>1, <2>2, <2>3
<1>3. \/ d * DayLength + DayLength <= e * DayLength
      \/ e * DayLength + DayLength <= d * DayLength
  BY <1>2
<1>4. QED
  BY <1>1, <1>3 DEF Overlaps, Occurrence

LEMMA DatesTyped ==
  ASSUME NEW t \in Template
  PROVE  Dates(t) \in SUBSET Nat
BY DEF Dates, Template

\* The rows an operation creates: free ids, one for each date.
LEMMA PlacementsTyped ==
  ASSUME NEW D \in SUBSET Nat, NEW new \in Placements(D)
  PROVE  /\ DOMAIN new \in SUBSET Free
         /\ new \in [DOMAIN new -> D]
         /\ \A b, c \in DOMAIN new : b # c => new[b] # new[c]
<1>1. PICK B \in kSubset(Cardinality(D), Free) : new \in Bijection(B, D)
  BY DEF Placements
<1>2. B \in SUBSET Free
  BY DEF kSubset
<1>3. QED
  BY <1>1, <1>2 DEF Bijection, Injection, IsInjective

-----------------------------------------------------------------------------
(* Rewriting a series.                                                      *)

\* The row that an operation puts at the date of b.
RowOf(b, u, t, new) ==
  IF b \in DOMAIN new THEN Occurrence(t, new[b], u)
  ELSE Occurrence(t, member[b].date, data[b].user)

DateOf(b, new) == IF b \in DOMAIN new THEN new[b] ELSE member[b].date

\* What every operation has made sure of before it writes.
Rewrites(u, s, t, first, new, kept, gone) ==
  /\ t.close <= DayLength
  /\ DOMAIN new \in SUBSET Free
  /\ new \in [DOMAIN new -> Nat]
  /\ kept \in SUBSET Editable(BookingIds)
  /\ gone \in SUBSET Editable(BookingIds)
  /\ kept \cap gone = {}
  /\ \A b, c \in DOMAIN new \cup kept :
       b # c => DateOf(b, new) # DateOf(c, new)
  /\ \A b \in DOMAIN new \cup kept :
       /\ ~UserConflict(RowOf(b, u, t, new), kept \cup gone)
       /\ ~RoomConflict(RowOf(b, u, t, new), kept \cup gone)
  /\ Rewrite(u, s, t, first, new, kept, gone)

\* No row that is written meets a row that stays, nor another one.
LEMMA RewriteClear ==
  ASSUME TypeOK, SeriesTyped, NoDoubleBooking,
         NEW u, NEW s, NEW t \in Template, NEW first \in {"PENDING", "CONFIRMED"},
         NEW new, NEW kept, NEW gone,
         Rewrites(u, s, t, first, new, kept, gone)
  PROVE  NoDoubleBooking'
<1> DEFINE W == DOMAIN new \cup kept
<1>1. /\ W \in SUBSET BookingIds
      /\ DOMAIN new \cap kept = {}
      /\ gone \in SUBSET BookingIds /\ W \cap gone = {}
  BY DEF Rewrites, Free, Editable, EditableStatuses
<1>2. \A b \in BookingIds : data'[b] = IF b \in W THEN RowOf(b, u, t, new)
                                                   ELSE data[b]
  BY DEF Rewrites, Rewrite, RowOf
<1>3. \A b \in BookingIds \ W : Active(b)' => Active(b) /\ b \notin gone
  BY DEF Rewrites, Rewrite, Active, ActiveStatuses
<1>4. \A b \in W : DateOf(b, new) \in Nat
  BY <1>1 DEF Rewrites, DateOf, SeriesTyped, Member
<1>5. ASSUME NEW a \in W, NEW b \in W, a # b
      PROVE  ~Overlaps(data[a], data[b])'
  <2>1. DateOf(a, new) # DateOf(b, new)
    BY <1>5 DEF Rewrites
  <2>2. /\ \E v : RowOf(a, u, t, new) = Occurrence(t, DateOf(a, new), v)
        /\ \E v : RowOf(b, u, t, new) = Occurrence(t, DateOf(b, new), v)
    BY DEF RowOf, DateOf
  <2>3. ~Overlaps(RowOf(a, u, t, new), RowOf(b, u, t, new))
    BY <1>4, <2>1, <2>2, DatesApart DEF Rewrites
  <2>4. data'[a] = RowOf(a, u, t, new) /\ data'[b] = RowOf(b, u, t, new)
    BY <1>1, <1>2
  <2>5. QED
    BY <2>3, <2>4 DEF Overlaps
<1>6. ASSUME NEW a \in W, NEW b \in BookingIds \ W, Active(b)',
             Overlaps(data[a], data[b])' \/ Overlaps(data[b], data[a])'
      PROVE  data'[a].user # data'[b].user /\ data'[a].room # data'[b].room
  <2>1. /\ ~UserConflict(RowOf(a, u, t, new), kept \cup gone)
        /\ ~RoomConflict(RowOf(a, u, t, new), kept \cup gone)
    BY DEF Rewrites
  <2>2. Active(b) /\ b \notin kept \cup gone
    BY <1>3, <1>6
  <2>3. data'[a] = RowOf(a, u, t, new) /\ data'[b] = data[b]
    BY <1>1, <1>2
  <2>4. QED
    BY <1>6, <2>1, <2>2, <2>3
    DEF UserConflict, RoomConflict, ActiveOf, Active, Overlaps
<1>7. ASSUME NEW a \in BookingIds \ W, NEW b \in BookingIds \ W, a # b,
             Active(a)', Active(b)', Overlaps(data[a], data[b])'
      PROVE  data'[a].user # data'[b].user /\ data'[a].room # data'[b].room
  BY <1>2, <1>3, <1>7 DEF NoDoubleBooking, Overlaps
<1> HIDE DEF W
<1>8. QED
  BY <1>5, <1>6, <1>7 DEF NoDoubleBooking

LEMMA RewriteTyped ==
  ASSUME TypeOK, SeriesTyped, NEW u \in Users \cup {NoUser},
         NEW s \in SeriesIds, NEW t \in Template,
         NEW first \in {"PENDING", "CONFIRMED"}, NEW new, NEW kept, NEW gone,
         Rewrites(u, s, t, first, new, kept, gone)
  PROVE  /\ RowsTyped' /\ qr' \in [BookingIds -> SUBSET Token]
         /\ member' \in [BookingIds -> Member]
<1>1. /\ DOMAIN new \in SUBSET BookingIds /\ kept \in SUBSET BookingIds
      /\ \A b \in DOMAIN new : new[b] \in Nat
  BY DEF Rewrites, Free, Editable
<1>2. status' \in [BookingIds -> Statuses]
  BY DEF Rewrites, Rewrite, Restored, Statuses, TypeOK
<1>3. data' \in [BookingIds -> Row]
  <2>1. \A b \in DOMAIN new : Occurrence(t, new[b], u) \in Row
    BY <1>1, OccurrenceTyped
  <2>2. \A b \in kept : Occurrence(t, member[b].date, data[b].user) \in Row
    <3>1. \A b \in kept : /\ member[b].date \in Nat
                         /\ data[b].user \in Users \cup {NoUser}
      BY <1>1 DEF SeriesTyped, Member, TypeOK, Row
    <3>2. QED
      BY <3>1, OccurrenceTyped
  <2>3. \A b \in BookingIds : data[b] \in Row
    BY DEF TypeOK
  <2>4. QED
    BY <2>1, <2>2, <2>3 DEF Rewrites, Rewrite
<1>4. events' \in [BookingIds -> Seq(Event)]
  <2>1. <<EventOf("NONE", first)>> \in Seq(Event)
    <3>1. EventOf("NONE", first) \in Event
      BY DEF EventOf, Event, Statuses
    <3>2. QED
      BY <3>1
  <2>2. \A b \in BookingIds :
          Append(events[b], EventOf(status[b], "CANCELLED")) \in Seq(Event)
    <3> SUFFICES ASSUME NEW b \in BookingIds
                 PROVE  Append(events[b], EventOf(status[b], "CANCELLED"))
                          \in Seq(Event)
      OBVIOUS
    <3>1. /\ EventOf(status[b], "CANCELLED") \in Event
          /\ events[b] \in Seq(Event)
      BY DEF TypeOK, EventOf, Event, Statuses
    <3>2. QED
      BY <3>1
  <2>3. QED
    BY <2>1, <2>2 DEF Rewrites, Rewrite, TypeOK
<1>5. qr' \in [BookingIds -> SUBSET Token]
  BY DEF Rewrites, Rewrite, TypeOK
<1>6. member' \in [BookingIds -> Member]
  BY <1>1 DEF Rewrites, Rewrite, SeriesTyped, Member
<1>7. QED
  BY <1>2, <1>3, <1>4, <1>5, <1>6 DEF RowsTyped

\* The rows of the series table stay once they exist.
SeriesStay ==
  \A s \in SeriesIds : series[s].state # "NONE" => series'[s].state # "NONE"

LEMMA SameMembers ==
  ASSUME SeriesTyped, MembersUnique, SeriesStay, UNCHANGED member
  PROVE  MembersUnique'
BY DEF MembersUnique, SeriesStay

LEMMA RewriteMembers ==
  ASSUME TypeOK, SeriesTyped, MembersUnique, SeriesStay,
         NEW u, NEW s \in SeriesIds, NEW t, NEW first, NEW new, NEW kept,
         NEW gone, Rewrites(u, s, t, first, new, kept, gone),
         series'[s].state # "NONE",
         \A b \in DOMAIN new : new[b] \notin DatesOf(InSeries(s))
  PROVE  MembersUnique'
<1>1. DOMAIN new \in SUBSET BookingIds
  BY DEF Rewrites, Free
<1>2. /\ \A b \in DOMAIN new : member'[b].series = s /\ member'[b].date = new[b]
      /\ \A b \in BookingIds \ DOMAIN new : member'[b] = member[b]
  <2>1. ASSUME NEW b \in DOMAIN new
        PROVE  member'[b].series = s /\ member'[b].date = new[b]
    <3>1. member'[b] = [series |-> s, date |-> new[b]]
      BY <1>1 DEF Rewrites, Rewrite
    <3>2. QED
      BY <3>1
  <2>2. \A b \in BookingIds \ DOMAIN new : member'[b] = member[b]
    BY DEF Rewrites, Rewrite
  <2>3. QED
    BY <2>1, <2>2
<1>3. \A b \in BookingIds : member'[b].series \in SeriesIds
                               => series'[member'[b].series].state # "NONE"
  BY <1>2 DEF MembersUnique, SeriesStay
<1>4. ASSUME NEW b \in BookingIds, NEW c \in BookingIds, b # c,
             member'[b].series \in SeriesIds,
             member'[b].series = member'[c].series
      PROVE  member'[b].date # member'[c].date
  <2>1. CASE b \in DOMAIN new /\ c \in DOMAIN new
    BY <1>2, <1>4, <2>1 DEF Rewrites, DateOf
  <2>2. CASE b \in DOMAIN new /\ c \notin DOMAIN new
    <3>1. member[c].date \in DatesOf(InSeries(s))
      BY <1>2, <1>4, <2>2 DEF DatesOf, InSeries
    <3>2. QED
      BY <1>2, <2>2, <3>1
  <2>3. CASE b \notin DOMAIN new /\ c \in DOMAIN new
    <3>1. member[b].date \in DatesOf(InSeries(s))
      BY <1>2, <1>4, <2>3 DEF DatesOf, InSeries
    <3>2. QED
      BY <1>2, <2>3, <3>1
  <2>4. CASE b \notin DOMAIN new /\ c \notin DOMAIN new
    BY <1>2, <1>4, <2>4 DEF MembersUnique
  <2>5. QED
    BY <2>1, <2>2, <2>3, <2>4
<1>5. QED
  BY <1>3, <1>4 DEF MembersUnique

-----------------------------------------------------------------------------
(* What each operation does.                                                *)

NewRows == UNION {[B -> Nat] : B \in SUBSET BookingIds}

\* A downgrade cancels what it has read.
Downgrades(B, was) ==
  /\ \A b \in B : was[b] \in Statuses
  /\ status' = [b \in BookingIds |->
                  IF b \in B THEN "CANCELLED" ELSE status[b]]
  /\ events' = [b \in BookingIds |->
       IF b \in B THEN Append(events[b], EventOf(was[b], "CANCELLED"))
       ELSE events[b]]
  /\ qr' = [b \in BookingIds |-> IF b \in B THEN {} ELSE qr[b]]
  /\ UNCHANGED <<data, checkedInAt>>
  /\ processed' # processed

SeriesRowStep ==
  \/ RowStep
  \/ \E b \in BookingIds, row \in Row : Edits(b, row)
  \/ \E u \in Users \cup {NoUser}, s \in SeriesIds, t \in Template,
        first \in {"PENDING", "CONFIRMED"}, new \in NewRows,
        kept, gone \in SUBSET BookingIds :
        Rewrites(u, s, t, first, new, kept, gone)
  \/ \E B \in SUBSET BookingIds : \E was : Downgrades(B, was)

\* The rest of the service's state, as these operations leave it.
Settles ==
  /\ UNCHANGED <<now, issued, roomState, device, calls, jobs, checkedInAt>>
  /\ plan' \in [Users -> {"FREE", "PRO"}]

\* All that a proof needs to know of an operation.
Sound == SeriesRowStep /\ Settles /\ SeriesTyped' /\ MembersUnique'

LEMMA RewriteIsStep ==
  ASSUME TypeOK, SeriesTyped, MembersUnique, SeriesStay,
         NEW u \in Users \cup {NoUser},
         NEW s \in SeriesIds, NEW t \in Template,
         NEW first \in {"PENDING", "CONFIRMED"}, NEW new, NEW kept, NEW gone,
         Rewrites(u, s, t, first, new, kept, gone),
         series' \in [SeriesIds -> SeriesRow],
         series'[s].state # "NONE",
         \A b \in DOMAIN new : new[b] \notin DatesOf(InSeries(s))
  PROVE  Sound
<1>1. new \in NewRows /\ kept \in SUBSET BookingIds /\ gone \in SUBSET BookingIds
  <2>1. DOMAIN new \in SUBSET BookingIds /\ new \in [DOMAIN new -> Nat]
    BY DEF Rewrites, Free
  <2>2. kept \in SUBSET BookingIds /\ gone \in SUBSET BookingIds
    BY DEF Rewrites, Editable
  <2>3. QED
    BY <2>1, <2>2 DEF NewRows
<1>2. SeriesRowStep
  BY <1>1 DEF SeriesRowStep
<1>3. Settles
  BY DEF Rewrites, Rewrite, Settles, settings, TypeOK
<1>4. SeriesTyped'
  <2>1. member' \in [BookingIds -> Member]
    BY RewriteTyped
  <2>2. UNCHANGED <<planEnds, processed, delivery>>
    BY DEF Rewrites, Rewrite
  <2>3. QED
    BY <2>1, <2>2 DEF SeriesTyped
<1>5. MembersUnique'
  BY RewriteMembers
<1>6. QED
  BY <1>2, <1>3, <1>4, <1>5 DEF Sound

LEMMA SeriesFromTyped ==
  ASSUME NEW t \in Template, NEW u \in Users \cup {NoUser}
  PROVE  SeriesFrom(t, u) \in SeriesRow /\ SeriesFrom(t, u).state = "ACTIVE"
BY DEF SeriesFrom, SeriesRow, Template, SeriesStates

LEMMA FirstStatusTyped ==
  ASSUME NEW u, NEW r
  PROVE  FirstStatus(u, r) \in {"PENDING", "CONFIRMED"}
BY DEF FirstStatus

\* What validateCreate says of the actor holds of anybody's row in the room.
LEMMA AcceptedRoom ==
  ASSUME NEW u, NEW v, NEW t, NEW D, NEW mine, NEW except,
         Accepted(u, t, D, mine, except), NEW d \in D
  PROVE  /\ ~RoomConflict(Occurrence(t, d, v), except)
         /\ ~UserConflict(Occurrence(t, d, u), except)
<1>1. Verdict(Occurrence(t, d, u), except, FALSE) = "OK"
  BY DEF Accepted
<1>2. /\ ~RoomConflict(Occurrence(t, d, u), except)
      /\ ~UserConflict(Occurrence(t, d, u), except)
  BY <1>1, VerdictClear
<1>3. QED
  BY <1>2 DEF RoomConflict, Overlaps, Occurrence

LEMMA CreateSound ==
  ASSUME TypeOK, SeriesTyped, MembersUnique, NEW u \in Clients,
         NEW s \in SeriesIds, NEW t \in Templates, CreateSeries(u, s, t)
  PROVE  Sound
<1> DEFINE D == Dates(t)
           first == FirstStatus(u, t.room)
<1>1. /\ u \in Users /\ t \in Template /\ t.close <= DayLength
      /\ D \in SUBSET Nat /\ first \in {"PENDING", "CONFIRMED"}
  BY SeriesAssumption, DatesTyped, FirstStatusTyped DEF Clients
<1>2. PICK new \in Placements(D) : Rewrite(u, s, t, first, new, {}, {})
  BY DEF CreateSeries
<1>3. /\ DOMAIN new \in SUBSET Free /\ new \in [DOMAIN new -> D]
      /\ \A b, c \in DOMAIN new : b # c => new[b] # new[c]
  BY <1>1, PlacementsTyped
<1>4. Accepted(u, t, D, D, {})
  BY DEF CreateSeries
<1> HIDE DEF D, first
<1>5. Rewrites(u, s, t, first, new, {}, {})
  <2>1. \A b \in DOMAIN new : /\ RowOf(b, u, t, new) = Occurrence(t, new[b], u)
                            /\ DateOf(b, new) = new[b] /\ new[b] \in D
    BY <1>3 DEF RowOf, DateOf
  <2>2. \A b \in DOMAIN new : /\ ~UserConflict(RowOf(b, u, t, new), {})
                            /\ ~RoomConflict(RowOf(b, u, t, new), {})
    BY <1>4, <2>1, AcceptedRoom
  <2>3. new \in [DOMAIN new -> Nat]
    BY <1>1, <1>3
  <2>4. {} \cup {} = {} /\ DOMAIN new \cup {} = DOMAIN new
    OBVIOUS
  <2>5. QED
    BY <1>1, <1>2, <1>3, <2>1, <2>2, <2>3, <2>4 DEF Rewrites
<1>6. series' = [series EXCEPT ![s] = SeriesFrom(t, u)]
  BY DEF CreateSeries
<1>7. /\ series' \in [SeriesIds -> SeriesRow] /\ series'[s].state # "NONE"
      /\ SeriesStay
  BY <1>1, <1>6, SeriesFromTyped DEF SeriesTyped, SeriesStay
<1>8. InSeries(s) = {}
  BY DEF CreateSeries, InSeries, MembersUnique
<1>9. QED
  BY <1>1, <1>5, <1>7, <1>8, RewriteIsStep DEF DatesOf

LEMMA OwnerTyped ==
  ASSUME SeriesTyped, NEW s \in SeriesIds
  PROVE  series[s].owner \in Users \cup {NoUser} /\ series[s].startDate \in Nat
BY DEF SeriesTyped, SeriesRow

LEMMA MergedTyped ==
  ASSUME NEW patch \in Templates, NEW d \in Nat
  PROVE  Merged(patch, d) \in Template /\ Merged(patch, d).close <= DayLength
BY SeriesAssumption DEF Merged, Template

LEMMA EditWholeSound ==
  ASSUME TypeOK, SeriesTyped, MembersUnique, NEW u \in Clients,
         NEW s \in SeriesIds, NEW patch \in Templates,
         EditWholeSeries(u, s, patch)
  PROVE  Sound
<1> DEFINE t == Merged(patch, series[s].startDate)
           old == OldRows(s)
           D == {d \in Dates(t) : Occurrence(t, d, u).start > now}
           kept == {b \in old : member[b].date \in D}
           gone == old \ kept
           added == D \ DatesOf(old)
           mine == added \cup DatesOf({b \in kept : data[b].user = u})
           first == FirstStatus(u, t.room)
<1>1. /\ u \in Users /\ t \in Template /\ t.close <= DayLength
      /\ first \in {"PENDING", "CONFIRMED"}
  BY FirstStatusTyped, OwnerTyped, MergedTyped DEF Clients
<1>2. D \in SUBSET Nat /\ added \in SUBSET D
  <2>1. Dates(t) \in SUBSET Nat
    BY <1>1, DatesTyped
  <2>2. QED
    BY <2>1
<1>3. /\ old \in SUBSET Editable(BookingIds) /\ old \in SUBSET InSeries(s)
      /\ kept \in SUBSET old /\ kept \cup gone = old /\ kept \cap gone = {}
  BY DEF OldRows, Editable, InSeries
<1>4. /\ Accepted(u, t, D, mine, old)
      /\ \A b \in kept : OwnerFree(data[b].user, t, member[b].date, old)
      /\ added \cap DatesOf(InSeries(s)) = {}
  BY DEF EditWholeSeries
<1>5. PICK new \in Placements(added) : Rewrite(u, s, t, first, new, kept, gone)
  BY DEF EditWholeSeries
<1>6. \A b \in kept : /\ member[b].date \in D
                     /\ member[b].date \in DatesOf(old)
  BY DEF DatesOf
<1>7. \A b \in kept, c \in kept : b # c => member[b].date # member[c].date
  BY <1>3 DEF InSeries, MembersUnique
<1>8. series' = [series EXCEPT ![s] = SeriesFrom(t, series[s].owner)]
  BY DEF EditWholeSeries
<1>9. /\ series' \in [SeriesIds -> SeriesRow] /\ series'[s].state # "NONE"
      /\ SeriesStay
  <2>1. /\ SeriesFrom(t, series[s].owner) \in SeriesRow
        /\ SeriesFrom(t, series[s].owner).state = "ACTIVE"
    BY <1>1, OwnerTyped, SeriesFromTyped
  <2>2. QED
    BY <1>8, <2>1 DEF SeriesTyped, SeriesStay
<1>10. /\ \A b \in kept : b \notin Free
       /\ \A x \in added : x \notin DatesOf(old)
  BY <1>3 DEF Free, Editable, EditableStatuses
<1> HIDE DEF t, old, D, kept, gone, added, mine, first
<1>11. /\ DOMAIN new \in SUBSET Free /\ new \in [DOMAIN new -> added]
       /\ \A b, c \in DOMAIN new : b # c => new[b] # new[c]
  BY <1>2, PlacementsTyped
<1>12. Rewrites(u, s, t, first, new, kept, gone)
  <2>1. \A b \in DOMAIN new :
          /\ RowOf(b, u, t, new) = Occurrence(t, new[b], u)
          /\ DateOf(b, new) = new[b] /\ new[b] \in added /\ new[b] \in D
    BY <1>2, <1>11 DEF RowOf, DateOf
  <2>2. \A b \in kept :
          /\ RowOf(b, u, t, new) = Occurrence(t, member[b].date, data[b].user)
          /\ DateOf(b, new) = member[b].date
    BY <1>10, <1>11 DEF RowOf, DateOf
  <2>3. \A b \in DOMAIN new : /\ ~UserConflict(RowOf(b, u, t, new), old)
                            /\ ~RoomConflict(RowOf(b, u, t, new), old)
    BY <1>4, <2>1, AcceptedRoom
  <2>4. \A b \in kept : /\ ~UserConflict(RowOf(b, u, t, new), old)
                       /\ ~RoomConflict(RowOf(b, u, t, new), old)
    BY <1>4, <1>6, <2>2, AcceptedRoom DEF OwnerFree
  <2>5. \A b, c \in DOMAIN new \cup kept :
          b # c => DateOf(b, new) # DateOf(c, new)
    BY <1>6, <1>7, <1>10, <1>11, <2>1, <2>2
  <2>6. new \in [DOMAIN new -> Nat]
    BY <1>2, <1>11
  <2>7. QED
    BY <1>1, <1>3, <1>5, <1>11, <2>3, <2>4, <2>5, <2>6 DEF Rewrites
<1>13. \A b \in DOMAIN new : new[b] \notin DatesOf(InSeries(s))
  BY <1>4, <1>11
<1>14. QED
  BY <1>1, <1>9, <1>12, <1>13, RewriteIsStep

LEMMA CutTyped ==
  ASSUME SeriesTyped, NEW s \in SeriesIds, NEW pivot \in Nat,
         series[s].state # "NONE"
  PROVE  CutAt(s, pivot) \in SeriesRow /\ CutAt(s, pivot).state # "NONE"
<1>1. series[s] \in SeriesRow /\ series[s].startDate \in Nat
  BY DEF SeriesTyped, SeriesRow
<1>2. CASE pivot <= series[s].startDate
  BY <1>1, <1>2 DEF CutAt, SeriesRow, SeriesStates
<1>3. CASE ~(pivot <= series[s].startDate)
  <2>1. pivot - 1 \in Nat
    BY <1>1, <1>3
  <2>2. QED
    BY <1>1, <1>3, <2>1 DEF CutAt, SeriesRow
<1>4. QED
  BY <1>2, <1>3

LEMMA SplitSound ==
  ASSUME TypeOK, SeriesTyped, MembersUnique, NEW u \in Clients,
         NEW s \in SeriesIds, NEW n \in SeriesIds, NEW patch \in Templates,
         NEW p \in BookingIds, SplitSeries(u, s, n, patch, p)
  PROVE  Sound
<1> DEFINE pivot == member[p].date
           owner == series[s].owner
           t == Merged(patch, pivot)
           D == Dates(t)
           old == {b \in Editable(InSeries(s)) : member[b].date >= pivot}
           mine == IF u = owner THEN D ELSE {}
           first == FirstStatus(u, t.room)
<1>1. pivot \in Nat /\ owner \in Users \cup {NoUser}
  BY OwnerTyped DEF SeriesTyped, Member
<1>2. /\ t \in Template /\ t.close <= DayLength
      /\ first \in {"PENDING", "CONFIRMED"}
  BY <1>1, FirstStatusTyped, MergedTyped
<1>3. D \in SUBSET Nat /\ old \in SUBSET Editable(BookingIds)
  BY <1>2, DatesTyped DEF Editable, InSeries
<1>4. /\ Accepted(u, t, D, mine, old)
      /\ \A d \in D : OwnerFree(owner, t, d, old)
      /\ series[n].state = "NONE" /\ series[s].state # "NONE"
  BY DEF SplitSeries, MayRewrite
<1>5. PICK new \in Placements(D) : Rewrite(owner, n, t, first, new, {}, old)
  BY DEF SplitSeries
<1>6. series' = [series EXCEPT ![s] = CutAt(s, pivot),
                               ![n] = SeriesFrom(t, owner)]
  BY DEF SplitSeries
<1>7. /\ series' \in [SeriesIds -> SeriesRow] /\ series'[n].state # "NONE"
      /\ SeriesStay
  <2>1. /\ SeriesFrom(t, owner) \in SeriesRow
        /\ SeriesFrom(t, owner).state = "ACTIVE"
        /\ CutAt(s, pivot) \in SeriesRow /\ CutAt(s, pivot).state # "NONE"
    BY <1>1, <1>2, <1>4, SeriesFromTyped, CutTyped
  <2> HIDE DEF pivot, owner, t
  <2>2. QED
    BY <1>4, <1>6, <2>1 DEF SeriesTyped, SeriesStay
<1>8. InSeries(n) = {}
  BY <1>4 DEF InSeries, MembersUnique
<1> HIDE DEF pivot, owner, t, D, old, mine, first
<1>9. /\ DOMAIN new \in SUBSET Free /\ new \in [DOMAIN new -> D]
      /\ \A b, c \in DOMAIN new : b # c => new[b] # new[c]
  BY <1>3, PlacementsTyped
<1>10. Rewrites(owner, n, t, first, new, {}, old)
  <2>1. \A b \in DOMAIN new :
          /\ RowOf(b, owner, t, new) = Occurrence(t, new[b], owner)
          /\ DateOf(b, new) = new[b] /\ new[b] \in D
    BY <1>9 DEF RowOf, DateOf
  <2>2. \A b \in DOMAIN new : /\ ~UserConflict(RowOf(b, owner, t, new), old)
                            /\ ~RoomConflict(RowOf(b, owner, t, new), old)
    BY <1>4, <2>1, AcceptedRoom DEF OwnerFree
  <2>3. new \in [DOMAIN new -> Nat]
    BY <1>3, <1>9
  <2>4. {} \cup old = old /\ DOMAIN new \cup {} = DOMAIN new
    OBVIOUS
  <2>5. QED
    BY <1>2, <1>3, <1>5, <1>9, <2>1, <2>2, <2>3, <2>4 DEF Rewrites
<1>11. QED
  BY <1>1, <1>2, <1>7, <1>8, <1>10, RewriteIsStep DEF DatesOf

\* Operations that withdraw rows and end or shorten series.
LEMMA WithdrawSound ==
  ASSUME TypeOK, SeriesTyped, MembersUnique, SeriesStay,
         NEW B \in SUBSET BookingIds, \A b \in B : status[b] \in EditableStatuses,
         Withdraw(B),
         UNCHANGED <<now, issued, roomState, device, calls, jobs, member>>,
         plan' \in [Users -> {"FREE", "PRO"}],
         series' \in [SeriesIds -> SeriesRow],
         planEnds' \in [Users -> SUBSET Nat],
         UNCHANGED <<processed, delivery>>
  PROVE  Sound
<1>1. SeriesRowStep
  BY DEF Withdraws, RowStep, SeriesRowStep
<1>2. Settles
  BY DEF Settles, Withdraw
<1>3. SeriesTyped' /\ MembersUnique'
  BY SameMembers DEF SeriesTyped
<1>4. QED
  BY <1>1, <1>2, <1>3 DEF Sound

LEMMA EditOccurrenceSound ==
  ASSUME TypeOK, SeriesTyped, MembersUnique, NEW u \in Clients,
         NEW b \in BookingIds, NEW t \in Templates, NEW d \in t.startDate..t.endDate,
         EditSeriesOccurrence(u, b, t, d)
  PROVE  Sound
<1> DEFINE row == Occurrence(t, d, data[b].user)
           s == member[b].series
<1>1. t \in Template /\ d \in Nat
  BY SeriesAssumption DEF Template
<1>2. row \in Row
  <2>1. data[b].user \in Users \cup {NoUser}
    BY DEF TypeOK, Row
  <2>2. QED
    BY <1>1, <2>1, OccurrenceTyped
<1>3. NoActiveOverlap(row, b)
  <2>1. ~RoomConflict(Occurrence(t, d, u), {b})
    BY VerdictClear DEF EditSeriesOccurrence
  <2>2. ~UserConflict(row, {b})
    BY DEF EditSeriesOccurrence, OwnerFree
  <2>3. QED
    BY <2>1, <2>2 DEF NoActiveOverlap, RoomConflict, Overlaps, Occurrence
<1>4. /\ data' = [data EXCEPT ![b] = row]
      /\ member' = [member EXCEPT ![b].date = d]
      /\ d \notin DatesOf(InSeries(s) \ {b})
      /\ status[b] \in EditableStatuses
      /\ qr' = [qr EXCEPT ![b] = {}]
      /\ UNCHANGED <<now, status, events, checkedInAt, issued, settings, calls,
                     jobs, series, planEnds, processed, delivery>>
  BY DEF EditSeriesOccurrence
<1> HIDE DEF row
<1>5. SeriesRowStep
  BY <1>2, <1>3, <1>4 DEF Edits, SeriesRowStep
<1>6. Settles
  BY <1>4 DEF Settles, settings, TypeOK
<1>7. /\ member'[b].date = d /\ member'[b].series = s /\ member'[b] \in Member
      /\ \A c \in BookingIds \ {b} : member'[c] = member[c]
  <2>1. member[b] \in Member /\ member'[b] = [member[b] EXCEPT !.date = d]
    BY <1>4 DEF SeriesTyped
  <2>2. member'[b].date = d /\ member'[b].series = s /\ member'[b] \in Member
    BY <1>1, <2>1 DEF Member
  <2>3. QED
    BY <1>4, <2>2
<1>8. SeriesTyped'
  BY <1>4, <1>7 DEF SeriesTyped
<1>9. MembersUnique'
  <2>1. \A c \in BookingIds : member'[c].series = member[c].series
    BY <1>7
  <2>2. ASSUME NEW c \in BookingIds \ {b}, s = member[c].series
        PROVE  member[c].date # d
    BY <1>4, <2>2 DEF DatesOf, InSeries
  <2>3. QED
    BY <1>4, <1>7, <2>1, <2>2 DEF MembersUnique
<1>10. QED
  BY <1>5, <1>6, <1>8, <1>9 DEF Sound

LEMMA CancelSound ==
  ASSUME TypeOK, SeriesTyped, MembersUnique, NEW u \in Clients
  PROVE  /\ \A b \in BookingIds : CancelOccurrence(u, b) => Sound
         /\ \A s \in SeriesIds : CancelEntireSeries(u, s) => Sound
         /\ \A s \in SeriesIds, p \in BookingIds :
              CancelFutureOccurrences(u, s, p) => Sound
<1>1. ASSUME NEW b \in BookingIds, CancelOccurrence(u, b)
      PROVE  Sound
  <2>1. /\ status[b] \in EditableStatuses /\ Withdraw({b})
        /\ UNCHANGED <<now, issued, settings, calls, jobs, seriesVars>>
    BY <1>1 DEF CancelOccurrence
  <2>2. SeriesStay
    BY <2>1 DEF SeriesStay, seriesVars
  <2>3. QED
    BY <2>1, <2>2, WithdrawSound DEF settings, seriesVars, TypeOK, SeriesTyped
<1>2. ASSUME NEW s \in SeriesIds, CancelEntireSeries(u, s)
      PROVE  Sound
  <2> DEFINE B == Editable(InSeries(s))
  <2>1. /\ B \in SUBSET BookingIds
        /\ \A b \in B : status[b] \in EditableStatuses
    BY DEF Editable, InSeries
  <2>2. /\ Withdraw(B)
        /\ series' = [series EXCEPT ![s].state = "CANCELLED"]
        /\ UNCHANGED <<now, issued, settings, calls, jobs, member, planEnds,
                       processed, delivery>>
    BY <1>2 DEF CancelEntireSeries
  <2>3. /\ [series[s] EXCEPT !.state = "CANCELLED"] \in SeriesRow
        /\ [series[s] EXCEPT !.state = "CANCELLED"].state = "CANCELLED"
    BY DEF SeriesTyped, SeriesRow, SeriesStates
  <2>4. series' \in [SeriesIds -> SeriesRow] /\ SeriesStay
    BY <2>2, <2>3 DEF SeriesTyped, SeriesStay
  <2> HIDE DEF B
  <2>5. QED
    BY <2>1, <2>2, <2>4, WithdrawSound DEF settings, TypeOK, SeriesTyped
<1>3. ASSUME NEW s \in SeriesIds, NEW p \in BookingIds,
             CancelFutureOccurrences(u, s, p)
      PROVE  Sound
  <2> DEFINE pivot == member[p].date
             B == {b \in Editable(InSeries(s)) : member[b].date >= pivot}
  <2>1. /\ B \in SUBSET BookingIds
        /\ \A b \in B : status[b] \in EditableStatuses
    BY DEF Editable, InSeries
  <2>2. /\ Withdraw(B) /\ series[s].state # "NONE"
        /\ series' = [series EXCEPT ![s] = CutAt(s, pivot)]
        /\ UNCHANGED <<now, issued, settings, calls, jobs, member, planEnds,
                       processed, delivery>>
    BY <1>3 DEF CancelFutureOccurrences, MayManage
  <2>3. pivot \in Nat
    BY DEF SeriesTyped, Member
  <2>4. CutAt(s, pivot) \in SeriesRow /\ CutAt(s, pivot).state # "NONE"
    BY <2>2, <2>3, CutTyped
  <2> HIDE DEF pivot, B
  <2>5. series' \in [SeriesIds -> SeriesRow] /\ SeriesStay
    BY <2>2, <2>4 DEF SeriesTyped, SeriesStay
  <2>6. QED
    BY <2>1, <2>2, <2>5, WithdrawSound DEF settings, TypeOK, SeriesTyped
<1>4. QED
  BY <1>1, <1>2, <1>3

\* Series that end together with a plan.
LEMMA SeriesEnd ==
  ASSUME SeriesTyped, NEW S,
         series' = [s \in SeriesIds |->
           IF s \in S THEN [series[s] EXCEPT !.state = "CANCELLED"]
           ELSE series[s]]
  PROVE  series' \in [SeriesIds -> SeriesRow] /\ SeriesStay
<1>1. \A s \in SeriesIds :
        /\ [series[s] EXCEPT !.state = "CANCELLED"] \in SeriesRow
        /\ [series[s] EXCEPT !.state = "CANCELLED"].state = "CANCELLED"
  BY DEF SeriesTyped, SeriesRow, SeriesStates
<1>2. QED
  BY <1>1 DEF SeriesTyped, SeriesStay

LEMMA ExpireSound ==
  ASSUME TypeOK, SeriesTyped, MembersUnique, NEW u \in Users,
         ExpireDueProAccess(u)
  PROVE  Sound
<1>1. PICK at \in 0..now :
        Withdraw({b \in Editable(BookingIds) :
                    /\ member[b].series \in ActiveSeriesOf(u)
                    /\ data[b].start >= at})
  BY DEF ExpireDueProAccess
<1> DEFINE B == {b \in Editable(BookingIds) :
                   /\ member[b].series \in ActiveSeriesOf(u)
                   /\ data[b].start >= at}
<1>2. B \in SUBSET BookingIds /\ \A b \in B : status[b] \in EditableStatuses
  BY DEF Editable
<1>3. /\ plan' = [plan EXCEPT ![u] = "FREE"]
      /\ planEnds' = [planEnds EXCEPT ![u] = {}]
      /\ UNCHANGED <<now, issued, roomState, device, calls, jobs, member,
                     processed, delivery>>
  BY DEF ExpireDueProAccess
<1>4. series' \in [SeriesIds -> SeriesRow] /\ SeriesStay
  BY SeriesEnd DEF ExpireDueProAccess
<1>5. /\ plan' \in [Users -> {"FREE", "PRO"}]
      /\ planEnds' \in [Users -> SUBSET Nat]
  BY <1>3 DEF TypeOK, SeriesTyped
<1>6. Withdraw(B)
  BY <1>1
<1> HIDE DEF B
<1>7. QED
  BY <1>2, <1>3, <1>4, <1>5, <1>6, WithdrawSound

-----------------------------------------------------------------------------
(* Deliveries of Stripe's events.                                           *)

\* A delivery under way has not been processed, and the lock on the user row
\* keeps any other delivery for that user out.
Undelivered ==
  /\ \A x \in Deliveries : \A tx \in delivery[x] : tx.event \notin processed
  /\ \A x, y \in Deliveries : \A tx \in delivery[x], ty \in delivery[y] :
       StripeEvent[tx.event].user = StripeEvent[ty.event].user
         => x = y /\ tx = ty

\* Operations that leave the rows of bookings and series alone.
LEMMA PlanOnlySound ==
  ASSUME TypeOK, SeriesTyped, MembersUnique,
         UNCHANGED <<now, rows, qr, issued, roomState, device, calls, jobs,
                     series, member>>,
         plan' \in [Users -> {"FREE", "PRO"}],
         planEnds' \in [Users -> SUBSET Nat],
         processed' \in SUBSET StripeEvents,
         delivery' \in [Deliveries -> SUBSET Transaction]
  PROVE  Sound
<1>1. SeriesRowStep
  BY DEF rows, Keeps, RowStep, SeriesRowStep
<1>2. Settles
  BY DEF Settles, rows
<1>3. SeriesTyped' /\ MembersUnique'
  BY SameMembers DEF SeriesTyped, SeriesStay
<1>4. QED
  BY <1>1, <1>2, <1>3 DEF Sound

LEMMA UpgradeSound ==
  ASSUME TypeOK, SeriesTyped, MembersUnique, NEW e \in StripeEvents,
         UpgradeEvent(e)
  PROVE  Sound
<1> DEFINE ev == StripeEvent[e]
<1>1. ev.user \in Users /\ ev.ends \in SUBSET Nat
  BY SeriesAssumption DEF StripeRecord
<1>2. /\ plan' = [plan EXCEPT ![ev.user] = "PRO"]
      /\ planEnds' = [planEnds EXCEPT ![ev.user] =
                        IF ev.kind = "ending" THEN ev.ends ELSE {}]
      /\ processed' = processed \cup {e}
      /\ UNCHANGED <<now, rows, qr, issued, roomState, device, calls, jobs,
                     series, member, delivery>>
  BY DEF UpgradeEvent
<1> HIDE DEF ev
<1>3. /\ plan' \in [Users -> {"FREE", "PRO"}]
      /\ planEnds' \in [Users -> SUBSET Nat]
      /\ processed' \in SUBSET StripeEvents
      /\ delivery' \in [Deliveries -> SUBSET Transaction]
  BY <1>1, <1>2 DEF TypeOK, SeriesTyped
<1>4. QED
  BY <1>2, <1>3, PlanOnlySound

\* The steps of a delivery before its commit write nothing.
Prepares(x, txs) ==
  /\ delivery' = [delivery EXCEPT ![x] = txs]
  /\ UNCHANGED <<vars, series, member, planEnds, processed>>

LEMMA PrepareSound ==
  ASSUME TypeOK, SeriesTyped, MembersUnique, NEW x \in Deliveries,
         NEW txs \in SUBSET Transaction, Prepares(x, txs)
  PROVE  Sound
BY PlanOnlySound DEF Prepares, vars, settings, TypeOK, SeriesTyped

LEMMA BeginPrepares ==
  ASSUME NEW x \in Deliveries, NEW e \in StripeEvents, DowngradeBegins(x, e)
  PROVE  \E tx \in Transaction :
           /\ tx.event = e /\ Prepares(x, {tx})
           /\ delivery[x] = {} /\ Deliverable(e)
<1> DEFINE tx == [event |-> e, stage |-> "listed",
                  listed |-> ActiveSeriesOf(StripeEvent[e].user), read |-> {}]
<1>1. tx \in Transaction /\ tx.event = e
  BY DEF Transaction, ActiveSeriesOf
<1>2. Prepares(x, {tx}) /\ delivery[x] = {} /\ Deliverable(e)
  BY DEF DowngradeBegins, Prepares
<1> HIDE DEF tx
<1>3. QED
  BY <1>1, <1>2

LEMMA ReadPrepares ==
  ASSUME TypeOK, SeriesTyped, NEW x \in Deliveries, DowngradeReads(x)
  PROVE  \E old \in delivery[x], tx \in Transaction :
           tx.event = old.event /\ Prepares(x, {tx})
<1>1. PICK old \in delivery[x] :
        delivery' = [delivery EXCEPT ![x] =
         {[old EXCEPT !.stage = "read",
                     !.read = {[booking |-> b, status |-> status[b]] :
                       b \in {c \in Editable(BookingIds) :
                                /\ member[c].series \in old.listed
                                /\ data[c].start >= StripeEvent[old.event].at}}]}]
  BY DEF DowngradeReads
<1> DEFINE R == {[booking |-> b, status |-> status[b]] :
                   b \in {c \in Editable(BookingIds) :
                            /\ member[c].series \in old.listed
                            /\ data[c].start >= StripeEvent[old.event].at}}
           tx == [old EXCEPT !.stage = "read", !.read = R]
<1>2. R \in SUBSET Seen
  BY DEF Seen, Editable, TypeOK
<1>3. old \in Transaction
  BY DEF SeriesTyped
<1>4. Prepares(x, {tx})
  BY <1>1 DEF DowngradeReads, Prepares
<1> HIDE DEF R
<1>5. tx \in Transaction /\ tx.event = old.event
  BY <1>2, <1>3 DEF Transaction
<1> HIDE DEF tx
<1>6. QED
  BY <1>4, <1>5

LEMMA FailurePrepares ==
  ASSUME NEW x \in Deliveries, DeliveryFails(x)
  PROVE  Prepares(x, {})
BY DEF DeliveryFails, Prepares

LEMMA CommitSound ==
  ASSUME TypeOK, SeriesTyped, MembersUnique, Undelivered,
         NEW x \in Deliveries, DowngradeCommits(x)
  PROVE  Sound
<1>1. PICK tx \in delivery[x] :
        LET ev == StripeEvent[tx.event]
            B == {seen.booking : seen \in tx.read}
            was == [b \in B |->
              (CHOOSE seen \in tx.read : seen.booking = b).status]
        IN  /\ plan' = [plan EXCEPT ![ev.user] = "FREE"]
            /\ planEnds' = [planEnds EXCEPT ![ev.user] =
                              IF ev.kind = "inactive" THEN ev.ends ELSE {}]
            /\ status' = [b \in BookingIds |->
                            IF b \in B THEN "CANCELLED" ELSE status[b]]
            /\ events' = [b \in BookingIds |->
                 IF b \in B THEN Append(events[b], EventOf(was[b], "CANCELLED"))
                 ELSE events[b]]
            /\ qr' = [b \in BookingIds |-> IF b \in B THEN {} ELSE qr[b]]
            /\ series' = [s \in SeriesIds |->
                 IF s \in tx.listed /\ series[s].state = "ACTIVE"
                 THEN [series[s] EXCEPT !.state = "CANCELLED"] ELSE series[s]]
            /\ processed' = processed \cup {tx.event}
            /\ delivery' = [delivery EXCEPT ![x] = {}]
            /\ UNCHANGED <<now, data, checkedInAt, issued, roomState, device,
                           calls, jobs, member>>
  BY DEF DowngradeCommits
<1> DEFINE ev == StripeEvent[tx.event]
           B == {seen.booking : seen \in tx.read}
           was == [b \in B |->
             (CHOOSE seen \in tx.read : seen.booking = b).status]
           S == {s \in tx.listed : series[s].state = "ACTIVE"}
<1>2. /\ tx.event \in StripeEvents /\ tx.read \in SUBSET Seen
      /\ tx.event \notin processed
  BY DEF SeriesTyped, Transaction, Undelivered
<1>3. ev.user \in Users /\ ev.ends \in SUBSET Nat
  BY <1>2, SeriesAssumption DEF StripeRecord
<1>4. B \in SUBSET BookingIds
  BY <1>2 DEF Seen
<1>5. \A b \in B : was[b] \in Statuses
  <2> SUFFICES ASSUME NEW b \in B PROVE was[b] \in Statuses
    OBVIOUS
  <2>1. \E seen \in tx.read : seen.booking = b
    OBVIOUS
  <2>2. (CHOOSE seen \in tx.read : seen.booking = b) \in tx.read
    BY <2>1
  <2>3. \A seen \in tx.read : seen.status \in Statuses
    BY <1>2 DEF Seen
  <2>4. QED
    BY <2>2, <2>3
<1>6. series' = [s \in SeriesIds |->
        IF s \in S THEN [series[s] EXCEPT !.state = "CANCELLED"] ELSE series[s]]
  BY <1>1
<1>7. series' \in [SeriesIds -> SeriesRow] /\ SeriesStay
  BY <1>6, SeriesEnd
<1>8. /\ plan' = [plan EXCEPT ![ev.user] = "FREE"]
      /\ planEnds' = [planEnds EXCEPT ![ev.user] =
                        IF ev.kind = "inactive" THEN ev.ends ELSE {}]
      /\ processed' = processed \cup {tx.event}
      /\ delivery' = [delivery EXCEPT ![x] = {}]
      /\ UNCHANGED <<now, issued, roomState, device, calls, jobs, member,
                     checkedInAt>>
  BY <1>1
<1>9. Downgrades(B, was)
  BY <1>1, <1>2, <1>5 DEF Downgrades
<1> HIDE DEF ev, B, was, S
<1>10. /\ plan' \in [Users -> {"FREE", "PRO"}]
       /\ planEnds' \in [Users -> SUBSET Nat]
       /\ processed' \in SUBSET StripeEvents
       /\ delivery' \in [Deliveries -> SUBSET Transaction]
  BY <1>2, <1>3, <1>8 DEF TypeOK, SeriesTyped
<1>11. SeriesRowStep
  BY <1>4, <1>9 DEF SeriesRowStep
<1>12. Settles
  BY <1>8, <1>10 DEF Settles
<1>13. SeriesTyped' /\ MembersUnique'
  BY <1>7, <1>8, <1>10, SameMembers DEF SeriesTyped
<1>14. QED
  BY <1>11, <1>12, <1>13 DEF Sound

-----------------------------------------------------------------------------
(* All steps together.                                                      *)

LEMMA RowStepTyped ==
  ASSUME TypeOK, RowStep
  PROVE  RowsTyped' /\ qr' \in [BookingIds -> SUBSET Token]
<1> DEFINE Typed == RowsTyped' /\ qr' \in [BookingIds -> SUBSET Token]
<1>0. RowsTyped /\ qr \in [BookingIds -> SUBSET Token]
  BY DEF TypeOK, RowsTyped
<1>1. CASE Keeps
  BY <1>0, <1>1 DEF Keeps, RowsTyped
<1>2. ASSUME NEW b \in BookingIds, NEW req \in Row, NEW path \in Paths,
             Registers(b, req, path)
      PROVE  Typed
  BY <1>0, <1>2, InsertTyped DEF Registers
<1>3. ASSUME NEW b \in BookingIds, NEW to \in Statuses, MovesTo(b, to)
      PROVE  Typed
  <2>1. RowsTyped'
    BY <1>0, <1>3, SetStatusTyped DEF MovesTo
  <2>2. QED
    BY <1>0, <1>3, <2>1 DEF MovesTo
<1>4. ASSUME NEW b \in BookingIds, NEW row \in Row, Edits(b, row)
      PROVE  Typed
  BY <1>0, <1>4 DEF Edits, RowsTyped
<1>5. ASSUME NEW B \in SUBSET BookingIds, Withdraws(B)
      PROVE  Typed
  BY <1>0, <1>5, WithdrawTyped DEF Withdraws
<1>6. QED
  BY <1>1, <1>2, <1>3, <1>4, <1>5 DEF RowStep

LEMMA DowngradeTyped ==
  ASSUME TypeOK, NEW B \in SUBSET BookingIds, NEW was, Downgrades(B, was)
  PROVE  RowsTyped' /\ qr' \in [BookingIds -> SUBSET Token]
<1>1. "CANCELLED" \in Statuses
  BY DEF Statuses
<1>2. \A b \in B : Append(events[b], EventOf(was[b], "CANCELLED")) \in Seq(Event)
  <2> SUFFICES ASSUME NEW b \in B
               PROVE  Append(events[b], EventOf(was[b], "CANCELLED"))
                        \in Seq(Event)
    OBVIOUS
  <2>1. EventOf(was[b], "CANCELLED") \in Event /\ events[b] \in Seq(Event)
    BY <1>1 DEF Downgrades, EventOf, Event, TypeOK
  <2>2. QED
    BY <2>1
<1>3. QED
  BY <1>1, <1>2 DEF Downgrades, RowsTyped, TypeOK

LEMMA SoundTyped ==
  ASSUME TypeOK, SeriesTyped, Sound
  PROVE  TypeOK'
<1> DEFINE Typed == RowsTyped' /\ qr' \in [BookingIds -> SUBSET Token]
<1>1. ASSUME RowStep
      PROVE  Typed
  BY <1>1, RowStepTyped
<1>2. ASSUME NEW b \in BookingIds, NEW row \in Row, Edits(b, row)
      PROVE  Typed
  BY <1>2 DEF Edits, RowsTyped, TypeOK
<1>3. ASSUME NEW u \in Users \cup {NoUser}, NEW s \in SeriesIds,
             NEW t \in Template, NEW first \in {"PENDING", "CONFIRMED"},
             NEW new, NEW kept, NEW gone,
             Rewrites(u, s, t, first, new, kept, gone)
      PROVE  Typed
  BY <1>3, RewriteTyped
<1>4. ASSUME NEW B \in SUBSET BookingIds, NEW was, Downgrades(B, was)
      PROVE  Typed
  BY <1>4, DowngradeTyped
<1>5. RowsTyped' /\ qr' \in [BookingIds -> SUBSET Token]
  <2>1. SeriesRowStep
    BY DEF Sound
  <2>2. QED
    BY <1>1, <1>2, <1>3, <1>4, <2>1 DEF SeriesRowStep
<1>6. RestTyped'
  <2>1. RestTyped
    BY TypeSplit
  <2>2. QED
    BY <1>5, <2>1 DEF Sound, Settles, RestTyped, calls, jobs
<1>7. QED
  BY <1>5, <1>6, TypeSplit

LEMMA SeriesStepSound ==
  ASSUME TypeOK, SeriesTyped, MembersUnique, SeriesStep
  PROVE  Sound
BY CreateSound, EditOccurrenceSound, EditWholeSound, SplitSound, CancelSound
DEF SeriesStep

LEMMA PlanStepSound ==
  ASSUME TypeOK, SeriesTyped, MembersUnique, Undelivered, PlanStep
  PROVE  Sound
<1>1. CASE \E e \in StripeEvents : UpgradeEvent(e)
  BY <1>1, UpgradeSound
<1>2. CASE \E x \in Deliveries, e \in StripeEvents : DowngradeBegins(x, e)
  <2>1. PICK x \in Deliveries, tx \in Transaction : Prepares(x, {tx})
    BY <1>2, BeginPrepares
  <2>2. {tx} \in SUBSET Transaction
    OBVIOUS
  <2>3. QED
    BY <2>1, <2>2, PrepareSound
<1>3. CASE \E x \in Deliveries : DowngradeReads(x)
  <2>1. PICK x \in Deliveries, tx \in Transaction : Prepares(x, {tx})
    BY <1>3, ReadPrepares
  <2>2. {tx} \in SUBSET Transaction
    OBVIOUS
  <2>3. QED
    BY <2>1, <2>2, PrepareSound
<1>4. CASE \E x \in Deliveries : DowngradeCommits(x)
  BY <1>4, CommitSound
<1>5. CASE \E x \in Deliveries : DeliveryFails(x)
  <2>1. PICK x \in Deliveries : Prepares(x, {})
    BY <1>5, FailurePrepares
  <2>2. {} \in SUBSET Transaction
    OBVIOUS
  <2>3. QED
    BY <2>1, <2>2, PrepareSound
<1>6. CASE \E u \in Users : ExpireDueProAccess(u)
  BY <1>6, ExpireSound
<1>7. QED
  BY <1>1, <1>2, <1>3, <1>4, <1>5, <1>6 DEF PlanStep

\* What the inductive invariant holds of every step.
LEMMA EverySeriesStep ==
  ASSUME TypeOK, SeriesTyped, MembersUnique, Undelivered, SNext
  PROVE  SeriesRowStep /\ TypeOK' /\ SeriesTyped' /\ MembersUnique'
<1>1. CASE Next /\ UNCHANGED seriesVars
  <2>1. SeriesRowStep
    BY <1>1, EveryStep DEF SeriesRowStep
  <2>2. TypeOK'
    BY <1>1, RequestTyped, KioskTyped, JobTyped, OtherTyped DEF Next, CoreStep
  <2>3. SeriesTyped' /\ MembersUnique'
    BY <1>1, SameMembers DEF SeriesTyped, SeriesStay, seriesVars
  <2>4. QED
    BY <2>1, <2>2, <2>3
<1>2. CASE SeriesStep
  <2>1. Sound
    BY <1>2, SeriesStepSound
  <2>2. QED
    BY <2>1, SoundTyped DEF Sound
<1>3. CASE PlanStep
  <2>1. Sound
    BY <1>3, PlanStepSound
  <2>2. QED
    BY <2>1, SoundTyped DEF Sound
<1>4. QED
  BY <1>1, <1>2, <1>3 DEF SNext

LEMMA UndeliveredStays ==
  ASSUME SeriesTyped, Undelivered, TypeOK, SNext
  PROVE  Undelivered'
<1>1. CASE UNCHANGED <<processed, delivery>>
  BY <1>1 DEF Undelivered
<1>2. ASSUME NEW e \in StripeEvents, UpgradeEvent(e)
      PROVE  Undelivered'
  <2>1. /\ \A x \in Deliveries : \A tx \in delivery[x] : tx.event # e
        /\ processed' = processed \cup {e} /\ delivery' = delivery
    BY <1>2 DEF UpgradeEvent, Deliverable, Locked
  <2>2. QED
    BY <2>1 DEF Undelivered
<1>3. ASSUME NEW x \in Deliveries, NEW tx, Prepares(x, {tx}),
             tx.event \notin processed,
             \A y \in Deliveries \ {x} : \A ty \in delivery[y] :
               StripeEvent[ty.event].user # StripeEvent[tx.event].user
      PROVE  Undelivered'
  <2>1. /\ delivery'[x] = {tx} /\ processed' = processed
        /\ \A y \in Deliveries \ {x} : delivery'[y] = delivery[y]
    BY <1>3 DEF Prepares, SeriesTyped
  <2>2. QED
    BY <1>3, <2>1 DEF Undelivered
<1>4. ASSUME NEW x \in Deliveries, NEW e \in StripeEvents, DowngradeBegins(x, e)
      PROVE  Undelivered'
  <2>1. PICK tx \in Transaction : /\ tx.event = e /\ Prepares(x, {tx})
                                 /\ Deliverable(e)
    BY <1>4, BeginPrepares
  <2>2. QED
    BY <1>3, <2>1 DEF Deliverable, Locked
<1>5. ASSUME NEW x \in Deliveries, DowngradeReads(x)
      PROVE  Undelivered'
  <2>1. PICK old \in delivery[x], tx \in Transaction :
          tx.event = old.event /\ Prepares(x, {tx})
    BY <1>5, ReadPrepares
  <2>2. QED
    BY <1>3, <2>1 DEF Undelivered
<1>6. ASSUME NEW x \in Deliveries, NEW tx \in delivery[x],
             delivery' = [delivery EXCEPT ![x] = {}],
             processed' \in {processed, processed \cup {tx.event}}
      PROVE  Undelivered'
  <2>1. /\ delivery'[x] = {}
        /\ \A y \in Deliveries \ {x} : delivery'[y] = delivery[y]
    BY <1>6 DEF SeriesTyped
  <2>2. \A y \in Deliveries \ {x} : \A ty \in delivery[y] : ty.event # tx.event
    BY <1>6 DEF Undelivered
  <2>3. QED
    BY <1>6, <2>1, <2>2 DEF Undelivered
<1>7. CASE PlanStep
  <2>1. CASE \E x \in Deliveries : DowngradeCommits(x) \/ DeliveryFails(x)
    BY <1>6, <2>1 DEF DowngradeCommits, DeliveryFails
  <2>2. CASE \E u \in Users : ExpireDueProAccess(u)
    BY <1>1, <2>2 DEF ExpireDueProAccess
  <2>3. QED
    BY <1>2, <1>4, <1>5, <1>7, <2>1, <2>2 DEF PlanStep
<1>8. CASE SeriesStep
  <2>1. ASSUME NEW u, NEW s, NEW t, NEW first, NEW new, NEW kept, NEW gone,
               Rewrite(u, s, t, first, new, kept, gone)
        PROVE  UNCHANGED <<processed, delivery>>
    BY <2>1 DEF Rewrite
  <2>2. CASE \E u \in Clients, s \in SeriesIds, t \in Templates :
               CreateSeries(u, s, t)
    BY <1>1, <2>1, <2>2 DEF CreateSeries
  <2>3. CASE \E u \in Clients, b \in BookingIds, t \in Templates :
               \E d \in t.startDate..t.endDate : EditSeriesOccurrence(u, b, t, d)
    BY <1>1, <2>3 DEF EditSeriesOccurrence
  <2>4. CASE \E u \in Clients, s \in SeriesIds, t \in Templates :
               EditWholeSeries(u, s, t)
    BY <1>1, <2>1, <2>4 DEF EditWholeSeries
  <2>5. CASE \E u \in Clients, s, n \in SeriesIds, t \in Templates,
                p \in BookingIds : SplitSeries(u, s, n, t, p)
    BY <1>1, <2>1, <2>5 DEF SplitSeries
  <2>6. CASE \E u \in Clients, b \in BookingIds : CancelOccurrence(u, b)
    BY <1>1, <2>6 DEF CancelOccurrence, seriesVars
  <2>7. CASE \E u \in Clients, s \in SeriesIds : CancelEntireSeries(u, s)
    BY <1>1, <2>7 DEF CancelEntireSeries
  <2>8. CASE \E u \in Clients, s \in SeriesIds, p \in BookingIds :
               CancelFutureOccurrences(u, s, p)
    BY <1>1, <2>8 DEF CancelFutureOccurrences
  <2>9. QED
    BY <1>8, <2>2, <2>3, <2>4, <2>5, <2>6, <2>7, <2>8 DEF SeriesStep
<1>9. QED
  BY <1>1, <1>7, <1>8 DEF SNext, seriesVars

\* The inductive invariant on which the theorems below rest.
SeriesInv == TypeOK /\ SeriesTyped /\ MembersUnique /\ Undelivered

\* Series, occurrences and deliveries keep their shape; an occurrence never
\* outlives the row of its series, a series never has two occurrences for one
\* date, and no event is delivered twice at a time, whatever the order of
\* creations, edits, splits and deliveries.
THEOREM SeriesTypeCorrect == SSpec => []SeriesInv
<1>1. SInit => SeriesInv
  <2> SUFFICES ASSUME SInit PROVE SeriesInv
    OBVIOUS
  <2>1. TypeOK
    BY InitTyped DEF SInit
  <2>2. SeriesTyped
    BY DEF SInit, SeriesTyped, BlankSeries, SeriesRow, SeriesStates, NoMember,
           Member
  <2>3. MembersUnique /\ Undelivered
    BY SeriesAssumption DEF SInit, MembersUnique, Undelivered, NoMember
  <2>4. QED
    BY <2>1, <2>2, <2>3 DEF SeriesInv
<1>2. SeriesInv /\ [SNext]_allVars => SeriesInv'
  <2>1. ASSUME SeriesInv, SNext PROVE SeriesInv'
    BY <2>1, EverySeriesStep, UndeliveredStays DEF SeriesInv
  <2>2. ASSUME SeriesInv, UNCHANGED allVars PROVE SeriesInv'
    <3>1. TypeOK'
      BY <2>2 DEF SeriesInv, allVars, vars, rows, settings, calls, jobs, TypeOK
    <3>2. SeriesTyped' /\ MembersUnique' /\ Undelivered'
      BY <2>2 DEF SeriesInv, allVars, seriesVars, SeriesTyped, MembersUnique,
                  Undelivered
    <3>3. QED
      BY <3>1, <3>2 DEF SeriesInv
  <2>3. QED
    BY <2>1, <2>2
<1>3. QED
  BY <1>1, <1>2, PTL DEF SSpec

-----------------------------------------------------------------------------
(* Double bookings.                                                         *)

LEMMA SeriesRowStepClear ==
  ASSUME TypeOK, SeriesTyped, NoDoubleBooking, SeriesRowStep
  PROVE  NoDoubleBooking'
<1>1. CASE RowStep
  BY <1>1, RowStepClear
<1>2. ASSUME NEW b \in BookingIds, NEW row \in Row, Edits(b, row)
      PROVE  NoDoubleBooking'
  BY <1>2, OneNewClaim DEF Edits, TypeOK
<1>3. ASSUME NEW u \in Users \cup {NoUser}, NEW s \in SeriesIds,
             NEW t \in Template, NEW first \in {"PENDING", "CONFIRMED"},
             NEW new, NEW kept, NEW gone,
             Rewrites(u, s, t, first, new, kept, gone)
      PROVE  NoDoubleBooking'
  BY <1>3, RewriteClear
<1>4. ASSUME NEW B \in SUBSET BookingIds, NEW was, Downgrades(B, was)
      PROVE  NoDoubleBooking'
  BY <1>4, NoNewClaim DEF Downgrades, Active, ActiveStatuses
<1>5. QED
  BY <1>1, <1>2, <1>3, <1>4 DEF SeriesRowStep

\* Creations, whole-series edits and splits put many rows in place with one
\* round of checks, with the rows they replace put aside; still no room and
\* no user is ever booked twice.
THEOREM SeriesNeverDoubleBook == SSpec => []NoDoubleBooking
<1>1. SInit => NoDoubleBooking
  BY DEF SInit, Init, NoDoubleBooking, Active, ActiveStatuses
<1>2. SeriesInv /\ NoDoubleBooking /\ [SNext]_allVars => NoDoubleBooking'
  <2>1. ASSUME SeriesInv, NoDoubleBooking, SNext PROVE NoDoubleBooking'
    BY <2>1, EverySeriesStep, SeriesRowStepClear DEF SeriesInv
  <2>2. ASSUME NoDoubleBooking, UNCHANGED allVars PROVE NoDoubleBooking'
    BY <2>2, NoNewClaim DEF Active, allVars, vars, rows
  <2>3. QED
    BY <2>1, <2>2
<1>3. QED
  BY <1>1, <1>2, SeriesTypeCorrect, PTL DEF SSpec

-----------------------------------------------------------------------------
(* Tokens and check-in times.                                               *)

\* What becomes of a row that has been used: a series never touches it, and a
\* downgrade can only cancel it.
SeriesLeavesUsed ==
  \A b \in BookingIds :
    status'[b] \in {"NONE", "CHECKED_IN", "COMPLETED"} =>
      /\ status'[b] = status[b] /\ qr'[b] = qr[b]
      /\ checkedInAt'[b] = checkedInAt[b] /\ data'[b] = data[b]

LEMMA RewriteLeavesUsed ==
  ASSUME NEW u, NEW s, NEW t, NEW first \in {"PENDING", "CONFIRMED"},
         NEW new, NEW kept, NEW gone,
         Rewrites(u, s, t, first, new, kept, gone)
  PROVE  SeriesLeavesUsed
<1>1. \A b \in kept : Restored(b) \in {"PENDING", "CONFIRMED"}
  BY DEF Rewrites, Editable, EditableStatuses, Restored
<1>2. UNCHANGED checkedInAt
  BY DEF Rewrites, Rewrite
<1>3. ASSUME NEW b \in BookingIds,
             status'[b] \in {"NONE", "CHECKED_IN", "COMPLETED"}
      PROVE  b \notin DOMAIN new /\ b \notin kept /\ b \notin gone
  BY <1>1, <1>3 DEF Rewrites, Rewrite
<1>4. QED
  BY <1>2, <1>3 DEF Rewrites, Rewrite, SeriesLeavesUsed

LEMMA SeriesStepUsed ==
  ASSUME SeriesRowStep
  PROVE  \/ RowStep \/ SeriesLeavesUsed
         \/ \E b \in BookingIds, row \in Row : Edits(b, row)
<1>1. ASSUME NEW B \in SUBSET BookingIds, NEW was, Downgrades(B, was)
      PROVE  SeriesLeavesUsed
  BY <1>1 DEF Downgrades, SeriesLeavesUsed
<1>2. QED
  BY <1>1, RewriteLeavesUsed DEF SeriesRowStep

\* A used booking carries no redeemable token whatever a series, an edit of
\* an occurrence or a downgrade does around the check-in.
THEOREM SeriesNoTokenSurvives == SSpec => []NoQrAfterCheckIn
<1>1. SInit => NoTokenLeft
  BY DEF SInit, Init, NoTokenLeft
<1>2. SeriesInv /\ NoTokenLeft /\ [SNext]_allVars => NoTokenLeft'
  <2>1. ASSUME SeriesInv, NoTokenLeft, SNext PROVE NoTokenLeft'
    <3>1. TypeOK /\ SeriesRowStep
      BY <2>1, EverySeriesStep DEF SeriesInv
    <3>2. CASE SeriesLeavesUsed
      BY <2>1, <3>2 DEF SeriesLeavesUsed, NoTokenLeft
    <3>3. ASSUME NEW b \in BookingIds, NEW row \in Row, Edits(b, row)
          PROVE  NoTokenLeft'
      BY <2>1, <3>1, <3>3 DEF Edits, NoTokenLeft, TypeOK
    <3>4. QED
      BY <2>1, <3>1, <3>2, <3>3, SeriesStepUsed, RowStepTokens
  <2>2. ASSUME NoTokenLeft, UNCHANGED allVars PROVE NoTokenLeft'
    BY <2>2 DEF NoTokenLeft, allVars, vars, rows
  <2>3. QED
    BY <2>1, <2>2
<1>3. NoTokenLeft => NoQrAfterCheckIn
  BY DEF NoTokenLeft, NoQrAfterCheckIn
<1>4. QED
  BY <1>1, <1>2, <1>3, SeriesTypeCorrect, PTL DEF SSpec

\* A guest was let in during the window of the booking as it stands now,
\* although series and occurrences move it under the open request.
THEOREM SeriesCheckedInInWindow == SSpec => []CheckInWithinWindow
<1>1. SInit => CheckInWithinWindow
  BY DEF SInit, Init, CheckInWithinWindow
<1>2. SeriesInv /\ CheckInWithinWindow /\ [SNext]_allVars
        => CheckInWithinWindow'
  <2>1. ASSUME SeriesInv, CheckInWithinWindow, SNext
        PROVE  CheckInWithinWindow'
    <3>1. TypeOK /\ SeriesRowStep
      BY <2>1, EverySeriesStep DEF SeriesInv
    <3>2. CASE SeriesLeavesUsed
      BY <2>1, <3>2 DEF SeriesLeavesUsed, CheckInWithinWindow
    <3>3. ASSUME NEW b \in BookingIds, NEW row \in Row, Edits(b, row)
          PROVE  CheckInWithinWindow'
      BY <2>1, <3>1, <3>3
      DEF Edits, EditableStatuses, CheckInWithinWindow, TypeOK
    <3>4. QED
      BY <2>1, <3>1, <3>2, <3>3, SeriesStepUsed, RowStepWindow
  <2>2. ASSUME CheckInWithinWindow, UNCHANGED allVars
        PROVE  CheckInWithinWindow'
    BY <2>2 DEF CheckInWithinWindow, allVars, vars, rows
  <2>3. QED
    BY <2>1, <2>2
<1>3. QED
  BY <1>1, <1>2, SeriesTypeCorrect, PTL DEF SSpec

-----------------------------------------------------------------------------
(* The event log and the bookings that are over.                            *)

\* What RowLog says of the steps of the service.
Logs(b) ==
  \/ status'[b] = status[b] /\ events'[b] = events[b]
  \/ status[b] = "NONE" /\ Chained(status'[b], events'[b])
  \/ /\ Active(b) /\ status'[b] \in Statuses
     /\ events'[b] = Append(events[b], EventOf(status[b], status'[b]))

\* A downgrade may cancel a row that is over, and log what it was before.
LogsDowngrade(b) ==
  /\ status'[b] = "CANCELLED" /\ processed' # processed
  /\ \E was \in Statuses :
       events'[b] = Append(events[b], EventOf(was, "CANCELLED"))

LEMMA RewriteLog ==
  ASSUME TypeOK, NEW u, NEW s, NEW t, NEW first \in {"PENDING", "CONFIRMED"},
         NEW new, NEW kept, NEW gone,
         Rewrites(u, s, t, first, new, kept, gone), NEW b \in BookingIds
  PROVE  Logs(b)
<1>1. CASE b \in DOMAIN new
  <2>1. /\ status[b] = "NONE" /\ status'[b] = first
        /\ events'[b] = <<EventOf("NONE", first)>>
    BY <1>1 DEF Rewrites, Rewrite, Free
  <2>2. Chained(first, <<EventOf("NONE", first)>>)
    BY DEF Chained, EventOf
  <2>3. QED
    BY <2>1, <2>2 DEF Logs
<1>2. CASE b \notin DOMAIN new /\ b \in gone
  <2>1. b \notin kept /\ status[b] \in EditableStatuses
    BY <1>2 DEF Rewrites, Editable
  <2>2. /\ status'[b] = "CANCELLED"
        /\ events'[b] = Append(events[b], EventOf(status[b], "CANCELLED"))
    BY <1>2, <2>1 DEF Rewrites, Rewrite
  <2>3. Active(b) /\ "CANCELLED" \in Statuses
    BY <2>1 DEF EditableStatuses, Active, ActiveStatuses, Statuses
  <2>4. QED
    BY <2>2, <2>3 DEF Logs
<1>3. CASE b \notin DOMAIN new /\ b \notin gone
  <2>1. status'[b] = status[b] /\ events'[b] = events[b]
    BY <1>3 DEF Rewrites, Rewrite, Restored
  <2>2. QED
    BY <2>1 DEF Logs
<1>4. QED
  BY <1>1, <1>2, <1>3

LEMMA SeriesRowLog ==
  ASSUME TypeOK, SeriesRowStep, NEW b \in BookingIds
  PROVE  Logs(b) \/ LogsDowngrade(b)
<1>1. CASE RowStep
  BY <1>1, RowLog DEF Logs
<1>2. ASSUME NEW c \in BookingIds, NEW row \in Row, Edits(c, row)
      PROVE  Logs(b)
  BY <1>2 DEF Edits, Logs
<1>3. ASSUME NEW u \in Users \cup {NoUser}, NEW s \in SeriesIds,
             NEW t \in Template, NEW first \in {"PENDING", "CONFIRMED"},
             NEW new, NEW kept, NEW gone,
             Rewrites(u, s, t, first, new, kept, gone)
      PROVE  Logs(b)
  BY <1>3, RewriteLog
<1>4. ASSUME NEW B \in SUBSET BookingIds, NEW was, Downgrades(B, was)
      PROVE  Logs(b) \/ LogsDowngrade(b)
  <2>1. CASE b \in B
    BY <1>4, <2>1 DEF Downgrades, LogsDowngrade
  <2>2. CASE b \notin B
    BY <1>4, <2>2 DEF Downgrades, Logs
  <2>3. QED
    BY <2>1, <2>2
<1>5. QED
  BY <1>1, <1>2, <1>3, <1>4 DEF SeriesRowStep

\* The chain of one row, as LiveEventChain wants it.
LiveChained(s, e) ==
  /\ s = IF e = <<>> THEN "NONE" ELSE e[Len(e)].new
  /\ s # "CANCELLED" =>
       \A i \in 1..Len(e) : e[i].prev = IF i = 1 THEN "NONE" ELSE e[i - 1].new

LEMMA LiveOrOver ==
  ASSUME NEW s, NEW e
  PROVE  /\ s # "CANCELLED" => (LiveChained(s, e) <=> Chained(s, e))
         /\ Chained(s, e) => LiveChained(s, e)
BY DEF LiveChained, Chained

\* A row that is cancelled keeps the end of its chain.
LEMMA LastEvent ==
  ASSUME NEW e \in Seq(Event), NEW was \in Statuses
  PROVE  LiveChained("CANCELLED", Append(e, EventOf(was, "CANCELLED")))
<1> DEFINE x == EventOf(was, "CANCELLED")
           f == Append(e, x)
<1>1. x \in Event /\ x.new = "CANCELLED"
  BY DEF EventOf, Event, Statuses
<1>2. /\ Len(f) = Len(e) + 1 /\ f # <<>>
      /\ f[Len(e) + 1] = x
  <2>1. Len(f) = Len(e) + 1 /\ f[Len(e) + 1] = x
    BY <1>1
  <2>2. Len(e) \in Nat
    OBVIOUS
  <2> HIDE DEF f
  <2>3. QED
    BY <2>1, <2>2
<1> HIDE DEF x, f
<1>3. LiveChained("CANCELLED", f)
  BY <1>1, <1>2 DEF LiveChained
<1>4. QED
  BY <1>3 DEF x, f

\* The log of a live booking tells every status it had in order, although
\* whole-series edits put rows aside and bring them back and downgrades write
\* down what they read before; the last event always names the status.
THEOREM SeriesEventsChained == SSpec => []LiveEventChain
<1>0. /\ LiveEventChain <=>
           \A b \in BookingIds : LiveChained(status[b], events[b])
      /\ LiveEventChain' <=>
           \A b \in BookingIds : LiveChained(status'[b], events'[b])
  BY DEF LiveEventChain, LiveChained
<1>1. SInit => LiveEventChain
  BY <1>0 DEF SInit, Init, LiveChained
<1>2. SeriesInv /\ LiveEventChain /\ [SNext]_allVars => LiveEventChain'
  <2>1. ASSUME SeriesInv, LiveEventChain, SNext, NEW b \in BookingIds
        PROVE  LiveChained(status'[b], events'[b])
    <3>1. /\ LiveChained(status[b], events[b])
          /\ events[b] \in Seq(Event) /\ status[b] \in Statuses
      BY <1>0, <2>1 DEF SeriesInv, TypeOK
    <3>2. Logs(b) \/ LogsDowngrade(b)
      BY <2>1, EverySeriesStep, SeriesRowLog DEF SeriesInv
    <3>3. CASE status'[b] = status[b] /\ events'[b] = events[b]
      BY <3>1, <3>3
    <3>4. CASE Chained(status'[b], events'[b])
      BY <3>4, LiveOrOver
    <3>5. CASE /\ Active(b) /\ status'[b] \in Statuses
               /\ events'[b] = Append(events[b],
                                      EventOf(status[b], status'[b]))
      <4>1. Chained(status[b], events[b])
        BY <3>1, <3>5, LiveOrOver DEF Active, ActiveStatuses
      <4>2. Chained(status'[b], events'[b])
        BY <3>1, <3>5, <4>1, ChainAppend
      <4>3. QED
        BY <4>2, LiveOrOver
    <3>6. CASE LogsDowngrade(b)
      BY <3>1, <3>6, LastEvent DEF LogsDowngrade
    <3>7. QED
      BY <3>2, <3>3, <3>4, <3>5, <3>6 DEF Logs
  <2>2. CASE UNCHANGED allVars
    BY <2>2 DEF LiveEventChain, allVars, vars, rows
  <2>3. QED
    BY <1>0, <2>1, <2>2
<1>3. QED
  BY <1>1, <1>2, SeriesTypeCorrect, PTL DEF SSpec

\* A booking that is over stays what it is, whichever operation on its series
\* or end of a plan finds it: only a downgrade that read it before it was over
\* may still turn it into CANCELLED.
THEOREM SettledRowsAreLeftAlone == SSpec => SettledRowsStay
<1> DEFINE Stay(b) ==
             (status[b] \notin ActiveStatuses \cup {"NONE"}
                /\ status'[b] # status[b])
               => status'[b] = "CANCELLED" /\ processed' # processed
<1>1. ASSUME SeriesInv, SNext, NEW b \in BookingIds
      PROVE  Stay(b)
  <2>1. Logs(b) \/ LogsDowngrade(b)
    BY <1>1, EverySeriesStep, SeriesRowLog DEF SeriesInv
  <2>2. QED
    BY <2>1 DEF Logs, LogsDowngrade, Active
<1>2. SeriesInv /\ [SNext]_allVars => [\A b \in BookingIds : Stay(b)]_allVars
  BY <1>1
<1>3. QED
  BY <1>2, SeriesTypeCorrect, PTL DEF SSpec, SettledRowsStay

-----------------------------------------------------------------------------
(* Series are written whole.                                                *)

\* Every date of an operation gets a row.
LEMMA PlacementsCover ==
  ASSUME NEW D, NEW new \in Placements(D), NEW d \in D
  PROVE  \E b \in DOMAIN new : new[b] = d
<1>1. PICK B \in kSubset(Cardinality(D), Free) : new \in Bijection(B, D)
  BY DEF Placements
<1>2. QED
  BY <1>1 DEF Bijection, Surjection

\* Row b is the active booking of series s at date d, as template t has it.
Placed(s, t, d, b) ==
  /\ member'[b] = [series |-> s, date |-> d]
  /\ status'[b] \in ActiveStatuses
  /\ \E v : data'[b] = Occurrence(t, d, v)

\* Every date of series s that is still to come has its active row.
Covered(s, t) ==
  /\ Pattern(series'[s]) = <<t.room, t.startDate, t.days, t.open, t.close>>
  /\ series'[s].endDate = t.endDate
  /\ \A d \in Dates(t) : \A v : Occurrence(t, d, v).start > now
       => \E b \in BookingIds : Placed(s, t, d, b)

\* The bookings of series s at date d once the step is done.
ActiveAt(s, d) ==
  {b \in BookingIds : member'[b] = [series |-> s, date |-> d]
                      /\ status'[b] \in ActiveStatuses}

\* What SeriesWrittenWhole asks of one series and one of its dates.
WholeAt(s, d) ==
  LET due == Occurrence(series'[s], d, series'[s].owner)
      at == ActiveAt(s, d)
  IN  due.start > now =>
        /\ Cardinality(at) = 1
        /\ \A b \in at : [data'[b] EXCEPT !.user = due.user] = due

\* A row at each date is the only one there, since (series, date) is unique.
LEMMA CoveredWhole ==
  ASSUME MembersUnique', NEW s \in SeriesIds, NEW t, Covered(s, t),
         NEW d \in Dates(series'[s])
  PROVE  WholeAt(s, d)
<1> DEFINE row == series'[s]
           due == Occurrence(row, d, row.owner)
           at == ActiveAt(s, d)
<1>1. /\ row.room = t.room /\ row.startDate = t.startDate
      /\ row.days = t.days /\ row.open = t.open /\ row.close = t.close
      /\ row.endDate = t.endDate
  BY DEF Covered, Pattern
<1>2. /\ d \in Dates(t)
      /\ \A v : Occurrence(row, d, v) = Occurrence(t, d, v)
  BY <1>1 DEF Dates, Occurrence
<1> HIDE DEF row
<1>3. ASSUME due.start > now
      PROVE  /\ Cardinality(at) = 1
             /\ \A b \in at : [data'[b] EXCEPT !.user = due.user] = due
  <2>1. PICK b \in BookingIds : Placed(s, t, d, b)
    BY <1>2, <1>3 DEF Covered
  <2>2. \A c \in at : c = b
    <3>1. ASSUME NEW c \in at PROVE c = b
      <4>1. c \in BookingIds /\ member'[c] = member'[b]
            /\ member'[b].series = s
        BY <2>1 DEF Placed, ActiveAt
      <4>2. QED
        BY <4>1 DEF MembersUnique
    <3>2. QED
      BY <3>1
  <2>3. at = {b}
    BY <2>1, <2>2 DEF Placed, ActiveAt
  <2>4. Cardinality(at) = 1
    BY <2>3, FS_Singleton
  <2>5. PICK v : data'[b] = Occurrence(t, d, v)
    BY <2>1 DEF Placed
  <2>6. [data'[b] EXCEPT !.user = due.user] = due
    BY <1>2, <2>5 DEF Occurrence
  <2>7. QED
    BY <2>2, <2>4, <2>6
<1>4. QED
  BY <1>3 DEF WholeAt, row

LEMMA PatternFrom ==
  ASSUME NEW s, NEW t, NEW u, series'[s] = SeriesFrom(t, u)
  PROVE  /\ Pattern(series'[s]) = <<t.room, t.startDate, t.days, t.open, t.close>>
         /\ series'[s].endDate = t.endDate
BY DEF Pattern, SeriesFrom

\* A row created for a date is an active booking there.
LEMMA NewPlaced ==
  ASSUME NEW u, NEW s, NEW t, NEW first \in {"PENDING", "CONFIRMED"}, NEW new,
         NEW kept, NEW gone, Rewrite(u, s, t, first, new, kept, gone),
         NEW b \in BookingIds, b \in DOMAIN new
  PROVE  Placed(s, t, new[b], b)
BY DEF Rewrite, Placed, ActiveStatuses

LEMMA CreateCovers ==
  ASSUME SeriesTyped, NEW u \in Clients, NEW s \in SeriesIds,
         NEW t \in Templates, CreateSeries(u, s, t)
  PROVE  /\ Covered(s, t)
         /\ \A r \in SeriesIds \ {s} : series'[r] = series[r]
<1>1. PICK new \in Placements(Dates(t)) :
        Rewrite(u, s, t, FirstStatus(u, t.room), new, {}, {})
  BY DEF CreateSeries
<1>2. series' = [series EXCEPT ![s] = SeriesFrom(t, u)]
  BY DEF CreateSeries
<1>3. Dates(t) \in SUBSET Nat
  BY SeriesAssumption, DatesTyped
<1>4. DOMAIN new \in SUBSET BookingIds
  BY <1>1, <1>3, PlacementsTyped DEF Free
<1>5. \A d \in Dates(t) : \E b \in BookingIds : Placed(s, t, d, b)
  BY <1>1, <1>4, PlacementsCover, NewPlaced, FirstStatusTyped
<1>6. series'[s] = SeriesFrom(t, u)
  BY <1>2 DEF SeriesTyped
<1>7. QED
  BY <1>2, <1>5, <1>6, PatternFrom DEF Covered, SeriesTyped

LEMMA EditWholeCovers ==
  ASSUME SeriesTyped, NEW u \in Clients, NEW s \in SeriesIds,
         NEW patch \in Templates, EditWholeSeries(u, s, patch)
  PROVE  /\ Covered(s, Merged(patch, series[s].startDate))
         /\ \A r \in SeriesIds \ {s} : series'[r] = series[r]
<1> DEFINE t == Merged(patch, series[s].startDate)
           old == OldRows(s)
           D == {d \in Dates(t) : Occurrence(t, d, u).start > now}
           kept == {b \in old : member[b].date \in D}
           gone == old \ kept
           added == D \ DatesOf(old)
           first == FirstStatus(u, t.room)
<1>1. first \in {"PENDING", "CONFIRMED"} /\ D \in SUBSET Dates(t)
      /\ Dates(t) \in SUBSET Nat /\ added \in SUBSET D
  <2>1. t \in Template
    BY OwnerTyped, MergedTyped
  <2>2. Dates(t) \in SUBSET Nat
    BY <2>1, DatesTyped
  <2>3. QED
    BY <2>2, FirstStatusTyped
<1>2. PICK new \in Placements(added) : Rewrite(u, s, t, first, new, kept, gone)
  BY DEF EditWholeSeries
<1>3. series' = [series EXCEPT ![s] = SeriesFrom(t, series[s].owner)]
  BY DEF EditWholeSeries
<1>4. /\ \A d \in Dates(t) : \A v : Occurrence(t, d, v).start > now => d \in D
      /\ \A d \in D \ added : \E b \in kept : member[b].date = d
      /\ \A b \in kept : /\ b \in BookingIds /\ member[b].series = s
                         /\ status[b] \in EditableStatuses
  BY DEF Occurrence, DatesOf, OldRows, Editable, InSeries
<1> HIDE DEF t, D, kept, gone, added, first
<1>5. DOMAIN new \in SUBSET Free
  BY <1>1, <1>2, PlacementsTyped
<1>6. ASSUME NEW d \in added
      PROVE  \E b \in BookingIds : Placed(s, t, d, b)
  <2>1. PICK b \in DOMAIN new : new[b] = d
    BY <1>2, PlacementsCover
  <2>2. b \in BookingIds
    BY <1>5 DEF Free
  <2>3. QED
    BY <1>1, <1>2, <2>1, <2>2, NewPlaced
<1>7. ASSUME NEW d \in D \ added
      PROVE  \E b \in BookingIds : Placed(s, t, d, b)
  <2>1. PICK b \in kept : member[b].date = d
    BY <1>4
  <2>2. b \in BookingIds /\ b \notin DOMAIN new /\ status[b] \in EditableStatuses
    BY <1>4, <1>5 DEF Free, EditableStatuses
  <2>3. member[b] = [series |-> s, date |-> d]
    BY <1>4, <2>1, <2>2 DEF SeriesTyped, Member
  <2>4. /\ member'[b] = member[b] /\ status'[b] = status[b]
        /\ data'[b] = Occurrence(t, d, data[b].user)
    BY <1>2, <2>1, <2>2 DEF Rewrite, Restored
  <2>5. QED
    BY <2>2, <2>3, <2>4 DEF Placed, EditableStatuses, ActiveStatuses
<1>8. series'[s] = SeriesFrom(t, series[s].owner)
  BY <1>3 DEF SeriesTyped
<1>9. Covered(s, t)
  BY <1>4, <1>6, <1>7, <1>8, PatternFrom DEF Covered
<1>10. QED
  BY <1>3, <1>9 DEF t, SeriesTyped

LEMMA SplitCovers ==
  ASSUME SeriesTyped, NEW u \in Clients, NEW s \in SeriesIds,
         NEW n \in SeriesIds, NEW patch \in Templates, NEW p \in BookingIds,
         SplitSeries(u, s, n, patch, p)
  PROVE  /\ Covered(n, Merged(patch, member[p].date))
         /\ \A r \in SeriesIds \ {n} : Pattern(series'[r]) = Pattern(series[r])
<1> DEFINE pivot == member[p].date
           owner == series[s].owner
           t == Merged(patch, pivot)
           D == Dates(t)
           old == {b \in Editable(InSeries(s)) : member[b].date >= pivot}
           first == FirstStatus(u, t.room)
<1>1. first \in {"PENDING", "CONFIRMED"} /\ D \in SUBSET Nat
  <2>1. pivot \in Nat
    BY DEF SeriesTyped, Member
  <2>2. t \in Template
    BY <2>1, MergedTyped
  <2>3. QED
    BY <2>2, DatesTyped, FirstStatusTyped
<1>2. PICK new \in Placements(D) : Rewrite(owner, n, t, first, new, {}, old)
  BY DEF SplitSeries
<1>3. /\ series' = [series EXCEPT ![s] = CutAt(s, pivot),
                                  ![n] = SeriesFrom(t, owner)]
      /\ series[n].state = "NONE" /\ series[s].state = "ACTIVE"
  BY DEF SplitSeries, MayRewrite
<1>4. Pattern(CutAt(s, pivot)) = Pattern(series[s])
  <2>1. series[s] \in SeriesRow
    BY DEF SeriesTyped
  <2>2. QED
    BY <2>1 DEF CutAt, Pattern, SeriesRow
<1> HIDE DEF pivot, owner, t, D, old, first
<1>5. DOMAIN new \in SUBSET BookingIds
  BY <1>1, <1>2, PlacementsTyped DEF Free
<1>6. \A d \in D : \E b \in BookingIds : Placed(n, t, d, b)
  BY <1>1, <1>2, <1>5, PlacementsCover, NewPlaced
<1>7. /\ series'[n] = SeriesFrom(t, owner)
      /\ \A r \in SeriesIds \ {n} : series'[r] \in {series[r], CutAt(s, pivot)}
                                    /\ (series'[r] = series[r] \/ r = s)
  BY <1>3 DEF SeriesTyped
<1>8. Covered(n, t)
  BY <1>6, <1>7, PatternFrom DEF Covered, D
<1>9. QED
  BY <1>4, <1>7, <1>8 DEF t, pivot

\* No other operation gives a series another pattern.
PatternsStay == \A s \in SeriesIds : Pattern(series'[s]) = Pattern(series[s])

LEMMA OthersKeepPatterns ==
  ASSUME SeriesTyped
  PROVE  /\ (Next /\ UNCHANGED seriesVars) \/ PlanStep => PatternsStay
         /\ \A u \in Clients, b \in BookingIds, t \in Templates :
              \A d \in t.startDate..t.endDate :
                EditSeriesOccurrence(u, b, t, d) => PatternsStay
         /\ \A u \in Clients, b \in BookingIds :
              CancelOccurrence(u, b) => PatternsStay
         /\ \A u \in Clients, s \in SeriesIds :
              CancelEntireSeries(u, s) => PatternsStay
         /\ \A u \in Clients, s \in SeriesIds, p \in BookingIds :
              CancelFutureOccurrences(u, s, p) => PatternsStay
<1>1. /\ \A s \in SeriesIds : series[s] \in SeriesRow
      /\ \A s \in SeriesIds :
           Pattern([series[s] EXCEPT !.state = "CANCELLED"]) = Pattern(series[s])
      /\ \A s \in SeriesIds : \A pivot : Pattern(CutAt(s, pivot)) = Pattern(series[s])
  BY DEF SeriesTyped, SeriesRow, CutAt, Pattern
<1>2. ASSUME UNCHANGED series PROVE PatternsStay
  BY <1>2 DEF PatternsStay
<1>3. ASSUME NEW S, series' = [s \in SeriesIds |->
               IF s \in S THEN [series[s] EXCEPT !.state = "CANCELLED"]
               ELSE series[s]]
      PROVE  PatternsStay
  BY <1>1, <1>3 DEF PatternsStay
<1>4. ASSUME PlanStep PROVE PatternsStay
  <2>1. CASE \E x \in Deliveries : DowngradeCommits(x)
    <3>1. PICK tx : series' = [s \in SeriesIds |->
             IF s \in tx.listed /\ series[s].state = "ACTIVE"
             THEN [series[s] EXCEPT !.state = "CANCELLED"] ELSE series[s]]
      BY <2>1 DEF DowngradeCommits
    <3>2. QED
      BY <1>1, <3>1 DEF PatternsStay
  <2>2. CASE \E u \in Users : ExpireDueProAccess(u)
    <3>1. PICK u : series' = [s \in SeriesIds |->
             IF s \in ActiveSeriesOf(u)
             THEN [series[s] EXCEPT !.state = "CANCELLED"] ELSE series[s]]
      BY <2>2 DEF ExpireDueProAccess
    <3>2. QED
      BY <1>3, <3>1
  <2>3. QED
    BY <1>2, <1>4, <2>1, <2>2
    DEF PlanStep, UpgradeEvent, DowngradeBegins, DowngradeReads, DeliveryFails
<1>5. ASSUME NEW u \in Clients, NEW s \in SeriesIds, CancelEntireSeries(u, s)
      PROVE  PatternsStay
  <2>1. series' = [series EXCEPT ![s] = [series[s] EXCEPT !.state = "CANCELLED"]]
    BY <1>5 DEF CancelEntireSeries
  <2>2. QED
    BY <1>1, <2>1 DEF PatternsStay, SeriesTyped
<1>6. ASSUME NEW u \in Clients, NEW s \in SeriesIds, NEW p \in BookingIds,
             CancelFutureOccurrences(u, s, p)
      PROVE  PatternsStay
  <2>1. PICK pivot : series' = [series EXCEPT ![s] = CutAt(s, pivot)]
    BY <1>6 DEF CancelFutureOccurrences
  <2>2. QED
    BY <1>1, <2>1 DEF PatternsStay, SeriesTyped
<1>7. ASSUME UNCHANGED seriesVars PROVE PatternsStay
  BY <1>2, <1>7 DEF seriesVars
<1>8. ASSUME NEW u, NEW b, NEW t, NEW d, EditSeriesOccurrence(u, b, t, d)
      PROVE  PatternsStay
  BY <1>2, <1>8 DEF EditSeriesOccurrence
<1>9. ASSUME NEW u, NEW b, CancelOccurrence(u, b) PROVE PatternsStay
  BY <1>7, <1>9 DEF CancelOccurrence
<1>10. QED
  BY <1>4, <1>5, <1>6, <1>7, <1>8, <1>9

\* A step that gives a series a new pattern covers all its dates to come.
LEMMA NewPatternCovered ==
  ASSUME SeriesTyped, SNext, NEW s \in SeriesIds,
         Pattern(series'[s]) # Pattern(series[s])
  PROVE  \E t : Covered(s, t)
<1>1. ~PatternsStay
  BY DEF PatternsStay
<1>2. CASE \E u \in Clients, r \in SeriesIds, t \in Templates :
             CreateSeries(u, r, t)
  BY <1>2, CreateCovers
<1>3. CASE \E u \in Clients, r \in SeriesIds, t \in Templates :
             EditWholeSeries(u, r, t)
  BY <1>3, EditWholeCovers
<1>4. CASE \E u \in Clients, r, n \in SeriesIds, t \in Templates,
              p \in BookingIds : SplitSeries(u, r, n, t, p)
  BY <1>4, SplitCovers
<1>5. QED
  BY <1>1, <1>2, <1>3, <1>4, OthersKeepPatterns DEF SNext, SeriesStep

\* A series appears, or changes its pattern, only with exactly one active
\* booking at each of its dates to come, in its room and at its times: no
\* date is lost to a conflict with a row put aside, and none is booked twice.
THEOREM SeriesAreWrittenWhole == SSpec => SeriesWrittenWhole
<1>1. SeriesInv /\ SeriesInv' /\ [SNext]_allVars =>
        [\A s \in SeriesIds :
          (series'[s].state = "ACTIVE"
             /\ Pattern(series'[s]) # Pattern(series[s]))
           => \A d \in Dates(series'[s]) : WholeAt(s, d)]_allVars
  <2>1. ASSUME SeriesInv, SeriesInv', SNext, NEW s \in SeriesIds,
               Pattern(series'[s]) # Pattern(series[s]),
               NEW d \in Dates(series'[s])
        PROVE  WholeAt(s, d)
    BY <2>1, NewPatternCovered, CoveredWhole DEF SeriesInv
  <2>2. QED
    BY <2>1
<1>2. QED
  BY <1>1, SeriesTypeCorrect, PTL
  DEF SSpec, SeriesWrittenWhole, WholeAt, ActiveAt
===============================================================================
