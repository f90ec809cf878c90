----------------------------- MODULE BookingSeries -----------------------------
(***************************************************************************)
(* booking/booking-series.service.ts and the subscription that pays for it: *)
(* weekly series and their occurrences, Stripe's webhook and the job that   *)
(* ends due PRO access, on top of BookingService.                           *)
(*                                                                          *)
(* A calendar date d is a natural number, its weekday is d % WeekLength and *)
(* its times of day are ticks of the clock from d * DayLength on.  Every    *)
(* series operation and the expiry of one user is one SERIALIZABLE          *)
(* transaction and one step.  Only the webhook's transaction is READ        *)
(* COMMITTED and sees what commits between its statements: the user row is  *)
(* locked by its first update, series and occurrences are read one after    *)
(* the other, and the writes become visible at the commit.                  *)
(***************************************************************************)
EXTENDS BookingService, FiniteSetsExt, Functions

CONSTANTS
  SeriesIds, NoSeries,      \* rows the series table may come to hold
  Templates,                \* what users ask for, as series and as patches
  DayLength, WeekLength,
  MaxOccurrences, MaxSpanDays,  \* bookingSeriesLimitsFromEnv
  StripeEvents, StripeEvent,    \* event ids; [StripeEvents -> StripeRecord]
  Deliveries                    \* webhook requests in flight

Template == [room : Rooms, startDate : Nat, endDate : Nat,
             days : SUBSET (0..(WeekLength - 1)), open : Nat, close : Nat]
StripeKinds == {"checkout", "active", "ending", "inactive", "deleted"}
StripeRecord == [kind : StripeKinds, user : Users, at : Nat,
                 ends : SUBSET Nat]

\* The editor and the plan changes that BookingService leaves abstract are
\* the actions of this module.
ASSUME SeriesAssumption ==
  /\ Occurrences = {} /\ ChangingUsers = {}
  /\ NoSeries \notin SeriesIds
  /\ DayLength \in Nat \ {0} /\ WeekLength \in Nat \ {0}
  /\ Templates \subseteq Template
  /\ \A t \in Templates : t.close <= DayLength
  /\ MaxOccurrences \in Nat \ {0} /\ MaxSpanDays \in Nat \ {0}
  /\ StripeEvent \in [StripeEvents -> StripeRecord]
  \* current_period_end is one instant or absent, and never absent from a
  \* scheduled cancellation, which process() would refuse.
  /\ \A e \in StripeEvents :
       /\ Cardinality(StripeEvent[e].ends) <= 1
       /\ StripeEvent[e].kind = "ending" => StripeEvent[e].ends # {}

VARIABLES
  series,     \* [SeriesIds -> SeriesRow]
  member,     \* [BookingIds -> series id and occurrence date, if any]
  planEnds,   \* [Users -> at most one instant], plan_expires_at
  processed,  \* ids in stripe_webhook_events
  delivery    \* [Deliveries -> at most one transaction, with what it read]

seriesVars == <<series, member, planEnds, processed, delivery>>
allVars == <<vars, seriesVars>>

SeriesStates == {"NONE", "ACTIVE", "CANCELLED"}
SeriesRow == [state : SeriesStates, owner : Users \cup {NoUser},
              room : Rooms \cup {NoRoom}, startDate : Nat, endDate : Nat,
              days : SUBSET (0..(WeekLength - 1)), open : Nat, close : Nat]
BlankSeries == [state |-> "NONE", owner |-> NoUser, room |-> NoRoom,
                startDate |-> 0, endDate |-> 0, days |-> {},
                open |-> 0, close |-> 0]
NoMember == [series |-> NoSeries, date |-> 0]
Seen == [booking : BookingIds, status : Statuses]
Transaction == [event : StripeEvents, stage : {"listed", "read"},
                listed : SUBSET SeriesIds, read : SUBSET Seen]

SInit ==
  /\ Init
  /\ series = [s \in SeriesIds |-> BlankSeries]
  /\ member = [b \in BookingIds |-> NoMember]
  /\ planEnds = [u \in Users |-> {}]
  /\ processed = {}
  /\ delivery = [x \in Deliveries |-> {}]

-----------------------------------------------------------------------------
(* Weekly recurrence.                                                       *)

Weekday(date) == date % WeekLength

\* generateWeeklyOccurrences: the dates, from the first to the last one, ...
Dates(t) == {d \in t.startDate..t.endDate : Weekday(d) \in t.days}

\* ... unless it refuses the template.
ValidTemplate(t) ==
  /\ t.startDate <= t.endDate
  /\ t.open < t.close
  /\ t.endDate - t.startDate + 1 <= MaxSpanDays
  /\ Cardinality(Dates(t)) \in 1..MaxOccurrences

Occurrence(t, date, u) ==
  [user |-> u, room |-> t.room,
   start |-> date * DayLength + t.open, end |-> date * DayLength + t.close]

\* mergeTemplate: every field but the first date may be patched.
Merged(patch, startDate) == [patch EXCEPT !.startDate = startDate]

-----------------------------------------------------------------------------
(* What the operations share.                                               *)

InSeries(s) == {b \in BookingIds : member[b].series = s}
DatesOf(B) == {member[b].date : b \in B}
Editable(B) == {b \in B : status[b] \in EditableStatuses}
Free == {b \in BookingIds : status[b] = "NONE"}

\* assertProEntitlement, of the actor.
ProNow(u) == plan[u] = "PRO" /\ \A t \in planEnds[u] : t > now

MayManage(u, s) ==
  /\ series[s].state # "NONE"
  /\ u \in Admins \/ series[s].owner = u

MayRewrite(u, s) == ProNow(u) /\ MayManage(u, s) /\ series[s].state = "ACTIVE"

\* Mutant of WithinLimit: dates written earlier are not counted.
WithinLimitEach(u, D, mine, except) ==
  Role[u] = "adminRole"
    \/ \A d \in D : Cardinality(ActiveOf(u, except)) < ActiveLimit(u)

\* The limit at each date in turn: those before it are written already, and
\* the actor holds the dates of `mine'.
WithinLimit(u, D, mine, except) ==
  Role[u] = "adminRole"
    \/ \A d \in D :
         Cardinality(ActiveOf(u, except)) + Cardinality({e \in mine : e < d})
           < ActiveLimit(u)

\* Mutant of Accepted: the conflicts of single dates are not collected.
AcceptedSomeDate(u, t, D, mine, except) ==
  /\ \E d \in D : Verdict(Occurrence(t, d, u), except, FALSE) = "OK"
  /\ WithinLimit(u, D, mine, except)

\* policy.validateCreate for the actor u at every date of D, while the rows
\* of `except' are put aside.  Dates of one template never overlap.
Accepted(u, t, D, mine, except) ==
  /\ \A d \in D : Verdict(Occurrence(t, d, u), except, FALSE) = "OK"
  /\ WithinLimit(u, D, mine, except)

\* The table's constraint on users, for rows that belong to somebody else.
OwnerFree(u, t, d, except) == ~UserConflict(Occurrence(t, d, u), except)

FirstStatus(u, r) == IF AutoConfirm(u, r) THEN "CONFIRMED" ELSE "PENDING"

\* The dates D get one new row each: which row ids they take.
Placements(D) ==
  UNION {Bijection(B, D) : B \in kSubset(Cardinality(D), Free)}

\* Mutant of Restored: a row put aside is not brought back.
NotRestored(b) == "CANCELLED"

\* A row that is put aside and kept gets back the status it had.
Restored(b) == status[b]

\* The rows of an operation: `new' maps row ids to dates of template t, in
\* series s, for user u; `kept' rows move to their date of t and keep status
\* and events; `gone' rows are cancelled, their tokens left in place.
Rewrite(u, s, t, first, new, kept, gone) ==
  /\ status' = [b \in BookingIds |->
       IF b \in DOMAIN new THEN first
       ELSE IF b \in kept THEN Restored(b)
       ELSE IF b \in gone THEN "CANCELLED" ELSE status[b]]
  /\ data' = [b \in BookingIds |->
       IF b \in DOMAIN new THEN Occurrence(t, new[b], u)
       ELSE IF b \in kept THEN Occurrence(t, member[b].date, data[b].user)
       ELSE data[b]]
  /\ events' = [b \in BookingIds |->
       IF b \in DOMAIN new THEN <<EventOf("NONE", first)>>
       ELSE IF b \in gone
       THEN Append(events[b], EventOf(status[b], "CANCELLED"))
       ELSE events[b]]
  /\ member' = [b \in BookingIds |->
       IF b \in DOMAIN new THEN [series |-> s, date |-> new[b]]
       ELSE member[b]]
  /\ qr' = [b \in BookingIds |-> IF b \in kept THEN {} ELSE qr[b]]
  /\ UNCHANGED <<now, checkedInAt, issued, settings, calls, jobs,
                 planEnds, processed, delivery>>

SeriesFrom(t, u) ==
  [state |-> "ACTIVE", owner |-> u, room |-> t.room,
   startDate |-> t.startDate, endDate |-> t.endDate, days |-> t.days,
   open |-> t.open, close |-> t.close]

\* From the pivot on the series is over; all of it, if that is its start.
CutAt(s, pivot) ==
  IF pivot <= series[s].startDate
  THEN [series[s] EXCEPT !.state = "CANCELLED"]
  ELSE [series[s] EXCEPT !.endDate = pivot - 1]

-----------------------------------------------------------------------------
(* Operations of users and admins.  A preview inserts like a creation and   *)
(* rolls back.                                                              *)

CreateSeries(u, s, t) ==
  /\ series[s].state = "NONE"
  /\ ProNow(u)
  /\ ValidTemplate(t)
  /\ Accepted(u, t, Dates(t), Dates(t), {})
  /\ \E new \in Placements(Dates(t)) :
       Rewrite(u, s, t, FirstStatus(u, t.room), new, {}, {})
  /\ series' = [series EXCEPT ![s] = SeriesFrom(t, u)]

\* editOccurrence: one row moves to date d and the times and room of t.
EditSeriesOccurrence(u, b, t, d) ==
  LET s == member[b].series
  IN  /\ s \in SeriesIds
      /\ MayRewrite(u, s)
      /\ status[b] \in EditableStatuses
      /\ t.open < t.close
      /\ Verdict(Occurrence(t, d, u), {b}, FALSE) = "OK"
      /\ OwnerFree(data[b].user, t, d, {b})
      /\ d \notin DatesOf(InSeries(s) \ {b})
      /\ data' = [data EXCEPT ![b] = Occurrence(t, d, @.user)]
      /\ member' = [member EXCEPT ![b].date = d]
      /\ qr' = [qr EXCEPT ![b] = {}]
      /\ UNCHANGED <<now, status, events, checkedInAt, issued, settings, calls,
                     jobs, series, planEnds, processed, delivery>>

\* Mutant of OldRows: rows that are over are put aside too.
OldRowsAnyStatus(s) == {b \in InSeries(s) : data[b].start > now}

\* The rows a whole-series edit puts aside before it writes the new dates.
OldRows(s) == {b \in Editable(InSeries(s)) : data[b].start > now}

\* editWholeSeries: rows whose date stays are moved, missing dates are added
\* for the actor, the other rows are cancelled.  A date that the series has
\* used and given up cannot be added again: (series, date) is unique.
EditWholeSeries(u, s, patch) ==
  LET t == Merged(patch, series[s].startDate)
      old == OldRows(s)
      D == {d \in Dates(t) : Occurrence(t, d, u).start > now}
      kept == {b \in old : member[b].date \in D}
      added == D \ DatesOf(old)
      mine == added \cup DatesOf({b \in kept : data[b].user = u})
  IN  /\ MayRewrite(u, s)
      /\ ValidTemplate(t)
      /\ D # {}
      /\ Accepted(u, t, D, mine, old)
      /\ \A b \in kept : OwnerFree(data[b].user, t, member[b].date, old)
      /\ added \cap DatesOf(InSeries(s)) = {}
      /\ \E new \in Placements(added) :
           Rewrite(u, s, t, FirstStatus(u, t.room), new, kept, old \ kept)
      /\ series' = [series EXCEPT ![s] = SeriesFrom(t, @.owner)]

\* splitAndEditFuture: series n takes over from the date of row p on.  The
\* actor is asked for plan and policy, the owner gets the rows.
SplitSeries(u, s, n, patch, p) ==
  LET pivot == member[p].date
      owner == series[s].owner
      t == Merged(patch, pivot)
      D == Dates(t)
      old == {b \in Editable(InSeries(s)) : member[b].date >= pivot}
  IN  /\ p \in InSeries(s)
      /\ series[n].state = "NONE"
      /\ MayRewrite(u, s)
      /\ ValidTemplate(t)
      /\ Accepted(u, t, D, IF u = owner THEN D ELSE {}, old)
      /\ \A d \in D : OwnerFree(owner, t, d, old)
      /\ \E new \in Placements(D) :
           Rewrite(owner, n, t, FirstStatus(u, t.room), new, {}, old)
      /\ series' = [series EXCEPT ![s] = CutAt(s, pivot),
                                  ![n] = SeriesFrom(t, owner)]

CancelOccurrence(u, b) ==
  LET s == member[b].series
  IN  /\ s \in SeriesIds
      /\ MayManage(u, s)
      /\ status[b] \in EditableStatuses
      /\ Withdraw({b})
      /\ UNCHANGED <<now, issued, settings, calls, jobs, seriesVars>>

\* cancelSeries, scope ENTIRE and scope FUTURE from the date of row p.
CancelEntireSeries(u, s) ==
  /\ MayManage(u, s)
  /\ Withdraw(Editable(InSeries(s)))
  /\ series' = [series EXCEPT ![s].state = "CANCELLED"]
  /\ UNCHANGED <<now, issued, settings, calls, jobs, member, planEnds,
                 processed, delivery>>

CancelFutureOccurrences(u, s, p) ==
  LET pivot == member[p].date
  IN  /\ p \in InSeries(s)
      /\ MayManage(u, s)
      /\ Withdraw({b \in Editable(InSeries(s)) : member[b].date >= pivot})
      /\ series' = [series EXCEPT ![s] = CutAt(s, pivot)]
      /\ UNCHANGED <<now, issued, settings, calls, jobs, member, planEnds,
                     processed, delivery>>

-----------------------------------------------------------------------------
(* The end of the plan: Stripe's events, in any order and more than once,   *)
(* and the job.                                                             *)

\* The first update of a delivery locks the row of its user.
Locked(u) ==
  \E x \in Deliveries : \E tx \in delivery[x] : StripeEvent[tx.event].user = u

ActiveSeriesOf(u) ==
  {s \in SeriesIds : series[s].owner = u /\ series[s].state = "ACTIVE"}

Deliverable(e) ==
  /\ e \notin processed
  /\ StripeEvent[e].at <= now
  /\ ~Locked(StripeEvent[e].user)

\* Events that only write the user row.
UpgradeEvent(e) ==
  LET ev == StripeEvent[e]
  IN  /\ Deliverable(e)
      /\ ev.kind \in {"checkout", "active", "ending"}
      /\ plan' = [plan EXCEPT ![ev.user] = "PRO"]
      /\ planEnds' = [planEnds EXCEPT ![ev.user] =
                        IF ev.kind = "ending" THEN ev.ends ELSE {}]
      /\ processed' = processed \cup {e}
      /\ UNCHANGED <<now, rows, qr, issued, roomState, device, calls, jobs,
                     series, member, delivery>>

\* Events that end the access: the series are listed, ...
DowngradeBegins(x, e) ==
  /\ delivery[x] = {}
  /\ Deliverable(e)
  /\ StripeEvent[e].kind \in {"inactive", "deleted"}
  /\ delivery' = [delivery EXCEPT ![x] =
       {[event |-> e, stage |-> "listed",
         listed |-> ActiveSeriesOf(StripeEvent[e].user), read |-> {}]}]
  /\ UNCHANGED <<vars, series, member, planEnds, processed>>

\* ... then their occurrences from the time of the event on, ...
DowngradeReads(x) ==
  \E tx \in delivery[x] :
    /\ tx.stage = "listed"
    /\ delivery' = [delivery EXCEPT ![x] =
         {[tx EXCEPT !.stage = "read",
                     !.read = {[booking |-> b, status |-> status[b]] :
                       b \in {c \in Editable(BookingIds) :
                                /\ member[c].series \in tx.listed
                                /\ data[c].start >= StripeEvent[tx.event].at}}]}]
    /\ UNCHANGED <<vars, series, member, planEnds, processed>>

\* ... and each of them is cancelled by its id, whatever it is by then.
DowngradeCommits(x) ==
  \E tx \in delivery[x] :
    LET ev == StripeEvent[tx.event]
        B == {seen.booking : seen \in tx.read}
        was == [b \in B |->
          (CHOOSE seen \in tx.read : seen.booking = b).status]
    IN  /\ tx.stage = "read"
        /\ plan' = [plan EXCEPT ![ev.user] = "FREE"]
        /\ planEnds' = [planEnds EXCEPT ![ev.user] =
                          IF ev.kind = "inactive" THEN ev.ends ELSE {}]
        /\ status' = [b \in BookingIds |->
                        IF b \in B THEN "CANCELLED" ELSE status[b]]
        /\ events' = [b \in BookingIds |->
             IF b \in B THEN Append(events[b], EventOf(was[b], "CANCELLED"))
             ELSE events[b]]
        /\ qr' = [b \in BookingIds |-> IF b \in B THEN {} ELSE qr[b]]
        /\ series' = [s \in SeriesIds |->
             IF s \in tx.listed /\ series[s].state = "ACTIVE"
             THEN [series[s] EXCEPT !.state = "CANCELLED"] ELSE series[s]]
        /\ processed' = processed \cup {tx.event}
        /\ delivery' = [delivery EXCEPT ![x] = {}]
        /\ UNCHANGED <<now, data, checkedInAt, issued, roomState, device,
                       calls, jobs, member>>

\* The transaction is rolled back, with the event id: Stripe asks again.
DeliveryFails(x) ==
  /\ delivery[x] # {}
  /\ delivery' = [delivery EXCEPT ![x] = {}]
  /\ UNCHANGED <<vars, series, member, planEnds, processed>>

\* One user of expireDueProAccess, by the clock of the job's start.
ExpireDueProAccess(u) ==
  /\ plan[u] = "PRO" /\ ~Locked(u)
  /\ \E at \in 0..now :
       /\ \E t \in planEnds[u] : t <= at
       /\ Withdraw({b \in Editable(BookingIds) :
                      /\ member[b].series \in ActiveSeriesOf(u)
                      /\ data[b].start >= at})
  /\ plan' = [plan EXCEPT ![u] = "FREE"]
  /\ planEnds' = [planEnds EXCEPT ![u] = {}]
  /\ series' = [s \in SeriesIds |->
       IF s \in ActiveSeriesOf(u) THEN [series[s] EXCEPT !.state = "CANCELLED"]
       ELSE series[s]]
  /\ UNCHANGED <<now, issued, roomState, device, calls, jobs, member,
                 processed, delivery>>

-----------------------------------------------------------------------------
SeriesStep ==
  \/ \E u \in Clients, s \in SeriesIds, t \in Templates : CreateSeries(u, s, t)
  \/ \E u \in Clients, b \in BookingIds, t \in Templates :
       \E d \in t.startDate..t.endDate : EditSeriesOccurrence(u, b, t, d)
  \/ \E u \in Clients, s \in SeriesIds, t \in Templates :
       EditWholeSeries(u, s, t)
  \/ \E u \in Clients, s, n \in SeriesIds, t \in Templates, p \in BookingIds :
       SplitSeries(u, s, n, t, p)
  \/ \E u \in Clients, b \in BookingIds : CancelOccurrence(u, b)
  \/ \E u \in Clients, s \in SeriesIds : CancelEntireSeries(u, s)
  \/ \E u \in Clients, s \in SeriesIds, p \in BookingIds :
       CancelFutureOccurrences(u, s, p)

PlanStep ==
  \/ \E e \in StripeEvents : UpgradeEvent(e)
  \/ \E x \in Deliveries, e \in StripeEvents : DowngradeBegins(x, e)
  \/ \E x \in Deliveries :
       DowngradeReads(x) \/ DowngradeCommits(x) \/ DeliveryFails(x)
  \/ \E u \in Users : ExpireDueProAccess(u)

SNext == (Next /\ UNCHANGED seriesVars) \/ SeriesStep \/ PlanStep

SSpec == SInit /\ [][SNext]_allVars

-----------------------------------------------------------------------------
(* Properties.                                                              *)

\* The log of a booking that is not cancelled tells every status it had, in
\* order, although whole-series edits put rows aside and bring them back;
\* the last event always names the status.
LiveEventChain ==
  \A b \in BookingIds :
    LET e == events[b]
    IN  /\ status[b] = IF e = <<>> THEN "NONE" ELSE e[Len(e)].new
        /\ status[b] # "CANCELLED" =>
             \A i \in 1..Len(e) :
               e[i].prev = IF i = 1 THEN "NONE" ELSE e[i - 1].new

\* A booking that is over is over (README: terminal states cannot return to
\* active states), whichever series operation finds it among its rows.  Only
\* a downgrade that read it before may still turn it into CANCELLED.
SettledRowsStay ==
  [][\A b \in BookingIds :
       (status[b] \notin ActiveStatuses \cup {"NONE"} /\ status'[b] # status[b])
         => status'[b] = "CANCELLED" /\ processed' # processed]_allVars

\* Whoever gains active bookings stays within the limit of plan and role,
\* with all dates of a series counted, unless an admin replaces the rest of
\* somebody's series: then the admin's limit is asked.
SeriesLimitRespected ==
  [][\A u \in Users :
       LET held == {b \in BookingIds : Active(b) /\ data[b].user = u}
           holds == {b \in BookingIds : status'[b] \in ActiveStatuses
                                         /\ data'[b].user = u}
       IN  (/\ Cardinality(holds) > Cardinality(held)
            /\ Role[u] # "adminRole"
            /\ Cardinality(holds) > ActiveLimit(u))
             => \E a \in Admins, s, n \in SeriesIds, t \in Templates,
                   p \in BookingIds :
                  series[s].owner = u /\ SplitSeries(a, s, n, t, p)]_allVars

\* What a series says apart from how long it runs.
Pattern(row) == <<row.room, row.startDate, row.days, row.open, row.close>>

\* A series appears, or changes its pattern, only with one active booking at
\* each of its dates to come, in its room and at its times: no date is lost
\* to a conflict and none is booked twice (README: atomic creation).
SeriesWrittenWhole ==
  [][\A s \in SeriesIds :
       (series'[s].state = "ACTIVE" /\ Pattern(series'[s]) # Pattern(series[s]))
         => \A d \in Dates(series'[s]) :
              LET due == Occurrence(series'[s], d, series'[s].owner)
                  at == {b \in BookingIds : member'[b] = [series |-> s, date |-> d]
                                            /\ status'[b] \in ActiveStatuses}
              IN  due.start > now =>
                    /\ Cardinality(at) = 1
                    /\ \A b \in at : [data'[b] EXCEPT !.user = due.user] = due]_allVars

\* Recurrence needs PRO (README: available only while an individual Pro
\* entitlement is active; a downgrade cancels active series plus future
\* active occurrences).
RecurrenceNeedsPro ==
  \A u \in Users, s \in SeriesIds :
    (plan[u] = "FREE" /\ series[s].owner = u) =>
      /\ series[s].state # "ACTIVE"
      /\ \A b \in Editable(InSeries(s)) : data[b].start < now
=============================================================================
