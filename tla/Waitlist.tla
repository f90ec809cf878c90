------------------------------- MODULE Waitlist -------------------------------
(***************************************************************************)
(* The waitlist of booking/booking.service.ts on top of BookingService:     *)
(* users queue for an occupied slot, a cancellation or rejection offers the *)
(* slot it frees, and the promotion job offers every slot that is waited    *)
(* for.  promoteWaitlist reads the queue of one slot outside any            *)
(* transaction and then tries one candidate per SERIALIZABLE transaction,   *)
(* so several executions may work on the same queue at once.                *)
(*                                                                          *)
(* Entry ids are in createdAt order.                                        *)
(***************************************************************************)
EXTENDS BookingService

CONSTANTS
  MaxEntries,     \* entries that may come to exist
  Releases,       \* cancel and reject requests in flight
  Sweeps,         \* executions of promoteDueWaitlist in flight
  SweepTake, PromoteTake    \* `take' of the job's and of a slot's query

ASSUME WaitlistAssumption ==
  /\ MaxEntries \in Nat
  /\ Releases \cap Sweeps = {}
  /\ SweepTake \in Nat \ {0} /\ PromoteTake \in Nat \ {0}
  \* Rows made by a promotion are no occurrences of a series.
  /\ Occurrences = {}

VARIABLES
  entry,        \* [EntryIds -> EntryStatuses]
  wants,        \* [EntryIds -> Row]: who waits, and for what
  promotedTo,   \* [EntryIds -> bookings made from the entry]
  loop          \* [Releases \cup Sweeps -> Loop]: executions in flight

waitVars == <<entry, wants, promotedTo, loop>>
allVars == <<vars, waitVars>>

EntryIds == 1..MaxEntries
EntryStatuses == {"NONE", "WAITING", "PROMOTED", "CANCELLED", "EXPIRED"}
Loops == Releases \cup Sweeps

SlotKey == [room : Rooms \cup {NoRoom}, start : Nat, end : Nat]

KeyOf(row) == [room |-> row.room, start |-> row.start, end |-> row.end]

\* What an execution holds: the booking it is about to cancel, the entries
\* it read as past due, the slot it is visiting with the candidates left and
\* those policy turned down, and for each slot still to visit the entry
\* that has waited longest for it.
Loop == [phase : {"idle", "cancel", "expire", "visit"}, at : Nat,
         target : SUBSET BookingIds, expiring : SUBSET EntryIds,
         slot : SlotKey, cands : SUBSET EntryIds, skipped : SUBSET EntryIds,
         todo : SUBSET EntryIds]
Idle == [phase |-> "idle", at |-> 0, target |-> {}, expiring |-> {},
         slot |-> KeyOf(Blank), cands |-> {}, skipped |-> {}, todo |-> {}]

WInit ==
  /\ Init
  /\ entry = [e \in EntryIds |-> "NONE"]
  /\ wants = [e \in EntryIds |-> Blank]
  /\ promotedTo = [e \in EntryIds |-> {}]
  /\ loop = [p \in Loops |-> Idle]

WaitingFor(key) ==
  {e \in EntryIds : entry[e] = "WAITING" /\ KeyOf(wants[e]) = key}

\* Mutant of FirstOf: descending order.
LastOf(S) == {e \in S : \A f \in S : f <= e}

\* The entry whose turn it is.
FirstOf(S) == {e \in S : \A f \in S : e <= f}

\* findMany ordered by createdAt, with a take.
Oldest(S, take) == {e \in S : Cardinality({f \in S : f < e}) < take}

-----------------------------------------------------------------------------
JoinWaitlist(u, r, s) ==
  LET req == [user |-> u, room |-> r, start |-> s.start, end |-> s.end]
  IN  /\ Verdict(req, {}, TRUE) = "OK"
      /\ plan[u] = "PRO"
      /\ RoomConflict(req, {})
      /\ ~\E e \in WaitingFor(KeyOf(req)) : wants[e].user = u
      /\ \E e \in EntryIds :
           /\ entry[e] = "NONE" /\ \A f \in 1..(e - 1) : entry[f] # "NONE"
           /\ entry' = [entry EXCEPT ![e] = "WAITING"]
           /\ wants' = [wants EXCEPT ![e] = req]
      /\ UNCHANGED <<vars, promotedTo, loop>>

\* The conditional update; an entry that is no longer waiting stays.
LeaveWaitlist(u, e) ==
  /\ entry[e] = "WAITING" /\ wants[e].user = u
  /\ entry' = [entry EXCEPT ![e] = "CANCELLED"]
  /\ UNCHANGED <<vars, wants, promotedTo, loop>>

\* cancelBooking reads the row, and with it the slot it will offer, ...
CancelRead(p, u, b) ==
  /\ loop[p] = Idle
  /\ status[b] # "NONE" /\ (u \in Admins \/ data[b].user = u)
  /\ loop' = [loop EXCEPT ![p].phase = "cancel", ![p].target = {b},
                          ![p].slot = KeyOf(data[b])]
  /\ UNCHANGED <<vars, entry, wants, promotedTo>>

\* ... then cancels, and only a committed cancellation goes on to promote.
CancelCommit(p) ==
  /\ loop[p].phase = "cancel"
  /\ \E b \in loop[p].target :
       \/ /\ \E u \in Clients : CancelBooking(u, b)
          /\ loop' = [loop EXCEPT ![p].phase = "visit", ![p].target = {}]
       \/ /\ ~CanMove(status[b], "CANCELLED")
          /\ loop' = [loop EXCEPT ![p] = Idle]
          /\ UNCHANGED vars
  /\ UNCHANGED <<entry, wants, promotedTo>>

\* rejectBooking offers the slot of the row it has just updated.
RejectAndOffer(p, b) ==
  /\ loop[p] = Idle
  /\ RejectBooking(b)
  /\ loop' = [loop EXCEPT ![p].phase = "visit",
                          ![p].slot = KeyOf(data[b])]
  /\ UNCHANGED <<entry, wants, promotedTo>>

\* promoteDueWaitlist: first the entries whose slot has begun ...
SweepStart(p) ==
  /\ loop[p] = Idle
  /\ \E e \in EntryIds : entry[e] = "WAITING"
  /\ loop' = [loop EXCEPT ![p].phase = "expire", ![p].at = now,
       ![p].expiring = Oldest({e \in EntryIds :
          entry[e] = "WAITING" /\ wants[e].start <= now}, SweepTake)]
  /\ UNCHANGED <<vars, entry, wants, promotedTo>>

\* Mutant of MayExpire: the update has no condition on the status.
MayExpireAnyway(e, at) == wants[e].start <= at

MayExpire(e, at) == entry[e] = "WAITING" /\ wants[e].start <= at

ExpireWaitlistEntry(p) ==
  /\ loop[p].phase = "expire"
  /\ \E e \in FirstOf(loop[p].expiring) :
       /\ entry' = IF MayExpire(e, loop[p].at)
                   THEN [entry EXCEPT ![e] = "EXPIRED"] ELSE entry
       /\ loop' = [loop EXCEPT ![p].expiring = @ \ {e}]
  /\ UNCHANGED <<vars, wants, promotedTo>>

\* The execution w after it turned to the first slot of S, or ended.
TurnTo(w, S) ==
  IF S = {} THEN {Idle}
  ELSE {[w EXCEPT !.phase = "visit", !.slot = KeyOf(wants[e]), !.cands = {},
                  !.skipped = {}, !.todo = S \ {e}] : e \in FirstOf(S)}

SlotDone(w) == TurnTo(w, w.todo)

\* ... then the distinct slots waited for, oldest entry first.
SweepSlots(p) ==
  /\ loop[p].phase = "expire" /\ loop[p].expiring = {}
  /\ LET later == {e \in EntryIds :
                     entry[e] = "WAITING" /\ wants[e].start > loop[p].at}
         firsts == {e \in later : \A f \in later :
                      KeyOf(wants[f]) = KeyOf(wants[e]) => e <= f}
     IN  \E w \in TurnTo(loop[p], Oldest(firsts, SweepTake)) :
           loop' = [loop EXCEPT ![p] = w]
  /\ UNCHANGED <<vars, entry, wants, promotedTo>>

\* promoteWaitlist: the candidates of the slot are read ...
ReadCandidates(p) ==
  /\ loop[p].phase = "visit" /\ loop[p].cands = {}
  /\ LET picked == Oldest(WaitingFor(loop[p].slot), PromoteTake)
     IN  \E w \in IF picked = {} THEN SlotDone(loop[p])
                  ELSE {[loop[p] EXCEPT !.cands = picked]} :
           loop' = [loop EXCEPT ![p] = w]
  /\ UNCHANGED <<vars, entry, wants, promotedTo>>

\* These verdicts end the visit: nobody can have the slot.
SlotUnavailable == {"ROOM_OVERLAP", "ROOM_INACTIVE", "ROOM_CLOSED"}

\* Mutant of NextCandidate: `return' instead of `continue'.
NextCandidateNever(w, e, skipped) == SlotDone(w)

\* The execution after candidate e was passed over.
NextCandidate(w, e, skipped) ==
  IF w.cands = {e} THEN SlotDone(w)
  ELSE {[w EXCEPT !.cands = @ \ {e}, !.skipped = @ \cup skipped]}

\* Mutant of StillWaiting: the list read before is trusted.
WasWaiting(e) == TRUE

StillWaiting(e) == entry[e] = "WAITING"

\* The candidate gets the slot: a confirmed booking and its PROMOTED entry.
Promote(e) ==
  /\ \E b \in BookingIds :
       /\ Insert(b, wants[e], <<"CONFIRMED">>)
       /\ promotedTo' = [promotedTo EXCEPT ![e] = @ \cup {b}]
  /\ entry' = [entry EXCEPT ![e] = "PROMOTED"]
  /\ UNCHANGED <<now, checkedInAt, qr, issued, settings, calls, jobs>>

\* ... and tried one by one, each in a transaction that reads its entry and
\* what policy looks at anew.
TryCandidate(p) ==
  /\ loop[p].phase = "visit"
  /\ \E e \in FirstOf(loop[p].cands) :
       LET w == loop[p]
           verdict == Verdict(wants[e], {}, FALSE)
           GoesOn(next) == \E n \in next : loop' = [loop EXCEPT ![p] = n]
       IN  \/ /\ StillWaiting(e) /\ verdict = "OK"
              /\ Promote(e) /\ GoesOn(SlotDone(w))
           \/ /\ ~StillWaiting(e)
              /\ GoesOn(NextCandidate(w, e, {}))
              /\ UNCHANGED <<vars, entry, promotedTo>>
           \/ /\ StillWaiting(e) /\ verdict \in SlotUnavailable
              /\ GoesOn(SlotDone(w))
              /\ UNCHANGED <<vars, entry, promotedTo>>
           \/ /\ StillWaiting(e) /\ verdict \notin SlotUnavailable \cup {"OK"}
              /\ GoesOn(NextCandidate(w, e, {e}))
              /\ UNCHANGED <<vars, entry, promotedTo>>
  /\ UNCHANGED wants

\* A database error or a crash ends the execution where it is.
LoopFails(p) ==
  /\ loop[p] # Idle
  /\ faults < MaxFaults
  /\ faults' = faults + 1
  /\ loop' = [loop EXCEPT ![p] = Idle]
  /\ UNCHANGED <<now, rows, qr, issued, settings, calls, expireDue,
                 completeDue, entry, wants, promotedTo>>

-----------------------------------------------------------------------------
LoopStep(p) ==
  ExpireWaitlistEntry(p) \/ SweepSlots(p) \/ ReadCandidates(p)
  \/ TryCandidate(p)

SweepStep == \E p \in Sweeps : SweepStart(p) \/ LoopStep(p)

ReleaseRequest ==
  \E p \in Releases :
    \/ \E u \in Clients, b \in BookingIds : CancelRead(p, u, b)
    \/ CancelCommit(p)
    \/ \E b \in BookingIds : RejectAndOffer(p, b)
    \/ LoopStep(p)

QueueStep ==
  \/ \E u \in Clients, r \in Rooms, s \in Slots : JoinWaitlist(u, r, s)
  \/ \E u \in Clients, e \in EntryIds : LeaveWaitlist(u, e)

WNext ==
  \/ CoreStep /\ UNCHANGED waitVars
  \/ QueueStep
  \/ ReleaseRequest
  \/ SweepStep
  \/ \E p \in Loops : LoopFails(p)

WSpec == WInit /\ [][WNext]_allVars

\* The promotion job is a durable job that runs again and again (module
\* BackgroundJobs); a slot may be far away, so that time need not pass.
FairWSpec == WSpec /\ WF_allVars(SweepStep)

-----------------------------------------------------------------------------
(* Properties.                                                              *)

\* An entry has made a booking exactly if it is PROMOTED, then one, for the
\* user and the slot it waited for; no booking stems from two entries.
OneBookingPerPromotion ==
  /\ \A e \in EntryIds :
       /\ (entry[e] = "PROMOTED") = (promotedTo[e] # {})
       /\ \A b, c \in promotedTo[e] : b = c
       /\ \A b \in promotedTo[e] : status[b] # "NONE" /\ data[b] = wants[e]
  /\ \A e, f \in EntryIds : e # f => promotedTo[e] \cap promotedTo[f] = {}

\* Whoever left the queue, was served or came too late is not touched again,
\* although other executions still hold the entry in the lists they read.
SettledEntriesStay ==
  [][\A e \in EntryIds :
       entry[e] \in {"PROMOTED", "CANCELLED", "EXPIRED"}
         => entry'[e] = entry[e] /\ promotedTo'[e] = promotedTo[e]]_allVars

\* A slot goes to the oldest entry waiting for it, except past those that
\* booking policy turned down during the same visit.
OldestFirst ==
  [][\A p \in Loops, e \in EntryIds :
       (loop'[p] # loop[p] /\ entry[e] = "WAITING" /\ entry'[e] = "PROMOTED")
         => \A f \in WaitingFor(KeyOf(wants[e])) :
              f < e => f \in loop[p].skipped]_allVars

\* With the promotions too, bookings follow the README's state machine.
LifecycleSpecW == LifecycleSpec

\* A free slot does not stay free while an entry that policy would accept
\* waits for it: whatever release was lost, the job promotes somebody.
FreeSlotOffered ==
  []<>(\A e \in EntryIds :
         ~(/\ entry[e] = "WAITING"
           /\ Verdict(wants[e], {}, FALSE) = "OK"
           /\ \E b \in BookingIds : status[b] = "NONE"))
=============================================================================
