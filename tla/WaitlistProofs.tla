----------------------------- MODULE WaitlistProofs -----------------------------
(***************************************************************************)
(* Theorems about Waitlist, for every value of its constants.               *)
(*                                                                          *)
(* Of the bookings, a step of this module does what a step of               *)
(* BookingService does or what a promotion does, so that the kinds of steps *)
(* of BookingServiceProofs serve here too.  Of the queue, one entry at a    *)
(* time joins, leaves, expires or is promoted (EntryStep), while the        *)
(* executions hold on to lists they read long ago; what these lists still   *)
(* say of the queue is the invariant Pending.                               *)
(***************************************************************************)
EXTENDS Waitlist, BookingServiceProofs, FiniteSetTheorems

\* The types of the queue and of the executions.
WaitTyped ==
  /\ entry \in [EntryIds -> EntryStatuses]
  /\ wants \in [EntryIds -> Row]
  /\ promotedTo \in [EntryIds -> SUBSET BookingIds]
  /\ loop \in [Loops -> Loop]

-----------------------------------------------------------------------------
(* What an execution does, one lemma per step of it.                        *)

LEMMA IdleTyped == Idle \in Loop /\ Idle.cands = {}
<1>1. KeyOf(Blank) \in SlotKey
  BY DEF KeyOf, Blank, SlotKey
<1>2. QED
  BY <1>1 DEF Idle, Loop

\* An execution turned to another slot, or ended: it holds no candidate.
LEMMA TurnToTyped ==
  ASSUME WaitTyped, NEW w \in Loop, NEW S \in SUBSET EntryIds,
         NEW n \in TurnTo(w, S)
  PROVE  n \in Loop /\ n.cands = {}
<1>1. \A row \in Row : KeyOf(row) \in SlotKey
  BY DEF Row, KeyOf, SlotKey
<1>2. CASE S = {}
  BY <1>2, IdleTyped DEF TurnTo
<1>3. CASE S # {}
  <2>1. PICK e \in S :
          n = [w EXCEPT !.phase = "visit", !.slot = KeyOf(wants[e]),
                        !.cands = {}, !.skipped = {}, !.todo = S \ {e}]
    BY <1>3 DEF TurnTo, FirstOf
  <2>2. KeyOf(wants[e]) \in SlotKey
    BY <1>1 DEF WaitTyped
  <2>3. QED
    BY <2>1, <2>2 DEF Loop
<1>4. QED
  BY <1>2, <1>3

LEMMA SlotDoneTyped ==
  ASSUME WaitTyped, NEW w \in Loop, NEW n \in SlotDone(w)
  PROVE  n \in Loop /\ n.cands = {}
<1>1. w.todo \in SUBSET EntryIds
  BY DEF Loop
<1>2. QED
  BY <1>1, TurnToTyped DEF SlotDone

\* Candidate e was passed over, for one of two reasons.
Passes(w, e, n) ==
  /\ n.cands = w.cands \ {e} /\ n.slot = w.slot
  /\ \/ n.skipped = w.skipped \cup {e}
     \/ entry[e] # "WAITING" /\ n.skipped = w.skipped

LEMMA NextCandidateTyped ==
  ASSUME WaitTyped, NEW w \in Loop, NEW e \in EntryIds,
         NEW skipped \in SUBSET {e},
         skipped = {e} \/ (skipped = {} /\ entry[e] # "WAITING"),
         NEW n \in NextCandidate(w, e, skipped)
  PROVE  n \in Loop /\ (n.cands = {} \/ Passes(w, e, n))
<1>1. CASE w.cands = {e}
  BY <1>1, SlotDoneTyped DEF NextCandidate
<1>2. CASE w.cands # {e}
  <2>1. n = [w EXCEPT !.cands = w.cands \ {e},
                      !.skipped = w.skipped \cup skipped]
    BY <1>2 DEF NextCandidate
  <2>2. /\ n.cands = w.cands \ {e} /\ n.slot = w.slot
        /\ n.skipped = w.skipped \cup skipped
    BY <2>1 DEF Loop
  <2>3. n \in Loop
    BY <2>1 DEF Loop
  <2>4. QED
    BY <2>2, <2>3 DEF Passes
<1>3. QED
  BY <1>1, <1>2

-----------------------------------------------------------------------------
(* What a step does to the queue and to the executions.                     *)

\* The transaction of a candidate that is given the slot.
Promotion(e) ==
  /\ StillWaiting(e) /\ Verdict(wants[e], {}, FALSE) = "OK"
  /\ Promote(e)
  /\ UNCHANGED wants

Joins(e) ==
  /\ entry[e] = "NONE" /\ \A f \in 1..(e - 1) : entry[f] # "NONE"
  /\ entry' = [entry EXCEPT ![e] = "WAITING"]
  /\ \E req \in Row : wants' = [wants EXCEPT ![e] = req]
  /\ UNCHANGED promotedTo

Ends(e) ==
  /\ entry[e] = "WAITING"
  /\ \E to \in {"CANCELLED", "EXPIRED"} : entry' = [entry EXCEPT ![e] = to]
  /\ UNCHANGED <<wants, promotedTo>>

EntryStep ==
  \/ UNCHANGED <<entry, wants, promotedTo>>
  \/ \E e \in EntryIds : Joins(e) \/ Ends(e) \/ Promotion(e)

\* Execution p goes from w to n: it drops its candidates, keeps them, reads
\* them, or passes one over.
Advances(w, n) ==
  \/ n.cands = {}
  \/ n.cands = w.cands /\ n.slot = w.slot /\ n.skipped = w.skipped
  \/ /\ UNCHANGED <<entry, wants>>
     /\ n.slot = w.slot
     /\ n.cands = Oldest(WaitingFor(w.slot), PromoteTake)
  \/ /\ UNCHANGED <<entry, wants>>
     /\ \E e \in FirstOf(w.cands) : Passes(w, e, n)

\* A promotion is the first candidate's; other steps touch no queue entry's
\* booking.
Executes(p) ==
  \E n \in Loop :
    /\ loop' = [loop EXCEPT ![p] = n]
    /\ Advances(loop[p], n)
    /\ \/ UNCHANGED <<entry, wants, promotedTo>>
       \/ \E e \in EntryIds : Ends(e) /\ entry'[e] = "EXPIRED"
       \/ \E e \in EntryIds : Promotion(e) /\ e \in FirstOf(loop[p].cands)

LEMMA TryExecutes ==
  ASSUME WaitTyped, NEW p \in Loops, TryCandidate(p)
  PROVE  Executes(p) /\ (UNCHANGED vars \/ \E e \in EntryIds : Promotion(e))
<1> DEFINE w == loop[p]
<1>1. w \in Loop /\ w.cands \in SUBSET EntryIds
  BY DEF WaitTyped, Loop
<1>2. PICK e \in FirstOf(w.cands) :
        \/ /\ Promotion(e)
           /\ \E n \in SlotDone(w) : loop' = [loop EXCEPT ![p] = n]
        \/ /\ entry[e] # "WAITING"
           /\ \E n \in NextCandidate(w, e, {}) :
                loop' = [loop EXCEPT ![p] = n]
           /\ UNCHANGED <<vars, entry, wants, promotedTo>>
        \/ /\ \E n \in SlotDone(w) : loop' = [loop EXCEPT ![p] = n]
           /\ UNCHANGED <<vars, entry, wants, promotedTo>>
        \/ /\ \E n \in NextCandidate(w, e, {e}) :
                loop' = [loop EXCEPT ![p] = n]
           /\ UNCHANGED <<vars, entry, wants, promotedTo>>
  BY DEF TryCandidate, StillWaiting, Promotion
<1>3. e \in EntryIds
  BY <1>1 DEF FirstOf
<1>4. CASE /\ \E n \in SlotDone(w) : loop' = [loop EXCEPT ![p] = n]
           /\ Promotion(e) \/ UNCHANGED <<vars, entry, wants, promotedTo>>
  BY <1>1, <1>2, <1>3, <1>4, SlotDoneTyped DEF Executes, Advances
<1>5. ASSUME NEW skipped \in SUBSET {e},
             skipped = {e} \/ (skipped = {} /\ entry[e] # "WAITING"),
             \E n \in NextCandidate(w, e, skipped) :
               loop' = [loop EXCEPT ![p] = n],
             UNCHANGED <<vars, entry, wants, promotedTo>>
      PROVE  Executes(p)
  <2>1. PICK n \in NextCandidate(w, e, skipped) :
          loop' = [loop EXCEPT ![p] = n]
    BY <1>5
  <2>2. n \in Loop /\ (n.cands = {} \/ Passes(w, e, n))
    BY <1>1, <1>3, <1>5, NextCandidateTyped
  <2>3. QED
    BY <1>5, <2>1, <2>2 DEF Executes, Advances
<1>6. QED
  BY <1>2, <1>3, <1>4, <1>5

LEMMA LoopExecutes ==
  ASSUME WaitTyped, NEW p \in Loops, LoopStep(p)
  PROVE  Executes(p) /\ (UNCHANGED vars \/ \E e \in EntryIds : Promotion(e))
<1>1. loop[p] \in Loop
  BY DEF WaitTyped
<1>2. CASE ExpireWaitlistEntry(p)
  <2>1. PICK e \in FirstOf(loop[p].expiring) :
          /\ entry' = IF MayExpire(e, loop[p].at)
                      THEN [entry EXCEPT ![e] = "EXPIRED"] ELSE entry
          /\ loop' = [loop EXCEPT ![p].expiring = @ \ {e}]
    BY <1>2 DEF ExpireWaitlistEntry
  <2>2. e \in EntryIds
    BY <1>1 DEF Loop, FirstOf
  <2> DEFINE n == [loop[p] EXCEPT !.expiring = @ \ {e}]
  <2>3. loop' = [loop EXCEPT ![p] = n]
    BY <2>1
  <2>4. n \in Loop /\ Advances(loop[p], n)
    BY <1>1 DEF Loop, Advances
  <2>5. UNCHANGED <<vars, wants, promotedTo>>
    BY <1>2 DEF ExpireWaitlistEntry
  <2>6. entry' = entry \/ (Ends(e) /\ entry'[e] = "EXPIRED")
    BY <2>1, <2>2, <2>5 DEF MayExpire, Ends, WaitTyped
  <2> HIDE DEF n
  <2>7. QED
    BY <2>2, <2>3, <2>4, <2>5, <2>6 DEF Executes
<1>3. CASE SweepSlots(p)
  <2>1. UNCHANGED <<vars, entry, wants, promotedTo>>
    BY <1>3 DEF SweepSlots
  <2>2. PICK S \in SUBSET EntryIds :
          \E n \in TurnTo(loop[p], S) : loop' = [loop EXCEPT ![p] = n]
    BY <1>3 DEF SweepSlots, Oldest
  <2>3. PICK n \in TurnTo(loop[p], S) : loop' = [loop EXCEPT ![p] = n]
    BY <2>2
  <2>4. n \in Loop /\ n.cands = {}
    BY <1>1, TurnToTyped
  <2>5. QED
    BY <2>1, <2>3, <2>4 DEF Executes, Advances
<1>4. CASE ReadCandidates(p)
  <2> DEFINE picked == Oldest(WaitingFor(loop[p].slot), PromoteTake)
  <2>1. UNCHANGED <<vars, entry, wants, promotedTo>>
    BY <1>4 DEF ReadCandidates
  <2>2. PICK n \in IF picked = {} THEN SlotDone(loop[p])
                   ELSE {[loop[p] EXCEPT !.cands = picked]} :
          loop' = [loop EXCEPT ![p] = n]
    BY <1>4 DEF ReadCandidates
  <2>3. CASE picked = {}
    BY <1>1, <2>1, <2>2, <2>3, SlotDoneTyped DEF Executes, Advances
  <2>4. CASE picked # {}
    <3>1. picked \in SUBSET EntryIds
      BY DEF Oldest, WaitingFor
    <3> HIDE DEF picked
    <3>2. n = [loop[p] EXCEPT !.cands = picked]
      BY <2>2, <2>4
    <3>3. n \in Loop /\ n.slot = loop[p].slot /\ n.cands = picked
      BY <1>1, <3>1, <3>2 DEF Loop
    <3>4. QED
      BY <2>1, <2>2, <3>3 DEF Executes, Advances, picked
  <2>5. QED
    BY <2>1, <2>3, <2>4
<1>5. CASE TryCandidate(p)
  BY <1>5, TryExecutes
<1>6. QED
  BY <1>2, <1>3, <1>4, <1>5 DEF LoopStep, ExpireWaitlistEntry, SweepSlots,
                                ReadCandidates

\* A failure costs an execution and writes nothing.
Failure ==
  /\ faults' = faults + 1
  /\ UNCHANGED <<now, rows, qr, issued, settings, calls, expireDue,
                 completeDue>>

ServiceStep ==
  \/ Next
  \/ UNCHANGED vars
  \/ Failure
  \/ \E e \in EntryIds : Promotion(e)

LEMMA QueueStepKind ==
  ASSUME WaitTyped, QueueStep
  PROVE  EntryStep /\ UNCHANGED <<vars, loop>>
<1>1. ASSUME NEW u \in Clients, NEW r \in Rooms, NEW s \in Slots,
             JoinWaitlist(u, r, s)
      PROVE  EntryStep /\ UNCHANGED <<vars, loop>>
  <2> DEFINE req == [user |-> u, room |-> r, start |-> s.start, end |-> s.end]
  <2>1. req \in Row
    BY ServiceAssumption DEF Row, Clients
  <2>2. PICK e \in EntryIds :
          /\ entry[e] = "NONE" /\ \A f \in 1..(e - 1) : entry[f] # "NONE"
          /\ entry' = [entry EXCEPT ![e] = "WAITING"]
          /\ wants' = [wants EXCEPT ![e] = req]
    BY <1>1 DEF JoinWaitlist
  <2> HIDE DEF req
  <2>3. UNCHANGED <<vars, promotedTo, loop>>
    BY <1>1 DEF JoinWaitlist
  <2>4. QED
    BY <2>1, <2>2, <2>3 DEF Joins, EntryStep
<1>2. ASSUME NEW u \in Clients, NEW e \in EntryIds, LeaveWaitlist(u, e)
      PROVE  EntryStep /\ UNCHANGED <<vars, loop>>
  BY <1>2 DEF LeaveWaitlist, Ends, EntryStep
<1>3. QED
  BY <1>1, <1>2 DEF QueueStep

LEMMA ReleaseKind ==
  ASSUME TypeOK, WaitTyped, ReleaseRequest
  PROVE  (\E p \in Loops : Executes(p)) /\ ServiceStep
<1>1. PICK p \in Releases :
        \/ \E u \in Clients, b \in BookingIds : CancelRead(p, u, b)
        \/ CancelCommit(p)
        \/ \E b \in BookingIds : RejectAndOffer(p, b)
        \/ LoopStep(p)
  BY DEF ReleaseRequest
<1>2. p \in Loops /\ loop[p] \in Loop
  BY DEF Loops, WaitTyped
<1>3. \A b \in BookingIds : KeyOf(data[b]) \in SlotKey
  BY DEF TypeOK, Row, KeyOf, SlotKey
<1>4. ASSUME NEW u \in Clients, NEW b \in BookingIds, CancelRead(p, u, b)
      PROVE  Executes(p) /\ ServiceStep
  <2> DEFINE n == [loop[p] EXCEPT !.phase = "cancel", !.target = {b},
                                  !.slot = KeyOf(data[b])]
  <2>1. loop' = [loop EXCEPT ![p] = n] /\ loop[p].cands = {}
    BY <1>4, IdleTyped DEF CancelRead
  <2>2. n \in Loop /\ n.cands = loop[p].cands
    BY <1>2, <1>3 DEF Loop
  <2> HIDE DEF n
  <2>3. QED
    BY <1>4, <2>1, <2>2 DEF CancelRead, Executes, Advances, ServiceStep
<1>5. CASE CancelCommit(p)
  <2>1. PICK b \in loop[p].target :
          \/ /\ \E u \in Clients : CancelBooking(u, b)
             /\ loop' = [loop EXCEPT ![p].phase = "visit", ![p].target = {}]
          \/ /\ loop' = [loop EXCEPT ![p] = Idle]
             /\ UNCHANGED vars
    BY <1>5 DEF CancelCommit
  <2>2. b \in BookingIds /\ UNCHANGED <<entry, wants, promotedTo>>
    BY <1>2, <1>5 DEF Loop, CancelCommit
  <2>3. ServiceStep
    BY <2>1, <2>2 DEF ServiceStep, Next, ReleaseStep
  <2>4. CASE loop' = [loop EXCEPT ![p] = Idle]
    BY <1>2, <2>2, <2>3, <2>4, IdleTyped DEF Executes, Advances
  <2>5. CASE loop' = [loop EXCEPT ![p].phase = "visit", ![p].target = {}]
    <3> DEFINE n == [loop[p] EXCEPT !.phase = "visit", !.target = {}]
    <3>1. loop' = [loop EXCEPT ![p] = n]
      BY <2>5
    <3>2. /\ n \in Loop /\ n.cands = loop[p].cands
          /\ n.slot = loop[p].slot /\ n.skipped = loop[p].skipped
      BY <1>2 DEF Loop
    <3> HIDE DEF n
    <3>3. QED
      BY <1>2, <2>2, <2>3, <3>1, <3>2 DEF Executes, Advances
  <2>6. QED
    BY <2>1, <2>4, <2>5, <2>3
<1>6. ASSUME NEW b \in BookingIds, RejectAndOffer(p, b)
      PROVE  Executes(p) /\ ServiceStep
  <2> DEFINE n == [loop[p] EXCEPT !.phase = "visit", !.slot = KeyOf(data[b])]
  <2>1. loop' = [loop EXCEPT ![p] = n] /\ loop[p].cands = {}
    BY <1>6, IdleTyped DEF RejectAndOffer
  <2>2. n \in Loop /\ n.cands = loop[p].cands
    BY <1>2, <1>3 DEF Loop
  <2> HIDE DEF n
  <2>3. ServiceStep /\ UNCHANGED <<entry, wants, promotedTo>>
    BY <1>6 DEF RejectAndOffer, ServiceStep, Next, ReleaseStep
  <2>4. QED
    BY <2>1, <2>2, <2>3 DEF Executes, Advances
<1>7. CASE LoopStep(p)
  BY <1>2, <1>7, LoopExecutes DEF ServiceStep
<1>8. QED
  BY <1>1, <1>2, <1>4, <1>5, <1>6, <1>7

LEMMA SweepKind ==
  ASSUME TypeOK, WaitTyped, SweepStep
  PROVE  (\E p \in Loops : Executes(p)) /\ ServiceStep
<1>1. PICK p \in Sweeps : SweepStart(p) \/ LoopStep(p)
  BY DEF SweepStep
<1>2. p \in Loops /\ loop[p] \in Loop
  BY <1>1 DEF Loops, WaitTyped
<1>3. CASE SweepStart(p)
  <2> DEFINE E == Oldest({e \in EntryIds :
                entry[e] = "WAITING" /\ wants[e].start <= now}, SweepTake)
             n == [loop[p] EXCEPT !.phase = "expire", !.at = now,
                                  !.expiring = E]
  <2>1. loop' = [loop EXCEPT ![p] = n] /\ loop[p].cands = {}
    BY <1>3, IdleTyped DEF SweepStart
  <2>2. E \in SUBSET EntryIds
    BY DEF Oldest
  <2> HIDE DEF E
  <2>3. n \in Loop /\ n.cands = loop[p].cands
    BY <1>2, <2>2 DEF Loop, TypeOK
  <2> HIDE DEF n
  <2>4. QED
    BY <1>2, <1>3, <2>1, <2>3
    DEF SweepStart, Executes, Advances, ServiceStep
<1>4. QED
  BY <1>1, <1>2, <1>3, LoopExecutes DEF ServiceStep

LEMMA FailureKind ==
  ASSUME NEW p \in Loops, LoopFails(p)
  PROVE  Executes(p) /\ ServiceStep
BY IdleTyped DEF LoopFails, Executes, Advances, ServiceStep, Failure

\* Every step, as seen by the queue, by the executions and by the bookings.
LEMMA EveryWaitStep ==
  ASSUME TypeOK, WaitTyped, WNext
  PROVE  /\ EntryStep
         /\ UNCHANGED loop \/ \E p \in Loops : Executes(p)
         /\ ServiceStep
<1>1. CASE CoreStep /\ UNCHANGED waitVars
  BY <1>1 DEF waitVars, EntryStep, ServiceStep, Next
<1>2. CASE QueueStep
  BY <1>2, QueueStepKind DEF ServiceStep
<1>3. ASSUME \E p \in Loops : Executes(p)
      PROVE  EntryStep
  BY <1>3 DEF Executes, EntryStep
<1>4. QED
  BY <1>1, <1>2, <1>3, ReleaseKind, SweepKind, FailureKind DEF WNext

-----------------------------------------------------------------------------
(* The bookings.                                                            *)

\* A promotion registers a confirmed booking like any other.
LEMMA PromotionRegisters ==
  ASSUME TypeOK, NEW e \in EntryIds, Promotion(e)
  PROVE  \E b \in BookingIds :
           /\ Registers(b, wants[e], <<"CONFIRMED">>)
           /\ promotedTo' = [promotedTo EXCEPT ![e] = @ \cup {b}]
           /\ status[b] = "NONE" /\ data'[b] = wants[e]
<1>1. PICK b \in BookingIds :
        /\ Insert(b, wants[e], <<"CONFIRMED">>)
        /\ promotedTo' = [promotedTo EXCEPT ![e] = @ \cup {b}]
  BY DEF Promotion, Promote
<1>2. UNCHANGED <<checkedInAt, qr>>
  BY DEF Promotion, Promote
<1>3. /\ ~UserConflict(wants[e], {}) /\ ~RoomConflict(wants[e], {})
      /\ ~AtLimit(wants[e].user, {})
  BY VerdictClear DEF Promotion
<1>4. QED
  BY <1>1, <1>2, <1>3 DEF Registers, Insert, TypeOK

LEMMA ServiceRowStep ==
  ASSUME TypeOK, WaitTyped, ServiceStep
  PROVE  RowStep
<1>1. CASE UNCHANGED vars \/ Failure
  BY <1>1 DEF vars, rows, Failure, Keeps, RowStep
<1>2. ASSUME NEW e \in EntryIds, Promotion(e)
      PROVE  RowStep
  <2>1. wants[e] \in Row /\ <<"CONFIRMED">> \in Paths
    BY DEF WaitTyped, Paths
  <2>2. QED
    BY <1>2, <2>1, PromotionRegisters DEF RowStep
<1>3. QED
  BY <1>1, <1>2, EveryStep DEF ServiceStep

LEMMA ServiceTyped ==
  ASSUME TypeOK, WaitTyped, ServiceStep
  PROVE  TypeOK'
<1>1. CASE Next
  BY <1>1, RequestTyped, KioskTyped, JobTyped, OtherTyped DEF Next, CoreStep
<1>2. CASE UNCHANGED vars \/ Failure
  BY <1>2 DEF vars, rows, settings, calls, jobs, Failure, TypeOK
<1>3. ASSUME NEW e \in EntryIds, Promotion(e)
      PROVE  TypeOK'
  <2>1. PICK b \in BookingIds : Insert(b, wants[e], <<"CONFIRMED">>)
    BY <1>3 DEF Promotion, Promote
  <2>2. wants[e] \in Row /\ <<"CONFIRMED">> \in Paths
    BY DEF WaitTyped, Paths
  <2>3. RowsTyped /\ UNCHANGED checkedInAt
    BY <1>3, TypeSplit DEF Promotion, Promote
  <2>4. RowsTyped'
    BY <2>1, <2>2, <2>3, InsertTyped
  <2>5. RestTyped'
    BY <1>3, TypeSplit
    DEF Promotion, Promote, RestTyped, settings, calls, jobs
  <2>6. QED
    BY <2>4, <2>5, TypeSplit
<1>4. QED
  BY <1>1, <1>2, <1>3 DEF ServiceStep

LEMMA QueueTyped ==
  ASSUME WaitTyped, EntryStep,
         UNCHANGED loop \/ \E p \in Loops : Executes(p)
  PROVE  WaitTyped'
<1>1. loop' \in [Loops -> Loop]
  BY DEF WaitTyped, Executes
<1>2. ASSUME NEW e \in EntryIds, Joins(e) \/ Ends(e)
      PROVE  /\ entry' \in [EntryIds -> EntryStatuses]
             /\ wants' \in [EntryIds -> Row]
             /\ promotedTo' \in [EntryIds -> SUBSET BookingIds]
  BY <1>2 DEF WaitTyped, Joins, Ends, EntryStatuses
<1>3. ASSUME NEW e \in EntryIds, Promotion(e)
      PROVE  /\ entry' \in [EntryIds -> EntryStatuses]
             /\ wants' \in [EntryIds -> Row]
             /\ promotedTo' \in [EntryIds -> SUBSET BookingIds]
  BY <1>3 DEF WaitTyped, Promotion, Promote, EntryStatuses
<1>4. QED
  BY <1>1, <1>2, <1>3 DEF EntryStep, WaitTyped

\* Every variable of the service and of the queue keeps its shape.
THEOREM QueueTypeCorrect == WSpec => [](TypeOK /\ WaitTyped)
<1>1. WInit => TypeOK /\ WaitTyped
  <2>1. ASSUME WInit PROVE WaitTyped
    <3>1. Blank \in Row
      BY DEF Blank, Row
    <3>2. QED
      BY <2>1, <3>1, IdleTyped DEF WInit, WaitTyped, EntryStatuses
  <2>2. QED
    BY <2>1, InitTyped DEF WInit
<1>2. TypeOK /\ WaitTyped /\ [WNext]_allVars => (TypeOK /\ WaitTyped)'
  <2>1. ASSUME TypeOK, WaitTyped, WNext PROVE (TypeOK /\ WaitTyped)'
    BY <2>1, EveryWaitStep, ServiceTyped, QueueTyped
  <2>2. ASSUME TypeOK, WaitTyped, UNCHANGED allVars
        PROVE  (TypeOK /\ WaitTyped)'
    BY <2>2 DEF allVars, waitVars, vars, rows, settings, calls, jobs, TypeOK,
                WaitTyped
  <2>3. QED
    BY <2>1, <2>2
<1>3. QED
  BY <1>1, <1>2, PTL DEF WSpec

\* Promotions, tried by several executions at once from lists they read
\* outside the transaction, double-book nothing either.
THEOREM PromotionsNeverDoubleBook == WSpec => []NoDoubleBooking
<1>1. WInit => NoDoubleBooking
  BY DEF WInit, Init, NoDoubleBooking, Active, ActiveStatuses
<1>2. TypeOK /\ WaitTyped /\ NoDoubleBooking /\ [WNext]_allVars
        => NoDoubleBooking'
  <2>1. ASSUME TypeOK, WaitTyped, NoDoubleBooking, WNext
        PROVE  NoDoubleBooking'
    BY <2>1, EveryWaitStep, ServiceRowStep, RowStepClear
  <2>2. ASSUME NoDoubleBooking, UNCHANGED allVars PROVE NoDoubleBooking'
    BY <2>2, NoNewClaim DEF Active, allVars, vars, rows
  <2>3. QED
    BY <2>1, <2>2
<1>3. QED
  BY <1>1, <1>2, QueueTypeCorrect, PTL DEF WSpec

\* A promotion gives no used row a token: what the service promises of
\* check-ins holds with the queue around it.
THEOREM PromotionsKeepCheckIns ==
  WSpec => [](NoQrAfterCheckIn /\ CheckInWithinWindow)
<1> DEFINE Used == NoTokenLeft /\ CheckInWithinWindow
<1>1. WInit => Used
  BY DEF WInit, Init, NoTokenLeft, CheckInWithinWindow
<1>2. TypeOK /\ WaitTyped /\ Used /\ [WNext]_allVars => Used'
  <2>1. ASSUME TypeOK, WaitTyped, Used, WNext PROVE Used'
    BY <2>1, EveryWaitStep, ServiceRowStep, RowStepTokens, RowStepWindow
  <2>2. ASSUME Used, UNCHANGED allVars PROVE Used'
    BY <2>2 DEF NoTokenLeft, CheckInWithinWindow, allVars, vars, rows
  <2>3. QED
    BY <2>1, <2>2
<1>3. Used => NoQrAfterCheckIn /\ CheckInWithinWindow
  BY DEF NoTokenLeft, NoQrAfterCheckIn
<1> HIDE DEF Used
<1>4. QED
  BY <1>1, <1>2, <1>3, QueueTypeCorrect, PTL DEF WSpec

\* With the promotions too, every booking follows the state machine of the
\* README and its event log is the trail of the statuses passed through.
THEOREM PromotionsImplementLifecycle == WSpec => LifecycleSpecW
<1>1. WInit => Lifecycle!Init
  BY DEF WInit, Init, Lifecycle!Init, Trails, Trail
<1>2. TypeOK /\ WaitTyped /\ [WNext]_allVars
        => [Lifecycle!Next]_(Lifecycle!vars)
  <2>1. ASSUME TypeOK, WaitTyped, WNext
        PROVE  Lifecycle!Next \/ UNCHANGED Lifecycle!vars
    BY <2>1, EveryWaitStep, ServiceRowStep, RowStepImplements
  <2>2. ASSUME UNCHANGED allVars PROVE UNCHANGED Lifecycle!vars
    BY <2>2 DEF allVars, vars, rows, Lifecycle!vars, Trails
  <2>3. QED
    BY <2>1, <2>2
<1>3. QED
  BY <1>1, <1>2, QueueTypeCorrect, PTL
  DEF WSpec, LifecycleSpecW, LifecycleSpec, Lifecycle!Spec

-----------------------------------------------------------------------------
(* The queue.                                                               *)

\* Whoever left the queue, was served or came too late is not touched again,
\* although other executions still hold the entry in the lists they read.
THEOREM SettledEntriesAreLeftAlone == WSpec => SettledEntriesStay
<1> DEFINE Stays == \A e \in EntryIds :
             entry[e] \in {"PROMOTED", "CANCELLED", "EXPIRED"}
               => entry'[e] = entry[e] /\ promotedTo'[e] = promotedTo[e]
<1>1. TypeOK /\ WaitTyped /\ [WNext]_allVars => [Stays]_allVars
  <2> SUFFICES ASSUME TypeOK, WaitTyped, WNext
               PROVE  Stays
    OBVIOUS
  <2>1. EntryStep
    BY EveryWaitStep
  <2>2. ASSUME NEW f \in EntryIds, Joins(f) \/ Ends(f) PROVE Stays
    BY <2>2 DEF Joins, Ends, WaitTyped
  <2>3. ASSUME NEW f \in EntryIds, Promotion(f) PROVE Stays
    BY <2>3 DEF Promotion, Promote, StillWaiting, WaitTyped
  <2>4. QED
    BY <2>1, <2>2, <2>3 DEF EntryStep
<1>2. QED
  BY <1>1, QueueTypeCorrect, PTL DEF WSpec, SettledEntriesStay

\* A row that exists keeps its place: only an occurrence of a series moves.
LEMMA PlaceStays ==
  ASSUME TypeOK, WaitTyped, ServiceStep, NEW b \in BookingIds,
         status[b] # "NONE"
  PROVE  status'[b] # "NONE" /\ data'[b] = data[b]
<1>1. CASE Keeps
  BY <1>1 DEF Keeps
<1>2. ASSUME NEW c \in BookingIds, NEW req \in Row, NEW path \in Paths,
             Registers(c, req, path)
      PROVE  status'[b] # "NONE" /\ data'[b] = data[b]
  BY <1>2 DEF Registers, Insert, TypeOK
<1>3. ASSUME NEW c \in BookingIds, NEW to \in Statuses, MovesTo(c, to)
      PROVE  status'[b] # "NONE" /\ data'[b] = data[b]
  BY <1>3 DEF MovesTo, SetStatus, CanMove, TypeOK
<1>4. ASSUME NEW B \in SUBSET BookingIds, Withdraws(B)
      PROVE  status'[b] # "NONE" /\ data'[b] = data[b]
  BY <1>4 DEF Withdraws, Withdraw
<1>5. QED
  BY <1>1, <1>2, <1>3, <1>4, ServiceRowStep, WaitlistAssumption
  DEF RowStep, Edits

\* However many executions hold an entry in their lists, it is promoted once,
\* into a booking of the user and the slot it waited for.
THEOREM PromotedOnce == WSpec => []OneBookingPerPromotion
<1>1. WInit => OneBookingPerPromotion
  BY DEF WInit, OneBookingPerPromotion
<1>2. ASSUME TypeOK, WaitTyped, OneBookingPerPromotion, WNext
      PROVE  OneBookingPerPromotion'
  <2>1. EntryStep /\ ServiceStep
    BY <1>2, EveryWaitStep
  <2>2. \A b \in BookingIds : status[b] # "NONE" =>
          status'[b] # "NONE" /\ data'[b] = data[b]
    BY <1>2, <2>1, PlaceStays
  <2>3. CASE UNCHANGED <<entry, wants, promotedTo>>
    BY <1>2, <2>2, <2>3 DEF OneBookingPerPromotion, WaitTyped
  <2>4. ASSUME NEW e \in EntryIds, Joins(e) \/ Ends(e)
        PROVE  OneBookingPerPromotion'
    BY <1>2, <2>2, <2>4 DEF OneBookingPerPromotion, Joins, Ends, WaitTyped
  <2>5. ASSUME NEW e \in EntryIds, Promotion(e)
        PROVE  OneBookingPerPromotion'
    <3>1. PICK b \in BookingIds :
            /\ promotedTo' = [promotedTo EXCEPT ![e] = @ \cup {b}]
            /\ status[b] = "NONE" /\ data'[b] = wants[e]
            /\ Registers(b, wants[e], <<"CONFIRMED">>)
      BY <1>2, <2>5, PromotionRegisters
    <3>2. status'[b] # "NONE"
      BY <1>2, <3>1 DEF Registers, Insert, TypeOK
    <3>3. promotedTo[e] = {}
      BY <1>2, <2>5 DEF OneBookingPerPromotion, Promotion, StillWaiting
    <3>4. \A f \in EntryIds : b \notin promotedTo[f]
      BY <1>2, <3>1 DEF OneBookingPerPromotion
    <3>5. /\ entry' = [entry EXCEPT ![e] = "PROMOTED"]
          /\ UNCHANGED wants
      BY <2>5 DEF Promotion, Promote
    <3>6. \A f \in EntryIds :
            promotedTo'[f] = IF f = e THEN {b} ELSE promotedTo[f]
      BY <1>2, <3>1, <3>3 DEF WaitTyped
    <3>7. \A f \in EntryIds :
            entry'[f] = IF f = e THEN "PROMOTED" ELSE entry[f]
      BY <1>2, <3>5 DEF WaitTyped
    <3>8. QED
      BY <1>2, <2>2, <3>1, <3>2, <3>4, <3>5, <3>6, <3>7
      DEF OneBookingPerPromotion, WaitTyped
  <2>6. QED
    BY <2>1, <2>3, <2>4, <2>5 DEF EntryStep
<1>3. ASSUME OneBookingPerPromotion, UNCHANGED allVars
      PROVE  OneBookingPerPromotion'
  BY <1>3 DEF OneBookingPerPromotion, allVars, waitVars, vars, rows
<1>4. QED
  BY <1>1, <1>2, <1>3, QueueTypeCorrect, PTL DEF WSpec

-----------------------------------------------------------------------------
(* First come, first served.                                                *)

\* Entries come to exist in the order of their ids.
NoGaps ==
  \A e, f \in EntryIds : f < e /\ entry[e] # "NONE" => entry[f] # "NONE"

\* What the list of an execution says of the queue, however old it is: its
\* candidates were waiting for the slot, and whoever still waits for it and
\* is older than one of them is a candidate too or was turned down.
Pending(w) ==
  /\ \A c \in w.cands : entry[c] # "NONE" /\ KeyOf(wants[c]) = w.slot
  /\ \A c \in w.cands, f \in WaitingFor(w.slot) :
       f < c => f \in w.cands \cup w.skipped

QueueInv == NoGaps /\ \A p \in Loops : Pending(loop[p])

\* The query that reads the candidates leaves out no older one.
LEMMA OldestIsPrefix ==
  ASSUME NEW S \in SUBSET EntryIds, NEW take \in Nat,
         NEW c \in Oldest(S, take), NEW f \in S, f < c
  PROVE  f \in Oldest(S, take)
<1> DEFINE Below(x) == {g \in S : g < x}
<1>1. IsFiniteSet(S)
  <2>1. IsFiniteSet(EntryIds)
    BY WaitlistAssumption, FS_Interval DEF EntryIds
  <2>2. QED
    BY <2>1, FS_Subset
<1>2. IsFiniteSet(Below(c)) /\ IsFiniteSet(Below(f))
  BY <1>1, FS_Subset
<1>3. Below(f) \subseteq Below(c)
  <2>1. c \in Int /\ f \in Int /\ \A g \in S : g \in Int
    BY WaitlistAssumption DEF Oldest, EntryIds
  <2>2. \A g \in S : g < f => g < c
    BY <2>1
  <2>3. QED
    BY <2>2
<1>4. /\ Cardinality(Below(f)) \in Nat /\ Cardinality(Below(c)) \in Nat
      /\ Cardinality(Below(f)) <= Cardinality(Below(c))
  BY <1>2, <1>3, FS_CardinalityType, FS_Subset
<1>5. Cardinality(Below(c)) < take
  BY DEF Oldest
<1>6. Cardinality(Below(f)) < take
  BY <1>4, <1>5
<1>7. QED
  BY <1>6 DEF Oldest

\* A list stays true of the queue while others work on it: an entry that
\* joins is younger than every candidate.
LEMMA PendingStays ==
  ASSUME WaitTyped, NoGaps, EntryStep, NEW w \in Loop, Pending(w)
  PROVE  Pending(w)'
<1>1. w.cands \in SUBSET EntryIds
  BY DEF Loop
<1>2. CASE UNCHANGED <<entry, wants, promotedTo>>
  BY <1>2 DEF Pending, WaitingFor
<1>3. ASSUME NEW e \in EntryIds, Joins(e)
      PROVE  Pending(w)'
  <2>1. \A c \in w.cands : c # e /\ c < e
    <3>1. \A c \in w.cands : entry[c] # "NONE" /\ entry[e] = "NONE"
      BY <1>3 DEF Pending, Joins
    <3>2. QED
      BY <1>1, <3>1, WaitlistAssumption DEF NoGaps, EntryIds
  <2>2. \A f \in EntryIds : f # e => entry'[f] = entry[f] /\ wants'[f] = wants[f]
    BY <1>3 DEF Joins, WaitTyped
  <2>3. \A c \in w.cands, f \in EntryIds : f < c => f # e
    BY <1>1, <2>1, WaitlistAssumption DEF EntryIds
  <2>4. QED
    BY <1>1, <2>1, <2>2, <2>3 DEF Pending, WaitingFor
<1>4. ASSUME NEW e \in EntryIds, Ends(e) \/ Promotion(e)
      PROVE  Pending(w)'
  <2>1. /\ UNCHANGED wants
        /\ \A f \in EntryIds : f # e => entry'[f] = entry[f]
        /\ entry'[e] \in {"CANCELLED", "EXPIRED", "PROMOTED"}
    BY <1>4 DEF Ends, Promotion, Promote, WaitTyped
  <2>2. QED
    BY <1>1, <2>1 DEF Pending, WaitingFor
<1>5. QED
  BY <1>2, <1>3, <1>4 DEF EntryStep

\* What an execution does keeps its own list true.
LEMMA PendingAdvances ==
  ASSUME WaitTyped, NoGaps, EntryStep, NEW w \in Loop, NEW n \in Loop,
         Pending(w), Advances(w, n)
  PROVE  Pending(n)'
<1>1. CASE n.cands = {}
  BY <1>1 DEF Pending
<1>2. CASE n.cands = w.cands /\ n.slot = w.slot /\ n.skipped = w.skipped
  BY <1>2, PendingStays DEF Pending, WaitingFor
<1>3. CASE /\ UNCHANGED <<entry, wants>>
           /\ n.slot = w.slot
           /\ n.cands = Oldest(WaitingFor(w.slot), PromoteTake)
  <2>1. WaitingFor(w.slot) \in SUBSET EntryIds
    BY DEF WaitingFor
  <2>2. \A c \in n.cands, f \in WaitingFor(w.slot) : f < c => f \in n.cands
    BY <1>3, <2>1, OldestIsPrefix, WaitlistAssumption
  <2>3. \A c \in n.cands : entry[c] # "NONE" /\ KeyOf(wants[c]) = w.slot
    BY <1>3 DEF Oldest, WaitingFor
  <2>4. QED
    BY <1>3, <2>2, <2>3 DEF Pending, WaitingFor
<1>4. CASE /\ UNCHANGED <<entry, wants>>
           /\ \E e \in FirstOf(w.cands) : Passes(w, e, n)
  <2>1. PICK e \in w.cands : Passes(w, e, n)
    BY <1>4 DEF FirstOf
  <2>2. \A f \in WaitingFor(w.slot) :
          f \in w.cands \cup w.skipped => f \in n.cands \cup n.skipped
    BY <2>1 DEF Passes, WaitingFor
  <2>3. QED
    BY <1>4, <2>1, <2>2 DEF Pending, Passes, WaitingFor
<1>5. QED
  BY <1>1, <1>2, <1>3, <1>4 DEF Advances

LEMMA QueueInvStays ==
  ASSUME WaitTyped, QueueInv, EntryStep,
         UNCHANGED loop \/ \E p \in Loops : Executes(p)
  PROVE  QueueInv'
<1>1. NoGaps'
  <2>1. CASE UNCHANGED <<entry, wants, promotedTo>>
    BY <2>1 DEF QueueInv, NoGaps
  <2>2. ASSUME NEW e \in EntryIds, Joins(e) PROVE NoGaps'
    <3>1. \A f \in EntryIds : f < e => entry[f] # "NONE"
      BY <2>2, WaitlistAssumption DEF Joins, EntryIds
    <3>2. QED
      BY <2>2, <3>1 DEF QueueInv, NoGaps, Joins, WaitTyped
  <2>3. ASSUME NEW e \in EntryIds, Ends(e) \/ Promotion(e) PROVE NoGaps'
    <3>1. /\ entry[e] # "NONE" /\ entry'[e] # "NONE"
          /\ \A f \in EntryIds : f # e => entry'[f] = entry[f]
      BY <2>3 DEF Ends, Promotion, Promote, StillWaiting, WaitTyped
    <3>2. QED
      BY <3>1 DEF QueueInv, NoGaps
  <2>4. QED
    BY <2>1, <2>2, <2>3 DEF EntryStep
<1>2. \A p \in Loops : Pending(loop[p])'
  <2> SUFFICES ASSUME NEW p \in Loops PROVE Pending(loop[p])'
    OBVIOUS
  <2>1. loop[p] \in Loop /\ Pending(loop[p])
    BY DEF WaitTyped, QueueInv
  <2>2. CASE loop'[p] = loop[p]
    <3>1. \A w \in Loop : Pending(w) => Pending(w)'
      BY PendingStays DEF QueueInv
    <3>2. QED
      BY <2>1, <2>2, <3>1 DEF Pending, WaitingFor
  <2>3. CASE loop'[p] # loop[p]
    <3>1. Executes(p)
      BY <2>3 DEF Executes, WaitTyped
    <3>2. PICK n \in Loop : loop'[p] = n /\ Advances(loop[p], n)
      BY <3>1 DEF Executes, WaitTyped
    <3>3. \A w \in Loop : Pending(w) /\ Advances(w, n) => Pending(n)'
      BY PendingAdvances DEF QueueInv
    <3>4. Pending(n)'
      BY <2>1, <3>2, <3>3
    <3>5. QED
      BY <3>2, <3>4 DEF Pending, WaitingFor
  <2>4. QED
    BY <2>2, <2>3
<1>3. QED
  BY <1>1, <1>2 DEF QueueInv

\* A slot goes to whoever has waited longest for it, up to entries that
\* policy turned down in the same visit, although the list was read before
\* the transaction and entries join and leave meanwhile.
THEOREM FirstComeFirstServed == WSpec => OldestFirst
<1> DEFINE InTurn == \A p \in Loops, e \in EntryIds :
             (loop'[p] # loop[p] /\ entry[e] = "WAITING"
                                /\ entry'[e] = "PROMOTED")
               => \A f \in WaitingFor(KeyOf(wants[e])) :
                    f < e => f \in loop[p].skipped
<1>1. WInit => QueueInv
  <2>1. ASSUME WInit PROVE \A p \in Loops : loop[p].cands = {}
    BY <2>1, IdleTyped DEF WInit
  <2>2. QED
    BY <2>1 DEF WInit, QueueInv, NoGaps, Pending
<1>2. TypeOK /\ WaitTyped /\ QueueInv /\ [WNext]_allVars => QueueInv'
  <2>1. ASSUME TypeOK, WaitTyped, QueueInv, WNext PROVE QueueInv'
    BY <2>1, EveryWaitStep, QueueInvStays
  <2>2. ASSUME QueueInv, UNCHANGED allVars PROVE QueueInv'
    BY <2>2 DEF allVars, waitVars, QueueInv, NoGaps, Pending, WaitingFor
  <2>3. QED
    BY <2>1, <2>2
<1>3. TypeOK /\ WaitTyped /\ QueueInv /\ [WNext]_allVars => [InTurn]_allVars
  <2> SUFFICES ASSUME TypeOK, WaitTyped, QueueInv, WNext,
                      NEW p \in Loops, NEW e \in EntryIds, loop'[p] # loop[p],
                      entry[e] = "WAITING", entry'[e] = "PROMOTED",
                      NEW f \in WaitingFor(KeyOf(wants[e])), f < e
               PROVE  f \in loop[p].skipped
    OBVIOUS
  <2>1. PICK q \in Loops : Executes(q)
    BY EveryWaitStep
  <2>2. q = p
    BY <2>1 DEF Executes, WaitTyped
  <2>3. e \in FirstOf(loop[p].cands)
    <3>1. \A g \in EntryIds : ~(Ends(g) /\ entry'[g] = "EXPIRED" /\ g = e)
      OBVIOUS
    <3>2. \A g \in EntryIds : Ends(g) \/ Promotion(g) =>
            \A h \in EntryIds : h # g => entry'[h] = entry[h]
      BY DEF Ends, Promotion, Promote, WaitTyped
    <3>3. QED
      BY <2>1, <2>2, <3>1, <3>2 DEF Executes
  <2>4. /\ e \in loop[p].cands /\ f \notin loop[p].cands
        /\ KeyOf(wants[e]) = loop[p].slot
    <3>1. loop[p].cands \in SUBSET EntryIds /\ f \in EntryIds
      BY DEF WaitTyped, Loop, WaitingFor
    <3>2. ~(e <= f)
      BY <3>1, WaitlistAssumption DEF EntryIds
    <3>3. QED
      BY <2>3, <3>2 DEF FirstOf, QueueInv, Pending
  <2>5. QED
    BY <2>4 DEF QueueInv, Pending
<1>4. QED
  BY <1>1, <1>2, <1>3, QueueTypeCorrect, PTL DEF WSpec, OldestFirst
=============================================================================
