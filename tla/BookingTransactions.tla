-------------------------- MODULE BookingTransactions --------------------------
(***************************************************************************)
(* Inside withSerializableRetry (lib/transaction-retry.ts): what            *)
(* createBooking and transitionBooking do between the snapshot they read    *)
(* and the commit, while others do the same.  BookingService treats such a  *)
(* transaction as one step; AsIfAlone and LifecycleSpec say why it may.     *)
(*                                                                          *)
(* Of PostgreSQL: a transaction reads the rows committed when it began; a   *)
(* row updated since, or by somebody who has not committed yet, fails or    *)
(* blocks an update; the exclusion constraints see the latest rows; two     *)
(* transactions that each missed what the other inserted do not both        *)
(* commit; and any transaction may be aborted to keep it so.                *)
(*                                                                          *)
(* The clock stands still, and plans and rooms do not change: their writers *)
(* are READ COMMITTED and no part of this protocol.                         *)
(***************************************************************************)
EXTENDS BookingPolicy, Sequences

CONSTANTS
  Creators,           \* createBooking requests
  Wishes,             \* what they may ask for: set of [Creators -> row]
  Movers,             \* transitionBooking requests
  ProUsers,           \* users on the PRO plan
  MaxAttempts,        \* maxAttempts
  MaxFaults           \* bound on lost connections

ASSUME TransactionAssumption ==
  /\ IsFiniteSet(BookingIds)
  /\ Creators \cap Movers = {} /\ ProUsers \subseteq Users
  /\ Wishes \subseteq
       [Creators -> [user : Users, room : Rooms, start : Nat, end : Nat]]
  /\ MaxAttempts \in Nat \ {0} /\ MaxFaults \in Nat

VARIABLES
  ask,        \* one of Wishes
  trail,      \* [BookingIds -> statuses of its booking_events]
  tx,         \* [Requests -> Tx]
  made,       \* [Requests -> bookings inserted for the request]
  faults

rows == <<status, data, trail>>
given == <<now, plan, roomState, ask>>
vars == <<given, rows, tx, made, faults>>

Requests == Creators \cup Movers

Blank == [user |-> NoUser, room |-> NoRoom, start |-> 0, end |-> 0]

\* What a transaction writes: a row goes from one status to another.
Write == [b : BookingIds, from : Statuses, to : Statuses]

Answers == {"", "OK", "START_TIME_IN_PAST", "ROOM_INACTIVE",
  "ROLE_NOT_ALLOWED", "ROOM_CLOSED", "ADVANCE_LIMIT_EXCEEDED", "USER_OVERLAP",
  "ROOM_OVERLAP", "ACTIVE_LIMIT_EXCEEDED", "CONCURRENT_BOOKING_CONFLICT",
  "INVALID_STATE_TRANSITION", "SERIALIZATION_FAILURE", "CONNECTION_LOST"}

\* A refusal tells the user that nothing was booked.
Refusals == Answers \ {"", "OK", "CONNECTION_LOST"}

NoRows == [status |-> [b \in BookingIds |-> "NONE"],
           data |-> [b \in BookingIds |-> Blank]]

\* snap: the committed rows as the attempt sees them; held: its own write.
New == [phase |-> "new", attempt |-> 0, snap |-> NoRows, held |-> {},
        answer |-> ""]

Init ==
  /\ now = 0
  /\ status = [b \in BookingIds |-> "NONE"]
  /\ data = [b \in BookingIds |-> Blank]
  /\ plan = [u \in Users |-> IF u \in ProUsers THEN "PRO" ELSE "FREE"]
  /\ roomState = [r \in Rooms |-> "open"]
  /\ ask \in Wishes
  /\ trail = [b \in BookingIds |-> <<>>]
  /\ tx = [c \in Requests |-> New]
  /\ made = [c \in Requests |-> {}]
  /\ faults = 0

\* Policy over the rows of a snapshot.
Seen(snap) == INSTANCE BookingPolicy WITH status <- snap.status, data <- snap.data

-----------------------------------------------------------------------------
(* The retry loop.                                                          *)

\* Mutant of NextAttempt: attempts are not counted.
SameAttempt(n) == n

NextAttempt(n) == n + 1

\* prisma.$transaction: every attempt reads anew.
Begin(c) ==
  /\ tx[c].phase \in {"new", "retry"}
  /\ tx' = [tx EXCEPT ![c] =
       [New EXCEPT !.phase = "open", !.attempt = NextAttempt(tx[c].attempt),
                   !.snap = [status |-> status, data |-> data]]]
  /\ UNCHANGED <<given, rows, made, faults>>

Answered(answer) == [New EXCEPT !.phase = "done", !.answer = answer]

\* Mutant of Retryable: every database error.
RetryableAlways(error) == TRUE

\* isRetryableTransactionError.
Retryable(error) == error = "SERIALIZATION_FAILURE"

\* Mutant of AfterError: off by one.
AfterErrorOnceMore(c, error) ==
  IF Retryable(error) /\ tx[c].attempt <= MaxAttempts
  THEN [New EXCEPT !.phase = "retry", !.attempt = tx[c].attempt]
  ELSE Answered(error)

\* The catch block: again, or the error goes to the caller.
AfterError(c, error) ==
  IF Retryable(error) /\ tx[c].attempt # MaxAttempts
  THEN [New EXCEPT !.phase = "retry", !.attempt = tx[c].attempt]
  ELSE Answered(error)

Abort(c) ==
  /\ tx[c].phase \in {"open", "held"}
  /\ tx' = [tx EXCEPT ![c] = AfterError(c, "SERIALIZATION_FAILURE")]
  /\ UNCHANGED <<given, rows, made, faults>>

-----------------------------------------------------------------------------
(* The operations.                                                          *)

HeldByOthers(c) == UNION {tx[d].held : d \in Requests \ {c}}

AskedBy(c) == IF c \in Creators THEN ask[c] ELSE Blank

\* Rows of others in flight that the constraint would have to wait for.
Blocked(c) ==
  \/ \E d \in Creators \ {c} :
       /\ tx[d].held # {}
       /\ Overlaps(ask[c], ask[d])
       /\ ask[c].user = ask[d].user \/ ask[c].room = ask[d].room
  \/ \E w \in HeldByOthers(c) :
       /\ w.from \in ActiveStatuses
       /\ Overlaps(ask[c], data[w.b])
       /\ ask[c].user = data[w.b].user \/ ask[c].room = data[w.b].room

\* The exclusion constraints, on rows nobody is changing.
Excluded(c) ==
  LET changing == {w.b : w \in HeldByOthers(c)}
  IN  UserConflict(ask[c], changing) \/ RoomConflict(ask[c], changing)

\* createBooking up to the insert and its event.
CreateBooking(c) ==
  /\ tx[c].phase = "open"
  /\ LET verdict == Seen(tx[c].snap)!Verdict(ask[c], {}, FALSE)
     IN  \/ /\ verdict # "OK"
            /\ tx' = [tx EXCEPT ![c] = Answered(verdict)]
         \/ /\ verdict = "OK" /\ Excluded(c)
            /\ tx' = [tx EXCEPT ![c] = Answered("CONCURRENT_BOOKING_CONFLICT")]
         \/ /\ verdict = "OK" /\ ~Excluded(c) /\ ~Blocked(c)
            /\ \E b \in BookingIds, to \in {"PENDING", "CONFIRMED"} :
                 /\ status[b] = "NONE" /\ ~\E w \in HeldByOthers(c) : w.b = b
                 /\ tx' = [tx EXCEPT ![c].phase = "held",
                             ![c].held = {[b |-> b, from |-> "NONE", to |-> to]}]
  /\ UNCHANGED <<given, rows, made, faults>>

\* Mutant of UpToDate: the last writer wins.
UpToDateAlways(c, b) == TRUE

\* The update applies to the row the transaction has read, or fails.
UpToDate(c, b) == status[b] = tx[c].snap.status[b]

\* transitionBooking up to the conditional update and its event.
TransitionBooking(c) ==
  /\ tx[c].phase = "open"
  /\ \E b \in BookingIds, to \in Statuses \ {"NONE", "PENDING"} :
       LET from == tx[c].snap.status[b]
       IN  /\ from # "NONE"
           /\ \/ /\ ~CanMove(from, to)
                 /\ tx' = [tx EXCEPT ![c] = Answered("INVALID_STATE_TRANSITION")]
              \/ /\ CanMove(from, to) /\ ~UpToDate(c, b)
                 /\ tx' = [tx EXCEPT ![c] = AfterError(c, "SERIALIZATION_FAILURE")]
              \/ /\ CanMove(from, to) /\ UpToDate(c, b)
                 /\ ~\E w \in HeldByOthers(c) : w.b = b
                 /\ tx' = [tx EXCEPT ![c].phase = "held",
                             ![c].held = {[b |-> b, from |-> from, to |-> to]}]
  /\ UNCHANGED <<given, rows, made, faults>>

\* Mutant of MissedInsert: a weaker isolation level.
MissedInsertNever(c) == FALSE

\* isolationLevel "Serializable": somebody else's new row falls under what
\* policy read here, and the row inserted here under what policy read there.
MissedInsert(c) ==
  \E b \in BookingIds :
    /\ tx[c].snap.status[b] = "NONE" /\ status[b] # "NONE"
    /\ data[b].user = AskedBy(c).user

Store(c) ==
  \E w \in tx[c].held :
    /\ status' = [status EXCEPT ![w.b] = w.to]
    /\ trail' = [trail EXCEPT ![w.b] = Append(@, w.to)]
    /\ IF w.from = "NONE"
       THEN /\ data' = [data EXCEPT ![w.b] = ask[c]]
            /\ made' = [made EXCEPT ![c] = @ \cup {w.b}]
       ELSE UNCHANGED <<data, made>>

Commit(c) ==
  /\ tx[c].phase = "held" /\ ~MissedInsert(c)
  /\ Store(c)
  /\ tx' = [tx EXCEPT ![c] = Answered("OK")]
  /\ UNCHANGED <<given, faults>>

\* The connection breaks while the commit is under way: nobody knows
\* whether it happened.
ConnectionLost(c) ==
  /\ faults < MaxFaults /\ tx[c].phase = "held"
  /\ faults' = faults + 1
  /\ \/ ~MissedInsert(c) /\ Store(c)
     \/ UNCHANGED <<rows, made>>
  /\ tx' = [tx EXCEPT ![c] = AfterError(c, "CONNECTION_LOST")]
  /\ UNCHANGED given

-----------------------------------------------------------------------------
Step(c) ==
  \/ Begin(c)
  \/ c \in Creators /\ CreateBooking(c)
  \/ c \in Movers /\ TransitionBooking(c)
  \/ Commit(c) \/ Abort(c)

Next == \E c \in Requests : Step(c) \/ ConnectionLost(c)

Spec == Init /\ [][Next]_vars

\* Every request is carried on by its own promise chain; PostgreSQL answers.
FairSpec == Spec /\ \A c \in Requests : WF_vars(Step(c))

-----------------------------------------------------------------------------
(* Properties.                                                              *)

\* Every variable keeps its shape.
TypeOK ==
  /\ now = 0 /\ faults \in Nat
  /\ plan \in [Users -> {"FREE", "PRO"}]
  /\ roomState \in [Rooms -> {"open"}]
  /\ status \in [BookingIds -> Statuses]
  /\ ask \in Wishes
  /\ data \in [BookingIds -> {ask[c] : c \in Creators} \cup {Blank}]
  /\ trail \in [BookingIds -> Seq(Statuses)]
  /\ made \in [Requests -> SUBSET BookingIds]
  /\ \A c \in Requests :
       /\ tx[c].phase \in {"new", "open", "held", "retry", "done"}
       /\ tx[c].attempt \in 0..MaxAttempts
       /\ tx[c].snap.status \in [BookingIds -> Statuses]
       /\ tx[c].held \in SUBSET Write /\ Cardinality(tx[c].held) <= 1
       /\ tx[c].answer \in Answers

\* A booking committed on an old snapshot is one that policy would accept
\* on the rows committed by then: overlaps and limits hold as if
\* transactions ran one after the other.
AsIfAlone ==
  [][\A b \in BookingIds :
       (status[b] = "NONE" /\ status'[b] # "NONE")
         => Verdict(data'[b], {}, FALSE) = "OK"]_vars

\* Whoever is refused has no booking, and whoever is told OK has one: a
\* retry never repeats an attempt that may have been committed.
AnswerIsTrue ==
  \A c \in Requests :
    /\ tx[c].answer \in Refusals => made[c] = {}
    /\ (c \in Creators /\ tx[c].answer = "OK") => Cardinality(made[c]) = 1

\* Every status change follows the README's state machine even if several
\* requests have read the same row before any of them writes it.
Lifecycle == INSTANCE BookingLifecycle WITH state <- status

LifecycleSpec == Lifecycle!Spec

\* Every request is answered: retries are bounded, and no two transactions
\* wait for each other for ever.
EveryRequestAnswered == <>(\A c \in Requests : tx[c].phase = "done")
=============================================================================
