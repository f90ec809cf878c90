----------------------- MODULE BookingTransactionsProofs -----------------------
(***************************************************************************)
(* Theorems about BookingTransactions, for any number of requests, any      *)
(* number of attempts and whatever policy decides.  The invariant: until a  *)
(* request is done nothing was booked for it (Undone); the row it is about  *)
(* to write is as it read it and nobody else's to write (Locked); a booking *)
(* about to be inserted meets no other, inserted or about to be (Clear);    *)
(* and a snapshot is out of date only in ways that leave fewer active       *)
(* bookings, or new ones (SnapOK).                                          *)
(***************************************************************************)
EXTENDS BookingTransactions, FiniteSetTheorems, TLAPS

RowType == [user : Users \cup {NoUser}, room : Rooms \cup {NoRoom},
            start : Nat, end : Nat]
Snapshot == [status : [BookingIds -> Statuses], data : [BookingIds -> RowType]]
TxType == [phase : {"new", "open", "held", "retry", "done"},
           attempt : 0..MaxAttempts, snap : Snapshot, held : SUBSET Write,
           answer : Answers]

GivenShape ==
  /\ now = 0
  /\ plan \in [Users -> {"FREE", "PRO"}]
  /\ roomState \in [Rooms -> {"open"}]
  /\ ask \in Wishes /\ ask \in [Creators -> RowType]
  /\ faults \in Nat

RowsShape ==
  /\ status \in [BookingIds -> Statuses]
  /\ data \in [BookingIds -> RowType]
  /\ data \in [BookingIds -> {ask[c] : c \in Creators} \cup {Blank}]
  /\ trail \in [BookingIds -> Seq(Statuses)]
  /\ \A b \in BookingIds : status[b] = "NONE" => trail[b] = <<>>
  /\ made \in [Requests -> SUBSET BookingIds]

Shape == GivenShape /\ RowsShape /\ tx \in [Requests -> TxType]

\* What a request may be about to write.
WriteOf(c, w) ==
  /\ w.b \in BookingIds /\ w.to \in Statuses \ {"NONE"}
  /\ \/ /\ c \in Creators
        /\ w.from = "NONE" /\ w.to \in {"PENDING", "CONFIRMED"}
     \/ /\ c \in Movers
        /\ CanMove(w.from, w.to)

\* A request that is not done has booked nothing and was told nothing, and a
\* further attempt is counted; it holds one row while it is about to commit.
Undone(c) ==
  /\ tx[c].phase # "done" => (made[c] = {} /\ tx[c].answer = "")
  /\ tx[c].phase \in {"new", "retry"} => tx[c].attempt < MaxAttempts
  /\ tx[c].phase # "held" => tx[c].held = {}
  /\ tx[c].phase = "held" =>
       \E w \in tx[c].held : tx[c].held = {w} /\ WriteOf(c, w)

Told(c) ==
  /\ made[c] # {} => tx[c].answer \in {"OK", "CONNECTION_LOST"}
  /\ (c \in Creators /\ tx[c].answer = "OK")
       => \E b \in BookingIds : made[c] = {b}

\* The row of a write is as it was read, and in no other write.
Locked ==
  \A c \in Requests : \A w \in tx[c].held :
    /\ status[w.b] = w.from
    /\ \A d \in Requests \ {c} : \A v \in tx[d].held : v.b # w.b

Meet(x, y) == Overlaps(x, y) /\ (x.user = y.user \/ x.room = y.room)

\* The rules of policy that read no booking.
Fits(req) ==
  /\ ~(req.start < now) /\ roomState[req.room] \notin {"inactive", "closed"}
  /\ RoleAllowed(req.user, req.room)
  /\ ~TooFarAhead(req)

ActiveIn(snap, u) ==
  {b \in BookingIds : snap.status[b] \in ActiveStatuses /\ snap.data[b].user = u}

\* The limit on active bookings, on the rows of a snapshot.
FewActive(snap, u) ==
  Role[u] = "adminRole" \/ ~(Cardinality(ActiveIn(snap, u)) >= ActiveLimit(u))

\* A booking about to be inserted passed policy on the rows it read, and
\* meets no active one and none about to be inserted.
Clear ==
  \A c \in Creators : tx[c].held # {} =>
    /\ Fits(ask[c]) /\ FewActive(tx[c].snap, ask[c].user)
    /\ \A b \in BookingIds : Active(b) => ~Meet(ask[c], data[b])
    /\ \A d \in Creators \ {c} : tx[d].held # {} => ~Meet(ask[c], ask[d])

\* The rows of a snapshot in use are there still, and active only if they
\* were active.
UpToDateEnough(snap) ==
  \A b \in BookingIds : snap.status[b] # "NONE" =>
    /\ status[b] # "NONE" /\ data[b] = snap.data[b]
    /\ Active(b) => snap.status[b] \in ActiveStatuses

SnapOK ==
  \A c \in Requests :
    tx[c].phase \in {"open", "held"} => UpToDateEnough(tx[c].snap)

Replies == \A c \in Requests : Undone(c) /\ Told(c)

IInv == Shape /\ Replies /\ Locked /\ Clear /\ SnapOK

-----------------------------------------------------------------------------
(* The kinds of steps.                                                      *)

\* The transaction of c becomes t, and all others stay as they are.
Becomes(c, t) ==
  /\ t \in TxType
  /\ tx' = [tx EXCEPT ![c] = t]

\* A new attempt, or an answer that promises nothing.
Turns(c) ==
  /\ tx[c].phase # "done"
  /\ \E t : /\ Becomes(c, t) /\ t.held = {}
            /\ \/ /\ t.phase = "open" /\ t.answer = ""
                  /\ t.snap = [status |-> status, data |-> data]
               \/ /\ t.phase = "retry" /\ t.answer = ""
                  /\ t.attempt < MaxAttempts
               \/ /\ t.phase = "done" /\ t.answer # "OK" /\ t.answer # ""
  /\ UNCHANGED <<rows, made>>

\* What the insert of c has seen of policy and of the exclusion constraints.
Accepted(c) ==
  /\ Seen(tx[c].snap)!Verdict(ask[c], {}, FALSE) = "OK"
  /\ ~Excluded(c) /\ ~Blocked(c)

\* c locks the row it will write.
Locks(c) ==
  /\ tx[c].phase = "open"
  /\ c \in Creators => Accepted(c)
  /\ \E t, w :
       /\ Becomes(c, t) /\ t.phase = "held" /\ t.held = {w}
       /\ t.answer = tx[c].answer /\ t.snap = tx[c].snap
       /\ WriteOf(c, w) /\ status[w.b] = w.from
       /\ \A v \in HeldByOthers(c) : v.b # w.b
  /\ UNCHANGED <<rows, made>>

\* The write of c is stored, and c is done.
Stores(c) ==
  /\ tx[c].phase = "held" /\ ~MissedInsert(c)
  /\ Store(c)
  /\ \E t : /\ Becomes(c, t) /\ t.held = {} /\ t.phase = "done"
            /\ t.answer \in {"OK", "CONNECTION_LOST"}

LEMMA NewType ==
  /\ New \in TxType /\ New.held = {} /\ New.answer = "" /\ New.phase = "new"
  /\ New.attempt = 0
<1>1. NoRows \in Snapshot
  BY DEF NoRows, Blank, Snapshot, RowType, Statuses
<1>2. 0 \in 0..MaxAttempts
  BY TransactionAssumption DEF TransactionAssumption
<1>3. QED
  BY <1>1, <1>2 DEF New, TxType, Answers

LEMMA AnsweredType ==
  ASSUME NEW a \in Answers
  PROVE  /\ Answered(a) \in TxType /\ Answered(a).held = {}
         /\ Answered(a).phase = "done" /\ Answered(a).answer = a
BY NewType DEF Answered, TxType

\* The outcome of an error: another attempt, if there is one left.
LEMMA ErrorType ==
  ASSUME NEW c, tx[c] \in TxType, NEW e \in Answers
  PROVE  /\ AfterError(c, e) \in TxType /\ AfterError(c, e).held = {}
         /\ \/ /\ AfterError(c, e).phase = "retry" /\ AfterError(c, e).answer = ""
               /\ AfterError(c, e).attempt < MaxAttempts /\ Retryable(e)
            \/ AfterError(c, e).phase = "done" /\ AfterError(c, e).answer = e
<1> DEFINE n == tx[c].attempt
           r == [New EXCEPT !.phase = "retry", !.attempt = n]
<1>1. n \in 0..MaxAttempts /\ MaxAttempts \in Nat
  BY TransactionAssumption DEF TransactionAssumption, TxType
<1>2. \/ AfterError(c, e) = Answered(e)
      \/ AfterError(c, e) = r /\ Retryable(e) /\ n # MaxAttempts
  BY DEF AfterError
<1> HIDE DEF n
<1>3. /\ r \in TxType /\ r.held = {} /\ r.phase = "retry" /\ r.answer = ""
      /\ r.attempt = n
  BY <1>1, NewType DEF TxType
<1> HIDE DEF r
<1>4. CASE AfterError(c, e) = Answered(e)
  BY <1>4, AnsweredType
<1>5. CASE AfterError(c, e) = r /\ Retryable(e) /\ n # MaxAttempts
  <2>1. n < MaxAttempts
    BY <1>1, <1>5
  <2>2. QED
    BY <1>3, <1>5, <2>1
<1>6. QED
  BY <1>2, <1>4, <1>5

LEMMA HoldTx ==
  ASSUME Shape, NEW c \in Requests, NEW w \in Write,
         tx' = [tx EXCEPT ![c].phase = "held", ![c].held = {w}]
  PROVE  \E t : /\ Becomes(c, t) /\ t.phase = "held" /\ t.held = {w}
                /\ t.answer = tx[c].answer /\ t.snap = tx[c].snap
<1> DEFINE t == [tx[c] EXCEPT !.phase = "held", !.held = {w}]
<1>1. tx[c] \in TxType
  BY DEF Shape
<1>2. /\ t \in TxType /\ t.phase = "held" /\ t.held = {w}
      /\ t.answer = tx[c].answer /\ t.snap = tx[c].snap
  BY <1>1 DEF TxType
<1>3. tx' = [tx EXCEPT ![c] = t]
  BY DEF Shape
<1> HIDE DEF t
<1>4. QED
  BY <1>2, <1>3 DEF Becomes

LEMMA VerdictAnswers ==
  ASSUME NEW snap, NEW req
  PROVE  Seen(snap)!Verdict(req, {}, FALSE) \in Answers \ {""}
BY DEF Answers, Seen!Verdict

\* Every step of a request is of one of these kinds.
LEMMA StepKinds ==
  ASSUME IInv, NEW c \in Requests, Step(c) \/ ConnectionLost(c)
  PROVE  /\ Turns(c) \/ Locks(c) \/ Stores(c)
         /\ UNCHANGED given /\ faults' \in Nat
<1> USE DEF IInv
<1>0. /\ tx[c] \in TxType /\ Undone(c) /\ faults \in Nat
      /\ "SERIALIZATION_FAILURE" \in Answers
      /\ "CONNECTION_LOST" \in Answers
  BY DEF Shape, GivenShape, Replies, Answers
<1>1. CASE Begin(c)
  <2> DEFINE n == NextAttempt(tx[c].attempt)
             s == [status |-> status, data |-> data]
             t == [New EXCEPT !.phase = "open", !.attempt = n, !.snap = s]
  <2>0. tx[c].phase \in {"new", "retry"}
    BY <1>1 DEF Begin
  <2>1. n \in 0..MaxAttempts
    <3>1. tx[c].attempt < MaxAttempts
      BY <1>0, <2>0 DEF Undone
    <3>2. tx[c].attempt \in 0..MaxAttempts /\ MaxAttempts \in Nat
      BY <1>0, TransactionAssumption DEF TransactionAssumption, TxType
    <3>3. QED
      BY <3>1, <3>2 DEF NextAttempt
  <2>2. s \in Snapshot /\ s.status = status /\ s.data = data
    BY DEF Snapshot, Shape, RowsShape
  <2>3. /\ tx' = [tx EXCEPT ![c] = t] /\ tx[c].phase \in {"new", "retry"}
        /\ UNCHANGED <<rows, made>> /\ UNCHANGED given /\ faults' = faults
    BY <1>1 DEF Begin
  <2> HIDE DEF n, s
  <2>4. t \in TxType /\ t.held = {} /\ t.phase = "open" /\ t.answer = "" /\ t.snap = s
    BY <2>1, <2>2, NewType DEF TxType
  <2> HIDE DEF t
  <2>5. QED
    BY <1>0, <2>3, <2>4 DEF Turns, Becomes, s
<1>2. CASE Abort(c)
  <2> DEFINE t == AfterError(c, "SERIALIZATION_FAILURE")
  <2>1. /\ tx' = [tx EXCEPT ![c] = t] /\ tx[c].phase \in {"open", "held"}
        /\ UNCHANGED <<rows, made>> /\ UNCHANGED given /\ faults' = faults
    BY <1>2 DEF Abort
  <2>2. /\ t \in TxType /\ t.held = {}
        /\ \/ /\ t.phase = "retry" /\ t.answer = ""
              /\ t.attempt < MaxAttempts
           \/ /\ t.phase = "done"
              /\ t.answer = "SERIALIZATION_FAILURE"
    BY <1>0, ErrorType
  <2> HIDE DEF t
  <2>3. QED
    BY <1>0, <2>1, <2>2 DEF Turns, Becomes
<1>3. CASE c \in Creators /\ CreateBooking(c)
  <2>1. /\ tx[c].phase = "open" /\ UNCHANGED <<rows, made>>
        /\ UNCHANGED given /\ faults' = faults
    BY <1>3 DEF CreateBooking
  <2>2. ASSUME NEW a \in Answers, a # "OK", a # "", tx' = [tx EXCEPT ![c] = Answered(a)]
        PROVE  Turns(c)
    BY <2>1, <2>2, AnsweredType DEF Turns, Becomes
  <2>3. ASSUME NEW b \in BookingIds, NEW to \in {"PENDING", "CONFIRMED"},
               Accepted(c),
               status[b] = "NONE", ~\E w \in HeldByOthers(c) : w.b = b,
               tx' = [tx EXCEPT ![c].phase = "held",
                        ![c].held = {[b |-> b, from |-> "NONE", to |-> to]}]
        PROVE  Locks(c)
    <3> DEFINE w == [b |-> b, from |-> "NONE", to |-> to]
    <3>1. WriteOf(c, w) /\ w.b = b /\ w.from = "NONE" /\ w \in Write
      BY <1>3 DEF WriteOf, Write, Statuses
    <3>2. tx' = [tx EXCEPT ![c].phase = "held", ![c].held = {w}]
      BY <2>3
    <3> HIDE DEF w
    <3>3. PICK t : /\ Becomes(c, t) /\ t.phase = "held" /\ t.held = {w}
                   /\ t.answer = tx[c].answer /\ t.snap = tx[c].snap
      BY <3>1, <3>2, HoldTx
    <3>4. status[w.b] = w.from /\ \A v \in HeldByOthers(c) : v.b # w.b
      BY <2>3, <3>1
    <3>5. QED
      BY <2>1, <2>3, <3>1, <3>3, <3>4 DEF Locks
  <2>4. "CONCURRENT_BOOKING_CONFLICT" \in Answers
    BY DEF Answers
  <2>5. Turns(c) \/ Locks(c)
    <3> DEFINE verdict == Seen(tx[c].snap)!Verdict(ask[c], {}, FALSE)
    <3>1. verdict \in Answers /\ verdict # ""
      BY VerdictAnswers
    <3>2. CASE verdict # "OK" /\ tx' = [tx EXCEPT ![c] = Answered(verdict)]
      <4> HIDE DEF verdict
      <4>1. QED
        BY <2>2, <3>1, <3>2
    <3>3. CASE tx' = [tx EXCEPT ![c] = Answered("CONCURRENT_BOOKING_CONFLICT")]
      BY <2>2, <2>4, <3>3
    <3>4. CASE /\ verdict = "OK" /\ ~Excluded(c) /\ ~Blocked(c)
               /\ \E b \in BookingIds, to \in {"PENDING", "CONFIRMED"} :
                    /\ status[b] = "NONE" /\ ~\E w \in HeldByOthers(c) : w.b = b
                    /\ tx' = [tx EXCEPT ![c].phase = "held",
                                ![c].held = {[b |-> b, from |-> "NONE", to |-> to]}]
      <4>1. Accepted(c)
        BY <3>4 DEF Accepted
      <4>2. QED
        BY <2>3, <3>4, <4>1
    <3>5. QED
      BY <1>3, <3>2, <3>3, <3>4 DEF CreateBooking
  <2>6. QED
    BY <1>0, <2>1, <2>5
<1>4. CASE c \in Movers /\ TransitionBooking(c)
  <2>1. /\ tx[c].phase = "open" /\ UNCHANGED <<rows, made>>
        /\ UNCHANGED given /\ faults' = faults
    BY <1>4 DEF TransitionBooking
  <2>2. CASE tx' = [tx EXCEPT ![c] = Answered("INVALID_STATE_TRANSITION")]
    <3>1. "INVALID_STATE_TRANSITION" \in Answers
      BY DEF Answers
    <3>2. QED
      BY <1>0, <2>1, <2>2, <3>1, AnsweredType DEF Turns, Becomes
  <2>3. CASE tx' = [tx EXCEPT ![c] = AfterError(c, "SERIALIZATION_FAILURE")]
    <3> DEFINE t == AfterError(c, "SERIALIZATION_FAILURE")
    <3>1. /\ t \in TxType /\ t.held = {}
          /\ \/ /\ t.phase = "retry" /\ t.answer = ""
                /\ t.attempt < MaxAttempts
             \/ /\ t.phase = "done"
                /\ t.answer = "SERIALIZATION_FAILURE"
      BY <1>0, ErrorType
    <3>2. tx' = [tx EXCEPT ![c] = t]
      BY <2>3
    <3> HIDE DEF t
    <3>3. QED
      BY <1>0, <2>1, <3>1, <3>2 DEF Turns, Becomes
  <2>4. ASSUME NEW b \in BookingIds, NEW to \in Statuses \ {"NONE", "PENDING"},
               NEW from, CanMove(from, to), status[b] = from,
               ~\E w \in HeldByOthers(c) : w.b = b,
               tx' = [tx EXCEPT ![c].phase = "held",
                        ![c].held = {[b |-> b, from |-> from, to |-> to]}]
        PROVE  Locks(c)
    <3> DEFINE w == [b |-> b, from |-> from, to |-> to]
    <3>1. from \in Statuses
      BY <2>4 DEF Shape, RowsShape
    <3>2. WriteOf(c, w) /\ w.b = b /\ w.from = from /\ w \in Write
      BY <1>4, <2>4, <3>1 DEF WriteOf, Write
    <3>3. tx' = [tx EXCEPT ![c].phase = "held", ![c].held = {w}]
      BY <2>4
    <3> HIDE DEF w
    <3>4. c \notin Creators
      BY <1>4, TransactionAssumption DEF TransactionAssumption
    <3>5. PICK t : /\ Becomes(c, t) /\ t.phase = "held" /\ t.held = {w}
                   /\ t.answer = tx[c].answer /\ t.snap = tx[c].snap
      BY <3>2, <3>3, HoldTx
    <3>6. status[w.b] = w.from /\ \A v \in HeldByOthers(c) : v.b # w.b
      BY <2>4, <3>2
    <3>7. QED
      BY <2>1, <3>2, <3>4, <3>5, <3>6 DEF Locks
  <2>5. QED
    BY <1>0, <1>4, <2>1, <2>2, <2>3, <2>4 DEF TransitionBooking, UpToDate
<1>5. CASE Commit(c)
  <2>1. "OK" \in Answers
    BY DEF Answers
  <2>2. QED
    BY <1>0, <1>5, <2>1, AnsweredType DEF Commit, Stores, Becomes
<1>6. CASE ConnectionLost(c)
  <2> DEFINE t == AfterError(c, "CONNECTION_LOST")
  <2>0. ~Retryable("CONNECTION_LOST")
    BY DEF Retryable
  <2>1. /\ t \in TxType /\ t.held = {}
        /\ t.phase = "done" /\ t.answer = "CONNECTION_LOST"
    <3>1. t = Answered("CONNECTION_LOST")
      BY <2>0 DEF AfterError
    <3> HIDE DEF t
    <3>2. QED
      BY <1>0, <3>1, AnsweredType
  <2>2. /\ tx[c].phase = "held" /\ tx' = [tx EXCEPT ![c] = t]
        /\ UNCHANGED given /\ faults' = faults + 1
        /\ (~MissedInsert(c) /\ Store(c)) \/ UNCHANGED <<rows, made>>
    BY <1>6 DEF ConnectionLost
  <2> HIDE DEF t
  <2>3. Becomes(c, t) /\ faults' \in Nat
    BY <1>0, <2>1, <2>2 DEF Becomes
  <2>4. CASE ~MissedInsert(c) /\ Store(c)
    BY <2>1, <2>2, <2>3, <2>4 DEF Stores
  <2>5. CASE UNCHANGED <<rows, made>>
    BY <2>1, <2>2, <2>3, <2>5 DEF Turns
  <2>6. QED
    BY <2>2, <2>3, <2>4, <2>5
<1>7. QED
  BY <1>1, <1>2, <1>3, <1>4, <1>5, <1>6 DEF Step

-----------------------------------------------------------------------------
(* What a step does to the rows.                                            *)

\* c stores w: a creator the row it asked for, a mover a new status.
Writes(c, w) ==
  /\ tx[c].held = {w} /\ WriteOf(c, w) /\ status[w.b] = w.from
  /\ status' = [status EXCEPT ![w.b] = w.to]
  /\ trail' = [trail EXCEPT ![w.b] = Append(@, w.to)]
  /\ \/ /\ c \in Creators /\ w.from = "NONE"
        /\ data' = [data EXCEPT ![w.b] = ask[c]]
        /\ made' = [made EXCEPT ![c] = {w.b}]
     \/ /\ c \in Movers /\ w.from # "NONE"
        /\ UNCHANGED <<data, made>>

LEMMA StoreWrites ==
  ASSUME IInv, NEW c \in Requests, Stores(c)
  PROVE  \E w \in Write : Writes(c, w)
<1>1. /\ tx[c] \in TxType /\ tx[c].phase = "held" /\ made[c] = {}
      /\ made \in [Requests -> SUBSET BookingIds]
  BY DEF IInv, Shape, RowsShape, Replies, Undone, Stores
<1>2. PICK w \in tx[c].held : tx[c].held = {w} /\ WriteOf(c, w)
  BY <1>1 DEF IInv, Replies, Undone
<1>3. w \in Write
  BY <1>1 DEF TxType
<1>4. status[w.b] = w.from
  BY <1>2 DEF IInv, Locked
<1>5. /\ status' = [status EXCEPT ![w.b] = w.to]
      /\ trail' = [trail EXCEPT ![w.b] = Append(@, w.to)]
      /\ IF w.from = "NONE"
         THEN /\ data' = [data EXCEPT ![w.b] = ask[c]]
              /\ made' = [made EXCEPT ![c] = @ \cup {w.b}]
         ELSE UNCHANGED <<data, made>>
  BY <1>2 DEF Stores, Store
<1>6. CASE c \in Creators /\ w.from = "NONE"
  <2>1. made' = [made EXCEPT ![c] = {w.b}]
    BY <1>1, <1>5, <1>6
  <2>2. QED
    BY <1>2, <1>3, <1>4, <1>5, <1>6, <2>1 DEF Writes
<1>7. CASE c \in Movers /\ CanMove(w.from, w.to)
  <2>1. w.from # "NONE"
    BY <1>7 DEF CanMove
  <2>2. QED
    BY <1>2, <1>3, <1>4, <1>5, <1>7, <2>1 DEF Writes
<1>8. QED
  BY <1>2, <1>6, <1>7 DEF WriteOf

\* A step of c leaves every other transaction alone.
LEMMA OthersStay ==
  ASSUME Shape, NEW c \in Requests, Turns(c) \/ Locks(c) \/ Stores(c)
  PROVE  /\ tx' \in [Requests -> TxType]
         /\ \A d \in Requests \ {c} : tx'[d] = tx[d]
<1>1. PICK t : Becomes(c, t)
  BY DEF Turns, Locks, Stores
<1>2. QED
  BY <1>1 DEF Shape, Becomes

LEMMA Asked ==
  ASSUME GivenShape, NEW c \in Creators
  PROVE  ask[c] \in RowType /\ ask[c].user \in Users /\ ask[c].room \in Rooms
BY TransactionAssumption DEF TransactionAssumption, GivenShape

\* Whatever the step, the variables keep their shape.
LEMMA ShapeKept ==
  ASSUME IInv, NEW c \in Requests, Turns(c) \/ Locks(c) \/ Stores(c),
         UNCHANGED given, faults' \in Nat
  PROVE  Shape'
<1>1. GivenShape'
  BY DEF IInv, Shape, GivenShape, given
<1>2. RowsShape'
  <2> USE DEF IInv, Shape
  <2>1. CASE UNCHANGED <<rows, made>>
    BY <2>1 DEF RowsShape, rows, given
  <2>2. CASE Stores(c)
    <3>1. PICK w \in Write : Writes(c, w)
      BY <2>2, StoreWrites
    <3>2. /\ w.b \in BookingIds /\ w.to \in Statuses \ {"NONE"}
          /\ ask' = ask
      BY <3>1 DEF Writes, WriteOf, given
    <3>3. /\ status' \in [BookingIds -> Statuses]
          /\ trail' \in [BookingIds -> Seq(Statuses)]
          /\ \A b \in BookingIds : status'[b] = "NONE" => trail'[b] = <<>>
      BY <3>1, <3>2 DEF Writes, RowsShape
    <3>4. made' \in [Requests -> SUBSET BookingIds]
      <4>1. {w.b} \in SUBSET BookingIds
        BY <3>2
      <4>2. QED
        BY <3>1, <4>1 DEF Writes, RowsShape
    <3>5. /\ data' \in [BookingIds -> RowType]
          /\ data' \in [BookingIds -> {ask[d] : d \in Creators} \cup {Blank}]
      <4>1. CASE c \in Creators /\ data' = [data EXCEPT ![w.b] = ask[c]]
        <5> DEFINE Asks == {ask[d] : d \in Creators} \cup {Blank}
        <5>1. ask[c] \in RowType /\ ask[c] \in Asks
          BY <4>1, Asked
        <5> HIDE DEF Asks
        <5>2. data \in [BookingIds -> Asks]
          BY DEF RowsShape, Asks
        <5>3. data' \in [BookingIds -> RowType] /\ data' \in [BookingIds -> Asks]
          BY <3>2, <4>1, <5>1, <5>2 DEF RowsShape
        <5>4. QED
          BY <5>3 DEF Asks
      <4>2. CASE UNCHANGED <<data, made>>
        BY <4>2 DEF RowsShape
      <4>3. QED
        BY <3>1, <4>1, <4>2 DEF Writes
    <3>6. QED
      BY <3>2, <3>3, <3>4, <3>5 DEF RowsShape
  <2>3. QED
    BY <2>1, <2>2 DEF Turns, Locks
<1>3. tx' \in [Requests -> TxType]
  BY OthersStay DEF IInv
<1>4. QED
  BY <1>1, <1>2, <1>3 DEF Shape

LEMMA RepliesKept ==
  ASSUME IInv, NEW c \in Requests, Turns(c) \/ Locks(c) \/ Stores(c)
  PROVE  Replies'
<1> SUFFICES ASSUME NEW d \in Requests
             PROVE  Undone(d)' /\ Told(d)'
  BY DEF Replies
<1>0. /\ tx \in [Requests -> TxType] /\ Undone(d) /\ Told(d)
      /\ Undone(c) /\ Told(c)
      /\ made \in [Requests -> SUBSET BookingIds]
  BY DEF IInv, Shape, RowsShape, Replies
<1>1. CASE d # c
  <2>1. tx'[d] = tx[d]
    BY <1>1, OthersStay DEF IInv
  <2>2. made'[d] = made[d]
    <3>1. CASE UNCHANGED <<rows, made>>
      BY <3>1
    <3>2. CASE Stores(c)
      BY <1>0, <1>1, <3>2, StoreWrites DEF Writes
    <3>3. QED
      BY <3>1, <3>2 DEF Turns, Locks
  <2>3. QED
    BY <1>0, <2>1, <2>2 DEF Undone, Told, WriteOf
<1>2. CASE d = c /\ Turns(c)
  <2>1. PICK t : /\ Becomes(c, t) /\ t.held = {}
                 /\ \/ t.phase = "open" /\ t.answer = ""
                    \/ /\ t.phase = "retry" /\ t.answer = ""
                       /\ t.attempt < MaxAttempts
                    \/ /\ t.phase = "done" /\ t.answer # "OK" /\ t.answer # ""
    BY <1>2 DEF Turns
  <2>2. tx'[c] = t /\ made'[c] = {}
    BY <1>0, <1>2, <2>1 DEF Turns, Becomes, Undone
  <2>3. QED
    BY <1>2, <2>1, <2>2 DEF Undone, Told
<1>3. CASE d = c /\ Locks(c)
  <2>1. PICK t, w : /\ Becomes(c, t) /\ t.phase = "held" /\ t.held = {w}
                    /\ t.answer = tx[c].answer /\ WriteOf(c, w)
    BY <1>3 DEF Locks
  <2>2. tx'[c] = t /\ made'[c] = {} /\ t.answer = ""
    BY <1>0, <1>3, <2>1 DEF Locks, Becomes, Undone
  <2>3. QED
    BY <1>3, <2>1, <2>2 DEF Undone, Told, WriteOf
<1>4. CASE d = c /\ Stores(c)
  <2>1. PICK t : /\ Becomes(c, t) /\ t.held = {} /\ t.phase = "done"
                 /\ t.answer \in {"OK", "CONNECTION_LOST"}
    BY <1>4 DEF Stores
  <2>2. tx'[c] = t
    BY <1>0, <2>1 DEF Becomes
  <2>3. PICK w \in Write : Writes(c, w)
    BY <1>4, StoreWrites
  <2>4. c \in Creators => made'[c] = {w.b} /\ w.b \in BookingIds
    <3>1. Creators \cap Movers = {}
      BY TransactionAssumption DEF TransactionAssumption
    <3>2. QED
      BY <1>0, <2>3, <3>1 DEF Writes, WriteOf
  <2>5. QED
    BY <1>4, <2>1, <2>2, <2>4 DEF Undone, Told
<1>5. QED
  BY <1>1, <1>2, <1>3, <1>4

\* The row being written is locked until the transaction ends.
LEMMA LockedKept ==
  ASSUME IInv, NEW c \in Requests, Turns(c) \/ Locks(c) \/ Stores(c)
  PROVE  Locked'
<1>0. /\ tx \in [Requests -> TxType] /\ Locked
      /\ \A d \in Requests \ {c} : tx'[d] = tx[d]
  BY OthersStay DEF IInv, Shape
<1>1. CASE Turns(c)
  <2>1. tx'[c].held = {} /\ status' = status
    BY <1>0, <1>1 DEF Turns, Becomes, rows
  <2>2. QED
    BY <1>0, <2>1 DEF Locked
<1>2. CASE Locks(c)
  <2>1. PICK t, w : /\ Becomes(c, t) /\ t.held = {w}
                    /\ status[w.b] = w.from
                    /\ \A v \in HeldByOthers(c) : v.b # w.b
    BY <1>2 DEF Locks
  <2>2. tx'[c].held = {w} /\ status' = status
    BY <1>0, <1>2, <2>1 DEF Locks, Becomes, rows
  <2>3. \A d \in Requests \ {c} : \A v \in tx[d].held : v.b # w.b
    BY <2>1 DEF HeldByOthers
  <2>4. QED
    BY <1>0, <2>1, <2>2, <2>3 DEF Locked
<1>3. CASE Stores(c)
  <2>1. PICK w \in Write : Writes(c, w)
    BY <1>3, StoreWrites
  <2>2. tx'[c].held = {}
    BY <1>0, <1>3 DEF Stores, Becomes
  <2>3. status \in [BookingIds -> Statuses] /\ status' = [status EXCEPT ![w.b] = w.to]
    BY <2>1 DEF IInv, Shape, RowsShape, Writes
  <2>4. ASSUME NEW d \in Requests \ {c}, NEW v \in tx[d].held
        PROVE  status'[v.b] = v.from
    <3>1. status[v.b] = v.from /\ v.b # w.b
      BY <1>0, <2>1, <2>4 DEF Locked, Writes
    <3>2. v.b \in BookingIds
      BY <1>0, <2>4 DEF TxType, Write
    <3>3. QED
      BY <2>3, <3>1, <3>2
  <2>5. QED
    BY <1>0, <2>2, <2>4 DEF Locked
<1>4. QED
  BY <1>1, <1>2, <1>3

\* No step makes a booking active that was not, but the insert.
LEMMA ActiveBefore ==
  ASSUME IInv, NEW c \in Requests, NEW w \in Write, Writes(c, w),
         NEW b \in BookingIds
  PROVE  /\ status[b] # "NONE" => (status'[b] # "NONE" /\ data'[b] = data[b])
         /\ \/ status'[b] \notin ActiveStatuses
            \/ status[b] \in ActiveStatuses /\ data'[b] = data[b]
            \/ /\ c \in Creators /\ b = w.b /\ w.from = "NONE"
               /\ data'[b] = ask[c]
<1>1. /\ status \in [BookingIds -> Statuses]
      /\ w.b \in BookingIds /\ status[w.b] = w.from /\ w.to # "NONE"
      /\ status' = [status EXCEPT ![w.b] = w.to]
  BY DEF IInv, Shape, RowsShape, Write, Writes, WriteOf
<1>2. CASE c \in Creators /\ w.from = "NONE" /\ data' = [data EXCEPT ![w.b] = ask[c]]
  <2>1. data \in [BookingIds -> RowType]
    BY DEF IInv, Shape, RowsShape
  <2>2. CASE b = w.b
    BY <1>1, <1>2, <2>1, <2>2
  <2>3. CASE b # w.b
    BY <1>1, <1>2, <2>1, <2>3
  <2>4. QED
    BY <2>2, <2>3
<1>3. CASE c \in Movers /\ w.from # "NONE" /\ UNCHANGED <<data, made>>
  <2>1. CanMove(w.from, w.to)
    BY <1>3, TransactionAssumption DEF TransactionAssumption, Writes, WriteOf
  <2>2. w.to \in ActiveStatuses => w.from \in ActiveStatuses
    BY <2>1 DEF CanMove, ActiveStatuses
  <2>3. QED
    BY <1>1, <1>3, <2>2
<1>4. QED
  BY <1>2, <1>3 DEF Writes

LEMMA SnapKept ==
  ASSUME IInv, NEW c \in Requests, Turns(c) \/ Locks(c) \/ Stores(c)
  PROVE  SnapOK'
<1>0. /\ tx \in [Requests -> TxType] /\ SnapOK
      /\ \A d \in Requests \ {c} : tx'[d] = tx[d]
  BY OthersStay DEF IInv, Shape
<1>1. CASE Turns(c)
  <2>1. PICK t : /\ Becomes(c, t)
                 /\ \/ t.snap = [status |-> status, data |-> data]
                    \/ t.phase \in {"retry", "done"}
    BY <1>1 DEF Turns
  <2>2. tx'[c] = t /\ status' = status /\ data' = data
    BY <1>0, <1>1, <2>1 DEF Turns, Becomes, rows
  <2>3. t.phase \in {"open", "held"} => UpToDateEnough(t.snap)
    BY <2>1 DEF UpToDateEnough, Active
  <2>4. QED
    BY <1>0, <2>2, <2>3 DEF SnapOK, UpToDateEnough, Active
<1>2. CASE Locks(c)
  <2>1. PICK t : Becomes(c, t) /\ t.snap = tx[c].snap
    BY <1>2 DEF Locks
  <2>2. /\ tx'[c] = t /\ tx[c].phase = "open"
        /\ status' = status /\ data' = data
    BY <1>0, <1>2, <2>1 DEF Locks, Becomes, rows
  <2>3. QED
    BY <1>0, <2>1, <2>2 DEF SnapOK, UpToDateEnough, Active
<1>3. CASE Stores(c)
  <2>1. PICK w \in Write : Writes(c, w)
    BY <1>3, StoreWrites
  <2>2. tx'[c].phase = "done"
    BY <1>0, <1>3 DEF Stores, Becomes
  <2>3. ASSUME NEW d \in Requests \ {c}, tx[d].phase \in {"open", "held"}
        PROVE  UpToDateEnough(tx[d].snap)'
    <3> SUFFICES ASSUME NEW b \in BookingIds, tx[d].snap.status[b] # "NONE"
                 PROVE  /\ status'[b] # "NONE" /\ data'[b] = tx[d].snap.data[b]
                        /\ Active(b)' => tx[d].snap.status[b] \in ActiveStatuses
      BY <1>0, <2>3 DEF UpToDateEnough
    <3>1. /\ status[b] # "NONE" /\ data[b] = tx[d].snap.data[b]
          /\ Active(b) => tx[d].snap.status[b] \in ActiveStatuses
      BY <1>0, <2>3 DEF SnapOK, UpToDateEnough
    <3>2. Active(b)' => Active(b)
      BY <2>1, <3>1, ActiveBefore DEF Writes, Active
    <3>3. QED
      BY <2>1, <3>1, <3>2, ActiveBefore
  <2>4. QED
    BY <1>0, <2>2, <2>3 DEF SnapOK
<1>4. QED
  BY <1>1, <1>2, <1>3

\* What policy found on a snapshot, part by part.
LEMMA VerdictParts ==
  ASSUME NEW snap, NEW req, Seen(snap)!Verdict(req, {}, FALSE) = "OK"
  PROVE  Fits(req) /\ FewActive(snap, req.user)
<1>1. Fits(req)
  BY DEF Fits, RoleAllowed, TooFarAhead, Advance, Seen!Verdict,
         Seen!RoleAllowed, Seen!TooFarAhead, Seen!Advance
<1>2. ~Seen(snap)!AtLimit(req.user, {})
  BY DEF Seen!Verdict
<1>3. Seen(snap)!ActiveOf(req.user, {}) = ActiveIn(snap, req.user)
  BY DEF Seen!ActiveOf, Seen!Active, Seen!ActiveStatuses, ActiveIn, ActiveStatuses
<1>4. Seen(snap)!Cardinality(ActiveIn(snap, req.user))
        = Cardinality(ActiveIn(snap, req.user))
  BY DEF Seen!Cardinality, Cardinality
<1>5. FewActive(snap, req.user)
  BY <1>2, <1>3, <1>4
  DEF FewActive, Seen!AtLimit, Seen!ActiveLimit, ActiveLimit
<1>6. QED
  BY <1>1, <1>5

LEMMA ClearKept ==
  ASSUME IInv, NEW c \in Requests, Turns(c) \/ Locks(c) \/ Stores(c),
         UNCHANGED given
  PROVE  Clear'
<1>0. /\ tx \in [Requests -> TxType] /\ Clear /\ Creators \subseteq Requests
      /\ Creators \cap Movers = {}
      /\ \A d \in Requests \ {c} : tx'[d] = tx[d]
  BY OthersStay, TransactionAssumption DEF IInv, Shape, Requests, TransactionAssumption
<1>1. /\ \A req : Fits(req)' <=> Fits(req)
      /\ \A snap, u : FewActive(snap, u)' <=> FewActive(snap, u)
      /\ ask' = ask
  BY DEF given, Fits, RoleAllowed, TooFarAhead, Advance, FewActive, ActiveLimit
<1>2. CASE Turns(c)
  <2>1. tx'[c].held = {} /\ status' = status /\ data' = data
    BY <1>0, <1>2 DEF Turns, Becomes, rows
  <2>2. QED
    BY <1>0, <1>1, <2>1 DEF Clear, Active
<1>3. CASE Locks(c)
  <2>1. PICK t : Becomes(c, t) /\ t.snap = tx[c].snap
    BY <1>3 DEF Locks
  <2>2. tx'[c] = t /\ status' = status /\ data' = data
    BY <1>0, <1>3, <2>1 DEF Locks, Becomes, rows
  <2>3. CASE c \notin Creators
    BY <1>0, <1>1, <2>2, <2>3 DEF Clear, Active
  <2>4. CASE c \in Creators
    <3>1. Fits(ask[c]) /\ FewActive(tx[c].snap, ask[c].user)
      BY <1>3, <2>4, VerdictParts DEF Locks, Accepted
    <3>2. ASSUME NEW b \in BookingIds, Active(b)
          PROVE  ~Meet(ask[c], data[b])
      <4>1. CASE \E w \in HeldByOthers(c) : w.b = b
        <5>1. PICK w \in HeldByOthers(c) : w.b = b
          BY <4>1
        <5>2. status[b] = w.from
          BY <5>1 DEF IInv, Locked, HeldByOthers
        <5>3. QED
          BY <1>3, <2>4, <3>2, <5>1, <5>2 DEF Locks, Accepted, Blocked, Meet, Active
      <4>2. CASE ~\E w \in HeldByOthers(c) : w.b = b
        <5>1. b \in BookingIds \ {w.b : w \in HeldByOthers(c)}
          BY <4>2
        <5>2. ~Excluded(c)
          BY <1>3, <2>4 DEF Locks, Accepted
        <5>3. QED
          BY <3>2, <5>1, <5>2
          DEF Excluded, UserConflict, RoomConflict, ActiveOf, Meet, Overlaps
      <4>3. QED
        BY <4>1, <4>2
    <3>3. ASSUME NEW d \in Creators \ {c}, tx[d].held # {}
          PROVE  ~Meet(ask[c], ask[d]) /\ ~Meet(ask[d], ask[c])
      BY <1>3, <2>4, <3>3 DEF Locks, Accepted, Blocked, Meet, Overlaps
    <3>4. SUFFICES ASSUME NEW d \in Creators, tx'[d].held # {}
          PROVE  /\ Fits(ask[d]) /\ FewActive(tx'[d].snap, ask[d].user)
                 /\ \A b \in BookingIds : Active(b) => ~Meet(ask[d], data[b])
                 /\ \A e \in Creators \ {d} :
                      tx'[e].held # {} => ~Meet(ask[d], ask[e])
      BY <1>1, <2>2 DEF Clear, Active, Meet, Overlaps
    <3>5. CASE d = c
      BY <1>0, <2>1, <2>2, <3>1, <3>2, <3>3, <3>5
    <3>6. CASE d # c
      BY <1>0, <2>2, <3>3, <3>4, <3>6 DEF Clear
    <3>7. QED
      BY <3>5, <3>6
  <2>5. QED
    BY <2>3, <2>4
<1>4. CASE Stores(c)
  <2>1. PICK w \in Write : Writes(c, w)
    BY <1>4, StoreWrites
  <2>2. tx'[c].held = {} /\ tx[c].held # {}
    BY <1>0, <1>4, <2>1 DEF Stores, Becomes, Writes
  <2>3. ASSUME NEW d \in Creators, tx'[d].held # {},
               NEW b \in BookingIds, Active(b)'
        PROVE  ~Meet(ask[d], data'[b])
    <3>1. d # c /\ tx[d].held # {}
      BY <1>0, <2>2, <2>3
    <3>2. \/ Active(b) /\ data'[b] = data[b]
          \/ c \in Creators /\ data'[b] = ask[c]
      BY <2>1, <2>3, ActiveBefore DEF Active
    <3>3. QED
      BY <1>0, <2>2, <2>3, <3>1, <3>2 DEF Clear
  <2>4. QED
    BY <1>0, <1>1, <2>2, <2>3 DEF Clear, Meet, Overlaps
<1>5. QED
  BY <1>2, <1>3, <1>4

-----------------------------------------------------------------------------
LEMMA InitShape == Init => Shape
<1> SUFFICES ASSUME Init
             PROVE  Shape
  OBVIOUS
<1>1. /\ ask \in [Creators -> RowType] /\ ask \in Wishes /\ 0 \in Nat
      /\ ProUsers \subseteq Users
  BY TransactionAssumption DEF Init, TransactionAssumption, RowType
<1>2. plan \in [Users -> {"FREE", "PRO"}] /\ roomState \in [Rooms -> {"open"}]
  BY DEF Init
<1>3. "NONE" \in Statuses /\ <<>> \in Seq(Statuses) /\ Blank \in RowType
  BY DEF Statuses, Blank, RowType
<1>4. RowsShape
  BY <1>3 DEF Init, RowsShape
<1>5. tx \in [Requests -> TxType]
  BY NewType DEF Init
<1>6. QED
  BY <1>1, <1>2, <1>4, <1>5 DEF Init, Shape, GivenShape

LEMMA InitInvariant == Init => IInv
<1> SUFFICES ASSUME Init
             PROVE  IInv
  OBVIOUS
<1>1. /\ \A c \in Requests : tx[c] = New /\ made[c] = {}
      /\ Creators \subseteq Requests
      /\ 0 < MaxAttempts
  BY TransactionAssumption DEF Init, Requests, TransactionAssumption
<1>2. Replies
  BY <1>1, NewType DEF Replies, Undone, Told
<1>3. Locked /\ Clear /\ SnapOK
  BY <1>1, NewType DEF Locked, Clear, SnapOK
<1>4. QED
  BY <1>2, <1>3, InitShape DEF IInv

LEMMA NextInvariant == IInv /\ [Next]_vars => IInv'
<1> SUFFICES ASSUME IInv, [Next]_vars
             PROVE  IInv'
  OBVIOUS
<1>1. CASE UNCHANGED vars
  <2>1. /\ now' = now /\ plan' = plan /\ roomState' = roomState /\ ask' = ask
        /\ status' = status /\ data' = data /\ trail' = trail
        /\ tx' = tx /\ made' = made /\ faults' = faults
    BY <1>1 DEF vars, given, rows
  <2>2. Shape'
    BY <2>1 DEF IInv, Shape, GivenShape, RowsShape
  <2>3. Replies'
    BY <2>1 DEF IInv, Replies, Undone, Told
  <2>4. Locked'
    BY <2>1 DEF IInv, Locked
  <2>5. Clear'
    <3>1. /\ \A req : Fits(req)' <=> Fits(req)
          /\ \A snap, u : FewActive(snap, u)' <=> FewActive(snap, u)
      BY <2>1 DEF Fits, RoleAllowed, TooFarAhead, Advance, FewActive, ActiveLimit
    <3>2. QED
      BY <2>1, <3>1 DEF IInv, Clear, Active
  <2>6. SnapOK'
    BY <2>1 DEF IInv, SnapOK, UpToDateEnough, Active
  <2>7. QED
    BY <2>2, <2>3, <2>4, <2>5, <2>6 DEF IInv
<1>2. CASE Next
  <2>1. PICK c \in Requests : Step(c) \/ ConnectionLost(c)
    BY <1>2 DEF Next
  <2>2. /\ Turns(c) \/ Locks(c) \/ Stores(c)
        /\ UNCHANGED given /\ faults' \in Nat
    BY <2>1, StepKinds
  <2>3. QED
    BY <2>2, ShapeKept, RepliesKept, LockedKept, ClearKept, SnapKept DEF IInv
<1>3. QED
  BY <1>1, <1>2

LEMMA Invariant == Spec => []IInv
BY InitInvariant, NextInvariant, PTL DEF Spec

\* Every variable keeps its shape, and nobody is about to write two rows.
THEOREM TypeCorrect == Spec => []TypeOK
<1>1. IInv => TypeOK
  <2> SUFFICES ASSUME IInv
               PROVE  TypeOK
    OBVIOUS
  <2>1. ASSUME NEW c \in Requests
        PROVE  /\ tx[c].phase \in {"new", "open", "held", "retry", "done"}
               /\ tx[c].attempt \in 0..MaxAttempts
               /\ tx[c].snap.status \in [BookingIds -> Statuses]
               /\ tx[c].held \in SUBSET Write /\ Cardinality(tx[c].held) <= 1
               /\ tx[c].answer \in Answers
    <3>1. tx[c] \in TxType /\ Undone(c)
      BY DEF IInv, Shape, Replies
    <3>2. tx[c].held = {} \/ \E w : tx[c].held = {w}
      BY <3>1 DEF Undone
    <3>3. Cardinality(tx[c].held) <= 1
      BY <3>2, FS_EmptySet, FS_Singleton
    <3>4. QED
      BY <3>1, <3>3 DEF TxType, Snapshot
  <2>2. QED
    BY <2>1 DEF TypeOK, IInv, Shape, GivenShape, RowsShape
<1>2. QED
  BY <1>1, Invariant, PTL

\* withSerializableRetry tells the truth: whoever is refused has no booking,
\* whoever is told OK has exactly one, whatever was retried in between.
THEOREM AnswersAreTrue == Spec => []AnswerIsTrue
<1>1. IInv => AnswerIsTrue
  <2> SUFFICES ASSUME IInv, NEW c \in Requests
               PROVE  /\ tx[c].answer \in Refusals => made[c] = {}
                      /\ (c \in Creators /\ tx[c].answer = "OK")
                           => Cardinality(made[c]) = 1
    BY DEF AnswerIsTrue
  <2>1. Told(c)
    BY DEF IInv, Replies
  <2>2. QED
    BY <2>1, FS_Singleton DEF Told, Refusals
<1>2. QED
  BY <1>1, Invariant, PTL

\* A step that changes a row is a Stores step.
LEMMA RowsChange ==
  ASSUME IInv, [Next]_vars
  PROVE  \/ UNCHANGED <<rows, made>>
         \/ \E c \in Requests : Stores(c) /\ UNCHANGED given
BY StepKinds DEF Next, Turns, Locks, vars

\* Two requests that read the same row before either writes it still move it
\* along the README's state machine, one after the other.
THEOREM ImplementsLifecycle == Spec => LifecycleSpec
<1>1. Init => Lifecycle!Init
  BY DEF Init, Lifecycle!Init
<1>2. IInv /\ [Next]_vars => [Lifecycle!Next]_(Lifecycle!vars)
  <2> SUFFICES ASSUME IInv, [Next]_vars
               PROVE  Lifecycle!Next \/ UNCHANGED Lifecycle!vars
    OBVIOUS
  <2>1. CASE UNCHANGED <<rows, made>>
    BY <2>1 DEF rows, Lifecycle!vars
  <2>2. ASSUME NEW c \in Requests, Stores(c)
        PROVE  Lifecycle!Next
    <3>1. PICK w \in Write : Writes(c, w)
      BY <2>2, StoreWrites
    <3>2. /\ w.b \in BookingIds /\ trail \in [BookingIds -> Seq(Statuses)]
          /\ status[w.b] = w.from
          /\ status' = [status EXCEPT ![w.b] = w.to]
          /\ trail' = [trail EXCEPT ![w.b] = Append(@, w.to)]
      BY <3>1 DEF Writes, Write, IInv, Shape, RowsShape
    <3>3. CASE c \in Creators
      <4>1. w.from = "NONE" /\ w.to \in {"PENDING", "CONFIRMED"}
        BY <3>1, <3>3, TransactionAssumption
        DEF TransactionAssumption, Writes, WriteOf
      <4>2. trail[w.b] = <<>>
        BY <3>2, <4>1 DEF IInv, Shape, RowsShape
      <4>3. Append(<<>>, w.to) = <<w.to>>
        OBVIOUS
      <4>4. trail' = [trail EXCEPT ![w.b] = <<w.to>>]
        BY <3>2, <4>2, <4>3
      <4>5. QED
        BY <3>2, <4>1, <4>4 DEF Lifecycle!Next, Lifecycle!Register
    <3>4. CASE c \in Movers
      <4>1. CanMove(w.from, w.to)
        BY <3>1, <3>4, TransactionAssumption
        DEF TransactionAssumption, Writes, WriteOf
      <4>2. w.to \in Lifecycle!Moves(status[w.b])
        BY <3>2, <4>1 DEF CanMove, Lifecycle!Moves
      <4>3. QED
        BY <3>2, <4>2 DEF Lifecycle!Next, Lifecycle!Move
    <3>5. QED
      BY <3>3, <3>4 DEF Requests
  <2>3. QED
    BY <2>1, <2>2, RowsChange
<1>3. QED
  BY <1>1, <1>2, Invariant, PTL DEF Spec, LifecycleSpec, Lifecycle!Spec

\* A booking committed on an old snapshot is one that policy accepts on the
\* rows committed by then: no overlap and no limit is passed because two
\* requests did not see each other.
THEOREM SerialAdmission == Spec => AsIfAlone
<1>1. ASSUME IInv, [Next]_vars, NEW b \in BookingIds,
             status[b] = "NONE", status'[b] # "NONE"
      PROVE  Verdict(data'[b], {}, FALSE) = "OK"
  <2>1. PICK c \in Requests : Stores(c)
    BY <1>1, RowsChange DEF rows
  <2>2. PICK w \in Write : Writes(c, w)
    BY <1>1, <2>1, StoreWrites
  <2>3. /\ b = w.b /\ w.from = "NONE" /\ c \in Creators
        /\ data'[b] = ask[c]
    <3>1. /\ status \in [BookingIds -> Statuses]
          /\ data \in [BookingIds -> RowType]
      BY <1>1 DEF IInv, Shape, RowsShape
    <3>2. b = w.b
      BY <1>1, <2>2, <3>1 DEF Writes
    <3>3. w.from = "NONE"
      BY <1>1, <2>2, <3>2 DEF Writes
    <3>4. QED
      BY <1>1, <2>2, <3>1, <3>2, <3>3 DEF Writes
  <2> DEFINE u == ask[c].user
             snap == tx[c].snap
  <2>4. /\ Fits(ask[c]) /\ FewActive(snap, u)
        /\ \A x \in BookingIds : Active(x) => ~Meet(ask[c], data[x])
    BY <1>1, <2>2, <2>3 DEF IInv, Clear, Writes
  <2>5. ~UserConflict(ask[c], {}) /\ ~RoomConflict(ask[c], {})
    BY <2>4 DEF UserConflict, RoomConflict, ActiveOf, Meet, Overlaps
  <2>6. ActiveOf(u, {}) \subseteq ActiveIn(snap, u)
    <3> SUFFICES ASSUME NEW x \in BookingIds, Active(x), data[x].user = u
                 PROVE  x \in ActiveIn(snap, u)
      BY DEF ActiveOf
    <3>1. tx[c].phase = "held" /\ ~MissedInsert(c)
      BY <2>1 DEF Stores
    <3>2. status[x] # "NONE"
      BY DEF Active, ActiveStatuses
    <3>3. snap.status[x] # "NONE"
      BY <2>3, <3>1, <3>2 DEF MissedInsert, AskedBy
    <3>4. data[x] = snap.data[x] /\ snap.status[x] \in ActiveStatuses
      BY <1>1, <3>1, <3>3 DEF IInv, SnapOK, UpToDateEnough
    <3>5. QED
      BY <3>4 DEF ActiveIn
  <2>7. ~AtLimit(u, {})
    <3>1. IsFiniteSet(ActiveIn(snap, u))
      BY FS_Subset, TransactionAssumption DEF TransactionAssumption, ActiveIn
    <3>2. /\ Cardinality(ActiveOf(u, {})) <= Cardinality(ActiveIn(snap, u))
          /\ IsFiniteSet(ActiveOf(u, {}))
      BY <2>6, <3>1, FS_Subset
    <3>3. /\ Cardinality(ActiveOf(u, {})) \in Nat
          /\ Cardinality(ActiveIn(snap, u)) \in Nat
          /\ ActiveLimit(u) \in Nat
      BY <3>1, <3>2, FS_CardinalityType, PolicyAssumption
      DEF PolicyAssumption, ActiveLimit
    <3>4. QED
      BY <2>4, <3>2, <3>3 DEF AtLimit, FewActive
  <2>8. QED
    BY <2>3, <2>4, <2>5, <2>7 DEF Verdict, Fits
<1>2. IInv /\ [Next]_vars =>
        [\A b \in BookingIds : (status[b] = "NONE" /\ status'[b] # "NONE")
                                => Verdict(data'[b], {}, FALSE) = "OK"]_vars
  BY <1>1
<1>3. QED
  BY <1>2, Invariant, PTL DEF Spec, AsIfAlone
=============================================================================
