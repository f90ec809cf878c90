------------------------ MODULE NotificationOutboxProofs ------------------------
(***************************************************************************)
(* Theorems about NotificationOutbox, for any number of users, notices,     *)
(* workers, overlapping calls and codes.  The invariant has four parts, one *)
(* for each property: a disconnect holds what it read (Held), the life of a *)
(* code that a disconnect has seen (OldHeld), what a delivery knows of its  *)
(* recipient (Fresh), and the requests made and still to be made for a job  *)
(* against its attempts (Counted).                                          *)
(***************************************************************************)
EXTENDS NotificationOutbox, FiniteSetTheorems, TLAPS

\* Jobs in the write set of a disconnect wait, and are its own user's.
Held ==
  \A u \in Users : \A tx \in leaving[u] : \A j \in tx.jobs :
    UserOf(j) = u /\ job[j].status \in Waiting

\* One disconnect per user; a code that one has seen is in its write set.
OldHeld ==
  /\ \A u \in Users : \A tx, ty \in leaving[u] : tx = ty
  /\ \A c \in Codes : code[c].old =>
       \E u \in Users : \E tx \in leaving[u] : c \in tx.codes

\* A delivery goes where its user wants it now, or the user gave up
\* something after the claim.
Fresh ==
  \A w \in Workers : \A d \in worker[w].deliveries :
    d.to # {} => \/ d.to = Destination(UserOf(d.job), d.job[2])
                 \/ UserOf(d.job) \in gaveUp[w]

\* Workers that may still send job j in the attempt they claimed.
Pending(j) ==
  {w \in Workers :
     \/ j \in worker[w].claimed
     \/ \E d \in worker[w].deliveries : d.job = j /\ d.step = "ready"}

\* A worker has claimed or delivers, and delivers a job once.
OneEach ==
  \A w \in Workers :
    /\ worker[w].phase # "claimed" => worker[w].claimed = {}
    /\ worker[w].phase # "run" => worker[w].deliveries = {}
    /\ \A d, e \in worker[w].deliveries : d.job = e.job => d = e

Counted ==
  \A j \in Jobs :
    /\ sends[j] + Cardinality(Pending(j)) <= job[j].attempts
    /\ job[j].attempts <= MaxAttempts
    /\ job[j].status = "NONE" => job[j].attempts = 0

-----------------------------------------------------------------------------
(* What the helpers return.                                                 *)

LEMMA JobParts ==
  ASSUME NEW j \in Jobs
  PROVE  j[1] \in Notices /\ j[2] \in Channels /\ UserOf(j) \in Users
BY OutboxAssumption DEF OutboxAssumption, Jobs, UserOf

LEMMA UnlockedTyped ==
  ASSUME NEW r \in JobRow, NEW s \in Settled \cup Open
  PROVE  Unlocked(r, s) \in JobRow
BY DEF Unlocked, JobRow

LEMMA TakenTyped ==
  ASSUME NEW r \in JobRow, NEW w \in Workers
  PROVE  Taken(r, w) \in JobRow
<1>1. r.attempts + 1 \in Nat
  BY DEF JobRow
<1>2. \A n \in Nat : [r EXCEPT !.status = "PROCESSING", !.attempts = n,
                     !.ready = FALSE, !.lockedBy = w] \in JobRow
  BY DEF JobRow, Open
<1>3. QED
  BY <1>1, <1>2 DEF Taken

LEMMA SettleTyped ==
  ASSUME TypeOK, NEW w, NEW j, NEW r \in JobRow, Settle(w, j, r)
  PROVE  job' \in [Jobs -> JobRow]
BY DEF Settle, TypeOK

LEMMA ConsumeTyped ==
  ASSUME TypeOK, NEW C
  PROVE  /\ Consume(C) \in [Codes -> CodeRow]
         /\ \A c \in Codes :
              /\ Consume(C)[c].user = code[c].user
              /\ Consume(C)[c].state = "live" => code[c].state = "live"
<1>1. \A r \in CodeRow : /\ Over(r) \in CodeRow
                         /\ Over(r).user = r.user /\ Over(r).state = "over"
  BY DEF Over, CodeRow
<1>2. QED
  BY <1>1 DEF Consume, TypeOK

LEMMA GivesUpTyped ==
  ASSUME TypeOK, NEW u \in Users, NEW something, GivesUp(u, something)
  PROVE  gaveUp' \in [Workers -> SUBSET Users]
BY DEF GivesUp, TypeOK

LEMMA DeliveriesTyped ==
  ASSUME TypeOK, NEW w \in Workers, NEW D \in SUBSET Delivery,
         worker' = [worker EXCEPT ![w].deliveries = D]
  PROVE  worker' \in [Workers -> WorkerState]
<1>1. [worker[w] EXCEPT !.deliveries = D] \in WorkerState
  BY DEF TypeOK, WorkerState
<1>2. worker' = [worker EXCEPT ![w] = [worker[w] EXCEPT !.deliveries = D]]
  OBVIOUS
<1>3. QED
  BY <1>1, <1>2 DEF TypeOK

LEMMA DeliveryIn ==
  ASSUME TypeOK, NEW w \in Workers, NEW d \in worker[w].deliveries
  PROVE  /\ worker[w].deliveries \subseteq Delivery
         /\ d \in Delivery /\ d.job \in Jobs /\ job[d.job] \in JobRow
BY DEF TypeOK, WorkerState, Delivery

\* A delivery goes on or is over.
LEMMA BecomeTyped ==
  ASSUME TypeOK, NEW w \in Workers, NEW d \in worker[w].deliveries,
         NEW e \in Delivery, Become(w, d, e)
  PROVE  worker' \in [Workers -> WorkerState]
<1>1. (worker[w].deliveries \ {d}) \cup {e} \in SUBSET Delivery
  BY DeliveryIn
<1>2. QED
  BY <1>1, DeliveriesTyped DEF Become

LEMMA FinishTyped ==
  ASSUME TypeOK, NEW w \in Workers, NEW d \in worker[w].deliveries, Finish(w, d)
  PROVE  worker' \in [Workers -> WorkerState]
<1>1. worker[w].deliveries \ {d} \in SUBSET Delivery
  BY DeliveryIn
<1>2. QED
  BY <1>1, DeliveriesTyped DEF Finish

LEMMA IdleTyped == Idle \in WorkerState
BY DEF Idle, WorkerState

-----------------------------------------------------------------------------
(* Types.                                                                   *)

LEMMA ProducerTyped == TypeOK /\ ProducerStep => TypeOK'
<1> SUFFICES ASSUME TypeOK, ProducerStep PROVE TypeOK'
  OBVIOUS
<1>1. ASSUME NEW p \in Producers, NEW n \in Notices, EnqueueRead(p, n)
      PROVE  TypeOK'
  BY <1>1 DEF EnqueueRead, TypeOK, history
<1>2. ASSUME NEW p \in Producers, EnqueueWrite(p)
      PROVE  TypeOK'
  <2>1. [Absent EXCEPT !.status = "PENDING", !.ready = TRUE] \in JobRow
    BY DEF JobRow, Absent, Open, Waiting
  <2>2. job' \in [Jobs -> JobRow]
    BY <1>2, <2>1 DEF EnqueueWrite, TypeOK
  <2>3. QED
    BY <1>2, <2>2 DEF EnqueueWrite, TypeOK, history
<1>3. ASSUME NEW p \in Producers, EnqueueLost(p)
      PROVE  TypeOK'
  BY <1>3 DEF EnqueueLost, TypeOK, history
<1>4. QED
  BY <1>1, <1>2, <1>3 DEF ProducerStep

LEMMA UserTyped == TypeOK /\ UserStep => TypeOK'
<1> SUFFICES ASSUME TypeOK, UserStep PROVE TypeOK'
  OBVIOUS
<1>1. ASSUME NEW u \in Users, DisconnectBegins(u)
      PROVE  TypeOK'
  <2>1. [codes |-> CodesToConsume(u), jobs |-> LineJobsOf(u)]
          \in [codes : SUBSET Codes, jobs : SUBSET Jobs]
    BY DEF CodesToConsume, LiveCodes, LineJobsOf
  <2>2. leaving' \in
          [Users -> SUBSET [codes : SUBSET Codes, jobs : SUBSET Jobs]]
    BY <1>1, <2>1 DEF DisconnectBegins, TypeOK
  <2>3. \A c \in Codes : /\ code'[c] \in CodeRow
                         /\ code'[c].state = code[c].state
                         /\ code'[c].user = code[c].user
    BY <1>1 DEF DisconnectBegins, TypeOK, CodeRow
  <2>4. code' \in [Codes -> CodeRow]
    BY <1>1, <2>3 DEF DisconnectBegins
  <2>5. QED
    BY <1>1, <2>2, <2>3, <2>4 DEF DisconnectBegins, TypeOK, history
<1>2. ASSUME NEW u \in Users, DisconnectCommits(u)
      PROVE  TypeOK'
  <2>1. \A r \in JobRow : [r EXCEPT !.status = "CANCELLED"] \in JobRow
    BY DEF JobRow, Settled
  <2>2. job' \in [Jobs -> JobRow]
    BY <1>2, <2>1 DEF DisconnectCommits, TypeOK
  <2>3. /\ code' \in [Codes -> CodeRow]
        /\ \A c \in Codes : code'[c].state = "live" => code'[c].user \in Users
    BY <1>2, ConsumeTyped DEF DisconnectCommits, TypeOK
  <2>4. gaveUp' \in [Workers -> SUBSET Users]
    BY <1>2, GivesUpTyped DEF DisconnectCommits
  <2>5. QED
    BY <1>2, <2>2, <2>3, <2>4 DEF DisconnectCommits, TypeOK
<1>3. ASSUME NEW u \in Users, NEW C \in SUBSET Channels, SetPreferences(u, C)
      PROVE  TypeOK'
  BY <1>3, GivesUpTyped DEF SetPreferences, TypeOK, calls
<1>4. ASSUME NEW k \in CodeCalls, NEW u \in Users, CreateCodeRead(k, u)
      PROVE  TypeOK'
  BY <1>4 DEF CreateCodeRead, TypeOK, history
<1>5. ASSUME NEW k \in CodeCalls, CreateCodeConsumes(k)
      PROVE  TypeOK'
  <2> DEFINE Call == [user : Users, stage : {"checked", "consumed"},
                      codes : SUBSET Codes]
  <2>1. PICK call \in coding[k] :
          coding' = [coding EXCEPT ![k] =
            {[call EXCEPT !.stage = "consumed", !.codes = LiveCodes(call.user)]}]
    BY <1>5 DEF CreateCodeConsumes
  <2>2. call \in Call
    BY DEF TypeOK
  <2>3. LiveCodes(call.user) \in SUBSET Codes
    BY DEF LiveCodes
  <2>4. [call EXCEPT !.stage = "consumed", !.codes = LiveCodes(call.user)]
          \in Call
    BY <2>2, <2>3
  <2>5. coding' \in [CodeCalls -> SUBSET Call]
    BY <2>1, <2>4 DEF TypeOK
  <2>6. QED
    BY <1>5, <2>5 DEF CreateCodeConsumes, TypeOK, history
<1>6. ASSUME NEW k \in CodeCalls, CreateCodeCommits(k)
      PROVE  TypeOK'
  <2>1. PICK call \in coding[k] :
          code' = [Consume(call.codes) EXCEPT
            ![CHOOSE c \in Codes : code[c].state = "none"] =
              [state |-> "live", user |-> call.user, old |-> FALSE]]
    BY <1>6 DEF CreateCodeCommits
  <2>2. call.user \in Users
    BY DEF TypeOK
  <2>3. [state |-> "live", user |-> call.user, old |-> FALSE] \in CodeRow
    BY <2>2 DEF CodeRow
  <2>4. \A c \in Codes :
          /\ Consume(call.codes)[c] \in CodeRow
          /\ Consume(call.codes)[c].state = "live"
               => Consume(call.codes)[c].user \in Users
    BY ConsumeTyped DEF TypeOK
  <2>5. /\ code' \in [Codes -> CodeRow]
        /\ \A c \in Codes : code'[c].state = "live" => code'[c].user \in Users
    BY <2>1, <2>2, <2>3, <2>4 DEF Consume
  <2>6. QED
    BY <1>6, <2>5 DEF CreateCodeCommits, TypeOK, history
<1>7. ASSUME NEW a \in Accounts, NEW c \in Codes, ConsumeCode(a, c)
      PROVE  TypeOK'
  <2>1. /\ code' \in [Codes -> CodeRow]
        /\ \A d \in Codes : code'[d].state = "live" => code'[d].user \in Users
    BY <1>7, ConsumeTyped DEF ConsumeCode, TypeOK
  <2>2. code[c].user \in Users
    BY <1>7 DEF ConsumeCode, TypeOK
  <2>3. gaveUp' \in [Workers -> SUBSET Users]
    BY <1>7, <2>2, GivesUpTyped DEF ConsumeCode
  <2>4. QED
    BY <1>7, <2>1, <2>2, <2>3 DEF ConsumeCode, TypeOK, calls
<1>8. ASSUME NEW c \in Codes, CodeExpires(c)
      PROVE  TypeOK'
  BY <1>8, ConsumeTyped DEF CodeExpires, TypeOK, calls, history
<1>9. QED
  BY <1>1, <1>2, <1>3, <1>4, <1>5, <1>6, <1>7, <1>8 DEF UserStep

LEMMA WorkerTyped ==
  ASSUME TypeOK, NEW w \in Workers, WorkerStep(w)
  PROVE  TypeOK'
<1>1. ASSUME Claim(w)
      PROVE  TypeOK'
  <2>1. PICK B \in Batches({j \in Jobs \ LockedJobs : Claimable(job[j])}) :
          /\ job' = [j \in Jobs |->
               IF Abandoned(job[j]) THEN Unlocked(job[j], "FAILED")
               ELSE IF j \in B THEN Taken(job[j], w) ELSE job[j]]
          /\ worker' = [worker EXCEPT ![w] =
               IF B = {} THEN Idle
               ELSE [Idle EXCEPT !.phase = "claimed", !.claimed = B]]
    BY <1>1 DEF Claim
  <2>2. B \in SUBSET Jobs
    BY DEF Batches
  <2>3. \A r \in JobRow :
          Unlocked(r, "FAILED") \in JobRow /\ Taken(r, w) \in JobRow
    BY UnlockedTyped, TakenTyped DEF Settled
  <2>4. job' \in [Jobs -> JobRow]
    BY <2>1, <2>3 DEF TypeOK
  <2>5. [Idle EXCEPT !.phase = "claimed", !.claimed = B] \in WorkerState
    BY <2>2 DEF Idle, WorkerState
  <2>6. worker' \in [Workers -> WorkerState]
    BY <2>1, <2>5, IdleTyped DEF TypeOK
  <2>7. gaveUp' \in [Workers -> SUBSET Users]
    BY <1>1 DEF Claim, TypeOK
  <2>8. QED
    BY <1>1, <2>4, <2>6, <2>7 DEF Claim, TypeOK, calls
<1>2. ASSUME ReadBatch(w)
      PROVE  TypeOK'
  <2> DEFINE D == {[job |-> j, attempt |-> job[j].attempts,
                    to |-> Reads(j), step |-> "ready"] :
                      j \in worker[w].claimed}
  <2>1. worker[w] \in WorkerState /\ worker[w].claimed \in SUBSET Jobs
    BY DEF TypeOK, WorkerState
  <2>2. \A j \in Jobs : Reads(j) \in SUBSET Addresses
    BY JobParts DEF Reads, Destination, Addresses, TypeOK
  <2>3. \A j \in Jobs : job[j].attempts \in Nat
    BY DEF TypeOK, JobRow
  <2>4. D \in SUBSET Delivery
    BY <2>1, <2>2, <2>3 DEF Delivery
  <2> HIDE DEF D
  <2>5. [worker[w] EXCEPT !.phase = "run", !.claimed = {}, !.deliveries = D]
          \in WorkerState
    BY <2>1, <2>4 DEF WorkerState
  <2>6. worker' = [worker EXCEPT ![w] =
          [worker[w] EXCEPT !.phase = "run", !.claimed = {}, !.deliveries = D]]
    BY <1>2 DEF ReadBatch, D, TypeOK
  <2>7. worker' \in [Workers -> WorkerState]
    BY <2>5, <2>6 DEF TypeOK
  <2>8. QED
    BY <1>2, <2>7 DEF ReadBatch, TypeOK, calls, history
<1>3. ASSUME CancelUnwanted(w)
      PROVE  TypeOK'
  <2>1. PICK d \in worker[w].deliveries :
          Settle(w, d.job, Unlocked(job[d.job], "CANCELLED")) /\ Finish(w, d)
    BY <1>3 DEF CancelUnwanted
  <2>2. job' \in [Jobs -> JobRow]
    BY <2>1, DeliveryIn, UnlockedTyped, SettleTyped DEF Settled
  <2>3. worker' \in [Workers -> WorkerState]
    BY <2>1, FinishTyped
  <2>4. QED
    BY <1>3, <2>2, <2>3 DEF CancelUnwanted, TypeOK, calls, history
<1>4. ASSUME Send(w)
      PROVE  TypeOK'
  <2>1. PICK d \in worker[w].deliveries,
             answer \in {"accepted", "failed", "refused"} :
          /\ sends' = [sends EXCEPT ![d.job] = @ + 1]
          /\ Become(w, d, [d EXCEPT !.step = answer])
    BY <1>4 DEF Send
  <2>2. [d EXCEPT !.step = answer] \in Delivery
    BY DeliveryIn DEF Delivery
  <2>3. worker' \in [Workers -> WorkerState]
    BY <2>1, <2>2, BecomeTyped
  <2>4. sends' \in [Jobs -> Nat]
    BY <2>1, DeliveryIn DEF TypeOK
  <2>5. QED
    BY <1>4, <2>3, <2>4 DEF Send, TypeOK, calls
<1>5. ASSUME RecordSent(w)
      PROVE  TypeOK'
  <2>1. PICK d \in worker[w].deliveries :
          Settle(w, d.job, Unlocked(job[d.job], "SENT")) /\ Finish(w, d)
    BY <1>5 DEF RecordSent
  <2>2. job' \in [Jobs -> JobRow]
    BY <2>1, DeliveryIn, UnlockedTyped, SettleTyped DEF Settled
  <2>3. worker' \in [Workers -> WorkerState]
    BY <2>1, FinishTyped
  <2>4. QED
    BY <1>5, <2>2, <2>3 DEF RecordSent, TypeOK, calls, history
<1>6. ASSUME Fail(w)
      PROVE  TypeOK'
  <2>1. PICK d \in worker[w].deliveries, s \in {"FAILED", "RETRY"} :
          Settle(w, d.job, Unlocked(job[d.job], s)) /\ Finish(w, d)
    BY <1>6 DEF Fail
  <2>2. job' \in [Jobs -> JobRow]
    BY <2>1, DeliveryIn, UnlockedTyped, SettleTyped DEF Settled, Open, Waiting
  <2>3. worker' \in [Workers -> WorkerState]
    BY <2>1, FinishTyped
  <2>4. QED
    BY <1>6, <2>2, <2>3 DEF Fail, TypeOK, calls, history
<1>7. ASSUME EndBatch(w)
      PROVE  TypeOK'
  <2>1. [Idle EXCEPT !.phase = "stopped"] \in WorkerState
    BY DEF Idle, WorkerState
  <2>2. worker' \in [Workers -> WorkerState]
    BY <1>7, <2>1, IdleTyped DEF EndBatch, TypeOK
  <2>3. QED
    BY <1>7, <2>2 DEF EndBatch, TypeOK, calls, history
<1>8. QED
  BY <1>1, <1>2, <1>3, <1>4, <1>5, <1>6, <1>7 DEF WorkerStep

LEMMA FaultTyped ==
  ASSUME TypeOK, NEW w \in Workers, FaultStep(w)
  PROVE  TypeOK'
<1>1. faults' \in Nat
      /\ UNCHANGED <<job, wants, link, code, calls, history>>
  BY DEF FaultStep, RecordThrows, DeliveryThrows, ClaimThrows, Crash, Fault,
         TypeOK
<1>2. worker' \in [Workers -> WorkerState]
  <2>1. CASE RecordThrows(w)
    <3>1. PICK d \in worker[w].deliveries :
            Become(w, d, [d EXCEPT !.step = "failed"])
      BY <2>1 DEF RecordThrows
    <3>2. [d EXCEPT !.step = "failed"] \in Delivery
      BY DeliveryIn DEF Delivery
    <3>3. QED
      BY <3>1, <3>2, BecomeTyped
  <2>2. CASE DeliveryThrows(w)
    <3>1. PICK d \in worker[w].deliveries :
            worker' = [worker EXCEPT ![w].deliveries = @ \ {d}, ![w].threw = TRUE]
      BY <2>2 DEF DeliveryThrows
    <3> DEFINE D == worker[w].deliveries \ {d}
    <3>2. D \in SUBSET Delivery /\ worker[w] \in WorkerState
      BY DeliveryIn DEF TypeOK
    <3>3. worker' = [worker EXCEPT ![w] =
                       [worker[w] EXCEPT !.deliveries = D, !.threw = TRUE]]
      BY <3>1 DEF TypeOK
    <3> HIDE DEF D
    <3>4. [worker[w] EXCEPT !.deliveries = D, !.threw = TRUE] \in WorkerState
      BY <3>2 DEF WorkerState
    <3>5. QED
      BY <3>3, <3>4 DEF TypeOK
  <2>3. CASE ClaimThrows(w) \/ Crash(w)
    <3>1. [Idle EXCEPT !.phase = "stopped"] \in WorkerState
      BY DEF Idle, WorkerState
    <3>2. QED
      BY <2>3, <3>1, IdleTyped DEF ClaimThrows, Crash, TypeOK
  <2>4. QED
    BY <2>1, <2>2, <2>3 DEF FaultStep
<1>3. QED
  BY <1>1, <1>2 DEF TypeOK, calls, history

LEMMA TypeStep == TypeOK /\ [Next]_vars => TypeOK'
<1> SUFFICES ASSUME TypeOK, [Next]_vars PROVE TypeOK'
  OBVIOUS
<1>1. ASSUME NEW j \in Jobs, DelayEnds(j)
      PROVE  TypeOK'
  <2>1. \A r \in JobRow : [r EXCEPT !.ready = TRUE] \in JobRow
    BY DEF JobRow
  <2>2. job' = [job EXCEPT ![j] = [job[j] EXCEPT !.ready = TRUE]]
    BY <1>1 DEF DelayEnds, TypeOK
  <2>3. QED
    BY <1>1, <2>1, <2>2 DEF DelayEnds, TypeOK, calls, history
<1>2. CASE UNCHANGED vars
  BY <1>2 DEF TypeOK, vars, calls, history
<1>3. QED
  BY <1>1, <1>2, ProducerTyped, UserTyped, WorkerTyped, FaultTyped DEF Next

\* Every variable keeps its shape.
THEOREM TypeCorrect == Spec => []TypeOK
<1>1. Init => TypeOK
  <2> SUFFICES ASSUME Init PROVE TypeOK
    OBVIOUS
  <2>1. Absent \in JobRow /\ Unused \in CodeRow /\ Idle \in WorkerState
    BY IdleTyped DEF Absent, JobRow, Unused, CodeRow
  <2>2. \A c \in Codes : code[c].state # "live"
    BY DEF Init, Unused
  <2>3. QED
    BY <2>1, <2>2 DEF Init, TypeOK
<1>2. QED
  BY <1>1, TypeStep, PTL DEF Spec

-----------------------------------------------------------------------------
(* Jobs that are settled, and jobs that a disconnect holds.                 *)

\* A delivery that ends writes its job only while it is locked.
LEMMA SettleKeeps ==
  ASSUME TypeOK, NEW w, NEW i, NEW r, Settle(w, i, r), NEW j \in Jobs,
         job[j].status # "PROCESSING"
  PROVE  job'[j] = job[j]
BY DEF Settle, Holds, TypeOK

\* Outside disconnects, a job that waits is only taken by a claim that finds
\* it unlocked; otherwise its delay ends.
LEMMA JobKept ==
  ASSUME TypeOK, Next, NEW j \in Jobs,
         ~\E u \in Users : DisconnectCommits(u)
  PROVE  \/ job'[j] = job[j]
         \/ job[j].status \in {"NONE", "PROCESSING"}
         \/ job[j].status \in Waiting /\ job'[j].status = job[j].status
         \/ job[j].status \in Waiting /\ j \notin LockedJobs
<1>1. CASE ProducerStep
  BY <1>1 DEF ProducerStep, EnqueueRead, EnqueueWrite, EnqueueLost
<1>2. CASE UserStep
  BY <1>2 DEF UserStep, DisconnectBegins, SetPreferences, CreateCodeRead,
     CreateCodeConsumes, CreateCodeCommits, ConsumeCode, CodeExpires
<1>3. ASSUME NEW i \in Jobs, DelayEnds(i)
      PROVE  \/ job'[j] = job[j]
             \/ job[j].status = "PROCESSING"
             \/ job[j].status \in Waiting /\ job'[j].status = job[j].status
  <2>1. job[j] \in JobRow
    BY DEF TypeOK
  <2>2. [job[j] EXCEPT !.ready = TRUE].status = job[j].status
    BY <2>1 DEF JobRow
  <2>3. QED
    BY <1>3, <2>2 DEF DelayEnds, TypeOK, Waiting
<1>4. ASSUME NEW w \in Workers, Claim(w)
      PROVE  \/ job'[j] = job[j]
             \/ job[j].status = "PROCESSING"
             \/ job[j].status \in Waiting /\ j \notin LockedJobs
  <2>1. PICK B \in Batches({i \in Jobs \ LockedJobs : Claimable(job[i])}) :
          job' = [i \in Jobs |->
            IF Abandoned(job[i]) THEN Unlocked(job[i], "FAILED")
            ELSE IF i \in B THEN Taken(job[i], w) ELSE job[i]]
    BY <1>4 DEF Claim
  <2>2. B \subseteq {i \in Jobs \ LockedJobs : Claimable(job[i])}
    BY DEF Batches
  <2>3. QED
    BY <2>1, <2>2 DEF Abandoned, Claimable, Open
<1>5. ASSUME NEW w \in Workers, WorkerStep(w) \/ FaultStep(w), ~Claim(w)
      PROVE  job'[j] = job[j] \/ job[j].status = "PROCESSING"
  BY <1>5, SettleKeeps DEF WorkerStep, ReadBatch, CancelUnwanted, Send,
     RecordSent, Fail, EndBatch, FaultStep, RecordThrows, DeliveryThrows,
     ClaimThrows, Crash, Fault
<1>6. QED
  BY <1>1, <1>2, <1>3, <1>4, <1>5 DEF Next

LEMMA LeavingKept ==
  ASSUME Next,
         ~\E u \in Users : DisconnectBegins(u) \/ DisconnectCommits(u)
  PROVE  leaving' = leaving
BY DEF Next, ProducerStep, EnqueueRead, EnqueueWrite, EnqueueLost, UserStep,
   SetPreferences, CreateCodeRead, CreateCodeConsumes, CreateCodeCommits,
   ConsumeCode, CodeExpires, DelayEnds, WorkerStep, Claim, ReadBatch,
   CancelUnwanted, Send, RecordSent, Fail, EndBatch, FaultStep, RecordThrows,
   DeliveryThrows, ClaimThrows, Crash, Fault, calls

LEMMA HeldKept == TypeOK /\ Held /\ [Next]_vars => Held'
<1> SUFFICES ASSUME TypeOK, Held, [Next]_vars PROVE Held'
  OBVIOUS
<1>1. ASSUME NEW u \in Users, DisconnectBegins(u)
      PROVE  Held'
  <2>1. job' = job
    BY <1>1 DEF DisconnectBegins
  <2>2. \A v \in Users : \A tx \in leaving'[v] :
          \/ tx \in leaving[v]
          \/ v = u /\ tx.jobs = LineJobsOf(u)
    BY <1>1 DEF DisconnectBegins, TypeOK
  <2>3. \A j \in LineJobsOf(u) : UserOf(j) = u /\ job[j].status \in Waiting
    BY DEF LineJobsOf
  <2>4. QED
    BY <2>1, <2>2, <2>3 DEF Held
<1>2. ASSUME NEW u \in Users, DisconnectCommits(u)
      PROVE  Held'
  <2>1. PICK tx \in leaving[u] :
          /\ job' = [j \in Jobs |-> IF j \in tx.jobs
                     THEN [job[j] EXCEPT !.status = "CANCELLED"] ELSE job[j]]
          /\ leaving' = [leaving EXCEPT ![u] = {}]
    BY <1>2 DEF DisconnectCommits
  <2>2. ASSUME NEW v \in Users, NEW ty \in leaving'[v], NEW j \in ty.jobs
        PROVE  UserOf(j) = v /\ job'[j].status \in Waiting
    <3>1. v # u /\ ty \in leaving[v]
      BY <2>1, <2>2 DEF TypeOK
    <3>2. UserOf(j) = v /\ job[j].status \in Waiting /\ j \in Jobs
      BY <2>2, <3>1 DEF Held, TypeOK
    <3>3. j \notin tx.jobs
      BY <3>1, <3>2 DEF Held
    <3>4. QED
      BY <2>1, <3>2, <3>3
  <2>3. QED
    BY <2>2 DEF Held
<1>3. ASSUME Next, ~\E u \in Users : DisconnectBegins(u) \/ DisconnectCommits(u)
      PROVE  Held'
  <2>1. leaving' = leaving
    BY <1>3, LeavingKept
  <2>2. ASSUME NEW u \in Users, NEW tx \in leaving[u], NEW j \in tx.jobs
        PROVE  UserOf(j) = u /\ job'[j].status \in Waiting
    <3>1. j \in Jobs /\ j \in LockedJobs
      BY <2>2 DEF TypeOK, LockedJobs
    <3>2. UserOf(j) = u /\ job[j].status \in Waiting
      BY <2>2 DEF Held
    <3>3. QED
      BY <1>3, <3>1, <3>2, JobKept DEF Waiting
  <2>3. QED
    BY <2>1, <2>2 DEF Held
<1>4. CASE UNCHANGED vars
  BY <1>4 DEF vars, calls, Held
<1>5. QED
  BY <1>1, <1>2, <1>3, <1>4

LEMMA HeldAlways == Spec => []Held
<1>1. Init => Held
  BY DEF Init, Held
<1>2. QED
  BY <1>1, HeldKept, TypeCorrect, PTL DEF Spec

\* A job that was sent, given up or cancelled stays so: late workers find
\* its lock gone, and a disconnect holds only jobs that still wait.
THEOREM SettledForGood == Spec => SettledNoticesStay
<1>1. ASSUME TypeOK, Held, Next, NEW j \in Jobs, job[j].status \in Settled
      PROVE  job'[j] = job[j]
  <2>1. ASSUME NEW u \in Users, DisconnectCommits(u)
        PROVE  job'[j] = job[j]
    <3>1. PICK tx \in leaving[u] :
            job' = [i \in Jobs |-> IF i \in tx.jobs
              THEN [job[i] EXCEPT !.status = "CANCELLED"] ELSE job[i]]
      BY <2>1 DEF DisconnectCommits
    <3>2. j \notin tx.jobs
      BY <1>1 DEF Held, Waiting, Settled
    <3>3. QED
      BY <3>1, <3>2
  <2>2. QED
    BY <1>1, <2>1, JobKept DEF Settled, Waiting
<1>2. TypeOK /\ Held /\ [Next]_vars =>
        [\A j \in Jobs : job[j].status \in Settled => job'[j] = job[j]]_vars
  BY <1>1
<1>3. QED
  BY <1>2, TypeCorrect, HeldAlways, PTL DEF Spec, SettledNoticesStay

-----------------------------------------------------------------------------
(* Codes.                                                                   *)

LEMMA ConsumeForgets ==
  ASSUME TypeOK, NEW C, NEW c \in Codes
  PROVE  Consume(C)[c].old => c \notin C /\ code[c].old
<1>1. \A r \in CodeRow : Over(r).old = FALSE
  BY DEF Over, CodeRow
<1>2. QED
  BY <1>1 DEF Consume, TypeOK

LEMMA CodeKept ==
  ASSUME Next, ~\E u \in Users : DisconnectBegins(u) \/ DisconnectCommits(u),
         ~\E k \in CodeCalls : CreateCodeCommits(k),
         ~\E a \in Accounts, c \in Codes : ConsumeCode(a, c),
         ~\E c \in Codes : CodeExpires(c)
  PROVE  code' = code
BY DEF Next, ProducerStep, EnqueueRead, EnqueueWrite, EnqueueLost, UserStep,
   SetPreferences, CreateCodeRead, CreateCodeConsumes, DelayEnds, WorkerStep,
   Claim, ReadBatch, CancelUnwanted, Send, RecordSent, Fail, EndBatch,
   FaultStep, RecordThrows, DeliveryThrows, ClaimThrows, Crash, Fault

LEMMA OldHeldKept == TypeOK /\ OldHeld /\ [Next]_vars => OldHeld'
<1> SUFFICES ASSUME TypeOK, OldHeld, [Next]_vars PROVE OldHeld'
  OBVIOUS
\* A step that adds no disconnect and no old code.
<1> DEFINE NoneNew == /\ leaving' = leaving
                      /\ \A c \in Codes : code'[c].old => code[c].old
<1>1. ASSUME NoneNew PROVE OldHeld'
  BY <1>1 DEF OldHeld
<1>2. ASSUME NEW u \in Users, DisconnectBegins(u)
      PROVE  OldHeld'
  <2> DEFINE tx == [codes |-> LiveCodes(u), jobs |-> LineJobsOf(u)]
  <2>1. /\ leaving[u] = {} /\ leaving' = [leaving EXCEPT ![u] = {tx}]
        /\ \A v \in Users \ {u} : leaving'[v] = leaving[v]
        /\ leaving'[u] = {tx}
    BY <1>2 DEF DisconnectBegins, CodesToConsume, TypeOK
  <2>2. \A c \in Codes : code'[c].old => code[c].old \/ c \in LiveCodes(u)
    <3>1. \A c \in Codes : code[c] \in CodeRow
      BY DEF TypeOK
    <3>2. \A c \in Codes :
            code'[c].old = (code[c].old \/ c \in LiveCodes(u))
      BY <1>2, <3>1 DEF DisconnectBegins, CodeRow
    <3>3. QED
      BY <3>2
  <2>3. ASSUME NEW c \in Codes, code'[c].old
        PROVE  \E v \in Users : \E ty \in leaving'[v] : c \in ty.codes
    <3>1. CASE c \in LiveCodes(u)
      <4>1. tx \in leaving'[u] /\ c \in tx.codes
        BY <2>1, <3>1
      <4> HIDE DEF tx
      <4>2. QED
        BY <4>1
    <3>2. CASE code[c].old
      <4>1. PICK v \in Users : \E ty \in leaving[v] : c \in ty.codes
        BY <3>2 DEF OldHeld
      <4>2. v # u
        BY <2>1, <4>1
      <4>3. QED
        BY <2>1, <4>1, <4>2
    <3>3. QED
      BY <2>2, <2>3, <3>1, <3>2
  <2>4. \A v \in Users : \A ty, tz \in leaving'[v] : ty = tz
    BY <2>1 DEF OldHeld
  <2>5. QED
    BY <2>3, <2>4 DEF OldHeld
<1>3. ASSUME NEW u \in Users, DisconnectCommits(u)
      PROVE  OldHeld'
  <2>1. PICK tx \in leaving[u] :
          code' = Consume(tx.codes) /\ leaving' = [leaving EXCEPT ![u] = {}]
    BY <1>3 DEF DisconnectCommits
  <2>2. ASSUME NEW c \in Codes, code'[c].old
        PROVE  \E v \in Users : \E ty \in leaving'[v] : c \in ty.codes
    <3>1. c \notin tx.codes /\ code[c].old
      BY <2>1, <2>2, ConsumeForgets
    <3>2. PICK v \in Users : \E ty \in leaving[v] : c \in ty.codes
      BY <3>1 DEF OldHeld
    <3>3. v # u
      BY <3>1, <3>2 DEF OldHeld
    <3>4. QED
      BY <2>1, <3>2, <3>3 DEF TypeOK
  <2>3. \A v \in Users : \A ty, tz \in leaving'[v] : ty = tz
    BY <2>1 DEF OldHeld, TypeOK
  <2>4. QED
    BY <2>2, <2>3 DEF OldHeld
<1>4. ASSUME NEW k \in CodeCalls, CreateCodeCommits(k)
      PROVE  OldHeld'
  <2>1. PICK call \in coding[k] :
          code' = [Consume(call.codes) EXCEPT
            ![CHOOSE c \in Codes : code[c].state = "none"] =
              [state |-> "live", user |-> call.user, old |-> FALSE]]
    BY <1>4 DEF CreateCodeCommits
  <2>2. \A c \in Codes : code'[c].old => Consume(call.codes)[c].old
    BY <2>1 DEF Consume
  <2>3. NoneNew
    BY <1>4, <2>2, ConsumeForgets DEF CreateCodeCommits
  <2>4. QED
    BY <1>1, <2>3
<1>5. ASSUME NEW a \in Accounts, NEW c \in Codes, ConsumeCode(a, c)
      PROVE  OldHeld'
  BY <1>1, <1>5, ConsumeForgets DEF ConsumeCode, calls
<1>6. ASSUME NEW c \in Codes, CodeExpires(c)
      PROVE  OldHeld'
  BY <1>1, <1>6, ConsumeForgets DEF CodeExpires, calls
<1>7. CASE UNCHANGED vars
  BY <1>1, <1>7 DEF vars, calls
<1>8. QED
  BY <1>1, <1>2, <1>3, <1>4, <1>5, <1>6, <1>7, CodeKept, LeavingKept

LEMMA OldHeldAlways == Spec => []OldHeld
<1>1. Init => OldHeld
  BY DEF Init, OldHeld, Unused
<1>2. QED
  BY <1>1, OldHeldKept, TypeCorrect, PTL DEF Spec

LEMMA LinkKept ==
  ASSUME TypeOK, Next, ~\E a \in Accounts, c \in Codes : ConsumeCode(a, c),
         NEW u \in Users
  PROVE  link'[u] \in {link[u], {}}
BY DEF Next, ProducerStep, EnqueueRead, EnqueueWrite, EnqueueLost, UserStep,
   DisconnectBegins, DisconnectCommits, SetPreferences, CreateCodeRead,
   CreateCodeConsumes, CreateCodeCommits, CodeExpires, DelayEnds, WorkerStep,
   Claim, ReadBatch, CancelUnwanted, Send, RecordSent, Fail, EndBatch,
   FaultStep, RecordThrows, DeliveryThrows, ClaimThrows, Crash, Fault, TypeOK

\* No code that existed when a user disconnected links an account later: the
\* disconnect holds it until it is consumed.
THEOREM DisconnectEndsCodes == Spec => OldCodesDie
<1>1. ASSUME TypeOK, OldHeld, Next, NEW u \in Users, NEW c \in Codes,
             link'[u] \notin {link[u], {}}, code'[c] # code[c]
      PROVE  ~code[c].old
  <2>1. PICK a \in Accounts, d \in Codes : ConsumeCode(a, d)
    BY <1>1, LinkKept
  <2>2. c = d
    BY <1>1, <2>1 DEF ConsumeCode, Consume
  <2>3. c \notin LockedCodes
    BY <2>1, <2>2 DEF ConsumeCode
  <2>4. QED
    BY <1>1, <2>3 DEF OldHeld, LockedCodes
<1>2. TypeOK /\ OldHeld /\ [Next]_vars =>
        [\A u \in Users, c \in Codes :
           (link'[u] \notin {link[u], {}} /\ code'[c] # code[c])
             => ~code[c].old]_vars
  BY <1>1
<1>3. QED
  BY <1>2, TypeCorrect, OldHeldAlways, PTL DEF Spec, OldCodesDie

-----------------------------------------------------------------------------
(* What a step does to a worker, apart from claiming and reading.           *)

\* A worker drops what it has, or goes on with deliveries it had.
GoesOn(w) ==
  \/ worker'[w].claimed = {} /\ worker'[w].deliveries = {}
  \/ /\ worker'[w].phase = worker[w].phase
     /\ worker'[w].claimed = worker[w].claimed
     /\ \/ worker'[w].deliveries \subseteq worker[w].deliveries
        \/ \E d \in worker[w].deliveries, a \in {"accepted", "failed", "refused"} :
             worker'[w].deliveries =
               (worker[w].deliveries \ {d}) \cup {[d EXCEPT !.step = a]}

LEMMA OthersKept ==
  ASSUME TypeOK, NEW w \in Workers, WorkerStep(w) \/ FaultStep(w),
         NEW v \in Workers \ {w}
  PROVE  worker'[v] = worker[v]
BY DEF TypeOK, WorkerStep, Claim, ReadBatch, CancelUnwanted, Send, RecordSent,
   Fail, EndBatch, FaultStep, RecordThrows, DeliveryThrows, ClaimThrows, Crash,
   Become, Finish

LEMMA BecomeResult ==
  ASSUME TypeOK, NEW w \in Workers, NEW d, NEW e, Become(w, d, e)
  PROVE  /\ worker'[w].phase = worker[w].phase
         /\ worker'[w].claimed = worker[w].claimed
         /\ worker'[w].deliveries = (worker[w].deliveries \ {d}) \cup {e}
<1> DEFINE D == (worker[w].deliveries \ {d}) \cup {e}
<1>1. worker' = [worker EXCEPT ![w].deliveries = D] /\ worker[w] \in WorkerState
  BY DEF Become, TypeOK
<1> HIDE DEF D
<1>2. /\ worker'[w].phase = worker[w].phase
      /\ worker'[w].claimed = worker[w].claimed
      /\ worker'[w].deliveries = D
  BY <1>1 DEF TypeOK, WorkerState
<1>3. QED
  BY <1>2 DEF D

LEMMA BecomeGoesOn ==
  ASSUME TypeOK, NEW w \in Workers, NEW d \in worker[w].deliveries,
         NEW a \in {"accepted", "failed", "refused"},
         Become(w, d, [d EXCEPT !.step = a])
  PROVE  GoesOn(w)
BY BecomeResult DEF GoesOn

LEMMA FinishGoesOn ==
  ASSUME TypeOK, NEW w \in Workers, NEW d \in worker[w].deliveries,
         \/ Finish(w, d)
         \/ worker' = [worker EXCEPT ![w].deliveries = @ \ {d}, ![w].threw = TRUE]
  PROVE  GoesOn(w)
<1>1. worker[w] \in WorkerState
  BY DEF TypeOK
<1>2. /\ worker'[w].phase = worker[w].phase
      /\ worker'[w].claimed = worker[w].claimed
      /\ worker'[w].deliveries = worker[w].deliveries \ {d}
  BY <1>1 DEF Finish, TypeOK, WorkerState
<1>3. QED
  BY <1>2 DEF GoesOn

LEMMA WorkerGoesOn ==
  ASSUME TypeOK, Next, NEW v \in Workers, ~Claim(v), ~ReadBatch(v)
  PROVE  GoesOn(v)
<1>1. CASE worker'[v] = worker[v]
  BY <1>1 DEF GoesOn
<1>2. CASE CancelUnwanted(v) \/ RecordSent(v) \/ Fail(v) \/ DeliveryThrows(v)
  BY <1>2, FinishGoesOn DEF CancelUnwanted, RecordSent, Fail, DeliveryThrows
<1>3. CASE Send(v) \/ RecordThrows(v)
  BY <1>3, BecomeGoesOn DEF Send, RecordThrows
<1>4. CASE EndBatch(v) \/ ClaimThrows(v) \/ Crash(v)
  <2>1. worker'[v] \in {Idle, [Idle EXCEPT !.phase = "stopped"]}
    BY <1>4 DEF EndBatch, ClaimThrows, Crash, TypeOK
  <2>2. QED
    BY <2>1 DEF GoesOn, Idle
<1>5. CASE ProducerStep \/ UserStep \/ \E j \in Jobs : DelayEnds(j)
  <2>1. worker' = worker
    BY <1>5 DEF ProducerStep, EnqueueRead, EnqueueWrite, EnqueueLost, UserStep,
       DisconnectBegins, DisconnectCommits, SetPreferences, CreateCodeRead,
       CreateCodeConsumes, CreateCodeCommits, ConsumeCode, CodeExpires,
       DelayEnds
  <2>2. QED
    BY <1>1, <2>1
<1>6. ASSUME NEW w \in Workers, WorkerStep(w) \/ FaultStep(w)
      PROVE  GoesOn(v)
  <2>1. CASE w # v
    BY <1>1, <1>6, <2>1, OthersKept
  <2>2. CASE w = v
    BY <1>2, <1>3, <1>4, <1>6, <2>2 DEF WorkerStep, FaultStep
  <2>3. QED
    BY <2>1, <2>2
<1>7. QED
  BY <1>5, <1>6 DEF Next

LEMMA ClaimResult ==
  ASSUME TypeOK, NEW w \in Workers, Claim(w)
  PROVE  \E B \in SUBSET {j \in Jobs : Claimable(job[j])} :
           /\ job' = [j \in Jobs |->
                IF Abandoned(job[j]) THEN Unlocked(job[j], "FAILED")
                ELSE IF j \in B THEN Taken(job[j], w) ELSE job[j]]
           /\ worker'[w].claimed = B /\ worker'[w].deliveries = {}
           /\ B # {} => worker'[w].phase = "claimed"
<1>1. PICK B \in Batches({j \in Jobs \ LockedJobs : Claimable(job[j])}) :
        /\ job' = [j \in Jobs |->
             IF Abandoned(job[j]) THEN Unlocked(job[j], "FAILED")
             ELSE IF j \in B THEN Taken(job[j], w) ELSE job[j]]
        /\ worker' = [worker EXCEPT ![w] =
             IF B = {} THEN Idle
             ELSE [Idle EXCEPT !.phase = "claimed", !.claimed = B]]
  BY DEF Claim
<1>2. B \in SUBSET {j \in Jobs : Claimable(job[j])}
  BY DEF Batches
<1>3. worker'[w] = IF B = {} THEN Idle
                   ELSE [Idle EXCEPT !.phase = "claimed", !.claimed = B]
  BY <1>1 DEF TypeOK
<1>4. /\ worker'[w].claimed = B /\ worker'[w].deliveries = {}
      /\ B # {} => worker'[w].phase = "claimed"
  BY <1>3 DEF Idle
<1>5. QED
  BY <1>1, <1>2, <1>4

LEMMA ReadResult ==
  ASSUME TypeOK, NEW w \in Workers, ReadBatch(w)
  PROVE  /\ worker[w].phase = "claimed"
         /\ worker'[w].phase = "run" /\ worker'[w].claimed = {}
         /\ worker'[w].deliveries =
              {[job |-> j, attempt |-> job[j].attempts,
                to |-> Reads(j), step |-> "ready"] : j \in worker[w].claimed}
         /\ UNCHANGED <<job, wants, link, sends, gaveUp>>
<1> DEFINE D == {[job |-> j, attempt |-> job[j].attempts,
                  to |-> Reads(j), step |-> "ready"] : j \in worker[w].claimed}
<1>1. /\ worker[w].phase = "claimed"
      /\ worker' = [worker EXCEPT ![w].phase = "run", ![w].claimed = {},
                                  ![w].deliveries = D]
      /\ UNCHANGED <<job, wants, link, sends, gaveUp>>
  BY DEF ReadBatch, history
<1> HIDE DEF D
<1>2. worker[w] \in WorkerState
  BY DEF TypeOK
<1>3. /\ worker'[w].phase = "run" /\ worker'[w].claimed = {}
      /\ worker'[w].deliveries = D
  BY <1>1, <1>2 DEF TypeOK, WorkerState
<1>4. QED
  BY <1>1, <1>3 DEF D

-----------------------------------------------------------------------------
(* Recipients.                                                              *)

\* What a delivery found stays true, or its user is in gaveUp.
LEMMA DestinationKept ==
  ASSUME TypeOK, Next, NEW w \in Workers, ~Claim(w), NEW j \in Jobs
  PROVE  /\ UserOf(j) \in gaveUp[w] => UserOf(j) \in gaveUp'[w]
         /\ Destination(UserOf(j), j[2]) # {} =>
              \/ Destination(UserOf(j), j[2])' = Destination(UserOf(j), j[2])
              \/ UserOf(j) \in gaveUp'[w]
<1> USE JobParts
<1> DEFINE Kept ==
      /\ UserOf(j) \in gaveUp[w] => UserOf(j) \in gaveUp'[w]
      /\ Destination(UserOf(j), j[2]) # {} =>
           \/ Destination(UserOf(j), j[2])' = Destination(UserOf(j), j[2])
           \/ UserOf(j) \in gaveUp'[w]
<1>1. CASE UNCHANGED <<wants, link>> /\ gaveUp'[w] = gaveUp[w]
  BY <1>1 DEF Destination, UserOf
<1>2. ASSUME NEW u \in Users, NEW C \in SUBSET Channels, SetPreferences(u, C)
      PROVE  Kept
  BY <1>2 DEF SetPreferences, GivesUp, Destination, UserOf, TypeOK
<1>3. ASSUME NEW a \in Accounts, NEW c \in Codes, ConsumeCode(a, c)
      PROVE  Kept
  <2> DEFINE u == code[c].user
  <2>1. /\ u \in Users /\ wants' = wants
        /\ link' = [link EXCEPT ![u] = {a}]
        /\ GivesUp(u, ~(link[u] \subseteq {a}))
    BY <1>3 DEF ConsumeCode, TypeOK
  <2> HIDE DEF u
  <2>2. gaveUp'[w] = IF link[u] \subseteq {a} THEN gaveUp[w]
                     ELSE gaveUp[w] \cup {u}
    BY <2>1 DEF GivesUp, TypeOK
  <2>3. CASE UserOf(j) # u
    BY <2>1, <2>2, <2>3 DEF Destination, UserOf, TypeOK
  <2>4. CASE UserOf(j) = u
    <3>1. link[u] \subseteq {a} => link[u] = {} \/ link[u] = link'[u]
      BY <2>1 DEF TypeOK
    <3>2. QED
      BY <2>1, <2>2, <2>4, <3>1 DEF Destination, UserOf
  <2>5. QED
    BY <2>3, <2>4
<1>4. ASSUME NEW u \in Users, DisconnectCommits(u)
      PROVE  Kept
  BY <1>4 DEF DisconnectCommits, GivesUp, Destination, UserOf, TypeOK
<1>5. ASSUME NEW v \in Workers, WorkerStep(v) \/ FaultStep(v)
      PROVE  UNCHANGED <<wants, link>> /\ gaveUp'[w] = gaveUp[w]
  BY <1>5 DEF WorkerStep, Claim, ReadBatch, CancelUnwanted, Send, RecordSent,
     Fail, EndBatch, FaultStep, RecordThrows, DeliveryThrows, ClaimThrows,
     Crash, Fault, history, TypeOK
<1>6. CASE ProducerStep \/ \E i \in Jobs : DelayEnds(i)
  BY <1>1, <1>6 DEF ProducerStep, EnqueueRead, EnqueueWrite, EnqueueLost,
     DelayEnds, history
<1>7. CASE UserStep
  BY <1>1, <1>2, <1>3, <1>4, <1>7 DEF UserStep, DisconnectBegins,
     CreateCodeRead, CreateCodeConsumes, CreateCodeCommits, CodeExpires, history
<1>8. QED
  BY <1>1, <1>5, <1>6, <1>7 DEF Next

LEMMA FreshKept == TypeOK /\ Fresh /\ [Next]_vars => Fresh'
<1> SUFFICES ASSUME TypeOK, Fresh, Next, NEW w \in Workers,
                    NEW e \in worker'[w].deliveries, e.to # {}
             PROVE  \/ e.to = Destination(UserOf(e.job), e.job[2])'
                    \/ UserOf(e.job) \in gaveUp'[w]
  BY DEF Fresh, vars, calls, history, Destination, UserOf
<1>1. ~Claim(w)
  BY ClaimResult
<1>2. CASE ReadBatch(w)
  <2>1. PICK j \in worker[w].claimed :
          e = [job |-> j, attempt |-> job[j].attempts,
               to |-> Reads(j), step |-> "ready"]
    BY <1>2, ReadResult
  <2>2. e.job = j /\ e.to = Destination(UserOf(j), j[2])
    BY <2>1 DEF Reads
  <2>3. UNCHANGED <<wants, link>>
    BY <1>2, ReadResult
  <2>4. QED
    BY <2>2, <2>3 DEF Destination, UserOf
<1>3. CASE ~ReadBatch(w)
  <2>1. PICK d \in worker[w].deliveries : e.job = d.job /\ e.to = d.to
    <3>1. GoesOn(w)
      BY <1>1, <1>3, WorkerGoesOn
    <3>2. CASE worker'[w].deliveries \subseteq worker[w].deliveries
      BY <3>2
    <3>3. ASSUME NEW d \in worker[w].deliveries,
                 NEW a \in {"accepted", "failed", "refused"},
                 worker'[w].deliveries =
                   (worker[w].deliveries \ {d}) \cup {[d EXCEPT !.step = a]}
          PROVE  \E f \in worker[w].deliveries : e.job = f.job /\ e.to = f.to
      <4>1. CASE e \in worker[w].deliveries
        BY <4>1
      <4>2. CASE e = [d EXCEPT !.step = a]
        BY <4>2, DeliveryIn DEF Delivery
      <4>3. QED
        BY <3>3, <4>1, <4>2
    <3>4. QED
      BY <3>1, <3>2, <3>3 DEF GoesOn
  <2>2. d.job \in Jobs
    BY DeliveryIn
  <2>3. QED
    BY <1>1, <2>1, <2>2, DestinationKept DEF Fresh
<1>4. QED
  BY <1>2, <1>3

LEMMA FreshAlways == Spec => []Fresh
<1>1. Init => Fresh
  BY DEF Init, Fresh, Idle
<1>2. QED
  BY <1>1, FreshKept, TypeCorrect, PTL DEF Spec

\* A message leaves for an account or a channel that was given up only in an
\* attempt that was claimed no later than that.
THEOREM RetriesAskAgain == Spec => NoStaleRecipient
<1>1. ASSUME TypeOK, Fresh, Next, NEW w \in Workers,
             NEW d \in worker[w].deliveries,
             sends' # sends, d \notin worker'[w].deliveries
      PROVE  \/ d.to = Destination(UserOf(d.job), d.job[2])
             \/ UserOf(d.job) \in gaveUp[w]
  <2>1. PICK v \in Workers : Send(v)
    BY <1>1 DEF Next, ProducerStep, EnqueueRead, EnqueueWrite, EnqueueLost,
       UserStep, DisconnectBegins, DisconnectCommits, SetPreferences,
       CreateCodeRead, CreateCodeConsumes, CreateCodeCommits, ConsumeCode,
       CodeExpires, DelayEnds, WorkerStep, Claim, ReadBatch, CancelUnwanted,
       RecordSent, Fail, EndBatch, FaultStep, RecordThrows, DeliveryThrows,
       ClaimThrows, Crash, Fault, history
  <2>2. v = w
    BY <1>1, <2>1, OthersKept DEF WorkerStep
  <2>3. PICK c \in worker[w].deliveries,
             a \in {"accepted", "failed", "refused"} :
          c.to # {} /\ Become(w, c, [c EXCEPT !.step = a])
    BY <2>1, <2>2 DEF Send
  <2>4. c = d
    BY <1>1, <2>3, BecomeResult
  <2>5. QED
    BY <2>3, <2>4, <1>1 DEF Fresh
<1>2. TypeOK /\ Fresh /\ [Next]_vars =>
        [\A w \in Workers : \A d \in worker[w].deliveries :
           (sends' # sends /\ d \notin worker'[w].deliveries)
             => \/ d.to = Destination(UserOf(d.job), d.job[2])
                \/ UserOf(d.job) \in gaveUp[w]]_vars
  BY <1>1
<1>3. QED
  BY <1>2, TypeCorrect, FreshAlways, PTL DEF Spec, NoStaleRecipient

-----------------------------------------------------------------------------
(* Attempts and requests.                                                   *)

LEMMA OneEachKept == TypeOK /\ OneEach /\ [Next]_vars => OneEach'
<1> SUFFICES ASSUME TypeOK, OneEach, Next, NEW w \in Workers
             PROVE  /\ worker'[w].phase # "claimed" => worker'[w].claimed = {}
                    /\ worker'[w].phase # "run" => worker'[w].deliveries = {}
                    /\ \A d, e \in worker'[w].deliveries :
                         d.job = e.job => d = e
  BY DEF OneEach, vars
<1>1. CASE Claim(w)
  BY <1>1, ClaimResult
<1>2. CASE ReadBatch(w)
  BY <1>2, ReadResult
<1>3. ASSUME worker'[w].phase = worker[w].phase,
             worker'[w].claimed = worker[w].claimed,
             NEW c \in worker[w].deliveries,
             NEW a \in {"accepted", "failed", "refused"},
             worker'[w].deliveries =
               (worker[w].deliveries \ {c}) \cup {[c EXCEPT !.step = a]}
      PROVE  /\ worker'[w].phase # "claimed" => worker'[w].claimed = {}
             /\ worker'[w].phase # "run" => worker'[w].deliveries = {}
             /\ \A d, e \in worker'[w].deliveries : d.job = e.job => d = e
  <2>1. [c EXCEPT !.step = a].job = c.job
    BY DeliveryIn DEF Delivery
  <2>2. worker[w].phase = "run"
    BY DEF OneEach
  <2>3. ASSUME NEW d \in worker'[w].deliveries, NEW e \in worker'[w].deliveries,
               d.job = e.job
        PROVE  d = e
    <3>1. /\ d \in worker[w].deliveries \ {c} \/ d = [c EXCEPT !.step = a]
          /\ e \in worker[w].deliveries \ {c} \/ e = [c EXCEPT !.step = a]
      BY <1>3
    <3>2. \A f, g \in worker[w].deliveries : f.job = g.job => f = g
      BY DEF OneEach
    <3> DEFINE x == [c EXCEPT !.step = a]
    <3>3. x.job = c.job /\ (d \in worker[w].deliveries \ {c} \/ d = x)
          /\ (e \in worker[w].deliveries \ {c} \/ e = x)
      BY <2>1, <3>1
    <3> HIDE DEF x
    <3>4. QED
      BY <2>3, <3>2, <3>3
  <2>4. QED
    BY <1>3, <2>2, <2>3 DEF OneEach
<1>4. CASE ~Claim(w) /\ ~ReadBatch(w)
  <2>1. GoesOn(w)
    BY <1>4, WorkerGoesOn
  <2>2. CASE worker'[w].claimed = {} /\ worker'[w].deliveries = {}
    BY <2>2
  <2>3. CASE /\ worker'[w].phase = worker[w].phase
             /\ worker'[w].claimed = worker[w].claimed
             /\ worker'[w].deliveries \subseteq worker[w].deliveries
    BY <2>3 DEF OneEach
  <2>4. QED
    BY <1>3, <2>1, <2>2, <2>3 DEF GoesOn
<1>5. QED
  BY <1>1, <1>2, <1>4

\* A worker that has not just claimed does not begin to owe a request.
LEMMA PendingKept ==
  ASSUME TypeOK, OneEach, Next, NEW j \in Jobs, NEW w \in Workers, ~Claim(w),
         w \in Pending(j)'
  PROVE  w \in Pending(j)
<1>1. \/ j \in worker'[w].claimed
      \/ \E d \in worker'[w].deliveries : d.job = j /\ d.step = "ready"
  BY DEF Pending
<1>2. CASE ReadBatch(w)
  BY <1>1, <1>2, ReadResult DEF Pending
<1>3. CASE ~ReadBatch(w)
  <2>1. GoesOn(w)
    BY <1>3, WorkerGoesOn
  <2>2. CASE j \in worker'[w].claimed
    BY <2>1, <2>2 DEF GoesOn, Pending
  <2>3. ASSUME NEW d \in worker'[w].deliveries, d.job = j, d.step = "ready"
        PROVE  d \in worker[w].deliveries
    <3>1. ASSUME NEW c \in worker[w].deliveries,
                 NEW a \in {"accepted", "failed", "refused"},
                 d = [c EXCEPT !.step = a]
          PROVE  FALSE
      BY <2>3, <3>1, DeliveryIn DEF Delivery
    <3>2. QED
      BY <2>1, <2>3, <3>1 DEF GoesOn
  <2>4. QED
    BY <1>1, <2>2, <2>3 DEF Pending
<1>4. QED
  BY <1>2, <1>3

LEMMA PendingFinite ==
  ASSUME NEW j
  PROVE  /\ IsFiniteSet(Pending(j)) /\ Cardinality(Pending(j)) \in Nat
         /\ IsFiniteSet(Pending(j)') /\ Cardinality(Pending(j)') \in Nat
<1>1. Pending(j) \in SUBSET Workers /\ Pending(j)' \in SUBSET Workers
  BY DEF Pending
<1>2. QED
  BY <1>1, FS_Subset, FS_CardinalityType, OutboxAssumption DEF OutboxAssumption

\* Only a claim counts an attempt.
LEMMA AttemptsKept ==
  ASSUME TypeOK, Next, ~\E w \in Workers : Claim(w), NEW j \in Jobs
  PROVE  /\ \/ job'[j].attempts = job[j].attempts
            \/ job[j].status = "NONE" /\ job'[j].attempts = 0
         /\ job'[j].status = "NONE" => job[j].status = "NONE"
<1> DEFINE Kept == /\ job'[j].attempts = job[j].attempts
                   /\ job'[j].status = "NONE" => job[j].status = "NONE"
<1>1. ASSUME NEW i, NEW w, NEW s \in Settled \cup Open,
             Settle(w, i, Unlocked(job[i], s))
      PROVE  Kept
  <2>1. \A r \in JobRow : /\ Unlocked(r, s).attempts = r.attempts
                          /\ Unlocked(r, s).status # "NONE"
    BY DEF Unlocked, JobRow, Settled, Open, Waiting
  <2>2. QED
    BY <1>1, <2>1 DEF Settle, TypeOK
<1>2. CASE job' = job
  BY <1>2
<1>3. ASSUME NEW p \in Producers, EnqueueWrite(p)
      PROVE  Kept \/ (job[j].status = "NONE" /\ job'[j].attempts = 0)
  <2>1. [Absent EXCEPT !.status = "PENDING", !.ready = TRUE].attempts = 0
    BY DEF Absent
  <2>2. QED
    BY <1>3, <2>1 DEF EnqueueWrite
<1>4. ASSUME NEW u \in Users, DisconnectCommits(u)
      PROVE  Kept
  <2>1. \A r \in JobRow : /\ [r EXCEPT !.status = "CANCELLED"].attempts = r.attempts
                          /\ [r EXCEPT !.status = "CANCELLED"].status # "NONE"
    BY DEF JobRow
  <2>2. QED
    BY <1>4, <2>1 DEF DisconnectCommits, TypeOK
<1>5. ASSUME NEW i \in Jobs, DelayEnds(i)
      PROVE  Kept
  <2>1. \A r \in JobRow : /\ [r EXCEPT !.ready = TRUE].attempts = r.attempts
                          /\ [r EXCEPT !.ready = TRUE].status = r.status
    BY DEF JobRow
  <2>2. QED
    BY <1>5, <2>1 DEF DelayEnds, TypeOK
<1>6. ASSUME NEW w \in Workers, CancelUnwanted(w) \/ RecordSent(w) \/ Fail(w)
      PROVE  Kept
  <2>1. PICK d \in worker[w].deliveries, s \in Settled \cup Open :
          Settle(w, d.job, Unlocked(job[d.job], s))
    BY <1>6 DEF CancelUnwanted, RecordSent, Fail, Settled, Open, Waiting
  <2>2. QED
    BY <1>1, <2>1
<1>7. CASE UserStep \/ \E p \in Producers : EnqueueLost(p)
           \/ \E n \in Notices : EnqueueRead(p, n)
  BY <1>2, <1>4, <1>7 DEF UserStep, DisconnectBegins, SetPreferences,
     CreateCodeRead, CreateCodeConsumes, CreateCodeCommits, ConsumeCode,
     CodeExpires, EnqueueLost, EnqueueRead
<1>8. ASSUME NEW w \in Workers,
             ReadBatch(w) \/ Send(w) \/ EndBatch(w) \/ FaultStep(w)
      PROVE  Kept
  BY <1>2, <1>8 DEF ReadBatch, Send, EndBatch, FaultStep, RecordThrows,
     DeliveryThrows, ClaimThrows, Crash, Fault
<1>9. QED
  BY <1>3, <1>5, <1>6, <1>7, <1>8 DEF Next, ProducerStep, WorkerStep

LEMMA SendsKept ==
  ASSUME Next, ~\E w \in Workers : Send(w)
  PROVE  sends' = sends
BY DEF Next, ProducerStep, EnqueueRead, EnqueueWrite, EnqueueLost, UserStep,
   DisconnectBegins, DisconnectCommits, SetPreferences, CreateCodeRead,
   CreateCodeConsumes, CreateCodeCommits, ConsumeCode, CodeExpires, DelayEnds,
   WorkerStep, Claim, ReadBatch, CancelUnwanted, RecordSent, Fail, EndBatch,
   FaultStep, RecordThrows, DeliveryThrows, ClaimThrows, Crash, Fault, history

LEMMA CountedKept ==
  TypeOK /\ OneEach /\ Counted /\ [Next]_vars => Counted'
<1> SUFFICES ASSUME TypeOK, OneEach, Counted, Next, NEW j \in Jobs
             PROVE  /\ sends'[j] + Cardinality(Pending(j)') <= job'[j].attempts
                    /\ job'[j].attempts <= MaxAttempts
                    /\ job'[j].status = "NONE" => job'[j].attempts = 0
  BY DEF Counted, vars, history, Pending
<1>1. /\ sends[j] \in Nat /\ job[j] \in JobRow /\ job[j].attempts \in Nat
      /\ sends[j] + Cardinality(Pending(j)) <= job[j].attempts
      /\ job[j].attempts <= MaxAttempts
      /\ job[j].status = "NONE" => job[j].attempts = 0
      /\ MaxAttempts \in Nat
  BY OutboxAssumption DEF OutboxAssumption, Counted, TypeOK, JobRow
<1>2. ASSUME NEW w \in Workers, Claim(w)
      PROVE  /\ sends'[j] + Cardinality(Pending(j)') <= job'[j].attempts
             /\ job'[j].attempts <= MaxAttempts
             /\ job'[j].status = "NONE" => job'[j].attempts = 0
  <2>1. PICK B \in SUBSET {i \in Jobs : Claimable(job[i])} :
          /\ job' = [i \in Jobs |->
               IF Abandoned(job[i]) THEN Unlocked(job[i], "FAILED")
               ELSE IF i \in B THEN Taken(job[i], w) ELSE job[i]]
          /\ worker'[w].claimed = B /\ worker'[w].deliveries = {}
    BY <1>2, ClaimResult
  <2>2. \A v \in Workers \ {w} : worker'[v] = worker[v]
    BY <1>2, OthersKept DEF WorkerStep
  <2>3. sends' = sends
    BY <1>2 DEF Claim
  <2>4. CASE j \in B
    <3>1. ~Abandoned(job[j]) /\ job[j].attempts < MaxAttempts
      BY <2>4, <1>1 DEF Claimable, Abandoned
    <3>2. job'[j] = Taken(job[j], w)
      BY <2>1, <2>4, <3>1
    <3>3. \A r \in JobRow : /\ Taken(r, w).attempts = r.attempts + 1
                            /\ Taken(r, w).status = "PROCESSING"
      BY DEF Taken, JobRow
    <3>4. Pending(j)' \in SUBSET (Pending(j) \cup {w})
      BY <2>2 DEF Pending
    <3>5. Cardinality(Pending(j)') <= Cardinality(Pending(j)) + 1
      <4>1. /\ IsFiniteSet(Pending(j) \cup {w})
            /\ Cardinality(Pending(j) \cup {w}) \in
                 {Cardinality(Pending(j)), Cardinality(Pending(j)) + 1}
        BY PendingFinite, FS_AddElement
      <4>2. Cardinality(Pending(j)') <= Cardinality(Pending(j) \cup {w})
        BY <3>4, <4>1, FS_Subset
      <4>3. QED
        BY <4>1, <4>2, PendingFinite
    <3>6. QED
      BY <1>1, <2>3, <3>1, <3>2, <3>3, <3>5, PendingFinite
  <2>5. CASE j \notin B
    <3>1. Pending(j)' \in SUBSET Pending(j)
      BY <2>1, <2>2, <2>5 DEF Pending
    <3>2. Cardinality(Pending(j)') <= Cardinality(Pending(j))
      BY <3>1, PendingFinite, FS_Subset
    <3>3. \A r \in JobRow : /\ Unlocked(r, "FAILED").attempts = r.attempts
                            /\ Unlocked(r, "FAILED").status = "FAILED"
      BY DEF Unlocked, JobRow
    <3>4. /\ job'[j].attempts = job[j].attempts
          /\ job'[j].status = "NONE" => job[j].status = "NONE"
      BY <1>1, <2>1, <2>5, <3>3
    <3>5. QED
      BY <1>1, <2>3, <3>2, <3>4, PendingFinite
  <2>6. QED
    BY <2>4, <2>5
<1>3. CASE ~\E w \in Workers : Claim(w)
  <2>1. Pending(j)' \in SUBSET Pending(j)
    BY <1>3, PendingKept DEF Pending
  <2>2. Cardinality(Pending(j)') <= Cardinality(Pending(j))
    BY <2>1, PendingFinite, FS_Subset
  <2>3. /\ job'[j].attempts = job[j].attempts
        /\ job'[j].status = "NONE" => job[j].status = "NONE"
    BY <1>1, <1>3, AttemptsKept
  <2>4. sends'[j] + Cardinality(Pending(j)') <= sends[j] + Cardinality(Pending(j))
    <3>1. CASE sends'[j] = sends[j]
      BY <1>1, <2>2, <3>1, PendingFinite
    <3>2. ASSUME NEW w \in Workers, Send(w), sends'[j] # sends[j]
          PROVE  sends'[j] + Cardinality(Pending(j)')
                   <= sends[j] + Cardinality(Pending(j))
      <4>1. PICK d \in worker[w].deliveries,
                 a \in {"accepted", "failed", "refused"} :
              /\ d.step = "ready"
              /\ sends' = [sends EXCEPT ![d.job] = @ + 1]
              /\ Become(w, d, [d EXCEPT !.step = a])
        BY <3>2 DEF Send
      <4>2. d.job = j /\ sends'[j] = sends[j] + 1
        BY <1>1, <3>2, <4>1 DEF TypeOK
      <4>3. w \in Pending(j)
        BY <4>1, <4>2 DEF Pending
      <4>4. w \notin Pending(j)'
        <5>1. /\ worker'[w].claimed = worker[w].claimed
              /\ worker'[w].deliveries =
                   (worker[w].deliveries \ {d}) \cup {[d EXCEPT !.step = a]}
          BY <4>1, BecomeResult
        <5>2. worker[w].claimed = {}
          BY DEF OneEach
        <5>3. [d EXCEPT !.step = a].step # "ready"
          BY DeliveryIn DEF Delivery
        <5>4. \A e \in worker[w].deliveries \ {d} : e.job # j
          BY <4>2 DEF OneEach
        <5>5. QED
          BY <5>1, <5>2, <5>3, <5>4 DEF Pending
      <4>5. Pending(j)' \in SUBSET (Pending(j) \ {w})
        BY <2>1, <4>4
      <4>6. Cardinality(Pending(j)') <= Cardinality(Pending(j)) - 1
        BY <4>3, <4>5, PendingFinite, FS_RemoveElement, FS_Subset
      <4>7. QED
        BY <1>1, <4>2, <4>6, PendingFinite
    <3>3. QED
      BY <3>1, <3>2, SendsKept
  <2>5. sends'[j] \in Nat
    BY TypeStep DEF TypeOK
  <2>6. QED
    BY <1>1, <2>3, <2>4, <2>5, PendingFinite
<1>4. QED
  BY <1>2, <1>3

\* A provider is asked at most MaxAttempts times for one job, whatever is
\* lost between the request and its record.
THEOREM RequestsBounded == Spec => []SendsBounded
<1>1. Init => OneEach /\ Counted
  <2> SUFFICES ASSUME Init PROVE OneEach /\ Counted
    OBVIOUS
  <2>1. \A j \in Jobs : Pending(j) = {}
    BY DEF Init, Pending, Idle
  <2>2. OneEach
    BY DEF Init, OneEach, Idle
  <2>3. \A j \in Jobs : sends[j] = 0 /\ job[j].attempts = 0
    BY DEF Init, Absent
  <2>4. \A j \in Jobs : Cardinality(Pending(j)) = 0
    BY <2>1, FS_EmptySet
  <2>5. MaxAttempts \in Nat
    BY OutboxAssumption DEF OutboxAssumption
  <2>6. QED
    BY <2>2, <2>3, <2>4, <2>5 DEF Counted
<1>2. TypeOK /\ OneEach /\ Counted => SendsBounded
  <2> SUFFICES ASSUME TypeOK, Counted, NEW j \in Jobs
               PROVE  sends[j] <= MaxAttempts
    BY DEF SendsBounded
  <2>1. sends[j] \in Nat /\ job[j].attempts \in Nat /\ MaxAttempts \in Nat
    BY OutboxAssumption DEF OutboxAssumption, TypeOK, JobRow
  <2>2. QED
    BY <2>1, PendingFinite DEF Counted
<1>3. QED
  BY <1>1, <1>2, TypeCorrect, OneEachKept, CountedKept, PTL DEF Spec
=============================================================================
