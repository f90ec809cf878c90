---------------------------- MODULE BackgroundJobs ----------------------------
(***************************************************************************)
(* The durable job queue (jobs/): every API process runs one polling loop   *)
(* that schedules a row for each kind of work that is due, claims rows and  *)
(* executes their handlers.  A row is claimed by a lock with a time stamp;  *)
(* a lock that grew stale may be taken over, so that two processes can      *)
(* execute one job at the same time and the late one must not settle it.    *)
(*                                                                          *)
(* The work behind a job (expired bookings, check-outs, waitlist, ...) is a *)
(* flag per type: set by the rest of the system, cleared by a handler that  *)
(* runs to its end.  PURGE_JOB_HISTORY and the health log are left out.     *)
(***************************************************************************)
EXTENDS Integers, FiniteSets

CONSTANTS
  Types,          \* BackgroundJobType
  Workers,        \* API processes; a restarted one takes a free name
  Nobody,         \* locked_by of an unlocked row
  Interval,       \* BACKGROUND_JOB_SCHEDULE_INTERVAL_MS
  LockTimeout,    \* BACKGROUND_JOB_LOCK_TIMEOUT_MS
  MaxAttempts,    \* BACKGROUND_JOB_MAX_ATTEMPTS
  BatchSize,      \* DEFAULT_BATCH_SIZE
  Base, MaxBackoff,      \* the delays of retryAt
  Deadline,       \* the liveness properties ask of what happens until then
  LastFault,      \* faults happen until then
  MaxTime, MaxFaults, MaxArrivals    \* bounds of the model

ASSUME JobsAssumption ==
  /\ Nobody \notin Workers
  /\ Interval \in Nat \ {0}
  /\ LockTimeout \in Nat
  /\ MaxAttempts \in Nat \ {0}
  /\ BatchSize \in Nat \ {0}
  /\ Base \in Nat /\ MaxBackoff \in Nat
  /\ MaxTime \in Nat /\ MaxFaults \in Nat /\ MaxArrivals \in Nat

VARIABLES
  now,
  due,        \* [Types -> BOOLEAN]: work that a handler would find
  arrivals,   \* times work became due
  row,        \* [Jobs -> background_jobs row]
  loop,       \* [Workers -> local state of the polling loop]
  faults      \* failed statements, failed handlers and crashes

vars == <<now, due, arrivals, row, loop, faults>>

\* The unique job key: type and scheduling bucket.
Buckets == 0..(MaxTime \div Interval)
Jobs == Types \X Buckets

JobStatuses == {"NONE", "PENDING", "PROCESSING", "RETRY", "COMPLETED", "FAILED"}
Settled == {"COMPLETED", "FAILED"}

Absent == [status |-> "NONE", attempts |-> 0, availableAt |-> 0,
           lockedAt |-> 0, lockedBy |-> Nobody]

\* `at' is the time the current statement sequence took as its now; the runs
\* are the executions of one batch, each with the attempt it was claimed as.
Idle == [phase |-> "idle", at |-> 0, types |-> {}, runs |-> {}, threw |-> FALSE]

Run(j, n, result) == [job |-> j, attempt |-> n, result |-> result]

Init ==
  /\ now = 0
  /\ due = [t \in Types |-> FALSE]
  /\ arrivals = 0
  /\ row = [j \in Jobs |-> Absent]
  /\ loop = [w \in Workers |-> Idle]
  /\ faults = 0

-----------------------------------------------------------------------------
(* BackgroundJobScheduler.enqueueDueJobs.                                   *)

FindDueTypes(w) ==
  /\ loop[w].phase = "idle"
  /\ loop' = [loop EXCEPT ![w].phase = "enqueue", ![w].at = now,
                          ![w].types = {t \in Types : due[t]}]
  /\ UNCHANGED <<now, due, arrivals, row, faults>>

\* Mutant of BucketStart: the job key lacks the bucket.
SameBucket(t) == 0

BucketStart(t) == t \div Interval

\* createMany with skipDuplicates, one row per type and bucket.
EnqueueDueJobs(w) ==
  /\ loop[w].phase = "enqueue"
  /\ LET wanted == {<<t, BucketStart(loop[w].at)>> : t \in loop[w].types}
     IN  row' = [j \in Jobs |->
           IF j \in wanted /\ row[j].status = "NONE"
           THEN [Absent EXCEPT !.status = "PENDING",
                               !.availableAt = loop[w].at]
           ELSE row[j]]
  /\ loop' = [loop EXCEPT ![w].phase = "claim", ![w].types = {}]
  /\ UNCHANGED <<now, due, arrivals, faults>>

-----------------------------------------------------------------------------
(* BackgroundJobWorker.runOnce: claim, then execute all rows claimed.       *)

\* Mutant of Stale: any lock may be taken over.
AnyLock(r, t) == r.status = "PROCESSING"

Stale(r, t) == r.status = "PROCESSING" /\ r.lockedAt < t - LockTimeout

\* Mutants of Claimable: attempts are not bounded; locks are for ever.
ClaimableAgain(r, t) ==
  (r.status \in {"PENDING", "RETRY"} /\ r.availableAt <= t) \/ Stale(r, t)
ClaimableUnlocked(r, t) ==
  /\ r.attempts < MaxAttempts
  /\ r.status \in {"PENDING", "RETRY"} /\ r.availableAt <= t

Claimable(r, t) ==
  /\ r.attempts < MaxAttempts
  /\ \/ r.status \in {"PENDING", "RETRY"} /\ r.availableAt <= t
     \/ Stale(r, t)

\* Mutant of Abandoned: a stale lock alone is enough to give up.
AbandonedEarly(r, t) == Stale(r, t)

Abandoned(r, t) == Stale(r, t) /\ r.attempts >= MaxAttempts

\* The first rows by availableAt, at most BatchSize of them.
Batches(S) ==
  {B \in SUBSET S :
     /\ Cardinality(B) <= BatchSize
     /\ B = S \/ Cardinality(B) = BatchSize
     /\ \A j \in B, k \in S \ B : row[j].availableAt <= row[k].availableAt}

\* One transaction: exhausted rows with a stale lock fail, others are locked.
Claim(w) ==
  /\ loop[w].phase = "claim"
  /\ \E B \in Batches({j \in Jobs : Claimable(row[j], now)}) :
       /\ row' = [j \in Jobs |->
            IF Abandoned(row[j], now)
            THEN [row[j] EXCEPT !.status = "FAILED", !.lockedAt = 0,
                                !.lockedBy = Nobody]
            ELSE IF j \in B
            THEN [row[j] EXCEPT !.status = "PROCESSING", !.attempts = @ + 1,
                                !.lockedAt = now, !.lockedBy = w]
            ELSE row[j]]
       /\ loop' = [loop EXCEPT ![w] =
            IF B = {} THEN Idle
            ELSE [Idle EXCEPT !.phase = "run", !.at = now,
                    !.runs = {Run(j, row[j].attempts + 1, "busy") : j \in B}]]
  /\ UNCHANGED <<now, due, arrivals, faults>>

\* The process of w goes on with run x in state y, or with x gone.
Become(w, x, y) ==
  loop' = [loop EXCEPT ![w].runs = (@ \ {x}) \cup {y}]
Finish(w, x, threw) ==
  loop' = [loop EXCEPT ![w].runs = @ \ {x}, ![w].threw = @ \/ threw]

\* A handler that reaches its end has done the work of its type.
HandlerReturns(w) ==
  \E x \in loop[w].runs :
    /\ x.result = "busy"
    /\ Become(w, x, [x EXCEPT !.result = "ok"])
    /\ due' = [due EXCEPT ![x.job[1]] = FALSE]
    /\ UNCHANGED <<now, arrivals, row, faults>>

\* Mutant of Holds: whose lock it is does not matter.
HeldBySome(w, j) == row[j].status = "PROCESSING"

\* The row is still this process's to settle.
Holds(w, j) == row[j].status = "PROCESSING" /\ row[j].lockedBy = w

Unlocked(r, status) ==
  [r EXCEPT !.status = status, !.lockedAt = 0, !.lockedBy = Nobody]

Complete(w) ==
  \E x \in loop[w].runs :
    /\ x.result = "ok"
    /\ row' = IF Holds(w, x.job)
              THEN [row EXCEPT ![x.job] = Unlocked(@, "COMPLETED")] ELSE row
    /\ Finish(w, x, FALSE)
    /\ UNCHANGED <<now, due, arrivals, faults>>

\* retryAt: doubled for every attempt, up to a ceiling, and counted from the
\* time of the claim.
RetryAt(t, attempts) ==
  LET delay == Base * 2^(attempts - 1)
  IN  t + IF delay < MaxBackoff THEN delay ELSE MaxBackoff

Fail(w) ==
  \E x \in loop[w].runs :
    /\ x.result = "error"
    /\ row' = IF ~Holds(w, x.job) THEN row
              ELSE IF x.attempt >= MaxAttempts
              THEN [row EXCEPT ![x.job] = Unlocked(@, "FAILED")]
              ELSE [row EXCEPT ![x.job] = [Unlocked(@, "RETRY") EXCEPT
                      !.availableAt = RetryAt(loop[w].at, x.attempt)]]
    /\ Finish(w, x, FALSE)
    /\ UNCHANGED <<now, due, arrivals, faults>>

\* All executions are over: the loop claims again, unless one of them threw.
EndBatch(w) ==
  /\ loop[w].phase = "run" /\ loop[w].runs = {}
  /\ loop' = [loop EXCEPT ![w] =
       IF @.threw THEN Idle ELSE [Idle EXCEPT !.phase = "claim"]]
  /\ UNCHANGED <<now, due, arrivals, row, faults>>

-----------------------------------------------------------------------------
(* Failures, the environment and the clock.                                 *)

Fault ==
  /\ faults < MaxFaults /\ now <= LastFault
  /\ faults' = faults + 1
  /\ UNCHANGED <<now, due, arrivals, row>>

\* A handler throws, or the transaction of complete does: fail follows.
ExecutionThrows(w) ==
  /\ Fault
  /\ \E x \in loop[w].runs :
       x.result \in {"busy", "ok"} /\ Become(w, x, [x EXCEPT !.result = "error"])

\* The transaction of fail throws: the row keeps its lock.
FailThrows(w) ==
  /\ Fault
  /\ \E x \in loop[w].runs : x.result = "error" /\ Finish(w, x, TRUE)

\* The process dies, or a statement of the scheduler or of claim fails: what
\* the run had in memory is lost.
Crash(w) ==
  /\ Fault
  /\ loop[w] # Idle
  /\ loop' = [loop EXCEPT ![w] = Idle]

BecomesDue(t) ==
  /\ ~due[t] /\ arrivals < MaxArrivals
  /\ due' = [due EXCEPT ![t] = TRUE]
  /\ arrivals' = arrivals + 1
  /\ UNCHANGED <<now, row, loop, faults>>

Tick ==
  /\ now < MaxTime
  /\ now' = now + 1
  /\ UNCHANGED <<due, arrivals, row, loop, faults>>

WorkerStep(w) ==
  \/ FindDueTypes(w) \/ EnqueueDueJobs(w) \/ Claim(w) \/ HandlerReturns(w)
  \/ Complete(w) \/ Fail(w) \/ EndBatch(w)

FaultStep(w) == ExecutionThrows(w) \/ FailThrows(w) \/ Crash(w)

Next ==
  \/ \E w \in Workers : WorkerStep(w) \/ FaultStep(w)
  \/ \E t \in Types : BecomesDue(t)
  \/ Tick

Spec == Init /\ [][Next]_vars

\* startPollingLoop calls its task at every interval for as long as the
\* process runs (module PollingLoop), and handlers return.
FairSpec == Spec /\ WF_vars(Tick) /\ \A w \in Workers : WF_vars(WorkerStep(w))

-----------------------------------------------------------------------------
(* Properties.                                                              *)

\* Every variable keeps its shape.
TypeOK ==
  /\ now \in Nat /\ arrivals \in Nat /\ faults \in Nat
  /\ due \in [Types -> BOOLEAN]
  /\ row \in [Jobs -> [status : JobStatuses, attempts : 0..MaxAttempts,
                       availableAt : Nat, lockedAt : Nat,
                       lockedBy : Workers \cup {Nobody}]]
  /\ loop \in [Workers ->
       [phase : {"idle", "enqueue", "claim", "run"}, at : Nat,
        types : SUBSET Types, threw : BOOLEAN,
        runs : SUBSET [job : Jobs, attempt : 1..MaxAttempts,
                       result : {"busy", "ok", "error"}]]]

\* Two processes execute one job at once only if the lock of the earlier one
\* had expired when the later one took it over.
ExclusiveUnlessStale ==
  \A v, w \in Workers : \A x \in loop[v].runs, y \in loop[w].runs :
    (v # w /\ x.job = y.job) =>
      \/ x.attempt < y.attempt /\ loop[v].at + LockTimeout < loop[w].at
      \/ y.attempt < x.attempt /\ loop[w].at + LockTimeout < loop[v].at

\* The outcome of an execution is recorded only on the attempt that produced
\* it: the code compares the process name alone, and that must be enough.
OutcomeOfThisAttempt ==
  [][\A w \in Workers : \A x \in loop[w].runs :
       (x \notin loop'[w].runs /\ row'[x.job] # row[x.job])
         => row[x.job].attempts = x.attempt]_vars

\* A settled job is settled for good: a late outcome does not reopen or
\* rename it.
SettledStays ==
  [][\A j \in Jobs : row[j].status \in Settled => row'[j] = row[j]]_vars

\* What a process may rely on when it looks at a row: the rows are leased,
\* attempted and settled as JobLifecycle says.
Leases ==
  [j \in Jobs |-> [status |-> row[j].status, attempts |-> row[j].attempts,
                   holder |-> row[j].lockedBy, since |-> row[j].lockedAt]]

Lifecycle == INSTANCE JobLifecycle WITH lease <- Leases, clock <- now

\* Every job lives the life of a leased job: taken over only from a process
\* whose lock expired, failed only after its last attempt, retried only if an
\* attempt is left, settled once.
LifecycleSpec == Lifecycle!Spec

\* A lock is never lost for ever: whatever crashed or failed to write, the
\* row is taken over or given up.  Deadline leaves room for the timeouts.
NoLockForever ==
  \A j \in Jobs :
    (row[j].status = "PROCESSING" /\ row[j].lockedAt <= Deadline)
      ~> row[j].status # "PROCESSING"

\* Work that becomes due is done although processes crash, handlers throw
\* and the row of the current bucket may be used up or exhausted.
DueWorkDone ==
  \A t \in Types : (due[t] /\ now <= Deadline) ~> ~due[t]
=============================================================================
