-------------------------- MODULE BackgroundJobsProofs --------------------------
(***************************************************************************)
(* Theorems about BackgroundJobs, for any number of job types and API       *)
(* processes and any timeouts.  The invariant says what a process that      *)
(* executes a job knows of its row: it has been claimed as often as when    *)
(* the process claimed it (CurrentRun), or again since, after the lock had  *)
(* expired (PassedRun).                                                     *)
(***************************************************************************)
EXTENDS BackgroundJobs, FiniteSetTheorems, TLAPS

RowShape == [status : JobStatuses, attempts : 0..MaxAttempts,
             availableAt : Nat, lockedAt : Nat,
             lockedBy : Workers \cup {Nobody}]
RunShape == [job : Jobs, attempt : 1..MaxAttempts,
             result : {"busy", "ok", "error"}]
LoopShape == [phase : {"idle", "enqueue", "claim", "run"}, at : Nat,
              types : SUBSET Types, threw : BOOLEAN, runs : SUBSET RunShape]

Shape ==
  /\ now \in Nat
  /\ row \in [Jobs -> RowShape]
  /\ loop \in [Workers -> LoopShape]

\* A process executes only during a run, and a job once.
Quiet ==
  \A w \in Workers :
    /\ loop[w].phase # "run" => loop[w].runs = {}
    /\ \A x, y \in loop[w].runs : x.job = y.job => x = y

\* A row that is not there has nothing in it.
Unclaimed == \A j \in Jobs : row[j].status = "NONE" => row[j] = Absent

CurrentRun(w, x) ==
  x.attempt = row[x.job].attempts =>
    \/ row[x.job].status \in Settled
    \/ Holds(w, x.job) /\ row[x.job].lockedAt = loop[w].at

PassedRun(w, x) ==
  x.attempt < row[x.job].attempts =>
    ~Holds(w, x.job) /\ loop[w].at + LockTimeout < now

RunsKnow ==
  \A w \in Workers : \A x \in loop[w].runs :
    /\ x.attempt <= row[x.job].attempts
    /\ CurrentRun(w, x) /\ PassedRun(w, x)

IInv == Shape /\ Quiet /\ Unclaimed /\ RunsKnow

-----------------------------------------------------------------------------
(* What the helpers return.                                                 *)

\* The provers know nothing of powers but what the library proves of them:
\* 2^n counts the subsets of a set with n elements.
LEMMA PowersOfTwo ==
  ASSUME NEW n \in Nat
  PROVE  2^n \in Nat
<1>1. IsFiniteSet(1..n) /\ Cardinality(1..n) = n
  BY FS_Interval
<1>2. IsFiniteSet(SUBSET (1..n)) /\ Cardinality(SUBSET (1..n)) = 2^n
  BY <1>1, FS_SUBSET
<1>3. QED
  BY <1>2, FS_CardinalityType

\* The back-off ends at some time, and not before the claim it is counted
\* from.
LEMMA RetryAtTyped ==
  ASSUME NEW t \in Nat, NEW n \in 1..MaxAttempts
  PROVE  RetryAt(t, n) \in Nat /\ RetryAt(t, n) >= t
<1> DEFINE p == 2^(n - 1)
<1>1. n - 1 \in Nat /\ Base \in Nat /\ MaxBackoff \in Nat
  BY JobsAssumption
<1>2. p \in Nat
  BY <1>1, PowersOfTwo
<1>3. RetryAt(t, n) = t + IF Base * p < MaxBackoff THEN Base * p ELSE MaxBackoff
  BY DEF RetryAt
<1> HIDE DEF p
<1>4. Base * p \in Nat
  BY <1>1, <1>2
<1>5. QED
  BY <1>1, <1>3, <1>4

LEMMA UnlockedShape ==
  ASSUME NEW r \in RowShape, NEW s \in JobStatuses
  PROVE  /\ Unlocked(r, s) \in RowShape
         /\ Unlocked(r, s).status = s
         /\ Unlocked(r, s).attempts = r.attempts
<1>1. 0 \in Nat
  OBVIOUS
<1>2. QED
  BY <1>1 DEF RowShape, Unlocked

LEMMA DelayedShape ==
  ASSUME NEW r \in RowShape, NEW t \in Nat
  PROVE  /\ [r EXCEPT !.availableAt = t] \in RowShape
         /\ [r EXCEPT !.availableAt = t].status = r.status
         /\ [r EXCEPT !.availableAt = t].attempts = r.attempts
BY DEF RowShape

\* The row of a job that a claim takes.
Taken(r, w, n) ==
  [r EXCEPT !.status = "PROCESSING", !.attempts = n, !.lockedAt = now,
            !.lockedBy = w]

LEMMA TakenShape ==
  ASSUME Shape, NEW r \in RowShape, NEW w \in Workers, NEW n \in 0..MaxAttempts
  PROVE  /\ Taken(r, w, n) \in RowShape
         /\ Taken(r, w, n).status = "PROCESSING"
         /\ Taken(r, w, n).attempts = n
         /\ Taken(r, w, n).lockedAt = now /\ Taken(r, w, n).lockedBy = w
BY DEF Shape, Taken, RowShape, JobStatuses

LEMMA LoopSet ==
  ASSUME Shape, NEW w \in Workers, NEW s, loop' = [loop EXCEPT ![w] = s]
  PROVE  /\ loop'[w] = s /\ \A v \in Workers \ {w} : loop'[v] = loop[v]
         /\ s \in LoopShape => loop' \in [Workers -> LoopShape]
BY DEF Shape

\* The executions of w change, and nothing else of its loop but threw.
LEMMA RunsSet ==
  ASSUME Shape, NEW w \in Workers, NEW R,
         \/ loop' = [loop EXCEPT ![w].runs = R]
         \/ \E b \in BOOLEAN : loop' = [loop EXCEPT ![w].runs = R, ![w].threw = b]
  PROVE  /\ loop'[w].phase = loop[w].phase /\ loop'[w].at = loop[w].at
         /\ loop'[w].runs = R
         /\ \A v \in Workers \ {w} : loop'[v] = loop[v]
         /\ R \in SUBSET RunShape => loop' \in [Workers -> LoopShape]
<1>1. PICK b \in BOOLEAN : loop' = [loop EXCEPT ![w] =
             [loop[w] EXCEPT !.runs = R, !.threw = b]]
  <2>1. loop[w] \in LoopShape
    BY DEF Shape
  <2>2. CASE loop' = [loop EXCEPT ![w].runs = R]
    <3>1. loop[w].threw \in BOOLEAN
      BY <2>1 DEF LoopShape
    <3>2. [loop[w] EXCEPT !.runs = R] =
            [loop[w] EXCEPT !.runs = R, !.threw = loop[w].threw]
      BY <2>1 DEF LoopShape
    <3>3. QED
      BY <2>2, <3>1, <3>2 DEF Shape
  <2>3. ASSUME NEW b \in BOOLEAN,
               loop' = [loop EXCEPT ![w].runs = R, ![w].threw = b]
        PROVE  loop' = [loop EXCEPT ![w] =
                 [loop[w] EXCEPT !.runs = R, !.threw = b]]
    BY <2>3 DEF Shape
  <2>4. QED
    BY <2>2, <2>3
<1>2. loop[w] \in LoopShape
  BY DEF Shape
<1> DEFINE s == [loop[w] EXCEPT !.runs = R, !.threw = b]
<1>3. /\ s.phase = loop[w].phase /\ s.at = loop[w].at /\ s.runs = R
      /\ R \in SUBSET RunShape => s \in LoopShape
  BY <1>2 DEF LoopShape
<1>4. loop' = [loop EXCEPT ![w] = s]
  BY <1>1
<1> HIDE DEF s
<1>5. QED
  BY <1>3, <1>4, LoopSet

LEMMA RunIn ==
  ASSUME Shape, NEW w \in Workers, NEW x \in loop[w].runs
  PROVE  /\ loop[w] \in LoopShape /\ loop[w].runs \subseteq RunShape
         /\ x \in RunShape /\ x.job \in Jobs /\ row[x.job] \in RowShape
         /\ x.attempt \in 1..MaxAttempts
BY DEF Shape, LoopShape, RunShape

\* An execution has come to its end.
LEMMA ResultSet ==
  ASSUME NEW x \in RunShape, NEW r \in {"busy", "ok", "error"}
  PROVE  /\ [x EXCEPT !.result = r] \in RunShape
         /\ [x EXCEPT !.result = r].job = x.job
         /\ [x EXCEPT !.result = r].attempt = x.attempt
BY DEF RunShape

LEMMA IdleShape ==
  /\ Idle \in LoopShape /\ Idle.runs = {}
  /\ [Idle EXCEPT !.phase = "claim"] \in LoopShape
  /\ [Idle EXCEPT !.phase = "claim"].runs = {}
BY DEF Idle, LoopShape

-----------------------------------------------------------------------------
(* The kinds of steps.                                                      *)

\* What worker w does to the executions it has.
GoesOn(w) ==
  \/ loop'[w].runs = {}
  \/ /\ loop'[w].phase = loop[w].phase /\ loop'[w].at = loop[w].at
     /\ \/ loop'[w].runs \subseteq loop[w].runs
        \/ \E x \in loop[w].runs, r \in {"busy", "ok", "error"} :
             loop'[w].runs =
               (loop[w].runs \ {x}) \cup {[x EXCEPT !.result = r]}

\* Worker w records the outcome of one execution, which is then over.
Settles(w) ==
  \E x \in loop[w].runs, s \in {"COMPLETED", "FAILED", "RETRY"} :
    \E r \in RowShape :
      /\ Holds(w, x.job)
      /\ row' = [row EXCEPT ![x.job] = r]
      /\ r.status = s /\ r.attempts = row[x.job].attempts
      /\ loop'[w].runs = loop[w].runs \ {x}

\* Rows are added.
Adds ==
  \A j \in Jobs :
    \/ row'[j] = row[j]
    \/ /\ row[j].status = "NONE"
       /\ row'[j].status = "PENDING" /\ row'[j].attempts = 0

Others(w) == \A v \in Workers \ {w} : loop'[v] = loop[v]

\* A claim: exhausted rows fail, others are taken as their next attempt.
Claims(w) ==
  \E B \in SUBSET {j \in Jobs : Claimable(row[j], now)} :
    /\ loop[w].runs = {}
    /\ \A j \in Jobs :
         \/ /\ Abandoned(row[j], now)
            /\ row'[j].status = "FAILED" /\ row'[j].attempts = row[j].attempts
         \/ ~Abandoned(row[j], now) /\ j \notin B /\ row'[j] = row[j]
         \/ /\ j \in B /\ row'[j].status = "PROCESSING"
            /\ row'[j].attempts = row[j].attempts + 1
            /\ row'[j].lockedAt = now /\ row'[j].lockedBy = w
    /\ \/ B = {} /\ loop'[w].runs = {}
       \/ /\ loop'[w].phase = "run" /\ loop'[w].at = now
          /\ loop'[w].runs = {Run(j, row[j].attempts + 1, "busy") : j \in B}

LEMMA ClaimKind ==
  ASSUME IInv, NEW w \in Workers, Claim(w)
  PROVE  Claims(w) /\ Others(w) /\ now' = now /\ Shape'
<1> USE DEF IInv
<1>1. PICK B \in Batches({j \in Jobs : Claimable(row[j], now)}) :
        /\ row' = [j \in Jobs |->
             IF Abandoned(row[j], now)
             THEN [row[j] EXCEPT !.status = "FAILED", !.lockedAt = 0,
                                 !.lockedBy = Nobody]
             ELSE IF j \in B
             THEN [row[j] EXCEPT !.status = "PROCESSING", !.attempts = @ + 1,
                                 !.lockedAt = now, !.lockedBy = w]
             ELSE row[j]]
        /\ loop' = [loop EXCEPT ![w] =
             IF B = {} THEN Idle
             ELSE [Idle EXCEPT !.phase = "run", !.at = now,
                     !.runs = {Run(j, row[j].attempts + 1, "busy") : j \in B}]]
        /\ loop[w].phase = "claim" /\ now' = now
  BY DEF Claim
<1>2. B \in SUBSET {j \in Jobs : Claimable(row[j], now)}
  BY DEF Batches
<1>3. \A j \in Jobs : row'[j] =
        IF Abandoned(row[j], now) THEN Unlocked(row[j], "FAILED")
        ELSE IF j \in B THEN Taken(row[j], w, row[j].attempts + 1) ELSE row[j]
  BY <1>1 DEF Unlocked, Taken
<1>4. \A j \in B : /\ row[j].attempts + 1 \in 1..MaxAttempts
                   /\ ~Abandoned(row[j], now)
  BY <1>2, JobsAssumption
  DEF JobsAssumption, Claimable, Abandoned, Shape, RowShape
<1>5. \A j \in Jobs :
        /\ row'[j] \in RowShape
        /\ \/ /\ Abandoned(row[j], now)
              /\ row'[j].status = "FAILED" /\ row'[j].attempts = row[j].attempts
           \/ ~Abandoned(row[j], now) /\ j \notin B /\ row'[j] = row[j]
           \/ /\ j \in B /\ row'[j].status = "PROCESSING"
              /\ row'[j].attempts = row[j].attempts + 1
              /\ row'[j].lockedAt = now /\ row'[j].lockedBy = w
  <2> SUFFICES ASSUME NEW j \in Jobs
               PROVE  /\ row'[j] \in RowShape
                      /\ \/ /\ Abandoned(row[j], now)
                            /\ row'[j].status = "FAILED"
                            /\ row'[j].attempts = row[j].attempts
                         \/ /\ ~Abandoned(row[j], now)
                            /\ j \notin B /\ row'[j] = row[j]
                         \/ /\ j \in B /\ row'[j].status = "PROCESSING"
                            /\ row'[j].attempts = row[j].attempts + 1
                            /\ row'[j].lockedAt = now /\ row'[j].lockedBy = w
    OBVIOUS
  <2>1. row[j] \in RowShape /\ "FAILED" \in JobStatuses
    BY DEF Shape, JobStatuses
  <2>2. CASE Abandoned(row[j], now)
    <3>1. row'[j] = Unlocked(row[j], "FAILED")
      BY <1>3, <2>2
    <3>2. QED
      BY <2>1, <2>2, <3>1, UnlockedShape
  <2>3. CASE ~Abandoned(row[j], now) /\ j \notin B
    BY <1>3, <2>1, <2>3
  <2>4. CASE j \in B
    <3>1. row'[j] = Taken(row[j], w, row[j].attempts + 1)
      BY <1>3, <1>4, <2>4
    <3>2. row[j].attempts + 1 \in 0..MaxAttempts
      BY <1>4, <2>4, JobsAssumption DEF JobsAssumption
    <3> DEFINE n == row[j].attempts + 1
    <3>3. row'[j] = Taken(row[j], w, n) /\ n \in 0..MaxAttempts
      BY <3>1, <3>2
    <3> HIDE DEF n
    <3>4. /\ row'[j] \in RowShape /\ row'[j].status = "PROCESSING"
          /\ row'[j].attempts = n
          /\ row'[j].lockedAt = now /\ row'[j].lockedBy = w
      BY <2>1, <3>3, TakenShape
    <3>5. QED
      BY <2>4, <3>4 DEF n
  <2>5. QED
    BY <2>2, <2>3, <2>4
<1> DEFINE R == {Run(j, row[j].attempts + 1, "busy") : j \in B}
<1>6. R \in SUBSET RunShape
  BY <1>2, <1>4 DEF Run, RunShape
<1>7. loop' = [loop EXCEPT ![w] = IF B = {} THEN Idle
                ELSE [Idle EXCEPT !.phase = "run", !.at = now, !.runs = R]]
  BY <1>1
<1> HIDE DEF R
<1>8. [Idle EXCEPT !.phase = "run", !.at = now, !.runs = R]
        \in [phase : {"run"}, at : {now}, runs : {R},
             types : SUBSET Types, threw : BOOLEAN]
  BY DEF Idle
<1>9. /\ Others(w) /\ loop' \in [Workers -> LoopShape]
      /\ \/ B = {} /\ loop'[w].runs = {}
         \/ loop'[w].phase = "run" /\ loop'[w].at = now /\ loop'[w].runs = R
  <2> DEFINE s == [Idle EXCEPT !.phase = "run", !.at = now, !.runs = R]
  <2>1. /\ s.phase = "run" /\ s.at = now /\ s.runs = R /\ s \in LoopShape
    BY <1>6, <1>8 DEF LoopShape, Shape
  <2>2. loop' = [loop EXCEPT ![w] = IF B = {} THEN Idle ELSE s]
    BY <1>7
  <2> HIDE DEF s
  <2>3. CASE B = {}
    BY <2>2, <2>3, LoopSet, IdleShape DEF Others
  <2>4. CASE B # {}
    BY <2>1, <2>2, <2>4, LoopSet DEF Others
  <2>5. QED
    BY <2>3, <2>4
<1>10. row' \in [Jobs -> RowShape]
  BY <1>1, <1>5
<1>11. loop[w].runs = {}
  BY <1>1 DEF Quiet
<1>12. QED
  BY <1>1, <1>2, <1>5, <1>9, <1>10, <1>11 DEF Claims, R, Shape

LEMMA BecomeKind ==
  ASSUME IInv, NEW w \in Workers, NEW x \in loop[w].runs,
         NEW r \in {"busy", "ok", "error"},
         Become(w, x, [x EXCEPT !.result = r])
  PROVE  GoesOn(w) /\ Others(w) /\ loop' \in [Workers -> LoopShape]
<1> DEFINE R == (loop[w].runs \ {x}) \cup {[x EXCEPT !.result = r]}
<1>1. R \in SUBSET RunShape
  BY RunIn, ResultSet DEF IInv
<1>2. loop' = [loop EXCEPT ![w].runs = R]
  BY DEF Become
<1> HIDE DEF R
<1>3. /\ loop'[w].phase = loop[w].phase /\ loop'[w].at = loop[w].at
      /\ loop'[w].runs = R
      /\ Others(w) /\ loop' \in [Workers -> LoopShape]
  BY <1>1, <1>2, RunsSet DEF IInv, Others
<1>4. QED
  BY <1>3 DEF GoesOn, R

LEMMA FinishKind ==
  ASSUME IInv, NEW w \in Workers, NEW x \in loop[w].runs, NEW b \in BOOLEAN,
         Finish(w, x, b)
  PROVE  /\ GoesOn(w) /\ Others(w) /\ loop' \in [Workers -> LoopShape]
         /\ loop'[w].runs = loop[w].runs \ {x}
<1> DEFINE R == loop[w].runs \ {x}
           c == loop[w].threw \/ b
<1>1. R \in SUBSET RunShape /\ c \in BOOLEAN
  BY RunIn DEF IInv
<1>2. loop' = [loop EXCEPT ![w].runs = R, ![w].threw = c]
  BY DEF Finish
<1> HIDE DEF R, c
<1>3. /\ loop'[w].phase = loop[w].phase /\ loop'[w].at = loop[w].at
      /\ loop'[w].runs = R
      /\ Others(w) /\ loop' \in [Workers -> LoopShape]
  BY <1>1, <1>2, RunsSet DEF IInv, Others
<1>4. QED
  BY <1>3 DEF GoesOn, R

\* The execution of x ends, and its row, if still locked, gets an outcome.
LEMMA SettleKind ==
  ASSUME IInv, NEW w \in Workers, NEW x \in loop[w].runs, Finish(w, x, FALSE),
         NEW s \in {"COMPLETED", "FAILED", "RETRY"}, NEW r \in RowShape,
         r.status = s, r.attempts = row[x.job].attempts,
         row' = IF Holds(w, x.job) THEN [row EXCEPT ![x.job] = r] ELSE row
  PROVE  /\ GoesOn(w) /\ Others(w) /\ loop' \in [Workers -> LoopShape]
         /\ row' \in [Jobs -> RowShape]
         /\ Adds \/ Settles(w)
<1>1. /\ GoesOn(w) /\ Others(w) /\ loop' \in [Workers -> LoopShape]
      /\ loop'[w].runs = loop[w].runs \ {x}
  BY FinishKind
<1>2. row' \in [Jobs -> RowShape]
  BY DEF IInv, Shape
<1>3. Adds \/ Settles(w)
  BY <1>1 DEF Adds, Settles
<1>4. QED
  BY <1>1, <1>2, <1>3

LEMMA WorkerKind ==
  ASSUME IInv, NEW w \in Workers, WorkerStep(w) \/ FaultStep(w), ~Claim(w)
  PROVE  /\ GoesOn(w) /\ Others(w) /\ (Adds \/ Settles(w))
         /\ now' = now /\ Shape'
<1> DEFINE Kind == /\ GoesOn(w) /\ Others(w) /\ (Adds \/ Settles(w))
                   /\ now' = now /\ Shape'
<1>1. CASE FindDueTypes(w)
  <2> DEFINE T == {t \in Types : due[t]}
             s == [loop[w] EXCEPT !.phase = "enqueue", !.at = now, !.types = T]
  <2>1. loop[w] \in LoopShape /\ now \in Nat /\ T \in SUBSET Types
    BY DEF IInv, Shape
  <2>2. loop' = [loop EXCEPT ![w] = s]
    BY <1>1 DEF FindDueTypes, IInv, Shape
  <2>3. s \in LoopShape /\ s.runs = loop[w].runs
    <3> HIDE DEF T
    <3>1. QED
      BY <2>1 DEF LoopShape
  <2> HIDE DEF s
  <2>4. loop[w].runs = {}
    BY <1>1 DEF FindDueTypes, IInv, Quiet
  <2>5. GoesOn(w) /\ Others(w) /\ loop' \in [Workers -> LoopShape]
    BY <2>2, <2>3, <2>4, LoopSet DEF IInv, GoesOn, Others
  <2>6. QED
    BY <1>1, <2>5 DEF FindDueTypes, Adds, IInv, Shape
<1>2. CASE EnqueueDueJobs(w)
  <2> DEFINE s == [loop[w] EXCEPT !.phase = "claim", !.types = {}]
             new == [Absent EXCEPT !.status = "PENDING",
                                   !.availableAt = loop[w].at]
  <2>1. loop[w] \in LoopShape /\ loop[w].at \in Nat
    BY DEF IInv, Shape, LoopShape
  <2>2. loop' = [loop EXCEPT ![w] = s]
    BY <1>2 DEF EnqueueDueJobs, IInv, Shape
  <2>3. s \in LoopShape /\ s.runs = loop[w].runs
    BY <2>1 DEF LoopShape
  <2>4. new \in RowShape /\ new.status = "PENDING" /\ new.attempts = 0
    <3> DEFINE t == loop[w].at
    <3>1. t \in Nat /\ 0 \in 0..MaxAttempts /\ 0 \in Nat
      BY <2>1, JobsAssumption DEF JobsAssumption
    <3> HIDE DEF t
    <3>2. QED
      BY <3>1 DEF Absent, RowShape, JobStatuses, t
  <2>5. \A j \in Jobs : row'[j] = row[j]
                      \/ (row[j].status = "NONE" /\ row'[j] = new)
    BY <1>2 DEF EnqueueDueJobs
  <2> HIDE DEF s, new
  <2>6. loop[w].runs = {}
    BY <1>2 DEF EnqueueDueJobs, IInv, Quiet
  <2>7. GoesOn(w) /\ Others(w) /\ loop' \in [Workers -> LoopShape]
    BY <2>2, <2>3, <2>6, LoopSet DEF IInv, GoesOn, Others
  <2>8. Adds
    BY <2>4, <2>5 DEF Adds
  <2>9. row' \in [Jobs -> RowShape]
    BY <1>2, <2>4, <2>5 DEF EnqueueDueJobs, IInv, Shape
  <2>10. QED
    BY <1>2, <2>7, <2>8, <2>9 DEF EnqueueDueJobs, IInv, Shape
<1>3. CASE HandlerReturns(w) \/ ExecutionThrows(w)
  <2>1. PICK x \in loop[w].runs, r \in {"busy", "ok", "error"} :
          Become(w, x, [x EXCEPT !.result = r])
    BY <1>3 DEF HandlerReturns, ExecutionThrows
  <2>2. row' = row /\ now' = now
    BY <1>3 DEF HandlerReturns, ExecutionThrows, Fault
  <2>3. QED
    BY <2>1, <2>2, BecomeKind DEF IInv, Shape, Adds
<1>4. CASE Complete(w)
  <2>1. PICK x \in loop[w].runs :
          /\ row' = IF Holds(w, x.job)
                    THEN [row EXCEPT ![x.job] = Unlocked(@, "COMPLETED")]
                    ELSE row
          /\ Finish(w, x, FALSE) /\ now' = now
    BY <1>4 DEF Complete
  <2>2. row[x.job] \in RowShape /\ x.job \in Jobs
    BY RunIn DEF IInv
  <2> DEFINE r == Unlocked(row[x.job], "COMPLETED")
  <2>3. r \in RowShape /\ r.status = "COMPLETED" /\ r.attempts = row[x.job].attempts
    BY <2>2, UnlockedShape DEF JobStatuses
  <2>4. row' = IF Holds(w, x.job) THEN [row EXCEPT ![x.job] = r] ELSE row
    BY <2>1
  <2> HIDE DEF r
  <2>5. QED
    BY <2>1, <2>3, <2>4, SettleKind DEF IInv, Shape
<1>5. CASE Fail(w)
  <2>1. PICK x \in loop[w].runs :
          /\ row' = IF ~Holds(w, x.job) THEN row
                    ELSE IF x.attempt >= MaxAttempts
                    THEN [row EXCEPT ![x.job] = Unlocked(@, "FAILED")]
                    ELSE [row EXCEPT ![x.job] = [Unlocked(@, "RETRY") EXCEPT
                            !.availableAt = RetryAt(loop[w].at, x.attempt)]]
          /\ Finish(w, x, FALSE) /\ now' = now
    BY <1>5 DEF Fail
  <2>2. /\ row[x.job] \in RowShape /\ x.job \in Jobs
        /\ x.attempt \in 1..MaxAttempts /\ loop[w].at \in Nat
    BY RunIn DEF IInv, LoopShape
  <2> DEFINE f == Unlocked(row[x.job], "FAILED")
             u == Unlocked(row[x.job], "RETRY")
             t == RetryAt(loop[w].at, x.attempt)
             r == [u EXCEPT !.availableAt = t]
  <2>3. f \in RowShape /\ f.status = "FAILED" /\ f.attempts = row[x.job].attempts
    BY <2>2, UnlockedShape DEF JobStatuses
  <2>4. u \in RowShape /\ u.status = "RETRY" /\ u.attempts = row[x.job].attempts
    BY <2>2, UnlockedShape DEF JobStatuses
  <2>5. t \in Nat
    BY <2>2, RetryAtTyped
  <2>6. /\ \/ row' = IF Holds(w, x.job) THEN [row EXCEPT ![x.job] = f] ELSE row
           \/ row' = IF Holds(w, x.job) THEN [row EXCEPT ![x.job] = r] ELSE row
    BY <2>1
  <2> HIDE DEF f, u, t
  <2>7. r \in RowShape /\ r.status = "RETRY" /\ r.attempts = row[x.job].attempts
    BY <2>4, <2>5, DelayedShape
  <2> HIDE DEF r
  <2>8. QED
    BY <2>1, <2>3, <2>6, <2>7, SettleKind DEF IInv, Shape
<1>6. CASE EndBatch(w) \/ Crash(w)
  <2>1. \/ loop' = [loop EXCEPT ![w] = Idle]
        \/ loop' = [loop EXCEPT ![w] = [Idle EXCEPT !.phase = "claim"]]
    BY <1>6 DEF EndBatch, Crash, IInv, Shape
  <2>2. row' = row /\ now' = now
    BY <1>6 DEF EndBatch, Crash, Fault
  <2>3. loop'[w].runs = {} /\ Others(w) /\ loop' \in [Workers -> LoopShape]
    BY <2>1, LoopSet, IdleShape DEF IInv, Others
  <2>4. QED
    BY <2>2, <2>3 DEF GoesOn, Adds, IInv, Shape
<1>7. CASE FailThrows(w)
  <2>1. PICK x \in loop[w].runs : Finish(w, x, TRUE)
    BY <1>7 DEF FailThrows
  <2>2. row' = row /\ now' = now
    BY <1>7 DEF FailThrows, Fault
  <2>3. QED
    BY <2>1, <2>2, FinishKind DEF IInv, Shape, Adds
<1>8. QED
  BY <1>1, <1>2, <1>3, <1>4, <1>5, <1>6, <1>7 DEF WorkerStep, FaultStep

LEMMA StepKinds ==
  ASSUME IInv, [Next]_vars
  PROVE  /\ Shape'
         /\ \/ \E w \in Workers :
                 /\ Others(w) /\ now' = now
                 /\ \/ Claims(w)
                    \/ GoesOn(w) /\ (Adds \/ Settles(w))
            \/ UNCHANGED <<loop, row>> /\ now' >= now
<1>1. ASSUME NEW w \in Workers, WorkerStep(w) \/ FaultStep(w)
      PROVE  /\ Shape' /\ Others(w) /\ now' = now
             /\ Claims(w) \/ (GoesOn(w) /\ (Adds \/ Settles(w)))
  BY <1>1, ClaimKind, WorkerKind
<1>2. ASSUME NEW t \in Types, BecomesDue(t)
      PROVE  Shape' /\ UNCHANGED <<loop, row>> /\ now' >= now
  BY <1>2 DEF BecomesDue, IInv, Shape
<1>3. ASSUME Tick
      PROVE  Shape' /\ UNCHANGED <<loop, row>> /\ now' >= now
  BY <1>3 DEF Tick, IInv, Shape
<1>4. ASSUME UNCHANGED vars
      PROVE  Shape' /\ UNCHANGED <<loop, row>> /\ now' >= now
  BY <1>4 DEF vars, IInv, Shape
<1>5. QED
  BY <1>1, <1>2, <1>3, <1>4 DEF Next

-----------------------------------------------------------------------------
(* The invariant.                                                           *)

\* An execution that goes on is one of before, under the same claim.
LEMMA Source ==
  ASSUME IInv, NEW v \in Workers, GoesOn(v) \/ loop'[v] = loop[v],
         NEW y \in loop'[v].runs
  PROVE  /\ loop'[v].at = loop[v].at
         /\ \E x \in loop[v].runs : x.job = y.job /\ x.attempt = y.attempt
<1>1. CASE loop'[v] = loop[v]
  BY <1>1
<1>2. CASE GoesOn(v)
  <2>1. ASSUME NEW x \in loop[v].runs, NEW r \in {"busy", "ok", "error"},
               loop'[v].runs = (loop[v].runs \ {x}) \cup {[x EXCEPT !.result = r]}
        PROVE  \E z \in loop[v].runs : z.job = y.job /\ z.attempt = y.attempt
    <3>1. /\ [x EXCEPT !.result = r].job = x.job
          /\ [x EXCEPT !.result = r].attempt = x.attempt
      BY RunIn, ResultSet DEF IInv
    <3>2. y \in loop[v].runs \/ y = [x EXCEPT !.result = r]
      BY <2>1
    <3>3. QED
      BY <3>1, <3>2
  <2>2. QED
    BY <1>2, <2>1 DEF GoesOn
<1>3. QED
  BY <1>1, <1>2

LEMMA QuietKept == IInv /\ [Next]_vars => Quiet'
<1> SUFFICES ASSUME IInv, [Next]_vars, NEW v \in Workers
             PROVE  /\ loop'[v].phase # "run" => loop'[v].runs = {}
                    /\ \A x, y \in loop'[v].runs : x.job = y.job => x = y
  BY DEF Quiet
<1>1. /\ loop[v].phase # "run" => loop[v].runs = {}
      /\ \A x, y \in loop[v].runs : x.job = y.job => x = y
  BY DEF IInv, Quiet
<1>2. CASE loop'[v] = loop[v]
  BY <1>1, <1>2
<1>3. CASE Claims(v)
  BY <1>3 DEF Claims, Run
<1>4. CASE GoesOn(v)
  <2>1. ASSUME NEW z \in loop[v].runs, NEW r \in {"busy", "ok", "error"},
               loop'[v].phase = loop[v].phase,
               loop'[v].runs = (loop[v].runs \ {z}) \cup {[z EXCEPT !.result = r]}
        PROVE  /\ loop'[v].phase # "run" => loop'[v].runs = {}
               /\ \A x, y \in loop'[v].runs : x.job = y.job => x = y
    <3> DEFINE e == [z EXCEPT !.result = r]
    <3>1. e.job = z.job /\ loop'[v].runs = (loop[v].runs \ {z}) \cup {e}
      BY <2>1, RunIn, ResultSet DEF IInv
    <3> HIDE DEF e
    <3>2. QED
      BY <1>1, <2>1, <3>1
  <2>2. QED
    BY <1>1, <1>4, <2>1 DEF GoesOn
<1>5. QED
  BY <1>2, <1>3, <1>4, StepKinds DEF Others

LEMMA UnclaimedKept == IInv /\ [Next]_vars => Unclaimed'
<1> SUFFICES ASSUME IInv, [Next]_vars, NEW j \in Jobs, row'[j].status = "NONE"
             PROVE  row'[j] = Absent
  BY DEF Unclaimed
<1>1. row[j].status = "NONE" => row[j] = Absent
  BY DEF IInv, Unclaimed
<1>2. ASSUME NEW w \in Workers, Claims(w)
      PROVE  row'[j] = row[j]
  BY <1>2 DEF Claims
<1>3. ASSUME NEW w \in Workers, Settles(w)
      PROVE  row'[j] = row[j]
  BY <1>3 DEF Settles, IInv, Shape
<1>4. CASE Adds
  BY <1>1, <1>4 DEF Adds
<1>5. QED
  BY <1>1, <1>2, <1>3, <1>4, StepKinds

\* A row is given up or taken.
LEMMA NotBoth ==
  ASSUME IInv, NEW j \in Jobs, Claimable(row[j], now)
  PROVE  ~Abandoned(row[j], now)
<1>1. row[j].attempts \in Nat /\ MaxAttempts \in Nat
  BY JobsAssumption DEF JobsAssumption, IInv, Shape, RowShape
<1>2. row[j].attempts < MaxAttempts
  BY DEF Claimable
<1>3. QED
  BY <1>1, <1>2 DEF Abandoned

\* What a claim by w makes of what v knows.
LEMMA ClaimKnown ==
  ASSUME IInv, NEW w \in Workers, Claims(w), Others(w), now' = now,
         NEW v \in Workers, NEW y \in loop'[v].runs
  PROVE  /\ y.attempt <= row'[y.job].attempts
         /\ CurrentRun(v, y)' /\ PassedRun(v, y)'
<1>1. PICK B \in SUBSET {j \in Jobs : Claimable(row[j], now)} :
        /\ \A j \in Jobs :
             \/ /\ Abandoned(row[j], now)
                /\ row'[j].status = "FAILED" /\ row'[j].attempts = row[j].attempts
             \/ ~Abandoned(row[j], now) /\ j \notin B /\ row'[j] = row[j]
             \/ /\ j \in B /\ row'[j].status = "PROCESSING"
                /\ row'[j].attempts = row[j].attempts + 1
                /\ row'[j].lockedAt = now /\ row'[j].lockedBy = w
        /\ \/ B = {} /\ loop'[w].runs = {}
           \/ /\ loop'[w].phase = "run" /\ loop'[w].at = now
              /\ loop'[w].runs = {Run(j, row[j].attempts + 1, "busy") : j \in B}
  BY DEF Claims
<1>2. CASE v = w
  <2>1. PICK j \in B : y = Run(j, row[j].attempts + 1, "busy")
    BY <1>1, <1>2
  <2>2. y.job = j /\ y.attempt = row[j].attempts + 1
    BY <2>1 DEF Run
  <2>3. ~Abandoned(row[j], now) /\ row[j].attempts \in Nat
    BY <1>1, NotBoth DEF IInv, Shape, RowShape
  <2>4. /\ row'[j].status = "PROCESSING" /\ row'[j].lockedBy = w
        /\ row'[j].attempts = y.attempt
        /\ row'[j].lockedAt = loop'[w].at
    BY <1>1, <1>2, <2>2, <2>3
  <2>5. QED
    BY <1>2, <2>2, <2>3, <2>4 DEF CurrentRun, PassedRun, Holds
<1>3. CASE v # w
  <2>1. loop'[v] = loop[v] /\ y \in loop[v].runs
    BY <1>3 DEF Others
  <2>2. /\ y.job \in Jobs /\ y.attempt \in Nat
        /\ row[y.job].attempts \in Nat /\ row[y.job].lockedAt \in Nat
        /\ loop[v].at \in Nat /\ now \in Nat /\ LockTimeout \in Nat
    BY <2>1, RunIn, JobsAssumption
    DEF JobsAssumption, IInv, RowShape, LoopShape, Shape
  <2>3. /\ y.attempt <= row[y.job].attempts
        /\ CurrentRun(v, y) /\ PassedRun(v, y)
    BY <2>1 DEF IInv, RunsKnow
  <2>4. CASE Abandoned(row[y.job], now) /\ y.job \notin B
    BY <1>1, <2>1, <2>2, <2>3, <2>4
    DEF CurrentRun, PassedRun, Holds, Settled
  <2>5. CASE row'[y.job] = row[y.job]
    BY <2>1, <2>3, <2>5 DEF CurrentRun, PassedRun, Holds
  <2>6. CASE y.job \in B
    <3>1. Claimable(row[y.job], now)
      BY <2>6
    <3>2. /\ row'[y.job].lockedBy = w
          /\ row'[y.job].attempts = row[y.job].attempts + 1
      BY <1>1, <2>2, <2>6, <3>1, NotBoth
    <3>3. loop[v].at + LockTimeout < now
      <4>1. CASE y.attempt < row[y.job].attempts
        BY <2>3, <4>1 DEF PassedRun
      <4>2. CASE y.attempt = row[y.job].attempts
        <5>1. Holds(v, y.job) /\ row[y.job].lockedAt = loop[v].at
          BY <2>3, <3>1, <4>2 DEF CurrentRun, Claimable, Stale, Settled
        <5>2. row[y.job].lockedAt < now - LockTimeout
          BY <3>1, <5>1 DEF Claimable, Holds, Stale
        <5>3. QED
          BY <2>2, <5>1, <5>2
      <4>3. QED
        BY <2>2, <2>3, <4>1, <4>2
    <3>4. y.attempt < row'[y.job].attempts
      BY <2>2, <2>3, <3>2
    <3>5. QED
      BY <1>3, <2>1, <2>2, <3>2, <3>3, <3>4 DEF CurrentRun, PassedRun, Holds
  <2>7. QED
    BY <1>1, <2>2, <2>4, <2>5, <2>6
<1>4. QED
  BY <1>2, <1>3

\* What any other step of w does.
LEMMA StepKnown ==
  ASSUME IInv, NEW w \in Workers, GoesOn(w), Adds \/ Settles(w), Others(w),
         now' = now, NEW v \in Workers, NEW y \in loop'[v].runs
  PROVE  /\ y.attempt <= row'[y.job].attempts
         /\ CurrentRun(v, y)' /\ PassedRun(v, y)'
<1>1. loop'[v].at = loop[v].at
  BY Source DEF Others
<1>2. PICK x \in loop[v].runs : x.job = y.job /\ x.attempt = y.attempt
  BY Source DEF Others
<1>3. /\ x.attempt <= row[x.job].attempts
      /\ CurrentRun(v, x) /\ PassedRun(v, x)
  BY DEF IInv, RunsKnow
<1>4. /\ x.job \in Jobs /\ x.attempt \in 1..MaxAttempts
      /\ row[x.job].attempts \in Nat /\ row \in [Jobs -> RowShape]
  BY RunIn, JobsAssumption DEF JobsAssumption, IInv, RowShape, Shape
<1>5. CASE row'[x.job] = row[x.job]
  BY <1>1, <1>2, <1>3, <1>5 DEF CurrentRun, PassedRun, Holds
<1>6. CASE Adds
  <2>1. row[x.job].status # "NONE"
    BY <1>3, <1>4, JobsAssumption DEF JobsAssumption, IInv, Unclaimed, Absent
  <2>2. QED
    BY <1>4, <1>5, <1>6, <2>1 DEF Adds
<1>7. CASE Settles(w)
  <2>1. PICK z \in loop[w].runs, s \in {"COMPLETED", "FAILED", "RETRY"} :
          \E r \in RowShape :
            /\ Holds(w, z.job)
            /\ row' = [row EXCEPT ![z.job] = r]
            /\ r.status = s /\ r.attempts = row[z.job].attempts
            /\ loop'[w].runs = loop[w].runs \ {z}
    BY <1>7 DEF Settles
  <2>2. CASE x.job # z.job
    BY <1>4, <1>5, <2>1, <2>2
  <2>3. CASE x.job = z.job
    <3>1. /\ Holds(w, x.job) /\ row'[x.job].status # "PROCESSING"
          /\ row'[x.job].attempts = row[x.job].attempts
      BY <1>4, <2>1, <2>3
    <3>2. v # w
      <4>1. SUFFICES ASSUME v = w PROVE FALSE
        OBVIOUS
      <4>2. y \in loop[v].runs \ {z}
        BY <2>1, <4>1
      <4>3. QED
        BY <1>2, <2>3, <4>1, <4>2 DEF IInv, Quiet
    <3>3. x.attempt < row[x.job].attempts
      BY <1>3, <1>4, <3>1, <3>2 DEF CurrentRun, Holds, Settled
    <3>4. loop[v].at + LockTimeout < now
      BY <1>3, <3>3 DEF PassedRun
    <3>5. QED
      BY <1>1, <1>2, <1>3, <1>4, <3>1, <3>3, <3>4
      DEF CurrentRun, PassedRun, Holds
  <2>4. QED
    BY <2>2, <2>3
<1>8. QED
  BY <1>6, <1>7

LEMMA RunsKnowKept == IInv /\ [Next]_vars => RunsKnow'
<1> SUFFICES ASSUME IInv, [Next]_vars PROVE RunsKnow'
  OBVIOUS
<1>1. CASE UNCHANGED <<loop, row>> /\ now' >= now
  <2> SUFFICES ASSUME NEW v \in Workers, NEW y \in loop[v].runs
               PROVE  /\ y.attempt <= row'[y.job].attempts
                      /\ CurrentRun(v, y)' /\ PassedRun(v, y)'
    BY <1>1 DEF RunsKnow
  <2>1. /\ y.attempt <= row[y.job].attempts
        /\ CurrentRun(v, y) /\ PassedRun(v, y)
    BY DEF IInv, RunsKnow
  <2>2. now \in Nat /\ now' \in Nat /\ loop[v].at \in Nat /\ LockTimeout \in Nat
    BY RunIn, StepKinds, JobsAssumption
    DEF JobsAssumption, IInv, Shape, LoopShape
  <2>3. QED
    BY <1>1, <2>1, <2>2 DEF CurrentRun, PassedRun, Holds
<1>2. ASSUME NEW w \in Workers, Others(w), now' = now,
             Claims(w) \/ (GoesOn(w) /\ (Adds \/ Settles(w)))
      PROVE  RunsKnow'
  BY <1>2, ClaimKnown, StepKnown DEF RunsKnow
<1>3. QED
  BY <1>1, <1>2, StepKinds

LEMMA Invariant == Spec => []IInv
<1>1. Init => IInv
  <2> SUFFICES ASSUME Init PROVE IInv
    OBVIOUS
  <2>1. Absent \in RowShape /\ Absent.status = "NONE" /\ Absent.attempts = 0
    BY JobsAssumption
    DEF JobsAssumption, Absent, RowShape, JobStatuses
  <2>2. QED
    BY <2>1, IdleShape
    DEF Init, IInv, Shape, Quiet, Unclaimed, RunsKnow
<1>2. IInv /\ [Next]_vars => IInv'
  BY StepKinds, QuietKept, UnclaimedKept, RunsKnowKept DEF IInv
<1>3. QED
  BY <1>1, <1>2, PTL DEF Spec

-----------------------------------------------------------------------------
(* Theorems.                                                                *)

\* A settled job is settled for good: a late outcome does not reopen or
\* rename it.
THEOREM SettledForGood == Spec => SettledStays
<1>1. ASSUME IInv, [Next]_vars, NEW j \in Jobs, row[j].status \in Settled
      PROVE  row'[j] = row[j]
  <2>1. ASSUME NEW w \in Workers, Claims(w)
        PROVE  row'[j] = row[j]
    BY <1>1, <2>1 DEF Claims, Claimable, Abandoned, Stale, Settled
  <2>2. ASSUME NEW w \in Workers, Settles(w)
        PROVE  row'[j] = row[j]
    BY <1>1, <2>2 DEF Settles, Holds, Settled, IInv, Shape
  <2>3. CASE Adds
    BY <1>1, <2>3 DEF Adds, Settled
  <2>4. QED
    BY <1>1, <2>1, <2>2, <2>3, StepKinds
<1>2. IInv /\ [Next]_vars =>
        [\A j \in Jobs : row[j].status \in Settled => row'[j] = row[j]]_vars
  BY <1>1
<1>3. QED
  BY <1>2, Invariant, PTL DEF Spec, SettledStays

\* An outcome is recorded only on the attempt that produced it, although the
\* code compares the process name alone: whoever took the job again since
\* has its own name on the lock, or is a later run of the same process.
THEOREM OutcomeMatches == Spec => OutcomeOfThisAttempt
<1>1. ASSUME IInv, [Next]_vars, NEW w \in Workers, NEW x \in loop[w].runs,
             x \notin loop'[w].runs, row'[x.job] # row[x.job]
      PROVE  row[x.job].attempts = x.attempt
  <2>1. /\ x.job \in Jobs /\ x.attempt \in 1..MaxAttempts
        /\ row[x.job].attempts \in Nat
    BY <1>1, RunIn, JobsAssumption DEF JobsAssumption, IInv, RowShape
  <2>2. x.attempt <= row[x.job].attempts /\ PassedRun(w, x)
    BY <1>1 DEF IInv, RunsKnow
  <2>3. PICK u \in Workers :
          /\ Others(u)
          /\ Claims(u) \/ (GoesOn(u) /\ (Adds \/ Settles(u)))
    BY <1>1, StepKinds
  <2>4. u = w
    BY <1>1, <2>3 DEF Others
  <2>5. ~Claims(w)
    BY <1>1 DEF Claims
  <2>6. ~Adds
    <3>1. row[x.job].status # "NONE"
      BY <1>1, <2>1, <2>2, JobsAssumption DEF JobsAssumption, IInv, Unclaimed, Absent
    <3>2. QED
      BY <1>1, <2>1, <3>1 DEF Adds
  <2>7. Holds(w, x.job)
    BY <1>1, <2>1, <2>3, <2>4, <2>5, <2>6 DEF Settles, IInv, Shape
  <2>8. QED
    BY <2>1, <2>2, <2>7 DEF PassedRun
<1>2. IInv /\ [Next]_vars =>
        [\A w \in Workers : \A x \in loop[w].runs :
           (x \notin loop'[w].runs /\ row'[x.job] # row[x.job])
             => row[x.job].attempts = x.attempt]_vars
  BY <1>1
<1>3. QED
  BY <1>2, Invariant, PTL DEF Spec, OutcomeOfThisAttempt

\* Execution y overtook execution x of the same job.
Overtook(w, y, v, x) ==
  x.attempt < y.attempt /\ loop[v].at + LockTimeout < loop[w].at

\* A claim overtakes all who execute the job still.
LEMMA ClaimOvertakes ==
  ASSUME IInv, NEW w \in Workers, Claims(w), Others(w), now' = now,
         NEW v \in Workers \ {w}, NEW x \in loop'[v].runs,
         NEW y \in loop'[w].runs, x.job = y.job
  PROVE  Overtook(w, y, v, x)'
<1>1. PICK j \in Jobs :
        /\ Claimable(row[j], now)
        /\ y = Run(j, row[j].attempts + 1, "busy")
        /\ loop'[w].at = now
        /\ \/ Abandoned(row[j], now)
           \/ /\ row'[j].status = "PROCESSING"
              /\ row'[j].attempts = row[j].attempts + 1
              /\ row'[j].lockedBy = w
  BY DEF Claims
<1>2. /\ y.job = j /\ y.attempt = row'[j].attempts
      /\ row'[j].status = "PROCESSING" /\ row'[j].lockedBy = w
  BY <1>1, NotBoth DEF Run
<1>3. /\ x.attempt <= row'[x.job].attempts
      /\ CurrentRun(v, x)' /\ PassedRun(v, x)'
  BY ClaimKnown
<1>4. x.attempt \in Nat /\ row'[j].attempts \in Nat
  <2>1. x \in loop[v].runs
    BY DEF Others
  <2>2. x.attempt \in Nat
    BY <2>1, RunIn, JobsAssumption DEF JobsAssumption, IInv
  <2>3. row[j].attempts \in Nat
    BY <1>1, JobsAssumption DEF JobsAssumption, IInv, Shape, RowShape
  <2>4. QED
    BY <1>1, <2>2, <2>3, NotBoth
<1>5. x.attempt < row'[x.job].attempts
  BY <1>2, <1>3, <1>4 DEF CurrentRun, Holds, Settled
<1>6. QED
  BY <1>1, <1>2, <1>3, <1>5 DEF PassedRun, Overtook

LEMMA ExclusiveKept ==
  IInv /\ ExclusiveUnlessStale /\ [Next]_vars => ExclusiveUnlessStale'
<1> SUFFICES ASSUME IInv, ExclusiveUnlessStale, [Next]_vars,
                    NEW v \in Workers, NEW w \in Workers,
                    NEW x \in loop'[v].runs, NEW y \in loop'[w].runs,
                    v # w, x.job = y.job
             PROVE  Overtook(w, y, v, x)' \/ Overtook(v, x, w, y)'
  BY DEF ExclusiveUnlessStale, Overtook
<1>1. ASSUME GoesOn(v) \/ loop'[v] = loop[v], GoesOn(w) \/ loop'[w] = loop[w]
      PROVE  Overtook(w, y, v, x)' \/ Overtook(v, x, w, y)'
  <2>1. PICK a \in loop[v].runs : a.job = x.job /\ a.attempt = x.attempt
    BY <1>1, Source
  <2>2. PICK b \in loop[w].runs : b.job = y.job /\ b.attempt = y.attempt
    BY <1>1, Source
  <2>3. loop'[v].at = loop[v].at /\ loop'[w].at = loop[w].at
    BY <1>1, Source
  <2>4. Overtook(w, b, v, a) \/ Overtook(v, a, w, b)
    BY <2>1, <2>2 DEF ExclusiveUnlessStale, Overtook
  <2>5. QED
    BY <2>1, <2>2, <2>3, <2>4 DEF Overtook
<1>2. ASSUME NEW u \in Workers, Claims(u), Others(u), now' = now
      PROVE  Overtook(w, y, v, x)' \/ Overtook(v, x, w, y)'
  <2>1. CASE u = w
    BY <1>2, <2>1, ClaimOvertakes
  <2>2. CASE u = v
    BY <1>2, <2>2, ClaimOvertakes
  <2>3. CASE u # v /\ u # w
    BY <1>1, <1>2, <2>3 DEF Others
  <2>4. QED
    BY <2>1, <2>2, <2>3
<1>3. QED
  BY <1>1, <1>2, StepKinds DEF Others

\* Two processes execute one job at once only if the lock of the earlier one
\* had expired when the later one took it over.
THEOREM OneExecutorPerLock == Spec => []ExclusiveUnlessStale
<1>1. Init => ExclusiveUnlessStale
  BY IdleShape DEF Init, ExclusiveUnlessStale
<1>2. QED
  BY <1>1, ExclusiveKept, Invariant, PTL DEF Spec

\* What Shape does not speak of.
RestTyped ==
  arrivals \in Nat /\ faults \in Nat /\ due \in [Types -> BOOLEAN]

LEMMA RestKept == RestTyped /\ [Next]_vars => RestTyped'
<1> SUFFICES ASSUME RestTyped, [Next]_vars PROVE RestTyped'
  OBVIOUS
<1> USE DEF RestTyped
<1>1. ASSUME NEW w \in Workers, HandlerReturns(w) PROVE RestTyped'
  BY <1>1 DEF HandlerReturns
<1>2. ASSUME NEW w \in Workers, WorkerStep(w), ~HandlerReturns(w)
      PROVE  RestTyped'
  BY <1>2
  DEF WorkerStep, FindDueTypes, EnqueueDueJobs, Claim, Complete, Fail, EndBatch
<1>3. ASSUME NEW w \in Workers, FaultStep(w) PROVE RestTyped'
  <2>1. UNCHANGED <<due, arrivals>> /\ faults' = faults + 1
    BY <1>3 DEF FaultStep, ExecutionThrows, FailThrows, Crash, Fault
  <2>2. QED
    BY <2>1
<1>4. ASSUME NEW t \in Types, BecomesDue(t) PROVE RestTyped'
  BY <1>4 DEF BecomesDue
<1>5. CASE Tick \/ UNCHANGED vars
  BY <1>5 DEF Tick, vars
<1>6. QED
  BY <1>1, <1>2, <1>3, <1>4, <1>5 DEF Next

\* Every variable keeps its shape: a row is never claimed more often than
\* MaxAttempts allows, and the time of a retry is a time.
THEOREM TypeCorrect == Spec => []TypeOK
<1>1. Init => RestTyped
  BY DEF Init, RestTyped
<1>2. IInv /\ RestTyped => TypeOK
  BY DEF IInv, Shape, RestTyped, TypeOK, RowShape, LoopShape, RunShape
<1>3. QED
  BY <1>1, <1>2, RestKept, Invariant, PTL DEF Spec

-----------------------------------------------------------------------------
(* The queue implements JobLifecycle.                                       *)

\* The lease of a row.
Lease(r) == [status |-> r.status, attempts |-> r.attempts,
             holder |-> r.lockedBy, since |-> r.lockedAt]

LEMMA LeaseAt ==
  /\ \A j \in Jobs : Leases[j] = Lease(row[j]) /\ Leases'[j] = Lease(row'[j])
  /\ Leases = [j \in Jobs |-> Lease(row[j])]
  /\ Leases' = [j \in Jobs |-> Lease(row'[j])]
BY DEF Leases, Lease

\* What the helpers of the code make of a lease.
LEMMA UnlockedLease ==
  ASSUME NEW r \in RowShape, NEW s
  PROVE  Lease(Unlocked(r, s)) = Lifecycle!Ended(Lease(r), s)
<1> DEFINE u == Unlocked(r, s)
<1>1. /\ u.status = s /\ u.attempts = r.attempts
      /\ u.lockedBy = Nobody /\ u.lockedAt = 0
  BY DEF Unlocked, RowShape
<1> HIDE DEF u
<1>2. Lease(u) = Lifecycle!Ended(Lease(r), s)
  BY <1>1 DEF Lease, Lifecycle!Ended
<1>3. QED
  BY <1>2 DEF u

LEMMA DelayedLease ==
  ASSUME NEW r \in RowShape, NEW t
  PROVE  Lease([r EXCEPT !.availableAt = t]) = Lease(r)
BY DEF Lease, RowShape

LEMMA TakenLease ==
  ASSUME NEW r \in RowShape, NEW w, NEW n
  PROVE  Lease(Taken(r, w, n)) = [status |-> "PROCESSING", attempts |-> n,
                                  holder |-> w, since |-> now]
<1> DEFINE k == Taken(r, w, n)
<1>1. /\ k.status = "PROCESSING" /\ k.attempts = n
      /\ k.lockedBy = w /\ k.lockedAt = now
  BY DEF Taken, RowShape
<1> HIDE DEF k
<1>2. Lease(k) = [status |-> "PROCESSING", attempts |-> n,
                  holder |-> w, since |-> now]
  BY <1>1 DEF Lease
<1>3. QED
  BY <1>2 DEF k

LEMMA EnqueueLeases ==
  ASSUME IInv, NEW w \in Workers, EnqueueDueJobs(w)
  PROVE  Lifecycle!Next
<1> DEFINE new == [Absent EXCEPT !.status = "PENDING",
                                 !.availableAt = loop[w].at]
           wanted == {<<t, BucketStart(loop[w].at)>> : t \in loop[w].types}
           S == {j \in Jobs : j \in wanted /\ row[j].status = "NONE"}
<1>1. /\ now' = now
      /\ \A j \in Jobs : row'[j] = IF j \in S THEN new ELSE row[j]
  BY DEF EnqueueDueJobs
<1>2. \A j \in S : row[j] = Absent
  BY DEF IInv, Unclaimed
<1>3. Lease(new) = [Lifecycle!Free EXCEPT !.status = "PENDING"]
  BY DEF Lease, Absent, Lifecycle!Free
<1>4. Lease(Absent) = Lifecycle!Free
  BY DEF Lease, Absent, Lifecycle!Free
<1>5. S \in SUBSET Jobs
  OBVIOUS
<1> HIDE DEF new, S
<1>6. \A j \in S : Leases[j] = Lifecycle!Free
  BY <1>2, <1>4, <1>5, LeaseAt
<1>7. Leases' = [j \in Jobs |->
        IF j \in S THEN [Lifecycle!Free EXCEPT !.status = "PENDING"]
        ELSE Leases[j]]
  BY <1>1, <1>3, LeaseAt
<1>8. Lifecycle!Enqueue(S)
  BY <1>1, <1>6, <1>7 DEF Lifecycle!Enqueue
<1>9. QED
  BY <1>5, <1>8 DEF Lifecycle!Next

LEMMA ClaimLeases ==
  ASSUME IInv, NEW w \in Workers, Claim(w)
  PROVE  Lifecycle!Next
<1>1. PICK B \in SUBSET {j \in Jobs : Claimable(row[j], now)} :
        /\ now' = now
        /\ \A j \in Jobs : row'[j] =
             IF Abandoned(row[j], now) THEN Unlocked(row[j], "FAILED")
             ELSE IF j \in B THEN Taken(row[j], w, row[j].attempts + 1)
             ELSE row[j]
  BY DEF Claim, Batches, Unlocked, Taken
<1> DEFINE gone == {j \in Jobs : Abandoned(row[j], now)}
<1>2. \A j \in Jobs :
        /\ row[j] \in RowShape /\ row[j].attempts \in 0..MaxAttempts
        /\ row[j].lockedAt \in Nat
        /\ Lease(row[j]).attempts = row[j].attempts
        /\ Lease(row[j]).status = row[j].status
        /\ Lease(row[j]).since = row[j].lockedAt
  BY DEF IInv, Shape, RowShape, Lease
<1>3. now \in Nat /\ LockTimeout \in Nat /\ MaxAttempts \in Nat
  BY JobsAssumption DEF JobsAssumption, IInv, Shape
<1>4. \A j \in Jobs : Stale(row[j], now) => Lifecycle!RunOut(Leases[j])
  BY <1>2, <1>3, LeaseAt DEF Stale, Lifecycle!RunOut
<1>5. \A j \in gone : /\ Lifecycle!RunOut(Leases[j])
                      /\ Leases[j].attempts = MaxAttempts
  BY <1>2, <1>3, <1>4, LeaseAt DEF Abandoned
<1>6. \A j \in B :
        /\ Leases[j].attempts < MaxAttempts
        /\ \/ Leases[j].status \in {"PENDING", "RETRY"}
           \/ Lifecycle!RunOut(Leases[j])
  BY <1>1, <1>2, <1>4, LeaseAt DEF Claimable
<1>7. gone \in SUBSET Jobs /\ B \in SUBSET Jobs
  BY <1>1
<1>8. ASSUME NEW j \in Jobs
      PROVE  Lease(row'[j]) =
        IF j \in gone THEN Lifecycle!Ended(Leases[j], "FAILED")
        ELSE IF j \in B
        THEN [status |-> "PROCESSING", attempts |-> Leases[j].attempts + 1,
              holder |-> w, since |-> now]
        ELSE Leases[j]
  <2>1. Leases[j] = Lease(row[j]) /\ Leases[j].attempts = row[j].attempts
    BY <1>2, <1>8, LeaseAt
  <2>2. CASE j \in gone
    <3>1. row'[j] = Unlocked(row[j], "FAILED")
      BY <1>1, <1>8, <2>2
    <3>2. QED
      BY <1>2, <1>8, <2>1, <2>2, <3>1, UnlockedLease
  <2>3. CASE j \notin gone /\ j \in B
    <3>1. row'[j] = Taken(row[j], w, row[j].attempts + 1)
      BY <1>1, <1>8, <2>3
    <3>2. QED
      BY <1>2, <1>8, <2>1, <2>3, <3>1, TakenLease
  <2>4. CASE j \notin gone /\ j \notin B
    BY <1>1, <1>8, <2>1, <2>4
  <2>5. QED
    BY <2>2, <2>3, <2>4
<1> HIDE DEF gone
<1>9. Leases' = [j \in Jobs |->
        IF j \in gone THEN Lifecycle!Ended(Leases[j], "FAILED")
        ELSE IF j \in B
        THEN [status |-> "PROCESSING", attempts |-> Leases[j].attempts + 1,
              holder |-> w, since |-> now]
        ELSE Leases[j]]
  BY <1>8, LeaseAt
<1>10. Lifecycle!Sweep(w, gone, B)
  BY <1>1, <1>5, <1>6, <1>9 DEF Lifecycle!Sweep
<1>11. QED
  BY <1>7, <1>10 DEF Lifecycle!Next

\* Who still holds the lock executes the attempt the row counts.
LEMMA HolderIsCurrent ==
  ASSUME IInv, NEW w \in Workers, NEW x \in loop[w].runs, Holds(w, x.job)
  PROVE  x.attempt = row[x.job].attempts
<1>1. x.attempt \in Nat /\ row[x.job].attempts \in Nat
  BY RunIn, JobsAssumption DEF JobsAssumption, IInv, RowShape
<1>2. QED
  BY <1>1 DEF IInv, RunsKnow, PassedRun

\* A row that is held gets an outcome.
LEMMA OutcomeLeases ==
  ASSUME IInv, NEW j \in Jobs, row[j].status = "PROCESSING", now' = now, NEW r,
         NEW s \in Lifecycle!Outcomes(row[j].attempts),
         Lease(r) = Lifecycle!Ended(Lease(row[j]), s),
         row' = [row EXCEPT ![j] = r]
  PROVE  Lifecycle!Next
<1>1. row \in [Jobs -> RowShape]
  BY DEF IInv, Shape
<1>2. Leases[j].status = "PROCESSING" /\ Leases[j].attempts = row[j].attempts
  BY LeaseAt DEF Lease
<1>3. Leases' = [Leases EXCEPT ![j] = Lifecycle!Ended(@, s)]
  BY <1>1, LeaseAt
<1>4. Lifecycle!Settle(j)
  BY <1>2, <1>3 DEF Lifecycle!Settle
<1>5. QED
  BY <1>4 DEF Lifecycle!Next

LEMMA CompleteLeases ==
  ASSUME IInv, NEW w \in Workers, Complete(w)
  PROVE  Lifecycle!Next \/ UNCHANGED <<row, now>>
<1>1. PICK x \in loop[w].runs :
        /\ row' = IF Holds(w, x.job)
                  THEN [row EXCEPT ![x.job] = Unlocked(@, "COMPLETED")]
                  ELSE row
        /\ now' = now
  BY DEF Complete
<1>2. x.job \in Jobs /\ row[x.job] \in RowShape
  BY RunIn DEF IInv
<1>3. CASE Holds(w, x.job)
  <2> DEFINE r == Unlocked(row[x.job], "COMPLETED")
  <2>1. row' = [row EXCEPT ![x.job] = r]
    BY <1>1, <1>3
  <2>2. Lease(r) = Lifecycle!Ended(Lease(row[x.job]), "COMPLETED")
    BY <1>2, UnlockedLease
  <2>3. "COMPLETED" \in Lifecycle!Outcomes(row[x.job].attempts)
    BY DEF Lifecycle!Outcomes
  <2> HIDE DEF r
  <2>4. QED
    BY <1>1, <1>2, <1>3, <2>1, <2>2, <2>3, OutcomeLeases DEF Holds
<1>4. QED
  BY <1>1, <1>3

LEMMA FailLeases ==
  ASSUME IInv, NEW w \in Workers, Fail(w)
  PROVE  Lifecycle!Next \/ UNCHANGED <<row, now>>
<1>1. PICK x \in loop[w].runs :
        /\ row' = IF ~Holds(w, x.job) THEN row
                  ELSE IF x.attempt >= MaxAttempts
                  THEN [row EXCEPT ![x.job] = Unlocked(@, "FAILED")]
                  ELSE [row EXCEPT ![x.job] = [Unlocked(@, "RETRY") EXCEPT
                          !.availableAt = RetryAt(loop[w].at, x.attempt)]]
        /\ now' = now
  BY DEF Fail
<1>2. /\ x.job \in Jobs /\ row[x.job] \in RowShape
      /\ x.attempt \in Nat /\ MaxAttempts \in Nat
  BY RunIn, JobsAssumption DEF JobsAssumption, IInv
<1>3. CASE Holds(w, x.job) /\ x.attempt >= MaxAttempts
  <2> DEFINE r == Unlocked(row[x.job], "FAILED")
  <2>1. row' = [row EXCEPT ![x.job] = r]
    BY <1>1, <1>3
  <2>2. Lease(r) = Lifecycle!Ended(Lease(row[x.job]), "FAILED")
    BY <1>2, UnlockedLease
  <2>3. "FAILED" \in Lifecycle!Outcomes(row[x.job].attempts)
    BY <1>2, <1>3, HolderIsCurrent DEF Lifecycle!Outcomes
  <2> HIDE DEF r
  <2>4. QED
    BY <1>1, <1>2, <1>3, <2>1, <2>2, <2>3, OutcomeLeases DEF Holds
<1>4. CASE Holds(w, x.job) /\ ~(x.attempt >= MaxAttempts)
  <2> DEFINE u == Unlocked(row[x.job], "RETRY")
             t == RetryAt(loop[w].at, x.attempt)
             r == [u EXCEPT !.availableAt = t]
  <2>1. row' = [row EXCEPT ![x.job] = r]
    BY <1>1, <1>4
  <2>2. Lease(r) = Lifecycle!Ended(Lease(row[x.job]), "RETRY")
    <3>1. u \in RowShape
      BY <1>2, UnlockedShape DEF JobStatuses
    <3>2. Lease(u) = Lifecycle!Ended(Lease(row[x.job]), "RETRY")
      BY <1>2, UnlockedLease
    <3> HIDE DEF u, t
    <3>3. Lease(r) = Lease(u)
      BY <3>1, DelayedLease
    <3>4. QED
      BY <3>2, <3>3
  <2>3. "RETRY" \in Lifecycle!Outcomes(row[x.job].attempts)
    BY <1>2, <1>4, HolderIsCurrent DEF Lifecycle!Outcomes
  <2> HIDE DEF u, t, r
  <2>4. QED
    BY <1>1, <1>2, <1>4, <2>1, <2>2, <2>3, OutcomeLeases DEF Holds
<1>5. QED
  BY <1>1, <1>3, <1>4

LEMMA LifecycleStep ==
  ASSUME IInv, [Next]_vars
  PROVE  [Lifecycle!Next]_(Lifecycle!vars)
<1>1. UNCHANGED <<row, now>> => UNCHANGED Lifecycle!vars
  BY DEF Leases, Lifecycle!vars
<1>2. ASSUME NEW w \in Workers, WorkerStep(w) \/ FaultStep(w)
      PROVE  Lifecycle!Next \/ UNCHANGED <<row, now>>
  <2>1. CASE EnqueueDueJobs(w) \/ Claim(w) \/ Complete(w) \/ Fail(w)
    BY <2>1, EnqueueLeases, ClaimLeases, CompleteLeases, FailLeases
  <2>2. CASE FindDueTypes(w) \/ HandlerReturns(w) \/ EndBatch(w)
    BY <2>2 DEF FindDueTypes, HandlerReturns, EndBatch
  <2>3. CASE FaultStep(w)
    BY <2>3 DEF FaultStep, ExecutionThrows, FailThrows, Crash, Fault
  <2>4. QED
    BY <1>2, <2>1, <2>2, <2>3 DEF WorkerStep
<1>3. CASE Tick
  <2>1. now' = now + 1 /\ Leases' = Leases
    BY <1>3 DEF Tick, Leases
  <2>2. QED
    BY <2>1 DEF Lifecycle!Tick, Lifecycle!Next
<1>4. ASSUME NEW t \in Types, BecomesDue(t) PROVE UNCHANGED <<row, now>>
  BY <1>4 DEF BecomesDue
<1>5. CASE UNCHANGED vars
  BY <1>1, <1>5 DEF vars
<1>6. QED
  BY <1>1, <1>2, <1>3, <1>4, <1>5 DEF Next

\* However many processes claim, execute, crash and settle at once, every job
\* lives the life of a leased job: it is taken over only from a process whose
\* lock expired, it fails after its last attempt and not before, and a retry
\* always has an attempt left.
THEOREM ImplementsLifecycle == Spec => LifecycleSpec
<1>1. Init => Lifecycle!Init
  BY DEF Init, Leases, Absent, Lifecycle!Init, Lifecycle!Free
<1>2. IInv /\ [Next]_vars => [Lifecycle!Next]_(Lifecycle!vars)
  BY LifecycleStep
<1>3. QED
  BY <1>1, <1>2, Invariant, PTL DEF Spec, LifecycleSpec, Lifecycle!Spec
=============================================================================
