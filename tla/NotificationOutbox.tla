--------------------------- MODULE NotificationOutbox ---------------------------
(***************************************************************************)
(* notification/: the outbox of notification jobs, the workers of all API   *)
(* processes that deliver them, the preferences of users and the LINE       *)
(* accounts they link with one-time codes.                                  *)
(*                                                                          *)
(* A job is one notice on one channel; the pair stands for its idempotency  *)
(* key.  Notices go to users on PRO; their booking, type and text are left  *)
(* out, and a preference is about a channel.  Retention of old jobs and the *)
(* rate limits of the routes are left out.                                  *)
(*                                                                          *)
(* There is no clock: that a delay is over (a back-off, the timeout of a    *)
(* lock, the life of a code) is a step of its own, at any time.  Which due  *)
(* jobs a claim takes first is left open.                                   *)
(***************************************************************************)
EXTENDS Integers, FiniteSets

CONSTANTS
  Users, NoUser,
  Notices, Recipient,           \* [Notices -> Users]
  Channels,                     \* among EMAIL and LINE
  Accounts, EmailAddress,       \* where messages arrive
  Codes,                        \* line_link_codes
  Workers, Nobody,              \* worker ids; locked_by of an unlocked job
  MaxAttempts, BatchSize,
  Producers,                    \* calls of enqueueBooking in flight
  CodeCalls,                    \* calls of createCode in flight
  MaxFaults                     \* bound of the model

ASSUME OutboxAssumption ==
  /\ NoUser \notin Users
  /\ Recipient \in [Notices -> Users]
  /\ Channels \subseteq {"EMAIL", "LINE"}
  /\ EmailAddress \notin Accounts
  /\ Nobody \notin Workers /\ IsFiniteSet(Workers)
  /\ MaxAttempts \in Nat \ {0} /\ BatchSize \in Nat \ {0}
  /\ MaxFaults \in Nat

VARIABLES
  job,        \* [Jobs -> notification_jobs row]
  wants,      \* [Users -> channels that are switched on]
  link,       \* [Users -> at most one account], line_user_id
  code,       \* [Codes -> line_link_codes row]
  enqueuing,  \* [Producers -> at most one call, with what it read]
  coding,     \* [CodeCalls -> at most one call, with what it read]
  leaving,    \* [Users -> at most one disconnect, with what it locked]
  worker,     \* [Workers -> local state of the delivery loop]
  faults,     \* failed statements and crashes
  sends,      \* history: [Jobs -> requests made to the provider]
  gaveUp      \* history: [Workers -> users who gave up a channel or an
              \* account since the worker's last claim]

calls == <<enqueuing, coding, leaving>>
history == <<sends, gaveUp>>
vars == <<job, wants, link, code, calls, worker, faults, history>>

Jobs == Notices \X Channels
UserOf(j) == Recipient[j[1]]
Addresses == Accounts \cup {EmailAddress}

Waiting == {"PENDING", "RETRY"}
Settled == {"SENT", "FAILED", "CANCELLED"}
Open == Waiting \cup {"PROCESSING"}
\* `ready': available_at has come; of a locked job, its lock has expired.
Absent == [status |-> "NONE", attempts |-> 0, ready |-> FALSE,
           lockedBy |-> Nobody]
JobRow == [status : {"NONE"} \cup Open \cup Settled, attempts : Nat,
           ready : BOOLEAN, lockedBy : Workers \cup {Nobody}]

\* `old' is history: a disconnect of the user has begun since the code exists.
Unused == [state |-> "none", user |-> NoUser, old |-> FALSE]
CodeRow == [state : {"none", "live", "over"}, user : Users \cup {NoUser},
            old : BOOLEAN]

\* A delivery keeps the recipient it read, and what came of the request.
Idle == [phase |-> "idle", claimed |-> {}, deliveries |-> {}, threw |-> FALSE]
Delivery == [job : Jobs, attempt : Nat, to : SUBSET Addresses,
             step : {"ready", "accepted", "failed", "refused"}]
WorkerState == [phase : {"idle", "claimed", "run", "stopped"},
                claimed : SUBSET Jobs, deliveries : SUBSET Delivery,
                threw : BOOLEAN]

Init ==
  /\ job = [j \in Jobs |-> Absent]
  /\ wants = [u \in Users |-> Channels]
  /\ link = [u \in Users |-> {}]
  /\ code = [c \in Codes |-> Unused]
  /\ enqueuing = [p \in Producers |-> {}]
  /\ coding = [k \in CodeCalls |-> {}]
  /\ leaving = [u \in Users |-> {}]
  /\ worker = [w \in Workers |-> Idle]
  /\ faults = 0
  /\ sends = [j \in Jobs |-> 0]
  /\ gaveUp = [w \in Workers |-> {}]

-----------------------------------------------------------------------------
(* Producers: NotificationService.enqueueBooking, outside the transaction   *)
(* of the booking it is about.                                              *)

\* Where a message to u on channel c goes, if anywhere.
Destination(u, c) ==
  IF c \notin wants[u] THEN {}
  ELSE IF c = "EMAIL" THEN {EmailAddress} ELSE link[u]

\* The user, the preferences and the link are read ...
EnqueueRead(p, n) ==
  /\ enqueuing[p] = {}
  /\ LET J == {j \in Jobs : j[1] = n /\ Destination(UserOf(j), j[2]) # {}}
     IN  J # {} /\ enqueuing' = [enqueuing EXCEPT ![p] = {J}]
  /\ UNCHANGED <<job, wants, link, code, coding, leaving, worker, faults,
                 history>>

\* ... and the jobs inserted, those that are there already skipped.
EnqueueWrite(p) ==
  \E J \in enqueuing[p] :
    /\ job' = [j \in Jobs |->
         IF j \in J /\ job[j].status = "NONE"
         THEN [Absent EXCEPT !.status = "PENDING", !.ready = TRUE]
         ELSE job[j]]
    /\ enqueuing' = [enqueuing EXCEPT ![p] = {}]
    /\ UNCHANGED <<wants, link, code, coding, leaving, worker, faults,
                   history>>

\* Errors are swallowed (safelyEnqueueBooking), or the process dies.
EnqueueLost(p) ==
  /\ enqueuing[p] # {}
  /\ enqueuing' = [enqueuing EXCEPT ![p] = {}]
  /\ UNCHANGED <<job, wants, link, code, coding, leaving, worker, faults,
                 history>>

GivesUp(u, something) ==
  gaveUp' = IF something THEN [w \in Workers |-> gaveUp[w] \cup {u}] ELSE gaveUp

\* updatePreferences.
SetPreferences(u, C) ==
  /\ C # wants[u]
  /\ wants' = [wants EXCEPT ![u] = C]
  /\ GivesUp(u, ~(wants[u] \subseteq C))
  /\ UNCHANGED <<job, link, code, calls, worker, faults, sends>>

-----------------------------------------------------------------------------
(* LineLinkService.  createCode and disconnect are READ COMMITTED and span  *)
(* several statements; consumeCode is SERIALIZABLE and one step.            *)

LiveCodes(u) == {c \in Codes : code[c].state = "live" /\ code[c].user = u}

\* Codes consumed by a transaction that has not committed: their use waits
\* and then fails.  Another such transaction waits too, but goes on with the
\* codes its statement saw when it began.
LockedCodes ==
  {c \in Codes :
     \/ \E u \in Users : \E tx \in leaving[u] : c \in tx.codes
     \/ \E k \in CodeCalls : \E call \in coding[k] : c \in call.codes}

\* Used, replaced or expired.
Over(row) == [row EXCEPT !.state = "over", !.old = FALSE]

Consume(C) ==
  [c \in Codes |-> IF c \in C THEN Over(code[c]) ELSE code[c]]

\* createCode: the user is not linked, ...
CreateCodeRead(k, u) ==
  /\ coding[k] = {} /\ link[u] = {}
  /\ coding' = [coding EXCEPT ![k] =
       {[user |-> u, stage |-> "checked", codes |-> {}]}]
  /\ UNCHANGED <<job, wants, link, code, enqueuing, leaving, worker,
                 faults, history>>

\* ... the transaction consumes the codes it sees, ...
CreateCodeConsumes(k) ==
  \E call \in coding[k] :
    /\ call.stage = "checked"
    /\ coding' = [coding EXCEPT ![k] =
         {[call EXCEPT !.stage = "consumed", !.codes = LiveCodes(call.user)]}]
    /\ UNCHANGED <<job, wants, link, code, enqueuing, leaving, worker,
                   faults, history>>

\* ... and adds its own.
CreateCodeCommits(k) ==
  \E call \in coding[k] :
    /\ call.stage = "consumed"
    /\ \E c \in Codes : code[c].state = "none"
    /\ code' = [Consume(call.codes) EXCEPT
         ![CHOOSE c \in Codes : code[c].state = "none"] =
           [state |-> "live", user |-> call.user, old |-> FALSE]]
    /\ coding' = [coding EXCEPT ![k] = {}]
    /\ UNCHANGED <<job, wants, link, enqueuing, leaving, worker, faults,
                   history>>

\* consumeCode, from the webhook of account a.  The owner of the code may be
\* linked already; an account that is somebody else's is refused.
ConsumeCode(a, c) ==
  LET u == code[c].user
  IN  /\ code[c].state = "live"
      /\ c \notin LockedCodes
      /\ \A v \in Users \ {u} : a \notin link[v]
      /\ code' = Consume({c})
      /\ link' = [link EXCEPT ![u] = {a}]
      /\ GivesUp(u, ~(link[u] \subseteq {a}))
      /\ UNCHANGED <<job, wants, calls, worker, faults, sends>>

\* The ten minutes of a code are over.
CodeExpires(c) ==
  /\ code[c].state = "live"
  /\ code' = Consume({c})
  /\ UNCHANGED <<job, wants, link, calls, worker, faults, history>>

\* Mutant of CodesToConsume: a linked user is thought to have none.
NoCodesToConsume(u) == {}

CodesToConsume(u) == LiveCodes(u)

LineJobsOf(u) ==
  {j \in Jobs : UserOf(j) = u /\ j[2] = "LINE" /\ job[j].status \in Waiting}

\* disconnect: live codes and waiting LINE jobs are written (and locked) ...
DisconnectBegins(u) ==
  /\ leaving[u] = {}
  /\ leaving' = [leaving EXCEPT ![u] = 
       {[codes |-> CodesToConsume(u), jobs |-> LineJobsOf(u)]}]
  /\ code' = [c \in Codes |-> [code[c] EXCEPT !.old = @ \/ c \in LiveCodes(u)]]
  /\ UNCHANGED <<job, wants, link, enqueuing, coding, worker, faults, history>>

\* ... and the account is taken off the user.
DisconnectCommits(u) ==
  \E tx \in leaving[u] :
    /\ code' = Consume(tx.codes)
    /\ job' = [j \in Jobs |->
         IF j \in tx.jobs THEN [job[j] EXCEPT !.status = "CANCELLED"] ELSE job[j]]
    /\ link' = [link EXCEPT ![u] = {}]
    /\ GivesUp(u, link[u] # {})
    /\ leaving' = [leaving EXCEPT ![u] = {}]
    /\ UNCHANGED <<wants, enqueuing, coding, worker, faults, sends>>

-----------------------------------------------------------------------------
(* NotificationWorker.runOnce.                                              *)

LockedJobs ==
  {j \in Jobs : \E u \in Users : \E tx \in leaving[u] : j \in tx.jobs}

\* Mutant of Abandoned: exhausted jobs keep their lock.
NeverAbandoned(r) == FALSE

Abandoned(r) ==
  r.status = "PROCESSING" /\ r.ready /\ r.attempts >= MaxAttempts

Claimable(r) == r.status \in Open /\ r.ready /\ r.attempts < MaxAttempts

Batches(S) ==
  {B \in SUBSET S : B = S \/ Cardinality(B) = BatchSize}
    \cap {B \in SUBSET S : Cardinality(B) <= BatchSize}

Unlocked(r, status) ==
  [r EXCEPT !.status = status, !.ready = FALSE, !.lockedBy = Nobody]

\* Mutant of Taken: attempts are counted when they fail.
TakenUncounted(r, w) ==
  [r EXCEPT !.status = "PROCESSING", !.ready = FALSE, !.lockedBy = w]

Taken(r, w) ==
  [r EXCEPT !.status = "PROCESSING", !.attempts = @ + 1, !.ready = FALSE,
            !.lockedBy = w]

\* claim's transaction; jobs that a disconnect holds are skipped.
Claim(w) ==
  /\ worker[w].phase = "idle"
  /\ \E B \in Batches({j \in Jobs \ LockedJobs : Claimable(job[j])}) :
       /\ job' = [j \in Jobs |->
            IF Abandoned(job[j]) THEN Unlocked(job[j], "FAILED")
            ELSE IF j \in B THEN Taken(job[j], w) ELSE job[j]]
       /\ worker' = [worker EXCEPT ![w] =
            IF B = {} THEN Idle
            ELSE [Idle EXCEPT !.phase = "claimed", !.claimed = B]]
  /\ gaveUp' = [gaveUp EXCEPT ![w] = {}]
  /\ UNCHANGED <<wants, link, code, calls, faults, sends>>

\* Mutant of Reads: the account is the one of the enqueuing.
ReadsAnyAccount(j) == IF j[2] = "LINE" THEN Accounts ELSE Destination(UserOf(j), j[2])

\* What findMany finds of the recipient.
Reads(j) == Destination(UserOf(j), j[2])

ReadBatch(w) ==
  /\ worker[w].phase = "claimed"
  /\ worker' = [worker EXCEPT ![w].phase = "run", ![w].claimed = {},
       ![w].deliveries = {[job |-> j, attempt |-> job[j].attempts,
                           to |-> Reads(j), step |-> "ready"] :
                             j \in worker[w].claimed}]
  /\ UNCHANGED <<job, wants, link, code, calls, faults, history>>

\* Mutant of Holds: the answer is recorded whatever the job is by now.
HeldOnce(w, j) == job[j].attempts > 0

\* The condition of every update that ends a delivery.
Holds(w, j) == job[j].status = "PROCESSING" /\ job[j].lockedBy = w

Become(w, d, e) ==
  worker' = [worker EXCEPT ![w].deliveries = (@ \ {d}) \cup {e}]
Finish(w, d) == worker' = [worker EXCEPT ![w].deliveries = @ \ {d}]
Settle(w, j, r) == job' = IF Holds(w, j) THEN [job EXCEPT ![j] = r] ELSE job

CancelUnwanted(w) ==
  \E d \in worker[w].deliveries :
    /\ d.step = "ready" /\ d.to = {}
    /\ Settle(w, d.job, Unlocked(job[d.job], "CANCELLED"))
    /\ Finish(w, d)
    /\ UNCHANGED <<wants, link, code, calls, faults, history>>

\* The provider accepts, or its answer is an error or lost, or it refuses in
\* a way that is not worth a retry.
Send(w) ==
  \E d \in worker[w].deliveries, answer \in {"accepted", "failed", "refused"} :
    /\ d.step = "ready" /\ d.to # {}
    /\ sends' = [sends EXCEPT ![d.job] = @ + 1]
    /\ Become(w, d, [d EXCEPT !.step = answer])
    /\ UNCHANGED <<job, wants, link, code, calls, faults, gaveUp>>

RecordSent(w) ==
  \E d \in worker[w].deliveries :
    /\ d.step = "accepted"
    /\ Settle(w, d.job, Unlocked(job[d.job], "SENT"))
    /\ Finish(w, d)
    /\ UNCHANGED <<wants, link, code, calls, faults, history>>

Fail(w) ==
  \E d \in worker[w].deliveries :
    /\ d.step \in {"failed", "refused"}
    /\ LET r == job[d.job]
       IN  Settle(w, d.job,
             IF d.step = "refused" \/ d.attempt >= MaxAttempts
             THEN Unlocked(r, "FAILED")
             ELSE Unlocked(r, "RETRY"))
    /\ Finish(w, d)
    /\ UNCHANGED <<wants, link, code, calls, faults, history>>

\* All deliveries are over.  A run that rejects arms no timer for the next
\* (module PollingLoop): this loop is over as well.
EndBatch(w) ==
  /\ worker[w].phase = "run" /\ worker[w].deliveries = {}
  /\ worker' = [worker EXCEPT ![w] =
       IF @.threw THEN [Idle EXCEPT !.phase = "stopped"] ELSE Idle]
  /\ UNCHANGED <<job, wants, link, code, calls, faults, history>>

-----------------------------------------------------------------------------
(* Failures and delays.                                                     *)

Fault ==
  /\ faults < MaxFaults
  /\ faults' = faults + 1
  /\ UNCHANGED <<job, wants, link, code, calls, history>>

\* The update to SENT throws, and is treated like a failed request.
RecordThrows(w) ==
  /\ Fault
  /\ \E d \in worker[w].deliveries :
       d.step = "accepted" /\ Become(w, d, [d EXCEPT !.step = "failed"])

\* Any other update of a delivery throws: the run will reject.
DeliveryThrows(w) ==
  /\ Fault
  /\ \E d \in worker[w].deliveries :
       /\ d.step \in {"failed", "refused"} \/ (d.step = "ready" /\ d.to = {})
       /\ worker' = [worker EXCEPT ![w].deliveries = @ \ {d}, ![w].threw = TRUE]

\* claim's transaction or its findMany throws.
ClaimThrows(w) ==
  /\ Fault
  /\ worker[w].phase \in {"idle", "claimed"}
  /\ worker' = [worker EXCEPT ![w] = [Idle EXCEPT !.phase = "stopped"]]

\* The process dies and another one starts.
Crash(w) ==
  /\ Fault
  /\ worker[w] # Idle
  /\ worker' = [worker EXCEPT ![w] = Idle]

\* retryAt has come, or the timeout of the lock.
DelayEnds(j) ==
  /\ job[j].status \in {"RETRY", "PROCESSING"} /\ ~job[j].ready
  /\ job' = [job EXCEPT ![j].ready = TRUE]
  /\ UNCHANGED <<wants, link, code, calls, worker, faults, history>>

-----------------------------------------------------------------------------
ProducerStep ==
  \/ \E p \in Producers, n \in Notices : EnqueueRead(p, n)
  \/ \E p \in Producers : EnqueueWrite(p) \/ EnqueueLost(p)

UserStep ==
  \/ \E u \in Users : DisconnectBegins(u) \/ DisconnectCommits(u)
  \/ \E u \in Users, C \in SUBSET Channels : SetPreferences(u, C)
  \/ \E k \in CodeCalls, u \in Users : CreateCodeRead(k, u)
  \/ \E k \in CodeCalls : CreateCodeConsumes(k) \/ CreateCodeCommits(k)
  \/ \E a \in Accounts, c \in Codes : ConsumeCode(a, c)
  \/ \E c \in Codes : CodeExpires(c)

WorkerStep(w) ==
  \/ Claim(w) \/ ReadBatch(w) \/ CancelUnwanted(w) \/ Send(w)
  \/ RecordSent(w) \/ Fail(w) \/ EndBatch(w)

FaultStep(w) ==
  RecordThrows(w) \/ DeliveryThrows(w) \/ ClaimThrows(w) \/ Crash(w)

Next ==
  \/ ProducerStep \/ UserStep
  \/ \E j \in Jobs : DelayEnds(j)
  \/ \E w \in Workers : WorkerStep(w) \/ FaultStep(w)

Spec == Init /\ [][Next]_vars

\* A loop that has not been stopped claims again, requests to providers end
\* (fetch gives up), transactions end, and delays do.
FairSpec ==
  /\ Spec
  /\ \A j \in Jobs : WF_vars(DelayEnds(j))
  /\ \A w \in Workers : WF_vars(WorkerStep(w))
  /\ \A u \in Users : WF_vars(DisconnectCommits(u))

-----------------------------------------------------------------------------
(* Properties.                                                              *)

\* Every variable keeps its shape.
TypeOK ==
  /\ job \in [Jobs -> JobRow]
  /\ wants \in [Users -> SUBSET Channels]
  /\ link \in [Users -> SUBSET Accounts]
  /\ code \in [Codes -> CodeRow]
  /\ \A c \in Codes : code[c].state = "live" => code[c].user \in Users
  /\ enqueuing \in [Producers -> SUBSET SUBSET Jobs]
  /\ coding \in [CodeCalls -> SUBSET
       [user : Users, stage : {"checked", "consumed"}, codes : SUBSET Codes]]
  /\ leaving \in [Users -> SUBSET [codes : SUBSET Codes, jobs : SUBSET Jobs]]
  /\ worker \in [Workers -> WorkerState]
  /\ faults \in Nat
  /\ sends \in [Jobs -> Nat]
  /\ gaveUp \in [Workers -> SUBSET Users]

\* A job that was sent, given up or cancelled stays so, although a worker
\* that lost its lock comes late and a disconnect writes jobs it read before.
SettledNoticesStay ==
  [][\A j \in Jobs : job[j].status \in Settled => job'[j] = job[j]]_vars

\* A provider is asked at most MaxAttempts times for one job, attempts that
\* ended in a crash, a lost answer or a lost lock included (README: workers
\* persist retries).
SendsBounded == \A j \in Jobs : sends[j] <= MaxAttempts

\* A message leaves for an account the user gave up, or on a channel that was
\* switched off, only in an attempt that was claimed no later than that: a
\* retry asks again.
NoStaleRecipient ==
  [][\A w \in Workers : \A d \in worker[w].deliveries :
       (sends' # sends /\ d \notin worker'[w].deliveries)
         => \/ d.to = Destination(UserOf(d.job), d.job[2])
            \/ UserOf(d.job) \in gaveUp[w]]_vars

\* No code that existed when a user disconnected links an account later,
\* although codes are handed out by requests that overlap each other and the
\* use of an earlier code (docs/line-messaging-setup.md: single-use;
\* generating another code invalidates the previous unused code).
OldCodesDie ==
  [][\A u \in Users, c \in Codes :
       (link'[u] \notin {link[u], {}} /\ code'[c] # code[c]) => ~code[c].old]_vars

AllStopped == \A w \in Workers : worker[w].phase = "stopped"

\* Every job comes to an end, whichever processes crash while they hold it,
\* unless failed runs have stopped the loops of all processes.
EveryNoticeSettles ==
  \A j \in Jobs :
    job[j].status \in Open ~> (job[j].status \in Settled \/ AllStopped)
=============================================================================
