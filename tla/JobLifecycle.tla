----------------------------- MODULE JobLifecycle -----------------------------
(***************************************************************************)
(* What the queue promises about a job, whichever processes work on it: it  *)
(* is leased to one process at a time, for at least LockTimeout unless that *)
(* process settles it; every lease is an attempt, of MaxAttempts; it fails  *)
(* after the last attempt and not before, and waits for another attempt     *)
(* only if one is left.  BackgroundJobs is shown to implement this.         *)
(***************************************************************************)
EXTENDS Integers

CONSTANTS Jobs, Workers, Nobody, MaxAttempts, LockTimeout

VARIABLES
  lease,    \* [Jobs -> [status, attempts, holder, since]]
  clock

vars == <<lease, clock>>

Free == [status |-> "NONE", attempts |-> 0, holder |-> Nobody, since |-> 0]

Init ==
  /\ lease = [j \in Jobs |-> Free]
  /\ clock = 0

Enqueue(S) ==
  /\ \A j \in S : lease[j] = Free
  /\ lease' = [j \in Jobs |->
       IF j \in S THEN [Free EXCEPT !.status = "PENDING"] ELSE lease[j]]
  /\ UNCHANGED clock

RunOut(l) == l.status = "PROCESSING" /\ l.since + LockTimeout < clock

Ended(l, s) ==
  [status |-> s, attempts |-> l.attempts, holder |-> Nobody, since |-> 0]

\* One transaction gives up exhausted jobs and leases others to one process.
Sweep(w, gone, taken) ==
  /\ \A j \in gone : RunOut(lease[j]) /\ lease[j].attempts = MaxAttempts
  /\ \A j \in taken :
       /\ lease[j].attempts < MaxAttempts
       /\ lease[j].status \in {"PENDING", "RETRY"} \/ RunOut(lease[j])
  /\ lease' = [j \in Jobs |->
       IF j \in gone THEN Ended(lease[j], "FAILED")
       ELSE IF j \in taken
       THEN [status |-> "PROCESSING", attempts |-> lease[j].attempts + 1,
             holder |-> w, since |-> clock]
       ELSE lease[j]]
  /\ UNCHANGED clock

Outcomes(attempts) ==
  {"COMPLETED", IF attempts < MaxAttempts THEN "RETRY" ELSE "FAILED"}

Settle(j) ==
  /\ lease[j].status = "PROCESSING"
  /\ \E s \in Outcomes(lease[j].attempts) :
       lease' = [lease EXCEPT ![j] = Ended(@, s)]
  /\ UNCHANGED clock

Tick ==
  /\ clock' = clock + 1
  /\ UNCHANGED lease

Next ==
  \/ \E S \in SUBSET Jobs : Enqueue(S)
  \/ \E w \in Workers, gone, taken \in SUBSET Jobs : Sweep(w, gone, taken)
  \/ \E j \in Jobs : Settle(j)
  \/ Tick

Spec == Init /\ [][Next]_vars
=============================================================================
