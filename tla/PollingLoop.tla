------------------------------ MODULE PollingLoop ------------------------------
(***************************************************************************)
(* lib/polling-loop.ts and the shutdown of index.ts: the loops that call    *)
(* the job worker (startPollingLoop, a setInterval) and the notification    *)
(* worker (startAdaptivePollingLoop, a setTimeout that each run arms for    *)
(* the next), and the signal handler that stops them before it disconnects  *)
(* the database.                                                            *)
(*                                                                          *)
(* One event loop: a callback of a promise is a step, timers fire only when *)
(* no such callback is waiting.  Delays are left out; a timer that is armed *)
(* may fire at any time.                                                    *)
(***************************************************************************)
EXTENDS Integers

CONSTANTS
  Loops, Kind,     \* [Loops -> {"interval", "adaptive"}]
  RunIds, NoRun,   \* promises of runs; undefined
  Signals,         \* SIGINT and SIGTERM, each handled once
  MaxTriggers      \* bound on calls of the exported trigger

ASSUME LoopAssumption ==
  /\ Kind \in [Loops -> {"interval", "adaptive"}]
  /\ RunIds # {} /\ NoRun \notin RunIds
  /\ MaxTriggers \in Nat

VARIABLES
  stopped,    \* [Loops -> BOOLEAN]
  activeRun,  \* [Loops -> RunIds or NoRun]
  runs,       \* [Loops -> [RunIds -> phase of the promise chain]]
  timers,     \* [Loops -> number of armed timers]
  timer,      \* [Loops -> BOOLEAN], the timer variable holds an armed one
  awaited,    \* [Loops -> what the caller of stop is waiting for]
  shutdown,   \* "no", "draining" or "disconnected"
  pending,    \* signals that have not been delivered
  triggers    \* calls of trigger from outside

vars == <<stopped, activeRun, runs, timers, timer, awaited, shutdown, pending,
          triggers>>

\* "task": the task is executing; then the callbacks of its promise.
Phases == {"none", "task", "working", "idle", "rejected", "finally"}
Callbacks == {"working", "idle", "rejected", "finally"}

Executing(l) == {i \in RunIds : runs[l][i] = "task"}

CallbackWaiting == \E l \in Loops, i \in RunIds : runs[l][i] \in Callbacks

\* Both loops call trigger once before they return their controller.
Init ==
  /\ stopped = [l \in Loops |-> FALSE]
  /\ \E i \in RunIds :
       /\ activeRun = [l \in Loops |-> i]
       /\ runs = [l \in Loops |-> [j \in RunIds |-> IF j = i THEN "task" ELSE "none"]]
  /\ timers = [l \in Loops |-> IF Kind[l] = "interval" THEN 1 ELSE 0]
  /\ timer = [l \in Loops |-> Kind[l] = "interval"]
  /\ awaited = [l \in Loops |-> NoRun]
  /\ shutdown = "no"
  /\ pending = Signals
  /\ triggers = 0

-----------------------------------------------------------------------------
\* Mutants of MayRun: a run in flight is no obstacle; nor is a stop.
MayRunUnlessStopped(l) == ~stopped[l]
MayRunUnlessActive(l) == activeRun[l] = NoRun

MayRun(l) == ~stopped[l] /\ activeRun[l] = NoRun

Trigger(l) ==
  \/ /\ MayRun(l)
     /\ \E i \in RunIds :
          /\ runs[l][i] = "none"
          /\ runs' = [runs EXCEPT ![l][i] = "task"]
          /\ activeRun' = [activeRun EXCEPT ![l] = i]
  \/ ~MayRun(l) /\ UNCHANGED <<runs, activeRun>>

\* An interval stays armed; of the timeouts, the one in the variable or one
\* that a later run has overwritten.
TimerFires(l) ==
  /\ ~CallbackWaiting /\ timers[l] > 0
  /\ Trigger(l)
  /\ IF Kind[l] = "interval" THEN UNCHANGED <<timers, timer>>
     ELSE /\ timers' = [timers EXCEPT ![l] = @ - 1]
          /\ \/ timer[l] /\ timer' = [timer EXCEPT ![l] = FALSE]
             \/ timers[l] > (IF timer[l] THEN 1 ELSE 0) /\ UNCHANGED timer
  /\ UNCHANGED <<stopped, awaited, shutdown, pending, triggers>>

\* The exported trigger; nothing in the API calls it today.
TriggerCalled(l) ==
  /\ ~CallbackWaiting /\ triggers < MaxTriggers
  /\ triggers' = triggers + 1
  /\ Trigger(l)
  /\ UNCHANGED <<stopped, timers, timer, awaited, shutdown, pending>>

TaskSettles(l) ==
  /\ \E i \in Executing(l), result \in {"working", "idle", "rejected"} :
       runs' = [runs EXCEPT ![l][i] = result]
  /\ UNCHANGED <<stopped, activeRun, timers, timer, awaited, shutdown, pending,
                 triggers>>

\* .then: an adaptive loop arms the timer of its next run.
ThenCallback(l) ==
  /\ \E i \in RunIds :
       /\ runs[l][i] \in {"working", "idle"}
       /\ runs' = [runs EXCEPT ![l][i] = "finally"]
  /\ IF Kind[l] = "adaptive" /\ ~stopped[l]
     THEN /\ timers' = [timers EXCEPT ![l] = @ + 1]
          /\ timer' = [timer EXCEPT ![l] = TRUE]
     ELSE UNCHANGED <<timers, timer>>
  /\ UNCHANGED <<stopped, activeRun, awaited, shutdown, pending, triggers>>

\* Mutant of CatchCallback: a rejected run never reaches .finally.
CatchWithoutFinally(l) ==
  /\ \E i \in RunIds :
       /\ runs[l][i] = "rejected"
       /\ runs' = [runs EXCEPT ![l][i] = "none"]
  /\ UNCHANGED <<stopped, activeRun, timers, timer, awaited, shutdown, pending,
                 triggers>>

\* .catch(onError): the error is logged.
CatchCallback(l) ==
  /\ \E i \in RunIds :
       /\ runs[l][i] = "rejected"
       /\ runs' = [runs EXCEPT ![l][i] = "finally"]
  /\ UNCHANGED <<stopped, activeRun, timers, timer, awaited, shutdown, pending,
                 triggers>>

\* .finally; whoever awaits this promise goes on.
FinallyCallback(l) ==
  /\ \E i \in RunIds :
       /\ runs[l][i] = "finally"
       /\ runs' = [runs EXCEPT ![l][i] = "none"]
       /\ activeRun' = [activeRun EXCEPT ![l] = IF @ = i THEN NoRun ELSE @]
       /\ awaited' = [awaited EXCEPT ![l] = IF @ = i THEN NoRun ELSE @]
  /\ UNCHANGED <<stopped, timers, timer, shutdown, pending, triggers>>

\* Mutant of TimersAfterClear: a timer that has fired is cleared once more.
TimersAfterTwoClears(l) == timers[l] - 1

\* clearInterval, clearTimeout: the timer in the variable, if it is armed.
TimersAfterClear(l) == timers[l] - (IF timer[l] THEN 1 ELSE 0)

\* The handler of a signal: the first one stops both loops, which clears the
\* timer in the variable, and awaits the runs in flight.
Signal ==
  /\ ~CallbackWaiting
  /\ \E s \in pending : pending' = pending \ {s}
  /\ IF shutdown = "no"
     THEN /\ shutdown' = "draining"
          /\ stopped' = [l \in Loops |-> TRUE]
          /\ timers' = [l \in Loops |-> TimersAfterClear(l)]
          /\ timer' = [l \in Loops |-> FALSE]
          /\ awaited' = activeRun
     ELSE UNCHANGED <<shutdown, stopped, timers, timer, awaited>>
  /\ UNCHANGED <<activeRun, runs, triggers>>

Disconnect ==
  /\ shutdown = "draining"
  /\ \A l \in Loops : awaited[l] = NoRun
  /\ shutdown' = "disconnected"
  /\ UNCHANGED <<stopped, activeRun, runs, timers, timer, awaited, pending,
                 triggers>>

-----------------------------------------------------------------------------
Callback(l) == ThenCallback(l) \/ CatchCallback(l) \/ FinallyCallback(l)

Next ==
  \/ \E l \in Loops :
       TimerFires(l) \/ TriggerCalled(l) \/ TaskSettles(l) \/ Callback(l)
  \/ Signal \/ Disconnect

Spec == Init /\ [][Next]_vars

\* Tasks return (they are bounded batches of database calls with timeouts),
\* callbacks run, and an armed timer fires.
FairSpec ==
  /\ Spec
  /\ WF_vars(Disconnect)
  /\ \A l \in Loops : /\ WF_vars(TaskSettles(l)) /\ WF_vars(Callback(l))
                      /\ SF_vars(TimerFires(l))

-----------------------------------------------------------------------------
(* Properties.                                                              *)

\* Every variable keeps its shape.
TypeOK ==
  /\ stopped \in [Loops -> BOOLEAN]
  /\ activeRun \in [Loops -> RunIds \cup {NoRun}]
  /\ runs \in [Loops -> [RunIds -> Phases]]
  /\ timers \in [Loops -> Nat]
  /\ timer \in [Loops -> BOOLEAN]
  /\ awaited \in [Loops -> RunIds \cup {NoRun}]
  /\ shutdown \in {"no", "draining", "disconnected"}
  /\ pending \in SUBSET Signals
  /\ triggers \in Nat

\* A loop's task never executes twice at once, however timers and external
\* triggers fall together.
NoOverlappingRuns ==
  \A l \in Loops : \A i, j \in Executing(l) : i = j

\* Once the database is disconnected no task executes, and none will: stray
\* timers of an adaptive loop are still armed then.
QuietAfterDisconnect ==
  shutdown = "disconnected" => \A l \in Loops : Executing(l) = {}

\* A signal leads to a disconnected database, whatever the runs in flight
\* end with.
ShutdownCompletes == shutdown = "draining" ~> shutdown = "disconnected"

\* A loop runs its task again and again until it is stopped, although runs
\* fail: the workers "persist retries" (README.md) only if somebody polls.
KeepsPolling(l) == []<>(Executing(l) # {} \/ stopped[l])

IntervalKeepsPolling == \A l \in Loops : Kind[l] = "interval" => KeepsPolling(l)

AdaptiveKeepsPolling == \A l \in Loops : Kind[l] = "adaptive" => KeepsPolling(l)
=============================================================================
