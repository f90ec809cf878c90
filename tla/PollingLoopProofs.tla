--------------------------- MODULE PollingLoopProofs ---------------------------
(***************************************************************************)
(* Proofs about PollingLoop, for any number of loops, timers and external   *)
(* triggers.  The invariant: the only promise chain of a loop that is not   *)
(* over is the one in activeRun, and once stop was called that is the one   *)
(* its caller awaits.                                                       *)
(***************************************************************************)
EXTENDS PollingLoop, TLAPS

\* The variables that decide whether a task may execute.
Shape ==
  /\ stopped \in [Loops -> BOOLEAN]
  /\ activeRun \in [Loops -> RunIds \cup {NoRun}]
  /\ runs \in [Loops -> [RunIds -> Phases]]
  /\ awaited \in [Loops -> RunIds \cup {NoRun}]
  /\ shutdown \in {"no", "draining", "disconnected"}

\* A chain that is not over is the active run.
OnlyActive ==
  \A l \in Loops, i \in RunIds : runs[l][i] # "none" => activeRun[l] = i

\* After stop: no new run, and the caller awaits the one in flight.
Draining ==
  shutdown # "no" =>
    \A l \in Loops : stopped[l] /\ awaited[l] = activeRun[l]

Drained ==
  shutdown = "disconnected" => \A l \in Loops : awaited[l] = NoRun

IInv == Shape /\ OnlyActive /\ Draining /\ Drained

LEMMA Initially == Init => IInv
  BY DEF Init, IInv, Shape, OnlyActive, Draining, Drained, Phases

\* A trigger starts a run only in a loop that has none and is not stopped.
LEMMA TriggerKeeps ==
  ASSUME IInv, NEW l \in Loops, Trigger(l),
         UNCHANGED <<stopped, awaited, shutdown>>
  PROVE  IInv'
<1>1. CASE UNCHANGED <<runs, activeRun>>
  BY <1>1 DEF IInv, Shape, OnlyActive, Draining, Drained
<1>2. ASSUME MayRun(l), NEW i \in RunIds,
             runs[l][i] = "none",
             runs' = [runs EXCEPT ![l][i] = "task"],
             activeRun' = [activeRun EXCEPT ![l] = i]
      PROVE  IInv'
  <2>1. Shape'
    BY <1>2 DEF IInv, Shape, Phases
  <2>2. OnlyActive'
    BY <1>2, LoopAssumption DEF LoopAssumption, IInv, Shape, OnlyActive, MayRun
  <2>3. shutdown = "no"
    BY <1>2 DEF IInv, Draining, MayRun
  <2> QED
    BY <2>1, <2>2, <2>3 DEF IInv, Draining, Drained
<1> QED
  BY <1>1, <1>2 DEF Trigger

\* A chain that goes on to its next phase stays the active run.
LEMMA PhaseKeeps ==
  ASSUME IInv, NEW l \in Loops, NEW i \in RunIds, NEW p \in Phases,
         runs[l][i] # "none", runs' = [runs EXCEPT ![l][i] = p],
         UNCHANGED <<stopped, activeRun, awaited, shutdown>>
  PROVE  IInv'
  BY DEF IInv, Shape, OnlyActive, Draining, Drained

LEMMA Stepwise == IInv /\ [Next]_vars => IInv'
<1> SUFFICES ASSUME IInv, [Next]_vars PROVE IInv'
  OBVIOUS
<1>1. ASSUME NEW l \in Loops, TimerFires(l) PROVE IInv'
  BY <1>1, TriggerKeeps DEF TimerFires
<1>2. ASSUME NEW l \in Loops, TriggerCalled(l) PROVE IInv'
  BY <1>2, TriggerKeeps DEF TriggerCalled
<1>3. ASSUME NEW l \in Loops, TaskSettles(l) PROVE IInv'
  <2>1. PICK i \in Executing(l), p \in {"working", "idle", "rejected"} :
          runs' = [runs EXCEPT ![l][i] = p]
    BY <1>3 DEF TaskSettles
  <2> QED
    BY <1>3, <2>1, PhaseKeeps DEF TaskSettles, Executing, Phases
<1>4. ASSUME NEW l \in Loops, ThenCallback(l) PROVE IInv'
  <2>1. PICK i \in RunIds : /\ runs[l][i] \in {"working", "idle"}
                            /\ runs' = [runs EXCEPT ![l][i] = "finally"]
    BY <1>4 DEF ThenCallback
  <2> QED
    BY <1>4, <2>1, PhaseKeeps DEF ThenCallback, Phases
<1>5. ASSUME NEW l \in Loops, CatchCallback(l) PROVE IInv'
  <2>1. PICK i \in RunIds : /\ runs[l][i] = "rejected"
                            /\ runs' = [runs EXCEPT ![l][i] = "finally"]
    BY <1>5 DEF CatchCallback
  <2> QED
    BY <1>5, <2>1, PhaseKeeps DEF CatchCallback, Phases
<1>6. ASSUME NEW l \in Loops, FinallyCallback(l) PROVE IInv'
  <2>1. PICK i \in RunIds :
          /\ runs[l][i] = "finally"
          /\ runs' = [runs EXCEPT ![l][i] = "none"]
          /\ activeRun' = [activeRun EXCEPT ![l] = IF @ = i THEN NoRun ELSE @]
          /\ awaited' = [awaited EXCEPT ![l] = IF @ = i THEN NoRun ELSE @]
    BY <1>6 DEF FinallyCallback
  <2>2. UNCHANGED <<stopped, shutdown>>
    BY <1>6 DEF FinallyCallback
  <2>3. Shape'
    BY <2>1, <2>2 DEF IInv, Shape, Phases
  <2>4. OnlyActive'
    BY <2>1 DEF IInv, Shape, OnlyActive
  <2>5. Draining' /\ Drained'
    BY <2>1, <2>2 DEF IInv, Shape, Draining, Drained
  <2> QED
    BY <2>3, <2>4, <2>5 DEF IInv
<1>7. CASE Signal
  BY <1>7 DEF Signal, IInv, Shape, OnlyActive, Draining, Drained
<1>8. CASE Disconnect
  BY <1>8 DEF Disconnect, IInv, Shape, OnlyActive, Draining, Drained
<1>9. CASE UNCHANGED vars
  BY <1>9 DEF vars, IInv, Shape, OnlyActive, Draining, Drained
<1> QED
  BY <1>1, <1>2, <1>3, <1>4, <1>5, <1>6, <1>7, <1>8, <1>9 DEF Next, Callback

\* A loop's task never executes twice at once (`if (stopped || activeRun)
\* return` in trigger, against timers, external triggers and callbacks).
THEOREM OneRunAtATime == Spec => []NoOverlappingRuns
<1>1. IInv => NoOverlappingRuns
  BY DEF IInv, OnlyActive, NoOverlappingRuns, Executing
<1> QED
  BY Initially, Stepwise, <1>1, PTL DEF Spec

\* No task executes once shutdown has disconnected the database, however
\* many timers are still armed.
THEOREM NoTaskWithoutDatabase == Spec => []QuietAfterDisconnect
<1>1. IInv => QuietAfterDisconnect
  <2> SUFFICES ASSUME IInv, shutdown = "disconnected", NEW l \in Loops
               PROVE  \A i \in RunIds : runs[l][i] # "task"
    BY DEF QuietAfterDisconnect, Executing
  <2>1. activeRun[l] = NoRun
    BY DEF IInv, Draining, Drained
  <2> QED
    BY <2>1, LoopAssumption DEF LoopAssumption, IInv, OnlyActive
<1> QED
  BY Initially, Stepwise, <1>1, PTL DEF Spec

\* The timer in the variable is one of the armed timers.
Counted == \A l \in Loops : timer[l] => timers[l] > 0

TimersTyped ==
  timers \in [Loops -> Nat] /\ timer \in [Loops -> BOOLEAN] /\ Counted

\* The armed timers of one loop become n, the one in the variable x.
LEMMA TimersSet ==
  ASSUME TimersTyped, NEW l \in Loops, NEW n \in Nat, NEW x \in BOOLEAN,
         x => n > 0,
         timers' = [timers EXCEPT ![l] = n], timer' = [timer EXCEPT ![l] = x]
  PROVE  TimersTyped'
BY DEF TimersTyped, Counted

\* Every variable keeps its shape; no count of armed timers is negative,
\* although stop clears a timer that may have fired already.
THEOREM TypeCorrect == Spec => []TypeOK
<1>1. Init => TypeOK /\ Counted
  <2> SUFFICES ASSUME Init
               PROVE  TypeOK /\ Counted
    OBVIOUS
  <2>1. Shape
    BY Initially DEF IInv
  <2>2. TimersTyped
    <3>1. timers \in [Loops -> Nat]
      BY DEF Init
    <3>2. timer \in [Loops -> BOOLEAN]
      BY Zenon DEF Init
    <3>3. \A l \in Loops : timer[l] => Kind[l] = "interval"
      BY Zenon DEF Init
    <3>4. \A l \in Loops : Kind[l] = "interval" => timers[l] > 0
      BY DEF Init
    <3>5. QED
      BY <3>1, <3>2, <3>3, <3>4 DEF TimersTyped, Counted
  <2>3. triggers \in Nat /\ pending \in SUBSET Signals
    BY DEF Init
  <2>4. QED
    BY <2>1, <2>2, <2>3 DEF Shape, TimersTyped, TypeOK
<1>2. IInv' /\ TypeOK /\ Counted /\ [Next]_vars => TypeOK' /\ Counted'
  <2> SUFFICES ASSUME IInv', TypeOK, Counted, [Next]_vars
               PROVE  TypeOK' /\ Counted'
    OBVIOUS
  <2>0. TimersTyped /\ triggers \in Nat /\ pending \in SUBSET Signals
    BY DEF TypeOK, TimersTyped
  <2>1. triggers' \in Nat /\ pending' \in SUBSET Signals
    BY <2>0
    DEF Next, Callback, TimerFires, TriggerCalled, TaskSettles, ThenCallback,
        CatchCallback, FinallyCallback, Signal, Disconnect, vars
  <2>2. ASSUME UNCHANGED <<timers, timer>>
        PROVE  TimersTyped'
    BY <2>0, <2>2 DEF TimersTyped, Counted
  <2>3. ASSUME NEW l \in Loops, TimerFires(l)
        PROVE  TimersTyped'
    <3> DEFINE n == timers[l]
    <3>1. n \in Nat /\ n > 0 /\ n - 1 \in Nat /\ (timer[l] => n > 0)
      BY <2>0, <2>3 DEF TimersTyped, TimerFires
    <3>2. CASE UNCHANGED <<timers, timer>>
      BY <2>2, <3>2
    <3>3. CASE /\ timers' = [timers EXCEPT ![l] = n - 1]
               /\ timer' = [timer EXCEPT ![l] = FALSE]
      BY <2>0, <3>1, <3>3, TimersSet
    <3>4. CASE /\ timers' = [timers EXCEPT ![l] = n - 1]
               /\ n > (IF timer[l] THEN 1 ELSE 0) /\ UNCHANGED timer
      <4> DEFINE x == timer[l]
      <4>1. x \in BOOLEAN /\ (x => n > 1)
        BY <2>0, <3>4 DEF TimersTyped
      <4>2. timer' = [timer EXCEPT ![l] = x]
        BY <2>0, <3>4 DEF TimersTyped
      <4>3. x => n - 1 > 0
        BY <3>1, <4>1
      <4> HIDE DEF x, n
      <4>4. QED
        BY <2>0, <3>1, <3>4, <4>1, <4>2, <4>3, TimersSet
    <3>5. QED
      BY <2>3, <3>2, <3>3, <3>4 DEF TimerFires
  <2>4. ASSUME NEW l \in Loops, ThenCallback(l)
        PROVE  TimersTyped'
    <3> DEFINE n == timers[l] + 1
    <3>1. n \in Nat /\ n > 0
      BY <2>0 DEF TimersTyped
    <3>2. CASE /\ timers' = [timers EXCEPT ![l] = n]
               /\ timer' = [timer EXCEPT ![l] = TRUE]
      <4> HIDE DEF n
      <4>1. QED
        BY <2>0, <3>1, <3>2, TimersSet
    <3>3. QED
      BY <2>2, <2>4, <3>2 DEF ThenCallback
  <2>5. ASSUME Signal
        PROVE  TimersTyped'
    <3>1. CASE /\ timers' = [l \in Loops |-> TimersAfterClear(l)]
               /\ timer' = [l \in Loops |-> FALSE]
      <4>1. \A l \in Loops : TimersAfterClear(l) \in Nat
        BY <2>0 DEF TimersTyped, Counted, TimersAfterClear
      <4>2. QED
        BY <3>1, <4>1 DEF TimersTyped, Counted
    <3>2. QED
      BY <2>2, <2>5, <3>1 DEF Signal
  <2>6. TimersTyped'
    BY <2>2, <2>3, <2>4, <2>5
    DEF Next, Callback, TriggerCalled, TaskSettles, CatchCallback,
        FinallyCallback, Disconnect, vars
  <2>7. QED
    BY <2>1, <2>6 DEF IInv, Shape, TimersTyped, TypeOK
<1>3. QED
  BY <1>1, <1>2, Initially, Stepwise, PTL DEF Spec
=============================================================================
