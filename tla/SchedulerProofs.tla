--------------------------- MODULE SchedulerProofs ---------------------------
(***************************************************************************)
(* Proofs about Scheduler, for every set of tasks.                         *)
(***************************************************************************)
EXTENDS Scheduler, TLAPS

LEMMA InitType == Init => TypeOK
  BY DEF Init, TypeOK, Places

LEMMA NextType ==
    ASSUME TypeOK, [Next]_schedulerVars
    PROVE  TypeOK'
  <1> USE DEF TypeOK
  <1>1. CASE Start
    BY <1>1 DEF Start, Places
  <1>2. CASE StopBegin
    BY <1>2 DEF StopBegin
  <1>3. CASE StopReturn
    BY <1>3 DEF StopReturn
  <1>4. CASE Initialize
    BY <1>4 DEF Initialize, Places
  <1>5. ASSUME NEW t \in Tasks, AddTask(t)
        PROVE  TypeOK'
    BY <1>5 DEF AddTask
  <1>6. ASSUME NEW t \in Tasks, Tick(t)
        PROVE  TypeOK'
    BY <1>6 DEF Tick
  <1>7. ASSUME NEW t \in Tasks, Work(t)
        PROVE  TypeOK'
    BY <1>7 DEF Work, Execute, Return, SelectTick, SelectDone, Move, Places
  <1>8. CASE UNCHANGED schedulerVars
    BY <1>8 DEF schedulerVars
  <1> QED
    BY <1>1, <1>2, <1>3, <1>4, <1>5, <1>6, <1>7, <1>8 DEF Next

\* Every variable keeps its type.
THEOREM TypeCorrect == Spec => []TypeOK
  BY InitType, NextType, PTL DEF Spec

-----------------------------------------------------------------------------

LEMMA InitQuiet == Init => QuietAfterStop
  BY DEF Init, QuietAfterStop

\* Nothing starts a goroutine once Stop has been called, and no goroutine that
\* has ended goes on.
LEMMA NextQuiet ==
    ASSUME TypeOK, QuietAfterStop, [Next]_schedulerVars
    PROVE  QuietAfterStop'
  <1> USE DEF QuietAfterStop, Alive, Gone
  <1>1. CASE Start
    BY <1>1 DEF Start
  <1>2. CASE StopBegin
    BY <1>2 DEF StopBegin
  <1>3. CASE StopReturn
    BY <1>3 DEF StopReturn, WaitOver
  <1>4. CASE Initialize
    BY <1>4 DEF Initialize
  <1>5. ASSUME NEW t \in Tasks, AddTask(t)
        PROVE  QuietAfterStop'
    BY <1>5 DEF AddTask
  <1>6. ASSUME NEW t \in Tasks, Tick(t)
        PROVE  QuietAfterStop'
    BY <1>6 DEF Tick
  <1>7. ASSUME NEW t \in Tasks, Work(t)
        PROVE  QuietAfterStop'
    <2>1. Alive(t) /\ stop' = stop
      BY <1>7 DEF Work, Execute, Return, SelectTick, SelectDone, At
    <2> QED
      BY <2>1
  <1>8. CASE UNCHANGED schedulerVars
    BY <1>8 DEF schedulerVars
  <1> QED
    BY <1>1, <1>2, <1>3, <1>4, <1>5, <1>6, <1>7, <1>8 DEF Next

\* Once Stop has returned no goroutine is left: WaitGroup and context do what
\* main relies on when it shuts down, however many tasks there are.
THEOREM StopIsFinal == Spec => []QuietAfterStop
  <1>1. Init => TypeOK /\ QuietAfterStop
    BY InitType, InitQuiet
  <1>2. TypeOK /\ QuietAfterStop /\ [Next]_schedulerVars => (TypeOK /\ QuietAfterStop)'
    BY NextType, NextQuiet
  <1> QED
    BY <1>1, <1>2, PTL DEF Spec
=============================================================================
