--------------------------- MODULE RenewalsProofs ----------------------------
(***************************************************************************)
(* Proofs about Renewals, for every set of rows and handlers.              *)
(***************************************************************************)
EXTENDS Renewals, TLAPS

\* The scheduler's variables move as its own steps move them, or stay.
LEMMA SchedulerStep ==
    ASSUME [Next]_vars
    PROVE  [Sched!Next]_(Sched!schedulerVars)
  <1> USE DEF Sched!schedulerVars, process, goroutine
  <1>1. CASE Register \/ Serve \/ Signal \/ Stopped \/ Exit
    BY <1>1 DEF Register, Serve, Signal, Stopped, Exit, Sched!Next
  <1>2. CASE Boot
    BY <1>2 DEF Boot
  <1>3. CASE Batch
    BY <1>3 DEF Batch, BatchBegin, BatchNext, BatchEnd, Sched!Next, Sched!Work
  <1>4. CASE TickerFires \/ SelectDone
    BY <1>4 DEF TickerFires, SelectDone, Sched!Next, Sched!Work
  <1>5. ASSUME NEW a \in Actors, Renew(a)
        PROVE  UNCHANGED Sched!schedulerVars
    BY <1>5 DEF Renew, Lock, Answer, Save
  <1>6. ASSUME NEW h \in Handlers, RequestRenewal(h)
        PROVE  UNCHANGED Sched!schedulerVars
    BY <1>6 DEF RequestRenewal
  <1>7. CASE RequestDeletion \/ Age
    BY <1>7 DEF RequestDeletion, Age
  <1>8. CASE UNCHANGED vars
    BY <1>8 DEF vars
  <1> QED
    BY <1>1, <1>2, <1>3, <1>4, <1>5, <1>6, <1>7, <1>8 DEF Next

\* The process adds, starts and stops its task as Scheduler has it: what is
\* proved of Scheduler holds here.
THEOREM SchedulerIsKept == Spec => KeepsScheduler
  <1>1. Init => Sched!Init
    BY DEF Init
  <1>2. [Next]_vars => [Sched!Next]_(Sched!schedulerVars)
    BY SchedulerStep
  <1> QED
    BY <1>1, <1>2, PTL DEF Spec, KeepsScheduler, Sched!Spec

-----------------------------------------------------------------------------
(* Type correctness                                                        *)

LEMMA InitType == Init => TypeOK
  BY RenewalsAssumption DEF Init, TypeOK, Phases, Actors, Sched!Init, Sched!TypeOK, Sched!Places

\* The scheduler's part of the type invariant, for its own steps.
LEMMA SchedulerType ==
    ASSUME Sched!TypeOK, [Sched!Next]_(Sched!schedulerVars)
    PROVE  Sched!TypeOK'
  <1> USE DEF Sched!TypeOK
  <1>1. CASE Sched!Start \/ Sched!StopBegin \/ Sched!StopReturn \/ Sched!Initialize
    BY <1>1 DEF Sched!Start, Sched!StopBegin, Sched!StopReturn, Sched!Initialize, Sched!Places
  <1>2. ASSUME NEW t \in {Monitor}, Sched!AddTask(t) \/ Sched!Tick(t)
        PROVE  Sched!TypeOK'
    BY <1>2 DEF Sched!AddTask, Sched!Tick
  <1>3. ASSUME NEW t \in {Monitor}, Sched!Work(t)
        PROVE  Sched!TypeOK'
    BY <1>3 DEF Sched!Work, Sched!Execute, Sched!Return, Sched!SelectTick, Sched!SelectDone,
                Sched!Move, Sched!Places
  <1>4. CASE UNCHANGED Sched!schedulerVars
    BY <1>4 DEF Sched!schedulerVars
  <1> QED
    BY <1>1, <1>2, <1>3, <1>4 DEF Sched!Next

\* The rest of it.
StateOK ==
    /\ phase \in Phases
    /\ certs \in [Ids -> Cert \cup {None}]
    /\ batch \subseteq Ids
    /\ renewals \in [Actors -> Renewal \cup {None}]
    /\ lock \in Actors \cup {None}

LEMMA AtRenewal ==
    ASSUME StateOK, NEW a \in Actors, ~Idle(a)
    PROVE  renewals[a] \in Renewal /\ renewals[a].id \in Ids
  BY DEF StateOK, Idle, Renewal

LEMMA RenewedType ==
    ASSUME StateOK, NEW i \in Ids
    PROVE  Renewed(i) \in [Ids -> Cert \cup {None}]
  BY DEF StateOK, Renewed, Exists, Cert

LEMMA RenewType ==
    ASSUME StateOK, NEW a \in Actors, Renew(a)
    PROVE  StateOK'
  <1> USE DEF StateOK
  <1>1. ~Idle(a)
    BY DEF Renew, Lock, Answer, Save, At
  <1>2. CASE Lock(a)
    BY <1>1, <1>2, AtRenewal DEF Lock, Goto, Renewal, process
  <1>3. CASE Answer(a)
    BY <1>1, <1>3, AtRenewal DEF Answer, Refused, Goto, End, Renewal, process
  <1>4. CASE Save(a)
    BY <1>1, <1>4, AtRenewal, RenewedType DEF Save, End, process
  <1> QED
    BY <1>2, <1>3, <1>4 DEF Renew

LEMMA AskType ==
    ASSUME StateOK, NEW a \in Actors, NEW i \in Ids, Ask(a, i)
    PROVE  renewals' \in [Actors -> Renewal \cup {None}]
  BY DEF StateOK, Ask, Renewal

LEMMA NextType ==
    ASSUME TypeOK, [Next]_vars
    PROVE  TypeOK'
  <1>1. StateOK /\ Sched!TypeOK'
    BY SchedulerStep, SchedulerType DEF TypeOK, StateOK
  <1>2. SUFFICES StateOK'
    BY <1>1 DEF TypeOK, StateOK
  <1>3. CASE Register \/ Serve \/ Signal \/ Stopped \/ Exit \/ Boot
    BY <1>1, <1>3 DEF Register, Serve, Signal, Stopped, Exit, Boot, StateOK, Phases
  <1>4. CASE Batch
    BY <1>1, <1>4, AskType
       DEF Batch, BatchBegin, BatchNext, BatchEnd, Query, Expiring, Rest, StateOK, Actors, process
  <1>5. CASE TickerFires \/ SelectDone
    BY <1>1, <1>5 DEF TickerFires, SelectDone, StateOK
  <1>6. ASSUME NEW a \in Actors, Renew(a)
        PROVE  StateOK'
    BY <1>1, <1>6, RenewType
  <1>7. ASSUME NEW h \in Handlers, RequestRenewal(h)
        PROVE  StateOK'
    BY <1>1, <1>7, AskType DEF RequestRenewal, StateOK, Actors, process
  <1>8. CASE RequestDeletion
    BY <1>1, <1>8 DEF RequestDeletion, StateOK, process
  <1>9. CASE Age
    <2>1. PICK i \in Ids : Exists(i) /\ certs' = [certs EXCEPT ![i].due = TRUE]
      BY <1>9 DEF Age
    <2>2. certs[i] \in Cert
      BY <1>1, <2>1 DEF StateOK, Exists
    <2>3. [certs[i] EXCEPT !.due = TRUE] \in Cert
      BY <2>2 DEF Cert
    <2>4. certs' = [certs EXCEPT ![i] = [certs[i] EXCEPT !.due = TRUE]]
      BY <2>1
    <2>5. certs' \in [Ids -> Cert \cup {None}]
      BY <1>1, <2>3, <2>4 DEF StateOK
    <2> QED
      BY <1>1, <1>9, <2>5 DEF Age, StateOK, process
  <1>10. CASE UNCHANGED vars
    BY <1>1, <1>10 DEF vars, StateOK
  <1> QED
    BY <1>3, <1>4, <1>5, <1>6, <1>7, <1>8, <1>9, <1>10 DEF Next

\* Every variable keeps its type.
THEOREM TypeCorrect == Spec => []TypeOK
  BY InitType, NextType, PTL DEF Spec

-----------------------------------------------------------------------------
(* The lock of the Let's Encrypt client                                    *)

LEMMA AskKeepsLock ==
    ASSUME TypeOK, LockHeldByRenewer, NEW a \in Actors, NEW i, Idle(a), Ask(a, i), lock' = lock
    PROVE  LockHeldByRenewer'
  BY RenewalsAssumption DEF TypeOK, LockHeldByRenewer, Ask, At, Idle, Renewal

LEMMA RenewKeepsLock ==
    ASSUME TypeOK, LockHeldByRenewer, NEW a \in Actors, Renew(a)
    PROVE  LockHeldByRenewer'
  <1>1. renewals[a] \in Renewal /\ a # None
    BY RenewalsAssumption DEF TypeOK, Renew, Lock, Answer, Save, At, Idle
  <1>2. CASE Lock(a)
    <2>1. /\ renewals' = [renewals EXCEPT ![a] = [renewals[a] EXCEPT !.step = "renew"]]
          /\ [renewals[a] EXCEPT !.step = "renew"] \in Renewal
          /\ [renewals[a] EXCEPT !.step = "renew"].step = "renew"
      BY <1>1, <1>2 DEF Lock, Goto, Renewal, TypeOK
    <2> QED
      BY <1>1, <1>2, <2>1, RenewalsAssumption DEF Lock, TypeOK, LockHeldByRenewer, At, Idle
  <1>3. CASE Answer(a)
    <2>1. lock = a /\ lock' = None
      BY <1>3 DEF Answer, Refused, LockHeldByRenewer
    <2>2. /\ ~At(a, "renew")'
          /\ \A b \in Actors \ {a} : renewals'[b] = renewals[b]
      BY <1>1, <1>3 DEF Answer, Refused, Goto, End, At, Idle, TypeOK, Renewal
    <2> QED
      BY <1>1, <2>1, <2>2, RenewalsAssumption DEF LockHeldByRenewer, At, Idle
  <1>4. CASE Save(a)
    BY <1>4, RenewalsAssumption DEF Save, End, TypeOK, LockHeldByRenewer, At, Idle
  <1> QED
    BY <1>2, <1>3, <1>4 DEF Renew

LEMMA NextLock ==
    ASSUME TypeOK, LockHeldByRenewer, [Next]_vars
    PROVE  LockHeldByRenewer'
  <1> USE DEF LockHeldByRenewer, At, Idle
  <1>1. CASE Register \/ Serve \/ Signal \/ Stopped \/ Boot
    BY <1>1 DEF Register, Serve, Signal, Stopped, Boot
  <1>2. CASE Exit
    BY <1>2, RenewalsAssumption DEF Exit
  <1>3. CASE BatchBegin \/ BatchEnd
    BY <1>3 DEF BatchBegin, BatchEnd
  <1>4. CASE BatchNext
    BY <1>4, AskKeepsLock DEF BatchNext, Actors
  <1>5. CASE TickerFires \/ SelectDone
    BY <1>5 DEF TickerFires, SelectDone
  <1>6. ASSUME NEW a \in Actors, Renew(a)
        PROVE  LockHeldByRenewer'
    BY <1>6, RenewKeepsLock
  <1>7. ASSUME NEW h \in Handlers, RequestRenewal(h)
        PROVE  LockHeldByRenewer'
    BY <1>7, AskKeepsLock DEF RequestRenewal, Actors
  <1>8. CASE RequestDeletion \/ Age
    BY <1>8 DEF RequestDeletion, Age
  <1>9. CASE UNCHANGED vars
    BY <1>9 DEF vars
  <1> QED
    BY <1>1, <1>2, <1>3, <1>4, <1>5, <1>6, <1>7, <1>8, <1>9 DEF Next, Batch

\* Client.mu is held by exactly the renewal that talks to the ACME server,
\* whoever asks for renewals, and whatever is refused or cut off.
THEOREM OneRenewalAtATime == Spec => []LockHeldByRenewer
  <1>1. Init => TypeOK /\ LockHeldByRenewer
    BY InitType, RenewalsAssumption DEF Init, LockHeldByRenewer, At, Idle
  <1>2. TypeOK /\ LockHeldByRenewer /\ [Next]_vars => (TypeOK /\ LockHeldByRenewer)'
    BY NextType, NextLock
  <1> QED
    BY <1>1, <1>2, PTL DEF Spec

-----------------------------------------------------------------------------
(* Shutting down                                                           *)

\* The monitor only has a batch or a renewal while its task executes, and main
\* only drains once Stop has returned, when no goroutine is left.  Until it
\* serves there is none either.
ShutdownInv ==
    /\ batch # {} \/ ~Idle(Monitor) => workers[Monitor] = "executing"
    /\ phase \in {"starting", "exited"} => workers[Monitor] = "none"
    /\ phase = "draining" => stop = "returned"
    /\ Sched!QuietAfterStop

LEMMA SchedulerQuiet ==
    ASSUME Sched!TypeOK, Sched!QuietAfterStop, [Sched!Next]_(Sched!schedulerVars)
    PROVE  Sched!QuietAfterStop'
  <1> USE DEF Sched!QuietAfterStop, Sched!Alive, Sched!Gone
  <1>1. CASE Sched!Start \/ Sched!StopBegin \/ Sched!StopReturn \/ Sched!Initialize
    BY <1>1 DEF Sched!Start, Sched!StopBegin, Sched!StopReturn, Sched!Initialize, Sched!WaitOver
  <1>2. ASSUME NEW t \in {Monitor}, Sched!AddTask(t) \/ Sched!Tick(t)
        PROVE  Sched!QuietAfterStop'
    BY <1>2 DEF Sched!AddTask, Sched!Tick
  <1>3. ASSUME NEW t \in {Monitor}, Sched!Work(t)
        PROVE  Sched!QuietAfterStop'
    <2>1. Sched!Alive(t) /\ stop' = stop
      BY <1>3 DEF Sched!Work, Sched!Execute, Sched!Return, Sched!SelectTick, Sched!SelectDone,
                  Sched!At
    <2> QED
      BY <2>1
  <1>4. CASE UNCHANGED Sched!schedulerVars
    BY <1>4 DEF Sched!schedulerVars
  <1> QED
    BY <1>1, <1>2, <1>3, <1>4 DEF Sched!Next

LEMMA NextShutdown ==
    ASSUME TypeOK, ShutdownInv, [Next]_vars
    PROVE  ShutdownInv'
  <1>1. Sched!QuietAfterStop'
    BY SchedulerStep, SchedulerQuiet DEF TypeOK, ShutdownInv
  <1>2. workers \in [{Monitor} -> Sched!Places] /\ Monitor \in Actors
    BY DEF TypeOK, Sched!TypeOK, Actors
  <1> USE DEF ShutdownInv, Idle
  <1>3. CASE Register
    BY <1>1, <1>3 DEF Register, Sched!AddTask
  <1>4. CASE Serve
    BY <1>1, <1>4 DEF Serve, Sched!Start
  <1>5. CASE Signal
    BY <1>1, <1>5 DEF Signal, Sched!StopBegin
  <1>6. CASE Stopped
    BY <1>1, <1>6 DEF Stopped, Sched!StopReturn
  <1>7. CASE Exit
    BY <1>1, <1>2, <1>7 DEF Exit, Sched!Initialize
  <1>8. CASE Boot
    BY <1>1, <1>8 DEF Boot, goroutine
  <1>9. CASE BatchBegin
    <2>1. workers'[Monitor] = "executing" /\ stop' = stop /\ workers[Monitor] # "none"
      BY <1>2, <1>9 DEF BatchBegin, Sched!Execute, Sched!SelectTick, Sched!Move, Sched!At
    <2> QED
      BY <1>1, <1>9, <2>1 DEF BatchBegin
  <1>10. CASE BatchNext
    BY <1>1, <1>10 DEF BatchNext, Sched!At, process, goroutine
  <1>11. CASE BatchEnd
    BY <1>1, <1>11 DEF BatchEnd, Sched!Return, Sched!At
  <1>12. CASE TickerFires
    BY <1>1, <1>12 DEF TickerFires, Sched!Tick
  <1>13. CASE SelectDone
    <2>1. workers[Monitor] = "selecting"
      BY <1>13 DEF SelectDone, Sched!SelectDone, Sched!At
    <2> QED
      BY <1>1, <1>13, <2>1 DEF SelectDone, Sched!SelectDone
  <1>14. ASSUME NEW a \in Actors, Renew(a)
         PROVE  ShutdownInv'
    <2>1. ~Idle(a) /\ \A b \in Actors \ {a} : renewals'[b] = renewals[b]
      BY <1>14 DEF Renew, Lock, Answer, Refused, Save, Goto, End, At, TypeOK
    <2>2. UNCHANGED <<process, goroutine, batch>>
      BY <1>14 DEF Renew, Lock, Answer, Refused, Save
    <2> QED
      BY <1>1, <1>2, <2>1, <2>2 DEF process, goroutine
  <1>15. ASSUME NEW h \in Handlers, RequestRenewal(h)
         PROVE  ShutdownInv'
    <2>1. renewals'[Monitor] = renewals[Monitor]
      BY <1>2, <1>15, RenewalsAssumption DEF RequestRenewal, Ask, TypeOK, Actors
    <2> QED
      BY <1>1, <1>15, <2>1 DEF RequestRenewal, process, goroutine
  <1>16. CASE RequestDeletion \/ Age
    BY <1>1, <1>16 DEF RequestDeletion, Age, process, goroutine
  <1>17. CASE UNCHANGED vars
    BY <1>1, <1>17 DEF vars
  <1> QED
    BY <1>3, <1>4, <1>5, <1>6, <1>7, <1>8, <1>9, <1>10, <1>11, <1>12, <1>13, <1>14, <1>15,
       <1>16, <1>17 DEF Next, Batch

LEMMA InitShutdown == Init => ShutdownInv
  BY DEF Init, ShutdownInv, Idle, Actors, Sched!Init, Sched!QuietAfterStop

\* When main drains the server the batch is over: no renewal of the monitor is
\* under way or still to come in a process that is about to end.
THEOREM BatchOver == Spec => []BatchOverWhenStopped
  <1>1. Init => TypeOK /\ ShutdownInv /\ LockHeldByRenewer
    BY InitType, InitShutdown, RenewalsAssumption DEF Init, LockHeldByRenewer, At, Idle
  <1>2. TypeOK /\ ShutdownInv /\ LockHeldByRenewer /\ [Next]_vars
            => (TypeOK /\ ShutdownInv /\ LockHeldByRenewer)'
    BY NextType, NextShutdown, NextLock
  <1>3. TypeOK /\ ShutdownInv /\ LockHeldByRenewer => BatchOverWhenStopped
    BY DEF BatchOverWhenStopped, ShutdownInv, LockHeldByRenewer, At, Actors,
           Sched!QuietAfterStop, Sched!Alive, Sched!Gone
  <1> QED
    BY <1>1, <1>2, <1>3, PTL DEF Spec

-----------------------------------------------------------------------------

LEMMA RenewedKeepsGone ==
    ASSUME NEW i \in Ids, NEW j \in Ids, ~Exists(i), TypeOK
    PROVE  Renewed(j)[i] = None
  BY DEF Renewed, Exists, TypeOK

\* No renewal that ends late brings back the row of a deleted certificate.
THEOREM NothingResurrected == Spec => DeletedStaysDeleted
  <1>1. ASSUME TypeOK, [Next]_vars, NEW i \in Ids, ~Exists(i)
        PROVE  ~Exists(i)'
    <2>1. CASE UNCHANGED certs
      BY <1>1, <2>1 DEF Exists
    <2>2. ASSUME NEW a \in Actors, Save(a)
          PROVE  ~Exists(i)'
      <3>1. renewals[a].id \in Ids
        BY <1>1, <2>2 DEF Save, At, Idle, TypeOK, Renewal
      <3> QED
        BY <1>1, <2>1, <2>2, <3>1, RenewedKeepsGone DEF Save, Exists
    <2>3. CASE RequestDeletion \/ Age
      BY <1>1, <2>3 DEF RequestDeletion, Age, Exists, TypeOK
    <2>4. \/ UNCHANGED certs \/ RequestDeletion \/ Age
          \/ \E a \in Actors : Save(a)
      BY <1>1 DEF Next, vars, Register, Serve, Signal, Stopped, Exit, Boot, Batch, BatchBegin,
                  BatchNext, BatchEnd, TickerFires, SelectDone, Renew, Lock, Answer, RequestRenewal
    <2> QED
      BY <2>1, <2>2, <2>3, <2>4
  <1>2. TypeOK /\ [Next]_vars => [\A i \in Ids : ~Exists(i) => ~Exists(i)']_vars
    BY <1>1
  <1>3. Spec => []TypeOK
    BY TypeCorrect
  <1> QED
    BY <1>2, <1>3, PTL DEF Spec, DeletedStaysDeleted
=============================================================================
