------------------------------ MODULE Scheduler ------------------------------
(***************************************************************************)
(* scheduler.Scheduler: a list of tasks, a goroutine for each task that is *)
(* on the list when the scheduler starts, and a Stop that cancels their    *)
(* context and waits for all of them (sync.WaitGroup).                     *)
(*                                                                         *)
(* What a task does is left open: an execution begins with Execute or      *)
(* SelectTick and ends with Return.  The program adds its tasks, starts    *)
(* the scheduler once and stops it once; a new process starts over.        *)
(***************************************************************************)
CONSTANT Tasks          \* what can be put on the list

VARIABLES
    registered,         \* s.tasks
    running,            \* s.running
    cancelled,          \* the context s.ctx has been cancelled
    workers,            \* workers[t]: where the goroutine of task t is
    ticks,              \* ticks[t]: a tick is in the channel of t's ticker
    stop                \* how far the call of Stop is

schedulerVars == <<registered, running, cancelled, workers, ticks, stop>>

Places == {"none", "first", "executing", "selecting", "ended"}
Gone == {"none", "ended"}

Alive(t) == workers[t] \notin Gone

Init ==
    /\ registered = {}
    /\ running = FALSE
    /\ cancelled = FALSE
    /\ workers = [t \in Tasks |-> "none"]
    /\ ticks = [t \in Tasks |-> FALSE]
    /\ stop = "not called"

At(t, place) == workers[t] = place
Move(t, place) == workers' = [workers EXCEPT ![t] = place]

-----------------------------------------------------------------------------

AddTask(t) ==
    /\ ~running
    /\ registered' = registered \cup {t}
    /\ UNCHANGED <<running, cancelled, workers, ticks, stop>>

\* Start, once: a goroutine for every task on the list, counted by the group.
Start ==
    /\ ~running /\ stop = "not called"
    /\ running' = TRUE
    /\ cancelled' = FALSE
    /\ workers' = [t \in Tasks |-> IF t \in registered THEN "first" ELSE workers[t]]
    /\ UNCHANGED <<registered, ticks, stop>>

\* Stop cancels the context and lets go of the lock before it waits.
StopBegin ==
    /\ running /\ stop = "not called"
    /\ cancelled' = TRUE
    /\ running' = FALSE
    /\ stop' = "waiting"
    /\ UNCHANGED <<registered, workers, ticks>>

\* Mutated form of WaitOver: Stop returns while goroutines are on their way.
WaitOver_Early == TRUE

\* s.wg.Wait(): every goroutine has called Done.
WaitOver == \A t \in Tasks : ~Alive(t)

StopReturn ==
    /\ stop = "waiting" /\ WaitOver
    /\ stop' = "returned"
    /\ UNCHANGED <<registered, running, cancelled, workers, ticks>>

-----------------------------------------------------------------------------
(* runTask                                                                 *)

\* The immediate run.
Execute(t) ==
    /\ At(t, "first")
    /\ Move(t, "executing")
    /\ UNCHANGED <<registered, running, cancelled, ticks, stop>>

\* The execution ends; an error is only logged.
Return(t) ==
    /\ At(t, "executing")
    /\ Move(t, "selecting")
    /\ UNCHANGED <<registered, running, cancelled, ticks, stop>>

\* The ticker's channel holds one tick; more are dropped.
Tick(t) ==
    /\ Alive(t) /\ ~ticks[t]
    /\ ticks' = [ticks EXCEPT ![t] = TRUE]
    /\ UNCHANGED <<registered, running, cancelled, workers, stop>>

SelectTick(t) ==
    /\ At(t, "selecting") /\ ticks[t]
    /\ ticks' = [ticks EXCEPT ![t] = FALSE]
    /\ Move(t, "executing")
    /\ UNCHANGED <<registered, running, cancelled, stop>>

\* Mutated form of SelectDone: the goroutine ignores the context.
SelectDone_Never(t) ==
    /\ At(t, "selecting") /\ cancelled /\ stop = "returned"
    /\ Move(t, "ended")
    /\ UNCHANGED <<registered, running, cancelled, ticks, stop>>

\* Both cases of the select may be ready: it takes either.
SelectDone(t) ==
    /\ At(t, "selecting") /\ cancelled
    /\ Move(t, "ended")
    /\ UNCHANGED <<registered, running, cancelled, ticks, stop>>

\* The process ends and another one creates its scheduler.
Initialize ==
    /\ registered' = {}
    /\ running' = FALSE
    /\ cancelled' = FALSE
    /\ workers' = [t \in Tasks |-> "none"]
    /\ ticks' = [t \in Tasks |-> FALSE]
    /\ stop' = "not called"

-----------------------------------------------------------------------------

Work(t) == Execute(t) \/ Return(t) \/ SelectTick(t) \/ SelectDone(t)

Next ==
    \/ Start \/ StopBegin \/ StopReturn \/ Initialize
    \/ \E t \in Tasks : AddTask(t) \/ Tick(t) \/ Work(t)

Spec == Init /\ [][Next]_schedulerVars

-----------------------------------------------------------------------------

\* Every variable has its type.
TypeOK ==
    /\ registered \subseteq Tasks
    /\ running \in BOOLEAN
    /\ cancelled \in BOOLEAN
    /\ workers \in [Tasks -> Places]
    /\ ticks \in [Tasks -> BOOLEAN]
    /\ stop \in {"not called", "waiting", "returned"}

\* Once Stop has returned no task executes and no goroutine is left that
\* could begin to, whatever ticks came in while it waited.
QuietAfterStop == stop = "returned" => \A t \in Tasks : ~Alive(t)

=============================================================================
