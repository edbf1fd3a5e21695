------------------------------ MODULE Renewals -------------------------------
(***************************************************************************)
(* Automatic renewal: the certificate monitor's task in the scheduler, the *)
(* batch of renewals it starts, renewals that users ask for meanwhile, the *)
(* lock of the Let's Encrypt client they share, and main, which starts and *)
(* stops all of it.                                                        *)
(*                                                                         *)
(* A certificate is due when its end is at most thirty days away, the      *)
(* threshold of the monitor and of letsencrypt.RenewCertificate alike.     *)
(* Its Secret is the business of Certificates.                             *)
(***************************************************************************)
CONSTANTS
    Ids,            \* rows of the table certificates
    Monitor,        \* the task "CertificateRenewal" and its goroutine
    Handlers,       \* handlers of requests to renew or delete
    Reliable,       \* rows with auto_renew whose domain is there, and for which
                    \* client, ACME server and database always answer
    None            \* no row, no renewal, nobody holds the lock

VARIABLES
    phase,          \* how far main is
    certs,          \* certs[i]: the row with id i, or None
    batch,          \* what AutoRenewCertificates still has to look at
    renewals,       \* renewals[a]: the call of RenewCertificate a is in, or None
    lock,           \* who holds Client.mu
    registered, running, cancelled, workers, ticks, stop

Sched == INSTANCE Scheduler WITH Tasks <- {Monitor}

process == <<phase, registered, running, cancelled, stop>>
goroutine == <<workers, ticks>>
vars == <<phase, certs, batch, renewals, lock,
          registered, running, cancelled, workers, ticks, stop>>

Actors == {Monitor} \cup Handlers
Phases == {"starting", "serving", "stopping", "draining", "exited"}
Cert == [source : {"letsencrypt", "manual"}, due : BOOLEAN]
Renewal == [step : {"lock", "renew", "save"}, id : Ids]

ASSUME RenewalsAssumption ==
    /\ Monitor \notin Handlers
    /\ Reliable \subseteq Ids
    /\ None \notin Cert \cup Renewal \cup Actors

Up == phase # "exited"
Exists(i) == certs[i] # None
Idle(a) == renewals[a] = None
At(a, step) == ~Idle(a) /\ renewals[a].step = step
Goto(a, step) == renewals' = [renewals EXCEPT ![a].step = step]
End(a) == renewals' = [renewals EXCEPT ![a] = None]

-----------------------------------------------------------------------------
(* CertificateService.RenewCertificate                                     *)

Renewable(i) == Exists(i) /\ certs[i].source = "letsencrypt"

\* It reads the row, refuses what is not of Let's Encrypt, reads the domain, and
\* asks the client, which looks at the end of what it was given before it locks.
\* A row or a domain that cannot be read, and a missing client, end it here.
Ask(a, i) ==
    \/ /\ Renewable(i) /\ certs[i].due
       /\ renewals' = [renewals EXCEPT ![a] = [step |-> "lock", id |-> i]]
    \/ ~(i \in Reliable /\ Renewable(i) /\ certs[i].due) /\ UNCHANGED renewals

Lock(a) ==
    /\ At(a, "lock") /\ lock = None
    /\ lock' = a
    /\ Goto(a, "renew")
    /\ UNCHANGED <<process, goroutine, certs, batch>>

\* Mutated form of Refused: an error returns without the deferred unlock.
Refused_KeepsLock(a) == End(a) /\ UNCHANGED lock

Refused(a) == End(a) /\ lock' = None

\* The ACME server issues the new certificate, or refuses.
Answer(a) ==
    /\ At(a, "renew")
    /\ \/ Goto(a, "save") /\ lock' = None
       \/ renewals[a].id \notin Reliable /\ Refused(a)
    /\ UNCHANGED <<process, goroutine, certs, batch>>

\* Mutated form of Renewed: an INSERT OR REPLACE of the copy.
Renewed_Upsert(i) == [certs EXCEPT ![i] = [source |-> "letsencrypt", due |-> FALSE]]

\* Mutated form of Renewed: the source the table does not know.
Renewed_Relabelled(i) ==
    IF Exists(i) THEN [certs EXCEPT ![i] = [source |-> "acme", due |-> FALSE]] ELSE certs

\* An UPDATE of a row that is gone changes nothing.
Renewed(i) == IF Exists(i) THEN [certs EXCEPT ![i].due = FALSE] ELSE certs

Save(a) ==
    /\ At(a, "save")
    /\ \/ certs' = Renewed(renewals[a].id)
       \/ renewals[a].id \notin Reliable /\ UNCHANGED certs
    /\ End(a)
    /\ UNCHANGED <<process, goroutine, batch, lock>>

Renew(a) == Lock(a) \/ Answer(a) \/ Save(a)

-----------------------------------------------------------------------------
(* AutoRenewCertificates, the body of the monitor's task                   *)

Expiring == {i \in Ids : Exists(i) /\ certs[i].due}

\* GetExpiring, the snapshot the whole batch works from.  When the query fails
\* the batch is over before it has begun, and the task returns the error.
Query == batch' \in {Expiring, {}}

\* The first run, and those the ticker asks for.
BatchBegin ==
    /\ Up
    /\ Sched!Execute(Monitor) \/ Sched!SelectTick(Monitor)
    /\ Query
    /\ UNCHANGED <<phase, certs, renewals, lock>>

\* Mutated form of Rest: the first certificate that cannot be renewed, here
\* one a user brought, ends the batch.
Rest_UpToManual(i) == IF Renewable(i) THEN batch \ {i} ELSE {}

\* Whatever becomes of i, the batch goes on with the others.
Rest(i) == batch \ {i}

\* The order is that of valid_until, which may be any.
BatchNext ==
    /\ Sched!At(Monitor, "executing") /\ Idle(Monitor)
    /\ \E i \in batch : Ask(Monitor, i) /\ batch' = Rest(i)
    /\ UNCHANGED <<process, goroutine, certs, lock>>

BatchEnd ==
    /\ batch = {} /\ Idle(Monitor)
    /\ Sched!Return(Monitor)
    /\ UNCHANGED <<phase, certs, batch, renewals, lock>>

-----------------------------------------------------------------------------
(* Requests                                                                *)

Serving == phase \in {"serving", "stopping"}

RequestRenewal(h) ==
    /\ Serving /\ Idle(h)
    /\ \E i \in Ids : Ask(h, i)
    /\ UNCHANGED <<process, goroutine, certs, batch, lock>>

RequestDeletion ==
    /\ Serving
    /\ \E i \in Ids : Exists(i) /\ certs' = [certs EXCEPT ![i] = None]
    /\ UNCHANGED <<process, goroutine, batch, renewals, lock>>

\* Time passes.
Age ==
    /\ \E i \in Ids : Exists(i) /\ ~certs[i].due /\ certs' = [certs EXCEPT ![i].due = TRUE]
    /\ UNCHANGED <<process, goroutine, batch, renewals, lock>>

-----------------------------------------------------------------------------
(* main                                                                    *)

Register ==
    /\ phase = "starting" /\ registered = {}
    /\ Sched!AddTask(Monitor)
    /\ UNCHANGED <<phase, certs, batch, renewals, lock>>

Serve ==
    /\ phase = "starting" /\ registered # {}
    /\ Sched!Start
    /\ phase' = "serving"
    /\ UNCHANGED <<certs, batch, renewals, lock>>

\* SIGTERM: main stops the scheduler while the server goes on serving.
Signal ==
    /\ phase = "serving"
    /\ Sched!StopBegin
    /\ phase' = "stopping"
    /\ UNCHANGED <<certs, batch, renewals, lock>>

Stopped ==
    /\ phase = "stopping"
    /\ Sched!StopReturn
    /\ phase' = "draining"
    /\ UNCHANGED <<certs, batch, renewals, lock>>

\* server.Shutdown waits for the handlers, up to a deadline that has been
\* running since the signal; with it, or with a crash, the process is gone.
Exit ==
    /\ Up
    /\ phase' = "exited"
    /\ batch' = {}
    /\ renewals' = [a \in Actors |-> None]
    /\ lock' = None
    /\ Sched!Initialize
    /\ UNCHANGED certs

Boot ==
    /\ phase = "exited"
    /\ phase' = "starting"
    /\ UNCHANGED <<certs, batch, renewals, lock, registered, running, cancelled, stop, goroutine>>

TickerFires == Sched!Tick(Monitor) /\ UNCHANGED <<phase, certs, batch, renewals, lock>>

SelectDone == Sched!SelectDone(Monitor) /\ UNCHANGED <<phase, certs, batch, renewals, lock>>

-----------------------------------------------------------------------------

Init ==
    /\ phase = "starting"
    /\ certs \in [Ids -> Cert]
    /\ batch = {}
    /\ renewals = [a \in Actors |-> None]
    /\ lock = None
    /\ Sched!Init

Batch == BatchBegin \/ BatchNext \/ BatchEnd

Next ==
    \/ Register \/ Serve \/ Signal \/ Stopped \/ Exit \/ Boot
    \/ Batch \/ TickerFires \/ SelectDone
    \/ \E a \in Actors : Renew(a)
    \/ \E h \in Handlers : RequestRenewal(h)
    \/ RequestDeletion \/ Age

Spec == Init /\ [][Next]_vars

\* The runtime runs what can run, the ticker ticks, every call to the ACME
\* server is answered, a mutex does not starve who waits for it, a select with
\* several ready cases does not neglect one for ever, and of the queries of the
\* batches, made on tick after tick, not all fail.
FairSpec ==
    /\ Spec
    /\ WF_vars(Batch) /\ SF_vars(BatchBegin /\ batch' = Expiring) /\ WF_vars(TickerFires) /\ SF_vars(SelectDone)
    /\ \A a \in Actors : SF_vars(Lock(a)) /\ WF_vars(Answer(a) \/ Save(a))
    /\ WF_vars(Register) /\ WF_vars(Serve) /\ WF_vars(Stopped)

-----------------------------------------------------------------------------

\* Every variable has its type.
TypeOK ==
    /\ phase \in Phases
    /\ certs \in [Ids -> Cert \cup {None}]
    /\ batch \subseteq Ids
    /\ renewals \in [Actors -> Renewal \cup {None}]
    /\ lock \in Actors \cup {None}
    /\ Sched!TypeOK

\* When Stop has returned the batch is over: no renewal of the monitor is
\* under way, or still to come, in a process that is about to end.
BatchOverWhenStopped ==
    phase = "draining" => batch = {} /\ Idle(Monitor) /\ lock # Monitor

\* Client.mu is held by exactly the renewal that talks to the ACME server: two
\* never do at once, and no way out of a renewal leaves the lock behind.
LockHeldByRenewer == \A a \in Actors : lock = a <=> At(a, "renew")

\* The process uses the scheduler as the scheduler allows.
KeepsScheduler == Sched!Spec

\* Users delete certificates while they are being renewed: no renewal that
\* ends later brings one back.
DeletedStaysDeleted ==
    [][\A i \in Ids : ~Exists(i) => ~Exists(i)']_vars

\* While the process serves, a due certificate of Let's Encrypt is renewed
\* without anybody asking, even if the others of its batch are always
\* refused, are deleted or are not of Let's Encrypt.
RenewedInTheEnd ==
    \A i \in Reliable :
        (phase = "serving" /\ Renewable(i) /\ certs[i].due)
            ~> (phase # "serving" \/ ~Exists(i) \/ ~certs[i].due)

\* A signal ends the scheduler, however many renewals are under way.
StopEnds == phase = "stopping" ~> phase # "stopping"

=============================================================================
