----------------------------- MODULE DomainSync -----------------------------
(***************************************************************************)
(* The core of the program: DomainService over DomainRepository (SQLite)   *)
(* and IngressManager (Kubernetes).                                        *)
(*                                                                         *)
(* A request handler reads a row, works on the copy, writes the whole copy *)
(* back and leaves the Ingress to a goroutine.  Nothing orders these       *)
(* goroutines, nothing repeats one that failed, and a restart forgets      *)
(* them.  A task below is one such handler or goroutine between two of its *)
(* calls: a handler that ends in `go f(domain)` becomes the goroutine.     *)
(*                                                                         *)
(* One SQL statement and one Kubernetes call are atomic: the pool has a    *)
(* single connection (db.SetMaxOpenConns(1)), the program opens no         *)
(* transaction, and the API server serialises the writes of an object.     *)
(***************************************************************************)
EXTENDS Naturals, FiniteSets

CONSTANTS
    Names,          \* domain names
    Namespaces,     \* Kubernetes namespaces a domain may be routed to
    Targets,        \* what a domain is routed to and how (service, port, SSL mode)
    AutoTargets,    \* the targets with SSL mode "auto"
    WildcardOf,     \* the wildcard over the last two labels of a name; its own of a wildcard
    ApiStatuses,    \* the statuses a REST update may write (the field is free text)
    MaxId,          \* the largest id the table can give out
    Tasks,          \* slots for the handlers and goroutines running at once
    Ops,            \* the operations clients call
    Faults,         \* what may fail: "k8s" and "db" calls, and a "crash"
    None            \* no row, no Ingress, no task, no wildcard

VARIABLES
    rows,           \* table domains: rows[i] is the row with id i, or None
    nextId,         \* the sequence behind AUTOINCREMENT
    ingresses,      \* ingresses[i][ns]: Ingress "domain-<i>" of namespace ns
    tasks           \* tasks[t]: the handler or goroutine in slot t, or None

vars == <<rows, nextId, ingresses, tasks>>

Ids == 1..MaxId
Statuses == {"pending", "active", "error", "deleted"} \cup ApiStatuses
Steps == {"insert", "reactivate", "createIngress", "saveStatus", "saveUpdate",
          "getIngress", "putIngress", "softDelete", "hardDelete", "deleteIngress"}

Row == [name : Names, ns : Namespaces, target : Targets,
        status : Statuses, enabled : BOOLEAN]

\* The Secret in the TLS section of an Ingress: none, the domain's own
\* domain-<id>-tls, or the one its wildcard shares.
Secrets == {"none", "own", "wildcard"}
Ingress == [host : Names, target : Targets, secret : Secrets]

\* A task works on its own copy of a row.  An insert has no id yet, secret is
\* what a goroutine has chosen so far, and fresh says that the Ingress an
\* update has read has not changed since.
Task == [step : Steps, id : 0..MaxId, row : Row, secret : Secrets, fresh : BOOLEAN]

ASSUME DomainSyncAssumption ==
    /\ MaxId \in Nat
    /\ AutoTargets \subseteq Targets
    /\ WildcardOf \in [Names -> Names \cup {None}]
    /\ None \notin Row
    /\ None \notin Ingress
    /\ None \notin Task
    /\ Ops \subseteq {"create", "update", "softDelete", "hardDelete"}
    /\ Faults \subseteq {"k8s", "db", "crash"}

-----------------------------------------------------------------------------
(* DomainRepository and the domains table                                  *)

Exists(i) == rows[i] # None

RowsNamed(n) == {i \in Ids : Exists(i) /\ rows[i].name = n}

\* Mutated forms of NameTaken: no constraint; rows in use only.
NameTaken_Unconstrained(n) == FALSE
NameTaken_LiveOnly(n) == \E i \in RowsNamed(n) : rows[i].status # "deleted"

\* domain_name is UNIQUE: the INSERT of a name that has a row fails.
NameTaken(n) == \E i \in Ids : Exists(i) /\ rows[i].name = n

\* Mutated forms of FreshId: an id after the next; the rowid of a table
\* without AUTOINCREMENT, one more than the largest in use.
FreshId_Skipping == nextId + 1
FreshId_Reusing ==
    CHOOSE i \in 1..nextId : /\ \A j \in Ids : j >= i => ~Exists(j)
                             /\ i = 1 \/ Exists(i - 1)

\* id is AUTOINCREMENT: an id is never given out twice.
FreshId == nextId

RepoCreate(row) ==
    /\ ~NameTaken(row.name)
    /\ nextId <= MaxId
    /\ rows' = [rows EXCEPT ![FreshId] = row]
    /\ nextId' = nextId + 1

\* Mutated form of Updated: INSERT OR REPLACE.
Updated_Upsert(i, row) == [rows EXCEPT ![i] = row]

\* Every column but domain_name; no row with the id is not an error.
Updated(i, row) ==
    IF Exists(i) THEN [rows EXCEPT ![i] = [row EXCEPT !.name = rows[i].name]]
                 ELSE rows

RepoUpdate(i, row) == rows' = Updated(i, row) /\ UNCHANGED nextId

RepoDelete(i) == rows' = [rows EXCEPT ![i] = None] /\ UNCHANGED nextId

\* Mutated form of RepoSoftDelete: the status is left alone.
RepoSoftDelete_FlagOnly(i) ==
    /\ rows' = IF Exists(i) THEN [rows EXCEPT ![i].enabled = FALSE] ELSE rows
    /\ UNCHANGED nextId

RepoSoftDelete(i) ==
    /\ rows' = IF Exists(i)
               THEN [rows EXCEPT ![i].status = "deleted", ![i].enabled = FALSE]
               ELSE rows
    /\ UNCHANGED nextId

NoWrite == UNCHANGED <<rows, nextId>>

-----------------------------------------------------------------------------
(* IngressManager and the Ingresses of the cluster                         *)

\* An Ingress is rendered from the row and from the Secret that was chosen
\* before.  (Its class and annotations, which come from the settings, are left
\* out.)
Rendered(row, secret) ==
    [host |-> row.name, target |-> row.target,
     secret |-> IF row.target \in AutoTargets THEN secret ELSE "none"]

\* Mutated form of CreateMayFail: the call waits until the name is free.
CreateMayFail_Never(i, ns) == FALSE

\* A create fails if the Ingress is there already, or on the way.
CreateMayFail(i, ns) == ingresses[i][ns] # None \/ "k8s" \in Faults

\* A write that changes an Ingress bumps its resourceVersion, so an update
\* that has read it before will be refused.
Outdated(ts, i, ns) ==
    [t \in Tasks |->
        IF ts[t] # None /\ ts[t].step = "putIngress" /\ ts[t].id = i /\ ts[t].row.ns = ns
        THEN [ts[t] EXCEPT !.fresh = FALSE]
        ELSE ts[t]]

\* The Ingress of i in ns becomes ing, and the tasks become ts.
WriteIngress(i, ns, ing, ts) ==
    /\ ingresses' = [ingresses EXCEPT ![i][ns] = ing]
    /\ tasks' = IF ing = ingresses[i][ns] THEN ts ELSE Outdated(ts, i, ns)

-----------------------------------------------------------------------------
(* DomainService: the requests                                             *)

Idle(t) == tasks[t] = None
AllIdle == \A t \in Tasks : Idle(t)
At(t, step) == ~Idle(t) /\ tasks[t].step = step

NewTask(step, i, row) ==
    [step |-> step, id |-> i, row |-> row, secret |-> "none", fresh |-> FALSE]
Goto(t, step) == tasks' = [tasks EXCEPT ![t].step = step]
End(t) == tasks' = [tasks EXCEPT ![t] = None]

\* Mutated form of NewRow: a row starts as active, before it has its Ingress.
NewRow_Active(n, ns, g) ==
    [name |-> n, ns |-> ns, target |-> g, status |-> "active", enabled |-> TRUE]

NewRow(n, ns, g) ==
    [name |-> n, ns |-> ns, target |-> g, status |-> "pending", enabled |-> TRUE]

\* CreateDomain up to its lookup: a free name is to be inserted (a lookup that
\* fails counts as free), a soft-deleted row to be reactivated, and any other
\* row of that name ends the request.
BeginCreate(t) ==
    /\ "create" \in Ops /\ Idle(t)
    /\ \E n \in Names, ns \in Namespaces, g \in Targets :
         \/ /\ RowsNamed(n) = {} \/ "db" \in Faults
            /\ tasks' = [tasks EXCEPT ![t] = NewTask("insert", 0, NewRow(n, ns, g))]
         \/ \E i \in RowsNamed(n) :
              /\ rows[i].status = "deleted"
              /\ tasks' = [tasks EXCEPT ![t] = NewTask("reactivate", i, NewRow(n, ns, g))]
    /\ UNCHANGED <<rows, nextId, ingresses>>

\* UpdateDomain up to the copy it will save: each field of the row as read,
\* or as the request gives it.
BeginUpdate(t) ==
    /\ "update" \in Ops /\ Idle(t)
    /\ \E i \in Ids :
         /\ Exists(i)
         /\ \E ns \in Namespaces, g \in Targets, e \in BOOLEAN,
               s \in ApiStatuses \cup {rows[i].status} :
              tasks' = [tasks EXCEPT ![t] = NewTask("saveUpdate", i,
                           [name |-> rows[i].name, ns |-> ns, target |-> g,
                            status |-> s, enabled |-> e])]
    /\ UNCHANGED <<rows, nextId, ingresses>>

\* DeleteDomain up to its DELETE or soft delete: the goroutine that removes
\* the Ingress, in slot u, is started first.
BeginDelete(t, u) ==
    /\ Idle(t) /\ Idle(u) /\ t # u
    /\ \E i \in Ids, step \in {"softDelete", "hardDelete"} \cap Ops :
         /\ Exists(i)
         /\ tasks' = [tasks EXCEPT ![t] = NewTask(step, i, rows[i]),
                                   ![u] = NewTask("deleteIngress", i, rows[i])]
    /\ UNCHANGED <<rows, nextId, ingresses>>

-----------------------------------------------------------------------------
(* DomainService: the writes that end a request                            *)

\* An INSERT that fails ends the request.
Insert(t) ==
    /\ At(t, "insert")
    /\ \/ /\ RepoCreate(tasks[t].row)
          /\ tasks' = [tasks EXCEPT ![t].step = "createIngress", ![t].id = FreshId]
       \/ /\ NameTaken(tasks[t].row.name) \/ nextId > MaxId \/ "db" \in Faults
          /\ NoWrite /\ End(t)
    /\ UNCHANGED ingresses

\* The full-row UPDATE of a request, then its goroutine.
Save(t, step, then) ==
    /\ At(t, step)
    /\ \/ RepoUpdate(tasks[t].id, tasks[t].row) /\ Goto(t, then)
       \/ "db" \in Faults /\ NoWrite /\ End(t)
    /\ UNCHANGED ingresses

\* Mutated form of Reactivate: the goroutine started is the one of an update.
Reactivate_AsUpdate(t) == Save(t, "reactivate", "getIngress")

Reactivate(t) == Save(t, "reactivate", "createIngress")
SaveUpdate(t) == Save(t, "saveUpdate", "getIngress")

RemoveRow(t) ==
    /\ \/ At(t, "softDelete") /\ RepoSoftDelete(tasks[t].id)
       \/ At(t, "hardDelete") /\ RepoDelete(tasks[t].id)
       \/ /\ At(t, "softDelete") \/ At(t, "hardDelete")
          /\ "db" \in Faults /\ NoWrite
    /\ End(t)
    /\ UNCHANGED ingresses

-----------------------------------------------------------------------------
(* DomainService: the goroutines                                           *)

\* Mutated form of HasWildcard: the wildcard must be in service.
HasWildcard_Active(n) ==
    WildcardOf[n] # None /\ (WildcardOf[n] = n \/ \E i \in RowsNamed(WildcardOf[n]) : rows[i].status = "active")

\* getWildcardSecretName: a wildcard has a Secret to share, and a name below one
\* uses it if the wildcard has a row, whatever its status.
HasWildcard(n) == WildcardOf[n] # None /\ (WildcardOf[n] = n \/ RowsNamed(WildcardOf[n]) # {})

\* Before a goroutine renders the Ingress of an auto domain it looks for the
\* wildcard; a lookup that fails counts as none found.
ChooseSecret(t) ==
    /\ At(t, "createIngress") \/ At(t, "getIngress")
    /\ tasks[t].row.target \in AutoTargets /\ tasks[t].secret = "none"
    /\ LET n == tasks[t].row.name
       IN \/ tasks' = [tasks EXCEPT ![t].secret = IF HasWildcard(n) THEN "wildcard" ELSE "own"]
          \/ /\ "db" \in Faults /\ WildcardOf[n] # n
             /\ tasks' = [tasks EXCEPT ![t].secret = "own"]
    /\ UNCHANGED <<rows, nextId, ingresses>>

HasChosen(t) == tasks[t].row.target \in AutoTargets => tasks[t].secret # "none"

\* createIngressForDomain up to the status it will save.  A call that fails
\* on the way may still have taken effect.
CreateIngress(t) ==
    /\ At(t, "createIngress") /\ HasChosen(t)
    /\ LET i == tasks[t].id
           row == tasks[t].row
           free == ingresses[i][row.ns] = None
           ing == Rendered(row, tasks[t].secret)
           ToSave(s) == [tasks EXCEPT ![t].step = "saveStatus", ![t].row.status = s]
       IN \/ free /\ WriteIngress(i, row.ns, ing, ToSave("active"))
          \/ /\ free /\ "k8s" \in Faults
             /\ WriteIngress(i, row.ns, ing, ToSave("error"))
          \/ /\ CreateMayFail(i, row.ns)
             /\ UNCHANGED ingresses /\ tasks' = ToSave("error")
    /\ NoWrite

\* The rest of createIngressForDomain: the goroutine saves the whole row it
\* was started with, and ignores an error.
SaveStatus(t) ==
    /\ At(t, "saveStatus")
    /\ \/ RepoUpdate(tasks[t].id, tasks[t].row)
       \/ "db" \in Faults /\ NoWrite
    /\ End(t)
    /\ UNCHANGED ingresses

\* updateIngressForDomain reads the Ingress of the row it was started with;
\* no Ingress, or an error, and it is done.
GetIngress(t) ==
    /\ At(t, "getIngress") /\ HasChosen(t)
    /\ LET found == ingresses[tasks[t].id][tasks[t].row.ns] # None
       IN \/ found /\ tasks' = [tasks EXCEPT ![t].step = "putIngress", ![t].fresh = TRUE]
          \/ (~found \/ "k8s" \in Faults) /\ End(t)
    /\ UNCHANGED <<rows, nextId, ingresses>>

\* It writes the Ingress back, unless someone changed it meanwhile.
PutIngress(t) ==
    /\ At(t, "putIngress")
    /\ \/ /\ tasks[t].fresh
          /\ WriteIngress(tasks[t].id, tasks[t].row.ns, Rendered(tasks[t].row, tasks[t].secret),
                          [tasks EXCEPT ![t] = None])
       \/ /\ ~tasks[t].fresh \/ "k8s" \in Faults
          /\ UNCHANGED ingresses /\ End(t)
    /\ NoWrite

\* deleteIngressForDomain: no Ingress, or an error, and it is done.
DeleteIngress(t) ==
    /\ At(t, "deleteIngress")
    /\ LET i == tasks[t].id
           ns == tasks[t].row.ns
       IN \/ /\ ingresses[i][ns] # None
             /\ WriteIngress(i, ns, None, [tasks EXCEPT ![t] = None])
          \/ /\ ingresses[i][ns] = None \/ "k8s" \in Faults
             /\ UNCHANGED ingresses /\ End(t)
    /\ NoWrite

-----------------------------------------------------------------------------

\* The process stops and starts again: no handler or goroutine survives and
\* nothing looks for the work they left undone.
Restart ==
    /\ "crash" \in Faults
    /\ ~AllIdle
    /\ tasks' = [t \in Tasks |-> None]
    /\ UNCHANGED <<rows, nextId, ingresses>>

Init ==
    /\ rows = [i \in Ids |-> None]
    /\ nextId = 1
    /\ ingresses = [i \in Ids |-> [ns \in Namespaces |-> None]]
    /\ tasks = [t \in Tasks |-> None]

\* A bulk request begins one operation after another, each on its own.
Begin == \E t \in Tasks :
    BeginCreate(t) \/ BeginUpdate(t) \/ \E u \in Tasks : BeginDelete(t, u)

Step(t) ==
    \/ Insert(t) \/ Reactivate(t) \/ SaveUpdate(t) \/ RemoveRow(t)
    \/ ChooseSecret(t)
    \/ CreateIngress(t) \/ SaveStatus(t)
    \/ GetIngress(t) \/ PutIngress(t)
    \/ DeleteIngress(t)

Next == Begin \/ (\E t \in Tasks : Step(t)) \/ Restart

Spec == Init /\ [][Next]_vars

\* A handler or goroutine that can take its next step takes it: the Go
\* scheduler runs every runnable goroutine.  Clients owe nothing.
FairSpec == Spec /\ \A t \in Tasks : WF_vars(Step(t))

\* Clients that wait until everything an operation started has ended.
SerialSpec == Init /\ [][(AllIdle /\ Begin) \/ \E t \in Tasks : Step(t)]_vars

-----------------------------------------------------------------------------
(* Properties of the table and of what refers to it by id                  *)

\* Every variable has its type.
TypeOK ==
    /\ rows \in [Ids -> Row \cup {None}]
    /\ nextId \in 1..(MaxId + 1)
    /\ ingresses \in [Ids -> [Namespaces -> Ingress \cup {None}]]
    /\ tasks \in [Tasks -> Task \cup {None}]

\* No two rows have the same name, although CreateDomain looks a name up and
\* inserts it in two statements, and two requests may do so at once.
UniqueNames ==
    \A i, j \in Ids : Exists(i) /\ Exists(j) /\ rows[i].name = rows[j].name => i = j

\* Something stands for name n under id i: the row, the copy a handler or
\* goroutine works on, or an Ingress "domain-<i>" of some namespace.
Carries(i, n) ==
    \/ Exists(i) /\ rows[i].name = n
    \/ \E t \in Tasks : ~Idle(t) /\ tasks[t].id = i /\ tasks[t].row.name = n
    \/ \E ns \in Namespaces : ingresses[i][ns] # None /\ ingresses[i][ns].host = n

\* An id means one name for ever: a goroutine that outlives its row, and an
\* Ingress left behind, never speak for another domain, so a late write
\* cannot change or remove what belongs to someone else.
OneIdentity ==
    \A i \in Ids, m, n \in Names : Carries(i, m) /\ Carries(i, n) => m = n

\* An id that has not been given out is not in use anywhere.
FreshIdsUnused ==
    \A i \in Ids, n \in Names : Carries(i, n) => i < nextId

\* A row that was hard-deleted does not come back under its id, whatever the
\* handlers and goroutines that still hold a copy of it write later.
NoReincarnation ==
    [][\A i \in Ids : i < nextId /\ ~Exists(i) => ~Exists(i)']_vars

-----------------------------------------------------------------------------
(* Properties of the Secrets                                               *)

\* Domain i of name n is a wildcard, or was created after its wildcard, whose
\* row is still there.
UnderWildcard(i, n) ==
    /\ WildcardOf[n] # None
    /\ WildcardOf[n] = n \/ \E j \in RowsNamed(WildcardOf[n]) : j < i

\* An auto domain that was created after its wildcard is served with the Secret
\* of the wildcard and with no other, whatever else happened to either, and
\* although the goroutine looks for the wildcard at one moment and writes the
\* Ingress at a later one.  (A domain that was there first keeps its own Secret until
\* somebody updates it; and a lookup that fails is taken for none.)
CoveredShares ==
    \A i \in Ids, ns \in Namespaces :
        LET ing == ingresses[i][ns]
        IN ing # None /\ ing.target \in AutoTargets /\ UnderWildcard(i, ing.host)
             => ing.secret = "wildcard"

-----------------------------------------------------------------------------
(* Properties of the status                                                *)

Pending(i) == Exists(i) /\ rows[i].status = "pending"

\* While no update, crash or database error interferes, a pending domain has
\* a goroutine that will give it another status.
PendingIsAttended ==
    \A i \in Ids : Pending(i) =>
        \E t \in Tasks : /\ At(t, "createIngress") \/ At(t, "saveStatus")
                         /\ tasks[t].id = i

\* A pending domain becomes active or error (or goes away) in the end.
PendingSettles == \A i \in Ids : Pending(i) ~> ~Pending(i)

\* The row of a soft-deleted domain only changes status when CreateDomain
\* reactivates it as pending: the table of transitions in data-model.md has
\* none out of deleted.
DeletedStaysDeleted ==
    [][\A i \in Ids : Exists(i) /\ Exists(i)' /\ rows[i].status = "deleted"
                        => rows'[i].status \in {"deleted", "pending"}]_vars

-----------------------------------------------------------------------------
(* Properties of the table and the cluster when nothing is left running:   *)
(* no later step repairs what they find wrong                              *)

Wanted(i, ns) == Exists(i) /\ rows[i].status # "deleted" /\ rows[i].ns = ns

\* Every Ingress of the program belongs to a domain that is to be routed in
\* that namespace.
SettledNoOrphan ==
    AllIdle => \A i \in Ids, ns \in Namespaces : ingresses[i][ns] # None => Wanted(i, ns)

\* Every domain that is not deleted has its Ingress.
SettledRouted ==
    AllIdle => \A i \in Ids, ns \in Namespaces : Wanted(i, ns) => ingresses[i][ns] # None

\* The Ingress shows the row: its name, its target, and a Secret if the SSL mode
\* wants one (which Secret is said by CoveredShares).
Shows(ing, row) ==
    /\ ing.host = row.name /\ ing.target = row.target
    /\ ing.secret = "none" <=> row.target \notin AutoTargets

\* The Ingress of a domain shows the row as it is now.
SettledCurrent ==
    AllIdle => \A i \in Ids, ns \in Namespaces :
        Wanted(i, ns) /\ ingresses[i][ns] # None => Shows(ingresses[i][ns], rows[i])

\* No domain is left pending.
SettledNotPending == AllIdle => \A i \in Ids : ~Pending(i)

\* Every domain that is to be routed is, as its row says, no other is, and every
\* status is final.
SettledInSync ==
    SettledNoOrphan /\ SettledRouted /\ SettledCurrent /\ SettledNotPending

=============================================================================
