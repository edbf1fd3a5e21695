-------------------------- MODULE DomainSyncProofs --------------------------
(***************************************************************************)
(* Proofs about DomainSync, for every number of ids, slots, names,         *)
(* namespaces and targets, every set of operations and every set of        *)
(* faults, but where a theorem says otherwise.                             *)
(***************************************************************************)
EXTENDS DomainSyncRegistry, TLAPS

\* What the tasks variable may hold.
TaskTable == [Tasks -> Task \cup {None}]

-----------------------------------------------------------------------------
(* The helpers                                                             *)

\* A slot that is at a step holds a task.
LEMMA AtTask ==
    ASSUME TypeOK, NEW t \in Tasks, ~Idle(t)
    PROVE  tasks[t] \in Task /\ tasks[t].row \in Row /\ tasks[t].id \in 0..MaxId
  BY DEF TypeOK, Idle, Task

\* A task is idle or a task after its slot is set, moved on or cleared.
LEMMA TaskUpdate ==
    ASSUME NEW ts \in TaskTable, NEW t \in Tasks, NEW k \in Task \cup {None}
    PROVE  [ts EXCEPT ![t] = k] \in TaskTable
  BY DEF TaskTable

\* Refusing an update that has read an old Ingress only clears its flag.
LEMMA OutdatedKeeps ==
    ASSUME NEW ts \in TaskTable, NEW i, NEW ns
    PROVE  /\ Outdated(ts, i, ns) \in TaskTable
           /\ \A t \in Tasks :
                /\ (Outdated(ts, i, ns)[t] = None) <=> (ts[t] = None)
                /\ ts[t] # None => /\ Outdated(ts, i, ns)[t].step = ts[t].step
                                   /\ Outdated(ts, i, ns)[t].id = ts[t].id
                                   /\ Outdated(ts, i, ns)[t].row = ts[t].row
                                   /\ Outdated(ts, i, ns)[t].secret = ts[t].secret
  <1> DEFINE o == Outdated(ts, i, ns)
  <1>1. ASSUME NEW u \in Tasks
        PROVE  /\ o[u] \in Task \cup {None}
               /\ (o[u] = None) <=> (ts[u] = None)
               /\ ts[u] # None => /\ o[u].step = ts[u].step
                                  /\ o[u].id = ts[u].id
                                  /\ o[u].row = ts[u].row
                                  /\ o[u].secret = ts[u].secret
    <2>1. CASE ts[u] # None /\ ts[u].step = "putIngress" /\ ts[u].id = i /\ ts[u].row.ns = ns
      <3>1. ts[u] \in Task
        BY <2>1 DEF TaskTable
      <3>2. o[u] = [ts[u] EXCEPT !.fresh = FALSE]
        BY <2>1 DEF Outdated
      <3>3. [ts[u] EXCEPT !.fresh = FALSE] \in Task
        BY <3>1 DEF Task
      <3> QED BY <2>1, <3>1, <3>2, <3>3, DomainSyncAssumption DEF Task
    <2>2. CASE ~(ts[u] # None /\ ts[u].step = "putIngress" /\ ts[u].id = i /\ ts[u].row.ns = ns)
      <3>1. o[u] = ts[u]
        BY <2>2 DEF Outdated
      <3> QED BY <3>1 DEF TaskTable
    <2> QED BY <2>1, <2>2
  <1>2. o = [u \in Tasks |-> o[u]]
    BY DEF Outdated
  <1>3. o \in TaskTable
    BY <1>1, <1>2 DEF TaskTable
  <1>4. QED
    BY <1>1, <1>3

\* A new task has the type of one.
LEMMA NewTaskType ==
    ASSUME NEW step \in Steps, NEW i \in 0..MaxId, NEW row \in Row
    PROVE  NewTask(step, i, row) \in Task
  BY DEF NewTask, Task, Secrets

\* A row is rendered as an Ingress that shows it.
LEMMA RenderedShows ==
    ASSUME NEW row \in Row, NEW secret \in Secrets
    PROVE  /\ Rendered(row, secret) \in Ingress /\ Rendered(row, secret) # None
           /\ Rendered(row, secret).host = row.name
           /\ Rendered(row, secret).secret = IF row.target \in AutoTargets THEN secret ELSE "none"
           /\ (row.target \in AutoTargets => secret # "none") => Shows(Rendered(row, secret), row)
  <1> DEFINE ing == Rendered(row, secret)
  <1>1. /\ ing.host = row.name /\ ing.target = row.target
        /\ ing.secret = IF row.target \in AutoTargets THEN secret ELSE "none"
    BY DEF Rendered
  <1>2. ing \in Ingress
    BY DEF Rendered, Row, Ingress, Secrets
  <1>3. ing # None
    BY <1>2, DomainSyncAssumption
  <1>4. (row.target \in AutoTargets => secret # "none") => Shows(ing, row)
    BY <1>1 DEF Shows
  <1> QED
    BY <1>1, <1>2, <1>3, <1>4

\* A goroutine that chooses a Secret changes nothing else.
LEMMA ChooseSecretStep ==
    ASSUME TypeOK, NEW t \in Tasks, ChooseSecret(t)
    PROVE  /\ ~Idle(t) /\ UNCHANGED <<rows, nextId, ingresses>>
           /\ \E k \in Task : /\ tasks' = [tasks EXCEPT ![t] = k]
                              /\ k.step = tasks[t].step /\ k.id = tasks[t].id
                              /\ k.row = tasks[t].row /\ k.fresh = tasks[t].fresh
                              /\ k.step \in {"createIngress", "getIngress"}
                              /\ k.secret # "none"
                              /\ \/ k.secret = IF HasWildcard(k.row.name) THEN "wildcard" ELSE "own"
                                 \/ "db" \in Faults
  <1>1. ~Idle(t) /\ tasks[t] \in Task /\ UNCHANGED <<rows, nextId, ingresses>>
        /\ tasks[t].step \in {"createIngress", "getIngress"}
    BY AtTask DEF ChooseSecret, At
  <1>2. PICK s \in {"own", "wildcard"} :
          /\ tasks' = [tasks EXCEPT ![t].secret = s]
          /\ \/ s = IF HasWildcard(tasks[t].row.name) THEN "wildcard" ELSE "own"
             \/ "db" \in Faults
    BY DEF ChooseSecret
  <1> DEFINE k == [tasks[t] EXCEPT !.secret = s]
  <1>3. /\ k \in Task /\ k.step = tasks[t].step /\ k.id = tasks[t].id /\ k.row = tasks[t].row
        /\ k.fresh = tasks[t].fresh /\ k.secret = s
    BY <1>1 DEF Task, Secrets
  <1>4. tasks' = [tasks EXCEPT ![t] = k]
    BY <1>2 DEF TypeOK
  <1> QED
    BY <1>1, <1>2, <1>3, <1>4

\* The repository keeps the type of the table.
LEMMA UpdatedType ==
    ASSUME TypeOK, NEW i \in Ids, NEW row \in Row
    PROVE  Updated(i, row) \in [Ids -> Row \cup {None}]
  BY DEF TypeOK, Updated, Exists, Row

\* A write of an Ingress keeps the types of the cluster and of the tasks.
LEMMA WriteIngressType ==
    ASSUME TypeOK, NEW i \in Ids, NEW ns \in Namespaces, NEW ing \in Ingress \cup {None},
           NEW ts \in TaskTable, WriteIngress(i, ns, ing, ts)
    PROVE  /\ ingresses' \in [Ids -> [Namespaces -> Ingress \cup {None}]]
           /\ tasks' \in TaskTable
  <1>1. ingresses' \in [Ids -> [Namespaces -> Ingress \cup {None}]]
    BY DEF TypeOK, WriteIngress
  <1>2. tasks' \in TaskTable
    BY OutdatedKeeps DEF WriteIngress
  <1>3. QED
    BY <1>1, <1>2

\* A task that has an id: every step but insert.  The model starts no other.
HasId == \A t \in Tasks : ~Idle(t) /\ tasks[t].step # "insert" => tasks[t].id \in Ids

TypeInv == TypeOK /\ HasId

-----------------------------------------------------------------------------
(* Type correctness                                                        *)

LEMMA InitType == Init => TypeInv
  BY DomainSyncAssumption DEF Init, TypeInv, TypeOK, HasId, Idle, Ids

LEMMA BeginType ==
    ASSUME TypeInv, Begin
    PROVE  TypeInv'
  <1> USE DEF TypeInv
  <1>1. ASSUME NEW t \in Tasks, BeginCreate(t)
        PROVE  TypeInv'
    <2>1. PICK n \in Names, ns \in Namespaces, g \in Targets, i \in 0..MaxId,
               step \in {"insert", "reactivate"} :
             /\ tasks' = [tasks EXCEPT ![t] = NewTask(step, i, NewRow(n, ns, g))]
             /\ step # "insert" => i \in Ids
      BY <1>1, DomainSyncAssumption DEF BeginCreate, RowsNamed, Ids
    <2>2. NewTask(step, i, NewRow(n, ns, g)) \in Task
      BY NewTaskType DEF NewRow, Row, Statuses, Steps
    <2>3. NewTask(step, i, NewRow(n, ns, g)).step = step
          /\ NewTask(step, i, NewRow(n, ns, g)).id = i
      BY DEF NewTask
    <2> QED BY <1>1, <2>1, <2>2, <2>3 DEF BeginCreate, TypeOK, HasId, Idle
  <1>2. ASSUME NEW t \in Tasks, BeginUpdate(t)
        PROVE  TypeInv'
    <2>1. PICK i \in Ids : \E row \in Row :
             tasks' = [tasks EXCEPT ![t] = NewTask("saveUpdate", i, row)]
      BY <1>2 DEF BeginUpdate, Exists, TypeOK, Row, Statuses
    <2>2. PICK row \in Row : tasks' = [tasks EXCEPT ![t] = NewTask("saveUpdate", i, row)]
      BY <2>1
    <2>3. NewTask("saveUpdate", i, row) \in Task
      BY NewTaskType, DomainSyncAssumption DEF Steps, Ids
    <2>4. NewTask("saveUpdate", i, row).id = i
      BY DEF NewTask
    <2> QED BY <1>2, <2>2, <2>3, <2>4 DEF BeginUpdate, TypeOK, HasId, Idle
  <1>3. ASSUME NEW t \in Tasks, NEW u \in Tasks, BeginDelete(t, u)
        PROVE  TypeInv'
    <2>1. PICK i \in Ids, step \in {"softDelete", "hardDelete"} :
             /\ Exists(i)
             /\ tasks' = [tasks EXCEPT ![t] = NewTask(step, i, rows[i]),
                                       ![u] = NewTask("deleteIngress", i, rows[i])]
      BY <1>3 DEF BeginDelete
    <2>2. rows[i] \in Row
      BY <2>1 DEF Exists, TypeOK
    <2>3. NewTask(step, i, rows[i]) \in Task /\ NewTask("deleteIngress", i, rows[i]) \in Task
      BY <2>2, NewTaskType, DomainSyncAssumption DEF Steps, Ids
    <2>4. NewTask(step, i, rows[i]).id = i /\ NewTask("deleteIngress", i, rows[i]).id = i
      BY DEF NewTask
    <2> QED BY <1>3, <2>1, <2>3, <2>4 DEF BeginDelete, TypeOK, HasId, Idle
  <1>4. QED
    BY <1>1, <1>2, <1>3 DEF Begin

\* Clearing a slot keeps the types of the tasks.
LEMMA EndType ==
    ASSUME TypeInv, NEW t \in Tasks, End(t)
    PROVE  tasks' \in TaskTable /\ HasId'
  BY DEF TypeInv, TypeOK, TaskTable, HasId, Idle, End

\* So does moving a task on to a step that needs an id when it has one.
LEMMA MoveType ==
    ASSUME TypeInv, NEW t \in Tasks, ~Idle(t), NEW k \in Task, k.id \in Ids,
           tasks' = [tasks EXCEPT ![t] = k]
    PROVE  tasks' \in TaskTable /\ HasId'
  BY DEF TypeInv, TypeOK, TaskTable, HasId, Idle

\* So does any write of an Ingress after it.
LEMMA WriteIngressHasId ==
    ASSUME NEW i, NEW ns, NEW ing, NEW ts \in TaskTable, WriteIngress(i, ns, ing, ts),
           \A t \in Tasks : ts[t] # None /\ ts[t].step # "insert" => ts[t].id \in Ids
    PROVE  HasId'
  BY OutdatedKeeps DEF WriteIngress, HasId, Idle

\* An INSERT gives out an id of the table, and keeps its type.
LEMMA RepoCreateType ==
    ASSUME TypeOK, NEW row \in Row, RepoCreate(row)
    PROVE  /\ rows' \in [Ids -> Row \cup {None}]
           /\ nextId' \in 1..(MaxId + 1)
           /\ FreshId \in Ids
  BY DomainSyncAssumption DEF TypeOK, RepoCreate, FreshId, Ids

\* The other writes keep its type too, and give out no id.
LEMMA RepoType ==
    ASSUME TypeOK, NEW i \in Ids, NEW row \in Row,
           RepoUpdate(i, row) \/ RepoDelete(i) \/ RepoSoftDelete(i) \/ NoWrite
    PROVE  rows' \in [Ids -> Row \cup {None}] /\ nextId' = nextId
  <1>1. CASE RepoUpdate(i, row)
    BY <1>1, UpdatedType DEF RepoUpdate
  <1>2. CASE RepoDelete(i)
    BY <1>2 DEF RepoDelete, TypeOK
  <1>3. CASE RepoSoftDelete(i)
    <2>1. CASE Exists(i)
      <3>1. [rows[i] EXCEPT !.status = "deleted", !.enabled = FALSE] \in Row
        BY <2>1 DEF TypeOK, Exists, Row, Statuses
      <3>2. rows' = [rows EXCEPT ![i] = [rows[i] EXCEPT !.status = "deleted", !.enabled = FALSE]]
        BY <1>3, <2>1 DEF RepoSoftDelete, TypeOK
      <3> QED BY <1>3, <3>1, <3>2 DEF RepoSoftDelete, TypeOK
    <2>2. CASE ~Exists(i)
      BY <1>3, <2>2 DEF RepoSoftDelete, TypeOK
    <2> QED BY <2>1, <2>2
  <1>4. CASE NoWrite
    BY <1>4 DEF NoWrite, TypeOK
  <1>5. QED
    BY <1>1, <1>2, <1>3, <1>4

LEMMA StepType ==
    ASSUME TypeInv, NEW t \in Tasks, Step(t)
    PROVE  TypeInv'
  <1> USE DEF TypeInv
  <1> DEFINE k == tasks[t]
  <1>0. ~Idle(t) /\ k \in Task /\ k.row \in Row /\ (k.step # "insert" => k.id \in Ids)
    BY AtTask DEF Step, Insert, Reactivate, SaveUpdate, Save, RemoveRow, ChooseSecret, CreateIngress,
                  SaveStatus, GetIngress, PutIngress, DeleteIngress, At, HasId
  <1>1. CASE Insert(t)
    <2>1. CASE RepoCreate(k.row) /\ tasks' = [tasks EXCEPT ![t].step = "createIngress", ![t].id = FreshId]
      <3>1. FreshId \in Ids /\ rows' \in [Ids -> Row \cup {None}] /\ nextId' \in 1..(MaxId + 1)
        BY <1>0, <2>1, RepoCreateType
      <3>a. FreshId \in 0..MaxId
        BY <3>1, DomainSyncAssumption DEF Ids
      <3>2. [k EXCEPT !.step = "createIngress", !.id = FreshId] \in Task
        BY <1>0, <3>a DEF Task, Steps
      <3>3. [k EXCEPT !.step = "createIngress", !.id = FreshId].id = FreshId
        BY <1>0 DEF Task
      <3>4. tasks' = [tasks EXCEPT ![t] = [k EXCEPT !.step = "createIngress", !.id = FreshId]]
        BY <2>1 DEF TypeOK
      <3> QED BY <1>0, <1>1, <3>1, <3>2, <3>3, <3>4, MoveType DEF TaskTable, TypeOK, Insert
    <2>2. CASE NoWrite /\ End(t)
      BY <1>1, <2>2, EndType DEF Insert, NoWrite, TypeOK, TaskTable
    <2> QED BY <1>1, <2>1, <2>2 DEF Insert
  <1>2. ASSUME NEW step, NEW then \in Steps, step # "insert", Save(t, step, then)
        PROVE  TypeInv'
    <2>1. k.id \in Ids
      BY <1>0, <1>2 DEF Save, At
    <2>2. CASE RepoUpdate(k.id, k.row) /\ Goto(t, then)
      <3>1. [k EXCEPT !.step = then] \in Task /\ [k EXCEPT !.step = then].id = k.id
        BY <1>0, <1>2 DEF Task
      <3>2. tasks' = [tasks EXCEPT ![t] = [k EXCEPT !.step = then]]
        BY <2>2 DEF Goto, TypeOK
      <3>3. tasks' \in TaskTable /\ HasId'
        BY <1>0, <2>1, <3>1, <3>2, MoveType
      <3> QED BY <1>0, <1>2, <2>1, <2>2, <3>3, RepoType DEF TypeOK, TaskTable, Save
    <2>3. CASE NoWrite /\ End(t)
      BY <1>2, <2>3, EndType DEF Save, NoWrite, TypeOK, TaskTable
    <2> QED BY <1>2, <2>2, <2>3 DEF Save
  <1>3. CASE Reactivate(t) \/ SaveUpdate(t)
    <2>1. {"createIngress", "getIngress"} \subseteq Steps
      BY DEF Steps
    <2> QED BY <1>2, <1>3, <2>1 DEF Reactivate, SaveUpdate
  <1>4. CASE RemoveRow(t)
    <2>1. k.id \in Ids
      BY <1>0, <1>4 DEF RemoveRow, At
    <2> QED BY <1>0, <1>4, <2>1, EndType, RepoType DEF RemoveRow, TypeOK, TaskTable
  <1>5. CASE SaveStatus(t)
    <2>1. k.id \in Ids
      BY <1>0, <1>5 DEF SaveStatus, At
    <2> QED BY <1>0, <1>5, <2>1, EndType, RepoType DEF SaveStatus, TypeOK, TaskTable
  <1>c. CASE ChooseSecret(t)
    BY <1>0, <1>c, ChooseSecretStep, MoveType DEF TypeOK, TaskTable
  <1>6. CASE GetIngress(t)
    <2>1. k.id \in Ids
      BY <1>0, <1>6 DEF GetIngress, At
    <2>2. CASE tasks' = [tasks EXCEPT ![t].step = "putIngress", ![t].fresh = TRUE]
      <3>1. [k EXCEPT !.step = "putIngress", !.fresh = TRUE] \in Task
            /\ [k EXCEPT !.step = "putIngress", !.fresh = TRUE].id = k.id
        BY <1>0 DEF Task, Steps
      <3>2. tasks' = [tasks EXCEPT ![t] = [k EXCEPT !.step = "putIngress", !.fresh = TRUE]]
        BY <2>2 DEF TypeOK
      <3> QED BY <1>0, <1>6, <2>1, <3>1, <3>2, MoveType DEF GetIngress, TypeOK, TaskTable
    <2>3. CASE End(t)
      BY <1>6, <2>3, EndType DEF GetIngress, TypeOK, TaskTable
    <2> QED BY <1>6, <2>2, <2>3 DEF GetIngress
  <1>7. ASSUME NEW ing \in Ingress \cup {None}, NEW j \in Task \cup {None},
               j # None /\ j.step # "insert" => j.id \in Ids,
               NoWrite, k.step # "insert",
               WriteIngress(k.id, k.row.ns, ing, [tasks EXCEPT ![t] = j])
        PROVE  TypeInv'
    <2>1. k.id \in Ids /\ k.row.ns \in Namespaces
      BY <1>0, <1>7 DEF Row
    <2>2. [tasks EXCEPT ![t] = j] \in TaskTable
      BY DEF TypeOK, TaskTable
    <2>3. \A u \in Tasks : LET b == [tasks EXCEPT ![t] = j][u] IN
             b # None /\ b.step # "insert" => b.id \in Ids
      BY <1>7 DEF HasId, Idle, TypeOK
    <2>4. HasId'
      BY <1>7, <2>2, <2>3, WriteIngressHasId
    <2> QED BY <1>7, <2>1, <2>2, <2>4, WriteIngressType DEF TypeOK, NoWrite, TaskTable
  <1>8. CASE CreateIngress(t)
    <2>1. Rendered(k.row, k.secret) \in Ingress
      BY <1>0, RenderedShows DEF Task
    <2>2. ASSUME NEW st \in {"active", "error"}
          PROVE  /\ [k EXCEPT !.step = "saveStatus", !.row.status = st] \in Task
                 /\ [k EXCEPT !.step = "saveStatus", !.row.status = st].id = k.id
                 /\ [tasks EXCEPT ![t].step = "saveStatus", ![t].row.status = st]
                      = [tasks EXCEPT ![t] = [k EXCEPT !.step = "saveStatus", !.row.status = st]]
      <3>1. [k EXCEPT !.step = "saveStatus", !.row.status = st] \in Task
        BY <1>0 DEF Task, Row, Statuses, Steps
      <3>2. [k EXCEPT !.step = "saveStatus", !.row.status = st].id = k.id
        BY <1>0 DEF Task
      <3> QED BY <3>1, <3>2 DEF TypeOK
    <2>3. k.step # "insert" /\ k.id \in Ids /\ NoWrite
      BY <1>0, <1>8 DEF CreateIngress, At
    <2>4. CASE \E st \in {"active", "error"} :
                 WriteIngress(k.id, k.row.ns, Rendered(k.row, k.secret),
                              [tasks EXCEPT ![t].step = "saveStatus", ![t].row.status = st])
      BY <1>7, <2>1, <2>2, <2>3, <2>4
    <2>5. CASE /\ UNCHANGED ingresses
               /\ tasks' = [tasks EXCEPT ![t].step = "saveStatus", ![t].row.status = "error"]
      BY <1>0, <2>2, <2>3, <2>5, MoveType DEF TypeOK, TaskTable, NoWrite
    <2> QED BY <1>8, <2>4, <2>5 DEF CreateIngress
  <1>9. CASE PutIngress(t)
    <2>1. Rendered(k.row, k.secret) \in Ingress
      BY <1>0, RenderedShows DEF Task
    <2>2. k.step # "insert" /\ NoWrite
      BY <1>9 DEF PutIngress, At
    <2>3. CASE UNCHANGED ingresses /\ End(t)
      BY <2>2, <2>3, EndType DEF TypeOK, TaskTable, NoWrite
    <2> QED BY <1>7, <1>9, <2>1, <2>2, <2>3 DEF PutIngress
  <1>10. CASE DeleteIngress(t)
    <2>1. k.step # "insert" /\ NoWrite
      BY <1>10 DEF DeleteIngress, At
    <2>2. CASE UNCHANGED ingresses /\ End(t)
      BY <2>1, <2>2, EndType DEF TypeOK, TaskTable, NoWrite
    <2> QED BY <1>7, <1>10, <2>1, <2>2 DEF DeleteIngress
  <1> QED BY <1>1, <1>3, <1>4, <1>5, <1>c, <1>6, <1>8, <1>9, <1>10 DEF Step

LEMMA NextType == TypeInv /\ [Next]_vars => TypeInv'
  <1> SUFFICES ASSUME TypeInv, [Next]_vars
               PROVE  TypeInv'
    OBVIOUS
  <1>1. CASE Begin
    BY <1>1, BeginType
  <1>2. ASSUME NEW t \in Tasks, Step(t)
        PROVE  TypeInv'
    BY <1>2, StepType
  <1>3. CASE Restart
    BY <1>3 DEF Restart, TypeInv, TypeOK, HasId, Idle
  <1>4. CASE UNCHANGED vars
    BY <1>4 DEF vars, TypeInv, TypeOK, HasId, Idle
  <1>5. QED
    BY <1>1, <1>2, <1>3, <1>4 DEF Next

\* Rows, Ingresses and tasks are always well formed, and only a task that is
\* about to insert has no id.
THEOREM TypeCorrect == Spec => []TypeInv
  <1>1. QED
    BY InitType, NextType, PTL DEF Spec

THEOREM TypeCorrectness == Spec => []TypeOK
  <1>1. TypeInv => TypeOK
    BY DEF TypeInv
  <1>2. QED
    BY <1>1, TypeCorrect, PTL

-----------------------------------------------------------------------------
(* The table: unique names, and ids that are used once                     *)

\* A step leaves alone whether there is a row i, and its name.
Keeps(i) == (Exists(i)' <=> Exists(i)) /\ (Exists(i) => rows'[i].name = rows[i].name)

\* All a step may do to the ids and names of the table.
TableStep ==
    \/ /\ nextId' = nextId
       /\ \A i \in Ids : Keeps(i)
    \/ /\ nextId' = nextId
       /\ \E k \in Ids : /\ Exists(k) /\ ~Exists(k)'
                         /\ \A i \in Ids \ {k} : Keeps(i)
    \/ /\ nextId' = nextId + 1
       /\ \E k \in Ids : /\ k = nextId
                         /\ Exists(k)' /\ rows'[k].name \in Names
                         /\ ~NameTaken(rows'[k].name)
                         /\ \A i \in Ids \ {k} : Keeps(i)

\* Nothing writes the table but the five statements of the repository.
LEMMA TableWrites ==
    ASSUME TypeInv, NEW t \in Tasks, Step(t)
    PROVE  \/ NoWrite
           \/ RepoCreate(tasks[t].row) /\ tasks[t].row \in Row
           \/ \E i \in Ids, row \in Row : RepoUpdate(i, row)
           \/ \E i \in Ids : RepoDelete(i) \/ RepoSoftDelete(i)
  <1>1. ~Idle(t) /\ tasks[t].row \in Row /\ (tasks[t].step # "insert" => tasks[t].id \in Ids)
    BY AtTask DEF Step, Insert, Reactivate, SaveUpdate, Save, RemoveRow, ChooseSecret, CreateIngress,
                  SaveStatus, GetIngress, PutIngress, DeleteIngress, At, TypeInv, HasId
  <1>2. CASE Insert(t)
    BY <1>1, <1>2 DEF Insert
  <1>3. CASE Reactivate(t) \/ SaveUpdate(t)
    BY <1>1, <1>3 DEF Reactivate, SaveUpdate, Save, At
  <1>4. CASE RemoveRow(t)
    BY <1>1, <1>4 DEF RemoveRow, At
  <1>5. CASE SaveStatus(t)
    BY <1>1, <1>5 DEF SaveStatus, At
  <1>6. CASE ChooseSecret(t) \/ CreateIngress(t) \/ GetIngress(t) \/ PutIngress(t) \/ DeleteIngress(t)
    BY <1>6 DEF ChooseSecret, CreateIngress, GetIngress, PutIngress, DeleteIngress, NoWrite
  <1>7. QED
    BY <1>2, <1>3, <1>4, <1>5, <1>6 DEF Step

LEMMA NextTable ==
    ASSUME TypeInv, [Next]_vars
    PROVE  TableStep
  <1> USE DEF TypeInv
  <1>1. CASE NoWrite
    BY <1>1 DEF NoWrite, TableStep, Keeps, Exists
  <1>2. ASSUME NEW row \in Row, RepoCreate(row)
        PROVE  TableStep
    <2>1. nextId \in Ids /\ rows' = [rows EXCEPT ![nextId] = row] /\ nextId' = nextId + 1
      BY <1>2, RepoCreateType DEF RepoCreate, FreshId
    <2>2. PICK k \in Ids : k = nextId /\ rows' = [rows EXCEPT ![k] = row]
      BY <2>1
    <2>3. rows'[k] = row /\ \A i \in Ids \ {k} : rows'[i] = rows[i]
      BY <2>2 DEF TypeOK
    <2>4. Exists(k)' /\ rows'[k].name \in Names /\ ~NameTaken(rows'[k].name)
      BY <1>2, <2>3, DomainSyncAssumption DEF Exists, RepoCreate, Row
    <2>5. \A i \in Ids \ {k} : Keeps(i)
      BY <2>3 DEF Keeps, Exists
    <2> QED BY <2>1, <2>2, <2>4, <2>5 DEF TableStep
  <1>3. ASSUME NEW i \in Ids, NEW row \in Row, RepoUpdate(i, row)
        PROVE  TableStep
    <2>1. \A j \in Ids : Keeps(j)
      BY <1>3, DomainSyncAssumption DEF RepoUpdate, Updated, TypeOK, Keeps, Exists, Row
    <2> QED BY <1>3, <2>1 DEF RepoUpdate, TableStep
  <1>4. ASSUME NEW i \in Ids, RepoDelete(i)
        PROVE  TableStep
    <2>1. ~Exists(i)' /\ \A j \in Ids \ {i} : Keeps(j)
      BY <1>4 DEF RepoDelete, TypeOK, Keeps, Exists
    <2>2. CASE Exists(i)
      BY <1>4, <2>1, <2>2 DEF RepoDelete, TableStep
    <2>3. CASE ~Exists(i)
      BY <1>4, <2>1, <2>3 DEF RepoDelete, TableStep, Keeps
    <2> QED BY <2>2, <2>3
  <1>5. ASSUME NEW i \in Ids, RepoSoftDelete(i)
        PROVE  TableStep
    <2>1. CASE Exists(i)
      <3>1. /\ rows[i] \in Row
            /\ rows' = [rows EXCEPT ![i] = [rows[i] EXCEPT !.status = "deleted", !.enabled = FALSE]]
        BY <1>5, <2>1 DEF RepoSoftDelete, TypeOK, Exists
      <3>2. /\ [rows[i] EXCEPT !.status = "deleted", !.enabled = FALSE] \in Row
            /\ [rows[i] EXCEPT !.status = "deleted", !.enabled = FALSE].name = rows[i].name
        BY <3>1 DEF Row, Statuses
      <3>3. \A j \in Ids : Keeps(j)
        BY <3>1, <3>2, DomainSyncAssumption DEF TypeOK, Keeps, Exists
      <3> QED BY <1>5, <3>3 DEF RepoSoftDelete, TableStep
    <2>2. CASE ~Exists(i)
      BY <1>1, <1>5, <2>2 DEF RepoSoftDelete, NoWrite
    <2> QED BY <2>1, <2>2
  <1>6. CASE \E t \in Tasks : Step(t)
    BY <1>1, <1>2, <1>3, <1>4, <1>5, <1>6, TableWrites
  <1>7. CASE Begin
    BY <1>1, <1>7 DEF Begin, BeginCreate, BeginUpdate, BeginDelete, NoWrite
  <1>8. CASE Restart \/ UNCHANGED vars
    BY <1>1, <1>8 DEF Restart, vars, NoWrite
  <1>9. QED
    BY <1>6, <1>7, <1>8 DEF Next

\* The names of the rows are distinct: NameTaken is decided by the INSERT
\* itself, so the older lookup of CreateDomain does not matter.
THEOREM NamesAreUnique == Spec => []UniqueNames
  <1>1. Init => UniqueNames
    BY DEF Init, UniqueNames, Exists
  <1>2. TypeInv /\ UniqueNames /\ [Next]_vars => UniqueNames'
    <2> SUFFICES ASSUME TypeInv, UniqueNames, [Next]_vars
                 PROVE  UniqueNames'
      OBVIOUS
    <2>1. TableStep
      BY NextTable
    <2>2. CASE \A i \in Ids : Keeps(i)
      BY <2>2 DEF UniqueNames, Keeps, Exists
    <2>3. CASE \E k \in Ids : /\ Exists(k) /\ ~Exists(k)'
                              /\ \A i \in Ids \ {k} : Keeps(i)
      BY <2>3 DEF UniqueNames, Keeps, Exists
    <2>4. ASSUME NEW k \in Ids, Exists(k)', ~NameTaken(rows'[k].name),
                 \A i \in Ids \ {k} : Keeps(i)
          PROVE  UniqueNames'
      BY <2>4 DEF UniqueNames, Keeps, Exists, NameTaken
    <2>5. QED
      BY <2>1, <2>2, <2>3, <2>4 DEF TableStep
  <1>3. QED
    BY <1>1, <1>2, TypeCorrect, PTL DEF Spec

\* An id below the sequence that has no row never gets one again.
THEOREM IdsAreNotReused == Spec => NoReincarnation
  <1>1. TypeInv /\ [Next]_vars =>
            [\A i \in Ids : i < nextId /\ ~Exists(i) => ~Exists(i)']_vars
    <2> SUFFICES ASSUME TypeInv, [Next]_vars, NEW i \in Ids, i < nextId, ~Exists(i)
                 PROVE  ~Exists(i)'
      OBVIOUS
    <2>1. TableStep
      BY NextTable
    <2>2. i # nextId
      BY DEF TypeInv, TypeOK, Ids
    <2>3. QED
      BY <2>1, <2>2 DEF TableStep, Keeps
  <1>2. QED
    BY <1>1, TypeCorrect, PTL DEF Spec, NoReincarnation

-----------------------------------------------------------------------------
(* Identity: what stands for an id, in the table, in a task or in the      *)
(* cluster, stands for one name                                            *)

\* A row, a task or an Ingress that a step leaves or makes has the id and the
\* name of one that was there before.
RowsInherit ==
    \A i \in Ids : Exists(i)' => Carries(i, rows'[i].name)
TasksInherit ==
    \A t \in Tasks : ~Idle(t)' /\ tasks'[t].id \in Ids => Carries(tasks'[t].id, tasks'[t].row.name)
IngressesInherit ==
    \A i \in Ids, ns \in Namespaces :
        ingresses'[i][ns] # None => Carries(i, ingresses'[i][ns].host)

LEMMA InheritAll ==
    ASSUME RowsInherit, TasksInherit, IngressesInherit,
           NEW i \in Ids, NEW n \in Names, Carries(i, n)'
    PROVE  Carries(i, n)
  BY DEF RowsInherit, TasksInherit, IngressesInherit, Carries

LEMMA RowsKept ==
    ASSUME TypeInv, [Next]_vars, nextId' = nextId
    PROVE  RowsInherit
  <1>1. TableStep /\ nextId # nextId + 1
    BY NextTable DEF TypeInv, TypeOK
  <1>2. QED
    BY <1>1 DEF TableStep, Keeps, RowsInherit, Carries, Exists

LEMMA BeginInherits ==
    ASSUME TypeInv, Begin
    PROVE  RowsInherit /\ TasksInherit /\ IngressesInherit
  <1>1. UNCHANGED <<rows, nextId, ingresses>>
    BY DEF Begin, BeginCreate, BeginUpdate, BeginDelete
  <1>2. RowsInherit /\ IngressesInherit
    BY <1>1 DEF RowsInherit, IngressesInherit, Carries, Exists
  <1>3. ASSUME NEW t \in Tasks, BeginCreate(t)
        PROVE  TasksInherit
    BY <1>3 DEF BeginCreate, RowsNamed, NewTask, NewRow, TypeInv, TypeOK, Ids, Idle,
                TasksInherit, Carries
  <1>4. ASSUME NEW t \in Tasks, BeginUpdate(t)
        PROVE  TasksInherit
    BY <1>4 DEF BeginUpdate, NewTask, TypeInv, TypeOK, Idle, TasksInherit, Carries
  <1>5. ASSUME NEW t \in Tasks, NEW u \in Tasks, BeginDelete(t, u)
        PROVE  TasksInherit
    BY <1>5 DEF BeginDelete, NewTask, TypeInv, TypeOK, Idle, TasksInherit, Carries
  <1>6. QED
    BY <1>2, <1>3, <1>4, <1>5 DEF Begin

\* A slot that still holds a task holds the same id and name as before.
SlotsKept(ts) ==
    \A u \in Tasks : ts[u] # None => /\ ~Idle(u) /\ ts[u].id = tasks[u].id
                                     /\ ts[u].row.name = tasks[u].row.name

LEMMA SlotsInherit ==
    ASSUME SlotsKept(tasks')
    PROVE  TasksInherit
  BY DEF SlotsKept, TasksInherit, Carries, Idle

LEMMA EndKeepsSlots ==
    ASSUME TypeInv, NEW t \in Tasks
    PROVE  SlotsKept([tasks EXCEPT ![t] = None])
  BY DEF TypeInv, TypeOK, SlotsKept, Idle

LEMMA MoveKeepsSlots ==
    ASSUME TypeInv, NEW t \in Tasks, ~Idle(t), NEW k,
           k.id = tasks[t].id, k.row.name = tasks[t].row.name
    PROVE  SlotsKept([tasks EXCEPT ![t] = k])
  BY DEF TypeInv, TypeOK, SlotsKept, Idle

LEMMA WriteIngressInherits ==
    ASSUME TypeInv, NEW t \in Tasks, ~Idle(t), tasks[t].id \in Ids,
           NEW ns \in Namespaces, NEW ing,
           ing = None \/ ing.host = tasks[t].row.name,
           NEW ts \in TaskTable, SlotsKept(ts), WriteIngress(tasks[t].id, ns, ing, ts)
    PROVE  TasksInherit /\ IngressesInherit
  <1>1. SlotsKept(tasks')
    BY OutdatedKeeps DEF WriteIngress, SlotsKept
  <1>2. IngressesInherit
    BY DEF TypeInv, TypeOK, WriteIngress, IngressesInherit, Carries
  <1>3. QED
    BY <1>1, <1>2, SlotsInherit

\* Every step of a task but a successful INSERT.
LEMMA StepInherits ==
    ASSUME TypeInv, NEW t \in Tasks, Step(t), nextId' = nextId
    PROVE  RowsInherit /\ TasksInherit /\ IngressesInherit
  <1> DEFINE k == tasks[t]
  <1>1. /\ ~Idle(t) /\ k \in Task /\ k.row \in Row
        /\ k.step # "insert" => k.id \in Ids /\ k.row.ns \in Namespaces
    BY AtTask DEF Step, Insert, Reactivate, SaveUpdate, Save, RemoveRow, ChooseSecret, CreateIngress,
                  SaveStatus, GetIngress, PutIngress, DeleteIngress, At, TypeInv, HasId, Row
  <1>2. RowsInherit
    BY RowsKept DEF Next
  <1>3. UNCHANGED ingresses => IngressesInherit
    BY DEF IngressesInherit, Carries
  <1>4. CASE UNCHANGED ingresses /\ End(t)
    BY <1>2, <1>3, <1>4, EndKeepsSlots, SlotsInherit DEF End
  <1>5. ASSUME NEW j, j.id = k.id, j.row.name = k.row.name,
               UNCHANGED ingresses, tasks' = [tasks EXCEPT ![t] = j]
        PROVE  RowsInherit /\ TasksInherit /\ IngressesInherit
    BY <1>1, <1>2, <1>3, <1>5, MoveKeepsSlots, SlotsInherit
  <1>6. CASE Insert(t)
    BY <1>4, <1>6 DEF Insert, RepoCreate, TypeInv, TypeOK
  <1>7. ASSUME NEW step, NEW then, Save(t, step, then)
        PROVE  RowsInherit /\ TasksInherit /\ IngressesInherit
    <2>1. CASE Goto(t, then)
      <3>1. /\ tasks' = [tasks EXCEPT ![t] = [k EXCEPT !.step = then]]
            /\ [k EXCEPT !.step = then].id = k.id
            /\ [k EXCEPT !.step = then].row = k.row
        BY <1>1, <2>1 DEF Goto, TypeInv, TypeOK, Task
      <3> QED BY <1>5, <1>7, <3>1 DEF Save
    <2> QED BY <1>4, <1>7, <2>1 DEF Save
  <1>8. CASE RemoveRow(t) \/ SaveStatus(t)
    BY <1>4, <1>8 DEF RemoveRow, SaveStatus
  <1>c. CASE ChooseSecret(t)
    <2>1. /\ UNCHANGED ingresses
          /\ \E j \in Task : /\ tasks' = [tasks EXCEPT ![t] = j]
                             /\ j.id = k.id /\ j.row = k.row
      BY <1>c, ChooseSecretStep DEF TypeInv
    <2> QED BY <1>5, <2>1
  <1>9. CASE GetIngress(t)
    <2>1. CASE tasks' = [tasks EXCEPT ![t].step = "putIngress", ![t].fresh = TRUE]
      <3>1. /\ tasks' = [tasks EXCEPT ![t] = [k EXCEPT !.step = "putIngress", !.fresh = TRUE]]
            /\ [k EXCEPT !.step = "putIngress", !.fresh = TRUE].id = k.id
            /\ [k EXCEPT !.step = "putIngress", !.fresh = TRUE].row = k.row
        BY <1>1, <2>1 DEF TypeInv, TypeOK, Task
      <3> QED BY <1>5, <1>9, <3>1 DEF GetIngress
    <2> QED BY <1>4, <1>9, <2>1 DEF GetIngress
  <1>10. CASE CreateIngress(t)
    <2>1. k.id \in Ids /\ k.row.ns \in Namespaces
      BY <1>1, <1>10 DEF CreateIngress, At
    <2>2. Rendered(k.row, k.secret).host = k.row.name
      BY DEF Rendered
    <2>3. ASSUME NEW st \in {"active", "error"}
          PROVE  LET j == [k EXCEPT !.step = "saveStatus", !.row.status = st]
                 IN /\ [tasks EXCEPT ![t].step = "saveStatus", ![t].row.status = st]
                         = [tasks EXCEPT ![t] = j]
                    /\ j \in Task /\ j.id = k.id /\ j.row.name = k.row.name
      <3>1. [k EXCEPT !.step = "saveStatus", !.row.status = st] \in Task
        BY <1>1 DEF Task, Row, Statuses, Steps
      <3>2. [k EXCEPT !.step = "saveStatus", !.row.status = st].id = k.id
        BY <1>1 DEF Task
      <3>3. [k EXCEPT !.step = "saveStatus", !.row.status = st].row.name = k.row.name
        BY <1>1 DEF Task, Row
      <3> QED BY <3>1, <3>2, <3>3 DEF TypeInv, TypeOK
    <2>4. ASSUME NEW st \in {"active", "error"},
                 WriteIngress(k.id, k.row.ns, Rendered(k.row, k.secret),
                              [tasks EXCEPT ![t].step = "saveStatus", ![t].row.status = st])
          PROVE  TasksInherit /\ IngressesInherit
      <3>1. PICK j \in Task : /\ j.id = k.id /\ j.row.name = k.row.name
                              /\ WriteIngress(k.id, k.row.ns, Rendered(k.row, k.secret),
                                              [tasks EXCEPT ![t] = j])
        BY <2>3, <2>4
      <3>2. SlotsKept([tasks EXCEPT ![t] = j]) /\ [tasks EXCEPT ![t] = j] \in TaskTable
        BY <1>1, <3>1, MoveKeepsSlots, TaskUpdate DEF TypeInv, TypeOK, TaskTable
      <3> QED BY <1>1, <2>1, <2>2, <3>1, <3>2, WriteIngressInherits
    <2>5. CASE /\ UNCHANGED ingresses
               /\ tasks' = [tasks EXCEPT ![t].step = "saveStatus", ![t].row.status = "error"]
      BY <1>5, <2>3, <2>5
    <2> QED BY <1>2, <1>10, <2>4, <2>5 DEF CreateIngress
  <1>11. ASSUME NEW ing, ing = None \/ ing.host = k.row.name, k.step # "insert",
                WriteIngress(k.id, k.row.ns, ing, [tasks EXCEPT ![t] = None])
         PROVE  RowsInherit /\ TasksInherit /\ IngressesInherit
    <2>1. [tasks EXCEPT ![t] = None] \in TaskTable
      BY TaskUpdate DEF TypeInv, TypeOK, TaskTable
    <2> QED BY <1>1, <1>2, <1>11, <2>1, EndKeepsSlots, WriteIngressInherits
  <1>12. CASE PutIngress(t)
    <2>1. Rendered(k.row, k.secret).host = k.row.name /\ k.step # "insert"
      BY <1>12 DEF Rendered, PutIngress, At
    <2> QED BY <1>4, <1>11, <1>12, <2>1 DEF PutIngress
  <1>13. CASE DeleteIngress(t)
    BY <1>4, <1>11, <1>13 DEF DeleteIngress, At
  <1>14. QED
    BY <1>6, <1>7, <1>8, <1>c, <1>9, <1>10, <1>12, <1>13 DEF Step, Reactivate, SaveUpdate

\* A successful INSERT makes one new carrier of the id it gives out.
LEMMA InsertInherits ==
    ASSUME TypeInv, NEW t \in Tasks, Insert(t), nextId' # nextId,
           NEW i \in Ids, NEW n \in Names, Carries(i, n)'
    PROVE  /\ nextId' = nextId + 1
           /\ Carries(i, n) \/ (i = nextId /\ n = tasks[t].row.name)
  <1> DEFINE k == tasks[t]
  <1>1. RepoCreate(k.row) /\ tasks' = [tasks EXCEPT ![t].step = "createIngress", ![t].id = FreshId]
        /\ UNCHANGED ingresses
    BY DEF Insert, NoWrite
  <1>2. k \in Task
    BY AtTask DEF Insert, At, TypeInv
  <1>3. /\ tasks'[t].id = nextId /\ tasks'[t].row = k.row
        /\ \A u \in Tasks \ {t} : tasks'[u] = tasks[u]
    BY <1>1, <1>2 DEF FreshId, TypeInv, TypeOK, Task
  <1>4. \A j \in Ids : rows'[j] = IF j = nextId THEN k.row ELSE rows[j]
    BY <1>1 DEF RepoCreate, FreshId, TypeInv, TypeOK
  <1>5. CASE Exists(i)' /\ rows'[i].name = n
    BY <1>1, <1>4, <1>5 DEF Carries, Exists, RepoCreate
  <1>6. ASSUME NEW u \in Tasks, ~Idle(u)', tasks'[u].id = i, tasks'[u].row.name = n
        PROVE  Carries(i, n) \/ (i = nextId /\ n = k.row.name)
    BY <1>3, <1>6 DEF Carries, Idle
  <1>7. CASE \E ns \in Namespaces : ingresses'[i][ns] # None /\ ingresses'[i][ns].host = n
    BY <1>1, <1>7 DEF Carries, RepoCreate
  <1>8. QED
    BY <1>1, <1>5, <1>6, <1>7 DEF Carries, RepoCreate

\* The inductive invariant behind OneIdentity.
IdentityInv == OneIdentity /\ FreshIdsUnused

LEMMA NextIdentity == TypeInv /\ IdentityInv /\ [Next]_vars => IdentityInv'
  <1> SUFFICES ASSUME TypeInv, IdentityInv, [Next]_vars
               PROVE  IdentityInv'
    OBVIOUS
  <1>0. nextId \in Nat
    BY DEF TypeInv, TypeOK
  <1>1. CASE RowsInherit /\ TasksInherit /\ IngressesInherit /\ nextId' = nextId
    <2>1. \A i \in Ids, n \in Names : Carries(i, n)' => Carries(i, n)
      BY <1>1, InheritAll
    <2> QED BY <1>1, <2>1 DEF IdentityInv, OneIdentity, FreshIdsUnused
  <1>2. CASE Begin
    BY <1>1, <1>2, BeginInherits DEF Begin, BeginCreate, BeginUpdate, BeginDelete
  <1>3. ASSUME NEW t \in Tasks, Step(t), nextId' = nextId
        PROVE  IdentityInv'
    BY <1>1, <1>3, StepInherits
  <1>4. ASSUME NEW t \in Tasks, Step(t), nextId' # nextId
        PROVE  IdentityInv'
    <2>1. Insert(t)
      BY <1>4 DEF Step, Reactivate, SaveUpdate, Save, RemoveRow, ChooseSecret, CreateIngress, SaveStatus,
                  GetIngress, PutIngress, DeleteIngress, NoWrite, RepoUpdate, RepoDelete,
                  RepoSoftDelete
    <2>2. nextId' = nextId + 1
      BY <1>4, <2>1 DEF Insert, RepoCreate, NoWrite
    <2>3. \A i \in Ids, n \in Names :
             Carries(i, n)' => Carries(i, n) \/ (i = nextId /\ n = tasks[t].row.name)
      BY <1>4, <2>1, InsertInherits
    <2>4. \A n \in Names, i \in Ids : i = nextId => ~Carries(i, n)
      BY <1>0 DEF IdentityInv, FreshIdsUnused, Ids
    <2>5. OneIdentity'
      BY <2>3, <2>4 DEF IdentityInv, OneIdentity
    <2>6. FreshIdsUnused'
      BY <1>0, <2>2, <2>3 DEF IdentityInv, FreshIdsUnused, Ids
    <2> QED BY <2>5, <2>6 DEF IdentityInv
  <1>5. CASE Restart
    <2>1. RowsInherit /\ TasksInherit /\ IngressesInherit
      BY <1>5 DEF Restart, RowsInherit, TasksInherit, IngressesInherit, Carries, Exists, Idle
    <2> QED BY <1>1, <1>5, <2>1 DEF Restart
  <1>6. CASE UNCHANGED vars
    BY <1>6 DEF vars, IdentityInv, OneIdentity, FreshIdsUnused, Carries, Exists, Idle
  <1>7. QED
    BY <1>2, <1>3, <1>4, <1>5, <1>6 DEF Next

\* An id means one name, in the table, in the cluster and in every handler
\* and goroutine, however late it runs.
THEOREM IdentityIsStable == Spec => []OneIdentity
  <1>1. Init => IdentityInv
    BY DEF Init, IdentityInv, OneIdentity, FreshIdsUnused, Carries, Exists, Idle
  <1>2. IdentityInv => OneIdentity
    BY DEF IdentityInv
  <1>3. QED
    BY <1>1, <1>2, NextIdentity, TypeCorrect, PTL DEF Spec

-----------------------------------------------------------------------------
(* The table implements the registry of names                              *)

LEMMA InitRegistry == Init => Registry!Init
  <1> SUFFICES ASSUME Init
               PROVE  Registry!Init
    OBVIOUS
  <1>1. \A i \in Ids : i >= nextId
    BY DomainSyncAssumption DEF Init, Ids
  <1>2. registry = [i \in Ids |-> Unused]
    BY <1>1 DEF registry
  <1>3. QED
    BY <1>2 DEF Registry!Init, Registry!Ids, Ids

LEMMA KeepsRegistry ==
    ASSUME NEW i \in Ids, Keeps(i), nextId' = nextId \/ i < nextId,
           nextId \in Nat, nextId' \in {nextId, nextId + 1}
    PROVE  registry'[i] = registry[i]
  <1>1. i \in Nat
    BY DomainSyncAssumption DEF Ids
  <1>2. (i >= nextId') <=> (i >= nextId)
    BY <1>1
  <1>3. registry[i] = IF i >= nextId THEN Unused ELSE IF Exists(i) THEN rows[i].name ELSE Gone
    BY DEF registry
  <1>4. registry'[i] = IF i >= nextId' THEN Unused
                       ELSE IF Exists(i)' THEN rows'[i].name ELSE Gone
    BY DEF registry, Exists
  <1>5. QED
    BY <1>2, <1>3, <1>4 DEF Keeps

LEMMA NextRegistry ==
    ASSUME TypeInv, TypeInv', IdentityInv, [Next]_vars
    PROVE  [Registry!Next]_registry
  <1>0. nextId \in Nat /\ Ids \subseteq Nat /\ Registry!Ids = Ids
    BY DEF TypeInv, TypeOK, Ids, Registry!Ids
  <1>1. TableStep
    BY NextTable
  <1>2. registry = [i \in Ids |-> registry[i]] /\ registry' = [i \in Ids |-> registry'[i]]
    BY DEF registry
  <1>3. \A i \in Ids : Exists(i) => rows[i].name \in Names /\ i < nextId /\ registry[i] = rows[i].name
    <2> SUFFICES ASSUME NEW i \in Ids, Exists(i)
                 PROVE  rows[i].name \in Names /\ i < nextId /\ registry[i] = rows[i].name
      OBVIOUS
    <2>1. rows[i].name \in Names
      BY DEF TypeInv, TypeOK, Exists, Row
    <2>2. i < nextId
      BY <2>1 DEF IdentityInv, FreshIdsUnused, Carries
    <2> QED BY <1>0, <2>1, <2>2 DEF registry
  <1>4. CASE nextId' = nextId /\ \A i \in Ids : Keeps(i)
    <2>1. \A i \in Ids : registry'[i] = registry[i]
      BY <1>0, <1>4, KeepsRegistry
    <2> QED BY <1>2, <2>1
  <1>5. ASSUME nextId' = nextId, NEW k \in Ids, Exists(k), ~Exists(k)',
               \A i \in Ids \ {k} : Keeps(i)
        PROVE  Registry!Next
    <2>1. \A i \in Ids \ {k} : registry'[i] = registry[i]
      BY <1>0, <1>5, KeepsRegistry
    <2>2. registry[k] \in Names /\ registry'[k] = Gone
      BY <1>0, <1>3, <1>5 DEF registry, Exists
    <2>3. registry' = [registry EXCEPT ![k] = Gone]
      BY <1>2, <2>1, <2>2
    <2> QED BY <1>0, <2>2, <2>3 DEF Registry!Next, Registry!Retire
  <1>6. ASSUME nextId' = nextId + 1, NEW k \in Ids, k = nextId, Exists(k)',
               rows'[k].name \in Names, ~NameTaken(rows'[k].name),
               \A i \in Ids \ {k} : Keeps(i)
        PROVE  Registry!Next
    <2> DEFINE n == rows'[k].name
    <2>1. ASSUME NEW i \in Ids \ {k}
          PROVE  registry'[i] = registry[i]
      <3>1. CASE i < nextId
        BY <1>0, <1>6, <3>1, KeepsRegistry
      <3>2. CASE i > nextId
        BY <1>0, <1>6, <3>2 DEF registry
      <3> QED BY <1>0, <1>6, <3>1, <3>2
    <2>2. registry[k] = Unused /\ registry'[k] = n
      BY <1>0, <1>6 DEF registry, Exists
    <2>3. \A j \in Ids : j < k => registry[j] # Unused
      BY <1>0, <1>3, <1>6, RegistryAssumption DEF registry
    <2>4. \A j \in Ids : registry[j] # n
      BY <1>0, <1>3, <1>6, RegistryAssumption DEF registry, NameTaken
    <2>5. registry' = [registry EXCEPT ![k] = n]
      BY <1>2, <2>1, <2>2
    <2>6. Registry!Allocate(k, n)
      BY <1>0, <2>2, <2>3, <2>4, <2>5 DEF Registry!Allocate
    <2> QED BY <1>0, <1>6, <2>6 DEF Registry!Next
  <1>7. QED
    BY <1>1, <1>4, <1>5, <1>6 DEF TableStep

\* The domains table, used as DomainService uses it, is a registry of names.
THEOREM TableIsARegistry == Spec => ImplementsRegistry
  <1>1. Init => IdentityInv
    BY DEF Init, IdentityInv, OneIdentity, FreshIdsUnused, Carries, Exists, Idle
  <1>2. Spec => []IdentityInv
    BY <1>1, NextIdentity, TypeCorrect, PTL DEF Spec
  <1>3. QED
    BY <1>2, InitRegistry, NextRegistry, TypeCorrect, PTL
    DEF Spec, ImplementsRegistry, Registry!Spec

-----------------------------------------------------------------------------
(* Without crashes and database errors every pending row has its           *)
(* goroutine, if updates do not bring an old status back                   *)

\* What such a program needs: the status an update or a creation is about to
\* save is final.
SavesAreFinal ==
    \A t \in Tasks :
        At(t, "saveUpdate") \/ At(t, "saveStatus") => tasks[t].row.status # "pending"

PendingInv == SavesAreFinal /\ PendingIsAttended

\* Only calls to Kubernetes may fail.
Steady == Faults \subseteq {"k8s"}

\* And no client updates.
Calm == "update" \notin Ops /\ Steady

\* The other slots keep their step, their id and their row.
OthersKept(t) ==
    \A u \in Tasks \ {t} :
        /\ Idle(u)' <=> Idle(u)
        /\ ~Idle(u) => /\ tasks'[u].step = tasks[u].step
                       /\ tasks'[u].id = tasks[u].id
                       /\ tasks'[u].row = tasks[u].row

LEMMA WriteKeepsOthers ==
    ASSUME TypeInv, NEW t \in Tasks, NEW k \in Task \cup {None}, NEW i, NEW ns, NEW ing,
           WriteIngress(i, ns, ing, [tasks EXCEPT ![t] = k])
    PROVE  /\ OthersKept(t)
           /\ Idle(t)' <=> k = None
           /\ k # None => tasks'[t].step = k.step /\ tasks'[t].id = k.id /\ tasks'[t].row = k.row
  <1> DEFINE ts == [tasks EXCEPT ![t] = k]
  <1>1. ts \in TaskTable /\ ts[t] = k /\ \A u \in Tasks \ {t} : ts[u] = tasks[u]
    BY DEF TypeInv, TypeOK, TaskTable
  <1>2. tasks' = ts \/ tasks' = Outdated(ts, i, ns)
    BY DEF WriteIngress
  <1> HIDE DEF ts
  <1>3. \A u \in Tasks : /\ (tasks'[u] = None) <=> (ts[u] = None)
                         /\ ts[u] # None => /\ tasks'[u].step = ts[u].step
                                            /\ tasks'[u].id = ts[u].id
                                            /\ tasks'[u].row = ts[u].row
    BY <1>1, <1>2, OutdatedKeeps
  <1>4. QED
    BY <1>1, <1>3 DEF OthersKept, Idle

\* What a step of slot t does to the row it is about and to the slot, when
\* nothing but a call to Kubernetes may fail.
LEMMA SteadyStep ==
    ASSUME TypeInv, SavesAreFinal, Steady, NEW t \in Tasks, Step(t)
    PROVE  /\ OthersKept(t)
           /\ At(t, "saveUpdate")' \/ At(t, "saveStatus")' => tasks'[t].row.status # "pending"
           /\ \A i \in Ids : Pending(i)' =>
                \/ /\ Pending(i)
                   /\ (At(t, "createIngress") \/ At(t, "saveStatus")) /\ tasks[t].id = i =>
                         At(t, "saveStatus")' /\ tasks'[t].id = i
                \/ At(t, "createIngress")' /\ tasks'[t].id = i
  <1> DEFINE k == tasks[t]
  <1> USE DEF Steady
  <1>1. ~Idle(t) /\ k \in Task /\ k.row \in Row /\ (k.step # "insert" => k.id \in Ids)
    BY AtTask DEF Step, Insert, Reactivate, SaveUpdate, Save, RemoveRow, ChooseSecret, CreateIngress,
                  SaveStatus, GetIngress, PutIngress, DeleteIngress, At, TypeInv, HasId
  <1>2. ASSUME End(t)
        PROVE  OthersKept(t) /\ Idle(t)'
    BY <1>2 DEF End, OthersKept, Idle, TypeInv, TypeOK
  <1>3. NoWrite => \A i \in Ids : Pending(i)' <=> Pending(i)
    BY DEF NoWrite, Pending, Exists
  <1>4. CASE Insert(t)
    <2>1. CASE RepoCreate(k.row) /\ tasks' = [tasks EXCEPT ![t].step = "createIngress", ![t].id = FreshId]
      <3>1. /\ tasks'[t].step = "createIngress" /\ tasks'[t].id = nextId
            /\ ~Idle(t)' /\ OthersKept(t)
        <4>0. FreshId \in Ids
          BY <1>1, <2>1, RepoCreateType DEF TypeInv
        <4>a. FreshId \in 0..MaxId
          BY <4>0, DomainSyncAssumption DEF Ids
        <4>1. [k EXCEPT !.step = "createIngress", !.id = FreshId] \in Task
          BY <1>1, <4>a DEF Task, Steps
        <4> QED BY <1>1, <2>1, <4>1, DomainSyncAssumption
                DEF FreshId, OthersKept, Idle, TypeInv, TypeOK, Task
      <3>2. \A i \in Ids : i # nextId => (Pending(i)' <=> Pending(i))
        BY <2>1 DEF RepoCreate, FreshId, Pending, Exists, TypeInv, TypeOK
      <3> QED BY <1>4, <3>1, <3>2 DEF Insert, At
    <2>2. CASE NoWrite /\ End(t)
      BY <1>2, <1>3, <1>4, <2>2 DEF Insert, At
    <2> QED BY <1>4, <2>1, <2>2 DEF Insert
  <1>5. CASE Reactivate(t)
    <2>1. RepoUpdate(k.id, k.row) /\ Goto(t, "createIngress") /\ k.id \in Ids
      BY <1>1, <1>5 DEF Reactivate, Save, At
    <2>2. [k EXCEPT !.step = "createIngress"] \in Task
      BY <1>1 DEF Task, Steps
    <2>3. /\ tasks'[t].step = "createIngress" /\ tasks'[t].id = k.id
          /\ ~Idle(t)' /\ OthersKept(t)
      BY <1>1, <2>1, <2>2, DomainSyncAssumption DEF Goto, OthersKept, Idle, TypeInv, TypeOK, Task
    <2>4. \A i \in Ids : i # k.id => (Pending(i)' <=> Pending(i))
      BY <2>1 DEF RepoUpdate, Updated, Pending, Exists, TypeInv, TypeOK
    <2> QED BY <1>5, <2>3, <2>4 DEF Reactivate, Save, At
  <1>6. CASE SaveUpdate(t)
    <2>1. /\ RepoUpdate(k.id, k.row) /\ Goto(t, "getIngress") /\ k.id \in Ids
          /\ k.row.status # "pending"
      BY <1>1, <1>6 DEF SaveUpdate, Save, At, SavesAreFinal
    <2>2. [k EXCEPT !.step = "getIngress"] \in Task
      BY <1>1 DEF Task, Steps
    <2>3. /\ tasks'[t].step = "getIngress" /\ tasks'[t].id = k.id
          /\ ~Idle(t)' /\ OthersKept(t)
      BY <1>1, <2>1, <2>2, DomainSyncAssumption DEF Goto, OthersKept, Idle, TypeInv, TypeOK, Task
    <2>4. ASSUME NEW i \in Ids, Pending(i)'
          PROVE  Pending(i)
      BY <1>1, <2>1, <2>4 DEF RepoUpdate, Updated, Pending, Exists, TypeInv, TypeOK, Row
    <2> QED BY <1>6, <2>3, <2>4 DEF SaveUpdate, Save, At
  <1>7. CASE RemoveRow(t)
    <2>1. k.id \in Ids /\ End(t) /\ (RepoSoftDelete(k.id) \/ RepoDelete(k.id))
      BY <1>1, <1>7 DEF RemoveRow, At
    <2>2. ASSUME NEW i \in Ids, Pending(i)'
          PROVE  Pending(i)
      <3>1. CASE RepoDelete(k.id)
        BY <2>1, <2>2, <3>1 DEF RepoDelete, Pending, Exists, TypeInv, TypeOK
      <3>2. CASE RepoSoftDelete(k.id) /\ Exists(k.id)
        <4>1. rows[k.id] \in Row
          BY <2>1, <3>2 DEF Exists, TypeInv, TypeOK
        <4>2. /\ rows'[k.id].status = "deleted"
              /\ \A j \in Ids \ {k.id} : rows'[j] = rows[j]
          BY <2>1, <3>2, <4>1 DEF RepoSoftDelete, TypeInv, TypeOK, Row
        <4> QED BY <2>2, <4>2 DEF Pending, Exists
      <3>3. CASE RepoSoftDelete(k.id) /\ ~Exists(k.id)
        BY <2>2, <3>3 DEF RepoSoftDelete, Pending, Exists
      <3> QED BY <2>1, <3>1, <3>2, <3>3
    <2> QED BY <1>2, <1>7, <2>1, <2>2 DEF RemoveRow, At
  <1>8. CASE SaveStatus(t)
    <2>1. k.id \in Ids /\ End(t) /\ RepoUpdate(k.id, k.row) /\ k.row.status # "pending"
      BY <1>1, <1>8 DEF SaveStatus, At, SavesAreFinal
    <2>2. ASSUME NEW i \in Ids, Pending(i)'
          PROVE  Pending(i) /\ i # k.id
      BY <1>1, <2>1, <2>2 DEF RepoUpdate, Updated, Pending, Exists, TypeInv, TypeOK, Row
    <2> QED BY <1>2, <1>8, <2>1, <2>2 DEF At
  <1>9. CASE CreateIngress(t)
    <2>1. At(t, "createIngress") /\ k.id \in Ids /\ NoWrite
      BY <1>1, <1>9 DEF CreateIngress, At
    <2>2. PICK st \in {"active", "error"} :
             LET j == [k EXCEPT !.step = "saveStatus", !.row.status = st]
                 ts == [tasks EXCEPT ![t] = j]
             IN  (\E i, ns, ing : WriteIngress(i, ns, ing, ts)) \/ tasks' = ts
      <3>1. \A st \in {"active", "error"} :
              [tasks EXCEPT ![t].step = "saveStatus", ![t].row.status = st] =
              [tasks EXCEPT ![t] = [k EXCEPT !.step = "saveStatus", !.row.status = st]]
        BY DEF TypeInv, TypeOK
      <3> QED BY <1>9, <3>1 DEF CreateIngress
    <2>3. PICK j \in Task :
             /\ j.step = "saveStatus" /\ j.id = k.id /\ j.row.status = st
             /\ \/ \E i, ns, ing : WriteIngress(i, ns, ing, [tasks EXCEPT ![t] = j])
                \/ tasks' = [tasks EXCEPT ![t] = j]
      <3>1. [k EXCEPT !.step = "saveStatus", !.row.status = st] \in Task
        BY <1>1 DEF Task, Row, Statuses, Steps
      <3>2. /\ [k EXCEPT !.step = "saveStatus", !.row.status = st].step = "saveStatus"
            /\ [k EXCEPT !.step = "saveStatus", !.row.status = st].id = k.id
            /\ [k EXCEPT !.step = "saveStatus", !.row.status = st].row.status = st
        BY <1>1 DEF Task, Row
      <3> QED BY <2>2, <3>1, <3>2
    <2>4. /\ OthersKept(t) /\ ~Idle(t)'
          /\ tasks'[t].step = "saveStatus" /\ tasks'[t].id = k.id /\ tasks'[t].row.status = st
      <3>1. j # None
        BY DomainSyncAssumption
      <3>2. CASE tasks' = [tasks EXCEPT ![t] = j]
        BY <2>3, <3>1, <3>2 DEF OthersKept, Idle, TypeInv, TypeOK
      <3> QED BY <2>3, <3>1, <3>2, WriteKeepsOthers
    <2> QED BY <1>3, <2>1, <2>4 DEF At
  <1>c. CASE ChooseSecret(t)
    <2>1. PICK j \in Task : /\ tasks' = [tasks EXCEPT ![t] = j] /\ ~Idle(t) /\ NoWrite
                           /\ j.step = k.step /\ j.id = k.id /\ j.row = k.row
                           /\ j.step \in {"createIngress", "getIngress"}
      BY <1>c, ChooseSecretStep DEF TypeInv, NoWrite
    <2>2. OthersKept(t) /\ ~Idle(t)' /\ tasks'[t] = j
      BY <2>1, DomainSyncAssumption DEF OthersKept, Idle, TypeInv, TypeOK
    <2> QED BY <1>3, <2>1, <2>2 DEF At
  <1>10. CASE GetIngress(t)
    <2>1. At(t, "getIngress") /\ NoWrite
      BY <1>10 DEF GetIngress, NoWrite
    <2>2. CASE tasks' = [tasks EXCEPT ![t].step = "putIngress", ![t].fresh = TRUE]
      <3>1. [k EXCEPT !.step = "putIngress", !.fresh = TRUE] \in Task
        BY <1>1 DEF Task, Steps
      <3>2. OthersKept(t) /\ ~Idle(t)' /\ tasks'[t].step = "putIngress"
        BY <1>1, <2>2, <3>1, DomainSyncAssumption DEF OthersKept, Idle, TypeInv, TypeOK, Task
      <3> QED BY <1>3, <2>1, <3>2 DEF At
    <2> QED BY <1>2, <1>3, <1>10, <2>1, <2>2 DEF GetIngress, At
  <1>11. CASE PutIngress(t) \/ DeleteIngress(t)
    <2>1. (At(t, "putIngress") \/ At(t, "deleteIngress")) /\ NoWrite
      BY <1>11 DEF PutIngress, DeleteIngress
    <2>2. OthersKept(t) /\ Idle(t)'
      BY <1>2, <1>11, WriteKeepsOthers DEF PutIngress, DeleteIngress
    <2> QED BY <1>3, <2>1, <2>2 DEF At
  <1>12. QED
    BY <1>4, <1>5, <1>6, <1>7, <1>8, <1>9, <1>c, <1>10, <1>11 DEF Step

LEMMA PendingInit == Init => PendingInv
  BY DEF Init, PendingInv, SavesAreFinal, PendingIsAttended, Pending, Exists, At, Idle

\* No step of a handler or goroutine leaves a pending row without its own.
LEMMA PendingStep ==
    ASSUME Steady, TypeInv, PendingInv, (\E t \in Tasks : Step(t)) \/ UNCHANGED vars
    PROVE  PendingInv'
  <1>1. ASSUME NEW t \in Tasks, Step(t)
        PROVE  PendingInv'
    <2>1. /\ OthersKept(t)
          /\ At(t, "saveUpdate")' \/ At(t, "saveStatus")' => tasks'[t].row.status # "pending"
          /\ \A i \in Ids : Pending(i)' =>
               \/ /\ Pending(i)
                  /\ (At(t, "createIngress") \/ At(t, "saveStatus")) /\ tasks[t].id = i =>
                        At(t, "saveStatus")' /\ tasks'[t].id = i
               \/ At(t, "createIngress")' /\ tasks'[t].id = i
      BY <1>1, SteadyStep DEF PendingInv
    <2>2. SavesAreFinal'
      BY <2>1 DEF PendingInv, SavesAreFinal, OthersKept, At
    <2>3. PendingIsAttended'
      BY <2>1 DEF PendingInv, PendingIsAttended, OthersKept, At
    <2> QED BY <2>2, <2>3 DEF PendingInv
  <1>2. CASE UNCHANGED vars
    BY <1>2 DEF vars, PendingInv, SavesAreFinal, PendingIsAttended, Pending, Exists, At, Idle
  <1> QED
    BY <1>1, <1>2

\* Nor does the beginning of a request, if it is none that has read it pending.
LEMMA PendingBegin ==
    ASSUME TypeInv, PendingInv, Begin,
           \A t \in Tasks : At(t, "saveUpdate")' => tasks'[t].row.status # "pending"
    PROVE  PendingInv'
  <1>1. \A i \in Ids : Pending(i)' <=> Pending(i)
    BY DEF Begin, BeginCreate, BeginUpdate, BeginDelete, Pending, Exists
  <1>2. \A u \in Tasks : /\ ~Idle(u) => tasks'[u] = tasks[u]
                         /\ Idle(u) => ~At(u, "saveStatus")'
    BY DomainSyncAssumption
       DEF Begin, BeginCreate, BeginUpdate, BeginDelete, NewTask, Idle, At, TypeInv, TypeOK
  <1> QED
    BY <1>1, <1>2 DEF PendingInv, SavesAreFinal, PendingIsAttended, At, Idle

\* While clients do not update and only calls to Kubernetes fail, a domain
\* that is pending has a goroutine about to give it another status.
THEOREM PendingDomainsAreAttended ==
    ASSUME Calm
    PROVE  Spec => []PendingIsAttended
  <1>1. TypeInv /\ PendingInv /\ [Next]_vars => PendingInv'
    <2> SUFFICES ASSUME TypeInv, PendingInv, [Next]_vars
                 PROVE  PendingInv'
      OBVIOUS
    <2>1. CASE (\E t \in Tasks : Step(t)) \/ UNCHANGED vars
      BY <2>1, PendingStep, Calm DEF Calm
    <2>2. CASE Begin
      <3>1. \A u \in Tasks : /\ ~Idle(u) => tasks'[u] = tasks[u]
                             /\ Idle(u) => ~At(u, "saveUpdate")'
        BY <2>2, DomainSyncAssumption, Calm
           DEF Calm, Begin, BeginCreate, BeginUpdate, BeginDelete, NewTask, Idle, At, TypeInv, TypeOK
      <3>2. \A t \in Tasks : At(t, "saveUpdate")' => tasks'[t].row.status # "pending"
        BY <3>1 DEF PendingInv, SavesAreFinal, At, Idle
      <3> QED
        BY <2>2, <3>2, PendingBegin
    <2>3. ~Restart
      BY Calm DEF Calm, Steady, Restart
    <2> QED
      BY <2>1, <2>2, <2>3 DEF Next
  <1>2. PendingInv => PendingIsAttended
    BY DEF PendingInv
  <1> QED
    BY <1>1, <1>2, PendingInit, TypeCorrect, PTL DEF Spec

\* Clients that wait for the last operation to end may update, too, if they do
\* not write the status "pending" themselves: an update then reads none.
THEOREM PendingOfSerialClients ==
    ASSUME Steady, "update" \in Ops => "pending" \notin ApiStatuses
    PROVE  SerialSpec => []PendingIsAttended
  <1>1. [(AllIdle /\ Begin) \/ \E t \in Tasks : Step(t)]_vars => [Next]_vars
    BY DEF Next
  <1>2. SerialSpec => []TypeInv
    BY <1>1, TypeCorrect, PTL DEF SerialSpec, Spec
  <1>3. TypeInv /\ PendingInv /\ [(AllIdle /\ Begin) \/ \E t \in Tasks : Step(t)]_vars => PendingInv'
    <2> SUFFICES ASSUME TypeInv, PendingInv, AllIdle /\ Begin
                 PROVE  PendingInv'
      BY PendingStep, Steady
    <2>1. \A i \in Ids : ~Pending(i)
      BY DEF PendingInv, PendingIsAttended, AllIdle, At
    <2>2. ASSUME NEW t \in Tasks, At(t, "saveUpdate")'
          PROVE  tasks'[t].row.status # "pending"
      <3>1. CASE \E v \in Tasks : BeginCreate(v) \/ \E u \in Tasks : BeginDelete(v, u)
        BY <2>2, <3>1, DomainSyncAssumption
           DEF BeginCreate, BeginDelete, NewTask, AllIdle, Idle, At, TypeInv, TypeOK
      <3>2. ASSUME NEW v \in Tasks, BeginUpdate(v)
            PROVE  tasks'[t].row.status # "pending"
        <4>1. PICK i, r :
                 /\ i \in Ids /\ Exists(i) /\ r.status \in ApiStatuses \cup {rows[i].status}
                 /\ tasks' = [tasks EXCEPT ![v] = NewTask("saveUpdate", i, r)]
          BY <3>2 DEF BeginUpdate
        <4>2. r.status # "pending"
          BY <2>1, <3>2, <4>1 DEF Pending, BeginUpdate
        <4> QED
          BY <2>2, <4>1, <4>2 DEF NewTask, AllIdle, Idle, At, TypeInv, TypeOK
      <3> QED
        BY <3>1, <3>2 DEF Begin
    <2> QED
      BY <2>2, PendingBegin
  <1>4. PendingInv => PendingIsAttended
    BY DEF PendingInv
  <1> QED
    BY <1>2, <1>3, <1>4, PendingInit, PTL DEF SerialSpec

-----------------------------------------------------------------------------
(* Operations one after another                                            *)
(*                                                                         *)
(* SettledInSync is about states in which nothing is running, and says     *)
(* nothing of those in between.  The invariant says how far the operation  *)
(* that is under way has come, of which at most one task is left, or the   *)
(* two of a deletion.                                                      *)

\* No fault; and updates that keep the namespace (there is one only) and the
\* status.
Orderly ==
    /\ Faults = {}
    /\ "update" \in Ops => ApiStatuses = {} /\ \A a, b \in Namespaces : a = b

\* The Ingresses of i are what its row says.
InSync(i) ==
    /\ ~Pending(i)
    /\ \A ns \in Namespaces :
         IF Wanted(i, ns) THEN ingresses[i][ns] # None /\ Shows(ingresses[i][ns], rows[i])
                          ELSE ingresses[i][ns] = None

Bare(i) == \A ns \in Namespaces : ingresses[i][ns] = None

\* What a task that has come to its step may rely on.
Stage(k) ==
    /\ k.step = "insert" => k.id = 0 /\ k.row.status = "pending"
    /\ k.step = "reactivate" =>
         /\ Exists(k.id) /\ InSync(k.id) /\ rows[k.id].status = "deleted"
         /\ k.row.name = rows[k.id].name /\ k.row.status = "pending"
    /\ k.step = "createIngress" => rows[k.id] = k.row /\ Pending(k.id) /\ Bare(k.id)
    /\ k.step = "saveStatus" =>
         /\ Exists(k.id) /\ k.row.name = rows[k.id].name /\ k.row.status = "active"
         /\ \A ns \in Namespaces :
              IF ns = k.row.ns THEN ingresses[k.id][ns] # None /\ Shows(ingresses[k.id][ns], k.row)
                               ELSE ingresses[k.id][ns] = None
    /\ k.step = "saveUpdate" =>
         /\ Exists(k.id) /\ InSync(k.id) /\ "update" \in Ops
         /\ k.row.name = rows[k.id].name /\ k.row.status = rows[k.id].status
    /\ k.step \in {"getIngress", "putIngress"} =>
         /\ rows[k.id] = k.row /\ ~Pending(k.id)
         /\ \A ns \in Namespaces : ingresses[k.id][ns] # None <=> Wanted(k.id, ns)
    /\ k.step = "putIngress" =>
         k.fresh /\ k.row.status # "deleted" /\ (k.row.target \in AutoTargets => k.secret # "none")
    /\ k.step \in {"softDelete", "hardDelete"} => Exists(k.id) /\ ~Pending(k.id) /\ Bare(k.id)
    /\ k.step = "deleteIngress" =>
         /\ ~Pending(k.id)
         /\ \A ns \in Namespaces :
              ~Wanted(k.id, ns) /\ (ns # k.row.ns => ingresses[k.id][ns] = None)

Alone(t) == ~Idle(t) /\ \A u \in Tasks : u # t => Idle(u)

SyncedBut(i) == \A j \in Ids : j # i => InSync(j)

Settled == AllIdle /\ \A i \in Ids : InSync(i)

Under(t) == Alone(t) /\ Stage(tasks[t]) /\ SyncedBut(tasks[t].id)

\* A deletion has two tasks until the first of them is through.
UnderDeletion(t, u) ==
    /\ t # u /\ ~Idle(t) /\ ~Idle(u) /\ \A v \in Tasks : v # t /\ v # u => Idle(v)
    /\ \A i \in Ids : InSync(i)
    /\ tasks[t].step \in {"softDelete", "hardDelete"} /\ tasks[u].step = "deleteIngress"
    /\ tasks[t].id = tasks[u].id /\ Exists(tasks[u].id) /\ tasks[u].row = rows[tasks[u].id]

SerialInv ==
    /\ \A i \in Ids : i >= nextId => ~Exists(i)
    /\ \/ Settled
       \/ \E t \in Tasks : Under(t)
       \/ \E t, u \in Tasks : UnderDeletion(t, u)

\* A row and its Ingresses that do not change stay in step.
LEMMA InSyncKept ==
    ASSUME NEW i \in Ids, rows'[i] = rows[i], ingresses'[i] = ingresses[i], InSync(i)
    PROVE  InSync(i)'
  BY DEF InSync, Pending, Wanted, Exists

LEMMA SyncedButKept ==
    ASSUME NEW i, SyncedBut(i),
           \A j \in Ids : j # i => rows'[j] = rows[j] /\ ingresses'[j] = ingresses[j]
    PROVE  SyncedBut(i)'
  BY InSyncKept DEF SyncedBut

\* The only task moves on, or ends.
LEMMA AloneMoves ==
    ASSUME TypeOK, NEW t \in Tasks, Alone(t), NEW k \in Task, tasks' = [tasks EXCEPT ![t] = k]
    PROVE  Alone(t)' /\ tasks'[t] = k
  BY DomainSyncAssumption DEF TypeOK, Alone, Idle

LEMMA AloneEnds ==
    ASSUME TypeOK, NEW t \in Tasks, Alone(t), End(t)
    PROVE  AllIdle'
  BY DEF TypeOK, Alone, AllIdle, Idle, End

\* With no update that has read an Ingress nothing gets outdated.
LEMMA NothingOutdated ==
    ASSUME NEW ts \in TaskTable, NEW i, NEW ns,
           \A t \in Tasks : ts[t] = None \/ ts[t].step # "putIngress"
    PROVE  Outdated(ts, i, ns) = ts
  BY DEF Outdated, TaskTable

LEMMA WritesOne ==
    ASSUME TypeOK, NEW i \in Ids, NEW ns \in Namespaces, NEW ing, NEW ts \in TaskTable,
           WriteIngress(i, ns, ing, ts),
           \A t \in Tasks : ts[t] = None \/ ts[t].step # "putIngress"
    PROVE  /\ tasks' = ts
           /\ \A j \in Ids : j # i => ingresses'[j] = ingresses[j]
           /\ \A m \in Namespaces : ingresses'[i][m] = IF m = ns THEN ing ELSE ingresses[i][m]
  BY NothingOutdated DEF WriteIngress, TypeOK

\* The beginning of an operation on a table and a cluster that are in step.
LEMMA SerialBegin ==
    ASSUME Orderly, TypeInv, Settled, Begin
    PROVE  (\E t \in Tasks : Under(t)') \/ (\E t, u \in Tasks : UnderDeletion(t, u)')
  <1> USE DEF TypeInv
  <1>0. \A i \in Ids : rows' = rows /\ ingresses' = ingresses => InSync(i)'
    BY InSyncKept DEF Settled
  <1>a. \A i \in Ids : i # 0
    BY DEF Ids
  <1>1. ASSUME NEW t \in Tasks, NEW k \in Task, tasks' = [tasks EXCEPT ![t] = k],
               UNCHANGED <<rows, nextId, ingresses>>, Stage(k)
        PROVE  Under(t)'
    <2>1. Alone(t)' /\ tasks'[t] = k
      BY <1>1, DomainSyncAssumption DEF Settled, AllIdle, Alone, Idle, TypeOK
    <2>2. SyncedBut(k.id)'
      BY <1>0, <1>1 DEF SyncedBut
    <2>3. Stage(k)'
      BY <1>1 DEF Stage, Exists, InSync, Pending, Bare, Wanted
    <2> QED
      BY <2>1, <2>2, <2>3
         DEF Under, Stage, Exists, InSync, Pending, Bare, Wanted, SyncedBut, Shows
  <1>2. ASSUME NEW t \in Tasks, BeginCreate(t)
        PROVE  Under(t)'
    <2>1. PICK n \in Names, ns \in Namespaces, g \in Targets :
            \/ tasks' = [tasks EXCEPT ![t] = NewTask("insert", 0, NewRow(n, ns, g))]
            \/ \E i \in RowsNamed(n) :
                 /\ rows[i].status = "deleted"
                 /\ tasks' = [tasks EXCEPT ![t] = NewTask("reactivate", i, NewRow(n, ns, g))]
      BY <1>2 DEF BeginCreate
    <2> DEFINE r == NewRow(n, ns, g)
    <2>2. r \in Row /\ r.status = "pending" /\ r.name = n
      BY DEF NewRow, Row, Statuses
    <2> HIDE DEF r
    <2>3. CASE tasks' = [tasks EXCEPT ![t] = NewTask("insert", 0, r)]
      <3> DEFINE k == NewTask("insert", 0, r)
      <3>1. k \in Task /\ Stage(k)
        BY <2>2, NewTaskType, DomainSyncAssumption DEF Steps, NewTask, Stage
      <3> HIDE DEF k
      <3> QED
        BY <1>1, <1>2, <2>3, <3>1 DEF BeginCreate, k
    <2>4. ASSUME NEW i \in RowsNamed(n), rows[i].status = "deleted",
                 tasks' = [tasks EXCEPT ![t] = NewTask("reactivate", i, r)]
          PROVE  Under(t)'
      <3> DEFINE k == NewTask("reactivate", i, r)
      <3>1. i \in Ids /\ Exists(i) /\ rows[i].name = n /\ InSync(i) /\ i \in 0 .. MaxId
        BY DomainSyncAssumption DEF RowsNamed, Settled, Ids
      <3>2. k \in Task /\ Stage(k)
        BY <2>2, <2>4, <3>1, NewTaskType DEF Steps, NewTask, Stage
      <3> HIDE DEF k
      <3> QED
        BY <1>1, <1>2, <2>4, <3>2 DEF BeginCreate, k
    <2> QED
      BY <2>1, <2>3, <2>4 DEF r
  <1>3. ASSUME NEW t \in Tasks, BeginUpdate(t)
        PROVE  Under(t)'
    <2>1. PICK i \in Ids, ns \in Namespaces, g \in Targets, e \in BOOLEAN :
            /\ Exists(i)
            /\ tasks' = [tasks EXCEPT ![t] = NewTask("saveUpdate", i,
                           [name |-> rows[i].name, ns |-> ns, target |-> g,
                            status |-> rows[i].status, enabled |-> e])]
      BY <1>3 DEF BeginUpdate, Orderly
    <2> DEFINE r == [name |-> rows[i].name, ns |-> ns, target |-> g,
                     status |-> rows[i].status, enabled |-> e]
               k == NewTask("saveUpdate", i, r)
    <2>2. r \in Row /\ r.name = rows[i].name /\ r.status = rows[i].status
      BY <2>1 DEF Exists, TypeOK, Row
    <2> HIDE DEF r
    <2>3. k \in Task
      BY <2>2, NewTaskType, DomainSyncAssumption DEF Steps, Ids
    <2>4. InSync(i) /\ "update" \in Ops
      BY <1>3 DEF Settled, BeginUpdate
    <2>5. Stage(k)
      BY <2>1, <2>2, <2>4 DEF NewTask, Stage
    <2>6. tasks' = [tasks EXCEPT ![t] = k]
      BY <2>1 DEF r
    <2> HIDE DEF k
    <2> QED
      BY <1>1, <1>3, <2>3, <2>5, <2>6 DEF BeginUpdate
  <1>4. ASSUME NEW t \in Tasks, NEW u \in Tasks, BeginDelete(t, u)
        PROVE  UnderDeletion(t, u)'
    <2>1. PICK i \in Ids, step \in {"softDelete", "hardDelete"} :
             /\ Exists(i)
             /\ tasks' = [tasks EXCEPT ![t] = NewTask(step, i, rows[i]),
                                       ![u] = NewTask("deleteIngress", i, rows[i])]
      BY <1>4 DEF BeginDelete
    <2>2. /\ tasks'[t] = NewTask(step, i, rows[i]) /\ tasks'[u] = NewTask("deleteIngress", i, rows[i])
          /\ \A v \in Tasks : v # t /\ v # u => tasks'[v] = None
          /\ t # u /\ rows' = rows /\ ingresses' = ingresses
      BY <1>4, <2>1 DEF BeginDelete, Settled, AllIdle, Idle, TypeOK
    <2>3. NewTask(step, i, rows[i]) # None /\ NewTask("deleteIngress", i, rows[i]) # None
      <3>1. rows[i] \in Row
        BY <2>1 DEF Exists, TypeOK
      <3> QED
        BY <3>1, NewTaskType, DomainSyncAssumption DEF Steps, Ids
    <2>4. \A j \in Ids : InSync(j)'
      BY <1>0, <2>2
    <2> QED
      <3>1. /\ tasks'[t].step = step /\ tasks'[t].id = i
            /\ tasks'[u].step = "deleteIngress" /\ tasks'[u].id = i /\ tasks'[u].row = rows[i]
        BY <2>2 DEF NewTask
      <3>2. /\ ~Idle(t)' /\ ~Idle(u)' /\ \A v \in Tasks : v # t /\ v # u => Idle(v)'
            /\ Exists(i)' /\ rows'[i] = rows[i]
        BY <2>1, <2>2, <2>3 DEF Idle, Exists
      <3> QED
        BY <2>2, <2>4, <3>1, <3>2 DEF UnderDeletion
  <1> QED
    BY <1>2, <1>3, <1>4 DEF Begin

\* The full-row UPDATE of a row that is there writes the copy as it is.
LEMMA UpdateWrites ==
    ASSUME TypeOK, NEW i \in Ids, NEW row \in Row, Exists(i), row.name = rows[i].name, RepoUpdate(i, row)
    PROVE  rows'[i] = row /\ \A j \in Ids : j # i => rows'[j] = rows[j]
  <1>1. [row EXCEPT !.name = rows[i].name] = row
    BY DEF Row
  <1> QED
    BY <1>1 DEF RepoUpdate, Updated, TypeOK

\* The only task of an operation takes its step: the operation comes further,
\* or ends and leaves everything in step.
LEMMA SerialStep ==
    ASSUME Orderly, TypeInv, NEW t \in Tasks, Under(t), Step(t),
           \A i \in Ids : i >= nextId => ~Exists(i)
    PROVE  Settled' \/ Under(t)'
  <1> USE DEF TypeInv
  <1>p. PICK k \in Task, i \in 0 .. MaxId : k = tasks[t] /\ i = k.id
    BY AtTask DEF Under, Alone, Task
  <1>0. /\ k = tasks[t] /\ i = k.id
        /\ ~Idle(t) /\ k \in Task /\ k.row \in Row /\ (k.step # "insert" => i \in Ids)
        /\ Alone(t) /\ Stage(k) /\ SyncedBut(i)
        /\ "k8s" \notin Faults /\ "db" \notin Faults
    BY <1>p, AtTask DEF Under, Alone, HasId, Orderly
  \* What changes only i, and moves the task on, or ends it.
  <1>a. ASSUME NEW kk \in Task, tasks' = [tasks EXCEPT ![t] = kk], kk.id = i, Stage(kk)',
               \A j \in Ids : j # i => rows'[j] = rows[j] /\ ingresses'[j] = ingresses[j]
        PROVE  Under(t)'
    <2>1. Alone(t)' /\ tasks'[t] = kk
      BY <1>0, <1>a, AloneMoves
    <2>2. SyncedBut(i)'
      BY <1>0, <1>a, SyncedButKept
    <2> QED
      BY <1>a, <2>1, <2>2
         DEF Under, SyncedBut, Stage, Exists, InSync, Pending, Bare, Wanted, Shows
  <1>b. ASSUME End(t), i \in Ids, InSync(i)',
               \A j \in Ids : j # i => rows'[j] = rows[j] /\ ingresses'[j] = ingresses[j]
        PROVE  Settled'
    <2>1. AllIdle' /\ SyncedBut(i)'
      BY <1>0, <1>b, AloneEnds, SyncedButKept
    <2> QED
      BY <1>b, <2>1 DEF Settled, SyncedBut
  <1>1. CASE Insert(t)
    <2>1. k.step = "insert" /\ i = 0 /\ k.row.status = "pending" /\ ingresses' = ingresses
      BY <1>0, <1>1 DEF Insert, At, Stage
    <2>2. \A j \in Ids : InSync(j)
      BY <1>0, <2>1 DEF SyncedBut, Ids
    <2>3. CASE RepoCreate(k.row) /\ tasks' = [tasks EXCEPT ![t].step = "createIngress", ![t].id = FreshId]
      <3>1. PICK n \in Ids : n = nextId /\ n = FreshId /\ rows' = [rows EXCEPT ![n] = k.row]
        BY <1>0, <2>3, RepoCreateType DEF RepoCreate, FreshId
      <3>2. ~Exists(n) /\ n \in 0 .. MaxId
        BY <3>1, DomainSyncAssumption DEF Ids, TypeOK
      <3> DEFINE kk == [k EXCEPT !.step = "createIngress", !.id = n]
      <3>3. /\ kk \in Task /\ kk.step = "createIngress" /\ kk.id = n /\ kk.row = k.row
            /\ tasks' = [tasks EXCEPT ![t] = kk]
        BY <1>0, <2>3, <3>1, <3>2 DEF Task, Steps, TypeOK
      <3> HIDE DEF kk
      <3>4. rows'[n] = k.row /\ \A j \in Ids : j # n => rows'[j] = rows[j]
        BY <3>1 DEF TypeOK
      <3>5. Bare(n)
        BY <2>2, <3>2 DEF InSync, Wanted, Bare
      <3>6. Pending(n)' /\ Bare(n)'
        BY <1>0, <2>1, <3>4, <3>5, DomainSyncAssumption DEF Pending, Exists, Bare
      <3>7. Stage(kk)'
        BY <3>3, <3>4, <3>6 DEF Stage
      <3>8. SyncedBut(n)'
        BY <2>1, <2>2, <3>4, InSyncKept DEF SyncedBut
      <3>9. Alone(t)' /\ tasks'[t] = kk
        BY <1>0, <3>3, AloneMoves
      <3> QED
        BY <3>3, <3>7, <3>8, <3>9 DEF Under, SyncedBut, Stage, Exists, InSync, Pending, Bare, Wanted
    <2>4. CASE NoWrite /\ End(t)
      <3>1. \A j \in Ids : InSync(j)'
        BY <2>1, <2>2, <2>4, InSyncKept DEF NoWrite
      <3> QED
        BY <1>0, <2>4, <3>1, AloneEnds DEF Settled
    <2> QED
      BY <1>0, <1>1, <2>3, <2>4 DEF Insert
  <1>2. CASE Reactivate(t)
    <2>1. /\ k.step = "reactivate" /\ RepoUpdate(i, k.row) /\ Goto(t, "createIngress")
          /\ ingresses' = ingresses /\ i \in Ids
      BY <1>0, <1>2 DEF Reactivate, Save, At
    <2>2. /\ Exists(i) /\ InSync(i) /\ rows[i].status = "deleted"
          /\ k.row.name = rows[i].name /\ k.row.status = "pending"
      BY <1>0, <2>1 DEF Stage
    <2>3. rows'[i] = k.row /\ \A j \in Ids : j # i => rows'[j] = rows[j]
      BY <1>0, <2>1, <2>2, UpdateWrites
    <2> DEFINE kk == [k EXCEPT !.step = "createIngress"]
    <2>4. /\ kk \in Task /\ kk.step = "createIngress" /\ kk.id = i /\ kk.row = k.row
          /\ tasks' = [tasks EXCEPT ![t] = kk]
      BY <1>0, <2>1 DEF Task, Steps, TypeOK, Goto
    <2> HIDE DEF kk
    <2>5. Bare(i)
      BY <2>2 DEF InSync, Wanted, Bare
    <2>6. Pending(i)' /\ Bare(i)'
      BY <1>0, <2>1, <2>2, <2>3, <2>5, DomainSyncAssumption DEF Pending, Exists, Bare
    <2>7. Stage(kk)'
      BY <2>3, <2>4, <2>6 DEF Stage
    <2> QED
      BY <1>a, <2>1, <2>3, <2>4, <2>7
  <1>3. CASE SaveUpdate(t)
    <2>1. /\ k.step = "saveUpdate" /\ RepoUpdate(i, k.row) /\ Goto(t, "getIngress")
          /\ ingresses' = ingresses /\ i \in Ids
      BY <1>0, <1>3 DEF SaveUpdate, Save, At
    <2>2. /\ Exists(i) /\ InSync(i) /\ "update" \in Ops
          /\ k.row.name = rows[i].name /\ k.row.status = rows[i].status
      BY <1>0, <2>1 DEF Stage
    <2>3. rows'[i] = k.row /\ \A j \in Ids : j # i => rows'[j] = rows[j]
      BY <1>0, <2>1, <2>2, UpdateWrites
    <2> DEFINE kk == [k EXCEPT !.step = "getIngress"]
    <2>4. /\ kk \in Task /\ kk.step = "getIngress" /\ kk.id = i /\ kk.row = k.row
          /\ tasks' = [tasks EXCEPT ![t] = kk]
      BY <1>0, <2>1 DEF Task, Steps, TypeOK, Goto
    <2> HIDE DEF kk
    <2>5. ~Pending(i)'
      BY <2>2, <2>3 DEF Pending, InSync
    <2>6. rows[i] \in Row /\ rows[i].ns = k.row.ns
      BY <1>0, <2>1, <2>2 DEF Exists, TypeOK, Row, Orderly
    <2>7. \A ns \in Namespaces : Wanted(i, ns)' <=> Wanted(i, ns)
      BY <1>0, <2>2, <2>3, <2>6, DomainSyncAssumption DEF Wanted, Exists
    <2>8. \A ns \in Namespaces : ingresses'[i][ns] # None <=> Wanted(i, ns)'
      BY <2>1, <2>2, <2>6, <2>7 DEF InSync
    <2>9. Stage(kk)'
      BY <2>3, <2>4, <2>5, <2>8 DEF Stage
    <2> QED
      BY <1>a, <2>1, <2>3, <2>4, <2>9
  <1>4. CASE RemoveRow(t)
    <2>1. /\ k.step \in {"softDelete", "hardDelete"}
          /\ RepoSoftDelete(i) \/ RepoDelete(i)
          /\ End(t) /\ ingresses' = ingresses /\ i \in Ids
      BY <1>0, <1>4 DEF RemoveRow, At
    <2>2. Exists(i) /\ ~Pending(i) /\ Bare(i)
      BY <1>0, <1>4 DEF Stage, RemoveRow, At
    <2>3. /\ \A j \in Ids : j # i => rows'[j] = rows[j]
          /\ rows'[i] # None => rows'[i].status = "deleted"
      <3>1. rows[i] \in Row
        BY <2>1, <2>2 DEF Exists, TypeOK
      <3> QED
        BY <2>1, <2>2, <3>1 DEF RepoSoftDelete, RepoDelete, TypeOK, Row
    <2>4. InSync(i)'
      BY <2>1, <2>2, <2>3 DEF InSync, Pending, Wanted, Exists, Bare
    <2> QED
      BY <1>b, <2>1, <2>3, <2>4
  <1>5. CASE CreateIngress(t)
    <2>1. k.step = "createIngress" /\ i \in Ids /\ rows' = rows
      BY <1>0, <1>5 DEF CreateIngress, At, NoWrite
    <2>2. rows[i] = k.row /\ Pending(i) /\ Bare(i) /\ k.row.ns \in Namespaces
      BY <1>0, <2>1 DEF Stage, Row
    <2> DEFINE kk == [k EXCEPT !.step = "saveStatus", !.row.status = "active"]
               ts == [tasks EXCEPT ![t] = kk]
    <2>3. /\ kk \in Task /\ kk.step = "saveStatus" /\ kk.id = i
          /\ kk.row = [k.row EXCEPT !.status = "active"]
      BY <1>0 DEF Task, Steps, Row, Statuses
    <2>4. [tasks EXCEPT ![t].step = "saveStatus", ![t].row.status = "active"] = ts
      BY <1>0 DEF TypeOK
    <2>5. /\ WriteIngress(i, k.row.ns, Rendered(k.row, k.secret), ts)
          /\ Rendered(k.row, k.secret) # None /\ Shows(Rendered(k.row, k.secret), k.row)
      <3>1. At(t, "createIngress") /\ HasChosen(t) /\ ingresses[i][k.row.ns] = None
        BY <1>5, <2>2 DEF CreateIngress, Bare
      <3>2. k.secret \in Secrets /\ (k.row.target \in AutoTargets => k.secret # "none")
        BY <1>0, <3>1 DEF HasChosen, Task
      <3>3. WriteIngress(i, k.row.ns, Rendered(k.row, k.secret), ts)
        BY <1>0, <1>5, <2>4, <3>1 DEF CreateIngress, CreateMayFail
      <3> QED
        BY <1>0, <3>2, <3>3, RenderedShows
    <2> HIDE DEF kk
    <2>6. ts \in TaskTable /\ \A u \in Tasks : ts[u] = None \/ ts[u].step # "putIngress"
      BY <1>0, <2>3 DEF TypeOK, TaskTable, Alone, Idle
    <2> HIDE DEF ts
    <2>7. /\ tasks' = ts
          /\ \A j \in Ids : j # i => ingresses'[j] = ingresses[j]
          /\ \A m \in Namespaces :
               ingresses'[i][m] = IF m = k.row.ns THEN Rendered(k.row, k.secret)
                                                  ELSE ingresses[i][m]
      BY <2>1, <2>2, <2>5, <2>6, WritesOne
    <2>8. /\ kk.row.name = k.row.name /\ kk.row.ns = k.row.ns /\ kk.row.status = "active"
          /\ Shows(Rendered(k.row, k.secret), kk.row)
      BY <1>0, <2>3, <2>5 DEF Row, Shows
    <2>9. Stage(kk)'
      BY <2>1, <2>2, <2>3, <2>5, <2>7, <2>8 DEF Stage, Exists, Bare, Pending
    <2> QED
      BY <1>a, <2>1, <2>3, <2>7, <2>9 DEF ts
  <1>6. CASE SaveStatus(t)
    <2>1. /\ k.step = "saveStatus" /\ RepoUpdate(i, k.row) /\ End(t)
          /\ ingresses' = ingresses /\ i \in Ids
      BY <1>0, <1>6 DEF SaveStatus, At
    <2>2. /\ Exists(i) /\ k.row.name = rows[i].name /\ k.row.status = "active"
          /\ \A ns \in Namespaces :
               IF ns = k.row.ns THEN ingresses[i][ns] # None /\ Shows(ingresses[i][ns], k.row)
                                ELSE ingresses[i][ns] = None
      BY <1>0, <2>1 DEF Stage
    <2>3. rows'[i] = k.row /\ \A j \in Ids : j # i => rows'[j] = rows[j]
      BY <1>0, <2>1, <2>2, UpdateWrites
    <2>4. InSync(i)'
      BY <1>0, <2>1, <2>2, <2>3, DomainSyncAssumption DEF InSync, Pending, Wanted, Exists
    <2> QED
      BY <1>b, <2>1, <2>3, <2>4
  <1>c. CASE ChooseSecret(t)
    <2>1. PICK kk \in Task : /\ tasks' = [tasks EXCEPT ![t] = kk]
                            /\ UNCHANGED <<rows, nextId, ingresses>>
                            /\ kk.step = k.step /\ kk.id = i /\ kk.row = k.row
                            /\ kk.step \in {"createIngress", "getIngress"}
      BY <1>0, <1>c, ChooseSecretStep
    <2>2. Stage(kk)'
      <3>1. rows' = rows /\ ingresses' = ingresses
        BY <2>1
      <3>2. CASE kk.step = "createIngress"
        <4>1. rows[i] = kk.row /\ Pending(i) /\ Bare(i)
          BY <1>0, <2>1, <3>2 DEF Stage
        <4> QED
          BY <2>1, <3>1, <3>2, <4>1 DEF Stage, Exists, Pending, Bare
      <3>3. CASE kk.step = "getIngress"
        <4>1. /\ rows[i] = kk.row /\ ~Pending(i)
              /\ \A ns \in Namespaces : ingresses[i][ns] # None <=> Wanted(i, ns)
          BY <1>0, <2>1, <3>3 DEF Stage
        <4> QED
          BY <2>1, <3>1, <3>3, <4>1 DEF Stage, Exists, Pending, Wanted
      <3> QED
        BY <2>1, <3>2, <3>3
    <2> QED
      BY <1>a, <2>1, <2>2
  <1>7. CASE GetIngress(t)
    <2>1. /\ k.step = "getIngress" /\ i \in Ids /\ rows' = rows /\ ingresses' = ingresses
          /\ k.row.target \in AutoTargets => k.secret # "none"
      <3>1. At(t, "getIngress") /\ HasChosen(t) /\ UNCHANGED <<rows, nextId, ingresses>>
        BY <1>7 DEF GetIngress
      <3> QED
        BY <1>0, <3>1 DEF At, HasChosen
    <2>2. /\ rows[i] = k.row /\ ~Pending(i) /\ k.row.ns \in Namespaces /\ Exists(i)
          /\ \A ns \in Namespaces : ingresses[i][ns] # None <=> Wanted(i, ns)
      BY <1>0, <2>1, DomainSyncAssumption DEF Stage, Row, Exists
    <2>3. CASE /\ ingresses[i][k.row.ns] # None
               /\ tasks' = [tasks EXCEPT ![t].step = "putIngress", ![t].fresh = TRUE]
      <3> DEFINE kk == [k EXCEPT !.step = "putIngress", !.fresh = TRUE]
      <3>1. /\ kk \in Task /\ kk.step = "putIngress" /\ kk.id = i /\ kk.row = k.row /\ kk.fresh
            /\ kk.secret = k.secret
            /\ tasks' = [tasks EXCEPT ![t] = kk]
        BY <1>0, <2>3 DEF Task, Steps, TypeOK
      <3> HIDE DEF kk
      <3>2. k.row.status # "deleted"
        BY <2>2, <2>3 DEF Wanted
      <3>3. Stage(kk)'
        BY <2>1, <2>2, <3>1, <3>2 DEF Stage, Pending, Exists, Wanted
      <3> QED
        BY <1>a, <2>1, <3>1, <3>3
    <2>4. CASE ingresses[i][k.row.ns] = None /\ End(t)
      <3>1. \A ns \in Namespaces : ~Wanted(i, ns)
        BY <2>2, <2>4 DEF Wanted
      <3>2. InSync(i)'
        BY <2>1, <2>2, <3>1 DEF InSync, Pending, Exists, Wanted
      <3> QED
        BY <1>b, <2>1, <2>4, <3>2
    <2> QED
      BY <1>0, <1>7, <2>3, <2>4 DEF GetIngress
  <1>8. ASSUME NEW ing \in Ingress \cup {None}, i \in Ids, k.row.ns \in Namespaces,
               WriteIngress(i, k.row.ns, ing, [tasks EXCEPT ![t] = None])
        PROVE  /\ End(t)
               /\ \A j \in Ids : j # i => ingresses'[j] = ingresses[j]
               /\ \A m \in Namespaces :
                    ingresses'[i][m] = IF m = k.row.ns THEN ing ELSE ingresses[i][m]
    <2> DEFINE ts == [tasks EXCEPT ![t] = None]
    <2>1. ts \in TaskTable /\ \A u \in Tasks : ts[u] = None \/ ts[u].step # "putIngress"
      BY <1>0 DEF TypeOK, TaskTable, Alone, Idle
    <2> HIDE DEF ts
    <2>2. WriteIngress(i, k.row.ns, ing, ts)
      BY <1>8 DEF ts
    <2>3. /\ tasks' = ts
          /\ \A j \in Ids : j # i => ingresses'[j] = ingresses[j]
          /\ \A m \in Namespaces :
               ingresses'[i][m] = IF m = k.row.ns THEN ing ELSE ingresses[i][m]
      BY <1>8, <2>1, <2>2, WritesOne
    <2>4. End(t)
      BY <2>3 DEF End, ts
    <2> QED
      BY <2>3, <2>4
  <1>9. CASE PutIngress(t)
    <2>1. k.step = "putIngress" /\ i \in Ids /\ rows' = rows
      BY <1>0, <1>9 DEF PutIngress, At, NoWrite
    <2>2. /\ rows[i] = k.row /\ ~Pending(i) /\ k.row.ns \in Namespaces /\ Exists(i)
          /\ k.fresh /\ k.row.status # "deleted" /\ (k.row.target \in AutoTargets => k.secret # "none")
          /\ \A ns \in Namespaces : ingresses[i][ns] # None <=> Wanted(i, ns)
      BY <1>0, <2>1, DomainSyncAssumption DEF Stage, Row, Exists
    <2> DEFINE ing == Rendered(k.row, k.secret)
    <2>3. /\ WriteIngress(i, k.row.ns, ing, [tasks EXCEPT ![t] = None])
          /\ ing \in Ingress /\ ing # None /\ Shows(ing, k.row)
      BY <1>0, <1>9, <2>2, RenderedShows DEF PutIngress, Task
    <2> HIDE DEF ing
    <2>4. /\ End(t)
          /\ \A j \in Ids : j # i => ingresses'[j] = ingresses[j]
          /\ \A m \in Namespaces :
               ingresses'[i][m] = IF m = k.row.ns THEN ing ELSE ingresses[i][m]
      BY <1>8, <2>1, <2>2, <2>3
    <2>5. InSync(i)'
      BY <2>1, <2>2, <2>3, <2>4 DEF InSync, Pending, Exists, Wanted
    <2> QED
      BY <1>b, <2>1, <2>4, <2>5
  <1>10. CASE DeleteIngress(t)
    <2>1. k.step = "deleteIngress" /\ i \in Ids /\ rows' = rows /\ k.row.ns \in Namespaces
      BY <1>0, <1>10 DEF DeleteIngress, At, NoWrite, Row
    <2>2. /\ ~Pending(i)
          /\ \A ns \in Namespaces :
               ~Wanted(i, ns) /\ (ns # k.row.ns => ingresses[i][ns] = None)
      BY <1>0, <2>1 DEF Stage
    <2>3. /\ End(t)
          /\ \A j \in Ids : j # i => ingresses'[j] = ingresses[j]
          /\ \A m \in Namespaces : ingresses'[i][m] = None
      <3>1. CASE WriteIngress(i, k.row.ns, None, [tasks EXCEPT ![t] = None])
        BY <1>8, <2>1, <2>2, <3>1
      <3>2. CASE ingresses[i][k.row.ns] = None /\ UNCHANGED ingresses /\ End(t)
        BY <2>2, <3>2
      <3> QED
        BY <1>0, <1>10, <3>1, <3>2 DEF DeleteIngress
    <2>4. InSync(i)'
      BY <2>1, <2>2, <2>3 DEF InSync, Pending, Exists, Wanted
    <2> QED
      BY <1>b, <2>1, <2>3, <2>4
  <1> QED
    BY <1>1, <1>2, <1>3, <1>4, <1>5, <1>6, <1>c, <1>7, <1>9, <1>10 DEF Step

\* Of the two tasks of a deletion one ends, and what the other may rely on is
\* what it finds.
LEMMA SerialDeletion ==
    ASSUME Orderly, TypeInv, NEW t \in Tasks, NEW u \in Tasks, UnderDeletion(t, u),
           NEW v \in Tasks, Step(v)
    PROVE  Under(t)' \/ Under(u)'
  <1> USE DEF TypeInv
  <1>1. PICK j \in Task, k \in Task, i \in Ids : j = tasks[t] /\ k = tasks[u] /\ i = k.id
    BY AtTask DEF UnderDeletion, HasId
  <1>2. /\ j.step \in {"softDelete", "hardDelete"} /\ k.step = "deleteIngress" /\ j.id = i
        /\ Exists(i) /\ k.row = rows[i] /\ k.row.ns \in Namespaces /\ rows[i] \in Row
        /\ \A n \in Ids : InSync(n)
        /\ "k8s" \notin Faults /\ "db" \notin Faults
    BY <1>1 DEF UnderDeletion, Orderly, Task, Row
  <1>3. t # u /\ v \in {t, u}
    BY DEF UnderDeletion, Step, Insert, Reactivate, SaveUpdate, Save, RemoveRow, ChooseSecret, CreateIngress,
           SaveStatus, GetIngress, PutIngress, DeleteIngress, At, Idle
  <1>4. CASE v = t
    <2>1. /\ RepoSoftDelete(i) \/ RepoDelete(i)
          /\ End(t) /\ ingresses' = ingresses
      BY <1>1, <1>2, <1>4 DEF Step, Insert, Reactivate, SaveUpdate, Save, RemoveRow, ChooseSecret, CreateIngress,
           SaveStatus, GetIngress, PutIngress, DeleteIngress, At
    <2>2. /\ \A n \in Ids : n # i => rows'[n] = rows[n]
          /\ rows'[i] # None => rows'[i].status = "deleted"
      BY <1>2, <2>1 DEF RepoSoftDelete, RepoDelete, TypeOK, Row
    <2>3. Alone(u)' /\ tasks'[u] = k
      BY <1>1, <1>3, <2>1, DomainSyncAssumption DEF UnderDeletion, Alone, Idle, End, TypeOK
    <2>4. SyncedBut(i)'
      BY <1>2, <2>1, <2>2, InSyncKept DEF SyncedBut
    <2>5. /\ ~Pending(i)'
          /\ \A ns \in Namespaces : ~Wanted(i, ns)' /\ (ns # k.row.ns => ingresses'[i][ns] = None)
      BY <1>2, <2>1, <2>2 DEF Pending, Wanted, Exists, InSync
    <2>6. Stage(k)'
      BY <1>1, <1>2, <2>5 DEF Stage
    <2> QED
      BY <1>1, <2>3, <2>4, <2>6
         DEF Under, SyncedBut, Stage, Exists, InSync, Pending, Bare, Wanted, Shows
  <1>5. CASE v = u
    <2>1. DeleteIngress(u) /\ rows' = rows
      BY <1>1, <1>2, <1>5 DEF Step, Insert, Reactivate, SaveUpdate, Save, RemoveRow, ChooseSecret, CreateIngress,
           SaveStatus, GetIngress, PutIngress, DeleteIngress, At, NoWrite
    <2>2. /\ End(u) /\ \A n \in Ids : n # i => ingresses'[n] = ingresses[n]
          /\ \A m \in Namespaces : ingresses'[i][m] = IF m = k.row.ns THEN None ELSE ingresses[i][m]
      <3> DEFINE ts == [tasks EXCEPT ![u] = None]
      <3>1. ts \in TaskTable /\ \A n \in Tasks : ts[n] = None \/ ts[n].step # "putIngress"
        BY <1>1, <1>2 DEF TypeOK, TaskTable, UnderDeletion, Idle
      <3> HIDE DEF ts
      <3>2. CASE WriteIngress(i, k.row.ns, None, ts)
        <4>1. /\ tasks' = ts /\ \A n \in Ids : n # i => ingresses'[n] = ingresses[n]
              /\ \A m \in Namespaces :
                   ingresses'[i][m] = IF m = k.row.ns THEN None ELSE ingresses[i][m]
          BY <1>2, <3>1, <3>2, WritesOne
        <4> QED
          BY <4>1 DEF End, ts
      <3>3. CASE ingresses[i][k.row.ns] = None /\ UNCHANGED ingresses /\ End(u)
        BY <3>3
      <3> QED
        BY <1>1, <1>2, <2>1, <3>2, <3>3 DEF DeleteIngress, ts
    <2>3. Alone(t)' /\ tasks'[t] = j
      BY <1>1, <1>3, <2>2, DomainSyncAssumption DEF UnderDeletion, Alone, Idle, End, TypeOK
    <2>4. SyncedBut(i)'
      BY <1>2, <2>1, <2>2, InSyncKept DEF SyncedBut
    <2>5. Exists(i)' /\ ~Pending(i)' /\ Bare(i)'
      BY <1>2, <2>1, <2>2 DEF Pending, Wanted, Exists, InSync, Bare
    <2>6. Stage(j)'
      BY <1>2, <2>5 DEF Stage
    <2> QED
      BY <1>2, <2>3, <2>4, <2>6
         DEF Under, SyncedBut, Stage, Exists, InSync, Pending, Bare, Wanted, Shows
  <1> QED
    BY <1>3, <1>4, <1>5

\* Clients that wait until everything an operation started has ended find, each
\* time, the Ingresses as the table says and every status final: with no fault,
\* and with updates that keep the namespace and the status.  (For an update of
\* the namespace or of the status this is false, whoever waits.)
THEOREM SerialSettlesInSync ==
    ASSUME Orderly
    PROVE  SerialSpec => []SettledInSync
  <1>1. [(AllIdle /\ Begin) \/ \E t \in Tasks : Step(t)]_vars => [Next]_vars
    BY DEF Next
  <1>2. SerialSpec => []TypeInv
    BY <1>1, TypeCorrect, PTL DEF SerialSpec, Spec
  <1>3. Init => SerialInv
    BY DEF Init, SerialInv, Settled, AllIdle, Idle, InSync, Pending, Wanted, Exists
  <1>4. TypeInv /\ SerialInv /\ [(AllIdle /\ Begin) \/ \E t \in Tasks : Step(t)]_vars => SerialInv'
    <2> SUFFICES ASSUME TypeInv, SerialInv, [(AllIdle /\ Begin) \/ \E t \in Tasks : Step(t)]_vars
                 PROVE  SerialInv'
      OBVIOUS
    <2>1. \A i \in Ids : i >= nextId' => ~Exists(i)'
      <3>1. TableStep
        BY <1>1, NextTable
      <3>2. nextId \in Nat
        BY DEF TypeInv, TypeOK
      <3> QED
        BY <3>1, <3>2 DEF TableStep, Keeps, SerialInv, Ids
    <2>2. CASE AllIdle /\ Begin
      <3>1. Settled
        BY <2>2 DEF SerialInv, Under, UnderDeletion, Alone, AllIdle
      <3> QED
        BY <2>1, <2>2, <3>1, SerialBegin DEF SerialInv
    <2>3. ASSUME NEW t \in Tasks, Step(t)
          PROVE  SerialInv'
      <3>0. ~Idle(t)
        BY <2>3 DEF Step, Insert, Reactivate, SaveUpdate, Save, RemoveRow, ChooseSecret, CreateIngress,
                    SaveStatus, GetIngress, PutIngress, DeleteIngress, At
      <3>1. CASE Settled
        BY <3>0, <3>1 DEF Settled, AllIdle
      <3>2. ASSUME NEW u \in Tasks, Under(u)
            PROVE  SerialInv'
        <4>1. u = t
          BY <3>0, <3>2 DEF Under, Alone
        <4>2. Settled' \/ Under(t)'
          BY <2>3, <3>2, <4>1, SerialStep DEF SerialInv
        <4> QED
          BY <2>1, <4>2 DEF SerialInv
      <3>3. ASSUME NEW u \in Tasks, NEW v \in Tasks, UnderDeletion(u, v)
            PROVE  SerialInv'
        <4>1. Under(u)' \/ Under(v)'
          BY <2>3, <3>3, SerialDeletion
        <4> QED
          BY <2>1, <4>1 DEF SerialInv
      <3> QED
        BY <3>1, <3>2, <3>3 DEF SerialInv
    <2>4. CASE UNCHANGED vars
      <3>1. rows' = rows /\ nextId' = nextId /\ ingresses' = ingresses /\ tasks' = tasks
        BY <2>4 DEF vars
      <3>2. \A i \in Ids : InSync(i) => InSync(i)'
        BY <3>1, InSyncKept
      <3>3. Settled => Settled'
        BY <3>1, <3>2 DEF Settled, AllIdle, Idle
      <3>4. \A t \in Tasks : Under(t) => Under(t)'
        BY <3>1 DEF Under, Alone, SyncedBut, Stage, Idle, InSync, Bare, Pending, Wanted, Exists,
                    Shows
      <3>5. \A t, u \in Tasks : UnderDeletion(t, u) => UnderDeletion(t, u)'
        BY <3>1, <3>2 DEF UnderDeletion, Idle, Exists
      <3>6. \A i \in Ids : Exists(i)' <=> Exists(i)
        BY <3>1 DEF Exists
      <3> QED
        BY <3>1, <3>3, <3>4, <3>5, <3>6 DEF SerialInv
    <2> QED
      BY <2>2, <2>3, <2>4
  <1>5. TypeInv /\ SerialInv => SettledInSync
    <2> SUFFICES ASSUME TypeInv, SerialInv, AllIdle PROVE SettledInSync
      BY DEF SettledInSync, SettledNoOrphan, SettledRouted, SettledCurrent, SettledNotPending
    <2>1. \A i \in Ids : InSync(i)
      BY DEF SerialInv, Settled, Under, UnderDeletion, Alone, AllIdle
    <2> QED
      BY <2>1 DEF SettledInSync, SettledNoOrphan, SettledRouted, SettledCurrent,
                        SettledNotPending, InSync, Wanted
  <1> QED
    BY <1>2, <1>3, <1>4, <1>5, PTL DEF SerialSpec

-----------------------------------------------------------------------------
(* Deleted domains of clients that wait                                    *)

Removing == {"softDelete", "hardDelete", "deleteIngress"}

Deleted(i) == Exists(i) /\ rows[i].status = "deleted"

\* What a task relies on that is the only one, but for those of a deletion.
Relies(k) ==
    /\ k.step \in {"insert", "reactivate"} => k.row.status = "pending"
    /\ k.step \in {"createIngress", "saveStatus"} => ~Deleted(k.id)
    /\ k.step = "saveUpdate" /\ Exists(k.id) => rows[k.id].status = k.row.status

OneWriter ==
    \A t \in Tasks : ~Idle(t) =>
        Relies(tasks[t]) /\ (tasks[t].step \notin Removing => Alone(t))

StaysDeleted(i) == Deleted(i) /\ Exists(i)' => rows'[i].status \in {"deleted", "pending"}

\* Updates keep the status.
KeepStatus == "update" \in Ops => ApiStatuses = {}

LEMMA OneWriterBegin ==
    ASSUME KeepStatus, TypeInv, AllIdle, Begin
    PROVE  OneWriter' /\ \A i \in Ids : StaysDeleted(i)
  <1>0. /\ TypeOK /\ rows' = rows
        /\ \A i \in Ids : StaysDeleted(i)
    BY DEF Begin, BeginCreate, BeginUpdate, BeginDelete, StaysDeleted, Deleted, Exists, TypeInv
  <1>1. ASSUME NEW t \in Tasks, NEW k, tasks' = [tasks EXCEPT ![t] = k], Relies(k)
        PROVE  OneWriter'
    <2>1. tasks'[t] = k /\ \A u \in Tasks : u # t => Idle(u)'
      BY <1>0, <1>1 DEF AllIdle, Idle, TypeOK
    <2>2. Relies(k)'
      BY <1>0, <1>1 DEF Relies, Deleted, Exists
    <2> QED
      BY <2>1, <2>2 DEF OneWriter, Alone, Relies, Deleted, Exists
  <1>2. ASSUME NEW t \in Tasks, BeginCreate(t)
        PROVE  OneWriter'
    <2>1. PICK step, i, n, ns, g :
             /\ step \in {"insert", "reactivate"}
             /\ tasks' = [tasks EXCEPT ![t] = NewTask(step, i, NewRow(n, ns, g))]
      BY <1>2 DEF BeginCreate
    <2>2. Relies(NewTask(step, i, NewRow(n, ns, g)))
      BY <2>1 DEF Relies, NewTask, NewRow
    <2> QED
      BY <1>1, <2>1, <2>2
  <1>3. ASSUME NEW t \in Tasks, BeginUpdate(t)
        PROVE  OneWriter'
    <2>1. PICK i, r :
             /\ r.status = rows[i].status
             /\ tasks' = [tasks EXCEPT ![t] = NewTask("saveUpdate", i, r)]
      BY <1>3 DEF BeginUpdate, KeepStatus
    <2>2. Relies(NewTask("saveUpdate", i, r))
      BY <2>1 DEF Relies, NewTask
    <2> QED
      BY <1>1, <2>1, <2>2
  <1>4. ASSUME NEW t \in Tasks, NEW u \in Tasks, BeginDelete(t, u)
        PROVE  OneWriter'
    <2>1. \A v \in Tasks : ~Idle(v)' => tasks'[v].step \in Removing
      BY <1>0, <1>4 DEF BeginDelete, NewTask, Removing, AllIdle, Idle, TypeOK
    <2> QED
      BY <2>1 DEF OneWriter, Relies, Removing
  <1> QED
    BY <1>0, <1>2, <1>3, <1>4 DEF Begin

\* What a step makes of its own slot and of the deleted rows.
LEMMA StepRelies ==
    ASSUME TypeInv, NEW t \in Tasks, Step(t), Relies(tasks[t])
    PROVE  /\ ~Idle(t) /\ OthersKept(t)
           /\ tasks[t].step \in Removing => Idle(t)'
           /\ ~Idle(t)' => Relies(tasks[t])'
           /\ \A i \in Ids : StaysDeleted(i)
  <1> DEFINE k == tasks[t]
  <1>1. ~Idle(t) /\ k \in Task /\ k.row \in Row /\ (k.step # "insert" => k.id \in Ids)
    BY AtTask DEF Step, Insert, Reactivate, SaveUpdate, Save, RemoveRow, ChooseSecret, CreateIngress,
                  SaveStatus, GetIngress, PutIngress, DeleteIngress, At, TypeInv, HasId
  <1>2. ASSUME End(t)
        PROVE  OthersKept(t) /\ Idle(t)'
    BY <1>2 DEF End, OthersKept, Idle, TypeInv, TypeOK
  <1>3. NoWrite => \A i \in Ids : StaysDeleted(i) /\ (Deleted(i)' <=> Deleted(i))
    BY DEF NoWrite, Deleted, StaysDeleted, Exists
  <1>m. ASSUME NEW step \in Steps, Goto(t, step)
        PROVE  /\ OthersKept(t) /\ ~Idle(t)' /\ tasks'[t].step = step
               /\ tasks'[t].id = k.id /\ tasks'[t].row = k.row
    <2>1. [k EXCEPT !.step = step] \in Task
      BY <1>1 DEF Task
    <2> QED
      BY <1>1, <1>m, <2>1, DomainSyncAssumption DEF Goto, OthersKept, Idle, TypeInv, TypeOK, Task
  <1>u. ASSUME k.id \in Ids, RepoUpdate(k.id, k.row)
        PROVE  /\ \A i \in Ids : i # k.id => rows'[i] = rows[i]
               /\ \A i \in Ids : i = k.id => (Exists(i)' <=> Exists(i))
               /\ Exists(k.id) => rows'[k.id].status = k.row.status
    <2>1. CASE ~Exists(k.id)
      <3>1. rows' = rows
        BY <1>u, <2>1 DEF RepoUpdate, Updated
      <3> QED
        BY <2>1, <3>1 DEF Exists
    <2>2. CASE Exists(k.id)
      <3>1. PICK r : r = [k.row EXCEPT !.name = rows[k.id].name]
        OBVIOUS
      <3>2. r.status = k.row.status /\ r \in Row
        BY <1>1, <1>u, <2>2, <3>1 DEF Exists, TypeInv, TypeOK, Row
      <3>3. rows' = [rows EXCEPT ![k.id] = r]
        BY <1>u, <2>2, <3>1 DEF RepoUpdate, Updated
      <3>4. rows'[k.id] = r /\ \A i \in Ids : i # k.id => rows'[i] = rows[i]
        BY <1>u, <3>3 DEF TypeInv, TypeOK
      <3>5. r # None
        BY <3>2, DomainSyncAssumption
      <3>6. PICK i \in Ids : i = k.id
        BY <1>u
      <3>7. Exists(i)'
        BY <3>4, <3>5, <3>6 DEF Exists
      <3>8. Exists(k.id)
        BY <2>2
      <3> QED
        BY <3>2, <3>4, <3>5, <3>6, <3>7, <3>8
    <2> QED
      BY <2>1, <2>2
  <1>4. CASE Insert(t)
    <2>1. CASE RepoCreate(k.row) /\ tasks' = [tasks EXCEPT ![t].step = "createIngress", ![t].id = FreshId]
      <3>0. FreshId \in Ids /\ FreshId \in 0..MaxId
        BY <1>1, <2>1, RepoCreateType, DomainSyncAssumption DEF TypeInv, Ids
      <3>1. /\ tasks'[t].step = "createIngress" /\ tasks'[t].id = FreshId
            /\ ~Idle(t)' /\ OthersKept(t)
        <4>1. [k EXCEPT !.step = "createIngress", !.id = FreshId] \in Task
          BY <1>1, <3>0 DEF Task, Steps
        <4> QED BY <1>1, <2>1, <4>1, DomainSyncAssumption
                DEF OthersKept, Idle, TypeInv, TypeOK, Task
      <3>2. rows'[FreshId] = k.row /\ \A i \in Ids : i # FreshId => rows'[i] = rows[i]
        BY <2>1, <3>0 DEF RepoCreate, TypeInv, TypeOK
      <3>3. k.row.status = "pending" /\ k.step = "insert"
        BY <1>4 DEF Insert, At, Relies
      <3>4. \A i \in Ids : StaysDeleted(i)
        <4>1. PICK n \in Ids : n = FreshId
          BY <3>0
        <4>2. rows'[n].status = "pending" /\ \A i \in Ids : i # n => rows'[i] = rows[i]
          BY <3>2, <3>3, <4>1
        <4> HIDE DEF k
        <4> QED BY <4>2 DEF Deleted, StaysDeleted, Exists
      <3>5. Relies(tasks[t])'
        <4>1. rows'[tasks'[t].id].status = "pending"
          BY <3>1, <3>2, <3>3
        <4> HIDE DEF k
        <4> QED BY <3>1, <4>1 DEF Relies, Deleted, Exists
      <3> QED BY <1>1, <3>1, <3>3, <3>4, <3>5 DEF Removing, k
    <2>2. CASE NoWrite /\ End(t)
      BY <1>1, <1>2, <1>3, <2>2
    <2> QED BY <1>4, <2>1, <2>2 DEF Insert
  <1>5. CASE Reactivate(t)
    <2>1. k.step = "reactivate" /\ k.row.status = "pending" /\ k.id \in Ids
      BY <1>1, <1>5 DEF Reactivate, Save, At, Relies
    <2>2. CASE RepoUpdate(k.id, k.row) /\ Goto(t, "createIngress")
      <3>1. \A i \in Ids : StaysDeleted(i)
        BY <1>u, <2>1, <2>2 DEF StaysDeleted, Deleted, Exists
      <3>2. /\ OthersKept(t) /\ ~Idle(t)' /\ tasks'[t].step = "createIngress"
            /\ tasks'[t].id = k.id /\ tasks'[t].row = k.row
        BY <1>m, <2>2 DEF Steps
      <3>3. PICK i \in Ids : i = k.id
        BY <2>1
      <3>4. Exists(i)' => rows'[i].status = "pending"
        BY <1>u, <2>1, <2>2, <3>3
      <3>5. Relies(tasks[t])'
        BY <3>2, <3>3, <3>4 DEF Relies, Deleted, Exists
      <3> QED BY <1>1, <2>1, <3>1, <3>2, <3>5 DEF Removing
    <2>3. CASE NoWrite /\ End(t)
      BY <1>1, <1>2, <1>3, <2>3
    <2> QED BY <1>5, <2>2, <2>3 DEF Reactivate, Save
  <1>6. CASE SaveUpdate(t)
    <2>1. /\ k.step = "saveUpdate" /\ k.id \in Ids
          /\ Exists(k.id) => rows[k.id].status = k.row.status
      BY <1>1, <1>6 DEF SaveUpdate, Save, At, Relies
    <2>2. CASE RepoUpdate(k.id, k.row) /\ Goto(t, "getIngress")
      <3>1. \A i \in Ids : StaysDeleted(i)
        BY <1>u, <2>1, <2>2 DEF StaysDeleted, Deleted, Exists
      <3>2. OthersKept(t) /\ ~Idle(t)' /\ tasks'[t].step = "getIngress"
        BY <1>m, <2>2 DEF Steps
      <3>3. Relies(tasks[t])'
        BY <3>2 DEF Relies
      <3> QED BY <1>1, <2>1, <3>1, <3>2, <3>3 DEF Removing
    <2>3. CASE NoWrite /\ End(t)
      BY <1>1, <1>2, <1>3, <2>3
    <2> QED BY <1>6, <2>2, <2>3 DEF SaveUpdate, Save
  <1>7. CASE RemoveRow(t)
    <2>1. /\ k.id \in Ids /\ End(t)
          /\ RepoSoftDelete(k.id) \/ RepoDelete(k.id) \/ NoWrite
      BY <1>1, <1>7 DEF RemoveRow, At
    <2>2. \A i \in Ids : StaysDeleted(i)
      <3>1. CASE NoWrite
        BY <1>3, <3>1
      <3>2. CASE RepoDelete(k.id)
        BY <2>1, <3>2 DEF RepoDelete, StaysDeleted, Deleted, Exists, TypeInv, TypeOK
      <3>3. CASE RepoSoftDelete(k.id) /\ Exists(k.id)
        <4>1. rows[k.id] \in Row
          BY <2>1, <3>3 DEF Exists, TypeInv, TypeOK
        <4>2. /\ rows'[k.id].status = "deleted"
              /\ \A j \in Ids \ {k.id} : rows'[j] = rows[j]
          BY <2>1, <3>3, <4>1 DEF RepoSoftDelete, TypeInv, TypeOK, Row
        <4> QED BY <4>2 DEF StaysDeleted, Deleted, Exists
      <3>4. CASE RepoSoftDelete(k.id) /\ ~Exists(k.id)
        BY <3>4 DEF RepoSoftDelete, StaysDeleted, Deleted, Exists
      <3> QED BY <2>1, <3>1, <3>2, <3>3, <3>4
    <2> QED BY <1>1, <1>2, <2>1, <2>2
  <1>8. CASE SaveStatus(t)
    <2>1. /\ k.id \in Ids /\ End(t) /\ ~Deleted(k.id)
          /\ RepoUpdate(k.id, k.row) \/ NoWrite
      BY <1>1, <1>8 DEF SaveStatus, At, Relies
    <2>2. \A i \in Ids : StaysDeleted(i)
      BY <1>3, <1>u, <2>1 DEF StaysDeleted, Deleted, Exists
    <2> QED BY <1>1, <1>2, <2>1, <2>2
  <1>9. CASE CreateIngress(t)
    <2>1. k.step = "createIngress" /\ k.id \in Ids /\ NoWrite /\ ~Deleted(k.id)
      BY <1>1, <1>9 DEF CreateIngress, At, Relies
    <2>2. PICK st \in {"active", "error"} :
             LET j == [k EXCEPT !.step = "saveStatus", !.row.status = st]
                 ts == [tasks EXCEPT ![t] = j]
             IN  (\E i, ns, ing : WriteIngress(i, ns, ing, ts)) \/ tasks' = ts
      <3>1. \A st \in {"active", "error"} :
              [tasks EXCEPT ![t].step = "saveStatus", ![t].row.status = st] =
              [tasks EXCEPT ![t] = [k EXCEPT !.step = "saveStatus", !.row.status = st]]
        BY DEF TypeInv, TypeOK
      <3> QED BY <1>9, <3>1 DEF CreateIngress
    <2>3. PICK j \in Task :
             /\ j.step = "saveStatus" /\ j.id = k.id
             /\ \/ \E i, ns, ing : WriteIngress(i, ns, ing, [tasks EXCEPT ![t] = j])
                \/ tasks' = [tasks EXCEPT ![t] = j]
      <3>1. [k EXCEPT !.step = "saveStatus", !.row.status = st] \in Task
        BY <1>1 DEF Task, Row, Statuses, Steps
      <3>2. /\ [k EXCEPT !.step = "saveStatus", !.row.status = st].step = "saveStatus"
            /\ [k EXCEPT !.step = "saveStatus", !.row.status = st].id = k.id
        BY <1>1 DEF Task, Row
      <3> QED BY <2>2, <3>1, <3>2
    <2>4. OthersKept(t) /\ ~Idle(t)' /\ tasks'[t].step = "saveStatus" /\ tasks'[t].id = k.id
      <3>1. j # None
        BY DomainSyncAssumption
      <3>2. CASE tasks' = [tasks EXCEPT ![t] = j]
        BY <2>3, <3>1, <3>2 DEF OthersKept, Idle, TypeInv, TypeOK
      <3> QED BY <2>3, <3>1, <3>2, WriteKeepsOthers
    <2>5. PICK i \in Ids : i = k.id
      BY <2>1
    <2>6. ~Deleted(i)'
      BY <1>3, <2>1, <2>5
    <2>7. Relies(tasks[t])'
      BY <2>4, <2>5, <2>6 DEF Relies, Deleted, Exists
    <2> QED BY <1>1, <1>3, <2>1, <2>4, <2>7 DEF Removing
  <1>c. CASE ChooseSecret(t)
    <2>1. PICK j \in Task : /\ tasks' = [tasks EXCEPT ![t] = j] /\ NoWrite
                           /\ j.step = k.step /\ j.id = k.id /\ j.row = k.row
                           /\ j.step \in {"createIngress", "getIngress"}
      BY <1>c, ChooseSecretStep DEF TypeInv, NoWrite
    <2>2. OthersKept(t) /\ ~Idle(t)' /\ tasks'[t] = j
      BY <1>1, <2>1, DomainSyncAssumption DEF OthersKept, Idle, TypeInv, TypeOK
    <2>3. Relies(tasks[t])'
      BY <2>1, <2>2 DEF Relies, Deleted, Exists, NoWrite
    <2> QED BY <1>1, <1>3, <2>1, <2>2, <2>3 DEF Removing
  <1>10. CASE GetIngress(t)
    <2>1. k.step = "getIngress" /\ NoWrite
      BY <1>10 DEF GetIngress, NoWrite, At
    <2>2. CASE tasks' = [tasks EXCEPT ![t].step = "putIngress", ![t].fresh = TRUE]
      <3>1. [k EXCEPT !.step = "putIngress", !.fresh = TRUE] \in Task
        BY <1>1 DEF Task, Steps
      <3>2. OthersKept(t) /\ ~Idle(t)' /\ tasks'[t].step = "putIngress"
        BY <1>1, <2>2, <3>1, DomainSyncAssumption DEF OthersKept, Idle, TypeInv, TypeOK, Task
      <3>3. Relies(tasks[t])'
        BY <3>2 DEF Relies
      <3> QED BY <1>1, <1>3, <2>1, <3>2, <3>3 DEF Removing
    <2> QED BY <1>1, <1>2, <1>3, <1>10, <2>1, <2>2 DEF GetIngress
  <1>11. CASE PutIngress(t) \/ DeleteIngress(t)
    <2>1. NoWrite
      BY <1>11 DEF PutIngress, DeleteIngress
    <2>2. OthersKept(t) /\ Idle(t)'
      BY <1>2, <1>11, WriteKeepsOthers DEF PutIngress, DeleteIngress
    <2> QED BY <1>1, <1>3, <2>1, <2>2
  <1>12. QED
    BY <1>4, <1>5, <1>6, <1>7, <1>8, <1>9, <1>c, <1>10, <1>11 DEF Step

\* A soft-deleted domain of such clients comes back as a new creation only,
\* whatever fails: the goroutine that would save an old status over it has
\* ended before the deletion begins.  (v_resurrected shows that clients which
\* do not wait see it come back by itself.)
THEOREM SerialDeletionsLast ==
    ASSUME KeepStatus
    PROVE  SerialSpec => DeletedStaysDeleted
  <1> DEFINE A == \A i \in Ids : StaysDeleted(i)
             N == (AllIdle /\ Begin) \/ \E t \in Tasks : Step(t)
  <1>1. [N]_vars => [Next]_vars
    BY DEF Next
  <1>2. SerialSpec => []TypeInv
    BY <1>1, TypeCorrect, PTL DEF SerialSpec, Spec
  <1>3. Init => OneWriter
    BY DEF Init, OneWriter, Idle
  <1>4. ASSUME TypeInv, OneWriter, NEW t \in Tasks, Step(t)
        PROVE  OneWriter' /\ A
    <2>0. Relies(tasks[t])
      BY <1>4 DEF OneWriter, Step, Insert, Reactivate, SaveUpdate, Save, RemoveRow, ChooseSecret, CreateIngress,
                  SaveStatus, GetIngress, PutIngress, DeleteIngress, At
    <2>1. /\ ~Idle(t) /\ OthersKept(t) /\ (tasks[t].step \in Removing => Idle(t)')
          /\ (~Idle(t)' => Relies(tasks[t])') /\ A
      BY <1>4, <2>0, StepRelies
    <2>2. CASE tasks[t].step \in Removing
      <3>1. ASSUME NEW u \in Tasks, ~Idle(u)'
            PROVE  tasks'[u].step \in Removing
        <4>1. u # t /\ ~Idle(u) /\ tasks'[u].step = tasks[u].step
          BY <2>1, <2>2, <3>1 DEF OthersKept
        <4> QED
          BY <1>4, <2>1, <4>1 DEF OneWriter, Alone
      <3>2. OneWriter'
        BY <3>1 DEF OneWriter, Relies, Removing
      <3> QED
        BY <2>1, <3>2
    <2>3. CASE tasks[t].step \notin Removing
      <3>1. \A u \in Tasks : u # t => Idle(u)'
        BY <1>4, <2>1, <2>3 DEF OneWriter, Alone, OthersKept
      <3>2. OneWriter'
        BY <2>1, <3>1 DEF OneWriter, Alone
      <3> QED
        BY <2>1, <3>2
    <2> QED
      BY <2>2, <2>3
  <1>5. TypeInv /\ OneWriter /\ [N]_vars => OneWriter' /\ [A]_vars
    <2>1. CASE UNCHANGED vars
      BY <2>1 DEF vars, OneWriter, Alone, Idle, Relies, Deleted, Exists
    <2> QED
      BY <1>4, <2>1, OneWriterBegin
  <1>6. A => \A i \in Ids : Exists(i) /\ Exists(i)' /\ rows[i].status = "deleted"
                                => rows'[i].status \in {"deleted", "pending"}
    BY DEF StaysDeleted, Deleted
  <1> QED
    BY <1>2, <1>3, <1>5, <1>6, PTL DEF SerialSpec, DeletedStaysDeleted

-----------------------------------------------------------------------------
(* Wildcards: the Secret of a domain created after its wildcard            *)

\* The Secret a task has chosen is the one of the wildcard if the domain is
\* under one; and what writes an Ingress has chosen before.
Apt(k) ==
    k.secret # "none" =>
        k.step # "insert" /\ (UnderWildcard(k.id, k.row.name) => k.secret = "wildcard")
Ready(k) == k.step = "putIngress" /\ k.row.target \in AutoTargets => k.secret # "none"

TasksApt == \A t \in Tasks : ~Idle(t) => Apt(tasks[t]) /\ Ready(tasks[t])

ShareInv == CoveredShares /\ TasksApt

\* A chosen Secret has been carried along, or is what the lookup finds now.
FromLookup(k, j) ==
    k.secret # "none" =>
        /\ j # None /\ j.step # "insert" /\ k.step # "insert"
        /\ k.id = j.id /\ k.row.name = j.row.name
        /\ \/ k.secret = j.secret
           \/ k.secret = IF HasWildcard(j.row.name) THEN "wildcard" ELSE "own"

SlotsApt(ts) == \A u \in Tasks : ts[u] # None => FromLookup(ts[u], tasks[u]) /\ Ready(ts[u])

\* An Ingress after a step is the one of before, none, or what a task renders.
IngressesApt ==
    \A i \in Ids, ns \in Namespaces :
        \/ ingresses'[i][ns] \in {ingresses[i][ns], None}
        \/ \E t \in Tasks :
             /\ ~Idle(t) /\ tasks[t].step # "insert" /\ tasks[t].id = i /\ HasChosen(t)
             /\ ingresses'[i][ns] = Rendered(tasks[t].row, tasks[t].secret)

\* A domain comes under no wildcard after its own creation.
LEMMA UnderKept ==
    ASSUME TypeInv, [Next]_vars, NEW i \in Ids, i < nextId, NEW n \in Names,
           UnderWildcard(i, n)'
    PROVE  UnderWildcard(i, n) /\ HasWildcard(n)
  <1>1. CASE WildcardOf[n] = n
    BY <1>1 DEF UnderWildcard, HasWildcard
  <1>2. ASSUME NEW j \in Ids, Exists(j)', rows'[j].name = WildcardOf[n], j < i
        PROVE  j \in RowsNamed(WildcardOf[n])
    <2>1. j # nextId
      BY <1>2 DEF TypeInv, TypeOK, Ids
    <2>2. Keeps(j)
      BY <1>2, <2>1, NextTable DEF TableStep
    <2> QED
      BY <1>2, <2>2 DEF Keeps, RowsNamed
  <1> QED
    BY <1>1, <1>2 DEF UnderWildcard, HasWildcard, RowsNamed

LEMMA SlotSet ==
    ASSUME TypeInv, TasksApt, NEW t \in Tasks, NEW k \in Task \cup {None},
           k # None => FromLookup(k, tasks[t]) /\ Ready(k)
    PROVE  SlotsApt([tasks EXCEPT ![t] = k]) /\ [tasks EXCEPT ![t] = k] \in TaskTable
  <1>1. [tasks EXCEPT ![t] = k] \in TaskTable
    BY TaskUpdate DEF TypeInv, TypeOK, TaskTable
  <1>2. \A u \in Tasks : u # t => [tasks EXCEPT ![t] = k][u] = tasks[u]
    BY DEF TypeInv, TypeOK
  <1>3. [tasks EXCEPT ![t] = k][t] = k
    BY DEF TypeInv, TypeOK
  <1>4. \A u \in Tasks : tasks[u] # None => FromLookup(tasks[u], tasks[u]) /\ Ready(tasks[u])
    BY DEF FromLookup, TasksApt, Apt, Idle
  <1> QED
    BY <1>1, <1>2, <1>3, <1>4 DEF SlotsApt

LEMMA SlotsWritten ==
    ASSUME NEW ts \in TaskTable, SlotsApt(ts), NEW i, NEW ns, NEW ing,
           WriteIngress(i, ns, ing, ts)
    PROVE  SlotsApt(tasks')
  <1>1. SlotsApt(Outdated(ts, i, ns))
    BY OutdatedKeeps DEF SlotsApt, FromLookup, Ready
  <1> QED
    BY <1>1 DEF WriteIngress

LEMMA BeginApt ==
    ASSUME TypeInv, TasksApt, Begin
    PROVE  SlotsApt(tasks') /\ IngressesApt
  <1>1. ingresses' = ingresses
    BY DEF Begin, BeginCreate, BeginUpdate, BeginDelete
  <1>2. \A step, i, row, j : step # "putIngress" =>
            FromLookup(NewTask(step, i, row), j) /\ Ready(NewTask(step, i, row))
    BY DEF FromLookup, Ready, NewTask
  <1>3. \A u \in Tasks : tasks[u] # None => FromLookup(tasks[u], tasks[u]) /\ Ready(tasks[u])
    BY DEF FromLookup, TasksApt, Apt, Idle
  <1>4. ASSUME NEW t \in Tasks, BeginCreate(t) \/ BeginUpdate(t)
        PROVE  SlotsApt(tasks')
    <2>1. \E step \in {"insert", "reactivate", "saveUpdate"} : \E i, row :
            tasks' = [tasks EXCEPT ![t] = NewTask(step, i, row)]
      BY <1>4 DEF BeginCreate, BeginUpdate
    <2> QED
      BY <1>2, <1>3, <2>1 DEF SlotsApt, TypeInv, TypeOK
  <1>5. ASSUME NEW t \in Tasks, NEW u \in Tasks, BeginDelete(t, u)
        PROVE  SlotsApt(tasks')
    <2>1. PICK j, k : /\ tasks' = [tasks EXCEPT ![t] = j, ![u] = k]
                      /\ \A m : FromLookup(j, m) /\ Ready(j) /\ FromLookup(k, m) /\ Ready(k)
      <3>1. PICK step \in {"softDelete", "hardDelete"}, i \in Ids :
              tasks' = [tasks EXCEPT ![t] = NewTask(step, i, rows[i]),
                                     ![u] = NewTask("deleteIngress", i, rows[i])]
        BY <1>5 DEF BeginDelete
      <3> DEFINE j == NewTask(step, i, rows[i])
                 k == NewTask("deleteIngress", i, rows[i])
      <3>2. \A m : FromLookup(j, m) /\ Ready(j) /\ FromLookup(k, m) /\ Ready(k)
        BY <1>2
      <3>3. tasks' = [tasks EXCEPT ![t] = j, ![u] = k]
        BY <3>1
      <3> HIDE DEF j, k
      <3> QED
        BY <3>2, <3>3
    <2>2. \A v \in Tasks : tasks'[v] \in {j, k, tasks[v]}
      BY <2>1 DEF TypeInv, TypeOK
    <2> QED
      BY <1>3, <2>1, <2>2 DEF SlotsApt
  <1> QED
    BY <1>1, <1>4, <1>5 DEF Begin, IngressesApt

LEMMA StepApt ==
    ASSUME "db" \notin Faults, TypeInv, TasksApt, NEW t \in Tasks, Step(t)
    PROVE  SlotsApt(tasks') /\ IngressesApt
  <1> DEFINE k == tasks[t]
  <1>1. /\ ~Idle(t) /\ k # None /\ k \in Task /\ k.row \in Row
        /\ k.step # "insert" => k.id \in Ids /\ k.row.ns \in Namespaces
        /\ Apt(k) /\ Ready(k)
    BY AtTask DEF Step, Insert, Reactivate, SaveUpdate, Save, RemoveRow, ChooseSecret, CreateIngress,
                  SaveStatus, GetIngress, PutIngress, DeleteIngress, At, TypeInv, HasId, Row,
                  TasksApt, Idle
  <1>2. ingresses' = ingresses => IngressesApt
    BY DEF IngressesApt
  <1>3. CASE ingresses' = ingresses /\ End(t)
    BY <1>2, <1>3, SlotSet DEF End
  <1>4. ASSUME NEW j \in Task, FromLookup(j, k), Ready(j),
               ingresses' = ingresses, tasks' = [tasks EXCEPT ![t] = j]
        PROVE  SlotsApt(tasks') /\ IngressesApt
    BY <1>2, <1>4, SlotSet
  <1>5. CASE Insert(t)
    <2>1. CASE tasks' = [tasks EXCEPT ![t].step = "createIngress", ![t].id = FreshId]
               /\ RepoCreate(k.row)
      <3> DEFINE j == [k EXCEPT !.step = "createIngress", !.id = nextId]
      <3>1. nextId \in 0..MaxId
        BY <2>1 DEF RepoCreate, TypeInv, TypeOK
      <3>2. k.secret = "none"
        BY <1>1, <1>5 DEF Insert, At, Apt
      <3>3. j \in Task /\ j.secret = "none" /\ j.step = "createIngress"
        BY <1>1, <3>1, <3>2 DEF Task, Steps
      <3>4. tasks' = [tasks EXCEPT ![t] = j]
        BY <2>1 DEF FreshId, TypeInv, TypeOK
      <3> HIDE DEF j
      <3>5. FromLookup(j, k) /\ Ready(j)
        BY <3>3 DEF FromLookup, Ready
      <3> QED BY <1>4, <1>5, <3>3, <3>4, <3>5 DEF Insert
    <2> QED BY <1>3, <1>5, <2>1 DEF Insert
  <1>6. ASSUME NEW step \in Steps, NEW then \in {"createIngress", "getIngress"},
               step # "insert", Save(t, step, then)
        PROVE  SlotsApt(tasks') /\ IngressesApt
    <2>1. CASE Goto(t, then)
      <3> DEFINE j == [k EXCEPT !.step = then]
      <3>1. /\ j \in Task /\ j.step = then /\ j.id = k.id /\ j.row = k.row /\ j.secret = k.secret
            /\ tasks' = [tasks EXCEPT ![t] = j]
        BY <1>1, <2>1 DEF Goto, TypeInv, TypeOK, Task, Steps
      <3> HIDE DEF j
      <3>2. FromLookup(j, k) /\ Ready(j)
        BY <1>1, <1>6, <3>1 DEF FromLookup, Ready, Save, At
      <3> QED BY <1>4, <1>6, <3>1, <3>2 DEF Save
    <2> QED BY <1>3, <1>6, <2>1 DEF Save
  <1>7. CASE Reactivate(t) \/ SaveUpdate(t)
    BY <1>6, <1>7 DEF Reactivate, SaveUpdate, Steps
  <1>8. CASE RemoveRow(t) \/ SaveStatus(t)
    BY <1>3, <1>8 DEF RemoveRow, SaveStatus
  <1>9. CASE ChooseSecret(t)
    <2>1. PICK j \in Task :
            /\ UNCHANGED <<rows, nextId, ingresses>> /\ tasks' = [tasks EXCEPT ![t] = j]
            /\ j.step = k.step /\ j.id = k.id /\ j.row = k.row
            /\ j.step \in {"createIngress", "getIngress"}
            /\ j.secret = IF HasWildcard(j.row.name) THEN "wildcard" ELSE "own"
      BY <1>9, ChooseSecretStep DEF TypeInv
    <2>2. FromLookup(j, k) /\ Ready(j)
      BY <1>1, <2>1 DEF FromLookup, Ready
    <2> QED BY <1>4, <2>1, <2>2
  <1>10. CASE GetIngress(t)
    <2>1. k.step = "getIngress" /\ HasChosen(t) /\ ingresses' = ingresses
      BY <1>10 DEF GetIngress, At
    <2>2. CASE tasks' = [tasks EXCEPT ![t].step = "putIngress", ![t].fresh = TRUE]
      <3> DEFINE j == [k EXCEPT !.step = "putIngress", !.fresh = TRUE]
      <3>1. /\ j \in Task /\ j.step = "putIngress" /\ j.id = k.id /\ j.row = k.row
            /\ j.secret = k.secret /\ tasks' = [tasks EXCEPT ![t] = j]
        BY <1>1, <2>2 DEF TypeInv, TypeOK, Task, Steps
      <3> HIDE DEF j
      <3>2. FromLookup(j, k) /\ Ready(j)
        BY <1>1, <2>1, <3>1 DEF FromLookup, Ready, HasChosen
      <3> QED BY <1>4, <2>1, <3>1, <3>2
    <2> QED BY <1>3, <1>10, <2>1, <2>2 DEF GetIngress
  <1>11. ASSUME k.step # "insert", NEW ing, NEW ts \in TaskTable, SlotsApt(ts),
                WriteIngress(k.id, k.row.ns, ing, ts),
                ing = None \/ (HasChosen(t) /\ ing = Rendered(k.row, k.secret))
         PROVE  SlotsApt(tasks') /\ IngressesApt
    <2>1. SlotsApt(tasks')
      BY <1>11, SlotsWritten
    <2>2. \A i \in Ids, ns \in Namespaces :
            ingresses'[i][ns] = IF i = k.id /\ ns = k.row.ns THEN ing ELSE ingresses[i][ns]
      BY <1>1, <1>11 DEF WriteIngress, TypeInv, TypeOK
    <2> QED BY <1>1, <1>11, <2>1, <2>2 DEF IngressesApt
  <1>12. CASE CreateIngress(t)
    <2>1. k.step = "createIngress" /\ HasChosen(t)
      BY <1>12 DEF CreateIngress, At
    <2>2. ASSUME NEW s \in {"active", "error"}
          PROVE  \E j \in Task :
                   /\ FromLookup(j, k) /\ Ready(j)
                   /\ [tasks EXCEPT ![t].step = "saveStatus", ![t].row.status = s]
                        = [tasks EXCEPT ![t] = j]
      <3> DEFINE j == [k EXCEPT !.step = "saveStatus", !.row.status = s]
      <3>1. /\ j \in Task /\ j.step = "saveStatus" /\ j.id = k.id /\ j.row.name = k.row.name
            /\ j.secret = k.secret
        BY <1>1 DEF Task, Row, Statuses, Steps
      <3>2. [tasks EXCEPT ![t].step = "saveStatus", ![t].row.status = s] = [tasks EXCEPT ![t] = j]
        BY DEF TypeInv, TypeOK
      <3> HIDE DEF j
      <3>3. FromLookup(j, k) /\ Ready(j)
        BY <1>1, <2>1, <3>1 DEF FromLookup, Ready
      <3> QED BY <3>1, <3>2, <3>3
    <2>3. PICK s \in {"active", "error"} :
            \/ WriteIngress(k.id, k.row.ns, Rendered(k.row, k.secret),
                            [tasks EXCEPT ![t].step = "saveStatus", ![t].row.status = s])
            \/ /\ ingresses' = ingresses
               /\ tasks' = [tasks EXCEPT ![t].step = "saveStatus", ![t].row.status = s]
      BY <1>12 DEF CreateIngress
    <2>4. PICK j \in Task :
            /\ FromLookup(j, k) /\ Ready(j)
            /\ \/ WriteIngress(k.id, k.row.ns, Rendered(k.row, k.secret), [tasks EXCEPT ![t] = j])
               \/ ingresses' = ingresses /\ tasks' = [tasks EXCEPT ![t] = j]
      BY <2>2, <2>3
    <2>5. SlotsApt([tasks EXCEPT ![t] = j]) /\ [tasks EXCEPT ![t] = j] \in TaskTable
      BY <2>4, SlotSet
    <2> QED BY <1>4, <1>11, <2>1, <2>4, <2>5
  <1>13. SlotsApt([tasks EXCEPT ![t] = None]) /\ [tasks EXCEPT ![t] = None] \in TaskTable
    BY SlotSet
  <1>14. CASE PutIngress(t)
    <2>1. k.step = "putIngress" /\ HasChosen(t)
      BY <1>1, <1>14 DEF PutIngress, At, Ready, HasChosen
    <2> QED BY <1>3, <1>11, <1>13, <1>14, <2>1 DEF PutIngress
  <1>15. CASE DeleteIngress(t)
    <2>1. k.step = "deleteIngress"
      BY <1>15 DEF DeleteIngress, At
    <2> QED BY <1>3, <1>11, <1>13, <1>15, <2>1 DEF DeleteIngress
  <1> QED
    BY <1>5, <1>7, <1>8, <1>9, <1>10, <1>12, <1>14, <1>15 DEF Step

LEMMA NextShares ==
    ASSUME "db" \notin Faults, TypeInv, TypeInv', IdentityInv, ShareInv, [Next]_vars
    PROVE  ShareInv'
  <1>1. SlotsApt(tasks') /\ IngressesApt
    <2>1. CASE Restart \/ UNCHANGED vars
      <3>1. ingresses' = ingresses /\ \A u \in Tasks : tasks'[u] \in {tasks[u], None}
        BY <2>1 DEF Restart, vars
      <3> QED BY <3>1 DEF SlotsApt, FromLookup, IngressesApt, ShareInv, TasksApt, Apt, Idle
    <2> QED BY <2>1, BeginApt, StepApt DEF Next, ShareInv
  <1>2. ASSUME NEW t \in Tasks, ~Idle(t), tasks[t].step # "insert"
        PROVE  /\ tasks[t].id \in Ids /\ tasks[t].id < nextId /\ tasks[t].row.name \in Names
               /\ tasks[t].secret # "none" /\ UnderWildcard(tasks[t].id, tasks[t].row.name)
                    => tasks[t].secret = "wildcard"
    <2>1. tasks[t].id \in Ids /\ tasks[t].row.name \in Names
      BY <1>2, AtTask DEF TypeInv, HasId, Row
    <2>2. Carries(tasks[t].id, tasks[t].row.name)
      BY <1>2 DEF Carries
    <2> QED
      BY <1>2, <2>1, <2>2 DEF IdentityInv, FreshIdsUnused, ShareInv, TasksApt, Apt
  <1>3. ASSUME NEW t \in Tasks, ~Idle(t)'
        PROVE  (Apt(tasks[t]) /\ Ready(tasks[t]))'
    <2>1. PICK k, j : k = tasks'[t] /\ j = tasks[t]
      OBVIOUS
    <2>2. FromLookup(k, j) /\ Ready(k)
      BY <1>1, <1>3, <2>1 DEF SlotsApt, Idle
    <2>3. ASSUME k.secret # "none", UnderWildcard(k.id, k.row.name)'
          PROVE  k.secret = "wildcard"
      <3>1. /\ ~Idle(t) /\ j.step # "insert" /\ k.id = j.id /\ k.row.name = j.row.name
            /\ \/ k.secret = j.secret
               \/ k.secret = IF HasWildcard(j.row.name) THEN "wildcard" ELSE "own"
        BY <2>1, <2>2, <2>3 DEF FromLookup, Idle
      <3>2. UnderWildcard(j.id, j.row.name)'
        BY <2>3, <3>1
      <3>3. UnderWildcard(j.id, j.row.name) /\ HasWildcard(j.row.name)
        BY <1>2, <2>1, <3>1, <3>2, UnderKept
      <3> QED
        BY <1>2, <2>1, <2>3, <3>1, <3>3
    <2>4. k.secret # "none" => k.step # "insert"
      BY <2>2 DEF FromLookup
    <2> QED
      BY <2>1, <2>2, <2>3, <2>4 DEF Apt, Ready, UnderWildcard, RowsNamed, Exists
  <1>4. ASSUME NEW i \in Ids, NEW ns \in Namespaces, NEW ing, ing = ingresses'[i][ns],
               ing # None, ing.target \in AutoTargets, UnderWildcard(i, ing.host)'
        PROVE  ing.secret = "wildcard"
    <2>1. CASE ing = ingresses[i][ns]
      <3>1. ing.host \in Names /\ Carries(i, ing.host)
        BY <1>4, <2>1 DEF TypeInv, TypeOK, Ingress, Carries
      <3>2. i < nextId
        BY <3>1 DEF IdentityInv, FreshIdsUnused
      <3>3. UnderWildcard(i, ing.host)
        BY <1>4, <3>1, <3>2, UnderKept
      <3> QED
        BY <1>4, <2>1, <3>3 DEF ShareInv, CoveredShares
    <2>2. ASSUME NEW t \in Tasks, ~Idle(t), tasks[t].step # "insert", tasks[t].id = i, HasChosen(t),
                 ing = Rendered(tasks[t].row, tasks[t].secret)
          PROVE  ing.secret = "wildcard"
      <3>1. /\ ing.host = tasks[t].row.name /\ tasks[t].row.target \in AutoTargets
            /\ ing.secret = tasks[t].secret /\ tasks[t].secret # "none"
        BY <1>4, <2>2 DEF Rendered, HasChosen
      <3>2. ing.host \in Names /\ i < nextId
        BY <1>2, <2>2, <3>1
      <3>3. UnderWildcard(i, ing.host)
        BY <1>4, <3>2, UnderKept
      <3> QED
        BY <1>2, <2>2, <3>1, <3>3
    <2> QED
      BY <1>1, <1>4, <2>1, <2>2 DEF IngressesApt
  <1>5. CoveredShares'
    BY <1>4 DEF CoveredShares, UnderWildcard, RowsNamed, Exists
  <1>6. TasksApt'
    BY <1>3 DEF TasksApt, Apt, Ready
  <1> QED
    BY <1>5, <1>6 DEF ShareInv

\* While no lookup fails, a domain created after its wildcard is never served
\* with a Secret of its own, however the goroutines of the two interleave, and
\* whatever calls to the cluster fail.
THEOREM CoveredDomainsShare ==
    ASSUME "db" \notin Faults
    PROVE  Spec => []CoveredShares
  <1>1. Init => ShareInv
    BY DEF Init, ShareInv, CoveredShares, TasksApt, Idle
  <1>2. Init => IdentityInv
    BY DEF Init, IdentityInv, OneIdentity, FreshIdsUnused, Carries, Exists, Idle
  <1>3. TypeInv /\ IdentityInv /\ ShareInv /\ [Next]_vars => ShareInv'
    BY NextShares, NextType
  <1>4. ShareInv => CoveredShares
    BY DEF ShareInv
  <1> QED
    BY <1>1, <1>2, <1>3, <1>4, NextIdentity, TypeCorrect, PTL DEF Spec

=============================================================================
