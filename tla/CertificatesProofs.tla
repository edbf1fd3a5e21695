------------------------- MODULE CertificatesProofs -------------------------
(***************************************************************************)
(* Proofs about Certificates, for every set of domains and slots, every    *)
(* number of ids and certificates, every set of operations and every set   *)
(* of faults, but where a theorem says otherwise.                          *)
(***************************************************************************)
EXTENDS Certificates, TLAPS

TaskTable == [Tasks -> Task \cup {None}]

\* A task that has a certificate in hand: the model starts no other.
NeedsPem == {"insertCert", "linkCert", "createSecret", "saveCert"}
HasPem(ts) == \A t \in Tasks : ts[t] # None /\ ts[t].step \in NeedsPem => ts[t].pem \in Pems

TypeInv == TypeOK /\ HasPem(tasks)

-----------------------------------------------------------------------------
(* The slots                                                               *)

\* A slot that is at a step holds a task.
LEMMA AtTask ==
    ASSUME TypeInv, NEW t \in Tasks, ~Idle(t)
    PROVE  /\ tasks[t] \in Task /\ tasks[t].domain \in Domain
           /\ tasks[t].step \in NeedsPem => tasks[t].pem \in Pems
  BY DEF TypeInv, TypeOK, HasPem, Idle, Task

\* Every step of a slot is a step of a task in it.
LEMMA StepTask ==
    ASSUME NEW t \in Tasks, Step(t)
    PROVE  ~Idle(t)
  BY DEF Step, Obtain, InsertCert, LinkCert, CreateSecret, GetIngress, PutIngress, Renew,
         SaveCert, DeleteCert, DeleteSecret, SaveDomain, At

\* Putting a task with all it needs into a slot, or none, keeps the types.
LEMMA PutType ==
    ASSUME TypeInv, NEW t \in Tasks, NEW j \in Task \cup {None},
           j # None /\ j.step \in NeedsPem => j.pem \in Pems
    PROVE  [tasks EXCEPT ![t] = j] \in TaskTable /\ HasPem([tasks EXCEPT ![t] = j])
  BY DEF TypeInv, TypeOK, TaskTable, HasPem

\* The types of the tasks are one part of those of the state, and the rest is
\* the other.
StateOK ==
    /\ domains \in [Names -> Domain]
    /\ certs \in [Ids -> Cert \cup {None}]
    /\ nextId \in 1..(MaxId + 1)
    /\ issued \in Seq(Names) /\ Len(issued) <= MaxPem
    /\ secrets \in [Names -> Pems \cup {None}]
    /\ tls \in [Names -> TlsSections]
    /\ foreignKeys \in BOOLEAN

LEMMA TypeParts ==
    /\ TypeInv => StateOK /\ tasks \in TaskTable /\ HasPem(tasks)
    /\ StateOK' /\ tasks' \in TaskTable /\ HasPem(tasks') => TypeInv'
  BY DEF TypeInv, TypeOK, StateOK, TaskTable, HasPem

LEMMA EndType ==
    ASSUME TypeInv, NEW t \in Tasks, End(t)
    PROVE  tasks' \in TaskTable /\ HasPem(tasks')
  BY PutType DEF End

LEMMA GotoType ==
    ASSUME TypeInv, NEW t \in Tasks, ~Idle(t), NEW step \in Steps, Goto(t, step),
           step \in NeedsPem => tasks[t].step \in NeedsPem
    PROVE  tasks' \in TaskTable /\ HasPem(tasks')
  <1> DEFINE j == [tasks[t] EXCEPT !.step = step]
  <1>1. tasks[t] \in Task
    BY AtTask
  <1>2. j \in Task /\ j.step = step /\ j.pem = tasks[t].pem
    BY <1>1 DEF Task
  <1>3. tasks' = [tasks EXCEPT ![t] = j]
    BY DEF Goto, TypeInv, TypeOK
  <1>4. QED
    BY <1>2, <1>3, AtTask, PutType

\* Refusing an update that has read an old Ingress only clears its flag.
LEMMA OutdatedKeeps ==
    ASSUME NEW ts \in TaskTable, NEW n
    PROVE  /\ Outdated(ts, n) \in TaskTable
           /\ \A t \in Tasks :
                 \/ Outdated(ts, n)[t] = ts[t]
                 \/ ts[t] \in Task /\ Outdated(ts, n)[t] = [ts[t] EXCEPT !.fresh = FALSE]
  <1> DEFINE o == Outdated(ts, n)
  <1>1. ASSUME NEW t \in Tasks
        PROVE  /\ o[t] \in Task \cup {None}
               /\ \/ o[t] = ts[t]
                  \/ ts[t] \in Task /\ o[t] = [ts[t] EXCEPT !.fresh = FALSE]
    <2>1. CASE ts[t] # None /\ ts[t].step = "putIngress" /\ ts[t].name = n
      <3>1. ts[t] \in Task
        BY <2>1 DEF TaskTable
      <3>2. o[t] = [ts[t] EXCEPT !.fresh = FALSE]
        BY <2>1 DEF Outdated
      <3>3. [ts[t] EXCEPT !.fresh = FALSE] \in Task
        BY <3>1 DEF Task
      <3> QED BY <3>1, <3>2, <3>3
    <2>2. CASE ~(ts[t] # None /\ ts[t].step = "putIngress" /\ ts[t].name = n)
      <3>1. o[t] = ts[t]
        BY <2>2 DEF Outdated
      <3> QED BY <3>1 DEF TaskTable
    <2> QED BY <2>1, <2>2
  <1>2. o = [t \in Tasks |-> o[t]]
    BY DEF Outdated
  <1>3. o \in TaskTable
    BY <1>1, <1>2 DEF TaskTable
  <1>4. QED
    BY <1>1, <1>3

\* A new task has the type of one.
LEMMA NewTaskType ==
    ASSUME TypeOK, NEW step \in Steps, NEW n \in Names, NEW i \in 0..MaxId,
           NEW source \in Sources, NEW pem \in 0..MaxPem
    PROVE  /\ NewTask(step, n, i, source, pem) \in Task
           /\ NewTask(step, n, i, source, pem).step = step
           /\ NewTask(step, n, i, source, pem).pem = pem
  BY DEF NewTask, Task, TypeOK

\* A certificate's row, read as a task's copies.
LEMMA CertRow ==
    ASSUME TypeOK, NEW i \in Ids, Exists(i)
    PROVE  /\ certs[i] \in Cert /\ i \in 0..MaxId
           /\ certs[i].name \in Names /\ certs[i].source \in Sources
           /\ certs[i].pem \in Pems /\ certs[i].pem \in 0..MaxPem
  BY CertificatesAssumption DEF TypeOK, Exists, Cert, Ids, Pems

LEMMA IssueType ==
    ASSUME TypeOK, NEW n \in Names, Issue(n)
    PROVE  /\ issued' \in Seq(Names) /\ Len(issued') <= MaxPem
           /\ Len(issued) + 1 \in Pems /\ Len(issued) + 1 \in 0..MaxPem
  BY CertificatesAssumption DEF TypeOK, Issue, Pems

-----------------------------------------------------------------------------
(* Type correctness                                                        *)

LEMMA InitType == Init => TypeInv
  <1> SUFFICES ASSUME Init
               PROVE  TypeInv
    OBVIOUS
  <1>1. domains \in [Names -> Domain]
    BY CertificatesAssumption DEF Init, Domain
  <1>2. tls \in [Names -> TlsSections]
    BY DEF Init, TlsSections
  <1>3. QED
    BY <1>1, <1>2, CertificatesAssumption DEF Init, TypeInv, TypeOK, HasPem

LEMMA BeginType ==
    ASSUME TypeInv, Begin
    PROVE  TypeInv'
  <1>0. StateOK /\ TypeOK /\ ((UNCHANGED <<domains, certs, nextId, issued, secrets, tls, foreignKeys>>) => StateOK')
    BY TypeParts DEF StateOK, TypeInv
  <1>1. ASSUME NEW t \in Tasks, NEW n \in Names, BeginUpload(t, n)
        PROVE  TypeInv'
    <2> DEFINE j == NewTask("insertCert", n, 0, "manual", Len(issued) + 1)
    <2>1. j \in Task /\ j.pem \in Pems
      BY <1>0, <1>1, NewTaskType, IssueType, CertificatesAssumption DEF BeginUpload, Steps, Sources
    <2>2. tasks' = [tasks EXCEPT ![t] = j]
      BY <1>1 DEF BeginUpload
    <2>3. StateOK'
      BY <1>0, <1>1, IssueType DEF BeginUpload, StateOK
    <2> QED BY <2>1, <2>2, <2>3, PutType, TypeParts
  <1>2. ASSUME NEW t \in Tasks, NEW n \in Names, BeginObtain(t, n)
        PROVE  TypeInv'
    <2> DEFINE j == NewTask("obtain", n, 0, "letsencrypt", 0)
    <2>1. j \in Task /\ j.step \notin NeedsPem
      BY <1>0, <1>2, NewTaskType, CertificatesAssumption DEF Steps, Sources, NeedsPem
    <2>2. tasks' = [tasks EXCEPT ![t] = j]
      BY <1>2 DEF BeginObtain
    <2> QED BY <1>0, <1>2, <2>1, <2>2, PutType, TypeParts DEF BeginObtain
  <1>3. ASSUME NEW t \in Tasks, NEW n \in Names, BeginUpdateDomain(t, n)
        PROVE  TypeInv'
    <2> DEFINE k == NewTask("saveDomain", n, 0, "manual", 0)
    <2>1. PICK s \in SslModes : tasks' = [tasks EXCEPT ![t] = [k EXCEPT !.domain.ssl = s]]
      BY <1>3 DEF BeginUpdateDomain
    <2>2. k \in Task /\ k.step = "saveDomain"
      BY <1>0, NewTaskType, CertificatesAssumption DEF Steps, Sources
    <2>3. [k EXCEPT !.domain.ssl = s] \in Task
      BY <2>2 DEF Task, Domain
    <2>4. [k EXCEPT !.domain.ssl = s].step = "saveDomain"
      BY <2>2 DEF Task
    <2> QED BY <1>0, <1>3, <2>1, <2>3, <2>4, PutType, TypeParts DEF BeginUpdateDomain, NeedsPem
  <1>4. ASSUME NEW t \in Tasks, NEW i \in Ids, BeginRenew(t, i)
        PROVE  TypeInv'
    <2> DEFINE j == NewTask("renew", certs[i].name, i, certs[i].source, certs[i].pem)
    <2>1. Exists(i)
      BY <1>4 DEF BeginRenew, Renewable
    <2>2. j \in Task /\ j.step \notin NeedsPem
      BY <1>0, <2>1, NewTaskType, CertRow DEF Steps, NeedsPem
    <2>3. tasks' = [tasks EXCEPT ![t] = j]
      BY <1>4 DEF BeginRenew
    <2> QED BY <1>0, <1>4, <2>2, <2>3, PutType, TypeParts DEF BeginRenew
  <1>5. ASSUME NEW t \in Tasks, NEW u \in Tasks, NEW i \in Ids, BeginDelete(t, u, i)
        PROVE  TypeInv'
    <2> DEFINE j(step) == NewTask(step, certs[i].name, i, certs[i].source, certs[i].pem)
    <2>1. Exists(i)
      BY <1>5 DEF BeginDelete
    <2>2. ASSUME NEW step \in {"deleteCert", "deleteSecret"}
          PROVE  j(step) \in Task /\ j(step).step \notin NeedsPem
      BY <1>0, <2>1, NewTaskType, CertRow DEF Steps, NeedsPem
    <2>3. tasks' = [tasks EXCEPT ![t] = j("deleteCert"), ![u] = j("deleteSecret")]
      BY <1>5 DEF BeginDelete
    <2>4. tasks' \in TaskTable /\ HasPem(tasks')
      BY <1>0, <2>2, <2>3 DEF TypeInv, TypeOK, TaskTable, HasPem
    <2> QED BY <1>0, <1>5, <2>4, TypeParts DEF BeginDelete
  <1>6. QED
    BY <1>1, <1>2, <1>3, <1>4, <1>5 DEF Begin, BeginAbout, BeginWith

\* The statements keep the types of the tables.
LEMMA RepoCreateType ==
    ASSUME StateOK, NEW cert \in Cert, RepoCreate(cert)
    PROVE  /\ certs' \in [Ids -> Cert \cup {None}]
           /\ nextId' \in 1..(MaxId + 1)
           /\ nextId \in Ids /\ nextId \in 0..MaxId
  BY CertificatesAssumption DEF StateOK, RepoCreate, FreshId, Ids

LEMMA RepoUpdateType ==
    ASSUME StateOK, NEW i, NEW pem \in Pems, RepoUpdate(i, pem)
    PROVE  certs' \in [Ids -> Cert \cup {None}] /\ nextId' = nextId
  <1>1. CASE i \in Ids /\ Exists(i)
    <2>1. certs[i] \in Cert
      BY <1>1 DEF StateOK, Exists
    <2>2. [certs[i] EXCEPT !.pem = pem] \in Cert
      BY <2>1 DEF Cert
    <2>3. certs' = [certs EXCEPT ![i] = [certs[i] EXCEPT !.pem = pem]]
      BY <1>1 DEF RepoUpdate, StateOK
    <2>4. QED
      BY <2>2, <2>3 DEF RepoUpdate, StateOK
  <1>2. CASE ~(i \in Ids /\ Exists(i))
    BY <1>2 DEF RepoUpdate, StateOK
  <1>3. QED
    BY <1>1, <1>2

LEMMA UnlinkedType ==
    ASSUME StateOK, NEW i
    PROVE  Unlinked(i) \in [Names -> Domain]
  <1>1. ASSUME NEW n \in Names
        PROVE  [domains[n] EXCEPT !.cert = 0] \in Domain
    <2>1. domains[n] \in Domain /\ 0 \in 0..MaxId
      BY CertificatesAssumption DEF StateOK
    <2> QED BY <2>1 DEF Domain
  <1>2. QED
    BY <1>1 DEF Unlinked, StateOK

\* A task moves on with what it has learnt.
LEMMA LearnsType ==
    ASSUME TypeInv, NEW t \in Tasks, ~Idle(t), NEW step \in Steps, NEW pem \in Pems,
           pem \in 0..MaxPem,
           tasks' = [tasks EXCEPT ![t].step = step, ![t].pem = pem]
    PROVE  tasks' \in TaskTable /\ HasPem(tasks')
  <1> DEFINE j == [tasks[t] EXCEPT !.step = step, !.pem = pem]
  <1>1. tasks[t] \in Task
    BY AtTask
  <1>2. j \in Task /\ j.pem = pem
    BY <1>1 DEF Task
  <1>3. tasks' = [tasks EXCEPT ![t] = j]
    BY DEF TypeInv, TypeOK
  <1>4. PICK m \in Task : m.pem \in Pems /\ tasks' = [tasks EXCEPT ![t] = m]
    BY <1>2, <1>3
  <1>5. QED
    BY <1>4, PutType

LEMMA StepType ==
    ASSUME TypeInv, NEW t \in Tasks, Step(t)
    PROVE  TypeInv'
  <1> DEFINE k == tasks[t]
             SlotsOK == tasks' \in TaskTable /\ HasPem(tasks')
  <1>0. /\ StateOK /\ TypeOK /\ tasks \in TaskTable
        /\ ~Idle(t) /\ k \in Task /\ k.domain \in Domain
        /\ k.name \in Names /\ k.id \in 0..MaxId /\ k.source \in Sources
        /\ k.step \in NeedsPem => k.pem \in Pems
    BY AtTask, StepTask, TypeParts DEF Task, TypeInv
  <1>e. End(t) => SlotsOK
    BY EndType
  <1>g. \A step \in Steps :
          Goto(t, step) /\ (step \in NeedsPem => k.step \in NeedsPem) => SlotsOK
    BY <1>0, GotoType
  <1>1. CASE Obtain(t)
    <2>1. CASE /\ Issue(k.name)
               /\ tasks' = [tasks EXCEPT ![t].step = "insertCert", ![t].pem = Len(issued) + 1]
      <3>1. SlotsOK
        BY <1>0, <2>1, IssueType, LearnsType DEF Steps
      <3> QED BY <1>0, <1>1, <2>1, <3>1, IssueType, TypeParts DEF Obtain, StateOK
    <2>2. CASE End(t) /\ UNCHANGED issued
      BY <1>0, <1>1, <1>e, <2>2, TypeParts DEF Obtain, StateOK
    <2> QED BY <1>1, <2>1, <2>2 DEF Obtain
  <1>2. CASE InsertCert(t)
    <2> DEFINE row == [name |-> k.name, source |-> k.source, pem |-> k.pem]
    <2>0. k.pem \in Pems
      BY <1>0, <1>2 DEF InsertCert, At, NeedsPem
    <2>1. CASE /\ RepoCreate(row)
               /\ tasks' = [tasks EXCEPT ![t].step = "linkCert", ![t].id = FreshId]
      <3> DEFINE j == [k EXCEPT !.step = "linkCert", !.id = FreshId]
      <3>1. row \in Cert
        BY <1>0, <2>0 DEF Cert
      <3>2. /\ certs' \in [Ids -> Cert \cup {None}] /\ nextId' \in 1..(MaxId + 1)
            /\ nextId \in 0..MaxId
        BY <1>0, <2>1, <3>1, RepoCreateType
      <3>3. j \in Task /\ j.pem \in Pems
        BY <1>0, <2>0, <3>2 DEF Task, Steps, FreshId
      <3>4. tasks' = [tasks EXCEPT ![t] = j]
        BY <1>0, <2>1 DEF TaskTable
      <3>5. SlotsOK
        BY <3>3, <3>4, PutType
      <3> QED BY <1>0, <1>2, <3>2, <3>5, TypeParts DEF InsertCert, StateOK
    <2>2. CASE UNCHANGED <<certs, nextId>> /\ End(t)
      BY <1>0, <1>2, <1>e, <2>2, TypeParts DEF InsertCert, StateOK
    <2> QED BY <1>2, <2>1, <2>2 DEF InsertCert
  <1>3. CASE LinkCert(t)
    <2> DEFINE row == [k.domain EXCEPT !.cert = k.id]
    <2>1. row \in Domain
      BY <1>0 DEF Domain
    <2>2. domains' \in [Names -> Domain]
      BY <1>0, <1>3, <2>1 DEF LinkCert, SaveRow, StateOK
    <2>3. SlotsOK
      BY <1>0, <1>3, <1>g DEF LinkCert, At, Steps, NeedsPem
    <2> QED BY <1>0, <1>3, <2>2, <2>3, TypeParts DEF LinkCert, StateOK
  <1>4. CASE CreateSecret(t)
    <2>1. k.pem \in Pems
      BY <1>0, <1>4 DEF CreateSecret, At, NeedsPem
    <2>2. secrets' \in [Names -> Pems \cup {None}]
      BY <1>0, <1>4, <2>1 DEF CreateSecret, StateOK
    <2>3. SlotsOK
      BY <1>4, <1>e, <1>g DEF CreateSecret, Steps, NeedsPem
    <2> QED BY <1>0, <1>4, <2>2, <2>3, TypeParts DEF CreateSecret, StateOK
  <1>5. CASE GetIngress(t)
    <2>1. CASE tasks' = [tasks EXCEPT ![t].step = "putIngress", ![t].fresh = TRUE]
      <3> DEFINE j == [k EXCEPT !.step = "putIngress", !.fresh = TRUE]
      <3>1. j \in Task /\ j.step = "putIngress"
        BY <1>0 DEF Task, Steps
      <3>2. tasks' = [tasks EXCEPT ![t] = j]
        BY <1>0, <2>1 DEF TaskTable
      <3>3. SlotsOK
        BY <3>1, <3>2, PutType DEF NeedsPem
      <3> QED BY <1>0, <1>5, <3>3, TypeParts DEF GetIngress, StateOK
    <2>2. CASE End(t)
      BY <1>0, <1>5, <1>e, <2>2, TypeParts DEF GetIngress, StateOK
    <2> QED BY <1>5, <2>1, <2>2 DEF GetIngress
  <1>6. CASE PutIngress(t)
    <2> DEFINE ended == [tasks EXCEPT ![t] = None]
    <2>1. ended \in TaskTable /\ HasPem(ended)
      BY PutType
    <2>2. Outdated(ended, k.name) \in TaskTable /\ HasPem(Outdated(ended, k.name))
      <3>1. ASSUME NEW u \in Tasks, Outdated(ended, k.name)[u] # None,
                   Outdated(ended, k.name)[u].step \in NeedsPem
            PROVE  Outdated(ended, k.name)[u].pem \in Pems
        <4>1. CASE Outdated(ended, k.name)[u] = ended[u]
          BY <2>1, <3>1, <4>1 DEF HasPem
        <4>2. CASE /\ ended[u] \in Task
                   /\ Outdated(ended, k.name)[u] = [ended[u] EXCEPT !.fresh = FALSE]
          BY <2>1, <3>1, <4>2, CertificatesAssumption DEF HasPem, Task
        <4> QED BY <2>1, <4>1, <4>2, OutdatedKeeps
      <3> QED BY <2>1, <3>1, OutdatedKeeps DEF HasPem
    <2>3. SlotsOK
      BY <1>6, <2>1, <2>2 DEF PutIngress
    <2>4. tls' \in [Names -> TlsSections]
      BY <1>0, <1>6 DEF PutIngress, Rendered, TlsSections, StateOK
    <2> QED BY <1>0, <1>6, <2>3, <2>4, TypeParts DEF PutIngress, StateOK
  <1>7. CASE Renew(t)
    <2>1. CASE /\ Issue(k.name)
               /\ tasks' = [tasks EXCEPT ![t].step = "saveCert", ![t].pem = Len(issued) + 1]
      <3>1. SlotsOK
        BY <1>0, <2>1, IssueType, LearnsType DEF Steps
      <3> QED BY <1>0, <1>7, <2>1, <3>1, IssueType, TypeParts DEF Renew, StateOK
    <2>2. CASE End(t) /\ UNCHANGED issued
      BY <1>0, <1>7, <1>e, <2>2, TypeParts DEF Renew, StateOK
    <2> QED BY <1>7, <2>1, <2>2 DEF Renew
  <1>8. CASE SaveCert(t)
    <2>1. k.pem \in Pems
      BY <1>0, <1>8 DEF SaveCert, At, NeedsPem
    <2>2. certs' \in [Ids -> Cert \cup {None}] /\ nextId' = nextId
      BY <1>0, <1>8, <2>1, RepoUpdateType DEF SaveCert, StateOK
    <2>3. SlotsOK
      BY <1>8, <1>e, <1>g DEF SaveCert, At, Steps, NeedsPem
    <2> QED BY <1>0, <1>8, <2>2, <2>3, TypeParts DEF SaveCert, StateOK
  <1>9. CASE DeleteCert(t)
    <2>1. /\ certs' \in [Ids -> Cert \cup {None}] /\ nextId' = nextId
          /\ domains' \in [Names -> Domain]
      BY <1>0, <1>9, UnlinkedType DEF DeleteCert, RepoDelete, StateOK
    <2> QED BY <1>0, <1>9, <1>e, <2>1, TypeParts DEF DeleteCert, StateOK
  <1>10. CASE DeleteSecret(t)
    <2>1. secrets' \in [Names -> Pems \cup {None}]
      BY <1>0, <1>10 DEF DeleteSecret, StateOK
    <2> QED BY <1>0, <1>10, <1>e, <2>1, TypeParts DEF DeleteSecret, StateOK
  <1>11. CASE SaveDomain(t)
    <2>1. domains' \in [Names -> Domain]
      BY <1>0, <1>11 DEF SaveDomain, SaveRow, StateOK
    <2>2. SlotsOK
      BY <1>11, <1>e, <1>g DEF SaveDomain, Steps, NeedsPem
    <2> QED BY <1>0, <1>11, <2>1, <2>2, TypeParts DEF SaveDomain, StateOK
  <1> QED BY <1>1, <1>2, <1>3, <1>4, <1>5, <1>6, <1>7, <1>8, <1>9, <1>10, <1>11 DEF Step

LEMMA NextType == TypeInv /\ [Next]_vars => TypeInv'
  <1> SUFFICES ASSUME TypeInv, [Next]_vars
               PROVE  TypeInv'
    OBVIOUS
  <1>1. CASE Recycle
    BY <1>1, TypeParts DEF Recycle, StateOK
  <1>2. CASE Restart
    <2>1. tasks' \in TaskTable /\ HasPem(tasks')
      BY <1>2 DEF Restart, TaskTable, HasPem
    <2> QED BY <1>2, <2>1, TypeParts DEF Restart, StateOK
  <1>3. CASE UNCHANGED vars
    BY <1>3, TypeParts DEF vars, StateOK
  <1>4. QED
    BY <1>1, <1>2, <1>3, BeginType, StepType DEF Next

THEOREM TypeCorrect == Spec => []TypeInv
  <1>1. QED
    BY InitType, NextType, PTL DEF Spec

\* Every variable of Certificates keeps its type, whatever is interleaved.
THEOREM TypeCorrectness == Spec => []TypeOK
  <1>1. TypeInv => TypeOK
    BY DEF TypeInv
  <1>2. QED
    BY <1>1, TypeCorrect, PTL

-----------------------------------------------------------------------------
(* What a step may do to the rows of certificates, and to what is issued   *)

\* A row keeps its name and source, and a new one has the next id.
RowsKept ==
    /\ nextId' \in {nextId, nextId + 1}
    /\ \A i \in Ids : i < nextId /\ certs'[i] # None =>
          Exists(i) /\ certs'[i].name = certs[i].name /\ certs'[i].source = certs[i].source

IssuedKept ==
    /\ Len(issued') >= Len(issued)
    /\ \A p \in Pems : p <= Len(issued) => issued'[p] = issued[p]

LEMMA UpdateKeepsRows ==
    ASSUME TypeInv, NEW i, NEW pem \in Pems, RepoUpdate(i, pem)
    PROVE  \A j \in Ids : /\ (certs'[j] # None) <=> Exists(j)
                          /\ Exists(j) => /\ certs'[j].name = certs[j].name
                                          /\ certs'[j].source = certs[j].source
                          /\ j # i => certs'[j] = certs[j]
                          /\ j = i /\ Exists(j) => certs'[j].pem = pem
  <1>0. StateOK
    BY TypeParts
  <1>1. CASE i \in Ids /\ Exists(i)
    <2>1. certs[i] \in Cert
      BY <1>0, <1>1 DEF StateOK, Exists
    <2>2. PICK row \in Cert : /\ row.name = certs[i].name /\ row.source = certs[i].source
                              /\ row.pem = pem
                              /\ row = [certs[i] EXCEPT !.pem = pem]
      BY <2>1 DEF Cert
    <2>3. certs' = [certs EXCEPT ![i] = row]
      BY <1>0, <1>1, <2>2 DEF RepoUpdate, StateOK
    <2>4. QED
      BY <1>0, <1>1, <2>2, <2>3, CertificatesAssumption DEF StateOK, Exists
  <1>2. CASE ~(i \in Ids /\ Exists(i))
    BY <1>2 DEF RepoUpdate, Exists
  <1>3. QED
    BY <1>1, <1>2

LEMMA IssueKeeps ==
    ASSUME TypeInv, NEW n \in Names, Issue(n)
    PROVE  /\ IssuedKept
           /\ Len(issued') = Len(issued) + 1
           /\ issued'[Len(issued) + 1] = n
  BY TypeParts DEF StateOK, Issue, IssuedKept, Pems

LEMMA NextKeeps ==
    ASSUME TypeInv, [Next]_vars
    PROVE  RowsKept /\ IssuedKept
  <1>0. StateOK /\ TypeOK
    BY TypeParts DEF TypeInv
  <1>1. UNCHANGED <<certs, nextId>> => RowsKept
    BY DEF RowsKept, Exists
  <1>2. UNCHANGED issued => IssuedKept
    BY <1>0 DEF IssuedKept, StateOK
  <1>3. ASSUME NEW t \in Tasks, Step(t)
        PROVE  RowsKept /\ IssuedKept
    <2> DEFINE k == tasks[t]
    <2>0. ~Idle(t) /\ k.name \in Names /\ (k.step \in NeedsPem => k.pem \in Pems)
      BY <1>3, AtTask, StepTask DEF Task
    <2>1. CASE InsertCert(t)
      <3>1. CASE RepoCreate([name |-> k.name, source |-> k.source, pem |-> k.pem])
        <4>1. nextId' = nextId + 1 /\ \A i \in Ids : i # nextId => certs'[i] = certs[i]
          BY <1>0, <3>1 DEF RepoCreate, FreshId, StateOK
        <4>2. \A i \in Ids : i < nextId => i # nextId
          BY DEF Ids
        <4> QED BY <1>2, <2>1, <4>1, <4>2 DEF RowsKept, Exists, InsertCert
      <3>2. CASE UNCHANGED <<certs, nextId>>
        BY <1>1, <1>2, <2>1, <3>2 DEF InsertCert
      <3> QED BY <2>1, <3>1, <3>2 DEF InsertCert
    <2>2. CASE SaveCert(t)
      <3>1. k.pem \in Pems
        BY <2>0, <2>2 DEF SaveCert, At, NeedsPem
      <3>2. CASE RepoUpdate(k.id, k.pem)
        <4>1. nextId' = nextId
          BY <3>2 DEF RepoUpdate
        <4> QED BY <1>2, <2>2, <3>1, <3>2, <4>1, UpdateKeepsRows DEF RowsKept, SaveCert
      <3>3. CASE UNCHANGED <<certs, nextId>>
        BY <1>1, <1>2, <2>2, <3>3 DEF SaveCert
      <3> QED BY <2>2, <3>2, <3>3 DEF SaveCert
    <2>3. CASE DeleteCert(t)
      <3>1. CASE RepoDelete(k.id)
        BY <1>0, <1>2, <2>3, <3>1 DEF RepoDelete, RowsKept, Exists, DeleteCert, StateOK
      <3>2. CASE UNCHANGED <<domains, certs, nextId>>
        BY <1>1, <1>2, <2>3, <3>2 DEF DeleteCert
      <3> QED BY <2>3, <3>1, <3>2 DEF DeleteCert
    <2>4. CASE Obtain(t) \/ Renew(t)
      BY <1>1, <1>2, <2>0, <2>4, IssueKeeps DEF Obtain, Renew
    <2>5. CASE LinkCert(t) \/ CreateSecret(t) \/ GetIngress(t) \/ PutIngress(t)
               \/ DeleteSecret(t) \/ SaveDomain(t)
      BY <1>1, <1>2, <2>5 DEF LinkCert, CreateSecret, GetIngress, PutIngress, DeleteSecret,
                              SaveDomain
    <2> QED BY <1>3, <2>1, <2>2, <2>3, <2>4, <2>5 DEF Step
  <1>4. CASE Begin
    BY <1>1, <1>2, <1>4, IssueKeeps
       DEF Begin, BeginAbout, BeginWith, BeginUpload, BeginObtain, BeginUpdateDomain,
           BeginRenew, BeginDelete
  <1>5. CASE Recycle \/ Restart \/ UNCHANGED vars
    BY <1>1, <1>2, <1>5 DEF Recycle, Restart, vars
  <1>6. QED
    BY <1>3, <1>4, <1>5 DEF Next

-----------------------------------------------------------------------------
(* Foreign keys                                                            *)

\* While the connection enforces them, a reference that holds goes on to
\* hold: only a delete removes a row, and it clears the references to it; and
\* a row that is written back must refer to one that is there.
THEOREM ReferencesHold == Spec => NoReferenceBreaks
  <1> DEFINE A == foreignKeys => \A n \in Names : ~Dangles(n) => ~Dangles(n)'
  <1>1. TypeInv /\ [Next]_vars => [A]_vars
    <2> SUFFICES ASSUME TypeInv, Next, foreignKeys, NEW n \in Names, ~Dangles(n)
                 PROVE  ~Dangles(n)'
      OBVIOUS
    <2>0. StateOK /\ TypeOK
      BY TypeParts DEF TypeInv
    <2>1. CASE /\ domains'[n].cert = domains[n].cert
               /\ \A i \in Ids : Exists(i) => Exists(i)'
      BY <2>1 DEF Dangles
    <2>2. CASE UNCHANGED <<domains, certs>>
      BY <2>1, <2>2 DEF Exists
    <2>3. ASSUME NEW m \in Names, NEW row \in Domain, SaveRow(m, row), UNCHANGED certs
          PROVE  ~Dangles(n)'
      <3>1. row.cert \in {0} \cup {j \in Ids : Exists(j)}
        BY <2>3 DEF SaveRow, MayRefer
      <3>2. CASE m = n
        <4>1. domains'[n] = row
          BY <2>0, <2>3, <3>2 DEF SaveRow, StateOK
        <4> QED BY <2>3, <3>1, <4>1 DEF Dangles, Exists
      <3>3. CASE m # n
        <4>1. domains'[n] = domains[n]
          BY <2>0, <2>3, <3>3 DEF SaveRow, StateOK
        <4> QED BY <2>1, <2>3, <4>1 DEF Exists
      <3> QED BY <3>2, <3>3
    <2>4. ASSUME NEW t \in Tasks, Step(t)
          PROVE  ~Dangles(n)'
      <3> DEFINE k == tasks[t]
      <3>0. /\ k.name \in Names /\ k.domain \in Domain /\ k.id \in 0..MaxId
            /\ k.step \in NeedsPem => k.pem \in Pems
        BY <2>4, AtTask, StepTask DEF Task
      <3>1. CASE InsertCert(t)
        <4>1. CASE RepoCreate([name |-> k.name, source |-> k.source, pem |-> k.pem])
          <5>1. [name |-> k.name, source |-> k.source, pem |-> k.pem] \in Cert
            BY <2>4, <3>0, <3>1, AtTask, StepTask DEF Cert, Task, InsertCert, At, NeedsPem
          <5>2. \A i \in Ids : Exists(i) => Exists(i)'
            BY <2>0, <4>1, <5>1, CertificatesAssumption DEF RepoCreate, StateOK, Exists
          <5> QED BY <2>1, <3>1, <5>2 DEF InsertCert
        <4>2. CASE UNCHANGED <<certs, nextId>>
          BY <2>2, <3>1, <4>2 DEF InsertCert
        <4> QED BY <3>1, <4>1, <4>2 DEF InsertCert
      <3>2. CASE LinkCert(t)
        <4>1. [k.domain EXCEPT !.cert = k.id] \in Domain
          BY <3>0 DEF Domain
        <4> QED BY <2>2, <2>3, <3>0, <3>2, <4>1 DEF LinkCert
      <3>3. CASE SaveDomain(t)
        BY <2>2, <2>3, <3>0, <3>3 DEF SaveDomain
      <3>4. CASE SaveCert(t)
        <4>1. CASE RepoUpdate(k.id, k.pem)
          <5>1. \A i \in Ids : Exists(i) => Exists(i)'
            BY <3>0, <3>4, <4>1, UpdateKeepsRows DEF SaveCert, At, NeedsPem, Exists
          <5> QED BY <2>1, <3>4, <5>1 DEF SaveCert
        <4>2. CASE UNCHANGED <<certs, nextId>>
          BY <2>2, <3>4, <4>2 DEF SaveCert
        <4> QED BY <3>4, <4>1, <4>2 DEF SaveCert
      <3>5. CASE DeleteCert(t)
        <4>1. CASE RepoDelete(k.id)
          <5>1. \A i \in Ids : i # k.id => certs'[i] = certs[i]
            BY <2>0, <4>1 DEF RepoDelete, StateOK
          <5>2. CASE domains[n].cert = k.id /\ Exists(k.id)
            <6>1. domains'[n] = [domains[n] EXCEPT !.cert = 0]
              BY <4>1, <5>2 DEF RepoDelete, Unlinked
            <6>2. domains'[n].cert = 0
              BY <2>0, <6>1 DEF StateOK, Domain
            <6> QED BY <6>2 DEF Dangles
          <5>3. CASE domains[n].cert # k.id \/ ~Exists(k.id)
            <6>1. domains'[n] = domains[n]
              BY <4>1, <5>3 DEF RepoDelete, Unlinked
            <6>2. domains[n].cert # 0 => domains[n].cert \in Ids /\ Exists(domains[n].cert)
              BY DEF Dangles
            <6>3. domains[n].cert # 0 => domains[n].cert # k.id
              BY <5>3, <6>2
            <6> QED BY <5>1, <6>1, <6>2, <6>3 DEF Dangles, Exists
          <5> QED BY <5>2, <5>3
        <4>2. CASE UNCHANGED <<domains, certs, nextId>>
          BY <2>2, <4>2
        <4> QED BY <3>5, <4>1, <4>2 DEF DeleteCert
      <3>6. CASE Obtain(t) \/ CreateSecret(t) \/ GetIngress(t) \/ PutIngress(t)
                 \/ Renew(t) \/ DeleteSecret(t)
        BY <2>2, <3>6 DEF Obtain, CreateSecret, GetIngress, PutIngress, Renew, DeleteSecret
      <3> QED BY <2>4, <3>1, <3>2, <3>3, <3>4, <3>5, <3>6 DEF Step
    <2>5. CASE Begin \/ Recycle \/ Restart
      BY <2>2, <2>5 DEF Begin, BeginAbout, BeginWith, BeginUpload, BeginObtain,
           BeginUpdateDomain, BeginRenew, BeginDelete, Recycle, Restart
    <2> QED BY <2>4, <2>5 DEF Next
  <1>2. QED
    BY <1>1, TypeCorrect, PTL DEF Spec, NoReferenceBreaks

-----------------------------------------------------------------------------
(* Ownership: whatever refers to a certificate, from the domain's row to a *)
(* goroutine that outlives it, is about the domain it was issued for       *)

\* The id is of a row of n, or of one that is gone: it was given out, and ids
\* are not given out twice.
Owns(i, n) == i # 0 => i < nextId /\ (Exists(i) => certs[i].name = n)

IsFor(p, n) == p # 0 => p <= Len(issued) /\ issued[p] = n

\* A renewal has found the source of the row, which does not change.
Renewing == {"renew", "saveCert"}
IsRenewable(i) == i # 0 => (Exists(i) => certs[i].source = "letsencrypt")

TaskOwn(k) ==
    /\ Owns(k.id, k.name)
    /\ Owns(k.domain.cert, k.name)
    /\ IsFor(k.pem, k.name)
    /\ k.step \in Renewing => IsRenewable(k.id)

DomainsOwn == \A n \in Names : Owns(domains[n].cert, n)
CertsOwn == \A i \in Ids : Exists(i) => i < nextId /\ IsFor(certs[i].pem, certs[i].name)
SecretsOwn == \A n \in Names : secrets[n] # None => IsFor(secrets[n], n)
TasksOwn == \A t \in Tasks : ~Idle(t) => TaskOwn(tasks[t])

OwnInv == DomainsOwn /\ CertsOwn /\ SecretsOwn /\ TasksOwn

LEMMA OwnsKept ==
    ASSUME TypeInv, RowsKept, NEW i \in 0..MaxId, NEW n, Owns(i, n)
    PROVE  Owns(i, n)' /\ (IsRenewable(i) => IsRenewable(i)')
  <1>1. nextId \in Nat /\ nextId' >= nextId /\ (i # 0 => i \in Ids)
    BY TypeParts, CertificatesAssumption DEF StateOK, RowsKept, Ids
  <1>2. QED
    BY <1>1 DEF RowsKept, Owns, IsRenewable, Exists

LEMMA IsForKept ==
    ASSUME TypeInv, IssuedKept, NEW p \in 0..MaxPem, NEW n, IsFor(p, n)
    PROVE  IsFor(p, n)'
  <1>1. issued \in Seq(Names)
    BY TypeParts DEF StateOK
  <1>2. CASE p = 0
    BY <1>2 DEF IsFor
  <1>3. CASE p # 0
    <2>1. p \in Pems
      BY <1>3, CertificatesAssumption DEF Pems
    <2>2. issued'[p] = issued[p]
      BY <1>3, <2>1 DEF IsFor, IssuedKept
    <2> QED BY <1>1, <1>3, <2>1, <2>2 DEF IsFor, IssuedKept, Pems
  <1>4. QED
    BY <1>2, <1>3

LEMMA TaskOwnKept ==
    ASSUME TypeInv, RowsKept, IssuedKept, NEW k \in Task, TaskOwn(k)
    PROVE  TaskOwn(k)'
  <1>1. k.id \in 0..MaxId /\ k.domain.cert \in 0..MaxId /\ k.pem \in 0..MaxPem
    BY DEF Task, Domain
  <1>2. Owns(k.id, k.name)' /\ (IsRenewable(k.id) => IsRenewable(k.id)')
    BY <1>1, OwnsKept DEF TaskOwn
  <1>3. Owns(k.domain.cert, k.name)'
    BY <1>1, OwnsKept DEF TaskOwn
  <1>4. IsFor(k.pem, k.name)'
    BY <1>1, IsForKept DEF TaskOwn
  <1>5. QED
    BY <1>2, <1>3, <1>4 DEF TaskOwn

\* Task j has the copies of task m.
Inherits(j, m) ==
    /\ j.name = m.name /\ j.domain = m.domain /\ j.id = m.id /\ j.pem = m.pem
    /\ j.step \in Renewing => m.step \in Renewing

LEMMA InheritsOwn ==
    ASSUME NEW j \in Task, NEW m \in Task, Inherits(j, m)
    PROVE  /\ TaskOwn(m) => TaskOwn(j)
           /\ TaskOwn(m)' => TaskOwn(j)'
  BY DEF Inherits, TaskOwn

LEMMA OwnInit == Init => OwnInv
  <1> SUFFICES ASSUME Init
               PROVE  OwnInv
    OBVIOUS
  <1>1. DomainsOwn
    BY DEF Init, DomainsOwn, Owns
  <1>2. CertsOwn
    BY DEF Init, CertsOwn, Exists
  <1>3. SecretsOwn
    BY DEF Init, SecretsOwn
  <1>4. TasksOwn
    BY DEF Init, TasksOwn, Idle
  <1>5. QED
    BY <1>1, <1>2, <1>3, <1>4 DEF OwnInv

\* What a request reads is the domain's, so what it starts with is too.
LEMMA NewTaskOwn ==
    ASSUME TypeInv, OwnInv, NEW step \in Steps, NEW n \in Names, NEW i \in 0..MaxId,
           NEW source \in Sources, NEW pem \in 0..MaxPem
    PROVE  \E j \in Task :
              /\ j = NewTask(step, n, i, source, pem)
              /\ j.name = n /\ j.id = i /\ j.pem = pem /\ j.step = step
              /\ j.domain = domains[n]
              /\ Owns(j.domain.cert, j.name)
  <1>1. NewTask(step, n, i, source, pem) \in Task
    BY NewTaskType DEF TypeInv
  <1>2. Owns(domains[n].cert, n)
    BY DEF OwnInv, DomainsOwn
  <1>3. QED
    BY <1>1, <1>2 DEF NewTask

\* The rows of the certificates, as a request reads them.
LEMMA CertOwn ==
    ASSUME TypeInv, OwnInv, NEW i \in Ids, Exists(i)
    PROVE  Owns(i, certs[i].name) /\ IsFor(certs[i].pem, certs[i].name)
  BY DEF OwnInv, CertsOwn, Owns

\* It is enough to look at the slots a step has changed.
LEMMA SlotsOwn ==
    ASSUME TypeInv, OwnInv, [Next]_vars,
           \A u \in Tasks, j \in Task :
              tasks'[u] = j => TaskOwn(j)' \/ (~Idle(u) /\ Inherits(j, tasks[u]))
    PROVE  TasksOwn'
  <1>1. RowsKept /\ IssuedKept /\ tasks' \in TaskTable /\ tasks \in TaskTable
    <2>1. TypeInv'
      BY NextType
    <2>2. tasks' \in TaskTable
      BY <2>1 DEF TypeInv, TypeOK, TaskTable
    <2> QED BY <2>2, NextKeeps, TypeParts
  <1>2. ASSUME NEW u \in Tasks, ~Idle(u)'
        PROVE  TaskOwn(tasks[u])'
    <2>1. PICK j \in Task : tasks'[u] = j
      BY <1>1, <1>2 DEF TaskTable, Idle
    <2>2. TaskOwn(j)'
      <3>1. CASE ~Idle(u) /\ Inherits(j, tasks[u])
        <4>1. PICK m \in Task : tasks[u] = m
          BY <1>1, <3>1 DEF TaskTable, Idle
        <4>2. TaskOwn(m)
          BY <3>1, <4>1 DEF OwnInv, TasksOwn
        <4>3. TaskOwn(m)'
          BY <1>1, <4>2, TaskOwnKept
        <4> QED BY <3>1, <4>1, <4>3, InheritsOwn
      <3> QED BY <2>1, <3>1
    <2> QED BY <2>1, <2>2 DEF TaskOwn, Owns, IsFor, IsRenewable, Exists
  <1>3. QED
    BY <1>2 DEF TasksOwn

LEMMA BeginTasksOwn ==
    ASSUME TypeInv, OwnInv, Begin
    PROVE  TasksOwn'
  <1>0. TypeOK /\ StateOK /\ tasks \in TaskTable /\ RowsKept /\ IssuedKept
    BY TypeParts, NextKeeps DEF TypeInv, Next
  \* A new task j in slot t, and maybe one like it in slot u.
  <1>1. ASSUME NEW t \in Tasks, NEW j \in Task, tasks' = [tasks EXCEPT ![t] = j], TaskOwn(j)'
        PROVE  TasksOwn'
    <2>1. \A v \in Tasks, m \in Task :
             tasks'[v] = m => TaskOwn(m)' \/ (~Idle(v) /\ Inherits(m, tasks[v]))
      BY <1>0, <1>1, CertificatesAssumption DEF TaskTable, Inherits, Idle
    <2> QED BY <2>1, SlotsOwn DEF Next
  <1>2. ASSUME NEW t \in Tasks, NEW n \in Names, BeginUpload(t, n)
        PROVE  TasksOwn'
    <2>1. Len(issued) + 1 \in 0..MaxPem /\ "insertCert" \in Steps /\ "manual" \in Sources
          /\ 0 \in 0..MaxId
      BY <1>0, <1>2, IssueType, CertificatesAssumption DEF BeginUpload, Steps, Sources
    <2>2. PICK j \in Task : /\ j = NewTask("insertCert", n, 0, "manual", Len(issued) + 1)
                            /\ j.id = 0 /\ j.pem = Len(issued) + 1 /\ j.name = n
                            /\ Owns(j.domain.cert, j.name) /\ j.step = "insertCert"
      BY <2>1, NewTaskOwn
    <2>3. IsFor(j.pem, j.name)'
      BY <1>0, <1>2, <2>2, IssueKeeps DEF BeginUpload, IsFor
    <2>4. Owns(j.domain.cert, j.name)'
      BY <1>0, <2>2, OwnsKept DEF Task, Domain
    <2>5. TaskOwn(j)'
      BY <2>2, <2>3, <2>4 DEF TaskOwn, Owns, Renewing
    <2> QED BY <1>1, <1>2, <2>2, <2>5 DEF BeginUpload
  <1>3. ASSUME NEW t \in Tasks, NEW n \in Names, NEW j \in Task, NEW i \in 0..MaxId,
               tasks' = [tasks EXCEPT ![t] = j], j.name = n, j.id = i,
               IsFor(j.pem, n), Owns(i, n), j.domain.cert = domains[n].cert,
               j.step \in Renewing => IsRenewable(i)
        PROVE  TasksOwn'
    <2>1. TaskOwn(j)
      BY <1>3 DEF TaskOwn, OwnInv, DomainsOwn
    <2>2. TaskOwn(j)'
      BY <1>0, <2>1, TaskOwnKept
    <2> QED BY <1>1, <1>3, <2>2
  <1>4. ASSUME NEW t \in Tasks, NEW n \in Names, BeginObtain(t, n)
        PROVE  TasksOwn'
    <2>1. "obtain" \in Steps /\ "letsencrypt" \in Sources /\ 0 \in 0..MaxId /\ 0 \in 0..MaxPem
      BY CertificatesAssumption DEF Steps, Sources
    <2>2. PICK j \in Task : /\ j = NewTask("obtain", n, 0, "letsencrypt", 0)
                            /\ j.id = 0 /\ j.pem = 0 /\ j.name = n
                            /\ j.domain = domains[n] /\ j.step = "obtain"
      BY <2>1, NewTaskOwn
    <2> QED BY <1>3, <1>4, <2>1, <2>2 DEF BeginObtain, IsFor, Owns, Renewing
  <1>5. ASSUME NEW t \in Tasks, NEW n \in Names, BeginUpdateDomain(t, n)
        PROVE  TasksOwn'
    <2>1. "saveDomain" \in Steps /\ "manual" \in Sources /\ 0 \in 0..MaxId /\ 0 \in 0..MaxPem
      BY CertificatesAssumption DEF Steps, Sources
    <2>2. PICK k \in Task : /\ k = NewTask("saveDomain", n, 0, "manual", 0)
                            /\ k.id = 0 /\ k.pem = 0 /\ k.name = n /\ k.domain = domains[n]
                            /\ k.step = "saveDomain"
      BY <2>1, NewTaskOwn
    <2>s. PICK s \in SslModes : tasks' = [tasks EXCEPT ![t] = [k EXCEPT !.domain.ssl = s]]
      BY <1>5, <2>2 DEF BeginUpdateDomain
    <2>3. PICK j \in Task : /\ tasks' = [tasks EXCEPT ![t] = j]
                            /\ j.id = 0 /\ j.pem = 0 /\ j.name = n /\ j.step = "saveDomain"
                            /\ j.domain.cert = domains[n].cert
      <3>1. [k EXCEPT !.domain.ssl = s] \in Task
        BY DEF Task, Domain
      <3>2. /\ [k EXCEPT !.domain.ssl = s].id = 0 /\ [k EXCEPT !.domain.ssl = s].pem = 0
            /\ [k EXCEPT !.domain.ssl = s].name = n
            /\ [k EXCEPT !.domain.ssl = s].step = "saveDomain"
            /\ [k EXCEPT !.domain.ssl = s].domain.cert = domains[n].cert
        BY <2>2 DEF Task, Domain
      <3> QED BY <2>s, <3>1, <3>2
    <2> QED BY <1>3, <2>1, <2>3 DEF IsFor, Owns, Renewing
  <1>6. ASSUME NEW t \in Tasks, NEW i \in Ids, BeginRenew(t, i)
        PROVE  TasksOwn'
    <2>1. /\ Exists(i) /\ certs[i].name \in Names /\ certs[i].source \in Sources
          /\ certs[i].pem \in 0..MaxPem /\ i \in 0..MaxId
          /\ Owns(i, certs[i].name) /\ IsFor(certs[i].pem, certs[i].name) /\ IsRenewable(i)
      BY <1>0, <1>6, CertRow, CertOwn DEF BeginRenew, Renewable, IsRenewable
    <2>2. PICK n \in Names : n = certs[i].name
      BY <2>1
    <2>3. PICK j \in Task : /\ j = NewTask("renew", n, i, certs[i].source, certs[i].pem)
                            /\ j.id = i /\ j.pem = certs[i].pem /\ j.name = n
                            /\ j.domain = domains[n]
      BY <2>1, NewTaskOwn DEF Steps
    <2>4. tasks' = [tasks EXCEPT ![t] = j]
      BY <1>6, <2>2, <2>3 DEF BeginRenew
    <2> QED BY <1>3, <2>1, <2>2, <2>3, <2>4
  <1>7. ASSUME NEW t \in Tasks, NEW u \in Tasks, NEW i \in Ids, BeginDelete(t, u, i)
        PROVE  TasksOwn'
    <2>1. /\ Exists(i) /\ certs[i].name \in Names /\ certs[i].source \in Sources
          /\ certs[i].pem \in 0..MaxPem /\ i \in 0..MaxId
          /\ Owns(i, certs[i].name) /\ IsFor(certs[i].pem, certs[i].name)
      BY <1>0, <1>7, CertRow, CertOwn DEF BeginDelete
    <2> DEFINE New(step) == NewTask(step, certs[i].name, i, certs[i].source, certs[i].pem)
    <2>2. ASSUME NEW step \in {"deleteCert", "deleteSecret"}, NEW j \in Task, j = New(step)
          PROVE  TaskOwn(j)'
      <3>1. step \in Steps /\ step \notin Renewing
        BY DEF Steps, Renewing
      <3>2. /\ Owns(j.domain.cert, j.name) /\ j.step = step
            /\ j.name = certs[i].name /\ j.id = i /\ j.pem = certs[i].pem
        BY <2>1, <2>2, <3>1, NewTaskOwn
      <3>3. TaskOwn(j)
        BY <2>1, <3>1, <3>2 DEF TaskOwn
      <3> QED BY <1>0, <3>3, TaskOwnKept
    <2>3. \A v \in Tasks, m \in Task :
             tasks'[v] = m => TaskOwn(m)' \/ (~Idle(v) /\ Inherits(m, tasks[v]))
      <3>1. tasks' = [tasks EXCEPT ![t] = New("deleteCert"), ![u] = New("deleteSecret")]
        BY <1>7 DEF BeginDelete
      <3>2. ASSUME NEW v \in Tasks, NEW m \in Task, tasks'[v] = m
            PROVE  \/ m = New("deleteCert") \/ m = New("deleteSecret") \/ m = tasks[v]
        BY <1>0, <3>1, <3>2 DEF TaskTable
      <3>3. ASSUME NEW v \in Tasks, NEW m \in Task, m = tasks[v]
            PROVE  ~Idle(v) /\ Inherits(m, tasks[v])
        BY <3>3, CertificatesAssumption DEF Inherits, Idle
      <3> QED BY <2>2, <3>2, <3>3
    <2> QED BY <2>3, SlotsOwn DEF Next
  <1>8. QED
    BY <1>2, <1>4, <1>5, <1>6, <1>7 DEF Begin, BeginAbout, BeginWith

LEMMA StepTasksOwn ==
    ASSUME TypeInv, OwnInv, NEW t \in Tasks, Step(t)
    PROVE  TasksOwn'
  <1>0. TypeOK /\ StateOK /\ tasks \in TaskTable /\ RowsKept /\ IssuedKept /\ ~Idle(t)
    BY TypeParts, NextKeeps, StepTask DEF TypeInv, Next
  <1>k. PICK k \in Task : tasks[t] = k
    BY <1>0 DEF TaskTable, Idle
  <1>o. TaskOwn(k)
    BY <1>0, <1>k DEF OwnInv, TasksOwn
  <1>a. ASSUME NEW u \in Tasks, NEW m \in Task, m = tasks[u]
        PROVE  ~Idle(u) /\ Inherits(m, tasks[u])
    BY <1>a, CertificatesAssumption DEF Inherits, Idle
  \* The slot is cleared, or its task moves on.
  <1>e. CASE End(t)
    <2>1. \A v \in Tasks, m \in Task : tasks'[v] = m => m = tasks[v]
      BY <1>0, <1>e, CertificatesAssumption DEF End, TaskTable
    <2> QED BY <1>a, <2>1, SlotsOwn DEF Next
  <1>p. ASSUME NEW j \in Task, tasks' = [tasks EXCEPT ![t] = j],
               TaskOwn(j)' \/ Inherits(j, k)
        PROVE  TasksOwn'
    <2>1. \A v \in Tasks, m \in Task : tasks'[v] = m => m = tasks[v] \/ (v = t /\ m = j)
      BY <1>0, <1>p DEF TaskTable
    <2>2. \A v \in Tasks, m \in Task :
             tasks'[v] = m => TaskOwn(m)' \/ (~Idle(v) /\ Inherits(m, tasks[v]))
      BY <1>0, <1>a, <1>k, <1>p, <2>1
    <2> QED BY <2>2, SlotsOwn DEF Next
  <1>g. ASSUME NEW step \in Steps, Goto(t, step), step \in Renewing => k.step \in Renewing
        PROVE  TasksOwn'
    <2>1. PICK j \in Task : j = [k EXCEPT !.step = step]
      BY DEF Task
    <2>2. tasks' = [tasks EXCEPT ![t] = j]
      BY <1>0, <1>g, <1>k, <2>1 DEF Goto, TaskTable
    <2>3. Inherits(j, k)
      BY <1>g, <2>1 DEF Inherits, Task
    <2> QED BY <1>p, <2>2, <2>3
  \* The certificate the task has asked for is the next one issued.
  <1>i. ASSUME NEW step \in Steps, Issue(k.name),
               step \in Renewing => k.step \in Renewing,
               tasks' = [tasks EXCEPT ![t].step = step, ![t].pem = Len(issued) + 1]
        PROVE  TasksOwn'
    <2>1. k.name \in Names /\ Len(issued) + 1 \in 0..MaxPem
      BY <1>0, <1>i, IssueType DEF Task
    <2>2. PICK j \in Task : j = [k EXCEPT !.step = step, !.pem = Len(issued) + 1]
      BY <2>1 DEF Task
    <2>3. tasks' = [tasks EXCEPT ![t] = j]
      BY <1>0, <1>i, <1>k, <2>2 DEF TaskTable
    <2>4. /\ j.name = k.name /\ j.domain = k.domain /\ j.id = k.id
          /\ j.pem = Len(issued) + 1 /\ j.step = step
      BY <2>2 DEF Task
    <2>5. IsFor(j.pem, j.name)'
      BY <1>0, <1>i, <2>1, <2>4, IssueKeeps DEF IsFor
    <2>6. TaskOwn(k)'
      BY <1>0, <1>o, TaskOwnKept
    <2>7. TaskOwn(j)'
      BY <1>i, <2>4, <2>5, <2>6 DEF TaskOwn
    <2> QED BY <1>p, <2>3, <2>7
  <1>1. CASE Obtain(t)
    BY <1>1, <1>e, <1>i, <1>k DEF Obtain, Steps, Renewing
  <1>2. CASE InsertCert(t)
    <2> DEFINE row == [name |-> k.name, source |-> k.source, pem |-> k.pem]
    <2>1. CASE /\ RepoCreate(row)
               /\ tasks' = [tasks EXCEPT ![t].step = "linkCert", ![t].id = FreshId]
      <3>1. /\ nextId \in Ids /\ nextId \in 0..MaxId /\ nextId' = nextId + 1
            /\ certs' = [certs EXCEPT ![nextId] = row]
        BY <1>0, <2>1, CertificatesAssumption DEF RepoCreate, FreshId, StateOK, Ids
      <3>2. PICK i \in 0..MaxId : i = nextId
        BY <3>1
      <3>3. PICK j \in Task : j = [k EXCEPT !.step = "linkCert", !.id = i]
        BY DEF Task, Steps
      <3>4. tasks' = [tasks EXCEPT ![t] = j]
        BY <1>0, <1>k, <2>1, <3>2, <3>3 DEF TaskTable, FreshId
      <3>5. /\ j.name = k.name /\ j.domain = k.domain /\ j.id = i
            /\ j.pem = k.pem /\ j.step = "linkCert"
        BY <3>3 DEF Task
      <3>6. certs'[i] = row
        BY <1>0, <3>1, <3>2 DEF StateOK
      <3>7. Owns(i, k.name)'
        BY <1>0, <3>1, <3>2, <3>6 DEF Owns, StateOK
      <3>8. TaskOwn(k)'
        BY <1>0, <1>o, TaskOwnKept
      <3>9. TaskOwn(j)'
        BY <3>5, <3>7, <3>8 DEF TaskOwn, Renewing
      <3> QED BY <1>p, <3>4, <3>9
    <2> QED BY <1>2, <1>e, <1>k, <2>1 DEF InsertCert
  <1>3. CASE LinkCert(t)
    BY <1>3, <1>g DEF LinkCert, Steps, Renewing
  <1>4. CASE CreateSecret(t)
    BY <1>4, <1>e, <1>g DEF CreateSecret, Steps, Renewing
  <1>5. CASE GetIngress(t)
    <2>1. CASE tasks' = [tasks EXCEPT ![t].step = "putIngress", ![t].fresh = TRUE]
      <3>1. PICK j \in Task : j = [k EXCEPT !.step = "putIngress", !.fresh = TRUE]
        BY DEF Task, Steps
      <3>2. tasks' = [tasks EXCEPT ![t] = j]
        BY <1>0, <1>k, <2>1, <3>1 DEF TaskTable
      <3>3. Inherits(j, k)
        BY <3>1 DEF Inherits, Task, Renewing
      <3> QED BY <1>p, <3>2, <3>3
    <2> QED BY <1>5, <1>e, <2>1 DEF GetIngress
  <1>6. CASE PutIngress(t)
    <2> DEFINE ended == [tasks EXCEPT ![t] = None]
    <2>1. ended \in TaskTable
      BY <1>0 DEF TaskTable
    <2>2. ASSUME NEW v \in Tasks, NEW m \in Task, tasks'[v] = m
          PROVE  ~Idle(v) /\ Inherits(m, tasks[v])
      <3>1. tasks'[v] = ended[v]
            \/ (ended[v] \in Task /\ tasks'[v] = [ended[v] EXCEPT !.fresh = FALSE])
        <4>1. tasks' = ended \/ tasks' = Outdated(ended, tasks[t].name)
          BY <1>6 DEF PutIngress
        <4> HIDE DEF ended
        <4>2. PICK ts \in TaskTable : ts = ended
          BY <2>1
        <4>3. \/ Outdated(ts, tasks[t].name)[v] = ts[v]
              \/ /\ ts[v] \in Task
                 /\ Outdated(ts, tasks[t].name)[v] = [ts[v] EXCEPT !.fresh = FALSE]
          BY OutdatedKeeps
        <4> QED BY <4>1, <4>2, <4>3
      <3>2. ended[v] \in Task
        BY <2>1, <2>2, <3>1, CertificatesAssumption DEF TaskTable
      <3>3. ended[v] = tasks[v] /\ ~Idle(v)
        BY <1>0, <3>2, CertificatesAssumption DEF TaskTable, Idle
      <3> QED BY <2>2, <3>1, <3>2, <3>3 DEF Inherits, Task
    <2> QED BY <2>2, SlotsOwn DEF Next
  <1>7. CASE Renew(t)
    BY <1>7, <1>e, <1>i, <1>k DEF Renew, At, Steps, Renewing
  <1>8. CASE SaveCert(t)
    BY <1>8, <1>e, <1>g DEF SaveCert, Steps, Renewing
  <1>9. CASE DeleteCert(t) \/ DeleteSecret(t)
    BY <1>9, <1>e DEF DeleteCert, DeleteSecret
  <1>10. CASE SaveDomain(t)
    BY <1>10, <1>e, <1>g DEF SaveDomain, Steps, Renewing
  <1> QED BY <1>1, <1>2, <1>3, <1>4, <1>5, <1>6, <1>7, <1>8, <1>9, <1>10 DEF Step

\* What a write leaves in the row of a domain was there, in the row or in the
\* copies of a task about that domain, or it is nothing.
LEMMA DomainsOwnNext ==
    ASSUME TypeInv, OwnInv, [Next]_vars
    PROVE  DomainsOwn'
  <1>t. domains' \in [Names -> Domain]
    BY NextType DEF TypeInv, TypeOK
  <1>0. /\ StateOK /\ TypeOK /\ tasks \in TaskTable /\ RowsKept
        /\ domains' \in [Names -> Domain]
    BY <1>t, TypeParts, NextKeeps DEF TypeInv
  <1> DEFINE Inherited == \A n \in Names, i \in 0..MaxId : domains'[n].cert = i => Owns(i, n)
  <1>1. ASSUME Inherited
        PROVE  DomainsOwn'
    <2>1. ASSUME NEW n \in Names
          PROVE  Owns(domains[n].cert, n)'
      <3>1. PICK i \in 0..MaxId : domains'[n].cert = i
        BY <1>0 DEF Domain
      <3>2. Owns(i, n)'
        BY <1>0, <1>1, <3>1, OwnsKept
      <3> QED BY <3>1, <3>2 DEF Owns, Exists
    <2> QED BY <2>1 DEF DomainsOwn
  <1>2. CASE UNCHANGED domains
    BY <1>0, <1>1, <1>2 DEF OwnInv, DomainsOwn
  <1>3. ASSUME NEW m \in Names, NEW row \in Domain, Owns(row.cert, m), SaveRow(m, row)
        PROVE  DomainsOwn'
    <2>1. Inherited
      BY <1>0, <1>3 DEF SaveRow, StateOK, OwnInv, DomainsOwn
    <2> QED BY <1>1, <2>1
  <1>4. ASSUME NEW t \in Tasks, Step(t)
        PROVE  DomainsOwn'
    <2>0. ~Idle(t)
      BY <1>4, StepTask
    <2>k. PICK k \in Task : tasks[t] = k
      BY <1>0, <2>0 DEF TaskTable, Idle
    <2>o. /\ Owns(k.id, k.name) /\ Owns(k.domain.cert, k.name)
          /\ k.name \in Names /\ k.domain \in Domain /\ k.id \in 0..MaxId
      BY <2>0, <2>k DEF OwnInv, TasksOwn, TaskOwn, Task
    <2>1. CASE LinkCert(t)
      <3>1. PICK row \in Domain : row = [k.domain EXCEPT !.cert = k.id]
        BY <2>o DEF Domain
      <3>2. row.cert = k.id
        BY <2>o, <3>1 DEF Domain
      <3> QED BY <1>2, <1>3, <2>1, <2>k, <2>o, <3>1, <3>2 DEF LinkCert
    <2>2. CASE SaveDomain(t)
      BY <1>2, <1>3, <2>2, <2>k, <2>o DEF SaveDomain
    <2>3. CASE DeleteCert(t)
      <3>1. CASE domains' = Unlinked(k.id)
        <4>1. ASSUME NEW n \in Names
              PROVE  domains'[n].cert = 0 \/ domains'[n] = domains[n]
          <5>1. domains[n] \in Domain /\ [domains[n] EXCEPT !.cert = 0].cert = 0
            BY <1>0 DEF StateOK, Domain
          <5> QED BY <3>1, <5>1 DEF Unlinked
        <4>2. Inherited
          BY <4>1 DEF OwnInv, DomainsOwn, Owns
        <4> QED BY <1>1, <4>2
      <3> QED BY <1>2, <2>3, <2>k, <3>1 DEF DeleteCert, RepoDelete
    <2>4. CASE \/ Obtain(t) \/ InsertCert(t) \/ CreateSecret(t) \/ GetIngress(t)
               \/ PutIngress(t) \/ Renew(t) \/ SaveCert(t) \/ DeleteSecret(t)
      BY <1>2, <2>4 DEF Obtain, InsertCert, CreateSecret, GetIngress, PutIngress, Renew,
                        SaveCert, DeleteSecret
    <2> QED BY <1>4, <2>1, <2>2, <2>3, <2>4 DEF Step
  <1>5. CASE Begin \/ Recycle \/ Restart \/ UNCHANGED vars
    BY <1>2, <1>5 DEF Begin, BeginAbout, BeginWith, BeginUpload, BeginObtain,
         BeginUpdateDomain, BeginRenew, BeginDelete, Recycle, Restart, vars
  <1>6. QED
    BY <1>4, <1>5 DEF Next

\* The content of a row is what a task about its domain had in hand.
LEMMA CertsOwnNext ==
    ASSUME TypeInv, OwnInv, [Next]_vars
    PROVE  CertsOwn'
  <1>t. certs' \in [Ids -> Cert \cup {None}]
    BY NextType DEF TypeInv, TypeOK
  <1>0. /\ StateOK /\ tasks \in TaskTable /\ RowsKept /\ IssuedKept
        /\ certs' \in [Ids -> Cert \cup {None}]
    BY <1>t, TypeParts, NextKeeps
  <1> DEFINE Inherited == \A i \in Ids : certs'[i] # None =>
                             i < nextId' /\ IsFor(certs'[i].pem, certs'[i].name)
  <1>1. ASSUME Inherited
        PROVE  CertsOwn'
    <2>1. ASSUME NEW i \in Ids, certs'[i] # None
          PROVE  IsFor(certs[i].pem, certs[i].name)'
      <3>1. PICK p \in 0..MaxPem, n \in Names : certs'[i].pem = p /\ certs'[i].name = n
        BY <1>0, <2>1, CertificatesAssumption DEF Cert, Pems
      <3>2. IsFor(p, n)'
        BY <1>0, <1>1, <2>1, <3>1, IsForKept
      <3> QED BY <3>1, <3>2 DEF IsFor
    <2> QED BY <1>1, <2>1 DEF CertsOwn, Exists
  <1>2. CASE UNCHANGED <<certs, nextId>>
    BY <1>1, <1>2 DEF OwnInv, CertsOwn, Exists
  <1>3. ASSUME NEW t \in Tasks, Step(t)
        PROVE  CertsOwn'
    <2>0. ~Idle(t) /\ (tasks[t].step \in NeedsPem => tasks[t].pem \in Pems)
      BY <1>3, StepTask, AtTask
    <2>k. PICK k \in Task : tasks[t] = k
      BY <1>0, <2>0 DEF TaskTable, Idle
    <2>o. Owns(k.id, k.name) /\ IsFor(k.pem, k.name) /\ k.id \in 0..MaxId
      BY <2>0, <2>k DEF OwnInv, TasksOwn, TaskOwn, Task
    <2>1. CASE InsertCert(t)
      <3>1. CASE RepoCreate([name |-> k.name, source |-> k.source, pem |-> k.pem])
        <4>1. /\ nextId' = nextId + 1
              /\ certs' = [certs EXCEPT ![nextId] =
                              [name |-> k.name, source |-> k.source, pem |-> k.pem]]
          BY <3>1 DEF RepoCreate, FreshId
        <4>2. nextId \in Nat
          BY <1>0 DEF StateOK
        <4>3. Inherited
          BY <1>0, <2>o, <4>1, <4>2 DEF StateOK, OwnInv, CertsOwn, Exists, Ids
        <4> QED BY <1>1, <4>3
      <3> QED BY <1>2, <2>1, <2>k, <3>1 DEF InsertCert
    <2>2. CASE SaveCert(t)
      <3>1. CASE RepoUpdate(k.id, k.pem)
        <4>1. k.pem \in Pems /\ nextId' = nextId
          BY <2>0, <2>2, <2>k, <3>1 DEF SaveCert, At, NeedsPem, RepoUpdate
        <4>2. ASSUME NEW i \in Ids, certs'[i] # None
              PROVE  i < nextId' /\ IsFor(certs'[i].pem, certs'[i].name)
          <5>1. Exists(i) /\ certs'[i].name = certs[i].name /\ i < nextId
                /\ IsFor(certs[i].pem, certs[i].name)
            BY <3>1, <4>1, <4>2, UpdateKeepsRows DEF OwnInv, CertsOwn
          <5>2. CASE i = k.id
            <6>1. certs'[i].pem = k.pem /\ certs[i].name = k.name
              BY <2>o, <3>1, <4>1, <5>1, <5>2, UpdateKeepsRows DEF Owns, Ids
            <6> QED BY <2>o, <4>1, <5>1, <6>1
          <5>3. CASE i # k.id
            BY <3>1, <4>1, <5>1, <5>3, UpdateKeepsRows
          <5> QED BY <5>2, <5>3
        <4> QED BY <1>1, <4>2
      <3> QED BY <1>2, <2>2, <2>k, <3>1 DEF SaveCert
    <2>3. CASE DeleteCert(t)
      <3>1. CASE RepoDelete(k.id)
        <4>1. Inherited
          BY <1>0, <3>1 DEF RepoDelete, StateOK, OwnInv, CertsOwn, Exists
        <4> QED BY <1>1, <4>1
      <3> QED BY <1>2, <2>3, <2>k, <3>1 DEF DeleteCert
    <2>4. CASE \/ Obtain(t) \/ LinkCert(t) \/ CreateSecret(t) \/ GetIngress(t)
               \/ PutIngress(t) \/ Renew(t) \/ DeleteSecret(t) \/ SaveDomain(t)
      BY <1>2, <2>4 DEF Obtain, LinkCert, CreateSecret, GetIngress, PutIngress, Renew,
                        DeleteSecret, SaveDomain
    <2> QED BY <1>3, <2>1, <2>2, <2>3, <2>4 DEF Step
  <1>4. CASE Begin \/ Recycle \/ Restart \/ UNCHANGED vars
    BY <1>2, <1>4 DEF Begin, BeginAbout, BeginWith, BeginUpload, BeginObtain,
         BeginUpdateDomain, BeginRenew, BeginDelete, Recycle, Restart, vars
  <1>5. QED
    BY <1>3, <1>4 DEF Next

\* So is the content of a Secret.
LEMMA SecretsOwnNext ==
    ASSUME TypeInv, OwnInv, [Next]_vars
    PROVE  SecretsOwn'
  <1>t. secrets' \in [Names -> Pems \cup {None}]
    BY NextType DEF TypeInv, TypeOK
  <1>0. /\ StateOK /\ tasks \in TaskTable /\ IssuedKept
        /\ secrets' \in [Names -> Pems \cup {None}]
    BY <1>t, TypeParts, NextKeeps
  <1> DEFINE Inherited == \A n \in Names : secrets'[n] # None => IsFor(secrets'[n], n)
  <1>1. ASSUME Inherited
        PROVE  SecretsOwn'
    <2>1. ASSUME NEW n \in Names, secrets'[n] # None
          PROVE  IsFor(secrets[n], n)'
      <3>1. PICK p \in 0..MaxPem : secrets'[n] = p
        BY <1>0, <2>1, CertificatesAssumption DEF Pems
      <3>2. IsFor(p, n)'
        BY <1>0, <1>1, <2>1, <3>1, IsForKept
      <3> QED BY <3>1, <3>2 DEF IsFor
    <2> QED BY <2>1 DEF SecretsOwn
  <1>2. CASE UNCHANGED secrets
    BY <1>1, <1>2 DEF OwnInv, SecretsOwn
  <1>3. ASSUME NEW t \in Tasks, Step(t)
        PROVE  SecretsOwn'
    <2>0. ~Idle(t)
      BY <1>3, StepTask
    <2>k. PICK k \in Task : tasks[t] = k
      BY <1>0, <2>0 DEF TaskTable, Idle
    <2>o. IsFor(k.pem, k.name)
      BY <2>0, <2>k DEF OwnInv, TasksOwn, TaskOwn
    <2>1. CASE CreateSecret(t)
      <3>1. CASE secrets' = [secrets EXCEPT ![k.name] = k.pem]
        <4>1. Inherited
          BY <1>0, <2>o, <3>1 DEF StateOK, OwnInv, SecretsOwn
        <4> QED BY <1>1, <4>1
      <3> QED BY <1>2, <2>1, <2>k, <3>1 DEF CreateSecret
    <2>2. CASE DeleteSecret(t)
      <3>1. CASE secrets' = [secrets EXCEPT ![k.name] = None]
        <4>1. Inherited
          BY <1>0, <3>1 DEF StateOK, OwnInv, SecretsOwn
        <4> QED BY <1>1, <4>1
      <3> QED BY <1>2, <2>2, <2>k, <3>1 DEF DeleteSecret
    <2>3. CASE \/ Obtain(t) \/ InsertCert(t) \/ LinkCert(t) \/ GetIngress(t) \/ PutIngress(t)
               \/ Renew(t) \/ SaveCert(t) \/ DeleteCert(t) \/ SaveDomain(t)
      BY <1>2, <2>3 DEF Obtain, InsertCert, LinkCert, GetIngress, PutIngress, Renew,
                        SaveCert, DeleteCert, SaveDomain
    <2> QED BY <1>3, <2>1, <2>2, <2>3 DEF Step
  <1>4. CASE Begin \/ Recycle \/ Restart \/ UNCHANGED vars
    BY <1>2, <1>4 DEF Begin, BeginAbout, BeginWith, BeginUpload, BeginObtain,
         BeginUpdateDomain, BeginRenew, BeginDelete, Recycle, Restart, vars
  <1>5. QED
    BY <1>3, <1>4 DEF Next

LEMMA OwnNext == TypeInv /\ OwnInv /\ [Next]_vars => OwnInv'
  <1> SUFFICES ASSUME TypeInv, OwnInv, [Next]_vars
               PROVE  OwnInv'
    OBVIOUS
  <1>1. TasksOwn'
    <2>1. CASE Recycle \/ UNCHANGED vars
      BY <2>1 DEF Recycle, vars, OwnInv, TasksOwn, TaskOwn, Owns, IsFor, IsRenewable, Exists, Idle
    <2>2. CASE Restart
      BY <2>2 DEF Restart, TasksOwn, Idle
    <2> QED BY <2>1, <2>2, BeginTasksOwn, StepTasksOwn DEF Next
  <1>2. QED
    BY <1>1, DomainsOwnNext, CertsOwnNext, SecretsOwnNext DEF OwnInv

\* Two domains are never mixed up, by any interleaving, fault or restart.
THEOREM CertificatesAreOwn == Spec => []OwnCertificate
  <1>1. TypeInv /\ OwnInv => OwnCertificate
    <2> SUFFICES ASSUME TypeInv, OwnInv
                 PROVE  OwnCertificate
      OBVIOUS
    <2>1. \A n \in Names, p \in Pems : IsFor(p, n) => issued[p] = n
      BY CertificatesAssumption DEF IsFor, Pems
    <2>2. ASSUME NEW i \in Ids, Exists(i)
          PROVE  issued[certs[i].pem] = certs[i].name
      BY <2>1, <2>2, CertRow DEF TypeInv, OwnInv, CertsOwn
    <2>3. ASSUME NEW n \in Names, secrets[n] # None
          PROVE  issued[secrets[n]] = n
      BY <2>1, <2>3 DEF TypeInv, TypeOK, OwnInv, SecretsOwn
    <2>4. QED
      BY <2>2, <2>3 DEF OwnCertificate, OwnInv, DomainsOwn, Owns
  <1>2. QED
    BY <1>1, OwnInit, OwnNext, TypeCorrect, PTL DEF Spec

\* A row that a user's certificate is in is only ever deleted: an INSERT uses
\* a new id, and the row a renewal writes was read as one of Let's Encrypt.
THEOREM UploadsAreSafe == Spec => UploadsAreKept
  <1> DEFINE A == \A i \in Ids : Exists(i) /\ certs[i].source = "manual" =>
                     certs'[i] \in {certs[i], None}
  <1>1. TypeInv /\ OwnInv /\ [Next]_vars => [A]_vars
    <2> SUFFICES ASSUME TypeInv, OwnInv, Next, NEW i \in Ids, Exists(i),
                        certs[i].source = "manual"
                 PROVE  certs'[i] \in {certs[i], None}
      OBVIOUS
    <2>0. StateOK /\ tasks \in TaskTable
      BY TypeParts
    <2>1. ASSUME NEW t \in Tasks, Step(t)
          PROVE  certs'[i] \in {certs[i], None}
      <3>0. ~Idle(t) /\ (tasks[t].step \in NeedsPem => tasks[t].pem \in Pems)
        BY <2>1, StepTask, AtTask
      <3>k. PICK k \in Task : tasks[t] = k
        BY <2>0, <3>0 DEF TaskTable, Idle
      <3>1. CASE InsertCert(t)
        <4>1. i # nextId
          BY <2>0 DEF OwnInv, CertsOwn, StateOK, Ids
        <4> QED BY <2>0, <3>1, <4>1 DEF InsertCert, RepoCreate, FreshId, StateOK
      <3>2. CASE SaveCert(t)
        <4>1. k.step = "saveCert" /\ k.pem \in Pems
          BY <3>0, <3>2, <3>k DEF SaveCert, At, NeedsPem
        <4>2. k.id # i
          BY <3>0, <3>k, <4>1 DEF OwnInv, TasksOwn, TaskOwn, IsRenewable, Renewing, Ids
        <4> QED BY <3>2, <3>k, <4>1, <4>2, UpdateKeepsRows DEF SaveCert
      <3>3. CASE DeleteCert(t)
        BY <2>0, <3>3 DEF DeleteCert, RepoDelete, StateOK
      <3>4. CASE \/ Obtain(t) \/ LinkCert(t) \/ CreateSecret(t) \/ GetIngress(t)
                 \/ PutIngress(t) \/ Renew(t) \/ DeleteSecret(t) \/ SaveDomain(t)
        BY <3>4 DEF Obtain, LinkCert, CreateSecret, GetIngress, PutIngress, Renew,
                    DeleteSecret, SaveDomain
      <3> QED BY <2>1, <3>1, <3>2, <3>3, <3>4 DEF Step
    <2>2. CASE Begin \/ Recycle \/ Restart
      BY <2>2 DEF Begin, BeginAbout, BeginWith, BeginUpload, BeginObtain,
           BeginUpdateDomain, BeginRenew, BeginDelete, Recycle, Restart
    <2> QED BY <2>1, <2>2 DEF Next
  <1>2. QED
    BY <1>1, OwnInit, OwnNext, TypeCorrect, PTL DEF Spec, UploadsAreKept

-----------------------------------------------------------------------------
(* Operations one after another                                            *)
(*                                                                         *)
(* As in DomainSyncProofs the invariant says how far the operation that is *)
(* under way has come, and that all other domains are served.              *)

\* The certificates of n are those with an id of s.
CertsOf(n, s) == \A j \in Ids : (Exists(j) /\ certs[j].name = n) <=> j \in s

\* What SettledServed says of n, and that it has one certificate at most.
Served(n) ==
    LET i == domains[n].cert
    IN /\ i # 0 => CertsOf(n, {i}) /\ i \in Ids /\ secrets[n] = certs[i].pem /\ tls[n] = "cert"
       /\ i = 0 => CertsOf(n, {}) /\ secrets[n] = None

\* The certificate i of n, the only one, is that of the task k.
Holds(k) ==
    k.id \in Ids /\ CertsOf(k.name, {k.id}) /\ certs[k.id].pem = k.pem /\ k.pem # 0

Unserved(n) == Served(n) /\ domains[n].cert = 0

\* What a task that has come to its step may rely on.
Stage(k) ==
    /\ k.step \notin {"renew", "saveCert"}
    /\ k.step \in {"obtain", "insertCert"} => Unserved(k.name) /\ k.domain.cert = 0
    /\ k.step = "linkCert" =>
         Holds(k) /\ secrets[k.name] = None /\ domains[k.name].cert = 0
    /\ k.step = "createSecret" =>
         Holds(k) /\ secrets[k.name] = None /\ domains[k.name].cert = k.id
    /\ k.step \in {"getIngress", "putIngress"} =>
         \/ Holds(k) /\ secrets[k.name] = k.pem /\ domains[k.name].cert = k.id
         \/ Unserved(k.name) /\ k.pem = 0
    /\ k.step = "putIngress" => k.fresh
    /\ k.step = "saveDomain" => Unserved(k.name) /\ k.domain.cert = 0 /\ k.pem = 0
    /\ k.step = "deleteCert" =>
         Holds(k) /\ secrets[k.name] = None /\ domains[k.name].cert = k.id
    /\ k.step = "deleteSecret" => CertsOf(k.name, {}) /\ domains[k.name].cert = 0

Alone(t) == ~Idle(t) /\ \A u \in Tasks : u # t => Idle(u)

ServedBut(n) == \A m \in Names : m # n => Served(m)

Settled == AllIdle /\ \A n \in Names : Served(n)

Under(t) == Alone(t) /\ Stage(tasks[t]) /\ ServedBut(tasks[t].name)

\* A deletion has two tasks until the first of them is through.
UnderDeletion(t, u) ==
    /\ t # u /\ ~Idle(t) /\ ~Idle(u) /\ \A v \in Tasks : v # t /\ v # u => Idle(v)
    /\ \A n \in Names : Served(n)
    /\ tasks[t].step = "deleteCert" /\ tasks[u].step = "deleteSecret"
    /\ tasks[t].id = tasks[u].id /\ tasks[t].name = tasks[u].name
    /\ Holds(tasks[t])

SerialInv ==
    /\ foreignKeys
    /\ \/ Settled
       \/ \E t \in Tasks : Under(t)
       \/ \E t, u \in Tasks : UnderDeletion(t, u)

\* The server of certificates may refuse; nothing else fails.
Unfailing == {"k8s", "db"} \cap Faults = {}

\* A domain stays served by rows and a Secret of its own that do not change.
LEMMA ServedKept ==
    ASSUME NEW n, Served(n), domains'[n] = domains[n], secrets'[n] = secrets[n], tls'[n] = tls[n],
           \A j \in Ids : \/ certs'[j] = certs[j]
                         \/ /\ Exists(j) => certs[j].name # n
                            /\ Exists(j)' => certs'[j].name # n
    PROVE  Served(n)'
  <1>1. \A j \in Ids : Exists(j) /\ certs[j].name = n => certs'[j] = certs[j]
    OBVIOUS
  <1>2. \A j \in Ids : (Exists(j) /\ certs[j].name = n)' <=> (Exists(j) /\ certs[j].name = n)
    BY DEF Exists
  <1>3. \A s : CertsOf(n, s)' <=> CertsOf(n, s)
    BY <1>2 DEF CertsOf
  <1>4. CASE domains[n].cert = 0
    BY <1>3, <1>4 DEF Served
  <1>5. CASE domains[n].cert # 0
    <2>1. certs'[domains[n].cert] = certs[domains[n].cert]
      BY <1>1, <1>5 DEF Served, CertsOf
    <2> QED
      BY <1>3, <1>5, <2>1 DEF Served
  <1> QED
    BY <1>4, <1>5

LEMMA ServedButKept ==
    ASSUME NEW n, ServedBut(n), certs' = certs,
           \A m \in Names : m # n =>
              domains'[m] = domains[m] /\ secrets'[m] = secrets[m] /\ tls'[m] = tls[m]
    PROVE  ServedBut(n)'
  BY ServedKept DEF ServedBut

\* The stage of a task is about nothing else than these.
LEMMA StageKept ==
    ASSUME NEW k, Stage(k), UNCHANGED <<domains, certs, secrets, tls>>
    PROVE  Stage(k)'
  BY DEF Stage, Holds, Unserved, Served, CertsOf, Exists

\* The only task moves on, or ends.
LEMMA AloneMoves ==
    ASSUME TypeInv, NEW t \in Tasks, Alone(t), NEW k \in Task, tasks' = [tasks EXCEPT ![t] = k]
    PROVE  Alone(t)' /\ tasks'[t] = k
  BY CertificatesAssumption DEF TypeInv, TypeOK, Alone, Idle

LEMMA AloneEnds ==
    ASSUME TypeInv, NEW t \in Tasks, Alone(t), End(t)
    PROVE  AllIdle'
  BY DEF TypeInv, TypeOK, Alone, AllIdle, Idle, End

\* The beginning of an operation when all domains are served.
LEMMA CarefulBegins ==
    ASSUME TypeInv, Settled, CarefulBegin
    PROVE  (\E t \in Tasks : Under(t)') \/ (\E t, u \in Tasks : UnderDeletion(t, u)')
  <1>0. TypeOK /\ 0 \in 0 .. MaxId /\ 0 \in 0 .. MaxPem
    BY CertificatesAssumption DEF TypeInv
  <1>1. ASSUME NEW t \in Tasks, NEW k \in Task, tasks' = [tasks EXCEPT ![t] = k],
               UNCHANGED <<domains, certs, secrets, tls>>, Stage(k)
        PROVE  Under(t)'
    <2>1. Alone(t)' /\ tasks'[t] = k
      BY <1>1, CertificatesAssumption DEF Settled, AllIdle, Alone, Idle, TypeInv, TypeOK
    <2>2. ServedBut(k.name)' /\ Stage(k)'
      BY <1>1, StageKept, ServedButKept DEF Settled, ServedBut
    <2> QED
      BY <2>1, <2>2 DEF Under, ServedBut, Stage, Holds, Unserved, Served, CertsOf, Exists
  <1>2. ASSUME NEW t \in Tasks, NEW n \in Names, Bare(n), BeginAbout(t, n)
        PROVE  Under(t)'
    <2>1. Unserved(n)
      <3>1. Served(n)
        BY DEF Settled
      <3>2. domains[n].cert = 0
        BY <1>2, <3>1 DEF Served, CertsOf, Bare
      <3> QED
        BY <3>1, <3>2 DEF Unserved
    <2>2. CASE BeginUpload(t, n)
      <3> DEFINE k == NewTask("insertCert", n, 0, "manual", Len(issued) + 1)
      <3>1. k \in Task
        BY <1>0, <2>2, NewTaskType, IssueType DEF BeginUpload, Steps, Sources
      <3>2. k.step = "insertCert" /\ k.name = n /\ k.domain = domains[n]
        BY DEF NewTask
      <3>3. tasks' = [tasks EXCEPT ![t] = k] /\ UNCHANGED <<domains, certs, secrets, tls>>
        BY <2>2 DEF BeginUpload
      <3> HIDE DEF k
      <3>4. Stage(k)
        BY <2>1, <3>2 DEF Stage, Unserved
      <3> QED
        BY <1>1, <3>1, <3>3, <3>4
    <2>3. CASE BeginObtain(t, n)
      <3> DEFINE k == NewTask("obtain", n, 0, "letsencrypt", 0)
      <3>1. k \in Task
        BY <1>0, NewTaskType DEF Steps, Sources
      <3>2. k.step = "obtain" /\ k.name = n /\ k.domain = domains[n]
        BY DEF NewTask
      <3>3. tasks' = [tasks EXCEPT ![t] = k] /\ UNCHANGED <<domains, certs, secrets, tls>>
        BY <2>3 DEF BeginObtain
      <3> HIDE DEF k
      <3>4. Stage(k)
        BY <2>1, <3>2 DEF Stage, Unserved
      <3> QED
        BY <1>1, <3>1, <3>3, <3>4
    <2>4. CASE BeginUpdateDomain(t, n)
      <3> DEFINE j == NewTask("saveDomain", n, 0, "manual", 0)
      <3>1. PICK s \in SslModes : tasks' = [tasks EXCEPT ![t] = [j EXCEPT !.domain.ssl = s]]
        BY <2>4 DEF BeginUpdateDomain
      <3>2. /\ j \in Task /\ j.step = "saveDomain" /\ j.name = n
            /\ j.domain = domains[n] /\ j.pem = 0
        BY <1>0, NewTaskType DEF Steps, Sources, NewTask
      <3> HIDE DEF j
      <3>3. PICK k \in Task : k = [j EXCEPT !.domain.ssl = s]
        BY <3>2 DEF Task, Domain
      <3>4. /\ k.step = "saveDomain" /\ k.name = n /\ k.pem = 0
            /\ k.domain.cert = domains[n].cert
        BY <3>2, <3>3 DEF Task, Domain
      <3>5. Stage(k)
        BY <2>1, <3>4 DEF Stage, Unserved
      <3> QED
        BY <1>1, <2>4, <3>1, <3>3, <3>5 DEF BeginUpdateDomain
    <2> QED
      BY <1>2, <2>2, <2>3, <2>4 DEF BeginAbout
  <1>3. ASSUME NEW t \in Tasks, NEW u \in Tasks, NEW i \in Ids, BeginDelete(t, u, i)
        PROVE  UnderDeletion(t, u)'
    <2> DEFINE j(step) == NewTask(step, certs[i].name, i, certs[i].source, certs[i].pem)
    <2>1. Exists(i) /\ certs[i].name \in Names /\ certs[i].pem # 0
      BY <1>0, <1>3, CertRow DEF BeginDelete, Pems
    <2>2. ASSUME NEW step \in {"deleteCert", "deleteSecret"}
          PROVE  /\ j(step) \in Task /\ j(step).step = step /\ j(step).id = i
                 /\ j(step).name = certs[i].name /\ j(step).pem = certs[i].pem
      BY <1>0, <2>1, NewTaskType, CertRow DEF Steps, NewTask
    <2>3. /\ tasks'[t] = j("deleteCert") /\ tasks'[u] = j("deleteSecret") /\ t # u
          /\ \A v \in Tasks : v # t /\ v # u => tasks'[v] = None
          /\ UNCHANGED <<domains, certs, secrets, tls>>
      BY <1>0, <1>3 DEF BeginDelete, Settled, AllIdle, Idle, TypeOK
    <2>4. \A n \in Names : Served(n)'
      BY <2>3, ServedKept DEF Settled
    <2> HIDE DEF j
    <2>5. domains[certs[i].name].cert = i
      BY <2>1 DEF Settled, Served, CertsOf
    <2>6. CertsOf(certs[i].name, {i})
      BY <2>1, <2>5 DEF Settled, Served, Ids
    <2>7. Holds(tasks[t])'
      <3>1. CertsOf(certs[i].name, {i})'
        BY <2>3, <2>6 DEF CertsOf, Exists
      <3> QED
        BY <2>1, <2>2, <2>3, <3>1 DEF Holds, CertsOf, Exists
    <2>8. ~Idle(t)' /\ ~Idle(u)' /\ \A v \in Tasks : v # t /\ v # u => Idle(v)'
      BY <2>2, <2>3, CertificatesAssumption DEF Idle
    <2> QED
      BY <2>2, <2>3, <2>4, <2>7, <2>8 DEF UnderDeletion
  <1> QED
    BY <1>2, <1>3 DEF CarefulBegin

\* With no update that has read an Ingress nothing gets outdated.
LEMMA NothingOutdated ==
    ASSUME NEW ts \in TaskTable, NEW n,
           \A t \in Tasks : ts[t] = None \/ ts[t].step # "putIngress"
    PROVE  Outdated(ts, n) = ts
  BY DEF Outdated, TaskTable

\* The only task of an operation takes its step: the operation comes further,
\* or ends and leaves every domain served.
LEMMA CarefulStep ==
    ASSUME Unfailing, TypeInv, CertsOwn, foreignKeys, NEW t \in Tasks, Under(t), Step(t)
    PROVE  Settled' \/ Under(t)'
  <1>p. PICK k \in Task, n \in Names : k = tasks[t] /\ n = k.name
    BY AtTask DEF Under, Alone, Task
  <1>0. /\ k = tasks[t] /\ n = k.name /\ StateOK /\ tasks \in TaskTable
        /\ ~Idle(t) /\ k.domain \in Domain /\ (k.step \in NeedsPem => k.pem \in Pems)
        /\ Alone(t) /\ Stage(k) /\ ServedBut(n)
        /\ "k8s" \notin Faults /\ "db" \notin Faults
    BY <1>p, AtTask, TypeParts DEF Under, Alone, Unfailing
  <1>a. ASSUME NEW kk \in Task, tasks' = [tasks EXCEPT ![t] = kk], kk.name = n,
               Stage(kk)', ServedBut(n)'
        PROVE  Under(t)'
    <2>1. Alone(t)' /\ tasks'[t] = kk
      BY <1>0, <1>a, AloneMoves
    <2> QED
      BY <1>a, <2>1 DEF Under, ServedBut, Stage, Holds, Unserved, Served, CertsOf, Exists
  <1>b. ASSUME End(t), Served(n)', ServedBut(n)'
        PROVE  Settled'
    <2>1. AllIdle'
      BY <1>0, <1>b, AloneEnds
    <2> QED
      BY <1>b, <2>1 DEF Settled, ServedBut
  <1>c. UNCHANGED <<domains, certs, secrets, tls>> => ServedBut(n)' /\ (Served(n) => Served(n)')
    BY <1>0, ServedButKept, ServedKept
  <1>1. CASE Obtain(t)
    <2>1. /\ k.step = "obtain" /\ Unserved(n) /\ k.domain.cert = 0
          /\ UNCHANGED <<domains, certs, secrets, tls>>
      BY <1>0, <1>1 DEF Obtain, At, Stage
    <2>2. CASE /\ Issue(n)
               /\ tasks' = [tasks EXCEPT ![t].step = "insertCert", ![t].pem = Len(issued) + 1]
      <3> DEFINE kk == [k EXCEPT !.step = "insertCert", !.pem = Len(issued) + 1]
      <3>1. Len(issued) + 1 \in 0 .. MaxPem
        BY <2>2, IssueType DEF TypeInv
      <3>2. /\ kk \in Task /\ kk.step = "insertCert" /\ kk.name = n /\ kk.domain = k.domain
            /\ tasks' = [tasks EXCEPT ![t] = kk]
        BY <1>0, <2>2, <3>1 DEF Task, Steps, TaskTable
      <3> HIDE DEF kk
      <3>3. Stage(kk)
        BY <2>1, <3>2 DEF Stage
      <3> QED
        BY <1>a, <1>c, <2>1, <3>2, <3>3, StageKept
    <2>3. CASE End(t)
      BY <1>b, <1>c, <2>1, <2>3 DEF Unserved
    <2> QED
      BY <1>0, <1>1, <2>2, <2>3 DEF Obtain
  <1>2. CASE InsertCert(t)
    <2>1. /\ k.step = "insertCert" /\ Unserved(n) /\ k.domain.cert = 0 /\ k.pem \in Pems
          /\ UNCHANGED <<domains, secrets, tls>>
      BY <1>0, <1>2 DEF InsertCert, At, Stage, NeedsPem
    <2> DEFINE cert == [name |-> n, source |-> k.source, pem |-> k.pem]
    <2>2. CASE RepoCreate(cert) /\ tasks' = [tasks EXCEPT ![t].step = "linkCert", ![t].id = FreshId]
      <3>1. cert \in Cert
        BY <1>0, <2>1 DEF Cert, Task
      <3>2. PICK i \in Ids : i = nextId /\ i \in 0 .. MaxId
        BY <1>0, <2>2, <3>1, RepoCreateType
      <3>3. /\ certs'[i] = cert /\ \A j \in Ids : j # i => certs'[j] = certs[j]
            /\ cert # None /\ cert.name = n /\ cert.pem = k.pem
        BY <1>0, <2>2, <3>1, <3>2, CertificatesAssumption DEF RepoCreate, FreshId, StateOK
      <3>4. ~Exists(i)
        BY <1>0, <3>2 DEF CertsOwn, StateOK
      <3> HIDE DEF cert
      <3> DEFINE kk == [k EXCEPT !.step = "linkCert", !.id = i]
      <3>5. /\ kk \in Task /\ kk.step = "linkCert" /\ kk.name = n /\ kk.id = i /\ kk.pem = k.pem
            /\ tasks' = [tasks EXCEPT ![t] = kk]
        BY <1>0, <2>2, <3>2 DEF Task, Steps, TaskTable, FreshId
      <3> HIDE DEF kk
      <3>6. CertsOf(n, {i})'
        BY <2>1, <3>3 DEF CertsOf, Exists, Unserved, Served
      <3>7. Stage(kk)'
        <4>1. secrets'[n] = None /\ domains'[n].cert = 0 /\ k.pem # 0
          BY <2>1 DEF Unserved, Served, Pems
        <4> QED
          BY <3>3, <3>5, <3>6, <4>1 DEF Stage, Holds
      <3>8. ServedBut(n)'
        <4>1. \A m \in Names : m # n => Served(m)'
          BY <1>0, <2>1, <3>3, <3>4, ServedKept DEF ServedBut
        <4> QED
          BY <4>1 DEF ServedBut
      <3> QED
        BY <1>a, <3>5, <3>7, <3>8
    <2>3. CASE UNCHANGED <<certs, nextId>> /\ End(t)
      BY <1>b, <1>c, <2>1, <2>3 DEF Unserved
    <2> QED
      BY <1>0, <1>2, <2>2, <2>3 DEF InsertCert
  <1>3. CASE LinkCert(t)
    <2>1. /\ k.step = "linkCert" /\ Holds(k) /\ secrets[n] = None /\ k.id \in Ids
          /\ Goto(t, "createSecret") /\ UNCHANGED <<certs, secrets, tls>>
      BY <1>0, <1>3 DEF LinkCert, At, Stage, Holds
    <2>2. PICK row \in Domain : row = [k.domain EXCEPT !.cert = k.id] /\ row.cert = k.id
      <3>1. k.id \in 0 .. MaxId
        BY DEF Task
      <3>2. [k.domain EXCEPT !.cert = k.id] \in Domain /\ [k.domain EXCEPT !.cert = k.id].cert = k.id
        BY <1>0, <3>1 DEF Domain
      <3> QED
        BY <3>2
    <2>3. domains' = [domains EXCEPT ![n] = row]
      <3>1. MayRefer(row.cert)
        BY <1>0, <2>1, <2>2 DEF MayRefer, Holds, CertsOf
      <3> QED
        BY <1>0, <1>3, <2>2, <3>1 DEF LinkCert, SaveRow, SaveMayFail
    <2>4. domains'[n].cert = k.id /\ \A m \in Names : m # n => domains'[m] = domains[m]
      BY <1>0, <2>2, <2>3 DEF StateOK
    <2> DEFINE kk == [k EXCEPT !.step = "createSecret"]
    <2>5. /\ kk \in Task /\ kk.step = "createSecret" /\ kk.name = n /\ kk.id = k.id /\ kk.pem = k.pem
          /\ tasks' = [tasks EXCEPT ![t] = kk]
      BY <1>0, <2>1 DEF Task, Steps, TaskTable, Goto
    <2> HIDE DEF kk
    <2>6. Holds(kk)'
      BY <1>0, <2>1, <2>5 DEF Holds, CertsOf, Exists
    <2>7. Stage(kk)'
      BY <2>1, <2>4, <2>5, <2>6 DEF Stage
    <2>8. ServedBut(n)'
      BY <1>0, <2>1, <2>4, ServedButKept
    <2> QED
      BY <1>a, <2>5, <2>7, <2>8
  <1>4. CASE CreateSecret(t)
    <2>1. /\ k.step = "createSecret" /\ Holds(k) /\ secrets[n] = None /\ domains[n].cert = k.id
          /\ UNCHANGED <<domains, certs, tls>>
      BY <1>0, <1>4 DEF CreateSecret, At, Stage
    <2>2. secrets' = [secrets EXCEPT ![n] = k.pem] /\ Goto(t, "getIngress")
      BY <1>0, <1>4, <2>1 DEF CreateSecret, SecretTaken
    <2>3. secrets'[n] = k.pem /\ \A m \in Names : m # n => secrets'[m] = secrets[m]
      BY <1>0, <2>2 DEF StateOK
    <2> DEFINE kk == [k EXCEPT !.step = "getIngress"]
    <2>4. /\ kk \in Task /\ kk.step = "getIngress" /\ kk.name = n /\ kk.id = k.id /\ kk.pem = k.pem
          /\ tasks' = [tasks EXCEPT ![t] = kk]
      BY <1>0, <2>2 DEF Task, Steps, TaskTable, Goto
    <2> HIDE DEF kk
    <2>5. Holds(kk)'
      BY <1>0, <2>1, <2>4 DEF Holds, CertsOf, Exists
    <2>6. Stage(kk)'
      BY <2>1, <2>3, <2>4, <2>5 DEF Stage
    <2>7. ServedBut(n)'
      BY <1>0, <2>1, <2>3, ServedButKept
    <2> QED
      BY <1>a, <2>4, <2>6, <2>7
  <1>5. CASE GetIngress(t)
    <2>1. /\ k.step = "getIngress" /\ UNCHANGED <<domains, certs, secrets, tls>>
          /\ tasks' = [tasks EXCEPT ![t].step = "putIngress", ![t].fresh = TRUE]
      BY <1>0, <1>5 DEF GetIngress, At
    <2>2. \/ Holds(k) /\ secrets[n] = k.pem /\ domains[n].cert = k.id
          \/ Unserved(n) /\ k.pem = 0
      BY <1>0, <2>1 DEF Stage
    <2> DEFINE kk == [k EXCEPT !.step = "putIngress", !.fresh = TRUE]
    <2>3. /\ kk \in Task /\ kk.step = "putIngress" /\ kk.name = n /\ kk.id = k.id /\ kk.pem = k.pem
          /\ kk.fresh /\ tasks' = [tasks EXCEPT ![t] = kk]
      BY <1>0, <2>1 DEF Task, Steps, TaskTable
    <2> HIDE DEF kk
    <2>4. Stage(kk)
      BY <1>0, <2>2, <2>3 DEF Stage, Holds
    <2> QED
      BY <1>a, <1>c, <2>1, <2>3, <2>4, StageKept
  <1>6. CASE PutIngress(t)
    <2> DEFINE ended == [tasks EXCEPT ![t] = None]
    <2>1. /\ k.step = "putIngress" /\ UNCHANGED <<domains, certs, secrets>> /\ k.fresh
          /\ tls' = [tls EXCEPT ![n] = Rendered(k)]
          /\ tasks' = Outdated(ended, n) \/ tasks' = ended
      BY <1>0, <1>6 DEF PutIngress, At, Stage
    <2>2. ended \in TaskTable /\ \A u \in Tasks : ended[u] = None \/ ended[u].step # "putIngress"
      BY <1>0 DEF TaskTable, Alone, Idle
    <2>3. End(t)
      <3> HIDE DEF ended
      <3>1. tasks' = ended
        BY <2>1, <2>2, NothingOutdated
      <3> QED
        BY <3>1 DEF End, ended
    <2>4. \/ Holds(k) /\ secrets[n] = k.pem /\ domains[n].cert = k.id
          \/ Unserved(n) /\ k.pem = 0
      BY <1>0, <2>1 DEF Stage
    <2>5. tls'[n] = Rendered(k) /\ \A m \in Names : m # n => tls'[m] = tls[m]
      BY <1>0, <2>1 DEF StateOK
    <2>6. Served(n)'
      <3>1. CASE Holds(k) /\ secrets[n] = k.pem /\ domains[n].cert = k.id
        <4>1. CertsOf(n, {k.id})' /\ k.id # 0 /\ k.id \in Ids /\ tls'[n] = "cert"
          BY <1>0, <2>1, <2>5, <3>1 DEF Holds, CertsOf, Exists, Rendered, Ids
        <4> QED
          BY <2>1, <3>1, <4>1 DEF Served, Holds
      <3>2. CASE Unserved(n)
        BY <2>1, <3>2 DEF Unserved, Served, CertsOf, Exists
      <3> QED
        BY <2>4, <3>1, <3>2
    <2>7. ServedBut(n)'
      BY <1>0, <2>1, <2>5, ServedButKept
    <2> QED
      BY <1>b, <2>3, <2>6, <2>7
  <1>7. CASE Renew(t) \/ SaveCert(t)
    BY <1>0, <1>7 DEF Renew, SaveCert, At, Stage
  <1>8. CASE DeleteCert(t)
    <2>1. /\ k.step = "deleteCert" /\ Holds(k) /\ secrets[n] = None /\ domains[n].cert = k.id
          /\ RepoDelete(k.id) /\ End(t) /\ UNCHANGED <<secrets, tls>>
      BY <1>0, <1>8 DEF DeleteCert, At, Stage
    <2>2. /\ k.id \in Ids /\ k.id # 0 /\ Exists(k.id) /\ certs[k.id].name = n
          /\ certs' = [certs EXCEPT ![k.id] = None] /\ domains' = Unlinked(k.id)
      BY <1>0, <2>1 DEF Holds, CertsOf, RepoDelete, Ids
    <2>3. /\ \A j \in Ids : certs'[j] = IF j = k.id THEN None ELSE certs[j]
          /\ domains'[n] = [domains[n] EXCEPT !.cert = 0]
          /\ \A m \in Names : domains[m].cert # k.id => domains'[m] = domains[m]
      BY <1>0, <2>1, <2>2 DEF Unlinked, StateOK
    <2>4. domains'[n].cert = 0
      BY <1>0, <2>3 DEF StateOK, Domain
    <2>5. Served(n)'
      BY <1>0, <2>1, <2>3, <2>4 DEF Served, CertsOf, Exists, Holds
    <2>6. \A m \in Names : m # n => domains[m].cert # k.id
      BY <1>0, <2>2 DEF ServedBut, Served, CertsOf
    <2>7. \A m \in Names : m # n => Served(m)'
      BY <1>0, <2>1, <2>2, <2>3, <2>6, ServedKept DEF ServedBut, Exists
    <2>8. ServedBut(n)'
      BY <2>7 DEF ServedBut
    <2> QED
      BY <1>b, <2>1, <2>5, <2>8
  <1>9. CASE DeleteSecret(t)
    <2>1. /\ k.step = "deleteSecret" /\ CertsOf(n, {}) /\ domains[n].cert = 0
          /\ secrets' = [secrets EXCEPT ![n] = None] /\ End(t) /\ UNCHANGED <<domains, certs, tls>>
      BY <1>0, <1>9 DEF DeleteSecret, At, Stage
    <2>2. secrets'[n] = None /\ \A m \in Names : m # n => secrets'[m] = secrets[m]
      BY <1>0, <2>1 DEF StateOK
    <2>3. Served(n)'
      BY <2>1, <2>2 DEF Served, CertsOf, Exists
    <2>4. ServedBut(n)'
      BY <1>0, <2>1, <2>2, ServedButKept
    <2> QED
      BY <1>b, <2>1, <2>3, <2>4
  <1>10. CASE SaveDomain(t)
    <2>1. /\ k.step = "saveDomain" /\ Unserved(n) /\ k.domain.cert = 0 /\ k.pem = 0
          /\ UNCHANGED <<certs, secrets, tls>>
      BY <1>0, <1>10 DEF SaveDomain, At, Stage
    <2>2. domains' = [domains EXCEPT ![n] = k.domain] /\ Goto(t, "getIngress")
      BY <1>0, <1>10, <2>1 DEF SaveDomain, SaveRow, SaveMayFail, MayRefer
    <2>3. domains'[n].cert = 0 /\ \A m \in Names : m # n => domains'[m] = domains[m]
      BY <1>0, <2>1, <2>2 DEF StateOK
    <2> DEFINE kk == [k EXCEPT !.step = "getIngress"]
    <2>4. /\ kk \in Task /\ kk.step = "getIngress" /\ kk.name = n /\ kk.pem = 0
          /\ tasks' = [tasks EXCEPT ![t] = kk]
      BY <1>0, <2>1, <2>2 DEF Task, Steps, TaskTable, Goto
    <2> HIDE DEF kk
    <2>5. Unserved(n)'
      BY <2>1, <2>3 DEF Unserved, Served, CertsOf, Exists
    <2>6. Stage(kk)'
      BY <2>4, <2>5 DEF Stage
    <2>7. ServedBut(n)'
      BY <1>0, <2>1, <2>3, ServedButKept
    <2> QED
      BY <1>a, <2>4, <2>6, <2>7
  <1> QED
    BY <1>1, <1>2, <1>3, <1>4, <1>5, <1>6, <1>7, <1>8, <1>9, <1>10 DEF Step

\* The first of the two tasks of a deletion ends.
LEMMA CarefulDeletion ==
    ASSUME Unfailing, TypeInv, foreignKeys, NEW t \in Tasks, NEW u \in Tasks, NEW v \in Tasks,
           UnderDeletion(t, u), Step(v)
    PROVE  Under(t)' \/ Under(u)'
  <1>p. PICK k \in Task, d \in Task, n \in Names : k = tasks[t] /\ d = tasks[u] /\ n = k.name
    BY AtTask DEF UnderDeletion, Task
  <1>0. /\ k = tasks[t] /\ d = tasks[u] /\ n = k.name /\ n = d.name /\ k.id = d.id
        /\ k.step = "deleteCert" /\ d.step = "deleteSecret" /\ Holds(k) /\ t # u
        /\ (\A m \in Names : Served(m)) /\ StateOK /\ tasks \in TaskTable
        /\ "k8s" \notin Faults /\ "db" \notin Faults
    BY <1>p, TypeParts DEF UnderDeletion, Unfailing
  <1>1. v \in {t, u} /\ (v = t => DeleteCert(v)) /\ (v = u => DeleteSecret(v))
    <2>1. ~Idle(v)
      BY StepTask
    <2>2. v \in {t, u}
      BY <2>1 DEF UnderDeletion
    <2> QED
      BY <1>0, <2>2 DEF Step, Obtain, InsertCert, LinkCert, CreateSecret, GetIngress, PutIngress,
                        Renew, SaveCert, DeleteCert, DeleteSecret, SaveDomain, At
  <1>2. CertsOf(n, {k.id}) /\ k.id \in Ids /\ k.id # 0 /\ Exists(k.id) /\ certs[k.id].name = n
    BY <1>0 DEF Holds, CertsOf, Ids
  <1>3. domains[n].cert = k.id
    BY <1>0, <1>2 DEF Served, CertsOf
  <1>4. CASE v = t
    <2>1. RepoDelete(k.id) /\ End(t) /\ UNCHANGED <<secrets, tls>>
      BY <1>0, <1>1, <1>4 DEF DeleteCert
    <2>2. Alone(u)' /\ tasks'[u] = d
      BY <1>0, <2>1, CertificatesAssumption DEF End, Alone, Idle, TaskTable, UnderDeletion
    <2>3. certs' = [certs EXCEPT ![k.id] = None] /\ domains' = Unlinked(k.id)
      BY <2>1 DEF RepoDelete
    <2>4. /\ \A j \in Ids : certs'[j] = IF j = k.id THEN None ELSE certs[j]
          /\ domains'[n] = [domains[n] EXCEPT !.cert = 0]
          /\ \A m \in Names : domains[m].cert # k.id => domains'[m] = domains[m]
      BY <1>0, <1>2, <1>3, <2>3 DEF Unlinked, StateOK
    <2>5. domains'[n].cert = 0
      BY <1>0, <2>4 DEF StateOK, Domain
    <2>6. CertsOf(n, {})'
      BY <1>2, <2>4 DEF CertsOf, Exists
    <2>7. Stage(d)'
      BY <1>0, <2>5, <2>6 DEF Stage
    <2>8. \A m \in Names : m # n => domains[m].cert # k.id
      BY <1>0, <1>2 DEF Served, CertsOf
    <2>9. \A m \in Names : m # n => Served(m)'
      BY <1>0, <1>2, <2>1, <2>4, <2>8, ServedKept DEF Exists
    <2>10. ServedBut(n)'
      BY <2>9 DEF ServedBut
    <2> QED
      BY <1>0, <2>2, <2>7, <2>10
         DEF Under, ServedBut, Stage, Holds, Unserved, Served, CertsOf, Exists
  <1>5. CASE v = u
    <2>1. /\ secrets' = [secrets EXCEPT ![n] = None] /\ End(u) /\ UNCHANGED <<domains, certs, tls>>
      BY <1>0, <1>1, <1>5 DEF DeleteSecret
    <2>2. Alone(t)' /\ tasks'[t] = k
      BY <1>0, <2>1, CertificatesAssumption DEF End, Alone, Idle, TaskTable, UnderDeletion
    <2>3. secrets'[n] = None /\ \A m \in Names : m # n => secrets'[m] = secrets[m]
      BY <1>0, <2>1 DEF StateOK
    <2>4. Stage(k)'
      BY <1>0, <1>2, <1>3, <2>1, <2>3 DEF Stage, Holds, CertsOf, Exists
    <2>5. ServedBut(n)
      BY <1>0 DEF ServedBut
    <2>6. ServedBut(n)'
      BY <2>1, <2>3, <2>5, ServedButKept
    <2>7. Stage(tasks[t])'
      BY <2>2, <2>4 DEF Stage, Holds, Unserved, Served, CertsOf, Exists
    <2>8. ServedBut(tasks[t].name)'
      BY <1>0, <2>2, <2>6 DEF ServedBut, Served, CertsOf, Exists
    <2> QED
      BY <2>2, <2>7, <2>8 DEF Under
  <1> QED
    BY <1>1, <1>4, <1>5

\* Only a new connection and a restart change what the connection enforces.
LEMMA CarefulEnforced ==
    ASSUME CarefulBegin \/ \E t \in Tasks : Step(t)
    PROVE  foreignKeys' = foreignKeys
  BY DEF CarefulBegin, BeginAbout, BeginUpload, BeginObtain, BeginUpdateDomain, BeginDelete,
         Step, Obtain, InsertCert, LinkCert, CreateSecret, GetIngress, PutIngress,
         Renew, SaveCert, DeleteCert, DeleteSecret, SaveDomain

LEMMA SerialInit == Init => SerialInv
  <1> SUFFICES ASSUME Init
               PROVE  SerialInv
    OBVIOUS
  <1>1. \A n \in Names : domains[n].cert = 0 /\ secrets[n] = None
    BY DEF Init
  <1>2. \A n \in Names : CertsOf(n, {})
    BY DEF Init, CertsOf, Exists
  <1>3. Settled
    BY <1>1, <1>2 DEF Init, Settled, AllIdle, Idle, Served
  <1> QED
    BY <1>3 DEF Init, SerialInv

LEMMA SerialKept ==
    ASSUME Unfailing, TypeInv, CertsOwn, SerialInv,
           [(AllIdle /\ CarefulBegin) \/ \E t \in Tasks : Step(t)]_vars
    PROVE  SerialInv'
  <1>1. CASE AllIdle /\ CarefulBegin
    <2>1. Settled
      BY <1>1 DEF SerialInv, AllIdle, Under, Alone, UnderDeletion
    <2>2. foreignKeys'
      BY <1>1, CarefulEnforced DEF SerialInv
    <2> QED
      BY <1>1, <2>1, <2>2, CarefulBegins DEF SerialInv
  <1>2. ASSUME NEW v \in Tasks, Step(v)
        PROVE  SerialInv'
    <2>1. foreignKeys /\ foreignKeys'
      BY <1>2, CarefulEnforced DEF SerialInv
    <2>2. ~Idle(v)
      BY <1>2, StepTask
    <2>3. CASE Settled
      BY <2>2, <2>3 DEF Settled, AllIdle
    <2>4. ASSUME NEW t \in Tasks, Under(t)
          PROVE  SerialInv'
      <3>1. v = t
        BY <2>2, <2>4 DEF Under, Alone
      <3> QED
        BY <1>2, <2>1, <2>4, <3>1, CarefulStep DEF SerialInv
    <2>5. ASSUME NEW t \in Tasks, NEW u \in Tasks, UnderDeletion(t, u)
          PROVE  SerialInv'
      BY <1>2, <2>1, <2>5, CarefulDeletion DEF SerialInv
    <2> QED
      BY <2>3, <2>4, <2>5 DEF SerialInv
  <1>3. CASE UNCHANGED vars
    <2>1. UNCHANGED <<domains, certs, secrets, tls, foreignKeys, tasks>>
      BY <1>3 DEF vars
    <2>2. \A n \in Names : Served(n) => Served(n)'
      BY <2>1, ServedKept
    <2>3. Settled => Settled'
      BY <2>1, <2>2 DEF Settled, AllIdle, Idle
    <2>4. \A t \in Tasks : Under(t) => Under(t)'
      BY <2>1 DEF Under, Alone, Idle, ServedBut, Stage, Holds, Unserved, Served, CertsOf, Exists
    <2>5. \A t, u \in Tasks : UnderDeletion(t, u) => UnderDeletion(t, u)'
      BY <2>1, <2>2 DEF UnderDeletion, Idle, Holds, CertsOf, Exists
    <2> QED
      BY <2>1, <2>3, <2>4, <2>5 DEF SerialInv
  <1> QED
    BY <1>1, <1>2, <1>3

\* SettledServed, of clients that wait for one operation to end before they
\* begin the next and replace a certificate by deleting it first, whatever the
\* server of certificates answers: when nothing is running the certificate of
\* a domain is the one it refers to, is in its Secret and is what the Ingress
\* names, and no Secret is left without one.
THEOREM CarefulServesAll == ASSUME Unfailing PROVE CarefulSpec => []SettledServed
  <1>1. CarefulSpec => Spec
    <2>1. [(AllIdle /\ CarefulBegin) \/ \E t \in Tasks : Step(t)]_vars => [Next]_vars
      BY DEF CarefulBegin, Begin, BeginWith, Next
    <2> QED
      BY <2>1, PTL DEF CarefulSpec, Spec
  <1>2. TypeInv /\ SerialInv => SettledServed
    <2> SUFFICES ASSUME TypeInv, SerialInv, AllIdle, NEW n \in Names
                 PROVE  LET i == domains[n].cert
                        IN /\ i # 0 => Exists(i) /\ secrets[n] = certs[i].pem /\ tls[n] = "cert"
                           /\ i = 0 => Bare(n) /\ secrets[n] = None
      BY DEF SettledServed
    <2>1. Served(n)
      BY DEF SerialInv, AllIdle, Under, Alone, UnderDeletion, Settled
    <2> QED
      BY <2>1 DEF Served, CertsOf, Bare
  <1>3. TypeInv /\ OwnInv /\ SerialInv
          /\ [(AllIdle /\ CarefulBegin) \/ \E t \in Tasks : Step(t)]_vars => SerialInv'
    BY SerialKept DEF OwnInv
  <1>4. [Next]_vars /\ TypeInv /\ OwnInv => OwnInv'
    BY OwnNext
  <1> QED
    BY <1>1, <1>2, <1>3, <1>4, TypeCorrect, OwnInit, SerialInit, PTL DEF CarefulSpec, Spec

=============================================================================
