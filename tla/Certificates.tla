---------------------------- MODULE Certificates ----------------------------
(***************************************************************************)
(* CertificateService: the certificates table, the TLS Secrets and the     *)
(* Ingresses that use them, and the domain rows that refer to them.        *)
(*                                                                         *)
(* As in DomainSync a task is a handler or goroutine between two of its    *)
(* calls, one SQL statement or Kubernetes call is one step, and nothing    *)
(* orders, repeats or remembers goroutines.  A call to the ACME server is  *)
(* one step too: the client holds its mutex across it.                     *)
(*                                                                         *)
(* Here domains exist from the start, keep their namespace and have an     *)
(* Ingress; DomainSync has the rest of their life.  What a certificate     *)
(* says is its place in the order of issue.                                *)
(***************************************************************************)
EXTENDS Naturals, Sequences

CONSTANTS
    Names,          \* the domains
    SslModes,       \* the SSL modes clients use, of "auto" and "manual"
    MaxId,          \* the largest certificate id the table can give out
    MaxPem,         \* how many certificates are ever issued
    Tasks,          \* slots for the handlers and goroutines running at once
    Ops,            \* the operations clients call
    Faults,         \* what may fail: "k8s", "db", "acme", a "crash", and
                    \* "recycle": the database connection may be replaced
    None            \* no row, no Secret, no task

VARIABLES
    domains,        \* domains[n]: the columns ssl_mode and certificate_id of n
    certs,          \* table certificates: certs[i] is the row with id i, or None
    nextId,         \* the sequence behind AUTOINCREMENT
    issued,         \* issued[k] is the domain the k-th certificate is for
    secrets,        \* secrets[n]: the certificate in Secret "cert-<n>", or None
    tls,            \* tls[n]: what the TLS section of the Ingress of n names
    foreignKeys,    \* the connection enforces foreign keys
    tasks           \* tasks[t]: the handler or goroutine in slot t, or None

vars == <<domains, certs, nextId, issued, secrets, tls, foreignKeys, tasks>>

Ids == 1..MaxId
Pems == 1..MaxPem
Sources == {"letsencrypt", "manual"}
Steps == {"obtain", "insertCert", "linkCert", "createSecret", "renew", "saveCert",
          "deleteCert", "deleteSecret", "saveDomain", "getIngress", "putIngress"}

\* certificate_id is NULL (0) or an id; a certificate's row keeps its name,
\* source and content; an Ingress has no TLS section, or one that names the
\* Secret of cert-manager or the Secret "cert-<n>".
Domain == [ssl : SslModes, cert : 0..MaxId]
Cert == [name : Names, source : Sources, pem : Pems]
TlsSections == {"none", "auto", "cert"}

\* A task's copies: the row of the domain, and of the certificate if it is
\* about one (pem 0: it is not).
Task == [step : Steps, name : Names, id : 0..MaxId, source : Sources,
         pem : 0..MaxPem, domain : Domain, fresh : BOOLEAN]

ASSUME CertificatesAssumption ==
    /\ MaxId \in Nat /\ MaxPem \in Nat
    /\ SslModes \subseteq {"auto", "manual"}
    /\ None \notin Cert
    /\ None \notin Pems
    /\ None \notin Task
    /\ Ops \subseteq {"upload", "obtain", "renew", "delete", "updateDomain"}
    /\ Faults \subseteq {"k8s", "db", "acme", "crash", "recycle"}

-----------------------------------------------------------------------------
(* The tables                                                              *)

Exists(i) == certs[i] # None

\* Mutated form of FreshId: an id is skipped.
FreshId_Skipping == nextId + 1

\* Mutated form of FreshId: the rowid of a table without AUTOINCREMENT.
FreshId_Reusing ==
    CHOOSE i \in 1..nextId : /\ \A j \in Ids : j >= i => ~Exists(j)
                             /\ i = 1 \/ Exists(i - 1)

FreshId == nextId

RepoCreate(cert) ==
    /\ nextId <= MaxId
    /\ certs' = [certs EXCEPT ![FreshId] = cert]
    /\ nextId' = nextId + 1

\* CertificateRepository.Update writes the content, never name or source.
RepoUpdate(i, pem) ==
    /\ certs' = IF i \in Ids /\ Exists(i) THEN [certs EXCEPT ![i].pem = pem] ELSE certs
    /\ UNCHANGED nextId

\* certificate_id REFERENCES certificates(id) ON DELETE SET NULL, if the
\* connection enforces it and there is a row to delete.
Unlinked(i) ==
    [n \in Names |-> IF foreignKeys /\ Exists(i) /\ domains[n].cert = i
                     THEN [domains[n] EXCEPT !.cert = 0] ELSE domains[n]]

RepoDelete(i) ==
    /\ certs' = [certs EXCEPT ![i] = None]
    /\ domains' = Unlinked(i)
    /\ UNCHANGED nextId

\* Mutated form of MayRefer: any id will do.
MayRefer_Unchecked(i) == TRUE

MayRefer(i) == foreignKeys => i \in {0} \cup {j \in Ids : Exists(j)}

\* DomainRepository.Update writes the whole row, certificate_id included.
SaveRow(n, row) ==
    /\ MayRefer(row.cert)
    /\ domains' = [domains EXCEPT ![n] = row]

SaveMayFail(row) == ~MayRefer(row.cert) \/ "db" \in Faults

-----------------------------------------------------------------------------
(* Requests, up to their first write or call                               *)

Idle(t) == tasks[t] = None
AllIdle == \A t \in Tasks : Idle(t)
At(t, step) == ~Idle(t) /\ tasks[t].step = step

Goto(t, step) == tasks' = [tasks EXCEPT ![t].step = step]
End(t) == tasks' = [tasks EXCEPT ![t] = None]

NewTask(step, n, i, source, pem) ==
    [step |-> step, name |-> n, id |-> i, source |-> source, pem |-> pem,
     domain |-> domains[n], fresh |-> FALSE]

\* A certificate for n comes into the world.
Issue(n) == Len(issued) < MaxPem /\ issued' = Append(issued, n)

\* UploadCertificate, for a certificate that passes the validation.
BeginUpload(t, n) ==
    /\ "upload" \in Ops /\ Idle(t)
    /\ Issue(n)
    /\ tasks' = [tasks EXCEPT ![t] = NewTask("insertCert", n, 0, "manual", Len(issued) + 1)]
    /\ UNCHANGED <<domains, certs, nextId, secrets, tls, foreignKeys>>

\* ObtainLetsEncryptCertificate reads the domain before it asks the server.
BeginObtain(t, n) ==
    /\ "obtain" \in Ops /\ Idle(t)
    /\ tasks' = [tasks EXCEPT ![t] = NewTask("obtain", n, 0, "letsencrypt", 0)]
    /\ UNCHANGED <<domains, certs, nextId, issued, secrets, tls, foreignKeys>>

\* Mutated form of Renewable: a certificate of any source.
Renewable_Any(i) == Exists(i)

Renewable(i) == Exists(i) /\ certs[i].source = "letsencrypt"

\* RenewCertificate reads the certificate and its domain.
BeginRenew(t, i) ==
    /\ "renew" \in Ops /\ Idle(t)
    /\ Renewable(i)
    /\ tasks' = [tasks EXCEPT ![t] =
                    NewTask("renew", certs[i].name, i, certs[i].source, certs[i].pem)]
    /\ UNCHANGED <<domains, certs, nextId, issued, secrets, tls, foreignKeys>>

\* DeleteCertificate starts the goroutine that removes the Secret, in slot u,
\* before its DELETE.
BeginDelete(t, u, i) ==
    /\ "delete" \in Ops /\ Idle(t) /\ Idle(u) /\ t # u
    /\ Exists(i)
    /\ LET Deleting(step) == NewTask(step, certs[i].name, i, certs[i].source, certs[i].pem)
       IN tasks' = [tasks EXCEPT ![t] = Deleting("deleteCert"),
                                 ![u] = Deleting("deleteSecret")]
    /\ UNCHANGED <<domains, certs, nextId, issued, secrets, tls, foreignKeys>>

\* DomainService.UpdateDomain: it keeps the certificate_id it has read.
BeginUpdateDomain(t, n) ==
    /\ "updateDomain" \in Ops /\ Idle(t)
    /\ \E s \in SslModes :
         tasks' = [tasks EXCEPT ![t] = [NewTask("saveDomain", n, 0, "manual", 0)
                                          EXCEPT !.domain.ssl = s]]
    /\ UNCHANGED <<domains, certs, nextId, issued, secrets, tls, foreignKeys>>

-----------------------------------------------------------------------------
(* The rest of an upload, and of an obtained certificate                   *)

\* The ACME server issues a certificate, or all attempts fail.
Obtain(t) ==
    /\ At(t, "obtain")
    /\ \/ /\ Issue(tasks[t].name)
          /\ tasks' = [tasks EXCEPT ![t].step = "insertCert", ![t].pem = Len(issued) + 1]
       \/ ("acme" \in Faults \/ Len(issued) = MaxPem) /\ End(t) /\ UNCHANGED issued
    /\ UNCHANGED <<domains, certs, nextId, secrets, tls, foreignKeys>>

InsertCert(t) ==
    /\ At(t, "insertCert")
    /\ \/ /\ RepoCreate([name |-> tasks[t].name, source |-> tasks[t].source,
                         pem |-> tasks[t].pem])
          /\ tasks' = [tasks EXCEPT ![t].step = "linkCert", ![t].id = FreshId]
       \/ /\ nextId > MaxId \/ "db" \in Faults
          /\ UNCHANGED <<certs, nextId>> /\ End(t)
    /\ UNCHANGED <<domains, issued, secrets, tls, foreignKeys>>

\* The domain's row is written back with the new id; an error is only logged.
LinkCert(t) ==
    /\ At(t, "linkCert")
    /\ LET row == [tasks[t].domain EXCEPT !.cert = tasks[t].id]
       IN \/ SaveRow(tasks[t].name, row)
          \/ SaveMayFail(row) /\ UNCHANGED domains
    /\ Goto(t, "createSecret")
    /\ UNCHANGED <<certs, nextId, issued, secrets, tls, foreignKeys>>

SecretTaken(n) == secrets[n] # None

\* createSecretForCertificate creates the Secret, and only then turns to the
\* Ingress.  A call that fails on the way may still have taken effect.
CreateSecret(t) ==
    /\ At(t, "createSecret")
    /\ LET n == tasks[t].name
           Created == ~SecretTaken(n) /\ secrets' = [secrets EXCEPT ![n] = tasks[t].pem]
       IN \/ Created /\ Goto(t, "getIngress")
          \/ "k8s" \in Faults /\ Created /\ End(t)
          \/ (SecretTaken(n) \/ "k8s" \in Faults) /\ UNCHANGED secrets /\ End(t)
    /\ UNCHANGED <<domains, certs, nextId, issued, tls, foreignKeys>>

-----------------------------------------------------------------------------
(* Ingresses                                                               *)

\* updateDomainIngressWithCertificate names the certificate's Secret; an
\* update of the domain names what its SSL mode asks for.
Rendered(task) ==
    IF task.pem # 0 THEN "cert" ELSE IF task.domain.ssl = "auto" THEN "auto" ELSE "none"

Outdated(ts, n) ==
    [t \in Tasks |->
        IF ts[t] # None /\ ts[t].step = "putIngress" /\ ts[t].name = n
        THEN [ts[t] EXCEPT !.fresh = FALSE]
        ELSE ts[t]]

GetIngress(t) ==
    /\ At(t, "getIngress")
    /\ \/ tasks' = [tasks EXCEPT ![t].step = "putIngress", ![t].fresh = TRUE]
       \/ "k8s" \in Faults /\ End(t)
    /\ UNCHANGED <<domains, certs, nextId, issued, secrets, tls, foreignKeys>>

\* A write outdates what others have read, unless it changes nothing.
PutIngress(t) ==
    /\ At(t, "putIngress")
    /\ LET n == tasks[t].name
           ended == [tasks EXCEPT ![t] = None]
       IN \/ /\ tasks[t].fresh
             /\ tls' = [tls EXCEPT ![n] = Rendered(tasks[t])]
             /\ \/ tasks' = Outdated(ended, n)
                \/ tls' = tls /\ tasks' = ended
          \/ /\ ~tasks[t].fresh \/ "k8s" \in Faults
             /\ UNCHANGED tls /\ tasks' = ended
    /\ UNCHANGED <<domains, certs, nextId, issued, secrets, foreignKeys>>

-----------------------------------------------------------------------------
(* The rest of a renewal, a deletion and an update                         *)

\* letsencrypt.RenewCertificate: a new certificate, or none is needed yet, or
\* the server refuses.
Renew(t) ==
    /\ At(t, "renew")
    /\ \/ /\ Issue(tasks[t].name)
          /\ tasks' = [tasks EXCEPT ![t].step = "saveCert", ![t].pem = Len(issued) + 1]
       \/ End(t) /\ UNCHANGED issued
    /\ UNCHANGED <<domains, certs, nextId, secrets, tls, foreignKeys>>

SaveCert(t) ==
    /\ At(t, "saveCert")
    /\ \/ RepoUpdate(tasks[t].id, tasks[t].pem) /\ Goto(t, "createSecret")
       \/ "db" \in Faults /\ UNCHANGED <<certs, nextId>> /\ End(t)
    /\ UNCHANGED <<domains, issued, secrets, tls, foreignKeys>>

DeleteCert(t) ==
    /\ At(t, "deleteCert")
    /\ \/ RepoDelete(tasks[t].id)
       \/ "db" \in Faults /\ UNCHANGED <<domains, certs, nextId>>
    /\ End(t)
    /\ UNCHANGED <<issued, secrets, tls, foreignKeys>>

\* Mutated form of DeleteSecret: the goroutine gives up.
DeleteSecret_Never(t) ==
    /\ At(t, "deleteSecret")
    /\ End(t)
    /\ UNCHANGED <<domains, certs, nextId, issued, secrets, tls, foreignKeys>>

DeleteSecret(t) ==
    /\ At(t, "deleteSecret")
    /\ \/ secrets' = [secrets EXCEPT ![tasks[t].name] = None]
       \/ "k8s" \in Faults /\ UNCHANGED secrets
    /\ End(t)
    /\ UNCHANGED <<domains, certs, nextId, issued, tls, foreignKeys>>

\* Unlike an upload, an update of the domain ends with the error.
SaveDomain(t) ==
    /\ At(t, "saveDomain")
    /\ \/ SaveRow(tasks[t].name, tasks[t].domain) /\ Goto(t, "getIngress")
       \/ SaveMayFail(tasks[t].domain) /\ UNCHANGED domains /\ End(t)
    /\ UNCHANGED <<certs, nextId, issued, secrets, tls, foreignKeys>>

-----------------------------------------------------------------------------

\* The pool replaces the connection after five minutes, and the PRAGMA was
\* executed on the first one only.
Recycle ==
    /\ "recycle" \in Faults /\ foreignKeys
    /\ foreignKeys' = FALSE
    /\ UNCHANGED <<domains, certs, nextId, issued, secrets, tls, tasks>>

Restart ==
    /\ "crash" \in Faults
    /\ ~AllIdle
    /\ tasks' = [t \in Tasks |-> None]
    /\ foreignKeys' = TRUE
    /\ UNCHANGED <<domains, certs, nextId, issued, secrets, tls>>

Init ==
    /\ domains \in [Names -> [ssl : SslModes, cert : {0}]]
    /\ certs = [i \in Ids |-> None]
    /\ nextId = 1
    /\ issued = <<>>
    /\ secrets = [n \in Names |-> None]
    /\ tls = [n \in Names |-> IF domains[n].ssl = "auto" THEN "auto" ELSE "none"]
    /\ foreignKeys = TRUE
    /\ tasks = [t \in Tasks |-> None]

BeginAbout(t, n) ==
    BeginUpload(t, n) \/ BeginObtain(t, n) \/ BeginUpdateDomain(t, n)

BeginWith(t, i) == BeginRenew(t, i) \/ \E u \in Tasks : BeginDelete(t, u, i)

Begin == \E t \in Tasks :
    (\E n \in Names : BeginAbout(t, n)) \/ (\E i \in Ids : BeginWith(t, i))

Step(t) ==
    \/ Obtain(t) \/ InsertCert(t) \/ LinkCert(t) \/ CreateSecret(t)
    \/ GetIngress(t) \/ PutIngress(t)
    \/ Renew(t) \/ SaveCert(t)
    \/ DeleteCert(t) \/ DeleteSecret(t)
    \/ SaveDomain(t)

Next == Begin \/ (\E t \in Tasks : Step(t)) \/ Recycle \/ Restart

Spec == Init /\ [][Next]_vars

\* Clients that wait until everything an operation started has ended.
SerialSpec == Init /\ [][(AllIdle /\ Begin) \/ \E t \in Tasks : Step(t)]_vars

\* Clients that also delete the certificate of a domain before they bring or
\* obtain another, or update the domain.
Bare(n) == \A i \in Ids : Exists(i) => certs[i].name # n

CarefulBegin == \E t \in Tasks :
    \/ \E n \in Names : Bare(n) /\ BeginAbout(t, n)
    \/ \E i \in Ids, u \in Tasks : BeginDelete(t, u, i)

CarefulSpec == Init /\ [][(AllIdle /\ CarefulBegin) \/ \E t \in Tasks : Step(t)]_vars

-----------------------------------------------------------------------------
(* Properties                                                              *)

\* Every variable has its type.
TypeOK ==
    /\ domains \in [Names -> Domain]
    /\ certs \in [Ids -> Cert \cup {None}]
    /\ nextId \in 1..(MaxId + 1)
    /\ issued \in Seq(Names) /\ Len(issued) <= MaxPem
    /\ secrets \in [Names -> Pems \cup {None}]
    /\ tls \in [Names -> TlsSections]
    /\ foreignKeys \in BOOLEAN
    /\ tasks \in [Tasks -> Task \cup {None}]

\* Nothing mixes up two domains: the row a domain refers to, the content of a
\* row and the content of a Secret are all of that domain, also while a
\* reference dangles or a goroutine outlives the row it was started with.
OwnCertificate ==
    /\ \A n \in Names : LET i == domains[n].cert
                        IN i # 0 /\ Exists(i) => certs[i].name = n
    /\ \A i \in Ids : Exists(i) => issued[certs[i].pem] = certs[i].name
    /\ \A n \in Names : secrets[n] # None => issued[secrets[n]] = n

Dangles(n) == domains[n].cert # 0 /\ domains[n].cert \notin {i \in Ids : Exists(i)}

\* While the connection enforces foreign keys no write breaks a reference:
\* neither a deletion nor a row written back with an id read long before.
NoReferenceBreaks ==
    [][foreignKeys => \A n \in Names : ~Dangles(n) => ~Dangles(n)']_vars

\* No renewal, whoever starts it and whatever it has read, touches the
\* certificate a user brought.
UploadsAreKept ==
    [][\A i \in Ids : Exists(i) /\ certs[i].source = "manual" =>
          certs'[i] \in {certs[i], None}]_vars

\* When nothing is left running a domain's certificate is the one it refers
\* to, is in the Secret and is what the Ingress names; and a Secret belongs to
\* a certificate that is there.
SettledServed ==
    AllIdle => \A n \in Names :
        LET i == domains[n].cert
        IN /\ i # 0 => Exists(i) /\ secrets[n] = certs[i].pem /\ tls[n] = "cert"
           /\ i = 0 => Bare(n) /\ secrets[n] = None

=============================================================================
