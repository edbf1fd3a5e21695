------------------------------- MODULE Reports -------------------------------
(***************************************************************************)
(* Requests that read tables and cluster one piece after another and tell  *)
(* what they found: the diagnosis of a domain, the list of certificates    *)
(* with those of cert-manager, the health of the system.  Meanwhile other  *)
(* requests write and the cluster changes.                                 *)
(*                                                                         *)
(* The database has one connection.  A statement needs it for one step;    *)
(* the list of certificates reads its rows while it asks the cluster about *)
(* each, and keeps the connection until it has closed them.                *)
(***************************************************************************)
EXTENDS FiniteSets, Naturals

CONSTANTS
    Domains,        \* rows of the table domains
    World,          \* the states its objects can be in, of all there are
    MaxChanges,     \* bound: changes of a domain while it is diagnosed
    None

VARIABLES
    rows,           \* rows[d]: what the row of d says of TLS, or None
    cluster,        \* cluster[d]: the objects d needs
    conn,           \* "free", or "listing" holds the connection
    diagnosis,      \* GetDomainDiagnostics, or None
    listing,        \* ListCertificates, or None
    probe           \* GetHealthStatus: the step it is at, or None

vars == <<rows, cluster, conn, diagnosis, listing, probe>>

\* ssl_mode and enabled, and whether the row has a certificate_id: "uploaded" is
\* auto and enabled with one, as an upload leaves ssl_mode as it is.
Modes == {"auto", "paused", "manual", "uploaded"}

\* secret is domain-<id>-tls; wildcard says whether the Ingress names the Secret
\* of a wildcard in its place, and whether a certificate is in that one.
Objects == {o \in [ingress  : {"none", "pending", "ready"},
                   service  : {"none", "otherPort", "ready"},
                   secret   : {"none", "other", "tls"},
                   wildcard : {"unused", "missing", "ready"}] :
              o.ingress = "none" => o.wildcard = "unused"}

Verdicts == {"healthy", "warning", "error", "not_found", "not_configured"}
Diagnosis == [step : {"ingress", "service", "port", "certificate", "secret", "row", "done"},
              domain : Domains, mode : Modes,
              ingress : Verdicts \cup {None}, service : Verdicts \cup {None},
              certificate : Verdicts \cup {None},
              seen : SUBSET [mode : Modes \cup {None}, objects : Objects],
              failed : BOOLEAN]
Listing == [step : {"rows", "secrets", "count"}, todo : SUBSET Domains, found : SUBSET Domains]

ASSUME ReportsAssumption ==
    /\ MaxChanges \in Nat
    /\ World \subseteq Objects
    /\ None \notin Modes \cup Verdicts \cup Diagnosis \cup Listing \cup {"db", "k8s"}

Free == conn = "free"
Situation(d) == [mode |-> rows[d], objects |-> cluster[d]]

-----------------------------------------------------------------------------
(* GetDomainDiagnostics.  seen and failed are history: the situations of   *)
(* the domain since its row was read, and whether a call has failed.       *)

Step(s) == diagnosis # None /\ diagnosis.step = s
Diagnosed == diagnosis.domain
Is(object, states) == cluster[Diagnosed][object] \in states

\* The request goes on to step s with one more verdict.
Report(part, verdict, s) ==
    diagnosis' = [diagnosis EXCEPT ![part] = verdict, !.step = s]
Fail(part, verdict, s) ==
    diagnosis' = [diagnosis EXCEPT ![part] = verdict, !.step = s, !.failed = TRUE]
Ask(s) == diagnosis' = [diagnosis EXCEPT !.step = s]

GetDomainDiagnostics ==
    /\ diagnosis = None /\ Free
    /\ \E d \in Domains :
        /\ rows[d] # None
        /\ diagnosis' = [step |-> "ingress", domain |-> d, mode |-> rows[d],
                         ingress |-> None, service |-> None, certificate |-> None,
                         seen |-> {Situation(d)}, failed |-> FALSE]
    /\ UNCHANGED <<rows, cluster, conn, listing, probe>>

CheckIngress ==
    /\ Step("ingress")
    /\ \/ Is("ingress", {"none"})    /\ Report("ingress", "not_found", "service")
       \/ Is("ingress", {"pending"}) /\ Report("ingress", "warning", "service")
       \/ Is("ingress", {"ready"})   /\ Report("ingress", "healthy", "service")
       \/ Fail("ingress", "not_found", "service")

\* A service that is not there is an error like any other: the text of the
\* client's error is not the one ServiceExists looks for.
ServiceExists ==
    /\ Step("service")
    /\ \/ Is("service", {"none"})               /\ Report("service", "error", "certificate")
       \/ Is("service", {"otherPort", "ready"}) /\ Ask("port")
       \/ Fail("service", "error", "certificate")

\* Mutated form of ValidateService: the port is not looked at.
ValidateService_AnyPort ==
    /\ Step("port")
    /\ \/ Report("service", "healthy", "certificate")
       \/ Fail("service", "warning", "certificate")

\* It gets the service again, which may have changed or gone.
ValidateService ==
    /\ Step("port")
    /\ \/ Is("service", {"ready"})             /\ Report("service", "healthy", "certificate")
       \/ Is("service", {"none", "otherPort"}) /\ Report("service", "warning", "certificate")
       \/ Fail("service", "warning", "certificate")

\* What becomes of the certificate is decided by the mode that was read.  The
\* Secret that is looked for is the domain's own, whichever the Ingress names.
CheckCertificate ==
    /\ Step("certificate")
    /\ \/ diagnosis.mode = "uploaded" /\ Ask("row")
       \/ diagnosis.mode = "manual"   /\ Report("certificate", "not_configured", "done")
       \/ /\ diagnosis.mode \in {"auto", "paused"}
          /\ \/ Is("secret", {"other", "tls"}) /\ Ask("secret")
             \/ Is("secret", {"none"})         /\ Report("certificate", "warning", "done")
             \/ Fail("certificate", "warning", "done")

GetSecret ==
    /\ Step("secret")
    /\ \/ Is("secret", {"tls"})           /\ Report("certificate", "healthy", "done")
       \/ Is("secret", {"none", "other"}) /\ Report("certificate", "warning", "done")
       \/ Fail("certificate", "warning", "done")

\* Mutated form of GetCertificate: the error is logged and not reported.
GetCertificate_Silent ==
    /\ Step("row") /\ Free
    /\ Ask("done")

\* The query names a column certificates does not have: it always fails.
GetCertificate ==
    /\ Step("row") /\ Free
    /\ Report("certificate", "error", "done")

Parts(r) == {r.ingress, r.service, r.certificate}

\* Mutated form of determineOverallHealth: warnings come before errors.
OverallHealth_WarningsFirst(r) ==
    IF Parts(r) \cap {"warning", "not_configured"} # {} THEN "degraded"
    ELSE IF Parts(r) \cap {"error", "not_found"} # {} THEN "error"
    ELSE "healthy"

OverallHealth(r) ==
    IF Parts(r) \cap {"error", "not_found"} # {} THEN "error"
    ELSE IF Parts(r) \cap {"warning", "not_configured"} # {} THEN "degraded"
    ELSE "healthy"

Reply == Step("done") /\ diagnosis' = None

Check ==
    /\ CheckIngress \/ ServiceExists \/ ValidateService \/ CheckCertificate \/ GetSecret \/ Reply
    /\ UNCHANGED <<rows, cluster, conn, listing, probe>>

CheckRow == GetCertificate /\ UNCHANGED <<rows, cluster, conn, listing, probe>>

-----------------------------------------------------------------------------
(* ListCertificates                                                        *)

ListCertificates ==
    /\ listing = None /\ Free
    /\ listing' = [step |-> "rows", todo |-> {}, found |-> {}]
    /\ UNCHANGED <<rows, cluster, conn, diagnosis, probe>>

\* ssl_mode = 'auto' AND enabled = 1, with a certificate_id or without.
InList(mode) == mode \in {"auto", "uploaded"}
Listed == {d \in Domains : InList(rows[d])}

\* Mutated form of QueryRows: the connection goes back at once.
QueryRows_Released ==
    /\ listing' = [listing EXCEPT !.step = "secrets", !.todo = Listed]
    /\ UNCHANGED conn

QueryRows ==
    /\ listing' = [listing EXCEPT !.step = "secrets", !.todo = Listed]
    /\ conn' = "listing"

\* A query that fails is only logged: the list goes on without these rows.
OpenRows ==
    /\ listing # None /\ listing.step = "rows" /\ Free
    /\ \/ QueryRows
       \/ listing' = [listing EXCEPT !.step = "count"] /\ UNCHANGED conn
    /\ UNCHANGED <<rows, cluster, diagnosis, probe>>

\* A Secret that is missing, cannot be read or has no certificate is skipped.
NextRow ==
    /\ listing # None /\ listing.step = "secrets"
    /\ \E d \in listing.todo :
        \/ cluster[d].secret = "tls"
            /\ listing' = [listing EXCEPT !.todo = @ \ {d}, !.found = @ \cup {d}]
        \/ listing' = [listing EXCEPT !.todo = @ \ {d}]
    /\ UNCHANGED <<rows, cluster, conn, diagnosis, probe>>

\* Mutated form of Release: rows that are not closed keep the connection.
Release_Never == UNCHANGED conn

Release == conn' = "free"

CloseRows ==
    /\ listing # None /\ listing.step = "secrets" /\ listing.todo = {}
    /\ Release
    /\ listing' = [listing EXCEPT !.step = "count"]
    /\ UNCHANGED <<rows, cluster, diagnosis, probe>>

Count ==
    /\ listing # None /\ listing.step = "count" /\ Free
    /\ listing' = None
    /\ UNCHANGED <<rows, cluster, conn, diagnosis, probe>>

-----------------------------------------------------------------------------
(* GetHealthStatus: a ping of the database, then a call to the cluster.    *)

GetHealthStatus ==
    /\ probe = None
    /\ probe' = "db"
    /\ UNCHANGED <<rows, cluster, conn, diagnosis, listing>>

Ping ==
    /\ probe = "db" /\ Free
    /\ probe' = "k8s"
    /\ UNCHANGED <<rows, cluster, conn, diagnosis, listing>>

CheckKubernetes ==
    /\ probe = "k8s"
    /\ probe' = None
    /\ UNCHANGED <<rows, cluster, conn, diagnosis, listing>>

-----------------------------------------------------------------------------
(* Everybody else                                                          *)

\* d is in situation s; a diagnosis of d has one more in its history.
Witnessed(d, s) ==
    IF diagnosis # None /\ Diagnosed = d
    THEN /\ Cardinality(diagnosis.seen) <= MaxChanges
         /\ diagnosis' = [diagnosis EXCEPT !.seen = @ \cup {s}]
    ELSE UNCHANGED diagnosis

WriteRow ==
    /\ Free
    /\ \E d \in Domains, m \in Modes \cup {None} :
        /\ rows' = [rows EXCEPT ![d] = m]
        /\ Witnessed(d, [Situation(d) EXCEPT !.mode = m])
    /\ UNCHANGED <<cluster, conn, listing, probe>>

\* o and p differ in one object, the Ingress with the Secret it names being one.
Apart(o, p) ==
    \E fields \in {{"ingress", "wildcard"}, {"service"}, {"secret"}} :
        \A f \in DOMAIN o \ fields : o[f] = p[f]

ClusterChanges ==
    /\ \E d \in Domains, o \in World :
        /\ Apart(cluster[d], o)
        /\ cluster' = [cluster EXCEPT ![d] = o]
        /\ Witnessed(d, [Situation(d) EXCEPT !.objects = o])
    /\ UNCHANGED <<rows, conn, listing, probe>>

-----------------------------------------------------------------------------

Init ==
    /\ rows \in [Domains -> Modes \cup {None}]
    /\ cluster \in [Domains -> World]
    /\ conn = "free"
    /\ diagnosis = None
    /\ listing = None
    /\ probe = None

Next ==
    \/ GetDomainDiagnostics \/ Check \/ CheckRow
    \/ ListCertificates \/ OpenRows \/ NextRow \/ CloseRows \/ Count
    \/ GetHealthStatus \/ Ping \/ CheckKubernetes
    \/ WriteRow \/ ClusterChanges

Spec == Init /\ [][Next]_vars

\* Every call to the cluster is answered, and a connection that is returned
\* again and again is given to whoever waits for it in the end.
FairSpec ==
    /\ Spec
    /\ WF_vars(NextRow) /\ WF_vars(CloseRows) /\ WF_vars(CheckKubernetes)
    /\ SF_vars(Ping)

-----------------------------------------------------------------------------

\* Every variable has its type, and a finished diagnosis is complete.
TypeOK ==
    /\ rows \in [Domains -> Modes \cup {None}]
    /\ cluster \in [Domains -> Objects]
    /\ conn \in {"free", "listing"}
    /\ diagnosis # None =>
        /\ diagnosis.step \in {"ingress", "service", "port", "certificate", "secret", "row", "done"}
        /\ diagnosis.domain \in Domains /\ diagnosis.mode \in Modes
        /\ diagnosis.step = "done" => Parts(diagnosis) \subseteq Verdicts
    /\ listing \in Listing \cup {None}
    /\ probe \in {"db", "k8s", None}

Was(object, state) == \E s \in diagnosis.seen : s.objects[object] = state

\* Ingress, service and Secret are looked at one after another while all of
\* them change: what is reported healthy was so at some time since the
\* request came in, the service with its right port although that takes two
\* calls.
HealthyWasSo ==
    Step("done") =>
        /\ diagnosis.ingress = "healthy" => Was("ingress", "ready")
        /\ diagnosis.service = "healthy" => Was("service", "ready")
        /\ diagnosis.certificate = "healthy" => Was("secret", "tls")
        /\ OverallHealth(diagnosis) = "healthy" => diagnosis.mode \in {"auto", "paused"}

\* The Secret the Ingress names has a certificate.
Served(o) == IF o.wildcard = "unused" THEN o.secret = "tls" ELSE o.wildcard = "ready"

\* A domain that lacks nothing, but perhaps the certificate.
Up(s) == s.objects.ingress = "ready" /\ s.objects.service = "ready" /\ s.mode \in {"auto", "paused"}

\* How a domain in situation s is, whoever asks.
Grade(s) ==
    IF s.objects.ingress = "none" \/ s.objects.service = "none" THEN "error"
    ELSE IF Up(s) /\ Served(s.objects) THEN "healthy"
    ELSE "degraded"

\* The wildcard's Secret and the domain's own are not in the same state, and
\* nothing else is the matter.
Misread(s) == Up(s) /\ (Served(s.objects) # (s.objects.secret = "tls"))

\* A diagnosis nothing has interfered with is exact, for domains without a
\* certificate_id, but for the one that is wrong about every domain whose
\* Ingress names a wildcard's Secret when only that or only its own is there.
UndisturbedIsExact ==
    Step("done") /\ ~diagnosis.failed /\ diagnosis.mode # "uploaded" =>
        \A s \in diagnosis.seen : diagnosis.seen = {s} =>
            (OverallHealth(diagnosis) = Grade(s) <=> ~Misread(s))

\* The certificates of cert-manager are listed for the domains of one moment:
\* while the cluster is asked about one after another, no request can turn a
\* domain of the list into one that does not belong there.
ListedAtOnce ==
    listing # None /\ listing.step = "secrets" =>
        \A d \in listing.todo \cup listing.found : InList(rows[d])

\* The list keeps the only connection while it waits for the cluster, and the
\* health check needs it: it is answered all the same, however many lists
\* follow one another.
HealthIsAnswered == probe # None ~> probe = None

=============================================================================
