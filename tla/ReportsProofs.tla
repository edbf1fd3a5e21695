---------------------------- MODULE ReportsProofs ----------------------------
(***************************************************************************)
(* Proofs about Reports, for every set of domains and however often what   *)
(* is looked at changes meanwhile.                                         *)
(***************************************************************************)
EXTENDS Reports, TLAPS

SituationType == [mode : Modes \cup {None}, objects : Objects]

\* The verdicts of one moment, for the objects o of a domain.
IngressVerdict(o) ==
    IF o.ingress = "none" THEN "not_found"
    ELSE IF o.ingress = "pending" THEN "warning" ELSE "healthy"
ServiceVerdict(o) ==
    IF o.service = "none" THEN "error"
    ELSE IF o.service = "otherPort" THEN "warning" ELSE "healthy"
CertificateVerdict(mode, o) ==
    IF mode = "manual" THEN "not_configured"
    ELSE IF o.secret = "tls" THEN "healthy" ELSE "warning"

AfterService == {"certificate", "secret", "row", "done"}

\* The parts a diagnosis has gone through have a verdict.
Complete(r) ==
    /\ r.step # "ingress" => r.ingress \in Verdicts
    /\ r.step \in AfterService => r.service \in Verdicts
    /\ r.step = "done" => r.certificate \in Verdicts
    /\ r.step = "secret" => r.mode \in {"auto", "paused"}
    /\ r.step = "row" => r.mode = "uploaded"
    /\ r.step = "done" /\ r.certificate = "healthy" => r.mode \in {"auto", "paused"}

\* What was found healthy was so in one of the situations s.
Witnessing(r) ==
    /\ r.ingress = "healthy" => \E s \in r.seen : s.objects.ingress = "ready"
    /\ r.service = "healthy" => \E s \in r.seen : s.objects.service = "ready"
    /\ r.certificate = "healthy" => \E s \in r.seen : s.objects.secret = "tls"
    /\ \E s \in r.seen : s.mode = r.mode

\* In one situation without failing calls the verdicts are those of that moment.
Exact(r) ==
    \A s \in r.seen : r.seen = {s} /\ ~r.failed =>
        /\ r.step # "ingress" => r.ingress = IngressVerdict(s.objects)
        /\ r.step = "port" => s.objects.service # "none"
        /\ r.step \in AfterService => r.service = ServiceVerdict(s.objects)
        /\ r.step = "secret" => s.objects.secret # "none"
        /\ r.step = "done" /\ r.mode # "uploaded" =>
                r.certificate = CertificateVerdict(r.mode, s.objects)

DiagnosisOK(r) == r \in Diagnosis /\ Complete(r) /\ Witnessing(r) /\ Exact(r)

DiagnosisInv ==
    diagnosis # None => DiagnosisOK(diagnosis) /\ Situation(diagnosis.domain) \in diagnosis.seen

TableInv ==
    /\ rows \in [Domains -> Modes \cup {None}]
    /\ cluster \in [Domains -> World]

ListingInv ==
    /\ conn \in {"free", "listing"}
    /\ listing \in Listing \cup {None}
    /\ listing # None /\ listing.step = "rows" => listing.found = {}
    /\ listing # None /\ listing.step = "secrets" =>
        conn = "listing" /\ \A d \in listing.todo \cup listing.found : InList(rows[d])

ProbeInv == probe \in {"db", "k8s", None}

Inv == DiagnosisInv /\ TableInv /\ ListingInv /\ ProbeInv

LEMMA ClusterTyped ==
    ASSUME Inv
    PROVE  cluster \in [Domains -> Objects] /\ rows \in [Domains -> Modes \cup {None}]
  BY ReportsAssumption DEF Inv, TableInv

-----------------------------------------------------------------------------
(* A diagnosis                                                             *)

LEMMA BeginDiagnosis ==
    ASSUME Inv, GetDomainDiagnostics
    PROVE  DiagnosisInv'
  <1>1. PICK d \in Domains :
            /\ rows[d] # None
            /\ diagnosis' = [step |-> "ingress", domain |-> d, mode |-> rows[d],
                             ingress |-> None, service |-> None, certificate |-> None,
                             seen |-> {Situation(d)}, failed |-> FALSE]
    BY DEF GetDomainDiagnostics
  <1>2. rows[d] \in Modes /\ Situation(d) \in SituationType /\ Situation(d)' = Situation(d)
    BY <1>1, ClusterTyped DEF Situation, SituationType, GetDomainDiagnostics
  <1>3. diagnosis' \in Diagnosis
    BY <1>1, <1>2 DEF Diagnosis, SituationType
  <1>4. Complete(diagnosis') /\ Exact(diagnosis')
    BY <1>1 DEF Complete, Exact, AfterService
  <1>5. Witnessing(diagnosis')
    BY <1>1, <1>2, ReportsAssumption DEF Witnessing, Situation, Verdicts
  <1> QED
    BY <1>1, <1>2, <1>3, <1>4, <1>5 DEF DiagnosisInv, DiagnosisOK

\* What a step can use: the situation of the moment is one of those seen.
LEMMA AtStep ==
    ASSUME Inv, NEW s, Step(s)
    PROVE  /\ diagnosis \in Diagnosis /\ diagnosis # None /\ diagnosis.step = s
           /\ Complete(diagnosis) /\ Witnessing(diagnosis) /\ Exact(diagnosis)
           /\ cluster[Diagnosed] \in Objects
           /\ \E t \in diagnosis.seen : t.objects = cluster[Diagnosed]
           /\ \A t \in diagnosis.seen : diagnosis.seen = {t} =>
                 t.objects = cluster[Diagnosed] /\ t.mode = diagnosis.mode
  <1>1. diagnosis # None /\ diagnosis.step = s /\ DiagnosisOK(diagnosis)
    BY DEF Step, Inv, DiagnosisInv
  <1>2. diagnosis.domain \in Domains
    BY <1>1 DEF DiagnosisOK, Diagnosis
  <1>3. Situation(diagnosis.domain) \in diagnosis.seen
    BY <1>1 DEF Inv, DiagnosisInv
  <1>4. Situation(diagnosis.domain).objects = cluster[Diagnosed]
    BY DEF Situation, Diagnosed
  <1>5. \E t \in diagnosis.seen : t.mode = diagnosis.mode
    BY <1>1 DEF DiagnosisOK, Witnessing
  <1> QED
    BY <1>1, <1>2, <1>3, <1>4, <1>5, ClusterTyped DEF DiagnosisOK, Diagnosed

\* What becomes of a diagnosis in one of its steps.
Went(r) ==
    /\ r \in Diagnosis
    /\ r.seen = diagnosis.seen /\ r.domain = diagnosis.domain /\ r.mode = diagnosis.mode
    /\ diagnosis.failed => r.failed

LEMMA IngressPart ==
    ASSUME diagnosis \in Diagnosis, NEW v \in Verdicts,
           NEW s \in {"service", "certificate", "done"},
           Report("ingress", v, s) \/ Fail("ingress", v, s)
    PROVE  /\ Went(diagnosis') /\ diagnosis'.step = s /\ diagnosis'.ingress = v
           /\ diagnosis'.service = diagnosis.service
           /\ diagnosis'.certificate = diagnosis.certificate
           /\ Fail("ingress", v, s) => diagnosis'.failed
  <1>1. CASE Report("ingress", v, s)
    BY <1>1 DEF Report, Fail, Diagnosis, Went
  <1>2. CASE Fail("ingress", v, s)
    BY <1>2 DEF Fail, Diagnosis, Went
  <1> QED
    BY <1>1, <1>2

LEMMA ServicePart ==
    ASSUME diagnosis \in Diagnosis, NEW v \in Verdicts,
           NEW s \in {"service", "certificate", "done"},
           Report("service", v, s) \/ Fail("service", v, s)
    PROVE  /\ Went(diagnosis') /\ diagnosis'.step = s /\ diagnosis'.service = v
           /\ diagnosis'.ingress = diagnosis.ingress
           /\ diagnosis'.certificate = diagnosis.certificate
           /\ Fail("service", v, s) => diagnosis'.failed
  <1>1. CASE Report("service", v, s)
    BY <1>1 DEF Report, Fail, Diagnosis, Went
  <1>2. CASE Fail("service", v, s)
    BY <1>2 DEF Fail, Diagnosis, Went
  <1> QED
    BY <1>1, <1>2

LEMMA CertificatePart ==
    ASSUME diagnosis \in Diagnosis, NEW v \in Verdicts,
           NEW s \in {"service", "certificate", "done"},
           Report("certificate", v, s) \/ Fail("certificate", v, s)
    PROVE  /\ Went(diagnosis') /\ diagnosis'.step = s /\ diagnosis'.certificate = v
           /\ diagnosis'.ingress = diagnosis.ingress
           /\ diagnosis'.service = diagnosis.service
           /\ Fail("certificate", v, s) => diagnosis'.failed
  <1>1. CASE Report("certificate", v, s)
    BY <1>1 DEF Report, Fail, Diagnosis, Went
  <1>2. CASE Fail("certificate", v, s)
    BY <1>2 DEF Fail, Diagnosis, Went
  <1> QED
    BY <1>1, <1>2

LEMMA AskPart ==
    ASSUME diagnosis \in Diagnosis, NEW s \in {"port", "secret", "row"}, Ask(s)
    PROVE  /\ Went(diagnosis') /\ diagnosis'.step = s /\ diagnosis'.failed = diagnosis.failed
           /\ diagnosis'.ingress = diagnosis.ingress /\ diagnosis'.service = diagnosis.service
           /\ diagnosis'.certificate = diagnosis.certificate
  BY DEF Ask, Diagnosis, Went

\* Each step gives the verdict of the moment, or one that is not "healthy" and
\* the call has failed.
LEMMA IngressStep ==
    ASSUME Inv, CheckIngress
    PROVE  /\ Went(diagnosis') /\ diagnosis'.step = "service"
           /\ diagnosis'.service = diagnosis.service
           /\ diagnosis'.certificate = diagnosis.certificate
           /\ diagnosis'.ingress \in Verdicts
           /\ \/ diagnosis'.ingress = IngressVerdict(cluster[Diagnosed])
              \/ diagnosis'.failed /\ diagnosis'.ingress # "healthy"
  <1>1. diagnosis \in Diagnosis /\ cluster[Diagnosed] \in Objects
    BY AtStep DEF CheckIngress
  <1>2. CASE Fail("ingress", "not_found", "service")
    BY <1>1, <1>2, IngressPart DEF Verdicts
  <1>3. CASE Is("ingress", {"none"}) /\ Report("ingress", "not_found", "service")
    BY <1>1, <1>3, IngressPart DEF Is, Verdicts, IngressVerdict
  <1>4. CASE Is("ingress", {"pending"}) /\ Report("ingress", "warning", "service")
    BY <1>1, <1>4, IngressPart DEF Is, Verdicts, IngressVerdict
  <1>5. CASE Is("ingress", {"ready"}) /\ Report("ingress", "healthy", "service")
    BY <1>1, <1>5, IngressPart DEF Is, Verdicts, IngressVerdict
  <1> QED
    BY <1>2, <1>3, <1>4, <1>5 DEF CheckIngress

LEMMA ServiceStep ==
    ASSUME Inv, ServiceExists
    PROVE  /\ Went(diagnosis') /\ diagnosis'.ingress = diagnosis.ingress
           /\ diagnosis'.certificate = diagnosis.certificate
           /\ \/ /\ diagnosis'.step = "port" /\ diagnosis'.service = diagnosis.service
                 /\ cluster[Diagnosed].service # "none"
              \/ /\ diagnosis'.step = "certificate" /\ diagnosis'.service = "error"
                 /\ diagnosis'.failed \/ ServiceVerdict(cluster[Diagnosed]) = "error"
  <1>1. diagnosis \in Diagnosis /\ cluster[Diagnosed] \in Objects
    BY AtStep DEF ServiceExists
  <1>2. CASE Fail("service", "error", "certificate")
    BY <1>1, <1>2, ServicePart DEF Verdicts
  <1>3. CASE Is("service", {"none"}) /\ Report("service", "error", "certificate")
    BY <1>1, <1>3, ServicePart DEF Is, Verdicts, ServiceVerdict
  <1>4. CASE Is("service", {"otherPort", "ready"}) /\ Ask("port")
    BY <1>1, <1>4, AskPart DEF Is
  <1> QED
    BY <1>2, <1>3, <1>4 DEF ServiceExists

LEMMA PortStep ==
    ASSUME Inv, ValidateService
    PROVE  /\ Went(diagnosis') /\ diagnosis'.ingress = diagnosis.ingress
           /\ diagnosis'.certificate = diagnosis.certificate
           /\ diagnosis'.step = "certificate" /\ diagnosis'.service \in Verdicts
           /\ \/ /\ diagnosis'.service = "healthy" /\ cluster[Diagnosed].service = "ready"
              \/ /\ diagnosis'.service = "warning"
                 /\ diagnosis'.failed \/ cluster[Diagnosed].service \in {"none", "otherPort"}
  <1>1. diagnosis \in Diagnosis /\ cluster[Diagnosed] \in Objects
    BY AtStep DEF ValidateService
  <1>2. CASE Fail("service", "warning", "certificate")
    BY <1>1, <1>2, ServicePart DEF Verdicts
  <1>3. CASE Is("service", {"ready"}) /\ Report("service", "healthy", "certificate")
    BY <1>1, <1>3, ServicePart DEF Is, Verdicts
  <1>4. CASE Is("service", {"none", "otherPort"}) /\ Report("service", "warning", "certificate")
    BY <1>1, <1>4, ServicePart DEF Is, Verdicts
  <1> QED
    BY <1>2, <1>3, <1>4 DEF ValidateService

CertificateStep == CheckCertificate \/ GetSecret \/ GetCertificate

LEMMA CertificateStepOK ==
    ASSUME Inv, CertificateStep
    PROVE  /\ Went(diagnosis') /\ diagnosis'.ingress = diagnosis.ingress
           /\ diagnosis'.service = diagnosis.service
           /\ \/ /\ diagnosis'.step = "row" /\ diagnosis.mode = "uploaded"
                 /\ diagnosis'.certificate = diagnosis.certificate
              \/ /\ diagnosis'.step = "secret" /\ diagnosis.mode \in {"auto", "paused"}
                 /\ diagnosis'.certificate = diagnosis.certificate
                 /\ cluster[Diagnosed].secret # "none"
              \/ /\ diagnosis'.step = "done" /\ diagnosis'.certificate = "healthy"
                 /\ cluster[Diagnosed].secret = "tls" /\ diagnosis.mode \in {"auto", "paused"}
              \/ /\ diagnosis'.step = "done" /\ diagnosis'.certificate \in Verdicts \ {"healthy"}
                 /\ \/ diagnosis.mode = "uploaded" \/ diagnosis'.failed
                    \/ diagnosis'.certificate =
                            CertificateVerdict(diagnosis.mode, cluster[Diagnosed])
  <1>1. /\ diagnosis \in Diagnosis /\ cluster[Diagnosed] \in Objects
        /\ diagnosis.step \in {"certificate", "secret", "row"}
        /\ diagnosis.step = "secret" => diagnosis.mode \in {"auto", "paused"}
        /\ diagnosis.step = "row" => diagnosis.mode = "uploaded"
    BY AtStep DEF CertificateStep, CheckCertificate, GetSecret, GetCertificate, Complete
  <1>2. CASE Ask("row") /\ diagnosis.mode = "uploaded"
    BY <1>1, <1>2, AskPart
  <1>3. CASE /\ Ask("secret") /\ diagnosis.mode \in {"auto", "paused"}
             /\ Is("secret", {"other", "tls"})
    BY <1>1, <1>3, AskPart DEF Is
  <1>4. CASE Fail("certificate", "warning", "done")
    BY <1>1, <1>4, CertificatePart DEF Verdicts
  <1>5. CASE Report("certificate", "not_configured", "done") /\ diagnosis.mode = "manual"
    BY <1>1, <1>5, CertificatePart DEF Verdicts, CertificateVerdict
  <1>6. CASE /\ Report("certificate", "warning", "done") /\ diagnosis.mode \in {"auto", "paused"}
             /\ Is("secret", {"none", "other"})
    BY <1>1, <1>6, CertificatePart DEF Is, Verdicts, CertificateVerdict
  <1>7. CASE /\ Report("certificate", "healthy", "done") /\ diagnosis.mode \in {"auto", "paused"}
             /\ Is("secret", {"tls"})
    BY <1>1, <1>7, CertificatePart DEF Is, Verdicts
  <1>8. CASE Report("certificate", "error", "done") /\ diagnosis.mode = "uploaded"
    BY <1>1, <1>8, CertificatePart DEF Verdicts
  <1>9. CASE CheckCertificate
    BY <1>2, <1>3, <1>4, <1>5, <1>6, <1>9 DEF CheckCertificate, Is
  <1>10. CASE GetSecret
    BY <1>1, <1>4, <1>6, <1>7, <1>10 DEF GetSecret, Step
  <1>11. CASE GetCertificate
    BY <1>1, <1>8, <1>11 DEF GetCertificate, Step
  <1> QED
    BY <1>9, <1>10, <1>11 DEF CertificateStep

LEMMA CheckOK ==
    ASSUME Inv, CheckIngress \/ ServiceExists \/ ValidateService \/ CertificateStep
    PROVE  DiagnosisOK(diagnosis') /\ Went(diagnosis') /\ diagnosis # None
  <1>1. PICK s : Step(s)
    BY DEF CheckIngress, ServiceExists, ValidateService, CertificateStep, CheckCertificate,
           GetSecret, GetCertificate
  <1>2. /\ diagnosis \in Diagnosis /\ diagnosis # None
        /\ Complete(diagnosis) /\ Witnessing(diagnosis) /\ Exact(diagnosis)
        /\ cluster[Diagnosed] \in Objects
        /\ \E t \in diagnosis.seen : t.objects = cluster[Diagnosed]
        /\ \A t \in diagnosis.seen : diagnosis.seen = {t} =>
              t.objects = cluster[Diagnosed] /\ t.mode = diagnosis.mode
    BY <1>1, AtStep
  <1> DEFINE r == diagnosis'
  <1>3. CASE CheckIngress
    <2>1. diagnosis.step = "ingress"
      BY <1>3 DEF CheckIngress, Step
    <2>2. Complete(r)
      BY <1>2, <1>3, IngressStep DEF Complete, AfterService
    <2>3. Witnessing(r)
      BY <1>2, <1>3, IngressStep DEF Witnessing, Went, IngressVerdict, Objects
    <2>4. Exact(r)
      BY <1>2, <1>3, IngressStep DEF Exact, Went, AfterService
    <2> QED
      BY <1>2, <1>3, <2>2, <2>3, <2>4, IngressStep DEF DiagnosisOK, Went
  <1>4. CASE ServiceExists
    <2>1. diagnosis.step = "service"
      BY <1>4 DEF ServiceExists, Step
    <2>2. Complete(r)
      BY <1>2, <1>4, <2>1, ServiceStep DEF Complete, AfterService, Verdicts
    <2>3. Witnessing(r)
      BY <1>2, <1>4, ServiceStep DEF Witnessing, Went
    <2>4. Exact(r)
      BY <1>2, <1>4, <2>1, ServiceStep DEF Exact, Went, AfterService
    <2> QED
      BY <1>2, <1>4, <2>2, <2>3, <2>4, ServiceStep DEF DiagnosisOK, Went
  <1>5. CASE ValidateService
    <2>1. diagnosis.step = "port"
      BY <1>5 DEF ValidateService, Step
    <2>2. Complete(r)
      BY <1>2, <1>5, <2>1, PortStep DEF Complete, AfterService
    <2>3. Witnessing(r)
      BY <1>2, <1>5, PortStep DEF Witnessing, Went
    <2>4. Exact(r)
      BY <1>2, <1>5, <2>1, PortStep DEF Exact, Went, AfterService, ServiceVerdict
    <2> QED
      BY <1>2, <1>5, <2>2, <2>3, <2>4, PortStep DEF DiagnosisOK, Went
  <1>6. CASE CertificateStep
    <2>1. diagnosis.step \in {"certificate", "secret", "row"}
      BY <1>6 DEF CertificateStep, CheckCertificate, GetSecret, GetCertificate, Step
    <2>2. Complete(r)
      BY <1>2, <1>6, <2>1, CertificateStepOK DEF Complete, AfterService, Verdicts, Went
    <2>3. Witnessing(r)
      BY <1>2, <1>6, CertificateStepOK DEF Witnessing, Went
    <2>4. Exact(r)
      BY <1>2, <1>6, <2>1, CertificateStepOK DEF Exact, Went, AfterService, CertificateVerdict
    <2> QED
      BY <1>2, <1>6, <2>2, <2>3, <2>4, CertificateStepOK DEF DiagnosisOK, Went
  <1> QED
    BY <1>3, <1>4, <1>5, <1>6

\* A situation more is one a verdict may come from, and one that spoils exactness.
LEMMA SeenMore ==
    ASSUME NEW r, DiagnosisOK(r), NEW t \in SituationType
    PROVE  DiagnosisOK([r EXCEPT !.seen = @ \cup {t}])
  <1> DEFINE q == [r EXCEPT !.seen = @ \cup {t}]
  <1>1. r \in Diagnosis /\ Complete(r) /\ Witnessing(r) /\ Exact(r)
    BY DEF DiagnosisOK
  <1>2. /\ q \in Diagnosis /\ q.seen = r.seen \cup {t}
        /\ q.step = r.step /\ q.mode = r.mode /\ q.failed = r.failed
        /\ q.ingress = r.ingress /\ q.service = r.service /\ q.certificate = r.certificate
    BY <1>1 DEF Diagnosis, SituationType
  <1>3. \E u : u \in r.seen
    BY <1>1 DEF Witnessing
  <1>4. Complete(q)
    BY <1>1, <1>2 DEF Complete
  <1>5. Witnessing(q)
    BY <1>1, <1>2 DEF Witnessing
  <1>6. ASSUME NEW u \in q.seen, q.seen = {u}
        PROVE  r.seen = {u} /\ u \in r.seen
    BY <1>2, <1>3, <1>6
  <1>7. Exact(q)
    BY <1>1, <1>2, <1>6 DEF Exact
  <1> HIDE DEF q
  <1>8. DiagnosisOK(q)
    BY <1>2, <1>4, <1>5, <1>7 DEF DiagnosisOK
  <1> QED
    BY <1>8 DEF q

LEMMA WitnessOK ==
    ASSUME Inv, NEW d \in Domains, NEW t \in SituationType, Witnessed(d, t),
           Situation(d)' = t, \A e \in Domains \ {d} : Situation(e)' = Situation(e)
    PROVE  DiagnosisInv'
  <1>1. CASE diagnosis # None /\ Diagnosed = d
    <2>1. /\ diagnosis' = [diagnosis EXCEPT !.seen = @ \cup {t}]
          /\ DiagnosisOK(diagnosis) /\ diagnosis.domain = d /\ diagnosis \in Diagnosis
      BY <1>1 DEF Witnessed, Inv, DiagnosisInv, Diagnosed, DiagnosisOK
    <2>2. DiagnosisOK(diagnosis')
      BY <2>1, SeenMore
    <2>3. diagnosis'.domain = d /\ t \in diagnosis'.seen
      BY <2>1 DEF Diagnosis
    <2> QED
      BY <2>2, <2>3 DEF DiagnosisInv
  <1>2. CASE diagnosis # None /\ Diagnosed # d
    <2>1. diagnosis' = diagnosis /\ diagnosis.domain \in Domains \ {d} /\ DiagnosisOK(diagnosis)
      BY <1>2 DEF Witnessed, Inv, DiagnosisInv, Diagnosed, DiagnosisOK, Diagnosis
    <2> QED
      BY <2>1 DEF Inv, DiagnosisInv
  <1>3. CASE diagnosis = None
    BY <1>3 DEF Witnessed, DiagnosisInv
  <1> QED
    BY <1>1, <1>2, <1>3

\* Whoever leaves the tables and the diagnosis alone keeps what is said of it.
LEMMA DiagnosisKept ==
    ASSUME Inv, UNCHANGED <<rows, cluster, diagnosis>>
    PROVE  DiagnosisInv' /\ TableInv'
  BY DEF Inv, DiagnosisInv, TableInv, Situation

-----------------------------------------------------------------------------
(* The whole                                                               *)

LEMMA InitInv == Init => Inv
  BY DEF Init, Inv, DiagnosisInv, TableInv, ListingInv, ProbeInv

LEMMA CheckInv ==
    ASSUME Inv, Check \/ CheckRow
    PROVE  Inv'
  <1>1. UNCHANGED <<rows, cluster, conn, listing, probe>>
    BY DEF Check, CheckRow
  <1>2. TableInv' /\ ListingInv' /\ ProbeInv'
    BY <1>1 DEF Inv, TableInv, ListingInv, ProbeInv
  <1>3. CASE Reply
    BY <1>2, <1>3 DEF Reply, Inv, DiagnosisInv
  <1>4. CASE CheckIngress \/ ServiceExists \/ ValidateService \/ CertificateStep
    <2>1. DiagnosisOK(diagnosis') /\ Went(diagnosis') /\ diagnosis # None
      BY <1>4, CheckOK
    <2>2. Situation(diagnosis.domain)' \in diagnosis'.seen
      BY <1>1, <2>1 DEF Inv, DiagnosisInv, Situation, Went
    <2>3. DiagnosisInv'
      BY <1>1, <2>1, <2>2 DEF DiagnosisInv, Situation, Went, Inv
    <2> QED
      BY <1>2, <2>3 DEF Inv
  <1> QED
    BY <1>3, <1>4 DEF Check, CheckRow, CertificateStep

LEMMA ListInv ==
    ASSUME Inv, ListCertificates \/ OpenRows \/ NextRow \/ CloseRows \/ Count
    PROVE  Inv'
  <1>1. DiagnosisInv' /\ TableInv' /\ ProbeInv'
    BY DiagnosisKept
       DEF ListCertificates, OpenRows, NextRow, CloseRows, Count, Inv, ProbeInv
  <1>2. /\ conn \in {"free", "listing"} /\ listing \in Listing \cup {None}
        /\ listing # None => listing \in Listing
        /\ None \notin Listing
    BY ReportsAssumption DEF Inv, ListingInv
  <1>3. CASE ListCertificates \/ Count
    BY <1>1, <1>2, <1>3 DEF ListCertificates, Count, Inv, ListingInv, Listing
  <1>4. CASE OpenRows
    <2>1. listing \in Listing /\ listing.found = {} /\ conn = "free" /\ rows' = rows
      BY <1>2, <1>4 DEF OpenRows, Free, Inv, ListingInv
    <2>2. CASE QueryRows
      <3>1. /\ listing' \in Listing /\ listing'.todo = Listed /\ listing'.found = listing.found
            /\ listing'.step = "secrets" /\ conn' = "listing"
        BY <2>1, <2>2 DEF QueryRows, Listing, Listed
      <3> QED
        BY <1>1, <2>1, <3>1 DEF Inv, ListingInv, Listed
    <2>3. CASE listing' = [listing EXCEPT !.step = "count"] /\ UNCHANGED conn
      <3>1. listing' \in Listing /\ listing'.step = "count"
        BY <2>1, <2>3 DEF Listing
      <3> QED
        BY <1>1, <1>2, <2>1, <2>3, <3>1 DEF Inv, ListingInv
    <2> QED
      BY <1>4, <2>2, <2>3 DEF OpenRows
  <1>5. CASE NextRow
    <2>1. PICK d \in listing.todo :
            \/ listing' = [listing EXCEPT !.todo = @ \ {d}, !.found = @ \cup {d}]
            \/ listing' = [listing EXCEPT !.todo = @ \ {d}]
      BY <1>5 DEF NextRow
    <2> DEFINE Shrunk(l) == /\ l \in Listing /\ l.step = "secrets"
                           /\ l.todo \cup l.found \subseteq listing.todo \cup listing.found
    <2>2. listing \in Listing /\ listing.step = "secrets" /\ d \in Domains
      BY <1>2, <1>5 DEF NextRow, Listing
    <2>3. ASSUME listing' = [listing EXCEPT !.todo = @ \ {d}, !.found = @ \cup {d}]
          PROVE  Shrunk(listing')
      BY <2>2, <2>3 DEF Listing
    <2>4. ASSUME listing' = [listing EXCEPT !.todo = @ \ {d}]
          PROVE  Shrunk(listing')
      BY <2>2, <2>4 DEF Listing
    <2>5. Shrunk(listing')
      BY <2>1, <2>3, <2>4
    <2> QED
      BY <1>1, <1>2, <1>5, <2>2, <2>5 DEF NextRow, Inv, ListingInv
  <1>6. CASE CloseRows
    BY <1>1, <1>2, <1>6 DEF CloseRows, Release, Inv, ListingInv, Listing
  <1> QED
    BY <1>1, <1>3, <1>4, <1>5, <1>6 DEF Inv

LEMMA WorldInv ==
    ASSUME Inv, WriteRow \/ ClusterChanges
    PROVE  Inv'
  <1>1. CASE WriteRow
    <2>1. PICK d \in Domains, m \in Modes \cup {None} :
            /\ rows' = [rows EXCEPT ![d] = m]
            /\ Witnessed(d, [Situation(d) EXCEPT !.mode = m])
      BY <1>1 DEF WriteRow
    <2> DEFINE t == [Situation(d) EXCEPT !.mode = m]
    <2>2. t \in SituationType /\ t = [mode |-> m, objects |-> cluster[d]]
      BY ClusterTyped, ReportsAssumption DEF Situation, SituationType
    <2>3. /\ Situation(d)' = t
          /\ \A e \in Domains \ {d} : Situation(e)' = Situation(e)
      BY <1>1, <2>1, <2>2 DEF Situation, Inv, TableInv, WriteRow
    <2>4. DiagnosisInv'
      BY <2>1, <2>2, <2>3, WitnessOK
    <2>5. TableInv'
      BY <1>1, <2>1 DEF Inv, TableInv, WriteRow
    <2>6. ListingInv' /\ ProbeInv'
      BY <1>1 DEF WriteRow, Free, Inv, ListingInv, ProbeInv
    <2> QED
      BY <2>4, <2>5, <2>6 DEF Inv
  <1>2. CASE ClusterChanges
    <2>1. PICK d \in Domains, o \in World :
            /\ cluster' = [cluster EXCEPT ![d] = o]
            /\ Witnessed(d, [Situation(d) EXCEPT !.objects = o])
      BY <1>2 DEF ClusterChanges
    <2> DEFINE t == [Situation(d) EXCEPT !.objects = o]
    <2>2. t \in SituationType /\ t = [mode |-> rows[d], objects |-> o]
      BY ClusterTyped, ReportsAssumption DEF Situation, SituationType
    <2>3. /\ Situation(d)' = t
          /\ \A e \in Domains \ {d} : Situation(e)' = Situation(e)
      BY <1>2, <2>1, <2>2 DEF Situation, Inv, TableInv, ClusterChanges
    <2>4. DiagnosisInv'
      BY <2>1, <2>2, <2>3, WitnessOK
    <2>5. TableInv'
      BY <1>2, <2>1 DEF Inv, TableInv, ClusterChanges
    <2>6. ListingInv' /\ ProbeInv'
      BY <1>2 DEF ClusterChanges, Inv, ListingInv, ProbeInv
    <2> QED
      BY <2>4, <2>5, <2>6 DEF Inv
  <1> QED
    BY <1>1, <1>2

LEMMA NextInv ==
    ASSUME Inv, [Next]_vars
    PROVE  Inv'
  <1>1. CASE GetDomainDiagnostics
    BY <1>1, BeginDiagnosis DEF GetDomainDiagnostics, Inv, TableInv, ListingInv, ProbeInv
  <1>2. CASE GetHealthStatus \/ Ping \/ CheckKubernetes
    BY <1>2, DiagnosisKept
       DEF GetHealthStatus, Ping, CheckKubernetes, Inv, ListingInv, ProbeInv
  <1>3. CASE UNCHANGED vars
    BY <1>3, DiagnosisKept DEF vars, Inv, ListingInv, ProbeInv
  <1> QED
    BY <1>1, <1>2, <1>3, CheckInv, ListInv, WorldInv DEF Next

LEMMA Invariance == Spec => []Inv
  <1>1. Inv /\ [Next]_vars => Inv'
    BY NextInv
  <1> QED
    BY <1>1, InitInv, PTL DEF Spec

LEMMA Done ==
    ASSUME Inv, Step("done")
    PROVE  DiagnosisOK(diagnosis) /\ diagnosis.step = "done" /\ diagnosis \in Diagnosis
  BY DEF Inv, DiagnosisInv, DiagnosisOK, Step

\* Every variable keeps its type, and a finished diagnosis is complete.
THEOREM TypeCorrect == Spec => []TypeOK
  <1>1. ASSUME Inv, diagnosis # None
        PROVE  /\ diagnosis.step \in {"ingress", "service", "port", "certificate",
                                     "secret", "row", "done"}
               /\ diagnosis.domain \in Domains /\ diagnosis.mode \in Modes
               /\ diagnosis.step = "done" => Parts(diagnosis) \subseteq Verdicts
    BY <1>1 DEF Inv, DiagnosisInv, DiagnosisOK, Diagnosis, Complete, AfterService, Parts
  <1>2. Inv => TypeOK
    BY <1>1, ClusterTyped DEF Inv, TableInv, ListingInv, ProbeInv, TypeOK
  <1> QED
    BY <1>2, Invariance, PTL

\* What a diagnosis reports healthy was so at some time while it was made, however
\* much changes between its steps.
THEOREM HealthyIsWitnessed == Spec => []HealthyWasSo
  <1>1. ASSUME Inv, Step("done")
        PROVE  /\ diagnosis.ingress = "healthy" => Was("ingress", "ready")
               /\ diagnosis.service = "healthy" => Was("service", "ready")
               /\ diagnosis.certificate = "healthy" => Was("secret", "tls")
    BY <1>1, Done DEF DiagnosisOK, Witnessing, Was
  <1>2. ASSUME Inv, Step("done"), OverallHealth(diagnosis) = "healthy"
        PROVE  diagnosis.mode \in {"auto", "paused"}
    BY <1>2, Done DEF DiagnosisOK, Complete, AfterService, OverallHealth, Parts, Verdicts
  <1>3. Inv => HealthyWasSo
    BY <1>1, <1>2 DEF HealthyWasSo
  <1> QED
    BY <1>3, Invariance, PTL

\* A diagnosis during which nothing changed and no call failed is exact, unless
\* the Ingress names a wildcard's Secret and the two are not in the same state.
THEOREM UndisturbedDiagnosis == Spec => []UndisturbedIsExact
  <1>1. ASSUME Inv, Step("done"), ~diagnosis.failed, diagnosis.mode # "uploaded",
               NEW s \in diagnosis.seen, diagnosis.seen = {s}
        PROVE  OverallHealth(diagnosis) = Grade(s) <=> ~Misread(s)
    <2>1. DiagnosisOK(diagnosis) /\ diagnosis.step = "done" /\ diagnosis \in Diagnosis
      BY <1>1, Done
    <2>2. /\ diagnosis.ingress = IngressVerdict(s.objects)
          /\ diagnosis.service = ServiceVerdict(s.objects)
          /\ diagnosis.certificate = CertificateVerdict(diagnosis.mode, s.objects)
      BY <1>1, <2>1 DEF DiagnosisOK, Exact, AfterService
    <2>3. s.mode = diagnosis.mode /\ s.objects \in Objects /\ diagnosis.mode \in Modes
      BY <1>1, <2>1 DEF DiagnosisOK, Witnessing, Diagnosis
    <2>4. /\ s.objects.ingress \in {"none", "pending", "ready"}
          /\ s.objects.service \in {"none", "otherPort", "ready"}
          /\ s.objects.secret \in {"none", "other", "tls"}
          /\ s.objects.wildcard \in {"unused", "missing", "ready"}
          /\ s.mode \in {"auto", "paused", "manual"}
      BY <1>1, <2>3 DEF Objects, Modes
    <2> QED
      BY <2>2, <2>3, <2>4
         DEF OverallHealth, Parts, Grade, Misread, Up, Served, IngressVerdict, ServiceVerdict,
             CertificateVerdict
  <1>2. Inv => UndisturbedIsExact
    BY <1>1 DEF UndisturbedIsExact
  <1> QED
    BY <1>2, Invariance, PTL

\* The list is of one moment: the connection it keeps shuts out every write.
THEOREM ListOfOneMoment == Spec => []ListedAtOnce
  <1>1. Inv => ListedAtOnce
    BY DEF Inv, ListingInv, ListedAtOnce
  <1> QED
    BY <1>1, Invariance, PTL
=============================================================================
