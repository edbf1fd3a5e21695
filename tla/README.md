# Kubernetes Domain Manager: a TLA+ specification

This directory specifies the backend of the Kubernetes Domain Manager
(`src/backend/src`, Go): a server that keeps domains, certificates and settings in
one SQLite file and makes a Kubernetes cluster follow them with Ingresses, Secrets and
a ClusterIssuer. The modules are checked on small instances by TLC, and their
invariants and action properties are proved with TLAPS for every value of the constants,
under the restrictions section 6 names.

Contents: 1 the system, 2 the modules, 3 what the models assume, 4 the runs,
5 what the models found, 6 the proofs, 7 what is not modelled, 8 the plan,
9 how to run it.

## 1. The system

A request arrives over REST (`api/`) or MCP (`mcp/`) and becomes one call of a
service. A service reads a row through its repository, changes the copy in memory,
writes the whole copy back and, when the cluster has to follow, starts a goroutine
(`go s.createIngressForDomain(domain)`) and answers. The goroutine makes its
Kubernetes calls with `context.Background()`: no timeout, no retry, no queue. There is
no reconciliation loop, no informer, no lock around a domain, no SQL transaction, and
start-up looks for nothing left undone. So everything depends on what a late, failed
or overtaken goroutine can still do.

| Component | State it keeps | Operations | Interacts with | What is hard | What makes it correct |
|---|---|---|---|---|---|
| Domain lifecycle (`domain_service.go`, `domain_repo.go`, `ingress.go`) | table `domains`; Ingresses `domain-<id>`, each with the name of a TLS Secret, its own or a wildcard's | create or reactivate, update, soft and hard delete, the same on several domains; tree and groups | certificates (row and Secret), Kubernetes, SQLite | handlers and goroutines of one domain in any order; full-row writes of old copies; a wildcard looked up at one moment and used at another; failed calls; restart | a name has one row, an id one name; nothing that was removed comes back; a pending domain settles; with nothing running, table and Ingresses agree; a domain under a wildcard uses the wildcard's Secret |
| Certificates (`certificate_service.go`, `certificate_repo.go`, `secret.go`) | table `certificates`; `domains.certificate_id`; Secrets `cert-<name>`; the TLS section of the Ingress | upload, obtain, renew, delete, list | ACME server, domains, Kubernetes, SQLite | the domain's row is written by two services; one Secret name for all certificates of a domain; the foreign key | certificates of two domains are not mixed up; references hold; an uploaded certificate is usable and not overwritten; the current one is served |
| Let's Encrypt client (`letsencrypt/`) | account (`user.json`, `user.key`), one global client with a mutex | initialize, obtain, renew | ACME servers (staging or production), certificates | two files written one after another; an answer that is lost; one account file for two servers; a mutex held over network calls | starts that fail do not register a second key, and the client works with a registered one; one renewal at a time |
| Scheduler and monitor (`scheduler/`) | list of tasks, `running`, a context, a wait group | add, start, stop; tick | certificates, `main` | Stop against running tasks; a batch over a snapshot with failures | nothing runs once Stop has returned, and Stop returns; every certificate that can be renewed is |
| Domain names (`domain_service.go`, `certificate_service.go`, `subdomain/`, `certificate/`) | none | wildcard match of the validator, subdomain tests, conflicts, roots, validation of uploads, status by days left | both services | boundaries of labels and of days | agreement with a definition by labels or hours, and with each other |
| Settings and start-up (`settings_*`, `handlers.go`, `main.go`) | table `system_settings` | read, update; start-up writes from the environment | all services | several rows per request; what a start overwrites | settings stay readable |
| Cloudflare and cert-manager (`cloudflare_service.go`, `certmanager.go`) | two settings, a Secret, the ClusterIssuer | save and remove the token | settings, Kubernetes, whoever installs the Helm chart | four writes, errors only logged; the start does them too, and the chart writes the last two | a call that nothing disturbs makes switch, token and Secret agree and makes a ClusterIssuer that was missing, whatever was there before |
| Diagnostics and health (`diagnostic_service.go`) | none | diagnosis of a domain, health, log | database, Kubernetes | several reads of what changes meanwhile; one database connection for all | what is reported was so; an answer comes |
| Database connection and migrations (`db/`) | the one connection and its PRAGMAs | every statement | all | a query that keeps the connection; a connection that is replaced | see certificates, diagnostics, settings |
| Sessions, administrator, API keys (`auth_service.go`, `api_key_*`) | map of sessions; tables `admin_accounts`, `api_keys` | login, logout, validate; keys | middleware | an unsynchronised map; expiry | not modelled |
| Rate limiter (`rate_limit.go`) | a counter per visitor | count, sweep | middleware | - | not modelled |
| Backup (`backup_service.go`) | copies of the file | create, list, serve, remove | SQLite | the file changes while it is copied | not modelled |

## 2. The modules

| Module | Models | Proofs |
|---|---|---|
| `NameRegistry` | the promise of the `domains` table: names under numeric ids, given out in order, to one holder at a time, never again | |
| `DomainSync` | `DomainService` over `DomainRepository` and `IngressManager` | `DomainSyncProofs` |
| `DomainSyncRegistry` | the refinement mapping from `DomainSync` to `NameRegistry` | `DomainSyncProofs` |
| `Certificates` | `CertificateService` over its repository and `SecretManager`, and the part of `DomainService.UpdateDomain` that touches the same row and Ingress | `CertificatesProofs` |
| `Scheduler` | `scheduler.Scheduler`: what any user of it may rely on | `SchedulerProofs` |
| `Renewals` | `main`, the certificate monitor and its batches, `RenewCertificate` by request, and the client's mutex, over an instance of `Scheduler` | `RenewalsProofs` |
| `AcmeAccount` | `letsencrypt.Initialize`: the account and its two files | `AcmeAccountProofs` |
| `Settings` | the settings table, the Cloudflare token, its Secret, the ClusterIssuer, and what every start writes | `SettingsProofs` |
| `Reports` | the diagnosis of a domain, the list of certificates and the health check, over tables and a cluster that change | `ReportsProofs` |
| `DomainNames` | functions on names, as sequences of labels | `DomainViewsProofs` |
| `CertificateChecks` | the validation of an upload, the status of a certificate | `DomainViewsProofs` |
| `DomainViews` | the table as a whole: groups, tree, subdomains, conflicts, wildcard Secrets; uploads for its domains and the status of cert-manager's certificates | `DomainViewsProofs` |
| `MC...` | instances of the above for TLC | |

`Renewals` composes with `Scheduler` (`Sched == INSTANCE Scheduler WITH Tasks <- {Monitor}`):
each of its actions is an action of the scheduler joined with what the monitor or `main`
does in it, or leaves the scheduler alone. `DomainNames`, `CertificateChecks` and
`DomainViews` extend one another in this order.

### How a model corresponds to the code

The modules with concurrent calls share one scheme. `tasks[t]`, `renewals[a]` or `calls[a]`
is a handler or a goroutine between two of its calls: the `step` it is at, and the copies it
holds, which is where stale data lives. One action is one SQL statement, one Kubernetes or
ACME call, or one write of a file, with the code up to the next one. An `At(t, step)` guard
is the program counter; the other guards are the code's conditions and early returns. In
`DomainSync` and `Certificates` a handler that ends with `go f(...)` becomes that goroutine
in the same slot; `DeleteDomain` and `DeleteCertificate` start their goroutine *before* they
write, so they take a second slot.

`DomainSync`:

| Code | Model |
|---|---|
| row of `domains` (`models/domain.go`) | `rows[i]`: name, namespace, target (service, port and SSL mode together; `AutoTargets` are those of mode `auto`), status, enabled |
| `AUTOINCREMENT` | `nextId` |
| Ingress `domain-<i>` of a namespace | `ingresses[i][ns]`: host, target, and the Secret it names: none, its own `domain-<i>-tls`, or the wildcard's |
| `getWildcardSecretName`, a query of its own before the Ingress is rendered | `ChooseSecret`; `WildcardOf` is the function from a name to the wildcard that is looked for |
| `CreateDomain` | `BeginCreate` (lookup), `Insert` or `Reactivate`, then `ChooseSecret`, `CreateIngress`, `SaveStatus` |
| `UpdateDomain` | `BeginUpdate` (read), `SaveUpdate`, then `ChooseSecret`, `GetIngress`, `PutIngress` |
| `DeleteDomain` | `BeginDelete` (read, start the goroutine), `RemoveRow` and, concurrently, `DeleteIngress` |
| operations on several domains | `Begin` of one after another |
| process exit and start | `Restart` |

`Certificates`:

| Code | Model |
|---|---|
| `ssl_mode`, `certificate_id` of a domain | `domains[n]` |
| row of `certificates` | `certs[i]`: name, source, content |
| content of a certificate | its place in `issued`, the history of what was ever issued |
| Secret `cert-<n>`; TLS section of the Ingress of `n` | `secrets[n]`; `tls[n]` |
| `PRAGMA foreign_keys` of the open connection | `foreignKeys` |
| `UploadCertificate` | `BeginUpload`, `InsertCert`, `LinkCert`, then `CreateSecret`, `GetIngress`, `PutIngress` |
| `ObtainLetsEncryptCertificate` | `BeginObtain`, `Obtain`, then as an upload |
| `RenewCertificate` | `BeginRenew`, `Renew`, `SaveCert`, then `CreateSecret`, `GetIngress`, `PutIngress` |
| `DeleteCertificate` | `BeginDelete`, `DeleteCert` and, concurrently, `DeleteSecret` |
| `UpdateDomain` | `BeginUpdateDomain`, `SaveDomain`, `GetIngress`, `PutIngress` |
| the pool replaces the connection | `Recycle` |

No handler calls `ObtainLetsEncryptCertificate` at present, but it is the only thing that
makes the rows `RenewCertificate` accepts, so both are modelled.

`Scheduler` and `Renewals`:

| Code | Model |
|---|---|
| `Scheduler.tasks`, `running`, `ctx` cancelled | `registered`, `running`, `cancelled` |
| goroutine of a task in `runTask` | `workers[t]`: first run, executing, in the `select`, ended |
| the ticker's channel, of one element | `ticks[t]` |
| `Stop`: cancel, unlock, `wg.Wait()` | `StopBegin`, `StopReturn`; `stop` |
| `main`: start, serve, signal, `Stop`, `server.Shutdown` | `phase`; `Register`, `Serve`, `Signal`, `Stopped`, `Exit` |
| `AutoRenewCertificates`: `GetExpiring`, which may fail and end the batch, the loop, its end | `BatchBegin` (`Query`), `BatchNext`, `BatchEnd`; `batch` |
| `RenewCertificate`: reading row and domain, checks, the client and its window (all may end it), mutex, ACME call, UPDATE | `Ask`, `Lock`, `Answer`, `Save` |
| a certificate's end at most 30 days away | `certs[i].due`, set by `Age` |

`AcmeAccount`: `userFile` and `keyFile` are the two files, `Torn` one that was opened and
not written to its end (`os.WriteFile` truncates first); `Create`, `Load`, `Connect`,
`Register` and `OpenUser` to `FillKey` are the steps of `Initialize` and `saveUser`. `server`
is the one `LETSENCRYPT_STAGING` chooses at each start; all servers share the two files.
`Create` is the branch of `os.Stat` that returns an error, whatever the error, `Load` the
other. Histories, since `user.json` was last removed: `accounts[s]`, the keys server `s` has
registered; `asked`, the servers starts were told to work with; `overlooked`, that a start
made a new user although `user.json` was there.

`Settings`: `SaveToken` validates, writes two settings (`WriteSetting`, in the order of a Go
map, that is any), gets and puts the Secret, reads the class, gets and puts the ClusterIssuer;
`RemoveToken` deletes the Secret instead; `PatchSettings` writes one setting. A start is
`Boot` (the migration's INSERT OR IGNORE), `ApplyClass` or `KeepClass`, `ApplyToken` or
`NoToken`, in `InitServices`' order, made of the same steps under the actor `Main`. `Deploy` is
the Helm chart or an administrator, who write or remove Secret and ClusterIssuer at any time.
`PutIssuer` only ever creates: `certmanager.go:141-182` updates without `resourceVersion`, and
of a custom resource the API server refuses such an update. `undisturbed` and `before` are
history: the last call began alone and nothing has failed or begun since, and what the
ClusterIssuer said when it began.

`Reports`: `diagnosis` is `GetDomainDiagnostics`, one action per check; `listing` is
`ListCertificates` with the open rows of `listCertManagerCertificates`; `probe` is
`GetHealthStatus`; `conn` says who holds the only connection. `cluster[d]` are the objects of
a domain: its Ingress, its service, its Secret `domain-<id>-tls`, and (`wildcard`) whether the
Ingress names a wildcard's Secret in its place and whether that has a certificate; `World` are
the combinations an instance allows. `WriteRow` and `ClusterChanges` are everybody else, who
change one object at a time (`Apart`). `seen` is history: the situations the diagnosed domain
was in since its row was read. `Grade` says how a domain is, from what its Ingress names, and is
no part of the code.

`DomainNames`: a name is the sequence of its labels. `strings.HasSuffix(n, "." + m)` is a
suffix of that sequence; `HasSuffix(n, m)`, without the dot, also holds when a label ends in
the letters of another, and the relation `Glued` says which do. So the models tell the two
tests apart without spelling labels out.

`CertificateChecks`: a PEM text is the type of its first block, whether it parses, and what
it says; times are in hours from now. `int(hours / 24)` truncates towards zero, as in Go.

A definition whose comment begins "Mutated form of" belongs to no specification. It is
what a plausible bug would turn the definition below it into, and is there to see that a
property can fail.

## 3. What the models assume

*Atomicity.* `db.SetMaxOpenConns(1)`, no transaction: each statement is one step, and
statements of different goroutines interleave freely. The API server serialises writes
of an object and refuses an update whose `resourceVersion` is old (`Outdated` in
`DomainSync` and `Certificates`, `Accepts` in `Settings`). Of a custom resource it refuses an
update without one, too ("must be specified for an update"): the update of an existing
ClusterIssuer never takes effect (`Creates` in `Settings`).

*Faults.* In `DomainSync` and `Certificates` each kind is switched on by a member of
`Faults`: `"k8s"` (a call fails, a create possibly after it took effect), `"db"` (a
statement fails), `"acme"`, `"crash"` (every task is lost at any point; tables and cluster
stay), `"recycle"` (the connection is replaced and loses its PRAGMA). The other modules have
their faults always: in `Renewals` the client is missing, and row, domain, ACME server and
database fail, for anything but `Reliable` rows, a batch's `GetExpiring` may fail, and the
process ends at any point; in `Settings` and `AcmeAccount` every call and write may fail, answers
are lost, and the process ends between any two; `os.Stat` may fail like any other call, and
`LETSENCRYPT_STAGING` may be another at each start; in `Reports` every check may fail.

*External code.* The Kubernetes API server, the certificate authority, SQLite and crypto/x509
are modelled from how the code uses them. In `DomainSync` and `Certificates` nobody else
writes the program's Ingresses and Secrets; in `Settings` the Helm chart and administrators write
the Cloudflare Secret and the ClusterIssuer, too (`clusterissuer.yaml`,
`secret-cloudflare.yaml`), and in `Reports` anybody changes the cluster.

*Fairness.* Only liveness needs it; the safety properties hold of `Spec`.

- `DomainSync!FairSpec`: weak fairness of each slot's next step. The Go runtime runs every
  goroutine that can run, a Kubernetes call is answered (with an error if need be), and
  nothing in these paths waits for another goroutine.
- `Renewals!FairSpec`: weak fairness of the batch, of the ticker, of `main`'s steps and of the
  answer of the ACME server and of the database, which both come, if only as errors. Strong
  fairness of `Lock(a)`, as a Go mutex hands itself to a waiter after a millisecond
  (starvation mode), of `SelectDone`, as a `select` with several ready cases chooses
  among them at random, and of a batch whose query succeeds: ticks go on, and not every query
  for ever fails. No fairness for requests, signals or exits.
- `Reports!FairSpec`: weak fairness of the steps of an open list and of the cluster's
  answer, strong fairness of `Ping`, as `database/sql` queues those who wait for a connection.

*Clients.* `SerialSpec` are clients that wait until everything the last operation started
has ended. `CarefulSpec` of `Certificates` also deletes a domain's certificate before it
uploads another or updates the domain. These are assumptions about the environment,
used to say under which use the strongest property holds; section 5 says what happens
outside of it.

## 4. The runs

| Run | Specification and bounds | Shows |
|---|---|---|
| `domains_faults` | all operations and faults; 1 name, 2 ids, 3 slots, one status written through the API | `TypeOK`; `UniqueNames` although lookup and INSERT are two statements; `NoReincarnation`: a goroutine that outlives its row cannot bring it back |
| `domains_identity` | no update; cluster failures and crashes, no database error; a name and its wildcard, both of mode `auto`, 2 ids, 3 slots | `OneIdentity`: row, copies and Ingresses of an id are of one name; `CoveredShares`: a domain created after its wildcard names the wildcard's Secret and no other; `ImplementsRegistry`: refinement of `NameRegistry` |
| `domains_pending` | `FairSpec`; no update, no crash, no database error; 1 name, 2 ids, 3 slots | `PendingIsAttended` and, under fairness, `PendingSettles`, also when Kubernetes calls fail and when a reactivated row meets its old Ingress |
| `domains_serial` | `SerialSpec`, no fault; a name and its wildcard, 2 targets of which one is `auto`, 1 namespace, 3 ids | `SettledInSync`: with nothing running, the Ingresses are exactly those of the rows that are not deleted, each shows the name and target of its row as it is, and names a Secret if the SSL mode is `auto` and only then, and no status is pending; `DeletedStaysDeleted`: a soft-deleted domain comes back by a new creation only |
| `v_resurrected` | no update, no fault; 1 name, 1 id, 3 slots | ends with a counterexample, see section 5 |
| `certs_faults` | all operations and faults; 2 domains, 2 ids, 2 certificates, 2 slots | `TypeOK`; `OwnCertificate`: no mix-up of two domains even through dangling references; `NoReferenceBreaks`: with foreign keys on, no stale write or delete breaks a reference; `UploadsAreKept` |
| `certs_careful` | `CarefulSpec`, an ACME server that may refuse; 2 domains, both SSL modes, 3 ids, 3 certificates | `SettledServed`: the certificate a domain refers to is in its Secret, and its Ingress names that; a domain that refers to none has no row and no Secret (its Ingress may still name the Secret that is gone, section 5) |
| `renewals` | `FairSpec`; 2 certificates, one of which is not `Reliable`, 1 handler besides the batch, queries that may fail; 5 435 states | `LockHeldByRenewer`, `BatchOverWhenStopped`, `DeletedStaysDeleted`; `RenewedInTheEnd`: a certificate that can be renewed is, whatever its batch goes through; `StopEnds` |
| `account` | 2 servers, 3 keys; 14 392 states | `OneAccount`: no sequence of failed, cut-off and repeated starts, with whichever server, registers a second key while `user.json` stays and no start overlooks it; `ClientIsRegistered`: the client's key is registered, at its own server if no start asked for another, and no start loses it |
| `settings` | 2 handlers and the start, 2 tokens, 2 classes, an environment that says something or nothing at each start, and somebody else who writes Secret and ClusterIssuer; 1 059 225 states | `KnownSettingsReadable`; `UndisturbedRepairs`: from whatever failed, raced or cut-off calls left, one undisturbed save or removal makes switch, token and Secret agree, and a ClusterIssuer that was missing; one that was there stays as it was |
| `reports` | `FairSpec`; 1 domain, 2 situations of it during a diagnosis; 623 658 states | `HealthyWasSo`; `UndisturbedIsExact`: a diagnosis nothing interferes with, of a domain without a `certificate_id`, is right about it exactly unless the domain lacks nothing else and just one of its own Secret and the wildcard's that its Ingress names is there (section 5); `ListedAtOnce` and `HealthIsAnswered`: keeping the connection makes the list a snapshot, and does not keep the health check out for ever |
| `views` | 10 names, tables of 4 rows of which the views see 3; 86 781 states | `HiddenWithoutCompany`, `TreeHasTwoLevels`, `ConflictsAreOverlaps`, `WildcardSecretShared`, `StatusesAgree`; `UploadsAreUsable`: an upload is accepted exactly when a server can present it, its key is supported and it is made for the domain, or for one whose letters the domain's end in |

*Why the bounds are enough to be interesting.*

- `DomainSync`, `Certificates`: two ids let a name be hard-deleted and taken again while tasks
  of the first row are alive; two names let an id be contended for, and one being the
  wildcard of the other they are created, deleted and reactivated in both orders. Three slots
  are a deletion
  (two slots) next to one other task, the least in which a deletion overtakes a creation; two
  slots are two requests of one domain at once. Properties about one row need no second name,
  so `domains_faults` spends its states on faults and statuses. In `certs_faults` two
  certificates are an upload and one of Let's Encrypt, or one for each domain; with two ids
  the id of a deleted row is followed by another while references to the first dangle. `MaxId`
  and `MaxPem` bound ids and certificates: an INSERT past `MaxId` fails, as SQLite's does at
  the end of its sequence; a certificate past `MaxPem` is not issued. `Tasks` bounds what runs
  at once; the code has no limit.
- `renewals`: two rows are the least for a batch in which the first fails and the second must
  still be tried; the batch and one handler are the least that contend for the lock and for
  one row. A certificate is due or not, so that time needs no bound.
- `account`: three keys let a start find one on disk, have another in hand and choose a
  third; two servers are what the code knows.
- `settings`: two requests and the start overlap in pairs and all three; two tokens tell the
  newer from the older, two classes the default from a choice. One made-up key stands for all
  a request may send. Secret and ClusterIssuer begin as anything.
- `reports`: one domain, as no check looks at two; a list of one row keeps the connection
  like any other. `MaxChanges = 1` is the one change between two reads of one object that a
  check could trip over. `MCWorld` has every state of the objects of a domain with a Secret of
  its own, and those of one under a wildcard in which the two Secrets decide; the theorems
  hold for any number of changes, any set of domains and all of `Objects`.
- `views`: names of two to four labels, wildcards on two levels, a root whose first label ends
  in the letters of another (`nr.t`, `r.t`) and one with a hyphen (`a-r.t`), so that a
  lookalike and the collision of Secret names can happen. `Limit = 3` with `MaxRows = 4`
  makes the limit of 1000 in `List` bite. Uploads are all combinations of block, parse,
  window (before, at and after its ends), names and key; hours are those around the days and
  the 30 days at which a status turns.

Symmetry is declared for interchangeable model values in safety runs only; no definition
orders or names their members. Deadlock is checked in every run: clients can always begin
something, or a step is possible, and an operation that finds a table or `issued` full fails
and ends.

## 5. What the models found

`v_resurrected` is a run that TLC ends with a counterexample of `DeletedStaysDeleted`: the
goroutine of a creation writes its whole row, `active` and enabled, over a soft delete that
came in between. The data model (`src/specs/001-k8s-domain-manager/data-model.md:387-398`)
lists the transitions of a status: two rows lead to `deleted` (lines 397 and 398, from
`error` and from `active`), none leads out of it. It takes a client that does not wait: for
those that do, and whose updates keep the status, `domains_serial` checks the property and
theorem `SerialDeletionsLast` proves it.

The other properties the code does not keep in general hold under the restrictions of their
runs; lifting the restriction in the `.cfg` shows each:

| Change to a run | Property | What happens |
|---|---|---|
| `domains_serial`, two namespaces | `SettledInSync` | an update that moves a domain looks for its Ingress in the new namespace: the old Ingress stays, a new one is never made |
| `domains_serial`, `Spec` | `SettledInSync` | the goroutines of two updates overtake each other and the Ingress shows the older target for good; or an update writes back the `pending` it has read over the `active` saved since |
| `certs_careful`, `SerialSpec` | `SettledServed` | a second certificate for a domain, or a renewal: the Secret exists, the create fails, the old one is served on |

`NoReferenceBreaks` is about connections that enforce foreign keys. When the pool replaces the
connection (`connection.go:52`), the PRAGMA of `connection.go:60` is not set again: from then on
a deletion leaves `certificate_id` dangling, and after a restart, with the PRAGMA back, every
update of that domain is refused.

What else was learnt while modelling, each built into a model as it is:

- *Wildcards.* A domain that is there before its wildcard keeps its own Secret until somebody
  updates it, where `src/specs/003-cloudflare-dns01/spec.md:91` and `research.md:70` want all
  subdomains of a root to share one: `CoveredShares` is about domains created after their
  wildcard only. A wildcard that is hard-deleted leaves the Ingresses below it naming its
  Secret; one that is soft-deleted still counts (`GetByName` finds it). A lookup that fails
  counts as no wildcard.
- *Certificates.* The Ingress of a domain whose certificate is deleted goes on naming the Secret
  that is gone: `DeleteCertificate` does not touch the Ingress.
- *ClusterIssuer.* One that is there is never changed: the program's update has no
  `resourceVersion` and is refused, which is only logged. So a token saved or removed later
  does not change the solvers, against `spec.md:87` and `tasks.md:74-75` of
  `src/specs/003-cloudflare-dns01`, and with the chart's ClusterIssuer in place no change of
  class or address reaches it.
- *Settings.* A setting under a key the migration does not have gets a NULL description, which
  no later query can scan: reading it, or all settings, fails. A read that fails at the start
  overwrites a user's ingress class with the environment's (`handlers.go:54`). A token that a
  user removed comes back at the next start if the environment has it.
- *Account.* A process that ends while `user.json` or `user.key` is written leaves a torn file:
  every later start goes on without Let's Encrypt until somebody removes it. A start whose
  `os.Stat` fails for any reason (`client.go:151`) makes a new user, registers it and writes over
  the account that is there. When `LETSENCRYPT_STAGING` changes (`handlers.go:144`) the client
  goes on with the registration of the other server, which is stored and therefore not made
  again (`client.go:92-107`); a bare user left by a failed start is registered at the new server,
  with the same key. So `OneAccount` is about starts that overlook nothing, and speaks of keys.
- *Diagnosis.* The certificate of a domain under a wildcard is looked for in
  `domain-<id>-tls` (`diagnostic_service.go:415`), which its Ingress does not name: served with
  the wildcard's it is reported as not yet issued, and with nothing in the wildcard's Secret and
  an old certificate in its own it is reported as healthy. A domain with a certificate of its
  own is always in "error": `diagnostic_service.go:457` selects the column `expires_at`, which
  the table does not have. A service that does not exist is reported as an error of the call, since `ServiceExists`
  compares the error's text with "not found". Health is never "unhealthy" as a whole, so
  `handlers.go:842` is not reached, and only this check, not `/health`, asks the database.
- *Names.* The tree does not show a domain of four labels or more without company
  (`HiddenWithoutCompany`). The validator compares a wildcard with a name without the dot: an
  upload for `a.nr.t` is accepted with a certificate for `*.r.t` (`Lookalike`). The wildcard
  Secret is looked up at the last two labels only, rows that are soft-deleted count, and
  `*.a-r.t` and `*.a.r.t` share one Secret name. `List` reads 1000 rows, soft-deleted ones
  among them.
- *Uploads and status.* An Ed25519 key never matches its certificate. A certificate of
  cert-manager is "expiring" for a day after its end, and at exactly thirty days one rule says
  "valid" and the other "expiring". The stored status is set when a certificate is written
  and never refreshed.
- *Shutdown.* `Stop` waits without a limit and the batch does not look at its context: a
  shutdown lasts as long as the renewals of the batch. `StopEnds` says it does end.
- Nothing calls `ObtainLetsEncryptCertificate`, `FindApplicableWildcardCertificate` and
  `CanCertificateCoverDomain` (with `matchesWildcard` below them), `RenewCertificateForce`,
  `CheckAllSubdomains` or `UpdateCertificateStatus`.

## 6. The proofs

The theorems hold for every value of the constants that satisfies the module's `ASSUME`:
finite bounds (`MaxId`, `MaxPem`, `MaxChanges` in `Nat`), `None`, `Torn` and `Empty` different
from what they stand beside, the environment's values drawn from the possible ones, and
operations and faults drawn from those named. TLC evaluates the assumptions in the runs. No
bound on the number of names, slots, handlers, tasks, rows or keys is used.

`DomainSyncProofs`:

| Theorem | States | Inductive invariant |
|---|---|---|
| `TypeCorrectness` | `[]TypeOK` | `TypeInv`: `TypeOK`, and a task past its insert has an id (`TypeOK` alone lets a task write the row 0) |
| `NamesAreUnique` | `[]UniqueNames` | itself, with `TypeInv`; `TableStep` says all a step can do to ids and names |
| `IdsAreNotReused` | `NoReincarnation` | action property, from `TypeInv` and `TableStep` |
| `IdentityIsStable` | `[]OneIdentity` | `IdentityInv`: also that nothing refers to an id not yet given out; without it the next INSERT could meet a copy of another name |
| `TableIsARegistry` | `ImplementsRegistry` | `IdentityInv` and `UniqueNames`; each step maps to `Allocate`, `Retire` or a stutter |
| `CoveredDomainsShare` | `[]CoveredShares`, if no database call fails, whatever is interleaved, fails or crashes otherwise | `ShareInv`: what a task has chosen and what an Ingress names is right for every domain under its wildcard. A wildcard's row with a smaller id was there when the domain's row was made, and a row that is gone does not come back (`IdentityInv` and `TableStep`), so it was there when the goroutine looked |
| `PendingDomainsAreAttended` | `[]PendingIsAttended`, if `Calm` | `PendingInv`: also that a copy about to be saved has a final status. `Calm` (no update, only Kubernetes calls fail) is needed: an update writes an old `pending` back, see section 5 |
| `PendingOfSerialClients` | the same of `SerialSpec`, with updates that do not write `pending` of their own accord | `PendingInv` again: when nothing runs no row is pending, so that no update reads a pending one |
| `SerialSettlesInSync` | `[]SettledInSync` of `SerialSpec`, if `Orderly` (no fault; updates keep namespace and status) | `SerialInv`: the one operation under way has one task left, or the two of a deletion; `Stage` says for each step what the row and the Ingresses of its domain are by then; all other domains are in sync, that is, shown by their Ingress (`Shows`). Which Secret is named is the matter of `CoveredDomainsShare`. The property alone says nothing of the states in which something runs |
| `SerialDeletionsLast` | `DeletedStaysDeleted` of `SerialSpec`, if updates keep the status, whatever call fails | `OneWriter`: a task is alone, but for those of a deletion; a creation's row is not deleted, and an update's copy has the row's status (`Relies`) |

`CertificatesProofs`:

| Theorem | States | Inductive invariant |
|---|---|---|
| `TypeCorrectness` | `[]TypeOK` | `TypeInv`: also that a task about to write a certificate has one in hand |
| `ReferencesHold` | `NoReferenceBreaks` | action property, from `TypeInv` |
| `CertificatesAreOwn` | `[]OwnCertificate` | `OwnInv`: rows, Secrets, references *and the copies of every task* are of the domain they stand for. A reference may dangle, so `Owns(i, n)` says that `i` was given out and that its row, if there is one, is of `n`; ids given out are not given out again |
| `UploadsAreSafe` | `UploadsAreKept` | `OwnInv`: a renewal's id, if its row is still there, is of a row of Let's Encrypt |
| `CarefulServesAll` | `[]SettledServed` of `CarefulSpec`, if `Unfailing` (neither cluster nor database fails) | `SerialInv`: as in `DomainSyncProofs`; each domain is `Served` or is that of the operation under way, whose `Stage` says how far row, Secret and reference have come; and foreign keys are on, without which a deletion leaves a reference behind. `CarefulSpec` has no renewals, which meet their own Secret (section 5) |

`SchedulerProofs` and `RenewalsProofs`:

| Theorem | States | Inductive invariant |
|---|---|---|
| `TypeCorrect`, `StopIsFinal` | `Scheduler`: `[]TypeOK`, `[]QuietAfterStop` for any tasks | `QuietAfterStop` with the types: what `wg.Wait()` established stays, since only `Start` makes goroutines and it is not called again |
| `SchedulerIsKept` | `Renewals` implements `Scheduler!Spec`: every step is one of the scheduler's or leaves it alone | none needed |
| `TypeCorrect` | `[]TypeOK` | itself |
| `OneRenewalAtATime` | `[]LockHeldByRenewer` | itself, with the types |
| `BatchOver` | `[]BatchOverWhenStopped` | `ShutdownInv`: what is left of a batch, or a renewal of the monitor, has the monitor executing, a drained process has a scheduler whose `Stop` has returned, and then (`QuietAfterStop`) no worker is left |
| `NothingResurrected` | `DeletedStaysDeleted` | action property, from the types |

`SettingsProofs`, `AcmeAccountProofs`, `ReportsProofs`:

| Theorem | States | Inductive invariant |
|---|---|---|
| `Settings`: `TypeCorrect` | `[]TypeOK` | itself; what reaches the ClusterIssuer is a class and never empty |
| `AlwaysReadable` | `[]KnownSettingsReadable` | itself: all known rows are there and described once the migration ran |
| `OneCallRepairs` | `[]UndisturbedRepairs` | `Inv`: while `undisturbed`, at most one call runs (`Solo`), and `Progress` says what it has made true so far: the settings that are no longer to do, then the Secret, then the class in hand; and the ClusterIssuer is still what it was `before` |
| `AcmeAccount`: `TypeCorrect`, `NoSecondAccount`, `ClientHasAccount` | `[]TypeOK`, `[]OneAccount`, `[]ClientIsRegistered` | `Inv`: while no start has overlooked `user.json`, without that file there is no account a start could lose; `user.key` holds no other key than an account's; the user in hand has the account's key, if there is one, at each step of a save (`FilesInv`, `UserInv`); and a stored registration is one at a server that was asked |
| `Reports`: `TypeCorrect`, `HealthyIsWitnessed`, `UndisturbedDiagnosis` | `[]TypeOK`, `[]HealthyWasSo`, `[]UndisturbedIsExact` | `DiagnosisOK`: which verdicts are there at each step (`Complete`), that each healthy one has a witness in `seen` (`Witnessing`), and that, with one situation seen and no failure, they are its verdicts (`Exact`), which are those of `Grade` exactly if the situation is not `Misread` |
| `ListOfOneMoment` | `[]ListedAtOnce` | `ListingInv`: a list that is reading rows holds the connection, and its rows are as they were |

`DomainViewsProofs`. First about the functions, for names of at least two labels:

| Theorem | States |
|---|---|
| `MatchesByLabels` | the validator's comparison of the ends of names finds the name itself, a wildcard that covers it, or a lookalike, and nothing else |
| `ConflictIsOverlap` | a conflict is an overlap of the names or of what wildcards stand for: `ConflictsAreOverlaps` without the table |
| `AcceptedIsUsable` | an upload is accepted exactly if a server can present it, its key is supported, and it is made for the domain or has a wildcard that is a lookalike: `UploadsAreUsable` without the table. `Lookalike` is stated by labels and `Glued`, not by the function under test |
| `StatusAgreement` | where the two rules of a status agree, for every integer: `StatusesAgree` without the table |

Then about the views, for a table of any rows in any order and any limit of `List`:

| Theorem | States | How |
|---|---|---|
| `TableTyped` | `[]TypeOK` | inductive: no name has two rows, since a name that is stored is reactivated and not created |
| `ConflictsFound`, `UploadsChecked`, `ListedStatuses` | `[]ConflictsAreOverlaps`, `[]UploadsAreUsable`, `[]StatusesAgree` | the theorems above, for the names that are rows |
| `SecretsShared` | `[]WildcardSecretShared` | `Stored` and `RootDomain` of a name of three labels and of a wildcard that covers it |
| `GroupsAreFlat` | in a group nothing but its root is above another domain | a domain with descendants is the root of a group of its own (`CandidateIs`, `RootIs`) |
| `TreeIsShallow` | `[]TreeHasTwoLevels` | `TreeExists`: the recursive function that defines the tree has a value, as each call is on fewer domains (well-founded induction on their number); then `GroupsAreFlat` |
| `HiddenExplained` | `[]HiddenWithoutCompany` | `ShownIs`: the tree shows the domains of a group at its root or one level below, no others |

Each proof that a step preserves an invariant has one step for each action, above lemmas on
what a step may do to the tables, the slots or one object.

*Only model-checked:* `PendingSettles`, `RenewedInTheEnd`, `StopEnds` and `HealthIsAnswered`
(liveness needs fairness and ENABLED, which TLAPS 1.4.5 does not handle). Every invariant and
action property of a passing run is a theorem, under the restrictions its run has.

## 7. What is not modelled, and why

- *Sessions, administrator, API keys*: access control is outside this development; besides
  it there are single statements on rows nothing else reads. The map of sessions has no lock:
  a data race, which the Go runtime answers with the end of the process. A crash of the other
  models stands for that.
- *Restarting the scheduler* within one process, and adding a task after `Start`: `main` calls
  `Start` once and `Stop` once, and registers its task before. (A second `Start` would replace
  the context a running task reads at every turn.)
- *Rate limiter*: sequential code under one mutex.
- *Backup*: what `io.Copy` makes of a file that is being written is decided by SQLite's pages
  and the operating system; the program cannot restore a copy.
- *REST and MCP*: decoding and encoding around one service call each. Handlers that do more are
  mapped at their actions.
- *Diagnostics log*: its repository names columns the table does not have; every query fails.
- *Kubernetes client*: configuration, listing of services, the pods and endpoints of
  `k8s/health.go`, the annotations and class of an Ingress, mock mode: reads and constants.
- *`matchesWildcard`, `CanCertificateCoverDomain`, `FindApplicableWildcardCertificate`*
  (`certificate_service.go:487-595`): no path of the program calls them; which Secret an Ingress
  names is chosen by `getWildcardSecretName`, which looks for a row by its name.
- *Cryptography*: `EncryptPrivateKey` and what crypto/x509 does inside a parser. The syntax of a
  name is a regular expression.
- *The stored status of a certificate* is no variable: it is only written with the rest of the
  row, and `GetExpiring` reads it to leave out what is marked expired or revoked, which no
  certificate ever is.
- `DomainSync` has no certificate columns and `Certificates` no namespaces, creation or
  deletion of domains: the two halves of a row are written by the same statements, and each
  module keeps the half its properties tell apart. Wildcard Secrets are in `DomainSync` (when
  one is chosen, and what the Ingress then names) and `DomainViews` (which one, by names), not in
  `Certificates`. The class and annotations that an Ingress takes from the settings are in none.
- The answer of `CreateDomain`, which shares its struct with the goroutine.
- The frontend, charts and manifests.

## 8. The plan

Done: `NameRegistry`, `DomainSync`, `Certificates`; `Scheduler` and `Renewals`; `DomainNames`,
`CertificateChecks` and `DomainViews`; `Settings`; `AcmeAccount`; `Reports`; and the proofs of
each. What is left, in this order:

1. A composition of `DomainSync` and `Certificates` over one row, with wildcard Secrets in the
   certificates' half, too, and the proof that each module is a projection of it: what a full-row write of one service does
   to the columns of the other beyond `certificate_id`.
2. The Ingress class of the settings in `DomainSync`: which Ingresses a change of it reaches.
3. What remains of `SettledInSync` and `SettledServed` when calls fail: which of their parts
   clients that wait still have, and what one further operation repairs.

## 9. How to run it

    tlc -workers 2 -config certs_faults.cfg MCCertificates.tla
    tlapm CertificatesProofs.tla

`PROJECT.json` lists each run with its module and properties, which mutated form
violates each property, the source lines behind each definition, the hazards of the
code, and the theorems. The largest run (`domains_faults`) takes one to two minutes, `reports` about as
long, `settings` less than one, the others seconds to half a minute. All proofs from nothing
take a few minutes.
