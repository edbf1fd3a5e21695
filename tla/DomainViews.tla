----------------------------- MODULE DomainViews -----------------------------
(***************************************************************************)
(* What the domain service makes of the table of domains as a whole: the   *)
(* tree of GET /domains/tree and its groups, the subdomains of a root, and *)
(* which wildcard Secret a domain is to use; and what the service of       *)
(* certificates makes of an upload and of Secrets for domains it holds.    *)
(*                                                                         *)
(* The table is a sequence of rows in the order of their creation.  Every  *)
(* view begins with the rows that were created last, up to a limit, soft-  *)
(* deleted ones included.                                                  *)
(***************************************************************************)
EXTENDS CertificateChecks, FiniteSets

CONSTANTS
    Names,          \* the names in use, sequences of labels
    Hyphenated,     \* for each label with hyphens, the sequence of its parts
    Limit,          \* how many rows List returns: 1000 in the code
    MaxRows         \* bound: rows in the table

VARIABLE rows       \* domains, oldest first

Statuses == {"live", "deleted"}
Row == [name : Names, status : Statuses]

ASSUME ViewsAssumption ==
    /\ Limit \in Nat /\ MaxRows \in Nat
    /\ Names \subseteq NameSet

NamesOf(rs, ss) == {rs[i].name : i \in {j \in 1 .. Len(rs) : rs[j].status \in ss}}
Stored(n) == n \in NamesOf(rows, Statuses)
Live == NamesOf(rows, {"live"})

-----------------------------------------------------------------------------
(* Views                                                                   *)

\* ORDER BY created_at DESC LIMIT
Listed == IF Len(rows) > Limit THEN SubSeq(rows, Len(rows) - Limit + 1, Len(rows)) ELSE rows

ActiveDomains == NamesOf(Listed, {"live"})

SharedBy(c) == {d \in ActiveDomains : d = c \/ Below(d, c)}

\* The suffixes of n that are tried, from the longest; one label is not.
Candidates(n) == {k \in 2 .. Len(n) : Cardinality(SharedBy(Last(n, k))) > 1}

\* Mutated form of Chosen: the shortest suffix.
Chosen_Shortest(ks) == CHOOSE k \in ks : \A j \in ks : k <= j

Chosen(ks) == CHOOSE k \in ks : \A j \in ks : j <= k

FindBestRootDomain(n) ==
    IF Candidates(n) = {} THEN RootDomain(n) ELSE Last(n, Chosen(Candidates(n)))

Group(r) == {d \in ActiveDomains : FindBestRootDomain(d) = r}
Roots == {FindBestRootDomain(d) : d \in ActiveDomains}

\* What buildSubdomainTree makes nodes of, and what it hands to the next level.
Children(domains, parent) == {d \in domains : OneLevel(d, parent)}
Descendants(domains, parent) == {d \in domains : d # parent /\ Below(d, parent)}

\* buildSubdomainTree: its nodes are the domains one level below the parent,
\* each with what lies below it among the domains that are given.
SubdomainTree[domains \in SUBSET ActiveDomains] ==
    [parent \in ActiveDomains \cup Roots |->
        {LET descendants == Descendants(domains, d) IN
            [domain |-> d, count |-> 1 + Cardinality(descendants),
             subdomains |-> SubdomainTree[descendants][d]]
         : d \in Children(domains, parent)}]

\* GetDomainTree; domain is empty where the root itself is not in the group.
TreeNode(r) ==
    [root |-> r, domain |-> Group(r) \cap {r}, count |-> Cardinality(Group(r)),
     subdomains |-> SubdomainTree[Group(r) \ {r}][r]]

Tree == {TreeNode(r) : r \in Roots}

GetSubdomains(root) ==
    {d \in NamesOf(Listed, Statuses) : IsSubdomain(d) /\ RootDomain(d) = root}

CheckSubdomainConflict(n) == {m \in NamesOf(Listed, Statuses) : ConflictsWith(n, m) # {}}

SeqExt == INSTANCE SequencesExt

\* "wildcard-<root>-tls" has hyphens for the dots of the root, so that nothing
\* tells them from those it already had.
SecretName(root) ==
    SeqExt!FlattenSeq([i \in DOMAIN root |->
        IF root[i] \in DOMAIN Hyphenated THEN Hyphenated[root[i]] ELSE <<root[i]>>])

\* The wildcard that is looked for, where there is room for one.
HasWildcard(n) == Len(n) >= 3 /\ Stored(<<Star>> \o RootDomain(n))

\* Mutated form of WildcardSecret: a wildcard is looked for above n only.
WildcardSecret_Above(n) ==
    IF HasWildcard(n) /\ ~IsWildcard(n) THEN {SecretName(RootDomain(n))} ELSE {}

\* getWildcardSecretName: the wildcard Secret n is to use, or none.
WildcardSecret(n) ==
    IF IsWildcard(n) THEN {SecretName(Tail(n))}
    ELSE IF HasWildcard(n) THEN {SecretName(RootDomain(n))} ELSE {}

\* UploadCertificate, up to its writes: GetByName finds deleted domains, too.
UploadCertificate(c, k, d) == UploadAccepts(c, k, d) /\ Stored(d)

\* listCertManagerCertificates, with the Secrets of all domains h hours from
\* the end of their certificates.
CertManagerCertificates(h) == {[domain |-> d, status |-> DetermineCertStatus(h)] : d \in Live}

-----------------------------------------------------------------------------
(* The table                                                               *)

Init == rows = << >>

\* Mutated form of CreateDomain: the table does not keep names unique.
CreateDomain_Twice(n) ==
    /\ n \notin Live /\ Len(rows) < MaxRows
    /\ rows' = Append(rows, [name |-> n, status |-> "live"])

CreateDomain(n) ==
    /\ ~Stored(n) /\ Len(rows) < MaxRows
    /\ rows' = Append(rows, [name |-> n, status |-> "live"])

Set(n, status) == rows' = [i \in DOMAIN rows |->
    IF rows[i].name = n THEN [rows[i] EXCEPT !.status = status] ELSE rows[i]]

\* A row keeps its place: nothing writes created_at again.
ReactivateDomain(n) == Stored(n) /\ n \notin Live /\ Set(n, "live")

SoftDelete(n) == n \in Live /\ Set(n, "deleted")

HardDelete(n) == \E i \in DOMAIN rows :
    rows[i].name = n /\ rows' = SeqExt!RemoveAt(rows, i)

Next ==
    \E n \in Names :
        CreateDomain(n) \/ ReactivateDomain(n) \/ SoftDelete(n) \/ HardDelete(n)

Spec == Init /\ [][Next]_rows

-----------------------------------------------------------------------------

\* Every row is one, and no name has two.
TypeOK ==
    /\ rows \in Seq(Row)
    /\ \A i, j \in DOMAIN rows : rows[i].name = rows[j].name => i = j

\* In a group nothing but the root is above another domain, so that the tree
\* has two levels and the recursion finds nothing: a domain with subdomains is
\* the root of a group of its own.
TreeHasTwoLevels ==
    \A node \in Tree : \A s \in node.subdomains : s.subdomains = {} /\ s.count = 1

\* What the tree shows on its two levels.
Shown == UNION {node.domain \cup {s.domain : s \in node.subdomains} : node \in Tree}

\* The tree loses a domain exactly when it is at least four labels deep and
\* nothing else in the table is, or is below, its parent: with such company it
\* is one level below the root of its group, whatever else there is.
HiddenWithoutCompany ==
    ActiveDomains \ Shown =
        {d \in ActiveDomains : Len(d) >= 4 /\ SharedBy(Tail(d)) = {d}}

\* Names are reported to conflict exactly when one is under the other or under
\* what a wildcard stands for, and never for ending in the same letters.
ConflictsAreOverlaps ==
    \A n \in Names : CheckSubdomainConflict(n) = {m \in NamesOf(Listed, Statuses) : Overlap(n, m)}

\* A domain of three labels is to use a wildcard's Secret exactly when the table
\* has a wildcard that covers it, and then that wildcard's own, in whatever
\* order the two were created.
WildcardSecretShared ==
    \A d \in Live :
        Len(d) = 3 /\ ~IsWildcard(d) =>
            (WildcardSecret(d) # {} <=>
                \E w \in NamesOf(rows, Statuses) :
                    Covers(w, d) /\ WildcardSecret(w) = WildcardSecret(d))

\* The three validations that an upload passes one after another take for a
\* domain, among keys that are supported, exactly what a server could present
\* and is either made for the domain or, the one error, has a wildcard over a
\* parent that the domain's own only ends in the letters of.  An upload looks at
\* one domain, so that a table of one is enough.
UploadsAreUsable ==
    \A d \in Names : NamesOf(rows, Statuses) = {d} =>
        \A c \in CertPEMs, k \in KeyPEMs :
            UploadCertificate(c, k, d) <=>
                Presentable(c, k) /\ Supported(k) /\ (MadeFor(c, d) \/ Lookalike(c, d))

\* The status of what cert-manager issued is the one a stored certificate is
\* given, but for two times: on the day after its end it is still said to be
\* expiring, and thirty days to the moment before it, to be valid.
StatusesAgree ==
    \A h \in Hours : \A c \in CertManagerCertificates(h) :
        c.status = UpdateStatus("valid", h) <=> ~(-24 < h /\ h < 0) /\ h # 720
=============================================================================
