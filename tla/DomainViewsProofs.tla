-------------------------- MODULE DomainViewsProofs --------------------------
(***************************************************************************)
(* Proofs about DomainNames and CertificateChecks, for names of any number *)
(* of any labels, whichever of them end in one another, and about          *)
(* DomainViews, for a table of any rows and any limit of List.             *)
(***************************************************************************)
EXTENDS DomainViews, FiniteSetTheorems, WellFoundedInduction, TLAPS

LEMMA LastOf ==
    ASSUME NEW n \in NameSet, NEW k \in Nat, k < Len(n)
    PROVE  /\ Last(n, k) \in Seq(STRING) /\ Len(Last(n, k)) = k
           /\ \A i \in 1 .. k : Last(n, k)[i] = n[Len(n) - k + i]
  BY DEF Last, NameSet

LEMMA TailOf ==
    ASSUME NEW n \in NameSet
    PROVE  /\ Tail(n) \in Seq(STRING) /\ Len(Tail(n)) = Len(n) - 1
           /\ \A i \in 1 .. Len(n) - 1 : Tail(n)[i] = n[i + 1]
  BY DEF NameSet

LEMMA SameSeq ==
    ASSUME NEW S, NEW s \in Seq(S), NEW t \in Seq(S), Len(s) = Len(t),
           \A i \in 1 .. Len(s) : s[i] = t[i]
    PROVE  s = t
  OBVIOUS

LEMMA Prefixed ==
    ASSUME NEW S, NEW a \in S, NEW r \in Seq(S)
    PROVE  /\ <<a>> \o r \in Seq(S) /\ Len(<<a>> \o r) = Len(r) + 1
           /\ (<<a>> \o r)[1] = a /\ Tail(<<a>> \o r) = r
  <1> DEFINE w == <<a>> \o r
  <1>1. /\ w \in Seq(S) /\ Len(w) = Len(r) + 1 /\ w[1] = a
        /\ \A i \in 1 .. Len(r) : w[i + 1] = r[i]
    OBVIOUS
  <1> HIDE DEF w
  <1>2. /\ Tail(w) \in Seq(S) /\ Len(Tail(w)) = Len(r)
        /\ \A i \in 1 .. Len(r) : Tail(w)[i] = w[i + 1]
    BY <1>1
  <1>3. Tail(w) = r
    BY <1>1, <1>2, SameSeq
  <1> QED
    BY <1>1, <1>3 DEF w

LEMMA LastIsTail ==
    ASSUME NEW n \in NameSet
    PROVE  Last(n, Len(n) - 1) = Tail(n)
  <1>1. Len(n) - 1 \in Nat
    BY DEF NameSet
  <1> QED
    BY <1>1, LastOf, TailOf, SameSeq DEF NameSet

LEMMA BelowRoot ==
    ASSUME NEW n \in NameSet, NEW w \in NameSet, IsWildcard(w), Tail(w) = RootDomain(n)
    PROVE  Below(n, Tail(w)) \/ Below(w, n)
  <1>1. Len(n) \in Nat /\ Len(w) \in Nat /\ Len(n) >= 2
    BY DEF NameSet
  <1>2. CASE Len(n) = 2
    <2>1. Tail(w) = n
      BY <1>2 DEF RootDomain, Last
    <2>2. Len(Tail(w)) = Len(w) - 1
      BY TailOf
    <2>3. Len(n) = Len(w) - 1
      BY <2>1, <2>2
    <2>4. Last(w, Len(n)) = n
      BY <2>1, <2>3, LastIsTail
    <2>5. Len(w) > Len(n)
      BY <1>1, <2>3
    <2> QED
      BY <2>4, <2>5 DEF Below
  <1>3. CASE Len(n) > 2
    <2>1. Len(Last(n, 2)) = 2 /\ Last(n, 2) = Tail(w)
      BY <1>3, LastOf DEF RootDomain
    <2> QED
      BY <1>3, <2>1 DEF Below
  <1>4. \A k \in Nat : k >= 2 => k = 2 \/ k > 2
    OBVIOUS
  <1> QED
    BY <1>1, <1>2, <1>3, <1>4

\* Two names conflict exactly when they overlap in the tree of names.
THEOREM ConflictIsOverlap ==
    ASSUME NEW n \in NameSet, NEW m \in NameSet
    PROVE  ConflictsWith(n, m) # {} <=> Overlap(n, m)
  <1>1. ConflictsWith(n, m) # {} <=>
            \/ n = m \/ Below(n, m) \/ Below(m, n) \/ Claims(m, n) \/ Claims(n, m)
    BY DEF ConflictsWith, IsChildOf
  <1>2. Claims(m, n) => Below(m, n) \/ (IsWildcard(m) /\ Below(n, Territory(m)))
    BY BelowRoot DEF Claims, Territory
  <1>3. Claims(n, m) => Below(n, m) \/ (IsWildcard(n) /\ Below(m, Territory(n)))
    BY BelowRoot DEF Claims, Territory
  <1>4. /\ IsWildcard(m) /\ Below(n, Territory(m)) => Claims(m, n)
        /\ IsWildcard(n) /\ Below(m, Territory(n)) => Claims(n, m)
    BY DEF Claims, Territory
  <1> QED
    BY <1>1, <1>2, <1>3, <1>4 DEF Overlap

-----------------------------------------------------------------------------
(* Certificates                                                            *)

\* What the validator's comparison of the ends of names comes to, label by label:
\* the name itself, a wildcard that covers it, or one that has its labels but for
\* the second, of which it only has the last letters.
THEOREM MatchesByLabels ==
    ASSUME NEW n \in Seq(STRING), NEW d \in NameSet
    PROVE  MatchWildcard(n, d) <=>
               \/ ~IsWildcard(n) /\ n = d
               \/ Covers(n, d)
               \/ /\ IsWildcard(n) /\ Len(d) = Len(n)
                  /\ Tail(Tail(d)) = Tail(Tail(n)) /\ <<d[2], n[2]>> \in Glued
  <1>1. CASE IsWildcard(n) /\ Len(d) = Len(n)
    <2>1. n \in NameSet /\ Len(n) \in Nat /\ Len(n) >= 2
      BY <1>1 DEF IsWildcard, NameSet
    <2>2. /\ Len(Tail(n)) = Len(n) - 1 /\ Tail(n)[1] = n[2]
          /\ Len(Tail(d)) = Len(d) - 1 /\ Tail(d)[1] = d[2]
      <3>1. 1 \in 1 .. Len(n) - 1
        BY <2>1
      <3> QED
        BY <1>1, <2>1, <3>1, TailOf
    <2>3. Last(d, Len(Tail(n))) = Tail(d)
      BY <1>1, <2>2, LastIsTail
    <2>4. EndsIn(d, Tail(n)) <=>
              \/ Tail(d) = Tail(n)
              \/ Tail(Tail(d)) = Tail(Tail(n)) /\ <<d[2], n[2]>> \in Glued
      <3>1. Len(d) >= Len(Tail(n))
        BY <1>1, <2>1, <2>2
      <3> QED
        BY <2>2, <2>3, <3>1 DEF EndsIn
    <2> QED
      BY <1>1, <2>4 DEF MatchWildcard, Covers
  <1>2. CASE ~(IsWildcard(n) /\ Len(d) = Len(n))
    BY <1>2 DEF MatchWildcard, Covers
  <1> QED
    BY <1>1, <1>2

\* An upload is accepted exactly when a server could present it, its key is
\* supported, and it is made for the domain or is the lookalike of one that is:
\* the formula of UploadsAreUsable, for certificates of any names, any window
\* and any keys.
THEOREM AcceptedIsUsable ==
    ASSUME NEW c \in CertPEM, NEW k \in KeyPEM, NEW d \in NameSet
    PROVE  UploadAccepts(c, k, d) <=>
               Presentable(c, k) /\ Supported(k) /\ (MadeFor(c, d) \/ Lookalike(c, d))
  <1>1. ValidatePrivateKeyPEM(k) /\ k.pair.kind \in {"RSA", "ECDSA"} <=> Supported(k)
    BY DEF ValidatePrivateKeyPEM, ParsedAs, BigEnough, Supported, KeyPEM, KeyPair
  <1>2. c.names \subseteq Seq(STRING)
    BY DEF CertPEM
  <1>3. SuitableFor(c.names, d) <=> MadeFor(c, d) \/ Lookalike(c, d)
    BY <1>2, MatchesByLabels DEF SuitableFor, MadeFor, Lookalike
  <1>4. CheckKeyPairMatch(c, k.pair) <=> k.pair = c.pair /\ k.pair.kind \in {"RSA", "ECDSA"}
    BY DEF CheckKeyPairMatch
  <1> QED
    BY <1>1, <1>3, <1>4
    DEF UploadAccepts, ValidateCertificateKeyPair, ValidateForDomain,
        ValidateCertificatePEM, InWindow, Presentable

\* The two ways to a status agree but on the day after the end and thirty days
\* to the moment before it: the formula of StatusesAgree, for every hour.
THEOREM StatusAgreement ==
    ASSUME NEW h \in Int
    PROVE  DetermineCertStatus(h) = UpdateStatus("valid", h) <=> ~(-24 < h /\ h < 0) /\ h # 720
  <1>1. CASE h >= 0
    <2>1. DaysLeft(h) \in Int /\ DaysLeft(h) >= 0 /\ (DaysLeft(h) < 30 <=> h < 720)
      BY <1>1 DEF DaysLeft
    <2> QED
      BY <1>1, <2>1 DEF DetermineCertStatus, UpdateStatus, IsExpired, IsExpiring
  <1>2. CASE h < 0
    <2>1. DaysLeft(h) \in Int /\ DaysLeft(h) < 30 /\ (DaysLeft(h) < 0 <=> h <= -24)
      BY <1>2 DEF DaysLeft
    <2> QED
      BY <1>2, <2>1 DEF DetermineCertStatus, UpdateStatus, IsExpired, IsExpiring
  <1> QED
    BY <1>1, <1>2

-----------------------------------------------------------------------------
(* The table                                                               *)

LEMMA RowsOf ==
    ASSUME TypeOK, NEW i \in DOMAIN rows
    PROVE  /\ DOMAIN rows = 1 .. Len(rows) /\ Len(rows) \in Nat
           /\ rows[i] \in Row /\ rows[i].name \in Names /\ rows[i].status \in Statuses
           /\ rows[i].name \in NamesOf(rows, Statuses)
  <1>1. DOMAIN rows = 1 .. Len(rows) /\ Len(rows) \in Nat /\ rows[i] \in Row
    BY DEF TypeOK
  <1>2. rows[i].name \in Names /\ rows[i].status \in Statuses
    BY <1>1 DEF Row
  <1> QED
    BY <1>1, <1>2 DEF NamesOf

\* Every row is one, and no name has two, whatever is created and deleted:
\* the write of each handler keeps it.
THEOREM TableTyped == Spec => []TypeOK
  <1>1. Init => TypeOK
    BY DEF Init, TypeOK
  <1>2. TypeOK /\ [Next]_rows => TypeOK'
    <2> SUFFICES ASSUME TypeOK, [Next]_rows PROVE TypeOK'
      OBVIOUS
    <2>1. ASSUME NEW n \in Names, CreateDomain(n) PROVE TypeOK'
      <3>1. [name |-> n, status |-> "live"] \in Row
        BY DEF Row, Statuses
      <3>2. \A i \in DOMAIN rows : rows[i].name # n
        BY <2>1, RowsOf DEF CreateDomain, Stored
      <3> QED
        BY <2>1, <3>1, <3>2 DEF CreateDomain, TypeOK
    <2>2. ASSUME NEW n \in Names, NEW s \in Statuses, Set(n, s) PROVE TypeOK'
      <3>1. \A i \in DOMAIN rows : rows'[i] \in Row /\ rows'[i].name = rows[i].name
        <4> TAKE i \in DOMAIN rows
        <4>1. rows'[i] = IF rows[i].name = n THEN [rows[i] EXCEPT !.status = s] ELSE rows[i]
          BY <2>2 DEF Set
        <4>2. rows[i] \in Row
          BY RowsOf
        <4> QED
          BY <4>1, <4>2 DEF Row
      <3>2. Len(rows) \in Nat /\ rows' \in [1 .. Len(rows) -> Row]
        BY <2>2, <3>1 DEF Set, TypeOK
      <3>3. rows' \in Seq(Row) /\ DOMAIN rows' = DOMAIN rows
        BY <3>2 DEF TypeOK
      <3> QED
        BY <3>1, <3>3 DEF TypeOK
    <2>3. ASSUME NEW n \in Names, HardDelete(n) PROVE TypeOK'
      <3>1. PICK i \in DOMAIN rows : rows' = SeqExt!RemoveAt(rows, i)
        BY <2>3 DEF HardDelete
      <3>2. i \in 1 .. Len(rows) /\ Len(rows) \in Nat
        BY <3>1 DEF TypeOK
      <3> DEFINE a == SubSeq(rows, 1, i - 1)
                 b == SubSeq(rows, i + 1, Len(rows))
      <3>3. /\ a \in Seq(Row) /\ Len(a) = i - 1 /\ \A j \in 1 .. i - 1 : a[j] = rows[j]
            /\ b \in Seq(Row) /\ Len(b) = Len(rows) - i
            /\ \A j \in 1 .. Len(rows) - i : b[j] = rows[i + j]
        BY <3>2 DEF TypeOK
      <3>4. rows' = a \o b
        BY <3>1 DEF SeqExt!RemoveAt
      <3> HIDE DEF a, b
      <3>5. /\ rows' \in Seq(Row) /\ Len(rows') = Len(rows) - 1
            /\ \A j \in 1 .. Len(rows) - 1 : rows'[j] = IF j < i THEN rows[j] ELSE rows[j + 1]
        <4>1. rows' \in Seq(Row) /\ Len(rows') = Len(rows) - 1
          BY <3>2, <3>3, <3>4
        <4>2. ASSUME NEW j \in 1 .. Len(rows) - 1, j < i PROVE rows'[j] = rows[j]
          BY <3>2, <3>3, <3>4, <4>2
        <4>3. ASSUME NEW j \in 1 .. Len(rows) - 1, ~(j < i) PROVE rows'[j] = rows[j + 1]
          <5>1. j - (i - 1) \in 1 .. Len(rows) - i /\ i + (j - (i - 1)) = j + 1
            BY <3>2, <4>3
          <5>2. j > Len(a) /\ j \in 1 .. Len(a) + Len(b) /\ a \in Seq(Row) /\ b \in Seq(Row)
            BY <3>2, <3>3, <4>3
          <5>3. (a \o b)[j] = b[j - Len(a)]
            BY <5>2
          <5>4. rows'[j] = b[j - (i - 1)]
            BY <3>3, <3>4, <5>3
          <5> QED
            BY <3>3, <5>1, <5>4
        <4> QED
          BY <4>1, <4>2, <4>3
      <3>6. DOMAIN rows = 1 .. Len(rows) /\ DOMAIN rows' = 1 .. Len(rows) - 1
        BY <3>5 DEF TypeOK
      <3>7. ASSUME NEW j \in DOMAIN rows', NEW k \in DOMAIN rows', rows'[j].name = rows'[k].name
            PROVE  j = k
        <4> DEFINE at(x) == IF x < i THEN x ELSE x + 1
        <4>1. at(j) \in DOMAIN rows /\ at(k) \in DOMAIN rows
          BY <3>2, <3>6
        <4>2. rows'[j] = rows[at(j)] /\ rows'[k] = rows[at(k)]
          BY <3>5, <3>6
        <4>3. at(j) = at(k)
          BY <3>7, <4>1, <4>2 DEF TypeOK
        <4> QED
          BY <3>2, <3>6, <4>3
      <3> QED
        BY <3>5, <3>7 DEF TypeOK
    <2>4. CASE UNCHANGED rows
      BY <2>4 DEF TypeOK
    <2> QED
      BY <2>1, <2>2, <2>3, <2>4 DEF Next, ReactivateDomain, SoftDelete, Statuses
  <1> QED
    BY <1>1, <1>2, PTL DEF Spec

\* A view shows rows of the table.
LEMMA ListedRows ==
    ASSUME TypeOK
    PROVE  Listed \in Seq(Row) /\ \A i \in DOMAIN Listed : \E j \in DOMAIN rows : Listed[i] = rows[j]
  <1>1. CASE Len(rows) > Limit
    <2>1. Len(rows) \in Nat /\ Limit \in Nat
      BY ViewsAssumption DEF TypeOK
    <2>2. /\ Listed \in Seq(Row) /\ Len(Listed) = Limit
          /\ \A i \in 1 .. Limit : Listed[i] = rows[Len(rows) - Limit + i]
      BY <1>1, <2>1 DEF Listed, TypeOK
    <2> QED
      BY <1>1, <2>1, <2>2 DEF TypeOK
  <1>2. CASE ~(Len(rows) > Limit)
    BY <1>2 DEF Listed, TypeOK
  <1> QED
    BY <1>1, <1>2

LEMMA NamesTyped ==
    ASSUME TypeOK, NEW ss
    PROVE  /\ NamesOf(rows, ss) \subseteq Names /\ NamesOf(Listed, ss) \subseteq Names
           /\ Names \subseteq NameSet
  <1>1. ASSUME NEW i \in 1 .. Len(Listed) PROVE Listed[i].name \in Names
    <2>1. i \in DOMAIN Listed
      BY ListedRows
    <2> QED
      BY <2>1, ListedRows, RowsOf
  <1>2. \A i \in 1 .. Len(rows) : rows[i].name \in Names
    BY RowsOf DEF TypeOK
  <1> QED
    BY <1>1, <1>2, ViewsAssumption DEF NamesOf

\* The names that are reported to conflict with n are those in the table that
\* overlap with it.
THEOREM ConflictsFound == Spec => []ConflictsAreOverlaps
  <1>1. TypeOK => ConflictsAreOverlaps
    BY NamesTyped, ConflictIsOverlap DEF ConflictsAreOverlaps, CheckSubdomainConflict
  <1> QED
    BY <1>1, TableTyped, PTL

\* What is uploaded for the one domain of a table is accepted exactly when a
\* server could present it, its key is supported, and it is made for the domain
\* or for one whose letters the domain's end in.
THEOREM UploadsChecked == Spec => []UploadsAreUsable
  <1>1. TypeOK => UploadsAreUsable
    BY AcceptedIsUsable, ViewsAssumption, ChecksAssumption
    DEF UploadsAreUsable, UploadCertificate, Stored
  <1> QED
    BY <1>1, TableTyped, PTL

\* The status of every Secret that is listed is the one a stored certificate has,
\* but at the two times.
THEOREM ListedStatuses == Spec => []StatusesAgree
  <1>1. TypeOK => StatusesAgree
    BY StatusAgreement, ChecksAssumption DEF StatusesAgree, CertManagerCertificates
  <1> QED
    BY <1>1, TableTyped, PTL

\* The wildcard that is looked for at the root covers a domain of three labels,
\* and whatever covers one has its Secret.
THEOREM SecretsShared == Spec => []WildcardSecretShared
  <1>1. ASSUME TypeOK PROVE WildcardSecretShared
    <2> SUFFICES ASSUME NEW d \in Live, Len(d) = 3, ~IsWildcard(d), WildcardSecret(d) # {}
                 PROVE  \E w \in NamesOf(rows, Statuses) :
                            Covers(w, d) /\ WildcardSecret(w) = WildcardSecret(d)
      BY DEF WildcardSecretShared, WildcardSecret, Covers
    <2> DEFINE w == <<Star>> \o RootDomain(d)
    <2>1. d \in NameSet
      BY <1>1, NamesTyped DEF Live
    <2>2. RootDomain(d) = Tail(d) /\ Tail(d) \in Seq(STRING) /\ Len(Tail(d)) = 2
      <3>1. Last(d, Len(d) - 1) = Tail(d) /\ Tail(d) \in Seq(STRING) /\ Len(Tail(d)) = Len(d) - 1
        BY <2>1, LastIsTail, TailOf
      <3> QED
        BY <3>1 DEF RootDomain
    <2>3. w \in NamesOf(rows, Statuses) /\ WildcardSecret(d) = {SecretName(Tail(d))}
      BY <2>2 DEF WildcardSecret, HasWildcard, Stored
    <2>4. Tail(d) \in Seq(STRING \cup {Star})
      BY <2>2
    <2>5. Len(w) = 3 /\ w[1] = Star /\ Tail(w) = Tail(d)
      <3>1. Star \in STRING \cup {Star}
        OBVIOUS
      <3> QED
        BY <2>2, <2>4, <3>1, Prefixed
    <2> HIDE DEF w
    <2>6. IsWildcard(w) /\ Covers(w, d)
      BY <2>5 DEF IsWildcard, Covers
    <2>7. WildcardSecret(w) = WildcardSecret(d)
      BY <2>3, <2>5, <2>6 DEF WildcardSecret
    <2> QED
      BY <2>3, <2>6, <2>7
  <1> QED
    BY <1>1, TableTyped, PTL

-----------------------------------------------------------------------------
(* The groups                                                              *)

LEMMA Greatest ==
    ASSUME NEW n \in Nat, NEW S \in SUBSET (0 .. n), S # {}
    PROVE  \E k \in S : \A j \in S : j <= k
  <1> DEFINE T == {n - k : k \in S}
  <1>1. T \subseteq Nat /\ T # {}
    <2>1. \A k \in S : n - k \in Nat
      OBVIOUS
    <2> QED
      BY <2>1
  <1>2. PICK x \in T : \A y \in T : ~(<<y, x>> \in OpToRel(<, Nat))
    BY <1>1, NatLessThanWellFounded, WFMin
  <1>3. \A y \in T : ~(y < x)
    BY <1>1, <1>2 DEF OpToRel
  <1>4. PICK k \in S : x = n - k
    OBVIOUS
  <1>5. \A j \in S : j <= k
    BY <1>3, <1>4
  <1> QED
    BY <1>5

LEMMA OneOrMore ==
    ASSUME NEW S, IsFiniteSet(S), NEW d \in S
    PROVE  Cardinality(S) > 1 <=> S # {d}
  <1>1. /\ Cardinality(S) \in Nat /\ IsFiniteSet(S \ {d})
        /\ Cardinality(S \ {d}) = Cardinality(S) - 1
    BY FS_CardinalityType, FS_RemoveElement
  <1>2. Cardinality(S \ {d}) = 0 <=> S \ {d} = {}
    BY <1>1, FS_EmptySet
  <1>3. S \ {d} = {} <=> S = {d}
    OBVIOUS
  <1>4. Cardinality(S) > 1 <=> Cardinality(S \ {d}) # 0
    <2> DEFINE c == Cardinality(S)
               e == Cardinality(S \ {d})
    <2>1. c \in Nat /\ e \in Nat /\ e = c - 1
      BY <1>1, FS_CardinalityType
    <2> HIDE DEF c, e
    <2>2. c > 1 <=> e # 0
      BY <2>1
    <2> QED
      BY <2>2 DEF c, e
  <1> QED
    BY <1>2, <1>3, <1>4

LEMMA ActiveFinite ==
    ASSUME TypeOK
    PROVE  ActiveDomains \subseteq NameSet /\ IsFiniteSet(ActiveDomains)
  <1>1. ActiveDomains \subseteq NameSet
    BY NamesTyped DEF ActiveDomains
  <1> DEFINE S == {j \in 1 .. Len(Listed) : Listed[j].status \in {"live"}}
             f == [j \in S |-> Listed[j].name]
  <1>2. Len(Listed) \in Nat
    BY ListedRows
  <1>3. IsFiniteSet(S)
    <2>1. IsFiniteSet(1 .. Len(Listed)) /\ S \in SUBSET (1 .. Len(Listed))
      <3>1. 1 \in Int /\ Len(Listed) \in Int
        BY <1>2
      <3> QED
        BY <3>1, FS_Interval
    <2> QED
      BY <2>1, FS_Subset
  <1>4. ActiveDomains = {f[j] : j \in S}
    BY DEF ActiveDomains, NamesOf
  <1>5. f \in Surjection(S, ActiveDomains)
    BY <1>4 DEF Surjection, Range
  <1> QED
    BY <1>1, <1>3, <1>5, FS_Surjection DEF ExistsSurjection

LEMMA LastWhole ==
    ASSUME NEW n \in NameSet, NEW k \in 2 .. Len(n)
    PROVE  /\ Last(n, k) \in Seq(STRING) /\ Len(Last(n, k)) = k
           /\ Last(n, k) = n <=> k = Len(n)
           /\ k < Len(n) => Below(n, Last(n, k))
  <1>1. Len(n) \in Nat /\ n \in Seq(STRING)
    BY DEF NameSet
  <1>2. CASE k = Len(n)
    BY <1>1, <1>2 DEF Last
  <1>3. CASE k < Len(n)
    <2>1. Last(n, k) \in Seq(STRING) /\ Len(Last(n, k)) = k
      BY <1>1, <1>3, LastOf
    <2> QED
      BY <1>1, <1>3, <2>1 DEF Below
  <1> QED
    BY <1>1, <1>2, <1>3

\* A domain is one level below its last k labels when it has one more.
LEMMA LevelsBelow ==
    ASSUME NEW n \in NameSet, NEW k \in 2 .. Len(n)
    PROVE  OneLevel(n, Last(n, k)) <=> k = Len(n) - 1
  <1>1. Len(n) \in Nat
    BY DEF NameSet
  <1>2. CASE k = Len(n)
    BY <1>1, <1>2, LastWhole DEF OneLevel
  <1>3. CASE k = Len(n) - 1
    <2>1. Last(n, k) # n /\ Len(Last(n, k)) = k /\ Below(n, Last(n, k))
      BY <1>1, <1>3, LastWhole
    <2> QED
      BY <1>1, <1>3, <2>1 DEF OneLevel, EndsIn, Below
  <1>4. CASE k < Len(n) - 1
    BY <1>1, <1>4, LastWhole DEF OneLevel
  <1> QED
    BY <1>1, <1>2, <1>3, <1>4

\* What is below a name is below what that name is directly below.
LEMMA BelowTail ==
    ASSUME NEW d \in NameSet, NEW e \in NameSet, Below(e, d)
    PROVE  Below(e, Tail(d))
  <1>1. Len(d) \in Nat /\ Len(e) \in Nat /\ Len(d) >= 2 /\ Len(e) > Len(d) /\ Last(e, Len(d)) = d
    BY DEF Below, NameSet
  <1>2. Tail(d) \in Seq(STRING) /\ Len(Tail(d)) = Len(d) - 1
    BY TailOf
  <1>3. Last(e, Len(d) - 1) \in Seq(STRING) /\ Len(Last(e, Len(d) - 1)) = Len(d) - 1
    BY <1>1, LastOf
  <1>4. ASSUME NEW i \in 1 .. Len(d) - 1
        PROVE  Last(e, Len(d) - 1)[i] = Tail(d)[i]
    <2>1. Last(e, Len(d) - 1)[i] = e[Len(e) - (Len(d) - 1) + i]
      <3>1. Len(d) - 1 \in Nat /\ Len(d) - 1 < Len(e)
        BY <1>1
      <3> QED
        BY <3>1, LastOf
    <2>2. i + 1 \in 1 .. Len(d) /\ Len(e) - Len(d) + (i + 1) = Len(e) - (Len(d) - 1) + i
      BY <1>1
    <2>3. d[i + 1] = e[Len(e) - Len(d) + (i + 1)]
      BY <1>1, <2>2, LastOf
    <2>4. Tail(d)[i] = d[i + 1]
      BY TailOf
    <2> QED
      BY <2>1, <2>2, <2>3, <2>4
  <1>5. Last(e, Len(d) - 1) = Tail(d)
    BY <1>2, <1>3, <1>4, SameSeq
  <1> QED
    BY <1>1, <1>2, <1>5 DEF Below

\* A suffix is a candidate when a domain shares it with another.
LEMMA CandidateIs ==
    ASSUME TypeOK, NEW d \in ActiveDomains, NEW k \in 2 .. Len(d)
    PROVE  k \in Candidates(d) <=> SharedBy(Last(d, k)) # {d}
  <1>1. d \in NameSet
    BY ActiveFinite
  <1>2. IsFiniteSet(SharedBy(Last(d, k)))
    <2>1. SharedBy(Last(d, k)) \in SUBSET ActiveDomains
      BY DEF SharedBy
    <2> QED
      BY <2>1, ActiveFinite, FS_Subset
  <1>3. d \in SharedBy(Last(d, k))
    BY <1>1, LastWhole DEF SharedBy, NameSet
  <1> QED
    BY <1>2, <1>3, OneOrMore DEF Candidates

\* The root that is chosen is a suffix of the domain, no shorter than any other
\* candidate.
LEMMA RootIs ==
    ASSUME TypeOK, NEW d \in ActiveDomains
    PROVE  \E k \in 2 .. Len(d) :
               /\ FindBestRootDomain(d) = Last(d, k)
               /\ \A j \in Candidates(d) : j <= k
               /\ k \in Candidates(d) \/ (k = 2 /\ Candidates(d) = {})
  <1>1. Len(d) \in Nat /\ Len(d) >= 2
    BY ActiveFinite DEF NameSet
  <1>2. CASE Candidates(d) = {}
    BY <1>1, <1>2 DEF FindBestRootDomain, RootDomain
  <1>3. CASE Candidates(d) # {}
    <2>1. Candidates(d) \in SUBSET (0 .. Len(d)) /\ Candidates(d) \subseteq 2 .. Len(d)
      BY <1>1 DEF Candidates
    <2>2. \E k \in Candidates(d) : \A j \in Candidates(d) : j <= k
      BY <1>1, <1>3, <2>1, Greatest
    <2>3. /\ Chosen(Candidates(d)) \in Candidates(d)
          /\ \A j \in Candidates(d) : j <= Chosen(Candidates(d))
      BY <2>2 DEF Chosen
    <2> QED
      BY <1>3, <2>1, <2>3 DEF FindBestRootDomain
  <1> QED
    BY <1>2, <1>3

\* In a group nothing but the root is above another domain: what has a domain
\* below it is its own root.
THEOREM GroupsAreFlat ==
    ASSUME TypeOK, NEW r, NEW d \in Group(r), d # r
    PROVE  Descendants(Group(r), d) = {}
  <1> SUFFICES ASSUME NEW e \in Group(r), Below(e, d), e # d PROVE FALSE
    BY DEF Descendants
  <1>1. d \in ActiveDomains /\ e \in ActiveDomains /\ FindBestRootDomain(d) = r
    BY DEF Group
  <1>2. d \in NameSet /\ Len(d) \in Nat /\ Len(d) >= 2
    BY <1>1, ActiveFinite DEF NameSet
  <1>3. Last(d, Len(d)) = d /\ e \in SharedBy(d)
    BY <1>1, <1>2, LastWhole DEF SharedBy
  <1>4. Len(d) \in Candidates(d)
    BY <1>1, <1>2, <1>3, CandidateIs
  <1>5. PICK k \in 2 .. Len(d) : r = Last(d, k) /\ \A j \in Candidates(d) : j <= k
    BY <1>1, RootIs
  <1> QED
    BY <1>2, <1>3, <1>4, <1>5

\* The nodes under p among D, when g gives the nodes further below.
Nodes(g, D, p) ==
    {[domain |-> d, count |-> 1 + Cardinality(Descendants(D, d)),
      subdomains |-> g[Descendants(D, d)][d]] : d \in Children(D, p)}

TreeOf(g, A, P) == [D \in SUBSET A |-> [p \in P |-> Nodes(g, D, p)]]

\* The recursion of the tree is well-founded: what lies below a domain are
\* fewer domains than those it is one of.  So there is a function as its
\* definition says; by induction on how many domains it is applied to.
LEMMA TreeExists ==
    ASSUME NEW A, IsFiniteSet(A), NEW P
    PROVE  \E g : g = TreeOf(g, A, P)
  <1> DEFINE Few(n) == {D \in SUBSET A : Cardinality(D) < n}
             Build(g, n) == [D \in Few(n) |-> [p \in P |-> Nodes(g, D, p)]]
             Bad == {n \in Nat : ~ \E g : g = Build(g, n)}
  <1>1. \A D \in SUBSET A : IsFiniteSet(D) /\ Cardinality(D) \in Nat
    BY FS_Subset, FS_CardinalityType
  <1>2. Bad = {}
    <2>1. SUFFICES ASSUME Bad # {} PROVE FALSE
      OBVIOUS
    <2>2. PICK n \in Bad : \A m \in Bad : ~(<<m, n>> \in OpToRel(<, Nat))
      <3>1. Bad \subseteq Nat
        OBVIOUS
      <3> HIDE DEF Bad
      <3> QED
        BY <2>1, <3>1, NatLessThanWellFounded, WFMin
    <2>3. n \in Nat /\ (\A g : g # Build(g, n)) /\ \A m \in Nat : m < n => \E g : g = Build(g, m)
      <3>1. n \in Nat /\ \A g : g # Build(g, n)
        OBVIOUS
      <3>2. ASSUME NEW m \in Nat, m < n
            PROVE  \E g : g = Build(g, m)
        <4>1. m \notin Bad
          BY <2>2, <3>1, <3>2 DEF OpToRel
        <4> QED
          BY <4>1
      <3> QED
        BY <3>1, <3>2
    <2> HIDE DEF Bad
    <2>4. PICK g : \A E \in SUBSET A : Cardinality(E) + 1 < n => g[E] = [p \in P |-> Nodes(g, E, p)]
      <3>1. CASE n = 0
        BY <1>1, <3>1
      <3>2. CASE n # 0
        <4>0. n - 1 \in Nat /\ n - 1 < n
          BY <2>3, <3>2
        <4>1. PICK g : g = Build(g, n - 1)
          <5> HIDE DEF Build
          <5> QED
            BY <2>3, <4>0
        <4>2. \A E \in Few(n - 1) : g[E] = [p \in P |-> Nodes(g, E, p)]
          BY <4>1
        <4>3. \A E \in SUBSET A : Cardinality(E) + 1 < n => E \in Few(n - 1)
          BY <1>1, <2>3
        <4> QED
          BY <4>2, <4>3
      <3> QED
        BY <3>1, <3>2
    <2> DEFINE h == Build(g, n)
    <2>5. \A E \in SUBSET A : Cardinality(E) + 1 < n => h[E] = g[E]
      BY <1>1, <2>3, <2>4
    <2>6. ASSUME NEW D \in Few(n), NEW p \in P
          PROVE  Nodes(g, D, p) = Nodes(h, D, p)
      <3>1. ASSUME NEW d \in Children(D, p)
            PROVE  h[Descendants(D, d)] = g[Descendants(D, d)]
        <4> DEFINE E == Descendants(D, d)
        <4>1. D \in SUBSET A /\ d \in D /\ E \in SUBSET D /\ d \notin E
          BY DEF Children, Descendants
        <4>2. IsFiniteSet(D) /\ Cardinality(D) < n
          BY <1>1
        <4>3. Cardinality(E) <= Cardinality(D) /\ (Cardinality(E) = Cardinality(D) => E = D)
          BY <4>1, <4>2, FS_Subset
        <4>4. E \in SUBSET A /\ Cardinality(E) \in Nat /\ Cardinality(D) \in Nat
          BY <1>1, <4>1
        <4> HIDE DEF E, h
        <4>5. Cardinality(E) + 1 < n
          BY <2>3, <4>1, <4>2, <4>3, <4>4
        <4>6. h[E] = g[E]
          BY <2>5, <4>4, <4>5
        <4> QED
          BY <4>6 DEF E
      <3> HIDE DEF h
      <3> QED
        BY <3>1 DEF Nodes
    <2>7. h = Build(h, n)
      <3> DEFINE e == Build(h, n)
      <3>1. \A D \in Few(n) : h[D] = e[D]
        BY <2>6
      <3> QED
        BY <3>1
    <2> QED
      BY <2>3, <2>7
  <1> DEFINE m == Cardinality(A) + 1
  <1>3. m \in Nat /\ \A D \in SUBSET A : Cardinality(D) < m
    <2>1. \A D \in SUBSET A : Cardinality(D) <= Cardinality(A)
      BY FS_Subset
    <2>2. Cardinality(A) \in Nat
      BY FS_CardinalityType
    <2> QED
      BY <1>1, <2>1, <2>2
  <1>4. Few(m) = SUBSET A
    BY <1>3
  <1>5. PICK g : g = Build(g, m)
    BY <1>2, <1>3
  <1> QED
    BY <1>4, <1>5 DEF TreeOf

\* So the recursive definition of the tree may be unfolded.
LEMMA TreeUnfolds ==
    ASSUME TypeOK, NEW D \in SUBSET ActiveDomains, NEW p \in ActiveDomains \cup Roots
    PROVE  SubdomainTree[D][p] = Nodes(SubdomainTree, D, p)
  <1> DEFINE A == ActiveDomains
             P == ActiveDomains \cup Roots
  <1>1. \E g : g = TreeOf(g, A, P)
    BY ActiveFinite, TreeExists
  <1>2. SubdomainTree = TreeOf(SubdomainTree, A, P)
    BY <1>1 DEF SubdomainTree, TreeOf, Nodes
  <1> QED
    BY <1>2 DEF TreeOf

\* What the tree shows of a group: its root, if that is a domain, and what is
\* one level below it; and each of these has nothing below it.
ShownOf(r) == (Group(r) \cap {r}) \cup Children(Group(r) \ {r}, r)

LEMMA NodeIs ==
    ASSUME TypeOK, NEW r \in Roots
    PROVE  /\ TreeNode(r).domain = Group(r) \cap {r}
           /\ {s.domain : s \in TreeNode(r).subdomains} = Children(Group(r) \ {r}, r)
           /\ \A s \in TreeNode(r).subdomains : s.subdomains = {} /\ s.count = 1
  <1> DEFINE D == Group(r) \ {r}
  <1>1. D \in SUBSET ActiveDomains
    BY DEF Group
  <1>2. TreeNode(r).domain = Group(r) \cap {r} /\ TreeNode(r).subdomains = Nodes(SubdomainTree, D, r)
    BY <1>1, TreeUnfolds DEF TreeNode
  <1>3. ASSUME NEW d \in Children(D, r)
        PROVE  Descendants(D, d) = {} /\ SubdomainTree[Descendants(D, d)][d] = {}
    <2>1. d \in Group(r) /\ d # r /\ d \in ActiveDomains
      BY DEF Children, Group
    <2>2. Descendants(D, d) = {}
      BY <2>1, GroupsAreFlat DEF Descendants
    <2>3. SubdomainTree[{}][d] = Nodes(SubdomainTree, {}, d)
      BY <2>1, TreeUnfolds
    <2>4. Nodes(SubdomainTree, {}, d) = {}
      BY DEF Nodes, Children
    <2> QED
      BY <2>2, <2>3, <2>4
  <1>4. Cardinality({}) = 0
    BY FS_EmptySet
  <1> HIDE DEF D
  <1>5. \A s \in Nodes(SubdomainTree, D, r) : s.subdomains = {} /\ s.count = 1
    BY <1>3, <1>4 DEF Nodes
  <1>6. {s.domain : s \in Nodes(SubdomainTree, D, r)} = Children(D, r)
    <2>1. \A s \in Nodes(SubdomainTree, D, r) : s.domain \in Children(D, r)
      BY DEF Nodes
    <2>2. ASSUME NEW d \in Children(D, r)
          PROVE  \E s \in Nodes(SubdomainTree, D, r) : s.domain = d
      <3> DEFINE s == [domain |-> d, count |-> 1 + Cardinality(Descendants(D, d)),
                       subdomains |-> SubdomainTree[Descendants(D, d)][d]]
      <3>1. s \in Nodes(SubdomainTree, D, r) /\ s.domain = d
        BY DEF Nodes
      <3> QED
        BY <3>1
    <2> QED
      BY <2>1, <2>2
  <1> QED
    BY <1>2, <1>5, <1>6 DEF D

\* In a tree of any domains nothing is deeper than the second level: the
\* recursion finds nothing, and a domain that is shown is shown there.
THEOREM TreeIsShallow == Spec => []TreeHasTwoLevels
  <1>1. TypeOK => TreeHasTwoLevels
    BY NodeIs DEF TreeHasTwoLevels, Tree
  <1> QED
    BY <1>1, TableTyped, PTL

LEMMA ShownIs ==
    ASSUME TypeOK
    PROVE  Shown = UNION {ShownOf(r) : r \in Roots}
  <1>1. \A r \in Roots : TreeNode(r).domain \cup {s.domain : s \in TreeNode(r).subdomains} = ShownOf(r)
    BY NodeIs DEF ShownOf
  <1> QED
    BY <1>1 DEF Shown, Tree

\* The tree shows a domain when its root is itself or one label shorter.
LEMMA ShownWhen ==
    ASSUME TypeOK, NEW d \in ActiveDomains, NEW k \in 2 .. Len(d), FindBestRootDomain(d) = Last(d, k)
    PROVE  d \in Shown <=> k >= Len(d) - 1
  <1>1. d \in NameSet /\ Len(d) \in Nat
    BY ActiveFinite DEF NameSet
  <1>2. d \in Shown <=> d \in ShownOf(Last(d, k))
    <2>1. Last(d, k) \in Roots
      BY DEF Roots
    <2>2. \A r : d \in ShownOf(r) => r = Last(d, k)
      BY DEF ShownOf, Children, Group
    <2> QED
      BY <2>1, <2>2, ShownIs
  <1>3. d \in ShownOf(Last(d, k)) <=> d = Last(d, k) \/ OneLevel(d, Last(d, k))
    BY DEF ShownOf, Children, Group, OneLevel
  <1> QED
    BY <1>1, <1>2, <1>3, LastWhole, LevelsBelow

\* A domain is missing from the tree exactly when it has four labels or more and
\* no company at its parent.
THEOREM HiddenExplained == Spec => []HiddenWithoutCompany
  <1>1. ASSUME TypeOK, NEW d \in ActiveDomains
        PROVE  d \notin Shown <=> Len(d) >= 4 /\ SharedBy(Tail(d)) = {d}
    <2>1. d \in NameSet /\ Len(d) \in Nat /\ Len(d) >= 2 /\ ActiveDomains \subseteq NameSet
      BY <1>1, ActiveFinite DEF NameSet
    <2>2. PICK k \in 2 .. Len(d) :
              /\ FindBestRootDomain(d) = Last(d, k)
              /\ \A j \in Candidates(d) : j <= k
              /\ k \in Candidates(d) \/ (k = 2 /\ Candidates(d) = {})
      BY <1>1, RootIs
    <2>3. d \in Shown <=> k >= Len(d) - 1
      BY <1>1, <2>2, ShownWhen
    <2>4. CASE Len(d) < 4
      BY <2>1, <2>3, <2>4
    <2>5. CASE Len(d) >= 4
      <3> DEFINE j == Len(d) - 1
      <3>1. j \in 2 .. Len(d) /\ j < Len(d) /\ Last(d, Len(d)) = d /\ Last(d, j) = Tail(d)
        BY <2>1, <2>5, LastWhole, LastIsTail
      <3>2. Len(d) - 1 \in Candidates(d) <=> SharedBy(Tail(d)) # {d}
        <4> HIDE DEF j
        <4>1. j \in Candidates(d) <=> SharedBy(Tail(d)) # {d}
          BY <1>1, <3>1, CandidateIs
        <4> QED
          BY <4>1 DEF j
      <3>3. Len(d) \in Candidates(d) <=> SharedBy(d) # {d}
        BY <1>1, <2>1, <3>1, CandidateIs
      <3>4. Below(d, Tail(d))
        <4> HIDE DEF j
        <4> QED
          BY <2>1, <3>1, LastWhole
      <3>5. d \in SharedBy(d) /\ SharedBy(d) \subseteq SharedBy(Tail(d))
        BY <2>1, <3>4, BelowTail DEF SharedBy
      <3>6. CASE SharedBy(Tail(d)) = {d}
        <4>1. Len(d) \notin Candidates(d) /\ Len(d) - 1 \notin Candidates(d)
          BY <3>2, <3>3, <3>5, <3>6
        <4> QED
          BY <2>1, <2>2, <2>3, <2>5, <3>6, <4>1
      <3>7. CASE SharedBy(Tail(d)) # {d}
        BY <2>1, <2>2, <2>3, <3>2, <3>7
      <3> QED
        BY <3>6, <3>7
    <2> QED
      BY <2>1, <2>4, <2>5
  <1>2. TypeOK => HiddenWithoutCompany
    BY <1>1 DEF HiddenWithoutCompany
  <1> QED
    BY <1>2, TableTyped, PTL
=============================================================================
