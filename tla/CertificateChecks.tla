-------------------------- MODULE CertificateChecks --------------------------
(***************************************************************************)
(* What the program decides about a certificate by looking at it: whether  *)
(* an upload of a certificate and a key is accepted for a domain, and what *)
(* status it has so many hours before its end.                             *)
(*                                                                         *)
(* A key pair stands for its numbers: two are equal when modulus, or curve *)
(* and point, are.  Of a PEM text the first block counts, all that the     *)
(* code decodes; times are in hours from now.  Warnings change nothing.    *)
(***************************************************************************)
EXTENDS DomainNames, Integers

CONSTANTS
    CertPEMs,       \* what is uploaded for a certificate
    KeyPEMs,        \* what is uploaded for its private key
    Hours           \* hours until the end of a certificate, negative after it

KeyPair == [kind : {"RSA", "ECDSA", "Ed25519"}, id : Nat, small : BOOLEAN]
CertPEM == [block : {"CERTIFICATE", "other"}, whole : BOOLEAN, from : Int, until : Int,
            names : SUBSET Seq(STRING), pair : KeyPair]
KeyPEM == [block : {"RSA PRIVATE KEY", "EC PRIVATE KEY", "PRIVATE KEY", "other"},
           encoding : {"PKCS1", "SEC1", "PKCS8", "garbled"}, pair : KeyPair]

ASSUME ChecksAssumption ==
    CertPEMs \subseteq CertPEM /\ KeyPEMs \subseteq KeyPEM /\ Hours \subseteq Int

-----------------------------------------------------------------------------
(* CertificateService.UploadCertificate                                    *)

\* validateCertificateProperties, as far as it refuses.
InWindow(c) == c.from <= 0 /\ 0 <= c.until

ValidateCertificatePEM(c) == c.block = "CERTIFICATE" /\ c.whole /\ InWindow(c)

\* The parser that is tried for a block, and no other.
ParsedAs == [b \in {"RSA PRIVATE KEY", "EC PRIVATE KEY", "PRIVATE KEY"} |->
    CASE b = "RSA PRIVATE KEY" -> "PKCS1"
      [] b = "EC PRIVATE KEY" -> "SEC1"
      [] b = "PRIVATE KEY" -> "PKCS8"]

\* validatePrivateKeyProperties: 2048 bits for RSA, nothing for the others.
BigEnough(p) == p.kind = "RSA" => ~p.small

ValidatePrivateKeyPEM(k) ==
    k.block \in DOMAIN ParsedAs /\ ParsedAs[k.block] = k.encoding /\ BigEnough(k.pair)

CheckKeyPairMatch(c, p) == c.pair.kind \in {"RSA", "ECDSA"} /\ p = c.pair

ValidateCertificateKeyPair(c, k) ==
    /\ ValidateCertificatePEM(c)
    /\ ValidatePrivateKeyPEM(k)
    /\ CheckKeyPairMatch(c, k.pair)

ValidateForDomain(c, d) == ValidateCertificatePEM(c) /\ SuitableFor(c.names, d)

UploadAccepts(c, k, d) == ValidateCertificateKeyPair(c, k) /\ ValidateForDomain(c, d)

-----------------------------------------------------------------------------
(* Status                                                                  *)

\* Mutated form of DaysLeft: a day that has begun counts once it is over, too.
DaysLeft_Floor(h) == h \div 24

\* int(hours / 24) goes towards zero, on both sides of it.
DaysLeft(h) == IF h >= 0 THEN h \div 24 ELSE -((-h) \div 24)

\* determineCertStatus, for what cert-manager issued.
DetermineCertStatus(h) ==
    IF DaysLeft(h) < 0 THEN "expired" ELSE IF DaysLeft(h) < 30 THEN "expiring" ELSE "valid"

IsExpiring(h) == h <= 30 * 24
IsExpired(h) == h < 0

\* Certificate.UpdateStatus, for what is stored.
UpdateStatus(status, h) ==
    IF IsExpired(h) THEN "expired"
    ELSE IF IsExpiring(h) THEN "expiring"
    ELSE IF status = "revoked" THEN status ELSE "valid"

-----------------------------------------------------------------------------
(* What the checks are to find out                                         *)

\* A web server can present c with k now.
Presentable(c, k) ==
    c.block = "CERTIFICATE" /\ c.whole /\ c.from <= 0 /\ 0 <= c.until /\ k.pair = c.pair

\* c names d, or has a wildcard with any one label in the place of d's first.
MadeFor(c, d) == d \in c.names \/ \E n \in c.names : Covers(n, d)

\* A wildcard of c has d's labels but for the first two, and d's second label
\* ends in the letters of the wildcard's: *.r.t and a.nr.t.
Lookalike(c, d) ==
    \E n \in c.names :
        /\ IsWildcard(n) /\ Len(d) = Len(n)
        /\ Tail(Tail(d)) = Tail(Tail(n)) /\ <<d[2], n[2]>> \in Glued

\* The text is what its label says, and the key neither small nor Ed25519.
Supported(k) ==
    /\ <<k.block, k.encoding>> \in
         {<<"RSA PRIVATE KEY", "PKCS1">>, <<"EC PRIVATE KEY", "SEC1">>, <<"PRIVATE KEY", "PKCS8">>}
    /\ k.pair.kind \in {"RSA", "ECDSA"} /\ (k.pair.kind = "RSA" => ~k.pair.small)

=============================================================================
