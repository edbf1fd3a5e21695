--------------------------- MODULE MCCertificates ---------------------------
(***************************************************************************)
(* Small instances of Certificates for TLC.                                *)
(***************************************************************************)
EXTENDS Certificates, TLC

AllOps == {"upload", "obtain", "renew", "delete", "updateDomain"}

AllFaults == {"k8s", "db", "acme", "crash", "recycle"}

\* Names and slots are interchangeable; only safety runs use this.
Symmetry == Permutations(Names) \cup Permutations(Tasks)

=============================================================================
