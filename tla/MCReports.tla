------------------------------ MODULE MCReports ------------------------------
(***************************************************************************)
(* A small instance of Reports for TLC: reports.cfg gives the domains and  *)
(* how often one changes while it is diagnosed.                            *)
(***************************************************************************)
EXTENDS Reports

\* Every state of the objects of a domain with a Secret of its own, and those of
\* one with a wildcard's where the two Secrets make the difference.
MCWorld == {o \in Objects : o.wildcard # "unused" => o.ingress = "ready" /\ o.secret # "other"}

=============================================================================
