----------------------------- MODULE MCRenewals ------------------------------
(***************************************************************************)
(* A small instance of Renewals for TLC: renewals.cfg gives the rows, the  *)
(* handlers and the rows that can always be renewed.                       *)
(***************************************************************************)
EXTENDS Renewals

=============================================================================
