--------------------------- MODULE MCAcmeAccount -----------------------------
(***************************************************************************)
(* A small instance of AcmeAccount for TLC: with three keys a start can    *)
(* find one on disk, have registered another and still make a new one.     *)
(***************************************************************************)
EXTENDS AcmeAccount
=============================================================================
