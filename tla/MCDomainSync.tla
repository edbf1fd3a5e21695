---------------------------- MODULE MCDomainSync ----------------------------
(***************************************************************************)
(* Small instances of DomainSync for TLC.  The .cfg files give the number  *)
(* of ids, slots, names, namespaces and targets.                           *)
(***************************************************************************)
EXTENDS DomainSyncRegistry, TLC

CONSTANT Star       \* the wildcard, where there is one, over every name

Stars == [n \in Names |-> IF Star \in Names THEN Star ELSE None]

AllOps == {"create", "update", "softDelete", "hardDelete"}
NoUpdate == {"create", "softDelete", "hardDelete"}

AllFaults == {"k8s", "db", "crash"}

\* Slots are interchangeable; only safety runs use this.
Symmetry == Permutations(Tasks)

=============================================================================
