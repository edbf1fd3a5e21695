------------------------- MODULE DomainSyncRegistry -------------------------
(***************************************************************************)
(* DomainSync, whatever its handlers and goroutines do and whatever fails, *)
(* implements NameRegistry.                                                *)
(***************************************************************************)
EXTENDS DomainSync

CONSTANTS Unused, Gone

ASSUME RegistryAssumption == {Unused, Gone} \cap Names = {} /\ Unused # Gone

\* Below the sequence an id holds the name of its row or is gone.
registry ==
    [i \in Ids |-> IF i >= nextId THEN Unused
                   ELSE IF Exists(i) THEN rows[i].name ELSE Gone]

Registry == INSTANCE NameRegistry WITH reg <- registry

\* Every behaviour of the domains table is one of the registry: names are
\* allocated in order of id, to one holder at a time, and an id that was
\* retired is never used again.
ImplementsRegistry == Registry!Spec

=============================================================================
