---------------------------- MODULE NameRegistry ----------------------------
(***************************************************************************)
(* What the domains table promises the rest of the program: a registry of  *)
(* domain names under numeric ids.  An id is taken once, for one name, in  *)
(* increasing order; while it is held no other id holds the same name; and *)
(* an id given back is never taken again.  The Ingress "domain-<id>", the  *)
(* diagnostic logs and every goroutine refer to a domain by its id alone,  *)
(* so they all rest on this promise.  DomainSync implements it.            *)
(***************************************************************************)
EXTENDS Naturals

CONSTANTS
    Names,      \* the domain names
    MaxId       \* the largest id (2^63 - 1 in SQLite)

CONSTANTS
    Unused,     \* an id that was never given out
    Gone        \* an id whose row was removed for good

VARIABLE reg    \* reg[i]: the name id i holds, or Unused, or Gone

Ids == 1..MaxId

Init == reg = [i \in Ids |-> Unused]

\* The next id in order is taken for a name nobody holds.
Allocate(i, n) ==
    /\ reg[i] = Unused
    /\ \A j \in Ids : j < i => reg[j] # Unused
    /\ \A j \in Ids : reg[j] # n
    /\ reg' = [reg EXCEPT ![i] = n]

\* The id is given back: its name may be taken again, under another id.
Retire(i) ==
    /\ reg[i] \in Names
    /\ reg' = [reg EXCEPT ![i] = Gone]

Next == \E i \in Ids : Retire(i) \/ \E n \in Names : Allocate(i, n)

Spec == Init /\ [][Next]_reg

=============================================================================
