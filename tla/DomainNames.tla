----------------------------- MODULE DomainNames -----------------------------
(***************************************************************************)
(* What the program reads off a domain name: its root, what it lies below, *)
(* which wildcard covers it, what it conflicts with.                       *)
(*                                                                         *)
(* A name is the sequence of its labels.  The code mostly looks for a      *)
(* suffix that begins with a dot, which is a suffix of that sequence;      *)
(* where it looks for one without the dot, the first label of the suffix   *)
(* may be the end of a longer one, and Glued says of which.                *)
(***************************************************************************)
EXTENDS Naturals, Sequences

CONSTANT Glued          \* <<l, m>>: the label l ends in the letters of m, l # m

\* A name has two labels at least.
NameSet == {n \in Seq(STRING) : Len(n) >= 2}

Star == "*"
IsWildcard(n) == Len(n) >= 2 /\ n[1] = Star

\* The last k labels of n, and n itself when it has no more.
Last(n, k) == IF Len(n) > k THEN SubSeq(n, Len(n) - k + 1, Len(n)) ELSE n

\* strings.HasSuffix(n, "." + m)
Below(n, m) == Len(n) > Len(m) /\ Last(n, Len(m)) = m

\* strings.HasSuffix(n, m)
EndsIn(n, m) ==
    /\ Len(n) >= Len(m)
    /\ \/ Last(n, Len(m)) = m
       \/ /\ Tail(Last(n, Len(m))) = Tail(m)
          /\ <<Last(n, Len(m))[1], m[1]>> \in Glued

\* n ends in m and what is left of it, without a last dot, has no dot.
OneLevel(n, m) == EndsIn(n, m) /\ n # m /\ Len(n) <= Len(m) + 1 /\
                  (Len(n) > Len(m) => Below(n, m))

\* SubdomainValidator: the root is the last two labels, whatever they are.
RootDomain(n) == Last(n, 2)
IsSubdomain(n) == Len(n) > 2

-----------------------------------------------------------------------------
(* Wildcards                                                               *)

\* Mutated form of MatchWildcard: the labels are not counted.
MatchWildcard_AnyDepth(p, d) ==
    IF IsWildcard(p) THEN EndsIn(d, Tail(p)) /\ d # Tail(p) ELSE p = d

\* The validator of certificates: a suffix, and one label more.
MatchWildcard(p, d) ==
    IF IsWildcard(p) THEN EndsIn(d, Tail(p)) /\ Len(d) = Len(p) ELSE p = d

\* A certificate is a set of names, the common name among them.
SuitableFor(cert, d) == \E n \in cert : n = d \/ MatchWildcard(n, d)

\* What a wildcard means: any one label in the place of the star.
Covers(p, d) == IsWildcard(p) /\ Len(d) = Len(p) /\ Tail(d) = Tail(p)

-----------------------------------------------------------------------------
(* Conflicts                                                               *)

\* Mutated form of IsChildOf: the suffix without its dot.
IsChildOf_NoDot(n, m) == n # m /\ EndsIn(n, m)

IsChildOf(n, m) == Below(n, m)

\* The wildcard w claims the name n.
Claims(w, n) == IsWildcard(w) /\ (Tail(w) = RootDomain(n) \/ Below(n, Tail(w)))

\* CheckSubdomainConflict, for one existing name.
ConflictsWith(n, existing) ==
    IF n = existing THEN {"exact"}
    ELSE (IF IsChildOf(n, existing) THEN {"parent"} ELSE {})
         \cup (IF IsChildOf(existing, n) THEN {"child"} ELSE {})
         \cup (IF Claims(existing, n) \/ Claims(n, existing) THEN {"wildcard"} ELSE {})

\* The part of the tree of names that a name or wildcard stands for.
Territory(n) == IF IsWildcard(n) THEN Tail(n) ELSE n

\* What a conflict is: two names that are the same, one of them under the
\* other, or under what a wildcard stands for.
Overlap(n, m) ==
    \/ n = m \/ Below(n, m) \/ Below(m, n)
    \/ IsWildcard(m) /\ Below(n, Territory(m))
    \/ IsWildcard(n) /\ Below(m, Territory(n))

=============================================================================
