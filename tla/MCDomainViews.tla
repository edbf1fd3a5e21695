---------------------------- MODULE MCDomainViews ----------------------------
(***************************************************************************)
(* Instances of DomainViews for TLC: a root and what is two levels below   *)
(* it, wildcards over both, and a root whose name ends in that of another. *)
(* What is uploaded is of every kind, whole and broken, in time and not,   *)
(* with its own key, another of the same kind and one of another kind.     *)
(***************************************************************************)
EXTENDS DomainViews

RootName == <<"r", "t">>
MCNames == {
    RootName, <<"a">> \o RootName, <<"b", "a">> \o RootName, <<"d", "a">> \o RootName,
    <<"c", "b", "a">> \o RootName, <<"*">> \o RootName, <<"*", "a">> \o RootName,
    <<"nr", "t">>, <<"a", "nr", "t">>, <<"*", "a-r", "t">>}
MCGlued == {<<"nr", "r">>, <<"a-r", "r">>}
MCHyphenated == [l \in {"a-r"} |-> <<"a", "r">>]

MCKeyPairs == {[kind |-> "RSA", id |-> i, small |-> i = 3] : i \in 1 .. 3}
              \cup {[kind |-> "ECDSA", id |-> i, small |-> FALSE] : i \in 1 .. 2}
              \cup {[kind |-> "Ed25519", id |-> 1, small |-> FALSE]}
MCCertPEMs == [block : {"CERTIFICATE", "other"}, whole : BOOLEAN, from : -1 .. 1, until : -1 .. 1,
               names : {{}, {RootName}, {<<"*">> \o RootName},
                        {<<"*", "a">> \o RootName, <<"a", "nr", "t">>}},
               pair : MCKeyPairs]
MCKeyPEMs == {k \in [block : {"RSA PRIVATE KEY", "EC PRIVATE KEY", "PRIVATE KEY", "other"},
                     encoding : {"PKCS1", "SEC1", "PKCS8", "garbled"}, pair : MCKeyPairs] :
                /\ k.encoding = "PKCS1" => k.pair.kind = "RSA"
                /\ k.encoding = "SEC1" => k.pair.kind = "ECDSA"}
MCHours == {-49, -48, -25, -24, -23, -1, 0, 1, 24, 695, 696, 719, 720, 721, 744}

=============================================================================
