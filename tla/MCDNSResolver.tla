---------------------------- MODULE MCDNSResolver ----------------------------
(* Instances of DNSResolver small enough for TLC. *)
EXTENDS DNSResolver, TLC

CONSTANTS h1, h2, a1, a2, b1

A(h, a) == [name |-> h, type |-> "A", ip |-> a]
CName(h) == [name |-> h, type |-> "CNAME", ip |-> NULL]

\* h1 has two addresses and a server may also say it does not exist; h2 is
\* an alias of h1 on one server and a host of its own on the other.
AliasAnswers ==
  h1 :> {<<A(h1, a1)>>, <<A(h1, a2), A(h1, a1)>>, <<>>} @@
  h2 :> {<<A(h2, b1)>>, <<CName(h2), A(h1, a1)>>}

\* Every server knows the one address of every host.
PlainAnswers == [h \in Hosts |-> {<<A(h, a1)>>}]

\* What a server says of an alias: the CNAME record and the A record of the
\* canonical name.
OnlyAliasAnswers ==
  h1 :> {<<A(h1, a1)>>} @@ h2 :> {<<CName(h2), A(h1, a1)>>}

AliasItems == UNION {AliasAnswers[h] : h \in Hosts}
OnlyAliasItems == UNION {OnlyAliasAnswers[h] : h \in Hosts}
PlainItems == UNION {PlainAnswers[h] : h \in Hosts}

Symmetry == Permutations(Fds) \cup Permutations(Resolvers) \cup Permutations(Calls)
CallSymmetry == Permutations(Calls)
=============================================================================
