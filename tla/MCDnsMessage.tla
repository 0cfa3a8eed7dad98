---------------------------- MODULE MCDnsMessage ----------------------------
(* Instances of DnsPrototype, and of the DnsMessage in it, small enough for *)
(* TLC.                                                                     *)
EXTENDS DnsPrototype

\* 'a', 'b' and '.'; 33 is a byte that could also be a label length.
Characters == {33, 97, Dot}

\* Strings of up to five characters without empty labels; the last one may
\* end in a dot.
ShortHosts ==
  {s \in UNION {[1 .. n -> Characters] : n \in 1 .. 5} :
     /\ s[1] # Dot
     /\ \A i \in 1 .. Len(s) - 1 : s[i] # Dot \/ s[i + 1] # Dot}

\* The longest host name that send_req's array has room for where it has 48
\* bytes.
LongHost == [i \in 1 .. 29 |-> IF i = 15 THEN Dot ELSE 97]

HostNames == ShortHosts \cup {LongHost}

\* A canonical name of its own, and one that shares a suffix with hosts.
Canonical == {<<<<98>>, <<97>>>>, <<<<98, 98>>>>}

\* The servers of dns.c:393-394.
OpenDns == <<"208.67.222.222", "208.67.220.220">>
=============================================================================
