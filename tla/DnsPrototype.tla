---------------------------- MODULE DnsPrototype ----------------------------
(***************************************************************************)
(* dns.c, the stand-alone program that lib/asyncdns.cpp was written from:  *)
(* it asks the terminal for a host name, sends one query, waits for the    *)
(* reply and prints its three sections.  The name servers are those of     *)
(* DnsMessage; a behaviour is a run of either program.                     *)
(***************************************************************************)
EXTENDS DnsMessage

CONSTANTS
  FixedServers  \* the addresses that get_dns_servers copies, in order

VARIABLES
  program,      \* which of the two is running
  dns_servers,  \* the array of dns.c, as far as it is filled
  printed       \* what ngethostbyname prints of every section

prototypeVars == <<program, dns_servers, printed>>

Prototype == program = "dns.c"

-----------------------------------------------------------------------------
(* Names. *)

\* One character of the host: at a dot, the label since the dot before
\* (host[lock .. i-1]) is written behind its length.
ConvertCharacter(st, c) ==
  IF c = Dot THEN [dns |-> st.dns \o <<Len(st.label)>> \o st.label, label |-> <<>>]
  ELSE [st EXCEPT !.label = Append(@, c)]

\* Mutant of ChangetoDnsNameFormat: no dot is appended to the host.
ConvertWithoutDot(name) ==
  FoldLeft(ConvertCharacter, [dns |-> <<>>, label |-> <<>>], name).dns \o <<Zero>>

\* strcat appends a dot to the host, which nothing reads again.
ChangetoDnsNameFormat(name) ==
  FoldLeft(ConvertCharacter, [dns |-> <<>>, label |-> <<>>], Append(name, Dot)).dns
    \o <<Zero>>

\* Mutant of ReadPrototypeName: the name is cut one place before its last dot.
ReadNameShort(b, reader) ==
  [ReadName(b, reader) EXCEPT !.name = SubSeq(@, 1, Len(@) - 1)]

\* ReadName is the read_name of asyncdns.cpp, statement by statement.
ReadPrototypeName(b, reader) == ReadName(b, reader)

-----------------------------------------------------------------------------
(* The program. *)

\* What resolv.conf says is read and not used.  Where it cannot be opened the
\* program reads from a null pointer and is lost.
GetDnsServers ==
  /\ Prototype /\ phase = "start" /\ dns_servers = <<>>
  /\ \/ dns_servers' = FixedServers /\ UNCHANGED phase
     \/ phase' = "undefined" /\ UNCHANGED dns_servers
  /\ UNCHANGED <<host, query, sent, reply, result, program, printed>>

\* ngethostbyname up to sendto, whose failure is only reported: the query goes
\* to the first server or nowhere.
SendQuery ==
  /\ Prototype /\ phase = "start" /\ dns_servers # <<>>
  /\ LET qname == ChangetoDnsNameFormat(host)
     IN query' = SubSeq(qname, 1, StrLen(qname) + 1) \o Short(QTYPE_A) \o Short(1)
  /\ phase' \in {"sent", "unsent"}
  /\ UNCHANGED <<host, sent, reply, result, prototypeVars>>

\* A record of the answers or of the additional section: an address is copied,
\* anything else is read as a name.
ReadRecord(b, st) ==
  LET owner == ReadPrototypeName(b, st.reader)
      res   == st.reader + owner.count
      type  == ToInt(SubSeq(b, res, res + 1))
      data  == res + 10
      size  == ToInt(SubSeq(b, res + 8, res + 9))
      name  == ReadPrototypeName(b, data)
      is_ip == type = QTYPE_A
  IN [reader  |-> data + IF is_ip THEN size ELSE name.count,
      records |-> Append(st.records,
                    [name |-> owner.name, type |-> type,
                     rdata |-> IF is_ip THEN SubSeq(b, data, data + size - 1) ELSE name.name])]

\* A record of the authority section, whose rdata is always read as a name.
ReadAuthority(b, st) ==
  LET owner == ReadPrototypeName(b, st.reader)
      res   == st.reader + owner.count
      name  == ReadPrototypeName(b, res + 10)
  IN [reader  |-> res + 10 + name.count,
      records |-> Append(st.records, [name |-> owner.name, rdata |-> name.name,
                                      type |-> ToInt(SubSeq(b, res, res + 1))])]

\* The loops of ngethostbyname: the first and the last are alike.
ReadRecords(b, reader, n) ==
  LET turn[k \in 0 .. n] ==
        IF k = 0 THEN AtReader(reader) ELSE ReadRecord(b, turn[k - 1])
  IN turn[n]

ReadAuthorities(b, reader, n) ==
  LET turn[k \in 0 .. n] ==
        IF k = 0 THEN AtReader(reader) ELSE ReadAuthority(b, turn[k - 1])
  IN turn[n]

\* One reader goes through all three.
ReadSections(r) ==
  LET answers == ReadRecords(r.bytes, BehindQuestion(r.bytes), r.ans_count)
      auth    == ReadAuthorities(r.bytes, answers.reader, r.auth_count)
      addit   == ReadRecords(r.bytes, auth.reader, r.add_count)
  IN [answers |-> answers.records, auth |-> auth.records, addit |-> addit.records,
      reader |-> addit.reader]

\* recvfrom waits for as long as it takes.
Receive ==
  /\ Prototype /\ phase = "answered"
  /\ result' = ReadSections(reply)
  /\ phase' = "read"
  /\ UNCHANGED <<host, query, sent, reply, prototypeVars>>

\* recvfrom fails, which is only reported: the buffer still holds the query,
\* whose counts say that there are no records.
ReceiveFails ==
  /\ Prototype /\ phase \in {"sent", "unsent", "answered", "discarded"}
  /\ result' = ReadSections([bytes |-> [i \in 1 .. HeaderLen |-> 0] \o query,
                             ans_count |-> 0, auth_count |-> 0, add_count |-> 0])
  /\ phase' = "failed"
  /\ UNCHANGED <<host, query, sent, reply, prototypeVars>>

\* One line of a section: the owner's name, and the rdata if the record is of
\* one of the types the section shows.
Line(record, types) ==
  <<record.name, IF record.type \in types THEN record.rdata ELSE <<>> >>

Lines(section, types) == [i \in DOMAIN section |-> Line(section[i], types)]

Printed(sections) ==
  [answers |-> Lines(sections.answers, {QTYPE_A, QTYPE_CNAME}),
   auth    |-> Lines(sections.auth, {QTYPE_NS}),
   addit   |-> Lines(sections.addit, {QTYPE_A})]

PrintSections ==
  /\ Prototype /\ phase \in {"read", "failed"}
  /\ printed' = Printed(result)
  /\ phase' = IF phase = "read" THEN "printed" ELSE "nothing printed"
  /\ UNCHANGED <<host, query, sent, reply, result, program, dns_servers>>

-----------------------------------------------------------------------------

Nothing == [answers |-> <<>>, auth |-> <<>>, addit |-> <<>>]

LookupInit ==
  /\ Init
  /\ program \in {"test_asyncdns", "dns.c"}
  /\ dns_servers = <<>>
  /\ printed = Nothing

LookupNext ==
  \/ GetDnsServers \/ SendQuery \/ Receive \/ ReceiveFails \/ PrintSections
  \/ (Serve \/ Discard) /\ UNCHANGED prototypeVars
  \/ /\ ~Prototype
     /\ HandleData \/ \E junk \in Junk : SendReq(junk)
     /\ UNCHANGED prototypeVars

LookupSpec == LookupInit /\ [][LookupNext]_<<vars, prototypeVars>>

\* dns.c asks for exactly the name it was given, final dot or not: "This will
\* convert www.google.com to 3www6google3com", dns.c:398.
PrototypeNamesHost ==
  Prototype /\ phase \in {"sent", "unsent"} =>
    WellFormed(Understood) /\ Understood.labels = HostLabels(host)

\* What dns.c prints is what the server said in each section: one reader runs
\* through sections that are read in two ways, and the rdata it misreads, of a
\* record of another type, is not shown.  Without a reply it prints no record.
PrintsTheReply ==
  /\ phase = "printed" => printed = Printed(sent)
  /\ phase = "nothing printed" => printed = Nothing
=============================================================================
