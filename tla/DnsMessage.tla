----------------------------- MODULE DnsMessage -----------------------------
(***************************************************************************)
(* The wire format side of lib/asyncdns.cpp: send_req writes a query into  *)
(* an array on the stack, a name server reads it as RFC 1035 says and      *)
(* answers, parse_response takes the reply apart.  DNSResolver treats both *)
(* as whole messages; here they are bytes, because what can go wrong is    *)
(* which byte is written or read.                                          *)
(*                                                                         *)
(* Names as the program holds them are strings: sequences of characters.   *)
(* Names as the protocol has them are sequences of labels.                 *)
(***************************************************************************)
EXTENDS Integers, Sequences, SequencesExt

CONSTANTS
  Hosts,    \* host names given to resolve()
  Junk,     \* what an uninitialised byte of send_req's array may hold
  Aliases,  \* names a server may know besides the host's, as labels
  Room,     \* size of the array on send_req's stack, 128 in the source
  Pid       \* what getpid() returns

Dot == 46
Zero == 0
QTYPE_A == 1
QTYPE_NS == 2
QTYPE_CNAME == 5
OtherType == 28   \* stands for the types whose rdata is not a name
HeaderLen == 12   \* sizeof(DNS_HEADER)
Pointer == 192    \* a byte from here on starts a compression pointer
MaxLabel == 63    \* the longest label; no name has the lengths in between
Address == <<10, 0, 192, 1>>   \* the address every server gives
OtherData == <<1, 97, 0, 97>>  \* rdata that begins like a name and goes on

Bytes == 0 .. 255

ASSUME DnsMessageAssumption ==
  /\ Hosts \subseteq Seq((Bytes \ {Zero}) \cap (0 .. Pointer - 1))
  /\ Junk \subseteq Bytes
  /\ Room \in Nat
  /\ Pid \in Nat

VARIABLES
  host,     \* the name to look up
  query,    \* bytes of the query after the header
  sent,     \* the sections of the reply, as the server means them
  reply,    \* bytes of the reply, its counts, and where the answers end
  result,   \* what the program reads, and where its reader stops
  phase

vars == <<host, query, sent, reply, result, phase>>

-----------------------------------------------------------------------------
(* Building the query. *)

\* One turn of the loop of change_to_dns_name_format.  dns is where the next
\* character goes, ptr where the length of the current label will go.
\* Mutant of PutCharacter: label_len is not reset at a dot.
PutWithoutReset(st, c) ==
  IF c = Dot
  THEN [st EXCEPT !.buf[st.ptr] = st.label_len, !.ptr = st.dns, !.dns = @ + 1]
  ELSE [st EXCEPT !.buf[st.dns] = c, !.label_len = (@ + 1) % 256, !.dns = @ + 1]

PutCharacter(st, c) ==
  IF c = Dot
  THEN [st EXCEPT !.buf[st.ptr] = st.label_len, !.label_len = 0,
                  !.ptr = st.dns, !.dns = @ + 1]
  ELSE [st EXCEPT !.buf[st.dns] = c, !.label_len = (@ + 1) % 256, !.dns = @ + 1]

\* Mutant of ChangeToDnsNameFormat: the terminator is two bytes late.
TerminateLater(buf, name) ==
  LET end == FoldLeft(PutCharacter,
                      [buf |-> buf, dns |-> 2, ptr |-> 1, label_len |-> 0], name)
  IN [end.buf EXCEPT ![end.ptr] = end.label_len, ![end.dns + 2] = Zero]

\* "*++dns = 0": one byte is left out between the name and its terminator.
ChangeToDnsNameFormat(buf, name) ==
  LET end == FoldLeft(PutCharacter,
                      [buf |-> buf, dns |-> 2, ptr |-> 1, label_len |-> 0], name)
  IN [end.buf EXCEPT ![end.ptr] = end.label_len, ![end.dns + 1] = Zero]

StrLen(b) == SelectInSeq(b, LAMBDA x : x = Zero) - 1

Short(n) == <<n \div 256, n % 256>>

\* The header of a query: the process id, cut to two bytes, recursion desired,
\* one question and no records.
QueryHeader == Short(Pid % 65536) \o <<1, 0>> \o Short(1) \o Short(0) \o Short(0) \o Short(0)

SendReq(junk) ==
  /\ phase = "start"
  /\ LET stack == [i \in 1 .. Room - HeaderLen |-> junk]
         qname == ChangeToDnsNameFormat(stack, host)
     IN query' = SubSeq(qname, 1, StrLen(qname) + 1) \o Short(QTYPE_A) \o Short(1)
  /\ phase' = "sent"
  /\ UNCHANGED <<host, sent, reply, result>>

-----------------------------------------------------------------------------
(* The name server, by RFC 1035. *)

\* No name at all.
NotUnderstood == [labels |-> <<>>, next |-> 0, pointer |-> 0]

IsLabel(b, q) == q <= Len(b) /\ b[q] \in 1 .. MaxLabel /\ q + b[q] <= Len(b)

\* What is where no label is: a zero or a pointer, either of which ends the
\* name, or neither.
EndOfName(b, q) ==
  IF q <= Len(b) /\ b[q] = 0 THEN [labels |-> <<>>, next |-> q + 1, pointer |-> 0]
  ELSE IF q < Len(b) /\ b[q] >= Pointer
  THEN [labels |-> <<>>, next |-> q + 2,
        pointer |-> (b[q] - Pointer) * 256 + b[q + 1] + 1]
  ELSE NotUnderstood

\* The labels of a name from p on, where it ends there (0 if nowhere), and the
\* place that a pointer at its end leads to, 0 if it ends in a zero.
Labels(b, p) ==
  LET from[q \in Nat \ {0}] ==
        IF IsLabel(b, q)
        THEN LET rest == from[q + b[q] + 1]
             IN [labels |-> <<SubSeq(b, q + 1, q + b[q])>> \o rest.labels,
                 next |-> rest.next, pointer |-> rest.pointer]
        ELSE EndOfName(b, q)
  IN from[p]

\* What a server takes a question for.  A pointer leads in front of the name
\* that it ends: from the first name of a message it leads into the header,
\* whose bytes are then read as labels, and from there no further.
Understanding(q) ==
  LET own  == Labels(q, 1)
      rest == Labels(QueryHeader \o q, own.pointer)
  IN IF own.pointer = 0 THEN own
     ELSE IF own.pointer <= HeaderLen /\ rest.next # 0 /\ rest.pointer = 0
     THEN [own EXCEPT !.labels = @ \o rest.labels]
     ELSE NotUnderstood

Understood == Understanding(query)

WellFormed(u) == u.next = Len(query) - 3

\* The name in the query ends in a zero, not in a pointer.
WrittenOut == Labels(query, 1).pointer = 0

\* The labels of a string; a final dot ends the last label.
HostLabels(s) ==
  LET end(i) == Min({k \in i .. Len(s) + 1 : k = Len(s) + 1 \/ s[k] = Dot})
      from[i \in Nat \ {0}] ==
        IF i > Len(s) THEN <<>> ELSE <<SubSeq(s, i, end(i) - 1)>> \o from[end(i) + 1]
  IN from[1]

\* And back: the string a program shows.
Dotted(labels) ==
  FoldLeft(LAMBDA s, l : IF s = <<>> THEN l ELSE s \o <<Dot>> \o l, <<>>, labels)

WireLabels(labels) == FoldLeft(LAMBDA s, l : s \o <<Len(l)>> \o l, <<>>, labels)

\* Where a name is written in the message, offsets counted from 0.
Place(labels, at) == [labels |-> labels, at |-> at]

\* The name in the question, and each of its suffixes.
InQuestion ==
  LET labels == Understood.labels
  IN {Place(SubSeq(labels, j + 1, Len(labels)),
            HeaderLen + Len(WireLabels(SubSeq(labels, 1, j)))) :
        j \in 0 .. Len(labels) - 1}

\* The ways to write a name: in full, or its first k labels and a pointer to
\* a place where the rest is written.
Encodings(labels, places) ==
  {WireLabels(labels) \o <<0>>} \cup
  UNION {{WireLabels(SubSeq(labels, 1, k)) \o Short(Pointer * 256 + p.at) :
            p \in {q \in places : q.labels = SubSeq(labels, k + 1, Len(labels))}} :
           k \in 0 .. Len(labels) - 1}

\* type, class, ttl and rdata.
RData(type, data) == Short(type) \o Short(1) \o <<0, 0, 1, 44>> \o Short(Len(data)) \o data

\* A record as it is meant and as it is written: e is the way its owner's
\* name is written, f the way the name in its rdata is.
Written(name, e, type, rdata, data) ==
  [record |-> [name |-> Dotted(name), type |-> type, rdata |-> rdata],
   bytes  |-> e \o RData(type, data)]

AddressOf(name, e) == Written(name, e, QTYPE_A, Address, Address)
NameOf(name, e, type, to, f) == Written(name, e, type, Dotted(to), f)
Other(name, e) == Written(name, e, OtherType, OtherData, OtherData)

Meant(section) == [i \in DOMAIN section |-> section[i].record]
Wire(section) == FlattenSeq([i \in DOMAIN section |-> section[i].bytes])

\* Answer sections: addresses, an alias with the address of its canonical
\* name, and a last record of another type or none at all.
Answers ==
  LET name == Understood.labels
      E    == Encodings(name, InQuestion)
  IN {<<>>}
     \cup {<<AddressOf(name, e)>> : e \in E}
     \cup {<<AddressOf(name, e), AddressOf(name, f)>> : e, f \in E}
     \cup {<<AddressOf(name, e), Other(name, e)>> : e \in E}
     \cup UNION {{<<NameOf(name, e, QTYPE_CNAME, to, f), AddressOf(to, g)>> :
                    e \in E, f, g \in Encodings(to, InQuestion)} : to \in Aliases}

\* A name server and its addresses, whose owner may point into the record
\* before, which begins at a place.
Delegations(name, e, ns, at) ==
  {[auth  |-> <<NameOf(name, e, QTYPE_NS, ns, f)>>,
    addit |-> SubSeq(<<AddressOf(ns, g), Other(ns, g)>>, 1, n)] :
     f \in Encodings(ns, InQuestion),
     g \in Encodings(ns, InQuestion \cup {Place(ns, at + Len(e) + 10)}), n \in 1 .. 2}

\* The sections behind the answers, which begin at a place: a delegation, or
\* why there is no answer (a record that is not a name).
Extras(at) ==
  LET name == Understood.labels
      E    == Encodings(name, InQuestion)
  IN {[auth |-> <<>>, addit |-> <<>>]}
     \cup {[auth |-> <<Other(name, e)>>, addit |-> <<>>] : e \in E}
     \cup UNION {Delegations(name, e, ns, at) : e \in E, ns \in Aliases}

\* A reply: the question again, the answers and what comes with them.  More
\* than one answer comes alone here, nothing comes after a record of another
\* type, and no answer is made to a name that goes on in the header.
Serve ==
  /\ phase = "sent"
  /\ WellFormed(Understood) /\ WrittenOut
  /\ \E answers \in Answers :
       LET start == HeaderLen + Len(query)
           end   == start + Len(Wire(answers))
       IN \E extra \in IF Len(answers) > 1 THEN {[auth |-> <<>>, addit |-> <<>>]}
                       ELSE Extras(end) :
            /\ sent' = [answers |-> Meant(answers), auth |-> Meant(extra.auth),
                        addit |-> Meant(extra.addit)]
            /\ reply' = [bytes |-> [i \in 1 .. HeaderLen |-> 0] \o query
                                  \o Wire(answers) \o Wire(extra.auth) \o Wire(extra.addit),
                         ans_count |-> Len(answers), auth_count |-> Len(extra.auth),
                         add_count |-> Len(extra.addit), answers_end |-> end]
  /\ phase' = "answered"
  /\ UNCHANGED <<host, query, result>>

\* The server drops what it does not understand; what it says to a query whose
\* name goes on in the header is left out.
Discard ==
  /\ phase = "sent"
  /\ ~(WellFormed(Understood) /\ WrittenOut)
  /\ phase' = "discarded"
  /\ UNCHANGED <<host, query, sent, reply, result>>

-----------------------------------------------------------------------------
(* Taking the reply apart. *)

\* A turn of the first loop of read_name: every byte is looked at, and one of
\* 192 or more is taken for a pointer.  steps counts up to the first pointer.
Reading(at, name, steps, jumped) ==
  [at |-> at, name |-> name, steps |-> steps, jumped |-> jumped]

ReadByte(b, st) ==
  LET at == st.at
  IN IF b[at] = 0 THEN st
     ELSE IF b[at] >= Pointer
     THEN Reading(b[at] * 256 + b[at + 1] - Pointer * 256 + 1, st.name, st.steps, 1)
     ELSE Reading(at + 1, Append(st.name, b[at]),
                  IF st.jumped = 1 THEN st.steps ELSE st.steps + 1, st.jumped)

\* All its turns, up to a zero: a name that ends has no place in it twice, and
\* so not more of them than the message.
Raw(b, reader) ==
  LET turn[k \in 0 .. Len(b)] ==
        IF k = 0 THEN Reading(reader, <<>>, 0, 0) ELSE ReadByte(b, turn[k - 1])
      last == CHOOSE k \in 0 .. Len(b) : b[turn[k].at] = 0
  IN turn[last]

\* Mutant of MoveLabel: a label is moved without its last character.
MoveLabelShort(st) ==
  LET p == st.name[st.i]
  IN IF st.i > Len(st.name) THEN st
     ELSE [i    |-> st.i + p + 1,
           name |-> [k \in DOMAIN st.name |->
                       IF k \in st.i .. st.i + p - 2 THEN st.name[k + 1]
                       ELSE IF k = st.i + p THEN Dot ELSE st.name[k]]]

\* A turn of its second loop: a length byte gives way to the label behind it,
\* which moves one place to the front and gets a dot.
MoveLabel(st) ==
  LET p == st.name[st.i]
  IN IF st.i > Len(st.name) THEN st
     ELSE [i    |-> st.i + p + 1,
           name |-> [k \in DOMAIN st.name |->
                       IF k \in st.i .. st.i + p - 1 THEN st.name[k + 1]
                       ELSE IF k = st.i + p THEN Dot ELSE st.name[k]]]

\* All its turns, up to the end of the name; the last dot is cut off.
ToDotted(raw) ==
  LET turn[k \in 0 .. Len(raw)] ==
        IF k = 0 THEN [i |-> 1, name |-> raw] ELSE MoveLabel(turn[k - 1])
      last == CHOOSE k \in 0 .. Len(raw) : turn[k].i > Len(turn[k].name)
  IN SubSeq(turn[last].name, 1, turn[last].i - 2)

\* What read_name returns for a name: the dotted string, and how much of the
\* message the name takes.
Returned(raw) == [name |-> ToDotted(raw.name), count |-> 1 + raw.steps + raw.jumped]

ReadName(b, reader) == Returned(Raw(b, reader))

ToInt(s) == s[1] * 256 + s[2]

\* One turn of the loop of parse_response.
ParseRecord(b, st) ==
  LET owner == ReadName(b, st.reader)
      res   == st.reader + owner.count
      type  == ToInt(SubSeq(b, res, res + 1))
      data  == res + 10                         \* sizeof(R_DATA), packed
      size  == ToInt(SubSeq(b, res + 8, res + 9))
      alias == ReadName(b, data)
  IN IF type = QTYPE_A
     THEN [reader  |-> data + size,
           records |-> Append(st.records, [name |-> owner.name, type |-> type,
                                           rdata |-> SubSeq(b, data, data + size - 1)])]
     ELSE [reader  |-> data + alias.count,
           records |-> Append(st.records, [name |-> owner.name, type |-> type,
                                           rdata |-> alias.name])]

\* Where a loop over the records of a section begins.
AtReader(reader) == [reader |-> reader, records |-> <<>>]

\* Behind the question, which is skipped as a C string and four bytes.
BehindQuestion(b) == HeaderLen + StrLen(SubSeq(b, HeaderLen + 1, Len(b))) + 1 + 4 + 1

\* parse_response looks at the answers only.
ParseResponse(r) ==
  LET turn[k \in 0 .. r.ans_count] ==
        IF k = 0 THEN AtReader(BehindQuestion(r.bytes)) ELSE ParseRecord(r.bytes, turn[k - 1])
      answers == turn[r.ans_count]
  IN [answers |-> answers.records, auth |-> <<>>, addit |-> <<>>,
      reader |-> answers.reader]

HandleData ==
  /\ phase = "answered"
  /\ result' = ParseResponse(reply)
  /\ phase' = "parsed"
  /\ UNCHANGED <<host, query, sent, reply>>

-----------------------------------------------------------------------------

\* Before a program has done anything.
NothingSent ==
  /\ query = <<>>
  /\ sent = [answers |-> <<>>, auth |-> <<>>, addit |-> <<>>]
  /\ reply = [bytes |-> <<>>, ans_count |-> 0, auth_count |-> 0, add_count |-> 0,
              answers_end |-> 0]
  /\ result = [answers |-> <<>>, auth |-> <<>>, addit |-> <<>>, reader |-> 0]

Init ==
  /\ host \in Hosts
  /\ NothingSent
  /\ phase = "start"

Next ==
  \/ \E junk \in Junk : SendReq(junk)
  \/ Serve
  \/ Discard
  \/ HandleData

Spec == Init /\ [][Next]_vars

\* A server takes the query for one of exactly the host name resolve() was
\* given: "www.google.com to 3www6google3com", asyncdns.cpp:166.
QueryNamesHost ==
  phase = "sent" =>
    WellFormed(Understood) /\ Understood.labels = HostLabels(host)

\* The byte after the name, whatever it holds, spoils a lookup or does no harm,
\* with one exception: 192 makes a pointer of it and of the terminator that
\* was written one byte late (asyncdns.cpp:187).  It leads to the header, and
\* the query is then one for the host's labels with those behind them that the
\* process id and the flags happen to be read as.
OnlyAPointerMisdirects ==
  phase = "sent" /\ WellFormed(Understood) /\ Understood.labels # HostLabels(host) =>
    /\ query[Len(host) + 2] = Pointer
    /\ Understood.labels = HostLabels(host) \o Labels(QueryHeader \o query, 1).labels

\* The byte after the name is the only thing wrong with a query: where it
\* happens to be zero, the server takes the query for one of the host.
ZeroByteSuffices ==
  phase = "sent" /\ query[Len(host) + 2] = Zero =>
    WellFormed(Understood) /\ Understood.labels = HostLabels(host)

\* A query fits into send_req's array, its misplaced terminator included, for
\* every host name of up to 19 characters less than the array has bytes.
QueryFits ==
  phase = "sent" /\ Len(host) <= Room - HeaderLen - 7 =>
    HeaderLen + Len(query) <= Room

\* A record whose rdata is a name or an address.
Known(record) == record.type # OtherType

\* A record that was read is the one that was meant, but for rdata that is
\* neither a name nor an address.
AsMeant(read, meant) ==
  /\ read.name = meant.name /\ read.type = meant.type
  /\ Known(meant) => read.rdata = meant.rdata

\* parse_response gives the records the server sent, one for one, and its
\* reader stops at the end of the answers, however the names are compressed
\* and whatever comes behind.  Of a record of another type, whose length is
\* ignored, only the rdata is misread.
RecordsAsSent ==
  phase = "parsed" =>
    /\ Len(result.answers) = Len(sent.answers)
    /\ \A i \in DOMAIN sent.answers : AsMeant(result.answers[i], sent.answers[i])
    /\ (\A i \in DOMAIN sent.answers : Known(sent.answers[i])) =>
         result.reader = reply.answers_end + 1
=============================================================================
