----------------------------- MODULE ReplyProofs -----------------------------
(***************************************************************************)
(* What a name server says in its reply is what the two programs read: in  *)
(* parse_response (asyncdns.cpp) the answers, in ngethostbyname (dns.c)    *)
(* every section.  A query whose name ends where it should, and in a zero, *)
(* holds the labels a server reads and nothing else; every name of the     *)
(* reply ends, in the reply or behind a pointer, in bytes that read_name   *)
(* turns back into the string; a turn of a loop then gives the record that *)
(* was meant and goes to the next.                                         *)
(***************************************************************************)
EXTENDS NameProofs

-----------------------------------------------------------------------------
(* The query, as the server finds it.                                        *)

\* What Labels gives is what the message holds there: labels, none of them
\* empty, and a zero behind them.
LabelsThere(q, p, read) ==
  /\ read.labels \in Seq(Seq(Nat)) /\ NoEmpty(read.labels)
  /\ Stands(q, p, WireLabels(read.labels) \o <<0>>)
  /\ read.next = p + Len(WireLabels(read.labels)) + 1

\* A name that is over at once.
LEMMA NoLabels ==
  ASSUME NEW q \in Seq(Nat), NEW p \in Places, p <= Len(q), q[p] = 0
  PROVE  LabelsThere(q, p, [labels |-> <<>>, next |-> p + 1, pointer |-> 0])
<1> DEFINE none == <<>>
<1>1. none \in Seq(Seq(Nat)) /\ NoEmpty(none) /\ WireLabels(none) = <<>>
  BY WireLabelsEmpty DEF NoEmpty
<1>2. <<>> \o <<0>> = <<0>> /\ Len(<<>>) = 0 /\ <<0>> \in Seq(Nat) /\ Len(<<0>>) = 1 /\ <<0>>[1] = 0
  OBVIOUS
<1>3. Stands(q, p, <<0>>) /\ p \in Nat
  BY <1>2 DEF Stands, Places
<1> HIDE DEF none
<1>4. LabelsThere(q, p, [labels |-> none, next |-> p + 1, pointer |-> 0])
  BY <1>1, <1>2, <1>3 DEF LabelsThere
<1> QED
  BY <1>4 DEF none

\* Two sequences of anything, one behind the other.
Both(x, u, v) ==
  /\ Len(x) = Len(u) + Len(v)
  /\ \A i \in 1 .. Len(u) : x[i] = u[i]
  /\ \A i \in 1 .. Len(v) : x[Len(u) + i] = v[i]

\* They are found there.
LEMMA PartsOfBoth ==
  ASSUME NEW T, NEW u \in Seq(T), NEW v \in Seq(T)
  PROVE  u \o v \in Seq(T) /\ Both(u \o v, u, v)
BY DEF Both

\* A label that is not empty, in front of others.
LEMMA StillNoEmpty ==
  ASSUME NEW one \in Seq(Seq(Nat)), Len(one) = 1, one[1] # <<>>,
         NEW m \in Seq(Seq(Nat)), NoEmpty(m)
  PROVE  NoEmpty(one \o m)
<1> DEFINE T == Seq(Nat)
           n == Len(m)
           x == one \o m
<1>1. one \in Seq(T) /\ m \in Seq(T) /\ n \in Nat
  OBVIOUS
<1>2. \A k \in 1 .. n : m[k] # <<>>
  BY DEF NoEmpty
<1> HIDE DEF T
<1>3. x \in Seq(T) /\ Both(x, one, m)
  BY <1>1, PartsOfBoth
<1> HIDE DEF x
<1>4. /\ x \in Seq(T) /\ Len(x) = 1 + n /\ x[1] = one[1]
      /\ \A i \in 1 .. n : x[1 + i] = m[i]
  <2>1. 1 \in 1 .. Len(one)
    OBVIOUS
  <2> QED
    BY <1>1, <1>3, <2>1 DEF Both
<1> HIDE DEF x, n
<1>5. ASSUME NEW k \in 1 .. Len(x) PROVE x[k] # <<>>
  <2>1. CASE k = 1
    BY <1>4, <2>1
  <2>2. CASE k # 1
    <3> DEFINE j == k - 1
    <3>1. j \in 1 .. n /\ k = 1 + j
      BY <1>1, <1>4, <2>2
    <3> HIDE DEF j
    <3> QED
      BY <1>2, <1>4, <3>1
  <2> QED
    BY <2>1, <2>2
<1>6. NoEmpty(x)
  BY <1>5 DEF NoEmpty
<1> QED
  BY <1>6 DEF x

\* A label in front of a name.
LEMMA LabelInFront ==
  ASSUME NEW q \in Seq(Nat), NEW p \in Places, p <= Len(q), q[p] \in Nat, q[p] # 0,
         p + q[p] <= Len(q), NEW rest, LabelsThere(q, p + q[p] + 1, rest)
  PROVE  LabelsThere(q, p, [labels |-> <<SubSeq(q, p + 1, p + q[p])>> \o rest.labels,
                            next |-> rest.next, pointer |-> rest.pointer])
<1> DEFINE n == q[p]
           l == SubSeq(q, p + 1, p + n)
           u == <<Len(l)>> \o l
           m == rest.labels
           v == WireLabels(m)
           o == <<0>>
           ls == <<l>> \o m
<1>1. p \in Nat /\ p # 0 /\ n \in Nat /\ n # 0 /\ Len(q) \in Nat /\ p + n <= Len(q)
  BY DEF Places
<1>2. l \in Seq(Nat) /\ Len(l) = n /\ \A i \in 1 .. n : l[i] = q[p + i]
  BY <1>1, SMTT(40)
<1>3. /\ m \in Seq(Seq(Nat)) /\ NoEmpty(m) /\ Stands(q, p + n + 1, v \o o)
      /\ rest.next = p + n + 1 + Len(v) + 1
  BY DEF LabelsThere
<1> HIDE DEF n, l, m
<1>4. v \in Seq(Nat) /\ Len(v) \in Nat
  BY <1>3, TextTypes
<1> HIDE DEF v
<1>5. o \in Seq(Nat)
  OBVIOUS
<1> HIDE DEF o
<1>6. <<n>> \in Seq(Nat) /\ Len(<<n>>) = 1 /\ <<n>>[1] = n
  BY <1>1
<1>7. /\ u = <<n>> \o l /\ u \in Seq(Nat) /\ Len(u) = n + 1 /\ u[1] = n
      /\ \A i \in 1 .. n : u[1 + i] = l[i]
  <2>1. u = <<n>> \o l
    BY <1>2
  <2> DEFINE a == <<n>>
  <2>2. a \in Seq(Nat) /\ Len(a) = 1 /\ a[1] = n
    BY <1>6
  <2> HIDE DEF a
  <2> DEFINE x == a \o l
  <2>3. /\ x \in Seq(Nat) /\ Len(x) = Len(a) + Len(l)
        /\ \A i \in 1 .. Len(a) : x[i] = a[i]
        /\ \A i \in 1 .. Len(l) : x[Len(a) + i] = l[i]
    BY <1>2, <2>2, TwoParts
  <2> HIDE DEF x
  <2>4. Len(x) = n + 1 /\ \A i \in 1 .. n : x[1 + i] = l[i]
    BY <1>1, <1>2, <2>2, <2>3
  <2>5. x[1] = n
    <3>1. 1 \in 1 .. Len(a)
      BY <2>2
    <3> QED
      BY <2>2, <2>3, <3>1
  <2>6. u = x
    BY <2>1 DEF x, a
  <2> QED
    BY <2>1, <2>3, <2>4, <2>5, <2>6
<1> HIDE DEF u
<1>8. Stands(q, p, u)
  <2>1. ASSUME NEW i \in 1 .. n + 1 PROVE q[p + i - 1] = u[i]
    <3>1. CASE i = 1
      BY <1>1, <1>7, <3>1 DEF n
    <3>2. CASE i # 1
      <4> DEFINE j == i - 1
      <4>1. j \in 1 .. n /\ 1 + j = i /\ p + j = p + i - 1
        BY <1>1, <3>2
      <4> HIDE DEF j
      <4>2. u[1 + j] = l[j] /\ l[j] = q[p + j]
        BY <1>2, <1>7, <4>1
      <4> QED
        BY <4>1, <4>2
    <3> QED
      BY <3>1, <3>2
  <2>2. p + (n + 1) <= Len(q) + 1
    BY <1>1
  <2> QED
    BY <1>1, <1>7, <2>1, <2>2 DEF Stands, Places
<1> DEFINE w == Len(u)
<1>9. w = n + 1
  BY <1>7
<1> HIDE DEF w
<1>10. p + w = p + n + 1
  BY <1>1, <1>9
<1>11. Stands(q, p, u \o (v \o o))
  BY <1>3, <1>8, <1>10, StandsBehind DEF w
<1>12. Stands(q, p, (u \o v) \o o)
  BY <1>4, <1>5, <1>7, <1>11, Associates, ZenonT(60)
<1>13. /\ ls \in Seq(Seq(Nat)) /\ NoEmpty(ls) /\ WireLabels(ls) = u \o v
  <2> DEFINE one == <<l>>
  <2>1. one \in Seq(Seq(Nat)) /\ Len(one) = 1 /\ one[1] = l
    BY <1>2
  <2>2. WireLabels(one) = u
    BY <1>2, WireOne DEF u
  <2> HIDE DEF one
  <2>3. WireLabels(one \o m) = u \o v
    BY <1>3, <2>1, <2>2, WireParts DEF v
  <2>4. one \o m \in Seq(Seq(Nat))
    BY <1>3, <2>1, JoinedType
  <2>5. l # <<>>
    BY <1>1, <1>2
  <2>6. NoEmpty(one \o m)
    BY <1>3, <2>1, <2>5, StillNoEmpty
  <2> QED
    BY <2>3, <2>4, <2>6 DEF one
<1> HIDE DEF ls
<1>14. rest.next = p + Len(u \o v) + 1
  <2> DEFINE x == u \o v
             y == Len(v)
  <2>1. Len(x) = Len(u) + Len(v)
    BY <1>4, <1>7, TwoParts
  <2>2. Len(x) = w + y /\ y \in Nat /\ rest.next = p + n + 1 + y + 1
    BY <1>3, <1>4, <2>1 DEF w
  <2> HIDE DEF x, y
  <2>3. rest.next = p + Len(x) + 1
    BY <1>1, <1>9, <2>2
  <2> QED
    BY <2>3 DEF x
<1>15. LabelsThere(q, p, [labels |-> ls, next |-> rest.next, pointer |-> rest.pointer])
  BY <1>12, <1>13, <1>14 DEF LabelsThere, o
<1> QED
  BY <1>15 DEF ls, m, l, n

\* What Labels finds at a place where no label is, if it ends a name without a
\* pointer.
LEMMA EndsWithZero ==
  ASSUME NEW q \in Seq(Nat), NEW p \in Places, ~IsLabel(q, p),
         Labels(q, p).next # 0, Labels(q, p).pointer = 0
  PROVE  /\ p <= Len(q) /\ q[p] = 0
         /\ Labels(q, p) = [labels |-> <<>>, next |-> p + 1, pointer |-> 0]
<1>1. Labels(q, p) = EndOfName(q, p)
  <2>1. Labels(q, p) = ReadAt(q, p, Labels(q, p + q[p] + 1))
    BY LabelsRecursion
  <2> QED
    BY <2>1 DEF ReadAt
<1>2. p \in Nat /\ p >= 1 /\ Len(q) \in Nat
  BY DEF Places
<1>3. CASE p <= Len(q) /\ q[p] = 0
  BY <1>1, <1>3, EndIs
<1>4. CASE ~ (p <= Len(q) /\ q[p] = 0) /\ p < Len(q) /\ q[p] >= Pointer
  <2> DEFINE c == q[p]
             d == q[p + 1]
  <2>1. c \in Nat /\ d \in Nat /\ c >= Pointer
    BY <1>2, <1>4
  <2>2. EndOfName(q, p).pointer = (c - Pointer) * 256 + d + 1
    BY <1>4 DEF EndOfName
  <2> HIDE DEF c, d
  <2>3. (c - Pointer) * 256 + d + 1 # 0
    BY <2>1 DEF Pointer
  <2> QED
    BY <1>1, <2>2, <2>3
<1>5. CASE ~ (p <= Len(q) /\ q[p] = 0) /\ ~ (p < Len(q) /\ q[p] >= Pointer)
  BY <1>1, <1>5 DEF EndOfName, NotUnderstood
<1> QED
  BY <1>3, <1>4, <1>5

\* Where Labels finds the end of a name and no pointer, its labels are there.
LEMMA LabelsStand ==
  ASSUME NEW q \in Seq(Nat), NEW p \in Places, Labels(q, p).next # 0, Labels(q, p).pointer = 0
  PROVE  LabelsThere(q, p, Labels(q, p))
<1> DEFINE n == Len(q)
           There(r) == Labels(q, r).next # 0 /\ Labels(q, r).pointer = 0 =>
                         LabelsThere(q, r, Labels(q, r))
           S == {k \in Nat : \A r \in Places : r + k > n => There(r)}
<1>0. n \in Nat /\ \A r \in Places : r \in Nat /\ r # 0
  BY DEF Places
<1>1. ASSUME NEW r \in Places, r > n PROVE There(r)
  <2>1. Labels(q, r).next = 0
    BY <1>1, ReadEnd
  <2> QED
    BY <2>1
<1>2. 0 \in S
  <2>1. \A r \in Places : r + 0 > n => r > n
    BY <1>0
  <2> HIDE DEF There
  <2> QED
    BY <1>1, <2>1
<1>3. ASSUME NEW k \in Nat, k \in S PROVE k + 1 \in S
  <2> SUFFICES ASSUME NEW r \in Places, r + (k + 1) > n, Labels(q, r).next # 0,
                      Labels(q, r).pointer = 0
               PROVE  LabelsThere(q, r, Labels(q, r))
    OBVIOUS
  <2> DEFINE e == r + q[r] + 1
             rest == Labels(q, e)
  <2>1. Labels(q, r) = ReadAt(q, r, rest)
    BY LabelsRecursion
  <2>3. CASE ~IsLabel(q, r)
    <3>1. /\ r <= Len(q) /\ q[r] = 0
          /\ Labels(q, r) = [labels |-> <<>>, next |-> r + 1, pointer |-> 0]
      BY <2>3, EndsWithZero
    <3>2. LabelsThere(q, r, [labels |-> <<>>, next |-> r + 1, pointer |-> 0])
      BY <3>1, NoLabels
    <3> QED
      BY <3>1, <3>2
  <2>4. CASE IsLabel(q, r)
    <3>0. r <= n /\ r + q[r] <= n /\ q[r] \in Nat /\ q[r] # 0
      BY <2>4 DEF IsLabel
    <3>1. Labels(q, r) = [labels |-> <<SubSeq(q, r + 1, r + q[r])>> \o rest.labels,
                          next |-> rest.next, pointer |-> rest.pointer]
      <4> HIDE DEF rest
      <4> QED
        BY <2>1, <2>4 DEF ReadAt
    <3>2. rest.next # 0 /\ rest.pointer = 0
      BY <3>1
    <3>3. e \in Places /\ e + k > n
      <4> DEFINE s == q[r]
      <4>1. s \in Nat /\ s # 0 /\ r \in Nat /\ n \in Nat /\ r + (k + 1) > n
        BY <1>0, <3>0 DEF Places
      <4> HIDE DEF s
      <4>2. r + s + 1 \in Nat /\ r + s + 1 # 0 /\ (r + s + 1) + k > n
        BY <4>1
      <4> QED
        BY <4>2 DEF s, Places
    <3>4. LabelsThere(q, e, rest)
      BY <1>3, <3>2, <3>3
    <3> HIDE DEF rest
    <3>5. LabelsThere(q, r, [labels |-> <<SubSeq(q, r + 1, r + q[r])>> \o rest.labels,
                             next |-> rest.next, pointer |-> rest.pointer])
      BY <3>0, <3>4, LabelInFront
    <3> QED
      BY <3>1, <3>5
  <2> QED
    BY <2>3, <2>4
<1> HIDE DEF S, There
<1>4. Nat \subseteq S
  BY <1>2, <1>3, Induction
<1>5. n \in S /\ p + n > n
  BY <1>0, <1>4
<1>6. There(p)
  BY <1>5 DEF S
<1> QED
  BY <1>6 DEF There

\* The labels of a host are as RFC 1035 has them: 63 characters at most, in a
\* name of at most 255. Empty ones are not excluded.
LabelsFit ==
  \A s \in Hosts :
    /\ Len(s) <= 255
    /\ \A j \in 1 .. Len(s) : StartsLabel(s, j) => LabelEnd(s, j) - j <= 63

\* An empty label ends the name in the query.
LEMMA EmptyLabelEnds ==
  ASSUME LabelsFit, NEW s \in Hosts, s \in Seq(Nat), NEW b, LaidOut(s, b), ~Proper(s)
  PROVE  \E i \in 1 .. Len(s) : b[i] = 0
<1>1. PICK i \in 1 .. Len(s) : s[i] = Dot /\ StartsLabel(s, i)
  BY DEF Proper, LabelsFit, MaxLabel
<1>2. i \in Places /\ i <= Len(s) + 1 /\ i \in Nat
  BY DEF Places
<1>3. EndsLabel(s, i, LabelEnd(s, i))
  BY <1>2, LabelEndIs
<1>4. EndsLabel(s, i, i)
  BY <1>1, <1>2 DEF EndsLabel
<1>5. LabelEnd(s, i) = i
  BY <1>2, <1>3, <1>4, OneEnd
<1>6. b[i] = LabelEnd(s, i) - i
  BY <1>1 DEF LaidOut
<1> QED
  BY <1>2, <1>5, <1>6

\* The name in a query is read up to its end, and no pointer is there.
ReadPlainly(q) == Labels(q, 1).next = Len(q) - 3 /\ Labels(q, 1).pointer = 0

\* Nor is one read so in a query that goes on behind the place of the zero.
LEMMA LongQueryDropped ==
  ASSUME LabelsFit, NEW s \in Hosts, NEW b \in Seq(Nat), LaidOut(s, b),
         NEW q, IsQuery(q, b, Len(s) + 3)
  PROVE  ~ReadPlainly(q)
<1> DEFINE m == Len(s)
           z == m + 3
<1>1. s \in Seq(Nat) /\ m \in Nat /\ \A i \in 1 .. m : s[i] # 0
  BY HostIsName
<1>2. IsQuery(q, b, z) /\ z \in 1 .. m + 3
  BY <1>1
<1>3. Proper(s)
  <2>1. SUFFICES ASSUME ~Proper(s) PROVE FALSE
    OBVIOUS
  <2>2. PICK i \in 1 .. m : b[i] = 0
    BY <1>1, <2>1, EmptyLabelEnds
  <2>3. i \in 1 .. z - 1
    BY <1>1
  <2> QED
    BY <1>2, <2>2, <2>3 DEF IsQuery
<1>4. IsName(s)
  BY <1>1, <1>3 DEF IsName
<1>5. Behind(s) <= m + 2 /\ Behind(s) \in Nat
  BY <1>1, BehindIsNat DEF Places
<1> HIDE DEF z
<1>6. /\ Asks(q, s, z)
      /\ z = Behind(s) \/ (z = Behind(s) + 1 /\ Behind(s) = Len(s) + 2 /\ q[Behind(s)] # 0)
  BY <1>2, <1>4, QueryAsks
<1>7. z = Behind(s) + 1 /\ q[Behind(s)] # 0
  BY <1>1, <1>5, <1>6 DEF z
<1>8. Asks(q, s, Behind(s) + 1)
  BY <1>6, <1>7
<1>9. \/ Labels(q, 1).next # Len(q) - 3
      \/ EndsInPointer(q, s, q[Behind(s)])
  BY <1>1, <1>3, <1>7, <1>8, Misunderstands
<1>10. EndsInPointer(q, s, q[Behind(s)]) => Labels(q, 1).pointer # 0
  <2> DEFINE d == q[Behind(s)]
             x == Labels(q, 1).pointer
  <2> HIDE DEF d
  <2> SUFFICES ASSUME EndsInPointer(q, s, d) PROVE x # 0
    BY DEF d
  <2>1. d \in Nat /\ d >= Pointer /\ x = (d - Pointer) * 256 + 1
    BY DEF EndsInPointer
  <2> HIDE DEF x
  <2> QED
    BY <2>1 DEF Pointer
<1> QED
  BY <1>9, <1>10 DEF ReadPlainly

\* Where it is read so, no byte of the name is zero or a pointer.
LEMMA QueryPlain ==
  ASSUME LabelsFit, NEW s \in Hosts, NEW b \in Seq(Nat), LaidOut(s, b),
         NEW q, NEW z \in 1 .. Len(s) + 3, IsQuery(q, b, z), ReadPlainly(q),
         NEW i \in 1 .. z - 1
  PROVE  q[i] \in 1 .. Pointer - 1
<1> DEFINE m == Len(s)
<1>1. s \in Seq(Nat) /\ m \in Nat /\ z \in Nat /\ z <= m + 3 /\ i \in Nat /\ i >= 1 /\ i <= z - 1
  BY HostIsName
<1>2. q[i] = b[i] /\ b[i] # 0
  <2>1. i \in 1 .. z
    BY <1>1
  <2> QED
    BY <2>1 DEF IsQuery
<1>3. i <= m + 1
  <2>1. SUFFICES ASSUME i > m + 1 PROVE FALSE
    BY <1>1
  <2>2. z = m + 3
    BY <1>1, <2>1
  <2> QED
    BY <2>2, LongQueryDropped
<1>4. CASE StartsLabel(s, i)
  <2>1. i # m + 1
    BY <1>2, <1>4 DEF LaidOut
  <2>2. i \in 1 .. m /\ i \in Places /\ i <= m + 1
    BY <1>1, <1>3, <2>1 DEF Places
  <2>3. LabelEnd(s, i) \in Nat /\ LabelEnd(s, i) >= i
    BY <1>1, <2>2, LabelEndIs DEF EndsLabel
  <2>4. b[i] = LabelEnd(s, i) - i /\ LabelEnd(s, i) - i <= 63
    BY <1>4, <2>2 DEF LaidOut, LabelsFit
  <2> DEFINE e == LabelEnd(s, i)
             c == b[i]
  <2>5. e \in Nat /\ e >= i /\ c = e - i /\ e - i <= 63 /\ c # 0
    BY <1>2, <2>3, <2>4
  <2> HIDE DEF e, c
  <2>6. c \in 1 .. 191
    BY <1>1, <2>5
  <2> QED
    BY <1>2, <2>6 DEF Pointer, c
<1>5. CASE ~StartsLabel(s, i)
  <2> DEFINE j == i - 1
  <2>1. j \in 1 .. m /\ j + 1 = i /\ s[j] # Dot
    BY <1>1, <1>3, <1>5 DEF StartsLabel
  <2> HIDE DEF j
  <2>2. b[i] = s[j]
    BY <2>1 DEF LaidOut
  <2>3. s[j] \in (Bytes \ {Zero}) \cap (0 .. Pointer - 1)
    <3> DEFINE C == (Bytes \ {Zero}) \cap (0 .. Pointer - 1)
    <3>1. s \in Seq(C)
      BY DnsMessageAssumption
    <3> HIDE DEF C
    <3>2. s[j] \in C
      BY <2>1, <3>1
    <3> QED
      BY <3>2 DEF C
  <2> QED
    BY <1>2, <2>2, <2>3 DEF Pointer
<1> QED
  BY <1>4, <1>5

\* A query for labels: they are legible, and behind them there are five bytes.
Question(q, ls) ==
  /\ Readable(ls) /\ Stands(q, 1, WireLabels(ls) \o <<0>>)
  /\ Len(q) = Len(WireLabels(ls)) + 5

\* So is a query whose name is read so.
LEMMA QueryIsQuestion ==
  ASSUME LabelsFit, NEW s \in Hosts, NEW b \in Seq(Nat), LaidOut(s, b),
         NEW e \in 1 .. Len(b), e <= Len(s) + 3, b[e] = 0,
         NEW q, q = QueryOf(b), ReadPlainly(q)
  PROVE  Question(q, Labels(q, 1).labels)
<1> DEFINE ls == Labels(q, 1).labels
           w == WireLabels(ls)
           o == <<0>>
<1>0. Len(s) \in Nat
  BY HostIsName
<1>1. PICK z \in 1 .. e : IsQuery(q, b, z)
  BY QueryBytes
<1>2. q \in Seq(Nat) /\ Len(q) = z + 4 /\ z \in Nat /\ z >= 1 /\ z \in 1 .. Len(s) + 3
  BY <1>0, <1>1 DEF IsQuery
<1>3. Labels(q, 1).next = z + 1
  BY <1>2 DEF ReadPlainly
<1>4. 1 \in Places /\ Labels(q, 1).next # 0 /\ Labels(q, 1).pointer = 0
  BY <1>2, <1>3 DEF Places, ReadPlainly
<1>5. LabelsThere(q, 1, Labels(q, 1))
  BY <1>2, <1>4, LabelsStand
<1>6. /\ ls \in Seq(Seq(Nat)) /\ NoEmpty(ls) /\ Stands(q, 1, w \o o)
      /\ z + 1 = 1 + Len(w) + 1
  BY <1>3, <1>5 DEF LabelsThere
<1> HIDE DEF ls
<1>7. w \in Seq(Nat) /\ Len(w) \in Nat
  BY <1>6, TextTypes
<1> HIDE DEF w
<1>8. o \in Seq(Nat)
  OBVIOUS
<1> HIDE DEF o
<1>9. Stands(q, 1, w)
  BY <1>6, <1>7, <1>8, StandsInParts
<1>10. Len(w) = z - 1
  BY <1>2, <1>6, <1>7, SMTT(40)
<1>11. Plain(w)
  <2>1. ASSUME NEW i \in 1 .. Len(w) PROVE w[i] \in 1 .. Pointer - 1
    <3>1. i \in 1 .. z - 1
      BY <1>10
    <3>2. q[i] \in 1 .. Pointer - 1
      BY <1>1, <1>2, <3>1, QueryPlain
    <3>3. q[1 + i - 1] = w[i] /\ 1 + i - 1 = i
      BY <1>9 DEF Stands
    <3> QED
      BY <3>2, <3>3
  <2> QED
    BY <1>7, <2>1 DEF Plain
<1>12. Readable(ls)
  BY <1>6, <1>11 DEF Readable, w
<1>13. Len(q) = Len(w) + 5
  BY <1>2, <1>10
<1>14. Question(q, ls)
  BY <1>6, <1>12, <1>13 DEF Question, w, o
<1> QED
  BY <1>14 DEF ls

\* So is every query of either program whose name is read so.
LEMMA MadeIsQuestion ==
  ASSUME LabelsFit, RoomForHosts, NEW s \in Hosts, NEW q, Made(q, s), ReadPlainly(q)
  PROVE  Question(q, Labels(q, 1).labels)
<1>1. s \in Seq(Nat) /\ Len(s) \in Nat /\ Len(s) <= 255 /\ RoomFor(s)
  BY HostIsName DEF LabelsFit, RoomForHosts
<1>2. ASSUME NEW junk \in Junk, q = QueryOf(SendReqBuffer(junk, s))
      PROVE  Question(q, Labels(q, 1).labels)
  <2> DEFINE b == SendReqBuffer(junk, s)
             e == Len(s) + 3
  <2>1. b \in Seq(Nat) /\ e \in 1 .. Len(b) /\ b[e] = 0 /\ LaidOut(s, b)
    BY <1>1, SendReqWrites
  <2>2. e <= Len(s) + 3 /\ q = QueryOf(b)
    BY <1>1, <1>2
  <2> HIDE DEF b, e
  <2> QED
    BY <2>1, <2>2, QueryIsQuestion
<1>3. ASSUME q = QueryOf(ChangetoDnsNameFormat(s)) PROVE Question(q, Labels(q, 1).labels)
  <2> DEFINE b == ChangetoDnsNameFormat(s)
             e == Len(s) + 2
  <2>1. b \in Seq(Nat) /\ Len(b) = e /\ b[e] = 0 /\ LaidOut(s, b)
    BY <1>1, ConvertedName
  <2>2. e <= Len(s) + 3 /\ e \in 1 .. e /\ q = QueryOf(b)
    BY <1>1, <1>3
  <2> HIDE DEF b, e
  <2> QED
    BY <2>1, <2>2, QueryIsQuestion
<1> QED
  BY <1>2, <1>3 DEF Made

\* What stands in a message stands there if the message goes on.
LEMMA StandsStill ==
  ASSUME NEW b, NEW p, NEW w, Stands(b, p, w), NEW c \in Seq(Nat)
  PROVE  Stands(b \o c, p, w)
<1> DEFINE x == b \o c
           m == Len(w)
<1>1. /\ b \in Seq(Nat) /\ p \in Nat /\ p # 0 /\ w \in Seq(Nat) /\ m \in Nat
      /\ p + m <= Len(b) + 1 /\ \A i \in 1 .. m : b[p + i - 1] = w[i]
  BY DEF Stands, Places
<1>2. /\ x \in Seq(Nat) /\ Len(x) = Len(b) + Len(c) /\ Len(b) \in Nat /\ Len(c) \in Nat
      /\ \A i \in 1 .. Len(b) : x[i] = b[i]
  BY <1>1, TwoParts
<1> HIDE DEF x, m
<1>3. ASSUME NEW i \in 1 .. m PROVE x[p + i - 1] = w[i]
  <2>1. p + i - 1 \in 1 .. Len(b)
    BY <1>1, <1>2
  <2> QED
    BY <1>1, <1>2, <2>1
<1>4. p + m <= Len(x) + 1
  BY <1>1, <1>2
<1>5. Stands(x, p, w)
  BY <1>1, <1>2, <1>3, <1>4 DEF Stands, Places, m
<1> QED
  BY <1>5 DEF x

\* The last part of a message stands there.
LEMMA StandsLast ==
  ASSUME NEW b \in Seq(Nat), NEW c \in Seq(Nat)
  PROVE  Stands(b \o c, Len(b) + 1, c) /\ Len(b \o c) = Len(b) + Len(c) /\ b \o c \in Seq(Nat)
<1> DEFINE x == b \o c
           n == Len(b)
           m == Len(c)
<1>1. /\ x \in Seq(Nat) /\ Len(x) = n + m /\ n \in Nat /\ m \in Nat
      /\ \A i \in 1 .. m : x[n + i] = c[i]
  BY TwoParts
<1> HIDE DEF x, n, m
<1>2. ASSUME NEW i \in 1 .. m PROVE x[n + 1 + i - 1] = c[i]
  <2>1. n + 1 + i - 1 = n + i
    BY <1>1
  <2> QED
    BY <1>1, <2>1
<1>3. n + 1 + m <= Len(x) + 1 /\ n + 1 \in Nat /\ n + 1 # 0
  BY <1>1
<1>4. Stands(x, n + 1, c)
  BY <1>1, <1>2, <1>3 DEF Stands, Places, m
<1> QED
  BY <1>1, <1>4 DEF x, n, m

\* A reply: header, question and three sections.
Message(q, u, v, w) == [i \in 1 .. HeaderLen |-> 0] \o q \o u \o v \o w

\* Its parts stand one behind the other.
LEMMA MessageParts ==
  ASSUME NEW q \in Seq(Nat), NEW u \in Seq(Nat), NEW v \in Seq(Nat), NEW w \in Seq(Nat),
         NEW b, b = Message(q, u, v, w)
  PROVE  /\ Stands(b, HeaderLen + 1, q)
         /\ Stands(b, HeaderLen + Len(q) + 1, u)
         /\ Stands(b, HeaderLen + Len(q) + Len(u) + 1, v)
         /\ Stands(b, HeaderLen + Len(q) + Len(u) + Len(v) + 1, w)
         /\ Len(b) = HeaderLen + Len(q) + Len(u) + Len(v) + Len(w)
<1> DEFINE h == [i \in 1 .. HeaderLen |-> 0]
           x == h \o q
           y == x \o u
           z == y \o v
           c == z \o w
           n == HeaderLen + Len(q)
           m == n + Len(u)
           k == m + Len(v)
<1>1. h \in Seq(Nat) /\ Len(h) = HeaderLen
  BY DEF HeaderLen
<1> HIDE DEF h
<1>2. Stands(x, HeaderLen + 1, q) /\ Len(x) = n /\ x \in Seq(Nat)
  BY <1>1, StandsLast
<1> HIDE DEF x, n
<1>3. /\ Stands(y, HeaderLen + 1, q) /\ Stands(y, n + 1, u)
      /\ Len(y) = m /\ y \in Seq(Nat)
  BY <1>2, StandsLast, StandsStill
<1> HIDE DEF y, m
<1>4. /\ Stands(z, HeaderLen + 1, q) /\ Stands(z, n + 1, u) /\ Stands(z, m + 1, v)
      /\ Len(z) = k /\ z \in Seq(Nat)
  BY <1>3, StandsLast, StandsStill
<1> HIDE DEF z, k
<1>5. /\ Stands(c, HeaderLen + 1, q) /\ Stands(c, n + 1, u) /\ Stands(c, m + 1, v)
      /\ Stands(c, k + 1, w) /\ Len(c) = k + Len(w)
  BY <1>4, StandsLast, StandsStill
<1>6. b = c
  BY DEF Message, c, z, y, x, h
<1> QED
  BY <1>5, <1>6 DEF k, m, n

\* The places of a question's name to which a pointer may lead.
QuestionPlaces(ls) ==
  {Place(SubSeq(ls, j + 1, Len(ls)), HeaderLen + Len(WireLabels(SubSeq(ls, 1, j)))) :
     j \in 0 .. Len(ls) - 1}

\* In a reply with this question, a pointer to such a place leads to the end of
\* the name.
LEMMA QuestionLeads ==
  ASSUME NEW q, NEW ls, Question(q, ls), NEW b, Stands(b, HeaderLen + 1, q),
         NEW pl \in QuestionPlaces(ls)
  PROVE  Leads(b, pl, Len(q)) /\ Place(pl.labels, pl.at) = pl
<1> DEFINE w == WireLabels(ls)
           o == <<0>>
<1>1. PICK j \in 0 .. Len(ls) - 1 :
        pl = Place(SubSeq(ls, j + 1, Len(ls)), HeaderLen + Len(WireLabels(SubSeq(ls, 1, j))))
  BY DEF QuestionPlaces
<1> DEFINE x == SubSeq(ls, 1, j)
           y == SubSeq(ls, j + 1, Len(ls))
           u == WireLabels(x)
           v == WireLabels(y)
           at == HeaderLen + Len(u)
<1>2. ls \in Seq(Seq(Nat)) /\ Plain(w) /\ Stands(q, 1, w \o o) /\ Len(q) = Len(w) + 5
  BY DEF Question, Readable
<1>3. j \in 0 .. Len(ls)
  BY <1>2
<1>4. w = u \o v /\ x \in Seq(Seq(Nat)) /\ y \in Seq(Seq(Nat))
  BY <1>2, <1>3, WireSplit
<1> HIDE DEF w, x, y
<1>5. u \in Seq(Nat) /\ v \in Seq(Nat)
  BY <1>4, TextTypes
<1> HIDE DEF u, v
<1>6. o \in Seq(Nat)
  OBVIOUS
<1> HIDE DEF o
<1>7. Plain(v) /\ Len(w) = Len(u) + Len(v) /\ Len(u) \in Nat /\ Len(v) \in Nat
  BY <1>2, <1>4, <1>5, PlainInParts, TwoParts
<1>8. (u \o v) \o o = u \o (v \o o) /\ v \o o \in Seq(Nat)
  BY <1>5, <1>6, Associates, TwoParts, ZenonT(60)
<1>9. Stands(q, 1, u \o (v \o o))
  BY <1>2, <1>4, <1>8
<1>10. Stands(q, 1 + Len(u), v \o o)
  BY <1>5, <1>8, <1>9, StandsInParts
<1>11. Stands(b, HeaderLen + 1 + (1 + Len(u)) - 1, v \o o)
  BY <1>10, StandsWithin
<1>12. HeaderLen + 1 + (1 + Len(u)) - 1 = at + 1 /\ at \in Nat
  BY <1>7 DEF HeaderLen
<1>13. Spelled(b, at + 1, v, Len(v))
  BY <1>7, <1>11, <1>12, SpelledInFull DEF o
<1>14. Len(v) <= Len(q)
  BY <1>2, <1>7
<1>15. pl.at = at /\ pl.labels = y /\ pl = Place(y, at)
  BY <1>1 DEF Place, u, x, y
<1> HIDE DEF at
<1>16. Leads(b, pl, Len(q))
  BY <1>4, <1>7, <1>12, <1>13, <1>14, <1>15 DEF Leads, v
<1> QED
  BY <1>15, <1>16

\* Where the programs look for the first record.
LEMMA BehindQuestionIs ==
  ASSUME NEW q, NEW ls, Question(q, ls), NEW b, Stands(b, HeaderLen + 1, q)
  PROVE  BehindQuestion(b) = HeaderLen + Len(q) + 1
<1> DEFINE w == WireLabels(ls)
           n == Len(w)
           c == SubSeq(b, HeaderLen + 1, Len(b))
           k == StrLen(c)
<1>1. Plain(w) /\ w \in Seq(Nat) /\ n \in Nat /\ Stands(q, 1, w \o <<0>>) /\ Len(q) = n + 5
  BY DEF Question, Readable, Plain
<1> HIDE DEF w
<1>2. Stands(q, 1, w) /\ q[1 + n] = 0
  BY <1>1, FullStands
<1> HIDE DEF n
<1>3. /\ b \in Seq(Nat) /\ Len(b) \in Nat /\ HeaderLen + 1 + Len(q) <= Len(b) + 1
      /\ \A i \in 1 .. Len(q) : b[HeaderLen + 1 + i - 1] = q[i]
  BY DEF Stands
<1>4. /\ c \in Seq(Nat) /\ Len(c) = Len(b) - HeaderLen
      /\ \A i \in 1 .. Len(b) - HeaderLen : c[i] = b[HeaderLen + i]
  BY <1>1, <1>3 DEF HeaderLen
<1> HIDE DEF c
<1>5. \A i \in 1 .. Len(q) : c[i] = q[i]
  <2> TAKE i \in 1 .. Len(q)
  <2>1. i \in 1 .. Len(b) - HeaderLen /\ HeaderLen + 1 + i - 1 = HeaderLen + i
    BY <1>1, <1>3 DEF HeaderLen
  <2> QED
    BY <1>3, <1>4, <2>1
<1>6. n + 1 \in 1 .. Len(q) /\ n + 1 \in 1 .. Len(c)
  BY <1>1, <1>3, <1>4 DEF HeaderLen
<1>7. c[n + 1] = 0
  <2>1. n + 1 = 1 + n
    BY <1>1
  <2> QED
    BY <1>2, <1>5, <1>6, <2>1
<1>8. k \in Nat /\ k + 1 \in 1 .. n + 1 /\ c[k + 1] = 0
  BY <1>4, <1>6, <1>7, StrLenIs
<1> HIDE DEF k
<1>9. k = n
  <2>1. k + 1 \in Nat /\ k + 1 >= 1 /\ k + 1 <= n + 1
    BY <1>1, <1>8
  <2>2. SUFFICES ASSUME k + 1 # n + 1 PROVE FALSE
    BY <1>1, <1>8, <2>1
  <2>3. k + 1 \in 1 .. n /\ k + 1 \in 1 .. Len(q)
    BY <1>1, <2>1, <2>2
  <2>4. q[1 + (k + 1) - 1] = w[k + 1] /\ w[k + 1] \in 1 .. Pointer - 1
    BY <1>1, <1>2, <2>3 DEF Stands, Plain, n
  <2>5. 1 + (k + 1) - 1 = k + 1
    BY <2>1
  <2> QED
    BY <1>5, <1>8, <2>3, <2>4, <2>5
<1>10. BehindQuestion(b) = HeaderLen + n + 1 + 4 + 1
  BY <1>9 DEF BehindQuestion, k, c
<1> QED
  BY <1>1, <1>10 DEF HeaderLen

-----------------------------------------------------------------------------
(* Records.                                                                  *)

\* What stands in front of a record's rdata.
Preface(type, n) == Short(type) \o Short(1) \o <<0, 0, 1, 44>> \o Short(n)

\* Two bytes give the number they were made of.
LEMMA ShortIs ==
  ASSUME NEW n \in Nat
  PROVE  /\ Short(n) \in Seq(Nat) /\ Len(Short(n)) = 2
         /\ Short(n)[1] * 256 + Short(n)[2] = n
<1>1. n \div 256 \in Nat /\ n % 256 \in Nat /\ (n \div 256) * 256 + (n % 256) = n
  OBVIOUS
<1> DEFINE h == n \div 256
           l == n % 256
<1>2. Short(n) = <<h, l>>
  BY DEF Short
<1>3. h \in Nat /\ l \in Nat /\ h * 256 + l = n
  BY <1>1
<1> HIDE DEF h, l
<1> QED
  BY <1>2, <1>3

\* The bytes of it that are read.
LEMMA PrefaceIs ==
  ASSUME NEW type \in Nat, NEW n \in Nat
  PROVE  /\ Preface(type, n) \in Seq(Nat) /\ Len(Preface(type, n)) = 10
         /\ Preface(type, n)[1] * 256 + Preface(type, n)[2] = type
         /\ Preface(type, n)[9] * 256 + Preface(type, n)[10] = n
<1> DEFINE a == Short(type)
           b == Short(1)
           c == <<0, 0, 1, 44>>
           d == Short(n)
           x == a \o b
           y == x \o c
           z == y \o d
<1>1. /\ a \in Seq(Nat) /\ Len(a) = 2 /\ b \in Seq(Nat) /\ Len(b) = 2
      /\ d \in Seq(Nat) /\ Len(d) = 2 /\ a[1] * 256 + a[2] = type /\ d[1] * 256 + d[2] = n
  BY ShortIs
<1>2. c \in Seq(Nat) /\ Len(c) = 4
  OBVIOUS
<1> HIDE DEF a, b, c, d
<1>3. x \in Seq(Nat) /\ Both(x, a, b)
  BY <1>1, PartsOfBoth
<1> HIDE DEF x
<1>4. y \in Seq(Nat) /\ Both(y, x, c)
  BY <1>2, <1>3, PartsOfBoth
<1> HIDE DEF y
<1>5. z \in Seq(Nat) /\ Both(z, y, d)
  BY <1>1, <1>4, PartsOfBoth
<1> HIDE DEF z
<1>6. Len(x) = 4 /\ x[1] = a[1] /\ x[2] = a[2]
  BY <1>1, <1>3 DEF Both
<1>7. Len(y) = 8 /\ y[1] = a[1] /\ y[2] = a[2]
  BY <1>2, <1>4, <1>6 DEF Both
<1>8. Len(z) = 10 /\ z[1] = a[1] /\ z[2] = a[2]
  BY <1>1, <1>5, <1>7 DEF Both
<1>9. z[8 + 1] = d[1] /\ z[8 + 2] = d[2]
  BY <1>1, <1>5, <1>7 DEF Both
<1>10. z = Preface(type, n)
  BY DEF z, y, x, a, b, c, d, Preface
<1> QED
  BY <1>1, <1>5, <1>8, <1>9, <1>10

\* Part of a message.
PartOf(s, b, x, n) == s \in Seq(Nat) /\ Len(s) = n /\ \A i \in 1 .. n : s[i] = b[x + i - 1]

\* It is what SubSeq gives.
LEMMA SubSeqIs ==
  ASSUME NEW b \in Seq(Nat), NEW x \in Nat, x # 0, NEW y \in Nat, y <= Len(b),
         NEW n \in Nat, n = y + 1 - x
  PROVE  PartOf(SubSeq(b, x, y), b, x, n)
BY DEF PartOf

\* A number of two bytes in a message.
LEMMA ToIntIs ==
  ASSUME NEW b \in Seq(Nat), NEW x \in Nat, x # 0, NEW y, y = x + 1, y <= Len(b)
  PROVE  ToInt(SubSeq(b, x, y)) = b[x] * 256 + b[y]
<1> DEFINE s == SubSeq(b, x, y)
<1>1. y \in Nat /\ 2 = y + 1 - x /\ 2 \in Nat /\ x + 1 - 1 = x /\ x + 2 - 1 = y
  OBVIOUS
<1>2. \A i \in 1 .. 2 : s[i] = b[x + i - 1]
  BY <1>1, SubSeqIs DEF PartOf
<1>3. s[1] = b[x + 1 - 1] /\ s[2] = b[x + 2 - 1]
  BY <1>2
<1>4. s[1] = b[x] /\ s[2] = b[y]
  BY <1>1, <1>3
<1> HIDE DEF s
<1>5. ToInt(s) = b[x] * 256 + b[y]
  BY <1>4 DEF ToInt
<1> QED
  BY <1>5 DEF s

\* What stands in a message is what is copied out of it.
LEMMA Copied ==
  ASSUME NEW b, NEW y, NEW data, Stands(b, y, data)
  PROVE  SubSeq(b, y, y + Len(data) - 1) = data
<1> DEFINE n == Len(data)
           z == y + n - 1
           s == SubSeq(b, y, z)
<1>1. /\ b \in Seq(Nat) /\ y \in Nat /\ y # 0 /\ data \in Seq(Nat) /\ n \in Nat
      /\ y + n <= Len(b) + 1 /\ Len(b) \in Nat
      /\ \A i \in 1 .. n : b[y + i - 1] = data[i]
  BY DEF Stands, Places
<1> HIDE DEF n
<1>2. z \in Nat /\ z <= Len(b) /\ n = z + 1 - y
  BY <1>1
<1> HIDE DEF z
<1>3. PartOf(s, b, y, n)
  BY <1>1, <1>2, SubSeqIs
<1> HIDE DEF s
<1>5. Len(data) = n /\ \A i \in 1 .. n : s[i] = data[i]
  BY <1>1, <1>3 DEF PartOf, n
<1>4. s = data
  BY <1>1, <1>3, <1>5, SameSeq DEF PartOf
<1> QED
  BY <1>4 DEF s, z, n

\* What is read behind the name of a record.
RDataAt(b, x, type, data) ==
  /\ ToInt(SubSeq(b, x, x + 1)) = type
  /\ ToInt(SubSeq(b, x + 8, x + 9)) = Len(data)
  /\ SubSeq(b, x + 10, x + 10 + Len(data) - 1) = data

\* How a record stands in a message.
LEMMA RecordStands ==
  ASSUME NEW b, NEW p, NEW e \in Seq(Nat), NEW type \in Nat, NEW data \in Seq(Nat),
         Stands(b, p, e \o RData(type, data)), NEW x, x = p + Len(e)
  PROVE  /\ Stands(b, p, e) /\ Stands(b, x + 10, data) /\ x \in Nat
         /\ RDataAt(b, x, type, data)
<1> DEFINE n == Len(data)
           h == Preface(type, n)
           r == h \o data
<1>1. n \in Nat
  OBVIOUS
<1>2. h \in Seq(Nat) /\ Len(h) = 10 /\ h[1] * 256 + h[2] = type /\ h[9] * 256 + h[10] = n
  BY <1>1, PrefaceIs, SMTT(40)
<1>3. RData(type, data) = r
  BY DEF RData, Preface
<1> HIDE DEF h
<1>4. r \in Seq(Nat) /\ Len(r) = Len(h) + Len(data)
  BY <1>2, TwoParts
<1> HIDE DEF r
<1>5. Stands(b, p, e) /\ Stands(b, x, r)
  BY <1>3, <1>4, StandsInParts
<1>6. Stands(b, x, h) /\ Stands(b, x + 10, data)
  <2>1. Stands(b, x, h) /\ Stands(b, x + Len(h), data)
    BY <1>2, <1>5, StandsInParts, ZenonT(60) DEF r
  <2> QED
    BY <1>2, <2>1
<1> HIDE DEF n
<1>7. /\ b \in Seq(Nat) /\ Len(b) \in Nat /\ x \in Nat /\ x # 0 /\ x + 10 <= Len(b) + 1
      /\ \A i \in 1 .. 10 : b[x + i - 1] = h[i]
  BY <1>2, <1>6 DEF Stands, Places
<1>8. b[x] = h[1] /\ b[x + 1] = h[2] /\ b[x + 8] = h[9] /\ b[x + 9] = h[10]
  <2>1. b[x + 1 - 1] = h[1] /\ b[x + 2 - 1] = h[2] /\ b[x + 9 - 1] = h[9] /\ b[x + 10 - 1] = h[10]
    BY <1>7
  <2>2. x + 1 - 1 = x /\ x + 2 - 1 = x + 1 /\ x + 9 - 1 = x + 8 /\ x + 10 - 1 = x + 9
    BY <1>7
  <2> QED
    BY <2>1, <2>2
<1> DEFINE m == Len(b)
<1>9. b \in Seq(Nat) /\ m \in Nat /\ x \in Nat /\ x # 0 /\ x + 10 <= m + 1
  BY <1>7
<1> HIDE DEF m
<1>10. ToInt(SubSeq(b, x, x + 1)) = type
  <2> DEFINE y == x + 1
  <2>1. y = x + 1 /\ y <= m
    BY <1>9
  <2>2. b[x] = h[1] /\ b[y] = h[2]
    BY <1>8
  <2> HIDE DEF y
  <2>3. ToInt(SubSeq(b, x, y)) = b[x] * 256 + b[y]
    BY <1>9, <2>1, ToIntIs, SMTT(40) DEF m
  <2>4. ToInt(SubSeq(b, x, y)) = type
    BY <1>2, <2>2, <2>3
  <2> QED
    BY <2>4 DEF y
<1>11. ToInt(SubSeq(b, x + 8, x + 9)) = n
  <2> DEFINE y == x + 8
             z == x + 9
  <2>1. y \in Nat /\ y # 0 /\ z = y + 1 /\ z <= m
    BY <1>9
  <2>2. b[y] = h[9] /\ b[z] = h[10]
    BY <1>8
  <2> HIDE DEF y, z
  <2>3. ToInt(SubSeq(b, y, z)) = b[y] * 256 + b[z]
    BY <1>9, <2>1, ToIntIs DEF m
  <2>4. ToInt(SubSeq(b, y, z)) = n
    BY <1>2, <2>2, <2>3
  <2> QED
    BY <2>4 DEF y, z
<1>12. SubSeq(b, x + 10, x + 10 + n - 1) = data
  BY <1>6, Copied DEF n
<1> QED
  BY <1>5, <1>6, <1>9, <1>10, <1>11, <1>12 DEF n, RDataAt

\* A loop over a section, at a place and with what it has read.
At(p, records) == [reader |-> p, records |-> records]

\* A record as it is read.
Record(name, type, rdata) == [name |-> name, type |-> type, rdata |-> rdata]

\* What a turn makes of a record, rdata that is a name being x.
LEMMA ParseIs ==
  ASSUME NEW b, NEW p, NEW ls, NEW e \in Seq(Nat), Reads(b, p, ls, Len(e)),
         NEW type \in Nat, NEW data \in Seq(Nat), Stands(b, p, e \o RData(type, data)),
         NEW rs, NEW y, y = p + Len(e) + 10, NEW x, x = ReadName(b, y)
  PROVE  /\ type = QTYPE_A =>
              ParseRecord(b, At(p, rs)) = At(y + Len(data), Append(rs, Record(Dotted(ls), type, data)))
         /\ type # QTYPE_A =>
              ParseRecord(b, At(p, rs)) = At(y + x.count, Append(rs, Record(Dotted(ls), type, x.name)))
<1> DEFINE res == p + Len(e)
           n == Len(data)
           d == Dotted(ls)
           st == At(p, rs)
<1>1. /\ ToInt(SubSeq(b, res, res + 1)) = type
      /\ ToInt(SubSeq(b, res + 8, res + 9)) = n
      /\ SubSeq(b, res + 10, res + 10 + n - 1) = data
  <2>1. RDataAt(b, res, type, data)
    BY RecordStands
  <2> QED
    BY <2>1 DEF RDataAt
<1>2. ReadName(b, p) = [name |-> d, count |-> Len(e)]
  BY DEF Reads
<1> DEFINE owner == ReadName(b, p)
<1>3. owner.name = d /\ p + owner.count = res
  BY <1>2
<1>4. st.reader = p /\ st.records = rs
  BY DEF At
<1> HIDE DEF n, d, st, owner, res
<1>5. ParseRecord(b, st) =
        IF type = QTYPE_A THEN At(res + 10 + n, Append(rs, Record(d, type, data)))
        ELSE At(res + 10 + x.count, Append(rs, Record(d, type, x.name)))
  <2>1. y = res + 10
    BY DEF res
  <2>2. ReadName(b, p) = owner
    BY DEF owner
  <2> QED
    BY <1>1, <1>3, <1>4, <2>1, <2>2, Zenon DEF ParseRecord, At, Record
<1> QED
  BY <1>5 DEF st, n, d, res

\* A record at a place is read as it is meant, and the reader is behind it.
LegibleAt(b, p, w) ==
  \A rs : ParseRecord(b, At(p, rs)) = At(p + Len(w.bytes), Append(rs, w.record))

\* A record at a place is read as it is meant but for its rdata.
ReadableAt(b, p, w) ==
  \A rs : \E x, r : /\ ParseRecord(b, At(p, rs)) = At(x, Append(rs, r))
                    /\ AsMeant(r, w.record)

\* A record that the name server writes: bytes and meaning.
IsWritten(w, ls, e, type, rdata, data) ==
  /\ w.bytes = e \o RData(type, data) /\ w.bytes \in Seq(Nat)
  /\ Len(w.bytes) = Len(e) + 10 + Len(data)
  /\ w.record = Record(Dotted(ls), type, rdata)

\* Every one it writes is so.
LEMMA WrittenIs ==
  ASSUME NEW ls, NEW e \in Seq(Nat), NEW type \in Nat, NEW rdata, NEW data \in Seq(Nat),
         NEW w, w = Written(ls, e, type, rdata, data)
  PROVE  IsWritten(w, ls, e, type, rdata, data)
<1> DEFINE h == Preface(type, Len(data))
           r == h \o data
<1>1. h \in Seq(Nat) /\ Len(h) = 10
  BY PrefaceIs
<1>2. RData(type, data) = r
  BY DEF RData, Preface
<1> HIDE DEF h
<1>3. r \in Seq(Nat) /\ Len(r) = 10 + Len(data)
  <2>1. r \in Seq(Nat) /\ Len(r) = Len(h) + Len(data)
    BY <1>1, TwoParts
  <2> QED
    BY <1>1, <2>1
<1> HIDE DEF r
<1>4. e \o r \in Seq(Nat) /\ Len(e \o r) = Len(e) + Len(r)
  BY <1>3, TwoParts
<1>5. Len(e) + Len(r) = Len(e) + 10 + Len(data)
  <2>1. Len(e) \in Nat /\ Len(data) \in Nat
    OBVIOUS
  <2> QED
    BY <1>3, <2>1
<1> QED
  BY <1>2, <1>4, <1>5 DEF Written, Record, IsWritten

\* The constants of the records.
LEMMA RecordConstants ==
  /\ QTYPE_A \in Nat /\ QTYPE_NS \in Nat /\ QTYPE_CNAME \in Nat /\ OtherType \in Nat
  /\ QTYPE_NS # QTYPE_A /\ QTYPE_CNAME # QTYPE_A /\ OtherType # QTYPE_A
  /\ QTYPE_NS # OtherType /\ QTYPE_CNAME # OtherType
  /\ Address \in Seq(Nat) /\ Len(Address) = 4 /\ OtherData \in Seq(Nat) /\ Len(OtherData) = 4
BY DEF QTYPE_A, QTYPE_NS, QTYPE_CNAME, OtherType, Address, OtherData

\* An address.
LEMMA AddressIsRead ==
  ASSUME NEW b, NEW p, NEW ls, NEW e \in Seq(Nat), Reads(b, p, ls, Len(e)),
         NEW w, w = AddressOf(ls, e), Stands(b, p, w.bytes)
  PROVE  LegibleAt(b, p, w)
<1> DEFINE y == p + Len(e) + 10
           x == ReadName(b, y)
<1>1. /\ w.bytes = e \o RData(QTYPE_A, Address)
      /\ Len(w.bytes) = Len(e) + 10 + Len(Address)
      /\ w.record = Record(Dotted(ls), QTYPE_A, Address)
  <2>1. IsWritten(w, ls, e, QTYPE_A, Address, Address)
    BY RecordConstants, WrittenIs DEF AddressOf
  <2> QED
    BY <2>1 DEF IsWritten
<1>2. y + Len(Address) = p + Len(w.bytes)
  <2>1. p \in Nat /\ Len(e) \in Nat /\ Len(Address) = 4
    BY RecordConstants DEF Stands, Places
  <2> QED
    BY <1>1, <2>1
<1>3. ASSUME NEW rs PROVE ParseRecord(b, At(p, rs)) = At(p + Len(w.bytes), Append(rs, w.record))
  <2> HIDE DEF x
  <2>0. /\ QTYPE_A \in Nat /\ Address \in Seq(Nat)
        /\ Stands(b, p, e \o RData(QTYPE_A, Address))
    BY <1>1, RecordConstants
  <2> DEFINE type == QTYPE_A
             data == Address
  <2> HIDE DEF type, data
  <2>1. ParseRecord(b, At(p, rs)) = At(y + Len(data), Append(rs, Record(Dotted(ls), type, data)))
    <3>1. type \in Nat /\ data \in Seq(Nat) /\ Stands(b, p, e \o RData(type, data)) /\ type = QTYPE_A
      BY <2>0 DEF type, data
    <3> QED
      BY <3>1, ParseIs DEF x
  <2> QED
    BY <1>1, <1>2, <2>1 DEF type, data
<1> QED
  BY <1>3 DEF LegibleAt

\* An alias or a name server.
LEMMA NameIsRead ==
  ASSUME NEW b, NEW p, NEW ls, NEW e \in Seq(Nat), Reads(b, p, ls, Len(e)),
         NEW type \in Nat, type # QTYPE_A, NEW to, NEW f \in Seq(Nat),
         Reads(b, p + Len(e) + 10, to, Len(f)),
         NEW w, w = NameOf(ls, e, type, to, f), Stands(b, p, w.bytes)
  PROVE  LegibleAt(b, p, w)
<1> DEFINE y == p + Len(e) + 10
           x == ReadName(b, y)
<1>1. /\ w.bytes = e \o RData(type, f) /\ Len(w.bytes) = Len(e) + 10 + Len(f)
      /\ w.record = Record(Dotted(ls), type, Dotted(to))
  <2>1. IsWritten(w, ls, e, type, Dotted(to), f)
    BY WrittenIs DEF NameOf
  <2> QED
    BY <2>1 DEF IsWritten
<1>2. y + Len(f) = p + Len(w.bytes)
  <2>1. p \in Nat /\ Len(e) \in Nat /\ Len(f) \in Nat
    BY DEF Stands, Places
  <2> QED
    BY <1>1, <2>1
<1>3. x.name = Dotted(to) /\ x.count = Len(f)
  BY DEF Reads
<1>4. ASSUME NEW rs PROVE ParseRecord(b, At(p, rs)) = At(p + Len(w.bytes), Append(rs, w.record))
  <2> HIDE DEF x
  <2>1. ParseRecord(b, At(p, rs)) = At(y + x.count, Append(rs, Record(Dotted(ls), type, x.name)))
    BY <1>1, ParseIs DEF x
  <2> QED
    BY <1>1, <1>2, <1>3, <2>1
<1> QED
  BY <1>4 DEF LegibleAt

\* A record of another type.
LEMMA OtherIsRead ==
  ASSUME NEW b, NEW p, NEW ls, NEW e \in Seq(Nat), Reads(b, p, ls, Len(e)),
         NEW w, w = Other(ls, e), Stands(b, p, w.bytes)
  PROVE  ReadableAt(b, p, w)
<1> DEFINE y == p + Len(e) + 10
           x == ReadName(b, y)
           r == Record(Dotted(ls), OtherType, x.name)
<1>1. /\ w.bytes = e \o RData(OtherType, OtherData)
      /\ w.record = Record(Dotted(ls), OtherType, OtherData)
  <2>1. IsWritten(w, ls, e, OtherType, OtherData, OtherData)
    BY RecordConstants, WrittenIs DEF Other
  <2> QED
    BY <2>1 DEF IsWritten
<1>2. AsMeant(r, w.record)
  BY <1>1 DEF AsMeant, Known, Record
<1>3. ASSUME NEW rs PROVE ParseRecord(b, At(p, rs)) = At(y + x.count, Append(rs, r))
  <2> HIDE DEF x
  <2>1. ParseRecord(b, At(p, rs)) = At(y + x.count, Append(rs, Record(Dotted(ls), OtherType, x.name)))
    BY <1>1, RecordConstants, ParseIs DEF x
  <2> QED
    BY <2>1
<1> HIDE DEF r, x, y
<1> QED
  BY <1>2, <1>3 DEF ReadableAt

\* What is legible is readable.
LEMMA LegibleIsReadable ==
  ASSUME NEW b, NEW p, NEW w, LegibleAt(b, p, w)
  PROVE  ReadableAt(b, p, w)
<1>1. AsMeant(w.record, w.record)
  BY DEF AsMeant
<1> QED
  BY <1>1 DEF LegibleAt, ReadableAt

-----------------------------------------------------------------------------
(* dns.c reads records in the same way.                                      *)

\* The answers and the additional section.
LEMMA SameRecord ==
  ASSUME NEW b, NEW st
  PROVE  ReadRecord(b, st) = ParseRecord(b, st)
<1> DEFINE owner == ReadName(b, st.reader)
           res == st.reader + owner.count
           type == ToInt(SubSeq(b, res, res + 1))
           data == res + 10
           size == ToInt(SubSeq(b, res + 8, res + 9))
           name == ReadName(b, data)
           rdata == SubSeq(b, data, data + size - 1)
<1>1. ReadRecord(b, st) =
        [reader  |-> data + IF type = QTYPE_A THEN size ELSE name.count,
         records |-> Append(st.records,
                       [name |-> owner.name, type |-> type,
                        rdata |-> IF type = QTYPE_A THEN rdata ELSE name.name])]
  BY DEF ReadRecord, ReadPrototypeName
<1>2. ParseRecord(b, st) =
        IF type = QTYPE_A
        THEN [reader  |-> data + size,
              records |-> Append(st.records, [name |-> owner.name, type |-> type, rdata |-> rdata])]
        ELSE [reader  |-> data + name.count,
              records |-> Append(st.records, [name |-> owner.name, type |-> type,
                                              rdata |-> name.name])]
  BY DEF ParseRecord
<1> HIDE DEF owner, res, type, data, size, name, rdata
<1>3. CASE type = QTYPE_A
  BY <1>1, <1>2, <1>3
<1>4. CASE type # QTYPE_A
  BY <1>1, <1>2, <1>4
<1> QED
  BY <1>3, <1>4

\* The authority section, unless the record is an address.
LEMMA SameAuthority ==
  ASSUME NEW b, NEW p, NEW ls, NEW e \in Seq(Nat), Reads(b, p, ls, Len(e)),
         NEW type \in Nat, type # QTYPE_A, NEW data \in Seq(Nat),
         Stands(b, p, e \o RData(type, data)), NEW rs
  PROVE  ReadAuthority(b, At(p, rs)) = ParseRecord(b, At(p, rs))
<1> DEFINE res == p + Len(e)
           y == res + 10
           x == ReadName(b, y)
           owner == ReadName(b, p)
           st == At(p, rs)
<1>1. ToInt(SubSeq(b, res, res + 1)) = type
  <2>1. RDataAt(b, res, type, data)
    BY RecordStands
  <2> QED
    BY <2>1 DEF RDataAt
<1>2. ParseRecord(b, st) = At(y + x.count, Append(rs, Record(Dotted(ls), type, x.name)))
  <2> HIDE DEF x
  <2> QED
    BY ParseIs DEF x
<1>3. owner.name = Dotted(ls) /\ owner.count = Len(e)
  BY DEF Reads
<1>4. st.reader = p /\ st.records = rs
  BY DEF At
<1>5. ReadAuthority(b, st) =
        LET o == ReadName(b, st.reader)
            z == st.reader + o.count
            n == ReadName(b, z + 10)
        IN [reader |-> z + 10 + n.count,
            records |-> Append(st.records, [name |-> o.name, rdata |-> n.name,
                                            type |-> ToInt(SubSeq(b, z, z + 1))])]
  BY DEF ReadAuthority, ReadPrototypeName
<1> HIDE DEF st
<1>6. ReadAuthority(b, st) = At(y + x.count, Append(rs, Record(Dotted(ls), type, x.name)))
  <2>1. ReadName(b, st.reader) = owner /\ st.reader + owner.count = res
    BY <1>3, <1>4
  <2> HIDE DEF owner, res
  <2> QED
    BY <1>1, <1>3, <1>4, <1>5, <2>1 DEF At, Record
<1> QED
  BY <1>2, <1>6 DEF st

-----------------------------------------------------------------------------
(* The loops over the records of a section.                                  *)

\* The turns of such a loop.
IsTurns(f, b, p, n) ==
  f = [k \in 0 .. n |-> IF k = 0 THEN AtReader(p) ELSE ParseRecord(b, f[k - 1])]

\* They exist, for any number of records.
LEMMA TurnsExist ==
  ASSUME NEW b, NEW p, NEW n \in Nat
  PROVE  \E f : IsTurns(f, b, p, n)
<1> DEFINE first == AtReader(p)
           Fun(f, m) == f = [k \in 0 .. m |-> IF k = 0 THEN first ELSE ParseRecord(b, f[k - 1])]
           S == {m \in Nat : \E f : Fun(f, m)}
<1>1. 0 \in S
  <2>1. Fun([k \in 0 .. 0 |-> first], 0)
    <3> HIDE DEF first
    <3> QED
      OBVIOUS
  <2> QED
    BY <2>1
<1>2. ASSUME NEW j \in Nat, j \in S PROVE j + 1 \in S
  <2>1. PICK f : Fun(f, j)
    BY <1>2
  <2> DEFINE m == j + 1
             h == [k \in 0 .. m |-> IF k = 0 THEN first ELSE ParseRecord(b, f[k - 1])]
  <2>2. \A k \in 0 .. j : h[k] = f[k] /\ k \in 0 .. m
    <3> HIDE DEF first
    <3> QED
      BY <2>1
  <2>3. \A k \in 0 .. m : k # 0 => k - 1 \in 0 .. j
    OBVIOUS
  <2>4. Fun(h, m)
    <3>1. \A k \in 0 .. m : k # 0 => h[k - 1] = f[k - 1]
      <4> HIDE DEF h, m
      <4> QED
        BY <2>2, <2>3
    <3> HIDE DEF first, m
    <3>2. \A k \in 0 .. m : h[k] = IF k = 0 THEN first ELSE ParseRecord(b, h[k - 1])
      <4>1. \A k \in 0 .. m : h[k] = IF k = 0 THEN first ELSE ParseRecord(b, f[k - 1])
        OBVIOUS
      <4> HIDE DEF h
      <4> QED
        BY <3>1, <4>1
    <3>3. h = [k \in 0 .. m |-> h[k]]
      OBVIOUS
    <3>4. h = [k \in 0 .. m |-> IF k = 0 THEN first ELSE ParseRecord(b, h[k - 1])]
      <4> HIDE DEF h
      <4> QED
        BY <3>2, <3>3
    <3> QED
      BY <3>4
  <2> HIDE DEF h, Fun
  <2> QED
    BY <2>4
<1> HIDE DEF S
<1>3. n \in S
  <2> HIDE DEF Fun
  <2> QED
    BY <1>1, <1>2, Induction
<1> QED
  BY <1>3 DEF S, IsTurns

\* Where up to two turns lead.
RecordTurns(b, p, n) ==
  IF n = 0 THEN At(p, <<>>)
  ELSE IF n = 1 THEN ParseRecord(b, At(p, <<>>))
  ELSE ParseRecord(b, ParseRecord(b, At(p, <<>>)))

\* All turns of a loop over no more than two records.
LEMMA TurnsLead ==
  ASSUME NEW b, NEW p, NEW n \in 0 .. 2, NEW f,
         \A k \in 0 .. n : f[k] = IF k = 0 THEN AtReader(p) ELSE ParseRecord(b, f[k - 1])
  PROVE  f[n] = RecordTurns(b, p, n)
<1>1. f[0] = At(p, <<>>)
  <2>1. 0 \in 0 .. n
    OBVIOUS
  <2> QED
    BY <2>1 DEF AtReader, At
<1>2. CASE n = 0
  BY <1>1, <1>2 DEF RecordTurns
<1>3. CASE n = 1
  <2>1. f[1] = ParseRecord(b, f[1 - 1])
    BY <1>3
  <2> QED
    BY <1>1, <1>3, <2>1 DEF RecordTurns
<1>4. CASE n = 2
  <2>1. f[1] = ParseRecord(b, f[1 - 1]) /\ f[2] = ParseRecord(b, f[2 - 1])
    BY <1>4
  <2> QED
    BY <1>1, <1>4, <2>1 DEF RecordTurns
<1> QED
  BY <1>2, <1>3, <1>4

\* parse_response.
LEMMA ParseResponseIs ==
  ASSUME NEW r, NEW n \in 0 .. 2, r.ans_count = n, NEW p, p = BehindQuestion(r.bytes),
         NEW x, x = RecordTurns(r.bytes, p, n)
  PROVE  ParseResponse(r) = [answers |-> x.records, auth |-> <<>>, addit |-> <<>>,
                             reader |-> x.reader]
<1> DEFINE b == r.bytes
           Fun(f) == f = [k \in 0 .. n |-> IF k = 0 THEN AtReader(p) ELSE ParseRecord(b, f[k - 1])]
           F == CHOOSE f : Fun(f)
<1>1. \E f : Fun(f)
  <2>1. n \in Nat
    OBVIOUS
  <2>2. PICK f : IsTurns(f, b, p, n)
    BY <2>1, TurnsExist
  <2>3. Fun(f)
    BY <2>2 DEF IsTurns
  <2> QED
    BY <2>3
<1>2. Fun(F)
  <2> HIDE DEF Fun
  <2> QED
    BY <1>1
<1>3. ParseResponse(r) = [answers |-> F[n].records, auth |-> <<>>, addit |-> <<>>,
                          reader |-> F[n].reader]
  BY DEF ParseResponse
<1> HIDE DEF F
<1>4. \A k \in 0 .. n : F[k] = IF k = 0 THEN AtReader(p) ELSE ParseRecord(b, F[k - 1])
  BY <1>2
<1>5. F[n] = x
  BY <1>4, TurnsLead
<1> QED
  BY <1>3, <1>5

\* The first and the last loop of ngethostbyname.
LEMMA ReadRecordsIs ==
  ASSUME NEW b, NEW p, NEW n \in 0 .. 2
  PROVE  ReadRecords(b, p, n) = RecordTurns(b, p, n)
<1> DEFINE Fun(f) == f = [k \in 0 .. n |-> IF k = 0 THEN AtReader(p) ELSE ReadRecord(b, f[k - 1])]
           F == CHOOSE f : Fun(f)
<1>1. \E f : Fun(f)
  <2>1. PICK f : IsTurns(f, b, p, n)
    <3>1. n \in Nat
      OBVIOUS
    <3> QED
      BY <3>1, TurnsExist
  <2>2. \A k \in 0 .. n : ReadRecord(b, f[k - 1]) = ParseRecord(b, f[k - 1])
    BY SameRecord
  <2>3. Fun(f)
    BY <2>1, <2>2 DEF IsTurns
  <2> QED
    BY <2>3
<1>2. Fun(F)
  <2> HIDE DEF Fun
  <2> QED
    BY <1>1
<1>3. ReadRecords(b, p, n) = F[n]
  BY DEF ReadRecords
<1> HIDE DEF F
<1>4. \A k \in 0 .. n : F[k] = IF k = 0 THEN AtReader(p) ELSE ReadRecord(b, F[k - 1])
  BY <1>2
<1>5. \A k \in 0 .. n : F[k] = IF k = 0 THEN AtReader(p) ELSE ParseRecord(b, F[k - 1])
  BY <1>4, SameRecord
<1> QED
  BY <1>3, <1>5, TurnsLead

\* The second loop, over one record at most.
LEMMA ReadAuthoritiesIs ==
  ASSUME NEW b, NEW p
  PROVE  /\ ReadAuthorities(b, p, 0) = At(p, <<>>)
         /\ ReadAuthorities(b, p, 1) = ReadAuthority(b, At(p, <<>>))
<1> DEFINE first == AtReader(p)
           next == ReadAuthority(b, first)
           Fun(f, n) == f = [k \in 0 .. n |-> IF k = 0 THEN first ELSE ReadAuthority(b, f[k - 1])]
           F(n) == CHOOSE f : Fun(f, n)
<1>1. \E f : Fun(f, 0)
  <2> HIDE DEF first, next
  <2>1. Fun([k \in 0 .. 0 |-> first], 0)
    OBVIOUS
  <2> QED
    BY <2>1
<1>2. \E f : Fun(f, 1)
  <2> DEFINE h == [k \in 0 .. 1 |-> IF k = 0 THEN first ELSE next]
  <2>1. h[0] = first
    OBVIOUS
  <2>2. \A k \in 0 .. 1 : h[k] = IF k = 0 THEN first ELSE ReadAuthority(b, h[k - 1])
    <3>1. \A k \in 0 .. 1 : k # 0 => k - 1 = 0
      OBVIOUS
    <3>2. \A k \in 0 .. 1 : h[k] = IF k = 0 THEN first ELSE next
      OBVIOUS
    <3> HIDE DEF h, first
    <3> QED
      BY <2>1, <3>1, <3>2
  <2>3. h = [k \in 0 .. 1 |-> h[k]]
    OBVIOUS
  <2> HIDE DEF h, first
  <2>4. Fun(h, 1)
    BY <2>2, <2>3
  <2> QED
    BY <2>4
<1>3. Fun(F(0), 0) /\ Fun(F(1), 1)
  <2> HIDE DEF Fun
  <2> QED
    BY <1>1, <1>2
<1>4. ReadAuthorities(b, p, 0) = F(0)[0] /\ ReadAuthorities(b, p, 1) = F(1)[1]
  BY DEF ReadAuthorities
<1> HIDE DEF F
<1>5. F(0)[0] = first
  <2> HIDE DEF first
  <2> QED
    BY <1>3
<1>6. F(1)[1] = ReadAuthority(b, first)
  <2> HIDE DEF first
  <2>1. \A k \in 0 .. 1 : F(1)[k] = IF k = 0 THEN first ELSE ReadAuthority(b, F(1)[k - 1])
    BY <1>3
  <2>2. F(1)[0] = first
    BY <2>1
  <2>3. F(1)[1] = ReadAuthority(b, F(1)[1 - 1])
    BY <2>1
  <2> QED
    BY <2>2, <2>3
<1> QED
  BY <1>4, <1>5, <1>6 DEF AtReader, At

-----------------------------------------------------------------------------
(* Sections.                                                                 *)

\* The bytes of a section of up to two records.
LEMMA WireIs ==
  ASSUME NEW w, NEW v
  PROVE  /\ Wire(<<>>) = <<>> /\ Wire(<<w>>) = w.bytes /\ Wire(<<w, v>>) = w.bytes \o v.bytes
<1> DEFINE Fun(f, s) == f = [i \in 1 .. Len(s) |-> IF i = 1 THEN s[i] ELSE f[i - 1] \o s[i]]
           F(s) == CHOOSE f : Fun(f, s)
           x == w.bytes
           y == v.bytes
<1>1. FlattenSeq(<<>>) = <<>> /\ FlattenSeq(<<x>>) = F(<<x>>)[1] /\ FlattenSeq(<<x, y>>) = F(<<x, y>>)[2]
  <2> HIDE DEF x, y
  <2>1. Len(<<>>) = 0 /\ Len(<<x>>) = 1 /\ Len(<<x, y>>) = 2
    OBVIOUS
  <2> QED
    BY <2>1 DEF FlattenSeq
<1>2. /\ Wire(<<>>) = FlattenSeq(<<>>) /\ Wire(<<w>>) = FlattenSeq(<<x>>)
      /\ Wire(<<w, v>>) = FlattenSeq(<<x, y>>)
  <2>1. [i \in DOMAIN <<>> |-> <<>>[i].bytes] = <<>>
    OBVIOUS
  <2>2. [i \in DOMAIN <<w>> |-> <<w>>[i].bytes] = <<x>>
    OBVIOUS
  <2>3. [i \in DOMAIN <<w, v>> |-> <<w, v>>[i].bytes] = <<x, y>>
    OBVIOUS
  <2> QED
    BY <2>1, <2>2, <2>3 DEF Wire
<1> HIDE DEF x, y
<1>3. F(<<x>>)[1] = x
  <2> DEFINE s == <<x>>
             h == [i \in 1 .. 1 |-> x]
  <2>1. Len(s) = 1 /\ s[1] = x
    OBVIOUS
  <2> HIDE DEF s
  <2>2. Fun(h, s)
    BY <2>1
  <2>3. Fun(F(s), s)
    <3> HIDE DEF Fun
    <3> QED
      BY <2>2
  <2> HIDE DEF F
  <2>4. F(s)[1] = x
    BY <2>1, <2>3
  <2> QED
    BY <2>4 DEF s
<1>4. F(<<x, y>>)[2] = x \o y
  <2> DEFINE s == <<x, y>>
             h == [i \in 1 .. 2 |-> IF i = 1 THEN x ELSE x \o y]
  <2>1. Len(s) = 2 /\ s[1] = x /\ s[2] = y
    OBVIOUS
  <2> HIDE DEF s
  <2>2. Fun(h, s)
    <3>1. h[1] = x /\ h[2] = x \o y
      OBVIOUS
    <3>2. \A i \in 1 .. 2 : h[i] = IF i = 1 THEN s[i] ELSE h[i - 1] \o s[i]
      <4>1. \A i \in 1 .. 2 : i = 1 \/ i = 2
        OBVIOUS
      <4>2. h[2] = h[2 - 1] \o s[2]
        <5>1. 2 - 1 = 1
          OBVIOUS
        <5> HIDE DEF h
        <5> QED
          BY <2>1, <3>1, <5>1
      <4> HIDE DEF h
      <4> QED
        BY <2>1, <3>1, <4>1, <4>2
    <3>3. h = [i \in 1 .. 2 |-> h[i]]
      OBVIOUS
    <3> HIDE DEF h
    <3> QED
      BY <2>1, <3>2, <3>3
  <2>3. Fun(F(s), s)
    <3> HIDE DEF Fun, h
    <3> QED
      BY <2>2
  <2> HIDE DEF F
  <2>4. \A i \in 1 .. 2 : F(s)[i] = IF i = 1 THEN s[i] ELSE F(s)[i - 1] \o s[i]
    BY <2>1, <2>3
  <2>5. F(s)[1] = x /\ F(s)[2] = F(s)[2 - 1] \o s[2]
    BY <2>1, <2>4
  <2>6. F(s)[2] = x \o y
    <3>1. 2 - 1 = 1
      OBVIOUS
    <3>2. F(s)[2 - 1] = x
      BY <2>5, <3>1
    <3> QED
      BY <2>1, <2>5, <3>2, Zenon
  <2> QED
    BY <2>6 DEF s
<1> QED
  BY <1>1, <1>2, <1>3, <1>4 DEF x, y

\* What a loop has read of a section: one record for each as it was meant, and
\* its reader is behind the section if it could read all of it.
Obtained(x, p, section) ==
  /\ DOMAIN x.records = 1 .. Len(section) /\ Len(x.records) = Len(section)
  /\ \A i \in 1 .. Len(section) : AsMeant(x.records[i], section[i].record)
  /\ (\A i \in 1 .. Len(section) : Known(section[i].record)) => x.reader = p + Len(Wire(section))

\* A record that may be the last one of a section.
LastAt(b, p, w) == ReadableAt(b, p, w) /\ (Known(w.record) => LegibleAt(b, p, w))

\* No record.
LEMMA NoneRead ==
  ASSUME NEW p \in Nat
  PROVE  Obtained(At(p, <<>>), p, <<>>)
<1>1. Wire(<<>>) = <<>>
  <2> DEFINE any == [bytes |-> <<>>]
  <2>1. Wire(<<>>) = <<>> /\ Wire(<<any>>) = any.bytes /\ Wire(<<any, any>>) = any.bytes \o any.bytes
    BY WireIs
  <2> QED
    BY <2>1
<1>2. Wire(<<>>) = <<>> /\ Len(<<>>) = 0 /\ DOMAIN <<>> = 1 .. 0 /\ p + 0 = p
  BY <1>1
<1>3. \A i \in 1 .. 0 : FALSE
  OBVIOUS
<1> QED
  BY <1>2, <1>3 DEF Obtained, At

\* Sequences of one and two.
LEMMA FewRecords ==
  ASSUME NEW x, NEW y
  PROVE  /\ Append(<<>>, x) = <<x>> /\ Append(<<x>>, y) = <<x, y>>
         /\ Len(<<x>>) = 1 /\ Len(<<x, y>>) = 2
         /\ <<x>>[1] = x /\ <<x, y>>[1] = x /\ <<x, y>>[2] = y
         /\ DOMAIN <<x>> = 1 .. 1 /\ DOMAIN <<x, y>> = 1 .. 2
<1>1. Append(<<>>, x) = <<x>>
  OBVIOUS
<1>2. Append(<<x>>, y) = <<x, y>>
  <2> DEFINE s == <<x>>
             r == <<x, y>>
  <2>1. Append(s, y) = [i \in 1 .. 2 |-> IF i <= 1 THEN s[i] ELSE y]
    OBVIOUS
  <2>2. s[1] = x /\ r = [i \in 1 .. 2 |-> r[i]] /\ r[1] = x /\ r[2] = y
    OBVIOUS
  <2> HIDE DEF s, r
  <2>3. \A i \in 1 .. 2 : (IF i <= 1 THEN s[i] ELSE y) = r[i]
    <3>1. \A i \in 1 .. 2 : (i = 1 /\ i <= 1) \/ (i = 2 /\ ~ (i <= 1))
      OBVIOUS
    <3> QED
      BY <2>2, <3>1
  <2>4. Append(s, y) = r
    BY <2>1, <2>2, <2>3
  <2> QED
    BY <2>4 DEF r, s
<1>3. Len(<<x>>) = 1 /\ Len(<<x, y>>) = 2
  OBVIOUS
<1>4. <<x>>[1] = x /\ <<x, y>>[1] = x /\ <<x, y>>[2] = y
  OBVIOUS
<1>5. DOMAIN <<x>> = 1 .. 1 /\ DOMAIN <<x, y>> = 1 .. 2
  OBVIOUS
<1> QED
  BY <1>1, <1>2, <1>3, <1>4, <1>5

\* One record.
LEMMA OneRead ==
  ASSUME NEW b, NEW p, NEW w, LastAt(b, p, w)
  PROVE  Obtained(ParseRecord(b, At(p, <<>>)), p, <<w>>)
<1> DEFINE s == <<w>>
           t == ParseRecord(b, At(p, <<>>))
<1>1. Len(s) = 1 /\ s[1] = w /\ Wire(s) = w.bytes
  BY WireIs, FewRecords
<1> HIDE DEF s
<1>2. \A i \in 1 .. 1 : i = 1
  OBVIOUS
<1>3. CASE Known(w.record)
  <2>1. t = At(p + Len(w.bytes), Append(<<>>, w.record))
    BY <1>3 DEF LastAt, LegibleAt
  <2>2. t.records = <<w.record>> /\ t.reader = p + Len(w.bytes)
    BY <2>1, FewRecords DEF At
  <2> HIDE DEF t
  <2>3. Len(t.records) = 1 /\ DOMAIN t.records = 1 .. 1 /\ t.records[1] = w.record
    BY <2>2, FewRecords
  <2>4. AsMeant(w.record, w.record)
    BY DEF AsMeant
  <2> QED
    BY <1>1, <1>2, <2>2, <2>3, <2>4 DEF Obtained, s, t
<1>4. CASE ~Known(w.record)
  <2>1. PICK x, r : t = At(x, Append(<<>>, r)) /\ AsMeant(r, w.record)
    BY DEF LastAt, ReadableAt
  <2>2. t.records = <<r>>
    BY <2>1, FewRecords DEF At
  <2> HIDE DEF t
  <2>3. Len(t.records) = 1 /\ DOMAIN t.records = 1 .. 1 /\ t.records[1] = r
    BY <2>2, FewRecords
  <2>4. ~ \A i \in 1 .. 1 : Known(s[i].record)
    <3>1. 1 \in 1 .. 1
      OBVIOUS
    <3> QED
      BY <1>1, <1>4, <3>1
  <2> QED
    BY <1>1, <1>2, <2>1, <2>3, <2>4 DEF Obtained, s, t
<1> QED
  BY <1>3, <1>4

\* Two records.
LEMMA TwoRead ==
  ASSUME NEW b, NEW p \in Nat, NEW w, LegibleAt(b, p, w), w.bytes \in Seq(Nat), Known(w.record),
         NEW v, LastAt(b, p + Len(w.bytes), v), v.bytes \in Seq(Nat)
  PROVE  Obtained(ParseRecord(b, ParseRecord(b, At(p, <<>>))), p, <<w, v>>)
<1> DEFINE s == <<w, v>>
           q == p + Len(w.bytes)
           one == <<w.record>>
           t == ParseRecord(b, ParseRecord(b, At(p, <<>>)))
<1>1. Len(s) = 2 /\ s[1] = w /\ s[2] = v /\ Wire(s) = w.bytes \o v.bytes
  BY WireIs, FewRecords
<1> HIDE DEF s
<1>2. \A i \in 1 .. 2 : i = 1 \/ i = 2
  OBVIOUS
<1>3. AsMeant(w.record, w.record) /\ AsMeant(v.record, v.record)
  BY DEF AsMeant
<1>4. ParseRecord(b, At(p, <<>>)) = At(q, one)
  BY FewRecords DEF LegibleAt
<1>5. t = ParseRecord(b, At(q, one))
  BY <1>4
<1>6. q + Len(v.bytes) = p + Len(Wire(s))
  <2>1. Len(w.bytes \o v.bytes) = Len(w.bytes) + Len(v.bytes)
    BY TwoParts
  <2> DEFINE m == Len(w.bytes)
             n == Len(v.bytes)
  <2>2. m \in Nat /\ n \in Nat /\ Len(w.bytes \o v.bytes) = m + n
    BY <2>1
  <2> HIDE DEF m, n
  <2>3. p + m + n = p + (m + n)
    BY <2>2
  <2> QED
    BY <1>1, <2>2, <2>3 DEF m, n
<1> HIDE DEF t, one, q
<1>7. CASE Known(v.record)
  <2>1. t = At(q + Len(v.bytes), Append(one, v.record))
    BY <1>5, <1>7 DEF LastAt, LegibleAt, q
  <2>2. t.records = <<w.record, v.record>> /\ t.reader = q + Len(v.bytes)
    BY <2>1, FewRecords DEF At, one
  <2>3. Len(t.records) = 2 /\ DOMAIN t.records = 1 .. 2 /\ t.records[1] = w.record /\ t.records[2] = v.record
    BY <2>2, FewRecords
  <2> QED
    BY <1>1, <1>2, <1>3, <1>6, <2>2, <2>3 DEF Obtained, s, t
<1>8. CASE ~Known(v.record)
  <2>1. PICK x, r : t = At(x, Append(one, r)) /\ AsMeant(r, v.record)
    BY <1>5 DEF LastAt, ReadableAt, q
  <2>2. t.records = <<w.record, r>>
    BY <2>1, FewRecords DEF At, one
  <2>3. Len(t.records) = 2 /\ DOMAIN t.records = 1 .. 2 /\ t.records[1] = w.record /\ t.records[2] = r
    BY <2>2, FewRecords
  <2>4. ~ \A i \in 1 .. 2 : Known(s[i].record)
    <3>1. 2 \in 1 .. 2
      OBVIOUS
    <3> QED
      BY <1>1, <1>8, <3>1
  <2> QED
    BY <1>1, <1>2, <1>3, <2>1, <2>3, <2>4 DEF Obtained, s, t
<1> QED
  BY <1>7, <1>8

-----------------------------------------------------------------------------
(* Names in a reply.                                                         *)

\* Every way to write a name is a text.
LEMMA EncodingType ==
  ASSUME NEW ls \in Seq(Seq(Nat)), NEW places, \A pl \in places : pl.at \in Nat,
         NEW e \in Encodings(ls, places)
  PROVE  e \in Seq(Nat) /\ Len(e) \in Nat
<1>1. CASE InFull(e, ls)
  <2> DEFINE w == WireLabels(ls)
  <2>1. w \in Seq(Nat) /\ <<0>> \in Seq(Nat)
    BY TextTypes
  <2> HIDE DEF w
  <2>2. w \o <<0>> \in Seq(Nat)
    BY <2>1, TwoParts
  <2> QED
    BY <1>1, <2>2 DEF InFull, w
<1>2. CASE \E k \in 0 .. Len(ls) - 1 : \E pl \in places :
             pl.labels = SubSeq(ls, k + 1, Len(ls)) /\ ByPointer(e, ls, k, pl.at)
  <2>1. PICK k \in 0 .. Len(ls) - 1, pl \in places : ByPointer(e, ls, k, pl.at)
    BY <1>2
  <2> DEFINE x == SubSeq(ls, 1, k)
             w == WireLabels(x)
             n == Pointer * 256 + pl.at
             t == Short(n)
  <2>2. k \in 0 .. Len(ls) /\ Len(ls) \in Nat
    BY <2>1
  <2>3. x \in Seq(Seq(Nat))
    BY <2>2, WireSplit
  <2> HIDE DEF x
  <2>4. w \in Seq(Nat)
    BY <2>3, TextTypes
  <2>5. n \in Nat
    BY <2>1 DEF Pointer
  <2> HIDE DEF n, w
  <2>6. t \in Seq(Nat)
    BY <2>5, ShortIs
  <2> HIDE DEF t
  <2>7. w \o t \in Seq(Nat)
    BY <2>4, <2>6, TwoParts
  <2>8. e = w \o t
    BY <2>1 DEF ByPointer, PointerTo, w, x, t, n
  <2> QED
    BY <2>7, <2>8
<1> QED
  BY <1>1, <1>2, EncodingIs

\* In a message, pointers to certain places lead to the ends of their names in
\* no more than M turns.
Pointing(b, places, M) ==
  /\ M \in Nat
  /\ \A pl \in places : pl.at \in Nat /\ Leads(b, Place(pl.labels, pl.at), M)

\* What read_name makes of a name, and that a pointer may lead to it.
LEMMA NameIsThere ==
  ASSUME NEW b, NEW places, NEW M, Pointing(b, places, M),
         NEW name, Readable(name), NEW e \in Encodings(name, places),
         NEW p, Stands(b, p, e), Len(e) + M <= Len(b)
  PROVE  Reads(b, p, name, Len(e)) /\ Leads(b, Place(name, p - 1), Len(e) + M)
<1>1. M \in Nat /\ p \in Nat /\ p # 0
  BY DEF Pointing, Stands, Places
<1>2. /\ Reads(b, p, name, Len(e))
      /\ \E k \in Nat : k <= Len(e) + M /\ Spelled(b, p, WireLabels(name), k)
  BY <1>1, ReadsName DEF Pointing
<1>3. p - 1 \in Nat /\ p - 1 + 1 = p
  BY <1>1
<1>4. name \in Seq(Seq(Nat))
  BY DEF Readable
<1>5. Leads(b, Place(name, p - 1), Len(e) + M)
  BY <1>2, <1>3, <1>4 DEF Leads, Place
<1> QED
  BY <1>2, <1>5

\* Pointers into the question are numbers.
LEMMA PlacesAreNat ==
  ASSUME NEW q, NEW ls, Question(q, ls)
  PROVE  ls \in Seq(Seq(Nat)) /\ \A pl \in QuestionPlaces(ls) : pl.at \in Nat
<1>1. ls \in Seq(Seq(Nat))
  BY DEF Question, Readable
<1>2. ASSUME NEW j \in 0 .. Len(ls) - 1
      PROVE  HeaderLen + Len(WireLabels(SubSeq(ls, 1, j))) \in Nat
  <2> DEFINE x == SubSeq(ls, 1, j)
             w == WireLabels(x)
  <2>1. j \in 0 .. Len(ls) /\ Len(ls) \in Nat
    BY <1>1
  <2>2. x \in Seq(Seq(Nat))
    BY <1>1, <2>1, WireSplit
  <2> HIDE DEF x
  <2>3. w \in Seq(Nat)
    BY <2>2, TextTypes
  <2> HIDE DEF w
  <2>4. HeaderLen + Len(w) \in Nat
    BY <2>3 DEF HeaderLen
  <2> QED
    BY <2>4 DEF w, x
<1> QED
  BY <1>1, <1>2 DEF QuestionPlaces, Place

\* Pointers into the question lead to the ends of names.
LEMMA QuestionPoints ==
  ASSUME NEW q, NEW ls, Question(q, ls), NEW b, Stands(b, HeaderLen + 1, q)
  PROVE  Pointing(b, QuestionPlaces(ls), Len(q))
<1>1. Len(q) \in Nat
  BY DEF Stands
<1>2. \A pl \in QuestionPlaces(ls) : pl.at \in Nat /\ Leads(b, Place(pl.labels, pl.at), Len(q))
  BY PlacesAreNat, QuestionLeads
<1> QED
  BY <1>1, <1>2 DEF Pointing

\* An address record, of a name however written.
LEMMA AddressThere ==
  ASSUME NEW b, NEW places, NEW M, Pointing(b, places, M),
         NEW name, Readable(name), NEW e \in Encodings(name, places),
         NEW p, NEW w, w = AddressOf(name, e), Stands(b, p, w.bytes), Len(w.bytes) + M <= Len(b)
  PROVE  LegibleAt(b, p, w)
<1>1. /\ name \in Seq(Seq(Nat)) /\ M \in Nat /\ Len(b) \in Nat
      /\ \A pl \in places : pl.at \in Nat
  BY DEF Readable, Pointing, Stands
<1>2. e \in Seq(Nat) /\ Len(e) \in Nat
  BY <1>1, EncodingType
<1>3. IsWritten(w, name, e, QTYPE_A, Address, Address)
  BY <1>2, RecordConstants, WrittenIs DEF AddressOf
<1>4. Stands(b, p, e)
  BY <1>2, <1>3, RecordConstants, RecordStands DEF IsWritten
<1>5. Len(e) + M <= Len(b)
  BY <1>1, <1>2, <1>3, RecordConstants DEF IsWritten
<1>6. Reads(b, p, name, Len(e))
  BY <1>4, <1>5, NameIsThere
<1> QED
  BY <1>2, <1>6, AddressIsRead

\* A record of another type.
LEMMA OtherThere ==
  ASSUME NEW b, NEW places, NEW M, Pointing(b, places, M),
         NEW name, Readable(name), NEW e \in Encodings(name, places),
         NEW p, NEW w, w = Other(name, e), Stands(b, p, w.bytes), Len(w.bytes) + M <= Len(b)
  PROVE  ReadableAt(b, p, w)
<1>1. /\ name \in Seq(Seq(Nat)) /\ M \in Nat /\ Len(b) \in Nat
      /\ \A pl \in places : pl.at \in Nat
  BY DEF Readable, Pointing, Stands
<1>2. e \in Seq(Nat) /\ Len(e) \in Nat
  BY <1>1, EncodingType
<1>3. IsWritten(w, name, e, OtherType, OtherData, OtherData)
  BY <1>2, RecordConstants, WrittenIs DEF Other
<1>4. Stands(b, p, e)
  BY <1>2, <1>3, RecordConstants, RecordStands DEF IsWritten
<1>5. Len(e) + M <= Len(b)
  BY <1>1, <1>2, <1>3, RecordConstants DEF IsWritten
<1>6. Reads(b, p, name, Len(e))
  BY <1>4, <1>5, NameIsThere
<1> QED
  BY <1>2, <1>6, OtherIsRead

\* An alias or a name server, and that a pointer may lead to its rdata.
LEMMA NameThere ==
  ASSUME NEW b, NEW places, NEW M, Pointing(b, places, M),
         NEW name, Readable(name), NEW e \in Encodings(name, places),
         NEW to, Readable(to), NEW f \in Encodings(to, places),
         NEW type \in {QTYPE_NS, QTYPE_CNAME},
         NEW p, NEW w, w = NameOf(name, e, type, to, f), Stands(b, p, w.bytes),
         Len(w.bytes) + M <= Len(b), NEW y, y = p + Len(e) + 10
  PROVE  LegibleAt(b, p, w) /\ Leads(b, Place(to, y - 1), Len(f) + M)
<1>1. /\ name \in Seq(Seq(Nat)) /\ to \in Seq(Seq(Nat)) /\ M \in Nat /\ Len(b) \in Nat
      /\ \A pl \in places : pl.at \in Nat
  BY DEF Readable, Pointing, Stands
<1>2. e \in Seq(Nat) /\ Len(e) \in Nat /\ f \in Seq(Nat) /\ Len(f) \in Nat
  BY <1>1, EncodingType
<1>3. type \in Nat /\ type # QTYPE_A
  BY RecordConstants
<1>4. IsWritten(w, name, e, type, Dotted(to), f)
  BY <1>2, <1>3, WrittenIs DEF NameOf
<1>5. Stands(b, p, e) /\ Stands(b, y, f)
  <2>1. Stands(b, p, e \o RData(type, f))
    BY <1>4 DEF IsWritten
  <2>2. Stands(b, p, e) /\ Stands(b, p + Len(e) + 10, f)
    BY <1>2, <1>3, <2>1, RecordStands
  <2> QED
    BY <2>2
<1>6. Len(e) + M <= Len(b) /\ Len(f) + M <= Len(b)
  BY <1>1, <1>2, <1>4 DEF IsWritten
<1>7. Reads(b, p, name, Len(e))
  BY <1>5, <1>6, NameIsThere
<1>8. Reads(b, y, to, Len(f)) /\ Leads(b, Place(to, y - 1), Len(f) + M)
  BY <1>5, <1>6, NameIsThere
<1>9. LegibleAt(b, p, w)
  <2>1. Reads(b, p + Len(e) + 10, to, Len(f))
    BY <1>8
  <2> QED
    BY <1>2, <1>3, <1>7, <2>1, NameIsRead
<1> QED
  BY <1>8, <1>9

\* Records are made of bytes, and most of them are known.
LEMMA RecordText ==
  ASSUME NEW name \in Seq(Seq(Nat)), NEW places, \A pl \in places : pl.at \in Nat,
         NEW e \in Encodings(name, places)
  PROVE  /\ AddressOf(name, e).bytes \in Seq(Nat) /\ Known(AddressOf(name, e).record)
         /\ Other(name, e).bytes \in Seq(Nat) /\ ~Known(Other(name, e).record)
<1>1. e \in Seq(Nat)
  BY EncodingType
<1>2. IsWritten(AddressOf(name, e), name, e, QTYPE_A, Address, Address)
  BY <1>1, RecordConstants, WrittenIs DEF AddressOf
<1>3. IsWritten(Other(name, e), name, e, OtherType, OtherData, OtherData)
  BY <1>1, RecordConstants, WrittenIs DEF Other
<1> QED
  BY <1>2, <1>3, RecordConstants DEF IsWritten, Known, Record

\* So are those whose rdata is a name.
LEMMA NameText ==
  ASSUME NEW name \in Seq(Seq(Nat)), NEW places, \A pl \in places : pl.at \in Nat,
         NEW e \in Encodings(name, places), NEW to \in Seq(Seq(Nat)),
         NEW f \in Encodings(to, places), NEW type \in {QTYPE_NS, QTYPE_CNAME},
         NEW w, w = NameOf(name, e, type, to, f)
  PROVE  w.bytes \in Seq(Nat) /\ Known(w.record) /\ Len(w.bytes) = Len(e) + 10 + Len(f)
<1>1. e \in Seq(Nat) /\ f \in Seq(Nat)
  BY EncodingType
<1>2. type \in Nat /\ type # OtherType
  BY RecordConstants
<1>3. IsWritten(w, name, e, type, Dotted(to), f)
  BY <1>1, <1>2, WrittenIs DEF NameOf
<1> QED
  BY <1>2, <1>3 DEF IsWritten, Known, Record

-----------------------------------------------------------------------------
(* The records of a reply.                                                   *)

\* The names a server knows besides the host's are names: at least one label,
\* each of 1 to 63 characters, none of which is a terminator or looks like a
\* pointer.
ProperAliases ==
  \A to \in Aliases :
    /\ to \in Seq(Seq(1 .. Pointer - 1)) /\ to # <<>>
    /\ \A k \in 1 .. Len(to) : Len(to[k]) \in 1 .. 63

\* Two plain texts make one.
LEMMA PlainBoth ==
  ASSUME NEW u, NEW v, Plain(u), Plain(v)
  PROVE  Plain(u \o v)
<1> DEFINE m == Len(u)
           n == Len(v)
           w == u \o v
<1>1. /\ w \in Seq(Nat) /\ Len(w) = m + n /\ m \in Nat /\ n \in Nat
      /\ \A i \in 1 .. m : w[i] = u[i]
      /\ \A i \in 1 .. n : w[m + i] = v[i]
  BY TwoParts DEF Plain
<1>2. (\A i \in 1 .. m : u[i] \in 1 .. Pointer - 1) /\ (\A i \in 1 .. n : v[i] \in 1 .. Pointer - 1)
  BY DEF Plain
<1> HIDE DEF w, m, n
<1>3. ASSUME NEW i \in 1 .. m + n PROVE w[i] \in 1 .. Pointer - 1
  <2>1. CASE i \in 1 .. m
    BY <1>1, <1>2, <2>1
  <2>2. CASE i \notin 1 .. m
    <3> DEFINE j == i - m
    <3>1. j \in 1 .. n /\ i = m + j
      BY <1>1, <2>2
    <3> HIDE DEF j
    <3> QED
      BY <1>1, <1>2, <3>1
  <2> QED
    BY <2>1, <2>2
<1>4. \A i \in 1 .. Len(w) : w[i] \in 1 .. Pointer - 1
  BY <1>1, <1>3
<1> QED
  BY <1>1, <1>4 DEF Plain, w

\* A sequence over a smaller set is one over a larger.
LEMMA SequenceOver ==
  ASSUME NEW S, NEW T, S \subseteq T, NEW x \in Seq(S)
  PROVE  x \in Seq(T) /\ \A i \in 1 .. Len(x) : x[i] \in S
<1>1. Len(x) \in Nat /\ \A i \in 1 .. Len(x) : x[i] \in S
  OBVIOUS
<1>2. x = [i \in 1 .. Len(x) |-> x[i]]
  OBVIOUS
<1> DEFINE n == Len(x)
<1>3. x \in [1 .. n -> T]
  BY <1>1, <1>2
<1> HIDE DEF n
<1>4. n \in Nat
  BY <1>1 DEF n
<1>5. x \in Seq(T)
  BY <1>3, <1>4
<1> QED
  BY <1>1, <1>5

\* A label with its length in front.
LEMMA PlainLabel ==
  ASSUME NEW x \in Seq(1 .. Pointer - 1), Len(x) \in 1 .. 63
  PROVE  x \in Seq(Nat) /\ Plain(<<Len(x)>> \o x)
<1>1. x \in Seq(Nat) /\ \A i \in 1 .. Len(x) : x[i] \in 1 .. Pointer - 1
  <2> DEFINE C == 1 .. Pointer - 1
  <2>1. x \in Seq(C) /\ C \subseteq Nat
    OBVIOUS
  <2> HIDE DEF C
  <2>2. x \in Seq(Nat) /\ \A i \in 1 .. Len(x) : x[i] \in C
    BY <2>1, SequenceOver
  <2> QED
    BY <2>2 DEF C
<1>2. Plain(x)
  BY <1>1 DEF Plain
<1> DEFINE n == Len(x)
           u == <<n>>
<1>3. n \in 1 .. Pointer - 1 /\ n \in Nat
  BY DEF Pointer
<1> HIDE DEF n
<1>4. u \in Seq(Nat) /\ Len(u) = 1 /\ u[1] = n
  BY <1>3
<1> HIDE DEF u
<1>5. \A i \in 1 .. Len(u) : u[i] \in 1 .. Pointer - 1
  <2>1. \A i \in 1 .. 1 : i = 1
    OBVIOUS
  <2> QED
    BY <1>3, <1>4, <2>1
<1>6. Plain(u)
  BY <1>4, <1>5 DEF Plain
<1>7. Plain(u \o x)
  BY <1>2, <1>6, PlainBoth
<1> QED
  BY <1>1, <1>7 DEF u, n

\* read_name can read such a name.
LEMMA AliasIsReadable ==
  ASSUME ProperAliases, NEW to \in Aliases
  PROVE  Readable(to)
<1>1. /\ to \in Seq(Seq(1 .. Pointer - 1))
      /\ \A k \in 1 .. Len(to) : Len(to[k]) \in 1 .. 63 /\ to[k] \in Seq(1 .. Pointer - 1)
  BY DEF ProperAliases
<1>2. \A k \in 1 .. Len(to) : to[k] \in Seq(Nat) /\ Plain(<<Len(to[k])>> \o to[k])
  BY <1>1, PlainLabel
<1>3. to \in Seq(Seq(Nat))
  <2>1. Len(to) \in Nat /\ to = [k \in 1 .. Len(to) |-> to[k]]
    BY <1>1
  <2>2. to \in [1 .. Len(to) -> Seq(Nat)]
    BY <1>2, <2>1
  <2> QED
    BY <2>1, <2>2
<1>4. NoEmpty(to)
  <2>1. ASSUME NEW k \in 1 .. Len(to), to[k] = <<>> PROVE FALSE
    <3>1. Len(<<>>) \in 1 .. 63
      BY <1>1, <2>1
    <3>2. Len(<<>>) = 0
      OBVIOUS
    <3> QED
      BY <3>1, <3>2
  <2> QED
    BY <2>1 DEF NoEmpty
<1> DEFINE S == {k \in Nat : k <= Len(to) => Plain(WireLabels(SubSeq(to, 1, k)))}
<1>5. 0 \in S
  <2>1. SubSeq(to, 1, 0) = <<>>
    BY <1>3
  <2>2. Plain(<<>>)
    BY DEF Plain
  <2> QED
    BY <2>1, <2>2, WireLabelsEmpty
<1>6. ASSUME NEW j \in Nat, j \in S PROVE j + 1 \in S
  <2> DEFINE k == j + 1
             u == SubSeq(to, 1, j)
             x == to[k]
  <2>1. SUFFICES ASSUME k <= Len(to) PROVE Plain(WireLabels(SubSeq(to, 1, k)))
    OBVIOUS
  <2>2. k \in 1 .. Len(to) /\ j = k - 1 /\ j <= Len(to)
    BY <1>3, <2>1
  <2>3. SubSeq(to, 1, k) = Append(u, x) /\ u \in Seq(Seq(Nat)) /\ x \in Seq(Nat)
    BY <1>3, <2>2, PrefixAppend
  <2>4. Plain(WireLabels(u)) /\ Plain(<<Len(x)>> \o x)
    BY <1>2, <1>6, <2>2
  <2> HIDE DEF u, x, k
  <2>5. WireLabels(Append(u, x)) = WireStep(WireLabels(u), x)
    BY <2>3, WireLabelsAppend
  <2>6. WireStep(WireLabels(u), x) = WireLabels(u) \o (<<Len(x)>> \o x)
    <3> DEFINE w == WireLabels(u)
               l == <<Len(x)>>
    <3>1. w \in Seq(Nat) /\ l \in Seq(Nat)
      BY <2>3, TextTypes
    <3>2. WireStep(w, x) = (w \o l) \o x
      BY DEF WireStep
    <3> HIDE DEF w, l
    <3>3. (w \o l) \o x = w \o (l \o x)
      BY <2>3, <3>1, Associates
    <3> QED
      BY <3>2, <3>3 DEF w, l
  <2> QED
    BY <2>3, <2>4, <2>5, <2>6, PlainBoth
<1> HIDE DEF S
<1>7. Nat \subseteq S
  BY <1>5, <1>6, Induction
<1>8. Len(to) \in Nat /\ SubSeq(to, 1, Len(to)) = to
  BY <1>3
<1>9. Plain(WireLabels(to))
  <2> DEFINE n == Len(to)
  <2>1. n \in S /\ n <= n /\ SubSeq(to, 1, n) = to
    BY <1>7, <1>8
  <2> HIDE DEF n
  <2>2. n <= Len(to)
    BY <2>1 DEF n
  <2> QED
    BY <2>1, <2>2 DEF S
<1> QED
  BY <1>3, <1>4, <1>9 DEF Readable

\* The sections of answers that a server gives for a name.
AnswersFor(ls, s) ==
  LET E == Encodings(ls, QuestionPlaces(ls))
  IN \/ s = <<>>
     \/ \E e \in E : s = <<AddressOf(ls, e)>>
     \/ \E e, f \in E : s = <<AddressOf(ls, e), AddressOf(ls, f)>>
     \/ \E e \in E : s = <<AddressOf(ls, e), Other(ls, e)>>
     \/ \E to \in Aliases, e \in E :
          \E f, g \in Encodings(to, QuestionPlaces(ls)) :
            s = <<NameOf(ls, e, QTYPE_CNAME, to, f), AddressOf(to, g)>>

\* Those of the model are such.
LEMMA AnswersAre ==
  ASSUME NEW ls, ls = Understood.labels, NEW s \in Answers
  PROVE  AnswersFor(ls, s)
<1> DEFINE E == Encodings(ls, QuestionPlaces(ls))
<1>1. InQuestion = QuestionPlaces(ls)
  BY DEF InQuestion, QuestionPlaces
<1>2. s \in {<<>>}
     \cup {<<AddressOf(ls, e)>> : e \in E}
     \cup {<<AddressOf(ls, e), AddressOf(ls, f)>> : e, f \in E}
     \cup {<<AddressOf(ls, e), Other(ls, e)>> : e \in E}
     \cup UNION {{<<NameOf(ls, e, QTYPE_CNAME, to, f), AddressOf(to, g)>> :
                    e \in E, f, g \in Encodings(to, QuestionPlaces(ls))} : to \in Aliases}
  BY <1>1 DEF Answers
<1> QED
  BY <1>2 DEF AnswersFor

\* A section of no more than two records, and all of them known if there are
\* not two.
Section(s) ==
  /\ Len(s) \in 0 .. 2 /\ Wire(s) \in Seq(Nat)
  /\ Len(s) < 2 => \A i \in 1 .. Len(s) : Known(s[i].record)

\* What the loop reads of it at a place.
SectionRead(b, p, s) == Obtained(RecordTurns(b, p, Len(s)), p, s)

\* A section without records.
LEMMA NoSection ==
  Section(<<>>) /\ \A b, p : p \in Nat => SectionRead(b, p, <<>>)
<1>1. Len(<<>>) = 0 /\ Wire(<<>>) = <<>> /\ <<>> \in Seq(Nat)
  <2> DEFINE any == [bytes |-> <<>>]
  <2>1. Wire(<<>>) = <<>> /\ Wire(<<any>>) = any.bytes /\ Wire(<<any, any>>) = any.bytes \o any.bytes
    BY WireIs
  <2> QED
    BY <2>1
<1>2. Section(<<>>)
  <2> DEFINE s == <<>>
  <2>1. Len(s) = 0 /\ Wire(s) \in Seq(Nat)
    BY <1>1
  <2> HIDE DEF s
  <2>2. \A i \in 1 .. Len(s) : Known(s[i].record)
    BY <2>1
  <2>3. Len(s) \in 0 .. 2
    BY <2>1
  <2>4. Section(s)
    BY <2>1, <2>2, <2>3 DEF Section
  <2> QED
    BY <2>4 DEF s
<1>3. ASSUME NEW b, NEW p \in Nat PROVE SectionRead(b, p, <<>>)
  <2>1. RecordTurns(b, p, Len(<<>>)) = At(p, <<>>)
    BY <1>1 DEF RecordTurns
  <2>2. Obtained(At(p, <<>>), p, <<>>)
    BY NoneRead
  <2> QED
    BY <2>1, <2>2 DEF SectionRead
<1> QED
  BY <1>2, <1>3

\* A section of one record.
LEMMA OneSection ==
  ASSUME NEW w, w.bytes \in Seq(Nat), Known(w.record)
  PROVE  Section(<<w>>) /\ \A b, p : LastAt(b, p, w) => SectionRead(b, p, <<w>>)
<1>1. Len(<<w>>) = 1 /\ <<w>>[1] = w /\ Wire(<<w>>) = w.bytes
  BY WireIs, FewRecords
<1> DEFINE s == <<w>>
<1> HIDE DEF s
<1>2. Len(s) = 1 /\ s[1] = w /\ Wire(s) = w.bytes
  BY <1>1 DEF s
<1>3. Section(s)
  <2>1. \A i \in 1 .. 1 : i = 1
    OBVIOUS
  <2> QED
    BY <1>2, <2>1 DEF Section
<1>4. ASSUME NEW b, NEW p, LastAt(b, p, w) PROVE SectionRead(b, p, s)
  <2>1. RecordTurns(b, p, Len(s)) = ParseRecord(b, At(p, <<>>))
    BY <1>2 DEF RecordTurns
  <2>2. Obtained(ParseRecord(b, At(p, <<>>)), p, s)
    BY <1>4, OneRead DEF s
  <2> QED
    BY <2>1, <2>2 DEF SectionRead
<1> QED
  BY <1>3, <1>4 DEF s

\* A section of two records.
LEMMA TwoSection ==
  ASSUME NEW w, w.bytes \in Seq(Nat), Known(w.record), NEW v, v.bytes \in Seq(Nat)
  PROVE  /\ Section(<<w, v>>)
         /\ \A b, p : p \in Nat /\ LegibleAt(b, p, w) /\ LastAt(b, p + Len(w.bytes), v)
                        => SectionRead(b, p, <<w, v>>)
<1>1. /\ Len(<<w, v>>) = 2 /\ Wire(<<w, v>>) = w.bytes \o v.bytes
      /\ w.bytes \o v.bytes \in Seq(Nat)
  <2>1. Wire(<<w, v>>) = w.bytes \o v.bytes
    BY WireIs
  <2>2. Len(<<w, v>>) = 2
    BY FewRecords
  <2>3. w.bytes \o v.bytes \in Seq(Nat)
    BY TwoParts
  <2> QED
    BY <2>1, <2>2, <2>3
<1> DEFINE s == <<w, v>>
<1> HIDE DEF s
<1>2. Len(s) = 2 /\ Wire(s) \in Seq(Nat)
  BY <1>1 DEF s
<1>3. Section(s)
  BY <1>2 DEF Section
<1>4. ASSUME NEW b, NEW p \in Nat, LegibleAt(b, p, w), LastAt(b, p + Len(w.bytes), v)
      PROVE  SectionRead(b, p, s)
  <2>1. RecordTurns(b, p, Len(s)) = ParseRecord(b, ParseRecord(b, At(p, <<>>)))
    BY <1>2 DEF RecordTurns
  <2>2. Obtained(ParseRecord(b, ParseRecord(b, At(p, <<>>))), p, s)
    BY <1>4, TwoRead DEF s
  <2> QED
    BY <2>1, <2>2 DEF SectionRead
<1> QED
  BY <1>3, <1>4 DEF s

\* The answers are a section, if they say what is in the question.
LEMMA AnswersText ==
  ASSUME ProperAliases, NEW q, NEW ls, Question(q, ls), NEW s, AnswersFor(ls, s)
  PROVE  Section(s)
<1> DEFINE P == QuestionPlaces(ls)
           E == Encodings(ls, P)
<1>1. ls \in Seq(Seq(Nat)) /\ \A pl \in P : pl.at \in Nat
  BY PlacesAreNat
<1>2. \A to \in Aliases : to \in Seq(Seq(Nat))
  BY AliasIsReadable DEF Readable
<1> HIDE DEF P
<1>3. \A e \in E : /\ AddressOf(ls, e).bytes \in Seq(Nat) /\ Known(AddressOf(ls, e).record)
                   /\ Other(ls, e).bytes \in Seq(Nat)
  BY <1>1, RecordText
<1>4. CASE s = <<>>
  BY <1>4, NoSection
<1>5. CASE \E e \in E : s = <<AddressOf(ls, e)>>
  BY <1>3, <1>5, OneSection
<1>6. CASE \E e, f \in E : s = <<AddressOf(ls, e), AddressOf(ls, f)>>
  BY <1>3, <1>6, TwoSection
<1>7. CASE \E e \in E : s = <<AddressOf(ls, e), Other(ls, e)>>
  BY <1>3, <1>7, TwoSection
<1>8. CASE \E to \in Aliases, e \in E : \E f, g \in Encodings(to, P) :
             s = <<NameOf(ls, e, QTYPE_CNAME, to, f), AddressOf(to, g)>>
  <2>1. PICK to \in Aliases, e \in E : \E f, g \in Encodings(to, P) :
             s = <<NameOf(ls, e, QTYPE_CNAME, to, f), AddressOf(to, g)>>
    BY <1>8
  <2>2. PICK f \in Encodings(to, P), g \in Encodings(to, P) :
             s = <<NameOf(ls, e, QTYPE_CNAME, to, f), AddressOf(to, g)>>
    BY <2>1
  <2> DEFINE w == NameOf(ls, e, QTYPE_CNAME, to, f)
             v == AddressOf(to, g)
  <2>3. v.bytes \in Seq(Nat)
    BY <1>1, <1>2, RecordText
  <2>4. w.bytes \in Seq(Nat) /\ Known(w.record)
    <3>1. QTYPE_CNAME \in {QTYPE_NS, QTYPE_CNAME}
      OBVIOUS
    <3> QED
      BY <1>1, <1>2, <3>1, NameText
  <2> HIDE DEF w, v
  <2> QED
    BY <2>2, <2>3, <2>4, TwoSection DEF w, v
<1> QED
  BY <1>4, <1>5, <1>6, <1>7, <1>8 DEF AnswersFor, P

\* Two records that stand one behind the other.
LEMMA TwoStand ==
  ASSUME NEW w, w.bytes \in Seq(Nat), NEW v, v.bytes \in Seq(Nat),
         NEW b, NEW p, Stands(b, p, Wire(<<w, v>>)), NEW M \in Nat,
         Len(Wire(<<w, v>>)) + M <= Len(b)
  PROVE  /\ p \in Nat /\ Stands(b, p, w.bytes) /\ Stands(b, p + Len(w.bytes), v.bytes)
         /\ Len(w.bytes) + M <= Len(b) /\ Len(v.bytes) + M <= Len(b)
<1>1. Wire(<<w, v>>) = w.bytes \o v.bytes
  BY WireIs
<1>2. Stands(b, p, w.bytes) /\ Stands(b, p + Len(w.bytes), v.bytes)
  BY <1>1, StandsInParts
<1>3. p \in Nat /\ Len(b) \in Nat
  BY DEF Stands, Places
<1>4. Len(w.bytes \o v.bytes) = Len(w.bytes) + Len(v.bytes)
  BY TwoParts
<1> DEFINE m == Len(w.bytes)
           n == Len(v.bytes)
           k == Len(b)
<1>5. m \in Nat /\ n \in Nat /\ k \in Nat /\ m + n + M <= k
  <2>1. m \in Nat /\ n \in Nat
    OBVIOUS
  <2>2. Len(Wire(<<w, v>>)) = m + n
    BY <1>1, <1>4
  <2> HIDE DEF m, n
  <2> QED
    BY <1>3, <2>1, <2>2
<1> HIDE DEF m, n, k
<1>6. m + M <= k /\ n + M <= k
  BY <1>5
<1> QED
  BY <1>2, <1>3, <1>6 DEF m, n, k

\* The loop gets the answers, wherever they stand in a message with the
\* question.
LEMMA AnswersRead ==
  ASSUME ProperAliases, NEW q, NEW ls, Question(q, ls), NEW s, AnswersFor(ls, s),
         NEW b, Stands(b, HeaderLen + 1, q), NEW p, Stands(b, p, Wire(s)),
         Len(Wire(s)) + Len(q) <= Len(b)
  PROVE  SectionRead(b, p, s)
<1> DEFINE P == QuestionPlaces(ls)
           E == Encodings(ls, P)
           M == Len(q)
<1>1. ls \in Seq(Seq(Nat)) /\ \A pl \in P : pl.at \in Nat
  BY PlacesAreNat
<1>2. \A to \in Aliases : Readable(to) /\ to \in Seq(Seq(Nat))
  BY AliasIsReadable DEF Readable
<1>3. Pointing(b, P, M) /\ Readable(ls)
  BY QuestionPoints DEF Question
<1>4. M \in Nat /\ p \in Nat
  BY DEF Stands, Places
<1> HIDE DEF P, M
<1>5. \A e \in E : /\ AddressOf(ls, e).bytes \in Seq(Nat) /\ Known(AddressOf(ls, e).record)
                   /\ Other(ls, e).bytes \in Seq(Nat) /\ ~Known(Other(ls, e).record)
  BY <1>1, RecordText
<1>6. ASSUME NEW name, Readable(name), NEW e \in Encodings(name, P), NEW x,
             Stands(b, x, AddressOf(name, e).bytes), Len(AddressOf(name, e).bytes) + M <= Len(b)
      PROVE  LegibleAt(b, x, AddressOf(name, e)) /\ LastAt(b, x, AddressOf(name, e))
  <2>1. LegibleAt(b, x, AddressOf(name, e))
    BY <1>3, <1>6, AddressThere
  <2> QED
    BY <2>1, LegibleIsReadable DEF LastAt
<1>7. CASE s = <<>>
  BY <1>4, <1>7, NoSection
<1>8. CASE \E e \in E : s = <<AddressOf(ls, e)>>
  <2>1. PICK e \in E : s = <<AddressOf(ls, e)>>
    BY <1>8
  <2> DEFINE w == AddressOf(ls, e)
  <2>2. w.bytes \in Seq(Nat) /\ Known(w.record)
    BY <1>5
  <2>3. Wire(<<w>>) = w.bytes
    BY WireIs
  <2>4. LastAt(b, p, w)
    BY <1>3, <1>6, <2>1, <2>3 DEF M
  <2> HIDE DEF w
  <2>5. SectionRead(b, p, <<w>>)
    BY <2>2, <2>4, OneSection
  <2> QED
    BY <2>1, <2>5 DEF w
<1>9. CASE \E e, f \in E : s = <<AddressOf(ls, e), AddressOf(ls, f)>>
  <2>1. PICK e \in E, f \in E : s = <<AddressOf(ls, e), AddressOf(ls, f)>>
    BY <1>9
  <2> DEFINE w == AddressOf(ls, e)
             v == AddressOf(ls, f)
  <2>2. w.bytes \in Seq(Nat) /\ Known(w.record) /\ v.bytes \in Seq(Nat)
    BY <1>5
  <2>3. /\ Stands(b, p, w.bytes) /\ Stands(b, p + Len(w.bytes), v.bytes)
        /\ Len(w.bytes) + M <= Len(b) /\ Len(v.bytes) + M <= Len(b)
    <3> HIDE DEF w, v
    <3> QED
      BY <1>4, <2>1, <2>2, TwoStand DEF w, v, M
  <2>4. LegibleAt(b, p, w) /\ LastAt(b, p + Len(w.bytes), v)
    BY <1>3, <1>6, <2>3
  <2> HIDE DEF w, v
  <2>5. SectionRead(b, p, <<w, v>>)
    BY <1>4, <2>2, <2>4, TwoSection
  <2> QED
    BY <2>1, <2>5 DEF w, v
<1>10. CASE \E e \in E : s = <<AddressOf(ls, e), Other(ls, e)>>
  <2>1. PICK e \in E : s = <<AddressOf(ls, e), Other(ls, e)>>
    BY <1>10
  <2> DEFINE w == AddressOf(ls, e)
             v == Other(ls, e)
  <2>2. w.bytes \in Seq(Nat) /\ Known(w.record) /\ v.bytes \in Seq(Nat) /\ ~Known(v.record)
    BY <1>5
  <2>3. /\ Stands(b, p, w.bytes) /\ Stands(b, p + Len(w.bytes), v.bytes)
        /\ Len(w.bytes) + M <= Len(b) /\ Len(v.bytes) + M <= Len(b)
    <3> HIDE DEF w, v
    <3> QED
      BY <1>4, <2>1, <2>2, TwoStand DEF w, v, M
  <2>4. LegibleAt(b, p, w)
    BY <1>3, <1>6, <2>3
  <2>5. ReadableAt(b, p + Len(w.bytes), v)
    <3> DEFINE x == p + Len(w.bytes)
    <3>1. Stands(b, x, v.bytes)
      BY <2>3
    <3> HIDE DEF x
    <3>2. ReadableAt(b, x, v)
      BY <1>3, <2>3, <3>1, OtherThere
    <3> QED
      BY <3>2 DEF x
  <2> HIDE DEF w, v
  <2>6. LastAt(b, p + Len(w.bytes), v)
    BY <2>2, <2>5 DEF LastAt
  <2>7. SectionRead(b, p, <<w, v>>)
    BY <1>4, <2>2, <2>4, <2>6, TwoSection
  <2> QED
    BY <2>1, <2>7 DEF w, v
<1>11. CASE \E to \in Aliases, e \in E : \E f, g \in Encodings(to, P) :
             s = <<NameOf(ls, e, QTYPE_CNAME, to, f), AddressOf(to, g)>>
  <2>1. PICK to \in Aliases, e \in E : \E f, g \in Encodings(to, P) :
             s = <<NameOf(ls, e, QTYPE_CNAME, to, f), AddressOf(to, g)>>
    BY <1>11
  <2>2. PICK f \in Encodings(to, P), g \in Encodings(to, P) :
             s = <<NameOf(ls, e, QTYPE_CNAME, to, f), AddressOf(to, g)>>
    BY <2>1
  <2> DEFINE w == NameOf(ls, e, QTYPE_CNAME, to, f)
             v == AddressOf(to, g)
  <2>3. v.bytes \in Seq(Nat) /\ Readable(to)
    BY <1>1, <1>2, RecordText
  <2>4. QTYPE_CNAME \in {QTYPE_NS, QTYPE_CNAME}
    OBVIOUS
  <2>5. w.bytes \in Seq(Nat) /\ Known(w.record)
    BY <1>1, <1>2, <2>4, NameText
  <2>6. /\ Stands(b, p, w.bytes) /\ Stands(b, p + Len(w.bytes), v.bytes)
        /\ Len(w.bytes) + M <= Len(b) /\ Len(v.bytes) + M <= Len(b)
    <3> HIDE DEF w, v
    <3> QED
      BY <1>4, <2>2, <2>3, <2>5, TwoStand DEF w, v, M
  <2>7. LegibleAt(b, p, w)
    BY <1>3, <2>3, <2>4, <2>6, NameThere
  <2>8. LastAt(b, p + Len(w.bytes), v)
    BY <1>6, <2>3, <2>6
  <2> HIDE DEF w, v
  <2>9. SectionRead(b, p, <<w, v>>)
    BY <1>4, <2>3, <2>5, <2>7, <2>8, TwoSection
  <2> QED
    BY <2>2, <2>9 DEF w, v
<1> QED
  BY <1>7, <1>8, <1>9, <1>10, <1>11 DEF AnswersFor, P

\* A name server and its address, and perhaps a record of another type.
IsDelegation(x, P, ls, e, ns, at) ==
  \E f \in Encodings(ns, P) : \E g \in Encodings(ns, P \cup {Place(ns, at + Len(e) + 10)}) :
    /\ x.auth = <<NameOf(ls, e, QTYPE_NS, ns, f)>>
    /\ x.addit \in {<<AddressOf(ns, g)>>, <<AddressOf(ns, g), Other(ns, g)>>}

\* What may come behind the answers, if it begins at a place.
ExtrasFor(ls, at, x) ==
  LET P == QuestionPlaces(ls)
      E == Encodings(ls, P)
  IN \/ x.auth = <<>> /\ x.addit = <<>>
     \/ \E e \in E : x.auth = <<Other(ls, e)>> /\ x.addit = <<>>
     \/ \E ns \in Aliases, e \in E : IsDelegation(x, P, ls, e, ns, at)

\* The beginning of a sequence.
LEMMA BeginningIs ==
  ASSUME NEW S, NEW s \in Seq(S), NEW n \in Nat, n <= Len(s)
  PROVE  SubSeq(s, 1, n) = [i \in 1 .. n |-> s[i]]
<1> DEFINE t == SubSeq(s, 1, n)
<1>1. t \in Seq(S) /\ Len(t) = n /\ \A i \in 1 .. n : t[i] = s[i]
  OBVIOUS
<1>2. t = [i \in 1 .. Len(t) |-> t[i]]
  BY <1>1
<1> HIDE DEF t
<1>3. t = [i \in 1 .. n |-> s[i]]
  BY <1>1, <1>2
<1> QED
  BY <1>3 DEF t

\* The first of two records, or both.
LEMMA FirstOrBoth ==
  ASSUME NEW u, NEW v, NEW n \in 1 .. 2
  PROVE  SubSeq(<<u, v>>, 1, n) \in {<<u>>, <<u, v>>}
<1> DEFINE s == <<u, v>>
           r == <<u>>
<1>1. /\ s[1] = u /\ s[2] = v /\ Len(s) = 2 /\ s = [i \in 1 .. 2 |-> s[i]]
      /\ r[1] = u /\ r = [i \in 1 .. 1 |-> r[i]]
      /\ SubSeq(s, 1, 1) = [i \in 1 .. 1 |-> s[i]] /\ SubSeq(s, 1, 2) = [i \in 1 .. 2 |-> s[i]]
  <2>1. /\ s[1] = u /\ s[2] = v /\ Len(s) = 2 /\ s = [i \in 1 .. 2 |-> s[i]]
        /\ s \in Seq({u, v})
    OBVIOUS
  <2>2. r[1] = u /\ r = [i \in 1 .. 1 |-> r[i]]
    OBVIOUS
  <2> HIDE DEF s, r
  <2>3. 1 \in Nat /\ 1 <= Len(s) /\ 2 \in Nat /\ 2 <= Len(s)
    BY <2>1
  <2>4. SubSeq(s, 1, 1) = [i \in 1 .. 1 |-> s[i]] /\ SubSeq(s, 1, 2) = [i \in 1 .. 2 |-> s[i]]
    BY <2>1, <2>3, BeginningIs
  <2> QED
    BY <2>1, <2>2, <2>4
<1> HIDE DEF s, r
<1>2. \A i \in 1 .. 1 : i = 1
  OBVIOUS
<1>3. SubSeq(s, 1, 1) = r
  BY <1>1, <1>2
<1>4. SubSeq(s, 1, 2) = s
  BY <1>1
<1>5. n = 1 \/ n = 2
  OBVIOUS
<1> QED
  BY <1>3, <1>4, <1>5 DEF s, r

\* The delegations of the model are such.
LEMMA DelegationIs ==
  ASSUME NEW name, NEW e, NEW ns, NEW at, NEW x \in Delegations(name, e, ns, at),
         NEW P, InQuestion = P
  PROVE  IsDelegation(x, P, name, e, ns, at)
<1>1. PICK f \in Encodings(ns, P),
           g \in Encodings(ns, P \cup {Place(ns, at + Len(e) + 10)}), n \in 1 .. 2 :
        x = [auth  |-> <<NameOf(name, e, QTYPE_NS, ns, f)>>,
             addit |-> SubSeq(<<AddressOf(ns, g), Other(ns, g)>>, 1, n)]
  <2> DEFINE F == Encodings(ns, P)
             G == Encodings(ns, P \cup {Place(ns, at + Len(e) + 10)})
             X(f, g, n) == [auth  |-> <<NameOf(name, e, QTYPE_NS, ns, f)>>,
                            addit |-> SubSeq(<<AddressOf(ns, g), Other(ns, g)>>, 1, n)]
  <2>1. x \in {X(f, g, n) : f \in F, g \in G, n \in 1 .. 2}
    <3> DEFINE D(Q) ==
          {[auth  |-> <<NameOf(name, e, QTYPE_NS, ns, f)>>,
            addit |-> SubSeq(<<AddressOf(ns, g), Other(ns, g)>>, 1, n)] :
             f \in Encodings(ns, Q), g \in Encodings(ns, Q \cup {Place(ns, at + Len(e) + 10)}), n \in 1 .. 2}
    <3>1. Delegations(name, e, ns, at) = D(InQuestion)
      BY DEF Delegations
    <3>2. D(P) = {X(f, g, n) : f \in F, g \in G, n \in 1 .. 2}
      OBVIOUS
    <3> HIDE DEF D, F, G, X
    <3> QED
      BY <3>1, <3>2
  <2> HIDE DEF F, G, X
  <2>2. \E f \in F, g \in G, n \in 1 .. 2 : x = X(f, g, n)
    BY <2>1
  <2> QED
    BY <2>2 DEF F, G, X
<1> DEFINE u == AddressOf(ns, g)
           v == Other(ns, g)
<1>2. x.auth = <<NameOf(name, e, QTYPE_NS, ns, f)>> /\ x.addit = SubSeq(<<u, v>>, 1, n)
  BY <1>1
<1> HIDE DEF u, v
<1>3. x.addit \in {<<u>>, <<u, v>>}
  BY <1>2, FirstOrBoth
<1>4. x.addit \in {<<AddressOf(ns, g)>>, <<AddressOf(ns, g), Other(ns, g)>>}
  BY <1>3 DEF u, v
<1> QED
  BY <1>2, <1>4 DEF IsDelegation

\* Those of the model are such.
LEMMA ExtrasAre ==
  ASSUME NEW ls, ls = Understood.labels, NEW at, NEW x \in Extras(at)
  PROVE  ExtrasFor(ls, at, x)
<1> DEFINE P == QuestionPlaces(ls)
           E == Encodings(ls, P)
<1>1. InQuestion = P
  BY DEF InQuestion, QuestionPlaces
<1> HIDE DEF P
<1>2. \/ x = [auth |-> <<>>, addit |-> <<>>]
      \/ \E e \in E : x = [auth |-> <<Other(ls, e)>>, addit |-> <<>>]
      \/ \E e \in E, ns \in Aliases : x \in Delegations(ls, e, ns, at)
  BY <1>1 DEF Extras
<1>3. CASE x = [auth |-> <<>>, addit |-> <<>>]
  BY <1>3 DEF ExtrasFor
<1>4. CASE \E e \in E : x = [auth |-> <<Other(ls, e)>>, addit |-> <<>>]
  BY <1>4 DEF ExtrasFor, P
<1>5. CASE \E e \in E, ns \in Aliases : x \in Delegations(ls, e, ns, at)
  <2>1. PICK e \in E, ns \in Aliases : x \in Delegations(ls, e, ns, at)
    BY <1>5
  <2>2. IsDelegation(x, P, ls, e, ns, at)
    BY <1>1, <2>1, DelegationIs
  <2> QED
    BY <2>2 DEF ExtrasFor, P
<1> QED
  BY <1>2, <1>3, <1>4, <1>5

\* A pointer leads where it leads in more turns, too.
LEMMA LeadsLonger ==
  ASSUME NEW b, NEW pl, NEW M \in Nat, NEW N \in Nat, M <= N, Leads(b, pl, M)
  PROVE  Leads(b, pl, N)
<1>1. \A n \in Nat : n <= M => n <= N
  OBVIOUS
<1> QED
  BY <1>1 DEF Leads

\* One more place to point to.
LEMMA PointingMore ==
  ASSUME NEW b, NEW places, NEW M, Pointing(b, places, M), NEW n \in Nat,
         NEW to, NEW at \in Nat, Leads(b, Place(to, at), n + M)
  PROVE  Pointing(b, places \cup {Place(to, at)}, n + M)
<1>1. M \in Nat /\ \A pl \in places : pl.at \in Nat /\ Leads(b, Place(pl.labels, pl.at), M)
  BY DEF Pointing
<1> DEFINE N == n + M
           new == Place(to, at)
<1>2. N \in Nat /\ M <= N
  BY <1>1
<1>3. new.at = at /\ new.labels = to
  BY DEF Place
<1>4. Leads(b, Place(new.labels, new.at), N)
  BY <1>3
<1> HIDE DEF N, new
<1>5. \A pl \in places \cup {new} : pl.at \in Nat /\ Leads(b, Place(pl.labels, pl.at), N)
  BY <1>1, <1>2, <1>3, <1>4, LeadsLonger
<1> QED
  BY <1>2, <1>5 DEF Pointing, N, new

\* The text of what comes behind the answers.
LEMMA ExtrasText ==
  ASSUME ProperAliases, NEW q, NEW ls, Question(q, ls), NEW at \in Nat,
         NEW x, ExtrasFor(ls, at, x)
  PROVE  /\ Len(x.auth) \in 0 .. 1 /\ Wire(x.auth) \in Seq(Nat)
         /\ Len(x.addit) \in 0 .. 2 /\ Wire(x.addit) \in Seq(Nat)
<1> DEFINE P == QuestionPlaces(ls)
           E == Encodings(ls, P)
<1>1. ls \in Seq(Seq(Nat)) /\ \A pl \in P : pl.at \in Nat
  BY PlacesAreNat
<1>2. \A to \in Aliases : to \in Seq(Seq(Nat))
  BY AliasIsReadable DEF Readable
<1> HIDE DEF P
<1>3. Len(<<>>) = 0 /\ Section(<<>>)
  BY NoSection
<1>4. CASE x.auth = <<>> /\ x.addit = <<>>
  BY <1>3, <1>4 DEF Section
<1>5. CASE \E e \in E : x.auth = <<Other(ls, e)>> /\ x.addit = <<>>
  <2>1. PICK e \in E : x.auth = <<Other(ls, e)>> /\ x.addit = <<>>
    BY <1>5
  <2> DEFINE w == Other(ls, e)
  <2>2. w.bytes \in Seq(Nat)
    BY <1>1, RecordText
  <2> HIDE DEF w
  <2>3. Len(<<w>>) = 1 /\ Wire(<<w>>) = w.bytes
    BY WireIs, FewRecords
  <2>4. x.auth = <<w>>
    BY <2>1 DEF w
  <2>5. Len(x.addit) \in 0 .. 2 /\ Wire(x.addit) \in Seq(Nat)
    BY <1>3, <2>1 DEF Section
  <2> QED
    BY <2>2, <2>3, <2>4, <2>5
<1>6. CASE \E ns \in Aliases, e \in E : IsDelegation(x, P, ls, e, ns, at)
  <2>1. PICK ns \in Aliases, e \in E : IsDelegation(x, P, ls, e, ns, at)
    BY <1>6
  <2>2. PICK f \in Encodings(ns, P) :
        \E g \in Encodings(ns, P \cup {Place(ns, at + Len(e) + 10)}) :
          /\ x.auth = <<NameOf(ls, e, QTYPE_NS, ns, f)>>
          /\ x.addit \in {<<AddressOf(ns, g)>>, <<AddressOf(ns, g), Other(ns, g)>>}
    BY <2>1, Zenon DEF IsDelegation
  <2>3. PICK g \in Encodings(ns, P \cup {Place(ns, at + Len(e) + 10)}) :
          /\ x.auth = <<NameOf(ls, e, QTYPE_NS, ns, f)>>
          /\ x.addit \in {<<AddressOf(ns, g)>>, <<AddressOf(ns, g), Other(ns, g)>>}
    BY <2>2, Zenon
  <2> DEFINE w == NameOf(ls, e, QTYPE_NS, ns, f)
             u == AddressOf(ns, g)
             v == Other(ns, g)
             new == Place(ns, at + Len(e) + 10)
  <2>4. w.bytes \in Seq(Nat)
    <3>1. QTYPE_NS \in {QTYPE_NS, QTYPE_CNAME}
      OBVIOUS
    <3> QED
      BY <1>1, <1>2, <3>1, NameText
  <2>5. new.at \in Nat
    <3>1. Len(e) \in Nat
      BY <1>1, EncodingType
    <3> QED
      BY <3>1 DEF Place
  <2> HIDE DEF new, w
  <2>6. \A pl \in P \cup {new} : pl.at \in Nat
    BY <1>1, <2>5
  <2>7. g \in Encodings(ns, P \cup {new})
    BY <2>3 DEF new
  <2>8. u.bytes \in Seq(Nat) /\ Known(u.record) /\ v.bytes \in Seq(Nat)
    BY <1>2, <2>6, <2>7, RecordText
  <2> HIDE DEF u, v
  <2>9. Len(<<w>>) = 1 /\ Wire(<<w>>) = w.bytes
    BY WireIs, FewRecords
  <2>10. Section(<<u>>) /\ Section(<<u, v>>)
    BY <2>8, OneSection, TwoSection
  <2>11. x.auth = <<w>> /\ (x.addit = <<u>> \/ x.addit = <<u, v>>)
    BY <2>3 DEF w, u, v
  <2>12. Len(x.addit) \in 0 .. 2 /\ Wire(x.addit) \in Seq(Nat)
    BY <2>10, <2>11 DEF Section
  <2> QED
    BY <2>4, <2>9, <2>11, <2>12
<1> QED
  BY <1>4, <1>5, <1>6 DEF ExtrasFor, P

\* The loop over the authority section gets its one record.
LEMMA AuthorityRead ==
  ASSUME NEW b, NEW places, NEW M, Pointing(b, places, M),
         NEW name, Readable(name), NEW e \in Encodings(name, places),
         NEW type \in Nat, type # QTYPE_A, NEW rdata, NEW data \in Seq(Nat),
         NEW w, w = Written(name, e, type, rdata, data),
         NEW p, Stands(b, p, w.bytes), Len(w.bytes) + M <= Len(b), LastAt(b, p, w)
  PROVE  Obtained(ReadAuthorities(b, p, 1), p, <<w>>)
<1>1. /\ name \in Seq(Seq(Nat)) /\ M \in Nat /\ Len(b) \in Nat
      /\ \A pl \in places : pl.at \in Nat
  BY DEF Readable, Pointing, Stands
<1>2. e \in Seq(Nat) /\ Len(e) \in Nat
  BY <1>1, EncodingType
<1>3. IsWritten(w, name, e, type, rdata, data)
  BY <1>2, WrittenIs
<1>4. w.bytes = e \o RData(type, data) /\ Len(w.bytes) = Len(e) + 10 + Len(data)
  BY <1>3 DEF IsWritten
<1>5. Stands(b, p, e)
  BY <1>2, <1>4, RecordStands
<1>6. Len(e) + M <= Len(b)
  BY <1>1, <1>2, <1>4
<1>7. Reads(b, p, name, Len(e))
  BY <1>5, <1>6, NameIsThere
<1>8. ReadAuthority(b, At(p, <<>>)) = ParseRecord(b, At(p, <<>>))
  BY <1>2, <1>4, <1>7, SameAuthority
<1>9. ReadAuthorities(b, p, 1) = ParseRecord(b, At(p, <<>>))
  BY <1>8, ReadAuthoritiesIs
<1> QED
  BY <1>9, OneRead

\* Records that were read, one for each of a section.
Matches(records, section) ==
  /\ DOMAIN records = 1 .. Len(section) /\ Len(records) = Len(section)
  /\ \A i \in 1 .. Len(section) : AsMeant(records[i], section[i].record)

\* What was obtained matches.
LEMMA ObtainedMatches ==
  ASSUME NEW x, NEW p, NEW s, Obtained(x, p, s)
  PROVE  Matches(x.records, s)
BY DEF Obtained, Matches

\* Three texts in a message of limited length.
LEMMA ThreeFit ==
  ASSUME NEW a \in Nat, NEW c \in Nat, NEW f \in Nat, NEW e \in Nat, NEW m \in Nat,
         NEW n \in Nat, a + c + m <= n, a = e + 10 + f
  PROVE  a + m <= n /\ f + m \in Nat /\ c + (f + m) <= n
OBVIOUS

\* A name server whose record was read from a place, and to whose name pointers
\* may lead.
NameServerAt(b, P, M, w, at, ns, e, f) ==
  /\ Obtained(ReadAuthorities(b, at + 1, 1), at + 1, <<w>>)
  /\ Known(w.record) /\ w.bytes \in Seq(Nat) /\ Len(w.bytes) = Len(e) + 10 + Len(f)
  /\ Len(e) \in Nat /\ Len(f) \in Nat
  /\ Pointing(b, P \cup {Place(ns, at + Len(e) + 10)}, Len(f) + M)

\* The name server of a delegation is such.
LEMMA NameServerRead ==
  ASSUME NEW b, NEW P, NEW M, Pointing(b, P, M), NEW ls, Readable(ls), NEW e \in Encodings(ls, P),
         NEW ns, Readable(ns), NEW f \in Encodings(ns, P),
         NEW w, w = NameOf(ls, e, QTYPE_NS, ns, f), NEW at \in Nat, Stands(b, at + 1, w.bytes),
         Len(w.bytes) + M <= Len(b)
  PROVE  NameServerAt(b, P, M, w, at, ns, e, f)
<1>1. ls \in Seq(Seq(Nat)) /\ ns \in Seq(Seq(Nat)) /\ M \in Nat /\ \A pl \in P : pl.at \in Nat
  BY DEF Readable, Pointing
<1>2. QTYPE_NS \in {QTYPE_NS, QTYPE_CNAME} /\ QTYPE_NS \in Nat /\ QTYPE_NS # QTYPE_A
  BY RecordConstants
<1>3. e \in Seq(Nat) /\ Len(e) \in Nat /\ f \in Seq(Nat) /\ Len(f) \in Nat
  BY <1>1, EncodingType
<1>4. Known(w.record) /\ w.bytes \in Seq(Nat) /\ Len(w.bytes) = Len(e) + 10 + Len(f)
  <2> DEFINE t == QTYPE_NS
  <2>1. t \in {QTYPE_NS, QTYPE_CNAME} /\ w = NameOf(ls, e, t, ns, f)
    OBVIOUS
  <2> HIDE DEF t
  <2>2. Known(w.record)
    BY <1>1, <2>1, NameText
  <2>3. w.bytes \in Seq(Nat)
    BY <1>1, <2>1, NameText
  <2>4. Len(w.bytes) = Len(e) + 10 + Len(f)
    BY <1>1, <2>1, NameText
  <2> QED
    BY <2>2, <2>3, <2>4
<1> DEFINE p == at + 1
           z == at + Len(e) + 10
           y == p + Len(e) + 10
<1>5. z \in Nat /\ y - 1 = z
  BY <1>3
<1>6. Stands(b, p, w.bytes)
  OBVIOUS
<1> HIDE DEF p, z
<1>7. LegibleAt(b, p, w) /\ Leads(b, Place(ns, y - 1), Len(f) + M)
  <2>1. y = p + Len(e) + 10
    OBVIOUS
  <2> HIDE DEF y
  <2> QED
    BY <1>2, <1>6, <2>1, NameThere
<1> HIDE DEF y
<1>8. LastAt(b, p, w)
  BY <1>7, LegibleIsReadable DEF LastAt
<1>9. Obtained(ReadAuthorities(b, p, 1), p, <<w>>)
  BY <1>2, <1>3, <1>6, <1>8, AuthorityRead DEF NameOf
<1>10. Pointing(b, P \cup {Place(ns, z)}, Len(f) + M)
  BY <1>3, <1>5, <1>7, PointingMore
<1> QED
  BY <1>3, <1>4, <1>9, <1>10 DEF NameServerAt, p, z

\* The addresses of a delegation are read, wherever they begin.
LEMMA AddressesRead ==
  ASSUME NEW b, NEW P, NEW M, Pointing(b, P, M), NEW ns, Readable(ns), NEW g \in Encodings(ns, P),
         NEW s, s \in {<<AddressOf(ns, g)>>, <<AddressOf(ns, g), Other(ns, g)>>},
         NEW p, Stands(b, p, Wire(s)), Len(Wire(s)) + M <= Len(b)
  PROVE  SectionRead(b, p, s)
<1> DEFINE w == AddressOf(ns, g)
           v == Other(ns, g)
<1>1. ns \in Seq(Seq(Nat)) /\ M \in Nat /\ \A pl \in P : pl.at \in Nat
  BY DEF Readable, Pointing
<1>2. w.bytes \in Seq(Nat) /\ Known(w.record) /\ v.bytes \in Seq(Nat) /\ ~Known(v.record)
  BY <1>1, RecordText
<1>3. ASSUME NEW x, Stands(b, x, w.bytes), Len(w.bytes) + M <= Len(b)
      PROVE  LegibleAt(b, x, w) /\ LastAt(b, x, w)
  <2>1. LegibleAt(b, x, w)
    BY <1>3, AddressThere
  <2> QED
    BY <2>1, LegibleIsReadable DEF LastAt
<1>4. ASSUME NEW x, Stands(b, x, v.bytes), Len(v.bytes) + M <= Len(b)
      PROVE  LastAt(b, x, v)
  BY <1>2, <1>4, OtherThere DEF LastAt
<1>5. s = <<w>> \/ s = <<w, v>>
  OBVIOUS
<1> HIDE DEF w, v
<1>6. CASE s = <<w>>
  <2>1. Wire(<<w>>) = w.bytes
    BY WireIs
  <2>2. LastAt(b, p, w)
    BY <1>3, <1>6, <2>1
  <2> QED
    BY <1>2, <1>6, <2>2, OneSection
<1>7. CASE s = <<w, v>>
  <2>1. /\ p \in Nat /\ Stands(b, p, w.bytes) /\ Stands(b, p + Len(w.bytes), v.bytes)
        /\ Len(w.bytes) + M <= Len(b) /\ Len(v.bytes) + M <= Len(b)
    BY <1>1, <1>2, <1>7, TwoStand
  <2>2. LegibleAt(b, p, w) /\ LastAt(b, p + Len(w.bytes), v)
    BY <1>3, <1>4, <2>1
  <2> QED
    BY <1>2, <1>7, <2>1, <2>2, TwoSection
<1> QED
  BY <1>5, <1>6, <1>7

\* What dns.c reads behind the answers.
LEMMA ExtrasRead ==
  ASSUME ProperAliases, NEW q, NEW ls, Question(q, ls), NEW at \in Nat, NEW x, ExtrasFor(ls, at, x),
         NEW b, Stands(b, HeaderLen + 1, q), Stands(b, at + 1, Wire(x.auth)),
         Stands(b, at + 1 + Len(Wire(x.auth)), Wire(x.addit)),
         Len(Wire(x.auth)) + Len(Wire(x.addit)) + Len(q) <= Len(b),
         NEW auth, auth = ReadAuthorities(b, at + 1, Len(x.auth)),
         NEW addit, addit = ReadRecords(b, auth.reader, Len(x.addit))
  PROVE  Matches(auth.records, x.auth) /\ Matches(addit.records, x.addit)
<1> DEFINE P == QuestionPlaces(ls)
           E == Encodings(ls, P)
           M == Len(q)
           p == at + 1
<1>1. ls \in Seq(Seq(Nat)) /\ \A pl \in P : pl.at \in Nat
  BY PlacesAreNat
<1>2. \A to \in Aliases : Readable(to)
  BY AliasIsReadable
<1>3. Pointing(b, P, M) /\ Readable(ls) /\ M \in Nat /\ Len(b) \in Nat
  <2>1. Readable(ls)
    BY DEF Question
  <2>2. M \in Nat /\ Len(b) \in Nat
    BY DEF Stands
  <2> QED
    BY <2>1, <2>2, QuestionPoints
<1>4. p \in Nat
  OBVIOUS
<1>5. /\ auth = ReadAuthorities(b, p, Len(x.auth)) /\ Stands(b, p, Wire(x.auth))
      /\ Stands(b, p + Len(Wire(x.auth)), Wire(x.addit))
      /\ Len(Wire(x.auth)) + Len(Wire(x.addit)) + M <= Len(b)
  OBVIOUS
<1> HIDE DEF P, M
<1>6. ASSUME NEW y, x.addit = <<>>, addit = ReadRecords(b, y, Len(x.addit))
      PROVE  Matches(addit.records, x.addit)
  <2>1. Len(<<>>) = 0 /\ 0 \in 0 .. 2 /\ DOMAIN <<>> = 1 .. 0
    OBVIOUS
  <2>2. addit = At(y, <<>>)
    BY <1>6, <2>1, ReadRecordsIs DEF RecordTurns
  <2>3. addit.records = <<>>
    BY <2>2 DEF At
  <2>4. \A i \in 1 .. 0 : FALSE
    OBVIOUS
  <2> QED
    BY <1>6, <2>1, <2>3, <2>4 DEF Matches
<1>7. CASE x.auth = <<>> /\ x.addit = <<>>
  <2>1. Len(<<>>) = 0
    OBVIOUS
  <2>2. auth = At(p, <<>>)
    BY <1>5, <1>7, <2>1, ReadAuthoritiesIs
  <2>3. Matches(auth.records, x.auth)
    <3>1. auth.records = <<>> /\ DOMAIN <<>> = 1 .. 0
      BY <2>2 DEF At
    <3>2. \A i \in 1 .. 0 : FALSE
      OBVIOUS
    <3> QED
      BY <1>7, <2>1, <3>1, <3>2 DEF Matches
  <2> QED
    BY <1>6, <1>7, <2>3
<1>8. CASE \E e \in E : x.auth = <<Other(ls, e)>> /\ x.addit = <<>>
  <2>1. PICK e \in E : x.auth = <<Other(ls, e)>> /\ x.addit = <<>>
    BY <1>8
  <2> DEFINE w == Other(ls, e)
  <2>2. w.bytes \in Seq(Nat) /\ ~Known(w.record)
    BY <1>1, RecordText
  <2>3. Len(<<w>>) = 1 /\ Wire(<<w>>) = w.bytes
    <3> HIDE DEF w
    <3> QED
      BY WireIs, FewRecords
  <2>4. x.auth = <<w>>
    BY <2>1
  <2>5. Stands(b, p, w.bytes) /\ Len(w.bytes) + M <= Len(b)
    <3> DEFINE m == Len(w.bytes)
               n == Len(Wire(x.addit))
               k == Len(b)
    <3>1. Stands(b, p, w.bytes) /\ m + n + M <= k
      BY <1>5, <2>3, <2>4
    <3>2. m \in Nat /\ n \in Nat /\ k \in Nat
      <4>1. Wire(x.addit) \in Seq(Nat)
        BY <1>5 DEF Stands
      <4> HIDE DEF w
      <4> QED
        BY <1>3, <2>2, <4>1
    <3> HIDE DEF m, n, k
    <3>3. m + M <= k
      BY <1>3, <3>1, <3>2
    <3> QED
      BY <3>1, <3>3 DEF m, k
  <2>6. LastAt(b, p, w)
    BY <1>3, <2>2, <2>5, OtherThere DEF LastAt
  <2>7. Obtained(ReadAuthorities(b, p, 1), p, <<w>>)
    BY <1>3, <2>5, <2>6, RecordConstants, AuthorityRead DEF Other
  <2> HIDE DEF w
  <2>8. Obtained(auth, p, x.auth)
    BY <1>5, <2>3, <2>4, <2>7
  <2> QED
    BY <1>6, <2>1, <2>8, ObtainedMatches
<1>9. CASE \E ns \in Aliases, e \in E : IsDelegation(x, P, ls, e, ns, at)
  <2>1. PICK ns \in Aliases, e \in E : IsDelegation(x, P, ls, e, ns, at)
    BY <1>9
  <2>2. PICK f \in Encodings(ns, P) :
        \E g \in Encodings(ns, P \cup {Place(ns, at + Len(e) + 10)}) :
          /\ x.auth = <<NameOf(ls, e, QTYPE_NS, ns, f)>>
          /\ x.addit \in {<<AddressOf(ns, g)>>, <<AddressOf(ns, g), Other(ns, g)>>}
    BY <2>1, Zenon DEF IsDelegation
  <2>3. PICK g \in Encodings(ns, P \cup {Place(ns, at + Len(e) + 10)}) :
          /\ x.auth = <<NameOf(ls, e, QTYPE_NS, ns, f)>>
          /\ x.addit \in {<<AddressOf(ns, g)>>, <<AddressOf(ns, g), Other(ns, g)>>}
    BY <2>2, Zenon
  <2> DEFINE w == NameOf(ls, e, QTYPE_NS, ns, f)
             a == Len(w.bytes)
             c == Len(Wire(x.addit))
  <2>4. Readable(ns)
    BY <1>2
  <2>5. w = NameOf(ls, e, QTYPE_NS, ns, f) /\ x.auth = <<w>>
    BY <2>3
  <2> HIDE DEF w
  <2>6. Len(<<w>>) = 1 /\ Wire(<<w>>) = w.bytes
    BY WireIs, FewRecords
  <2>7. Stands(b, p, w.bytes) /\ Stands(b, p + Len(w.bytes), Wire(x.addit)) /\ a + c + M <= Len(b)
    BY <1>5, <2>5, <2>6
  <2>8. a \in Nat /\ c \in Nat
    BY <2>7 DEF Stands
  <2>9. a + M <= Len(b)
    <3> HIDE DEF a, c
    <3> QED
      BY <1>3, <2>7, <2>8
  <2>10. /\ Obtained(ReadAuthorities(b, p, 1), p, <<w>>)
         /\ Known(w.record) /\ w.bytes \in Seq(Nat) /\ a = Len(e) + 10 + Len(f)
         /\ Len(e) \in Nat /\ Len(f) \in Nat
         /\ Pointing(b, P \cup {Place(ns, at + Len(e) + 10)}, Len(f) + M)
    <3>1. Stands(b, at + 1, w.bytes) /\ Len(w.bytes) + M <= Len(b)
      BY <2>7, <2>9
    <3>2. NameServerAt(b, P, M, w, at, ns, e, f)
      BY <1>3, <2>4, <2>5, <3>1, NameServerRead
    <3> QED
      BY <3>2 DEF NameServerAt
  <2>11. Obtained(auth, p, x.auth)
    BY <1>5, <2>5, <2>6, <2>10
  <2>12. auth.reader = p + a
    <3>1. \A i \in 1 .. 1 : <<w>>[i] = w
      <4>1. <<w>>[1] = w /\ \A i \in 1 .. 1 : i = 1
        BY FewRecords
      <4> QED
        BY <4>1
    <3>2. \A i \in 1 .. Len(<<w>>) : Known(<<w>>[i].record)
      BY <2>6, <2>10, <3>1
    <3> QED
      BY <2>5, <2>6, <2>11, <3>2 DEF Obtained
  <2>13. c + (Len(f) + M) <= Len(b)
    <3> DEFINE m == Len(e)
               n == Len(f)
               k == Len(b)
    <3>1. m \in Nat /\ n \in Nat /\ k \in Nat /\ a = m + 10 + n /\ a + c + M <= k
      BY <1>3, <2>7, <2>10
    <3> HIDE DEF m, n, k, a, c
    <3>2. c + (n + M) <= k
      BY <1>3, <2>8, <3>1, ThreeFit
    <3> QED
      BY <3>2 DEF n, k
  <2>14. Stands(b, auth.reader, Wire(x.addit))
    BY <2>7, <2>12
  <2>15. SectionRead(b, auth.reader, x.addit)
    <3> DEFINE Q == P \cup {Place(ns, at + Len(e) + 10)}
               N == Len(f) + M
    <3>1. Pointing(b, Q, N) /\ g \in Encodings(ns, Q) /\ c + N <= Len(b)
      BY <2>10, <2>13
    <3> HIDE DEF Q, N
    <3> QED
      BY <2>3, <2>4, <2>14, <3>1, AddressesRead
  <2>16. addit = RecordTurns(b, auth.reader, Len(x.addit))
    <3> DEFINE u == AddressOf(ns, g)
               v == Other(ns, g)
    <3>1. x.addit \in {<<u>>, <<u, v>>}
      BY <2>3
    <3> HIDE DEF u, v
    <3>2. Len(x.addit) \in 0 .. 2
      BY <3>1, FewRecords
    <3> QED
      BY <3>2, ReadRecordsIs
  <2>17. Obtained(addit, auth.reader, x.addit)
    BY <2>15, <2>16 DEF SectionRead
  <2> QED
    BY <2>11, <2>17, ObtainedMatches
<1> QED
  BY <1>7, <1>8, <1>9 DEF ExtrasFor, P

\* A section of no more than two records.
Few(s) ==
  \/ s = <<>>
  \/ \E w : s = <<w>>
  \/ \E w, v : s = <<w, v>>

\* What is meant by it.
LEMMA MeantIs ==
  ASSUME NEW s, Few(s)
  PROVE  /\ DOMAIN s = 1 .. Len(s) /\ Len(s) \in 0 .. 2
         /\ Len(Meant(s)) = Len(s) /\ DOMAIN Meant(s) = 1 .. Len(s)
         /\ \A i \in 1 .. Len(s) : Meant(s)[i] = s[i].record
<1>1. DOMAIN s = 1 .. Len(s) /\ Len(s) \in 0 .. 2
  <2>1. DOMAIN <<>> = 1 .. 0 /\ Len(<<>>) = 0
    OBVIOUS
  <2>2. CASE s = <<>>
    BY <2>1, <2>2
  <2>3. ASSUME NEW w, s = <<w>> PROVE DOMAIN s = 1 .. Len(s) /\ Len(s) \in 0 .. 2
    BY <2>3, FewRecords
  <2>4. ASSUME NEW w, NEW v, s = <<w, v>> PROVE DOMAIN s = 1 .. Len(s) /\ Len(s) \in 0 .. 2
    BY <2>4, FewRecords
  <2> QED
    BY <2>2, <2>3, <2>4 DEF Few
<1> DEFINE n == Len(s)
           m == Meant(s)
<1>2. m = [i \in 1 .. n |-> s[i].record]
  BY <1>1 DEF Meant
<1>3. n \in Nat
  BY <1>1
<1> HIDE DEF n, m
<1>4. Len(m) = n /\ DOMAIN m = 1 .. n /\ \A i \in 1 .. n : m[i] = s[i].record
  BY <1>2, <1>3
<1> QED
  BY <1>1, <1>4 DEF n, m

\* Answers are such a section.
LEMMA AnswersAreFew ==
  ASSUME NEW ls, NEW s, AnswersFor(ls, s)
  PROVE  Few(s)
BY Zenon DEF AnswersFor, Few

\* So is what comes behind them.
LEMMA ExtrasAreFew ==
  ASSUME NEW ls, NEW at, NEW x, ExtrasFor(ls, at, x)
  PROVE  Few(x.auth) /\ Few(x.addit)
<1>1. \A e, ns : IsDelegation(x, QuestionPlaces(ls), ls, e, ns, at) => Few(x.auth) /\ Few(x.addit)
  <2> TAKE e, ns
  <2> HAVE IsDelegation(x, QuestionPlaces(ls), ls, e, ns, at)
  <2>1. PICK f, g :
          /\ x.auth = <<NameOf(ls, e, QTYPE_NS, ns, f)>>
          /\ x.addit \in {<<AddressOf(ns, g)>>, <<AddressOf(ns, g), Other(ns, g)>>}
    BY DEF IsDelegation
  <2>2. \/ x.addit = <<AddressOf(ns, g)>>
        \/ x.addit = <<AddressOf(ns, g), Other(ns, g)>>
    BY <2>1
  <2> QED
    BY <2>1, <2>2, Zenon DEF Few
<1> QED
  BY <1>1, Zenon DEF ExtrasFor, Few

\* The reply of a server: answers that are meant, and what comes behind them
\* unless there are two.
Served(r, q, ls, s, x) ==
  /\ AnswersFor(ls, s)
  /\ \/ x.auth = <<>> /\ x.addit = <<>>
     \/ Len(s) < 2 /\ ExtrasFor(ls, HeaderLen + Len(q) + Len(Wire(s)), x)
  /\ r.bytes = Message(q, Wire(s), Wire(x.auth), Wire(x.addit))
  /\ r.ans_count = Len(s) /\ r.auth_count = Len(x.auth) /\ r.add_count = Len(x.addit)
  /\ r.answers_end = HeaderLen + Len(q) + Len(Wire(s))

\* No sections at all come behind the answers.
LEMMA NoExtras ==
  ASSUME NEW ls, NEW at, NEW x, x.auth = <<>>, x.addit = <<>>
  PROVE  ExtrasFor(ls, at, x)
BY DEF ExtrasFor

\* The sections of a reply, each in its place behind the one before.
SectionsStand(b, q, s, x) ==
  /\ Wire(s) \in Seq(Nat) /\ Len(Wire(s)) \in Nat /\ Len(q) \in Nat
  /\ Stands(b, HeaderLen + 1, q)
  /\ Stands(b, HeaderLen + Len(q) + 1, Wire(s))
  /\ Stands(b, HeaderLen + Len(q) + Len(Wire(s)) + 1, Wire(x.auth))
  /\ Stands(b, HeaderLen + Len(q) + Len(Wire(s)) + 1 + Len(Wire(x.auth)), Wire(x.addit))
  /\ Len(Wire(s)) + Len(q) <= Len(b)
  /\ Len(Wire(x.auth)) + Len(Wire(x.addit)) + Len(q) <= Len(b)

\* Where they stand.
LEMMA ServedStands ==
  ASSUME ProperAliases, NEW q, NEW ls, Question(q, ls), NEW r, NEW s, NEW x, Served(r, q, ls, s, x)
  PROVE  SectionsStand(r.bytes, q, s, x)
<1> DEFINE b == r.bytes
           u == Wire(s)
           v == Wire(x.auth)
           w == Wire(x.addit)
<1>1. q \in Seq(Nat) /\ AnswersFor(ls, s) /\ b = Message(q, u, v, w)
  BY DEF Question, Stands, Served
<1>2. u \in Seq(Nat)
  BY <1>1, AnswersText DEF Section
<1>3. HeaderLen + Len(q) + Len(u) \in Nat
  <2>1. Len(q) \in Nat /\ Len(u) \in Nat
    BY <1>1, <1>2
  <2> HIDE DEF u
  <2> QED
    BY <2>1 DEF HeaderLen
<1>4. v \in Seq(Nat) /\ w \in Seq(Nat)
  <2> DEFINE at == HeaderLen + Len(q) + Len(u)
  <2>1. ExtrasFor(ls, at, x)
    BY NoExtras DEF Served
  <2> HIDE DEF at
  <2>2. at \in Nat
    BY <1>3 DEF at
  <2> QED
    BY <2>1, <2>2, ExtrasText
<1> HIDE DEF b, u, v, w
<1>5. /\ Stands(b, HeaderLen + 1, q)
      /\ Stands(b, HeaderLen + Len(q) + 1, u)
      /\ Stands(b, HeaderLen + Len(q) + Len(u) + 1, v)
      /\ Stands(b, HeaderLen + Len(q) + Len(u) + Len(v) + 1, w)
      /\ Len(b) = HeaderLen + Len(q) + Len(u) + Len(v) + Len(w)
  BY <1>1, <1>2, <1>4, MessageParts
<1> DEFINE k == Len(q)
           l == Len(u)
           m == Len(v)
           n == Len(w)
<1>6. k \in Nat /\ l \in Nat /\ m \in Nat /\ n \in Nat /\ Len(b) = HeaderLen + k + l + m + n
  BY <1>1, <1>2, <1>4, <1>5
<1> HIDE DEF k, l, m, n
<1>7. l + k <= Len(b) /\ m + n + k <= Len(b)
  BY <1>6 DEF HeaderLen
<1>8. HeaderLen + k + l + m + 1 = HeaderLen + k + l + 1 + m
  BY <1>6 DEF HeaderLen
<1>9. Stands(b, HeaderLen + k + l + 1 + m, w)
  BY <1>5, <1>8 DEF k, l, m
<1> QED
  BY <1>2, <1>5, <1>6, <1>7, <1>9 DEF SectionsStand, b, u, v, w, k, l, m, n

\* Both programs read the answers of a reply.
LEMMA ServedAnswers ==
  ASSUME ProperAliases, NEW q, NEW ls, Question(q, ls), NEW r, NEW s, NEW x, Served(r, q, ls, s, x)
  PROVE  /\ BehindQuestion(r.bytes) = HeaderLen + Len(q) + 1
         /\ SectionRead(r.bytes, HeaderLen + Len(q) + 1, s)
<1> DEFINE b == r.bytes
           p == HeaderLen + Len(q) + 1
<1>1. AnswersFor(ls, s) /\ SectionsStand(b, q, s, x)
  BY ServedStands DEF Served
<1>2. Stands(b, HeaderLen + 1, q) /\ Stands(b, p, Wire(s)) /\ Len(Wire(s)) + Len(q) <= Len(b)
  BY <1>1 DEF SectionsStand
<1> HIDE DEF b
<1>3. BehindQuestion(b) = p
  BY <1>2, BehindQuestionIs
<1> HIDE DEF p
<1>4. SectionRead(b, p, s)
  BY <1>1, <1>2, AnswersRead
<1> QED
  BY <1>3, <1>4 DEF b, p

\* What parse_response makes of a reply.
LEMMA ServedParsed ==
  ASSUME ProperAliases, NEW q, NEW ls, Question(q, ls), NEW r, NEW s, NEW x, Served(r, q, ls, s, x),
         NEW y, y = ParseResponse(r)
  PROVE  /\ Matches(y.answers, s)
         /\ (\A i \in 1 .. Len(s) : Known(s[i].record)) => y.reader = r.answers_end + 1
<1> DEFINE b == r.bytes
           p == HeaderLen + Len(q) + 1
           z == RecordTurns(b, p, Len(s))
<1>1. BehindQuestion(b) = p /\ Obtained(z, p, s)
  BY ServedAnswers DEF SectionRead
<1>2. Len(s) \in 0 .. 2 /\ r.ans_count = Len(s)
  BY AnswersAreFew, MeantIs DEF Served
<1>3. p = BehindQuestion(b) /\ z = RecordTurns(b, p, Len(s))
  BY <1>1
<1> HIDE DEF p, z
<1>4. y = [answers |-> z.records, auth |-> <<>>, addit |-> <<>>, reader |-> z.reader]
  BY <1>2, <1>3, ParseResponseIs
<1>5. y.answers = z.records /\ y.reader = z.reader
  BY <1>4
<1>6. p + Len(Wire(s)) = r.answers_end + 1
  <2>1. Len(q) \in Nat /\ Len(Wire(s)) \in Nat
    BY ServedStands DEF SectionsStand
  <2> QED
    BY <2>1 DEF Served, p, HeaderLen
<1> QED
  BY <1>1, <1>5, <1>6 DEF Obtained, Matches

\* What dns.c makes of it.
LEMMA ServedRead ==
  ASSUME ProperAliases, NEW q, NEW ls, Question(q, ls), NEW r, NEW s, NEW x, Served(r, q, ls, s, x),
         NEW y, y = ReadSections(r)
  PROVE  Matches(y.answers, s) /\ Matches(y.auth, x.auth) /\ Matches(y.addit, x.addit)
<1> DEFINE b == r.bytes
           p == HeaderLen + Len(q) + 1
           at == HeaderLen + Len(q) + Len(Wire(s))
           answers == ReadRecords(b, p, Len(s))
           auth == ReadAuthorities(b, answers.reader, Len(x.auth))
           addit == ReadRecords(b, auth.reader, Len(x.addit))
<1>1. BehindQuestion(b) = p /\ SectionRead(b, p, s)
  BY ServedAnswers
<1>2. /\ y.answers = answers.records /\ y.auth = auth.records /\ y.addit = addit.records
  BY <1>1 DEF ReadSections, Served
<1>3. Few(s) /\ Len(s) \in 0 .. 2
  BY AnswersAreFew, MeantIs DEF Served
<1>4. SectionsStand(b, q, s, x)
  BY ServedStands
<1>5. p \in Nat /\ at \in Nat /\ at + 1 = p + Len(Wire(s)) /\ at + 1 = HeaderLen + Len(q) + Len(Wire(s)) + 1
  BY <1>4 DEF SectionsStand, HeaderLen
<1>6. Obtained(answers, p, s)
  <2>1. answers = RecordTurns(b, p, Len(s))
    <3> HIDE DEF b, p
    <3> QED
      BY <1>3, ReadRecordsIs
  <2> QED
    BY <1>1, <2>1 DEF SectionRead
<1>7. Matches(answers.records, s)
  <2> HIDE DEF answers, p
  <2> QED
    BY <1>6, ObtainedMatches
<1> HIDE DEF answers, b, p, at
<1>8. CASE x.auth = <<>> /\ x.addit = <<>>
  <2>1. Len(<<>>) = 0 /\ DOMAIN <<>> = 1 .. 0 /\ \A i \in 1 .. 0 : FALSE
    OBVIOUS
  <2>2. auth.records = <<>>
    <3>1. auth = ReadAuthorities(b, answers.reader, 0)
      BY <1>8, <2>1
    <3> HIDE DEF auth
    <3>2. auth = At(answers.reader, <<>>)
      BY <3>1, ReadAuthoritiesIs
    <3> QED
      BY <3>2 DEF At
  <2> HIDE DEF auth
  <2>3. addit = RecordTurns(b, auth.reader, 0)
    <3>1. 0 \in 0 .. 2
      OBVIOUS
    <3> QED
      BY <1>8, <2>1, <3>1, ReadRecordsIs
  <2>4. addit.records = <<>>
    BY <2>3 DEF RecordTurns, At
  <2> HIDE DEF addit
  <2>5. Matches(auth.records, x.auth) /\ Matches(addit.records, x.addit)
    BY <1>8, <2>1, <2>2, <2>4 DEF Matches
  <2> QED
    BY <1>2, <1>7, <2>5 DEF auth, addit
<1>9. CASE ~(x.auth = <<>> /\ x.addit = <<>>)
  <2>1. Len(s) < 2 /\ ExtrasFor(ls, at, x)
    BY <1>9 DEF Served, at
  <2>2. answers.reader = at + 1
    <3>1. Section(s)
      BY AnswersText DEF Served
    <3> QED
      BY <1>5, <1>6, <2>1, <3>1 DEF Section, Obtained
  <2>3. /\ Stands(b, HeaderLen + 1, q) /\ Stands(b, at + 1, Wire(x.auth))
        /\ Stands(b, at + 1 + Len(Wire(x.auth)), Wire(x.addit))
        /\ Len(Wire(x.auth)) + Len(Wire(x.addit)) + Len(q) <= Len(b)
    BY <1>4, <1>5 DEF SectionsStand
  <2>4. auth = ReadAuthorities(b, at + 1, Len(x.auth)) /\ addit = ReadRecords(b, auth.reader, Len(x.addit))
    BY <2>2
  <2> HIDE DEF auth, addit
  <2>5. Matches(auth.records, x.auth) /\ Matches(addit.records, x.addit)
    BY <1>5, <2>1, <2>3, <2>4, ExtrasRead
  <2> QED
    BY <1>2, <1>7, <2>5 DEF auth, addit
<1> QED
  BY <1>8, <1>9

\* Matching records are shown alike, if records of another type are not shown.
LEMMA MatchesShow ==
  ASSUME NEW records, NEW s, Few(s), Matches(records, s), NEW types, OtherType \notin types
  PROVE  Lines(records, types) = Lines(Meant(s), types)
<1> DEFINE n == Len(s)
           m == Meant(s)
<1>1. DOMAIN m = 1 .. n /\ \A i \in 1 .. n : m[i] = s[i].record
  BY MeantIs
<1>2. DOMAIN records = 1 .. n /\ \A i \in 1 .. n : AsMeant(records[i], s[i].record)
  BY DEF Matches
<1> HIDE DEF n, m
<1>3. ASSUME NEW i \in 1 .. n PROVE Line(records[i], types) = Line(m[i], types)
  <2>1. AsMeant(records[i], m[i])
    BY <1>1, <1>2
  <2>2. records[i].name = m[i].name /\ records[i].type = m[i].type
    BY <2>1 DEF AsMeant
  <2>3. CASE m[i].type \in types
    <3>1. Known(m[i])
      BY <2>3 DEF Known
    <3>2. records[i].rdata = m[i].rdata
      BY <2>1, <3>1 DEF AsMeant
    <3> QED
      BY <2>2, <3>2 DEF Line
  <2>4. CASE m[i].type \notin types
    BY <2>2, <2>4 DEF Line
  <2> QED
    BY <2>3, <2>4
<1>4. [i \in 1 .. n |-> Line(records[i], types)] = [i \in 1 .. n |-> Line(m[i], types)]
  BY <1>3
<1> QED
  BY <1>1, <1>2, <1>4 DEF Lines, m

\* What a program is to make of a reply, answers.
AnswersRight(y, meant, r) ==
  /\ Len(y.answers) = Len(meant.answers)
  /\ \A i \in DOMAIN meant.answers : AsMeant(y.answers[i], meant.answers[i])
  /\ (\A i \in DOMAIN meant.answers : Known(meant.answers[i])) => y.reader = r.answers_end + 1

\* Both readings of a reply that was served.
ReadRight(r, meant) ==
  /\ AnswersRight(ParseResponse(r), meant, r)
  /\ Printed(ReadSections(r)) = Printed(meant)

\* A reply that was served is read right.
LEMMA ServedReadRight ==
  ASSUME ProperAliases, NEW q, NEW ls, Question(q, ls), NEW r, NEW s, NEW x, Served(r, q, ls, s, x),
         NEW meant, meant = [answers |-> Meant(s), auth |-> Meant(x.auth), addit |-> Meant(x.addit)]
  PROVE  ReadRight(r, meant)
<1>1. Few(s) /\ Few(x.auth) /\ Few(x.addit)
  <2>1. ExtrasFor(ls, HeaderLen + Len(q) + Len(Wire(s)), x)
    BY NoExtras DEF Served
  <2>2. AnswersFor(ls, s)
    BY DEF Served
  <2> QED
    BY <2>1, <2>2, AnswersAreFew, ExtrasAreFew
<1>2. meant.answers = Meant(s) /\ meant.auth = Meant(x.auth) /\ meant.addit = Meant(x.addit)
  OBVIOUS
<1>3. ASSUME NEW y, y = ParseResponse(r) PROVE AnswersRight(y, meant, r)
  <2> DEFINE m == Meant(s)
  <2>1. /\ Matches(y.answers, s)
        /\ (\A i \in 1 .. Len(s) : Known(s[i].record)) => y.reader = r.answers_end + 1
    BY <1>3, ServedParsed
  <2>2. /\ Len(m) = Len(s) /\ DOMAIN m = 1 .. Len(s)
        /\ \A i \in 1 .. Len(s) : m[i] = s[i].record
    BY <1>1, MeantIs
  <2>3. meant.answers = m
    BY <1>2
  <2> HIDE DEF m
  <2> QED
    BY <2>1, <2>2, <2>3 DEF AnswersRight, Matches
<1>4. ASSUME NEW y, y = ReadSections(r) PROVE Printed(y) = Printed(meant)
  <2>1. Matches(y.answers, s) /\ Matches(y.auth, x.auth) /\ Matches(y.addit, x.addit)
    BY <1>4, ServedRead
  <2>2. OtherType \notin {QTYPE_A, QTYPE_CNAME} /\ OtherType \notin {QTYPE_NS} /\ OtherType \notin {QTYPE_A}
    BY DEF OtherType, QTYPE_A, QTYPE_CNAME, QTYPE_NS
  <2>3. /\ Lines(y.answers, {QTYPE_A, QTYPE_CNAME}) = Lines(meant.answers, {QTYPE_A, QTYPE_CNAME})
        /\ Lines(y.auth, {QTYPE_NS}) = Lines(meant.auth, {QTYPE_NS})
        /\ Lines(y.addit, {QTYPE_A}) = Lines(meant.addit, {QTYPE_A})
    BY <1>1, <1>2, <2>1, <2>2, MatchesShow
  <2> QED
    BY <2>3 DEF Printed
<1> QED
  BY <1>3, <1>4 DEF ReadRight

\* Without records nothing is shown.
LEMMA NothingShown ==
  ASSUME NEW r, r.ans_count = 0, r.auth_count = 0, r.add_count = 0
  PROVE  Printed(ReadSections(r)) = Nothing
<1> DEFINE y == ReadSections(r)
<1>1. 0 \in 0 .. 2 /\ \A b, p : At(p, <<>>).records = <<>>
  BY DEF At
<1>2. \A b, p : ReadRecords(b, p, 0).records = <<>> /\ ReadAuthorities(b, p, 0).records = <<>>
  BY <1>1, ReadRecordsIs, ReadAuthoritiesIs DEF RecordTurns
<1>3. y.answers = <<>> /\ y.auth = <<>> /\ y.addit = <<>>
  BY <1>2 DEF ReadSections
<1> HIDE DEF y
<1>4. \A types : Lines(<<>>, types) = <<>>
  BY DEF Lines
<1>5. Printed(y) = Nothing
  BY <1>3, <1>4 DEF Printed, Nothing
<1> QED
  BY <1>5 DEF y

-----------------------------------------------------------------------------
(* The theorems.                                                             *)

\* The invariant behind both properties: a query that was sent is one that a
\* program makes of its host; a reply that was served is read right by either
\* program; and so was one that was read, or nothing was.
ReplyIsRead ==
  /\ host \in Hosts
  /\ phase \in {"sent", "unsent"} => Made(query, host)
  /\ phase = "answered" => ReadRight(reply, sent)
  /\ phase = "parsed" => AnswersRight(result, sent, reply)
  /\ phase = "read" => Printed(result) = Printed(sent)
  /\ phase = "failed" => Printed(result) = Nothing
  /\ phase = "printed" => printed = Printed(sent)
  /\ phase = "nothing printed" => printed = Nothing

\* It holds before a program has done anything.
LEMMA ReplyIsReadAtStart == LookupInit => ReplyIsRead
BY DEF LookupInit, Init, ReplyIsRead

\* Serving a query that a program made gives a reply that is read right.
LEMMA ServeKeeps ==
  ASSUME LabelsFit, RoomForHosts, ProperAliases, ReplyIsRead, Serve
  PROVE  ReplyIsRead'
<1> DEFINE ls == Understood.labels
<1>0. ReadPlainly(query) /\ ls = Labels(query, 1).labels
  <2>1. Understanding(query) = Labels(query, 1) /\ Labels(query, 1).pointer = 0
    BY UnderstoodPlainly DEF Serve, WrittenOut
  <2>2. Understanding(query).next = Len(query) - 3
    BY DEF Serve, WellFormed, Understood
  <2> QED
    BY <2>1, <2>2 DEF ReadPlainly, Understood
<1>1. host \in Hosts /\ Made(query, host) /\ host' = host /\ phase' = "answered"
  BY DEF ReplyIsRead, Serve
<1>2. Question(query, ls)
  BY <1>0, <1>1, MadeIsQuestion
<1>3. PICK s \in Answers :
       LET start == HeaderLen + Len(query)
           end   == start + Len(Wire(s))
       IN \E extra \in IF Len(s) > 1 THEN {[auth |-> <<>>, addit |-> <<>>]}
                       ELSE Extras(end) :
            /\ sent' = [answers |-> Meant(s), auth |-> Meant(extra.auth),
                        addit |-> Meant(extra.addit)]
            /\ reply' = [bytes |-> [i \in 1 .. HeaderLen |-> 0] \o query
                                  \o Wire(s) \o Wire(extra.auth) \o Wire(extra.addit),
                         ans_count |-> Len(s), auth_count |-> Len(extra.auth),
                         add_count |-> Len(extra.addit), answers_end |-> end]
  BY Zenon DEF Serve
<1> DEFINE at == HeaderLen + Len(query) + Len(Wire(s))
<1>4. PICK x \in IF Len(s) > 1 THEN {[auth |-> <<>>, addit |-> <<>>]} ELSE Extras(at) :
            /\ sent' = [answers |-> Meant(s), auth |-> Meant(x.auth), addit |-> Meant(x.addit)]
            /\ reply' = [bytes |-> Message(query, Wire(s), Wire(x.auth), Wire(x.addit)),
                         ans_count |-> Len(s), auth_count |-> Len(x.auth),
                         add_count |-> Len(x.addit), answers_end |-> at]
  BY <1>3, Zenon DEF Message
<1>5. AnswersFor(ls, s)
  BY AnswersAre
<1>6. Len(s) \in 0 .. 2
  BY <1>5, AnswersAreFew, MeantIs
<1>7. \/ x.auth = <<>> /\ x.addit = <<>>
      \/ Len(s) < 2 /\ ExtrasFor(ls, at, x)
  <2>1. CASE Len(s) > 1
    BY <1>4, <2>1
  <2>2. CASE ~(Len(s) > 1)
    <3>1. x \in Extras(at)
      BY <1>4, <2>2
    <3> HIDE DEF at, ls
    <3>2. ExtrasFor(ls, at, x)
      BY <3>1, ExtrasAre DEF ls
    <3> QED
      BY <1>6, <2>2, <3>2
  <2> QED
    BY <2>1, <2>2
<1> HIDE DEF ls
<1>8. Served(reply', query, ls, s, x)
  BY <1>4, <1>5, <1>7 DEF Served
<1>9. ReadRight(reply', sent')
  BY <1>2, <1>4, <1>8, ServedReadRight
<1> QED
  BY <1>1, <1>9 DEF ReplyIsRead

\* Sending a query.
LEMMA SendKeeps ==
  ASSUME ReplyIsRead, [LookupNext]_lookupVars, phase' \in {"sent", "unsent"}
  PROVE  ReplyIsRead'
<1>1. host' = host /\ host \in Hosts
  BY HowSent DEF ReplyIsRead
<1>2. Made(query', host')
  <2>1. CASE phase' = phase /\ query' = query
    BY <1>1, <2>1 DEF ReplyIsRead
  <2>2. CASE \E junk \in Junk : query' = QueryOf(SendReqBuffer(junk, host))
    BY <1>1, <2>2 DEF Made
  <2>3. CASE query' = QueryOf(ChangetoDnsNameFormat(host))
    BY <1>1, <2>3 DEF Made
  <2> QED
    BY <2>1, <2>2, <2>3, HowSent
<1> QED
  BY <1>1, <1>2 DEF ReplyIsRead

\* Reading and printing.
LEMMA ReadingKeeps ==
  ASSUME ReplyIsRead, HandleData \/ Receive \/ ReceiveFails \/ PrintSections
  PROVE  ReplyIsRead'
<1>1. CASE HandleData
  <2>1. AnswersRight(result', sent', reply')
    BY <1>1 DEF ReplyIsRead, HandleData, ReadRight
  <2> QED
    BY <1>1, <2>1 DEF ReplyIsRead, HandleData
<1>2. CASE Receive
  <2>1. Printed(result') = Printed(sent')
    BY <1>2 DEF ReplyIsRead, Receive, ReadRight
  <2> QED
    BY <1>2, <2>1 DEF ReplyIsRead, Receive
<1>3. CASE ReceiveFails
  <2> DEFINE r == [bytes |-> [i \in 1 .. HeaderLen |-> 0] \o query,
                   ans_count |-> 0, auth_count |-> 0, add_count |-> 0]
  <2>1. result' = ReadSections(r)
    BY <1>3 DEF ReceiveFails
  <2>2. r.ans_count = 0 /\ r.auth_count = 0 /\ r.add_count = 0
    OBVIOUS
  <2> HIDE DEF r
  <2>3. Printed(result') = Nothing
    BY <2>1, <2>2, NothingShown
  <2> QED
    BY <1>3, <2>3 DEF ReplyIsRead, ReceiveFails
<1>4. CASE PrintSections
  <2>1. CASE phase = "read"
    <3>1. phase' = "printed" /\ printed' = Printed(sent')
      BY <1>4, <2>1 DEF ReplyIsRead, PrintSections
    <3> QED
      BY <1>4, <3>1 DEF ReplyIsRead, PrintSections
  <2>2. CASE phase # "read"
    <3>1. phase' = "nothing printed" /\ printed' = Nothing
      BY <1>4, <2>2 DEF ReplyIsRead, PrintSections
    <3> QED
      BY <1>4, <3>1 DEF ReplyIsRead, PrintSections
  <2> QED
    BY <2>1, <2>2
<1> QED
  BY <1>1, <1>2, <1>3, <1>4

\* Every step keeps the invariant.
LEMMA ReplyIsReadHolds ==
  ASSUME LabelsFit, RoomForHosts, ProperAliases, ReplyIsRead, [LookupNext]_lookupVars
  PROVE  ReplyIsRead'
<1>1. CASE phase' \in {"sent", "unsent"}
  BY <1>1, SendKeeps
<1>2. CASE phase' \notin {"sent", "unsent"}
  <2>1. CASE UNCHANGED lookupVars
    BY <2>1 DEF lookupVars, vars, prototypeVars, ReplyIsRead
  <2>2. CASE GetDnsServers
    BY <1>2, <2>2 DEF GetDnsServers, ReplyIsRead
  <2>3. CASE SendQuery
    BY <1>2, <2>3 DEF SendQuery
  <2>4. CASE Receive \/ ReceiveFails \/ PrintSections \/ HandleData
    BY <2>4, ReadingKeeps
  <2>5. CASE Serve
    BY <2>5, ServeKeeps
  <2>6. CASE Discard
    BY <2>6 DEF Discard, ReplyIsRead
  <2>7. CASE \E junk \in Junk : SendReq(junk)
    BY <1>2, <2>7 DEF SendReq
  <2> QED
    BY <2>1, <2>2, <2>3, <2>4, <2>5, <2>6, <2>7 DEF LookupNext, lookupVars
<1> QED
  BY <1>1, <1>2

\* parse_response (asyncdns.cpp) gives the records the server sent, however
\* their names are compressed, of a query for any host whose labels fit.
THEOREM RepliesAreRead ==
  ASSUME LabelsFit, RoomForHosts, ProperAliases
  PROVE  LookupSpec => []RecordsAsSent
<1>1. LookupInit => ReplyIsRead
  BY ReplyIsReadAtStart
<1>2. ReplyIsRead /\ [LookupNext]_lookupVars => ReplyIsRead'
  BY ReplyIsReadHolds
<1>3. ReplyIsRead => RecordsAsSent
  BY DEF ReplyIsRead, AnswersRight, RecordsAsSent
<1> QED
  BY <1>1, <1>2, <1>3, PTL DEF LookupSpec, lookupVars

\* dns.c prints of every section what the server said in it, and no record
\* where it received no reply.
THEOREM RepliesArePrinted ==
  ASSUME LabelsFit, RoomForHosts, ProperAliases
  PROVE  LookupSpec => []PrintsTheReply
<1>1. LookupInit => ReplyIsRead
  BY ReplyIsReadAtStart
<1>2. ReplyIsRead /\ [LookupNext]_lookupVars => ReplyIsRead'
  BY ReplyIsReadHolds
<1>3. ReplyIsRead => PrintsTheReply
  BY DEF ReplyIsRead, PrintsTheReply
<1> QED
  BY <1>1, <1>2, <1>3, PTL DEF LookupSpec, lookupVars
==============================================================================
