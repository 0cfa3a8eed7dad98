----------------------------- MODULE NameProofs -----------------------------
(***************************************************************************)
(* What the two programs write for a host name is what a name server reads *)
(* in it.  The loops of change_to_dns_name_format (asyncdns.cpp) and of    *)
(* ChangetoDnsNameFormat (dns.c) are followed character by character: both *)
(* lay out the labels of the name, each behind its length, and differ in   *)
(* where they put the zero behind them.  A server reads the labels and     *)
(* then what lies between them and that zero.                              *)
(*                                                                         *)
(* And the other way: read_name, followed through the turns of its two     *)
(* loops, gives the string of a name that is in a message, whether it is   *)
(* written there in full or ends in a pointer (ReadsName).                 *)
(***************************************************************************)
EXTENDS DnsPrototype, SequenceTheorems, Recursion

-----------------------------------------------------------------------------
(* What a server reads.                                                      *)

\* What is read at a place: labels, where the name ends (0 if nowhere) and where
\* a pointer that ends it leads (0 if none does).
Understandings == [labels : Seq(Seq(Nat)), next : Nat, pointer : Nat]

\* What a server reads at place q.
ReadAt(b, q, rest) ==
  IF IsLabel(b, q)
  THEN [labels |-> <<SubSeq(b, q + 1, q + b[q])>> \o rest.labels,
        next |-> rest.next, pointer |-> rest.pointer]
  ELSE EndOfName(b, q)

\* What ends a name at q, by the byte there.
LEMMA EndIs ==
  ASSUME NEW b \in Seq(Nat), NEW q \in Places
  PROVE  /\ EndOfName(b, q) \in Understandings
         /\ q <= Len(b) /\ b[q] = 0 =>
              EndOfName(b, q) = [labels |-> <<>>, next |-> q + 1, pointer |-> 0]
         /\ q > Len(b) \/ b[q] \in 1 .. Pointer - 1 => EndOfName(b, q) = NotUnderstood
<1>1. q \in Nat /\ q >= 1 /\ Len(b) \in Nat /\ (q <= Len(b) => b[q] \in Nat)
      /\ (q < Len(b) => b[q + 1] \in Nat)
  BY DEF Places
<1>2. <<>> \in Seq(Seq(Nat))
  OBVIOUS
<1>3. CASE q <= Len(b) /\ b[q] = 0
  <2>1. EndOfName(b, q) = [labels |-> <<>>, next |-> q + 1, pointer |-> 0]
    BY <1>3 DEF EndOfName
  <2> QED
    BY <1>1, <1>2, <1>3, <2>1 DEF Understandings, Pointer
<1>4. CASE ~ (q <= Len(b) /\ b[q] = 0) /\ q < Len(b) /\ b[q] >= Pointer
  <2> DEFINE x == (b[q] - Pointer) * 256 + b[q + 1] + 1
  <2>1. EndOfName(b, q) = [labels |-> <<>>, next |-> q + 2, pointer |-> x]
    BY <1>4 DEF EndOfName
  <2>2. x \in Nat
    BY <1>1, <1>4 DEF Pointer
  <2>3. b[q] \in Nat /\ ~ (b[q] \in 1 .. Pointer - 1) /\ ~ (q > Len(b))
    <3> DEFINE y == b[q]
               n == Len(b)
    <3>1. y \in Nat /\ y >= Pointer /\ q \in Nat /\ n \in Nat /\ q < n
      BY <1>1, <1>4
    <3> HIDE DEF y, n
    <3>2. y \in Nat /\ ~ (y \in 1 .. Pointer - 1) /\ ~ (q > n)
      BY <3>1 DEF Pointer
    <3> QED
      BY <3>2 DEF y, n
  <2> HIDE DEF x
  <2> QED
    BY <1>1, <1>2, <1>4, <2>1, <2>2, <2>3 DEF Understandings
<1>5. CASE ~ (q <= Len(b) /\ b[q] = 0) /\ ~ (q < Len(b) /\ b[q] >= Pointer)
  <2>1. EndOfName(b, q) = NotUnderstood
    BY <1>5 DEF EndOfName
  <2> QED
    BY <1>2, <1>5, <2>1 DEF Understandings, NotUnderstood
<1> QED
  BY <1>3, <1>4, <1>5

\* An element put in front of a sequence.
LEMMA Prepend ==
  ASSUME NEW T, NEW x \in T, NEW r \in Seq(T)
  PROVE  <<x>> \o r \in Seq(T)
OBVIOUS

\* The function Labels is defined by exists: the place it reads from grows until
\* the message ends, so that Labels satisfies its own equation.
LEMMA LabelsRecursion ==
  ASSUME NEW b \in Seq(Nat)
  PROVE  \A q \in Places : Labels(b, q) = ReadAt(b, q, Labels(b, q + b[q] + 1))
<1> DEFINE n == Len(b)
           V == Understandings
           Stop == {q \in Places : ~IsLabel(b, q)}
           stop == NotUnderstood
           base == [q \in Places |-> ReadAt(b, q, stop)]
           next == [q \in Places |-> IF q \in Stop THEN q ELSE q + b[q] + 1]
           F == [p \in Places \X V |-> ReadAt(b, p[1], p[2])]
<1>1. n \in Nat /\ \A q \in Places : ~ (q > n) => b[q] \in Nat
  BY DEF Places
<1>2. \A q \in Places \ Stop : /\ q + b[q] + 1 \in Places /\ q + b[q] + 1 > q
                               /\ SubSeq(b, q + 1, q + b[q]) \in Seq(Nat)
  <2> TAKE q \in Places \ Stop
  <2>1. q \in Nat /\ b[q] \in Nat /\ q >= 1 /\ q + b[q] <= n
    BY <1>1 DEF Places, IsLabel
  <2> DEFINE d == q + b[q]
  <2>2. d \in Nat /\ d <= n /\ q + 1 >= 1
    BY <2>1
  <2>3. SubSeq(b, q + 1, d) \in Seq(Nat)
    <3> HIDE DEF d
    <3> QED
      BY <2>1, <2>2, SMTT(40)
  <2>4. d + 1 \in Places /\ d + 1 > q
    <3>1. d >= q
      BY <2>1
    <3> HIDE DEF d
    <3> QED
      BY <2>1, <2>2, <3>1 DEF Places
  <2> QED
    BY <2>3, <2>4
<1>3. MovesUp(next, Stop, n)
  <2> HIDE DEF Stop
  <2>1. next \in [Places -> Places] /\ \A q \in Places \ Stop : next[q] > q
    BY <1>2
  <2>2. \A q \in Places : q > n => q \in Stop
    BY DEF Stop, IsLabel, Places
  <2> HIDE DEF next
  <2> QED
    BY <2>1, <2>2 DEF MovesUp
<1>4. \A q \in Stop : \A r : ReadAt(b, q, r) \in V /\ ReadAt(b, q, r) = ReadAt(b, q, stop)
  <2> TAKE q \in Stop
  <2> TAKE r
  <2>1. ReadAt(b, q, r) = EndOfName(b, q) /\ ReadAt(b, q, stop) = EndOfName(b, q)
    BY DEF ReadAt
  <2> QED
    BY <2>1, EndIs
<1>5. \A q \in Places \ Stop : \A r \in V : ReadAt(b, q, r) \in V
  <2> TAKE q \in Places \ Stop
  <2> TAKE r \in V
  <2>1. ReadAt(b, q, r) = [labels |-> <<SubSeq(b, q + 1, q + b[q])>> \o r.labels,
                           next |-> r.next, pointer |-> r.pointer]
    BY DEF ReadAt
  <2>2. r.labels \in Seq(Seq(Nat)) /\ r.next \in Nat /\ r.pointer \in Nat
    BY DEF Understandings
  <2>3. <<SubSeq(b, q + 1, q + b[q])>> \o r.labels \in Seq(Seq(Nat))
    <3> DEFINE l == SubSeq(b, q + 1, q + b[q])
               m == r.labels
               T == Seq(Nat)
    <3>1. l \in T /\ m \in Seq(T)
      BY <1>2, <2>2
    <3> HIDE DEF l, m, T
    <3>2. <<l>> \o m \in Seq(T)
      BY <3>1, Prepend
    <3> QED
      BY <3>2 DEF l, m, T
  <2> QED
    BY <2>1, <2>2, <2>3 DEF Understandings
<1>6. stop \in V
  BY DEF Understandings, NotUnderstood
<1>7. ASSUME NEW q \in Places, NEW r \in V PROVE ReadAt(b, q, r) \in V
  BY <1>4, <1>5
<1> HIDE DEF V, stop
<1>8. PICK h \in [Places -> V] : UpRecursive(h, Stop, base, next, F)
  <2>1. base \in [Places -> V]
    BY <1>6, <1>7
  <2>2. F \in UpSteps(V)
    BY <1>7 DEF UpSteps
  <2> HIDE DEF Stop, base, next, F, n
  <2> QED
    BY <1>1, <1>3, <2>1, <2>2, UpRecursion
<1>9. h = [q \in Places |-> ReadAt(b, q, h[q + b[q] + 1])]
  <2>1. ASSUME NEW q \in Places PROVE h[q] = ReadAt(b, q, h[q + b[q] + 1])
    <3>1. h[q] = IF q \in Stop THEN base[q] ELSE F[<<q, h[next[q]]>>]
      BY <1>8 DEF UpRecursive
    <3>2. CASE q \in Stop
      <4>1. h[q] = ReadAt(b, q, stop)
        BY <3>1, <3>2
      <4> QED
        BY <1>4, <3>2, <4>1
    <3>3. CASE q \notin Stop
      <4>1. next[q] = q + b[q] + 1 /\ h[q + b[q] + 1] \in V
        BY <1>2, <3>3
      <4> HIDE DEF Stop, next
      <4>2. F[<<q, h[next[q]]>>] = ReadAt(b, q, h[q + b[q] + 1])
        BY <4>1
      <4> QED
        BY <3>1, <3>3, <4>2
    <3> QED
      BY <3>2, <3>3
  <2> QED
    BY <2>1
<1> DEFINE from == CHOOSE f : f = [q \in Places |-> ReadAt(b, q, f[q + b[q] + 1])]
<1>10. \A q \in Places : Labels(b, q) = from[q]
  BY DEF Labels, Places, ReadAt
<1>11. from = [q \in Places |-> ReadAt(b, q, from[q + b[q] + 1])]
  BY <1>9
<1> HIDE DEF from
<1>12. \A q \in Places : from[q] = ReadAt(b, q, from[q + b[q] + 1])
  BY <1>11
<1>13. ASSUME NEW q \in Places
       PROVE  Labels(b, q) = ReadAt(b, q, Labels(b, q + b[q] + 1))
  <2>1. CASE q \in Stop
    BY <1>4, <1>10, <1>12, <2>1
  <2>2. CASE q \notin Stop
    BY <1>2, <1>10, <1>12, <2>2
  <2> QED
    BY <2>1, <2>2
<1> QED
  BY <1>10, <1>13, <1>13 DEF V

-----------------------------------------------------------------------------
(* The labels of a host name.                                                *)

\* The dot that ends the label at i, or the place behind the name.
LabelEnd(s, i) == Min({k \in i .. Len(s) + 1 : k = Len(s) + 1 \/ s[k] = Dot})

\* Such a place.
EndsLabel(s, i, e) ==
  /\ e \in i .. Len(s) + 1
  /\ e = Len(s) + 1 \/ s[e] = Dot
  /\ \A k \in i .. e - 1 : s[k] # Dot

\* LabelEnd is one.
LEMMA LabelEndIs ==
  ASSUME NEW s \in Seq(Nat), NEW i \in Places, i <= Len(s) + 1
  PROVE  EndsLabel(s, i, LabelEnd(s, i))
<1> DEFINE T == {k \in i .. Len(s) + 1 : k = Len(s) + 1 \/ s[k] = Dot}
<1>1. T \in SUBSET Nat /\ Len(s) + 1 \in T /\ i \in Nat /\ Len(s) \in Nat
  BY DEF Places
<1>2. Min(T) \in T /\ \A y \in T : Min(T) <= y
  <2> HIDE DEF T
  <2> QED
    BY <1>1, MinOfPlaces
<1> DEFINE e == Min(T)
<1>3. e = LabelEnd(s, i)
  BY DEF LabelEnd
<1> HIDE DEF e
<1>4. e \in T /\ \A y \in T : e <= y
  BY <1>2 DEF e
<1>5. \A k \in i .. e - 1 : s[k] # Dot
  BY <1>1, <1>4
<1>6. EndsLabel(s, i, e)
  BY <1>4, <1>5 DEF EndsLabel
<1> QED
  BY <1>3, <1>6

\* There is only one.
LEMMA OneEnd ==
  ASSUME NEW s \in Seq(Nat), NEW i \in Places, NEW d, NEW e,
         EndsLabel(s, i, d), EndsLabel(s, i, e)
  PROVE  d = e
<1>1. d \in Nat /\ e \in Nat /\ i \in Nat /\ Len(s) \in Nat
  BY DEF EndsLabel, Places
<1>2. d >= i /\ e >= i /\ d <= Len(s) + 1 /\ e <= Len(s) + 1
  BY <1>1 DEF EndsLabel
<1>3. ~ (d < e)
  BY <1>1, <1>2 DEF EndsLabel
<1>4. ~ (e < d)
  BY <1>1, <1>2 DEF EndsLabel
<1> QED
  BY <1>1, <1>3, <1>4

\* The labels from place i on, given those behind the label at i.
LabelsFrom(s, i, rest) ==
  IF i > Len(s) THEN <<>> ELSE <<SubSeq(s, i, LabelEnd(s, i) - 1)>> \o rest

\* So does the function that HostLabels is defined by.
LEMMA HostRecursion ==
  ASSUME NEW s \in Seq(Nat)
  PROVE  \E h : /\ HostLabels(s) = h[1]
                /\ \A i \in Places : h[i] = LabelsFrom(s, i, h[LabelEnd(s, i) + 1])
<1> DEFINE n == Len(s)
           V == Seq(Seq(Nat))
           Stop == {i \in Places : i > n}
           base == [i \in Places |-> <<>>]
           next == [i \in Places |-> IF i \in Stop THEN i ELSE LabelEnd(s, i) + 1]
           F == [p \in Places \X V |-> LabelsFrom(s, p[1], p[2])]
<1>1. n \in Nat
  OBVIOUS
<1>2. \A i \in Places \ Stop : LabelEnd(s, i) \in Nat /\ LabelEnd(s, i) >= i /\ LabelEnd(s, i) <= n + 1
  BY LabelEndIs DEF EndsLabel, Places
<1>3. MovesUp(next, Stop, n)
  <2>1. \A i \in Places \ Stop : LabelEnd(s, i) + 1 \in Places /\ LabelEnd(s, i) + 1 > i
    BY <1>2 DEF Places
  <2>2. \A i \in Places : i > n => i \in Stop
    OBVIOUS
  <2> HIDE DEF Stop
  <2> QED
    BY <2>1, <2>2 DEF MovesUp
<1>4. \A i \in Places \ Stop : \A r \in V : LabelsFrom(s, i, r) \in V
  <2> TAKE i \in Places \ Stop
  <2> TAKE r \in V
  <2> DEFINE T == Seq(Nat)
             l == SubSeq(s, i, LabelEnd(s, i) - 1)
  <2>1. l \in T
    <3> DEFINE e == LabelEnd(s, i) - 1
    <3>1. e \in Int /\ i \in Nat /\ i >= 1 /\ e <= n
      BY <1>1, <1>2 DEF Places
    <3> HIDE DEF e
    <3>2. SubSeq(s, i, e) \in Seq(Nat)
      BY <3>1
    <3> QED
      BY <3>2 DEF e
  <2>2. LabelsFrom(s, i, r) = <<l>> \o r /\ r \in Seq(T)
    BY DEF LabelsFrom
  <2> HIDE DEF T, l
  <2>3. <<l>> \o r \in Seq(T)
    BY <2>1, <2>2, Prepend
  <2> QED
    BY <2>2, <2>3 DEF T
<1>5. \A i \in Stop : \A r : LabelsFrom(s, i, r) = <<>>
  BY DEF LabelsFrom
<1>6. <<>> \in V
  OBVIOUS
<1> HIDE DEF V
<1>7. PICK h \in [Places -> V] : UpRecursive(h, Stop, base, next, F)
  <2>1. base \in [Places -> V]
    BY <1>6
  <2>2. F \in UpSteps(V)
    BY <1>4, <1>5, <1>6 DEF UpSteps
  <2> HIDE DEF Stop, base, next, F, n
  <2> QED
    BY <1>1, <1>3, <2>1, <2>2, UpRecursion
<1>8. h = [i \in Places |-> LabelsFrom(s, i, h[LabelEnd(s, i) + 1])]
  <2>1. ASSUME NEW i \in Places PROVE h[i] = LabelsFrom(s, i, h[LabelEnd(s, i) + 1])
    <3>1. h[i] = IF i \in Stop THEN base[i] ELSE F[<<i, h[next[i]]>>]
      BY <1>7 DEF UpRecursive
    <3>2. CASE i \in Stop
      BY <1>5, <3>1, <3>2
    <3>3. CASE i \notin Stop
      <4>1. next[i] = LabelEnd(s, i) + 1 /\ h[LabelEnd(s, i) + 1] \in V
        BY <1>2, <3>3 DEF Places
      <4> HIDE DEF Stop, next
      <4>2. F[<<i, h[next[i]]>>] = LabelsFrom(s, i, h[LabelEnd(s, i) + 1])
        BY <4>1
      <4> QED
        BY <3>1, <3>3, <4>2
    <3> QED
      BY <3>2, <3>3
  <2> QED
    BY <2>1
<1> DEFINE from == CHOOSE f : f = [i \in Places |-> LabelsFrom(s, i, f[LabelEnd(s, i) + 1])]
<1>9. HostLabels(s) = from[1]
  BY DEF HostLabels, Places, LabelsFrom, LabelEnd
<1>10. from = [i \in Places |-> LabelsFrom(s, i, from[LabelEnd(s, i) + 1])]
  BY <1>8
<1> HIDE DEF from
<1>11. \A i \in Places : from[i] = LabelsFrom(s, i, from[LabelEnd(s, i) + 1])
  BY <1>10
<1> QED
  BY <1>9, <1>11

-----------------------------------------------------------------------------
(* A query, and what a server reads in it.                                   *)

\* A label of s starts at j, or could behind a final dot.
StartsLabel(s, j) == j = 1 \/ s[j - 1] = Dot

\* No label is empty or longer than a label may be.
Proper(s) ==
  /\ \A i \in 1 .. Len(s) : s[i] = Dot => ~StartsLabel(s, i)
  /\ \A j \in 1 .. Len(s) : StartsLabel(s, j) => LabelEnd(s, j) - j <= MaxLabel

\* Where the length of a further label would be.
Behind(s) == IF StartsLabel(s, Len(s) + 1) THEN Len(s) + 1 ELSE Len(s) + 2

\* The labels of s, each behind its length.
LaidOut(s, b) ==
  /\ \A i \in 1 .. Len(s) : s[i] # Dot => b[i + 1] = s[i]
  /\ \A j \in 1 .. Len(s) : StartsLabel(s, j) => b[j] = LabelEnd(s, j) - j
  /\ StartsLabel(s, Len(s) + 1) => b[Len(s) + 1] = 0

\* A query for s whose name ends with the zero at z.
Asks(q, s, z) ==
  /\ q \in Seq(Nat) /\ z \in Nat /\ Behind(s) <= z /\ Len(q) = z + 4
  /\ LaidOut(s, q)
  /\ q[z] = 0 /\ q[z + 1] = 0 /\ q[z + 2] = 1 /\ q[z + 3] = 0 /\ q[z + 4] = 1

\* Counting from j instead of 1.
LEMMA Shifted ==
  ASSUME NEW j \in Nat, NEW e \in Nat, NEW i \in 1 .. e - j
  PROVE  j + i - 1 \in j .. e - 1 /\ j + i - 1 + 1 = j + i
OBVIOUS

\* Two sequences with the same elements.
LEMMA SameSeq ==
  ASSUME NEW x \in Seq(Nat), NEW y \in Seq(Nat), NEW m \in Nat, Len(x) = m, Len(y) = m,
         \A i \in 1 .. m : x[i] = y[i]
  PROVE  x = y
OBVIOUS

\* A label of the name, read one place further in the query.
LEMMA SameSubSeq ==
  ASSUME NEW q \in Seq(Nat), NEW s \in Seq(Nat), NEW j \in Nat, NEW e \in Nat,
         1 <= j, j <= e, e <= Len(s) + 1, e <= Len(q),
         \A k \in j .. e - 1 : q[k + 1] = s[k]
  PROVE  SubSeq(q, j + 1, e) = SubSeq(s, j, e - 1)
<1> DEFINE x == SubSeq(q, j + 1, e)
           y == SubSeq(s, j, e - 1)
           m == e - j
<1>1. x \in Seq(Nat) /\ Len(x) = m /\ \A i \in 1 .. m : x[i] = q[j + i]
  OBVIOUS
<1>2. y \in Seq(Nat) /\ Len(y) = m /\ \A i \in 1 .. m : y[i] = s[j + i - 1]
  OBVIOUS
<1>0. m \in Nat
  OBVIOUS
<1> HIDE DEF x, y
<1>3. \A i \in 1 .. m : q[j + i] = s[j + i - 1]
  <2> TAKE i \in 1 .. m
  <2>1. j + i - 1 \in j .. e - 1 /\ j + i - 1 + 1 = j + i
    BY Shifted
  <2> QED
    BY <2>1
<1> HIDE DEF m
<1>4. \A i \in 1 .. m : x[i] = y[i]
  BY <1>1, <1>2, <1>3
<1>5. x = y
  BY <1>0, <1>1, <1>2, <1>4, SameSeq
<1> QED
  BY <1>5 DEF x, y

\* Where the further label would be is one or two places behind the name.
LEMMA BehindIsNat ==
  ASSUME NEW s \in Seq(Nat)
  PROVE  Behind(s) \in Places /\ Len(s) < Behind(s) /\ Behind(s) <= Len(s) + 2
<1>1. Len(s) \in Nat
  OBVIOUS
<1> QED
  BY <1>1 DEF Behind, Places

\* A label of the name, and what is read behind it.
ReadsLabel(q, s, j, e) ==
  Labels(q, j) = [labels |-> <<SubSeq(s, j, e - 1)>> \o Labels(q, e + 1).labels,
                  next |-> Labels(q, e + 1).next,
                  pointer |-> Labels(q, e + 1).pointer]

\* What a server reads at the start of a label.
LEMMA ReadLabel ==
  ASSUME NEW s \in Seq(Nat), Proper(s), NEW q, NEW z, Asks(q, s, z),
         NEW j \in 1 .. Len(s), StartsLabel(s, j), NEW e, e = LabelEnd(s, j)
  PROVE  ReadsLabel(q, s, j, e)
<1>1. j \in Places /\ j \in Nat /\ 1 <= j /\ j <= Len(s) /\ Len(s) \in Nat
  BY DEF Places
<1>2. EndsLabel(s, j, e)
  BY <1>1, LabelEndIs
<1>3. e \in Nat /\ j <= e /\ e <= Len(s) + 1
  BY <1>1, <1>2 DEF EndsLabel
<1>4. e # j
  BY <1>1, <1>2 DEF EndsLabel, Proper
<1>5. q[j] = e - j /\ q \in Seq(Nat) /\ Len(s) + 1 <= Len(q)
  BY BehindIsNat, <1>1 DEF Asks, LaidOut, Places
<1>6. SubSeq(q, j + 1, e) = SubSeq(s, j, e - 1)
  <2>1. \A k \in j .. e - 1 : q[k + 1] = s[k]
    <3> TAKE k \in j .. e - 1
    <3>1. k \in 1 .. Len(s) /\ s[k] # Dot
      BY <1>1, <1>2, <1>3 DEF EndsLabel
    <3> QED
      BY <3>1 DEF Asks, LaidOut
  <2>2. e <= Len(q)
    BY <1>1, <1>3, <1>5
  <2> QED
    BY <1>1, <1>3, <1>5, <2>1, <2>2, SameSubSeq, ZenonT(60)
<1>7. Labels(q, j) = ReadAt(q, j, Labels(q, j + q[j] + 1))
  BY <1>1, <1>5, LabelsRecursion
<1>8. j + q[j] = e
  BY <1>1, <1>3, <1>5
<1>9. Labels(q, j) = ReadAt(q, j, Labels(q, e + 1))
  BY <1>7, <1>8
<1>10. IsLabel(q, j)
  <2> DEFINE l == Len(q)
  <2>1. l \in Nat /\ j \in Nat /\ e \in Nat
    BY <1>1, <1>3, <1>5
  <2>2. j <= l /\ e <= l
    BY <1>1, <1>3, <1>5, SMTT(40)
  <2> HIDE DEF l
  <2>3. e - j <= MaxLabel
    BY DEF Proper
  <2>4. e - j \in 1 .. MaxLabel
    <3> DEFINE y == e - j
    <3>1. y \in Int /\ y >= 1
      BY <1>3, <1>4, <2>1
    <3>2. y <= MaxLabel
      BY <2>3
    <3> HIDE DEF y
    <3>3. y \in 1 .. MaxLabel
      BY <3>1, <3>2 DEF MaxLabel
    <3> QED
      BY <3>3 DEF y
  <2> QED
    BY <1>5, <1>8, <2>2, <2>4 DEF l, IsLabel
<1> QED
  BY <1>6, <1>8, <1>9, <1>10 DEF ReadAt, ReadsLabel

\* The server reads the labels of s and then whatever comes behind.
LEMMA ReadThrough ==
  ASSUME NEW s \in Seq(Nat), Proper(s), NEW q, NEW z, Asks(q, s, z)
  PROVE  /\ Labels(q, 1).next = Labels(q, Behind(s)).next
         /\ Labels(q, 1).pointer = Labels(q, Behind(s)).pointer
         /\ Labels(q, Behind(s)).labels = <<>> => Labels(q, 1).labels = HostLabels(s)
<1>1. PICK h : /\ HostLabels(s) = h[1]
               /\ \A i \in Places : h[i] = LabelsFrom(s, i, h[LabelEnd(s, i) + 1])
  BY HostRecursion
<1> DEFINE last == Behind(s)
           Starts == {j \in Places : j = last \/ (j <= Len(s) /\ StartsLabel(s, j))}
           Read(j) == /\ Labels(q, j).next = Labels(q, last).next
                      /\ Labels(q, j).pointer = Labels(q, last).pointer
                      /\ Labels(q, last).labels = <<>> => Labels(q, j).labels = h[j]
           S == {k \in Nat : \A j \in Starts : j + k > Len(s) => Read(j)}
<1>2. last \in Places /\ Len(s) < last /\ Len(s) \in Nat
  BY BehindIsNat
<1>3. Read(last)
  <2>1. h[last] = <<>>
    BY <1>1, <1>2 DEF LabelsFrom, Places
  <2> QED
    BY <2>1
<1>4. ASSUME NEW j \in Starts, j <= Len(s)
      PROVE  /\ LabelEnd(s, j) + 1 \in Starts /\ LabelEnd(s, j) + 1 > j
             /\ Read(LabelEnd(s, j) + 1) => Read(j)
  <2> DEFINE e == LabelEnd(s, j)
  <2>1. j \in Places /\ j \in 1 .. Len(s) /\ StartsLabel(s, j)
    BY <1>2, <1>4 DEF Places
  <2>2. EndsLabel(s, j, e)
    BY <2>1, LabelEndIs
  <2> HIDE DEF e
  <2>3. e \in Nat /\ e >= j /\ e <= Len(s) + 1 /\ j \in Nat
    BY <1>2, <2>1, <2>2 DEF EndsLabel
  <2>4. e + 1 \in Starts
    <3>1. CASE e = Len(s) + 1
      <4>1. ~StartsLabel(s, Len(s) + 1)
        <5>1. Len(s) \in j .. e - 1 /\ Len(s) + 1 # 1 /\ Len(s) + 1 - 1 = Len(s)
          BY <1>2, <2>1, <2>3, <3>1
        <5>2. s[Len(s)] # Dot
          BY <2>2, <5>1 DEF EndsLabel
        <5> QED
          BY <5>1, <5>2 DEF StartsLabel
      <4>2. last = e + 1
        BY <1>2, <3>1, <4>1 DEF Behind
      <4> QED
        BY <1>2, <4>2
    <3>2. CASE e # Len(s) + 1
      <4>0. s[e] = Dot
        BY <2>2, <3>2 DEF EndsLabel
      <4>1. s[e] = Dot /\ e <= Len(s) /\ e + 1 \in Places /\ e + 1 - 1 = e
        BY <1>2, <2>3, <3>2, <4>0 DEF Places
      <4>2. StartsLabel(s, e + 1)
        BY <2>3, <4>1 DEF StartsLabel
      <4>3. CASE e = Len(s)
        BY <1>2, <4>1, <4>2, <4>3 DEF Behind
      <4>4. CASE e # Len(s)
        <5>1. e + 1 <= Len(s)
          BY <1>2, <2>3, <4>1, <4>4
        <5> QED
          BY <4>1, <4>2, <5>1
      <4> QED
        BY <4>3, <4>4
    <3> QED
      BY <3>1, <3>2
  <2>5. ReadsLabel(q, s, j, e)
    <3>1. j \in 1 .. Len(s) /\ StartsLabel(s, j) /\ e = LabelEnd(s, j)
      BY <2>1 DEF e
    <3> HIDE DEF Starts, Read
    <3> QED
      BY <3>1, ReadLabel
  <2>6. h[j] = <<SubSeq(s, j, e - 1)>> \o h[e + 1]
    <3>1. h[j] = LabelsFrom(s, j, h[e + 1])
      BY <1>1, <2>1 DEF e
    <3>2. ~ (j > Len(s))
      BY <1>2, <2>1
    <3> QED
      BY <3>1, <3>2 DEF LabelsFrom, e
  <2>7. Read(e + 1) => Read(j)
    <3> HIDE DEF last
    <3> QED
      BY <2>5, <2>6 DEF ReadsLabel
  <2> QED
    BY <2>3, <2>4, <2>7 DEF e
<1>5. 0 \in S
  <2>1. ASSUME NEW j \in Starts, j + 0 > Len(s) PROVE Read(j)
    <3>1. j = last
      BY <1>2, <2>1 DEF Places
    <3> QED
      BY <1>3, <3>1
  <2> HIDE DEF Starts, Read
  <2> QED
    BY <2>1
<1>6. ASSUME NEW k \in Nat, k \in S PROVE k + 1 \in S
  <2>1. ASSUME NEW j \in Starts, j + (k + 1) > Len(s) PROVE Read(j)
    <3>1. CASE j > Len(s)
      <4>1. j = last
        <5> HIDE DEF last
        <5> QED
          BY <1>2, <3>1 DEF Places
      <4> QED
        BY <1>3, <4>1
    <3>2. CASE ~ (j > Len(s))
      <4> DEFINE p == LabelEnd(s, j) + 1
      <4>1. j <= Len(s) /\ j \in Nat
        BY <1>2, <3>2 DEF Places
      <4>2. p \in Starts /\ p > j /\ (Read(p) => Read(j))
        BY <1>4, <4>1
      <4>3. p \in Nat
        BY <4>2 DEF Places
      <4> HIDE DEF p, Starts, Read
      <4>4. p + k > Len(s)
        BY <1>2, <2>1, <4>1, <4>2, <4>3
      <4>5. Read(p)
        BY <1>6, <4>2, <4>4
      <4> QED
        BY <4>2, <4>5
    <3> QED
      BY <3>1, <3>2
  <2> HIDE DEF Starts, Read
  <2> QED
    BY <2>1
<1>7. Nat \subseteq S
  <2> HIDE DEF S
  <2> QED
    BY <1>5, <1>6, Induction
<1>8. 1 \in Starts
  <2>1. 1 \in Places /\ StartsLabel(s, 1)
    BY DEF Places, StartsLabel
  <2>2. CASE Len(s) = 0
    BY <2>1, <2>2 DEF Behind
  <2>3. CASE Len(s) # 0
    BY <1>2, <2>1, <2>3
  <2> QED
    BY <2>2, <2>3
<1>9. Read(1)
  <2>1. Len(s) \in S /\ 1 + Len(s) > Len(s)
    BY <1>2, <1>7
  <2> HIDE DEF Starts, Read
  <2> QED
    BY <1>8, <2>1
<1> QED
  BY <1>1, <1>9

\* A name that ends where its last label ends is read as it is meant.
LEMMA Understands ==
  ASSUME NEW s \in Seq(Nat), Proper(s), NEW q, Asks(q, s, Behind(s))
  PROVE  /\ Labels(q, 1).next = Len(q) - 3 /\ Labels(q, 1).labels = HostLabels(s)
         /\ Labels(q, 1).pointer = 0
<1> DEFINE z == Behind(s)
<1>1. z \in Places /\ z \in Nat /\ Len(q) = z + 4 /\ q[z] = 0 /\ q \in Seq(Nat)
  BY BehindIsNat DEF Asks, Places
<1>2. Labels(q, z) = ReadAt(q, z, Labels(q, z + q[z] + 1))
  BY <1>1, LabelsRecursion
<1>3. Labels(q, z) = [labels |-> <<>>, next |-> z + 1, pointer |-> 0]
  <2>1. ~IsLabel(q, z) /\ z <= Len(q)
    BY <1>1 DEF IsLabel
  <2> HIDE DEF z
  <2> QED
    BY <1>1, <1>2, <2>1, EndIs DEF ReadAt
<1>4. /\ Labels(q, 1).next = Labels(q, z).next
      /\ Labels(q, 1).pointer = Labels(q, z).pointer
      /\ Labels(q, z).labels = <<>> => Labels(q, 1).labels = HostLabels(s)
  BY ReadThrough
<1> HIDE DEF z
<1> QED
  BY <1>1, <1>3, <1>4

\* What is read at a place that holds a zero, and at one that holds neither a
\* label nor a zero nor a pointer.
LEMMA ReadEnd ==
  ASSUME NEW q \in Seq(Nat), NEW r \in Places
  PROVE  /\ r <= Len(q) /\ q[r] = 0 => Labels(q, r).next = r + 1
         /\ r > Len(q) \/ (q[r] \in 1 .. Pointer - 1 /\ ~IsLabel(q, r)) =>
              Labels(q, r).next = 0
<1>1. Labels(q, r) = ReadAt(q, r, Labels(q, r + q[r] + 1))
  BY LabelsRecursion
<1>2. r \in Nat /\ Len(q) \in Nat
  BY DEF Places
<1>3. ASSUME ~IsLabel(q, r) PROVE Labels(q, r) = EndOfName(q, r)
  BY <1>1, <1>3 DEF ReadAt
<1>4. r <= Len(q) /\ q[r] = 0 => Labels(q, r).next = r + 1
  <2>1. q[r] = 0 => ~IsLabel(q, r)
    BY DEF IsLabel
  <2> QED
    BY <1>3, <2>1, EndIs
<1>5. r > Len(q) \/ (q[r] \in 1 .. Pointer - 1 /\ ~IsLabel(q, r)) => Labels(q, r).next = 0
  <2>1. r > Len(q) => ~IsLabel(q, r)
    BY <1>2 DEF IsLabel
  <2> QED
    BY <1>3, <2>1, EndIs DEF NotUnderstood
<1> QED
  BY <1>4, <1>5

\* The bytes behind the name are no name that ends behind its terminator.
LEMMA TailIsNoName ==
  ASSUME NEW s \in Seq(Nat), NEW q, NEW z, Asks(q, s, z), NEW p \in z + 1 .. z + 5
  PROVE  Labels(q, p).next # z + 1
<1>1. /\ z \in Nat /\ Len(q) = z + 4 /\ q \in Seq(Nat)
      /\ q[z + 1] = 0 /\ q[z + 2] = 1 /\ q[z + 3] = 0 /\ q[z + 4] = 1
  BY DEF Asks
<1>2. \A r \in z + 1 .. z + 5 : r \in Places
  BY <1>1 DEF Places
<1>3. Labels(q, z + 5).next = 0
  <2>1. z + 5 \in z + 1 .. z + 5 /\ z + 5 > Len(q)
    BY <1>1
  <2> QED
    BY <1>1, <1>2, <2>1, ReadEnd
<1>4. Labels(q, z + 4).next = 0
  <2>1. z + 4 \in z + 1 .. z + 5 /\ ~IsLabel(q, z + 4) /\ q[z + 4] \in 1 .. Pointer - 1
    BY <1>1 DEF IsLabel, Pointer
  <2> QED
    BY <1>1, <1>2, <2>1, ReadEnd
<1>5. Labels(q, z + 3).next = z + 3 + 1
  <2>1. z + 3 \in z + 1 .. z + 5 /\ z + 3 <= Len(q)
    BY <1>1
  <2> QED
    BY <1>1, <1>2, <2>1, ReadEnd
<1>6. Labels(q, z + 2).next = 0
  <2>1. /\ z + 2 \in z + 1 .. z + 5 /\ IsLabel(q, z + 2) /\ z + 2 + q[z + 2] + 1 = z + 4
    BY <1>1 DEF IsLabel, MaxLabel
  <2>2. Labels(q, z + 2) = ReadAt(q, z + 2, Labels(q, z + 4))
    <3> DEFINE r == z + 2
    <3>1. r \in Places /\ r + q[r] + 1 = z + 4
      BY <1>2, <2>1
    <3> HIDE DEF r
    <3>2. Labels(q, r) = ReadAt(q, r, Labels(q, r + q[r] + 1))
      BY <1>1, <3>1, LabelsRecursion
    <3>3. Labels(q, r) = ReadAt(q, r, Labels(q, z + 4))
      BY <3>1, <3>2
    <3> QED
      BY <3>3 DEF r
  <2> QED
    BY <1>4, <2>1, <2>2 DEF ReadAt
<1>7. Labels(q, z + 1).next = z + 1 + 1
  <2>1. z + 1 \in z + 1 .. z + 5 /\ z + 1 <= Len(q)
    BY <1>1
  <2> QED
    BY <1>1, <1>2, <2>1, ReadEnd
<1>8. p = z + 1 \/ p = z + 2 \/ p = z + 3 \/ p = z + 4 \/ p = z + 5
  BY <1>1
<1>9. z + 3 + 1 # z + 1 /\ z + 1 + 1 # z + 1 /\ z + 1 # 0
  BY <1>1
<1> QED
  BY <1>3, <1>4, <1>5, <1>6, <1>7, <1>8, <1>9

\* The query's own name ends in the pointer that a byte d and the terminator
\* behind it make: to the first byte of the header if d is 192.
EndsInPointer(q, s, d) ==
  /\ Labels(q, 1).labels = HostLabels(s)
  /\ Labels(q, 1).pointer = (d - Pointer) * 256 + 1
  /\ d \in Nat /\ d >= Pointer

\* A byte between the name and its terminator spoils it: what is read does not
\* end where the name does, or it ends in a pointer.
LEMMA Misunderstands ==
  ASSUME NEW s \in Seq(Nat), Proper(s), NEW q, Asks(q, s, Behind(s) + 1),
         q[Behind(s)] # 0
  PROVE  \/ Labels(q, 1).next # Len(q) - 3
         \/ EndsInPointer(q, s, q[Behind(s)])
<1> DEFINE p == Behind(s)
           z == p + 1
           d == q[p]
<1>1. p \in Places /\ p \in Nat /\ Len(q) = z + 4 /\ q \in Seq(Nat) /\ Asks(q, s, z)
      /\ q[z] = 0
  <2>1. p \in Places /\ p \in Nat
    BY BehindIsNat DEF Places
  <2> QED
    BY <2>1 DEF Asks
<1>2. /\ Labels(q, 1).next = Labels(q, p).next
      /\ Labels(q, 1).pointer = Labels(q, p).pointer
      /\ Labels(q, p).labels = <<>> => Labels(q, 1).labels = HostLabels(s)
  BY ReadThrough
<1>0. d # 0
  OBVIOUS
<1>3. d \in Nat /\ d # 0
  <2> HIDE DEF p
  <2> QED
    BY <1>0, <1>1 DEF Places
<1>4. Labels(q, p) = ReadAt(q, p, Labels(q, p + d + 1))
  BY <1>1, LabelsRecursion
<1> HIDE DEF p
<1>5. CASE d >= Pointer
  <2>1. ~IsLabel(q, p) /\ ~ (p <= Len(q) /\ q[p] = 0) /\ p < Len(q) /\ q[p + 1] = 0
    BY <1>1, <1>3, <1>5 DEF IsLabel, Pointer, MaxLabel
  <2>2. Labels(q, p) = [labels |-> <<>>, next |-> p + 2,
                        pointer |-> (d - Pointer) * 256 + q[p + 1] + 1]
    BY <1>4, <1>5, <2>1 DEF ReadAt, EndOfName
  <2>3. Labels(q, p).pointer = (d - Pointer) * 256 + 1
    BY <1>3, <2>1, <2>2 DEF Pointer
  <2> QED
    BY <1>2, <1>3, <1>5, <2>2, <2>3 DEF EndsInPointer, p
<1>6. CASE ~ (d >= Pointer) /\ ~IsLabel(q, p)
  <2>1. q[p] \in 1 .. Pointer - 1
    <3> HIDE DEF d
    <3>1. d \in 1 .. Pointer - 1
      BY <1>3, <1>6 DEF Pointer
    <3> QED
      BY <3>1 DEF d
  <2>2. Labels(q, p).next = 0
    BY <1>1, <1>6, <2>1, ReadEnd
  <2> QED
    BY <1>1, <1>2, <2>2
<1>7. CASE IsLabel(q, p)
  <2>1. p + d + 1 \in z + 1 .. z + 5
    <3>1. p + d <= Len(q)
      BY <1>7 DEF IsLabel
    <3> HIDE DEF d
    <3>2. d >= 1 /\ d <= 5
      BY <1>1, <1>3, <3>1
    <3> QED
      BY <1>1, <1>3, <3>2
  <2>2. Labels(q, p).next = Labels(q, p + d + 1).next
    BY <1>4, <1>7 DEF ReadAt
  <2>3. Labels(q, p + d + 1).next # z + 1
    <3> HIDE DEF z, d
    <3> QED
      BY <1>1, <2>1, TailIsNoName
  <2> QED
    BY <1>1, <1>2, <2>2, <2>3
<1> QED
  BY <1>5, <1>6, <1>7

\* StrLen is the number of bytes before the first zero, if there is one.
LEMMA StrLenIs ==
  ASSUME NEW b \in Seq(Nat), NEW e \in 1 .. Len(b), b[e] = 0
  PROVE  /\ StrLen(b) \in Nat /\ StrLen(b) + 1 \in 1 .. e /\ b[StrLen(b) + 1] = 0
         /\ \A i \in 1 .. StrLen(b) : b[i] # 0
<1> DEFINE I == {i \in 1 .. Len(b) : b[i] = 0}
           m == Min(I)
<1>1. I \in SUBSET Nat /\ e \in I
  OBVIOUS
<1>2. StrLen(b) = m - 1
  BY <1>1 DEF StrLen, SelectInSeq, Zero
<1>3. m \in I /\ \A y \in I : m <= y
  <2> HIDE DEF I
  <2> QED
    BY <1>1, MinOfPlaces
<1> HIDE DEF m
<1>4. m \in Nat /\ m >= 1 /\ m <= e /\ b[m] = 0 /\ StrLen(b) + 1 = m
  BY <1>1, <1>2, <1>3
<1>5. \A i \in 1 .. m - 1 : b[i] # 0
  <2> TAKE i \in 1 .. m - 1
  <2>1. i \in 1 .. Len(b) /\ ~ (m <= i)
    BY <1>3, <1>4
  <2> QED
    BY <1>3, <2>1
<1> QED
  BY <1>2, <1>4, <1>5

\* No byte of a name is zero before the one behind its last label.
LEMMA NoZeroBefore ==
  ASSUME NEW s \in Seq(Nat), Proper(s), \A i \in 1 .. Len(s) : s[i] # 0,
         NEW b, LaidOut(s, b), NEW i \in 1 .. Behind(s) - 1
  PROVE  b[i] # 0
<1>1. Behind(s) \in Nat /\ Behind(s) <= Len(s) + 2 /\ Len(s) \in Nat /\ i \in Nat /\ i >= 1
  BY BehindIsNat DEF Places
<1>2. CASE i \in 1 .. Len(s) /\ StartsLabel(s, i)
  <2>1. i \in Places
    BY <1>2 DEF Places
  <2>2. EndsLabel(s, i, LabelEnd(s, i))
    BY <1>2, <2>1, LabelEndIs
  <2>3. LabelEnd(s, i) # i
    BY <1>1, <1>2, <2>2 DEF EndsLabel, Proper
  <2>4. b[i] = LabelEnd(s, i) - i /\ LabelEnd(s, i) \in Nat
    BY <1>1, <1>2, <2>2 DEF EndsLabel, LaidOut
  <2> QED
    BY <1>1, <2>3, <2>4
<1>3. CASE ~StartsLabel(s, i)
  <2>1. i # 1 /\ s[i - 1] # Dot
    BY <1>3 DEF StartsLabel
  <2>2. i - 1 \in 1 .. Len(s) /\ i - 1 + 1 = i
    BY <1>1, <2>1
  <2>3. b[i - 1 + 1] = s[i - 1]
    BY <2>1, <2>2 DEF LaidOut
  <2> QED
    BY <2>2, <2>3
<1>4. CASE StartsLabel(s, i) /\ i \notin 1 .. Len(s)
  <2>1. i = Len(s) + 1
    BY <1>1, <1>4
  <2>2. Behind(s) = Len(s) + 1
    BY <1>4, <2>1 DEF Behind
  <2> QED
    BY <1>1, <2>1, <2>2
<1> QED
  BY <1>2, <1>3, <1>4

-----------------------------------------------------------------------------
(* change_to_dns_name_format, character by character.                        *)

\* The states of the loop: n bytes of buffer, its two places and label_len.
PutStates(n) == [buf : [1 .. n -> Nat], dns : Nat, ptr : Nat, label_len : Nat]

\* The state after a character that is a dot, and after another one.
Closed(st) == [buf |-> [st.buf EXCEPT ![st.ptr] = st.label_len], dns |-> st.dns + 1,
               ptr |-> st.dns, label_len |-> 0]
Extended(st, c) == [buf |-> [st.buf EXCEPT ![st.dns] = c], dns |-> st.dns + 1,
                    ptr |-> st.ptr, label_len |-> (st.label_len + 1) % 256]

\* The two cases of a turn of change_to_dns_name_format's loop.
LEMMA PutEffect ==
  ASSUME NEW n \in Nat, NEW st \in PutStates(n), NEW c \in Nat
  PROVE  /\ c = Dot => PutCharacter(st, c) = Closed(st)
         /\ c # Dot => PutCharacter(st, c) = Extended(st, c)
         /\ PutCharacter(st, c) \in PutStates(n)
<1> DEFINE b1 == [st.buf EXCEPT ![st.ptr] = st.label_len]
           b2 == [st.buf EXCEPT ![st.dns] = c]
<1>1. /\ st.buf \in [1 .. n -> Nat] /\ st.dns \in Nat /\ st.ptr \in Nat /\ st.label_len \in Nat
      /\ st = [buf |-> st.buf, dns |-> st.dns, ptr |-> st.ptr, label_len |-> st.label_len]
  BY DEF PutStates
<1>2. b1 \in [1 .. n -> Nat] /\ b2 \in [1 .. n -> Nat]
  BY <1>1
<1>3. st.dns + 1 \in Nat /\ (st.label_len + 1) % 256 \in Nat
  BY <1>1
<1>4. CASE c = Dot
  <2>1. PutCharacter(st, c) = Closed(st)
    BY <1>1, <1>4 DEF PutCharacter, Closed
  <2> QED
    BY <1>1, <1>2, <1>3, <1>4, <2>1 DEF PutStates, Closed
<1>5. CASE c # Dot
  <2>1. PutCharacter(st, c) = Extended(st, c)
    BY <1>1, <1>5 DEF PutCharacter, Extended
  <2> QED
    BY <1>1, <1>2, <1>3, <1>5, <2>1 DEF PutStates, Extended
<1> QED
  BY <1>4, <1>5

\* The loop by its turns: g[k] is the state after k characters.
PutSteps(g, n, first, name) ==
  /\ g \in [0 .. Len(name) -> PutStates(n)]
  /\ g[0] = first
  /\ \A k \in 1 .. Len(name) : g[k] = PutCharacter(g[k - 1], name[k])
  /\ FoldLeft(PutCharacter, first, name) = g[Len(name)]

\* The fold of ChangeToDnsNameFormat takes these turns.
LEMMA PutByCharacters ==
  ASSUME NEW n \in Nat, NEW first \in PutStates(n), NEW name \in Seq(Nat)
  PROVE  \E g : PutSteps(g, n, first, name)
<1> DEFINE m == Len(name)
           S == 1 .. m
           V == PutStates(n)
           F == [p \in S \X V |-> PutCharacter(p[2], name[p[1]])]
           body(h, s) == IF s = {} THEN first ELSE PutCharacter(h[s \ {Max(s)}], name[Max(s)])
           it == CHOOSE h : h = [s \in SUBSET S |-> body(h, s)]
<1>1. m \in Nat /\ DOMAIN name = S /\ \A k \in S : name[k] \in Nat
  OBVIOUS
<1>2. FoldLeft(PutCharacter, first, name) = it[S]
  BY <1>1 DEF FoldLeft, MapThenFoldSet
<1>3. \A k \in S : \A v \in V : PutCharacter(v, name[k]) \in V
  BY <1>1, PutEffect
<1> HIDE DEF V
<1>4. \A s \in (SUBSET S) \ {{}} : Max(s) \in s /\ Max(s) \in S
  BY <1>1, LastPlaceChooses
<1>5. F \in SetSteps(1 .. m, V)
  BY <1>3 DEF SetSteps
<1>6. first \in V
  BY DEF V
<1>7. PICK h \in [SUBSET S -> V] : SetRecursive(h, S, LastPlace(m), first, F)
  <2> HIDE DEF F, m
  <2> QED
    BY <1>1, <1>5, <1>6, FoldExists
<1>8. \A s \in (SUBSET S) \ {{}} : \A v \in V : F[<<Max(s), v>>] = PutCharacter(v, name[Max(s)])
  BY <1>4
<1>9. h = [s \in SUBSET S |-> body(h, s)]
  <2>1. \A s \in (SUBSET S) \ {{}} : LastPlace(m)[s] = Max(s) /\ h[s \ {Max(s)}] \in V
    BY DEF LastPlace
  <2>2. \A s \in (SUBSET S) \ {{}} :
          F[<<LastPlace(m)[s], h[s \ {LastPlace(m)[s]}]>>] = PutCharacter(h[s \ {Max(s)}], name[Max(s)])
    <3> HIDE DEF F, S
    <3> QED
      BY <1>8, <2>1
  <2> HIDE DEF S, F
  <2> QED
    BY <1>7, <2>2 DEF SetRecursive
<1>10. it = [s \in SUBSET S |-> body(it, s)]
  <2> HIDE DEF body
  <2> QED
    BY <1>9
<1> HIDE DEF it
<1>11. FoldOf(it, m, V, first, F)
  <2>1. it[{}] = first
    BY <1>10
  <2>2. ASSUME NEW s \in (SUBSET (1 .. m)) \ {{}}, it[s \ {Max(s)}] \in V
        PROVE  it[s] = F[<<Max(s), it[s \ {Max(s)}]>>]
    <3>1. it[s] = PutCharacter(it[s \ {Max(s)}], name[Max(s)])
      BY <1>10
    <3> HIDE DEF F
    <3> QED
      BY <1>8, <2>2, <3>1
  <2> HIDE DEF F
  <2> QED
    BY <2>1, <2>2 DEF FoldOf
<1>12. PICK g \in [0 .. m -> V] : FoldSteps(g, m, first, F) /\ it[1 .. m] = g[m]
  <2> HIDE DEF F, m
  <2> QED
    BY <1>1, <1>5, <1>6, <1>11, FoldBySteps
<1>13. \A k \in 1 .. m : g[k] = PutCharacter(g[k - 1], name[k])
  <2> TAKE k \in 1 .. m
  <2>1. g[k] = F[<<k, g[k - 1]>>]
    <3> HIDE DEF F
    <3> QED
      BY <1>12 DEF FoldSteps
  <2>2. g[k - 1] \in V
    <3> HIDE DEF m
    <3>1. k - 1 \in 0 .. m
      BY <1>1
    <3> QED
      BY <1>12, <3>1
  <2> QED
    BY <2>1, <2>2
<1>14. PutSteps(g, n, first, name)
  BY <1>2, <1>12, <1>13 DEF PutSteps, FoldSteps, V
<1> QED
  BY <1>14

\* What k characters of s have written: all that are not dots, and the length
\* of every label that a dot has ended.
PutSoFar(s, st, k) ==
  /\ st.dns = k + 2
  /\ st.ptr \in 1 .. k + 1 /\ StartsLabel(s, st.ptr)
  /\ \A i \in st.ptr .. k : s[i] # Dot
  /\ st.label_len = k + 1 - st.ptr
  /\ \A i \in 1 .. k : s[i] # Dot => st.buf[i + 1] = s[i]
  /\ \A j \in 1 .. st.ptr - 1 : StartsLabel(s, j) => st.buf[j] = LabelEnd(s, j) - j

\* A label cannot start behind ptr.
LEMMA NoStartBehind ==
  ASSUME NEW s \in Seq(Nat), NEW st, NEW k \in Nat, PutSoFar(s, st, k), NEW j \in Nat,
         j > st.ptr, j <= k + 1
  PROVE  ~StartsLabel(s, j)
<1>1. st.ptr \in Nat /\ st.ptr >= 1
  BY DEF PutSoFar
<1>2. j # 1 /\ j - 1 \in st.ptr .. k
  BY <1>1
<1>3. s[j - 1] # Dot
  BY <1>2 DEF PutSoFar
<1> QED
  BY <1>2, <1>3 DEF StartsLabel

\* The parts of the state after one character.
LEMMA PutParts ==
  ASSUME NEW n \in Nat, NEW st \in PutStates(n), NEW c \in Nat, NEW new, new = PutCharacter(st, c)
  PROVE  /\ new.dns = st.dns + 1
         /\ c = Dot => /\ new.ptr = st.dns /\ new.label_len = 0
                       /\ \A i \in 1 .. n : new.buf[i] = IF i = st.ptr THEN st.label_len ELSE st.buf[i]
         /\ c # Dot => /\ new.ptr = st.ptr /\ new.label_len = (st.label_len + 1) % 256
                       /\ \A i \in 1 .. n : new.buf[i] = IF i = st.dns THEN c ELSE st.buf[i]
<1>1. st.buf \in [1 .. n -> Nat]
  BY DEF PutStates
<1>2. CASE c = Dot
  <2>1. new = Closed(st)
    BY <1>2, PutEffect
  <2>2. new.buf = [st.buf EXCEPT ![st.ptr] = st.label_len]
    BY <2>1 DEF Closed
  <2>3. \A i \in 1 .. n : new.buf[i] = IF i = st.ptr THEN st.label_len ELSE st.buf[i]
    BY <1>1, <2>2
  <2> QED
    BY <1>2, <2>1, <2>3 DEF Closed
<1>3. CASE c # Dot
  <2>1. new = Extended(st, c)
    BY <1>3, PutEffect
  <2>2. new.buf = [st.buf EXCEPT ![st.dns] = c]
    BY <2>1 DEF Extended
  <2>3. \A i \in 1 .. n : new.buf[i] = IF i = st.dns THEN c ELSE st.buf[i]
    BY <1>1, <2>2
  <2> QED
    BY <1>3, <2>1, <2>3 DEF Extended
<1> QED
  BY <1>2, <1>3

\* The name and the zero two bytes behind it fit into n bytes; RFC 1035 allows
\* no name of more than 255 characters.
Fits(s, n) == Len(s) + 3 <= n /\ Len(s) <= 255

\* label_len does not wrap in a name of at most 255 characters.
LEMMA NoWrap ==
  ASSUME NEW k \in Nat, NEW p \in Nat, p >= 1, p <= k + 1, k + 1 <= 255
  PROVE  (k + 1 - p + 1) % 256 = k + 2 - p /\ k + 2 - p = k + 1 + 1 - p
OBVIOUS

\* A turn of change_to_dns_name_format's loop goes on laying out the labels.
LEMMA PutOneMore ==
  ASSUME NEW s \in Seq(Nat), NEW n \in Nat, Fits(s, n),
         NEW k \in 0 .. Len(s) - 1, NEW st \in PutStates(n), PutSoFar(s, st, k)
  PROVE  PutSoFar(s, PutCharacter(st, s[k + 1]), k + 1)
<1> DEFINE c == s[k + 1]
           p == st.ptr
           m == Len(s)
           new == PutCharacter(st, c)
<1>1. /\ k \in Nat /\ k + 1 <= m /\ m \in Nat /\ m + 3 <= n /\ m <= 255
      /\ c \in Nat
  BY DEF Fits
<1>2. /\ p = st.ptr /\ p \in Nat /\ p >= 1 /\ p <= k + 1 /\ StartsLabel(s, p)
      /\ st.dns = k + 2 /\ st.label_len = k + 1 - p
  BY DEF PutSoFar
<1>3. \A i \in 1 .. k : s[i] # Dot => st.buf[i + 1] = s[i] /\ i + 1 # p
  <2> TAKE i \in 1 .. k
  <2> SUFFICES ASSUME s[i] # Dot PROVE i + 1 # p
    BY DEF PutSoFar
  <2>1. i + 1 # 1 /\ i + 1 - 1 = i
    OBVIOUS
  <2>2. ~StartsLabel(s, i + 1)
    BY <2>1 DEF StartsLabel
  <2> QED
    BY <1>2, <2>2
<1>4. \A j \in 1 .. p - 1 : StartsLabel(s, j) => st.buf[j] = LabelEnd(s, j) - j
  BY DEF PutSoFar
<1>5. \A i \in p .. k : s[i] # Dot
  BY DEF PutSoFar
<1> HIDE DEF p, m
<1>8. /\ new.dns = st.dns + 1
      /\ c = Dot => /\ new.ptr = st.dns /\ new.label_len = 0
                    /\ \A i \in 1 .. n : new.buf[i] = IF i = st.ptr THEN st.label_len ELSE st.buf[i]
      /\ c # Dot => /\ new.ptr = st.ptr /\ new.label_len = (st.label_len + 1) % 256
                    /\ \A i \in 1 .. n : new.buf[i] = IF i = st.dns THEN c ELSE st.buf[i]
  <2> HIDE DEF c
  <2> QED
    BY <1>1, PutParts, SMTT(40)
<1> HIDE DEF new
<1>6. CASE c = Dot
  <2>2. new.dns = k + 1 + 2 /\ new.ptr = k + 2 /\ new.label_len = 0
    BY <1>2, <1>6, <1>8
  <2>3. \A i \in 1 .. n : new.buf[i] = IF i = p THEN k + 1 - p ELSE st.buf[i]
    BY <1>2, <1>6, <1>8
  <2>4. StartsLabel(s, k + 2)
    <3>1. k + 2 - 1 = k + 1
      OBVIOUS
    <3> QED
      BY <1>6, <3>1 DEF StartsLabel
  <2>5. \A i \in 1 .. k + 1 : s[i] # Dot => new.buf[i + 1] = s[i]
    <3> TAKE i \in 1 .. k + 1
    <3> SUFFICES ASSUME s[i] # Dot PROVE new.buf[i + 1] = s[i]
      OBVIOUS
    <3>1. i \in 1 .. k
      BY <1>6
    <3>2. i + 1 \in 1 .. n
      BY <1>1, <3>1
    <3> QED
      BY <1>3, <2>3, <3>1, <3>2
  <2>6. ASSUME NEW j \in 1 .. k + 1, StartsLabel(s, j)
        PROVE  new.buf[j] = LabelEnd(s, j) - j
    <3>1. j \in 1 .. n /\ j \in Nat /\ j \in Places
      BY <1>1 DEF Places
    <3>2. CASE j < p
      <4>1. j \in 1 .. p - 1
        BY <1>2, <3>1, <3>2
      <4> QED
        BY <1>4, <2>3, <2>6, <3>1, <3>2, <4>1
    <3>3. CASE j = p
      <4>1. EndsLabel(s, j, k + 1)
        <5>1. k + 1 \in p .. m + 1 /\ k + 1 - 1 = k
          BY <1>1, <1>2
        <5> QED
          BY <1>5, <1>6, <3>3, <5>1 DEF EndsLabel, c, m
      <4>2. EndsLabel(s, j, LabelEnd(s, j))
        <5>1. j <= Len(s)
          BY <1>1, <3>1 DEF m
        <5> QED
          BY <3>1, <5>1, LabelEndIs
      <4>3. LabelEnd(s, j) = k + 1
        BY <3>1, <4>1, <4>2, OneEnd
      <4> QED
        BY <2>3, <3>1, <3>3, <4>3
    <3>4. CASE j > p
      <4>1. j <= k + 1
        BY <1>1
      <4> QED
        BY <1>1, <1>2, <2>6, <3>1, <3>4, <4>1, NoStartBehind
    <3> QED
      BY <1>2, <3>1, <3>2, <3>3, <3>4
  <2>7. k + 2 \in 1 .. k + 1 + 1 /\ k + 1 + 1 - (k + 2) = 0 /\ k + 2 - 1 = k + 1
        /\ k + 2 .. k + 1 = {}
    OBVIOUS
  <2>8. \A j \in 1 .. new.ptr - 1 : StartsLabel(s, j) => new.buf[j] = LabelEnd(s, j) - j
    BY <2>2, <2>6, <2>7
  <2>9. \A i \in new.ptr .. k + 1 : s[i] # Dot
    BY <2>2, <2>7
  <2> HIDE DEF c, p
  <2> QED
    BY <2>2, <2>4, <2>5, <2>7, <2>8, <2>9 DEF PutSoFar, new, c
<1>7. CASE c # Dot
  <2>2. (st.label_len + 1) % 256 = k + 2 - p
    <3>1. k + 1 <= 255 /\ k \in Nat /\ p \in Nat /\ p >= 1 /\ p <= k + 1
      BY <1>1, <1>2
    <3>2. (k + 1 - p + 1) % 256 = k + 2 - p
      BY <3>1, NoWrap
    <3>3. st.label_len = k + 1 - p
      BY <1>2
    <3> QED
      BY <3>2, <3>3
  <2>3. new.dns = k + 1 + 2 /\ new.ptr = p /\ new.label_len = k + 1 + 1 - p
    <3>1. new.dns = st.dns + 1 /\ new.ptr = p /\ new.label_len = (st.label_len + 1) % 256
      BY <1>2, <1>7, <1>8
    <3>2. k \in Nat /\ p \in Nat /\ st.dns = k + 2
      BY <1>1, <1>2
    <3>3. k + 2 + 1 = k + 1 + 2 /\ k + 2 - p = k + 1 + 1 - p
      BY <3>2
    <3> QED
      BY <2>2, <3>1, <3>2, <3>3
  <2>4. \A i \in 1 .. n : new.buf[i] = IF i = k + 2 THEN c ELSE st.buf[i]
    BY <1>2, <1>7, <1>8, SMTT(40)
  <2>5. \A i \in 1 .. k + 1 : s[i] # Dot => new.buf[i + 1] = s[i]
    <3> TAKE i \in 1 .. k + 1
    <3> SUFFICES ASSUME s[i] # Dot PROVE new.buf[i + 1] = s[i]
      OBVIOUS
    <3>1. i + 1 \in 1 .. n
      BY <1>1
    <3>2. CASE i = k + 1
      BY <2>4, <3>1, <3>2
    <3>3. CASE i # k + 1
      <4>1. i \in 1 .. k /\ i + 1 # k + 2
        BY <3>3
      <4> QED
        BY <1>3, <2>4, <3>1, <4>1
    <3> QED
      BY <3>2, <3>3
  <2>6. \A j \in 1 .. p - 1 : StartsLabel(s, j) => new.buf[j] = LabelEnd(s, j) - j
    <3> TAKE j \in 1 .. p - 1
    <3>1. j \in 1 .. n /\ j # k + 2
      BY <1>1, <1>2, SMTT(40)
    <3> QED
      BY <1>4, <2>4, <3>1
  <2>7. \A i \in p .. k + 1 : s[i] # Dot
    <3> TAKE i \in p .. k + 1
    <3>1. i = k + 1 \/ i \in p .. k
      BY <1>2
    <3> QED
      BY <1>5, <1>7, <3>1
  <2>8. p \in 1 .. k + 1 + 1
    BY <1>2
  <2> HIDE DEF c, p
  <2> QED
    BY <1>2, <2>3, <2>5, <2>6, <2>7, <2>8 DEF PutSoFar, new, c, p
<1> QED
  BY <1>6, <1>7

\* Before the loop.
FirstPut(buf) == [buf |-> buf, dns |-> 2, ptr |-> 1, label_len |-> 0]

\* Where the loop leaves dns.
LEMMA PutDns ==
  ASSUME NEW n \in Nat, NEW buf \in [1 .. n -> Nat], NEW s \in Seq(Nat),
         NEW g, PutSteps(g, n, FirstPut(buf), s)
  PROVE  \A k \in 0 .. Len(s) : g[k] \in PutStates(n) /\ g[k].dns = k + 2
<1> DEFINE m == Len(s)
           S == {k \in Nat : k <= m => g[k].dns = k + 2}
<1>1. \A k \in 0 .. m : g[k] \in PutStates(n)
  BY DEF PutSteps
<1>2. 0 \in S
  BY DEF PutSteps, FirstPut
<1>3. ASSUME NEW k \in Nat, k \in S PROVE k + 1 \in S
  <2> SUFFICES ASSUME k + 1 <= m PROVE g[k + 1].dns = k + 1 + 2
    OBVIOUS
  <2> DEFINE kk == k + 1
             c == s[kk]
  <2>1. m \in Nat /\ k \in 0 .. m /\ kk \in 1 .. m /\ kk - 1 = k
    OBVIOUS
  <2>2. c \in Nat
    BY <2>1
  <2>3. g[k].dns = k + 2
    BY <1>3, <2>1
  <2> HIDE DEF kk, c, S
  <2>4. g[kk] = PutCharacter(g[k], c)
    BY <2>1 DEF PutSteps, c
  <2>5. g[kk].dns = g[k].dns + 1
    BY <1>1, <2>1, <2>2, <2>4, PutParts
  <2> QED
    BY <2>3, <2>5 DEF kk
<1>4. Nat \subseteq S
  <2> HIDE DEF S
  <2> QED
    BY <1>2, <1>3, Induction
<1> QED
  BY <1>1, <1>4

\* The buffer stays a sequence of its length, and a zero is two places behind
\* the name, however long its labels are.
LEMMA Terminated ==
  ASSUME NEW n \in Nat, NEW buf \in [1 .. n -> Nat], NEW s \in Seq(Nat), Len(s) + 3 <= n,
         NEW b, b = ChangeToDnsNameFormat(buf, s)
  PROVE  b \in Seq(Nat) /\ Len(b) = n /\ b[Len(s) + 3] = 0
<1>1. FirstPut(buf) \in PutStates(n)
  BY DEF FirstPut, PutStates
<1>2. PICK g : PutSteps(g, n, FirstPut(buf), s)
  BY <1>1, PutByCharacters
<1> DEFINE end == g[Len(s)]
<1>3. Len(s) \in 0 .. Len(s)
  OBVIOUS
<1>4. end \in PutStates(n) /\ end.dns = Len(s) + 2
  BY <1>2, <1>3, PutDns, SMTT(40)
<1>5. b = [end.buf EXCEPT ![end.ptr] = end.label_len, ![end.dns + 1] = Zero]
  BY <1>2 DEF ChangeToDnsNameFormat, PutSteps, FirstPut
<1> HIDE DEF end
<1>6. end.buf \in [1 .. n -> Nat] /\ end.label_len \in Nat
  BY <1>4 DEF PutStates
<1> DEFINE b1 == [end.buf EXCEPT ![end.ptr] = end.label_len]
<1>7. b1 \in [1 .. n -> Nat]
  BY <1>6
<1>8. b = [b1 EXCEPT ![Len(s) + 3] = 0]
  <2>1. Len(s) + 2 + 1 = Len(s) + 3
    OBVIOUS
  <2> QED
    BY <1>4, <1>5, <2>1 DEF Zero
<1> HIDE DEF b1
<1>9. Len(s) + 3 \in 1 .. n
  OBVIOUS
<1>10. b \in [1 .. n -> Nat] /\ b[Len(s) + 3] = 0
  BY <1>7, <1>8, <1>9
<1> QED
  BY <1>10

\* What the two writes behind the loop change.
LEMMA TwoWrites ==
  ASSUME NEW n \in Nat, NEW f \in [1 .. n -> Nat], NEW p \in 1 .. n, NEW x \in Nat,
         NEW r, r # p, NEW b, b = [f EXCEPT ![p] = x, ![r] = Zero]
  PROVE  b[p] = x /\ \A i \in 1 .. n : i # p /\ i # r => b[i] = f[i]
OBVIOUS

\* The length of the last label and the zero are in different places.
LEMMA InBuffer ==
  ASSUME NEW m \in Nat, NEW n \in Nat, m + 3 <= n, NEW p \in Nat, p >= 1, p <= m + 1
  PROVE  m + 1 - p \in Nat /\ p \in 1 .. n /\ m + 2 + 1 # p
OBVIOUS

\* In front of that zero the buffer holds the labels of the name.
LEMMA Converted ==
  ASSUME NEW n \in Nat, NEW buf \in [1 .. n -> Nat], NEW s \in Seq(Nat), Fits(s, n),
         NEW b, b = ChangeToDnsNameFormat(buf, s)
  PROVE  LaidOut(s, b)
<1> DEFINE m == Len(s)
<1>0. m \in Nat /\ m + 3 <= n
  BY DEF Fits
<1>1. FirstPut(buf) \in PutStates(n)
  BY DEF FirstPut, PutStates
<1>2. PICK g : PutSteps(g, n, FirstPut(buf), s)
  BY <1>1, PutByCharacters
<1> DEFINE S == {k \in Nat : k <= m => PutSoFar(s, g[k], k)}
<1>3. \A k \in 0 .. m : g[k] \in PutStates(n)
  BY <1>2, PutDns
<1>4. 0 \in S
  <2>1. g[0] = FirstPut(buf)
    BY <1>2 DEF PutSteps
  <2>2. PutSoFar(s, FirstPut(buf), 0)
    BY DEF PutSoFar, FirstPut, StartsLabel
  <2> QED
    BY <2>1, <2>2
<1>5. ASSUME NEW k \in Nat, k \in S PROVE k + 1 \in S
  <2> SUFFICES ASSUME k + 1 <= m PROVE PutSoFar(s, g[k + 1], k + 1)
    OBVIOUS
  <2>1. k \in 0 .. m - 1 /\ k \in 0 .. m /\ k + 1 \in 1 .. m /\ k + 1 - 1 = k
    BY <1>0
  <2>2. PutSoFar(s, g[k], k) /\ g[k] \in PutStates(n)
    BY <1>3, <1>5, <2>1
  <2>3. g[k + 1] = PutCharacter(g[k], s[k + 1])
    <3> DEFINE kk == k + 1
    <3>1. kk \in 1 .. Len(s) /\ kk - 1 = k
      BY <2>1
    <3> HIDE DEF kk
    <3>2. g[kk] = PutCharacter(g[k], s[kk])
      BY <1>2, <3>1 DEF PutSteps
    <3> QED
      BY <3>2 DEF kk
  <2> HIDE DEF S
  <2> QED
    BY <2>1, <2>2, <2>3, PutOneMore
<1>6. Nat \subseteq S
  <2> HIDE DEF S
  <2> QED
    BY <1>4, <1>5, Induction
<1> DEFINE end == g[m]
           p == end.ptr
<1>7. PutSoFar(s, end, m) /\ end \in PutStates(n)
  BY <1>0, <1>3, <1>6
<1>8. b = [end.buf EXCEPT ![end.ptr] = end.label_len, ![end.dns + 1] = Zero]
  BY <1>2 DEF ChangeToDnsNameFormat, PutSteps, FirstPut
<1> HIDE DEF end, S, m
<1>9. /\ p \in Nat /\ p >= 1 /\ p <= m + 1 /\ StartsLabel(s, p)
      /\ end.dns = m + 2 /\ end.label_len = m + 1 - p
      /\ end.buf \in [1 .. n -> Nat] /\ p = end.ptr
  BY <1>0, <1>7, SMTT(40) DEF PutSoFar, PutStates
<1> HIDE DEF p
<1>10. b[p] = m + 1 - p /\ \A i \in 1 .. m + 1 : i # p => b[i] = end.buf[i]
  <2> DEFINE f == end.buf
             x == m + 1 - p
             r == m + 2 + 1
  <2>1. b = [f EXCEPT ![p] = x, ![r] = Zero]
    BY <1>8, <1>9
  <2>2. f \in [1 .. n -> Nat] /\ x \in Nat /\ p \in 1 .. n /\ r # p /\ 1 .. m + 1 \subseteq 1 .. n
    <3>0. p \in Nat /\ p >= 1 /\ p <= m + 1
      BY <1>9
    <3>1. x \in Nat /\ p \in 1 .. n /\ r # p
      BY <1>0, <3>0, InBuffer
    <3>2. 1 .. m + 1 \subseteq 1 .. n
      BY <1>0
    <3>3. f \in [1 .. n -> Nat]
      BY <1>9
    <3> QED
      BY <3>1, <3>2, <3>3
  <2>3. \A i \in 1 .. m + 1 : i # r
    BY <1>0
  <2> HIDE DEF f, x, r
  <2>4. b[p] = x /\ \A i \in 1 .. n : i # p /\ i # r => b[i] = f[i]
    BY <2>1, <2>2, TwoWrites
  <2> QED
    BY <2>2, <2>3, <2>4 DEF f, x
<1>11. ASSUME NEW i \in 1 .. m, s[i] # Dot PROVE b[i + 1] = s[i]
  <2>1. end.buf[i + 1] = s[i]
    BY <1>7, <1>11 DEF PutSoFar
  <2>2. i + 1 # 1 /\ i + 1 - 1 = i /\ i + 1 \in 1 .. m + 1
    BY <1>0
  <2>3. ~StartsLabel(s, i + 1)
    BY <1>11, <2>2 DEF StartsLabel
  <2> QED
    BY <1>9, <1>10, <2>1, <2>2, <2>3
<1>12. ASSUME NEW j \in 1 .. m, StartsLabel(s, j) PROVE b[j] = LabelEnd(s, j) - j
  <2>1. j \in Nat /\ j \in Places /\ j \in 1 .. m + 1 /\ j <= m + 1 /\ j <= m
    BY <1>0 DEF Places
  <2>2. CASE j < p
    <3>1. j \in 1 .. p - 1
      BY <1>9, <2>1, <2>2
    <3>2. end.buf[j] = LabelEnd(s, j) - j
      BY <1>7, <1>9, <1>12, <3>1 DEF PutSoFar
    <3> QED
      <4>1. j # p
        BY <1>9, <2>1, <2>2
      <4>2. b[j] = end.buf[j]
        BY <1>10, <2>1, <4>1
      <4> QED
        BY <3>2, <4>2
  <2>3. CASE j = p
    <3>1. EndsLabel(s, j, m + 1)
      <4>1. m + 1 \in j .. m + 1 /\ m + 1 - 1 = m
        BY <1>0, <2>1
      <4>2. \A i \in j .. m : s[i] # Dot
        BY <1>7, <1>9, <2>3 DEF PutSoFar
      <4> QED
        BY <4>1, <4>2 DEF EndsLabel, m
    <3>2. EndsLabel(s, j, LabelEnd(s, j))
      BY <2>1, LabelEndIs DEF m
    <3>3. LabelEnd(s, j) = m + 1
      BY <2>1, <3>1, <3>2, OneEnd
    <3> QED
      <4>1. b[j] = m + 1 - j
        BY <1>10, <2>3
      <4> QED
        <5> DEFINE e == LabelEnd(s, j)
        <5>1. e = m + 1 /\ b[j] = m + 1 - j
          BY <3>3, <4>1
        <5> HIDE DEF e
        <5>2. b[j] = e - j
          BY <1>0, <2>1, <5>1
        <5> QED
          BY <5>2 DEF e
  <2>4. CASE j > p
    BY <1>0, <1>7, <1>9, <1>12, <2>1, <2>4, NoStartBehind
  <2> QED
    BY <1>9, <2>1, <2>2, <2>3, <2>4
<1>13. ASSUME StartsLabel(s, m + 1) PROVE b[m + 1] = 0
  <2>1. m + 1 \in Nat /\ m + 1 <= m + 1 /\ m + 1 \in 1 .. m + 1
    BY <1>0
  <2>2. ~ (m + 1 > p)
    BY <1>0, <1>7, <1>9, <1>13, <2>1, NoStartBehind
  <2>3. p = m + 1
    BY <1>0, <1>9, <2>2
  <2> QED
    BY <1>0, <1>10, <2>1, <2>3
<1> QED
  BY <1>11, <1>12, <1>13 DEF LaidOut, m

-----------------------------------------------------------------------------
(* ChangetoDnsNameFormat of dns.c, character by character.                   *)

\* The states of its loop: what was written and the label since the last dot.
ConvertStates == [dns : Seq(Nat), label : Seq(Nat)]

\* The two cases of a turn of ChangetoDnsNameFormat's loop.
LEMMA ConvertEffect ==
  ASSUME NEW st \in ConvertStates, NEW c \in Nat
  PROVE  /\ c = Dot => ConvertCharacter(st, c) =
                         [dns |-> st.dns \o <<Len(st.label)>> \o st.label, label |-> <<>>]
         /\ c # Dot => ConvertCharacter(st, c) = [dns |-> st.dns, label |-> Append(st.label, c)]
         /\ ConvertCharacter(st, c) \in ConvertStates
<1>1. /\ st.dns \in Seq(Nat) /\ st.label \in Seq(Nat)
      /\ st = [dns |-> st.dns, label |-> st.label]
  BY DEF ConvertStates
<1>2. st.dns \o <<Len(st.label)>> \o st.label \in Seq(Nat)
  <2> DEFINE d == st.dns
             l == st.label
             n == Len(l)
  <2>1. d \in Seq(Nat) /\ l \in Seq(Nat) /\ n \in Nat
    BY <1>1
  <2> HIDE DEF d, l, n
  <2>2. d \o <<n>> \o l \in Seq(Nat)
    BY <2>1
  <2> QED
    BY <2>2 DEF d, l, n
<1>3. Append(st.label, c) \in Seq(Nat)
  BY <1>1
<1>4. CASE c = Dot
  BY <1>1, <1>2, <1>4 DEF ConvertCharacter, ConvertStates
<1>5. CASE c # Dot
  <2>1. ConvertCharacter(st, c) = [dns |-> st.dns, label |-> Append(st.label, c)]
    BY <1>1, <1>5 DEF ConvertCharacter
  <2> QED
    BY <1>1, <1>3, <1>5, <2>1 DEF ConvertStates
<1> QED
  BY <1>4, <1>5

\* The loop by its turns.
ConvertSteps(g, first, name) ==
  /\ g \in [0 .. Len(name) -> ConvertStates]
  /\ g[0] = first
  /\ \A k \in 1 .. Len(name) : g[k] = ConvertCharacter(g[k - 1], name[k])
  /\ FoldLeft(ConvertCharacter, first, name) = g[Len(name)]

\* The fold of ChangetoDnsNameFormat takes these turns.
LEMMA ConvertByCharacters ==
  ASSUME NEW first \in ConvertStates, NEW name \in Seq(Nat)
  PROVE  \E g : ConvertSteps(g, first, name)
<1> DEFINE m == Len(name)
           S == 1 .. m
           V == ConvertStates
           F == [p \in S \X V |-> ConvertCharacter(p[2], name[p[1]])]
           body(h, s) == IF s = {} THEN first ELSE ConvertCharacter(h[s \ {Max(s)}], name[Max(s)])
           it == CHOOSE h : h = [s \in SUBSET S |-> body(h, s)]
<1>1. m \in Nat /\ DOMAIN name = S /\ \A k \in S : name[k] \in Nat
  OBVIOUS
<1>2. FoldLeft(ConvertCharacter, first, name) = it[S]
  BY <1>1 DEF FoldLeft, MapThenFoldSet
<1>3. \A k \in S : \A v \in V : ConvertCharacter(v, name[k]) \in V
  BY <1>1, ConvertEffect
<1> HIDE DEF V
<1>4. \A s \in (SUBSET S) \ {{}} : Max(s) \in s /\ Max(s) \in S
  BY <1>1, LastPlaceChooses
<1>5. F \in SetSteps(1 .. m, V)
  BY <1>3 DEF SetSteps
<1>6. first \in V
  BY DEF V
<1>7. PICK h \in [SUBSET S -> V] : SetRecursive(h, S, LastPlace(m), first, F)
  <2> HIDE DEF F, m
  <2> QED
    BY <1>1, <1>5, <1>6, FoldExists
<1>8. \A s \in (SUBSET S) \ {{}} : \A v \in V : F[<<Max(s), v>>] = ConvertCharacter(v, name[Max(s)])
  BY <1>4
<1>9. h = [s \in SUBSET S |-> body(h, s)]
  <2>1. \A s \in (SUBSET S) \ {{}} : LastPlace(m)[s] = Max(s) /\ h[s \ {Max(s)}] \in V
    BY DEF LastPlace
  <2>2. \A s \in (SUBSET S) \ {{}} :
          F[<<LastPlace(m)[s], h[s \ {LastPlace(m)[s]}]>>] = ConvertCharacter(h[s \ {Max(s)}], name[Max(s)])
    <3> HIDE DEF F, S
    <3> QED
      BY <1>8, <2>1
  <2> HIDE DEF S, F
  <2> QED
    BY <1>7, <2>2 DEF SetRecursive
<1>10. it = [s \in SUBSET S |-> body(it, s)]
  <2> HIDE DEF body
  <2> QED
    BY <1>9
<1> HIDE DEF it
<1>11. FoldOf(it, m, V, first, F)
  <2>1. it[{}] = first
    BY <1>10
  <2>2. ASSUME NEW s \in (SUBSET (1 .. m)) \ {{}}, it[s \ {Max(s)}] \in V
        PROVE  it[s] = F[<<Max(s), it[s \ {Max(s)}]>>]
    <3>1. it[s] = ConvertCharacter(it[s \ {Max(s)}], name[Max(s)])
      BY <1>10
    <3> HIDE DEF F
    <3> QED
      BY <1>8, <2>2, <3>1
  <2> HIDE DEF F
  <2> QED
    BY <2>1, <2>2 DEF FoldOf
<1>12. PICK g \in [0 .. m -> V] : FoldSteps(g, m, first, F) /\ it[1 .. m] = g[m]
  <2> HIDE DEF F, m
  <2> QED
    BY <1>1, <1>5, <1>6, <1>11, FoldBySteps
<1>13. \A k \in 1 .. m : g[k] = ConvertCharacter(g[k - 1], name[k])
  <2> TAKE k \in 1 .. m
  <2>1. g[k] = F[<<k, g[k - 1]>>]
    <3> HIDE DEF F
    <3> QED
      BY <1>12 DEF FoldSteps
  <2>2. g[k - 1] \in V
    <3> HIDE DEF m
    <3>1. k - 1 \in 0 .. m
      BY <1>1
    <3> QED
      BY <1>12, <3>1
  <2> QED
    BY <2>1, <2>2
<1>14. ConvertSteps(g, first, name)
  BY <1>2, <1>12, <1>13 DEF ConvertSteps, FoldSteps, V
<1> QED
  BY <1>14

\* What k characters of s have written and what is kept of the label at p.
ConvertSoFar(s, d, l, k, p) ==
  /\ p \in 1 .. k + 1 /\ StartsLabel(s, p)
  /\ d \in Seq(Nat) /\ Len(d) = p - 1
  /\ l \in Seq(Nat) /\ Len(l) = k + 1 - p
  /\ \A i \in p .. k : s[i] # Dot /\ l[i + 1 - p] = s[i]
  /\ \A i \in 1 .. p - 2 : s[i] # Dot => d[i + 1] = s[i]
  /\ \A j \in 1 .. p - 1 : StartsLabel(s, j) => d[j] = LabelEnd(s, j) - j

\* The label l written behind its length, behind d.
Closes(w, d, l) == w = d \o <<Len(l)>> \o l

\* s ends behind its kth character, or a dot follows it.
LabelMayEnd(s, k) == k = Len(s) \/ s[k + 1] = Dot

\* The first k characters of s as they go into the query.
LabelsUpTo(s, w, k) ==
  /\ w \in Seq(Nat) /\ Len(w) = k + 1
  /\ \A i \in 1 .. k : s[i] # Dot => w[i + 1] = s[i]
  /\ \A j \in 1 .. k + 1 : StartsLabel(s, j) => w[j] = LabelEnd(s, j) - j

\* Two sequences, one behind the other.
LEMMA TwoParts ==
  ASSUME NEW u \in Seq(Nat), NEW l \in Seq(Nat)
  PROVE  /\ u \o l \in Seq(Nat) /\ Len(u \o l) = Len(u) + Len(l)
         /\ \A i \in 1 .. Len(u) : (u \o l)[i] = u[i]
         /\ \A i \in 1 .. Len(l) : (u \o l)[Len(u) + i] = l[i]
OBVIOUS

\* A label behind its length, behind what was written before.
LEMMA Joined ==
  ASSUME NEW d \in Seq(Nat), NEW l \in Seq(Nat), NEW w, Closes(w, d, l)
  PROVE  /\ w \in Seq(Nat) /\ Len(w) = Len(d) + 1 + Len(l)
         /\ \A i \in 1 .. Len(d) : w[i] = d[i]
         /\ w[Len(d) + 1] = Len(l)
         /\ \A i \in 1 .. Len(l) : w[Len(d) + 1 + i] = l[i]
<1> DEFINE x == Len(l)
           u == d \o <<x>>
<1>0. x \in Nat
  OBVIOUS
<1> HIDE DEF x
<1>1. u \in Seq(Nat) /\ Len(u) = Len(d) + 1 /\ u[Len(d) + 1] = x
      /\ \A i \in 1 .. Len(d) : u[i] = d[i]
  BY <1>0
<1>2. w = u \o l
  BY DEF Closes, x
<1> HIDE DEF u
<1>3. /\ w \in Seq(Nat) /\ Len(w) = Len(u) + Len(l)
      /\ \A i \in 1 .. Len(u) : w[i] = u[i]
      /\ \A i \in 1 .. Len(l) : w[Len(u) + i] = l[i]
  <2>1. u \o l \in Seq(Nat) /\ Len(u \o l) = Len(u) + Len(l)
    BY <1>1, TwoParts
  <2>2. /\ \A i \in 1 .. Len(u) : (u \o l)[i] = u[i]
        /\ \A i \in 1 .. Len(l) : (u \o l)[Len(u) + i] = l[i]
    <3>1. u \in Seq(Nat)
      BY <1>1
    <3> QED
      BY <3>1, TwoParts
  <2> QED
    BY <1>2, <2>1, <2>2
<1> QED
  <2> DEFINE n == Len(d)
  <2>1. Len(u) = n + 1 /\ n \in Nat /\ 1 .. n \subseteq 1 .. Len(u) /\ n + 1 \in 1 .. Len(u)
    BY <1>1
  <2> HIDE DEF n
  <2>2. w \in Seq(Nat) /\ Len(w) = n + 1 + Len(l)
    BY <1>3, <2>1
  <2>3. \A i \in 1 .. n : w[i] = d[i]
    BY <1>1, <1>3, <2>1, Zenon DEF n
  <2>4. w[n + 1] = x
    BY <1>1, <1>3, <2>1, Zenon DEF n
  <2>5. \A i \in 1 .. Len(l) : w[n + 1 + i] = l[i]
    BY <1>3, <2>1, Zenon
  <2> QED
    BY <2>2, <2>3, <2>4, <2>5 DEF n, x

\* A dot, or the one appended to the name, writes the label behind its length.
LEMMA LabelClosed ==
  ASSUME NEW s \in Seq(Nat), NEW d, NEW l, NEW k \in 0 .. Len(s), NEW p, ConvertSoFar(s, d, l, k, p),
         LabelMayEnd(s, k),
         NEW w, Closes(w, d, l)
  PROVE  LabelsUpTo(s, w, k)
<1> DEFINE m == Len(s)
           x == k + 1 - p
<1>1. /\ m \in Nat /\ k \in Nat /\ k <= m /\ p \in Nat /\ p >= 1 /\ p <= k + 1
      /\ d \in Seq(Nat) /\ Len(d) = p - 1 /\ l \in Seq(Nat) /\ Len(l) = x
      /\ StartsLabel(s, p)
  BY DEF ConvertSoFar
<1> HIDE DEF m
<1>2. x \in Nat
  BY <1>1
<1>3. /\ w \in Seq(Nat) /\ Len(w) = p - 1 + 1 + x
      /\ \A i \in 1 .. p - 1 : w[i] = d[i]
      /\ w[p] = x
      /\ \A i \in 1 .. x : w[p + i] = l[i]
  <2> HIDE DEF x
  <2>1. d \in Seq(Nat) /\ l \in Seq(Nat)
    BY <1>1
  <2>2. /\ w \in Seq(Nat) /\ Len(w) = Len(d) + 1 + Len(l)
        /\ \A i \in 1 .. Len(d) : w[i] = d[i]
        /\ w[Len(d) + 1] = Len(l)
        /\ \A i \in 1 .. Len(l) : w[Len(d) + 1 + i] = l[i]
    BY <2>1, Joined
  <2>3. Len(d) + 1 = p
    BY <1>1
  <2> QED
    BY <1>1, <2>2, <2>3
<1>4. Len(w) = k + 1
  BY <1>1, <1>3
<1>5. ASSUME NEW i \in 1 .. k, s[i] # Dot PROVE w[i + 1] = s[i]
  <2>1. CASE i >= p
    <3> DEFINE e == i + 1 - p
    <3>1. i \in p .. k /\ e \in 1 .. x /\ p + e = i + 1
      BY <1>1, <2>1
    <3>2. l[e] = s[i]
      BY <3>1 DEF ConvertSoFar
    <3> HIDE DEF e, x
    <3> QED
      BY <1>3, <3>1, <3>2
  <2>2. CASE i + 1 = p
    <3>1. i + 1 # 1 /\ i + 1 - 1 = i
      OBVIOUS
    <3>2. s[i] = Dot
      BY <1>1, <2>2, <3>1 DEF StartsLabel
    <3> QED
      BY <1>5, <3>2
  <2>3. CASE i + 1 < p
    <3>1. i \in 1 .. p - 2 /\ i + 1 \in 1 .. p - 1
      BY <1>1, <2>3
    <3> QED
      BY <1>3, <1>5, <3>1 DEF ConvertSoFar
  <2>4. i >= p \/ i + 1 = p \/ i + 1 < p
    BY <1>1
  <2> QED
    BY <2>1, <2>2, <2>3, <2>4
<1>6. ASSUME NEW j \in 1 .. k + 1, StartsLabel(s, j) PROVE w[j] = LabelEnd(s, j) - j
  <2>1. j \in Nat /\ j \in Places /\ j <= m + 1 /\ j >= 1 /\ j <= k + 1
    BY <1>1 DEF Places
  <2>2. CASE j < p
    <3>1. j \in 1 .. p - 1
      BY <1>1, <2>1, <2>2
    <3> QED
      BY <1>3, <1>6, <3>1 DEF ConvertSoFar
  <2>3. CASE j = p
    <3> DEFINE e == LabelEnd(s, j)
    <3>1. EndsLabel(s, j, k + 1)
      <4>1. k + 1 \in j .. m + 1 /\ k + 1 - 1 = k
        BY <1>1, <2>1
      <4>2. \A i \in j .. k : s[i] # Dot
        BY <2>3 DEF ConvertSoFar
      <4>3. k + 1 = m + 1 \/ s[k + 1] = Dot
        BY DEF m, LabelMayEnd
      <4> QED
        BY <4>1, <4>2, <4>3 DEF EndsLabel, m
    <3>2. EndsLabel(s, j, e)
      BY <2>1, LabelEndIs DEF m
    <3>3. e = k + 1
      <4> HIDE DEF e
      <4> QED
        BY <2>1, <3>1, <3>2, OneEnd
    <3>4. w[j] = k + 1 - j
      BY <1>3, <2>3
    <3> HIDE DEF e, x
    <3>5. w[j] = e - j
      <4> DEFINE kk == k + 1
      <4>1. e = kk /\ w[j] = kk - j
        BY <3>3, <3>4
      <4> HIDE DEF kk
      <4> QED
        BY <4>1
    <3> QED
      BY <3>5 DEF e
  <2>4. CASE j > p
    <3>1. j # 1 /\ j - 1 \in p .. k
      BY <1>1, <2>1, <2>4
    <3>2. s[j - 1] # Dot
      BY <3>1 DEF ConvertSoFar
    <3> QED
      BY <1>6, <3>1, <3>2 DEF StartsLabel
  <2>5. j < p \/ j = p \/ j > p
    BY <1>1, <2>1
  <2> QED
    BY <2>2, <2>3, <2>4, <2>5
<1> QED
  BY <1>3, <1>4, <1>5, <1>6 DEF LabelsUpTo

\* A label with one character more.
LEMMA Extending ==
  ASSUME NEW l \in Seq(Nat), NEW c \in Nat, NEW x \in Nat, x = Len(l)
  PROVE  /\ Append(l, c) \in Seq(Nat) /\ Len(Append(l, c)) = x + 1
         /\ \A i \in 1 .. x : Append(l, c)[i] = l[i]
         /\ Append(l, c)[x + 1] = c
OBVIOUS

\* A turn of ChangetoDnsNameFormat's loop goes on laying out the labels.
LEMMA ConvertOneMore ==
  ASSUME NEW s \in Seq(Nat), NEW k \in 0 .. Len(s) - 1, NEW st \in ConvertStates, NEW p,
         ConvertSoFar(s, st.dns, st.label, k, p),
         NEW new, new = ConvertCharacter(st, s[k + 1])
  PROVE  \E r : ConvertSoFar(s, new.dns, new.label, k + 1, r)
<1> DEFINE c == s[k + 1]
           d == st.dns
           l == st.label
<1>1. /\ k \in Nat /\ k \in 0 .. Len(s) /\ c \in Nat
  OBVIOUS
<1>2. /\ p \in Nat /\ p >= 1 /\ p <= k + 1 /\ StartsLabel(s, p)
      /\ d \in Seq(Nat) /\ Len(d) = p - 1 /\ l \in Seq(Nat) /\ Len(l) = k + 1 - p
      /\ \A i \in p .. k : s[i] # Dot /\ l[i + 1 - p] = s[i]
      /\ \A i \in 1 .. p - 2 : s[i] # Dot => d[i + 1] = s[i]
      /\ \A j \in 1 .. p - 1 : StartsLabel(s, j) => d[j] = LabelEnd(s, j) - j
  BY DEF ConvertSoFar
<1>3. /\ c = Dot => new.dns = d \o <<Len(l)>> \o l /\ new.label = <<>>
      /\ c # Dot => new.dns = d /\ new.label = Append(l, c)
  <2> DEFINE w == d \o <<Len(l)>> \o l
             a == Append(l, c)
  <2>1. /\ c = Dot => new = [dns |-> w, label |-> <<>>]
        /\ c # Dot => new = [dns |-> d, label |-> a]
    BY <1>1, ConvertEffect
  <2> HIDE DEF w, a, d, l, c
  <2>2. /\ c = Dot => new.dns = w /\ new.label = <<>>
        /\ c # Dot => new.dns = d /\ new.label = a
    BY <2>1
  <2> QED
    BY <2>2 DEF w, a
<1>4. ASSUME c = Dot PROVE ConvertSoFar(s, new.dns, new.label, k + 1, k + 2)
  <2> DEFINE w == new.dns
  <2>1. Closes(w, d, l) /\ new.label = <<>>
    BY <1>3, <1>4 DEF Closes
  <2>2. LabelMayEnd(s, k)
    BY <1>4 DEF LabelMayEnd
  <2> HIDE DEF w
  <2>3. /\ w \in Seq(Nat) /\ Len(w) = k + 1
        /\ \A i \in 1 .. k : s[i] # Dot => w[i + 1] = s[i]
        /\ \A j \in 1 .. k + 1 : StartsLabel(s, j) => w[j] = LabelEnd(s, j) - j
    <3> HIDE DEF c
    <3>1. ConvertSoFar(s, d, l, k, p)
      OBVIOUS
    <3> HIDE DEF d, l
    <3>2. LabelsUpTo(s, w, k)
      BY <1>1, <2>1, <2>2, <3>1, LabelClosed
    <3> QED
      BY <3>2 DEF LabelsUpTo
  <2>4. /\ k + 2 \in 1 .. k + 1 + 1 /\ k + 1 + 1 - (k + 2) = 0 /\ k + 2 - 1 = k + 1
        /\ k + 2 - 2 = k /\ k + 2 .. k + 1 = {}
    BY <1>1
  <2>5. StartsLabel(s, k + 2)
    BY <1>4, <2>4 DEF StartsLabel
  <2>6. <<>> \in Seq(Nat) /\ Len(<<>>) = 0
    OBVIOUS
  <2>7. ConvertSoFar(s, w, <<>>, k + 1, k + 2)
    <3> HIDE DEF c, d, l
    <3> QED
      BY <2>3, <2>4, <2>5, <2>6 DEF ConvertSoFar
  <2> QED
    BY <2>1, <2>7 DEF w
<1>5. ASSUME c # Dot PROVE ConvertSoFar(s, new.dns, new.label, k + 1, p)
  <2> DEFINE a == Append(l, c)
             x == k + 1 - p
  <2>1. new.dns = d /\ new.label = a
    BY <1>3, <1>5
  <2>2. x \in Nat /\ x + 1 = k + 1 + 1 - p /\ p \in 1 .. k + 1 + 1 /\ k + 1 + 1 - p = x + 1
    BY <1>1, <1>2
  <2>3. /\ a \in Seq(Nat) /\ Len(a) = x + 1
        /\ \A i \in 1 .. x : a[i] = l[i]
        /\ a[x + 1] = c
    <3> HIDE DEF x, l, c
    <3>1. x = Len(l) /\ x \in Nat /\ c \in Nat
      BY <1>1, <1>2, <2>2 DEF x
    <3>2. l \in Seq(Nat)
      BY <1>2
    <3> QED
      BY <3>1, <3>2, Extending
  <2> HIDE DEF a, d, l
  <2>4. ASSUME NEW i \in p .. k + 1 PROVE s[i] # Dot /\ a[i + 1 - p] = s[i]
    <3>1. CASE i = k + 1
      <4>1. i + 1 - p = x + 1
        BY <1>1, <1>2, <3>1
      <4> QED
        BY <1>5, <2>3, <3>1, <4>1
    <3>2. CASE i # k + 1
      <4>1. i \in p .. k /\ i + 1 - p \in 1 .. x
        BY <1>1, <1>2, <3>2
      <4> QED
        BY <1>2, <2>3, <4>1
    <3> QED
      BY <3>1, <3>2
  <2> HIDE DEF c
  <2>5. ConvertSoFar(s, d, a, k + 1, p)
    BY <1>2, <2>2, <2>3, <2>4 DEF ConvertSoFar
  <2> QED
    BY <2>1, <2>5
<1> QED
  BY <1>4, <1>5

\* Before the loop.
FirstConvert == [dns |-> <<>>, label |-> <<>>]

\* What ngethostbyname's buffer holds: the labels of the name and a zero.
LEMMA ConvertedName ==
  ASSUME NEW s \in Seq(Nat), NEW b, b = ChangetoDnsNameFormat(s)
  PROVE  b \in Seq(Nat) /\ Len(b) = Len(s) + 2 /\ b[Len(s) + 2] = 0 /\ LaidOut(s, b)
<1> DEFINE m == Len(s)
           name == Append(s, Dot)
<1>1. /\ m \in Nat /\ name \in Seq(Nat) /\ Len(name) = m + 1 /\ name[m + 1] = Dot
      /\ \A i \in 1 .. m : name[i] = s[i]
  BY DEF Dot
<1>2. FirstConvert \in ConvertStates
  BY DEF FirstConvert, ConvertStates
<1> HIDE DEF name
<1>3. PICK g : ConvertSteps(g, FirstConvert, name)
  BY <1>1, <1>2, ConvertByCharacters
<1>4. \A k \in 0 .. m + 1 : g[k] \in ConvertStates
  BY <1>1, <1>3 DEF ConvertSteps
<1> DEFINE Ok(k) == \E p : ConvertSoFar(s, g[k].dns, g[k].label, k, p)
           S == {k \in Nat : k <= m => Ok(k)}
<1>5. 0 \in S
  <2>1. g[0].dns = <<>> /\ g[0].label = <<>>
    BY <1>3 DEF ConvertSteps, FirstConvert
  <2>2. ConvertSoFar(s, <<>>, <<>>, 0, 1)
    BY DEF ConvertSoFar, StartsLabel
  <2> QED
    BY <2>1, <2>2
<1>6. ASSUME NEW k \in Nat, k \in S PROVE k + 1 \in S
  <2> SUFFICES ASSUME k + 1 <= m PROVE Ok(k + 1)
    OBVIOUS
  <2>1. k \in 0 .. m - 1 /\ k \in 0 .. m + 1 /\ k + 1 \in 1 .. m + 1 /\ k + 1 - 1 = k /\ k + 1 \in 1 .. m
    BY <1>1
  <2>2. PICK p : ConvertSoFar(s, g[k].dns, g[k].label, k, p)
    BY <1>6, <2>1
  <2>3. g[k + 1] = ConvertCharacter(g[k], s[k + 1])
    <3> DEFINE kk == k + 1
    <3>1. kk \in 1 .. Len(name) /\ kk - 1 = k /\ name[kk] = s[kk]
      BY <1>1, <2>1
    <3> HIDE DEF kk
    <3>2. g[kk] = ConvertCharacter(g[k], s[kk])
      BY <1>3, <3>1 DEF ConvertSteps
    <3> QED
      BY <3>2 DEF kk
  <2>4. g[k] \in ConvertStates
    BY <1>4, <2>1
  <2> HIDE DEF S
  <2> QED
    BY <2>1, <2>2, <2>3, <2>4, ConvertOneMore
<1>7. Nat \subseteq S
  <2> HIDE DEF S
  <2> QED
    BY <1>5, <1>6, Induction
<1>8. PICK p : ConvertSoFar(s, g[m].dns, g[m].label, m, p)
  BY <1>1, <1>7
<1> DEFINE d == g[m].dns
           l == g[m].label
           w == d \o <<Len(l)>> \o l
<1>9. b = w \o <<0>>
  <2>1. b = g[Len(name)].dns \o <<Zero>>
    BY <1>3 DEF ChangetoDnsNameFormat, ConvertSteps, FirstConvert, name
  <2>2. g[m + 1] = ConvertCharacter(g[m], Dot)
    <3> DEFINE kk == m + 1
    <3>1. kk \in 1 .. Len(name) /\ kk - 1 = m /\ name[kk] = Dot
      BY <1>1
    <3> HIDE DEF kk
    <3>2. g[kk] = ConvertCharacter(g[m], Dot)
      BY <1>3, <3>1 DEF ConvertSteps
    <3> QED
      BY <3>2 DEF kk
  <2>3. g[m] \in ConvertStates /\ Dot \in Nat
    BY <1>1, <1>4 DEF Dot
  <2>4. g[m + 1] = [dns |-> w, label |-> <<>>]
    BY <2>2, <2>3, ConvertEffect
  <2>5. g[m + 1].dns = w
    <3> HIDE DEF w
    <3> QED
      BY <2>4
  <2> QED
    BY <1>1, <2>1, <2>5 DEF Zero
<1>10. Closes(w, d, l)
  BY DEF Closes
<1> HIDE DEF w, d, l, S
<1>11. ConvertSoFar(s, d, l, m, p) /\ m \in 0 .. m
  BY <1>1, <1>8 DEF d, l
<1>12. /\ w \in Seq(Nat) /\ Len(w) = m + 1
       /\ \A i \in 1 .. m : s[i] # Dot => w[i + 1] = s[i]
       /\ \A j \in 1 .. m + 1 : StartsLabel(s, j) => w[j] = LabelEnd(s, j) - j
  <2>1. LabelMayEnd(s, m)
    BY DEF LabelMayEnd
  <2>2. LabelsUpTo(s, w, m)
    BY <1>10, <1>11, <2>1, LabelClosed
  <2> QED
    BY <2>2 DEF LabelsUpTo
<1> HIDE DEF m
<1>13. /\ b \in Seq(Nat) /\ Len(b) = m + 2 /\ b[m + 2] = 0
       /\ \A i \in 1 .. m + 1 : b[i] = w[i]
  <2> DEFINE x == m + 1
  <2>1. x \in Nat /\ x = Len(w) /\ x + 1 = m + 2
    BY <1>1, <1>12
  <2>2. b \in Seq(Nat) /\ Len(b) = x + 1 /\ b[x + 1] = 0 /\ \A i \in 1 .. x : b[i] = w[i]
    <3> HIDE DEF x
    <3> QED
      BY <1>9, <1>12, <2>1
  <2> QED
    BY <2>1, <2>2
<1>14. LaidOut(s, b)
  <2>1. ASSUME NEW i \in 1 .. m, s[i] # Dot PROVE b[i + 1] = s[i]
    <3>1. i + 1 \in 1 .. m + 1
      BY <1>1
    <3> QED
      BY <1>12, <1>13, <2>1, <3>1
  <2>2. ASSUME NEW j \in 1 .. m, StartsLabel(s, j) PROVE b[j] = LabelEnd(s, j) - j
    <3>1. j \in 1 .. m + 1
      BY <1>1
    <3> QED
      BY <1>12, <1>13, <2>2, <3>1
  <2>3. ASSUME StartsLabel(s, m + 1) PROVE b[m + 1] = 0
    <3> DEFINE e == LabelEnd(s, m + 1)
    <3>1. m + 1 \in 1 .. m + 1 /\ m + 1 \in Places /\ m + 1 .. m + 1 = {m + 1}
      BY <1>1 DEF Places
    <3>2. EndsLabel(s, m + 1, e)
      BY <3>1, LabelEndIs DEF m
    <3>3. e = m + 1
      <4>1. e \in m + 1 .. m + 1
        BY <3>2 DEF EndsLabel, m
      <4> QED
        BY <3>1, <4>1
    <3>4. b[m + 1] = e - (m + 1)
      BY <1>12, <1>13, <2>3, <3>1
    <3> HIDE DEF e
    <3> QED
      BY <1>1, <3>3, <3>4
  <2> QED
    BY <2>1, <2>2, <2>3 DEF LaidOut, m
<1> QED
  BY <1>13, <1>14 DEF m

-----------------------------------------------------------------------------
(* The query that is sent for a name.                                        *)

\* What both programs send: the string in the buffer with its terminator, the
\* type and the class.
QueryOf(b) == SubSeq(b, 1, StrLen(b) + 1) \o Short(QTYPE_A) \o Short(1)

\* Two bytes of type or class behind a name.
LEMMA TailBytes ==
  ASSUME NEW w \in Seq(Nat), NEW z \in Nat, z = Len(w)
  PROVE  /\ w \o <<0, 1>> \in Seq(Nat) /\ Len(w \o <<0, 1>>) = z + 2
         /\ \A i \in 1 .. z : (w \o <<0, 1>>)[i] = w[i]
         /\ (w \o <<0, 1>>)[z + 1] = 0 /\ (w \o <<0, 1>>)[z + 2] = 1
OBVIOUS

\* The bytes of a query: those of the name up to the first zero, type and class.
IsQuery(q, b, z) ==
  /\ b[z] = 0 /\ \A i \in 1 .. z - 1 : b[i] # 0
  /\ q \in Seq(Nat) /\ Len(q) = z + 4
  /\ \A i \in 1 .. z : q[i] = b[i]
  /\ q[z + 1] = 0 /\ q[z + 2] = 1 /\ q[z + 3] = 0 /\ q[z + 4] = 1

\* QueryOf sends the name up to its first zero.
LEMMA QueryBytes ==
  ASSUME NEW b \in Seq(Nat), NEW e \in 1 .. Len(b), b[e] = 0
  PROVE  \E z \in 1 .. e : IsQuery(QueryOf(b), b, z)
<1> DEFINE z == StrLen(b) + 1
           w == SubSeq(b, 1, z)
           v == w \o <<0, 1>>
           q == v \o <<0, 1>>
<1>1. z \in 1 .. e /\ b[z] = 0 /\ \A i \in 1 .. StrLen(b) : b[i] # 0
  BY StrLenIs
<1>2. Short(QTYPE_A) = <<0, 1>> /\ Short(1) = <<0, 1>>
  BY DEF Short, QTYPE_A
<1>3. QueryOf(b) = q
  BY <1>2 DEF QueryOf
<1>4. \A i \in 1 .. z - 1 : b[i] # 0
  <2>1. StrLen(b) \in Int
    <3> DEFINE I == {i \in 1 .. Len(b) : b[i] = 0}
    <3>1. I \in SUBSET Nat /\ e \in I
      OBVIOUS
    <3>2. StrLen(b) = Min(I) - 1
      BY <3>1 DEF StrLen, SelectInSeq, Zero
    <3>3. Min(I) \in I
      <4> HIDE DEF I
      <4> QED
        BY <3>1, MinOfPlaces
    <3> QED
      BY <3>1, <3>2, <3>3
  <2>2. z - 1 = StrLen(b)
    BY <2>1
  <2> HIDE DEF z
  <2> QED
    BY <1>1, <2>2
<1> HIDE DEF z
<1>5. w \in Seq(Nat) /\ Len(w) = z /\ \A i \in 1 .. z : w[i] = b[i]
  BY <1>1
<1> HIDE DEF w
<1>6. /\ v \in Seq(Nat) /\ Len(v) = z + 2 /\ \A i \in 1 .. z : v[i] = w[i]
      /\ v[z + 1] = 0 /\ v[z + 2] = 1
  <2>1. z \in Nat /\ z = Len(w) /\ w \in Seq(Nat)
    BY <1>1, <1>5
  <2> QED
    BY <2>1, TailBytes
<1> HIDE DEF v
<1>7. /\ q \in Seq(Nat) /\ Len(q) = z + 2 + 2 /\ \A i \in 1 .. z + 2 : q[i] = v[i]
      /\ q[z + 2 + 1] = 0 /\ q[z + 2 + 2] = 1
  <2> DEFINE y == z + 2
  <2>1. y \in Nat /\ y = Len(v)
    BY <1>1, <1>6
  <2> HIDE DEF y
  <2>2. /\ q \in Seq(Nat) /\ Len(q) = y + 2 /\ \A i \in 1 .. y : q[i] = v[i]
        /\ q[y + 1] = 0 /\ q[y + 2] = 1
    BY <1>6, <2>1, TailBytes
  <2> HIDE DEF q
  <2> QED
    BY <2>2 DEF y
<1> HIDE DEF q
<1>8. z \in Nat /\ z + 2 + 2 = z + 4 /\ z + 2 + 1 = z + 3 /\ z + 1 \in 1 .. z + 2 /\ z + 2 \in 1 .. z + 2
      /\ 1 .. z \subseteq 1 .. z + 2
  BY <1>1
<1>9. IsQuery(q, b, z)
  BY <1>1, <1>4, <1>5, <1>6, <1>7, <1>8 DEF IsQuery
<1> QED
  BY <1>1, <1>3, <1>9

\* A C string without an empty label.
IsName(s) ==
  /\ s \in Seq(Nat) /\ \A i \in 1 .. Len(s) : s[i] # 0
  /\ Proper(s)

\* A query for a name asks for it, with at most one byte too many.
LEMMA QueryAsks ==
  ASSUME NEW s, IsName(s), NEW b \in Seq(Nat), LaidOut(s, b),
         NEW q, NEW z \in 1 .. Len(s) + 3, IsQuery(q, b, z)
  PROVE  /\ Asks(q, s, z)
         /\ z = Behind(s) \/ (z = Behind(s) + 1 /\ Behind(s) = Len(s) + 2 /\ q[Behind(s)] # 0)
<1> DEFINE m == Len(s)
           p == Behind(s)
<1>1. s \in Seq(Nat) /\ m \in Nat /\ p \in Nat /\ m < p /\ p <= m + 2 /\ p >= 1
  BY BehindIsNat DEF IsName, Places
<1>2. /\ b[z] = 0 /\ \A i \in 1 .. z - 1 : b[i] # 0
      /\ q \in Seq(Nat) /\ Len(q) = z + 4 /\ \A i \in 1 .. z : q[i] = b[i]
      /\ q[z + 1] = 0 /\ q[z + 2] = 1 /\ q[z + 3] = 0 /\ q[z + 4] = 1
  BY DEF IsQuery
<1>3. \A i \in 1 .. p - 1 : b[i] # 0
  BY NoZeroBefore DEF IsName
<1> DEFINE dotted == StartsLabel(s, m + 1)
<1>4. (dotted => p = m + 1) /\ (~dotted => p = m + 2)
  BY DEF Behind
<1> HIDE DEF m, p
<1>5. /\ z \in Nat /\ z >= 1 /\ z <= m + 3
  BY <1>1 DEF m
<1>6. z >= p
  <2>1. ~ (z \in 1 .. p - 1)
    BY <1>2, <1>3
  <2> QED
    BY <1>1, <1>5, <2>1
<1>7. ASSUME dotted PROVE z = p
  <2>1. p = m + 1
    BY <1>4, <1>7
  <2>2. b[p] = 0
    BY <1>7, <2>1 DEF LaidOut, m
  <2>3. ~ (p \in 1 .. z - 1)
    BY <1>2, <2>2
  <2> QED
    BY <1>1, <1>5, <1>6, <2>3
<1>8. ASSUME ~dotted, z # p PROVE z = p + 1 /\ p = m + 2 /\ q[p] # 0
  <2>1. p = m + 2
    BY <1>4, <1>8
  <2>2. z = p + 1
    BY <1>1, <1>5, <1>6, <1>8, <2>1
  <2>3. p \in 1 .. z - 1 /\ p \in 1 .. z
    BY <1>1, <2>2
  <2> QED
    BY <1>2, <2>1, <2>2, <2>3
<1>9. LaidOut(s, q)
  <2>0. m + 1 <= z
    BY <1>1, <1>5, <1>6
  <2>1. ASSUME NEW i \in 1 .. m, s[i] # Dot PROVE q[i + 1] = s[i]
    <3>1. i + 1 \in 1 .. z
      BY <1>1, <1>5, <2>0
    <3>2. b[i + 1] = s[i]
      BY <2>1 DEF LaidOut, m
    <3> QED
      BY <1>2, <3>1, <3>2
  <2>2. ASSUME NEW j \in 1 .. m, StartsLabel(s, j) PROVE q[j] = LabelEnd(s, j) - j
    <3>1. j \in 1 .. z
      BY <1>1, <1>5, <2>0
    <3>2. b[j] = LabelEnd(s, j) - j
      BY <2>2 DEF LaidOut, m
    <3>3. q[j] = b[j]
      BY <1>2, <3>1
    <3> QED
      BY <3>2, <3>3
  <2>3. ASSUME dotted PROVE q[m + 1] = 0
    <3>1. m + 1 \in 1 .. z
      BY <1>1, <1>5, <2>0
    <3>2. b[m + 1] = 0
      BY <2>3 DEF LaidOut, m
    <3> QED
      BY <1>2, <3>1, <3>2
  <2> QED
    BY <2>1, <2>2, <2>3 DEF LaidOut, m
<1>10. q[z] = 0
  <2>1. z \in 1 .. z
    BY <1>5
  <2> QED
    BY <1>2, <2>1
<1>11. Asks(q, s, z)
  BY <1>2, <1>5, <1>6, <1>9, <1>10 DEF Asks, p
<1>12. z = p \/ (z = p + 1 /\ p = m + 2 /\ q[p] # 0)
  BY <1>7, <1>8
<1> QED
  BY <1>11, <1>12 DEF m, p

\* What a server makes of a query.
Accepts(q) == Understanding(q).next = Len(q) - 3

\* The server takes the query for one of the host.
Named(q, s) == Accepts(q) /\ Understanding(q).labels = HostLabels(s)

\* It takes it for one of the host with what the header is read as behind it.
Misdirected(q, s) ==
  /\ q[Len(s) + 2] = Pointer
  /\ Understanding(q).labels = HostLabels(s) \o Labels(QueryHeader \o q, 1).labels

\* A query whose name ends in a zero is understood as its name is read.
LEMMA UnderstoodPlainly ==
  ASSUME NEW q, Labels(q, 1).pointer = 0 PROVE Understanding(q) = Labels(q, 1)
BY DEF Understanding

\* One whose name ends in a pointer is not understood or goes on in the header.
LEMMA UnderstoodByPointer ==
  ASSUME NEW q \in Seq(Nat), Labels(q, 1).pointer # 0
  PROVE  \/ Understanding(q) = NotUnderstood
         \/ /\ Labels(q, 1).pointer <= HeaderLen
            /\ Understanding(q).next = Labels(q, 1).next
            /\ Understanding(q).labels =
                 Labels(q, 1).labels \o Labels(QueryHeader \o q, Labels(q, 1).pointer).labels
<1> DEFINE own == Labels(q, 1)
           rest == Labels(QueryHeader \o q, own.pointer)
           l == own.labels \o rest.labels
<1>1. {"labels", "next"} \subseteq DOMAIN own
  <2>0. 1 \in Places
    BY DEF Places
  <2>1. own = ReadAt(q, 1, Labels(q, 1 + q[1] + 1))
    BY <2>0, LabelsRecursion
  <2>2. CASE IsLabel(q, 1)
    <3> DEFINE r == Labels(q, 1 + q[1] + 1)
               m == <<SubSeq(q, 1 + 1, 1 + q[1])>> \o r.labels
    <3>1. own = [labels |-> m, next |-> r.next, pointer |-> r.pointer]
      BY <2>1, <2>2 DEF ReadAt
    <3> HIDE DEF own, r, m
    <3> QED
      BY <3>1
  <2>3. CASE ~IsLabel(q, 1)
    <3>1. own \in Understandings
      BY <2>0, <2>1, <2>3, EndIs DEF ReadAt
    <3> HIDE DEF own
    <3> QED
      BY <3>1 DEF Understandings
  <2> QED
    BY <2>2, <2>3
<1>2. CASE own.pointer <= HeaderLen /\ rest.next # 0 /\ rest.pointer = 0
  <2>1. Understanding(q) = [own EXCEPT !.labels = l]
    BY <1>2 DEF Understanding
  <2> HIDE DEF own, rest, l
  <2>2. [own EXCEPT !.labels = l].labels = l /\ [own EXCEPT !.labels = l].next = own.next
    BY <1>1
  <2> QED
    BY <1>2, <2>1, <2>2 DEF own, rest, l
<1>3. CASE ~ (own.pointer <= HeaderLen /\ rest.next # 0 /\ rest.pointer = 0)
  BY <1>3 DEF Understanding
<1> QED
  BY <1>2, <1>3

\* A query whose name has a byte that is not zero behind it is not accepted, or
\* misdirected.
LEMMA SpoiltByByte ==
  ASSUME NEW s \in Seq(Nat), Proper(s), NEW q, Asks(q, s, Behind(s) + 1),
         q[Behind(s)] # 0, Behind(s) = Len(s) + 2, Accepts(q)
  PROVE  /\ Misdirected(q, s)
         /\ Labels(q, 1).pointer # 0
<1> DEFINE d == q[Behind(s)]
           own == Labels(q, 1)
<1>1. q \in Seq(Nat) /\ Len(q) \in Nat /\ Len(q) - 3 # 0
  <2> DEFINE p == Behind(s)
  <2>1. p \in Nat /\ p >= 1
    BY BehindIsNat DEF Places
  <2>2. q \in Seq(Nat) /\ Len(q) = p + 1 + 4
    BY DEF Asks
  <2> HIDE DEF p
  <2> QED
    BY <2>1, <2>2
<1>2. own.next # Len(q) - 3 \/ EndsInPointer(q, s, d)
  BY Misunderstands
<1>3. own.pointer # 0
  <2> SUFFICES ASSUME own.pointer = 0 PROVE FALSE
    OBVIOUS
  <2>1. own.next = Len(q) - 3
    BY UnderstoodPlainly DEF Accepts
  <2>2. EndsInPointer(q, s, d)
    BY <1>2, <2>1
  <2> HIDE DEF d
  <2>3. own.pointer = (d - Pointer) * 256 + 1 /\ d \in Nat /\ d >= Pointer
    BY <2>2 DEF EndsInPointer
  <2> HIDE DEF own
  <2> QED
    BY <2>3 DEF Pointer
<1>4. Understanding(q) # NotUnderstood
  <2> DEFINE n == Len(q) - 3
  <2>1. Understanding(q).next = n /\ n # 0
    BY <1>1 DEF Accepts
  <2> HIDE DEF n
  <2> QED
    BY <2>1 DEF NotUnderstood
<1>5. /\ own.pointer <= HeaderLen
      /\ Understanding(q).next = own.next
      /\ Understanding(q).labels = own.labels \o Labels(QueryHeader \o q, own.pointer).labels
  BY <1>1, <1>3, <1>4, UnderstoodByPointer
<1>6. EndsInPointer(q, s, d)
  BY <1>2, <1>5 DEF Accepts
<1>7. d = Pointer /\ own.pointer = 1
  <2> HIDE DEF d
  <2>1. own.pointer = (d - Pointer) * 256 + 1 /\ d \in Nat /\ d >= Pointer
    BY <1>6 DEF EndsInPointer
  <2> HIDE DEF own
  <2>2. (d - Pointer) * 256 + 1 <= HeaderLen
    BY <1>5, <2>1
  <2>3. d = Pointer
    BY <2>1, <2>2 DEF Pointer, HeaderLen
  <2> QED
    BY <2>1, <2>3 DEF Pointer
<1>8. own.labels = HostLabels(s)
  BY <1>6 DEF EndsInPointer
<1> QED
  BY <1>3, <1>5, <1>7, <1>8 DEF Misdirected

\* If a server accepts the query it reads the name in it or was misdirected by a
\* pointer, and it accepts it and reads the name unless a byte that is not zero
\* is left behind the name.
LEMMA QueryUnderstood ==
  ASSUME NEW s, IsName(s), NEW b \in Seq(Nat), LaidOut(s, b),
         NEW e \in 1 .. Len(b), e <= Len(s) + 3, b[e] = 0
  PROVE  /\ Accepts(QueryOf(b)) => Named(QueryOf(b), s) \/ Misdirected(QueryOf(b), s)
         /\ e <= Len(s) + 2 \/ QueryOf(b)[Len(s) + 2] = 0 => Named(QueryOf(b), s)
<1> DEFINE q == QueryOf(b)
           m == Len(s)
           p == Behind(s)
<1>1. PICK z \in 1 .. e : IsQuery(q, b, z)
  BY QueryBytes
<1>2. s \in Seq(Nat) /\ Proper(s) /\ m \in Nat /\ e \in Nat /\ e <= m + 3
  BY DEF IsName
<1>3. p \in Nat
  BY <1>2, BehindIsNat DEF Places
<1> HIDE DEF q
<1>4. z \in 1 .. m + 3 /\ z <= e
  BY <1>2
<1>5. /\ Asks(q, s, z)
      /\ z = p \/ (z = p + 1 /\ p = m + 2 /\ q[p] # 0)
  BY <1>1, <1>4, QueryAsks
<1> HIDE DEF p, m
<1>6. CASE z = p
  <2>1. /\ Labels(q, 1).next = Len(q) - 3 /\ Labels(q, 1).labels = HostLabels(s)
        /\ Labels(q, 1).pointer = 0
    BY <1>2, <1>5, <1>6, Understands DEF p
  <2>2. Named(q, s)
    BY <2>1, UnderstoodPlainly DEF Accepts, Named
  <2> QED
    BY <2>2 DEF q
<1>7. CASE z = p + 1 /\ p = m + 2 /\ q[p] # 0
  <2>1. Accepts(q) => Misdirected(q, s)
    BY <1>2, <1>5, <1>7, SpoiltByByte DEF p, m
  <2>2. ~ (e <= m + 2)
    BY <1>2, <1>3, <1>4, <1>7
  <2>3. q[m + 2] # 0
    BY <1>7
  <2> QED
    BY <2>1, <2>2, <2>3 DEF q, m
<1> QED
  BY <1>5, <1>6, <1>7 DEF q

-----------------------------------------------------------------------------
(* What send_req writes for a host.                                          *)

\* The query's name as send_req leaves it in its array.
SendReqBuffer(junk, s) == ChangeToDnsNameFormat([i \in 1 .. Room - HeaderLen |-> junk], s)

\* The name and its terminator fit into send_req's array behind the header.
RoomFor(s) == Len(s) + 3 <= Room - HeaderLen

\* No host has an empty label, or one that is too long, or is longer than a name
\* may be.
ProperHosts == \A s \in Hosts : Proper(s) /\ Len(s) <= 253

\* send_req's array has room for every host and what goes with it.
RoomForHosts == \A s \in Hosts : RoomFor(s)

\* A host is a string of C: no character is the terminator.
LEMMA HostIsName ==
  ASSUME NEW s \in Hosts
  PROVE  s \in Seq(Nat) /\ \A i \in 1 .. Len(s) : s[i] # 0
<1> DEFINE C == (Bytes \ {Zero}) \cap (0 .. Pointer - 1)
<1>1. s \in Seq(C)
  BY DnsMessageAssumption
<1>2. \A c \in C : c \in Nat /\ c # 0
  BY DEF Bytes, Zero
<1> HIDE DEF C
<1>3. \A i \in 1 .. Len(s) : s[i] \in C
  BY <1>1
<1> QED
  BY <1>1, <1>2, <1>3

\* What send_req writes, whatever its array held before.
LEMMA SendReqWrites ==
  ASSUME NEW s \in Hosts, NEW junk \in Junk, RoomFor(s), NEW b, b = SendReqBuffer(junk, s)
  PROVE  /\ b \in Seq(Nat) /\ Len(s) + 3 \in 1 .. Len(b) /\ b[Len(s) + 3] = 0
         /\ Len(s) <= 255 => LaidOut(s, b)
<1> DEFINE n == Room - HeaderLen
           buf == [i \in 1 .. n |-> junk]
<1>1. s \in Seq(Nat)
  BY HostIsName
<1>2. n \in Nat /\ Len(s) \in Nat
  BY <1>1, DnsMessageAssumption DEF HeaderLen, RoomFor
<1>3. junk \in Nat
  BY DnsMessageAssumption DEF Bytes
<1>4. Len(s) + 3 <= n /\ b = ChangeToDnsNameFormat(buf, s)
  BY DEF RoomFor, SendReqBuffer
<1> HIDE DEF n
<1>5. buf \in [1 .. n -> Nat]
  BY <1>3
<1> HIDE DEF buf
<1>6. b \in Seq(Nat) /\ Len(b) = n /\ b[Len(s) + 3] = 0
  BY <1>1, <1>2, <1>4, <1>5, Terminated
<1>7. Len(s) <= 255 => LaidOut(s, b)
  BY <1>1, <1>2, <1>4, <1>5, Converted DEF Fits
<1>8. Len(s) + 3 \in 1 .. Len(b)
  BY <1>2, <1>4, <1>6
<1> QED
  BY <1>6, <1>7, <1>8

-----------------------------------------------------------------------------
(* What the programs send.                                                   *)

\* The variables of either program.
lookupVars == <<vars, prototypeVars>>

\* A step leaves the query as it was, sends one or is past sending.
LEMMA HowSent ==
  ASSUME [LookupNext]_lookupVars
  PROVE  /\ host' = host
         /\ \/ phase' \notin {"sent", "unsent"}
            \/ phase' = phase /\ query' = query /\ program' = program
            \/ /\ ~Prototype /\ program' = program
               /\ \E junk \in Junk : query' = QueryOf(SendReqBuffer(junk, host))
            \/ query' = QueryOf(ChangetoDnsNameFormat(host))
<1>1. CASE UNCHANGED lookupVars
  BY <1>1 DEF lookupVars, vars, prototypeVars
<1>2. CASE GetDnsServers
  BY <1>2 DEF GetDnsServers
<1>3. CASE SendQuery
  BY <1>3 DEF SendQuery, QueryOf
<1>4. CASE Receive
  BY <1>4 DEF Receive
<1>5. CASE ReceiveFails
  BY <1>5 DEF ReceiveFails
<1>6. CASE PrintSections
  BY <1>6 DEF PrintSections
<1>7. CASE (Serve \/ Discard) /\ UNCHANGED prototypeVars
  BY <1>7 DEF Serve, Discard
<1>8. CASE HandleData
  BY <1>8 DEF HandleData
<1>9. ASSUME ~Prototype, NEW junk \in Junk, SendReq(junk), UNCHANGED prototypeVars
      PROVE  host' = host /\ program' = program /\ query' = QueryOf(SendReqBuffer(junk, host))
  BY <1>9 DEF SendReq, QueryOf, SendReqBuffer, prototypeVars
<1> QED
  BY <1>1, <1>2, <1>3, <1>4, <1>5, <1>6, <1>7, <1>8, <1>9 DEF LookupNext

\* A query that one of the two programs makes of a host.
Made(q, s) ==
  \/ \E junk \in Junk : q = QueryOf(SendReqBuffer(junk, s))
  \/ q = QueryOf(ChangetoDnsNameFormat(s))

\* It has at most seven bytes more than the name.
LEMMA MadeFits ==
  ASSUME NEW s \in Hosts, NEW q, Made(q, s), RoomFor(s)
  PROVE  Len(q) <= Len(s) + 7
<1>1. s \in Seq(Nat) /\ Len(s) \in Nat
  BY HostIsName
<1>2. ASSUME NEW b \in Seq(Nat), NEW e \in 1 .. Len(b), e <= Len(s) + 3, b[e] = 0
      PROVE  Len(QueryOf(b)) <= Len(s) + 7
  <2>1. PICK z \in 1 .. e : IsQuery(QueryOf(b), b, z)
    BY <1>2, QueryBytes
  <2>2. Len(QueryOf(b)) = z + 4
    BY <2>1 DEF IsQuery
  <2>3. z + 4 <= Len(s) + 7
    BY <1>1, <1>2
  <2> QED
    BY <2>2, <2>3
<1>3. ASSUME NEW junk \in Junk, q = QueryOf(SendReqBuffer(junk, s)) PROVE Len(q) <= Len(s) + 7
  <2> DEFINE b == SendReqBuffer(junk, s)
             e == Len(s) + 3
  <2>1. b \in Seq(Nat) /\ e \in 1 .. Len(b) /\ b[e] = 0
    BY SendReqWrites
  <2>2. e <= Len(s) + 3
    BY <1>1
  <2> HIDE DEF b, e
  <2>3. Len(QueryOf(b)) <= Len(s) + 7
    BY <1>2, <2>1, <2>2
  <2> QED
    BY <1>3, <2>3 DEF b
<1>4. ASSUME q = QueryOf(ChangetoDnsNameFormat(s)) PROVE Len(q) <= Len(s) + 7
  <2> DEFINE b == ChangetoDnsNameFormat(s)
             e == Len(s) + 2
  <2>1. b \in Seq(Nat) /\ Len(b) = e /\ b[e] = 0
    BY <1>1, ConvertedName
  <2>2. e <= Len(s) + 3 /\ e \in 1 .. e
    BY <1>1
  <2> HIDE DEF b, e
  <2>3. Len(QueryOf(b)) <= Len(s) + 7
    BY <1>2, <2>1, <2>2
  <2> QED
    BY <1>4, <2>3 DEF b
<1> QED
  BY <1>3, <1>4 DEF Made

\* A query of send_req is understood or dropped, or its name ends in a pointer.
LEMMA SendReqUnderstood ==
  ASSUME ProperHosts, RoomForHosts, NEW s \in Hosts, NEW junk \in Junk,
         NEW q, q = QueryOf(SendReqBuffer(junk, s))
  PROVE  /\ Accepts(q) => Named(q, s) \/ Misdirected(q, s)
         /\ q[Len(s) + 2] = 0 => Named(q, s)
<1> DEFINE b == SendReqBuffer(junk, s)
           e == Len(s) + 3
<1>1. IsName(s) /\ RoomFor(s) /\ Len(s) <= 255 /\ Len(s) \in Nat
  <2>1. /\ s \in Seq(Nat) /\ \A i \in 1 .. Len(s) : s[i] # 0
        /\ Proper(s) /\ Len(s) <= 253 /\ RoomFor(s)
    BY HostIsName DEF ProperHosts, RoomForHosts
  <2>2. Len(s) \in Nat /\ Len(s) <= 255
    BY <2>1
  <2> QED
    BY <2>1, <2>2 DEF IsName
<1>2. b \in Seq(Nat) /\ e \in 1 .. Len(b) /\ b[e] = 0 /\ LaidOut(s, b)
  BY <1>1, SendReqWrites
<1>3. e <= Len(s) + 3
  BY <1>1
<1> HIDE DEF b, e
<1>4. /\ Accepts(QueryOf(b)) => Named(QueryOf(b), s) \/ Misdirected(QueryOf(b), s)
      /\ QueryOf(b)[Len(s) + 2] = 0 => Named(QueryOf(b), s)
  BY <1>1, <1>2, <1>3, QueryUnderstood
<1> QED
  BY <1>4 DEF b

\* A query of dns.c is understood.
LEMMA SendQueryUnderstood ==
  ASSUME ProperHosts, NEW s \in Hosts, NEW q, q = QueryOf(ChangetoDnsNameFormat(s))
  PROVE  Named(q, s)
<1> DEFINE b == ChangetoDnsNameFormat(s)
           e == Len(s) + 2
<1>1. IsName(s) /\ s \in Seq(Nat) /\ Len(s) \in Nat
  BY HostIsName DEF IsName, ProperHosts
<1>2. b \in Seq(Nat) /\ Len(b) = e /\ b[e] = 0 /\ LaidOut(s, b)
  BY <1>1, ConvertedName
<1>3. e <= Len(s) + 3 /\ e \in 1 .. e /\ e <= Len(s) + 2
  BY <1>1
<1> HIDE DEF b, e
<1>4. Named(QueryOf(b), s)
  BY <1>1, <1>2, <1>3, QueryUnderstood
<1> QED
  BY <1>4 DEF b

-----------------------------------------------------------------------------
(* read_name, byte by byte.                                                  *)

\* g[k] is the state after k of N turns.
ReadTurns(g, N, b) == \A k \in 1 .. N : g[k] = ReadByte(b, g[k - 1])

\* A turn at a zero changes nothing.
LEMMA LastTurn ==
  ASSUME NEW b, NEW st, b[st.at] = 0 PROVE ReadByte(b, st) = st
BY DEF ReadByte

\* Once a zero is reached nothing changes.
LEMMA NothingMore ==
  ASSUME NEW b, NEW N \in Nat, NEW g, ReadTurns(g, N, b), NEW i \in 0 .. N, b[g[i].at] = 0
  PROVE  g[N] = g[i]
<1> DEFINE S == {k \in Nat : i + k <= N => g[i + k] = g[i]}
<1>1. 0 \in S
  <2>1. i + 0 = i
    OBVIOUS
  <2> QED
    BY <2>1
<1>2. ASSUME NEW k \in Nat, k \in S PROVE k + 1 \in S
  <2> DEFINE ii == i + (k + 1)
  <2> SUFFICES ASSUME ii <= N PROVE g[ii] = g[i]
    OBVIOUS
  <2>1. ii \in 1 .. N /\ ii - 1 = i + k /\ i + k <= N
    OBVIOUS
  <2>2. g[i + k] = g[i]
    BY <1>2, <2>1
  <2> HIDE DEF ii, S
  <2>3. g[ii] = ReadByte(b, g[ii - 1])
    BY <2>1 DEF ReadTurns
  <2>4. g[ii] = ReadByte(b, g[i])
    BY <2>1, <2>2, <2>3
  <2> QED
    BY <2>4, LastTurn
<1> HIDE DEF S
<1>3. N - i \in S
  BY <1>1, <1>2, Induction
<1>4. i + (N - i) = N
  OBVIOUS
<1> QED
  BY <1>3, <1>4 DEF S

\* So whichever turn reaches a zero gives the same.
LEMMA SameEnd ==
  ASSUME NEW b, NEW N \in Nat, NEW g, ReadTurns(g, N, b), NEW i \in 0 .. N, NEW k \in 0 .. N,
         b[g[i].at] = 0, b[g[k].at] = 0
  PROVE  g[k] = g[i]
<1>1. ASSUME NEW x \in 0 .. N, NEW y \in 0 .. N, x <= y, b[g[x].at] = 0 PROVE g[y] = g[x]
  <2>1. y \in Nat /\ x \in 0 .. y
    BY <1>1
  <2>2. ReadTurns(g, y, b)
    BY DEF ReadTurns
  <2> QED
    BY <1>1, <2>1, <2>2, NothingMore
<1>2. i <= k \/ k <= i
  OBVIOUS
<1>3. CASE i <= k
  BY <1>1, <1>3
<1>4. CASE k <= i
  BY <1>1, <1>4
<1> QED
  BY <1>2, <1>3, <1>4

\* The function that Raw is defined by exists.
LEMMA RawByTurns ==
  ASSUME NEW b \in Seq(Nat), NEW p
  PROVE  \E g : /\ ReadTurns(g, Len(b), b)
                /\ g[0] = Reading(p, <<>>, 0, 0)
                /\ \A k \in 0 .. Len(b) : b[g[k].at] = 0 => Raw(b, p) = g[k]
<1> DEFINE first == Reading(p, <<>>, 0, 0)
           Fun(f, n) == f = [k \in 0 .. n |-> IF k = 0 THEN first ELSE ReadByte(b, f[k - 1])]
           S == {n \in Nat : \E f : Fun(f, n)}
<1>0. Len(b) \in Nat
  OBVIOUS
<1>1. 0 \in S
  <2>1. Fun([k \in 0 .. 0 |-> first], 0)
    OBVIOUS
  <2> QED
    BY <2>1
<1>2. ASSUME NEW n \in Nat, n \in S PROVE n + 1 \in S
  <2>1. PICK f : Fun(f, n)
    BY <1>2
  <2> DEFINE m == n + 1
             h == [k \in 0 .. m |-> IF k = 0 THEN first ELSE ReadByte(b, f[k - 1])]
  <2>2. \A k \in 0 .. n : h[k] = f[k] /\ k \in 0 .. m
    <3> HIDE DEF first
    <3> QED
      BY <2>1
  <2>3. \A k \in 0 .. m : k # 0 => k - 1 \in 0 .. n
    OBVIOUS
  <2>4. Fun(h, m)
    <3>1. \A k \in 0 .. m : k # 0 => h[k - 1] = f[k - 1]
      <4> HIDE DEF h, m
      <4> QED
        BY <2>2, <2>3
    <3> HIDE DEF first, m
    <3>2. \A k \in 0 .. m : h[k] = IF k = 0 THEN first ELSE ReadByte(b, h[k - 1])
      <4>1. \A k \in 0 .. m : h[k] = IF k = 0 THEN first ELSE ReadByte(b, f[k - 1])
        OBVIOUS
      <4> HIDE DEF h
      <4> QED
        BY <3>1, <4>1
    <3>3. h = [k \in 0 .. m |-> h[k]]
      OBVIOUS
    <3>4. h = [k \in 0 .. m |-> IF k = 0 THEN first ELSE ReadByte(b, h[k - 1])]
      <4> HIDE DEF h
      <4> QED
        BY <3>2, <3>3
    <3> QED
      BY <3>4
  <2> HIDE DEF h, Fun
  <2> QED
    BY <2>4
<1> HIDE DEF S
<1>3. Len(b) \in S
  <2> HIDE DEF Fun
  <2> QED
    BY <1>0, <1>1, <1>2, Induction
<1> DEFINE F == CHOOSE f : Fun(f, Len(b))
<1>4. Fun(F, Len(b))
  <2> HIDE DEF Fun
  <2> QED
    BY <1>3 DEF S
<1> DEFINE last == CHOOSE k \in 0 .. Len(b) : b[F[k].at] = 0
<1>5. Raw(b, p) = F[last]
  BY DEF Raw
<1> HIDE DEF F, first
<1>6. \A k \in 0 .. Len(b) : F[k] = IF k = 0 THEN first ELSE ReadByte(b, F[k - 1])
  BY <1>4
<1>7. F[0] = first /\ ReadTurns(F, Len(b), b)
  BY <1>0, <1>6 DEF ReadTurns
<1>8. ASSUME NEW k \in 0 .. Len(b), b[F[k].at] = 0 PROVE Raw(b, p) = F[k]
  <2>1. last \in 0 .. Len(b) /\ b[F[last].at] = 0
    BY <1>8
  <2> HIDE DEF last
  <2> QED
    BY <1>0, <1>5, <1>7, <1>8, <2>1, SameEnd
<1> QED
  BY <1>7, <1>8 DEF first

\* A turn at a byte of a label or its length.
LEMMA PlainTurn ==
  ASSUME NEW b, NEW p, NEW a, NEW n, NEW j, NEW c \in 1 .. Pointer - 1, b[p] = c
  PROVE  ReadByte(b, Reading(p, a, n, j)) =
           Reading(p + 1, Append(a, c), IF j = 1 THEN n ELSE n + 1, j)
<1>1. c # 0 /\ ~ (c >= Pointer)
  BY DEF Pointer
<1> QED
  BY <1>1 DEF ReadByte, Reading

\* A turn at a pointer.
LEMMA PointerTurn ==
  ASSUME NEW b, NEW p \in Nat, NEW a, NEW n, NEW j, b[p] \in Nat, b[p] >= Pointer
  PROVE  ReadByte(b, Reading(p, a, n, j)) =
           Reading(b[p] * 256 + b[p + 1] - Pointer * 256 + 1, a, n, 1)
BY DEF ReadByte, Reading, Pointer

\* Appending is writing behind.
LEMMA AppendIsBehind ==
  ASSUME NEW x \in Seq(Nat), NEW c \in Nat
  PROVE  Append(x, c) = x \o <<c>>
BY AppendIsConcat

\* Writing behind is associative.
LEMMA Associates ==
  ASSUME NEW x \in Seq(Nat), NEW y \in Seq(Nat), NEW z \in Seq(Nat)
  PROVE  (x \o y) \o z = x \o (y \o z)
OBVIOUS

\* A prefix of w grows by an element.
LEMMA PrefixGrows ==
  ASSUME NEW a \in Seq(Nat), NEW w \in Seq(Nat), NEW k \in 1 .. Len(w)
  PROVE  Append(a \o SubSeq(w, 1, k - 1), w[k]) = a \o SubSeq(w, 1, k)
<1> DEFINE u == SubSeq(w, 1, k - 1)
           v == SubSeq(w, 1, k)
           c == w[k]
           d == <<c>>
<1>1. u \in Seq(Nat) /\ c \in Nat /\ d \in Seq(Nat)
  OBVIOUS
<1>2. v = u \o d
  <2>1. 1 \in 1 .. Len(w) /\ k \in 1 .. Len(w)
    OBVIOUS
  <2> QED
    BY <2>1, SubSeqRecursiveSecond
<1> HIDE DEF u, v, c
<1>3. a \o u \in Seq(Nat)
  BY <1>1, ConcatProperties
<1>4. Append(a \o u, c) = (a \o u) \o d
  <2> DEFINE x == a \o u
  <2>1. x \in Seq(Nat)
    BY <1>3
  <2> HIDE DEF x
  <2>2. Append(x, c) = x \o <<c>>
    BY <1>1, <2>1, AppendIsBehind
  <2> QED
    BY <2>2 DEF x
<1> HIDE DEF d
<1>5. (a \o u) \o d = a \o (u \o d)
  BY <1>1, Associates
<1> QED
  BY <1>2, <1>4, <1>5 DEF u, v, c

\* The text w stands at place p of b.
Stands(b, p, w) ==
  /\ b \in Seq(Nat) /\ p \in Places /\ w \in Seq(Nat) /\ p + Len(w) <= Len(b) + 1
  /\ \A i \in 1 .. Len(w) : b[p + i - 1] = w[i]

\* A text of characters and lengths of labels: no byte is zero or a pointer.
Plain(w) == w \in Seq(Nat) /\ \A i \in 1 .. Len(w) : w[i] \in 1 .. Pointer - 1

\* Reading plain text, byte by byte.
LEMMA PlainTurns ==
  ASSUME NEW b, NEW p, NEW w, Stands(b, p, w), Plain(w),
         NEW N \in Nat, NEW g, ReadTurns(g, N, b),
         NEW i \in Nat, i + Len(w) <= N,
         NEW a \in Seq(Nat), NEW n \in Nat, NEW j \in {0, 1}, g[i] = Reading(p, a, n, j)
  PROVE  g[i + Len(w)] = Reading(p + Len(w), a \o w, IF j = 1 THEN n ELSE n + Len(w), j)
<1> DEFINE After(k) == Reading(p + k, a \o SubSeq(w, 1, k), IF j = 1 THEN n ELSE n + k, j)
           S == {k \in Nat : k <= Len(w) => g[i + k] = After(k)}
<1>0. p \in Nat /\ w \in Seq(Nat) /\ Len(w) \in Nat
  BY DEF Stands, Places
<1>1. 0 \in S
  <2>1. a \o SubSeq(w, 1, 0) = a
    BY SubSeqEmpty, ConcatEmptySeq
  <2>2. p + 0 = p /\ i + 0 = i /\ (IF j = 1 THEN n ELSE n + 0) = n
    BY <1>0
  <2> HIDE DEF S, After
  <2>3. After(0) = g[i + 0]
    BY <2>1, <2>2 DEF After
  <2> QED
    BY <2>3 DEF S
<1>2. ASSUME NEW k \in Nat, k \in S PROVE k + 1 \in S
  <2> SUFFICES ASSUME k + 1 <= Len(w) PROVE g[i + (k + 1)] = After(k + 1)
    OBVIOUS
  <2> DEFINE kk == k + 1
             ii == i + kk
             at == p + k
             c == w[kk]
             x == a \o SubSeq(w, 1, k)
             m == IF j = 1 THEN n ELSE n + k
  <2>1. kk \in 1 .. Len(w) /\ kk - 1 = k /\ ii \in 1 .. N /\ ii - 1 = i + k /\ at \in Nat
        /\ at = p + kk - 1 /\ at + 1 = p + kk /\ m \in Nat
    BY <1>0
  <2>2. g[i + k] = Reading(at, x, m, j)
    BY <1>0, <1>2
  <2>3. x \in Seq(Nat)
    <3>1. SubSeq(w, 1, k) \in Seq(Nat)
      BY <1>0
    <3> HIDE DEF at, m, kk, ii
    <3> QED
      BY <3>1, ConcatProperties
  <2>4. (IF j = 1 THEN m ELSE m + 1) = (IF j = 1 THEN n ELSE n + kk)
    OBVIOUS
  <2> HIDE DEF S, kk, ii, at, m
  <2>5. c \in 1 .. Pointer - 1 /\ b[at] = c
    BY <2>1 DEF Plain, Stands
  <2>6. Append(x, c) = a \o SubSeq(w, 1, kk)
    BY <1>0, <2>1, PrefixGrows
  <2> HIDE DEF c, x
  <2>7. g[ii] = ReadByte(b, g[ii - 1])
    BY <2>1 DEF ReadTurns
  <2>8. g[ii] = ReadByte(b, Reading(at, x, m, j))
    BY <2>1, <2>2, <2>7
  <2>9. ReadByte(b, Reading(at, x, m, j)) = Reading(at + 1, Append(x, c), IF j = 1 THEN m ELSE m + 1, j)
    BY <2>5, PlainTurn
  <2>10. g[ii] = After(kk)
    BY <2>1, <2>4, <2>6, <2>8, <2>9
  <2> QED
    BY <2>10 DEF ii, kk
<1> HIDE DEF S
<1>3. Len(w) \in S
  BY <1>0, <1>1, <1>2, Induction
<1>4. g[i + Len(w)] = After(Len(w))
  BY <1>0, <1>3 DEF S
<1>5. SubSeq(w, 1, Len(w)) = w
  BY <1>0, SubSeqFull
<1> QED
  BY <1>4, <1>5

\* The same behind a pointer.
LEMMA PlainTurnsBehind ==
  ASSUME NEW b, NEW p, NEW w, Stands(b, p, w), Plain(w),
         NEW N \in Nat, NEW g, ReadTurns(g, N, b),
         NEW i \in Nat, i + Len(w) <= N,
         NEW a \in Seq(Nat), NEW n \in Nat, g[i] = Reading(p, a, n, 1)
  PROVE  g[i + Len(w)] = Reading(p + Len(w), a \o w, n, 1)
<1>1. 1 \in {0, 1}
  OBVIOUS
<1>2. g[i + Len(w)] = Reading(p + Len(w), a \o w, IF 1 = 1 THEN n ELSE n + Len(w), 1)
  BY <1>1, PlainTurns
<1> QED
  BY <1>2

\* And before one, from the first turn.
LEMMA PlainTurnsBefore ==
  ASSUME NEW b, NEW p, NEW w, Stands(b, p, w), Plain(w),
         NEW N \in Nat, NEW g, ReadTurns(g, N, b),
         Len(w) <= N, g[0] = Reading(p, <<>>, 0, 0)
  PROVE  g[Len(w)] = Reading(p + Len(w), w, Len(w), 0)
<1>0. w \in Seq(Nat) /\ Len(w) \in Nat
  BY DEF Plain
<1>1. 0 \in {0, 1} /\ 0 \in Nat /\ <<>> \in Seq(Nat) /\ 0 + Len(w) = Len(w) /\ <<>> \o w = w
  BY <1>0, ConcatEmptySeq
<1>2. 0 + Len(w) <= N
  BY <1>0
<1>3. g[0 + Len(w)] = Reading(p + Len(w), <<>> \o w, IF 0 = 1 THEN 0 ELSE 0 + Len(w), 0)
  <2> DEFINE e == <<>>
             o == 0
  <2> HIDE DEF e, o
  <2>1. /\ o \in Nat /\ o \in {0, 1} /\ e \in Seq(Nat) /\ o + Len(w) <= N
        /\ g[o] = Reading(p, e, o, o)
    BY <1>1, <1>2 DEF e, o
  <2>2. g[o + Len(w)] = Reading(p + Len(w), e \o w, IF o = 1 THEN o ELSE o + Len(w), o)
    BY <2>1, PlainTurns
  <2> QED
    BY <2>2 DEF e, o
<1> QED
  BY <1>1, <1>3

\* Behind a pointer n turns from place p collect w and stop at a zero.
Collects(g, N, b, p, w, n, i, a, m) ==
  /\ N \in Nat /\ ReadTurns(g, N, b) /\ i \in Nat /\ i + n <= N
  /\ a \in Seq(Nat) /\ m \in Nat /\ g[i] = Reading(p, a, m, 1)
  => \E z : b[z] = 0 /\ g[i + n] = Reading(z, a \o w, m, 1)

\* However it got there.
Spelled(b, p, w, n) == \A g, N, i, a, m : Collects(g, N, b, p, w, n, i, a, m)

\* A text in front of a zero.
LEMMA FullStands ==
  ASSUME NEW b, NEW p, NEW w \in Seq(Nat), Stands(b, p, w \o << 0 >>)
  PROVE  /\ Stands(b, p, w) /\ b[p + Len(w)] = 0
         /\ b \in Seq(Nat) /\ Len(b) \in Nat /\ Len(w) <= Len(b)
<1> DEFINE v == w \o <<0>>
<1>1. /\ v \in Seq(Nat) /\ Len(v) = Len(w) + 1
      /\ \A i \in 1 .. Len(w) : v[i] = w[i]
      /\ v[Len(w) + 1] = 0
  <2>1. <<0>> \in Seq(Nat) /\ Len(<<0>>) = 1 /\ <<0>>[1] = 0
    OBVIOUS
  <2> QED
    BY <2>1, TwoParts
<1> HIDE DEF v
<1>2. /\ p \in Nat /\ p # 0 /\ b \in Seq(Nat) /\ p + Len(v) <= Len(b) + 1
      /\ \A i \in 1 .. Len(v) : b[p + i - 1] = v[i]
  BY DEF Stands, v, Places
<1>3. p + (Len(w) + 1) - 1 = p + Len(w) /\ Len(w) + 1 \in 1 .. Len(v)
      /\ 1 .. Len(w) \subseteq 1 .. Len(v) /\ p + Len(w) <= Len(b) + 1 /\ Len(w) <= Len(b)
      /\ Len(b) \in Nat
  BY <1>1, <1>2
<1>4. b[p + Len(w)] = 0
  <2>1. b[p + (Len(w) + 1) - 1] = v[Len(w) + 1]
    BY <1>2, <1>3
  <2> QED
    BY <1>1, <1>3, <2>1
<1>5. \A i \in 1 .. Len(w) : b[p + i - 1] = w[i]
  BY <1>1, <1>2, <1>3
<1> QED
  BY <1>2, <1>3, <1>4, <1>5 DEF Stands, Places

\* A name in full is spelled where it stands.
LEMMA SpelledInFull ==
  ASSUME NEW b, NEW p, NEW w, Stands(b, p, w \o << 0 >>), Plain(w)
  PROVE  Spelled(b, p, w, Len(w))
<1> SUFFICES ASSUME NEW N \in Nat, NEW i \in Nat, NEW a \in Seq(Nat), NEW m \in Nat, NEW g,
                    ReadTurns(g, N, b), i + Len(w) <= N, g[i] = Reading(p, a, m, 1)
             PROVE  \E z : b[z] = 0 /\ g[i + Len(w)] = Reading(z, a \o w, m, 1)
  BY DEF Spelled, Collects
<1>1. w \in Seq(Nat)
  BY DEF Plain
<1>2. Stands(b, p, w) /\ b[p + Len(w)] = 0
  BY <1>1, FullStands
<1>3. g[i + Len(w)] = Reading(p + Len(w), a \o w, m, 1)
  BY <1>2, PlainTurnsBehind
<1> QED
  BY <1>2, <1>3

\* The two bytes of a pointer to an offset.
PointerTo(at) == Short(Pointer * 256 + at)

\* A number in two bytes.
LEMMA Divided ==
  ASSUME NEW x \in Nat, x >= 192 * 256
  PROVE  x \div 256 >= 192 /\ x \div 256 \in Nat /\ (x \div 256) * 256 + (x % 256) = x
<1> DEFINE d == x \div 256
           r == x % 256
<1>1. d \in Int /\ r \in 0 .. 255 /\ x = 256 * d + r
  OBVIOUS
<1> HIDE DEF d, r
<1>2. d >= 192 /\ d \in Nat /\ d * 256 + r = x
  BY <1>1
<1> QED
  BY <1>2, Zenon DEF d, r

\* A pointer leads to the place behind its offset.
LEMMA Follow ==
  ASSUME NEW b, NEW p \in Nat, NEW at \in Nat, b[p] = PointerTo(at)[1], b[p + 1] = PointerTo(at)[2],
         NEW a, NEW n, NEW j
  PROVE  ReadByte(b, Reading(p, a, n, j)) = Reading(at + 1, a, n, 1)
<1>1. /\ b[p] \in Nat /\ b[p] >= Pointer
      /\ b[p] * 256 + b[p + 1] - Pointer * 256 + 1 = at + 1
  <2>1. b[p] = (192 * 256 + at) \div 256 /\ b[p + 1] = (192 * 256 + at) % 256
    BY DEF PointerTo, Short, Pointer
  <2> DEFINE x == 192 * 256 + at
  <2>2. x \in Nat /\ x >= 192 * 256
    OBVIOUS
  <2> HIDE DEF x
  <2>3. x \div 256 >= 192 /\ x \div 256 \in Nat /\ (x \div 256) * 256 + (x % 256) = x
    BY <2>2, Divided
  <2> QED
    BY <2>1, <2>3 DEF Pointer, x
<1> DEFINE c == b[p] * 256 + b[p + 1] - Pointer * 256 + 1
<1>2. ReadByte(b, Reading(p, a, n, j)) = Reading(c, a, n, 1)
  BY <1>1, PointerTurn
<1> QED
  BY <1>1, <1>2

\* What stands in front of a zero or a pointer.
LEMMA PointedStands ==
  ASSUME NEW b, NEW p, NEW w \in Seq(Nat), NEW at \in Nat, Stands(b, p, w \o PointerTo(at))
  PROVE  /\ Stands(b, p, w) /\ p + Len(w) \in Nat
         /\ b[p + Len(w)] = PointerTo(at)[1] /\ b[p + Len(w) + 1] = PointerTo(at)[2]
<1> DEFINE t == PointerTo(at)
           v == w \o t
           q == p + Len(w)
<1>1. t \in Seq(Nat) /\ Len(t) = 2
  BY DEF PointerTo, Short, Pointer
<1> HIDE DEF t
<1>2. /\ v \in Seq(Nat) /\ Len(v) = Len(w) + 2
      /\ \A i \in 1 .. Len(w) : v[i] = w[i]
      /\ v[Len(w) + 1] = t[1] /\ v[Len(w) + 2] = t[2]
  <2>1. 1 \in 1 .. Len(t) /\ 2 \in 1 .. Len(t)
    BY <1>1
  <2>2. \A i \in 1 .. Len(t) : v[Len(w) + i] = t[i]
    BY <1>1, TwoParts
  <2>3. v[Len(w) + 1] = t[1] /\ v[Len(w) + 2] = t[2]
    <3> HIDE DEF v
    <3> QED
      BY <2>1, <2>2
  <2>4. v \in Seq(Nat) /\ Len(v) = Len(w) + Len(t) /\ \A i \in 1 .. Len(w) : v[i] = w[i]
    BY <1>1, TwoParts
  <2> QED
    BY <1>1, <2>3, <2>4
<1> HIDE DEF v
<1>3. /\ p \in Nat /\ p # 0 /\ b \in Seq(Nat) /\ p + Len(v) <= Len(b) + 1
      /\ \A i \in 1 .. Len(v) : b[p + i - 1] = v[i]
  BY DEF Stands, v, t, Places
<1>4. p + (Len(w) + 1) - 1 = q /\ p + (Len(w) + 2) - 1 = q + 1
      /\ Len(w) + 1 \in 1 .. Len(v) /\ Len(w) + 2 \in 1 .. Len(v) /\ q \in Nat
      /\ 1 .. Len(w) \subseteq 1 .. Len(v) /\ p + Len(w) <= Len(b) + 1
  <2>1. Len(w) \in Nat /\ Len(b) \in Nat
    BY <1>3
  <2> DEFINE m == Len(w)
             n == Len(b)
  <2> HIDE DEF m, n
  <2>2. p \in Nat /\ m \in Nat /\ n \in Nat /\ p + (m + 2) <= n + 1
    BY <1>2, <1>3, <2>1 DEF m, n
  <2>3. p + (m + 1) - 1 = p + m /\ p + (m + 2) - 1 = p + m + 1
        /\ m + 1 \in 1 .. m + 2 /\ m + 2 \in 1 .. m + 2 /\ p + m \in Nat
        /\ 1 .. m \subseteq 1 .. m + 2 /\ p + m <= n + 1
    BY <2>2
  <2> QED
    BY <1>2, <2>3 DEF m, n
<1>5. b[q] = t[1] /\ b[q + 1] = t[2]
  <2> HIDE DEF q
  <2>1. b[p + (Len(w) + 1) - 1] = v[Len(w) + 1] /\ b[p + (Len(w) + 2) - 1] = v[Len(w) + 2]
    BY <1>3, <1>4
  <2> QED
    BY <1>2, <1>4, <2>1
<1>6. Stands(b, p, w)
  <2>1. \A i \in 1 .. Len(w) : b[p + i - 1] = w[i]
    BY <1>2, <1>3, <1>4
  <2> QED
    BY <1>3, <1>4, <2>1 DEF Stands, Places
<1> QED
  BY <1>4, <1>5, <1>6 DEF q, t

\* A name whose rest is spelled where a pointer leads is spelled as well.
LEMMA SpelledByPointer ==
  ASSUME NEW b, NEW p, NEW w, NEW at \in Nat, Stands(b, p, w \o PointerTo(at)), Plain(w),
         NEW v \in Seq(Nat), NEW n \in Nat, Spelled(b, at + 1, v, n)
  PROVE  Spelled(b, p, w \o v, Len(w) + 1 + n)
<1> SUFFICES ASSUME NEW N \in Nat, NEW i \in Nat, NEW a \in Seq(Nat), NEW m \in Nat, NEW g,
                    ReadTurns(g, N, b), i + (Len(w) + 1 + n) <= N, g[i] = Reading(p, a, m, 1)
             PROVE  \E z : /\ b[z] = 0
                           /\ g[i + (Len(w) + 1 + n)] = Reading(z, a \o (w \o v), m, 1)
  BY DEF Spelled, Collects
<1>1. w \in Seq(Nat) /\ Len(w) \in Nat
  BY DEF Plain
<1> DEFINE q == p + Len(w)
           k == i + Len(w) + 1
           x == a \o w
<1>2. /\ Stands(b, p, w) /\ q \in Nat
      /\ b[q] = PointerTo(at)[1] /\ b[q + 1] = PointerTo(at)[2]
  BY <1>1, PointedStands
<1>3. i + Len(w) <= N /\ k \in 1 .. N /\ k - 1 = i + Len(w) /\ k \in Nat
      /\ k + n = i + (Len(w) + 1 + n) /\ k + n <= N
  BY <1>1
<1>4. g[i + Len(w)] = Reading(q, x, m, 1)
  BY <1>2, <1>3, PlainTurnsBehind, SMTT(40)
<1>5. x \in Seq(Nat) /\ x \o v = a \o (w \o v)
  <2>1. x \in Seq(Nat)
    BY <1>1, ConcatProperties
  <2>2. (a \o w) \o v = a \o (w \o v)
    BY <1>1, Associates
  <2> QED
    BY <2>1, <2>2
<1> HIDE DEF q, k, x
<1>6. g[k] = ReadByte(b, Reading(q, x, m, 1))
  BY <1>3, <1>4 DEF ReadTurns
<1>7. g[k] = Reading(at + 1, x, m, 1)
  <2>1. ReadByte(b, Reading(q, x, m, 1)) = Reading(at + 1, x, m, 1)
    BY <1>2, Follow
  <2> QED
    BY <1>6, <2>1
<1>8. \E z : b[z] = 0 /\ g[k + n] = Reading(z, x \o v, m, 1)
  <2>1. Collects(g, N, b, at + 1, v, n, k, x, m)
    BY DEF Spelled
  <2> QED
    BY <1>3, <1>5, <1>7, <2>1 DEF Collects
<1> QED
  BY <1>3, <1>5, <1>8

\* Reading a name that is written in full.
LEMMA RawInFull ==
  ASSUME NEW b, NEW p, NEW w, Stands(b, p, w \o << 0 >>), Plain(w)
  PROVE  \E z : Raw(b, p) = Reading(z, w, Len(w), 0)
<1>1. w \in Seq(Nat) /\ Len(w) \in Nat
  BY DEF Plain
<1>2. Stands(b, p, w) /\ b[p + Len(w)] = 0 /\ b \in Seq(Nat) /\ Len(b) \in Nat /\ Len(w) <= Len(b)
  BY <1>1, FullStands
<1>3. PICK g : /\ ReadTurns(g, Len(b), b)
               /\ g[0] = Reading(p, <<>>, 0, 0)
               /\ \A k \in 0 .. Len(b) : b[g[k].at] = 0 => Raw(b, p) = g[k]
  BY <1>2, RawByTurns
<1>5. g[Len(w)] = Reading(p + Len(w), w, Len(w), 0)
  BY <1>2, <1>3, PlainTurnsBefore
<1>6. Len(w) \in 0 .. Len(b) /\ b[g[Len(w)].at] = 0
  <2>1. Len(w) \in 0 .. Len(b)
    BY <1>1, <1>2
  <2>2. g[Len(w)].at = p + Len(w)
    BY <1>5 DEF Reading
  <2> QED
    BY <1>2, <2>1, <2>2
<1> QED
  BY <1>3, <1>5, <1>6

\* Reading a name that ends in a pointer.
LEMMA RawByPointer ==
  ASSUME NEW b, NEW p, NEW w, NEW at \in Nat, Stands(b, p, w \o PointerTo(at)), Plain(w),
         NEW v \in Seq(Nat), NEW n \in Nat, Spelled(b, at + 1, v, n), Len(w) + 1 + n <= Len(b)
  PROVE  \E z : Raw(b, p) = Reading(z, w \o v, Len(w), 1)
<1>1. w \in Seq(Nat) /\ Len(w) \in Nat
  BY DEF Plain
<1> DEFINE q == p + Len(w)
           k == Len(w) + 1
<1>2. /\ Stands(b, p, w) /\ q \in Nat /\ b \in Seq(Nat) /\ Len(b) \in Nat
      /\ b[q] = PointerTo(at)[1] /\ b[q + 1] = PointerTo(at)[2]
  <2>1. b \in Seq(Nat) /\ Len(b) \in Nat
    BY DEF Stands
  <2> QED
    BY <1>1, <2>1, PointedStands
<1>3. PICK g : /\ ReadTurns(g, Len(b), b)
               /\ g[0] = Reading(p, <<>>, 0, 0)
               /\ \A e \in 0 .. Len(b) : b[g[e].at] = 0 => Raw(b, p) = g[e]
  BY <1>2, RawByTurns, ZenonT(60)
<1>4. 0 + Len(w) <= Len(b) /\ k \in 1 .. Len(b) /\ k - 1 = 0 + Len(w) /\ k \in Nat
      /\ k + n <= Len(b) /\ k + n \in 0 .. Len(b)
  <2> DEFINE l == Len(w)
             m == Len(b)
  <2>1. l \in Nat /\ m \in Nat /\ l + 1 + n <= m
    BY <1>1, <1>2
  <2> HIDE DEF l, m
  <2>2. 0 + l <= m /\ l + 1 \in 1 .. m /\ (l + 1) - 1 = 0 + l /\ l + 1 \in Nat
    BY <2>1
  <2>3. (l + 1) + n <= m /\ (l + 1) + n \in 0 .. m
    BY <2>1
  <2> QED
    BY <2>2, <2>3 DEF l, m
<1>6. g[k - 1] = Reading(q, w, Len(w), 0)
  <2>1. g[Len(w)] = Reading(q, w, Len(w), 0)
    BY <1>1, <1>2, <1>3, <1>4, PlainTurnsBefore
  <2> QED
    BY <1>1, <2>1
<1> HIDE DEF q, k
<1>7. g[k] = ReadByte(b, Reading(q, w, Len(w), 0))
  BY <1>3, <1>4, <1>6 DEF ReadTurns
<1> DEFINE m == Len(w)
<1>8. g[k] = Reading(at + 1, w, m, 1)
  <2>1. ReadByte(b, Reading(q, w, Len(w), 0)) = Reading(at + 1, w, Len(w), 1)
    <3> DEFINE n0 == Len(w)
    <3>1. q \in Nat /\ b[q] = PointerTo(at)[1] /\ b[q + 1] = PointerTo(at)[2]
      BY <1>2
    <3> HIDE DEF n0
    <3>2. \A a, k0, j : ReadByte(b, Reading(q, a, k0, j)) = Reading(at + 1, a, k0, 1)
      BY <3>1, Follow
    <3> QED
      BY <3>2 DEF n0
  <2> QED
    BY <1>7, <2>1
<1>9. m \in Nat
  BY <1>1
<1> HIDE DEF m
<1>10. PICK z : b[z] = 0 /\ g[k + n] = Reading(z, w \o v, m, 1)
  <2>1. Collects(g, Len(b), b, at + 1, v, n, k, w, m)
    BY DEF Spelled
  <2> QED
    BY <1>1, <1>2, <1>3, <1>4, <1>8, <1>9, <2>1 DEF Collects
<1>11. b[g[k + n].at] = 0
  <2> DEFINE x == w \o v
  <2>1. g[k + n].at = z
    <3> HIDE DEF x
    <3> QED
      BY <1>10 DEF Reading, x
  <2> QED
    BY <1>10, <2>1
<1>12. Raw(b, p) = g[k + n]
  BY <1>3, <1>4, <1>11
<1> QED
  BY <1>10, <1>12 DEF m

-----------------------------------------------------------------------------
(* Labels on the wire and in a string.                                       *)



\* A label behind what was written before.
WireStep(s, l) == s \o <<Len(l)>> \o l
\* A label behind what was shown before.
DotStep(s, l) == IF s = <<>> THEN l ELSE s \o <<Dot>> \o l

\* Both steps give sequences: on the wire
LEMMA WireStepType ==
  ASSUME NEW s \in Seq(Nat), NEW l \in Seq(Nat) PROVE WireStep(s, l) \in Seq(Nat)
BY DEF WireStep

\* and in a string.
LEMMA DotStepType ==
  ASSUME NEW s \in Seq(Nat), NEW l \in Seq(Nat) PROVE DotStep(s, l) \in Seq(Nat)
BY DEF DotStep, Dot

\* WireLabels by its turns: g[k] is what k labels have written.
WireTurns(g, ls) ==
  /\ g \in [0 .. Len(ls) -> Seq(Nat)]
  /\ g[0] = <<>>
  /\ \A k \in 1 .. Len(ls) : g[k] = WireStep(g[k - 1], ls[k])
  /\ WireLabels(ls) = g[Len(ls)]

\* Dotted by its turns.
DotTurns(g, ls) ==
  /\ g \in [0 .. Len(ls) -> Seq(Nat)]
  /\ g[0] = <<>>
  /\ \A k \in 1 .. Len(ls) : g[k] = DotStep(g[k - 1], ls[k])
  /\ Dotted(ls) = g[Len(ls)]

\* The fold of WireLabels takes these turns.
LEMMA WireByLabels ==
  ASSUME NEW ls \in Seq(Seq(Nat))
  PROVE  \E g : WireTurns(g, ls)
<1> DEFINE m == Len(ls)
           S == 1 .. m
           V == Seq(Nat)
           F == [p \in S \X V |-> WireStep(p[2], ls[p[1]])]
           body(h, s) == IF s = {} THEN <<>> ELSE WireStep(h[s \ {Max(s)}], ls[Max(s)])
           it == CHOOSE h : h = [s \in SUBSET S |-> body(h, s)]
<1>1. m \in Nat /\ DOMAIN ls = S /\ \A k \in S : ls[k] \in Seq(Nat)
  OBVIOUS
<1>2. WireLabels(ls) = it[S]
  BY <1>1 DEF WireLabels, WireStep, FoldLeft, MapThenFoldSet
<1>3. \A k \in S : \A v \in V : WireStep(v, ls[k]) \in V
  BY <1>1, WireStepType
<1> HIDE DEF V
<1>4. \A s \in (SUBSET S) \ {{}} : Max(s) \in s /\ Max(s) \in S
  BY <1>1, LastPlaceChooses
<1>5. F \in SetSteps(1 .. m, V)
  BY <1>3 DEF SetSteps
<1>6. <<>> \in V
  BY DEF V
<1>7. PICK h \in [SUBSET S -> V] : SetRecursive(h, S, LastPlace(m), <<>>, F)
  <2> HIDE DEF F, m
  <2> QED
    BY <1>1, <1>5, <1>6, FoldExists
<1>8. \A s \in (SUBSET S) \ {{}} : \A v \in V : F[<<Max(s), v>>] = WireStep(v, ls[Max(s)])
  BY <1>4
<1>9. h = [s \in SUBSET S |-> body(h, s)]
  <2>1. \A s \in (SUBSET S) \ {{}} : LastPlace(m)[s] = Max(s) /\ h[s \ {Max(s)}] \in V
    BY DEF LastPlace
  <2>2. \A s \in (SUBSET S) \ {{}} :
          F[<<LastPlace(m)[s], h[s \ {LastPlace(m)[s]}]>>] = WireStep(h[s \ {Max(s)}], ls[Max(s)])
    <3> HIDE DEF F, S
    <3> QED
      BY <1>8, <2>1
  <2> HIDE DEF S, F
  <2> QED
    BY <1>7, <2>2 DEF SetRecursive
<1>10. it = [s \in SUBSET S |-> body(it, s)]
  <2> HIDE DEF body
  <2> QED
    BY <1>9
<1> HIDE DEF it
<1>11. FoldOf(it, m, V, <<>>, F)
  <2>1. it[{}] = <<>>
    BY <1>10
  <2>2. ASSUME NEW s \in (SUBSET (1 .. m)) \ {{}}, it[s \ {Max(s)}] \in V
        PROVE  it[s] = F[<<Max(s), it[s \ {Max(s)}]>>]
    <3>1. it[s] = WireStep(it[s \ {Max(s)}], ls[Max(s)])
      BY <1>10
    <3> HIDE DEF F
    <3> QED
      BY <1>8, <2>2, <3>1
  <2> HIDE DEF F
  <2> QED
    BY <2>1, <2>2 DEF FoldOf
<1>12. PICK g \in [0 .. m -> V] : FoldSteps(g, m, <<>>, F) /\ it[1 .. m] = g[m]
  <2> HIDE DEF F, m
  <2> QED
    BY <1>1, <1>5, <1>6, <1>11, FoldBySteps
<1>13. \A k \in 1 .. m : g[k] = WireStep(g[k - 1], ls[k])
  <2> TAKE k \in 1 .. m
  <2>1. g[k] = F[<<k, g[k - 1]>>]
    <3> HIDE DEF F
    <3> QED
      BY <1>12 DEF FoldSteps
  <2>2. g[k - 1] \in V
    <3> HIDE DEF m
    <3>1. k - 1 \in 0 .. m
      BY <1>1
    <3> QED
      BY <1>12, <3>1
  <2> QED
    BY <2>1, <2>2
<1>14. WireTurns(g, ls)
  BY <1>2, <1>12, <1>13 DEF WireTurns, FoldSteps, V
<1> QED
  BY <1>14

\* The fold of Dotted takes these turns.
LEMMA DottedByLabels ==
  ASSUME NEW ls \in Seq(Seq(Nat))
  PROVE  \E g : DotTurns(g, ls)
<1> DEFINE m == Len(ls)
           S == 1 .. m
           V == Seq(Nat)
           F == [p \in S \X V |-> DotStep(p[2], ls[p[1]])]
           body(h, s) == IF s = {} THEN <<>> ELSE DotStep(h[s \ {Max(s)}], ls[Max(s)])
           it == CHOOSE h : h = [s \in SUBSET S |-> body(h, s)]
<1>1. m \in Nat /\ DOMAIN ls = S /\ \A k \in S : ls[k] \in Seq(Nat)
  OBVIOUS
<1>2. Dotted(ls) = it[S]
  BY <1>1 DEF Dotted, DotStep, FoldLeft, MapThenFoldSet
<1>3. \A k \in S : \A v \in V : DotStep(v, ls[k]) \in V
  BY <1>1, DotStepType
<1> HIDE DEF V
<1>4. \A s \in (SUBSET S) \ {{}} : Max(s) \in s /\ Max(s) \in S
  BY <1>1, LastPlaceChooses
<1>5. F \in SetSteps(1 .. m, V)
  BY <1>3 DEF SetSteps
<1>6. <<>> \in V
  BY DEF V
<1>7. PICK h \in [SUBSET S -> V] : SetRecursive(h, S, LastPlace(m), <<>>, F)
  <2> HIDE DEF F, m
  <2> QED
    BY <1>1, <1>5, <1>6, FoldExists
<1>8. \A s \in (SUBSET S) \ {{}} : \A v \in V : F[<<Max(s), v>>] = DotStep(v, ls[Max(s)])
  BY <1>4
<1>9. h = [s \in SUBSET S |-> body(h, s)]
  <2>1. \A s \in (SUBSET S) \ {{}} : LastPlace(m)[s] = Max(s) /\ h[s \ {Max(s)}] \in V
    BY DEF LastPlace
  <2>2. \A s \in (SUBSET S) \ {{}} :
          F[<<LastPlace(m)[s], h[s \ {LastPlace(m)[s]}]>>] = DotStep(h[s \ {Max(s)}], ls[Max(s)])
    <3> HIDE DEF F, S
    <3> QED
      BY <1>8, <2>1
  <2> HIDE DEF S, F
  <2> QED
    BY <1>7, <2>2 DEF SetRecursive
<1>10. it = [s \in SUBSET S |-> body(it, s)]
  <2> HIDE DEF body
  <2> QED
    BY <1>9
<1> HIDE DEF it
<1>11. FoldOf(it, m, V, <<>>, F)
  <2>1. it[{}] = <<>>
    BY <1>10
  <2>2. ASSUME NEW s \in (SUBSET (1 .. m)) \ {{}}, it[s \ {Max(s)}] \in V
        PROVE  it[s] = F[<<Max(s), it[s \ {Max(s)}]>>]
    <3>1. it[s] = DotStep(it[s \ {Max(s)}], ls[Max(s)])
      BY <1>10
    <3> HIDE DEF F
    <3> QED
      BY <1>8, <2>2, <3>1
  <2> HIDE DEF F
  <2> QED
    BY <2>1, <2>2 DEF FoldOf
<1>12. PICK g \in [0 .. m -> V] : FoldSteps(g, m, <<>>, F) /\ it[1 .. m] = g[m]
  <2> HIDE DEF F, m
  <2> QED
    BY <1>1, <1>5, <1>6, <1>11, FoldBySteps
<1>13. \A k \in 1 .. m : g[k] = DotStep(g[k - 1], ls[k])
  <2> TAKE k \in 1 .. m
  <2>1. g[k] = F[<<k, g[k - 1]>>]
    <3> HIDE DEF F
    <3> QED
      BY <1>12 DEF FoldSteps
  <2>2. g[k - 1] \in V
    <3> HIDE DEF m
    <3>1. k - 1 \in 0 .. m
      BY <1>1
    <3> QED
      BY <1>12, <3>1
  <2> QED
    BY <2>1, <2>2
<1>14. DotTurns(g, ls)
  BY <1>2, <1>12, <1>13 DEF DotTurns, FoldSteps, V
<1> QED
  BY <1>14

\* No labels are no bytes.
LEMMA WireLabelsEmpty == WireLabels(<<>>) = <<>>
<1>1. <<>> \in Seq(Seq(Nat)) /\ Len(<<>>) = 0
  OBVIOUS
<1>2. PICK g : WireTurns(g, <<>>)
  BY <1>1, WireByLabels
<1> QED
  BY <1>1, <1>2 DEF WireTurns

\* A label more is written behind the others.
LEMMA WireLabelsAppend ==
  ASSUME NEW ls \in Seq(Seq(Nat)), NEW x \in Seq(Nat)
  PROVE  /\ WireLabels(Append(ls, x)) = WireStep(WireLabels(ls), x)
         /\ WireLabels(ls) \in Seq(Nat) /\ WireLabels(Append(ls, x)) \in Seq(Nat)
<1> DEFINE r == Append(ls, x)
           n == Len(ls)
<1>1. /\ r \in Seq(Seq(Nat)) /\ Len(r) = n + 1 /\ n \in Nat
      /\ r[n + 1] = x /\ \A k \in 1 .. n : r[k] = ls[k]
  OBVIOUS
<1>2. PICK g : WireTurns(g, ls)
  BY WireByLabels
<1>3. PICK h : WireTurns(h, r)
  <2> HIDE DEF r
  <2> QED
    BY <1>1, WireByLabels
<1> HIDE DEF r
<1>4. g[0] = <<>> /\ \A k \in 1 .. n : g[k] = WireStep(g[k - 1], ls[k])
  BY <1>2 DEF WireTurns
<1>5. h[0] = <<>> /\ \A k \in 1 .. n + 1 : h[k] = WireStep(h[k - 1], r[k])
  BY <1>1, <1>3 DEF WireTurns
<1>6. g[n] = WireLabels(ls) /\ g[n] \in Seq(Nat)
  <2>1. g \in [0 .. n -> Seq(Nat)] /\ n \in 0 .. n /\ WireLabels(ls) = g[n]
    BY <1>1, <1>2 DEF WireTurns
  <2> HIDE DEF n
  <2> QED
    BY <2>1
<1>7. h[n + 1] = WireLabels(r) /\ h[n + 1] \in Seq(Nat)
  <2> DEFINE m == n + 1
  <2>1. h \in [0 .. m -> Seq(Nat)] /\ m \in 0 .. m /\ WireLabels(r) = h[m]
    BY <1>1, <1>3 DEF WireTurns
  <2> HIDE DEF m
  <2>2. h[m] = WireLabels(r) /\ h[m] \in Seq(Nat)
    BY <2>1
  <2> QED
    BY <2>2 DEF m
<1> HIDE DEF n
<1>8. h[n] = g[n]
  <2> DEFINE S == {k \in Nat : k <= n => h[k] = g[k]}
  <2>1. 0 \in S
    BY <1>4, <1>5
  <2>2. ASSUME NEW k \in Nat, k \in S PROVE k + 1 \in S
    <3> DEFINE kk == k + 1
    <3> SUFFICES ASSUME kk <= n PROVE h[kk] = g[kk]
      OBVIOUS
    <3>1. kk \in 1 .. n /\ kk \in 1 .. n + 1 /\ kk - 1 = k /\ k <= n
      BY <1>1
    <3>2. h[k] = g[k]
      BY <2>2, <3>1
    <3> HIDE DEF kk, S
    <3>3. g[kk] = WireStep(g[kk - 1], ls[kk]) /\ h[kk] = WireStep(h[kk - 1], r[kk]) /\ r[kk] = ls[kk]
      BY <1>1, <1>4, <1>5, <3>1
    <3> QED
      BY <3>1, <3>2, <3>3
  <2> HIDE DEF S
  <2>3. n \in S
    BY <1>1, <2>1, <2>2, Induction
  <2> QED
    BY <2>3 DEF S
<1>9. h[n + 1] = WireStep(h[n], x)
  <2> DEFINE e == n + 1
  <2>1. e \in 1 .. n + 1 /\ e - 1 = n /\ r[e] = x
    BY <1>1
  <2> HIDE DEF e
  <2>2. h[e] = WireStep(h[e - 1], r[e])
    BY <1>5, <2>1
  <2> QED
    BY <2>1, <2>2 DEF e
<1> QED
  BY <1>6, <1>7, <1>8, <1>9 DEF r

\* No labels are an empty string.
LEMMA DottedEmpty == Dotted(<<>>) = <<>>
<1>1. <<>> \in Seq(Seq(Nat)) /\ Len(<<>>) = 0
  OBVIOUS
<1>2. PICK g : DotTurns(g, <<>>)
  BY <1>1, DottedByLabels
<1> QED
  BY <1>1, <1>2 DEF DotTurns

\* A label more comes behind a dot, if it is not the first.
LEMMA DottedAppend ==
  ASSUME NEW ls \in Seq(Seq(Nat)), NEW x \in Seq(Nat)
  PROVE  /\ Dotted(Append(ls, x)) = DotStep(Dotted(ls), x)
         /\ Dotted(ls) \in Seq(Nat) /\ Dotted(Append(ls, x)) \in Seq(Nat)
<1> DEFINE r == Append(ls, x)
           n == Len(ls)
<1>1. /\ r \in Seq(Seq(Nat)) /\ Len(r) = n + 1 /\ n \in Nat
      /\ r[n + 1] = x /\ \A k \in 1 .. n : r[k] = ls[k]
  OBVIOUS
<1>2. PICK g : DotTurns(g, ls)
  BY DottedByLabels
<1>3. PICK h : DotTurns(h, r)
  <2> HIDE DEF r
  <2> QED
    BY <1>1, DottedByLabels
<1> HIDE DEF r
<1>4. g[0] = <<>> /\ \A k \in 1 .. n : g[k] = DotStep(g[k - 1], ls[k])
  BY <1>2 DEF DotTurns
<1>5. h[0] = <<>> /\ \A k \in 1 .. n + 1 : h[k] = DotStep(h[k - 1], r[k])
  BY <1>1, <1>3 DEF DotTurns
<1>6. g[n] = Dotted(ls) /\ g[n] \in Seq(Nat)
  <2>1. g \in [0 .. n -> Seq(Nat)] /\ n \in 0 .. n /\ Dotted(ls) = g[n]
    BY <1>1, <1>2 DEF DotTurns
  <2> HIDE DEF n
  <2> QED
    BY <2>1
<1>7. h[n + 1] = Dotted(r) /\ h[n + 1] \in Seq(Nat)
  <2> DEFINE m == n + 1
  <2>1. h \in [0 .. m -> Seq(Nat)] /\ m \in 0 .. m /\ Dotted(r) = h[m]
    BY <1>1, <1>3 DEF DotTurns
  <2> HIDE DEF m
  <2>2. h[m] = Dotted(r) /\ h[m] \in Seq(Nat)
    BY <2>1
  <2> QED
    BY <2>2 DEF m
<1> HIDE DEF n
<1>8. h[n] = g[n]
  <2> DEFINE S == {k \in Nat : k <= n => h[k] = g[k]}
  <2>1. 0 \in S
    BY <1>4, <1>5
  <2>2. ASSUME NEW k \in Nat, k \in S PROVE k + 1 \in S
    <3> DEFINE kk == k + 1
    <3> SUFFICES ASSUME kk <= n PROVE h[kk] = g[kk]
      OBVIOUS
    <3>1. kk \in 1 .. n /\ kk \in 1 .. n + 1 /\ kk - 1 = k /\ k <= n
      BY <1>1
    <3>2. h[k] = g[k]
      BY <2>2, <3>1
    <3> HIDE DEF kk, S
    <3>3. g[kk] = DotStep(g[kk - 1], ls[kk]) /\ h[kk] = DotStep(h[kk - 1], r[kk]) /\ r[kk] = ls[kk]
      BY <1>1, <1>4, <1>5, <3>1
    <3> QED
      BY <3>1, <3>2, <3>3
  <2> HIDE DEF S
  <2>3. n \in S
    BY <1>1, <2>1, <2>2, Induction
  <2> QED
    BY <2>3 DEF S
<1>9. h[n + 1] = DotStep(h[n], x)
  <2> DEFINE e == n + 1
  <2>1. e \in 1 .. n + 1 /\ e - 1 = n /\ r[e] = x
    BY <1>1
  <2> HIDE DEF e
  <2>2. h[e] = DotStep(h[e - 1], r[e])
    BY <1>5, <2>1
  <2> QED
    BY <2>1, <2>2 DEF e
<1> QED
  BY <1>6, <1>7, <1>8, <1>9 DEF r

\* The type of both, for any labels.
LEMMA TextTypes ==
  ASSUME NEW ls \in Seq(Seq(Nat))
  PROVE  WireLabels(ls) \in Seq(Nat) /\ Dotted(ls) \in Seq(Nat)
<1>1. <<>> \in Seq(Nat)
  OBVIOUS
<1> QED
  BY <1>1, WireLabelsAppend, DottedAppend

\* The first k labels are the first k - 1 and one more.
LEMMA PrefixAppend ==
  ASSUME NEW ls \in Seq(Seq(Nat)), NEW k \in 1 .. Len(ls)
  PROVE  /\ SubSeq(ls, 1, k) = Append(SubSeq(ls, 1, k - 1), ls[k])
         /\ SubSeq(ls, 1, k - 1) \in Seq(Seq(Nat)) /\ ls[k] \in Seq(Nat)
<1>1. SubSeq(ls, 1, k - 1) \in Seq(Seq(Nat)) /\ ls[k] \in Seq(Nat)
  OBVIOUS
<1>2. SubSeq(ls, 1, k) = Append(SubSeq(ls, 1, k - 1), ls[k])
  OBVIOUS
<1> QED
  BY <1>1, <1>2

\* An element behind two sequences.
LEMMA AppendBehind ==
  ASSUME NEW u \in Seq(Seq(Nat)), NEW y \in Seq(Seq(Nat)), NEW x \in Seq(Nat)
  PROVE  u \o Append(y, x) = Append(u \o y, x) /\ u \o y \in Seq(Seq(Nat))
<1>1. u \o y \in Seq(Seq(Nat)) /\ Len(u \o y) = Len(u) + Len(y)
  BY ConcatProperties
<1>2. Append(y, x) \in Seq(Seq(Nat)) /\ Append(u \o y, x) \in Seq(Seq(Nat))
  BY <1>1
<1>3. Len(u \o Append(y, x)) = Len(Append(u \o y, x))
  BY <1>1, <1>2
<1>4. ASSUME NEW i \in 1 .. Len(u \o Append(y, x))
      PROVE  (u \o Append(y, x))[i] = Append(u \o y, x)[i]
  BY <1>1, <1>2
<1> QED
  BY <1>1, <1>2, <1>3, <1>4, SeqEqual

\* Labels in two parts are written one part behind the other.
LEMMA WireParts ==
  ASSUME NEW u \in Seq(Seq(Nat)), NEW v \in Seq(Seq(Nat))
  PROVE  WireLabels(u \o v) = WireLabels(u) \o WireLabels(v)
<1> DEFINE P(k) == SubSeq(v, 1, k)
           S == {k \in Nat : k <= Len(v) => WireLabels(u \o P(k)) = WireLabels(u) \o WireLabels(P(k))}
<1>0. Len(v) \in Nat /\ WireLabels(u) \in Seq(Nat)
  BY TextTypes
<1>1. 0 \in S
  <2>1. P(0) = <<>> /\ u \o <<>> = u
    OBVIOUS
  <2>2. WireLabels(u) \o <<>> = WireLabels(u)
    BY <1>0
  <2> HIDE DEF P
  <2> QED
    BY <2>1, <2>2, WireLabelsEmpty
<1>2. ASSUME NEW k \in Nat, k \in S PROVE k + 1 \in S
  <2> DEFINE kk == k + 1
             x == v[kk]
             y == P(k)
             a == u \o y
  <2> SUFFICES ASSUME kk <= Len(v)
               PROVE  WireLabels(u \o P(kk)) = WireLabels(u) \o WireLabels(P(kk))
    OBVIOUS
  <2>1. kk \in 1 .. Len(v) /\ kk - 1 = k /\ k <= Len(v)
    BY <1>0
  <2>2. P(kk) = Append(y, x) /\ y \in Seq(Seq(Nat)) /\ x \in Seq(Nat)
    <3> HIDE DEF kk
    <3> QED
      BY <2>1, PrefixAppend
  <2>3. WireLabels(a) = WireLabels(u) \o WireLabels(y)
    BY <1>2, <2>1
  <2> HIDE DEF x, y, P, S, kk
  <2>4. u \o Append(y, x) = Append(a, x) /\ a \in Seq(Seq(Nat))
    BY <2>2, AppendBehind
  <2> HIDE DEF a
  <2>5. WireLabels(Append(a, x)) = WireStep(WireLabels(a), x)
        /\ WireLabels(Append(y, x)) = WireStep(WireLabels(y), x)
    BY <2>2, <2>4, WireLabelsAppend
  <2> DEFINE U == WireLabels(u)
             Y == WireLabels(y)
             t == <<Len(x)>>
  <2>6. U \in Seq(Nat) /\ Y \in Seq(Nat) /\ t \in Seq(Nat)
    BY <2>2, TextTypes
  <2> HIDE DEF U, Y, t
  <2>7. (U \o Y) \o t \o x = U \o (Y \o t \o x)
    <3>1. /\ (U \o Y) \o t = U \o (Y \o t) /\ Y \o t \in Seq(Nat)
      BY <2>6, Associates, SMTT(40)
    <3>2. (U \o (Y \o t)) \o x = U \o ((Y \o t) \o x)
      BY <2>2, <2>6, <3>1, Associates, ZenonT(60)
    <3> QED
      BY <3>1, <3>2
  <2>8. WireStep(U \o Y, x) = U \o WireStep(Y, x)
    BY <2>7 DEF WireStep, t
  <2> QED
    BY <2>2, <2>3, <2>4, <2>5, <2>8 DEF U, Y
<1> HIDE DEF S
<1>3. Len(v) \in S
  BY <1>0, <1>1, <1>2, Induction
<1>4. P(Len(v)) = v
  OBVIOUS
<1> HIDE DEF P
<1> QED
  BY <1>0, <1>3, <1>4 DEF S

\* One label.
LEMMA WireOne ==
  ASSUME NEW x \in Seq(Nat)
  PROVE  WireLabels(<<x>>) = <<Len(x)>> \o x
<1>1. <<>> \in Seq(Seq(Nat)) /\ Append(<<>>, x) = <<x>> /\ <<Len(x)>> \in Seq(Nat)
  OBVIOUS
<1>2. WireLabels(<<x>>) = WireStep(<<>>, x)
  BY <1>1, WireLabelsAppend, WireLabelsEmpty
<1>3. <<>> \o <<Len(x)>> = <<Len(x)>>
  BY <1>1, ConcatEmptySeq
<1> QED
  BY <1>2, <1>3 DEF WireStep

\* Sequences of any elements, one behind the other.
LEMMA JoinedType ==
  ASSUME NEW T, NEW u \in Seq(T), NEW v \in Seq(T)
  PROVE  u \o v \in Seq(T) /\ Len(u \o v) = Len(u) + Len(v)
OBVIOUS

\* A sequence is its first k elements and those behind them.
LEMMA TwoHalves ==
  ASSUME NEW T, NEW s \in Seq(T), NEW k \in 0 .. Len(s)
  PROVE  s = SubSeq(s, 1, k) \o SubSeq(s, k + 1, Len(s))
<1> DEFINE n == Len(s)
           u == SubSeq(s, 1, k)
           v == SubSeq(s, k + 1, n)
           w == u \o v
<1>1. u \in Seq(T) /\ Len(u) = k /\ \A i \in 1 .. k : u[i] = s[i]
  OBVIOUS
<1>2. v \in Seq(T) /\ Len(v) = n - k /\ \A i \in 1 .. n - k : v[i] = s[k + i]
  OBVIOUS
<1>3. n \in Nat /\ k \in Nat /\ k <= n
  OBVIOUS
<1> HIDE DEF u, v, n
<1>4. w \in Seq(T) /\ Len(w) = n
  <2>1. w \in Seq(T) /\ Len(w) = Len(u) + Len(v)
    BY <1>1, <1>2, JoinedType
  <2>2. k + (n - k) = n
    BY <1>3
  <2> QED
    BY <1>1, <1>2, <2>1, <2>2
<1>5. \A i \in 1 .. n : w[i] = s[i]
  <2> TAKE i \in 1 .. n
  <2>1. CASE i <= k
    BY <1>1, <1>2, <1>3, <2>1
  <2>2. CASE i > k
    <3> DEFINE j == i - k
    <3>1. j \in 1 .. n - k /\ i = k + j
      BY <1>3, <2>2
    <3> HIDE DEF j
    <3>2. w[k + j] = v[j]
      BY <1>1, <1>2, <1>3, <3>1
    <3> QED
      BY <1>2, <3>1, <3>2
  <2>3. i <= k \/ i > k
    BY <1>3
  <2> QED
    BY <2>1, <2>2, <2>3
<1> HIDE DEF w
<1>6. w = s
  BY <1>4, <1>5 DEF n
<1> QED
  BY <1>6 DEF w, u, v, n

\* The labels up to the kth and those behind it.
LEMMA WireSplit ==
  ASSUME NEW ls \in Seq(Seq(Nat)), NEW k \in 0 .. Len(ls)
  PROVE  /\ WireLabels(ls) = WireLabels(SubSeq(ls, 1, k)) \o WireLabels(SubSeq(ls, k + 1, Len(ls)))
         /\ SubSeq(ls, 1, k) \in Seq(Seq(Nat)) /\ SubSeq(ls, k + 1, Len(ls)) \in Seq(Seq(Nat))
<1>1. SubSeq(ls, 1, k) \in Seq(Seq(Nat)) /\ SubSeq(ls, k + 1, Len(ls)) \in Seq(Seq(Nat))
  OBVIOUS
<1>2. ls = SubSeq(ls, 1, k) \o SubSeq(ls, k + 1, Len(ls))
  BY TwoHalves
<1> QED
  BY <1>1, <1>2, WireParts

-----------------------------------------------------------------------------
(* The second loop of read_name, label by label.                             *)

\* Its states.
Moving(i, name) == [i |-> i, name |-> name]

\* Those in which it ends.
AtEnd(st) == st.i > Len(st.name)

\* g[k] is the state after k of N turns.
MoveTurns(g, N) == \A k \in 1 .. N : g[k] = MoveLabel(g[k - 1])

\* A turn behind the last label changes nothing.
LEMMA LastMove ==
  ASSUME NEW st, AtEnd(st) PROVE MoveLabel(st) = st
BY DEF MoveLabel, AtEnd

\* Once the end is reached nothing changes.
LEMMA NothingMoved ==
  ASSUME NEW N \in Nat, NEW g, MoveTurns(g, N), NEW i \in 0 .. N, AtEnd(g[i])
  PROVE  g[N] = g[i]
<1> DEFINE S == {k \in Nat : i + k <= N => g[i + k] = g[i]}
<1>1. 0 \in S
  <2>1. i + 0 = i
    OBVIOUS
  <2> QED
    BY <2>1
<1>2. ASSUME NEW k \in Nat, k \in S PROVE k + 1 \in S
  <2> DEFINE ii == i + (k + 1)
  <2> SUFFICES ASSUME ii <= N PROVE g[ii] = g[i]
    OBVIOUS
  <2>1. ii \in 1 .. N /\ ii - 1 = i + k /\ i + k <= N
    OBVIOUS
  <2>2. g[i + k] = g[i]
    BY <1>2, <2>1
  <2> HIDE DEF ii, S
  <2>3. g[ii] = MoveLabel(g[ii - 1])
    BY <2>1 DEF MoveTurns
  <2>4. g[ii] = MoveLabel(g[i])
    BY <2>1, <2>2, <2>3
  <2> QED
    BY <2>4, LastMove
<1> HIDE DEF S
<1>3. N - i \in S
  BY <1>1, <1>2, Induction
<1>4. i + (N - i) = N
  OBVIOUS
<1> QED
  BY <1>3, <1>4 DEF S

\* So whichever turn reaches the end gives the same.
LEMMA SameMoveEnd ==
  ASSUME NEW N \in Nat, NEW g, MoveTurns(g, N), NEW i \in 0 .. N, NEW k \in 0 .. N,
         AtEnd(g[i]), AtEnd(g[k])
  PROVE  g[k] = g[i]
<1>1. ASSUME NEW x \in 0 .. N, NEW y \in 0 .. N, x <= y, AtEnd(g[x]) PROVE g[y] = g[x]
  <2>1. y \in Nat /\ x \in 0 .. y
    BY <1>1
  <2>2. MoveTurns(g, y)
    BY DEF MoveTurns
  <2> QED
    BY <1>1, <2>1, <2>2, NothingMoved
<1>2. i <= k \/ k <= i
  OBVIOUS
<1>3. CASE i <= k
  BY <1>1, <1>3
<1>4. CASE k <= i
  BY <1>1, <1>4
<1> QED
  BY <1>2, <1>3, <1>4

\* The function that ToDotted is defined by exists.
LEMMA MovesByTurns ==
  ASSUME NEW raw \in Seq(Nat)
  PROVE  \E g : /\ MoveTurns(g, Len(raw))
                /\ g[0] = Moving(1, raw)
                /\ \A k \in 0 .. Len(raw) : AtEnd(g[k]) => ToDotted(raw) = SubSeq(g[k].name, 1, g[k].i - 2)
<1> DEFINE first == Moving(1, raw)
           Fun(f, n) == f = [k \in 0 .. n |-> IF k = 0 THEN first ELSE MoveLabel(f[k - 1])]
           S == {n \in Nat : \E f : Fun(f, n)}
<1>0. Len(raw) \in Nat
  OBVIOUS
<1>1. 0 \in S
  <2>1. Fun([k \in 0 .. 0 |-> first], 0)
    OBVIOUS
  <2> QED
    BY <2>1
<1>2. ASSUME NEW n \in Nat, n \in S PROVE n + 1 \in S
  <2>1. PICK f : Fun(f, n)
    BY <1>2
  <2> DEFINE m == n + 1
             h == [k \in 0 .. m |-> IF k = 0 THEN first ELSE MoveLabel(f[k - 1])]
  <2>2. \A k \in 0 .. n : h[k] = f[k] /\ k \in 0 .. m
    <3> HIDE DEF first
    <3> QED
      BY <2>1
  <2>3. \A k \in 0 .. m : k # 0 => k - 1 \in 0 .. n
    OBVIOUS
  <2>4. Fun(h, m)
    <3>1. \A k \in 0 .. m : k # 0 => h[k - 1] = f[k - 1]
      <4> HIDE DEF h, m
      <4> QED
        BY <2>2, <2>3
    <3> HIDE DEF first, m
    <3>2. \A k \in 0 .. m : h[k] = IF k = 0 THEN first ELSE MoveLabel(h[k - 1])
      <4>1. \A k \in 0 .. m : h[k] = IF k = 0 THEN first ELSE MoveLabel(f[k - 1])
        OBVIOUS
      <4> HIDE DEF h
      <4> QED
        BY <3>1, <4>1
    <3>3. h = [k \in 0 .. m |-> h[k]]
      OBVIOUS
    <3>4. h = [k \in 0 .. m |-> IF k = 0 THEN first ELSE MoveLabel(h[k - 1])]
      <4> HIDE DEF h
      <4> QED
        BY <3>2, <3>3
    <3> QED
      BY <3>4
  <2> HIDE DEF h, Fun
  <2> QED
    BY <2>4
<1> HIDE DEF S
<1>3. Len(raw) \in S
  <2> HIDE DEF Fun
  <2> QED
    BY <1>0, <1>1, <1>2, Induction
<1> DEFINE F == CHOOSE f : Fun(f, Len(raw))
<1>4. Fun(F, Len(raw))
  <2> HIDE DEF Fun
  <2> QED
    BY <1>3 DEF S
<1> DEFINE last == CHOOSE k \in 0 .. Len(raw) : AtEnd(F[k])
<1>5. ToDotted(raw) = SubSeq(F[last].name, 1, F[last].i - 2)
  BY DEF ToDotted, Moving, AtEnd
<1> HIDE DEF F, first
<1>6. \A k \in 0 .. Len(raw) : F[k] = IF k = 0 THEN first ELSE MoveLabel(F[k - 1])
  BY <1>4
<1>7. F[0] = first /\ MoveTurns(F, Len(raw))
  BY <1>0, <1>6 DEF MoveTurns
<1>8. ASSUME NEW k \in 0 .. Len(raw), AtEnd(F[k]) PROVE ToDotted(raw) = SubSeq(F[k].name, 1, F[k].i - 2)
  <2>1. last \in 0 .. Len(raw) /\ AtEnd(F[last])
    BY <1>8
  <2> HIDE DEF last
  <2> QED
    BY <1>0, <1>5, <1>7, <1>8, <2>1, SameMoveEnd
<1> QED
  BY <1>7, <1>8 DEF first

\* A sequence of four parts: the length of a label stands in front of it.
LengthFirst(w, d, x, l, r) ==
  /\ w \in Seq(Nat) /\ Len(w) = Len(d) + 1 + Len(l) + Len(r)
  /\ \A j \in 1 .. Len(d) : w[j] = d[j]
  /\ w[Len(d) + 1] = x
  /\ \A j \in 1 .. Len(l) : w[Len(d) + 1 + j] = l[j]
  /\ \A j \in 1 .. Len(r) : w[Len(d) + 1 + Len(l) + j] = r[j]

\* A dot stands behind the label instead.
DotLast(w, d, x, l, r) ==
  /\ w \in Seq(Nat) /\ Len(w) = Len(d) + 1 + Len(l) + Len(r)
  /\ \A j \in 1 .. Len(d) : w[j] = d[j]
  /\ \A j \in 1 .. Len(l) : w[Len(d) + j] = l[j]
  /\ w[Len(d) + Len(l) + 1] = x
  /\ \A j \in 1 .. Len(r) : w[Len(d) + 1 + Len(l) + j] = r[j]

\* They are those of the four parts.
LEMMA FourParts ==
  ASSUME NEW d \in Seq(Nat), NEW x \in Nat, NEW l \in Seq(Nat), NEW r \in Seq(Nat)
  PROVE  LengthFirst(d \o (<<x>> \o (l \o r)), d, x, l, r)
<1> DEFINE u == l \o r
           t == <<x>> \o u
           D == Len(d)
           L == Len(l)
           R == Len(r)
           w == d \o t
<1>1. /\ u \in Seq(Nat) /\ Len(u) = L + R
      /\ \A j \in 1 .. L : u[j] = l[j]
      /\ \A j \in 1 .. R : u[L + j] = r[j]
  BY TwoParts
<1>2. D \in Nat /\ L \in Nat /\ R \in Nat
  OBVIOUS
<1> HIDE DEF u
<1>3. /\ t \in Seq(Nat) /\ Len(t) = 1 + (L + R)
      /\ t[1] = x
      /\ \A j \in 1 .. L + R : t[1 + j] = u[j]
  <2> DEFINE o == <<x>>
  <2>1. o \in Seq(Nat) /\ Len(o) = 1 /\ o[1] = x /\ 1 \in 1 .. Len(o)
    OBVIOUS
  <2> HIDE DEF o
  <2>2. /\ o \o u \in Seq(Nat) /\ Len(o \o u) = Len(o) + Len(u)
        /\ \A j \in 1 .. Len(o) : (o \o u)[j] = o[j]
        /\ \A j \in 1 .. Len(u) : (o \o u)[Len(o) + j] = u[j]
    BY <1>1, <2>1, TwoParts
  <2>3. t = o \o u
    BY DEF o
  <2> HIDE DEF t
  <2> QED
    BY <1>1, <2>1, <2>2, <2>3
<1> HIDE DEF t
<1>4. /\ w \in Seq(Nat) /\ Len(w) = D + Len(t)
      /\ \A j \in 1 .. D : w[j] = d[j]
      /\ \A j \in 1 .. Len(t) : w[D + j] = t[j]
  BY <1>3, TwoParts
<1> HIDE DEF D, L, R, w
<1>5. Len(w) = D + 1 + L + R
  BY <1>2, <1>3, <1>4
<1>6. w[D + 1] = x
  <2>1. 1 \in 1 .. Len(t)
    BY <1>2, <1>3
  <2> QED
    BY <1>3, <1>4, <2>1
<1>7. ASSUME NEW j \in 1 .. L PROVE w[D + 1 + j] = l[j]
  <2>1. 1 + j \in 1 .. Len(t) /\ j \in 1 .. L + R /\ D + (1 + j) = D + 1 + j
    BY <1>2, <1>3
  <2>2. w[D + (1 + j)] = t[1 + j]
    BY <1>4, <2>1
  <2> QED
    BY <1>1, <1>3, <2>1, <2>2
<1>8. ASSUME NEW j \in 1 .. R PROVE w[D + 1 + L + j] = r[j]
  <2> DEFINE k == L + j
  <2>1. 1 + k \in 1 .. Len(t) /\ k \in 1 .. L + R /\ D + (1 + k) = D + 1 + L + j
    BY <1>2, <1>3
  <2>2. u[k] = r[j]
    BY <1>1
  <2> HIDE DEF k
  <2>3. w[D + (1 + k)] = t[1 + k]
    BY <1>4, <2>1
  <2> QED
    BY <1>3, <2>1, <2>2, <2>3
<1>9. LengthFirst(w, d, x, l, r)
  BY <1>4, <1>5, <1>6, <1>7, <1>8 DEF D, L, R, LengthFirst
<1> QED
  BY <1>9 DEF w, t, u

\* A dot stands behind the label instead.
LEMMA FourPartsMoved ==
  ASSUME NEW d \in Seq(Nat), NEW x \in Nat, NEW l \in Seq(Nat), NEW r \in Seq(Nat)
  PROVE  DotLast((d \o l) \o (<<x>> \o r), d, x, l, r)
<1> DEFINE u == d \o l
           D == Len(d)
           L == Len(l)
           R == Len(r)
           e == <<>>
           w == (d \o l) \o (<<x>> \o r)
<1>1. /\ u \in Seq(Nat) /\ Len(u) = D + L
      /\ \A j \in 1 .. D : u[j] = d[j]
      /\ \A j \in 1 .. L : u[D + j] = l[j]
  BY TwoParts
<1>2. D \in Nat /\ L \in Nat /\ R \in Nat /\ e \in Seq(Nat) /\ Len(e) = 0
  OBVIOUS
<1>3. w = u \o (<<x>> \o (e \o r))
  <2>1. e \o r = r
    BY ConcatEmptySeq
  <2> HIDE DEF e
  <2> QED
    BY <2>1
<1> HIDE DEF u, e, w
<1>4. /\ w \in Seq(Nat) /\ Len(w) = Len(u) + 1 + Len(e) + Len(r)
      /\ \A j \in 1 .. Len(u) : w[j] = u[j]
      /\ w[Len(u) + 1] = x
      /\ \A j \in 1 .. Len(r) : w[Len(u) + 1 + Len(e) + j] = r[j]
  <2>1. LengthFirst(u \o (<<x>> \o (e \o r)), u, x, e, r)
    BY <1>1, <1>2, FourParts
  <2>2. LengthFirst(w, u, x, e, r)
    BY <1>3, <2>1
  <2> QED
    BY <2>2 DEF LengthFirst
<1> HIDE DEF D, L, R
<1>5. Len(w) = D + 1 + L + R /\ w[D + L + 1] = x
  <2>1. Len(w) = (D + L) + 1 + 0 + R
    BY <1>1, <1>2, <1>4 DEF R
  <2>2. w[Len(u) + 1] = x
    BY <1>4
  <2> QED
    BY <1>1, <1>2, <2>1, <2>2
<1>6. ASSUME NEW j \in 1 .. D PROVE w[j] = d[j]
  <2>1. j \in 1 .. Len(u)
    BY <1>1, <1>2
  <2> QED
    BY <1>1, <1>4, <2>1
<1>7. ASSUME NEW j \in 1 .. L PROVE w[D + j] = l[j]
  <2>1. D + j \in 1 .. Len(u)
    BY <1>1, <1>2
  <2>2. w[D + j] = u[D + j]
    BY <1>4, <2>1
  <2> QED
    BY <1>1, <2>2
<1>8. ASSUME NEW j \in 1 .. R PROVE w[D + 1 + L + j] = r[j]
  <2>1. w[Len(u) + 1 + Len(e) + j] = r[j]
    BY <1>4 DEF R
  <2>2. Len(u) + 1 + Len(e) + j = D + 1 + L + j
    BY <1>1, <1>2
  <2> QED
    BY <2>1, <2>2
<1>9. DotLast(w, d, x, l, r)
  BY <1>4, <1>5, <1>6, <1>7, <1>8 DEF D, L, R, DotLast
<1> QED
  BY <1>9 DEF w

\* A length in front of a label gives way to a dot behind it.
LEMMA Moved ==
  ASSUME NEW d \in Seq(Nat), NEW l \in Seq(Nat), NEW r \in Seq(Nat)
  PROVE  MoveLabel(Moving(Len(d) + 1, d \o (<<Len(l)>> \o (l \o r)))) =
           Moving(Len(d) + Len(l) + 2, (d \o l) \o (<<Dot>> \o r))
<1> DEFINE D == Len(d)
           L == Len(l)
           R == Len(r)
           v == d \o (<<L>> \o (l \o r))
           w == (d \o l) \o (<<Dot>> \o r)
           f == [k \in DOMAIN v |-> IF k \in D + 1 .. D + 1 + L - 1 THEN v[k + 1]
                                    ELSE IF k = D + 1 + L THEN Dot ELSE v[k]]
<1>1. D \in Nat /\ L \in Nat /\ R \in Nat /\ Dot \in Nat
  BY DEF Dot
<1>2. LengthFirst(v, d, L, l, r)
  BY FourParts
<1>3. DotLast(w, d, Dot, l, r)
  BY <1>1, FourPartsMoved
<1> HIDE DEF v, w
<1>4. /\ v \in Seq(Nat) /\ Len(v) = D + 1 + L + R
      /\ \A j \in 1 .. D : v[j] = d[j]
      /\ v[D + 1] = L
      /\ \A j \in 1 .. L : v[D + 1 + j] = l[j]
      /\ \A j \in 1 .. R : v[D + 1 + L + j] = r[j]
  BY <1>2 DEF LengthFirst
<1>5. /\ w \in Seq(Nat) /\ Len(w) = D + 1 + L + R
      /\ \A j \in 1 .. D : w[j] = d[j]
      /\ \A j \in 1 .. L : w[D + j] = l[j]
      /\ w[D + L + 1] = Dot
      /\ \A j \in 1 .. R : w[D + 1 + L + j] = r[j]
  BY <1>3 DEF DotLast
<1>6. MoveLabel(Moving(D + 1, v)) = Moving(D + L + 2, f)
  <2>1. ~(D + 1 > Len(v)) /\ D + 1 + L + 1 = D + L + 2
    BY <1>1, <1>4
  <2>2. MoveLabel(Moving(D + 1, v)) = [i |-> D + 1 + L + 1, name |-> f]
    <3> HIDE DEF D, L, R
    <3> QED
      BY <1>4, <2>1 DEF MoveLabel, Moving
  <2> HIDE DEF f, D, L
  <2> QED
    BY <2>1, <2>2 DEF Moving
<1> HIDE DEF D, L, R
<1> DEFINE n == D + 1 + L + R
<1>7. DOMAIN v = 1 .. n /\ DOMAIN w = 1 .. n
  BY <1>4, <1>5
<1>8. ASSUME NEW k \in 1 .. n PROVE f[k] = w[k]
  <2>0. k \in DOMAIN v
    BY <1>7
  <2>1. CASE k <= D
    <3>1. k \in 1 .. D /\ ~(k \in D + 1 .. D + 1 + L - 1) /\ k # D + 1 + L
      BY <1>1, <2>1
    <3>2. f[k] = v[k]
      BY <2>0, <3>1
    <3> HIDE DEF f
    <3> QED
      BY <1>4, <1>5, <3>1, <3>2
  <2>2. CASE k \in D + 1 .. D + L
    <3> DEFINE j == k - D
    <3>1. j \in 1 .. L /\ D + 1 + j = k + 1 /\ D + j = k /\ k \in D + 1 .. D + 1 + L - 1
      BY <1>1, <2>2
    <3>2. f[k] = v[k + 1]
      BY <2>0, <3>1
    <3> HIDE DEF f, j
    <3>3. v[D + 1 + j] = l[j] /\ w[D + j] = l[j]
      BY <1>4, <1>5, <3>1
    <3> QED
      BY <3>1, <3>2, <3>3
  <2>3. CASE k = D + L + 1
    <3>1. ~(k \in D + 1 .. D + 1 + L - 1) /\ k = D + 1 + L
      BY <1>1, <2>3
    <3>2. f[k] = Dot
      BY <2>0, <3>1
    <3> HIDE DEF f
    <3> QED
      BY <1>5, <2>3, <3>2
  <2>4. CASE k > D + L + 1
    <3> DEFINE j == k - (D + 1 + L)
    <3>1. /\ j \in 1 .. R /\ D + 1 + L + j = k
          /\ ~(k \in D + 1 .. D + 1 + L - 1) /\ k # D + 1 + L
      BY <1>1, <2>4
    <3>2. f[k] = v[k]
      BY <2>0, <3>1
    <3> HIDE DEF f, j
    <3>3. v[D + 1 + L + j] = r[j] /\ w[D + 1 + L + j] = r[j]
      BY <1>4, <1>5, <3>1
    <3> QED
      BY <3>1, <3>2, <3>3
  <2>5. k <= D \/ k \in D + 1 .. D + L \/ k = D + L + 1 \/ k > D + L + 1
    BY <1>1
  <2> QED
    BY <2>1, <2>2, <2>3, <2>4, <2>5
<1>9. f = w
  <2>1. f = [k \in 1 .. n |-> f[k]] /\ w = [k \in 1 .. n |-> w[k]]
    <3>1. f = [k \in DOMAIN v |-> f[k]]
      OBVIOUS
    <3>2. w = [k \in DOMAIN w |-> w[k]]
      BY <1>5
    <3> HIDE DEF f
    <3> QED
      BY <1>7, <3>1, <3>2
  <2> HIDE DEF f
  <2> QED
    BY <1>8, <2>1
<1> HIDE DEF f
<1>10. MoveLabel(Moving(D + 1, v)) = Moving(D + L + 2, w)
  BY <1>6, <1>9
<1> QED
  BY <1>10 DEF D, L, v, w

\* No label is empty.
NoEmpty(ls) == \A k \in 1 .. Len(ls) : ls[k] # <<>>

\* The first k labels with a dot behind each.
DotEnded(ls, k) == IF k = 0 THEN <<>> ELSE Dotted(SubSeq(ls, 1, k)) \o <<Dot>>

\* A string of labels is not empty if there is one.
LEMMA DottedNonempty ==
  ASSUME NEW ls \in Seq(Seq(Nat)), NoEmpty(ls), NEW k \in 1 .. Len(ls)
  PROVE  Dotted(SubSeq(ls, 1, k)) # <<>>
<1> DEFINE x == ls[k]
           u == SubSeq(ls, 1, k - 1)
           a == Dotted(u)
<1>1. SubSeq(ls, 1, k) = Append(u, x) /\ u \in Seq(Seq(Nat)) /\ x \in Seq(Nat)
  BY PrefixAppend
<1>2. x # <<>>
  BY DEF NoEmpty
<1> HIDE DEF x, u
<1>3. Dotted(Append(u, x)) = DotStep(a, x) /\ a \in Seq(Nat)
  BY <1>1, DottedAppend
<1> HIDE DEF a
<1>4. DotStep(a, x) # <<>>
  <2>1. CASE a = <<>>
    BY <1>2, <2>1 DEF DotStep
  <2>2. CASE a # <<>>
    <3>1. Len(a \o <<Dot>> \o x) # 0
      BY <1>1, <1>3 DEF Dot
    <3>2. a \o <<Dot>> \o x # <<>>
      BY <3>1
    <3> QED
      BY <2>2, <3>2 DEF DotStep
  <2> QED
    BY <2>1, <2>2
<1> QED
  BY <1>1, <1>3, <1>4

\* What a further label adds.
LEMMA DotEndedGrows ==
  ASSUME NEW ls \in Seq(Seq(Nat)), NoEmpty(ls), NEW k \in 1 .. Len(ls)
  PROVE  /\ DotEnded(ls, k) = (DotEnded(ls, k - 1) \o ls[k]) \o <<Dot>>
         /\ DotEnded(ls, k - 1) \in Seq(Nat)
<1> DEFINE x == ls[k]
           u == SubSeq(ls, 1, k - 1)
           a == Dotted(u)
           d == DotEnded(ls, k - 1)
<1>1. SubSeq(ls, 1, k) = Append(u, x) /\ u \in Seq(Seq(Nat)) /\ x \in Seq(Nat)
  BY PrefixAppend
<1>2. k # 0 /\ k - 1 \in Nat
  OBVIOUS
<1>3. CASE k = 1
  <2>1. u = <<>> /\ d = <<>>
    BY <1>3 DEF DotEnded
  <2> HIDE DEF u, d, x
  <2>2. Dotted(Append(u, x)) = DotStep(a, x) /\ a = <<>>
    BY <1>1, <2>1, DottedAppend, DottedEmpty
  <2>3. Dotted(SubSeq(ls, 1, k)) = x
    BY <1>1, <2>2 DEF DotStep
  <2>4. DotEnded(ls, k) = x \o <<Dot>>
    BY <1>2, <2>3 DEF DotEnded
  <2>5. d \o x = x /\ d \in Seq(Nat)
    BY <1>1, <2>1, ConcatEmptySeq
  <2> QED
    BY <2>4, <2>5 DEF d, x
<1>4. CASE k # 1
  <2>1. k - 1 # 0 /\ k - 1 \in 1 .. Len(ls)
    BY <1>4
  <2>2. d = a \o <<Dot>>
    BY <2>1 DEF DotEnded
  <2>3. a # <<>>
    BY <2>1, DottedNonempty
  <2> HIDE DEF u, d, x
  <2>4. Dotted(Append(u, x)) = DotStep(a, x) /\ a \in Seq(Nat)
    BY <1>1, DottedAppend
  <2> HIDE DEF a
  <2>5. Dotted(SubSeq(ls, 1, k)) = d \o x
    BY <1>1, <2>2, <2>3, <2>4 DEF DotStep
  <2>6. d \in Seq(Nat)
    BY <2>2, <2>4 DEF Dot
  <2>7. DotEnded(ls, k) = (d \o x) \o <<Dot>>
    BY <1>2, <2>5 DEF DotEnded
  <2> QED
    BY <2>6, <2>7 DEF d, x
<1> QED
  BY <1>3, <1>4

\* Of the labels from the kth on, the first is written first.
LEMMA WireTail ==
  ASSUME NEW ls \in Seq(Seq(Nat)), NEW k \in 1 .. Len(ls), NEW r,
         r = WireLabels(SubSeq(ls, k + 1, Len(ls)))
  PROVE  /\ WireLabels(SubSeq(ls, k, Len(ls))) = <<Len(ls[k])>> \o (ls[k] \o r)
         /\ ls[k] \in Seq(Nat) /\ r \in Seq(Nat)
<1> DEFINE x == ls[k]
           o == <<x>>
           v == SubSeq(ls, k + 1, Len(ls))
           h == <<Len(x)>>
<1>1. x \in Seq(Nat) /\ o \in Seq(Seq(Nat)) /\ v \in Seq(Seq(Nat)) /\ h \in Seq(Nat)
  OBVIOUS
<1>2. SubSeq(ls, k, Len(ls)) = o \o v
  OBVIOUS
<1> HIDE DEF v, o
<1>3. WireLabels(o \o v) = WireLabels(o) \o WireLabels(v) /\ WireLabels(v) \in Seq(Nat)
  BY <1>1, WireParts, TextTypes
<1> HIDE DEF x
<1>4. WireLabels(o) = h \o x
  BY <1>1, WireOne DEF o
<1> HIDE DEF h
<1>5. r = WireLabels(v)
  BY DEF v
<1>6. (h \o x) \o r = h \o (x \o r)
  BY <1>1, <1>3, <1>5, Associates, ZenonT(60)
<1> QED
  BY <1>1, <1>2, <1>3, <1>4, <1>5, <1>6 DEF h, x

\* Every label takes a byte at least.
LEMMA WireLength ==
  ASSUME NEW ls \in Seq(Seq(Nat))
  PROVE  Len(ls) <= Len(WireLabels(ls))
<1> DEFINE P(k) == SubSeq(ls, 1, k)
           S == {k \in Nat : k <= Len(ls) => k <= Len(WireLabels(P(k)))}
<1>1. 0 \in S
  <2>1. P(0) \in Seq(Seq(Nat))
    OBVIOUS
  <2> HIDE DEF P
  <2>2. Len(WireLabels(P(0))) \in Nat
    BY <2>1, TextTypes
  <2> QED
    BY <2>2
<1>2. ASSUME NEW k \in Nat, k \in S PROVE k + 1 \in S
  <2> DEFINE kk == k + 1
             x == ls[kk]
             u == P(k)
             w == WireLabels(u)
  <2> SUFFICES ASSUME kk <= Len(ls) PROVE kk <= Len(WireLabels(P(kk)))
    OBVIOUS
  <2>1. kk \in 1 .. Len(ls) /\ kk - 1 = k /\ k <= Len(ls)
    OBVIOUS
  <2>2. P(kk) = Append(u, x) /\ u \in Seq(Seq(Nat)) /\ x \in Seq(Nat)
    <3> HIDE DEF kk
    <3> QED
      BY <2>1, PrefixAppend
  <2>3. k <= Len(w)
    BY <1>2, <2>1
  <2> HIDE DEF x, P, S, kk, u
  <2>4. WireLabels(Append(u, x)) = WireStep(w, x) /\ w \in Seq(Nat)
    BY <2>2, WireLabelsAppend
  <2> HIDE DEF w
  <2>5. Len(WireStep(w, x)) = Len(w) + 1 + Len(x)
    BY <2>2, <2>4 DEF WireStep
  <2>6. Len(w) \in Nat /\ Len(x) \in Nat
    BY <2>2, <2>4
  <2>7. k + 1 <= Len(WireStep(w, x))
    BY <2>3, <2>5, <2>6
  <2> QED
    BY <2>2, <2>4, <2>7 DEF kk
<1> HIDE DEF S
<1>3. Len(ls) \in S
  BY <1>1, <1>2, Induction, SMTT(40)
<1>4. P(Len(ls)) = ls
  OBVIOUS
<1> HIDE DEF P
<1> QED
  BY <1>3, <1>4 DEF S

\* The state after k labels.
MovedLabels(ls, k) ==
  Moving(Len(DotEnded(ls, k)) + 1, DotEnded(ls, k) \o WireLabels(SubSeq(ls, k + 1, Len(ls))))

\* One label more.
LEMMA MovedOneMore ==
  ASSUME NEW ls \in Seq(Seq(Nat)), NoEmpty(ls), NEW k \in 1 .. Len(ls)
  PROVE  MoveLabel(MovedLabels(ls, k - 1)) = MovedLabels(ls, k)
<1> DEFINE d == DotEnded(ls, k - 1)
           l == ls[k]
           r == WireLabels(SubSeq(ls, k + 1, Len(ls)))
           e == DotEnded(ls, k)
           o == <<Dot>>
<1>1. /\ WireLabels(SubSeq(ls, k, Len(ls))) = <<Len(l)>> \o (l \o r)
      /\ l \in Seq(Nat) /\ r \in Seq(Nat)
  BY WireTail
<1>2. e = (d \o l) \o o /\ d \in Seq(Nat)
  BY DotEndedGrows
<1>3. k - 1 + 1 = k /\ o \in Seq(Nat) /\ Len(o) = 1
  BY DEF Dot
<1> HIDE DEF d, l, r, e, o
<1>4. MovedLabels(ls, k - 1) = Moving(Len(d) + 1, d \o (<<Len(l)>> \o (l \o r)))
  BY <1>1, <1>3 DEF MovedLabels, d
<1>5. MoveLabel(Moving(Len(d) + 1, d \o (<<Len(l)>> \o (l \o r)))) =
        Moving(Len(d) + Len(l) + 2, (d \o l) \o (o \o r))
  BY <1>1, <1>2, Moved DEF o
<1> DEFINE c == d \o l
<1>6. c \in Seq(Nat) /\ Len(c) = Len(d) + Len(l) /\ Len(d) \in Nat /\ Len(l) \in Nat
  BY <1>1, <1>2
<1> HIDE DEF c
<1>7. c \o (o \o r) = e \o r /\ Len(e) = Len(c) + 1
  <2>1. (c \o o) \o r = c \o (o \o r)
    BY <1>1, <1>3, <1>6, Associates
  <2>2. e = c \o o
    BY <1>2 DEF c
  <2>3. Len(c \o o) = Len(c) + 1
    <3>1. c \in Seq(Nat) /\ o \in Seq(Nat)
      BY <1>3, <1>6
    <3>2. Len(c \o o) = Len(c) + Len(o)
      BY <3>1, TwoParts
    <3> QED
      BY <1>3, <3>2
  <2> QED
    BY <2>1, <2>2, <2>3
<1>8. Len(d) + Len(l) + 2 = Len(e) + 1
  BY <1>6, <1>7
<1>9. MovedLabels(ls, k) = Moving(Len(e) + 1, e \o r)
  BY DEF MovedLabels, e, r
<1> QED
  BY <1>4, <1>5, <1>7, <1>8, <1>9 DEF c

\* The second loop of read_name makes of labels on the wire the string that the
\* labels stand for.
LEMMA ToDottedIs ==
  ASSUME NEW ls \in Seq(Seq(Nat)), NoEmpty(ls)
  PROVE  ToDotted(WireLabels(ls)) = Dotted(ls)
<1> DEFINE raw == WireLabels(ls)
           n == Len(ls)
           e == DotEnded(ls, n)
<1>1. raw \in Seq(Nat) /\ n \in Nat /\ Dotted(ls) \in Seq(Nat) /\ n <= Len(raw) /\ Len(raw) \in Nat
  BY TextTypes, WireLength
<1>2. SubSeq(ls, 1, n) = ls /\ SubSeq(ls, 0 + 1, n) = ls /\ SubSeq(ls, n + 1, n) = <<>>
  OBVIOUS
<1>3. PICK g : /\ MoveTurns(g, Len(raw))
               /\ g[0] = Moving(1, raw)
               /\ \A k \in 0 .. Len(raw) :
                    AtEnd(g[k]) => ToDotted(raw) = SubSeq(g[k].name, 1, g[k].i - 2)
  <2> HIDE DEF raw
  <2> QED
    BY <1>1, MovesByTurns
<1>4. MovedLabels(ls, 0) = Moving(1, raw)
  <2>1. DotEnded(ls, 0) = <<>> /\ Len(<<>>) + 1 = 1 /\ <<>> \o raw = raw
    BY <1>1, ConcatEmptySeq DEF DotEnded
  <2> QED
    BY <1>2, <2>1 DEF MovedLabels
<1> HIDE DEF raw, n
<1>5. g[n] = MovedLabels(ls, n)
  <2> DEFINE S == {k \in Nat : k <= n => g[k] = MovedLabels(ls, k)}
  <2>1. 0 \in S
    BY <1>3, <1>4
  <2>2. ASSUME NEW k \in Nat, k \in S PROVE k + 1 \in S
    <3> DEFINE kk == k + 1
    <3> SUFFICES ASSUME kk <= n PROVE g[kk] = MovedLabels(ls, kk)
      OBVIOUS
    <3>1. kk \in 1 .. n /\ kk \in 1 .. Len(raw) /\ kk - 1 = k /\ k <= n
      BY <1>1
    <3>2. g[k] = MovedLabels(ls, k)
      BY <2>2, <3>1
    <3> HIDE DEF kk, S
    <3>3. g[kk] = MoveLabel(g[kk - 1])
      BY <1>3, <3>1 DEF MoveTurns
    <3>4. MoveLabel(MovedLabels(ls, kk - 1)) = MovedLabels(ls, kk)
      BY <3>1, MovedOneMore DEF n
    <3> QED
      BY <3>1, <3>2, <3>3, <3>4
  <2> HIDE DEF S
  <2>3. n \in S
    BY <1>1, <2>1, <2>2, Induction
  <2> QED
    BY <2>3 DEF S
<1>6. e \in Seq(Nat)
  <2>1. CASE n = 0
    BY <2>1 DEF DotEnded
  <2>2. CASE n # 0
    <3> DEFINE a == Dotted(ls)
    <3>0. <<Dot>> \in Seq(Nat)
      BY DEF Dot
    <3>1. e = a \o <<Dot>>
      BY <1>2, <2>2 DEF DotEnded
    <3>2. a \in Seq(Nat)
      BY <1>1
    <3> HIDE DEF a, e
    <3> QED
      BY <3>0, <3>1, <3>2, TwoParts
  <2> QED
    BY <2>1, <2>2
<1> HIDE DEF e
<1>7. g[n] = Moving(Len(e) + 1, e)
  <2>1. e \o <<>> = e
    BY <1>6, ConcatEmptySeq
  <2>2. MovedLabels(ls, n) = Moving(Len(e) + 1, e \o WireLabels(<<>>))
    BY <1>2 DEF MovedLabels, e, n
  <2> QED
    BY <1>5, <2>1, <2>2, WireLabelsEmpty
<1>8. g[n].name = e /\ g[n].i = Len(e) + 1 /\ AtEnd(g[n])
  <2>1. Len(e) \in Nat
    BY <1>6
  <2> QED
    BY <1>7, <2>1 DEF AtEnd, Moving
<1>9. ToDotted(raw) = SubSeq(e, 1, Len(e) - 1)
  <2>1. n \in 0 .. Len(raw)
    BY <1>1
  <2>2. g[n].i - 2 = Len(e) - 1
    BY <1>6, <1>8
  <2>3. ToDotted(raw) = SubSeq(g[n].name, 1, g[n].i - 2)
    BY <1>3, <1>8, <2>1
  <2> QED
    BY <1>8, <2>2, <2>3
<1>10. SubSeq(e, 1, Len(e) - 1) = Dotted(ls)
  <2>1. CASE n = 0
    <3>1. ls = <<>> /\ e = <<>>
      BY <2>1 DEF n, e, DotEnded
    <3>2. SubSeq(e, 1, Len(e) - 1) = <<>>
      BY <3>1
    <3> QED
      BY <3>1, <3>2, DottedEmpty
  <2>2. CASE n # 0
    <3> DEFINE a == Dotted(ls)
    <3>1. e = a \o <<Dot>>
      BY <1>2, <2>2 DEF e, DotEnded
    <3>2. a \in Seq(Nat)
      BY <1>1
    <3> HIDE DEF a
    <3>3. SubSeq(a \o <<Dot>>, 1, Len(a \o <<Dot>>) - 1) = a
      BY <3>2 DEF Dot
    <3> QED
      BY <3>1, <3>3 DEF a
  <2> QED
    BY <2>1, <2>2
<1> QED
  BY <1>9, <1>10 DEF raw

-----------------------------------------------------------------------------
(* Where texts stand.                                                        *)

\* A text behind another.
LEMMA StandsBehind ==
  ASSUME NEW b, NEW p, NEW u, NEW v, Stands(b, p, u), Stands(b, p + Len(u), v)
  PROVE  Stands(b, p, u \o v)
<1> DEFINE m == Len(u)
           n == Len(v)
           q == p + m
           w == u \o v
<1>1. /\ b \in Seq(Nat) /\ p \in Nat /\ p # 0 /\ u \in Seq(Nat) /\ v \in Seq(Nat)
      /\ q + n <= Len(b) + 1 /\ m \in Nat /\ n \in Nat
      /\ \A i \in 1 .. m : b[p + i - 1] = u[i]
      /\ \A i \in 1 .. n : b[q + i - 1] = v[i]
  BY DEF Stands, Places
<1>2. /\ w \in Seq(Nat) /\ Len(w) = m + n
      /\ \A i \in 1 .. m : w[i] = u[i]
      /\ \A i \in 1 .. n : w[m + i] = v[i]
  BY <1>1, TwoParts
<1> HIDE DEF m, n, w
<1>3. ASSUME NEW i \in 1 .. m + n PROVE b[p + i - 1] = w[i]
  <2>1. CASE i <= m
    <3>1. i \in 1 .. m
      BY <1>1, <2>1
    <3> QED
      BY <1>1, <1>2, <3>1
  <2>2. CASE i > m
    <3> DEFINE j == i - m
    <3>1. j \in 1 .. n /\ m + j = i /\ q + j - 1 = p + i - 1
      BY <1>1, <2>2
    <3> HIDE DEF j, q
    <3>2. b[q + j - 1] = v[j] /\ w[m + j] = v[j]
      BY <1>1, <1>2, <3>1
    <3> QED
      BY <3>1, <3>2
  <2>3. i <= m \/ i > m
    BY <1>1
  <2> QED
    BY <2>1, <2>2, <2>3
<1>4. p + (m + n) <= Len(b) + 1
  BY <1>1
<1>5. Stands(b, p, w)
  BY <1>1, <1>2, <1>3, <1>4 DEF Stands, Places
<1> QED
  BY <1>5 DEF w

\* Two texts, one behind the other.
LEMMA StandsInParts ==
  ASSUME NEW b, NEW p, NEW u \in Seq(Nat), NEW v \in Seq(Nat), Stands(b, p, u \o v)
  PROVE  Stands(b, p, u) /\ Stands(b, p + Len(u), v)
<1> DEFINE m == Len(u)
           n == Len(v)
           q == p + m
           w == u \o v
<1>1. /\ w \in Seq(Nat) /\ Len(w) = m + n
      /\ \A i \in 1 .. m : w[i] = u[i]
      /\ \A i \in 1 .. n : w[m + i] = v[i]
  BY TwoParts
<1>2. Stands(b, p, w)
  BY DEF w
<1>3. m \in Nat /\ n \in Nat
  OBVIOUS
<1> HIDE DEF w, m, n
<1>4. /\ b \in Seq(Nat) /\ p \in Nat /\ p # 0
      /\ p + (m + n) <= Len(b) + 1 /\ m \in Nat /\ n \in Nat /\ Len(b) \in Nat
      /\ \A i \in 1 .. m + n : b[p + i - 1] = w[i]
  BY <1>2, <1>3, <1>1 DEF Stands, Places
<1> HIDE DEF m, n
<1>5. ASSUME NEW i \in 1 .. m PROVE b[p + i - 1] = u[i]
  <2>1. i \in 1 .. m + n
    BY <1>4
  <2> QED
    BY <1>1, <1>4, <2>1
<1>6. ASSUME NEW i \in 1 .. n PROVE b[q + i - 1] = v[i]
  <2> DEFINE j == m + i
  <2>1. j \in 1 .. m + n /\ q + i - 1 = p + j - 1
    BY <1>4
  <2>2. w[j] = v[i]
    BY <1>1
  <2> HIDE DEF j, q
  <2>3. b[p + j - 1] = w[j]
    BY <1>4, <2>1
  <2> QED
    BY <2>1, <2>2, <2>3
<1>7. p + m <= Len(b) + 1 /\ q + n <= Len(b) + 1 /\ q \in Nat /\ q # 0
  BY <1>4
<1>8. Stands(b, p, u)
  BY <1>4, <1>5, <1>7 DEF Stands, Places, m
<1>9. Stands(b, q, v)
  <2> HIDE DEF q
  <2> QED
    BY <1>4, <1>6, <1>7 DEF Stands, Places, n
<1> QED
  BY <1>8, <1>9 DEF m

\* A text in a text.
LEMMA StandsWithin ==
  ASSUME NEW b, NEW p, NEW c, Stands(b, p, c), NEW r, NEW w, Stands(c, r, w)
  PROVE  Stands(b, p + r - 1, w)
<1> DEFINE q == p + r - 1
           m == Len(c)
           n == Len(w)
<1>1. /\ b \in Seq(Nat) /\ p \in Nat /\ p # 0 /\ c \in Seq(Nat) /\ m \in Nat /\ Len(b) \in Nat
      /\ p + m <= Len(b) + 1
      /\ \A i \in 1 .. m : b[p + i - 1] = c[i]
  BY DEF Stands, Places
<1>2. /\ r \in Nat /\ r # 0 /\ w \in Seq(Nat) /\ n \in Nat /\ r + n <= m + 1
      /\ \A i \in 1 .. n : c[r + i - 1] = w[i]
  BY DEF Stands, Places
<1> HIDE DEF m, n
<1>3. ASSUME NEW i \in 1 .. n PROVE b[q + i - 1] = w[i]
  <2> DEFINE j == r + i - 1
  <2>1. j \in 1 .. m /\ q + i - 1 = p + j - 1
    BY <1>1, <1>2
  <2>2. c[j] = w[i]
    BY <1>2
  <2> HIDE DEF j, q
  <2>3. b[p + j - 1] = c[j]
    BY <1>1, <2>1
  <2> QED
    BY <2>1, <2>2, <2>3
<1>4. q \in Nat /\ q # 0 /\ q + n <= Len(b) + 1
  BY <1>1, <1>2
<1> HIDE DEF q
<1>5. Stands(b, q, w)
  BY <1>1, <1>2, <1>3, <1>4 DEF Stands, Places, n
<1> QED
  BY <1>5 DEF q

\* What is plain is so in both parts.
LEMMA PlainInParts ==
  ASSUME NEW u \in Seq(Nat), NEW v \in Seq(Nat), Plain(u \o v)
  PROVE  Plain(u) /\ Plain(v)
<1> DEFINE m == Len(u)
           n == Len(v)
           w == u \o v
<1>1. /\ w \in Seq(Nat) /\ Len(w) = m + n /\ m \in Nat /\ n \in Nat
      /\ \A i \in 1 .. m : w[i] = u[i]
      /\ \A i \in 1 .. n : w[m + i] = v[i]
  BY TwoParts
<1> HIDE DEF w
<1>2. \A i \in 1 .. m + n : w[i] \in 1 .. Pointer - 1
  BY <1>1 DEF Plain, w
<1> HIDE DEF m, n
<1>3. ASSUME NEW i \in 1 .. m PROVE u[i] \in 1 .. Pointer - 1
  <2>1. i \in 1 .. m + n
    BY <1>1
  <2> QED
    BY <1>1, <1>2, <2>1
<1>4. ASSUME NEW i \in 1 .. n PROVE v[i] \in 1 .. Pointer - 1
  <2>1. m + i \in 1 .. m + n
    BY <1>1
  <2> QED
    BY <1>1, <1>2, <2>1
<1> QED
  BY <1>3, <1>4 DEF Plain, m, n

-----------------------------------------------------------------------------
(* Names in a message.                                                       *)

\* Labels that read_name can read: none is empty, and no character or length
\* is a zero or looks like a pointer.
Readable(ls) == ls \in Seq(Seq(Nat)) /\ NoEmpty(ls) /\ Plain(WireLabels(ls))

\* At a place, labels can be read behind a pointer in at most M turns.
Leads(b, pl, M) ==
  /\ pl.at \in Nat /\ pl.labels \in Seq(Seq(Nat))
  /\ \E n \in Nat : n <= M /\ Spelled(b, pl.at + 1, WireLabels(pl.labels), n)

\* An encoding in full.
InFull(e, ls) == e = WireLabels(ls) \o <<0>>

\* One that ends in a pointer behind k labels.
ByPointer(e, ls, k, at) == e = WireLabels(SubSeq(ls, 1, k)) \o PointerTo(at)

\* There is no other.
LEMMA EncodingIs ==
  ASSUME NEW ls \in Seq(Seq(Nat)), NEW places, NEW e \in Encodings(ls, places)
  PROVE  \/ InFull(e, ls)
         \/ \E k \in 0 .. Len(ls) - 1 : \E pl \in places :
              pl.labels = SubSeq(ls, k + 1, Len(ls)) /\ ByPointer(e, ls, k, pl.at)
<1>1. CASE e = WireLabels(ls) \o <<0>>
  BY <1>1 DEF InFull
<1>2. CASE e # WireLabels(ls) \o <<0>>
  <2> DEFINE Q(k) == {q \in places : q.labels = SubSeq(ls, k + 1, Len(ls))}
             C(k) == {WireLabels(SubSeq(ls, 1, k)) \o Short(Pointer * 256 + p.at) : p \in Q(k)}
             K == 0 .. Len(ls) - 1
  <2>3. e \in {WireLabels(ls) \o <<0>>} \cup UNION {C(k) : k \in K}
    BY DEF Encodings
  <2> HIDE DEF C, K
  <2>4. PICK k \in K : e \in C(k)
    BY <1>2, <2>3
  <2>1. PICK p \in Q(k) : e = WireLabels(SubSeq(ls, 1, k)) \o Short(Pointer * 256 + p.at)
    BY <2>4 DEF C
  <2>2. /\ k \in 0 .. Len(ls) - 1 /\ p \in places
        /\ p.labels = SubSeq(ls, k + 1, Len(ls)) /\ ByPointer(e, ls, k, p.at)
    BY <2>1 DEF ByPointer, PointerTo, K
  <2> QED
    BY <2>2
<1> QED
  BY <1>1, <1>2

\* read_name gives the string and the number of bytes of the encoding.
Reads(b, p, ls, n) == ReadName(b, p) = [name |-> Dotted(ls), count |-> n]

\* A name in full.
LEMMA ReadsInFull ==
  ASSUME NEW ls, Readable(ls), NEW e, InFull(e, ls), NEW b, NEW p, Stands(b, p, e)
  PROVE  /\ Reads(b, p, ls, Len(e)) /\ e \in Seq(Nat) /\ Len(e) \in Nat
         /\ \E n \in Nat : n <= Len(e) /\ Spelled(b, p, WireLabels(ls), n)
<1> DEFINE w == WireLabels(ls)
<1>1. ls \in Seq(Seq(Nat)) /\ NoEmpty(ls) /\ Plain(w) /\ w \in Seq(Nat) /\ Len(w) \in Nat
  BY DEF Readable, Plain
<1>2. ToDotted(w) = Dotted(ls)
  BY <1>1, ToDottedIs
<1> HIDE DEF w
<1>3. e = w \o <<0>>
  BY DEF InFull, w
<1>4. e \in Seq(Nat) /\ Len(e) = Len(w) + 1
  <2>1. <<0>> \in Seq(Nat) /\ Len(<<0>>) = 1
    OBVIOUS
  <2> QED
    BY <1>1, <1>3, <2>1, TwoParts
<1>5. PICK z : Raw(b, p) = Reading(z, w, Len(w), 0)
  BY <1>1, <1>3, RawInFull
<1>6. Spelled(b, p, w, Len(w))
  BY <1>1, <1>3, SpelledInFull
<1> DEFINE m == Len(w)
<1> HIDE DEF m
<1>7. ReadName(b, p) = [name |-> ToDotted(w), count |-> 1 + m + 0]
  BY <1>5 DEF ReadName, Returned, Reading, m
<1>8. 1 + m + 0 = Len(e) /\ m <= Len(e) /\ m \in Nat
  BY <1>1, <1>4 DEF m
<1>9. Reads(b, p, ls, Len(e))
  BY <1>2, <1>7, <1>8 DEF Reads
<1> QED
  BY <1>4, <1>6, <1>8, <1>9 DEF w, m

\* A name that ends in a pointer.
LEMMA ReadsByPointer ==
  ASSUME NEW ls, Readable(ls), NEW k \in 0 .. Len(ls) - 1,
         NEW at, NEW e, ByPointer(e, ls, k, at),
         NEW b, NEW p, Stands(b, p, e), NEW M \in Nat, Len(e) + M <= Len(b),
         Leads(b, Place(SubSeq(ls, k + 1, Len(ls)), at), M)
  PROVE  /\ Reads(b, p, ls, Len(e)) /\ e \in Seq(Nat) /\ Len(e) \in Nat
         /\ \E n \in Nat : n <= Len(e) + M /\ Spelled(b, p, WireLabels(ls), n)
<1> DEFINE w == WireLabels(SubSeq(ls, 1, k))
           v == WireLabels(SubSeq(ls, k + 1, Len(ls)))
           t == PointerTo(at)
           m == Len(w)
<1>0. ls \in Seq(Seq(Nat)) /\ NoEmpty(ls) /\ Plain(WireLabels(ls)) /\ at \in Nat
  BY DEF Readable, Leads, Place
<1>1. WireLabels(ls) = w \o v /\ w \in Seq(Nat) /\ v \in Seq(Nat)
  <2> DEFINE x == SubSeq(ls, 1, k)
             y == SubSeq(ls, k + 1, Len(ls))
  <2>0. k \in 0 .. Len(ls)
    BY <1>0
  <2>1. /\ WireLabels(ls) = WireLabels(x) \o WireLabels(y)
        /\ x \in Seq(Seq(Nat)) /\ y \in Seq(Seq(Nat))
    BY <1>0, <2>0, WireSplit
  <2> HIDE DEF x, y
  <2>2. WireLabels(x) \in Seq(Nat) /\ WireLabels(y) \in Seq(Nat)
    BY <2>1, TextTypes
  <2> QED
    BY <2>1, <2>2 DEF x, y
<1>2. ToDotted(WireLabels(ls)) = Dotted(ls)
  BY <1>0, ToDottedIs
<1>3. PICK n \in Nat : n <= M /\ Spelled(b, at + 1, v, n)
  BY DEF Leads, Place
<1> HIDE DEF w, v
<1>4. Plain(w)
  BY <1>0, <1>1, PlainInParts
<1>5. t \in Seq(Nat) /\ Len(t) = 2
  BY <1>0 DEF PointerTo, Short, Pointer
<1> HIDE DEF t, m
<1>6. e = w \o t
  BY DEF ByPointer, w, t
<1>7. e \in Seq(Nat) /\ Len(e) = m + 2 /\ m \in Nat
  <2>1. e \in Seq(Nat) /\ Len(e) = Len(w) + Len(t)
    BY <1>1, <1>5, <1>6, TwoParts
  <2> QED
    BY <1>1, <1>5, <2>1 DEF m
<1>8. m + 1 + n <= Len(b) /\ m + 1 + n \in Nat /\ m + 1 + n <= Len(e) + M
      /\ 1 + m + 1 = Len(e)
  <2>1. Len(b) \in Nat
    BY DEF Stands
  <2> QED
    BY <1>3, <1>7, <2>1
<1>9. Stands(b, p, w \o PointerTo(at))
  BY <1>6 DEF t
<1>10. PICK z : Raw(b, p) = Reading(z, w \o v, m, 1)
  BY <1>0, <1>1, <1>3, <1>4, <1>8, <1>9, RawByPointer DEF m
<1>11. Spelled(b, p, w \o v, m + 1 + n)
  BY <1>0, <1>1, <1>3, <1>4, <1>9, SpelledByPointer DEF m
<1>12. ReadName(b, p) = [name |-> ToDotted(w \o v), count |-> 1 + m + 1]
  <2> DEFINE x == w \o v
  <2> HIDE DEF x
  <2>1. Raw(b, p) = Reading(z, x, m, 1)
    BY <1>10 DEF x
  <2>2. ReadName(b, p) = [name |-> ToDotted(x), count |-> 1 + m + 1]
    BY <2>1 DEF ReadName, Returned, Reading
  <2> QED
    BY <2>2 DEF x
<1>13. Reads(b, p, ls, Len(e))
  BY <1>1, <1>2, <1>8, <1>12 DEF Reads
<1> QED
  BY <1>1, <1>7, <1>8, <1>11, <1>13

\* However a name is written, read_name gives its string, and the place is one
\* that a pointer may lead to.
LEMMA ReadsName ==
  ASSUME NEW ls, Readable(ls), NEW places, NEW e \in Encodings(ls, places),
         NEW b, NEW p, Stands(b, p, e), NEW M \in Nat, Len(e) + M <= Len(b),
         \A pl \in places : Leads(b, Place(pl.labels, pl.at), M)
  PROVE  /\ Reads(b, p, ls, Len(e)) /\ e \in Seq(Nat) /\ Len(e) \in Nat
         /\ \E n \in Nat : n <= Len(e) + M /\ Spelled(b, p, WireLabels(ls), n)
<1>1. ls \in Seq(Seq(Nat))
  BY DEF Readable
<1>2. CASE InFull(e, ls)
  <2>1. /\ Reads(b, p, ls, Len(e)) /\ e \in Seq(Nat) /\ Len(e) \in Nat
        /\ \E n \in Nat : n <= Len(e) /\ Spelled(b, p, WireLabels(ls), n)
    BY <1>2, ReadsInFull
  <2>2. PICK n \in Nat : n <= Len(e) /\ Spelled(b, p, WireLabels(ls), n)
    BY <2>1
  <2>3. n <= Len(e) + M
    BY <2>1, <2>2
  <2> QED
    BY <2>1, <2>2, <2>3
<1>3. CASE \E k \in 0 .. Len(ls) - 1 : \E pl \in places :
             pl.labels = SubSeq(ls, k + 1, Len(ls)) /\ ByPointer(e, ls, k, pl.at)
  <2>1. PICK k \in 0 .. Len(ls) - 1, pl \in places :
               pl.labels = SubSeq(ls, k + 1, Len(ls)) /\ ByPointer(e, ls, k, pl.at)
    BY <1>3
  <2>2. Leads(b, Place(SubSeq(ls, k + 1, Len(ls)), pl.at), M)
    BY <2>1
  <2> QED
    BY <2>1, <2>2, ReadsByPointer
<1> QED
  BY <1>1, <1>2, <1>3, EncodingIs

-----------------------------------------------------------------------------
(* The theorems.                                                             *)

\* Part of every inductive invariant below.
HostGiven == host \in Hosts

\* Every step keeps QueryFits.
LEMMA QueryFitsHolds ==
  ASSUME HostGiven, QueryFits, [LookupNext]_lookupVars PROVE QueryFits'
<1> SUFFICES ASSUME phase' = "sent", Len(host') <= Room - HeaderLen - 7
             PROVE  HeaderLen + Len(query') <= Room
  BY DEF QueryFits
<1>1. host' = host /\ host \in Hosts
  BY HowSent DEF HostGiven
<1>2. CASE phase' = phase /\ query' = query
  BY <1>1, <1>2 DEF QueryFits
<1>3. CASE Made(query', host)
  <2>1. Len(host) \in Nat /\ Room \in Nat
    BY <1>1, HostIsName, DnsMessageAssumption
  <2>2. RoomFor(host)
    BY <1>1, <2>1 DEF RoomFor, HeaderLen
  <2>3. Len(query') <= Len(host) + 7
    BY <1>1, <1>3, <2>2, MadeFits
  <2> QED
    BY <1>1, <2>1, <2>3 DEF HeaderLen
<1> QED
  BY <1>2, <1>3, HowSent DEF Made

\* A query of either program is understood or dropped, or misdirected.
LEMMA MadeUnderstood ==
  ASSUME ProperHosts, RoomForHosts, NEW s \in Hosts, NEW q, Made(q, s)
  PROVE  /\ Accepts(q) => Named(q, s) \/ Misdirected(q, s)
         /\ q[Len(s) + 2] = 0 => Named(q, s)
<1>1. CASE q = QueryOf(ChangetoDnsNameFormat(s))
  <2>1. Named(q, s)
    BY <1>1, SendQueryUnderstood
  <2> QED
    BY <2>1
<1>2. ASSUME NEW junk \in Junk, q = QueryOf(SendReqBuffer(junk, s))
      PROVE  /\ Accepts(q) => Named(q, s) \/ Misdirected(q, s)
             /\ q[Len(s) + 2] = 0 => Named(q, s)
  BY <1>2, SendReqUnderstood
<1> QED
  BY <1>1, <1>2 DEF Made

\* Every step keeps OnlyAPointerMisdirects.
LEMMA OnlyAPointerHolds ==
  ASSUME ProperHosts, RoomForHosts, HostGiven, OnlyAPointerMisdirects, [LookupNext]_lookupVars
  PROVE  OnlyAPointerMisdirects'
<1> SUFFICES ASSUME phase' = "sent", Accepts(query'), ~Named(query', host')
             PROVE  Misdirected(query', host')
  BY DEF OnlyAPointerMisdirects, WellFormed, Understood, Accepts, Named, Misdirected
<1>1. host' = host /\ host \in Hosts
  BY HowSent DEF HostGiven
<1>2. CASE phase' = phase /\ query' = query
  <2>1. Accepts(query) /\ ~Named(query, host) => Misdirected(query, host)
    BY <1>2 DEF OnlyAPointerMisdirects, WellFormed, Understood, Accepts, Named, Misdirected
  <2> QED
    BY <1>1, <1>2, <2>1
<1>3. CASE Made(query', host)
  BY <1>1, <1>3, MadeUnderstood
<1> QED
  BY <1>2, <1>3, HowSent DEF Made

\* Every step keeps ZeroByteSuffices.
LEMMA ZeroByteSufficesHolds ==
  ASSUME ProperHosts, RoomForHosts, HostGiven, ZeroByteSuffices, [LookupNext]_lookupVars
  PROVE  ZeroByteSuffices'
<1> SUFFICES ASSUME phase' = "sent", query'[Len(host') + 2] = 0
             PROVE  Named(query', host')
  BY DEF ZeroByteSuffices, WellFormed, Understood, Accepts, Named, Zero
<1>1. host' = host /\ host \in Hosts
  BY HowSent DEF HostGiven
<1>2. CASE phase' = phase /\ query' = query
  BY <1>1, <1>2 DEF ZeroByteSuffices, WellFormed, Understood, Accepts, Named, Zero
<1>3. CASE Made(query', host)
  BY <1>1, <1>3, MadeUnderstood
<1> QED
  BY <1>2, <1>3, HowSent DEF Made

\* Every step keeps PrototypeNamesHost.
LEMMA PrototypeNamesHostHolds ==
  ASSUME ProperHosts, HostGiven, PrototypeNamesHost, [LookupNext]_lookupVars
  PROVE  PrototypeNamesHost'
<1> SUFFICES ASSUME Prototype', phase' \in {"sent", "unsent"}
             PROVE  Named(query', host')
  BY DEF PrototypeNamesHost, WellFormed, Understood, Accepts, Named
<1>1. host' = host /\ host \in Hosts
  BY HowSent DEF HostGiven
<1>2. CASE phase' = phase /\ query' = query /\ program' = program
  BY <1>1, <1>2 DEF PrototypeNamesHost, Prototype, WellFormed, Understood, Accepts, Named
<1>3. CASE query' = QueryOf(ChangetoDnsNameFormat(host))
  BY <1>1, <1>3, SendQueryUnderstood
<1>4. CASE ~Prototype /\ program' = program
  BY <1>4 DEF Prototype
<1> QED
  BY <1>2, <1>3, <1>4, HowSent

\* At the start nothing was sent.
LEMMA NothingSentAtStart ==
  LookupInit => /\ HostGiven /\ QueryFits /\ OnlyAPointerMisdirects /\ ZeroByteSuffices
                /\ PrototypeNamesHost
BY DEF LookupInit, Init, HostGiven, QueryFits, OnlyAPointerMisdirects, ZeroByteSuffices,
       PrototypeNamesHost

\* No step changes the host.
LEMMA HostStays == HostGiven /\ [LookupNext]_lookupVars => HostGiven'
BY HowSent DEF HostGiven

\* The query of a host whose name is at most Room - HeaderLen - 7 long fits in
\* an array of Room bytes, as send_req (asyncdns.cpp) has it. No assumption on
\* the hosts beyond that of the constants: labels may be empty or too long.
THEOREM QueriesFit == LookupSpec => []QueryFits
<1>1. LookupInit => HostGiven /\ QueryFits
  BY NothingSentAtStart
<1>2. HostGiven /\ QueryFits /\ [LookupNext]_lookupVars => HostGiven' /\ QueryFits'
  BY HostStays, QueryFitsHolds
<1> QED
  BY <1>1, <1>2, PTL DEF LookupSpec, lookupVars

\* A server that accepts a query of send_req reads in it the labels of the name
\* that was asked for, whatever change_to_dns_name_format found on the stack in
\* place of the byte it does not write, except where that byte is 192: it and the
\* terminator behind it are then a pointer, and the labels go on with what the
\* header is read as. For hosts that are names (no label is empty, as in a..b, or
\* longer than 63 characters; at most 253 characters in all) and fit into the
\* array, and for every process id.
THEOREM OnlyThePointer ==
  ASSUME ProperHosts, RoomForHosts
  PROVE  LookupSpec => []OnlyAPointerMisdirects
<1>1. LookupInit => HostGiven /\ OnlyAPointerMisdirects
  BY NothingSentAtStart
<1>2. HostGiven /\ OnlyAPointerMisdirects /\ [LookupNext]_lookupVars =>
        HostGiven' /\ OnlyAPointerMisdirects'
  BY HostStays, OnlyAPointerHolds
<1> QED
  BY <1>1, <1>2, PTL DEF LookupSpec, lookupVars

\* That one byte is all that a query of send_req can fail by: if it is zero the
\* server accepts the query and reads the name, for the same hosts.
THEOREM OnlyTheByte ==
  ASSUME ProperHosts, RoomForHosts
  PROVE  LookupSpec => []ZeroByteSuffices
<1>1. LookupInit => HostGiven /\ ZeroByteSuffices
  BY NothingSentAtStart
<1>2. HostGiven /\ ZeroByteSuffices /\ [LookupNext]_lookupVars => HostGiven' /\ ZeroByteSuffices'
  BY HostStays, ZeroByteSufficesHolds
<1> QED
  BY <1>1, <1>2, PTL DEF LookupSpec, lookupVars

\* Every query of dns.c is accepted and names the host: ChangetoDnsNameFormat
\* appends the dot that makes the last label like the others. For hosts that are
\* names, as above.
THEOREM PrototypeAsksForHost ==
  ASSUME ProperHosts
  PROVE  LookupSpec => []PrototypeNamesHost
<1>1. LookupInit => HostGiven /\ PrototypeNamesHost
  BY NothingSentAtStart
<1>2. HostGiven /\ PrototypeNamesHost /\ [LookupNext]_lookupVars => HostGiven' /\ PrototypeNamesHost'
  BY HostStays, PrototypeNamesHostHolds
<1> QED
  BY <1>1, <1>2, PTL DEF LookupSpec, lookupVars
=============================================================================
