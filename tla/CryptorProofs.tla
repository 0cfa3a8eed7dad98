---------------------------- MODULE CryptorProofs ----------------------------
(***************************************************************************)
(* A pair of Cryptors implements ByteStream, for every length of the       *)
(* vector, of the calls and of the text, if the first chunk an end reads   *)
(* holds the whole vector.                                                 *)
(***************************************************************************)
EXTENDS Cryptor, SequenceTheorems, TLAPS

\* The caller's obligation: the vector comes in one piece.
VectorUncut == FirstRead >= IvLen

\* The byte at place j of the stream in which p sends a text: the vector up to
\* 0, the text after it.
Byte(p, text, j) ==
  [iv |-> p, pos |-> j, plain |-> IF j > 0 THEN text[j] ELSE NULL]

\* A piece of that stream, behind place b.
Stretch(p, text, b, w) ==
  /\ w \in Seq(WireByte)
  /\ \A i \in 1 .. Len(w) : w[i] = Byte(p, text, b + i)

\* A piece of a text, behind place b.
Piece(text, b, s) ==
  /\ s \in Seq(Bytes)
  /\ b + Len(s) <= Len(text)
  /\ \A i \in 1 .. Len(s) : s[i] = text[b + i]

\* The place up to which the stream of p has been read.
Begin(p) == IF decipher[Other(p)] = NULL THEN -IvLen ELSE Len(got[Other(p)])

\* The sender's half: where its keystream stands.
Sender(p) ==
  /\ cipher[p] = [iv |-> p, pos |-> Len(given[p])]
  /\ cipher_iv[p] = p
  /\ ~iv_sent[p] => given[p] = <<>> /\ wire[p] = <<>>

\* The reader's half: its keystream is that of the sender, where it has read.
Reader(p) ==
  /\ decipher[Other(p)] = NULL => got[Other(p)] = <<>>
  /\ decipher[Other(p)] # NULL =>
       iv_sent[p] /\ decipher[Other(p)] = [iv |-> p, pos |-> Len(got[Other(p)])]
  /\ Piece(given[p], 0, got[Other(p)])

\* What is between them: the places that have been sent and not read.
Between(p) ==
  /\ iv_sent[p] => Len(wire[p]) = Len(given[p]) - Begin(p)
  /\ Stretch(p, given[p], Begin(p), wire[p])

IInv == TypeOK /\ \A p \in Peers : Sender(p) /\ Reader(p) /\ Between(p)

-----------------------------------------------------------------------------
(* The two ends, the cipher, the vector. *)

LEMMA OtherEnd ==
  ASSUME NEW p \in Peers
  PROVE  /\ Other(p) \in Peers
         /\ Other(p) # p
         /\ Other(Other(p)) = p
         /\ \A x \in Peers : x = p \/ x = Other(p)
<1>1. PICK a, b \in Peers : a # b /\ Peers = {a, b}
  BY CryptorAssumption
<1>2. \A x \in Peers : Other(x) \in Peers /\ Other(x) # x
  <2>. SUFFICES ASSUME NEW x \in Peers PROVE Other(x) \in Peers /\ Other(x) # x
    OBVIOUS
  <2>1. \E y \in Peers : y # x
    BY <1>1
  <2>. QED BY <2>1 DEF Other
<1>. QED BY <1>1, <1>2

LEMMA StretchJoin ==
  ASSUME NEW p, NEW text, NEW b \in Int, NEW v, NEW w,
         Stretch(p, text, b, v), Stretch(p, text, b + Len(v), w)
  PROVE  Stretch(p, text, b, v \o w) /\ Len(v \o w) = Len(v) + Len(w)
<1>1. v \in Seq(WireByte) /\ w \in Seq(WireByte) /\ Len(v) \in Nat /\ Len(w) \in Nat
  BY DEF Stretch
<1>2. /\ v \o w \in Seq(WireByte) /\ Len(v \o w) = Len(v) + Len(w)
      /\ \A i \in 1 .. Len(v) + Len(w) :
           (v \o w)[i] = IF i <= Len(v) THEN v[i] ELSE w[i - Len(v)]
  BY <1>1, ConcatProperties
<1>3. ASSUME NEW i \in 1 .. Len(v) + Len(w) PROVE (v \o w)[i] = Byte(p, text, b + i)
  <2>1. CASE i <= Len(v)
    <3>1. i \in 1 .. Len(v) /\ (v \o w)[i] = v[i]
      BY <1>1, <1>2, <2>1
    <3>. QED BY <3>1 DEF Stretch
  <2>2. CASE ~(i <= Len(v))
    <3>1. i - Len(v) \in 1 .. Len(w) /\ (b + Len(v)) + (i - Len(v)) = b + i
      BY <1>1, <2>2
    <3>2. (v \o w)[i] = w[i - Len(v)]
      BY <1>2, <2>2
    <3>3. w[i - Len(v)] = Byte(p, text, (b + Len(v)) + (i - Len(v)))
      BY <3>1 DEF Stretch
    <3>. QED BY <3>1, <3>2, <3>3
  <2>. QED BY <2>1, <2>2
<1>. QED BY <1>2, <1>3 DEF Stretch

LEMMA StretchCut ==
  ASSUME NEW p, NEW text, NEW b \in Int, NEW w, Stretch(p, text, b, w),
         NEW m \in Nat, NEW n \in Nat, m <= n, n <= Len(w)
  PROVE  /\ Stretch(p, text, b + m, SubSeq(w, m + 1, n))
         /\ Len(SubSeq(w, m + 1, n)) = n - m
<1>. DEFINE s == SubSeq(w, m + 1, n)
<1>1. w \in Seq(WireByte) /\ Len(w) \in Nat
  BY DEF Stretch
<1>2. \A i \in m + 1 .. n : i \in 1 .. Len(w) /\ w[i] \in WireByte
  BY <1>1, ElementOfSeq
<1>3. /\ s \in Seq(WireByte)
      /\ Len(s) = IF m + 1 <= n THEN n - (m + 1) + 1 ELSE 0
      /\ \A i \in 1 .. n - (m + 1) + 1 : s[i] = w[(m + 1) + i - 1]
  BY <1>2, SubSeqProperties
<1>4. Len(s) = n - m
  BY <1>3
<1>5. ASSUME NEW i \in 1 .. n - m PROVE s[i] = Byte(p, text, (b + m) + i)
  <2>1. /\ i \in 1 .. n - (m + 1) + 1 /\ (m + 1) + i - 1 = m + i
        /\ m + i \in 1 .. Len(w) /\ b + (m + i) = (b + m) + i
    BY <1>1
  <2>2. w[m + i] = Byte(p, text, b + (m + i))
    BY <2>1 DEF Stretch
  <2>. QED BY <1>3, <2>1, <2>2
<1>. QED BY <1>3, <1>4, <1>5 DEF Stretch

LEMMA StretchHead ==
  ASSUME NEW p, NEW text, NEW b \in Int, NEW w, Stretch(p, text, b, w),
         NEW n \in Nat, n <= Len(w)
  PROVE  Stretch(p, text, b, SubSeq(w, 1, n)) /\ Len(SubSeq(w, 1, n)) = n
<1>1. 0 \in Nat /\ 0 <= n /\ b + 0 = b /\ 0 + 1 = 1 /\ n - 0 = n
  OBVIOUS
<1>2. Stretch(p, text, b + 0, SubSeq(w, 0 + 1, n)) /\ Len(SubSeq(w, 0 + 1, n)) = n - 0
  BY <1>1, StretchCut
<1>. QED BY <1>1, <1>2

\* More text behind a stretch leaves it what it is.
LEMMA StretchKeeps ==
  ASSUME NEW p, NEW t \in Seq(Bytes), NEW buf \in Seq(Bytes), NEW b \in Int, NEW w,
         Stretch(p, t, b, w), b + Len(w) <= Len(t)
  PROVE  Stretch(p, t \o buf, b, w)
<1>1. Len(t) \in Nat /\ Len(buf) \in Nat /\ Len(w) \in Nat
  BY DEF Stretch
<1>2. ASSUME NEW i \in 1 .. Len(w) PROVE w[i] = Byte(p, t \o buf, b + i)
  <2>1. w[i] = Byte(p, t, b + i)
    BY DEF Stretch
  <2>2. CASE b + i > 0
    <3>1. b + i \in 1 .. Len(t) + Len(buf) /\ b + i <= Len(t)
      BY <1>1, <2>2
    <3>2. (t \o buf)[b + i] = t[b + i]
      BY <3>1, ConcatProperties
    <3>. QED BY <2>1, <3>2 DEF Byte
  <2>3. CASE ~(b + i > 0)
    BY <2>1, <2>3 DEF Byte
  <2>. QED BY <2>2, <2>3
<1>. QED BY <1>2 DEF Stretch

LEMMA PieceJoin ==
  ASSUME NEW text \in Seq(Bytes), NEW b \in Nat, NEW s, NEW u,
         Piece(text, b, s), Piece(text, b + Len(s), u)
  PROVE  Piece(text, b, s \o u) /\ Len(s \o u) = Len(s) + Len(u)
<1>1. /\ s \in Seq(Bytes) /\ u \in Seq(Bytes)
      /\ Len(s) \in Nat /\ Len(u) \in Nat /\ Len(text) \in Nat
  BY DEF Piece
<1>2. /\ s \o u \in Seq(Bytes) /\ Len(s \o u) = Len(s) + Len(u)
      /\ \A i \in 1 .. Len(s) + Len(u) :
           (s \o u)[i] = IF i <= Len(s) THEN s[i] ELSE u[i - Len(s)]
  BY <1>1, ConcatProperties
<1>3. ASSUME NEW i \in 1 .. Len(s) + Len(u) PROVE (s \o u)[i] = text[b + i]
  <2>1. CASE i <= Len(s)
    <3>1. i \in 1 .. Len(s) /\ (s \o u)[i] = s[i]
      BY <1>1, <1>2, <2>1
    <3>. QED BY <3>1 DEF Piece
  <2>2. CASE ~(i <= Len(s))
    <3>1. i - Len(s) \in 1 .. Len(u) /\ (b + Len(s)) + (i - Len(s)) = b + i
      BY <1>1, <2>2
    <3>2. (s \o u)[i] = u[i - Len(s)]
      BY <1>2, <2>2
    <3>3. u[i - Len(s)] = text[(b + Len(s)) + (i - Len(s))]
      BY <3>1 DEF Piece
    <3>. QED BY <3>1, <3>2, <3>3
  <2>. QED BY <2>1, <2>2
<1>4. b + (Len(s) + Len(u)) <= Len(text)
  BY <1>1 DEF Piece
<1>. QED BY <1>2, <1>3, <1>4 DEF Piece

LEMMA PieceKeeps ==
  ASSUME NEW t \in Seq(Bytes), NEW buf \in Seq(Bytes), NEW s, Piece(t, 0, s)
  PROVE  Piece(t \o buf, 0, s)
<1>1. Len(t) \in Nat /\ Len(buf) \in Nat /\ Len(s) \in Nat /\ Len(s) <= Len(t)
  BY DEF Piece
<1>2. /\ Len(t \o buf) = Len(t) + Len(buf)
      /\ \A i \in 1 .. Len(t) + Len(buf) :
           (t \o buf)[i] = IF i <= Len(t) THEN t[i] ELSE buf[i - Len(t)]
  BY ConcatProperties
<1>3. ASSUME NEW i \in 1 .. Len(s) PROVE s[i] = (t \o buf)[0 + i]
  <2>1. i \in 1 .. Len(t) + Len(buf) /\ i <= Len(t) /\ 0 + i = i
    BY <1>1
  <2>2. s[i] = t[0 + i]
    BY DEF Piece
  <2>. QED BY <1>2, <2>1, <2>2
<1>4. 0 + Len(s) <= Len(t \o buf)
  BY <1>1, <1>2
<1>. QED BY <1>3, <1>4 DEF Piece

\* The vector is the stretch in front of any text.
LEMMA VectorStretch ==
  ASSUME NEW p \in Peers, NEW text
  PROVE  Stretch(p, text, -IvLen, IvBytes(p)) /\ Len(IvBytes(p)) = IvLen
<1>1. \A k \in 1 .. IvLen : [iv |-> p, pos |-> k - IvLen, plain |-> NULL] \in WireByte
  BY CryptorAssumption DEF WireByte
<1>2. IvBytes(p) \in Seq(WireByte) /\ Len(IvBytes(p)) = IvLen
  BY <1>1, CryptorAssumption DEF IvBytes
<1>3. ASSUME NEW k \in 1 .. IvLen PROVE IvBytes(p)[k] = Byte(p, text, -IvLen + k)
  <2>1. IvLen \in Nat /\ -IvLen + k = k - IvLen /\ ~(k - IvLen > 0)
    BY CryptorAssumption
  <2>. QED BY <2>1 DEF IvBytes, Byte
<1>. QED BY <1>2, <1>3 DEF Stretch

\* A buffer that is encrypted where the keystream stands continues the stream.
LEMMA EncryptedStretch ==
  ASSUME NEW p \in Peers, NEW t \in Seq(Bytes), NEW buf \in Seq(Bytes)
  PROVE  LET e == Encrypted([iv |-> p, pos |-> Len(t)], buf)
         IN Stretch(p, t \o buf, Len(t), e) /\ Len(e) = Len(buf)
<1>. DEFINE e == Encrypted([iv |-> p, pos |-> Len(t)], buf)
<1>1. Len(t) \in Nat /\ Len(buf) \in Nat /\ DOMAIN buf = 1 .. Len(buf)
  OBVIOUS
<1>2. e = [i \in 1 .. Len(buf) |-> [iv |-> p, pos |-> Len(t) + i, plain |-> buf[i]]]
  BY <1>1 DEF Encrypted
<1>3. \A i \in 1 .. Len(buf) : [iv |-> p, pos |-> Len(t) + i, plain |-> buf[i]] \in WireByte
  BY <1>1, ElementOfSeq DEF WireByte
<1>4. e \in Seq(WireByte) /\ Len(e) = Len(buf)
  BY <1>1, <1>2, <1>3
<1>5. ASSUME NEW i \in 1 .. Len(buf) PROVE e[i] = Byte(p, t \o buf, Len(t) + i)
  <2>1. /\ Len(t) + i \in 1 .. Len(t) + Len(buf) /\ ~(Len(t) + i <= Len(t))
        /\ (Len(t) + i) - Len(t) = i /\ Len(t) + i > 0
    BY <1>1
  <2>2. (t \o buf)[Len(t) + i] = buf[i]
    BY <2>1, ConcatProperties
  <2>3. e[i] = [iv |-> p, pos |-> Len(t) + i, plain |-> buf[i]]
    BY <1>2
  <2>. QED BY <2>1, <2>2, <2>3 DEF Byte
<1>6. Stretch(p, t \o buf, Len(t), e)
  BY <1>1, <1>4, <1>5 DEF Stretch
<1>. QED BY <1>4, <1>6

\* A chunk is decrypted to its text by a context that stands in front of it.
LEMMA DecryptedPiece ==
  ASSUME NEW p \in Peers, NEW text \in Seq(Bytes), NEW n \in Nat, NEW chunk,
         Stretch(p, text, n, chunk), n + Len(chunk) <= Len(text)
  PROVE  LET d == Decrypted([iv |-> p, pos |-> n], chunk)
         IN Piece(text, n, d) /\ Len(d) = Len(chunk)
<1>. DEFINE d == Decrypted([iv |-> p, pos |-> n], chunk)
<1>1. /\ chunk \in Seq(WireByte) /\ DOMAIN chunk = 1 .. Len(chunk)
      /\ Len(chunk) \in Nat /\ Len(text) \in Nat
  BY DEF Stretch
<1>2. ASSUME NEW i \in 1 .. Len(chunk)
      PROVE  /\ chunk[i].iv = p /\ chunk[i].pos = n + i /\ chunk[i].pos > 0
             /\ chunk[i].plain = text[n + i]
             /\ text[n + i] \in Bytes
  <2>1. n + i \in 1 .. Len(text) /\ n + i > 0
    BY <1>1
  <2>2. chunk[i] = [iv |-> p, pos |-> n + i, plain |-> text[n + i]]
    BY <2>1 DEF Stretch, Byte
  <2>3. text[n + i] \in Bytes
    BY <2>1, ElementOfSeq
  <2>. QED BY <2>1, <2>2, <2>3
<1>3. d = [i \in 1 .. Len(chunk) |-> text[n + i]]
  BY <1>1, <1>2 DEF Decrypted
<1>4. d \in Seq(Bytes) /\ Len(d) = Len(chunk)
  BY <1>1, <1>2, <1>3
<1>. QED BY <1>3, <1>4 DEF Piece

LEMMA DecryptedFromStart ==
  ASSUME NEW p \in Peers, NEW text \in Seq(Bytes), NEW chunk,
         Stretch(p, text, 0, chunk), Len(chunk) <= Len(text)
  PROVE  LET d == Decrypted([iv |-> p, pos |-> 0], chunk)
         IN Piece(text, 0, d) /\ Len(d) = Len(chunk)
<1>1. PICK z \in Nat : z = 0
  OBVIOUS
<1>2. Len(chunk) \in Nat /\ Stretch(p, text, z, chunk) /\ z + Len(chunk) <= Len(text)
  BY <1>1 DEF Stretch
<1>. DEFINE e == Decrypted([iv |-> p, pos |-> z], chunk)
<1>3. Piece(text, z, e) /\ Len(e) = Len(chunk)
  BY <1>2, DecryptedPiece
<1>. QED BY <1>1, <1>3

LEMMA BufferSeq ==
  ASSUME NEW buf \in Buffers
  PROVE  buf \in Seq(Bytes)
BY CryptorAssumption DEF Buffers

-----------------------------------------------------------------------------
(* The invariant. *)

\* A direction nobody touches keeps its halves.
LEMMA Untouched ==
  ASSUME NEW p \in Peers, Sender(p), Reader(p), Between(p),
         cipher'[p] = cipher[p], cipher_iv'[p] = cipher_iv[p], iv_sent'[p] = iv_sent[p],
         wire'[p] = wire[p], given'[p] = given[p],
         decipher'[Other(p)] = decipher[Other(p)], got'[Other(p)] = got[Other(p)]
  PROVE  Sender(p)' /\ Reader(p)' /\ Between(p)'
BY DEF Sender, Reader, Between, Begin

LEMMA InitIInv == Init => IInv
<1>. SUFFICES ASSUME Init PROVE IInv
  OBVIOUS
<1>1. TypeOK
  BY CryptorAssumption DEF Init, TypeOK, Context
<1>2. ASSUME NEW p \in Peers PROVE Sender(p) /\ Reader(p) /\ Between(p)
  BY OtherEnd DEF Init, Sender, Reader, Between, Piece, Stretch
<1>. QED BY <1>1, <1>2 DEF IInv

\* encrypt: what goes on the wire continues the stream.
LEMMA EncryptKeeps ==
  ASSUME IInv, NEW p \in Peers, NEW buf \in Seq(Bytes), Encrypt(p, buf)
  PROVE  IInv'
<1>. DEFINE q == Other(p)
            front == IF iv_sent[p] THEN <<>> ELSE IvBytes(p)
            e == Encrypted([iv |-> p, pos |-> Len(given[p])], buf)
            stream == (wire[p] \o front) \o e
            text == given[p] \o buf
<1>0. /\ TypeOK /\ Sender(p) /\ Reader(p) /\ Between(p)
      /\ cipher[p] = [iv |-> p, pos |-> Len(given[p])] /\ cipher_iv[p] = p
      /\ q \in Peers /\ q # p
  BY OtherEnd DEF IInv, Sender
<1>1. /\ given[p] \in Seq(Bytes) /\ wire[p] \in Seq(WireByte) /\ got[q] \in Seq(Bytes)
      /\ Len(given[p]) \in Nat /\ Len(wire[p]) \in Nat /\ Len(got[q]) \in Nat
      /\ IvLen \in Nat /\ Begin(p) \in Int
  BY <1>0, CryptorAssumption DEF TypeOK, Begin
<1>2. Stretch(p, text, Len(given[p]), e) /\ Len(e) = Len(buf) /\ Len(buf) \in Nat
  BY <1>1, EncryptedStretch
<1>3. /\ Stretch(p, text, Begin(p), wire[p] \o front)
      /\ Len(wire[p] \o front) = Len(given[p]) - Begin(p)
  <2>1. CASE iv_sent[p]
    <3>1. /\ wire[p] \o front = wire[p]
          /\ Len(wire[p]) = Len(given[p]) - Begin(p)
          /\ Stretch(p, given[p], Begin(p), wire[p])
      BY <1>0, <1>1, <2>1, ConcatEmptySeq DEF Between
    <3>2. Begin(p) + Len(wire[p]) <= Len(given[p])
      BY <1>1, <3>1
    <3>. QED BY <1>1, <3>1, <3>2, StretchKeeps
  <2>2. CASE ~iv_sent[p]
    <3>1. /\ Begin(p) = -IvLen /\ Len(given[p]) = 0
          /\ wire[p] \o front = IvBytes(p)
      <4>1. /\ wire[p] = <<>> /\ given[p] = <<>> /\ decipher[q] = NULL
            /\ front = IvBytes(p)
        BY <1>0, <2>2 DEF Sender, Reader
      <4>2. <<>> \o IvBytes(p) = IvBytes(p)
        BY VectorStretch, ConcatEmptySeq DEF Stretch
      <4>. HIDE DEF front
      <4>. QED BY <4>1, <4>2 DEF Begin
    <3>2. IvLen \in Nat /\ Len(given[p]) - Begin(p) = IvLen
      BY <1>1, <3>1
    <3>. QED BY <3>1, <3>2, VectorStretch
  <2>. QED BY <2>1, <2>2
<1>4. /\ text \in Seq(Bytes) /\ Len(text) = Len(given[p]) + Len(buf)
  BY <1>1, ConcatProperties
<1>5. /\ Stretch(p, text, Begin(p), stream)
      /\ Len(stream) = Len(text) - Begin(p)
  <2>. HIDE DEF front, e, text
  <2>1. Begin(p) + Len(wire[p] \o front) = Len(given[p])
    BY <1>1, <1>3
  <2>. DEFINE v == wire[p] \o front
  <2>3. Stretch(p, text, Begin(p), v) /\ Stretch(p, text, Begin(p) + Len(v), e)
    BY <1>2, <1>3, <2>1
  <2>. HIDE DEF v
  <2>4. Stretch(p, text, Begin(p), v \o e) /\ Len(v \o e) = Len(v) + Len(e)
    BY <1>1, <2>3, StretchJoin
  <2>2. /\ Stretch(p, text, Begin(p), stream)
        /\ Len(stream) = Len(wire[p] \o front) + Len(e)
    BY <2>4 DEF v
  <2>. HIDE DEF stream
  <2>. QED BY <1>1, <1>2, <1>3, <1>4, <2>2
<1>. HIDE DEF front, e
<1>6. /\ wire' = [wire EXCEPT ![p] = stream]
      /\ iv_sent' = [iv_sent EXCEPT ![p] = TRUE]
      /\ cipher' = [cipher EXCEPT ![p] = [iv |-> p, pos |-> Len(given[p]) + Len(buf)]]
      /\ given' = [given EXCEPT ![p] = text]
      /\ UNCHANGED <<state, cipher_iv, decipher, got>>
  <2>1. /\ wire' = [wire EXCEPT ![p] = wire[p] \o front \o e]
        /\ UNCHANGED <<state, cipher_iv, decipher, got>>
        /\ iv_sent' = [iv_sent EXCEPT ![p] = TRUE]
        /\ given' = [given EXCEPT ![p] = text]
        /\ cipher' = [cipher EXCEPT ![p] = Advance(cipher[p], Len(buf))]
    BY <1>0 DEF Encrypt, front, e
  <2>2. Advance(cipher[p], Len(buf)) = [iv |-> p, pos |-> Len(given[p]) + Len(buf)]
    BY <1>0 DEF Advance
  <2>. QED BY <2>1, <2>2
<1>. HIDE DEF stream
<1>10. Piece(text, 0, got[q])
  BY <1>0, <1>1, PieceKeeps DEF Reader
<1>. HIDE DEF text
<1>7. TypeOK'
  <2>1. stream \in Seq(WireByte)
    BY <1>5 DEF Stretch
  <2>2. [iv |-> p, pos |-> Len(given[p]) + Len(buf)] \in Context
    BY <1>1, <1>2 DEF Context
  <2>. QED BY <1>0, <1>4, <1>6, <2>1, <2>2 DEF TypeOK
<1>8. /\ given'[p] = text /\ wire'[p] = stream /\ iv_sent'[p] = TRUE
      /\ cipher'[p] = [iv |-> p, pos |-> Len(text)] /\ cipher_iv'[p] = p
      /\ Begin(p)' = Begin(p)
  BY <1>0, <1>4, <1>6 DEF TypeOK, Begin
<1>9. Sender(p)'
  BY <1>8 DEF Sender
<1>11. Reader(p)'
  BY <1>0, <1>6, <1>8, <1>10 DEF Reader
<1>12. Between(p)'
  BY <1>5, <1>8 DEF Between
<1>13. Sender(q)' /\ Reader(q)' /\ Between(q)'
  <2>1. Sender(q) /\ Reader(q) /\ Between(q) /\ Other(q) = p
    BY <1>0, OtherEnd DEF IInv
  <2>. QED BY <1>0, <1>6, <2>1, Untouched DEF TypeOK
<1>. QED BY <1>7, <1>9, <1>11, <1>12, <1>13, OtherEnd DEF IInv

\* decrypt: what is read off the wire continues what has been handed out.
LEMMA DecryptKeeps ==
  ASSUME VectorUncut, IInv, NEW q \in Peers, NEW n \in Nat, Decrypt(q, n)
  PROVE  /\ IInv'
         /\ given' = given
         /\ \E d : /\ got' = [got EXCEPT ![q] = d]
                 /\ Len(got[q]) <= Len(d)
                 /\ Piece(given[Other(q)], 0, d)
<1>. DEFINE p == Other(q)
            w == wire[p]
            chunk == SubSeq(w, 1, n)
            rest == SubSeq(w, n + 1, Len(w))
            text == given[p]
<1>0. /\ TypeOK /\ Sender(p) /\ Reader(p) /\ Between(p)
      /\ p \in Peers /\ q # p /\ Other(p) = q
  BY OtherEnd DEF IInv
<1>1. /\ text \in Seq(Bytes) /\ Len(text) \in Nat /\ Len(got[q]) \in Nat
      /\ IvLen \in Nat /\ FirstRead \in Nat /\ Begin(p) \in Int
      /\ Stretch(p, text, Begin(p), w) /\ w \in Seq(WireByte) /\ Len(w) \in Nat
  BY <1>0, CryptorAssumption DEF TypeOK, Begin, Between
<1>2. n \in 1 .. Len(w)
  BY DEF Decrypt
<1>3. iv_sent[p] /\ Len(w) = Len(text) - Begin(p)
  <2>1. w # <<>>
    BY <1>2
  <2>. QED BY <1>0, <2>1 DEF Sender, Between
<1>a. n \in Nat /\ n <= Len(w) /\ Begin(p) + n <= Len(text)
  BY <1>1, <1>2, <1>3
<1>b. Stretch(p, text, Begin(p), chunk) /\ Len(chunk) = n
  BY <1>1, <1>a, StretchHead
<1>4. /\ Stretch(p, text, Begin(p) + n, rest)
      /\ Len(rest) = Len(text) - (Begin(p) + n)
  <2>1. n <= Len(w) /\ Len(w) <= Len(w)
    BY <1>1, <1>2
  <2>2. Stretch(p, text, Begin(p) + n, rest) /\ Len(rest) = Len(w) - n
    BY <1>1, <2>1, StretchCut
  <2>. HIDE DEF rest
  <2>. QED BY <1>1, <1>3, <2>2
<1>5. /\ wire' = [wire EXCEPT ![p] = rest]
      /\ UNCHANGED <<state, cipher, iv_sent, given>>
  BY DEF Decrypt
<1>6. UNCHANGED cipher_iv /\ \E d, j :
         /\ got' = [got EXCEPT ![q] = d]
         /\ decipher' = [decipher EXCEPT ![q] = [iv |-> p, pos |-> j]]
         /\ j = Begin(p) + n /\ j = Len(d) /\ Len(got[q]) <= Len(d)
         /\ Piece(text, 0, d)
  <2>1. CASE decipher[q] = NULL
    <3>. DEFINE after == AfterIv(chunk)
                d == FirstText(chunk)
    <3>1. /\ Begin(p) = -IvLen /\ got[q] = <<>> /\ IvLen <= n
      BY <1>0, <1>1, <2>1 DEF Begin, Reader, Decrypt, VectorUncut
    <3>2. Stretch(p, text, -IvLen, chunk) /\ Len(chunk) = n /\ -IvLen \in Int
      BY <1>1, <1>b, <3>1
    <3>3. KeyStream(chunk) = p
      <4>. HIDE DEF chunk
      <4>1. chunk \in Seq(WireByte) /\ chunk[1].iv = p /\ Head(chunk) = chunk[1]
        BY <1>1, <1>2, <3>2 DEF Stretch, Byte
      <4>2. SubSeq(chunk, 1, Len(IvBytes(p))) = SubSeq(IvBytes(p), 1, Len(IvBytes(p)))
        <5>2. /\ Stretch(p, text, -IvLen, SubSeq(chunk, 1, IvLen))
              /\ Len(SubSeq(chunk, 1, IvLen)) = IvLen
          BY <1>1, <3>1, <3>2, StretchHead
        <5>3. Stretch(p, text, -IvLen, IvBytes(p)) /\ Len(IvBytes(p)) = IvLen
          BY <1>0, VectorStretch
        <5>4. SubSeq(chunk, 1, IvLen) = IvBytes(p)
          <6>. DEFINE c == SubSeq(chunk, 1, IvLen)
          <6>. HIDE DEF c
          <6>1. Stretch(p, text, -IvLen, c) /\ Len(c) = IvLen
            BY <5>2 DEF c
          <6>2. c = IvBytes(p)
            BY <5>3, <6>1, SeqEqual DEF Stretch
          <6>. QED BY <6>2 DEF c
        <5>5. SubSeq(IvBytes(p), 1, Len(IvBytes(p))) = IvBytes(p)
          BY <5>3, SubSeqFull DEF Stretch
        <5>. QED BY <5>3, <5>4, <5>5
      <4>3. IsPrefix(IvBytes(p), chunk)
        BY <1>0, <3>1, <3>2, <4>2, VectorStretch DEF IsPrefix
      <4>. QED BY <1>0, <4>1, <4>3 DEF KeyStream
    <3>4. Stretch(p, text, 0, after) /\ Len(after) = n - IvLen
      <4>. HIDE DEF chunk
      <4>1. /\ Stretch(p, text, -IvLen + IvLen, SubSeq(chunk, IvLen + 1, Len(chunk)))
            /\ Len(SubSeq(chunk, IvLen + 1, Len(chunk))) = Len(chunk) - IvLen
        BY <1>1, <1>2, <3>1, <3>2, StretchCut
      <4>2. -IvLen + IvLen = 0
        BY <1>1
      <4>. QED BY <3>2, <4>1, <4>2 DEF AfterIv
    <3>. HIDE DEF chunk, after
    <3>5. d = Decrypted([iv |-> p, pos |-> 0], after)
      BY <3>3 DEF FirstText, after
    <3>6. Len(after) <= Len(text)
      BY <1>1, <1>2, <1>3, <3>1, <3>4
    <3>7. Piece(text, 0, d) /\ Len(d) = Len(after)
      <4>. DEFINE e == Decrypted([iv |-> p, pos |-> 0], after)
      <4>2. Piece(text, 0, e) /\ Len(e) = Len(after)
        BY <1>0, <1>1, <3>4, <3>6, DecryptedFromStart
      <4>. HIDE DEF d, e
      <4>3. d = e
        BY <3>5 DEF e
      <4>. QED BY <4>2, <4>3
    <3>8. /\ UNCHANGED cipher_iv
          /\ decipher' = [decipher EXCEPT ![q] = [iv |-> p, pos |-> n - IvLen]]
          /\ got' = [got EXCEPT ![q] = got[q] \o d]
      BY <2>1, <3>3, <3>4 DEF Decrypt, GetDecipher, chunk, after
    <3>9. got[q] \o d = d
      BY <3>1, <3>7, ConcatEmptySeq DEF Piece
    <3>. HIDE DEF d
    <3>10. n - IvLen = Begin(p) + n /\ n - IvLen = Len(d) /\ Len(got[q]) <= Len(d)
      BY <1>1, <1>2, <3>1, <3>4, <3>7
    <3>. QED BY <3>7, <3>8, <3>9, <3>10
  <2>2. CASE decipher[q] # NULL
    <3>. DEFINE k == Len(got[q])
                d == Decrypted(decipher[q], chunk)
    <3>1. /\ decipher[q] = [iv |-> p, pos |-> k] /\ Begin(p) = k
          /\ Piece(text, 0, got[q])
      BY <1>0, <2>2 DEF Begin, Reader
    <3>2. Stretch(p, text, k, chunk) /\ Len(chunk) = n
      BY <1>b, <3>1
    <3>3. k + n <= Len(text)
      BY <1>a, <3>1
    <3>. HIDE DEF chunk
    <3>4. Piece(text, k, d) /\ Len(d) = n
      BY <1>0, <1>1, <3>1, <3>2, <3>3, DecryptedPiece
    <3>. HIDE DEF d
    <3>5. Piece(text, 0, got[q] \o d) /\ Len(got[q] \o d) = k + n
      <4>1. Piece(text, 0 + Len(got[q]), d) /\ 0 \in Nat
        BY <1>1, <3>4
      <4>2. Piece(text, 0, got[q] \o d) /\ Len(got[q] \o d) = Len(got[q]) + Len(d)
        BY <1>1, <3>1, <4>1, PieceJoin
      <4>. QED BY <3>4, <4>2
    <3>6. /\ UNCHANGED cipher_iv
          /\ decipher' = [decipher EXCEPT ![q] = [iv |-> p, pos |-> k + n]]
          /\ got' = [got EXCEPT ![q] = got[q] \o d]
      <4>1. Advance(decipher[q], n) = [iv |-> p, pos |-> k + n]
        BY <3>1 DEF Advance
      <4>2. /\ UNCHANGED cipher_iv
            /\ decipher' = [decipher EXCEPT ![q] = Advance(decipher[q], n)]
            /\ got' = [got EXCEPT ![q] = got[q] \o d]
        BY <2>2 DEF Decrypt, chunk, d
      <4>. QED BY <4>1, <4>2
    <3>7. k <= k + n
      BY <1>1
    <3>. QED BY <3>1, <3>5, <3>6, <3>7
  <2>. QED BY <2>1, <2>2
<1>7. PICK d, j :
         /\ got' = [got EXCEPT ![q] = d]
         /\ decipher' = [decipher EXCEPT ![q] = [iv |-> p, pos |-> j]]
         /\ j = Begin(p) + n /\ j = Len(d) /\ Len(got[q]) <= Len(d)
         /\ Piece(text, 0, d)
  BY <1>6
<1>8. d \in Seq(Bytes) /\ j \in Nat /\ [iv |-> p, pos |-> j] \in Context
  <2>1. d \in Seq(Bytes) /\ Len(d) \in Nat
    BY <1>7 DEF Piece
  <2>. QED BY <1>0, <1>7, <2>1 DEF Context
<1>. HIDE DEF rest
<1>9. TypeOK'
  <2>1. rest \in Seq(WireByte)
    BY <1>4 DEF Stretch
  <2>. QED BY <1>0, <1>5, <1>6, <1>7, <1>8, <2>1 DEF TypeOK
<1>10. /\ got'[q] = d /\ decipher'[q] = [iv |-> p, pos |-> j] /\ decipher'[q] # NULL
       /\ wire'[p] = rest /\ Begin(p)' = j
  BY <1>0, <1>5, <1>7, <1>8, CryptorAssumption DEF TypeOK, Begin
<1>11. Sender(p)'
  BY <1>0, <1>3, <1>5, <1>6 DEF Sender
<1>12. Reader(p)'
  BY <1>0, <1>3, <1>5, <1>7, <1>10 DEF Reader
<1>13. Between(p)'
  BY <1>4, <1>5, <1>7, <1>10 DEF Between
<1>14. Sender(q)' /\ Reader(q)' /\ Between(q)'
  <2>1. Sender(q) /\ Reader(q) /\ Between(q) /\ q \in Peers
    BY DEF IInv
  <2>. QED BY <1>0, <1>5, <1>6, <1>7, <2>1, Untouched DEF TypeOK
<1>. QED BY <1>0, <1>5, <1>7, <1>9, <1>11, <1>12, <1>13, <1>14, OtherEnd DEF IInv

LEMMA NextIInv == VectorUncut /\ IInv /\ [Next]_vars => IInv'
<1>. SUFFICES ASSUME VectorUncut, IInv, [Next]_vars PROVE IInv'
  OBVIOUS
<1>1. ASSUME NEW p \in Peers, Construct(p) \/ Destroy(p) PROVE IInv'
  <2>1. UNCHANGED contents
    BY <1>1 DEF Construct, Destroy
  <2>2. TypeOK'
    <3>1. TypeOK /\ state \in [Peers -> {"raw", "ready", "deleted", "undefined"}]
      BY DEF IInv, TypeOK
    <3>2. \E o \in {"ready", "deleted", "undefined"} : state' = [state EXCEPT ![p] = o]
      BY <1>1 DEF Construct, Destroy
    <3>3. state' \in [Peers -> {"raw", "ready", "deleted", "undefined"}]
      BY <3>1, <3>2
    <3>. QED BY <2>1, <3>1, <3>3 DEF TypeOK, contents
  <2>3. ASSUME NEW x \in Peers PROVE Sender(x)' /\ Reader(x)' /\ Between(x)'
    BY <2>1, Untouched DEF IInv, contents
  <2>. QED BY <2>2, <2>3 DEF IInv
<1>2. ASSUME NEW p \in Peers, NEW buf \in Buffers, Encrypt(p, buf) PROVE IInv'
  BY <1>2, BufferSeq, EncryptKeeps
<1>3. ASSUME NEW p \in Peers, NEW n \in 1 .. Len(wire[Other(p)]), Decrypt(p, n) PROVE IInv'
  <2>1. wire[Other(p)] \in Seq(WireByte)
    BY OtherEnd DEF IInv, TypeOK
  <2>2. n \in Nat
    BY <2>1
  <2>. QED BY <1>3, <2>2, DecryptKeeps
<1>4. CASE UNCHANGED vars
  <2>1. TypeOK'
    BY <1>4 DEF IInv, TypeOK, vars
  <2>2. ASSUME NEW x \in Peers PROVE Sender(x)' /\ Reader(x)' /\ Between(x)'
    BY <1>4, Untouched DEF IInv, vars
  <2>. QED BY <2>1, <2>2 DEF IInv
<1>. QED BY <1>1, <1>2, <1>3, <1>4 DEF Next

\* The variables of Cryptor keep their types; in particular nothing that
\* decrypt hands out is Garbage.
THEOREM TypeCorrect == ASSUME VectorUncut PROVE Spec => []TypeOK
<1>1. IInv => TypeOK
  BY DEF IInv
<1>. QED BY <1>1, InitIInv, NextIInv, PTL DEF Spec

LEMMA PieceIsSubSeq ==
  ASSUME NEW text \in Seq(Bytes), NEW s, Piece(text, 0, s)
  PROVE  s = SubSeq(text, 1, Len(s))
<1>1. s \in Seq(Bytes) /\ Len(s) \in Nat /\ Len(s) <= Len(text) /\ Len(text) \in Nat
  BY DEF Piece
<1>2. \A i \in 1 .. Len(s) : text[i] \in Bytes /\ s[i] = text[i]
  <2>1. ASSUME NEW i \in 1 .. Len(s) PROVE i \in 1 .. Len(text) /\ 0 + i = i /\ s[i] = text[0 + i]
    BY <1>1 DEF Piece
  <2>. QED BY <2>1, ElementOfSeq
<1>. DEFINE t == SubSeq(text, 1, Len(s))
<1>3. /\ t \in Seq(Bytes) /\ Len(t) = (IF 1 <= Len(s) THEN Len(s) - 1 + 1 ELSE 0)
      /\ \A i \in 1 .. Len(s) - 1 + 1 : t[i] = text[1 + i - 1]
  BY <1>1, <1>2, SubSeqProperties
<1>. HIDE DEF t
<1>4. Len(t) = Len(s) /\ \A i \in 1 .. Len(s) : s[i] = t[i]
  BY <1>1, <1>2, <1>3
<1>5. s = t
  BY <1>1, <1>3, <1>4, SeqEqual
<1>. QED BY <1>5 DEF t

LEMMA StreamStep == VectorUncut /\ IInv /\ [Next]_vars => [Stream!Next]_<<given, got>>
<1>. SUFFICES ASSUME VectorUncut, IInv, [Next]_vars PROVE [Stream!Next]_<<given, got>>
  OBVIOUS
<1>1. ASSUME NEW p \in Peers, NEW buf \in Buffers, Encrypt(p, buf) PROVE Stream!Give(p)
  <2>1. /\ given' = [given EXCEPT ![p] = given[p] \o buf] /\ UNCHANGED got
        /\ given[p] \in Seq(Bytes) /\ buf \in Seq(Bytes) /\ given \in [Peers -> Seq(Bytes)]
    BY <1>1, BufferSeq DEF Encrypt, IInv, TypeOK
  <2>2. given'[p] = given[p] \o buf
    BY <2>1
  <2>3. /\ given[p] \o buf \in Seq(Bytes)
        /\ Len(given[p]) <= Len(given[p] \o buf)
    BY <2>1
  <2>4. SubSeq(given[p], 1, Len(given[p])) = SubSeq(given[p] \o buf, 1, Len(given[p]))
    <3>1. CASE Len(given[p]) = 0
      BY <2>1, <2>3, <3>1, SubSeqEmpty
    <3>2. CASE Len(given[p]) # 0
      <4>1. 1 \in 1 .. Len(given[p]) /\ Len(given[p]) \in 1 .. Len(given[p])
        BY <2>1, <3>2
      <4>. QED BY <2>1, <4>1, SubSeqOfConcat1
    <3>. QED BY <3>1, <3>2
  <2>5. given'[p] \in Seq(Bytes) /\ IsPrefix(given[p], given'[p])
    BY <2>2, <2>3, <2>4 DEF IsPrefix
  <2>6. given' = [given EXCEPT ![p] = given'[p]]
    BY <2>1, <2>2
  <2>. QED BY <2>1, <2>5, <2>6 DEF Stream!Give, Stream!IsPrefix, IsPrefix
<1>2. ASSUME NEW p \in Peers, NEW n \in 1 .. Len(wire[Other(p)]), Decrypt(p, n)
      PROVE  Stream!Get(p)
  <2>1. wire[Other(p)] \in Seq(WireByte) /\ given[Other(p)] \in Seq(Bytes) /\ got[p] \in Seq(Bytes)
    BY OtherEnd DEF IInv, TypeOK
  <2>2. n \in Nat
    BY <2>1
  <2>3. PICK d : /\ given' = given
                 /\ got' = [got EXCEPT ![p] = d]
                 /\ Len(got[p]) <= Len(d)
                 /\ Piece(given[Other(p)], 0, d)
    BY <1>2, <2>2, DecryptKeeps
  <2>4. d = SubSeq(given[Other(p)], 1, Len(d))
    BY <2>1, <2>3, PieceIsSubSeq
  <2>5. Len(d) \in Len(got[p]) .. Len(given[Other(p)])
    <3>1. Len(d) \in Nat /\ 0 + Len(d) <= Len(given[Other(p)])
      BY <2>3 DEF Piece
    <3>. QED BY <2>1, <2>3, <3>1
  <2>. QED BY <2>3, <2>4, <2>5 DEF Stream!Get, Stream!Other, Other
<1>3. ASSUME NEW p \in Peers, Construct(p) \/ Destroy(p) PROVE UNCHANGED <<given, got>>
  BY <1>3 DEF Construct, Destroy, contents
<1>4. CASE UNCHANGED vars
  BY <1>4 DEF vars
<1>. QED BY <1>1, <1>2, <1>3, <1>4 DEF Next, Stream!Next

\* A pair of Cryptors implements ByteStream: what decrypt hands out is always a
\* prefix of what the other end's encrypt was given, however the stream is cut
\* and whichever end speaks first.
THEOREM CryptorsStream == ASSUME VectorUncut PROVE Spec => StreamSpec
<1>1. Init => Stream!Init
  BY DEF Init, Stream!Init
<1>. QED BY <1>1, InitIInv, NextIInv, StreamStep, PTL DEF Spec, StreamSpec, Stream!Spec
=============================================================================
