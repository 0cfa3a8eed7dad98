------------------------------- MODULE Cryptor -------------------------------
(***************************************************************************)
(* Two ends of a connection, each with a Cryptor of lib/cryptor.cpp for    *)
(* the same password and method.  What one encrypts the other decrypts;    *)
(* the connection keeps the bytes in order but cuts the stream anywhere.   *)
(*                                                                         *)
(* The cipher is a keystream, known by its initialisation vector: a byte   *)
(* encrypted at one place of a keystream is decrypted at that place of     *)
(* that keystream and nowhere else.  Random vectors do not collide, so the *)
(* one a peer drew is named by the peer.  That CFB finds its way again     *)
(* some bytes after a gap is left out: here no byte is out of place.       *)
(***************************************************************************)
EXTENDS Integers, SequencesExt

CONSTANTS
  Peers,      \* the two ends
  Bytes,      \* bytes of plain text
  Garbage,    \* what comes out when keystreams do not match
  NULL,
  IvLen,      \* cipher_iv_len, 16 for aes-256-cfb
  FirstRead,  \* the first chunk an end reads has at least so many bytes
  MaxBuf,     \* bound: bytes in one call of encrypt
  MaxGiven    \* bound: bytes an end encrypts altogether

\* A cipher context: a keystream and the place in it; NULL is the keystream of
\* a vector that nobody drew.
Context == [iv : Peers \cup {NULL}, pos : Nat]

ASSUME CryptorAssumption ==
  /\ \E p, q \in Peers : p # q /\ Peers = {p, q}
  /\ Garbage \notin Bytes
  /\ NULL \notin Peers /\ NULL \notin Context
  /\ IvLen \in Nat \ {0} /\ FirstRead \in Nat \ {0}
  /\ MaxBuf \in Nat /\ MaxGiven \in Nat

VARIABLES
  state,      \* [Peers -> what the constructor and destructor did]
  cipher,     \* [Peers -> the encrypting context]
  cipher_iv,  \* [Peers -> the vector to send]
  iv_sent,
  decipher,   \* [Peers -> the decrypting context, NULL before the first chunk]
  wire,       \* [Peers -> what an end has sent and the other has not read]
  given, got  \* history: plain text passed to encrypt, handed out by decrypt

vars == <<state, cipher, cipher_iv, iv_sent, decipher, wire, given, got>>

Other(p) == CHOOSE q \in Peers : q # p

\* A byte on the wire: the vector has the places up to 0, text those after it.
WireByte == [iv : Peers, pos : Int, plain : Bytes \cup {NULL}]

TypeOK ==
  /\ state \in [Peers -> {"raw", "ready", "deleted", "undefined"}]
  /\ cipher \in [Peers -> Context]
  /\ cipher_iv \in [Peers -> Peers]
  /\ iv_sent \in [Peers -> BOOLEAN]
  /\ decipher \in [Peers -> Context \cup {NULL}]
  /\ wire \in [Peers -> Seq(WireByte)]
  /\ given \in [Peers -> Seq(Bytes)]
  /\ got \in [Peers -> Seq(Bytes)]

Init ==
  /\ state = [p \in Peers |-> "raw"]
  /\ cipher = [p \in Peers |-> [iv |-> p, pos |-> 0]]
  /\ cipher_iv = [p \in Peers |-> p]
  /\ iv_sent = [p \in Peers |-> FALSE]
  /\ decipher = [p \in Peers |-> NULL]
  /\ wire = [p \in Peers |-> <<>>]
  /\ given = [p \in Peers |-> <<>>]
  /\ got = [p \in Peers |-> <<>>]

contents == <<cipher, cipher_iv, iv_sent, decipher, wire, given, got>>

\* The constructor draws a vector; set_cipher_iv first deletes what cipher_iv
\* points to, which nobody has initialised, and an unknown method is a null
\* pointer that is followed.
Construct(p) ==
  /\ state[p] = "raw"
  /\ \E outcome \in {"ready", "undefined"} : state' = [state EXCEPT ![p] = outcome]
  /\ UNCHANGED contents

\* The destructor; decipher_iv is an array and is not deleted as one.
Destroy(p) ==
  /\ state[p] = "ready"
  /\ \E outcome \in IF decipher[p] = NULL THEN {"deleted"} ELSE {"deleted", "undefined"} :
       state' = [state EXCEPT ![p] = outcome]
  /\ UNCHANGED contents

-----------------------------------------------------------------------------
(* OpenSSLCrypto::update, in the direction of the context. *)

Advance(ctx, n) == [ctx EXCEPT !.pos = @ + n]

Encrypted(ctx, buf) ==
  [i \in DOMAIN buf |-> [iv |-> ctx.iv, pos |-> ctx.pos + i, plain |-> buf[i]]]

Decrypted(ctx, buf) ==
  [i \in DOMAIN buf |->
     IF buf[i].iv = ctx.iv /\ buf[i].pos = ctx.pos + i /\ buf[i].pos > 0
     THEN buf[i].plain ELSE Garbage]

IvBytes(p) == [k \in 1 .. IvLen |-> [iv |-> p, pos |-> k - IvLen, plain |-> NULL]]

\* The keystream that iv_len bytes at the front of a chunk start; where the
\* chunk is shorter, memcpy takes what lies behind it in memory.
KeyStream(chunk) ==
  IF \E p \in Peers : IsPrefix(IvBytes(p), chunk) THEN Head(chunk).iv ELSE NULL

\* What is left when buf has been moved on; update() does nothing with a
\* length that is not positive.
AfterIv(chunk) == SubSeq(chunk, IvLen + 1, Len(chunk))

\* The first call sends the vector in front.  A call without bytes does nothing.
Encrypt(p, buf) ==
  /\ state[p] = "ready"
  /\ buf # <<>>
  /\ Len(given[p]) + Len(buf) <= MaxGiven
  /\ wire' = [wire EXCEPT ![p] =
       @ \o (IF iv_sent[p] THEN <<>> ELSE IvBytes(cipher_iv[p])) \o Encrypted(cipher[p], buf)]
  /\ iv_sent' = [iv_sent EXCEPT ![p] = TRUE]
  /\ cipher' = [cipher EXCEPT ![p] = Advance(@, Len(buf))]
  /\ given' = [given EXCEPT ![p] = @ \o buf]
  /\ UNCHANGED <<state, cipher_iv, decipher, got>>

\* Mutant of GetDecipher: the vector is kept for sending whatever op is.
GetDecipherKeeps(p, chunk) ==
  /\ decipher' = [decipher EXCEPT
       ![p] = [iv |-> KeyStream(chunk), pos |-> Len(AfterIv(chunk))]]
  /\ cipher_iv' = [cipher_iv EXCEPT ![p] = Other(p)]

\* get_cipher for decryption, and the update of the rest of the chunk.
GetDecipher(p, chunk) ==
  /\ decipher' = [decipher EXCEPT
       ![p] = [iv |-> KeyStream(chunk), pos |-> Len(AfterIv(chunk))]]
  /\ UNCHANGED cipher_iv

\* Mutant of FirstText: the pointer is not moved past the vector.
FirstTextWithIv(chunk) == Decrypted([iv |-> KeyStream(chunk), pos |-> 0], chunk)

\* Mutant of FirstText: the first call only takes the vector.
FirstTextDropped(chunk) == <<>>

\* What the first chunk holds behind the vector, decrypted.
FirstText(chunk) ==
  Decrypted([iv |-> KeyStream(chunk), pos |-> 0], AfterIv(chunk))

\* decrypt of the next n bytes.
Decrypt(p, n) ==
  /\ state[p] = "ready"
  /\ n \in 1 .. Len(wire[Other(p)])
  /\ decipher[p] = NULL => n >= FirstRead
  /\ LET chunk == SubSeq(wire[Other(p)], 1, n)
     IN IF decipher[p] = NULL
        THEN /\ GetDecipher(p, chunk)
             /\ got' = [got EXCEPT ![p] = @ \o FirstText(chunk)]
        ELSE /\ got' = [got EXCEPT ![p] = @ \o Decrypted(decipher[p], chunk)]
             /\ decipher' = [decipher EXCEPT ![p] = Advance(@, n)]
             /\ UNCHANGED cipher_iv
  /\ wire' = [wire EXCEPT ![Other(p)] = SubSeq(@, n + 1, Len(@))]
  /\ UNCHANGED <<state, cipher, iv_sent, given>>

Buffers == UNION {[1 .. n -> Bytes] : n \in 1 .. MaxBuf}

Next ==
  \E p \in Peers :
    \/ Construct(p)
    \/ Destroy(p)
    \/ \E buf \in Buffers : Encrypt(p, buf)
    \/ \E n \in 1 .. Len(wire[Other(p)]) : Decrypt(p, n)

Spec == Init /\ [][Next]_vars

\* The ends read what has come; nothing obliges them to send.
Fairness == \A p \in Peers : WF_vars(\E n \in 1 .. Len(wire[Other(p)]) : Decrypt(p, n))

FairSpec == Spec /\ Fairness

-----------------------------------------------------------------------------

Stream == INSTANCE ByteStream

\* However the stream is cut after a first chunk that holds the vector, and
\* whichever end speaks first, decrypt hands out what encrypt was given.
StreamSpec == Stream!Spec

\* Everything that was encrypted is handed out at the other end if that end
\* reads on, the text in the chunk that brings the vector included.
EverythingArrives ==
  \A p \in Peers : \A n \in 1 .. MaxGiven :
    Len(given[p]) >= n ~> Len(got[Other(p)]) >= n \/ state[Other(p)] # "ready"
=============================================================================
