------------------------------- MODULE Codec -------------------------------
(***************************************************************************)
(* The byte layouts of src/src/packet.c (vex_packet_encode/decode), the     *)
(* 2-byte length prefix of transport_unix.c, and the broadcast box of      *)
(* crypto.c (vex_crypto_encrypt/decrypt_broadcast), as operators on byte   *)
(* sequences with the constants of vex.h and tweetnacl.h.                  *)
(*                                                                         *)
(* XSalsa20-Poly1305 itself (tweetnacl.c is not part of the sources) is    *)
(* replaced by a keyed stand-in with the two properties the code relies    *)
(* on: opening with the right key gives back the plaintext, and changing   *)
(* any one byte of nonce, tag or ciphertext makes the tag check fail.      *)
(***************************************************************************)
EXTENDS Naturals, Sequences

VEX_VERSION == 1
VEX_MAX_PACKET == 512
VEX_HEADER_SIZE == 11
VEX_MAX_PAYLOAD == VEX_MAX_PACKET - VEX_HEADER_SIZE
ID_BYTES == 8
NONCEBYTES == 24                 \* crypto_secretbox_NONCEBYTES
ZEROBYTES == 32                  \* crypto_secretbox_ZEROBYTES
BOXZEROBYTES == 16               \* crypto_secretbox_BOXZEROBYTES
FLAG_ENCRYPTED == 1
FLAG_BROADCAST == 2
(* A result: ok is FALSE for the -1 of the C function. *)
Fail == [ok |-> FALSE, val |-> <<>>]
Ok(v) == [ok |-> TRUE, val |-> v]

Byte == 0 .. 255
(* The sum of s[lo..hi], halving the range so recursion stays shallow. *)
RECURSIVE SumRange(_, _, _)
SumRange(s, lo, hi) ==
    IF lo > hi THEN 0
    ELSE IF lo = hi THEN s[lo]
    ELSE LET mid == (lo + hi) \div 2
         IN  SumRange(s, lo, mid) + SumRange(s, mid + 1, hi)
Sum(s) == SumRange(s, 1, Len(s))

(* vex_packet_t, with the payload as a sequence of payload_len bytes. *)
Packet == [version : Byte, id : Seq(Byte), ttl : Byte, flags : Byte,
           payload : Seq(Byte)]

(* vex_packet_encode into a buffer of bufLen bytes. *)
Encode(p, bufLen) ==
    IF VEX_HEADER_SIZE + Len(p.payload) > bufLen
       \/ VEX_HEADER_SIZE + Len(p.payload) > VEX_MAX_PACKET
       \/ p.version # VEX_VERSION
    THEN Fail
    ELSE Ok(<<p.version>> \o p.id \o <<p.ttl, p.flags>> \o p.payload)

(* vex_packet_decode of the len = Len(w) bytes a read returned;           *)
(* payload_len is (uint16_t)(len - 11).                                   *)
Decode(w) ==
    IF Len(w) < VEX_HEADER_SIZE \/ w[1] # VEX_VERSION
       \/ (Len(w) - VEX_HEADER_SIZE) % 65536 > VEX_MAX_PAYLOAD
    THEN Fail
    ELSE Ok([version |-> w[1], id |-> SubSeq(w, 2, 1 + ID_BYTES), ttl |-> w[10],
             flags |-> w[11], payload |-> SubSeq(w, 12, Len(w))])

(* send_to_peer's header: len >> 8 and len & 0xFF as two uint8_t; read's  *)
(* pkt_len = header[0] << 8 | header[1].                                  *)
LengthPrefix(len) == <<(len \div 256) % 256, len % 256>>
PrefixLength(h) == h[1] * 256 + h[2]

(* The stand-in for crypto_secretbox under key k and nonce nc: a keystream *)
(* byte and a 16-byte tag that depends on every nonce and ciphertext byte.*)
Keystream(k, nc) == (k + Sum(nc)) % 256
Mac(k, nc, ct) ==
    LET t == (k + 7 * Sum(nc) + Sum([i \in 1 .. Len(ct) |-> (i * ct[i]) % 256])) % 256
    IN  [j \in 1 .. BOXZEROBYTES |-> t]

(* vex_crypto_encrypt_broadcast: nonce || tag || ciphertext, of length     *)
(* NONCEBYTES + len + ZEROBYTES - BOXZEROBYTES.                           *)
Encrypt(k, nc, plain) ==
    IF Len(plain) > VEX_MAX_PAYLOAD - NONCEBYTES - BOXZEROBYTES THEN Fail
    ELSE LET ks == Keystream(k, nc)
             ct == [i \in 1 .. Len(plain) |-> (plain[i] + ks) % 256]
         IN  Ok(nc \o Mac(k, nc, ct) \o ct)

(* Mutant: the plaintext length leaves out the 16 bytes the box strips.  *)
DecryptShortLen(k, c) ==
    IF Len(c) <= NONCEBYTES THEN Fail
    ELSE LET nc == SubSeq(c, 1, NONCEBYTES)
             box == SubSeq(c, NONCEBYTES + 1, Len(c))
             tag == SubSeq(box, 1, BOXZEROBYTES)
             ct == SubSeq(box, BOXZEROBYTES + 1, Len(box))
             ks == Keystream(k, nc)
         IN  IF BOXZEROBYTES + Len(box) < ZEROBYTES \/ tag # Mac(k, nc, ct) THEN Fail
             ELSE Ok([i \in 1 .. Len(box) - ZEROBYTES |-> (ct[i] + 256 - ks) % 256])

(* Mutant: the result of the tag check is ignored.                       *)
DecryptNoTagCheck(k, c) ==
    IF Len(c) <= NONCEBYTES THEN Fail
    ELSE LET nc == SubSeq(c, 1, NONCEBYTES)
             box == SubSeq(c, NONCEBYTES + 1, Len(c))
             ct == SubSeq(box, BOXZEROBYTES + 1, Len(box))
             ks == Keystream(k, nc)
         IN  IF BOXZEROBYTES + Len(box) < ZEROBYTES THEN Fail
             ELSE Ok([i \in 1 .. Len(box) - (ZEROBYTES - BOXZEROBYTES) |->
                         (ct[i] + 256 - ks) % 256])

(* vex_crypto_decrypt_broadcast: fails on len <= NONCEBYTES; the box       *)
(* (BOXZEROBYTES zeros then the ct_len bytes) fails to open when shorter  *)
(* than ZEROBYTES or when the tag does not verify; the plaintext is       *)
(* ct_len - (ZEROBYTES - BOXZEROBYTES) bytes.                             *)
Decrypt(k, c) ==
    IF Len(c) <= NONCEBYTES THEN Fail
    ELSE LET nc == SubSeq(c, 1, NONCEBYTES)
             box == SubSeq(c, NONCEBYTES + 1, Len(c))
             tag == SubSeq(box, 1, BOXZEROBYTES)
             ct == SubSeq(box, BOXZEROBYTES + 1, Len(box))
             ks == Keystream(k, nc)
         IN  IF BOXZEROBYTES + Len(box) < ZEROBYTES \/ tag # Mac(k, nc, ct) THEN Fail
             ELSE Ok([i \in 1 .. Len(box) - (ZEROBYTES - BOXZEROBYTES) |->
                         (ct[i] + 256 - ks) % 256])
====
