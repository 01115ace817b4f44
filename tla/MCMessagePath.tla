--------------------------- MODULE MCMessagePath ---------------------------
EXTENDS MessagePath

(* One nonce and one ID: their values do not steer any branch of the code. *)
ZeroNonce == {[i \in 1 .. NONCEBYTES |-> 0]}
SomeId == {[i \in 1 .. ID_BYTES |-> i]}
(* The version byte, an ID byte, TTL, flags, the first nonce byte, the     *)
(* first tag byte, the first and a later ciphertext byte.                  *)
FieldOffsets == {1, 2, 10, 11, 12, 12 + NONCEBYTES, 12 + NONCEBYTES + 16, 60}
(* Every line length up to past one fgets buffer, and one line long       *)
(* enough for two pieces; a line is text alone, or ends with a command.    *)
LineLens == (0 .. 520) \cup {600}
Endings == {<<>>, QUIT, STATS}
(* A line longer than the 511 bytes one fgets call takes.                  *)
SplitLens == {600}
PlainEnding == {<<>>}
====
