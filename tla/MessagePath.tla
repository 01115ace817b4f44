----------------------------- MODULE MessagePath -----------------------------
(***************************************************************************)
(* One typed line on its way through the code, byte for byte: main.c's     *)
(* stdin branch (fgets into input[512], strlen, newline strip, command     *)
(* routing), vex_mesh_send for each piece that is not a command (length    *)
(* check, encrypt, make_id, encode, length prefix), the stream to a        *)
(* neighbour, which may carry a frame with one byte changed (spec.md S5:   *)
(* an injecting peer), the neighbour's read, vex_mesh_receive (decode,     *)
(* version, dedup, decrypt and print) and vex_mesh_relay (decode, TTL      *)
(* check, re-encode).  A line longer than fgets's buffer is taken in       *)
(* pieces, one per loop iteration; after the whole line the path starts    *)
(* over with the next one.                                                 *)
(***************************************************************************)
EXTENDS Codec, Bitwise
LOCAL SX == INSTANCE SequencesExt

CONSTANTS
    Key,       \* mesh_key; every node derives the same one
    Fills,     \* the byte values a typed line starts with
    TypedLens, \* how many fill bytes a typed line has
    Words,     \* byte strings a typed line may end with
    TtlArgs,   \* values given to --ttl
    Nonces,    \* 24-byte nonces randombytes may draw
    Ids,       \* 8-byte packet IDs make_id may produce
    Offsets    \* offsets into the packet an injecting peer may change

ASSUME Key \in Byte /\ Fills \subseteq Byte \ {10} /\ TtlArgs \subseteq Nat
ASSUME TypedLens \subseteq Nat /\ Words \subseteq Seq(Byte \ {10})
ASSUME Nonces \subseteq [1 .. NONCEBYTES -> Byte] /\ Ids \subseteq [1 .. ID_BYTES -> Byte]

VARIABLES
    stage,     \* "idle", "typed", "handled" as a command, "quit",
               \* "sent", "rejected" by send, "received"
    typed,     \* the line the user typed, without its newline
    taken,     \* how many bytes of typed and its newline fgets has taken
    line,      \* input as the loop uses it: strlen, newline stripped
    wire,      \* the packet bytes on the stream (after the 2-byte prefix)
    tampered,  \* the offset a peer changed, or 0
    shown,     \* what the receiver printed, or <<>>
    relayOut,  \* the packet bytes the receiver relays, or <<>>
    received, dropped  \* the receiver's packets_received and packets_dropped

vars == <<stage, typed, taken, line, wire, tampered, shown, relayOut, received, dropped>>

(* Mutant: the --ttl value is stored without the uint8_t cast.           *)
TtlOfNoCast(arg) == arg

(* node.default_ttl = (uint8_t)ttl after atoi(--ttl). *)
TtlOf(arg) == arg % 256

(* The command strings main.c compares the input with, as bytes.          *)
QUIT == <<47, 113, 117, 105, 116>>          \* "/quit"
Q == <<47, 113>>                            \* "/q"
PEERS == <<47, 112, 101, 101, 114, 115>>    \* "/peers"
STATS == <<47, 115, 116, 97, 116, 115>>     \* "/stats"
NL == 10
INPUT_SIZE == 512                           \* char input[512]

(* How many bytes fgets(input, sizeof(input), stdin) takes from in at      *)
(* offset off: up to and including the first newline, at most 511.         *)
FgetsLen(in, off) ==
    LET avail == IF Len(in) - off < INPUT_SIZE - 1 THEN Len(in) - off ELSE INPUT_SIZE - 1
        nl == SX!SelectInSubSeq(in, off + 1, off + avail, LAMBDA x : x = NL)
    IN  IF nl = 0 THEN avail ELSE nl - off

(* The string the loop then works with: input up to its first NUL byte     *)
(* (strlen), without a trailing newline.                                   *)
InputLine(buf) ==
    LET nul == SX!SelectInSeq(buf, LAMBDA x : x = 0)
        s == IF nul = 0 THEN buf ELSE SubSeq(buf, 1, nul - 1)
    IN  IF s # <<>> /\ s[Len(s)] = NL THEN SubSeq(s, 1, Len(s) - 1) ELSE s

(* vex_mesh_send on msg: the bytes it writes after the length prefix, or   *)
(* Fail when it refuses the message or encryption or encoding fails.       *)
MeshSend(msg, arg, nc, id) ==
    LET c == Encrypt(Key, nc, msg)
    IN  IF Len(msg) > VEX_MAX_PAYLOAD - 100 \/ ~c.ok THEN Fail
        ELSE Encode([version |-> VEX_VERSION, id |-> id, ttl |-> TtlOf(arg),
                     flags |-> FLAG_ENCRYPTED | FLAG_BROADCAST,
                     payload |-> c.val], VEX_MAX_PACKET)

TypeOK ==
    /\ stage \in {"idle", "typed", "handled", "quit", "sent", "rejected", "received"}
    /\ typed \in Seq(Byte) /\ taken \in 0 .. Len(typed) + 1
    /\ line \in Seq(Byte) /\ wire \in Seq(Byte) /\ relayOut \in Seq(Byte)
    /\ shown \in Seq(Byte) /\ tampered \in Nat
    /\ received \in 0 .. 1 /\ dropped \in 0 .. 1

Init ==
    /\ stage = "idle" /\ typed = <<>> /\ taken = 0 /\ line = <<>> /\ wire = <<>>
    /\ tampered = 0 /\ shown = <<>> /\ relayOut = <<>> /\ received = 0 /\ dropped = 0

(* The user types a line and presses Enter: n fill bytes, then a word.     *)
Type(n, b, w) ==
    /\ stage = "idle"
    /\ stage' = "typed"
    /\ typed' = [i \in 1 .. n |-> b] \o w
    /\ taken' = 0
    /\ UNCHANGED <<line, wire, tampered, shown, relayOut, received, dropped>>

(* One loop iteration's stdin branch: fgets takes the next piece of the    *)
(* line, and the piece is routed: an empty string only prompts again,      *)
(* /quit and /q clear running, /peers and /stats print, anything else is  *)
(* handed to vex_mesh_send.                                                *)
Intake(arg, nc, id) ==
    LET in == typed \o <<NL>>
        n == FgetsLen(in, taken)
        msg == InputLine(SubSeq(in, taken + 1, taken + n))
        w == MeshSend(msg, arg, nc, id)
    IN  /\ stage = "typed"
        /\ taken' = taken + n
        /\ line' = msg
        /\ stage' = CASE msg = <<>> -> "handled"
                       [] msg \in {QUIT, Q} -> "quit"
                       [] msg \in {PEERS, STATS} -> "handled"
                       [] ~w.ok -> "rejected"
                       [] OTHER -> "sent"
        /\ wire' = IF stage' = "sent" THEN w.val ELSE <<>>
        /\ UNCHANGED <<typed, tampered, shown, relayOut, received, dropped>>

(* A peer puts the frame on the stream with one byte changed.             *)
Tamper(off) ==
    /\ stage = "sent" /\ tampered = 0 /\ off <= Len(wire)
    /\ wire' = [wire EXCEPT ![off] = @ ^^ 1]
    /\ tampered' = off
    /\ UNCHANGED <<stage, typed, taken, line, shown, relayOut, received, dropped>>

(* Mutant: the TTL <= 1 test is missing; the uint8_t decrement wraps.    *)
RelayTtlUnguarded(w) ==
    LET p == Decode(w)
    IN  IF ~p.ok THEN <<>>
        ELSE Encode([p.val EXCEPT !.ttl = (p.val.ttl + 255) % 256], VEX_MAX_PACKET).val

(* vex_mesh_relay: decode again, stop at TTL <= 1, else re-encode with     *)
(* the TTL one lower.                                                     *)
Relay(w) ==
    LET p == Decode(w)
    IN  IF ~p.ok \/ p.val.ttl <= 1 THEN <<>>
        ELSE Encode([p.val EXCEPT !.ttl = p.val.ttl - 1], VEX_MAX_PACKET).val

(* The read of the length prefix and the body, then vex_mesh_receive.     *)
(* The ID is new to the receiver, so the dedup check passes.              *)
Receive ==
    LET n == PrefixLength(LengthPrefix(Len(wire)))
        p == Decode(SubSeq(wire, 1, n))
        plain == IF p.ok /\ (p.val.flags & FLAG_ENCRYPTED) # 0
                 THEN Decrypt(Key, p.val.payload) ELSE Fail
    IN  /\ stage = "sent" /\ n <= VEX_MAX_PACKET
        /\ stage' = "received"
        /\ IF ~p.ok
           THEN /\ dropped' = dropped + 1
                /\ UNCHANGED <<shown, relayOut, received>>
           ELSE /\ received' = received + 1
                /\ shown' = IF plain.ok THEN plain.val ELSE <<>>
                /\ relayOut' = Relay(SubSeq(wire, 1, n))
                /\ UNCHANGED dropped
        /\ UNCHANGED <<typed, taken, line, wire, tampered>>

(* The loop comes round again: fgets takes the rest of the line if there  *)
(* is any, otherwise the user types the next line.                         *)
Again ==
    /\ stage \in {"handled", "rejected", "received"}
    /\ IF taken < Len(typed) + 1
       THEN stage' = "typed" /\ UNCHANGED <<typed, taken>>
       ELSE stage' = "idle" /\ typed' = <<>> /\ taken' = 0
    /\ line' = <<>> /\ wire' = <<>> /\ tampered' = 0
    /\ shown' = <<>> /\ relayOut' = <<>> /\ received' = 0 /\ dropped' = 0

Next ==
    \/ \E n \in TypedLens, b \in Fills, w \in Words : Type(n, b, w)
    \/ \E arg \in TtlArgs, nc \in Nonces, id \in Ids : Intake(arg, nc, id)
    \/ \E off \in Offsets : Tamper(off)
    \/ Receive
    \/ Again

Spec == Init /\ [][Next]_vars

-----------------------------------------------------------------------------
(* A line that vex_mesh_send accepts arrives whole: the neighbour prints    *)
(* exactly the bytes typed, through encrypt, encode, the length prefix,    *)
(* read, decode and decrypt, whatever its length within the limit.         *)
DeliversWhatWasTyped ==
    stage = "received" /\ tampered = 0 => shown = line

(* A frame changed on the way never makes the receiver print anything but  *)
(* the line that was typed: it prints that line or nothing (spec.md 8,     *)
(* law 8; spec.md 4.C, authenticated decryption).                          *)
NoForgedOutput ==
    stage = "received" => shown \in {<<>>, line}

(* What vex_mesh_relay writes on is the packet it received with the TTL    *)
(* one lower, and it relays only packets that arrived with a TTL above 1,  *)
(* whatever --ttl was given and whichever byte a peer changed.             *)
RelayLowersTtl ==
    relayOut # <<>> =>
        /\ wire[10] > 1
        /\ relayOut = [wire EXCEPT ![10] = @ - 1]

(* Every line the user types is routed whole (spec.md 6: /quit and /q     *)
(* end the node, any other non-empty line is a broadcast message): what    *)
(* vex_mesh_send broadcasts, or what ends the node as /quit, is the line    *)
(* the user typed, never a piece of it that fgets(input, 512) cut off.     *)
LineRoutedWhole == stage \in {"sent", "received", "quit"} => line = typed
====
