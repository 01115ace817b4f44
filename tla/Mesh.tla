-------------------------------- MODULE Mesh --------------------------------
(***************************************************************************)
(* The flood relay of src/src/mesh.c run by several nodes joined by        *)
(* stream connections (transport_unix.c), each node with its own seen      *)
(* cache (seen.c, module SeenCache).                                       *)
(*                                                                         *)
(* A connection c joins Ends[c][1] (the node that ran --peer, i.e.         *)
(* vex_transport_unix_connect) and Ends[c][2] (the node that accepted it). *)
(* Every connection occupies one peer slot at each end for the whole run:  *)
(* link failures and the slot lifecycle are the subject of Transport.      *)
(* chan[<<c, n>>] is the byte stream of c towards n, as the sequence of    *)
(* frames written into it and not yet read (a stream keeps send order).    *)
(* A frame is the decoded packet: its ID and TTL.  Every frame a node      *)
(* writes carries ENCRYPTED|BROADCAST and a payload that decrypts under    *)
(* the shared mesh key, so decryption always succeeds here.                *)
(*                                                                         *)
(* Each action is one handler of one node's single-threaded event loop;    *)
(* different nodes are different processes and interleave freely.         *)
(***************************************************************************)
EXTENDS Integers, Sequences, FiniteSets, TLC, SeenCache

CONSTANTS
    Node,           \* the processes
    Conn,           \* the connections between them
    Ends,           \* Ends[c] = <<dialling node, accepting node>>
    Origins,        \* nodes whose user types a message
    DefaultTTL,     \* DefaultTTL[n]: node->default_ttl, (uint8_t)atoi(--ttl)
    RelayEnabled,   \* RelayEnabled[n]: FALSE under --no-relay
    PruneInterval,  \* seconds between vex_seen_prune calls (10 in main.c)
    MaxTime,        \* the last second the model reaches
    ClockSteps      \* offsets by which the wall clock may be set (NTP, date)

ASSUME \A c \in Conn : Ends[c] \in Node \X Node /\ Ends[c][1] # Ends[c][2]
ASSUME Origins \subseteq Node
ASSUME DefaultTTL \in [Node -> 0 .. 255] /\ RelayEnabled \in [Node -> BOOLEAN]
ASSUME ClockSteps \subseteq Int \ {0}

VARIABLES
    seen,       \* seen[n]: node n's vex_seen_cache_t
    chan,       \* chan[<<c, n>>]: frames in the stream of c towards n
    now,        \* time(NULL): the wall clock every seen.c call reads
    elapsed,    \* the seconds that have really passed
    lastPrune,  \* lastPrune[n]: main.c's last_prune
    sent, received, relayed, dropped,   \* the node's packet counters
    shown,      \* shown[n][p]: the seconds at which n printed packet p
    origin      \* origin[p]: the node whose vex_mesh_send drew ID p, and when

vars == <<seen, chan, now, elapsed, lastPrune, sent, received, relayed, dropped, shown, origin>>

PeersOf(n) == {c \in Conn : n \in {Ends[c][1], Ends[c][2]}}
Other(c, n) == IF Ends[c][1] = n THEN Ends[c][2] ELSE Ends[c][1]
Links == UNION {{<<c, Ends[c][1]>>, <<c, Ends[c][2]>>} : c \in Conn}

Frame == [id : Ids, ttl : 0 .. 255]

(* vex_transport_send_to_all(node, frame, except): one length-prefixed     *)
(* write into every active connection of n other than the excluded ones.   *)
SendToAll(ch, n, except, f) ==
    [l \in Links |-> IF l[1] \in PeersOf(n) \ except /\ l[2] = Other(l[1], n)
                        THEN Append(ch[l], f) ELSE ch[l]]

Bump(counter, n) == [counter EXCEPT ![n] = @ + 1]

TypeOK ==
    /\ seen \in [Node -> [entries : [Index -> Entry], count : 0 .. Capacity]]
    /\ chan \in [Links -> Seq(Frame)]
    /\ now \in 0 .. MaxTime /\ elapsed \in 0 .. MaxTime /\ lastPrune \in [Node -> 0 .. MaxTime]
    /\ \A ctr \in {sent, received, relayed, dropped} : ctr \in [Node -> Nat]
    /\ shown \in [Node -> [Ids -> Seq(0 .. MaxTime)]]
    /\ DOMAIN origin \subseteq Ids
    /\ \A p \in DOMAIN origin : origin[p] \in [node : Origins, at : 0 .. MaxTime]

Init ==
    /\ seen = [n \in Node |-> EmptyCache]
    /\ chan = [l \in Links |-> <<>>]
    /\ now = 0 /\ elapsed = 0
    /\ lastPrune = [n \in Node |-> 0]
    /\ sent = [n \in Node |-> 0] /\ received = [n \in Node |-> 0]
    /\ relayed = [n \in Node |-> 0] /\ dropped = [n \in Node |-> 0]
    /\ shown = [n \in Node |-> [p \in Ids |-> <<>>]]
    /\ origin = <<>>

(***************************************************************************)
(* vex_mesh_send: a typed line becomes a packet with a fresh random ID     *)
(* (make_id), TTL default_ttl, its ID is added to the sender's own seen    *)
(* cache, and it is written to every peer.  The length check and the       *)
(* encryption cannot fail for the lines the model sends.                   *)
(***************************************************************************)
\* Mutant: the sender does not put its own ID into its seen cache.
SendNoSeenAdd(n, p) ==
    /\ n \in Origins
    /\ p \notin DOMAIN origin
    /\ chan' = SendToAll(chan, n, {}, [id |-> p, ttl |-> DefaultTTL[n]])
    /\ sent' = Bump(sent, n)
    /\ origin' = (p :> [node |-> n, at |-> elapsed]) @@ origin
    /\ UNCHANGED <<seen, now, elapsed, lastPrune, received, relayed, dropped, shown>>

Send(n, p) ==
    /\ n \in Origins
    /\ p \notin DOMAIN origin
    /\ seen' = [seen EXCEPT ![n] = SeenAdd(@, p, now)]
    /\ chan' = SendToAll(chan, n, {}, [id |-> p, ttl |-> DefaultTTL[n]])
    /\ sent' = Bump(sent, n)
    /\ origin' = (p :> [node |-> n, at |-> elapsed]) @@ origin
    /\ UNCHANGED <<now, elapsed, lastPrune, received, relayed, dropped, shown>>

(***************************************************************************)
(* One frame read from connection c (vex_transport_unix_read returned      *)
(* n > 0) and handed to vex_mesh_receive, which runs vex_mesh_relay:       *)
(*   already in the seen cache  -> dropped++;                              *)
(*   new -> add to the cache, received++, print the plaintext, and when    *)
(*          relaying is on and TTL > 1, write it with TTL - 1 to every     *)
(*          peer except c, relayed++.                                      *)
(***************************************************************************)
\* Mutant: the end-of-line test is ttl <= 2 instead of ttl <= 1.
RelayTtlOffByOne(ch, n, c, f) ==
    IF RelayEnabled[n] /\ f.ttl > 2
    THEN [ch |-> SendToAll(ch, n, {c}, [f EXCEPT !.ttl = @ - 1]), relays |-> 1]
    ELSE [ch |-> ch, relays |-> 0]

Relay(ch, n, c, f) ==
    IF RelayEnabled[n] /\ f.ttl > 1
    THEN [ch |-> SendToAll(ch, n, {c}, [f EXCEPT !.ttl = @ - 1]), relays |-> 1]
    ELSE [ch |-> ch, relays |-> 0]

Receive(n, c) ==
    LET l == <<c, n>>
        f == Head(chan[l])
        r == SeenCheck(seen[n], f.id, now)
        rest == [chan EXCEPT ![l] = Tail(@)]
    IN
    /\ c \in PeersOf(n)
    /\ chan[l] # <<>>
    /\ IF r.seen
       THEN /\ seen' = [seen EXCEPT ![n] = r.cache]
            /\ dropped' = Bump(dropped, n)
            /\ chan' = rest
            /\ UNCHANGED <<received, relayed, shown>>
       ELSE LET out == Relay(rest, n, c, f)
            IN  /\ seen' = [seen EXCEPT ![n] = SeenAdd(r.cache, f.id, now)]
                /\ received' = Bump(received, n)
                /\ shown' = [shown EXCEPT ![n][f.id] = Append(@, elapsed)]
                /\ chan' = out.ch
                /\ relayed' = [relayed EXCEPT ![n] = @ + out.relays]
                /\ UNCHANGED dropped
    /\ UNCHANGED <<now, elapsed, lastPrune, sent, origin>>

(* The periodic maintenance of the event loop: vex_seen_prune when more    *)
(* than PruneInterval seconds have passed since the last one.              *)
Prune(n) ==
    /\ now - lastPrune[n] > PruneInterval
    /\ seen' = [seen EXCEPT ![n] = SeenPrune(@, now)]
    /\ lastPrune' = [lastPrune EXCEPT ![n] = now]
    /\ UNCHANGED <<chan, now, elapsed, sent, received, relayed, dropped, shown, origin>>

(* A second passes: time(NULL) advances with it.                          *)
Tick ==
    /\ now < MaxTime /\ elapsed < MaxTime
    /\ now' = now + 1 /\ elapsed' = elapsed + 1
    /\ UNCHANGED <<seen, chan, lastPrune, sent, received, relayed, dropped, shown, origin>>

(* The wall clock is set by d seconds without time passing.  time(NULL)    *)
(* is CLOCK_REALTIME, which NTP or an administrator may step either way.   *)
ClockStep(d) ==
    /\ now + d \in 0 .. MaxTime
    /\ now' = now + d
    /\ UNCHANGED <<seen, chan, elapsed, lastPrune, sent, received, relayed, dropped, shown, origin>>

Next ==
    \/ \E n \in Node, p \in Ids : Send(n, p)
    \/ \E n \in Node, c \in Conn : Receive(n, c)
    \/ \E n \in Node : Prune(n)
    \/ Tick
    \/ \E d \in ClockSteps : ClockStep(d)

(* The event loop reads every active peer on every iteration and poll()    *)
(* returns at least once a second, so a frame waiting in a stream is       *)
(* eventually read.  Typing, and the clock within MaxTime, are not forced. *)
Fairness == \A n \in Node, c \in Conn : WF_vars(Receive(n, c))

Spec == Init /\ [][Next]_vars /\ Fairness

-----------------------------------------------------------------------------
(* Properties *)

(* At-most-once delivery within the window (spec.md 1, 4.B, 8.4, S1-S3):   *)
(* a node prints a packet again only when more than SeenTTL seconds have   *)
(* really passed since it last printed it.  A flood over a cyclic mesh brings a   *)
(* packet to a node once per path, in any order and after any delay; only  *)
(* the seen cache, filled by the receive path and by the sender's own      *)
(* vex_mesh_send, stops the repeats.                                       *)
RedisplayOnlyAfterWindow ==
    \A n \in Node, p \in Ids :
        \A i \in 1 .. Len(shown[n][p]) - 1 : shown[n][p][i + 1] - shown[n][p][i] > SeenTTL

(* No echo (S1, "A never sees its own echo back"): the node that sent a    *)
(* packet does not print it when the flood brings it back around a cycle,  *)
(* unless the copy comes back after the window has passed.                 *)
NoEchoWithinWindow ==
    \A p \in DOMAIN origin :
        \A i \in DOMAIN shown[origin[p].node][p] :
            shown[origin[p].node][p][i] - origin[p].at > SeenTTL

(* Coverage (spec.md 4.E): every sent packet is eventually printed by      *)
(* every other node.  A node relays only the first copy it receives, with  *)
(* whatever TTL that copy has left, so this depends on the order in which  *)
(* copies arrive over different paths, not only on the hop distance.       *)
Coverage ==
    \A p \in Ids, n \in Node :
        (p \in DOMAIN origin) ~>
            (p \in DOMAIN origin /\ (n = origin[p].node \/ shown[n][p] # <<>>))

=============================================================================
