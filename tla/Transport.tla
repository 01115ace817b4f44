------------------------------ MODULE Transport ------------------------------
(***************************************************************************)
(* The peer transport of src/src/transport_unix.c together with the parts  *)
(* of main.c's event loop that drive it: start-up (listen, then connect to *)
(* every --peer), accept, one read per active slot, the peer_count         *)
(* bookkeeping, /quit and the cleanup after the loop.                      *)
(*                                                                         *)
(* Each node is its own process; a connection is a Unix stream socket with *)
(* one byte stream per direction.  buf[<<c, n>>] is the stream of c        *)
(* towards n: the segments written into it and not yet read, a 2-byte     *)
(* length header H or a packet body B, each tagged with the message it     *)
(* frames, or X, a length header above VEX_MAX_PACKET that only a        *)
(* foreign process (one that connects but is not a node) writes.          *)
(* send_to_peer issues two write() calls, so the header and the   *)
(* body are two steps and other processes run between them.  A read()      *)
(* never blocks, so a reader's whole read of one slot is one step.         *)
(*                                                                         *)
(* Above the transport sits the mesh: a message is relayed once, on first  *)
(* sight, to every active slot but its source (mesh.c, with the TTL and    *)
(* the dedup window abstracted to "first sight"); that is what keeps       *)
(* several fan-outs in flight at once.                                     *)
(***************************************************************************)
EXTENDS Naturals, Sequences, FiniteSets, FiniteSetsExt

CONSTANTS
    Node,      \* the processes
    Conn,      \* the connections that may be made
    Ends,      \* Ends[c] = <<node running --peer, node listening>>
    DialOrder, \* DialOrder[n]: the connections n dials, in --peer order
    Slots,     \* VEX_MAX_PEERS
    Msgs,      \* the broadcast messages
    BufCap,    \* segments a socket buffer holds before write() gets EAGAIN
    NoConn,    \* the except_fd -1 of vex_mesh_send, and an unused slot
    Foreign    \* processes that connect but are not vexconnect nodes

ASSUME \A c \in Conn : Ends[c] \in Node \X Node /\ Ends[c][1] # Ends[c][2]
ASSUME \A n \in Node : /\ DialOrder[n] \in Seq({c \in Conn : Ends[c][1] = n})
                       /\ Len(DialOrder[n]) <= Slots   \* main.c caps --peer
ASSUME Slots \in Nat \ {0} /\ BufCap \in Nat \ {0} /\ NoConn \notin Conn
ASSUME Foreign \subseteq Node /\ \A c \in Conn : Ends[c][2] \notin Foreign

VARIABLES
    state,     \* state[n]: "down" before main runs, "up", "quit", "killed";
               \* a foreign process is "wrote" once it has written
    slot,      \* slot[n][i]: node->peers[i] as [conn, active]
    peerCount, \* peerCount[n]: node->peer_count
    est,       \* est[c]: "none", "pending" in the listen backlog, "accepted"
    closed,    \* closed[c]: the nodes whose descriptor of c is closed
    buf,       \* buf[<<c, n>>]: segments of c in flight towards n
    fan,       \* fan[n]: the vex_transport_send_to_all n is in, if any
    seenMsg,   \* seenMsg[n]: the messages n has sent or received
    written,   \* written[<<c, n>>]: messages send_to_peer put whole on c
    delivered  \* delivered[<<c, n>>]: messages n's read returned from c

vars == <<state, slot, peerCount, est, closed, buf, fan, seenMsg, written,
          delivered>>

SlotIndex == 0 .. Slots - 1
Links == {<<c, Ends[c][1]>> : c \in Conn} \cup {<<c, Ends[c][2]>> : c \in Conn}
Other(c, n) == IF Ends[c][1] = n THEN Ends[c][2] ELSE Ends[c][1]
Segment == [k : {"H", "B", "X"}, m : Msgs]
FreeSlot == [conn |-> NoConn, active |-> FALSE]

(* The slot table after main.c's vex_mesh_init and connect loop: the       *)
(* dials that found a listener take slots 0, 1, ... in --peer order.      *)
Dialled(ok) == [i \in SlotIndex |-> IF i < Len(ok)
                                      THEN [conn |-> ok[i + 1], active |-> TRUE]
                                      ELSE FreeSlot]

(* The loop of send_to_all: the first slot from i on that is active and    *)
(* not the excluded source; Slots when there is none (the loop ends).     *)
NextTarget(sl, except, i) ==
    LET J == {j \in i .. Slots - 1 : sl[j].active /\ sl[j].conn # except}
    IN  IF J = {} THEN Slots ELSE Min(J)

Idle == [m |-> CHOOSE m \in Msgs : TRUE, except |-> NoConn, i |-> Slots,
         hdr |-> FALSE]
StartFan(sl, m, except) ==
    [m |-> m, except |-> except, i |-> NextTarget(sl, except, 0), hdr |-> FALSE]

(* Every descriptor n holds, listening socket included, is closed: by the  *)
(* cleanup after the loop, or by the kernel when the process dies.        *)
CloseAll(n) ==
    closed' = [c \in Conn |-> IF n \in {Ends[c][1], Ends[c][2]} /\ est[c] # "none"
                                THEN closed[c] \cup {n} ELSE closed[c]]

TypeOK ==
    /\ state \in [Node -> {"down", "up", "quit", "killed", "wrote"}]
    /\ slot \in [Node -> [SlotIndex -> [conn : Conn \cup {NoConn}, active : BOOLEAN]]]
    /\ peerCount \in [Node -> Nat]
    /\ est \in [Conn -> {"none", "pending", "accepted"}]
    /\ closed \in [Conn -> SUBSET Node]
    /\ buf \in [Links -> Seq(Segment)]
    /\ fan \in [Node -> [m : Msgs, except : Conn \cup {NoConn}, i : 0 .. Slots,
                         hdr : BOOLEAN]]
    /\ seenMsg \in [Node -> SUBSET Msgs]
    /\ written \in [Links -> Seq(Msgs)] /\ delivered \in [Links -> Seq(Msgs)]

Init ==
    /\ state = [n \in Node |-> "down"]
    /\ slot = [n \in Node |-> [i \in SlotIndex |-> FreeSlot]]
    /\ peerCount = [n \in Node |-> 0]
    /\ est = [c \in Conn |-> "none"]
    /\ closed = [c \in Conn |-> {}]
    /\ buf = [l \in Links |-> <<>>]
    /\ fan = [n \in Node |-> Idle]
    /\ seenMsg = [n \in Node |-> {}]
    /\ written = [l \in Links |-> <<>>] /\ delivered = [l \in Links |-> <<>>]

Busy(n) == fan[n].i < Slots

(* main(): vex_mesh_init, vex_transport_unix_init, then one blocking       *)
(* connect per --peer.  A dial to a node that is not listening fails and  *)
(* takes no slot; a dial that succeeds waits in the listener's backlog.   *)
Start(n) ==
    LET ok == SelectSeq(DialOrder[n], LAMBDA c : state[Ends[c][2]] = "up")
    IN  /\ state[n] = "down"
        /\ state' = [state EXCEPT ![n] = "up"]
        /\ slot' = [slot EXCEPT ![n] = Dialled(ok)]
        /\ peerCount' = [peerCount EXCEPT ![n] = Len(ok)]
        /\ est' = [c \in Conn |-> IF \E k \in 1 .. Len(ok) : ok[k] = c
                                    THEN "pending" ELSE est[c]]
        /\ UNCHANGED <<closed, buf, fan, seenMsg, written, delivered>>

(* A line typed on stdin: vex_mesh_send marks its fresh packet as seen and *)
(* fans it out to every active slot (except_fd -1).                       *)
Broadcast(n, m) ==
    /\ state[n] = "up" /\ ~Busy(n)
    /\ \A x \in Node : m \notin seenMsg[x]
    /\ seenMsg' = [seenMsg EXCEPT ![n] = @ \cup {m}]
    /\ fan' = [fan EXCEPT ![n] = StartFan(slot[n], m, NoConn)]
    /\ UNCHANGED <<state, slot, peerCount, est, closed, buf, written, delivered>>

(* /quit: the loop ends and the cleanup closes every descriptor.          *)
Quit(n) ==
    /\ state[n] = "up" /\ ~Busy(n)
    /\ state' = [state EXCEPT ![n] = "quit"]
    /\ CloseAll(n)
    /\ UNCHANGED <<slot, peerCount, est, buf, fan, seenMsg, written, delivered>>

(* Mutant: accept takes the first slot without looking whether it is free. *)
AcceptNoFreeCheck(n) ==
    /\ state[n] = "up" /\ ~Busy(n)
    /\ \E c \in Conn :
         /\ Ends[c][2] = n /\ est[c] = "pending"
         /\ est' = [est EXCEPT ![c] = "accepted"]
         /\ LET free == {i \in SlotIndex : ~slot[n][i].active}
                i == IF free # {} THEN Min(free) ELSE 0
            IN  /\ slot' = [slot EXCEPT ![n][i] = [conn |-> c, active |-> TRUE]]
                /\ peerCount' = [peerCount EXCEPT ![n] = @ + 1]
                /\ UNCHANGED closed
    /\ UNCHANGED <<state, buf, fan, seenMsg, written, delivered>>

(* The listening socket is readable: vex_transport_unix_accept takes the   *)
(* first inactive slot, or closes the new session when all are active.    *)
Accept(n) ==
    /\ state[n] = "up" /\ ~Busy(n)
    /\ \E c \in Conn :
         /\ Ends[c][2] = n /\ est[c] = "pending"
         /\ est' = [est EXCEPT ![c] = "accepted"]
         /\ LET free == {i \in SlotIndex : ~slot[n][i].active}
            IN  IF free # {}
                THEN /\ slot' = [slot EXCEPT ![n][Min(free)] =
                                     [conn |-> c, active |-> TRUE]]
                     /\ peerCount' = [peerCount EXCEPT ![n] = @ + 1]
                     /\ UNCHANGED closed
                ELSE /\ closed' = [closed EXCEPT ![c] = @ \cup {n}]
                     /\ UNCHANGED <<slot, peerCount>>
    /\ UNCHANGED <<state, buf, fan, seenMsg, written, delivered>>

(* What one write() on slot i of n does: EPIPE (and SIGPIPE, whose default *)
(* action ends the process) when the peer's end is closed, EAGAIN when    *)
(* the socket buffer is full, else the segment is queued.                 *)
WriteResult(n, i) ==
    LET c == slot[n][i].conn
    IN  IF Other(c, n) \in closed[c] THEN "pipe"
        ELSE IF Len(buf[<<c, Other(c, n)>>]) >= BufCap THEN "full"
        ELSE "ok"

(* SIGPIPE kills n: the kernel closes all its descriptors.               *)
Killed(n) ==
    /\ state' = [state EXCEPT ![n] = "killed"]
    /\ fan' = [fan EXCEPT ![n] = Idle]
    /\ CloseAll(n)
    /\ UNCHANGED <<slot, peerCount, est, buf, seenMsg, written, delivered>>

(* Mutant: the failed write leaves send_to_all's header flag set.         *)
DropOnWriteKeepsHdr(n, i) ==
    LET c == slot[n][i].conn
        sl == [slot[n] EXCEPT ![i].active = FALSE]
    IN  /\ slot' = [slot EXCEPT ![n] = sl]
        /\ closed' = [closed EXCEPT ![c] = @ \cup {n}]
        /\ fan' = [fan EXCEPT ![n].i = NextTarget(sl, fan[n].except, i + 1)]
        /\ UNCHANGED <<state, peerCount, est, buf, seenMsg, written, delivered>>

(* A failed write: peer->active = 0 and close(peer->fd); send_to_all goes  *)
(* on with the next slot.  peer_count is left as it is.                   *)
DropOnWrite(n, i) ==
    LET c == slot[n][i].conn
        sl == [slot[n] EXCEPT ![i].active = FALSE]
    IN  /\ slot' = [slot EXCEPT ![n] = sl]
        /\ closed' = [closed EXCEPT ![c] = @ \cup {n}]
        /\ fan' = [fan EXCEPT ![n].i = NextTarget(sl, fan[n].except, i + 1),
                              ![n].hdr = FALSE]
        /\ UNCHANGED <<state, peerCount, est, buf, seenMsg, written, delivered>>

(* send_to_peer, first write(): the 2-byte length header.                 *)
WriteHeader(n) ==
    LET i == fan[n].i
        l == <<slot[n][i].conn, Other(slot[n][i].conn, n)>>
    IN  /\ state[n] = "up" /\ Busy(n) /\ ~fan[n].hdr
        /\ CASE WriteResult(n, i) = "pipe" -> Killed(n)
             [] WriteResult(n, i) = "full" -> DropOnWrite(n, i)
             [] OTHER ->
                  /\ buf' = [buf EXCEPT ![l] = Append(@, [k |-> "H", m |-> fan[n].m])]
                  /\ fan' = [fan EXCEPT ![n].hdr = TRUE]
                  /\ UNCHANGED <<state, slot, peerCount, est, closed, seenMsg,
                                 written, delivered>>

(* send_to_peer, second write(): the packet; on success it returns 0 and  *)
(* send_to_all moves to the next slot.                                    *)
WriteBody(n) ==
    LET i == fan[n].i
        l == <<slot[n][i].conn, Other(slot[n][i].conn, n)>>
    IN  /\ state[n] = "up" /\ Busy(n) /\ fan[n].hdr
        /\ CASE WriteResult(n, i) = "pipe" -> Killed(n)
             [] WriteResult(n, i) = "full" -> DropOnWrite(n, i)
             [] OTHER ->
                  /\ buf' = [buf EXCEPT ![l] = Append(@, [k |-> "B", m |-> fan[n].m])]
                  /\ written' = [written EXCEPT ![l] = Append(@, fan[n].m)]
                  /\ fan' = [fan EXCEPT ![n].i = NextTarget(slot[n], fan[n].except, i + 1),
                                        ![n].hdr = FALSE]
                  /\ UNCHANGED <<state, slot, peerCount, est, closed, seenMsg,
                                 delivered>>
(* Mutant: the read error leaves the slot active (as transport_unix.c 176 *)
(* does for a short header) while the loop still counts a disconnect.     *)
DropOnReadKeepsSlot(n, i) ==
    LET c == slot[n][i].conn
    IN  /\ slot' = slot
        /\ peerCount' = [peerCount EXCEPT ![n] = @ - 1]
        /\ closed' = closed
        /\ buf' = [buf EXCEPT ![<<c, n>>] = <<>>]

(* A read that returns -1: vex_transport_unix_read has set peer->active = *)
(* 0 and closed the descriptor, and the loop does node.peer_count--.       *)
DropOnRead(n, i) ==
    LET c == slot[n][i].conn
    IN  /\ slot' = [slot EXCEPT ![n][i].active = FALSE]
        /\ peerCount' = [peerCount EXCEPT ![n] = @ - 1]
        /\ closed' = [closed EXCEPT ![c] = @ \cup {n}]
        /\ buf' = [buf EXCEPT ![<<c, n>>] = <<>>]

(* A frame read whole is handed to vex_mesh_receive with the slot's fd as  *)
(* source: the first sight of a message is relayed to every other slot.   *)
Deliver(n, c, m) ==
    /\ delivered' = [delivered EXCEPT ![<<c, n>>] = Append(@, m)]
    /\ IF m \notin seenMsg[n]
       THEN /\ seenMsg' = [seenMsg EXCEPT ![n] = @ \cup {m}]
            /\ fan' = [fan EXCEPT ![n] = StartFan(slot[n], m, c)]
       ELSE UNCHANGED <<seenMsg, fan>>

(* A length header above VEX_MAX_PACKET: read consumed its two bytes and  *)
(* returns -1 at transport_unix.c 179 without touching the slot, which    *)
(* stays active, and the loop counts a disconnect.                        *)
ReadBadHeader(n, i) ==
    LET c == slot[n][i].conn
    IN  /\ buf' = [buf EXCEPT ![<<c, n>>] = Tail(@)]
        /\ peerCount' = [peerCount EXCEPT ![n] = @ - 1]
        /\ UNCHANGED <<state, slot, est, closed, fan, seenMsg, written, delivered>>

(* Mutant: end of stream inside the body loop ends the frame early.      *)
ReadEofEndsBody(n, i) ==
    LET c == slot[n][i].conn
        s == buf[<<c, n>>]
    IN  /\ state[n] = "up" /\ ~Busy(n) /\ slot[n][i].active
        /\ \/ /\ Len(s) >= 2 /\ s[1].k = "H" /\ s[2].k = "B"
              /\ buf' = [buf EXCEPT ![<<c, n>>] = Tail(Tail(s))]
              /\ Deliver(n, c, s[2].m)
              /\ UNCHANGED <<state, slot, peerCount, est, closed, written>>
           \/ /\ Len(s) = 1 /\ s[1].k = "H" /\ Other(c, n) \in closed[c]
              /\ buf' = [buf EXCEPT ![<<c, n>>] = <<>>]
              /\ Deliver(n, c, s[1].m)
              /\ UNCHANGED <<state, slot, peerCount, est, closed, written>>
           \/ /\ \/ Len(s) = 1 /\ s[1].k = "H" /\ Other(c, n) \notin closed[c]
                 \/ s = <<>> /\ Other(c, n) \in closed[c]
              /\ DropOnRead(n, i)
              /\ UNCHANGED <<state, est, fan, seenMsg, written, delivered>>
           \/ /\ s # <<>> /\ s[1].k = "X"
              /\ ReadBadHeader(n, i)

(* Mutant: a body that is not there yet returns -1 but keeps the slot and  *)
(* drops only the header it read.                                         *)
ReadShortBodyKeepsSlot(n, i) ==
    LET c == slot[n][i].conn
        s == buf[<<c, n>>]
    IN  /\ state[n] = "up" /\ ~Busy(n) /\ slot[n][i].active
        /\ \/ /\ Len(s) >= 2 /\ s[1].k = "H" /\ s[2].k = "B"
              /\ buf' = [buf EXCEPT ![<<c, n>>] = Tail(Tail(s))]
              /\ Deliver(n, c, s[2].m)
              /\ UNCHANGED <<state, slot, peerCount, est, closed, written>>
           \/ /\ Len(s) = 1 /\ s[1].k = "H"
              /\ buf' = [buf EXCEPT ![<<c, n>>] = <<>>]
              /\ peerCount' = [peerCount EXCEPT ![n] = @ - 1]
              /\ UNCHANGED <<state, slot, est, closed, fan, seenMsg, written, delivered>>
           \/ /\ s = <<>> /\ Other(c, n) \in closed[c]
              /\ DropOnRead(n, i)
              /\ UNCHANGED <<state, est, fan, seenMsg, written, delivered>>
           \/ /\ s # <<>> /\ s[1].k = "X"
              /\ ReadBadHeader(n, i)

(* The event loop reads active slot i of n.  read() of the header returns  *)
(* 0 at end of stream and -1/EAGAIN on an empty open stream (the read     *)
(* returns 0 and nothing changes: not a step).  After a header the body   *)
(* loop reads until the frame is whole; a read that returns <= 0 there,   *)
(* because the body is not written yet or never will be, is an error.    *)
Read(n, i) ==
    LET c == slot[n][i].conn
        s == buf[<<c, n>>]
    IN  /\ state[n] = "up" /\ ~Busy(n) /\ slot[n][i].active
        /\ \/ /\ Len(s) >= 2 /\ s[1].k = "H" /\ s[2].k = "B"
              /\ buf' = [buf EXCEPT ![<<c, n>>] = Tail(Tail(s))]
              /\ Deliver(n, c, s[2].m)
              /\ UNCHANGED <<state, slot, peerCount, est, closed, written>>
           \/ /\ \/ Len(s) = 1 /\ s[1].k = "H"
                 \/ s = <<>> /\ Other(c, n) \in closed[c]
              /\ DropOnRead(n, i)
              /\ UNCHANGED <<state, est, fan, seenMsg, written, delivered>>
           \/ /\ s # <<>> /\ s[1].k = "X"
              /\ ReadBadHeader(n, i)

(* A foreign process, once connected, writes one length header above      *)
(* VEX_MAX_PACKET on the connection it dialled and nothing more.          *)
Inject(n) ==
    /\ state[n] = "up"
    /\ \E c \in Conn :
         LET l == <<c, Ends[c][2]>>
         IN  /\ Ends[c][1] = n /\ est[c] # "none" /\ closed[c] = {}
             /\ Len(buf[l]) < BufCap
             /\ buf' = [buf EXCEPT ![l] = Append(@, [k |-> "X", m |-> Idle.m])]
    /\ state' = [state EXCEPT ![n] = "wrote"]
    /\ UNCHANGED <<slot, peerCount, est, closed, fan, seenMsg, written, delivered>>

Next ==
    \/ \E n \in Node \ Foreign :
        \/ Start(n) \/ Quit(n) \/ Accept(n) \/ WriteHeader(n) \/ WriteBody(n)
        \/ \E m \in Msgs : Broadcast(n, m)
        \/ \E i \in SlotIndex : Read(n, i)
    \/ \E n \in Foreign : Start(n) \/ Inject(n)

(* A process in its loop polls with a 1 s timeout and reads every active   *)
(* slot and the listener on each iteration; a send_to_all, once begun,    *)
(* runs to its end.  Starting, typing and /quit are up to the user.       *)
Fairness ==
    \A n \in Node \ Foreign :
        /\ WF_vars(Accept(n)) /\ WF_vars(WriteHeader(n)) /\ WF_vars(WriteBody(n))
        /\ \A i \in SlotIndex : WF_vars(Read(n, i))

Spec == Init /\ [][Next]_vars /\ Fairness

-----------------------------------------------------------------------------
(* Every stream is whole frames, header then body of one message, but for  *)
(* a last header whose body is still to come: a failed write always       *)
(* closes the descriptor (transport_unix.c 127-137), so the reader never  *)
(* takes a later frame's bytes for a body.  (A foreign writer's stream is *)
(* whatever it writes.)                                                   *)
FramingInSync ==
    \A l \in Links : Other(l[1], l[2]) \notin Foreign =>
        \A k \in 1 .. Len(buf[l]) :
            IF k % 2 = 1
            THEN buf[l][k].k = "H" /\ (k < Len(buf[l]) => buf[l][k + 1].m = buf[l][k].m)
            ELSE buf[l][k].k = "B"

(* What a node's reads return from a connection is a prefix of what the    *)
(* other end's send_to_peer reported as sent on it, in send order: no     *)
(* frame is lost from the middle, duplicated, reordered or made up from a *)
(* half-written one (spec.md 5, ordering guarantees).                     *)
DeliveredPrefix ==
    \A l \in Links :
        /\ Len(delivered[l]) <= Len(written[l])
        /\ \A k \in 1 .. Len(delivered[l]) : delivered[l][k] = written[l][k]

(* A frame send_to_peer put whole on a connection is eventually returned   *)
(* by the reader's read, unless the reader's descriptor of that           *)
(* connection is closed first: the event loop's reads never leave a frame *)
(* stuck behind the stream head, whatever a foreign peer writes.          *)
DeliveredOrDropped ==
    \A l \in Links : l[2] \notin Foreign => \A k \in 1 .. Cardinality(Msgs) :
        Len(written[l]) >= k ~> (Len(delivered[l]) >= k \/ l[2] \in closed[l[1]])
(* node->peer_count is the number of active slots of a running node, as    *)
(* spec.md 9 requires of the one canonical counter: it is raised on accept *)
(* and connect and lowered only by the loop after a failed read, so a slot *)
(* that send_to_peer deactivates is never uncounted.                      *)
PeerCountAccurate ==
    \A n \in Node :
        state[n] = "up" => peerCount[n] = Cardinality({i \in SlotIndex : slot[n][i].active})

(* A read drops a peer only after that peer has closed its end: a frame    *)
(* whose header is read before the sender's second write() is still a    *)
(* live peer's frame (spec.md 9 asks for per-peer read buffering).        *)
NoSpuriousDisconnect ==
    [][\A n \in Node, i \in SlotIndex :
          (Read(n, i) /\ ~slot'[n][i].active) =>
              Other(slot[n][i].conn, n) \in closed[slot[n][i].conn]]_vars

(* A process ends only by /quit: a peer that goes away is an error on its  *)
(* slot (spec.md 3, slot lifecycle), never the end of the node, although  *)
(* no handler for SIGPIPE is installed and every write is a plain write().*)
NoSigpipeDeath == \A n \in Node : state[n] # "killed"
====
