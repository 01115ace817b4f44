# TLA+ models of vexconnect

This directory holds TLA+ models of the mesh relay node in `src/src/`. The
models cover the seen cache, the flood relay, the peer transport, the packet
codec and broadcast crypto, the key files, and the event loop's stdin, read
and maintenance branches.
Each one is checked with TLC. `PROJECT.json` lists:

- every component and whether it is modelled;
- every TLC run, with its mutants;
- the map from each definition to the C lines it models;
- the findings;
- the hazards the properties are aimed at.

## 1. Inventory

| Component | Source | State it keeps | Operations |
|---|---|---|---|
| Packet codec | `packet.c` | none | `vex_packet_encode`, `vex_packet_decode`, `vex_packet_make_id` (random salt + hash) |
| Seen cache | `seen.c` | `entries[1000]` of (id, timestamp, active), high-water `count` | `init`, `check` (scans `0..count-1`, lazily deactivates expired entries, stops at the first hit), `add` (first inactive/expired slot over the whole array, else evict the oldest), `prune` |
| Crypto | `crypto.c` | `mesh_key`, identity keypairs | derive mesh key from the service UUID, load/save keys, `encrypt_broadcast` (nonce‖box), `decrypt_broadcast` |
| Mesh engine | `mesh.c` | node counters `packets_sent/received/relayed/dropped`, `default_ttl`, `relay_enabled` | `vex_mesh_send` (encrypt, make ID, add own ID to seen, fan out), `vex_mesh_receive` (decode, dedup, add, decrypt+print, relay), `vex_mesh_relay` (TTL ≤ 1 stops, else TTL-1 to every peer except the source) |
| Peer transport | `transport_unix.c` | `peers[32]` of (fd, name, active, last_seen), `peer_count`, `listen_fd` | `unix_init`, `accept` (first free slot or close), `connect`, `send_to_peer` (2-byte length write, then body write; any short write deactivates and closes), `send_to_all` (skip `except_fd`), `unix_read` (header, length check, body loop) |
| Event loop | `main.c` | `running`, `last_prune`, `last_stats` | poll (1 s), stdin line → command or `vex_mesh_send`, accept, read every active peer once per iteration, `peer_count--` on read error, prune every >10 s, shutdown |
| Utilities/CLI | `util.c`, `main.c` | none | logging, hex, `randombytes`, getopt |

**How the components interact.** Each node is one single-threaded process. Its
event loop calls into the mesh engine. The engine calls into the seen cache,
the crypto layer and the transport. Nodes share no memory. They interact only
through stream sockets, one per connection, and a connection occupies one slot
at each end. There is no concurrency inside a node. Across nodes, everything
interleaves:
- frames on different connections arrive in any relative order;
- a frame can sit in a stream for any time;
- a peer can close between two of our writes.

**What is hard:**
- **Flood over cycles.** The result depends on arrival order. Dedup and the TTL
  together decide termination and coverage.
- **The dedup window.** It is bounded in time (60 s) and in space (1000
  entries), with lazy expiry.
- **The transport.**
  - Frames are written as two separate writes.
  - Read errors leave slots active in two paths.
  - `peer_count` is kept in two places.
  - Writing to a peer that has closed raises SIGPIPE, and nothing ignores it.

**Correctness per component:**
- **Seen cache.** Check answers "seen" exactly for IDs added within the window
  and not evicted. Only the oldest entry is evicted, and only when the cache is
  full.
- **Mesh.**
  - At most one delivery per node within the window.
  - No echo at the origin.
  - The flood reaches every node under a TTL condition.
  - The flood terminates.
- **Transport.**
  - Every frame is delivered whole or the peer is dropped.
  - `peer_count` equals the number of active slots.
  - One bad peer never kills the node.
- **Key files.** A node never runs with zeroed keys, and it keeps its identity
  across restarts and kills. The key files are private (mode 0600).
- **Event loop.** Each typed line is a command or one broadcast, whole.
  The dedup window is measured in real seconds, whatever the wall clock does.
- **Codec and crypto.**
  - A line that send accepts comes out of the neighbour's decrypt unchanged.
  - A changed frame never prints anything else.
  - Relays lower the TTL.
  - The length budgets of send, encrypt, encode and read agree.

## 2. Modules

| Module | Models | State ↔ code |
|---|---|---|
| `SeenCache` | `seen.c` as operators on a cache value | `[entries, count]` is `vex_seen_cache_t`; `SeenCheck` returns the new cache and the verdict |
| `DedupWindow` | The abstract promise of the cache, from spec.md 4.B | `memo`: remembered ID ↦ second it was added |
| `SeenCacheSpec` | One cache driven as the node drives it | `Observe` = receive's check-then-add, `Originate` = send's add of a fresh ID, `Prune`, `Tick` |
| `Mesh` | `mesh.c` send/receive/relay on several nodes, plus `send_to_all` and the event loop's reads and prune, over links that never fail | See below |
| `MCMesh` | Topologies, per-node settings and wall-clock steps for the Mesh runs | — |
| `Transport` | `transport_unix.c` and the loop's start-up, accept, reads, `peer_count--`, `/quit` and cleanup, on several processes | See below |
| `MCTransport` | A ring of three processes (`--peer` A→B, B→C, C→A), and A dialling B twice beside a foreign process F | — |
| `KeyStore` | `vex_mesh_init`'s load-or-generate-and-save over `identity.key` and `ephemeral.key` (`crypto.c` 21-103, `mesh.c` 10-31), with kills and restarts | See below |
| `MCKeyStore` | Keypairs as model values | — |
| `Codec` | `packet.c` encode/decode, the 2-byte length prefix, and `crypto.c`'s broadcast encrypt/decrypt, as operators on byte sequences with the real constants | Results are `Ok(v)` or `Fail` (the C `-1`) |
| `MessagePath` | One typed line, byte for byte, from the stdin branch (`fgets`, `strlen`, newline strip, command routing) through `vex_mesh_send`, the stream, the neighbour's read, `vex_mesh_receive` and `vex_mesh_relay` | `typed` and `taken` (stdin), `line` (the `input` buffer), `wire`, `shown`, `relayOut`, the receiver's `received`/`dropped` |
| `MCMessagePath` | The typed lines, nonce, ID and tamper offsets for the MessagePath runs | — |

**How `Mesh` corresponds to the code.**
- `seen[n]` is node n's cache.
- `chan[<<c, n>>]` is the stream of connection c towards n, as the frames
  written into it and not yet read.
- `sent/received/relayed/dropped` are the node's counters.
- `shown[n][p]` lists the seconds at which n printed packet p. This is stdout.
- `origin[p]` records which node drew ID p, and when.
- `Send(n, p)` is the whole of `vex_mesh_send`.
- `Receive(n, c)` is one successful `vex_transport_unix_read` followed by the
  whole of `vex_mesh_receive` and `vex_mesh_relay`.
- `Prune(n)` is the maintenance step of the loop, guarded by its interval.
- `now` is `time(NULL)`, the wall clock that every seen-cache call reads.
  `elapsed` counts the seconds that have really passed. `shown` and `origin`
  record `elapsed`.
- `Tick` is a second passing, and it advances both.
- `ClockStep(d)` sets the wall clock by d seconds while no time passes, as NTP
  or `date` can do to `CLOCK_REALTIME`.
- **Abstractions.**
  - A frame is reduced to (ID, TTL).
  - Decryption always succeeds; MessagePath covers the failures.
  - IDs are model values drawn at most once.
  - Links never fail; Transport covers the failures.

**How `Transport` corresponds to the code.**
- **State.**
  - `state[n]` is the process: not yet started, in its loop, ended by
    `/quit`, or killed.
  - `slot[n][i]` is `node->peers[i]`, reduced to its connection and `active`.
  - `peerCount[n]` is `node->peer_count`.
  - `est[c]` says whether connection c was dialled, is waiting in the
    listener's backlog, or was accepted.
  - `closed[c]` is the set of ends whose descriptor is closed.
  - `buf[<<c, n>>]` holds the segments in flight towards n. A segment is a
    2-byte header `H` or a body `B`, each tagged with its message, or `X`, a
    length header above `VEX_MAX_PACKET`.
  - `Foreign` is a set of processes that connect to a node but are not
    vexconnect nodes (anything may connect to the socket file). Their only
    steps are `Start` (the dial) and `Inject`, which writes one `X` on the
    connection they dialled. No node dials them, and no fairness is assumed
    for them.
- **Actions.**
  - `Start` is `main` up to the loop: listen, then one `connect` per
    `--peer`. A dial to a node not yet listening fails, as it does in the code.
  - `Broadcast` is a stdin line that reaches `vex_mesh_send`.
  - `Accept` is `vex_transport_unix_accept`. It takes the first free slot, or
    closes the session when the table is full.
  - `WriteHeader` and `WriteBody` are the two `write()` calls of
    `send_to_peer`. Each call is one step, so another process may run between
    them. The slots a `send_to_all` still has to visit are kept in `fan[n]`.
  - A write to a closed peer is `Killed` (SIGPIPE). A write into a full buffer
    is EAGAIN: `DropOnWrite` deactivates the slot and closes it, and leaves
    `peer_count` as it is.
  - `Read` is one iteration's read of one slot, then `vex_mesh_receive`:
    - a whole frame is delivered;
    - an empty stream whose writer closed is end of stream;
    - a header whose body is not there is the fatal `n <= 0` of the body loop.
    On either error, `DropOnRead` includes the loop's `peer_count--`.
    - an `X` header is `ReadBadHeader`: read consumed two bytes and returns
      -1 at line 179. The slot stays active, and the loop still does
      `peer_count--`.
  - `Quit` is `/quit` followed by the cleanup.
- **The mesh above the transport.** It is reduced to "relay a message on first
  sight to every slot but its source". That is enough to keep several
  fan-outs in flight.
- **Abstractions.**
  - Bytes are counted as whole segments. A 2-byte write to a Unix stream is
    never split, so the short-header and oversize paths (`transport_unix.c`
    176, 179) need a foreign peer. The oversize path is modelled by `X`. A
    lone header byte returns -1 in the same way and is not modelled
    separately.
  - `FramingInSync` covers only streams a node writes, and `DeliveredOrDropped`
    only streams a node reads.
  - A socket buffer holds `BufCap` segments.
  - Within an iteration, slots may be read in any order.

**How `KeyStore` corresponds to the code.**
- **State.**
  - `pc` is where the process is: down, in `vex_mesh_init` before one of its
    calls, or running.
  - `sign` and `box` are the node's keypairs. `Zero` stands for the bytes
    `memset` leaves.
  - `idFile` and `ephFile` are the files. Each is absent, or has a length (0
    after `fopen("wb")`, whole after `fclose`), the keypair it holds, and a
    mode: the umask's mode when created, 0600 after `chmod`.
- **Actions.**
  - `Start` is `main` entering `vex_mesh_init`.
  - `LoadKeys` is `vex_crypto_load_keys`, in one step because it only reads:
    - a short or missing `identity.key` means generate;
    - otherwise the identity is loaded, and the box keypair is read from a
      whole `ephemeral.key` or regenerated in memory.
  - `Generate` is `vex_crypto_init`.
  - `OpenId`, `CloseId`, `ChmodId`, then `OpenEph`, `CloseEph`, `ChmodEph`,
    are the calls of `vex_crypto_save_keys` that change the disk, one step
    each.
  - `Stop` is the loop ending.
  - `Crash` kills the process at any point, at most `MaxCrashes` times.
- **Abstractions.**
  - `fopen` always succeeds.
  - The return of `save_keys`, which `vex_mesh_init` ignores, plays no part.
  - A keypair is a model value, drawn fresh.

**How `Codec` and `MessagePath` correspond to the code.**
- `Encode`, `Decode`, `LengthPrefix`/`PrefixLength`, `Encrypt` and `Decrypt`
  follow the C byte for byte, with the real offsets, limits and failure
  returns, including `(uint16_t)(len - 11)`.
- XSalsa20-Poly1305 is replaced by a keyed stand-in. `tweetnacl.c` is not part
  of the sources, so this is marked spec-modelled. The stand-in keeps exactly
  what spec.md 4.C and law 8 ask of the box:
  - opening returns what was sealed;
  - changing any one nonce, tag or ciphertext byte makes the tag check fail.
- `Type(n, b, w)` is the user typing a line of n bytes b followed by the word
  w (nothing, or a command string), and pressing Enter.
- `Intake` is one iteration of the loop's stdin branch (main.c 203-233):
  - `FgetsLen`: `fgets` takes up to the newline, at most 511 bytes.
  - `InputLine`: `strlen` stops at the first NUL, and a trailing newline is
    stripped.
  - The piece is routed: empty, `/quit` or `/q`, `/peers` or `/stats`, or
    `MeshSend`.
  - `MeshSend` is the whole of `vex_mesh_send`: the 401-byte check, encrypt,
    ID, encode, prefix.
  - `taken` records how much of the line `fgets` has consumed. A line longer
    than 511 bytes takes several iterations, as in the code.
- `Tamper` is an injecting peer (spec.md S5) that flips one byte of the
  packet.
- `Receive` is the read, `vex_mesh_receive` and `vex_mesh_relay`.
- `Again` is the loop coming round: the next piece of the same line, or the
  next line.

**Fairness.**
- **Mesh.** Each `Receive(n, c)` is weakly fair. `poll` returns at least once
  a second, and the loop reads every active slot on every iteration
  (main.c 245-257).
- **Transport.**
  - `Read(n, i)` and `Accept(n)` are weakly fair, for the same reason.
  - `WriteHeader` and `WriteBody` are weakly fair: a `send_to_all`, once
    begun, runs to its end inside one handler.
  - Starting a process, typing and `/quit` are not fair.
- **KeyStore** assumes no fairness. Its properties are safety properties, and
  starting, stopping and kills are up to the user and the environment.
- **Clock steps** are not fair. They are something that may happen, not
  something the code causes.

**Deadlock checking.** Mesh and Transport runs set `CHECK_DEADLOCK FALSE`.
Once the bounded inputs are used up and every stream is drained, each process
simply waits in `poll`. MessagePath also sets it: `/quit` ends the process,
which is a real final state. Every other state of MessagePath has a
successor.

## 3. Runs

| Run | Config | Checks | Result |
|---|---|---|---|
| `seen_cache_refinement` | `MCSeenCache.cfg`: 3 IDs, 2 entries, TTL 1 s, clock 0..3 | `TypeOK`, `NoDuplicateLive`, `ImplementsDedupWindow` (`DW!Spec` via `INSTANCE DedupWindow WITH memo <- Memo`) | pass |
| `mesh_window` | `MCMesh.cfg`: triangle, 2 packets from A, TTL 3, window 0 s, clock 0..1, the wall clock set back 1 s, cache of 2, ID symmetry | `TypeOK`, `RedisplayOnlyAfterWindow`, `NoEchoWithinWindow` | pass |
| `mesh_coverage` | `MCMeshCoverage.cfg`: triangle plus tail C-D, TTL 3 = longest simple path, 2 packets from A or D | `Coverage` (leads-to) | pass |
| `mesh_coverage_diameter` | `MCMeshDiamond.cfg`: triangle plus D-B, TTL 2 ≥ every hop distance | `Coverage` | violation: D is missed when B's first copy comes A-C-B |
| `key_store` | `MCKeyStore.cfg`: one key directory from the first start, 4 keypairs, 2 kills, restarts without bound | `RunsWithRealKeys`, `IdentityStable` (temporal) | pass (698 states) |
| `transport_streams` | `MCTransport.cfg`: ring of 3, 2 slots each, 2 messages, buffers of 3 segments | `TypeOK`, `FramingInSync`, `DeliveredPrefix`, `DeliveredOrDropped` | pass (92k states) |
| `transport_full_table` | `MCTransportFull.cfg`: A dials B twice, and foreign F dials B and writes a bad length header; 2 slots, 1 message | `DeliveredOrDropped` | pass (14k states): a full table closes the extra session, the bad header leaves F's slot active, and frames still end read or dropped |
| `transport_peer_count` | `MCTransportPeerCount.cfg` | `PeerCountAccurate` | violation: a failed write leaves `peer_count` one too high |
| `transport_two_write_race` | `MCTransportRace.cfg` | `NoSpuriousDisconnect` | violation: a read between header and body drops a live peer |
| `transport_sigpipe` | `MCTransportSigpipe.cfg` | `NoSigpipeDeath` | violation: a broadcast after a neighbour's `/quit` kills the sender |
| `message_path` | `MCMessagePath.cfg`: lines of 0..520 fill bytes and of 600, plain or ending in `/quit` or `/stats`, NUL or printable fill, `--ttl` 1, 2, 256, eight tamper offsets | `TypeOK`, `DeliversWhatWasTyped`, `NoForgedOutput`, `RelayLowersTtl` | pass (72k states) |
| `console_lines` | `MCMessagePathLines.cfg`: one line of 600 bytes | `LineRoutedWhole` | violation: `fgets` takes the line in two pieces, and the 89-byte tail is broadcast on its own |

**Why these bounds are enough.**
- **Seen cache.** Three IDs against two entries reach every path of `add`:
  first use, reuse of an expired slot, eviction, and ties on the oldest
  timestamp.
- **Mesh.**
  - The triangle is the smallest cycle.
  - Two packets make the high-water scan matter.
  - A 0 s window with one tick lets entries expire while copies are in flight.
  - A step of one second back moves the wall clock across a window of 0 s.
- **Transport.**
  - Three processes give every process both a dialled and an accepted session,
    and let fan-outs from two processes overlap.
  - A buffer of 3 segments fills when a second frame follows an unread first
    one.
  - Two messages give a link two frames, so ordering and prefix matter.
  - The full-table instance is the smallest that overfills one slot table:
    B has three sessions (two from A, one from F) for two slots. Depending on
    the order of accepts, F's session is the one closed, or it holds a slot
    and its bad header is read.
  - On this instance, checking `PeerCountAccurate` fails in five steps: B
    starts, F dials, B accepts, F writes the bad header, and B reads it.
    This is the read-side path to the drift that `transport_peer_count`
    shows from the write side.
- **KeyStore.** Two kills can fall at any pair of the nine points of init.
  That covers a kill during the first save followed by a kill during the
  second. Four keypairs are enough for two generations with fresh keys.
  Restarts are unbounded, since they draw no new keys.
- **MessagePath.** Every line length up to 520 is enumerated, not sampled.
  This hits the budget boundaries (401, 461, 501) and the `fgets` boundary
  (511).
  - A 600-byte line needs two pieces.
  - A 511-byte line followed by a command gives a piece that is exactly that
    command.
  - A NUL fill makes `strlen` cut the line to nothing.
  - `--ttl 256` gives TTL 0 through the `uint8_t` cast.
  - The tamper offsets hit version, ID, TTL, flags, nonce, tag and ciphertext.
  - Nonce and ID values steer no branch, so one of each is enough.

Every property of a passing run has a mutant in `PROJECT.json`, and TLC finds
that property violated under the mutant. The Transport, MessagePath and
KeyStore mutants are:
- a read error that keeps the slot (the code's own path at line 176);
- a failed write that leaves the header flag set;
- end of stream taken as the end of a body;
- a short body that keeps the slot;
- accept without the free-slot test;
- `--ttl` without the `uint8_t` cast;
- a plaintext length 16 bytes short;
- decrypt without the tag check;
- a relay without the TTL test;
- `load_keys` that checks only that `fopen` succeeded, not what `fread`
  returned;
- `load_keys` that regenerates both keypairs when `ephemeral.key` is missing.

## 4. Findings

See `PROJECT.json` "findings". In short:
- **Coverage needs TTL ≥ longest simple path, not diameter** (spec.md 4.E). A
  node relays only its first copy.
- **`peer_count` drifts** from the active slots after any failed write. This
  goes against the one canonical counter that spec.md 9 requires.
- **The two-write race.** A reader that runs between the two writes drops a
  live peer. spec.md 9 requires per-peer buffering.
- **SIGPIPE kills a node.** Writing to a peer that has quit, or whose accept
  found a full table, kills the writer: no `SIG_IGN`, no `MSG_NOSIGNAL`.
- **Long lines are handled in pieces.** `fgets` splits a line of more than
  511 bytes. In `console_lines` the 600-byte line's first 511 bytes are
  refused, and its 89-byte tail is broadcast as a message nobody typed.

**Observed, not run.** Each of these was checked with TLC by adding the
property or setting named below to a copy of the runs' configuration.
- **Send refuses lines of 402 to 461 bytes** that spec.md 4.C's budget
  (`MAX_PAYLOAD - 40`) admits and `encrypt` accepts: `vex_mesh_send` stops at
  `MAX_PAYLOAD - 100` (mesh.c:52). On `MCMessagePathLines.cfg` with one line
  of 430 bytes, the invariant
  `stage = "rejected" => Len(line) > VEX_MAX_PAYLOAD - (NONCEBYTES + BOXZEROBYTES)`
  fails at depth 3.
- **The tail of a long line is obeyed as a command.** On
  `MCMessagePathLines.cfg` with a 511-byte line followed by `/quit`,
  `LineRoutedWhole` fails at depth 5: the first piece is refused, and the
  second, exactly `/quit`, ends the node.
- **A wall-clock step breaks the dedup window.** Set the clock 2 s ahead
  (`ClockSteps` = {2}) on the triangle, with one packet, a cache of 1, a
  window of 1 s and `MaxTime` 2. `RedisplayOnlyAfterWindow` then fails: the
  step expires B's entry while a copy is still in flight, and B prints the
  packet a second time in the same real second. spec.md 8.4 says the window
  lasts `SEEN_TTL_SEC`. `time(NULL)` is the settable wall clock. `mesh_window`
  checks that a clock set back does no harm.
- **The secret key is world-readable before `chmod`.** On `MCKeyStore.cfg`,
  the invariant "a non-empty key file has mode 0600" fails in five steps on
  the first start: `fopen` creates `identity.key` with the umask's mode, and
  `fclose` writes the secret before `chmod` runs. A kill between `fclose` and
  `chmod` makes this permanent, because `load_keys` never checks the mode.
  spec.md 6 says the files have mode 0600.
- **The box keypair is not stable.** `IdentityStable`, stated of `box`, fails
  in twelve steps. A kill after the identity is saved leaves no
  `ephemeral.key`. Every later start then regenerates the box keypair in
  memory and never saves it.
- **Scenarios S2 and S3 have the wrong drop counts.** Their counts do not
  match source exclusion. In the S3 triangle, the drops end (0,1,1) or (1,0,1),
  never (1,1,1).
- **S5 counts the wrong counter.** A tampered frame is counted as received,
  not dropped. Nothing is printed, which `NoForgedOutput` checks.
- **Eviction can break the window.** When the cache is full, it evicts a live
  entry, so a copy still in flight is shown twice. This needs more than 1000
  packets in 60 s. `ImplementsDedupWindow` checks that eviction happens only in
  that case.

## 5. Not modelled, and plan

Not modelled, because TLC cannot reach it or it is outside the model:
- **Hashing.** The SHA-512 of `make_id` and of the mesh-key derivation. The
  mesh key is the hash of a constant, the same for every node.
- **Key directories shared by several processes.** Nodes started from one
  account share `$HOME/.vexconnect`. Started one after another, as in
  `main.c`'s usage example, they all load the same identity and get the same
  node name. Started together, they overwrite each other's files. KeyStore
  has one process per directory.
- **A failing `fopen`** in `save_keys`. `vex_mesh_init` ignores the error, and
  the node runs with keys that are lost at its next start.
- **XSalsa20-Poly1305 itself.** It is replaced as described above.
- **Output only.** `vex_log`, `vex_hex`, `vex_time_ms`, what `/peers`,
  `/stats` and the stats timer print, and getopt.
- **The signal handler.** It writes a non-`sig_atomic_t` int and calls
  `printf`, which is C undefined behaviour.
- **The `randombytes` fallback** when `/dev/urandom` cannot be opened. It
  draws equal bytes within a second, hence equal IDs and nonces.

Further work:
1. **An injecting node in Mesh.** A peer that sends a frame carrying a
   genuine packet's ID ahead of the genuine copy makes every node drop the
   genuine one. The ID is outside the authenticated box.
2. **Mesh over Transport.** Floods over links that fail mid-fan-out, with
   `Coverage` weakened to the links that stay up.
3. **Larger instances** of Transport: four processes, and three messages for
   the full-table case.
