------------------------------ MODULE SeenCache ------------------------------
(***************************************************************************)
(* The packet-ID dedup cache of src/src/seen.c, as operators on a cache    *)
(* value.  A cache is a fixed array of Capacity entries (index 0 ..       *)
(* Capacity-1) plus the high-water mark `count` that bounds the scans of   *)
(* vex_seen_check and vex_seen_prune.  Each operation takes the wall-clock *)
(* second `now` that the C function reads with time(NULL).  The module has *)
(* no variables: SeenCacheSpec and Mesh hold caches in their own state.    *)
(***************************************************************************)
EXTENDS Naturals, FiniteSets, FiniteSetsExt

CONSTANTS
    Ids,        \* packet IDs the model uses (8 random bytes in the code)
    NoId,       \* the all-zero ID that memset leaves in an unused entry
    Capacity,   \* VEX_SEEN_CAPACITY
    SeenTTL     \* VEX_SEEN_TTL_SEC

ASSUME NoId \notin Ids
ASSUME Capacity \in Nat \ {0} /\ SeenTTL \in Nat

Index == 0 .. Capacity - 1

Entry == [id : Ids \cup {NoId}, ts : Nat, active : BOOLEAN]

\* vex_seen_init: memset to zero, count = 0.
EmptyCache ==
    [entries |-> [i \in Index |-> [id |-> NoId, ts |-> 0, active |-> FALSE]],
     count   |-> 0]

\* The expiry test shared by check, add and prune: now - timestamp > TTL.
Expired(e, now) == now - e.ts > SeenTTL

\* An entry that check would report: active and not expired.
Live(e, now) == e.active /\ ~Expired(e, now)

\* The set of IDs the cache currently reports as seen, and the entries
\* holding them.
LiveIndices(c, now) == {i \in Index : Live(c.entries[i], now)}

\* Deactivate every active, expired entry whose index is in S.
DeactivateExpired(c, now, S) ==
    [c EXCEPT !.entries =
        [i \in Index |-> IF i \in S /\ Expired(c.entries[i], now)
                            THEN [c.entries[i] EXCEPT !.active = FALSE]
                            ELSE c.entries[i]]]

(***************************************************************************)
(* vex_seen_check: scan indices 0 .. count-1; skip inactive entries,       *)
(* deactivate expired ones on the way, and return 1 at the first live      *)
(* entry with the ID.  The scan stops at that hit, so only the expired     *)
(* entries before it are deactivated.  Returns [cache, seen].              *)
(***************************************************************************)
SeenCheckScanShort(c, id, now) ==
    LET hits == {i \in 0 .. c.count - 2 :
                    Live(c.entries[i], now) /\ c.entries[i].id = id}
        stop == IF hits = {} THEN c.count ELSE Min(hits)
    IN  [cache |-> DeactivateExpired(c, now, 0 .. stop - 1), seen |-> hits # {}]

SeenCheck(c, id, now) ==
    LET hits == {i \in 0 .. c.count - 1 :
                    Live(c.entries[i], now) /\ c.entries[i].id = id}
        stop == IF hits = {} THEN c.count ELSE Min(hits)
    IN  [cache |-> DeactivateExpired(c, now, 0 .. stop - 1), seen |-> hits # {}]

(***************************************************************************)
(* vex_seen_add: the first entry (over the whole array, not just count)    *)
(* that is inactive or expired is overwritten, and count grows to cover    *)
(* it.  When every entry is live, the entry with the smallest timestamp    *)
(* (lowest index on ties, the scan uses a strict <) is overwritten and     *)
(* count is left alone.                                                    *)
(***************************************************************************)
Overwrite(c, i, id, now) ==
    [c EXCEPT !.entries[i] = [id |-> id, ts |-> now, active |-> TRUE]]

FreeIndices(c, now) == {i \in Index : ~c.entries[i].active \/ Expired(c.entries[i], now)}

OldestIndex(c) ==
    LET oldest == Min({c.entries[i].ts : i \in Index})
    IN  Min({i \in Index : c.entries[i].ts = oldest})

SeenAddEvictNewest(c, id, now) ==
    IF FreeIndices(c, now) # {}
    THEN LET i == Min(FreeIndices(c, now))
         IN  [Overwrite(c, i, id, now) EXCEPT !.count = IF i >= c.count THEN i + 1 ELSE @]
    ELSE Overwrite(c, CHOOSE i \in Index :
                        \A j \in Index : c.entries[j].ts <= c.entries[i].ts, id, now)

SeenAddCountAlways(c, id, now) ==
    IF FreeIndices(c, now) # {}
    THEN [Overwrite(c, Min(FreeIndices(c, now)), id, now) EXCEPT !.count = @ + 1]
    ELSE Overwrite(c, OldestIndex(c), id, now)

SeenAdd(c, id, now) ==
    IF FreeIndices(c, now) # {}
    THEN LET i == Min(FreeIndices(c, now))
         IN  [Overwrite(c, i, id, now) EXCEPT !.count = IF i >= c.count THEN i + 1 ELSE @]
    ELSE Overwrite(c, OldestIndex(c), id, now)

\* vex_seen_prune: deactivate every expired entry below count.
SeenPrune(c, now) == DeactivateExpired(c, now, 0 .. c.count - 1)

=============================================================================
