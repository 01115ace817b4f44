---------------------------- MODULE SeenCacheSpec ----------------------------
(***************************************************************************)
(* One node's seen cache driven the way the node drives it:                *)
(*   Observe(id)   vex_mesh_receive: vex_seen_check, then vex_seen_add     *)
(*                 when the ID is new (mesh.c 115-124);                    *)
(*   Originate(id) vex_mesh_send: vex_seen_add of a fresh random ID        *)
(*                 (mesh.c 71-75);                                         *)
(*   Prune         the periodic vex_seen_prune of the event loop;          *)
(*   Tick          the wall clock read by time(NULL) advancing a second.   *)
(* It is shown to implement DedupWindow.                                   *)
(***************************************************************************)
EXTENDS SeenCache

CONSTANT MaxTime     \* the last second the model reaches

VARIABLES
    cache,      \* the vex_seen_cache_t
    now,        \* time(NULL)
    verdict,    \* the value the last vex_seen_check returned
    used        \* IDs already drawn or received (make_id never repeats one)

vars == <<cache, now, verdict, used>>

TypeOK ==
    /\ cache \in [entries : [Index -> Entry], count : 0 .. Capacity]
    /\ \A i \in Index : cache.entries[i].ts \in 0 .. MaxTime
    /\ now \in 0 .. MaxTime
    /\ verdict \in BOOLEAN
    /\ used \subseteq Ids

Init ==
    /\ cache = EmptyCache
    /\ now = 0
    /\ verdict = FALSE
    /\ used = {}

Observe(id) ==
    LET r == SeenCheck(cache, id, now)
    IN  /\ verdict' = r.seen
        /\ cache' = IF r.seen THEN r.cache ELSE SeenAdd(r.cache, id, now)
        /\ used' = used \cup {id}
        /\ UNCHANGED now

Originate(id) ==
    /\ id \notin used
    /\ cache' = SeenAdd(cache, id, now)
    /\ used' = used \cup {id}
    /\ UNCHANGED <<now, verdict>>

Prune ==
    /\ cache' = SeenPrune(cache, now)
    /\ UNCHANGED <<now, verdict, used>>

Tick ==
    /\ now < MaxTime
    /\ now' = now + 1
    /\ UNCHANGED <<cache, verdict, used>>

Next ==
    \/ \E id \in Ids : Observe(id) \/ Originate(id)
    \/ Prune
    \/ Tick

Spec == Init /\ [][Next]_vars

-----------------------------------------------------------------------------
(* Properties *)

(* No two entries the cache would report hold the same ID.  The receive    *)
(* path only adds an ID after vex_seen_check has scanned 0..count-1 and    *)
(* found it absent; if the scan bound and the placement of vex_seen_add    *)
(* ever disagreed, a second live copy would take a slot and the capacity   *)
(* accounting of the cache (and the refinement below) would be off.        *)
NoDuplicateLive ==
    \A i, j \in LiveIndices(cache, now) :
        cache.entries[i].id = cache.entries[j].id => i = j

(* The refinement mapping: the abstract memo is the set of IDs in live     *)
(* entries, each with its timestamp.                                       *)
Memo ==
    LET ids == {cache.entries[i].id : i \in LiveIndices(cache, now)}
    IN  [k \in ids |->
            cache.entries[CHOOSE i \in LiveIndices(cache, now) : cache.entries[i].id = k].ts]

DW == INSTANCE DedupWindow WITH memo <- Memo

(* vex_seen_check/add/prune over the array, with lazy expiry, the high-    *)
(* water count and oldest-first eviction, behave as the DedupWindow:       *)
(* check answers "seen" exactly for IDs added less than SeenTTL seconds    *)
(* ago that were not evicted, and only the oldest ID is evicted, only when *)
(* all Capacity entries are live.                                          *)
ImplementsDedupWindow == DW!Spec

=============================================================================
