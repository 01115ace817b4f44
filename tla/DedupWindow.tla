----------------------------- MODULE DedupWindow -----------------------------
(***************************************************************************)
(* What the seen cache promises the mesh engine (spec.md 4.B, 8.4-8.5),    *)
(* without arrays, scans or a high-water mark: a partial function `memo`   *)
(* from every remembered packet ID to the second it was added.             *)
(*   - an ID is reported seen exactly when it is in memo;                  *)
(*   - an ID leaves memo when more than SeenTTL seconds have passed since  *)
(*     it was added, or when it is the oldest one and a new ID arrives     *)
(*     while Capacity IDs are remembered.                                  *)
(* Observe is the receive path (check, then add if new); Originate is the  *)
(* send path (add a freshly drawn ID).                                     *)
(***************************************************************************)
EXTENDS Naturals, FiniteSets, TLC

CONSTANTS Ids, Capacity, SeenTTL, MaxTime

VARIABLES memo, now, verdict, used

vars == <<memo, now, verdict, used>>

\* The IDs of m added at the earliest second.
Oldest(m) == {k \in DOMAIN m : \A j \in DOMAIN m : m[k] <= m[j]}

Without(m, k) == [j \in DOMAIN m \ {k} |-> m[j]]

\* The possible memos after remembering id at second t.
Insert(m, id, t) ==
    IF Cardinality(DOMAIN m) < Capacity
    THEN {(id :> t) @@ m}
    ELSE {(id :> t) @@ Without(m, k) : k \in Oldest(m)}

Init ==
    /\ memo = [k \in {} |-> 0]
    /\ now = 0
    /\ verdict = FALSE
    /\ used = {}

Observe(id) ==
    /\ verdict' = (id \in DOMAIN memo)
    /\ IF id \in DOMAIN memo THEN memo' = memo ELSE memo' \in Insert(memo, id, now)
    /\ used' = used \cup {id}
    /\ UNCHANGED now

Originate(id) ==
    /\ id \notin used
    /\ memo' \in Insert(memo, id, now)
    /\ used' = used \cup {id}
    /\ UNCHANGED <<now, verdict>>

Tick ==
    /\ now < MaxTime
    /\ now' = now + 1
    /\ memo' = [k \in {j \in DOMAIN memo : now' - memo[j] <= SeenTTL} |-> memo[k]]
    /\ UNCHANGED <<verdict, used>>

Next ==
    \/ \E id \in Ids : Observe(id) \/ Originate(id)
    \/ Tick

Spec == Init /\ [][Next]_vars

=============================================================================
