------------------------------ MODULE KeyStore ------------------------------
(***************************************************************************)
(* The key files of one node: vex_mesh_init's "load or generate and save"  *)
(* (mesh.c 10-31) over $HOME/.vexconnect/identity.key and ephemeral.key    *)
(* (crypto.c 21-103), with the process killed at any point and started     *)
(* again.                                                                  *)
(*                                                                         *)
(* A file is absent or [len, key, mode]: the bytes it holds (0 after       *)
(* fopen "wb" truncated it, whole after fclose flushed the stdio buffer),  *)
(* whose keypair they are, and whether chmod has made it 0600 yet.  A new  *)
(* file is created with the umask's mode.  save_keys is one step per       *)
(* library call that changes the disk; load_keys only reads, so it is one  *)
(* step.  The return of save_keys is ignored by vex_mesh_init, and fopen   *)
(* is taken to succeed.                                                    *)
(***************************************************************************)
EXTENDS Naturals

CONSTANTS
    Keys,       \* keypairs crypto_sign_keypair / crypto_box_keypair may draw
    Zero,       \* the all-zero bytes memset leaves in the node
    MaxCrashes  \* bound on the kills

ASSUME Zero \notin Keys /\ MaxCrashes \in Nat

VARIABLES
    pc,         \* where the process is: "down", then the steps of init, "run"
    sign,       \* node->sign_pk/sign_sk
    box,        \* node->box_pk/box_sk
    idFile,     \* identity.key
    ephFile,    \* ephemeral.key
    crashes     \* kills so far

vars == <<pc, sign, box, idFile, ephFile, crashes>>

ID_LEN == 96    \* 32-byte public + 64-byte secret signing key
EPH_LEN == 64   \* 32-byte public + 32-byte secret box key
Absent == [len |-> 0, key |-> Zero, mode |-> "absent"]
Whole(f, n) == f.mode # "absent" /\ f.len = n

Steps == {"down", "load", "gen", "fopenId", "fcloseId", "chmodId", "fopenEph",
          "fcloseEph", "chmodEph", "run"}
File == [len : {0, ID_LEN, EPH_LEN}, key : Keys \cup {Zero},
         mode : {"absent", "umask", "0600"}]

TypeOK ==
    /\ pc \in Steps
    /\ sign \in Keys \cup {Zero} /\ box \in Keys \cup {Zero}
    /\ idFile \in File /\ ephFile \in File
    /\ crashes \in 0 .. MaxCrashes

(* No key directory yet: the first start of a node.                       *)
Init ==
    /\ pc = "down" /\ sign = Zero /\ box = Zero
    /\ idFile = Absent /\ ephFile = Absent
    /\ crashes = 0

(* A key no file and no variable holds: what a fresh keypair draws.        *)
Fresh == Keys \ {sign, box, idFile.key, ephFile.key}

(* main runs vex_mesh_init, whose memset clears the key material.          *)
Start ==
    /\ pc = "down"
    /\ pc' = "load" /\ sign' = Zero /\ box' = Zero
    /\ UNCHANGED <<idFile, ephFile, crashes>>

(* Mutant: load_keys tests only that fopen succeeded, not what fread     *)
(* returned, so a truncated identity.key loads as the memset zeros.       *)
LoadKeysNoLengthCheck ==
    /\ pc = "load"
    /\ IF idFile.mode # "absent"
       THEN /\ pc' = "run" /\ sign' = idFile.key
            /\ IF Whole(ephFile, EPH_LEN)
               THEN box' = ephFile.key
               ELSE \E k \in Fresh : box' = k
       ELSE /\ pc' = "gen" /\ UNCHANGED <<sign, box>>
    /\ UNCHANGED <<idFile, ephFile, crashes>>

(* Mutant: a missing ephemeral.key regenerates both keypairs, as if      *)
(* vex_crypto_init were called for it.                                    *)
LoadKeysRegenerateAll ==
    /\ pc = "load"
    /\ IF Whole(idFile, ID_LEN)
       THEN /\ pc' = "run"
            /\ IF Whole(ephFile, EPH_LEN)
               THEN sign' = idFile.key /\ box' = ephFile.key
               ELSE \E sk, bk \in Fresh : sk # bk /\ sign' = sk /\ box' = bk
       ELSE /\ pc' = "gen" /\ UNCHANGED <<sign, box>>
    /\ UNCHANGED <<idFile, ephFile, crashes>>

(* vex_crypto_load_keys: no whole identity.key means -1 (generate); else   *)
(* the identity is read, and the box keypair is read from a whole         *)
(* ephemeral.key or regenerated in memory only.                           *)
LoadKeys ==
    /\ pc = "load"
    /\ IF Whole(idFile, ID_LEN)
       THEN /\ pc' = "run" /\ sign' = idFile.key
            /\ IF Whole(ephFile, EPH_LEN)
               THEN box' = ephFile.key
               ELSE \E k \in Fresh : box' = k
       ELSE /\ pc' = "gen" /\ UNCHANGED <<sign, box>>
    /\ UNCHANGED <<idFile, ephFile, crashes>>

(* vex_crypto_init: a fresh signing and a fresh box keypair.              *)
Generate ==
    /\ pc = "gen"
    /\ \E s, b \in Fresh : s # b /\ sign' = s /\ box' = b
    /\ pc' = "fopenId"
    /\ UNCHANGED <<idFile, ephFile, crashes>>

(* fopen(path, "wb"): the file is created with the umask's mode or keeps   *)
(* its own, and is truncated.                                             *)
Truncate(f) == [len |-> 0, key |-> Zero,
                mode |-> IF f.mode = "absent" THEN "umask" ELSE f.mode]

(* save_keys, identity.key: mkdir and fopen "wb"; fwrite, fwrite and       *)
(* fclose, which flushes the 96 bytes; chmod 0600.                        *)
OpenId ==
    /\ pc = "fopenId"
    /\ idFile' = Truncate(idFile) /\ pc' = "fcloseId"
    /\ UNCHANGED <<sign, box, ephFile, crashes>>
CloseId ==
    /\ pc = "fcloseId"
    /\ idFile' = [idFile EXCEPT !.len = ID_LEN, !.key = sign] /\ pc' = "chmodId"
    /\ UNCHANGED <<sign, box, ephFile, crashes>>
ChmodId ==
    /\ pc = "chmodId"
    /\ idFile' = [idFile EXCEPT !.mode = "0600"] /\ pc' = "fopenEph"
    /\ UNCHANGED <<sign, box, ephFile, crashes>>

(* save_keys, ephemeral.key: the same calls with the 64 box-key bytes;     *)
(* then vex_mesh_init names the node and returns.                         *)
OpenEph ==
    /\ pc = "fopenEph"
    /\ ephFile' = Truncate(ephFile) /\ pc' = "fcloseEph"
    /\ UNCHANGED <<sign, box, idFile, crashes>>
CloseEph ==
    /\ pc = "fcloseEph"
    /\ ephFile' = [ephFile EXCEPT !.len = EPH_LEN, !.key = box] /\ pc' = "chmodEph"
    /\ UNCHANGED <<sign, box, idFile, crashes>>
ChmodEph ==
    /\ pc = "chmodEph"
    /\ ephFile' = [ephFile EXCEPT !.mode = "0600"] /\ pc' = "run"
    /\ UNCHANGED <<sign, box, idFile, crashes>>

(* /quit or a signal: the node's loop ends, and it may be started again.   *)
Stop ==
    /\ pc = "run" /\ pc' = "down"
    /\ UNCHANGED <<sign, box, idFile, ephFile, crashes>>

(* The process is killed at any point of init or of its loop; what the     *)
(* kernel has of the files stays.                                         *)
Crash ==
    /\ pc # "down" /\ crashes < MaxCrashes
    /\ pc' = "down" /\ crashes' = crashes + 1
    /\ UNCHANGED <<sign, box, idFile, ephFile>>

Next ==
    \/ Start \/ LoadKeys \/ Generate
    \/ OpenId \/ CloseId \/ ChmodId \/ OpenEph \/ CloseEph \/ ChmodEph
    \/ Stop \/ Crash

Spec == Init /\ [][Next]_vars

-----------------------------------------------------------------------------
(* A running node holds a real signing and box keypair, never the zeros    *)
(* memset left, whichever step of a save a kill interrupted before: a     *)
(* truncated identity.key is not taken for one.                          *)
RunsWithRealKeys == pc = "run" => sign \in Keys /\ box \in Keys

(* Once the node has run with an identity, every later run of it, after   *)
(* /quit or a kill at any point of vex_mesh_init, has the same identity:  *)
(* its node name vex-<sign_pk> and its signing key do not change.         *)
IdentityStable ==
    \A k \in Keys : [](pc = "run" /\ sign = k => [](pc = "run" => sign = k))
====
