---------------------------- MODULE MCTransport ----------------------------
(* Instances of Transport for TLC: three processes dialling each other in *)
(* a ring, each with one --peer.                                          *)
EXTENDS Transport, TLC

CONSTANTS A, B, C, F, ab, bc, ca, ab2, fb

(* A --peer B, B --peer C, C --peer A. *)
RingEnds == (ab :> <<A, B>>) @@ (bc :> <<B, C>>) @@ (ca :> <<C, A>>)
RingDials == (A :> <<ab>>) @@ (B :> <<bc>>) @@ (C :> <<ca>>)
(* A --peer B --peer B, and F, a foreign process with --peer B: B has     *)
(* three sessions for two slots, so an accept finds the table full, and   *)
(* F writes a bad length header into whichever session it holds.         *)
FullEnds == (ab :> <<A, B>>) @@ (ab2 :> <<A, B>>) @@ (fb :> <<F, B>>)
FullDials == (A :> <<ab, ab2>>) @@ (B :> <<>>) @@ (F :> <<fb>>)
====
