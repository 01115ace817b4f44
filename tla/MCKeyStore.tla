---------------------------- MODULE MCKeyStore ----------------------------
(* KeyStore for TLC: the keypairs are model values.                       *)
EXTENDS KeyStore
====
