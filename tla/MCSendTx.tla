------------------------------ MODULE MCSendTx ------------------------------
(***************************************************************************)
(* Two requests, with and without a nonce, two attempts each.              *)
(***************************************************************************)
EXTENDS SendTx

CONSTANTS s1, s2
=============================================================================
