----------------------------- MODULE MCWsClient -----------------------------
(* Instances of WsClient for TLC.                                           *)
EXTENDS WsClient

Reliable  == {}
FirstMayBreak == {1}
=============================================================================
