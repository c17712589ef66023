----------------------------- MODULE MCNsClient -----------------------------
(* NsClient on a small instance. *)
EXTENDS NsClient
=============================================================================
