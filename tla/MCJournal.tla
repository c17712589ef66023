----------------------------- MODULE MCJournal -----------------------------
(* Journal on a small instance. *)
EXTENDS Journal
=============================================================================
