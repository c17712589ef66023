----------------------------- MODULE MCNetmapIO -----------------------------
(* NetmapIO on small instances. *)
EXTENDS NetmapIO, TLC

Symmetry == Permutations(Peers) \cup Permutations(Senders)
=============================================================================
