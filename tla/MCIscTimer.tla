----------------------------- MODULE MCIscTimer -----------------------------
(* IscTimer on a small instance. *)
EXTENDS IscTimer, TLC

Set(type, expires, interval) == [type |-> type, expires |-> expires, interval |-> interval]

\* Each type; once timers with an end, with an idle time, and with both.
AllSettings == {Set("ticker", 0, 1), Set("limited", 3, 1), Set("once", 2, 0),
                Set("once", 0, 1), Set("once", 3, 1), Set("inactive", 0, 0)}

Symmetry == Permutations(Timers)
=============================================================================
