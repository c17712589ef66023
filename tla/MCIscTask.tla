------------------------------ MODULE MCIscTask ------------------------------
(* IscTask on small instances: the sets of operations each run offers. *)
EXTENDS IscTask, TLC

\* Sending, references, shutdown and taking events back, pausing and the
\* manager's own reference: the life of a task.
LifeOps == {"create", "attach", "detach", "send", "sendanddetach", "shutdown",
            "onshutdown", "purge", "purgeevent", "unsend", "excltask", "pause",
            "destroy"}

\* Exclusive access and the privileged mode, with tasks that come and go while
\* the manager is torn down.
LiveOps == {"create", "detach", "send", "sendanddetach", "onshutdown", "exclusive",
            "setmode", "setprivilege", "destroy"}

\* With NoPurge = {e1} the events are not interchangeable.
Symmetry == Permutations(Workers) \cup Permutations(Clients) \cup Permutations(Tasks)
=============================================================================
