----------------------------- MODULE MCIscSocket -----------------------------
(* IscSocket on small instances. *)
EXTENDS IscSocket, TLC

CONSTANTS s1, s2

\* One socket is read, accepts or connects and has its requests canceled, the
\* other one connects and is written to; both are shared, closed and opened again.
PlainOps ==
    (s1 :> {"create", "reopen", "attach", "recv", "accept", "connect", "cancel"})
    @@ (s2 :> {"create", "reopen", "attach", "connect", "send"})

\* Reading and writing at the same time, as a TCP connection does.
DuplexOps == [s \in Sockets |-> {"create", "recv", "send"}]

=============================================================================
