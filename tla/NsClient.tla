------------------------------ MODULE NsClient ------------------------------
(***************************************************************************)
(* The client objects of named (bin/named/client.c), the interfaces they   *)
(* listen on (bin/named/interfacemgr.c), the quotas they share             *)
(* (lib/isc/quota.c) and the recursion of a query (bin/named/query.c,      *)
(* query_recurse() and query_resume()).                                    *)
(*                                                                         *)
(* A client is changed by the events of its own task, one at a time; the   *)
(* handler of an event is one action.  Handlers of different clients meet  *)
(* in the interface, the manager's lists and the quotas, each under its    *)
(* own lock; where a handler uses another client after it has released the *)
(* lock through which it found it (ns_client_killoldestquery()) it is two  *)
(* actions.  The handlers call each other, so what they do is written as   *)
(* functions of the whole state.                                           *)
(*                                                                         *)
(* Messages are left out: a request is dropped, refused, answered, updates *)
(* a zone or recurses.  The socket, the resolver and the zone are external:*)
(* they answer what they are asked.                                        *)
(***************************************************************************)
EXTENDS Integers, FiniteSets, Sequences, SequencesExt, EventList

CONSTANTS
    Clients,      \* identities of ns_client_t; all used is "out of memory"
    Interfaces,   \* identities of ns_interface_t, each with its ns_clientmgr_t
    TcpMax,       \* tcp-clients
    RecMax,       \* recursive-clients
    RecSoft,      \* its soft limit, 0 for none
    None

ASSUME NsClientAssumption ==
    /\ IsFiniteSet(Clients) /\ None \notin Clients \cup Interfaces
    /\ {TcpMax, RecMax, RecSoft} \subseteq Nat

VARIABLES
    cl,     \* the clients
    ifp,    \* the interfaces
    mgr,    \* mgr[i]: the client manager of interface i
    used    \* used[q]: isc_quota_t, "tcp" or "rec"

vars == <<cl, ifp, mgr, used>>

FREED     == 0
INACTIVE  == 1
READY     == 2
READING   == 3
WORKING   == 4
RECURSING == 5
MAX       == 9

\* What a client may have outstanding: naccepts, nreads, ...
Works == {"ctl", "accept", "read", "recv", "send", "update"}

\* No object: never created, or freed.
NoClient == [state |-> FREED, newstate |-> MAX, task |-> "none", home |-> None,
             interface |-> None, tcp |-> FALSE, mortal |-> FALSE,
             n |-> [k \in Works |-> 0], canceled |-> {}, references |-> 0,
             fetch |-> "none", timerset |-> FALSE, tcpquota |-> FALSE,
             recursionquota |-> FALSE, victim |-> None]

World == [cl |-> cl, ifp |-> ifp, mgr |-> mgr, used |-> used]

\* A handler ends in world w.  (Quantifying over a single value makes TLC compute
\* it once.)
Becomes(w) ==
    \E v \in {w} : cl' = v.cl /\ ifp' = v.ifp /\ mgr' = v.mgr /\ used' = v.used

-----------------------------------------------------------------------------
(* Quotas *)

Limit(q) == IF q = "tcp" THEN [max |-> TcpMax, soft |-> 0] ELSE [max |-> RecMax, soft |-> RecSoft]

isc_quota_reserve(w, q) ==
    LET l == Limit(q)
    IN  IF l.max = 0 \/ w.used[q] < l.max
          THEN IF l.soft = 0 \/ w.used[q] < l.soft THEN "success" ELSE "softquota"
          ELSE "quota"

\* isc_quota_attach() when the reservation is not refused.
attach_tcp(w, c) == [w EXCEPT !.used["tcp"] = @ + 1, !.cl[c].tcpquota = TRUE]
attach_rec(w, c) == [w EXCEPT !.used["rec"] = @ + 1, !.cl[c].recursionquota = TRUE]

\* Mutant: the quota of a connection is not given back.
detach_tcp_keeps(w, c) == w

detach_tcp(w, c) == IF ~w.cl[c].tcpquota THEN w
                    ELSE [w EXCEPT !.used["tcp"] = @ - 1, !.cl[c].tcpquota = FALSE]
detach_rec(w, c) == IF ~w.cl[c].recursionquota THEN w
                    ELSE [w EXCEPT !.used["rec"] = @ - 1, !.cl[c].recursionquota = FALSE]

-----------------------------------------------------------------------------
(* I/O *)

Begin(w, c, k) == [w EXCEPT !.cl[c].n[k] = @ + 1]

\* The event of k has come.
Ended(w, c, k) == [w EXCEPT !.cl[c].n[k] = @ - 1, !.cl[c].canceled = @ \ {k}]

\* isc_socket_cancel(), dns_tcpmsg_cancelread()
Cancel(w, c, k) ==
    IF w.cl[c].n[k] = 0 THEN w ELSE [w EXCEPT !.cl[c].canceled = @ \cup {k}]

client_accept(w, c) ==
    [Begin(w, c, "accept") EXCEPT !.ifp[w.cl[c].interface].ntcpcurrent = @ + 1]

client_udprecv(w, c) == Begin(w, c, "recv")

Listen(w, c) == IF w.cl[c].tcp THEN client_accept(w, c) ELSE client_udprecv(w, c)

client_read(w, c) ==
    [Begin(w, c, "read") EXCEPT !.cl[c].state = READING, !.cl[c].newstate = READING,
                                !.cl[c].timerset = TRUE]

-----------------------------------------------------------------------------
(* exit_check(), from the most active state downwards *)

Exits(w, c) == w.cl[c].state > w.cl[c].newstate

ns_interface_detach(w, i) ==
    [w EXCEPT !.ifp[i].references = @ - 1,
              !.ifp[i].life = IF w.ifp[i].references = 1 THEN "destroyed" ELSE @]

\* INACTIVE to FREED.
FreeClient(w, c) ==
    LET i    == w.cl[c].home
        left == w.mgr[i].clients \ {c}
    IN  [w EXCEPT !.cl[c] = [NoClient EXCEPT !.task = "gone"],
                  !.mgr[i].clients = left,
                  !.mgr[i].life = IF @ = "exiting" /\ left = {} THEN "destroyed" ELSE @]

\* READY to INACTIVE and, if that is the aim, to FREED.
LeaveReady(w, c) ==
    LET me == w.cl[c]
        w1 == [ns_interface_detach(w, me.interface) EXCEPT
                 !.cl[c].interface = None, !.cl[c].tcp = FALSE, !.cl[c].mortal = FALSE,
                 !.cl[c].state = INACTIVE]
    IN  CASE me.n["accept"] > 0 -> Cancel(w, c, "accept")
          [] me.n["accept"] = 0 /\ me.n["recv"] > 0 -> Cancel(w, c, "recv")
          [] me.n["accept"] = 0 /\ me.n["recv"] = 0 /\ me.n["ctl"] > 0 -> w
          [] OTHER -> IF me.newstate = FREED THEN FreeClient(w1, c)
                      ELSE [w1 EXCEPT !.cl[c].newstate = MAX,
                                      !.mgr[me.home].inactive =
                                         IF w.mgr[me.home].life = "up" THEN Append(@, c) ELSE @]

\* ntcptarget of every interface.
ntcptarget == 1

\* READING to READY, which a client that was replaced does not stay in, unless
\* fewer clients accept connections than should.
LeaveReading(w, c) ==
    LET me     == w.cl[c]
        mortal == me.mortal /\ ~(me.tcp /\ w.ifp[me.interface].ntcpcurrent < ntcptarget)
        new    == IF mortal /\ me.newstate > INACTIVE THEN INACTIVE ELSE me.newstate
        w1     == [detach_tcp(w, c) EXCEPT !.cl[c].timerset = FALSE, !.cl[c].state = READY,
                                           !.cl[c].mortal = mortal, !.cl[c].newstate = new]
    IN  CASE me.n["read"] > 0 -> Cancel(w, c, "read")
          [] me.n["read"] = 0 /\ new = READY -> [Listen(w1, c) EXCEPT !.cl[c].newstate = MAX]
          [] OTHER -> LeaveReady(w1, c)

\* Mutant: references are not waited for.
Lingers_io(me) == me.n["send"] + me.n["recv"] > 0

\* "Still waiting for I/O cancel completion or lingering references."
Lingers(me) == me.n["send"] + me.n["recv"] + me.references > 0

\* WORKING or RECURSING to READING: the request is given up, or done.
\* ns_client_endrequest() is the second part of it.
LeaveRequest(w, c) ==
    LET me == w.cl[c]
        w1 == [detach_rec(w, c) EXCEPT
                 !.cl[c].state = READING,
                 !.mgr[me.home].recursing = Without(@, {c})]
    IN  CASE me.n["update"] > 0 -> w
          [] me.n["update"] = 0 /\ Lingers(me) -> Cancel(w, c, "send")
          [] OTHER -> IF me.newstate = READING
                        THEN [client_read(w1, c) EXCEPT !.cl[c].newstate = MAX]
                        ELSE LeaveReading(w1, c)

exit_check(w, c) ==
    CASE ~Exits(w, c) -> w
      [] Exits(w, c) /\ w.cl[c].state >= WORKING -> LeaveRequest(w, c)
      [] Exits(w, c) /\ w.cl[c].state = READING -> LeaveReading(w, c)
      [] Exits(w, c) /\ w.cl[c].state = READY -> LeaveReady(w, c)
      [] OTHER -> FreeClient(w, c)

Lower(s, t) == IF s > t THEN t ELSE s

ns_client_next(w, c, success) ==
    exit_check([w EXCEPT !.cl[c].newstate =
                  Lower(@, IF success /\ w.cl[c].tcp THEN READING ELSE READY)], c)

ns_client_detach(w, c) == exit_check([w EXCEPT !.cl[c].references = @ - 1], c)

\* What becomes of a response: written at once (then client_senddone() is called
\* here), queued, or not sendable.
Sendings == {"sent", "queued", "failed"}

\* ns_client_send(), ns_client_sendraw(), ns_client_error(), client_sendpkg()
ns_client_send(w, c, how) ==
    CASE how = "sent"   -> ns_client_next(w, c, TRUE)
      [] how = "queued" -> Begin(w, c, "send")
      [] how = "failed" -> ns_client_next(w, c, FALSE)

-----------------------------------------------------------------------------
(* New clients *)

\* Memory that no client has used yet.
Unused(w) == {x \in Clients : w.cl[x].task = "none"}

CanGet(w, i) == w.mgr[i].life = "up" /\ (w.mgr[i].inactive # <<>> \/ Unused(w) # {})

\* A recycled client, or a new one: client_create()
get_client(w, i, tcp) ==
    LET q == w.mgr[i].inactive
        x == IF q # <<>> THEN Head(q) ELSE CHOOSE x \in Unused(w) : TRUE
    IN  [w EXCEPT !.mgr[i].inactive = Without(@, {x}),
                  !.mgr[i].clients = @ \cup {x},
                  !.ifp[i].references = @ + 1,
                  !.cl[x] = [NoClient EXCEPT !.task = "up", !.home = i, !.interface = i,
                                             !.state = READY, !.tcp = tcp, !.n["ctl"] = 1]]

\* Mutant: the old client retires though no new one could be had.
ns_client_replace_anyway(w, c) ==
    LET i == w.cl[c].interface
    IN  [(IF CanGet(w, i) THEN get_client(w, i, w.cl[c].tcp) ELSE w) EXCEPT !.cl[c].mortal = TRUE]

\* "The responsibility for listening for new requests is hereby transferred to
\* the new client."
ns_client_replace(w, c) ==
    LET i == w.cl[c].interface
    IN  IF CanGet(w, i) THEN [get_client(w, i, w.cl[c].tcp) EXCEPT !.cl[c].mortal = TRUE] ELSE w

\* Clients that are not responsible for listening need not be replaced, and TCP
\* clients have been when their connection was accepted.
NeedsReplacement(w, c) == ~w.cl[c].mortal /\ ~w.cl[c].tcp

-----------------------------------------------------------------------------
(* Recursion *)

ns_client_recursing(w, c) ==
    [w EXCEPT !.cl[c].state = RECURSING, !.cl[c].newstate = RECURSING,
              !.mgr[w.cl[c].home].recursing = Append(@, c)]

\* dns_resolver_createfetch2(), which succeeds or not.
StartFetch(w, c, fetched, how) ==
    LET w1 == [ns_client_recursing(w, c) EXCEPT !.cl[c].timerset = TRUE]
    IN  IF fetched
          THEN [w1 EXCEPT !.cl[c].fetch = "running", !.cl[c].references = @ + 1]
          ELSE ns_client_send(w1, c, how)

\* query_recurse() once it has the quota; a client that cannot be replaced gives
\* the quota back and answers SERVFAIL.
Recurse(w, c, fetched, how) ==
    IF ~NeedsReplacement(w, c) THEN StartFetch(w, c, fetched, how)
    ELSE IF CanGet(w, w.cl[c].interface)
           THEN StartFetch(ns_client_replace(w, c), c, fetched, how)
           ELSE ns_client_send(detach_rec(w, c), c, how)

\* query_recurse(): at a limit the oldest query is taken off the list, and is
\* canceled in the next step, without the lock of the list.
query_recurse(w, c, fetched, how) ==
    LET r   == isc_quota_reserve(w, "rec")
        w1  == IF r = "quota" THEN w ELSE attach_rec(w, c)
        i   == w.cl[c].home
        old == w.mgr[i].recursing
    IN  CASE r # "success" /\ old # <<>> ->
               [w1 EXCEPT !.cl[c].victim = Head(old), !.mgr[i].recursing = Tail(@)]
          [] r # "quota" /\ (r = "success" \/ old = <<>>) -> Recurse(w1, c, fetched, how)
          [] OTHER -> ns_client_send(w1, c, how)

\* ns_query_cancel()
ns_query_cancel(w, v) ==
    [w EXCEPT !.cl[v].fetch = IF @ = "running" THEN "canceled" ELSE @]

-----------------------------------------------------------------------------
(* The handlers *)

\* The task of c is between two events.
Idle(c) == cl[c].task \in {"up", "told", "down"} /\ cl[c].victim = None

client_start(c) ==
    /\ Idle(c) /\ cl[c].n["ctl"] > 0
    /\ \E w \in {Ended(World, c, "ctl")} :
          Becomes(IF Exits(w, c) THEN exit_check(w, c) ELSE Listen(w, c))

\* Without a cancel an accept succeeds.
client_newconn(c, ok, blackholed) ==
    /\ Idle(c) /\ cl[c].n["accept"] > 0
    /\ ok \/ "accept" \in cl[c].canceled
    /\ \E w1 \in {[Ended(World, c, "accept") EXCEPT
                     !.ifp[cl[c].interface].ntcpcurrent = @ - 1,
                     !.cl[c].state = IF ok THEN READING ELSE @]} :
       LET q  == isc_quota_reserve(w1, "tcp")
           w2 == IF q = "quota" THEN w1
                 ELSE IF q = "success" THEN ns_client_replace(attach_tcp(w1, c), c)
                 ELSE attach_tcp(w1, c)
       IN  Becomes(CASE Exits(w1, c) -> exit_check(w1, c)
                     [] ~Exits(w1, c) /\ ~ok -> w1
                     [] ~Exits(w1, c) /\ ok /\ blackholed ->
                          exit_check([w1 EXCEPT !.cl[c].newstate = READY], c)
                     [] OTHER -> client_read(w2, c))

\* What a request can lead to ("norecurse": recursion that cannot be started).  One
\* that is dropped or refused, or a connection
\* that breaks, ends in ns_client_next() as an answer does that is "sent" or has
\* "failed".
Requests == {"answer", "update", "forward", "recurse", "norecurse"}

Work(w, c, what, how) ==
    LET updating(v) == [Begin(v, c, "update") EXCEPT !.cl[c].references = @ + 1,
                                                     !.cl[c].timerset = TRUE]
    IN  CASE what = "answer"  -> ns_client_send(w, c, how)
          [] what = "update"  -> updating(w)
          [] what = "forward" -> IF ~NeedsReplacement(w, c) THEN updating(w)
                                 ELSE IF CanGet(w, w.cl[c].interface)
                                        THEN updating(ns_client_replace(w, c))
                                        ELSE ns_client_send(w, c, how)
          [] what \in {"recurse", "norecurse"} -> query_recurse(w, c, what = "recurse", how)

client_request(c, what, how) ==
    LET k  == IF cl[c].tcp THEN "read" ELSE "recv"
    IN  /\ Idle(c) /\ cl[c].n[k] > 0
        /\ \E w0 \in {Ended(World, c, k)} :
           \E w1 \in {[w0 EXCEPT !.cl[c].state = WORKING, !.cl[c].newstate = WORKING]} :
           Becomes(IF Exits(w0, c) THEN exit_check(w0, c) ELSE Work(w1, c, what, how))

\* The second half of query_recurse() at a limit.
query_recurse_cancel(c, fetched, how) ==
    /\ cl[c].victim # None
    /\ \E w \in {[ns_query_cancel(World, cl[c].victim) EXCEPT !.cl[c].victim = None]} :
          Becomes(IF cl[c].recursionquota THEN Recurse(w, c, fetched, how)
                  ELSE ns_client_send(w, c, how))

\* query_resume(); a fetch that leads to another one looks like one.
query_resume(c, how) ==
    /\ Idle(c) /\ cl[c].fetch # "none"
    /\ \E w \in {[World EXCEPT !.cl[c].fetch = "none"]} :
       \E v \in {IF cl[c].fetch = "running" /\ cl[c].newstate = FREED
                   THEN ns_client_next(w, c, FALSE) ELSE ns_client_send(w, c, how)} :
          Becomes(ns_client_detach(v, c))

\* updatedone_action(), forward_fail(), forward_done()
updatedone_action(c, how) ==
    /\ Idle(c) /\ cl[c].n["update"] > 0
    /\ \E w \in {Ended(World, c, "update")} : \E v \in {ns_client_send(w, c, how)} :
          Becomes(ns_client_detach(v, c))

client_senddone(c) ==
    /\ Idle(c) /\ cl[c].n["send"] > 0
    /\ Becomes(ns_client_next(Ended(World, c, "send"), c, TRUE))

client_timeout(c) ==
    /\ Idle(c) /\ cl[c].timerset
    /\ Becomes(exit_check([World EXCEPT !.cl[c].newstate = Lower(@, READY)], c))

\* The task has been told to shut down.
client_shutdown(c) ==
    /\ Idle(c) /\ cl[c].task = "told"
    /\ Becomes(exit_check([World EXCEPT !.cl[c].task = "down", !.cl[c].newstate = FREED,
                                        !.mgr[cl[c].home].inactive = Without(@, {c})], c))

-----------------------------------------------------------------------------
(* Interfaces: both run with exclusive access, between the events of all    *)
(* tasks.                                                                   *)

Exclusive == \A c \in Clients : cl[c].victim = None

\* ns_interface_setup(): a scan finds an address that nobody listens on.
ns_interface_setup(i) ==
    /\ Exclusive /\ ifp[i].life = "none"
    /\ Cardinality(Unused(World)) >= 2
    /\ LET w == [World EXCEPT !.ifp[i] = [life |-> "up", references |-> 1, ntcpcurrent |-> 0],
                              !.mgr[i].life = "up"]
       IN  Becomes(get_client(get_client(w, i, FALSE), i, TRUE))

\* Mutant: the manager forgets the clients that wait to be used again.
clientmgr_tell_active(w, i) ==
    [c \in Clients |-> IF c \in w.mgr[i].clients \ Range(w.mgr[i].inactive) /\ w.cl[c].task = "up"
                         THEN [w.cl[c] EXCEPT !.task = "told"] ELSE w.cl[c]]

\* The walk of ns_clientmgr_destroy().
clientmgr_tell(w, i) ==
    [c \in Clients |-> IF c \in w.mgr[i].clients /\ w.cl[c].task = "up"
                         THEN [w.cl[c] EXCEPT !.task = "told"] ELSE w.cl[c]]

\* purge_old_interfaces(), ns_interface_shutdown(), ns_clientmgr_destroy(): the
\* address has gone, or named stops.
purge_old_interface(i) ==
    /\ Exclusive /\ mgr[i].life = "up"
    /\ LET w == [World EXCEPT !.cl = clientmgr_tell(World, i),
                              !.mgr[i].life = IF mgr[i].clients = {} THEN "destroyed"
                                                                     ELSE "exiting"]
       IN  Becomes(ns_interface_detach(w, i))

-----------------------------------------------------------------------------
Init ==
    /\ cl = [c \in Clients |-> NoClient]
    /\ ifp = [i \in Interfaces |-> [life |-> "none", references |-> 0, ntcpcurrent |-> 0]]
    /\ mgr = [i \in Interfaces |-> [life |-> "none", clients |-> {}, inactive |-> <<>>,
                                    recursing |-> <<>>]]
    /\ used = [q \in {"tcp", "rec"} |-> 0]

Next ==
    \/ \E c \in Clients :
         \/ client_start(c) \/ client_shutdown(c) \/ client_senddone(c) \/ client_timeout(c)
         \/ \E how \in Sendings : \/ query_resume(c, how) \/ updatedone_action(c, how)
                                  \/ \E fetched \in BOOLEAN : query_recurse_cancel(c, fetched, how)
         \/ \E ok, b \in BOOLEAN : client_newconn(c, ok, b)
         \/ \E what \in Requests, how \in Sendings : client_request(c, what, how)
    \/ \E i \in Interfaces : ns_interface_setup(i) \/ purge_old_interface(i)

Spec == Init /\ [][Next]_vars

-----------------------------------------------------------------------------
Count(P(_)) == Cardinality({c \in Clients : P(c)})

Exists(c) == cl[c].task \in {"up", "told", "down"}

TypeOK ==
    /\ \A c \in Clients :
          /\ cl[c].state \in FREED .. RECURSING /\ cl[c].newstate \in (FREED .. RECURSING) \cup {MAX}
          /\ cl[c].n \in [Works -> 0 .. 1] /\ cl[c].references \in 0 .. 1
    /\ \A i \in Interfaces : ifp[i].references \in 0 .. Cardinality(Clients) + 1
    /\ used \in [{"tcp", "rec"} -> 0 .. Cardinality(Clients)]

(* What the states of a client mean (client.c:150-211) and what the INSISTs *)
(* of the handlers rest on: in every state there is exactly the outstanding *)
(* work the state allows, and always some that will move the client on.  A  *)
(* request in work without an event to come would never be answered and     *)
(* would keep its client for ever.                                          *)
StateMeansWork ==
    TypeOK /\ \A c \in Clients : LET me == cl[c] IN
        /\ me.state = INACTIVE =>
              /\ me.n = NoClient.n /\ me.interface = None /\ ~me.tcpquota
              /\ me.task = "up" => c \in Range(mgr[me.home].inactive)
        /\ me.state = READY =>
              me.n = [NoClient.n EXCEPT ![IF me.n["ctl"] = 1 THEN "ctl"
                                          ELSE IF me.tcp THEN "accept" ELSE "recv"] = 1]
        /\ me.state = READING => me.tcp /\ me.n = [NoClient.n EXCEPT !["read"] = 1]
        /\ me.state < WORKING => me.references = 0 /\ me.fetch = "none" /\ ~me.recursionquota
        /\ me.state >= WORKING =>
              /\ me.n["send"] + me.n["update"] + (IF me.fetch # "none" THEN 1 ELSE 0)
                   + (IF me.victim # None THEN 1 ELSE 0) = 1
              /\ me.n["accept"] + me.n["recv"] + me.n["read"] + me.n["ctl"] = 0
        /\ \A i \in Interfaces :
              /\ c \in Range(mgr[i].recursing) => me.state = RECURSING
              /\ c \in Range(mgr[i].inactive) => me.state = INACTIVE /\ me.task \in {"up", "told"}

(* Somebody keeps listening: on an interface in use exactly one client is   *)
(* responsible for datagrams, however often clients replace each other, run *)
(* into quotas or out of memory, and at least one for connections.          *)
ListenerRemains ==
    \A i \in Interfaces : mgr[i].life = "up" =>
        LET responsible(tcp) == {c \in Clients : /\ cl[c].interface = i /\ cl[c].tcp = tcp
                                                 /\ ~cl[c].mortal /\ cl[c].newstate >= READY}
        IN  Cardinality(responsible(FALSE)) = 1 /\ responsible(TRUE) # {}

(* Interfaces, managers and quotas outlive their users and are given back   *)
(* by all of them: counts are the number of users, and what is destroyed    *)
(* has none (INSIST(quota->used == 0) in isc_quota_destroy()).              *)
NoUseAfterFree ==
    /\ \A i \in Interfaces :
          /\ ifp[i].references = (IF mgr[i].life = "up" THEN 1 ELSE 0)
                                 + Count(LAMBDA c : cl[c].interface = i)
          /\ ifp[i].ntcpcurrent = Count(LAMBDA c : cl[c].interface = i /\ cl[c].n["accept"] = 1)
          /\ ifp[i].life = "destroyed" <=> ifp[i].references = 0 /\ ifp[i].life # "none"
          /\ mgr[i].clients = {c \in Clients : cl[c].home = i}
          /\ mgr[i].life = "destroyed" <=> mgr[i].clients = {} /\ mgr[i].life # "none"
    /\ used["tcp"] = Count(LAMBDA c : cl[c].tcpquota)
    /\ used["rec"] = Count(LAMBDA c : cl[c].recursionquota)

(* Giving up ends: a client that is to leave its state (a time-out, a      *)
(* connection that fails, the end of its interface) waits for something     *)
(* that is certain to come, because it was canceled or because the task,    *)
(* the socket, the zone or the resolver will answer in any case.  Once its  *)
(* interface goes, no client forgets that it has to; so shutting down never *)
(* hangs on a client.                                                       *)
ExitIsDue ==
    /\ \A c \in Clients : LET me == cl[c] IN
          Exists(c) /\ Exits(World, c) =>
              \/ me.canceled # {} \/ me.victim # None \/ me.fetch # "none"
              \/ me.n["ctl"] + me.n["send"] + me.n["update"] > 0
    /\ \A i \in Interfaces : mgr[i].life = "exiting" =>
          \A c \in mgr[i].clients : cl[c].task = "told" \/ cl[c].newstate = FREED
=============================================================================
