----------------------------- MODULE IscSocket -----------------------------
(***************************************************************************)
(* The socket manager (lib/isc/unix/socket.c) as built here: a watcher     *)
(* thread around epoll (USE_WATCHER_THREAD, USE_EPOLL), a pipe through     *)
(* which everybody else tells it what to watch, and internal events that   *)
(* make the requesting tasks do the I/O.                                   *)
(*                                                                         *)
(* One action is one critical section of sock->lock, of a descriptor's     *)
(* fdlock or of manager->lock, or one system call between two of them; the *)
(* watcher alone talks to epoll, so what it does there belongs to the      *)
(* critical section before it.                                             *)
(* Requests of a kind on a socket are interchangeable, so a list is its    *)
(* length; data, addresses and results are left out: I/O completes any     *)
(* number of the requests at hand, and then either blocks or the list is   *)
(* empty.  Which task runs an internal event is left open.                 *)
(***************************************************************************)
EXTENDS Naturals, FiniteSets, Sequences

CONSTANTS
    Sockets,      \* identities of isc_socket_t; each is allocated once
    Fds,          \* descriptor numbers
    MaxRequests,  \* bound: requests of one kind queued on a socket
    MaxRefs,      \* bound: references of callers to a socket
    MaxPipe,      \* bound: callers ask only while fewer messages are on their way
    Ops,          \* Ops[s]: the operations the callers of s use in this instance
    None

ASSUME SocketAssumption ==
    /\ IsFiniteSet(Sockets) /\ IsFiniteSet(Fds)
    /\ None \notin Sockets \cup Fds
    /\ MaxRequests \in Nat /\ MaxPipe \in Nat

Kinds == {"recv", "send", "accept", "connect"}

\* SELECT_POKE_READ and _ACCEPT are one message, SELECT_POKE_WRITE and _CONNECT
\* another.
Side(k) == IF k \in {"recv", "accept"} THEN "read" ELSE "write"

VARIABLES
    \* isc_socket_t
    life,         \* "unborn", "opened" (not yet registered), "live", "freed"
    references,
    sfd,          \* sock->fd, kept until closesocket(), which is given the number, is done
    listener,
    requests,     \* requests[s][k]: length of the list of that kind
    pending,      \* the kinds whose internal event is posted
    canceled,     \* the kinds whose ISC_R_CANCELED events the task has not received
    phase,        \* what destroy() or isc_socket_close() does next with it
    parent,       \* the socket that accepted this one, until it is registered
    \* isc_socketmgr_t
    fds,
    fdstate,
    socklist,
    pipe,         \* messages to the watcher, [fd, msg, sock]
    mpc,          \* isc_socketmgr_destroy()
    \* the kernel
    opened,       \* descriptors that are open
    epoll,        \* epoll[f]: what the descriptor is registered for
    \* the watcher
    wpc,
    batch,        \* what epoll_wait() returned and process_fds() has not done
    ctl,          \* have_ctlevent
    \* history
    mixed         \* mixed[s]: the caller asked while something was left to watch

sockvars == <<life, references, sfd, listener, requests, pending, canceled, phase, parent,
              mixed>>
mgrvars  == <<fds, fdstate, socklist>>
kernel   == <<opened, epoll>>
watcher  == <<wpc, batch, ctl>>
vars     == <<sockvars, mgrvars, pipe, mpc, kernel, watcher>>

NoRequest == [k \in Kinds |-> 0]

TypeOK ==
    /\ life \in [Sockets -> {"unborn", "opened", "live", "freed"}]
    /\ references \in [Sockets -> 0 .. MaxRefs + Cardinality(Kinds)]
    /\ sfd \in [Sockets -> Fds \cup {None}]
    /\ listener \in [Sockets -> BOOLEAN]
    /\ requests \in [Sockets -> [Kinds -> 0 .. MaxRequests]]
    /\ pending \in [Sockets -> SUBSET Kinds]
    /\ canceled \in [Sockets -> SUBSET Kinds]
    /\ mixed \in [Sockets -> BOOLEAN]
    /\ phase \in [Sockets -> {"none", "mark", "poke", "unlink"}]
    /\ parent \in [Sockets -> Sockets \cup {None}]
    /\ fds \in [Fds -> Sockets \cup {None}]
    /\ fdstate \in [Fds -> {"CLOSED", "MANAGED", "CLOSE_PENDING"}]
    /\ socklist \subseteq Sockets
    /\ mpc \in {"up", "wait", "woken", "poke", "join", "down"}
    /\ opened \subseteq Fds
    /\ epoll \in [Fds -> SUBSET {"read", "write"}]
    /\ wpc \in {"poll", "fds", "ctl", "exited"}
    /\ ctl \in BOOLEAN

-----------------------------------------------------------------------------
Offers(s, op) == op \in Ops[s]

Message(f, m, s) == [fd |-> f, msg |-> m, sock |-> s]

\* select_poke(); a write that finds the pipe full waits, the pipe of the model
\* is never full.
select_poke(p, s, m) == Append(p, Message(sfd[s], m, s))

\* References the callers have: the posted internal events own the others.
CallersRefs(s) == references[s] - Cardinality(pending[s])

\* A caller of the interface may use the socket.
Usable(s) == life[s] = "live" /\ CallersRefs(s) > 0 /\ phase[s] = "none"

\* I/O requests that have not been answered, the connection that is just being
\* accepted included.
Outstanding(s) ==
    \/ requests[s] # NoRequest
    \/ \E x \in Sockets : parent[x] = s

-----------------------------------------------------------------------------
(* Creation *)

\* opensocket(), dup() or the netmap device, in isc_socket_create(): the socket
\* is the caller's alone.
opensocket(s, f) ==
    /\ Offers(s, "create")
    /\ life[s] = "unborn" /\ mpc = "up"
    /\ f \in Fds \ opened
    /\ opened' = opened \cup {f}
    /\ life' = [life EXCEPT ![s] = "opened"]
    /\ sfd' = [sfd EXCEPT ![s] = f]
    /\ UNCHANGED <<references, listener, requests, pending, canceled, phase, parent,
                   mixed, mgrvars, pipe, mpc, epoll, watcher>>

\* isc_socket_open(): another descriptor for a socket that has been closed.
isc__socket_open(s, f) ==
    /\ Offers(s, "reopen")
    /\ Usable(s) /\ references[s] = 1 /\ sfd[s] = None
    /\ f \in Fds \ opened
    /\ opened' = opened \cup {f}
    /\ life' = [life EXCEPT ![s] = "opened"]
    /\ sfd' = [sfd EXCEPT ![s] = f]
    /\ UNCHANGED <<references, listener, requests, pending, canceled, phase, parent,
                   mixed, mgrvars, pipe, mpc, epoll, watcher>>

\* The end of create, open and accept: the watcher may find the socket now, with
\* the one reference it was given before anybody could see it.  fdlock and
\* manager->lock are taken one after the other; nobody looks at the socket list
\* in between who would miss the socket.
socket_register(s) ==
    /\ life[s] = "opened"
    /\ life' = [life EXCEPT ![s] = "live"]
    /\ references' = [references EXCEPT ![s] = 1]
    /\ fds' = [fds EXCEPT ![sfd[s]] = s]
    /\ fdstate' = [fdstate EXCEPT ![sfd[s]] = "MANAGED"]
    /\ socklist' = socklist \cup {s}
    /\ parent' = [parent EXCEPT ![s] = None]
    /\ UNCHANGED <<sfd, listener, requests, pending, canceled, phase, mixed, pipe, mpc,
                   kernel, watcher>>

isc__socket_listen(s) ==
    /\ Offers(s, "accept")
    /\ Usable(s) /\ sfd[s] # None /\ ~listener[s] /\ ~Outstanding(s) /\ canceled[s] = {}
    /\ listener' = [listener EXCEPT ![s] = TRUE]
    /\ UNCHANGED <<life, references, sfd, requests, pending, canceled, phase, parent,
                   mixed, mgrvars, pipe, mpc, kernel, watcher>>

-----------------------------------------------------------------------------
(* Requests.  What completes at once changes nothing here. *)

\* What callers keep to: a listener accepts and nothing else; a socket that
\* connects does nothing else, and is given up when the attempt is canceled.
\* Reading, writing and accepting go on after a cancel (dispatch.c:2886-2894,
\* 3943-3946), whether the ISC_R_CANCELED events have arrived or not.
MayAsk(s, k) ==
    /\ Offers(s, k) /\ Usable(s) /\ sfd[s] # None
    /\ requests[s][k] < MaxRequests
    /\ listener[s] <=> k = "accept"
    /\ \A j \in Kinds \ {k} : requests[s][j] > 0 => {j, k} = {"recv", "send"}
    /\ k = "connect" => requests[s][k] = 0
    /\ "connect" \notin canceled[s]

\* "If the socket was previously not being watched, poke the watcher": recv and
\* send look at the pending flag too, accept and connect do not.
NeedsPoke(s, k) ==
    /\ requests[s][k] = 0
    /\ k \in {"recv", "send"} => k \notin pending[s]

\* Nothing is left that makes the watcher look at the descriptor, and the posted
\* internal events are those of K.
Unwatched(s, K) ==
    /\ pending[s] = K /\ epoll[sfd[s]] = {}
    /\ \A i \in DOMAIN pipe : ~(pipe[i].sock = s /\ pipe[i].fd = sfd[s])

\* The history: the first request of a kind finds a message, a registration or an
\* internal event that is for another kind, or that a cancel left behind, and is
\* not the internal event that will serve it.  With nothing left and nobody
\* waiting the socket is as good as new.
Mixes(s, k) ==
    IF requests[s] = NoRequest /\ Unwatched(s, {}) THEN FALSE
    ELSE \/ mixed[s]
         \/ requests[s][k] = 0 /\ ~(k \in {"recv", "send"} /\ Unwatched(s, {k}))

\* A request cannot be satisfied at once and is queued.
socket_request(s, k) ==
    /\ MayAsk(s, k) /\ Len(pipe) < MaxPipe
    /\ requests' = [requests EXCEPT ![s][k] = @ + 1]
    /\ pipe' = IF NeedsPoke(s, k) THEN select_poke(pipe, s, Side(k)) ELSE pipe
    /\ mixed' = [mixed EXCEPT ![s] = Mixes(s, k)]
    /\ UNCHANGED <<life, references, sfd, listener, pending, canceled, phase, parent,
                   mgrvars, mpc, kernel, watcher>>

socket_recv(s) == socket_request(s, "recv")
socket_send(s) == socket_request(s, "send")
isc__socket_accept(s) == socket_request(s, "accept")
isc__socket_connect(s) == socket_request(s, "connect")

\* isc_socket_cancel(): the requests of one task, or all, of some kinds.  What
\* watches for them stays.  A connection attempt is canceled by its own task or
\* for all tasks, as every caller in the repository does.
isc__socket_cancel(s) ==
    /\ Offers(s, "cancel") /\ Usable(s) /\ requests[s] # NoRequest
    /\ \E left \in [Kinds -> 0 .. MaxRequests] :
          /\ left # requests[s]
          /\ \A k \in Kinds : left[k] <= requests[s][k]
          /\ requests' = [requests EXCEPT ![s] = left]
          /\ canceled' = [canceled EXCEPT ![s] =
                            @ \cup {k \in Kinds : left[k] < requests[s][k]}]
    /\ UNCHANGED <<life, references, sfd, listener, pending, phase, parent, mixed, mgrvars,
                   pipe, mpc, kernel, watcher>>

\* The task receives the ISC_R_CANCELED events of a kind.  An internal event that
\* was posted before them was sent to the same task and comes first; one that is
\* posted after them serves a request that is still to be answered.
canceled_received(s, k) ==
    /\ k \in canceled[s] \ {"connect"} /\ k \notin pending[s]
    /\ canceled' = [canceled EXCEPT ![s] = @ \ {k}]
    /\ UNCHANGED <<life, references, sfd, listener, requests, pending, phase, parent, mixed,
                   mgrvars, pipe, mpc, kernel, watcher>>

-----------------------------------------------------------------------------
(* References and the end of a socket *)

isc__socket_attach(s) ==
    /\ Offers(s, "attach") /\ Usable(s)
    /\ CallersRefs(s) < MaxRefs
    /\ references' = [references EXCEPT ![s] = @ + 1]
    /\ UNCHANGED <<life, sfd, listener, requests, pending, canceled, phase, parent,
                   mixed, mgrvars, pipe, mpc, kernel, watcher>>

\* The last reference is gone: who drops it goes on in destroy().
Drop(s) ==
    /\ references' = [references EXCEPT ![s] = @ - 1]
    /\ phase' = IF references[s] > 1 THEN phase
                ELSE [phase EXCEPT ![s] = IF sfd[s] = None THEN "unlink" ELSE "mark"]

\* socket.h: with the last reference "There must be no pending I/O requests".
isc__socket_detach(s) ==
    /\ Usable(s)
    /\ CallersRefs(s) = 1 => ~Outstanding(s)
    /\ Drop(s)
    /\ UNCHANGED <<life, sfd, listener, requests, pending, canceled, parent, mixed, mgrvars,
                   pipe, mpc, kernel, watcher>>

\* What socket.h asks of the caller of isc_socket_close(): no pending requests,
\* no other reference; every request has been answered, canceled ones with
\* ISC_R_CANCELED (dispatch.c:1295-1304).  Callers cannot see internal events.
MayClose(s) ==
    /\ Usable(s) /\ sfd[s] # None /\ CallersRefs(s) = 1
    /\ ~Outstanding(s) /\ canceled[s] = {}

isc__socket_close(s) ==
    /\ Offers(s, "reopen")
    /\ MayClose(s)
    /\ phase' = [phase EXCEPT ![s] = "mark"]
    /\ listener' = [listener EXCEPT ![s] = FALSE]
    /\ UNCHANGED <<life, references, sfd, requests, pending, canceled, parent, mixed,
                   mgrvars, pipe, mpc, kernel, watcher>>

\* Mutant: the descriptor is closed at once.
closesocket_now(s) ==
    /\ phase[s] = "mark"
    /\ fds' = [fds EXCEPT ![sfd[s]] = None]
    /\ fdstate' = [fdstate EXCEPT ![sfd[s]] = "CLOSE_PENDING"]
    /\ phase' = [phase EXCEPT ![s] = "poke"]
    /\ opened' = opened \ {sfd[s]}
    /\ epoll' = [epoll EXCEPT ![sfd[s]] = {}]
    /\ UNCHANGED <<life, references, sfd, listener, requests, pending, canceled, parent,
                   mixed, socklist, pipe, mpc, watcher>>

\* closesocket(): the descriptor is marked under fdlock ...
closesocket(s) ==
    /\ phase[s] = "mark"
    /\ fds' = [fds EXCEPT ![sfd[s]] = None]
    /\ fdstate' = [fdstate EXCEPT ![sfd[s]] = "CLOSE_PENDING"]
    /\ phase' = [phase EXCEPT ![s] = "poke"]
    /\ UNCHANGED <<life, references, sfd, listener, requests, pending, canceled, parent,
                   mixed, socklist, pipe, mpc, kernel, watcher>>

\* ... and the watcher is told to close it.
closesocket_poke(s) ==
    /\ phase[s] = "poke"
    /\ pipe' = select_poke(pipe, s, "close")
    /\ sfd' = [sfd EXCEPT ![s] = None]
    /\ mixed' = [mixed EXCEPT ![s] = FALSE]
    /\ phase' = [phase EXCEPT ![s] = IF CallersRefs(s) = 0 THEN "unlink" ELSE "none"]
    /\ UNCHANGED <<life, references, listener, requests, pending, canceled, parent,
                   mgrvars, mpc, kernel, watcher>>

\* Mutant: nobody is told that the list is empty.
destroy_silent(s) ==
    /\ phase[s] = "unlink"
    /\ socklist' = socklist \ {s}
    /\ life' = [life EXCEPT ![s] = "freed"]
    /\ phase' = [phase EXCEPT ![s] = "none"]
    /\ listener' = [listener EXCEPT ![s] = FALSE]
    /\ canceled' = [canceled EXCEPT ![s] = {}]
    /\ UNCHANGED <<references, sfd, requests, pending, parent, mixed, fds,
                   fdstate, pipe, mpc, kernel, watcher>>

\* The rest of destroy(), under manager->lock.
destroy(s) ==
    /\ phase[s] = "unlink"
    /\ socklist' = socklist \ {s}
    /\ mpc' = IF socklist' = {} /\ mpc = "wait" THEN "woken" ELSE mpc
    /\ life' = [life EXCEPT ![s] = "freed"]
    /\ phase' = [phase EXCEPT ![s] = "none"]
    /\ listener' = [listener EXCEPT ![s] = FALSE]
    /\ canceled' = [canceled EXCEPT ![s] = {}]
    /\ UNCHANGED <<references, sfd, requests, pending, parent, mixed, fds,
                   fdstate, pipe, kernel, watcher>>

-----------------------------------------------------------------------------
(* Internal events: the task does the I/O *)

\* Mutant: requests that are left are forgotten.
internal_io_forgets(s, k, left) ==
    /\ pending' = [pending EXCEPT ![s] = @ \ {k}]
    /\ Drop(s)
    /\ IF references[s] = 1
         THEN UNCHANGED <<requests, pipe>>
         ELSE /\ left \in 0 .. requests[s][k]
              /\ requests' = [requests EXCEPT ![s][k] = left]
              /\ UNCHANGED pipe

\* internal_recv(), internal_send(), internal_connect() and, but for the new
\* socket, internal_accept(): with the event's reference the last one gone the
\* socket is destroyed; otherwise some requests complete and the watcher is
\* asked to watch for the rest.
internal_io(s, k, left) ==
    /\ pending' = [pending EXCEPT ![s] = @ \ {k}]
    /\ Drop(s)
    /\ IF references[s] = 1
         THEN UNCHANGED <<requests, pipe>>
         ELSE /\ left \in 0 .. requests[s][k]
              /\ requests' = [requests EXCEPT ![s][k] = left]
              /\ pipe' = IF left > 0 THEN select_poke(pipe, s, Side(k)) ELSE pipe

internal_event(s, k) ==
    /\ k \in pending[s]
    /\ \E left \in 0 .. MaxRequests :
          /\ k = "accept" => left + 1 >= requests[s][k]
          /\ internal_io(s, k, left)
    /\ UNCHANGED <<life, sfd, listener, canceled, parent, mixed, mgrvars, mpc, kernel,
                   watcher>>

\* internal_accept() with a connection: one request is answered by the socket x
\* with descriptor f.
internal_accept(s, x, f) ==
    /\ "accept" \in pending[s] /\ references[s] > 1 /\ requests[s]["accept"] > 0
    /\ internal_io(s, "accept", requests[s]["accept"] - 1)
    /\ life[x] = "unborn" /\ f \in Fds \ opened
    /\ life' = [life EXCEPT ![x] = "opened"]
    /\ sfd' = [sfd EXCEPT ![x] = f]
    /\ opened' = opened \cup {f}
    /\ parent' = [parent EXCEPT ![x] = s]
    /\ UNCHANGED <<listener, canceled, mixed, mgrvars, mpc, epoll, watcher>>

-----------------------------------------------------------------------------
(* The watcher thread *)

\* epoll_wait(): a registered descriptor may be ready for what it is registered
\* for; an error or a hangup counts as both.  A pipe with messages is ready.
epoll_wait ==
    /\ wpc = "poll"
    /\ LET registered == {f \in Fds : epoll[f] # {}}
       IN  \E ready \in SUBSET registered :
             /\ ready # {} \/ pipe # <<>>
             /\ \E ev \in [ready -> SUBSET {"read", "write"}] :
                  /\ \A f \in ready : ev[f] # {} /\ (ev[f] \subseteq epoll[f] \/ ev[f] = {"read", "write"})
                  /\ batch' = {[fd |-> f, ev |-> ev[f]] : f \in ready}
    /\ ctl' = (pipe # <<>>)
    /\ wpc' = "fds"
    /\ UNCHANGED <<sockvars, mgrvars, pipe, mpc, kernel>>

\* Mutant: SOCK_DEAD() is not tested.
Dispatched_dead(s, ev) ==
    {k \in Kinds : Side(k) \in ev /\ requests[s][k] > 0}
      \cup {k \in Kinds : Side(k) \in ev /\ references[s] = 0 /\ k = "recv"}

\* Mutant: the event is posted though nobody asked.
Dispatched_idle(s, ev) ==
    IF references[s] = 0 THEN {}
    ELSE {k \in Kinds : /\ Side(k) \in ev
                        /\ \/ requests[s][k] > 0
                           \/ k = "recv" /\ ~listener[s] /\ k \notin pending[s]}

\* The internal events dispatch_recv(), dispatch_send(), dispatch_accept() and
\* dispatch_connect() post: none for a dead socket, none for an empty list.
Dispatched(s, ev) ==
    IF references[s] = 0 THEN {}
    ELSE {k \in Kinds : Side(k) \in ev /\ requests[s][k] > 0}

\* unwatch_fd(): EPOLL_CTL_DEL takes the descriptor out for both sides.
unwatch_fd(f) == epoll' = [epoll EXCEPT ![f] = {}]

\* watch_fd(): EPOLL_CTL_ADD of a descriptor that is registered fails with
\* EEXIST, which is ignored.
watch_fd(f, side) ==
    epoll' = IF epoll[f] = {} THEN [epoll EXCEPT ![f] = {side}] ELSE epoll

\* dispatch_recv(), dispatch_send() and dispatch_accept() INSIST, before they look
\* at the list, that their internal event is not posted; dispatch_connect() would
\* queue an event that is queued, which the list refuses.  Either ends the
\* program, so that process_fd() gets no further; WatchedOnce says when.
AlreadyPosted(s, ev) ==
    /\ references[s] > 0
    /\ \E k \in pending[s] : Side(k) \in ev /\ (k = "connect" => requests[s][k] > 0)

\* The descriptor belongs to a socket that is not being closed.
Found(f) == fdstate[f] # "CLOSE_PENDING" /\ fds[f] # None

process_fd(b) ==
    LET s == fds[b.fd]
        K == IF Found(b.fd) THEN Dispatched(s, b.ev) ELSE {}
    IN  /\ wpc = "fds" /\ b \in batch
        /\ ~(Found(b.fd) /\ AlreadyPosted(s, b.ev))
        /\ pending' = IF K = {} THEN pending ELSE [pending EXCEPT ![s] = @ \cup K]
        /\ references' = IF K = {} THEN references
                         ELSE [references EXCEPT ![s] = @ + Cardinality(K)]
        /\ unwatch_fd(b.fd)
        /\ batch' = batch \ {b}
        /\ UNCHANGED <<life, sfd, listener, requests, canceled, phase, parent, mixed, mgrvars,
                       pipe, mpc, opened, wpc, ctl>>

\* process_fds() has seen all descriptors.
process_fds_end ==
    /\ wpc = "fds" /\ batch = {}
    /\ wpc' = IF ctl THEN "ctl" ELSE "poll"
    /\ ctl' = FALSE
    /\ UNCHANGED <<sockvars, mgrvars, pipe, mpc, kernel, batch>>

\* wakeup_socket(): a message about a descriptor that is being closed, or is
\* closed, starts no watch.
wakeup_socket(m) ==
    IF m.msg = "close"
      THEN /\ fdstate' = [fdstate EXCEPT ![m.fd] = "CLOSED"]
           /\ unwatch_fd(m.fd)
           /\ opened' = opened \ {m.fd}
      ELSE /\ CASE fdstate[m.fd] = "CLOSE_PENDING" -> unwatch_fd(m.fd)
                [] fdstate[m.fd] = "MANAGED" -> watch_fd(m.fd, m.msg)
                [] OTHER -> UNCHANGED epoll
           /\ UNCHANGED <<fdstate, opened>>

\* process_ctlfd(): one message after the other, until there is none.
process_ctlfd ==
    /\ wpc = "ctl" /\ pipe # <<>>
    /\ pipe' = Tail(pipe)
    /\ IF Head(pipe).msg = "shutdown"
         THEN wpc' = "exited" /\ UNCHANGED <<fdstate, kernel>>
         ELSE wakeup_socket(Head(pipe)) /\ UNCHANGED wpc
    /\ UNCHANGED <<sockvars, fds, socklist, mpc, batch, ctl>>

process_ctlfd_end ==
    /\ wpc = "ctl" /\ pipe = <<>>
    /\ wpc' = "poll"
    /\ UNCHANGED <<sockvars, mgrvars, pipe, mpc, kernel, batch, ctl>>

-----------------------------------------------------------------------------
(* isc_socketmgr_destroy() *)

isc__socketmgr_destroy ==
    /\ mpc \in {"up", "woken"}
    /\ \A s \in Sockets : life[s] = "opened" => parent[s] # None
    /\ mpc' = IF socklist = {} THEN "poke" ELSE "wait"
    /\ UNCHANGED <<sockvars, mgrvars, pipe, kernel, watcher>>

socketmgr_shutdown ==
    /\ mpc = "poke"
    /\ pipe' = Append(pipe, Message(None, "shutdown", None))
    /\ mpc' = "join"
    /\ UNCHANGED <<sockvars, mgrvars, kernel, watcher>>

\* Mutant: the thread is not joined.
socketmgr_join_not ==
    /\ mpc = "join"
    /\ opened' = opened \ {f \in Fds : fdstate[f] = "CLOSE_PENDING"}
    /\ mpc' = "down"
    /\ UNCHANGED <<sockvars, mgrvars, pipe, epoll, watcher>>

\* The thread is joined; descriptors that still wait to be closed are closed.
socketmgr_join ==
    /\ mpc = "join" /\ wpc = "exited"
    /\ opened' = opened \ {f \in Fds : fdstate[f] = "CLOSE_PENDING"}
    /\ mpc' = "down"
    /\ UNCHANGED <<sockvars, mgrvars, pipe, epoll, watcher>>

-----------------------------------------------------------------------------
Init ==
    /\ life = [s \in Sockets |-> "unborn"]
    /\ references = [s \in Sockets |-> 0]
    /\ sfd = [s \in Sockets |-> None]
    /\ listener = [s \in Sockets |-> FALSE]
    /\ requests = [s \in Sockets |-> NoRequest]
    /\ pending = [s \in Sockets |-> {}]
    /\ canceled = [s \in Sockets |-> {}]
    /\ mixed = [s \in Sockets |-> FALSE]
    /\ phase = [s \in Sockets |-> "none"]
    /\ parent = [s \in Sockets |-> None]
    /\ fds = [f \in Fds |-> None]
    /\ fdstate = [f \in Fds |-> "CLOSED"]
    /\ socklist = {}
    /\ pipe = <<>>
    /\ mpc = "up"
    /\ opened = {}
    /\ epoll = [f \in Fds |-> {}]
    /\ wpc = "poll"
    /\ batch = {}
    /\ ctl = FALSE

Call(s) ==
    \/ \E f \in Fds : opensocket(s, f) \/ isc__socket_open(s, f)
    \/ isc__socket_listen(s)
    \/ socket_recv(s) \/ socket_send(s) \/ isc__socket_accept(s) \/ isc__socket_connect(s)
    \/ isc__socket_cancel(s)
    \/ isc__socket_attach(s) \/ isc__socket_detach(s) \/ isc__socket_close(s)

\* A thread inside create, open, close or detach.
CallStep(s) == socket_register(s) \/ closesocket(s) \/ closesocket_poke(s) \/ destroy(s)

\* A task executes an internal event, or receives what was canceled.
Internal(s) ==
    \/ \E k \in Kinds : canceled_received(s, k)
    \/ \E k \in Kinds : internal_event(s, k)
    \/ \E x \in Sockets, f \in Fds : internal_accept(s, x, f)

\* The watcher, once epoll_wait() has returned.
WatcherStep ==
    \/ \E b \in batch : process_fd(b)
    \/ process_fds_end \/ process_ctlfd \/ process_ctlfd_end

ManagerStep ==
    \/ mpc = "woken" /\ isc__socketmgr_destroy
    \/ socketmgr_shutdown \/ socketmgr_join

Next ==
    \/ \E s \in Sockets : Call(s) \/ CallStep(s) \/ Internal(s)
    \/ epoll_wait \/ WatcherStep
    \/ mpc = "up" /\ isc__socketmgr_destroy
    \/ ManagerStep

Spec == Init /\ [][Next]_vars

(* Some thread inside the library, or some task with an internal event,     *)
(* gets on; the watcher does, and reads its messages; the manager's         *)
(* destroyer does.  Nothing is assumed of callers or of the network.        *)
Fairness ==
    /\ WF_vars(\E s \in Sockets : CallStep(s) \/ Internal(s))
    /\ WF_vars(WatcherStep \/ (pipe # <<>> /\ epoll_wait))
    /\ WF_vars(ManagerStep)

FairSpec == Spec /\ Fairness

-----------------------------------------------------------------------------
\* What will make the watcher, or a task, look at one side of a socket: messages
\* that are on their way, a registration, internal events.
Tokens(s, side) ==
    LET f == sfd[s]
    IN  Cardinality({i \in DOMAIN pipe : pipe[i] = Message(f, side, s)})
        + (IF side \in epoll[f] THEN 1 ELSE 0)
        + Cardinality({k \in pending[s] : Side(k) = side})

(* "If the socket is not in the process of being closed, start watching it  *)
(* for either reads or writes" (socket.c:984-988): a request that is queued *)
(* is watched, about to be watched, or at work in a task.                   *)
RequestIsWatched ==
    \A s \in Sockets, k \in Kinds :
        requests[s][k] > 0 /\ sfd[s] # None => Tokens(s, Side(k)) > 0

(* ... and by one of these only: two would post the internal event while it *)
(* is posted already, which dispatch_recv(), dispatch_send() and            *)
(* dispatch_accept() INSIST against (socket.c:3325, 3358, 3393).  This      *)
(* holds, through cancels, failed attempts and reuse of the socket, until   *)
(* the first request of a kind finds something left that watches the        *)
(* descriptor for another kind or for what was canceled; an INSIST fails    *)
(* for such a socket only.  It does fail then: see the README.              *)
WatchedOnce ==
    /\ \A s \in Sockets : sfd[s] # None /\ ~mixed[s] =>
          /\ \A k \in Kinds : requests[s][k] > 0 => Tokens(s, Side(k)) > 0
          /\ \A side \in {"read", "write"} : Tokens(s, side) <= 1
    /\ \A b \in batch : Found(b.fd) /\ AlreadyPosted(fds[b.fd], b.ev) => mixed[fds[b.fd]]

(* The watcher finds sockets through their descriptors and tasks find them  *)
(* through internal events, without a reference of the callers: what they   *)
(* find has not been freed, and is not freed before it is done with.        *)
NoUseAfterFree ==
    /\ \A f \in Fds : fds[f] # None => life[fds[f]] = "live" /\ sfd[fds[f]] = f
    /\ \A s \in Sockets :
          /\ pending[s] # {} => life[s] = "live" /\ references[s] >= Cardinality(pending[s])
          /\ references[s] = 0 => pending[s] = {} /\ requests[s] = NoRequest

(* Descriptor numbers are used again: whatever the watcher is told about a  *)
(* descriptor is told by the socket that has it, or has it no longer and    *)
(* waits for it to be closed; it is told to close it once, when the state   *)
(* is CLOSE_PENDING (INSIST at socket.c:994); and a socket in use has its   *)
(* descriptor open and to itself.                                           *)
DescriptorIsOwned ==
    /\ \A i \in DOMAIN pipe : pipe[i].msg \in {"read", "write"} =>
          \/ fds[pipe[i].fd] = pipe[i].sock
          \/ fds[pipe[i].fd] = None /\ fdstate[pipe[i].fd] = "CLOSE_PENDING"
    /\ \A i \in DOMAIN pipe : pipe[i].msg = "close" =>
          /\ fdstate[pipe[i].fd] = "CLOSE_PENDING"
          /\ \A j \in DOMAIN pipe : j > i => pipe[j].fd # pipe[i].fd
    /\ \A s \in Sockets : Usable(s) /\ sfd[s] # None =>
          fds[sfd[s]] = s /\ fdstate[sfd[s]] = "MANAGED" /\ sfd[s] \in opened

(* The callers of isc_socket_close() see requests and references of their   *)
(* own; when these allow the call, what the code INSISTs on holds too: no   *)
(* internal event is posted and nobody else has a reference                 *)
(* (socket.c:3278-3290).  dispatch.c closes a socket when the event of the  *)
(* receive it canceled arrives, whatever still watches the descriptor.      *)
QuietWhenDone ==
    \A s \in Sockets : MayClose(s) => pending[s] = {} /\ references[s] = 1

(* When isc_socketmgr_destroy() returns every socket is freed, every        *)
(* descriptor closed and every message read: nobody will use the manager.   *)
DestroyedIsClean ==
    mpc = "down" => /\ opened = {} /\ pipe = <<>>
                    /\ \A s \in Sockets : life[s] \in {"unborn", "freed"}

(* isc_socketmgr_destroy() returns when the callers have given up their     *)
(* sockets, whatever internal events and messages are still on their way.   *)
DestroyReturns ==
    (mpc = "wait" /\ [](\A s \in Sockets : ~Usable(s) /\ requests[s] = NoRequest))
        ~> mpc = "down"
=============================================================================
