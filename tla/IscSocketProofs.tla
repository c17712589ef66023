------------------------- MODULE IscSocketProofs -------------------------
(***************************************************************************)
(* What IscSocket promises for every set of sockets and descriptors and    *)
(* every number of requests.                                               *)
(*                                                                         *)
(* SInv is the inductive invariant behind the lifetime of sockets and      *)
(* descriptors.  What has to be added to the properties: a posted internal *)
(* event has a reference of its own, and while there is a request somebody *)
(* else has one more (Accounts); where a socket is in its life, and what   *)
(* it has then (Stages); the descriptor of a socket is its own until the   *)
(* watcher has read the message to close it (Descriptor, Number, Mail).    *)
(*                                                                         *)
(* WInv is about what makes somebody look at a socket: a token that is a   *)
(* message, a registration or an internal event.  It turns from one into   *)
(* the other, there is one at most, and who waits has it, for every socket *)
(* that was not asked while one was left (~mixed).  Cancels are included:  *)
(* the token of a request that is canceled stays, and whoever asks next    *)
(* finds it.                                                               *)
(***************************************************************************)
EXTENDS IscSocket, DataProofs

Messages == [fd : Fds \cup {None}, msg : {"read", "write", "close", "shutdown"},
             sock : Sockets \cup {None}]

\* Nobody waits for an answer.
Idle(s) == requests[s] = NoRequest /\ \A x \in Sockets : parent[x] # s

\* References and requests: the posted events have references of their own, and
\* who has requests has one more.
Accounts(s) ==
    /\ references[s] >= Cardinality(pending[s])
    /\ references[s] = Cardinality(pending[s]) => Idle(s)
    /\ \A k \in pending[s] : requests[s][k] > 0 \/ k \in canceled[s]
    /\ sfd[s] = None => Idle(s) /\ pending[s] = {}
    /\ phase[s] # "none" => Idle(s) /\ pending[s] = {} /\ references[s] <= 1

\* The stages of a socket's life.
Stages(s) ==
    /\ life[s] \in {"unborn", "freed"} => references[s] = 0 /\ sfd[s] = None
    /\ life[s] = "opened" => sfd[s] # None
    /\ life[s] # "live" => Idle(s) /\ pending[s] = {} /\ phase[s] = "none"
    /\ life[s] = "live" /\ references[s] = 0 => phase[s] # "none"
    /\ phase[s] \in {"mark", "poke"} => sfd[s] # None
    /\ phase[s] = "unlink" => sfd[s] = None /\ references[s] = 0
    /\ parent[s] # None => life[s] = "opened"

\* A socket's descriptor is its own, as far as the socket has got with it.
Descriptor(s) ==
    sfd[s] # None =>
        /\ sfd[s] \in opened
        /\ \A u \in Sockets : sfd[u] = sfd[s] => u = s
        /\ life[s] = "opened" => fds[sfd[s]] = None /\ fdstate[sfd[s]] = "CLOSED" /\ epoll[sfd[s]] = {}
        /\ life[s] = "live" /\ phase[s] \in {"none", "mark"} =>
             fds[sfd[s]] = s /\ fdstate[sfd[s]] = "MANAGED"
        /\ phase[s] = "poke" => fds[sfd[s]] = None /\ fdstate[sfd[s]] = "CLOSE_PENDING"

Told(f) == \E i \in DOMAIN pipe : pipe[i].msg = "close" /\ pipe[i].fd = f

\* A descriptor is somebody's, or waits to be closed, or is not open.
Number(f) ==
    /\ fds[f] # None => /\ sfd[fds[f]] = f /\ life[fds[f]] = "live"
                        /\ phase[fds[f]] \in {"none", "mark"}
    /\ fdstate[f] = "MANAGED" => fds[f] # None
    /\ fdstate[f] = "CLOSE_PENDING" => (\E s \in Sockets : sfd[s] = f) \/ Told(f)
    /\ f \in opened => (\E s \in Sockets : sfd[s] = f) \/ Told(f)
    /\ f \notin opened => epoll[f] = {}

\* What is on its way to the watcher.
Mail(i) ==
    /\ pipe[i].msg \in {"read", "write"} =>
         /\ pipe[i].fd \in Fds /\ pipe[i].sock \in Sockets
         /\ \/ fds[pipe[i].fd] = pipe[i].sock
            \/ fds[pipe[i].fd] = None /\ fdstate[pipe[i].fd] = "CLOSE_PENDING"
    /\ pipe[i].msg = "close" =>
         /\ pipe[i].fd \in opened /\ fdstate[pipe[i].fd] = "CLOSE_PENDING"
         /\ \A s \in Sockets : sfd[s] # pipe[i].fd
         /\ \A j \in DOMAIN pipe : j > i => pipe[j].fd # pipe[i].fd
    /\ pipe[i].msg = "shutdown" => i = Len(pipe) /\ mpc = "join"

Manager ==
    /\ mpc \in {"poke", "join", "down"} => \A s \in Sockets : life[s] \in {"unborn", "freed"}
    /\ \A s \in Sockets : life[s] = "live" => s \in socklist
    /\ wpc = "exited" => mpc \in {"join", "down"} /\ pipe = <<>>
    /\ mpc = "down" => wpc = "exited"

Types ==
    /\ life \in [Sockets -> {"unborn", "opened", "live", "freed"}]
    /\ references \in [Sockets -> Nat]
    /\ sfd \in [Sockets -> Fds \cup {None}]
    /\ listener \in [Sockets -> BOOLEAN]
    /\ requests \in [Sockets -> [Kinds -> Nat]]
    /\ pending \in [Sockets -> SUBSET Kinds]
    /\ canceled \in [Sockets -> SUBSET Kinds]
    /\ phase \in [Sockets -> {"none", "mark", "poke", "unlink"}]
    /\ parent \in [Sockets -> Sockets \cup {None}]

SystemTypes ==
    /\ fds \in [Fds -> Sockets \cup {None}]
    /\ fdstate \in [Fds -> {"CLOSED", "MANAGED", "CLOSE_PENDING"}]
    /\ socklist \subseteq Sockets
    /\ pipe \in Seq(Messages)
    /\ mpc \in {"up", "wait", "woken", "poke", "join", "down"}
    /\ opened \subseteq Fds
    /\ epoll \in [Fds -> SUBSET {"read", "write"}]
    /\ wpc \in {"poll", "fds", "ctl", "exited"}
    /\ batch \subseteq [fd : Fds, ev : SUBSET {"read", "write"}]

SInv ==
    /\ Types /\ SystemTypes
    /\ \A s \in Sockets : Accounts(s) /\ Stages(s) /\ Descriptor(s)
    /\ \A f \in Fds : Number(f)
    /\ \A i \in DOMAIN pipe : Mail(i)
    /\ Manager

\* The messages that ask for a watch of s.
Asks(s) == {i \in DOMAIN pipe : /\ pipe[i].msg \in {"read", "write"}
                                /\ pipe[i].sock = s /\ pipe[i].fd = sfd[s]}

\* There is one token at most: a message, a registration or an internal event.
OneToken(s) ==
    sfd[s] # None =>
        /\ \A i, j \in Asks(s) : i = j
        /\ Asks(s) # {} => epoll[sfd[s]] = {} /\ pending[s] = {}
        /\ epoll[sfd[s]] # {} => pending[s] = {} /\ \E d \in {"read", "write"} : epoll[sfd[s]] = {d}
        /\ \A k, l \in pending[s] : k = l

\* Who waits has one, and it is for what he waits for.
Served(s) ==
    \A k \in Kinds : requests[s][k] > 0 =>
        /\ \A j \in Kinds : requests[s][j] > 0 => j = k
        /\ \A j \in pending[s] : j = k
        /\ \A i \in Asks(s) : pipe[i].msg = Side(k)
        /\ epoll[sfd[s]] \subseteq {Side(k)}
        /\ Asks(s) # {} \/ epoll[sfd[s]] # {} \/ pending[s] # {}

Tokened(s) == ~mixed[s] => OneToken(s) /\ Served(s)

Batch ==
    /\ batch # {} => wpc = "fds"
    /\ \A b \in batch :
         /\ b.fd \in Fds /\ epoll[b.fd] # {} /\ b.ev # {}
         /\ b.ev \subseteq epoll[b.fd] \/ b.ev = {"read", "write"}
         /\ \A c \in batch : c.fd = b.fd => c = b

WInv == Batch /\ mixed \in [Sockets -> BOOLEAN] /\ \A s \in Sockets : Tokened(s)

-----------------------------------------------------------------------------
\* Sets of kinds are counted.
LEMMA KindsCount ==
    ASSUME NEW P \in SUBSET Kinds
    PROVE  /\ Cardinality(P) \in Nat /\ (Cardinality(P) = 0 <=> P = {})
           /\ \A k \in P : Cardinality(P \ {k}) = Cardinality(P) - 1
           /\ \A K \in SUBSET Kinds : Cardinality(P \cup K) <= Cardinality(P) + Cardinality(K)
<1>1. IsFiniteSet(Kinds)
  <2>1. /\ IsFiniteSet({"recv"}) /\ IsFiniteSet({"send"}) /\ IsFiniteSet({"accept"}) /\ IsFiniteSet({"connect"})
    BY FS_Singleton
  <2>2. Kinds = (({"recv"} \cup {"send"}) \cup {"accept"}) \cup {"connect"}
    BY DEF Kinds
  <2> QED BY <2>1, <2>2, FS_Union
<1>2. \A K \in SUBSET Kinds : IsFiniteSet(K) /\ Cardinality(K) \in Nat
  BY <1>1, FS_Subset, FS_CardinalityType
<1>3. Cardinality(P) = 0 <=> P = {}
  BY <1>2, FS_EmptySet
<1>4. \A k \in P : Cardinality(P \ {k}) = Cardinality(P) - 1
  BY <1>2, FS_RemoveElement
<1>5. ASSUME NEW K \in SUBSET Kinds PROVE Cardinality(P \cup K) <= Cardinality(P) + Cardinality(K)
  <2>1. Cardinality(P \cup K) = Cardinality(P) + Cardinality(K) - Cardinality(P \cap K)
    BY <1>2, FS_Union
  <2>2. P \cap K \in SUBSET Kinds
    OBVIOUS
  <2>3. Cardinality(P) \in Nat /\ Cardinality(K) \in Nat /\ Cardinality(P \cap K) \in Nat
    BY <1>2, <2>2
  <2> QED BY <2>1, <2>3
<1> QED BY <1>2, <1>3, <1>4, <1>5

\* A message is appended.
LEMMA PipeAppend ==
    ASSUME NEW p \in Seq(Messages), NEW m \in Messages
    PROVE  /\ Append(p, m) \in Seq(Messages)
           /\ Len(Append(p, m)) = Len(p) + 1 /\ Len(p) \in Nat
           /\ DOMAIN p = 1 .. Len(p) /\ DOMAIN Append(p, m) = 1 .. Len(p) + 1
           /\ Append(p, m)[Len(p) + 1] = m
           /\ \A i \in 1 .. Len(p) : Append(p, m)[i] = p[i]
  OBVIOUS

\* The first message is taken.
LEMMA PipeTail ==
    ASSUME NEW p \in Seq(Messages), p # <<>>
    PROVE  /\ Tail(p) \in Seq(Messages) /\ Head(p) = p[1] /\ p[1] \in Messages
           /\ Len(Tail(p)) = Len(p) - 1 /\ Len(p) \in Nat /\ Len(p) >= 1
           /\ DOMAIN p = 1 .. Len(p) /\ DOMAIN Tail(p) = 1 .. Len(p) - 1
           /\ \A i \in 1 .. Len(p) - 1 : Tail(p)[i] = p[i + 1]
  OBVIOUS

\* The fields of a message.
LEMMA MessageIs ==
    ASSUME NEW f \in Fds \cup {None}, NEW d \in {"read", "write", "close", "shutdown"},
           NEW s \in Sockets \cup {None}
    PROVE  /\ Message(f, d, s) \in Messages
           /\ Message(f, d, s).fd = f /\ Message(f, d, s).msg = d /\ Message(f, d, s).sock = s
  BY DEF Messages, Message

\* None is neither a socket nor a descriptor.
LEMMA NoneApart == None \notin Sockets /\ None \notin Fds
  BY SocketAssumption

\* Opening a descriptor for a socket, new or closed.
LEMMA OpenKeeps ==
    ASSUME SInv, NEW s \in Sockets, NEW f \in Fds, opensocket(s, f) \/ isc__socket_open(s, f)
    PROVE  SInv'
<1>1. /\ UNCHANGED <<references, listener, requests, pending, canceled, phase, parent, mixed, fds, fdstate,
                     socklist, pipe, mpc, epoll, wpc, batch>>
      /\ opened' = opened \cup {f} /\ f \notin opened
      /\ life' = [life EXCEPT ![s] = "opened"] /\ sfd' = [sfd EXCEPT ![s] = f]
      /\ Idle(s) /\ pending[s] = {} /\ phase[s] = "none" /\ sfd[s] = None
      /\ mpc \notin {"poke", "join", "down"}
  <2>1. CASE opensocket(s, f)
    BY <2>1 DEF opensocket, mgrvars, watcher, SInv, Stages
  <2>2. CASE isc__socket_open(s, f)
    BY <2>2 DEF isc__socket_open, mgrvars, watcher, SInv, Accounts, Usable, Manager
  <2> QED BY <2>1, <2>2
<1>2. Types' /\ SystemTypes'
  BY <1>1 DEF SInv, Types, SystemTypes
<1>3. \A u \in Sockets : Accounts(u)'
  BY <1>1, NoneApart DEF SInv, Accounts, Idle, Types

<1>4. /\ fds[f] = None /\ fdstate[f] = "CLOSED" /\ epoll[f] = {} /\ \A u \in Sockets : sfd[u] # f
  BY <1>1, NoneApart DEF SInv, Number, Descriptor, Mail, Told, SystemTypes
<1>5. \A u \in Sockets : Stages(u)'
  BY <1>1, NoneApart DEF SInv, Stages, Idle, Types
<1>6. \A u \in Sockets : Descriptor(u)'
  BY <1>1, <1>4 DEF SInv, Descriptor, Types
<1>7. ASSUME NEW g \in Fds PROVE Number(g)'
  <2>1. Number(g) /\ Told(g)' = Told(g)
    BY <1>1 DEF SInv, Told
  <2>2. fds[g] # None => fds[g] # s /\ fds[g] \in Sockets
    BY <1>1, <2>1, NoneApart DEF Number, SInv, SystemTypes
  <2>3. (\E u \in Sockets : sfd[u] = g) => \E u \in Sockets : sfd'[u] = g
    BY <1>1, NoneApart DEF SInv, Types
  <2>4. sfd'[s] = f
    BY <1>1 DEF SInv, Types
  <2> QED BY <1>1, <1>4, <2>1, <2>2, <2>3, <2>4 DEF Number, SInv, Types
<1>8. \A i \in DOMAIN pipe : Mail(i)'
  BY <1>1, <1>4, NoneApart DEF SInv, Mail, Types, SystemTypes
<1>9. Manager'
  BY <1>1 DEF SInv, Manager, Types
<1> QED BY <1>1, <1>2, <1>3, <1>5, <1>6, <1>7, <1>8, <1>9 DEF SInv

\* A step that changes one socket, and perhaps the pipe.
LEMMA LocalKeeps ==
    ASSUME SInv, NEW s \in Sockets, UNCHANGED <<sfd, fds, fdstate, opened, parent>>,
           \A g \in Fds : epoll'[g] = epoll[g] \/ epoll'[g] = {},
           Types', SystemTypes', Manager', Accounts(s)', Stages(s)',
           \A u \in Sockets \ {s} :
              /\ life'[u] = life[u] /\ references'[u] = references[u] /\ phase'[u] = phase[u]
              /\ requests'[u] = requests[u] /\ pending'[u] = pending[u] /\ canceled'[u] = canceled[u],
           life'[s] = life[s] \/ sfd[s] = None,
           phase'[s] = phase[s] \/ (phase[s] = "none" /\ phase'[s] = "mark") \/ sfd[s] = None,
           \A i \in DOMAIN pipe' : Mail(i)',
           \A g \in Fds : Told(g)' = Told(g)
    PROVE  SInv'
<1>1. \A u \in Sockets : Accounts(u)' /\ Stages(u)'
  BY DEF SInv, Accounts, Stages, Idle
<1>2. ASSUME NEW u \in Sockets PROVE Descriptor(u)'
  <2>1. Descriptor(u) /\ (sfd[u] # None => sfd[u] \in Fds)
    BY DEF SInv, Types
  <2>2. u = s \/ (life'[u] = life[u] /\ phase'[u] = phase[u])
    OBVIOUS
  <2> QED BY <2>1, <2>2 DEF Descriptor
<1>3. ASSUME NEW g \in Fds PROVE Number(g)'
  <2>1. Number(g) /\ Told(g)' = Told(g) /\ (fds[g] # None => fds[g] \in Sockets)
    BY DEF SInv, SystemTypes
  <2>2. fds[g] # None => sfd[fds[g]] # None
    BY <2>1, NoneApart DEF Number
  <2> QED BY <2>1, <2>2 DEF Number
<1> QED BY <1>1, <1>2, <1>3 DEF SInv

\* The pipe does not change.
LEMMA MailSame ==
    ASSUME SInv, UNCHANGED <<fds, fdstate, pipe>>, mpc = "join" => mpc' = "join",
           opened \subseteq opened', \A u \in Sockets : sfd'[u] = sfd[u] \/ sfd'[u] \notin opened
    PROVE  /\ \A i \in DOMAIN pipe' : Mail(i)'
           /\ \A g \in Fds : Told(g)' = Told(g)
  BY DEF SInv, Mail, Told

\* The watcher is asked to watch a socket in use.
LEMMA MailAsk ==
    ASSUME SInv, NEW s \in Sockets, NEW d \in {"read", "write"},
           sfd[s] # None, life[s] = "live", phase[s] = "none",
           pipe' = Append(pipe, Message(sfd[s], d, s)), UNCHANGED <<fds, fdstate, mpc>>,
           opened \subseteq opened', \A u \in Sockets : sfd'[u] = sfd[u] \/ sfd'[u] \notin opened
    PROVE  /\ pipe' \in Seq(Messages)
           /\ \A i \in DOMAIN pipe' : Mail(i)'
           /\ \A g \in Fds : Told(g)' = Told(g)
<1>1. sfd[s] \in Fds /\ fds[sfd[s]] = s
  BY DEF SInv, Types, Descriptor
<1>2. PICK m \in Messages : m = Message(sfd[s], d, s) /\ m.msg = d /\ m.fd = sfd[s] /\ m.sock = s
  BY <1>1 DEF Messages, Message
<1>3. pipe \in Seq(Messages) /\ pipe' = Append(pipe, m)
  BY <1>2 DEF SInv, SystemTypes
<1>4. PICK n \in Nat :
        /\ pipe' \in Seq(Messages) /\ n = Len(pipe) + 1 /\ Len(pipe) \in Nat /\ DOMAIN pipe = 1 .. Len(pipe)
        /\ DOMAIN pipe' = 1 .. n /\ pipe'[n] = m /\ \A i \in DOMAIN pipe : pipe'[i] = pipe[i]
  BY <1>3, PipeAppend
<1>5. \A i \in DOMAIN pipe : pipe[i].msg # "shutdown"
  BY DEF SInv, Mail, Manager
<1>6. \A i \in DOMAIN pipe : pipe[i].msg = "close" => pipe[i].fd # sfd[s]
  BY DEF SInv, Mail
<1>7. \A i \in DOMAIN pipe' : i \in DOMAIN pipe \/ i = n
  BY <1>4
<1>8. ASSUME NEW i \in DOMAIN pipe PROVE Mail(i)'
  <2>1. Mail(i) /\ pipe'[i] = pipe[i]
    BY <1>4 DEF SInv
  <2>2. pipe[i].msg = "close" => \A j \in DOMAIN pipe' : j > i => pipe'[j].fd # pipe[i].fd
    BY <1>2, <1>4, <1>6, <1>7, <2>1 DEF Mail
  <2> QED BY <1>5, <2>1, <2>2 DEF Mail
<1>9. Mail(n)'
  BY <1>1, <1>2, <1>4 DEF Mail
<1>10. \A g \in Fds : Told(g)' = Told(g)
  <2>1. m.msg # "close" /\ \A i \in DOMAIN pipe : i \in DOMAIN pipe'
    BY <1>2, <1>4
  <2> QED BY <1>4, <1>7, <2>1 DEF Told
<1> QED BY <1>4, <1>7, <1>8, <1>9, <1>10

\* Counting what the internal events refer to.
LEMMA Referenced ==
    ASSUME SInv, NEW s \in Sockets
    PROVE  /\ references[s] \in Nat /\ Cardinality(pending[s]) \in Nat
           /\ references[s] >= Cardinality(pending[s])
           /\ Cardinality(pending[s]) = 0 <=> pending[s] = {}
           /\ references[s] = Cardinality(pending[s]) => Idle(s)
           /\ \A k \in pending[s] : Cardinality(pending[s] \ {k}) = Cardinality(pending[s]) - 1
<1>1. pending[s] \in SUBSET Kinds /\ references[s] \in Nat
  BY DEF SInv, Types
<1> QED BY <1>1, KindsCount DEF SInv, Accounts

\* isc_socket_listen().
LEMMA ListenKeeps ==
    ASSUME SInv, NEW s \in Sockets, isc__socket_listen(s)
    PROVE  SInv'
<1>1. /\ UNCHANGED <<life, references, sfd, requests, pending, canceled, phase, parent,
                     fds, fdstate, socklist, pipe, mpc, opened, epoll, wpc, batch>>
      /\ listener' = [listener EXCEPT ![s] = TRUE]
  BY DEF isc__socket_listen, mgrvars, kernel, watcher
<1>2. Types' /\ SystemTypes' /\ Manager' /\ Accounts(s)' /\ Stages(s)'
  BY <1>1 DEF SInv, Types, SystemTypes, Manager, Accounts, Stages, Idle
<1>3. /\ \A i \in DOMAIN pipe' : Mail(i)'
      /\ \A g \in Fds : Told(g)' = Told(g)
  BY <1>1, MailSame
<1> QED BY <1>1, <1>2, <1>3, LocalKeeps

\* isc_socket_cancel(): fewer requests, and their kinds are remembered.
LEMMA CancelKeeps ==
    ASSUME SInv, NEW s \in Sockets, isc__socket_cancel(s)
    PROVE  SInv'
<1>1. /\ UNCHANGED <<life, references, sfd, listener, pending, phase, parent,
                     fds, fdstate, socklist, pipe, mpc, opened, epoll, wpc, batch>>
      /\ Usable(s) /\ requests[s] # NoRequest
  BY DEF isc__socket_cancel, mgrvars, kernel, watcher
<1>2. PICK left \in [Kinds -> 0 .. MaxRequests] :
        /\ requests' = [requests EXCEPT ![s] = left]
        /\ \A k \in Kinds : left[k] <= requests[s][k]
        /\ canceled' = [canceled EXCEPT ![s] = @ \cup {k \in Kinds : left[k] < requests[s][k]}]
  BY DEF isc__socket_cancel
<1>3. left \in [Kinds -> Nat]
  BY SocketAssumption
<1>4. Types' /\ SystemTypes' /\ Manager'
  BY <1>1, <1>2, <1>3 DEF SInv, Types, SystemTypes, Manager
<1>5. ~Idle(s) /\ life[s] = "live"
  BY <1>1 DEF Idle, Usable
<1>6. \A k \in pending'[s] : requests'[s][k] > 0 \/ k \in canceled'[s]
  <2>1. SUFFICES ASSUME NEW k \in pending[s] PROVE requests'[s][k] > 0 \/ k \in canceled'[s]
    BY <1>1
  <2>2. /\ k \in Kinds /\ (requests[s][k] > 0 \/ k \in canceled[s]) /\ left[k] \in Nat
        /\ requests[s][k] \in Nat /\ left[k] <= requests[s][k] /\ requests'[s][k] = left[k]
        /\ canceled'[s] = canceled[s] \cup {j \in Kinds : left[j] < requests[s][j]}
    BY <1>2, <1>3 DEF SInv, Types, Accounts
  <2>3. left[k] > 0 \/ left[k] < requests[s][k] \/ ~(requests[s][k] > 0)
    BY <2>2
  <2> QED BY <2>2, <2>3
<1>7. Accounts(s)'
  BY <1>1, <1>5, <1>6 DEF SInv, Types, Accounts
<1>8. Stages(s)'
  BY <1>1, <1>5 DEF SInv, Stages
<1>9. /\ \A i \in DOMAIN pipe' : Mail(i)'
      /\ \A g \in Fds : Told(g)' = Told(g)
  BY <1>1, MailSame
<1>10. \A u \in Sockets \ {s} : requests'[u] = requests[u] /\ canceled'[u] = canceled[u]
  BY <1>2 DEF SInv, Types
<1> QED BY <1>1, <1>4, <1>7, <1>8, <1>9, <1>10, LocalKeeps

\* The task receives the events of what was canceled; no internal event is left.
LEMMA ReceivedKeeps ==
    ASSUME SInv, NEW s \in Sockets, NEW k \in Kinds, canceled_received(s, k)
    PROVE  SInv'
<1>1. /\ UNCHANGED <<life, references, sfd, listener, requests, pending, phase, parent,
                     fds, fdstate, socklist, pipe, mpc, opened, epoll, wpc, batch>>
      /\ canceled' = [canceled EXCEPT ![s] = @ \ {k}] /\ k \notin pending[s]
  BY DEF canceled_received, mgrvars, kernel, watcher
<1>2. canceled'[s] = canceled[s] \ {k} /\ \A u \in Sockets \ {s} : canceled'[u] = canceled[u]
  BY <1>1 DEF SInv, Types
<1>3. Types' /\ SystemTypes' /\ Manager' /\ Stages(s)'
  BY <1>1 DEF SInv, Types, SystemTypes, Manager, Stages, Idle
<1>4. Accounts(s)'
  BY <1>1, <1>2 DEF SInv, Accounts, Idle
<1>5. /\ \A i \in DOMAIN pipe' : Mail(i)'
      /\ \A g \in Fds : Told(g)' = Told(g)
  BY <1>1, MailSame
<1> QED BY <1>1, <1>2, <1>3, <1>4, <1>5, LocalKeeps

\* isc_socket_attach().
LEMMA AttachKeeps ==
    ASSUME SInv, NEW s \in Sockets, isc__socket_attach(s)
    PROVE  SInv'
<1>1. /\ UNCHANGED <<life, sfd, listener, requests, canceled, pending, phase, parent,
                     fds, fdstate, socklist, pipe, mpc, opened, epoll, wpc, batch>>
      /\ references' = [references EXCEPT ![s] = @ + 1]
      /\ life[s] = "live" /\ phase[s] = "none"
  BY DEF isc__socket_attach, mgrvars, kernel, watcher, Usable
<1>2. references'[s] = references[s] + 1
  BY <1>1 DEF SInv, Types
<1>3. Types' /\ SystemTypes' /\ Manager'
  BY <1>1 DEF SInv, Types, SystemTypes, Manager
<1>4. references'[s] > Cardinality(pending[s]) /\ references'[s] > 0
  BY <1>2, Referenced
<1>5. Accounts(s)'
  BY <1>1, <1>4, Referenced DEF SInv, Accounts, Idle
<1>6. Stages(s)'
  BY <1>1, <1>4 DEF SInv, Stages
<1>7. /\ \A i \in DOMAIN pipe' : Mail(i)'
      /\ \A g \in Fds : Told(g)' = Told(g)
  BY <1>1, MailSame
<1> QED BY <1>1, <1>3, <1>5, <1>6, <1>7, LocalKeeps DEF SInv, Types

\* isc_socket_close(): the caller has the only reference and nothing is posted.
LEMMA CloseKeeps ==
    ASSUME SInv, NEW s \in Sockets, isc__socket_close(s)
    PROVE  SInv'
<1>1. /\ UNCHANGED <<life, references, sfd, requests, canceled, pending, parent,
                     fds, fdstate, socklist, pipe, mpc, opened, epoll, wpc, batch>>
      /\ phase' = [phase EXCEPT ![s] = "mark"] /\ listener' = [listener EXCEPT ![s] = FALSE]
      /\ life[s] = "live" /\ phase[s] = "none" /\ sfd[s] # None
      /\ references[s] - Cardinality(pending[s]) = 1 /\ ~Outstanding(s) /\ canceled[s] = {}
  BY DEF isc__socket_close, mgrvars, kernel, watcher, MayClose, Usable, CallersRefs
<1>2. Idle(s)
  BY <1>1 DEF Idle, Outstanding
<1>3. pending[s] = {}
  BY <1>1, <1>2 DEF Idle, SInv, Accounts, NoRequest, Types
<1>4. references[s] = 1
  <2>1. Cardinality(pending[s]) = 0 /\ references[s] \in Nat
    BY <1>3, Referenced
  <2> QED BY <1>1, <2>1
<1>5. Types' /\ SystemTypes' /\ Manager'
  BY <1>1 DEF SInv, Types, SystemTypes, Manager
<1>6. Accounts(s)' /\ Stages(s)'
  <2>1. phase'[s] = "mark" /\ Cardinality(pending[s]) = 0 /\ Idle(s)' /\ pending'[s] = {} /\ references'[s] = 1
    BY <1>1, <1>2, <1>3, <1>4, Referenced DEF SInv, Types, Idle
  <2>2. Accounts(s)'
    BY <1>1, <2>1 DEF Accounts
  <2>3. Stages(s)'
    BY <1>1, <2>1 DEF SInv, Stages
  <2> QED BY <2>2, <2>3
<1>7. /\ \A i \in DOMAIN pipe' : Mail(i)'
      /\ \A g \in Fds : Told(g)' = Told(g)
  BY <1>1, MailSame
<1>8. phase'[s] = "mark" /\ \A u \in Sockets \ {s} : phase'[u] = phase[u]
  BY <1>1 DEF SInv, Types
<1> QED BY <1>1, <1>5, <1>6, <1>7, <1>8, LocalKeeps

\* destroy(): the descriptor has been given up.
LEMMA DestroyKeeps ==
    ASSUME SInv, NEW s \in Sockets, destroy(s)
    PROVE  SInv'
<1>1. /\ UNCHANGED <<references, sfd, requests, pending, parent,
                     fds, fdstate, pipe, opened, epoll, wpc, batch>>
      /\ phase[s] = "unlink" /\ socklist' = socklist \ {s}
      /\ life' = [life EXCEPT ![s] = "freed"]
      /\ phase' = [phase EXCEPT ![s] = "none"]
      /\ listener' = [listener EXCEPT ![s] = FALSE]
      /\ canceled' = [canceled EXCEPT ![s] = {}]
      /\ mpc' = mpc \/ (mpc = "wait" /\ mpc' = "woken")
  BY DEF destroy, mgrvars, kernel, watcher
<1>2. Types' /\ SystemTypes'
  BY <1>1 DEF SInv, Types, SystemTypes
<1>3. Manager'
  BY <1>1 DEF SInv, Types, Manager
<1>4. /\ Idle(s) /\ pending[s] = {} /\ references[s] = 0 /\ sfd[s] = None /\ life[s] = "live"
      /\ parent[s] = None
  BY <1>1 DEF SInv, Accounts, Stages
<1>5. Accounts(s)' /\ Stages(s)'
  BY <1>1, <1>4, Referenced, ZenonT(40) DEF SInv, Accounts, Stages, Idle, Types
<1>6. /\ \A i \in DOMAIN pipe' : Mail(i)'
      /\ \A g \in Fds : Told(g)' = Told(g)
  BY <1>1, MailSame
<1> QED BY <1>1, <1>2, <1>3, <1>4, <1>5, <1>6, LocalKeeps DEF SInv, Types

\* Dropping a reference: with the last one somebody is in destroy().
LEMMA DropLeaves ==
    ASSUME SInv, NEW s \in Sockets, Drop(s), phase[s] = "none", references[s] > 0
    PROVE  /\ references' \in [Sockets -> Nat] /\ references'[s] = references[s] - 1
           /\ phase' \in [Sockets -> {"none", "mark", "poke", "unlink"}]
           /\ references[s] > 1 => phase'[s] = "none"
           /\ references[s] = 1 => phase'[s] = IF sfd[s] = None THEN "unlink" ELSE "mark"
           /\ \A u \in Sockets \ {s} : references'[u] = references[u] /\ phase'[u] = phase[u]
<1>1. references[s] \in Nat /\ references \in [Sockets -> Nat] /\ phase \in [Sockets -> {"none", "mark", "poke", "unlink"}]
  BY DEF SInv, Types
<1>2. /\ references' = [references EXCEPT ![s] = @ - 1]
      /\ phase' = IF references[s] > 1 THEN phase
                  ELSE [phase EXCEPT ![s] = IF sfd[s] = None THEN "unlink" ELSE "mark"]
  BY DEF Drop
<1>3. references[s] - 1 \in Nat
  BY <1>1
<1>4. CASE references[s] > 1
  BY <1>1, <1>2, <1>3, <1>4
<1>5. CASE references[s] = 1
  BY <1>1, <1>2, <1>3, <1>5
<1> QED BY <1>1, <1>4, <1>5

\* isc_socket_detach(): the last caller has no requests.
LEMMA DetachKeeps ==
    ASSUME SInv, NEW s \in Sockets, isc__socket_detach(s)
    PROVE  SInv'
<1>1. /\ UNCHANGED <<life, sfd, listener, requests, canceled, pending, parent,
                     fds, fdstate, socklist, pipe, mpc, opened, epoll, wpc, batch>>
      /\ Drop(s) /\ life[s] = "live" /\ phase[s] = "none"
      /\ references[s] - Cardinality(pending[s]) > 0
      /\ references[s] - Cardinality(pending[s]) = 1 => Idle(s)
  BY DEF isc__socket_detach, mgrvars, kernel, watcher, Usable, CallersRefs, Idle, Outstanding
<1>2. /\ references[s] \in Nat /\ Cardinality(pending[s]) \in Nat /\ references[s] > 0
      /\ references[s] = 1 => Cardinality(pending[s]) = 0
      /\ Cardinality(pending[s]) = 0 => pending[s] = {}
  <2>1. references[s] \in Nat /\ Cardinality(pending[s]) \in Nat /\ (Cardinality(pending[s]) = 0 => pending[s] = {})
    BY Referenced
  <2> QED BY <1>1, <2>1
<1>3. /\ references' \in [Sockets -> Nat] /\ references'[s] = references[s] - 1
      /\ phase' \in [Sockets -> {"none", "mark", "poke", "unlink"}]
      /\ references[s] > 1 => phase'[s] = "none"
      /\ references[s] = 1 => phase'[s] = IF sfd[s] = None THEN "unlink" ELSE "mark"
      /\ \A u \in Sockets \ {s} : references'[u] = references[u] /\ phase'[u] = phase[u]
  BY <1>1, <1>2, DropLeaves
<1>4. Types' /\ SystemTypes' /\ Manager'
  BY <1>1, <1>3 DEF SInv, Types, SystemTypes, Manager
<1>5. Idle(s)' <=> Idle(s)
  BY <1>1 DEF Idle
<1>6. /\ references'[s] >= Cardinality(pending[s])
      /\ references'[s] = Cardinality(pending[s]) => Idle(s)
      /\ references[s] = 1 => Idle(s) /\ references'[s] = 0 /\ pending[s] = {}
      /\ references[s] > 1 => references'[s] > 0
  BY <1>1, <1>2, <1>3
<1>7. Accounts(s)'
  <2>1. phase'[s] # "none" => references[s] = 1
    BY <1>2, <1>3
  <2> QED BY <1>1, <1>5, <1>6, <2>1 DEF SInv, Accounts
<1>8. Stages(s)'
  <2>1. references[s] = 1 \/ references[s] > 1
    BY <1>2
  <2> QED BY <1>1, <1>3, <1>5, <1>6, <2>1 DEF SInv, Stages
<1>9. /\ \A i \in DOMAIN pipe' : Mail(i)'
      /\ \A g \in Fds : Told(g)' = Told(g)
  BY <1>1, MailSame
<1>10. phase'[s] = phase[s] \/ (phase[s] = "none" /\ phase'[s] = "mark") \/ sfd[s] = None
  BY <1>1, <1>2, <1>3
<1> QED BY <1>1, <1>3, <1>4, <1>7, <1>8, <1>9, <1>10, LocalKeeps

\* A request that is queued, with or without a message.
LEMMA RequestKeeps ==
    ASSUME SInv, NEW s \in Sockets, NEW k \in Kinds, socket_request(s, k)
    PROVE  SInv'
<1>1. /\ UNCHANGED <<life, references, sfd, listener, canceled, pending, phase, parent,
                     fds, fdstate, socklist, mpc, opened, epoll, wpc, batch>>
      /\ requests' = [requests EXCEPT ![s][k] = @ + 1]
      /\ life[s] = "live" /\ phase[s] = "none" /\ sfd[s] # None
      /\ references[s] - Cardinality(pending[s]) > 0
      /\ pipe' = pipe \/ pipe' = Append(pipe, Message(sfd[s], Side(k), s))
  BY DEF socket_request, mgrvars, kernel, watcher, MayAsk, Usable, CallersRefs, select_poke
<1>2. /\ requests' \in [Sockets -> [Kinds -> Nat]]
      /\ \A u \in Sockets \ {s} : requests'[u] = requests[u]
      /\ \A j \in Kinds : requests[s][j] > 0 => requests'[s][j] > 0
  <2>1. requests \in [Sockets -> [Kinds -> Nat]] /\ requests[s][k] \in Nat
    BY DEF SInv, Types
  <2>2. requests[s][k] + 1 \in Nat /\ requests[s][k] + 1 > 0
    BY <2>1
  <2> QED BY <1>1, <2>1, <2>2
<1>3. Side(k) \in {"read", "write"}
  BY DEF Side
<1>4. /\ pipe' \in Seq(Messages)
      /\ \A i \in DOMAIN pipe' : Mail(i)'
      /\ \A g \in Fds : Told(g)' = Told(g)
  <2>1. CASE pipe' = pipe
    BY <1>1, <2>1, MailSame DEF SInv, SystemTypes
  <2>2. CASE pipe' = Append(pipe, Message(sfd[s], Side(k), s))
    BY <1>1, <1>3, <2>2, MailAsk
  <2> QED BY <1>1, <2>1, <2>2
<1>5. Types' /\ SystemTypes'
  BY <1>1, <1>2, <1>4 DEF SInv, Types, SystemTypes
<1>6. Manager'
  BY <1>1 DEF SInv, Manager
<1>7. references[s] # Cardinality(pending[s])
  <2>1. references[s] \in Nat /\ Cardinality(pending[s]) \in Nat
    BY Referenced
  <2> QED BY <1>1, <2>1
<1>8. Accounts(s)'
  BY <1>1, <1>2, <1>7 DEF SInv, Accounts, Types
<1>9. Stages(s)'
  BY <1>1 DEF SInv, Stages
<1> QED BY <1>1, <1>2, <1>4, <1>5, <1>6, <1>8, <1>9, LocalKeeps

\* What an internal event leaves of its kind's requests, and what it tells the
\* watcher.
LEMMA InternalLeaves ==
    ASSUME SInv, NEW s \in Sockets, NEW k \in pending[s], NEW left \in Nat, internal_io(s, k, left)
    PROVE  /\ k \in Kinds /\ life[s] = "live" /\ phase[s] = "none" /\ sfd[s] # None /\ references[s] > 0
           /\ pending' = [pending EXCEPT ![s] = @ \ {k}] /\ Drop(s)
           /\ requests' \in [Sockets -> [Kinds -> Nat]]
           /\ \A u \in Sockets \ {s} : requests'[u] = requests[u]
           /\ \A j \in Kinds \ {k} : requests'[s][j] = requests[s][j]
           /\ requests[s] = NoRequest => requests'[s] = NoRequest
           /\ pipe' = pipe \/ pipe' = Append(pipe, Message(sfd[s], Side(k), s))
<1>1. /\ pending' = [pending EXCEPT ![s] = @ \ {k}] /\ Drop(s)
      /\ IF references[s] = 1
           THEN UNCHANGED <<requests, pipe>>
           ELSE /\ left \in 0 .. requests[s][k]
                /\ requests' = [requests EXCEPT ![s][k] = left]
                /\ pipe' = IF left > 0 THEN select_poke(pipe, s, Side(k)) ELSE pipe
  BY DEF internal_io
<1>2. k \in Kinds /\ life[s] = "live" /\ phase[s] = "none" /\ sfd[s] # None
  BY DEF SInv, Types, Accounts, Stages
<1>3. references[s] > 0
  <2>1. references[s] \in Nat /\ Cardinality(pending[s]) \in Nat /\ references[s] >= Cardinality(pending[s])
        /\ Cardinality(pending[s]) # 0
    BY Referenced
  <2> QED BY <2>1
<1>4. requests \in [Sockets -> [Kinds -> Nat]] /\ requests[s][k] \in Nat
  BY <1>2 DEF SInv, Types
<1>5. CASE references[s] = 1
  BY <1>1, <1>2, <1>3, <1>4, <1>5
<1>6. CASE references[s] # 1
  <2>1. /\ left \in Nat /\ left \in 0 .. requests[s][k] /\ requests' = [requests EXCEPT ![s][k] = left]
        /\ pipe' = pipe \/ pipe' = Append(pipe, Message(sfd[s], Side(k), s))
    BY <1>1, <1>6 DEF select_poke
  <2>2. requests[s] = NoRequest => requests'[s] = NoRequest
    <3>1. SUFFICES ASSUME requests[s] = NoRequest PROVE requests'[s] = NoRequest
      OBVIOUS
    <3>2. requests[s][k] = 0
      BY <1>2, <3>1 DEF NoRequest
    <3>3. left = 0
      BY <2>1, <3>2
    <3> QED BY <1>4, <2>1, <3>1, <3>2, <3>3
  <2> QED BY <1>1, <1>2, <1>3, <1>4, <2>1, <2>2
<1> QED BY <1>5, <1>6

\* What an internal event does to the accounts of its socket.
LEMMA InternalAccounts ==
    ASSUME SInv, NEW s \in Sockets, NEW k \in pending[s], NEW left \in Nat, internal_io(s, k, left),
           UNCHANGED canceled, life'[s] = life[s], sfd'[s] = sfd[s], parent'[s] = parent[s],
           (Idle(s) => Idle(s)')
    PROVE  /\ Accounts(s)' /\ Stages(s)'
           /\ references' \in [Sockets -> Nat] /\ pending' \in [Sockets -> SUBSET Kinds]
           /\ phase' \in [Sockets -> {"none", "mark", "poke", "unlink"}]
           /\ phase'[s] \in {"none", "mark"}
           /\ \A u \in Sockets \ {s} :
                references'[u] = references[u] /\ phase'[u] = phase[u] /\ pending'[u] = pending[u]
<1>1. /\ k \in Kinds /\ life[s] = "live" /\ phase[s] = "none" /\ sfd[s] # None /\ references[s] > 0
      /\ pending' = [pending EXCEPT ![s] = @ \ {k}] /\ Drop(s)
      /\ requests' \in [Sockets -> [Kinds -> Nat]]
      /\ \A j \in Kinds \ {k} : requests'[s][j] = requests[s][j]
  BY InternalLeaves
<1>2. /\ references' \in [Sockets -> Nat] /\ references'[s] = references[s] - 1
      /\ phase' \in [Sockets -> {"none", "mark", "poke", "unlink"}]
      /\ references[s] > 1 => phase'[s] = "none"
      /\ references[s] = 1 => phase'[s] = "mark"
      /\ \A u \in Sockets \ {s} : references'[u] = references[u] /\ phase'[u] = phase[u]
  BY <1>1, DropLeaves
<1>3. pending \in [Sockets -> SUBSET Kinds] /\ pending[s] \in SUBSET Kinds
  BY DEF SInv, Types
<1>4. /\ pending' \in [Sockets -> SUBSET Kinds] /\ pending'[s] = pending[s] \ {k}
      /\ \A u \in Sockets \ {s} : pending'[u] = pending[u]
  BY <1>1, <1>3
<1>5. /\ references[s] \in Nat /\ Cardinality(pending[s]) \in Nat /\ references[s] >= Cardinality(pending[s])
      /\ Cardinality(pending'[s]) = Cardinality(pending[s]) - 1 /\ Cardinality(pending'[s]) \in Nat
      /\ references[s] = Cardinality(pending[s]) => Idle(s)
      /\ Cardinality(pending'[s]) = 0 => pending'[s] = {}
  <2>1. pending'[s] \in SUBSET Kinds
    BY <1>3, <1>4
  <2>2. Cardinality(pending'[s]) \in Nat /\ (Cardinality(pending'[s]) = 0 => pending'[s] = {})
    BY <2>1, KindsCount
  <2> QED BY <1>4, <2>2, Referenced
<1>6. /\ references'[s] >= Cardinality(pending'[s])
      /\ references'[s] = Cardinality(pending'[s]) => Idle(s)
      /\ references[s] = 1 => references'[s] = 0 /\ Idle(s) /\ Cardinality(pending'[s]) = 0
      /\ references[s] > 1 => references'[s] > 0
      /\ references[s] = 1 \/ references[s] > 1
  <2>1. PICK r \in Nat, c \in Nat, d \in Nat :
          /\ r = references[s] /\ c = Cardinality(pending[s]) /\ d = Cardinality(pending'[s])
          /\ r >= c /\ d = c - 1 /\ r > 0 /\ references'[s] = r - 1
    BY <1>1, <1>2, <1>5
  <2>2. /\ r - 1 >= d /\ (r - 1 = d => r = c) /\ (r = 1 => c = 1 /\ d = 0 /\ r - 1 = 0)
        /\ (r > 1 => r - 1 > 0) /\ (r = 1 \/ r > 1)
    BY <2>1
  <2> QED BY <1>5, <2>1, <2>2
<1>7. phase'[s] \in {"none", "mark"} /\ (phase'[s] # "none" => references[s] = 1)
  BY <1>2, <1>6
<1>8. \A j \in pending'[s] : requests'[s][j] > 0 \/ j \in canceled'[s]
  BY <1>1, <1>3, <1>4 DEF SInv, Accounts
<1>9. Accounts(s)'
  BY <1>1, <1>5, <1>6, <1>7, <1>8 DEF Accounts
<1>10. Stages(s)'
  BY <1>1, <1>2, <1>6, <1>7 DEF SInv, Stages
<1> QED BY <1>2, <1>4, <1>7, <1>9, <1>10

\* An internal event runs.
LEMMA InternalKeeps ==
    ASSUME SInv, NEW s \in Sockets, NEW k \in Kinds, internal_event(s, k)
    PROVE  SInv'
<1>1. /\ UNCHANGED <<life, sfd, listener, canceled, parent,
                     fds, fdstate, socklist, mpc, opened, epoll, wpc, batch>>
      /\ k \in pending[s]
  BY DEF internal_event, mgrvars, kernel, watcher
<1>2. PICK left \in Nat : internal_io(s, k, left)
  BY SocketAssumption DEF internal_event
<1>3. /\ life[s] = "live" /\ phase[s] = "none" /\ sfd[s] # None
      /\ requests' \in [Sockets -> [Kinds -> Nat]]
      /\ \A u \in Sockets \ {s} : requests'[u] = requests[u]
      /\ requests[s] = NoRequest => requests'[s] = NoRequest
      /\ pipe' = pipe \/ pipe' = Append(pipe, Message(sfd[s], Side(k), s))
  BY <1>1, <1>2, InternalLeaves
<1>4. Idle(s) => Idle(s)'
  BY <1>1, <1>3 DEF Idle
<1>5. /\ Accounts(s)' /\ Stages(s)'
      /\ references' \in [Sockets -> Nat] /\ pending' \in [Sockets -> SUBSET Kinds]
      /\ phase' \in [Sockets -> {"none", "mark", "poke", "unlink"}]
      /\ phase'[s] \in {"none", "mark"}
      /\ \A u \in Sockets \ {s} :
           references'[u] = references[u] /\ phase'[u] = phase[u] /\ pending'[u] = pending[u]
  BY <1>1, <1>2, <1>4, InternalAccounts
<1>6. Side(k) \in {"read", "write"}
  BY DEF Side
<1>7. /\ pipe' \in Seq(Messages)
      /\ \A i \in DOMAIN pipe' : Mail(i)'
      /\ \A g \in Fds : Told(g)' = Told(g)
  <2>1. CASE pipe' = pipe
    BY <1>1, <2>1, MailSame DEF SInv, SystemTypes
  <2>2. CASE pipe' = Append(pipe, Message(sfd[s], Side(k), s))
    BY <1>1, <1>3, <1>6, <2>2, MailAsk
  <2> QED BY <1>3, <2>1, <2>2
<1>8. Types' /\ SystemTypes'
  BY <1>1, <1>3, <1>5, <1>7 DEF SInv, Types, SystemTypes
<1>9. Manager'
  <2>1. wpc # "exited"
    BY <1>3 DEF SInv, Manager
  <2> QED BY <1>1, <2>1 DEF SInv, Manager
<1> QED BY <1>1, <1>3, <1>5, <1>7, <1>8, <1>9, LocalKeeps

\* An internal event runs and a connection has arrived.
LEMMA AcceptKeeps ==
    ASSUME SInv, NEW s \in Sockets, NEW x \in Sockets, NEW f \in Fds, internal_accept(s, x, f)
    PROVE  SInv'
<1>1. /\ UNCHANGED <<listener, canceled, fds, fdstate, socklist, mpc, epoll, wpc, batch>>
      /\ "accept" \in pending[s] /\ references[s] > 1 /\ requests[s]["accept"] > 0
      /\ internal_io(s, "accept", requests[s]["accept"] - 1)
      /\ life[x] = "unborn" /\ f \notin opened
      /\ life' = [life EXCEPT ![x] = "opened"]
      /\ sfd' = [sfd EXCEPT ![x] = f]
      /\ opened' = opened \cup {f}
      /\ parent' = [parent EXCEPT ![x] = s]
  BY DEF internal_accept, mgrvars, watcher
<1>2. PICK left \in Nat : internal_io(s, "accept", left)
  <2>1. requests[s]["accept"] \in Nat
    BY DEF SInv, Types, Kinds
  <2>2. requests[s]["accept"] - 1 \in Nat
    BY <1>1, <2>1
  <2> QED BY <1>1, <2>2
<1>3. /\ life[s] = "live" /\ phase[s] = "none" /\ sfd[s] # None /\ Drop(s) /\ references[s] > 0
      /\ requests' \in [Sockets -> [Kinds -> Nat]]
      /\ \A u \in Sockets \ {s} : requests'[u] = requests[u]
      /\ pipe' = pipe \/ pipe' = Append(pipe, Message(sfd[s], "read", s))
  <2>1. Side("accept") = "read"
    BY DEF Side
  <2> QED BY <1>1, <1>2, <2>1, InternalLeaves
<1>4. /\ x # s /\ life'[s] = life[s] /\ sfd'[s] = sfd[s] /\ parent'[s] = parent[s]
      /\ life'[x] = "opened" /\ sfd'[x] = f /\ parent'[x] = s
      /\ \A u \in Sockets \ {x} : life'[u] = life[u] /\ sfd'[u] = sfd[u] /\ parent'[u] = parent[u]
  BY <1>1, <1>3 DEF SInv, Types
<1>5. ~Idle(s)
  BY <1>1 DEF Idle, NoRequest, Kinds
<1>6. /\ Accounts(s)' /\ Stages(s)'
      /\ references' \in [Sockets -> Nat] /\ pending' \in [Sockets -> SUBSET Kinds]
      /\ phase' \in [Sockets -> {"none", "mark", "poke", "unlink"}]
      /\ \A u \in Sockets \ {s} :
           references'[u] = references[u] /\ phase'[u] = phase[u] /\ pending'[u] = pending[u]
  BY <1>1, <1>2, <1>4, <1>5, InternalAccounts
<1>7. phase'[s] = phase[s]
  BY <1>1, <1>3, DropLeaves
<1>8. /\ pipe' \in Seq(Messages)
      /\ \A i \in DOMAIN pipe' : Mail(i)'
      /\ \A g \in Fds : Told(g)' = Told(g)
  <2>1. opened \subseteq opened' /\ \A u \in Sockets : sfd'[u] = sfd[u] \/ sfd'[u] \notin opened
    BY <1>1, <1>4
  <2>2. CASE pipe' = pipe
    BY <1>1, <2>1, <2>2, MailSame DEF SInv, SystemTypes
  <2>3. CASE pipe' = Append(pipe, Message(sfd[s], "read", s))
    BY <1>1, <1>3, <2>1, <2>3, MailAsk
  <2> QED BY <1>3, <2>2, <2>3
<1>9. Types' /\ SystemTypes'
  BY <1>1, <1>3, <1>6, <1>8 DEF SInv, Types, SystemTypes
<1>10. Manager'
  <2>1. wpc # "exited" /\ mpc \notin {"poke", "join", "down"}
    BY <1>3 DEF SInv, Manager
  <2> QED BY <1>1, <1>4, <2>1 DEF SInv, Manager
<1>11. /\ fds[f] = None /\ fdstate[f] = "CLOSED" /\ epoll[f] = {} /\ \A u \in Sockets : sfd[u] # f
  BY <1>1, NoneApart DEF SInv, Number, Descriptor, Mail, Told, SystemTypes
<1>12. /\ pending[x] = {} /\ requests[x] = NoRequest /\ phase[x] = "none" /\ references[x] = 0
       /\ \A u \in Sockets : parent[u] # x
  BY <1>1 DEF SInv, Stages, Idle
<1>13. ASSUME NEW u \in Sockets, u # s PROVE Accounts(u)' /\ Stages(u)'
  <2>1. Idle(u) => Idle(u)'
    BY <1>3, <1>4, <1>13 DEF Idle
  <2>2. CASE u = x
    <3>1. Idle(x)'
      BY <1>4, <1>12, <2>1, <2>2 DEF Idle
    <3>2. Accounts(x)
      BY DEF SInv
    <3> QED BY <1>4, <1>6, <1>12, <2>2, <3>1, <3>2, NoneApart DEF Accounts, Stages
  <2>3. CASE u # x
    <3>1. /\ life'[u] = life[u] /\ sfd'[u] = sfd[u] /\ parent'[u] = parent[u] /\ requests'[u] = requests[u]
          /\ references'[u] = references[u] /\ phase'[u] = phase[u] /\ pending'[u] = pending[u]
          /\ canceled'[u] = canceled[u]
      BY <1>1, <1>3, <1>4, <1>6, <1>13, <2>3
    <3>2. Accounts(u) /\ Stages(u)
      BY DEF SInv
    <3>3. Accounts(u)'
      BY <2>1, <3>1, <3>2 DEF Accounts
    <3> QED BY <2>1, <3>1, <3>2, <3>3 DEF Stages
  <2> QED BY <2>2, <2>3
<1>14. ASSUME NEW u \in Sockets PROVE Descriptor(u)'
  <2>1. phase'[u] = phase[u]
    BY <1>6, <1>7
  <2>2. CASE u = x
    BY <1>1, <1>4, <1>11, <1>12, <2>1, <2>2 DEF Descriptor
  <2>3. CASE u # x
    BY <1>1, <1>4, <1>11, <2>1, <2>3 DEF SInv, Descriptor
  <2> QED BY <2>2, <2>3
<1>15. ASSUME NEW g \in Fds PROVE Number(g)'
  <2>1. Number(g) /\ Told(g)' = Told(g) /\ (fds[g] # None => fds[g] \in Sockets)
    BY <1>8 DEF SInv, SystemTypes
  <2>2. fds[g] # None => fds[g] # x
    BY <1>1, <2>1 DEF Number
  <2>3. (\E u \in Sockets : sfd[u] = g) => \E u \in Sockets : sfd'[u] = g
    BY <1>1, <1>4, NoneApart DEF SInv, Stages
  <2>4. \A u \in Sockets : phase'[u] = phase[u]
    BY <1>6, <1>7
  <2> QED BY <1>1, <1>4, <1>11, <2>1, <2>2, <2>3, <2>4 DEF Number
<1> QED BY <1>6, <1>8, <1>9, <1>10, <1>13, <1>14, <1>15 DEF SInv

\* The socket becomes visible: nobody has spoken of its descriptor.
LEMMA RegisterKeeps ==
    ASSUME SInv, NEW s \in Sockets, socket_register(s)
    PROVE  SInv'
<1>1. PICK f \in Fds : f = sfd[s]
  BY DEF socket_register, SInv, Stages, Types
<1>2. /\ UNCHANGED <<sfd, listener, requests, pending, canceled, phase, pipe, mpc, opened, epoll, wpc, batch>>
      /\ life[s] = "opened" /\ life' = [life EXCEPT ![s] = "live"]
      /\ references' = [references EXCEPT ![s] = 1]
      /\ fds' = [fds EXCEPT ![f] = s] /\ fdstate' = [fdstate EXCEPT ![f] = "MANAGED"]
      /\ socklist' = socklist \cup {s} /\ parent' = [parent EXCEPT ![s] = None]
  BY <1>1 DEF socket_register, kernel, watcher
<1>3. Types' /\ SystemTypes'
  BY <1>2 DEF SInv, Types, SystemTypes
<1>4. /\ fds'[f] = s /\ fdstate'[f] = "MANAGED"
      /\ \A g \in Fds \ {f} : fds'[g] = fds[g] /\ fdstate'[g] = fdstate[g]
      /\ life'[s] = "live" /\ references'[s] = 1 /\ parent'[s] = None
      /\ \A u \in Sockets \ {s} : life'[u] = life[u] /\ references'[u] = references[u] /\ parent'[u] = parent[u]
  BY <1>2 DEF SInv, Types, SystemTypes
<1>5. Manager'
  BY <1>2, <1>4 DEF SInv, Manager
<1>6. /\ pending[s] = {} /\ phase[s] = "none" /\ Idle(s) /\ f \in opened /\ fds[f] = None
      /\ fdstate[f] = "CLOSED" /\ \A u \in Sockets : sfd[u] = f => u = s
  BY <1>1, <1>2, NoneApart DEF SInv, Stages, Descriptor
<1>7. ASSUME NEW u \in Sockets PROVE Accounts(u)' /\ Stages(u)'
  <2>1. Idle(u) => Idle(u)'
    BY <1>2, <1>4, NoneApart DEF Idle
  <2>2. CASE u = s
    BY <1>1, <1>2, <1>4, <1>6, <2>1, <2>2, NoneApart, KindsCount DEF SInv, Accounts, Stages
  <2>3. CASE u # s
    BY <1>2, <1>4, <2>1, <2>3 DEF SInv, Accounts, Stages
  <2> QED BY <2>2, <2>3
<1>8. ASSUME NEW u \in Sockets PROVE Descriptor(u)'
  <2>1. CASE u = s
    BY <1>1, <1>2, <1>4, <1>6, <2>1 DEF Descriptor
  <2>2. CASE u # s
    BY <1>1, <1>2, <1>4, <1>6, <2>2 DEF SInv, Descriptor, Types
  <2> QED BY <2>1, <2>2
<1>9. ASSUME NEW g \in Fds PROVE Number(g)'
  <2>1. Number(g) /\ Told(g)' = Told(g) /\ (fds[g] # None => fds[g] \in Sockets)
    BY <1>2 DEF SInv, Told, SystemTypes
  <2>2. CASE g = f
    BY <1>1, <1>2, <1>4, <1>6, <2>1, <2>2, NoneApart DEF Number
  <2>3. CASE g # f
    <3>1. fds[g] # None => fds[g] # s
      BY <1>2, <2>1 DEF Number
    <3> QED BY <1>1, <1>2, <1>4, <2>1, <2>3, <3>1 DEF Number
  <2> QED BY <2>2, <2>3
<1>10. ASSUME NEW i \in DOMAIN pipe PROVE Mail(i)'
  <2>1. Mail(i)
    BY DEF SInv
  <2>2. pipe[i].msg \in {"read", "write", "close"} => pipe[i].fd # f
    BY <1>1, <1>6, <2>1, NoneApart DEF Mail
  <2>3. pipe[i].msg = "close" => pipe[i].fd \in Fds
    BY <2>1 DEF Mail, SInv, SystemTypes
  <2> QED BY <1>2, <1>4, <2>1, <2>2, <2>3 DEF Mail
<1> QED BY <1>2, <1>3, <1>5, <1>7, <1>8, <1>9, <1>10 DEF SInv

\* closesocket(): the descriptor is marked.
LEMMA ClosesocketKeeps ==
    ASSUME SInv, NEW s \in Sockets, closesocket(s)
    PROVE  SInv'
<1>1. PICK f \in Fds : f = sfd[s]
  BY DEF closesocket, SInv, Stages, Types
<1>2. /\ UNCHANGED <<life, references, sfd, listener, requests, pending, canceled, parent, socklist, pipe, mpc,
                     opened, epoll, wpc, batch>>
      /\ phase[s] = "mark" /\ phase' = [phase EXCEPT ![s] = "poke"]
      /\ fds' = [fds EXCEPT ![f] = None] /\ fdstate' = [fdstate EXCEPT ![f] = "CLOSE_PENDING"]
  BY <1>1 DEF closesocket, kernel, watcher
<1>3. Types' /\ SystemTypes'
  BY <1>2 DEF SInv, Types, SystemTypes
<1>4. /\ fds'[f] = None /\ fdstate'[f] = "CLOSE_PENDING"
      /\ \A g \in Fds \ {f} : fds'[g] = fds[g] /\ fdstate'[g] = fdstate[g]
      /\ phase'[s] = "poke" /\ \A u \in Sockets \ {s} : phase'[u] = phase[u]
  BY <1>2 DEF SInv, Types, SystemTypes
<1>5. Manager'
  BY <1>2 DEF SInv, Manager
<1>6. /\ life[s] = "live" /\ sfd[s] # None /\ \A u \in Sockets : sfd[u] = f => u = s
  BY <1>1, <1>2, NoneApart DEF SInv, Stages, Descriptor
<1>7. \A u \in Sockets : Accounts(u)'
  BY <1>2, <1>4 DEF SInv, Accounts, Idle
<1>8. \A u \in Sockets : Stages(u)'
  BY <1>2, <1>4, <1>6 DEF SInv, Stages, Idle
<1>9. ASSUME NEW u \in Sockets PROVE Descriptor(u)'
  <2>1. CASE u = s
    BY <1>1, <1>2, <1>4, <1>6, <2>1 DEF Descriptor, SInv
  <2>2. CASE u # s
    BY <1>1, <1>2, <1>4, <1>6, <2>2 DEF SInv, Descriptor, Types
  <2> QED BY <2>1, <2>2
<1>10. ASSUME NEW g \in Fds PROVE Number(g)'
  <2>1. Number(g) /\ Told(g)' = Told(g) /\ (fds[g] # None => fds[g] \in Sockets)
    BY <1>2 DEF SInv, Told, SystemTypes
  <2>2. CASE g = f
    BY <1>1, <1>2, <1>4, <2>1, <2>2 DEF Number
  <2>3. CASE g # f
    BY <1>1, <1>2, <1>4, <2>1, <2>3 DEF Number
  <2> QED BY <2>2, <2>3
<1>11. ASSUME NEW i \in DOMAIN pipe PROVE Mail(i)'
  <2>1. Mail(i)
    BY DEF SInv
  <2>2. pipe[i].msg = "close" => pipe[i].fd \in Fds
    BY <2>1 DEF Mail, SInv, SystemTypes
  <2> QED BY <1>2, <1>4, <2>1, <2>2 DEF Mail
<1> QED BY <1>2, <1>3, <1>5, <1>7, <1>8, <1>9, <1>10, <1>11 DEF SInv

\* The watcher is told to close a descriptor.
LEMMA PokeKeeps ==
    ASSUME SInv, NEW s \in Sockets, closesocket_poke(s)
    PROVE  SInv'
<1>1. PICK f \in Fds : f = sfd[s]
  BY DEF closesocket_poke, SInv, Stages, Types
<1>2. /\ UNCHANGED <<life, references, listener, requests, pending, canceled, parent, fds, fdstate, socklist, mpc,
                     opened, epoll, wpc, batch>>
      /\ phase[s] = "poke" /\ phase' = [phase EXCEPT ![s] = IF CallersRefs(s) = 0 THEN "unlink" ELSE "none"]
      /\ pipe' = Append(pipe, Message(f, "close", s)) /\ sfd' = [sfd EXCEPT ![s] = None]
  BY <1>1 DEF closesocket_poke, kernel, watcher, mgrvars, select_poke
<1>3. /\ life[s] = "live" /\ f # None /\ f \in opened /\ (\A u \in Sockets : sfd[u] = f => u = s)
      /\ fds[f] = None /\ fdstate[f] = "CLOSE_PENDING" /\ Idle(s) /\ pending[s] = {}
  BY <1>1, <1>2, NoneApart DEF SInv, Stages, Descriptor, Accounts
<1>4. PICK m \in Messages : m = Message(f, "close", s) /\ m.msg = "close" /\ m.fd = f
  BY MessageIs
<1>5. PICK n \in Nat :
        /\ pipe' \in Seq(Messages) /\ n = Len(pipe) + 1 /\ Len(pipe) \in Nat /\ DOMAIN pipe = 1 .. Len(pipe)
        /\ DOMAIN pipe' = 1 .. n /\ pipe'[n] = m /\ \A i \in DOMAIN pipe : pipe'[i] = pipe[i]
  <2>1. pipe \in Seq(Messages) /\ pipe' = Append(pipe, m)
    BY <1>2, <1>4 DEF SInv, SystemTypes
  <2> QED BY <2>1, PipeAppend
<1>6. Types' /\ SystemTypes'
  BY <1>2, <1>5 DEF SInv, Types, SystemTypes
<1>7. /\ sfd'[s] = None /\ \A u \in Sockets \ {s} : sfd'[u] = sfd[u] /\ phase'[u] = phase[u]
      /\ phase'[s] = IF references[s] = 0 THEN "unlink" ELSE "none"
  <2>1. CallersRefs(s) = 0 <=> references[s] = 0
    <3>1. Cardinality(pending[s]) = 0 /\ references[s] \in Nat
      BY <1>3, Referenced
    <3> QED BY <3>1 DEF CallersRefs
  <2> QED BY <1>2, <2>1 DEF SInv, Types
<1>8. Manager'
  BY <1>2, <1>3 DEF SInv, Manager
<1>9. ASSUME NEW u \in Sockets PROVE Accounts(u)' /\ Stages(u)'
  <2>1. Idle(u)' <=> Idle(u)
    BY <1>2 DEF Idle
  <2>2. Accounts(u) /\ Stages(u)
    BY DEF SInv
  <2>3. CASE u = s
    BY <1>2, <1>3, <1>7, <2>1, <2>2, <2>3 DEF Accounts, Stages
  <2>4. CASE u # s
    BY <1>2, <1>7, <2>1, <2>2, <2>4 DEF Accounts, Stages
  <2> QED BY <2>3, <2>4
<1>10. \A u \in Sockets : Descriptor(u)'
  BY <1>2, <1>7 DEF SInv, Descriptor
<1>11. \A i \in DOMAIN pipe' : i \in DOMAIN pipe \/ i = n
  BY <1>5
<1>12. n \in DOMAIN pipe' /\ \A i \in DOMAIN pipe : i \in DOMAIN pipe'
  BY <1>5
<1>13. ASSUME NEW g \in Fds PROVE Number(g)'
  <2>1. Number(g) /\ (fds[g] # None => fds[g] \in Sockets)
    BY DEF SInv, SystemTypes
  <2>2. CASE g = f
    <3>1. Told(f)'
      BY <1>4, <1>5, <1>12 DEF Told
    <3> QED BY <1>2, <1>3, <2>1, <2>2, <3>1 DEF Number
  <2>3. CASE g # f
    <3>1. Told(g) => Told(g)'
      BY <1>5, <1>12 DEF Told
    <3>2. (\E u \in Sockets : sfd[u] = g) => \E u \in Sockets : sfd'[u] = g
      BY <1>1, <1>7, <2>3
    <3>3. fds[g] # None => fds[g] # s
      BY <1>2, <2>1 DEF Number
    <3> QED BY <1>2, <1>7, <2>1, <3>1, <3>2, <3>3 DEF Number
  <2> QED BY <2>2, <2>3
<1>14. ASSUME NEW i \in DOMAIN pipe PROVE Mail(i)'
  <2>1. Mail(i) /\ pipe'[i] = pipe[i] /\ pipe[i].msg # "shutdown"
    BY <1>3, <1>5 DEF SInv, Mail, Manager
  <2>2. pipe[i].msg = "close" => pipe[i].fd # f /\ pipe[i].fd \in Fds
    BY <1>1, <2>1 DEF Mail, SInv, SystemTypes
  <2>3. pipe[i].msg = "close" => \A j \in DOMAIN pipe' : j > i => pipe'[j].fd # pipe[i].fd
    BY <1>4, <1>5, <1>11, <2>1, <2>2 DEF Mail
  <2>4. pipe[i].msg = "close" => \A u \in Sockets : sfd'[u] # pipe[i].fd
    BY <1>7, <2>1, <2>2, NoneApart DEF Mail
  <2> QED BY <1>2, <2>1, <2>3, <2>4 DEF Mail
<1>15. Mail(n)'
  <2>1. \A u \in Sockets : sfd'[u] # f
    BY <1>3, <1>7, NoneApart
  <2>2. \A j \in DOMAIN pipe' : ~(j > n)
    BY <1>5
  <2> QED BY <1>2, <1>3, <1>4, <1>5, <2>1, <2>2 DEF Mail
<1>16. \A i \in DOMAIN pipe' : Mail(i)'
  BY <1>11, <1>14, <1>15
<1> QED BY <1>6, <1>8, <1>9, <1>10, <1>13, <1>16 DEF SInv

\* A step of the watcher or the manager that touches no socket and no message.
LEMMA QuietKeeps ==
    ASSUME SInv, UNCHANGED <<sockvars, fds, fdstate, socklist, pipe, opened, epoll>>,
           mpc' = mpc \/ mpc # "join", SystemTypes', Manager'
    PROVE  SInv'
<1>1. /\ UNCHANGED <<life, references, sfd, listener, requests, pending, canceled, phase, parent>>
      /\ UNCHANGED <<fds, fdstate, pipe, opened, epoll>>
  BY DEF sockvars
<1>2. Types' /\ \A s \in Sockets : Accounts(s)' /\ Stages(s)' /\ Descriptor(s)'
  BY <1>1 DEF SInv, Types, Accounts, Stages, Descriptor, Idle
<1>3. \A f \in Fds : Number(f)'
  BY <1>1 DEF SInv, Number, Told
<1>4. \A i \in DOMAIN pipe' : Mail(i)'
  BY <1>1 DEF SInv, Mail
<1> QED BY <1>2, <1>3, <1>4 DEF SInv

\* The watcher polls, or is done with descriptors or messages.
LEMMA WaitKeeps ==
    ASSUME SInv, epoll_wait \/ process_fds_end \/ process_ctlfd_end
    PROVE  SInv'
<1>1. UNCHANGED <<sockvars, fds, fdstate, socklist, pipe, opened, epoll, mpc>> /\ wpc # "exited"
  BY DEF epoll_wait, process_fds_end, process_ctlfd_end, mgrvars, kernel
<1>2. wpc' \in {"poll", "fds", "ctl"}
  BY DEF epoll_wait, process_fds_end, process_ctlfd_end
<1>3. batch' \subseteq [fd : Fds, ev : SUBSET {"read", "write"}]
  <2>1. CASE epoll_wait
    <3>1. PICK ready \in SUBSET {f \in Fds : epoll[f] # {}} :
            \E ev \in [ready -> SUBSET {"read", "write"}] : batch' = {[fd |-> f, ev |-> ev[f]] : f \in ready}
      BY <2>1 DEF epoll_wait
    <3>2. PICK ev \in [ready -> SUBSET {"read", "write"}] : batch' = {[fd |-> f, ev |-> ev[f]] : f \in ready}
      BY <3>1
    <3> QED BY <3>1, <3>2
  <2>2. CASE process_fds_end \/ process_ctlfd_end
    BY <2>2 DEF process_fds_end, process_ctlfd_end, SInv, SystemTypes
  <2> QED BY <2>1, <2>2
<1>4. SystemTypes'
  BY <1>1, <1>2, <1>3 DEF SInv, SystemTypes
<1>5. Manager'
  BY <1>1, <1>2 DEF SInv, Manager, sockvars
<1> QED BY <1>1, <1>4, <1>5, QuietKeeps

\* isc_socketmgr_destroy() looks at the list: an accepted socket has a parent in it.
LEMMA ManagerKeeps ==
    ASSUME SInv, isc__socketmgr_destroy
    PROVE  SInv'
<1>1. /\ UNCHANGED <<sockvars, fds, fdstate, socklist, pipe, opened, epoll, wpc, batch>>
      /\ mpc \in {"up", "woken"} /\ mpc' = IF socklist = {} THEN "poke" ELSE "wait"
      /\ \A s \in Sockets : life[s] = "opened" => parent[s] # None
  BY DEF isc__socketmgr_destroy, mgrvars, kernel, watcher
<1>2. SystemTypes'
  BY <1>1 DEF SInv, SystemTypes
<1>3. socklist = {} => \A s \in Sockets : life[s] \in {"unborn", "freed"}
  <2>1. SUFFICES ASSUME socklist = {}, NEW s \in Sockets PROVE life[s] \in {"unborn", "freed"}
    OBVIOUS
  <2>2. \A u \in Sockets : life[u] # "live"
    BY <2>1 DEF SInv, Manager
  <2>3. \A u \in Sockets : parent[s] # u
    BY <2>2 DEF SInv, Stages, Idle
  <2>4. life[s] # "opened"
    BY <1>1, <2>3 DEF SInv, Types
  <2> QED BY <2>2, <2>4 DEF SInv, Types
<1>4. Manager'
  BY <1>1, <1>3 DEF SInv, Manager, sockvars
<1> QED BY <1>1, <1>2, <1>4, QuietKeeps

\* When the sockets are gone, nothing is open but what waits to be closed.
LEMMA GoneIsClosed ==
    ASSUME SInv, mpc \in {"poke", "join", "down"}
    PROVE  /\ \A s \in Sockets : sfd[s] = None /\ life[s] \in {"unborn", "freed"}
           /\ pipe = <<>> => opened = {} /\ \A f \in Fds : fdstate[f] # "CLOSE_PENDING"
<1>1. \A s \in Sockets : sfd[s] = None /\ life[s] \in {"unborn", "freed"}
  BY DEF SInv, Manager, Stages
<1>2. ASSUME pipe = <<>> PROVE opened = {} /\ \A f \in Fds : fdstate[f] # "CLOSE_PENDING"
  <2>1. \A f \in Fds : ~Told(f)
    BY <1>2 DEF Told
  <2>2. \A f \in Fds : f \notin opened /\ fdstate[f] # "CLOSE_PENDING"
    BY <1>1, <2>1, NoneApart DEF SInv, Number
  <2> QED BY <2>2 DEF SInv, SystemTypes
<1> QED BY <1>1, <1>2

\* The thread is joined: nothing is left to close.
LEMMA JoinKeeps ==
    ASSUME SInv, socketmgr_join
    PROVE  SInv'
<1>1. /\ UNCHANGED <<sockvars, fds, fdstate, socklist, pipe, epoll, wpc, batch>>
      /\ mpc = "join" /\ wpc = "exited" /\ mpc' = "down"
      /\ opened' = opened \ {f \in Fds : fdstate[f] = "CLOSE_PENDING"}
  BY DEF socketmgr_join, mgrvars, watcher
<1>2. pipe = <<>>
  BY <1>1 DEF SInv, Manager
<1>3. opened' = opened
  BY <1>1, <1>2, GoneIsClosed
<1>4. SystemTypes'
  BY <1>1, <1>3 DEF SInv, SystemTypes
<1>5. Manager'
  BY <1>1 DEF SInv, Manager, sockvars
<1>6. /\ UNCHANGED <<life, references, sfd, listener, requests, pending, canceled, phase, parent>>
      /\ UNCHANGED <<fds, fdstate, pipe, opened, epoll>>
  BY <1>1, <1>3 DEF sockvars
<1>7. Types' /\ \A s \in Sockets : Accounts(s)' /\ Stages(s)' /\ Descriptor(s)'
  BY <1>6 DEF SInv, Types, Accounts, Stages, Descriptor, Idle
<1>8. \A f \in Fds : Number(f)'
  BY <1>6 DEF SInv, Number, Told
<1>9. \A i \in DOMAIN pipe' : FALSE
  BY <1>2, <1>6
<1> QED BY <1>4, <1>5, <1>7, <1>8, <1>9 DEF SInv

\* The last message.
LEMMA ShutdownKeeps ==
    ASSUME SInv, socketmgr_shutdown
    PROVE  SInv'
<1>1. /\ UNCHANGED <<sockvars, fds, fdstate, socklist, opened, epoll, wpc, batch>>
      /\ mpc = "poke" /\ mpc' = "join" /\ pipe' = Append(pipe, Message(None, "shutdown", None))
  BY DEF socketmgr_shutdown, mgrvars, watcher, kernel
<1>2. /\ UNCHANGED <<life, references, sfd, listener, requests, pending, canceled, phase, parent>>
      /\ UNCHANGED <<fds, fdstate, opened, epoll>>
  BY <1>1 DEF sockvars
<1>3. PICK m \in Messages : m = Message(None, "shutdown", None) /\ m.msg = "shutdown" /\ m.fd = None
  BY MessageIs
<1>4. PICK n \in Nat :
        /\ pipe' \in Seq(Messages) /\ n = Len(pipe) + 1 /\ Len(pipe) \in Nat /\ DOMAIN pipe = 1 .. Len(pipe)
        /\ DOMAIN pipe' = 1 .. n /\ pipe'[n] = m /\ \A i \in DOMAIN pipe : pipe'[i] = pipe[i]
        /\ Len(pipe') = n
  <2>1. pipe \in Seq(Messages) /\ pipe' = Append(pipe, m)
    BY <1>1, <1>3 DEF SInv, SystemTypes
  <2> QED BY <2>1, PipeAppend
<1>5. Types' /\ SystemTypes'
  BY <1>1, <1>2, <1>4 DEF SInv, Types, SystemTypes
<1>6. Manager'
  BY <1>1, <1>2 DEF SInv, Manager
<1>7. \A s \in Sockets : Accounts(s)' /\ Stages(s)' /\ Descriptor(s)'
  BY <1>2 DEF SInv, Accounts, Stages, Descriptor, Idle
<1>8. \A i \in DOMAIN pipe' : i \in DOMAIN pipe \/ i = n
  BY <1>4
<1>9. \A f \in Fds : Told(f) => Told(f)'
  BY <1>4 DEF Told
<1>10. \A f \in Fds : Number(f)'
  BY <1>2, <1>9 DEF SInv, Number
<1>11. ASSUME NEW i \in DOMAIN pipe PROVE Mail(i)'
  <2>1. Mail(i) /\ pipe'[i] = pipe[i] /\ pipe[i].msg # "shutdown"
    BY <1>1, <1>4 DEF SInv, Mail
  <2>2. pipe[i].msg = "close" => pipe[i].fd # None
    BY <2>1, NoneApart DEF Mail, SInv, SystemTypes
  <2>3. pipe[i].msg = "close" => \A j \in DOMAIN pipe' : j > i => pipe'[j].fd # pipe[i].fd
    BY <1>3, <1>4, <1>8, <2>1, <2>2 DEF Mail
  <2> QED BY <1>2, <2>1, <2>3 DEF Mail
<1>12. Mail(n)'
  BY <1>1, <1>3, <1>4 DEF Mail
<1> QED BY <1>5, <1>6, <1>7, <1>8, <1>10, <1>11, <1>12 DEF SInv

\* The watcher finds a descriptor ready: whoever gets an internal event waits
\* for it.
LEMMA ProcessKeeps ==
    ASSUME SInv, NEW b \in batch, process_fd(b)
    PROVE  SInv'
<1>1. PICK f \in Fds : f = b.fd
  BY DEF SInv, SystemTypes
<1>2. /\ UNCHANGED <<life, sfd, listener, requests, canceled, phase, parent, fds, fdstate, socklist,
                     pipe, mpc, opened, wpc>>
      /\ epoll' = [epoll EXCEPT ![f] = {}] /\ batch' = batch \ {b}
  BY <1>1 DEF process_fd, unwatch_fd, mgrvars
<1>3. PICK s \in Sockets \cup {None} : s = fds[f]
  BY DEF SInv, SystemTypes
<1>4. PICK K \in SUBSET Kinds :
        /\ K # {} => s # None /\ references[s] # 0 /\ \A k \in K : requests[s][k] > 0
        /\ pending' = IF K = {} THEN pending ELSE [pending EXCEPT ![s] = @ \cup K]
        /\ references' = IF K = {} THEN references ELSE [references EXCEPT ![s] = @ + Cardinality(K)]
  <2> DEFINE L == IF Found(f) THEN Dispatched(s, b.ev) ELSE {}
  <2>1. L \in SUBSET Kinds /\ (L # {} => s # None /\ references[s] # 0 /\ \A k \in L : requests[s][k] > 0)
    BY <1>3 DEF Dispatched, Found
  <2>2. /\ pending' = IF L = {} THEN pending ELSE [pending EXCEPT ![s] = @ \cup L]
        /\ references' = IF L = {} THEN references ELSE [references EXCEPT ![s] = @ + Cardinality(L)]
    BY <1>1, <1>3 DEF process_fd
  <2> HIDE DEF L
  <2> QED BY <2>1, <2>2
<1>5. \A g \in Fds : epoll'[g] = epoll[g] \/ epoll'[g] = {}
  BY <1>2 DEF SInv, SystemTypes
<1>6. SystemTypes' /\ Manager'
  BY <1>2 DEF SInv, SystemTypes, Manager
<1>7. /\ \A i \in DOMAIN pipe' : Mail(i)'
      /\ \A g \in Fds : Told(g)' = Told(g)
  BY <1>2, MailSame
<1>8. CASE K = {}
  <2>1. UNCHANGED <<pending, references>>
    BY <1>4, <1>8
  <2>2. Types' /\ \A u \in Sockets : Accounts(u)' /\ Stages(u)'
    BY <1>2, <2>1 DEF SInv, Types, Accounts, Stages, Idle
  <2>3. ASSUME NEW u \in Sockets PROVE Descriptor(u)'
    BY <1>2, <1>5 DEF SInv, Descriptor, Types
  <2>4. ASSUME NEW g \in Fds PROVE Number(g)'
    BY <1>2, <1>5, <1>7 DEF SInv, Number
  <2> QED BY <1>6, <1>7, <2>2, <2>3, <2>4 DEF SInv
<1>9. CASE K # {}
  <2>1. /\ s \in Sockets /\ references[s] # 0 /\ ~Idle(s)
        /\ pending' = [pending EXCEPT ![s] = @ \cup K]
        /\ references' = [references EXCEPT ![s] = @ + Cardinality(K)]
    BY <1>4, <1>9 DEF Idle, NoRequest
  <2>2. Cardinality(K) \in Nat /\ references \in [Sockets -> Nat] /\ pending \in [Sockets -> SUBSET Kinds]
    BY KindsCount DEF SInv, Types
  <2>3. /\ references'[s] = references[s] + Cardinality(K) /\ pending'[s] = pending[s] \cup K
        /\ \A u \in Sockets \ {s} : references'[u] = references[u] /\ pending'[u] = pending[u]
        /\ references' \in [Sockets -> Nat] /\ pending' \in [Sockets -> SUBSET Kinds]
    BY <2>1, <2>2
  <2>4. Types'
    BY <1>2, <2>3 DEF SInv, Types
  <2>5. references'[s] > Cardinality(pending'[s]) /\ references'[s] > 0
    <3>1. Cardinality(pending'[s]) <= Cardinality(pending[s]) + Cardinality(K) /\ Cardinality(pending'[s]) \in Nat
      BY <2>1, <2>2, <2>3, KindsCount
    <3>2. /\ references[s] \in Nat /\ Cardinality(pending[s]) \in Nat /\ references[s] >= Cardinality(pending[s])
          /\ references[s] # Cardinality(pending[s])
      BY <2>1, Referenced
    <3> QED BY <2>2, <2>3, <3>1, <3>2
  <2>6. phase[s] = "none" /\ sfd[s] # None /\ life[s] = "live"
    BY <2>1 DEF SInv, Accounts, Stages
  <2>7. \A k \in pending'[s] : requests[s][k] > 0 \/ k \in canceled[s]
    BY <1>4, <1>9, <2>1, <2>3 DEF SInv, Accounts
  <2>8. Accounts(s)'
    <3>1. references'[s] \in Nat /\ Cardinality(pending'[s]) \in Nat
      BY <2>1, <2>3, KindsCount
    <3>2. references'[s] >= Cardinality(pending'[s]) /\ references'[s] # Cardinality(pending'[s])
      BY <2>5, <3>1
    <3> QED BY <1>2, <2>6, <2>7, <3>2 DEF Accounts
  <2>9. Stages(s)'
    BY <1>2, <2>1, <2>5, <2>6 DEF SInv, Stages
  <2> QED BY <1>2, <1>5, <1>6, <1>7, <2>1, <2>3, <2>4, <2>8, <2>9, LocalKeeps
<1> QED BY <1>8, <1>9

\* The watcher reads a message.
LEMMA CtlKeeps ==
    ASSUME SInv, process_ctlfd
    PROVE  SInv'
<1>1. /\ UNCHANGED <<sockvars, fds, socklist, mpc, batch>>
      /\ wpc = "ctl" /\ pipe # <<>> /\ pipe' = Tail(pipe)
  BY DEF process_ctlfd
<1>2. UNCHANGED <<life, references, sfd, listener, requests, pending, canceled, phase, parent>>
  BY <1>1 DEF sockvars
<1>3. PICK n \in Nat :
        /\ pipe' \in Seq(Messages) /\ Head(pipe) = pipe[1] /\ pipe[1] \in Messages
        /\ n >= 1 /\ n = Len(pipe) /\ Len(pipe') = n - 1
        /\ DOMAIN pipe = 1 .. n /\ DOMAIN pipe' = 1 .. n - 1
        /\ \A i \in 1 .. n - 1 : pipe'[i] = pipe[i + 1]
  <2>1. pipe \in Seq(Messages)
    BY DEF SInv, SystemTypes
  <2> QED BY <1>1, <2>1, PipeTail
<1>4. PICK m \in Messages : m = pipe[1] /\ m = Head(pipe)
  BY <1>3
<1>5. 1 \in DOMAIN pipe /\ \A i \in DOMAIN pipe' : i + 1 \in DOMAIN pipe /\ pipe'[i] = pipe[i + 1]
  BY <1>3
<1>6. \A j \in DOMAIN pipe : j = 1 \/ \E i \in DOMAIN pipe' : j = i + 1
  <2>1. ASSUME NEW j \in 1 .. n, j # 1 PROVE j - 1 \in 1 .. n - 1 /\ j = (j - 1) + 1
    BY <2>1
  <2> QED BY <1>3, <2>1
<1>7. \A u \in Sockets : Accounts(u)' /\ Stages(u)'
  BY <1>2 DEF SInv, Accounts, Stages, Idle
<1>8. Types'
  BY <1>2 DEF SInv, Types
\* What the messages that remain say of the pipe does not change.
<1>9. ASSUME NEW i \in DOMAIN pipe'
      PROVE  /\ pipe[i + 1].msg = "close" => \A j \in DOMAIN pipe' : j > i => pipe'[j].fd # pipe'[i].fd
             /\ pipe[i + 1].msg = "shutdown" => i = Len(pipe') /\ mpc = "join"
  <2>1. Mail(i + 1) /\ i \in Nat /\ i + 1 \in DOMAIN pipe /\ pipe'[i] = pipe[i + 1]
    BY <1>3, <1>5 DEF SInv
  <2>2. ASSUME pipe[i + 1].msg = "close", NEW j \in DOMAIN pipe', j > i PROVE pipe'[j].fd # pipe'[i].fd
    <3>1. j + 1 \in DOMAIN pipe /\ pipe'[j] = pipe[j + 1] /\ j + 1 > i + 1
      BY <1>3, <1>5, <2>1, <2>2
    <3> QED BY <2>1, <2>2, <3>1 DEF Mail
  <2>3. pipe[i + 1].msg = "shutdown" => i + 1 = n /\ mpc = "join"
    BY <1>3, <2>1 DEF Mail
  <2> QED BY <1>3, <2>1, <2>2, <2>3
<1>10. CASE m.msg = "shutdown"
  <2>1. UNCHANGED <<fdstate, opened, epoll>> /\ wpc' = "exited"
    BY <1>4, <1>10 DEF process_ctlfd, kernel
  <2>2. n = 1 /\ mpc = "join"
    BY <1>3, <1>4, <1>5, <1>10 DEF SInv, Mail
  <2>3. pipe' = <<>> /\ DOMAIN pipe' = {}
    BY <1>3, <2>2
  <2>4. SystemTypes' /\ Manager'
    BY <1>1, <1>2, <1>3, <2>1, <2>2, <2>3 DEF SInv, SystemTypes, Manager
  <2>5. \A f \in Fds : ~Told(f)
    BY <1>4, <1>6, <1>10, <2>3 DEF Told
  <2>6. \A u \in Sockets : Descriptor(u)'
    BY <1>1, <1>2, <2>1 DEF SInv, Descriptor
  <2>7. \A f \in Fds : Number(f)'
    BY <1>1, <1>2, <2>1, <2>5 DEF SInv, Number
  <2> QED BY <1>7, <1>8, <2>3, <2>4, <2>6, <2>7 DEF SInv
<1>11. CASE m.msg = "close"
  <2>1. PICK f \in Fds : f = m.fd /\ f \in opened /\ \A u \in Sockets : sfd[u] # f
    BY <1>4, <1>5, <1>11 DEF SInv, Mail, SystemTypes
  <2>2. /\ fdstate' = [fdstate EXCEPT ![f] = "CLOSED"] /\ epoll' = [epoll EXCEPT ![f] = {}]
        /\ opened' = opened \ {f} /\ wpc' = wpc
    BY <1>4, <1>11, <2>1 DEF process_ctlfd, wakeup_socket, unwatch_fd
  <2>3. /\ fdstate'[f] = "CLOSED" /\ epoll'[f] = {}
        /\ \A g \in Fds \ {f} : fdstate'[g] = fdstate[g] /\ epoll'[g] = epoll[g] /\ (g \in opened' <=> g \in opened)
    BY <2>2 DEF SInv, SystemTypes
  <2>4. SystemTypes' /\ Manager'
    BY <1>1, <1>2, <1>3, <2>2 DEF SInv, SystemTypes, Manager
  <2>5. fds[f] = None
    BY <2>1 DEF SInv, Number, SystemTypes
  <2>6. ASSUME NEW u \in Sockets PROVE Descriptor(u)'
    <3>1. Descriptor(u) /\ (sfd[u] # None => sfd[u] \in Fds \ {f})
      BY <2>1 DEF SInv, Types
    <3>2. sfd[u] # None => /\ fdstate'[sfd[u]] = fdstate[sfd[u]] /\ epoll'[sfd[u]] = epoll[sfd[u]]
                           /\ (sfd[u] \in opened' <=> sfd[u] \in opened)
      BY <2>3, <3>1
    <3> QED BY <1>1, <1>2, <3>1, <3>2 DEF Descriptor
  <2>7. ASSUME NEW g \in Fds PROVE Number(g)'
    <3>1. CASE g = f
      BY <1>1, <2>2, <2>3, <2>5, <3>1 DEF Number
    <3>2. CASE g # f
      <4>1. Told(g) => Told(g)'
        BY <1>4, <1>5, <1>6, <2>1, <3>2 DEF Told
      <4> QED BY <1>1, <1>2, <2>3, <3>2, <4>1 DEF SInv, Number
    <3> QED BY <3>1, <3>2
  <2>8. ASSUME NEW i \in DOMAIN pipe' PROVE Mail(i)'
    <3>1. Mail(i + 1) /\ pipe'[i] = pipe[i + 1] /\ pipe[i + 1].fd # f
      <4>1. i + 1 \in DOMAIN pipe /\ i + 1 > 1 /\ Mail(1)
        BY <1>3, <1>5 DEF SInv
      <4> QED BY <1>4, <1>5, <1>11, <2>1, <4>1 DEF SInv, Mail
    <3>2. pipe[i + 1].msg = "close" => pipe[i + 1].fd \in Fds
      BY <3>1 DEF Mail, SInv, SystemTypes
    <3> QED BY <1>1, <1>2, <1>9, <2>3, <3>1, <3>2 DEF Mail
  <2> QED BY <1>7, <1>8, <2>4, <2>6, <2>7, <2>8 DEF SInv
<1>12. CASE m.msg \in {"read", "write"}
  <2>1. PICK f \in Fds : f = m.fd
    BY <1>4, <1>5, <1>12 DEF SInv, Mail
  <2>2. UNCHANGED <<fdstate, opened, wpc>>
    BY <1>4, <1>12 DEF process_ctlfd, wakeup_socket
  <2>3. /\ epoll' \in [Fds -> SUBSET {"read", "write"}]
        /\ \A g \in Fds : epoll'[g] = epoll[g] \/ epoll'[g] = {} \/ fdstate[g] = "MANAGED"
    <3>1. epoll \in [Fds -> SUBSET {"read", "write"}]
      BY DEF SInv, SystemTypes
    <3>2. CASE fdstate[f] = "CLOSE_PENDING"
      <4>1. epoll' = [epoll EXCEPT ![f] = {}]
        BY <1>4, <1>12, <2>1, <3>2 DEF process_ctlfd, wakeup_socket, unwatch_fd
      <4> QED BY <3>1, <4>1
    <3>3. CASE fdstate[f] = "MANAGED"
      <4>1. epoll' = IF epoll[f] = {} THEN [epoll EXCEPT ![f] = {m.msg}] ELSE epoll
        BY <1>4, <1>12, <2>1, <3>3 DEF process_ctlfd, wakeup_socket, watch_fd
      <4> QED BY <1>12, <3>1, <3>3, <4>1
    <3>4. CASE fdstate[f] \notin {"CLOSE_PENDING", "MANAGED"}
      <4>1. epoll' = epoll
        BY <1>4, <1>12, <2>1, <3>4 DEF process_ctlfd, wakeup_socket
      <4> QED BY <3>1, <4>1
    <3> QED BY <3>2, <3>3, <3>4
  <2>4. SystemTypes' /\ Manager'
    BY <1>1, <1>2, <1>3, <2>2, <2>3 DEF SInv, SystemTypes, Manager
  <2>5. ASSUME NEW u \in Sockets PROVE Descriptor(u)'
    <3>1. Descriptor(u) /\ (sfd[u] # None => sfd[u] \in Fds)
      BY DEF SInv, Types
    <3>2. sfd[u] # None /\ life[u] = "opened" => epoll'[sfd[u]] = {}
      BY <2>3, <3>1 DEF Descriptor
    <3> QED BY <1>1, <1>2, <2>2, <3>1, <3>2 DEF Descriptor
  <2>6. ASSUME NEW g \in Fds PROVE Number(g)'
    <3>1. Told(g) => Told(g)'
      BY <1>4, <1>5, <1>6, <1>12 DEF Told
    <3>2. fdstate[g] = "MANAGED" => g \in opened
      <4>1. Number(g) /\ (fds[g] # None => fds[g] \in Sockets)
        BY DEF SInv, SystemTypes
      <4> QED BY <4>1, NoneApart DEF Number, SInv, Descriptor
    <3> QED BY <1>1, <1>2, <2>2, <2>3, <3>1, <3>2 DEF SInv, Number
  <2>7. ASSUME NEW i \in DOMAIN pipe' PROVE Mail(i)'
    <3>1. Mail(i + 1) /\ pipe'[i] = pipe[i + 1]
      BY <1>5 DEF SInv
    <3> QED BY <1>1, <1>2, <1>9, <2>2, <3>1 DEF Mail
  <2> QED BY <1>7, <1>8, <2>4, <2>5, <2>6, <2>7 DEF SInv
<1> QED BY <1>4, <1>10, <1>11, <1>12 DEF Messages

\* SInv holds at the start.
LEMMA InitSInv == Init => SInv
<1>1. SUFFICES ASSUME Init PROVE SInv
  OBVIOUS
<1>2. Types /\ SystemTypes /\ Manager
  BY <1>1, NoneApart DEF Init, Types, SystemTypes, Manager, NoRequest
<1>3. Cardinality({}) = 0
  BY FS_EmptySet
<1>4. \A s \in Sockets : Accounts(s) /\ Stages(s) /\ Descriptor(s)
  BY <1>1, <1>3, NoneApart DEF Init, Accounts, Stages, Descriptor, Idle
<1>5. \A f \in Fds : Number(f)
  BY <1>1 DEF Init, Number
<1>6. \A i \in DOMAIN pipe : Mail(i)
  BY <1>1 DEF Init
<1> QED BY <1>2, <1>4, <1>5, <1>6 DEF SInv

\* The four operations that queue a request.
LEMMA Requesting ==
    ASSUME NEW s \in Sockets,
           socket_recv(s) \/ socket_send(s) \/ isc__socket_accept(s) \/ isc__socket_connect(s)
    PROVE  \E k \in Kinds : socket_request(s, k)
<1>1. {"recv", "send", "accept", "connect"} = Kinds
  BY DEF Kinds
<1> QED BY <1>1 DEF socket_recv, socket_send, isc__socket_accept, isc__socket_connect

\* Every step keeps SInv.
LEMMA NextSInv == SInv /\ [Next]_vars => SInv'
<1>1. SUFFICES ASSUME SInv, [Next]_vars PROVE SInv'
  OBVIOUS
<1>2. ASSUME NEW s \in Sockets, Call(s) PROVE SInv'
  BY <1>1, <1>2, Requesting, OpenKeeps, ListenKeeps, RequestKeeps, CancelKeeps, AttachKeeps, DetachKeeps,
     CloseKeeps DEF Call
<1>3. ASSUME NEW s \in Sockets, CallStep(s) PROVE SInv'
  BY <1>1, <1>3, RegisterKeeps, ClosesocketKeeps, PokeKeeps, DestroyKeeps DEF CallStep
<1>4. ASSUME NEW s \in Sockets, Internal(s) PROVE SInv'
  BY <1>1, <1>4, ReceivedKeeps, InternalKeeps, AcceptKeeps DEF Internal
<1>5. ASSUME epoll_wait \/ WatcherStep PROVE SInv'
  BY <1>1, <1>5, WaitKeeps, ProcessKeeps, CtlKeeps DEF WatcherStep
<1>6. ASSUME isc__socketmgr_destroy \/ ManagerStep PROVE SInv'
  BY <1>1, <1>6, ManagerKeeps, ShutdownKeeps, JoinKeeps DEF ManagerStep
<1>7. ASSUME UNCHANGED vars PROVE SInv'
  <2>1. UNCHANGED <<sockvars, fds, fdstate, socklist, pipe, opened, epoll, mpc, wpc, batch>>
    BY <1>7 DEF vars, mgrvars, kernel, watcher
  <2>2. SystemTypes' /\ Manager'
    BY <1>1, <2>1 DEF SInv, SystemTypes, Manager, sockvars
  <2> QED BY <1>1, <2>1, <2>2, QuietKeeps
<1> QED BY <1>1, <1>2, <1>3, <1>4, <1>5, <1>6, <1>7 DEF Next

\* SInv is an invariant.
LEMMA AlwaysSInv == Spec => []SInv
  BY InitSInv, NextSInv, PTL DEF Spec

(* What the watcher finds through manager->fds and a task through an        *)
(* internal event is not freed: destroy() comes after the last reference,   *)
(* internal events count, and a socket without references is not asked for  *)
(* anything (socket.c: destroy(), dispatch_recv(), internal_recv()).        *)
THEOREM NothingFreedIsFound == Spec => []NoUseAfterFree
<1>1. SInv => NoUseAfterFree
  <2>1. SUFFICES ASSUME SInv PROVE NoUseAfterFree
    OBVIOUS
  <2>2. \A f \in Fds : fds[f] # None => life[fds[f]] = "live" /\ sfd[fds[f]] = f
    BY <2>1 DEF SInv, Number
  <2>3. ASSUME NEW s \in Sockets
        PROVE  /\ pending[s] # {} => life[s] = "live" /\ references[s] >= Cardinality(pending[s])
               /\ references[s] = 0 => pending[s] = {} /\ requests[s] = NoRequest
    <3>1. /\ references[s] \in Nat /\ Cardinality(pending[s]) \in Nat
          /\ references[s] >= Cardinality(pending[s])
          /\ Cardinality(pending[s]) = 0 <=> pending[s] = {}
          /\ references[s] = Cardinality(pending[s]) => Idle(s)
      BY <2>1, Referenced
    <3>2. pending[s] # {} => life[s] = "live"
      BY <2>1 DEF SInv, Stages
    <3>3. references[s] = 0 => Cardinality(pending[s]) = 0
      BY <3>1
    <3> QED BY <3>1, <3>2, <3>3 DEF Idle
  <2> QED BY <2>2, <2>3 DEF NoUseAfterFree
<1> QED BY <1>1, AlwaysSInv, PTL

(* A message in the pipe is about a descriptor its sender still has, or     *)
(* that waits to be closed; the watcher is told once to close it, after     *)
(* everything else it is told about it, and finds it CLOSE_PENDING, as      *)
(* wakeup_socket() INSISTs; a descriptor in use is open and is its          *)
(* socket's alone, though numbers are used again.                           *)
THEOREM DescriptorsHaveOwners == Spec => []DescriptorIsOwned
<1>1. SInv => DescriptorIsOwned
  BY DEF SInv, DescriptorIsOwned, Mail, Descriptor, Usable
<1> QED BY <1>1, AlwaysSInv, PTL

(* What isc_socket_close() INSISTs on, no internal event and no reference   *)
(* but the caller's, follows from what callers can see.                     *)
THEOREM ClosingIsQuiet == Spec => []QuietWhenDone
<1>1. SInv => QuietWhenDone
  <2>1. SUFFICES ASSUME SInv, NEW s \in Sockets, MayClose(s) PROVE pending[s] = {} /\ references[s] = 1
    BY DEF QuietWhenDone
  <2>2. requests[s] = NoRequest /\ canceled[s] = {} /\ references[s] - Cardinality(pending[s]) = 1
    BY <2>1 DEF MayClose, Outstanding, CallersRefs
  <2>3. pending[s] = {}
    BY <2>1, <2>2 DEF SInv, Accounts, NoRequest, Types
  <2>4. Cardinality(pending[s]) = 0 /\ references[s] \in Nat
    BY <2>1, <2>3, Referenced
  <2> QED BY <2>2, <2>3, <2>4
<1> QED BY <1>1, AlwaysSInv, PTL

(* When isc_socketmgr_destroy() returns, sockets are freed, descriptors     *)
(* closed and messages read.                                                *)
THEOREM ManagerLeavesNothing == Spec => []DestroyedIsClean
<1>1. SInv => DestroyedIsClean
  <2>1. SUFFICES ASSUME SInv, mpc = "down" PROVE DestroyedIsClean
    BY DEF DestroyedIsClean
  <2>2. pipe = <<>>
    BY <2>1 DEF SInv, Manager
  <2> QED BY <2>1, <2>2, GoneIsClosed DEF DestroyedIsClean
<1> QED BY <1>1, AlwaysSInv, PTL

-----------------------------------------------------------------------------
\* The messages that ask for a watch, when one is added and when one is read.
LEMMA AsksAppend ==
    ASSUME SInv, NEW m \in Messages, pipe' = Append(pipe, m), NEW u \in Sockets, sfd'[u] = sfd[u]
    PROVE  /\ \A i \in Asks(u) : pipe'[i] = pipe[i]
           /\ ~(m.msg \in {"read", "write"} /\ m.sock = u /\ m.fd = sfd[u]) => Asks(u)' = Asks(u)
           /\ m.msg \in {"read", "write"} /\ m.sock = u /\ m.fd = sfd[u] =>
                \E n \in Nat : Asks(u)' = Asks(u) \cup {n} /\ pipe'[n] = m
<1>1. PICK n \in Nat :
        /\ n = Len(pipe) + 1 /\ Len(pipe) \in Nat /\ DOMAIN pipe = 1 .. Len(pipe)
        /\ DOMAIN pipe' = 1 .. n /\ pipe'[n] = m /\ \A i \in DOMAIN pipe : pipe'[i] = pipe[i]
  <2>1. pipe \in Seq(Messages)
    BY DEF SInv, SystemTypes
  <2> QED BY <2>1, PipeAppend
<1>2. DOMAIN pipe' = DOMAIN pipe \cup {n}
  BY <1>1
<1>3. n \notin DOMAIN pipe
  BY <1>1
<1> QED BY <1>1, <1>2, <1>3 DEF Asks

\* One is read.
LEMMA AsksTail ==
    ASSUME SInv, pipe # <<>>, pipe' = Tail(pipe), NEW u \in Sockets, sfd'[u] = sfd[u]
    PROVE  /\ pipe[1] = Head(pipe) /\ pipe[1] \in Messages /\ 1 \in DOMAIN pipe
           /\ \A i \in Asks(u)' : i + 1 \in Asks(u) /\ pipe'[i] = pipe[i + 1] /\ i \in Nat /\ i >= 1
           /\ \A j \in Asks(u) : j = 1 \/ \E i \in Asks(u)' : j = i + 1
<1>1. PICK n \in Nat :
        /\ pipe[1] = Head(pipe) /\ pipe[1] \in Messages /\ n >= 1
        /\ DOMAIN pipe = 1 .. n /\ DOMAIN pipe' = 1 .. n - 1
        /\ \A i \in 1 .. n - 1 : pipe'[i] = pipe[i + 1]
  <2>1. pipe \in Seq(Messages)
    BY DEF SInv, SystemTypes
  <2> QED BY <2>1, PipeTail
<1>2. ASSUME NEW i \in Asks(u)' PROVE i + 1 \in Asks(u) /\ pipe'[i] = pipe[i + 1] /\ i \in Nat /\ i >= 1
  <2>1. i \in 1 .. n - 1 /\ pipe'[i].msg \in {"read", "write"} /\ pipe'[i].sock = u /\ pipe'[i].fd = sfd[u]
    BY <1>1, <1>2 DEF Asks
  <2>2. i + 1 \in 1 .. n /\ pipe'[i] = pipe[i + 1]
    BY <1>1, <2>1
  <2> QED BY <1>1, <2>1, <2>2 DEF Asks
<1>3. ASSUME NEW j \in Asks(u), j # 1 PROVE \E i \in Asks(u)' : j = i + 1
  <2>1. j \in 1 .. n /\ pipe[j].msg \in {"read", "write"} /\ pipe[j].sock = u /\ pipe[j].fd = sfd[u]
    BY <1>1 DEF Asks
  <2>2. PICK i \in 1 .. n - 1 : j = i + 1
    <3>1. j - 1 \in 1 .. n - 1 /\ j = (j - 1) + 1
      BY <1>3, <2>1
    <3> QED BY <3>1
  <2>3. i \in Asks(u)'
    BY <1>1, <2>1, <2>2 DEF Asks
  <2> QED BY <2>2, <2>3
<1>4. 1 \in DOMAIN pipe
  BY <1>1
<1> QED BY <1>1, <1>2, <1>3, <1>4

\* A socket whose tokens and requests stay.
LEMMA TokensSame ==
    ASSUME SInv, NEW u \in Sockets, Tokened(u),
           Asks(u)' = Asks(u), \A i \in Asks(u) : pipe'[i] = pipe[i],
           sfd'[u] = sfd[u], pending'[u] = pending[u], requests'[u] = requests[u], mixed'[u] = mixed[u],
           sfd[u] # None => epoll'[sfd[u]] = epoll[sfd[u]]
    PROVE  Tokened(u)'
<1>1. SUFFICES ASSUME ~mixed[u] PROVE OneToken(u)' /\ Served(u)'
  BY DEF Tokened
<1>2. sfd[u] = None => \A k \in Kinds : ~(requests[u][k] > 0)
  BY DEF SInv, Accounts, Idle, NoRequest
<1>3. OneToken(u)'
  BY <1>1 DEF Tokened, OneToken
<1>4. Served(u)'
  <2>1. SUFFICES ASSUME NEW k \in Kinds, requests'[u][k] > 0
                 PROVE  /\ \A j \in Kinds : requests'[u][j] > 0 => j = k
                        /\ \A j \in pending'[u] : j = k
                        /\ \A i \in Asks(u)' : pipe'[i].msg = Side(k)
                        /\ epoll'[sfd'[u]] \subseteq {Side(k)}
                        /\ Asks(u)' # {} \/ epoll'[sfd'[u]] # {} \/ pending'[u] # {}
    BY DEF Served
  <2>2. requests[u][k] > 0 /\ sfd[u] # None
    BY <1>2, <2>1
  <2> QED BY <1>1, <2>2 DEF Tokened, Served
<1> QED BY <1>3, <1>4

\* Steps that touch no token.
LEMMA CalmKeeps ==
    ASSUME SInv, WInv, UNCHANGED <<sfd, requests, pending, mixed, pipe, epoll>>, Batch'
    PROVE  WInv'
<1>1. ASSUME NEW u \in Sockets PROVE Tokened(u)'
  <2>1. Asks(u)' = Asks(u)
    BY DEF Asks
  <2> QED BY <2>1, TokensSame DEF WInv
<1> QED BY <1>1 DEF WInv

\* What epoll_wait() returned stays true.
LEMMA BatchSame ==
    ASSUME WInv, UNCHANGED <<epoll, wpc, batch>>
    PROVE  Batch'
  BY DEF WInv, Batch

\* Calls that touch no token.
LEMMA CalmCalls ==
    ASSUME SInv, WInv, NEW s \in Sockets,
           \/ socket_register(s) \/ isc__socket_listen(s) \/ isc__socket_attach(s)
           \/ isc__socket_detach(s) \/ isc__socket_close(s) \/ closesocket(s) \/ destroy(s)
           \/ \E k \in Kinds : canceled_received(s, k)
    PROVE  WInv'
<1>1. UNCHANGED <<sfd, requests, pending, mixed, pipe, epoll, wpc, batch>>
  BY DEF socket_register, isc__socket_listen, isc__socket_attach, isc__socket_detach, isc__socket_close,
         closesocket, destroy, canceled_received, mgrvars, kernel, watcher
<1>2. Batch'
  BY <1>1, BatchSame DEF WInv
<1> QED BY <1>1, <1>2, CalmKeeps

\* Nothing is known about a descriptor that is not open.
LEMMA Unopened ==
    ASSUME SInv, NEW f \in Fds, f \notin opened
    PROVE  /\ epoll[f] = {}
           /\ \A i \in DOMAIN pipe : ~(pipe[i].msg \in {"read", "write"} /\ pipe[i].fd = f)
<1>1. /\ fds[f] = None /\ fdstate[f] = "CLOSED" /\ epoll[f] = {}
  BY NoneApart DEF SInv, Number, Descriptor, Mail, Told, SystemTypes
<1>2. ASSUME NEW i \in DOMAIN pipe, pipe[i].msg \in {"read", "write"}, pipe[i].fd = f PROVE FALSE
  <2>1. pipe[i].sock \in Sockets /\ (fds[f] = pipe[i].sock \/ fdstate[f] = "CLOSE_PENDING")
    BY <1>2 DEF SInv, Mail
  <2> QED BY <1>1, <2>1, NoneApart
<1> QED BY <1>1, <1>2

\* A descriptor nobody has said anything about.
LEMMA OpenTokens ==
    ASSUME SInv, WInv, NEW s \in Sockets, NEW f \in Fds, opensocket(s, f) \/ isc__socket_open(s, f)
    PROVE  WInv'
<1>1. /\ UNCHANGED <<requests, pending, mixed, pipe, epoll, wpc, batch>>
      /\ f \notin opened /\ sfd' = [sfd EXCEPT ![s] = f]
      /\ Idle(s) /\ pending[s] = {}
  <2>1. CASE opensocket(s, f)
    BY <2>1 DEF opensocket, mgrvars, watcher, SInv, Stages
  <2>2. CASE isc__socket_open(s, f)
    BY <2>2 DEF isc__socket_open, mgrvars, watcher, SInv, Accounts, Usable
  <2> QED BY <2>1, <2>2
<1>2. sfd'[s] = f /\ \A u \in Sockets \ {s} : sfd'[u] = sfd[u]
  BY <1>1 DEF SInv, Types
<1>3. Batch' /\ mixed' \in [Sockets -> BOOLEAN]
  BY <1>1, BatchSame DEF WInv
<1>4. ASSUME NEW u \in Sockets, u # s PROVE Tokened(u)'
  <2>1. Asks(u)' = Asks(u)
    BY <1>1, <1>2, <1>4 DEF Asks
  <2> QED BY <1>1, <1>2, <1>4, <2>1, TokensSame DEF WInv
<1>5. Tokened(s)'
  <2>1. Asks(s)' = {} /\ epoll[f] = {}
    BY <1>1, <1>2, Unopened DEF Asks
  <2>2. \A k \in Kinds : ~(requests'[s][k] > 0)
    BY <1>1 DEF NoRequest, Idle
  <2> QED BY <1>1, <1>2, <2>1, <2>2 DEF Tokened, OneToken, Served
<1> QED BY <1>3, <1>4, <1>5 DEF WInv

\* The descriptor is given up: nobody waits.
LEMMA PokeTokens ==
    ASSUME SInv, WInv, NEW s \in Sockets, closesocket_poke(s)
    PROVE  WInv'
<1>1. PICK f \in Fds : f = sfd[s]
  BY DEF closesocket_poke, SInv, Stages, Types
<1>2. /\ UNCHANGED <<requests, pending, epoll, wpc, batch>> /\ mixed' = [mixed EXCEPT ![s] = FALSE]
      /\ phase[s] = "poke" /\ pipe' = Append(pipe, Message(f, "close", s)) /\ sfd' = [sfd EXCEPT ![s] = None]
  BY <1>1 DEF closesocket_poke, kernel, watcher, select_poke
<1>3. Idle(s)
  BY <1>2 DEF SInv, Accounts
<1>4. /\ sfd'[s] = None /\ \A u \in Sockets \ {s} : sfd'[u] = sfd[u] /\ mixed'[u] = mixed[u]
      /\ mixed' \in [Sockets -> BOOLEAN]
  BY <1>2 DEF SInv, Types, WInv
<1>5. Batch'
  BY <1>2, BatchSame
<1>6. ASSUME NEW u \in Sockets, u # s PROVE Tokened(u)'
  <2>1. PICK m \in Messages : m = Message(f, "close", s) /\ m.msg = "close"
    BY MessageIs
  <2>2. Asks(u)' = Asks(u) /\ \A i \in Asks(u) : pipe'[i] = pipe[i]
    BY <1>2, <1>4, <1>6, <2>1, AsksAppend
  <2> QED BY <1>2, <1>4, <1>6, <2>2, TokensSame DEF WInv
<1>7. Tokened(s)'
  <2>1. \A k \in Kinds : ~(requests'[s][k] > 0)
    BY <1>2, <1>3 DEF NoRequest, Idle
  <2> QED BY <1>4, <2>1 DEF Tokened, OneToken, Served
<1> QED BY <1>4, <1>5, <1>6, <1>7 DEF WInv

\* Who is left waits for the same token.
LEMMA CancelTokens ==
    ASSUME SInv, WInv, NEW s \in Sockets, isc__socket_cancel(s)
    PROVE  WInv'
<1>1. UNCHANGED <<sfd, pending, mixed, pipe, epoll, wpc, batch>>
  BY DEF isc__socket_cancel, mgrvars, kernel, watcher
<1>2. PICK left \in [Kinds -> 0 .. MaxRequests] :
        /\ requests' = [requests EXCEPT ![s] = left] /\ \A k \in Kinds : left[k] <= requests[s][k]
  BY DEF isc__socket_cancel
<1>3. requests'[s] = left /\ \A u \in Sockets \ {s} : requests'[u] = requests[u]
  BY <1>1, <1>2 DEF SInv, Types
<1>4. \A k \in Kinds : requests'[s][k] > 0 => requests[s][k] > 0
  <2>1. ASSUME NEW k \in Kinds, requests'[s][k] > 0 PROVE requests[s][k] > 0
    <3>1. requests[s][k] \in Nat /\ left[k] \in Nat /\ left[k] > 0 /\ left[k] <= requests[s][k]
      BY <1>2, <1>3, <2>1, SocketAssumption DEF SInv, Types
    <3> QED BY <3>1
  <2> QED BY <2>1
<1>5. Batch'
  BY <1>1, BatchSame
<1>6. \A u \in Sockets : Asks(u)' = Asks(u)
  BY <1>1 DEF Asks
<1>7. ASSUME NEW u \in Sockets, u # s PROVE Tokened(u)'
  BY <1>1, <1>3, <1>6, <1>7, TokensSame DEF WInv
<1>8. ASSUME ~mixed[s] PROVE OneToken(s)' /\ Served(s)'
  <2>1. OneToken(s) /\ Served(s)
    BY <1>8 DEF WInv, Tokened
  <2>2. OneToken(s)'
    BY <1>1, <1>6, <2>1 DEF OneToken
  <2>3. Served(s)'
    BY <1>1, <1>4, <1>6, <2>1 DEF Served
  <2> QED BY <2>2, <2>3
<1> QED BY <1>1, <1>5, <1>7, <1>8 DEF WInv, Tokened

\* The first request of a socket creates the token, the others find it; one that
\* finds something else is recorded.
LEMMA RequestTokens ==
    ASSUME SInv, WInv, NEW s \in Sockets, NEW k \in Kinds, socket_request(s, k)
    PROVE  WInv'
<1>1. /\ UNCHANGED <<sfd, pending, epoll, wpc, batch>>
      /\ requests' = [requests EXCEPT ![s][k] = @ + 1] /\ sfd[s] # None
      /\ mixed' = [mixed EXCEPT ![s] = Mixes(s, k)]
      /\ pipe' = IF NeedsPoke(s, k) THEN Append(pipe, Message(sfd[s], Side(k), s)) ELSE pipe
  BY DEF socket_request, mgrvars, kernel, watcher, MayAsk, select_poke
<1>2. /\ requests[s] \in [Kinds -> Nat] /\ requests'[s][k] = requests[s][k] + 1
      /\ \A j \in Kinds \ {k} : requests'[s][j] = requests[s][j]
      /\ \A u \in Sockets \ {s} : requests'[u] = requests[u]
      /\ mixed[s] \in BOOLEAN /\ Mixes(s, k) \in BOOLEAN
  BY <1>1 DEF SInv, Types, WInv, Mixes
<1>3. Batch' /\ Tokened(s) /\ Side(k) \in {"read", "write"} /\ sfd[s] \in Fds
  BY <1>1, BatchSame DEF WInv, Side, SInv, Types
<1>4. /\ mixed' \in [Sockets -> BOOLEAN] /\ mixed'[s] = Mixes(s, k)
      /\ \A u \in Sockets \ {s} : mixed'[u] = mixed[u]
  BY <1>1, <1>2 DEF WInv
<1>5. PICK m \in Messages : m = Message(sfd[s], Side(k), s) /\ m.msg = Side(k) /\ m.sock = s /\ m.fd = sfd[s]
  BY <1>3, MessageIs
<1>6. pipe' = pipe \/ pipe' = Append(pipe, m)
  BY <1>1, <1>5
<1>7. ASSUME NEW u \in Sockets, u # s PROVE Tokened(u)'
  <2>1. Asks(u)' = Asks(u) /\ \A i \in Asks(u) : pipe'[i] = pipe[i]
    <3>1. CASE pipe' = pipe
      BY <1>1, <3>1 DEF Asks
    <3>2. CASE pipe' = Append(pipe, m)
      BY <1>1, <1>5, <1>7, <3>2, AsksAppend
    <3> QED BY <1>6, <3>1, <3>2
  <2> QED BY <1>1, <1>2, <1>4, <1>7, <2>1, TokensSame DEF WInv
\* Nobody waits and nothing is left: the request brings its token.
<1>8. CASE requests[s] = NoRequest /\ Unwatched(s, {})
  <2>1. Asks(s) = {} /\ pending[s] = {} /\ epoll[sfd[s]] = {}
    BY <1>8 DEF Unwatched, Asks
  <2>2. requests'[s][k] > 0 /\ \A j \in Kinds : requests'[s][j] > 0 => j = k
    BY <1>2, <1>8 DEF NoRequest
  <2>3. pipe' = Append(pipe, m)
    BY <1>1, <1>5, <1>8, <2>1 DEF NeedsPoke, NoRequest
  <2>4. PICK n \in Nat : Asks(s)' = {n} /\ pipe'[n] = m
    <3>1. \E n \in Nat : Asks(s)' = Asks(s) \cup {n} /\ pipe'[n] = m
      BY <1>1, <1>3, <1>5, <2>3, AsksAppend
    <3> QED BY <2>1, <3>1
  <2>5. OneToken(s)'
    BY <1>1, <2>1, <2>4 DEF OneToken
  <2>6. Served(s)'
    BY <1>1, <1>5, <2>1, <2>2, <2>4 DEF Served
  <2> QED BY <1>3, <1>4, <1>7, <2>5, <2>6 DEF WInv, Tokened
\* Somebody waits for the same, or its internal event is on its way.
<1>9. CASE ~(requests[s] = NoRequest /\ Unwatched(s, {}))
  <2>1. SUFFICES ASSUME ~Mixes(s, k) PROVE OneToken(s)' /\ Served(s)'
    BY <1>3, <1>4, <1>7 DEF WInv, Tokened
  <2>2. ~mixed[s] /\ (requests[s][k] > 0 \/ (k \in {"recv", "send"} /\ Unwatched(s, {k})))
    BY <1>2, <1>9, <2>1 DEF Mixes
  <2>3. OneToken(s) /\ Served(s)
    BY <1>3, <2>2 DEF Tokened
  <2>4. pipe' = pipe
    BY <1>1, <1>2, <2>2 DEF NeedsPoke, Unwatched
  <2>5. Asks(s)' = Asks(s)
    BY <1>1, <2>4 DEF Asks
  <2>6. /\ \A j \in Kinds : requests[s][j] > 0 => j = k
        /\ \A j \in pending[s] : j = k
        /\ \A i \in Asks(s) : pipe[i].msg = Side(k)
        /\ epoll[sfd[s]] \subseteq {Side(k)}
        /\ Asks(s) # {} \/ epoll[sfd[s]] # {} \/ pending[s] # {}
    <3>1. CASE requests[s][k] > 0
      BY <2>3, <3>1 DEF Served
    <3>2. CASE Unwatched(s, {k})
      <4>1. Asks(s) = {} /\ pending[s] = {k} /\ epoll[sfd[s]] = {}
        BY <3>2 DEF Unwatched, Asks
      <4> QED BY <2>3, <4>1 DEF Served
    <3> QED BY <2>2, <3>1, <3>2
  <2>7. \A j \in Kinds : requests'[s][j] > 0 => j = k
    BY <1>2, <2>6
  <2>8. OneToken(s)'
    BY <1>1, <2>3, <2>4, <2>5 DEF OneToken
  <2>9. Served(s)'
    BY <1>1, <2>4, <2>5, <2>6, <2>7 DEF Served
  <2> QED BY <2>8, <2>9
<1> QED BY <1>8, <1>9

\* An internal event turns into a message, or into nothing when nobody waits any
\* more.
LEMMA InternalTokens ==
    ASSUME SInv, WInv, NEW s \in Sockets, NEW k \in pending[s], NEW left \in Nat, internal_io(s, k, left),
           UNCHANGED <<mixed, epoll>>, sfd'[s] = sfd[s]
    PROVE  /\ Tokened(s)'
           /\ \A u \in Sockets \ {s} :
                sfd'[u] = sfd[u] => Asks(u)' = Asks(u) /\ \A i \in Asks(u) : pipe'[i] = pipe[i]
           /\ \A i \in DOMAIN pipe' : pipe'[i].sock # s => i \in DOMAIN pipe /\ pipe'[i] = pipe[i]
<1>1. /\ pending' = [pending EXCEPT ![s] = @ \ {k}]
      /\ IF references[s] = 1
           THEN UNCHANGED <<requests, pipe>>
           ELSE /\ left \in 0 .. requests[s][k]
                /\ requests' = [requests EXCEPT ![s][k] = left]
                /\ pipe' = IF left > 0 THEN select_poke(pipe, s, Side(k)) ELSE pipe
  BY DEF internal_io
<1>2. /\ k \in Kinds /\ sfd[s] # None
      /\ requests[s] \in [Kinds -> Nat] /\ sfd[s] \in Fds /\ Tokened(s)
      /\ requests \in [Sockets -> [Kinds -> Nat]]
  BY InternalLeaves DEF SInv, Types, WInv
<1>3. Side(k) \in {"read", "write"}
  BY DEF Side
<1>4. PICK m \in Messages : m = Message(sfd[s], Side(k), s) /\ m.msg = Side(k) /\ m.sock = s /\ m.fd = sfd[s]
  BY <1>2, <1>3, MessageIs
<1>5. pipe' = pipe \/ pipe' = Append(pipe, m)
  BY <1>1, <1>4 DEF select_poke
<1>6. \A u \in Sockets \ {s} :
        sfd'[u] = sfd[u] => Asks(u)' = Asks(u) /\ \A i \in Asks(u) : pipe'[i] = pipe[i]
  <2>1. CASE pipe' = pipe
    BY <2>1 DEF Asks
  <2>2. CASE pipe' = Append(pipe, m)
    BY <1>4, <2>2, AsksAppend
  <2> QED BY <1>5, <2>1, <2>2
<1>7. \A i \in DOMAIN pipe' : pipe'[i].sock # s => i \in DOMAIN pipe /\ pipe'[i] = pipe[i]
  <2>1. CASE pipe' = Append(pipe, m)
    <3>1. pipe \in Seq(Messages)
      BY DEF SInv, SystemTypes
    <3>2. PICK n \in Nat :
            /\ n = Len(pipe) + 1 /\ Len(pipe) \in Nat /\ DOMAIN pipe = 1 .. Len(pipe)
            /\ DOMAIN pipe' = 1 .. n /\ pipe'[n] = m /\ \A i \in DOMAIN pipe : pipe'[i] = pipe[i]
      BY <2>1, <3>1, PipeAppend
    <3>3. \A i \in DOMAIN pipe' : i = n \/ i \in DOMAIN pipe
      BY <3>2
    <3> QED BY <1>4, <3>2, <3>3
  <2> QED BY <1>5, <2>1
<1>8. ASSUME ~mixed[s] PROVE OneToken(s)' /\ Served(s)'
  <2>1. Asks(s) = {} /\ epoll[sfd[s]] = {} /\ pending[s] = {k}
    BY <1>2, <1>8 DEF Tokened, OneToken
  <2>2. pending'[s] = {}
    BY <1>1, <2>1 DEF SInv, Types
  <2>3. \A j \in Kinds \ {k} : ~(requests[s][j] > 0)
    BY <1>2, <1>8, <2>1 DEF Tokened, Served
  <2>4. CASE references[s] = 1
    <3>1. UNCHANGED <<requests, pipe>>
      BY <1>1, <2>4
    <3>2. Asks(s)' = Asks(s)
      BY <3>1 DEF Asks
    <3>3. requests[s] = NoRequest
      <4>1. Cardinality(pending[s]) = 1
        BY <2>1, FS_Singleton
      <4> QED BY <2>4, <4>1, Referenced DEF Idle
    <3>4. \A j \in Kinds : ~(requests'[s][j] > 0)
      BY <3>1, <3>3 DEF NoRequest
    <3> QED BY <2>1, <2>2, <3>2, <3>4 DEF OneToken, Served
  <2>5. CASE references[s] # 1 /\ left = 0
    <3>1. requests' = [requests EXCEPT ![s][k] = 0] /\ pipe' = pipe
      BY <1>1, <2>5
    <3>2. Asks(s)' = Asks(s)
      BY <3>1 DEF Asks
    <3>3. \A j \in Kinds : ~(requests'[s][j] > 0)
      BY <1>2, <2>3, <3>1
    <3> QED BY <2>1, <2>2, <3>2, <3>3 DEF OneToken, Served
  <2>6. CASE references[s] # 1 /\ left > 0
    <3>1. requests' = [requests EXCEPT ![s][k] = left] /\ pipe' = Append(pipe, m)
      BY <1>1, <1>4, <2>6 DEF select_poke
    <3>2. PICK n \in Nat : Asks(s)' = {n} /\ pipe'[n] = m
      <4>1. \E n \in Nat : Asks(s)' = Asks(s) \cup {n} /\ pipe'[n] = m
        BY <1>3, <1>4, <3>1, AsksAppend
      <4> QED BY <2>1, <4>1
    <3>3. requests'[s][k] = left /\ \A j \in Kinds : requests'[s][j] > 0 => j = k
      BY <1>2, <2>3, <3>1
    <3>4. OneToken(s)'
      BY <2>1, <2>2, <3>2 DEF OneToken
    <3>5. Served(s)'
      BY <1>4, <2>1, <2>2, <3>2, <3>3 DEF Served
    <3> QED BY <3>4, <3>5
  <2> QED BY <2>4, <2>5, <2>6
<1> QED BY <1>6, <1>7, <1>8 DEF Tokened

\* An internal event runs.
LEMMA EventTokens ==
    ASSUME SInv, WInv, NEW s \in Sockets, NEW k \in Kinds, internal_event(s, k)
    PROVE  WInv'
<1>1. UNCHANGED <<sfd, mixed, epoll, wpc, batch>> /\ k \in pending[s]
  BY DEF internal_event, kernel, watcher
<1>2. PICK left \in Nat : internal_io(s, k, left)
  BY SocketAssumption DEF internal_event
<1>3. /\ Tokened(s)' /\ Batch'
      /\ \A u \in Sockets \ {s} : Asks(u)' = Asks(u) /\ \A i \in Asks(u) : pipe'[i] = pipe[i]
  BY <1>1, <1>2, InternalTokens, BatchSame
<1>4. \A u \in Sockets \ {s} : requests'[u] = requests[u] /\ pending'[u] = pending[u]
  BY <1>1, <1>2, InternalLeaves DEF SInv, Types
<1>5. ASSUME NEW u \in Sockets, u # s PROVE Tokened(u)'
  BY <1>1, <1>3, <1>4, <1>5, TokensSame DEF WInv
<1> QED BY <1>1, <1>3, <1>5 DEF WInv

\* A connection is accepted.
LEMMA AcceptTokens ==
    ASSUME SInv, WInv, NEW s \in Sockets, NEW x \in Sockets, NEW f \in Fds, internal_accept(s, x, f)
    PROVE  WInv'
<1>1. /\ UNCHANGED <<mixed, epoll, wpc, batch>>
      /\ "accept" \in pending[s] /\ requests[s]["accept"] > 0
      /\ internal_io(s, "accept", requests[s]["accept"] - 1)
      /\ life[x] = "unborn" /\ f \notin opened /\ sfd' = [sfd EXCEPT ![x] = f]
  BY DEF internal_accept, watcher
<1>2. PICK left \in Nat : internal_io(s, "accept", left)
  <2>1. requests[s]["accept"] \in Nat
    BY DEF SInv, Types, Kinds
  <2>2. requests[s]["accept"] - 1 \in Nat
    BY <1>1, <2>1
  <2> QED BY <1>1, <2>2
<1>3. /\ life[s] = "live"
      /\ \A u \in Sockets \ {s} : requests'[u] = requests[u] /\ pending'[u] = pending[u]
  BY <1>1, <1>2, InternalLeaves DEF SInv, Types
<1>4. x # s /\ sfd'[x] = f /\ \A u \in Sockets \ {x} : sfd'[u] = sfd[u]
  BY <1>1, <1>3 DEF SInv, Types
<1>5. /\ Tokened(s)' /\ Batch'
      /\ \A u \in Sockets \ {s} :
           sfd'[u] = sfd[u] => Asks(u)' = Asks(u) /\ \A i \in Asks(u) : pipe'[i] = pipe[i]
      /\ \A i \in DOMAIN pipe' : pipe'[i].sock # s => i \in DOMAIN pipe /\ pipe'[i] = pipe[i]
  BY <1>1, <1>2, <1>4, InternalTokens, BatchSame
<1>6. ASSUME NEW u \in Sockets, u # s, u # x PROVE Tokened(u)'
  BY <1>1, <1>3, <1>4, <1>5, <1>6, TokensSame DEF WInv
<1>7. Tokened(x)'
  <2>1. pending[x] = {} /\ requests[x] = NoRequest
    BY <1>1 DEF SInv, Stages, Idle
  <2>2. epoll[f] = {} /\ \A i \in DOMAIN pipe : ~(pipe[i].msg \in {"read", "write"} /\ pipe[i].fd = f)
    BY <1>1, Unopened
  <2>3. Asks(x)' = {}
    <3>1. ASSUME NEW i \in Asks(x)' PROVE FALSE
      <4>1. i \in DOMAIN pipe' /\ pipe'[i].sock = x /\ pipe'[i].msg \in {"read", "write"} /\ pipe'[i].fd = f
        BY <1>4 DEF Asks
      <4> QED BY <1>4, <1>5, <2>2, <4>1
    <3> QED BY <3>1
  <2>4. \A j \in Kinds : ~(requests'[x][j] > 0)
    BY <1>3, <1>4, <2>1 DEF NoRequest
  <2> QED BY <1>1, <1>3, <1>4, <2>1, <2>2, <2>3, <2>4 DEF Tokened, OneToken, Served
<1> QED BY <1>1, <1>5, <1>6, <1>7 DEF WInv

\* The watcher polls, or is done.
LEMMA WaitTokens ==
    ASSUME SInv, WInv, epoll_wait \/ process_fds_end \/ process_ctlfd_end
    PROVE  WInv'
<1>1. UNCHANGED <<sockvars, pipe, epoll>>
  BY DEF epoll_wait, process_fds_end, process_ctlfd_end, kernel
<1>2. Batch'
  <2>1. CASE epoll_wait
    <3>1. PICK ready \in SUBSET {f \in Fds : epoll[f] # {}} :
            \E ev \in [ready -> SUBSET {"read", "write"}] :
              /\ \A f \in ready : ev[f] # {} /\ (ev[f] \subseteq epoll[f] \/ ev[f] = {"read", "write"})
              /\ batch' = {[fd |-> f, ev |-> ev[f]] : f \in ready}
      BY <2>1 DEF epoll_wait
    <3>2. PICK ev \in [ready -> SUBSET {"read", "write"}] :
              /\ \A f \in ready : ev[f] # {} /\ (ev[f] \subseteq epoll[f] \/ ev[f] = {"read", "write"})
              /\ batch' = {[fd |-> f, ev |-> ev[f]] : f \in ready}
      BY <3>1
    <3>3. wpc' = "fds"
      BY <2>1 DEF epoll_wait
    <3>4. ASSUME NEW b \in batch'
          PROVE  /\ b.fd \in Fds /\ epoll[b.fd] # {} /\ b.ev # {}
                 /\ b.ev \subseteq epoll[b.fd] \/ b.ev = {"read", "write"}
                 /\ \A c \in batch' : c.fd = b.fd => c = b
      <4>1. PICK f \in ready : b = [fd |-> f, ev |-> ev[f]]
        BY <3>2
      <4>2. b.fd = f /\ b.ev = ev[f]
        BY <4>1
      <4>3. ASSUME NEW c \in batch', c.fd = f PROVE c = b
        <5>1. PICK g \in ready : c = [fd |-> g, ev |-> ev[g]]
          BY <3>2
        <5>2. g = f
          BY <4>3, <5>1
        <5> QED BY <4>1, <5>1, <5>2
      <4> QED BY <3>1, <3>2, <4>2, <4>3
    <3> QED BY <1>1, <3>3, <3>4 DEF Batch
  <2>2. CASE process_fds_end
    BY <2>2 DEF process_fds_end, Batch
  <2>3. CASE process_ctlfd_end
    BY <2>3 DEF process_ctlfd_end, Batch, WInv, kernel
  <2> QED BY <2>1, <2>2, <2>3
<1> QED BY <1>1, <1>2, CalmKeeps DEF sockvars

\* The manager is destroyed.
LEMMA ManagerTokens ==
    ASSUME SInv, WInv, isc__socketmgr_destroy \/ socketmgr_join \/ socketmgr_shutdown
    PROVE  WInv'
<1>1. UNCHANGED <<sockvars, epoll, wpc, batch>>
  BY DEF isc__socketmgr_destroy, socketmgr_join, socketmgr_shutdown, kernel, watcher
<1>2. UNCHANGED <<sfd, requests, pending, mixed>>
  BY <1>1 DEF sockvars
<1>3. Batch'
  BY <1>1, <1>2, BatchSame DEF WInv
<1>4. ASSUME NEW u \in Sockets PROVE Asks(u)' = Asks(u) /\ \A i \in Asks(u) : pipe'[i] = pipe[i]
  <2>1. CASE isc__socketmgr_destroy \/ socketmgr_join
    BY <1>2, <2>1 DEF isc__socketmgr_destroy, socketmgr_join, Asks
  <2>2. CASE socketmgr_shutdown
    <3>1. PICK m \in Messages : m = Message(None, "shutdown", None) /\ m.msg = "shutdown"
      BY MessageIs
    <3>2. pipe' = Append(pipe, m)
      BY <2>2, <3>1 DEF socketmgr_shutdown
    <3> QED BY <1>2, <3>1, <3>2, AsksAppend
  <2> QED BY <2>1, <2>2
<1>5. \A u \in Sockets : Tokened(u)'
  BY <1>1, <1>2, <1>4, TokensSame DEF WInv
<1> QED BY <1>2, <1>3, <1>5 DEF WInv

\* The registration turns into the internal event of whoever waits.
LEMMA ProcessTokens ==
    ASSUME SInv, WInv, NEW b \in batch, process_fd(b)
    PROVE  WInv'
<1>1. PICK f \in Fds : f = b.fd
  BY DEF SInv, SystemTypes
<1>2. PICK s \in Sockets \cup {None} : s = fds[f]
  BY DEF SInv, SystemTypes
<1> DEFINE K == IF Found(f) THEN Dispatched(s, b.ev) ELSE {}
<1>3. /\ UNCHANGED <<sfd, requests, mixed, pipe, wpc>>
      /\ epoll' = [epoll EXCEPT ![f] = {}] /\ batch' = batch \ {b}
      /\ pending' = IF K = {} THEN pending ELSE [pending EXCEPT ![s] = @ \cup K]
  BY <1>1, <1>2 DEF process_fd, unwatch_fd
<1>4. /\ epoll[f] # {} /\ b.ev # {} /\ (b.ev \subseteq epoll[f] \/ b.ev = {"read", "write"})
      /\ \A c \in batch : c.fd = f => c = b
  BY <1>1 DEF WInv, Batch
<1>5. epoll'[f] = {} /\ \A g \in Fds \ {f} : epoll'[g] = epoll[g]
  BY <1>3 DEF SInv, SystemTypes
<1>6. Batch' /\ mixed' \in [Sockets -> BOOLEAN]
  <2>1. \A c \in batch' : c \in batch /\ c.fd # f
    BY <1>3, <1>4
  <2> QED BY <1>3, <1>5, <2>1 DEF WInv, Batch
<1>7. \A u \in Sockets : Asks(u)' = Asks(u)
  BY <1>3 DEF Asks
<1>8. K \subseteq Kinds /\ (K # {} => s \in Sockets)
  BY <1>2 DEF Dispatched, Found
<1>9. \A u \in Sockets : u = s \/ pending'[u] = pending[u]
  BY <1>3, <1>8 DEF SInv, Types
<1>10. ASSUME NEW u \in Sockets, sfd[u] # f, u # s PROVE Tokened(u)'
  <2>1. sfd[u] # None => sfd[u] \in Fds \ {f}
    BY <1>10 DEF SInv, Types
  <2>2. pending'[u] = pending[u] /\ (sfd[u] # None => epoll'[sfd[u]] = epoll[sfd[u]])
    BY <1>5, <1>9, <1>10, <2>1
  <2> QED BY <1>3, <1>7, <2>2, TokensSame DEF WInv
\* A descriptor whose socket is gone, or goes.
<1>11. CASE s = None
  <2>1. K = {} /\ pending' = pending
    BY <1>2, <1>3, <1>11 DEF Found
  <2>2. ASSUME NEW u \in Sockets, sfd[u] = f PROVE Tokened(u)'
    <3>1. Idle(u)
      <4>1. Descriptor(u) /\ Stages(u) /\ Accounts(u) /\ sfd[u] # None /\ fds[f] # u
        BY <1>2, <1>11, <2>2, NoneApart DEF SInv
      <4>2. life[u] # "live" \/ phase[u] # "none"
        BY <2>2, <4>1 DEF Descriptor
      <4> QED BY <4>1, <4>2 DEF Stages, Accounts
    <3>2. \A k \in Kinds : ~(requests'[u][k] > 0)
      BY <1>3, <3>1 DEF Idle, NoRequest
    <3> QED BY <1>3, <1>5, <1>7, <2>1, <2>2, <3>2 DEF WInv, Tokened, OneToken, Served
  <2> QED BY <1>6, <1>10, <1>11, <2>2, NoneApart DEF WInv
<1>12. CASE s # None
  <2>1. /\ s \in Sockets /\ sfd[s] = f /\ fdstate[f] = "MANAGED" /\ sfd[s] # None
        /\ \A u \in Sockets : sfd[u] = f => u = s
    BY <1>2, <1>12, NoneApart DEF SInv, Number, Descriptor
  <2>2. SUFFICES Tokened(s)'
    BY <1>6, <1>10, <2>1 DEF WInv
  <2>3. SUFFICES ASSUME ~mixed[s] PROVE OneToken(s)' /\ Served(s)'
    BY <1>3 DEF Tokened
  <2>4. OneToken(s) /\ Served(s)
    BY <2>1, <2>3 DEF WInv, Tokened
  <2>5. Asks(s) = {} /\ pending[s] = {} /\ \E d \in {"read", "write"} : epoll[f] = {d}
    BY <1>4, <2>1, <2>4 DEF OneToken
  <2>6. K = Dispatched(s, b.ev)
    BY <1>2, <1>12, <2>1 DEF Found
  <2>7. CASE requests[s] = NoRequest
    <3>1. \A k \in Kinds : ~(requests[s][k] > 0)
      BY <2>7 DEF NoRequest
    <3>2. K = {}
      BY <2>6, <3>1 DEF Dispatched
    <3>3. pending' = pending
      BY <1>3, <3>2
    <3> QED BY <1>3, <1>5, <1>7, <2>1, <2>5, <3>1, <3>3 DEF OneToken, Served
  <2>8. CASE requests[s] # NoRequest
    <3>1. requests[s] \in [Kinds -> Nat] /\ pending \in [Sockets -> SUBSET Kinds]
      BY <2>1 DEF SInv, Types
    <3>2. PICK k \in Kinds : requests[s][k] > 0
      <4>1. (\A k \in Kinds : ~(requests[s][k] > 0)) => \A k \in Kinds : requests[s][k] = 0
        BY <3>1
      <4> QED BY <2>8, <3>1, <4>1 DEF NoRequest
    <3>3. (\A j \in Kinds : requests[s][j] > 0 => j = k) /\ epoll[f] \subseteq {Side(k)}
      BY <2>1, <2>4, <3>2 DEF Served
    <3>4. Side(k) \in b.ev
      <4>1. epoll[f] = {Side(k)} /\ Side(k) \in {"read", "write"}
        BY <1>4, <3>3 DEF Side
      <4> QED BY <1>4, <4>1
    <3>5. references[s] # 0
      <4>1. ~Idle(s) /\ references[s] # Cardinality(pending[s])
        BY <2>1, <2>8, Referenced DEF Idle
      <4>2. Cardinality(pending[s]) = 0
        BY <2>5, FS_EmptySet
      <4> QED BY <4>1, <4>2
    <3>6. K = {k}
      BY <2>6, <3>2, <3>3, <3>4, <3>5 DEF Dispatched
    <3> HIDE DEF K
    <3>7. pending'[s] = {k}
      BY <1>3, <2>1, <2>5, <3>1, <3>6
    <3>8. OneToken(s)'
      BY <1>3, <1>5, <1>7, <2>1, <2>5, <3>7 DEF OneToken
    <3>9. Served(s)'
      BY <1>3, <1>5, <1>7, <2>1, <2>5, <3>2, <3>3, <3>7 DEF Served
    <3> QED BY <3>8, <3>9
  <2> QED BY <2>7, <2>8
<1> QED BY <1>11, <1>12

\* The message turns into a registration.
LEMMA CtlTokens ==
    ASSUME SInv, WInv, process_ctlfd
    PROVE  WInv'
<1>1. /\ UNCHANGED <<sockvars, batch>> /\ wpc = "ctl" /\ pipe # <<>> /\ pipe' = Tail(pipe)
  BY DEF process_ctlfd
<1>2. UNCHANGED <<sfd, requests, pending, mixed>>
  BY <1>1 DEF sockvars
<1>3. batch = {} /\ Batch'
  BY <1>1 DEF WInv, Batch
<1>4. mixed' \in [Sockets -> BOOLEAN]
  BY <1>2 DEF WInv
<1>5. PICK m \in Messages : m = pipe[1] /\ m = Head(pipe) /\ 1 \in DOMAIN pipe
  <2>1. pipe \in Seq(Messages)
    BY DEF SInv, SystemTypes
  <2> QED BY <1>1, <2>1, PipeTail
<1>6. ASSUME NEW u \in Sockets
      PROVE  /\ \A i \in Asks(u)' : i + 1 \in Asks(u) /\ pipe'[i] = pipe[i + 1] /\ i \in Nat /\ i >= 1
             /\ \A j \in Asks(u) : j = 1 \/ \E i \in Asks(u)' : j = i + 1
  BY <1>1, <1>2, AsksTail
\* A socket the message is not about.
<1>7. ASSUME NEW u \in Sockets, 1 \notin Asks(u),
             \/ sfd[u] # None => epoll'[sfd[u]] = epoll[sfd[u]]
             \/ epoll'[sfd[u]] = {} /\ \A k \in Kinds : ~(requests[u][k] > 0)
      PROVE  Tokened(u)'
  <2>1. /\ \A i \in Asks(u)' : i + 1 \in Asks(u) /\ pipe'[i] = pipe[i + 1] /\ i \in Nat
        /\ \A j \in Asks(u) : \E i \in Asks(u)' : j = i + 1
    BY <1>6, <1>7
  <2>2. Asks(u)' = {} <=> Asks(u) = {}
    BY <2>1
  <2>a. SUFFICES ASSUME ~mixed[u] PROVE OneToken(u)' /\ Served(u)'
    BY <1>2 DEF Tokened
  <2>3. OneToken(u) /\ Served(u) /\ (sfd[u] = None => \A k \in Kinds : ~(requests[u][k] > 0))
    BY <2>a DEF WInv, Tokened, SInv, Accounts, Idle, NoRequest
  <2>4. OneToken(u)'
    <3>1. sfd[u] # None => \A i, j \in Asks(u)' : i = j
      <4>1. ASSUME sfd[u] # None, NEW i \in Asks(u)', NEW j \in Asks(u)' PROVE i = j
        <5>1. i + 1 = j + 1 /\ i \in Nat /\ j \in Nat
          BY <2>1, <2>3, <4>1 DEF OneToken
        <5> QED BY <5>1
      <4> QED BY <4>1
    <3> QED BY <1>2, <1>7, <2>2, <2>3, <3>1 DEF OneToken
  <2>5. Served(u)'
    <3>1. SUFFICES ASSUME NEW k \in Kinds, requests'[u][k] > 0
                   PROVE  /\ \A j \in Kinds : requests'[u][j] > 0 => j = k
                          /\ \A j \in pending'[u] : j = k
                          /\ \A i \in Asks(u)' : pipe'[i].msg = Side(k)
                          /\ epoll'[sfd'[u]] \subseteq {Side(k)}
                          /\ Asks(u)' # {} \/ epoll'[sfd'[u]] # {} \/ pending'[u] # {}
      BY DEF Served
    <3>2. requests[u][k] > 0 /\ epoll'[sfd'[u]] = epoll[sfd[u]]
      BY <1>2, <1>7, <2>3, <3>1
    <3> QED BY <1>2, <2>1, <2>2, <2>3, <3>2 DEF Served
  <2> QED BY <2>4, <2>5
<1>8. CASE m.msg = "shutdown"
  <2>1. epoll' = epoll
    BY <1>5, <1>8 DEF process_ctlfd, kernel
  <2>2. \A u \in Sockets : 1 \notin Asks(u)
    BY <1>5, <1>8 DEF Asks
  <2> QED BY <1>3, <1>4, <1>7, <2>1, <2>2 DEF WInv
<1>9. CASE m.msg = "close"
  <2>1. PICK f \in Fds : f = m.fd /\ \A u \in Sockets : sfd[u] # f
    BY <1>5, <1>9 DEF SInv, Mail, SystemTypes
  <2>2. epoll' = [epoll EXCEPT ![f] = {}]
    BY <1>5, <1>9, <2>1 DEF process_ctlfd, wakeup_socket, unwatch_fd
  <2>3. \A u \in Sockets : sfd[u] # None => epoll'[sfd[u]] = epoll[sfd[u]]
    BY <2>1, <2>2 DEF SInv, SystemTypes, Types
  <2>4. \A u \in Sockets : 1 \notin Asks(u)
    BY <1>5, <1>9 DEF Asks
  <2> QED BY <1>3, <1>4, <1>7, <2>3, <2>4 DEF WInv
<1>10. CASE m.msg \in {"read", "write"}
  <2>1. PICK f \in Fds, s \in Sockets :
          /\ f = m.fd /\ s = m.sock
          /\ fds[f] = s \/ (fds[f] = None /\ fdstate[f] = "CLOSE_PENDING")
    BY <1>5, <1>10 DEF SInv, Mail
  <2>2. (1 \in Asks(s) <=> sfd[s] = f) /\ \A u \in Sockets : u # s => 1 \notin Asks(u)
    BY <1>5, <1>10, <2>1 DEF Asks
  <2>3. ASSUME ~mixed[s], sfd[s] = f
        PROVE  /\ OneToken(s) /\ Served(s) /\ epoll[f] = {} /\ pending[s] = {}
               /\ Asks(s)' = {}
    <3>1. /\ OneToken(s) /\ Served(s) /\ epoll[f] = {} /\ pending[s] = {} /\ \A i \in Asks(s) : i = 1
      BY <2>1, <2>2, <2>3, NoneApart DEF WInv, Tokened, OneToken
    <3>2. ASSUME NEW i \in Asks(s)' PROVE FALSE
      <4>1. i + 1 = 1 /\ i \in Nat /\ i >= 1
        BY <1>6, <3>1, <3>2
      <4> QED BY <4>1
    <3> QED BY <3>1, <3>2
  <2>5. requests[s] \in [Kinds -> Nat] /\ epoll \in [Fds -> SUBSET {"read", "write"}]
    BY DEF SInv, Types, SystemTypes
  <2>6. CASE fds[f] = s
    <3>1. sfd[s] = f /\ sfd[s] # None /\ fdstate[f] = "MANAGED" /\ \A u \in Sockets : sfd[u] = f => u = s
      BY <2>1, <2>6, NoneApart DEF SInv, Number, Descriptor
    <3>2. epoll' = IF epoll[f] = {} THEN [epoll EXCEPT ![f] = {m.msg}] ELSE epoll
      BY <1>5, <1>10, <2>1, <3>1 DEF process_ctlfd, wakeup_socket, watch_fd
    <3>3. (epoll[f] = {} => epoll'[f] = {m.msg}) /\ \A g \in Fds \ {f} : epoll'[g] = epoll[g]
      BY <2>5, <3>2
    <3>4. ASSUME NEW u \in Sockets, u # s PROVE Tokened(u)'
      <4>1. sfd[u] # None => sfd[u] \in Fds \ {f}
        BY <3>1, <3>4 DEF SInv, Types
      <4> QED BY <1>7, <2>2, <3>3, <3>4, <4>1
    <3>5. ASSUME ~mixed[s] PROVE OneToken(s)' /\ Served(s)'
      <4>1. /\ OneToken(s) /\ Served(s) /\ pending[s] = {} /\ Asks(s)' = {} /\ 1 \in Asks(s)
            /\ epoll'[f] = {m.msg}
        BY <2>2, <2>3, <3>1, <3>3, <3>5
      <4>2. OneToken(s)'
        BY <1>2, <1>10, <3>1, <4>1 DEF OneToken
      <4>3. Served(s)'
        BY <1>2, <1>5, <3>1, <4>1 DEF Served
      <4> QED BY <4>2, <4>3
    <3> QED BY <1>2, <1>3, <1>4, <3>4, <3>5 DEF WInv, Tokened
  <2>7. CASE fds[f] = None /\ fdstate[f] = "CLOSE_PENDING"
    <3>1. epoll' = [epoll EXCEPT ![f] = {}]
      BY <1>5, <1>10, <2>1, <2>7 DEF process_ctlfd, wakeup_socket, unwatch_fd
    <3>2. epoll'[f] = {} /\ \A g \in Fds \ {f} : epoll'[g] = epoll[g]
      BY <2>5, <3>1
    <3>3. ASSUME NEW u \in Sockets, sfd[u] = f PROVE \A k \in Kinds : ~(requests[u][k] > 0)
      <4>1. Descriptor(u) /\ Stages(u) /\ Accounts(u) /\ sfd[u] # None /\ fds[f] # u
        BY <2>7, <3>3, NoneApart DEF SInv
      <4>2. life[u] # "live" \/ phase[u] # "none"
        BY <3>3, <4>1 DEF Descriptor
      <4> QED BY <4>1, <4>2 DEF Stages, Accounts, Idle, NoRequest
    <3>4. ASSUME NEW u \in Sockets, 1 \notin Asks(u) PROVE Tokened(u)'
      <4>1. CASE sfd[u] # f
        <5>1. sfd[u] # None => sfd[u] \in Fds \ {f}
          BY <4>1 DEF SInv, Types
        <5> QED BY <1>7, <3>2, <3>4, <5>1
      <4>2. CASE sfd[u] = f
        BY <1>7, <3>2, <3>3, <3>4, <4>2
      <4> QED BY <4>1, <4>2
    <3>5. ASSUME 1 \in Asks(s), ~mixed[s] PROVE OneToken(s)' /\ Served(s)'
      <4>1. sfd[s] = f /\ pending[s] = {} /\ Asks(s)' = {} /\ \A k \in Kinds : ~(requests[s][k] > 0)
        BY <2>2, <2>3, <3>3, <3>5
      <4> QED BY <1>2, <3>2, <4>1 DEF OneToken, Served
    <3>6. Tokened(s)'
      BY <1>2, <3>4, <3>5 DEF Tokened
    <3> QED BY <1>3, <1>4, <2>2, <3>4, <3>6 DEF WInv
  <2> QED BY <2>1, <2>6, <2>7
<1> QED BY <1>5, <1>8, <1>9, <1>10 DEF Messages

\* WInv holds at the start.
LEMMA InitWInv == Init => WInv
<1>1. SUFFICES ASSUME Init PROVE WInv
  OBVIOUS
<1>2. Batch /\ mixed \in [Sockets -> BOOLEAN]
  BY <1>1 DEF Init, Batch
<1>3. ASSUME NEW s \in Sockets PROVE Tokened(s)
  <2>1. /\ Asks(s) = {} /\ pending[s] = {} /\ sfd[s] = None
        /\ \A k \in Kinds : ~(requests[s][k] > 0)
    BY <1>1 DEF Init, Asks, NoRequest
  <2> QED BY <2>1 DEF Tokened, OneToken, Served
<1> QED BY <1>2, <1>3 DEF WInv

\* Every step keeps WInv.
LEMMA NextWInv == SInv /\ WInv /\ [Next]_vars => WInv'
<1>1. SUFFICES ASSUME SInv, WInv, [Next]_vars PROVE WInv'
  OBVIOUS
<1>2. ASSUME NEW s \in Sockets, Call(s) PROVE WInv'
  BY <1>1, <1>2, OpenTokens, CalmCalls, RequestTokens, CancelTokens, Requesting DEF Call
<1>3. ASSUME NEW s \in Sockets, CallStep(s) PROVE WInv'
  BY <1>1, <1>3, CalmCalls, PokeTokens DEF CallStep
<1>4. ASSUME NEW s \in Sockets, Internal(s) PROVE WInv'
  BY <1>1, <1>4, CalmCalls, EventTokens, AcceptTokens DEF Internal
<1>5. ASSUME epoll_wait \/ WatcherStep PROVE WInv'
  BY <1>1, <1>5, WaitTokens, ProcessTokens, CtlTokens DEF WatcherStep
<1>6. ASSUME isc__socketmgr_destroy \/ ManagerStep PROVE WInv'
  BY <1>1, <1>6, ManagerTokens DEF ManagerStep
<1>7. ASSUME UNCHANGED vars PROVE WInv'
  <2>1. UNCHANGED <<sfd, requests, pending, mixed, pipe, epoll, wpc, batch>>
    BY <1>7 DEF vars, sockvars, kernel, watcher
  <2>2. Batch'
    BY <1>1, <2>1, BatchSame
  <2> QED BY <1>1, <2>1, <2>2, CalmKeeps
<1> QED BY <1>1, <1>2, <1>3, <1>4, <1>5, <1>6, <1>7 DEF Next

\* Counting a set with one element at most.
LEMMA AtMostOne ==
    ASSUME NEW S, \A i, j \in S : i = j
    PROVE  Cardinality(S) = IF S = {} THEN 0 ELSE 1
<1>1. CASE S = {}
  BY <1>1, FS_EmptySet
<1>2. CASE S # {}
  <2>1. PICK i \in S : TRUE
    BY <1>2
  <2>2. S = {i}
    BY <2>1
  <2> QED BY <1>2, <2>2, FS_Singleton
<1> QED BY <1>1, <1>2

\* The tokens of one side, counted.
LEMMA CountTokens ==
    ASSUME SInv, WInv, NEW s \in Sockets, NEW d \in {"read", "write"}, sfd[s] # None, ~mixed[s]
    PROVE  /\ Tokens(s, d) <= 1
           /\ Tokens(s, d) > 0 <=> \/ \E i \in Asks(s) : pipe[i].msg = d
                                   \/ d \in epoll[sfd[s]]
                                   \/ \E k \in pending[s] : Side(k) = d
<1> DEFINE A == {i \in DOMAIN pipe : pipe[i] = Message(sfd[s], d, s)}
           P == {k \in pending[s] : Side(k) = d}
           e == IF d \in epoll[sfd[s]] THEN 1 ELSE 0
<1>1. Tokens(s, d) = Cardinality(A) + e + Cardinality(P)
  BY DEF Tokens
<1>2. OneToken(s) /\ sfd[s] \in Fds
  BY DEF WInv, Tokened, SInv, Types
<1>3. A = {i \in Asks(s) : pipe[i].msg = d}
  <2>1. /\ Message(sfd[s], d, s) \in Messages /\ Message(sfd[s], d, s).fd = sfd[s]
        /\ Message(sfd[s], d, s).msg = d /\ Message(sfd[s], d, s).sock = s
    BY <1>2, MessageIs
  <2>2. ASSUME NEW i \in Asks(s), pipe[i].msg = d PROVE pipe[i] = Message(sfd[s], d, s)
    <3>1. pipe[i] \in Messages /\ pipe[i].sock = s /\ pipe[i].fd = sfd[s]
      BY DEF SInv, SystemTypes, Asks
    <3> QED BY <2>2, <3>1 DEF Messages, Message
  <2> QED BY <2>1, <2>2 DEF Asks
<1>4. (\A i, j \in A : i = j) /\ (\A k, l \in P : k = l)
  BY <1>2, <1>3 DEF OneToken
<1>5. Cardinality(A) = IF A = {} THEN 0 ELSE 1
  BY <1>4, AtMostOne
<1>6. Cardinality(P) = IF P = {} THEN 0 ELSE 1
  BY <1>4, AtMostOne
<1>7. /\ A # {} => e = 0 /\ P = {}
      /\ e = 1 => A = {} /\ P = {}
  BY <1>2, <1>3 DEF OneToken
<1>8. e \in {0, 1} /\ (e = 1 <=> d \in epoll[sfd[s]])
  OBVIOUS
<1>9. A # {} <=> \E i \in Asks(s) : pipe[i].msg = d
  BY <1>3
<1>10. P # {} <=> \E k \in pending[s] : Side(k) = d
  OBVIOUS
<1> HIDE DEF A, P, e
<1>11. Tokens(s, d) <= 1 /\ (Tokens(s, d) > 0 <=> A # {} \/ e = 1 \/ P # {})
  <2>1. CASE A # {}
    BY <1>1, <1>5, <1>6, <1>7, <2>1
  <2>2. CASE A = {} /\ e = 1
    BY <1>1, <1>5, <1>6, <1>7, <2>2
  <2>3. CASE A = {} /\ e = 0
    BY <1>1, <1>5, <1>6, <2>3
  <2> QED BY <1>8, <2>1, <2>2, <2>3
<1> QED BY <1>8, <1>9, <1>10, <1>11

(* Whatever is asked, canceled, closed and opened again: until a request    *)
(* finds something left that watches the descriptor for another kind or for *)
(* what was canceled, a request that waits is watched, about to be watched  *)
(* or at work, and by one of these only, and for such a socket no internal  *)
(* event is posted while it is posted (the INSISTs of dispatch_recv(),      *)
(* dispatch_send() and dispatch_accept()).                                  *)
THEOREM RequestsAreWatchedOnce == Spec => []WatchedOnce
<1>1. SInv /\ WInv => WatchedOnce
  <2>1. SUFFICES ASSUME SInv, WInv PROVE WatchedOnce
    OBVIOUS
  <2>2. ASSUME NEW s \in Sockets, NEW k \in Kinds, requests[s][k] > 0, sfd[s] # None, ~mixed[s]
        PROVE  Tokens(s, Side(k)) > 0
    <3>1. Side(k) \in {"read", "write"}
      BY DEF Side
    <3>2. /\ \A j \in pending[s] : j = k
          /\ \A i \in Asks(s) : pipe[i].msg = Side(k)
          /\ epoll[sfd[s]] \subseteq {Side(k)}
          /\ Asks(s) # {} \/ epoll[sfd[s]] # {} \/ pending[s] # {}
      BY <2>1, <2>2 DEF WInv, Tokened, Served
    <3>3. \/ \E i \in Asks(s) : pipe[i].msg = Side(k)
          \/ Side(k) \in epoll[sfd[s]]
          \/ \E j \in pending[s] : Side(j) = Side(k)
      BY <3>2
    <3> QED BY <2>1, <2>2, <3>1, <3>3, CountTokens
  <2>3. \A s \in Sockets : sfd[s] # None /\ ~mixed[s] =>
          \A side \in {"read", "write"} : Tokens(s, side) <= 1
    BY <2>1, CountTokens
  <2>4. ASSUME NEW b \in batch, Found(b.fd), AlreadyPosted(fds[b.fd], b.ev), ~mixed[fds[b.fd]]
        PROVE  FALSE
    <3>1. b.fd \in Fds /\ epoll[b.fd] # {}
      BY <2>1 DEF WInv, Batch
    <3>2. PICK s \in Sockets : s = fds[b.fd] /\ sfd[s] = b.fd
      BY <2>1, <2>4, <3>1 DEF SInv, SystemTypes, Number, Found
    <3>3. OneToken(s) /\ sfd[s] # None
      BY <2>1, <2>4, <3>1, <3>2, NoneApart DEF WInv, Tokened
    <3>4. pending[s] = {}
      BY <3>1, <3>2, <3>3 DEF OneToken
    <3> QED BY <2>4, <3>2, <3>4 DEF AlreadyPosted
  <2> QED BY <2>2, <2>3, <2>4 DEF WatchedOnce
<1>2. Init => SInv /\ WInv
  BY InitSInv, InitWInv
<1>3. (SInv /\ WInv) /\ [Next]_vars => (SInv /\ WInv)'
  BY NextSInv, NextWInv
<1> QED BY <1>1, <1>2, <1>3, PTL DEF Spec
=============================================================================
