------------------------------ MODULE NetmapIO ------------------------------
(***************************************************************************)
(* The netmap datapath that replaces the kernel's UDP stack for named:     *)
(* netmap/dns_util.c below lib/isc/unix/socket.c (IO_USE_NETMAP).  One     *)
(* socket on one interface with one receive and one transmit ring.         *)
(*                                                                         *)
(* Receiving is done under sock->lock and while the socket watcher does    *)
(* not poll the descriptor, so a receive is one action and the receive     *)
(* ring is the queue of its unread packets.  Sending takes no lock         *)
(* (socket_send calls doio_send directly): the reads and writes of the     *)
(* transmit ring and of the table of addresses by each sender, and the     *)
(* synchronisation with the kernel that the watcher's poll performs at any *)
(* time, are steps of their own.                                           *)
(*                                                                         *)
(* Addresses are abstracted to the peer a query came from: its hardware    *)
(* address, which only the table remembers.  A packet is a "query"; or a   *)
(* query that doio_netmap_recv() drops after it was entered in the table   *)
(* ("refused": source port zero, or longer than maxudp); or one that       *)
(* is_dns_query() passes over ("other").  A packet that does not fit the   *)
(* buffer ends named (assert, dns_util.c:253): none is delivered here.     *)
(***************************************************************************)
EXTENDS Naturals, FiniteSets, SequencesExt

CONSTANTS
    Senders,        \* threads that run the clients' tasks
    Peers,          \* hosts that send queries
    Qids,           \* DNS query ids; a fresh table entry has id 0
    Items,          \* MAC_ADDR_MAP_ITEMS
    RxSlots,        \* slots of the receive ring
    Limit,          \* packets one receive looks at (512)
    TxSlots,        \* slots of the transmit ring, one of them always unused
    UIntMod,        \* u_int arithmetic is modulo UIntMod
    MaxQueries,     \* bound: queries in a behaviour
    MaxRequests,    \* bound: receive requests and queries in work
    Nobody

ASSUME NetmapAssumption ==
    /\ IsFiniteSet(Senders)
    /\ 0 \in Qids /\ Qids \subseteq Nat
    /\ Items \in Nat \ {0} /\ RxSlots \in Nat \ {0} /\ Limit \in Nat \ {0}
    /\ TxSlots \in Nat \ {0, 1} /\ UIntMod \in Nat /\ UIntMod > TxSlots
    /\ MaxQueries \in Nat /\ MaxRequests \in Nat
    /\ Nobody \notin Peers

VARIABLES
    rxring,     \* the packets from rxring->cur on, rxring->avail of them
    requests,   \* the length of sock->recv_list
    reading,    \* "no", "pending" (sock->pending_recv) or "drain"
    watched,    \* the descriptor is in the watcher's poll set
    macmap,     \* g_macaddr_map
    jobs,       \* the queries named is working on
    slots, cur, avail,  \* the transmit ring
    hwcur, hwavail,     \* the kernel's copies
    pc, job, k, m, left, \* of a sender: place, query, "k", "m", "avail" as it read it
    qid, at,    \* of a sender: the id it looks for, the entry it looks at
    appended,   \* packets appended since the last synchronisation
    spoilt,     \* history: the queries the table or the ring may have lost
    queries     \* how many queries came so far

rxvars  == <<rxring, requests, reading, watched, queries>>
txvars  == <<slots, cur, avail, hwcur, hwavail, appended>>
senders == <<pc, job, k, m, left, qid, at>>
vars    == <<rxvars, macmap, txvars, senders, jobs, spoilt>>

Slots  == 0 .. TxSlots - 1
Ids    == 1 .. MaxQueries
Hosts  == Peers \cup {Nobody}
\* The query an entry was written for is remembered for the properties only.
Entry  == [peer : Hosts, qid : Qids, dirty : BOOLEAN, id : Ids \cup {0}]
Query  == [id : Ids, peer : Peers, qid : Qids]
Kinds  == {"query", "refused", "other"}
Packet == [kind : Kinds, query : Query]
NoJob  == [id |-> 0, peer |-> Nobody, qid |-> 0]
Reply  == [id : Ids \cup {0}, peer : Hosts, qid : Qids, to : Hosts]

(* Every variable is within its type; the places in the rings are within    *)
(* the rings.  avail is whatever the senders made of it.                    *)
TypeOK ==
    /\ rxring \in Seq(Packet) /\ Len(rxring) <= RxSlots
    /\ requests \in 0 .. MaxRequests
    /\ reading \in {"no", "pending", "drain"} /\ watched \in BOOLEAN
    /\ macmap \in [1 .. Items -> Entry]
    /\ jobs \subseteq Query
    /\ slots \in [Slots -> Reply] /\ cur \in Slots /\ hwcur \in Slots
    /\ avail \in 0 .. UIntMod - 1 /\ hwavail \in Slots
    /\ pc \in [Senders -> {"idle", "ring", "room", "fill", "header", "scan", "copy",
                           "release", "load", "store", "cur"}]
    /\ job \in [Senders -> Query \cup {NoJob}]
    /\ k \in [Senders -> Slots] /\ m \in [Senders -> {0, 1}]
    /\ left \in [Senders -> 0 .. UIntMod - 1]
    /\ qid \in [Senders -> Qids] /\ at \in [Senders -> 1 .. Items]
    /\ appended \in Nat /\ queries \in 0 .. MaxQueries
    /\ spoilt \subseteq Ids \cup {0}

-----------------------------------------------------------------------------
(* The table of addresses *)

Free == {i \in 1 .. Items : ~macmap[i].dirty}
Used == (1 .. Items) \ Free

\* The first of the entries found, or 0.
FirstEntry(found) ==
    IF found = {} THEN 0 ELSE CHOOSE i \in found : \A h \in found : i <= h

\* Mutant: the free entry is not looked for.
add_macaddr_last(q) ==
    macmap' = [macmap EXCEPT ![Items] = [peer |-> q.peer, qid |-> q.qid, dirty |-> TRUE,
                                         id |-> q.id]]

\* A free entry, or else the last one whatever it holds.
netmap_add_macaddr(q) ==
    LET i == IF Free = {} THEN Items ELSE FirstEntry(Free)
    IN  macmap' = [macmap EXCEPT ![i] = [peer |-> q.peer, qid |-> q.qid, dirty |-> TRUE,
                                         id |-> q.id]]

\* A sender that builds a header and has not written the address yet.
Heading == {"header", "scan", "copy"}

\* The queries whose reply is not addressed yet.
InWork == jobs \cup {job[s] : s \in {t \in Senders :
                                      pc[t] \in {"ring", "room", "fill"} \cup Heading}}

\* The queries in work and the ones in the table that have the same id.
Namesakes(q) == {x.id : x \in {y \in InWork : y.qid = q.qid}}
                \cup {macmap[i].id : i \in {h \in Used : macmap[h].qid = q.qid}}

\* What entering q may do to the queries: the id is ambiguous from now on, and
\* a full table loses its last entry.
Spoils(q) == (IF Namesakes(q) = {} THEN {} ELSE Namesakes(q) \cup {q.id})
             \cup (IF Free = {} THEN {macmap[Items].id} ELSE {})

-----------------------------------------------------------------------------
(* Receiving *)

IsDns(p) == p.kind # "other"

\* process_recv_ring(): packets are consumed up to the first query, at most
\* Limit of them.
Looked     == {i \in DOMAIN rxring : i <= Limit}
FirstQuery == FirstEntry({i \in Looked : IsDns(rxring[i])})

\* The sender of the packet is entered into the table.
parse_addr(p) == /\ netmap_add_macaddr(p.query)
                 /\ spoilt' = spoilt \cup Spoils(p.query)

\* netmap_recv() with a query in the ring.
netmap_recv(p) ==
    /\ FirstQuery # 0 /\ p = rxring[FirstQuery]
    /\ parse_addr(p)
    /\ rxring' = SubSeq(rxring, FirstQuery + 1, Len(rxring))

\* doio_netmap_recv() returns DOIO_SUCCESS.
ReceivesQuery ==
    \E p \in Range(rxring) :
        /\ netmap_recv(p)
        /\ p.kind = "query"
        /\ jobs' = jobs \cup {p.query}

\* DOIO_SOFT: a query that is refused; or no query, and so no source port.
ReceivesNothing ==
    /\ \/ \E p \in Range(rxring) : netmap_recv(p) /\ p.kind = "refused"
       \/ /\ FirstQuery = 0
          /\ rxring' = SubSeq(rxring, Limit + 1, Len(rxring))
          /\ UNCHANGED <<macmap, spoilt>>
    /\ UNCHANGED jobs

\* isc_socket_recv(): named asks for the next query.
socket_recv ==
    /\ reading # "drain"
    /\ requests + Cardinality(jobs) + Cardinality({s \in Senders : pc[s] # "idle"})
         < MaxRequests
    /\ \/ requests = 0 /\ ReceivesQuery /\ UNCHANGED <<requests, watched>>
       \/ /\ \/ requests = 0 /\ ReceivesNothing
             \/ requests > 0 /\ UNCHANGED <<rxring, macmap, jobs, spoilt>>
          /\ requests' = requests + 1
          /\ watched' = (watched \/ (requests = 0 /\ reading = "no"))
    /\ UNCHANGED <<reading, queries, txvars, senders>>

\* The watcher finds the descriptor readable: it posts the internal event and
\* stops polling.
dispatch_recv ==
    /\ watched /\ reading = "no" /\ rxring # <<>>
    /\ reading' = "pending"
    /\ watched' = FALSE
    /\ UNCHANGED <<rxring, requests, queries, macmap, txvars, senders, jobs, spoilt>>

\* Mutant: no select_poke() for the requests that are left.
internal_recv_no_poke ==
    /\ reading \in {"pending", "drain"}
    /\ \/ /\ requests > 0 /\ ReceivesQuery
          /\ requests' = requests - 1
          /\ reading' = "drain"
          /\ UNCHANGED watched
       \/ /\ \/ requests > 0 /\ ReceivesNothing
             \/ requests = 0 /\ UNCHANGED <<rxring, macmap, jobs, spoilt>>
          /\ reading' = "no"
          /\ UNCHANGED <<requests, watched>>
    /\ UNCHANGED <<queries, txvars, senders>>

\* internal_recv(): one request after the other, under sock->lock.
internal_recv ==
    /\ reading \in {"pending", "drain"}
    /\ \/ /\ requests > 0 /\ ReceivesQuery
          /\ requests' = requests - 1
          /\ reading' = "drain"
          /\ UNCHANGED watched
       \/ /\ \/ requests > 0 /\ ReceivesNothing
             \/ requests = 0 /\ UNCHANGED <<rxring, macmap, jobs, spoilt>>
          /\ reading' = "no"
          /\ watched' = (requests > 0)
          /\ UNCHANGED requests
    /\ UNCHANGED <<queries, txvars, senders>>

\* The watcher's poll brings a packet (the network, the kernel).
rx_sync(peer, id, kind) ==
    /\ watched /\ reading = "no"
    /\ queries < MaxQueries /\ Len(rxring) < RxSlots
    /\ queries' = queries + 1
    /\ rxring' = Append(rxring, [kind |-> kind, query |-> [id |-> queries', peer |-> peer,
                                                          qid |-> id]])
    /\ UNCHANGED <<requests, reading, watched, macmap, txvars, senders, jobs, spoilt>>

\* named does not answer: the query's entry stays in use.
drop(q) ==
    /\ jobs' = jobs \ {q}
    /\ UNCHANGED <<rxvars, macmap, txvars, senders, spoilt>>

-----------------------------------------------------------------------------
(* Sending: doio_netmap_send() in socket_send(), without sock->lock *)

NETMAP_RING_NEXT(i) == (i + 1) % TxSlots

\* netmap_send_to_ring(): a ring without room is skipped, and the result of
\* netmap_send() is not looked at: the reply counts as sent.
netmap_send(s, q) ==
    /\ pc[s] = "idle" /\ q \in jobs
    /\ jobs' = jobs \ {q}
    /\ IF avail = 0
         THEN UNCHANGED <<pc, job>>
         ELSE /\ pc' = [pc EXCEPT ![s] = "ring"]
              /\ job' = [job EXCEPT ![s] = q]
    /\ UNCHANGED <<rxvars, macmap, txvars, k, m, left, qid, at, spoilt>>

process_send_ring(s) ==
    /\ pc[s] = "ring"
    /\ k' = [k EXCEPT ![s] = cur]
    /\ pc' = [pc EXCEPT ![s] = "room"]
    /\ UNCHANGED <<rxvars, macmap, txvars, job, m, left, qid, at, jobs, spoilt>>

\* avail is read again; without room nothing is written (m is 0).
send_room(s) ==
    /\ pc[s] = "room"
    /\ m' = [m EXCEPT ![s] = IF avail = 0 THEN 0 ELSE 1]
    /\ pc' = [pc EXCEPT ![s] = IF avail = 0 THEN "load" ELSE "fill"]
    /\ UNCHANGED <<rxvars, macmap, txvars, job, k, left, qid, at, jobs, spoilt>>

\* The other senders that are writing a header into the same slot.
Sharing(s) == {u \in Senders \ {s} : k[u] = k[s] /\ pc[u] \in Heading}

\* The template, with this host's own addresses, and the payload.
send_fill(s) ==
    /\ pc[s] = "fill"
    /\ slots' = [slots EXCEPT ![k[s]] = [id |-> job[s].id, peer |-> job[s].peer,
                                         qid |-> job[s].qid, to |-> Nobody]]
    /\ spoilt' = IF Sharing(s) = {} THEN spoilt
                   ELSE spoilt \cup {job[u].id : u \in Sharing(s) \cup {s}}
    /\ pc' = [pc EXCEPT ![s] = "header"]
    /\ UNCHANGED <<rxvars, macmap, cur, avail, hwcur, hwavail, appended, job, k, m, left,
                   qid, at, jobs>>

\* The id is read back from the slot.
build_pkt_header(s) ==
    /\ pc[s] = "header"
    /\ qid' = [qid EXCEPT ![s] = slots[k[s]].qid]
    /\ at' = [at EXCEPT ![s] = 1]
    /\ pc' = [pc EXCEPT ![s] = "scan"]
    /\ UNCHANGED <<rxvars, macmap, txvars, job, k, m, left, jobs, spoilt>>

\* netmap_get_macmap(): the first entry with the id, in use or not.  Without one
\* the template's addresses stay.
netmap_get_macmap(s) ==
    /\ pc[s] = "scan"
    /\ IF macmap[at[s]].qid = qid[s]
         THEN pc' = [pc EXCEPT ![s] = "copy"] /\ UNCHANGED at
       ELSE IF at[s] < Items
         THEN at' = [at EXCEPT ![s] = @ + 1] /\ UNCHANGED pc
       ELSE pc' = [pc EXCEPT ![s] = "load"] /\ UNCHANGED at
    /\ UNCHANGED <<rxvars, macmap, txvars, job, k, m, left, qid, jobs, spoilt>>

get_macmap_copy(s) ==
    /\ pc[s] = "copy"
    /\ slots' = [slots EXCEPT ![k[s]].to = macmap[at[s]].peer]
    /\ pc' = [pc EXCEPT ![s] = "release"]
    /\ UNCHANGED <<rxvars, macmap, cur, avail, hwcur, hwavail, appended, job, k, m, left,
                   qid, at, jobs, spoilt>>

\* m->dirty = 0, whoever the entry is for by now.
get_macmap_release(s) ==
    /\ pc[s] = "release"
    /\ macmap' = [macmap EXCEPT ![at[s]].dirty = FALSE]
    /\ spoilt' = IF macmap[at[s]].dirty /\ macmap[at[s]].id # job[s].id
                   THEN spoilt \cup {macmap[at[s]].id} ELSE spoilt
    /\ pc' = [pc EXCEPT ![s] = "load"]
    /\ UNCHANGED <<rxvars, txvars, job, k, m, left, qid, at, jobs>>

\* txring->avail -= m: a load and a store.
send_load(s) ==
    /\ pc[s] = "load"
    /\ left' = [left EXCEPT ![s] = avail]
    /\ pc' = [pc EXCEPT ![s] = "store"]
    /\ UNCHANGED <<rxvars, macmap, txvars, job, k, m, qid, at, jobs, spoilt>>

send_store(s) ==
    /\ pc[s] = "store"
    /\ avail' = (left[s] + UIntMod - m[s]) % UIntMod
    /\ pc' = [pc EXCEPT ![s] = "cur"]
    /\ UNCHANGED <<rxvars, macmap, slots, cur, hwcur, hwavail, appended, job, k, m, left,
                   qid, at, jobs, spoilt>>

\* txring->cur = k, and DOIO_SUCCESS; what the thread knew is gone.
send_cur(s) ==
    /\ pc[s] = "cur"
    /\ cur' = IF m[s] = 1 THEN NETMAP_RING_NEXT(k[s]) ELSE k[s]
    /\ appended' = appended + m[s]
    /\ pc' = [pc EXCEPT ![s] = "idle"]
    /\ job' = [job EXCEPT ![s] = NoJob]
    /\ k' = [k EXCEPT ![s] = 0] /\ m' = [m EXCEPT ![s] = 0]
    /\ left' = [left EXCEPT ![s] = 0]
    /\ qid' = [qid EXCEPT ![s] = 0] /\ at' = [at EXCEPT ![s] = 1]
    /\ UNCHANGED <<rxvars, macmap, slots, avail, hwcur, hwavail, jobs, spoilt>>

\* The slots from hwcur up to cur.
Pending == {(hwcur + i) % TxSlots : i \in 0 .. ((cur + TxSlots - hwcur) % TxSlots) - 1}

\* The kernel's side of the poll: it takes the new packets, learns of "sent"
\* transmissions that completed, and tells how many slots are free.
tx_sync(sent) ==
    /\ watched
    /\ LET n == Cardinality(Pending)
       IN  /\ n <= hwavail
           /\ hwavail - n + sent <= TxSlots - 1
           /\ n + sent > 0
           /\ hwavail' = hwavail - n + sent
    /\ avail' = hwavail'
    /\ hwcur' = cur
    /\ appended' = 0
    /\ UNCHANGED <<rxvars, macmap, slots, cur, senders, jobs, spoilt>>

-----------------------------------------------------------------------------
Init ==
    /\ rxring = <<>> /\ requests = 0 /\ reading = "no" /\ watched = FALSE
    /\ macmap = [i \in 1 .. Items |-> [peer |-> Nobody, qid |-> 0, dirty |-> FALSE, id |-> 0]]
    /\ jobs = {} /\ spoilt = {} /\ queries = 0
    /\ slots = [i \in Slots |-> [id |-> 0, peer |-> Nobody, qid |-> 0, to |-> Nobody]]
    /\ cur = 0 /\ hwcur = 0 /\ avail = TxSlots - 1 /\ hwavail = TxSlots - 1
    /\ appended = 0
    /\ pc = [s \in Senders |-> "idle"] /\ job = [s \in Senders |-> NoJob]
    /\ k = [s \in Senders |-> 0] /\ m = [s \in Senders |-> 0]
    /\ left = [s \in Senders |-> 0]
    /\ qid = [s \in Senders |-> 0] /\ at = [s \in Senders |-> 1]

Next ==
    \/ socket_recv \/ dispatch_recv \/ internal_recv
    \/ \E peer \in Peers, id \in Qids, kind \in Kinds : rx_sync(peer, id, kind)
    \/ \E q \in jobs : drop(q)
    \/ \E s \in Senders : \/ \E q \in jobs : netmap_send(s, q)
                          \/ process_send_ring(s) \/ send_room(s) \/ send_fill(s)
                          \/ build_pkt_header(s) \/ netmap_get_macmap(s)
                          \/ get_macmap_copy(s) \/ get_macmap_release(s)
                          \/ send_load(s) \/ send_store(s) \/ send_cur(s)
    \/ \E sent \in Slots : tx_sync(sent)

Spec == Init /\ [][Next]_vars

-----------------------------------------------------------------------------
(* The answer to a query is addressed to the host that asked it, although   *)
(* the table is searched by query id only and without a lock, entries keep  *)
(* their id when they are free, and the search does not look at the dirty   *)
(* mark.  What may go wrong is exactly this: another query in work or in    *)
(* the table has the same id, the full table lost the query's entry, the    *)
(* late release of another answer freed it, or two senders wrote into one   *)
(* slot.  For every other query the first entry with its id is the one      *)
(* entered for it until its answer is addressed, and the reply in the ring  *)
(* has the address.                                                         *)
ReplyToAsker ==
    /\ TypeOK
    /\ \A q \in InWork : q.id \notin spoilt =>
          LET i == FirstEntry({h \in 1 .. Items : macmap[h].qid = q.qid})
          IN  i # 0 /\ macmap[i].dirty /\ macmap[i].peer = q.peer
    /\ \A i \in Slots : slots[i].id \notin spoilt =>
          \/ slots[i].to = slots[i].peer
          \/ \E s \in Senders : job[s].id = slots[i].id /\ k[s] = i /\ pc[s] \in Heading

(* netmap.h:179-181: cur "MUST BE incremented by the application before     *)
(* netmap system calls to reflect the number of newly sent packets".        *)
CurReflectsSent ==
    (\A s \in Senders : pc[s] = "idle") => Cardinality(Pending) = appended

(* While receive requests wait somebody will look at the ring: the watcher  *)
(* polls the descriptor or the internal event is on its way.                *)
RequestsAreWatched ==
    requests > 0 => watched \/ reading # "no"
=============================================================================
