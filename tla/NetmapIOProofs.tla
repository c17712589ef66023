--------------------------- MODULE NetmapIOProofs ---------------------------
(***************************************************************************)
(* Proofs about NetmapIO for any number of senders, hosts, ids, entries    *)
(* and slots: types, the requests that wait, and the table of addresses.   *)
(* Nothing is assumed of the senders or of the queries.  The transmit      *)
(* ring's counters are wrong already with two senders (run netmap_race),   *)
(* so nothing is claimed of them but their types.                          *)
(***************************************************************************)
EXTENDS NetmapIO, DataProofs

-----------------------------------------------------------------------------
(* The operators of the module *)

(* The first entry of a set of indexes is its least element. *)
LEMMA FirstEntryIs ==
    ASSUME NEW found \in SUBSET (Nat \ {0})
    PROVE  /\ found = {} => FirstEntry(found) = 0
           /\ found # {} => /\ FirstEntry(found) \in found
                            /\ FirstEntry(found) # 0
                            /\ \A h \in found : FirstEntry(found) <= h
<1>1. CASE found = {}
  BY <1>1 DEF FirstEntry
<1>2. CASE found # {}
  <2>1. \E x \in found : \A y \in found : x <= y
    BY <1>2, Least
  <2> QED BY <1>2, <2>1 DEF FirstEntry
<1> QED BY <1>1, <1>2

(* process_recv_ring() stops at a packet of the ring, or finds none. *)
LEMMA FirstQueryIs ==
    ASSUME rxring \in Seq(Packet)
    PROVE  FirstQuery # 0 => FirstQuery \in 1 .. Len(rxring)
<1> DEFINE found == {i \in Looked : IsDns(rxring[i])}
<1>1. DOMAIN rxring = 1 .. Len(rxring) /\ Len(rxring) \in Nat
  OBVIOUS
<1>2. found \in SUBSET (Nat \ {0}) /\ found \subseteq 1 .. Len(rxring)
  BY <1>1 DEF Looked
<1>3. FirstQuery = FirstEntry(found)
  BY DEF FirstQuery
<1> QED BY <1>2, <1>3, FirstEntryIs

(* The slots between hwcur and cur are slots; there are finitely many. *)
LEMMA PendingType ==
    ASSUME cur \in Slots, hwcur \in Slots
    PROVE  Pending \subseteq Slots /\ IsFiniteSet(Pending) /\ Cardinality(Pending) \in Nat
<1>1. Pending \subseteq Slots
  BY NetmapAssumption DEF Pending, Slots
<1>2. IsFiniteSet(Slots)
  BY FS_Interval, NetmapAssumption DEF Slots
<1> QED BY <1>1, <1>2, FS_Subset, FS_CardinalityType

-----------------------------------------------------------------------------
(* Types *)

(* A sender that is not idle works on a query; the work is finite. *)
Types ==
    /\ TypeOK
    /\ IsFiniteSet(jobs)
    /\ \A s \in Senders : pc[s] # "idle" => job[s] \in Query

(* The part of the state that a receive changes. *)
RxTypes ==
    /\ rxring \in Seq(Packet) /\ Len(rxring) <= RxSlots
    /\ macmap \in [1 .. Items -> Entry]
    /\ jobs \subseteq Query /\ IsFiniteSet(jobs)
    /\ spoilt \subseteq Ids \cup {0}

(* What one pass over the receive ring may do. *)
Receives ==
    \/ ReceivesQuery
    \/ ReceivesNothing
    \/ UNCHANGED <<rxring, macmap, jobs, spoilt>>

(* A query is entered in some entry, and the table stays a table. *)
LEMMA AddTypes ==
    ASSUME macmap \in [1 .. Items -> Entry], NEW q \in Query, netmap_add_macaddr(q)
    PROVE  macmap' \in [1 .. Items -> Entry]
<1>1. [peer |-> q.peer, qid |-> q.qid, dirty |-> TRUE, id |-> q.id] \in Entry
  BY DEF Query, Entry, Hosts
<1> QED BY <1>1 DEF netmap_add_macaddr

(* Only queries are spoilt. *)
LEMMA SpoilsType ==
    ASSUME Types, NEW q \in Query
    PROVE  Spoils(q) \subseteq Ids \cup {0}
<1> USE NetmapAssumption DEF Types, TypeOK
<1>1. \A x \in InWork : x.id \in Ids
  BY DEF InWork, Heading, Query
<1>2. \A i \in 1 .. Items : macmap[i].id \in Ids \cup {0}
  BY DEF Entry
<1>3. Namesakes(q) \subseteq Ids \cup {0}
  BY <1>1, <1>2 DEF Namesakes, Used
<1>4. q.id \in Ids
  BY DEF Query
<1> QED BY <1>2, <1>3, <1>4 DEF Spoils

(* A receive takes packets off the ring, and changes table and queries      *)
(* within their types.                                                      *)
LEMMA RecvTypes ==
    ASSUME Types, NEW p \in Range(rxring), netmap_recv(p)
    PROVE  /\ p \in Packet
           /\ rxring' \in Seq(Packet) /\ Len(rxring') <= RxSlots
           /\ macmap' \in [1 .. Items -> Entry]
           /\ spoilt' \subseteq Ids \cup {0}
<1> USE DEF Types, TypeOK
<1>1. FirstQuery \in 1 .. Len(rxring)
  BY FirstQueryIs DEF netmap_recv
<1>2. p \in Packet
  BY <1>1 DEF netmap_recv
<1>3. rxring' \in Seq(Packet) /\ Len(rxring') <= Len(rxring)
  BY <1>1, SubSeqProperties DEF netmap_recv
<1>4. p.query \in Query
  BY <1>2 DEF Packet
<1>5. macmap' \in [1 .. Items -> Entry]
  BY <1>4, AddTypes DEF netmap_recv, parse_addr
<1>6. spoilt' \subseteq Ids \cup {0}
  BY <1>4, SpoilsType DEF netmap_recv, parse_addr
<1> QED BY <1>2, <1>3, <1>5, <1>6, NetmapAssumption

LEMMA ReceivesTypes ==
    ASSUME Types, Receives
    PROVE  RxTypes'
<1>0. RxTypes
  BY DEF Types, TypeOK, RxTypes
<1>1. CASE ReceivesQuery
  <2>1. PICK p \in Range(rxring) : /\ netmap_recv(p)
                                   /\ jobs' = jobs \cup {p.query}
    BY <1>1 DEF ReceivesQuery
  <2>2. p \in Packet
    BY <2>1, RecvTypes
  <2>3. jobs' \subseteq Query /\ IsFiniteSet(jobs')
    BY <1>0, <2>1, <2>2, FS_AddElement DEF RxTypes, Packet
  <2> QED BY <2>1, <2>3, RecvTypes DEF RxTypes
<1>2. CASE ReceivesNothing
  <2>1. CASE \E p \in Range(rxring) : netmap_recv(p)
    BY <1>0, <1>2, <2>1, RecvTypes DEF ReceivesNothing, RxTypes
  <2>2. CASE rxring' = SubSeq(rxring, Limit + 1, Len(rxring)) /\ UNCHANGED <<macmap, spoilt>>
    <3>1. rxring' \in Seq(Packet) /\ Len(rxring') <= Len(rxring)
      <4>1. CASE Limit + 1 <= Len(rxring)
        BY <1>0, <2>2, <4>1, SubSeqProperties, NetmapAssumption DEF RxTypes
      <4>2. CASE Limit + 1 > Len(rxring)
        BY <1>0, <2>2, <4>2, SubSeqProperties, NetmapAssumption DEF RxTypes
      <4> QED BY <1>0, <4>1, <4>2, NetmapAssumption DEF RxTypes
    <3> QED BY <1>0, <1>2, <2>2, <3>1, NetmapAssumption DEF ReceivesNothing, RxTypes
  <2> QED BY <1>2, <2>1, <2>2 DEF ReceivesNothing
<1>3. CASE UNCHANGED <<rxring, macmap, jobs, spoilt>>
  BY <1>0, <1>3 DEF RxTypes
<1> QED BY <1>1, <1>2, <1>3 DEF Receives

LEMMA TypesInit == Init => Types
<1> SUFFICES ASSUME Init PROVE Types
  OBVIOUS
<1>1. IsFiniteSet({})
  BY FS_EmptySet
<1>2. <<>> \in Seq(Packet) /\ Len(<<>>) = 0
  OBVIOUS
<1>3. 0 \in Slots /\ TxSlots - 1 \in Slots /\ TxSlots - 1 \in 0 .. UIntMod - 1
  BY NetmapAssumption DEF Slots
<1>4. macmap \in [1 .. Items -> Entry]
  BY NetmapAssumption DEF Init, Entry, Hosts
<1>5. slots \in [Slots -> Reply]
  BY NetmapAssumption DEF Init, Reply, Hosts
<1>6. /\ 0 \in 0 .. MaxRequests /\ 0 \in 0 .. MaxQueries /\ 0 <= RxSlots
      /\ 0 \in 0 .. UIntMod - 1 /\ 1 \in 1 .. Items
  BY NetmapAssumption
<1>7. /\ pc \in [Senders -> {"idle", "ring", "room", "fill", "header", "scan", "copy",
                             "release", "load", "store", "cur"}]
      /\ \A s \in Senders : pc[s] = "idle"
      /\ job \in [Senders -> Query \cup {NoJob}]
      /\ k \in [Senders -> Slots] /\ left \in [Senders -> 0 .. UIntMod - 1]
      /\ m \in [Senders -> {0, 1}]
      /\ qid \in [Senders -> Qids] /\ at \in [Senders -> 1 .. Items]
  BY <1>3, <1>6, NetmapAssumption DEF Init
<1> QED BY <1>1, <1>2, <1>3, <1>4, <1>5, <1>6, <1>7 DEF Init, Types, TypeOK

LEMMA TypesNext == Types /\ [Next]_vars => Types'
<1> SUFFICES ASSUME Types, [Next]_vars PROVE Types'
  OBVIOUS
<1> USE DEF Types, TypeOK
<1>0. ASSUME Receives, requests' \in 0 .. MaxRequests, reading' \in {"no", "pending", "drain"},
             watched' \in BOOLEAN, queries' = queries, UNCHANGED <<txvars, senders>>
      PROVE  Types'
  <2>1. RxTypes'
    BY <1>0, ReceivesTypes
  <2> QED BY <1>0, <2>1 DEF RxTypes, txvars, senders
<1>1. CASE socket_recv
  <2>1. Receives
    BY <1>1 DEF socket_recv, Receives
  <2>2. requests' \in 0 .. MaxRequests
    <3>1. Cardinality(jobs) \in Nat
      BY FS_CardinalityType
    <3>2. Cardinality({s \in Senders : pc[s] # "idle"}) \in Nat
      BY FS_Subset, FS_CardinalityType, NetmapAssumption
    <3> QED BY <1>1, <3>1, <3>2, NetmapAssumption DEF socket_recv
  <2>3. watched' \in BOOLEAN
    BY <1>1 DEF socket_recv
  <2> QED BY <1>0, <1>1, <2>1, <2>2, <2>3 DEF socket_recv
<1>2. CASE dispatch_recv
  BY <1>2 DEF dispatch_recv, txvars, senders
<1>3. CASE internal_recv
  <2>1. Receives
    BY <1>3 DEF internal_recv, Receives
  <2>2. requests' \in 0 .. MaxRequests
    BY <1>3, NetmapAssumption DEF internal_recv
  <2>3. watched' \in BOOLEAN
    <3>1. watched' = watched \/ watched' = (requests > 0)
      BY <1>3, Zenon DEF internal_recv
    <3>2. (requests > 0) \in BOOLEAN
      OBVIOUS
    <3> QED BY <3>1, <3>2, Zenon
  <2> QED BY <1>0, <1>3, <2>1, <2>2, <2>3 DEF internal_recv
<1>4. ASSUME NEW peer \in Peers, NEW id \in Qids, NEW kind \in Kinds, rx_sync(peer, id, kind)
      PROVE  Types'
  <2> DEFINE p == [kind |-> kind, query |-> [id |-> queries', peer |-> peer, qid |-> id]]
  <2>1. queries' \in 1 .. MaxQueries
    BY <1>4, NetmapAssumption DEF rx_sync
  <2>2. p \in Packet
    BY <2>1 DEF Packet, Query, Ids
  <2>3. rxring' \in Seq(Packet) /\ Len(rxring') <= RxSlots
    BY <1>4, <2>2, NetmapAssumption DEF rx_sync
  <2> QED BY <1>4, <2>1, <2>3 DEF rx_sync, txvars, senders
<1>5. ASSUME NEW q \in jobs, drop(q) PROVE Types'
  BY <1>5, FS_RemoveElement DEF drop, rxvars, txvars, senders
<1>6. ASSUME NEW s \in Senders, NEW q \in jobs, netmap_send(s, q) PROVE Types'
  <2>1. jobs' \subseteq Query /\ IsFiniteSet(jobs')
    BY <1>6, FS_RemoveElement DEF netmap_send
  <2>2. /\ pc' \in [Senders -> {"idle", "ring", "room", "fill", "header", "scan", "copy",
                                "release", "load", "store", "cur"}]
        /\ job' \in [Senders -> Query \cup {NoJob}]
        /\ \A r \in Senders : pc'[r] # "idle" => job'[r] \in Query
    BY <1>6, ZenonT(40) DEF netmap_send
  <2> QED BY <1>6, <2>1, <2>2 DEF netmap_send, rxvars, txvars
<1>7. ASSUME NEW s \in Senders, process_send_ring(s) PROVE Types'
  BY <1>7 DEF process_send_ring, rxvars, txvars
<1>8. ASSUME NEW s \in Senders, send_room(s) PROVE Types'
  BY <1>8 DEF send_room, rxvars, txvars
<1>9. ASSUME NEW s \in Senders, send_fill(s) PROVE Types'
  <2>1. job[s] \in Query
    BY <1>9 DEF send_fill
  <2>2. [id |-> job[s].id, peer |-> job[s].peer, qid |-> job[s].qid, to |-> Nobody] \in Reply
    BY <2>1 DEF Query, Reply, Hosts
  <2>3. \A u \in Sharing(s) \cup {s} : job[u].id \in Ids
    BY <2>1 DEF Sharing, Heading, Query
  <2>4. slots' \in [Slots -> Reply]
    BY <1>9, <2>2 DEF send_fill
  <2>5. spoilt' \subseteq Ids \cup {0}
    BY <1>9, <2>3 DEF send_fill
  <2> QED BY <1>9, <2>4, <2>5 DEF send_fill, rxvars
<1>10. ASSUME NEW s \in Senders, build_pkt_header(s) PROVE Types'
  <2>1. slots[k[s]].qid \in Qids /\ 1 \in 1 .. Items
    BY NetmapAssumption DEF Reply
  <2> QED BY <1>10, <2>1 DEF build_pkt_header, rxvars, txvars
<1>11. ASSUME NEW s \in Senders, netmap_get_macmap(s) PROVE Types'
  <2>1. at' \in [Senders -> 1 .. Items]
    <3>1. at[s] \in 1 .. Items
      OBVIOUS
    <3>2. CASE at[s] < Items
      <4>1. at[s] + 1 \in 1 .. Items
        BY <3>1, <3>2, NetmapAssumption
      <4>2. at' = at \/ at' = [at EXCEPT ![s] = at[s] + 1]
        BY <1>11 DEF netmap_get_macmap
      <4> QED BY <4>1, <4>2
    <3>3. CASE ~(at[s] < Items)
      BY <1>11, <3>3 DEF netmap_get_macmap
    <3> QED BY <3>2, <3>3
  <2>2. /\ pc' \in [Senders -> {"idle", "ring", "room", "fill", "header", "scan", "copy",
                                "release", "load", "store", "cur"}]
        /\ \A r \in Senders : pc'[r] # "idle" => pc[r] # "idle"
    BY <1>11 DEF netmap_get_macmap
  <2> QED BY <1>11, <2>1, <2>2 DEF netmap_get_macmap, rxvars, txvars
<1>12. ASSUME NEW s \in Senders, get_macmap_copy(s) PROVE Types'
  <2>1. macmap[at[s]].peer \in Hosts
    BY DEF Entry
  <2>2. slots' \in [Slots -> Reply]
    BY <1>12, <2>1 DEF get_macmap_copy, Reply
  <2> QED BY <1>12, <2>2 DEF get_macmap_copy, rxvars
<1>13. ASSUME NEW s \in Senders, get_macmap_release(s) PROVE Types'
  <2>1. macmap' \in [1 .. Items -> Entry]
    BY <1>13 DEF get_macmap_release, Entry
  <2>2. macmap[at[s]].id \in Ids \cup {0}
    BY DEF Entry
  <2>3. spoilt' \subseteq Ids \cup {0}
    BY <1>13, <2>2 DEF get_macmap_release
  <2> QED BY <1>13, <2>1, <2>3 DEF get_macmap_release, rxvars, txvars
<1>14. ASSUME NEW s \in Senders, send_load(s) PROVE Types'
  BY <1>14 DEF send_load, rxvars, txvars
<1>15. ASSUME NEW s \in Senders, send_store(s) PROVE Types'
  <2>1. avail' \in 0 .. UIntMod - 1
    <3>1. left[s] \in 0 .. UIntMod - 1 /\ m[s] \in {0, 1}
      OBVIOUS
    <3>2. avail' = (left[s] + UIntMod - m[s]) % UIntMod
      BY <1>15 DEF send_store
    <3> QED BY <3>1, <3>2, NetmapAssumption
  <2> QED BY <1>15, <2>1 DEF send_store, rxvars
<1>16. ASSUME NEW s \in Senders, send_cur(s) PROVE Types'
  <2>1. cur' \in Slots /\ 0 \in Slots
    BY <1>16, NetmapAssumption DEF send_cur, NETMAP_RING_NEXT, Slots
  <2>2. 0 \in Qids /\ 1 \in 1 .. Items /\ 0 \in 0 .. UIntMod - 1 /\ appended' \in Nat
    BY <1>16, NetmapAssumption DEF send_cur
  <2> QED BY <1>16, <2>1, <2>2 DEF send_cur, rxvars
<1>17. ASSUME NEW sent \in Slots, tx_sync(sent) PROVE Types'
  <2>1. Cardinality(Pending) \in Nat /\ Pending \subseteq Slots
    BY PendingType
  <2>2. hwavail' \in Slots /\ avail' \in 0 .. UIntMod - 1
    BY <1>17, <2>1, NetmapAssumption DEF tx_sync, Slots
  <2> QED BY <1>17, <2>2 DEF tx_sync, rxvars, senders
<1>18. CASE UNCHANGED vars
  BY <1>18 DEF vars, rxvars, txvars, senders
<1> QED BY <1>1, <1>2, <1>3, <1>4, <1>5, <1>6, <1>7, <1>8, <1>9, <1>10, <1>11, <1>12, <1>13,
           <1>14, <1>15, <1>16, <1>17, <1>18 DEF Next

(* While receive requests wait the watcher polls the descriptor or the       *)
(* internal event is on its way, for any number of senders, peers and slots: *)
(* socket_recv() and internal_recv() poke the watcher whenever they leave a  *)
(* request behind.                                                           *)
THEOREM RequestsKept == Spec => []RequestsAreWatched
<1>1. Init => Types /\ RequestsAreWatched
  BY TypesInit DEF Init, RequestsAreWatched
<1>2. Types /\ RequestsAreWatched /\ [Next]_vars => RequestsAreWatched'
  <2> SUFFICES ASSUME Types, RequestsAreWatched, [Next]_vars PROVE RequestsAreWatched'
    OBVIOUS
  <2> USE DEF RequestsAreWatched
  <2>0. requests \in Nat
    BY DEF Types, TypeOK
  <2>1. CASE socket_recv
    <3>1. CASE requests' = requests
      BY <2>1, <2>0, <3>1 DEF socket_recv
    <3>2. CASE requests' # requests
      <4>1. watched' = (watched \/ (requests = 0 /\ reading = "no")) /\ reading' = reading
        BY <2>1, <3>2, Zenon DEF socket_recv
      <4>2. watched \/ requests = 0 \/ reading # "no"
        BY <2>0
      <4> QED BY <4>1, <4>2, Zenon
    <3> QED BY <3>1, <3>2
  <2>2. CASE dispatch_recv
    BY <2>2 DEF dispatch_recv
  <2>3. CASE internal_recv
    BY <2>3 DEF internal_recv
  <2>4. CASE UNCHANGED <<requests, watched, reading>>
    BY <2>4
  <2> QED BY <2>1, <2>2, <2>3, <2>4
       DEF Next, rx_sync, drop, netmap_send, process_send_ring, send_room, send_fill,
           build_pkt_header, netmap_get_macmap, get_macmap_copy, get_macmap_release, send_load,
           send_store, send_cur, tx_sync, rxvars, vars
<1> QED BY <1>1, <1>2, TypesNext, PTL DEF Spec

-----------------------------------------------------------------------------
(* The table of addresses *)

\* No query is in two places, and the ids are those given so far.
Fresh ==
    /\ \A i \in DOMAIN rxring :
          /\ rxring[i].query.id <= queries
          /\ \A j \in DOMAIN rxring : j # i => rxring[j].query.id # rxring[i].query.id
          /\ \A q \in jobs : q.id # rxring[i].query.id
          /\ \A s \in Senders : pc[s] # "idle" => job[s].id # rxring[i].query.id
    /\ \A q \in jobs :
          /\ q.id <= queries
          /\ \A r \in jobs : r # q => r.id # q.id
          /\ \A s \in Senders : pc[s] # "idle" => job[s].id # q.id
    /\ \A s \in Senders : pc[s] # "idle" =>
          /\ job[s].id <= queries
          /\ \A u \in Senders \ {s} : pc[u] # "idle" => job[u].id # job[s].id

\* Entry i is the one written for query q, and the search for its id finds it.
Kept(q, i) ==
    /\ macmap[i] = [peer |-> q.peer, qid |-> q.qid, dirty |-> TRUE, id |-> q.id]
    /\ \A h \in 1 .. i - 1 : macmap[h].qid # q.qid

\* Every query in work that was not spoilt has such an entry; a sender that
\* searches the table has not passed it.
Work == \A q \in InWork : q.id \notin spoilt => \E i \in 1 .. Items : Kept(q, i)

Looking ==
    \A s \in Senders : pc[s] \in {"scan", "copy"} /\ job[s].id \notin spoilt =>
        /\ qid[s] = job[s].qid
        /\ \E i \in 1 .. Items : /\ Kept(job[s], i)
                                 /\ at[s] <= i
                                 /\ pc[s] = "copy" => at[s] = i

\* A slot has the payload of the sender that builds its header.
Filled ==
    \A s \in Senders : pc[s] \in Heading =>
        /\ job[s].id \notin spoilt => /\ slots[k[s]].id = job[s].id
                                      /\ slots[k[s]].peer = job[s].peer
                                      /\ slots[k[s]].qid = job[s].qid
        /\ slots[k[s]].id \notin spoilt => slots[k[s]].id = job[s].id

Addressed ==
    \A i \in Slots : slots[i].id \notin spoilt =>
        \/ slots[i].to = slots[i].peer
        \/ \E s \in Senders : job[s].id = slots[i].id /\ k[s] = i /\ pc[s] \in Heading

(* The answers are with their askers as far as the excuses go. *)
Table == Fresh /\ Work /\ Looking /\ Filled /\ Addressed

LEMMA TableInit == Init => Table
<1> SUFFICES ASSUME Init PROVE Table
  OBVIOUS
<1>1. DOMAIN rxring = {} /\ jobs = {} /\ \A s \in Senders : pc[s] = "idle"
  BY DEF Init
<1>2. \A i \in Slots : slots[i].to = slots[i].peer
  BY DEF Init
<1>3. InWork = {}
  BY <1>1 DEF InWork, Heading
<1> QED BY <1>1, <1>2, <1>3 DEF Table, Fresh, Work, Looking, Filled, Addressed, Heading

(* Nothing is in the way of an entry that was kept while the table stays. *)
LEMMA KeptStays ==
    ASSUME NEW q, NEW i, Kept(q, i), macmap' = macmap
    PROVE  Kept(q, i)'
  BY DEF Kept

(* A query has one entry at most. *)
LEMMA KeptOnce ==
    ASSUME NEW q, NEW i \in 1 .. Items, NEW j \in 1 .. Items, Kept(q, i), macmap[j].qid = q.qid,
           j <= i
    PROVE  i = j
<1>1. CASE j < i
  BY <1>1, NetmapAssumption DEF Kept
<1> QED BY <1>1, NetmapAssumption

(* The entry a query is written to. *)
Chosen == IF Free = {} THEN Items ELSE FirstEntry(Free)

LEMMA ChosenIs ==
    /\ Chosen \in 1 .. Items
    /\ Free # {} => Chosen \in Free
    /\ \A h \in 1 .. Chosen - 1 : h \in Used
<1>1. Free \in SUBSET (Nat \ {0}) /\ Free \subseteq 1 .. Items
  BY DEF Free
<1>2. CASE Free = {}
  BY <1>2, NetmapAssumption DEF Chosen, Used
<1>3. CASE Free # {}
  <2>1. Chosen = FirstEntry(Free)
    BY <1>3 DEF Chosen
  <2>2. Chosen \in Free /\ \A h \in Free : Chosen <= h
    BY <1>1, <1>3, <2>1, FirstEntryIs
  <2>3. \A h \in 1 .. Chosen - 1 : h \in 1 .. Items /\ ~(h \in Free)
    BY <1>1, <2>2, NetmapAssumption
  <2> QED BY <1>1, <2>2, <2>3 DEF Used
<1> QED BY <1>2, <1>3

LEMMA ParseIs ==
    ASSUME Types, NEW p, p.query \in Query, parse_addr(p)
    PROVE  /\ macmap'[Chosen] = [peer |-> p.query.peer, qid |-> p.query.qid, dirty |-> TRUE,
                                 id |-> p.query.id]
           /\ macmap'[Chosen].qid = p.query.qid
           /\ \A h \in 1 .. Items : h # Chosen => macmap'[h] = macmap[h]
           /\ spoilt' = spoilt \cup Spoils(p.query)
<1>1. macmap' = [macmap EXCEPT ![Chosen] = [peer |-> p.query.peer, qid |-> p.query.qid,
                                            dirty |-> TRUE, id |-> p.query.id]]
  BY DEF parse_addr, netmap_add_macaddr, Chosen
<1> QED BY <1>1, ChosenIs DEF Types, TypeOK, parse_addr

(* A query in work keeps its entry when another one is entered, unless it is *)
(* spoilt: the full table gives up the last entry, or the ids are the same.  *)
LEMMA KeptReceive ==
    ASSUME Types, NEW p, p.query \in Query, parse_addr(p), NEW q \in InWork,
           q.id \notin spoilt', NEW i \in 1 .. Items, Kept(q, i)
    PROVE  Kept(q, i)'
<1>1. q.qid # p.query.qid
  <2>1. SUFFICES ASSUME q.qid = p.query.qid PROVE FALSE
    OBVIOUS
  <2>2. q.id \in Namesakes(p.query)
    BY <2>1 DEF Namesakes
  <2> QED BY <2>2, ParseIs DEF Spoils
<1>2. i # Chosen
  <2>1. CASE Free = {}
    <3>1. macmap[Items].id \in spoilt'
      BY <2>1, ParseIs DEF Spoils
    <3>2. Chosen = Items
      BY <2>1 DEF Chosen
    <3> QED BY <3>1, <3>2 DEF Kept
  <2>2. CASE Free # {}
    BY <2>2, ChosenIs DEF Kept, Free
  <2> QED BY <2>1, <2>2
<1>3. macmap'[i] = macmap[i]
  BY <1>2, ParseIs
<1>4. ASSUME NEW h \in 1 .. i - 1 PROVE macmap'[h].qid # q.qid
  <2>1. h \in 1 .. Items /\ macmap[h].qid # q.qid
    BY NetmapAssumption DEF Kept
  <2>2. CASE h = Chosen
    <3>1. macmap'[h].qid = p.query.qid
      BY <2>2, ParseIs
    <3> QED BY <1>1, <3>1
  <2>3. CASE h # Chosen
    BY <2>1, <2>3, ParseIs
  <2> QED BY <2>2, <2>3
<1> QED BY <1>3, <1>4 DEF Kept

(* A query that is entered has the chosen entry, unless its id is ambiguous. *)
LEMMA KeptNew ==
    ASSUME Types, NEW p, p.query \in Query, parse_addr(p), p.query.id \notin spoilt',
           NEW i, i = Chosen
    PROVE  Kept(p.query, i)'
<1> DEFINE q == p.query
<1>1. Namesakes(q) = {}
  BY ParseIs DEF Spoils
<1>2. ASSUME NEW h \in 1 .. i - 1 PROVE macmap'[h].qid # q.qid
  <2>1. h \in Used /\ h \in 1 .. Items /\ h # i
    BY ChosenIs, NetmapAssumption
  <2>2. macmap[h].qid # q.qid
    BY <1>1, <2>1 DEF Namesakes
  <2> QED BY <2>1, <2>2, ParseIs
<1>3. macmap'[i] = [peer |-> q.peer, qid |-> q.qid, dirty |-> TRUE, id |-> q.id]
  BY ParseIs
<1> QED BY <1>2, <1>3 DEF Kept

-----------------------------------------------------------------------------
(* Fresh *)

LEMMA FreshStays ==
    ASSUME Fresh, UNCHANGED <<rxring, queries>>, jobs' \subseteq jobs,
           \A s \in Senders : pc'[s] # "idle" => pc[s] # "idle" /\ job'[s] = job[s]
    PROVE  Fresh'
  BY DEF Fresh

(* What is left of the ring are packets of the ring. *)
LEMMA SuffixIs ==
    ASSUME rxring \in Seq(Packet), NEW n \in Nat, rxring' = SubSeq(rxring, n + 1, Len(rxring))
    PROVE  \A i \in DOMAIN rxring' : i + n \in DOMAIN rxring /\ rxring'[i] = rxring[i + n]
<1>1. DOMAIN rxring = 1 .. Len(rxring) /\ Len(rxring) \in Nat
  OBVIOUS
<1>2. CASE n + 1 <= Len(rxring)
  BY <1>1, <1>2, SubSeqProperties
<1>3. CASE n + 1 > Len(rxring)
  BY <1>1, <1>3, SubSeqProperties
<1> QED BY <1>1, <1>2, <1>3

LEMMA FreshReceives ==
    ASSUME Types, Fresh, Receives, queries' = queries, UNCHANGED senders
    PROVE  Fresh'
<1>0. rxring \in Seq(Packet) /\ DOMAIN rxring = 1 .. Len(rxring) /\ Len(rxring) \in Nat
  BY DEF Types, TypeOK
<1>1. ASSUME NEW n \in Nat, rxring' = SubSeq(rxring, n + 1, Len(rxring)),
             \/ jobs' = jobs
             \/ n \in DOMAIN rxring /\ jobs' = jobs \cup {rxring[n].query}
      PROVE  Fresh'
  <2>1. \A i \in DOMAIN rxring' : /\ i \in Nat \ {0} /\ i + n \in DOMAIN rxring
                                  /\ rxring'[i] = rxring[i + n]
    <3>1. \A i \in DOMAIN rxring' : i + n \in DOMAIN rxring /\ rxring'[i] = rxring[i + n]
      BY <1>0, <1>1, SuffixIs
    <3>2. rxring' \in Seq(Packet)
      BY <1>0, <1>1, ReceivesTypes DEF RxTypes
    <3>3. \A i \in DOMAIN rxring' : i \in Nat \ {0}
      BY <3>2
    <3> QED BY <3>1, <3>3
  <2>2. \A i, j \in DOMAIN rxring' : i # j => i + n # j + n
    BY <2>1
  <2>3. \A i \in DOMAIN rxring' : i + n # n
    BY <2>1
  <2>4. \A i \in DOMAIN rxring' :
          /\ rxring'[i].query.id <= queries
          /\ \A j \in DOMAIN rxring' : j # i => rxring'[j].query.id # rxring'[i].query.id
          /\ \A q \in jobs' : q.id # rxring'[i].query.id
          /\ \A s \in Senders : pc[s] # "idle" => job[s].id # rxring'[i].query.id
    <3> SUFFICES ASSUME NEW i \in DOMAIN rxring'
                 PROVE  /\ rxring'[i].query.id <= queries
                        /\ \A j \in DOMAIN rxring' : j # i => rxring'[j].query.id # rxring'[i].query.id
                        /\ \A q \in jobs' : q.id # rxring'[i].query.id
                        /\ \A s \in Senders : pc[s] # "idle" => job[s].id # rxring'[i].query.id
      OBVIOUS
    <3>1. PICK e \in DOMAIN rxring : e = i + n /\ e # n /\ rxring'[i] = rxring[e]
      BY <2>1, <2>3
    <3>2. ASSUME NEW j \in DOMAIN rxring', j # i PROVE rxring'[j].query.id # rxring'[i].query.id
      <4>1. PICK f \in DOMAIN rxring : f = j + n /\ rxring'[j] = rxring[f]
        BY <2>1
      <4>2. f # e
        BY <2>2, <3>1, <3>2, <4>1
      <4> QED BY <3>1, <4>1, <4>2 DEF Fresh
    <3>3. ASSUME NEW q \in jobs' PROVE q.id # rxring'[i].query.id
      <4>1. q \in jobs \/ (n \in DOMAIN rxring /\ q = rxring[n].query)
        BY <1>1, <3>3
      <4> QED BY <3>1, <4>1 DEF Fresh
    <3> QED BY <3>1, <3>2, <3>3 DEF Fresh
  <2>5. \A q \in jobs' :
          /\ q.id <= queries
          /\ \A r \in jobs' : r # q => r.id # q.id
          /\ \A s \in Senders : pc[s] # "idle" => job[s].id # q.id
    BY <1>1 DEF Fresh
  <2> QED BY <2>4, <2>5 DEF Fresh, senders
<1>2. CASE ReceivesQuery
  <2>1. PICK q \in Range(rxring) : netmap_recv(q) /\ jobs' = jobs \cup {q.query}
    BY <1>2 DEF ReceivesQuery
  <2>2. FirstQuery \in 1 .. Len(rxring) /\ q = rxring[FirstQuery]
    BY <1>0, <2>1, FirstQueryIs DEF netmap_recv
  <2> QED BY <1>0, <1>1, <2>1, <2>2 DEF netmap_recv
<1>3. CASE ReceivesNothing
  <2>1. CASE \E q \in Range(rxring) : netmap_recv(q)
    <3>1. FirstQuery \in 1 .. Len(rxring) /\ rxring' = SubSeq(rxring, FirstQuery + 1, Len(rxring))
      BY <1>0, <2>1, FirstQueryIs DEF netmap_recv
    <3> QED BY <1>0, <1>1, <1>3, <3>1 DEF ReceivesNothing
  <2>2. CASE rxring' = SubSeq(rxring, Limit + 1, Len(rxring))
    BY <1>1, <1>3, <2>2, NetmapAssumption DEF ReceivesNothing
  <2> QED BY <1>3, <2>1, <2>2 DEF ReceivesNothing
<1>4. CASE UNCHANGED <<rxring, macmap, jobs, spoilt>>
  BY <1>4, FreshStays DEF senders
<1> QED BY <1>2, <1>3, <1>4 DEF Receives

LEMMA FreshNext == Types /\ Fresh /\ [Next]_vars => Fresh'
<1> SUFFICES ASSUME Types, Fresh, [Next]_vars PROVE Fresh'
  OBVIOUS
<1> USE DEF Types, TypeOK
<1>1. CASE socket_recv \/ internal_recv
  BY <1>1, FreshReceives DEF socket_recv, internal_recv, Receives
<1>2. CASE dispatch_recv
  BY <1>2, FreshStays DEF dispatch_recv, senders
<1>3. ASSUME NEW peer \in Peers, NEW id \in Qids, NEW kind \in Kinds, rx_sync(peer, id, kind)
      PROVE  Fresh'
  <2> DEFINE x == [kind |-> kind, query |-> [id |-> queries', peer |-> peer, qid |-> id]]
  <2>1. /\ queries' = queries + 1 /\ queries \in Nat /\ rxring' = Append(rxring, x)
        /\ UNCHANGED <<jobs, pc, job>>
    BY <1>3 DEF rx_sync, senders
  <2>2. DOMAIN rxring = 1 .. Len(rxring) /\ Len(rxring) \in Nat
    OBVIOUS
  <2>3. DOMAIN rxring' = 1 .. Len(rxring) + 1
    BY <2>1
  <2>4. \A i \in DOMAIN rxring' : \/ i \in DOMAIN rxring /\ rxring'[i] = rxring[i]
                                  \/ i = Len(rxring) + 1 /\ rxring'[i] = x
    BY <2>1, <2>2, <2>3
  <2>5. /\ \A i \in DOMAIN rxring : rxring[i].query.id <= queries /\ rxring[i].query.id \in Nat
        /\ \A q \in jobs : q.id <= queries /\ q.id \in Nat
        /\ \A s \in Senders : pc[s] # "idle" => job[s].id <= queries /\ job[s].id \in Nat
    <3>1. ASSUME NEW i \in DOMAIN rxring
          PROVE  rxring[i].query.id <= queries /\ rxring[i].query.id \in Nat
      <4>1. rxring[i] \in Packet
        OBVIOUS
      <4> QED BY <4>1 DEF Fresh, Packet, Query, Ids
    <3>2. ASSUME NEW q \in jobs PROVE q.id <= queries /\ q.id \in Nat
      BY DEF Fresh, Query, Ids
    <3>3. ASSUME NEW s \in Senders, pc[s] # "idle"
          PROVE  job[s].id <= queries /\ job[s].id \in Nat
      <4>1. job[s] \in Query
        BY <3>3
      <4> QED BY <3>3, <4>1 DEF Fresh, Query, Ids
    <3> QED BY <3>1, <3>2, <3>3
  <2>6. x.query.id = queries + 1
    BY <2>1
  <2> HIDE DEF x
  <2>7. /\ \A i \in DOMAIN rxring : rxring[i].query.id # x.query.id
        /\ \A q \in jobs : q.id # x.query.id
        /\ \A s \in Senders : pc[s] # "idle" => job[s].id # x.query.id
    BY <2>1, <2>5, <2>6
  <2>8. \A i \in DOMAIN rxring' :
          /\ rxring'[i].query.id <= queries'
          /\ \A j \in DOMAIN rxring' : j # i => rxring'[j].query.id # rxring'[i].query.id
          /\ \A q \in jobs : q.id # rxring'[i].query.id
          /\ \A s \in Senders : pc[s] # "idle" => job[s].id # rxring'[i].query.id
    <3> SUFFICES ASSUME NEW i \in DOMAIN rxring'
                 PROVE  /\ rxring'[i].query.id <= queries'
                        /\ \A j \in DOMAIN rxring' : j # i => rxring'[j].query.id # rxring'[i].query.id
                        /\ \A q \in jobs : q.id # rxring'[i].query.id
                        /\ \A s \in Senders : pc[s] # "idle" => job[s].id # rxring'[i].query.id
      OBVIOUS
    <3>1. rxring'[i].query.id <= queries'
      BY <2>1, <2>4, <2>5, <2>6
    <3>2. ASSUME NEW j \in DOMAIN rxring', j # i PROVE rxring'[j].query.id # rxring'[i].query.id
      BY <2>4, <2>7, <3>2 DEF Fresh
    <3>3. /\ \A q \in jobs : q.id # rxring'[i].query.id
          /\ \A s \in Senders : pc[s] # "idle" => job[s].id # rxring'[i].query.id
      BY <2>4, <2>7 DEF Fresh
    <3> QED BY <3>1, <3>2, <3>3
  <2>9. /\ \A q \in jobs : q.id <= queries'
        /\ \A s \in Senders : pc[s] # "idle" => job[s].id <= queries'
    BY <2>1, <2>5
  <2> QED BY <2>1, <2>8, <2>9 DEF Fresh
<1>4. ASSUME NEW q \in jobs, drop(q) PROVE Fresh'
  BY <1>4, FreshStays DEF drop, rxvars, senders
<1>5. ASSUME NEW s \in Senders, NEW q \in jobs, netmap_send(s, q) PROVE Fresh'
  <2>1. CASE avail = 0
    BY <1>5, <2>1, FreshStays DEF netmap_send, rxvars
  <2>2. CASE avail # 0
    <3>1. /\ UNCHANGED <<rxring, queries>> /\ jobs' = jobs \ {q}
          /\ \A u \in Senders : \/ u # s /\ pc'[u] = pc[u] /\ job'[u] = job[u]
                                \/ u = s /\ job'[u] = q
      BY <1>5, <2>2 DEF netmap_send, rxvars
    <3>2. \A i \in DOMAIN rxring :
            /\ rxring[i].query.id <= queries
            /\ \A j \in DOMAIN rxring : j # i => rxring[j].query.id # rxring[i].query.id
            /\ \A r \in jobs' : r.id # rxring[i].query.id
            /\ \A u \in Senders : pc'[u] # "idle" => job'[u].id # rxring[i].query.id
      BY <3>1 DEF Fresh
    <3>3. \A r \in jobs' :
            /\ r.id <= queries
            /\ \A x \in jobs' : x # r => x.id # r.id
            /\ \A u \in Senders : pc'[u] # "idle" => job'[u].id # r.id
      <4> SUFFICES ASSUME NEW r \in jobs'
                   PROVE  /\ r.id <= queries
                          /\ \A x \in jobs' : x # r => x.id # r.id
                          /\ \A u \in Senders : pc'[u] # "idle" => job'[u].id # r.id
        OBVIOUS
      <4>1. r \in jobs /\ r # q
        BY <3>1
      <4>2. ASSUME NEW u \in Senders, pc'[u] # "idle" PROVE job'[u].id # r.id
        <5>1. CASE u = s
          BY <3>1, <4>1, <5>1 DEF Fresh
        <5>2. CASE u # s
          BY <3>1, <4>1, <4>2, <5>2 DEF Fresh
        <5> QED BY <5>1, <5>2
      <4> QED BY <3>1, <4>1, <4>2 DEF Fresh
    <3>4. ASSUME NEW u \in Senders, pc'[u] # "idle"
          PROVE  /\ job'[u].id <= queries
                 /\ \A v \in Senders \ {u} : pc'[v] # "idle" => job'[v].id # job'[u].id
      <4>1. ASSUME NEW v \in Senders, v # s, pc'[v] # "idle"
            PROVE  /\ pc[v] # "idle" /\ job'[v] = job[v]
                   /\ job[v].id <= queries /\ job[v].id # q.id
        BY <3>1, <4>1 DEF Fresh
      <4>2. q.id <= queries /\ job'[s] = q
        BY <3>1 DEF Fresh
      <4>3. CASE u = s
        BY <4>1, <4>2, <4>3
      <4>4. CASE u # s
        BY <3>4, <4>1, <4>2, <4>4 DEF Fresh
      <4> QED BY <4>3, <4>4
    <3> QED BY <3>1, <3>2, <3>3, <3>4 DEF Fresh
  <2> QED BY <2>1, <2>2
<1>6. ASSUME NEW s \in Senders,
             \/ process_send_ring(s) \/ send_room(s) \/ send_fill(s) \/ build_pkt_header(s)
             \/ netmap_get_macmap(s) \/ get_macmap_copy(s) \/ get_macmap_release(s)
             \/ send_load(s) \/ send_store(s)
      PROVE  Fresh'
  <2>1. /\ UNCHANGED <<rxring, queries, jobs, job>>
        /\ \A u \in Senders : pc'[u] # "idle" => pc[u] # "idle"
    BY <1>6 DEF process_send_ring, send_room, send_fill, build_pkt_header, netmap_get_macmap,
                get_macmap_copy, get_macmap_release, send_load, send_store, rxvars
  <2> QED BY <2>1, FreshStays
<1>7. ASSUME NEW s \in Senders, send_cur(s) PROVE Fresh'
  BY <1>7, FreshStays DEF send_cur, rxvars
<1>8. ASSUME NEW sent \in Slots, tx_sync(sent) PROVE Fresh'
  BY <1>8, FreshStays DEF tx_sync, rxvars, senders
<1>9. CASE UNCHANGED vars
  BY <1>9, FreshStays DEF vars, rxvars, senders
<1> QED BY <1>1, <1>2, <1>3, <1>4, <1>5, <1>6, <1>7, <1>8, <1>9 DEF Next

-----------------------------------------------------------------------------
(* Work and Looking *)

LEMMA WorkStays ==
    ASSUME Work, macmap' = macmap, spoilt \subseteq spoilt', InWork' \subseteq InWork
    PROVE  Work'
<1> SUFFICES ASSUME NEW q \in InWork', q.id \notin spoilt' PROVE \E i \in 1 .. Items : Kept(q, i)'
  BY DEF Work
<1>1. PICK i \in 1 .. Items : Kept(q, i)
  BY DEF Work
<1> QED BY <1>1, KeptStays

LEMMA LookingStays ==
    ASSUME Looking, macmap' = macmap, spoilt \subseteq spoilt',
           \A s \in Senders : pc'[s] \in {"scan", "copy"} =>
              /\ pc'[s] = pc[s] /\ job'[s] = job[s] /\ qid'[s] = qid[s] /\ at'[s] = at[s]
    PROVE  Looking'
<1> SUFFICES ASSUME NEW s \in Senders, pc'[s] \in {"scan", "copy"}, job'[s].id \notin spoilt'
             PROVE  /\ qid'[s] = job'[s].qid
                    /\ \E i \in 1 .. Items : /\ Kept(job[s], i)'
                                             /\ at'[s] <= i
                                             /\ pc'[s] = "copy" => at'[s] = i
  BY DEF Looking
<1>1. pc'[s] = pc[s] /\ job'[s] = job[s] /\ qid'[s] = qid[s] /\ at'[s] = at[s]
  OBVIOUS
<1>2. qid[s] = job[s].qid
  BY <1>1 DEF Looking
<1>3. PICK i \in 1 .. Items : Kept(job[s], i) /\ at[s] <= i /\ (pc[s] = "copy" => at[s] = i)
  BY <1>1 DEF Looking
<1>4. Kept(job[s], i)'
  BY <1>1, <1>3 DEF Kept
<1> QED BY <1>1, <1>2, <1>3, <1>4

(* A sender that searches works on a query in work. *)
LEMMA SearchIsWork ==
    ASSUME NEW s \in Senders, pc[s] \in {"ring", "room", "fill"} \cup Heading
    PROVE  job[s] \in InWork
  BY DEF InWork

LEMMA InWorkIs ==
    ASSUME NEW q \in InWork
    PROVE  \/ q \in jobs
           \/ \E s \in Senders : q = job[s] /\ pc[s] \in {"ring", "room", "fill"} \cup Heading
  BY DEF InWork

(* Receiving a packet. *)
LEMMA ReceivedWork ==
    ASSUME Types, Work, Looking, NEW p \in Range(rxring), netmap_recv(p),
           jobs' = jobs \/ jobs' = jobs \cup {p.query}, UNCHANGED senders
    PROVE  Work' /\ Looking'
<1>0. p.query \in Query /\ parse_addr(p)
  BY RecvTypes DEF netmap_recv, Packet
<1>1. spoilt \subseteq spoilt'
  BY <1>0 DEF parse_addr
<1>2. UNCHANGED <<pc, job, qid, at>>
  BY DEF senders
<1>3. InWork' \subseteq InWork \cup {p.query}
  BY <1>2 DEF InWork
<1>4. ASSUME NEW q \in InWork', q.id \notin spoilt' PROVE \E i \in 1 .. Items : Kept(q, i)'
  <2>1. CASE q \in InWork
    <3>1. PICK i \in 1 .. Items : Kept(q, i)
      BY <1>1, <1>4, <2>1 DEF Work
    <3> QED BY <1>0, <1>4, <2>1, <3>1, KeptReceive
  <2>2. CASE q = p.query
    <3>1. PICK i : i = Chosen
      OBVIOUS
    <3>2. i \in 1 .. Items
      BY <3>1, ChosenIs
    <3>3. Kept(q, i)'
      BY <1>0, <1>4, <2>2, <3>1, KeptNew
    <3> QED BY <3>2, <3>3
  <2> QED BY <1>3, <1>4, <2>1, <2>2
<1>5. Work'
  BY <1>4 DEF Work
<1>6. ASSUME NEW s \in Senders, pc[s] \in {"scan", "copy"}, job[s].id \notin spoilt'
      PROVE  /\ qid[s] = job[s].qid
             /\ \E i \in 1 .. Items : /\ Kept(job[s], i)'
                                      /\ at[s] <= i
                                      /\ pc[s] = "copy" => at[s] = i
  <2>1. PICK i \in 1 .. Items : Kept(job[s], i) /\ at[s] <= i /\ (pc[s] = "copy" => at[s] = i)
    BY <1>1, <1>6 DEF Looking
  <2>2. PICK q : q = job[s]
    OBVIOUS
  <2>3. q \in InWork
    BY <1>6, <2>2, SearchIsWork DEF Heading
  <2>4. Kept(q, i)'
    <3>1. Kept(q, i)
      BY <2>1, <2>2
    <3> QED BY <1>0, <1>6, <2>2, <2>3, <3>1, KeptReceive
  <2>5. Kept(job[s], i)'
    BY <1>2, <2>2, <2>4 DEF Kept
  <2> QED BY <1>1, <1>6, <2>1, <2>5 DEF Looking
<1>7. Looking'
  BY <1>2, <1>6 DEF Looking
<1> QED BY <1>5, <1>7

LEMMA ReceivesWork ==
    ASSUME Types, Work, Looking, Receives, UNCHANGED senders
    PROVE  Work' /\ Looking'
<1>0. UNCHANGED <<pc, job, qid, at>>
  BY DEF senders
<1>1. CASE ReceivesQuery
  BY <1>1, ReceivedWork DEF ReceivesQuery
<1>2. CASE jobs' = jobs /\ \E p \in Range(rxring) : netmap_recv(p)
  BY <1>2, ReceivedWork
<1>3. CASE UNCHANGED <<macmap, jobs, spoilt>>
  <2>1. InWork' = InWork
    BY <1>0, <1>3 DEF InWork
  <2> QED BY <1>0, <1>3, <2>1, WorkStays, LookingStays
<1> QED BY <1>1, <1>2, <1>3 DEF Receives, ReceivesNothing

(* The late release of an entry takes it from nobody but the one it is for,  *)
(* or from a query that is spoilt.                                           *)
LEMMA KeptRelease ==
    ASSUME Types, NEW s \in Senders, get_macmap_release(s), NEW q, q.id # job[s].id,
           q.id \notin spoilt', NEW i \in 1 .. Items, Kept(q, i)
    PROVE  Kept(q, i)'
<1>1. macmap' = [macmap EXCEPT ![at[s]].dirty = FALSE]
  BY DEF get_macmap_release
<1>2. i # at[s]
  BY DEF get_macmap_release, Kept
<1>3. macmap'[i] = macmap[i]
  BY <1>1, <1>2 DEF Types, TypeOK
<1>4. \A h \in 1 .. Items : macmap'[h].qid = macmap[h].qid
  BY <1>1 DEF Types, TypeOK
<1>5. \A h \in 1 .. i - 1 : h \in 1 .. Items /\ macmap[h].qid # q.qid
  BY NetmapAssumption DEF Kept
<1> QED BY <1>3, <1>4, <1>5 DEF Kept

LEMMA ReleaseWork ==
    ASSUME Types, Fresh, Work, Looking, NEW s \in Senders, get_macmap_release(s)
    PROVE  Work' /\ Looking'
<1>1. /\ pc[s] = "release" /\ pc' = [pc EXCEPT ![s] = "load"]
      /\ UNCHANGED <<jobs, job, qid, at>> /\ spoilt \subseteq spoilt'
  BY DEF get_macmap_release
<1>2. pc \in [Senders -> {"idle", "ring", "room", "fill", "header", "scan", "copy",
                          "release", "load", "store", "cur"}]
  BY DEF Types, TypeOK
<1>3. InWork' \subseteq InWork
  BY <1>1, <1>2 DEF InWork, Heading
<1>4. \A q \in InWork : q.id # job[s].id
  <2> SUFFICES ASSUME NEW q \in InWork PROVE q.id # job[s].id
    OBVIOUS
  <2>1. CASE q \in jobs
    BY <1>1, <2>1 DEF Fresh
  <2>2. CASE \E u \in Senders : q = job[u] /\ pc[u] \in {"ring", "room", "fill"} \cup Heading
    BY <1>1, <2>2 DEF Fresh, Heading
  <2> QED BY <2>1, <2>2, InWorkIs
<1>5. Work'
  <2> SUFFICES ASSUME NEW q \in InWork', q.id \notin spoilt' PROVE \E i \in 1 .. Items : Kept(q, i)'
    BY DEF Work
  <2>1. PICK i \in 1 .. Items : Kept(q, i)
    BY <1>1, <1>3 DEF Work
  <2> QED BY <1>3, <1>4, <2>1, KeptRelease
<1>6. ASSUME NEW u \in Senders, pc'[u] \in {"scan", "copy"}, job[u].id \notin spoilt'
      PROVE  /\ qid[u] = job[u].qid
             /\ \E i \in 1 .. Items : /\ Kept(job[u], i)'
                                      /\ at[u] <= i
                                      /\ pc'[u] = "copy" => at[u] = i
  <2>0. pc'[u] = pc[u]
    BY <1>1, <1>2, <1>6
  <2>1. PICK i \in 1 .. Items : Kept(job[u], i) /\ at[u] <= i /\ (pc[u] = "copy" => at[u] = i)
    BY <1>1, <1>6, <2>0 DEF Looking
  <2>2. PICK q : q = job[u]
    OBVIOUS
  <2>3. q \in InWork
    BY <1>6, <2>0, <2>2, SearchIsWork DEF Heading
  <2>4. Kept(q, i)'
    <3>1. Kept(q, i)
      BY <2>1, <2>2
    <3> QED BY <1>4, <1>6, <2>2, <2>3, <3>1, KeptRelease
  <2>5. Kept(job[u], i)'
    BY <1>1, <2>2, <2>4 DEF Kept
  <2> QED BY <1>1, <1>6, <2>0, <2>1, <2>5 DEF Looking
<1>7. Looking'
  BY <1>1, <1>6 DEF Looking
<1> QED BY <1>5, <1>7

(* A search goes on from an entry that is not the one, and ends at the one.  *)
LEMMA SearchWork ==
    ASSUME Types, Work, Looking, NEW s \in Senders, netmap_get_macmap(s)
    PROVE  /\ Work' /\ Looking'
           /\ job[s].id \notin spoilt => pc'[s] \in Heading
<1>1. /\ pc[s] = "scan" /\ UNCHANGED <<macmap, jobs, job, qid, spoilt>>
      /\ \A u \in Senders \ {s} : pc'[u] = pc[u] /\ at'[u] = at[u]
  BY DEF netmap_get_macmap, Types, TypeOK
<1>2. at[s] \in 1 .. Items /\ pc'[s] \in {"scan", "copy", "load"}
  BY <1>1 DEF netmap_get_macmap, Types, TypeOK
<1>3. InWork' \subseteq InWork
  BY <1>1, <1>2 DEF InWork, Heading
<1>4. ASSUME job[s].id \notin spoilt
      PROVE  /\ qid[s] = job[s].qid /\ pc'[s] \in {"scan", "copy"}
             /\ \E i \in 1 .. Items : /\ Kept(job[s], i)
                                      /\ at'[s] <= i
                                      /\ pc'[s] = "copy" => at'[s] = i
  <2>1. qid[s] = job[s].qid
    BY <1>1, <1>4 DEF Looking
  <2>2. PICK i \in 1 .. Items : Kept(job[s], i) /\ at[s] <= i
    BY <1>1, <1>4 DEF Looking
  <2>3. CASE macmap[at[s]].qid = qid[s]
    <3>1. i = at[s]
      BY <1>2, <2>1, <2>2, <2>3, KeptOnce
    <3>2. pc'[s] = "copy" /\ at'[s] = at[s]
      BY <2>3 DEF netmap_get_macmap, Types, TypeOK
    <3> QED BY <1>2, <2>1, <2>2, <3>1, <3>2
  <2>4. CASE macmap[at[s]].qid # qid[s]
    <3>1. at[s] # i
      BY <2>1, <2>2, <2>4 DEF Kept
    <3>2. at[s] < i /\ at[s] + 1 <= i /\ at[s] < Items
      BY <1>2, <2>2, <3>1, NetmapAssumption
    <3>3. pc'[s] = "scan" /\ at'[s] = at[s] + 1
      BY <1>1, <2>4, <3>2 DEF netmap_get_macmap, Types, TypeOK
    <3> QED BY <2>1, <2>2, <3>2, <3>3
  <2> QED BY <2>3, <2>4
<1>5. Work'
  BY <1>1, <1>3, WorkStays
<1>6. ASSUME NEW u \in Senders, pc'[u] \in {"scan", "copy"}, job[u].id \notin spoilt
      PROVE  /\ qid[u] = job[u].qid
             /\ \E i \in 1 .. Items : /\ Kept(job[u], i)
                                      /\ at'[u] <= i
                                      /\ pc'[u] = "copy" => at'[u] = i
  <2>1. CASE u = s
    BY <1>4, <1>6, <2>1
  <2>2. CASE u # s
    BY <1>1, <1>6, <2>2 DEF Looking
  <2> QED BY <2>1, <2>2
<1>7. Looking'
  <2>1. \A u \in Senders, i \in 1 .. Items : Kept(job[u], i) => Kept(job[u], i)'
    BY <1>1 DEF Kept
  <2> QED BY <1>1, <1>6, <2>1 DEF Looking
<1> QED BY <1>4, <1>5, <1>7 DEF Heading

(* The id that is looked for is the one of the query, and the search starts  *)
(* at the first entry.                                                       *)
LEMMA HeaderWork ==
    ASSUME Types, Work, Looking, Filled, NEW s \in Senders, build_pkt_header(s)
    PROVE  Work' /\ Looking'
<1>1. /\ pc[s] = "header" /\ UNCHANGED <<macmap, jobs, job, spoilt>>
      /\ pc'[s] = "scan" /\ at'[s] = 1 /\ qid'[s] = slots[k[s]].qid
      /\ \A u \in Senders \ {s} : pc'[u] = pc[u] /\ at'[u] = at[u] /\ qid'[u] = qid[u]
  BY DEF build_pkt_header, Types, TypeOK
<1>2. InWork' \subseteq InWork
  BY <1>1 DEF InWork, Heading
<1>3. Work'
  BY <1>1, <1>2, WorkStays
<1>4. ASSUME NEW u \in Senders, pc'[u] \in {"scan", "copy"}, job[u].id \notin spoilt
      PROVE  /\ qid'[u] = job[u].qid
             /\ \E i \in 1 .. Items : /\ Kept(job[u], i)
                                      /\ at'[u] <= i
                                      /\ pc'[u] = "copy" => at'[u] = i
  <2>1. CASE u = s
    <3>1. qid'[s] = job[s].qid
      BY <1>1, <1>4, <2>1 DEF Filled, Heading
    <3>2. job[s] \in InWork
      BY <1>1, SearchIsWork DEF Heading
    <3>3. PICK i \in 1 .. Items : Kept(job[s], i)
      BY <1>4, <2>1, <3>2 DEF Work
    <3>4. 1 <= i
      OBVIOUS
    <3> QED BY <1>1, <2>1, <3>1, <3>3, <3>4
  <2>2. CASE u # s
    BY <1>1, <1>4, <2>2 DEF Looking
  <2> QED BY <2>1, <2>2
<1>5. Looking'
  <2>1. \A u \in Senders, i \in 1 .. Items : Kept(job[u], i) => Kept(job[u], i)'
    BY <1>1 DEF Kept
  <2> QED BY <1>1, <1>4, <2>1 DEF Looking
<1> QED BY <1>3, <1>5

LEMMA WorkNext == Types /\ Table /\ [Next]_vars => Work' /\ Looking'
<1> SUFFICES ASSUME Types, Table, [Next]_vars PROVE Work' /\ Looking'
  OBVIOUS
<1> USE DEF Table
<1>0. pc \in [Senders -> {"idle", "ring", "room", "fill", "header", "scan", "copy",
                          "release", "load", "store", "cur"}] /\ job \in [Senders -> Query \cup {NoJob}]
      /\ qid \in [Senders -> Qids] /\ at \in [Senders -> 1 .. Items]
  BY DEF Types, TypeOK
<1>1. CASE socket_recv \/ internal_recv
  BY <1>1, ReceivesWork DEF socket_recv, internal_recv, Receives
<1>2. ASSUME UNCHANGED <<macmap, spoilt, pc, job, qid, at>>, jobs' \subseteq jobs
      PROVE  Work' /\ Looking'
  <2>1. InWork' \subseteq InWork
    BY <1>2 DEF InWork
  <2> QED BY <1>2, <2>1, WorkStays, LookingStays
<1>3. CASE dispatch_recv
  BY <1>2, <1>3 DEF dispatch_recv, senders
<1>4. ASSUME NEW peer \in Peers, NEW id \in Qids, NEW kind \in Kinds, rx_sync(peer, id, kind)
      PROVE  Work' /\ Looking'
  BY <1>2, <1>4 DEF rx_sync, senders
<1>5. ASSUME NEW q \in jobs, drop(q) PROVE Work' /\ Looking'
  BY <1>2, <1>5 DEF drop, senders
<1>6. ASSUME NEW s \in Senders, NEW q \in jobs, netmap_send(s, q) PROVE Work' /\ Looking'
  <2>1. CASE avail = 0
    BY <1>2, <1>6, <2>1 DEF netmap_send
  <2>2. CASE avail # 0
    <3>1. /\ UNCHANGED <<macmap, spoilt, qid, at>> /\ jobs' \subseteq jobs
          /\ pc'[s] = "ring" /\ job'[s] = q
          /\ \A u \in Senders \ {s} : pc'[u] = pc[u] /\ job'[u] = job[u]
      BY <1>0, <1>6, <2>2 DEF netmap_send
    <3>2. InWork' \subseteq InWork
      BY <3>1 DEF InWork
    <3> QED BY <3>1, <3>2, WorkStays, LookingStays
  <2> QED BY <2>1, <2>2
<1>7. ASSUME NEW s \in Senders,
             \/ process_send_ring(s) \/ send_room(s) \/ send_fill(s) \/ get_macmap_copy(s)
             \/ send_load(s) \/ send_store(s) \/ send_cur(s)
      PROVE  Work' /\ Looking'
  <2>1. /\ UNCHANGED <<macmap, jobs>> /\ spoilt \subseteq spoilt'
        /\ pc'[s] \notin {"scan", "copy"}
        /\ pc'[s] \in {"room", "fill", "header"} => pc[s] \in {"ring", "room", "fill"}
        /\ pc'[s] # "ring"
        /\ pc'[s] # "idle" => job'[s] = job[s]
        /\ \A u \in Senders \ {s} : /\ pc'[u] = pc[u] /\ job'[u] = job[u]
                                    /\ qid'[u] = qid[u] /\ at'[u] = at[u]
    BY <1>0, <1>7 DEF process_send_ring, send_room, send_fill, get_macmap_copy, send_load,
                      send_store, send_cur
  <2>2. InWork' \subseteq InWork
    BY <2>1 DEF InWork, Heading
  <2> QED BY <2>1, <2>2, WorkStays, LookingStays
<1>8. ASSUME NEW s \in Senders, build_pkt_header(s) PROVE Work' /\ Looking'
  BY <1>8, HeaderWork
<1>9. ASSUME NEW s \in Senders, netmap_get_macmap(s) PROVE Work' /\ Looking'
  BY <1>9, SearchWork
<1>10. ASSUME NEW s \in Senders, get_macmap_release(s) PROVE Work' /\ Looking'
  BY <1>10, ReleaseWork
<1>11. ASSUME NEW sent \in Slots, tx_sync(sent) PROVE Work' /\ Looking'
  BY <1>2, <1>11 DEF tx_sync, senders
<1>12. CASE UNCHANGED vars
  BY <1>2, <1>12 DEF vars, senders
<1> QED BY <1>1, <1>3, <1>4, <1>5, <1>6, <1>7, <1>8, <1>9, <1>10, <1>11, <1>12 DEF Next

-----------------------------------------------------------------------------
(* Filled and Addressed *)

LEMMA SlotsStay ==
    ASSUME Filled, Addressed, slots' = slots, spoilt \subseteq spoilt',
           \A s \in Senders : pc'[s] \in Heading => pc[s] \in Heading,
           \A s \in Senders : pc[s] \in Heading =>
              /\ pc'[s] \in Heading \/ job[s].id \in spoilt
              /\ job'[s] = job[s] /\ k'[s] = k[s]
    PROVE  Filled' /\ Addressed'
<1>1. Filled'
  BY DEF Filled
<1>2. Addressed'
  <2> SUFFICES ASSUME NEW i \in Slots, slots'[i].id \notin spoilt', slots[i].to # slots[i].peer
               PROVE  \E s \in Senders : job'[s].id = slots[i].id /\ k'[s] = i /\ pc'[s] \in Heading
    BY DEF Addressed
  <2>1. PICK s \in Senders : job[s].id = slots[i].id /\ k[s] = i /\ pc[s] \in Heading
    BY DEF Addressed
  <2> QED BY <2>1
<1> QED BY <1>1, <1>2

LEMMA FillSlots ==
    ASSUME Types, Filled, Addressed, NEW s \in Senders, send_fill(s)
    PROVE  Filled' /\ Addressed'
<1> DEFINE r == [id |-> job[s].id, peer |-> job[s].peer, qid |-> job[s].qid, to |-> Nobody]
<1>1. /\ pc[s] = "fill" /\ pc'[s] = "header" /\ UNCHANGED <<job, k>>
      /\ \A u \in Senders \ {s} : pc'[u] = pc[u]
      /\ slots'[k[s]] = r /\ \A i \in Slots : i # k[s] => slots'[i] = slots[i]
      /\ k \in [Senders -> Slots]
  BY DEF send_fill, Types, TypeOK
<1>2. spoilt \subseteq spoilt' /\ \A u \in Sharing(s) : {job[s].id, job[u].id} \subseteq spoilt'
  BY DEF send_fill
<1>3. r.id = job[s].id /\ r.peer = job[s].peer /\ r.qid = job[s].qid
  OBVIOUS
<1> HIDE DEF r
<1>4. ASSUME NEW u \in Senders, pc'[u] \in Heading
      PROVE  /\ job[u].id \notin spoilt' => /\ slots'[k[u]].id = job[u].id
                                            /\ slots'[k[u]].peer = job[u].peer
                                            /\ slots'[k[u]].qid = job[u].qid
             /\ slots'[k[u]].id \notin spoilt' => slots'[k[u]].id = job[u].id
  <2>1. CASE u = s
    BY <1>1, <1>3, <2>1
  <2>2. CASE u # s /\ k[u] = k[s]
    <3>1. u \in Sharing(s)
      BY <1>1, <1>4, <2>2 DEF Sharing
    <3> QED BY <1>1, <1>2, <1>3, <2>2, <3>1
  <2>3. CASE u # s /\ k[u] # k[s]
    BY <1>1, <1>2, <1>4, <2>3 DEF Filled
  <2> QED BY <2>1, <2>2, <2>3
<1>5. Filled'
  BY <1>1, <1>4 DEF Filled
<1>6. ASSUME NEW i \in Slots, slots'[i].id \notin spoilt'
      PROVE  \/ slots'[i].to = slots'[i].peer
             \/ \E u \in Senders : job[u].id = slots'[i].id /\ k[u] = i /\ pc'[u] \in Heading
  <2>1. CASE i = k[s]
    BY <1>1, <1>3, <2>1 DEF Heading
  <2>2. CASE i # k[s]
    BY <1>1, <1>2, <1>6, <2>2 DEF Addressed
  <2> QED BY <2>1, <2>2
<1>7. Addressed'
  BY <1>1, <1>6 DEF Addressed
<1> QED BY <1>5, <1>7

(* The address that is copied is the asker's. *)
LEMMA CopySlots ==
    ASSUME Types, Looking, Filled, Addressed, NEW s \in Senders, get_macmap_copy(s)
    PROVE  Filled' /\ Addressed'
<1>1. /\ pc[s] = "copy" /\ pc'[s] = "release" /\ UNCHANGED <<job, k, spoilt>>
      /\ \A u \in Senders \ {s} : pc'[u] = pc[u]
      /\ k \in [Senders -> Slots]
  BY DEF get_macmap_copy, Types, TypeOK
<1>2. \A i \in Slots : /\ slots'[i].id = slots[i].id /\ slots'[i].peer = slots[i].peer
                       /\ slots'[i].qid = slots[i].qid
                       /\ i # k[s] => slots'[i].to = slots[i].to
  BY DEF get_macmap_copy, Types, TypeOK, Reply
<1>3. slots'[k[s]].to = macmap[at[s]].peer
  BY <1>1 DEF get_macmap_copy, Types, TypeOK, Reply
<1>4. Filled'
  <2> SUFFICES ASSUME NEW u \in Senders, pc'[u] \in Heading
               PROVE  /\ job[u].id \notin spoilt => /\ slots'[k[u]].id = job[u].id
                                                    /\ slots'[k[u]].peer = job[u].peer
                                                    /\ slots'[k[u]].qid = job[u].qid
                      /\ slots'[k[u]].id \notin spoilt => slots'[k[u]].id = job[u].id
    BY <1>1 DEF Filled
  <2>1. pc[u] \in Heading /\ k[u] \in Slots
    BY <1>1 DEF Heading
  <2> QED BY <1>2, <2>1 DEF Filled
<1>5. ASSUME NEW i \in Slots, slots[i].id \notin spoilt
      PROVE  \/ slots'[i].to = slots[i].peer
             \/ \E u \in Senders : job[u].id = slots[i].id /\ k[u] = i /\ pc'[u] \in Heading
  <2>1. CASE i = k[s]
    <3>1. job[s].id = slots[i].id
      BY <1>1, <1>5, <2>1 DEF Filled, Heading
    <3>2. slots[i].peer = job[s].peer
      BY <1>1, <1>5, <2>1, <3>1 DEF Filled, Heading
    <3>3. macmap[at[s]].peer = job[s].peer
      <4>1. \E j \in 1 .. Items : Kept(job[s], j) /\ at[s] = j
        BY <1>1, <1>5, <3>1 DEF Looking
      <4> QED BY <4>1 DEF Kept
    <3> QED BY <1>3, <2>1, <3>2, <3>3
  <2>2. CASE i # k[s]
    BY <1>1, <1>2, <1>5, <2>2 DEF Addressed
  <2> QED BY <2>1, <2>2
<1>6. Addressed'
  BY <1>1, <1>2, <1>5 DEF Addressed
<1> QED BY <1>4, <1>6

LEMMA SlotsNext == Types /\ Table /\ [Next]_vars => Filled' /\ Addressed'
<1> SUFFICES ASSUME Types, Table, [Next]_vars PROVE Filled' /\ Addressed'
  OBVIOUS
<1> USE DEF Table
<1>0. pc \in [Senders -> {"idle", "ring", "room", "fill", "header", "scan", "copy",
                          "release", "load", "store", "cur"}]
      /\ job \in [Senders -> Query \cup {NoJob}] /\ k \in [Senders -> Slots]
  BY DEF Types, TypeOK
<1>1. ASSUME UNCHANGED <<slots, pc, job, k>>, spoilt \subseteq spoilt'
      PROVE  Filled' /\ Addressed'
  BY <1>1, SlotsStay
<1>2. CASE socket_recv \/ internal_recv
  <2>1. spoilt \subseteq spoilt'
    BY <1>2 DEF socket_recv, internal_recv, ReceivesQuery, ReceivesNothing, netmap_recv, parse_addr
  <2> QED BY <1>1, <1>2, <2>1 DEF socket_recv, internal_recv, txvars, senders
<1>3. CASE dispatch_recv
  BY <1>1, <1>3 DEF dispatch_recv, txvars, senders
<1>4. ASSUME NEW peer \in Peers, NEW id \in Qids, NEW kind \in Kinds, rx_sync(peer, id, kind)
      PROVE  Filled' /\ Addressed'
  BY <1>1, <1>4 DEF rx_sync, txvars, senders
<1>5. ASSUME NEW q \in jobs, drop(q) PROVE Filled' /\ Addressed'
  BY <1>1, <1>5 DEF drop, txvars, senders
<1>6. ASSUME NEW s \in Senders, NEW q \in jobs, netmap_send(s, q) PROVE Filled' /\ Addressed'
  <2>1. /\ UNCHANGED <<slots, spoilt, k>> /\ pc[s] = "idle" /\ pc'[s] \in {"idle", "ring"}
        /\ \A u \in Senders \ {s} : pc'[u] = pc[u] /\ job'[u] = job[u]
    BY <1>0, <1>6 DEF netmap_send, txvars
  <2> QED BY <2>1, SlotsStay DEF Heading
<1>7. ASSUME NEW s \in Senders,
             \/ process_send_ring(s) \/ send_room(s) \/ get_macmap_release(s)
             \/ send_load(s) \/ send_store(s) \/ send_cur(s)
      PROVE  Filled' /\ Addressed'
  <2>1. /\ slots' = slots /\ spoilt \subseteq spoilt'
        /\ pc[s] \notin Heading /\ pc'[s] \notin Heading
        /\ \A u \in Senders \ {s} : pc'[u] = pc[u] /\ job'[u] = job[u] /\ k'[u] = k[u]
    BY <1>0, <1>7 DEF process_send_ring, send_room, get_macmap_release, send_load, send_store,
                      send_cur, txvars, Heading
  <2> QED BY <2>1, SlotsStay
<1>8. ASSUME NEW s \in Senders, send_fill(s) PROVE Filled' /\ Addressed'
  BY <1>8, FillSlots
<1>9. ASSUME NEW s \in Senders, build_pkt_header(s) PROVE Filled' /\ Addressed'
  <2>1. /\ UNCHANGED <<slots, spoilt, job, k>> /\ pc[s] = "header" /\ pc'[s] = "scan"
        /\ \A u \in Senders \ {s} : pc'[u] = pc[u]
    BY <1>0, <1>9 DEF build_pkt_header, txvars
  <2> QED BY <2>1, SlotsStay DEF Heading
<1>10. ASSUME NEW s \in Senders, netmap_get_macmap(s) PROVE Filled' /\ Addressed'
  <2>1. /\ UNCHANGED <<slots, spoilt, job, k>> /\ pc[s] = "scan"
        /\ \A u \in Senders \ {s} : pc'[u] = pc[u]
    BY <1>0, <1>10 DEF netmap_get_macmap, txvars
  <2>2. pc'[s] \in Heading \/ job[s].id \in spoilt
    BY <1>10, SearchWork
  <2> QED BY <2>1, <2>2, SlotsStay DEF Heading
<1>11. ASSUME NEW s \in Senders, get_macmap_copy(s) PROVE Filled' /\ Addressed'
  BY <1>11, CopySlots
<1>12. ASSUME NEW sent \in Slots, tx_sync(sent) PROVE Filled' /\ Addressed'
  BY <1>1, <1>12 DEF tx_sync, senders
<1>13. CASE UNCHANGED vars
  BY <1>1, <1>13 DEF vars, txvars, senders
<1> QED BY <1>2, <1>3, <1>4, <1>5, <1>6, <1>7, <1>8, <1>9, <1>10, <1>11, <1>12, <1>13 DEF Next

-----------------------------------------------------------------------------
(* The theorem *)

(* The entry that is kept for a query is the first one with its id. *)
LEMMA AskerIsFound ==
    ASSUME Types, Work, NEW q \in InWork, q.id \notin spoilt
    PROVE  LET i == FirstEntry({h \in 1 .. Items : macmap[h].qid = q.qid})
           IN  i # 0 /\ macmap[i].dirty /\ macmap[i].peer = q.peer
<1> DEFINE found == {h \in 1 .. Items : macmap[h].qid = q.qid}
           f == FirstEntry(found)
<1>1. PICK i \in 1 .. Items : Kept(q, i)
  BY DEF Work
<1>2. i \in found /\ macmap[i].dirty /\ macmap[i].peer = q.peer
  BY <1>1 DEF Kept
<1>3. found \in SUBSET (Nat \ {0})
  OBVIOUS
<1>4. f \in found /\ f # 0 /\ \A h \in found : f <= h
  BY <1>2, <1>3, FirstEntryIs
<1>5. f \in 1 .. Items /\ macmap[f].qid = q.qid /\ f <= i
  BY <1>2, <1>4
<1> HIDE DEF f
<1>6. f = i
  BY <1>1, <1>5, KeptOnce
<1>7. f # 0 /\ macmap[f].dirty /\ macmap[f].peer = q.peer
  BY <1>2, <1>4, <1>6
<1> QED BY <1>7 DEF f

(* The answer to a query goes to the host that asked, for any number of      *)
(* senders that search the table without a lock, polls at any time, and any  *)
(* size of the table: unless another query in work or in the table has its   *)
(* id, the full table gave up its entry, another answer's late release freed *)
(* it, or two senders wrote into one slot, the first entry with its id is    *)
(* the one entered for it and the reply in the ring has the asker's address. *)
THEOREM AnswersReachAsker == Spec => []ReplyToAsker
<1>1. Init => Types /\ Table
  BY TypesInit, TableInit
<1>2. Types /\ Table /\ [Next]_vars => Types' /\ Table'
  <2>1. Types /\ Table /\ [Next]_vars => Types' /\ Fresh'
    BY TypesNext, FreshNext DEF Table
  <2> QED BY <2>1, WorkNext, SlotsNext DEF Table
<1>3. Types /\ Table => ReplyToAsker
  BY AskerIsFound DEF ReplyToAsker, Types, Table, Addressed
<1> QED BY <1>1, <1>2, <1>3, PTL DEF Spec
=============================================================================
