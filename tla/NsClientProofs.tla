-------------------------- MODULE NsClientProofs ----------------------------
(***************************************************************************)
(* Proofs about NsClient: for any finite set of clients, any interfaces and*)
(* any quotas, the four invariants of the clients hold.                    *)
(*                                                                         *)
(* A handler is a function of the whole state, so the invariant is a       *)
(* predicate of a world: Good(w).  Its parts are the books (Global: types, *)
(* and counts that are the number of users), every client between two      *)
(* events (Settled: where it is, what it waits for, on which lists it may  *)
(* be), and every interface in use (Served: exactly one client responsible *)
(* for datagrams, one at least for connections).                           *)
(*                                                                         *)
(* In the middle of a handler of client c only part of that holds for c    *)
(* (Loose), and everything for the others (Busy).  Each function a handler *)
(* is made of gets one lemma that says how it Moves the world: the books   *)
(* follow c, the other clients are left alone (Aside), and c does not drop *)
(* its responsibility (Duty).  Moves is transitive, and a handler that     *)
(* moves from Good to a world where c is Settled again ends Good (Finish). *)
(* Only ns_client_replace(), ns_query_cancel() and the two operations on   *)
(* interfaces touch other clients; each has an argument of its own.        *)
(***************************************************************************)
EXTENDS NsClient, DataProofs

-----------------------------------------------------------------------------
(* The invariant, of a world *)

States    == FREED .. RECURSING
NewStates == {FREED, INACTIVE, READY, READING, WORKING, RECURSING, MAX}
Homes     == Interfaces \cup {None}

Recs == [state : States, newstate : NewStates,
         task : {"none", "up", "told", "down", "gone"}, home : Homes, interface : Homes,
         tcp : BOOLEAN, mortal : BOOLEAN, n : [Works -> 0 .. 1], canceled : SUBSET Works,
         references : 0 .. 1, fetch : {"none", "running", "canceled"}, timerset : BOOLEAN,
         tcpquota : BOOLEAN, recursionquota : BOOLEAN, victim : Clients \cup {None}]

Ifps == [life : {"none", "up", "destroyed"}, references : Int, ntcpcurrent : Int]

Mgrs == [life : {"none", "up", "exiting", "destroyed"}, clients : SUBSET Clients,
         inactive : Seq(Clients), recursing : Seq(Clients)]

Worlds == [cl : [Clients -> Recs], ifp : [Interfaces -> Ifps], mgr : [Interfaces -> Mgrs],
           used : [{"tcp", "rec"} -> Int]]

\* Who uses what is counted.
Users(w, i)   == {x \in Clients : w.cl[x].interface = i}
Accepts(w, i) == {x \in Clients : w.cl[x].interface = i /\ w.cl[x].n["accept"] = 1}
HasTcp(w)     == {x \in Clients : w.cl[x].tcpquota}
HasRec(w)     == {x \in Clients : w.cl[x].recursionquota}

Counts(w) ==
    /\ \A i \in Interfaces :
          /\ w.ifp[i].references = (IF w.mgr[i].life = "up" THEN 1 ELSE 0) + Cardinality(Users(w, i))
          /\ w.ifp[i].ntcpcurrent = Cardinality(Accepts(w, i))
          /\ w.mgr[i].clients = {x \in Clients : w.cl[x].home = i}
          /\ w.ifp[i].life = "none" <=> w.mgr[i].life = "none"
          /\ w.ifp[i].life = "up" <=> w.ifp[i].references # 0
          /\ w.mgr[i].life \in {"none", "destroyed"} => w.mgr[i].clients = {}
          /\ w.mgr[i].life = "exiting" => w.mgr[i].clients # {}
    /\ w.used["tcp"] = Cardinality(HasTcp(w))
    /\ w.used["rec"] = Cardinality(HasRec(w))

Global(w) == w \in Worlds /\ Counts(w)

\* What is true of a client also in the middle of a handler.
Alive(me) == me.task \in {"up", "told", "down"}

Placed(w, c) == LET me == w.cl[c] IN
    /\ me.home \in Interfaces
    /\ me.interface = IF me.state >= READY THEN me.home ELSE None
    /\ me.task = "up" <=> w.mgr[me.home].life = "up"
    /\ me.task = "down" <=> me.newstate = FREED
    /\ \A k \in me.canceled : me.n[k] = 1
    /\ me.state < READING => ~me.tcpquota /\ ~me.timerset
    /\ me.state < WORKING => /\ me.references = 0 /\ me.fetch = "none" /\ ~me.recursionquota
                             /\ me.victim = None
    /\ me.newstate = READING => me.tcp

Listed(w, c) == LET me == w.cl[c] IN
    \A i \in Interfaces :
        /\ c \in Range(w.mgr[i].recursing) => me.state = RECURSING /\ me.home = i
        /\ c \in Range(w.mgr[i].inactive) =>
             me.state = INACTIVE /\ me.home = i /\ me.task \in {"up", "told"}

Flag(b) == IF b THEN 1 ELSE 0

Nothing(n) == \A k \in Works : n[k] = 0
Only(n, k) == n[k] = 1 /\ \A j \in Works : j # k => n[j] = 0

\* A client that waits to be told to listen, or listens.
Expects(me) == IF me.n["ctl"] = 1 THEN "ctl" ELSE IF me.tcp THEN "accept" ELSE "recv"

\* What the request in work waits for.
Pending(me) == me.n["send"] + me.n["update"] + Flag(me.fetch # "none") + Flag(me.victim # None)

\* What a client waits for in each state.
Waits(me) ==
    /\ me.state = INACTIVE => Nothing(me.n) /\ me.newstate = MAX
    /\ me.state = READY =>
          /\ Only(me.n, Expects(me))
          /\ me.newstate \in {FREED, MAX} /\ ~me.mortal
          /\ me.canceled # {} => me.newstate = FREED
          /\ me.newstate = FREED => me.canceled # {} \/ me.n["ctl"] = 1
    /\ me.state = READING =>
          /\ me.tcp /\ Only(me.n, "read")
          /\ me.newstate \in {FREED, READY, READING, MAX}
          /\ me.canceled # {} <=> me.newstate < READING
    /\ me.state >= WORKING =>
          /\ Pending(me) = 1
          /\ \A k \in {"accept", "recv", "read", "ctl"} : me.n[k] = 0
          /\ me.references = me.n["update"] + Flag(me.fetch # "none")
          /\ me.newstate # INACTIVE /\ (me.newstate = WORKING => me.state = WORKING)
          /\ me.victim # None => me.state = WORKING /\ me.newstate = WORKING

Settled(w, c) == LET me == w.cl[c] IN
    /\ Listed(w, c)
    /\ Alive(me) <=> me.state # FREED
    /\ ~Alive(me) => me = [NoClient EXCEPT !.task = me.task]
    /\ Alive(me) => Placed(w, c) /\ Waits(me)
    /\ me.state = INACTIVE /\ me.task = "up" => c \in Range(w.mgr[me.home].inactive)
    /\ me.state = INACTIVE => me.task # "down"

\* The clients that are responsible for listening.
Serves(me, tcp) == me.interface # None /\ me.tcp = tcp /\ ~me.mortal

Served(w) ==
    \A i \in Interfaces : w.mgr[i].life = "up" =>
        /\ \E c \in Clients : /\ w.cl[c].home = i /\ Serves(w.cl[c], FALSE)
                              /\ \A x \in Clients : w.cl[x].home = i /\ Serves(w.cl[x], FALSE) => x = c
        /\ \E c \in Clients : w.cl[c].home = i /\ Serves(w.cl[c], TRUE)

Good(w) == Global(w) /\ (\A c \in Clients : Settled(w, c)) /\ Served(w)

IInv == Good(World)

-----------------------------------------------------------------------------
(* Books *)

\* Two sets that differ in c at most.
LEMMA CountMoves ==
    ASSUME NEW S \in SUBSET Clients, NEW T \in SUBSET Clients, NEW c \in Clients,
           \A x \in Clients : x # c => (x \in S <=> x \in T)
    PROVE  /\ Cardinality(S) \in Nat /\ Cardinality(T) \in Nat
           /\ Cardinality(T) = Cardinality(S) + Flag(c \in T) - Flag(c \in S)
           /\ (c \in S => Cardinality(S) > 0)
<1>1. IsFiniteSet(S) /\ IsFiniteSet(T)
  BY NsClientAssumption, FS_Subset
<1>2. Cardinality(S) \in Nat /\ Cardinality(T) \in Nat
  BY <1>1, FS_CardinalityType
<1>3. c \in S => Cardinality(S) > 0
  <2>1. Cardinality(S) = 0 => S = {}
    BY <1>1, FS_EmptySet
  <2> QED BY <1>2, <2>1
<1>4. CASE c \in S /\ c \notin T
  <2>1. T = S \ {c}
    BY <1>4
  <2> QED BY <1>1, <1>2, <1>3, <1>4, <2>1, FS_RemoveElement DEF Flag
<1>5. CASE c \notin S /\ c \in T
  <2>1. T = S \cup {c}
    BY <1>5
  <2> QED BY <1>1, <1>2, <1>3, <1>5, <2>1, FS_AddElement DEF Flag
<1>6. CASE c \in S <=> c \in T
  <2>1. S = T
    BY <1>6
  <2> QED BY <1>2, <1>3, <1>6, <2>1 DEF Flag
<1> QED BY <1>4, <1>5, <1>6

Accepting(me, i) == me.interface = i /\ me.n["accept"] = 1

\* Client c changes, and the books follow it.
Flow(w, v, c) == LET a == w.cl[c]  b == v.cl[c] IN
    /\ v \in Worlds
    /\ \A x \in Clients : x # c => v.cl[x] = w.cl[x]
    /\ \A i \in Interfaces :
          /\ v.ifp[i].references = w.ifp[i].references + Flag(b.interface = i) - Flag(a.interface = i)
          /\ v.ifp[i].ntcpcurrent = w.ifp[i].ntcpcurrent + Flag(Accepting(b, i)) - Flag(Accepting(a, i))
          /\ v.ifp[i].life = IF w.ifp[i].references = 1 /\ v.ifp[i].references = 0
                               THEN "destroyed" ELSE w.ifp[i].life
          /\ v.mgr[i].clients = IF b.home = i THEN w.mgr[i].clients \cup {c} ELSE w.mgr[i].clients \ {c}
          /\ v.mgr[i].life = IF v.mgr[i].clients = {} /\ w.mgr[i].life = "exiting"
                               THEN "destroyed" ELSE w.mgr[i].life
          /\ b.home = i => a.home = i \/ w.mgr[i].life = "up"
          /\ b.interface = i => a.interface = i \/ w.mgr[i].life = "up"
    /\ v.used["tcp"] = w.used["tcp"] + Flag(b.tcpquota) - Flag(a.tcpquota)
    /\ v.used["rec"] = w.used["rec"] + Flag(b.recursionquota) - Flag(a.recursionquota)

LEMMA FlowKeeps ==
    ASSUME NEW w, NEW v, NEW c \in Clients, Global(w), Flow(w, v, c)
    PROVE  Global(v)
<1>0. w \in Worlds /\ v \in Worlds /\ Counts(w)
  BY DEF Global, Flow
<1>1. \A x \in Clients : x # c => v.cl[x] = w.cl[x]
  BY DEF Flow
<1>2. ASSUME NEW i \in Interfaces
      PROVE  /\ Cardinality(Users(w, i)) \in Nat /\ Cardinality(Users(v, i)) \in Nat
             /\ Cardinality(Users(v, i)) = Cardinality(Users(w, i))
                  + Flag(v.cl[c].interface = i) - Flag(w.cl[c].interface = i)
             /\ w.cl[c].interface = i => Cardinality(Users(w, i)) > 0
  <2>1. Users(w, i) \in SUBSET Clients /\ Users(v, i) \in SUBSET Clients
    BY DEF Users
  <2>2. \A x \in Clients : x # c => (x \in Users(w, i) <=> x \in Users(v, i))
    BY <1>1 DEF Users
  <2>3. /\ c \in Users(w, i) <=> w.cl[c].interface = i
        /\ c \in Users(v, i) <=> v.cl[c].interface = i
    BY DEF Users
  <2> QED BY <2>1, <2>2, <2>3, CountMoves DEF Flag
<1>3. ASSUME NEW i \in Interfaces
      PROVE  Cardinality(Accepts(v, i)) = Cardinality(Accepts(w, i))
                + Flag(Accepting(v.cl[c], i)) - Flag(Accepting(w.cl[c], i))
  <2>1. Accepts(w, i) \in SUBSET Clients /\ Accepts(v, i) \in SUBSET Clients
    BY DEF Accepts
  <2>2. \A x \in Clients : x # c => (x \in Accepts(w, i) <=> x \in Accepts(v, i))
    BY <1>1 DEF Accepts
  <2>3. /\ c \in Accepts(w, i) <=> Accepting(w.cl[c], i)
        /\ c \in Accepts(v, i) <=> Accepting(v.cl[c], i)
    BY DEF Accepts, Accepting
  <2> QED BY <2>1, <2>2, <2>3, CountMoves DEF Flag
<1>4. Cardinality(HasTcp(v)) = Cardinality(HasTcp(w)) + Flag(v.cl[c].tcpquota) - Flag(w.cl[c].tcpquota)
  <2>1. HasTcp(w) \in SUBSET Clients /\ HasTcp(v) \in SUBSET Clients
    BY DEF HasTcp
  <2>2. \A x \in Clients : x # c => (x \in HasTcp(w) <=> x \in HasTcp(v))
    BY <1>1 DEF HasTcp
  <2>3. (c \in HasTcp(w) <=> w.cl[c].tcpquota) /\ (c \in HasTcp(v) <=> v.cl[c].tcpquota)
    BY DEF HasTcp
  <2> QED BY <2>1, <2>2, <2>3, CountMoves DEF Flag
<1>5. Cardinality(HasRec(v)) = Cardinality(HasRec(w))
                                 + Flag(v.cl[c].recursionquota) - Flag(w.cl[c].recursionquota)
  <2>1. HasRec(w) \in SUBSET Clients /\ HasRec(v) \in SUBSET Clients
    BY DEF HasRec
  <2>2. \A x \in Clients : x # c => (x \in HasRec(w) <=> x \in HasRec(v))
    BY <1>1 DEF HasRec
  <2>3. (c \in HasRec(w) <=> w.cl[c].recursionquota) /\ (c \in HasRec(v) <=> v.cl[c].recursionquota)
    BY DEF HasRec
  <2> QED BY <2>1, <2>2, <2>3, CountMoves DEF Flag
<1>6. ASSUME NEW i \in Interfaces
      PROVE  /\ v.ifp[i].references = (IF v.mgr[i].life = "up" THEN 1 ELSE 0) + Cardinality(Users(v, i))
             /\ v.ifp[i].ntcpcurrent = Cardinality(Accepts(v, i))
             /\ v.ifp[i].life = "none" <=> v.mgr[i].life = "none"
             /\ v.ifp[i].life = "up" <=> v.ifp[i].references # 0
  <2> DEFINE r == w.ifp[i].references
             s == v.ifp[i].references
             a == Flag(w.cl[c].interface = i)
             b == Flag(v.cl[c].interface = i)
             up == IF w.mgr[i].life = "up" THEN 1 ELSE 0
             u == Cardinality(Users(w, i))
  <2>1. /\ s = r + b - a
        /\ v.ifp[i].life = IF r = 1 /\ s = 0 THEN "destroyed" ELSE w.ifp[i].life
        /\ v.mgr[i].life = IF v.mgr[i].clients = {} /\ w.mgr[i].life = "exiting"
                             THEN "destroyed" ELSE w.mgr[i].life
        /\ v.cl[c].interface = i => w.cl[c].interface = i \/ w.mgr[i].life = "up"
        /\ v.ifp[i].ntcpcurrent = w.ifp[i].ntcpcurrent + Flag(Accepting(v.cl[c], i)) - Flag(Accepting(w.cl[c], i))
    BY DEF Flow
  <2>2. /\ r = up + u /\ w.ifp[i].ntcpcurrent = Cardinality(Accepts(w, i))
        /\ w.ifp[i].life = "none" <=> w.mgr[i].life = "none"
        /\ w.ifp[i].life = "up" <=> r # 0
    BY <1>0 DEF Counts
  <2>3. /\ a \in {0, 1} /\ b \in {0, 1} /\ (a = 1 <=> w.cl[c].interface = i)
        /\ (b = 1 <=> v.cl[c].interface = i) /\ up \in {0, 1} /\ (up = 1 <=> w.mgr[i].life = "up")
        /\ u \in Nat /\ (a = 1 => u > 0)
    BY <1>2 DEF Flag
  <2>4. Cardinality(Users(v, i)) = u + b - a
    BY <1>2
  <2>5. v.mgr[i].life = "up" <=> w.mgr[i].life = "up"
    BY <2>1
  <2>6. w.ifp[i].life \in {"none", "up", "destroyed"} /\ Cardinality(Accepts(v, i)) = v.ifp[i].ntcpcurrent
    BY <1>0, <1>3, <2>1, <2>2 DEF Worlds, Ifps
  <2>7. w.mgr[i].life = "none" <=> v.mgr[i].life = "none"
    BY <2>1
  <2> HIDE DEF r, s, a, b, up, u
  <2>8. s = up + Cardinality(Users(v, i))
    BY <2>1, <2>2, <2>3, <2>4
  <2>9. v.ifp[i].life = "none" <=> w.ifp[i].life = "none"
    BY <2>1, <2>2, <2>3, <2>6
  <2>10. v.ifp[i].life = "up" <=> s # 0
    BY <2>1, <2>2, <2>3, <2>6
  <2> QED BY <2>2, <2>5, <2>6, <2>7, <2>8, <2>9, <2>10 DEF s, up
<1>7. ASSUME NEW i \in Interfaces
      PROVE  /\ v.mgr[i].clients = {x \in Clients : v.cl[x].home = i}
             /\ v.mgr[i].life \in {"none", "destroyed"} => v.mgr[i].clients = {}
             /\ v.mgr[i].life = "exiting" => v.mgr[i].clients # {}
  <2>1. /\ v.mgr[i].clients = IF v.cl[c].home = i THEN w.mgr[i].clients \cup {c} ELSE w.mgr[i].clients \ {c}
        /\ v.mgr[i].life = IF v.mgr[i].clients = {} /\ w.mgr[i].life = "exiting"
                             THEN "destroyed" ELSE w.mgr[i].life
        /\ v.cl[c].home = i => w.cl[c].home = i \/ w.mgr[i].life = "up"
    BY DEF Flow
  <2>2. /\ w.mgr[i].clients = {x \in Clients : w.cl[x].home = i}
        /\ w.mgr[i].life \in {"none", "destroyed"} => w.mgr[i].clients = {}
    BY <1>0 DEF Counts
  <2>3. v.mgr[i].clients = {x \in Clients : v.cl[x].home = i}
    BY <1>1, <2>1, <2>2
  <2> QED BY <2>1, <2>2, <2>3
<1>8. v.used["tcp"] = Cardinality(HasTcp(v)) /\ v.used["rec"] = Cardinality(HasRec(v))
  BY <1>0, <1>4, <1>5 DEF Counts, Flow
<1> QED BY <1>0, <1>6, <1>7, <1>8 DEF Global, Counts

-----------------------------------------------------------------------------
(* What a handler leaves to others *)

Aside(w, v, c) ==
    /\ \A x \in Clients : x # c => v.cl[x] = w.cl[x]
    /\ \A i \in Interfaces :
          /\ v.mgr[i].life = "up" <=> w.mgr[i].life = "up"
          /\ \A x \in Clients : x # c =>
                /\ x \in Range(v.mgr[i].inactive) <=> x \in Range(w.mgr[i].inactive)
                /\ x \in Range(v.mgr[i].recursing) => x \in Range(w.mgr[i].recursing)

\* The client does not drop its responsibility.
Duty(a, b) ==
    /\ b.home \in {a.home, None}
    /\ a.task = "up" => /\ b.task = "up" /\ b.home = a.home
                        /\ Serves(b, FALSE) <=> Serves(a, FALSE)
                        /\ Serves(a, TRUE) => Serves(b, TRUE)

Moves(w, v, c) == Global(v) /\ Aside(w, v, c) /\ Duty(w.cl[c], v.cl[c])

\* A handler of c is at work.
Loose(w, c) == Global(w) /\ Alive(w.cl[c]) /\ Placed(w, c) /\ Listed(w, c)

Busy(w, c) == Loose(w, c) /\ Served(w) /\ \A x \in Clients : x # c => Settled(w, x)

LEMMA MovesTransitive ==
    ASSUME NEW w, NEW v, NEW u, NEW c, Moves(w, v, c), Moves(v, u, c)
    PROVE  Moves(w, u, c)
  BY DEF Moves, Aside, Duty

LEMMA SettledAside ==
    ASSUME NEW w, NEW v, NEW c \in Clients, NEW x \in Clients, x # c, Aside(w, v, c), Settled(w, x)
    PROVE  Settled(v, x)
<1>1. v.cl[x] = w.cl[x]
  BY DEF Aside
<1>2. Listed(v, x)
  BY <1>1 DEF Settled, Listed, Aside
<1>3. Alive(w.cl[x]) => Placed(v, x)
  BY <1>1 DEF Settled, Placed, Aside
<1>4. v.cl[x].state = INACTIVE /\ v.cl[x].task = "up" => x \in Range(v.mgr[v.cl[x].home].inactive)
  <2> SUFFICES ASSUME w.cl[x].state = INACTIVE, w.cl[x].task = "up"
               PROVE  x \in Range(v.mgr[w.cl[x].home].inactive)
    BY <1>1
  <2>1. w.cl[x].home \in Interfaces /\ x \in Range(w.mgr[w.cl[x].home].inactive)
    BY DEF Settled, Alive, Placed
  <2> QED BY <2>1 DEF Aside
<1> QED BY <1>1, <1>2, <1>3, <1>4 DEF Settled

LEMMA ServedOn ==
    ASSUME NEW w, NEW v, NEW c \in Clients, Served(w), Placed(w, c), Moves(w, v, c)
    PROVE  Served(v)
<1> SUFFICES ASSUME NEW i \in Interfaces, v.mgr[i].life = "up"
             PROVE  /\ \E d \in Clients :
                          /\ v.cl[d].home = i /\ Serves(v.cl[d], FALSE)
                          /\ \A x \in Clients : v.cl[x].home = i /\ Serves(v.cl[x], FALSE) => x = d
                    /\ \E d \in Clients : v.cl[d].home = i /\ Serves(v.cl[d], TRUE)
  BY DEF Served
<1>1. w.mgr[i].life = "up" /\ \A x \in Clients : x # c => v.cl[x] = w.cl[x]
  BY DEF Moves, Aside
<1>2. /\ w.cl[c].home = i => /\ v.cl[c].home = i
                             /\ Serves(v.cl[c], FALSE) <=> Serves(w.cl[c], FALSE)
                             /\ Serves(w.cl[c], TRUE) => Serves(v.cl[c], TRUE)
      /\ w.cl[c].home # i => v.cl[c].home # i
  <2>1. w.cl[c].home = i => w.cl[c].task = "up"
    BY <1>1 DEF Placed
  <2>2. i # None
    BY NsClientAssumption
  <2> QED BY <2>1, <2>2 DEF Moves, Duty
<1>3. PICK d \in Clients : /\ w.cl[d].home = i /\ Serves(w.cl[d], FALSE)
                           /\ \A x \in Clients : w.cl[x].home = i /\ Serves(w.cl[x], FALSE) => x = d
  BY <1>1 DEF Served
<1>4. PICK e \in Clients : w.cl[e].home = i /\ Serves(w.cl[e], TRUE)
  BY <1>1 DEF Served
<1>5. v.cl[d].home = i /\ Serves(v.cl[d], FALSE)
  BY <1>1, <1>2, <1>3
<1>6. \A x \in Clients : v.cl[x].home = i /\ Serves(v.cl[x], FALSE) => x = d
  BY <1>1, <1>2, <1>3
<1>7. v.cl[e].home = i /\ Serves(v.cl[e], TRUE)
  BY <1>1, <1>2, <1>4
<1> QED BY <1>5, <1>6, <1>7

LEMMA Finish ==
    ASSUME NEW w, NEW v, NEW c \in Clients, Busy(w, c), Moves(w, v, c), Settled(v, c)
    PROVE  Good(v)
<1>1. \A x \in Clients : Settled(v, x)
  BY SettledAside DEF Busy, Moves
<1>2. Served(v)
  BY ServedOn DEF Busy, Loose
<1> QED BY <1>1, <1>2 DEF Good, Moves

LEMMA GoesOn ==
    ASSUME NEW w, NEW v, NEW c \in Clients, Busy(w, c), Moves(w, v, c),
           Alive(v.cl[c]), Placed(v, c), Listed(v, c)
    PROVE  Busy(v, c)
<1>1. \A x \in Clients : x # c => Settled(v, x)
  BY SettledAside DEF Busy, Moves
<1>2. Served(v)
  BY ServedOn DEF Busy, Loose
<1> QED BY <1>1, <1>2 DEF Busy, Loose, Moves

-----------------------------------------------------------------------------
(* Changes of one client *)

\* Only client c changes, to you.
Put(w, c, you) == [w EXCEPT !.cl[c] = you]

LEMMA PutIs ==
    ASSUME NEW w \in Worlds, NEW c \in Clients, NEW you \in Recs
    PROVE  /\ Put(w, c, you) \in Worlds
           /\ Put(w, c, you).cl[c] = you
           /\ \A x \in Clients : x # c => Put(w, c, you).cl[x] = w.cl[x]
           /\ Put(w, c, you).ifp = w.ifp
           /\ Put(w, c, you).mgr = w.mgr
           /\ Put(w, c, you).used = w.used
  BY DEF Put, Worlds

\* What the books have of a client.
Entry(me) == <<me.home, me.interface, me.n["accept"], me.tcpquota, me.recursionquota>>

LEMMA SameBooks ==
    ASSUME NEW w, NEW v \in Worlds, NEW c \in Clients, Global(w),
           \A x \in Clients : x # c => v.cl[x] = w.cl[x],
           Entry(v.cl[c]) = Entry(w.cl[c]),
           v.ifp = w.ifp, v.used = w.used,
           \A i \in Interfaces : v.mgr[i].life = w.mgr[i].life /\ v.mgr[i].clients = w.mgr[i].clients
    PROVE  Global(v)
<1>1. /\ v.cl[c].home = w.cl[c].home /\ v.cl[c].interface = w.cl[c].interface
      /\ v.cl[c].n["accept"] = w.cl[c].n["accept"] /\ v.cl[c].tcpquota = w.cl[c].tcpquota
      /\ v.cl[c].recursionquota = w.cl[c].recursionquota
  BY DEF Entry
<1>2. \A b : Flag(b) \in Int
  BY DEF Flag
<1>3. w \in Worlds /\ Counts(w)
  BY DEF Global
<1>4. ASSUME NEW i \in Interfaces
      PROVE  /\ w.ifp[i].references \in Int /\ w.ifp[i].ntcpcurrent \in Int
             /\ c \in w.mgr[i].clients <=> w.cl[c].home = i
             /\ ~(w.mgr[i].clients = {} /\ w.mgr[i].life = "exiting")
  <2>1. w.ifp[i] \in Ifps
    BY <1>3 DEF Worlds
  <2> QED BY <1>3, <2>1 DEF Ifps, Counts
<1>5. w.used["tcp"] \in Int /\ w.used["rec"] \in Int
  BY <1>3 DEF Worlds
<1>6. Flow(w, v, c)
  <2>1. ASSUME NEW i \in Interfaces
        PROVE  /\ v.ifp[i].references = w.ifp[i].references
                     + Flag(v.cl[c].interface = i) - Flag(w.cl[c].interface = i)
               /\ v.ifp[i].ntcpcurrent = w.ifp[i].ntcpcurrent
                     + Flag(Accepting(v.cl[c], i)) - Flag(Accepting(w.cl[c], i))
               /\ v.ifp[i].life = IF w.ifp[i].references = 1 /\ v.ifp[i].references = 0
                                    THEN "destroyed" ELSE w.ifp[i].life
    BY <1>1, <1>2, <1>4 DEF Accepting
  <2>2. ASSUME NEW i \in Interfaces
        PROVE  /\ v.mgr[i].clients = IF v.cl[c].home = i THEN w.mgr[i].clients \cup {c}
                                                         ELSE w.mgr[i].clients \ {c}
               /\ v.mgr[i].life = IF v.mgr[i].clients = {} /\ w.mgr[i].life = "exiting"
                                    THEN "destroyed" ELSE w.mgr[i].life
    <3> DEFINE S == w.mgr[i].clients
    <3>1. v.mgr[i].clients = S /\ v.mgr[i].life = w.mgr[i].life /\ (c \in S <=> v.cl[c].home = i)
      BY <1>1, <1>4
    <3>2. ~(S = {} /\ w.mgr[i].life = "exiting")
      BY <1>4
    <3> HIDE DEF S
    <3>3. (c \in S => S = S \cup {c}) /\ (c \notin S => S = S \ {c})
      OBVIOUS
    <3> QED BY <3>1, <3>2, <3>3 DEF S
  <2>3. /\ v.used["tcp"] = w.used["tcp"] + Flag(v.cl[c].tcpquota) - Flag(w.cl[c].tcpquota)
        /\ v.used["rec"] = w.used["rec"] + Flag(v.cl[c].recursionquota) - Flag(w.cl[c].recursionquota)
    BY <1>1, <1>2, <1>5
  <2> QED BY <1>1, <2>1, <2>2, <2>3 DEF Flow
<1> QED BY <1>6, FlowKeeps

LEMMA PutGlobal ==
    ASSUME NEW w, NEW c \in Clients, NEW you \in Recs, Global(w), Entry(you) = Entry(w.cl[c])
    PROVE  Global(Put(w, c, you)) /\ Aside(w, Put(w, c, you), c)
<1>1. w \in Worlds
  BY DEF Global
<1> DEFINE v == Put(w, c, you)
<1>2. /\ v \in Worlds /\ v.cl[c] = you /\ \A x \in Clients : x # c => v.cl[x] = w.cl[x]
      /\ v.ifp = w.ifp /\ v.mgr = w.mgr /\ v.used = w.used
  BY <1>1, PutIs
<1> HIDE DEF v
<1>3. Global(v)
  BY <1>2, SameBooks
<1>4. Aside(w, v, c)
  BY <1>2 DEF Aside
<1> QED BY <1>3, <1>4 DEF v

\* The fields of a client, and what all but those in F have in common.
Fields == {"state", "newstate", "task", "home", "interface", "tcp", "mortal", "n", "canceled",
           "references", "fetch", "timerset", "tcpquota", "recursionquota", "victim"}

Except(me, you, F) == you \in Recs /\ \A f \in Fields : f \notin F => you[f] = me[f]

LEMMA RecOf ==
    ASSUME NEW w \in Worlds, NEW c \in Clients
    PROVE  w.cl[c] \in Recs
  BY DEF Worlds

LEMMA RecParts ==
    ASSUME NEW me \in Recs
    PROVE  /\ me.state \in 0 .. 5 /\ me.newstate \in {0, 1, 2, 3, 4, 5, 9}
           /\ me.n \in [Works -> 0 .. 1] /\ me.canceled \in SUBSET Works /\ me.references \in 0 .. 1
           /\ me.tcp \in BOOLEAN /\ me.mortal \in BOOLEAN /\ me.timerset \in BOOLEAN
           /\ me.tcpquota \in BOOLEAN /\ me.recursionquota \in BOOLEAN
           /\ me.home \in Homes /\ me.interface \in Homes
           /\ \A k \in Works : me.n[k] \in {0, 1}
  BY DEF Recs, States, NewStates, FREED, INACTIVE, READY, READING, WORKING, RECURSING, MAX

LEMMA MovesSame ==
    ASSUME NEW w, NEW c, Global(w)
    PROVE  Moves(w, w, c)
  BY DEF Moves, Aside, Duty

LEMMA NoClientIs ==
    NoClient \in Recs
<1>1. FREED \in States /\ MAX \in NewStates /\ None \in Homes
  BY DEF States, NewStates, Homes, FREED, RECURSING, MAX
<1>2. [k \in Works |-> 0] \in [Works -> 0 .. 1]
  OBVIOUS
<1> QED BY <1>1, <1>2 DEF NoClient, Recs

\* c is gone.
LEMMA FreeIs ==
    ASSUME NEW w, NEW c \in Clients, Loose(w, c), w.cl[c].state = INACTIVE, w.cl[c].newstate = FREED,
           \A i \in Interfaces : c \notin Range(w.mgr[i].inactive)
    PROVE  Moves(w, FreeClient(w, c), c) /\ Settled(FreeClient(w, c), c)
<1> DEFINE me == w.cl[c]
           h  == me.home
           gone == [NoClient EXCEPT !.task = "gone"]
           left == w.mgr[h].clients \ {c}
           v  == FreeClient(w, c)
<1>1. /\ w \in Worlds /\ Counts(w) /\ me \in Recs /\ Alive(me) /\ Placed(w, c) /\ Listed(w, c)
      /\ h \in Interfaces
  BY RecOf DEF Loose, Global, Placed
<1>2. /\ me.interface = None /\ ~me.tcpquota /\ ~me.recursionquota /\ me.task = "down"
  BY <1>1 DEF Placed, INACTIVE, READY, READING, WORKING
<1>3. /\ v.cl = [w.cl EXCEPT ![c] = gone] /\ v.ifp = w.ifp /\ v.used = w.used
      /\ v.mgr = [w.mgr EXCEPT ![h] = [w.mgr[h] EXCEPT !.clients = left,
                    !.life = IF @ = "exiting" /\ left = {} THEN "destroyed" ELSE @]]
  BY <1>1 DEF FreeClient, Worlds
<1>4. /\ gone \in Recs /\ gone.state = FREED /\ gone.task = "gone" /\ gone.home = None
      /\ gone.interface = None /\ ~gone.tcpquota /\ ~gone.recursionquota
      /\ gone = [NoClient EXCEPT !.task = gone.task]
  <2>1. /\ gone.state = FREED /\ gone.task = "gone" /\ gone.home = None
        /\ gone.interface = None /\ ~gone.tcpquota /\ ~gone.recursionquota
    BY DEF NoClient
  <2>2. NoClient \in Recs
    BY NoClientIs
  <2>3. gone \in Recs
    BY <2>2 DEF Recs
  <2> QED BY <2>1, <2>3
<1> HIDE DEF gone, v
<1>5. /\ v.cl[c] = gone /\ \A x \in Clients : x # c => v.cl[x] = w.cl[x]
      /\ v.cl \in [Clients -> Recs]
  BY <1>1, <1>3, <1>4 DEF Worlds
<1>6. /\ w.mgr \in [Interfaces -> Mgrs] /\ w.mgr[h] \in Mgrs
  BY <1>1 DEF Worlds
<1>7. /\ v.mgr[h].life = IF w.mgr[h].life = "exiting" /\ left = {} THEN "destroyed" ELSE w.mgr[h].life
      /\ v.mgr[h].clients = left /\ v.mgr[h].inactive = w.mgr[h].inactive
      /\ v.mgr[h].recursing = w.mgr[h].recursing /\ v.mgr[h] \in Mgrs
      /\ \A i \in Interfaces : i # h => v.mgr[i] = w.mgr[i]
      /\ v.mgr \in [Interfaces -> Mgrs]
  <2> DEFINE l == IF w.mgr[h].life = "exiting" /\ left = {} THEN "destroyed" ELSE w.mgr[h].life
             m == [w.mgr[h] EXCEPT !.clients = left, !.life = l]
  <2>1. v.mgr = [w.mgr EXCEPT ![h] = m]
    BY <1>3, <1>6 DEF Mgrs
  <2>2. /\ m \in Mgrs /\ m.life = l /\ m.clients = left /\ m.inactive = w.mgr[h].inactive
        /\ m.recursing = w.mgr[h].recursing
    BY <1>6 DEF Mgrs
  <2> HIDE DEF m, l
  <2>3. v.mgr[h] = m /\ v.mgr \in [Interfaces -> Mgrs] /\ \A i \in Interfaces : i # h => v.mgr[i] = w.mgr[i]
    BY <1>1, <1>6, <2>1, <2>2
  <2> QED BY <2>2, <2>3 DEF l
<1>8. v \in Worlds
  <2>1. v.cl \in [Clients -> Recs] /\ v.mgr \in [Interfaces -> Mgrs] /\ v.ifp = w.ifp /\ v.used = w.used
    BY <1>3, <1>5, <1>7
  <2> QED BY <1>1, <2>1 DEF v, FreeClient, Worlds
<1>9. Flow(w, v, c)
  <2>1. None \notin Interfaces
    BY NsClientAssumption
  <2>2. ASSUME NEW i \in Interfaces
        PROVE  /\ v.ifp[i].references = w.ifp[i].references + Flag(gone.interface = i) - Flag(me.interface = i)
               /\ v.ifp[i].ntcpcurrent = w.ifp[i].ntcpcurrent + Flag(Accepting(gone, i)) - Flag(Accepting(me, i))
               /\ v.ifp[i].life = IF w.ifp[i].references = 1 /\ v.ifp[i].references = 0
                                    THEN "destroyed" ELSE w.ifp[i].life
    <3>1. w.ifp[i] \in Ifps
      BY <1>1 DEF Worlds
    <3> QED BY <1>2, <1>3, <1>4, <2>1, <3>1 DEF Flag, Accepting, Ifps
  <2>3. ASSUME NEW i \in Interfaces
        PROVE  /\ v.mgr[i].clients = w.mgr[i].clients \ {c}
               /\ v.mgr[i].life = IF v.mgr[i].clients = {} /\ w.mgr[i].life = "exiting"
                                    THEN "destroyed" ELSE w.mgr[i].life
    <3>1. CASE i = h
      BY <1>7, <3>1
    <3>2. CASE i # h
      <4>1. c \notin w.mgr[i].clients /\ ~(w.mgr[i].clients = {} /\ w.mgr[i].life = "exiting")
        BY <1>1, <3>2 DEF Counts
      <4>2. v.mgr[i] = w.mgr[i]
        BY <1>7, <3>2
      <4>3. w.mgr[i].clients \ {c} = w.mgr[i].clients
        BY <4>1
      <4> QED BY <4>1, <4>2, <4>3
    <3> QED BY <3>1, <3>2
  <2>4. /\ v.used["tcp"] = w.used["tcp"] + Flag(gone.tcpquota) - Flag(me.tcpquota)
        /\ v.used["rec"] = w.used["rec"] + Flag(gone.recursionquota) - Flag(me.recursionquota)
    BY <1>1, <1>2, <1>3, <1>4 DEF Flag, Worlds
  <2>5. \A i \in Interfaces : gone.home # i /\ gone.interface # i
    BY <1>4, <2>1
  <2> QED BY <1>5, <1>8, <2>2, <2>3, <2>4, <2>5 DEF Flow
<1>10. Aside(w, v, c)
  <2>1. ASSUME NEW i \in Interfaces
        PROVE  /\ v.mgr[i].life = "up" <=> w.mgr[i].life = "up"
               /\ v.mgr[i].inactive = w.mgr[i].inactive /\ v.mgr[i].recursing = w.mgr[i].recursing
    BY <1>7
  <2> QED BY <1>5, <2>1 DEF Aside
<1>11. Moves(w, v, c)
  BY <1>2, <1>4, <1>5, <1>9, <1>10, FlowKeeps DEF Moves, Duty, Loose
<1>12. Settled(v, c)
  <2>1. ~Alive(gone) /\ gone.state # INACTIVE
    BY <1>4 DEF Alive, FREED, INACTIVE
  <2>2. \A i \in Interfaces : c \notin Range(v.mgr[i].recursing) /\ c \notin Range(v.mgr[i].inactive)
    BY <1>1, <1>7, SMTT(40) DEF Listed, INACTIVE, RECURSING
  <2> QED BY <1>4, <1>5, <2>1, <2>2 DEF Settled, Listed
<1> QED BY <1>11, <1>12 DEF v

\* A request of c is canceled.
LEMMA CancelIs ==
    ASSUME NEW w, NEW c \in Clients, NEW k \in Works, Loose(w, c), w.cl[c].n[k] = 1
    PROVE  LET v == Cancel(w, c, k) IN
           /\ Moves(w, v, c) /\ Loose(v, c) /\ v.mgr = w.mgr
           /\ Except(w.cl[c], v.cl[c], {"canceled"}) /\ v.cl[c].canceled = w.cl[c].canceled \cup {k}
<1> DEFINE me  == w.cl[c]
           you == [me EXCEPT !.canceled = @ \cup {k}]
           v   == Cancel(w, c, k)
<1>1. /\ w \in Worlds /\ Global(w) /\ me \in Recs /\ Alive(me) /\ Placed(w, c) /\ Listed(w, c)
  BY RecOf DEF Loose, Global
<1>2. v = Put(w, c, you)
  BY <1>1 DEF Cancel, Put, Worlds
<1>3. Except(me, you, {"canceled"}) /\ you.canceled = me.canceled \cup {k}
  BY <1>1 DEF Except, Fields, Recs
<1> HIDE DEF you, v
<1>4. you \in Recs /\ Entry(you) = Entry(me)
  BY <1>3 DEF Except, Fields, Entry
<1>5. v.cl[c] = you /\ v.mgr = w.mgr
  BY <1>1, <1>2, <1>4, PutIs
<1>6. Global(v) /\ Aside(w, v, c)
  BY <1>1, <1>2, <1>4, PutGlobal
<1>7. Duty(me, you) /\ Alive(you)
  BY <1>1, <1>3 DEF Except, Fields, Duty, Serves, Alive
<1>8. Placed(v, c) /\ Listed(v, c)
  <2>1. Listed(v, c)
    BY <1>1, <1>3, <1>5 DEF Listed, Except, Fields
  <2>2. \A j \in you.canceled : you.n[j] = 1
    BY <1>1, <1>3 DEF Placed, Except, Fields
  <2> QED BY <1>1, <1>3, <1>5, <2>1, <2>2 DEF Placed, Except, Fields
<1> QED BY <1>3, <1>5, <1>6, <1>7, <1>8 DEF Moves, Loose, v

\* An interface with one user less.
Less(f) == [f EXCEPT !.references = @ - 1, !.life = IF f.references = 1 THEN "destroyed" ELSE @]

LEMMA LessIs ==
    ASSUME NEW f \in Ifps
    PROVE  /\ Less(f) \in Ifps /\ Less(f).references = f.references - 1
           /\ Less(f).ntcpcurrent = f.ntcpcurrent
           /\ Less(f).life = IF f.references = 1 THEN "destroyed" ELSE f.life
<1>1. /\ Less(f).references = f.references - 1 /\ Less(f).ntcpcurrent = f.ntcpcurrent
      /\ Less(f).life = IF f.references = 1 THEN "destroyed" ELSE f.life
  BY DEF Less, Ifps
<1>2. PICK r, l : r = f.references - 1 /\ l = (IF f.references = 1 THEN "destroyed" ELSE f.life)
  OBVIOUS
<1>3. r \in Int /\ l \in {"none", "up", "destroyed"}
  BY <1>2 DEF Ifps
<1>4. Less(f) = [f EXCEPT !.references = r, !.life = l]
  BY <1>2 DEF Less, Ifps
<1>5. Less(f) \in Ifps
  BY <1>3, <1>4 DEF Ifps
<1> QED BY <1>1, <1>5

\* c leaves its interface.
Detached(w, c) ==
    [ns_interface_detach(w, w.cl[c].interface) EXCEPT
        !.cl[c].interface = None, !.cl[c].tcp = FALSE, !.cl[c].mortal = FALSE, !.cl[c].state = INACTIVE]

LEMMA DetachedIs ==
    ASSUME NEW w, NEW c \in Clients, Loose(w, c), w.cl[c].state = READY,
           w.cl[c].newstate \in {FREED, INACTIVE}, w.cl[c].newstate = INACTIVE => w.cl[c].mortal,
           Nothing(w.cl[c].n)
    PROVE  LET v == Detached(w, c) IN
           /\ Moves(w, v, c) /\ Loose(v, c) /\ v.mgr = w.mgr
           /\ Except(w.cl[c], v.cl[c], {"state", "interface", "tcp", "mortal"})
           /\ v.cl[c].state = INACTIVE
<1> DEFINE me  == w.cl[c]
           h   == me.home
           you == [me EXCEPT !.interface = None, !.tcp = FALSE, !.mortal = FALSE, !.state = INACTIVE]
           v   == Detached(w, c)
           l   == IF w.ifp[h].references = 1 THEN "destroyed" ELSE w.ifp[h].life
           f   == Less(w.ifp[h])
<1>1. /\ w \in Worlds /\ Counts(w) /\ me \in Recs /\ Alive(me) /\ Placed(w, c) /\ Listed(w, c)
      /\ h \in Interfaces
  BY RecOf DEF Loose, Global, Placed
<1>2. me.interface = h /\ None \notin Interfaces /\ ~me.tcpquota /\ ~me.recursionquota
  BY <1>1, NsClientAssumption DEF Placed, READY, READING, WORKING
<1>3. w.ifp \in [Interfaces -> Ifps] /\ w.ifp[h] \in Ifps /\ \A i \in Interfaces : w.ifp[i] \in Ifps
  BY <1>1 DEF Worlds
<1>4. /\ v.cl = [w.cl EXCEPT ![c] = you] /\ v.mgr = w.mgr /\ v.used = w.used
      /\ v.ifp = [w.ifp EXCEPT ![h] = f]
  <2>1. v.cl = [w.cl EXCEPT ![c] = you]
    BY <1>1, <1>2, ZenonT(60) DEF Detached, ns_interface_detach, Worlds
  <2>2. v.mgr = w.mgr /\ v.used = w.used
    BY <1>1, <1>2 DEF Detached, ns_interface_detach, Worlds
  <2>3. v.ifp = [w.ifp EXCEPT ![h] = f]
    BY <1>1, <1>2, <1>3, ZenonT(60) DEF Detached, ns_interface_detach, Worlds, Ifps, Less
  <2> QED BY <2>1, <2>2, <2>3
<1>5. /\ Except(me, you, {"state", "interface", "tcp", "mortal"})
      /\ you.state = INACTIVE /\ you.interface = None /\ ~you.mortal /\ ~you.tcp
  <2>1. INACTIVE \in States /\ None \in Homes
    BY DEF States, Homes, INACTIVE, FREED, RECURSING
  <2> QED BY <1>1, <2>1 DEF Except, Fields, Recs
<1>6. f \in Ifps /\ f.references = w.ifp[h].references - 1 /\ f.ntcpcurrent = w.ifp[h].ntcpcurrent /\ f.life = l
  BY <1>3, LessIs
<1> HIDE DEF you, f, v
<1>7. /\ v.cl[c] = you /\ \A x \in Clients : x # c => v.cl[x] = w.cl[x]
      /\ v.cl \in [Clients -> Recs]
  BY <1>1, <1>4, <1>5 DEF Worlds, Except
<1>8. /\ v.ifp[h] = f /\ \A i \in Interfaces : i # h => v.ifp[i] = w.ifp[i]
      /\ v.ifp \in [Interfaces -> Ifps]
  BY <1>1, <1>3, <1>4, <1>6
<1>9. v \in Worlds
  <2>1. v.cl \in [Clients -> Recs] /\ v.mgr = w.mgr /\ v.ifp \in [Interfaces -> Ifps] /\ v.used = w.used
    BY <1>4, <1>7, <1>8
  <2> QED BY <1>1, <2>1 DEF v, Detached, ns_interface_detach, Worlds
<1>10. you.home = h /\ you.n = me.n /\ me.n["accept"] = 0 /\ ~you.tcpquota /\ ~you.recursionquota
  BY <1>2, <1>5 DEF Except, Fields, Nothing, Works
<1>11. Flow(w, v, c)
  <2>1. ASSUME NEW i \in Interfaces
        PROVE  /\ v.ifp[i].references = w.ifp[i].references + Flag(you.interface = i) - Flag(me.interface = i)
               /\ v.ifp[i].ntcpcurrent = w.ifp[i].ntcpcurrent + Flag(Accepting(you, i)) - Flag(Accepting(me, i))
    <3>1. w.ifp[i].references \in Int /\ w.ifp[i].ntcpcurrent \in Int
      BY <1>3 DEF Ifps
    <3>2. Flag(Accepting(you, i)) = 0 /\ Flag(Accepting(me, i)) = 0 /\ Flag(you.interface = i) = 0
      BY <1>2, <1>5, <1>10 DEF Accepting, Flag
    <3>3. Flag(me.interface = i) = IF i = h THEN 1 ELSE 0
      BY <1>2 DEF Flag
    <3> QED BY <1>6, <1>8, <3>1, <3>2, <3>3
  <2>2. ASSUME NEW i \in Interfaces
        PROVE  v.ifp[i].life = IF w.ifp[i].references = 1 /\ v.ifp[i].references = 0
                                 THEN "destroyed" ELSE w.ifp[i].life
    <3>1. w.ifp[i].references \in Int
      BY <1>3 DEF Ifps
    <3> QED BY <1>6, <1>8, <3>1
  <2>3. ASSUME NEW i \in Interfaces
        PROVE  /\ v.mgr[i].clients = IF you.home = i THEN w.mgr[i].clients \cup {c}
                                                     ELSE w.mgr[i].clients \ {c}
               /\ v.mgr[i].life = IF v.mgr[i].clients = {} /\ w.mgr[i].life = "exiting"
                                    THEN "destroyed" ELSE w.mgr[i].life
    <3>1. (c \in w.mgr[i].clients <=> h = i) /\ ~(w.mgr[i].clients = {} /\ w.mgr[i].life = "exiting")
      BY <1>1 DEF Counts
    <3>2. v.mgr[i] = w.mgr[i]
      BY <1>4
    <3>3. (h = i => w.mgr[i].clients = w.mgr[i].clients \cup {c}) /\ (h # i => w.mgr[i].clients = w.mgr[i].clients \ {c})
      BY <3>1
    <3> QED BY <1>10, <3>1, <3>2, <3>3
  <2>4. /\ v.used["tcp"] = w.used["tcp"] + Flag(you.tcpquota) - Flag(me.tcpquota)
        /\ v.used["rec"] = w.used["rec"] + Flag(you.recursionquota) - Flag(me.recursionquota)
    BY <1>1, <1>2, <1>4, <1>10 DEF Flag, Worlds
  <2>5. \A i \in Interfaces : you.interface # i /\ (you.home = i => me.home = i)
    BY <1>2, <1>5, <1>10
  <2> QED BY <1>7, <1>9, <2>1, <2>2, <2>3, <2>4, <2>5 DEF Flow
<1>12. Aside(w, v, c)
  BY <1>4, <1>7 DEF Aside
<1>13. Duty(me, you)
  <2>1. you.task = me.task /\ you.home = me.home /\ ~Serves(you, TRUE) /\ ~Serves(you, FALSE)
    BY <1>5 DEF Except, Fields, Serves
  <2>2. me.task = "up" => me.mortal
    BY <1>1 DEF Placed
  <2> QED BY <2>1, <2>2 DEF Duty, Serves
<1>14. Listed(v, c)
  BY <1>1, <1>4 DEF Listed, READY, INACTIVE, RECURSING
<1>15. Placed(v, c)
  <2>1. /\ you.home = h /\ you.task = me.task /\ you.newstate = me.newstate /\ you.canceled = me.canceled
        /\ you.n = me.n /\ ~you.tcpquota /\ you.timerset = me.timerset /\ you.references = me.references
        /\ you.fetch = me.fetch /\ ~you.recursionquota /\ you.victim = me.victim
    BY <1>5, <1>10 DEF Except, Fields
  <2>2. ~me.timerset /\ me.references = 0 /\ me.fetch = "none" /\ me.victim = None
    BY <1>1 DEF Placed, READY, READING, WORKING
  <2>3. /\ ~(you.state >= READY) /\ you.newstate # READING
    BY <1>5, <2>1 DEF INACTIVE, READY, FREED, READING
  <2> QED BY <1>1, <1>4, <1>5, <1>7, <2>1, <2>2, <2>3 DEF Placed
<1>16. Alive(you)
  BY <1>1, <1>5 DEF Except, Fields, Alive
<1>17. Global(v)
  BY <1>11, FlowKeeps DEF Loose
<1> QED BY <1>4, <1>5, <1>7, <1>12, <1>13, <1>14, <1>15, <1>16, <1>17 DEF Moves, Loose, v

\* c waits to be used again.
Retired(w, c) == LET h == w.cl[c].home IN
    [w EXCEPT !.cl[c].newstate = MAX,
              !.mgr[h].inactive = IF w.mgr[h].life = "up" THEN Append(@, c) ELSE @]

LEMMA RetiredIs ==
    ASSUME NEW w, NEW c \in Clients, Loose(w, c), w.cl[c].state = INACTIVE,
           w.cl[c].newstate = INACTIVE, Nothing(w.cl[c].n)
    PROVE  Moves(w, Retired(w, c), c) /\ Settled(Retired(w, c), c)
<1> DEFINE me  == w.cl[c]
           h   == me.home
           you == [me EXCEPT !.newstate = MAX]
           q   == IF w.mgr[h].life = "up" THEN Append(w.mgr[h].inactive, c) ELSE w.mgr[h].inactive
           m   == [w.mgr[h] EXCEPT !.inactive = q]
           v   == Retired(w, c)
<1>1. /\ w \in Worlds /\ Global(w) /\ me \in Recs /\ Alive(me) /\ Placed(w, c) /\ Listed(w, c)
      /\ h \in Interfaces
  BY RecOf DEF Loose, Global, Placed
<1>2. w.mgr \in [Interfaces -> Mgrs] /\ w.mgr[h] \in Mgrs /\ w.mgr[h].inactive \in Seq(Clients)
  BY <1>1 DEF Worlds, Mgrs
<1>3. /\ v.cl = [w.cl EXCEPT ![c] = you] /\ v.ifp = w.ifp /\ v.used = w.used
      /\ v.mgr = [w.mgr EXCEPT ![h] = m]
  BY <1>1 DEF Retired, Worlds
<1>4. Except(me, you, {"newstate"}) /\ you.newstate = MAX
  <2>1. MAX \in NewStates
    BY DEF NewStates
  <2> QED BY <1>1, <2>1 DEF Except, Fields, Recs
<1>5. /\ q \in Seq(Clients)
      /\ \A x \in Clients : x # c => (x \in Range(q) <=> x \in Range(w.mgr[h].inactive))
      /\ w.mgr[h].life = "up" => c \in Range(q)
  <2>1. Append(w.mgr[h].inactive, c) \in Seq(Clients)
    BY <1>2
  <2>2. \A x : x \in Range(Append(w.mgr[h].inactive, c)) <=> x \in Range(w.mgr[h].inactive) \/ x = c
    BY <1>2, AppendRange
  <2> QED BY <1>2, <2>1, <2>2
<1> HIDE DEF q
<1>6. /\ m \in Mgrs /\ m.inactive = q /\ m.recursing = w.mgr[h].recursing /\ m.life = w.mgr[h].life
      /\ m.clients = w.mgr[h].clients
  BY <1>2, <1>5 DEF Mgrs
<1> HIDE DEF you, m, v
<1>7. /\ v.cl[c] = you /\ \A x \in Clients : x # c => v.cl[x] = w.cl[x]
      /\ v.cl \in [Clients -> Recs]
  BY <1>1, <1>3, <1>4 DEF Worlds, Except
<1>8. /\ v.mgr[h] = m /\ \A i \in Interfaces : i # h => v.mgr[i] = w.mgr[i]
      /\ v.mgr \in [Interfaces -> Mgrs]
  BY <1>1, <1>2, <1>3, <1>6
<1>9. v \in Worlds
  <2>1. v.cl \in [Clients -> Recs] /\ v.mgr \in [Interfaces -> Mgrs] /\ v.ifp = w.ifp /\ v.used = w.used
    BY <1>3, <1>7, <1>8
  <2> QED BY <1>1, <2>1 DEF v, Retired, Worlds
<1>10. Global(v)
  <2>1. Entry(you) = Entry(me)
    BY <1>4 DEF Entry, Except, Fields
  <2>2. \A i \in Interfaces : v.mgr[i].life = w.mgr[i].life /\ v.mgr[i].clients = w.mgr[i].clients
    BY <1>6, <1>8
  <2> QED BY <1>1, <1>3, <1>7, <1>9, <2>1, <2>2, SameBooks
<1>11. Aside(w, v, c)
  BY <1>5, <1>6, <1>7, <1>8 DEF Aside
<1>12. /\ you.home = h /\ you.task = me.task /\ you.canceled = me.canceled /\ you.interface = me.interface
       /\ you.n = me.n /\ you.tcpquota = me.tcpquota /\ you.timerset = me.timerset
       /\ you.references = me.references /\ you.tcp = me.tcp /\ you.mortal = me.mortal
       /\ you.fetch = me.fetch /\ you.recursionquota = me.recursionquota /\ you.victim = me.victim
       /\ you.state = INACTIVE
  BY <1>4 DEF Except, Fields
<1>13. Duty(me, you)
  BY <1>12 DEF Duty, Serves
<1>14. /\ me.task # "down" /\ you.newstate # FREED /\ you.newstate # READING
       /\ ~(you.state >= READY) /\ you.state # FREED /\ you.state # RECURSING
       /\ ~(you.state >= WORKING) /\ you.state # READY /\ you.state # READING
  BY <1>1, <1>4, <1>12 DEF Placed, INACTIVE, FREED, READY, READING, WORKING, RECURSING, MAX
<1>15. Alive(you) /\ you.task \in {"up", "told"}
  BY <1>1, <1>12, <1>14 DEF Alive
<1>16. Listed(v, c)
  BY <1>1, <1>6, <1>7, <1>8, <1>12, <1>14, <1>15 DEF Listed
<1>17. Placed(v, c)
  <2>1. me.interface = None
    BY <1>1 DEF Placed, READY, INACTIVE
  <2> QED BY <1>1, <1>6, <1>7, <1>8, <1>12, <1>14, <2>1 DEF Placed
<1>18. Waits(you)
  BY <1>4, <1>12, <1>14 DEF Waits
<1>19. you.task = "up" => c \in Range(v.mgr[h].inactive)
  BY <1>1, <1>5, <1>6, <1>8, <1>12 DEF Placed
<1>20. Settled(v, c)
  BY <1>7, <1>12, <1>14, <1>15, <1>16, <1>17, <1>18, <1>19 DEF Settled
<1> QED BY <1>7, <1>10, <1>11, <1>13, <1>20 DEF Moves, v

LEMMA LeaveReadyIs ==
    ASSUME NEW w, NEW c \in Clients, Loose(w, c), w.cl[c].state = READY,
           w.cl[c].newstate \in {FREED, INACTIVE}, w.cl[c].newstate = INACTIVE => w.cl[c].mortal,
           \/ Nothing(w.cl[c].n)
           \/ w.cl[c].newstate = FREED /\ ~w.cl[c].mortal /\ Only(w.cl[c].n, Expects(w.cl[c]))
    PROVE  Moves(w, LeaveReady(w, c), c) /\ Settled(LeaveReady(w, c), c)
<1> DEFINE me == w.cl[c]
           v  == LeaveReady(w, c)
<1>1. /\ w \in Worlds /\ Global(w) /\ me \in Recs /\ Alive(me) /\ Placed(w, c) /\ Listed(w, c)
      /\ me.home \in Interfaces
  BY RecOf DEF Loose, Global, Placed
<1>2. me.n["accept"] \in {0, 1} /\ me.n["recv"] \in {0, 1} /\ me.n["ctl"] \in {0, 1}
  BY <1>1, RecParts DEF Works
<1>3. CASE Nothing(me.n)
  <2> DEFINE u == Detached(w, c)
  <2>1. me.n["accept"] = 0 /\ me.n["recv"] = 0 /\ me.n["ctl"] = 0
    BY <1>3 DEF Nothing, Works
  <2>2. /\ Moves(w, u, c) /\ Loose(u, c) /\ u.mgr = w.mgr /\ u.cl[c].state = INACTIVE
        /\ u.cl[c].newstate = me.newstate /\ u.cl[c].n = me.n /\ u.cl[c].home = me.home
    BY <1>3, DetachedIs DEF Except, Fields
  <2>3. v = IF me.newstate = FREED THEN FreeClient(u, c)
            ELSE [u EXCEPT !.cl[c].newstate = MAX,
                           !.mgr[me.home].inactive = IF w.mgr[me.home].life = "up" THEN Append(@, c) ELSE @]
    <3>1. ~(me.n["accept"] > 0) /\ ~(me.n["recv"] > 0) /\ ~(me.n["ctl"] > 0)
      BY <2>1
    <3> QED BY <2>1, <3>1, ZenonT(60) DEF LeaveReady, Detached
  <2> HIDE DEF u, v
  <2>4. v = IF me.newstate = FREED THEN FreeClient(u, c) ELSE Retired(u, c)
    BY <2>2, <2>3 DEF Retired
  <2>5. CASE me.newstate = FREED
    <3>1. \A i \in Interfaces : c \notin Range(u.mgr[i].inactive)
      BY <1>1, <2>2 DEF Listed, READY, INACTIVE
    <3>2. Moves(u, v, c) /\ Settled(v, c)
      BY <2>2, <2>4, <2>5, <3>1, FreeIs
    <3> QED BY <2>2, <3>2, MovesTransitive DEF v
  <2>6. CASE me.newstate = INACTIVE
    <3>1. v = Retired(u, c)
      BY <2>4, <2>6 DEF INACTIVE, FREED
    <3>2. Moves(u, v, c) /\ Settled(v, c)
      BY <1>3, <2>2, <2>6, <3>1, RetiredIs
    <3> QED BY <2>2, <3>2, MovesTransitive DEF v
  <2> QED BY <2>5, <2>6
<1>4. CASE ~Nothing(me.n)
  <2> DEFINE k == Expects(me)
  <2>1. me.newstate = FREED /\ ~me.mortal /\ Only(me.n, k)
    BY <1>4
  <2>2. /\ me.references = 0 /\ me.state # FREED /\ me.state # INACTIVE /\ me.state # READING
        /\ ~(me.state >= WORKING)
    BY <1>1 DEF Placed, READY, WORKING, FREED, INACTIVE, READING
  <2>3. CASE k = "ctl"
    <3>1. me.n["accept"] = 0 /\ me.n["recv"] = 0 /\ me.n["ctl"] = 1
      BY <2>1, <2>3 DEF Only, Works
    <3>2. v = w
      <4>1. ~(me.n["accept"] > 0) /\ ~(me.n["recv"] > 0) /\ me.n["ctl"] > 0
        BY <3>1
      <4> QED BY <3>1, <4>1, ZenonT(60) DEF LeaveReady
    <3>4. Waits(me)
      BY <2>1, <2>2, <3>1 DEF Waits
    <3>5. Settled(w, c)
      BY <1>1, <2>2, <3>4 DEF Settled
    <3> QED BY <1>1, <3>2, <3>5, MovesSame
  <2>4. CASE k \in {"accept", "recv"}
    <3>0. me.n[k] = 1 /\ k \in Works /\ me.n["ctl"] = 0 /\ (k = "recv" => me.n["accept"] = 0)
      BY <2>1, <2>4 DEF Only, Works
    <3>1. v = Cancel(w, c, k)
      <4> HIDE DEF k
      <4>1. CASE k = "accept"
        <5>1. me.n["accept"] > 0 /\ me.n["accept"] # 0
          BY <3>0, <4>1
        <5> QED BY <4>1, <5>1, ZenonT(60) DEF LeaveReady
      <4>2. CASE k = "recv"
        <5>1. ~(me.n["accept"] > 0) /\ me.n["accept"] = 0 /\ me.n["recv"] > 0 /\ me.n["recv"] # 0
          BY <3>0, <4>2
        <5> QED BY <4>2, <5>1, ZenonT(60) DEF LeaveReady
      <4> QED BY <2>4, <4>1, <4>2
    <3>2. /\ Moves(w, v, c) /\ Loose(v, c) /\ Except(me, v.cl[c], {"canceled"})
          /\ v.cl[c].canceled = me.canceled \cup {k}
      BY <3>0, <3>1, CancelIs
    <3> HIDE DEF v, k
    <3>3. Waits(v.cl[c])
      <4>1. /\ v.cl[c].state = me.state /\ v.cl[c].newstate = me.newstate /\ v.cl[c].n = me.n
            /\ v.cl[c].tcp = me.tcp /\ v.cl[c].mortal = me.mortal /\ v.cl[c].canceled # {}
        BY <3>2 DEF Except, Fields
      <4>2. Expects(v.cl[c]) = k
        BY <4>1 DEF Expects, k
      <4> QED BY <2>1, <2>2, <4>1, <4>2 DEF Waits
    <3>4. v.cl[c].state = READY
      BY <3>2 DEF Except, Fields
    <3> QED BY <3>2, <3>3, <3>4 DEF Settled, Loose, v, READY, FREED, INACTIVE
  <2> QED BY <2>3, <2>4 DEF Expects
<1> QED BY <1>3, <1>4 DEF v

\* What may change while the books stay as they are.
Private == {"state", "newstate", "n", "canceled", "references", "fetch", "timerset", "victim"}

\* A client that fits into its place when client me did.
Fits(me, you) ==
    /\ Except(me, you, Private)
    /\ you.state >= READY <=> me.state >= READY
    /\ you.newstate = FREED <=> me.newstate = FREED
    /\ you.newstate = READING => me.tcp
    /\ \A k \in you.canceled : you.n[k] = 1
    /\ you.state < READING => ~me.tcpquota /\ ~you.timerset
    /\ you.state < WORKING => /\ you.references = 0 /\ you.fetch = "none" /\ ~me.recursionquota
                              /\ you.victim = None
    /\ you.state = me.state \/ me.state \in {READY, READING, WORKING}

LEMMA FitsIs ==
    ASSUME NEW w, NEW v, NEW c \in Clients, Alive(w.cl[c]), Placed(w, c), Listed(w, c),
           Fits(w.cl[c], v.cl[c]), v.mgr = w.mgr
    PROVE  Alive(v.cl[c]) /\ Placed(v, c) /\ Listed(v, c) /\ Duty(w.cl[c], v.cl[c])
<1> DEFINE me == w.cl[c]
           you == v.cl[c]
<1>1. /\ you.home = me.home /\ you.task = me.task /\ you.interface = me.interface
      /\ you.tcpquota = me.tcpquota /\ you.tcp = me.tcp /\ you.mortal = me.mortal
      /\ you.recursionquota = me.recursionquota
  BY DEF Fits, Except, Fields, Private
<1>2. Duty(me, you) /\ Alive(you)
  BY <1>1 DEF Duty, Serves, Alive
<1>3. Placed(v, c)
  BY <1>1 DEF Placed, Fits
<1>4. Listed(v, c)
  <2>1. CASE you.state = me.state
    BY <1>1, <2>1 DEF Listed
  <2>2. CASE me.state \in {READY, READING, WORKING}
    BY <1>1, <2>2 DEF Listed, READY, READING, WORKING, INACTIVE, RECURSING
  <2> QED BY <2>1, <2>2 DEF Fits
<1> QED BY <1>2, <1>3, <1>4

LEMMA Tweak ==
    ASSUME NEW w, NEW v, NEW c \in Clients, NEW you, Loose(w, c), v = Put(w, c, you),
           Fits(w.cl[c], you), you.n["accept"] = w.cl[c].n["accept"]
    PROVE  /\ Moves(w, v, c) /\ Loose(v, c) /\ v.cl[c] = you
           /\ v.mgr = w.mgr /\ v.ifp = w.ifp /\ v.used = w.used
<1>1. /\ w \in Worlds /\ Global(w) /\ w.cl[c] \in Recs /\ Alive(w.cl[c]) /\ Placed(w, c) /\ Listed(w, c)
      /\ you \in Recs
  BY RecOf DEF Loose, Global, Fits, Except
<1>2. v.cl[c] = you /\ v.mgr = w.mgr /\ v.ifp = w.ifp /\ v.used = w.used
  BY <1>1, PutIs
<1>3. Entry(you) = Entry(w.cl[c])
  BY DEF Entry, Fits, Except, Fields, Private
<1>4. Global(v) /\ Aside(w, v, c)
  BY <1>1, <1>3, PutGlobal
<1> QED BY <1>1, <1>2, <1>4, FitsIs DEF Moves, Loose

\* c begins or ends to accept connections.
LEMMA AcceptTweak ==
    ASSUME NEW w, NEW v \in Worlds, NEW c \in Clients, Loose(w, c), w.cl[c].state = READY,
           Fits(w.cl[c], v.cl[c]), \A x \in Clients : x # c => v.cl[x] = w.cl[x],
           v.mgr = w.mgr, v.used = w.used,
           \A i \in Interfaces :
              /\ v.ifp[i].ntcpcurrent = w.ifp[i].ntcpcurrent
                    + (IF i = w.cl[c].home THEN v.cl[c].n["accept"] - w.cl[c].n["accept"] ELSE 0)
              /\ v.ifp[i].references = w.ifp[i].references /\ v.ifp[i].life = w.ifp[i].life
    PROVE  Moves(w, v, c) /\ Loose(v, c)
<1> DEFINE me == w.cl[c]
           h == me.home
           you == v.cl[c]
<1>1. /\ w \in Worlds /\ Counts(w) /\ Global(w) /\ me \in Recs /\ you \in Recs
      /\ Alive(me) /\ Placed(w, c) /\ Listed(w, c) /\ h \in Interfaces /\ me.interface = h
  BY RecOf DEF Loose, Global, Fits, Placed, READY
<1>2. /\ you.home = h /\ you.interface = h /\ you.tcpquota = me.tcpquota
      /\ you.recursionquota = me.recursionquota
  BY <1>1 DEF Fits, Except, Fields, Private
<1>3. me.n["accept"] \in {0, 1} /\ you.n["accept"] \in {0, 1}
  BY <1>1, RecParts DEF Works
<1>4. Flow(w, v, c)
  <2>1. ASSUME NEW i \in Interfaces
        PROVE  /\ v.ifp[i].references = w.ifp[i].references + Flag(you.interface = i) - Flag(me.interface = i)
               /\ v.ifp[i].life = IF w.ifp[i].references = 1 /\ v.ifp[i].references = 0
                                    THEN "destroyed" ELSE w.ifp[i].life
               /\ v.ifp[i].ntcpcurrent = w.ifp[i].ntcpcurrent + Flag(Accepting(you, i)) - Flag(Accepting(me, i))
    <3>1. w.ifp[i].references \in Int /\ w.ifp[i].ntcpcurrent \in Int
      <4>1. w.ifp[i] \in Ifps
        BY <1>1 DEF Worlds
      <4> QED BY <4>1 DEF Ifps
    <3>2. Flag(Accepting(you, i)) = IF i = h THEN you.n["accept"] ELSE 0
      BY <1>2, <1>3 DEF Accepting, Flag
    <3>3. Flag(Accepting(me, i)) = IF i = h THEN me.n["accept"] ELSE 0
      BY <1>1, <1>3 DEF Accepting, Flag
    <3>4. Flag(you.interface = i) = Flag(me.interface = i) /\ Flag(me.interface = i) \in Int
      BY <1>1, <1>2 DEF Flag
    <3>5. v.ifp[i].ntcpcurrent = w.ifp[i].ntcpcurrent + Flag(Accepting(you, i)) - Flag(Accepting(me, i))
      BY <1>3, <3>1, <3>2, <3>3
    <3>6. v.ifp[i].references = w.ifp[i].references /\ v.ifp[i].life = w.ifp[i].life
      OBVIOUS
    <3> QED BY <3>1, <3>4, <3>5, <3>6
  <2>2. ASSUME NEW i \in Interfaces
        PROVE  /\ v.mgr[i].clients = IF you.home = i THEN w.mgr[i].clients \cup {c}
                                                     ELSE w.mgr[i].clients \ {c}
               /\ v.mgr[i].life = IF v.mgr[i].clients = {} /\ w.mgr[i].life = "exiting"
                                    THEN "destroyed" ELSE w.mgr[i].life
    <3>1. (c \in w.mgr[i].clients <=> h = i) /\ ~(w.mgr[i].clients = {} /\ w.mgr[i].life = "exiting")
      BY <1>1 DEF Counts
    <3>2. (h = i => w.mgr[i].clients = w.mgr[i].clients \cup {c}) /\ (h # i => w.mgr[i].clients = w.mgr[i].clients \ {c})
      BY <3>1
    <3> QED BY <1>2, <3>1, <3>2
  <2>3. /\ v.used["tcp"] = w.used["tcp"] + Flag(you.tcpquota) - Flag(me.tcpquota)
        /\ v.used["rec"] = w.used["rec"] + Flag(you.recursionquota) - Flag(me.recursionquota)
    BY <1>1, <1>2 DEF Flag, Worlds
  <2> QED BY <1>1, <1>2, <2>1, <2>2, <2>3 DEF Flow
<1>5. Aside(w, v, c)
  BY DEF Aside
<1> QED BY <1>1, <1>4, <1>5, FlowKeeps, FitsIs DEF Moves, Loose

\* c takes a quota or gives it back.
LEMMA QuotaTweak ==
    ASSUME NEW w, NEW v \in Worlds, NEW c \in Clients, Loose(w, c),
           Except(w.cl[c], v.cl[c], {"tcpquota", "recursionquota"}),
           \A x \in Clients : x # c => v.cl[x] = w.cl[x],
           v.mgr = w.mgr, v.ifp = w.ifp,
           v.used["tcp"] = w.used["tcp"] + Flag(v.cl[c].tcpquota) - Flag(w.cl[c].tcpquota),
           v.used["rec"] = w.used["rec"] + Flag(v.cl[c].recursionquota) - Flag(w.cl[c].recursionquota),
           v.cl[c].tcpquota => w.cl[c].state >= READING,
           v.cl[c].recursionquota => w.cl[c].state >= WORKING
    PROVE  Moves(w, v, c) /\ Loose(v, c)
<1> DEFINE me == w.cl[c]
           you == v.cl[c]
<1>1. /\ w \in Worlds /\ Counts(w) /\ Global(w) /\ me \in Recs /\ you \in Recs
      /\ Alive(me) /\ Placed(w, c) /\ Listed(w, c)
  BY RecOf DEF Loose, Global, Except
<1>2. /\ you.home = me.home /\ you.interface = me.interface /\ you.n = me.n /\ you.task = me.task
      /\ you.tcp = me.tcp /\ you.mortal = me.mortal /\ you.state = me.state /\ you.newstate = me.newstate
      /\ you.canceled = me.canceled /\ you.references = me.references /\ you.fetch = me.fetch
      /\ you.timerset = me.timerset /\ you.victim = me.victim
  BY DEF Except, Fields
<1>3. Flow(w, v, c)
  <2>1. ASSUME NEW i \in Interfaces
        PROVE  /\ v.ifp[i].references = w.ifp[i].references + Flag(you.interface = i) - Flag(me.interface = i)
               /\ v.ifp[i].life = IF w.ifp[i].references = 1 /\ v.ifp[i].references = 0
                                    THEN "destroyed" ELSE w.ifp[i].life
               /\ v.ifp[i].ntcpcurrent = w.ifp[i].ntcpcurrent + Flag(Accepting(you, i)) - Flag(Accepting(me, i))
    <3>1. w.ifp[i].references \in Int /\ w.ifp[i].ntcpcurrent \in Int
      <4>1. w.ifp[i] \in Ifps
        BY <1>1 DEF Worlds
      <4> QED BY <4>1 DEF Ifps
    <3>2. Flag(Accepting(you, i)) = Flag(Accepting(me, i)) /\ Flag(Accepting(me, i)) \in Int
      BY <1>2 DEF Accepting, Flag
    <3>3. Flag(you.interface = i) = Flag(me.interface = i) /\ Flag(me.interface = i) \in Int
      BY <1>2 DEF Flag
    <3> QED BY <3>1, <3>2, <3>3
  <2>2. ASSUME NEW i \in Interfaces
        PROVE  /\ v.mgr[i].clients = IF you.home = i THEN w.mgr[i].clients \cup {c}
                                                     ELSE w.mgr[i].clients \ {c}
               /\ v.mgr[i].life = IF v.mgr[i].clients = {} /\ w.mgr[i].life = "exiting"
                                    THEN "destroyed" ELSE w.mgr[i].life
    <3>1. (c \in w.mgr[i].clients <=> me.home = i) /\ ~(w.mgr[i].clients = {} /\ w.mgr[i].life = "exiting")
      BY <1>1 DEF Counts
    <3>2. /\ me.home = i => w.mgr[i].clients = w.mgr[i].clients \cup {c}
          /\ me.home # i => w.mgr[i].clients = w.mgr[i].clients \ {c}
      BY <3>1
    <3> QED BY <1>2, <3>1, <3>2
  <2> QED BY <1>1, <1>2, <2>1, <2>2 DEF Flow
<1>4. Aside(w, v, c)
  BY DEF Aside
<1>5. Duty(me, you) /\ Alive(you)
  BY <1>1, <1>2 DEF Duty, Serves, Alive
<1>6. Placed(v, c)
  <2>1. /\ me.state < READING => ~you.tcpquota
        /\ me.state < WORKING => ~you.recursionquota
    BY <1>1, RecParts DEF READING, WORKING
  <2> QED BY <1>1, <1>2, <2>1 DEF Placed
<1>7. Listed(v, c)
  BY <1>1, <1>2 DEF Listed
<1> QED BY <1>1, <1>3, <1>4, <1>5, <1>6, <1>7, FlowKeeps DEF Moves, Loose

LEMMA DetachTcpIs ==
    ASSUME NEW w, NEW c \in Clients, Loose(w, c)
    PROVE  LET v == detach_tcp(w, c) IN
           /\ Moves(w, v, c) /\ Loose(v, c) /\ v.mgr = w.mgr /\ v.ifp = w.ifp
           /\ Except(w.cl[c], v.cl[c], {"tcpquota"}) /\ ~v.cl[c].tcpquota
<1> DEFINE me == w.cl[c]
           you == [me EXCEPT !.tcpquota = FALSE]
           v == detach_tcp(w, c)
<1>1. /\ w \in Worlds /\ Global(w) /\ me \in Recs /\ Placed(w, c)
  BY RecOf DEF Loose, Global
<1>2. Except(me, you, {"tcpquota"}) /\ ~you.tcpquota
  BY <1>1 DEF Except, Fields, Recs
<1>3. CASE ~me.tcpquota
  <2>1. v = w
    BY <1>3 DEF detach_tcp
  <2> QED BY <1>1, <1>3, <2>1, MovesSame DEF Except
<1>4. CASE me.tcpquota
  <2> DEFINE uu == [w.used EXCEPT !["tcp"] = @ - 1]
  <2>1. /\ v.cl = [w.cl EXCEPT ![c] = you] /\ v.mgr = w.mgr /\ v.ifp = w.ifp /\ v.used = uu
    BY <1>1, <1>4 DEF detach_tcp, Worlds
  <2>2. /\ w.used["tcp"] \in Int /\ w.used["rec"] \in Int /\ uu["tcp"] = w.used["tcp"] - 1
        /\ uu["rec"] = w.used["rec"] /\ uu \in [{"tcp", "rec"} -> Int]
    BY <1>1 DEF Worlds
  <2> HIDE DEF you, uu, v
  <2>3. /\ v.cl[c] = you /\ \A x \in Clients : x # c => v.cl[x] = w.cl[x]
        /\ v.cl \in [Clients -> Recs]
    BY <1>1, <1>2, <2>1 DEF Worlds, Except
  <2>4. v \in Worlds
    <3>1. v.cl \in [Clients -> Recs] /\ v.mgr = w.mgr /\ v.ifp = w.ifp /\ v.used \in [{"tcp", "rec"} -> Int]
      BY <2>1, <2>2, <2>3
    <3> QED BY <1>1, <1>4, <3>1 DEF v, detach_tcp, Worlds
  <2>5. you.recursionquota = me.recursionquota
    BY <1>2 DEF Except, Fields
  <2>6. /\ v.used["tcp"] = w.used["tcp"] + Flag(you.tcpquota) - Flag(me.tcpquota)
        /\ v.used["rec"] = w.used["rec"] + Flag(you.recursionquota) - Flag(me.recursionquota)
    BY <1>2, <1>4, <2>1, <2>2, <2>5 DEF Flag
  <2>7. you.recursionquota => me.state >= WORKING
    BY <1>1, <2>5, RecParts DEF Placed, WORKING
  <2>8. Except(me, you, {"tcpquota", "recursionquota"})
    BY <1>2 DEF Except
  <2> QED BY <1>2, <2>1, <2>3, <2>4, <2>6, <2>7, <2>8, QuotaTweak DEF v
<1> QED BY <1>3, <1>4

LEMMA DetachRecIs ==
    ASSUME NEW w, NEW c \in Clients, Loose(w, c)
    PROVE  LET v == detach_rec(w, c) IN
           /\ Moves(w, v, c) /\ Loose(v, c) /\ v.mgr = w.mgr /\ v.ifp = w.ifp
           /\ Except(w.cl[c], v.cl[c], {"recursionquota"}) /\ ~v.cl[c].recursionquota
<1> DEFINE me == w.cl[c]
           you == [me EXCEPT !.recursionquota = FALSE]
           v == detach_rec(w, c)
<1>1. /\ w \in Worlds /\ Global(w) /\ me \in Recs /\ Placed(w, c)
  BY RecOf DEF Loose, Global
<1>2. Except(me, you, {"recursionquota"}) /\ ~you.recursionquota
  BY <1>1 DEF Except, Fields, Recs
<1>3. CASE ~me.recursionquota
  <2>1. v = w
    BY <1>3 DEF detach_rec
  <2> QED BY <1>1, <1>3, <2>1, MovesSame DEF Except
<1>4. CASE me.recursionquota
  <2> DEFINE uu == [w.used EXCEPT !["rec"] = @ - 1]
  <2>1. /\ v.cl = [w.cl EXCEPT ![c] = you] /\ v.mgr = w.mgr /\ v.ifp = w.ifp /\ v.used = uu
    BY <1>1, <1>4 DEF detach_rec, Worlds
  <2>2. /\ w.used["tcp"] \in Int /\ w.used["rec"] \in Int /\ uu["rec"] = w.used["rec"] - 1
        /\ uu["tcp"] = w.used["tcp"] /\ uu \in [{"tcp", "rec"} -> Int]
    BY <1>1 DEF Worlds
  <2> HIDE DEF you, uu, v
  <2>3. /\ v.cl[c] = you /\ \A x \in Clients : x # c => v.cl[x] = w.cl[x]
        /\ v.cl \in [Clients -> Recs]
    BY <1>1, <1>2, <2>1 DEF Worlds, Except
  <2>4. v \in Worlds
    <3>1. v.cl \in [Clients -> Recs] /\ v.mgr = w.mgr /\ v.ifp = w.ifp /\ v.used \in [{"tcp", "rec"} -> Int]
      BY <2>1, <2>2, <2>3
    <3> QED BY <1>1, <1>4, <3>1 DEF v, detach_rec, Worlds
  <2>5. you.tcpquota = me.tcpquota
    BY <1>2 DEF Except, Fields
  <2>6. /\ v.used["tcp"] = w.used["tcp"] + Flag(you.tcpquota) - Flag(me.tcpquota)
        /\ v.used["rec"] = w.used["rec"] + Flag(you.recursionquota) - Flag(me.recursionquota)
    BY <1>2, <1>4, <2>1, <2>2, <2>5 DEF Flag
  <2>7. you.tcpquota => me.state >= READING
    BY <1>1, <2>5, RecParts DEF Placed, READING
  <2>8. Except(me, you, {"tcpquota", "recursionquota"})
    BY <1>2 DEF Except
  <2> QED BY <1>2, <2>1, <2>3, <2>4, <2>6, <2>7, <2>8, QuotaTweak DEF v
<1> QED BY <1>3, <1>4

LEMMA AttachTcpIs ==
    ASSUME NEW w, NEW c \in Clients, Loose(w, c), ~w.cl[c].tcpquota, w.cl[c].state >= READING
    PROVE  LET v == attach_tcp(w, c) IN
           /\ Moves(w, v, c) /\ Loose(v, c) /\ v.mgr = w.mgr /\ v.ifp = w.ifp
           /\ Except(w.cl[c], v.cl[c], {"tcpquota"})
<1> DEFINE me == w.cl[c]
           you == [me EXCEPT !.tcpquota = TRUE]
           v == attach_tcp(w, c)
           uu == [w.used EXCEPT !["tcp"] = @ + 1]
<1>1. /\ w \in Worlds /\ Global(w) /\ me \in Recs /\ Placed(w, c)
  BY RecOf DEF Loose, Global
<1>2. Except(me, you, {"tcpquota"}) /\ you.tcpquota
  BY <1>1 DEF Except, Fields, Recs
<1>3. /\ v.cl = [w.cl EXCEPT ![c] = you] /\ v.mgr = w.mgr /\ v.ifp = w.ifp /\ v.used = uu
  BY <1>1 DEF attach_tcp, Worlds
<1>4. /\ w.used["tcp"] \in Int /\ w.used["rec"] \in Int /\ uu["tcp"] = w.used["tcp"] + 1
      /\ uu["rec"] = w.used["rec"] /\ uu \in [{"tcp", "rec"} -> Int]
  BY <1>1 DEF Worlds
<1> HIDE DEF you, uu, v
<1>5. /\ v.cl[c] = you /\ \A x \in Clients : x # c => v.cl[x] = w.cl[x]
      /\ v.cl \in [Clients -> Recs]
  BY <1>1, <1>2, <1>3 DEF Worlds, Except
<1>6. v \in Worlds
  <2>1. v.cl \in [Clients -> Recs] /\ v.mgr = w.mgr /\ v.ifp = w.ifp /\ v.used \in [{"tcp", "rec"} -> Int]
    BY <1>3, <1>4, <1>5
  <2> QED BY <1>1, <2>1 DEF v, attach_tcp, Worlds
<1>7. you.recursionquota = me.recursionquota
  BY <1>2 DEF Except, Fields
<1>8. /\ v.used["tcp"] = w.used["tcp"] + Flag(you.tcpquota) - Flag(me.tcpquota)
      /\ v.used["rec"] = w.used["rec"] + Flag(you.recursionquota) - Flag(me.recursionquota)
  BY <1>2, <1>3, <1>4, <1>7 DEF Flag
<1>9. you.recursionquota => me.state >= WORKING
  BY <1>1, <1>7, RecParts DEF Placed, WORKING
<1>10. Except(me, you, {"tcpquota", "recursionquota"})
  BY <1>2 DEF Except
<1> QED BY <1>2, <1>3, <1>5, <1>6, <1>8, <1>9, <1>10, QuotaTweak DEF v

LEMMA AttachRecIs ==
    ASSUME NEW w, NEW c \in Clients, Loose(w, c), ~w.cl[c].recursionquota, w.cl[c].state >= WORKING
    PROVE  LET v == attach_rec(w, c) IN
           /\ Moves(w, v, c) /\ Loose(v, c) /\ v.mgr = w.mgr /\ v.ifp = w.ifp
           /\ Except(w.cl[c], v.cl[c], {"recursionquota"})
<1> DEFINE me == w.cl[c]
           you == [me EXCEPT !.recursionquota = TRUE]
           v == attach_rec(w, c)
           uu == [w.used EXCEPT !["rec"] = @ + 1]
<1>1. /\ w \in Worlds /\ Global(w) /\ me \in Recs /\ Placed(w, c)
  BY RecOf DEF Loose, Global
<1>2. Except(me, you, {"recursionquota"}) /\ you.recursionquota
  BY <1>1 DEF Except, Fields, Recs
<1>3. /\ v.cl = [w.cl EXCEPT ![c] = you] /\ v.mgr = w.mgr /\ v.ifp = w.ifp /\ v.used = uu
  BY <1>1 DEF attach_rec, Worlds
<1>4. /\ w.used["tcp"] \in Int /\ w.used["rec"] \in Int /\ uu["rec"] = w.used["rec"] + 1
      /\ uu["tcp"] = w.used["tcp"] /\ uu \in [{"tcp", "rec"} -> Int]
  BY <1>1 DEF Worlds
<1> HIDE DEF you, uu, v
<1>5. /\ v.cl[c] = you /\ \A x \in Clients : x # c => v.cl[x] = w.cl[x]
      /\ v.cl \in [Clients -> Recs]
  BY <1>1, <1>2, <1>3 DEF Worlds, Except
<1>6. v \in Worlds
  <2>1. v.cl \in [Clients -> Recs] /\ v.mgr = w.mgr /\ v.ifp = w.ifp /\ v.used \in [{"tcp", "rec"} -> Int]
    BY <1>3, <1>4, <1>5
  <2> QED BY <1>1, <2>1 DEF v, attach_rec, Worlds
<1>7. you.tcpquota = me.tcpquota
  BY <1>2 DEF Except, Fields
<1>8. /\ v.used["tcp"] = w.used["tcp"] + Flag(you.tcpquota) - Flag(me.tcpquota)
      /\ v.used["rec"] = w.used["rec"] + Flag(you.recursionquota) - Flag(me.recursionquota)
  BY <1>2, <1>3, <1>4, <1>7 DEF Flag
<1>9. you.tcpquota => me.state >= READING
  BY <1>1, <1>7, RecParts DEF Placed, READING
<1>10. Except(me, you, {"tcpquota", "recursionquota"})
  BY <1>2 DEF Except
<1> QED BY <1>2, <1>3, <1>5, <1>6, <1>8, <1>9, <1>10, QuotaTweak DEF v

LEMMA BeginIs ==
    ASSUME NEW w, NEW c \in Clients, NEW k \in Works, Loose(w, c), k # "accept", w.cl[c].n[k] = 0
    PROVE  LET v == Begin(w, c, k) IN
           /\ Moves(w, v, c) /\ Loose(v, c) /\ v.mgr = w.mgr /\ v.ifp = w.ifp /\ v.used = w.used
           /\ Except(w.cl[c], v.cl[c], {"n"}) /\ v.cl[c].n = [w.cl[c].n EXCEPT ![k] = 1]
<1> DEFINE me == w.cl[c]
           nn == [me.n EXCEPT ![k] = 1]
           you == [me EXCEPT !.n = nn]
           v == Begin(w, c, k)
<1>1. /\ w \in Worlds /\ me \in Recs /\ Placed(w, c) /\ me.n \in [Works -> 0 .. 1]
  BY RecOf, RecParts DEF Loose, Global
<1>2. nn \in [Works -> 0 .. 1] /\ nn["accept"] = me.n["accept"] /\ \A j \in Works : me.n[j] = 1 => nn[j] = 1
  BY <1>1 DEF Works
<1>3. v = Put(w, c, you)
  <2>1. me.n[k] + 1 = 1
    OBVIOUS
  <2> QED BY <1>1, <2>1 DEF Begin, Put, Worlds
<1> HIDE DEF nn
<1>4. Except(me, you, {"n"}) /\ you.n = nn
  BY <1>1, <1>2 DEF Except, Fields, Recs
<1> HIDE DEF you, v
<1>5. Fits(me, you)
  <2>1. /\ you.state = me.state /\ you.newstate = me.newstate /\ you.canceled = me.canceled
        /\ you.timerset = me.timerset /\ you.references = me.references /\ you.fetch = me.fetch
        /\ you.victim = me.victim
    BY <1>4 DEF Except, Fields
  <2>2. Except(me, you, Private)
    BY <1>4 DEF Except, Private
  <2>3. \A j \in me.canceled : nn[j] = 1
    BY <1>1, <1>2, RecParts DEF Placed
  <2> QED BY <1>1, <1>4, <2>1, <2>2, <2>3 DEF Fits, Placed
<1>6. /\ Moves(w, v, c) /\ Loose(v, c) /\ v.cl[c] = you /\ v.mgr = w.mgr /\ v.ifp = w.ifp /\ v.used = w.used
  BY <1>2, <1>3, <1>4, <1>5, Tweak
<1> QED BY <1>4, <1>6 DEF v, nn

LEMMA EndedIs ==
    ASSUME NEW w, NEW c \in Clients, NEW k \in Works, Loose(w, c), k # "accept", w.cl[c].n[k] = 1
    PROVE  LET v == Ended(w, c, k) IN
           /\ Moves(w, v, c) /\ Loose(v, c) /\ v.mgr = w.mgr /\ v.ifp = w.ifp /\ v.used = w.used
           /\ Except(w.cl[c], v.cl[c], {"n", "canceled"})
           /\ v.cl[c].n = [w.cl[c].n EXCEPT ![k] = 0]
           /\ v.cl[c].canceled = w.cl[c].canceled \ {k}
<1> DEFINE me == w.cl[c]
           nn == [me.n EXCEPT ![k] = 0]
           you == [me EXCEPT !.n = nn, !.canceled = @ \ {k}]
           v == Ended(w, c, k)
<1>1. /\ w \in Worlds /\ me \in Recs /\ Placed(w, c) /\ me.n \in [Works -> 0 .. 1]
  BY RecOf, RecParts DEF Loose, Global
<1>2. nn \in [Works -> 0 .. 1] /\ nn["accept"] = me.n["accept"] /\ \A j \in Works : j # k => nn[j] = me.n[j]
  BY <1>1 DEF Works
<1>3. v = Put(w, c, you)
  <2>1. me.n[k] - 1 = 0
    OBVIOUS
  <2> QED BY <1>1, <2>1 DEF Ended, Put, Worlds
<1> HIDE DEF nn
<1>4. Except(me, you, {"n", "canceled"}) /\ you.n = nn /\ you.canceled = me.canceled \ {k}
  BY <1>1, <1>2 DEF Except, Fields, Recs
<1> HIDE DEF you, v
<1>5. Fits(me, you)
  <2>1. /\ you.state = me.state /\ you.newstate = me.newstate
        /\ you.timerset = me.timerset /\ you.references = me.references /\ you.fetch = me.fetch
        /\ you.victim = me.victim
    BY <1>4 DEF Except, Fields
  <2>2. Except(me, you, Private)
    BY <1>4 DEF Except, Private
  <2>3. \A j \in you.canceled : nn[j] = 1
    BY <1>1, <1>2, <1>4, RecParts DEF Placed
  <2> QED BY <1>1, <1>4, <2>1, <2>2, <2>3 DEF Fits, Placed
<1>6. /\ Moves(w, v, c) /\ Loose(v, c) /\ v.cl[c] = you /\ v.mgr = w.mgr /\ v.ifp = w.ifp /\ v.used = w.used
  BY <1>2, <1>3, <1>4, <1>5, Tweak
<1> QED BY <1>4, <1>6 DEF v, nn

\* The aim of c changes.
Aim(w, c, s) == [w EXCEPT !.cl[c].newstate = s]

LEMMA AimIs ==
    ASSUME NEW w, NEW c \in Clients, NEW s \in NewStates, Loose(w, c),
           s = FREED <=> w.cl[c].newstate = FREED, s = READING => w.cl[c].tcp
    PROVE  LET v == Aim(w, c, s) IN
           /\ Moves(w, v, c) /\ Loose(v, c) /\ v.mgr = w.mgr /\ v.ifp = w.ifp /\ v.used = w.used
           /\ Except(w.cl[c], v.cl[c], {"newstate"}) /\ v.cl[c].newstate = s
<1> DEFINE me == w.cl[c]
           you == [me EXCEPT !.newstate = s]
           v == Aim(w, c, s)
<1>1. /\ w \in Worlds /\ me \in Recs /\ Placed(w, c)
  BY RecOf DEF Loose, Global
<1>2. v = Put(w, c, you)
  BY <1>1 DEF Aim, Put, Worlds
<1>3. Except(me, you, {"newstate"}) /\ you.newstate = s
  BY <1>1 DEF Except, Fields, Recs
<1> HIDE DEF you, v
<1>4. Fits(me, you) /\ you.n = me.n
  <2>1. /\ you.state = me.state /\ you.canceled = me.canceled /\ you.n = me.n
        /\ you.timerset = me.timerset /\ you.references = me.references /\ you.fetch = me.fetch
        /\ you.victim = me.victim
    BY <1>3 DEF Except, Fields
  <2>2. Except(me, you, Private)
    BY <1>3 DEF Except, Private
  <2> QED BY <1>1, <1>3, <2>1, <2>2 DEF Fits, Placed
<1>5. /\ Moves(w, v, c) /\ Loose(v, c) /\ v.cl[c] = you /\ v.mgr = w.mgr /\ v.ifp = w.ifp /\ v.used = w.used
  BY <1>2, <1>4, Tweak
<1> QED BY <1>3, <1>5 DEF v

\* An interface with d accepting clients more.
More(f, d) == [f EXCEPT !.ntcpcurrent = @ + d]

LEMMA MoreIs ==
    ASSUME NEW f \in Ifps, NEW d \in Int
    PROVE  /\ More(f, d) \in Ifps /\ More(f, d).ntcpcurrent = f.ntcpcurrent + d
           /\ More(f, d).references = f.references /\ More(f, d).life = f.life
<1>1. /\ More(f, d).ntcpcurrent = f.ntcpcurrent + d
      /\ More(f, d).references = f.references /\ More(f, d).life = f.life
  BY DEF More, Ifps
<1>2. PICK r : r = f.ntcpcurrent + d
  OBVIOUS
<1>3. r \in Int
  BY <1>2 DEF Ifps
<1>4. More(f, d) = [f EXCEPT !.ntcpcurrent = r]
  BY <1>2 DEF More, Ifps
<1>5. More(f, d) \in Ifps
  BY <1>3, <1>4 DEF Ifps
<1> QED BY <1>1, <1>5

LEMMA ListenIs ==
    ASSUME NEW w, NEW c \in Clients, Loose(w, c), w.cl[c].state = READY, Nothing(w.cl[c].n)
    PROVE  LET v == Listen(w, c) IN
           /\ Moves(w, v, c) /\ Loose(v, c) /\ v.mgr = w.mgr /\ Except(w.cl[c], v.cl[c], {"n"})
           /\ Only(v.cl[c].n, IF w.cl[c].tcp THEN "accept" ELSE "recv")
<1> DEFINE me == w.cl[c]
           h == me.home
           v == Listen(w, c)
<1>1. /\ w \in Worlds /\ me \in Recs /\ Placed(w, c) /\ me.n \in [Works -> 0 .. 1]
      /\ \A k \in Works : me.n[k] = 0
  BY RecOf, RecParts DEF Loose, Global, Nothing
<1>2. CASE ~me.tcp
  <2>1. v = Begin(w, c, "recv")
    BY <1>2 DEF Listen, client_udprecv
  <2> HIDE DEF v
  <2>2. "recv" \in Works /\ me.n["recv"] = 0
    BY <1>1 DEF Works
  <2>3. /\ Moves(w, v, c) /\ Loose(v, c) /\ v.mgr = w.mgr /\ Except(me, v.cl[c], {"n"})
        /\ v.cl[c].n = [me.n EXCEPT !["recv"] = 1]
    BY <2>1, <2>2, BeginIs
  <2>4. Only(v.cl[c].n, "recv")
    BY <1>1, <2>3 DEF Only, Works
  <2> QED BY <1>2, <2>3, <2>4 DEF v
<1>3. CASE me.tcp
  <2> DEFINE nn == [me.n EXCEPT !["accept"] = 1]
             you == [me EXCEPT !.n = nn]
             f == More(w.ifp[h], 1)
  <2>1. /\ h \in Interfaces /\ me.interface = h /\ w.ifp[h] \in Ifps /\ w.ifp \in [Interfaces -> Ifps]
    BY <1>1 DEF Placed, READY, Worlds
  <2>2. v = [Begin(w, c, "accept") EXCEPT !.ifp[h].ntcpcurrent = @ + 1]
    BY <1>3, <2>1 DEF Listen, client_accept
  <2>3. me.n["accept"] = 0 /\ me.n["accept"] + 1 = 1
    BY <1>1 DEF Works
  <2>4. /\ v.cl = [w.cl EXCEPT ![c] = you] /\ v.mgr = w.mgr /\ v.used = w.used
        /\ v.ifp = [w.ifp EXCEPT ![h] = f]
    BY <1>1, <2>1, <2>2, <2>3 DEF Begin, Worlds, More
  <2>5. nn \in [Works -> 0 .. 1] /\ nn["accept"] = 1 /\ Only(nn, "accept")
    BY <1>1 DEF Works, Only
  <2> HIDE DEF nn
  <2>6. Except(me, you, {"n"}) /\ you.n = nn
    BY <1>1, <2>5 DEF Except, Fields, Recs
  <2>7. /\ f \in Ifps /\ f.ntcpcurrent = w.ifp[h].ntcpcurrent + 1
        /\ f.references = w.ifp[h].references /\ f.life = w.ifp[h].life
    BY <2>1, MoreIs
  <2> HIDE DEF you, v, f
  <2>8. /\ v.cl[c] = you /\ \A x \in Clients : x # c => v.cl[x] = w.cl[x]
        /\ v.cl \in [Clients -> Recs]
    BY <1>1, <2>4, <2>6 DEF Worlds, Except
  <2>9. /\ v.ifp[h] = f /\ \A i \in Interfaces : i # h => v.ifp[i] = w.ifp[i]
        /\ v.ifp \in [Interfaces -> Ifps]
    BY <2>1, <2>4, <2>7
  <2>10. v \in Worlds
    <3>1. v.cl \in [Clients -> Recs] /\ v.mgr = w.mgr /\ v.ifp \in [Interfaces -> Ifps] /\ v.used = w.used
      BY <2>4, <2>8, <2>9
    <3> QED BY <1>1, <2>2, <3>1 DEF Begin, Worlds
  <2>11. Fits(me, you)
    <3>1. /\ you.state = me.state /\ you.newstate = me.newstate /\ you.canceled = me.canceled
          /\ you.timerset = me.timerset /\ you.references = me.references /\ you.fetch = me.fetch
          /\ you.victim = me.victim
      BY <2>6 DEF Except, Fields
    <3>2. Except(me, you, Private)
      BY <2>6 DEF Except, Private
    <3>3. me.canceled = {}
      BY <1>1, RecParts DEF Placed
    <3> QED BY <1>1, <3>1, <3>2, <3>3 DEF Fits, Placed
  <2>12. ASSUME NEW i \in Interfaces
         PROVE  /\ v.ifp[i].ntcpcurrent = w.ifp[i].ntcpcurrent
                      + (IF i = h THEN you.n["accept"] - me.n["accept"] ELSE 0)
                /\ v.ifp[i].references = w.ifp[i].references /\ v.ifp[i].life = w.ifp[i].life
    <3>1. w.ifp[i].ntcpcurrent \in Int
      BY <2>1 DEF Ifps
    <3>2. you.n["accept"] - me.n["accept"] = 1
      BY <2>3, <2>5, <2>6
    <3> QED BY <2>7, <2>9, <3>1, <3>2
  <2>13. Moves(w, v, c) /\ Loose(v, c)
    <3>1. Fits(w.cl[c], v.cl[c]) /\ \A x \in Clients : x # c => v.cl[x] = w.cl[x]
      BY <2>8, <2>11
    <3>2. \A i \in Interfaces :
             /\ v.ifp[i].ntcpcurrent = w.ifp[i].ntcpcurrent
                   + (IF i = w.cl[c].home THEN v.cl[c].n["accept"] - w.cl[c].n["accept"] ELSE 0)
             /\ v.ifp[i].references = w.ifp[i].references /\ v.ifp[i].life = w.ifp[i].life
      BY <2>8, <2>12
    <3>3. v.mgr = w.mgr /\ v.used = w.used
      BY <2>4
    <3> QED BY <2>10, <3>1, <3>2, <3>3, AcceptTweak
  <2> QED BY <1>3, <2>4, <2>5, <2>6, <2>8, <2>13 DEF v
<1> QED BY <1>1, <1>2, <1>3, RecParts

\* A client that listens, or waits to be told to.
LEMMA ReadySettled ==
    ASSUME NEW w, NEW c \in Clients, Loose(w, c), w.cl[c].state = READY, w.cl[c].newstate \in {FREED, MAX},
           Only(w.cl[c].n, Expects(w.cl[c])), ~w.cl[c].mortal, w.cl[c].canceled # {} => w.cl[c].newstate = FREED,
           w.cl[c].newstate = FREED => w.cl[c].canceled # {} \/ w.cl[c].n["ctl"] = 1
    PROVE  Settled(w, c)
<1>1. /\ Alive(w.cl[c]) /\ Placed(w, c) /\ Listed(w, c)
  BY DEF Loose
<1>2. /\ w.cl[c].state # FREED /\ w.cl[c].state # INACTIVE /\ w.cl[c].state # READING
      /\ ~(w.cl[c].state >= WORKING)
  BY DEF FREED, INACTIVE, READY, READING, WORKING
<1>3. Waits(w.cl[c])
  BY <1>2 DEF Waits
<1> QED BY <1>1, <1>2, <1>3 DEF Settled

\* A client that waits for a message on its connection.
LEMMA ReadingSettled ==
    ASSUME NEW w, NEW c \in Clients, Loose(w, c), w.cl[c].state = READING, w.cl[c].tcp,
           Only(w.cl[c].n, "read"), w.cl[c].newstate \in {FREED, READY, READING, MAX},
           w.cl[c].canceled # {} <=> w.cl[c].newstate < READING
    PROVE  Settled(w, c)
<1>1. /\ Alive(w.cl[c]) /\ Placed(w, c) /\ Listed(w, c)
  BY DEF Loose
<1>2. /\ w.cl[c].state # FREED /\ w.cl[c].state # INACTIVE /\ w.cl[c].state # READY
      /\ ~(w.cl[c].state >= WORKING)
  BY DEF FREED, INACTIVE, READY, READING, WORKING
<1>3. Waits(w.cl[c])
  BY <1>2 DEF Waits
<1> QED BY <1>1, <1>2, <1>3 DEF Settled

\* A client has no connection any more.
Hung(w, c, m, s) ==
    [w EXCEPT !.cl[c].timerset = FALSE, !.cl[c].state = READY, !.cl[c].mortal = m, !.cl[c].newstate = s]

LEMMA HungIs ==
    ASSUME NEW w, NEW c \in Clients, NEW m \in BOOLEAN, NEW s \in NewStates,
           Loose(w, c), w.cl[c].state = READING, ~w.cl[c].tcpquota,
           m => w.cl[c].mortal, m # w.cl[c].mortal => w.cl[c].tcp,
           s = FREED <=> w.cl[c].newstate = FREED, s # READING
    PROVE  LET v == Hung(w, c, m, s) IN
           /\ Moves(w, v, c) /\ Loose(v, c) /\ v.mgr = w.mgr
           /\ Except(w.cl[c], v.cl[c], {"timerset", "state", "mortal", "newstate"})
           /\ v.cl[c].state = READY /\ v.cl[c].mortal = m /\ v.cl[c].newstate = s
<1> DEFINE me == w.cl[c]
           you == [me EXCEPT !.timerset = FALSE, !.state = READY, !.mortal = m, !.newstate = s]
           v == Hung(w, c, m, s)
<1>1. /\ w \in Worlds /\ Global(w) /\ me \in Recs /\ Placed(w, c) /\ Alive(me) /\ Listed(w, c)
  BY RecOf DEF Loose, Global
<1>2. v = Put(w, c, you)
  BY <1>1, ZenonT(60) DEF Hung, Put, Worlds
<1>3. /\ Except(me, you, {"timerset", "state", "mortal", "newstate"}) /\ ~you.timerset
      /\ you.state = READY /\ you.mortal = m /\ you.newstate = s
  <2>1. READY \in States
    BY DEF States, READY, FREED, RECURSING
  <2> QED BY <1>1, <2>1 DEF Except, Fields, Recs
<1> HIDE DEF you, v
<1>4. /\ you.home = me.home /\ you.interface = me.interface /\ you.n = me.n /\ you.task = me.task
      /\ you.tcp = me.tcp /\ you.canceled = me.canceled /\ you.references = me.references
      /\ you.fetch = me.fetch /\ you.victim = me.victim /\ you.tcpquota = me.tcpquota
      /\ you.recursionquota = me.recursionquota
  BY <1>3 DEF Except, Fields
<1>5. Entry(you) = Entry(me) /\ you \in Recs
  BY <1>3, <1>4 DEF Entry, Except
<1>6. v.cl[c] = you /\ v.mgr = w.mgr
  BY <1>1, <1>2, <1>5, PutIs
<1>7. Global(v) /\ Aside(w, v, c)
  BY <1>1, <1>2, <1>5, PutGlobal
<1>8. Alive(you) /\ Duty(me, you)
  <2>1. m = me.mortal \/ me.tcp
    OBVIOUS
  <2>2. me.mortal \in BOOLEAN /\ me.tcp \in BOOLEAN
    BY <1>1, RecParts
  <2> QED BY <1>1, <1>3, <1>4, <2>1, <2>2 DEF Alive, Duty, Serves
<1>9. Placed(v, c)
  <2>1. /\ me.state < WORKING /\ you.state >= READY /\ me.state >= READY
    BY <1>3 DEF READING, READY, WORKING
  <2> QED BY <1>1, <1>3, <1>4, <1>6, <2>1 DEF Placed
<1>10. Listed(v, c)
  BY <1>1, <1>6 DEF Listed, READING, INACTIVE, RECURSING
<1> QED BY <1>3, <1>6, <1>7, <1>8, <1>9, <1>10 DEF Moves, Loose, v

LEMMA LeaveReadingIs ==
    ASSUME NEW w, NEW c \in Clients, Loose(w, c), w.cl[c].state = READING,
           w.cl[c].newstate \in {FREED, READY},
           Nothing(w.cl[c].n) \/ (w.cl[c].tcp /\ Only(w.cl[c].n, "read"))
    PROVE  Moves(w, LeaveReading(w, c), c) /\ Settled(LeaveReading(w, c), c)
<1> DEFINE me == w.cl[c]
           v  == LeaveReading(w, c)
           m  == me.mortal /\ ~(me.tcp /\ w.ifp[me.interface].ntcpcurrent < ntcptarget)
           s  == IF m /\ me.newstate > INACTIVE THEN INACTIVE ELSE me.newstate
           u  == detach_tcp(w, c)
           w1 == Hung(u, c, m, s)
<1>1. /\ w \in Worlds /\ Global(w) /\ me \in Recs /\ Alive(me) /\ Placed(w, c) /\ Listed(w, c)
  BY RecOf DEF Loose, Global
<1>2. CASE ~Nothing(me.n)
  <2>1. me.tcp /\ Only(me.n, "read") /\ "read" \in Works /\ me.n["read"] = 1
    BY <1>2 DEF Only, Works
  <2>2. me.n["read"] > 0 /\ me.n["read"] # 0
    BY <2>1
  <2>3. v = Cancel(w, c, "read")
    BY <2>2, Zenon DEF LeaveReading
  <2> HIDE DEF v
  <2>4. /\ Moves(w, v, c) /\ Loose(v, c) /\ Except(me, v.cl[c], {"canceled"})
        /\ v.cl[c].canceled = me.canceled \cup {"read"}
    BY <2>1, <2>3, CancelIs
  <2>5. /\ v.cl[c].state = READING /\ v.cl[c].newstate = me.newstate /\ v.cl[c].n = me.n
        /\ v.cl[c].tcp = me.tcp /\ v.cl[c].canceled # {}
    BY <2>4 DEF Except, Fields
  <2>6. v.cl[c].newstate < READING
    BY <2>5 DEF FREED, READY, READING
  <2>7. Settled(v, c)
    BY <2>1, <2>4, <2>5, <2>6, ReadingSettled
  <2> QED BY <2>4, <2>7 DEF v
<1>3. CASE Nothing(me.n)
  <2>1. me.n["read"] = 0 /\ ~(me.n["read"] > 0)
    BY <1>3 DEF Nothing, Works
  <2>2. v = IF s = READY THEN Aim(Listen(w1, c), c, MAX) ELSE LeaveReady(w1, c)
    <3>1. v = CASE me.n["read"] > 0 -> Cancel(w, c, "read")
                [] me.n["read"] = 0 /\ s = READY -> Aim(Listen(w1, c), c, MAX)
                [] OTHER -> LeaveReady(w1, c)
      BY DEF LeaveReading, Hung, Aim
    <3> HIDE DEF v, s, w1
    <3> QED BY <2>1, <3>1
  <2>3. /\ m \in BOOLEAN /\ (m => me.mortal) /\ (m # me.mortal => me.tcp)
    BY <1>1, RecParts
  <2> HIDE DEF m
  <2>4. /\ s \in NewStates /\ (s = FREED <=> me.newstate = FREED) /\ s # READING
        /\ s \in {FREED, INACTIVE, READY} /\ (s = INACTIVE => m) /\ (s = READY => ~m)
    <3>1. me.newstate > INACTIVE <=> me.newstate = READY
      BY DEF FREED, INACTIVE, READY
    <3> QED BY <2>3, <3>1 DEF NewStates, FREED, INACTIVE, READY, READING
  <2> HIDE DEF s
  <2>5. /\ Moves(w, u, c) /\ Loose(u, c) /\ u.mgr = w.mgr
        /\ Except(me, u.cl[c], {"tcpquota"}) /\ ~u.cl[c].tcpquota
    BY DetachTcpIs
  <2> HIDE DEF u, v
  <2>6. /\ u.cl[c].state = READING /\ u.cl[c].newstate = me.newstate /\ u.cl[c].mortal = me.mortal
        /\ u.cl[c].tcp = me.tcp /\ u.cl[c].n = me.n /\ u.cl[c].canceled = me.canceled
    BY <2>5 DEF Except, Fields
  <2>7. /\ Moves(u, w1, c) /\ Loose(w1, c) /\ w1.mgr = u.mgr
        /\ Except(u.cl[c], w1.cl[c], {"timerset", "state", "mortal", "newstate"})
        /\ w1.cl[c].state = READY /\ w1.cl[c].mortal = m /\ w1.cl[c].newstate = s
    BY <2>3, <2>4, <2>5, <2>6, HungIs
  <2>8. Moves(w, w1, c)
    BY <2>5, <2>7, MovesTransitive
  <2> HIDE DEF w1
  <2>9. /\ w1.cl[c].n = me.n /\ w1.cl[c].tcp = me.tcp /\ w1.cl[c].canceled = me.canceled
    BY <2>6, <2>7 DEF Except, Fields
  <2>10. CASE s = READY
    <3> DEFINE l == Listen(w1, c)
               k == IF me.tcp THEN "accept" ELSE "recv"
    <3>1. /\ Moves(w1, l, c) /\ Loose(l, c) /\ l.mgr = w1.mgr /\ Except(w1.cl[c], l.cl[c], {"n"})
          /\ Only(l.cl[c].n, k)
      BY <1>3, <2>7, <2>9, ListenIs
    <3>2. /\ l.cl[c].newstate = s /\ l.cl[c].state = READY /\ l.cl[c].mortal = m
          /\ l.cl[c].tcp = me.tcp /\ l.cl[c].canceled = me.canceled
      BY <2>7, <2>9, <3>1 DEF Except, Fields
    <3> HIDE DEF l
    <3>3. MAX \in NewStates /\ MAX # FREED /\ MAX # READING /\ s # FREED
      BY <2>10 DEF NewStates, MAX, FREED, READING, READY
    <3>4. /\ Moves(l, v, c) /\ Loose(v, c) /\ Except(l.cl[c], v.cl[c], {"newstate"}) /\ v.cl[c].newstate = MAX
      <4>1. v = Aim(l, c, MAX)
        BY <2>2, <2>10 DEF l
      <4> QED BY <3>1, <3>2, <3>3, <4>1, AimIs
    <3>5. /\ v.cl[c].state = READY /\ ~v.cl[c].mortal /\ v.cl[c].tcp = me.tcp /\ v.cl[c].n = l.cl[c].n
          /\ v.cl[c].canceled = me.canceled
      BY <2>4, <2>10, <3>2, <3>4 DEF Except, Fields
    <3>6. me.canceled = {}
      BY <1>1, <1>3, RecParts DEF Placed, Nothing
    <3>7. Expects(v.cl[c]) = k
      <4>1. l.cl[c].n["ctl"] = 0
        BY <3>1 DEF Only, Works
      <4> QED BY <3>5, <4>1 DEF Expects
    <3>8. Settled(v, c)
      BY <3>1, <3>3, <3>4, <3>5, <3>6, <3>7, ReadySettled
    <3>9. Moves(w, v, c)
      BY <2>8, <3>1, <3>4, MovesTransitive
    <3> QED BY <3>8, <3>9 DEF v
  <2>11. CASE s # READY
    <3>1. v = LeaveReady(w1, c)
      BY <2>2, <2>11
    <3>2. Moves(w1, v, c) /\ Settled(v, c)
      BY <1>3, <2>4, <2>7, <2>9, <2>11, <3>1, LeaveReadyIs
    <3>3. Moves(w, v, c)
      BY <2>8, <3>2, MovesTransitive
    <3> QED BY <3>2, <3>3 DEF v
  <2> QED BY <2>10, <2>11
<1> QED BY <1>2, <1>3

\* c reads a message from its connection.
LEMMA ClientReadIs ==
    ASSUME NEW w, NEW c \in Clients, Loose(w, c), w.cl[c].state = READING, Nothing(w.cl[c].n),
           w.cl[c].tcp, w.cl[c].newstate # FREED
    PROVE  LET v == client_read(w, c) IN
           /\ Moves(w, v, c) /\ Loose(v, c) /\ v.mgr = w.mgr
           /\ Except(w.cl[c], v.cl[c], {"n", "newstate", "timerset"})
           /\ Only(v.cl[c].n, "read") /\ v.cl[c].newstate = READING
<1> DEFINE me == w.cl[c]
           b == Begin(w, c, "read")
           you == [b.cl[c] EXCEPT !.state = READING, !.newstate = READING, !.timerset = TRUE]
           v == client_read(w, c)
<1>1. /\ me \in Recs /\ Placed(w, c) /\ me.n \in [Works -> 0 .. 1] /\ \A k \in Works : me.n[k] = 0
  BY RecOf, RecParts DEF Loose, Global, Nothing
<1>2. "read" \in Works /\ me.n["read"] = 0
  BY <1>1 DEF Works
<1>3. /\ Moves(w, b, c) /\ Loose(b, c) /\ b.mgr = w.mgr
      /\ Except(me, b.cl[c], {"n"}) /\ b.cl[c].n = [me.n EXCEPT !["read"] = 1]
  BY <1>2, BeginIs
<1>4. Only(b.cl[c].n, "read")
  BY <1>1, <1>3 DEF Only, Works
<1>5. b \in Worlds /\ b.cl[c] \in Recs /\ Placed(b, c)
  BY <1>3, RecOf DEF Loose, Global
<1>6. v = Put(b, c, you)
  BY <1>5 DEF client_read, Put, Worlds
<1> HIDE DEF b
<1>7. /\ Except(b.cl[c], you, {"state", "newstate", "timerset"})
      /\ you.state = READING /\ you.newstate = READING
  <2>1. READING \in States /\ READING \in NewStates
    BY DEF States, NewStates, READING, FREED, RECURSING
  <2> QED BY <1>5, <2>1 DEF Except, Fields, Recs
<1> HIDE DEF you, v
<1>8. /\ b.cl[c].state = READING /\ b.cl[c].newstate = me.newstate /\ b.cl[c].tcp
  BY <1>3 DEF Except, Fields
<1>9. /\ you.n = b.cl[c].n /\ you.canceled = b.cl[c].canceled /\ you.references = b.cl[c].references
      /\ you.fetch = b.cl[c].fetch /\ you.victim = b.cl[c].victim
  BY <1>7 DEF Except, Fields
<1>10. Fits(b.cl[c], you)
  <2>1. Except(b.cl[c], you, Private)
    BY <1>7 DEF Except, Private
  <2>2. READING # FREED /\ ~(READING < READING) /\ READING < WORKING
    BY DEF READING, FREED, WORKING
  <2> QED BY <1>5, <1>7, <1>8, <1>9, <2>1, <2>2 DEF Fits, Placed
<1>11. Moves(b, v, c) /\ Loose(v, c) /\ v.cl[c] = you /\ v.mgr = b.mgr
  BY <1>3, <1>6, <1>9, <1>10, Tweak
<1>12. Moves(w, v, c)
  BY <1>3, <1>11, MovesTransitive
<1>13. Except(me, you, {"n", "newstate", "timerset"})
  BY <1>3, <1>7, <1>8 DEF Except, Fields
<1> QED BY <1>3, <1>4, <1>7, <1>9, <1>11, <1>12, <1>13 DEF v

\* The request of c is over.
Over(w, c) == [w EXCEPT !.cl[c].state = READING, !.mgr[w.cl[c].home].recursing = Without(@, {c})]

LEMMA OverIs ==
    ASSUME NEW w, NEW c \in Clients, Loose(w, c), w.cl[c].state >= WORKING, w.cl[c].references = 0,
           w.cl[c].fetch = "none", w.cl[c].victim = None, ~w.cl[c].recursionquota
    PROVE  LET v == Over(w, c) IN
           /\ Moves(w, v, c) /\ Loose(v, c) /\ Except(w.cl[c], v.cl[c], {"state"}) /\ v.cl[c].state = READING
<1> DEFINE me  == w.cl[c]
           h   == me.home
           you == [me EXCEPT !.state = READING]
           q   == Without(w.mgr[h].recursing, {c})
           m   == [w.mgr[h] EXCEPT !.recursing = q]
           v   == Over(w, c)
<1>1. /\ w \in Worlds /\ Global(w) /\ me \in Recs /\ Alive(me) /\ Placed(w, c) /\ Listed(w, c)
      /\ h \in Interfaces
  BY RecOf DEF Loose, Global, Placed
<1>2. w.mgr \in [Interfaces -> Mgrs] /\ w.mgr[h] \in Mgrs /\ w.mgr[h].recursing \in Seq(Clients)
  BY <1>1 DEF Worlds, Mgrs
<1>3. /\ v.cl = [w.cl EXCEPT ![c] = you] /\ v.ifp = w.ifp /\ v.used = w.used
      /\ v.mgr = [w.mgr EXCEPT ![h] = m]
  BY <1>1 DEF Over, Worlds
<1>4. Except(me, you, {"state"}) /\ you.state = READING
  <2>1. READING \in States
    BY DEF States, READING, FREED, RECURSING
  <2> QED BY <1>1, <2>1 DEF Except, Fields, Recs
<1>5. /\ q \in Seq(Clients)
      /\ \A x : x \in Range(q) <=> x \in Range(w.mgr[h].recursing) /\ x # c
  BY <1>2, WithoutIs
<1> HIDE DEF q
<1>6. /\ m \in Mgrs /\ m.recursing = q /\ m.inactive = w.mgr[h].inactive /\ m.life = w.mgr[h].life
      /\ m.clients = w.mgr[h].clients
  BY <1>2, <1>5 DEF Mgrs
<1> HIDE DEF you, m, v
<1>7. /\ v.cl[c] = you /\ \A x \in Clients : x # c => v.cl[x] = w.cl[x]
      /\ v.cl \in [Clients -> Recs]
  BY <1>1, <1>3, <1>4 DEF Worlds, Except
<1>8. /\ v.mgr[h] = m /\ \A i \in Interfaces : i # h => v.mgr[i] = w.mgr[i]
      /\ v.mgr \in [Interfaces -> Mgrs]
  BY <1>1, <1>2, <1>3, <1>6
<1>9. v \in Worlds
  <2>1. v.cl \in [Clients -> Recs] /\ v.mgr \in [Interfaces -> Mgrs] /\ v.ifp = w.ifp /\ v.used = w.used
    BY <1>3, <1>7, <1>8
  <2> QED BY <1>1, <2>1 DEF v, Over, Worlds
<1>10. Global(v)
  <2>1. Entry(you) = Entry(me)
    BY <1>4 DEF Entry, Except, Fields
  <2>2. \A i \in Interfaces : v.mgr[i].life = w.mgr[i].life /\ v.mgr[i].clients = w.mgr[i].clients
    BY <1>6, <1>8
  <2> QED BY <1>1, <1>3, <1>7, <1>9, <2>1, <2>2, SameBooks
<1>11. Aside(w, v, c)
  BY <1>5, <1>6, <1>7, <1>8 DEF Aside
<1>12. /\ you.home = h /\ you.task = me.task /\ you.canceled = me.canceled /\ you.interface = me.interface
       /\ you.n = me.n /\ you.tcpquota = me.tcpquota /\ you.timerset = me.timerset
       /\ you.references = me.references /\ you.tcp = me.tcp /\ you.mortal = me.mortal
       /\ you.fetch = me.fetch /\ you.recursionquota = me.recursionquota /\ you.victim = me.victim
       /\ you.newstate = me.newstate
  BY <1>4 DEF Except, Fields
<1>13. Duty(me, you) /\ Alive(you)
  BY <1>1, <1>12 DEF Duty, Serves, Alive
<1>14. me.state # INACTIVE /\ me.state >= READY /\ READING >= READY /\ ~(READING < READING)
  BY <1>1, RecParts DEF WORKING, INACTIVE, READY, READING
<1>15. Listed(v, c)
  <2>1. ASSUME NEW i \in Interfaces
        PROVE  c \notin Range(v.mgr[i].recursing) /\ c \notin Range(v.mgr[i].inactive)
    BY <1>1, <1>5, <1>6, <1>8, <1>14 DEF Listed
  <2> QED BY <2>1 DEF Listed
<1>16. Placed(v, c)
  BY <1>1, <1>4, <1>6, <1>7, <1>8, <1>12, <1>14 DEF Placed
<1> QED BY <1>4, <1>7, <1>10, <1>11, <1>13, <1>15, <1>16 DEF Moves, Loose, v

\* What is outstanding while a request is in work.
Engaged(me) ==
    /\ me.state >= WORKING
    /\ \A k \in {"accept", "recv", "read", "ctl"} : me.n[k] = 0
    /\ me.newstate # INACTIVE /\ (me.newstate = WORKING => me.state = WORKING)

\* A client that waits for what its request needs.
LEMMA EngagedSettled ==
    ASSUME NEW w, NEW c \in Clients, Loose(w, c), Engaged(w.cl[c]), Pending(w.cl[c]) = 1,
           w.cl[c].references = w.cl[c].n["update"] + Flag(w.cl[c].fetch # "none"),
           w.cl[c].victim # None => w.cl[c].state = WORKING /\ w.cl[c].newstate = WORKING
    PROVE  Settled(w, c)
<1>1. /\ w.cl[c] \in Recs /\ Alive(w.cl[c]) /\ Placed(w, c) /\ Listed(w, c)
  BY RecOf DEF Loose, Global
<1>2. /\ w.cl[c].state # FREED /\ w.cl[c].state # INACTIVE /\ w.cl[c].state # READY
      /\ w.cl[c].state # READING /\ w.cl[c].state >= WORKING
  BY <1>1, RecParts DEF Engaged, FREED, INACTIVE, READY, READING, WORKING
<1>3. Waits(w.cl[c])
  BY <1>2 DEF Waits, Engaged
<1> QED BY <1>1, <1>2, <1>3 DEF Settled

\* A request in work that something still refers to stays.
LEMMA LeaveRequestStays ==
    ASSUME NEW w, NEW c \in Clients, Loose(w, c), Engaged(w.cl[c]),
           w.cl[c].n["update"] = 1 \/ w.cl[c].references = 1 \/ w.cl[c].n["send"] = 1
    PROVE  LET v == LeaveRequest(w, c) IN
           /\ Moves(w, v, c) /\ Loose(v, c) /\ v.mgr = w.mgr /\ Except(w.cl[c], v.cl[c], {"canceled"})
           /\ w.cl[c].n["send"] = 0 => v = w
<1> DEFINE me == w.cl[c]
           v  == LeaveRequest(w, c)
<1>1. /\ w \in Worlds /\ Global(w) /\ me \in Recs /\ \A k \in Works : me.n[k] \in {0, 1}
      /\ me.references \in 0 .. 1
  BY RecOf, RecParts DEF Loose, Global
<1>2. me.n["recv"] = 0 /\ me.n["send"] \in {0, 1} /\ me.n["update"] \in {0, 1} /\ "send" \in Works
  BY <1>1 DEF Engaged, Works
<1>3. CASE me.n["update"] = 1
  <2>1. me.n["update"] > 0 /\ me.n["update"] # 0
    BY <1>3
  <2>2. v = w
    BY <2>1, Zenon DEF LeaveRequest
  <2> HIDE DEF v
  <2> QED BY <1>1, <2>2, MovesSame DEF Except, v
<1>4. CASE me.n["update"] = 0
  <2>1. Lingers(me) /\ ~(me.n["update"] > 0)
    BY <1>1, <1>2, <1>4 DEF Lingers
  <2>2. v = Cancel(w, c, "send")
    BY <1>4, <2>1, Zenon DEF LeaveRequest
  <2> HIDE DEF v
  <2>3. CASE me.n["send"] = 0
    <3>1. v = w
      BY <2>2, <2>3 DEF Cancel
    <3> QED BY <1>1, <3>1, MovesSame DEF Except, v
  <2>4. CASE me.n["send"] = 1
    <3>1. Moves(w, v, c) /\ Loose(v, c) /\ v.mgr = w.mgr /\ Except(me, v.cl[c], {"canceled"})
      BY <1>2, <2>2, <2>4, CancelIs
    <3> QED BY <2>4, <3>1 DEF v
  <2> QED BY <1>2, <2>3, <2>4
<1> QED BY <1>2, <1>3, <1>4

LEMMA LeaveRequestIs ==
    ASSUME NEW w, NEW c \in Clients, Loose(w, c), Engaged(w.cl[c]),
           w.cl[c].newstate \in {FREED, READY, READING}, w.cl[c].victim = None, Pending(w.cl[c]) \in {0, 1},
           w.cl[c].references = w.cl[c].n["update"] + Flag(w.cl[c].fetch # "none")
    PROVE  Moves(w, LeaveRequest(w, c), c) /\ Settled(LeaveRequest(w, c), c)
<1> DEFINE me == w.cl[c]
           v  == LeaveRequest(w, c)
           u  == detach_rec(w, c)
           w1 == [detach_rec(w, c) EXCEPT !.cl[c].state = READING, !.mgr[me.home].recursing = Without(@, {c})]
<1>1. /\ w \in Worlds /\ Global(w) /\ me \in Recs /\ Placed(w, c) /\ \A k \in Works : me.n[k] \in {0, 1}
  BY RecOf, RecParts DEF Loose, Global
<1>2. me.n["send"] \in {0, 1} /\ me.n["update"] \in {0, 1} /\ me.n["recv"] = 0
  BY <1>1 DEF Works, Engaged
<1>3. Flag(me.victim # None) = 0 /\ Flag(me.fetch # "none") \in {0, 1} /\ (Flag(me.fetch # "none") = 0 <=> me.fetch = "none")
  BY DEF Flag
<1>4. CASE Pending(me) = 1
  <2>1. me.n["update"] = 1 \/ me.references = 1 \/ me.n["send"] = 1
    BY <1>2, <1>3, <1>4 DEF Pending
  <2>2. Moves(w, v, c) /\ Loose(v, c) /\ Except(me, v.cl[c], {"canceled"})
    BY <2>1, LeaveRequestStays
  <2> HIDE DEF v
  <2>3. /\ v.cl[c].state = me.state /\ v.cl[c].newstate = me.newstate /\ v.cl[c].n = me.n
        /\ v.cl[c].references = me.references /\ v.cl[c].fetch = me.fetch /\ v.cl[c].victim = me.victim
    BY <2>2 DEF Except, Fields
  <2>4. Engaged(v.cl[c]) /\ Pending(v.cl[c]) = 1
    BY <1>4, <2>3 DEF Engaged, Pending
  <2>5. Settled(v, c)
    BY <2>2, <2>3, <2>4, EngagedSettled
  <2> QED BY <2>2, <2>5 DEF v
<1>5. CASE Pending(me) = 0
  <2>1. me.n["update"] = 0 /\ me.n["send"] = 0 /\ me.fetch = "none" /\ me.references = 0
    BY <1>2, <1>3, <1>5 DEF Pending
  <2>2. ~Lingers(me) /\ ~(me.n["update"] > 0)
    BY <1>2, <2>1 DEF Lingers
  <2>3. v = IF me.newstate = READING THEN Aim(client_read(w1, c), c, MAX) ELSE LeaveReading(w1, c)
    <3>1. v = CASE me.n["update"] > 0 -> w
                [] me.n["update"] = 0 /\ Lingers(me) -> Cancel(w, c, "send")
                [] OTHER -> IF me.newstate = READING THEN Aim(client_read(w1, c), c, MAX)
                                                     ELSE LeaveReading(w1, c)
      BY DEF LeaveRequest, Aim
    <3> HIDE DEF v, w1
    <3> QED BY <2>2, <3>1
  <2>4. Nothing(me.n)
    BY <2>1 DEF Nothing, Engaged, Works
  <2>5. /\ Moves(w, u, c) /\ Loose(u, c) /\ u.mgr = w.mgr
        /\ Except(me, u.cl[c], {"recursionquota"}) /\ ~u.cl[c].recursionquota
    BY DetachRecIs
  <2>6. /\ u.cl[c].state = me.state /\ u.cl[c].newstate = me.newstate /\ u.cl[c].n = me.n
        /\ u.cl[c].references = 0 /\ u.cl[c].fetch = "none" /\ u.cl[c].victim = None
        /\ u.cl[c].home = me.home
    BY <2>1, <2>5 DEF Except, Fields
  <2>7. w1 = Over(u, c)
    BY <2>6 DEF Over
  <2> HIDE DEF u, v, w1
  <2>8. /\ Moves(u, w1, c) /\ Loose(w1, c) /\ Except(u.cl[c], w1.cl[c], {"state"}) /\ w1.cl[c].state = READING
    BY <2>5, <2>6, <2>7, OverIs DEF Engaged
  <2>9. Moves(w, w1, c) /\ w1.cl[c].newstate = me.newstate /\ w1.cl[c].n = me.n
    BY <2>5, <2>6, <2>8, MovesTransitive DEF Except, Fields
  <2>10. CASE me.newstate = READING
    <3> DEFINE r == client_read(w1, c)
    <3>1. w1.cl[c].tcp /\ READING # FREED /\ w1.cl[c].canceled = {}
      <4>1. w1.cl[c] \in Recs /\ Placed(w1, c)
        BY <2>8, RecOf DEF Loose, Global
      <4> QED BY <2>4, <2>9, <2>10, <4>1, RecParts DEF Placed, Nothing, READING, FREED
    <3>2. /\ Moves(w1, r, c) /\ Loose(r, c) /\ Except(w1.cl[c], r.cl[c], {"n", "newstate", "timerset"})
          /\ Only(r.cl[c].n, "read") /\ r.cl[c].newstate = READING
      BY <2>4, <2>8, <2>9, <2>10, <3>1, ClientReadIs
    <3> HIDE DEF r
    <3>3. r.cl[c].tcp /\ r.cl[c].state = READING /\ r.cl[c].canceled = {}
      BY <2>8, <3>1, <3>2 DEF Except, Fields
    <3>4. MAX \in NewStates /\ MAX # FREED /\ MAX # READING /\ READING # FREED /\ ~(MAX < READING)
      BY DEF NewStates, MAX, FREED, READING
    <3>5. /\ Moves(r, v, c) /\ Loose(v, c) /\ Except(r.cl[c], v.cl[c], {"newstate"}) /\ v.cl[c].newstate = MAX
      <4>1. v = Aim(r, c, MAX)
        BY <2>3, <2>10 DEF r
      <4> QED BY <3>2, <3>4, <4>1, AimIs
    <3>6. /\ v.cl[c].tcp /\ v.cl[c].state = READING /\ v.cl[c].n = r.cl[c].n /\ v.cl[c].canceled = {}
      BY <3>3, <3>5 DEF Except, Fields
    <3>7. Settled(v, c)
      BY <3>2, <3>4, <3>5, <3>6, ReadingSettled
    <3>8. Moves(w, v, c)
      BY <2>9, <3>2, <3>5, MovesTransitive
    <3> QED BY <3>7, <3>8 DEF v
  <2>11. CASE me.newstate # READING
    <3>1. v = LeaveReading(w1, c)
      BY <2>3, <2>11
    <3>0. w1.cl[c].newstate \in {FREED, READY} /\ Nothing(w1.cl[c].n)
      BY <2>4, <2>9, <2>11
    <3>2. Moves(w1, v, c) /\ Settled(v, c)
      <4>1. Loose(w1, c) /\ w1.cl[c].state = READING
        BY <2>8
      <4>2. Moves(w1, LeaveReading(w1, c), c) /\ Settled(LeaveReading(w1, c), c)
        BY <3>0, <4>1, LeaveReadingIs
      <4> QED BY <3>1, <4>2
    <3>3. Moves(w, v, c)
      BY <2>9, <3>2, MovesTransitive
    <3> QED BY <3>2, <3>3 DEF v
  <2> QED BY <2>10, <2>11
<1> QED BY <1>4, <1>5

\* A client that is to leave its state, at exit_check().
Leaving(w, c) == LET me == w.cl[c] IN
    /\ me.state >= WORKING =>
          /\ Engaged(me) /\ me.newstate \in {FREED, READY, READING} /\ me.victim = None
          /\ Pending(me) \in {0, 1} /\ me.references = me.n["update"] + Flag(me.fetch # "none")
    /\ me.state = READING =>
          me.newstate \in {FREED, READY} /\ (Nothing(me.n) \/ (me.tcp /\ Only(me.n, "read")))
    /\ me.state = READY =>
          me.newstate = FREED /\ (Nothing(me.n) \/ (~me.mortal /\ Only(me.n, Expects(me))))
    /\ me.state = INACTIVE =>
          me.newstate = FREED /\ \A i \in Interfaces : c \notin Range(w.mgr[i].inactive)

LEMMA ExitCheckIs ==
    ASSUME NEW w, NEW c \in Clients, Loose(w, c), Exits(w, c), Leaving(w, c)
    PROVE  Moves(w, exit_check(w, c), c) /\ Settled(exit_check(w, c), c)
<1> DEFINE me == w.cl[c]
           v  == exit_check(w, c)
<1>1. /\ me \in Recs /\ me.state \in 0 .. 5 /\ me.newstate \in {0, 1, 2, 3, 4, 5, 9}
  BY RecOf, RecParts DEF Loose, Global
<1>2. CASE me.state >= WORKING
  <2>1. v = LeaveRequest(w, c)
    <3>1. me.state # READING /\ me.state # READY
      BY <1>2 DEF WORKING, READING, READY
    <3> QED BY <1>2, <3>1, Zenon DEF exit_check
  <2> HIDE DEF v
  <2>2. Moves(w, v, c) /\ Settled(v, c)
    BY <1>2, <2>1, LeaveRequestIs DEF Leaving
  <2> QED BY <2>2 DEF v
<1>3. CASE me.state = READING
  <2>1. v = LeaveReading(w, c)
    <3>1. ~(me.state >= WORKING) /\ me.state # READY
      BY <1>3 DEF WORKING, READING, READY
    <3> QED BY <1>3, <3>1, Zenon DEF exit_check
  <2> HIDE DEF v
  <2>2. Moves(w, v, c) /\ Settled(v, c)
    BY <1>3, <2>1, LeaveReadingIs DEF Leaving
  <2> QED BY <2>2 DEF v
<1>4. CASE me.state = READY
  <2>1. v = LeaveReady(w, c)
    <3>1. ~(me.state >= WORKING) /\ me.state # READING
      BY <1>4 DEF WORKING, READING, READY
    <3> QED BY <1>4, <3>1, Zenon DEF exit_check
  <2> HIDE DEF v
  <2>2. me.newstate = FREED /\ FREED # INACTIVE /\ (Nothing(me.n) \/ (~me.mortal /\ Only(me.n, Expects(me))))
    BY <1>4 DEF Leaving, FREED, INACTIVE
  <2>3. Moves(w, v, c) /\ Settled(v, c)
    BY <1>4, <2>1, <2>2, LeaveReadyIs
  <2> QED BY <2>3 DEF v
<1>5. CASE me.state = INACTIVE
  <2>1. v = FreeClient(w, c)
    <3>1. ~(me.state >= WORKING) /\ me.state # READING /\ me.state # READY
      BY <1>5 DEF WORKING, READING, READY, INACTIVE
    <3> QED BY <3>1, Zenon DEF exit_check
  <2> HIDE DEF v
  <2>2. Moves(w, v, c) /\ Settled(v, c)
    BY <1>5, <2>1, FreeIs DEF Leaving
  <2> QED BY <2>2 DEF v
<1>6. me.state >= WORKING \/ me.state \in {READING, READY, INACTIVE}
  BY <1>1 DEF Exits, WORKING, READING, READY, INACTIVE
<1> QED BY <1>2, <1>3, <1>4, <1>5, <1>6

\* A client that need not leave.
LEMMA ExitCheckStays ==
    ASSUME NEW w, NEW c, ~Exits(w, c)
    PROVE  exit_check(w, c) = w
  BY Zenon DEF exit_check

-----------------------------------------------------------------------------
(* Answers *)

LEMMA GoodBusy ==
    ASSUME NEW w, NEW c \in Clients, Good(w), Alive(w.cl[c])
    PROVE  Busy(w, c) /\ Waits(w.cl[c])
  BY DEF Good, Busy, Loose, Settled

\* A handler of c goes on in another world.
LEMMA StaysBusy ==
    ASSUME NEW w, NEW v, NEW c \in Clients, Busy(w, c), Moves(w, v, c), Loose(v, c)
    PROVE  Busy(v, c)
  BY GoesOn DEF Loose

\* exit_check() of a client with a request.
LEMMA CheckIs ==
    ASSUME NEW w, NEW c \in Clients, Busy(w, c), Engaged(w.cl[c]), w.cl[c].victim = None,
           Pending(w.cl[c]) \in {0, 1}, Pending(w.cl[c]) = 0 => Exits(w, c),
           w.cl[c].references = w.cl[c].n["update"] + Flag(w.cl[c].fetch # "none")
    PROVE  Good(exit_check(w, c))
<1> DEFINE me == w.cl[c]
<1>1. Loose(w, c) /\ me \in Recs /\ me.state \in 0 .. 5 /\ me.newstate \in {0, 1, 2, 3, 4, 5, 9}
  BY RecOf, RecParts DEF Busy, Loose, Global
<1>2. CASE Exits(w, c)
  <2>1. me.newstate \in {FREED, READY, READING} /\ me.state # READING /\ me.state # READY /\ me.state # INACTIVE
    BY <1>1, <1>2 DEF Exits, Engaged, FREED, INACTIVE, READY, READING, WORKING, RECURSING
  <2>2. Leaving(w, c)
    BY <2>1 DEF Leaving
  <2>3. Moves(w, exit_check(w, c), c) /\ Settled(exit_check(w, c), c)
    BY <1>1, <1>2, <2>2, ExitCheckIs
  <2> QED BY <2>3, Finish
<1>3. CASE ~Exits(w, c)
  <2>1. Settled(w, c)
    BY <1>1, <1>3, EngagedSettled
  <2>2. exit_check(w, c) = w /\ Moves(w, w, c)
    BY <1>1, <1>3, ExitCheckStays, MovesSame DEF Loose
  <2> QED BY <2>1, <2>2, Finish
<1> QED BY <1>2, <1>3

\* ns_client_next() up to exit_check().
LEMMA NextAims ==
    ASSUME NEW w, NEW c \in Clients, NEW b, Busy(w, c), Engaged(w.cl[c])
    PROVE  \E u : /\ ns_client_next(w, c, b) = exit_check(u, c)
                  /\ Busy(u, c) /\ u.mgr = w.mgr /\ Engaged(u.cl[c]) /\ Except(w.cl[c], u.cl[c], {"newstate"})
                  /\ Exits(u, c)
<1> DEFINE me == w.cl[c]
           t == IF b /\ me.tcp THEN READING ELSE READY
           s == Lower(me.newstate, t)
           u == Aim(w, c, s)
<1>1. Loose(w, c) /\ w \in Worlds /\ me \in Recs /\ me.state \in 0 .. 5 /\ me.newstate \in {0, 1, 2, 3, 4, 5, 9} /\ Placed(w, c)
  BY RecOf, RecParts DEF Busy, Loose, Global
<1>2. ns_client_next(w, c, b) = exit_check(u, c)
  <2>1. u = [w EXCEPT !.cl[c].newstate = Lower(@, t)]
    BY <1>1 DEF Aim, Worlds
  <2> HIDE DEF u
  <2> QED BY <2>1 DEF ns_client_next
<1>3. t \in {READING, READY} /\ (t = READING => me.tcp)
  BY DEF READY, READING
<1> HIDE DEF t
<1>4. /\ s \in NewStates /\ (s = FREED <=> me.newstate = FREED) /\ (s = READING => me.tcp)
      /\ s \in {FREED, READY, READING}
  <2>1. me.newstate = READING => me.tcp
    BY <1>1 DEF Placed
  <2> QED BY <1>1, <1>3, <2>1 DEF Lower, NewStates, Engaged, FREED, INACTIVE, READY, READING, WORKING, RECURSING, MAX
<1> HIDE DEF s
<1>5. /\ Moves(w, u, c) /\ Loose(u, c) /\ u.mgr = w.mgr
      /\ Except(me, u.cl[c], {"newstate"}) /\ u.cl[c].newstate = s
  BY <1>1, <1>4, AimIs
<1> HIDE DEF u
<1>6. Busy(u, c)
  BY <1>5, StaysBusy
<1>7. u.cl[c].state = me.state /\ u.cl[c].n = me.n
  BY <1>5 DEF Except, Fields
<1>8. Engaged(u.cl[c]) /\ Exits(u, c)
  BY <1>1, <1>4, <1>5, <1>7 DEF Engaged, Exits, FREED, INACTIVE, READY, READING, WORKING
<1> QED BY <1>2, <1>5, <1>6, <1>8

LEMMA NextGood ==
    ASSUME NEW w, NEW c \in Clients, NEW b, Busy(w, c), Engaged(w.cl[c]), w.cl[c].victim = None,
           Pending(w.cl[c]) \in {0, 1},
           w.cl[c].references = w.cl[c].n["update"] + Flag(w.cl[c].fetch # "none")
    PROVE  Good(ns_client_next(w, c, b))
<1>1. PICK u : /\ ns_client_next(w, c, b) = exit_check(u, c)
               /\ Busy(u, c) /\ Engaged(u.cl[c]) /\ Except(w.cl[c], u.cl[c], {"newstate"})
               /\ Exits(u, c)
  BY NextAims
<1>2. /\ u.cl[c].n = w.cl[c].n /\ u.cl[c].victim = w.cl[c].victim /\ u.cl[c].fetch = w.cl[c].fetch
      /\ u.cl[c].references = w.cl[c].references
  BY <1>1 DEF Except, Fields
<1>3. Pending(u.cl[c]) = Pending(w.cl[c])
  BY <1>2 DEF Pending
<1> QED BY <1>1, <1>2, <1>3, CheckIs

\* A response is being sent.
LEMMA QueuedIs ==
    ASSUME NEW w, NEW c \in Clients, Busy(w, c), Engaged(w.cl[c]), w.cl[c].victim = None, Pending(w.cl[c]) = 0
    PROVE  LET v == Begin(w, c, "send") IN
           /\ Moves(w, v, c) /\ Busy(v, c) /\ Engaged(v.cl[c]) /\ Except(w.cl[c], v.cl[c], {"n"})
           /\ Pending(v.cl[c]) = 1 /\ v.cl[c].n["update"] = w.cl[c].n["update"]
<1> DEFINE me == w.cl[c]
           v == Begin(w, c, "send")
<1>1. Loose(w, c) /\ me \in Recs /\ me.n \in [Works -> 0 .. 1] /\ \A k \in Works : me.n[k] \in {0, 1}
  BY RecOf, RecParts DEF Busy, Loose, Global
<1>2. "send" \in Works /\ me.n["send"] = 0 /\ me.n["update"] = 0 /\ Flag(me.fetch # "none") = 0 /\ Flag(me.victim # None) = 0
  <2>1. /\ "send" \in Works /\ me.n["send"] \in {0, 1} /\ me.n["update"] \in {0, 1}
        /\ Flag(me.fetch # "none") \in {0, 1} /\ Flag(me.victim # None) = 0
    BY <1>1 DEF Works, Flag
  <2> QED BY <2>1 DEF Pending
<1>3. /\ Moves(w, v, c) /\ Loose(v, c) /\ Except(me, v.cl[c], {"n"}) /\ v.cl[c].n = [me.n EXCEPT !["send"] = 1]
  BY <1>1, <1>2, BeginIs
<1> HIDE DEF v
<1>4. Busy(v, c)
  BY <1>3, StaysBusy
<1>5. /\ v.cl[c].state = me.state /\ v.cl[c].newstate = me.newstate /\ v.cl[c].fetch = me.fetch
      /\ v.cl[c].victim = me.victim
  BY <1>3 DEF Except, Fields
<1>6. v.cl[c].n["send"] = 1 /\ \A k \in Works : k # "send" => v.cl[c].n[k] = me.n[k]
  BY <1>1, <1>2, <1>3
<1>7. Engaged(v.cl[c])
  BY <1>5, <1>6 DEF Engaged, Works
<1>8. v.cl[c].n["update"] = me.n["update"]
  BY <1>6 DEF Works
<1>9. Pending(v.cl[c]) = 1
  BY <1>2, <1>5, <1>6, <1>8 DEF Pending
<1> QED BY <1>3, <1>4, <1>7, <1>8, <1>9 DEF v

LEMMA SendGood ==
    ASSUME NEW w, NEW c \in Clients, NEW how \in Sendings, Busy(w, c), Engaged(w.cl[c]),
           w.cl[c].victim = None, Pending(w.cl[c]) = 0, w.cl[c].references = 0
    PROVE  Good(ns_client_send(w, c, how))
<1> DEFINE me == w.cl[c]
<1>1. Loose(w, c) /\ me \in Recs /\ \A k \in Works : me.n[k] \in {0, 1}
  BY RecOf, RecParts DEF Busy, Loose, Global
<1>2. me.n["update"] = 0 /\ Flag(me.fetch # "none") = 0 /\ me.references = me.n["update"] + Flag(me.fetch # "none")
  <2>1. me.n["send"] \in {0, 1} /\ me.n["update"] \in {0, 1} /\ Flag(me.fetch # "none") \in {0, 1} /\ Flag(me.victim # None) = 0
    BY <1>1 DEF Works, Flag
  <2> QED BY <2>1 DEF Pending
<1>3. CASE how = "sent"
  <2>1. ns_client_send(w, c, how) = ns_client_next(w, c, TRUE)
    BY <1>3 DEF ns_client_send
  <2> QED BY <1>2, <2>1, NextGood
<1>4. CASE how = "failed"
  <2>1. ns_client_send(w, c, how) = ns_client_next(w, c, FALSE)
    BY <1>4 DEF ns_client_send
  <2> QED BY <1>2, <2>1, NextGood
<1>5. CASE how = "queued"
  <2> DEFINE v == Begin(w, c, "send")
  <2>1. ns_client_send(w, c, how) = v
    BY <1>5 DEF ns_client_send
  <2>2. /\ Moves(w, v, c) /\ Busy(v, c) /\ Engaged(v.cl[c]) /\ Except(me, v.cl[c], {"n"})
        /\ Pending(v.cl[c]) = 1 /\ v.cl[c].n["update"] = me.n["update"]
    BY QueuedIs
  <2> HIDE DEF v
  <2>3. v.cl[c].references = me.references /\ v.cl[c].fetch = me.fetch /\ v.cl[c].victim = None
    BY <2>2 DEF Except, Fields
  <2>4. Settled(v, c)
    BY <1>2, <2>2, <2>3, EngagedSettled DEF Busy
  <2> QED BY <2>1, <2>2, <2>4, Finish
<1> QED BY <1>3, <1>4, <1>5 DEF Sendings

\* c loses the reference of its fetch or update.
LEMMA DetachGood ==
    ASSUME NEW u, NEW c \in Clients, Busy(u, c), Engaged(u.cl[c]), u.cl[c].victim = None,
           Pending(u.cl[c]) \in {0, 1}, Pending(u.cl[c]) = 0 => Exits(u, c), u.cl[c].references = 1,
           u.cl[c].n["update"] = 0, u.cl[c].fetch = "none"
    PROVE  Good(ns_client_detach(u, c))
<1> DEFINE me == u.cl[c]
           you == [me EXCEPT !.references = 0]
           v == [u EXCEPT !.cl[c].references = @ - 1]
<1>1. Loose(u, c) /\ u \in Worlds /\ me \in Recs /\ Placed(u, c) /\ me.state \in 0 .. 5
  BY RecOf, RecParts DEF Busy, Loose, Global
<1>2. ns_client_detach(u, c) = exit_check(v, c)
  BY DEF ns_client_detach
<1>3. v = Put(u, c, you)
  <2>1. me.references - 1 = 0
    OBVIOUS
  <2> QED BY <1>1, <2>1 DEF Put, Worlds
<1>4. Except(me, you, {"references"}) /\ you.references = 0
  BY <1>1 DEF Except, Fields, Recs
<1> HIDE DEF you, v
<1>5. /\ you.state = me.state /\ you.newstate = me.newstate /\ you.canceled = me.canceled /\ you.n = me.n
      /\ you.timerset = me.timerset /\ you.fetch = me.fetch /\ you.victim = me.victim
  BY <1>4 DEF Except, Fields
<1>6. Fits(me, you)
  <2>1. Except(me, you, Private)
    BY <1>4 DEF Except, Private
  <2>2. ~(me.state < WORKING)
    BY <1>1 DEF Engaged, WORKING
  <2> QED BY <1>1, <1>4, <1>5, <2>1, <2>2 DEF Fits, Placed
<1>7. Moves(u, v, c) /\ Loose(v, c) /\ v.cl[c] = you
  BY <1>1, <1>3, <1>5, <1>6, Tweak
<1>8. Busy(v, c)
  BY <1>7, StaysBusy
<1>9. Engaged(you) /\ Pending(you) = Pending(me) /\ (Exits(v, c) <=> Exits(u, c))
  BY <1>5, <1>7 DEF Engaged, Pending, Exits
<1>10. you.references = you.n["update"] + Flag(you.fetch # "none")
  BY <1>4, <1>5 DEF Flag
<1> QED BY <1>2, <1>5, <1>7, <1>8, <1>9, <1>10, CheckIs

\* A response is sent while the client still has that reference.
LEMMA SendHeld ==
    ASSUME NEW w, NEW c \in Clients, NEW how \in Sendings, Busy(w, c), Engaged(w.cl[c]),
           w.cl[c].victim = None, Pending(w.cl[c]) = 0, w.cl[c].references = 1
    PROVE  /\ Good(ns_client_detach(ns_client_send(w, c, how), c))
           /\ Good(ns_client_detach(ns_client_next(w, c, FALSE), c))
<1> DEFINE me == w.cl[c]
<1>1. Loose(w, c) /\ me \in Recs /\ \A k \in Works : me.n[k] \in {0, 1}
  BY RecOf, RecParts DEF Busy, Loose, Global
<1>2. me.n["update"] = 0 /\ me.n["send"] = 0 /\ me.fetch = "none"
  <2>1. /\ me.n["send"] \in {0, 1} /\ me.n["update"] \in {0, 1} /\ Flag(me.fetch # "none") \in {0, 1}
        /\ Flag(me.victim # None) = 0 /\ (Flag(me.fetch # "none") = 0 => me.fetch = "none")
    BY <1>1 DEF Works, Flag
  <2> QED BY <2>1 DEF Pending
<1>3. ASSUME NEW b PROVE Good(ns_client_detach(ns_client_next(w, c, b), c))
  <2>1. PICK u : /\ ns_client_next(w, c, b) = exit_check(u, c)
                 /\ Busy(u, c) /\ Engaged(u.cl[c]) /\ Except(w.cl[c], u.cl[c], {"newstate"})
                 /\ Exits(u, c)
    BY NextAims
  <2>2. /\ u.cl[c].n = me.n /\ u.cl[c].victim = None /\ u.cl[c].fetch = "none" /\ u.cl[c].references = 1
    BY <1>2, <2>1 DEF Except, Fields
  <2>3. exit_check(u, c) = u
    <3>1. u.cl[c].state >= WORKING /\ u.cl[c].state # READING /\ u.cl[c].state # READY
      <4>1. u.cl[c].state \in 0 .. 5
        BY <2>1, RecOf, RecParts DEF Busy, Loose, Global
      <4> QED BY <2>1, <4>1 DEF Engaged, WORKING, READING, READY
    <3>2. exit_check(u, c) = LeaveRequest(u, c)
      BY <2>1, <3>1, Zenon DEF exit_check
    <3>3. LeaveRequest(u, c) = u
      BY <1>2, <2>1, <2>2, LeaveRequestStays DEF Busy
    <3> QED BY <3>2, <3>3
  <2>4. Pending(u.cl[c]) = 0
    BY <1>2, <2>2 DEF Pending, Flag
  <2>5. Good(ns_client_detach(u, c))
    BY <1>2, <2>1, <2>2, <2>4, DetachGood
  <2> QED BY <2>1, <2>3, <2>5
<1>4. CASE how = "sent"
  <2>1. ns_client_send(w, c, how) = ns_client_next(w, c, TRUE)
    BY <1>4 DEF ns_client_send
  <2> QED BY <1>3, <2>1
<1>5. CASE how = "failed"
  <2>1. ns_client_send(w, c, how) = ns_client_next(w, c, FALSE)
    BY <1>5 DEF ns_client_send
  <2> QED BY <1>3, <2>1
<1>6. CASE how = "queued"
  <2> DEFINE v == Begin(w, c, "send")
  <2>1. ns_client_send(w, c, how) = v
    BY <1>6 DEF ns_client_send
  <2>2. /\ Busy(v, c) /\ Engaged(v.cl[c]) /\ Except(me, v.cl[c], {"n"})
        /\ Pending(v.cl[c]) = 1 /\ v.cl[c].n["update"] = me.n["update"]
    BY QueuedIs
  <2> HIDE DEF v
  <2>3. v.cl[c].references = 1 /\ v.cl[c].fetch = "none" /\ v.cl[c].victim = None
    BY <1>2, <2>2 DEF Except, Fields
  <2>4. Good(ns_client_detach(v, c))
    BY <1>2, <2>2, <2>3, DetachGood
  <2> QED BY <1>3, <2>1, <2>4
<1> QED BY <1>3, <1>4, <1>5, <1>6 DEF Sendings

-----------------------------------------------------------------------------
(* New clients *)

Fresh(i, tcp) ==
    [NoClient EXCEPT !.task = "up", !.home = i, !.interface = i, !.state = READY, !.tcp = tcp, !.n["ctl"] = 1]

LEMMA FreshIs ==
    ASSUME NEW i \in Interfaces, NEW tcp \in BOOLEAN
    PROVE  LET x == Fresh(i, tcp) IN
           /\ x \in Recs /\ x.state = READY /\ x.newstate = MAX /\ x.task = "up" /\ x.home = i
           /\ x.interface = i /\ x.tcp = tcp /\ ~x.mortal /\ Only(x.n, "ctl") /\ x.canceled = {}
           /\ x.references = 0 /\ x.fetch = "none" /\ ~x.timerset /\ ~x.tcpquota
           /\ ~x.recursionquota /\ x.victim = None
<1> DEFINE x  == Fresh(i, tcp)
           nn == [NoClient.n EXCEPT !["ctl"] = 1]
<1>1. x = [NoClient EXCEPT !.task = "up", !.home = i, !.interface = i, !.state = READY, !.tcp = tcp, !.n = nn]
  BY DEF Fresh, NoClient
<1>2. NoClient.n = [k \in Works |-> 0]
  BY DEF NoClient
<1>3. nn \in [Works -> 0 .. 1] /\ Only(nn, "ctl")
  BY <1>2 DEF Only, Works
<1>4. READY \in States /\ i \in Homes
  BY DEF States, Homes, READY, FREED, RECURSING
<1> HIDE DEF nn, x
<1>5. x \in Recs /\ x.n = nn
  BY <1>1, <1>3, <1>4, NoClientIs DEF Recs
<1>6. /\ x.state = READY /\ x.newstate = MAX /\ x.task = "up" /\ x.home = i
      /\ x.interface = i /\ x.tcp = tcp /\ ~x.mortal /\ x.canceled = {}
      /\ x.references = 0 /\ x.fetch = "none" /\ ~x.timerset /\ ~x.tcpquota
      /\ ~x.recursionquota /\ x.victim = None
  BY <1>1 DEF NoClient
<1> QED BY <1>3, <1>5, <1>6 DEF x

\* An interface with one user more.
Plus(f) == [f EXCEPT !.references = @ + 1]

LEMMA PlusIs ==
    ASSUME NEW f \in Ifps
    PROVE  /\ Plus(f) \in Ifps /\ Plus(f).references = f.references + 1
           /\ Plus(f).ntcpcurrent = f.ntcpcurrent /\ Plus(f).life = f.life
<1>1. /\ Plus(f).references = f.references + 1
      /\ Plus(f).ntcpcurrent = f.ntcpcurrent /\ Plus(f).life = f.life
  BY DEF Plus, Ifps
<1>2. PICK r : r = f.references + 1
  OBVIOUS
<1>3. r \in Int
  BY <1>2 DEF Ifps
<1>4. Plus(f) = [f EXCEPT !.references = r]
  BY <1>2 DEF Plus, Ifps
<1>5. Plus(f) \in Ifps
  BY <1>3, <1>4 DEF Ifps
<1> QED BY <1>1, <1>5

\* The client that get_client() takes.
Taken(w, i) == IF w.mgr[i].inactive # <<>> THEN Head(w.mgr[i].inactive) ELSE CHOOSE x \in Unused(w) : TRUE

LEMMA GetIs ==
    ASSUME NEW w, NEW i \in Interfaces, NEW tcp \in BOOLEAN, Global(w), CanGet(w, i),
           \A x \in Clients : x \in Range(w.mgr[i].inactive) \cup Unused(w) => Settled(w, x)
    PROVE  LET x == Taken(w, i)  v == get_client(w, i, tcp) IN
           /\ x \in Clients /\ x \in Range(w.mgr[i].inactive) \cup Unused(w)
           /\ w.cl[x].state \in {FREED, INACTIVE} /\ w.cl[x].interface = None
           /\ Global(v) /\ Aside(w, v, x) /\ Settled(v, x) /\ v.cl[x] = Fresh(i, tcp)
           /\ \A j \in Interfaces : v.mgr[j].life = w.mgr[j].life
<1> DEFINE x == Taken(w, i)
           v == get_client(w, i, tcp)
           me == w.cl[x]
           you == Fresh(i, tcp)
           q == Without(w.mgr[i].inactive, {x})
           S == w.mgr[i].clients \cup {x}
           m == [w.mgr[i] EXCEPT !.inactive = q, !.clients = S]
           f == Plus(w.ifp[i])
<1>1. w \in Worlds /\ Counts(w) /\ w.mgr[i].life = "up"
  BY DEF Global, CanGet
<1>2. /\ w.mgr \in [Interfaces -> Mgrs] /\ w.mgr[i] \in Mgrs /\ w.mgr[i].inactive \in Seq(Clients)
      /\ w.mgr[i].clients \in SUBSET Clients
      /\ w.ifp \in [Interfaces -> Ifps] /\ w.ifp[i] \in Ifps
  BY <1>1 DEF Worlds, Mgrs
<1>3. x \in Clients /\ x \in Range(w.mgr[i].inactive) \cup Unused(w)
  <2>1. CASE w.mgr[i].inactive # <<>>
    <3>1. Head(w.mgr[i].inactive) \in Clients /\ Head(w.mgr[i].inactive) \in Range(w.mgr[i].inactive)
      BY <1>2, <2>1, HeadRange
    <3> QED BY <2>1, <3>1 DEF Taken
  <2>2. CASE w.mgr[i].inactive = <<>>
    <3>1. Unused(w) # {}
      BY <2>2 DEF CanGet
    <3>2. x \in Unused(w)
      BY <2>2, <3>1 DEF Taken
    <3>3. x \in Clients
      BY <3>2 DEF Unused
    <3> QED BY <3>2, <3>3
  <2> QED BY <2>1, <2>2
<1>4. Settled(w, x) /\ me \in Recs
  BY <1>1, <1>3, RecOf
<1>5. /\ me.state \in {FREED, INACTIVE} /\ me.interface = None /\ ~me.tcpquota /\ ~me.recursionquota
      /\ me.home \in {i, None}
  <2>1. CASE x \in Range(w.mgr[i].inactive)
    <3>1. me.state = INACTIVE /\ me.home = i
      BY <1>4, <2>1 DEF Settled, Listed
    <3>2. Placed(w, x)
      BY <1>4, <3>1 DEF Settled, INACTIVE, FREED
    <3> QED BY <3>1, <3>2 DEF Placed, INACTIVE, READY, READING, WORKING
  <2>2. CASE x \in Unused(w)
    <3>1. me.task = "none"
      BY <2>2 DEF Unused
    <3>2. me = [NoClient EXCEPT !.task = "none"]
      BY <1>4, <3>1 DEF Settled, Alive
    <3>3. me.state = FREED /\ me.interface = None /\ ~me.tcpquota /\ ~me.recursionquota /\ me.home = None
      BY <3>2 DEF NoClient
    <3> QED BY <3>3
  <2> QED BY <1>3, <2>1, <2>2
<1>6. /\ you \in Recs /\ you.state = READY /\ you.newstate = MAX /\ you.task = "up" /\ you.home = i
      /\ you.interface = i /\ you.tcp = tcp /\ ~you.mortal /\ Only(you.n, "ctl") /\ you.canceled = {}
      /\ you.references = 0 /\ you.fetch = "none" /\ ~you.timerset /\ ~you.tcpquota
      /\ ~you.recursionquota /\ you.victim = None
  BY FreshIs
<1>7. q \in Seq(Clients) /\ \A y : y \in Range(q) <=> y \in Range(w.mgr[i].inactive) /\ y # x
  BY <1>2, WithoutIs
<1>8. /\ f \in Ifps /\ f.references = w.ifp[i].references + 1
      /\ f.ntcpcurrent = w.ifp[i].ntcpcurrent /\ f.life = w.ifp[i].life
  BY <1>2, PlusIs
<1>9. v = [w EXCEPT !.mgr[i].inactive = q, !.mgr[i].clients = @ \cup {x},
                    !.ifp[i].references = @ + 1, !.cl[x] = you]
  <2>1. x = IF w.mgr[i].inactive # <<>> THEN Head(w.mgr[i].inactive) ELSE CHOOSE y \in Unused(w) : TRUE
    BY DEF Taken
  <2> QED BY <1>1, <1>2, SMTT(40) DEF get_client, Taken, Fresh, Worlds, Mgrs
<1> HIDE DEF x, q, f, you, v
<1>10. /\ v.cl = [w.cl EXCEPT ![x] = you] /\ v.used = w.used
       /\ v.ifp = [w.ifp EXCEPT ![i] = f] /\ v.mgr = [w.mgr EXCEPT ![i] = m]
  <2>1. v.cl = [w.cl EXCEPT ![x] = you] /\ v.used = w.used
    BY <1>1, <1>9 DEF Worlds
  <2>2. v.ifp = [w.ifp EXCEPT ![i] = f]
    BY <1>1, <1>2, <1>9 DEF Worlds, Ifps, f, Plus
  <2>3. v.mgr = [w.mgr EXCEPT ![i] = m]
    BY <1>1, <1>2, <1>9 DEF Worlds, Mgrs
  <2> QED BY <2>1, <2>2, <2>3
<1>11. S \in SUBSET Clients
  BY <1>2, <1>3
<1> HIDE DEF S
<1>12. /\ m \in Mgrs /\ m.inactive = q /\ m.clients = S /\ m.life = "up" /\ m.recursing = w.mgr[i].recursing
  BY <1>1, <1>2, <1>7, <1>11 DEF Mgrs
<1> HIDE DEF m
<1>13. /\ v.cl[x] = you /\ \A y \in Clients : y # x => v.cl[y] = w.cl[y]
       /\ v.cl \in [Clients -> Recs]
  BY <1>1, <1>3, <1>6, <1>10 DEF Worlds
<1>14. /\ v.mgr[i] = m /\ \A j \in Interfaces : j # i => v.mgr[j] = w.mgr[j]
       /\ v.mgr \in [Interfaces -> Mgrs]
  BY <1>2, <1>10, <1>12
<1>15. /\ v.ifp[i] = f /\ \A j \in Interfaces : j # i => v.ifp[j] = w.ifp[j]
       /\ v.ifp \in [Interfaces -> Ifps]
  BY <1>2, <1>8, <1>10
<1>16. v \in Worlds
  <2>1. v.cl \in [Clients -> Recs] /\ v.mgr \in [Interfaces -> Mgrs] /\ v.ifp \in [Interfaces -> Ifps] /\ v.used = w.used
    BY <1>10, <1>13, <1>14, <1>15
  <2> QED BY <1>1, <1>9, <2>1 DEF Worlds
<1>17. None \notin Interfaces
  BY NsClientAssumption
<1>18. you.n["accept"] = 0
  BY <1>6 DEF Only, Works
<1>19. Flow(w, v, x)
  <2>1. ASSUME NEW j \in Interfaces
        PROVE  /\ v.ifp[j].references = w.ifp[j].references + Flag(you.interface = j) - Flag(me.interface = j)
               /\ v.ifp[j].ntcpcurrent = w.ifp[j].ntcpcurrent + Flag(Accepting(you, j)) - Flag(Accepting(me, j))
               /\ v.ifp[j].life = IF w.ifp[j].references = 1 /\ v.ifp[j].references = 0
                                    THEN "destroyed" ELSE w.ifp[j].life
    <3>1. w.ifp[j].references \in Int /\ w.ifp[j].ntcpcurrent \in Int
      BY <1>2 DEF Ifps
    <3>2. Flag(Accepting(you, j)) = 0 /\ Flag(Accepting(me, j)) = 0 /\ Flag(me.interface = j) = 0
      BY <1>5, <1>17, <1>18 DEF Accepting, Flag
    <3>3. Flag(you.interface = j) = IF j = i THEN 1 ELSE 0
      BY <1>6 DEF Flag
    <3> QED BY <1>8, <1>15, <3>1, <3>2, <3>3
  <2>2. ASSUME NEW j \in Interfaces
        PROVE  /\ v.mgr[j].clients = IF you.home = j THEN w.mgr[j].clients \cup {x} ELSE w.mgr[j].clients \ {x}
               /\ v.mgr[j].life = IF v.mgr[j].clients = {} /\ w.mgr[j].life = "exiting"
                                    THEN "destroyed" ELSE w.mgr[j].life
    <3>1. CASE j = i
      BY <1>1, <1>6, <1>12, <1>14, <3>1 DEF S
    <3>2. CASE j # i
      <4>1. x \notin w.mgr[j].clients /\ ~(w.mgr[j].clients = {} /\ w.mgr[j].life = "exiting")
        BY <1>1, <1>5, <1>17, <3>2 DEF Counts
      <4>2. w.mgr[j].clients \ {x} = w.mgr[j].clients
        BY <4>1
      <4> QED BY <1>6, <1>14, <3>2, <4>1, <4>2
    <3> QED BY <3>1, <3>2
  <2>3. /\ v.used["tcp"] = w.used["tcp"] + Flag(you.tcpquota) - Flag(me.tcpquota)
        /\ v.used["rec"] = w.used["rec"] + Flag(you.recursionquota) - Flag(me.recursionquota)
    BY <1>1, <1>5, <1>6, <1>10 DEF Flag, Worlds
  <2>4. \A j \in Interfaces : (you.home = j => w.mgr[j].life = "up") /\ (you.interface = j => w.mgr[j].life = "up")
    BY <1>1, <1>6
  <2> QED BY <1>13, <1>16, <2>1, <2>2, <2>3, <2>4 DEF Flow
<1>20. Global(v)
  BY <1>3, <1>19, FlowKeeps
<1>21. Aside(w, v, x)
  BY <1>1, <1>7, <1>12, <1>13, <1>14 DEF Aside
<1>22. Listed(v, x)
  <2>1. ASSUME NEW j \in Interfaces
        PROVE  x \notin Range(v.mgr[j].recursing) /\ x \notin Range(v.mgr[j].inactive)
    <3>1. Listed(w, x)
      BY <1>4 DEF Settled
    <3>2. x \notin Range(w.mgr[j].recursing)
      BY <1>5, <3>1 DEF Listed, FREED, INACTIVE, RECURSING
    <3>3. CASE j = i
      BY <1>7, <1>12, <1>14, <3>2, <3>3
    <3>4. CASE j # i
      <4>1. x \notin Range(w.mgr[j].inactive)
        BY <1>5, <1>17, <3>1, <3>4 DEF Listed
      <4> QED BY <1>14, <3>2, <3>4, <4>1
    <3> QED BY <3>3, <3>4
  <2> QED BY <2>1 DEF Listed
<1>23. /\ READY # FREED /\ READY # INACTIVE /\ READY # READING /\ ~(READY >= WORKING)
       /\ MAX # FREED /\ MAX # READING /\ READY >= READY
  BY DEF READY, FREED, INACTIVE, READING, WORKING, MAX
<1>24. Placed(v, x)
  BY <1>6, <1>12, <1>13, <1>14, <1>23 DEF Placed
<1>25. Waits(you)
  <2>1. Expects(you) = "ctl" /\ you.n["ctl"] = 1
    BY <1>6 DEF Expects, Only
  <2> QED BY <1>6, <1>23, <2>1 DEF Waits
<1>26. Settled(v, x)
  BY <1>6, <1>13, <1>22, <1>23, <1>24, <1>25 DEF Settled, Alive
<1>27. \A j \in Interfaces : v.mgr[j].life = w.mgr[j].life
  BY <1>1, <1>12, <1>14
<1> QED BY <1>3, <1>5, <1>13, <1>20, <1>21, <1>26, <1>27 DEF x, v, you

\* The new client takes over from c.
LEMMA ReplaceIs ==
    ASSUME NEW w, NEW c \in Clients, Busy(w, c), w.cl[c].state >= READY, ~w.cl[c].mortal,
           CanGet(w, w.cl[c].interface)
    PROVE  LET v == ns_client_replace(w, c) IN
           Busy(v, c) /\ Except(w.cl[c], v.cl[c], {"mortal"})
<1> DEFINE me == w.cl[c]
           i == me.interface
           x == Taken(w, i)
           g == get_client(w, i, me.tcp)
           you == [me EXCEPT !.mortal = TRUE]
           v == ns_client_replace(w, c)
<1>1. /\ Loose(w, c) /\ w \in Worlds /\ Global(w) /\ me \in Recs /\ Alive(me) /\ Placed(w, c) /\ Listed(w, c)
      /\ me.tcp \in BOOLEAN /\ me.state \in 0 .. 5
  BY RecOf, RecParts DEF Busy, Loose, Global
<1>2. i \in Interfaces /\ me.home = i /\ None \notin Interfaces /\ me.state # INACTIVE /\ me.state # FREED
  BY <1>1, NsClientAssumption DEF Placed, READY, INACTIVE, FREED
<1>3. \A y \in Clients : y \in Range(w.mgr[i].inactive) \cup Unused(w) => Settled(w, y)
  <2>1. c \notin Range(w.mgr[i].inactive) /\ c \notin Unused(w)
    BY <1>1, <1>2 DEF Listed, Unused, Alive
  <2> QED BY <2>1 DEF Busy
<1>4. /\ x \in Clients /\ w.cl[x].state \in {FREED, INACTIVE} /\ w.cl[x].interface = None
      /\ Global(g) /\ Aside(w, g, x) /\ Settled(g, x) /\ g.cl[x] = Fresh(i, me.tcp)
      /\ \A j \in Interfaces : g.mgr[j].life = w.mgr[j].life
  BY <1>1, <1>2, <1>3, GetIs
<1>5. /\ Fresh(i, me.tcp).home = i /\ Fresh(i, me.tcp).interface = i
      /\ Fresh(i, me.tcp).tcp = me.tcp /\ ~Fresh(i, me.tcp).mortal
  BY <1>1, <1>2, FreshIs
<1>6. v = [g EXCEPT !.cl[c].mortal = TRUE]
  BY DEF ns_client_replace
<1> HIDE DEF x, g, v
<1>7. x # c /\ g.cl[c] = me /\ g \in Worlds
  BY <1>2, <1>4 DEF Aside, Global
<1>8. v = Put(g, c, you)
  BY <1>6, <1>7 DEF Put, Worlds
<1>9. Except(me, you, {"mortal"}) /\ you.mortal
  BY <1>1 DEF Except, Fields, Recs
<1> HIDE DEF you
<1>10. /\ you.home = i /\ you.interface = i /\ you.n = me.n /\ you.task = me.task
       /\ you.tcp = me.tcp /\ you.canceled = me.canceled /\ you.references = me.references
       /\ you.fetch = me.fetch /\ you.victim = me.victim /\ you.tcpquota = me.tcpquota
       /\ you.recursionquota = me.recursionquota /\ you.state = me.state /\ you.newstate = me.newstate
       /\ you.timerset = me.timerset
  BY <1>2, <1>9 DEF Except, Fields
<1>11. you \in Recs /\ Entry(you) = Entry(g.cl[c])
  BY <1>2, <1>7, <1>9, <1>10 DEF Except, Entry
<1>12. v.cl[c] = you /\ v.mgr = g.mgr /\ \A y \in Clients : y # c => v.cl[y] = g.cl[y]
  BY <1>7, <1>8, <1>11, PutIs
<1>13. Global(v) /\ Aside(g, v, c)
  BY <1>4, <1>8, <1>11, PutGlobal
<1>14. Alive(you) /\ Placed(v, c)
  BY <1>1, <1>2, <1>4, <1>10, <1>12 DEF Alive, Placed
<1>15. Listed(v, c)
  BY <1>1, <1>2, <1>4, <1>7, <1>10, <1>12 DEF Listed, Aside
<1>16. ASSUME NEW y \in Clients, y # c PROVE Settled(v, y)
  <2>1. Settled(g, y)
    <3>1. CASE y = x
      BY <1>4, <3>1
    <3>2. CASE y # x
      BY <1>4, <1>16, <3>2, SettledAside DEF Busy
    <3> QED BY <3>1, <3>2
  <2> QED BY <1>13, <1>16, <2>1, SettledAside
<1>17. ASSUME NEW y \in Clients, y # c, y # x PROVE v.cl[y] = w.cl[y]
  BY <1>4, <1>12, <1>17 DEF Aside
<1>18. /\ v.cl[x] = Fresh(i, me.tcp) /\ \A b : ~Serves(w.cl[x], b) /\ ~Serves(you, b)
  BY <1>4, <1>7, <1>9, <1>12 DEF Serves
<1>19. /\ Serves(v.cl[x], me.tcp) /\ Serves(me, me.tcp) /\ v.cl[x].home = i
       /\ \A b : Serves(v.cl[x], b) \/ Serves(me, b) => b = me.tcp
  BY <1>2, <1>5, <1>18 DEF Serves
<1>20. Served(v)
  <2> SUFFICES ASSUME NEW j \in Interfaces, v.mgr[j].life = "up"
               PROVE  /\ \E d \in Clients :
                            /\ v.cl[d].home = j /\ Serves(v.cl[d], FALSE)
                            /\ \A y \in Clients : v.cl[y].home = j /\ Serves(v.cl[y], FALSE) => y = d
                      /\ \E d \in Clients : v.cl[d].home = j /\ Serves(v.cl[d], TRUE)
    BY DEF Served
  <2>1. w.mgr[j].life = "up" /\ Served(w)
    BY <1>4, <1>12 DEF Busy
  <2>2. PICK d \in Clients : /\ w.cl[d].home = j /\ Serves(w.cl[d], FALSE)
                             /\ \A y \in Clients : w.cl[y].home = j /\ Serves(w.cl[y], FALSE) => y = d
    BY <2>1 DEF Served
  <2>3. PICK e \in Clients : w.cl[e].home = j /\ Serves(w.cl[e], TRUE)
    BY <2>1 DEF Served
  <2>4. d # x /\ e # x
    BY <1>18, <2>2, <2>3
  <2>5. CASE j # i
    <3>1. d # c /\ e # c
      BY <1>2, <2>2, <2>3, <2>5
    <3>2. v.cl[d] = w.cl[d] /\ v.cl[e] = w.cl[e]
      BY <1>17, <2>4, <3>1
    <3>3. \A y \in Clients : v.cl[y].home = j /\ Serves(v.cl[y], FALSE) => y = d
      BY <1>10, <1>12, <1>17, <1>19, <2>2, <2>5
    <3> QED BY <2>2, <2>3, <3>2, <3>3
  <2>6. CASE j = i /\ me.tcp
    <3>1. d # c
      BY <1>19, <2>2, <2>6
    <3>2. v.cl[d] = w.cl[d]
      BY <1>17, <2>4, <3>1
    <3>3. \A y \in Clients : v.cl[y].home = j /\ Serves(v.cl[y], FALSE) => y = d
      BY <1>12, <1>17, <1>18, <1>19, <2>2, <2>6
    <3>4. v.cl[x].home = j /\ Serves(v.cl[x], TRUE)
      BY <1>1, <1>19, <2>6
    <3> QED BY <1>4, <2>2, <3>2, <3>3, <3>4
  <2>7. CASE j = i /\ ~me.tcp
    <3>1. me.tcp = FALSE
      BY <1>1, <2>7
    <3>2. d = c /\ e # c
      BY <1>2, <1>19, <2>2, <2>3, <2>7, <3>1
    <3>3. v.cl[e] = w.cl[e]
      BY <1>17, <2>4, <3>2
    <3>4. v.cl[x].home = j /\ Serves(v.cl[x], FALSE)
      BY <1>19, <2>7, <3>1
    <3>5. \A y \in Clients : v.cl[y].home = j /\ Serves(v.cl[y], FALSE) => y = x
      BY <1>12, <1>17, <1>18, <2>2, <3>2
    <3> QED BY <1>4, <2>3, <3>3, <3>4, <3>5
  <2> QED BY <1>1, <2>5, <2>6, <2>7
<1>21. Busy(v, c)
  BY <1>12, <1>13, <1>14, <1>15, <1>16, <1>20 DEF Busy, Loose
<1> QED BY <1>9, <1>12, <1>21 DEF v

-----------------------------------------------------------------------------
(* Requests *)

\* c changes, and with it the list of recursing clients.
PutList(w, c, you, q) == [w EXCEPT !.cl[c] = you, !.mgr[w.cl[c].home].recursing = q]

LEMMA ListTweak ==
    ASSUME NEW w, NEW v, NEW c \in Clients, NEW you, NEW q \in Seq(Clients), Busy(w, c),
           v = PutList(w, c, you, q), w.cl[c].state = WORKING, Fits(w.cl[c], you),
           you.n["accept"] = w.cl[c].n["accept"],
           \A x \in Clients : x # c /\ x \in Range(q) => x \in Range(w.mgr[w.cl[c].home].recursing),
           c \in Range(q) => you.state = RECURSING
    PROVE  Busy(v, c) /\ Moves(w, v, c) /\ v.cl[c] = you
<1> DEFINE me == w.cl[c]
           h == me.home
           m == [w.mgr[h] EXCEPT !.recursing = q]
<1>1. /\ w \in Worlds /\ Global(w) /\ me \in Recs /\ Alive(me) /\ Placed(w, c) /\ Listed(w, c)
      /\ h \in Interfaces /\ you \in Recs
  BY RecOf DEF Busy, Loose, Global, Placed, Fits, Except
<1>2. w.mgr \in [Interfaces -> Mgrs] /\ w.mgr[h] \in Mgrs
  BY <1>1 DEF Worlds
<1>3. /\ v.cl = [w.cl EXCEPT ![c] = you] /\ v.ifp = w.ifp /\ v.used = w.used
      /\ v.mgr = [w.mgr EXCEPT ![h] = m]
  BY <1>1 DEF PutList, Worlds
<1>4. /\ m \in Mgrs /\ m.recursing = q /\ m.inactive = w.mgr[h].inactive /\ m.life = w.mgr[h].life
      /\ m.clients = w.mgr[h].clients
  BY <1>2 DEF Mgrs
<1> HIDE DEF m
<1>5. /\ v.cl[c] = you /\ \A x \in Clients : x # c => v.cl[x] = w.cl[x]
      /\ v.cl \in [Clients -> Recs]
  BY <1>1, <1>3 DEF Worlds
<1>6. /\ v.mgr[h] = m /\ \A i \in Interfaces : i # h => v.mgr[i] = w.mgr[i]
      /\ v.mgr \in [Interfaces -> Mgrs]
  BY <1>1, <1>2, <1>3, <1>4
<1>7. v \in Worlds
  <2>1. v.cl \in [Clients -> Recs] /\ v.mgr \in [Interfaces -> Mgrs] /\ v.ifp = w.ifp /\ v.used = w.used
    BY <1>3, <1>5, <1>6
  <2> QED BY <1>1, <2>1 DEF PutList, Worlds
<1>8. /\ you.home = h /\ you.task = me.task /\ you.interface = me.interface
      /\ you.tcpquota = me.tcpquota /\ you.tcp = me.tcp /\ you.mortal = me.mortal
      /\ you.recursionquota = me.recursionquota
  BY DEF Fits, Except, Fields, Private
<1>9. Global(v)
  <2>1. Entry(you) = Entry(me)
    BY <1>8 DEF Entry
  <2>2. \A i \in Interfaces : v.mgr[i].life = w.mgr[i].life /\ v.mgr[i].clients = w.mgr[i].clients
    BY <1>4, <1>6
  <2> QED BY <1>1, <1>3, <1>5, <1>7, <2>1, <2>2, SameBooks
<1>10. Aside(w, v, c)
  BY <1>4, <1>5, <1>6 DEF Aside
<1>11. Duty(me, you) /\ Alive(you)
  BY <1>1, <1>8 DEF Duty, Serves, Alive
<1>12. Placed(v, c)
  BY <1>1, <1>4, <1>5, <1>6, <1>8 DEF Placed, Fits
<1>13. Listed(v, c)
  BY <1>1, <1>4, <1>5, <1>6, <1>8 DEF Listed, WORKING, INACTIVE, RECURSING
<1>14. Moves(w, v, c)
  BY <1>5, <1>9, <1>10, <1>11 DEF Moves
<1>15. Busy(v, c)
  BY <1>5, <1>11, <1>12, <1>13, <1>14, GoesOn
<1> QED BY <1>5, <1>14, <1>15

\* A request that nothing has been asked for yet.
Begun(w, c) ==
    /\ Busy(w, c) /\ Engaged(w.cl[c]) /\ w.cl[c].state = WORKING /\ w.cl[c].newstate = WORKING
    /\ w.cl[c].victim = None /\ Pending(w.cl[c]) = 0 /\ w.cl[c].references = 0

LEMMA BegunIs ==
    ASSUME NEW w, NEW c \in Clients, Busy(w, c), Pending(w.cl[c]) = 0, w.cl[c].victim = None
    PROVE  /\ w.cl[c].n["send"] = 0 /\ w.cl[c].n["update"] = 0 /\ w.cl[c].fetch = "none"
           /\ w.cl[c] \in Recs /\ w \in Worlds /\ Loose(w, c) /\ Placed(w, c) /\ w.cl[c].home \in Interfaces
<1> DEFINE me == w.cl[c]
<1>1. w \in Worlds /\ me \in Recs /\ \A k \in Works : me.n[k] \in {0, 1}
  BY RecOf, RecParts DEF Busy, Loose, Global
<1>2. /\ me.n["send"] \in {0, 1} /\ me.n["update"] \in {0, 1} /\ Flag(me.fetch # "none") \in {0, 1}
      /\ Flag(me.victim # None) = 0 /\ (Flag(me.fetch # "none") = 0 => me.fetch = "none")
  BY <1>1 DEF Works, Flag
<1> QED BY <1>1, <1>2 DEF Pending, Busy, Loose, Placed

\* What does not touch the request leaves it begun.
LEMMA BegunOn ==
    ASSUME NEW w, NEW v, NEW c \in Clients, Begun(w, c), Busy(v, c),
           Except(w.cl[c], v.cl[c], {"mortal", "recursionquota"})
    PROVE  Begun(v, c)
<1>1. /\ v.cl[c].n = w.cl[c].n /\ v.cl[c].state = w.cl[c].state /\ v.cl[c].newstate = w.cl[c].newstate
      /\ v.cl[c].victim = w.cl[c].victim /\ v.cl[c].fetch = w.cl[c].fetch
      /\ v.cl[c].references = w.cl[c].references
  BY DEF Except, Fields
<1> QED BY <1>1 DEF Begun, Engaged, Pending

LEMMA RecursingIs ==
    ASSUME NEW w, NEW c \in Clients, Begun(w, c)
    PROVE  LET v == [ns_client_recursing(w, c) EXCEPT !.cl[c].timerset = TRUE] IN
           /\ Busy(v, c) /\ Moves(w, v, c) /\ Engaged(v.cl[c]) /\ Pending(v.cl[c]) = 0
           /\ Except(w.cl[c], v.cl[c], {"state", "newstate", "timerset"})
           /\ v.cl[c].state = RECURSING /\ v.cl[c].newstate = RECURSING
<1> DEFINE me == w.cl[c]
           h == me.home
           you == [me EXCEPT !.state = RECURSING, !.newstate = RECURSING, !.timerset = TRUE]
           q == Append(w.mgr[h].recursing, c)
           v == [ns_client_recursing(w, c) EXCEPT !.cl[c].timerset = TRUE]
<1>1. /\ Busy(w, c) /\ me \in Recs /\ w \in Worlds /\ Placed(w, c) /\ h \in Interfaces
      /\ me.state = WORKING /\ me.newstate = WORKING
  BY BegunIs DEF Begun
<1>2. w.mgr[h].recursing \in Seq(Clients)
  BY <1>1 DEF Worlds, Mgrs
<1>3. v = PutList(w, c, you, q)
  BY <1>1, ZenonT(60) DEF ns_client_recursing, PutList, Worlds
<1>4. /\ Except(me, you, {"state", "newstate", "timerset"}) /\ you.state = RECURSING /\ you.newstate = RECURSING
  <2>1. RECURSING \in States /\ RECURSING \in NewStates
    BY DEF States, NewStates, RECURSING, FREED
  <2> QED BY <1>1, <2>1 DEF Except, Fields, Recs
<1>5. q \in Seq(Clients) /\ \A x : x \in Range(q) <=> x \in Range(w.mgr[h].recursing) \/ x = c
  BY <1>2, AppendRange
<1> HIDE DEF you, v, q
<1>6. /\ you.n = me.n /\ you.canceled = me.canceled /\ you.references = me.references
      /\ you.fetch = me.fetch /\ you.victim = me.victim
  BY <1>4 DEF Except, Fields
<1>7. Fits(me, you)
  <2>1. Except(me, you, Private)
    BY <1>4 DEF Except, Private
  <2>2. /\ RECURSING >= READY /\ WORKING >= READY /\ RECURSING # FREED /\ WORKING # FREED /\ RECURSING # READING
        /\ ~(RECURSING < READING) /\ ~(RECURSING < WORKING)
    BY DEF READY, READING, WORKING, RECURSING, FREED
  <2> QED BY <1>1, <1>4, <1>6, <2>1, <2>2 DEF Fits, Placed
<1>8. Busy(v, c) /\ Moves(w, v, c) /\ v.cl[c] = you
  BY <1>1, <1>3, <1>4, <1>5, <1>6, <1>7, ListTweak
<1>9. Engaged(you) /\ Pending(you) = 0
  BY <1>4, <1>6 DEF Begun, Engaged, Pending, RECURSING, WORKING, INACTIVE
<1> QED BY <1>4, <1>8, <1>9 DEF v

LEMMA StartFetchGood ==
    ASSUME NEW w, NEW c \in Clients, NEW fetched \in BOOLEAN, NEW how \in Sendings, Begun(w, c)
    PROVE  Good(StartFetch(w, c, fetched, how))
<1> DEFINE u == [ns_client_recursing(w, c) EXCEPT !.cl[c].timerset = TRUE]
           me == u.cl[c]
           you == [me EXCEPT !.fetch = "running", !.references = 1]
           v == [u EXCEPT !.cl[c].fetch = "running", !.cl[c].references = @ + 1]
<1>1. /\ Busy(u, c) /\ Engaged(me) /\ Pending(me) = 0
      /\ Except(w.cl[c], me, {"state", "newstate", "timerset"})
      /\ me.state = RECURSING /\ me.newstate = RECURSING
  BY RecursingIs
<1>2. StartFetch(w, c, fetched, how) = IF fetched THEN v ELSE ns_client_send(u, c, how)
  BY DEF StartFetch
<1> HIDE DEF u
<1>3. me.victim = None /\ me.references = 0
  BY <1>1 DEF Except, Fields, Begun
<1>4. /\ me.n["send"] = 0 /\ me.n["update"] = 0 /\ me.fetch = "none" /\ me \in Recs /\ u \in Worlds
      /\ Loose(u, c) /\ Placed(u, c)
  BY <1>1, <1>3, BegunIs
<1>5. CASE fetched
  <2>1. v = Put(u, c, you)
    <3>1. me.references + 1 = 1
      BY <1>3
    <3> QED BY <1>4, <3>1 DEF Put, Worlds
  <2>2. Except(me, you, {"fetch", "references"}) /\ you.fetch = "running" /\ you.references = 1
    <3>1. PICK r : r = 1 /\ r \in 0 .. 1
      OBVIOUS
    <3>2. you = [me EXCEPT !.fetch = "running", !.references = r]
      BY <3>1
    <3> HIDE DEF you
    <3>3. Except(me, you, {"fetch", "references"}) /\ you.fetch = "running" /\ you.references = r
      BY <1>4, <3>1, <3>2 DEF Except, Fields, Recs
    <3> QED BY <3>1, <3>3
  <2> HIDE DEF you, v
  <2>3. /\ you.state = RECURSING /\ you.newstate = RECURSING /\ you.canceled = me.canceled /\ you.n = me.n
        /\ you.timerset = me.timerset /\ you.victim = None
    BY <1>1, <1>3, <2>2 DEF Except, Fields
  <2>4. Fits(me, you)
    <3>1. Except(me, you, Private)
      BY <2>2 DEF Except, Private
    <3>2. ~(RECURSING < READING) /\ ~(RECURSING < WORKING) /\ RECURSING # READING
      BY DEF READING, WORKING, RECURSING
    <3> QED BY <1>1, <1>4, <2>2, <2>3, <3>1, <3>2 DEF Fits, Placed
  <2>5. Moves(u, v, c) /\ Loose(v, c) /\ v.cl[c] = you
    BY <1>4, <2>1, <2>3, <2>4, Tweak
  <2>6. Engaged(you) /\ Pending(you) = 1 /\ you.references = you.n["update"] + Flag(you.fetch # "none")
    BY <1>1, <1>4, <2>2, <2>3 DEF Engaged, Pending, Flag
  <2>7. Settled(v, c)
    BY <2>3, <2>5, <2>6, EngagedSettled
  <2>8. Good(v)
    BY <1>1, <2>5, <2>7, Finish
  <2> QED BY <1>2, <1>5, <2>8
<1>6. CASE ~fetched
  <2>1. Good(ns_client_send(u, c, how))
    BY <1>1, <1>3, SendGood
  <2> QED BY <1>2, <1>6, <2>1
<1> QED BY <1>5, <1>6

LEMMA RecurseGood ==
    ASSUME NEW w, NEW c \in Clients, NEW fetched \in BOOLEAN, NEW how \in Sendings, Begun(w, c)
    PROVE  Good(Recurse(w, c, fetched, how))
<1> DEFINE v == Recurse(w, c, fetched, how)
<1>1. CASE ~NeedsReplacement(w, c)
  <2>1. v = StartFetch(w, c, fetched, how)
    BY <1>1 DEF Recurse
  <2> QED BY <2>1, StartFetchGood
<1>2. CASE NeedsReplacement(w, c) /\ CanGet(w, w.cl[c].interface)
  <2> DEFINE u == ns_client_replace(w, c)
  <2>1. v = StartFetch(u, c, fetched, how)
    BY <1>2 DEF Recurse
  <2>2. Busy(u, c) /\ Except(w.cl[c], u.cl[c], {"mortal"})
    BY <1>2, ReplaceIs DEF Begun, NeedsReplacement, WORKING, READY
  <2> HIDE DEF u
  <2>3. Begun(u, c)
    BY <2>2, BegunOn DEF Except
  <2> QED BY <2>1, <2>3, StartFetchGood
<1>3. CASE NeedsReplacement(w, c) /\ ~CanGet(w, w.cl[c].interface)
  <2> DEFINE u == detach_rec(w, c)
  <2>1. v = ns_client_send(u, c, how)
    BY <1>3 DEF Recurse
  <2>2. Moves(w, u, c) /\ Loose(u, c) /\ Except(w.cl[c], u.cl[c], {"recursionquota"})
    BY DetachRecIs DEF Begun, Busy
  <2> HIDE DEF u
  <2>3. Busy(u, c)
    BY <2>2, StaysBusy DEF Begun
  <2>4. Begun(u, c)
    BY <2>2, <2>3, BegunOn DEF Except
  <2> QED BY <2>1, <2>4, SendGood DEF Begun
<1> QED BY <1>1, <1>2, <1>3

LEMMA QueryRecurseGood ==
    ASSUME NEW w, NEW c \in Clients, NEW fetched \in BOOLEAN, NEW how \in Sendings, Begun(w, c),
           ~w.cl[c].recursionquota
    PROVE  Good(query_recurse(w, c, fetched, how))
<1> DEFINE r   == isc_quota_reserve(w, "rec")
           w1  == IF r = "quota" THEN w ELSE attach_rec(w, c)
           i   == w.cl[c].home
           old == w.mgr[i].recursing
           ev  == [w1 EXCEPT !.cl[c].victim = Head(old), !.mgr[i].recursing = Tail(@)]
           v   == query_recurse(w, c, fetched, how)
<1>1. v = CASE r # "success" /\ old # <<>> -> ev
            [] r # "quota" /\ (r = "success" \/ old = <<>>) -> Recurse(w1, c, fetched, how)
            [] OTHER -> ns_client_send(w1, c, how)
  BY DEF query_recurse
<1>2. Begun(w1, c) /\ w1.mgr = w.mgr /\ w1.cl[c].home = i
  <2> DEFINE u == attach_rec(w, c)
  <2>1. Moves(w, u, c) /\ Loose(u, c) /\ u.mgr = w.mgr /\ Except(w.cl[c], u.cl[c], {"recursionquota"})
    BY AttachRecIs DEF Begun, Busy, Engaged
  <2> HIDE DEF u
  <2>2. Busy(u, c) /\ u.cl[c].home = i
    BY <2>1, StaysBusy DEF Begun, Except, Fields
  <2>3. Begun(u, c)
    BY <2>1, <2>2, BegunOn DEF Except
  <2> QED BY <2>1, <2>2, <2>3 DEF u
<1> HIDE DEF v, w1, r
<1>3. CASE r # "success" /\ old # <<>>
  <2> DEFINE me == w1.cl[c]
             you == [me EXCEPT !.victim = Head(old)]
             q == Tail(old)
  <2>1. v = ev
    BY <1>1, <1>3
  <2>2. /\ Busy(w1, c) /\ me \in Recs /\ w1 \in Worlds /\ Placed(w1, c) /\ i \in Interfaces
        /\ me.state = WORKING /\ me.newstate = WORKING /\ Engaged(me) /\ Pending(me) = 0 /\ me.victim = None
        /\ me.n["send"] = 0 /\ me.n["update"] = 0 /\ me.fetch = "none" /\ me.references = 0
    BY <1>2, BegunIs DEF Begun
  <2>3. old \in Seq(Clients)
    BY <1>2, <2>2 DEF Worlds, Mgrs
  <2>4. Head(old) \in Clients /\ q \in Seq(Clients) /\ \A x : x \in Range(q) => x \in Range(old)
    BY <1>3, <2>3, HeadRange
  <2>5. v = PutList(w1, c, you, q)
    BY <1>2, <2>1, <2>2 DEF PutList, Worlds
  <2>6. Except(me, you, {"victim"}) /\ you.victim = Head(old)
    BY <2>2, <2>4 DEF Except, Fields, Recs
  <2> HIDE DEF you, ev, q
  <2>7. /\ you.n = me.n /\ you.canceled = me.canceled /\ you.references = 0 /\ you.timerset = me.timerset
        /\ you.fetch = "none" /\ you.state = WORKING /\ you.newstate = WORKING
    BY <2>2, <2>6 DEF Except, Fields
  <2>8. Fits(me, you)
    <3>1. Except(me, you, Private)
      BY <2>6 DEF Except, Private
    <3>2. ~(WORKING < READING) /\ ~(WORKING < WORKING) /\ WORKING # READING
      BY DEF READING, WORKING
    <3> QED BY <2>2, <2>6, <2>7, <3>1, <3>2 DEF Fits, Placed
  <2>9. c \notin Range(old)
    BY <1>2, <2>2 DEF Busy, Loose, Listed, WORKING, RECURSING
  <2>10. Busy(v, c) /\ Moves(w1, v, c) /\ v.cl[c] = you
    BY <1>2, <2>2, <2>4, <2>5, <2>7, <2>8, <2>9, ListTweak, SMTT(40)
  <2>11. you.victim # None /\ Flag(you.victim # None) = 1
    BY <2>4, <2>6, NsClientAssumption DEF Flag
  <2>12. Engaged(you) /\ Pending(you) = 1 /\ you.references = you.n["update"] + Flag(you.fetch # "none")
    BY <2>2, <2>7, <2>11 DEF Engaged, Pending, Flag
  <2>13. Settled(v, c)
    BY <2>7, <2>10, <2>12, EngagedSettled DEF Busy
  <2> QED BY <2>2, <2>10, <2>13, Finish DEF v
<1>4. CASE r # "quota" /\ (r = "success" \/ old = <<>>)
  <2>1. v = Recurse(w1, c, fetched, how)
    BY <1>1, <1>4
  <2> QED BY <1>2, <2>1, RecurseGood DEF v
<1>5. CASE r = "quota" /\ old = <<>>
  <2>1. v = ns_client_send(w1, c, how)
    BY <1>1, <1>5
  <2> QED BY <1>2, <2>1, SendGood DEF v, Begun
<1> QED BY <1>3, <1>4, <1>5

LEMMA UpdatingGood ==
    ASSUME NEW w, NEW c \in Clients, Begun(w, c)
    PROVE  Good([Begin(w, c, "update") EXCEPT !.cl[c].references = @ + 1, !.cl[c].timerset = TRUE])
<1> DEFINE b == Begin(w, c, "update")
           me == b.cl[c]
           v == [b EXCEPT !.cl[c].references = @ + 1, !.cl[c].timerset = TRUE]
<1>1. /\ w.cl[c].n["send"] = 0 /\ w.cl[c].n["update"] = 0 /\ w.cl[c].fetch = "none"
      /\ w.cl[c] \in Recs /\ Loose(w, c) /\ Busy(w, c) /\ w.cl[c].n \in [Works -> 0 .. 1]
  BY BegunIs, RecParts DEF Begun
<1>2. /\ Moves(w, b, c) /\ Loose(b, c) /\ Except(w.cl[c], me, {"n"}) /\ me.n = [w.cl[c].n EXCEPT !["update"] = 1]
  <2>1. "update" \in Works
    BY DEF Works
  <2> QED BY <1>1, <2>1, BeginIs
<1> HIDE DEF b
<1>3. Busy(b, c) /\ b \in Worlds /\ me \in Recs /\ Placed(b, c)
  BY <1>1, <1>2, StaysBusy, RecOf DEF Loose, Global
<1>4. /\ me.state = WORKING /\ me.newstate = WORKING /\ me.references = 0 /\ me.fetch = "none" /\ me.victim = None
  BY <1>1, <1>2 DEF Except, Fields, Begun
<1>5. me.n["update"] = 1 /\ me.n["send"] = 0 /\ \A k \in {"accept", "recv", "read", "ctl"} : me.n[k] = 0
  <2>1. \A k \in {"accept", "recv", "read", "ctl"} : w.cl[c].n[k] = 0
    BY DEF Begun, Engaged
  <2> QED BY <1>1, <1>2, <2>1 DEF Works
<1>6. PICK r : r = 1 /\ r \in 0 .. 1
  OBVIOUS
<1> DEFINE you == [me EXCEPT !.references = r, !.timerset = TRUE]
<1>7. v = Put(b, c, you)
  <2>1. me.references + 1 = r
    BY <1>4, <1>6
  <2> QED BY <1>3, <2>1 DEF Put, Worlds
<1>8. Except(me, you, {"references", "timerset"}) /\ you.references = r
  BY <1>3, <1>6 DEF Except, Fields, Recs
<1> HIDE DEF you, v
<1>9. /\ you.state = WORKING /\ you.newstate = WORKING /\ you.canceled = me.canceled /\ you.n = me.n
      /\ you.fetch = "none" /\ you.victim = None
  BY <1>4, <1>8 DEF Except, Fields
<1>10. Fits(me, you)
  <2>1. Except(me, you, Private)
    BY <1>8 DEF Except, Private
  <2>2. ~(WORKING < READING) /\ ~(WORKING < WORKING) /\ WORKING # READING
    BY DEF READING, WORKING
  <2> QED BY <1>3, <1>4, <1>9, <2>1, <2>2 DEF Fits, Placed
<1>11. Moves(b, v, c) /\ Loose(v, c) /\ v.cl[c] = you
  BY <1>2, <1>7, <1>9, <1>10, Tweak
<1>12. Engaged(you)
  BY <1>5, <1>9 DEF Engaged, WORKING, INACTIVE
<1>13. Pending(you) = 1 /\ you.references = you.n["update"] + Flag(you.fetch # "none")
  BY <1>5, <1>6, <1>8, <1>9 DEF Pending, Flag
<1>14. Settled(v, c)
  BY <1>9, <1>11, <1>12, <1>13, EngagedSettled
<1>15. Good(v)
  BY <1>3, <1>11, <1>14, Finish
<1> QED BY <1>15 DEF v, b

LEMMA WorkGood ==
    ASSUME NEW w, NEW c \in Clients, NEW what \in Requests, NEW how \in Sendings, Begun(w, c),
           ~w.cl[c].recursionquota
    PROVE  Good(Work(w, c, what, how))
<1> DEFINE updating(u) == [Begin(u, c, "update") EXCEPT !.cl[c].references = @ + 1, !.cl[c].timerset = TRUE]
           v == Work(w, c, what, how)
<1>1. v = CASE what = "answer"  -> ns_client_send(w, c, how)
            [] what = "update"  -> updating(w)
            [] what = "forward" -> IF ~NeedsReplacement(w, c) THEN updating(w)
                                   ELSE IF CanGet(w, w.cl[c].interface)
                                          THEN updating(ns_client_replace(w, c))
                                          ELSE ns_client_send(w, c, how)
            [] what \in {"recurse", "norecurse"} -> query_recurse(w, c, what = "recurse", how)
  BY DEF Work
<1>2. Good(updating(w))
  BY UpdatingGood
<1>3. Good(ns_client_send(w, c, how))
  BY SendGood DEF Begun
<1>4. Good(query_recurse(w, c, what = "recurse", how))
  <2>1. (what = "recurse") \in BOOLEAN
    OBVIOUS
  <2> QED BY <2>1, QueryRecurseGood
<1>5. NeedsReplacement(w, c) /\ CanGet(w, w.cl[c].interface) => Good(updating(ns_client_replace(w, c)))
  <2> HAVE NeedsReplacement(w, c) /\ CanGet(w, w.cl[c].interface)
  <2> DEFINE u == ns_client_replace(w, c)
  <2>1. Busy(u, c) /\ Except(w.cl[c], u.cl[c], {"mortal"})
    BY ReplaceIs DEF Begun, NeedsReplacement, WORKING, READY
  <2> HIDE DEF u
  <2>2. Begun(u, c)
    BY <2>1, BegunOn DEF Except
  <2>3. Good(updating(u))
    BY <2>2, UpdatingGood
  <2> QED BY <2>3 DEF u
<1> HIDE DEF updating, v
<1>6. CASE what = "answer"
  <2>1. v = ns_client_send(w, c, how)
    BY <1>1, <1>6
  <2> QED BY <1>3, <2>1 DEF v
<1>7. CASE what = "update"
  <2>1. v = updating(w)
    BY <1>1, <1>7
  <2> QED BY <1>2, <2>1 DEF v
<1>8. CASE what = "forward"
  <2>1. v = IF ~NeedsReplacement(w, c) THEN updating(w)
            ELSE IF CanGet(w, w.cl[c].interface) THEN updating(ns_client_replace(w, c))
                                                 ELSE ns_client_send(w, c, how)
    BY <1>1, <1>8
  <2> QED BY <1>2, <1>3, <1>5, <2>1 DEF v
<1>9. CASE what \in {"recurse", "norecurse"}
  <2>1. v = query_recurse(w, c, what = "recurse", how)
    BY <1>1, <1>9
  <2> QED BY <1>4, <2>1 DEF v
<1> QED BY <1>6, <1>7, <1>8, <1>9 DEF Requests

-----------------------------------------------------------------------------
(* Handlers *)

LEMMA BecomesGood ==
    ASSUME NEW v, Good(v), Becomes(v)
    PROVE  IInv'
<1>1. v \in Worlds
  BY DEF Good, Global
<1>2. World' = v
  BY <1>1 DEF World, Becomes, Worlds
<1>3. Good(World')
  BY <1>2
<1> QED BY <1>3 DEF IInv

LEMMA HandlerStarts ==
    ASSUME IInv, NEW c \in Clients, Alive(cl[c])
    PROVE  /\ Busy(World, c) /\ Waits(cl[c]) /\ World.cl = cl /\ World.ifp = ifp /\ World.mgr = mgr
           /\ Loose(World, c) /\ Placed(World, c) /\ Listed(World, c) /\ cl[c] \in Recs
           /\ cl[c].state \in 1 .. 5 /\ cl[c].n \in [Works -> 0 .. 1] /\ \A k \in Works : cl[c].n[k] \in {0, 1}
<1>1. World.cl = cl /\ World.ifp = ifp /\ World.mgr = mgr
  BY DEF World
<1>2. Busy(World, c) /\ Waits(cl[c])
  BY <1>1, GoodBusy DEF IInv
<1>3. cl[c] \in Recs /\ cl[c].state # FREED
  BY <1>1, RecOf DEF IInv, Good, Global, Settled
<1>4. cl[c].state \in 0 .. 5 /\ cl[c].n \in [Works -> 0 .. 1] /\ \A k \in Works : cl[c].n[k] \in {0, 1}
  BY <1>3, RecParts
<1> QED BY <1>1, <1>2, <1>3, <1>4 DEF Busy, Loose, FREED

\* A handler of c ends with exit_check() below the level of requests.
LEMMA ExitGood ==
    ASSUME NEW w, NEW c \in Clients, Busy(w, c), Exits(w, c), Leaving(w, c)
    PROVE  Good(exit_check(w, c))
<1>1. Moves(w, exit_check(w, c), c) /\ Settled(exit_check(w, c), c)
  BY ExitCheckIs DEF Busy
<1> QED BY <1>1, Finish

LEMMA ClientStart ==
    ASSUME IInv, NEW c \in Clients, client_start(c)
    PROVE  IInv'
<1> DEFINE me == cl[c]
           w == Ended(World, c, "ctl")
           v == IF Exits(w, c) THEN exit_check(w, c) ELSE Listen(w, c)
<1>1. /\ Idle(c) /\ Alive(me) /\ me.n["ctl"] > 0 /\ Becomes(v)
  BY DEF client_start, Idle, Alive
<1>2. /\ Busy(World, c) /\ Waits(me) /\ World.cl = cl /\ Loose(World, c) /\ me.state \in 1 .. 5
      /\ me.n \in [Works -> 0 .. 1] /\ "ctl" \in Works /\ me.n["ctl"] \in {0, 1}
  BY <1>1, HandlerStarts DEF Works
<1>3. me.n["ctl"] = 1
  BY <1>1, <1>2
<1>4. me.state = READY
  BY <1>2, <1>3 DEF Waits, Nothing, Only, Works, INACTIVE, READY, READING, WORKING
<1>5. /\ Only(me.n, "ctl") /\ me.newstate \in {FREED, MAX} /\ ~me.mortal /\ (me.canceled # {} => me.newstate = FREED)
  BY <1>2, <1>3, <1>4 DEF Waits, Expects
<1>6. /\ Moves(World, w, c) /\ Loose(w, c) /\ Except(me, w.cl[c], {"n", "canceled"})
      /\ w.cl[c].n = [me.n EXCEPT !["ctl"] = 0] /\ w.cl[c].canceled = me.canceled \ {"ctl"}
  BY <1>2, <1>3, EndedIs
<1> HIDE DEF w
<1>7. Busy(w, c)
  BY <1>2, <1>6, StaysBusy
<1>8. w.cl[c].state = READY /\ w.cl[c].newstate = me.newstate /\ w.cl[c].mortal = me.mortal /\ w.cl[c].tcp = me.tcp
  BY <1>4, <1>6 DEF Except, Fields
<1>9. Nothing(w.cl[c].n)
  BY <1>2, <1>5, <1>6 DEF Nothing, Only
<1>10. CASE Exits(w, c)
  <2>1. w.cl[c].newstate = FREED
    BY <1>5, <1>8, <1>10 DEF Exits, READY, MAX
  <2>2. Leaving(w, c)
    BY <1>8, <1>9, <2>1 DEF Leaving, READY, READING, WORKING, INACTIVE
  <2>3. Good(exit_check(w, c))
    BY <1>7, <1>10, <2>2, ExitGood
  <2> QED BY <1>1, <1>10, <2>3, BecomesGood
<1>11. CASE ~Exits(w, c)
  <2> DEFINE l == Listen(w, c)
             k == IF w.cl[c].tcp THEN "accept" ELSE "recv"
  <2>1. me.newstate = MAX /\ MAX # FREED
    BY <1>5, <1>8, <1>11 DEF Exits, READY, MAX, FREED
  <2>2. /\ Moves(w, l, c) /\ Loose(l, c) /\ Except(w.cl[c], l.cl[c], {"n"}) /\ Only(l.cl[c].n, k)
    BY <1>6, <1>8, <1>9, ListenIs
  <2> HIDE DEF l
  <2>3. /\ l.cl[c].state = READY /\ l.cl[c].newstate = MAX /\ ~l.cl[c].mortal /\ l.cl[c].tcp = w.cl[c].tcp
        /\ l.cl[c].canceled = {}
    BY <1>5, <1>6, <1>8, <2>1, <2>2 DEF Except, Fields
  <2>4. Expects(l.cl[c]) = k
    <3>1. l.cl[c].n["ctl"] = 0
      BY <2>2 DEF Only, Works
    <3> QED BY <2>3, <3>1 DEF Expects
  <2>5. Settled(l, c)
    BY <2>1, <2>2, <2>3, <2>4, ReadySettled
  <2>6. Good(l)
    BY <1>7, <2>2, <2>5, Finish
  <2> QED BY <1>1, <1>11, <2>6, BecomesGood DEF l
<1> QED BY <1>10, <1>11

\* Between two events a client with a request waits for exactly one thing.
LEMMA AtWork ==
    ASSUME IInv, NEW c \in Clients, Idle(c),
           cl[c].n["send"] > 0 \/ cl[c].n["update"] > 0 \/ cl[c].fetch # "none"
    PROVE  /\ Busy(World, c) /\ Loose(World, c) /\ Engaged(cl[c]) /\ Pending(cl[c]) = 1 /\ cl[c].victim = None
           /\ cl[c].references = cl[c].n["update"] + Flag(cl[c].fetch # "none")
           /\ cl[c] \in Recs /\ World \in Worlds /\ World.cl = cl
<1> DEFINE me == cl[c]
<1>1. Alive(me) /\ me.victim = None
  BY DEF Idle, Alive
<1>2. /\ Busy(World, c) /\ Waits(me) /\ World.cl = cl /\ Loose(World, c) /\ Placed(World, c) /\ me \in Recs
      /\ me.state \in 1 .. 5 /\ \A k \in Works : me.n[k] \in {0, 1}
  BY <1>1, HandlerStarts
<1>3. /\ "send" \in Works /\ "update" \in Works /\ Expects(me) \notin {"send", "update"}
  BY DEF Works, Expects
<1>4. CASE me.fetch # "none"
  BY <1>1, <1>2, <1>4 DEF Placed, Waits, Engaged, Loose, Global, WORKING
<1>5. CASE me.n["send"] > 0 \/ me.n["update"] > 0
  <2>1. ~Nothing(me.n)
    BY <1>3, <1>5 DEF Nothing
  <2>2. ~Only(me.n, Expects(me))
    BY <1>3, <1>5 DEF Only
  <2>3. ~Only(me.n, "read")
    BY <1>3, <1>5 DEF Only
  <2>4. me.state >= WORKING
    BY <1>2, <2>1, <2>2, <2>3 DEF Waits, INACTIVE, READY, READING, WORKING
  <2> QED BY <1>1, <1>2, <2>4 DEF Waits, Engaged, Loose, Global
<1> QED BY <1>4, <1>5

LEMMA ClientSenddone ==
    ASSUME IInv, NEW c \in Clients, client_senddone(c)
    PROVE  IInv'
<1> DEFINE me == cl[c]
           w == Ended(World, c, "send")
<1>1. Idle(c) /\ me.n["send"] > 0 /\ Becomes(ns_client_next(w, c, TRUE))
  BY DEF client_senddone
<1>2. /\ Busy(World, c) /\ Loose(World, c) /\ Engaged(me) /\ Pending(me) = 1 /\ me.victim = None
      /\ me.references = me.n["update"] + Flag(me.fetch # "none")
      /\ me \in Recs /\ World.cl = cl
  BY <1>1, AtWork
<1>3. "send" \in Works /\ me.n["send"] = 1 /\ me.n["update"] \in {0, 1} /\ me.n \in [Works -> 0 .. 1]
  BY <1>1, <1>2, RecParts DEF Works
<1>4. me.n["update"] = 0 /\ me.fetch = "none"
  BY <1>2, <1>3 DEF Pending, Flag
<1>5. /\ Moves(World, w, c) /\ Loose(w, c) /\ Except(me, w.cl[c], {"n", "canceled"})
      /\ w.cl[c].n = [me.n EXCEPT !["send"] = 0]
  BY <1>2, <1>3, EndedIs
<1> HIDE DEF w
<1>6. Busy(w, c)
  BY <1>2, <1>5, StaysBusy
<1>7. /\ w.cl[c].state = me.state /\ w.cl[c].newstate = me.newstate /\ w.cl[c].fetch = "none"
      /\ w.cl[c].victim = None /\ w.cl[c].references = me.references
  BY <1>2, <1>4, <1>5 DEF Except, Fields
<1>8. /\ w.cl[c].n["send"] = 0 /\ w.cl[c].n["update"] = 0
      /\ \A k \in {"accept", "recv", "read", "ctl"} : w.cl[c].n[k] = 0
  BY <1>2, <1>3, <1>4, <1>5 DEF Engaged, Works
<1>9. Engaged(w.cl[c]) /\ Pending(w.cl[c]) = 0
  BY <1>2, <1>7, <1>8 DEF Engaged, Pending, Flag
<1>10. w.cl[c].references = w.cl[c].n["update"] + Flag(w.cl[c].fetch # "none")
  BY <1>2, <1>4, <1>7, <1>8
<1>11. Good(ns_client_next(w, c, TRUE))
  BY <1>6, <1>7, <1>9, <1>10, NextGood
<1> QED BY <1>1, <1>11, BecomesGood

LEMMA UpdatedoneAction ==
    ASSUME IInv, NEW c \in Clients, NEW how \in Sendings, updatedone_action(c, how)
    PROVE  IInv'
<1> DEFINE me == cl[c]
           w == Ended(World, c, "update")
           v == ns_client_detach(ns_client_send(w, c, how), c)
<1>1. Idle(c) /\ me.n["update"] > 0 /\ Becomes(v)
  BY DEF updatedone_action
<1>2. /\ Busy(World, c) /\ Loose(World, c) /\ Engaged(me) /\ Pending(me) = 1 /\ me.victim = None
      /\ me.references = me.n["update"] + Flag(me.fetch # "none")
      /\ me \in Recs /\ World.cl = cl
  BY <1>1, AtWork
<1>3. "update" \in Works /\ me.n["update"] = 1 /\ me.n["send"] \in {0, 1} /\ me.n \in [Works -> 0 .. 1]
  BY <1>1, <1>2, RecParts DEF Works
<1>4. me.n["send"] = 0 /\ me.fetch = "none" /\ me.references = 1
  BY <1>2, <1>3 DEF Pending, Flag
<1>5. /\ Moves(World, w, c) /\ Loose(w, c) /\ Except(me, w.cl[c], {"n", "canceled"})
      /\ w.cl[c].n = [me.n EXCEPT !["update"] = 0]
  BY <1>2, <1>3, EndedIs
<1> HIDE DEF w
<1>6. Busy(w, c)
  BY <1>2, <1>5, StaysBusy
<1>7. /\ w.cl[c].state = me.state /\ w.cl[c].newstate = me.newstate /\ w.cl[c].fetch = "none"
      /\ w.cl[c].victim = None /\ w.cl[c].references = 1
  BY <1>2, <1>4, <1>5 DEF Except, Fields
<1>8. /\ w.cl[c].n["send"] = 0 /\ w.cl[c].n["update"] = 0
      /\ \A k \in {"accept", "recv", "read", "ctl"} : w.cl[c].n[k] = 0
  BY <1>2, <1>3, <1>4, <1>5 DEF Engaged, Works
<1>9. Engaged(w.cl[c]) /\ Pending(w.cl[c]) = 0
  BY <1>2, <1>7, <1>8 DEF Engaged, Pending, Flag
<1>10. Good(v)
  BY <1>6, <1>7, <1>9, SendHeld
<1> QED BY <1>1, <1>10, BecomesGood

LEMMA QueryResume ==
    ASSUME IInv, NEW c \in Clients, NEW how \in Sendings, query_resume(c, how)
    PROVE  IInv'
<1> DEFINE me == cl[c]
           w == [World EXCEPT !.cl[c].fetch = "none"]
           you == [me EXCEPT !.fetch = "none"]
           u == IF me.fetch = "running" /\ me.newstate = FREED
                  THEN ns_client_next(w, c, FALSE) ELSE ns_client_send(w, c, how)
           v == ns_client_detach(u, c)
<1>1. Idle(c) /\ me.fetch # "none" /\ Becomes(v)
  BY DEF query_resume
<1>2. /\ Busy(World, c) /\ Loose(World, c) /\ Engaged(me) /\ Pending(me) = 1 /\ me.victim = None
      /\ me.references = me.n["update"] + Flag(me.fetch # "none")
      /\ me \in Recs /\ World \in Worlds /\ World.cl = cl
  BY <1>1, AtWork
<1>3. me.n["update"] \in {0, 1} /\ me.n["send"] \in {0, 1} /\ me.n \in [Works -> 0 .. 1]
  BY <1>2, RecParts DEF Works
<1>4. me.n["send"] = 0 /\ me.n["update"] = 0 /\ me.references = 1
  BY <1>1, <1>2, <1>3 DEF Pending, Flag
<1>5. w = Put(World, c, you)
  BY <1>2 DEF Put, Worlds
<1>6. Except(me, you, {"fetch"}) /\ you.fetch = "none"
  BY <1>2 DEF Except, Fields, Recs
<1> HIDE DEF w, you
<1>7. /\ you.state = me.state /\ you.newstate = me.newstate /\ you.n = me.n /\ you.canceled = me.canceled
      /\ you.victim = None /\ you.references = 1 /\ you.timerset = me.timerset
  BY <1>2, <1>4, <1>6 DEF Except, Fields
<1>8. Fits(me, you)
  <2>1. Except(me, you, Private)
    BY <1>6 DEF Except, Private
  <2>2. Placed(World, c) /\ me.state >= WORKING /\ me.state \in 0 .. 5
    BY <1>2, RecParts DEF Loose, Engaged
  <2> QED BY <1>2, <1>7, <2>1, <2>2 DEF Fits, Placed, WORKING, READING
<1>9. Moves(World, w, c) /\ Loose(w, c) /\ w.cl[c] = you
  BY <1>2, <1>5, <1>7, <1>8, Tweak
<1>10. Busy(w, c)
  BY <1>2, <1>9, StaysBusy
<1>11. Engaged(you) /\ Pending(you) = 0
  BY <1>2, <1>4, <1>6, <1>7 DEF Engaged, Pending, Flag
<1>12. /\ Good(ns_client_detach(ns_client_send(w, c, how), c))
       /\ Good(ns_client_detach(ns_client_next(w, c, FALSE), c))
  BY <1>7, <1>9, <1>10, <1>11, SendHeld
<1>13. Good(v)
  BY <1>12
<1> QED BY <1>1, <1>13, BecomesGood

LEMMA ClientTimeout ==
    ASSUME IInv, NEW c \in Clients, client_timeout(c)
    PROVE  IInv'
<1> DEFINE me == cl[c]
           s == Lower(me.newstate, READY)
           w == Aim(World, c, s)
<1>1. Idle(c) /\ Alive(me) /\ me.timerset /\ me.victim = None
  BY DEF client_timeout, Idle, Alive
<1>2. /\ Busy(World, c) /\ Waits(me) /\ World.cl = cl /\ Loose(World, c) /\ Placed(World, c) /\ me \in Recs
      /\ me.state \in 1 .. 5
  BY <1>1, HandlerStarts
<1>3. Becomes(exit_check(w, c))
  BY <1>2 DEF client_timeout, Aim, Loose, Global, Worlds
<1>4. me.newstate \in {0, 1, 2, 3, 4, 5, 9} /\ me.state >= READING
  BY <1>1, <1>2, RecParts DEF Placed, READING
<1>5. /\ s \in NewStates /\ (s = FREED <=> me.newstate = FREED) /\ s # READING
      /\ (me.newstate # INACTIVE => s \in {FREED, READY})
  BY <1>4 DEF Lower, NewStates, FREED, INACTIVE, READY, READING
<1> HIDE DEF s
<1>6. Moves(World, w, c) /\ Loose(w, c) /\ Except(me, w.cl[c], {"newstate"}) /\ w.cl[c].newstate = s
  BY <1>2, <1>5, AimIs
<1> HIDE DEF w
<1>7. Busy(w, c)
  BY <1>2, <1>6, StaysBusy
<1>8. /\ w.cl[c].state = me.state /\ w.cl[c].n = me.n /\ w.cl[c].tcp = me.tcp /\ w.cl[c].victim = None
      /\ w.cl[c].fetch = me.fetch /\ w.cl[c].references = me.references
  BY <1>1, <1>6 DEF Except, Fields
<1>9. me.newstate # INACTIVE
  BY <1>2, <1>4 DEF Waits, INACTIVE, FREED, READY, READING, WORKING, MAX
<1>10. Exits(w, c)
  BY <1>2, <1>4, <1>5, <1>6, <1>8, <1>9 DEF Exits, FREED, READY, READING
<1>11. CASE me.state = READING
  <2>1. me.tcp /\ Only(me.n, "read")
    BY <1>2, <1>11 DEF Waits
  <2>2. Leaving(w, c)
    BY <1>5, <1>6, <1>8, <1>9, <1>11, <2>1 DEF Leaving, INACTIVE, READY, READING, WORKING
  <2>3. Good(exit_check(w, c))
    BY <1>7, <1>10, <2>2, ExitGood
  <2> QED BY <1>3, <2>3, BecomesGood
<1>12. CASE me.state >= WORKING
  <2>1. /\ Pending(me) = 1 /\ \A k \in {"accept", "recv", "read", "ctl"} : me.n[k] = 0
        /\ me.references = me.n["update"] + Flag(me.fetch # "none")
    BY <1>2, <1>12 DEF Waits
  <2>2. Pending(w.cl[c]) = 1
    BY <1>1, <1>8, <2>1 DEF Pending
  <2>3. Engaged(w.cl[c])
    BY <1>5, <1>6, <1>8, <1>9, <1>12, <2>1 DEF Engaged, FREED, READY, WORKING, INACTIVE
  <2>4. Good(exit_check(w, c))
    BY <1>7, <1>8, <1>10, <2>1, <2>2, <2>3, CheckIs
  <2> QED BY <1>3, <2>4, BecomesGood
<1> QED BY <1>2, <1>4, <1>11, <1>12 DEF READING, WORKING

LEMMA ClientRequest ==
    ASSUME IInv, NEW c \in Clients, NEW what \in Requests, NEW how \in Sendings, client_request(c, what, how)
    PROVE  IInv'
<1> DEFINE me == cl[c]
           k == IF me.tcp THEN "read" ELSE "recv"
           w == Ended(World, c, k)
           v == [w EXCEPT !.cl[c].state = WORKING, !.cl[c].newstate = WORKING]
           u == IF Exits(w, c) THEN exit_check(w, c) ELSE Work(v, c, what, how)
<1>1. Idle(c) /\ Alive(me) /\ me.n[k] > 0 /\ Becomes(u) /\ me.victim = None
  BY DEF client_request, Idle, Alive
<1>2. /\ Busy(World, c) /\ Waits(me) /\ World.cl = cl /\ Loose(World, c) /\ Placed(World, c) /\ me \in Recs
      /\ me.state \in 1 .. 5 /\ me.n \in [Works -> 0 .. 1] /\ \A j \in Works : me.n[j] \in {0, 1}
  BY <1>1, HandlerStarts
<1>3. k \in {"read", "recv"} /\ k \in Works /\ k # "accept"
  BY DEF Works
<1>4. me.n[k] = 1
  BY <1>1, <1>2, <1>3
<1>5. (me.tcp <=> k = "read") /\ me.tcp \in BOOLEAN
  BY <1>2, RecParts
<1> HIDE DEF k
<1>6. Only(me.n, k) /\ me.state \in {READY, READING}
  <2>1. CASE me.state = INACTIVE
    BY <1>2, <1>3, <1>4, <2>1 DEF Waits, Nothing
  <2>2. CASE me.state = READY
    <3>1. Only(me.n, Expects(me))
      BY <1>2, <2>2 DEF Waits
    <3>2. Expects(me) = k
      BY <1>3, <1>4, <3>1 DEF Only
    <3> QED BY <2>2, <3>1, <3>2
  <2>3. CASE me.state = READING
    <3>1. Only(me.n, "read")
      BY <1>2, <2>3 DEF Waits
    <3>2. k = "read"
      BY <1>3, <1>4, <3>1 DEF Only
    <3> QED BY <2>3, <3>1, <3>2
  <2>4. CASE me.state >= WORKING
    BY <1>2, <1>3, <1>4, <2>4 DEF Waits
  <2> QED BY <1>2, <2>1, <2>2, <2>3, <2>4 DEF INACTIVE, READY, READING, WORKING
<1>7. /\ Moves(World, w, c) /\ Loose(w, c) /\ Except(me, w.cl[c], {"n", "canceled"})
      /\ w.cl[c].n = [me.n EXCEPT ![k] = 0] /\ w.cl[c].canceled = me.canceled \ {k}
  BY <1>2, <1>3, <1>4, EndedIs
<1> HIDE DEF w
<1>8. Busy(w, c)
  BY <1>2, <1>7, StaysBusy
<1> DEFINE a == w.cl[c]
<1>9. /\ a.state = me.state /\ a.newstate = me.newstate /\ a.mortal = me.mortal /\ a.tcp = me.tcp
      /\ a.references = me.references /\ a.fetch = me.fetch /\ a.victim = None /\ a.recursionquota = me.recursionquota
      /\ a.timerset = me.timerset
  BY <1>1, <1>7 DEF Except, Fields
<1>10. Nothing(a.n) /\ a \in Recs
  BY <1>2, <1>3, <1>6, <1>7 DEF Nothing, Only, Except
<1>11. /\ me.references = 0 /\ me.fetch = "none" /\ ~me.recursionquota
  BY <1>2, <1>6 DEF Placed, READY, READING, WORKING
<1>12. CASE Exits(w, c)
  <2>1. me.newstate < me.state
    BY <1>9, <1>12 DEF Exits
  <2>2. ASSUME me.state = READY PROVE Leaving(w, c)
    <3>1. me.newstate = FREED
      BY <1>2, <2>1, <2>2 DEF Waits, READY, MAX
    <3> QED BY <1>9, <1>10, <2>2, <3>1 DEF Leaving, INACTIVE, READY, READING, WORKING
  <2>3. ASSUME me.state = READING PROVE Leaving(w, c)
    <3>1. me.newstate \in {FREED, READY}
      BY <1>2, <2>1, <2>3 DEF Waits, READING, MAX
    <3> QED BY <1>9, <1>10, <2>3, <3>1 DEF Leaving, INACTIVE, READY, READING, WORKING
  <2>4. Leaving(w, c)
    BY <1>6, <2>2, <2>3
  <2>5. Good(exit_check(w, c))
    BY <1>8, <1>12, <2>4, ExitGood
  <2> QED BY <1>1, <1>12, <2>5, BecomesGood
<1>13. CASE ~Exits(w, c)
  <2>1. me.newstate # FREED
    BY <1>6, <1>9, <1>13 DEF Exits, FREED, READY, READING
  <2> DEFINE you == [a EXCEPT !.state = WORKING, !.newstate = WORKING]
  <2>2. v = Put(w, c, you)
    BY <1>7, <1>10 DEF Put, Loose, Global, Worlds
  <2>3. Except(a, you, {"state", "newstate"}) /\ you.state = WORKING /\ you.newstate = WORKING
    <3>1. WORKING \in States /\ WORKING \in NewStates
      BY DEF States, NewStates, WORKING, FREED, RECURSING
    <3> QED BY <1>10, <3>1 DEF Except, Fields, Recs
  <2> HIDE DEF you, v
  <2>4. /\ you.n = a.n /\ you.canceled = a.canceled /\ you.references = 0 /\ you.fetch = "none"
        /\ you.victim = None /\ you.timerset = a.timerset /\ ~you.recursionquota
    BY <1>9, <1>11, <2>3 DEF Except, Fields
  <2>5. Fits(a, you)
    <3>1. Except(a, you, Private)
      BY <2>3 DEF Except, Private
    <3>2. Placed(w, c)
      BY <1>7 DEF Loose
    <3>3. \A j \in you.canceled : you.n[j] = 1
      BY <2>4, <3>2 DEF Placed
    <3>4. a.state >= READY /\ a.newstate # FREED /\ a.state \in {READY, READING, WORKING}
      BY <1>6, <1>9, <2>1 DEF READY, READING
    <3> QED BY <2>3, <2>4, <3>1, <3>3, <3>4 DEF Fits, FREED, READY, READING, WORKING
  <2>6. Moves(w, v, c) /\ Loose(v, c) /\ v.cl[c] = you
    BY <1>7, <2>2, <2>4, <2>5, Tweak
  <2>7. Busy(v, c)
    BY <1>8, <2>6, StaysBusy
  <2>8. Engaged(you) /\ Pending(you) = 0
    BY <1>10, <2>3, <2>4 DEF Engaged, Pending, Flag, Nothing, Works, WORKING, INACTIVE
  <2>9. Begun(v, c)
    BY <2>3, <2>4, <2>6, <2>7, <2>8 DEF Begun
  <2>10. Good(Work(v, c, what, how))
    BY <2>4, <2>6, <2>9, WorkGood
  <2> QED BY <1>1, <1>13, <2>10, BecomesGood
<1> QED BY <1>12, <1>13

-----------------------------------------------------------------------------
(* A connection *)

LEMMA ClientNewconn ==
    ASSUME IInv, NEW c \in Clients, NEW ok \in BOOLEAN, NEW blackholed \in BOOLEAN,
           client_newconn(c, ok, blackholed)
    PROVE  IInv'
<1> DEFINE me == cl[c]
           h == me.home
           w1 == [Ended(World, c, "accept") EXCEPT
                     !.ifp[cl[c].interface].ntcpcurrent = @ - 1,
                     !.cl[c].state = IF ok THEN READING ELSE @]
           q  == isc_quota_reserve(w1, "tcp")
           w2 == IF q = "quota" THEN w1
                 ELSE IF q = "success" THEN ns_client_replace(attach_tcp(w1, c), c)
                 ELSE attach_tcp(w1, c)
           v  == CASE Exits(w1, c) -> exit_check(w1, c)
                   [] ~Exits(w1, c) /\ ~ok -> w1
                   [] ~Exits(w1, c) /\ ok /\ blackholed -> exit_check(Aim(w1, c, READY), c)
                   [] OTHER -> client_read(w2, c)
<1>1. /\ Idle(c) /\ Alive(me) /\ me.n["accept"] > 0 /\ Becomes(v) /\ me.victim = None
      /\ (ok \/ "accept" \in me.canceled)
  BY DEF client_newconn, Idle, Alive, Aim
<1>2. /\ Busy(World, c) /\ Waits(me) /\ World.cl = cl /\ World.ifp = ifp /\ Loose(World, c) /\ Placed(World, c)
      /\ me \in Recs /\ World \in Worlds
      /\ me.state \in 1 .. 5 /\ me.n \in [Works -> 0 .. 1] /\ \A j \in Works : me.n[j] \in {0, 1}
  BY <1>1, HandlerStarts DEF Loose, Global
<1>3. "accept" \in Works /\ me.n["accept"] = 1
  BY <1>1, <1>2, SMTT(40) DEF Works
<1>4. me.state = READY
  BY <1>2, <1>3 DEF Waits, Nothing, Only, INACTIVE, READY, READING, WORKING
<1>5. /\ Only(me.n, "accept") /\ me.tcp /\ ~me.mortal /\ me.newstate \in {FREED, MAX}
      /\ (me.canceled # {} => me.newstate = FREED)
  <2>1. Only(me.n, Expects(me))
    BY <1>2, <1>4 DEF Waits
  <2>2. Expects(me) = "accept"
    BY <1>3, <2>1 DEF Only
  <2>3. me.tcp
    BY <2>2 DEF Expects
  <2> QED BY <1>2, <1>4, <2>1, <2>2, <2>3 DEF Waits
<1>6. me.canceled \subseteq {"accept"}
  BY <1>2, <1>5, RecParts DEF Placed, Only
<1>7. /\ h \in Interfaces /\ me.interface = h /\ ifp[h] \in Ifps /\ ifp \in [Interfaces -> Ifps]
      /\ ~me.tcpquota /\ ~me.timerset
  BY <1>2, <1>4 DEF Placed, READY, READING, Worlds
\* The accept has ended.
<1> DEFINE nn == [me.n EXCEPT !["accept"] = 0]
           st == IF ok THEN READING ELSE READY
           you == [me EXCEPT !.n = nn, !.canceled = {}, !.state = st]
           f == More(ifp[h], -1)
<1>8. /\ w1.cl = [cl EXCEPT ![c] = you] /\ w1.mgr = World.mgr /\ w1.used = World.used
      /\ w1.ifp = [ifp EXCEPT ![h] = f]
      /\ w1 = [cl |-> w1.cl, ifp |-> w1.ifp, mgr |-> w1.mgr, used |-> w1.used]
  <2>1. me.n["accept"] - 1 = 0 /\ me.canceled \ {"accept"} = {}
    BY <1>3, <1>6
  <2>2. ifp[h].ntcpcurrent - 1 = ifp[h].ntcpcurrent + (-1)
    BY <1>7 DEF Ifps
  <2> DEFINE w0 == Ended(World, c, "accept")
             i == cl[c].interface
             old == [me EXCEPT !.n = nn, !.canceled = {}]
  <2>21. w0 = Put(World, c, old)
    BY <1>2, <2>1 DEF Ended, Put, Worlds
  <2>3. /\ w0.cl = [cl EXCEPT ![c] = old] /\ w0.mgr = World.mgr /\ w0.used = World.used /\ w0.ifp = ifp
        /\ w0 = [cl |-> w0.cl, ifp |-> w0.ifp, mgr |-> w0.mgr, used |-> w0.used]
    <3> HIDE DEF w0, old
    <3> QED BY <1>2, <2>21 DEF Put, Worlds
  <2>4. w0.cl[c] = old /\ old.state = READY
    BY <1>2, <1>4, <2>3 DEF Worlds, Recs
  <2>5. w1 = [w0 EXCEPT !.ifp[h].ntcpcurrent = @ - 1, !.cl[c].state = st]
    BY <1>7, <2>4
  <2> HIDE DEF w0, w1, st, nn
  <2>6. /\ w1.mgr = w0.mgr /\ w1.used = w0.used
        /\ w1 = [cl |-> w1.cl, ifp |-> w1.ifp, mgr |-> w1.mgr, used |-> w1.used]
    BY <2>3, <2>5
  <2>7. w1.ifp = [ifp EXCEPT ![h] = f]
    BY <1>7, <2>2, <2>3, <2>5 DEF More
  <2>8. w1.cl = [w0.cl EXCEPT ![c].state = st]
    BY <2>3, <2>5
  <2>9. w1.cl = [cl EXCEPT ![c] = you]
    BY <1>2, <2>3, <2>4, <2>8 DEF Worlds, Recs
  <2> QED BY <2>3, <2>6, <2>7, <2>9
<1>9. nn \in [Works -> 0 .. 1] /\ nn["accept"] = 0 /\ Nothing(nn)
  BY <1>2, <1>5 DEF Works, Only, Nothing
<1>10. st \in {READY, READING} /\ st \in States /\ (ok => st = READING) /\ (~ok => st = READY)
  BY DEF States, READY, READING, FREED, RECURSING
<1> HIDE DEF nn, st
<1>11. Except(me, you, {"n", "canceled", "state"}) /\ you.n = nn /\ you.canceled = {} /\ you.state = st
  BY <1>2, <1>9, <1>10 DEF Except, Fields, Recs
<1>12. /\ f \in Ifps /\ f.ntcpcurrent = ifp[h].ntcpcurrent - 1
       /\ f.references = ifp[h].references /\ f.life = ifp[h].life
  <2>1. -1 \in Int /\ ifp[h].ntcpcurrent \in Int
    BY <1>7 DEF Ifps
  <2> QED BY <1>7, <2>1, MoreIs
<1> HIDE DEF you, f, w1
<1>13. /\ w1.cl[c] = you /\ \A x \in Clients : x # c => w1.cl[x] = cl[x]
       /\ w1.cl \in [Clients -> Recs]
  BY <1>2, <1>8, <1>11 DEF Worlds, Except
<1>14. /\ w1.ifp[h] = f /\ \A i \in Interfaces : i # h => w1.ifp[i] = ifp[i]
       /\ w1.ifp \in [Interfaces -> Ifps]
  BY <1>7, <1>8, <1>12
<1>15. w1 \in Worlds
  <2>1. w1.cl \in [Clients -> Recs] /\ w1.mgr = World.mgr /\ w1.ifp \in [Interfaces -> Ifps] /\ w1.used = World.used
    BY <1>8, <1>13, <1>14
  <2> QED BY <1>2, <1>8, <2>1 DEF Worlds
<1>16. /\ you.newstate = me.newstate /\ you.timerset = me.timerset /\ you.references = me.references
       /\ you.fetch = me.fetch /\ you.victim = me.victim /\ you.tcp = me.tcp /\ you.mortal = me.mortal
       /\ you.tcpquota = me.tcpquota /\ you \in Recs
  BY <1>11 DEF Except, Fields
<1>17. Fits(me, you)
  <2>1. Except(me, you, Private)
    BY <1>11 DEF Except, Private
  <2>2. you.state >= READY /\ me.state >= READY
    BY <1>4, <1>10, <1>11 DEF READY, READING
  <2>3. you.state < WORKING /\ me.state < WORKING
    BY <1>4, <1>10, <1>11 DEF READY, READING, WORKING
  <2> QED BY <1>2, <1>4, <1>7, <1>11, <1>16, <2>1, <2>2, <2>3 DEF Fits, Placed
<1>18. Moves(World, w1, c) /\ Loose(w1, c)
  <2>1. ASSUME NEW i \in Interfaces
        PROVE  /\ w1.ifp[i].ntcpcurrent = World.ifp[i].ntcpcurrent
                     + (IF i = World.cl[c].home THEN w1.cl[c].n["accept"] - World.cl[c].n["accept"] ELSE 0)
               /\ w1.ifp[i].references = World.ifp[i].references /\ w1.ifp[i].life = World.ifp[i].life
    <3>1. ifp[i].ntcpcurrent \in Int
      BY <1>7 DEF Ifps
    <3>2. w1.cl[c].n["accept"] - me.n["accept"] = -1
      BY <1>3, <1>9, <1>11, <1>13
    <3> QED BY <1>2, <1>12, <1>14, <3>1, <3>2
  <2>2. Fits(World.cl[c], w1.cl[c]) /\ World.cl[c].state = READY
    BY <1>2, <1>4, <1>13, <1>17
  <2>3. \A x \in Clients : x # c => w1.cl[x] = World.cl[x]
    BY <1>2, <1>13
  <2>4. \A i \in Interfaces :
           /\ w1.ifp[i].ntcpcurrent = World.ifp[i].ntcpcurrent
                 + (IF i = World.cl[c].home THEN w1.cl[c].n["accept"] - World.cl[c].n["accept"] ELSE 0)
           /\ w1.ifp[i].references = World.ifp[i].references /\ w1.ifp[i].life = World.ifp[i].life
    BY <2>1
  <2>5. w1.mgr = World.mgr /\ w1.used = World.used /\ Loose(World, c)
    BY <1>2, <1>8
  <2> QED BY <1>15, <2>2, <2>3, <2>4, <2>5, AcceptTweak
<1>19. Busy(w1, c)
  BY <1>2, <1>18, StaysBusy
<1>20. CASE Exits(w1, c)
  <2>1. me.newstate = FREED
    BY <1>5, <1>10, <1>11, <1>13, <1>16, <1>20 DEF Exits, READY, READING, MAX
  <2>2. Leaving(w1, c)
    BY <1>9, <1>10, <1>11, <1>13, <1>16, <2>1 DEF Leaving, INACTIVE, READY, READING, WORKING
  <2>3. Good(exit_check(w1, c))
    BY <1>19, <1>20, <2>2, ExitGood
  <2>4. v = exit_check(w1, c)
    BY <1>20
  <2> QED BY <1>1, <2>3, <2>4, BecomesGood
<1>21. CASE ~Exits(w1, c)
  <2>1. me.newstate = MAX
    BY <1>5, <1>10, <1>11, <1>13, <1>16, <1>21 DEF Exits, READY, READING, FREED
  <2>2. ok /\ you.state = READING
    BY <1>1, <1>5, <1>10, <1>11, <2>1 DEF FREED, MAX
  <2>3. CASE blackholed
    <3> DEFINE u == Aim(w1, c, READY)
    <3>1. /\ READY \in NewStates /\ READY # FREED /\ READY # READING /\ MAX # FREED
      BY DEF NewStates, READY, FREED, READING, MAX
    <3>2. Moves(w1, u, c) /\ Loose(u, c) /\ Except(you, u.cl[c], {"newstate"}) /\ u.cl[c].newstate = READY
      BY <1>13, <1>16, <1>18, <2>1, <3>1, AimIs
    <3>3. v = exit_check(u, c)
      BY <1>21, <2>2, <2>3
    <3> HIDE DEF u, v
    <3>4. u.cl[c].state = READING /\ u.cl[c].n = nn
      BY <1>11, <2>2, <3>2 DEF Except, Fields
    <3>5. Busy(u, c)
      BY <1>19, <3>2, StaysBusy
    <3>6. Exits(u, c)
      BY <3>2, <3>4 DEF Exits, READY, READING
    <3>7. Leaving(u, c)
      BY <1>9, <3>2, <3>4 DEF Leaving, INACTIVE, READY, READING, WORKING
    <3>8. Good(exit_check(u, c))
      BY <3>5, <3>6, <3>7, ExitGood
    <3> QED BY <1>1, <3>3, <3>8, BecomesGood
  <2>4. CASE ~blackholed
    <3>1. v = client_read(w2, c)
      BY <1>21, <2>2, <2>4
    <3>2. Busy(w2, c) /\ Except(you, w2.cl[c], {"tcpquota", "mortal"})
      <4> DEFINE a == attach_tcp(w1, c)
                 r == ns_client_replace(a, c)
      <4>1. /\ Moves(w1, a, c) /\ Loose(a, c) /\ Except(you, a.cl[c], {"tcpquota"})
        <5>1. ~w1.cl[c].tcpquota /\ w1.cl[c].state >= READING
          BY <1>7, <1>13, <1>16, <2>2 DEF READING
        <5> QED BY <1>13, <1>18, <5>1, AttachTcpIs
      <4> HIDE DEF a
      <4>2. Busy(a, c)
        BY <1>19, <4>1, StaysBusy
      <4>3. a.cl[c].state = READING /\ ~a.cl[c].mortal
        BY <1>5, <1>16, <2>2, <4>1 DEF Except, Fields
      <4>4. Busy(r, c) /\ Except(a.cl[c], r.cl[c], {"mortal"})
        <5>1. CASE CanGet(a, a.cl[c].interface)
          BY <4>2, <4>3, <5>1, ReplaceIs DEF READING, READY
        <5>2. CASE ~CanGet(a, a.cl[c].interface)
          <6>1. r = a
            BY <5>2 DEF ns_client_replace
          <6> QED BY <4>1, <4>2, <6>1 DEF Except
        <5> QED BY <5>1, <5>2
      <4> HIDE DEF r
      <4>5. Except(you, r.cl[c], {"tcpquota", "mortal"}) /\ Except(you, a.cl[c], {"tcpquota", "mortal"})
        BY <4>1, <4>4 DEF Except
      <4>6. Except(you, w1.cl[c], {"tcpquota", "mortal"})
        BY <1>13, <1>16 DEF Except
      <4>7. w2 \in {w1, r, a}
        BY DEF a, r
      <4> QED BY <1>19, <4>2, <4>4, <4>5, <4>6, <4>7
    <3> DEFINE l == client_read(w2, c)
    <3> HIDE DEF w2, v
    <3>3. /\ w2.cl[c].state = READING /\ w2.cl[c].n = nn /\ w2.cl[c].tcp /\ w2.cl[c].newstate = MAX
          /\ w2.cl[c].canceled = {}
      BY <1>5, <1>11, <1>16, <2>1, <2>2, <3>2 DEF Except, Fields
    <3>4. /\ Moves(w2, l, c) /\ Loose(l, c) /\ Except(w2.cl[c], l.cl[c], {"n", "newstate", "timerset"})
          /\ Only(l.cl[c].n, "read") /\ l.cl[c].newstate = READING
      BY <1>9, <3>2, <3>3, ClientReadIs DEF Busy, MAX, FREED
    <3> HIDE DEF l
    <3>5. l.cl[c].state = READING /\ l.cl[c].tcp /\ l.cl[c].canceled = {}
      BY <3>3, <3>4 DEF Except, Fields
    <3>6. Settled(l, c)
      BY <3>4, <3>5, ReadingSettled DEF READING
    <3>7. Good(l)
      BY <3>2, <3>4, <3>6, Finish
    <3> QED BY <1>1, <3>1, <3>7, BecomesGood DEF l
  <2> QED BY <2>3, <2>4
<1> QED BY <1>20, <1>21

-----------------------------------------------------------------------------
(* The oldest query is canceled *)

LEMMA QueryCancelGood ==
    ASSUME NEW w, NEW x \in Clients, Good(w)
    PROVE  LET v == ns_query_cancel(w, x) IN
           Good(v) /\ \A c \in Clients : w.cl[c].fetch # "running" => v.cl[c] = w.cl[c]
<1> DEFINE me == w.cl[x]
           v == ns_query_cancel(w, x)
<1>1. w \in Worlds /\ me \in Recs /\ Settled(w, x)
  BY RecOf DEF Good, Global
<1>2. CASE me.fetch # "running"
  <2>1. me = [me EXCEPT !.fetch = me.fetch]
    BY <1>1 DEF Recs
  <2>2. w.cl = [w.cl EXCEPT ![x] = me]
    BY <1>1 DEF Worlds
  <2>3. v = [w EXCEPT !.cl[x].fetch = me.fetch]
    BY <1>2 DEF ns_query_cancel
  <2>4. v = [w EXCEPT !.cl = [w.cl EXCEPT ![x] = [me EXCEPT !.fetch = me.fetch]]]
    BY <1>1, <2>3 DEF Worlds
  <2>5. w = [w EXCEPT !.cl = w.cl]
    BY <1>1 DEF Worlds
  <2>6. v = w
    BY <2>1, <2>2, <2>4, <2>5
  <2> QED BY <2>6
<1>3. CASE me.fetch = "running"
  <2> DEFINE you == [me EXCEPT !.fetch = "canceled"]
  <2>1. v = Put(w, x, you)
    BY <1>1, <1>3 DEF ns_query_cancel, Put, Worlds
  <2>2. Except(me, you, {"fetch"}) /\ you.fetch = "canceled"
    BY <1>1 DEF Except, Fields, Recs
  <2> HIDE DEF v, you
  <2>3. Alive(me)
    BY <1>1, <1>3 DEF Settled, NoClient
  <2>4. Busy(w, x) /\ Waits(me) /\ Loose(w, x) /\ Placed(w, x)
    BY <2>3, GoodBusy DEF Busy, Loose
  <2>5. me.state >= WORKING /\ me.state \in 0 .. 5
    BY <1>1, <1>3, <2>4, RecParts DEF Placed, WORKING
  <2>6. /\ you.state = me.state /\ you.newstate = me.newstate /\ you.n = me.n /\ you.canceled = me.canceled
        /\ you.victim = me.victim /\ you.references = me.references /\ you.timerset = me.timerset
    BY <2>2 DEF Except, Fields
  <2>7. Fits(me, you)
    <3>1. Except(me, you, Private)
      BY <2>2 DEF Except, Private
    <3> QED BY <2>4, <2>5, <2>6, <3>1 DEF Fits, Placed, WORKING, READING
  <2>8. Moves(w, v, x) /\ Loose(v, x) /\ v.cl[x] = you
    BY <2>1, <2>4, <2>6, <2>7, Tweak
  <2>9. /\ Engaged(me) /\ Pending(me) = 1 /\ me.references = me.n["update"] + Flag(me.fetch # "none")
        /\ (me.victim # None => me.state = WORKING /\ me.newstate = WORKING)
    BY <2>4, <2>5 DEF Waits, Engaged
  <2>10. Flag(you.fetch # "none") = Flag(me.fetch # "none")
    BY <1>3, <2>2
  <2>11. Engaged(you) /\ Pending(you) = 1 /\ you.references = you.n["update"] + Flag(you.fetch # "none")
    BY <2>6, <2>9, <2>10 DEF Engaged, Pending
  <2>12. Settled(v, x)
    BY <2>6, <2>8, <2>9, <2>11, EngagedSettled
  <2>13. Good(v)
    BY <2>4, <2>8, <2>12, Finish
  <2>14. \A c \in Clients : c # x => v.cl[c] = w.cl[c]
    BY <2>8 DEF Moves, Aside
  <2> QED BY <1>3, <2>13, <2>14 DEF v
<1> QED BY <1>2, <1>3

LEMMA QueryRecurseCancel ==
    ASSUME IInv, NEW c \in Clients, NEW fetched \in BOOLEAN, NEW how \in Sendings,
           query_recurse_cancel(c, fetched, how)
    PROVE  IInv'
<1> DEFINE me == cl[c]
           x == me.victim
           w == ns_query_cancel(World, x)
           v == [w EXCEPT !.cl[c].victim = None]
           u == IF me.recursionquota THEN Recurse(v, c, fetched, how) ELSE ns_client_send(v, c, how)
<1>1. x # None /\ Becomes(u)
  BY DEF query_recurse_cancel
<1>2. World \in Worlds /\ World.cl = cl /\ me \in Recs /\ Settled(World, c) /\ Good(World)
  BY RecOf DEF IInv, Good, Global, World
<1>3. x \in Clients
  BY <1>1, <1>2 DEF Recs
<1>4. Alive(me)
  BY <1>1, <1>2 DEF Settled, NoClient
<1>5. Waits(me) /\ Placed(World, c) /\ me.state \in 1 .. 5 /\ \A k \in Works : me.n[k] \in {0, 1}
  BY <1>4, HandlerStarts
<1>6. me.state >= WORKING
  BY <1>1, <1>2, <1>5 DEF Placed, WORKING
<1>7. /\ me.state = WORKING /\ me.newstate = WORKING /\ Engaged(me) /\ Pending(me) = 1
      /\ me.references = me.n["update"] + Flag(me.fetch # "none")
  BY <1>1, <1>5, <1>6 DEF Waits, Engaged
<1>8. me.n["send"] = 0 /\ me.n["update"] = 0 /\ me.fetch = "none" /\ me.references = 0
  <2>1. me.n["send"] \in {0, 1} /\ me.n["update"] \in {0, 1}
    BY <1>5 DEF Works
  <2> QED BY <1>1, <1>7, <2>1 DEF Pending, Flag
<1>9. Good(w) /\ w.cl[c] = me
  BY <1>2, <1>3, <1>8, QueryCancelGood
<1> HIDE DEF w
<1>10. Busy(w, c) /\ Loose(w, c) /\ w \in Worlds
  BY <1>4, <1>9, GoodBusy DEF Busy, Loose, Global
<1> DEFINE you == [me EXCEPT !.victim = None]
<1>11. v = Put(w, c, you)
  BY <1>9, <1>10 DEF Put, Worlds
<1>12. Except(me, you, {"victim"}) /\ you.victim = None
  BY <1>2 DEF Except, Fields, Recs
<1> HIDE DEF v, you
<1>13. /\ you.state = WORKING /\ you.newstate = WORKING /\ you.n = me.n /\ you.canceled = me.canceled
       /\ you.fetch = "none" /\ you.references = 0 /\ you.timerset = me.timerset
       /\ you.recursionquota = me.recursionquota
  BY <1>7, <1>8, <1>12 DEF Except, Fields
<1>14. Fits(me, you)
  <2>1. Except(me, you, Private)
    BY <1>12 DEF Except, Private
  <2>2. ~(WORKING < READING) /\ ~(WORKING < WORKING) /\ WORKING # READING
    BY DEF READING, WORKING
  <2> QED BY <1>2, <1>5, <1>7, <1>13, <2>1, <2>2 DEF Fits, Placed
<1>15. Moves(w, v, c) /\ Loose(v, c) /\ v.cl[c] = you
  BY <1>9, <1>10, <1>11, <1>13, <1>14, Tweak
<1>16. Busy(v, c)
  BY <1>10, <1>15, StaysBusy
<1>17. Engaged(you) /\ Pending(you) = 0
  BY <1>7, <1>8, <1>12, <1>13 DEF Engaged, Pending, Flag
<1>18. Begun(v, c)
  BY <1>12, <1>13, <1>15, <1>16, <1>17 DEF Begun
<1>19. Good(Recurse(v, c, fetched, how)) /\ Good(ns_client_send(v, c, how))
  BY <1>18, RecurseGood, SendGood DEF Begun
<1>20. Good(u)
  BY <1>19
<1> QED BY <1>1, <1>20, BecomesGood

-----------------------------------------------------------------------------
(* A client is told to go *)

\* client_shutdown() up to exit_check().
Dismissed(w, c) ==
    [w EXCEPT !.cl[c].task = "down", !.cl[c].newstate = FREED,
              !.mgr[w.cl[c].home].inactive = Without(@, {c})]

LEMMA DismissedIs ==
    ASSUME NEW w, NEW c \in Clients, Loose(w, c), w.cl[c].task = "told"
    PROVE  LET v == Dismissed(w, c) IN
           /\ Moves(w, v, c) /\ Loose(v, c) /\ Except(w.cl[c], v.cl[c], {"task", "newstate"})
           /\ v.cl[c].newstate = FREED
           /\ \A i \in Interfaces : c \notin Range(v.mgr[i].inactive)
<1> DEFINE me  == w.cl[c]
           h   == me.home
           you == [me EXCEPT !.task = "down", !.newstate = FREED]
           q   == Without(w.mgr[h].inactive, {c})
           m   == [w.mgr[h] EXCEPT !.inactive = q]
           v   == Dismissed(w, c)
<1>1. /\ w \in Worlds /\ Global(w) /\ me \in Recs /\ Alive(me) /\ Placed(w, c) /\ Listed(w, c)
      /\ h \in Interfaces
  BY RecOf DEF Loose, Global, Placed
<1>2. w.mgr \in [Interfaces -> Mgrs] /\ w.mgr[h] \in Mgrs /\ w.mgr[h].inactive \in Seq(Clients)
  BY <1>1 DEF Worlds, Mgrs
<1>3. /\ v.cl = [w.cl EXCEPT ![c] = you] /\ v.ifp = w.ifp /\ v.used = w.used
      /\ v.mgr = [w.mgr EXCEPT ![h] = m]
  BY <1>1 DEF Dismissed, Worlds
<1>4. Except(me, you, {"task", "newstate"}) /\ you.task = "down" /\ you.newstate = FREED
  <2>1. FREED \in NewStates
    BY DEF NewStates
  <2> QED BY <1>1, <2>1 DEF Except, Fields, Recs
<1>5. /\ q \in Seq(Clients)
      /\ \A x : x \in Range(q) <=> x \in Range(w.mgr[h].inactive) /\ x # c
  BY <1>2, WithoutIs
<1> HIDE DEF q
<1>6. /\ m \in Mgrs /\ m.inactive = q /\ m.recursing = w.mgr[h].recursing /\ m.life = w.mgr[h].life
      /\ m.clients = w.mgr[h].clients
  BY <1>2, <1>5 DEF Mgrs
<1> HIDE DEF you, m, v
<1>7. /\ v.cl[c] = you /\ \A x \in Clients : x # c => v.cl[x] = w.cl[x]
      /\ v.cl \in [Clients -> Recs]
  BY <1>1, <1>3, <1>4 DEF Worlds, Except
<1>8. /\ v.mgr[h] = m /\ \A i \in Interfaces : i # h => v.mgr[i] = w.mgr[i]
      /\ v.mgr \in [Interfaces -> Mgrs]
  BY <1>1, <1>2, <1>3, <1>6
<1>9. v \in Worlds
  <2>1. v.cl \in [Clients -> Recs] /\ v.mgr \in [Interfaces -> Mgrs] /\ v.ifp = w.ifp /\ v.used = w.used
    BY <1>3, <1>7, <1>8
  <2> QED BY <1>1, <2>1 DEF v, Dismissed, Worlds
<1>10. Global(v)
  <2>1. Entry(you) = Entry(me)
    BY <1>4 DEF Entry, Except, Fields
  <2>2. \A i \in Interfaces : v.mgr[i].life = w.mgr[i].life /\ v.mgr[i].clients = w.mgr[i].clients
    BY <1>6, <1>8
  <2> QED BY <1>1, <1>3, <1>7, <1>9, <2>1, <2>2, SameBooks
<1>11. Aside(w, v, c)
  BY <1>5, <1>6, <1>7, <1>8 DEF Aside
<1>12. /\ you.home = h /\ you.canceled = me.canceled /\ you.interface = me.interface
       /\ you.n = me.n /\ you.tcpquota = me.tcpquota /\ you.timerset = me.timerset
       /\ you.references = me.references /\ you.tcp = me.tcp /\ you.mortal = me.mortal
       /\ you.fetch = me.fetch /\ you.recursionquota = me.recursionquota /\ you.victim = me.victim
       /\ you.state = me.state
  BY <1>4 DEF Except, Fields
<1>13. Duty(me, you) /\ Alive(you)
  BY <1>4, <1>12 DEF Duty, Alive
<1>14. \A i \in Interfaces : c \notin Range(v.mgr[i].inactive)
  <2>1. c \notin Range(v.mgr[h].inactive)
    BY <1>5, <1>6, <1>8
  <2>2. ASSUME NEW i \in Interfaces, i # h
        PROVE  c \notin Range(v.mgr[i].inactive)
    BY <1>1, <1>8, <2>2 DEF Listed
  <2> QED BY <2>1, <2>2
<1>15. Listed(v, c)
  BY <1>1, <1>6, <1>7, <1>8, <1>12, <1>14 DEF Listed
<1>16. Placed(v, c)
  <2>1. FREED # READING
    BY DEF FREED, READING
  <2> QED BY <1>1, <1>4, <1>6, <1>7, <1>8, <1>12, <2>1 DEF Placed
<1> QED BY <1>4, <1>7, <1>10, <1>11, <1>13, <1>14, <1>15, <1>16 DEF Moves, Loose, v

LEMMA ClientShutdown ==
    ASSUME IInv, NEW c \in Clients, client_shutdown(c)
    PROVE  IInv'
<1> DEFINE me == cl[c]
           w == Dismissed(World, c)
<1>1. Idle(c) /\ Alive(me) /\ me.task = "told" /\ me.victim = None
  BY DEF client_shutdown, Idle, Alive
<1>2. /\ Busy(World, c) /\ Waits(me) /\ World.cl = cl /\ Loose(World, c) /\ Placed(World, c) /\ me \in Recs
      /\ me.state \in 1 .. 5
  BY <1>1, HandlerStarts
<1>3. Becomes(exit_check(w, c))
  <2>1. Becomes(exit_check([World EXCEPT !.cl[c].task = "down", !.cl[c].newstate = FREED,
                                         !.mgr[cl[c].home].inactive = Without(@, {c})], c))
    BY DEF client_shutdown
  <2> QED BY <1>2, <2>1 DEF Dismissed
<1>4. /\ Moves(World, w, c) /\ Loose(w, c) /\ Except(me, w.cl[c], {"task", "newstate"})
      /\ w.cl[c].newstate = FREED /\ \A i \in Interfaces : c \notin Range(w.mgr[i].inactive)
  BY <1>1, <1>2, DismissedIs
<1> HIDE DEF w
<1>5. Busy(w, c)
  BY <1>2, <1>4, StaysBusy
<1>6. /\ w.cl[c].state = me.state /\ w.cl[c].n = me.n /\ w.cl[c].tcp = me.tcp /\ w.cl[c].victim = None
      /\ w.cl[c].fetch = me.fetch /\ w.cl[c].references = me.references /\ w.cl[c].mortal = me.mortal
  BY <1>1, <1>4 DEF Except, Fields
<1>7. Exits(w, c)
  BY <1>2, <1>4, <1>6 DEF Exits, FREED
<1>8. CASE me.state < WORKING
  <2>1. me.state = READING => me.tcp /\ Only(me.n, "read")
    BY <1>2 DEF Waits
  <2>2. me.state = READY => ~me.mortal /\ Only(w.cl[c].n, Expects(w.cl[c]))
    BY <1>2, <1>6 DEF Waits, Expects
  <2>3. Leaving(w, c)
    BY <1>4, <1>6, <1>8, <2>1, <2>2, <1>2 DEF Leaving, WORKING
  <2>4. Good(exit_check(w, c))
    BY <1>5, <1>7, <2>3, ExitGood
  <2> QED BY <1>3, <2>4, BecomesGood
<1>9. CASE me.state >= WORKING
  <2>1. /\ Pending(me) = 1 /\ \A k \in {"accept", "recv", "read", "ctl"} : me.n[k] = 0
        /\ me.references = me.n["update"] + Flag(me.fetch # "none")
    BY <1>2, <1>9 DEF Waits
  <2>2. Pending(w.cl[c]) = 1
    BY <1>1, <1>6, <2>1 DEF Pending
  <2>3. Engaged(w.cl[c])
    BY <1>4, <1>6, <1>9, <2>1 DEF Engaged, FREED, WORKING, INACTIVE
  <2>4. Good(exit_check(w, c))
    BY <1>5, <1>6, <1>7, <2>1, <2>2, <2>3, CheckIs
  <2> QED BY <1>3, <2>4, BecomesGood
<1> QED BY <1>2, <1>8, <1>9 DEF WORKING

-----------------------------------------------------------------------------
(* Interfaces *)

\* An interface that nobody uses yet.
Raised(w, i) ==
    [w EXCEPT !.ifp[i] = [life |-> "up", references |-> 1, ntcpcurrent |-> 0], !.mgr[i].life = "up"]

LEMMA RaisedIs ==
    ASSUME NEW w, NEW i \in Interfaces, Good(w), w.ifp[i].life = "none"
    PROVE  LET v == Raised(w, i) IN
           /\ Global(v) /\ v.cl = w.cl /\ \A x \in Clients : Settled(v, x) /\ w.cl[x].home # i
           /\ v.mgr[i].life = "up" /\ \A j \in Interfaces : j # i => v.mgr[j] = w.mgr[j]
<1> DEFINE f == [life |-> "up", references |-> 1, ntcpcurrent |-> 0]
           m == [w.mgr[i] EXCEPT !.life = "up"]
           v == Raised(w, i)
<1>1. w \in Worlds /\ Counts(w) /\ \A x \in Clients : Settled(w, x) /\ w.cl[x] \in Recs
  BY RecOf DEF Good, Global
<1>2. w.mgr \in [Interfaces -> Mgrs] /\ w.mgr[i] \in Mgrs /\ w.ifp \in [Interfaces -> Ifps] /\ w.ifp[i] \in Ifps
  BY <1>1 DEF Worlds
<1>3. /\ w.mgr[i].life = "none" /\ w.mgr[i].clients = {} /\ w.ifp[i].references = 0
      /\ w.ifp[i].references = (IF w.mgr[i].life = "up" THEN 1 ELSE 0) + Cardinality(Users(w, i))
      /\ w.mgr[i].clients = {x \in Clients : w.cl[x].home = i}
  BY <1>1 DEF Counts
<1>4. \A x \in Clients : w.cl[x].home # i /\ w.cl[x].interface # i
  <2> SUFFICES ASSUME NEW x \in Clients PROVE w.cl[x].home # i /\ w.cl[x].interface # i
    OBVIOUS
  <2>1. w.cl[x].home # i
    BY <1>3
  <2>2. CASE Alive(w.cl[x])
    <3>1. w.cl[x].interface \in {w.cl[x].home, None}
      BY <1>1, <2>2 DEF Settled, Placed
    <3> QED BY <2>1, <3>1, NsClientAssumption
  <2>3. CASE ~Alive(w.cl[x])
    <3>1. w.cl[x].interface = None
      BY <1>1, <2>3 DEF Settled, NoClient
    <3> QED BY <2>1, <3>1, NsClientAssumption
  <2> QED BY <2>2, <2>3
<1>5. /\ v.cl = w.cl /\ v.used = w.used /\ v.ifp = [w.ifp EXCEPT ![i] = f] /\ v.mgr = [w.mgr EXCEPT ![i] = m]
      /\ v = [cl |-> v.cl, ifp |-> v.ifp, mgr |-> v.mgr, used |-> v.used]
  <2> HIDE DEF f
  <2>1. v = [w EXCEPT !.ifp[i] = f, !.mgr[i].life = "up"]
    BY DEF Raised, f
  <2> HIDE DEF v
  <2>2. /\ v.cl = w.cl /\ v.used = w.used
        /\ v = [cl |-> v.cl, ifp |-> v.ifp, mgr |-> v.mgr, used |-> v.used]
    BY <1>1, <2>1 DEF Worlds
  <2>3. v.ifp = [w.ifp EXCEPT ![i] = f]
    BY <1>1, <2>1 DEF Worlds
  <2>4. v.mgr = [w.mgr EXCEPT ![i] = m]
    BY <1>1, <2>1 DEF Worlds
  <2> QED BY <2>2, <2>3, <2>4
<1>6. f \in Ifps /\ f.life = "up" /\ f.references = 1 /\ f.ntcpcurrent = 0
  BY DEF Ifps
<1>7. /\ m \in Mgrs /\ m.life = "up" /\ m.clients = w.mgr[i].clients /\ m.inactive = w.mgr[i].inactive
      /\ m.recursing = w.mgr[i].recursing
  BY <1>2 DEF Mgrs
<1> HIDE DEF v, f, m
<1>8. /\ v.mgr[i] = m /\ \A j \in Interfaces : j # i => v.mgr[j] = w.mgr[j]
      /\ v.mgr \in [Interfaces -> Mgrs]
  BY <1>2, <1>5, <1>7
<1>9. /\ v.ifp[i] = f /\ \A j \in Interfaces : j # i => v.ifp[j] = w.ifp[j]
      /\ v.ifp \in [Interfaces -> Ifps]
  BY <1>2, <1>5, <1>6
<1>10. v \in Worlds
  BY <1>1, <1>5, <1>8, <1>9 DEF Worlds
<1>11. Counts(v)
  <2>1. /\ \A j \in Interfaces : Users(v, j) = Users(w, j) /\ Accepts(v, j) = Accepts(w, j)
        /\ HasTcp(v) = HasTcp(w) /\ HasRec(v) = HasRec(w)
    BY <1>5 DEF Users, Accepts, HasTcp, HasRec
  <2>2. Users(v, i) = {} /\ Accepts(v, i) = {} /\ Cardinality({}) = 0
    BY <1>4, <2>1, FS_EmptySet DEF Users, Accepts
  <2>3. ASSUME NEW j \in Interfaces
        PROVE  /\ v.ifp[j].references = (IF v.mgr[j].life = "up" THEN 1 ELSE 0) + Cardinality(Users(v, j))
               /\ v.ifp[j].ntcpcurrent = Cardinality(Accepts(v, j))
               /\ v.mgr[j].clients = {x \in Clients : v.cl[x].home = j}
               /\ v.ifp[j].life = "none" <=> v.mgr[j].life = "none"
               /\ v.ifp[j].life = "up" <=> v.ifp[j].references # 0
               /\ v.mgr[j].life \in {"none", "destroyed"} => v.mgr[j].clients = {}
               /\ v.mgr[j].life = "exiting" => v.mgr[j].clients # {}
    <3>1. CASE j = i
      <4>1. /\ v.ifp[j].references = 1 /\ v.ifp[j].ntcpcurrent = 0 /\ v.ifp[j].life = "up"
            /\ v.mgr[j].life = "up" /\ v.mgr[j].clients = w.mgr[i].clients
        BY <1>6, <1>7, <1>8, <1>9, <3>1
      <4>2. v.mgr[j].clients = {x \in Clients : v.cl[x].home = j}
        BY <1>3, <1>5, <3>1, <4>1
      <4>3. Cardinality(Users(v, j)) = 0 /\ Cardinality(Accepts(v, j)) = 0
        BY <2>2, <3>1
      <4> QED BY <4>1, <4>2, <4>3
    <3>2. CASE j # i
      <4>1. v.mgr[j] = w.mgr[j] /\ v.ifp[j] = w.ifp[j] /\ v.cl = w.cl
        BY <1>5, <1>8, <1>9, <3>2
      <4> QED BY <1>1, <2>1, <4>1 DEF Counts
    <3> QED BY <3>1, <3>2
  <2>4. v.used["tcp"] = Cardinality(HasTcp(v)) /\ v.used["rec"] = Cardinality(HasRec(v))
    BY <1>1, <1>5, <2>1 DEF Counts
  <2> QED BY <2>3, <2>4 DEF Counts
<1>12. ASSUME NEW x \in Clients PROVE Settled(v, x)
  <2>1. Settled(w, x) /\ v.cl[x] = w.cl[x] /\ w.cl[x].home # i
    BY <1>1, <1>4, <1>5
  <2>2. \A j \in Interfaces : v.mgr[j].inactive = w.mgr[j].inactive /\ v.mgr[j].recursing = w.mgr[j].recursing
    BY <1>7, <1>8
  <2>3. Listed(v, x)
    BY <2>1, <2>2 DEF Settled, Listed
  <2>4. Alive(w.cl[x]) => Placed(v, x)
    BY <1>8, <2>1 DEF Settled, Placed
  <2>5. v.cl[x].state = INACTIVE /\ v.cl[x].task = "up" => x \in Range(v.mgr[v.cl[x].home].inactive)
    <3>1. w.cl[x].task = "up" => w.cl[x].home \in Interfaces
      BY <2>1 DEF Settled, Alive, Placed
    <3> QED BY <2>1, <2>2, <3>1 DEF Settled
  <2> QED BY <2>1, <2>3, <2>4, <2>5 DEF Settled
<1> QED BY <1>4, <1>5, <1>7, <1>8, <1>10, <1>11, <1>12 DEF Global, v

LEMMA InterfaceSetup ==
    ASSUME IInv, NEW i \in Interfaces, ns_interface_setup(i)
    PROVE  IInv'
<1> DEFINE w == World
           v == Raised(w, i)
           g == get_client(v, i, FALSE)
           k == get_client(g, i, TRUE)
           x == Taken(v, i)
           y == Taken(g, i)
<1>1. Good(w) /\ w.cl = cl /\ w.ifp = ifp /\ ifp[i].life = "none" /\ Cardinality(Unused(w)) >= 2 /\ Becomes(k)
  BY DEF IInv, World, ns_interface_setup, Raised
<1> HIDE DEF w
<1>2. /\ Global(v) /\ v.cl = w.cl /\ \A z \in Clients : Settled(v, z) /\ w.cl[z].home # i
      /\ v.mgr[i].life = "up" /\ \A j \in Interfaces : j # i => v.mgr[j] = w.mgr[j]
  BY <1>1, RaisedIs
<1> HIDE DEF v
<1>3. Unused(v) = Unused(w) /\ Unused(v) \subseteq Clients
  BY <1>2 DEF Unused
<1>4. ASSUME NEW z PROVE Unused(v) \ {z} # {}
  <2>1. IsFiniteSet({z}) /\ Cardinality({z}) = 1
    BY FS_Singleton
  <2>2. IsFiniteSet(Unused(v)) /\ Cardinality(Unused(v)) \in Nat
    BY <1>3, NsClientAssumption, FS_Subset, FS_CardinalityType
  <2>3. Unused(v) \subseteq {z} => Cardinality(Unused(v)) <= 1
    BY <2>1, FS_Subset
  <2>4. Cardinality(Unused(v)) >= 2
    BY <1>1, <1>3
  <2>5. ~(Unused(v) \subseteq {z})
    BY <2>2, <2>3, <2>4
  <2> QED BY <2>5
<1>5. CanGet(v, i)
  BY <1>2, <1>4 DEF CanGet
<1>6. /\ x \in Clients /\ v.cl[x].interface = None
      /\ Global(g) /\ Aside(v, g, x) /\ Settled(g, x) /\ g.cl[x] = Fresh(i, FALSE)
      /\ \A j \in Interfaces : g.mgr[j].life = v.mgr[j].life
  BY <1>2, <1>5, GetIs
<1> HIDE DEF g, x
<1>7. \A z \in Clients : Settled(g, z)
  BY <1>2, <1>6, SettledAside
<1>8. CanGet(g, i)
  <2>1. PICK z \in Unused(v) : z # x
    BY <1>4
  <2>2. z \in Unused(g)
    BY <1>3, <1>6, <2>1 DEF Aside, Unused
  <2> QED BY <1>2, <1>6, <2>2 DEF CanGet
<1>9. /\ y \in Clients /\ g.cl[y].state \in {FREED, INACTIVE} /\ g.cl[y].interface = None
      /\ Global(k) /\ Aside(g, k, y) /\ Settled(k, y) /\ k.cl[y] = Fresh(i, TRUE)
      /\ \A j \in Interfaces : k.mgr[j].life = g.mgr[j].life
  BY <1>6, <1>7, <1>8, GetIs
<1> HIDE DEF k, y
<1>10. \A z \in Clients : Settled(k, z)
  BY <1>7, <1>9, SettledAside
<1>11. /\ Fresh(i, FALSE).home = i /\ Fresh(i, FALSE).interface = i /\ ~Fresh(i, FALSE).mortal
       /\ Fresh(i, FALSE).tcp = FALSE /\ Fresh(i, FALSE).state = READY
       /\ Fresh(i, TRUE).home = i /\ Fresh(i, TRUE).interface = i /\ ~Fresh(i, TRUE).mortal
       /\ Fresh(i, TRUE).tcp = TRUE
  BY FreshIs
<1>12. x # y /\ None \notin Interfaces
  BY <1>6, <1>9, <1>11, NsClientAssumption DEF READY, FREED, INACTIVE
<1>13. /\ k.cl[x] = Fresh(i, FALSE) /\ k.cl[y] = Fresh(i, TRUE)
       /\ \A z \in Clients : z # x /\ z # y => k.cl[z] = w.cl[z]
       /\ w.cl[x].interface = None /\ w.cl[y].interface = None
  BY <1>2, <1>6, <1>9, <1>12 DEF Aside
<1>14. /\ Serves(k.cl[x], FALSE) /\ Serves(k.cl[y], TRUE) /\ ~Serves(k.cl[y], FALSE)
       /\ k.cl[x].home = i /\ k.cl[y].home = i
  BY <1>11, <1>12, <1>13 DEF Serves
<1>15. Served(k)
  <2> SUFFICES ASSUME NEW j \in Interfaces, k.mgr[j].life = "up"
               PROVE  /\ \E d \in Clients :
                            /\ k.cl[d].home = j /\ Serves(k.cl[d], FALSE)
                            /\ \A z \in Clients : k.cl[z].home = j /\ Serves(k.cl[z], FALSE) => z = d
                      /\ \E d \in Clients : k.cl[d].home = j /\ Serves(k.cl[d], TRUE)
    BY DEF Served
  <2>1. CASE j = i
    <3>1. \A z \in Clients : k.cl[z].home = j /\ Serves(k.cl[z], FALSE) => z = x
      BY <1>2, <1>13, <1>14, <2>1
    <3> QED BY <1>6, <1>9, <1>14, <2>1, <3>1
  <2>2. CASE j # i
    <3>1. w.mgr[j].life = "up"
      BY <1>2, <1>6, <1>9, <2>2
    <3>2. PICK d \in Clients : /\ w.cl[d].home = j /\ Serves(w.cl[d], FALSE)
                               /\ \A z \in Clients : w.cl[z].home = j /\ Serves(w.cl[z], FALSE) => z = d
      BY <1>1, <3>1 DEF Good, Served
    <3>3. PICK e \in Clients : w.cl[e].home = j /\ Serves(w.cl[e], TRUE)
      BY <1>1, <3>1 DEF Good, Served
    <3>4. d # x /\ d # y /\ e # x /\ e # y
      BY <1>13, <3>2, <3>3 DEF Serves
    <3>5. k.cl[d] = w.cl[d] /\ k.cl[e] = w.cl[e]
      BY <1>13, <3>4
    <3>6. \A z \in Clients : k.cl[z].home = j /\ Serves(k.cl[z], FALSE) => z = d
      BY <1>13, <1>14, <2>2, <3>2
    <3> QED BY <3>2, <3>3, <3>5, <3>6
  <2> QED BY <2>1, <2>2
<1>16. Good(k)
  BY <1>9, <1>10, <1>15 DEF Good
<1> QED BY <1>1, <1>16, BecomesGood

\* purge_old_interfaces() has ended the manager and told its clients.
Ending(w, i) ==
    [w EXCEPT !.cl = clientmgr_tell(w, i),
              !.mgr[i].life = IF w.mgr[i].clients = {} THEN "destroyed" ELSE "exiting"]

LEMMA PurgedGood ==
    ASSUME NEW w, NEW i \in Interfaces, Good(w), w.mgr[i].life = "up"
    PROVE  Good(ns_interface_detach(Ending(w, i), i))
<1> DEFINE f == Less(w.ifp[i])
           l == IF w.mgr[i].clients = {} THEN "destroyed" ELSE "exiting"
           m == [w.mgr[i] EXCEPT !.life = l]
           t == clientmgr_tell(w, i)
           v == ns_interface_detach(Ending(w, i), i)
<1>1. /\ w \in Worlds /\ Counts(w) /\ \A x \in Clients : Settled(w, x) /\ w.cl[x] \in Recs
  BY RecOf DEF Good, Global
<1>2. w.mgr \in [Interfaces -> Mgrs] /\ w.mgr[i] \in Mgrs /\ w.ifp \in [Interfaces -> Ifps] /\ w.ifp[i] \in Ifps
  BY <1>1 DEF Worlds
<1>3. /\ v.cl = t /\ v.used = w.used /\ v.ifp = [w.ifp EXCEPT ![i] = f] /\ v.mgr = [w.mgr EXCEPT ![i] = m]
      /\ v = [cl |-> v.cl, ifp |-> v.ifp, mgr |-> v.mgr, used |-> v.used]
  <2> DEFINE e == Ending(w, i)
  <2>1. /\ e.cl = t /\ e.used = w.used /\ e.ifp = w.ifp /\ e.mgr = [w.mgr EXCEPT ![i] = m]
        /\ e = [cl |-> e.cl, ifp |-> e.ifp, mgr |-> e.mgr, used |-> e.used]
    <3> HIDE DEF t, l
    <3>1. e = [w EXCEPT !.cl = t, !.mgr[i].life = l]
      BY DEF Ending, t, l
    <3> HIDE DEF e
    <3>2. e.cl = t /\ e.used = w.used /\ e.ifp = w.ifp /\ e = [cl |-> e.cl, ifp |-> e.ifp, mgr |-> e.mgr, used |-> e.used]
      BY <1>1, <3>1 DEF Worlds
    <3>3. e.mgr = [w.mgr EXCEPT ![i] = m]
      BY <1>1, <3>1 DEF Worlds
    <3> QED BY <3>2, <3>3
  <2> HIDE DEF e, t, m
  <2>2. v = ns_interface_detach(e, i)
    BY DEF e
  <2> HIDE DEF v
  <2> QED BY <1>2, <2>1, <2>2 DEF ns_interface_detach, Less, Ifps
<1>4. /\ f \in Ifps /\ f.references = w.ifp[i].references - 1 /\ f.ntcpcurrent = w.ifp[i].ntcpcurrent
      /\ f.life = IF w.ifp[i].references = 1 THEN "destroyed" ELSE w.ifp[i].life
  BY <1>2, LessIs
<1>5. /\ m \in Mgrs /\ m.life = l /\ m.clients = w.mgr[i].clients /\ m.inactive = w.mgr[i].inactive
      /\ m.recursing = w.mgr[i].recursing
  BY <1>2 DEF Mgrs
<1>6. ASSUME NEW x \in Clients
      PROVE  /\ t[x] \in Recs /\ Except(w.cl[x], t[x], {"task"})
             /\ w.cl[x].home = i => t[x].task = (IF w.cl[x].task = "up" THEN "told" ELSE w.cl[x].task)
             /\ w.cl[x].home # i => t[x] = w.cl[x]
  <2>1. w.cl[x] \in Recs /\ (x \in w.mgr[i].clients <=> w.cl[x].home = i)
    BY <1>1 DEF Counts
  <2>2. t[x] = IF x \in w.mgr[i].clients /\ w.cl[x].task = "up" THEN [w.cl[x] EXCEPT !.task = "told"] ELSE w.cl[x]
    BY DEF clientmgr_tell
  <2> HIDE DEF t
  <2>3. CASE w.cl[x].home = i /\ w.cl[x].task = "up"
    <3> DEFINE you == [w.cl[x] EXCEPT !.task = "told"]
    <3>1. you \in Recs /\ you.task = "told" /\ Except(w.cl[x], you, {"task"})
      BY <2>1 DEF Except, Fields, Recs
    <3>2. t[x] = you
      BY <2>1, <2>2, <2>3
    <3> HIDE DEF you
    <3> QED BY <2>3, <3>1, <3>2
  <2>4. CASE ~(w.cl[x].home = i /\ w.cl[x].task = "up")
    <3>1. t[x] = w.cl[x]
      BY <2>1, <2>2, <2>4
    <3> QED BY <2>1, <2>4, <3>1 DEF Except
  <2> QED BY <2>3, <2>4
<1>7. t \in [Clients -> Recs]
  <2>1. t = [x \in Clients |-> t[x]]
    BY DEF clientmgr_tell
  <2> HIDE DEF t
  <2> QED BY <1>6, <2>1
<1> HIDE DEF f, m, t, v
<1>8. /\ v.mgr[i] = m /\ \A j \in Interfaces : j # i => v.mgr[j] = w.mgr[j]
      /\ v.mgr \in [Interfaces -> Mgrs]
  BY <1>2, <1>3, <1>5
<1>9. /\ v.ifp[i] = f /\ \A j \in Interfaces : j # i => v.ifp[j] = w.ifp[j]
      /\ v.ifp \in [Interfaces -> Ifps]
  BY <1>2, <1>3, <1>4
<1>10. v \in Worlds
  BY <1>1, <1>3, <1>7, <1>8, <1>9 DEF Worlds
<1>11. ASSUME NEW x \in Clients
       PROVE  LET a == w.cl[x]  b == v.cl[x] IN
              /\ b.state = a.state /\ b.newstate = a.newstate /\ b.home = a.home /\ b.interface = a.interface
              /\ b.tcp = a.tcp /\ b.mortal = a.mortal /\ b.n = a.n /\ b.canceled = a.canceled
              /\ b.references = a.references /\ b.fetch = a.fetch /\ b.timerset = a.timerset
              /\ b.tcpquota = a.tcpquota /\ b.recursionquota = a.recursionquota /\ b.victim = a.victim
              /\ a.home = i => b.task = (IF a.task = "up" THEN "told" ELSE a.task)
              /\ a.home # i => b = a
  BY <1>3, <1>6 DEF Except, Fields
<1>12. Counts(v)
  <2>1. /\ \A j \in Interfaces : Users(v, j) = Users(w, j) /\ Accepts(v, j) = Accepts(w, j)
        /\ HasTcp(v) = HasTcp(w) /\ HasRec(v) = HasRec(w)
    BY <1>11 DEF Users, Accepts, HasTcp, HasRec
  <2>2. ASSUME NEW j \in Interfaces
        PROVE  v.mgr[j].clients = {x \in Clients : v.cl[x].home = j}
    <3>1. v.mgr[j].clients = w.mgr[j].clients
      BY <1>5, <1>8
    <3>2. w.mgr[j].clients = {x \in Clients : w.cl[x].home = j}
      BY <1>1 DEF Counts
    <3> QED BY <1>11, <3>1, <3>2
  <2>3. ASSUME NEW j \in Interfaces
        PROVE  /\ v.ifp[j].references = (IF v.mgr[j].life = "up" THEN 1 ELSE 0) + Cardinality(Users(v, j))
               /\ v.ifp[j].ntcpcurrent = Cardinality(Accepts(v, j))
               /\ v.ifp[j].life = "none" <=> v.mgr[j].life = "none"
               /\ v.ifp[j].life = "up" <=> v.ifp[j].references # 0
               /\ v.mgr[j].life \in {"none", "destroyed"} => v.mgr[j].clients = {}
               /\ v.mgr[j].life = "exiting" => v.mgr[j].clients # {}
    <3>1. CASE j # i
      <4>1. v.mgr[j] = w.mgr[j] /\ v.ifp[j] = w.ifp[j]
        BY <1>8, <1>9, <3>1
      <4> QED BY <1>1, <2>1, <4>1 DEF Counts
    <3>2. CASE j = i
      <4>1. /\ w.ifp[i].references = 1 + Cardinality(Users(w, i))
            /\ w.ifp[i].ntcpcurrent = Cardinality(Accepts(w, i))
            /\ w.ifp[i].life = "up" <=> w.ifp[i].references # 0
            /\ w.ifp[i].life # "none"
        BY <1>1 DEF Counts
      <4>2. Cardinality(Users(w, i)) \in Nat
        <5>1. Users(w, i) \subseteq Clients
          BY DEF Users
        <5> QED BY <5>1, NsClientAssumption, FS_Subset, FS_CardinalityType
      <4>3. l # "up" /\ l # "none" /\ (l = "destroyed" => w.mgr[i].clients = {}) /\ (l = "exiting" => w.mgr[i].clients # {})
        OBVIOUS
      <4>4. v.ifp[j] = f /\ v.mgr[j] = m /\ Users(v, j) = Users(w, i) /\ Accepts(v, j) = Accepts(w, i)
        BY <1>8, <1>9, <2>1, <3>2
      <4> HIDE DEF l
      <4> DEFINE u == Cardinality(Users(w, i))
      <4> HIDE DEF u
      <4>5. /\ f.references = u /\ (f.life = "up" <=> u # 0) /\ f.life # "none"
        BY <1>4, <4>1, <4>2 DEF u
      <4> QED BY <1>4, <1>5, <4>1, <4>2, <4>3, <4>4, <4>5 DEF u
    <3> QED BY <3>1, <3>2
  <2>4. v.used["tcp"] = Cardinality(HasTcp(v)) /\ v.used["rec"] = Cardinality(HasRec(v))
    BY <1>1, <1>3, <2>1 DEF Counts
  <2> QED BY <2>2, <2>3, <2>4 DEF Counts
<1>13. ASSUME NEW x \in Clients PROVE Settled(v, x)
  <2> DEFINE a == w.cl[x]
             b == v.cl[x]
  <2>1. \A j \in Interfaces : v.mgr[j].inactive = w.mgr[j].inactive /\ v.mgr[j].recursing = w.mgr[j].recursing
    BY <1>5, <1>8
  <2>2. Settled(w, x)
    BY <1>1
  <2>3. CASE a.home # i
    <3>1. b = a
      BY <1>11, <2>3
    <3>2. Listed(v, x)
      BY <2>1, <2>2, <3>1 DEF Settled, Listed
    <3>3. Alive(a) => Placed(v, x)
      BY <1>8, <2>2, <2>3, <3>1 DEF Settled, Placed
    <3>4. b.state = INACTIVE /\ b.task = "up" => x \in Range(v.mgr[b.home].inactive)
      <4>1. a.task = "up" => a.home \in Interfaces
        BY <2>2 DEF Settled, Alive, Placed
      <4> QED BY <2>1, <2>2, <3>1, <4>1 DEF Settled
    <3> QED BY <2>2, <3>1, <3>2, <3>3, <3>4 DEF Settled
  <2>4. CASE a.home = i
    <3>1. Alive(a)
      BY <2>2, <2>4, NsClientAssumption DEF Settled, NoClient
    <3>2. Placed(w, x) /\ Waits(a) /\ a.state # FREED
      BY <2>2, <3>1 DEF Settled
    <3>3. a.task = "up"
      BY <2>4, <3>2 DEF Placed
    <3>4. b.task = "told" /\ Alive(b)
      BY <1>11, <2>4, <3>3 DEF Alive
    <3>5. Listed(v, x)
      BY <1>11, <2>1, <2>2, <3>4 DEF Settled, Listed
    <3>6. v.mgr[b.home].life # "up"
      BY <1>5, <1>8, <1>11, <2>4
    <3>7. Placed(v, x)
      BY <1>11, <2>4, <3>2, <3>3, <3>4, <3>6 DEF Placed
    <3>8. Waits(b)
      <4>1. Expects(b) = Expects(a) /\ Pending(b) = Pending(a)
        BY <1>11 DEF Expects, Pending
      <4> QED BY <1>11, <3>2, <4>1 DEF Waits
    <3> QED BY <1>11, <3>2, <3>4, <3>5, <3>7, <3>8 DEF Settled
  <2> QED BY <2>3, <2>4
<1>14. Served(v)
  <2> SUFFICES ASSUME NEW j \in Interfaces, v.mgr[j].life = "up"
               PROVE  /\ \E d \in Clients :
                            /\ v.cl[d].home = j /\ Serves(v.cl[d], FALSE)
                            /\ \A z \in Clients : v.cl[z].home = j /\ Serves(v.cl[z], FALSE) => z = d
                      /\ \E d \in Clients : v.cl[d].home = j /\ Serves(v.cl[d], TRUE)
    BY DEF Served
  <2>1. w.mgr[j].life = "up"
    BY <1>5, <1>8
  <2>2. /\ \A z \in Clients : v.cl[z].home = w.cl[z].home
        /\ \A z \in Clients : Serves(v.cl[z], FALSE) <=> Serves(w.cl[z], FALSE)
        /\ \A z \in Clients : Serves(v.cl[z], TRUE) <=> Serves(w.cl[z], TRUE)
    BY <1>11 DEF Serves
  <2>3. PICK d \in Clients : /\ w.cl[d].home = j /\ Serves(w.cl[d], FALSE)
                             /\ \A z \in Clients : w.cl[z].home = j /\ Serves(w.cl[z], FALSE) => z = d
    BY <2>1 DEF Good, Served
  <2>4. PICK e \in Clients : w.cl[e].home = j /\ Serves(w.cl[e], TRUE)
    BY <2>1 DEF Good, Served
  <2>5. v.cl[d].home = j /\ Serves(v.cl[d], FALSE)
    BY <2>2, <2>3
  <2>6. \A z \in Clients : v.cl[z].home = j /\ Serves(v.cl[z], FALSE) => z = d
    BY <2>2, <2>3
  <2>7. v.cl[e].home = j /\ Serves(v.cl[e], TRUE)
    BY <2>2, <2>4
  <2> QED BY <2>5, <2>6, <2>7
<1> QED BY <1>10, <1>12, <1>13, <1>14 DEF Good, Global, v

LEMMA PurgeOldInterface ==
    ASSUME IInv, NEW i \in Interfaces, purge_old_interface(i)
    PROVE  IInv'
<1>1. World.mgr = mgr /\ Good(World) /\ mgr[i].life = "up"
  BY DEF IInv, World, purge_old_interface
<1>2. Becomes(ns_interface_detach(Ending(World, i), i))
  BY <1>1 DEF purge_old_interface, Ending
<1>3. Good(ns_interface_detach(Ending(World, i), i))
  BY <1>1, PurgedGood
<1> QED BY <1>2, <1>3, BecomesGood

-----------------------------------------------------------------------------
(* The invariant *)

LEMMA InitIInv ==
    Init => IInv
<1> SUFFICES ASSUME Init PROVE IInv
  OBVIOUS
<1> DEFINE w == World
           f == [life |-> "none", references |-> 0, ntcpcurrent |-> 0]
           m == [life |-> "none", clients |-> {}, inactive |-> <<>>, recursing |-> <<>>]
<1>1. w = [cl |-> cl, ifp |-> ifp, mgr |-> mgr, used |-> used]
  BY DEF World
<1> HIDE DEF w
<1>2. /\ w.cl = [c \in Clients |-> NoClient] /\ w.ifp = [i \in Interfaces |-> f]
      /\ w.mgr = [i \in Interfaces |-> m] /\ w.used = [q \in {"tcp", "rec"} |-> 0]
  BY <1>1 DEF Init
<1>3. f \in Ifps /\ m \in Mgrs /\ NoClient \in Recs
  <2>1. <<>> \in Seq(Clients)
    OBVIOUS
  <2> QED BY <2>1, NoClientIs DEF Ifps, Mgrs
<1>4. /\ f.life = "none" /\ f.references = 0 /\ f.ntcpcurrent = 0
      /\ m.life = "none" /\ m.clients = {} /\ m.inactive = <<>> /\ m.recursing = <<>>
  OBVIOUS
<1> HIDE DEF f, m
<1>5. w \in Worlds
  <2>1. w.used \in [{"tcp", "rec"} -> Int]
    BY <1>2
  <2> QED BY <1>1, <1>2, <1>3, <2>1 DEF Worlds
<1>6. /\ NoClient.state = FREED /\ NoClient.home = None /\ NoClient.interface = None /\ NoClient.task = "none"
      /\ ~NoClient.tcpquota /\ ~NoClient.recursionquota /\ NoClient = [NoClient EXCEPT !.task = NoClient.task]
  BY DEF NoClient
<1>7. Counts(w)
  <2>1. Cardinality({}) = 0 /\ None \notin Interfaces
    BY FS_EmptySet, NsClientAssumption
  <2>2. HasTcp(w) = {} /\ HasRec(w) = {}
    BY <1>2, <1>6 DEF HasTcp, HasRec
  <2>3. ASSUME NEW i \in Interfaces
        PROVE  Users(w, i) = {} /\ Accepts(w, i) = {} /\ {x \in Clients : w.cl[x].home = i} = {}
    BY <1>2, <1>6, <2>1 DEF Users, Accepts
  <2>4. ASSUME NEW i \in Interfaces
        PROVE  w.ifp[i] = f /\ w.mgr[i] = m
    BY <1>2
  <2>5. w.used["tcp"] = 0 /\ w.used["rec"] = 0
    BY <1>2
  <2>6. ASSUME NEW i \in Interfaces
        PROVE  /\ w.ifp[i].references = (IF w.mgr[i].life = "up" THEN 1 ELSE 0) + Cardinality(Users(w, i))
               /\ w.ifp[i].ntcpcurrent = Cardinality(Accepts(w, i))
               /\ w.mgr[i].clients = {x \in Clients : w.cl[x].home = i}
               /\ w.ifp[i].life = "none" <=> w.mgr[i].life = "none"
               /\ w.ifp[i].life = "up" <=> w.ifp[i].references # 0
               /\ w.mgr[i].life \in {"none", "destroyed"} => w.mgr[i].clients = {}
               /\ w.mgr[i].life = "exiting" => w.mgr[i].clients # {}
    <3>1. Cardinality(Users(w, i)) = 0 /\ Cardinality(Accepts(w, i)) = 0
      BY <2>1, <2>3
    <3>2. w.mgr[i].life = "none" /\ w.mgr[i].clients = {} /\ {x \in Clients : w.cl[x].home = i} = {}
      BY <1>4, <2>3, <2>4
    <3>3. w.ifp[i].life = "none" /\ w.ifp[i].references = 0 /\ w.ifp[i].ntcpcurrent = 0
      BY <1>4, <2>4
    <3> QED BY <3>1, <3>2, <3>3
  <2> QED BY <2>1, <2>2, <2>5, <2>6 DEF Counts
<1>8. ASSUME NEW c \in Clients PROVE Settled(w, c)
  <2>1. w.cl[c] = NoClient /\ \A i \in Interfaces : w.mgr[i] = m
    BY <1>2
  <2>2. Range(<<>>) = {}
    BY DEF Range
  <2>3. Listed(w, c)
    BY <1>4, <2>1, <2>2 DEF Listed
  <2> QED BY <1>6, <2>1, <2>3 DEF Settled, Alive, FREED, INACTIVE
<1>9. Served(w)
  BY <1>2, <1>4 DEF Served
<1> QED BY <1>5, <1>7, <1>8, <1>9 DEF IInv, Good, Global, w

LEMMA NextIInv ==
    IInv /\ [Next]_vars => IInv'
<1> SUFFICES ASSUME IInv, [Next]_vars PROVE IInv'
  OBVIOUS
<1>1. ASSUME NEW c \in Clients, client_start(c) PROVE IInv'
  BY <1>1, ClientStart
<1>2. ASSUME NEW c \in Clients, client_shutdown(c) PROVE IInv'
  BY <1>2, ClientShutdown
<1>3. ASSUME NEW c \in Clients, client_senddone(c) PROVE IInv'
  BY <1>3, ClientSenddone
<1>4. ASSUME NEW c \in Clients, client_timeout(c) PROVE IInv'
  BY <1>4, ClientTimeout
<1>5. ASSUME NEW c \in Clients, NEW how \in Sendings, query_resume(c, how) PROVE IInv'
  BY <1>5, QueryResume
<1>6. ASSUME NEW c \in Clients, NEW how \in Sendings, updatedone_action(c, how) PROVE IInv'
  BY <1>6, UpdatedoneAction
<1>7. ASSUME NEW c \in Clients, NEW how \in Sendings, NEW fetched \in BOOLEAN,
             query_recurse_cancel(c, fetched, how)
      PROVE  IInv'
  BY <1>7, QueryRecurseCancel
<1>8. ASSUME NEW c \in Clients, NEW ok \in BOOLEAN, NEW b \in BOOLEAN, client_newconn(c, ok, b) PROVE IInv'
  BY <1>8, ClientNewconn
<1>9. ASSUME NEW c \in Clients, NEW what \in Requests, NEW how \in Sendings, client_request(c, what, how)
      PROVE  IInv'
  BY <1>9, ClientRequest
<1>10. ASSUME NEW i \in Interfaces, ns_interface_setup(i) PROVE IInv'
  BY <1>10, InterfaceSetup
<1>11. ASSUME NEW i \in Interfaces, purge_old_interface(i) PROVE IInv'
  BY <1>11, PurgeOldInterface
<1>12. CASE UNCHANGED vars
  <2>1. World' = World
    BY <1>12 DEF World, vars
  <2> QED BY <2>1 DEF IInv
<1> QED BY <1>1, <1>2, <1>3, <1>4, <1>5, <1>6, <1>7, <1>8, <1>9, <1>10, <1>11, <1>12 DEF Next

(* Whatever the handlers of client.c, query.c and interfacemgr.c do, and in  *)
(* whatever order the tasks run them, every client is settled between two    *)
(* events and the books agree with the clients.                              *)
LEMMA Invariance == Spec => []IInv
<1>1. Init => IInv
  BY InitIInv
<1>2. IInv /\ [Next]_vars => IInv'
  BY NextIInv
<1> QED BY <1>1, <1>2, PTL DEF Spec

-----------------------------------------------------------------------------
(* What follows from it *)

LEMMA Known ==
    ASSUME IInv
    PROVE  /\ World \in Worlds /\ Counts(World) /\ Served(World)
           /\ World.cl = cl /\ World.ifp = ifp /\ World.mgr = mgr /\ World.used = used
           /\ \A c \in Clients : /\ Settled(World, c) /\ cl[c] \in Recs
                                 /\ Exists(c) <=> cl[c].state # FREED
                                 /\ Exists(c) => Placed(World, c) /\ Waits(cl[c])
                                 /\ ~Exists(c) => cl[c] = [NoClient EXCEPT !.task = cl[c].task]
<1>1. /\ World.cl = cl /\ World.ifp = ifp /\ World.mgr = mgr /\ World.used = used
      /\ World \in Worlds /\ Counts(World) /\ Served(World) /\ \A c \in Clients : Settled(World, c)
  BY DEF World, IInv, Good, Global
<1>2. \A c \in Clients : cl[c] \in Recs
  BY <1>1, RecOf
<1> QED BY <1>1, <1>2 DEF Settled, Exists, Alive

LEMMA Bounded ==
    ASSUME NEW S \in SUBSET Clients
    PROVE  Cardinality(S) \in 0 .. Cardinality(Clients) /\ Cardinality(Clients) \in Nat
  BY NsClientAssumption, FS_Subset, FS_CardinalityType

LEMMA Types ==
    ASSUME IInv
    PROVE  TypeOK
<1>1. ASSUME NEW c \in Clients
      PROVE  /\ cl[c].state \in FREED .. RECURSING /\ cl[c].newstate \in (FREED .. RECURSING) \cup {MAX}
             /\ cl[c].n \in [Works -> 0 .. 1] /\ cl[c].references \in 0 .. 1
  <2>1. cl[c] \in Recs
    BY Known
  <2>2. cl[c].state \in 0 .. 5 /\ cl[c].newstate \in {0, 1, 2, 3, 4, 5, 9}
    BY <2>1, RecParts
  <2> QED BY <2>1, <2>2, RecParts DEF FREED, RECURSING, MAX
<1>2. ASSUME NEW i \in Interfaces
      PROVE  ifp[i].references \in 0 .. Cardinality(Clients) + 1
  <2>1. ifp[i].references = (IF mgr[i].life = "up" THEN 1 ELSE 0) + Cardinality(Users(World, i))
    BY Known DEF Counts
  <2>2. Users(World, i) \in SUBSET Clients
    BY DEF Users
  <2>3. Cardinality(Users(World, i)) \in 0 .. Cardinality(Clients) /\ Cardinality(Clients) \in Nat
    BY <2>2, Bounded
  <2> QED BY <2>1, <2>3
<1>3. used \in [{"tcp", "rec"} -> 0 .. Cardinality(Clients)]
  <2>1. used \in [{"tcp", "rec"} -> Int]
    BY Known DEF Worlds
  <2>2. used["tcp"] = Cardinality(HasTcp(World)) /\ used["rec"] = Cardinality(HasRec(World))
    BY Known DEF Counts
  <2>3. HasTcp(World) \in SUBSET Clients /\ HasRec(World) \in SUBSET Clients
    BY DEF HasTcp, HasRec
  <2>4. used["tcp"] \in 0 .. Cardinality(Clients) /\ used["rec"] \in 0 .. Cardinality(Clients)
    BY <2>2, <2>3, Bounded
  <2> QED BY <2>1, <2>4
<1> QED BY <1>1, <1>2, <1>3 DEF TypeOK

LEMMA NothingIs ==
    ASSUME NEW n \in [Works -> 0 .. 1]
    PROVE  /\ Nothing(n) => n = NoClient.n
           /\ \A k \in Works : Only(n, k) => n = [NoClient.n EXCEPT ![k] = 1]
<1>1. NoClient.n = [k \in Works |-> 0]
  BY DEF NoClient
<1>2. Nothing(n) => n = NoClient.n
  BY <1>1 DEF Nothing
<1>3. ASSUME NEW k \in Works, Only(n, k)
      PROVE  n = [NoClient.n EXCEPT ![k] = 1]
  BY <1>1, <1>3 DEF Only
<1> QED BY <1>2, <1>3

(* StateMeansWork: what a client has outstanding is what its state means     *)
(* (client.c:150-211), for any number of clients and interfaces and any      *)
(* quotas: a request in work always waits for exactly one event, a listening *)
(* client for exactly one, and the lists of the manager hold only clients in *)
(* the state they are for.                                                   *)
THEOREM StatesMeanWork == Spec => []StateMeansWork
<1>1. ASSUME IInv PROVE StateMeansWork
  <2>1. TypeOK
    BY <1>1, Types
  <2>2. ASSUME NEW c \in Clients
        PROVE  LET me == cl[c] IN
        /\ me.state = INACTIVE =>
              /\ me.n = NoClient.n /\ me.interface = None /\ ~me.tcpquota
              /\ me.task = "up" => c \in Range(mgr[me.home].inactive)
        /\ me.state = READY =>
              me.n = [NoClient.n EXCEPT ![IF me.n["ctl"] = 1 THEN "ctl"
                                          ELSE IF me.tcp THEN "accept" ELSE "recv"] = 1]
        /\ me.state = READING => me.tcp /\ me.n = [NoClient.n EXCEPT !["read"] = 1]
        /\ me.state < WORKING => me.references = 0 /\ me.fetch = "none" /\ ~me.recursionquota
        /\ me.state >= WORKING =>
              /\ me.n["send"] + me.n["update"] + (IF me.fetch # "none" THEN 1 ELSE 0)
                   + (IF me.victim # None THEN 1 ELSE 0) = 1
              /\ me.n["accept"] + me.n["recv"] + me.n["read"] + me.n["ctl"] = 0
        /\ \A i \in Interfaces :
              /\ c \in Range(mgr[i].recursing) => me.state = RECURSING
              /\ c \in Range(mgr[i].inactive) => me.state = INACTIVE /\ me.task \in {"up", "told"}
    <3> DEFINE me == cl[c]
    <3>1. /\ World.cl = cl /\ World.mgr = mgr /\ Settled(World, c) /\ me \in Recs
          /\ (Exists(c) <=> me.state # FREED) /\ (Exists(c) => Placed(World, c) /\ Waits(me))
          /\ (~Exists(c) => me = [NoClient EXCEPT !.task = me.task])
      BY <1>1, Known
    <3>2. me.n \in [Works -> 0 .. 1] /\ me.state \in 0 .. 5
      BY <3>1, RecParts
    <3>3. me.state = INACTIVE =>
              /\ me.n = NoClient.n /\ me.interface = None /\ ~me.tcpquota
              /\ me.task = "up" => c \in Range(mgr[me.home].inactive)
      <4> HAVE me.state = INACTIVE
      <4>1. Placed(World, c) /\ Nothing(me.n)
        BY <3>1 DEF Waits, INACTIVE, FREED
      <4>2. me.n = NoClient.n
        BY <3>2, <4>1, NothingIs
      <4>3. me.interface = None /\ ~me.tcpquota
        BY <3>1, <4>1 DEF Placed, INACTIVE, READY, READING
      <4> QED BY <3>1, <4>2, <4>3 DEF Settled
    <3>4. me.state = READY => me.n = [NoClient.n EXCEPT ![Expects(me)] = 1]
      <4> HAVE me.state = READY
      <4>1. Only(me.n, Expects(me)) /\ Expects(me) \in Works
        BY <3>1 DEF Waits, READY, FREED, Expects, Works
      <4> QED BY <3>2, <4>1, NothingIs
    <3>5. me.state = READING => me.tcp /\ me.n = [NoClient.n EXCEPT !["read"] = 1]
      <4> HAVE me.state = READING
      <4>1. me.tcp /\ Only(me.n, "read") /\ "read" \in Works
        BY <3>1 DEF Waits, READING, FREED, Works
      <4> QED BY <3>2, <4>1, NothingIs
    <3>6. me.state < WORKING => me.references = 0 /\ me.fetch = "none" /\ ~me.recursionquota
      <4>1. CASE Exists(c)
        BY <3>1, <4>1 DEF Placed
      <4>2. CASE ~Exists(c)
        BY <3>1, <4>2 DEF NoClient
      <4> QED BY <4>1, <4>2
    <3>7. me.state >= WORKING =>
              /\ Pending(me) = 1 /\ \A k \in {"accept", "recv", "read", "ctl"} : me.n[k] = 0
      BY <3>1 DEF Waits, WORKING, FREED
    <3>8. me.state >= WORKING =>
              /\ me.n["send"] + me.n["update"] + (IF me.fetch # "none" THEN 1 ELSE 0)
                   + (IF me.victim # None THEN 1 ELSE 0) = 1
              /\ me.n["accept"] + me.n["recv"] + me.n["read"] + me.n["ctl"] = 0
      BY <3>7 DEF Pending, Flag
    <3>9. \A i \in Interfaces :
              /\ c \in Range(mgr[i].recursing) => me.state = RECURSING
              /\ c \in Range(mgr[i].inactive) => me.state = INACTIVE /\ me.task \in {"up", "told"}
      BY <3>1 DEF Settled, Listed
    <3> QED BY <3>3, <3>4, <3>5, <3>6, <3>8, <3>9 DEF Expects
  <2> QED BY <2>1, <2>2 DEF StateMeansWork
<1> QED BY <1>1, Invariance, PTL

(* ListenerRemains: somebody keeps listening, on any number of interfaces:   *)
(* the transfer of responsibility in ns_client_replace() and the way back    *)
(* through exit_check() leave exactly one responsible client for datagrams   *)
(* and at least one for connections, also when no replacement can be had.    *)
THEOREM SomebodyListens == Spec => []ListenerRemains
<1>1. ASSUME IInv PROVE ListenerRemains
  <2> SUFFICES ASSUME NEW i \in Interfaces, mgr[i].life = "up"
               PROVE  LET responsible(tcp) == {c \in Clients : /\ cl[c].interface = i /\ cl[c].tcp = tcp
                                                               /\ ~cl[c].mortal /\ cl[c].newstate >= READY}
                      IN  Cardinality(responsible(FALSE)) = 1 /\ responsible(TRUE) # {}
    BY DEF ListenerRemains
  <2> DEFINE responsible(tcp) == {c \in Clients : /\ cl[c].interface = i /\ cl[c].tcp = tcp
                                                  /\ ~cl[c].mortal /\ cl[c].newstate >= READY}
  <2>1. None \notin Interfaces
    BY NsClientAssumption
  <2>2. ASSUME NEW c \in Clients, NEW tcp \in BOOLEAN
        PROVE  c \in responsible(tcp) <=> cl[c].home = i /\ Serves(cl[c], tcp)
    <3> DEFINE me == cl[c]
    <3>1. /\ World.cl = cl /\ World.mgr = mgr /\ me \in Recs /\ (Exists(c) <=> me.state # FREED)
          /\ (Exists(c) => Placed(World, c) /\ Waits(me))
          /\ (~Exists(c) => me = [NoClient EXCEPT !.task = me.task])
      BY <1>1, Known
    <3>2. CASE ~Exists(c)
      <4>1. me.interface = None /\ me.home = None
        BY <3>1, <3>2 DEF NoClient
      <4> QED BY <2>1, <4>1 DEF Serves
    <3>3. CASE Exists(c) /\ me.state < READY
      <4>1. me.interface = None
        BY <3>1, <3>3, RecParts DEF Placed, READY
      <4> QED BY <2>1, <4>1 DEF Serves
    <3>4. CASE Exists(c) /\ me.state >= READY
      <4>1. me.interface = me.home /\ me.home \in Interfaces
        BY <3>1, <3>4 DEF Placed
      <4>2. me.home = i => me.newstate # FREED
        BY <3>1, <3>4 DEF Placed
      <4>3. me.newstate # INACTIVE
        BY <3>1, <3>4, RecParts DEF Waits, FREED, INACTIVE, READY, READING, WORKING, MAX
      <4>4. me.home = i => me.newstate >= READY
        BY <3>1, <4>2, <4>3, RecParts DEF FREED, INACTIVE, READY
      <4> QED BY <2>1, <4>1, <4>4 DEF Serves
    <3> QED BY <3>1, <3>2, <3>3, <3>4, RecParts DEF READY
  <2>3. Served(World) /\ World.cl = cl /\ World.mgr = mgr
    BY <1>1, Known
  <2>4. PICK d \in Clients : /\ cl[d].home = i /\ Serves(cl[d], FALSE)
                             /\ \A x \in Clients : cl[x].home = i /\ Serves(cl[x], FALSE) => x = d
    BY <2>3 DEF Served
  <2>5. PICK e \in Clients : cl[e].home = i /\ Serves(cl[e], TRUE)
    BY <2>3 DEF Served
  <2>6. \A c \in responsible(FALSE) : c = d
    BY <2>2, <2>4
  <2>7. d \in responsible(FALSE) /\ e \in responsible(TRUE)
    BY <2>2, <2>4, <2>5
  <2> HIDE DEF responsible
  <2>8. responsible(FALSE) = {d}
    BY <2>6, <2>7
  <2>9. Cardinality({d}) = 1
    BY FS_Singleton
  <2>10. Cardinality(responsible(FALSE)) = 1 /\ responsible(TRUE) # {}
    BY <2>7, <2>8, <2>9
  <2> QED BY <2>10 DEF responsible
<1> QED BY <1>1, Invariance, PTL

(* NoUseAfterFree: the counts are the users, for any number of them:         *)
(* ns_interface_detach(), the end of a client manager and isc_quota_detach() *)
(* happen once for every attach, so that an interface, a manager or a quota  *)
(* is never destroyed in use, nor kept when nobody uses it.                  *)
THEOREM UsersAreCounted == Spec => []NoUseAfterFree
<1>1. ASSUME IInv PROVE NoUseAfterFree
  <2>1. /\ World \in Worlds /\ Counts(World) /\ Served(World)
        /\ World.cl = cl /\ World.ifp = ifp /\ World.mgr = mgr /\ World.used = used
    BY <1>1, Known
  <2>2. ASSUME NEW i \in Interfaces
        PROVE  /\ ifp[i].references = (IF mgr[i].life = "up" THEN 1 ELSE 0)
                                      + Count(LAMBDA c : cl[c].interface = i)
               /\ ifp[i].ntcpcurrent = Count(LAMBDA c : cl[c].interface = i /\ cl[c].n["accept"] = 1)
    <3>1. /\ Users(World, i) = {c \in Clients : cl[c].interface = i}
          /\ Accepts(World, i) = {c \in Clients : cl[c].interface = i /\ cl[c].n["accept"] = 1}
      BY <2>1 DEF Users, Accepts
    <3>2. /\ ifp[i].references = (IF mgr[i].life = "up" THEN 1 ELSE 0) + Cardinality(Users(World, i))
          /\ ifp[i].ntcpcurrent = Cardinality(Accepts(World, i))
      BY <2>1 DEF Counts
    <3> QED BY <3>1, <3>2 DEF Count
  <2>3. ASSUME NEW i \in Interfaces
        PROVE  /\ ifp[i].life = "destroyed" <=> ifp[i].references = 0 /\ ifp[i].life # "none"
               /\ mgr[i].clients = {c \in Clients : cl[c].home = i}
               /\ mgr[i].life = "destroyed" <=> mgr[i].clients = {} /\ mgr[i].life # "none"
    <3>1. /\ ifp[i].life \in {"none", "up", "destroyed"}
          /\ mgr[i].life \in {"none", "up", "exiting", "destroyed"}
      BY <2>1 DEF Worlds, Ifps, Mgrs
    <3>2. /\ mgr[i].clients = {c \in Clients : cl[c].home = i}
          /\ ifp[i].life = "up" <=> ifp[i].references # 0
          /\ mgr[i].life \in {"none", "destroyed"} => mgr[i].clients = {}
          /\ mgr[i].life = "exiting" => mgr[i].clients # {}
      BY <2>1 DEF Counts
    <3>3. mgr[i].life = "up" => mgr[i].clients # {}
      BY <2>1, <3>2 DEF Served
    <3> QED BY <3>1, <3>2, <3>3
  <2>4. /\ used["tcp"] = Count(LAMBDA c : cl[c].tcpquota)
        /\ used["rec"] = Count(LAMBDA c : cl[c].recursionquota)
    BY <2>1 DEF Counts, HasTcp, HasRec, Count
  <2> QED BY <2>2, <2>3, <2>4 DEF NoUseAfterFree
<1> QED BY <1>1, Invariance, PTL

(* ExitIsDue: a client that is to leave its state, at a time-out, at the end *)
(* of its connection or of its interface, waits for something canceled or    *)
(* certain, and of an interface that goes no client has missed it: the walk  *)
(* of ns_clientmgr_destroy() reaches them all, the recycled ones too.        *)
THEOREM LeavingEnds == Spec => []ExitIsDue
<1>1. ASSUME IInv PROVE ExitIsDue
  <2>1. ASSUME NEW c \in Clients, Exists(c), Exits(World, c)
        PROVE  \/ cl[c].canceled # {} \/ cl[c].victim # None \/ cl[c].fetch # "none"
               \/ cl[c].n["ctl"] + cl[c].n["send"] + cl[c].n["update"] > 0
    <3> DEFINE me == cl[c]
    <3>1. World.cl = cl /\ me \in Recs /\ Waits(me) /\ me.state # FREED
      BY <1>1, <2>1, Known
    <3>2. /\ me.newstate < me.state /\ me.state \in 1 .. 5
          /\ me.n["ctl"] \in {0, 1} /\ me.n["send"] \in {0, 1} /\ me.n["update"] \in {0, 1}
      BY <2>1, <3>1, RecParts DEF Exits, Works, FREED
    <3>3. CASE me.state = INACTIVE
      BY <3>1, <3>2, <3>3 DEF Waits, INACTIVE, MAX
    <3>4. CASE me.state = READY
      <4>1. me.newstate = FREED
        BY <3>1, <3>2, <3>4 DEF Waits, READY, MAX
      <4>2. me.canceled # {} \/ me.n["ctl"] = 1
        BY <3>1, <3>4, <4>1 DEF Waits
      <4> QED BY <3>2, <4>2
    <3>5. CASE me.state = READING
      BY <3>1, <3>2, <3>5 DEF Waits
    <3>6. CASE me.state >= WORKING
      <4>1. Pending(me) = 1
        BY <3>1, <3>6 DEF Waits
      <4> QED BY <3>2, <4>1 DEF Pending, Flag
    <3> QED BY <3>2, <3>3, <3>4, <3>5, <3>6 DEF INACTIVE, READY, READING, WORKING
  <2>2. ASSUME NEW i \in Interfaces, mgr[i].life = "exiting", NEW c \in mgr[i].clients
        PROVE  cl[c].task = "told" \/ cl[c].newstate = FREED
    <3>1. World.cl = cl /\ World.mgr = mgr /\ c \in Clients /\ cl[c].home = i
      BY <1>1, Known DEF Counts
    <3>2. Exists(c)
      <4>1. ~Exists(c) => cl[c] = [NoClient EXCEPT !.task = cl[c].task]
        BY <1>1, <3>1, Known
      <4>2. ~Exists(c) => cl[c].home = None
        BY <4>1 DEF NoClient
      <4> QED BY <3>1, <4>2, NsClientAssumption
    <3>3. Placed(World, c)
      BY <1>1, <3>1, <3>2, Known
    <3> QED BY <2>2, <3>1, <3>2, <3>3 DEF Placed, Exists
  <2> QED BY <2>1, <2>2 DEF ExitIsDue
<1> QED BY <1>1, Invariance, PTL
=============================================================================
