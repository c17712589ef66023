--------------------------- MODULE JournalProofs ----------------------------
(***************************************************************************)
(* Proofs about Journal, for any range of serial numbers, size of the      *)
(* index, target size and number of versions: journal_find() is exact, and *)
(* a restart serves what was acknowledged.                                 *)
(*                                                                         *)
(* FindInv says that there are serial numbers s, one for each offset, that *)
(* the file and what is synced keep to: Books(s).  They rise, the headers  *)
(* that are there carry them, an entry of the index is right, or behind    *)
(* all that is addressable, and the transaction in the making starts where *)
(* the file ends.                                                          *)
(*                                                                         *)
(* RecoveryInv says that there are versions h, one for each offset, with   *)
(* these serial numbers, of which the journal tells the story: Story(h).   *)
(* A body leads from one to the next, the file is one transaction ahead of *)
(* the disk at most, the master file, the dump and the zone are among the  *)
(* versions the journal has, and everything acknowledged is on the disk.   *)
(*                                                                         *)
(* Each action has a lemma for the one (Books...) and one for the other    *)
(* (Story...).  Only the new header and a compaction change s and h.       *)
(***************************************************************************)
EXTENDS Journal, DataProofs

-----------------------------------------------------------------------------
(* The invariant: serial numbers *)

\* s[k] is the serial number at offset k.
Offsets1 == 1 .. MaxVersions + 1

Xhdr(a, b) == [serial0 |-> a, serial1 |-> b]

\* The addressable transactions.
Span(f) == f.begin.offset .. f.end.offset - 1

Rising(s, a, b) == \A k, l \in a .. b : k < l => DNS_SERIAL_GT(s[l], s[k])

Blank(f) ==
    /\ f.begin = NoPos /\ f.end = NoPos
    /\ \A i \in 1 .. IndexSize : ~POS_VALID(f.index[i])

\* An entry of the index is right, and if it is no longer addressable it is behind
\* everything that is.
IndexSafe(f, s) ==
    \A i \in 1 .. IndexSize : POS_VALID(f.index[i]) =>
        /\ f.index[i].offset < f.end.offset /\ f.index[i].serial = s[f.index[i].offset]
        /\ \A k \in Span(f) : f.index[i].offset < k => DNS_SERIAL_GT(s[k], f.index[i].serial)

Bounds(f) == 1 <= f.begin.offset /\ f.begin.offset < f.end.offset /\ f.end.offset <= MaxVersions + 1

Filled(f, s) ==
    /\ Bounds(f)
    /\ f.begin.serial = s[f.begin.offset] /\ f.end.serial = s[f.end.offset]
    /\ Rising(s, f.begin.offset, f.end.offset)
    /\ IndexSafe(f, s)

Keeps(f, s) == Blank(f) \/ Filled(f, s)

\* The headers that g has of f's transactions are right or not there.
Agrees(f, g, s) == \A k \in Span(f) : g.xhdr[k] \in {None, Xhdr(s[k], s[k + 1])}

Complete(f) == \A k \in Span(f) : f.xhdr[k] # None

Fresh(f) == \A i \in 1 .. IndexSize : POS_VALID(f.index[i]) => f.index[i].offset >= f.begin.offset

\* An index that is right for the transactions from a to b.
Entries(ix, a, b, s) ==
    \A i \in 1 .. IndexSize : POS_VALID(ix[i]) =>
        ix[i].offset \in a .. b - 1 /\ ix[i].serial = s[ix[i].offset]

\* The transaction after the first journal_fsync().
Ready(s) ==
    /\ txn.end = file.end /\ synced.end = file.end
    /\ synced.begin = file.begin /\ synced.index = file.index
    /\ synced.xhdr[txn.pos0.offset] = None
    /\ txn.at = "header" => file.xhdr[txn.pos0.offset] = Xhdr(txn.pos0.serial, txn.pos1.serial)
    /\ txn.end.offset = 0 => Blank(txn)
    /\ txn.end.offset # 0 =>
          /\ txn.pos0.serial = txn.end.serial
          /\ txn.begin.offset \in file.begin.offset .. file.end.offset
          /\ txn.begin.serial = s[txn.begin.offset]
          /\ \A k \in txn.begin.offset .. txn.end.offset : DNS_SERIAL_GT(txn.pos1.serial, s[k])
          /\ \A k \in file.begin.offset .. txn.begin.offset - 1 : ~DNS_SERIAL_GT(txn.pos1.serial, s[k])
          /\ Entries(txn.index, txn.begin.offset, txn.end.offset, s)

Underway(s) ==
    /\ txn \in Txns
    /\ txn.pos0.offset = IF txn.end.offset = 0 THEN 1 ELSE txn.end.offset
    /\ txn.pos0.offset \in Offsets /\ txn.pos1.offset = txn.pos0.offset + 1
    /\ DNS_SERIAL_GT(txn.pos1.serial, txn.pos0.serial)
    /\ txn.at = "data" => /\ txn.begin = file.begin /\ txn.end = file.end /\ txn.index = file.index
                          /\ file.xhdr[txn.pos0.offset] = None
    /\ txn.at \in {"xhdr", "header"} => Ready(s)
    /\ txn.at \in {"index", "sync"} =>
          file.end = txn.pos1 /\ Entries(txn.index, file.begin.offset, file.end.offset, s)

Books(s) ==
    /\ file \in Files /\ synced \in Files /\ zone \in Versions
    /\ Keeps(file, s) /\ Keeps(synced, s)
    /\ \A f, g \in {file, synced} : Agrees(f, g, s)
    /\ Complete(file) /\ Fresh(synced)
    /\ Fresh(file) \/ (txn # None /\ txn.at = "index")
    /\ txn # None => Underway(s)

-----------------------------------------------------------------------------
(* Serial number arithmetic *)

Half == SerialMod \div 2

LEMMA HalfIs == Half \in Nat \ {0} /\ SerialMod = 2 * Half /\ SerialMod \in Nat /\ SerialMod > 0
<1>1. SerialMod \in Nat /\ SerialMod > 0 /\ SerialMod % 2 = 0
  BY JournalAssumption
<1> QED BY <1>1 DEF Half

\* How far x is beyond b, on the circle.
Dist(b, x) == IF x >= b THEN x - b ELSE x - b + SerialMod

LEMMA DistIs ==
    ASSUME NEW a \in Serials, NEW b \in Serials
    PROVE  (a - b) % SerialMod = Dist(b, a)
<1>1. SerialMod \in Nat /\ SerialMod > 0
  BY HalfIs
<1>2. CASE a >= b
  <2>1. a - b \in 0 .. SerialMod - 1 /\ a - b = SerialMod * 0 + (a - b)
    BY <1>1, <1>2 DEF Serials
  <2> QED BY <1>1, <1>2, <2>1, ModUnique DEF Dist
<1>3. CASE ~(a >= b)
  <2>1. a - b + SerialMod \in 0 .. SerialMod - 1 /\ a - b = SerialMod * (-1) + (a - b + SerialMod) /\ a - b \in Int
    BY <1>1, <1>3 DEF Serials
  <2> QED BY <1>1, <1>3, <2>1, ModUnique DEF Dist
<1> QED BY <1>2, <1>3

LEMMA GTIs ==
    ASSUME NEW a \in Serials, NEW b \in Serials
    PROVE  DNS_SERIAL_GT(a, b) <=> (a > b /\ a - b < Half) \/ (a < b /\ b - a > Half)
<1>1. DNS_SERIAL_GT(a, b) <=> Dist(b, a) # 0 /\ Dist(b, a) < Half
  BY DistIs, Zenon DEF DNS_SERIAL_GT, Half
<1> HIDE DEF Half
<1>2. SerialMod = 2 * Half /\ Half \in Nat /\ Half # 0
  BY HalfIs
<1> QED BY <1>1, <1>2 DEF Dist, Serials

\* Within half the circle from b the comparison is that of distances.
LEMMA GTDist ==
    ASSUME NEW b \in Serials, NEW x \in Serials, NEW y \in Serials,
           Dist(b, x) <= Half, Dist(b, y) < Half
    PROVE  /\ DNS_SERIAL_GT(y, x) <=> Dist(b, y) > Dist(b, x)
           /\ Dist(b, x) < Half => (DNS_SERIAL_GT(x, y) <=> Dist(b, x) > Dist(b, y))
           /\ x = y <=> Dist(b, x) = Dist(b, y)
<1>2. SerialMod = 2 * Half /\ Half \in Nat /\ Half # 0
  BY HalfIs
<1>1. /\ DNS_SERIAL_GT(y, x) <=> (y > x /\ y - x < Half) \/ (y < x /\ x - y > Half)
      /\ DNS_SERIAL_GT(x, y) <=> (x > y /\ x - y < Half) \/ (x < y /\ y - x > Half)
  BY GTIs, Zenon
<1>3. b \in Int /\ x \in Int /\ y \in Int /\ 0 <= b /\ b < SerialMod /\ 0 <= x /\ x < SerialMod
      /\ 0 <= y /\ y < SerialMod
  BY <1>2 DEF Serials
<1> HIDE DEF Half
<1> QED BY <1>1, <1>2, <1>3 DEF Dist

LEMMA DistType ==
    ASSUME NEW b \in Serials, NEW x \in Serials
    PROVE  Dist(b, x) \in Nat /\ Dist(b, b) = 0 /\ (DNS_SERIAL_GT(x, b) => Dist(b, x) < Half /\ Dist(b, x) > 0)
<1>2. SerialMod = 2 * Half /\ Half \in Nat /\ Half # 0
  BY HalfIs
<1>1. DNS_SERIAL_GT(x, b) <=> (x > b /\ x - b < Half) \/ (x < b /\ b - x > Half)
  BY GTIs, Zenon
<1> HIDE DEF Half
<1> QED BY <1>1, <1>2 DEF Dist, Serials

\* A serial number that passes the range checks of journal_find() is between.
LEMMA InRange ==
    ASSUME NEW b \in Serials, NEW e \in Serials, NEW x \in Serials,
           DNS_SERIAL_GT(e, b), ~DNS_SERIAL_GT(b, x), ~DNS_SERIAL_GT(x, e)
    PROVE  Dist(b, x) <= Dist(b, e) /\ Dist(b, e) < Half
<1>2. SerialMod = 2 * Half /\ Half \in Nat /\ Half # 0
  BY HalfIs
<1>1. /\ DNS_SERIAL_GT(e, b) <=> (e > b /\ e - b < Half) \/ (e < b /\ b - e > Half)
      /\ DNS_SERIAL_GT(b, x) <=> (b > x /\ b - x < Half) \/ (b < x /\ x - b > Half)
      /\ DNS_SERIAL_GT(x, e) <=> (x > e /\ x - e < Half) \/ (x < e /\ e - x > Half)
  BY GTIs, Zenon
<1> HIDE DEF Half
<1>3. b \in Int /\ x \in Int /\ e \in Int /\ 0 <= b /\ b < SerialMod /\ 0 <= x /\ x < SerialMod
      /\ 0 <= e /\ e < SerialMod
  BY <1>2 DEF Serials
<1> QED BY <1>1, <1>2, <1>3 DEF Dist

\* What follows from Rising, in distances from the first serial number.
LEMMA RisingDist ==
    ASSUME NEW s \in [Offsets1 -> Serials], NEW a \in Offsets1, NEW b \in Offsets1, a <= b,
           Rising(s, a, b), NEW k \in a .. b
    PROVE  /\ s[k] \in Serials /\ Dist(s[a], s[k]) \in Nat /\ Dist(s[a], s[k]) < Half
           /\ \A l \in a .. b : /\ k < l <=> Dist(s[a], s[k]) < Dist(s[a], s[l])
                                /\ k = l <=> s[k] = s[l]
                                /\ k < l <=> DNS_SERIAL_GT(s[l], s[k])
<1>0. MaxVersions \in Nat
  BY JournalAssumption
<1>1. ASSUME NEW i \in a .. b PROVE i \in Offsets1 /\ s[i] \in Serials /\ Dist(s[a], s[i]) \in Nat /\ Dist(s[a], s[i]) < Half
  <2>1. i \in Offsets1 /\ a \in a .. b
    BY <1>0 DEF Offsets1
  <2>2. s[i] \in Serials /\ s[a] \in Serials /\ Dist(s[a], s[i]) \in Nat
    BY <2>1, DistType
  <2>3. CASE i = a
    BY <2>2, <2>3, DistType, HalfIs
  <2>4. CASE i # a
    <3>1. a < i
      BY <2>1, <2>4 DEF Offsets1
    <3>2. DNS_SERIAL_GT(s[i], s[a])
      BY <2>1, <3>1 DEF Rising
    <3> QED BY <2>1, <2>2, <3>2, DistType
  <2> QED BY <2>3, <2>4
<1>2. ASSUME NEW i \in a .. b, NEW j \in a .. b, i < j PROVE Dist(s[a], s[i]) < Dist(s[a], s[j]) /\ DNS_SERIAL_GT(s[j], s[i])
  <2>1. DNS_SERIAL_GT(s[j], s[i])
    BY <1>2 DEF Rising
  <2>2. Dist(s[a], s[i]) <= Half /\ a \in Offsets1
    BY <1>1, HalfIs
  <2> QED BY <1>1, <2>1, <2>2, GTDist
<1> SUFFICES ASSUME NEW l \in a .. b
             PROVE  /\ k < l <=> Dist(s[a], s[k]) < Dist(s[a], s[l])
                    /\ k = l <=> s[k] = s[l]
                    /\ k < l <=> DNS_SERIAL_GT(s[l], s[k])
  BY <1>1
<1>3. k < l \/ k = l \/ l < k
  BY <1>1 DEF Offsets1
<1>4. ~(k < k) /\ (k < l => ~(l < k)) /\ (k < l => k # l) /\ (l < k => k # l)
  BY <1>1 DEF Offsets1
<1>5. Dist(s[a], s[k]) \in Nat /\ Dist(s[a], s[l]) \in Nat
  BY <1>1
<1>6. CASE k < l
  <2>1. Dist(s[a], s[k]) < Dist(s[a], s[l]) /\ DNS_SERIAL_GT(s[l], s[k])
    BY <1>2, <1>6
  <2>2. s[k] # s[l]
    BY <1>5, <2>1
  <2> QED BY <1>4, <1>6, <2>1, <2>2
<1>7. CASE l < k
  <2>1. Dist(s[a], s[l]) < Dist(s[a], s[k]) /\ Dist(s[a], s[l]) < Half /\ Dist(s[a], s[k]) < Half
    BY <1>1, <1>2, <1>7
  <2>2. s[k] # s[l] /\ ~(Dist(s[a], s[k]) < Dist(s[a], s[l])) /\ Dist(s[a], s[k]) <= Half
    BY <1>5, <2>1, HalfIs
  <2>3. ~DNS_SERIAL_GT(s[l], s[k])
    BY <1>1, <2>1, <2>2, GTDist
  <2> QED BY <1>4, <1>7, <2>2, <2>3
<1>8. CASE k = l
  <2>1. ~(Dist(s[a], s[k]) < Dist(s[a], s[k])) /\ Dist(s[a], s[k]) <= Half
    BY <1>1, <1>5, HalfIs
  <2>2. ~DNS_SERIAL_GT(s[k], s[k])
    <3>1. Dist(s[a], s[k]) < Half /\ s[a] \in Serials /\ s[k] \in Serials
      BY <1>1
    <3> QED BY <2>1, <3>1, GTDist
  <2> QED BY <1>4, <1>8, <2>1, <2>2
<1> QED BY <1>3, <1>6, <1>7, <1>8

-----------------------------------------------------------------------------
(* The loops over the index *)

LEMMA SizeIs == IndexSize \in Nat /\ IndexSize > 0 /\ MaxVersions \in Nat /\ MaxVersions > 0
  BY JournalAssumption

\* What index_find() returns is in every set that has the guess and that the loop
\* does not leave.
LEMMA IndexFindIs ==
    ASSUME NEW f, f.index \in Indices, NEW serial, NEW P \in SUBSET Positions, NEW guess \in P,
           \A b \in P, i \in 1 .. IndexSize :
               POS_VALID(f.index[i]) /\ DNS_SERIAL_GE(serial, f.index[i].serial)
               /\ DNS_SERIAL_GT(f.index[i].serial, b.serial) => f.index[i] \in P
    PROVE  index_find(f, serial, guess) \in P
<1> DEFINE n == IndexSize
           Takes(i, b) == /\ POS_VALID(f.index[i]) /\ DNS_SERIAL_GE(serial, f.index[i].serial)
                          /\ DNS_SERIAL_GT(f.index[i].serial, b.serial)
           Def(g, i) == IF i = 0 THEN guess ELSE IF Takes(i, g[i - 1]) THEN f.index[i] ELSE g[i - 1]
           step == [i \in 1 .. n |-> [b \in P |-> IF Takes(i, b) THEN f.index[i] ELSE b]]
           best == CHOOSE g : g = [i \in 0 .. n |-> Def(g, i)]
<1>0. n \in Nat
  BY SizeIs
<1>1. step \in [1 .. n -> [P -> P]]
  OBVIOUS
<1>2. PICK g : IsLoop(g, n, P, guess, step)
  <2> HIDE DEF step, n
  <2> QED BY <1>0, <1>1, Loop
<1>3. g = [i \in 0 .. n |-> Def(g, i)]
  <2>1. ASSUME NEW i \in 0 .. n PROVE g[i] = Def(g, i)
    <3>1. CASE i = 0
      BY <1>2, <3>1 DEF IsLoop
    <3>2. CASE i # 0
      <4>1. i \in 1 .. n /\ i - 1 \in 0 .. n
        BY <1>0, <3>2
      <4>2. g[i - 1] \in P /\ g[i] = step[i][g[i - 1]]
        BY <1>2, <3>2, <4>1 DEF IsLoop
      <4>3. step[i][g[i - 1]] = IF Takes(i, g[i - 1]) THEN f.index[i] ELSE g[i - 1]
        <5> HIDE DEF Takes
        <5> QED BY <4>1, <4>2
      <4> HIDE DEF Takes, step
      <4> QED BY <3>2, <4>2, <4>3
    <3> QED BY <3>1, <3>2
  <2> HIDE DEF Def
  <2> QED BY <1>2, <2>1 DEF IsLoop
<1> HIDE DEF step
<1>4. best = [i \in 0 .. n |-> Def(best, i)]
  <2> HIDE DEF Def
  <2> QED BY <1>3
<1>5. index_find(f, serial, guess) = best[n]
  BY DEF index_find
<1> HIDE DEF best
<1> DEFINE T == {i \in 0 .. n : best[i] \in P}
<1>6. 0 \in T
  BY <1>0, <1>4
<1>7. ASSUME NEW i \in 0 .. n - 1, i \in T PROVE i + 1 \in T
  <2>1. i + 1 \in 1 .. n /\ i + 1 \in 0 .. n /\ i + 1 # 0 /\ (i + 1) - 1 = i /\ best[i] \in P
    BY <1>0, <1>7
  <2>2. best[i + 1] = Def(best, i + 1)
    <3> HIDE DEF Def
    <3> QED BY <1>4, <2>1
  <2>3. best[i + 1] = IF Takes(i + 1, best[i]) THEN f.index[i + 1] ELSE best[i]
    <3> HIDE DEF Takes
    <3> QED BY <2>1, <2>2
  <2>4. Takes(i + 1, best[i]) => f.index[i + 1] \in P
    BY <2>1
  <2> HIDE DEF Takes
  <2> QED BY <2>1, <2>3, <2>4
<1>8. n \in T
  <2> HIDE DEF T
  <2>1. 0 .. n \subseteq T
    BY <1>0, <1>6, <1>7, UpTo
  <2> QED BY <1>0, <2>1
<1> QED BY <1>5, <1>8

-----------------------------------------------------------------------------
(* The search *)

LEMMA GTAsym ==
    ASSUME NEW a \in Serials, NEW b \in Serials, DNS_SERIAL_GT(a, b)
    PROVE  ~DNS_SERIAL_GT(b, a) /\ a # b
<1>1. /\ DNS_SERIAL_GT(a, b) <=> (a > b /\ a - b < Half) \/ (a < b /\ b - a > Half)
      /\ DNS_SERIAL_GT(b, a) <=> (b > a /\ b - a < Half) \/ (b < a /\ a - b > Half)
  BY GTIs, Zenon
<1> HIDE DEF Half
<1>2. a \in Int /\ b \in Int /\ Half \in Int
  BY HalfIs DEF Serials
<1> QED BY <1>1, <1>2

\* Where the file begins and ends.
LEMMA FilledIs ==
    ASSUME NEW f \in Files, NEW s \in [Offsets1 -> Serials], Filled(f, s)
    PROVE  LET a == f.begin.offset  b == f.end.offset IN
           /\ a \in Nat /\ b \in Nat /\ 1 <= a /\ a < b /\ a <= b /\ b <= MaxVersions + 1
           /\ Span(f) \subseteq Offsets1 /\ a \in Offsets1 /\ b \in Offsets1 /\ a \in a .. b /\ b \in a .. b
           /\ Span(f) = a .. b - 1 /\ (a .. b) \subseteq Offsets1 /\ Span(f) \subseteq Offsets
           /\ a \in Span(f) /\ b - 1 \in Span(f)
           /\ \A k \in a .. b : k # b => k \in Span(f)
           /\ \A k \in Span(f) : k \in a .. b /\ k + 1 \in a .. b
           /\ Rising(s, a, b)
           /\ f.begin \in Positions /\ f.end \in Positions /\ f.index \in Indices
           /\ f.begin.serial = s[a] /\ f.end.serial = s[b]
<1>1. f.begin \in Positions /\ f.end \in Positions /\ f.index \in Indices
  BY DEF Files
<1>2. f.begin.offset \in Nat /\ f.end.offset \in Nat /\ MaxVersions \in Nat
  BY <1>1, SizeIs DEF Positions
<1>3. /\ 1 <= f.begin.offset /\ f.begin.offset < f.end.offset /\ f.end.offset <= MaxVersions + 1
      /\ f.begin.serial = s[f.begin.offset] /\ f.end.serial = s[f.end.offset]
      /\ Rising(s, f.begin.offset, f.end.offset)
  BY DEF Filled, Bounds
<1> DEFINE a == f.begin.offset
           b == f.end.offset
<1>4. /\ a \in Nat /\ b \in Nat /\ 1 <= a /\ a < b /\ b <= MaxVersions + 1
      /\ f.begin.serial = s[a] /\ f.end.serial = s[b] /\ Rising(s, a, b) /\ Span(f) = a .. b - 1
  BY <1>2, <1>3 DEF Span
<1> HIDE DEF a, b
<1>5. /\ a \in Offsets1 /\ b \in Offsets1 /\ a \in a .. b /\ b \in a .. b
      /\ (a .. b) \subseteq Offsets1 /\ (a .. b - 1) \subseteq Offsets /\ (a .. b - 1) \subseteq Offsets1 /\ a <= b
      /\ a \in a .. b - 1 /\ b - 1 \in a .. b - 1
      /\ \A k \in a .. b : k # b => k \in a .. b - 1
      /\ \A k \in a .. b - 1 : k \in a .. b /\ k + 1 \in a .. b
  BY <1>2, <1>4 DEF Offsets, Offsets1
<1> QED BY <1>1, <1>4, <1>5 DEF a, b

LEMMA SerialAtIs ==
    ASSUME NEW f \in Files, NEW s \in [Offsets1 -> Serials], Filled(f, s), Agrees(f, f, s),
           NEW k \in f.begin.offset .. f.end.offset,
           k = f.begin.offset \/ k = f.end.offset \/ f.xhdr[k - 1] # None
    PROVE  SerialAt(f, k) = s[k]
<1> DEFINE a == f.begin.offset
           b == f.end.offset
<1>0. /\ a \in Nat /\ b \in Nat /\ a < b /\ Span(f) = a .. b - 1 /\ k \in a .. b
      /\ f.begin.serial = s[a] /\ f.end.serial = s[b]
  BY FilledIs
<1>1. CASE k = a
  BY <1>0, <1>1 DEF SerialAt
<1>2. CASE k # a /\ k = b
  BY <1>0, <1>2 DEF SerialAt
<1>3. CASE k # a /\ k # b
  <2>1. SerialAt(f, k) = IF f.xhdr[k - 1] = None THEN 0 ELSE f.xhdr[k - 1].serial1
    BY <1>3 DEF SerialAt
  <2>2. f.xhdr[k - 1] # None
    BY <1>3
  <2> HIDE DEF a, b
  <2>3. k - 1 \in a .. b - 1 /\ (k - 1) + 1 = k
    BY <1>0, <1>3
  <2>4. f.xhdr[k - 1] = Xhdr(s[k - 1], s[k])
    BY <1>0, <2>2, <2>3 DEF Agrees
  <2> QED BY <2>1, <2>2, <2>4 DEF Xhdr
<1> QED BY <1>1, <1>2, <1>3

\* The guess is an addressable transaction, and not beyond serial.
LEMMA GuessIs ==
    ASSUME NEW f \in Files, NEW s \in [Offsets1 -> Serials], Filled(f, s), NEW serial \in Serials,
           ~DNS_SERIAL_GT(f.begin.serial, serial), ~DNS_SERIAL_GT(serial, f.end.serial)
    PROVE  LET g == index_find(f, serial, f.begin) IN
           /\ g \in Positions /\ g.offset \in Span(f) /\ g.serial = s[g.offset]
           /\ Dist(f.begin.serial, g.serial) <= Dist(f.begin.serial, serial)
<1> DEFINE a == f.begin.offset
           b == f.end.offset
           P == {p \in Positions : /\ p.offset \in Span(f) /\ p.serial = s[p.offset]
                                   /\ Dist(s[a], p.serial) <= Dist(s[a], serial)}
<1>0. /\ a \in Nat /\ b \in Nat /\ a < b /\ a \in Offsets1 /\ b \in Offsets1 /\ a <= b
      /\ Span(f) = a .. b - 1 /\ a \in Span(f) /\ b \in a .. b /\ a \in a .. b /\ Rising(s, a, b)
      /\ f.begin \in Positions /\ f.index \in Indices
      /\ f.begin.serial = s[a] /\ f.end.serial = s[b] /\ Span(f) \subseteq Offsets1
      /\ \A k \in Span(f) : k \in a .. b
  BY FilledIs
<1> HIDE DEF a, b
<1>1. Dist(s[a], serial) <= Dist(s[a], s[b]) /\ Dist(s[a], s[b]) < Half /\ Dist(s[a], serial) \in Nat
      /\ Dist(s[a], s[b]) \in Nat /\ Half \in Nat /\ s[a] \in Serials
  <2>1. s[a] \in Serials /\ s[b] \in Serials
    BY <1>0
  <2>2. DNS_SERIAL_GT(s[b], s[a])
    BY <1>0 DEF Rising
  <2> QED BY <1>0, <2>1, <2>2, InRange, DistType, HalfIs
<1>2. f.begin \in P
  <2>1. Dist(s[a], s[a]) = 0
    BY <1>1, DistType
  <2> QED BY <1>0, <1>1, <2>1 DEF a
<1>3. ASSUME NEW c \in P, NEW i \in 1 .. IndexSize, POS_VALID(f.index[i]),
             DNS_SERIAL_GE(serial, f.index[i].serial), DNS_SERIAL_GT(f.index[i].serial, c.serial)
      PROVE  f.index[i] \in P
  <2> DEFINE p == f.index[i]
  <2>1. /\ p \in Positions /\ p.offset < b /\ p.serial = s[p.offset] /\ p.offset \in Nat
        /\ \A k \in Span(f) : p.offset < k => DNS_SERIAL_GT(s[k], p.serial)
        /\ p.serial \in Serials
    BY <1>0, <1>3 DEF Filled, IndexSafe, Indices, Positions, b
  <2>2. c.offset \in Span(f) /\ c.serial = s[c.offset] /\ c.serial \in Serials
    BY DEF Positions
  <2> HIDE DEF p
  <2>3. p.offset \in Span(f)
    <3>1. ~(p.offset < c.offset)
      BY <1>3, <2>1, <2>2, GTAsym DEF p
    <3> QED BY <1>0, <2>1, <2>2, <3>1
  <2>4. Dist(s[a], p.serial) \in Nat /\ Dist(s[a], p.serial) < Half
    BY <1>0, <2>1, <2>3, RisingDist
  <2>5. Dist(s[a], p.serial) <= Dist(s[a], serial)
    <3>1. CASE serial = p.serial
      BY <2>4, <3>1
    <3>2. CASE DNS_SERIAL_GT(serial, p.serial)
      <4>1. Dist(s[a], serial) < Half /\ Dist(s[a], p.serial) <= Half
        BY <1>1, <2>4
      <4>2. Dist(s[a], serial) > Dist(s[a], p.serial)
        BY <1>1, <2>1, <3>2, <4>1, GTDist
      <4> QED BY <1>1, <2>4, <4>2
    <3> QED BY <1>3, <3>1, <3>2 DEF DNS_SERIAL_GE, p
  <2> QED BY <2>1, <2>3, <2>5 DEF p
<1>4. index_find(f, serial, f.begin) \in P
  <2>1. P \in SUBSET Positions
    OBVIOUS
  <2> HIDE DEF P
  <2> QED BY <1>0, <1>2, <1>3, <2>1, IndexFindIs
<1> HIDE DEF a
<1> QED BY <1>0, <1>4

\* journal_find() is right when it says success, and says it for every addressable
\* transaction if all headers are there.
LEMMA FindIs ==
    ASSUME NEW f \in Files, NEW s \in [Offsets1 -> Serials], Filled(f, s), Agrees(f, f, s),
           NEW serial \in Serials
    PROVE  LET r == journal_find(f, serial) IN
           /\ r.result = "success" =>
                 /\ r.pos.offset \in f.begin.offset .. f.end.offset /\ s[r.pos.offset] = serial
                 /\ r.pos.serial = serial
           /\ Complete(f) /\ (\E k \in f.begin.offset .. f.end.offset : s[k] = serial) =>
                 r.result = "success"
<1> DEFINE a == f.begin.offset
           b == f.end.offset
           g == index_find(f, serial, f.begin)
           at(k) == IF k = g.offset THEN g.serial ELSE SerialAt(f, k)
           stops == {k \in g.offset .. b : DNS_SERIAL_GE(at(k), serial)}
           k == CHOOSE k \in stops : \A l \in stops : k <= l
           found(p) == [result |-> "success", pos |-> p]
           failed(why) == [result |-> why, pos |-> NoPos]
           broken == \E l \in g.offset .. k - 1 : f.xhdr[l] = None \/ f.xhdr[l].serial0 # at(l)
           r == journal_find(f, serial)
<1>0. /\ a \in Nat /\ b \in Nat /\ a < b /\ a \in Offsets1 /\ b \in Offsets1 /\ a <= b
      /\ Span(f) = a .. b - 1 /\ a \in Span(f) /\ b \in a .. b /\ a \in a .. b /\ Rising(s, a, b)
      /\ f.begin \in Positions /\ f.end \in Positions /\ f.index \in Indices
      /\ f.begin.serial = s[a] /\ f.end.serial = s[b] /\ Span(f) \subseteq Offsets1
      /\ \A l \in Span(f) : l \in a .. b
      /\ \A l \in a .. b : l \in Offsets1
  BY FilledIs
<1>1. r = IF DNS_SERIAL_GT(f.begin.serial, serial) \/ DNS_SERIAL_GT(serial, f.end.serial)
            THEN failed("range")
          ELSE IF serial = f.end.serial THEN found(f.end)
          ELSE IF g.serial = serial THEN found(g)
          ELSE IF g.offset >= b \/ broken THEN failed("unexpected")
          ELSE IF at(k) = serial THEN found(Pos(serial, k))
          ELSE failed("notfound")
  BY DEF journal_find
<1> HIDE DEF r
<1>2. ASSUME NEW l \in a .. b, s[l] = serial
      PROVE  ~DNS_SERIAL_GT(f.begin.serial, serial) /\ ~DNS_SERIAL_GT(serial, f.end.serial)
  <2> HIDE DEF a, b
  <2>0. l \in Nat /\ a <= l /\ l <= b
    BY <1>0
  <2>1. ~DNS_SERIAL_GT(s[a], s[l])
    <3>1. ~(l < a)
      BY <1>0, <2>0
    <3> QED BY <1>0, <3>1, RisingDist
  <2>2. ~DNS_SERIAL_GT(s[l], s[b])
    <3>1. ~(b < l)
      BY <1>0, <2>0
    <3> QED BY <1>0, <3>1, RisingDist
  <2> QED BY <1>0, <1>2, <2>1, <2>2
<1>3. CASE DNS_SERIAL_GT(f.begin.serial, serial) \/ DNS_SERIAL_GT(serial, f.end.serial)
  <2>1. r = failed("range")
    BY <1>1, <1>3, Zenon
  <2>2. r.result # "success"
    BY <2>1
  <2> HIDE DEF a, b
  <2> QED BY <1>2, <1>3, <2>2, Zenon DEF a, b, r
<1>4. CASE ~DNS_SERIAL_GT(f.begin.serial, serial) /\ ~DNS_SERIAL_GT(serial, f.end.serial)
           /\ serial = f.end.serial
  <2>1. r = found(f.end)
    BY <1>1, <1>4, Zenon
  <2>2. r.result = "success" /\ r.pos = f.end
    BY <2>1
  <2> QED BY <1>0, <1>4, <2>2 DEF r
<1>5. CASE ~DNS_SERIAL_GT(f.begin.serial, serial) /\ ~DNS_SERIAL_GT(serial, f.end.serial)
           /\ serial # f.end.serial
  <2>1. /\ g \in Positions /\ g.offset \in Span(f) /\ g.serial = s[g.offset]
        /\ Dist(s[a], g.serial) <= Dist(s[a], serial)
    <3> HIDE DEF a
    <3> QED BY <1>0, <1>5, GuessIs
  <2> HIDE DEF g
  <2>2. g.offset \in a .. b /\ g.offset \in Nat /\ g.offset < b /\ ~(g.offset >= b) /\ a <= g.offset
    BY <1>0, <2>1
  <2>3. CASE g.serial = serial
    <3>1. r = found(g)
      BY <1>1, <1>5, <2>3, Zenon
    <3>2. r.result = "success" /\ r.pos = g
      BY <3>1
    <3> QED BY <1>0, <2>1, <2>2, <2>3, <3>2 DEF r
  <2>4. CASE g.serial # serial
    <3>1. r = IF broken THEN failed("unexpected")
              ELSE IF at(k) = serial THEN found(Pos(serial, k)) ELSE failed("notfound")
      BY <1>1, <1>5, <2>2, <2>4, Zenon
    <3>d. Dist(s[a], serial) <= Dist(s[a], s[b]) /\ Dist(s[a], s[b]) < Half /\ Dist(s[a], serial) \in Nat
          /\ Dist(s[a], s[b]) \in Nat /\ Half \in Nat /\ s[a] \in Serials /\ s[b] \in Serials
      <4> HIDE DEF a, b
      <4>1. s[a] \in Serials /\ s[b] \in Serials
        BY <1>0
      <4>2. DNS_SERIAL_GT(s[b], s[a])
        BY <1>0 DEF Rising
      <4> QED BY <1>0, <1>5, <4>1, <4>2, InRange, DistType, HalfIs
    <3>2. at(b) = s[b] /\ b # g.offset
      BY <1>0, <2>2, SerialAtIs
    <3>3. b \in stops
      <4>1. DNS_SERIAL_GT(s[b], serial)
        <5>1. serial # s[b] /\ Dist(s[a], serial) <= Half
          BY <1>0, <1>5, <3>d
        <5>2. Dist(s[a], serial) # Dist(s[a], s[b])
          BY <3>d, <5>1, GTDist
        <5>3. Dist(s[a], s[b]) > Dist(s[a], serial)
          BY <3>d, <5>2
        <5> QED BY <3>d, <5>1, <5>3, GTDist
      <4>2. b \in g.offset .. b
        BY <1>0, <2>2
      <4> HIDE DEF at
      <4> QED BY <3>2, <4>1, <4>2 DEF DNS_SERIAL_GE
    <3> HIDE DEF a, b, at
    <3>4. k \in stops /\ \A l \in stops : k <= l
      <4>1. stops \in SUBSET Nat /\ stops # {}
        BY <1>0, <2>2, <3>3
      <4> HIDE DEF stops
      <4>2. \E x \in stops : \A y \in stops : x <= y
        BY <4>1, Least
      <4> QED BY <4>2
    <3>5. k \in g.offset .. b /\ DNS_SERIAL_GE(at(k), serial) /\ k \in Nat
      BY <1>0, <2>2, <3>4
    <3> HIDE DEF k
    <3>6. ASSUME NEW l \in g.offset .. b, ~broken \/ Complete(f), l <= k PROVE at(l) = s[l]
      <4>1. CASE l = g.offset
        BY <2>1, <4>1 DEF at
      <4>2. CASE l # g.offset
        <5>1. l - 1 \in g.offset .. k - 1 /\ l - 1 \in Span(f) /\ l \in a .. b
          BY <1>0, <2>2, <3>5, <3>6, <4>2
        <5>2. f.xhdr[l - 1] # None
          <6> HIDE DEF stops
          <6>1. CASE Complete(f)
            BY <5>1, <6>1 DEF Complete
          <6>2. CASE ~broken
            BY <5>1, <6>2
          <6> QED BY <3>6, <6>1, <6>2
        <5>3. SerialAt(f, l) = s[l]
          BY <5>1, <5>2, SerialAtIs DEF a, b
        <5> QED BY <4>2, <5>3 DEF at
      <4> QED BY <4>1, <4>2
    <3>7. ASSUME Complete(f) PROVE ~broken
      <4> SUFFICES ASSUME NEW l \in g.offset .. k - 1 PROVE f.xhdr[l] # None /\ f.xhdr[l].serial0 = at(l)
        OBVIOUS
      <4>1. l \in Span(f) /\ l \in g.offset .. b /\ l <= k
        BY <1>0, <2>2, <3>5
      <4>2. at(l) = s[l]
        BY <3>6, <3>7, <4>1
      <4>3. f.xhdr[l] # None
        BY <3>7, <4>1 DEF Complete
      <4>4. f.xhdr[l] = Xhdr(s[l], s[l + 1])
        BY <4>1, <4>3 DEF Agrees
      <4> QED BY <4>2, <4>3, <4>4 DEF Xhdr
    <3>8. ASSUME r.result = "success" PROVE ~broken /\ at(k) = serial /\ r = found(Pos(serial, k))
      <4> HIDE DEF broken
      <4>1. CASE broken
        <5>1. r = failed("unexpected")
          BY <3>1, <4>1, Zenon
        <5> QED BY <3>8, <5>1
      <4>2. CASE ~broken /\ at(k) # serial
        <5>1. r = failed("notfound")
          BY <3>1, <4>2, Zenon
        <5> QED BY <3>8, <5>1
      <4>3. CASE ~broken /\ at(k) = serial
        BY <3>1, <4>3, Zenon
      <4> QED BY <4>1, <4>2, <4>3
    <3>9. ASSUME r.result = "success"
          PROVE  r.pos.offset \in a .. b /\ s[r.pos.offset] = serial /\ r.pos.serial = serial
      <4>1. ~broken /\ at(k) = serial /\ r = found(Pos(serial, k))
        BY <3>8, <3>9
      <4>2. k <= k
        BY <3>5
      <4> HIDE DEF broken
      <4>3. s[k] = serial
        BY <3>5, <3>6, <4>1, <4>2
      <4>4. r.pos = Pos(serial, k)
        BY <4>1
      <4>5. k \in a .. b
        BY <1>0, <2>2, <3>5
      <4> QED BY <4>3, <4>4, <4>5 DEF Pos
    <3>10. ASSUME Complete(f), NEW l \in a .. b, s[l] = serial PROVE r.result = "success"
      <4>1. /\ Dist(s[a], s[g.offset]) <= Dist(s[a], s[l]) /\ Dist(s[a], s[g.offset]) \in Nat
            /\ Dist(s[a], s[l]) \in Nat /\ Dist(s[a], s[l]) < Half
            /\ l < g.offset <=> Dist(s[a], s[l]) < Dist(s[a], s[g.offset])
        BY <1>0, <2>1, <2>2, <3>10, RisingDist
      <4>2. l \in Nat /\ g.offset <= l /\ l \in g.offset .. b
        BY <1>0, <2>2, <4>1
      <4>3. l \in stops
        <5>1. at(l) = s[l]
          <6>1. CASE l = g.offset
            BY <2>1, <6>1 DEF at
          <6>2. CASE l # g.offset
            <7>1. l - 1 \in Span(f)
              BY <1>0, <2>2, <4>2, <6>2
            <7>2. SerialAt(f, l) = s[l]
              BY <3>10, <7>1, SerialAtIs DEF a, b, Complete
            <7> QED BY <6>2, <7>2 DEF at
          <6> QED BY <6>1, <6>2
        <5> QED BY <3>10, <4>2, <5>1 DEF DNS_SERIAL_GE
      <4>4. k <= l
        BY <3>4, <4>3
      <4>5. k <= k /\ ~broken
        BY <3>5, <3>7, <3>10
      <4>6. at(k) = s[k]
        BY <3>5, <3>6, <3>10, <4>5
      <4>7. k = l
        <5>1. k \in a .. b /\ ~(l < k)
          BY <1>0, <2>2, <3>5, <4>2, <4>4
        <5>2. s[k] = s[l] \/ DNS_SERIAL_GT(s[k], s[l])
          BY <3>5, <3>10, <4>6 DEF DNS_SERIAL_GE
        <5>3. /\ l = k <=> s[l] = s[k]
              /\ l < k <=> DNS_SERIAL_GT(s[k], s[l])
          BY <1>0, <3>10, <5>1, RisingDist
        <5> QED BY <5>1, <5>2, <5>3
      <4> HIDE DEF broken
      <4>8. r = found(Pos(serial, k))
        BY <3>1, <3>10, <4>5, <4>6, <4>7, Zenon
      <4> QED BY <4>8
    <3> QED BY <3>9, <3>10 DEF a, b, r
  <2> HIDE DEF a, b
  <2> QED BY <2>3, <2>4
<1> HIDE DEF a, b
<1> QED BY <1>3, <1>4, <1>5

LEMMA BooksFind ==
    ASSUME NEW s \in [Offsets1 -> Serials], Books(s)
    PROVE  FindIsExact
<1> SUFFICES ASSUME ~JOURNAL_EMPTY(file), NEW serial \in Serials
             PROVE  LET starts == {k \in file.begin.offset .. file.end.offset : SerialAt(file, k) = serial}
                        found  == journal_find(file, serial)
                    IN  IF starts = {} THEN found.result # "success"
                        ELSE starts = {found.pos.offset} /\ found.pos.serial = serial
  BY DEF FindIsExact, Serials
<1> DEFINE starts == {k \in file.begin.offset .. file.end.offset : SerialAt(file, k) = serial}
           found  == journal_find(file, serial)
           a == file.begin.offset
           b == file.end.offset
<1>1. /\ file \in Files /\ Filled(file, s) /\ Agrees(file, file, s) /\ Complete(file)
  BY DEF Books, Keeps, Blank, JOURNAL_EMPTY, NoPos, Pos
<1>2. /\ a \in Nat /\ b \in Nat /\ a \in Offsets1 /\ b \in Offsets1 /\ a <= b /\ Span(file) = a .. b - 1
      /\ Rising(s, a, b)
  BY <1>1, FilledIs
<1>3. ASSUME NEW k \in a .. b PROVE SerialAt(file, k) = s[k]
  <2>1. k = a \/ k - 1 \in Span(file)
    <3> HIDE DEF a, b
    <3> QED BY <1>2
  <2> QED BY <1>1, <2>1, SerialAtIs DEF Complete
<1>4. starts = {k \in a .. b : s[k] = serial}
  BY <1>3
<1>5. /\ found.result = "success" => found.pos.offset \in a .. b /\ s[found.pos.offset] = serial
                                     /\ found.pos.serial = serial
      /\ (\E k \in a .. b : s[k] = serial) => found.result = "success"
  BY <1>1, FindIs
<1> HIDE DEF starts, found, a, b
<1>6. \A k, l \in a .. b : s[k] = s[l] => k = l
  BY <1>2, RisingDist
<1>7. CASE starts = {}
  BY <1>4, <1>5, <1>7 DEF starts, found
<1>8. CASE starts # {}
  <2>1. PICK k \in a .. b : s[k] = serial
    BY <1>4, <1>8
  <2>2. found.pos.offset \in a .. b /\ s[found.pos.offset] = serial /\ found.pos.serial = serial
    BY <1>5, <2>1
  <2>3. starts = {found.pos.offset}
    BY <1>4, <1>6, <2>2
  <2> QED BY <1>8, <2>2, <2>3 DEF starts, found
<1> QED BY <1>7, <1>8

-----------------------------------------------------------------------------
(* Compaction *)

\* An entry of the index after index_add() was there before or is the new one.
LEMMA IndexAddIs ==
    ASSUME NEW ix \in Indices, NEW p \in Positions
    PROVE  /\ index_add(ix, p) \in Indices
           /\ \A i \in 1 .. IndexSize : POS_VALID(index_add(ix, p)[i]) =>
                 index_add(ix, p)[i] = p \/ \E j \in 1 .. IndexSize : index_add(ix, p)[i] = ix[j]
<1> DEFINE vacant(jx) == CHOOSE i \in 1 .. IndexSize :
                            ~POS_VALID(jx[i]) /\ \A j \in 1 .. i - 1 : POS_VALID(jx[j])
           half == [i \in 1 .. IndexSize |-> IF 2 * i - 1 <= IndexSize THEN ix[2 * i - 1] ELSE NoPos]
           room == IF \A i \in 1 .. IndexSize : POS_VALID(ix[i]) THEN half ELSE ix
<1>0. IndexSize \in Nat /\ NoPos \in Positions /\ ~POS_VALID(NoPos)
  BY SizeIs, HalfIs DEF NoPos, Pos, Positions, Serials, POS_VALID
<1>1. index_add(ix, p) = [room EXCEPT ![vacant(room)] = p]
  BY DEF index_add
<1>2. \A i \in 1 .. IndexSize : 2 * i - 1 <= IndexSize => 2 * i - 1 \in 1 .. IndexSize
  BY <1>0
<1>3. half \in Indices /\ \A i \in 1 .. IndexSize : half[i] = NoPos \/ \E j \in 1 .. IndexSize : half[i] = ix[j]
  BY <1>0, <1>2 DEF Indices
<1>4. room \in Indices /\ \A i \in 1 .. IndexSize : room[i] = NoPos \/ \E j \in 1 .. IndexSize : room[i] = ix[j]
  <2> HIDE DEF half
  <2> QED BY <1>3
<1> DEFINE v == vacant(room)
           new == [room EXCEPT ![v] = p]
<1> HIDE DEF room, v
<1>5. new \in Indices /\ \A i \in 1 .. IndexSize : new[i] = p \/ new[i] = room[i]
  BY <1>4 DEF Indices
<1>6. index_add(ix, p) = new
  BY <1>1 DEF v
<1> HIDE DEF new
<1> QED BY <1>0, <1>4, <1>5, <1>6

\* The loop of dns_journal_compact() over the index.
LEMMA CompactGuessIs ==
    ASSUME NEW f, f.index \in Indices, NEW serial, NEW P \in SUBSET Positions, f.begin \in P,
           \A b \in P, i \in 1 .. IndexSize :
               POS_VALID(f.index[i]) /\ DNS_SERIAL_GE(serial, f.index[i].serial)
               /\ f.index[i].offset > b.offset => f.index[i] \in P
    PROVE  compact_guess(f, serial) \in P
<1> DEFINE n == IndexSize
           Takes(i, b) == /\ POS_VALID(f.index[i]) /\ DNS_SERIAL_GE(serial, f.index[i].serial)
                          /\ Enough(f, f.index[i].offset) /\ f.index[i].offset > b.offset
           Def(g, i) == IF i = 0 THEN f.begin ELSE IF Takes(i, g[i - 1]) THEN f.index[i] ELSE g[i - 1]
           step == [i \in 1 .. n |-> [b \in P |-> IF Takes(i, b) THEN f.index[i] ELSE b]]
           best == CHOOSE g : g = [i \in 0 .. n |-> Def(g, i)]
<1>0. n \in Nat
  BY SizeIs
<1>1. step \in [1 .. n -> [P -> P]]
  <2>1. \A b \in P, i \in 1 .. n : Takes(i, b) => f.index[i] \in P
    BY Zenon
  <2> HIDE DEF Takes
  <2> QED BY <2>1
<1>2. PICK g : IsLoop(g, n, P, f.begin, step)
  <2> HIDE DEF step, n
  <2> QED BY <1>0, <1>1, Loop
<1>3. g = [i \in 0 .. n |-> Def(g, i)]
  <2>1. ASSUME NEW i \in 0 .. n PROVE g[i] = Def(g, i)
    <3>1. CASE i = 0
      BY <1>2, <3>1 DEF IsLoop
    <3>2. CASE i # 0
      <4>1. i \in 1 .. n /\ i - 1 \in 0 .. n
        BY <1>0, <3>2
      <4>2. g[i - 1] \in P /\ g[i] = step[i][g[i - 1]]
        BY <1>2, <3>2, <4>1 DEF IsLoop
      <4>3. step[i][g[i - 1]] = IF Takes(i, g[i - 1]) THEN f.index[i] ELSE g[i - 1]
        <5> HIDE DEF Takes
        <5> QED BY <4>1, <4>2
      <4> HIDE DEF Takes, step
      <4> QED BY <3>2, <4>2, <4>3
    <3> QED BY <3>1, <3>2
  <2> HIDE DEF Def
  <2> QED BY <1>2, <2>1 DEF IsLoop
<1> HIDE DEF step
<1>4. best = [i \in 0 .. n |-> Def(best, i)]
  <2> HIDE DEF Def
  <2> QED BY <1>3
<1>5. compact_guess(f, serial) = best[n]
  BY DEF compact_guess
<1> HIDE DEF best
<1> DEFINE T == {i \in 0 .. n : best[i] \in P}
<1>6. 0 \in T
  BY <1>0, <1>4
<1>7. ASSUME NEW i \in 0 .. n - 1, i \in T PROVE i + 1 \in T
  <2>1. i + 1 \in 1 .. n /\ i + 1 \in 0 .. n /\ i + 1 # 0 /\ (i + 1) - 1 = i /\ best[i] \in P
    BY <1>0, <1>7
  <2>2. best[i + 1] = Def(best, i + 1)
    <3> HIDE DEF Def
    <3> QED BY <1>4, <2>1
  <2>3. best[i + 1] = IF Takes(i + 1, best[i]) THEN f.index[i + 1] ELSE best[i]
    <3> HIDE DEF Takes
    <3> QED BY <2>1, <2>2
  <2>4. Takes(i + 1, best[i]) => f.index[i + 1] \in P
    BY <2>1, Zenon
  <2> HIDE DEF Takes
  <2> QED BY <2>1, <2>3, <2>4
<1>8. n \in T
  <2> HIDE DEF T
  <2>1. 0 .. n \subseteq T
    BY <1>0, <1>6, <1>7, UpTo
  <2> QED BY <1>0, <2>1
<1> QED BY <1>5, <1>8

\* The index that dns_journal_compact() builds has transactions of the new file.
LEMMA NewIndexIs ==
    ASSUME NEW f, NEW from \in Nat, f.end.offset \in Nat, from <= f.end.offset, NEW old \in Indices,
           \A i \in 1 .. IndexSize : ~POS_VALID(old[i]),
           \A k \in 1 .. f.end.offset - from : SerialAt(f, k + from - 1) \in Serials
    PROVE  /\ new_index(f, from, old) \in Indices
           /\ \A i \in 1 .. IndexSize : POS_VALID(new_index(f, from, old)[i]) =>
                 \E k \in 1 .. f.end.offset - from :
                    new_index(f, from, old)[i] = Pos(SerialAt(f, k + from - 1), k)
<1> DEFINE n == f.end.offset - from
           At(k) == Pos(SerialAt(f, k + from - 1), k)
           P == {ix \in Indices : \A i \in 1 .. IndexSize : POS_VALID(ix[i]) =>
                    \E k \in 1 .. n : ix[i] = At(k)}
           Def(g, k) == IF k = 0 THEN old ELSE index_add(g[k - 1], At(k))
           step == [k \in 1 .. n |-> [ix \in P |-> index_add(ix, At(k))]]
           built == CHOOSE g : g = [k \in 0 .. n |-> Def(g, k)]
<1>0. n \in Nat
  OBVIOUS
<1>a. ASSUME NEW k \in 1 .. n PROVE At(k) \in Positions
  BY <1>0 DEF Pos, Positions
<1>b. new_index(f, from, old) = built[n]
  BY DEF new_index
<1> HIDE DEF n, At
<1>c. ASSUME NEW ix \in P, NEW k \in 1 .. n PROVE index_add(ix, At(k)) \in P
  <2>1. /\ index_add(ix, At(k)) \in Indices
        /\ \A i \in 1 .. IndexSize : POS_VALID(index_add(ix, At(k))[i]) =>
              index_add(ix, At(k))[i] = At(k) \/ \E j \in 1 .. IndexSize : index_add(ix, At(k))[i] = ix[j]
    BY <1>a, IndexAddIs
  <2> QED BY <2>1
<1>d. old \in P
  OBVIOUS
<1> HIDE DEF P
<1>1. step \in [1 .. n -> [P -> P]]
  BY <1>c
<1>2. PICK g : IsLoop(g, n, P, old, step)
  <2> HIDE DEF step
  <2> QED BY <1>0, <1>1, <1>d, Loop
<1>3. g = [k \in 0 .. n |-> Def(g, k)]
  <2>1. ASSUME NEW k \in 0 .. n PROVE g[k] = Def(g, k)
    <3>1. CASE k = 0
      BY <1>2, <3>1 DEF IsLoop
    <3>2. CASE k # 0
      <4>1. k \in 1 .. n /\ k - 1 \in 0 .. n
        BY <1>0, <3>2
      <4>2. g[k - 1] \in P /\ g[k] = step[k][g[k - 1]]
        BY <1>2, <3>2, <4>1 DEF IsLoop
      <4>3. step[k][g[k - 1]] = index_add(g[k - 1], At(k))
        BY <4>1, <4>2
      <4> HIDE DEF step
      <4> QED BY <3>2, <4>2, <4>3
    <3> QED BY <3>1, <3>2
  <2> HIDE DEF Def
  <2> QED BY <1>2, <2>1 DEF IsLoop
<1> HIDE DEF step
<1>4. built = [k \in 0 .. n |-> Def(built, k)]
  <2> HIDE DEF Def
  <2> QED BY <1>3
<1> HIDE DEF built
<1> DEFINE T == {i \in 0 .. n : built[i] \in P}
<1>6. 0 \in T
  BY <1>0, <1>4, <1>d
<1>7. ASSUME NEW i \in 0 .. n - 1, i \in T PROVE i + 1 \in T
  <2>1. i + 1 \in 1 .. n /\ i + 1 \in 0 .. n /\ i + 1 # 0 /\ (i + 1) - 1 = i /\ built[i] \in P
    BY <1>0, <1>7
  <2>2. built[i + 1] = Def(built, i + 1)
    <3> HIDE DEF Def
    <3> QED BY <1>4, <2>1
  <2>3. built[i + 1] = index_add(built[i], At(i + 1))
    BY <2>1, <2>2
  <2> QED BY <1>c, <2>1, <2>3
<1>8. n \in T
  <2> HIDE DEF T
  <2>1. 0 .. n \subseteq T
    BY <1>0, <1>6, <1>7, UpTo
  <2> QED BY <1>0, <2>1
<1> QED BY <1>b, <1>8 DEF P, At, n

\* The new file starts no later than the first transaction that serial needs.
LEMMA CompactFromIs ==
    ASSUME NEW f \in Files, NEW s \in [Offsets1 -> Serials], Filled(f, s), Agrees(f, f, s), Complete(f),
           NEW serial \in Serials, NeedsCompaction(f, serial)
    PROVE  LET from == compact_from(f, serial) IN
           /\ from \in f.begin.offset .. f.end.offset
           /\ \A m \in f.begin.offset .. f.end.offset :
                 Dist(f.begin.serial, serial) <= Dist(f.begin.serial, s[m]) => from <= m
<1> DEFINE a == f.begin.offset
           b == f.end.offset
           g == compact_guess(f, serial)
           walked == {k \in g.offset .. b - 1 : \A l \in g.offset + 1 .. k :
                        DNS_SERIAL_GE(serial, SerialAt(f, l)) /\ Enough(f, l)}
           best == CHOOSE k \in walked : \A l \in walked : l <= k
           P == {p \in Positions : /\ p.offset \in Span(f) /\ p.serial = s[p.offset]
                                   /\ Dist(s[a], p.serial) <= Dist(s[a], serial)}
<1>0. /\ a \in Nat /\ b \in Nat /\ a < b /\ a \in Offsets1 /\ b \in Offsets1 /\ a <= b
      /\ Span(f) = a .. b - 1 /\ a \in Span(f) /\ b \in a .. b /\ a \in a .. b /\ Rising(s, a, b)
      /\ f.begin \in Positions /\ f.index \in Indices
      /\ f.begin.serial = s[a] /\ f.end.serial = s[b] /\ Span(f) \subseteq Offsets1
      /\ \A k \in Span(f) : k \in a .. b
      /\ \A k \in Span(f) : k + 1 \in a .. b
  BY FilledIs
<1>1. compact_from(f, serial) = IF SerialAt(f, best) = serial THEN best ELSE best + 1
  BY DEF compact_from
<1> HIDE DEF a, b
<1>2. Dist(s[a], serial) <= Dist(s[a], s[b]) /\ Dist(s[a], s[b]) < Half /\ Dist(s[a], serial) \in Nat
      /\ Dist(s[a], s[b]) \in Nat /\ Half \in Nat /\ s[a] \in Serials
  <2>1. s[a] \in Serials /\ s[b] \in Serials
    BY <1>0
  <2>2. DNS_SERIAL_GT(s[b], s[a])
    BY <1>0 DEF Rising
  <2>3. ~DNS_SERIAL_GT(s[a], serial) /\ ~DNS_SERIAL_GT(serial, s[b])
    BY <1>0 DEF NeedsCompaction
  <2> QED BY <1>0, <2>1, <2>2, <2>3, InRange, DistType, HalfIs
<1>3. ASSUME NEW k \in a .. b, DNS_SERIAL_GE(serial, s[k]) PROVE Dist(s[a], s[k]) <= Dist(s[a], serial)
  <2>1. s[k] \in Serials /\ Dist(s[a], s[k]) \in Nat /\ Dist(s[a], s[k]) < Half
    BY <1>0, RisingDist
  <2>2. CASE serial = s[k]
    BY <2>1, <2>2
  <2>3. CASE DNS_SERIAL_GT(serial, s[k])
    <3>1. Dist(s[a], serial) < Half /\ Dist(s[a], s[k]) <= Half
      BY <1>2, <2>1
    <3>2. Dist(s[a], serial) > Dist(s[a], s[k])
      BY <1>2, <2>1, <2>3, <3>1, GTDist
    <3> QED BY <1>2, <2>1, <3>2
  <2> QED BY <1>3, <2>2, <2>3 DEF DNS_SERIAL_GE
<1>4. f.begin \in P
  <2>1. Dist(s[a], s[a]) = 0
    BY <1>2, DistType
  <2> QED BY <1>0, <1>2, <2>1 DEF a
<1>5. ASSUME NEW c \in P, NEW i \in 1 .. IndexSize, POS_VALID(f.index[i]),
             DNS_SERIAL_GE(serial, f.index[i].serial), f.index[i].offset > c.offset
      PROVE  f.index[i] \in P
  <2> DEFINE p == f.index[i]
  <2>1. p \in Positions /\ p.offset < b /\ p.serial = s[p.offset] /\ p.offset \in Nat
    BY <1>0, <1>5 DEF Filled, IndexSafe, Indices, Positions, b
  <2> HIDE DEF p
  <2>2. c.offset \in Span(f) /\ c.offset \in Nat
    BY DEF Positions
  <2>3. p.offset \in Span(f)
    BY <1>0, <1>5, <2>1, <2>2 DEF p
  <2>4. Dist(s[a], p.serial) <= Dist(s[a], serial)
    BY <1>0, <1>3, <1>5, <2>1, <2>3 DEF p
  <2> QED BY <2>1, <2>3, <2>4 DEF p
<1>6. g \in P
  <2>1. P \in SUBSET Positions
    OBVIOUS
  <2> HIDE DEF P
  <2> QED BY <1>0, <1>4, <1>5, <2>1, CompactGuessIs
<1> HIDE DEF g
<1>7. g.offset \in Span(f) /\ g.offset \in Nat /\ a <= g.offset /\ g.offset <= b - 1
      /\ Dist(s[a], s[g.offset]) <= Dist(s[a], serial)
  BY <1>0, <1>6
<1> HIDE DEF P
<1>8. best \in walked /\ \A l \in walked : l <= best
  <2> DEFINE T == {b - k : k \in walked}
  <2>1. g.offset \in walked
    BY <1>0, <1>7
  <2>2. \A k \in walked : k \in Nat /\ k <= b - 1
    BY <1>0, <1>7
  <2> HIDE DEF walked
  <2>3. T \in SUBSET Nat /\ T # {}
    BY <1>0, <2>1, <2>2
  <2>4. PICK x \in T : \A y \in T : x <= y
    BY <2>3, Least
  <2>5. PICK k \in walked : x = b - k
    BY <2>4
  <2>6. \A l \in walked : l <= k
    <3> SUFFICES ASSUME NEW l \in walked PROVE l <= k
      OBVIOUS
    <3>1. b - l \in T
      OBVIOUS
    <3>2. b - k <= b - l /\ l \in Nat /\ k \in Nat
      BY <2>2, <2>4, <2>5, <3>1
    <3> QED BY <1>0, <3>2
  <2> QED BY <2>5, <2>6
<1>9. best \in Span(f) /\ best \in g.offset .. b - 1 /\ best \in Nat
  BY <1>0, <1>7, <1>8
<1>10. \A l \in a .. b : SerialAt(f, l) = s[l]
  <2> SUFFICES ASSUME NEW l \in a .. b PROVE SerialAt(f, l) = s[l]
    OBVIOUS
  <2>1. l = a \/ l - 1 \in Span(f)
    BY <1>0
  <2> QED BY <2>1, SerialAtIs DEF Complete, a, b
<1>11. Dist(s[a], s[best]) <= Dist(s[a], serial)
  <2>1. CASE best = g.offset
    BY <1>7, <2>1
  <2>2. CASE best # g.offset
    <3>1. best \in g.offset + 1 .. best
      BY <1>7, <1>9, <2>2
    <3>2. DNS_SERIAL_GE(serial, SerialAt(f, best))
      BY <1>8, <3>1
    <3> QED BY <1>0, <1>3, <1>9, <1>10, <3>2
  <2> QED BY <2>1, <2>2
<1> HIDE DEF best
<1>12. ASSUME NEW m \in a .. b, Dist(s[a], serial) <= Dist(s[a], s[m])
       PROVE  best <= m /\ (s[best] # serial => best + 1 <= m)
  <2>1. /\ best \in a .. b /\ s[best] \in Serials /\ Dist(s[a], s[best]) \in Nat /\ Dist(s[a], s[best]) < Half
        /\ best < m <=> Dist(s[a], s[best]) < Dist(s[a], s[m])
        /\ m < best <=> Dist(s[a], s[m]) < Dist(s[a], s[best])
        /\ Dist(s[a], s[m]) \in Nat /\ m \in Nat
    BY <1>0, <1>9, RisingDist
  <2>2. best <= m
    BY <1>2, <1>9, <1>11, <1>12, <2>1
  <2>3. ASSUME s[best] # serial PROVE best + 1 <= m
    <3>0. Dist(s[a], s[best]) <= Half /\ Dist(s[a], serial) < Half
      BY <1>2, <2>1
    <3>1. Dist(s[a], s[best]) # Dist(s[a], serial)
      BY <1>2, <2>1, <2>3, <3>0, GTDist
    <3> QED BY <1>2, <1>9, <1>11, <1>12, <2>1, <3>1
  <2> QED BY <2>2, <2>3
<1>13. best \in a .. b /\ best + 1 \in a .. b
  BY <1>0, <1>9
<1> QED BY <1>0, <1>1, <1>10, <1>12, <1>13 DEF a, b

\* s, or anything indexed by offsets, after the first from - 1 transactions are cut off.
Cut(s, from, n) == [k \in Offsets1 |-> IF k <= n + 1 THEN s[k + from - 1] ELSE s[k]]

LEMMA NewFileIs == NewFile \in Files /\ Blank(NewFile) /\ Fresh(NewFile) /\ Complete(NewFile)
<1>1. NoPos \in Positions /\ ~POS_VALID(NoPos)
  BY HalfIs DEF NoPos, Pos, Positions, Serials, POS_VALID
<1>2. NewFile \in Files
  BY <1>1 DEF NewFile, Files, Indices
<1>3. Blank(NewFile) /\ Fresh(NewFile)
  BY <1>1 DEF Blank, Fresh, NewFile
<1>4. Span(NewFile) = {}
  BY DEF Span, NewFile, NoPos, Pos
<1> QED BY <1>2, <1>3, <1>4 DEF Complete

\* The compacted file keeps the books.
LEMMA CompactedIs ==
    ASSUME NEW f \in Files, NEW s \in [Offsets1 -> Serials], Filled(f, s), Agrees(f, f, s), Complete(f),
           NEW serial \in Serials, NeedsCompaction(f, serial), jnw = None
    PROVE  LET F    == Compacted(f, serial)
               from == compact_from(f, serial)
               n    == f.end.offset - from
               t    == Cut(s, from, n)
           IN  /\ n \in Nat /\ t \in [Offsets1 -> Serials]
               /\ n = 0 => F = NewFile
               /\ n # 0 => /\ F \in Files /\ Filled(F, t) /\ Agrees(F, F, t) /\ Complete(F) /\ Fresh(F)
                           /\ F.begin.offset = 1 /\ F.end.offset = n + 1
                           /\ \A k \in 1 .. n : F.body[k] = f.body[k + from - 1]
<1> DEFINE a    == f.begin.offset
           b    == f.end.offset
           from == compact_from(f, serial)
           n    == b - from
           t    == Cut(s, from, n)
           F    == Compacted(f, serial)
           moved(part, was) == [k \in Offsets |-> IF k <= n THEN part[k + from - 1] ELSE was[k]]
<1>0. /\ a \in Nat /\ b \in Nat /\ a < b /\ a \in Offsets1 /\ b \in Offsets1 /\ a <= b /\ 1 <= a
      /\ b <= MaxVersions + 1
      /\ Span(f) = a .. b - 1 /\ a \in Span(f) /\ b \in a .. b /\ a \in a .. b /\ Rising(s, a, b)
      /\ f.begin \in Positions /\ f.index \in Indices
      /\ f.begin.serial = s[a] /\ f.end.serial = s[b] /\ Span(f) \subseteq Offsets
      /\ \A k \in Span(f) : k \in a .. b
      /\ \A k \in a .. b : k \in Offsets1
  BY FilledIs
<1>1. from \in a .. b
  BY CompactFromIs
<1>2. F = IF n = 0 THEN NewFile
          ELSE [begin |-> Pos(SerialAt(f, from), 1), end |-> Pos(f.end.serial, 1 + n),
                index |-> new_index(f, from, NewFile.index),
                xhdr  |-> moved(f.xhdr, NewFile.xhdr), body |-> moved(f.body, NewFile.body)]
  BY DEF Compacted
<1>10. \A l \in a .. b : SerialAt(f, l) = s[l]
  <2> SUFFICES ASSUME NEW l \in a .. b PROVE SerialAt(f, l) = s[l]
    OBVIOUS
  <2>1. l = a \/ l - 1 \in Span(f)
    <3> HIDE DEF a, b
    <3> QED BY <1>0
  <2> QED BY <2>1, SerialAtIs DEF Complete
<1>i. f.end.offset - from = n /\ f.end.offset = b
  OBVIOUS
<1>f. f.xhdr \in [Offsets -> Xhdrs \cup {None}] /\ f.body \in [Offsets -> Bodies \cup {None}]
      /\ NewFile.xhdr \in [Offsets -> Xhdrs \cup {None}] /\ NewFile.body \in [Offsets -> Bodies \cup {None}]
      /\ NewFile.index \in Indices /\ \A i \in 1 .. IndexSize : ~POS_VALID(NewFile.index[i])
  BY NewFileIs DEF Files, Blank
<1> HIDE DEF a, b, from, F
<1>3. n \in Nat /\ n <= MaxVersions /\ from \in Nat /\ 1 <= from /\ from <= b /\ from + n = b
  <2>1. from \in Int /\ a <= from /\ from <= b /\ a \in Int /\ b \in Int /\ 1 <= a /\ b <= MaxVersions + 1
        /\ MaxVersions \in Int
    BY <1>0, <1>1, SizeIs
  <2> QED BY <2>1
<1>m. MaxVersions \in Nat
  BY SizeIs
<1>4. \A k \in Offsets1 : k <= n + 1 => k + from - 1 \in a .. b /\ k + from - 1 \in Offsets1
  <2> SUFFICES ASSUME NEW k \in Offsets1, k <= n + 1 PROVE k + from - 1 \in a .. b
    BY <1>0
  <2> QED BY <1>0, <1>1, <1>3, <1>m DEF Offsets1
<1>5. t \in [Offsets1 -> Serials]
  BY <1>4 DEF Cut
<1>6. CASE n = 0
  <2>1. F = NewFile
    BY <1>2, <1>6, Zenon
  <2> QED BY <1>3, <1>5, <1>6, <2>1, <1>i DEF F, from
<1>7. CASE n # 0
  <2>0. n \in Nat /\ n >= 1
    BY <1>3, <1>7
  <2>1. F = [begin |-> Pos(SerialAt(f, from), 1), end |-> Pos(f.end.serial, 1 + n),
             index |-> new_index(f, from, NewFile.index),
             xhdr  |-> moved(f.xhdr, NewFile.xhdr), body |-> moved(f.body, NewFile.body)]
    BY <1>2, <1>7, Zenon
  <2> DEFINE X == moved(f.xhdr, NewFile.xhdr)
             B == moved(f.body, NewFile.body)
             I == new_index(f, from, NewFile.index)
  <2>2. /\ F.begin = Pos(SerialAt(f, from), 1) /\ F.end = Pos(f.end.serial, 1 + n) /\ F.index = I
        /\ F.xhdr = X /\ F.body = B
        /\ F = [begin |-> F.begin, end |-> F.end, index |-> F.index, xhdr |-> F.xhdr, body |-> F.body]
    <3> HIDE DEF X, B, I
    <3> QED BY <2>1, Zenon DEF X, B, I
  <2>3. \A k \in 1 .. n : /\ k \in Offsets /\ k \in Offsets1 /\ k + 1 \in Offsets1 /\ k <= n + 1 /\ k + 1 <= n + 1
                          /\ k + from - 1 \in Span(f) /\ k + 1 + from - 1 = k + from - 1 + 1
                          /\ k + from - 1 \in Offsets
    <3> SUFFICES ASSUME NEW k \in 1 .. n
                 PROVE  /\ k \in Offsets /\ k \in Offsets1 /\ k + 1 \in Offsets1 /\ k <= n + 1 /\ k + 1 <= n + 1
                        /\ k + from - 1 \in Span(f) /\ k + 1 + from - 1 = k + from - 1 + 1
      BY <1>0
    <3>1. k \in Int /\ 1 <= k /\ k <= n
      BY <1>3
    <3>2. k + from - 1 \in a .. b - 1
      <4>1. a <= from /\ from \in Int /\ a \in Int
        BY <1>0, <1>1
      <4> HIDE DEF n
      <4> QED BY <1>0, <1>3, <3>1, <4>1
    <3>3. k \in Offsets /\ k \in Offsets1 /\ k + 1 \in Offsets1 /\ k <= n + 1 /\ k + 1 <= n + 1
      <4> HIDE DEF n
      <4> QED BY <1>3, <1>m, <3>1 DEF Offsets, Offsets1
    <3> QED BY <1>0, <1>3, <3>1, <3>2, <3>3
  <2>4. \A k \in 1 .. n : t[k] = s[k + from - 1] /\ t[k + 1] = s[k + from - 1 + 1]
    BY <2>3 DEF Cut
  <2>5. t[1] = s[from] /\ t[n + 1] = s[b]
    <3>1. 1 \in Offsets1 /\ n + 1 \in Offsets1 /\ 1 <= n + 1 /\ n + 1 <= n + 1
      BY <1>3, <1>m DEF Offsets1
    <3>2. 1 + from - 1 = from /\ n + 1 + from - 1 = b
      BY <1>3
    <3>3. t[1] = s[1 + from - 1] /\ t[n + 1] = s[n + 1 + from - 1]
      BY <3>1 DEF Cut
    <3> QED BY <3>2, <3>3
  <2>6. F.begin = Pos(s[from], 1) /\ F.end = Pos(s[b], 1 + n)
    BY <1>0, <1>1, <1>10, <2>2
  <2>7. /\ F.begin.offset = 1 /\ F.end.offset = n + 1 /\ F.begin.serial = t[1] /\ F.end.serial = t[n + 1]
        /\ F.begin \in Positions /\ F.end \in Positions /\ Span(F) = 1 .. n
    <3>1. s[from] \in Serials /\ s[b] \in Serials /\ 1 + n \in Nat /\ n + 1 = 1 + n /\ 1 + n - 1 = n
      BY <1>0, <1>1, <1>3
    <3> HIDE DEF n, t
    <3>2. F.begin.offset = 1 /\ F.end.offset = 1 + n /\ F.begin.serial = s[from] /\ F.end.serial = s[b]
      BY <2>6 DEF Pos
    <3>3. F.begin \in Positions /\ F.end \in Positions
      BY <2>6, <3>1 DEF Pos, Positions
    <3>4. Span(F) = 1 .. n
      <4>1. F.end.offset - 1 = n
        BY <1>3, <3>1, <3>2
      <4> QED BY <3>2, <4>1 DEF Span
    <3> QED BY <2>5, <3>1, <3>2, <3>3, <3>4
  <2>8. /\ I \in Indices
        /\ \A i \in 1 .. IndexSize : POS_VALID(I[i]) => \E k \in 1 .. n : I[i] = Pos(SerialAt(f, k + from - 1), k)
    <3>1. \A k \in 1 .. n : SerialAt(f, k + from - 1) \in Serials
      BY <1>0, <1>10, <2>3
    <3>2. from <= f.end.offset /\ f.end.offset \in Nat /\ f.end.offset - from = n
      BY <1>0, <1>3 DEF b
    <3> HIDE DEF n
    <3> QED BY <1>3, <1>f, <3>1, <3>2, NewIndexIs
  <2>9. \A i \in 1 .. IndexSize : POS_VALID(F.index[i]) =>
           F.index[i].offset \in 1 .. n /\ F.index[i].serial = t[F.index[i].offset]
    <3> SUFFICES ASSUME NEW i \in 1 .. IndexSize, POS_VALID(I[i])
                 PROVE  I[i].offset \in 1 .. n /\ I[i].serial = t[I[i].offset]
      BY <2>2
    <3> HIDE DEF I, n, t
    <3>1. PICK k \in 1 .. n : I[i] = Pos(SerialAt(f, k + from - 1), k)
      BY <2>8
    <3> QED BY <1>0, <1>10, <2>3, <2>4, <3>1 DEF Pos
  <2> HIDE DEF I
  <2>10. X \in [Offsets -> Xhdrs \cup {None}] /\ B \in [Offsets -> Bodies \cup {None}]
         /\ \A k \in 1 .. n : X[k] = f.xhdr[k + from - 1] /\ B[k] = f.body[k + from - 1]
    <3>1. \A k \in Offsets : k <= n => k \in 1 .. n
      BY <1>3, <1>m DEF Offsets
    <3>2. \A k \in 1 .. n : k <= n
      BY <1>3
    <3> HIDE DEF n
    <3> QED BY <1>f, <2>3, <3>1, <3>2
  <2> HIDE DEF X, B
  <2>11. F \in Files
    BY <2>2, <2>7, <2>8, <2>10 DEF Files
  <2>12. Agrees(F, F, t) /\ Complete(F)
    <3> SUFFICES ASSUME NEW k \in 1 .. n PROVE F.xhdr[k] = Xhdr(t[k], t[k + 1]) /\ F.xhdr[k] # None
      BY <2>7 DEF Agrees, Complete
    <3>1. F.xhdr[k] = f.xhdr[k + from - 1] /\ k + from - 1 \in Span(f)
      BY <2>2, <2>3, <2>10
    <3>2. f.xhdr[k + from - 1] = Xhdr(s[k + from - 1], s[k + from - 1 + 1]) /\ f.xhdr[k + from - 1] # None
      BY <3>1 DEF Agrees, Complete
    <3> HIDE DEF t, n
    <3> QED BY <2>4, <3>1, <3>2
  <2>13. Rising(t, 1, n + 1)
    <3> SUFFICES ASSUME NEW k \in 1 .. n + 1, NEW l \in 1 .. n + 1, k < l PROVE DNS_SERIAL_GT(t[l], t[k])
      BY DEF Rising
    <3>1. /\ k \in Offsets1 /\ l \in Offsets1 /\ k <= n + 1 /\ l <= n + 1
          /\ k + from - 1 < l + from - 1
      <4> HIDE DEF n
      <4> QED BY <1>3, <1>m DEF Offsets1
    <3>2. t[k] = s[k + from - 1] /\ t[l] = s[l + from - 1]
      BY <3>1 DEF Cut
    <3>3. k + from - 1 \in a .. b /\ l + from - 1 \in a .. b
      BY <1>4, <3>1
    <3> HIDE DEF t
    <3> QED BY <1>0, <3>1, <3>2, <3>3 DEF Rising
  <2>14. IndexSafe(F, t) /\ Fresh(F)
    <3>1. ASSUME NEW i \in 1 .. IndexSize, POS_VALID(F.index[i])
          PROVE  /\ F.index[i].offset < F.end.offset /\ F.index[i].serial = t[F.index[i].offset]
                 /\ F.index[i].offset >= F.begin.offset
                 /\ \A k \in Span(F) : F.index[i].offset < k => DNS_SERIAL_GT(t[k], F.index[i].serial)
      <4>1. F.index[i].offset \in 1 .. n /\ F.index[i].serial = t[F.index[i].offset]
        BY <2>9, <3>1
      <4>2. \A k \in 1 .. n : k \in 1 .. n + 1 /\ k < n + 1 /\ k >= 1
        BY <1>3
      <4> HIDE DEF n, t
      <4> QED BY <2>7, <2>13, <4>1, <4>2 DEF Rising
    <3> HIDE DEF t
    <3> QED BY <3>1 DEF IndexSafe, Fresh
  <2>15. Filled(F, t)
    <3>1. Bounds(F)
      <4>1. F.begin.offset = 1 /\ F.end.offset = n + 1
        BY <2>7
      <4> HIDE DEF n, t
      <4>2. 1 <= 1 /\ 1 < n + 1 /\ n + 1 <= MaxVersions + 1
        BY <1>3, <1>m, <2>0
      <4> QED BY <4>1, <4>2 DEF Bounds
    <3> HIDE DEF t, n
    <3> QED BY <2>7, <2>13, <2>14, <3>1 DEF Filled
  <2>16. \A k \in 1 .. n : F.body[k] = f.body[k + from - 1]
    BY <2>2, <2>10
  <2> HIDE DEF n, t
  <2>17. n \in Nat /\ t \in [Offsets1 -> Serials]
    BY <1>3, <1>5
  <2> QED BY <1>7, <2>7, <2>11, <2>12, <2>14, <2>15, <2>16, <2>17 DEF F, from, n, b, t
<1> HIDE DEF n
<1> QED BY <1>6, <1>7

-----------------------------------------------------------------------------
(* The steps that change the books *)

LEMMA BlankIs ==
    ASSUME NEW f, Blank(f)
    PROVE  Span(f) = {} /\ JOURNAL_EMPTY(f) /\ f.begin.offset = 0 /\ f.end.offset = 0 /\ Fresh(f)
<1>1. f.begin.offset = 0 /\ f.end.offset = 0
  BY DEF Blank, NoPos, Pos
<1> QED BY <1>1 DEF Span, JOURNAL_EMPTY, Blank, Fresh

LEMMA KeepsIs ==
    ASSUME NEW f \in Files, NEW s \in [Offsets1 -> Serials], Keeps(f, s)
    PROVE  /\ JOURNAL_EMPTY(f) <=> Blank(f)
           /\ f.end.offset = 0 <=> Blank(f)
           /\ ~Blank(f) => Filled(f, s)
<1>1. CASE Blank(f)
  BY <1>1, BlankIs
<1>2. CASE Filled(f, s)
  <2>1. f.begin.offset \in Nat /\ f.end.offset \in Nat /\ f.begin.offset < f.end.offset
    BY <1>2, FilledIs
  <2>2. ~JOURNAL_EMPTY(f) /\ f.end.offset # 0
    BY <2>1 DEF JOURNAL_EMPTY
  <2> QED BY <1>2, <2>2, BlankIs
<1> QED BY <1>1, <1>2 DEF Keeps

\* What the headers and the index say does not depend on the rest.
LEMMA SameHeader ==
    ASSUME NEW f, NEW g, g.begin = f.begin, g.end = f.end, g.index = f.index, NEW s
    PROVE  /\ Span(g) = Span(f) /\ (Keeps(g, s) <=> Keeps(f, s)) /\ (Blank(g) <=> Blank(f))
           /\ (Filled(g, s) <=> Filled(f, s)) /\ (Fresh(g) <=> Fresh(f))
<1>1. Span(g) = Span(f) /\ (Blank(g) <=> Blank(f)) /\ (Fresh(g) <=> Fresh(f))
  BY DEF Span, Blank, Fresh
<1>2. IndexSafe(g, s) <=> IndexSafe(f, s)
  BY <1>1 DEF IndexSafe
<1>3. Filled(g, s) <=> Filled(f, s)
  BY <1>2 DEF Filled, Bounds
<1> QED BY <1>1, <1>3 DEF Keeps

LEMMA TxnIs ==
    ASSUME NEW x \in Txns
    PROVE  /\ x.at \in {"data", "xhdr", "header", "index", "sync"} /\ x.to \in Versions
           /\ x.pos0 \in Positions /\ x.pos1 \in Positions /\ x.begin \in Positions /\ x.end \in Positions
           /\ x.index \in Indices /\ x # None
           /\ x.pos0.serial \in Serials /\ x.pos1.serial \in Serials
           /\ x.pos0.offset \in Nat /\ x.pos1.offset \in Nat
  BY JournalAssumption DEF Txns, Positions

LEMMA FileIs ==
    ASSUME NEW f \in Files
    PROVE  /\ f.begin \in Positions /\ f.end \in Positions /\ f.index \in Indices
           /\ f.xhdr \in [Offsets -> Xhdrs \cup {None}] /\ f.body \in [Offsets -> Bodies \cup {None}]
           /\ f.begin.offset \in Nat /\ f.end.offset \in Nat
           /\ f.begin.serial \in Serials /\ f.end.serial \in Serials
  BY DEF Files, Positions

LEMMA SerialOfIs ==
    ASSUME NEW v \in Versions
    PROVE  SerialOf(v) \in Serials
<1>1. v.n \in Nat
  BY DEF Versions
<1> QED BY <1>1, DivIs, HalfIs DEF SerialOf, Serials

\* A version made from v with a permitted step is greater by RFC 1982.
LEMMA StepIs ==
    ASSUME NEW n \in Nat, NEW step \in Steps
    PROVE  DNS_SERIAL_GT((n + step) % SerialMod, n % SerialMod)
<1>1. SerialMod \in Nat /\ SerialMod > 0 /\ SerialMod = 2 * Half /\ Half \in Nat
  BY HalfIs
<1>2. step \in 1 .. Half - 1
  BY DEF Steps, Half
<1> HIDE DEF Half
<1>3. step \in 0 .. SerialMod - 1 /\ step # 0 /\ step < Half
  BY <1>1, <1>2
<1>4. (((n + step) % SerialMod) - (n % SerialMod)) % SerialMod = step
  BY <1>1, <1>3, ModApart
<1> QED BY <1>3, <1>4, Zenon DEF DNS_SERIAL_GT, Half

LEMMA BooksWritediff ==
    ASSUME NEW s \in [Offsets1 -> Serials], Books(s), made \in Nat,
           NEW step \in Steps, dns_journal_writediff(step)
    PROVE  Books(s)'
<1> DEFINE k  == IF JOURNAL_EMPTY(file) THEN 1 ELSE file.end.offset
           to == [line |-> zone.line \cup {made + 1}, n |-> zone.n + step]
           entry == [from |-> zone, to |-> to]
<1>1. /\ k \in Offsets /\ synced' = synced /\ zone' = zone
      /\ file' = [file EXCEPT !.xhdr[k] = None, !.body[k] = entry]
      /\ txn' = [at |-> "data", to |-> to,
                 pos0 |-> Pos(SerialOf(zone), k), pos1 |-> Pos(SerialOf(to), k + 1),
                 begin |-> file.begin, end |-> file.end, index |-> file.index]
  BY DEF dns_journal_writediff
<1>b. /\ file \in Files /\ synced \in Files /\ zone \in Versions
      /\ Keeps(file, s) /\ Keeps(synced, s)
      /\ \A f, g \in {file, synced} : Agrees(f, g, s)
      /\ Complete(file) /\ Fresh(synced)
      /\ Fresh(file)
  BY DEF Books, dns_journal_writediff
<1>2. to \in Versions /\ entry \in Bodies /\ zone.n \in Nat /\ to.n = zone.n + step
  BY <1>b, HalfIs DEF Versions, Bodies, Steps, Half
<1> HIDE DEF to, entry, k
<1>3. /\ file'.begin = file.begin /\ file'.end = file.end /\ file'.index = file.index
      /\ file'.xhdr = [file.xhdr EXCEPT ![k] = None] /\ file'.body = [file.body EXCEPT ![k] = entry]
      /\ file' \in Files
  BY <1>1, <1>2, <1>b DEF Files
<1>4. Keeps(file', s) /\ Fresh(file') /\ Span(file') = Span(file)
  BY <1>3, <1>b, SameHeader
<1>5. k \notin Span(file)
  <2>1. CASE Blank(file)
    BY <2>1, BlankIs
  <2>2. CASE ~Blank(file)
    <3>1. k = file.end.offset /\ Filled(file, s)
      BY <1>b, <2>2, KeepsIs DEF k
    <3> QED BY <1>b, <3>1, FilledIs
  <2> QED BY <2>1, <2>2
<1>6. Span(file) \subseteq Offsets /\ Span(synced) \subseteq Offsets
  BY <1>b, BlankIs, FilledIs DEF Keeps
<1>7. \A f, g \in {file', synced'} : Agrees(f, g, s)
  <2>1. \A j \in Span(synced) : file'.xhdr[j] \in {None, file.xhdr[j]}
    BY <1>1, <1>3, <1>6, <1>b, FileIs
  <2>2. \A j \in Span(file) : file'.xhdr[j] = file.xhdr[j]
    BY <1>1, <1>3, <1>5, <1>6, <1>b, FileIs
  <2>3. Agrees(file', file', s) /\ Agrees(file', synced', s)
    BY <1>1, <1>4, <1>b, <2>2 DEF Agrees
  <2>4. Agrees(synced', file', s) /\ Agrees(synced', synced', s)
    BY <1>1, <1>b, <2>1 DEF Agrees
  <2> QED BY <2>3, <2>4
<1>8. Complete(file')
  BY <1>1, <1>3, <1>4, <1>5, <1>6, <1>b, FileIs DEF Complete
<1>9. Underway(s)'
  <2>1. SerialOf(zone) \in Serials /\ SerialOf(to) \in Serials /\ k \in Nat /\ k + 1 \in Nat
    BY <1>1, <1>2, <1>b, SerialOfIs, SizeIs DEF Offsets
  <2>2. Pos(SerialOf(zone), k) \in Positions /\ Pos(SerialOf(to), k + 1) \in Positions
    BY <2>1 DEF Pos, Positions
  <2>3. /\ txn'.at = "data" /\ txn'.to = to /\ txn'.pos0 = Pos(SerialOf(zone), k)
        /\ txn'.pos1 = Pos(SerialOf(to), k + 1)
        /\ txn'.begin = file.begin /\ txn'.end = file.end /\ txn'.index = file.index
    BY <1>1
  <2>4. txn' \in Txns
    BY <1>1, <1>2, <1>b, <2>2, FileIs DEF Txns
  <2>5. txn'.pos0.offset = k /\ txn'.pos1.offset = k + 1
        /\ txn'.pos0.serial = SerialOf(zone) /\ txn'.pos1.serial = SerialOf(to)
    BY <2>3 DEF Pos
  <2>6. k = IF txn'.end.offset = 0 THEN 1 ELSE txn'.end.offset
    BY <1>b, <2>3, KeepsIs DEF k
  <2>7. DNS_SERIAL_GT(SerialOf(to), SerialOf(zone))
    BY <1>2, StepIs DEF SerialOf
  <2>8. file'.xhdr[k] = None
    BY <1>1, <1>3, <1>b, FileIs
  <2> QED BY <1>1, <1>3, <2>3, <2>4, <2>5, <2>6, <2>7, <2>8 DEF Underway
<1> QED BY <1>1, <1>3, <1>4, <1>7, <1>8, <1>9, <1>b DEF Books

\* The first transaction that is addressable from a serial number that is beyond the
\* last one; from there on all are.
LEMMA NewBeginIs ==
    ASSUME NEW f \in Files, NEW s \in [Offsets1 -> Serials], Filled(f, s), Agrees(f, f, s), Complete(f),
           NEW new \in Serials, DNS_SERIAL_GT(new, f.end.serial)
    PROVE  LET begin == CHOOSE k \in f.begin.offset .. f.end.offset :
                           /\ DNS_SERIAL_GT(new, SerialAt(f, k))
                           /\ \A l \in f.begin.offset .. k - 1 : ~DNS_SERIAL_GT(new, SerialAt(f, l))
           IN  /\ begin \in f.begin.offset .. f.end.offset /\ SerialAt(f, begin) = s[begin]
               /\ \A k \in begin .. f.end.offset : DNS_SERIAL_GT(new, s[k])
               /\ \A l \in f.begin.offset .. begin - 1 : ~DNS_SERIAL_GT(new, s[l])
<1> DEFINE a == f.begin.offset
           b == f.end.offset
           First(k) == /\ DNS_SERIAL_GT(new, SerialAt(f, k))
                       /\ \A l \in a .. k - 1 : ~DNS_SERIAL_GT(new, SerialAt(f, l))
           begin == CHOOSE k \in a .. b : First(k)
           T == {k \in a .. b : DNS_SERIAL_GT(new, SerialAt(f, k))}
<1>0. /\ a \in Nat /\ b \in Nat /\ a < b /\ a \in Offsets1 /\ b \in Offsets1 /\ a <= b
      /\ Span(f) = a .. b - 1 /\ b \in a .. b /\ a \in a .. b /\ Rising(s, a, b)
      /\ f.begin.serial = s[a] /\ f.end.serial = s[b] /\ (a .. b) \subseteq Offsets1
  BY FilledIs
<1>1. \A l \in a .. b : SerialAt(f, l) = s[l]
  <2> SUFFICES ASSUME NEW l \in a .. b PROVE SerialAt(f, l) = s[l]
    OBVIOUS
  <2>1. l = a \/ l - 1 \in Span(f)
    <3> HIDE DEF a, b
    <3> QED BY <1>0
  <2> QED BY <2>1, SerialAtIs DEF Complete
<1> HIDE DEF a, b
<1>2. T \in SUBSET Nat /\ T # {}
  <2>1. b \in T
    BY <1>0, <1>1
  <2> QED BY <1>0, <2>1
<1>3. PICK x \in T : \A y \in T : x <= y
  <2> HIDE DEF T
  <2> QED BY <1>2, Least
<1>4. x \in a .. b /\ First(x)
  BY <1>0, <1>3
<1>5. begin \in a .. b /\ First(begin)
  <2> HIDE DEF First
  <2> QED BY <1>4
<1> HIDE DEF begin
<1>6. SerialAt(f, begin) = s[begin] /\ DNS_SERIAL_GT(new, s[begin])
  BY <1>1, <1>5
<1>7. \A l \in a .. begin - 1 : ~DNS_SERIAL_GT(new, s[l])
  <2> SUFFICES ASSUME NEW l \in a .. begin - 1 PROVE ~DNS_SERIAL_GT(new, s[l])
    OBVIOUS
  <2>1. l \in a .. b
    BY <1>0, <1>5
  <2> QED BY <1>1, <1>5, <2>1
<1>8. \A k \in begin .. b : DNS_SERIAL_GT(new, s[k])
  <2> SUFFICES ASSUME NEW k \in begin .. b PROVE DNS_SERIAL_GT(new, s[k])
    OBVIOUS
  <2> DEFINE x0 == s[begin]
  <2>1. /\ begin \in Offsets1 /\ b \in Offsets1 /\ begin <= b /\ k \in begin .. b /\ b \in begin .. b
        /\ k \in Nat /\ b \in Nat
    BY <1>0, <1>5
  <2>2. Rising(s, begin, b)
    <3>1. \A j \in begin .. b : j \in a .. b
      BY <1>0, <1>5
    <3> QED BY <1>0, <3>1 DEF Rising
  <2>3. /\ s[k] \in Serials /\ s[b] \in Serials /\ Dist(x0, s[k]) \in Nat /\ Dist(x0, s[k]) < Half
        /\ Dist(x0, s[b]) \in Nat /\ Dist(x0, s[b]) < Half
        /\ (b < k <=> Dist(x0, s[b]) < Dist(x0, s[k]))
    BY <2>1, <2>2, RisingDist
  <2>4. x0 \in Serials
    BY <2>1
  <2>5. Dist(x0, new) \in Nat /\ Dist(x0, new) < Half /\ Half \in Nat
    BY <1>6, <2>4, DistType, HalfIs
  <2> HIDE DEF x0
  <2>6. Dist(x0, s[b]) <= Half /\ Dist(x0, s[k]) <= Half
    BY <2>3, <2>5
  <2>7. Dist(x0, new) > Dist(x0, s[b])
    BY <1>0, <2>3, <2>4, <2>5, <2>6, GTDist
  <2>8. ~(b < k)
    BY <2>1
  <2>9. Dist(x0, new) > Dist(x0, s[k])
    BY <2>3, <2>5, <2>7, <2>8
  <2> QED BY <2>3, <2>4, <2>5, <2>6, <2>9, GTDist
<1> QED BY <1>5, <1>6, <1>7, <1>8 DEF a, b, begin

LEMMA BooksData ==
    ASSUME NEW s \in [Offsets1 -> Serials], Books(s), commit_data
    PROVE  Books(s)'
<1> DEFINE a == file.begin.offset
           b == file.end.offset
           new == txn.pos1.serial
           begin == CHOOSE k \in txn.begin.offset .. txn.end.offset :
                       /\ DNS_SERIAL_GT(new, SerialAt(file, k))
                       /\ \A l \in txn.begin.offset .. k - 1 : ~DNS_SERIAL_GT(new, SerialAt(file, l))
           X == [txn EXCEPT !.at = "xhdr", !.begin = Pos(SerialAt(file, begin), begin),
                            !.index = index_invalidate(@, new)]
<1>1. /\ txn # None /\ txn.at = "data" /\ Consistent /\ synced' = file /\ file' = file /\ zone' = zone
      /\ txn' = IF JOURNAL_EMPTY(txn) THEN [txn EXCEPT !.at = "xhdr"] ELSE X
  BY DEF commit_data
<1>b. /\ file \in Files /\ zone \in Versions /\ Keeps(file, s)
      /\ Agrees(file, file, s) /\ Complete(file) /\ Fresh(file) /\ Underway(s)
  BY <1>1 DEF Books
<1>u. /\ txn \in Txns
      /\ txn.pos0.offset = IF txn.end.offset = 0 THEN 1 ELSE txn.end.offset
      /\ txn.pos0.offset \in Offsets /\ txn.pos1.offset = txn.pos0.offset + 1
      /\ DNS_SERIAL_GT(txn.pos1.serial, txn.pos0.serial)
      /\ txn.begin = file.begin /\ txn.end = file.end /\ txn.index = file.index
      /\ file.xhdr[txn.pos0.offset] = None
  BY <1>1, <1>b DEF Underway
<1>t. txn.index \in Indices /\ new \in Serials /\ txn.end.offset \in Nat
  BY <1>u, TxnIs DEF Txns, Positions
<1> SUFFICES Underway(s)' /\ txn' # None
  BY <1>1, <1>b DEF Books
<1> SUFFICES ASSUME txn' \in Txns, txn'.at = "xhdr",
                    txn'.pos0 = txn.pos0, txn'.pos1 = txn.pos1, txn'.end = txn.end
             PROVE  Ready(s)'
  <2>1. /\ txn' \in Txns /\ txn'.at = "xhdr"
        /\ txn'.pos0 = txn.pos0 /\ txn'.pos1 = txn.pos1 /\ txn'.end = txn.end
    <3>1. CASE JOURNAL_EMPTY(txn)
      BY <1>1, <1>u, <3>1 DEF Txns
    <3>2. CASE ~JOURNAL_EMPTY(txn)
      <4>1. txn' = X
        BY <1>1, <3>2
      <4>2. begin \in Nat /\ SerialAt(file, begin) \in Serials
        <5>1. ~Blank(file)
          BY <1>u, <3>2, BlankIs DEF JOURNAL_EMPTY
        <5>2. Filled(file, s) /\ DNS_SERIAL_GT(new, file.end.serial)
          BY <1>1, <1>b, <1>u, <3>2, <5>1, KeepsIs DEF Consistent
        <5>3. begin \in a .. b /\ SerialAt(file, begin) = s[begin]
          BY <1>b, <1>t, <1>u, <5>2, NewBeginIs
        <5>4. a \in Nat /\ (a .. b) \subseteq Offsets1
          BY <1>b, <5>2, FilledIs
        <5> QED BY <5>3, <5>4 DEF Offsets1
      <4>3. Pos(SerialAt(file, begin), begin) \in Positions
        BY <4>2 DEF Pos, Positions
      <4>4. index_invalidate(txn.index, new) \in Indices
        <5>1. NoPos \in Positions
          BY HalfIs DEF NoPos, Pos, Positions, Serials
        <5>2. \A i \in 1 .. IndexSize : txn.index[i] \in Positions
          BY <1>t DEF Indices
        <5> QED BY <5>1, <5>2 DEF index_invalidate, Indices
      <4> HIDE DEF begin
      <4> QED BY <1>u, <4>1, <4>3, <4>4 DEF Txns
    <3> QED BY <3>1, <3>2
  <2>2. Ready(s)'
    BY <2>1
  <2> QED BY <1>1, <1>u, <2>1, <2>2, TxnIs DEF Underway
<1>2. CASE Blank(file)
  <2>1. file.end.offset = 0 /\ JOURNAL_EMPTY(txn)
    BY <1>2, <1>u, BlankIs DEF JOURNAL_EMPTY
  <2>2. txn' = [txn EXCEPT !.at = "xhdr"]
    BY <1>1, <2>1
  <2>3. txn'.begin = txn.begin /\ txn'.index = txn.index
    BY <1>u, <2>2 DEF Txns
  <2>4. Blank(txn')
    BY <1>2, <1>u, <2>3 DEF Blank
  <2> QED BY <1>1, <1>u, <2>1, <2>3, <2>4 DEF Ready
<1>3. CASE ~Blank(file)
  <2>1. ~JOURNAL_EMPTY(txn) /\ Filled(file, s) /\ txn.end.offset # 0
    BY <1>3, <1>b, <1>u, KeepsIs DEF JOURNAL_EMPTY
  <2>2. txn' = X
    BY <1>1, <2>1
  <2>3. txn.pos0.serial = file.end.serial
    BY <1>1, <1>u, <2>1 DEF Consistent
  <2>4. /\ begin \in a .. b /\ SerialAt(file, begin) = s[begin]
        /\ \A k \in begin .. b : DNS_SERIAL_GT(new, s[k])
        /\ \A l \in a .. begin - 1 : ~DNS_SERIAL_GT(new, s[l])
    BY <1>b, <1>t, <1>u, <2>1, <2>3, NewBeginIs
  <2>5. txn'.begin = Pos(s[begin], begin) /\ txn'.index = index_invalidate(txn.index, new)
    BY <1>u, <2>2, <2>4 DEF Txns
  <2> HIDE DEF begin, new
  <2>6. txn'.begin.offset = begin /\ txn'.begin.serial = s[begin]
    BY <2>5 DEF Pos
  <2>7. Entries(txn'.index, begin, b, s)
    <3> SUFFICES ASSUME NEW i \in 1 .. IndexSize, POS_VALID(txn'.index[i])
                 PROVE  txn'.index[i].offset \in begin .. b - 1 /\ txn'.index[i].serial = s[txn'.index[i].offset]
      BY DEF Entries
    <3>1. txn'.index[i] = IF DNS_SERIAL_GT(new, txn.index[i].serial) THEN txn.index[i] ELSE NoPos
      BY <2>5 DEF index_invalidate
    <3>2. ~POS_VALID(NoPos)
      BY DEF POS_VALID, NoPos, Pos
    <3>3. txn'.index[i] = file.index[i] /\ DNS_SERIAL_GT(new, file.index[i].serial) /\ POS_VALID(file.index[i])
      BY <1>u, <3>1, <3>2
    <3>4. /\ file.index[i].offset \in Nat /\ file.index[i].offset >= a /\ file.index[i].offset < b
          /\ file.index[i].serial = s[file.index[i].offset]
      BY <1>b, <2>1, <3>3, FileIs DEF Fresh, Filled, IndexSafe, Indices, Positions
    <3>5. a \in Nat /\ b \in Nat
      BY <1>b, FileIs
    <3>6. ~(file.index[i].offset \in a .. begin - 1)
      BY <2>4, <3>3, <3>4
    <3> HIDE DEF a, b
    <3>7. file.index[i].offset \in begin .. b - 1
      BY <2>4, <3>4, <3>5, <3>6
    <3> QED BY <3>3, <3>4, <3>7
  <2>8. Ready(s)' <=>
          /\ txn'.end = file'.end /\ synced'.end = file'.end
          /\ synced'.begin = file'.begin /\ synced'.index = file'.index
          /\ synced'.xhdr[txn'.pos0.offset] = None
          /\ txn'.at = "header" => file'.xhdr[txn'.pos0.offset] = Xhdr(txn'.pos0.serial, txn'.pos1.serial)
          /\ txn'.end.offset = 0 => Blank(txn')
          /\ txn'.end.offset # 0 =>
                /\ txn'.pos0.serial = txn'.end.serial
                /\ txn'.begin.offset \in file'.begin.offset .. file'.end.offset
                /\ txn'.begin.serial = s[txn'.begin.offset]
                /\ \A k \in txn'.begin.offset .. txn'.end.offset : DNS_SERIAL_GT(txn'.pos1.serial, s[k])
                /\ \A k \in file'.begin.offset .. txn'.begin.offset - 1 : ~DNS_SERIAL_GT(txn'.pos1.serial, s[k])
                /\ Entries(txn'.index, txn'.begin.offset, txn'.end.offset, s)
    BY DEF Ready
  <2> QED BY <1>1, <1>u, <2>1, <2>3, <2>4, <2>6, <2>7, <2>8 DEF new
<1> QED BY <1>2, <1>3

LEMMA BooksXhdr ==
    ASSUME NEW s \in [Offsets1 -> Serials], Books(s), commit_xhdr
    PROVE  Books(s)'
<1> DEFINE p == txn.pos0.offset
           x == Xhdr(txn.pos0.serial, txn.pos1.serial)
<1>1. /\ txn # None /\ txn.at = "xhdr" /\ synced' = synced /\ zone' = zone
      /\ file' = [file EXCEPT !.xhdr[p] = x] /\ txn' = [txn EXCEPT !.at = "header"]
  BY DEF commit_xhdr, Xhdr
<1>b. /\ file \in Files /\ synced \in Files /\ zone \in Versions
      /\ Keeps(file, s) /\ Keeps(synced, s)
      /\ \A f, g \in {file, synced} : Agrees(f, g, s)
      /\ Complete(file) /\ Fresh(synced) /\ Fresh(file) /\ Underway(s)
  BY <1>1 DEF Books
<1>u. /\ txn \in Txns
      /\ p = IF txn.end.offset = 0 THEN 1 ELSE txn.end.offset
      /\ p \in Offsets /\ txn.pos1.offset = p + 1
      /\ DNS_SERIAL_GT(txn.pos1.serial, txn.pos0.serial) /\ Ready(s)
  BY <1>1, <1>b DEF Underway
<1>2. x \in Xhdrs
  BY <1>u, TxnIs DEF Xhdrs, Xhdr
<1>r. txn.end = file.end /\ synced.end = file.end /\ synced.begin = file.begin /\ synced.index = file.index
      /\ synced.xhdr[p] = None
  BY <1>u DEF Ready
<1>3. p \notin Span(file) /\ Span(synced) = Span(file) /\ Span(file) \subseteq Offsets
  <2>1. CASE Blank(file)
    BY <1>r, <2>1, BlankIs, SameHeader
  <2>2. CASE ~Blank(file)
    BY <1>b, <1>r, <1>u, <2>2, KeepsIs, FilledIs, SameHeader
  <2> QED BY <2>1, <2>2
<1> HIDE DEF x, p
<1>4. /\ file'.begin = file.begin /\ file'.end = file.end /\ file'.index = file.index
      /\ file'.xhdr = [file.xhdr EXCEPT ![p] = x] /\ file' \in Files
  BY <1>1, <1>2, <1>b, <1>u DEF Files
<1>5. /\ Keeps(file', s) /\ Fresh(file') /\ Span(file') = Span(file)
      /\ (Blank(file') <=> Blank(file))
  BY <1>4, <1>b, SameHeader
<1>6. /\ \A j \in Span(file) : file'.xhdr[j] = file.xhdr[j]
      /\ file'.xhdr[p] = x
  BY <1>3, <1>4, <1>b, <1>u, FileIs
<1>7. \A f, g \in {file', synced'} : Agrees(f, g, s)
  <2>1. Agrees(file', file', s) /\ Agrees(file', synced', s)
    BY <1>1, <1>5, <1>6, <1>b DEF Agrees
  <2>2. Agrees(synced', file', s) /\ Agrees(synced', synced', s)
    BY <1>1, <1>3, <1>6, <1>b DEF Agrees
  <2> QED BY <2>1, <2>2
<1>8. Complete(file')
  BY <1>5, <1>6, <1>b DEF Complete
<1>9. /\ txn' \in Txns /\ txn'.at = "header" /\ txn'.pos0 = txn.pos0 /\ txn'.pos1 = txn.pos1
      /\ txn'.begin = txn.begin /\ txn'.end = txn.end /\ txn'.index = txn.index
  BY <1>1, <1>u DEF Txns
<1>10. Ready(s)'
  <2>1. Blank(txn') <=> Blank(txn)
    BY <1>9, SameHeader
  <2>2. file'.xhdr[txn'.pos0.offset] = Xhdr(txn'.pos0.serial, txn'.pos1.serial)
    BY <1>6, <1>9 DEF x, p
  <2>3. synced'.xhdr[txn'.pos0.offset] = None
    BY <1>1, <1>9, <1>r DEF p
  <2> QED BY <1>1, <1>4, <1>9, <1>u, <2>1, <2>2, <2>3 DEF Ready
<1>11. Underway(s)'
  BY <1>9, <1>10, <1>u DEF Underway, p
<1> QED BY <1>1, <1>4, <1>5, <1>7, <1>8, <1>9, <1>11, <1>b, TxnIs DEF Books

\* The books after the header is written: the transaction has its place.
LEMMA BooksHeader ==
    ASSUME NEW s \in [Offsets1 -> Serials], Books(s), commit_header, NEW t \in [Offsets1 -> Serials],
           \A k \in Offsets1 : t[k] = IF k = txn.pos0.offset THEN txn.pos0.serial
                                      ELSE IF k = txn.pos1.offset THEN txn.pos1.serial ELSE s[k]
    PROVE  Books(t)'
<1> DEFINE p == txn.pos0.offset
           a == file.begin.offset
           c == file'.begin.offset
<1>1. /\ txn # None /\ txn.at = "header" /\ synced' = synced /\ zone' = zone
      /\ file' = [file EXCEPT !.begin = IF JOURNAL_EMPTY(txn) THEN txn.pos0 ELSE txn.begin, !.end = txn.pos1]
      /\ txn' = [txn EXCEPT !.at = "index", !.index = index_add(@, txn.pos0)]
  BY DEF commit_header
<1>b. /\ file \in Files /\ synced \in Files /\ zone \in Versions
      /\ Keeps(file, s) /\ Keeps(synced, s)
      /\ \A f, g \in {file, synced} : Agrees(f, g, s)
      /\ Complete(file) /\ Fresh(synced) /\ Fresh(file) /\ Underway(s)
  BY <1>1 DEF Books
<1>u. /\ txn \in Txns
      /\ p = IF txn.end.offset = 0 THEN 1 ELSE txn.end.offset
      /\ p \in Offsets /\ txn.pos1.offset = p + 1
      /\ DNS_SERIAL_GT(txn.pos1.serial, txn.pos0.serial) /\ Ready(s)
  BY <1>1, <1>b DEF Underway
<1>r. /\ txn.end = file.end /\ synced.end = file.end /\ synced.begin = file.begin /\ synced.index = file.index
      /\ synced.xhdr[p] = None /\ file.xhdr[p] = Xhdr(txn.pos0.serial, txn.pos1.serial)
      /\ txn.end.offset = 0 => Blank(txn)
      /\ txn.end.offset # 0 =>
            /\ txn.pos0.serial = txn.end.serial
            /\ txn.begin.offset \in file.begin.offset .. file.end.offset
            /\ txn.begin.serial = s[txn.begin.offset]
            /\ \A k \in txn.begin.offset .. txn.end.offset : DNS_SERIAL_GT(txn.pos1.serial, s[k])
            /\ Entries(txn.index, txn.begin.offset, txn.end.offset, s)
  BY <1>1, <1>u DEF Ready
<1>2. /\ p \in Nat /\ p >= 1 /\ p \in Offsets1 /\ p + 1 \in Offsets1 /\ p + 1 # p /\ p + 1 <= MaxVersions + 1
      /\ MaxVersions \in Nat
  BY <1>u, SizeIs DEF Offsets, Offsets1
<1>3. /\ t[p] = txn.pos0.serial /\ t[p + 1] = txn.pos1.serial
      /\ \A k \in Offsets1 : k # p /\ k # p + 1 => t[k] = s[k]
  BY <1>2, <1>u
<1>4. /\ file'.index = file.index /\ file'.xhdr = file.xhdr /\ file'.body = file.body /\ file'.end = txn.pos1
      /\ file'.begin = (IF JOURNAL_EMPTY(txn) THEN txn.pos0 ELSE txn.begin) /\ file' \in Files
  BY <1>1, <1>b, <1>u, TxnIs DEF Files
<1>5. /\ txn' \in Txns /\ txn'.at = "index" /\ txn'.pos0 = txn.pos0 /\ txn'.pos1 = txn.pos1
      /\ txn'.end = txn.end /\ txn'.index = index_add(txn.index, txn.pos0)
  <2>1. index_add(txn.index, txn.pos0) \in Indices
    BY <1>u, IndexAddIs, TxnIs
  <2> QED BY <1>1, <1>u, <2>1 DEF Txns
<1>i. \A i \in 1 .. IndexSize : POS_VALID(txn'.index[i]) =>
         txn'.index[i] = txn.pos0 \/ \E j \in 1 .. IndexSize : txn'.index[i] = txn.index[j]
  <2>1. txn.index \in Indices /\ txn.pos0 \in Positions
    BY <1>u, TxnIs
  <2> QED BY <1>5, <2>1, IndexAddIs
<1> HIDE DEF p
<1>6. CASE Blank(file)
  <2>1. /\ file.end.offset = 0 /\ Blank(txn) /\ JOURNAL_EMPTY(txn) /\ p = 1 /\ Blank(synced)
        /\ Span(synced) = {} /\ Span(file) = {}
    BY <1>6, <1>r, <1>u, BlankIs, SameHeader
  <2>2. file'.begin = txn.pos0 /\ file'.begin.offset = 1 /\ file'.end.offset = 2 /\ Span(file') = {1}
    <3>1. file'.begin = txn.pos0 /\ file'.begin.offset = 1 /\ file'.end.offset = 2
      BY <1>4, <1>u, <2>1 DEF p
    <3>2. (1 .. 2 - 1) = {1}
      OBVIOUS
    <3> QED BY <3>1, <3>2 DEF Span
  <2>3. /\ file'.begin.serial = t[1] /\ file'.end.serial = t[2] /\ DNS_SERIAL_GT(t[2], t[1])
        /\ file'.xhdr[1] = Xhdr(t[1], t[2]) /\ synced'.xhdr[1] = None
    BY <1>1, <1>3, <1>4, <1>r, <1>u, <2>1, <2>2 DEF p
  <2>4. Rising(t, 1, 2)
    <3>1. \A k, l \in 1 .. 2 : k < l => k = 1 /\ l = 2
      OBVIOUS
    <3> QED BY <2>3, <3>1 DEF Rising
  <2>5. IndexSafe(file', t)
    BY <1>4, <1>6 DEF IndexSafe, Blank
  <2>6. Filled(file', t)
    <3>1. Bounds(file')
      BY <1>2, <2>1, <2>2 DEF Bounds
    <3> QED BY <2>2, <2>3, <2>4, <2>5, <3>1 DEF Filled
  <2>7. \A f, g \in {file', synced'} : Agrees(f, g, t)
    <3>1. Agrees(file', file', t) /\ Agrees(file', synced', t)
      BY <2>2, <2>3 DEF Agrees
    <3>2. Agrees(synced', file', t) /\ Agrees(synced', synced', t)
      BY <1>1, <2>1 DEF Agrees
    <3> QED BY <3>1, <3>2
  <2>8. Complete(file')
    <3>1. Xhdr(t[1], t[2]) # None
      <4>1. Xhdr(t[1], t[2]) \in Xhdrs
        BY <1>2, <2>1 DEF Xhdr, Xhdrs
      <4> QED BY <4>1, JournalAssumption
    <3> QED BY <2>2, <2>3, <3>1 DEF Complete
  <2>9. Entries(txn'.index, 1, 2, t)
    <3> SUFFICES ASSUME NEW i \in 1 .. IndexSize, POS_VALID(txn'.index[i])
                 PROVE  txn'.index[i].offset \in 1 .. 2 - 1 /\ txn'.index[i].serial = t[txn'.index[i].offset]
      BY DEF Entries
    <3>1. txn'.index[i] = txn.pos0 \/ \E j \in 1 .. IndexSize : txn'.index[i] = txn.index[j]
      BY <1>i
    <3>2. \A j \in 1 .. IndexSize : ~POS_VALID(txn.index[j])
      BY <2>1 DEF Blank
    <3>3. txn'.index[i] = txn.pos0
      BY <3>1, <3>2
    <3>4. txn.pos0.offset = 1 /\ txn.pos0.serial = t[1] /\ 1 \in 1 .. 2 - 1
      BY <1>3, <2>1 DEF p
    <3> QED BY <3>3, <3>4
  <2>10. Underway(t)'
    BY <1>4, <1>5, <1>u, <2>2, <2>9 DEF Underway, p
  <2>11. Keeps(file', t) /\ Keeps(synced', t)
    BY <1>1, <2>1, <2>6 DEF Keeps
  <2> QED BY <1>1, <1>4, <1>5, <1>b, <2>7, <2>8, <2>10, <2>11, TxnIs DEF Books
<1>7. CASE ~Blank(file)
  <2>1. Filled(file, s) /\ txn.end.offset # 0 /\ p = file.end.offset /\ Filled(synced, s) /\ Span(synced) = Span(file)
    BY <1>7, <1>b, <1>r, <1>u, KeepsIs, SameHeader
  <2>0. /\ a \in Nat /\ a < p /\ 1 <= a /\ a \in Offsets1 /\ (a .. p) \subseteq Offsets1
        /\ Span(file) = a .. p - 1 /\ Rising(s, a, p)
        /\ file.begin.serial = s[a] /\ file.end.serial = s[p] /\ file.index \in Indices
    BY <1>b, <2>1, FilledIs
  <2>2. t[p] = s[p] /\ \A k \in a .. p : t[k] = s[k]
    <3>1. t[p] = s[p]
      BY <1>3, <1>r, <2>0, <2>1
    <3>2. \A k \in a .. p : k \in Offsets1 /\ k # p + 1
      BY <1>2, <2>0
    <3> QED BY <1>3, <3>1, <3>2
  <2>3. /\ file'.begin = (IF JOURNAL_EMPTY(txn) THEN txn.pos0 ELSE txn.begin)
        /\ c \in a .. p /\ file'.begin.serial = t[c]
        /\ \A k \in c .. p : DNS_SERIAL_GT(t[p + 1], t[k])
        /\ \A i \in 1 .. IndexSize : POS_VALID(txn.index[i]) =>
              txn.index[i].offset \in c .. p - 1 /\ txn.index[i].serial = s[txn.index[i].offset]
    <3>1. /\ txn.begin.offset \in a .. p /\ txn.begin.serial = s[txn.begin.offset]
          /\ \A k \in txn.begin.offset .. p : DNS_SERIAL_GT(t[p + 1], s[k])
          /\ \A i \in 1 .. IndexSize : POS_VALID(txn.index[i]) =>
              txn.index[i].offset \in txn.begin.offset .. p - 1 /\ txn.index[i].serial = s[txn.index[i].offset]
      BY <1>3, <1>r, <2>1 DEF Entries
    <3>2. file'.begin.offset = txn.begin.offset /\ file'.begin.serial = s[txn.begin.offset]
      <4>1. CASE JOURNAL_EMPTY(txn)
        <5>1. txn.begin.offset = p /\ file'.begin = txn.pos0
          BY <1>4, <1>r, <2>1, <4>1 DEF JOURNAL_EMPTY
        <5>2. txn.pos0.offset = p /\ txn.pos0.serial = s[p]
          BY <1>r, <2>0, <2>1 DEF p
        <5> QED BY <5>1, <5>2
      <4>2. CASE ~JOURNAL_EMPTY(txn)
        BY <1>4, <3>1, <4>2
      <4> QED BY <4>1, <4>2
    <3>3. \A k \in txn.begin.offset .. p : k \in a .. p
      BY <1>2, <2>0, <3>1
    <3> QED BY <1>4, <2>2, <3>1, <3>2, <3>3
  <2> HIDE DEF a
  <2>4. c \in Nat /\ c <= p /\ a <= c /\ file'.end.offset = p + 1 /\ file'.begin.offset = c /\ Span(file') = c .. p
    <3>1. c \in Nat /\ c <= p /\ a <= c
      BY <1>2, <2>0, <2>3
    <3>2. file'.end.offset = p + 1
      BY <1>4, <1>u
    <3>3. (p + 1) - 1 = p
      BY <1>2
    <3> QED BY <3>1, <3>2, <3>3 DEF Span
  <2> HIDE DEF c
  <2>5. Rising(t, c, p + 1)
    <3> SUFFICES ASSUME NEW k \in c .. p + 1, NEW l \in c .. p + 1, k < l PROVE DNS_SERIAL_GT(t[l], t[k])
      BY DEF Rising
    <3>1. k \in c .. p /\ k \in a .. p
      BY <1>2, <2>0, <2>4
    <3>2. CASE l = p + 1
      BY <2>3, <3>1, <3>2
    <3>3. CASE l # p + 1
      <4>1. l \in a .. p
        BY <1>2, <2>0, <2>4, <3>3
      <4> QED BY <2>0, <2>2, <3>1, <4>1 DEF Rising
    <3> QED BY <3>2, <3>3
  <2>6. IndexSafe(file', t) /\ IndexSafe(synced', t)
    <3>1. ASSUME NEW i \in 1 .. IndexSize, POS_VALID(file.index[i])
          PROVE  /\ file.index[i].offset \in a .. p - 1 /\ file.index[i].serial = t[file.index[i].offset]
                 /\ \A k \in a .. p : file.index[i].offset < k => DNS_SERIAL_GT(t[k], file.index[i].serial)
      <4>1. /\ file.index[i].offset \in Nat /\ file.index[i].offset >= a /\ file.index[i].offset < p
            /\ file.index[i].serial = s[file.index[i].offset]
        BY <1>b, <2>0, <2>1, <3>1 DEF Fresh, Filled, IndexSafe, Indices, Positions, a
      <4>2. file.index[i].offset \in a .. p - 1 /\ file.index[i].offset \in a .. p
        BY <1>2, <2>0, <4>1
      <4> QED BY <2>0, <2>2, <4>1, <4>2 DEF Rising
    <3>2. synced'.index = file.index /\ file'.index = file.index /\ synced'.end.offset = p
          /\ Span(synced') = a .. p - 1
      BY <1>1, <1>4, <1>r, <2>0, <2>1
    <3>3. \A k \in a .. p - 1 : k < p /\ k < p + 1 /\ k \in a .. p
      BY <1>2, <2>0
    <3>4. \A k \in c .. p : k \in a .. p
      BY <1>2, <2>0, <2>4
    <3>5. IndexSafe(synced', t)
      BY <3>1, <3>2, <3>3 DEF IndexSafe
    <3>6. IndexSafe(file', t)
      BY <2>4, <3>1, <3>2, <3>3, <3>4 DEF IndexSafe
    <3> QED BY <3>5, <3>6
  <2>7. Filled(file', t)
    <3>1. Bounds(file')
      <4>1. 1 <= c /\ c < p + 1
        BY <1>2, <2>0, <2>4
      <4> QED BY <1>2, <2>4, <4>1 DEF Bounds
    <3>2. file'.end.serial = t[p + 1]
      BY <1>3, <1>4
    <3> QED BY <2>3, <2>4, <2>5, <2>6, <3>1, <3>2 DEF Filled
  <2>8. Filled(synced', t)
    <3>1. synced'.begin.offset = a /\ synced'.end.offset = p /\ synced'.begin.serial = s[a] /\ synced'.end.serial = s[p]
      BY <1>1, <1>r, <2>0, <2>1 DEF a
    <3>2. Bounds(synced') /\ a \in a .. p
      BY <1>1, <1>2, <2>0, <2>1 DEF Filled
    <3>3. Rising(t, a, p)
      BY <2>0, <2>2 DEF Rising
    <3> QED BY <2>2, <2>6, <3>1, <3>2, <3>3 DEF Filled
  <2>9. \A k \in a .. p - 1 : k \in a .. p /\ k + 1 \in a .. p
    BY <1>2, <2>0
  <2>10. \A k \in c .. p : k = p \/ k \in a .. p - 1
    BY <1>2, <2>0, <2>4
  <2>11. \A f, g \in {file', synced'} : Agrees(f, g, t)
    <3>1. \A k \in a .. p - 1 : /\ file'.xhdr[k] \in {None, Xhdr(t[k], t[k + 1])}
                                /\ synced'.xhdr[k] \in {None, Xhdr(t[k], t[k + 1])}
      BY <1>1, <1>4, <1>b, <2>0, <2>2, <2>9 DEF Agrees
    <3>2. file'.xhdr[p] = Xhdr(t[p], t[p + 1]) /\ synced'.xhdr[p] = None
      BY <1>1, <1>3, <1>4, <1>r
    <3>3. Span(synced') = a .. p - 1
      BY <1>1, <2>0, <2>1
    <3>4. Agrees(file', file', t) /\ Agrees(file', synced', t)
      BY <2>4, <2>10, <3>1, <3>2 DEF Agrees
    <3>5. Agrees(synced', file', t) /\ Agrees(synced', synced', t)
      BY <3>1, <3>3 DEF Agrees
    <3> QED BY <3>4, <3>5
  <2>12. Complete(file')
    <3>1. file.xhdr[p] # None
      <4>1. Xhdr(txn.pos0.serial, txn.pos1.serial) \in Xhdrs
        BY <1>u, TxnIs DEF Xhdr, Xhdrs
      <4> QED BY <1>r, <4>1, JournalAssumption
    <3> QED BY <1>4, <1>b, <2>0, <2>4, <2>10, <3>1 DEF Complete
  <2>13. Entries(txn'.index, c, p + 1, t)
    <3> SUFFICES ASSUME NEW i \in 1 .. IndexSize, POS_VALID(txn'.index[i])
                 PROVE  txn'.index[i].offset \in c .. (p + 1) - 1 /\ txn'.index[i].serial = t[txn'.index[i].offset]
      BY DEF Entries
    <3>1. txn'.index[i] = txn.pos0 \/ \E j \in 1 .. IndexSize : txn'.index[i] = txn.index[j]
      BY <1>i
    <3>2. CASE txn'.index[i] = txn.pos0
      <4>1. txn.pos0.offset = p /\ txn.pos0.serial = t[p] /\ p \in c .. (p + 1) - 1
        BY <1>2, <1>3, <2>4 DEF p
      <4> QED BY <3>2, <4>1
    <3>3. CASE \E j \in 1 .. IndexSize : txn'.index[i] = txn.index[j]
      <4>1. PICK j \in 1 .. IndexSize : txn'.index[i] = txn.index[j]
        BY <3>3
      <4>2. txn.index[j].offset \in c .. p - 1 /\ txn.index[j].serial = s[txn.index[j].offset]
        BY <2>3, <4>1
      <4>3. txn.index[j].offset \in a .. p /\ txn.index[j].offset \in c .. (p + 1) - 1
        BY <1>2, <2>0, <2>4, <4>2
      <4> QED BY <2>2, <4>1, <4>2, <4>3
    <3> QED BY <3>1, <3>2, <3>3
  <2>14. Underway(t)'
    BY <1>4, <1>5, <1>u, <2>4, <2>13 DEF Underway, p
  <2>15. Keeps(file', t) /\ Keeps(synced', t)
    BY <2>7, <2>8 DEF Keeps
  <2> QED BY <1>1, <1>4, <1>5, <1>b, <2>11, <2>12, <2>14, <2>15, TxnIs DEF Books
<1> QED BY <1>6, <1>7

LEMMA BooksIndex ==
    ASSUME NEW s \in [Offsets1 -> Serials], Books(s), commit_index
    PROVE  Books(s)'
<1>1. /\ txn # None /\ txn.at = "index" /\ synced' = synced /\ zone' = zone
      /\ file' = [file EXCEPT !.index = txn.index] /\ txn' = [txn EXCEPT !.at = "sync"]
  BY DEF commit_index
<1>b. /\ file \in Files /\ synced \in Files /\ zone \in Versions
      /\ Keeps(file, s) /\ Keeps(synced, s)
      /\ \A f, g \in {file, synced} : Agrees(f, g, s)
      /\ Complete(file) /\ Fresh(synced) /\ Underway(s)
  BY <1>1 DEF Books
<1>u. /\ txn \in Txns
      /\ txn.pos0.offset = IF txn.end.offset = 0 THEN 1 ELSE txn.end.offset
      /\ txn.pos0.offset \in Offsets /\ txn.pos1.offset = txn.pos0.offset + 1
      /\ DNS_SERIAL_GT(txn.pos1.serial, txn.pos0.serial)
      /\ file.end = txn.pos1 /\ Entries(txn.index, file.begin.offset, file.end.offset, s)
  BY <1>1, <1>b DEF Underway
<1>2. /\ file'.begin = file.begin /\ file'.end = file.end /\ file'.index = txn.index
      /\ file'.xhdr = file.xhdr /\ file' \in Files
  BY <1>1, <1>b, <1>u, TxnIs DEF Files
<1>3. /\ txn' \in Txns /\ txn'.at = "sync" /\ txn'.pos0 = txn.pos0 /\ txn'.pos1 = txn.pos1
      /\ txn'.end = txn.end /\ txn'.index = txn.index
  BY <1>1, <1>u DEF Txns
<1>4. Filled(file, s)
  <2>1. file.end.offset # 0
    BY <1>u, SizeIs DEF Offsets
  <2> QED BY <1>b, <2>1, KeepsIs
<1>5. Span(file') = Span(file)
  BY <1>2 DEF Span
<1>6. IndexSafe(file', s) /\ Fresh(file')
  <2> DEFINE a == file.begin.offset
             b == file.end.offset
  <2>0. /\ a \in Nat /\ b \in Nat /\ Span(file) = a .. b - 1 /\ Rising(s, a, b)
        /\ file'.begin.offset = a /\ file'.end.offset = b
    BY <1>2, <1>4, <1>b, FilledIs
  <2>1. \A i \in 1 .. IndexSize : POS_VALID(file'.index[i]) =>
           file'.index[i].offset \in a .. b - 1 /\ file'.index[i].serial = s[file'.index[i].offset]
    BY <1>2, <1>u DEF Entries
  <2> HIDE DEF a, b
  <2>2. \A k \in a .. b - 1 : k \in a .. b /\ k < b /\ k >= a
    BY <2>0
  <2>3. Fresh(file')
    BY <2>0, <2>1, <2>2 DEF Fresh
  <2> QED BY <1>5, <2>0, <2>1, <2>2, <2>3 DEF IndexSafe, Rising
<1>7. Keeps(file', s)
  BY <1>2, <1>4, <1>6 DEF Filled, Bounds, Keeps
<1>8. \A f, g \in {file', synced'} : Agrees(f, g, s)
  <2>1. Agrees(file', file', s) /\ Agrees(file', synced', s)
    BY <1>1, <1>2, <1>5, <1>b DEF Agrees
  <2>2. Agrees(synced', file', s) /\ Agrees(synced', synced', s)
    BY <1>1, <1>2, <1>b DEF Agrees
  <2> QED BY <2>1, <2>2
<1>9. Complete(file')
  BY <1>2, <1>5, <1>b DEF Complete
<1>10. Underway(s)'
  BY <1>2, <1>3, <1>u DEF Underway
<1> QED BY <1>1, <1>2, <1>3, <1>6, <1>7, <1>8, <1>9, <1>10, <1>b, TxnIs DEF Books

\* The file as the kernel has it is on the disk, and there is no transaction.
LEMMA BooksSynced ==
    ASSUME NEW s \in [Offsets1 -> Serials], file' \in Files, synced' = file', txn' = None,
           zone' \in Versions, Keeps(file', s), Agrees(file', file', s), Complete(file'), Fresh(file')
    PROVE  Books(s)'
<1>1. \A f, g \in {file', synced'} : Agrees(f, g, s)
  OBVIOUS
<1> QED BY <1>1 DEF Books

LEMMA BooksDone ==
    ASSUME NEW s \in [Offsets1 -> Serials], Books(s), commit_done
    PROVE  Books(s)'
<1>1. /\ txn # None /\ txn.at = "sync" /\ synced' = file /\ file' = file /\ zone' = txn.to /\ txn' = None
  BY DEF commit_done
<1>b. /\ file \in Files /\ Keeps(file, s) /\ Agrees(file, file, s) /\ Complete(file) /\ Fresh(file)
      /\ txn \in Txns
  BY <1>1 DEF Books, Underway
<1> QED BY <1>1, <1>b, BooksSynced, TxnIs

LEMMA ExcusesIs ==
    ASSUME NEW f, Excuses(f) \subseteq {"serial"}
    PROVE  Readable(f, f.begin.offset, f.end.offset) /\ Fresh(f) /\ Excuses(f) = {}
<1>1. "power" \notin Excuses(f) /\ "index" \notin Excuses(f)
  OBVIOUS
<1>2. Readable(f, f.begin.offset, f.end.offset)
  BY <1>1 DEF Excuses
<1>3. \A i \in 1 .. IndexSize : POS_VALID(f.index[i]) => f.index[i].offset >= f.begin.offset
  BY <1>1 DEF Excuses
<1> QED BY <1>2, <1>3 DEF Excuses, Fresh

\* A failure leaves the books in order, or an index that is to be excused.
LEMMA BooksFail ==
    ASSUME NEW s \in [Offsets1 -> Serials], Books(s), fail, excused' \subseteq {"serial"}
    PROVE  Books(s)'
<1>1. /\ txn' = None /\ file' = file /\ synced' = synced /\ zone' = zone /\ Excuses(file) \subseteq {"serial"}
  BY DEF fail
<1>2. Fresh(file)
  BY <1>1, ExcusesIs
<1> QED BY <1>1, <1>2 DEF Books

\* A compaction, or none.
LEMMA BooksCompact ==
    ASSUME NEW s \in [Offsets1 -> Serials], Books(s), txn = None, txn' = None, zone' = zone,
           NEW serial \in Serials, dns_journal_compact(serial), jnw = None,
           NEW t, LET from == compact_from(file, serial) IN t = Cut(s, from, file.end.offset - from)
    PROVE  /\ file' = file => Books(s)'
           /\ file' # file => /\ t \in [Offsets1 -> Serials] /\ Books(t)' /\ NeedsCompaction(file, serial)
                              /\ file' = Compacted(file, serial) /\ synced' = file'
           /\ jnw' = None
<1> DEFINE from == compact_from(file, serial)
           n == file.end.offset - from
           u == Cut(s, from, n)
<1>b. /\ file \in Files /\ synced \in Files /\ zone \in Versions /\ Keeps(file, s) /\ Agrees(file, file, s)
      /\ Complete(file)
      /\ \A f, g \in {file, synced} : Agrees(f, g, s)
  BY DEF Books
<1>1. CASE file' = file /\ synced' = synced
  <2>1. Books(s)'
    BY <1>1 DEF Books
  <2> QED BY <1>1, <2>1 DEF dns_journal_compact
<1>2. CASE NeedsCompaction(file, serial) /\ file' = Compacted(file, serial) /\ synced' = file' /\ jnw' = None
  <2>1. Filled(file, s)
    BY <1>2, <1>b, KeepsIs DEF NeedsCompaction
  <2>2. /\ n \in Nat /\ u \in [Offsets1 -> Serials]
        /\ n = 0 => file' = NewFile
        /\ n # 0 => /\ file' \in Files /\ Filled(file', u) /\ Agrees(file', file', u) /\ Complete(file')
                    /\ Fresh(file')
    BY <1>2, <1>b, <2>1, CompactedIs
  <2> HIDE DEF n, u
  <2>3. ASSUME NEW w \in [Offsets1 -> Serials], n = 0 \/ w = u PROVE Books(w)'
    <3>1. CASE n = 0
      <4>1. /\ file' \in Files /\ Keeps(file', w) /\ Complete(file') /\ Fresh(file') /\ Span(file') = {}
        BY <2>2, <3>1, NewFileIs, BlankIs DEF Keeps
      <4>2. Agrees(file', file', w)
        BY <4>1 DEF Agrees
      <4> QED BY <1>2, <1>b, <4>1, <4>2, BooksSynced
    <3>2. CASE n # 0
      BY <1>2, <1>b, <2>2, <2>3, <3>2, BooksSynced DEF Keeps
    <3> QED BY <3>1, <3>2
  <2>4. t = u
    BY DEF u, n
  <2>5. Books(t)'
    BY <2>2, <2>3, <2>4
  <2>6. ASSUME file' = file PROVE Books(s)'
    <3>1. /\ Fresh(file') /\ file' \in Files /\ Keeps(file', s) /\ Agrees(file', file', s) /\ Complete(file')
      BY <1>b, <2>2, <2>6, NewFileIs
    <3> QED BY <1>2, <1>b, <3>1, BooksSynced
  <2> QED BY <1>2, <2>2, <2>4, <2>5, <2>6
<1> QED BY <1>1, <1>2 DEF dns_journal_compact

-----------------------------------------------------------------------------
(* Restart *)

\* h[k] is the version at offset k: what the transactions of f lead from and to.
Tells(f, g, h) == \A k \in Span(f) : g.body[k] = [from |-> h[k], to |-> h[k + 1]]

Ser(h) == [k \in Offsets1 |-> SerialOf(h[k])]

LEMMA SerIs ==
    ASSUME NEW h \in [Offsets1 -> Versions]
    PROVE  Ser(h) \in [Offsets1 -> Serials] /\ \A k \in Offsets1 : Ser(h)[k] = SerialOf(h[k])
  BY SerialOfIs DEF Ser

\* dns_journal_rollforward2() in terms of the transaction it starts with.
LEMMA RollCases ==
    ASSUME NEW f \in Files, NEW s \in [Offsets1 -> Serials], Filled(f, s), Agrees(f, f, s),
           NEW v \in Versions
    PROVE  LET r     == roll_forward(f, v)
               at    == journal_find(f, SerialOf(v))
               m     == at.pos.offset
               todo  == m .. f.end.offset - 1
               before(k) == IF k = m THEN v ELSE f.body[k - 1].to
               sane  == \A k \in todo : /\ f.body[k] # None /\ f.xhdr[k] # None
                                        /\ f.xhdr[k].serial0 = SerialOf(before(k))
           IN  /\ at.result # "success" => r = None
               /\ at.result = "success" =>
                     /\ m \in f.begin.offset .. f.end.offset /\ s[m] = SerialOf(v)
                     /\ m = f.end.offset => r = v
                     /\ m # f.end.offset =>
                           /\ m \in Span(f) /\ todo \subseteq Span(f) /\ f.end.offset - 1 \in todo
                           /\ r = IF ~sane THEN None
                                  ELSE IF \A k \in todo : f.body[k].from = before(k)
                                         THEN f.body[f.end.offset - 1].to
                                         ELSE [line |-> {}, n |-> f.end.serial]
<1> DEFINE r     == roll_forward(f, v)
           at    == journal_find(f, SerialOf(v))
           m     == at.pos.offset
           b     == f.end.offset
           todo  == m .. b - 1
           before(k) == IF k = m THEN v ELSE f.body[k - 1].to
           sane  == \A k \in todo : /\ f.body[k] # None /\ f.xhdr[k] # None
                                    /\ f.xhdr[k].serial0 = SerialOf(before(k))
           fits  == \A k \in todo : f.body[k].from = before(k)
<1>0. /\ f.begin.offset \in Nat /\ b \in Nat /\ Span(f) = f.begin.offset .. b - 1
      /\ f.begin.offset < b /\ f.end.serial = s[b] /\ b \in f.begin.offset .. b
      /\ f.begin.offset \in Offsets1 /\ b \in Offsets1 /\ Rising(s, f.begin.offset, b) /\ f.begin.offset <= b
  BY FilledIs
<1>1. ~JOURNAL_EMPTY(f) /\ SerialOf(v) \in Serials
  BY <1>0, SerialOfIs DEF JOURNAL_EMPTY
<1>2. r = IF at.result # "success" THEN None
          ELSE IF SerialOf(v) = f.end.serial THEN v
          ELSE IF todo = {} \/ ~sane THEN None
          ELSE IF fits THEN f.body[b - 1].to ELSE [line |-> {}, n |-> f.end.serial]
  BY <1>1 DEF roll_forward
<1>3. at.result = "success" => m \in f.begin.offset .. b /\ s[m] = SerialOf(v)
  BY <1>1, FindIs
<1> HIDE DEF r, at, sane, fits, m, todo
<1>4. CASE at.result # "success"
  BY <1>2, <1>4, Zenon DEF r, at
<1>5. CASE at.result = "success" /\ m = b
  <2>1. SerialOf(v) = f.end.serial
    BY <1>0, <1>3, <1>5
  <2>2. r = v
    BY <1>2, <1>5, <2>1, Zenon
  <2> QED BY <1>3, <1>5, <2>2 DEF r, at, m
<1>6. CASE at.result = "success" /\ m # b
  <2>1. SerialOf(v) # f.end.serial
    <3>1. s[m] # s[b]
      BY <1>0, <1>3, <1>6, RisingDist
    <3> QED BY <1>0, <1>3, <1>6, <3>1
  <2>2. m \in Span(f) /\ todo \subseteq Span(f) /\ b - 1 \in todo /\ todo # {}
    <3> HIDE DEF b
    <3>1. m \in f.begin.offset .. b - 1 /\ b - 1 \in m .. b - 1 /\ (m .. b - 1) \subseteq (f.begin.offset .. b - 1)
      BY <1>0, <1>3, <1>6
    <3> QED BY <1>0, <3>1 DEF todo
  <2>3. r = IF ~sane THEN None ELSE IF fits THEN f.body[b - 1].to ELSE [line |-> {}, n |-> f.end.serial]
    BY <1>2, <1>6, <2>1, <2>2, Zenon
  <2> QED BY <1>3, <1>6, <2>2, <2>3, Zenon DEF r, at, m, todo, sane, fits
<1> QED BY <1>4, <1>5, <1>6

LEMMA RollType ==
    ASSUME NEW f \in Files, NEW s \in [Offsets1 -> Serials], Keeps(f, s), Agrees(f, f, s),
           NEW v \in Versions
    PROVE  /\ roll_forward(f, v) \in Versions \cup {None}
           /\ Blank(f) => roll_forward(f, v) = v
<1> DEFINE r == roll_forward(f, v)
<1>1. CASE Blank(f)
  <2>1. r = v
    BY <1>1, BlankIs DEF roll_forward
  <2> QED BY <2>1
<1>2. CASE ~Blank(f)
  <2>0. Filled(f, s)
    BY <1>2 DEF Keeps
  <2> DEFINE at    == journal_find(f, SerialOf(v))
             m     == at.pos.offset
             todo  == m .. f.end.offset - 1
             before(k) == IF k = m THEN v ELSE f.body[k - 1].to
             sane  == \A k \in todo : /\ f.body[k] # None /\ f.xhdr[k] # None
                                      /\ f.xhdr[k].serial0 = SerialOf(before(k))
             last  == f.end.offset - 1
  <2>1. /\ at.result # "success" => r = None
        /\ at.result = "success" =>
              /\ m = f.end.offset => r = v
              /\ m # f.end.offset =>
                    /\ todo \subseteq Span(f) /\ last \in todo
                    /\ r = None \/ (sane /\ r = f.body[last].to) \/ r = [line |-> {}, n |-> f.end.serial]
    BY <2>0, RollCases
  <2> HIDE DEF r, at, m
  <2>2. [line |-> {}, n |-> f.end.serial] \in Versions
    BY FileIs, HalfIs DEF Versions, Serials
  <2>3. ASSUME last \in todo, todo \subseteq Span(f), sane PROVE f.body[last].to \in Versions
    <3>1. last \in Offsets /\ f.body[last] # None
      BY <2>0, <2>3, FilledIs
    <3> HIDE DEF last
    <3>2. f.body[last] \in Bodies
      BY <3>1, FileIs
    <3> QED BY <3>2 DEF Bodies
  <2> HIDE DEF sane, todo, last
  <2> QED BY <1>2, <2>1, <2>2, <2>3 DEF r
<1> QED BY <1>1, <1>2

\* From a version that is in the journal roll_forward() leads to the last.
LEMMA RollIs ==
    ASSUME NEW f \in Files, NEW h \in [Offsets1 -> Versions], Filled(f, Ser(h)), Agrees(f, f, Ser(h)),
           Tells(f, f, h), NEW v \in Versions
    PROVE  /\ roll_forward(f, v) # None =>
                 \E m \in f.begin.offset .. f.end.offset : SerialOf(v) = SerialOf(h[m])
           /\ \A m \in f.begin.offset .. f.end.offset : v = h[m] =>
                 /\ roll_forward(f, v) \in {None, h[f.end.offset]}
                 /\ Complete(f) => roll_forward(f, v) = h[f.end.offset]
<1> DEFINE r     == roll_forward(f, v)
           at    == journal_find(f, SerialOf(v))
           m     == at.pos.offset
           a     == f.begin.offset
           b     == f.end.offset
           todo  == m .. b - 1
           before(k) == IF k = m THEN v ELSE f.body[k - 1].to
           sane  == \A k \in todo : /\ f.body[k] # None /\ f.xhdr[k] # None
                                    /\ f.xhdr[k].serial0 = SerialOf(before(k))
           fits  == \A k \in todo : f.body[k].from = before(k)
           s     == Ser(h)
<1>s. s \in [Offsets1 -> Serials] /\ \A k \in Offsets1 : s[k] = SerialOf(h[k])
  BY SerIs
<1> HIDE DEF s
<1>f. Filled(f, s) /\ Agrees(f, f, s)
  BY DEF s
<1>0. /\ a \in Nat /\ b \in Nat /\ Span(f) = a .. b - 1 /\ (a .. b) \subseteq Offsets1 /\ a <= b
      /\ a < b /\ a \in Offsets1 /\ b \in Offsets1 /\ Rising(s, a, b) /\ b \in a .. b
  BY <1>s, <1>f, FilledIs
<1>1. /\ at.result # "success" => r = None
      /\ at.result = "success" =>
            /\ m \in a .. b /\ s[m] = SerialOf(v)
            /\ m = b => r = v
            /\ m # b => /\ m \in Span(f) /\ todo \subseteq Span(f) /\ b - 1 \in todo
                        /\ r = IF ~sane THEN None
                               ELSE IF fits THEN f.body[b - 1].to ELSE [line |-> {}, n |-> f.end.serial]
  BY <1>s, <1>f, RollCases
<1>2. SerialOf(v) \in Serials
  BY SerialOfIs
<1>3. Complete(f) /\ (\E j \in a .. b : s[j] = SerialOf(v)) => at.result = "success"
  BY <1>2, <1>f, <1>s, FindIs
<1>t. ASSUME NEW k \in Span(f) PROVE f.body[k].from = h[k] /\ f.body[k].to = h[k + 1]
  <2>1. f.body[k] = [from |-> h[k], to |-> h[k + 1]]
    BY <1>t DEF Tells
  <2> QED BY <2>1
<1> HIDE DEF r, at, m, a, b
<1>4. r # None => \E j \in a .. b : SerialOf(v) = SerialOf(h[j])
  BY <1>0, <1>1, <1>s
<1>5. ASSUME NEW j \in a .. b, v = h[j]
      PROVE  r \in {None, h[b]} /\ (Complete(f) => r = h[b])
  <2>1. s[j] = SerialOf(v)
    BY <1>0, <1>5, <1>s
  <2>2. CASE at.result # "success"
    BY <1>1, <1>3, <2>1, <2>2
  <2>3. CASE at.result = "success"
    <3>1. m = j
      BY <1>0, <1>1, <1>s, <2>1, <2>3, RisingDist
    <3>2. CASE m = b
      BY <1>1, <1>5, <2>3, <3>1, <3>2
    <3>3. CASE m # b
      <4>1. m \in Span(f) /\ todo \subseteq Span(f) /\ b - 1 \in todo
        BY <1>1, <2>3, <3>3
      <4>2. r = IF ~sane THEN None ELSE IF fits THEN f.body[b - 1].to ELSE [line |-> {}, n |-> f.end.serial]
        BY <1>1, <2>3, <3>3, Zenon
      <4>3. \A k \in todo : before(k) = h[k]
        <5> SUFFICES ASSUME NEW k \in todo, k # m PROVE f.body[k - 1].to = h[k]
          BY <1>5, <3>1
        <5>1. k - 1 \in Span(f) /\ (k - 1) + 1 = k
          <6>1. k \in m .. b - 1 /\ m \in a .. b - 1
            BY <1>0, <4>1
          <6>2. k - 1 \in a .. b - 1 /\ (k - 1) + 1 = k
            BY <1>0, <6>1
          <6> QED BY <1>0, <6>2
        <5>2. f.body[k - 1].to = h[(k - 1) + 1]
          BY <1>t, <5>1
        <5> QED BY <5>1, <5>2
      <4>4. \A k \in todo : f.body[k] = [from |-> h[k], to |-> h[k + 1]]
        BY <4>1 DEF Tells
      <4>5. fits
        <5> HIDE DEF before, todo
        <5> QED BY <1>t, <4>1, <4>3
      <4>6. f.body[b - 1].to = h[b]
        <5>1. (b - 1) + 1 = b
          BY <1>0
        <5>2. f.body[b - 1].to = h[(b - 1) + 1]
          BY <1>t, <4>1
        <5> QED BY <5>1, <5>2
      <4>7. ASSUME Complete(f) PROVE sane
        <5> SUFFICES ASSUME NEW k \in todo
                     PROVE  f.body[k] # None /\ f.xhdr[k] # None /\ f.xhdr[k].serial0 = SerialOf(h[k])
          BY <4>3
        <5> HIDE DEF before
        <5>1. k \in Span(f) /\ k \in Offsets1 /\ k + 1 \in Offsets1
          <6>1. k \in Span(f)
            BY <4>1
          <6>2. k \in a .. b /\ k + 1 \in a .. b
            BY <1>0, <6>1
          <6> QED BY <1>0, <6>1, <6>2
        <5>2. f.xhdr[k] # None
          BY <4>7, <5>1 DEF Complete
        <5>3. f.xhdr[k] = Xhdr(s[k], s[k + 1])
          BY <1>f, <5>1, <5>2 DEF Agrees
        <5>4. f.xhdr[k].serial0 = SerialOf(h[k])
          BY <1>s, <5>1, <5>3 DEF Xhdr
        <5>5. [from |-> h[k], to |-> h[k + 1]] \in Bodies
          BY <5>1 DEF Bodies
        <5> QED BY <4>4, <5>2, <5>4, <5>5, JournalAssumption
      <4> HIDE DEF sane, fits
      <4> QED BY <4>2, <4>5, <4>6, <4>7
    <3> QED BY <3>2, <3>3
  <2> QED BY <2>2, <2>3
<1> QED BY <1>4, <1>5 DEF r, a, b

\* What a loss of power leaves is put together from the file and what is synced.
LEMMA TornIs ==
    ASSUME file \in Files, synced \in Files, NEW S
    PROVE  LET F == Torn(S) IN
           /\ F \in Files
           /\ \E g \in {file, synced} : F.begin = g.begin /\ F.end = g.end /\ F.index = g.index
           /\ \A k \in Offsets : /\ F.xhdr[k] \in {file.xhdr[k], synced.xhdr[k]}
                                 /\ F.body[k] \in {file.body[k], synced.body[k]}
<1> DEFINE F == Torn(S)
           X == [k \in Offsets |-> IF Part("xhdr", k) \in S THEN file.xhdr[k] ELSE synced.xhdr[k]]
           B == [k \in Offsets |-> IF Part("body", k) \in S THEN file.body[k] ELSE synced.body[k]]
           g == IF Part("header", 0) \in S THEN file ELSE synced
<1>1. /\ F.begin = g.begin /\ F.end = g.end /\ F.index = g.index /\ F.xhdr = X /\ F.body = B
      /\ F = [begin |-> F.begin, end |-> F.end, index |-> F.index, xhdr |-> F.xhdr, body |-> F.body]
  <2>1. CASE Part("header", 0) \in S
    <3> HIDE DEF X, B
    <3>1. F = [begin |-> file.begin, end |-> file.end, index |-> file.index, xhdr |-> X, body |-> B]
      BY <2>1, Zenon DEF Torn, X, B
    <3> QED BY <2>1, <3>1
  <2>2. CASE Part("header", 0) \notin S
    <3> HIDE DEF X, B
    <3>1. F = [begin |-> synced.begin, end |-> synced.end, index |-> synced.index, xhdr |-> X, body |-> B]
      BY <2>2, Zenon DEF Torn, X, B
    <3> QED BY <2>2, <3>1
  <2> QED BY <2>1, <2>2
<1>2. \A k \in Offsets : X[k] \in {file.xhdr[k], synced.xhdr[k]} /\ B[k] \in {file.body[k], synced.body[k]}
  OBVIOUS
<1>3. X \in [Offsets -> Xhdrs \cup {None}] /\ B \in [Offsets -> Bodies \cup {None}]
  BY FileIs
<1>4. g \in {file, synced}
  OBVIOUS
<1> HIDE DEF X, B, g, F
<1>5. F \in Files
  BY <1>1, <1>3, <1>4, FileIs DEF Files
<1> QED BY <1>1, <1>2, <1>4, <1>5 DEF F

LEMMA TornBooks ==
    ASSUME NEW s \in [Offsets1 -> Serials], Books(s), NEW S
    PROVE  Keeps(Torn(S), s) /\ Agrees(Torn(S), Torn(S), s) /\ Torn(S) \in Files
<1> DEFINE F == Torn(S)
<1>b. /\ file \in Files /\ synced \in Files /\ Keeps(file, s) /\ Keeps(synced, s)
      /\ \A f, g \in {file, synced} : Agrees(f, g, s)
  BY DEF Books
<1>1. /\ F \in Files
      /\ \E g \in {file, synced} : F.begin = g.begin /\ F.end = g.end /\ F.index = g.index
      /\ \A k \in Offsets : F.xhdr[k] \in {file.xhdr[k], synced.xhdr[k]}
  BY <1>b, TornIs
<1> HIDE DEF F
<1>2. PICK g \in {file, synced} : F.begin = g.begin /\ F.end = g.end /\ F.index = g.index
  BY <1>1
<1>3. Keeps(F, s) /\ Span(F) = Span(g) /\ Span(g) \subseteq Offsets
  <2>1. Keeps(g, s) /\ g \in Files
    BY <1>b
  <2>2. Span(g) \subseteq Offsets
    BY <2>1, BlankIs, FilledIs DEF Keeps
  <2> QED BY <1>2, <2>1, <2>2, SameHeader
<1>4. Agrees(F, F, s)
  <2>1. Agrees(g, file, s) /\ Agrees(g, synced, s)
    BY <1>b
  <2> QED BY <1>1, <1>3, <2>1 DEF Agrees
<1> QED BY <1>1, <1>3, <1>4 DEF F

\* A restart with the file f, of which g is on the disk.
LEMMA BooksRestart ==
    ASSUME NEW s \in [Offsets1 -> Serials], NEW f \in Files, NEW g \in Files, Keeps(f, s), Keeps(g, s),
           \A x, y \in {f, g} : Agrees(x, y, s), Fresh(f) => Fresh(g), master \in Versions,
           Restarts(f, g), zone' # None, excused' \subseteq {"serial"}
    PROVE  Books(s)'
<1> DEFINE removed == f.end.serial # SerialOf(zone')
<1>1. /\ zone' = roll_forward(f, master) /\ txn' = None
      /\ file' = (IF removed THEN NewFile ELSE f) /\ synced' = (IF removed THEN NewFile ELSE g)
      /\ Excuses(file') \subseteq {"serial"}
  BY DEF Restarts
<1>2. zone' \in Versions
  <2>1. zone' \in Versions \cup {None}
    BY <1>1, RollType
  <2> QED BY <2>1
<1>3. CASE removed
  <2>1. /\ file' \in Files /\ Keeps(file', s) /\ Complete(file') /\ Fresh(file') /\ Span(file') = {}
        /\ synced' = file'
    BY <1>1, <1>3, NewFileIs, BlankIs DEF Keeps
  <2>2. Agrees(file', file', s)
    BY <2>1 DEF Agrees
  <2> QED BY <1>1, <1>2, <2>1, <2>2, BooksSynced
<1>4. CASE ~removed
  <2>1. file' = f /\ synced' = g
    BY <1>1, <1>4
  <2>2. Readable(f, f.begin.offset, f.end.offset) /\ Fresh(f)
    BY <1>1, <2>1, ExcusesIs
  <2>3. Complete(f)
    BY <2>2 DEF Readable, Complete, Span
  <2> QED BY <1>1, <1>2, <2>1, <2>2, <2>3 DEF Books
<1> QED BY <1>3, <1>4

-----------------------------------------------------------------------------
(* The index never leads astray *)

Dumps == [version : Versions, renamed : BOOLEAN]

\* What is not in the journal, as long as it is what the zone had.
Versioned ==
    /\ master \in Versions
    /\ dumping # None => dumping \in Dumps
    /\ compact # None => compact \in Versions

FindInv ==
    /\ made \in Nat /\ jnw = None
    /\ zone = None => txn = None
    /\ zone # None /\ excused \subseteq {"serial"} =>
          /\ Versioned
          /\ \E s \in [Offsets1 -> Serials] : Books(s)

LEMMA InitFind ==
    Init => FindInv
<1> SUFFICES ASSUME Init PROVE FindInv
  OBVIOUS
<1>1. PICK n \in FirstSerials : master = [line |-> {1}, n |-> n]
  BY DEF Init
<1>2. n \in Nat
  BY JournalAssumption, HalfIs DEF Serials
<1>3. master \in Versions /\ zone \in Versions /\ zone # None
  <2>1. master \in Versions
    BY <1>1, <1>2 DEF Versions
  <2> QED BY <2>1, JournalAssumption DEF Init
<1> DEFINE s == [k \in Offsets1 |-> 0]
<1>4. s \in [Offsets1 -> Serials]
  BY HalfIs DEF Serials
<1> HIDE DEF s
<1>5. /\ file = NewFile /\ synced = NewFile /\ jnw = None /\ txn = None /\ dumping = None /\ compact = None
      /\ made = 1
  BY DEF Init
<1>6. NewFile \in Files /\ Keeps(NewFile, s) /\ Complete(NewFile) /\ Fresh(NewFile) /\ Agrees(NewFile, NewFile, s)
  <2>1. Span(NewFile) = {}
    BY NewFileIs, BlankIs
  <2> QED BY <2>1, NewFileIs DEF Keeps, Agrees
<1>7. Books(s)
  <2>1. \A f, g \in {file, synced} : Agrees(f, g, s)
    BY <1>5, <1>6
  <2> QED BY <1>3, <1>5, <1>6, <2>1 DEF Books
<1> QED BY <1>3, <1>4, <1>5, <1>7 DEF FindInv, Versioned

LEMMA NextFind ==
    ASSUME FindInv, [Next]_vars
    PROVE  FindInv'
<1>0. made \in Nat /\ jnw = None /\ (zone = None => txn = None)
  BY DEF FindInv
<1>k. ASSUME zone' = zone, excused \subseteq excused', made' \in Nat, jnw' = None, txn' = txn \/ zone # None,
             zone # None /\ excused' \subseteq {"serial"} =>
                Versioned' /\ \E s \in [Offsets1 -> Serials] : Books(s)'
      PROVE  FindInv'
  BY <1>0, <1>k DEF FindInv
<1>b. ASSUME zone # None, excused \subseteq {"serial"}
      PROVE  Versioned /\ \E s \in [Offsets1 -> Serials] : Books(s)
  BY <1>b DEF FindInv
<1>1. ASSUME NEW step \in Steps, dns_journal_writediff(step) PROVE FindInv'
  <2>1. /\ zone # None /\ zone' = zone /\ made' = made + 1 /\ jnw' = jnw /\ excused \subseteq excused'
        /\ master' = master /\ dumping' = dumping /\ compact' = compact
    BY <1>1 DEF dns_journal_writediff
  <2>2. ASSUME excused' \subseteq {"serial"} PROVE Versioned' /\ \E s \in [Offsets1 -> Serials] : Books(s)'
    <3>1. Versioned /\ \E s \in [Offsets1 -> Serials] : Books(s)
      BY <1>b, <2>1, <2>2
    <3>2. PICK s \in [Offsets1 -> Serials] : Books(s)
      BY <3>1
    <3>3. Books(s)'
      BY <1>0, <1>1, <3>2, BooksWritediff
    <3> QED BY <2>1, <3>1, <3>3 DEF Versioned
  <2> QED BY <1>0, <1>k, <2>1, <2>2
<1>2. ASSUME commit_data \/ commit_xhdr \/ commit_index \/ fail PROVE FindInv'
  <2>1. /\ txn # None /\ zone' = zone /\ made' = made /\ jnw' = jnw /\ excused \subseteq excused'
        /\ master' = master /\ dumping' = dumping /\ compact' = compact
    BY <1>2 DEF commit_data, commit_xhdr, commit_index, fail
  <2>2. ASSUME zone # None, excused' \subseteq {"serial"} PROVE Versioned' /\ \E s \in [Offsets1 -> Serials] : Books(s)'
    <3>1. Versioned /\ \E s \in [Offsets1 -> Serials] : Books(s)
      BY <1>b, <2>1, <2>2
    <3>2. PICK s \in [Offsets1 -> Serials] : Books(s)
      BY <3>1
    <3>3. Books(s)'
      BY <1>2, <2>2, <3>2, BooksData, BooksXhdr, BooksIndex, BooksFail
    <3> QED BY <2>1, <3>1, <3>3 DEF Versioned
  <2> QED BY <1>0, <1>k, <2>1, <2>2
<1>3. ASSUME commit_header PROVE FindInv'
  <2>1. /\ txn # None /\ zone' = zone /\ made' = made /\ jnw' = jnw /\ excused' = excused
        /\ master' = master /\ dumping' = dumping /\ compact' = compact
    BY <1>3 DEF commit_header
  <2>2. ASSUME zone # None, excused' \subseteq {"serial"} PROVE Versioned' /\ \E s \in [Offsets1 -> Serials] : Books(s)'
    <3>1. Versioned /\ \E s \in [Offsets1 -> Serials] : Books(s)
      BY <1>b, <2>1, <2>2
    <3>2. PICK s \in [Offsets1 -> Serials] : Books(s)
      BY <3>1
    <3>3. PICK t : t = [k \in Offsets1 |-> IF k = txn.pos0.offset THEN txn.pos0.serial
                                           ELSE IF k = txn.pos1.offset THEN txn.pos1.serial ELSE s[k]]
      OBVIOUS
    <3>4. t \in [Offsets1 -> Serials]
      <4>1. txn \in Txns
        BY <2>1, <3>2 DEF Books, Underway
      <4>2. txn.pos0.serial \in Serials /\ txn.pos1.serial \in Serials
        BY <4>1, TxnIs
      <4> QED BY <3>3, <4>2
    <3>5. Books(t)'
      BY <1>3, <3>2, <3>3, <3>4, BooksHeader
    <3> QED BY <2>1, <3>1, <3>4, <3>5 DEF Versioned
  <2> QED BY <1>0, <1>k, <2>1, <2>2
<1>4. ASSUME commit_done PROVE FindInv'
  <2>1. /\ txn # None /\ txn' = None /\ zone' = txn.to /\ made' = made /\ jnw' = jnw /\ excused' = excused
        /\ master' = master /\ dumping' = dumping /\ compact' = compact /\ zone # None
    BY <1>0, <1>4 DEF commit_done
  <2>2. ASSUME excused \subseteq {"serial"} PROVE Versioned' /\ \E s \in [Offsets1 -> Serials] : Books(s)'
    <3>1. Versioned /\ \E s \in [Offsets1 -> Serials] : Books(s)
      BY <1>b, <2>1, <2>2
    <3>2. PICK s \in [Offsets1 -> Serials] : Books(s)
      BY <3>1
    <3>3. Books(s)'
      BY <1>4, <3>2, BooksDone
    <3> QED BY <2>1, <3>1, <3>3 DEF Versioned
  <2> QED BY <1>0, <2>1, <2>2 DEF FindInv
<1>5. ASSUME zone_dump \/ closeandrename PROVE FindInv'
  <2>1. /\ zone' = zone /\ made' = made /\ jnw' = jnw /\ excused' = excused /\ txn' = txn
        /\ file' = file /\ synced' = synced /\ compact' = compact
    BY <1>5 DEF zone_dump, closeandrename
  <2>2. ASSUME zone # None, excused \subseteq {"serial"} PROVE Versioned' /\ \E s \in [Offsets1 -> Serials] : Books(s)'
    <3>1. Versioned /\ \E s \in [Offsets1 -> Serials] : Books(s)
      BY <1>b, <2>2
    <3>2. PICK s \in [Offsets1 -> Serials] : Books(s)
      BY <3>1
    <3>3. Books(s)'
      BY <2>1, <3>2 DEF Books, Underway, Ready
    <3>4. zone \in Versions
      BY <3>2 DEF Books
    <3>5. Versioned'
      <4>1. CASE zone_dump
        <5>1. dumping' = [version |-> zone, renamed |-> FALSE] /\ master' = master
          BY <4>1 DEF zone_dump
        <5>2. dumping' \in Dumps
          BY <3>4, <5>1 DEF Dumps
        <5> QED BY <2>1, <3>1, <5>1, <5>2 DEF Versioned
      <4>2. CASE closeandrename
        <5>1. dumping # None /\ master' = dumping.version /\ dumping' = [dumping EXCEPT !.renamed = TRUE]
          BY <4>2 DEF closeandrename
        <5>2. dumping \in Dumps
          BY <3>1, <5>1 DEF Versioned
        <5>3. dumping' \in Dumps /\ master' \in Versions
          BY <5>1, <5>2 DEF Dumps
        <5> QED BY <2>1, <3>1, <5>3 DEF Versioned
      <4> QED BY <1>5, <4>1, <4>2
    <3> QED BY <3>3, <3>5
  <2> QED BY <1>0, <1>k, <2>1, <2>2
<1>6. ASSUME NEW v \in Versions, zone # None, excused \subseteq {"serial"}, txn = None, txn' = None, zone' = zone,
             dns_journal_compact(SerialOf(v))
      PROVE  jnw' = None /\ \E s \in [Offsets1 -> Serials] : Books(s)'
  <2>1. PICK s \in [Offsets1 -> Serials] : Books(s)
    BY <1>6, <1>b
  <2>2. PICK serial : serial = SerialOf(v)
    OBVIOUS
  <2>3. serial \in Serials /\ dns_journal_compact(serial)
    BY <1>6, <2>2, SerialOfIs
  <2>4. PICK u : u = Cut(s, compact_from(file, serial), file.end.offset - compact_from(file, serial))
    OBVIOUS
  <2>5. /\ jnw' = None /\ (file' = file => Books(s)')
        /\ file' # file => u \in [Offsets1 -> Serials] /\ Books(u)'
    BY <1>0, <1>6, <2>1, <2>3, <2>4, BooksCompact
  <2> QED BY <2>1, <2>5
<1>7. ASSUME dump_done PROVE FindInv'
  <2>1. /\ dumping # None /\ dumping' = None /\ zone' = zone /\ made' = made /\ excused' = excused /\ txn' = txn
        /\ master' = master
    BY <1>7 DEF dump_done
  <2>2. CASE dumping.renamed /\ txn = None /\ dns_journal_compact(SerialOf(dumping.version)) /\ compact' = compact
    <3>0. jnw' = None
      BY <1>0, <2>2 DEF dns_journal_compact
    <3>1. ASSUME zone # None, excused \subseteq {"serial"}
          PROVE  Versioned' /\ \E s \in [Offsets1 -> Serials] : Books(s)'
      <4>1. Versioned
        BY <1>b, <3>1
      <4>2. dumping.version \in Versions
        BY <2>1, <4>1 DEF Versioned, Dumps
      <4>3. \E s \in [Offsets1 -> Serials] : Books(s)'
        BY <1>6, <2>1, <2>2, <3>1, <4>2
      <4>4. Versioned'
        BY <2>1, <2>2, <4>1 DEF Versioned
      <4> QED BY <4>3, <4>4
    <3> QED BY <1>0, <1>k, <2>1, <3>0, <3>1
  <2>3. CASE UNCHANGED <<file, synced, jnw>> /\ compact' \in {compact, dumping.version}
    <3>1. ASSUME zone # None, excused \subseteq {"serial"}
          PROVE  Versioned' /\ \E s \in [Offsets1 -> Serials] : Books(s)'
      <4>1. Versioned /\ \E s \in [Offsets1 -> Serials] : Books(s)
        BY <1>b, <3>1
      <4>2. PICK s \in [Offsets1 -> Serials] : Books(s)
        BY <4>1
      <4>3. Books(s)'
        BY <2>1, <2>3, <4>2 DEF Books, Underway, Ready
      <4>4. dumping.version \in Versions
        BY <2>1, <4>1 DEF Versioned, Dumps
      <4>5. Versioned'
        BY <2>1, <2>3, <4>1, <4>4 DEF Versioned
      <4> QED BY <4>3, <4>5
    <3> QED BY <1>0, <1>k, <2>1, <2>3, <3>1
  <2> QED BY <1>7, <2>2, <2>3 DEF dump_done
<1>8. ASSUME zone_xfrdone PROVE FindInv'
  <2>1. /\ dumping' = dumping /\ zone' = zone /\ made' = made /\ excused' = excused /\ txn' = txn
        /\ master' = master /\ compact # None /\ txn = None /\ dns_journal_compact(SerialOf(compact)) /\ compact' = None
    BY <1>8 DEF zone_xfrdone
  <2>2. jnw' = None
    BY <1>0, <2>1 DEF dns_journal_compact
  <2>3. ASSUME zone # None, excused \subseteq {"serial"}
        PROVE  Versioned' /\ \E s \in [Offsets1 -> Serials] : Books(s)'
    <3>1. Versioned
      BY <1>b, <2>3
    <3>2. compact \in Versions
      BY <2>1, <3>1 DEF Versioned
    <3>3. \E s \in [Offsets1 -> Serials] : Books(s)'
      BY <1>6, <2>1, <2>3, <3>2
    <3>4. Versioned'
      BY <2>1, <3>1 DEF Versioned
    <3> QED BY <3>3, <3>4
  <2> QED BY <1>0, <1>k, <2>1, <2>2, <2>3
<1>9. ASSUME NEW f, NEW g, Restarts(f, g), zone # None, jnw' = jnw,
             \A s \in [Offsets1 -> Serials] : Books(s) =>
                /\ f \in Files /\ g \in Files /\ Keeps(f, s) /\ Keeps(g, s)
                /\ \A x, y \in {f, g} : Agrees(x, y, s)
                /\ Fresh(f) => Fresh(g)
      PROVE  FindInv'
  <2>1. /\ txn' = None /\ dumping' = None /\ compact' = None /\ master' = master /\ made' = made
        /\ excused \subseteq excused'
    BY <1>9 DEF Restarts
  <2>2. ASSUME zone' # None, excused' \subseteq {"serial"}
        PROVE  Versioned' /\ \E s \in [Offsets1 -> Serials] : Books(s)'
    <3>1. Versioned /\ \E s \in [Offsets1 -> Serials] : Books(s)
      BY <1>9, <1>b, <2>1, <2>2
    <3>2. PICK s \in [Offsets1 -> Serials] : Books(s)
      BY <3>1
    <3>3. Books(s)'
      BY <1>9, <2>2, <3>1, <3>2, BooksRestart DEF Versioned
    <3> QED BY <2>1, <3>1, <3>3 DEF Versioned
  <2> QED BY <1>0, <1>9, <2>1, <2>2 DEF FindInv
<1>10. ASSUME crash PROVE FindInv'
  <2>1. Restarts(file, synced) /\ zone # None /\ jnw' = jnw
    BY <1>10 DEF crash
  <2>2. \A s \in [Offsets1 -> Serials] : Books(s) =>
                /\ file \in Files /\ synced \in Files /\ Keeps(file, s) /\ Keeps(synced, s)
                /\ \A x, y \in {file, synced} : Agrees(x, y, s)
                /\ Fresh(file) => Fresh(synced)
    BY DEF Books
  <2> QED BY <1>9, <2>1, <2>2
<1>11. ASSUME power_loss PROVE FindInv'
  <2>1. PICK S \in SUBSET Dirty : Restarts(Torn(S), Torn(S))
    BY <1>11 DEF power_loss
  <2>2. zone # None /\ jnw' = jnw
    BY <1>11 DEF power_loss
  <2>3. \A s \in [Offsets1 -> Serials] : Books(s) => Keeps(Torn(S), s) /\ Agrees(Torn(S), Torn(S), s) /\ Torn(S) \in Files
    BY TornBooks
  <2> QED BY <1>9, <2>1, <2>2, <2>3
<1>12. ASSUME UNCHANGED vars PROVE FindInv'
  <2>1. /\ zone' = zone /\ made' = made /\ jnw' = jnw /\ excused' = excused /\ txn' = txn
        /\ file' = file /\ synced' = synced /\ compact' = compact /\ master' = master /\ dumping' = dumping
    BY <1>12 DEF vars
  <2>2. \A s \in [Offsets1 -> Serials] : Books(s) => Books(s)'
    BY <2>1 DEF Books, Underway, Ready
  <2>3. Versioned => Versioned'
    BY <2>1 DEF Versioned
  <2> QED BY <2>1, <2>2, <2>3 DEF FindInv
<1> QED BY <1>1, <1>2, <1>3, <1>4, <1>5, <1>7, <1>8, <1>10, <1>11, <1>12 DEF Next

(* The journal's index never leads astray: for every serial number           *)
(* journal_find() finds the addressable transaction that starts with it, if  *)
(* there is one, after any number of transactions, turns of the serial       *)
(* number, failures, compactions and restarts (lib/dns/journal.c), for every *)
(* size of the index, target size and range of serial numbers.               *)
THEOREM FindIsAlwaysExact == Spec => []FindIsExact
<1>1. FindInv => FindIsExact
  BY BooksFind DEF FindInv, FindIsExact
<1>2. FindInv /\ [Next]_vars => FindInv'
  BY NextFind
<1> QED BY <1>1, <1>2, InitFind, PTL DEF Spec

-----------------------------------------------------------------------------
(* The invariant: versions *)

Growing(h, a, b) ==
    \A k, l \in a .. b : k < l =>
        h[k].line \subseteq h[l].line /\ h[k].n < h[l].n /\ h[l].n - h[k].n < Half

\* The file is what is synced, or one transaction ahead of it.
Ahead ==
    /\ Blank(synced) => Blank(file) \/ (file.begin.offset = 1 /\ file.end.offset = 2)
    /\ ~Blank(synced) => /\ synced.begin.offset <= file.begin.offset
                         /\ file.begin.offset <= synced.end.offset
                         /\ file.end.offset \in {synced.end.offset, synced.end.offset + 1}

Written(h) ==
    /\ \A f, g \in {file, synced} : Tells(f, g, h)
    /\ Growing(h, file.begin.offset, file.end.offset)
    /\ Growing(h, synced.begin.offset, synced.end.offset)
    /\ Ahead

\* The journal has v, or it is empty and the master file has v.
Place(v, h) ==
    /\ Blank(file) => v = master
    /\ ~Blank(file) => \E k \in file.begin.offset .. file.end.offset : v = h[k]

\* v is less than half the range of serial numbers away.
Near(v) == \A u \in {master, compact} \ {None} : v.n - u.n < Half

Dumped(h) ==
    /\ Place(dumping.version, h) /\ master.n <= dumping.version.n /\ dumping.version.n <= zone.n
    /\ dumping.renamed => dumping.version = master

Places(h) ==
    /\ Place(master, h) /\ Place(zone, h) /\ master.n <= zone.n
    /\ dumping # None => Dumped(h)
    /\ compact # None => compact.n <= master.n
    /\ ~Blank(file) => Near(h[file.end.offset])

Acked(h) ==
    /\ acked.line \subseteq zone.line
    /\ Blank(synced) => acked.line \subseteq master.line
    /\ ~Blank(synced) => acked.line \subseteq h[synced.end.offset].line

NewBody == [from |-> zone, to |-> txn.to]

\* The transaction leads from the version that is served.
Leads(h) ==
    /\ zone.n < txn.to.n /\ txn.to.n - zone.n < Half /\ zone.line \subseteq txn.to.line
    /\ Near(txn.to)
    /\ txn.pos0.serial = SerialOf(zone) /\ txn.pos1.serial = SerialOf(txn.to)
    /\ txn.at \in {"data", "xhdr", "header"} => file.body[txn.pos0.offset] = NewBody
    /\ txn.at \in {"xhdr", "header"} => synced.body[txn.pos0.offset] = NewBody
    /\ txn.at \in {"index", "sync"} => h[file.end.offset] = txn.to

Story(h) ==
    /\ Written(h) /\ Places(h) /\ Acked(h)
    /\ txn # None => Leads(h)

RecoveryInv ==
    zone # None /\ excused = {} => \E h \in [Offsets1 -> Versions] : Books(Ser(h)) /\ Story(h)

LEMMA GrowingIs ==
    ASSUME NEW a \in Nat, NEW b \in Nat, (a .. b) \subseteq Offsets1, NEW h \in [Offsets1 -> Versions],
           Growing(h, a, b), NEW j \in a .. b, NEW k \in a .. b
    PROVE  /\ h[j] \in Versions /\ h[j].n \in Nat
           /\ h[j].n <= h[k].n <=> j <= k
           /\ j <= k => h[j].line \subseteq h[k].line /\ h[k].n - h[j].n < Half
<1>0. Half \in Nat /\ Half > 0
  BY HalfIs
<1> HIDE DEF Half
<1>1. \A l \in a .. b : h[l] \in Versions /\ h[l].n \in Nat
  BY DEF Versions
<1>2. j \in Nat /\ k \in Nat
  OBVIOUS
<1>3. CASE j = k
  BY <1>0, <1>1, <1>2, <1>3
<1>4. CASE j < k
  <2>1. h[j].line \subseteq h[k].line /\ h[j].n < h[k].n /\ h[k].n - h[j].n < Half
    BY <1>4 DEF Growing
  <2> QED BY <1>1, <1>2, <1>4, <2>1
<1>5. CASE k < j
  <2>1. h[k].n < h[j].n
    BY <1>5 DEF Growing
  <2> QED BY <1>1, <1>2, <1>5, <2>1
<1> QED BY <1>2, <1>3, <1>4, <1>5

\* An empty file is not ahead of anything.
LEMMA AheadIs ==
    ASSUME NEW s \in [Offsets1 -> Serials], Books(s), Ahead
    PROVE  /\ Blank(file) => Blank(synced)
           /\ ~Blank(synced) => synced.end.offset \in file.begin.offset .. file.end.offset
<1>b. file \in Files /\ synced \in Files /\ Keeps(file, s) /\ Keeps(synced, s)
  BY DEF Books
<1>1. CASE Blank(synced)
  BY <1>1
<1>2. CASE ~Blank(synced)
  <2>1. Filled(synced, s)
    BY <1>2, <1>b DEF Keeps
  <2>2. synced.begin.offset \in Nat /\ 1 <= synced.begin.offset /\ synced.end.offset \in Nat
        /\ file.begin.offset \in Nat /\ file.end.offset \in Nat
    BY <1>b, <2>1, FilledIs, FileIs
  <2>3. synced.begin.offset <= file.begin.offset /\ file.begin.offset <= synced.end.offset
        /\ file.end.offset \in {synced.end.offset, synced.end.offset + 1}
    BY <1>2 DEF Ahead
  <2>4. file.begin.offset # 0
    BY <2>2, <2>3
  <2>5. ~Blank(file)
    BY <2>4, BlankIs
  <2>6. synced.end.offset \in file.begin.offset .. file.end.offset
    BY <2>2, <2>3
  <2> QED BY <2>5, <2>6
<1> QED BY <1>1, <1>2

\* What the journal has is below its end.
LEMMA PlaceIs ==
    ASSUME NEW h \in [Offsets1 -> Versions], Books(Ser(h)), Written(h), ~Blank(file), NEW v, Place(v, h)
    PROVE  /\ v \in Versions /\ v.n <= h[file.end.offset].n /\ v.line \subseteq h[file.end.offset].line
           /\ \A u : Place(u, h) /\ u.n <= v.n => u.line \subseteq v.line
<1> DEFINE a == file.begin.offset
           b == file.end.offset
<1>1. Filled(file, Ser(h)) /\ file \in Files
  BY DEF Books, Keeps
<1>2. a \in Nat /\ b \in Nat /\ (a .. b) \subseteq Offsets1 /\ b \in a .. b
  BY <1>1, SerIs, FilledIs
<1>3. Growing(h, a, b)
  BY DEF Written
<1>4. PICK k \in a .. b : v = h[k]
  BY DEF Place
<1> HIDE DEF a, b
<1>5. k <= b
  BY <1>2
<1>6. v \in Versions /\ v.n <= h[b].n /\ v.line \subseteq h[b].line
  BY <1>2, <1>3, <1>4, <1>5, GrowingIs
<1>7. ASSUME NEW u, Place(u, h), u.n <= v.n PROVE u.line \subseteq v.line
  <2>1. PICK j \in a .. b : u = h[j]
    BY <1>7 DEF Place, a, b
  <2> QED BY <1>2, <1>3, <1>4, <1>7, <2>1, GrowingIs
<1> QED BY <1>6, <1>7 DEF b

\* What the file leads to when named dies.
LEMMA CrashIs ==
    ASSUME NEW h \in [Offsets1 -> Versions], Books(Ser(h)), Story(h), master \in Versions
    PROVE  LET r == roll_forward(file, master) IN
           /\ r \in Versions /\ zone.line \subseteq r.line /\ acked.line \subseteq r.line
           /\ Blank(file) => r = master
           /\ ~Blank(file) => r = h[file.end.offset]
<1> DEFINE r == roll_forward(file, master)
<1>s. Ser(h) \in [Offsets1 -> Serials]
  BY SerIs
<1>b. file \in Files /\ Keeps(file, Ser(h)) /\ Agrees(file, file, Ser(h)) /\ Complete(file)
  BY DEF Books
<1>w. Written(h) /\ Places(h) /\ acked.line \subseteq zone.line
  BY DEF Story, Acked
<1>1. CASE Blank(file)
  <2>1. r = master
    BY <1>1, <1>b, <1>s, RollType
  <2>2. zone = master
    BY <1>1, <1>w DEF Places, Place
  <2> QED BY <1>1, <1>w, <2>1, <2>2
<1>2. CASE ~Blank(file)
  <2>1. Filled(file, Ser(h)) /\ Tells(file, file, h)
    BY <1>2, <1>b, <1>w DEF Keeps, Written
  <2>2. PICK m \in file.begin.offset .. file.end.offset : master = h[m]
    BY <1>2, <1>w DEF Places, Place
  <2>3. r = h[file.end.offset]
    BY <1>b, <2>1, <2>2, RollIs
  <2>4. file.end.offset \in Offsets1
    BY <1>b, <1>s, <2>1, FilledIs
  <2>5. zone.line \subseteq h[file.end.offset].line
    BY <1>2, <1>w, PlaceIs DEF Places
  <2> QED BY <1>2, <1>w, <2>3, <2>4, <2>5
<1> QED BY <1>1, <1>2

\* What it may lead to after a loss of power.
LEMMA PowerIs ==
    ASSUME NEW h \in [Offsets1 -> Versions], Books(Ser(h)), Story(h), master \in Versions, NEW S,
           roll_forward(Torn(S), master) # None
    PROVE  LET F == Torn(S)
               r == roll_forward(F, master)
           IN  /\ acked.line \subseteq r.line /\ r \in Versions
               /\ Blank(F) => r = master /\ Blank(synced)
               /\ ~Blank(F) => /\ r = h[F.end.offset] /\ \E k \in F.begin.offset .. F.end.offset : master = h[k]
                               /\ ~Blank(file) /\ h[F.end.offset].n <= h[file.end.offset].n
                               /\ Growing(h, F.begin.offset, F.end.offset)
               /\ Tells(F, F, h)
<1> DEFINE F == Torn(S)
           r == roll_forward(F, master)
           s == Ser(h)
           a == file.begin.offset
           b == file.end.offset
<1>s. s \in [Offsets1 -> Serials] /\ \A k \in Offsets1 : s[k] = SerialOf(h[k])
  BY SerIs
<1>b. /\ file \in Files /\ synced \in Files /\ Keeps(file, s) /\ Keeps(synced, s)
  BY DEF Books
<1>w. /\ \A f, g \in {file, synced} : Tells(f, g, h)
      /\ Growing(h, a, b) /\ Growing(h, synced.begin.offset, synced.end.offset)
      /\ Ahead /\ Acked(h) /\ Written(h) /\ Place(master, h)
  BY DEF Story, Written, Places
<1>1. /\ F \in Files
      /\ \E g \in {file, synced} : F.begin = g.begin /\ F.end = g.end /\ F.index = g.index
      /\ \A k \in Offsets : F.body[k] \in {file.body[k], synced.body[k]}
  BY <1>b, TornIs
<1>2. Keeps(F, s) /\ Agrees(F, F, s)
  BY <1>s, TornBooks
<1>3. r # None
  OBVIOUS
<1>8. Books(s)
  OBVIOUS
<1> HIDE DEF F, s
<1>4. PICK g \in {file, synced} : F.begin = g.begin /\ F.end = g.end /\ F.index = g.index
  BY <1>1
<1>5. /\ Span(F) = Span(g) /\ (Blank(F) <=> Blank(g)) /\ (Filled(F, s) <=> Filled(g, s))
  BY <1>4, SameHeader
<1>6. Tells(F, F, h)
  <2>1. Span(g) \subseteq Offsets
    <3>1. g \in Files /\ Keeps(g, s)
      BY <1>b
    <3> QED BY <1>s, <3>1, BlankIs, FilledIs DEF Keeps
  <2>2. Tells(g, file, h) /\ Tells(g, synced, h)
    BY <1>w
  <2> QED BY <1>1, <1>5, <2>1, <2>2 DEF Tells
<1>7. Blank(file) => Blank(synced)
  BY <1>8, <1>s, <1>w, AheadIs
<1>9. CASE Blank(F)
  <2>1. r = master
    BY <1>1, <1>2, <1>9, <1>s, RollType
  <2>2. Blank(synced)
    BY <1>5, <1>7, <1>9
  <2>3. acked.line \subseteq master.line
    BY <1>w, <2>2 DEF Acked
  <2> QED BY <1>6, <1>9, <2>1, <2>2, <2>3 DEF F
<1>10. CASE ~Blank(F)
  <2>1. ~Blank(file) /\ ~Blank(g) /\ Filled(F, s) /\ Filled(g, s) /\ Filled(file, s)
    BY <1>2, <1>5, <1>7, <1>10, <1>b DEF Keeps
  <2>2. PICK m \in a .. b : master = h[m]
    BY <1>w, <2>1 DEF Place
  <2>3. /\ a \in Nat /\ b \in Nat /\ a < b /\ (a .. b) \subseteq Offsets1 /\ b \in a .. b /\ Rising(s, a, b)
    BY <1>b, <1>s, <2>1, FilledIs
  <2>4. Growing(h, F.begin.offset, F.end.offset)
    BY <1>4, <1>w
  <2>5. /\ r # None => \E j \in F.begin.offset .. F.end.offset : SerialOf(master) = SerialOf(h[j])
        /\ \A j \in F.begin.offset .. F.end.offset : master = h[j] => r \in {None, h[F.end.offset]}
    <3>1. Filled(F, Ser(h)) /\ Agrees(F, F, Ser(h))
      BY <1>2, <2>1 DEF s
    <3> QED BY <1>1, <1>6, <3>1, RollIs
  <2>6. /\ \A j \in F.begin.offset .. F.end.offset : j \in Offsets1 /\ h[j] \in Versions
        /\ F.end.offset \in F.begin.offset .. F.end.offset
    BY <1>1, <1>s, <2>1, FilledIs
  <2>7. CASE g = file
    <3>1. F.begin.offset = a /\ F.end.offset = b
      BY <1>4, <2>7
    <3>2. r = h[b]
      BY <1>3, <2>2, <2>5, <3>1
    <3>3. acked.line \subseteq h[b].line
      <4>1. CASE Blank(synced)
        <5>1. acked.line \subseteq master.line
          BY <1>w, <4>1 DEF Acked
        <5>2. master.line \subseteq h[b].line
          <6>1. m <= b
            BY <2>3
          <6> QED BY <1>w, <2>2, <2>3, <6>1, GrowingIs
        <5> QED BY <5>1, <5>2
      <4>2. CASE ~Blank(synced)
        <5>1. acked.line \subseteq h[synced.end.offset].line
          BY <1>w, <4>2 DEF Acked
        <5>2. synced.end.offset \in a .. b
          BY <1>8, <1>s, <1>w, <4>2, AheadIs
        <5>3. synced.end.offset <= b
          BY <2>3, <5>2
        <5>4. h[synced.end.offset].line \subseteq h[b].line
          BY <1>w, <2>3, <5>2, <5>3, GrowingIs
        <5> QED BY <5>1, <5>4
      <4> QED BY <4>1, <4>2
    <3>4. h[b].n <= h[b].n
      BY <2>3 DEF Versions
    <3> QED BY <1>6, <1>10, <2>1, <2>2, <2>4, <2>6, <3>1, <3>2, <3>3, <3>4 DEF F
  <2>8. CASE g = synced
    <3> DEFINE c == synced.begin.offset
               d == synced.end.offset
    <3>1. F.begin.offset = c /\ F.end.offset = d
      BY <1>4, <2>8
    <3>2. ~Blank(synced) /\ acked.line \subseteq h[d].line
      BY <1>w, <2>1, <2>8 DEF Acked
    <3>3. c <= a /\ a <= d /\ b \in {d, d + 1} /\ d \in a .. b
      BY <1>8, <1>s, <1>w, <3>2, AheadIs DEF Ahead
    <3>4. c \in Nat /\ d \in Nat /\ c < d /\ Rising(s, c, d) /\ (c .. d) \subseteq Offsets1 /\ d \in c .. d
      BY <1>b, <1>s, <2>1, <2>8, FilledIs
    <3> HIDE DEF a, b, c, d
    <3>5. m \in c .. d
      <4> SUFFICES ASSUME m \notin c .. d PROVE FALSE
        OBVIOUS
      <4>1. m = b /\ d < b
        BY <2>3, <3>3, <3>4
      <4>2. PICK j \in c .. d : SerialOf(master) = SerialOf(h[j])
        BY <1>3, <2>5, <3>1
      <4>3. s[j] = s[b] /\ s[j] \in Serials /\ s[b] \in Serials /\ s[d] \in Serials
        BY <1>s, <2>2, <2>3, <3>4, <4>1, <4>2
      <4>4. DNS_SERIAL_GT(s[b], s[d])
        BY <2>3, <3>3, <4>1 DEF Rising
      <4>5. CASE j = d
        BY <4>3, <4>4, <4>5, GTAsym
      <4>6. CASE j # d
        <5>1. j < d
          BY <3>4, <4>6
        <5>2. DNS_SERIAL_GT(s[d], s[j])
          BY <3>4, <5>1 DEF Rising
        <5> QED BY <4>3, <4>4, <5>2, GTAsym
      <4> QED BY <4>5, <4>6
    <3>6. r = h[d]
      BY <1>3, <2>2, <2>5, <3>1, <3>5
    <3>7. h[d].n <= h[b].n
      <4>1. d <= b
        BY <2>3, <3>3, <3>4
      <4> QED BY <1>w, <2>3, <3>3, <4>1, GrowingIs
    <3> QED BY <1>6, <1>10, <2>1, <2>2, <2>4, <2>6, <3>1, <3>2, <3>5, <3>6, <3>7 DEF F, b
  <2> QED BY <2>7, <2>8
<1> QED BY <1>9, <1>10

LEMMA StoryRecovers ==
    ASSUME NEW h \in [Offsets1 -> Versions], Books(Ser(h)), Story(h), master \in Versions
    PROVE  RecoveryIsExact
<1>1. roll_forward(file, master) \in Versions /\ zone.line \subseteq roll_forward(file, master).line
  BY CrashIs
<1>2. roll_forward(file, master) # None
  BY <1>1, JournalAssumption
<1>3. \A S \in SUBSET Dirty :
         LET v == roll_forward(Torn(S), master) IN v # None => acked.line \subseteq v.line
  BY PowerIs
<1> QED BY <1>1, <1>2, <1>3 DEF RecoveryIsExact

-----------------------------------------------------------------------------
(* The steps and the versions *)

LEMMA HalfNat == Half \in Nat /\ Half > 0 /\ SerialMod = 2 * Half
  BY HalfIs

\* How far serial numbers are apart, from how far the versions are.
LEMMA DistN ==
    ASSUME NEW u \in Versions, NEW v \in Versions, u.n <= v.n, v.n - u.n < SerialMod
    PROVE  /\ Dist(SerialOf(u), SerialOf(v)) = v.n - u.n
           /\ DNS_SERIAL_GT(SerialOf(v), SerialOf(u)) <=> u.n < v.n /\ v.n - u.n < Half
<1>1. u.n \in Nat /\ v.n \in Nat /\ SerialMod \in Nat /\ SerialMod > 0
  BY HalfIs DEF Versions
<1> DEFINE d == v.n - u.n
<1>2. d \in 0 .. SerialMod - 1 /\ u.n + d = v.n /\ (d # 0 <=> u.n < v.n)
  BY <1>1
<1> HIDE DEF d
<1>3. (((u.n + d) % SerialMod) - (u.n % SerialMod)) % SerialMod = d
  BY <1>1, <1>2, ModApart
<1>4. (SerialOf(v) - SerialOf(u)) % SerialMod = d
  BY <1>2, <1>3 DEF SerialOf
<1>5. Dist(SerialOf(u), SerialOf(v)) = d
  BY <1>4, DistIs, SerialOfIs
<1>6. DNS_SERIAL_GT(SerialOf(v), SerialOf(u)) <=> d # 0 /\ d < Half
  BY <1>4, Zenon DEF DNS_SERIAL_GT, Half
<1> QED BY <1>2, <1>5, <1>6 DEF d

\* Steps that leave the headers alone leave the places alone.
LEMMA SamePlaces ==
    ASSUME NEW h, Places(h), Acked(h), UNCHANGED <<zone, master, dumping, compact, acked>>,
           file'.begin = file.begin, file'.end = file.end, Blank(file') <=> Blank(file),
           synced'.end = synced.end, Blank(synced') <=> Blank(synced)
    PROVE  Places(h)' /\ Acked(h)'
<1>1. \A v : Place(v, h) => Place(v, h)'
  BY DEF Place
<1>2. \A v : Near(v) => Near(v)'
  BY DEF Near
<1>3. Acked(h)'
  BY DEF Acked
<1>4. Place(master, h)' /\ Place(zone, h)'
  BY <1>1 DEF Places, Place
<1>5. ASSUME dumping # None PROVE Dumped(h)'
  BY <1>1, <1>5 DEF Places, Dumped, Place
<1> QED BY <1>2, <1>3, <1>4, <1>5 DEF Places, Near

LEMMA StoryWritediff ==
    ASSUME NEW h \in [Offsets1 -> Versions], Books(Ser(h)), Story(h), Versioned, made \in Nat,
           NEW step \in Steps, dns_journal_writediff(step), excused' = {}
    PROVE  Story(h)'
<1> DEFINE k  == IF JOURNAL_EMPTY(file) THEN 1 ELSE file.end.offset
           to == [line |-> zone.line \cup {made + 1}, n |-> zone.n + step]
           entry == [from |-> zone, to |-> to]
           s == Ser(h)
<1>1. /\ k \in Offsets /\ synced' = synced /\ UNCHANGED <<zone, master, dumping, compact, acked>>
      /\ file' = [file EXCEPT !.xhdr[k] = None, !.body[k] = entry]
      /\ txn' = [at |-> "data", to |-> to,
                 pos0 |-> Pos(SerialOf(zone), k), pos1 |-> Pos(SerialOf(to), k + 1),
                 begin |-> file.begin, end |-> file.end, index |-> file.index]
      /\ \A v \in {master, compact} \ {None} : txn'.to.n - v.n < SerialMod \div 2
  BY DEF dns_journal_writediff
<1>s. s \in [Offsets1 -> Serials]
  BY SerIs
<1>b. /\ file \in Files /\ synced \in Files /\ zone \in Versions /\ Keeps(file, s) /\ Keeps(synced, s)
      /\ Books(s)
  BY DEF Books
<1>w. Written(h) /\ Places(h) /\ Acked(h) /\ Ahead
  BY DEF Story, Written
<1> HIDE DEF k, to, s
<1>2. /\ file'.begin = file.begin /\ file'.end = file.end /\ file'.index = file.index
      /\ file'.body = [file.body EXCEPT ![k] = entry]
  BY <1>1, <1>b DEF Files
<1>3. /\ Span(file') = Span(file) /\ (Blank(file') <=> Blank(file))
  BY <1>2, SameHeader
<1>4. Places(h)' /\ Acked(h)'
  BY <1>1, <1>2, <1>3, <1>w, SamePlaces
<1>5. k \notin Span(file) /\ k \notin Span(synced)
  <2>1. CASE Blank(file)
    <3>1. Blank(synced)
      BY <1>b, <1>s, <1>w, <2>1, AheadIs
    <3> QED BY <2>1, <3>1, BlankIs
  <2>2. CASE ~Blank(file)
    <3>1. k = file.end.offset /\ Filled(file, s)
      BY <1>b, <1>s, <2>2, KeepsIs DEF k
    <3>2. k \notin Span(file) /\ k \in Nat
      BY <1>b, <1>s, <3>1, FilledIs
    <3>3. k \notin Span(synced)
      <4>1. CASE Blank(synced)
        BY <4>1, BlankIs
      <4>2. CASE ~Blank(synced)
        <5>1. Filled(synced, s) /\ k \in {synced.end.offset, synced.end.offset + 1}
          BY <1>b, <1>w, <3>1, <4>2 DEF Keeps, Ahead
        <5>2. synced.begin.offset \in Nat /\ synced.end.offset \in Nat
              /\ Span(synced) = synced.begin.offset .. synced.end.offset - 1
          BY <1>b, <1>s, <5>1, FilledIs
        <5> QED BY <5>1, <5>2
      <4> QED BY <4>1, <4>2
    <3> QED BY <3>2, <3>3
  <2> QED BY <2>1, <2>2
<1>6. Span(file) \subseteq Offsets /\ Span(synced) \subseteq Offsets
  BY <1>b, <1>s, BlankIs, FilledIs DEF Keeps
<1>7. Written(h)'
  <2>1. \A j \in Span(file) : file'.body[j] = file.body[j]
    BY <1>2, <1>5, <1>6, <1>b, FileIs
  <2>2. \A j \in Span(synced) : file'.body[j] = file.body[j]
    BY <1>2, <1>5, <1>6, <1>b, FileIs
  <2>3. Tells(file', file', h) /\ Tells(file', synced', h)
    BY <1>1, <1>3, <1>w, <2>1 DEF Written, Tells
  <2>4. Tells(synced', file', h) /\ Tells(synced', synced', h)
    BY <1>1, <1>w, <2>2 DEF Written, Tells
  <2>5. Ahead'
    BY <1>1, <1>2, <1>3, <1>w DEF Ahead
  <2>6. \A f, g \in {file', synced'} : Tells(f, g, h)
    BY <2>3, <2>4
  <2> QED BY <1>1, <1>2, <1>w, <2>5, <2>6 DEF Written
<1>8. Leads(h)'
  <2>1. txn'.at = "data" /\ txn'.to = to /\ txn'.pos0.offset = k /\ txn'.pos0.serial = SerialOf(zone)
        /\ txn'.pos1.serial = SerialOf(to)
    BY <1>1 DEF Pos
  <2>2. zone.n \in Nat /\ to.n = zone.n + step /\ to.line = zone.line \cup {made + 1} /\ step \in 1 .. Half - 1
    BY <1>b DEF Versions, to, Steps, Half
  <2>3. zone.n < to.n /\ to.n - zone.n < Half /\ zone.line \subseteq to.line
    <3> HIDE DEF Half
    <3> QED BY <2>2, HalfNat
  <2>4. Near(txn.to)'
    BY <1>1 DEF Near, Half
  <2>5. file'.body[k] = entry
    BY <1>1, <1>2, <1>b, FileIs
  <2>6. zone' = zone
    BY <1>1
  <2> HIDE DEF Half
  <2> QED BY <2>1, <2>3, <2>4, <2>5, <2>6 DEF Leads, NewBody
<1> QED BY <1>4, <1>7, <1>8 DEF Story

\* The file is synced and everything else stays.
LEMMA StorySync ==
    ASSUME NEW h \in [Offsets1 -> Versions], Books(Ser(h)), Written(h), Places(h), Acked(h),
           file' = file, synced' = file, UNCHANGED <<zone, master, acked>>,
           dumping' \in {dumping, None}, compact' \in {compact, None}
    PROVE  Written(h)' /\ Places(h)' /\ Acked(h)'
<1>b. file \in Files /\ Keeps(file, Ser(h)) /\ Ser(h) \in [Offsets1 -> Serials]
  BY SerIs DEF Books
<1>1. Written(h)'
  <2>1. ~Blank(file) => file.begin.offset <= file.begin.offset /\ file.begin.offset <= file.end.offset
    BY <1>b, FilledIs DEF Keeps
  <2>2. Ahead'
    BY <2>1 DEF Ahead
  <2>3. Tells(file, file, h) /\ Growing(h, file.begin.offset, file.end.offset)
    BY DEF Written
  <2>4. \A f, g \in {file', synced'} : Tells(f, g, h)
    BY <2>3
  <2> QED BY <2>2, <2>3, <2>4 DEF Written
<1>2. Places(h)'
  <2>1. \A v : Near(v) => Near(v)'
    BY DEF Near
  <2>2. Place(master, h)' /\ Place(zone, h)'
    BY DEF Places, Place
  <2>3. ASSUME dumping' # None PROVE Dumped(h)'
    BY <2>3 DEF Places, Dumped, Place
  <2> QED BY <2>1, <2>2, <2>3 DEF Places, Near
<1>3. Acked(h)'
  <2>1. CASE Blank(file)
    <3>1. zone = master
      BY <2>1 DEF Places, Place
    <3> QED BY <2>1, <3>1 DEF Acked
  <2>2. CASE ~Blank(file)
    <3>1. zone.line \subseteq h[file.end.offset].line
      BY <2>2, PlaceIs DEF Places
    <3> QED BY <2>2, <3>1 DEF Acked
  <2> QED BY <2>1, <2>2
<1> QED BY <1>1, <1>2, <1>3

LEMMA StoryData ==
    ASSUME NEW h \in [Offsets1 -> Versions], Books(Ser(h)), Story(h), commit_data
    PROVE  Story(h)'
<1>1. /\ txn # None /\ txn.at = "data" /\ synced' = file /\ file' = file
      /\ UNCHANGED <<zone, master, acked, dumping, compact>>
  BY DEF commit_data
<1>2. /\ txn'.at = "xhdr" /\ txn'.to = txn.to /\ txn'.pos0 = txn.pos0 /\ txn'.pos1 = txn.pos1
  <2>1. txn \in Txns
    BY <1>1 DEF Books, Underway
  <2> QED BY <2>1 DEF commit_data, Txns
<1>3. Written(h)' /\ Places(h)' /\ Acked(h)'
  BY <1>1, StorySync DEF Story
<1>4. Leads(h)
  BY <1>1 DEF Story
<1>5. Leads(h)'
  BY <1>1, <1>2, <1>4 DEF Leads, NewBody, Near
<1> QED BY <1>3, <1>5 DEF Story

LEMMA StoryXhdr ==
    ASSUME NEW h \in [Offsets1 -> Versions], Books(Ser(h)), Story(h), commit_xhdr
    PROVE  Story(h)'
<1>1. /\ txn # None /\ txn.at = "xhdr" /\ synced' = synced
      /\ file' = [file EXCEPT !.xhdr[txn.pos0.offset] =
                    [serial0 |-> txn.pos0.serial, serial1 |-> txn.pos1.serial]]
      /\ txn' = [txn EXCEPT !.at = "header"]
      /\ UNCHANGED <<zone, master, acked, dumping, compact>>
  BY DEF commit_xhdr
<1>b. txn \in Txns /\ file \in Files
  BY <1>1 DEF Books, Underway
<1>2. /\ txn'.at = "header" /\ txn'.to = txn.to /\ txn'.pos0 = txn.pos0 /\ txn'.pos1 = txn.pos1
  BY <1>1, <1>b DEF Txns
<1>3. file'.begin = file.begin /\ file'.end = file.end /\ file'.index = file.index /\ file'.body = file.body
  BY <1>1, <1>b DEF Files
<1>4. (Blank(file') <=> Blank(file)) /\ Span(file') = Span(file)
  BY <1>3, SameHeader
<1>5. Places(h)' /\ Acked(h)'
  BY <1>1, <1>3, <1>4, SamePlaces DEF Story
<1>6. Written(h)'
  <2>1. Written(h)
    BY DEF Story
  <2>2. Ahead'
    BY <1>1, <1>3, <1>4, <2>1 DEF Written, Ahead
  <2>3. \A f, g \in {file', synced'} : Tells(f, g, h)
    <3>1. Tells(file', file', h) /\ Tells(file', synced', h)
      BY <1>1, <1>3, <1>4, <2>1 DEF Written, Tells
    <3>2. Tells(synced', file', h) /\ Tells(synced', synced', h)
      BY <1>1, <1>3, <2>1 DEF Written, Tells
    <3> QED BY <3>1, <3>2
  <2> QED BY <1>1, <1>3, <2>1, <2>2, <2>3 DEF Written
<1>7. Leads(h)
  BY <1>1 DEF Story
<1>8. Leads(h)'
  BY <1>1, <1>2, <1>3, <1>7 DEF Leads, NewBody, Near
<1> QED BY <1>5, <1>6, <1>8 DEF Story

LEMMA StoryIndex ==
    ASSUME NEW h \in [Offsets1 -> Versions], Books(Ser(h)), Story(h), commit_index
    PROVE  Story(h)'
<1>1. /\ txn # None /\ txn.at = "index" /\ synced' = synced
      /\ file' = [file EXCEPT !.index = txn.index] /\ txn' = [txn EXCEPT !.at = "sync"]
      /\ UNCHANGED <<zone, master, acked, dumping, compact>>
  BY DEF commit_index
<1>b. txn \in Txns /\ file \in Files /\ file.end = txn.pos1 /\ txn.pos1.offset = txn.pos0.offset + 1
      /\ txn.pos0.offset \in Offsets
  BY <1>1 DEF Books, Underway
<1>2. /\ txn'.at = "sync" /\ txn'.to = txn.to /\ txn'.pos0 = txn.pos0 /\ txn'.pos1 = txn.pos1
  BY <1>1, <1>b DEF Txns
<1>3. file'.begin = file.begin /\ file'.end = file.end /\ file'.body = file.body
  BY <1>1, <1>b DEF Files
<1>4. ~Blank(file') /\ ~Blank(file) /\ Span(file') = Span(file)
  <2>1. file.end.offset # 0 /\ file'.end.offset # 0
    BY <1>3, <1>b, SizeIs DEF Offsets
  <2> QED BY <1>3, <2>1, BlankIs DEF Span
<1>5. Places(h)' /\ Acked(h)'
  BY <1>1, <1>3, <1>4, SamePlaces DEF Story
<1>6. Written(h)'
  <2>1. Written(h)
    BY DEF Story
  <2>2. Ahead'
    BY <1>1, <1>3, <1>4, <2>1 DEF Written, Ahead
  <2>3. \A f, g \in {file', synced'} : Tells(f, g, h)
    <3>1. Tells(file', file', h) /\ Tells(file', synced', h)
      BY <1>1, <1>3, <1>4, <2>1 DEF Written, Tells
    <3>2. Tells(synced', file', h) /\ Tells(synced', synced', h)
      BY <1>1, <1>3, <2>1 DEF Written, Tells
    <3> QED BY <3>1, <3>2
  <2> QED BY <1>1, <1>3, <2>1, <2>2, <2>3 DEF Written
<1>7. Leads(h)
  BY <1>1 DEF Story
<1>8. Leads(h)'
  BY <1>1, <1>2, <1>3, <1>7 DEF Leads, NewBody, Near
<1> QED BY <1>5, <1>6, <1>8 DEF Story

LEMMA StoryDone ==
    ASSUME NEW h \in [Offsets1 -> Versions], Books(Ser(h)), Story(h), Versioned, commit_done
    PROVE  Story(h)'
<1> DEFINE b == file.end.offset
<1>1. /\ txn # None /\ txn.at = "sync" /\ synced' = file /\ file' = file /\ zone' = txn.to /\ acked' = txn.to
      /\ txn' = None /\ UNCHANGED <<master, dumping, compact>>
  BY DEF commit_done
<1>b. /\ file \in Files /\ Keeps(file, Ser(h)) /\ Ser(h) \in [Offsets1 -> Serials]
      /\ txn \in Txns /\ file.end = txn.pos1 /\ txn.pos1.offset = txn.pos0.offset + 1
      /\ txn.pos0.offset \in Offsets /\ zone \in Versions /\ txn.to \in Versions
  BY <1>1, SerIs, TxnIs DEF Books, Underway
<1>w. Written(h) /\ Places(h) /\ Leads(h)
  BY <1>1 DEF Story
<1>2. ~Blank(file) /\ Filled(file, Ser(h))
  <2>1. file.end.offset # 0
    BY <1>b, SizeIs DEF Offsets
  <2> QED BY <1>b, <2>1, KeepsIs
<1>3. file.begin.offset \in Nat /\ b \in Nat /\ file.begin.offset <= b /\ b \in file.begin.offset .. b
  BY <1>2, <1>b, FilledIs
<1>4. h[b] = txn.to
  BY <1>1, <1>w DEF Leads
<1>5. Written(h)'
  <2>1. Ahead'
    BY <1>1, <1>2, <1>3 DEF Ahead
  <2>2. Tells(file, file, h) /\ Growing(h, file.begin.offset, b)
    BY <1>w DEF Written
  <2>3. \A f, g \in {file', synced'} : Tells(f, g, h)
    BY <1>1, <2>2
  <2> QED BY <1>1, <2>1, <2>2, <2>3 DEF Written
<1>6. Places(h)'
  <2>1. Place(zone, h)'
    BY <1>1, <1>2, <1>3, <1>4 DEF Place
  <2>2. master.n \in Nat /\ zone.n \in Nat /\ txn.to.n \in Nat /\ zone.n < txn.to.n /\ master.n <= zone.n
    BY <1>b, <1>w DEF Versioned, Versions, Leads, Places
  <2>3. master.n <= txn.to.n
    BY <2>2
  <2>4. Place(master, h)' /\ Near(h[b])'
    BY <1>1, <1>2, <1>w DEF Places, Place, Near
  <2>5. ASSUME dumping # None PROVE Dumped(h)'
    <3>1. dumping.version.n \in Nat /\ dumping.version.n <= zone.n
      BY <1>w, <2>5 DEF Versioned, Dumps, Versions, Places, Dumped
    <3>2. dumping.version.n <= txn.to.n
      BY <2>2, <3>1
    <3> QED BY <1>1, <1>w, <2>5, <3>2 DEF Places, Dumped, Place
  <2> QED BY <1>1, <1>w, <2>1, <2>3, <2>4, <2>5 DEF Places
<1>7. Acked(h)'
  BY <1>1, <1>2, <1>4 DEF Acked
<1> QED BY <1>1, <1>5, <1>6, <1>7 DEF Story

\* The header: the transaction is in the journal.  What the master file has is less
\* than half the range away, so it is not dropped.
LEMMA StoryHeader ==
    ASSUME NEW h \in [Offsets1 -> Versions], Books(Ser(h)), Story(h), Versioned, commit_header,
           NEW w, w = [k \in Offsets1 |-> IF k = txn.pos0.offset THEN zone
                                          ELSE IF k = txn.pos1.offset THEN txn.to ELSE h[k]]
    PROVE  w \in [Offsets1 -> Versions] /\ Books(Ser(w))' /\ Story(w)'
<1> DEFINE p == txn.pos0.offset
           a == file.begin.offset
           c == file'.begin.offset
           s == Ser(h)
           t == Ser(w)
<1>1. /\ txn # None /\ txn.at = "header" /\ synced' = synced
      /\ file' = [file EXCEPT !.begin = IF JOURNAL_EMPTY(txn) THEN txn.pos0 ELSE txn.begin, !.end = txn.pos1]
      /\ txn' = [txn EXCEPT !.at = "index", !.index = index_add(@, txn.pos0)]
      /\ UNCHANGED <<zone, master, acked, dumping, compact>>
  BY DEF commit_header
<1>s. s \in [Offsets1 -> Serials] /\ \A k \in Offsets1 : s[k] = SerialOf(h[k])
  BY SerIs
<1>b. /\ file \in Files /\ synced \in Files /\ zone \in Versions /\ Keeps(file, s) /\ Keeps(synced, s) /\ Underway(s)
      /\ Books(s)
  BY <1>1 DEF Books
<1>u. /\ txn \in Txns /\ txn.to \in Versions
      /\ p = IF txn.end.offset = 0 THEN 1 ELSE txn.end.offset
      /\ p \in Offsets /\ txn.pos1.offset = p + 1 /\ Ready(s)
  BY <1>1, <1>b, TxnIs DEF Underway
<1>r. /\ txn.end = file.end /\ synced.end = file.end /\ synced.begin = file.begin /\ synced.index = file.index
      /\ txn.end.offset = 0 => Blank(txn)
      /\ txn.end.offset # 0 =>
            /\ txn.pos0.serial = txn.end.serial
            /\ txn.begin.offset \in file.begin.offset .. file.end.offset
            /\ \A k \in txn.begin.offset .. txn.end.offset : DNS_SERIAL_GT(txn.pos1.serial, s[k])
            /\ \A k \in file.begin.offset .. txn.begin.offset - 1 : ~DNS_SERIAL_GT(txn.pos1.serial, s[k])
  BY <1>u DEF Ready
<1>w. Written(h) /\ Places(h) /\ Acked(h) /\ Leads(h)
  BY <1>1 DEF Story
<1>l. /\ zone.n < txn.to.n /\ txn.to.n - zone.n < Half /\ zone.line \subseteq txn.to.line /\ Near(txn.to)
      /\ txn.pos0.serial = SerialOf(zone) /\ txn.pos1.serial = SerialOf(txn.to)
      /\ file.body[p] = NewBody /\ synced.body[p] = NewBody
  BY <1>1, <1>w DEF Leads
<1>2. /\ p \in Nat /\ p >= 1 /\ p \in Offsets1 /\ p + 1 \in Offsets1 /\ p + 1 # p
  BY <1>u, SizeIs DEF Offsets, Offsets1
<1>3. w \in [Offsets1 -> Versions]
  BY <1>b, <1>u
<1>4. /\ w[p] = zone /\ w[p + 1] = txn.to
      /\ \A k \in Offsets1 : k # p /\ k # p + 1 => w[k] = h[k]
  BY <1>2, <1>u
<1>5. Books(t)'
  <2>1. t \in [Offsets1 -> Serials] /\ \A k \in Offsets1 : t[k] = SerialOf(w[k])
    BY <1>3, SerIs
  <2>2. \A k \in Offsets1 : t[k] = IF k = txn.pos0.offset THEN txn.pos0.serial
                                   ELSE IF k = txn.pos1.offset THEN txn.pos1.serial ELSE s[k]
    BY <1>4, <1>l, <1>s, <1>u, <2>1
  <2> HIDE DEF t, s
  <2>3. Books(s) /\ commit_header
    BY <1>b
  <2> QED BY <1>s, <2>1, <2>2, <2>3, BooksHeader
<1>6. /\ file'.body = file.body /\ file'.end = txn.pos1 /\ file'.end.offset = p + 1
      /\ file'.begin = (IF JOURNAL_EMPTY(txn) THEN txn.pos0 ELSE txn.begin) /\ ~Blank(file')
  <2>1. /\ file'.body = file.body /\ file'.end = txn.pos1 /\ file'.end.offset = p + 1
        /\ file'.begin = (IF JOURNAL_EMPTY(txn) THEN txn.pos0 ELSE txn.begin)
    BY <1>1, <1>b, <1>u DEF Files
  <2>2. file'.end.offset # 0
    BY <1>2, <2>1
  <2> QED BY <2>1, <2>2, BlankIs
<1>7. /\ txn'.at = "index" /\ txn'.to = txn.to /\ txn'.pos0 = txn.pos0 /\ txn'.pos1 = txn.pos1
  BY <1>1, <1>u DEF Txns
<1>8. Near(txn.to)' /\ txn.to.n \in Nat /\ zone.n \in Nat /\ master.n \in Nat
  BY <1>1, <1>7, <1>b, <1>l, <1>u DEF Near, Versioned, Versions
<1>9. Leads(w)'
  <2> HIDE DEF Half, p
  <2> QED BY <1>1, <1>4, <1>6, <1>7, <1>8, <1>l DEF Leads
<1> HIDE DEF p, s, t
<1>10. CASE Blank(file)
  <2>1. /\ Blank(synced) /\ Span(synced) = {} /\ p = 1 /\ JOURNAL_EMPTY(txn) /\ zone = master
        /\ synced.begin.offset = 0 /\ synced.end.offset = 0
    <3>1. file.end.offset = 0 /\ Blank(synced)
      BY <1>10, <1>r, BlankIs, SameHeader
    <3>2. JOURNAL_EMPTY(txn) /\ p = 1
      BY <1>r, <1>u, <3>1, BlankIs
    <3>3. zone = master
      BY <1>10, <1>w DEF Places, Place
    <3> QED BY <3>1, <3>2, <3>3, BlankIs
  <2>2. c = 1 /\ file'.end.offset = 2 /\ Span(file') = {1}
    <3>1. c = 1 /\ file'.end.offset = 2
      BY <1>6, <2>1 DEF p
    <3>2. (1 .. 2 - 1) = {1}
      OBVIOUS
    <3> QED BY <3>1, <3>2 DEF Span
  <2>3. w[1] = zone /\ w[2] = txn.to
    BY <1>4, <2>1
  <2>4. Written(w)'
    <3>1. Growing(w, 1, 2)
      <4>1. \A k, l \in 1 .. 2 : k < l => k = 1 /\ l = 2
        OBVIOUS
      <4> QED BY <1>l, <2>3, <4>1 DEF Growing
    <3>2. Growing(w, 0, 0)
      BY DEF Growing
    <3>3. Tells(file', file', w) /\ Tells(file', synced', w)
      BY <1>1, <1>6, <1>l, <2>1, <2>2, <2>3 DEF Tells, NewBody
    <3>4. Tells(synced', file', w) /\ Tells(synced', synced', w)
      BY <1>1, <2>1 DEF Tells
    <3>5. Ahead'
      BY <1>1, <2>1, <2>2 DEF Ahead
    <3>6. \A f, g \in {file', synced'} : Tells(f, g, w)
      BY <3>3, <3>4
    <3> QED BY <1>1, <2>1, <2>2, <3>1, <3>2, <3>5, <3>6 DEF Written
  <2>5. Places(w)'
    <3>1. \A v : v = master => \E k \in 1 .. 2 : v = w[k]
      BY <2>1, <2>3
    <3>2. Place(master, w)' /\ Place(zone, w)'
      BY <1>1, <1>6, <2>1, <2>2, <3>1 DEF Place
    <3>3. ASSUME dumping # None PROVE Dumped(w)'
      <4>1. Dumped(h) /\ dumping.version = master
        BY <1>10, <1>w, <3>3 DEF Places, Dumped, Place
      <4> QED BY <1>1, <1>6, <2>2, <3>1, <4>1 DEF Dumped, Place
    <3>4. Near(w[2])'
      BY <1>7, <1>8, <2>3
    <3> QED BY <1>1, <1>w, <2>2, <3>2, <3>3, <3>4 DEF Places
  <2>6. Acked(w)'
    BY <1>1, <1>w, <2>1 DEF Acked
  <2> QED BY <1>3, <1>5, <1>9, <2>4, <2>5, <2>6 DEF Story, t
<1>11. CASE ~Blank(file)
  <2>1. Filled(file, s) /\ txn.end.offset # 0 /\ p = file.end.offset /\ Span(synced) = Span(file) /\ ~Blank(synced)
    BY <1>11, <1>b, <1>r, <1>s, <1>u, KeepsIs, SameHeader DEF p
  <2>0. /\ a \in Nat /\ a < p /\ 1 <= a /\ a \in Offsets1 /\ (a .. p) \subseteq Offsets1 /\ a <= p
        /\ Span(file) = a .. p - 1 /\ Rising(s, a, p) /\ p \in a .. p /\ file.end.serial = s[p]
    BY <1>b, <1>s, <2>1, FilledIs
  <2>g. Growing(h, a, p) /\ \A f, g \in {file, synced} : Tells(f, g, h)
    BY <1>w, <2>1 DEF Written
  <2>2. zone = h[p]
    <3>1. PICK j \in a .. p : zone = h[j]
      BY <1>11, <1>w, <2>1 DEF Places, Place
    <3>2. s[j] = s[p]
      BY <1>l, <1>r, <1>s, <2>0, <2>1, <3>1
    <3>3. j = p
      BY <1>s, <2>0, <3>2, RisingDist
    <3> QED BY <3>1, <3>3
  <2>3. \A k \in a .. p : w[k] = h[k]
    <3>1. \A k \in a .. p : k \in Offsets1 /\ k # p + 1
      BY <1>2, <2>0
    <3> QED BY <1>4, <2>2, <3>1
  <2>4. c = txn.begin.offset
    <3>1. CASE JOURNAL_EMPTY(txn)
      BY <1>6, <1>r, <2>1, <3>1 DEF JOURNAL_EMPTY, p
    <3>2. CASE ~JOURNAL_EMPTY(txn)
      BY <1>6, <3>2
    <3> QED BY <3>1, <3>2
  <2>5. /\ c \in a .. p /\ \A k \in c .. p : DNS_SERIAL_GT(SerialOf(txn.to), s[k])
        /\ \A k \in a .. c - 1 : ~DNS_SERIAL_GT(SerialOf(txn.to), s[k])
    BY <1>l, <1>r, <2>1, <2>4
  <2> HIDE DEF a, c
  <2>6. c \in Nat /\ c <= p /\ a <= c /\ Span(file') = c .. p
    <3>1. c \in Nat /\ c <= p /\ a <= c
      BY <1>2, <2>0, <2>5
    <3>2. (p + 1) - 1 = p
      BY <1>2
    <3> QED BY <1>6, <3>1, <3>2 DEF Span, c
  \* Whatever is placed between the master file and the zone stays addressable.
  <2>7. ASSUME NEW v \in Versions, NEW k \in a .. p, v = h[k], master.n <= v.n, v.n <= zone.n
        PROVE  k \in c .. p
    <3>1. v.n \in Nat /\ txn.to.n - master.n < Half /\ Half \in Nat /\ SerialMod = 2 * Half
      <4>1. master # None
        BY JournalAssumption DEF Versioned
      <4> QED BY <1>l, <4>1, HalfNat DEF Near, Versions
    <3> HIDE DEF Half
    <3>2. v.n <= txn.to.n /\ txn.to.n - v.n < SerialMod /\ v.n < txn.to.n /\ txn.to.n - v.n < Half
      BY <1>8, <1>l, <2>7, <3>1
    <3>3. DNS_SERIAL_GT(SerialOf(txn.to), SerialOf(v))
      BY <1>u, <3>2, DistN
    <3>4. s[k] = SerialOf(v)
      BY <1>s, <2>0, <2>7
    <3>5. ~(k \in a .. c - 1)
      BY <2>5, <3>3, <3>4
    <3> QED BY <1>2, <2>0, <2>6, <3>5
  <2>8. Growing(w, c, p + 1)
    <3> SUFFICES ASSUME NEW k \in c .. p + 1, NEW l \in c .. p + 1, k < l
                 PROVE  w[k].line \subseteq w[l].line /\ w[k].n < w[l].n /\ w[l].n - w[k].n < Half
      BY DEF Growing
    <3>1. k \in c .. p /\ k \in a .. p /\ w[k] = h[k]
      <4>1. k \in c .. p /\ k \in a .. p
        BY <1>2, <2>0, <2>6
      <4> QED BY <2>3, <4>1
    <3>2. CASE l = p + 1
      <4>1. k <= p
        BY <1>2, <3>1
      <4>2. h[k] \in Versions /\ h[k].n \in Nat /\ h[k].n <= h[p].n /\ h[k].line \subseteq h[p].line /\ h[p].n - h[k].n < Half
        BY <1>2, <2>0, <2>g, <3>1, <4>1, GrowingIs
      <4>3. Half \in Nat /\ SerialMod = 2 * Half
        BY HalfNat
      <4>4. DNS_SERIAL_GT(SerialOf(txn.to), SerialOf(h[k]))
        BY <1>s, <2>0, <2>5, <3>1
      <4> HIDE DEF Half
      <4>5. h[k].n <= txn.to.n /\ txn.to.n - h[k].n < SerialMod /\ h[k].n < txn.to.n
        BY <1>8, <1>l, <2>2, <4>2, <4>3
      <4>6. txn.to.n - h[k].n < Half
        BY <1>u, <4>2, <4>4, <4>5, DistN
      <4>7. h[k].line \subseteq txn.to.line
        BY <1>l, <2>2, <4>2
      <4> QED BY <1>4, <3>1, <3>2, <4>5, <4>6, <4>7
    <3>3. CASE l # p + 1
      <4>1. l \in a .. p
        BY <1>2, <2>0, <2>6, <3>3
      <4> QED BY <2>3, <2>g, <3>1, <4>1 DEF Growing
    <3> QED BY <3>2, <3>3
  <2>9. Written(w)'
    <3>1. \A k \in a .. p - 1 : k \in a .. p /\ k + 1 \in a .. p
      BY <1>2, <2>0
    <3>2. \A k \in a .. p - 1 : /\ file'.body[k] = [from |-> w[k], to |-> w[k + 1]]
                                /\ synced'.body[k] = [from |-> w[k], to |-> w[k + 1]]
      <4> SUFFICES ASSUME NEW k \in a .. p - 1
                   PROVE  /\ file'.body[k] = [from |-> w[k], to |-> w[k + 1]]
                          /\ synced'.body[k] = [from |-> w[k], to |-> w[k + 1]]
        OBVIOUS
      <4>1. file.body[k] = [from |-> h[k], to |-> h[k + 1]] /\ synced.body[k] = [from |-> h[k], to |-> h[k + 1]]
        BY <2>0, <2>g DEF Tells
      <4>2. w[k] = h[k] /\ w[k + 1] = h[k + 1]
        BY <2>3, <3>1
      <4> QED BY <1>1, <1>6, <4>1, <4>2
    <3>3. file'.body[p] = [from |-> w[p], to |-> w[p + 1]] /\ synced'.body[p] = [from |-> w[p], to |-> w[p + 1]]
      BY <1>1, <1>4, <1>6, <1>l DEF NewBody, p
    <3>4. \A k \in c .. p : k = p \/ k \in a .. p - 1
      BY <1>2, <2>0, <2>6
    <3>5. Tells(file', file', w) /\ Tells(file', synced', w)
      BY <2>6, <3>2, <3>3, <3>4 DEF Tells
    <3>6. Tells(synced', file', w) /\ Tells(synced', synced', w)
      BY <1>1, <2>0, <2>1, <3>2 DEF Tells
    <3>7. \A f, g \in {file', synced'} : Tells(f, g, w)
      BY <3>5, <3>6
    <3>8. synced'.begin.offset = a /\ synced'.end.offset = p /\ ~Blank(synced')
      BY <1>1, <1>r, <2>1 DEF a
    <3>9. Ahead'
      BY <1>6, <2>6, <3>8 DEF Ahead, c
    <3>10. Growing(w, a, p)
      BY <2>3, <2>g DEF Growing
    <3> QED BY <1>6, <2>8, <3>7, <3>8, <3>9, <3>10 DEF Written, c
  <2>10. ASSUME NEW v \in Versions, Place(v, h), master.n <= v.n, v.n <= zone.n
         PROVE  \E k \in c .. p + 1 : v = w[k]
    <3>1. PICK k \in a .. p : v = h[k]
      BY <1>11, <2>1, <2>10 DEF Place, a
    <3>2. k \in c .. p
      BY <2>7, <2>10, <3>1
    <3>3. k \in c .. p + 1
      BY <1>2, <2>6, <3>2
    <3> QED BY <2>3, <3>1, <3>3
  <2>11. Places(w)'
    <3>1. /\ master \in Versions /\ master.n <= master.n /\ zone.n <= zone.n /\ master.n <= zone.n
          /\ Place(master, h) /\ Place(zone, h)
      BY <1>8, <1>w DEF Versioned, Places
    <3>2. (\E k \in c .. p + 1 : master = w[k]) /\ (\E k \in c .. p + 1 : zone = w[k])
      BY <1>b, <2>10, <3>1
    <3>3. Place(master, w)' /\ Place(zone, w)'
      BY <1>1, <1>6, <3>2 DEF Place, c
    <3>4. ASSUME dumping # None PROVE Dumped(w)'
      <4>1. Dumped(h) /\ dumping.version \in Versions
        BY <1>w, <3>4 DEF Places, Versioned, Dumps
      <4>2. \E k \in c .. p + 1 : dumping.version = w[k]
        BY <2>10, <4>1 DEF Dumped
      <4> QED BY <1>1, <1>6, <4>1, <4>2 DEF Dumped, Place, c
    <3>5. Near(w[file.end.offset])'
      <4>1. w[file'.end.offset] = txn'.to
        BY <1>4, <1>6, <1>7
      <4> QED BY <1>8, <4>1 DEF Near
    <3> QED BY <1>1, <1>w, <3>1, <3>3, <3>4, <3>5 DEF Places
  <2>12. Acked(w)'
    <3>1. w[synced.end.offset] = h[synced.end.offset]
      BY <1>r, <2>0, <2>1, <2>3
    <3> QED BY <1>1, <1>w, <2>1, <3>1 DEF Acked
  <2> QED BY <1>3, <1>5, <1>9, <2>9, <2>11, <2>12 DEF Story, t
<1> QED BY <1>10, <1>11

\* An empty journal, and nothing but the master file counts.
LEMMA StoryBlank ==
    ASSUME NEW h, Blank(file'), Blank(synced'), txn' = None, zone' = master', master' \in Versions,
           acked'.line \subseteq master'.line,
           dumping' # None => dumping'.version = master',
           compact' # None => compact'.n <= master'.n
    PROVE  Story(h)'
<1>1. /\ Span(file') = {} /\ Span(synced') = {} /\ file'.begin.offset = 0 /\ file'.end.offset = 0
      /\ synced'.begin.offset = 0 /\ synced'.end.offset = 0
  BY BlankIs
<1>2. \A f, g \in {file', synced'} : Tells(f, g, h)
  BY <1>1 DEF Tells
<1>3. Growing(h, 0, 0)
  BY DEF Growing
<1>4. Written(h)'
  BY <1>1, <1>2, <1>3 DEF Written, Ahead
<1>5. master'.n <= master'.n
  BY DEF Versions
<1>6. Places(h)'
  BY <1>5 DEF Places, Place, Dumped
<1>7. Acked(h)'
  BY DEF Acked
<1> QED BY <1>4, <1>6, <1>7 DEF Story

\* A journal that is all on the disk.
LEMMA StoryFilled ==
    ASSUME NEW h, ~Blank(file'), synced' = file', file'.begin.offset \in Nat, file'.end.offset \in Nat,
           file'.begin.offset <= file'.end.offset, txn' = None,
           Tells(file', file', h), Growing(h, file'.begin.offset, file'.end.offset), Places(h)', Acked(h)'
    PROVE  Story(h)'
<1>1. \A f, g \in {file', synced'} : Tells(f, g, h)
  OBVIOUS
<1>2. Ahead'
  BY DEF Ahead
<1>3. Written(h)'
  BY <1>1, <1>2 DEF Written
<1> QED BY <1>3 DEF Story

\* Compaction for the serial number of a version that is not beyond the master file's
\* and not half the range behind keeps all that follows the master file.
LEMMA CompactKeeps ==
    ASSUME NEW h \in [Offsets1 -> Versions], Books(Ser(h)), Written(h), Near(h[file.end.offset]),
           NEW v \in Versions, NEW m \in file.begin.offset .. file.end.offset, v.n <= h[m].n,
           h[file.end.offset].n - v.n < Half, NeedsCompaction(file, SerialOf(v))
    PROVE  compact_from(file, SerialOf(v)) <= m
<1> DEFINE a == file.begin.offset
           b == file.end.offset
           s == Ser(h)
           serial == SerialOf(v)
<1>s. s \in [Offsets1 -> Serials] /\ \A k \in Offsets1 : s[k] = SerialOf(h[k])
  BY SerIs
<1>1. file \in Files /\ Filled(file, s) /\ Agrees(file, file, s) /\ Complete(file)
  <2>1. file \in Files /\ Keeps(file, s) /\ Agrees(file, file, s) /\ Complete(file) /\ ~JOURNAL_EMPTY(file)
    BY DEF Books, NeedsCompaction
  <2> QED BY <1>s, <2>1, KeepsIs
<1> HIDE DEF s
<1>2. /\ a \in Nat /\ b \in Nat /\ a < b /\ (a .. b) \subseteq Offsets1 /\ a \in a .. b /\ b \in a .. b
      /\ file.begin.serial = s[a]
  BY <1>1, <1>s, FilledIs
<1>3. serial \in Serials /\ ~DNS_SERIAL_GT(s[a], serial)
  BY <1>2, SerialOfIs DEF NeedsCompaction
<1>4. Dist(s[a], serial) <= Dist(s[a], s[m]) => compact_from(file, serial) <= m
  BY <1>1, <1>2, <1>3, <1>s, CompactFromIs
<1>5. Growing(h, a, b) /\ m \in a .. b /\ v.n <= h[m].n /\ h[b].n - v.n < Half
  BY DEF Written
<1> HIDE DEF a, b, serial
<1>6. a <= m /\ m <= b /\ a <= b
  BY <1>2, <1>5
<1>7. /\ h[a] \in Versions /\ h[m] \in Versions /\ h[a].n \in Nat /\ h[m].n \in Nat /\ h[b].n \in Nat
      /\ h[a].n <= h[m].n /\ h[m].n <= h[b].n /\ h[m].n - h[a].n < Half
  BY <1>2, <1>5, <1>6, GrowingIs
<1>8. v.n \in Nat /\ Half \in Nat /\ SerialMod = 2 * Half
  BY HalfNat DEF Versions
<1> HIDE DEF Half
<1>9. h[a].n <= v.n
  <2> SUFFICES ASSUME v.n < h[a].n PROVE FALSE
    BY <1>7, <1>8
  <2>1. v.n <= h[a].n /\ h[a].n - v.n < SerialMod /\ h[a].n - v.n < Half
    BY <1>5, <1>7, <1>8
  <2>2. DNS_SERIAL_GT(SerialOf(h[a]), SerialOf(v))
    BY <1>7, <2>1, DistN
  <2> QED BY <1>2, <1>3, <1>s, <2>2 DEF serial
<1>10. v.n - h[a].n < SerialMod /\ h[m].n - h[a].n < SerialMod /\ v.n - h[a].n <= h[m].n - h[a].n
  BY <1>5, <1>7, <1>8, <1>9
<1>11. Dist(SerialOf(h[a]), SerialOf(v)) = v.n - h[a].n
  BY <1>7, <1>9, <1>10, DistN
<1>12. Dist(SerialOf(h[a]), SerialOf(h[m])) = h[m].n - h[a].n
  BY <1>7, <1>10, DistN
<1>13. s[a] = SerialOf(h[a]) /\ s[m] = SerialOf(h[m])
  BY <1>2, <1>5, <1>s
<1>14. Dist(s[a], serial) <= Dist(s[a], s[m])
  BY <1>10, <1>11, <1>12, <1>13 DEF serial
<1> QED BY <1>4, <1>14 DEF serial

LEMMA StoryCompact ==
    ASSUME NEW h \in [Offsets1 -> Versions], Books(Ser(h)), Story(h), Versioned, jnw = None,
           NEW v \in Versions, v.n <= master.n, ~Blank(file) => h[file.end.offset].n - v.n < Half,
           dns_journal_compact(SerialOf(v)), txn = None, txn' = None, UNCHANGED <<zone, master, acked>>,
           dumping' \in {dumping, None}, compact' \in {compact, None}
    PROVE  \E w \in [Offsets1 -> Versions] : Books(Ser(w))' /\ Story(w)'
<1> DEFINE a == file.begin.offset
           b == file.end.offset
           s == Ser(h)
<1>s. s \in [Offsets1 -> Serials] /\ \A k \in Offsets1 : s[k] = SerialOf(h[k])
  BY SerIs
<1>b. /\ file \in Files /\ synced \in Files /\ zone \in Versions /\ Keeps(file, s) /\ Books(s)
      /\ Agrees(file, file, s) /\ Complete(file)
  BY DEF Books
<1>w. Written(h) /\ Places(h) /\ Acked(h)
  BY DEF Story
<1>e. Ser(h) = s
  OBVIOUS
<1> HIDE DEF s
<1>1. PICK serial : serial = SerialOf(v)
  OBVIOUS
<1>2. serial \in Serials /\ dns_journal_compact(serial)
  BY <1>1, SerialOfIs
<1>3. PICK from : from = compact_from(file, serial)
  OBVIOUS
<1>4. PICK n : n = file.end.offset - from
  OBVIOUS
<1>5. PICK t : t = Cut(s, from, n)
  OBVIOUS
<1>6. /\ file' = file => Books(s)'
      /\ file' # file => /\ t \in [Offsets1 -> Serials] /\ Books(t)' /\ NeedsCompaction(file, serial)
                         /\ file' = Compacted(file, serial) /\ synced' = file'
  BY <1>2, <1>3, <1>4, <1>5, <1>b, <1>s, BooksCompact
<1>7. CASE file' = file
  <2>1. synced' \in {synced, file}
    BY <1>2, <1>7 DEF dns_journal_compact
  <2>2. Written(h)' /\ Places(h)' /\ Acked(h)'
    <3>1. CASE synced' = file
      BY <1>7, <1>w, <3>1, StorySync
    <3>2. CASE synced' = synced
      <4>1. Written(h)' /\ Acked(h)'
        BY <1>7, <1>w, <3>2 DEF Written, Ahead, Acked
      <4>2. \A u : Near(u) => Near(u)'
        BY DEF Near
      <4>3. Place(master, h)' /\ Place(zone, h)'
        BY <1>7, <1>w DEF Places, Place
      <4>4. ASSUME dumping' # None PROVE Dumped(h)'
        BY <1>7, <1>w, <4>4 DEF Places, Dumped, Place
      <4>5. Places(h)'
        BY <1>7, <1>w, <4>2, <4>3, <4>4 DEF Places, Near
      <4> QED BY <4>1, <4>5
    <3> QED BY <2>1, <3>1, <3>2
  <2>3. Story(h)'
    BY <2>2 DEF Story
  <2>4. Books(Ser(h))'
    BY <1>6, <1>7, <1>e
  <2> QED BY <2>3, <2>4
<1>8. CASE file' # file
  <2>1. ~Blank(file) /\ Filled(file, s) /\ NeedsCompaction(file, serial)
    BY <1>6, <1>8, <1>b, <1>s, KeepsIs DEF NeedsCompaction
  <2>2. /\ a \in Nat /\ b \in Nat /\ a < b /\ (a .. b) \subseteq Offsets1 /\ a \in a .. b /\ b \in a .. b
        /\ Span(file) = a .. b - 1 /\ b <= MaxVersions + 1 /\ MaxVersions \in Nat /\ 1 <= a
    BY <1>b, <1>s, <2>1, FilledIs, SizeIs
  <2>3. Growing(h, a, b) /\ Tells(file, file, h)
    BY <1>w DEF Written
  <2>4. PICK m \in a .. b : master = h[m]
    BY <1>w, <2>1 DEF Places, Place
  <2>5. from \in a .. b /\ from <= m
    <3>1. from \in a .. b
      BY <1>2, <1>3, <1>b, <1>s, <2>1, CompactFromIs
    <3>2. Near(h[file.end.offset])
      BY <1>w, <2>1 DEF Places
    <3>3. NeedsCompaction(file, SerialOf(v)) /\ v.n <= h[m].n /\ h[file.end.offset].n - v.n < Half
      BY <1>1, <2>1, <2>4
    <3>4. compact_from(file, SerialOf(v)) <= m
      BY <1>w, <2>4, <3>2, <3>3, CompactKeeps
    <3> QED BY <1>1, <1>3, <3>1, <3>4
  <2>6. /\ n \in Nat
        /\ n = 0 => file' = NewFile
        /\ n # 0 => /\ file' \in Files /\ Filled(file', t)
                    /\ file'.begin.offset = 1 /\ file'.end.offset = n + 1
                    /\ \A k \in 1 .. n : file'.body[k] = file.body[k + from - 1]
    BY <1>2, <1>3, <1>4, <1>5, <1>6, <1>8, <1>b, <1>s, <2>1, CompactedIs
  <2>i. n = b - from
    BY <1>4
  <2> HIDE DEF a, b
  <2>7. from \in Nat /\ m \in Nat /\ a <= from /\ from <= b /\ n = b - from /\ from + n = b /\ m <= b /\ 1 <= from
    BY <2>2, <2>4, <2>5, <2>i
  <2>8. PICK w : w = Cut(h, from, n)
    OBVIOUS
  <2>9. \A k \in Offsets1 : k <= n + 1 => k + from - 1 \in a .. b /\ k + from - 1 \in Offsets1
    <3> SUFFICES ASSUME NEW k \in Offsets1, k <= n + 1 PROVE k + from - 1 \in a .. b
      BY <2>2
    <3>1. k \in Int /\ 1 <= k
      BY <2>2 DEF Offsets1
    <3>2. a \in Int /\ b \in Int /\ from \in Int /\ n \in Int
      BY <2>2, <2>6, <2>7
    <3>3. a <= from /\ from + n = b
      BY <2>7
    <3>4. a <= k + from - 1 /\ k + from - 1 <= b /\ k + from - 1 \in Int
      BY <3>1, <3>2, <3>3
    <3> QED BY <3>2, <3>4
  <2>10. w \in [Offsets1 -> Versions]
    BY <2>8, <2>9 DEF Cut
  <2>11. Ser(w) = t
    <3>1. \A k \in Offsets1 : SerialOf(w[k]) = t[k]
      BY <1>5, <1>s, <2>8, <2>9 DEF Cut
    <3>2. t \in [Offsets1 -> Serials]
      BY <1>6, <1>8
    <3> QED BY <3>1, <3>2 DEF Ser
  <2>12. Books(Ser(w))'
    BY <1>6, <1>8, <2>11
  \* What is placed from the master file on is kept.
  <2>13. ASSUME NEW u, Place(u, h), master.n <= u.n
         PROVE  \E j \in m .. b : u = h[j]
    <3>1. PICK j \in a .. b : u = h[j]
      BY <2>1, <2>13 DEF Place, a, b
    <3>2. m <= j
      BY <2>2, <2>3, <2>4, <2>13, <3>1, GrowingIs
    <3>3. j \in m .. b
      BY <2>2, <2>7, <3>1, <3>2
    <3> QED BY <3>1, <3>3
  <2>14. /\ master.n <= master.n /\ master.n <= zone.n /\ Place(master, h) /\ Place(zone, h) /\ master \in Versions
    BY <1>w DEF Places, Versioned, Versions
  <2>15. CASE n = 0
    <3>1. Blank(file') /\ Blank(synced')
      BY <1>6, <1>8, <2>6, <2>15, NewFileIs
    <3>2. \A j \in m .. b : j = m
      BY <2>2, <2>5, <2>6, <2>7, <2>15
    <3>3. zone = master
      BY <2>4, <2>13, <2>14, <3>2
    <3>4. ASSUME dumping # None PROVE dumping.version = master
      <4>1. Place(dumping.version, h) /\ master.n <= dumping.version.n
        BY <1>w, <3>4 DEF Places, Dumped
      <4> QED BY <2>4, <2>13, <3>2, <4>1
    <3>5. acked.line \subseteq master.line
      BY <1>w, <3>3 DEF Acked
    <3>6. compact # None => compact.n <= master.n
      BY <1>w DEF Places
    <3>7. Story(w)'
      BY <2>14, <3>1, <3>3, <3>4, <3>5, <3>6, StoryBlank
    <3> QED BY <2>10, <2>12, <3>7
  <2>16. CASE n # 0
    <3>0. n \in Nat /\ n >= 1 /\ n + 1 \in Nat
      BY <2>6, <2>16
    <3>1. /\ file'.begin.offset = 1 /\ file'.end.offset = n + 1 /\ synced' = file'
          /\ \A k \in 1 .. n : file'.body[k] = file.body[k + from - 1]
      BY <1>6, <1>8, <2>6, <2>16
    <3>2. ~Blank(file') /\ Span(file') = 1 .. n
      <4>1. (n + 1) - 1 = n /\ 1 # 0
        BY <3>0
      <4> QED BY <3>1, <4>1, BlankIs DEF Span
    <3>3. \A k \in 1 .. n + 1 : k \in Offsets1 /\ k <= n + 1
      BY <2>2, <2>7, <3>0 DEF Offsets1
    <3>4. \A k \in 1 .. n + 1 : w[k] = h[k + from - 1] /\ k + from - 1 \in a .. b
      BY <2>8, <2>9, <3>3 DEF Cut
    <3>5. w[n + 1] = h[b]
      <4>1. n + 1 \in 1 .. n + 1 /\ (n + 1) + from - 1 = b
        BY <2>7, <3>0
      <4> QED BY <3>4, <4>1
    <3>6. Tells(file', file', w)
      <4> SUFFICES ASSUME NEW k \in 1 .. n PROVE file'.body[k] = [from |-> w[k], to |-> w[k + 1]]
        BY <3>2 DEF Tells
      <4>1. k \in 1 .. n + 1 /\ k + 1 \in 1 .. n + 1 /\ k + from - 1 \in a .. b - 1
            /\ (k + 1) + from - 1 = (k + from - 1) + 1
        BY <2>2, <2>7, <3>0
      <4>2. file.body[k + from - 1] = [from |-> h[k + from - 1], to |-> h[(k + from - 1) + 1]]
        BY <2>2, <2>3, <4>1 DEF Tells
      <4>3. w[k] = h[k + from - 1] /\ w[k + 1] = h[(k + from - 1) + 1]
        BY <3>4, <4>1
      <4> QED BY <3>1, <4>2, <4>3
    <3>7. Growing(w, 1, n + 1)
      <4> SUFFICES ASSUME NEW k \in 1 .. n + 1, NEW l \in 1 .. n + 1, k < l
                   PROVE  w[k].line \subseteq w[l].line /\ w[k].n < w[l].n /\ w[l].n - w[k].n < Half
        BY DEF Growing
      <4>1. k + from - 1 < l + from - 1
        BY <2>7, <3>0
      <4> QED BY <2>3, <3>4, <4>1 DEF Growing
    <3>8. \A u : (\E j \in m .. b : u = h[j]) => \E k \in 1 .. n + 1 : u = w[k]
      <4> SUFFICES ASSUME NEW j \in m .. b PROVE \E k \in 1 .. n + 1 : h[j] = w[k]
        OBVIOUS
      <4>1. j - from + 1 \in 1 .. n + 1 /\ (j - from + 1) + from - 1 = j
        BY <2>2, <2>5, <2>7, <3>0
      <4> QED BY <3>4, <4>1
    <3>9. Place(master, w)' /\ Place(zone, w)'
      BY <2>13, <2>14, <3>1, <3>2, <3>8 DEF Place
    <3>10. ASSUME dumping' # None PROVE Dumped(w)'
      <4>1. Dumped(h) /\ dumping' = dumping
        BY <1>w, <3>10 DEF Places
      <4>2. \E k \in 1 .. n + 1 : dumping.version = w[k]
        BY <2>13, <3>8, <4>1 DEF Dumped
      <4> QED BY <3>1, <3>2, <4>1, <4>2 DEF Dumped, Place
    <3>11. Near(w[file.end.offset])'
      <4>1. Near(h[b])
        BY <1>w, <2>1 DEF Places, b
      <4>2. w[file'.end.offset] = h[b]
        BY <3>1, <3>5
      <4> QED BY <4>1, <4>2 DEF Near, b
    <3>12. Places(w)'
      BY <1>w, <3>9, <3>10, <3>11 DEF Places
    <3>13. Acked(w)'
      <4>1. zone.line \subseteq h[b].line
        BY <1>w, <2>1, PlaceIs DEF Places, b
      <4>2. acked.line \subseteq zone.line
        BY <1>w DEF Acked
      <4>3. acked.line \subseteq w[n + 1].line
        BY <3>5, <4>1, <4>2
      <4> QED BY <3>1, <3>2, <4>2, <4>3 DEF Acked
    <3>14. 1 <= n + 1
      BY <3>0
    <3>15. Story(w)'
      BY <3>0, <3>1, <3>2, <3>6, <3>7, <3>12, <3>13, <3>14, StoryFilled
    <3> QED BY <2>10, <2>12, <3>15
  <2> QED BY <2>15, <2>16
<1> QED BY <1>7, <1>8

\* The file stays; the transaction goes on or is given up.
LEMMA StoryStays ==
    ASSUME NEW h, Story(h), UNCHANGED <<file, synced, zone, acked>>, txn' \in {txn, None},
           Places(h)', Acked(h)', txn' # None => Near(txn.to)'
    PROVE  Story(h)'
<1>1. Written(h)'
  BY DEF Story, Written, Ahead
<1>2. ASSUME txn' # None PROVE Leads(h)'
  <2>1. txn' = txn /\ Leads(h)
    BY <1>2 DEF Story
  <2> QED BY <1>2, <2>1 DEF Leads, NewBody
<1> QED BY <1>1, <1>2 DEF Story

LEMMA StoryFail ==
    ASSUME NEW h, Story(h), UNCHANGED <<file, synced, zone, acked, master, compact, dumping>>, txn' \in {txn, None}
    PROVE  Story(h)'
<1>1. Places(h) /\ Acked(h) /\ (txn # None => Near(txn.to))
  BY DEF Story, Leads
<1>2. \A v : Near(v) => Near(v)'
  BY DEF Near
<1>3. Places(h)'
  BY <1>1, <1>2 DEF Places, Place, Dumped, Near
<1>4. Acked(h)'
  BY <1>1 DEF Acked
<1>5. txn' # None => Near(txn.to)'
  BY <1>1 DEF Near
<1> QED BY <1>3, <1>4, <1>5, StoryStays

LEMMA StoryDump ==
    ASSUME NEW h \in [Offsets1 -> Versions], Books(Ser(h)), Story(h), Versioned, zone_dump
    PROVE  Story(h)'
<1>1. /\ dumping' = [version |-> zone, renamed |-> FALSE]
      /\ UNCHANGED <<file, synced, zone, acked, master, compact, txn>>
  BY DEF zone_dump
<1>2. Places(h) /\ Acked(h) /\ (txn # None => Near(txn.to)) /\ zone \in Versions
  BY DEF Story, Leads, Books
<1>3. Dumped(h)'
  <2>1. Place(zone, h)' /\ master.n <= zone.n /\ zone.n <= zone.n
    BY <1>1, <1>2 DEF Places, Place, Versions
  <2>2. dumping'.version = zone /\ dumping'.renamed = FALSE
    BY <1>1
  <2>3. Place(dumping.version, h)'
    BY <1>1, <2>1, <2>2 DEF Place
  <2> QED BY <1>1, <2>1, <2>2, <2>3 DEF Dumped
<1>4. Places(h)'
  BY <1>1, <1>2, <1>3 DEF Places, Place, Near
<1>5. Acked(h)' /\ (txn' # None => Near(txn.to)')
  BY <1>1, <1>2 DEF Acked, Near
<1> QED BY <1>1, <1>4, <1>5, StoryStays

LEMMA StoryRename ==
    ASSUME NEW h \in [Offsets1 -> Versions], Books(Ser(h)), Story(h), Versioned, closeandrename
    PROVE  Story(h)'
<1>1. /\ dumping # None /\ master' = dumping.version /\ dumping' = [dumping EXCEPT !.renamed = TRUE]
      /\ UNCHANGED <<file, synced, zone, acked, compact, txn>>
  BY DEF closeandrename
<1>2. /\ Places(h) /\ Acked(h) /\ (txn # None => Near(txn.to)) /\ Written(h) /\ Dumped(h)
  BY <1>1 DEF Story, Leads, Places
<1>3. PICK v : v = dumping.version
  OBVIOUS
<1>4. /\ v \in Versions /\ master \in Versions /\ (compact # None => compact \in Versions) /\ master # None
      /\ dumping'.version = v /\ dumping'.renamed = TRUE /\ master' = v
  BY <1>1, <1>3, JournalAssumption DEF Versioned, Dumps
<1>5. Place(v, h) /\ master.n <= v.n /\ v.n <= zone.n
  BY <1>2, <1>3 DEF Dumped
<1>6. v.n \in Nat /\ master.n \in Nat /\ (compact # None => compact.n \in Nat) /\ Half \in Nat
  BY <1>4, HalfIs DEF Versions
<1> HIDE DEF Half
<1>7. Blank(file) => v = master /\ zone = master
  BY <1>2, <1>5 DEF Places, Place
<1>8. ASSUME NEW u, u.n \in Nat, Near(u)
      PROVE  \A x \in {v, compact} \ {None} : u.n - x.n < Half
  <2>1. u.n - master.n < Half
    BY <1>4, <1>8 DEF Near
  <2>2. u.n - v.n < Half
    BY <1>5, <1>6, <1>8, <2>1
  <2> QED BY <1>8, <2>2 DEF Near
<1>9. Place(master, h)' /\ Place(zone, h)' /\ Place(dumping.version, h)'
  BY <1>1, <1>2, <1>4, <1>5, <1>7 DEF Place, Places
<1>10. Dumped(h)'
  BY <1>1, <1>4, <1>5, <1>6, <1>9 DEF Dumped
<1>11. ASSUME ~Blank(file) PROVE Near(h[file.end.offset])'
  <2>1. Near(h[file.end.offset])
    BY <1>2, <1>11 DEF Places
  <2>2. Filled(file, Ser(h)) /\ file \in Files
    BY <1>11 DEF Books, Keeps
  <2>3. file.end.offset \in Offsets1
    BY <2>2, SerIs, FilledIs
  <2>4. h[file.end.offset].n \in Nat
    BY <2>3 DEF Versions
  <2> QED BY <1>1, <1>4, <1>8, <2>1, <2>4 DEF Near
<1>12. compact # None => compact.n <= v.n
  BY <1>2, <1>5, <1>6 DEF Places
<1>13. Places(h)'
  BY <1>1, <1>4, <1>5, <1>9, <1>10, <1>11, <1>12 DEF Places
<1>14. master.line \subseteq v.line
  <2>1. CASE Blank(file)
    BY <1>7, <2>1
  <2>2. CASE ~Blank(file)
    BY <1>2, <1>5, <2>2, PlaceIs DEF Places
  <2> QED BY <2>1, <2>2
<1>15. Acked(h)'
  BY <1>1, <1>2, <1>4, <1>14 DEF Acked
<1>16. ASSUME txn # None PROVE Near(txn.to)'
  <2>1. txn \in Txns
    BY <1>16 DEF Books, Underway
  <2>2. txn.to.n \in Nat
    BY <2>1 DEF Txns, Versions
  <2> QED BY <1>1, <1>2, <1>4, <1>8, <1>16, <2>2 DEF Near
<1> QED BY <1>1, <1>13, <1>15, <1>16, StoryStays

\* Compaction is put off, or there is none.
LEMMA StoryNote ==
    ASSUME NEW h \in [Offsets1 -> Versions], Story(h), Versioned, dumping # None, dumping' = None,
           UNCHANGED <<file, synced, zone, acked, master, txn>>,
           compact' = compact \/ (dumping.renamed /\ compact' = dumping.version)
    PROVE  Story(h)'
<1>1. /\ Places(h) /\ Acked(h) /\ (txn # None => Near(txn.to)) /\ Dumped(h) /\ master \in Versions
  BY DEF Story, Leads, Places, Versioned
<1>2. compact' \in {compact, master} /\ master.n <= master.n
  BY <1>1 DEF Dumped, Versions
<1>3. \A v : Near(v) => Near(v)'
  BY <1>2 DEF Near
<1>4. Places(h)'
  <2>1. compact' # None => compact'.n <= master.n
    BY <1>1, <1>2 DEF Places
  <2>2. ~Blank(file) => Near(h[file.end.offset])'
    BY <1>1, <1>2 DEF Places, Near
  <2> QED BY <1>1, <2>1, <2>2 DEF Places, Place
<1>5. Acked(h)' /\ (txn' # None => Near(txn.to)')
  BY <1>1, <1>2 DEF Acked, Near
<1> QED BY <1>4, <1>5, StoryStays

\* A restart from an empty journal.
LEMMA RestartBlank ==
    ASSUME NEW h, NEW f, NEW g, Restarts(f, g), Blank(f), Blank(g), roll_forward(f, master) = master,
           master \in Versions, acked.line \subseteq master.line
    PROVE  Story(h)'
<1>1. /\ zone' = master /\ txn' = None /\ dumping' = None /\ compact' = None /\ master' = master /\ acked' = acked
      /\ file' \in {NewFile, f} /\ synced' \in {NewFile, g}
  BY DEF Restarts
<1>2. Blank(file') /\ Blank(synced')
  BY <1>1, NewFileIs
<1> QED BY <1>1, <1>2, StoryBlank

\* A restart from a journal that leads to its last version: it is not removed.
LEMMA RestartFilled ==
    ASSUME NEW h \in [Offsets1 -> Versions], NEW f \in Files, NEW g, Restarts(f, g), Filled(f, Ser(h)),
           roll_forward(f, master) = h[f.end.offset]
    PROVE  /\ file' = f /\ synced' = g /\ zone' = h[f.end.offset] /\ zone' \in Versions
           /\ f.end.offset \in f.begin.offset .. f.end.offset /\ f.end.offset \in Offsets1
<1>1. /\ f.end.offset \in Offsets1 /\ f.end.serial = Ser(h)[f.end.offset]
      /\ f.end.offset \in f.begin.offset .. f.end.offset
  BY SerIs, FilledIs DEF Filled
<1>2. zone' = h[f.end.offset] /\ zone' \in Versions
  BY <1>1 DEF Restarts
<1>3. f.end.serial = SerialOf(zone')
  BY <1>1, <1>2, SerIs
<1> QED BY <1>1, <1>2, <1>3 DEF Restarts

LEMMA StoryCrash ==
    ASSUME NEW h \in [Offsets1 -> Versions], Books(Ser(h)), Story(h), Versioned, crash
    PROVE  Story(h)'
<1> DEFINE a == file.begin.offset
           b == file.end.offset
           r == roll_forward(file, master)
<1>1. Restarts(file, synced) /\ master \in Versions
  BY DEF crash, Versioned
<1>2. /\ r \in Versions /\ acked.line \subseteq r.line
      /\ Blank(file) => r = master
      /\ ~Blank(file) => r = h[b]
  BY <1>1, CrashIs
<1>w. Written(h) /\ Places(h) /\ Acked(h) /\ Ahead
  BY DEF Story, Written
<1>b. file \in Files /\ Keeps(file, Ser(h)) /\ Ser(h) \in [Offsets1 -> Serials]
  BY SerIs DEF Books
<1>3. CASE Blank(file)
  <2>1. Blank(synced)
    BY <1>3, <1>b, <1>w, AheadIs
  <2> QED BY <1>1, <1>2, <1>3, <2>1, RestartBlank
<1>4. CASE ~Blank(file)
  <2>1. Filled(file, Ser(h))
    BY <1>4, <1>b DEF Keeps
  <2>2. file' = file /\ synced' = synced /\ zone' = h[b] /\ b \in a .. b
    BY <1>1, <1>2, <1>4, <1>b, <2>1, RestartFilled
  <2>3. txn' = None /\ dumping' = None /\ compact' = None /\ master' = master /\ acked' = acked
    BY <1>1 DEF Restarts
  <2>4. master.n <= h[b].n /\ Place(master, h) /\ Near(h[b])
    BY <1>4, <1>w, PlaceIs DEF Places
  <2>5. Written(h)'
    BY <1>w, <2>2 DEF Written, Ahead
  <2>6. Place(master, h)' /\ Place(zone, h)' /\ Near(h[file.end.offset])'
    BY <1>4, <2>2, <2>3, <2>4 DEF Place, Near
  <2>7. Places(h)'
    BY <2>2, <2>3, <2>4, <2>6 DEF Places
  <2>8. Acked(h)'
    BY <1>2, <1>4, <1>w, <2>2, <2>3 DEF Acked
  <2> QED BY <2>3, <2>5, <2>7, <2>8 DEF Story
<1> QED BY <1>3, <1>4

LEMMA StoryPower ==
    ASSUME NEW h \in [Offsets1 -> Versions], Books(Ser(h)), Story(h), Versioned, NEW S,
           Restarts(Torn(S), Torn(S)), zone' # None
    PROVE  Story(h)'
<1>1. PICK F : F = Torn(S)
  OBVIOUS
<1> DEFINE a == F.begin.offset
           b == F.end.offset
           r == roll_forward(F, master)
<1>m. master \in Versions /\ Restarts(F, F) /\ r # None /\ txn' = None
  BY <1>1 DEF Versioned, Restarts
<1>2. /\ acked.line \subseteq r.line /\ r \in Versions
      /\ Blank(F) => r = master
      /\ ~Blank(F) => /\ r = h[b] /\ \E k \in a .. b : master = h[k]
                      /\ ~Blank(file) /\ h[b].n <= h[file.end.offset].n
                      /\ Growing(h, a, b)
      /\ Tells(F, F, h)
  BY <1>1, <1>m, PowerIs
<1>3. F \in Files /\ Keeps(F, Ser(h)) /\ Ser(h) \in [Offsets1 -> Serials]
  BY <1>1, SerIs, TornBooks
<1>4. CASE Blank(F)
  BY <1>2, <1>4, <1>m, RestartBlank
<1>5. CASE ~Blank(F)
  <2>1. Filled(F, Ser(h))
    BY <1>3, <1>5 DEF Keeps
  <2>2. file' = F /\ synced' = F /\ zone' = h[b] /\ b \in a .. b
    BY <1>2, <1>3, <1>5, <1>m, <2>1, RestartFilled
  <2>3. txn' = None /\ dumping' = None /\ compact' = None /\ master' = master /\ acked' = acked
    BY <1>m DEF Restarts
  <2>4. a \in Nat /\ b \in Nat /\ a <= b /\ (a .. b) \subseteq Offsets1
    BY <1>3, <2>1, FilledIs
  <2>5. PICK m \in a .. b : master = h[m]
    BY <1>2, <1>5
  <2>6. master.n <= h[b].n /\ h[b].n - master.n < Half
    <3>1. m <= b
      BY <2>4
    <3> QED BY <1>2, <1>5, <2>2, <2>4, <2>5, <3>1, GrowingIs
  <2>7. Place(master, h)' /\ Place(zone, h)' /\ Near(h[file.end.offset])'
    BY <1>5, <2>2, <2>3, <2>5, <2>6 DEF Place, Near
  <2>8. Places(h)'
    BY <2>2, <2>3, <2>6, <2>7 DEF Places
  <2>9. Acked(h)'
    BY <1>2, <1>5, <2>2, <2>3 DEF Acked
  <2> QED BY <1>2, <1>5, <2>2, <2>3, <2>4, <2>8, <2>9, StoryFilled
<1> QED BY <1>4, <1>5

-----------------------------------------------------------------------------
(* A restart serves what was acknowledged *)

LEMMA InitRecovery ==
    Init => RecoveryInv
<1> SUFFICES ASSUME Init PROVE RecoveryInv
  OBVIOUS
<1>1. /\ file = NewFile /\ synced = NewFile /\ txn = None /\ dumping = None /\ compact = None
      /\ zone = master /\ acked = master
  BY DEF Init
<1>2. master \in Versions
  <2>1. PICK n \in FirstSerials : master = [line |-> {1}, n |-> n]
    BY DEF Init
  <2>2. n \in Nat
    BY JournalAssumption, HalfIs DEF Serials
  <2> QED BY <2>1, <2>2 DEF Versions
<1> DEFINE h == [k \in Offsets1 |-> master]
<1>3. h \in [Offsets1 -> Versions]
  BY <1>2
<1> HIDE DEF h
<1>4. /\ NewFile \in Files /\ Keeps(NewFile, Ser(h)) /\ Complete(NewFile) /\ Fresh(NewFile)
      /\ Blank(NewFile) /\ Span(NewFile) = {} /\ NewFile.begin.offset = 0 /\ NewFile.end.offset = 0
  BY NewFileIs, BlankIs DEF Keeps
<1>5. Books(Ser(h))
  <2>1. \A f, g \in {file, synced} : Agrees(f, g, Ser(h))
    BY <1>1, <1>4 DEF Agrees
  <2> QED BY <1>1, <1>2, <1>4, <2>1 DEF Books
<1>6. Written(h)
  <2>1. \A f, g \in {file, synced} : Tells(f, g, h)
    BY <1>1, <1>4 DEF Tells
  <2>2. Growing(h, 0, 0)
    BY DEF Growing
  <2> QED BY <1>1, <1>4, <2>1, <2>2 DEF Written, Ahead
<1>7. Places(h) /\ Acked(h)
  <2>1. master.n <= master.n
    BY <1>2 DEF Versions
  <2> QED BY <1>1, <1>4, <2>1 DEF Places, Place, Acked
<1>8. Story(h)
  BY <1>1, <1>6, <1>7 DEF Story
<1> QED BY <1>3, <1>5, <1>8 DEF RecoveryInv

\* One step of the journal or of the zone.
LEMMA NextStory ==
    ASSUME FindInv, NEW h \in [Offsets1 -> Versions], Books(Ser(h)), Story(h), Versioned, [Next]_vars,
           zone' # None, excused = {}, excused' = {}
    PROVE  \E w \in [Offsets1 -> Versions] : Books(Ser(w))' /\ Story(w)'
<1>0. made \in Nat /\ jnw = None /\ Ser(h) \in [Offsets1 -> Serials] /\ master \in Versions /\ master # None
  BY SerIs, JournalAssumption DEF FindInv, Versioned
<1>k. ASSUME Books(Ser(h))', Story(h)'
      PROVE  \E w \in [Offsets1 -> Versions] : Books(Ser(w))' /\ Story(w)'
  BY <1>k
<1>1. ASSUME NEW step \in Steps, dns_journal_writediff(step) PROVE Books(Ser(h))' /\ Story(h)'
  BY <1>0, <1>1, BooksWritediff, StoryWritediff
<1>2. ASSUME commit_data PROVE Books(Ser(h))' /\ Story(h)'
  BY <1>0, <1>2, BooksData, StoryData
<1>3. ASSUME commit_xhdr PROVE Books(Ser(h))' /\ Story(h)'
  BY <1>0, <1>3, BooksXhdr, StoryXhdr
<1>4. ASSUME commit_header PROVE \E w \in [Offsets1 -> Versions] : Books(Ser(w))' /\ Story(w)'
  <2>1. PICK w : w = [k \in Offsets1 |-> IF k = txn.pos0.offset THEN zone
                                         ELSE IF k = txn.pos1.offset THEN txn.to ELSE h[k]]
    OBVIOUS
  <2>2. w \in [Offsets1 -> Versions] /\ Books(Ser(w))' /\ Story(w)'
    BY <1>4, <2>1, StoryHeader
  <2> QED BY <2>2
<1>5. ASSUME commit_index PROVE Books(Ser(h))' /\ Story(h)'
  BY <1>0, <1>5, BooksIndex, StoryIndex
<1>6. ASSUME commit_done PROVE Books(Ser(h))' /\ Story(h)'
  BY <1>0, <1>6, BooksDone, StoryDone
<1>7. ASSUME fail PROVE Books(Ser(h))' /\ Story(h)'
  <2>1. /\ UNCHANGED <<file, synced, zone, acked, master, compact, dumping>> /\ txn' \in {txn, None}
    BY <1>7 DEF fail
  <2> QED BY <1>0, <1>7, <2>1, BooksFail, StoryFail
<1>8. ASSUME zone_dump \/ closeandrename PROVE Books(Ser(h))' /\ Story(h)'
  <2>1. UNCHANGED <<file, synced, zone, txn>>
    BY <1>8 DEF zone_dump, closeandrename
  <2>2. Books(Ser(h))'
    <3>1. PICK s : s = Ser(h)
      OBVIOUS
    <3>2. Books(s)'
      BY <2>1, <3>1 DEF Books, Underway, Ready
    <3> QED BY <3>1, <3>2
  <2> QED BY <1>8, <2>2, StoryDump, StoryRename
<1>9. ~Blank(file) => \A v \in {master, compact} \ {None} : h[file.end.offset].n - v.n < Half
  BY DEF Story, Places, Near
<1>10. ASSUME dump_done PROVE \E w \in [Offsets1 -> Versions] : Books(Ser(w))' /\ Story(w)'
  <2>1. /\ dumping # None /\ dumping' = None /\ UNCHANGED <<txn, zone, master, acked>>
    BY <1>10 DEF dump_done
  <2>2. dumping.renamed => dumping.version = master
    BY <2>1 DEF Story, Places, Dumped
  <2>3. CASE dumping.renamed /\ txn = None /\ dns_journal_compact(SerialOf(dumping.version)) /\ compact' = compact
    <3>1. dns_journal_compact(SerialOf(master)) /\ master.n <= master.n
      BY <1>0, <2>2, <2>3 DEF Versions
    <3>2. ~Blank(file) => h[file.end.offset].n - master.n < Half
      BY <1>0, <1>9
    <3> QED BY <1>0, <2>1, <2>3, <3>1, <3>2, StoryCompact
  <2>4. CASE /\ UNCHANGED <<file, synced, jnw>>
             /\ compact' = compact \/ (dumping.renamed /\ compact' = dumping.version)
    <3>1. Story(h)'
      BY <2>1, <2>4, StoryNote
    <3>2. Books(Ser(h))'
      <4>1. PICK s : s = Ser(h)
        OBVIOUS
      <4>2. Books(s)'
        BY <2>1, <2>4, <4>1 DEF Books, Underway, Ready
      <4> QED BY <4>1, <4>2
    <3> QED BY <3>1, <3>2
  <2> QED BY <1>10, <2>3, <2>4 DEF dump_done
<1>11. ASSUME zone_xfrdone PROVE \E w \in [Offsets1 -> Versions] : Books(Ser(w))' /\ Story(w)'
  <2>1. /\ compact # None /\ txn = None /\ dns_journal_compact(SerialOf(compact)) /\ compact' = None
        /\ UNCHANGED <<txn, zone, master, dumping, acked>>
    BY <1>11 DEF zone_xfrdone
  <2>2. compact \in Versions /\ compact.n <= master.n
    BY <2>1 DEF Versioned, Story, Places
  <2>3. ~Blank(file) => h[file.end.offset].n - compact.n < Half
    BY <1>9, <2>1
  <2> QED BY <1>0, <2>1, <2>2, <2>3, StoryCompact
<1>12. ASSUME crash PROVE Books(Ser(h))' /\ Story(h)'
  <2>1. Restarts(file, synced)
    BY <1>12 DEF crash
  <2>2. /\ file \in Files /\ synced \in Files /\ Keeps(file, Ser(h)) /\ Keeps(synced, Ser(h))
        /\ \A x, y \in {file, synced} : Agrees(x, y, Ser(h))
        /\ Fresh(file) => Fresh(synced)
    BY DEF Books
  <2>3. Books(Ser(h))'
    BY <1>0, <2>1, <2>2, BooksRestart
  <2> QED BY <1>12, <2>3, StoryCrash
<1>13. ASSUME power_loss PROVE Books(Ser(h))' /\ Story(h)'
  <2>1. PICK S \in SUBSET Dirty : Restarts(Torn(S), Torn(S))
    BY <1>13 DEF power_loss
  <2>2. Keeps(Torn(S), Ser(h)) /\ Agrees(Torn(S), Torn(S), Ser(h)) /\ Torn(S) \in Files
    BY <1>0, TornBooks
  <2>3. Books(Ser(h))'
    BY <1>0, <2>1, <2>2, BooksRestart
  <2> QED BY <2>1, <2>3, StoryPower
<1>14. ASSUME UNCHANGED vars PROVE Books(Ser(h))' /\ Story(h)'
  <2>1. UNCHANGED <<file, synced, zone, acked, master, compact, dumping, txn>>
    BY <1>14 DEF vars
  <2>2. Books(Ser(h))'
    <3>1. PICK s : s = Ser(h)
      OBVIOUS
    <3>2. Books(s)'
      BY <2>1, <3>1 DEF Books, Underway, Ready
    <3> QED BY <3>1, <3>2
  <2> QED BY <2>1, <2>2, StoryFail
<1> QED BY <1>k, <1>1, <1>2, <1>3, <1>4, <1>5, <1>6, <1>7, <1>8, <1>10, <1>11, <1>12, <1>13, <1>14 DEF Next

LEMMA NextRecovery ==
    ASSUME FindInv, RecoveryInv, [Next]_vars
    PROVE  RecoveryInv'
<1> SUFFICES ASSUME zone' # None, excused' = {}
             PROVE  \E w \in [Offsets1 -> Versions] : Books(Ser(w))' /\ Story(w)'
  BY DEF RecoveryInv
<1>1. excused \subseteq excused'
  BY DEF Next, vars, dns_journal_writediff, commit_data, commit_xhdr, commit_header, commit_index, commit_done,
         fail, zone_dump, closeandrename, dump_done, zone_xfrdone, crash, power_loss, Restarts
<1>2. zone # None
  <2>1. zone = None => txn = None
    BY DEF FindInv
  <2> QED BY <2>1 DEF Next, vars, dns_journal_writediff, commit_data, commit_xhdr, commit_header, commit_index,
         commit_done, fail, zone_dump, closeandrename, dump_done, zone_xfrdone, crash, power_loss
<1>3. excused = {} /\ Versioned
  BY <1>1, <1>2 DEF FindInv
<1>4. PICK h \in [Offsets1 -> Versions] : Books(Ser(h)) /\ Story(h)
  BY <1>2, <1>3 DEF RecoveryInv
<1> QED BY <1>3, <1>4, NextStory

(* A restart serves what was acknowledged.  Whenever named dies, in the      *)
(* middle of a transaction or after one that failed, before, in or after a   *)
(* dump or a compaction, dns_journal_rollforward2() on the master file gives *)
(* the version that was served or one made from it, and what it gives after  *)
(* a loss of power has every update that was acknowledged (lib/dns/          *)
(* journal.c, lib/dns/zone.c), as long as nothing has happened that the code *)
(* does not cope with ("excused"); for every size of the index, target size  *)
(* and range of serial numbers, and any number of versions.                  *)
THEOREM RecoveryIsAlwaysExact == Spec => []RecoveryIsExact
<1>1. FindInv /\ RecoveryInv => RecoveryIsExact
  <2> SUFFICES ASSUME FindInv, RecoveryInv PROVE RecoveryIsExact
    OBVIOUS
  <2>1. CASE zone # None /\ excused = {}
    <3>1. master \in Versions
      BY <2>1 DEF FindInv, Versioned
    <3>2. PICK h \in [Offsets1 -> Versions] : Books(Ser(h)) /\ Story(h)
      BY <2>1 DEF RecoveryInv
    <3> QED BY <3>1, <3>2, StoryRecovers
  <2>2. CASE ~(zone # None /\ excused = {})
    BY <2>2 DEF RecoveryIsExact
  <2> QED BY <2>1, <2>2
<1>2. FindInv /\ RecoveryInv /\ [Next]_vars => FindInv' /\ RecoveryInv'
  BY NextFind, NextRecovery
<1>3. Init => FindInv /\ RecoveryInv
  BY InitFind, InitRecovery
<1> QED BY <1>1, <1>2, <1>3, PTL DEF Spec
=============================================================================
