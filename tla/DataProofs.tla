----------------------------- MODULE DataProofs -----------------------------
(***************************************************************************)
(* Facts about the data the models are made of: numbers, finite sets and   *)
(* lists, as the proofs of several components use them, and the heap of    *)
(* HeapOps, of any size and over any set of elements: float_up() and       *)
(* sink_down() settle an element, and so insert, delete, increased and     *)
(* decreased keep HEAPCONDITION, lose and double no element, and tell each *)
(* one where it is.                                                        *)
(***************************************************************************)
EXTENDS Integers, EventList, HeapOps, FiniteSetTheorems, SequenceTheorems, TLAPS

-----------------------------------------------------------------------------
(* Numbers, finite sets and lists *)


(* A nonempty set of naturals has a least element. *)
LEMMA Least ==
    ASSUME NEW T \in SUBSET Nat, T # {}
    PROVE  \E x \in T : \A y \in T : x <= y
<1> DEFINE R == OpToRel(<, Nat)
<1>1. IsWellFoundedOn(R, Nat)
  BY NatLessThanWellFounded
<1>2. R = {ss \in Nat \X Nat : ss[1] < ss[2]}
  BY DEF OpToRel
<1> HIDE DEF R
<1>3. PICK x \in T : \A y \in T : ~(<<y, x>> \in R)
  BY <1>1, WFMin
<1>4. \A y \in T : ~(y < x)
  BY <1>2, <1>3
<1> QED BY <1>4

(* The remainder of a number below twice the modulus. *)
LEMMA ModIs ==
    ASSUME NEW W \in Nat, W > 0, NEW x \in 0 .. 2 * W - 1
    PROVE  x % W = IF x < W THEN x ELSE x - W
  OBVIOUS

(* Induction up to n, for the membership in a set. *)
LEMMA UpTo ==
    ASSUME NEW n \in Nat, NEW P, 0 \in P, \A i \in 0 .. n - 1 : i \in P => i + 1 \in P
    PROVE  0 .. n \subseteq P
<1> SUFFICES ASSUME (0 .. n) \ P # {} PROVE FALSE
  OBVIOUS
<1> DEFINE T == (0 .. n) \ P
<1>0. T \in SUBSET Nat /\ T # {}
  OBVIOUS
<1> HIDE DEF T
<1>1. PICK x \in T : \A y \in T : x <= y
  BY <1>0, Least
<1> USE DEF T
<1>2. x # 0 /\ x - 1 \in 0 .. n - 1
  BY <1>1
<1>3. x - 1 \in P
  BY <1>1, <1>2
<1>4. (x - 1) + 1 = x
  BY <1>1
<1> QED BY <1>1, <1>2, <1>3, <1>4

(* What is appended to a list is in it. *)
LEMMA AppendRange ==
    ASSUME NEW S, NEW s \in Seq(S), NEW e \in S
    PROVE  \A x : x \in Range(Append(s, e)) <=> x \in Range(s) \/ x = e
<1>1. /\ Len(s) \in Nat /\ DOMAIN s = 1 .. Len(s)
      /\ DOMAIN Append(s, e) = 1 .. Len(s) + 1
      /\ Append(s, e)[Len(s) + 1] = e
      /\ \A j \in 1 .. Len(s) : Append(s, e)[j] = s[j]
  OBVIOUS
<1>2. \A x : x \in Range(Append(s, e)) <=> \E j \in 1 .. Len(s) + 1 : Append(s, e)[j] = x
  BY <1>1 DEF Range
<1>3. \A x : x \in Range(s) <=> \E j \in 1 .. Len(s) : s[j] = x
  BY <1>1 DEF Range
<1> HIDE DEF Range
<1> QED BY <1>1, <1>2, <1>3

(* The head and the rest of a list. *)
LEMMA HeadRange ==
    ASSUME NEW S, NEW s \in Seq(S), s # <<>>
    PROVE  /\ Head(s) \in S /\ Head(s) \in Range(s) /\ Tail(s) \in Seq(S)
           /\ \A x : x \in Range(Tail(s)) => x \in Range(s)
<1>1. /\ Len(s) \in Nat /\ Len(s) > 0 /\ DOMAIN s = 1 .. Len(s)
      /\ Tail(s) \in Seq(S) /\ DOMAIN Tail(s) = 1 .. Len(s) - 1
      /\ Head(s) = s[1] /\ \A j \in 1 .. Len(s) - 1 : Tail(s)[j] = s[j + 1]
      /\ s[1] \in S
  OBVIOUS
<1>2. \A x : x \in Range(Tail(s)) <=> \E j \in 1 .. Len(s) - 1 : Tail(s)[j] = x
  BY <1>1 DEF Range
<1>3. \A x : x \in Range(s) <=> \E j \in 1 .. Len(s) : s[j] = x
  BY <1>1 DEF Range
<1> QED BY <1>1, <1>2, <1>3

(* What dequeue_events() leaves of a list is a list of the same elements: by *)
(* induction there is a function that satisfies the recursion of Without.    *)
LEMMA WithoutIs ==
    ASSUME NEW S, NEW q \in Seq(S), NEW gone
    PROVE  /\ Without(q, gone) \in Seq(S)
           /\ \A x : x \in Range(Without(q, gone)) <=> x \in Range(q) /\ x \notin gone
<1> DEFINE n == Len(q)
           Step(s, i) == IF q[i] \in gone THEN s ELSE Append(s, q[i])
           Def(f, i) == IF i = 0 THEN <<>> ELSE IF q[i] \in gone THEN f[i - 1] ELSE Append(f[i - 1], q[i])
           kept == CHOOSE f : f = [i \in 0 .. n |-> Def(f, i)]
           P == {m \in 0 .. n : \E f \in [0 .. m -> Seq(S)] : \A i \in 0 .. m : f[i] = Def(f, i)}
<1>0. n \in Nat /\ \A i \in 1 .. n : q[i] \in S
  OBVIOUS
<1>1. 0 \in P
  <2> DEFINE f == [i \in 0 .. 0 |-> <<>>]
  <2>1. f \in [0 .. 0 -> Seq(S)] /\ \A i \in 0 .. 0 : f[i] = Def(f, i)
    OBVIOUS
  <2>2. 0 \in 0 .. n
    BY <1>0
  <2> HIDE DEF f, Def
  <2> QED BY <2>1, <2>2
<1>2. ASSUME NEW m \in 0 .. n - 1, m \in P PROVE m + 1 \in P
  <2>1. PICK f \in [0 .. m -> Seq(S)] : \A i \in 0 .. m : f[i] = Def(f, i)
    BY <1>2
  <2> DEFINE g == [i \in 0 .. m + 1 |-> IF i <= m THEN f[i] ELSE Step(f[m], m + 1)]
  <2>2. m + 1 \in 1 .. n
    BY <1>0
  <2>3. Step(f[m], m + 1) \in Seq(S)
    BY <1>0, <2>1, <2>2
  <2>4. g \in [0 .. m + 1 -> Seq(S)]
    BY <1>0, <2>1, <2>3
  <2>5. \A i \in 0 .. m : g[i] = f[i]
    BY <1>0
  <2>6. g[m + 1] = Step(f[m], m + 1)
    BY <1>0
  <2> HIDE DEF g
  <2>7. \A i \in 0 .. m : g[i] = Def(g, i)
    <3> SUFFICES ASSUME NEW i \in 0 .. m PROVE g[i] = Def(g, i)
      OBVIOUS
    <3>1. CASE i = 0
      BY <2>1, <2>5, <3>1
    <3>2. CASE i # 0
      <4>1. i - 1 \in 0 .. m
        BY <1>0, <3>2
      <4> QED BY <2>1, <2>5, <3>2, <4>1
    <3> QED BY <3>1, <3>2
  <2>8. g[m + 1] = Def(g, m + 1)
    BY <1>0, <2>5, <2>6
  <2> HIDE DEF Def
  <2>9. \A i \in 0 .. m + 1 : i \in 0 .. m \/ i = m + 1
    BY <1>0
  <2>10. \A i \in 0 .. m + 1 : g[i] = Def(g, i)
    BY <2>7, <2>8, <2>9
  <2>11. m + 1 \in 0 .. n
    BY <1>0
  <2> QED BY <2>4, <2>10, <2>11
<1>3. n \in P
  <2> HIDE DEF P
  <2>1. 0 .. n \subseteq P
    BY <1>0, <1>1, <1>2, UpTo
  <2> QED BY <1>0, <2>1
<1>4. PICK f \in [0 .. n -> Seq(S)] : \A i \in 0 .. n : f[i] = Def(f, i)
  BY <1>3
<1>5. f = [i \in 0 .. n |-> Def(f, i)]
  BY <1>4
<1>6. kept = [i \in 0 .. n |-> Def(kept, i)]
  BY <1>5
<1>7. Without(q, gone) = kept[n]
  BY DEF Without
<1> HIDE DEF kept
<1> DEFINE Has(s, i) == \A x : x \in Range(s) <=> x \notin gone /\ \E j \in 1 .. i : q[j] = x
           T == {i \in 0 .. n : kept[i] \in Seq(S) /\ Has(kept[i], i)}
<1>8. 0 \in T
  <2>1. kept[0] = <<>> /\ 0 \in 0 .. n /\ <<>> \in Seq(S)
    BY <1>0, <1>6
  <2>2. Has(<<>>, 0)
    BY DEF Range
  <2> HIDE DEF Has
  <2> QED BY <2>1, <2>2
<1>9. ASSUME NEW i \in 0 .. n - 1, i \in T PROVE i + 1 \in T
  <2>1. i + 1 \in 1 .. n /\ (i + 1) - 1 = i /\ kept[i] \in Seq(S) /\ Has(kept[i], i)
    BY <1>0, <1>9
  <2>2. kept[i + 1] = Def(kept, i + 1)
    <3>1. i + 1 \in 0 .. n
      BY <1>0, <2>1
    <3> HIDE DEF Def
    <3> QED BY <1>6, <3>1
  <2>3. Def(kept, i + 1) = Step(kept[i], i + 1)
    BY <1>0, <2>1
  <2>4. Step(kept[i], i + 1) \in Seq(S)
    BY <1>0, <2>1
  <2>5. Has(Step(kept[i], i + 1), i + 1)
    <3>1. \A x : (\E j \in 1 .. i + 1 : q[j] = x) <=> (\E j \in 1 .. i : q[j] = x) \/ x = q[i + 1]
      BY <1>0
    <3>2. CASE q[i + 1] \in gone
      BY <2>1, <3>1, <3>2
    <3>3. CASE q[i + 1] \notin gone
      <4>1. \A x : x \in Range(Append(kept[i], q[i + 1])) <=> x \in Range(kept[i]) \/ x = q[i + 1]
        BY <1>0, <2>1, AppendRange
      <4> QED BY <2>1, <3>1, <3>3, <4>1
    <3> QED BY <3>2, <3>3
  <2>6. i + 1 \in 0 .. n
    BY <1>0, <2>1
  <2> HIDE DEF Def, Step, Has
  <2> QED BY <2>2, <2>3, <2>4, <2>5, <2>6
<1>10. n \in T
  <2> HIDE DEF T
  <2>1. 0 .. n \subseteq T
    BY <1>0, <1>8, <1>9, UpTo
  <2> QED BY <1>0, <2>1
<1>11. \A x : x \in Range(q) <=> \E j \in 1 .. n : q[j] = x
  BY DEF Range
<1> QED BY <1>7, <1>10, <1>11
(* Division with remainder. *)
LEMMA DivIs ==
    ASSUME NEW W \in Nat, W > 0, NEW x \in Int
    PROVE  /\ x % W \in 0 .. W - 1 /\ x \div W \in Int
           /\ x = W * (x \div W) + (x % W)
  OBVIOUS

(* A multiple of W between -W and W is 0. *)
LEMMA SmallMultiple ==
    ASSUME NEW W \in Nat, W > 0, NEW t \in Int, W * t < W, W * t > -W
    PROVE  t = 0
<1>1. CASE t >= 1
  BY <1>1
<1>2. CASE t <= -1
  BY <1>2
<1> QED BY <1>1, <1>2

(* The remainder is unique. *)
LEMMA ModUnique ==
    ASSUME NEW W \in Nat, W > 0, NEW x \in Int, NEW q \in Int, NEW r \in 0 .. W - 1,
           x = W * q + r
    PROVE  x % W = r
<1> DEFINE p == x \div W
           s == x % W
<1>1. s \in 0 .. W - 1 /\ p \in Int /\ x = W * p + s
  BY DivIs
<1> HIDE DEF p, s
<1>2. W * (p - q) = W * p - W * q
  BY <1>1
<1>3. p - q = 0
  <2>1. W * (p - q) = r - s
    BY <1>1, <1>2
  <2>2. r - s < W /\ r - s > -W
    BY <1>1
  <2> QED BY <1>1, <2>1, <2>2, SmallMultiple
<1>4. p = q
  BY <1>1, <1>3
<1> QED BY <1>1, <1>4 DEF s

(* Remainders are apart as the numbers are. *)
LEMMA ModApart ==
    ASSUME NEW W \in Nat, W > 0, NEW a \in Nat, NEW d \in 0 .. W - 1
    PROVE  (((a + d) % W) - (a % W)) % W = d
<1> DEFINE q == a \div W
           r == a % W
<1>1. r \in 0 .. W - 1 /\ q \in Int /\ a = W * q + r
  BY DivIs
<1> HIDE DEF q, r
<1>2. CASE r + d < W
  <2>1. r + d \in 0 .. W - 1 /\ a + d = W * q + (r + d)
    BY <1>1, <1>2
  <2>2. (a + d) % W = r + d
    BY <1>1, <2>1, ModUnique
  <2>3. (r + d) - r = d
    BY <1>1
  <2>4. d % W = d
    OBVIOUS
  <2> QED BY <2>2, <2>3, <2>4 DEF r
<1>3. CASE ~(r + d < W)
  <2>0. W * (q + 1) = W * q + W
    BY <1>1
  <2>1. r + d - W \in 0 .. W - 1 /\ a + d = W * (q + 1) + (r + d - W)
    BY <1>1, <1>3, <2>0
  <2>2. (a + d) % W = r + d - W
    <3>1. q + 1 \in Int /\ a + d \in Int
      BY <1>1
    <3> QED BY <2>1, <3>1, ModUnique
  <2>3. (r + d - W) - r = d - W /\ d - W \in Int /\ d - W = W * (-1) + d
    BY <1>1
  <2>4. (d - W) % W = d
    BY <2>3, ModUnique
  <2> QED BY <2>2, <2>3, <2>4 DEF r
<1> QED BY <1>2, <1>3

\* f records a loop of n rounds over values in V that starts with v.
IsLoop(f, n, V, v, step) ==
    /\ f \in [0 .. n -> V]
    /\ f[0] = v /\ \A i \in 1 .. n : f[i] = step[i][f[i - 1]]

(* Such a loop has a result. *)
LEMMA Loop ==
    ASSUME NEW n \in Nat, NEW V, NEW v \in V, NEW step \in [1 .. n -> [V -> V]]
    PROVE  \E f : IsLoop(f, n, V, v, step)
<1> DEFINE Def(f, i) == IF i = 0 THEN v ELSE step[i][f[i - 1]]
           P == {m \in 0 .. n : \E f \in [0 .. m -> V] : \A i \in 0 .. m : f[i] = Def(f, i)}
<1>1. 0 \in P
  <2> DEFINE f == [i \in 0 .. 0 |-> v]
  <2>1. f \in [0 .. 0 -> V] /\ \A i \in 0 .. 0 : f[i] = Def(f, i)
    OBVIOUS
  <2> HIDE DEF f, Def
  <2> QED BY <2>1
<1>2. ASSUME NEW m \in 0 .. n - 1, m \in P PROVE m + 1 \in P
  <2>1. PICK f \in [0 .. m -> V] : \A i \in 0 .. m : f[i] = Def(f, i)
    BY <1>2
  <2> DEFINE g == [i \in 0 .. m + 1 |-> IF i <= m THEN f[i] ELSE step[m + 1][f[m]]]
  <2>2. m + 1 \in 1 .. n /\ f[m] \in V
    OBVIOUS
  <2>3. step[m + 1][f[m]] \in V
    BY <2>2
  <2>4. g \in [0 .. m + 1 -> V]
    BY <2>3
  <2>5. \A i \in 0 .. m : g[i] = f[i]
    OBVIOUS
  <2>6. g[m + 1] = step[m + 1][f[m]]
    OBVIOUS
  <2> HIDE DEF g
  <2>7. \A i \in 0 .. m : g[i] = Def(g, i)
    <3> SUFFICES ASSUME NEW i \in 0 .. m PROVE g[i] = Def(g, i)
      OBVIOUS
    <3>1. CASE i = 0
      BY <2>1, <2>5, <3>1
    <3>2. CASE i # 0
      <4>1. i - 1 \in 0 .. m
        BY <3>2
      <4> QED BY <2>1, <2>5, <3>2, <4>1
    <3> QED BY <3>1, <3>2
  <2>8. g[m + 1] = Def(g, m + 1)
    <3>1. m + 1 # 0 /\ (m + 1) - 1 = m /\ g[m] = f[m]
      BY <2>5
    <3> QED BY <2>6, <3>1
  <2> HIDE DEF Def
  <2>9. \A i \in 0 .. m + 1 : i \in 0 .. m \/ i = m + 1
    OBVIOUS
  <2>10. \A i \in 0 .. m + 1 : g[i] = Def(g, i)
    BY <2>7, <2>8, <2>9
  <2>11. m + 1 \in 0 .. n
    OBVIOUS
  <2> QED BY <2>4, <2>10, <2>11
<1>3. n \in P
  <2> HIDE DEF P
  <2>1. 0 .. n \subseteq P
    BY <1>1, <1>2, UpTo
  <2> QED BY <2>1
<1>4. PICK f \in [0 .. n -> V] : \A i \in 0 .. n : f[i] = Def(f, i)
  BY <1>3
<1> QED BY <1>4 DEF IsLoop


-----------------------------------------------------------------------------
(* The loops of float_up() and sink_down() have one shape.  The hole at k is *)
(* filled from g[k] as long as k is in C, and with elt in the end; rk, which *)
(* falls from k to g[k], is the reason that they end.                        *)

Heaps(S, n) == [array : [1 .. n -> S], index : [S -> Nat]]

Slide(f, heap, elt, C, g, k) ==
    IF k \in C THEN set_index(f[g[k]], k, heap.array[g[k]]) ELSE set_index(heap, k, elt)

Falls(n, C, g, rk) ==
    /\ C \in SUBSET (1 .. n) /\ g \in [1 .. n -> 1 .. n] /\ rk \in [1 .. n -> 0 .. n]
    /\ \A k \in C : rk[g[k]] < rk[k]

Slides(f, n, heap, elt, C, g) == \A k \in 1 .. n : f[k] = Slide(f, heap, elt, C, g, k)

\* A slot is filled and its element told.
LEMMA SetIndexIs ==
    ASSUME NEW S, NEW n \in Nat, NEW h \in Heaps(S, n), NEW i \in 1 .. n, NEW e \in S
    PROVE  /\ set_index(h, i, e) \in Heaps(S, n)
           /\ set_index(h, i, e).array[i] = e
           /\ \A j \in (1 .. n) \ {i} : set_index(h, i, e).array[j] = h.array[j]
           /\ set_index(h, i, e).index[e] = i
           /\ \A x \in S \ {e} : set_index(h, i, e).index[x] = h.index[x]
<1>1. h.array \in [1 .. n -> S] /\ h.index \in [S -> Nat] /\ i \in Nat
  BY DEF Heaps
<1> QED BY <1>1 DEF Heaps, set_index

\* There is a function that satisfies such a recursion.
LEMMA SlideExists ==
    ASSUME NEW S, NEW n \in Nat, NEW heap \in Heaps(S, n), NEW elt \in S,
           NEW C, NEW g, NEW rk, Falls(n, C, g, rk)
    PROVE  \E f \in [1 .. n -> Heaps(S, n)] : Slides(f, n, heap, elt, C, g)
<1> USE DEF Falls
<1> DEFINE H == Heaps(S, n)
           Good(f, v) == \A k \in 1 .. n : rk[k] <= v => f[k] = Slide(f, heap, elt, C, g, k)
           P == {v \in 0 .. n : \E f \in [1 .. n -> H] : Good(f, v)}
<1>0. ASSUME NEW f \in [1 .. n -> H], NEW k \in 1 .. n
      PROVE  Slide(f, heap, elt, C, g, k) \in H
  <2>1. g[k] \in 1 .. n /\ f[g[k]] \in H /\ heap.array[g[k]] \in S
    BY DEF Heaps
  <2>2. /\ set_index(f[g[k]], k, heap.array[g[k]]) \in H
        /\ set_index(heap, k, elt) \in H
    BY <2>1, SetIndexIs
  <2> QED BY <2>2 DEF Slide
<1>1. 0 \in P
  <2> DEFINE f == [k \in 1 .. n |-> set_index(heap, k, elt)]
  <2>1. f \in [1 .. n -> H]
    BY SetIndexIs
  <2>2. \A k \in 1 .. n : rk[k] <= 0 => k \notin C
    OBVIOUS
  <2>3. Good(f, 0)
    BY <2>2 DEF Slide
  <2>4. 0 \in 0 .. n
    OBVIOUS
  <2> HIDE DEF f, Good, H
  <2> QED BY <2>1, <2>3, <2>4
<1>2. ASSUME NEW v \in 0 .. n - 1, v \in P PROVE v + 1 \in P
  <2>1. PICK f \in [1 .. n -> H] : Good(f, v)
    BY <1>2
  <2> DEFINE h == [k \in 1 .. n |-> IF rk[k] <= v THEN f[k] ELSE Slide(f, heap, elt, C, g, k)]
  <2>2. h \in [1 .. n -> H]
    BY <1>0
  <2>3. \A k \in 1 .. n : rk[k] <= v => h[k] = f[k]
    OBVIOUS
  <2>4. \A k \in 1 .. n : h[k] = Slide(f, heap, elt, C, g, k)
    BY <2>1
  <2> HIDE DEF h
  <2>5. ASSUME NEW k \in 1 .. n, rk[k] <= v + 1
        PROVE  h[k] = Slide(h, heap, elt, C, g, k)
    <3>1. CASE k \in C
      <4>1. g[k] \in 1 .. n /\ rk[g[k]] <= v
        BY <2>5, <3>1
      <4>2. h[g[k]] = f[g[k]]
        BY <2>3, <4>1
      <4> QED BY <2>4, <4>2 DEF Slide
    <3>2. CASE k \notin C
      BY <2>4, <3>2 DEF Slide
    <3> QED BY <3>1, <3>2
  <2>6. v + 1 \in 0 .. n
    OBVIOUS
  <2>7. Good(h, v + 1)
    BY <2>5
  <2> HIDE DEF Good, H
  <2> QED BY <2>2, <2>6, <2>7
<1>3. n \in P
  <2> HIDE DEF P
  <2>1. 0 .. n \subseteq P
    BY <1>1, <1>2, UpTo
  <2> QED BY <2>1
<1>4. PICK f \in [1 .. n -> H] : Good(f, n)
  BY <1>3
<1>5. \A k \in 1 .. n : f[k] = Slide(f, heap, elt, C, g, k)
  BY <1>4
<1> QED BY <1>5 DEF Slides

\* There is only one.
LEMMA SlideUnique ==
    ASSUME NEW n \in Nat, NEW heap, NEW elt,
           NEW C, NEW g, NEW rk, Falls(n, C, g, rk),
           NEW f, Slides(f, n, heap, elt, C, g), NEW h, Slides(h, n, heap, elt, C, g)
    PROVE  \A k \in 1 .. n : f[k] = h[k]
<1> USE DEF Falls, Slides
<1> DEFINE T == {rk[k] : k \in {j \in 1 .. n : f[j] # h[j]}}
<1>1. SUFFICES ASSUME T # {} PROVE FALSE
  OBVIOUS
<1>2. T \in SUBSET Nat
  OBVIOUS
<1> HIDE DEF T
<1>3. PICK x \in T : \A y \in T : x <= y
  BY <1>1, <1>2, Least
<1>4. PICK k \in 1 .. n : x = rk[k] /\ f[k] # h[k]
  BY <1>3 DEF T
<1>5. k \in C
  BY <1>4 DEF Slide
<1>6. g[k] \in 1 .. n /\ f[g[k]] # h[g[k]]
  BY <1>4, <1>5 DEF Slide
<1>7. rk[g[k]] \in T
  BY <1>6 DEF T
<1>8. rk[g[k]] \in Nat /\ rk[k] \in Nat /\ rk[g[k]] < rk[k] /\ rk[k] <= rk[g[k]]
  BY <1>3, <1>4, <1>5, <1>6, <1>7
<1> QED BY <1>8

(* What the loop does from the hole k on: the slots of D move, the last of   *)
(* them, m, gets elt.                                                        *)
Path(r, heap, elt, C, g, k, D, m) ==
    /\ k \in D /\ m \in D /\ m \notin C /\ D \ {m} \subseteq C
    /\ \A j \in D \ {m} : g[j] \in D \ {k}
    /\ \A x, y \in D \ {m} : g[x] = g[y] => x = y
    /\ \A j \in D \ {k} : \E c \in D \ {m} : g[c] = j
    /\ r.array[m] = elt
    /\ \A j \in D \ {m} : r.array[j] = heap.array[g[j]]
    /\ \A j \in (DOMAIN heap.array) \ D : r.array[j] = heap.array[j]
    /\ \A j \in D : r.index[r.array[j]] = j
    /\ \A e \in DOMAIN heap.index : (\A j \in D : r.array[j] # e) => r.index[e] = heap.index[e]

\* The elements of a heap with a hole at i are different from each other and
\* from elt.
Apart(heap, elt, i) ==
    /\ \A x, y \in (DOMAIN heap.array) \ {i} : heap.array[x] = heap.array[y] => x = y
    /\ \A x \in (DOMAIN heap.array) \ {i} : heap.array[x] # elt

\* A path grows at its start.
LEMMA PathGrows ==
    ASSUME NEW S, NEW n \in Nat, NEW heap \in Heaps(S, n), NEW elt \in S,
           NEW C \in SUBSET (1 .. n), NEW g \in [1 .. n -> 1 .. n],
           NEW i \in 1 .. n, Apart(heap, elt, i),
           NEW h \in Heaps(S, n), NEW k \in 1 .. n, k \in C, NEW D \in SUBSET (1 .. n), NEW m \in 1 .. n,
           Path(h, heap, elt, C, g, g[k], D, m),
           k \notin D, g[k] # i, \A j \in D \ {m} : g[j] # i
    PROVE  Path(set_index(h, k, heap.array[g[k]]), heap, elt, C, g, k, D \cup {k}, m)
<1>0. /\ heap.array \in [1 .. n -> S] /\ DOMAIN heap.array = 1 .. n /\ DOMAIN heap.index = S
  BY DEF Heaps
<1>1. g[k] \in 1 .. n /\ heap.array[g[k]] \in S
  BY <1>0
<1>2. PICK b \in S : b = heap.array[g[k]]
  BY <1>1
<1>3. PICK r : r = set_index(h, k, b)
  OBVIOUS
<1> DEFINE E == D \cup {k}
           a == heap.array
<1>4. /\ r.array[k] = b
      /\ \A j \in (1 .. n) \ {k} : r.array[j] = h.array[j]
      /\ r.index[b] = k
      /\ \A x \in S \ {b} : r.index[x] = h.index[x]
  <2>1. h.array \in [1 .. n -> S] /\ h.index \in [S -> Nat]
    BY DEF Heaps
  <2>2. r.array = [h.array EXCEPT ![k] = b] /\ r.index = [h.index EXCEPT ![b] = k]
    BY <1>3 DEF set_index
  <2> QED BY <2>1, <2>2
<1>5. /\ k # m /\ m \in D /\ g[k] \in D /\ m \notin C /\ D \ {m} \subseteq C
      /\ \A j \in D \ {m} : g[j] \in D \ {g[k]}
      /\ \A x, y \in D \ {m} : g[x] = g[y] => x = y
      /\ \A j \in D \ {g[k]} : \E c \in D \ {m} : g[c] = j
  BY DEF Path
<1>6. /\ h.array[m] = elt
      /\ \A j \in D \ {m} : h.array[j] = a[g[j]]
      /\ \A j \in (1 .. n) \ D : h.array[j] = a[j]
  BY <1>0 DEF Path
<1>7. /\ \A j \in D : h.array[j] \in S /\ h.index[h.array[j]] = j
      /\ \A e \in S : (\A j \in D : h.array[j] # e) => h.index[e] = heap.index[e]
  BY <1>0 DEF Path, Heaps
<1>8. \A j \in D : h.array[j] # b
  <2>1. \A j \in D \ {m} : g[j] \in (1 .. n) \ {i} /\ g[j] # g[k]
    BY <1>5
  <2>2. g[k] \in (1 .. n) \ {i}
    BY <1>1
  <2>3. /\ \A x, y \in (1 .. n) \ {i} : a[x] = a[y] => x = y
        /\ \A x \in (1 .. n) \ {i} : a[x] # elt
    BY <1>0 DEF Apart
  <2>4. \A j \in D \ {m} : a[g[j]] # b
    BY <1>2, <2>1, <2>2, <2>3
  <2>5. elt # b
    BY <1>2, <2>2, <2>3
  <2> QED BY <1>6, <2>4, <2>5
<1>9. \A j \in D : r.array[j] = h.array[j]
  BY <1>4
<1>10. \A j \in E : r.index[r.array[j]] = j
  <2>1. \A j \in D : r.index[h.array[j]] = h.index[h.array[j]]
    BY <1>4, <1>7, <1>8
  <2>2. \A j \in D : r.index[r.array[j]] = j
    BY <1>7, <1>9, <2>1
  <2>3. r.index[r.array[k]] = k
    BY <1>4
  <2> QED BY <2>2, <2>3
<1>11. ASSUME NEW e \in S, \A j \in E : r.array[j] # e
       PROVE  r.index[e] = heap.index[e]
  <2>1. e # b /\ \A j \in D : h.array[j] # e
    BY <1>4, <1>9, <1>11
  <2> QED BY <1>4, <1>7, <2>1
<1>12. /\ \A j \in E \ {m} : g[j] \in E \ {k}
       /\ \A x, y \in E \ {m} : g[x] = g[y] => x = y
       /\ \A j \in E \ {k} : \E c \in E \ {m} : g[c] = j
       /\ m \notin C /\ E \ {m} \subseteq C
  BY <1>5
<1>13. /\ r.array[m] = elt
       /\ \A j \in E \ {m} : r.array[j] = a[g[j]]
       /\ \A j \in (1 .. n) \ E : r.array[j] = a[j]
  BY <1>2, <1>4, <1>5, <1>6
<1>14. Path(r, heap, elt, C, g, k, E, m)
  BY <1>0, <1>5, <1>10, <1>11, <1>12, <1>13 DEF Path
<1> QED BY <1>2, <1>3, <1>14

\* What such a loop that starts at i leaves: a path from i to the slot of elt.
LEMMA SlidePath ==
    ASSUME NEW S, NEW n \in Nat, NEW heap \in Heaps(S, n), NEW elt \in S,
           NEW C, NEW g, NEW rk, Falls(n, C, g, rk),
           NEW f \in [1 .. n -> Heaps(S, n)], Slides(f, n, heap, elt, C, g),
           NEW i \in 1 .. n, Apart(heap, elt, i)
    PROVE  \E D \in SUBSET (1 .. n), m \in 1 .. n :
              /\ Path(f[i], heap, elt, C, g, i, D, m)
              /\ \A j \in D : rk[j] <= rk[i]
<1> USE DEF Falls, Slides
<1> DEFINE a == heap.array
           Good(k) == \E D \in SUBSET (1 .. n), m \in 1 .. n :
                         /\ Path(f[k], heap, elt, C, g, k, D, m)
                         /\ \A j \in D : rk[j] <= rk[k]
           P == {v \in 0 .. n : \A k \in 1 .. n : rk[k] <= v /\ rk[k] <= rk[i] => Good(k)}
<1>0. /\ a \in [1 .. n -> S] /\ DOMAIN a = 1 .. n /\ DOMAIN heap.index = S
  BY DEF Heaps
<1>1. ASSUME NEW k \in 1 .. n, k \notin C PROVE Good(k)
  <2>1. f[k] = set_index(heap, k, elt)
    BY <1>1 DEF Slide
  <2>2. /\ f[k].array[k] = elt
        /\ \A j \in (1 .. n) \ {k} : f[k].array[j] = a[j]
        /\ f[k].index[elt] = k
        /\ \A x \in S \ {elt} : f[k].index[x] = heap.index[x]
    BY <2>1, SetIndexIs
  <2>3. Path(f[k], heap, elt, C, g, k, {k}, k)
    BY <1>0, <1>1, <2>2 DEF Path
  <2>4. {k} \in SUBSET (1 .. n) /\ \A j \in {k} : rk[j] <= rk[k]
    OBVIOUS
  <2> QED BY <2>3, <2>4
<1>2. ASSUME NEW k \in C, rk[k] <= rk[i], Good(g[k]) PROVE Good(k)
  <2>0. k \in 1 .. n /\ g[k] \in 1 .. n /\ rk[g[k]] < rk[k] /\ g[k] # i
    BY <1>2
  <2>1. PICK D \in SUBSET (1 .. n), m \in 1 .. n :
          /\ Path(f[g[k]], heap, elt, C, g, g[k], D, m)
          /\ \A j \in D : rk[j] <= rk[g[k]]
    BY <1>2
  <2> DEFINE E == D \cup {k}
  <2>2. k \notin D
    <3>1. rk[g[k]] \in Nat /\ rk[k] \in Nat /\ ~(rk[k] <= rk[g[k]])
      BY <2>0
    <3> QED BY <2>1, <3>1
  <2>3. f[k] = set_index(f[g[k]], k, a[g[k]])
    BY <1>2, <2>0 DEF Slide
  <2>4. \A j \in D \ {m} : g[j] # i
    <3>1. \A j \in D \ {m} : j \in C /\ j \in 1 .. n
      BY <2>1 DEF Path
    <3>2. \A j \in D \ {m} : rk[g[j]] < rk[j] /\ rk[j] <= rk[g[k]]
      BY <2>1, <3>1
    <3>3. ASSUME NEW j \in D \ {m} PROVE rk[g[j]] < rk[i]
      <4>1. rk[g[j]] \in Nat /\ rk[j] \in Nat
        BY <3>1, <3>3
      <4>2. rk[g[k]] \in Nat /\ rk[k] \in Nat /\ rk[i] \in Nat
        BY <2>0
      <4>3. PICK v1, v2, v3, v4, v5 \in Nat :
              v1 = rk[g[j]] /\ v2 = rk[j] /\ v3 = rk[g[k]] /\ v4 = rk[k] /\ v5 = rk[i]
        BY <4>1, <4>2
      <4>4. v1 < v2 /\ v2 <= v3 /\ v3 < v4 /\ v4 <= v5
        BY <1>2, <2>0, <3>2, <3>3, <4>3
      <4>5. v1 < v5
        BY <4>4
      <4> QED BY <4>3, <4>5
    <3>4. \A j \in D \ {m} : g[j] \in 1 .. n
      BY <3>1
    <3> QED BY <3>3, <3>4
  <2>15. Path(f[k], heap, elt, C, g, k, E, m)
    <3>1. PICK h \in Heaps(S, n) : h = f[g[k]]
      BY <2>0
    <3>2. Path(h, heap, elt, C, g, g[k], D, m)
      BY <2>1, <3>1
    <3> HIDE DEF E, a, Good, P
    <3>3. Path(set_index(h, k, heap.array[g[k]]), heap, elt, C, g, k, D \cup {k}, m)
      BY <2>0, <2>2, <2>4, <3>2, PathGrows, ZenonT(40)
    <3> QED BY <2>3, <3>1, <3>3 DEF E, a
  <2>16. E \in SUBSET (1 .. n) /\ \A j \in E : rk[j] <= rk[k]
    <3>1. \A j \in D : rk[j] \in Nat /\ rk[j] <= rk[g[k]]
      BY <2>1
    <3>2. rk[g[k]] \in Nat /\ rk[k] \in Nat /\ rk[g[k]] < rk[k]
      BY <2>0
    <3>3. \A j \in D : rk[j] <= rk[k]
      BY <3>1, <3>2
    <3>4. rk[k] <= rk[k]
      BY <3>2
    <3> QED BY <2>0, <3>3, <3>4
  <2> HIDE DEF E, a
  <2> QED BY <2>15, <2>16
<1>3. 0 \in P
  <2>1. \A k \in 1 .. n : rk[k] <= 0 => k \notin C
    BY SMTT(30)
  <2> HIDE DEF Good
  <2> QED BY <1>1, <2>1
<1>4. ASSUME NEW v \in 0 .. n - 1, v \in P PROVE v + 1 \in P
  <2>1. ASSUME NEW k \in 1 .. n, rk[k] <= v + 1, rk[k] <= rk[i] PROVE Good(k)
    <3>1. CASE k \in C
      <4>0. /\ g[k] \in 1 .. n /\ rk[g[k]] < rk[k]
            /\ rk[g[k]] \in Nat /\ rk[k] \in Nat /\ rk[i] \in Nat /\ v \in Nat
        BY <2>1, <3>1
      <4>1. g[k] \in 1 .. n /\ rk[g[k]] < rk[k] /\ rk[g[k]] <= v /\ rk[g[k]] <= rk[i]
        <5> HIDE DEF Good, P
        <5>1. rk[k] <= v + 1 /\ rk[k] <= rk[i]
          BY <2>1
        <5>2. \A x, y, z, u \in Nat : x < y /\ y <= u + 1 /\ y <= z => x <= u /\ x <= z
          OBVIOUS
        <5> QED BY <4>0, <5>1, <5>2
      <4> HIDE DEF Good
      <4>2. Good(g[k])
        BY <1>4, <4>1
      <4> QED BY <1>2, <2>1, <3>1, <4>2
    <3> HIDE DEF Good
    <3> QED BY <1>1, <2>1, <3>1
  <2>2. v + 1 \in 0 .. n
    OBVIOUS
  <2> HIDE DEF Good
  <2> QED BY <2>1, <2>2
<1>5. Good(i)
  <2> HIDE DEF P, Good
  <2>1. 0 .. n \subseteq P
    BY <1>3, <1>4, UpTo
  <2>2. n \in P /\ rk[i] <= n /\ rk[i] <= rk[i]
    BY <2>1
  <2> QED BY <2>2 DEF P
<1> QED BY <1>5

\* The heap r has the elements of the heap with a hole at i, and elt; each of
\* them knows its place and nobody else was told anything.
AtRest(r, heap, elt, i) ==
    /\ \A j \in DOMAIN heap.array : r.index[r.array[j]] = j
    /\ \A e \in DOMAIN heap.index :
          (\E j \in DOMAIN heap.array : r.array[j] = e)
             <=> e = elt \/ \E j \in (DOMAIN heap.array) \ {i} : heap.array[j] = e
    /\ \A e \in DOMAIN heap.index :
          (e # elt /\ \A j \in (DOMAIN heap.array) \ {i} : heap.array[j] # e)
             => r.index[e] = heap.index[e]

\* The loop only moves elements.
Trail(S, n, r, heap, elt, C, g, i, D, m) ==
    /\ n \in Nat /\ heap \in Heaps(S, n) /\ elt \in S /\ r \in Heaps(S, n)
    /\ C \in SUBSET (1 .. n) /\ g \in [1 .. n -> 1 .. n]
    /\ i \in 1 .. n /\ D \in SUBSET (1 .. n) /\ m \in 1 .. n
    /\ Apart(heap, elt, i)
    /\ \A j \in (1 .. n) \ {i} : heap.index[heap.array[j]] = j
    /\ Path(r, heap, elt, C, g, i, D, m)

\* The elements of a path are shifted by one slot, and each is told where it is.
LEMMA PathSettles ==
    ASSUME NEW S, NEW n, NEW r, NEW heap, NEW elt, NEW C, NEW g, NEW i, NEW D, NEW m,
           Trail(S, n, r, heap, elt, C, g, i, D, m)
    PROVE  AtRest(r, heap, elt, i)
<1> USE DEF Trail
<1> DEFINE a == heap.array
<1>0. /\ a \in [1 .. n -> S] /\ DOMAIN a = 1 .. n /\ DOMAIN heap.index = S
      /\ r.array \in [1 .. n -> S]
  BY DEF Heaps
<1>1. /\ i \in D /\ m \in D
      /\ \A j \in D \ {m} : g[j] \in D \ {i}
      /\ \A j \in D \ {i} : \E c \in D \ {m} : g[c] = j
      /\ r.array[m] = elt
      /\ \A j \in D \ {m} : r.array[j] = a[g[j]]
      /\ \A j \in (1 .. n) \ D : r.array[j] = a[j]
  BY <1>0 DEF Path
<1>2. /\ \A j \in D : r.index[r.array[j]] = j
      /\ \A e \in S : (\A j \in D : r.array[j] # e) => r.index[e] = heap.index[e]
  BY <1>0 DEF Path
<1>3. /\ \A x, y \in (1 .. n) \ {i} : a[x] = a[y] => x = y
      /\ \A x \in (1 .. n) \ {i} : a[x] # elt
  BY <1>0 DEF Apart
<1>4. ASSUME NEW x \in (1 .. n) \ D PROVE r.index[r.array[x]] = x
  <2>1. r.array[x] = a[x] /\ x \in (1 .. n) \ {i} /\ a[x] \in S
    BY <1>0, <1>1
  <2>2. ASSUME NEW j \in D PROVE r.array[j] # a[x]
    <3>1. CASE j = m
      BY <1>1, <1>3, <2>1, <3>1
    <3>2. CASE j # m
      <4>1. g[j] \in (1 .. n) \ {i} /\ g[j] # x /\ r.array[j] = a[g[j]]
        BY <1>1, <3>2
      <4> QED BY <1>3, <2>1, <4>1
    <3> QED BY <3>1, <3>2
  <2>3. r.index[a[x]] = heap.index[a[x]]
    BY <1>2, <2>1, <2>2
  <2> QED BY <2>1, <2>3
<1>5. \A j \in 1 .. n : r.index[r.array[j]] = j
  BY <1>2, <1>4
<1>6. ASSUME NEW j \in 1 .. n
      PROVE  r.array[j] = elt \/ \E x \in (1 .. n) \ {i} : a[x] = r.array[j]
  <2>1. CASE j \notin D
    <3>1. j \in (1 .. n) \ {i} /\ a[j] = r.array[j]
      BY <1>1, <2>1
    <3> QED BY <3>1
  <2>2. CASE j \in D /\ j # m
    <3>1. g[j] \in (1 .. n) \ {i} /\ a[g[j]] = r.array[j]
      BY <1>1, <2>2
    <3> QED BY <3>1
  <2> QED BY <1>1, <2>1, <2>2
<1>7. ASSUME NEW x \in (1 .. n) \ {i}
      PROVE  \E j \in 1 .. n : r.array[j] = a[x]
  <2>1. CASE x \notin D
    BY <1>1, <2>1
  <2>2. CASE x \in D
    <3>1. PICK c \in D \ {m} : g[c] = x
      BY <1>1, <2>2
    <3> QED BY <1>1, <3>1
  <2> QED BY <2>1, <2>2
<1>8. \A e \in S : (\E j \in 1 .. n : r.array[j] = e)
                      <=> e = elt \/ \E j \in (1 .. n) \ {i} : a[j] = e
  <2> SUFFICES ASSUME NEW e \in S
               PROVE  (\E j \in 1 .. n : r.array[j] = e)
                         <=> e = elt \/ \E j \in (1 .. n) \ {i} : a[j] = e
    OBVIOUS
  <2>1. ASSUME NEW j \in 1 .. n, r.array[j] = e
        PROVE  e = elt \/ \E x \in (1 .. n) \ {i} : a[x] = e
    BY <1>6, <2>1
  <2>2. ASSUME NEW x \in (1 .. n) \ {i}, a[x] = e PROVE \E j \in 1 .. n : r.array[j] = e
    BY <1>7, <2>2
  <2>3. ASSUME e = elt PROVE \E j \in 1 .. n : r.array[j] = e
    BY <1>1, <2>3
  <2> QED BY <2>1, <2>2, <2>3
<1>9. ASSUME NEW e \in S, e # elt, \A j \in (1 .. n) \ {i} : a[j] # e
      PROVE  r.index[e] = heap.index[e]
  <2>1. \A j \in D : r.array[j] # e
    BY <1>6, <1>9
  <2> QED BY <1>2, <2>1
<1> QED BY <1>0, <1>5, <1>8, <1>9 DEF AtRest

-----------------------------------------------------------------------------
(* float_up() *)

\* A heap of n slots with a hole at i: outside the hole it is in order, the
\* parent of the hole comes before its children, the elements are different and
\* know where they are.
Holed(heap, n, i, elt, due) ==
    /\ \A j \in 2 .. n : j # i /\ j \div 2 # i => due[heap.array[j \div 2]] <= due[heap.array[j]]
    /\ \A j \in 2 .. n : i > 1 /\ j \div 2 = i => due[heap.array[i \div 2]] <= due[heap.array[j]]
    /\ \A j \in (1 .. n) \ {i} : heap.index[heap.array[j]] = j
    /\ Apart(heap, elt, i)

\* elt comes before the children of i.
FirstBelow(heap, n, i, elt, due) ==
    \A j \in 2 .. n : j \div 2 = i => due[elt] <= due[heap.array[j]]

\* HEAPCONDITION
Ordered(heap, n, due) == \A j \in 2 .. n : due[heap.array[j \div 2]] <= due[heap.array[j]]

\* Halves and doubles.
LEMMA Halves ==
    /\ \A j \in Nat : j > 1 => j \div 2 \in Nat /\ 1 <= j \div 2 /\ j \div 2 < j
    /\ \A j, k \in Nat : j \div 2 = k <=> j = 2 * k \/ j = 2 * k + 1
    /\ \A k, n \in Nat : k <= n \div 2 <=> 2 * k <= n
  OBVIOUS

\* The parent of a slot is a slot before it.
LEMMA Parents ==
    ASSUME NEW n \in Nat
    PROVE  \A j \in 2 .. n : j \div 2 \in 1 .. n /\ j \div 2 < j /\ j \in 1 .. n
  BY Halves

\* The order after an element has floated up from i to m along the slots of D:
\* a and r are the times before and after, e the one of the element, and p is
\* the parent.
UpTrail(n, i, m, e, a, r, p, D) ==
    /\ n \in Nat /\ i \in 1 .. n /\ m \in 1 .. n /\ e \in Nat
    /\ a \in [1 .. n -> Nat] /\ r \in [1 .. n -> Nat] /\ p \in [2 .. n -> 1 .. n]
    /\ \A j \in 2 .. n : p[j] < j
    /\ D \in SUBSET (1 .. i) /\ i \in D /\ m \in D
    /\ \A j \in 2 .. n : j # i /\ p[j] # i => a[p[j]] <= a[j]
    /\ \A j \in 2 .. n : i > 1 /\ p[j] = i => a[p[i]] <= a[j]
    /\ \A j \in 2 .. n : p[j] = i => e <= a[j]
    /\ m > 1 => a[p[m]] <= e
    /\ \A j \in D \ {m} : j \in 2 .. n /\ e < a[p[j]] /\ p[j] \in D \ {i} /\ r[j] = a[p[j]]
    /\ \A j \in D \ {i} : \E c \in D \ {m} : p[c] = j
    /\ r[m] = e
    /\ \A j \in (1 .. n) \ D : r[j] = a[j]

\* The order is restored when the element has floated up ...
LEMMA UpOrder ==
    ASSUME NEW n, NEW i, NEW m, NEW e, NEW a, NEW r, NEW p, NEW D,
           UpTrail(n, i, m, e, a, r, p, D)
    PROVE  \A j \in 2 .. n : r[p[j]] <= r[j]
<1> USE DEF UpTrail
<1> SUFFICES ASSUME NEW j \in 2 .. n PROVE r[p[j]] <= r[j]
  OBVIOUS
<1>0. PICK q \in 1 .. n : q = p[j] /\ q < j /\ j \in 1 .. n
  BY SMTT(30)
<1>1. ASSUME NEW x \in D, x # m PROVE r[x] = a[p[x]] /\ p[x] \in D /\ p[x] # i /\ x \in 2 .. n /\ e < a[p[x]]
  BY <1>1
<1>2. ASSUME NEW x \in D, x # i PROVE e < a[x]
  <2>1. PICK c \in D \ {m} : p[c] = x
    BY <1>2
  <2> QED BY <2>1
<1>3. \A x \in 1 .. n : a[x] \in Nat /\ r[x] \in Nat
  OBVIOUS
<1>4. \A x \in D : x <= i /\ x \in 1 .. n
  OBVIOUS
<1>5. \A x, y, z \in Nat : (x <= y /\ y <= z => x <= z) /\ (x < y => x <= y)
  OBVIOUS
<1>6. ASSUME NEW x \in D, x # i PROVE r[x] <= a[x]
  <2>1. CASE x = m
    BY <1>2, <1>3, <1>4, <1>5, <1>6, <2>1
  <2>2. CASE x # m
    <3>1. r[x] = a[p[x]] /\ p[x] # i /\ x \in 2 .. n
      BY <1>1, <2>2
    <3> QED BY <1>6, <3>1
  <2> QED BY <2>1, <2>2
<1>7. CASE j \notin D /\ q \notin D
  <2>1. j # i /\ q # i /\ r[j] = a[j] /\ r[q] = a[q]
    BY <1>0, <1>7
  <2> QED BY <1>0, <2>1
<1>8. CASE j \notin D /\ q = i
  <2>1. r[j] = a[j]
    BY <1>0, <1>8
  <2>2. CASE q = m
    BY <1>0, <1>8, <2>1, <2>2
  <2>3. CASE q # m
    <3>1. r[q] = a[p[i]] /\ i > 1
      BY <1>1, <1>8, <2>3
    <3> QED BY <1>0, <1>8, <2>1, <3>1
  <2> QED BY <2>2, <2>3
<1>9. CASE j \notin D /\ q \in D /\ q # i
  <2>1. r[j] = a[j] /\ j # i
    BY <1>0, <1>9
  <2>2. a[q] <= a[j]
    BY <1>0, <1>9, <2>1
  <2>3. r[q] <= a[q]
    BY <1>6, <1>9
  <2>4. r[q] <= a[j]
    BY <1>0, <1>3, <1>5, <2>2, <2>3
  <2> QED BY <1>0, <2>1, <2>4
<1>10. CASE j = m
  <2>1. a[q] <= e
    BY <1>0, <1>10
  <2>2. q \notin D
    <3>1. SUFFICES ASSUME q \in D PROVE FALSE
      OBVIOUS
    <3>2. q # i
      BY <1>0, <1>4, <1>10
    <3>3. e < a[q]
      BY <1>2, <3>1, <3>2
    <3>4. e \in Nat /\ a[q] \in Nat
      BY <1>3
    <3> QED BY <2>1, <3>3, <3>4
  <2>3. r[q] = a[q] /\ r[j] = e
    BY <1>10, <2>2
  <2> QED BY <1>0, <2>1, <2>3
<1>11. CASE j \in D /\ j # m
  <2>1. r[j] = a[q] /\ q \in D /\ q # i
    BY <1>0, <1>1, <1>11
  <2>2. r[q] <= a[q]
    BY <1>6, <2>1
  <2> QED BY <1>0, <2>1, <2>2
<1> QED BY <1>7, <1>8, <1>9, <1>10, <1>11

\* The order after an element has sunk from i to m along the slots of D; g is
\* the child that comes first.
DownTrail(n, i, m, e, a, r, p, g, D) ==
    /\ n \in Nat /\ i \in 1 .. n /\ m \in 1 .. n /\ e \in Nat
    /\ a \in [1 .. n -> Nat] /\ r \in [1 .. n -> Nat] /\ p \in [2 .. n -> 1 .. n]
    /\ \A j \in 2 .. n : p[j] < j
    /\ g \in [1 .. n -> 1 .. n]
    /\ D \in SUBSET (i .. n) /\ i \in D /\ m \in D
    /\ \A j \in 2 .. n : j # i /\ p[j] # i => a[p[j]] <= a[j]
    /\ \A j \in 2 .. n : i > 1 /\ p[j] = i => a[p[i]] <= a[j]
    /\ i > 1 => a[p[i]] <= e
    /\ \A j \in 2 .. n : p[j] = m => e <= a[j]
    /\ \A j \in D \ {m} : /\ g[j] \in 2 .. n /\ p[g[j]] = j
                           /\ a[g[j]] <= e /\ g[j] \in D \ {i} /\ r[j] = a[g[j]]
    /\ \A j \in D \ {m} : \A x \in 2 .. n : p[x] = j => a[g[j]] <= a[x]
    /\ \A j \in D \ {i} : \E c \in D \ {m} : g[c] = j
    /\ r[m] = e
    /\ \A j \in (1 .. n) \ D : r[j] = a[j]

\* ... and when it has sunk.
LEMMA DownOrder ==
    ASSUME NEW n, NEW i, NEW m, NEW e, NEW a, NEW r, NEW p, NEW g, NEW D,
           DownTrail(n, i, m, e, a, r, p, g, D)
    PROVE  \A j \in 2 .. n : r[p[j]] <= r[j]
<1> USE DEF DownTrail
<1> SUFFICES ASSUME NEW j \in 2 .. n PROVE r[p[j]] <= r[j]
  OBVIOUS
<1>0. PICK q \in 1 .. n : q = p[j] /\ q < j /\ j \in 1 .. n
  <2>1. p[j] \in 1 .. n /\ p[j] < j
    BY Zenon
  <2>2. \A x \in 2 .. n : x \in 1 .. n
    OBVIOUS
  <2> QED BY <2>1, <2>2, Zenon
<1>1. \A x \in D : i <= x /\ x \in 1 .. n
  OBVIOUS
<1>2. ASSUME NEW x \in D, x # i PROVE p[x] \in D \ {m} /\ g[p[x]] = x
  <2>1. PICK c \in D \ {m} : g[c] = x
    BY <1>2
  <2> QED BY <2>1
<1>3. q \in D => j # i
  BY <1>0, <1>1
<1>4. CASE q = m
  <2>1. j \notin D
    BY <1>0, <1>2, <1>3, <1>4, ZenonT(40)
  <2>2. r[j] = a[j]
    BY <1>0, <2>1
  <2> QED BY <1>0, <1>4, <2>2
<1>5. CASE q \in D /\ q # m /\ j = g[q]
  <2>1. r[q] = a[j] /\ j \in D /\ a[j] <= e
    BY <1>5
  <2>2. CASE j = m
    BY <1>0, <2>1, <2>2
  <2>3. CASE j # m
    <3>1. r[j] = a[g[j]] /\ g[j] \in 2 .. n /\ p[g[j]] = j /\ g[j] # i
      BY <2>1, <2>3
    <3>2. a[j] <= a[g[j]]
      BY <1>3, <1>5, <3>1
    <3> QED BY <1>0, <2>1, <3>1, <3>2
  <2> QED BY <2>2, <2>3
<1>6. CASE q \in D /\ q # m /\ j # g[q]
  <2>1. j \notin D
    BY <1>0, <1>2, <1>3, <1>6
  <2>2. r[j] = a[j] /\ r[q] = a[g[q]] /\ a[g[q]] <= a[j]
    BY <1>0, <1>6, <2>1
  <2> QED BY <1>0, <2>2
<1>7. CASE q \notin D /\ j \in D
  <2>1. j = i /\ r[q] = a[q] /\ i > 1
    BY <1>0, <1>2, <1>7
  <2>2. CASE i = m
    BY <1>0, <2>1, <2>2
  <2>3. CASE i # m
    <3>1. r[i] = a[g[i]] /\ g[i] \in 2 .. n /\ p[g[i]] = i
      BY <2>3
    <3> QED BY <1>0, <2>1, <3>1
  <2> QED BY <2>2, <2>3
<1>8. CASE q \notin D /\ j \notin D
  <2>1. j # i /\ q # i /\ r[j] = a[j] /\ r[q] = a[q]
    BY <1>0, <1>8, ZenonT(40)
  <2> QED BY <1>0, <2>1
<1> QED BY <1>4, <1>5, <1>6, <1>7, <1>8

\* The length of an array of n slots.
LEMMA LenIs ==
    ASSUME NEW S, NEW n \in Nat, NEW a \in [1 .. n -> S]
    PROVE  Len(a) = n /\ a \in Seq(S)
  OBVIOUS

\* The same, of the array itself.
Climb(S, n, x, y, elt, due, i, m, D) ==
    /\ n \in Nat /\ i \in 1 .. n /\ m \in 1 .. n /\ elt \in S
    /\ x \in [1 .. n -> S] /\ y \in [1 .. n -> S] /\ due \in [S -> Nat]
    /\ D \in SUBSET (1 .. n) /\ i \in D /\ m \in D /\ \A j \in D : j <= i
    /\ \A j \in 2 .. n : j # i /\ j \div 2 # i => due[x[j \div 2]] <= due[x[j]]
    /\ \A j \in 2 .. n : i > 1 /\ j \div 2 = i => due[x[i \div 2]] <= due[x[j]]
    /\ \A j \in 2 .. n : j \div 2 = i => due[elt] <= due[x[j]]
    /\ m > 1 => ~(due[elt] < due[x[m \div 2]])
    /\ \A j \in D \ {m} : /\ j \in 2 .. n /\ due[elt] < due[x[j \div 2]]
                           /\ j \div 2 \in D \ {i} /\ y[j] = x[j \div 2]
    /\ \A j \in D \ {i} : \E c \in D \ {m} : c \div 2 = j
    /\ y[m] = elt
    /\ \A j \in (1 .. n) \ D : y[j] = x[j]

\* UpOrder, with the times of the elements in their slots.
LEMMA UpRestores ==
    ASSUME NEW S, NEW n, NEW x, NEW y, NEW elt, NEW due, NEW i, NEW m, NEW D,
           Climb(S, n, x, y, elt, due, i, m, D)
    PROVE  \A j \in 2 .. n : due[y[j \div 2]] <= due[y[j]]
<1>0. /\ n \in Nat /\ i \in 1 .. n /\ m \in 1 .. n /\ elt \in S
      /\ x \in [1 .. n -> S] /\ y \in [1 .. n -> S] /\ due \in [S -> Nat]
      /\ D \in SUBSET (1 .. n) /\ i \in D /\ m \in D
  BY DEF Climb
<1>1. \A j \in 2 .. n : j \div 2 \in 1 .. n /\ j \div 2 < j /\ j \in 1 .. n
  BY <1>0, Parents
<1>2. PICK p \in [2 .. n -> 1 .. n] : \A j \in 2 .. n : p[j] = j \div 2
  <2>1. [j \in 2 .. n |-> j \div 2] \in [2 .. n -> 1 .. n]
    BY <1>1
  <2> QED BY <2>1
<1>3. PICK e \in Nat : e = due[elt]
  BY <1>0
<1>4. PICK ka \in [1 .. n -> Nat], kr \in [1 .. n -> Nat] :
        /\ \A j \in 1 .. n : ka[j] = due[x[j]]
        /\ \A j \in 1 .. n : kr[j] = due[y[j]]
  <2>1. PICK ka \in [1 .. n -> Nat] : \A j \in 1 .. n : ka[j] = due[x[j]]
    <3>1. [j \in 1 .. n |-> due[x[j]]] \in [1 .. n -> Nat]
      BY <1>0
    <3> QED BY <3>1
  <2>2. PICK kr \in [1 .. n -> Nat] : \A j \in 1 .. n : kr[j] = due[y[j]]
    <3>1. [j \in 1 .. n |-> due[y[j]]] \in [1 .. n -> Nat]
      BY <1>0
    <3> QED BY <3>1
  <2> QED BY <2>1, <2>2
<1>5. \A j \in 2 .. n : p[j] < j
  BY <1>1, <1>2
<1>6. D \in SUBSET (1 .. i)
  BY <1>0 DEF Climb
<1>7. \A j \in 2 .. n : j # i /\ p[j] # i => ka[p[j]] <= ka[j]
  <2>1. \A j \in 2 .. n : j # i /\ j \div 2 # i => due[x[j \div 2]] <= due[x[j]]
    BY DEF Climb
  <2> QED BY <1>1, <1>2, <1>4, <2>1
<1>8. \A j \in 2 .. n : i > 1 /\ p[j] = i => ka[p[i]] <= ka[j]
  <2>1. \A j \in 2 .. n : i > 1 /\ j \div 2 = i => due[x[i \div 2]] <= due[x[j]]
    BY DEF Climb
  <2>2. i > 1 => i \in 2 .. n
    BY <1>0
  <2> QED BY <1>1, <1>2, <1>4, <2>1, <2>2, SMTT(30)
<1>9. \A j \in 2 .. n : p[j] = i => e <= ka[j]
  BY <1>1, <1>2, <1>3, <1>4 DEF Climb
<1>10. m > 1 => ka[p[m]] <= e
  <2>1. m > 1 => m \in 2 .. n /\ ~(due[elt] < due[x[m \div 2]])
    BY <1>0 DEF Climb
  <2> QED BY <1>1, <1>2, <1>3, <1>4, <2>1
<1>11. \A j \in D \ {m} : j \in 2 .. n /\ e < ka[p[j]] /\ p[j] \in D \ {i} /\ kr[j] = ka[p[j]]
  <2>1. \A j \in D \ {m} : /\ j \in 2 .. n /\ due[elt] < due[x[j \div 2]]
                           /\ j \div 2 \in D \ {i} /\ y[j] = x[j \div 2]
    BY DEF Climb
  <2> SUFFICES ASSUME NEW j \in D \ {m}
               PROVE  j \in 2 .. n /\ e < ka[p[j]] /\ p[j] \in D \ {i} /\ kr[j] = ka[p[j]]
    OBVIOUS
  <2>2. PICK q \in 1 .. n : q = j \div 2
    BY <1>1, <2>1
  <2>3. /\ j \in 2 .. n /\ j \in 1 .. n /\ p[j] = q /\ due[elt] < due[x[q]]
        /\ q \in D \ {i} /\ y[j] = x[q]
    BY <1>1, <1>2, <2>1, <2>2
  <2> QED BY <1>3, <1>4, <2>3
<1>12. \A j \in D \ {i} : \E c \in D \ {m} : p[c] = j
  <2>1. \A j \in D \ {m} : j \in 2 .. n
    BY <1>11
  <2>2. \A j \in D \ {i} : \E c \in D \ {m} : c \div 2 = j
    BY DEF Climb
  <2> QED BY <1>2, <2>1, <2>2
<1>13. kr[m] = e /\ \A j \in (1 .. n) \ D : kr[j] = ka[j]
  <2>1. y[m] = elt /\ \A j \in (1 .. n) \ D : y[j] = x[j]
    BY DEF Climb
  <2> QED BY <1>0, <1>3, <1>4, <2>1
<1>14. UpTrail(n, i, m, e, ka, kr, p, D)
  BY <1>0, <1>5, <1>6, <1>7, <1>8, <1>9, <1>10, <1>11, <1>12, <1>13 DEF UpTrail
<1>15. \A j \in 2 .. n : kr[p[j]] <= kr[j]
  BY <1>14, UpOrder
<1> QED BY <1>1, <1>2, <1>4, <1>15

\* float_up() of an element that comes before the children of the hole.
LEMMA FloatUpIs ==
    ASSUME NEW S, NEW n \in Nat, NEW heap \in Heaps(S, n), NEW elt \in S, NEW i \in 1 .. n,
           NEW due \in [S -> Nat], Holed(heap, n, i, elt, due), FirstBelow(heap, n, i, elt, due)
    PROVE  \E r \in Heaps(S, n) : /\ r = float_up(heap, i, elt, due)
                                  /\ AtRest(r, heap, elt, i) /\ Ordered(r, n, due)
<1> DEFINE a == heap.array
           C == {k \in 1 .. n : k > 1 /\ due[elt] < due[a[k \div 2]]}
           g == [k \in 1 .. n |-> IF k > 1 THEN k \div 2 ELSE 1]
           rk == [k \in 1 .. n |-> k]
           Def(f, k) == IF k > 1 /\ sooner(due, elt, a[k \div 2])
                          THEN set_index(f[k \div 2], k, a[k \div 2])
                          ELSE set_index(heap, k, elt)
           up == CHOOSE f : f = [k \in 1 .. n |-> Def(f, k)]
<1>0. a \in [1 .. n -> S] /\ DOMAIN a = 1 .. n /\ Len(a) = n
  <2>1. a \in [1 .. n -> S]
    BY DEF Heaps
  <2> QED BY <2>1, LenIs
<1>1. /\ C \in SUBSET (1 .. n) /\ g \in [1 .. n -> 1 .. n] /\ rk \in [1 .. n -> 0 .. n]
      /\ \A k \in C : rk[g[k]] < rk[k]
  BY Halves
<1>2. \A f : \A k \in 1 .. n : Def(f, k) = Slide(f, heap, elt, C, g, k)
  BY DEF Slide, sooner
<1>3. float_up(heap, i, elt, due) = up[i]
  BY <1>0 DEF float_up
<1>g. \A k \in 2 .. n : g[k] = k \div 2 /\ k \div 2 \in 1 .. n /\ k \div 2 < k
  BY Halves
<1>c. \A k \in 1 .. n : k \in C <=> k > 1 /\ due[elt] < due[a[k \div 2]]
  OBVIOUS
<1>rk. \A k \in 1 .. n : rk[k] = k
  OBVIOUS
<1> HIDE DEF C, g, rk
<1>4. PICK CC, gg, rr : CC = C /\ gg = g /\ rr = rk
  OBVIOUS
<1>5. Falls(n, CC, gg, rr)
  BY <1>1, <1>4 DEF Falls
<1>6. PICK f \in [1 .. n -> Heaps(S, n)] : Slides(f, n, heap, elt, CC, gg)
  BY <1>5, SlideExists
<1>7. f = [k \in 1 .. n |-> Def(f, k)]
  BY <1>2, <1>4, <1>6 DEF Slides
<1>8. up = [k \in 1 .. n |-> Def(up, k)]
  BY <1>7
<1> HIDE DEF up
<1>9. PICK h : h = up
  OBVIOUS
<1>10. Slides(h, n, heap, elt, CC, gg)
  BY <1>2, <1>4, <1>8, <1>9 DEF Slides
<1>11. \A k \in 1 .. n : f[k] = h[k]
  BY <1>5, <1>6, <1>10, SlideUnique
<1>12. float_up(heap, i, elt, due) = f[i]
  BY <1>3, <1>9, <1>11
<1>13. Apart(heap, elt, i) /\ \A j \in (1 .. n) \ {i} : heap.index[heap.array[j]] = j
  BY DEF Holed
<1>14. PICK D \in SUBSET (1 .. n), m \in 1 .. n :
         /\ Path(f[i], heap, elt, CC, gg, i, D, m)
         /\ \A j \in D : rr[j] <= rr[i]
  BY <1>5, <1>6, <1>13, SlidePath
<1>15. PICK r \in Heaps(S, n) : r = f[i]
  BY <1>6
<1>16. Path(r, heap, elt, CC, gg, i, D, m)
  BY <1>14, <1>15
<1>17. AtRest(r, heap, elt, i)
  <2>1. Trail(S, n, r, heap, elt, CC, gg, i, D, m)
    BY <1>5, <1>13, <1>16 DEF Trail, Falls
  <2> QED BY <2>1, PathSettles
<1>18. Ordered(r, n, due)
  <2>0. /\ i \in D /\ m \in D /\ m \notin C /\ D \ {m} \subseteq C
        /\ \A j \in D \ {m} : gg[j] \in D \ {i}
        /\ \A j \in D \ {i} : \E c \in D \ {m} : gg[c] = j
        /\ r.array[m] = elt
        /\ \A j \in D \ {m} : r.array[j] = a[gg[j]]
        /\ \A j \in (1 .. n) \ D : r.array[j] = a[j]
    BY <1>0, <1>4, <1>16 DEF Path
  <2>1. r.array \in [1 .. n -> S]
    BY DEF Heaps
  <2>2. PICK x \in [1 .. n -> S], y \in [1 .. n -> S] : x = a /\ y = r.array
    BY <1>0, <2>1
  <2>3. /\ i \in D /\ m \in D /\ m \notin CC
        /\ \A j \in D \ {i} : \E c \in D \ {m} : gg[c] = j
        /\ y[m] = elt
        /\ \A j \in (1 .. n) \ D : y[j] = x[j]
    BY <1>4, <2>0, <2>2
  <2>4. \A j \in D \ {m} : j \in CC /\ gg[j] \in D \ {i} /\ y[j] = x[gg[j]]
    BY <1>4, <2>0, <2>2
  <2>5. \A j \in 1 .. n : j \in CC => j \in 2 .. n /\ due[elt] < due[x[j \div 2]] /\ gg[j] = j \div 2
    <3>1. \A j \in 1 .. n : j > 1 => j \in 2 .. n
      OBVIOUS
    <3> QED BY <1>g, <1>c, <1>4, <2>2, <3>1
  <2>6. m > 1 => ~(due[elt] < due[x[m \div 2]])
    BY <1>c, <1>4, <2>2, <2>3
  <2>7. \A j \in D : j <= i
    BY <1>14, <1>rk, <1>4
  <2>8. Climb(S, n, x, y, elt, due, i, m, D)
    <3>1. \A j \in D \ {m} : /\ j \in 2 .. n /\ due[elt] < due[x[j \div 2]]
                             /\ j \div 2 \in D \ {i} /\ y[j] = x[j \div 2]
      BY <2>4, <2>5
    <3>2. ASSUME NEW j \in D \ {i} PROVE \E c \in D \ {m} : c \div 2 = j
      <4>1. PICK c \in D \ {m} : gg[c] = j
        BY <2>3
      <4>2. c \div 2 = j
        BY <2>4, <2>5, <4>1
      <4> QED BY <4>2
    <3>3. \A j \in 2 .. n : j # i /\ j \div 2 # i => due[x[j \div 2]] <= due[x[j]]
      BY <2>2 DEF Holed
    <3>4. \A j \in 2 .. n : i > 1 /\ j \div 2 = i => due[x[i \div 2]] <= due[x[j]]
      BY <2>2 DEF Holed
    <3>5. \A j \in 2 .. n : j \div 2 = i => due[elt] <= due[x[j]]
      BY <2>2 DEF FirstBelow
    <3> QED BY <2>3, <2>6, <2>7, <3>1, <3>2, <3>3, <3>4, <3>5 DEF Climb
  <2>9. \A j \in 2 .. n : due[y[j \div 2]] <= due[y[j]]
    BY <2>8, UpRestores
  <2> QED BY <2>2, <2>9 DEF Ordered
<1> QED BY <1>12, <1>15, <1>17, <1>18

-----------------------------------------------------------------------------
(* sink_down() *)

\* The order after an element has sunk, of the array itself.
Plunge(S, n, x, y, elt, due, i, m, D, g) ==
    /\ n \in Nat /\ i \in 1 .. n /\ m \in 1 .. n /\ elt \in S
    /\ x \in [1 .. n -> S] /\ y \in [1 .. n -> S] /\ due \in [S -> Nat]
    /\ D \in SUBSET (1 .. n) /\ i \in D /\ m \in D /\ (\A j \in D : i <= j)
    /\ g \in [1 .. n -> 1 .. n]
    /\ \A j \in 2 .. n : j # i /\ j \div 2 # i => due[x[j \div 2]] <= due[x[j]]
    /\ \A j \in 2 .. n : i > 1 /\ j \div 2 = i => due[x[i \div 2]] <= due[x[j]]
    /\ i > 1 => due[x[i \div 2]] <= due[elt]
    /\ \A j \in 2 .. n : j \div 2 = m => due[elt] <= due[x[j]]
    /\ \A j \in D \ {m} : /\ g[j] \in 2 .. n /\ g[j] \div 2 = j /\ due[x[g[j]]] <= due[elt]
                           /\ g[j] \in D \ {i} /\ y[j] = x[g[j]]
    /\ \A j \in D \ {m} : \A z \in 2 .. n : z \div 2 = j => due[x[g[j]]] <= due[x[z]]
    /\ \A j \in D \ {i} : \E c \in D \ {m} : g[c] = j
    /\ y[m] = elt
    /\ \A j \in (1 .. n) \ D : y[j] = x[j]

\* DownOrder, with the times of the elements in their slots.
LEMMA DownRestores ==
    ASSUME NEW S, NEW n, NEW x, NEW y, NEW elt, NEW due, NEW i, NEW m, NEW D, NEW g,
           Plunge(S, n, x, y, elt, due, i, m, D, g)
    PROVE  \A j \in 2 .. n : due[y[j \div 2]] <= due[y[j]]
<1>0. /\ n \in Nat /\ i \in 1 .. n /\ m \in 1 .. n /\ elt \in S
      /\ x \in [1 .. n -> S] /\ y \in [1 .. n -> S] /\ due \in [S -> Nat]
      /\ D \in SUBSET (1 .. n) /\ i \in D /\ m \in D
      /\ g \in [1 .. n -> 1 .. n]
  BY DEF Plunge
<1>1. \A j \in 2 .. n : j \div 2 \in 1 .. n /\ j \div 2 < j /\ j \in 1 .. n
  BY <1>0, Parents
<1>2. PICK p \in [2 .. n -> 1 .. n] : \A j \in 2 .. n : p[j] = j \div 2
  <2>1. [j \in 2 .. n |-> j \div 2] \in [2 .. n -> 1 .. n]
    BY <1>1
  <2> QED BY <2>1
<1>3. PICK e \in Nat : e = due[elt]
  BY <1>0
<1>4. PICK ka \in [1 .. n -> Nat], kr \in [1 .. n -> Nat] :
        /\ \A j \in 1 .. n : ka[j] = due[x[j]]
        /\ \A j \in 1 .. n : kr[j] = due[y[j]]
  <2>1. PICK ka \in [1 .. n -> Nat] : \A j \in 1 .. n : ka[j] = due[x[j]]
    <3>1. [j \in 1 .. n |-> due[x[j]]] \in [1 .. n -> Nat]
      BY <1>0
    <3> QED BY <3>1
  <2>2. PICK kr \in [1 .. n -> Nat] : \A j \in 1 .. n : kr[j] = due[y[j]]
    <3>1. [j \in 1 .. n |-> due[y[j]]] \in [1 .. n -> Nat]
      BY <1>0
    <3> QED BY <3>1
  <2> QED BY <2>1, <2>2
<1>5. \A j \in 2 .. n : p[j] < j
  BY <1>1, <1>2
<1>6. D \in SUBSET (i .. n)
  BY <1>0 DEF Plunge
<1>7. \A j \in 2 .. n : j # i /\ p[j] # i => ka[p[j]] <= ka[j]
  <2>1. \A j \in 2 .. n : j # i /\ j \div 2 # i => due[x[j \div 2]] <= due[x[j]]
    BY DEF Plunge
  <2> QED BY <1>1, <1>2, <1>4, <2>1
<1>8. (\A j \in 2 .. n : i > 1 /\ p[j] = i => ka[p[i]] <= ka[j]) /\ (i > 1 => ka[p[i]] <= e)
  <2>1. /\ \A j \in 2 .. n : i > 1 /\ j \div 2 = i => due[x[i \div 2]] <= due[x[j]]
        /\ i > 1 => due[x[i \div 2]] <= due[elt]
    BY DEF Plunge
  <2>2. i > 1 => i \in 2 .. n
    BY <1>0
  <2> QED BY <1>1, <1>2, <1>3, <1>4, <2>1, <2>2
<1>9. \A j \in 2 .. n : p[j] = m => e <= ka[j]
  <2>1. \A j \in 2 .. n : j \div 2 = m => due[elt] <= due[x[j]]
    BY DEF Plunge
  <2> QED BY <1>1, <1>2, <1>3, <1>4, <2>1
<1>10. ASSUME NEW j \in D \ {m}
       PROVE  /\ g[j] \in 2 .. n /\ p[g[j]] = j
              /\ ka[g[j]] <= e /\ g[j] \in D \ {i} /\ kr[j] = ka[g[j]]
              /\ \A z \in 2 .. n : p[z] = j => ka[g[j]] <= ka[z]
  <2>1. /\ g[j] \in 2 .. n /\ g[j] \div 2 = j /\ due[x[g[j]]] <= due[elt]
        /\ g[j] \in D \ {i} /\ y[j] = x[g[j]]
    BY DEF Plunge
  <2>2. \A z \in 2 .. n : z \div 2 = j => due[x[g[j]]] <= due[x[z]]
    BY DEF Plunge
  <2>3. PICK c \in 2 .. n : c = g[j]
    BY <2>1
  <2>4. c \in 1 .. n /\ p[c] = j /\ ka[c] = due[x[c]] /\ j \in 1 .. n /\ kr[j] = ka[c] /\ ka[c] <= e
    BY <1>0, <1>1, <1>2, <1>3, <1>4, <2>1, <2>3
  <2>5. \A z \in 2 .. n : p[z] = j => ka[c] <= ka[z]
    BY <1>1, <1>2, <1>4, <2>2, <2>3, <2>4
  <2> QED BY <2>1, <2>3, <2>4, <2>5
<1>11. \A j \in D \ {i} : \E c \in D \ {m} : g[c] = j
  BY DEF Plunge
<1>12. kr[m] = e /\ \A j \in (1 .. n) \ D : kr[j] = ka[j]
  <2>1. y[m] = elt /\ \A j \in (1 .. n) \ D : y[j] = x[j]
    BY DEF Plunge
  <2> QED BY <1>0, <1>3, <1>4, <2>1
<1>13. DownTrail(n, i, m, e, ka, kr, p, g, D)
  BY <1>0, <1>5, <1>6, <1>7, <1>8, <1>9, <1>10, <1>11, <1>12 DEF DownTrail
<1>14. \A j \in 2 .. n : kr[p[j]] <= kr[j]
  BY <1>13, DownOrder
<1> QED BY <1>1, <1>2, <1>4, <1>14

\* The child that sink_down() looks at.
LEMMA ChildIs ==
    ASSUME NEW S, NEW n \in Nat, NEW heap \in Heaps(S, n), NEW due \in [S -> Nat],
           NEW k \in 1 .. n, k <= n \div 2, NEW j, j = SmallerChild(heap, k, due)
    PROVE  /\ j \in 2 .. n /\ j \div 2 = k /\ k < j
           /\ \A z \in 2 .. n : z \div 2 = k => due[heap.array[j]] <= due[heap.array[z]]
<1>1. PICK x \in [1 .. n -> S] : x = heap.array /\ Len(x) = n
  <2>1. heap.array \in [1 .. n -> S]
    BY DEF Heaps
  <2> QED BY <2>1, LenIs
<1>2. j = IF 2 * k < n /\ due[x[2 * k + 1]] < due[x[2 * k]] THEN 2 * k + 1 ELSE 2 * k
  BY <1>1 DEF SmallerChild, sooner
<1>3. 2 * k \in 2 .. n
  BY Halves
<1>4. 2 * k < n => 2 * k + 1 \in 2 .. n
  BY <1>3
<1>5. j \in 2 .. n /\ j \div 2 = k /\ k < j
  BY <1>2, <1>3, <1>4, Halves
<1>6. \A z \in 1 .. n : due[x[z]] \in Nat
  OBVIOUS
<1>7. ASSUME NEW z \in 2 .. n, z \div 2 = k PROVE due[x[j]] <= due[x[z]]
  <2>1. z = 2 * k \/ z = 2 * k + 1
    BY <1>7, Halves
  <2>2. PICK u, v \in Nat : u = due[x[2 * k]] /\ (2 * k < n => v = due[x[2 * k + 1]])
    <3>1. due[x[2 * k]] \in Nat
      BY <1>3, <1>6
    <3>2. CASE 2 * k < n
      BY <1>4, <1>6, <3>1, <3>2
    <3>3. CASE ~(2 * k < n)
      BY <3>1, <3>3
    <3> QED BY <3>2, <3>3
  <2>3. CASE 2 * k < n
    BY <1>2, <2>1, <2>2, <2>3
  <2>4. CASE ~(2 * k < n)
    <3>1. z = 2 * k /\ j = 2 * k
      BY <1>2, <1>3, <2>1, <2>4
    <3> QED BY <2>2, <3>1
  <2> QED BY <2>3, <2>4
<1> QED BY <1>1, <1>5, <1>7

\* The parent of i comes before elt.
LastAbove(heap, i, elt, due) == i > 1 => due[heap.array[i \div 2]] <= due[elt]

\* sink_down() of an element that comes after the parent of the hole.
LEMMA SinkDownIs ==
    ASSUME NEW S, NEW n \in Nat, NEW heap \in Heaps(S, n), NEW elt \in S, NEW i \in 1 .. n,
           NEW due \in [S -> Nat], Holed(heap, n, i, elt, due), LastAbove(heap, i, elt, due)
    PROVE  \E r \in Heaps(S, n) : /\ r = sink_down(heap, i, elt, due)
                                  /\ AtRest(r, heap, elt, i) /\ Ordered(r, n, due)
<1> DEFINE a == heap.array
           J(k) == SmallerChild(heap, k, due)
           C == {k \in 1 .. n : k <= n \div 2 /\ ~(due[elt] < due[a[J(k)]])}
           g == [k \in 1 .. n |-> IF k <= n \div 2 THEN J(k) ELSE k]
           rk == [k \in 1 .. n |-> n - k]
           Def(f, k) == IF k <= n \div 2 /\ ~sooner(due, elt, a[J(k)])
                          THEN set_index(f[J(k)], k, a[J(k)])
                          ELSE set_index(heap, k, elt)
           down == CHOOSE f : f = [k \in 1 .. n |-> Def(f, k)]
<1>0. a \in [1 .. n -> S] /\ DOMAIN a = 1 .. n /\ Len(a) = n
  <2>1. a \in [1 .. n -> S]
    BY DEF Heaps
  <2> QED BY <2>1, LenIs
<1>j. \A k \in 1 .. n : k <= n \div 2 => J(k) \in 2 .. n /\ J(k) \div 2 = k /\ k < J(k)
  <2> HIDE DEF a, C, g, rk, Def, down
  <2> QED BY ChildIs
<1>k. \A k \in 1 .. n : k <= n \div 2 =>
        \A z \in 2 .. n : z \div 2 = k => due[a[J(k)]] <= due[a[z]]
  <2> HIDE DEF C, g, rk, Def, down
  <2> QED BY ChildIs
<1>3. sink_down(heap, i, elt, due) = down[i]
  BY <1>0 DEF sink_down
<1> HIDE DEF J
<1>1. /\ C \in SUBSET (1 .. n) /\ g \in [1 .. n -> 1 .. n] /\ rk \in [1 .. n -> 0 .. n]
      /\ \A k \in C : rk[g[k]] < rk[k]
  BY <1>j
<1>2. \A f : \A k \in 1 .. n : Def(f, k) = Slide(f, heap, elt, C, g, k)
  BY DEF Slide, sooner
<1>g. \A k \in 1 .. n : k <= n \div 2 => g[k] = J(k)
  OBVIOUS
<1>c. \A k \in 1 .. n : k \in C <=> k <= n \div 2 /\ ~(due[elt] < due[a[J(k)]])
  OBVIOUS
<1>rk. \A k \in 1 .. n : rk[k] = n - k
  OBVIOUS
<1> HIDE DEF C, g, rk
<1>4. PICK CC, gg, rr : CC = C /\ gg = g /\ rr = rk
  OBVIOUS
<1>5. Falls(n, CC, gg, rr)
  BY <1>1, <1>4 DEF Falls
<1>6. PICK f \in [1 .. n -> Heaps(S, n)] : Slides(f, n, heap, elt, CC, gg)
  BY <1>5, SlideExists
<1>7. f = [k \in 1 .. n |-> Def(f, k)]
  BY <1>2, <1>4, <1>6 DEF Slides
<1>8. down = [k \in 1 .. n |-> Def(down, k)]
  BY <1>7
<1> HIDE DEF down
<1>9. PICK h : h = down
  OBVIOUS
<1>10. Slides(h, n, heap, elt, CC, gg)
  BY <1>2, <1>4, <1>8, <1>9 DEF Slides
<1>11. \A k \in 1 .. n : f[k] = h[k]
  BY <1>5, <1>6, <1>10, SlideUnique
<1>12. sink_down(heap, i, elt, due) = f[i]
  BY <1>3, <1>9, <1>11
<1>13. Apart(heap, elt, i) /\ \A j \in (1 .. n) \ {i} : heap.index[heap.array[j]] = j
  BY DEF Holed
<1>14. PICK D \in SUBSET (1 .. n), m \in 1 .. n :
         /\ Path(f[i], heap, elt, CC, gg, i, D, m)
         /\ \A j \in D : rr[j] <= rr[i]
  BY <1>5, <1>6, <1>13, SlidePath
<1>15. PICK r \in Heaps(S, n) : r = f[i]
  BY <1>6
<1>16. Path(r, heap, elt, CC, gg, i, D, m)
  BY <1>14, <1>15
<1>17. AtRest(r, heap, elt, i)
  <2>1. Trail(S, n, r, heap, elt, CC, gg, i, D, m)
    BY <1>5, <1>13, <1>16 DEF Trail, Falls
  <2> QED BY <2>1, PathSettles
<1>18. Ordered(r, n, due)
  <2>0. /\ i \in D /\ m \in D /\ m \notin C /\ D \ {m} \subseteq C
        /\ \A j \in D \ {m} : gg[j] \in D \ {i}
        /\ \A j \in D \ {i} : \E c \in D \ {m} : gg[c] = j
        /\ r.array[m] = elt
        /\ \A j \in D \ {m} : r.array[j] = a[gg[j]]
        /\ \A j \in (1 .. n) \ D : r.array[j] = a[j]
    BY <1>0, <1>4, <1>16 DEF Path
  <2>1. r.array \in [1 .. n -> S]
    BY DEF Heaps
  <2>2. PICK x \in [1 .. n -> S], y \in [1 .. n -> S] : x = a /\ y = r.array
    BY <1>0, <2>1
  <2>3. /\ i \in D /\ m \in D /\ m \notin CC
        /\ \A j \in D \ {i} : \E c \in D \ {m} : gg[c] = j
        /\ y[m] = elt
        /\ \A j \in (1 .. n) \ D : y[j] = x[j]
    BY <1>4, <2>0, <2>2
  <2>4. \A j \in D \ {m} : j \in CC /\ gg[j] \in D \ {i} /\ y[j] = x[gg[j]]
    BY <1>4, <2>0, <2>2
  <2>5. \A k \in 1 .. n : k <= n \div 2 =>
          /\ gg[k] \in 2 .. n /\ gg[k] \div 2 = k
          /\ \A z \in 2 .. n : z \div 2 = k => due[x[gg[k]]] <= due[x[z]]
    BY <1>g, <1>j, <1>k, <1>4, <2>2
  <2>6. \A k \in 1 .. n : k \in CC <=> k <= n \div 2 /\ ~(due[elt] < due[x[gg[k]]])
    BY <1>g, <1>c, <1>4, <2>2
  <2>7. \A j \in D : i <= j
    BY <1>14, <1>rk, <1>4
  <2>n. \A k \in 1 .. n : due[x[k]] \in Nat /\ due[elt] \in Nat
    OBVIOUS
  <2>8. Plunge(S, n, x, y, elt, due, i, m, D, gg)
    <3>1. ASSUME NEW j \in D \ {m}
          PROVE  /\ gg[j] \in 2 .. n /\ gg[j] \div 2 = j /\ due[x[gg[j]]] <= due[elt]
                 /\ gg[j] \in D \ {i} /\ y[j] = x[gg[j]]
                 /\ \A z \in 2 .. n : z \div 2 = j => due[x[gg[j]]] <= due[x[z]]
      <4>1. j \in 1 .. n /\ j \in CC /\ gg[j] \in D \ {i} /\ y[j] = x[gg[j]]
        BY <2>4
      <4>2. j <= n \div 2 /\ ~(due[elt] < due[x[gg[j]]])
        BY <2>6, <4>1
      <4>3. due[x[gg[j]]] <= due[elt]
        BY <2>n, <4>1, <4>2
      <4> QED BY <2>5, <4>1, <4>2, <4>3
    <3>2. ASSUME NEW j \in 2 .. n, j \div 2 = m PROVE due[elt] <= due[x[j]]
      <4>1. m <= n \div 2
        BY <3>2, Halves
      <4>2. due[elt] < due[x[gg[m]]] /\ due[x[gg[m]]] <= due[x[j]]
        BY <2>3, <2>5, <2>6, <3>2, <4>1
      <4>3. gg[m] \in 1 .. n /\ j \in 1 .. n
        BY <2>5, <4>1
      <4> QED BY <2>n, <4>2, <4>3
    <3>3. \A j \in 2 .. n : j # i /\ j \div 2 # i => due[x[j \div 2]] <= due[x[j]]
      BY <2>2 DEF Holed
    <3>4. \A j \in 2 .. n : i > 1 /\ j \div 2 = i => due[x[i \div 2]] <= due[x[j]]
      BY <2>2 DEF Holed
    <3>5. i > 1 => due[x[i \div 2]] <= due[elt]
      BY <2>2 DEF LastAbove
    <3>6. gg \in [1 .. n -> 1 .. n]
      BY <1>1, <1>4
    <3> QED BY <2>3, <2>7, <3>1, <3>2, <3>3, <3>4, <3>5, <3>6 DEF Plunge
  <2>9. \A j \in 2 .. n : due[y[j \div 2]] <= due[y[j]]
    BY <2>8, DownRestores
  <2> QED BY <2>2, <2>9 DEF Ordered
<1> QED BY <1>12, <1>15, <1>17, <1>18

-----------------------------------------------------------------------------
(* The operations. *)

\* A heap of n elements of S in order; an element that has an index is in it.
Sound(S, n, h, due) ==
    /\ n \in Nat /\ h \in Heaps(S, n) /\ due \in [S -> Nat]
    /\ Ordered(h, n, due)
    /\ \A j \in 1 .. n : h.index[h.array[j]] = j
    /\ \A e \in S : h.index[e] # 0 => \E j \in 1 .. n : h.array[j] = e

\* A sound heap in terms of its parts.
LEMMA SoundParts ==
    ASSUME NEW S, NEW n, NEW h, NEW due, Sound(S, n, h, due)
    PROVE  \E a \in [1 .. n -> S], x \in [S -> Nat] :
              /\ n \in Nat /\ due \in [S -> Nat] /\ a = h.array /\ x = h.index /\ Len(a) = n
              /\ \A j \in 1 .. n : x[a[j]] = j
              /\ \A e \in S : x[e] # 0 => x[e] \in 1 .. n /\ a[x[e]] = e
              /\ \A j, k \in 1 .. n : a[j] = a[k] => j = k
<1>1. PICK a \in [1 .. n -> S], x \in [S -> Nat] : a = h.array /\ x = h.index
  BY DEF Sound, Heaps
<1>2. n \in Nat /\ due \in [S -> Nat]
  BY DEF Sound
<1>3. Len(a) = n
  BY <1>2, LenIs
<1>4. /\ \A j \in 2 .. n : due[a[j \div 2]] <= due[a[j]]
      /\ \A j \in 1 .. n : x[a[j]] = j
      /\ \A e \in S : x[e] # 0 => \E j \in 1 .. n : a[j] = e
  BY <1>1 DEF Sound, Ordered
<1>5. \A e \in S : x[e] # 0 => x[e] \in 1 .. n /\ a[x[e]] = e
  BY <1>4
<1>6. \A j, k \in 1 .. n : a[j] = a[k] => j = k
  BY <1>4
<1> QED BY <1>1, <1>2, <1>3, <1>4, <1>5, <1>6, SMTT(30)

\* The order of a sound heap.
LEMMA SoundOrder ==
    ASSUME NEW S, NEW n, NEW h, NEW due, Sound(S, n, h, due), NEW j \in 2 .. n
    PROVE  \E q \in 1 .. n : /\ q = j \div 2 /\ q < j /\ j \in 1 .. n
                             /\ due[h.array[q]] <= due[h.array[j]]
                             /\ due[h.array[q]] \in Nat /\ due[h.array[j]] \in Nat
<1>1. PICK a \in [1 .. n -> S] : n \in Nat /\ due \in [S -> Nat] /\ a = h.array
  BY DEF Sound, Heaps
<1>2. PICK q \in 1 .. n : q = j \div 2 /\ q < j /\ j \in 1 .. n
  BY <1>1, Parents
<1>3. due[h.array[q]] <= due[h.array[j]]
  BY <1>2 DEF Sound, Ordered
<1>4. due[a[q]] \in Nat /\ due[a[j]] \in Nat
  BY <1>1, <1>2
<1> QED BY <1>1, <1>2, <1>3, <1>4

\* The times of all elements but t are the same.
Changed(S, due, new, t) == new \in [S -> Nat] /\ \A e \in S \ {t} : new[e] = due[e]

\* The times of elements outside do not matter.
LEMMA SoundOther ==
    ASSUME NEW S, NEW n, NEW h, NEW due, Sound(S, n, h, due), NEW new, NEW t,
           Changed(S, due, new, t), h.index[t] = 0
    PROVE  Sound(S, n, h, new)
<1>1. PICK a \in [1 .. n -> S], x \in [S -> Nat] :
              /\ n \in Nat /\ due \in [S -> Nat] /\ a = h.array /\ x = h.index
              /\ \A j \in 1 .. n : x[a[j]] = j
  BY SoundParts
<1>2. \A j \in 1 .. n : new[a[j]] = due[a[j]]
  <2>1. \A j \in 1 .. n : a[j] # t
    BY <1>1
  <2> QED BY <2>1 DEF Changed
<1>3. ASSUME NEW j \in 2 .. n PROVE new[a[j \div 2]] <= new[a[j]]
  <2>1. PICK q \in 1 .. n : q = j \div 2 /\ j \in 1 .. n /\ due[h.array[q]] <= due[h.array[j]]
    BY SoundOrder
  <2> QED BY <1>1, <1>2, <2>1
<1>4. Ordered(h, n, new)
  BY <1>1, <1>3 DEF Ordered
<1> QED BY <1>4 DEF Sound, Changed

\* A sound heap with a hole at i where elt was.
LEMMA HoleAt ==
    ASSUME NEW S, NEW n, NEW h, NEW due, Sound(S, n, h, due), NEW i \in 1 .. n,
           NEW elt, elt = h.array[i], NEW new, Changed(S, due, new, elt)
    PROVE  Holed(h, n, i, elt, new)
<1>1. PICK a \in [1 .. n -> S], x \in [S -> Nat] :
              /\ n \in Nat /\ due \in [S -> Nat] /\ a = h.array /\ x = h.index
              /\ \A j \in 1 .. n : x[a[j]] = j
              /\ \A j, k \in 1 .. n : a[j] = a[k] => j = k
  BY SoundParts
<1>2. \A j \in (1 .. n) \ {i} : a[j] # elt /\ new[a[j]] = due[a[j]]
  <2>1. \A j \in (1 .. n) \ {i} : a[j] # elt /\ a[j] \in S
    BY <1>1
  <2> QED BY <2>1 DEF Changed
<1>4. ASSUME NEW j \in 2 .. n, j # i, j \div 2 # i PROVE new[a[j \div 2]] <= new[a[j]]
  <2>1. PICK q \in 1 .. n : q = j \div 2 /\ j \in 1 .. n /\ due[h.array[q]] <= due[h.array[j]]
    BY SoundOrder
  <2> QED BY <1>1, <1>2, <1>4, <2>1
<1>5. ASSUME NEW j \in 2 .. n, i > 1, j \div 2 = i PROVE new[a[i \div 2]] <= new[a[j]]
  <2>1. i \in 2 .. n
    BY <1>1, <1>5
  <2>2. PICK q \in 1 .. n : /\ q = i \div 2 /\ q < i /\ due[h.array[q]] <= due[h.array[i]]
                           /\ due[h.array[q]] \in Nat
    BY <2>1, SoundOrder
  <2>3. PICK p \in 1 .. n : /\ p = j \div 2 /\ p < j /\ j \in 1 .. n /\ due[h.array[p]] <= due[h.array[j]]
                           /\ due[h.array[p]] \in Nat /\ due[h.array[j]] \in Nat
    BY SoundOrder
  <2>4. due[h.array[q]] <= due[h.array[j]] /\ j # i /\ q # i
    BY <1>5, <2>2, <2>3
  <2> QED BY <1>1, <1>2, <2>2, <2>3, <2>4
<1>6. Apart(h, elt, i)
  BY <1>1, <1>2 DEF Apart
<1>7. /\ \A j \in 2 .. n : j # i /\ j \div 2 # i => new[h.array[j \div 2]] <= new[h.array[j]]
      /\ \A j \in 2 .. n : i > 1 /\ j \div 2 = i => new[h.array[i \div 2]] <= new[h.array[j]]
      /\ \A j \in (1 .. n) \ {i} : h.index[h.array[j]] = j
  BY <1>1, <1>4, <1>5
<1> QED BY <1>6, <1>7 DEF Holed

\* A sound heap r of n elements with t in it, and otherwise those of h.
With(S, n, r, due, h, t) ==
    /\ Sound(S, n, r, due)
    /\ r.index[t] # 0
    /\ \A e \in S : e # t => (r.index[e] # 0 <=> h.index[e] # 0)

\* What float_up() and sink_down() leave, if all that have an index are inside.
Shifted(S, n, r, due, heap, elt, i) ==
    /\ n \in Nat /\ heap \in Heaps(S, n) /\ elt \in S /\ i \in 1 .. n
    /\ due \in [S -> Nat] /\ r \in Heaps(S, n)
    /\ AtRest(r, heap, elt, i) /\ Ordered(r, n, due)
    /\ \A e \in S : e # elt /\ heap.index[e] # 0 => \E j \in (1 .. n) \ {i} : heap.array[j] = e
    /\ \A j \in (1 .. n) \ {i} : heap.index[heap.array[j]] = j

\* Then the result is a sound heap that has elt and the others.
LEMMA ShiftedIs ==
    ASSUME NEW S, NEW n, NEW r, NEW due, NEW heap, NEW elt, NEW i,
           Shifted(S, n, r, due, heap, elt, i)
    PROVE  With(S, n, r, due, heap, elt)
<1>0. n \in Nat /\ elt \in S /\ i \in 1 .. n
  BY DEF Shifted
<1>1. PICK a \in [1 .. n -> S], x \in [S -> Nat], b \in [1 .. n -> S], y \in [S -> Nat] :
        a = heap.array /\ x = heap.index /\ b = r.array /\ y = r.index
  BY DEF Heaps, Shifted
<1>2. /\ \A j \in 1 .. n : y[b[j]] = j
      /\ \A e \in S : (\E j \in 1 .. n : b[j] = e) <=> e = elt \/ \E j \in (1 .. n) \ {i} : a[j] = e
      /\ \A e \in S : (e # elt /\ \A j \in (1 .. n) \ {i} : a[j] # e) => y[e] = x[e]
  <2>1. DOMAIN heap.array = 1 .. n /\ DOMAIN heap.index = S
    BY <1>1
  <2>2. AtRest(r, heap, elt, i)
    BY DEF Shifted
  <2> QED BY <1>1, <2>1, <2>2 DEF AtRest
<1>3. /\ \A e \in S : e # elt /\ x[e] # 0 => \E j \in (1 .. n) \ {i} : a[j] = e
      /\ \A j \in (1 .. n) \ {i} : x[a[j]] = j
  BY <1>1 DEF Shifted
<1>4. ASSUME NEW e \in S, y[e] # 0 PROVE \E j \in 1 .. n : b[j] = e
  BY <1>2, <1>3, <1>4
<1>5. Sound(S, n, r, due)
  BY <1>1, <1>2, <1>4 DEF Sound, Shifted
<1>6. y[elt] # 0
  <2>1. PICK j \in 1 .. n : b[j] = elt
    BY <1>0, <1>2
  <2> QED BY <1>0, <1>2, <2>1
<1>7. ASSUME NEW e \in S, e # elt PROVE y[e] # 0 <=> x[e] # 0
  <2>1. CASE \E j \in (1 .. n) \ {i} : a[j] = e
    <3>1. PICK j \in (1 .. n) \ {i} : a[j] = e
      BY <2>1
    <3>2. PICK k \in 1 .. n : b[k] = e
      BY <1>2, <2>1
    <3>3. x[e] = j /\ y[e] = k
      BY <1>2, <1>3, <3>1, <3>2
    <3> QED BY <1>0, <3>3, SMTT(30)
  <2>2. CASE \A j \in (1 .. n) \ {i} : a[j] # e
    BY <1>2, <1>7, <2>2
  <2> QED BY <2>1, <2>2
<1> QED BY <1>1, <1>5, <1>6, <1>7 DEF With

\* An element that comes earlier than before.
LEMMA IncreasedIs ==
    ASSUME NEW S, NEW n, NEW h, NEW due, Sound(S, n, h, due), NEW t \in S, h.index[t] # 0,
           NEW new, Changed(S, due, new, t), new[t] < due[t]
    PROVE  With(S, n, isc_heap_increased(h, h.index[t], new), new, h, t)
<1>1. PICK a \in [1 .. n -> S], x \in [S -> Nat] :
              /\ n \in Nat /\ due \in [S -> Nat] /\ a = h.array /\ x = h.index
              /\ \A j \in 1 .. n : x[a[j]] = j
              /\ \A e \in S : x[e] # 0 => x[e] \in 1 .. n /\ a[x[e]] = e
              /\ \A j, k \in 1 .. n : a[j] = a[k] => j = k
  BY SoundParts
<1>2. PICK i \in 1 .. n : i = h.index[t] /\ a[i] = t /\ t = h.array[i]
  BY <1>1
<1>3. Holed(h, n, i, t, new)
  BY <1>2, HoleAt
<1>4. FirstBelow(h, n, i, t, new)
  <2>1. ASSUME NEW j \in 2 .. n, j \div 2 = i PROVE new[t] <= new[a[j]]
    <3>1. PICK q \in 1 .. n : /\ q = j \div 2 /\ q < j /\ j \in 1 .. n
                             /\ due[h.array[q]] <= due[h.array[j]]
                             /\ due[h.array[q]] \in Nat /\ due[h.array[j]] \in Nat
      BY SoundOrder
    <3>2. q = i /\ q # j
      BY <2>1, <3>1
    <3>3. a[j] # t /\ a[j] \in S
      BY <1>1, <1>2, <3>1, <3>2
    <3>4. new[a[j]] = due[a[j]] /\ new[t] \in Nat
      BY <3>3 DEF Changed
    <3>5. due[t] <= due[a[j]] /\ due[t] \in Nat /\ due[a[j]] \in Nat
      BY <1>1, <1>2, <3>1, <3>2
    <3> QED BY <3>4, <3>5
  <2> QED BY <1>1, <2>1 DEF FirstBelow
<1>5. h \in Heaps(S, n) /\ new \in [S -> Nat]
  BY DEF Sound, Changed
<1>6. PICK r \in Heaps(S, n) : /\ r = float_up(h, i, t, new)
                               /\ AtRest(r, h, t, i) /\ Ordered(r, n, new)
  BY <1>1, <1>3, <1>4, <1>5, FloatUpIs
<1>7. \A e \in S : e # t /\ h.index[e] # 0 => \E j \in (1 .. n) \ {i} : h.array[j] = e
  <2>1. \A e \in S : e # t /\ x[e] # 0 => x[e] \in (1 .. n) \ {i} /\ a[x[e]] = e
    BY <1>1, <1>2, SMTT(30)
  <2> QED BY <1>1, <2>1
<1>8. \A j \in (1 .. n) \ {i} : h.index[h.array[j]] = j
  BY <1>1
<1>9. Shifted(S, n, r, new, h, t, i)
  BY <1>1, <1>5, <1>6, <1>7, <1>8 DEF Shifted
<1>10. isc_heap_increased(h, h.index[t], new) = r
  BY <1>1, <1>2, <1>6 DEF isc_heap_increased
<1> QED BY <1>9, <1>10, ShiftedIs

\* An element that comes later than before.
LEMMA DecreasedIs ==
    ASSUME NEW S, NEW n, NEW h, NEW due, Sound(S, n, h, due), NEW t \in S, h.index[t] # 0,
           NEW new, Changed(S, due, new, t), new[t] > due[t]
    PROVE  With(S, n, isc_heap_decreased(h, h.index[t], new), new, h, t)
<1>1. PICK a \in [1 .. n -> S], x \in [S -> Nat] :
              /\ n \in Nat /\ due \in [S -> Nat] /\ a = h.array /\ x = h.index
              /\ \A j \in 1 .. n : x[a[j]] = j
              /\ \A e \in S : x[e] # 0 => x[e] \in 1 .. n /\ a[x[e]] = e
              /\ \A j, k \in 1 .. n : a[j] = a[k] => j = k
  BY SoundParts
<1>2. PICK i \in 1 .. n : i = h.index[t] /\ a[i] = t /\ t = h.array[i]
  BY <1>1
<1>3. Holed(h, n, i, t, new)
  BY <1>2, HoleAt
<1>4. LastAbove(h, i, t, new)
  <2>1. ASSUME i > 1 PROVE new[a[i \div 2]] <= new[t]
    <3>0. i \in 2 .. n
      BY <1>1, <2>1
    <3>1. PICK q \in 1 .. n : /\ q = i \div 2 /\ q < i
                             /\ due[h.array[q]] <= due[h.array[i]]
                             /\ due[h.array[q]] \in Nat /\ due[h.array[i]] \in Nat
      BY <3>0, SoundOrder
    <3>2. q # i
      BY <3>1
    <3>3. a[q] # t /\ a[q] \in S
      BY <1>1, <1>2, <3>2
    <3>4. new[a[q]] = due[a[q]] /\ new[t] \in Nat
      BY <3>3 DEF Changed
    <3>5. due[a[q]] <= due[t] /\ due[a[q]] \in Nat /\ due[t] \in Nat
      BY <1>1, <1>2, <3>1
    <3>6. new[a[q]] <= new[t]
      BY <3>4, <3>5
    <3> QED BY <3>1, <3>6
  <2> QED BY <1>1, <2>1 DEF LastAbove
<1>5. h \in Heaps(S, n) /\ new \in [S -> Nat]
  BY DEF Sound, Changed
<1>6. PICK r \in Heaps(S, n) : /\ r = sink_down(h, i, t, new)
                               /\ AtRest(r, h, t, i) /\ Ordered(r, n, new)
  BY <1>1, <1>3, <1>4, <1>5, SinkDownIs
<1>7. \A e \in S : e # t /\ h.index[e] # 0 => \E j \in (1 .. n) \ {i} : h.array[j] = e
  <2>1. \A e \in S : e # t /\ x[e] # 0 => x[e] \in (1 .. n) \ {i} /\ a[x[e]] = e
    BY <1>1, <1>2, SMTT(30)
  <2> QED BY <1>1, <2>1
<1>8. \A j \in (1 .. n) \ {i} : h.index[h.array[j]] = j
  BY <1>1
<1>9. Shifted(S, n, r, new, h, t, i)
  BY <1>1, <1>5, <1>6, <1>7, <1>8 DEF Shifted
<1>10. isc_heap_decreased(h, h.index[t], new) = r
  BY <1>1, <1>2, <1>6 DEF isc_heap_decreased
<1> QED BY <1>9, <1>10, ShiftedIs

\* A new element.
LEMMA InsertIs ==
    ASSUME NEW S, NEW n, NEW h, NEW due, Sound(S, n, h, due), NEW t \in S, h.index[t] = 0
    PROVE  With(S, n + 1, isc_heap_insert(h, t, due), due, h, t)
<1>1. PICK a \in [1 .. n -> S], x \in [S -> Nat] :
              /\ n \in Nat /\ due \in [S -> Nat] /\ a = h.array /\ x = h.index
              /\ \A j \in 1 .. n : x[a[j]] = j
              /\ \A e \in S : x[e] # 0 => x[e] \in 1 .. n /\ a[x[e]] = e
              /\ \A j, k \in 1 .. n : a[j] = a[k] => j = k
  BY SoundParts
<1>2. PICK m \in Nat : m = n + 1 /\ n < m
  BY <1>1
<1>l. PICK b \in [1 .. m -> S] : b = Append(a, t) /\ b[m] = t /\ \A j \in 1 .. n : b[j] = a[j]
  <2>1. a \in Seq(S)
    BY <1>1, LenIs
  <2>l. Len(a) = n
    BY <1>1, LenIs
  <2>2. Append(a, t) \in [1 .. m -> S] /\ Append(a, t)[m] = t /\ \A j \in 1 .. n : Append(a, t)[j] = a[j]
    <3>1. Append(a, t) \in Seq(S) /\ Len(Append(a, t)) = m
      BY <1>1, <1>2, <2>1, <2>l, AppendProperties
    <3>2. Append(a, t) \in [1 .. m -> S]
      BY <3>1, LenProperties
    <3>3. Append(a, t)[m] = t /\ \A j \in 1 .. n : Append(a, t)[j] = a[j]
      BY <1>1, <1>2, <2>1, <2>l, AppendProperties
    <3> QED BY <3>2, <3>3
  <2> QED BY <2>2
<1>3. b[m] = t /\ \A j \in 1 .. n : b[j] = a[j]
  BY <1>l
<1>4. PICK g \in Heaps(S, m) : g = [h EXCEPT !.array = Append(@, t)] /\ g.array = b /\ g.index = x
  <2>1. h = [array |-> a, index |-> x]
    <3>1. h \in [array : [1 .. n -> S], index : [S -> Nat]]
      BY DEF Sound, Heaps
    <3> QED BY <1>1, <3>1
  <2>2. [h EXCEPT !.array = Append(@, t)] = [array |-> b, index |-> x]
    <3>1. [h EXCEPT !.array = Append(@, t)] = [h EXCEPT !.array = b]
      BY <1>1, <1>l
    <3>2. [h EXCEPT !.array = b] = [array |-> b, index |-> x]
      BY <2>1
    <3> QED BY <3>1, <3>2
  <2>3. [array |-> b, index |-> x] \in Heaps(S, m)
    BY DEF Heaps
  <2> QED BY <2>2, <2>3
<1>5. \A j \in 1 .. m : j # m => j \in 1 .. n
  BY <1>1, <1>2
<1>6. Holed(g, m, m, t, due)
  <2>1. ASSUME NEW j \in 2 .. m, j # m PROVE due[b[j \div 2]] <= due[b[j]]
    <3>1. j \in 2 .. n
      BY <1>1, <1>2, <2>1
    <3>2. PICK q \in 1 .. n : q = j \div 2 /\ j \in 1 .. n /\ due[h.array[q]] <= due[h.array[j]]
      BY <3>1, SoundOrder
    <3> QED BY <1>1, <1>3, <3>2
  <2>2. \A j \in 2 .. m : j \div 2 # m
    BY <1>2, Parents
  <2>3. \A j \in (1 .. m) \ {m} : x[b[j]] = j /\ b[j] # t
    <3>1. \A j \in (1 .. m) \ {m} : x[b[j]] = j
      BY <1>1, <1>3, <1>5
    <3>2. x[t] = 0 /\ \A j \in (1 .. m) \ {m} : j # 0
      BY <1>1
    <3> QED BY <3>1, <3>2
  <2>4. \A j, k \in (1 .. m) \ {m} : b[j] = b[k] => j = k
    BY <2>3, Zenon
  <2>5. Apart(g, t, m)
    BY <1>4, <2>3, <2>4 DEF Apart
  <2> QED BY <1>4, <2>1, <2>2, <2>3, <2>5 DEF Holed
<1>7. FirstBelow(g, m, m, t, due)
  <2>1. \A j \in 2 .. m : j \div 2 # m
    BY <1>2, Parents
  <2> QED BY <2>1 DEF FirstBelow
<1>8. m \in 1 .. m
  BY <1>1, <1>2
<1>9. PICK r \in Heaps(S, m) : /\ r = float_up(g, m, t, due)
                               /\ AtRest(r, g, t, m) /\ Ordered(r, m, due)
  BY <1>1, <1>2, <1>4, <1>6, <1>7, <1>8, FloatUpIs
<1>10. \A e \in S : e # t /\ g.index[e] # 0 => \E j \in (1 .. m) \ {m} : g.array[j] = e
  <2>1. \A j \in 1 .. n : j \in (1 .. m) \ {m}
    BY <1>1, <1>2
  <2>2. \A e \in S : x[e] # 0 => x[e] \in (1 .. m) \ {m} /\ b[x[e]] = e
    BY <1>1, <1>3, <2>1, ZenonT(40)
  <2> QED BY <1>4, <2>2
<1>11. \A j \in (1 .. m) \ {m} : g.index[g.array[j]] = j
  <2>1. \A j \in (1 .. m) \ {m} : x[b[j]] = j
    BY <1>1, <1>3, <1>5
  <2> QED BY <1>4, <2>1
<1>12. Shifted(S, m, r, due, g, t, m)
  BY <1>1, <1>2, <1>4, <1>8, <1>9, <1>10, <1>11 DEF Shifted
<1>13. With(S, m, r, due, g, t)
  BY <1>12, ShiftedIs
<1>14. isc_heap_insert(h, t, due) = r
  <2>1. Len(h.array) = n
    BY <1>1, LenIs
  <2> QED BY <1>2, <1>4, <1>9, <2>1 DEF isc_heap_insert
<1> QED BY <1>1, <1>2, <1>4, <1>13, <1>14 DEF With

\* A sound heap r of n elements without t, and otherwise those of h.
Sans(S, n, r, due, h, t) ==
    /\ Sound(S, n, r, due)
    /\ r.index[t] = 0
    /\ \A e \in S : e # t => (r.index[e] # 0 <=> h.index[e] # 0)

\* The element that was deleted is told so by its owner.
Forgotten(r, t) == [r EXCEPT !.index[t] = 0]

\* Telling an element changes nothing else.
LEMMA ToldIs ==
    ASSUME NEW S, NEW n, NEW r \in Heaps(S, n), NEW t \in S
    PROVE  /\ Forgotten(r, t) \in Heaps(S, n)
           /\ Forgotten(r, t).array = r.array
           /\ Forgotten(r, t).index[t] = 0
           /\ \A e \in S : e # t => Forgotten(r, t).index[e] = r.index[e]
  BY DEF Heaps, Forgotten

\* What float_up() and sink_down() leave where t was, once t is told.
Replaced(S, n, r, due, heap, elt, i, t) ==
    /\ n \in Nat /\ heap \in Heaps(S, n) /\ elt \in S /\ i \in 1 .. n /\ t \in S /\ t # elt
    /\ due \in [S -> Nat] /\ r \in Heaps(S, n)
    /\ AtRest(r, heap, elt, i) /\ Ordered(r, n, due)
    /\ heap.index[elt] # 0
    /\ \A e \in S : e # elt /\ e # t /\ heap.index[e] # 0 => \E j \in (1 .. n) \ {i} : heap.array[j] = e
    /\ \A j \in (1 .. n) \ {i} : heap.index[heap.array[j]] = j /\ heap.array[j] # t

\* Then the result is a sound heap without t.
LEMMA ReplacedIs ==
    ASSUME NEW S, NEW n, NEW r, NEW due, NEW heap, NEW elt, NEW i, NEW t,
           Replaced(S, n, r, due, heap, elt, i, t)
    PROVE  Sans(S, n, Forgotten(r, t), due, heap, t)
<1>0. n \in Nat /\ elt \in S /\ i \in 1 .. n /\ t \in S /\ elt # t
  BY DEF Replaced
<1>1. PICK a \in [1 .. n -> S], x \in [S -> Nat], b \in [1 .. n -> S], y \in [S -> Nat] :
        a = heap.array /\ x = heap.index /\ b = r.array /\ y = r.index
  BY DEF Heaps, Replaced
<1>2. /\ \A j \in 1 .. n : y[b[j]] = j
      /\ \A e \in S : (\E j \in 1 .. n : b[j] = e) <=> e = elt \/ \E j \in (1 .. n) \ {i} : a[j] = e
      /\ \A e \in S : (e # elt /\ \A j \in (1 .. n) \ {i} : a[j] # e) => y[e] = x[e]
  <2>1. DOMAIN heap.array = 1 .. n /\ DOMAIN heap.index = S
    BY <1>1
  <2>2. AtRest(r, heap, elt, i)
    BY DEF Replaced
  <2> QED BY <1>1, <2>1, <2>2 DEF AtRest
<1>3. /\ x[elt] # 0
      /\ \A e \in S : e # elt /\ e # t /\ x[e] # 0 => \E j \in (1 .. n) \ {i} : a[j] = e
      /\ \A j \in (1 .. n) \ {i} : x[a[j]] = j /\ a[j] # t
  BY <1>1 DEF Replaced
<1>4. PICK q \in Heaps(S, n) : q = Forgotten(r, t) /\ q.array = b
                               /\ q.index[t] = 0 /\ \A e \in S : e # t => q.index[e] = y[e]
  <2>1. r \in Heaps(S, n)
    BY DEF Replaced
  <2> QED BY <1>0, <1>1, <2>1, ToldIs
<1>5. PICK z \in [S -> Nat] : z = q.index
  BY DEF Heaps
<1>6. z[t] = 0 /\ \A e \in S : e # t => z[e] = y[e]
  BY <1>4, <1>5
<1>7. \A j \in 1 .. n : b[j] # t
  <2>1. ~ \E j \in 1 .. n : b[j] = t
    BY <1>0, <1>2, <1>3
  <2> QED BY <2>1
<1>8. \A j \in 1 .. n : z[b[j]] = j
  BY <1>2, <1>6, <1>7
<1>9. ASSUME NEW e \in S, z[e] # 0 PROVE \E j \in 1 .. n : b[j] = e
  <2>1. e # t /\ y[e] # 0
    BY <1>6, <1>9
  <2> QED BY <1>2, <1>3, <2>1
<1>10. Ordered(q, n, due)
  <2>1. Ordered(r, n, due)
    BY DEF Replaced
  <2> QED BY <1>1, <1>4, <2>1 DEF Ordered
<1>11. Sound(S, n, q, due)
  BY <1>4, <1>5, <1>8, <1>9, <1>10 DEF Sound, Replaced
<1>12. ASSUME NEW e \in S, e # t PROVE z[e] # 0 <=> x[e] # 0
  <2>1. z[e] = y[e]
    BY <1>6, <1>12
  <2>2. CASE e = elt
    <3>1. PICK j \in 1 .. n : b[j] = e
      BY <1>2, <2>2
    <3> QED BY <1>0, <1>2, <1>3, <2>1, <2>2, <3>1
  <2>3. CASE e # elt /\ \E j \in (1 .. n) \ {i} : a[j] = e
    <3>1. PICK j \in (1 .. n) \ {i} : a[j] = e
      BY <2>3
    <3>2. PICK k \in 1 .. n : b[k] = e
      BY <1>2, <2>3
    <3>3. x[e] = j /\ y[e] = k
      BY <1>2, <1>3, <3>1, <3>2
    <3>4. j # 0 /\ k # 0
      BY <1>0, SMTT(30)
    <3> QED BY <2>1, <3>3, <3>4
  <2>4. CASE e # elt /\ \A j \in (1 .. n) \ {i} : a[j] # e
    BY <1>2, <2>1, <2>4
  <2> QED BY <2>2, <2>3, <2>4
<1> QED BY <1>1, <1>4, <1>5, <1>6, <1>11, <1>12 DEF Sans

\* An element leaves.
LEMMA DeleteIs ==
    ASSUME NEW S, NEW n, NEW h, NEW due, Sound(S, n, h, due), NEW t \in S, h.index[t] # 0
    PROVE  /\ n > 0 /\ isc_heap_delete(h, h.index[t], due) \in Heaps(S, n - 1)
           /\ Sans(S, n - 1, Forgotten(isc_heap_delete(h, h.index[t], due), t), due, h, t)
<1>1. PICK a \in [1 .. n -> S], x \in [S -> Nat] :
              /\ n \in Nat /\ due \in [S -> Nat] /\ a = h.array /\ x = h.index
              /\ \A j \in 1 .. n : x[a[j]] = j
              /\ \A e \in S : x[e] # 0 => x[e] \in 1 .. n /\ a[x[e]] = e
              /\ \A j, k \in 1 .. n : a[j] = a[k] => j = k
  BY SoundParts
<1>2. PICK i \in 1 .. n : i = h.index[t] /\ a[i] = t
  BY <1>1
<1>3. PICK m \in Nat : m = n - 1 /\ m + 1 = n /\ n \in 1 .. n /\ n > 0
  BY <1>1, <1>2
<1>4. PICK elt \in S : elt = a[n]
  BY <1>3
<1>l. PICK b \in [1 .. m -> S] : b = Front(a) /\ \A j \in 1 .. m : b[j] = a[j]
  <2>1. a \in Seq(S) /\ Len(a) = n
    BY <1>1, LenIs
  <2>2. SubSeq(a, 1, m) \in [1 .. m -> S] /\ \A j \in 1 .. m : SubSeq(a, 1, m)[j] = a[j]
    <3>1. 1 \in 1 .. n + 1 /\ m \in 0 .. n
      BY <1>1, <1>3
    <3>2. /\ SubSeq(a, 1, m) \in Seq(S) /\ Len(SubSeq(a, 1, m)) = m
          /\ \A j \in 1 .. m : SubSeq(a, 1, m)[j] = a[j]
      BY <1>3, <2>1
    <3>3. SubSeq(a, 1, m) \in [1 .. m -> S]
      BY <3>2, LenProperties
    <3> QED BY <3>2, <3>3
  <2>3. Front(a) = SubSeq(a, 1, m)
    BY <1>3, <2>1 DEF Front
  <2> QED BY <2>2, <2>3
<1>5. \A j \in 1 .. m : b[j] = a[j]
  BY <1>l
<1>6. PICK g \in Heaps(S, m) : g = [h EXCEPT !.array = Front(@)] /\ g.array = b /\ g.index = x
  <2>1. h = [array |-> a, index |-> x]
    <3>1. h \in [array : [1 .. n -> S], index : [S -> Nat]]
      BY DEF Sound, Heaps
    <3> QED BY <1>1, <3>1
  <2>2. [h EXCEPT !.array = Front(@)] = [array |-> b, index |-> x]
    <3>1. [h EXCEPT !.array = Front(@)] = [h EXCEPT !.array = b]
      BY <1>1, <1>l
    <3>2. [h EXCEPT !.array = b] = [array |-> b, index |-> x]
      BY <2>1
    <3> QED BY <3>1, <3>2
  <2>3. [array |-> b, index |-> x] \in Heaps(S, m)
    BY DEF Heaps
  <2> QED BY <2>2, <2>3
<1>7. isc_heap_delete(h, h.index[t], due) =
        IF i = n THEN g
        ELSE IF due[elt] < due[t] THEN float_up(g, i, elt, due) ELSE sink_down(g, i, elt, due)
  <2>1. Len(h.array) = n /\ Last(h.array) = elt /\ h.array[i] = t
    BY <1>1, <1>2, <1>4, LenIs DEF Last
  <2> QED BY <1>2, <1>6, <2>1 DEF isc_heap_delete, sooner
<1>8. \A j \in 1 .. m : j \in 1 .. n /\ j # n
  BY <1>1, <1>3
<1>9. \A j \in 1 .. n : j # n => j \in 1 .. m
  BY <1>1, <1>3
<1>x. \A j \in 1 .. n : x[a[j]] = j
  BY <1>1
<1>10. ASSUME NEW j \in 1 .. m PROVE x[b[j]] = j
  BY <1>5, <1>8, <1>x, Zenon
<1>11. \A j, k \in 1 .. m : b[j] = b[k] => j = k
  BY <1>10, Zenon
<1>12. \A e \in S : x[e] # 0 /\ x[e] # n => x[e] \in 1 .. m /\ b[x[e]] = e
  BY <1>1, <1>5, <1>9
<1>13. \A j \in 2 .. m : \E q \in 1 .. m : /\ q = j \div 2 /\ q < j /\ j \in 1 .. m
                                           /\ due[b[q]] <= due[b[j]]
                                           /\ due[b[q]] \in Nat /\ due[b[j]] \in Nat
  <2> SUFFICES ASSUME NEW j \in 2 .. m
               PROVE  \E q \in 1 .. m : /\ q = j \div 2 /\ q < j /\ j \in 1 .. m
                                        /\ due[b[q]] <= due[b[j]]
                                        /\ due[b[q]] \in Nat /\ due[b[j]] \in Nat
    OBVIOUS
  <2>1. j \in 2 .. n
    BY <1>1, <1>3
  <2>2. PICK q \in 1 .. n : /\ q = j \div 2 /\ q < j
                            /\ due[h.array[q]] <= due[h.array[j]]
                            /\ due[h.array[q]] \in Nat /\ due[h.array[j]] \in Nat
    BY <2>1, SoundOrder
  <2>3. q \in 1 .. m /\ j \in 1 .. m
    BY <1>1, <1>3, <2>2
  <2> QED BY <1>1, <1>5, <2>2, <2>3
<1>14. Ordered(g, m, due)
  BY <1>6, <1>13 DEF Ordered
<1>15. CASE i = n
  <2>1. elt = t /\ x[t] = n
    BY <1>1, <1>2, <1>4, <1>15
  <2>2. PICK q \in Heaps(S, m) : q = Forgotten(g, t) /\ q.array = b
                                 /\ q.index[t] = 0 /\ \A e \in S : e # t => q.index[e] = x[e]
    <3>1. Forgotten(g, t) \in Heaps(S, m) /\ Forgotten(g, t).array = g.array /\ Forgotten(g, t).index[t] = 0
      BY ToldIs
    <3>2. \A e \in S : e # t => Forgotten(g, t).index[e] = g.index[e]
      BY ToldIs
    <3> QED BY <1>6, <3>1, <3>2
  <2>3. PICK z \in [S -> Nat] : z = q.index
    BY DEF Heaps
  <2>4. z[t] = 0 /\ \A e \in S : e # t => z[e] = x[e]
    BY <2>2, <2>3
  <2>5. \A j \in 1 .. m : b[j] # t
    BY <1>8, <1>10, <2>1
  <2>6. \A j \in 1 .. m : z[b[j]] = j
    BY <1>10, <2>4, <2>5
  <2>7. ASSUME NEW e \in S, z[e] # 0 PROVE \E j \in 1 .. m : b[j] = e
    <3>1. e # t /\ x[e] # 0
      BY <2>4, <2>7
    <3>2. x[e] # n
      <4>1. a[x[e]] = e
        BY <1>1, <3>1
      <4> QED BY <1>4, <2>1, <3>1, <4>1
    <3> QED BY <1>12, <3>1, <3>2
  <2>8. Ordered(q, m, due)
    BY <1>6, <1>14, <2>2 DEF Ordered
  <2>9. Sound(S, m, q, due)
    BY <1>1, <2>2, <2>3, <2>6, <2>7, <2>8 DEF Sound
  <2>10. isc_heap_delete(h, h.index[t], due) = g
    BY <1>7, <1>15
  <2> QED BY <1>1, <1>3, <2>2, <2>3, <2>4, <2>9, <2>10 DEF Sans
<1>16. CASE i # n
  <2>1. i \in 1 .. m /\ elt # t /\ x[elt] = n /\ n # 0
    BY <1>1, <1>2, <1>3, <1>4, <1>9, <1>16, SMTT(30)
  <2>2. \A j \in 1 .. m : b[j] # elt
    BY <1>8, <1>10, <2>1
  <2>3. \A j \in (1 .. m) \ {i} : b[j] # t
    BY <1>2, <1>5, <1>11, <2>1
  <2>4. b[i] = t
    BY <1>2, <1>5, <2>1
  <2>5. Holed(g, m, i, elt, due)
    <3>1. \A j \in 2 .. m : due[b[j \div 2]] <= due[b[j]]
      BY <1>13
    <3>2. ASSUME NEW j \in 2 .. m, i > 1, j \div 2 = i PROVE due[b[i \div 2]] <= due[b[j]]
      <4>1. i \in 2 .. m
        BY <1>3, <2>1, <3>2
      <4>2. PICK q \in 1 .. m : q = i \div 2 /\ due[b[q]] <= due[b[i]] /\ due[b[q]] \in Nat /\ due[b[i]] \in Nat
        BY <1>13, <4>1
      <4>3. PICK p \in 1 .. m : p = j \div 2 /\ due[b[p]] <= due[b[j]] /\ due[b[j]] \in Nat
        BY <1>13
      <4>4. due[b[q]] <= due[b[j]]
        <5>1. PICK u, v, w \in Nat : u = due[b[q]] /\ v = due[b[i]] /\ w = due[b[j]]
          BY <4>2, <4>3
        <5>2. u <= v /\ v <= w
          BY <3>2, <4>2, <4>3, <5>1
        <5>3. u <= w
          BY <5>2
        <5> QED BY <5>1, <5>3
      <4> QED BY <4>2, <4>4
    <3>3. Apart(g, elt, i)
      BY <1>6, <1>11, <2>2, ZenonT(40) DEF Apart
    <3>4. /\ \A j \in 2 .. m : due[g.array[j \div 2]] <= due[g.array[j]]
          /\ \A j \in 2 .. m : i > 1 /\ j \div 2 = i => due[g.array[i \div 2]] <= due[g.array[j]]
          /\ \A j \in (1 .. m) \ {i} : g.index[g.array[j]] = j
      BY <1>6, <1>10, <3>1, <3>2
    <3> QED BY <3>3, <3>4 DEF Holed
  <2>6. \E r \in Heaps(S, m) : /\ r = isc_heap_delete(h, h.index[t], due)
                               /\ AtRest(r, g, elt, i) /\ Ordered(r, m, due)
    <3>0. due[elt] \in Nat /\ due[t] \in Nat /\ due \in [S -> Nat]
      BY <1>1
    <3>1. CASE due[elt] < due[t]
      <4>1. FirstBelow(g, m, i, elt, due)
        <5>1. ASSUME NEW j \in 2 .. m, j \div 2 = i PROVE due[elt] <= due[b[j]]
          <6>1. PICK p \in 1 .. m : p = j \div 2 /\ due[b[p]] <= due[b[j]] /\ due[b[j]] \in Nat
            BY <1>13
          <6>2. PICK u, v, w \in Nat : u = due[elt] /\ v = due[t] /\ w = due[b[j]]
            BY <3>0, <6>1
          <6>3. u < v /\ v <= w
            BY <2>4, <3>1, <5>1, <6>1, <6>2
          <6>4. u <= w
            BY <6>3
          <6> QED BY <6>2, <6>4
        <5> QED BY <1>6, <5>1 DEF FirstBelow
      <4>2. isc_heap_delete(h, h.index[t], due) = float_up(g, i, elt, due)
        BY <1>7, <1>16, <3>1
      <4> QED BY <2>1, <2>5, <3>0, <4>1, <4>2, FloatUpIs
    <3>2. CASE ~(due[elt] < due[t])
      <4>1. LastAbove(g, i, elt, due)
        <5>1. ASSUME i > 1 PROVE due[b[i \div 2]] <= due[elt]
          <6>1. i \in 2 .. m
            BY <1>3, <2>1, <5>1
          <6>2. PICK q \in 1 .. m : q = i \div 2 /\ due[b[q]] <= due[b[i]] /\ due[b[q]] \in Nat
            BY <1>13, <6>1
          <6>3. due[b[q]] <= due[elt]
            BY <2>4, <3>0, <3>2, <6>2
          <6> QED BY <6>2, <6>3
        <5> QED BY <1>6, <5>1 DEF LastAbove
      <4>2. isc_heap_delete(h, h.index[t], due) = sink_down(g, i, elt, due)
        BY <1>7, <1>16, <3>2
      <4> QED BY <2>1, <2>5, <3>0, <4>1, <4>2, SinkDownIs
    <3> QED BY <3>1, <3>2
  <2>7. PICK r \in Heaps(S, m) : /\ r = isc_heap_delete(h, h.index[t], due)
                                 /\ AtRest(r, g, elt, i) /\ Ordered(r, m, due)
    BY <2>6
  <2>8. Replaced(S, m, r, due, g, elt, i, t)
    <3>1. \A e \in S : e # elt /\ e # t /\ x[e] # 0 => \E j \in (1 .. m) \ {i} : b[j] = e
      <4> SUFFICES ASSUME NEW e \in S, e # elt, e # t, x[e] # 0
                   PROVE  \E j \in (1 .. m) \ {i} : b[j] = e
        OBVIOUS
      <4>1. x[e] # n
        BY <1>1, <1>4
      <4>2. x[e] \in 1 .. m /\ b[x[e]] = e
        BY <1>12, <4>1
      <4>3. x[e] # i
        BY <2>4, <4>2
      <4> QED BY <4>2, <4>3
    <3>2. /\ g.index[elt] # 0
          /\ \A e \in S : e # elt /\ e # t /\ g.index[e] # 0 => \E j \in (1 .. m) \ {i} : g.array[j] = e
          /\ \A j \in (1 .. m) \ {i} : g.index[g.array[j]] = j /\ g.array[j] # t
      BY <1>6, <1>10, <2>1, <2>3, <3>1
    <3> QED BY <1>1, <2>1, <2>7, <3>2 DEF Replaced
  <2>9. Sans(S, m, Forgotten(r, t), due, g, t)
    BY <2>8, ReplacedIs
  <2> QED BY <1>1, <1>3, <1>6, <2>7, <2>9 DEF Sans
<1> QED BY <1>15, <1>16

\* The first element comes before all others.
LEMMA HeadIsLeast ==
    ASSUME NEW S, NEW n, NEW h, NEW due, Sound(S, n, h, due), NEW t \in S, h.index[t] # 0
    PROVE  /\ 1 \in 1 .. n /\ h.array[1] \in S /\ h.index[h.array[1]] = 1
           /\ due[h.array[1]] <= due[t]
           /\ h.index[t] # 1 => h.array[1] # t
<1>1. PICK a \in [1 .. n -> S], x \in [S -> Nat] :
              /\ n \in Nat /\ due \in [S -> Nat] /\ a = h.array /\ x = h.index
              /\ \A j \in 1 .. n : x[a[j]] = j
              /\ \A e \in S : x[e] # 0 => x[e] \in 1 .. n /\ a[x[e]] = e
              /\ \A j, k \in 1 .. n : a[j] = a[k] => j = k
  BY SoundParts
<1>2. PICK i \in 1 .. n : i = x[t] /\ a[i] = t
  BY <1>1
<1>3. 1 \in 1 .. n
  BY <1>1, <1>2
<1> DEFINE T == {j \in 1 .. n : due[a[j]] < due[a[1]]}
<1>4. T = {}
  <2>1. SUFFICES ASSUME T # {} PROVE FALSE
    OBVIOUS
  <2>2. T \in SUBSET Nat
    BY <1>1
  <2> HIDE DEF T
  <2>3. PICK j \in T : \A k \in T : j <= k
    BY <2>1, <2>2, Least
  <2> USE DEF T
  <2>4. j \in 1 .. n /\ j # 1 /\ due[a[j]] < due[a[1]]
    <3>1. j \in 1 .. n /\ due[a[j]] < due[a[1]]
      BY <2>3
    <3>2. due[a[1]] \in Nat
      BY <1>1, <1>3
    <3> QED BY <3>1, <3>2
  <2>5. j \in 2 .. n
    BY <1>1, <2>4
  <2>6. PICK q \in 1 .. n : /\ q < j /\ due[h.array[q]] <= due[h.array[j]]
                            /\ due[h.array[q]] \in Nat /\ due[h.array[j]] \in Nat
    BY <2>5, SoundOrder
  <2>7. due[a[q]] < due[a[1]]
    <3>1. PICK u, v, w \in Nat : u = due[a[q]] /\ v = due[a[j]] /\ w = due[a[1]]
      BY <1>1, <1>3, <2>6
    <3>2. u <= v /\ v < w
      BY <1>1, <2>4, <2>6, <3>1
    <3> QED BY <3>1, <3>2
  <2>8. q \in T
    BY <2>7
  <2> QED BY <1>1, <2>3, <2>4, <2>6, <2>8
<1>5. ~(due[a[i]] < due[a[1]]) /\ due[a[i]] \in Nat /\ due[a[1]] \in Nat
  BY <1>1, <1>3, <1>4
<1>6. due[a[1]] <= due[t]
  BY <1>2, <1>5
<1>7. a[1] \in S /\ x[a[1]] = 1
  BY <1>1, <1>3
<1> QED BY <1>1, <1>3, <1>6, <1>7

-----------------------------------------------------------------------------
(* HeapOpsCorrect, for heaps of any size. *)

\* The elements that are told they are inside.
Members(S, r) == {e \in S : r.index[e] # 0}

\* What a sound heap means to its owner.
LEMMA SoundMeans ==
    ASSUME NEW S, NEW n, NEW r, NEW due, Sound(S, n, r, due)
    PROVE  IsHeap(r, due) /\ Len(r.array) = n /\ ToSet(r.array) = Members(S, r)
<1>1. PICK a \in [1 .. n -> S], x \in [S -> Nat] :
              /\ n \in Nat /\ due \in [S -> Nat] /\ a = r.array /\ x = r.index /\ Len(a) = n
              /\ \A j \in 1 .. n : x[a[j]] = j
              /\ \A e \in S : x[e] # 0 => x[e] \in 1 .. n /\ a[x[e]] = e
  BY SoundParts
<1>2. ASSUME NEW j \in 2 .. n PROVE ~(due[a[j]] < due[a[j \div 2]])
  <2>1. PICK q : q = j \div 2 /\ due[r.array[q]] <= due[r.array[j]]
                 /\ due[r.array[q]] \in Nat /\ due[r.array[j]] \in Nat
    BY SoundOrder
  <2> QED BY <1>1, <2>1
<1>3. IsHeap(r, due)
  BY <1>1, <1>2 DEF IsHeap, sooner
<1>4. ToSet(a) = {a[j] : j \in 1 .. n}
  BY DEF ToSet
<1>5. {a[j] : j \in 1 .. n} = {e \in S : x[e] # 0}
  <2>1. ASSUME NEW j \in 1 .. n PROVE a[j] \in S /\ x[a[j]] # 0
    BY <1>1, <2>1
  <2>2. ASSUME NEW e \in S, x[e] # 0 PROVE \E j \in 1 .. n : a[j] = e
    BY <1>1, <2>2
  <2> QED BY <2>1, <2>2
<1> QED BY <1>1, <1>3, <1>4, <1>5 DEF Members

\* The heap of the first m elements is sound if it has the order of a heap.
LEMMA HeapOfIs ==
    ASSUME NEW m \in Nat, NEW due \in [1 .. m + 1 -> Nat], IsHeap(HeapOf(m), due)
    PROVE  /\ Sound(1 .. m + 1, m, HeapOf(m), due)
           /\ \A e \in 1 .. m + 1 : HeapOf(m).index[e] = IF e <= m THEN e ELSE 0
<1>1. PICK a, x : a = [i \in 1 .. m |-> i] /\ x = [e \in 1 .. m + 1 |-> IF e <= m THEN e ELSE 0]
  OBVIOUS
<1>2. HeapOf(m).array = a /\ HeapOf(m).index = x /\ HeapOf(m) = [array |-> a, index |-> x]
  BY <1>1 DEF HeapOf
<1>3. a \in [1 .. m -> 1 .. m + 1] /\ x \in [1 .. m + 1 -> Nat]
  BY <1>1
<1>4. Len(a) = m
  BY <1>3, LenIs
<1>5. ASSUME NEW j \in 2 .. m PROVE due[a[j \div 2]] <= due[a[j]]
  <2>1. PICK q \in 1 .. m : q = j \div 2 /\ j \in 1 .. m
    BY Parents
  <2>2. due[a[q]] \in Nat /\ due[a[j]] \in Nat
    BY <1>3, <2>1
  <2>3. ~(due[a[j]] < due[a[q]])
    BY <1>2, <1>4, <2>1 DEF IsHeap, sooner
  <2> QED BY <2>1, <2>2, <2>3
<1>6. HeapOf(m) \in Heaps(1 .. m + 1, m)
  BY <1>2, <1>3 DEF Heaps
<1>7. \A j \in 1 .. m : x[a[j]] = j
  BY <1>1
<1>8. \A e \in 1 .. m + 1 : x[e] # 0 => \E j \in 1 .. m : a[j] = e
  BY <1>1
<1>9. Ordered(HeapOf(m), m, due)
  BY <1>2, <1>5 DEF Ordered
<1> QED BY <1>1, <1>2, <1>6, <1>7, <1>8, <1>9 DEF Sound

\* The right heap of the right elements.
GoodHeap(r, d, elements) ==
    IsHeap(r, d) /\ Len(r.array) = Cardinality(elements) /\ ToSet(r.array) = elements

\* isc_heap_insert(), of the heap of the first m elements.
LEMMA InsertGood ==
    ASSUME NEW m \in Nat, NEW due \in [1 .. m + 1 -> Nat], IsHeap(HeapOf(m), due)
    PROVE  GoodHeap(isc_heap_insert(HeapOf(m), m + 1, due), due, 1 .. m + 1)
<1>1. PICK S, h : S = 1 .. m + 1 /\ h = HeapOf(m)
  OBVIOUS
<1>2. /\ Sound(S, m, h, due) /\ m + 1 \in S
      /\ \A e \in S : h.index[e] = IF e <= m THEN e ELSE 0
  <2>1. /\ Sound(1 .. m + 1, m, HeapOf(m), due)
        /\ \A e \in 1 .. m + 1 : HeapOf(m).index[e] = IF e <= m THEN e ELSE 0
    BY HeapOfIs
  <2>2. m + 1 \in 1 .. m + 1
    OBVIOUS
  <2> QED BY <1>1, <2>1, <2>2
<1>3. PICK r : r = isc_heap_insert(h, m + 1, due)
  OBVIOUS
<1>4. h.index[m + 1] = 0
  BY <1>2
<1>5. With(S, m + 1, r, due, h, m + 1)
  BY <1>2, <1>3, <1>4, InsertIs
<1>6. /\ Sound(S, m + 1, r, due) /\ r.index[m + 1] # 0
      /\ \A e \in S : e # m + 1 => (r.index[e] # 0 <=> h.index[e] # 0)
  BY <1>5 DEF With
<1>7. \A e \in S : e # m + 1 => h.index[e] # 0
  BY <1>1, <1>2
<1>8. S = Members(S, r)
  BY <1>6, <1>7 DEF Members
<1>9. IsHeap(r, due) /\ Len(r.array) = m + 1 /\ ToSet(r.array) = S
  BY <1>6, <1>8, SoundMeans
<1>10. Cardinality(S) = m + 1
  BY <1>1, FS_Interval
<1> QED BY <1>1, <1>3, <1>9, <1>10 DEF GoodHeap

\* isc_heap_delete()
LEMMA DeleteGood ==
    ASSUME NEW m \in Nat, NEW due \in [1 .. m + 1 -> Nat], IsHeap(HeapOf(m), due), NEW i \in 1 .. m
    PROVE  GoodHeap(isc_heap_delete(HeapOf(m), i, due), due, (1 .. m) \ {i})
<1>1. PICK S, h : S = 1 .. m + 1 /\ h = HeapOf(m)
  OBVIOUS
<1>2. /\ Sound(S, m, h, due) /\ i \in S
      /\ \A e \in S : h.index[e] = IF e <= m THEN e ELSE 0
  <2>1. /\ Sound(1 .. m + 1, m, HeapOf(m), due)
        /\ \A e \in 1 .. m + 1 : HeapOf(m).index[e] = IF e <= m THEN e ELSE 0
    BY HeapOfIs
  <2>2. i \in 1 .. m + 1
    OBVIOUS
  <2> QED BY <1>1, <2>1, <2>2
<1>3. h.index[i] = i /\ h.index[i] # 0
  BY <1>2
<1>4. PICK r : r = isc_heap_delete(h, i, due)
  OBVIOUS
<1>5. r \in Heaps(S, m - 1) /\ Sans(S, m - 1, Forgotten(r, i), due, h, i)
  BY <1>2, <1>3, <1>4, DeleteIs
<1>6. PICK q : q = Forgotten(r, i)
  OBVIOUS
<1>7. /\ Sound(S, m - 1, q, due) /\ q.index[i] = 0
      /\ \A e \in S : e # i => (q.index[e] # 0 <=> h.index[e] # 0)
  BY <1>5, <1>6 DEF Sans
<1>8. Members(S, q) = (1 .. m) \ {i}
  <2>1. \A e \in S : h.index[e] # 0 <=> e \in 1 .. m
    BY <1>1, <1>2
  <2>2. \A e \in 1 .. m : e \in S
    BY <1>1
  <2> QED BY <1>7, <2>1, <2>2 DEF Members
<1>9. IsHeap(q, due) /\ Len(q.array) = m - 1 /\ ToSet(q.array) = (1 .. m) \ {i}
  BY <1>7, <1>8, SoundMeans
<1>10. q.array = r.array /\ \A e \in S : e # i => q.index[e] = r.index[e]
  BY <1>2, <1>5, <1>6, ToldIs
<1>11. IsHeap(r, due)
  <2>1. PICK a \in [1 .. m - 1 -> S] : a = q.array /\ a = r.array /\ Len(a) = m - 1
        /\ \A j \in 1 .. m - 1 : q.index[a[j]] = j
    <3>1. PICK k : k = m - 1
      OBVIOUS
    <3>2. Sound(S, k, q, due)
      BY <1>7, <3>1
    <3>3. PICK a \in [1 .. k -> S], x \in [S -> Nat] :
            a = q.array /\ x = q.index /\ Len(a) = k /\ \A j \in 1 .. k : x[a[j]] = j
      BY <3>2, SoundParts
    <3> QED BY <1>10, <3>1, <3>3
  <2>2. ASSUME NEW j \in 1 .. m - 1 PROVE r.index[a[j]] = j
    <3>1. a[j] # i
      BY <1>7, <2>1
    <3> QED BY <1>10, <2>1, <3>1
  <2> QED BY <1>9, <2>1, <2>2 DEF IsHeap
<1>12. Cardinality((1 .. m) \ {i}) = m - 1
  <2>1. IsFiniteSet(1 .. m) /\ Cardinality(1 .. m) = m
    BY FS_Interval
  <2> QED BY <2>1, FS_RemoveElement
<1> QED BY <1>1, <1>4, <1>9, <1>10, <1>11, <1>12 DEF GoodHeap

\* isc_heap_increased() and isc_heap_decreased()
LEMMA ChangeGood ==
    ASSUME NEW m \in Nat, NEW due \in [1 .. m + 1 -> Nat], IsHeap(HeapOf(m), due), NEW i \in 1 .. m,
           NEW d \in Nat, NEW new, new = [due EXCEPT ![i] = d]
    PROVE  /\ d < due[i] => GoodHeap(isc_heap_increased(HeapOf(m), i, new), new, 1 .. m)
           /\ d > due[i] => GoodHeap(isc_heap_decreased(HeapOf(m), i, new), new, 1 .. m)
<1>1. PICK S, h : S = 1 .. m + 1 /\ h = HeapOf(m)
  OBVIOUS
<1>2. /\ Sound(S, m, h, due) /\ i \in S
      /\ \A e \in S : h.index[e] = IF e <= m THEN e ELSE 0
  <2>1. /\ Sound(1 .. m + 1, m, HeapOf(m), due)
        /\ \A e \in 1 .. m + 1 : HeapOf(m).index[e] = IF e <= m THEN e ELSE 0
    BY HeapOfIs
  <2>2. i \in 1 .. m + 1
    OBVIOUS
  <2> QED BY <1>1, <2>1, <2>2
<1>3. h.index[i] = i /\ h.index[i] # 0
  BY <1>2
<1>4. Changed(S, due, new, i) /\ new[i] = d
  BY <1>1, <1>2 DEF Changed
<1>5. ASSUME NEW r, With(S, m, r, new, h, i) PROVE GoodHeap(r, new, 1 .. m)
  <2>1. /\ Sound(S, m, r, new) /\ r.index[i] # 0
        /\ \A e \in S : e # i => (r.index[e] # 0 <=> h.index[e] # 0)
    BY <1>5 DEF With
  <2>2. \A e \in S : h.index[e] # 0 <=> e \in 1 .. m
    BY <1>1, <1>2
  <2>3. \A e \in 1 .. m : e \in S
    BY <1>1
  <2>4. 1 .. m = Members(S, r)
    BY <2>1, <2>2, <2>3 DEF Members
  <2>5. IsHeap(r, new) /\ Len(r.array) = m /\ ToSet(r.array) = 1 .. m
    BY <2>1, <2>4, SoundMeans
  <2>6. Cardinality(1 .. m) = m
    BY FS_Interval
  <2> QED BY <2>5, <2>6 DEF GoodHeap
<1>6. ASSUME d < due[i] PROVE With(S, m, isc_heap_increased(h, i, new), new, h, i)
  BY <1>2, <1>3, <1>4, <1>6, IncreasedIs
<1>7. ASSUME d > due[i] PROVE With(S, m, isc_heap_decreased(h, i, new), new, h, i)
  BY <1>2, <1>3, <1>4, <1>7, DecreasedIs
<1> QED BY <1>1, <1>5, <1>6, <1>7

(* HeapOpsCorrect: isc_heap_insert(), isc_heap_delete(), isc_heap_increased()*)
(* and isc_heap_decreased() of lib/isc/heap.c keep the order, the elements   *)
(* and their indices, in heaps of every size and with all priorities.        *)
THEOREM HeapOpsAreCorrect == \A n, k \in Nat : HeapOpsCorrect(n, k)
<1> SUFFICES ASSUME NEW n \in Nat, NEW k \in Nat PROVE HeapOpsCorrect(n, k)
  OBVIOUS
<1> SUFFICES ASSUME NEW m \in 1 .. n, NEW due \in [1 .. m + 1 -> 1 .. k], IsHeap(HeapOf(m), due)
             PROVE  /\ GoodHeap(isc_heap_insert(HeapOf(m), m + 1, due), due, 1 .. m + 1)
                    /\ \A i \in 1 .. m :
                         GoodHeap(isc_heap_delete(HeapOf(m), i, due), due, (1 .. m) \ {i})
                    /\ \A i \in 1 .. m, d \in 1 .. k :
                         LET new == [due EXCEPT ![i] = d]
                         IN  /\ d < due[i] => GoodHeap(isc_heap_increased(HeapOf(m), i, new), new, 1 .. m)
                             /\ d > due[i] => GoodHeap(isc_heap_decreased(HeapOf(m), i, new), new, 1 .. m)
  BY DEF HeapOpsCorrect, GoodHeap
<1>1. m \in Nat /\ due \in [1 .. m + 1 -> Nat]
  OBVIOUS
<1>2. GoodHeap(isc_heap_insert(HeapOf(m), m + 1, due), due, 1 .. m + 1)
  BY <1>1, InsertGood
<1>3. ASSUME NEW i \in 1 .. m PROVE GoodHeap(isc_heap_delete(HeapOf(m), i, due), due, (1 .. m) \ {i})
  BY <1>1, DeleteGood
<1>4. ASSUME NEW i \in 1 .. m, NEW d \in 1 .. k, NEW new, new = [due EXCEPT ![i] = d]
      PROVE  /\ d < due[i] => GoodHeap(isc_heap_increased(HeapOf(m), i, new), new, 1 .. m)
             /\ d > due[i] => GoodHeap(isc_heap_decreased(HeapOf(m), i, new), new, 1 .. m)
  <2>1. d \in Nat
    OBVIOUS
  <2> QED BY <1>1, <1>4, <2>1, ChangeGood
<1> QED BY <1>2, <1>3, <1>4
=============================================================================
