-------------------------- MODULE TimerHeapProofs --------------------------
(***************************************************************************)
(* The heap of timers, for any number of timers: it stays a heap whatever  *)
(* is registered, cancelled and removed, and, as long as the clock does    *)
(* not step back, it implements the set of timers.                         *)
(***************************************************************************)
EXTENDS TimerHeap, WellFoundedInduction, TLAPS

-----------------------------------------------------------------------------
(* Recursion.                                                              *)

(* A set of numbers that is not empty has a least one.                      *)
LEMMA LeastNumber ==
  ASSUME NEW T \in SUBSET Nat, T # {}
  PROVE  \E x \in T : \A y \in T : x <= y
<1>1. PICK x \in T : \A y \in T : ~ (<<y, x>> \in OpToRel(<, Nat))
  BY NatLessThanWellFounded, WFMin, Zenon
<1>2. \A y \in T : ~ (y < x)
  BY <1>1 DEF OpToRel
<1> QED BY <1>2

(* f goes on with the next argument until it stops.                         *)
GoesOn(S, Stop, out, next, f) ==
  f = [x \in S |-> IF x \in Stop THEN out[x] ELSE f[next[x]]]

Shrinks(S, Stop, next, left) ==
  \A x \in S : x \notin Stop => left[next[x]] < left[x]

(* A function defined by recursion on a number that each call makes smaller *)
(* exists: its values on the arguments below n are found for n after n.     *)
LEMMA Recursion ==
  ASSUME NEW S, NEW R, NEW Stop, NEW out \in [S -> R], NEW next \in [S -> S],
         NEW left \in [S -> Nat], Shrinks(S, Stop, next, left)
  PROVE  \E f : GoesOn(S, Stop, out, next, f)
<1> USE DEF Shrinks
<1> DEFINE Below(n) == {x \in S : left[x] < n}
           Solves(n, f) == /\ f \in [Below(n) -> R]
                           /\ \A x \in Below(n) :
                                f[x] = IF x \in Stop THEN out[x] ELSE f[next[x]]
<1>1. ASSUME NEW n \in Nat, NEW m \in Nat, NEW f, NEW g, Solves(n, f), Solves(m, g)
      PROVE  \A x \in Below(n) \cap Below(m) : f[x] = g[x]
  <2> DEFINE bad == {x \in Below(n) \cap Below(m) : f[x] # g[x]}
             T == {left[x] : x \in bad}
  <2> SUFFICES ASSUME bad # {} PROVE FALSE
    OBVIOUS
  <2>1. T \in SUBSET Nat /\ T # {}
    OBVIOUS
  <2>2. PICK k \in T : \A l \in T : k <= l
    BY <2>1, LeastNumber
  <2>3. PICK x \in bad : left[x] = k
    BY <2>2
  <2>4. CASE x \in Stop
    BY <1>1, <2>3, <2>4
  <2>5. CASE x \notin Stop
    <3>1. next[x] \in S /\ left[next[x]] < left[x] /\ left[next[x]] \in Nat /\ left[x] \in Nat
      BY <2>3, <2>5
    <3>2. next[x] \in Below(n) \cap Below(m)
      <4>1. left[x] < n /\ left[x] < m
        BY <2>3
      <4>2. left[next[x]] < n /\ left[next[x]] < m
        BY <3>1, <4>1
      <4> QED BY <3>1, <4>2
    <3>3. next[x] \notin bad
      <4>1. next[x] \in bad => k <= left[next[x]]
        BY <2>2
      <4>2. ~(k <= left[next[x]])
        BY <2>3, <3>1
      <4> QED BY <4>1, <4>2
    <3>4. f[next[x]] = g[next[x]]
      BY <3>2, <3>3
    <3> QED BY <1>1, <2>3, <2>5, <3>4
  <2> QED BY <2>4, <2>5
<1>2. ASSUME NEW n \in Nat PROVE \E f : Solves(n, f)
  <2> DEFINE T == {k \in Nat : ~ \E f : Solves(k, f)}
  <2> SUFFICES ASSUME T # {} PROVE FALSE
    OBVIOUS
  <2>1. PICK k \in T : \A l \in T : k <= l
    BY LeastNumber, T \subseteq Nat
  <2>2. CASE k = 0
    <3> DEFINE f == [x \in {} |-> out[x]]
    <3>1. Below(0) = {}
      OBVIOUS
    <3>2. f \in [{} -> R]
      OBVIOUS
    <3>3. Solves(0, f)
      BY <3>1, <3>2
    <3> QED BY <2>1, <2>2, <3>3
  <2>3. CASE k # 0
    <3>1. k - 1 \in Nat /\ k - 1 \notin T
      <4> HIDE DEF Solves
      <4>1. k \in Nat
        BY <2>1
      <4>2. k - 1 \in Nat /\ ~(k <= k - 1)
        BY <4>1, <2>3
      <4> HIDE DEF T
      <4> QED BY <2>1, <4>2
    <3>2. PICK f : Solves(k - 1, f)
      BY <3>1
    <3> DEFINE g == [x \in Below(k) |-> IF x \in Stop THEN out[x] ELSE f[next[x]]]
    <3>3. ASSUME NEW x \in Below(k), x \notin Stop
          PROVE  next[x] \in Below(k - 1) /\ next[x] \in Below(k)
      <4>1. left[next[x]] < left[x] /\ left[x] < k /\ next[x] \in S
        BY <3>3
      <4>2. left[next[x]] \in Nat /\ left[x] \in Nat /\ k \in Nat
        BY <3>3, <4>1
      <4> QED BY <4>1, <4>2
    <3>4. g \in [Below(k) -> R]
      BY <3>2, <3>3
    <3>5. \A x \in Below(k - 1) : x \in Below(k)
      BY <3>1
    <3>6. \A x \in Below(k - 1) : g[x] = f[x]
      BY <3>2, <3>5
    <3>7. \A x \in Below(k) : g[x] = IF x \in Stop THEN out[x] ELSE g[next[x]]
      BY <3>3, <3>6
    <3> HIDE DEF g
    <3>8. Solves(k, g)
      BY <3>4, <3>7
    <3> QED BY <2>1, <3>8
  <2> QED BY <2>2, <2>3
<1> DEFINE approx(n) == CHOOSE f : Solves(n, f)
           F == [x \in S |-> approx(left[x] + 1)[x]]
<1>3. \A n \in Nat : Solves(n, approx(n))
  BY <1>2
<1> HIDE DEF approx
<1>4. ASSUME NEW x \in S
      PROVE  /\ F[x] \in R
             /\ F[x] = IF x \in Stop THEN out[x] ELSE F[next[x]]
  <2> DEFINE n == left[x] + 1
  <2>1. n \in Nat /\ x \in Below(n) /\ F[x] = approx(n)[x]
    OBVIOUS
  <2>2. Solves(n, approx(n))
    BY <1>3, <2>1
  <2>3. ASSUME x \notin Stop PROVE approx(n)[next[x]] = F[next[x]]
    <3> DEFINE y == next[x]
               m == left[y] + 1
    <3>1. y \in S /\ left[y] < left[x] /\ left[y] \in Nat /\ left[x] \in Nat
      BY <2>3
    <3>2. m \in Nat /\ y \in Below(m) /\ y \in Below(n) /\ F[y] = approx(m)[y]
      BY <3>1
    <3>3. Solves(m, approx(m))
      BY <1>3, <3>2
    <3> HIDE DEF y, m, n, F, Solves, Below
    <3>4. approx(n)[y] = approx(m)[y]
      BY <1>1, <2>1, <2>2, <3>2, <3>3
    <3> QED BY <3>2, <3>4 DEF y
  <2> QED BY <2>1, <2>2, <2>3
<1>5. F \in [S -> R]
  BY <1>4
<1>6. F = [x \in S |-> IF x \in Stop THEN out[x] ELSE F[next[x]]]
  <2> HIDE DEF F
  <2> QED BY <1>4, <1>5
<1> HIDE DEF F
<1> QED BY <1>6 DEF GoesOn

-----------------------------------------------------------------------------
(* Arrays and what sifting makes of them.                                  *)

Arrays(n) == [1..n -> TimerNode]

LEMMA ArrayIsSeq ==
  ASSUME NEW n \in Nat, NEW t \in Arrays(n)
  PROVE  t \in Seq(TimerNode) /\ Len(t) = n /\ DOMAIN t = 1..n
BY DEF Arrays

LEMMA SeqIsArray ==
  ASSUME NEW t \in Seq(TimerNode)
  PROVE  Len(t) \in Nat /\ t \in Arrays(Len(t)) /\ DOMAIN t = 1..Len(t)
BY DEF Arrays

LEMMA NotEmpty ==
  ASSUME NEW t \in Seq(TimerNode), t # <<>>
  PROVE  Len(t) \in Nat /\ Len(t) # 0
OBVIOUS

(* No node expires before its parent.                                      *)
Ordered(t) == \A i \in 2..Len(t) : ~Earlier(t, i, Parent(i))

(* The nodes of w are those of t at the slots r.                            *)
Picks(t, w, r) ==
  /\ r \in [1..Len(w) -> 1..Len(t)]
  /\ \A i, j \in 1..Len(w) : r[i] = r[j] => i = j
  /\ \A j \in 1..Len(w) : w[j] = t[r[j]]

Reaches(w, r, slots) == \A k \in slots : \E j \in 1..Len(w) : r[j] = k

(* The nodes of t in another order, those of the slots that stay apart.     *)
Reorders(t, w, stay) ==
  \E r : /\ Picks(t, w, r) /\ Reaches(w, r, 1..Len(t))
         /\ \A j \in stay : j \in 1..Len(w) /\ r[j] = j

LEMMA ParentIs ==
  ASSUME NEW i \in Nat, i >= 2
  PROVE  Parent(i) \in 1..(i - 1)
BY DEF Parent

LEMMA SwapIs ==
  ASSUME NEW n \in Nat, NEW t \in Arrays(n), NEW i \in 1..n, NEW j \in 1..n, i # j
  PROVE  LET v == timer_heap_swap(t, i, j)
         IN /\ v \in Arrays(n) /\ v[i] = t[j] /\ v[j] = t[i]
            /\ \A k \in 1..n : k # i /\ k # j => v[k] = t[k]
BY DEF timer_heap_swap, Arrays

(* Reordering after a swap is reordering.                                   *)
LEMMA SwapThenReorder ==
  ASSUME NEW n \in Nat, NEW t \in Arrays(n), NEW i \in 1..n, NEW j \in 1..n, i # j,
         NEW stay \in SUBSET (1..n), i \notin stay, j \notin stay,
         NEW w \in Arrays(n), Reorders(timer_heap_swap(t, i, j), w, stay)
  PROVE  Reorders(t, w, stay)
<1> DEFINE v == timer_heap_swap(t, i, j)
<1>1. /\ v \in Arrays(n) /\ v[i] = t[j] /\ v[j] = t[i]
      /\ \A k \in 1..n : k # i /\ k # j => v[k] = t[k]
  BY SwapIs
<1> HIDE DEF v
<1>2. Len(v) = n /\ Len(w) = n /\ Len(t) = n
  BY <1>1, ArrayIsSeq
<1>3. PICK r : /\ Picks(v, w, r) /\ Reaches(w, r, 1..n)
               /\ \A k \in stay : k \in 1..n /\ r[k] = k
  BY <1>2 DEF Reorders, v
<1> DEFINE q == [k \in 1..n |-> IF r[k] = i THEN j ELSE IF r[k] = j THEN i ELSE r[k]]
<1>4. r \in [1..n -> 1..n] /\ \A k, l \in 1..n : r[k] = r[l] => k = l
  BY <1>2, <1>3 DEF Picks
<1>5. q \in [1..n -> 1..n] /\ \A k, l \in 1..n : q[k] = q[l] => k = l
  BY <1>4
<1>6. \A k \in 1..n : w[k] = t[q[k]]
  <2> TAKE k \in 1..n
  <2>1. w[k] = v[r[k]] /\ r[k] \in 1..n
    BY <1>2, <1>3, <1>4 DEF Picks
  <2> QED BY <1>1, <2>1
<1>7. Picks(t, w, q)
  BY <1>2, <1>5, <1>6 DEF Picks
<1>8. ASSUME NEW k \in 1..n PROVE \E l \in 1..n : q[l] = k
  <2>1. PICK a \in 1..n : r[a] = i
    BY <1>2, <1>3 DEF Reaches
  <2>2. PICK b \in 1..n : r[b] = j
    BY <1>2, <1>3 DEF Reaches
  <2>3. PICK c \in 1..n : r[c] = k
    BY <1>2, <1>3 DEF Reaches
  <2>4. q[a] = j /\ q[b] = i
    BY <2>1, <2>2
  <2>5. k # i /\ k # j => q[c] = k
    BY <2>3
  <2> QED BY <2>4, <2>5
<1>9. \A k \in stay : k \in 1..n /\ q[k] = k
  BY <1>3
<1> HIDE DEF q
<1>10. Reaches(w, q, 1..Len(t))
  BY <1>2, <1>8 DEF Reaches
<1>11. \A k \in stay : k \in 1..Len(w) /\ q[k] = k
  BY <1>2, <1>9
<1> QED BY <1>7, <1>10, <1>11 DEF Reorders

LEMMA SameOrder ==
  ASSUME NEW n \in Nat, NEW t \in Arrays(n), NEW stay \in SUBSET (1..n)
  PROVE  Reorders(t, t, stay)
<1> DEFINE r == [k \in 1..n |-> k]
<1>1. Len(t) = n
  BY ArrayIsSeq
<1>2. Picks(t, t, r) /\ Reaches(t, r, 1..n) /\ \A k \in stay : k \in 1..n /\ r[k] = k
  BY <1>1 DEF Picks, Reaches
<1> HIDE DEF r
<1> QED BY <1>1, <1>2 DEF Reorders

-----------------------------------------------------------------------------
(* Up: the node at the slot may expire before its parent, all others are    *)
(* in order, also with what would take the slot.                           *)
OrderedBut(t, i) ==
  /\ \A j \in 2..Len(t) : j # i => ~Earlier(t, j, Parent(j))
  /\ i > 1 => \A j \in 2..Len(t) : Parent(j) = i => ~Earlier(t, j, Parent(i))

LEMMA SwapUp ==
  ASSUME NEW n \in Nat, NEW t \in Arrays(n), NEW i \in 1..n, OrderedBut(t, i),
         i > 1, Earlier(t, i, Parent(i))
  PROVE  OrderedBut(timer_heap_swap(t, i, Parent(i)), Parent(i))
<1> DEFINE k == Parent(i)
           v == timer_heap_swap(t, i, k)
<1>1. k \in 1..n /\ k < i
  BY ParentIs
<1>2. /\ v \in Arrays(n) /\ v[i] = t[k] /\ v[k] = t[i]
      /\ \A l \in 1..n : l # i /\ l # k => v[l] = t[l]
  BY <1>1, SwapIs
<1> HIDE DEF v, k
<1>3. Len(v) = n /\ Len(t) = n
  BY <1>2, ArrayIsSeq
<1>4. /\ \A l \in 1..n : t[l].expiration \in Int /\ v[l].expiration \in Int
      /\ t[i].expiration < t[k].expiration
  BY <1>2 DEF Arrays, TimerNode, Earlier, k
<1>5. ASSUME NEW j \in 2..n, j # k PROVE ~Earlier(v, j, Parent(j))
  <2>1. Parent(j) \in 1..n /\ Parent(j) < j
    BY ParentIs
  <2>2. j # i => t[Parent(j)].expiration <= t[j].expiration
    BY <1>3, <1>4, <2>1 DEF OrderedBut, Earlier
  <2>3. CASE j = i
    BY <1>2, <1>4, <2>3 DEF Earlier, k
  <2>4. CASE j # i /\ Parent(j) = i
    <3>1. ~Earlier(t, j, k)
      BY <1>3, <2>4 DEF OrderedBut, k
    <3> QED BY <1>2, <1>5, <2>4, <3>1 DEF Earlier
  <2>5. CASE j # i /\ Parent(j) = k
    <3>1. v[j] = t[j] /\ v[Parent(j)].expiration = t[i].expiration
      BY <1>2, <1>5, <2>5
    <3> QED BY <1>4, <2>2, <2>5, <3>1, <1>1 DEF Earlier
  <2>6. CASE j # i /\ Parent(j) # i /\ Parent(j) # k
    BY <1>2, <1>3, <1>5, <2>1, <2>6 DEF Earlier, OrderedBut
  <2> QED BY <2>3, <2>4, <2>5, <2>6
<1>6. ASSUME k > 1, NEW j \in 2..n, Parent(j) = k PROVE ~Earlier(v, j, Parent(k))
  <2>1. Parent(k) \in 1..n /\ Parent(k) < k /\ Parent(k) # i
    BY <1>1, <1>6, ParentIs
  <2>2. t[Parent(k)].expiration <= t[k].expiration
    BY <1>1, <1>3, <1>4, <1>6, <2>1 DEF OrderedBut, Earlier
  <2>3. v[Parent(k)] = t[Parent(k)]
    BY <1>2, <2>1
  <2>4. CASE j = i
    BY <1>2, <1>4, <2>1, <2>2, <2>3, <2>4 DEF Earlier
  <2>5. CASE j # i
    <3>1. j # k
      BY <1>6, ParentIs
    <3>2. v[j] = t[j]
      BY <1>2, <2>5, <3>1
    <3>3. t[k].expiration <= t[j].expiration
      BY <1>1, <1>3, <1>4, <1>6, <2>5 DEF OrderedBut, Earlier
    <3> QED BY <1>1, <1>4, <2>1, <2>2, <2>3, <3>2, <3>3 DEF Earlier
  <2> QED BY <2>4, <2>5
<1> QED BY <1>3, <1>5, <1>6 DEF OrderedBut, v, k

(* What timer_heap_up returns: a heap of the same nodes; the root stays     *)
(* there unless the node expires before it.                                *)
Raised(t, i, w) ==
  /\ w \in Arrays(Len(t)) /\ Ordered(w) /\ Reorders(t, w, {})
  /\ i # 1 /\ ~Earlier(t, i, 1) => w[1] = t[1]

UpSolves(n, f) ==
  f = [h \in Sifts(n) |->
         IF h.idx > 1 /\ Earlier(h.nodes, h.idx, Parent(h.idx))
         THEN f[Moved(h, Parent(h.idx))] ELSE h.nodes]

LEMMA UpRaises ==
  ASSUME NEW n \in Nat, NEW f, UpSolves(n, f), NEW h \in Sifts(n),
         OrderedBut(h.nodes, h.idx)
  PROVE  Raised(h.nodes, h.idx, f[h])
<1> DEFINE bad == {g \in Sifts(n) : OrderedBut(g.nodes, g.idx)
                                      /\ ~Raised(g.nodes, g.idx, f[g])}
           T == {g.idx : g \in bad}
<1> SUFFICES ASSUME bad # {} PROVE FALSE
  OBVIOUS
<1>1. T \in SUBSET Nat /\ T # {}
  BY DEF Sifts
<1>2. PICK a \in T : \A b \in T : a <= b
  BY <1>1, LeastNumber
<1>3. PICK g \in bad : g.idx = a
  BY <1>2
<1> DEFINE t == g.nodes
           i == g.idx
<1>4. t \in Arrays(n) /\ i \in 1..n /\ OrderedBut(t, i) /\ Len(t) = n /\ g \in Sifts(n)
      /\ ~Raised(t, i, f[g])
  BY <1>3, ArrayIsSeq DEF Sifts, Arrays
<1>5. CASE i > 1 /\ Earlier(t, i, Parent(i))
  <2> DEFINE k == Parent(i)
             v == timer_heap_swap(t, i, k)
             m == Moved(g, k)
  <2>1. k \in 1..n /\ k < i
    BY <1>4, <1>5, ParentIs
  <2>2. v \in Arrays(n) /\ OrderedBut(v, k) /\ m.nodes = v /\ m.idx = k /\ m \in Sifts(n)
    BY <1>4, <1>5, <2>1, SwapIs, SwapUp DEF Moved, Sifts, Arrays
  <2>3. m \notin bad
    <3>1. m \in bad => a <= k
      BY <1>2, <2>2
    <3>2. ~(a <= k)
      BY <1>3, <1>4, <2>1
    <3> QED BY <3>1, <3>2
  <2>4. Raised(v, k, f[m])
    BY <2>2, <2>3
  <2>5. f[g] = f[m]
    BY <1>4, <1>5 DEF UpSolves
  <2> DEFINE w == f[g]
  <2>6. Len(v) = n
    BY <2>2, ArrayIsSeq
  <2>7. w \in Arrays(n) /\ Ordered(w) /\ Reorders(v, w, {})
    BY <2>4, <2>5, <2>6 DEF Raised
  <2>8. Reorders(t, w, {})
    <3>1. i # k
      BY <1>4, <2>1
    <3> HIDE DEF t, i, k, w
    <3> QED BY <1>4, <2>1, <2>7, <3>1, SwapThenReorder
  <2>9. ASSUME i # 1, ~Earlier(t, i, 1) PROVE w[1] = t[1]
    <3>1. k # 1
      BY <1>5, <2>9
    <3>2. v[1] = t[1] /\ v[k] = t[i]
      <4>1. i # k /\ 1 \in 1..n
        BY <1>4, <2>1
      <4> HIDE DEF t, i, k
      <4>2. v[k] = t[i] /\ \A l \in 1..n : l # i /\ l # k => v[l] = t[l]
        BY <1>4, <2>1, <4>1, SwapIs, n \in Nat, SMTT(60)
      <4> HIDE DEF v
      <4> QED BY <2>9, <3>1, <4>1, <4>2
    <3>3. ~Earlier(v, k, 1)
      BY <2>9, <3>2 DEF Earlier
    <3> QED BY <2>4, <2>5, <3>1, <3>2, <3>3 DEF Raised
  <2>10. Raised(t, i, w)
    BY <1>4, <2>7, <2>8, <2>9 DEF Raised
  <2> QED BY <1>4, <2>10
<1>6. CASE ~(i > 1 /\ Earlier(t, i, Parent(i)))
  <2>1. f[g] = t
    BY <1>4, <1>6 DEF UpSolves
  <2>2. Ordered(t)
    BY <1>4, <1>6 DEF Ordered, OrderedBut
  <2>3. Reorders(t, t, {})
    BY <1>4, SameOrder
  <2> QED BY <1>4, <2>1, <2>2, <2>3 DEF Raised
<1> QED BY <1>5, <1>6

LEMMA UpExists ==
  ASSUME NEW n \in Nat
  PROVE  \E f : UpSolves(n, f)
<1> DEFINE Stop == {h \in Sifts(n) : ~(h.idx > 1 /\ Earlier(h.nodes, h.idx, Parent(h.idx)))}
           out == [h \in Sifts(n) |-> h.nodes]
           next == [h \in Sifts(n) |-> IF h \in Stop THEN h ELSE Moved(h, Parent(h.idx))]
           left == [h \in Sifts(n) |-> h.idx]
<1>1. out \in [Sifts(n) -> Arrays(n)] /\ left \in [Sifts(n) -> Nat]
  BY DEF Sifts, Arrays
<1>2. ASSUME NEW h \in Sifts(n), h \notin Stop
      PROVE  /\ Moved(h, Parent(h.idx)) \in Sifts(n)
             /\ Moved(h, Parent(h.idx)).idx < h.idx
  <2>1. h.nodes \in Arrays(n) /\ h.idx \in 1..n /\ h.idx > 1
    BY <1>2 DEF Sifts, Arrays
  <2>2. Parent(h.idx) \in 1..n /\ Parent(h.idx) < h.idx
    BY <2>1, ParentIs
  <2>3. timer_heap_swap(h.nodes, h.idx, Parent(h.idx)) \in Arrays(n)
    BY <2>1, <2>2 DEF timer_heap_swap, Arrays
  <2> QED BY <2>2, <2>3 DEF Moved, Sifts, Arrays
<1>3. next \in [Sifts(n) -> Sifts(n)]
  BY <1>2
<1>4. Shrinks(Sifts(n), Stop, next, left)
  BY <1>2 DEF Shrinks
<1> HIDE DEF Stop, out, next, left
<1>5. PICK f : GoesOn(Sifts(n), Stop, out, next, f)
  BY <1>1, <1>3, <1>4, Recursion
<1>6. f = [h \in Sifts(n) |->
             IF h.idx > 1 /\ Earlier(h.nodes, h.idx, Parent(h.idx))
             THEN f[Moved(h, Parent(h.idx))] ELSE h.nodes]
  BY <1>5 DEF GoesOn, Stop, out, next
<1> QED BY <1>6 DEF UpSolves

LEMMA HeapUp ==
  ASSUME NEW t \in Seq(TimerNode), NEW i \in 1..Len(t), OrderedBut(t, i)
  PROVE  Raised(t, i, timer_heap_up(t, i))
<1> DEFINE n == Len(t)
           up == CHOOSE up : up = [h \in Sifts(n) |->
                   IF h.idx > 1 /\ Earlier(h.nodes, h.idx, Parent(h.idx))
                   THEN up[Moved(h, Parent(h.idx))] ELSE h.nodes]
           first == [nodes |-> t, idx |-> i]
<1>1. n \in Nat /\ first \in Sifts(n)
  BY SeqIsArray DEF Sifts, Arrays
<1>2. \E f : UpSolves(n, f)
  BY <1>1, UpExists
<1>3. UpSolves(n, up)
  BY <1>2 DEF UpSolves
<1>4. timer_heap_up(t, i) = up[first]
  BY DEF timer_heap_up
<1> HIDE DEF up
<1> QED BY <1>1, <1>3, <1>4, UpRaises

-----------------------------------------------------------------------------
(* Down: the node at the slot may expire after its children, all others are *)
(* in order, also without it.                                              *)
OrderedAround(t, i) ==
  /\ \A j \in 2..Len(t) : Parent(j) # i => ~Earlier(t, j, Parent(j))
  /\ i > 1 => \A j \in 2..Len(t) : Parent(j) = i => ~Earlier(t, j, Parent(i))

LEMMA ChildrenAre ==
  ASSUME NEW t, Len(t) \in Nat, NEW i \in Nat \ {0}
  PROVE  Children(t, i) = {j \in 2..Len(t) : Parent(j) = i}
<1>1. \A j \in 2..Len(t) : Parent(j) = i <=> j = 2 * i \/ j = 2 * i + 1
  BY DEF Parent
<1>2. 2 * i \in Nat /\ 2 * i >= 2
  OBVIOUS
<1> QED BY <1>1, <1>2 DEF Children

(* A child is earlier than the node and not later than the other one; there *)
(* is none only if neither child is earlier.                               *)
LEMMA SmallestIs ==
  ASSUME NEW n \in Nat, NEW t \in Arrays(n), NEW i \in 1..n
  PROVE  /\ \A c \in Smallest(t, i) :
              /\ c \in 2..n /\ Parent(c) = i /\ Earlier(t, c, i)
              /\ \A j \in 2..n : Parent(j) = i => ~Earlier(t, j, c)
         /\ Smallest(t, i) = {} => \A j \in 2..n : Parent(j) = i => ~Earlier(t, j, i)
<1>1. Len(t) = n
  BY ArrayIsSeq
<1>2. Children(t, i) = {j \in 2..n : Parent(j) = i}
  BY <1>1, ChildrenAre
<1>3. Children(t, i) \subseteq {2 * i, 2 * i + 1}
  BY DEF Children
<1>4. \A j \in 1..n : t[j].expiration \in Int
  BY DEF Arrays, TimerNode
<1>5. ASSUME NEW c \in Smallest(t, i)
      PROVE  /\ c \in 2..n /\ Parent(c) = i /\ Earlier(t, c, i)
             /\ \A j \in 2..n : Parent(j) = i => ~Earlier(t, j, c)
  <2>1. /\ c \in Children(t, i) /\ Earlier(t, c, i)
        /\ \A d \in Children(t, i) \ {c} :
             IF d < c THEN Earlier(t, c, d) ELSE ~Earlier(t, d, c)
    BY DEF Smallest
  <2>2. c \in 2..n /\ Parent(c) = i
    BY <1>2, <2>1
  <2>3. ASSUME NEW j \in 2..n, Parent(j) = i PROVE ~Earlier(t, j, c)
    <3>1. j \in Children(t, i)
      BY <1>2, <2>3
    <3>2. j # c => IF j < c THEN Earlier(t, c, j) ELSE ~Earlier(t, j, c)
      BY <2>1, <3>1
    <3>3. t[j].expiration \in Int /\ t[c].expiration \in Int
      BY <1>4, <2>2
    <3> QED BY <3>2, <3>3 DEF Earlier
  <2> QED BY <2>1, <2>2, <2>3
<1>6. ASSUME Smallest(t, i) = {}, NEW j \in 2..n, Parent(j) = i, Earlier(t, j, i) PROVE FALSE
  <2>1. j \in Children(t, i)
    BY <1>2, <1>6
  <2>2. \A c \in Children(t, i) : t[c].expiration \in Int /\ c \in Nat
    BY <1>2, <1>4
  <2>3. t[i].expiration \in Int
    BY <1>4
  <2>4. PICK d \in Children(t, i) \ {j} :
          ~(IF d < j THEN Earlier(t, j, d) ELSE ~Earlier(t, d, j))
    BY <1>6, <2>1 DEF Smallest
  <2>5. \A c \in Children(t, i) : c = d \/ c = j
    BY <1>3, <2>1, <2>4
  <2>6. d \in Smallest(t, i)
    <3>1. /\ t[d].expiration \in Int /\ t[j].expiration \in Int /\ d \in Nat /\ d # j
          /\ t[j].expiration < t[i].expiration
      BY <1>6, <2>1, <2>2, <2>4 DEF Earlier
    <3>2. IF d < j THEN t[d].expiration <= t[j].expiration
                   ELSE t[d].expiration < t[j].expiration
      BY <2>4, <3>1 DEF Earlier
    <3>3. Earlier(t, d, i)
      BY <2>3, <3>1, <3>2 DEF Earlier
    <3>4. IF j < d THEN Earlier(t, d, j) ELSE ~Earlier(t, j, d)
      BY <3>1, <3>2 DEF Earlier
    <3> QED BY <2>4, <2>5, <3>3, <3>4 DEF Smallest
  <2> QED BY <1>6, <2>6
<1> QED BY <1>5, <1>6

LEMMA SwapDown ==
  ASSUME NEW n \in Nat, NEW t \in Arrays(n), NEW i \in 1..n, OrderedAround(t, i),
         NEW c \in Smallest(t, i)
  PROVE  /\ c \in 2..n /\ c > i /\ Earlier(t, c, i)
         /\ OrderedAround(timer_heap_swap(t, i, c), c)
<1> DEFINE v == timer_heap_swap(t, i, c)
<1>1. /\ c \in 2..n /\ Parent(c) = i /\ Earlier(t, c, i)
      /\ \A j \in 2..n : Parent(j) = i => ~Earlier(t, j, c)
  BY SmallestIs
<1>2. c > i /\ c \in 1..n
  BY <1>1, ParentIs
<1>3. /\ v \in Arrays(n) /\ v[i] = t[c] /\ v[c] = t[i]
      /\ \A l \in 1..n : l # i /\ l # c => v[l] = t[l]
  BY <1>2, SwapIs
<1> HIDE DEF v
<1>4. Len(v) = n /\ Len(t) = n
  BY <1>3, ArrayIsSeq
<1>5. /\ \A l \in 1..n : t[l].expiration \in Int /\ v[l].expiration \in Int
      /\ t[c].expiration < t[i].expiration
  BY <1>1, <1>3 DEF Arrays, TimerNode, Earlier
<1>6. ASSUME NEW j \in 2..n, Parent(j) # c PROVE ~Earlier(v, j, Parent(j))
  <2>1. Parent(j) \in 1..n /\ Parent(j) < j
    BY ParentIs
  <2>2. CASE j = c
    BY <1>1, <1>2, <1>3, <1>5, <2>2 DEF Earlier
  <2>3. CASE j # c /\ Parent(j) = i
    <3>1. ~Earlier(t, j, c) /\ j # i
      BY <1>1, <2>1, <2>3
    <3> QED BY <1>2, <1>3, <2>1, <2>3, <3>1 DEF Earlier
  <2>4. CASE j = i
    <3>1. i > 1 /\ ~Earlier(t, c, Parent(i)) /\ Parent(i) # i
      BY <1>1, <1>4, <2>1, <2>4 DEF OrderedAround
    <3>2. v[Parent(i)] = t[Parent(i)]
      BY <1>3, <1>6, <2>1, <2>4, <3>1
    <3> QED BY <1>3, <2>4, <3>1, <3>2 DEF Earlier
  <2>5. CASE j # c /\ j # i /\ Parent(j) # i
    <3>1. v[j] = t[j] /\ v[Parent(j)] = t[Parent(j)]
      BY <1>3, <1>6, <2>1, <2>5
    <3> QED BY <1>4, <2>5, <3>1 DEF OrderedAround, Earlier
  <2> QED BY <2>2, <2>3, <2>4, <2>5
<1>7. ASSUME NEW j \in 2..n, Parent(j) = c PROVE ~Earlier(v, j, Parent(c))
  <2>1. j > c /\ c # i /\ j # i
    BY <1>2, <1>7, ParentIs
  <2>2. ~Earlier(t, j, c)
    BY <1>4, <1>7, <2>1 DEF OrderedAround
  <2>3. v[j] = t[j]
    BY <1>3, <2>1
  <2> QED BY <1>1, <1>3, <2>2, <2>3 DEF Earlier
<1> QED BY <1>1, <1>2, <1>4, <1>6, <1>7 DEF OrderedAround, v

(* What timer_heap_down returns: a heap of the same nodes; those that do    *)
(* not expire before the node stay where they are.                         *)
Later(t, i) == {j \in 1..Len(t) : j # i /\ ~Earlier(t, j, i)}

Lowered(t, i, w) ==
  w \in Arrays(Len(t)) /\ Ordered(w) /\ Reorders(t, w, Later(t, i))

DownSolves(n, f) ==
  f = [h \in Sifts(n) |->
         LET smallest == Smallest(h.nodes, h.idx)
         IN IF smallest = {} THEN h.nodes
            ELSE f[Moved(h, CHOOSE c \in smallest : TRUE)]]

LEMMA DownLowers ==
  ASSUME NEW n \in Nat, NEW f, DownSolves(n, f), NEW h \in Sifts(n),
         OrderedAround(h.nodes, h.idx)
  PROVE  Lowered(h.nodes, h.idx, f[h])
<1> DEFINE bad == {g \in Sifts(n) : OrderedAround(g.nodes, g.idx)
                                      /\ ~Lowered(g.nodes, g.idx, f[g])}
           T == {n - g.idx : g \in bad}
<1> SUFFICES ASSUME bad # {} PROVE FALSE
  OBVIOUS
<1>1. T \in SUBSET Nat /\ T # {}
  BY DEF Sifts
<1>2. PICK a \in T : \A b \in T : a <= b
  BY <1>1, LeastNumber
<1>3. PICK g \in bad : n - g.idx = a
  BY <1>2
<1> DEFINE t == g.nodes
           i == g.idx
<1>4. t \in Arrays(n) /\ i \in 1..n /\ OrderedAround(t, i) /\ Len(t) = n /\ g \in Sifts(n)
      /\ ~Lowered(t, i, f[g])
  BY <1>3, ArrayIsSeq DEF Sifts, Arrays
<1>5. CASE Smallest(t, i) # {}
  <2> DEFINE c == CHOOSE c \in Smallest(t, i) : TRUE
             v == timer_heap_swap(t, i, c)
             m == Moved(g, c)
             w == f[g]
  <2>1. c \in Smallest(t, i)
    BY <1>5
  <2>2. f[g] = f[m]
    BY <1>4, <1>5 DEF DownSolves
  <2> HIDE DEF c, w
  <2>3. c \in 2..n /\ c > i /\ Earlier(t, c, i) /\ OrderedAround(v, c)
    BY <1>4, <2>1, SwapDown
  <2>4. i # c /\ c \in 1..n
    BY <1>4, <2>3
  <2>5. v \in Arrays(n) /\ m.nodes = v /\ m.idx = c /\ m \in Sifts(n)
    BY <1>4, <2>4, SwapIs DEF Moved, Sifts, Arrays
  <2>6. v[c] = t[i] /\ \A l \in 1..n : l # i /\ l # c => v[l] = t[l]
    <3> HIDE DEF t, i
    <3> QED BY <1>4, <2>4, SwapIs, SMTT(60)
  <2>7. m \notin bad
    <3>1. m \in bad => a <= n - c
      BY <1>2, <2>5
    <3>2. ~(a <= n - c)
      BY <1>3, <1>4, <2>3
    <3> QED BY <3>1, <3>2
  <2>8. Lowered(v, c, f[m])
    BY <2>3, <2>5, <2>7
  <2>9. Len(v) = n
    BY <2>5, ArrayIsSeq
  <2>10. w \in Arrays(n) /\ Ordered(w) /\ Reorders(v, w, Later(v, c))
    BY <2>2, <2>8, <2>9 DEF Lowered, w
  <2>11. /\ Later(t, i) \subseteq Later(v, c)
         /\ i \notin Later(t, i) /\ c \notin Later(t, i) /\ Later(t, i) \subseteq 1..n
    <3> SUFFICES ASSUME NEW j \in Later(t, i) PROVE j \in Later(v, c) /\ j # c
      BY <1>4 DEF Later
    <3>1. j \in 1..n /\ j # i /\ ~Earlier(t, j, i) /\ j # c
      BY <1>4, <2>3 DEF Later
    <3>2. v[j] = t[j]
      BY <2>6, <3>1
    <3> HIDE DEF v
    <3> QED BY <2>6, <2>9, <3>1, <3>2 DEF Later, Earlier
  <2>12. Reorders(v, w, Later(t, i))
    BY <2>10, <2>11 DEF Reorders
  <2>13. Reorders(t, w, Later(t, i))
    <3> HIDE DEF t, i
    <3> QED BY <1>4, <2>4, <2>10, <2>11, <2>12, SwapThenReorder
  <2>14. Lowered(t, i, w)
    BY <1>4, <2>10, <2>13 DEF Lowered
  <2> QED BY <1>4, <2>14 DEF w
<1>6. CASE Smallest(t, i) = {}
  <2>1. f[g] = t
    BY <1>4, <1>6 DEF DownSolves
  <2>2. \A j \in 2..n : Parent(j) = i => ~Earlier(t, j, i)
    BY <1>4, <1>6, SmallestIs
  <2>3. Ordered(t)
    BY <1>4, <2>2 DEF Ordered, OrderedAround
  <2>4. Reorders(t, t, Later(t, i))
    BY <1>4, SameOrder DEF Later
  <2> QED BY <1>4, <2>1, <2>3, <2>4 DEF Lowered
<1> QED BY <1>5, <1>6

LEMMA DownIsArray ==
  ASSUME NEW n \in Nat, NEW f, DownSolves(n, f), NEW h \in Sifts(n)
  PROVE  f[h] \in Arrays(n)
<1> DEFINE bad == {g \in Sifts(n) : f[g] \notin Arrays(n)}
           T == {n - g.idx : g \in bad}
<1> SUFFICES ASSUME bad # {} PROVE FALSE
  OBVIOUS
<1>1. T \in SUBSET Nat /\ T # {}
  BY DEF Sifts
<1>2. PICK a \in T : \A b \in T : a <= b
  BY <1>1, LeastNumber
<1>3. PICK g \in bad : n - g.idx = a
  BY <1>2
<1>4. g \in Sifts(n) /\ g.nodes \in Arrays(n) /\ g.idx \in 1..n /\ f[g] \notin Arrays(n)
  BY <1>3 DEF Sifts, Arrays
<1> DEFINE smallest == Smallest(g.nodes, g.idx)
           c == CHOOSE c \in smallest : TRUE
           m == Moved(g, c)
<1>5. smallest # {} /\ f[g] = f[m]
  BY <1>4 DEF DownSolves
<1>6. c \in smallest
  BY <1>5
<1> HIDE DEF c
<1>7. c \in 2..n /\ Parent(c) = g.idx
  BY <1>4, <1>6, SmallestIs
<1>8. c > g.idx /\ c \in 1..n
  BY <1>7, ParentIs
<1>9. m \in Sifts(n) /\ m.idx = c
  <2>1. timer_heap_swap(g.nodes, g.idx, c) \in Arrays(n)
    BY <1>4, <1>8 DEF timer_heap_swap, Arrays
  <2> QED BY <1>8, <2>1 DEF Moved, Sifts, Arrays
<1>10. m \in bad
  BY <1>4, <1>5, <1>9
<1>11. a <= n - c
  BY <1>2, <1>9, <1>10
<1> QED BY <1>3, <1>4, <1>8, <1>11

LEMMA DownExists ==
  ASSUME NEW n \in Nat
  PROVE  \E f : DownSolves(n, f)
<1> DEFINE Stop == {h \in Sifts(n) : Smallest(h.nodes, h.idx) = {}}
           child(h) == CHOOSE c \in Smallest(h.nodes, h.idx) : TRUE
           out == [h \in Sifts(n) |-> h.nodes]
           next == [h \in Sifts(n) |-> IF h \in Stop THEN h ELSE Moved(h, child(h))]
           left == [h \in Sifts(n) |-> n - h.idx]
<1>1. out \in [Sifts(n) -> Arrays(n)] /\ left \in [Sifts(n) -> Nat]
  BY DEF Sifts, Arrays
<1>2. ASSUME NEW h \in Sifts(n), h \notin Stop
      PROVE  /\ Moved(h, child(h)) \in Sifts(n)
             /\ n - Moved(h, child(h)).idx < n - h.idx
  <2>1. h.nodes \in Arrays(n) /\ h.idx \in 1..n
    BY DEF Sifts, Arrays
  <2>2. child(h) \in Smallest(h.nodes, h.idx)
    BY <1>2
  <2>3. child(h) \in 2..n /\ Parent(child(h)) = h.idx
    BY <2>1, <2>2, SmallestIs
  <2> HIDE DEF child
  <2>4. child(h) > h.idx /\ child(h) \in 1..n
    BY <2>3, ParentIs
  <2>5. timer_heap_swap(h.nodes, h.idx, child(h)) \in Arrays(n)
    BY <2>1, <2>4 DEF timer_heap_swap, Arrays
  <2> QED BY <2>1, <2>4, <2>5 DEF Moved, Sifts, Arrays
<1> HIDE DEF child
<1>3. next \in [Sifts(n) -> Sifts(n)]
  BY <1>2
<1>4. Shrinks(Sifts(n), Stop, next, left)
  BY <1>2, <1>3 DEF Shrinks
<1> HIDE DEF Stop, out, next, left
<1>5. PICK f : GoesOn(Sifts(n), Stop, out, next, f)
  BY <1>1, <1>3, <1>4, Recursion
<1>6. f = [h \in Sifts(n) |->
             IF Smallest(h.nodes, h.idx) = {} THEN h.nodes ELSE f[Moved(h, child(h))]]
  BY <1>5 DEF GoesOn, Stop, out, next
<1> QED BY <1>6 DEF DownSolves, child

LEMMA HeapDown ==
  ASSUME NEW t \in Seq(TimerNode), NEW i \in 1..Len(t)
  PROVE  /\ timer_heap_down(t, i) \in Arrays(Len(t))
         /\ OrderedAround(t, i) => Lowered(t, i, timer_heap_down(t, i))
<1> DEFINE n == Len(t)
           down == CHOOSE down : down = [h \in Sifts(n) |->
                     LET smallest == Smallest(h.nodes, h.idx)
                     IN IF smallest = {} THEN h.nodes
                        ELSE down[Moved(h, CHOOSE c \in smallest : TRUE)]]
           first == [nodes |-> t, idx |-> i]
<1>1. n \in Nat /\ first \in Sifts(n)
  BY SeqIsArray DEF Sifts, Arrays
<1>2. \E f : DownSolves(n, f)
  BY <1>1, DownExists
<1>3. DownSolves(n, down)
  BY <1>2 DEF DownSolves
<1>4. timer_heap_down(t, i) = down[first]
  BY DEF timer_heap_down
<1> HIDE DEF down
<1>5. down[first] \in Arrays(n)
  BY <1>1, <1>3, DownIsArray
<1>6. OrderedAround(t, i) => Lowered(t, i, down[first])
  BY <1>1, <1>3, DownLowers
<1> QED BY <1>4, <1>5, <1>6

-----------------------------------------------------------------------------
(* Removal.                                                                *)

(* A heap of the nodes of t but the root.                                   *)
Drops(t, w) ==
  /\ w \in Seq(TimerNode) /\ Ordered(w) /\ Len(w) = Len(t) - 1
  /\ \E r : /\ Picks(t, w, r) /\ Reaches(w, r, 2..Len(t))
            /\ \A j \in 1..Len(w) : r[j] # 1

(* A heap of nodes of t, with all that are active.                          *)
Active(t) == {k \in 1..Len(t) : t[k].active}
Keeps(t, w) ==
  /\ w \in Seq(TimerNode) /\ Ordered(w)
  /\ \E r : Picks(t, w, r) /\ Reaches(w, r, Active(t))

LEMMA ShrunkIs ==
  ASSUME NEW n \in Nat, n >= 2, NEW t \in Arrays(n)
  PROVE  Shrunk(t) \in Arrays(n - 1) /\ \A j \in 1..(n - 1) : Shrunk(t)[j] = t[j]
<1>1. t \in Seq(TimerNode) /\ Len(t) = n
  BY ArrayIsSeq
<1>2. Shrunk(t) = [j \in 1..(n - 1) |-> t[j]]
  BY <1>1 DEF Shrunk
<1>3. \A j \in 1..(n - 1) : t[j] \in TimerNode
  BY DEF Arrays
<1> QED BY <1>2, <1>3 DEF Arrays

(* The last node takes the place of the root, and the others are reordered. *)
LEMMA LastForRoot ==
  ASSUME NEW n \in Nat, n >= 2, NEW t \in Arrays(n), NEW s \in Arrays(n - 1),
         s[1] = t[n], \A j \in 2..(n - 1) : s[j] = t[j],
         NEW w \in Arrays(n - 1), Ordered(w), Reorders(s, w, {})
  PROVE  Drops(t, w)
<1>1. Len(t) = n /\ Len(s) = n - 1 /\ Len(w) = n - 1 /\ w \in Seq(TimerNode) /\ n - 1 \in Nat
  BY ArrayIsSeq
<1>2. PICK q : Picks(s, w, q) /\ Reaches(w, q, 1..(n - 1))
  BY <1>1 DEF Reorders
<1> DEFINE r == [j \in 1..(n - 1) |-> IF q[j] = 1 THEN n ELSE q[j]]
<1>3. /\ q \in [1..(n - 1) -> 1..(n - 1)] /\ \A i, j \in 1..(n - 1) : q[i] = q[j] => i = j
      /\ \A j \in 1..(n - 1) : w[j] = s[q[j]]
  BY <1>1, <1>2 DEF Picks
<1>4. \A j \in 1..(n - 1) : q[j] \in 1..(n - 1) /\ q[j] # n
  BY <1>3
<1>5. r \in [1..(n - 1) -> 1..n]
  BY <1>4
<1>6. \A i, j \in 1..(n - 1) : r[i] = r[j] => i = j
  BY <1>3, <1>4
<1>7. \A j \in 1..(n - 1) : w[j] = t[r[j]]
  BY <1>3, <1>4
<1>8. ASSUME NEW k \in 2..n PROVE \E j \in 1..(n - 1) : r[j] = k
  <2>1. CASE k = n
    <3>1. PICK j \in 1..(n - 1) : q[j] = 1
      BY <1>1, <1>2 DEF Reaches
    <3> QED BY <2>1, <3>1
  <2>2. CASE k # n
    <3>1. k \in 1..(n - 1)
      BY <2>2
    <3>2. PICK j \in 1..(n - 1) : q[j] = k
      BY <1>1, <1>2, <3>1 DEF Reaches
    <3> QED BY <3>2
  <2> QED BY <2>1, <2>2
<1>0. \A j \in 1..(n - 1) : r[j] # 1
  BY <1>4
<1> HIDE DEF r
<1>9. /\ Picks(t, w, r) /\ Reaches(w, r, 2..Len(t))
      /\ \A j \in 1..Len(w) : r[j] # 1
  BY <1>0, <1>1, <1>5, <1>6, <1>7, <1>8 DEF Picks, Reaches
<1> QED BY <1>1, <1>9 DEF Drops

(* The last node in the root's place is the only one that may be out of     *)
(* order.                                                                  *)
LEMMA RootReplaced ==
  ASSUME NEW n \in Nat, NEW t \in Arrays(n), Ordered(t), NEW m \in 1..n,
         NEW s \in Arrays(m), \A j \in 2..m : s[j] = t[j]
  PROVE  OrderedAround(s, 1)
<1>1. Len(t) = n /\ Len(s) = m
  BY ArrayIsSeq
<1>2. ASSUME NEW j \in 2..m, Parent(j) # 1 PROVE ~Earlier(s, j, Parent(j))
  <2>1. Parent(j) \in 2..m /\ j \in 2..n
    BY <1>2, ParentIs
  <2>2. ~Earlier(t, j, Parent(j))
    BY <1>1, <2>1 DEF Ordered
  <2> QED BY <2>1, <2>2 DEF Earlier
<1> QED BY <1>1, <1>2 DEF OrderedAround

LEMMA OneNodeDrops ==
  ASSUME NEW t \in Seq(TimerNode), Len(t) = 1
  PROVE  Drops(t, <<>>)
<1> DEFINE r == [j \in 1..0 |-> 1]
<1>1. <<>> \in Seq(TimerNode) /\ Len(<<>>) = 0 /\ Ordered(<<>>)
  BY DEF Ordered
<1>2. /\ Picks(t, <<>>, r) /\ Reaches(<<>>, r, 2..Len(t))
      /\ \A j \in 1..Len(<<>>) : r[j] # 1
  BY <1>1 DEF Picks, Reaches
<1> HIDE DEF r
<1> QED BY <1>1, <1>2 DEF Drops

(* process_timers: while the moved node sinks, its copy in the last slot    *)
(* stays there, since it does not expire before it.                        *)
LEMMA RemoveRootDrops ==
  ASSUME NEW t \in Seq(TimerNode), t # <<>>, Ordered(t)
  PROVE  Drops(t, RemoveRoot(t))
<1> DEFINE n == Len(t)
<1>1. CASE n = 1
  BY <1>1, OneNodeDrops DEF RemoveRoot
<1>2. CASE n # 1
  <2> DEFINE u == [t EXCEPT ![1] = t[n]]
             d == timer_heap_down(u, 1)
             w == Shrunk(d)
             s == Shrunk(u)
  <2>1. n \in Nat /\ n >= 2 /\ t \in Arrays(n)
    <3>1. Len(t) \in Nat /\ Len(t) # 0 /\ t \in Arrays(Len(t))
      BY NotEmpty, SeqIsArray
    <3>2. n \in Nat /\ n # 0 /\ n # 1
      BY <1>2, <3>1
    <3> HIDE DEF n
    <3>3. n >= 2
      BY <3>2
    <3> QED BY <3>1, <3>3 DEF n
  <2>2. RemoveRoot(t) = w
    BY <1>2 DEF RemoveRoot
  <2>3. u \in Arrays(n) /\ u[1] = t[n] /\ \A j \in 2..n : u[j] = t[j]
    BY <2>1 DEF Arrays
  <2> HIDE DEF n, u, d, w, s
  <2>4. Len(t) = n /\ Len(u) = n /\ u \in Seq(TimerNode) /\ 1 \in 1..n /\ n - 1 \in Nat
    BY <2>1, <2>3, ArrayIsSeq
  <2>5. OrderedAround(u, 1)
    <3>1. n \in 1..n
      BY <2>1
    <3> QED BY <2>1, <2>3, <3>1, RootReplaced
  <2>6. Lowered(u, 1, d)
    BY <2>4, <2>5, HeapDown DEF d
  <2>7. d \in Arrays(n) /\ Ordered(d) /\ Reorders(u, d, Later(u, 1)) /\ Len(d) = n
    BY <2>1, <2>4, <2>6, ArrayIsSeq DEF Lowered
  <2>8. n \in Later(u, 1)
    <3>1. u[n] = t[n] /\ u[1] = t[n] /\ t[n].expiration \in Int
      BY <2>1, <2>3 DEF Arrays, TimerNode
    <3> QED BY <2>1, <2>4, <3>1 DEF Later, Earlier
  <2>9. /\ w \in Arrays(n - 1) /\ \A j \in 1..(n - 1) : w[j] = d[j]
        /\ s \in Arrays(n - 1) /\ \A j \in 1..(n - 1) : s[j] = u[j]
    BY <2>1, <2>3, <2>7, ShrunkIs DEF w, s
  <2>10. Len(w) = n - 1 /\ Len(s) = n - 1
    BY <2>4, <2>9, ArrayIsSeq
  <2>11. Ordered(w)
    <3> SUFFICES ASSUME NEW j \in 2..(n - 1) PROVE ~Earlier(w, j, Parent(j))
      BY <2>10 DEF Ordered
    <3>1. Parent(j) \in 1..(n - 1) /\ j \in 2..n /\ j \in 1..(n - 1)
      BY <2>1, ParentIs
    <3>2. ~Earlier(d, j, Parent(j))
      BY <2>7, <3>1 DEF Ordered
    <3> QED BY <2>9, <3>1, <3>2 DEF Earlier
  <2>12. Reorders(s, w, {})
    <3>1. PICK r : Picks(u, d, r) /\ Reaches(d, r, 1..n) /\ r[n] = n
      BY <2>4, <2>7, <2>8 DEF Reorders
    <3> DEFINE q == [j \in 1..(n - 1) |-> r[j]]
    <3>2. /\ r \in [1..n -> 1..n] /\ \A i, j \in 1..n : r[i] = r[j] => i = j
          /\ \A j \in 1..n : d[j] = u[r[j]]
      BY <2>4, <2>7, <3>1 DEF Picks
    <3>3. \A j \in 1..(n - 1) : j \in 1..n /\ r[j] \in 1..(n - 1)
      <4> TAKE j \in 1..(n - 1)
      <4>1. j \in 1..n /\ j # n /\ n \in 1..n
        BY <2>1
      <4>2. r[j] # n /\ r[j] \in 1..n
        BY <3>1, <3>2, <4>1
      <4> QED BY <2>1, <4>1, <4>2
    <3>4. q \in [1..(n - 1) -> 1..(n - 1)]
      BY <3>3
    <3>5. \A i, j \in 1..(n - 1) : q[i] = q[j] => i = j
      BY <3>2, <3>3
    <3>6. \A j \in 1..(n - 1) : w[j] = s[q[j]]
      BY <2>9, <3>2, <3>3
    <3>7. ASSUME NEW k \in 1..(n - 1) PROVE \E j \in 1..(n - 1) : q[j] = k
      <4>1. k \in 1..n /\ k # n
        BY <2>1
      <4>2. PICK j \in 1..n : r[j] = k
        BY <2>7, <3>1, <4>1 DEF Reaches
      <4>3. j \in 1..(n - 1)
        BY <2>1, <3>1, <4>1, <4>2
      <4> QED BY <4>2, <4>3
    <3> HIDE DEF q
    <3>8. Picks(s, w, q) /\ Reaches(w, q, 1..Len(s))
      BY <2>10, <3>4, <3>5, <3>6, <3>7 DEF Picks, Reaches
    <3> QED BY <3>8 DEF Reorders
  <2>13. s[1] = t[n] /\ \A j \in 2..(n - 1) : s[j] = t[j]
    <3>1. 1 \in 1..(n - 1) /\ \A j \in 2..(n - 1) : j \in 1..(n - 1) /\ j \in 2..n
      BY <2>1
    <3> QED BY <2>3, <2>9, <3>1
  <2> QED BY <2>1, <2>2, <2>9, <2>11, <2>12, <2>13, LastForRoot
<1> QED BY <1>1, <1>2

(* run and tick: the array is shortened before the moved node sinks.        *)
LEMMA ShortenedFirst ==
  ASSUME NEW t \in Seq(TimerNode), t # <<>>, Len(t) # 1
  PROVE  LET w == timer_heap_down(Shrunk([t EXCEPT ![1] = t[Len(t)]]), 1)
         IN w \in Seq(TimerNode) /\ Len(w) = Len(t) - 1 /\ (Ordered(t) => Drops(t, w))
<1> DEFINE n == Len(t)
           u == [t EXCEPT ![1] = t[n]]
           s == Shrunk(u)
           w == timer_heap_down(s, 1)
<1>1. n \in Nat /\ n >= 2 /\ t \in Arrays(n)
  <2>1. Len(t) \in Nat /\ Len(t) # 0 /\ t \in Arrays(Len(t))
    BY NotEmpty, SeqIsArray
  <2>2. n \in Nat /\ n # 0 /\ n # 1
    BY <2>1
  <2> HIDE DEF n
  <2>3. n >= 2
    BY <2>2
  <2> QED BY <2>1, <2>3 DEF n
<1>2. u \in Arrays(n) /\ u[1] = t[n] /\ \A j \in 2..n : u[j] = t[j]
  BY <1>1 DEF Arrays
<1> HIDE DEF n, u, s, w
<1>3. s \in Arrays(n - 1) /\ \A j \in 1..(n - 1) : s[j] = u[j]
  BY <1>1, <1>2, ShrunkIs DEF s
<1>4. n - 1 \in Nat /\ Len(s) = n - 1 /\ s \in Seq(TimerNode) /\ 1 \in 1..(n - 1)
  BY <1>1, <1>3, ArrayIsSeq
<1>5. s[1] = t[n] /\ \A j \in 2..(n - 1) : s[j] = t[j]
  <2>1. \A j \in 2..(n - 1) : j \in 1..(n - 1) /\ j \in 2..n
    BY <1>1
  <2> QED BY <1>2, <1>3, <1>4, <2>1
<1>6. w \in Arrays(n - 1) /\ (OrderedAround(s, 1) => Lowered(s, 1, w))
  BY <1>4, HeapDown DEF w
<1>7. w \in Seq(TimerNode) /\ Len(w) = n - 1
  BY <1>4, <1>6, ArrayIsSeq
<1>8. ASSUME Ordered(t) PROVE Drops(t, w)
  <2>1. n - 1 \in 1..n
    BY <1>1
  <2>2. OrderedAround(s, 1)
    BY <1>1, <1>3, <1>5, <1>8, <2>1, RootReplaced
  <2>3. Ordered(w) /\ Reorders(s, w, {})
    BY <1>6, <2>2 DEF Lowered, Reorders
  <2> QED BY <1>1, <1>3, <1>5, <1>6, <2>3, LastForRoot
<1> QED BY <1>7, <1>8 DEF w, s, u, n

LEMMA KeepsItself ==
  ASSUME NEW t \in Seq(TimerNode), Ordered(t)
  PROVE  Keeps(t, t)
<1> DEFINE r == [j \in 1..Len(t) |-> j]
<1>1. Picks(t, t, r) /\ Reaches(t, r, Active(t))
  BY DEF Picks, Reaches, Active
<1> HIDE DEF r
<1> QED BY <1>1 DEF Keeps

(* Dropping a root that is not active keeps what is.                        *)
LEMMA DropKeeps ==
  ASSUME NEW t \in Seq(TimerNode), t # <<>>, ~t[1].active, NEW w, Drops(t, w)
  PROVE  Keeps(t, w)
<1>1. PICK r : Picks(t, w, r) /\ Reaches(w, r, 2..Len(t))
  BY DEF Drops
<1>2. \A k \in Active(t) : k \in 2..Len(t)
  BY DEF Active
<1>3. Reaches(w, r, Active(t))
  BY <1>1, <1>2 DEF Reaches
<1> QED BY <1>1, <1>3 DEF Drops, Keeps

LEMMA KeepsTwice ==
  ASSUME NEW t \in Seq(TimerNode), NEW u, NEW w, Keeps(t, u), Keeps(u, w)
  PROVE  Keeps(t, w)
<1>1. PICK p : Picks(t, u, p) /\ Reaches(u, p, Active(t))
  BY DEF Keeps
<1>2. PICK q : Picks(u, w, q) /\ Reaches(w, q, Active(u))
  BY DEF Keeps
<1> DEFINE r == [j \in 1..Len(w) |-> p[q[j]]]
<1>3. Picks(t, w, r)
  BY <1>1, <1>2 DEF Picks
<1>4. ASSUME NEW k \in Active(t) PROVE \E j \in 1..Len(w) : r[j] = k
  <2>1. PICK l \in 1..Len(u) : p[l] = k
    BY <1>1 DEF Reaches
  <2>2. u[l] = t[k]
    BY <1>1, <2>1 DEF Picks
  <2>3. l \in Active(u)
    BY <2>1, <2>2 DEF Active
  <2>4. PICK j \in 1..Len(w) : q[j] = l
    BY <1>2, <2>3 DEF Reaches
  <2> QED BY <2>1, <2>4
<1> HIDE DEF r
<1>5. Reaches(w, r, Active(t))
  BY <1>4 DEF Reaches
<1> QED BY <1>3, <1>5 DEF Keeps

PurgeSolves(f) ==
  f = [u \in Seq(TimerNode) |->
         IF u = <<>> \/ u[1].active THEN u
         ELSE IF Len(u) = 1 THEN <<>>
         ELSE f[timer_heap_down(Shrunk([u EXCEPT ![1] = u[Len(u)]]), 1)]]

LEMMA PurgeExists == \E f : PurgeSolves(f)
<1> DEFINE S == Seq(TimerNode)
           Stop == {u \in S : u = <<>> \/ u[1].active \/ Len(u) = 1}
           rest(u) == timer_heap_down(Shrunk([u EXCEPT ![1] = u[Len(u)]]), 1)
           out == [u \in S |-> IF u = <<>> \/ u[1].active THEN u ELSE <<>>]
           next == [u \in S |-> IF u \in Stop THEN u ELSE rest(u)]
           left == [u \in S |-> Len(u)]
<1>1. out \in [S -> S] /\ left \in [S -> Nat]
  BY DEF S
<1>2. ASSUME NEW u \in S, u \notin Stop
      PROVE  rest(u) \in S /\ Len(rest(u)) < Len(u)
  <2>1. u # <<>> /\ Len(u) # 1 /\ Len(u) \in Nat
    BY <1>2
  <2>2. rest(u) \in S /\ Len(rest(u)) = Len(u) - 1
    BY <2>1, ShortenedFirst
  <2> QED BY <2>1, <2>2
<1> HIDE DEF rest
<1>3. next \in [S -> S]
  BY <1>2
<1>4. Shrinks(S, Stop, next, left)
  BY <1>2, <1>3 DEF Shrinks
<1> HIDE DEF S, Stop, out, next, left
<1>5. PICK f : GoesOn(S, Stop, out, next, f)
  BY <1>1, <1>3, <1>4, Recursion
<1>6. f = [u \in S |-> IF u = <<>> \/ u[1].active THEN u
                       ELSE IF Len(u) = 1 THEN <<>> ELSE f[rest(u)]]
  BY <1>5 DEF GoesOn, Stop, out, next
<1> QED BY <1>6 DEF PurgeSolves, S, rest

LEMMA PurgeKeeps ==
  ASSUME NEW t \in Seq(TimerNode), Ordered(t)
  PROVE  Keeps(t, Purge(t))
<1> DEFINE f == CHOOSE f : f = [u \in Seq(TimerNode) |->
                  IF u = <<>> \/ u[1].active THEN u
                  ELSE IF Len(u) = 1 THEN <<>>
                  ELSE f[timer_heap_down(Shrunk([u EXCEPT ![1] = u[Len(u)]]), 1)]]
<1>1. PurgeSolves(f)
  BY PurgeExists DEF PurgeSolves
<1>2. Purge(t) = f[t]
  BY DEF Purge
<1> HIDE DEF f
<1> DEFINE bad == {u \in Seq(TimerNode) : Ordered(u) /\ ~Keeps(u, f[u])}
           T == {Len(u) : u \in bad}
<1>3. ASSUME bad # {} PROVE FALSE
  <2>1. T \in SUBSET Nat /\ T # {}
    <3>1. \A u \in bad : u \in Seq(TimerNode)
      OBVIOUS
    <3> HIDE DEF bad
    <3>2. \A u \in bad : Len(u) \in Nat
      BY <3>1
    <3> QED BY <1>3, <3>2
  <2>2. PICK a \in T : \A b \in T : a <= b
    BY <2>1, LeastNumber
  <2>3. PICK u \in bad : Len(u) = a
    BY <2>2
  <2> DEFINE w == timer_heap_down(Shrunk([u EXCEPT ![1] = u[Len(u)]]), 1)
  <2>4. u \in Seq(TimerNode) /\ Ordered(u) /\ ~Keeps(u, f[u]) /\ Len(u) \in Nat
    BY <2>3
  <2>5. f[u] = IF u = <<>> \/ u[1].active THEN u ELSE IF Len(u) = 1 THEN <<>> ELSE f[w]
    BY <1>1, <2>4 DEF PurgeSolves
  <2>6. CASE u = <<>> \/ u[1].active
    BY <2>4, <2>5, <2>6, KeepsItself
  <2>7. CASE ~(u = <<>> \/ u[1].active) /\ Len(u) = 1
    BY <2>4, <2>5, <2>7, OneNodeDrops, DropKeeps
  <2>8. CASE ~(u = <<>> \/ u[1].active) /\ Len(u) # 1
    <3>1. w \in Seq(TimerNode) /\ Len(w) = Len(u) - 1 /\ Drops(u, w)
      BY <2>4, <2>8, ShortenedFirst
    <3> HIDE DEF w
    <3>2. Keeps(u, w)
      BY <2>4, <2>8, <3>1, DropKeeps
    <3>3. w \notin bad
      <4>1. w \in bad => a <= Len(w)
        BY <2>2
      <4>2. ~(a <= Len(w))
        BY <2>3, <2>4, <3>1
      <4> QED BY <4>1, <4>2
    <3>4. Keeps(w, f[w])
      BY <3>1, <3>3 DEF Drops
    <3>5. Keeps(u, f[w])
      BY <2>4, <3>2, <3>4, KeepsTwice
    <3> QED BY <2>4, <2>5, <2>8, <3>5
  <2> QED BY <2>6, <2>7, <2>8
<1> QED BY <1>2, <1>3

(* The purge stops at an active root or at the end.                         *)
LEMMA PurgeStops ==
  ASSUME NEW t \in Seq(TimerNode)
  PROVE  Purge(t) = <<>> \/ Purge(t)[1].active
<1> DEFINE f == CHOOSE f : f = [u \in Seq(TimerNode) |->
                  IF u = <<>> \/ u[1].active THEN u
                  ELSE IF Len(u) = 1 THEN <<>>
                  ELSE f[timer_heap_down(Shrunk([u EXCEPT ![1] = u[Len(u)]]), 1)]]
<1>1. PurgeSolves(f)
  BY PurgeExists DEF PurgeSolves
<1>2. Purge(t) = f[t]
  BY DEF Purge
<1> HIDE DEF f
<1> DEFINE bad == {u \in Seq(TimerNode) : ~(f[u] = <<>> \/ f[u][1].active)}
           T == {Len(u) : u \in bad}
<1>3. ASSUME bad # {} PROVE FALSE
  <2>1. T \in SUBSET Nat /\ T # {}
    <3>1. \A u \in bad : u \in Seq(TimerNode)
      OBVIOUS
    <3> HIDE DEF bad
    <3>2. \A u \in bad : Len(u) \in Nat
      BY <3>1
    <3> QED BY <1>3, <3>2
  <2>2. PICK a \in T : \A b \in T : a <= b
    BY <2>1, LeastNumber
  <2>3. PICK u \in bad : Len(u) = a
    BY <2>2
  <2> DEFINE w == timer_heap_down(Shrunk([u EXCEPT ![1] = u[Len(u)]]), 1)
  <2>4. u \in Seq(TimerNode) /\ ~(f[u] = <<>> \/ f[u][1].active) /\ Len(u) \in Nat
    BY <2>3
  <2>5. f[u] = IF u = <<>> \/ u[1].active THEN u ELSE IF Len(u) = 1 THEN <<>> ELSE f[w]
    BY <1>1, <2>4 DEF PurgeSolves
  <2>6. u # <<>> /\ ~u[1].active /\ Len(u) # 1 /\ f[u] = f[w]
    BY <2>4, <2>5
  <2>7. w \in Seq(TimerNode) /\ Len(w) = Len(u) - 1
    BY <2>4, <2>6, ShortenedFirst
  <2> HIDE DEF w
  <2>8. w \in bad
    BY <2>4, <2>6, <2>7
  <2>9. a <= Len(w)
    BY <2>2, <2>8
  <2> QED BY <2>3, <2>4, <2>7, <2>9
<1> QED BY <1>2, <1>3

-----------------------------------------------------------------------------
(* The heap at every step.                                                 *)

OneNodeEach(t) == \A i, j \in 1..Len(t) : t[i].id = t[j].id => i = j
IdsUsed(t, used) == \A i \in 1..Len(t) : t[i].id \in 1..used

HeapInv ==
  /\ TypeOK
  /\ Ordered(timers) /\ OneNodeEach(timers) /\ IdsUsed(timers, next_timer_id)
  /\ phase = "callback" => timers # <<>>

(* Nodes taken from an array keep their identities.                         *)
LEMMA PickedIds ==
  ASSUME NEW t, NEW w, NEW r, Picks(t, w, r), OneNodeEach(t), NEW used, IdsUsed(t, used)
  PROVE  OneNodeEach(w) /\ IdsUsed(w, used)
<1>1. \A j \in 1..Len(w) : r[j] \in 1..Len(t) /\ w[j] = t[r[j]]
  BY DEF Picks
<1>2. \A i, j \in 1..Len(w) : r[i] = r[j] => i = j
  BY DEF Picks
<1>3. IdsUsed(w, used)
  BY <1>1 DEF IdsUsed
<1>4. ASSUME NEW i \in 1..Len(w), NEW j \in 1..Len(w), w[i].id = w[j].id PROVE i = j
  <2>1. r[i] = r[j]
    BY <1>1, <1>4 DEF OneNodeEach
  <2> QED BY <1>2, <2>1
<1> QED BY <1>3, <1>4 DEF OneNodeEach

LEMMA DropsIds ==
  ASSUME NEW t, NEW w, Drops(t, w) \/ Keeps(t, w), OneNodeEach(t),
         NEW used, IdsUsed(t, used)
  PROVE  OneNodeEach(w) /\ IdsUsed(w, used) /\ w \in Seq(TimerNode) /\ Ordered(w)
BY PickedIds DEF Drops, Keeps

(* A registered timer: its node is in the array and the others are kept.    *)
Added(t, new, w) ==
  /\ Ordered(w) /\ w \in Seq(TimerNode) /\ w # <<>>
  /\ Keeps(Append(t, new), w)
  /\ t # <<>> /\ t[1].expiration <= new.expiration => w[1] = t[1]

LEMMA AddReorders ==
  ASSUME NEW t \in Seq(TimerNode), Ordered(t), NEW new \in TimerNode
  PROVE  LET w == timer_heap_up(Append(t, new), Len(t) + 1)
         IN /\ Raised(Append(t, new), Len(t) + 1, w)
            /\ w \in Arrays(Len(t) + 1) /\ Ordered(w) /\ Reorders(Append(t, new), w, {})
<1> DEFINE n == Len(t) + 1
           u == Append(t, new)
           w == timer_heap_up(u, n)
<1>1. /\ n \in Nat /\ n >= 1 /\ u \in Seq(TimerNode) /\ Len(u) = n /\ u[n] = new
      /\ \A j \in 1..Len(t) : u[j] = t[j]
  OBVIOUS
<1> HIDE DEF u, w, n
<1>2. \A j \in 2..n : j # n => j \in 2..Len(t) /\ j \in 1..Len(t)
  BY <1>1 DEF n
<1>3. OrderedBut(u, n)
  <2>1. ASSUME NEW j \in 2..n, j # n PROVE ~Earlier(u, j, Parent(j))
    <3>1. Parent(j) \in 1..(j - 1)
      BY ParentIs
    <3>2. Parent(j) \in 1..Len(t)
      BY <1>2, <2>1, <3>1
    <3>3. ~Earlier(t, j, Parent(j))
      BY <1>2, <2>1 DEF Ordered
    <3> QED BY <1>1, <1>2, <2>1, <3>2, <3>3 DEF Earlier
  <2>2. ASSUME NEW j \in 2..n PROVE Parent(j) # n
    BY <1>1, ParentIs
  <2> QED BY <1>1, <2>1, <2>2 DEF OrderedBut
<1>4. Raised(u, n, w)
  BY <1>1, <1>3, HeapUp DEF w
<1>5. w \in Arrays(n) /\ Ordered(w) /\ Reorders(u, w, {})
  BY <1>1, <1>4 DEF Raised
<1> QED BY <1>4, <1>5 DEF w, u, n

LEMMA AddIs ==
  ASSUME NEW t \in Seq(TimerNode), Ordered(t), NEW new \in TimerNode
  PROVE  Added(t, new, timer_heap_up(Append(t, new), Len(t) + 1))
<1> DEFINE n == Len(t) + 1
           u == Append(t, new)
           w == timer_heap_up(u, n)
<1>1. /\ n \in Nat /\ n >= 1 /\ u \in Seq(TimerNode) /\ Len(u) = n /\ u[n] = new
      /\ \A j \in 1..Len(t) : u[j] = t[j]
  OBVIOUS
<1> HIDE DEF u, w, n
<1>4. Raised(u, n, w)
  BY AddReorders DEF w, u, n
<1>5. w \in Arrays(n) /\ Ordered(w) /\ Reorders(u, w, {})
  BY AddReorders DEF w, u, n
<1>6. w \in Seq(TimerNode) /\ Len(w) = n /\ w # <<>>
  BY <1>1, <1>5, ArrayIsSeq
<1>7. Keeps(u, w)
  <2>1. PICK r : Picks(u, w, r) /\ Reaches(w, r, 1..Len(u))
    BY <1>5 DEF Reorders
  <2>2. Reaches(w, r, Active(u))
    BY <2>1 DEF Reaches, Active
  <2> QED BY <1>5, <1>6, <2>1, <2>2 DEF Keeps
<1>8. ASSUME t # <<>>, t[1].expiration <= new.expiration PROVE w[1] = t[1]
  <2>1. Len(t) \in Nat /\ Len(t) # 0
    BY <1>8, NotEmpty
  <2>2. n # 1 /\ u[1] = t[1]
    BY <1>1, <2>1 DEF n
  <2>3. new.expiration \in Int /\ t[1].expiration \in Int
    <3>1. 1 \in 1..Len(t)
      BY <2>1
    <3>2. t[1] \in TimerNode
      BY <3>1
    <3> QED BY <3>2 DEF TimerNode
  <2>4. ~Earlier(u, n, 1)
    BY <1>1, <1>8, <2>2, <2>3 DEF Earlier
  <2> QED BY <1>4, <2>2, <2>4 DEF Raised
<1> QED BY <1>5, <1>6, <1>7, <1>8 DEF Added, w, u, n

LEMMA AddedIds ==
  ASSUME NEW t \in Seq(TimerNode), OneNodeEach(t), NEW used \in Nat, IdsUsed(t, used),
         NEW new \in TimerNode, new.id = used + 1
  PROVE  OneNodeEach(Append(t, new)) /\ IdsUsed(Append(t, new), used + 1)
<1> DEFINE u == Append(t, new)
<1>1. /\ Len(u) = Len(t) + 1 /\ Len(t) \in Nat /\ u[Len(t) + 1] = new
      /\ \A j \in 1..Len(t) : u[j] = t[j]
  OBVIOUS
<1> HIDE DEF u
<1>2. \A j \in 1..Len(u) : j # Len(t) + 1 => j \in 1..Len(t)
  BY <1>1
<1>3. \A j \in 1..Len(t) : u[j].id \in 1..used
  BY <1>1 DEF IdsUsed
<1>4. IdsUsed(u, used + 1)
  BY <1>1, <1>2, <1>3 DEF IdsUsed
<1>5. ASSUME NEW i \in 1..Len(u), NEW j \in 1..Len(u), u[i].id = u[j].id PROVE i = j
  <2>1. CASE i # Len(t) + 1 /\ j # Len(t) + 1
    BY <1>1, <1>2, <1>5, <2>1 DEF OneNodeEach
  <2>2. CASE i = Len(t) + 1 \/ j = Len(t) + 1
    <3>1. used + 1 \notin 1..used
      OBVIOUS
    <3> QED BY <1>1, <1>2, <1>3, <1>5, <2>2, <3>1
  <2> QED BY <2>1, <2>2
<1> QED BY <1>4, <1>5 DEF OneNodeEach, u

(* A node that is marked.                                                   *)
Marked(t, i) == [t EXCEPT ![i].active = FALSE]

LEMMA MarkIs ==
  ASSUME NEW t \in Seq(TimerNode), NEW i \in 1..Len(t)
  PROVE  /\ Marked(t, i) \in Seq(TimerNode) /\ Len(Marked(t, i)) = Len(t)
         /\ \A j \in 1..Len(t) :
              /\ Marked(t, i)[j].expiration = t[j].expiration
              /\ Marked(t, i)[j].id = t[j].id
              /\ Marked(t, i)[j].active <=> j # i /\ t[j].active
<1> DEFINE u == Marked(t, i)
           marked == [t[i] EXCEPT !.active = FALSE]
<1>1. \A j \in 1..Len(t) : t[j] \in TimerNode
  OBVIOUS
<1>2. /\ marked \in TimerNode /\ marked.expiration = t[i].expiration /\ marked.id = t[i].id
      /\ marked.active = FALSE
  <2>1. t[i] \in TimerNode
    BY <1>1
  <2> QED BY <2>1 DEF TimerNode
<1>3. u = [t EXCEPT ![i] = marked]
  BY DEF Marked
<1> HIDE DEF u, marked
<1>4. u \in Seq(TimerNode) /\ Len(u) = Len(t)
  BY <1>2, <1>3
<1>5. u[i] = marked /\ \A j \in 1..Len(t) : j # i => u[j] = t[j]
  BY <1>3
<1>6. \A j \in 1..Len(t) : /\ u[j].expiration = t[j].expiration /\ u[j].id = t[j].id
                           /\ u[j].active <=> j # i /\ t[j].active
  BY <1>2, <1>5
<1> QED BY <1>4, <1>6 DEF u

LEMMA MarkedHeap ==
  ASSUME NEW t \in Seq(TimerNode), NEW i \in 1..Len(t), Ordered(t), OneNodeEach(t),
         NEW used, IdsUsed(t, used)
  PROVE  /\ Ordered(Marked(t, i)) /\ OneNodeEach(Marked(t, i))
         /\ IdsUsed(Marked(t, i), used)
<1> DEFINE u == Marked(t, i)
<1>1. /\ Len(u) = Len(t)
      /\ \A j \in 1..Len(t) : u[j].expiration = t[j].expiration /\ u[j].id = t[j].id
  BY MarkIs
<1> HIDE DEF u
<1>2. ASSUME NEW j \in 2..Len(t) PROVE ~Earlier(u, j, Parent(j))
  <2>1. Parent(j) \in 1..Len(t) /\ j \in 1..Len(t)
    BY ParentIs
  <2> QED BY <1>1, <2>1 DEF Ordered, Earlier
<1> QED BY <1>1, <1>2 DEF Ordered, OneNodeEach, IdsUsed, u

LEMMA HeapStep == HeapInv /\ [Next]_vars => HeapInv'
<1> SUFFICES ASSUME HeapInv, [Next]_vars PROVE HeapInv'
  OBVIOUS
<1> USE DEF HeapInv
<1>0. TypeOK /\ timers \in Seq(TimerNode) /\ next_timer_id \in Nat /\ MaxTimers \in Nat
  BY TimerAssumption DEF TypeOK
<1>1. ASSUME NEW timeout_ms \in Timeouts, http_loop_add_timer(timeout_ms) PROVE HeapInv'
  <2> DEFINE new == [expiration |-> clock + timeout_ms, id |-> next_timer_id + 1,
                     active |-> TRUE]
  <2>1. new \in TimerNode /\ new.id = next_timer_id + 1
    BY <1>0, TimerAssumption DEF TimerNode, TypeOK
  <2>2. timers' = timer_heap_up(Append(timers, new), Len(timers) + 1)
    BY <1>1 DEF http_loop_add_timer
  <2> HIDE DEF new
  <2>3. Added(timers, new, timers')
    BY <1>0, <2>1, <2>2, AddIs
  <2>4. /\ OneNodeEach(Append(timers, new))
        /\ IdsUsed(Append(timers, new), next_timer_id + 1)
    BY <1>0, <2>1, AddedIds
  <2>5. next_timer_id' = next_timer_id + 1
    BY <1>1 DEF http_loop_add_timer
  <2>6. OneNodeEach(timers') /\ IdsUsed(timers', next_timer_id')
    BY <2>3, <2>4, <2>5, DropsIds DEF Added
  <2>7. TypeOK'
    BY <1>0, <1>1, <2>3, <2>5 DEF TypeOK, http_loop_add_timer, Added
  <2> QED BY <2>3, <2>6, <2>7 DEF Added
<1>2. ASSUME NEW timer_id \in 1..next_timer_id, http_loop_cancel_timer(timer_id)
      PROVE  HeapInv'
  <2>1. PICK i \in DOMAIN timers : timers' = Marked(timers, i)
    BY <1>2 DEF http_loop_cancel_timer, Marked
  <2>2. i \in 1..Len(timers)
    BY <1>0, <2>1
  <2>3. UNCHANGED <<next_timer_id, clock, phase, now, fired>>
        /\ cancelled' = cancelled \cup {timer_id}
    BY <1>2 DEF http_loop_cancel_timer, Marked
  <2>4. timers' \in Seq(TimerNode) /\ Len(timers') = Len(timers)
    BY <1>0, <2>1, <2>2, MarkIs
  <2>5. Ordered(timers') /\ OneNodeEach(timers') /\ IdsUsed(timers', next_timer_id')
    BY <1>0, <2>1, <2>2, <2>3, MarkedHeap
  <2>6. TypeOK'
    BY <2>3, <2>4 DEF TypeOK
  <2>7. timers' # <<>>
    BY <2>2, <2>4
  <2> QED BY <2>5, <2>6, <2>7
<1>3. CASE process_timers_begin
  BY <1>3 DEF process_timers_begin, TypeOK, Phases
<1>4. CASE process_timers_fire
  <2>1. timers # <<>> /\ timers' = Marked(timers, 1)
        /\ fired' = fired \cup {timers[1].id} /\ phase' = "callback"
        /\ UNCHANGED <<next_timer_id, clock, now, cancelled>> /\ phase = "test"
    BY <1>4 DEF process_timers_fire, RootDue, Marked
  <2>2. 1 \in 1..Len(timers)
    BY <1>0, <2>1, NotEmpty
  <2>3. timers' \in Seq(TimerNode) /\ Len(timers') = Len(timers)
    BY <1>0, <2>1, <2>2, MarkIs
  <2>4. Ordered(timers') /\ OneNodeEach(timers') /\ IdsUsed(timers', next_timer_id')
    BY <1>0, <2>1, <2>2, MarkedHeap
  <2>5. TypeOK'
    BY <2>1, <2>2, <2>3 DEF TypeOK, Phases, IdsUsed
  <2>6. timers' # <<>>
    BY <2>2, <2>3
  <2> QED BY <2>4, <2>5, <2>6
<1>5. ASSUME timers # <<>>, timers' = RemoveRoot(timers), phase' = "test",
             UNCHANGED <<next_timer_id, clock, now, fired, cancelled>>, phase # "idle"
      PROVE  HeapInv'
  <2>1. Drops(timers, timers')
    BY <1>0, <1>5, RemoveRootDrops
  <2>2. OneNodeEach(timers') /\ IdsUsed(timers', next_timer_id')
    BY <1>5, <2>1, DropsIds
  <2>3. timers' \in Seq(TimerNode) /\ Ordered(timers')
    BY <2>1 DEF Drops
  <2>4. TypeOK'
    BY <1>5, <2>3 DEF TypeOK, Phases
  <2> QED BY <1>5, <2>2, <2>3, <2>4
<1>6. CASE process_timers_fired
  BY <1>5, <1>6 DEF process_timers_fired
<1>7. CASE process_timers_skip
  BY <1>5, <1>7 DEF process_timers_skip, RootDue
<1>8. CASE process_timers_end
  <2>1. Keeps(timers, timers')
    BY <1>0, <1>8, PurgeKeeps, KeepsItself DEF process_timers_end
  <2>2. /\ OneNodeEach(timers') /\ IdsUsed(timers', next_timer_id')
        /\ timers' \in Seq(TimerNode) /\ Ordered(timers')
    BY <1>8, <2>1, DropsIds DEF process_timers_end
  <2>3. TypeOK' /\ phase' = "idle"
    BY <1>8, <2>2 DEF TypeOK, Phases, process_timers_end
  <2> QED BY <2>2, <2>3
<1>9. CASE ClockMoves
  BY <1>9 DEF ClockMoves, TypeOK
<1>10. CASE UNCHANGED vars
  BY <1>10 DEF vars, TypeOK
<1> QED BY <1>1, <1>2, <1>3, <1>4, <1>6, <1>7, <1>8, <1>9, <1>10 DEF Next, process_timers

LEMMA HeapAlways == Spec => []HeapInv
<1>1. Init => HeapInv
  <2> SUFFICES ASSUME Init PROVE HeapInv
    OBVIOUS
  <2>1. timers = <<>> /\ Len(timers) = 0 /\ timers \in Seq(TimerNode)
    BY DEF Init
  <2>2. Ordered(timers) /\ OneNodeEach(timers) /\ IdsUsed(timers, next_timer_id)
    BY <2>1 DEF Ordered, OneNodeEach, IdsUsed
  <2>3. TypeOK /\ phase # "callback"
    BY <2>1, TimerAssumption DEF Init, TypeOK, Phases
  <2> QED BY <2>2, <2>3 DEF HeapInv
<1> QED BY <1>1, HeapStep, PTL DEF Spec

(* The array is a heap with one node for each timer in every state, also    *)
(* while callbacks register and cancel timers, with any clock and any       *)
(* timeouts.                                                               *)
THEOREM HeapTheorem == Spec => [](TypeOK /\ Ordered(timers) /\ OneNodeEach(timers))
<1>1. HeapInv => TypeOK /\ Ordered(timers) /\ OneNodeEach(timers)
  BY DEF HeapInv
<1> QED BY <1>1, HeapAlways, PTL

-----------------------------------------------------------------------------
(* Heaps of any size against sets.                                         *)

(* The root of a heap expires first.                                        *)
LEMMA RootLeast ==
  ASSUME NEW t \in Seq(TimerNode), t # <<>>, Ordered(t)
  PROVE  \A j \in 1..Len(t) : t[1].expiration <= t[j].expiration
<1> DEFINE bad == {j \in 1..Len(t) : ~(t[1].expiration <= t[j].expiration)}
<1> SUFFICES ASSUME bad # {} PROVE FALSE
  OBVIOUS
<1>1. PICK j \in bad : \A k \in bad : j <= k
  BY LeastNumber, bad \subseteq Nat
<1>2. \A k \in 1..Len(t) : t[k].expiration \in Int
  <2>1. \A k \in 1..Len(t) : t[k] \in TimerNode
    OBVIOUS
  <2> QED BY <2>1 DEF TimerNode
<1>3. j \in 2..Len(t) /\ 1 \in 1..Len(t) /\ j \in 1..Len(t)
  BY <1>1, <1>2
<1>4. Parent(j) \in 1..Len(t) /\ ~(j <= Parent(j))
  BY <1>3, ParentIs
<1>5. t[1].expiration <= t[Parent(j)].expiration
  BY <1>1, <1>4
<1>6. ~Earlier(t, j, Parent(j))
  BY <1>3 DEF Ordered
<1> QED BY <1>1, <1>2, <1>3, <1>4, <1>5, <1>6 DEF Earlier

LEMMA HeapIsOrdered ==
  ASSUME NEW t \in Seq(TimerNode)
  PROVE  IsHeap(t) <=> Ordered(t)
<1>1. \A i \in 1..Len(t) : t[i].expiration \in Int
  <2>1. \A i \in 1..Len(t) : t[i] \in TimerNode
    OBVIOUS
  <2> QED BY <2>1 DEF TimerNode
<1>2. \A i \in 2..Len(t) : i \in 1..Len(t) /\ Parent(i) \in 1..Len(t) /\ Parent(i) = i \div 2
  BY ParentIs DEF Parent
<1>3. \A i \in 2..Len(t) : t[i \div 2].expiration <= t[i].expiration <=> ~Earlier(t, i, Parent(i))
  BY <1>1, <1>2 DEF Earlier
<1> QED BY <1>3 DEF IsHeap, Ordered

LEMMA NodesAre ==
  ASSUME NEW t \in Seq(TimerNode)
  PROVE  /\ \A x : x \in Nodes(t) <=> \E i \in 1..Len(t) : x = t[i]
         /\ \A x : x \in ActiveNodes(t) <=> \E i \in 1..Len(t) : x = t[i] /\ t[i].active
BY DEF Nodes, ActiveNodes

LEMMA KeepsActive ==
  ASSUME NEW t \in Seq(TimerNode), NEW w, Keeps(t, w)
  PROVE  ActiveNodes(w) = ActiveNodes(t)
<1>1. PICK r : Picks(t, w, r) /\ Reaches(w, r, Active(t))
  BY DEF Keeps
<1>2. w \in Seq(TimerNode) /\ \A j \in 1..Len(w) : r[j] \in 1..Len(t) /\ w[j] = t[r[j]]
  BY <1>1 DEF Keeps, Picks
<1>3. ASSUME NEW x \in ActiveNodes(w) PROVE x \in ActiveNodes(t)
  <2>1. PICK j \in 1..Len(w) : x = w[j] /\ w[j].active
    BY <1>2, NodesAre
  <2> QED BY <1>2, <2>1, NodesAre
<1>4. ASSUME NEW x \in ActiveNodes(t) PROVE x \in ActiveNodes(w)
  <2>1. PICK k \in 1..Len(t) : x = t[k] /\ t[k].active
    BY NodesAre
  <2>2. PICK j \in 1..Len(w) : r[j] = k
    BY <1>1, <2>1 DEF Reaches, Active
  <2>3. x = w[j] /\ w[j].active
    BY <1>2, <2>1, <2>2
  <2> QED BY <1>2, <2>3, NodesAre
<1> QED BY <1>3, <1>4

(* Removing the root of a heap removes its node and no other.               *)
LEMMA DropsRoot ==
  ASSUME NEW t \in Seq(TimerNode), t # <<>>, OneNodeEach(t), NEW w, Drops(t, w)
  PROVE  Nodes(w) = Nodes(t) \ {t[1]}
<1>1. PICK r : /\ Picks(t, w, r) /\ Reaches(w, r, 2..Len(t))
               /\ \A j \in 1..Len(w) : r[j] # 1
  BY DEF Drops
<1>2. w \in Seq(TimerNode) /\ \A j \in 1..Len(w) : r[j] \in 1..Len(t) /\ w[j] = t[r[j]]
  BY <1>1 DEF Drops, Picks
<1>3. 1 \in 1..Len(t)
  BY NotEmpty
<1>4. ASSUME NEW x \in Nodes(w) PROVE x \in Nodes(t) /\ x # t[1]
  <2>1. PICK j \in 1..Len(w) : x = w[j]
    BY <1>2, NodesAre
  <2>2. r[j] \in 1..Len(t) /\ x = t[r[j]] /\ r[j] # 1
    BY <1>1, <1>2, <2>1
  <2>3. x # t[1]
    BY <1>3, <2>2 DEF OneNodeEach
  <2> QED BY <2>2, <2>3, NodesAre
<1>5. ASSUME NEW x \in Nodes(t), x # t[1] PROVE x \in Nodes(w)
  <2>1. PICK k \in 1..Len(t) : x = t[k]
    BY NodesAre
  <2>2. k \in 2..Len(t)
    BY <1>5, <2>1
  <2>3. PICK j \in 1..Len(w) : r[j] = k
    BY <1>1, <2>2 DEF Reaches
  <2> QED BY <1>2, <2>1, <2>3, NodesAre
<1> QED BY <1>4, <1>5

LEMMA ReordersNodes ==
  ASSUME NEW t \in Seq(TimerNode), NEW w \in Seq(TimerNode), Reorders(t, w, {})
  PROVE  Nodes(w) = Nodes(t)
<1>1. PICK r : Picks(t, w, r) /\ Reaches(w, r, 1..Len(t))
  BY DEF Reorders
<1>2. \A j \in 1..Len(w) : r[j] \in 1..Len(t) /\ w[j] = t[r[j]]
  BY <1>1 DEF Picks
<1>3. ASSUME NEW x \in Nodes(w) PROVE x \in Nodes(t)
  <2>1. PICK j \in 1..Len(w) : x = w[j]
    BY NodesAre
  <2> QED BY <1>2, <2>1, NodesAre
<1>4. ASSUME NEW x \in Nodes(t) PROVE x \in Nodes(w)
  <2>1. PICK k \in 1..Len(t) : x = t[k]
    BY NodesAre
  <2>2. PICK j \in 1..Len(w) : r[j] = k
    BY <1>1, <2>1 DEF Reaches
  <2> QED BY <1>2, <2>1, <2>2, NodesAre
<1> QED BY <1>3, <1>4

(* What HeapOpsAreSetOps says of the heap, of an array t.                   *)
SetOps(t, news) ==
  /\ \A new \in news :
       LET up == timer_heap_up(Append(t, new), Len(t) + 1)
       IN  IsHeap(up) /\ Nodes(up) = Nodes(t) \cup {new} /\ Len(up) = Len(t) + 1
  /\ LET rest == RemoveRoot(t)
     IN  IsHeap(rest) /\ Nodes(rest) = Nodes(t) \ {t[1]} /\ Len(rest) = Len(t) - 1
  /\ LET purged == Purge(t)
     IN  /\ IsHeap(purged) /\ ActiveNodes(purged) = ActiveNodes(t)
         /\ IF ActiveNodes(t) = {} THEN purged = <<>>
            ELSE /\ purged[1].active
                 /\ \A n \in ActiveNodes(t) : purged[1].expiration <= n.expiration

LEMMA SetOpsHold ==
  ASSUME NEW t \in Seq(TimerNode), t # <<>>, IsHeap(t), OneNodeEach(t)
  PROVE  SetOps(t, TimerNode)
<1>1. Ordered(t)
  BY HeapIsOrdered
<1>2. ASSUME NEW new \in TimerNode
      PROVE  LET up == timer_heap_up(Append(t, new), Len(t) + 1)
             IN IsHeap(up) /\ Nodes(up) = Nodes(t) \cup {new} /\ Len(up) = Len(t) + 1
  <2> DEFINE u == Append(t, new)
             up == timer_heap_up(u, Len(t) + 1)
  <2>1. /\ u \in Seq(TimerNode) /\ Len(u) = Len(t) + 1 /\ Len(t) \in Nat /\ u[Len(t) + 1] = new
        /\ \A j \in 1..Len(t) : u[j] = t[j]
    OBVIOUS
  <2>2. up \in Arrays(Len(t) + 1) /\ Ordered(up) /\ Reorders(u, up, {})
    BY <1>1, AddReorders
  <2> HIDE DEF u, up
  <2>3. up \in Seq(TimerNode) /\ Len(up) = Len(t) + 1
    BY <2>1, <2>2, ArrayIsSeq
  <2>4. Nodes(up) = Nodes(u)
    BY <2>1, <2>2, <2>3, ReordersNodes
  <2>5. Nodes(u) = Nodes(t) \cup {new}
    <3>1. ASSUME NEW x \in Nodes(u) PROVE x \in Nodes(t) \cup {new}
      <4>1. PICK j \in 1..Len(u) : x = u[j]
        BY <2>1, NodesAre
      <4>2. j \in 1..Len(t) \/ j = Len(t) + 1
        BY <2>1, <4>1
      <4> QED BY <2>1, <4>1, <4>2, NodesAre
    <3>2. ASSUME NEW x \in Nodes(t) PROVE x \in Nodes(u)
      <4>1. PICK j \in 1..Len(t) : x = t[j]
        BY NodesAre
      <4>2. j \in 1..Len(u) /\ x = u[j]
        BY <2>1, <4>1
      <4> QED BY <2>1, <4>2, NodesAre
    <3>3. new \in Nodes(u)
      <4>1. Len(t) + 1 \in 1..Len(u)
        BY <2>1
      <4> QED BY <2>1, <4>1, NodesAre
    <3> QED BY <3>1, <3>2, <3>3
  <2> QED BY <2>2, <2>3, <2>4, <2>5, HeapIsOrdered DEF up, u
<1>3. LET rest == RemoveRoot(t)
      IN IsHeap(rest) /\ Nodes(rest) = Nodes(t) \ {t[1]} /\ Len(rest) = Len(t) - 1
  <2>1. Drops(t, RemoveRoot(t))
    BY <1>1, RemoveRootDrops
  <2>2. Nodes(RemoveRoot(t)) = Nodes(t) \ {t[1]}
    BY <2>1, DropsRoot
  <2>3. /\ RemoveRoot(t) \in Seq(TimerNode) /\ Ordered(RemoveRoot(t))
        /\ Len(RemoveRoot(t)) = Len(t) - 1
    BY <2>1 DEF Drops
  <2> QED BY <2>2, <2>3, HeapIsOrdered
<1>4. LET purged == Purge(t)
      IN /\ IsHeap(purged) /\ ActiveNodes(purged) = ActiveNodes(t)
         /\ IF ActiveNodes(t) = {} THEN purged = <<>>
            ELSE /\ purged[1].active
                 /\ \A n \in ActiveNodes(t) : purged[1].expiration <= n.expiration
  <2> DEFINE p == Purge(t)
  <2>1. Keeps(t, p)
    BY <1>1, PurgeKeeps
  <2>2. p = <<>> \/ p[1].active
    BY PurgeStops
  <2> HIDE DEF p
  <2>3. p \in Seq(TimerNode) /\ Ordered(p) /\ ActiveNodes(p) = ActiveNodes(t)
    BY <2>1, KeepsActive DEF Keeps
  <2>4. p # <<>> => p[1] \in ActiveNodes(p)
    <3>1. ASSUME p # <<>> PROVE 1 \in 1..Len(p)
      BY <2>3, <3>1, NotEmpty
    <3> QED BY <2>2, <2>3, <3>1, NodesAre
  <2>5. ASSUME NEW n \in ActiveNodes(p) PROVE p # <<>> /\ p[1].expiration <= n.expiration
    <3>1. PICK j \in 1..Len(p) : n = p[j]
      BY <2>3, NodesAre
    <3>2. p # <<>>
      BY <3>1
    <3> QED BY <2>3, <3>1, <3>2, RootLeast
  <2> QED BY <2>2, <2>3, <2>4, <2>5, HeapIsOrdered DEF p
<1> QED BY <1>2, <1>3, <1>4 DEF SetOps

(* Adding, removing and purging do to the nodes of the heap what they do to *)
(* a set, in every state: for any number of timers, any timeouts and any    *)
(* clock, and whichever nodes are cancelled.                                *)
THEOREM HeapOpsTheorem == Spec => []HeapOpsAreSetOps
<1>1. ASSUME HeapInv PROVE HeapOpsAreSetOps
  <2> SUFFICES ASSUME timers # <<>>
               PROVE  SetOps(timers, {[expiration |-> clock + timeout, id |-> next_timer_id + 1,
                                       active |-> TRUE] : timeout \in Timeouts})
    BY DEF HeapOpsAreSetOps, SetOps
  <2>1. timers \in Seq(TimerNode) /\ Ordered(timers) /\ OneNodeEach(timers)
    BY <1>1 DEF HeapInv, TypeOK
  <2>2. SetOps(timers, TimerNode)
    BY <2>1, SetOpsHold, HeapIsOrdered
  <2>3. \A timeout \in Timeouts :
          [expiration |-> clock + timeout, id |-> next_timer_id + 1, active |-> TRUE] \in TimerNode
    <3>1. clock \in Int /\ next_timer_id + 1 \in Nat
      BY <1>1, TimerAssumption DEF HeapInv, TypeOK
    <3>2. \A timeout \in Timeouts : clock + timeout \in Int
      BY <3>1, TimerAssumption
    <3> QED BY <3>1, <3>2 DEF TimerNode
  <2> QED BY <2>2, <2>3 DEF SetOps
<1> QED BY <1>1, HeapAlways, PTL

-----------------------------------------------------------------------------
(* The heap as the set of timers.                                          *)

TimerOf(node) == [id |-> node.id, due |-> node.expiration]

Live(t) == {[id |-> t[i].id, due |-> t[i].expiration] : i \in {j \in DOMAIN t : t[j].active}}

LEMMA LiveIs ==
  ASSUME NEW t \in Seq(TimerNode)
  PROVE  \A x : x \in Live(t) <=> \E i \in 1..Len(t) : t[i].active /\ x = TimerOf(t[i])
BY DEF Live, TimerOf

LEMMA KeepsLive ==
  ASSUME NEW t \in Seq(TimerNode), NEW w, Keeps(t, w)
  PROVE  Live(w) = Live(t)
<1>1. PICK r : Picks(t, w, r) /\ Reaches(w, r, Active(t))
  BY DEF Keeps
<1>2. w \in Seq(TimerNode)
  BY DEF Keeps
<1>3. \A j \in 1..Len(w) : r[j] \in 1..Len(t) /\ w[j] = t[r[j]]
  BY <1>1 DEF Picks
<1>4. ASSUME NEW x \in Live(w) PROVE x \in Live(t)
  <2>1. PICK j \in 1..Len(w) : w[j].active /\ x = TimerOf(w[j])
    BY <1>2, LiveIs
  <2> QED BY <1>3, <2>1, LiveIs
<1>5. ASSUME NEW x \in Live(t) PROVE x \in Live(w)
  <2>1. PICK k \in 1..Len(t) : t[k].active /\ x = TimerOf(t[k])
    BY LiveIs
  <2>2. PICK j \in 1..Len(w) : r[j] = k
    BY <1>1, <2>1 DEF Reaches, Active
  <2> QED BY <1>2, <1>3, <2>1, <2>2, LiveIs
<1> QED BY <1>4, <1>5

LEMMA AppendLive ==
  ASSUME NEW t \in Seq(TimerNode), NEW new \in TimerNode, new.active
  PROVE  Live(Append(t, new)) = Live(t) \cup {TimerOf(new)}
<1> DEFINE u == Append(t, new)
<1>1. /\ u \in Seq(TimerNode) /\ Len(u) = Len(t) + 1 /\ Len(t) \in Nat /\ u[Len(t) + 1] = new
      /\ \A j \in 1..Len(t) : u[j] = t[j]
  OBVIOUS
<1> HIDE DEF u
<1>2. \A j \in 1..Len(u) : j = Len(t) + 1 \/ j \in 1..Len(t)
  BY <1>1
<1>3. Len(t) + 1 \in 1..Len(u) /\ \A j \in 1..Len(t) : j \in 1..Len(u)
  BY <1>1
<1>4. ASSUME NEW x \in Live(u) PROVE x \in Live(t) \/ x = TimerOf(new)
  <2>1. PICK j \in 1..Len(u) : u[j].active /\ x = TimerOf(u[j])
    BY <1>1, LiveIs
  <2> QED BY <1>1, <1>2, <2>1, LiveIs
<1>5. ASSUME NEW x \in Live(t) PROVE x \in Live(u)
  <2>1. PICK j \in 1..Len(t) : t[j].active /\ x = TimerOf(t[j])
    BY LiveIs
  <2> QED BY <1>1, <1>3, <2>1, LiveIs
<1>6. TimerOf(new) \in Live(u)
  BY <1>1, <1>3, LiveIs
<1> QED BY <1>4, <1>5, <1>6 DEF u

LEMMA MarkLive ==
  ASSUME NEW t \in Seq(TimerNode), OneNodeEach(t), NEW i \in 1..Len(t), t[i].active
  PROVE  /\ Live(Marked(t, i)) = Live(t) \ {TimerOf(t[i])}
         /\ TimerOf(t[i]) \in Live(t)
<1> DEFINE u == Marked(t, i)
<1>1. /\ u \in Seq(TimerNode) /\ Len(u) = Len(t)
      /\ \A j \in 1..Len(t) : /\ u[j].expiration = t[j].expiration /\ u[j].id = t[j].id
                              /\ u[j].active <=> j # i /\ t[j].active
  BY MarkIs
<1> HIDE DEF u
<1>2. \A j \in 1..Len(t) : TimerOf(u[j]) = TimerOf(t[j])
  BY <1>1 DEF TimerOf
<1>3. ASSUME NEW x \in Live(u) PROVE x \in Live(t) /\ x # TimerOf(t[i])
  <2>1. PICK j \in 1..Len(t) : u[j].active /\ x = TimerOf(u[j])
    BY <1>1, LiveIs
  <2>2. j # i /\ t[j].active /\ x = TimerOf(t[j])
    BY <1>1, <1>2, <2>1
  <2>3. t[j].id # t[i].id
    BY <2>2 DEF OneNodeEach
  <2>4. x # TimerOf(t[i])
    BY <2>2, <2>3 DEF TimerOf
  <2> QED BY <2>2, <2>4, LiveIs
<1>4. ASSUME NEW x \in Live(t), x # TimerOf(t[i]) PROVE x \in Live(u)
  <2>1. PICK j \in 1..Len(t) : t[j].active /\ x = TimerOf(t[j])
    BY LiveIs
  <2>2. j # i
    BY <1>4, <2>1
  <2>3. u[j].active /\ x = TimerOf(u[j]) /\ j \in 1..Len(u)
    BY <1>1, <1>2, <2>1, <2>2
  <2> QED BY <1>1, <2>3, LiveIs
<1>5. TimerOf(t[i]) \in Live(t)
  BY LiveIs
<1> QED BY <1>3, <1>4, <1>5 DEF u

(* With a clock that does not step back and timeouts that are not negative, *)
(* the root of the heap during a callback is the node that fired: what the  *)
(* callback registers does not expire before it.                           *)
PassInv ==
  /\ phase # "idle" => now <= clock
  /\ phase = "callback" => ~timers[1].active /\ timers[1].expiration <= now

LEMMA PassStep ==
  ASSUME Timeouts \subseteq Nat, ClockSteps \subseteq Nat, HeapInv, PassInv, [Next]_vars
  PROVE  PassInv'
<1>0. /\ TypeOK /\ timers \in Seq(TimerNode) /\ clock \in Nat /\ Ordered(timers)
      /\ phase = "callback" => timers # <<>>
      /\ phase # "idle" => now \in Nat
  BY TimerAssumption DEF HeapInv, TypeOK
<1>1. ASSUME NEW timeout_ms \in Timeouts, http_loop_add_timer(timeout_ms) PROVE PassInv'
  <2> DEFINE new == [expiration |-> clock + timeout_ms, id |-> next_timer_id + 1,
                     active |-> TRUE]
  <2>1. new \in TimerNode /\ new.expiration = clock + timeout_ms /\ timeout_ms \in Nat
    BY <1>0, TimerAssumption DEF TimerNode, TypeOK
  <2>2. timers' = timer_heap_up(Append(timers, new), Len(timers) + 1)
        /\ UNCHANGED <<clock, phase, now>>
    BY <1>1 DEF http_loop_add_timer
  <2> HIDE DEF new
  <2>3. Added(timers, new, timers')
    BY <1>0, <2>1, <2>2, AddIs
  <2>4. ASSUME phase = "callback" PROVE timers'[1] = timers[1]
    <3>1. timers[1].expiration <= now /\ now <= clock /\ timers # <<>>
      BY <1>0, <2>4 DEF PassInv
    <3>2. timers[1].expiration \in Int
      <4>1. 1 \in 1..Len(timers)
        BY <1>0, <3>1, NotEmpty
      <4>2. timers[1] \in TimerNode
        BY <1>0, <4>1
      <4> QED BY <4>2 DEF TimerNode
    <3>3. timers[1].expiration <= new.expiration
      BY <1>0, <2>1, <2>4, <3>1, <3>2
    <3> QED BY <2>3, <3>1, <3>3 DEF Added
  <2> QED BY <2>2, <2>4 DEF PassInv
<1>mark. ASSUME NEW i \in 1..Len(timers), timers' = Marked(timers, i)
      PROVE  \A j \in 1..Len(timers) :
               /\ timers'[j].expiration = timers[j].expiration
               /\ timers'[j].active <=> j # i /\ timers[j].active
  BY <1>0, <1>mark, MarkIs
<1>2. ASSUME NEW timer_id \in 1..next_timer_id, http_loop_cancel_timer(timer_id)
      PROVE  PassInv'
  <2>1. PICK i \in DOMAIN timers : timers' = Marked(timers, i)
    BY <1>2 DEF http_loop_cancel_timer, Marked
  <2>2. UNCHANGED <<clock, phase, now>>
    BY <1>2 DEF http_loop_cancel_timer, Marked
  <2>3. ASSUME phase = "callback"
        PROVE  timers'[1].expiration = timers[1].expiration /\ ~timers'[1].active
    <3>1. 1 \in 1..Len(timers) /\ i \in 1..Len(timers)
      BY <1>0, <2>1, <2>3, NotEmpty
    <3>2. /\ timers'[1].expiration = timers[1].expiration
          /\ (timers'[1].active <=> 1 # i /\ timers[1].active)
      BY <1>mark, <2>1, <3>1
    <3>3. ~timers[1].active
      BY <2>3 DEF PassInv
    <3> QED BY <3>2, <3>3
  <2> QED BY <2>2, <2>3 DEF PassInv
<1>3. CASE process_timers_begin
  BY <1>0, <1>3 DEF process_timers_begin, PassInv
<1>4. CASE process_timers_fire
  <2>1. timers # <<>> /\ timers[1].expiration <= now /\ phase = "test"
        /\ timers' = Marked(timers, 1) /\ UNCHANGED <<clock, now>>
    BY <1>4 DEF process_timers_fire, RootDue, Marked
  <2>2. 1 \in 1..Len(timers)
    BY <1>0, <2>1, NotEmpty
  <2>3. timers'[1].expiration = timers[1].expiration /\ ~timers'[1].active
    BY <1>0, <2>1, <2>2, MarkIs
  <2> QED BY <2>1, <2>3 DEF PassInv
<1>5. CASE process_timers_fired \/ process_timers_skip
  BY <1>5 DEF process_timers_fired, process_timers_skip, PassInv
<1>6. CASE process_timers_end
  BY <1>6 DEF process_timers_end, PassInv
<1>7. CASE ClockMoves
  <2>1. clock <= clock' /\ UNCHANGED <<timers, phase, now>> /\ clock' \in Nat
    BY <1>0, <1>7, TimerAssumption DEF ClockMoves
  <2> QED BY <1>0, <2>1 DEF PassInv
<1>8. CASE UNCHANGED vars
  BY <1>8 DEF vars, PassInv
<1> QED BY <1>1, <1>2, <1>3, <1>4, <1>5, <1>6, <1>7, <1>8 DEF Next, process_timers

LEMMA RefinementStep ==
  ASSUME Timeouts \subseteq Nat, ClockSteps \subseteq Nat, HeapInv, PassInv, [Next]_vars
  PROVE  Timer!Next \/ UNCHANGED Timer!tvars
<1>0. /\ TypeOK /\ timers \in Seq(TimerNode) /\ clock \in Nat
      /\ Ordered(timers) /\ OneNodeEach(timers)
      /\ next_timer_id \in Nat /\ (phase = "callback" => timers # <<>>)
      /\ \A i \in 1..Len(timers) : timers[i] \in TimerNode
  BY TimerAssumption DEF HeapInv, TypeOK
<1>1. ASSUME NEW timeout_ms \in Timeouts, http_loop_add_timer(timeout_ms)
      PROVE  Timer!Add(timeout_ms)
  <2> DEFINE new == [expiration |-> clock + timeout_ms, id |-> next_timer_id + 1,
                     active |-> TRUE]
  <2>1. /\ new \in TimerNode /\ new.active
        /\ TimerOf(new) = [id |-> next_timer_id + 1, due |-> clock + timeout_ms]
    <3>1. clock + timeout_ms \in Int
      BY <1>0
    <3> QED BY <1>0, <3>1 DEF TimerNode, TimerOf
  <2>2. /\ timers' = timer_heap_up(Append(timers, new), Len(timers) + 1)
        /\ next_timer_id' = next_timer_id + 1 /\ UNCHANGED <<clock, fired, cancelled>>
    BY <1>1 DEF http_loop_add_timer
  <2> HIDE DEF new
  <2>3. Keeps(Append(timers, new), timers')
    BY <1>0, <2>1, <2>2, AddIs DEF Added
  <2>4. Append(timers, new) \in Seq(TimerNode)
    BY <1>0, <2>1
  <2>5. Live(timers') = Live(timers) \cup {TimerOf(new)}
    BY <1>0, <2>1, <2>3, <2>4, KeepsLive, AppendLive
  <2> QED BY <2>1, <2>2, <2>5 DEF Timer!Add, Live
<1>2. ASSUME NEW i \in 1..Len(timers), timers[i].active,
             timers' = Marked(timers, i)
      PROVE  /\ Live(timers') = Live(timers) \ {TimerOf(timers[i])}
             /\ TimerOf(timers[i]) \in Live(timers)
             /\ TimerOf(timers[i]).id = timers[i].id
             /\ TimerOf(timers[i]).due = timers[i].expiration
  BY <1>0, <1>2, MarkLive DEF TimerOf
<1>3. ASSUME NEW timer_id \in 1..next_timer_id, http_loop_cancel_timer(timer_id)
      PROVE  \E t \in Live(timers) : Timer!Cancel(t)
  <2>1. PICK i \in DOMAIN timers :
          /\ timers[i].id = timer_id /\ timers[i].active
          /\ timers' = Marked(timers, i)
    BY <1>3 DEF http_loop_cancel_timer, Marked
  <2>2. cancelled' = cancelled \cup {timer_id}
        /\ UNCHANGED <<next_timer_id, clock, fired>>
    BY <1>3 DEF http_loop_cancel_timer, Marked
  <2>3. i \in 1..Len(timers)
    BY <1>0, <2>1
  <2>4. /\ Live(timers') = Live(timers) \ {TimerOf(timers[i])}
        /\ TimerOf(timers[i]) \in Live(timers) /\ TimerOf(timers[i]).id = timer_id
    BY <1>2, <2>1, <2>3
  <2>5. PICK t : t = TimerOf(timers[i])
    OBVIOUS
  <2>6. Timer!Cancel(t)
    BY <2>2, <2>4, <2>5 DEF Timer!Cancel, Live
  <2> QED BY <2>4, <2>5, <2>6
<1>4. CASE process_timers_fire
  <2>1. /\ timers # <<>> /\ timers[1].expiration <= now /\ phase = "test"
        /\ timers[1].active /\ timers' = Marked(timers, 1)
        /\ fired' = fired \cup {timers[1].id} /\ UNCHANGED <<next_timer_id, clock, cancelled>>
    BY <1>4 DEF process_timers_fire, RootDue, Marked
  <2>0. PICK root : root = TimerOf(timers[1])
    OBVIOUS
  <2>2. 1 \in 1..Len(timers)
    BY <1>0, <2>1, NotEmpty
  <2>3. /\ Live(timers') = Live(timers) \ {root} /\ root \in Live(timers)
        /\ root.id = timers[1].id /\ root.due = timers[1].expiration
    BY <1>2, <2>0, <2>1, <2>2
  <2>4. root.due <= clock
    <3>1. now <= clock /\ now \in Int
      BY <1>0, <2>1, TimerAssumption DEF PassInv, TypeOK
    <3>2. timers[1].expiration \in Int
      BY <1>0, <2>2 DEF TimerNode
    <3> QED BY <1>0, <2>1, <2>3, <3>1, <3>2
  <2>5. \A u \in Live(timers) : root.due <= u.due
    <3> TAKE u \in Live(timers)
    <3>1. PICK j \in 1..Len(timers) : u = TimerOf(timers[j])
      BY <1>0, LiveIs
    <3>2. timers[1].expiration <= timers[j].expiration
      BY <1>0, <2>1, RootLeast
    <3> QED BY <2>3, <3>1, <3>2 DEF TimerOf
  <2>6. Timer!Fire(root)
    BY <2>1, <2>3, <2>4, <2>5 DEF Timer!Fire, Live
  <2> QED BY <2>3, <2>6 DEF Timer!Next, Live
<1>5. ASSUME Keeps(timers, timers'), UNCHANGED <<next_timer_id, clock, fired, cancelled>>
      PROVE  UNCHANGED Timer!tvars
  <2>1. Live(timers') = Live(timers)
    BY <1>0, <1>5, KeepsLive
  <2> QED BY <1>5, <2>1 DEF Timer!tvars, Live
<1>6. ASSUME timers # <<>>, ~timers[1].active, timers' = RemoveRoot(timers),
             UNCHANGED <<next_timer_id, clock, fired, cancelled>>
      PROVE  UNCHANGED Timer!tvars
  <2>1. Keeps(timers, timers')
    BY <1>0, <1>6, RemoveRootDrops, DropKeeps
  <2> QED BY <1>5, <1>6, <2>1
<1>7. CASE process_timers_fired
  <2>1. timers # <<>> /\ ~timers[1].active
    BY <1>0, <1>7 DEF process_timers_fired, PassInv
  <2> QED BY <1>6, <1>7, <2>1 DEF process_timers_fired
<1>8. CASE process_timers_skip
  BY <1>6, <1>8 DEF process_timers_skip, RootDue
<1>9. CASE process_timers_end
  <2>1. Keeps(timers, timers')
    BY <1>0, <1>9, PurgeKeeps, KeepsItself DEF process_timers_end
  <2> QED BY <1>5, <1>9, <2>1 DEF process_timers_end
<1>10. CASE ClockMoves
  <2>1. clock' \in Int /\ clock' >= clock
        /\ UNCHANGED <<timers, next_timer_id, fired, cancelled>>
    BY <1>0, <1>10, TimerAssumption DEF ClockMoves
  <2>2. CASE clock' = clock
    BY <2>1, <2>2 DEF Timer!tvars
  <2>3. CASE clock' # clock
    <3>1. clock' > clock
      BY <1>0, <2>1, <2>3
    <3> QED BY <2>1, <3>1 DEF Timer!Next, Timer!Tick
  <2> QED BY <2>2, <2>3
<1>11. CASE process_timers_begin \/ UNCHANGED vars
  BY <1>11 DEF process_timers_begin, vars, Timer!tvars
<1>12. ASSUME NEW timeout_ms \in Timeouts, http_loop_add_timer(timeout_ms) PROVE Timer!Next
  BY <1>1, <1>12 DEF Timer!Next
<1>13. ASSUME NEW timer_id \in 1..next_timer_id, http_loop_cancel_timer(timer_id)
       PROVE  Timer!Next
  BY <1>3, <1>13 DEF Timer!Next, Live
<1> QED BY <1>4, <1>7, <1>8, <1>9, <1>10, <1>11, <1>12, <1>13 DEF Next, process_timers

(* The array-based heap, its lazy deletions and its passes are the set of   *)
(* timers: whatever callbacks register and cancel, a timer that was         *)
(* registered fires once, when it is due, in the order of the due times, or *)
(* was cancelled; none is lost.                                            *)
THEOREM TimerTheorem ==
  ASSUME Timeouts \subseteq Nat, ClockSteps \subseteq Nat
  PROVE  Spec => ImplementsTimerSet
<1>1. Init => Timer!Init /\ PassInv
  <2> SUFFICES ASSUME Init PROVE Timer!Init /\ PassInv
    OBVIOUS
  <2>1. timers = <<>> /\ DOMAIN timers = {}
    BY DEF Init
  <2>2. Live(timers) = {}
    BY <2>1 DEF Live
  <2> QED BY <2>2 DEF Init, Timer!Init, Live, PassInv
<1>2. HeapInv /\ PassInv /\ [Next]_vars => PassInv' /\ [Timer!Next]_(Timer!tvars)
  BY PassStep, RefinementStep
<1> QED BY <1>1, <1>2, HeapAlways, PTL DEF Spec, ImplementsTimerSet, Timer!Spec
=============================================================================
