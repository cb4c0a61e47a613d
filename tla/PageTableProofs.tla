--------------------------- MODULE PageTableProofs ---------------------------
(***************************************************************************)
(* The page tables of any number of address spaces, with any fan-out and   *)
(* page size, over one pool of frames: each is a tree of its own, and its  *)
(* leaves are the pages that are mapped.                                   *)
(***************************************************************************)
EXTENDS PageTable, SequenceLemmas, WellFoundedInduction, TLAPS

-----------------------------------------------------------------------------
(* Recursive functions *)

\* Induction, over the numbers of a set.
LEMMA Induction ==
  ASSUME NEW S, 0 \in S, \A n \in Nat : n \in S => n + 1 \in S
  PROVE  Nat \subseteq S
<1> DEFINE T == Nat \ S
<1>1. SUFFICES ASSUME T # {} PROVE FALSE
  BY Zenon
<1>2. PICK x \in T : \A y \in T : ~ (<<y, x>> \in OpToRel(<, Nat))
  <2> HIDE DEF T
  <2>1. T \subseteq Nat
    BY Zenon DEF T
  <2> QED BY <1>1, <2>1, NatLessThanWellFounded, WFMin, Zenon
<1>3. \A y \in T : ~(y < x)
  BY <1>2, Zenon DEF OpToRel
<1>4. x \in Nat /\ x \notin S /\ x # 0
  BY <1>2, Zenon
<1>5. x - 1 \in Nat /\ x - 1 < x /\ (x - 1) + 1 = x
  BY <1>4
<1>6. x - 1 \in S
  BY <1>3, <1>5, Zenon
<1> QED BY <1>4, <1>5, <1>6, Zenon

\* What a recursive function keeps from one value to the next holds for all
\* of them.
LEMMA Closed ==
  ASSUME NEW n \in Nat, NEW X, NEW L, L[0] \in X,
         \A k \in 1..n : L[k - 1] \in X => L[k] \in X
  PROVE  \A k \in 0..n : L[k] \in X
<1> DEFINE S == {k \in Nat : k <= n => L[k] \in X}
<1>1. 0 \in S
  BY Zenon
<1>2. \A k \in Nat : k \in S => k + 1 \in S
  <2> SUFFICES ASSUME NEW k \in Nat, k \in S, k + 1 <= n PROVE L[k + 1] \in X
    OBVIOUS
  <2>1. k + 1 \in 1..n /\ (k + 1) - 1 = k /\ k <= n
    OBVIOUS
  <2> QED BY <2>1, Zenon
<1>3. Nat \subseteq S
  <2> HIDE DEF S
  <2> QED BY <1>1, <1>2, Induction, Zenon
<1> QED BY <1>3

\* g is the steps of a recursion from x that stays in X, and h its values.
Steps(n, X, x, g) == n \in Nat /\ x \in X /\ g \in [1..n -> [X -> X]]
Unrolls(n, X, x, g, h) ==
  h \in [0..n -> X] /\ h[0] = x /\ \A k \in 1..n : h[k] = g[k][h[k - 1]]

\* There is a function with these values.
LEMMA Recursion ==
  ASSUME NEW n, NEW X, NEW x, NEW g, Steps(n, X, x, g)
  PROVE  \E h : Unrolls(n, X, x, g, h)
<1>0. n \in Nat /\ x \in X /\ g \in [1..n -> [X -> X]]
  BY Zenon DEF Steps
<1> DEFINE Good(m, h) == h \in [0..m -> X] /\ h[0] = x /\ \A k \in 1..m : h[k] = g[k][h[k - 1]]
          S == {m \in Nat : m <= n => \E h : Good(m, h)}
<1>1. 0 \in S
  <2>1. Good(0, [k \in 0..0 |-> x])
    BY <1>0
  <2> HIDE DEF Good
  <2> QED BY <2>1, Zenon
<1>2. \A m \in Nat : m \in S => m + 1 \in S
  <2> SUFFICES ASSUME NEW m \in Nat, m \in S, m + 1 <= n PROVE \E h : Good(m + 1, h)
    <3> HIDE DEF Good
    <3> QED OBVIOUS
  <2>1. m <= n
    BY <1>0
  <2>2. PICK h : Good(m, h)
    <3> HIDE DEF Good
    <3> QED BY <2>1, Zenon
  <2> DEFINE e == [k \in 0..(m + 1) |-> IF k <= m THEN h[k] ELSE g[m + 1][h[m]]]
  <2>3. h[m] \in X /\ m + 1 \in 1..n
    BY <1>0, <2>2
  <2>4. g[m + 1][h[m]] \in X
    BY <1>0, <2>3, Zenon
  <2>5. e \in [0..(m + 1) -> X]
    BY <2>2, <2>4
  <2>6. e[0] = x
    BY <2>2
  <2>7. \A k \in 1..(m + 1) : e[k] = g[k][e[k - 1]]
    <3> SUFFICES ASSUME NEW k \in 1..(m + 1) PROVE e[k] = g[k][e[k - 1]]
      BY Zenon
    <3>1. k \in 0..(m+1) /\ k - 1 \in 0..(m + 1) /\ k - 1 <= m /\ (k <= m \/ k = m + 1)
      OBVIOUS
    <3>2. e[k - 1] = h[k - 1]
      BY <3>1, Zenon
    <3>3. CASE k <= m
      <4>1. k \in 1..m /\ e[k] = h[k]
        BY <3>1, <3>3
      <4> QED BY <2>2, <3>2, <4>1, Zenon
    <3>4. CASE k = m + 1
      <4>1. k - 1 = m /\ ~(k <= m)
        BY <3>4
      <4>2. e[k] = g[m + 1][h[m]]
        BY <3>1, <4>1, Zenon
      <4> QED BY <3>2, <3>4, <4>1, <4>2, Zenon
    <3> QED BY <3>1, <3>3, <3>4, Zenon
  <2> QED
    <3> HIDE DEF e
    <3> QED BY <2>5, <2>6, <2>7, Zenon
<1>3. Nat \subseteq S
  <2> HIDE DEF S
  <2> QED BY <1>1, <1>2, Induction, Zenon
<1>4. \E h : Good(n, h)
  <2> HIDE DEF Good
  <2> QED BY <1>0, <1>3
<1> QED BY <1>4, Zenon DEF Unrolls

-----------------------------------------------------------------------------
(* Indexes and entries *)

Idx == 0..(Fan - 1)
I1(v) == indexes(v)[1]
I2(v) == indexes(v)[2]
I3(v) == indexes(v)[3]

\* The sizes are positive (from the assumption on the constants).
LEMMA FanType == /\ Fan \in Nat \ {0} /\ PAGE_SIZE \in Nat \ {0} /\ NFrames \in Nat \ {0}
                 /\ MaxMaps \in Nat \ {0} /\ MaxCopies \in Nat \ {0}
BY PageTableAssumption

\* Division with remainder.
LEMMA DivMod ==
  ASSUME NEW n \in Nat, NEW d \in Nat \ {0}
  PROVE  n \div d \in Nat /\ n % d \in 0..(d - 1) /\ n = d * (n \div d) + (n % d)
OBVIOUS

\* A quotient is smaller than the factor that bounds the dividend.
LEMMA DivBound ==
  ASSUME NEW n \in Nat, NEW d \in Nat \ {0}, NEW m \in Nat, n < d * m
  PROVE  n \div d < m
<1> DEFINE q == n \div d
          e == n % d
<1>1. q \in Nat /\ e \in Nat /\ n = d * q + e
  BY DivMod
<1> HIDE DEF q, e
<1>2. SUFFICES ASSUME ~(q < m) PROVE FALSE
  BY Zenon DEF q
<1>3. PICK k \in Nat : q = m + k
  <2>1. q - m \in Nat /\ q = m + (q - m)
    BY <1>1, <1>2
  <2> QED BY <2>1, Zenon
<1>4. d * q = d * m + d * k
  BY <1>1, <1>3
<1>5. d * k \in Nat /\ d * m \in Nat
  OBVIOUS
<1> QED BY <1>1, <1>4, <1>5

\* A page number has three indexes, and they are its own.
LEMMA IndexType ==
  ASSUME NEW v \in Vpn
  PROVE  I1(v) \in Idx /\ I2(v) \in Idx /\ I3(v) \in Idx
<1>1. Fan \in Nat \ {0} /\ v \in Nat
  BY FanType DEF Vpn
<1> DEFINE up == v \div Fan
          top == up \div Fan
<1>2. up \in Nat /\ v % Fan \in Idx
  BY <1>1, DivMod, Zenon DEF Idx
<1>3. I1(v) = top % Fan /\ I2(v) = up % Fan /\ I3(v) = v % Fan
  BY Zenon DEF I1, I2, I3, indexes
<1> HIDE DEF up
<1>4. top \in Nat /\ up % Fan \in Idx
  BY <1>1, <1>2, DivMod, Zenon DEF Idx
<1> HIDE DEF top
<1>5. top % Fan \in Idx
  BY <1>1, <1>4, DivMod, Zenon DEF Idx
<1> QED BY <1>2, <1>3, <1>4, <1>5, Zenon

\* VirtPageNum::indexes: two pages do not have the same three indexes.
LEMMA IndexesDiffer ==
  ASSUME NEW v \in Vpn, NEW w \in Vpn, I1(v) = I1(w), I2(v) = I2(w), I3(v) = I3(w)
  PROVE  v = w
<1>1. ASSUME NEW x \in Vpn
      PROVE  x = Fan * (Fan * I1(x) + I2(x)) + I3(x)
  <2>1. Fan \in Nat \ {0} /\ x \in Nat /\ x < Fan * (Fan * Fan)
    BY FanType DEF Vpn
  <2> DEFINE up == x \div Fan
            top == up \div Fan
  <2>2. up \in Nat /\ x = Fan * up + (x % Fan)
    BY <2>1, DivMod, Zenon
  <2>3. up < Fan * Fan
    <3>1. Fan * Fan \in Nat
      BY <2>1
    <3> QED BY <2>1, <3>1, DivBound, Zenon
  <2>4. I1(x) = top % Fan /\ I2(x) = up % Fan /\ I3(x) = x % Fan
    BY Zenon DEF I1, I2, I3, indexes
  <2> HIDE DEF up
  <2>5. top \in Nat /\ up = Fan * top + (up % Fan)
    BY <2>1, <2>2, DivMod, Zenon
  <2>6. top < Fan
    BY <2>1, <2>2, <2>3, DivBound, Zenon
  <2> HIDE DEF top
  <2>7. top % Fan = top
    BY <2>1, <2>5, <2>6
  <2> QED BY <2>2, <2>4, <2>5, <2>7, Zenon
<1>2. v = Fan * (Fan * I1(v) + I2(v)) + I3(v)
  BY <1>1, Zenon
<1>3. w = Fan * (Fan * I1(w) + I2(w)) + I3(w)
  BY <1>1, Zenon
<1> QED BY Zenon, <1>2, <1>3

\* An entry that names a frame is valid, and it names that one.
PteOf(f) == IF f = 0 THEN 0 ELSE Pte(f, V)

\* PageTableEntry: what is_valid and ppn read back from an entry that was written.
LEMMA EntryOf ==
  ASSUME NEW f \in 0..NFrames
  PROVE  /\ is_valid(PteOf(f)) <=> f # 0
         /\ ppn_of(PteOf(f)) = f
         /\ f # 0 => PteOf(f) = Pte(f, V)
BY FanType DEF PteOf, Pte, V, is_valid, ppn_of

-----------------------------------------------------------------------------
(* Ownership of frames *)

\* Where a frame is, once: in the free list fr, among the tables T of a space,
\* behind a page of D, or taken and not yet in use (P).
Placed(f, fr, T, D, P) ==
  /\ \/ Contains(fr, f) \/ f \in P
     \/ \E s \in Space : Contains(T[s], f) \/ \E v \in Pages : D[s][v] = f
  /\ Contains(fr, f) => f \notin P
  /\ Contains(fr, f) \/ f \in P =>
       \A s \in Space : ~Contains(T[s], f) /\ \A v \in Pages : D[s][v] # f
  /\ \A s, t \in Space : Contains(T[s], f) =>
       /\ Contains(T[t], f) => s = t
       /\ \A v \in Pages : D[t][v] # f
  /\ \A s, t \in Space, v, w \in Pages :
       D[s][v] = f /\ D[t][w] = f => s = t /\ v = w

Owner(fr, T, D, P) ==
  /\ fr \in Seq(Frame) /\ IsInjective(fr)
  /\ T \in [Space -> Seq(Frame)] /\ \A s \in Space : IsInjective(T[s])
  /\ D \in [Space -> [Pages -> 0..NFrames]]
  /\ P \subseteq Frame
  /\ \A f \in Frame : Placed(f, fr, T, D, P)

\* frame_alloc: the last frame of the list is taken.
LEMMA TakeFrame ==
  ASSUME NEW fr, NEW T, NEW D, NEW P, Owner(fr, T, D, P), fr # <<>>
  PROVE  /\ Owner(Front(fr), T, D, P \union {Last(fr)})
         /\ Last(fr) \in Frame \ P /\ Contains(fr, Last(fr))
         /\ Len(fr) \in Nat \ {0} /\ Len(Front(fr)) = Len(fr) - 1
<1> DEFINE f0 == Last(fr)
          q == Front(fr)
<1>1. fr \in Seq(Frame) /\ IsInjective(fr)
  BY Zenon DEF Owner
<1>2. q \in Seq(Frame) /\ f0 \in Frame /\ IsInjective(q) /\ Contains(fr, f0) /\ Len(q) = Len(fr) - 1
  BY <1>1, FrontProperties, FrontMembers, Zenon
<1>3. \A x : Contains(q, x) <=> Contains(fr, x) /\ x # f0
  BY <1>1, FrontMembers, Zenon
<1>4. Len(fr) \in Nat \ {0}
  BY <1>1, SeqEmpty
<1> HIDE DEF f0, q
<1>5. \A x \in Frame : Placed(x, fr, T, D, P)
  BY Zenon DEF Owner
<1>6. f0 \notin P
  BY <1>2, <1>5, Zenon DEF Placed
<1>7. ASSUME NEW x \in Frame PROVE Placed(x, q, T, D, P \union {f0})
  <2>1. Contains(q, x) <=> Contains(fr, x) /\ x # f0
    BY <1>3, Zenon
  <2>2. CASE x = f0
    BY <1>2, <1>5, <2>1, <2>2, Zenon DEF Placed
  <2>3. CASE x # f0
    BY <1>5, <2>1, <2>3, Zenon DEF Placed
  <2> QED BY <2>2, <2>3, Zenon
<1>8. Owner(q, T, D, P \union {f0})
  BY <1>2, <1>7, Zenon DEF Owner
<1> QED BY <1>2, <1>4, <1>6, <1>8, Zenon DEF f0, q

\* A frame that was taken becomes a table of s.
LEMMA GiveTable ==
  ASSUME NEW fr, NEW T, NEW D, NEW P, Owner(fr, T, D, P), NEW s \in Space, NEW f \in P
  PROVE  Owner(fr, [T EXCEPT ![s] = Append(T[s], f)], D, P \ {f})
<1> DEFINE q == Append(T[s], f)
          U == [T EXCEPT ![s] = q]
<1>1. T[s] \in Seq(Frame) /\ IsInjective(T[s]) /\ f \in Frame /\ ~Contains(T[s], f)
  BY Zenon DEF Owner, Placed
<1>2. q \in Seq(Frame) /\ IsInjective(q) /\ \A x : Contains(q, x) <=> Contains(T[s], x) \/ x = f
  BY <1>1, SeqAppend, AppendMembers, Zenon
<1> HIDE DEF q
<1>3. U \in [Space -> Seq(Frame)] /\ U[s] = q /\ \A t \in Space : t # s => U[t] = T[t]
  BY <1>2, Zenon DEF Owner
<1> HIDE DEF U
<1>4. \A t \in Space, x \in Frame : Contains(U[t], x) <=> Contains(T[t], x) \/ (t = s /\ x = f)
  BY <1>2, <1>3, Zenon
<1>5. \A t \in Space : IsInjective(U[t])
  BY <1>2, <1>3, Zenon DEF Owner
<1>6. ASSUME NEW x \in Frame PROVE Placed(x, fr, U, D, P \ {f})
  <2>1. Placed(x, fr, T, D, P)
    BY Zenon DEF Owner
  <2>2. CASE x = f
    BY <1>4, <2>1, <2>2, Zenon DEF Placed
  <2>3. CASE x # f
    <3>1. \A t \in Space : Contains(U[t], x) <=> Contains(T[t], x)
      BY <1>4, <2>3, Zenon
    <3> QED BY <2>1, <2>3, <3>1, Zenon DEF Placed
  <2> QED BY <2>2, <2>3, Zenon
<1>7. Owner(fr, U, D, P \ {f})
  BY <1>3, <1>5, <1>6, Zenon DEF Owner
<1> QED BY <1>7, Zenon DEF U, q

\* What one page of D becomes.
LEMMA PageChange ==
  ASSUME NEW D \in [Space -> [Pages -> 0..NFrames]], NEW s \in Space, NEW v \in Pages, NEW f \in 0..NFrames
  PROVE  /\ [D EXCEPT ![s][v] = f] \in [Space -> [Pages -> 0..NFrames]]
         /\ [D EXCEPT ![s][v] = f][s][v] = f
         /\ \A t \in Space, w \in Pages : t # s \/ w # v => [D EXCEPT ![s][v] = f][t][w] = D[t][w]
OBVIOUS

\* A frame that was taken goes behind a page of s.
LEMMA GivePage ==
  ASSUME NEW fr, NEW T, NEW D, NEW P, Owner(fr, T, D, P), NEW s \in Space, NEW v \in Pages,
         NEW f \in P, D[s][v] = 0
  PROVE  Owner(fr, T, [D EXCEPT ![s][v] = f], P \ {f})
<1> DEFINE E == [D EXCEPT ![s][v] = f]
<1>1. f \in Frame /\ Frame \subseteq 0..NFrames /\ 0 \notin Frame
  BY FanType DEF Owner, Frame
<1>2. /\ E \in [Space -> [Pages -> 0..NFrames]] /\ E[s][v] = f
      /\ \A t \in Space, w \in Pages : t # s \/ w # v => E[t][w] = D[t][w]
  BY <1>1, PageChange DEF Owner
<1> HIDE DEF E
<1>3. Owner(fr, T, E, P \ {f})
  <2>1. \A x \in Frame, t \in Space, w \in Pages : E[t][w] = x <=> D[t][w] = x \/ (t = s /\ w = v /\ x = f)
    BY <1>1, <1>2, Zenon
  <2>2. ASSUME NEW x \in Frame PROVE Placed(x, fr, T, E, P \ {f})
    <3>1. Placed(x, fr, T, D, P)
      BY Zenon DEF Owner
    <3>2. CASE x = f
      BY <1>1, <2>1, <3>1, <3>2 DEF Placed
    <3>3. CASE x # f
      <4>1. \A t \in Space, w \in Pages : E[t][w] = x <=> D[t][w] = x
        BY <2>1, <3>3, Zenon
      <4> QED BY <3>1, <3>3, <4>1 DEF Placed
    <3> QED BY <3>2, <3>3, Zenon
  <2> QED BY <1>2, <2>2, Zenon DEF Owner
<1> QED BY <1>3, Zenon DEF E

\* frame_dealloc of the frame of a page.
LEMMA ReturnPage ==
  ASSUME NEW fr, NEW T, NEW D, NEW P, Owner(fr, T, D, P), NEW s \in Space, NEW v \in Pages,
         D[s][v] # 0
  PROVE  Owner(Append(fr, D[s][v]), T, [D EXCEPT ![s][v] = 0], P)
<1> DEFINE E == [D EXCEPT ![s][v] = 0]
          f == D[s][v]
          q == Append(fr, f)
<1>1. f \in Frame /\ 0 \in 0..NFrames /\ 0 \notin Frame
  BY FanType DEF Owner, Frame
<1>2. /\ E \in [Space -> [Pages -> 0..NFrames]] /\ E[s][v] = 0
      /\ \A t \in Space, w \in Pages : t # s \/ w # v => E[t][w] = D[t][w]
  BY <1>1, PageChange DEF Owner
<1>3. fr \in Seq(Frame) /\ IsInjective(fr) /\ ~Contains(fr, f)
  BY <1>1, Zenon DEF Owner, Placed
<1>4. q \in Seq(Frame) /\ IsInjective(q) /\ \A x : Contains(q, x) <=> Contains(fr, x) \/ x = f
  <2> HIDE DEF f
  <2> QED BY <1>1, <1>3, SeqAppend, AppendMembers, Zenon
<1> HIDE DEF E, q
<1>5. \A x \in Frame, t \in Space, w \in Pages : E[t][w] = x <=> D[t][w] = x /\ x # f
  <2>1. SUFFICES ASSUME NEW x \in Frame, NEW t \in Space, NEW w \in Pages
                 PROVE  E[t][w] = x <=> D[t][w] = x /\ x # f
    BY Zenon
  <2>2. CASE t = s /\ w = v
    BY <1>1, <1>2, <2>2, Zenon
  <2>3. CASE t # s \/ w # v
    <3>1. Placed(f, fr, T, D, P)
      BY <1>1, Zenon DEF Owner
    <3>2. D[t][w] = f => t = s /\ w = v
      BY <3>1, Zenon DEF Placed
    <3> QED BY <1>2, <2>3, <3>2, Zenon
  <2> QED BY <2>2, <2>3, Zenon
<1>6. Owner(q, T, E, P)
  <2>1. Placed(f, fr, T, D, P)
    BY <1>1, Zenon DEF Owner
  <2>2. f \notin P /\ \A t \in Space : ~Contains(T[t], f)
    BY <2>1, Zenon DEF Placed
  <2> HIDE DEF f
  <2>3. ASSUME NEW x \in Frame PROVE Placed(x, q, T, E, P)
    <3>1. Placed(x, fr, T, D, P)
      BY Zenon DEF Owner
    <3>2. CASE x = f
      BY <1>4, <1>5, <2>2, <3>2, Zenon DEF Placed
    <3>3. CASE x # f
      <4>1. /\ \A t \in Space, w \in Pages : E[t][w] = x <=> D[t][w] = x
            /\ Contains(q, x) <=> Contains(fr, x)
        BY <1>4, <1>5, <3>3, Zenon
      <4> QED BY <3>1, <4>1 DEF Placed
    <3> QED BY <3>2, <3>3, Zenon
  <2> QED BY <1>2, <1>4, <2>3, Zenon DEF Owner
<1> QED BY <1>6, Zenon DEF E, q

\* Drop of an address space: its tables and the frames q of its pages.
LEMMA ReturnSpace ==
  ASSUME NEW fr, NEW T, NEW D, Owner(fr, T, D, {}), NEW s \in Space, NEW q \in Seq(Frame),
         IsInjective(q), \A f \in Frame : Contains(q, f) <=> \E v \in Pages : D[s][v] = f
  PROVE  Owner(fr \o T[s] \o q, [T EXCEPT ![s] = <<>>],
               [D EXCEPT ![s] = [v \in Pages |-> 0]], {})
<1> DEFINE U == [T EXCEPT ![s] = <<>>]
          z == [v \in Pages |-> 0]
          E == [D EXCEPT ![s] = z]
          g == fr \o T[s]
          h == g \o q
<1>1. 0 \in 0..NFrames /\ 0 \notin Frame
  BY FanType DEF Frame
<1>2. fr \in Seq(Frame) /\ IsInjective(fr) /\ T[s] \in Seq(Frame) /\ IsInjective(T[s])
  BY Zenon DEF Owner
<1>3. \A x : ~(Contains(fr, x) /\ Contains(T[s], x))
  BY <1>2, ContainsTyped, Zenon DEF Owner, Placed
<1>4. g \in Seq(Frame) /\ IsInjective(g) /\ \A x : Contains(g, x) <=> Contains(fr, x) \/ Contains(T[s], x)
  <2> DEFINE t == T[s]
  <2> HIDE DEF t
  <2>1. fr \o t \in Seq(Frame) /\ IsInjective(fr \o t)
        /\ \A x : Contains(fr \o t, x) <=> Contains(fr, x) \/ Contains(t, x)
    <3>1. t \in Seq(Frame) /\ IsInjective(t) /\ \A x : ~(Contains(fr, x) /\ Contains(t, x))
      BY <1>2, <1>3, Zenon DEF t
    <3> QED BY <1>2, <3>1, SeqConcat, ConcatMembers, Zenon
  <2> QED BY <2>1, Zenon DEF t
<1> HIDE DEF g
<1>5. \A x : ~(Contains(g, x) /\ Contains(q, x))
  <2>1. SUFFICES ASSUME NEW x, Contains(g, x), Contains(q, x) PROVE FALSE
    BY Zenon
  <2>2. x \in Frame
    BY <1>4, <2>1, ContainsTyped, Zenon
  <2>3. Placed(x, fr, T, D, {}) /\ \E v \in Pages : D[s][v] = x
    BY <2>1, <2>2, Zenon DEF Owner
  <2> QED BY <1>4, <2>1, <2>3, Zenon DEF Placed
<1>6. h \in Seq(Frame) /\ IsInjective(h) /\ \A x : Contains(h, x) <=> Contains(g, x) \/ Contains(q, x)
  BY <1>4, <1>5, SeqConcat, ConcatMembers, Zenon
<1>7. z \in [Pages -> 0..NFrames] /\ \A v \in Pages : z[v] = 0
  BY <1>1, Zenon
<1> HIDE DEF h, z
<1>8. /\ U \in [Space -> Seq(Frame)] /\ U[s] = <<>> /\ \A t \in Space : t # s => U[t] = T[t]
      /\ E \in [Space -> [Pages -> 0..NFrames]] /\ E[s] = z /\ \A t \in Space : t # s => E[t] = D[t]
  BY <1>7, SeqEmpty, Zenon DEF Owner
<1> HIDE DEF U, E
<1>9. IsInjective(<<>>) /\ \A x : ~Contains(<<>>, x)
  BY DEF IsInjective, Contains
<1>10. Owner(h, U, E, {})
  <2>1. \A x \in Frame, t \in Space : Contains(U[t], x) <=> Contains(T[t], x) /\ t # s
    BY <1>8, <1>9, Zenon
  <2>2. \A x \in Frame, t \in Space, w \in Pages : E[t][w] = x <=> D[t][w] = x /\ t # s
    BY <1>1, <1>7, <1>8, Zenon
  <2>3. \A t \in Space : IsInjective(U[t])
    <3> TAKE t \in Space
    <3>1. CASE t = s
      BY <1>8, <1>9, <3>1, Zenon
    <3>2. CASE t # s
      BY <1>8, <3>2, Zenon DEF Owner
    <3> QED BY <3>1, <3>2, Zenon
  <2>4. ASSUME NEW x \in Frame PROVE Placed(x, h, U, E, {})
    <3>1. Placed(x, fr, T, D, {})
      BY Zenon DEF Owner
    <3>2. Contains(h, x) <=> \/ Contains(fr, x) \/ Contains(T[s], x)
                            \/ \E v \in Pages : D[s][v] = x
      BY <1>4, <1>6, Zenon
    <3>3. \A t \in Space : Contains(U[t], x) <=> Contains(T[t], x) /\ t # s
      BY <2>1, Zenon
    <3>4. \A t \in Space, w \in Pages : E[t][w] = x <=> D[t][w] = x /\ t # s
      BY <2>2, Zenon
    <3> QED BY <3>1, <3>2, <3>3, <3>4 DEF Placed
  <2> QED BY <1>6, <1>8, <2>3, <2>4, Zenon DEF Owner
<1> QED BY <1>10, Zenon DEF U, E, h, g, z

-----------------------------------------------------------------------------
(* Cells *)

Memory(m) == DOMAIN m = Frame /\ \A f \in Frame : DOMAIN m[f] = Cells

\* A frame that is a table has a cell for every index.
LEMMA IdxCells == Idx \subseteq Cells
BY Zenon DEF Idx, Cells

\* A store to one cell.
Write(m, f, c, x) == [m EXCEPT ![f][c] = x]
\* It changes that cell only.
LEMMA WriteCell ==
  ASSUME NEW m, Memory(m), NEW f \in Frame, NEW c \in Cells, NEW x
  PROVE  /\ Memory(Write(m, f, c, x)) /\ Write(m, f, c, x)[f][c] = x
         /\ \A d \in Cells : d # c => Write(m, f, c, x)[f][d] = m[f][d]
         /\ \A g \in Frame : g # f => Write(m, f, c, x)[g] = m[g]
BY DEF Memory, Write

\* The same for a memory that has a name.
LEMMA WriteAt ==
  ASSUME NEW m, Memory(m), NEW f \in Frame, NEW c \in Cells, NEW x, NEW n, n = Write(m, f, c, x)
  PROVE  /\ Memory(n) /\ n[f][c] = x
         /\ \A d \in Cells : d # c => n[f][d] = m[f][d]
         /\ \A g \in Frame : g # f => n[g] = m[g]
BY WriteCell

\* FrameTracker::new.
Clear(m, f) == [m EXCEPT ![f] = ZeroFrame]
\* FrameTracker::new: the frame is zeros, and the other frames are as they were.
LEMMA ClearFrame ==
  ASSUME NEW m, Memory(m), NEW f \in Frame
  PROVE  /\ Memory(Clear(m, f)) /\ \A c \in Cells : Clear(m, f)[f][c] = 0
         /\ \A g \in Frame : g # f => Clear(m, f)[g] = m[g]
BY DEF Memory, ZeroFrame, Clear

-----------------------------------------------------------------------------
(* The tree of one address space: the table a[i] of each entry of the root, *)
(* the table b[i][j] of each entry of those, and the frame of each page; 0  *)
(* is none.  The root is the first of the tables q.                         *)

TopLevel(m, q, a) ==
  \A i \in Idx : /\ m[q[1]][i] = PteOf(a[i])
                 /\ a[i] # 0 => Contains(q, a[i]) /\ a[i] # q[1]
MidLevel(m, q, a, b) ==
  \A i, j \in Idx : /\ a[i] = 0 => b[i][j] = 0
                    /\ a[i] # 0 => m[a[i]][j] = PteOf(b[i][j])
                    /\ b[i][j] # 0 => Contains(q, b[i][j]) /\ b[i][j] # q[1]
LeafLevel(m, b, leaf) ==
  \A v \in Vpn : /\ b[I1(v)][I2(v)] = 0 => leaf[v] = 0
                 /\ b[I1(v)][I2(v)] # 0 => m[b[I1(v)][I2(v)]][I3(v)] = PteOf(leaf[v])
Distinct(a, b) ==
  /\ \A i, k \in Idx : a[i] = a[k] /\ a[i] # 0 => i = k
  /\ \A i, j, k, l \in Idx : b[i][j] = b[k][l] /\ b[i][j] # 0 => i = k /\ j = l
  /\ \A i, k, l \in Idx : a[i] # 0 => a[i] # b[k][l]
TreeType(q, a, b, leaf) ==
  /\ q \in Seq(Frame) /\ q # <<>>
  /\ a \in [Idx -> 0..NFrames] /\ b \in [Idx -> [Idx -> 0..NFrames]]
  /\ leaf \in [Vpn -> 0..NFrames]
Tree(m, q, a, b, leaf) ==
  /\ TreeType(q, a, b, leaf)
  /\ TopLevel(m, q, a) /\ MidLevel(m, q, a, b) /\ LeafLevel(m, b, leaf)
  /\ Distinct(a, b)

\* 0 is the only number up to NFrames that is not a frame.
LEMMA FrameType == Frame \subseteq 0..NFrames /\ 0 \notin Frame /\ 0 \in 0..NFrames
                   /\ \A x \in 0..NFrames : x # 0 => x \in Frame
BY FanType DEF Frame

\* The tables of an address space that exists begin with its root.
LEMMA RootType ==
  ASSUME NEW q \in Seq(Frame), q # <<>>
  PROVE  q[1] \in Frame /\ Contains(q, q[1]) /\ Len(q) \in Nat \ {0}
<1>1. Len(q) \in Nat \ {0}
  BY SeqEmpty
<1>2. 1 \in 1..Len(q)
  BY <1>1
<1> QED BY <1>1, <1>2, SeqElement, Zenon DEF Contains

\* One more table.
LEMMA GrownTables ==
  ASSUME NEW q \in Seq(Frame), q # <<>>, NEW f \in Frame
  PROVE  /\ Append(q, f) \in Seq(Frame) /\ Append(q, f) # <<>> /\ Append(q, f)[1] = q[1]
         /\ \A x : Contains(Append(q, f), x) <=> Contains(q, x) \/ x = f
<1> DEFINE p == Append(q, f)
<1>1. 1 \in 1..Len(q) /\ Len(q) + 1 # 0
  BY RootType
<1>2. p \in Seq(Frame) /\ Len(p) = Len(q) + 1 /\ p[1] = q[1]
  BY <1>1, SeqAppend
<1>3. \A x : Contains(p, x) <=> Contains(q, x) \/ x = f
  BY AppendMembers, Zenon
<1>4. p # <<>>
  BY <1>1, <1>2, SeqEmpty, Zenon
<1> QED BY <1>2, <1>3, <1>4, Zenon

\* A tree is in its tables alone.
LEMMA TreeSame ==
  ASSUME NEW m, NEW q, NEW a, NEW b, NEW leaf, Tree(m, q, a, b, leaf), NEW n,
         \A f \in Frame : Contains(q, f) => \A c \in Idx : n[f][c] = m[f][c]
  PROVE  Tree(n, q, a, b, leaf)
<1>1. TreeType(q, a, b, leaf) /\ Distinct(a, b)
      /\ TopLevel(m, q, a) /\ MidLevel(m, q, a, b) /\ LeafLevel(m, b, leaf)
  BY Zenon DEF Tree
<1>2. \A f : Contains(q, f) => \A c \in Idx : n[f][c] = m[f][c]
  BY <1>1, ContainsTyped, Zenon DEF TreeType
<1>3. TopLevel(n, q, a)
  <2>1. \A c \in Idx : n[q[1]][c] = m[q[1]][c]
    BY <1>1, <1>2, RootType, Zenon DEF TreeType
  <2> QED BY <1>1, <2>1, Zenon DEF TopLevel
<1>4. MidLevel(n, q, a, b)
  <2>1. \A i, j \in Idx : a[i] # 0 => n[a[i]][j] = m[a[i]][j]
    BY <1>1, <1>2, Zenon DEF TopLevel
  <2> QED BY <1>1, <2>1 DEF MidLevel
<1>5. LeafLevel(n, b, leaf)
  <2> SUFFICES ASSUME NEW v \in Vpn, b[I1(v)][I2(v)] # 0
               PROVE  n[b[I1(v)][I2(v)]][I3(v)] = m[b[I1(v)][I2(v)]][I3(v)]
    BY <1>1, Zenon DEF LeafLevel
  <2>1. Contains(q, b[I1(v)][I2(v)])
    BY <1>1, IndexType, Zenon DEF MidLevel
  <2> QED BY <1>2, <2>1, IndexType, Zenon
<1> QED BY <1>1, <1>3, <1>4, <1>5, Zenon DEF Tree

\* PageTable::new: a root of zeros.
LEMMA TreeNew ==
  ASSUME NEW m, NEW f \in Frame, \A c \in Cells : m[f][c] = 0
  PROVE  Tree(m, <<f>>, [i \in Idx |-> 0], [i \in Idx |-> [j \in Idx |-> 0]], [v \in Vpn |-> 0])
<1> DEFINE a == [i \in Idx |-> 0]
          b == [i \in Idx |-> [j \in Idx |-> 0]]
          q == <<f>>
<1>1. /\ a \in [Idx -> 0..NFrames] /\ \A i \in Idx : a[i] = 0
      /\ b \in [Idx -> [Idx -> 0..NFrames]] /\ \A i, j \in Idx : b[i][j] = 0
      /\ [v \in Vpn |-> 0] \in [Vpn -> 0..NFrames]
  BY FrameType, Zenon
<1>2. q \in Seq(Frame) /\ q # <<>> /\ q[1] = f
  OBVIOUS
<1>3. PteOf(0) = 0
  BY Zenon DEF PteOf
<1> HIDE DEF a, b, q
<1>4. TopLevel(m, q, a)
  BY <1>1, <1>2, <1>3, IdxCells, Zenon DEF TopLevel
<1>5. MidLevel(m, q, a, b)
  BY <1>1, Zenon DEF MidLevel
<1>6. LeafLevel(m, b, [v \in Vpn |-> 0])
  BY <1>1, IndexType, Zenon DEF LeafLevel
<1>7. Distinct(a, b)
  BY <1>1, Zenon DEF Distinct
<1>8. Tree(m, q, a, b, [v \in Vpn |-> 0])
  BY <1>1, <1>2, <1>4, <1>5, <1>6, <1>7, Zenon DEF Tree, TreeType
<1> QED BY <1>8, Zenon DEF a, b, q

\* find_pte_create makes a table under the root.
LEMMA TreeRoot ==
  ASSUME NEW m, Memory(m), NEW q, NEW a, NEW b, NEW leaf, Tree(m, q, a, b, leaf),
         NEW i \in Idx, a[i] = 0, NEW f \in Frame, ~Contains(q, f),
         \A c \in Cells : m[f][c] = 0,
         NEW n, n = Write(m, q[1], i, Pte(f, V))
  PROVE  Tree(n, Append(q, f), [a EXCEPT ![i] = f], b, leaf)
<1> DEFINE p == Append(q, f)
          e == [a EXCEPT ![i] = f]
<1>1. TreeType(q, a, b, leaf) /\ Distinct(a, b)
      /\ TopLevel(m, q, a) /\ MidLevel(m, q, a, b) /\ LeafLevel(m, b, leaf)
  BY Zenon DEF Tree
<1>2. f # 0 /\ f \in 0..NFrames /\ PteOf(f) = Pte(f, V) /\ PteOf(0) = 0
  BY FrameType, Zenon DEF PteOf
<1>3. q[1] \in Frame /\ Contains(q, q[1]) /\ Len(q) \in Nat \ {0}
  BY <1>1, RootType, Zenon DEF TreeType
<1>4. /\ p \in Seq(Frame) /\ p # <<>> /\ p[1] = q[1]
      /\ \A x : Contains(p, x) <=> Contains(q, x) \/ x = f
  BY <1>1, GrownTables, Zenon DEF TreeType
<1>5. e \in [Idx -> 0..NFrames] /\ e[i] = f /\ \A k \in Idx : k # i => e[k] = a[k]
  BY <1>1, <1>2, Zenon DEF TreeType
<1>6. /\ n[q[1]][i] = Pte(f, V)
      /\ \A d \in Cells : d # i => n[q[1]][d] = m[q[1]][d]
      /\ \A g \in Frame : g # q[1] => n[g] = m[g]
  BY <1>3, IdxCells, WriteAt
<1> HIDE DEF p, e
<1>7. \A x : Contains(q, x) => x \in Frame /\ x # f
  BY <1>1, ContainsTyped, Zenon DEF TreeType
<1>8. TopLevel(n, p, e)
  <2> SUFFICES ASSUME NEW k \in Idx
               PROVE  /\ n[q[1]][k] = PteOf(e[k])
                      /\ e[k] # 0 => Contains(p, e[k]) /\ e[k] # q[1]
    BY <1>4, Zenon DEF TopLevel
  <2>1. CASE k = i
    BY <1>2, <1>3, <1>4, <1>5, <1>6, <1>7, <2>1, Zenon
  <2>2. CASE k # i
    BY <1>1, <1>4, <1>5, <1>6, <2>2, IdxCells DEF TopLevel
  <2> QED BY <2>1, <2>2, Zenon
<1>9. MidLevel(n, p, e, b)
  <2> SUFFICES ASSUME NEW k \in Idx, NEW j \in Idx
               PROVE  /\ e[k] = 0 => b[k][j] = 0
                      /\ e[k] # 0 => n[e[k]][j] = PteOf(b[k][j])
                      /\ b[k][j] # 0 => Contains(p, b[k][j]) /\ b[k][j] # q[1]
    BY <1>4 DEF MidLevel
  <2>1. b[k][j] # 0 => Contains(p, b[k][j]) /\ b[k][j] # q[1]
    BY <1>1, <1>4, Zenon DEF MidLevel
  <2>2. CASE k = i
    <3>1. b[k][j] = 0 /\ n[f][j] = 0
      <4>1. n[f] = m[f] /\ j \in Cells
        BY <1>3, <1>6, <1>7, IdxCells, Zenon
      <4> QED BY <1>1, <2>2, <4>1, Zenon DEF MidLevel
    <3> QED BY <1>2, <1>5, <2>1, <2>2, <3>1, Zenon
  <2>3. CASE k # i
    <3>1. e[k] = a[k]
      BY <1>5, <2>3, Zenon
    <3>2. a[k] # 0 => n[a[k]] = m[a[k]]
      BY <1>1, <1>6, <1>7, Zenon DEF TopLevel
    <3>3. /\ a[k] = 0 => b[k][j] = 0
          /\ a[k] # 0 => m[a[k]][j] = PteOf(b[k][j])
      BY <1>1, Zenon DEF MidLevel
    <3> QED BY <2>1, <3>1, <3>2, <3>3, Zenon
  <2> QED BY <2>2, <2>3, Zenon
<1>10. LeafLevel(n, b, leaf)
  <2> SUFFICES ASSUME NEW v \in Vpn, b[I1(v)][I2(v)] # 0
               PROVE  n[b[I1(v)][I2(v)]] = m[b[I1(v)][I2(v)]]
    BY <1>1, Zenon DEF LeafLevel
  <2>1. Contains(q, b[I1(v)][I2(v)]) /\ b[I1(v)][I2(v)] # q[1]
    BY <1>1, IndexType, Zenon DEF MidLevel
  <2> QED BY <1>6, <1>7, <2>1, Zenon
<1>11. Distinct(e, b)
  <2>1. \A k \in Idx : a[k] # f
    BY <1>1, <1>2, <1>7, Zenon DEF TopLevel
  <2>2. \A k, l \in Idx : b[k][l] # f
    BY <1>1, <1>2, <1>7, Zenon DEF MidLevel
  <2>3. ASSUME NEW k \in Idx, NEW l \in Idx, e[k] = e[l], e[k] # 0 PROVE k = l
    <3>1. CASE k = i /\ l # i
      BY <1>5, <2>1, <2>3, <3>1, Zenon
    <3>2. CASE k # i /\ l = i
      BY <1>5, <2>1, <2>3, <3>2, Zenon
    <3>3. CASE k # i /\ l # i
      <4>1. e[k] = a[k] /\ e[l] = a[l]
        BY <1>5, <3>3, Zenon
      <4> QED BY <1>1, <2>3, <4>1, Zenon DEF Distinct
    <3> QED BY <3>1, <3>2, <3>3, Zenon
  <2>4. ASSUME NEW j \in Idx, NEW k \in Idx, NEW l \in Idx, e[j] # 0 PROVE e[j] # b[k][l]
    <3>1. CASE j = i
      BY <1>5, <2>2, <3>1, Zenon
    <3>2. CASE j # i
      <4>1. e[j] = a[j]
        BY <1>5, <3>2, Zenon
      <4> QED BY <1>1, <2>4, <4>1 DEF Distinct
    <3> QED BY <3>1, <3>2, Zenon
  <2> QED BY <1>1, <2>3, <2>4, Zenon DEF Distinct
<1>12. Tree(n, p, e, b, leaf)
  <2>1. TreeType(p, e, b, leaf)
    BY <1>1, <1>4, <1>5, Zenon DEF TreeType
  <2> QED BY <2>1, <1>8, <1>9, <1>10, <1>11, Zenon DEF Tree
<1> QED BY <1>12, Zenon DEF p, e

\* find_pte_create makes a table under the table of entry i of the root.
LEMMA TreeMiddle ==
  ASSUME NEW m, Memory(m), NEW q, NEW a, NEW b, NEW leaf, Tree(m, q, a, b, leaf),
         NEW i \in Idx, NEW j \in Idx, a[i] # 0, b[i][j] = 0,
         NEW f \in Frame, ~Contains(q, f), \A c \in Cells : m[f][c] = 0,
         NEW n, n = Write(m, a[i], j, Pte(f, V))
  PROVE  Tree(n, Append(q, f), a, [b EXCEPT ![i][j] = f], leaf)
<1> DEFINE p == Append(q, f)
          e == [b EXCEPT ![i][j] = f]
<1>1. TreeType(q, a, b, leaf) /\ Distinct(a, b)
      /\ TopLevel(m, q, a) /\ MidLevel(m, q, a, b) /\ LeafLevel(m, b, leaf)
  BY Zenon DEF Tree
<1>2. f # 0 /\ f \in 0..NFrames /\ PteOf(f) = Pte(f, V) /\ PteOf(0) = 0
  BY FrameType, Zenon DEF PteOf
<1>3. q[1] \in Frame /\ Contains(q, q[1]) /\ q \in Seq(Frame)
  BY <1>1, RootType, Zenon DEF TreeType
<1>4. /\ p \in Seq(Frame) /\ p # <<>> /\ p[1] = q[1]
      /\ \A x : Contains(p, x) <=> Contains(q, x) \/ x = f
  BY <1>1, GrownTables, Zenon DEF TreeType
<1>5. /\ e \in [Idx -> [Idx -> 0..NFrames]] /\ e[i][j] = f
      /\ \A k, l \in Idx : k # i \/ l # j => e[k][l] = b[k][l]
  <2>1. b \in [Idx -> [Idx -> 0..NFrames]]
    BY <1>1, Zenon DEF TreeType
  <2> QED BY <1>2, <2>1, Zenon
<1>6. \A x : Contains(q, x) => x \in Frame /\ x # f
  BY <1>3, ContainsTyped, Zenon
<1>7. Contains(q, a[i]) /\ a[i] # q[1] /\ a[i] \in Frame
  BY <1>1, <1>6, Zenon DEF TopLevel
<1>8. /\ n[a[i]][j] = Pte(f, V)
      /\ \A d \in Cells : d # j => n[a[i]][d] = m[a[i]][d]
      /\ \A g \in Frame : g # a[i] => n[g] = m[g]
  BY <1>7, IdxCells, WriteAt
<1> HIDE DEF p, e
<1>9. TopLevel(n, p, a)
  <2>1. n[q[1]] = m[q[1]]
    BY <1>3, <1>7, <1>8, Zenon
  <2> QED BY <1>1, <1>4, <2>1 DEF TopLevel
<1>10. MidLevel(n, p, a, e)
  <2> SUFFICES ASSUME NEW k \in Idx, NEW l \in Idx
               PROVE  /\ a[k] = 0 => e[k][l] = 0
                      /\ a[k] # 0 => n[a[k]][l] = PteOf(e[k][l])
                      /\ e[k][l] # 0 => Contains(p, e[k][l]) /\ e[k][l] # q[1]
    BY <1>4 DEF MidLevel
  <2>1. CASE k = i /\ l = j
    <3>1. f # q[1]
      BY <1>3, <1>6, Zenon
    <3> QED BY <1>2, <1>4, <1>5, <1>8, <2>1, <3>1, Zenon
  <2>2. CASE k # i \/ l # j
    <3>1. e[k][l] = b[k][l]
      BY <1>5, <2>2, Zenon
    <3>2. a[k] # 0 => n[a[k]][l] = m[a[k]][l]
      <4>1. SUFFICES ASSUME a[k] # 0 PROVE n[a[k]][l] = m[a[k]][l]
        BY Zenon
      <4>2. CASE k = i
        <5>1. l \in Cells /\ l # j
          BY <2>2, <4>2, IdxCells, Zenon
        <5> QED BY <1>8, <4>2, <5>1, Zenon
      <4>3. CASE k # i
        <5>1. a[k] # a[i]
          BY <1>1, <4>1, <4>3, Zenon DEF Distinct
        <5>2. a[k] \in Frame
          BY <1>1, <1>6, <4>1, Zenon DEF TopLevel
        <5> QED BY <1>8, <5>1, <5>2, Zenon
      <4> QED BY <4>2, <4>3, Zenon
    <3>3. /\ a[k] = 0 => b[k][l] = 0
          /\ a[k] # 0 => m[a[k]][l] = PteOf(b[k][l])
          /\ b[k][l] # 0 => Contains(q, b[k][l]) /\ b[k][l] # q[1]
      BY <1>1, Zenon DEF MidLevel
    <3> QED BY <1>4, <3>1, <3>2, <3>3, Zenon
  <2> QED BY <2>1, <2>2, Zenon
<1>11. LeafLevel(n, e, leaf)
  <2> SUFFICES ASSUME NEW v \in Vpn
               PROVE  /\ e[I1(v)][I2(v)] = 0 => leaf[v] = 0
                      /\ e[I1(v)][I2(v)] # 0 => n[e[I1(v)][I2(v)]][I3(v)] = PteOf(leaf[v])
    BY Zenon DEF LeafLevel
  <2> DEFINE k == I1(v)
            l == I2(v)
            o == I3(v)
  <2>1. k \in Idx /\ l \in Idx /\ o \in Idx /\ o \in Cells
    BY IndexType, IdxCells, Zenon
  <2>2. /\ b[k][l] = 0 => leaf[v] = 0
        /\ b[k][l] # 0 => m[b[k][l]][o] = PteOf(leaf[v])
    BY <1>1, Zenon DEF LeafLevel
  <2> HIDE DEF k, l, o
  <2>3. CASE k = i /\ l = j
    <3>1. leaf[v] = 0
      BY <2>2, <2>3, Zenon
    <3>2. n[f][o] = 0
      <4>1. n[f] = m[f]
        BY <1>6, <1>7, <1>8, Zenon
      <4> QED BY <2>1, <4>1, Zenon
    <3>3. e[k][l] = f
      BY <1>5, <2>3, Zenon
    <3>4. e[k][l] # 0 /\ n[e[k][l]][o] = PteOf(leaf[v])
      BY <1>2, <3>1, <3>2, <3>3, Zenon
    <3> QED BY <3>1, <3>4, Zenon DEF k, l, o
  <2>4. CASE k # i \/ l # j
    <3>1. e[k][l] = b[k][l]
      BY <1>5, <2>1, <2>4, Zenon
    <3>2. b[k][l] # 0 => n[b[k][l]] = m[b[k][l]]
      <4>1. SUFFICES ASSUME b[k][l] # 0 PROVE n[b[k][l]] = m[b[k][l]]
        BY Zenon
      <4>2. Contains(q, b[k][l]) /\ b[k][l] # a[i]
        BY <1>1, <2>1, <4>1 DEF MidLevel, Distinct
      <4> QED BY <1>6, <1>8, <4>2, Zenon
    <3>3. /\ e[k][l] = 0 => leaf[v] = 0
          /\ e[k][l] # 0 => n[e[k][l]][o] = PteOf(leaf[v])
      BY <2>2, <3>1, <3>2, Zenon
    <3> QED BY <3>3, Zenon DEF k, l, o
  <2> QED BY <2>3, <2>4, Zenon
<1>12. Distinct(a, e)
  <2>1. \A k \in Idx : a[k] # f
    BY <1>1, <1>2, <1>6, Zenon DEF TopLevel
  <2>2. \A k, l \in Idx : b[k][l] # f
    BY <1>1, <1>2, <1>6, Zenon DEF MidLevel
  <2>3. ASSUME NEW k \in Idx, NEW l \in Idx, NEW x \in Idx, NEW y \in Idx,
               e[k][l] = e[x][y], e[k][l] # 0
        PROVE  k = x /\ l = y
    <3>1. CASE k = i /\ l = j
      <4>1. e[x][y] = f
        BY <1>5, <2>3, <3>1, Zenon
      <4> QED BY <1>5, <2>2, <3>1, <4>1
    <3>2. CASE x = i /\ y = j
      <4>1. e[k][l] = f
        BY <1>5, <2>3, <3>2, Zenon
      <4> QED BY <1>5, <2>2, <3>2, <4>1
    <3>3. CASE (k # i \/ l # j) /\ (x # i \/ y # j)
      <4>1. e[k][l] = b[k][l] /\ e[x][y] = b[x][y]
        BY <1>5, <3>3, Zenon
      <4>2. b[k][l] = b[x][y] /\ b[k][l] # 0
        BY <2>3, <4>1, Zenon
      <4> QED BY <1>1, <4>2 DEF Distinct
    <3> QED BY <3>1, <3>2, <3>3, Zenon
  <2>4. ASSUME NEW k \in Idx, NEW x \in Idx, NEW y \in Idx, a[k] # 0 PROVE a[k] # e[x][y]
    <3>1. CASE x = i /\ y = j
      BY <1>5, <2>1, <3>1, Zenon
    <3>2. CASE x # i \/ y # j
      <4>1. e[x][y] = b[x][y]
        BY <1>5, <3>2, Zenon
      <4> QED BY <1>1, <2>4, <4>1 DEF Distinct
    <3> QED BY <3>1, <3>2, Zenon
  <2>5. \A k, l \in Idx : a[k] = a[l] /\ a[k] # 0 => k = l
    BY <1>1, Zenon DEF Distinct
  <2> QED BY <2>3, <2>4, <2>5 DEF Distinct
<1>13. Tree(n, p, a, e, leaf)
  <2>1. TreeType(p, a, e, leaf)
    BY <1>1, <1>4, <1>5, Zenon DEF TreeType
  <2> QED BY <2>1, <1>9, <1>10, <1>11, <1>12, Zenon DEF Tree
<1> QED BY <1>13, Zenon DEF p, e

\* map and unmap write the entry of a page.
LEMMA TreeLeaf ==
  ASSUME NEW m, Memory(m), NEW q, NEW a, NEW b, NEW leaf, Tree(m, q, a, b, leaf),
         NEW v \in Vpn, b[I1(v)][I2(v)] # 0, NEW x \in 0..NFrames,
         NEW n, n = Write(m, b[I1(v)][I2(v)], I3(v), PteOf(x))
  PROVE  Tree(n, q, a, b, [leaf EXCEPT ![v] = x])
<1> DEFINE t == b[I1(v)][I2(v)]
          lf == [leaf EXCEPT ![v] = x]
<1>1. TreeType(q, a, b, leaf) /\ Distinct(a, b)
      /\ TopLevel(m, q, a) /\ MidLevel(m, q, a, b) /\ LeafLevel(m, b, leaf)
  BY Zenon DEF Tree
<1>2. I1(v) \in Idx /\ I2(v) \in Idx /\ I3(v) \in Idx /\ I3(v) \in Cells
  BY IndexType, IdxCells, Zenon
<1>3. Contains(q, t) /\ t # q[1] /\ t \in Frame /\ \A k \in Idx : a[k] # 0 => a[k] # t
  <2>1. Contains(q, t) /\ t # q[1] /\ \A k \in Idx : a[k] # 0 => a[k] # t
    BY <1>1, <1>2 DEF MidLevel, Distinct
  <2> QED BY <1>1, <2>1, ContainsTyped, Zenon DEF TreeType
<1>4. lf \in [Vpn -> 0..NFrames] /\ lf[v] = x /\ \A w \in Vpn : w # v => lf[w] = leaf[w]
  BY <1>1, Zenon DEF TreeType
<1>5. n = Write(m, t, I3(v), PteOf(x))
  BY Zenon
<1> HIDE DEF lf, t
<1>6. /\ n[t][I3(v)] = PteOf(x)
      /\ \A d \in Cells : d # I3(v) => n[t][d] = m[t][d]
      /\ \A g \in Frame : g # t => n[g] = m[g]
  BY <1>2, <1>3, <1>5, WriteAt
<1>7. \A g : Contains(q, g) => g \in Frame
  BY <1>1, ContainsTyped, Zenon DEF TreeType
<1>8. TopLevel(n, q, a)
  <2>1. q[1] \in Frame /\ q[1] # t
    BY <1>1, <1>3, RootType, Zenon DEF TreeType
  <2>2. n[q[1]] = m[q[1]]
    BY <1>6, <2>1, Zenon
  <2> QED BY <1>1, <2>2, Zenon DEF TopLevel
<1>9. MidLevel(n, q, a, b)
  <2>1. \A k \in Idx : a[k] # 0 => n[a[k]] = m[a[k]]
    BY <1>1, <1>3, <1>6, <1>7, Zenon DEF TopLevel
  <2> QED BY <1>1, <2>1 DEF MidLevel
<1>10. LeafLevel(n, b, lf)
  <2> SUFFICES ASSUME NEW w \in Vpn
               PROVE  /\ b[I1(w)][I2(w)] = 0 => lf[w] = 0
                      /\ b[I1(w)][I2(w)] # 0 => n[b[I1(w)][I2(w)]][I3(w)] = PteOf(lf[w])
    BY Zenon DEF LeafLevel
  <2>1. CASE w = v
    <3>1. b[I1(w)][I2(w)] = t /\ t # 0 /\ n[t][I3(w)] = PteOf(lf[w])
      BY <1>4, <1>6, <2>1, Zenon DEF t
    <3> QED BY <3>1, Zenon
  <2>2. CASE w # v
    <3> DEFINE u == b[I1(w)][I2(w)]
    <3>1. I1(w) \in Idx /\ I2(w) \in Idx /\ I3(w) \in Cells /\ lf[w] = leaf[w]
      BY <1>4, <2>2, IndexType, IdxCells, Zenon
    <3>2. /\ u = 0 => leaf[w] = 0
          /\ u # 0 => m[u][I3(w)] = PteOf(leaf[w])
      BY <1>1, Zenon DEF LeafLevel
    <3>3. ASSUME u # 0 PROVE u \in Frame /\ (u = t => I3(w) # I3(v))
      <4>1. u \in Frame
        BY <1>1, <1>7, <3>1, <3>3, Zenon DEF MidLevel
      <4>2. u = t => I1(w) = I1(v) /\ I2(w) = I2(v)
        BY <1>1, <1>2, <3>1, <3>3 DEF Distinct, t
      <4> QED BY <2>2, <4>1, <4>2, IndexesDiffer, Zenon
    <3>4. ASSUME u # 0 PROVE n[u][I3(w)] = PteOf(lf[w])
      <4> HIDE DEF u
      <4>1. CASE u = t
        BY <1>6, <3>1, <3>2, <3>3, <3>4, <4>1, Zenon
      <4>2. CASE u # t
        <5>1. n[u] = m[u]
          BY <1>6, <3>3, <3>4, <4>2, Zenon
        <5> QED BY <3>1, <3>2, <3>4, <5>1, Zenon
      <4> QED BY <4>1, <4>2, Zenon
    <3> QED BY <3>1, <3>2, <3>4, Zenon
  <2> QED BY <2>1, <2>2, Zenon
<1>11. Tree(n, q, a, b, lf)
  BY <1>1, <1>4, <1>8, <1>9, <1>10, Zenon DEF Tree, TreeType
<1> QED BY <1>11, Zenon DEF lf

-----------------------------------------------------------------------------
(* The invariant *)

\* The frame of each page, mapped or not, when the areas hold d.
LeafOf(d) == [v \in Vpn |-> IF v \in Pages THEN d[v] ELSE 0]

\* An address space with tables q and pages d; without tables there is none.
Live(m, q, d) ==
  IF q = <<>> THEN \A v \in Pages : d[v] = 0
  ELSE \E a, b : Tree(m, q, a, b, LeafOf(d))

PageInv ==
  /\ Memory(mem)
  /\ Owner(free, frames, data_frames, {})
  /\ root_ppn \in [Space -> 0..NFrames]
  /\ \A s \in Space :
       /\ Live(mem, frames[s], data_frames[s])
       /\ frames[s] # <<>> => root_ppn[s] = frames[s][1]

\* An address space is in its tables alone.
LEMMA LiveSame ==
  ASSUME NEW m, NEW q, NEW d, Live(m, q, d), NEW n,
         \A f \in Frame : Contains(q, f) => \A c \in Idx : n[f][c] = m[f][c]
  PROVE  Live(n, q, d)
<1>1. CASE q = <<>>
  BY <1>1, Zenon DEF Live
<1>2. CASE q # <<>>
  <2>1. PICK a, b : Tree(m, q, a, b, LeafOf(d))
    BY <1>2, Zenon DEF Live
  <2>2. Tree(n, q, a, b, LeafOf(d))
    BY <2>1, TreeSame, ZenonT(30)
  <2> QED BY <1>2, <2>2, Zenon DEF Live
<1> QED BY <1>1, <1>2, Zenon

\* What find_pte and translate find in a tree.
LEMMA WalkFinds ==
  ASSUME NEW q, NEW a, NEW b, NEW leaf, Tree(mem, q, a, b, leaf), NEW v \in Vpn,
         NEW r, r = q[1]
  PROVE  LET t == b[I1(v)][I2(v)]
         IN /\ TablesMissing(r, v) = IF a[I1(v)] = 0 THEN 2 ELSE IF t = 0 THEN 1 ELSE 0
            /\ find_pte(r, v) = IF t = 0 THEN <<>> ELSE <<t, I3(v)>>
            /\ translate(r, v) = IF t = 0 THEN <<>> ELSE <<PteOf(leaf[v])>>
            /\ t # 0 => Contains(q, t) /\ t \in Frame
            /\ t = 0 => leaf[v] = 0
<1> DEFINE i == I1(v)
          j == I2(v)
          o == I3(v)
          t == b[i][j]
<1>1. i \in Idx /\ j \in Idx /\ o \in Idx
  BY IndexType, Zenon
<1>2. /\ a[i] \in 0..NFrames /\ t \in 0..NFrames
      /\ mem[r][i] = PteOf(a[i])
      /\ a[i] = 0 => t = 0
      /\ a[i] # 0 => mem[a[i]][j] = PteOf(t)
      /\ t # 0 => Contains(q, t)
      /\ t # 0 => mem[t][o] = PteOf(leaf[v])
      /\ t = 0 => leaf[v] = 0
  <2>1. TreeType(q, a, b, leaf) /\ TopLevel(mem, q, a) /\ MidLevel(mem, q, a, b) /\ LeafLevel(mem, b, leaf)
    BY Zenon DEF Tree
  <2>2. a[i] \in 0..NFrames /\ t \in 0..NFrames
    BY <1>1, <2>1, Zenon DEF TreeType
  <2>3. mem[r][i] = PteOf(a[i])
    BY <1>1, <2>1, Zenon DEF TopLevel
  <2>4. /\ a[i] = 0 => t = 0
        /\ a[i] # 0 => mem[a[i]][j] = PteOf(t)
        /\ t # 0 => Contains(q, t)
    BY <1>1, <2>1, Zenon DEF MidLevel
  <2>5. /\ t # 0 => mem[t][o] = PteOf(leaf[v])
        /\ t = 0 => leaf[v] = 0
    BY <2>1, Zenon DEF LeafLevel
  <2> QED BY <2>2, <2>3, <2>4, <2>5, Zenon
<1>3. /\ is_valid(PteOf(a[i])) <=> a[i] # 0 
      /\ ppn_of(PteOf(a[i])) = a[i]
      /\ is_valid(PteOf(t)) <=> t # 0
      /\ ppn_of(PteOf(t)) = t
  BY <1>2, EntryOf, Zenon
<1>4. indexes(v)[1] = i /\ indexes(v)[2] = j /\ indexes(v)[3] = o
  BY Zenon DEF I1, I2, I3
<1> HIDE DEF i, j, o, t
<1>5. TablesMissing(r, v) = IF a[i] = 0 THEN 2 ELSE IF t = 0 THEN 1 ELSE 0
  <2>1. CASE a[i] = 0
    BY <1>2, <1>3, <1>4, <2>1, Zenon DEF TablesMissing
  <2>2. CASE a[i] # 0
    BY <1>2, <1>3, <1>4, <2>2, Zenon DEF TablesMissing
  <2> QED BY <2>1, <2>2, Zenon
<1>6. find_pte(r, v) = IF t = 0 THEN <<>> ELSE <<t, o>>
  <2>1. CASE t = 0
    BY <1>5, <2>1 DEF find_pte
  <2>2. CASE t # 0
    <3>1. a[i] # 0 /\ TablesMissing(r, v) = 0
      BY <1>2, <1>5, <2>2, Zenon
    <3>2. ppn_of(mem[ppn_of(mem[r][i])][j]) = t
      BY <1>2, <1>3, <3>1, Zenon
    <3> QED BY <1>4, <2>2, <3>1, <3>2 DEF find_pte
  <2> QED BY <2>1, <2>2, Zenon
<1>7. translate(r, v) = IF t = 0 THEN <<>> ELSE <<PteOf(leaf[v])>>
  <2>1. CASE t = 0
    BY <1>6, <2>1, Zenon DEF translate
  <2>2. CASE t # 0
    BY <1>2, <1>6, <2>2 DEF translate
  <2> QED BY <2>1, <2>2, Zenon
<1>8. t # 0 => Contains(q, t) /\ t \in Frame
  BY <1>2, FrameType, Zenon
<1> QED BY <1>2, <1>5, <1>6, <1>7, <1>8, Zenon DEF i, j, o, t

-----------------------------------------------------------------------------
(* The invariant implies the property *)

\* A frame that is placed once has one holder.
LEMMA OneHolder ==
  ASSUME Owner(free, frames, data_frames, {}), NEW f \in Frame
  PROVE  \E h \in Holders(f) : Holders(f) = {h}
<1> DEFINE at(q) == {i \in DOMAIN q : q[i] = f}
          inFree == {<<"free", i>> : i \in at(free)}
          tables(s) == {<<s, "table", i>> : i \in at(frames[s])}
          pages(s) == {<<s, "page", v>> : v \in at(data_frames[s])}
<1>1. Holders(f) = inFree \union UNION {tables(s) \union pages(s) : s \in Space}
  BY Zenon DEF Holders
<1>2. Placed(f, free, frames, data_frames, {})
  BY Zenon DEF Owner
<1>3. /\ free \in Seq(Frame) /\ IsInjective(free)
      /\ frames \in [Space -> Seq(Frame)] /\ \A s \in Space : IsInjective(frames[s])
      /\ data_frames \in [Space -> [Pages -> 0..NFrames]]
  BY Zenon DEF Owner
<1>4. ASSUME NEW q \in Seq(Frame), IsInjective(q)
      PROVE  /\ Contains(q, f) => \E i : at(q) = {i}
             /\ ~Contains(q, f) => at(q) = {}
  <2>1. DOMAIN q = 1..Len(q) /\ \A i, j \in 1..Len(q) : q[i] = q[j] => i = j
    BY <1>4, SeqLen, InjectiveSeq, Zenon
  <2>2. ASSUME Contains(q, f) PROVE \E i : at(q) = {i}
    <3>1. PICK i \in 1..Len(q) : q[i] = f
      BY <2>2, Zenon DEF Contains
    <3>2. at(q) = {i}
      BY <2>1, <3>1, Zenon
    <3> QED BY <3>2, Zenon
  <2>3. ASSUME ~Contains(q, f) PROVE at(q) = {}
    BY <2>1, <2>3, Zenon DEF Contains
  <2> QED BY <2>2, <2>3, Zenon
<1>5. ASSUME NEW s \in Space
      PROVE  at(data_frames[s]) = {v \in Pages : data_frames[s][v] = f}
  BY <1>3, Zenon
<1> SUFFICES \E h : Holders(f) = {h}
  BY Zenon
<1>6. CASE Contains(free, f)
  <2>1. PICK i : at(free) = {i}
    BY <1>3, <1>4, <1>6, Zenon
  <2>2. ASSUME NEW s \in Space PROVE tables(s) = {} /\ pages(s) = {}
    <3>1. ~Contains(frames[s], f) /\ \A v \in Pages : data_frames[s][v] # f
      BY <1>2, <1>6, Zenon DEF Placed
    <3>2. at(frames[s]) = {} /\ at(data_frames[s]) = {}
      BY <1>3, <1>4, <1>5, <3>1, Zenon
    <3> HIDE DEF at
    <3> QED BY <3>2, Zenon
  <2>3. inFree = {<<"free", i>>}
    <3> HIDE DEF at
    <3> QED BY <2>1, Zenon
  <2> HIDE DEF at, inFree, tables, pages
  <2>4. Holders(f) = {<<"free", i>>}
    BY <1>1, <2>2, <2>3, Zenon
  <2> QED BY <2>4, Zenon
<1>7. ASSUME NEW s \in Space, Contains(frames[s], f) PROVE \E h : Holders(f) = {h}
  <2>1. PICK i : at(frames[s]) = {i}
    BY <1>3, <1>4, <1>7, Zenon
  <2>2. at(free) = {}
    BY <1>2, <1>3, <1>4, <1>7, Zenon DEF Placed
  <2>3. \A z \in Space : at(data_frames[z]) = {}
    BY <1>2, <1>5, <1>7, Zenon DEF Placed
  <2>4. \A z \in Space : z # s => at(frames[z]) = {}
    BY <1>2, <1>3, <1>4, <1>7, Zenon DEF Placed
  <2> HIDE DEF at
  <2>5. inFree = {} /\ tables(s) = {<<s, "table", i>>}
    BY <2>1, <2>2, Zenon
  <2>6. \A z \in Space : pages(z) = {}
    BY <2>3, Zenon
  <2>7. \A z \in Space : z # s => tables(z) = {}
    BY <2>4, Zenon
  <2> HIDE DEF inFree, tables, pages
  <2>8. Holders(f) = {<<s, "table", i>>}
    BY <1>1, <2>5, <2>6, <2>7
  <2> QED BY <2>8, Zenon
<1>8. ASSUME NEW s \in Space, NEW v \in Pages, data_frames[s][v] = f PROVE \E h : Holders(f) = {h}
  <2>1. at(data_frames[s]) = {v}
    <3>1. \A w \in Pages : data_frames[s][w] = f => w = v
      BY <1>2, <1>8, Zenon DEF Placed
    <3> QED BY <1>5, <1>8, <3>1, Zenon
  <2>2. at(free) = {}
    BY <1>2, <1>3, <1>4, <1>8, Zenon DEF Placed
  <2>3. \A z \in Space : at(frames[z]) = {}
    BY <1>2, <1>3, <1>4, <1>8, Zenon DEF Placed
  <2>4. \A z \in Space : z # s => at(data_frames[z]) = {}
    <3>1. \A z \in Space, w \in Pages : z # s => data_frames[z][w] # f
      BY <1>2, <1>8, Zenon DEF Placed
    <3> QED BY <1>5, <3>1, Zenon
  <2> HIDE DEF at
  <2>5. inFree = {} /\ pages(s) = {<<s, "page", v>>}
    BY <2>1, <2>2, Zenon
  <2>6. \A z \in Space : tables(z) = {}
    BY <2>3, Zenon
  <2>7. \A z \in Space : z # s => pages(z) = {}
    BY <2>4, Zenon
  <2> HIDE DEF inFree, tables, pages
  <2>8. Holders(f) = {<<s, "page", v>>}
    BY <1>1, <2>5, <2>6, <2>7
  <2> QED BY <2>8, Zenon
<1>9. \/ Contains(free, f)
      \/ \E s \in Space : Contains(frames[s], f) \/ \E v \in Pages : data_frames[s][v] = f
  BY <1>2, Zenon DEF Placed
<1> QED BY <1>6, <1>7, <1>8, <1>9, Zenon

\* The invariant is what TablesSound says of the holders, the walks and the leaves.
LEMMA InvSound == PageInv => TablesSound
<1> SUFFICES ASSUME PageInv PROVE TablesSound
  BY Zenon
<1>1. \A f \in Frame : \E h \in Holders(f) : Holders(f) = {h}
  BY OneHolder, Zenon DEF PageInv
<1>2. ASSUME NEW s \in Space, NEW v \in Vpn, frames[s] # <<>>
      PROVE  /\ root_ppn[s] = frames[s][1]
             /\ find_pte(root_ppn[s], v) # <<>> => Contains(frames[s], find_pte(root_ppn[s], v)[1])
             /\ LET pte == translate(root_ppn[s], v)
                IN IF v \notin Pages \/ data_frames[s][v] = 0 THEN pte = <<>> \/ pte = <<0>>
                   ELSE pte = <<Pte(data_frames[s][v], V)>>
  <2>1. root_ppn[s] = frames[s][1]
    BY <1>2, Zenon DEF PageInv
  <2> DEFINE leaf == LeafOf(data_frames[s])
            r == root_ppn[s]
  <2>2. PICK a, b : Tree(mem, frames[s], a, b, leaf)
    BY <1>2, Zenon DEF PageInv, Live
  <2>3. leaf[v] = IF v \in Pages THEN data_frames[s][v] ELSE 0
    BY Zenon DEF LeafOf
  <2> DEFINE t == b[I1(v)][I2(v)]
  <2> HIDE DEF leaf, r
  <2>4. /\ find_pte(r, v) = IF t = 0 THEN <<>> ELSE <<t, I3(v)>>
        /\ translate(r, v) = IF t = 0 THEN <<>> ELSE <<PteOf(leaf[v])>>
        /\ t # 0 => Contains(frames[s], t)
        /\ t = 0 => leaf[v] = 0
    <3>1. r = frames[s][1]
      BY <2>1, Zenon DEF r
    <3> QED BY <2>2, <3>1, WalkFinds
  <2> HIDE DEF t
  <2>5. find_pte(r, v) # <<>> => Contains(frames[s], find_pte(r, v)[1])
    <3>1. CASE t = 0
      BY <2>4, <3>1, Zenon
    <3>2. CASE t # 0
      <4>1. find_pte(r, v)[1] = t
        BY <2>4, <3>2
      <4> QED BY <2>4, <3>2, <4>1, Zenon
    <3> QED BY <3>1, <3>2, Zenon
  <2>6. IF v \notin Pages \/ data_frames[s][v] = 0 THEN translate(r, v) = <<>> \/ translate(r, v) = <<0>>
        ELSE translate(r, v) = <<Pte(data_frames[s][v], V)>>
    <3>1. CASE v \notin Pages \/ data_frames[s][v] = 0
      <4>1. leaf[v] = 0
        BY <2>3, <3>1, Zenon
      <4> QED BY <2>4, <3>1, <4>1, Zenon DEF PteOf
    <3>2. CASE ~(v \notin Pages \/ data_frames[s][v] = 0)
      <4>1. leaf[v] = data_frames[s][v] /\ leaf[v] # 0
        BY <2>3, <3>2, Zenon
      <4> QED BY <2>4, <3>2, <4>1, Zenon DEF PteOf
    <3> QED BY <3>1, <3>2, Zenon
  <2> QED BY <2>1, <2>5, <2>6, Zenon DEF r
<1>3. TreeOwned
  BY <1>1, <1>2, Zenon DEF TreeOwned
<1>4. LeavesAgree
  BY <1>2, Zenon DEF LeavesAgree
<1> QED BY <1>3, <1>4, Zenon DEF TablesSound

\* At the start every frame is free.
LEMMA InitSound == Init => PageInv
<1> SUFFICES ASSUME Init PROVE PageInv
  BY Zenon
<1>1. Memory(mem)
  BY Zenon DEF Init, Memory, ZeroFrame
<1>2. NFrames \in Nat \ {0} /\ free = [i \in 1..NFrames |-> NFrames + 1 - i]
  BY FanType, Zenon DEF Init
<1>3. free \in Seq(Frame) /\ Len(free) = NFrames /\ \A i \in 1..NFrames : free[i] = NFrames + 1 - i
  <2>1. free \in [1..NFrames -> Frame]
    BY <1>2 DEF Frame
  <2>2. free \in Seq(Frame)
    BY <1>2, <2>1
  <2> QED BY <1>2, <2>1, <2>2
<1>4. IsInjective(free) /\ \A f \in Frame : Contains(free, f)
  <2>1. \A i, j \in 1..Len(free) : free[i] = free[j] => i = j
    BY <1>2, <1>3
  <2>2. ASSUME NEW f \in Frame PROVE Contains(free, f)
    <3>1. NFrames + 1 - f \in 1..Len(free) /\ free[NFrames + 1 - f] = f
      BY <1>2, <1>3 DEF Frame
    <3> QED BY <3>1, Zenon DEF Contains
  <2> QED BY <1>3, <2>1, <2>2, InjectiveSeq, Zenon
<1>5. IsInjective(<<>>) /\ \A x : ~Contains(<<>>, x)
  BY DEF IsInjective, Contains
<1>6. /\ frames \in [Space -> Seq(Frame)] /\ \A s \in Space : frames[s] = <<>>
      /\ data_frames \in [Space -> [Pages -> 0..NFrames]]
      /\ \A s \in Space, v \in Pages : data_frames[s][v] = 0
      /\ root_ppn \in [Space -> 0..NFrames]
  <2>1. <<>> \in Seq(Frame)
    BY SeqEmpty, Zenon
  <2> QED BY <2>1, FrameType, Zenon DEF Init
<1>7. Owner(free, frames, data_frames, {})
  <2>1. ASSUME NEW f \in Frame PROVE Placed(f, free, frames, data_frames, {})
    <3>1. \A s \in Space : ~Contains(frames[s], f)
      BY <1>5, <1>6, Zenon
    <3>2. \A s \in Space, v \in Pages : data_frames[s][v] # f
      BY <1>6, FrameType, Zenon
    <3> QED BY <1>4, <3>1, <3>2, Zenon DEF Placed
  <2>2. \A s \in Space : IsInjective(frames[s])
    BY <1>5, <1>6, Zenon
  <2> QED BY <1>3, <1>4, <1>6, <2>1, <2>2, Zenon DEF Owner
<1> QED BY <1>1, <1>6, <1>7, Zenon DEF PageInv, Live

-----------------------------------------------------------------------------
(* Steps on one address space *)

\* A step on s alone: what it must leave of the others.
LEMMA StepOn ==
  ASSUME PageInv, NEW s \in Space, NEW m, NEW fr, NEW q, NEW d, NEW T, NEW D, NEW r,
         Memory(m), T = [frames EXCEPT ![s] = q], D = [data_frames EXCEPT ![s] = d],
         Owner(fr, T, D, {}), Live(m, q, d), q # <<>> => r = q[1], r \in 0..NFrames,
         \A f \in Frame, z \in Space \ {s} : Contains(frames[z], f) => m[f] = mem[f],
         mem' = m, free' = fr, frames' = T, data_frames' = D,
         root_ppn' = [root_ppn EXCEPT ![s] = r]
  PROVE  PageInv'
<1>1. /\ T[s] = q /\ \A z \in Space \ {s} : T[z] = frames[z]
      /\ D[s] = d /\ \A z \in Space \ {s} : D[z] = data_frames[z]
      /\ root_ppn'[s] = r /\ \A z \in Space \ {s} : root_ppn'[z] = root_ppn[z]
      /\ root_ppn' \in [Space -> 0..NFrames]
  <2>1. frames \in [Space -> Seq(Frame)] /\ data_frames \in [Space -> [Pages -> 0..NFrames]]
        /\ root_ppn \in [Space -> 0..NFrames]
    BY Zenon DEF PageInv, Owner
  <2>2. T[s] = q /\ \A z \in Space \ {s} : T[z] = frames[z]
    BY <2>1, Zenon
  <2>3. D[s] = d /\ \A z \in Space \ {s} : D[z] = data_frames[z]
    BY <2>1, Zenon
  <2>4. root_ppn'[s] = r /\ root_ppn' \in [Space -> 0..NFrames] /\ \A z \in Space \ {s} : root_ppn'[z] = root_ppn[z]
    BY <2>1, Zenon
  <2> QED BY <2>2, <2>3, <2>4, Zenon
<1>2. ASSUME NEW z \in Space
      PROVE  /\ Live(m, T[z], D[z])
             /\ T[z] # <<>> => root_ppn'[z] = T[z][1]
  <2>1. CASE z = s
    BY <1>1, <2>1, Zenon
  <2>2. CASE z # s
    <3>1. Live(mem, frames[z], data_frames[z]) /\ (frames[z] # <<>> => root_ppn[z] = frames[z][1])
      BY Zenon DEF PageInv
    <3>2. \A f \in Frame : Contains(frames[z], f) => m[f] = mem[f]
      BY <2>2, Zenon
    <3>3. Live(m, frames[z], data_frames[z])
      BY <3>1, <3>2, LiveSame, Zenon
    <3>4. T[z] = frames[z] /\ D[z] = data_frames[z] /\ root_ppn'[z] = root_ppn[z]
      BY <1>1, <2>2, Zenon
    <3> QED BY <3>1, <3>3, <3>4, Zenon
  <2> QED BY <2>1, <2>2, Zenon
<1>3. Memory(mem)' /\ Owner(free, frames, data_frames, {})'
  BY Zenon
<1>4. \A z \in Space : /\ Live(mem', frames'[z], data_frames'[z])
                       /\ frames'[z] # <<>> => root_ppn'[z] = frames'[z][1]
  BY <1>2, Zenon
<1> QED BY <1>1, <1>3, <1>4, Zenon DEF PageInv

\* A halted kernel leaves the tables as they are.
LEMMA SameTables ==
  ASSUME PageInv, UNCHANGED <<mem, free, root_ppn, frames, data_frames>>
  PROVE  PageInv'
BY DEF PageInv

\* PageTable::new makes a tree of one table.
LEMMA NewStep ==
  ASSUME PageInv, NEW s \in Space, new(s)
  PROVE  PageInv'
<1>1. CASE free = <<>>
  BY <1>1, SameTables, Zenon DEF new, Halt
<1>2. CASE free # <<>>
  <2> DEFINE f == Last(free)
            m == Clear(mem, f)
            q == <<f>>
            d == data_frames[s]
            T == [frames EXCEPT ![s] = q]
            D == [data_frames EXCEPT ![s] = d]
  <2>1. /\ frames[s] = <<>>
        /\ mem' = m /\ free' = Front(free) /\ frames' = T
        /\ root_ppn' = [root_ppn EXCEPT ![s] = f]
        /\ data_frames' = data_frames
    BY <1>2, Zenon DEF new, Alloc, Clear
  <2>2. Memory(mem) /\ Owner(free, frames, data_frames, {})
    BY Zenon DEF PageInv
  <2>3. /\ Owner(Front(free), frames, data_frames, {} \union {f})
        /\ f \in Frame /\ Contains(free, f)
    BY <1>2, <2>2, TakeFrame, Zenon
  <2> HIDE DEF f
  <2>4. data_frames = D
    BY <2>2, Zenon DEF Owner
  <2>5. T = [frames EXCEPT ![s] = Append(frames[s], f)]
    <3>1. Append(<<>>, f) = <<f>>
      OBVIOUS
    <3> QED BY <2>1, <3>1, Zenon
  <2>6. Owner(Front(free), T, D, {})
    <3>1. ({} \union {f}) \ {f} = {}
      BY Zenon
    <3>2. f \in {} \union {f}
      BY Zenon
    <3>3. Owner(Front(free), [frames EXCEPT ![s] = Append(frames[s], f)], data_frames, ({} \union {f}) \ {f})
      BY <2>3, <3>2, GiveTable, Zenon
    <3> HIDE DEF D, T
    <3> QED BY <2>4, <2>5, <3>1, <3>3, Zenon
  <2>7. Memory(m) /\ (\A c \in Cells : m[f][c] = 0) /\ \A g \in Frame : g # f => m[g] = mem[g]
    BY <2>2, <2>3, ClearFrame, Zenon
  <2> HIDE DEF m
  <2>8. Live(m, q, d)
    <3>1. \A v \in Pages : d[v] = 0
      BY <2>1, Zenon DEF PageInv, Live
    <3>2. LeafOf(d) = [v \in Vpn |-> 0]
      BY <3>1, Zenon DEF LeafOf
    <3>3. Tree(m, q, [i \in Idx |-> 0], [i \in Idx |-> [j \in Idx |-> 0]], LeafOf(d))
      BY <2>3, <2>7, <3>2, TreeNew, Zenon
    <3>4. q # <<>>
      BY Zenon
    <3> HIDE DEF q, d
    <3> QED BY <3>3, <3>4, Zenon DEF Live
  <2>9. \A g \in Frame, z \in Space \ {s} : Contains(frames[z], g) => m[g] = mem[g]
    <3>1. Placed(f, free, frames, data_frames, {})
      BY <2>2, <2>3, Zenon DEF Owner
    <3>2. \A z \in Space : ~Contains(frames[z], f)
      BY <2>3, <3>1, Zenon DEF Placed
    <3> QED BY <2>7, <3>2, Zenon
  <2>10. q[1] = f /\ f \in 0..NFrames
    BY <2>3, FrameType, Zenon
  <2>11. data_frames' = D
    BY <2>1, <2>4, Zenon
  <2> HIDE DEF q, d
  <2> QED BY <2>1, <2>6, <2>7, <2>8, <2>9, <2>10, <2>11, StepOn, Zenon
<1> QED BY <1>1, <1>2, Zenon

\* The leaves after one page of the areas changes.
LEMMA LeafChange ==
  ASSUME NEW d \in [Pages -> 0..NFrames], NEW v \in Pages, NEW x \in 0..NFrames
  PROVE  /\ v \in Vpn /\ LeafOf(d)[v] = d[v]
         /\ LeafOf([d EXCEPT ![v] = x]) = [LeafOf(d) EXCEPT ![v] = x]
<1>1. Pages \subseteq Vpn
  BY PageTableAssumption, Zenon DEF Vpn
<1>2. LeafOf([d EXCEPT ![v] = x]) = [LeafOf(d) EXCEPT ![v] = x]
  BY <1>1, Zenon DEF LeafOf
<1> QED BY <1>1, <1>2, Zenon DEF LeafOf

\* MapArea::unmap_one clears the leaf of the page that goes.
LEMMA UnmapStep ==
  ASSUME PageInv, NEW s \in Space, NEW v \in Pages, unmap_one(s, v)
  PROVE  PageInv'
<1> DEFINE r == root_ppn[s]
          at == find_pte(r, v)
          d == data_frames[s]
          q == frames[s]
<1>1. CASE \E why \in {"unwrap", "unmap"} : Halt(why)
  BY <1>1, SameTables, Zenon DEF Halt
<1>2. CASE ~\E why \in {"unwrap", "unmap"} : Halt(why)
  <2> DEFINE e == [d EXCEPT ![v] = 0]
            D == [data_frames EXCEPT ![s] = e]
            T == [frames EXCEPT ![s] = q]
  <2>1. /\ q # <<>> /\ d[v] # 0
        /\ free' = Append(free, d[v])
        /\ data_frames' = [data_frames EXCEPT ![s][v] = 0]
        /\ mem' = [mem EXCEPT ![at[1]][at[2]] = 0]
        /\ UNCHANGED <<root_ppn, frames>>
    BY <1>2, Zenon DEF unmap_one
  <2>2. Memory(mem) /\ Owner(free, frames, data_frames, {})
    BY Zenon DEF PageInv
  <2>3. d \in [Pages -> 0..NFrames] /\ r = q[1] /\ r \in 0..NFrames
    BY <2>1, Zenon DEF PageInv, Owner
  <2>4. /\ v \in Vpn /\ LeafOf(d)[v] = d[v]
        /\ LeafOf(e) = [LeafOf(d) EXCEPT ![v] = 0]
    <3> HIDE DEF d
    <3> QED BY <2>3, FrameType, LeafChange, Zenon
  <2>5. PICK a, b : Tree(mem, q, a, b, LeafOf(d))
    BY <2>1, Zenon DEF PageInv, Live
  <2> DEFINE t == b[I1(v)][I2(v)]
            m == Write(mem, t, I3(v), PteOf(0))
  <2>6. t # 0 /\ Contains(q, t) /\ t \in Frame /\ at = <<t, I3(v)>>
    <3> HIDE DEF r, q, d
    <3>1. /\ find_pte(r, v) = IF t = 0 THEN <<>> ELSE <<t, I3(v)>>
          /\ t # 0 => Contains(q, t) /\ t \in Frame
          /\ t = 0 => LeafOf(d)[v] = 0
      BY <2>3, <2>4, <2>5, WalkFinds
    <3> QED BY <2>1, <2>4, <3>1, Zenon
  <2>7. mem' = m
    <3>1. at[1] = t /\ at[2] = I3(v) /\ PteOf(0) = 0
      BY <2>6 DEF PteOf
    <3> HIDE DEF at, t
    <3> QED BY <2>1, <3>1, Zenon DEF Write
  <2>8. Owner(Append(free, d[v]), frames, [data_frames EXCEPT ![s][v] = 0], {})
    BY <2>1, <2>2, ReturnPage, Zenon
  <2>9. [data_frames EXCEPT ![s][v] = 0] = D /\ frames = T
    BY <2>2, Zenon DEF Owner
  <2>10. Owner(Append(free, d[v]), T, D, {})
    BY <2>8, <2>9, Zenon
  <2>11. Live(m, q, e)
    <3>1. Tree(m, q, a, b, [LeafOf(d) EXCEPT ![v] = 0])
      <4> HIDE DEF q, d
      <4> QED BY <2>2, <2>4, <2>5, <2>6, FrameType, TreeLeaf, Zenon
    <3>2. Tree(m, q, a, b, LeafOf(e))
      BY <2>4, <3>1, Zenon
    <3> HIDE DEF m, q, e, d
    <3> QED BY <2>1, <3>2, Zenon DEF Live
  <2>12. Memory(m) /\ \A g \in Frame : g # t => m[g] = mem[g]
    <3>1. I3(v) \in Cells
      BY <2>4, IndexType, IdxCells, Zenon
    <3> HIDE DEF t
    <3> QED BY <2>2, <2>6, <3>1, WriteCell
  <2>13. \A g \in Frame, z \in Space \ {s} : Contains(frames[z], g) => m[g] = mem[g]
    <3>1. Placed(t, free, frames, data_frames, {})
      BY <2>2, <2>6, Zenon DEF Owner
    <3>2. \A z \in Space \ {s} : ~Contains(frames[z], t)
      BY <2>6, <3>1, Zenon DEF Placed
    <3> HIDE DEF t, m
    <3> QED BY <2>12, <3>2, Zenon
  <2>14. root_ppn' = [root_ppn EXCEPT ![s] = r]
    BY <2>1, Zenon DEF PageInv
  <2>15. frames' = T /\ data_frames' = D
    BY <2>1, <2>9, Zenon
  <2> HIDE DEF m, q, e, d, r
  <2> QED BY <2>1, <2>3, <2>7, <2>10, <2>11, <2>12, <2>13, <2>14, <2>15, StepOn, Zenon
<1> QED BY <1>1, <1>2, Zenon

\* The frames of the pages of a space, once each.
LEMMA PageFramesAll ==
  ASSUME PageInv, NEW s \in Space
  PROVE  /\ PageFrames(s) \in Seq(Frame) /\ IsInjective(PageFrames(s))
         /\ \A f \in Frame : Contains(PageFrames(s), f) <=> \E v \in Pages : data_frames[s][v] = f
<1> DEFINE d == data_frames[s]
          n == Fan * Fan * Fan
          X == Seq(Frame)
          held(v) == v \in Pages /\ d[v] # 0
          Go(q, k) == IF held(k - 1) THEN Append(q, d[k - 1]) ELSE q
          L == CHOOSE l : l = [k \in 0..n |-> IF k = 0 THEN <<>>
                                 ELSE IF held(k - 1) THEN Append(l[k - 1], d[k - 1])
                                 ELSE l[k - 1]]
<1>1. PageFrames(s) = L[n]
  BY Zenon DEF PageFrames
<1>2. d \in [Pages -> 0..NFrames]
  BY Zenon DEF PageInv, Owner
<1>3. n \in Nat /\ Pages \subseteq 0..(n - 1)
  <2>1. n \in Nat
    BY FanType
  <2> QED BY <2>1, PageTableAssumption, Zenon
<1>4. ASSUME NEW v \in Pages, NEW w \in Pages, d[v] = d[w], d[v] # 0 PROVE v = w
  <2>1. d[v] \in Frame
    BY <1>2, <1>4, FrameType, Zenon
  <2>2. Placed(d[v], free, frames, data_frames, {})
    BY <2>1, Zenon DEF PageInv, Owner
  <2> QED BY <1>4, <2>2, Zenon DEF Placed
<1> HIDE DEF d, n
<1>5. \A q \in X, k \in 1..n : Go(q, k) \in X
  <2> SUFFICES ASSUME NEW q \in X, NEW k \in 1..n, held(k - 1) PROVE Append(q, d[k - 1]) \in X
    BY Zenon
  <2>1. d[k - 1] \in Frame
    BY <1>2, FrameType, Zenon
  <2> QED BY <2>1, SeqAppend, Zenon
<1>6. <<>> \in X
  OBVIOUS
<1> HIDE DEF X, Go
<1>7. \E l : l = [k \in 0..n |-> IF k = 0 THEN <<>> ELSE Go(l[k - 1], k)]
  <2> DEFINE g == [k \in 1..n |-> [q \in X |-> Go(q, k)]]
            x == <<>>
  <2>1. Steps(n, X, x, g)
    BY <1>3, <1>5, <1>6, Zenon DEF Steps
  <2>2. PICK h : Unrolls(n, X, x, g, h)
    <3> HIDE DEF g, x
    <3> QED BY <2>1, Recursion, Zenon
  <2>3. ASSUME NEW k \in 1..n PROVE h[k] = Go(h[k - 1], k)
    <3>1. k - 1 \in 0..n
      BY <1>3
    <3>2. h[k - 1] \in X /\ h[k] = g[k][h[k - 1]]
      BY <2>2, <3>1, Zenon DEF Unrolls
    <3> QED BY <3>2, Zenon
  <2>4. h \in [0..n -> X] /\ h[0] = x
    BY <2>2, Zenon DEF Unrolls
  <2> HIDE DEF g, x
  <2>5. ASSUME NEW k \in 0..n PROVE h[k] = IF k = 0 THEN x ELSE Go(h[k - 1], k)
    BY <1>3, <2>3, <2>4
  <2>6. h = [k \in 0..n |-> IF k = 0 THEN x ELSE Go(h[k - 1], k)]
    BY <2>4, <2>5, Zenon
  <2> QED BY <2>6, Zenon DEF x
<1>8. L = [k \in 0..n |-> IF k = 0 THEN <<>> ELSE Go(L[k - 1], k)]
  BY <1>7, Zenon DEF Go
<1> HIDE DEF L
<1>9. L[0] = <<>> /\ n \in 0..n /\ \A k \in 1..n : L[k] = Go(L[k - 1], k)
  BY <1>3, <1>8
<1>10. \A k \in 0..n : L[k] \in X
  BY <1>3, <1>5, <1>6, <1>9, Closed, Zenon
<1> DEFINE Good(k) == /\ IsInjective(L[k])
                      /\ \A f : Contains(L[k], f) <=> \E v \in Pages : v < k /\ held(v) /\ d[v] = f
          S == {k \in Nat : k <= n => Good(k)}
<1>11. 0 \in S
  <2>1. \A v \in Pages : ~(v < 0)
    BY <1>3
  <2>2. IsInjective(<<>>) /\ \A f : ~Contains(<<>>, f)
    BY DEF IsInjective, Contains
  <2>3. Good(0)
    BY <1>9, <2>1, <2>2, Zenon
  <2> HIDE DEF Good
  <2> QED BY <2>3, Zenon
<1>12. ASSUME NEW k \in Nat, k \in S PROVE k + 1 \in S
  <2> SUFFICES ASSUME k + 1 <= n PROVE Good(k + 1)
    <3> HIDE DEF Good
    <3> QED OBVIOUS
  <2>1. k \in 0..n /\ k + 1 \in 1..n /\ (k + 1) - 1 = k
    BY <1>3
  <2>2. Good(k)
    <3> HIDE DEF Good
    <3> QED BY <1>12, <2>1
  <2>3. L[k + 1] = Go(L[k], k + 1)
    BY <1>9, <2>1, Zenon
  <2>4. L[k] \in Seq(Frame)
    BY <1>10, <2>1, Zenon DEF X
  <2>5. \A v \in Pages : v < k + 1 <=> v < k \/ v = k
    BY <1>3
  <2>6. CASE held(k)
    <3>1. L[k + 1] = Append(L[k], d[k])
      BY <2>1, <2>3, <2>6, Zenon DEF Go
    <3>2. d[k] \in Frame
      BY <1>2, <2>6, FrameType, Zenon
    <3>3. ~Contains(L[k], d[k])
      <4> SUFFICES ASSUME NEW v \in Pages, v < k, d[v] = d[k] PROVE FALSE
        BY <2>2, Zenon
      <4>1. v = k
        BY <1>4, <2>6, Zenon
      <4> QED BY <4>1
    <3>4. /\ \A f : Contains(L[k + 1], f) <=> Contains(L[k], f) \/ f = d[k]
          /\ IsInjective(L[k + 1])
      <4>1. /\ \A f : Contains(Append(L[k], d[k]), f) <=> Contains(L[k], f) \/ f = d[k]
            /\ IsInjective(L[k]) /\ ~Contains(L[k], d[k]) => IsInjective(Append(L[k], d[k]))
        BY <2>4, <3>2, AppendMembers, Zenon
      <4>2. IsInjective(L[k])
        BY <2>2, Zenon
      <4> QED BY <3>1, <3>3, <4>1, <4>2, Zenon
    <3> QED BY <2>2, <2>5, <2>6, <3>4, Zenon
  <2>7. CASE ~held(k)
    <3>1. L[k + 1] = L[k]
      BY <2>1, <2>3, <2>7, Zenon DEF Go
    <3> QED BY <2>2, <2>5, <2>7, <3>1, Zenon
  <2> QED BY <2>6, <2>7, Zenon
<1>13. Good(n)
  <2>1. Nat \subseteq S
    <3> HIDE DEF S
    <3> QED BY <1>11, <1>12, Induction, Zenon
  <2> HIDE DEF Good
  <2> QED BY <1>3, <2>1
<1>14. \A v \in Pages : v < n
  BY <1>3
<1>15. ASSUME NEW f \in Frame PROVE Contains(L[n], f) <=> \E v \in Pages : d[v] = f
  BY <1>13, <1>14, FrameType, Zenon
<1> QED BY <1>1, <1>9, <1>10, <1>13, <1>15, Zenon DEF d, X

\* Drop of a MemorySet gives everything back.
LEMMA DropStep ==
  ASSUME PageInv, NEW s \in Space, drop(s)
  PROVE  PageInv'
<1> DEFINE q == PageFrames(s)
          none == [v \in Pages |-> 0]
          T == [frames EXCEPT ![s] = <<>>]
          D == [data_frames EXCEPT ![s] = none]
          fr == free \o frames[s] \o q
<1>1. Owner(free, frames, data_frames, {}) /\ Memory(mem)
  BY Zenon DEF PageInv
<1>2. Owner(fr, T, D, {})
  <2>1. /\ q \in Seq(Frame) /\ IsInjective(q)
        /\ \A f \in Frame : Contains(q, f) <=> \E v \in Pages : data_frames[s][v] = f
    BY PageFramesAll, Zenon
  <2> HIDE DEF q
  <2> QED BY <1>1, <2>1, ReturnSpace, Zenon
<1>3. Live(mem, <<>>, none)
  BY Zenon DEF Live
<1>4. /\ mem' = mem /\ free' = fr /\ frames' = T /\ data_frames' = D
      /\ root_ppn' = [root_ppn EXCEPT ![s] = 0] /\ 0 \in 0..NFrames
  BY FrameType, Zenon DEF drop
<1>5. \A g \in Frame, z \in Space \ {s} : Contains(frames[z], g) => mem[g] = mem[g]
  BY Zenon
<1> HIDE DEF fr, none
<1> QED BY <1>1, <1>2, <1>3, <1>4, <1>5, StepOn, Zenon

-----------------------------------------------------------------------------
(* The walk of find_pte_create *)

\* Between two levels: memory m, the free list fr and the tables q of s so far,
\* with the frames of P taken.
Walk(m, fr, q, s, P, a, b) ==
  /\ Memory(m)
  /\ Owner(fr, [frames EXCEPT ![s] = q], data_frames, P)
  /\ Tree(m, q, a, b, LeafOf(data_frames[s]))
  /\ \A f \in Frame, z \in Space \ {s} : Contains(frames[z], f) => m[f] = mem[f]

\* What a walk owns: no other space has a table of s or a free frame.
LEMMA WalkApart ==
  ASSUME PageInv, NEW s \in Space, NEW m, NEW fr, NEW q, NEW P, NEW a, NEW b,
         Walk(m, fr, q, s, P, a, b), NEW f \in Frame
  PROVE  /\ Contains(q, f) => \A z \in Space \ {s} : ~Contains(frames[z], f)
         /\ Contains(fr, f) => ~Contains(q, f) /\ \A z \in Space \ {s} : ~Contains(frames[z], f)
         /\ [frames EXCEPT ![s] = q][s] = q
<1> DEFINE T == [frames EXCEPT ![s] = q]
<1>1. frames \in [Space -> Seq(Frame)]
  BY Zenon DEF PageInv, Owner
<1>2. T[s] = q /\ \A z \in Space \ {s} : T[z] = frames[z]
  BY <1>1, Zenon
<1>3. Placed(f, fr, T, data_frames, P)
  BY Zenon DEF Walk, Owner
<1> HIDE DEF T
<1>4. ASSUME Contains(q, f), NEW z \in Space \ {s}, Contains(frames[z], f) PROVE FALSE
  <2>1. Contains(T[s], f) /\ Contains(T[z], f) /\ z \in Space /\ z # s
    BY <1>2, <1>4, Zenon
  <2> QED BY <1>3, <2>1, Zenon DEF Placed
<1>5. ASSUME Contains(fr, f) PROVE ~Contains(q, f) /\ \A z \in Space \ {s} : ~Contains(frames[z], f)
  <2>1. \A z \in Space : ~Contains(T[z], f)
    BY <1>3, <1>5, Zenon DEF Placed
  <2> QED BY <1>2, <2>1, Zenon
<1> QED BY <1>2, <1>4, <1>5, Zenon DEF T

\* frame_alloc on the way.
LEMMA WalkAlloc ==
  ASSUME PageInv, NEW s \in Space, NEW m, NEW fr, NEW q, NEW P, NEW a, NEW b,
         Walk(m, fr, q, s, P, a, b), fr # <<>>
  PROVE  LET f == Last(fr)
             n == Clear(m, f)
         IN /\ Walk(n, Front(fr), q, s, P \union {f}, a, b)
            /\ f \in Frame \ P /\ ~Contains(q, f)
            /\ \A z \in Space \ {s} : ~Contains(frames[z], f)
            /\ \A c \in Cells : n[f][c] = 0
            /\ Len(fr) \in Nat \ {0} /\ Len(Front(fr)) = Len(fr) - 1
<1> DEFINE f == Last(fr)
          n == Clear(m, f)
          T == [frames EXCEPT ![s] = q]
<1>1. /\ Memory(m) /\ Owner(fr, T, data_frames, P) /\ Tree(m, q, a, b, LeafOf(data_frames[s]))
      /\ \A g \in Frame, z \in Space \ {s} : Contains(frames[z], g) => m[g] = mem[g]
  BY Zenon DEF Walk
<1> HIDE DEF T
<1>2. /\ Owner(Front(fr), T, data_frames, P \union {f})
      /\ f \in Frame \ P /\ Contains(fr, f)
      /\ Len(fr) \in Nat \ {0} /\ Len(Front(fr)) = Len(fr) - 1
  BY <1>1, TakeFrame, Zenon
<1> HIDE DEF f
<1>3. ~Contains(q, f) /\ \A z \in Space \ {s} : ~Contains(frames[z], f)
  BY <1>2, WalkApart, Zenon
<1>4. Memory(n) /\ (\A c \in Cells : n[f][c] = 0) /\ \A g \in Frame : g # f => n[g] = m[g]
  BY <1>1, <1>2, ClearFrame, Zenon
<1> HIDE DEF n
<1>5. Tree(n, q, a, b, LeafOf(data_frames[s]))
  BY <1>1, <1>3, <1>4, TreeSame, Zenon
<1>6. \A g \in Frame, z \in Space \ {s} : Contains(frames[z], g) => n[g] = mem[g]
  BY <1>1, <1>3, <1>4, Zenon
<1>7. Walk(n, Front(fr), q, s, P \union {f}, a, b)
  BY <1>2, <1>4, <1>5, <1>6, Zenon DEF Walk, T
<1> QED BY <1>2, <1>3, <1>4, <1>7, Zenon DEF f, n

\* One level of find_pte_create, in terms of the parts of the state.
State(m, fr, q) == [mem |-> m, free |-> fr, frames |-> q]

\* What one level of find_pte_create does to memory, free list and tables.
LEMMA DescendIs ==
  ASSUME NEW m, Memory(m), NEW fr, NEW q, NEW t \in Frame, NEW i \in Cells
  PROVE  Descend(State(m, fr, q), t, i) =
           IF is_valid(m[t][i]) THEN State(m, fr, q)
           ELSE State(Write(Clear(m, Last(fr)), t, i, Pte(Last(fr), V)),
                      Front(fr), Append(q, Last(fr)))
<1> DEFINE st == State(m, fr, q)
          f == Last(fr)
          s1 == Alloc(st)
<1>1. st.mem = m /\ st.free = fr /\ st.frames = q
  BY Zenon DEF State
<1>2. s1 = State(Clear(m, f), Front(fr), q)
  <2>1. s1 = [st EXCEPT !.free = Front(fr), !.mem[f] = ZeroFrame]
    BY <1>1, Zenon DEF Alloc
  <2>2. [st EXCEPT !.free = Front(fr), !.mem[f] = ZeroFrame]
          = [[st EXCEPT !.free = Front(fr)] EXCEPT !.mem[f] = ZeroFrame]
    BY Zenon DEF State
  <2>3. [st EXCEPT !.free = Front(fr)] = State(m, Front(fr), q)
    BY DEF State
  <2>4. [State(m, Front(fr), q) EXCEPT !.mem[f] = ZeroFrame] = State(Clear(m, f), Front(fr), q)
    BY DEF State, Clear
  <2> QED BY <2>1, <2>2, <2>3, <2>4, Zenon
<1>3. Descend(st, t, i) = IF is_valid(st.mem[t][i]) THEN st
                          ELSE [s1 EXCEPT !.mem[t][i] = Pte(Last(st.free), V), !.frames = Append(@, Last(st.free))]
  BY Zenon DEF Descend
<1> HIDE DEF st, f, s1
<1>4. [s1 EXCEPT !.mem[t][i] = Pte(f, V), !.frames = Append(@, f)]
        = State(Write(Clear(m, f), t, i, Pte(f, V)), Front(fr), Append(q, f))
  <2> DEFINE n == Clear(m, f)
            g == Front(fr)
            x == Pte(f, V)
            p == Append(q, f)
  <2> HIDE DEF n, g, x
  <2>1. s1 = State(n, g, q) /\ s1.frames = q
    BY <1>2, Zenon DEF n, g, State
  <2>2. [s1 EXCEPT !.mem[t][i] = x, !.frames = Append(@, f)] = [[s1 EXCEPT !.mem[t][i] = x] EXCEPT !.frames = p]
    BY <2>1, Zenon DEF State
  <2>3. [s1 EXCEPT !.mem[t][i] = x] = State(Write(n, t, i, x), g, q)
    BY <2>1 DEF State, Write
  <2>4. [State(Write(n, t, i, x), g, q) EXCEPT !.frames = p] = State(Write(n, t, i, x), g, p)
    BY DEF State
  <2>5. [s1 EXCEPT !.mem[t][i] = x, !.frames = Append(@, f)] = State(Write(n, t, i, x), g, p)
    BY <2>2, <2>3, <2>4, Zenon
  <2> QED BY <2>5, Zenon DEF n, g, x
<1> QED BY <1>1, <1>3, <1>4, Zenon DEF st, f

\* A frame f that was taken becomes a table, by a store to a table t.
LEMMA WalkTable ==
  ASSUME PageInv, NEW s \in Space, NEW m, NEW fr, NEW q, NEW P, NEW a, NEW b, NEW f,
         Walk(m, fr, q, s, P \union {f}, a, b), f \in Frame \ P,
         NEW t \in Frame, Contains(q, t), NEW i \in Cells, NEW x, NEW n, n = Write(m, t, i, x),
         NEW c, NEW e, Tree(n, Append(q, f), c, e, LeafOf(data_frames[s]))
  PROVE  Walk(n, fr, Append(q, f), s, P, c, e)
<1> DEFINE T == [frames EXCEPT ![s] = q]
          p == Append(q, f)
<1>1. /\ Memory(m) /\ Owner(fr, T, data_frames, P \union {f})
      /\ \A g \in Frame, z \in Space \ {s} : Contains(frames[z], g) => m[g] = mem[g]
  BY Zenon DEF Walk
<1>2. Memory(n) /\ \A g \in Frame : g # t => n[g] = m[g]
  BY <1>1, WriteAt
<1>3. frames \in [Space -> Seq(Frame)]
  BY Zenon DEF PageInv, Owner
<1>4. T[s] = q /\ [T EXCEPT ![s] = p] = [frames EXCEPT ![s] = p]
  <2> HIDE DEF p
  <2> QED BY <1>3, Zenon
<1>5. Owner(fr, [T EXCEPT ![s] = Append(T[s], f)], data_frames, (P \union {f}) \ {f})
  <2> HIDE DEF T
  <2> QED BY <1>1, GiveTable, Zenon
<1>6. (P \union {f}) \ {f} = P
  BY Zenon
<1>7. Owner(fr, [frames EXCEPT ![s] = p], data_frames, P)
  <2> HIDE DEF T
  <2> QED BY <1>4, <1>5, <1>6, Zenon
<1>8. \A g \in Frame, z \in Space \ {s} : Contains(frames[z], g) => n[g] = mem[g]
  <2>1. \A z \in Space \ {s} : ~Contains(frames[z], t)
    BY WalkApart, Zenon
  <2> QED BY <1>1, <1>2, <2>1, Zenon
<1> QED BY <1>2, <1>7, <1>8, Zenon DEF Walk

\* The step of find_pte_create at the root finds or makes a middle table.
AtMiddle(m, fr, q, s, P, a, b, i) ==
  \E n, g, p, c :
    /\ Descend(State(m, fr, q), q[1], i) = State(n, g, p)
    /\ Walk(n, g, p, s, P, c, b) /\ p[1] = q[1]
    /\ c[i] # 0 /\ ppn_of(n[q[1]][i]) = c[i]
    /\ Len(g) = IF a[i] = 0 THEN Len(fr) - 1 ELSE Len(fr)

\* The step at a middle table finds or makes the table of the leaf.
AtLeaf(m, fr, q, s, P, a, i, j) ==
  \E n, g, p, c :
    /\ Descend(State(m, fr, q), a[i], j) = State(n, g, p)
    /\ Walk(n, g, p, s, P, a, c) /\ p[1] = q[1]
    /\ c[i][j] # 0 /\ ppn_of(n[a[i]][j]) = c[i][j]

\* The first level of find_pte_create.
LEMMA DescendTop ==
  ASSUME PageInv, NEW s \in Space, NEW m, NEW fr, NEW q, NEW P, NEW a, NEW b,
         Walk(m, fr, q, s, P, a, b), NEW i \in Idx, a[i] = 0 => fr # <<>>
  PROVE  AtMiddle(m, fr, q, s, P, a, b, i)
<1> DEFINE leaf == LeafOf(data_frames[s])
<1>1. Memory(m) /\ Tree(m, q, a, b, leaf)
  BY Zenon DEF Walk
<1>2. TreeType(q, a, b, leaf) /\ TopLevel(m, q, a)
  BY <1>1, Zenon DEF Tree
<1>3. q[1] \in Frame /\ Contains(q, q[1]) /\ q \in Seq(Frame) /\ q # <<>>
  BY <1>2, RootType, Zenon DEF TreeType
<1>4. a[i] \in 0..NFrames /\ m[q[1]][i] = PteOf(a[i]) /\ i \in Cells
  BY <1>2, IdxCells, Zenon DEF TreeType, TopLevel
<1>5. (is_valid(m[q[1]][i]) <=> a[i] # 0) /\ ppn_of(m[q[1]][i]) = a[i]
  BY <1>4, EntryOf, Zenon
<1>6. CASE a[i] # 0
  <2>1. Descend(State(m, fr, q), q[1], i) = State(m, fr, q)
    BY <1>1, <1>3, <1>4, <1>5, <1>6, DescendIs, SMTT(30)
  <2> QED BY <1>5, <1>6, <2>1, Zenon DEF AtMiddle
<1>7. CASE a[i] = 0
  <2> DEFINE f == Last(fr)
            k == Clear(m, f)
            n == Write(k, q[1], i, Pte(f, V))
            g == Front(fr)
            p == Append(q, f)
            c == [a EXCEPT ![i] = f]
  <2>1. Descend(State(m, fr, q), q[1], i) = State(n, g, p)
    BY <1>1, <1>3, <1>4, <1>5, <1>7, DescendIs, Zenon
  <2>2. /\ Walk(k, g, q, s, P \union {f}, a, b)
        /\ f \in Frame \ P /\ ~Contains(q, f)
        /\ \A o \in Cells : k[f][o] = 0
        /\ Len(g) = Len(fr) - 1
    BY <1>7, WalkAlloc, Zenon
  <2> HIDE DEF f, k, g
  <2>3. Memory(k) /\ Tree(k, q, a, b, leaf)
    BY <2>2, Zenon DEF Walk
  <2> HIDE DEF leaf, n
  <2>4. Tree(n, p, c, b, leaf)
    <3>1. n = Write(k, q[1], i, Pte(f, V))
      BY Zenon DEF n
    <3> QED BY <1>7, <2>2, <2>3, <3>1, TreeRoot, Zenon
  <2>5. Walk(n, g, p, s, P, c, b)
    BY <1>3, <1>4, <2>2, <2>4, WalkTable, Zenon DEF n, leaf
  <2>6. p[1] = q[1]
    BY <1>3, <2>2, GrownTables, Zenon
  <2>7. c[i] = f
    BY <1>2, Zenon DEF TreeType
  <2>8. f # 0 /\ ppn_of(n[q[1]][i]) = f
    <3>1. n[q[1]][i] = Pte(f, V)
      BY <1>3, <1>4, <2>3, WriteCell DEF n
    <3>2. f \in 0..NFrames /\ f # 0
      BY <2>2, FrameType, Zenon
    <3> QED BY <3>1, <3>2, EntryOf, Zenon
  <2> HIDE DEF c, p
  <2> QED BY <1>7, <2>1, <2>2, <2>5, <2>6, <2>7, <2>8, Zenon DEF AtMiddle
<1> QED BY <1>6, <1>7, Zenon

\* The second level.
LEMMA DescendMiddle ==
  ASSUME PageInv, NEW s \in Space, NEW m, NEW fr, NEW q, NEW P, NEW a, NEW b,
         Walk(m, fr, q, s, P, a, b), NEW i \in Idx, NEW j \in Idx, a[i] # 0,
         b[i][j] = 0 => fr # <<>>
  PROVE  AtLeaf(m, fr, q, s, P, a, i, j)
<1> DEFINE leaf == LeafOf(data_frames[s])
<1>1. Memory(m) /\ Tree(m, q, a, b, leaf)
  BY Zenon DEF Walk
<1>2. TreeType(q, a, b, leaf) /\ TopLevel(m, q, a) /\ MidLevel(m, q, a, b)
  BY <1>1, Zenon DEF Tree
<1>3. a[i] \in Frame /\ Contains(q, a[i]) /\ q \in Seq(Frame) /\ q # <<>>
  BY <1>2, ContainsTyped, Zenon DEF TreeType, TopLevel
<1>4. b[i][j] \in 0..NFrames /\ m[a[i]][j] = PteOf(b[i][j]) /\ j \in Cells
  <2>1. b[i][j] \in 0..NFrames
    BY <1>2, Zenon DEF TreeType
  <2> QED BY <1>2, <2>1, IdxCells, Zenon DEF MidLevel
<1>5. (is_valid(m[a[i]][j]) <=> b[i][j] # 0) /\ ppn_of(m[a[i]][j]) = b[i][j]
  BY <1>4, EntryOf, Zenon
<1>6. CASE b[i][j] # 0
  <2>1. Descend(State(m, fr, q), a[i], j) = State(m, fr, q)
    BY <1>1, <1>3, <1>4, <1>5, <1>6, DescendIs, SMTT(30)
  <2> QED BY <1>5, <1>6, <2>1, Zenon DEF AtLeaf
<1>7. CASE b[i][j] = 0
  <2> DEFINE f == Last(fr)
            k == Clear(m, f)
            n == Write(k, a[i], j, Pte(f, V))
            g == Front(fr)
            p == Append(q, f)
            c == [b EXCEPT ![i][j] = f]
  <2>1. Descend(State(m, fr, q), a[i], j) = State(n, g, p)
    BY <1>1, <1>3, <1>4, <1>5, <1>7, DescendIs, Zenon
  <2>2. /\ Walk(k, g, q, s, P \union {f}, a, b)
        /\ f \in Frame \ P /\ ~Contains(q, f)
        /\ \A o \in Cells : k[f][o] = 0
    BY <1>7, WalkAlloc, Zenon
  <2> HIDE DEF f, k, g
  <2>3. Memory(k) /\ Tree(k, q, a, b, leaf)
    BY <2>2, Zenon DEF Walk
  <2> HIDE DEF leaf, n
  <2>4. Tree(n, p, a, c, leaf)
    <3>1. n = Write(k, a[i], j, Pte(f, V))
      BY Zenon DEF n
    <3> QED BY <1>7, <2>2, <2>3, <3>1, TreeMiddle, Zenon
  <2>5. Walk(n, g, p, s, P, a, c)
    BY <1>3, <1>4, <2>2, <2>4, WalkTable, Zenon DEF n, leaf
  <2>6. p[1] = q[1]
    BY <1>3, <2>2, GrownTables, Zenon
  <2>7. c[i][j] = f
    <3>1. b \in [Idx -> [Idx -> 0..NFrames]]
      BY <1>2, Zenon DEF TreeType
    <3> QED BY <3>1, Zenon
  <2>8. f # 0 /\ ppn_of(n[a[i]][j]) = f
    <3>1. n[a[i]][j] = Pte(f, V)
      BY <1>3, <1>4, <2>3, WriteCell DEF n
    <3>2. f \in 0..NFrames /\ f # 0
      BY <2>2, FrameType, Zenon
    <3> QED BY <3>1, <3>2, EntryOf, Zenon
  <2> HIDE DEF c, p
  <2> QED BY <2>1, <2>5, <2>6, <2>7, <2>8, Zenon DEF AtLeaf
<1> QED BY <1>6, <1>7, Zenon

\* There are frames for the tables that are missing, and the walk ends in a
\* table of the space.
Enough(fr, a, b, v) ==
  Len(fr) >= IF a[I1(v)] = 0 THEN 2 ELSE IF b[I1(v)][I2(v)] = 0 THEN 1 ELSE 0
Reaches(m, fr, q, s, P, v) ==
  \E n, g, p, c, e :
    /\ find_pte_create(State(m, fr, q), q[1], v)
         = [st |-> State(n, g, p), ppn |-> e[I1(v)][I2(v)], idx |-> I3(v)]
    /\ Walk(n, g, p, s, P, c, e) /\ p[1] = q[1]
    /\ e[I1(v)][I2(v)] # 0

\* The whole walk, after the frame of the page was taken.
LEMMA WalkDown ==
  ASSUME PageInv, NEW s \in Space, NEW m, NEW fr, NEW q, NEW P, NEW a, NEW b,
         Walk(m, fr, q, s, P, a, b), NEW v \in Vpn, Enough(fr, a, b, v)
  PROVE  Reaches(m, fr, q, s, P, v)
<1> DEFINE i == I1(v)
          j == I2(v)
<1>1. i \in Idx /\ j \in Idx
  BY IndexType, Zenon
<1>2. fr \in Seq(Frame) /\ Len(fr) \in Nat /\ (fr = <<>> <=> Len(fr) = 0)
  <2>1. fr \in Seq(Frame)
    BY Zenon DEF Walk, Owner
  <2> QED BY <2>1, SeqLen, SeqEmpty, Zenon
<1> HIDE DEF i, j
<1>3. Len(fr) >= IF a[i] = 0 THEN 2 ELSE IF b[i][j] = 0 THEN 1 ELSE 0
  BY Zenon DEF Enough, i, j
<1>4. a[i] = 0 => fr # <<>>
  BY <1>2, <1>3
<1>5. PICK n1, g1, p1, c :
           /\ Descend(State(m, fr, q), q[1], i) = State(n1, g1, p1)
           /\ Walk(n1, g1, p1, s, P, c, b) /\ p1[1] = q[1]
           /\ c[i] # 0 /\ ppn_of(n1[q[1]][i]) = c[i]
           /\ Len(g1) = IF a[i] = 0 THEN Len(fr) - 1 ELSE Len(fr)
  <2>1. AtMiddle(m, fr, q, s, P, a, b, i)
    BY <1>1, <1>4, DescendTop, Zenon
  <2> QED BY <2>1, Zenon DEF AtMiddle
<1>6. b[i][j] = 0 => g1 # <<>>
  <2>1. g1 \in Seq(Frame) /\ (g1 = <<>> <=> Len(g1) = 0)
    BY <1>5, SeqEmpty, Zenon DEF Walk, Owner
  <2>2. Len(g1) = IF a[i] = 0 THEN Len(fr) - 1 ELSE Len(fr)
    BY <1>5, Zenon
  <2>3. CASE a[i] = 0
    <3>1. Len(fr) >= 2 /\ Len(g1) = Len(fr) - 1
      BY <1>3, <2>2, <2>3, Zenon
    <3> QED BY <1>2, <2>1, <3>1
  <2>4. CASE a[i] # 0
    <3>1. b[i][j] = 0 => Len(fr) >= 1 /\ Len(g1) = Len(fr)
      BY <1>3, <2>2, <2>4, Zenon
    <3> QED BY <1>2, <2>1, <3>1
  <2> QED BY <2>3, <2>4, Zenon
<1>7. PICK n, g, p, e :
           /\ Descend(State(n1, g1, p1), c[i], j) = State(n, g, p)
           /\ Walk(n, g, p, s, P, c, e) /\ p[1] = p1[1]
           /\ e[i][j] # 0 /\ ppn_of(n[c[i]][j]) = e[i][j]
  <2>1. AtLeaf(n1, g1, p1, s, P, c, i, j)
    BY <1>1, <1>5, <1>6, DescendMiddle, Zenon
  <2> QED BY <2>1, Zenon DEF AtLeaf
<1>8. find_pte_create(State(m, fr, q), q[1], v)
        = [st |-> State(n, g, p), ppn |-> e[i][j], idx |-> I3(v)]
  <2>1. indexes(v)[1] = i /\ indexes(v)[2] = j /\ indexes(v)[3] = I3(v)
    BY Zenon DEF i, j, I1, I2, I3
  <2>2. State(n1, g1, p1).mem = n1 /\ State(n, g, p).mem = n
    BY Zenon DEF State
  <2> QED BY <1>5, <1>7, <2>1, <2>2, Zenon DEF find_pte_create
<1> QED BY <1>5, <1>7, <1>8, Zenon DEF Reaches, i, j

\* MapArea::map_one adds the leaf of the new page.
LEMMA MapStep ==
  ASSUME PageInv, NEW s \in Space, NEW v \in Pages, map_one(s, v)
  PROVE  PageInv'
<1> DEFINE r == root_ppn[s]
          q == frames[s]
          d == data_frames[s]
          f == Last(free)
          st == Alloc([mem |-> mem, free |-> free, frames |-> q])
          at == find_pte_create(st, r, v)
<1>1. CASE \E why \in {"frame_alloc", "map"} : Halt(why)
  BY <1>1, SameTables, Zenon DEF Halt
<1>2. CASE ~\E why \in {"frame_alloc", "map"} : Halt(why)
  <2>1. /\ q # <<>> /\ ~(Len(free) < 1 + TablesMissing(r, v))
        /\ ~is_valid(at.st.mem[at.ppn][at.idx])
        /\ mem' = [at.st.mem EXCEPT ![at.ppn][at.idx] = Pte(f, V)]
        /\ free' = at.st.free
        /\ frames' = [frames EXCEPT ![s] = at.st.frames]
        /\ data_frames' = [data_frames EXCEPT ![s][v] = f]
        /\ UNCHANGED root_ppn
    <3> HIDE DEF at, f
    <3> QED BY <1>2, Zenon DEF map_one, at, f
  <2>2. Memory(mem) /\ Owner(free, frames, data_frames, {}) /\ r = q[1] /\ r \in 0..NFrames
        /\ root_ppn = [root_ppn EXCEPT ![s] = r]
    BY <2>1, Zenon DEF PageInv
  <2>3. d \in [Pages -> 0..NFrames] /\ frames = [frames EXCEPT ![s] = q] /\ free \in Seq(Frame)
    BY <2>2, Zenon DEF Owner
  <2>4. v \in Vpn /\ LeafOf(d)[v] = d[v]
    <3> HIDE DEF d
    <3> QED BY <2>3, FrameType, LeafChange, Zenon
  <2>5. PICK a, b : Tree(mem, q, a, b, LeafOf(d))
    BY <2>1, Zenon DEF PageInv, Live
  <2>6. Walk(mem, free, q, s, {}, a, b)
    BY <2>2, <2>3, <2>5, Zenon DEF Walk
  <2>7. TablesMissing(r, v) = IF a[I1(v)] = 0 THEN 2 ELSE IF b[I1(v)][I2(v)] = 0 THEN 1 ELSE 0
    <3> HIDE DEF r, q, d
    <3> QED BY <2>2, <2>4, <2>5, WalkFinds, SMTT(30)
  <2>8. free # <<>>
    <3> HIDE DEF r
    <3>1. Len(free) \in Nat /\ (free = <<>> <=> Len(free) = 0)
      BY <2>3, SeqLen, SeqEmpty, Zenon
    <3>2. ~(Len(free) < 1 + TablesMissing(r, v))
      BY <2>1, Zenon
    <3>3. TablesMissing(r, v) \in Nat
      BY <2>7
    <3> QED BY <3>1, <3>2, <3>3
  <2> DEFINE k == Clear(mem, f)
            fr == Front(free)
            P == {} \union {f}
  <2>9. /\ Walk(k, fr, q, s, P, a, b) /\ f \in Frame
        /\ \A z \in Space \ {s} : ~Contains(frames[z], f)
        /\ Len(free) \in Nat \ {0} /\ Len(fr) = Len(free) - 1
    BY <2>6, <2>8, WalkAlloc, Zenon
  <2>10. st = State(k, fr, q)
    <3>1. st = [[mem |-> mem, free |-> free, frames |-> q] EXCEPT !.free = fr, !.mem[f] = ZeroFrame]
      BY Zenon DEF Alloc
    <3> HIDE DEF fr, f, q
    <3>2. [[mem |-> mem, free |-> free, frames |-> q] EXCEPT !.free = fr, !.mem[f] = ZeroFrame]
            = [[[mem |-> mem, free |-> free, frames |-> q] EXCEPT !.free = fr] EXCEPT !.mem[f] = ZeroFrame]
      BY Zenon
    <3>3. [[mem |-> mem, free |-> free, frames |-> q] EXCEPT !.free = fr] = State(mem, fr, q)
      BY DEF State
    <3>4. [State(mem, fr, q) EXCEPT !.mem[f] = ZeroFrame] = State(k, fr, q)
      BY DEF State, Clear
    <3> HIDE DEF st, k
    <3> QED BY <3>1, <3>2, <3>3, <3>4, Zenon
  <2> HIDE DEF k, fr, st
  <2>11. PICK n, g, p, c, e :
           /\ find_pte_create(State(k, fr, q), q[1], v)
                = [st |-> State(n, g, p), ppn |-> e[I1(v)][I2(v)], idx |-> I3(v)]
           /\ Walk(n, g, p, s, P, c, e) /\ p[1] = q[1]
           /\ e[I1(v)][I2(v)] # 0
    <3> HIDE DEF P, r, q, f
    <3>1. Enough(fr, a, b, v)
      <4> DEFINE t == TablesMissing(r, v)
      <4>1. t \in Nat
        BY <2>7
      <4> HIDE DEF t
      <4>2. Len(fr) >= t
        <5>1. ~(Len(free) < 1 + t) /\ Len(free) \in Nat /\ Len(fr) = Len(free) - 1
          BY <2>1, <2>9, Zenon DEF t
        <5> QED BY <4>1, <5>1
      <4> QED BY <2>7, <4>2, Zenon DEF Enough, t
    <3>2. Reaches(k, fr, q, s, P, v)
      BY <2>4, <2>9, <3>1, WalkDown, Zenon
    <3> QED BY <3>2, Zenon DEF Reaches
  <2> DEFINE t == e[I1(v)][I2(v)]
            w == Write(n, t, I3(v), PteOf(f))
            dn == [d EXCEPT ![v] = f]
            D == [data_frames EXCEPT ![s] = dn]
            T == [frames EXCEPT ![s] = p]
  <2>12. at.st.mem = n /\ at.st.free = g /\ at.st.frames = p /\ at.ppn = t /\ at.idx = I3(v)
    <3>1. at = [st |-> State(n, g, p), ppn |-> t, idx |-> I3(v)]
      BY <2>2, <2>10, <2>11, Zenon
    <3> HIDE DEF at, t
    <3> QED BY <3>1, Zenon DEF State
  <2> HIDE DEF at
  <2>13. f \in 0..NFrames /\ PteOf(f) = Pte(f, V)
    BY <2>9, FrameType, Zenon DEF PteOf
  <2>14. Memory(n) /\ Tree(n, p, c, e, LeafOf(d)) /\ Owner(g, T, data_frames, P)
    BY <2>11, Zenon DEF Walk
  <2>15. I3(v) \in Cells /\ t \in Frame /\ Contains(p, t) /\ n[t][I3(v)] = PteOf(LeafOf(d)[v])
    <3>1. TreeType(p, c, e, LeafOf(d)) /\ MidLevel(n, p, c, e) /\ LeafLevel(n, e, LeafOf(d))
      BY <2>14, Zenon DEF Tree
    <3>2. I1(v) \in Idx /\ I2(v) \in Idx /\ I3(v) \in Cells
      BY <2>4, IndexType, IdxCells, Zenon
    <3>3. Contains(p, t)
      BY <2>11, <3>1, <3>2, Zenon DEF MidLevel
    <3>4. t \in Frame
      BY <3>1, <3>3, ContainsTyped, Zenon DEF TreeType
    <3>5. n[t][I3(v)] = PteOf(LeafOf(d)[v])
      BY <2>4, <2>11, <3>1, Zenon DEF LeafLevel
    <3> QED BY <3>2, <3>3, <3>4, <3>5, Zenon
  <2>16. d[v] = 0
    <3>1. d[v] \in 0..NFrames
      BY <2>3, Zenon
    <3>2. ~is_valid(PteOf(d[v]))
      BY <2>1, <2>4, <2>12, <2>15, Zenon
    <3> QED BY <3>1, <3>2, EntryOf, Zenon
  <2>17. mem' = w
    BY <2>1, <2>12, <2>13, Zenon DEF Write
  <2>18. Tree(w, p, c, e, LeafOf(dn))
    <3> HIDE DEF d, t, f
    <3>1. Tree(w, p, c, e, [LeafOf(d) EXCEPT ![v] = f])
      BY <2>4, <2>11, <2>13, <2>14, TreeLeaf, Zenon DEF t
    <3>2. LeafOf(dn) = [LeafOf(d) EXCEPT ![v] = f]
      <4>1. d \in [Pages -> 0..NFrames] /\ f \in 0..NFrames
        BY <2>3, <2>13, Zenon
      <4> QED BY <4>1, LeafChange, Zenon
    <3> QED BY <3>1, <3>2, Zenon
  <2>19. Live(w, p, dn)
    <3>1. p # <<>>
      BY <2>14, Zenon DEF Tree, TreeType
    <3> HIDE DEF w, dn
    <3> QED BY <2>18, <3>1, Zenon DEF Live
  <2>20. [data_frames EXCEPT ![s][v] = f] = D
    <3>1. data_frames \in [Space -> [Pages -> 0..NFrames]]
      BY <2>2, Zenon DEF Owner
    <3> HIDE DEF f
    <3> QED BY <3>1, Zenon
  <2>21. Owner(g, T, D, {})
    <3> HIDE DEF T, f
    <3>1. f \in P /\ P \ {f} = {}
      BY Zenon
    <3> HIDE DEF P
    <3>2. Owner(g, T, [data_frames EXCEPT ![s][v] = f], P \ {f})
      BY <2>14, <2>16, <3>1, GivePage, Zenon
    <3> HIDE DEF D
    <3> QED BY <2>20, <3>1, <3>2, Zenon
  <2>22. Memory(w) /\ \A o \in Frame : o # t => w[o] = n[o]
    <3> HIDE DEF t
    <3> QED BY <2>14, <2>15, WriteCell, SMTT(30)
  <2>23. \A o \in Frame, z \in Space \ {s} : Contains(frames[z], o) => w[o] = mem[o]
    <3>1. \A o \in Frame, z \in Space \ {s} : Contains(frames[z], o) => n[o] = mem[o]
      BY <2>11, Zenon DEF Walk
    <3>2. \A z \in Space \ {s} : ~Contains(frames[z], t)
      <4> HIDE DEF t, P
      <4> QED BY <2>11, <2>15, WalkApart, Zenon
    <3> HIDE DEF w, t
    <3> QED BY <2>22, <3>1, <3>2, Zenon
  <2>24. frames' = T /\ data_frames' = D /\ free' = g
    BY <2>1, <2>12, <2>20, Zenon
  <2>25. p # <<>> => r = p[1]
    BY <2>2, <2>11, Zenon
  <2>26. root_ppn' = [root_ppn EXCEPT ![s] = r]
    BY <2>1, <2>2, Zenon
  <2> HIDE DEF w, dn, r
  <2> QED BY <2>2, <2>17, <2>19, <2>21, <2>22, <2>23, <2>24, <2>25, <2>26, StepOn, Zenon
<1> QED BY <1>1, <1>2, Zenon

-----------------------------------------------------------------------------
(* The slices of a user buffer *)

\* The frames of the pages of s, and what translated_byte_buffer may find.
Backing(s) == {data_frames[s][v] : v \in Pages}
Slice(F) == [ppn : F, from : Int, to : Int]
Found(s) == Backing(s) \union {-1, 0}
Progress(s) == [start : Int, v : Seq(Slice(Found(s)))]

\* Addresses are numbers below VaSize, and their pages have numbers.
LEMMA VaType ==
  ASSUME NEW n \in Int
  PROVE  /\ VaSize \in Nat \ {0} /\ VirtAddr(n) \in 0..(VaSize - 1)
         /\ floor(VirtAddr(n)) \in Vpn
         /\ page_offset(n) \in Int /\ page_offset(VirtAddr(n)) \in Int
         /\ usize(n) \in Int /\ slice_end(n) \in Int
<1> DEFINE cube == Fan * Fan * Fan
          a == VirtAddr(n)
<1>1. Fan \in Nat \ {0} /\ PAGE_SIZE \in Nat \ {0} /\ UsizeMod \in Nat
  BY FanType, PageTableAssumption, Zenon
<1>2. cube \in Nat \ {0}
  <2>1. Fan * Fan \in Nat \ {0}
    BY <1>1
  <2> QED BY <1>1, <2>1
<1>3. Vpn = 0..(cube - 1) /\ VaSize = cube * PAGE_SIZE
  BY Zenon DEF Vpn, VaSize
<1> HIDE DEF cube
<1>4. VaSize \in Nat \ {0} /\ VaSize = PAGE_SIZE * cube
  BY <1>1, <1>2, <1>3
<1>5. a \in 0..(VaSize - 1)
  BY <1>4 DEF VirtAddr
<1> HIDE DEF a
<1>6. a \in Nat /\ a < PAGE_SIZE * cube
  <2>1. a \in Nat /\ a < VaSize
    BY <1>4, <1>5
  <2> QED BY <1>4, <2>1, Zenon
<1>7. a \div PAGE_SIZE \in Nat /\ a \div PAGE_SIZE < cube
  BY <1>1, <1>2, <1>6, DivMod, DivBound, Zenon
<1>8. floor(a) \in Vpn
  BY <1>2, <1>3, <1>7 DEF floor
<1>9. page_offset(n) \in Int /\ page_offset(a) \in Int
  BY <1>1, <1>6 DEF page_offset
<1>10. usize(n) \in Int
  BY <1>1, <1>4 DEF usize
<1>11. slice_end(n) \in Int
  BY <1>1, <1>9 DEF slice_end
<1> QED BY <1>4, <1>5, <1>8, <1>9, <1>10, <1>11, Zenon DEF a

\* A page is not there, not valid, or behind it is a frame of the space.
LEMMA TranslateFinds ==
  ASSUME PageInv, NEW s \in Space, frames[s] # <<>>, NEW v \in Vpn
  PROVE  LET pte == translate(root_ppn[s], v)
         IN (IF pte = <<>> THEN -1 ELSE ppn_of(pte[1])) \in Found(s)
<1> DEFINE pte == translate(root_ppn[s], v)
<1>1. IF v \notin Pages \/ data_frames[s][v] = 0 THEN pte = <<>> \/ pte = <<0>>
      ELSE pte = <<Pte(data_frames[s][v], V)>>
  BY InvSound, Zenon DEF TablesSound, LeavesAgree
<1> HIDE DEF pte
<1>2. CASE pte = <<>>
  BY <1>2, Zenon DEF Found, pte
<1>3. CASE pte # <<>> /\ (v \notin Pages \/ data_frames[s][v] = 0)
  <2>1. pte = <<0>>
    BY <1>1, <1>3, Zenon
  <2>2. ppn_of(pte[1]) = 0
    BY <2>1 DEF ppn_of
  <2> QED BY <1>3, <2>2, Zenon DEF Found, pte
<1>4. CASE v \in Pages /\ data_frames[s][v] # 0
  <2> DEFINE x == data_frames[s][v]
  <2>1. pte = <<Pte(x, V)>>
    BY <1>1, <1>4, Zenon
  <2>2. x \in Backing(s)
    BY <1>4, Zenon DEF Backing
  <2>3. x \in 0..NFrames
    BY <1>4, Zenon DEF PageInv, Owner
  <2> HIDE DEF x
  <2>4. ppn_of(Pte(x, V)) = x
    BY <2>3, FanType DEF ppn_of, Pte, V
  <2>5. pte # <<>> /\ ppn_of(pte[1]) = x
    BY <2>1, <2>4, Zenon
  <2> QED BY <2>2, <2>5, Zenon DEF Found, pte
<1> QED BY <1>2, <1>3, <1>4, Zenon

\* One iteration keeps the slices to these frames.
LEMMA SliceStep ==
  ASSUME PageInv, NEW s \in Space, frames[s] # <<>>,
         NEW b \in Progress(s), NEW end \in Int
  PROVE  NextSlice(root_ppn[s], b, end) \in Progress(s)
<1> DEFINE start_va == VirtAddr(b.start)
          vpn == floor(start_va)
          pte == translate(root_ppn[s], vpn)
          next == (vpn + 1) * PAGE_SIZE
          end_va == IF next <= VirtAddr(end) THEN next ELSE VirtAddr(end)
          ppn == IF pte = <<>> THEN -1 ELSE ppn_of(pte[1])
          piece == [ppn |-> ppn, from |-> page_offset(start_va), to |-> slice_end(end_va)]
<1>1. b.start \in Int /\ b.v \in Seq(Slice(Found(s)))
  BY Zenon DEF Progress
<1>2. vpn \in Vpn /\ page_offset(start_va) \in Int
  BY <1>1, VaType, Zenon
<1>3. ppn \in Found(s)
  BY <1>2, TranslateFinds, Zenon
<1>4. next \in Int /\ VirtAddr(end) \in Int
  <2>1. VirtAddr(end) \in Int
    BY VaType
  <2> HIDE DEF vpn
  <2>2. vpn \in Int /\ PAGE_SIZE \in Int
    BY <1>2, FanType DEF Vpn
  <2> QED BY <2>1, <2>2
<1> HIDE DEF next
<1>5. end_va \in Int
  BY <1>4, Zenon
<1> HIDE DEF end_va
<1>6. slice_end(end_va) \in Int /\ usize(end_va) \in Int
  BY <1>5, VaType, Zenon
<1> HIDE DEF ppn, start_va, vpn, pte
<1>7. piece \in Slice(Found(s))
  BY <1>2, <1>3, <1>6, Zenon DEF Slice
<1> HIDE DEF piece
<1>8. Append(b.v, piece) \in Seq(Slice(Found(s)))
  BY <1>1, <1>7, SeqAppend, Zenon
<1>9. NextSlice(root_ppn[s], b, end) = [start |-> usize(end_va), v |-> Append(b.v, piece)]
  BY Zenon DEF NextSlice, piece, ppn, pte, vpn, start_va, end_va, next
<1>10. \A x \in Int, w \in Seq(Slice(Found(s))) : [start |-> x, v |-> w] \in Progress(s)
  BY Zenon DEF Progress
<1> QED BY <1>6, <1>8, <1>9, <1>10, Zenon

\* translated_byte_buffer finds frames of the space, or none.
LEMMA BufferFinds ==
  ASSUME PageInv, NEW s \in Space, frames[s] # <<>>, NEW ptr \in Int, NEW len \in Nat
  PROVE  translated_byte_buffer(root_ppn[s], ptr, len) \in Seq(Slice(Found(s)))
<1> DEFINE root == root_ppn[s]
          end == (ptr + len) % UsizeMod
          x == [start |-> ptr, v |-> <<>>]
          X == Progress(s)
          Go(b) == IF b.start < end THEN NextSlice(root, b, end) ELSE b
          L == CHOOSE l : l = [k \in 0..len |-> IF k = 0 THEN x
                                 ELSE LET b == l[k - 1]
                                      IN IF b.start < end THEN NextSlice(root, b, end) ELSE b]
<1>1. translated_byte_buffer(root, ptr, len) = L[len].v
  BY Zenon DEF translated_byte_buffer
<1>2. end \in Int
  <2>1. UsizeMod \in Nat \ {0}
    <3>1. VaSize \in Nat \ {0} /\ UsizeMod \in Nat /\ UsizeMod > VaSize
      BY VaType, PageTableAssumption, Zenon DEF VaSize
    <3> QED BY <3>1
  <2> QED BY <2>1
<1> HIDE DEF end
<1>3. x \in X
  <2>1. <<>> \in Seq(Slice(Found(s)))
    OBVIOUS
  <2> QED BY <2>1, Zenon DEF Progress
<1>4. \A b \in X : Go(b) \in X
  <2> HIDE DEF X
  <2>1. \A b \in X : NextSlice(root, b, end) \in X
    BY <1>2, SliceStep, Zenon DEF X
  <2> QED BY <2>1, Zenon
<1> HIDE DEF x, X, Go, root
<1>5. \E l : l = [k \in 0..len |-> IF k = 0 THEN x ELSE Go(l[k - 1])]
  <2> DEFINE g == [k \in 1..len |-> [b \in X |-> Go(b)]]
  <2>1. Steps(len, X, x, g)
    BY <1>3, <1>4, Zenon DEF Steps
  <2>2. PICK h : Unrolls(len, X, x, g, h)
    <3> HIDE DEF g
    <3> QED BY <2>1, Recursion, Zenon
  <2>3. ASSUME NEW k \in 1..len PROVE h[k] = Go(h[k - 1])
    <3>1. k - 1 \in 0..len
      OBVIOUS
    <3>2. h[k - 1] \in X /\ h[k] = g[k][h[k - 1]]
      BY <2>2, <3>1, Zenon DEF Unrolls
    <3> QED BY <3>2, Zenon
  <2>4. h = [k \in 0..len |-> IF k = 0 THEN x ELSE Go(h[k - 1])]
    <3>1. h \in [0..len -> X] /\ h[0] = x
      BY <2>2, Zenon DEF Unrolls
    <3> HIDE DEF g
    <3>2. ASSUME NEW k \in 0..len PROVE h[k] = IF k = 0 THEN x ELSE Go(h[k - 1])
      BY <2>3, <3>1
    <3> QED BY <3>1, <3>2, Zenon
  <2> QED BY <2>4, Zenon
<1>6. L = [k \in 0..len |-> IF k = 0 THEN x ELSE Go(L[k - 1])]
  BY <1>5, Zenon DEF Go
<1> HIDE DEF L
<1>7. L[0] = x /\ len \in 0..len /\ \A k \in 1..len : L[k] = Go(L[k - 1])
  BY <1>6
<1>8. L[len] \in X
  BY <1>3, <1>4, <1>7, Closed, Zenon
<1> QED BY <1>1, <1>8, Zenon DEF X, Progress, root

\* When none is missing, they are the frames of pages.
LEMMA BufferFrames ==
  ASSUME NEW s, NEW bufs \in Seq(Slice(Found(s))), \A j \in 1..Len(bufs) : bufs[j].ppn \in Frame
  PROVE  \A j \in 1..Len(bufs) : bufs[j] \in Slice(Frame \intersect Backing(s))
<1> SUFFICES ASSUME NEW j \in 1..Len(bufs) PROVE bufs[j] \in Slice(Frame \intersect Backing(s))
  BY Zenon
<1>1. bufs[j] \in Slice(Found(s)) /\ bufs[j].ppn \in Frame
  BY SeqElement, Zenon
<1>2. bufs[j].ppn # 0 /\ bufs[j].ppn # -1
  BY <1>1, FanType DEF Frame
<1>3. bufs[j].ppn \in Frame \intersect Backing(s)
  BY <1>1, <1>2, Zenon DEF Slice, Found
<1> DEFINE e == bufs[j]
<1> HIDE DEF e
<1>4. e \in Slice(Found(s)) /\ e.ppn \in Frame \intersect Backing(s)
  BY <1>1, <1>3, Zenon DEF e
<1>5. e \in Slice(Frame \intersect Backing(s))
  BY <1>4, Zenon DEF Slice
<1> QED BY <1>5, Zenon DEF e

\* UserBuffer::len is a number.
LEMMA LenType ==
  ASSUME NEW F, NEW bufs, Len(bufs) \in Nat, \A j \in 1..Len(bufs) : bufs[j] \in Slice(F)
  PROVE  BufferLen(bufs) \in Int
<1> DEFINE n == Len(bufs)
          L == CHOOSE l : l = [j \in 0..n |-> IF j = 0 THEN 0
                                               ELSE l[j - 1] + bufs[j].to - bufs[j].from]
<1>1. BufferLen(bufs) = L[n]
  BY Zenon DEF BufferLen
<1>2. \A j \in 1..n : bufs[j].to \in Int /\ bufs[j].from \in Int
  BY Zenon DEF Slice
<1> HIDE DEF n
<1>3. n \in Nat
  BY Zenon DEF n
<1>4. \E l : l = [j \in 0..n |-> IF j = 0 THEN 0 ELSE l[j - 1] + bufs[j].to - bufs[j].from]
  <2> DEFINE g == [j \in 1..n |-> [x \in Int |-> x + bufs[j].to - bufs[j].from]]
  <2>1. \A j \in 1..n, x \in Int : x + bufs[j].to - bufs[j].from \in Int
    BY <1>2
  <2>2. Steps(n, Int, 0, g)
    <3>1. g \in [1..n -> [Int -> Int]]
      BY <2>1, Zenon
    <3>2. 0 \in Int
      OBVIOUS
    <3> QED BY <1>3, <3>1, <3>2, Zenon DEF Steps
  <2>3. PICK h : Unrolls(n, Int, 0, g, h)
    <3> HIDE DEF g
    <3> QED BY <2>2, Recursion, Zenon
  <2>4. ASSUME NEW j \in 1..n PROVE h[j] = h[j - 1] + bufs[j].to - bufs[j].from
    <3>1. j - 1 \in 0..n
      BY <1>3
    <3>2. h[j - 1] \in Int /\ h[j] = g[j][h[j - 1]]
      BY <2>3, <3>1, Zenon DEF Unrolls
    <3> QED BY <3>2, Zenon
  <2>5. h \in [0..n -> Int] /\ h[0] = 0
    BY <2>3, Zenon DEF Unrolls
  <2> HIDE DEF g
  <2>6. ASSUME NEW j \in 0..n
        PROVE  h[j] = IF j = 0 THEN 0 ELSE h[j - 1] + bufs[j].to - bufs[j].from
    BY <1>3, <2>4, <2>5
  <2>7. h = [j \in 0..n |-> IF j = 0 THEN 0 ELSE h[j - 1] + bufs[j].to - bufs[j].from]
    BY <2>5, <2>6, Zenon
  <2> QED BY <2>7, Zenon
<1>5. L = [j \in 0..n |-> IF j = 0 THEN 0 ELSE L[j - 1] + bufs[j].to - bufs[j].from]
  BY <1>4, Zenon
<1> HIDE DEF L
<1>6. L[0] = 0 /\ n \in 0..n
      /\ \A j \in 1..n : L[j] = L[j - 1] + bufs[j].to - bufs[j].from
  BY <1>3, <1>5
<1>7. ASSUME NEW j \in 1..n, L[j - 1] \in Int PROVE L[j] \in Int
  <2> DEFINE to == bufs[j].to
            from == bufs[j].from
  <2>1. to \in Int /\ from \in Int /\ L[j] = L[j - 1] + to - from
    BY <1>2, <1>6, Zenon
  <2> HIDE DEF to, from
  <2> QED BY <1>7, <2>1
<1> DEFINE X == Int
<1>8. L[0] \in X /\ \A j \in 1..n : L[j - 1] \in X => L[j] \in X
  <2>1. 0 \in Int
    OBVIOUS
  <2> QED BY <1>6, <1>7, <2>1, Zenon
<1> HIDE DEF X
<1>9. L[n] \in X
  BY <1>3, <1>6, <1>8, Closed, Zenon
<1> QED BY <1>1, <1>9, Zenon DEF X

\* The iterator stays in the buffers.
LEMMA PositionsIn ==
  ASSUME NEW F, NEW bufs, Len(bufs) \in Nat, \A j \in 1..Len(bufs) : bufs[j] \in Slice(F)
  PROVE  \A k \in DOMAIN Positions(bufs) : Positions(bufs)[k][1] \in F
<1> DEFINE n == BufferLen(bufs)
          x == [buf |-> 1, idx |-> 0]
          X == [buf : Nat \ {0}, idx : Int]
          Go(y) == IF y.buf > Len(bufs) THEN y ELSE IterNext(bufs, y)
          L == CHOOSE l : l = [k \in 0..n |-> IF k = 0 THEN [buf |-> 1, idx |-> 0]
                                 ELSE IF l[k - 1].buf > Len(bufs) THEN l[k - 1]
                                 ELSE IterNext(bufs, l[k - 1])]
          yields == {k \in 1..n : L[k - 1].buf <= Len(bufs)}
<1>1. Positions(bufs)
        = [k \in yields |-> <<bufs[L[k - 1].buf].ppn, bufs[L[k - 1].buf].from + L[k - 1].idx>>]
  BY Zenon DEF Positions
<1>2. n \in Int
  BY LenType, Zenon
<1> HIDE DEF n
<1>3. SUFFICES ASSUME NEW k \in yields PROVE L[k - 1].buf \in 1..Len(bufs)
  <2> HIDE DEF L, yields
  <2>1. DOMAIN Positions(bufs) = yields
    BY <1>1, Zenon
  <2>2. ASSUME NEW k \in yields PROVE Positions(bufs)[k][1] = bufs[L[k - 1].buf].ppn
    BY <1>1
  <2>3. \A j \in 1..Len(bufs) : bufs[j].ppn \in F
    BY Zenon DEF Slice
  <2>4. ASSUME \A k \in yields : L[k - 1].buf \in 1..Len(bufs)
        PROVE  \A k \in yields : Positions(bufs)[k][1] \in F
    BY <2>2, <2>3, <2>4, Zenon
  <2> QED BY <2>1, <2>4, Zenon
<1>4. k \in 1..n /\ L[k - 1].buf <= Len(bufs)
  BY Zenon
<1>5. n \in Nat /\ k - 1 \in 0..n
  BY <1>2, <1>4
<1>6. x \in X
  OBVIOUS
<1>7. \A y \in X : Go(y) \in X
  <2>1. ASSUME NEW y \in X PROVE IterNext(bufs, y) \in X
    <3>1. y.buf + 1 \in Nat \ {0} /\ y.idx + 1 \in Int
      OBVIOUS
    <3>2. [buf |-> y.buf + 1, idx |-> 0] \in X /\ [y EXCEPT !.idx = @ + 1] \in X
      BY <3>1
    <3> HIDE DEF X
    <3> QED BY <3>2, Zenon DEF IterNext
  <2> HIDE DEF X
  <2> QED BY <2>1, Zenon
<1> HIDE DEF X, yields
<1>8. \E l : l = [i \in 0..n |-> IF i = 0 THEN x ELSE Go(l[i - 1])]
  <2> HIDE DEF x, Go
  <2> DEFINE g == [i \in 1..n |-> [y \in X |-> Go(y)]]
  <2>1. Steps(n, X, x, g)
    BY <1>5, <1>6, <1>7, Zenon DEF Steps
  <2>2. PICK h : Unrolls(n, X, x, g, h)
    <3> HIDE DEF g
    <3> QED BY <2>1, Recursion, Zenon
  <2>3. ASSUME NEW i \in 1..n PROVE h[i] = Go(h[i - 1])
    <3>1. i - 1 \in 0..n
      BY <1>5
    <3>2. h[i - 1] \in X /\ h[i] = g[i][h[i - 1]]
      BY <2>2, <3>1, Zenon DEF Unrolls
    <3> QED BY <3>2, Zenon
  <2>4. h \in [0..n -> X] /\ h[0] = x
    BY <2>2, Zenon DEF Unrolls
  <2> HIDE DEF g
  <2>5. ASSUME NEW i \in 0..n PROVE h[i] = IF i = 0 THEN x ELSE Go(h[i - 1])
    BY <1>5, <2>3, <2>4
  <2>6. h = [i \in 0..n |-> IF i = 0 THEN x ELSE Go(h[i - 1])]
    BY <2>4, <2>5, Zenon
  <2> QED BY <2>6, Zenon
<1>9. L = [i \in 0..n |-> IF i = 0 THEN x ELSE Go(L[i - 1])]
  BY <1>8, Zenon
<1> HIDE DEF L, x, Go
<1>10. L[0] = x /\ \A i \in 1..n : L[i] = Go(L[i - 1])
  BY <1>5, <1>9
<1>11. L[k - 1] \in X
  BY <1>5, <1>6, <1>7, <1>10, Closed, Zenon
<1>12. L[k - 1].buf \in Nat \ {0}
  BY <1>11, Zenon DEF X
<1> QED BY <1>4, <1>12

\* The loops over slices stay in them too.
LEMMA SlicePositionsIn ==
  ASSUME NEW F, NEW bufs, Len(bufs) \in Nat, \A j \in 1..Len(bufs) : bufs[j] \in Slice(F)
  PROVE  \A k \in DOMAIN SlicePositions(bufs) : SlicePositions(bufs)[k][1] \in F
<1> DEFINE n == Len(bufs)
          X == Seq(F \X Int)
          L == CHOOSE l : l = [j \in 0..n |-> IF j = 0 THEN <<>>
                                               ELSE l[j - 1] \o SliceCells(bufs[j])]
<1>1. SlicePositions(bufs) = L[n]
  BY Zenon DEF SlicePositions
<1>2. ASSUME NEW j \in 1..n PROVE SliceCells(bufs[j]) \in X
  <2> DEFINE b == bufs[j]
            m == b.to - b.from
  <2>1. b.ppn \in F /\ b.from \in Int /\ b.to \in Int
    BY Zenon DEF Slice
  <2> HIDE DEF b
  <2>2. m \in Int
    BY <2>1
  <2>3. SliceCells(b) = [i \in 1..m |-> <<b.ppn, b.from + i - 1>>]
    BY Zenon DEF SliceCells
  <2> HIDE DEF m
  <2>4. ASSUME NEW i \in 1..m PROVE <<b.ppn, b.from + i - 1>> \in F \X Int
    <3>1. b.from + i - 1 \in Int
      BY <2>1, <2>2
    <3> QED BY <2>1, <3>1, Zenon
  <2>5. PICK w \in Nat : 1..m = 1..w
    <3>1. CASE m \in Nat
      BY <3>1, Zenon
    <3>2. CASE m \notin Nat
      <4>1. 1..m = 1..0 /\ 0 \in Nat
        BY <2>2, <3>2
      <4> QED BY <4>1, Zenon
    <3> QED BY <3>1, <3>2, Zenon
  <2> DEFINE Y == F \X Int
            E(i) == <<b.ppn, b.from + i - 1>>
            z == SliceCells(b)
  <2>6. z = [i \in 1..w |-> E(i)] /\ \A i \in 1..w : E(i) \in Y
    BY <2>3, <2>4, <2>5, Zenon
  <2> HIDE DEF Y, E, z
  <2>7. z \in [1..w -> Y] /\ w \in Nat
    BY <2>5, <2>6, Zenon
  <2>8. z \in Seq(Y)
    BY <2>7
  <2> QED BY <2>8, Zenon DEF z, Y, b
<1> DEFINE Cat(y, j) == y \o SliceCells(bufs[j])
<1>3. \A y \in X, j \in 1..n : Cat(y, j) \in X
  BY <1>2, SeqConcat, Zenon
<1>4. <<>> \in X
  OBVIOUS
<1> HIDE DEF n, X, Cat
<1>5. n \in Nat
  BY Zenon DEF n
<1>6. \E l : l = [j \in 0..n |-> IF j = 0 THEN <<>> ELSE Cat(l[j - 1], j)]
  <2> DEFINE g == [j \in 1..n |-> [y \in X |-> Cat(y, j)]]
            x == <<>>
  <2>1. Steps(n, X, x, g)
    BY <1>3, <1>4, <1>5, Zenon DEF Steps
  <2>2. PICK h : Unrolls(n, X, x, g, h)
    <3> HIDE DEF g, x
    <3> QED BY <2>1, Recursion, Zenon
  <2>3. ASSUME NEW j \in 1..n PROVE h[j] = Cat(h[j - 1], j)
    <3>1. j - 1 \in 0..n
      BY <1>5
    <3>2. h[j - 1] \in X /\ h[j] = g[j][h[j - 1]]
      BY <2>2, <3>1, Zenon DEF Unrolls
    <3> QED BY <3>2, Zenon
  <2>4. h \in [0..n -> X] /\ h[0] = x
    BY <2>2, Zenon DEF Unrolls
  <2> HIDE DEF g, x
  <2>5. ASSUME NEW j \in 0..n PROVE h[j] = IF j = 0 THEN x ELSE Cat(h[j - 1], j)
    BY <1>5, <2>3, <2>4
  <2>6. h = [j \in 0..n |-> IF j = 0 THEN x ELSE Cat(h[j - 1], j)]
    BY <2>4, <2>5, Zenon
  <2> QED BY <2>6, Zenon DEF x
<1>7. L = [j \in 0..n |-> IF j = 0 THEN <<>> ELSE Cat(L[j - 1], j)]
  BY <1>6, Zenon DEF Cat
<1> HIDE DEF L
<1>8. L[0] = <<>> /\ n \in 0..n /\ \A j \in 1..n : L[j] = Cat(L[j - 1], j)
  BY <1>5, <1>7
<1>9. L[n] \in X
  <2>1. L[0] \in X /\ \A j \in 1..n : L[j - 1] \in X => L[j] \in X
    BY <1>3, <1>4, <1>8, Zenon
  <2>2. \A j \in 0..n : L[j] \in X
    BY <1>5, <2>1, Closed, Zenon
  <2> QED BY <1>8, <2>2, Zenon
<1> DEFINE Y == F \X Int
          z == L[n]
<1>10. z \in Seq(Y)
  BY <1>9, Zenon DEF X
<1> HIDE DEF Y, z
<1>11. \A k \in DOMAIN z : z[k] \in Y
  BY <1>10
<1>12. \A y \in Y : y[1] \in F
  BY Zenon DEF Y
<1> QED BY <1>1, <1>11, <1>12, Zenon DEF z

\* A copy writes pages of the space and no table.
LEMMA CopyStep ==
  ASSUME PageInv, NEW s \in Space, NEW ptr \in Pointers, NEW data \in Copies,
         CopyByIterator(s, ptr, data) \/ CopyBySlices(s, ptr, data)
  PROVE  PageInv'
<1> DEFINE bufs == translated_byte_buffer(root_ppn[s], ptr, Len(data))
          F == Frame \intersect Backing(s)
<1>1. PICK at : /\ at \in {Positions(bufs), SlicePositions(bufs)}
                /\ CopyWith(s, bufs, at, data)
  BY Zenon DEF CopyByIterator, CopyBySlices
<1>2. frames[s] # <<>>
  BY <1>1, Zenon DEF CopyWith
<1>3. ptr \in Int /\ Len(data) \in Nat
  <2>1. Len(data) \in Nat
    BY PageTableAssumption, SeqLen, Zenon
  <2>2. PICK v \in Pages, o \in 0..(PAGE_SIZE - 1) : ptr = usize(v * PAGE_SIZE + o)
    BY DEF Pointers
  <2>3. v \in Int /\ o \in Int /\ PAGE_SIZE \in Int
    BY PageTableAssumption
  <2>4. v * PAGE_SIZE + o \in Int
    BY <2>3
  <2> QED BY <2>1, <2>2, <2>4, VaType, Zenon
<1>4. bufs \in Seq(Slice(Found(s)))
  BY <1>2, <1>3, BufferFinds, Zenon
<1> HIDE DEF bufs
<1>5. CASE \E j \in 1..Len(bufs) : bufs[j].ppn \notin Frame
  BY <1>1, <1>5, SameTables, Zenon DEF CopyWith, Halt
<1>6. CASE ~\E j \in 1..Len(bufs) : bufs[j].ppn \notin Frame
  <2>1. mem' = Stored(at, data) /\ UNCHANGED <<free, root_ppn, frames, data_frames>>
    BY <1>1, <1>6, Zenon DEF CopyWith
  <2>2. \A j \in 1..Len(bufs) : bufs[j] \in Slice(F)
    BY <1>4, <1>6, BufferFrames, Zenon
  <2>3. Len(bufs) \in Nat
    BY <1>4, SeqLen, Zenon
  <2> HIDE DEF F
  <2>4. \A k \in DOMAIN at : at[k][1] \in F
    BY <1>1, <2>2, <2>3, PositionsIn, SlicePositionsIn, Zenon
  <2>5. Memory(mem) /\ Memory(mem')
    <3>1. Memory(Stored(at, data))
      BY Zenon DEF Memory, Stored
    <3> QED BY <2>1, <3>1, Zenon DEF PageInv
  <2>6. ASSUME NEW f \in Frame, f \notin F, NEW c \in Cells PROVE mem'[f][c] = mem[f][c]
    <3> DEFINE K == {k \in DOMAIN at : at[k] = <<f, c>>}
    <3>1. K = {}
      BY <2>4, <2>6
    <3>2. Stored(at, data)[f][c] = IF K = {} THEN mem[f][c] ELSE data[CHOOSE k \in K : \A j \in K : j <= k]
      BY Zenon DEF Stored
    <3> QED BY <2>1, <3>1, <3>2, Zenon
  <2>7. ASSUME NEW z \in Space, NEW f \in Frame, Contains(frames[z], f) PROVE f \notin F
    <3>1. SUFFICES ASSUME NEW v \in Pages, data_frames[s][v] = f PROVE FALSE
      BY Zenon DEF F, Backing
    <3> QED BY <2>7, <3>1, Zenon DEF PageInv, Owner, Placed
  <2>8. ASSUME NEW z \in Space
        PROVE  /\ Live(mem', frames[z], data_frames[z])
               /\ frames[z] # <<>> => root_ppn[z] = frames[z][1]
    <3>1. \A f \in Frame : Contains(frames[z], f) => \A c \in Idx : mem'[f][c] = mem[f][c]
      BY <2>6, <2>7, IdxCells, Zenon
    <3>2. Live(mem, frames[z], data_frames[z]) /\ (frames[z] # <<>> => root_ppn[z] = frames[z][1])
      BY Zenon DEF PageInv
    <3> DEFINE n == mem'
    <3> HIDE DEF n
    <3>3. Live(n, frames[z], data_frames[z])
      BY <3>1, <3>2, LiveSame DEF n
    <3> QED BY <3>2, <3>3, Zenon DEF n
  <2>9. Owner(free, frames, data_frames, {}) /\ root_ppn \in [Space -> 0..NFrames]
    BY Zenon DEF PageInv
  <2> QED BY <2>1, <2>5, <2>8, <2>9, Zenon DEF PageInv
<1> QED BY <1>5, <1>6, Zenon

-----------------------------------------------------------------------------
(* Every step *)

\* PageInv is inductive.
LEMMA NextStep == PageInv /\ [Next]_vars => PageInv'
<1> SUFFICES ASSUME PageInv, [Next]_vars PROVE PageInv'
  BY Zenon
<1>1. CASE UNCHANGED vars
  BY <1>1, SameTables, Zenon DEF vars
<1>2. CASE Stopped
  BY <1>2, SameTables, Zenon DEF Stopped, vars
<1>3. ASSUME NEW s \in Space, new(s) PROVE PageInv'
  BY <1>3, NewStep, Zenon
<1>4. ASSUME NEW s \in Space, drop(s) PROVE PageInv'
  BY <1>4, DropStep, Zenon
<1>5. ASSUME NEW s \in Space, NEW vpn \in Pages, map_one(s, vpn) PROVE PageInv'
  BY <1>5, MapStep, Zenon
<1>6. ASSUME NEW s \in Space, NEW vpn \in Pages, unmap_one(s, vpn) PROVE PageInv'
  BY <1>6, UnmapStep, Zenon
<1>7. ASSUME NEW s \in Space, NEW ptr \in Pointers, NEW data \in Copies,
             CopyByIterator(s, ptr, data) \/ CopyBySlices(s, ptr, data)
      PROVE  PageInv'
  BY <1>7, CopyStep, Zenon
<1> QED BY <1>1, <1>2, <1>3, <1>4, <1>5, <1>6, <1>7, Zenon DEF Next

\* Whatever is mapped, unmapped, dropped and copied, in any order and any number
\* of address spaces: every frame has one holder, a walk from a root stays in
\* the tables of that space, and its leaves are exactly the pages that its areas
\* hold (PageTable::map, unmap, find_pte_create, MapArea::map_one, unmap_one and
\* the stores through translated_byte_buffer).
THEOREM TablesAlwaysSound == Spec => []TablesSound
<1>1. Init => PageInv
  BY InitSound, Zenon
<1>2. PageInv /\ [Next]_vars => PageInv'
  BY NextStep, Zenon
<1>3. PageInv => TablesSound
  BY InvSound, Zenon
<1> QED BY <1>1, <1>2, <1>3, PTL DEF Spec
=============================================================================
