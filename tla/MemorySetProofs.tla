--------------------------- MODULE MemorySetProofs ---------------------------
(***************************************************************************)
(* Frames are neither lost nor shared, with and without sys_mmap and       *)
(* sys_munmap; without them page tables map exactly the frames that their  *)
(* areas hold, and the address spaces are private.                         *)
(***************************************************************************)
EXTENDS Mmap, SequenceLemmas, TLAPS

-----------------------------------------------------------------------------
(* The allocator.                                                          *)

\* What alloc can hand out.
Free(f) == Contains(recycled, f) \/ f \in current..(NFrames - 1)

AllocType == current \in 0..NFrames /\ recycled \in Seq(Frame)

AllocInv ==
  /\ AllocType /\ IsInjective(recycled)
  /\ \A i \in 1..Len(recycled) : recycled[i] < current

\* The frames in the order in which alloc hands them out.
LEMMA SupplyElements ==
  ASSUME AllocInv
  PROVE  /\ Supply \in Seq(Frame) /\ Len(Supply) \in Nat /\ 0 <= Len(Supply)
         /\ Len(Supply) = Len(recycled) + (NFrames - current)
         /\ \A i \in 1..Len(Supply) :
              Supply[i] = IF i <= Len(recycled) THEN recycled[Len(recycled) - i + 1]
                          ELSE current + (i - Len(recycled)) - 1
PROOF
  <1> DEFINE m == Len(recycled)
             rev == Reverse(recycled)
             fresh == [i \in 1..(NFrames - current) |-> current + i - 1]
  <1>0. recycled \in Seq(Frame) /\ m \in Nat /\ NFrames \in Nat /\ current \in 0..NFrames
    BY MemoryAssumption, SeqLen, Zenon DEF AllocInv, AllocType
  <1>1. \A i \in 1..m : recycled[i] \in Frame
    BY <1>0, SeqElement, Zenon
  <1>2. rev \in Seq(Frame) /\ Len(rev) = m /\ \A i \in 1..m : rev[i] = recycled[m - i + 1]
    BY <1>0, <1>1 DEF Reverse
  <1>3. /\ fresh \in Seq(Frame) /\ Len(fresh) = NFrames - current
        /\ \A i \in 1..(NFrames - current) : fresh[i] = current + i - 1
    BY <1>0 DEF Frame
  <1>4. Supply = rev \o fresh
    BY Zenon DEF Supply
  <1> HIDE DEF rev, fresh
  <1>5. /\ Supply \in Seq(Frame) /\ Len(Supply) = m + (NFrames - current)
        /\ \A i \in 1..Len(Supply) :
             Supply[i] = IF i <= m THEN recycled[m - i + 1] ELSE current + (i - m) - 1
    <2>1. /\ Supply \in Seq(Frame) /\ Len(Supply) = Len(rev) + Len(fresh)
          /\ \A i \in 1..(Len(rev) + Len(fresh)) :
               Supply[i] = IF i <= Len(rev) THEN rev[i] ELSE fresh[i - Len(rev)]
      <3>1. /\ rev \o fresh \in Seq(Frame) /\ Len(rev \o fresh) = Len(rev) + Len(fresh)
            /\ \A i \in 1..(Len(rev) + Len(fresh)) :
                 (rev \o fresh)[i] = IF i <= Len(rev) THEN rev[i] ELSE fresh[i - Len(rev)]
        <4>1. rev \in Seq(Frame) /\ fresh \in Seq(Frame)
          BY <1>2, <1>3, Zenon
        <4> QED BY <4>1, SeqConcat, Zenon
      <3> QED BY <1>4, <3>1, Zenon
    <2>2. ASSUME NEW i \in 1..Len(Supply)
          PROVE  Supply[i] = IF i <= m THEN recycled[m - i + 1] ELSE current + (i - m) - 1
      <3>1. CASE i <= m
        BY <1>0, <1>2, <2>1, <3>1
      <3>2. CASE ~(i <= m)
        <4>1. i - m \in 1..(NFrames - current)
          BY <1>0, <1>2, <1>3, <2>1, <3>2
        <4> QED BY <1>0, <1>2, <1>3, <2>1, <3>2, <4>1, Zenon
      <3> QED BY <3>1, <3>2, Zenon
    <2> QED BY <1>2, <1>3, <2>1, <2>2, Zenon
  <1> QED BY <1>5, SeqLen

\* The n frames that come next are distinct and free.
LEMMA SupplyPrefix ==
  ASSUME AllocInv, NEW n \in Nat, n <= Len(Supply)
  PROVE  /\ SubSeq(Supply, 1, n) \in Seq(Frame) /\ Len(SubSeq(Supply, 1, n)) = n
         /\ IsInjective(SubSeq(Supply, 1, n))
         /\ Len(Supply) = Len(recycled) + (NFrames - current)
         /\ \A f : Contains(SubSeq(Supply, 1, n), f) => Free(f)
         /\ \A f : Contains(SubSeq(Supply, 1, n), f) <=>
                     IF n <= Len(recycled)
                     THEN \E i \in (Len(recycled) - n + 1)..Len(recycled) : recycled[i] = f
                     ELSE Contains(recycled, f) \/ f \in current..(current + n - Len(recycled) - 1)
PROOF
  <1> DEFINE m == Len(recycled)
             s == SubSeq(Supply, 1, n)
  <1>0. /\ recycled \in Seq(Frame) /\ m \in Nat /\ NFrames \in Nat /\ current \in 0..NFrames
        /\ IsInjective(recycled) /\ \A f : Contains(recycled, f) => f < current
    BY MemoryAssumption, SeqLen, Zenon DEF AllocInv, AllocType, Contains
  <1>1. \A i \in 1..m : recycled[i] \in Frame /\ recycled[i] < current
    BY <1>0, SeqElement, Zenon DEF Contains
  <1>5. /\ Supply \in Seq(Frame) /\ Len(Supply) = m + (NFrames - current)
        /\ \A i \in 1..Len(Supply) :
             Supply[i] = IF i <= m THEN recycled[m - i + 1] ELSE current + (i - m) - 1
    BY SupplyElements, Zenon
  <1>6. /\ s \in Seq(Frame) /\ Len(s) = n
        /\ \A i \in 1..n : s[i] = Supply[i] /\ i \in 1..Len(Supply)
    <2>1. \A i \in 1..n : i \in 1..Len(Supply) /\ Supply[i] \in Frame
      BY <1>0, <1>5, SeqElement
    <2> QED BY <2>1, SeqSubSeq
  <1> HIDE DEF s
  <1>7. \A i \in 1..n : s[i] = IF i <= m THEN recycled[m - i + 1] ELSE current + (i - m) - 1
    BY <1>5, <1>6, Zenon
  <1>8. IsInjective(s)
    <2>1. SUFFICES ASSUME NEW i \in 1..n, NEW j \in 1..n, s[i] = s[j]
                   PROVE  i = j
      BY <1>6, InjectiveSeq, Zenon
    <2>2. \A k, l \in 1..m : recycled[k] = recycled[l] => k = l
      BY <1>0, InjectiveSeq, Zenon
    <2>3. CASE i <= m /\ j <= m
      <3>1. m - i + 1 \in 1..m /\ m - j + 1 \in 1..m
        BY <1>0, <2>3
      <3>2. m - i + 1 = m - j + 1
        BY <1>7, <2>1, <2>2, <2>3, <3>1, Zenon
      <3> QED BY <1>0, <3>2
    <2>4. \A k \in 1..n : s[k] < current <=> k <= m
      <3>1. ASSUME NEW k \in 1..n
            PROVE  s[k] < current <=> k <= m
        <4>1. CASE k <= m
          <5>1. m - k + 1 \in 1..m
            BY <1>0, <4>1
          <5> QED BY <1>1, <1>7, <4>1, <5>1, Zenon
        <4>2. CASE ~(k <= m)
          BY <1>0, <1>7, <4>2
        <4> QED BY <4>1, <4>2, Zenon
      <3> QED BY <3>1, Zenon
    <2>5. i <= m <=> j <= m
      BY <2>1, <2>4, Zenon
    <2>6. CASE ~(i <= m) /\ ~(j <= m)
      BY <1>0, <1>7, <2>1, <2>6
    <2> QED BY <2>3, <2>5, <2>6, Zenon
  <1>9. ASSUME NEW f, n <= m
        PROVE  Contains(s, f) <=> \E i \in (m - n + 1)..m : recycled[i] = f
    <2>1. ASSUME Contains(s, f)
          PROVE  \E i \in (m - n + 1)..m : recycled[i] = f
      <3>1. PICK i \in 1..n : s[i] = f
        BY <1>6, <2>1, Zenon DEF Contains
      <3>2. m - i + 1 \in (m - n + 1)..m /\ recycled[m - i + 1] = f
        BY <1>0, <1>7, <1>9, <3>1
      <3> QED BY <3>2, Zenon
    <2>2. ASSUME NEW i \in (m - n + 1)..m, recycled[i] = f
          PROVE  Contains(s, f)
      <3>1. m - i + 1 \in 1..n /\ m - (m - i + 1) + 1 = i /\ m - i + 1 <= m
        BY <1>0, <1>9
      <3>2. s[m - i + 1] = f
        BY <1>7, <2>2, <3>1, Zenon
      <3> QED BY <1>6, <3>1, <3>2, Zenon DEF Contains
    <2> QED BY <2>1, <2>2, Zenon
  <1>10. ASSUME NEW f, ~(n <= m)
         PROVE  Contains(s, f) <=> Contains(recycled, f) \/ f \in current..(current + n - m - 1)
    <2>1. ASSUME Contains(s, f)
          PROVE  Contains(recycled, f) \/ f \in current..(current + n - m - 1)
      <3>1. PICK i \in 1..n : s[i] = f
        BY <1>6, <2>1, Zenon DEF Contains
      <3>2. CASE i <= m
        <4>1. m - i + 1 \in 1..m /\ recycled[m - i + 1] = f
          BY <1>0, <1>7, <3>1, <3>2
        <4> QED BY <4>1, Zenon DEF Contains
      <3>3. CASE ~(i <= m)
        BY <1>0, <1>7, <3>1, <3>3
      <3> QED BY <3>2, <3>3, Zenon
    <2>2. ASSUME Contains(recycled, f)
          PROVE  Contains(s, f)
      <3>1. PICK i \in 1..m : recycled[i] = f
        BY <2>2, Zenon DEF Contains
      <3>2. m - i + 1 \in 1..n /\ m - (m - i + 1) + 1 = i /\ m - i + 1 <= m
        BY <1>0, <1>10
      <3>3. s[m - i + 1] = f
        BY <1>7, <3>1, <3>2, Zenon
      <3> QED BY <1>6, <3>2, <3>3, Zenon DEF Contains
    <2>3. ASSUME f \in current..(current + n - m - 1)
          PROVE  Contains(s, f)
      <3>1. f - current + m + 1 \in 1..n /\ ~(f - current + m + 1 <= m)
            /\ current + ((f - current + m + 1) - m) - 1 = f
        BY <1>0, <1>10, <2>3
      <3>2. s[f - current + m + 1] = f
        BY <1>7, <3>1, Zenon
      <3> QED BY <1>6, <3>1, <3>2, Zenon DEF Contains
    <2> QED BY <2>1, <2>2, <2>3, Zenon
  <1>11. ASSUME NEW f, Contains(s, f)
         PROVE  Free(f)
    <2>1. PICK i \in 1..n : s[i] = f /\ i \in 1..Len(Supply)
      BY <1>6, <1>11, Zenon DEF Contains
    <2>2. CASE i <= m
      <3>1. m - i + 1 \in 1..m /\ recycled[m - i + 1] = f
        BY <1>0, <1>7, <2>1, <2>2
      <3> QED BY <3>1, Zenon DEF Contains, Free
    <2>3. CASE ~(i <= m)
      BY <1>0, <1>5, <1>7, <2>1, <2>3 DEF Free
    <2> QED BY <2>2, <2>3, Zenon
  <1> QED BY <1>5, <1>6, <1>8, <1>9, <1>10, <1>11, Zenon DEF s

\* alloc and dealloc keep the allocator sound, take the next n frames and give
\* the frames back to it.
LEMMA AllocDealloc ==
  ASSUME AllocInv, NEW n \in Nat, n <= Len(Supply),
         NEW back \in Seq(Frame), IsInjective(back), \A f : Contains(back, f) => ~Free(f),
         alloc_dealloc(n, back)
  PROVE  /\ AllocInv'
         /\ \A f \in Frame :
              Free(f)' <=> (Free(f) /\ ~Contains(SubSeq(Supply, 1, n), f)) \/ Contains(back, f)
PROOF
  <1> DEFINE m == Len(recycled)
             kept == IF n <= m THEN SubSeq(recycled, 1, m - n) ELSE <<>>
             s == SubSeq(Supply, 1, n)
  <1>0. /\ recycled \in Seq(Frame) /\ m \in Nat /\ NFrames \in Nat /\ current \in 0..NFrames
        /\ IsInjective(recycled) /\ \A f : Contains(recycled, f) => f < current
    BY MemoryAssumption, SeqLen, Zenon DEF AllocInv, AllocType, Contains
  <1>1. /\ Len(Supply) = m + (NFrames - current)
        /\ \A f : Contains(s, f) <=>
             IF n <= m THEN \E i \in (m - n + 1)..m : recycled[i] = f
             ELSE Contains(recycled, f) \/ f \in current..(current + n - m - 1)
    BY SupplyPrefix, Zenon
  <1>2. recycled' = kept \o back /\ current' = IF n <= m THEN current ELSE current + n - m
    BY Zenon DEF alloc_dealloc
  <1> HIDE DEF s
  <1>3. /\ kept \in Seq(Frame) /\ IsInjective(kept)
        /\ \A f : Contains(kept, f) <=> Contains(recycled, f) /\ ~Contains(s, f)
    <2>1. CASE n <= m
      <3>1. \A i \in 1..(m - n) : i \in 1..m /\ recycled[i] \in Frame
        BY <1>0, <2>1, SeqElement
      <3>2. /\ kept \in Seq(Frame) /\ Len(kept) = m - n
            /\ \A i \in 1..(m - n) : kept[i] = recycled[i]
        <4>1. m - n \in Int /\ 1 \in Int
          BY <1>0
        <4>2. /\ SubSeq(recycled, 1, m - n) \in Seq(Frame)
              /\ Len(SubSeq(recycled, 1, m - n)) = IF 1 <= m - n THEN m - n - 1 + 1 ELSE 0
              /\ \A i \in 1..(m - n - 1 + 1) : SubSeq(recycled, 1, m - n)[i] = recycled[1 + i - 1]
          BY <3>1, <4>1, SeqSubSeq
        <4> QED BY <1>0, <2>1, <4>2
      <3> HIDE DEF kept
      <3>3. \A i, j \in 1..m : recycled[i] = recycled[j] => i = j
        BY <1>0, InjectiveSeq, Zenon
      <3>4. IsInjective(kept)
        BY <3>1, <3>2, <3>3, InjectiveSeq, Zenon
      <3>5. ASSUME NEW f
            PROVE  Contains(kept, f) <=> Contains(recycled, f) /\ ~Contains(s, f)
        <4>1. Contains(kept, f) <=> \E i \in 1..(m - n) : recycled[i] = f
          BY <3>2, SMTT(30) DEF Contains
        <4>2. Contains(s, f) <=> \E i \in (m - n + 1)..m : recycled[i] = f
          BY <1>1, <2>1, Zenon
        <4>3. ASSUME NEW i \in 1..m, recycled[i] = f
              PROVE  (i \in 1..(m - n)) \/ (i \in (m - n + 1)..m)
          BY <1>0, <2>1
        <4>4. ASSUME NEW i \in 1..(m - n), recycled[i] = f, NEW j \in (m - n + 1)..m, recycled[j] = f
              PROVE  FALSE
          BY <1>0, <2>1, <3>3, <4>4
        <4>5. Contains(recycled, f) <=> \E i \in 1..m : recycled[i] = f
          BY Zenon DEF Contains
        <4>6. \A i \in 1..(m - n) : i \in 1..m
          BY <3>1, Zenon
        <4> QED BY <4>1, <4>2, <4>3, <4>4, <4>5, <4>6, Zenon
      <3> QED BY <3>2, <3>4, <3>5, Zenon
    <2>2. CASE ~(n <= m)
      <3>1. kept = <<>>
        BY <2>2, Zenon
      <3>2. \A f : ~Contains(<<>>, f)
        BY DEF Contains
      <3>3. IsInjective(<<>>)
        BY DEF IsInjective
      <3> QED BY <1>1, <2>2, <3>1, <3>2, <3>3
    <2> QED BY <2>1, <2>2, Zenon
  <1> HIDE DEF kept
  <1>4. /\ kept \o back \in Seq(Frame)
        /\ \A f : Contains(kept \o back, f) <=> Contains(kept, f) \/ Contains(back, f)
        /\ IsInjective(kept \o back)
    <2>1. \A f : ~(Contains(kept, f) /\ Contains(back, f))
      BY <1>3, Zenon DEF Free
    <2> QED BY <1>3, <2>1, ConcatMembers, SeqConcat, Zenon
  <1>5. current' \in 0..NFrames /\ current <= current'
    BY <1>0, <1>1, <1>2
  <1>6. ASSUME NEW f, Contains(recycled', f)
        PROVE  f < current'
    <2>1. CASE Contains(kept, f)
      BY <1>0, <1>3, <1>5, <2>1, ContainsTyped DEF Frame
    <2>2. CASE Contains(back, f)
      <3>1. f \in Frame /\ ~(f \in current..(NFrames - 1))
        BY <2>2, ContainsTyped, Zenon DEF Free
      <3> QED BY <1>0, <1>5, <3>1 DEF Frame
    <2> QED BY <1>2, <1>4, <1>6, <2>1, <2>2, Zenon
  <1>7. AllocInv'
    <2>1. \A i \in 1..Len(recycled') : recycled'[i] < current'
      BY <1>6, Zenon DEF Contains
    <2> QED BY <1>2, <1>4, <1>5, <2>1, Zenon DEF AllocInv, AllocType
  <1>8. ASSUME NEW f \in Frame
        PROVE  Free(f)' <=> (Free(f) /\ ~Contains(s, f)) \/ Contains(back, f)
    <2>1. Contains(recycled', f) <=> (Contains(recycled, f) /\ ~Contains(s, f)) \/ Contains(back, f)
      BY <1>2, <1>3, <1>4, Zenon
    <2>2. f \in current'..(NFrames - 1) <=> f \in current..(NFrames - 1) /\ ~Contains(s, f)
      <3>0. f \in Int /\ (Contains(recycled, f) => f < current)
        BY <1>0 DEF Frame
      <3>1. CASE n <= m
        <4>1. \A i \in (m - n + 1)..m : i \in 1..m
          BY <1>0, <3>1
        <4>2. Contains(s, f) => Contains(recycled, f)
          BY <1>1, <3>1, <4>1, Zenon DEF Contains
        <4> QED BY <1>0, <1>2, <3>0, <3>1, <4>2
      <3>2. CASE ~(n <= m)
        <4>1. current' = current + n - m
          BY <1>2, <3>2, Zenon
        <4>2. Contains(s, f) <=> Contains(recycled, f) \/ f \in current..(current + n - m - 1)
          BY <1>1, <3>2, Zenon
        <4> HIDE DEF m
        <4> QED BY <1>0, <1>5, <3>0, <3>2, <4>1, <4>2
      <3> QED BY <3>1, <3>2, Zenon
    <2>3. Free(f)' <=> Contains(recycled', f) \/ f \in current'..(NFrames - 1)
      BY Zenon DEF Free
    <2> QED BY <2>1, <2>2, <2>3, Zenon DEF Free
  <1> QED BY <1>7, <1>8, Zenon DEF s

-----------------------------------------------------------------------------
(* The pages of the areas of an address space.                             *)

\* The shape of areas: none, or the four of from_elf, which append_to only
\* makes longer.
Ranges(rs) ==
  /\ rs = <<>> \/ Len(rs) = 4
  /\ \A j \in 1..Len(rs) :
       rs[j].start \in VPN /\ rs[j].end \in 0..(Top + 1) /\ rs[j].start <= rs[j].end

\* s lists the pages a..b-1 of area j in order.
PageList(s, j, a, b) ==
  /\ j \in Nat /\ a \in Nat /\ b \in Nat /\ a <= b
  /\ s \in Seq(Nat \X Nat) /\ Len(s) = b - a
  /\ \A i \in 1..(b - a) : s[i] = <<j, a + i - 1>>

\* Such a list goes through the pages of the area, each once.
LEMMA PagesOfArea ==
  ASSUME NEW s, NEW j, NEW a, NEW b, PageList(s, j, a, b)
  PROVE  /\ IsInjective(s)
         /\ \A x : Contains(s, x) <=> \E v \in a..(b - 1) : x = <<j, v>>
PROOF
  <1>1. s \in Seq(Nat \X Nat) /\ Len(s) = b - a /\ \A i \in 1..(b - a) : s[i] = <<j, a + i - 1>>
    BY Zenon DEF PageList
  <1>0. j \in Nat /\ a \in Nat /\ b \in Nat /\ a <= b
    BY Zenon DEF PageList
  <1>2. IsInjective(s)
    <2>1. ASSUME NEW i \in 1..(b - a), NEW k \in 1..(b - a), s[i] = s[k]
          PROVE  i = k
      <3>0. s[i] = <<j, a + i - 1>> /\ s[k] = <<j, a + k - 1>>
        BY <1>1, Zenon
      <3>1. s[i][2] = a + i - 1 /\ s[k][2] = a + k - 1
        BY <3>0
      <3> QED BY <1>0, <2>1, <3>1
    <2> QED BY <1>0, <1>1, <2>1, InjectiveSeq, Zenon
  <1>3. ASSUME NEW x
        PROVE  Contains(s, x) <=> \E v \in a..(b - 1) : x = <<j, v>>
    <2>1. ASSUME NEW i \in 1..(b - a), s[i] = x
          PROVE  \E v \in a..(b - 1) : x = <<j, v>>
      BY <1>0, <1>1, <2>1
    <2>2. ASSUME NEW v \in a..(b - 1), x = <<j, v>>
          PROVE  \E i \in 1..(b - a) : s[i] = x
      <3>1. v - a + 1 \in 1..(b - a) /\ a + (v - a + 1) - 1 = v
        BY <1>0
      <3> QED BY <1>1, <2>2, <3>1, Zenon
    <2> QED BY <1>0, <1>1, <2>1, <2>2, Zenon DEF Contains
  <1> QED BY <1>1, <1>2, <1>3, Zenon

\* Pages goes through every page of every area once.
LEMMA PagesProperties ==
  ASSUME NEW rs, Ranges(rs)
  PROVE  /\ Pages(rs) \in Seq(Nat \X Nat) /\ IsInjective(Pages(rs))
         /\ \A x : Contains(Pages(rs), x) <=>
                     \E j \in 1..Len(rs) : \E v \in AreaPages(rs[j]) : x = <<j, v>>
         /\ Len(rs) = 4 => Len(Pages(rs)) = (rs[1].end - rs[1].start) + (rs[2].end - rs[2].start)
                                          + (rs[3].end - rs[3].start) + (rs[4].end - rs[4].start)
PROOF
  <1> DEFINE P(j) == [i \in 1..(rs[j].end - rs[j].start) |-> <<j, rs[j].start + i - 1>>]
             ss == [j \in 1..Len(rs) |-> P(j)]
             S == Nat \X Nat
  <1>1. CASE rs = <<>>
    <2>1. Len(ss) = 0 /\ ss = <<>>
      BY <1>1
    <2>2. Pages(rs) = <<>>
      BY <2>1, Zenon DEF Pages, FlattenSeq
    <2>3. \A x : ~Contains(<<>>, x)
      BY DEF Contains
    <2>4. <<>> \in Seq(S) /\ IsInjective(<<>>) /\ Len(<<>>) = 0
      BY DEF IsInjective
    <2>5. 1..Len(rs) = {} /\ Len(rs) # 4
      BY <1>1
    <2> QED BY <2>2, <2>3, <2>4, <2>5, Zenon
  <1>2. CASE Len(rs) = 4
    <2>1. Len(ss) = 4 /\ ss[1] = P(1) /\ ss[2] = P(2) /\ ss[3] = P(3) /\ ss[4] = P(4)
      BY <1>2
    <2>2. Pages(rs) = ((P(1) \o P(2)) \o P(3)) \o P(4)
      <3>1. Pages(rs) = FlattenSeq(ss)
        BY Zenon DEF Pages
      <3>2. FlattenSeq(ss) = ((ss[1] \o ss[2]) \o ss[3]) \o ss[4]
        BY <2>1, FlattenFour, Zenon
      <3> QED BY <2>1, <3>1, <3>2, Zenon
    <2>3. ASSUME NEW j \in 1..4
          PROVE  /\ P(j) \in Seq(S) /\ IsInjective(P(j))
                 /\ \A x : Contains(P(j), x) <=> \E v \in AreaPages(rs[j]) : x = <<j, v>>
                 /\ Len(P(j)) = rs[j].end - rs[j].start
      <3> DEFINE a == rs[j].start
                 b == rs[j].end
                 s == P(j)
      <3>1. j \in Nat /\ a \in Nat /\ b \in Nat /\ a <= b
        BY <1>2, MemoryAssumption DEF Ranges, VPN
      <3>2. s = [i \in 1..(b - a) |-> <<j, a + i - 1>>] /\ AreaPages(rs[j]) = a..(b - 1)
        BY Zenon DEF AreaPages
      <3> HIDE DEF a, b, s
      <3>3. \A i \in 1..(b - a) : <<j, a + i - 1>> \in Nat \X Nat
        BY <3>1
      <3>4. s \in Seq(Nat \X Nat) /\ Len(s) = b - a /\ \A i \in 1..(b - a) : s[i] = <<j, a + i - 1>>
        <4> DEFINE n == b - a
        <4>1. n \in Nat /\ s = [i \in 1..n |-> <<j, a + i - 1>>]
          BY <3>1, <3>2
        <4>2. \A i \in 1..n : <<j, a + i - 1>> \in Nat \X Nat
          BY <3>3, Zenon
        <4> HIDE DEF n
        <4>3. s \in [1..n -> Nat \X Nat] /\ \A i \in 1..n : s[i] = <<j, a + i - 1>>
          BY <4>1, <4>2, Zenon
        <4>4. s \in Seq(Nat \X Nat) /\ Len(s) = n
          BY <4>1, <4>3
        <4> QED BY <4>3, <4>4, Zenon DEF n
      <3>5. /\ IsInjective(s)
            /\ \A x : Contains(s, x) <=> \E v \in a..(b - 1) : x = <<j, v>>
        <4>1. PageList(s, j, a, b)
          BY <3>1, <3>4, Zenon DEF PageList
        <4> QED BY <4>1, PagesOfArea
      <3>6. /\ s \in Seq(S) /\ IsInjective(s) /\ Len(s) = b - a
            /\ \A x : Contains(s, x) <=> \E v \in AreaPages(rs[j]) : x = <<j, v>>
        BY <3>2, <3>4, <3>5, Zenon DEF S
      <3> QED BY <3>6, Zenon DEF s, a, b
    <2> HIDE DEF P, S, ss
    <2>4. \A j, k \in 1..4 : j # k => \A x : ~(Contains(P(j), x) /\ Contains(P(k), x))
      <3>1. \A j \in 1..4 : \A x : Contains(P(j), x) => x[1] = j
        BY <2>3
      <3> QED BY <3>1, Zenon
    <2>5. /\ P(1) \in Seq(S) /\ P(2) \in Seq(S) /\ P(3) \in Seq(S) /\ P(4) \in Seq(S)
          /\ IsInjective(P(1)) /\ IsInjective(P(2)) /\ IsInjective(P(3)) /\ IsInjective(P(4))
      BY <2>3
    <2> DEFINE A == P(1) \o P(2)
               B == A \o P(3)
               C == B \o P(4)
    <2>6. /\ A \in Seq(S) /\ IsInjective(A)
          /\ \A x : Contains(A, x) <=> Contains(P(1), x) \/ Contains(P(2), x)
      BY <2>4, <2>5, ConcatMembers, SeqConcat
    <2> HIDE DEF A
    <2>7. /\ B \in Seq(S) /\ IsInjective(B)
          /\ \A x : Contains(B, x) <=> Contains(A, x) \/ Contains(P(3), x)
      <3>1. \A x : ~(Contains(A, x) /\ Contains(P(3), x))
        BY <2>4, <2>6
      <3> QED BY <2>5, <2>6, <3>1, ConcatMembers, SeqConcat
    <2> HIDE DEF B
    <2>8. /\ C \in Seq(S) /\ IsInjective(C)
          /\ \A x : Contains(C, x) <=> Contains(B, x) \/ Contains(P(4), x)
      <3>1. \A x : ~(Contains(B, x) /\ Contains(P(4), x))
        BY <2>4, <2>6, <2>7
      <3> QED BY <2>5, <2>7, <3>1, ConcatMembers, SeqConcat
    <2>9. Pages(rs) = C
      BY <2>2, Zenon DEF A, B
    <2> HIDE DEF C
    <2>10. \A x : Contains(C, x) <=> \E j \in 1..4 : Contains(P(j), x)
      BY <2>6, <2>7, <2>8
    <2>11. Len(C) = Len(P(1)) + Len(P(2)) + Len(P(3)) + Len(P(4))
      <3>1. Len(A) = Len(P(1)) + Len(P(2))
        BY <2>5, SeqConcat, Zenon DEF A
      <3>2. Len(B) = Len(A) + Len(P(3))
        BY <2>5, <2>6, SeqConcat, Zenon DEF B
      <3>3. Len(C) = Len(B) + Len(P(4))
        BY <2>5, <2>7, SeqConcat, Zenon DEF C
      <3> QED BY <3>1, <3>2, <3>3, Zenon
    <2>12. Len(P(1)) = rs[1].end - rs[1].start /\ Len(P(2)) = rs[2].end - rs[2].start
           /\ Len(P(3)) = rs[3].end - rs[3].start /\ Len(P(4)) = rs[4].end - rs[4].start
      BY <2>3
    <2>13. \A x : Contains(C, x) <=> \E j \in 1..Len(rs) : \E v \in AreaPages(rs[j]) : x = <<j, v>>
      BY <1>2, <2>3, <2>10, Zenon
    <2> QED BY <2>8, <2>9, <2>11, <2>12, <2>13, Zenon DEF S
  <1> QED BY <1>1, <1>2, Zenon DEF Ranges

-----------------------------------------------------------------------------
(* Who owns which frame.                                                   *)

InAreas(rs, f) == \E j \in 1..Len(rs), v \in VPN : rs[j].data_frames[v] = f

\* Areas that hold one frame, their own, for each of their pages.
AreasOk(rs) ==
  /\ rs \in Seq(MapArea) /\ Ranges(rs)
  /\ \A j \in 1..Len(rs), v \in VPN : rs[j].data_frames[v] # None <=> v \in AreaPages(rs[j])
  /\ \A j, k \in 1..Len(rs), v, w \in VPN :
       rs[j].data_frames[v] = rs[k].data_frames[w] /\ rs[j].data_frames[v] # None
         => j = k /\ v = w

\* The same of the four areas of a process.
LEMMA FourAreas ==
  ASSUME NEW rs, rs \in Seq(MapArea), Len(rs) = 4, Ranges(rs),
         \A j \in 1..4, v \in VPN : rs[j].data_frames[v] # None <=> v \in AreaPages(rs[j]),
         \A j, k \in 1..4, v, w \in VPN :
           rs[j].data_frames[v] = rs[k].data_frames[w] /\ rs[j].data_frames[v] # None
             => j = k /\ v = w
  PROVE  AreasOk(rs)
BY Zenon DEF AreasOk

Owned(p, f) == Contains(tables[p], f) \/ Contains(kernel_stack[p], f) \/ InAreas(areas[p], f)

\* The frames of tables t, kernel stack k and areas rs are all different.
Apart(t, k, rs) ==
  /\ t \in Seq(Frame) /\ k \in Seq(Frame) /\ AreasOk(rs)
  /\ IsInjective(t) /\ IsInjective(k)
  /\ \A f \in Frame : /\ ~(Contains(t, f) /\ Contains(k, f))
                      /\ ~(Contains(t, f) /\ InAreas(rs, f))
                      /\ ~(Contains(k, f) /\ InAreas(rs, f))

\* A process that runs has a program on its first page; of one that does not
\* run only tables and kernel stack are left, until it is reaped.
Stage(p) ==
  /\ status[p] = "run" => Len(areas[p]) = 4 /\ areas[p][1].start < areas[p][1].end
  /\ status[p] # "run" => areas[p] = <<>>
  /\ status[p] = "absent" => tables[p] = <<>> /\ kernel_stack[p] = <<>>

\* Each frame is free or has one owner.
Ownership ==
  /\ \A p \in Proc, f \in Frame : Owned(p, f) => ~Free(f)
  /\ \A p, q \in Proc, f \in Frame : Owned(p, f) /\ Owned(q, f) => p = q
  /\ \A f \in Frame : Free(f) \/ \E p \in Proc : Owned(p, f)

HoldersType ==
  /\ status \in [Proc -> {"absent", "run", "zombie"}]
  /\ tables \in [Proc -> Seq(Frame)] /\ kernel_stack \in [Proc -> Seq(Frame)]
  /\ areas \in [Proc -> Seq(MapArea)]

\* The inductive invariant for frames.  It says nothing of page table entries,
\* so sys_mmap and sys_munmap keep it.
FrameInv ==
  /\ AllocInv /\ HoldersType /\ Ownership
  /\ \A p \in Proc : Apart(tables[p], kernel_stack[p], areas[p]) /\ Stage(p)
  /\ halted # "dealloc"

\* A step in which p gives the frames back to the allocator, gets the next n
\* and no other process changes what it owns.
LEMMA Transfer ==
  ASSUME AllocInv, Ownership, NEW n \in Nat, n <= Len(Supply), NEW p \in Proc,
         NEW back \in Seq(Frame), IsInjective(back),
         \A f \in Frame : Contains(back, f) => Owned(p, f),
         alloc_dealloc(n, back),
         \A f \in Frame : Owned(p, f)' <=> \/ Owned(p, f) /\ ~Contains(back, f)
                                           \/ Contains(SubSeq(Supply, 1, n), f),
         \A q \in Proc \ {p}, f \in Frame : Owned(q, f)' <=> Owned(q, f)
  PROVE  AllocInv' /\ Ownership'
PROOF
  <1> DEFINE new(f) == Contains(SubSeq(Supply, 1, n), f)
  <1>1. \A f : Contains(back, f) => f \in Frame /\ ~Free(f)
    BY ContainsTyped, Zenon DEF Ownership
  <1>2. /\ AllocInv'
        /\ \A f \in Frame : Free(f)' <=> (Free(f) /\ ~new(f)) \/ Contains(back, f)
    BY <1>1, AllocDealloc, Zenon
  <1>3. \A f \in Frame : new(f) => Free(f)
    BY SupplyPrefix, Zenon
  <1> HIDE DEF new
  <1>4. \A f \in Frame : Owned(p, f)' <=> (Owned(p, f) /\ ~Contains(back, f)) \/ new(f)
    BY Zenon DEF new
  <1> DEFINE Own(q, f) == Owned(q, f)
             OwnN(q, f) == Owned(q, f)'
             FreeN(f) == Free(f)'
  <1>5. /\ \A q \in Proc, f \in Frame : Own(q, f) => ~Free(f)
        /\ \A q, r \in Proc, f \in Frame : Own(q, f) /\ Own(r, f) => q = r
        /\ \A f \in Frame : Free(f) \/ \E q \in Proc : Own(q, f)
    BY Zenon DEF Ownership
  <1>6. /\ \A f \in Frame : Contains(back, f) => Own(p, f)
        /\ \A f \in Frame : OwnN(p, f) <=> (Own(p, f) /\ ~Contains(back, f)) \/ new(f)
        /\ \A q \in Proc \ {p}, f \in Frame : OwnN(q, f) <=> Own(q, f)
        /\ \A f \in Frame : FreeN(f) <=> (Free(f) /\ ~new(f)) \/ Contains(back, f)
    BY <1>2, <1>4, Zenon
  <1> HIDE DEF Own, OwnN, FreeN
  <1>7. /\ \A q \in Proc, f \in Frame : OwnN(q, f) => ~FreeN(f)
        /\ \A q, r \in Proc, f \in Frame : OwnN(q, f) /\ OwnN(r, f) => q = r
        /\ \A f \in Frame : FreeN(f) \/ \E q \in Proc : OwnN(q, f)
    BY <1>3, <1>5, <1>6
  <1>8. Ownership'
    BY <1>7, Zenon DEF Ownership, OwnN, FreeN
  <1> QED BY <1>2, <1>8, Zenon

\* The frames that come back when the areas rs are dropped.
LEMMA FramesOfAreas ==
  ASSUME NEW p \in Proc, AreasOk(areas[p])
  PROVE  /\ AreaFrames(p) \in Seq(Frame) /\ IsInjective(AreaFrames(p))
         /\ \A f \in Frame : Contains(AreaFrames(p), f) <=> InAreas(areas[p], f)
PROOF
  <1> DEFINE rs == areas[p]
             pg == Pages(rs)
             F == AreaFrames(p)
  <1>1. /\ pg \in Seq(Nat \X Nat) /\ IsInjective(pg)
        /\ \A x : Contains(pg, x) <=> \E j \in 1..Len(rs) : \E v \in AreaPages(rs[j]) : x = <<j, v>>
    BY PagesProperties, Zenon DEF AreasOk
  <1>2. /\ rs \in Seq(MapArea) /\ Ranges(rs)
        /\ \A j \in 1..Len(rs), v \in VPN : rs[j].data_frames[v] # None <=> v \in AreaPages(rs[j])
        /\ \A j, k \in 1..Len(rs), v, w \in VPN :
             rs[j].data_frames[v] = rs[k].data_frames[w] /\ rs[j].data_frames[v] # None
               => j = k /\ v = w
    BY Zenon DEF AreasOk
  <1>3. F = [i \in 1..Len(pg) |-> FrameAt(rs, pg[i])] /\ Len(pg) \in Nat
    BY <1>1, SeqLen, Zenon DEF AreaFrames
  <1> HIDE DEF rs, pg, F
  <1>4. \A j \in 1..Len(rs) : rs[j] \in MapArea /\ AreaPages(rs[j]) \subseteq VPN
    <2> SUFFICES ASSUME NEW j \in 1..Len(rs) PROVE rs[j] \in MapArea /\ AreaPages(rs[j]) \subseteq VPN
      BY Zenon
    <2> DEFINE x == rs[j].start
               y == rs[j].end
    <2>1. rs[j] \in MapArea /\ x \in 0..Top /\ y \in 0..(Top + 1)
      BY <1>2, SeqElement, Zenon DEF Ranges, VPN
    <2>2. Top \in Nat
      BY MemoryAssumption, Zenon
    <2> HIDE DEF x, y
    <2>3. x..(y - 1) \subseteq 0..Top
      BY <2>1, <2>2
    <2> QED BY <2>1, <2>3, Zenon DEF x, y, AreaPages, VPN
  <1>5. ASSUME NEW i \in 1..Len(pg)
        PROVE  \E j \in 1..Len(rs), v \in VPN :
                 /\ pg[i] = <<j, v>> /\ v \in AreaPages(rs[j])
                 /\ F[i] = rs[j].data_frames[v] /\ F[i] \in Frame
    <2>1. Contains(pg, pg[i])
      BY Zenon DEF Contains
    <2>2. PICK j \in 1..Len(rs) : \E v \in AreaPages(rs[j]) : pg[i] = <<j, v>>
      BY <1>1, <2>1, Zenon
    <2>3. PICK v \in AreaPages(rs[j]) : pg[i] = <<j, v>>
      BY <2>2, Zenon
    <2>4. v \in VPN
      BY <1>4, Zenon
    <2>5. F[i] = rs[j].data_frames[v]
      BY <1>3, <2>3 DEF FrameAt
    <2>6. rs[j].data_frames \in [VPN -> Frame \union {None}]
      BY <1>4, Zenon DEF MapArea
    <2>7. F[i] # None
      BY <1>2, <2>4, <2>5, Zenon
    <2> QED BY <2>3, <2>4, <2>5, <2>6, <2>7, Zenon
  <1>6. F \in Seq(Frame) /\ Len(F) = Len(pg)
    BY <1>3, <1>5
  <1>7. ASSUME NEW i \in 1..Len(pg), NEW k \in 1..Len(pg), F[i] = F[k]
        PROVE  i = k
    <2>1. PICK j \in 1..Len(rs), v \in VPN :
            pg[i] = <<j, v>> /\ v \in AreaPages(rs[j]) /\ F[i] = rs[j].data_frames[v]
      BY <1>5, Zenon
    <2>2. PICK l \in 1..Len(rs), w \in VPN :
            pg[k] = <<l, w>> /\ w \in AreaPages(rs[l]) /\ F[k] = rs[l].data_frames[w]
      BY <1>5, Zenon
    <2>3. j = l /\ v = w
      <3>1. rs[j].data_frames[v] # None
        BY <1>2, <2>1, Zenon
      <3>2. rs[j].data_frames[v] = rs[l].data_frames[w]
        BY <1>7, <2>1, <2>2, Zenon
      <3> QED BY <1>2, <3>1, <3>2
    <2>4. pg[i] = pg[k]
      BY <2>1, <2>2, <2>3, Zenon
    <2> QED BY <1>1, <2>4, InjectiveSeq, Zenon
  <1>8. ASSUME NEW f \in Frame, Contains(F, f)
        PROVE  InAreas(rs, f)
    <2>1. PICK i \in 1..Len(pg) : F[i] = f
      BY <1>6, <1>8, Zenon DEF Contains
    <2> QED BY <1>5, <2>1, Zenon DEF InAreas
  <1>9. ASSUME NEW f \in Frame, InAreas(rs, f)
        PROVE  Contains(F, f)
    <2>1. PICK j \in 1..Len(rs), v \in VPN : rs[j].data_frames[v] = f
      BY <1>9, Zenon DEF InAreas
    <2>2. f # None
      BY MemoryAssumption DEF Frame
    <2>3. v \in AreaPages(rs[j])
      BY <1>2, <2>1, <2>2, Zenon
    <2>4. Contains(pg, <<j, v>>)
      BY <1>1, <2>3, Zenon
    <2>5. PICK i \in 1..Len(pg) : pg[i] = <<j, v>>
      BY <2>4, Zenon DEF Contains
    <2>6. F[i] = f
      BY <1>3, <2>1, <2>5 DEF FrameAt
    <2> QED BY <1>6, <2>6, Zenon DEF Contains
  <1>10. IsInjective(F)
    BY <1>6, <1>7, InjectiveSeq, Zenon
  <1> QED BY <1>6, <1>8, <1>9, <1>10, Zenon DEF F, rs

\* Areas with k frames for their pages and three tables, and n frames for a
\* kernel stack.
Needs(rs, k, n) ==
  /\ Ranges(rs) /\ Len(rs) = 4 /\ rs[1].start < rs[1].end
  /\ k \in Nat /\ k = FramesNeeded(rs) /\ n \in Nat

\* The frames s are the tables, the kernel stack and the pages of areas rs.
Divided(s, rs, k, n) ==
  /\ Apart(TableFrames(s), SubSeq(s, k + 1, k + n), NewAreas(rs, s))
  /\ \A f \in Frame :
       Contains(s, f) <=> \/ Contains(TableFrames(s), f)
                          \/ Contains(SubSeq(s, k + 1, k + n), f)
                          \/ InAreas(NewAreas(rs, s), f)
  /\ Len(NewAreas(rs, s)) = 4
  /\ \A j \in 1..4 : /\ NewAreas(rs, s)[j].start = rs[j].start
                     /\ NewAreas(rs, s)[j].end = rs[j].end

\* A new address space takes the first k of the frames s, for each page of the
\* areas rs and for three tables, and a kernel stack the n others.
LEMMA NewHoldings ==
  ASSUME NEW rs, NEW k, NEW n, Needs(rs, k, n),
         NEW s \in Seq(Frame), Len(s) = k + n, IsInjective(s)
  PROVE  Divided(s, rs, k, n)
PROOF
  <1> DEFINE pg == Pages(rs)
             L == Len(pg)
             new == NewAreas(rs, s)
             t == TableFrames(s)
             ks == SubSeq(s, k + 1, k + n)
             Pos(i) == IF i = 1 THEN 3 ELSE i + 3
             At(j, v) == CHOOSE i \in 1..L : pg[i] = <<j, v>>
  <1> SUFFICES ASSUME Ranges(rs), Len(rs) = 4, rs[1].start < rs[1].end,
                      k \in Nat, k = FramesNeeded(rs), n \in Nat
               PROVE  Divided(s, rs, k, n)
    BY Zenon DEF Needs
  <1>1. /\ pg \in Seq(Nat \X Nat) /\ IsInjective(pg)
        /\ \A x : Contains(pg, x) <=> \E j \in 1..4 : \E v \in AreaPages(rs[j]) : x = <<j, v>>
    <2>1. \A x : Contains(pg, x) <=> \E j \in 1..Len(rs) : \E v \in AreaPages(rs[j]) : x = <<j, v>>
      BY PagesProperties, Zenon
    <2> QED BY <2>1, PagesProperties
  <1>2. L \in Nat /\ k = L + 3
    BY <1>1, SeqLen, Zenon DEF FramesNeeded
  <1>3. \A j \in 1..4 : /\ rs[j].start \in VPN /\ rs[j].end \in 0..(Top + 1)
                        /\ AreaPages(rs[j]) \subseteq VPN
    <2>1. ASSUME NEW j \in 1..4
          PROVE  rs[j].start \in VPN /\ rs[j].end \in 0..(Top + 1)
      BY Zenon DEF Ranges
    <2>2. ASSUME NEW j \in 1..4
          PROVE  AreaPages(rs[j]) \subseteq VPN
      <3>1. Top \in Nat
        BY MemoryAssumption, Zenon
      <3> DEFINE a == rs[j].start
                 b == rs[j].end
      <3>2. a \in 0..Top /\ b \in 0..(Top + 1)
        BY <2>1, Zenon DEF VPN
      <3> HIDE DEF a, b
      <3>3. a..(b - 1) \subseteq 0..Top
        BY <3>1, <3>2
      <3> QED BY <3>3, Zenon DEF AreaPages, VPN, a, b
    <2> QED BY <2>1, <2>2, Zenon
  <1> DEFINE Df(j) == [v \in VPN |-> IF v \in AreaPages(rs[j]) THEN PageFrame(s, At(j, v)) ELSE None]
  <1>4. /\ Len(new) = 4 /\ new = [j \in 1..4 |-> new[j]]
        /\ \A j \in 1..4 : /\ new[j] = [start |-> new[j].start, end |-> new[j].end,
                                        data_frames |-> new[j].data_frames]
                           /\ new[j].start = rs[j].start /\ new[j].end = rs[j].end
                           /\ new[j].data_frames = [v \in VPN |-> new[j].data_frames[v]]
                           /\ \A v \in VPN : new[j].data_frames[v] =
                                IF v \in AreaPages(rs[j]) THEN PageFrame(s, At(j, v)) ELSE None
    <2>1. new = [j \in 1..4 |-> [start |-> rs[j].start, end |-> rs[j].end, data_frames |-> Df(j)]]
      BY Zenon DEF NewAreas
    <2>2. \A j \in 1..4 : /\ Df(j) = [v \in VPN |-> Df(j)[v]]
                          /\ \A v \in VPN : Df(j)[v] =
                               IF v \in AreaPages(rs[j]) THEN PageFrame(s, At(j, v)) ELSE None
      OBVIOUS
    <2> HIDE DEF Df, new
    <2>3. \A j \in 1..4 : new[j] = [start |-> rs[j].start, end |-> rs[j].end, data_frames |-> Df(j)]
      BY <2>1, Zenon
    <2>4. Len(new) = 4 /\ new = [j \in 1..4 |-> new[j]]
      BY <2>1
    <2>5. \A j \in 1..4 : /\ new[j].start = rs[j].start /\ new[j].end = rs[j].end
                          /\ new[j].data_frames = Df(j)
      BY <2>3
    <2>6. \A j \in 1..4 : new[j] = [start |-> new[j].start, end |-> new[j].end,
                                    data_frames |-> new[j].data_frames]
      BY <2>3, <2>5, Zenon
    <2>7. ASSUME NEW j \in 1..4
          PROVE  /\ new[j].data_frames = [v \in VPN |-> new[j].data_frames[v]]
                 /\ \A v \in VPN : new[j].data_frames[v] =
                      IF v \in AreaPages(rs[j]) THEN PageFrame(s, At(j, v)) ELSE None
      <3>1. new[j].data_frames = Df(j)
        BY <2>5, Zenon
      <3>2. /\ Df(j) = [v \in VPN |-> Df(j)[v]]
            /\ \A v \in VPN : Df(j)[v] =
                 IF v \in AreaPages(rs[j]) THEN PageFrame(s, At(j, v)) ELSE None
        BY <2>2, Zenon
      <3> HIDE DEF At
      <3> QED BY <3>1, <3>2, Zenon
    <2> HIDE DEF At
    <2> QED BY <2>4, <2>5, <2>6, <2>7, Zenon
  <1> HIDE DEF pg, new, Df
  <1>5. \A i \in 1..L : /\ Pos(i) \in 1..(k + n) /\ Pos(i) <= k /\ Pos(i) \notin {1, 2, 4}
                        /\ PageFrame(s, i) = s[Pos(i)] /\ s[Pos(i)] \in Frame
    BY <1>2, SeqElement DEF PageFrame
  <1>6. \A i, j \in 1..L : Pos(i) = Pos(j) => i = j
    BY <1>2
  <1>7. \A i, j \in 1..(k + n) : s[i] = s[j] => i = j
    BY InjectiveSeq
  <1>8. ASSUME NEW i \in 3..k, i # 4
        PROVE  \E l \in 1..L : Pos(l) = i
    <2>1. CASE i = 3
      <3>1. rs[1].start \in AreaPages(rs[1])
        <4> DEFINE a == rs[1].start
                   b == rs[1].end
        <4>1. a \in 0..Top /\ b \in 0..(Top + 1) /\ a < b
          BY <1>3 DEF VPN
        <4> HIDE DEF a, b
        <4>2. a \in a..(b - 1)
          BY <4>1
        <4> QED BY <4>2, Zenon DEF a, b, AreaPages
      <3>2. Contains(pg, <<1, rs[1].start>>)
        BY <1>1, <3>1
      <3>3. 1 \in 1..L
        BY <1>2, <3>2 DEF Contains
      <3> QED BY <2>1, <3>3, Zenon
    <2>2. CASE i # 3
      <3>1. i - 3 \in 1..L /\ Pos(i - 3) = i
        BY <1>2, <1>8, <2>2
      <3> QED BY <3>1, Zenon
    <2> QED BY <2>1, <2>2, Zenon
  <1> HIDE DEF Pos, L
  <1>9. ASSUME NEW j \in 1..4, NEW v \in AreaPages(rs[j])
        PROVE  /\ At(j, v) \in 1..L /\ pg[At(j, v)] = <<j, v>>
               /\ new[j].data_frames[v] = s[Pos(At(j, v))] /\ v \in VPN
    <2>1. Contains(pg, <<j, v>>)
      BY <1>1, Zenon
    <2>2. \E i \in 1..L : pg[i] = <<j, v>>
      BY <2>1, Zenon DEF Contains, L
    <2>3. At(j, v) \in 1..L /\ pg[At(j, v)] = <<j, v>>
      BY <2>2, Zenon
    <2> HIDE DEF At
    <2> QED BY <1>3, <1>4, <1>5, <2>3, Zenon
  <1> HIDE DEF At
  <1>10. \A j \in 1..4, v \in VPN : new[j].data_frames[v] # None <=> v \in AreaPages(rs[j])
    <2>1. \A f \in Frame : f # None
      BY MemoryAssumption DEF Frame
    <2>2. ASSUME NEW j \in 1..4, NEW v \in VPN
          PROVE  new[j].data_frames[v] # None <=> v \in AreaPages(rs[j])
      <3>1. CASE v \in AreaPages(rs[j])
        BY <1>5, <1>9, <2>1, <3>1, Zenon
      <3>2. CASE v \notin AreaPages(rs[j])
        BY <1>4, <3>2, Zenon
      <3> QED BY <3>1, <3>2, Zenon
    <2> QED BY <2>2, Zenon
  <1>11. ASSUME NEW f \in Frame
         PROVE  InAreas(new, f) <=> \E i \in 1..L : s[Pos(i)] = f
    <2>1. f # None
      BY MemoryAssumption DEF Frame
    <2>2. ASSUME NEW j \in 1..4, NEW v \in VPN, new[j].data_frames[v] = f
          PROVE  \E i \in 1..L : s[Pos(i)] = f
      BY <1>9, <1>10, <2>1, <2>2, Zenon
    <2>3. ASSUME NEW i \in 1..L, s[Pos(i)] = f
          PROVE  InAreas(new, f)
      <3>1. Contains(pg, pg[i])
        BY Zenon DEF Contains, L
      <3>2. PICK j \in 1..4 : \E v \in AreaPages(rs[j]) : pg[i] = <<j, v>>
        BY <1>1, <3>1, Zenon
      <3>3. PICK v \in AreaPages(rs[j]) : pg[i] = <<j, v>>
        BY <3>2, Zenon
      <3>4. pg[At(j, v)] = pg[i] /\ At(j, v) \in 1..L
        BY <1>9, <3>3, Zenon
      <3>5. At(j, v) = i
        BY <1>1, <3>4, InjectiveSeq, Zenon DEF L
      <3>6. new[j].data_frames[v] = f /\ v \in VPN
        BY <1>9, <2>3, <3>5, SMTT(30)
      <3> QED BY <1>4, <3>6, Zenon DEF InAreas
    <2> QED BY <1>4, <2>2, <2>3, Zenon DEF InAreas
  <1>12. AreasOk(new)
    <2>1. ASSUME NEW j \in 1..4
          PROVE  new[j].data_frames \in [VPN -> Frame \union {None}]
      <3>1. \A v \in VPN : new[j].data_frames[v] \in Frame \union {None}
        <4>1. \A v \in AreaPages(rs[j]) : new[j].data_frames[v] \in Frame
          BY <1>5, <1>9, Zenon
        <4> QED BY <1>10, <4>1, Zenon
      <3> HIDE DEF At
      <3> QED BY <1>4, <3>1, Zenon
    <2>2. new \in Seq(MapArea)
      <3>1. \A j \in 1..4 : new[j] \in MapArea
        BY <1>3, <1>4, <2>1, SMTT(30) DEF MapArea
      <3> QED BY <1>4, <3>1
    <2>3. Ranges(new)
      BY <1>4, Zenon DEF Ranges
    <2>4. \A j \in 1..4 : AreaPages(new[j]) = AreaPages(rs[j])
      BY <1>4, Zenon DEF AreaPages
    <2>5. \A j, m \in 1..4, v, w \in VPN :
            new[j].data_frames[v] = new[m].data_frames[w] /\ new[j].data_frames[v] # None
              => j = m /\ v = w
      <3> TAKE j, m \in 1..4, v, w \in VPN
      <3> HAVE new[j].data_frames[v] = new[m].data_frames[w] /\ new[j].data_frames[v] # None
      <3>1. v \in AreaPages(rs[j]) /\ w \in AreaPages(rs[m])
        BY <1>10, Zenon
      <3>2. Pos(At(j, v)) = Pos(At(m, w))
        <4>1. At(j, v) \in 1..L /\ At(m, w) \in 1..L /\ s[Pos(At(j, v))] = s[Pos(At(m, w))]
          BY <1>9, <3>1, Zenon
        <4>2. Pos(At(j, v)) \in 1..(k + n) /\ Pos(At(m, w)) \in 1..(k + n)
          BY <1>5, <4>1, Zenon
        <4> QED BY <1>7, <4>1, <4>2, Zenon
      <3>3. At(j, v) = At(m, w)
        BY <1>6, <1>9, <3>1, <3>2, Zenon
      <3>4. <<j, v>> = <<m, w>>
        <4>1. pg[At(j, v)] = <<j, v>> /\ pg[At(m, w)] = <<m, w>>
          BY <1>9, <3>1, Zenon
        <4> QED BY <3>3, <4>1, Zenon
      <3> QED BY <3>4, Zenon
    <2>6. \A j \in 1..4, v \in VPN : new[j].data_frames[v] # None <=> v \in AreaPages(new[j])
      BY <1>10, <2>4, Zenon
    <2> QED BY <1>4, <2>2, <2>3, <2>5, <2>6, FourAreas, Zenon
  <1>13. /\ t \in Seq(Frame) /\ Len(t) = 3 /\ t[1] = s[1] /\ t[2] = s[2] /\ t[3] = s[4]
         /\ IsInjective(t)
         /\ \A f : Contains(t, f) <=> \E i \in {1, 2, 4} : s[i] = f
    <2>0. 4 \in 1..k
      <3>1. 3 \in 3..k
        BY <1>2
      <3>2. \E l \in 1..L : Pos(l) = 3
        BY <1>8, <3>1
      <3> QED BY <1>2, <3>2 DEF L
    <2>1. 1 \in 1..(k + n) /\ 2 \in 1..(k + n) /\ 4 \in 1..(k + n)
      BY <1>2, <2>0
    <2>2. s[1] \in Frame /\ s[2] \in Frame /\ s[4] \in Frame
      BY <2>1, SeqElement, Zenon
    <2>3. t \in Seq(Frame) /\ Len(t) = 3 /\ t[1] = s[1] /\ t[2] = s[2] /\ t[3] = s[4]
      BY <2>2 DEF TableFrames
    <2> HIDE DEF t
    <2>4. s[1] # s[2] /\ s[1] # s[4] /\ s[2] # s[4]
      BY <1>7, <2>1
    <2>5. IsInjective(t)
      <3>1. \A i, j \in 1..3 : t[i] = t[j] => i = j
        BY <2>3, <2>4
      <3> QED BY <2>3, <3>1, InjectiveSeq, SMTT(30)
    <2>6. \A f : Contains(t, f) <=> \E i \in 1..3 : t[i] = f
      BY <2>3, Zenon DEF Contains
    <2> QED BY <2>3, <2>5, <2>6
  <1>14. /\ ks \in Seq(Frame) /\ IsInjective(ks)
         /\ \A f : Contains(ks, f) <=> \E i \in (k + 1)..(k + n) : s[i] = f
    <2>1. \A i \in (k + 1)..(k + n) : i \in 1..(k + n) /\ s[i] \in Frame
      BY SeqElement
    <2>2. /\ ks \in Seq(Frame) /\ Len(ks) = n
          /\ \A i \in 1..n : ks[i] = s[k + i]
      <3> DEFINE a == k + 1
                 b == k + n
      <3>1. a \in Int /\ b \in Int /\ \A i \in a..b : s[i] \in Frame
        BY <2>1
      <3>2. ks = SubSeq(s, a, b) /\ b - a + 1 = n /\ \A i \in 1..n : a + i - 1 = k + i
        OBVIOUS
      <3>3. (IF a <= b THEN n ELSE 0) = n
        OBVIOUS
      <3> HIDE DEF a, b, ks
      <3>4. /\ SubSeq(s, a, b) \in Seq(Frame)
            /\ Len(SubSeq(s, a, b)) = IF a <= b THEN b - a + 1 ELSE 0
            /\ \A i \in 1..(b - a + 1) : SubSeq(s, a, b)[i] = s[a + i - 1]
        BY <3>1, SeqSubSeq
      <3> QED BY <3>2, <3>3, <3>4, Zenon
    <2> HIDE DEF ks
    <2>3. IsInjective(ks)
      <3>1. \A i \in 1..n : k + i \in 1..(k + n)
        OBVIOUS
      <3>2. \A i, j \in 1..n : ks[i] = ks[j] => i = j
        <4>1. ASSUME NEW i \in 1..n, NEW j \in 1..n, ks[i] = ks[j]
              PROVE  i = j
          <5>1. ks[i] = s[k + i] /\ ks[j] = s[k + j]
            BY <2>2, Zenon
          <5>2. k + i \in 1..(k + n) /\ k + j \in 1..(k + n)
            BY <3>1, Zenon
          <5>3. k + i = k + j
            BY <1>7, <4>1, <5>1, <5>2, Zenon
          <5> QED BY <1>2, <5>3
        <4> QED BY <4>1, Zenon
      <3> QED BY <2>2, <3>2, InjectiveSeq, Zenon
    <2>4. ASSUME NEW f
          PROVE  Contains(ks, f) <=> \E i \in (k + 1)..(k + n) : s[i] = f
      <3>1. ASSUME NEW i \in (k + 1)..(k + n), s[i] = f
            PROVE  \E l \in 1..n : ks[l] = f
        <4>1. i - k \in 1..n /\ k + (i - k) = i
          OBVIOUS
        <4> QED BY <2>2, <3>1, <4>1, Zenon
      <3>2. ASSUME NEW l \in 1..n, ks[l] = f
            PROVE  \E i \in (k + 1)..(k + n) : s[i] = f
        BY <2>2, <3>2
      <3> QED BY <2>2, <3>1, <3>2, Zenon DEF Contains
    <2> QED BY <2>2, <2>3, <2>4, Zenon
  <1> HIDE DEF t, ks
  <1>15. 4 \in 1..k
    <2>1. 3 \in 3..k
      BY <1>2
    <2>2. \E l \in 1..L : Pos(l) = 3
      BY <1>8, <2>1
    <2> QED BY <1>2, <2>2 DEF L
  <1>16. ASSUME NEW f \in Frame
         PROVE  /\ ~(Contains(t, f) /\ Contains(ks, f))
                /\ ~(Contains(t, f) /\ InAreas(new, f))
                /\ ~(Contains(ks, f) /\ InAreas(new, f))
    <2>1. /\ Contains(t, f) => \E i \in {1, 2, 4} : s[i] = f
          /\ Contains(ks, f) => \E i \in (k + 1)..(k + n) : s[i] = f
          /\ InAreas(new, f) => \E i \in 3..k : i # 4 /\ s[i] = f
      <3>1. ASSUME NEW l \in 1..L
            PROVE  Pos(l) \in 3..k /\ Pos(l) # 4
        BY <1>5
      <3> QED BY <1>11, <1>13, <1>14, <3>1, Zenon
    <2>2. /\ {1, 2, 4} \subseteq 1..(k + n)
          /\ (k + 1)..(k + n) \subseteq 1..(k + n)
          /\ 3..k \subseteq 1..(k + n)
      BY <1>15
    <2>3. \A i \in {1, 2, 4} : i \notin (k + 1)..(k + n)
      BY <1>15
    <2>4. \A i \in 3..k : i \notin (k + 1)..(k + n) /\ i \notin {1, 2}
      BY <1>15
    <2> QED BY <1>7, <2>1, <2>2, <2>3, <2>4
  <1>17. ASSUME NEW f \in Frame
         PROVE  Contains(s, f) <=> Contains(t, f) \/ Contains(ks, f) \/ InAreas(new, f)
    <2>1. Contains(s, f) <=> \E i \in 1..(k + n) : s[i] = f
      BY Zenon DEF Contains
    <2>2. \A i \in 1..(k + n) : \/ i \in {1, 2, 4}
                                \/ i \in (k + 1)..(k + n)
                                \/ i \in 3..k /\ i # 4
      OBVIOUS
    <2>3. \A i \in {1, 2, 4} : i \in 1..(k + n)
      BY <1>15
    <2>4. \A i \in (k + 1)..(k + n) : i \in 1..(k + n)
      OBVIOUS
    <2>5. \A l \in 1..L : Pos(l) \in 1..(k + n)
      BY <1>5, Zenon
    <2>6. ASSUME NEW i \in 3..k, i # 4, s[i] = f
          PROVE  InAreas(new, f)
      BY <1>8, <1>11, <2>6, Zenon
    <2> QED BY <1>11, <1>13, <1>14, <2>1, <2>2, <2>3, <2>4, <2>5, <2>6, Zenon
  <1>18. Apart(t, ks, new)
    BY <1>12, <1>13, <1>14, <1>16, Zenon DEF Apart
  <1> QED BY <1>4, <1>17, <1>18, Zenon DEF t, ks, new, Divided

-----------------------------------------------------------------------------
(* The steps keep the invariant for frames.                                *)

\* Nothing that p does not own changes.
Others(p) ==
  \A q \in Proc \ {p} : /\ status'[q] = status[q] /\ tables'[q] = tables[q]
                        /\ kernel_stack'[q] = kernel_stack[q] /\ areas'[q] = areas[q]

\* A step that hands the frames back over to the allocator and the next n
\* frames to p keeps the invariant.
LEMMA HandOver ==
  ASSUME FrameInv, NEW n \in Nat, n <= Len(Supply), NEW p \in Proc,
         NEW back \in Seq(Frame), IsInjective(back),
         \A f \in Frame : Contains(back, f) => Owned(p, f),
         alloc_dealloc(n, back),
         \A f \in Frame : Owned(p, f)' <=> \/ Owned(p, f) /\ ~Contains(back, f)
                                           \/ Contains(SubSeq(Supply, 1, n), f),
         Others(p), HoldersType', Apart(tables[p], kernel_stack[p], areas[p])', Stage(p)',
         halted' # "dealloc"
  PROVE  FrameInv'
PROOF
  <1>1. \A q \in Proc \ {p}, f \in Frame : Owned(q, f)' <=> Owned(q, f)
    BY Zenon DEF Others, Owned
  <1>2. AllocInv /\ Ownership
    BY Zenon DEF FrameInv
  <1>3. AllocInv' /\ Ownership'
    BY <1>1, <1>2, Transfer, Zenon
  <1>4. ASSUME NEW q \in Proc
        PROVE  Apart(tables[q], kernel_stack[q], areas[q])' /\ Stage(q)'
    <2>1. CASE q = p
      BY <2>1, Zenon
    <2>2. CASE q # p
      <3>1. Apart(tables[q], kernel_stack[q], areas[q]) /\ Stage(q)
        BY Zenon DEF FrameInv
      <3>2. /\ status'[q] = status[q] /\ tables'[q] = tables[q]
            /\ kernel_stack'[q] = kernel_stack[q] /\ areas'[q] = areas[q]
        BY <2>2, Zenon DEF Others
      <3>3. Apart(tables[q], kernel_stack[q], areas[q])'
        BY <3>1, <3>2
      <3>4. Stage(q)'
        BY <3>1, <3>2, Zenon DEF Stage
      <3> QED BY <3>3, <3>4, Zenon
    <2> QED BY <2>1, <2>2, Zenon
  <1> QED BY <1>3, <1>4, Zenon DEF FrameInv

\* A step that changes nobody's frames keeps the invariant: a panic, a store,
\* sys_munmap.
LEMMA FrameStutter ==
  ASSUME FrameInv, UNCHANGED <<current, recycled, status, tables, kernel_stack, areas>>,
         halted' # "dealloc"
  PROVE  FrameInv'
PROOF
  <1>1. AllocInv'
    BY Zenon DEF FrameInv, AllocInv, AllocType
  <1>2. Ownership'
    BY Zenon DEF FrameInv, Ownership, Owned, Free
  <1>3. HoldersType'
    BY Zenon DEF FrameInv, HoldersType
  <1>4. ASSUME NEW p \in Proc PROVE Apart(tables[p], kernel_stack[p], areas[p])'
    <2>1. Apart(tables[p], kernel_stack[p], areas[p])
      BY Zenon DEF FrameInv
    <2>2. tables'[p] = tables[p] /\ kernel_stack'[p] = kernel_stack[p] /\ areas'[p] = areas[p]
      BY Zenon
    <2> QED BY <2>1, <2>2
  <1>5. \A p \in Proc : Stage(p)'
    BY Zenon DEF FrameInv, Stage
  <1> QED BY <1>1, <1>2, <1>3, <1>4, <1>5, Zenon DEF FrameInv

\* dealloc does not panic on frames that p owns, each given back once.
LEMMA NoDeallocPanic ==
  ASSUME FrameInv, NEW p \in Proc, NEW back \in Seq(Frame), IsInjective(back),
         \A f \in Frame : Contains(back, f) => Owned(p, f)
  PROVE  ~DeallocPanics(back)
PROOF
  <1>1. \A f \in Frame : Contains(back, f) => ~Free(f)
    BY Zenon DEF FrameInv, Ownership
  <1>2. current \in Nat /\ NFrames \in Nat /\ Len(back) \in Nat
    BY MemoryAssumption, SeqLen DEF FrameInv, AllocInv, AllocType
  <1>3. SUFFICES ASSUME NEW i \in 1..Len(back),
                        \/ back[i] >= current
                        \/ Contains(recycled, back[i])
                        \/ \E j \in 1..(i - 1) : back[j] = back[i]
                 PROVE  FALSE
    BY Zenon DEF DeallocPanics
  <1>4. back[i] \in Frame /\ Contains(back, back[i])
    BY SeqElement, Zenon DEF Contains
  <1>5. ~Free(back[i])
    BY <1>1, <1>4, Zenon
  <1>6. CASE back[i] >= current
    BY <1>2, <1>4, <1>5, <1>6 DEF Free, Frame
  <1>7. CASE Contains(recycled, back[i])
    BY <1>5, <1>7, Zenon DEF Free
  <1>8. CASE \E j \in 1..(i - 1) : back[j] = back[i]
    <2>1. PICK j \in 1..(i - 1) : back[j] = back[i]
      BY <1>8, Zenon
    <2>2. j \in 1..Len(back) /\ j # i
      BY <1>2
    <2> QED BY <2>1, <2>2, InjectiveSeq, Zenon
  <1> QED BY <1>3, <1>6, <1>7, <1>8, Zenon

\* What comes back when a MemorySet, or a whole TCB, is dropped.
LEMMA FramesBack ==
  ASSUME FrameInv, NEW p \in Proc
  PROVE  /\ SpaceFrames(p) \in Seq(Frame) /\ IsInjective(SpaceFrames(p))
         /\ \A f \in Frame : Contains(SpaceFrames(p), f) <=>
                               Contains(tables[p], f) \/ InAreas(areas[p], f)
         /\ kernel_stack[p] \o SpaceFrames(p) \in Seq(Frame)
         /\ IsInjective(kernel_stack[p] \o SpaceFrames(p))
         /\ \A f \in Frame : Contains(kernel_stack[p] \o SpaceFrames(p), f) <=> Owned(p, f)
PROOF
  <1> DEFINE t == tables[p]
             ks == kernel_stack[p]
             af == AreaFrames(p)
             sf == SpaceFrames(p)
  <1>1. Apart(t, ks, areas[p])
    BY Zenon DEF FrameInv
  <1>2. /\ t \in Seq(Frame) /\ ks \in Seq(Frame) /\ IsInjective(t) /\ IsInjective(ks)
        /\ \A f \in Frame : /\ ~(Contains(t, f) /\ Contains(ks, f))
                            /\ ~(Contains(t, f) /\ InAreas(areas[p], f))
                            /\ ~(Contains(ks, f) /\ InAreas(areas[p], f))
    BY <1>1, Zenon DEF Apart
  <1>3. /\ af \in Seq(Frame) /\ IsInjective(af)
        /\ \A f \in Frame : Contains(af, f) <=> InAreas(areas[p], f)
    BY <1>1, FramesOfAreas, Zenon DEF Apart
  <1>4. sf = t \o af
    BY Zenon DEF SpaceFrames
  <1> HIDE DEF t, ks, af, sf
  <1>5. \A f : Contains(t, f) \/ Contains(ks, f) \/ Contains(af, f) => f \in Frame
    BY <1>2, <1>3, ContainsTyped, Zenon
  <1>6. /\ sf \in Seq(Frame) /\ IsInjective(sf)
        /\ \A f : Contains(sf, f) <=> Contains(t, f) \/ Contains(af, f)
    <2>1. \A f : ~(Contains(t, f) /\ Contains(af, f))
      BY <1>2, <1>3, <1>5, Zenon
    <2> QED BY <1>2, <1>3, <1>4, <2>1, ConcatMembers, SeqConcat, Zenon
  <1>7. /\ ks \o sf \in Seq(Frame) /\ IsInjective(ks \o sf)
        /\ \A f : Contains(ks \o sf, f) <=> Contains(ks, f) \/ Contains(sf, f)
    <2>1. \A f : ~(Contains(ks, f) /\ Contains(sf, f))
      BY <1>2, <1>3, <1>5, <1>6, Zenon
    <2> QED BY <1>2, <1>6, <2>1, ConcatMembers, SeqConcat, Zenon
  <1>8. \A f \in Frame : Owned(p, f) <=> Contains(t, f) \/ Contains(ks, f) \/ InAreas(areas[p], f)
    BY Zenon DEF Owned, t, ks
  <1> QED BY <1>3, <1>6, <1>7, <1>8, Zenon DEF t, ks, sf

\* What the first frames of the allocator become when NewSpace succeeds.
LEMMA NewFrames ==
  ASSUME FrameInv, NEW rs, NEW k, NEW n, Needs(rs, k, n), k + n <= Len(Supply),
         NEW s, s = SubSeq(Supply, 1, k + n)
  PROVE  /\ s \in Seq(Frame) /\ Len(s) = k + n /\ IsInjective(s)
         /\ \A f : Contains(s, f) => f \in Frame /\ Free(f)
         /\ Divided(s, rs, k, n)
PROOF
  <1>1. k + n \in Nat /\ AllocInv
    BY DEF FrameInv, Needs
  <1>2. /\ s \in Seq(Frame) /\ Len(s) = k + n /\ IsInjective(s)
        /\ \A f : Contains(s, f) => Free(f)
    <2> DEFINE l == k + n
    <2>1. l \in Nat /\ l <= Len(Supply)
      BY <1>1, Zenon
    <2> HIDE DEF l
    <2>2. /\ SubSeq(Supply, 1, l) \in Seq(Frame) /\ Len(SubSeq(Supply, 1, l)) = l
          /\ IsInjective(SubSeq(Supply, 1, l))
          /\ \A f : Contains(SubSeq(Supply, 1, l), f) => Free(f)
      BY <1>1, <2>1, SupplyPrefix, Zenon
    <2> QED BY <2>2, Zenon DEF l
  <1>3. \A f : Contains(s, f) => f \in Frame
    BY <1>2, ContainsTyped, Zenon
  <1>4. Divided(s, rs, k, n)
    BY <1>2, NewHoldings, Zenon
  <1> QED BY <1>2, <1>3, <1>4, Zenon

\* NewSpace keeps the invariant: p gives up all that back holds, which is
\* everything but its kernel stack, and gets a kernel stack when it has none.
LEMMA NewSpaceStep ==
  ASSUME FrameInv, NEW p \in Proc,
         NEW rs, Ranges(rs), Len(rs) = 4, rs[1].start < rs[1].end,
         NEW content, NEW n \in Nat,
         NEW back \in Seq(Frame), IsInjective(back),
         \A f \in Frame : Contains(back, f) <=> Contains(tables[p], f) \/ InAreas(areas[p], f),
         n # 0 => kernel_stack[p] = <<>>,
         halted = "no",
         NewSpace(p, rs, content, n, back)
  PROVE  FrameInv'
PROOF
  <1> DEFINE k == FramesNeeded(rs)
             s == SubSeq(Supply, 1, k + n)
             new == NewAreas(rs, s)
             ks == SubSeq(s, k + 1, k + n)
  <1>0. k \in Nat
    <2>1. Pages(rs) \in Seq(Nat \X Nat)
      BY PagesProperties, Zenon
    <2> QED BY <2>1, SeqLen DEF FramesNeeded
  <1>1. \A f \in Frame : Contains(back, f) => Owned(p, f)
    BY Zenon DEF Owned
  <1>2. ~DeallocPanics(back)
    BY <1>1, NoDeallocPanic, Zenon
  <1>3. CASE Panic("map") \/ Panic("frame_alloc")
    <2>1. UNCHANGED <<current, recycled, status, tables, kernel_stack, areas>> /\ halted' # "dealloc"
      BY <1>3, Zenon DEF Panic, allocVars, spaceVars
    <2> QED BY <2>1, FrameStutter, Zenon
  <1>4. CASE ~(Panic("map") \/ Panic("frame_alloc"))
    <2>1. /\ k + n <= Len(Supply)
          /\ alloc_dealloc(k + n, back)
          /\ status' = [status EXCEPT ![p] = "run"]
          /\ tables' = [tables EXCEPT ![p] = TableFrames(s)]
          /\ areas' = [areas EXCEPT ![p] = new]
          /\ kernel_stack' = IF n = 0 THEN kernel_stack ELSE [kernel_stack EXCEPT ![p] = ks]
          /\ UNCHANGED halted
      <3>1. Len(Supply) \in Nat
        BY SupplyElements, Zenon DEF FrameInv
      <3> HIDE DEF k, s, new, ks
      <3>2. /\ ~(k + n > Len(Supply))
            /\ alloc_dealloc(k + n, back)
            /\ status' = [status EXCEPT ![p] = "run"]
            /\ tables' = [tables EXCEPT ![p] = TableFrames(s)]
            /\ areas' = [areas EXCEPT ![p] = new]
            /\ kernel_stack' = IF n = 0 THEN kernel_stack ELSE [kernel_stack EXCEPT ![p] = ks]
            /\ UNCHANGED halted
        BY <1>2, <1>4, Zenon DEF NewSpace, k, s, new, ks
      <3> QED BY <1>0, <3>1, <3>2
    <2>0. Needs(rs, k, n) /\ s = SubSeq(Supply, 1, k + n)
      BY <1>0, Zenon DEF Needs
    <2> HIDE DEF k, s
    <2>2. /\ s \in Seq(Frame) /\ Len(s) = k + n /\ IsInjective(s)
          /\ \A f : Contains(s, f) => f \in Frame /\ Free(f)
          /\ Apart(TableFrames(s), ks, new)
          /\ \A f \in Frame : Contains(s, f) <=> \/ Contains(TableFrames(s), f)
                                                 \/ Contains(ks, f) \/ InAreas(new, f)
          /\ Len(new) = 4
          /\ \A j \in 1..4 : new[j].start = rs[j].start /\ new[j].end = rs[j].end
      <3>1. /\ s \in Seq(Frame) /\ Len(s) = k + n /\ IsInjective(s)
            /\ \A f : Contains(s, f) => f \in Frame /\ Free(f)
            /\ Divided(s, rs, k, n)
        BY <2>0, <2>1, NewFrames, Zenon
      <3> QED BY <3>1, Zenon DEF Divided
    <2>3. n = 0 => ks = <<>>
      BY <1>0, SeqSubSeqEmpty
    <2> HIDE DEF new, ks
    <2> DEFINE t == TableFrames(s)
    <2>4. /\ t \in Seq(Frame) /\ ks \in Seq(Frame) /\ new \in Seq(MapArea)
          /\ IsInjective(t) /\ IsInjective(ks) /\ AreasOk(new)
          /\ \A f \in Frame : /\ ~(Contains(t, f) /\ Contains(ks, f))
                              /\ ~(Contains(t, f) /\ InAreas(new, f))
                              /\ ~(Contains(ks, f) /\ InAreas(new, f))
      BY <2>2, Zenon DEF Apart, AreasOk
    <2> HIDE DEF t
    <2>5. /\ HoldersType
          /\ Apart(tables[p], kernel_stack[p], areas[p])
          /\ \A q \in Proc, f \in Frame : Owned(q, f) => ~Free(f)
      BY Zenon DEF FrameInv, Ownership
    <2>6. /\ tables'[p] = t /\ areas'[p] = new /\ status'[p] = "run"
          /\ kernel_stack'[p] = IF n = 0 THEN kernel_stack[p] ELSE ks
      BY <2>1, <2>5, Zenon DEF HoldersType, t
    <2>7. Others(p)
      BY <2>1, <2>5, Zenon DEF HoldersType, Others
    <2>8. HoldersType'
      BY <2>1, <2>4, <2>5, Zenon DEF HoldersType, t
    <2>9. ASSUME NEW f \in Frame
          PROVE  Contains(kernel_stack'[p], f) <=> Contains(kernel_stack[p], f) \/ Contains(ks, f)
      <3>1. ~Contains(<<>>, f)
        BY DEF Contains
      <3> QED BY <2>3, <2>6, <3>1, Zenon
    <2>10. ASSUME NEW f \in Frame
           PROVE  Owned(p, f)' <=> (Owned(p, f) /\ ~Contains(back, f)) \/ Contains(s, f)
      <3>1. Owned(p, f)' <=> \/ Contains(t, f) \/ Contains(kernel_stack[p], f)
                             \/ Contains(ks, f) \/ InAreas(new, f)
        BY <2>6, <2>9, Zenon DEF Owned
      <3>2. Owned(p, f) /\ ~Contains(back, f) <=> Contains(kernel_stack[p], f)
        BY <2>5, Zenon DEF Owned, Apart
      <3> QED BY <2>2, <3>1, <3>2, Zenon DEF t
    <2>11. Apart(t, kernel_stack'[p], new)
      <3>1. kernel_stack'[p] \in Seq(Frame) /\ IsInjective(kernel_stack'[p])
        BY <2>4, <2>5, <2>6, Zenon DEF Apart
      <3>2. ASSUME NEW f \in Frame, Contains(kernel_stack[p], f)
            PROVE  ~Contains(t, f) /\ ~InAreas(new, f)
        <4>1. ~Free(f)
          BY <2>5, <3>2, Zenon DEF Owned
        <4> QED BY <2>2, <4>1, Zenon DEF t
      <3> QED BY <2>4, <2>9, <3>1, <3>2, Zenon DEF Apart
    <2>12. Apart(tables[p], kernel_stack[p], areas[p])'
      BY <2>6, <2>11, SMTT(30) DEF Apart, AreasOk, InAreas
    <2>13. Stage(p)'
      BY <2>2, <2>6 DEF Stage
    <2> DEFINE l == k + n
    <2>14. /\ l \in Nat /\ l <= Len(Supply) /\ alloc_dealloc(l, back) /\ halted' # "dealloc"
           /\ \A f \in Frame : Owned(p, f)' <=> \/ Owned(p, f) /\ ~Contains(back, f)
                                                \/ Contains(SubSeq(Supply, 1, l), f)
      BY <1>0, <2>1, <2>10 DEF s
    <2> HIDE DEF l
    <2> QED BY <1>1, <2>7, <2>8, <2>12, <2>13, <2>14, HandOver, Zenon
  <1> QED BY <1>3, <1>4, Zenon

\* exit_current_and_run_next gives the frames of the areas back.
LEMMA ExitStep ==
  ASSUME FrameInv, NEW p \in Proc, exit(p)
  PROVE  FrameInv'
PROOF
  <1> DEFINE back == AreaFrames(p)
  <1>1. HoldersType /\ Apart(tables[p], kernel_stack[p], areas[p])
    BY Zenon DEF FrameInv
  <1>2. /\ back \in Seq(Frame) /\ IsInjective(back)
        /\ \A f \in Frame : Contains(back, f) <=> InAreas(areas[p], f)
    BY <1>1, FramesOfAreas, Zenon DEF Apart
  <1>3. \A f \in Frame : Contains(back, f) => Owned(p, f)
    BY <1>2, Zenon DEF Owned
  <1>4. ~DeallocPanics(back)
    BY <1>2, <1>3, NoDeallocPanic, Zenon
  <1>5. /\ status' = [status EXCEPT ![p] = "zombie"]
        /\ alloc_dealloc(0, back)
        /\ areas' = [areas EXCEPT ![p] = <<>>]
        /\ UNCHANGED <<tables, kernel_stack, halted>> /\ halted = "no"
    BY <1>4, Zenon DEF exit, Running
  <1> HIDE DEF back
  <1>6. Others(p) /\ HoldersType' /\ areas'[p] = <<>> /\ status'[p] = "zombie"
    BY <1>1, <1>5 DEF Others, HoldersType
  <1>7. AreasOk(<<>>) /\ \A f : ~InAreas(<<>>, f)
    BY SMTT(30) DEF AreasOk, Ranges, InAreas
  <1>8. Apart(tables[p], kernel_stack[p], areas[p])'
    BY <1>1, <1>5, <1>6, <1>7, Zenon DEF Apart
  <1>9. Stage(p)'
    BY <1>5, <1>6, Zenon DEF Stage
  <1>10. 0 \in Nat /\ SubSeq(Supply, 1, 0) = <<>> /\ \A f : ~Contains(<<>>, f)
    BY SeqSubSeqEmpty DEF Contains
  <1>11. \A f \in Frame : Owned(p, f)' <=> \/ Owned(p, f) /\ ~Contains(back, f)
                                           \/ Contains(SubSeq(Supply, 1, 0), f)
    BY <1>1, <1>2, <1>5, <1>6, <1>7, <1>10, Zenon DEF Owned, Apart
  <1>12. 0 <= Len(Supply)
    BY SupplyElements, Zenon DEF FrameInv
  <1> QED BY <1>2, <1>3, <1>5, <1>6, <1>8, <1>9, <1>10, <1>11, <1>12, HandOver, Zenon

\* The drop of a TCB gives everything back.
LEMMA ReapStep ==
  ASSUME FrameInv, NEW p \in Proc, reap(p)
  PROVE  FrameInv'
PROOF
  <1> DEFINE back == kernel_stack[p] \o SpaceFrames(p)
  <1>1. HoldersType /\ Stage(p) /\ status[p] = "zombie" /\ halted = "no"
    BY Zenon DEF FrameInv, reap
  <1>2. /\ back \in Seq(Frame) /\ IsInjective(back)
        /\ \A f \in Frame : Contains(back, f) <=> Owned(p, f)
    BY FramesBack, Zenon
  <1>4. ~DeallocPanics(back)
    BY <1>2, NoDeallocPanic, Zenon
  <1>5. /\ status' = [status EXCEPT ![p] = "absent"]
        /\ alloc_dealloc(0, back)
        /\ tables' = [tables EXCEPT ![p] = <<>>]
        /\ kernel_stack' = [kernel_stack EXCEPT ![p] = <<>>]
        /\ UNCHANGED <<areas, halted>>
    BY <1>4, Zenon DEF reap
  <1> HIDE DEF back
  <1>6. /\ Others(p) /\ HoldersType' /\ tables'[p] = <<>> /\ kernel_stack'[p] = <<>>
        /\ areas'[p] = <<>> /\ status'[p] = "absent"
    BY <1>1, <1>5 DEF Others, HoldersType, Stage
  <1>7. /\ AreasOk(<<>>) /\ \A f : ~InAreas(<<>>, f) /\ ~Contains(<<>>, f)
        /\ IsInjective(<<>>)
    BY DEF AreasOk, Ranges, InAreas, Contains, IsInjective
  <1>8. Apart(tables[p], kernel_stack[p], areas[p])'
    BY <1>6, <1>7 DEF Apart
  <1>9. Stage(p)'
    BY <1>6, Zenon DEF Stage
  <1>10. 0 \in Nat /\ SubSeq(Supply, 1, 0) = <<>>
    BY SeqSubSeqEmpty
  <1>11. \A f \in Frame : Owned(p, f)' <=> \/ Owned(p, f) /\ ~Contains(back, f)
                                           \/ Contains(SubSeq(Supply, 1, 0), f)
    BY <1>2, <1>6, <1>7, <1>10, Zenon DEF Owned
  <1>12. 0 <= Len(Supply)
    BY SupplyElements, Zenon DEF FrameInv
  <1> QED BY <1>1, <1>2, <1>5, <1>6, <1>8, <1>9, <1>10, <1>11, <1>12, HandOver, Zenon

\* The area at index j of rs grows from page old up to page e with the frames
\* s, which gives rn.
Grows(rs, rn, j, old, e, s) ==
  /\ AreasOk(rs) /\ Len(rs) = 4 /\ j \in 1..4
  /\ e \in Nat /\ e <= Top + 1 /\ old \in Nat /\ rs[j].end = old /\ old <= e
  /\ s \in Seq(Frame) /\ Len(s) = e - old /\ IsInjective(s)
  /\ \A f \in Frame : Contains(s, f) => ~InAreas(rs, f)
  /\ rn \in Seq(MapArea) /\ Len(rn) = 4 /\ rn[j].start = rs[j].start /\ rn[j].end = e
  /\ \A v \in VPN : rn[j].data_frames[v] =
       IF v \in old..(e - 1) THEN s[v - old + 1] ELSE rs[j].data_frames[v]
  /\ \A i \in 1..4 : i # j => rn[i] = rs[i]

\* The areas then hold the frames s too.
LEMMA GrownAreas ==
  ASSUME NEW rs, NEW rn, NEW j, NEW old, NEW e, NEW s, Grows(rs, rn, j, old, e, s)
  PROVE  /\ AreasOk(rn)
         /\ \A f \in Frame : InAreas(rn, f) <=> InAreas(rs, f) \/ Contains(s, f)
PROOF
  <1> SUFFICES
        ASSUME AreasOk(rs), Len(rs) = 4, j \in 1..4,
               e \in Nat, e <= Top + 1, old \in Nat, rs[j].end = old, old <= e,
               s \in Seq(Frame), Len(s) = e - old, IsInjective(s),
               \A f \in Frame : Contains(s, f) => ~InAreas(rs, f),
               rn \in Seq(MapArea), Len(rn) = 4, rn[j].start = rs[j].start, rn[j].end = e,
               \A v \in VPN : rn[j].data_frames[v] =
                 IF v \in old..(e - 1) THEN s[v - old + 1] ELSE rs[j].data_frames[v],
               \A i \in 1..4 : i # j => rn[i] = rs[i]
        PROVE  /\ AreasOk(rn)
               /\ \A f \in Frame : InAreas(rn, f) <=> InAreas(rs, f) \/ Contains(s, f)
    BY Zenon DEF Grows
  <1> DEFINE new == old..(e - 1)
  <1>0. /\ rs \in Seq(MapArea) /\ Ranges(rs)
        /\ \A i \in 1..4, v \in VPN : rs[i].data_frames[v] # None <=> v \in AreaPages(rs[i])
        /\ \A i, k \in 1..4, v, w \in VPN :
             rs[i].data_frames[v] = rs[k].data_frames[w] /\ rs[i].data_frames[v] # None
               => i = k /\ v = w
    BY ZenonT(30) DEF AreasOk
  <1>1. /\ \A i \in 1..4 : rs[i] \in MapArea
        /\ \A i \in 1..4 : rs[i].start \in VPN /\ rs[i].end \in 0..(Top + 1) /\ rs[i].start <= rs[i].end
        /\ \A i \in 1..4, v \in VPN : rs[i].data_frames[v] \in Frame \union {None}
    <2>1. \A i \in 1..4 : rs[i] \in MapArea
      BY <1>0, SeqElement, Zenon
    <2> QED BY <1>0, <2>1, SMTT(30) DEF Ranges, MapArea
  <1>4. Top \in Nat /\ \A f \in Frame : f # None
    BY MemoryAssumption, SMTT(30) DEF Frame
  <1>5. ASSUME NEW v \in new
        PROVE  v \in VPN /\ v - old + 1 \in 1..Len(s) /\ s[v - old + 1] \in Frame
    <2>1. v \in VPN /\ v - old + 1 \in 1..Len(s)
      BY <1>4 DEF VPN
    <2> QED BY <2>1, SeqElement, Zenon
  <1>7. AreaPages(rn[j]) = AreaPages(rs[j]) \union new
    <2> DEFINE a == rs[j].start
    <2>1. a \in 0..Top /\ a <= old
      BY <1>1, SMTT(30) DEF VPN
    <2>2. AreaPages(rn[j]) = a..(e - 1) /\ AreaPages(rs[j]) = a..(old - 1)
      BY Zenon DEF AreaPages
    <2> HIDE DEF a
    <2> QED BY <1>4, <2>1, <2>2
  <1>8. new \intersect AreaPages(rs[j]) = {}
    <2> DEFINE a == rs[j].start
    <2>1. a \in 0..Top
      BY <1>1, Zenon DEF VPN
    <2>2. AreaPages(rs[j]) = a..(old - 1)
      BY Zenon DEF AreaPages
    <2> HIDE DEF a
    <2> QED BY <1>4, <2>1, <2>2
  <1>9. \A k, l \in 1..Len(s) : s[k] = s[l] => k = l
    BY InjectiveSeq, Zenon
  <1>10. \A v, w \in new : v - old + 1 = w - old + 1 => v = w
    BY <1>4, SMTT(30)
  <1>11. ASSUME NEW f
         PROVE  Contains(s, f) <=> \E v \in new : s[v - old + 1] = f
    <2>1. ASSUME NEW i \in 1..Len(s), s[i] = f
          PROVE  \E v \in new : s[v - old + 1] = f
      <3>1. old + i - 1 \in new /\ (old + i - 1) - old + 1 = i
        BY <1>4
      <3> QED BY <2>1, <3>1, Zenon
    <2> QED BY <1>5, <2>1, Zenon DEF Contains
  <1> HIDE DEF new
  <1> DEFINE D(i, v) == rs[i].data_frames[v]
             N(i, v) == rn[i].data_frames[v]
             S(v) == s[v - old + 1]
  <1>12. /\ \A i \in 1..4, v \in VPN : i # j => N(i, v) = D(i, v)
         /\ \A v \in VPN : v \notin new => N(j, v) = D(j, v)
         /\ \A v \in new : N(j, v) = S(v) /\ v \in VPN
    BY <1>5, Zenon DEF new
  <1>13. \A v, w \in new : S(v) = S(w) => v = w
    BY <1>5, <1>9, <1>10, Zenon
  <1>14. \A v \in new : /\ S(v) \in Frame /\ S(v) # None
                        /\ \A i \in 1..4, w \in VPN : D(i, w) # S(v)
    <2>1. \A v \in new : S(v) \in Frame /\ S(v) # None
      BY <1>4, <1>5, Zenon
    <2>2. \A v \in new : ~InAreas(rs, S(v))
      BY <1>11, <2>1, Zenon
    <2> QED BY <2>1, <2>2 DEF InAreas
  <1>15. /\ \A i \in 1..4, v \in VPN : D(i, v) # None <=> v \in AreaPages(rs[i])
         /\ \A i, k \in 1..4, v, w \in VPN : D(i, v) = D(k, w) /\ D(i, v) # None => i = k /\ v = w
         /\ \A i \in 1..4, v \in VPN : D(i, v) \in Frame \union {None}
    BY <1>0, <1>1, Zenon
  <1> HIDE DEF S, D, N
  <1>16. \A i \in 1..4, v \in VPN : N(i, v) # None <=> v \in AreaPages(rn[i])
    <2>1. ASSUME NEW i \in 1..4, NEW v \in VPN
          PROVE  N(i, v) # None <=> v \in AreaPages(rn[i])
      <3>1. CASE i # j
        BY <1>12, <1>15, <3>1
      <3>2. CASE i = j /\ v \in new
        BY <1>7, <1>12, <1>14, <3>2, Zenon
      <3>3. CASE i = j /\ v \notin new
        BY <1>7, <1>12, <1>15, <3>3, SMTT(30)
      <3> QED BY <3>1, <3>2, <3>3, Zenon
    <2> QED BY <2>1, Zenon
  <1>17. \A i, k \in 1..4, v, w \in VPN : N(i, v) = N(k, w) /\ N(i, v) # None => i = k /\ v = w
    <2>1. ASSUME NEW i \in 1..4, NEW v \in VPN
          PROVE  N(i, v) = D(i, v) \/ (i = j /\ v \in new /\ N(i, v) = S(v))
      BY <1>12, Zenon
    <2> QED BY <1>13, <1>14, <1>15, <2>1, SMTT(30)
  <1>18. ASSUME NEW f \in Frame
         PROVE  InAreas(rn, f) <=> InAreas(rs, f) \/ Contains(s, f)
    <2>1. InAreas(rn, f) <=> \E i \in 1..4, v \in VPN : N(i, v) = f
      BY Zenon DEF InAreas, N
    <2>2. InAreas(rs, f) <=> \E i \in 1..4, v \in VPN : D(i, v) = f
      BY Zenon DEF InAreas, D
    <2>3. Contains(s, f) <=> \E v \in new : S(v) = f
      BY <1>11, Zenon DEF S
    <2>4. \A v \in new : D(j, v) = None
      BY <1>8, <1>12, <1>15, Zenon
    <2> QED BY <1>4, <1>12, <2>1, <2>2, <2>3, <2>4, SMTT(30)
  <1>20. Ranges(rn)
    <2>1. \A i \in 1..4 : rn[i].start \in VPN /\ rn[i].end \in 0..(Top + 1) /\ rn[i].start <= rn[i].end
      <3>1. rn[j].start \in VPN /\ rn[j].end \in 0..(Top + 1) /\ rn[j].start <= rn[j].end
        <4> DEFINE a == rs[j].start
        <4>1. a \in 0..Top /\ a <= old
          BY <1>1, Zenon DEF VPN
        <4> HIDE DEF a
        <4>2. a \in 0..Top /\ e \in 0..(Top + 1) /\ a <= e
          BY <1>4, <4>1
        <4> QED BY <4>2, Zenon DEF a, VPN
      <3> QED BY <1>1, <3>1, SMTT(30)
    <2> QED BY <2>1, Zenon DEF Ranges
  <1>21. AreasOk(rn)
    BY <1>16, <1>17, <1>20, FourAreas, Zenon DEF N
  <1> QED BY <1>18, <1>21, Zenon

\* append_to, when it does not panic, makes the area grow with free frames.
AppendPanics == Panic("VPNRange") \/ Panic("frame_alloc") \/ Panic("map")
Appended(p, j, e) ==
  /\ Grows(areas[p], areas'[p], j, areas[p][j].end, e, SubSeq(Supply, 1, e - areas[p][j].end))
  /\ \A f : Contains(SubSeq(Supply, 1, e - areas[p][j].end), f) => Free(f)

\* append_to keeps the invariant.
LEMMA AppendStep ==
  ASSUME FrameInv, NEW p \in Proc, Running(p), NEW j \in 1..Len(areas[p]),
         NEW e \in Nat, e <= Top + 1, append_to(p, j, e)
  PROVE  FrameInv' /\ (AppendPanics \/ Appended(p, j, e))
PROOF
  <1> DEFINE rs == areas[p]
             old == rs[j].end
             n == e - old
             s == SubSeq(Supply, 1, n)
             new == old..(e - 1)
             pm == [v \in VPN |-> IF v \in new THEN s[v - old + 1] ELSE None]
             g == [v \in VPN |-> IF v \in new THEN pm[v] ELSE rs[j].data_frames[v]]
             grown == [start |-> rs[j].start, end |-> e, data_frames |-> g]
  <1>0. /\ HoldersType /\ Apart(tables[p], kernel_stack[p], rs) /\ Stage(p) /\ AllocInv
        /\ status[p] = "run" /\ halted = "no" /\ Len(rs) = 4 /\ rs[1].start < rs[1].end
    BY Zenon DEF FrameInv, Running, Stage
  <1>1. CASE AppendPanics
    <2>1. UNCHANGED <<current, recycled, status, tables, kernel_stack, areas>> /\ halted' # "dealloc"
      BY <1>1, Zenon DEF AppendPanics, Panic, allocVars, spaceVars
    <2> QED BY <1>1, <2>1, FrameStutter, Zenon
  <1>2. CASE ~AppendPanics
    <2>1. old \in Nat /\ Len(Supply) \in Nat
      <3>1. old \in 0..(Top + 1)
        BY <1>0, Zenon DEF Apart, AreasOk, Ranges
      <3> QED BY <1>0, <3>1, MemoryAssumption, SupplyElements
    <2>2. /\ old <= e /\ n <= Len(Supply)
          /\ alloc_dealloc(n, <<>>)
          /\ areas' = [areas EXCEPT ![p][j] = grown]
          /\ UNCHANGED <<status, tables, kernel_stack, halted>>
      <3> HIDE DEF n, s, new, pm, g, grown, old
      <3>1. /\ ~(old > e) /\ ~(n > Len(Supply))
            /\ alloc_dealloc(n, <<>>)
            /\ areas' = [areas EXCEPT ![p][j] = grown]
            /\ UNCHANGED <<status, tables, kernel_stack, halted>>
        BY <1>2, Zenon DEF AppendPanics, append_to, n, s, new, pm, g, grown, old
      <3>2. n \in Int
        BY <2>1 DEF n
      <3> QED BY <2>1, <3>1, <3>2
    <2>3. n \in Nat
      BY <2>1, <2>2
    <2> HIDE DEF n
    <2>4. /\ s \in Seq(Frame) /\ Len(s) = n /\ IsInjective(s)
          /\ \A f : Contains(s, f) => Free(f)
      BY <1>0, <2>2, <2>3, SupplyPrefix, Zenon
    <2>5. \A f \in Frame : Contains(s, f) => ~Owned(p, f)
      BY <2>4, Zenon DEF FrameInv, Ownership
    <2>6. areas'[p] = [rs EXCEPT ![j] = grown]
      BY <1>0, <2>2, Zenon DEF HoldersType
    <2> HIDE DEF s
    <2>7. \A v \in VPN : g[v] = IF v \in new THEN s[v - old + 1] ELSE rs[j].data_frames[v]
      BY Zenon
    <2> DEFINE rn == areas'[p]
    <2>9. Len(s) = e - old /\ rs[j].end = old
      BY <2>4, Zenon DEF n
    <2>10. /\ AreasOk(rs) /\ Len(rs) = 4 /\ j \in 1..4 /\ rs \in Seq(MapArea)
           /\ \A f \in Frame : Contains(s, f) => ~InAreas(rs, f)
      BY <1>0, <2>5, Zenon DEF Apart, Owned, AreasOk
    <2>11. /\ rn \in Seq(MapArea) /\ Len(rn) = 4 /\ rn[j].start = rs[j].start /\ rn[j].end = e
           /\ \A v \in VPN : rn[j].data_frames[v] =
                IF v \in old..(e - 1) THEN s[v - old + 1] ELSE rs[j].data_frames[v]
           /\ \A i \in 1..4 : i # j => rn[i] = rs[i]
      <3>0. \A i \in 1..4 : rs[i] \in MapArea
        BY <2>10, SeqElement, Zenon
      <3>1. g \in [VPN -> Frame \union {None}]
        <4>1. rs[j].data_frames \in [VPN -> Frame \union {None}]
          BY <2>10, <3>0, SMTT(30) DEF MapArea
        <4>2. \A v \in new : v - old + 1 \in 1..Len(s)
          BY <2>1, <2>2, <2>9, SMTT(30)
        <4>3. \A v \in new : s[v - old + 1] \in Frame
          BY <2>4, <4>2, SeqElement, Zenon
        <4> HIDE DEF rs, old, new
        <4> QED BY <4>1, <4>3, Zenon
      <3>2. rs[j].start \in VPN /\ e \in 0..(Top + 1)
        <4>1. rs[j].start \in VPN
          BY <2>10, <3>0, SMTT(30) DEF MapArea
        <4>2. e \in 0..(Top + 1)
          BY MemoryAssumption
        <4> QED BY <4>1, <4>2, Zenon
      <3>3. grown \in MapArea /\ grown.start = rs[j].start /\ grown.end = e /\ grown.data_frames = g
        <4> HIDE DEF g, rs
        <4> QED BY <3>1, <3>2, Zenon DEF MapArea
      <3> HIDE DEF grown, g, rs
      <3>4. rn = Put(rs, j, grown)
        BY <2>6, Zenon DEF Put
      <3>5. rn \in Seq(MapArea) /\ Len(rn) = 4 /\ rn[j] = grown /\ \A i \in 1..4 : i # j => rn[i] = rs[i]
        <4> HIDE DEF rn
        <4>1. rs \in Seq(MapArea) /\ j \in 1..Len(rs) /\ grown \in MapArea
          BY <2>10, <3>3, Zenon
        <4>2. /\ Put(rs, j, grown) \in Seq(MapArea) /\ Len(Put(rs, j, grown)) = Len(rs)
              /\ Put(rs, j, grown)[j] = grown
              /\ \A i \in 1..Len(rs) : i # j => Put(rs, j, grown)[i] = rs[i]
          BY <4>1, SeqPut
        <4> QED BY <2>10, <3>4, <4>2, Zenon
      <3> HIDE DEF rn
      <3> QED BY <2>7, <3>3, <3>5, Zenon
    <2> HIDE DEF g, rs, old, new, grown, rn
    <2>8. Grows(rs, rn, j, old, e, s)
      BY <2>1, <2>2, <2>4, <2>9, <2>10, <2>11, Zenon DEF Grows
    <2>12. /\ AreasOk(rn) /\ \A f \in Frame : InAreas(rn, f) <=> InAreas(rs, f) \/ Contains(s, f)
      BY <2>8, GrownAreas, Zenon
    <2>13. rn[1].start < rn[1].end
      <3>1. CASE j = 1
        <4>1. rs[1].start \in 0..Top
          BY <2>10 DEF AreasOk, Ranges, VPN
        <4> DEFINE a == rs[1].start
        <4>2. a \in 0..Top /\ a < old /\ rn[1].start = a /\ rn[1].end = e
          BY <1>0, <2>9, <2>11, <3>1, <4>1, Zenon DEF rs
        <4> HIDE DEF a
        <4> QED BY <2>1, <2>2, <4>2, MemoryAssumption
      <3>2. CASE j # 1
        BY <1>0, <2>11, <3>2 DEF rs
      <3> QED BY <3>1, <3>2, Zenon
    <2>14. Others(p) /\ HoldersType'
      <3>1. \A q \in Proc \ {p} : areas'[q] = areas[q]
        BY <1>0, <2>2, Zenon DEF HoldersType
      <3>2. areas' = [q \in Proc |-> areas'[q]]
        BY <1>0, <2>2, Zenon DEF HoldersType
      <3>3. rn \in Seq(MapArea)
        BY <2>12, Zenon DEF AreasOk
      <3>4. \A q \in Proc : areas'[q] \in Seq(MapArea)
        BY <1>0, <3>1, <3>3, Zenon DEF HoldersType, rn
      <3>5. areas' \in [Proc -> Seq(MapArea)]
        BY <3>2, <3>4, Zenon
      <3> QED BY <1>0, <2>2, <3>1, <3>5, Zenon DEF HoldersType, Others
    <2>15. Apart(tables[p], kernel_stack[p], rn)
      BY <1>0, <2>5, <2>12, Zenon DEF Apart, Owned, rs
    <2>16. Apart(tables[p], kernel_stack[p], areas[p])'
      BY <2>2, <2>15, Zenon DEF Apart, AreasOk, InAreas, rn
    <2>17. Stage(p)'
      BY <1>0, <2>2, <2>11, <2>13, Zenon DEF Stage, rn
    <2>18. /\ <<>> \in Seq(Frame) /\ IsInjective(<<>>) /\ \A f : ~Contains(<<>>, f)
      BY DEF IsInjective, Contains
    <2>19. \A f \in Frame : Owned(p, f)' <=> \/ Owned(p, f) /\ ~Contains(<<>>, f)
                                             \/ Contains(SubSeq(Supply, 1, n), f)
      <3>1. ASSUME NEW f \in Frame
            PROVE  Owned(p, f)' <=> Owned(p, f) \/ Contains(s, f)
        <4>1. Owned(p, f)' <=> Contains(tables[p], f) \/ Contains(kernel_stack[p], f) \/ InAreas(rn, f)
          BY <2>2, Zenon DEF Owned, rn
        <4> QED BY <2>12, <4>1, Zenon DEF Owned, rs
      <3> QED BY <2>18, <3>1, Zenon DEF s
    <2>20. FrameInv'
      BY <1>0, <2>2, <2>3, <2>14, <2>16, <2>17, <2>18, <2>19, HandOver, Zenon
    <2>21. Appended(p, j, e)
      BY <2>4, <2>8, Zenon DEF Appended, rs, rn, old, s, n
    <2> QED BY <2>20, <2>21, Zenon
  <1> QED BY <1>1, <1>2, Zenon

-----------------------------------------------------------------------------
(* Frames.                                                                 *)

\* The frame that each iteration of sys_mmap takes and drops is free again.
LEMMA LoopStep ==
  ASSUME FrameInv, Supply # <<>>, alloc_dealloc(1, <<Supply[1]>>),
         UNCHANGED <<status, tables, kernel_stack, areas>>, halted' # "dealloc"
  PROVE  FrameInv'
PROOF
  <1> DEFINE m == Len(recycled)
  <1>1. /\ AllocInv /\ recycled \in Seq(Frame) /\ m \in Nat /\ NFrames \in Nat
        /\ current \in 0..NFrames
    BY MemoryAssumption, SeqLen, Zenon DEF FrameInv, AllocInv, AllocType
  <1>2. /\ Supply \in Seq(Frame) /\ Len(Supply) = m + (NFrames - current)
        /\ \A i \in 1..Len(Supply) :
             Supply[i] = IF i <= m THEN recycled[m - i + 1] ELSE current + (i - m) - 1
    BY <1>1, SupplyElements, Zenon
  <1>3. 1 \in 1..Len(Supply) /\ Supply[1] \in Frame
    <2>1. Len(Supply) \in Nat /\ Len(Supply) # 0
      BY <1>2, SeqEmpty, SeqLen, Zenon
    <2>2. 1 \in 1..Len(Supply)
      BY <2>1
    <2> QED BY <1>2, <2>2, SeqElement, Zenon
  <1>4. /\ recycled' = (IF 1 <= m THEN SubSeq(recycled, 1, m - 1) ELSE <<>>) \o <<Supply[1]>>
        /\ current' = IF 1 <= m THEN current ELSE current + 1 - m
    BY Zenon DEF alloc_dealloc
  <1>5. CASE 1 <= m
    <2>1. Supply[1] = recycled[m]
      BY <1>1, <1>2, <1>3, <1>5
    <2>2. SubSeq(recycled, 1, m - 1) \o <<recycled[m]>> = recycled
      <3>1. /\ recycled # <<>>
        BY <1>1, <1>5
      <3>2. recycled = Append(SubSeq(recycled, 1, m - 1), recycled[m])
        BY <1>1, <1>5
      <3>3. SubSeq(recycled, 1, m - 1) \in Seq(Frame) /\ recycled[m] \in Frame
        BY <1>1, <1>5
      <3> QED BY <3>2, <3>3, SeqConcatShort, Zenon
    <2>3. UNCHANGED <<current, recycled>>
      BY <1>4, <1>5, <2>1, <2>2, Zenon
    <2> QED BY <2>3, FrameStutter, Zenon
  <1>6. CASE ~(1 <= m)
    <2>1. m = 0 /\ recycled = <<>>
      BY <1>1, <1>6, SeqEmpty
    <2>2. Supply[1] = current
      BY <1>1, <1>2, <1>3, <2>1
    <2>3. recycled' = <<current>> /\ current' = current + 1 /\ current \in Frame
      <3>1. <<>> \o <<current>> = <<current>>
        BY <1>3, <2>2, SeqConcatShort
      <3> QED BY <1>1, <1>3, <1>4, <1>6, <2>1, <2>2, <3>1
    <2>4. /\ <<current>> \in Seq(Frame) /\ IsInjective(<<current>>) /\ Len(<<current>>) = 1
          /\ \A f : Contains(<<current>>, f) <=> f = current
      BY <2>3 DEF IsInjective, Contains
    <2>5. AllocInv'
      BY <1>1, <2>3, <2>4, MemoryAssumption DEF AllocInv, AllocType, Frame
    <2>6. \A f : Free(f)' <=> Free(f)
      <3>1. ASSUME NEW f
            PROVE  Free(f)' <=> Free(f)
        <4>1. ~Contains(recycled, f)
          BY <2>1 DEF Contains
        <4>2. Free(f)' <=> f = current \/ f \in (current + 1)..(NFrames - 1)
          BY <2>3, <2>4, Zenon DEF Free
        <4>3. Free(f) <=> f \in current..(NFrames - 1)
          BY <4>1, Zenon DEF Free
        <4> QED BY <1>1, <2>3, <4>2, <4>3 DEF Frame
      <3> QED BY <3>1, Zenon
    <2>7. Ownership'
      BY <2>6, Zenon DEF FrameInv, Ownership, Owned
    <2>8. HoldersType'
      BY Zenon DEF FrameInv, HoldersType
    <2>9. \A p \in Proc : Apart(tables[p], kernel_stack[p], areas[p])'
      <3>1. \A p \in Proc : Apart(tables[p], kernel_stack[p], areas[p])
        BY Zenon DEF FrameInv
      <3> QED BY <3>1
    <2>10. \A p \in Proc : Stage(p)'
      BY Zenon DEF FrameInv, Stage
    <2> QED BY <2>5, <2>7, <2>8, <2>9, <2>10, Zenon DEF FrameInv
  <1> QED BY <1>5, <1>6, Zenon

\* The break is below the trap context, and so is the page above it.
LEMMA CeilBound ==
  ASSUME NEW a \in 1..((Top - 1) * PAGE_SIZE)
  PROVE  Ceil(a) \in Nat /\ Ceil(a) < Top
PROOF
  <1>1. Top \in Nat \ {0} /\ PAGE_SIZE \in Nat \ {0}
    BY MemoryAssumption, Zenon
  <1> DEFINE P == PAGE_SIZE
             x == a + P - 1
             q == x \div P
  <1>2. a \in Nat /\ x \in Nat /\ a <= (Top - 1) * P
    BY <1>1
  <1>3. (Top - 1) * P = Top * P - P
    BY <1>1
  <1>4. q \in Int /\ P * q <= x /\ x < P * q + P
    BY <1>1, <1>2
  <1>5. x < Top * P
    BY <1>1, <1>2, <1>3
  <1> HIDE DEF q, x
  <1>6. q < Top
    <2>1. ASSUME q >= Top
          PROVE  P * q >= P * Top
      BY <1>1, <1>4, <2>1
    <2> QED BY <1>1, <1>2, <1>4, <1>5, <2>1
  <1>7. q >= 0
    <2>1. ASSUME q <= -1
          PROVE  P * q + P <= 0
      <3>1. q + 1 <= 0
        BY <1>4, <2>1
      <3>2. P * (q + 1) <= 0
        BY <1>1, <1>4, <3>1
      <3> QED BY <1>1, <1>4, <3>2
    <2> QED BY <1>1, <1>2, <1>4, <2>1
  <1> QED BY <1>4, <1>6, <1>7 DEF q, x, Ceil

\* The areas of from_elf.
LEMMA ElfRanges ==
  ASSUME NEW n \in Programs
  PROVE  /\ Ranges(ElfAreas(n)) /\ Len(ElfAreas(n)) = 4
         /\ ElfAreas(n)[1].start < ElfAreas(n)[1].end
         /\ FramesNeeded(ElfAreas(n)) = n + StackPages + 5
PROOF
  <1>1. /\ Top \in Nat /\ StackPages \in Nat /\ n \in Nat \ {0} /\ n + StackPages + 2 < Top
    BY MemoryAssumption, Zenon
  <1> DEFINE rs == ElfAreas(n)
             u == n + 1 + StackPages
  <1>2. /\ Len(rs) = 4
        /\ rs[1].start = 0 /\ rs[1].end = n
        /\ rs[2].start = n + 1 /\ rs[2].end = u
        /\ rs[3].start = u /\ rs[3].end = u + 1
        /\ rs[4].start = Top /\ rs[4].end = Top + 1
    BY Zenon DEF ElfAreas, user_sp
  <1> HIDE DEF rs
  <1>3. Ranges(rs)
    <2>1. ASSUME NEW j \in 1..4
          PROVE  rs[j].start \in VPN /\ rs[j].end \in 0..(Top + 1) /\ rs[j].start <= rs[j].end
      <3>1. j = 1 \/ j = 2 \/ j = 3 \/ j = 4
        OBVIOUS
      <3> QED BY <1>1, <1>2, <3>1 DEF VPN
    <2> QED BY <1>2, <2>1, Zenon DEF Ranges
  <1>4. Len(Pages(rs)) = (n - 0) + (u - (n + 1)) + (u + 1 - u) + (Top + 1 - Top)
    <2>1. Len(Pages(rs)) = (rs[1].end - rs[1].start) + (rs[2].end - rs[2].start)
                           + (rs[3].end - rs[3].start) + (rs[4].end - rs[4].start)
      BY <1>2, <1>3, PagesProperties, Zenon
    <2>2. u \in Nat
      BY <1>1
    <2> HIDE DEF u
    <2> QED BY <1>1, <1>2, <2>1, <2>2
  <1> QED BY <1>1, <1>2, <1>3, <1>4 DEF rs, FramesNeeded

\* What a process that is not there holds.
LEMMA AbsentHolds ==
  ASSUME FrameInv, NEW c \in Proc, status[c] = "absent"
  PROVE  /\ kernel_stack[c] = <<>> /\ <<>> \in Seq(Frame) /\ IsInjective(<<>>)
         /\ \A f \in Frame : Contains(<<>>, f) <=> Contains(tables[c], f) \/ InAreas(areas[c], f)
PROOF
  <1>1. tables[c] = <<>> /\ kernel_stack[c] = <<>> /\ areas[c] = <<>>
    BY Zenon DEF FrameInv, Stage
  <1>2. \A f : ~Contains(<<>>, f) /\ ~InAreas(<<>>, f)
    BY DEF Contains, InAreas
  <1> QED BY <1>1, <1>2 DEF IsInjective

\* Every operation on address spaces keeps the invariant for frames.
LEMMA FrameSteps ==
  ASSUME FrameInv, NEW p \in Proc,
         \/ \E c \in Proc : fork(p, c)
         \/ \E c \in Proc, n \in Programs : spawn(p, c, n)
         \/ \E n \in Programs : exec(p, n)
         \/ \E a \in 1..((Top - 1) * PAGE_SIZE) : sys_brk(p, a)
         \/ exit(p) \/ reap(p)
  PROVE  FrameInv'
PROOF
  <1>0. KstackPages \in Nat /\ 0 \in Nat
    BY MemoryAssumption, Zenon
  <1>1. ASSUME NEW c \in Proc, fork(p, c)
        PROVE  FrameInv'
    <2>1. /\ Ranges(areas[p]) /\ Len(areas[p]) = 4 /\ areas[p][1].start < areas[p][1].end
          /\ status[c] = "absent" /\ halted = "no"
      BY <1>1, Zenon DEF fork, Running, FrameInv, Stage, Apart, AreasOk
    <2> DEFINE content == [v \in VPN |-> IF ptes[p][v] = None THEN 0 ELSE mem[ptes[p][v]]]
    <2>2. NewSpace(c, areas[p], content, KstackPages, <<>>)
      BY <1>1, Zenon DEF fork
    <2> HIDE DEF content
    <2> QED BY <1>0, <2>1, <2>2, AbsentHolds, NewSpaceStep, Zenon
  <1>2. ASSUME NEW c \in Proc, NEW n \in Programs, spawn(p, c, n)
        PROVE  FrameInv'
    <2>1. /\ status[c] = "absent" /\ halted = "no"
          /\ NewSpace(c, ElfAreas(n), ElfContent(n), KstackPages, <<>>)
      BY <1>2, Zenon DEF spawn, Running
    <2> QED BY <1>0, <2>1, ElfRanges, AbsentHolds, NewSpaceStep, Zenon
  <1>3. ASSUME NEW n \in Programs, exec(p, n)
        PROVE  FrameInv'
    <2>1. halted = "no" /\ NewSpace(p, ElfAreas(n), ElfContent(n), 0, SpaceFrames(p))
      BY <1>3, Zenon DEF exec, Running
    <2>2. /\ SpaceFrames(p) \in Seq(Frame) /\ IsInjective(SpaceFrames(p))
          /\ \A f \in Frame : Contains(SpaceFrames(p), f) <=>
                                Contains(tables[p], f) \/ InAreas(areas[p], f)
      BY FramesBack, Zenon
    <2> QED BY <1>0, <2>1, <2>2, ElfRanges, NewSpaceStep, Zenon
  <1>4. ASSUME NEW a \in 1..((Top - 1) * PAGE_SIZE), sys_brk(p, a)
        PROVE  FrameInv'
    <2>1. CASE a - program_brk[p] > PAGE_SIZE
      <3>1. PICK j \in 1..Len(areas[p]) : append_to(p, j, Ceil(a))
        BY <1>4, <2>1, Zenon DEF sys_brk
      <3> DEFINE e == Ceil(a)
      <3>2. e \in Nat /\ e < Top /\ Top \in Nat
        BY CeilBound, MemoryAssumption, Zenon
      <3> HIDE DEF e
      <3>3. e \in Nat /\ e <= Top + 1
        BY <3>2
      <3>4. Running(p) /\ append_to(p, j, e)
        BY <1>4, <3>1, Zenon DEF sys_brk, e
      <3> QED BY <3>3, <3>4, AppendStep, Zenon
    <2>2. CASE ~(a - program_brk[p] > PAGE_SIZE)
      <3>1. /\ UNCHANGED <<current, recycled, status, tables, kernel_stack, areas>>
            /\ halted' # "dealloc"
        BY <1>4, <2>2, Zenon DEF sys_brk, allocVars, spaceVars, Running
      <3> QED BY <3>1, FrameStutter, Zenon
    <2> QED BY <2>1, <2>2, Zenon
  <1> QED BY <1>1, <1>2, <1>3, <1>4, ExitStep, ReapStep, Zenon

\* The frames that TaskControlBlock::new takes for the first process.
LEMMA FirstFrames ==
  ASSUME NEW n \in Programs, NEW k, k = FramesNeeded(ElfAreas(n)),
         NEW s \in Seq(Nat), Len(s) = k + KstackPages,
         \A i \in 1..(k + KstackPages) : s[i] = i - 1
  PROVE  /\ k + KstackPages \in 0..NFrames /\ Needs(ElfAreas(n), k, KstackPages)
         /\ s \in Seq(Frame) /\ Len(s) = k + KstackPages /\ IsInjective(s)
         /\ Divided(s, ElfAreas(n), k, KstackPages)
         /\ \A f : Contains(s, f) <=> f \in 0..(k + KstackPages - 1)
PROOF
  <1>1. /\ NFrames \in Nat /\ StackPages \in Nat /\ KstackPages \in Nat /\ n \in Nat
        /\ n + StackPages + KstackPages + 5 <= NFrames
    BY MemoryAssumption, Zenon
  <1>2. k = n + StackPages + 5
    BY ElfRanges, Zenon
  <1>3. k \in Nat /\ k + KstackPages \in 0..NFrames
    BY <1>1, <1>2
  <1>4. Needs(ElfAreas(n), k, KstackPages)
    BY <1>1, <1>3, ElfRanges, SMTT(30) DEF Needs
  <1> DEFINE l == k + KstackPages
  <1>5. l \in 0..NFrames /\ l \in Nat /\ Len(s) = l /\ \A i \in 1..l : s[i] = i - 1
    BY <1>1, <1>3
  <1> HIDE DEF l
  <1>7. s \in Seq(Frame)
    <2>1. \A i \in 1..l : s[i] \in Frame
      BY <1>1, <1>5 DEF Frame
    <2> QED BY <1>5, <2>1
  <1>8. IsInjective(s)
    <2>1. \A i, j \in 1..l : s[i] = s[j] => i = j
      BY <1>5
    <2> QED BY <1>5, <1>7, <2>1, InjectiveSeq, Zenon
  <1>9. \A f : Contains(s, f) <=> f \in 0..(l - 1)
    <2>1. ASSUME NEW f, f \in 0..(l - 1)
          PROVE  Contains(s, f)
      <3>1. f + 1 \in 1..l /\ (f + 1) - 1 = f
        BY <1>5, <2>1
      <3> QED BY <1>5, <3>1, Zenon DEF Contains
    <2>2. ASSUME NEW f, Contains(s, f)
          PROVE  f \in 0..(l - 1)
      <3>1. PICK i \in 1..l : s[i] = f
        BY <1>5, <2>2, Zenon DEF Contains
      <3> QED BY <1>5, <3>1
    <2> QED BY <2>1, <2>2, Zenon
  <1>10. Divided(s, ElfAreas(n), k, KstackPages)
    BY <1>4, <1>7, <1>8, NewHoldings, Zenon
  <1>11. \A f : Contains(s, f) <=> f \in 0..(k + KstackPages - 1)
    <2>1. l - 1 = k + KstackPages - 1
      BY <1>1, <1>3 DEF l
    <2> QED BY <1>9, <2>1, Zenon
  <1> QED BY <1>3, <1>4, <1>7, <1>8, <1>10, <1>11, Zenon

\* The first process owns the frames below current.
LEMMA FrameInit ==
  ASSUME Init
  PROVE  FrameInv
PROOF
  <1>1. PICK n \in Programs :
          LET rs == ElfAreas(n)
              k == FramesNeeded(rs)
              s == [i \in 1..(k + KstackPages) |-> i - 1]
              Only(x, y) == [p \in Proc |-> IF p = First THEN x ELSE y]
          IN /\ current = k + KstackPages /\ recycled = <<>>
             /\ status = Only("run", "absent")
             /\ tables = Only(TableFrames(s), <<>>)
             /\ areas = Only(NewAreas(rs, s), <<>>)
             /\ kernel_stack = Only(SubSeq(s, k + 1, k + KstackPages), <<>>)
             /\ halted = "no"
    BY Zenon DEF Init
  <1> DEFINE rs == ElfAreas(n)
             k == FramesNeeded(rs)
             s == [i \in 1..(k + KstackPages) |-> i - 1]
             t == TableFrames(s)
             new == NewAreas(rs, s)
             ks == SubSeq(s, k + 1, k + KstackPages)
             l == k + KstackPages
  <1>2. /\ current = l /\ recycled = <<>> /\ halted = "no"
        /\ status = [p \in Proc |-> IF p = First THEN "run" ELSE "absent"]
        /\ tables = [p \in Proc |-> IF p = First THEN t ELSE <<>>]
        /\ areas = [p \in Proc |-> IF p = First THEN new ELSE <<>>]
        /\ kernel_stack = [p \in Proc |-> IF p = First THEN ks ELSE <<>>]
    BY <1>1, Zenon
  <1>3. /\ l \in 0..NFrames /\ Needs(rs, k, KstackPages)
        /\ s \in Seq(Frame) /\ Divided(s, rs, k, KstackPages)
        /\ \A f : Contains(s, f) <=> f \in 0..(k + KstackPages - 1)
    <2>1. /\ k = FramesNeeded(ElfAreas(n)) /\ s \in Seq(Nat) /\ Len(s) = k + KstackPages
          /\ \A i \in 1..(k + KstackPages) : s[i] = i - 1
      <3>1. k + KstackPages \in Nat
        BY ElfRanges, MemoryAssumption
      <3>2. k = FramesNeeded(ElfAreas(n))
        BY Zenon
      <3>3. l \in Nat /\ l = k + KstackPages /\ s = [i \in 1..l |-> i - 1]
        BY <3>1, Zenon
      <3> HIDE DEF k, l, s
      <3>4. s \in Seq(Nat) /\ Len(s) = l /\ \A i \in 1..l : s[i] = i - 1
        BY <3>3
      <3> QED BY <3>2, <3>3, <3>4, Zenon
    <2> HIDE DEF s, k
    <2> QED BY <2>1, FirstFrames, Zenon
  <1>4. /\ Apart(t, ks, new) /\ Len(new) = 4
        /\ \A f \in Frame : Contains(s, f) <=> Contains(t, f) \/ Contains(ks, f) \/ InAreas(new, f)
        /\ new[1].start = rs[1].start /\ new[1].end = rs[1].end
    <2> HIDE DEF s, k
    <2>1. /\ Apart(t, ks, new) /\ Len(new) = 4
          /\ \A f \in Frame : Contains(s, f) <=> Contains(t, f) \/ Contains(ks, f) \/ InAreas(new, f)
          /\ \A j \in 1..4 : new[j].start = rs[j].start /\ new[j].end = rs[j].end
      BY <1>3, Zenon DEF Divided
    <2> HIDE DEF new, t, ks
    <2>2. 1 \in 1..4
      OBVIOUS
    <2> QED BY <2>1, <2>2, Zenon
  <1>5. rs[1].start < rs[1].end
    BY <1>3, Zenon DEF Needs
  <1> HIDE DEF rs, k, s, t, new, ks, l
  <1>6. t \in Seq(Frame) /\ ks \in Seq(Frame) /\ new \in Seq(MapArea)
    BY <1>4, Zenon DEF Apart, AreasOk
  <1>7. HoldersType
    BY <1>2, <1>6 DEF HoldersType
  <1>8. /\ AreasOk(<<>>) /\ \A f : ~InAreas(<<>>, f) /\ ~Contains(<<>>, f)
        /\ IsInjective(<<>>)
    BY DEF AreasOk, Ranges, InAreas, Contains, IsInjective
  <1>9. Apart(<<>>, <<>>, <<>>)
    BY <1>8 DEF Apart
  <1>10. NFrames \in Nat /\ First \in Proc
    BY MemoryAssumption, Zenon
  <1>11. AllocInv
    BY <1>2, <1>3, <1>8 DEF AllocInv, AllocType
  <1>12. /\ tables[First] = t /\ kernel_stack[First] = ks /\ areas[First] = new
         /\ status[First] = "run"
         /\ \A p \in Proc \ {First} : /\ tables[p] = <<>> /\ kernel_stack[p] = <<>>
                                      /\ areas[p] = <<>> /\ status[p] = "absent"
    BY <1>2, <1>10, Zenon
  <1>13. ASSUME NEW f \in Frame
         PROVE  /\ Free(f) <=> ~Contains(s, f)
                /\ Owned(First, f) <=> Contains(s, f)
                /\ \A p \in Proc \ {First} : ~Owned(p, f)
    <2>1. Free(f) <=> f \in l..(NFrames - 1)
      BY <1>2, <1>8, Zenon DEF Free
    <2>2. f \in 0..(NFrames - 1)
      BY Zenon DEF Frame
    <2>3. Free(f) <=> ~Contains(s, f)
      <3>1. k \in Nat /\ KstackPages \in Nat
        BY <1>3, Zenon DEF Needs
      <3> QED BY <1>3, <1>10, <2>1, <2>2, <3>1 DEF l
    <2> QED BY <1>4, <1>8, <1>12, <2>3, Zenon DEF Owned
  <1>14. Ownership
    BY <1>10, <1>13, Zenon DEF Ownership
  <1>15. \A p \in Proc : Apart(tables[p], kernel_stack[p], areas[p]) /\ Stage(p)
    <2>1. ASSUME NEW p \in Proc
          PROVE  Apart(tables[p], kernel_stack[p], areas[p]) /\ Stage(p)
      <3>1. CASE p = First
        BY <1>4, <1>5, <1>12, <3>1, Zenon DEF Stage
      <3>2. CASE p # First
        BY <1>9, <1>12, <3>2, Zenon DEF Stage
      <3> QED BY <3>1, <3>2, Zenon
    <2> QED BY <2>1, Zenon
  <1> QED BY <1>2, <1>7, <1>11, <1>14, <1>15, Zenon DEF FrameInv

\* A frame that is free or has one owner is held once if it was ever handed out.
LEMMA Conserved ==
  ASSUME FrameInv
  PROVE  FramesConserved
PROOF
  <1>1. SUFFICES ASSUME NEW f \in Frame
                 PROVE  IF f < current THEN \E h \in Holders(f) : Holders(f) = {h}
                                       ELSE Holders(f) = {}
    BY Zenon DEF FrameInv, FramesConserved
  <1> DEFINE R(x) == \E i \in 1..Len(recycled) : recycled[i] = f /\ x = <<"recycled", i>>
             T(x) == \E p \in Proc : \E i \in 1..Len(tables[p]) :
                       tables[p][i] = f /\ x = <<"tables", p, i>>
             K(x) == \E p \in Proc : \E i \in 1..Len(kernel_stack[p]) :
                       kernel_stack[p][i] = f /\ x = <<"stack", p, i>>
             D(x) == \E p \in Proc : \E j \in 1..Len(areas[p]) : \E v \in VPN :
                       areas[p][j].data_frames[v] = f /\ x = <<"data", p, j, v>>
  <1>2. \A x : x \in Holders(f) <=> R(x) \/ T(x) \/ K(x) \/ D(x)
    <2> DEFINE Rs == {<<"recycled", i>> : i \in {i \in 1..Len(recycled) : recycled[i] = f}}
               Ts(p) == {<<"tables", p, i>> : i \in {i \in 1..Len(tables[p]) : tables[p][i] = f}}
               Ks(p) == {<<"stack", p, i>> :
                           i \in {i \in 1..Len(kernel_stack[p]) : kernel_stack[p][i] = f}}
               Ds(p, j) == {<<"data", p, j, v>> : v \in {v \in VPN : areas[p][j].data_frames[v] = f}}
    <2>1. \A x : x \in Rs <=> R(x)
      BY Zenon
    <2>2. \A x : x \in UNION {Ts(p) : p \in Proc} <=> T(x)
      OBVIOUS
    <2>3. \A x : x \in UNION {Ks(p) : p \in Proc} <=> K(x)
      OBVIOUS
    <2>4. \A x : x \in UNION {UNION {Ds(p, j) : j \in 1..Len(areas[p])} : p \in Proc} <=> D(x)
      <3>1. \A p : \A j : \A x :
              x \in Ds(p, j) <=> \E v \in VPN : areas[p][j].data_frames[v] = f /\ x = <<"data", p, j, v>>
        BY Zenon
      <3> HIDE DEF Ds
      <3>2. \A p : \A x : x \in UNION {Ds(p, j) : j \in 1..Len(areas[p])}
              <=> \E j \in 1..Len(areas[p]) : x \in Ds(p, j)
        BY Zenon
      <3> DEFINE U(p) == UNION {Ds(p, j) : j \in 1..Len(areas[p])}
      <3> HIDE DEF U
      <3>3. \A x : x \in UNION {U(p) : p \in Proc} <=> \E p \in Proc : x \in U(p)
        BY Zenon
      <3> QED BY <3>1, <3>2, <3>3 DEF U
    <2> DEFINE AllT == UNION {Ts(p) : p \in Proc}
               AllK == UNION {Ks(p) : p \in Proc}
               AllD == UNION {UNION {Ds(p, j) : j \in 1..Len(areas[p])} : p \in Proc}
    <2>5. Holders(f) = Rs \union AllT \union AllK \union AllD
      BY Zenon DEF Holders
    <2> HIDE DEF Rs, Ts, Ks, Ds, R, T, K, D
    <2>6. \A x : /\ x \in Rs <=> R(x)
                 /\ x \in AllT <=> T(x)
                 /\ x \in AllK <=> K(x)
                 /\ x \in AllD <=> D(x)
      BY <2>1, <2>2, <2>3, <2>4, Zenon
    <2> HIDE DEF AllT, AllK, AllD
    <2> QED BY <2>5, <2>6, Zenon
  <1>3. /\ current \in 0..NFrames /\ NFrames \in Nat /\ f \in 0..(NFrames - 1)
        /\ recycled \in Seq(Frame) /\ IsInjective(recycled)
        /\ \A i \in 1..Len(recycled) : recycled[i] < current
    BY MemoryAssumption, Zenon DEF FrameInv, AllocInv, AllocType, Frame
  <1>4. /\ \A p \in Proc : Owned(p, f) => ~Free(f)
        /\ \A p, q \in Proc : Owned(p, f) /\ Owned(q, f) => p = q
        /\ Free(f) \/ \E p \in Proc : Owned(p, f)
    BY Zenon DEF FrameInv, Ownership
  <1>5. \A x : (T(x) \/ K(x) \/ D(x)) => \E p \in Proc : Owned(p, f)
    BY Zenon DEF Owned, Contains, InAreas
  <1>6. CASE Free(f) /\ ~Contains(recycled, f)
    <2>1. Holders(f) = {}
      BY <1>2, <1>4, <1>5, <1>6, Zenon DEF Contains
    <2>2. ~(f < current)
      BY <1>3, <1>6 DEF Free
    <2> QED BY <2>1, <2>2, Zenon
  <1>7. CASE Contains(recycled, f)
    <2>1. PICK i \in 1..Len(recycled) : recycled[i] = f
      BY <1>7, Zenon DEF Contains
    <2>2. \A k \in 1..Len(recycled) : recycled[k] = f => k = i
      BY <1>3, <2>1, InjectiveSeq, Zenon
    <2>3. Free(f)
      BY <1>7, Zenon DEF Free
    <2>4. \A x : R(x) <=> x = <<"recycled", i>>
      BY <2>1, <2>2, Zenon
    <2> HIDE DEF R, T, K, D
    <2>5. Holders(f) = {<<"recycled", i>>}
      BY <1>2, <1>4, <1>5, <2>3, <2>4, Zenon
    <2>6. f < current
      BY <1>3, <2>1, Zenon
    <2> QED BY <2>5, <2>6, Zenon
  <1>8. CASE ~Free(f)
    <2>1. PICK p \in Proc : Owned(p, f)
      BY <1>4, <1>8, Zenon
    <2>2. \A q \in Proc : Owned(q, f) => q = p
      BY <1>4, <2>1, Zenon
    <2>3. Apart(tables[p], kernel_stack[p], areas[p])
      BY Zenon DEF FrameInv
    <2>4. /\ tables[p] \in Seq(Frame) /\ kernel_stack[p] \in Seq(Frame)
          /\ IsInjective(tables[p]) /\ IsInjective(kernel_stack[p])
          /\ ~(Contains(tables[p], f) /\ Contains(kernel_stack[p], f))
          /\ ~(Contains(tables[p], f) /\ InAreas(areas[p], f))
          /\ ~(Contains(kernel_stack[p], f) /\ InAreas(areas[p], f))
      BY <2>3, Zenon DEF Apart
    <2>5. f < current /\ \A x : ~R(x)
      BY <1>3, <1>8 DEF Free, Contains
    <2>6. /\ \A x : T(x) <=> \E i \in 1..Len(tables[p]) : tables[p][i] = f /\ x = <<"tables", p, i>>
          /\ \A x : K(x) <=> \E i \in 1..Len(kernel_stack[p]) :
                               kernel_stack[p][i] = f /\ x = <<"stack", p, i>>
          /\ \A x : D(x) <=> \E j \in 1..Len(areas[p]) : \E v \in VPN :
                               areas[p][j].data_frames[v] = f /\ x = <<"data", p, j, v>>
      BY <2>2, Zenon DEF Owned, Contains, InAreas
    <2> HIDE DEF R, T, K, D
    <2>7. CASE Contains(tables[p], f)
      <3>1. PICK i \in 1..Len(tables[p]) : tables[p][i] = f
        BY <2>7, Zenon DEF Contains
      <3>2. \A k \in 1..Len(tables[p]) : tables[p][k] = f => k = i
        BY <2>4, <3>1, InjectiveSeq, Zenon
      <3>3. \A x : ~K(x) /\ ~D(x)
        BY <2>4, <2>6, <2>7, Zenon DEF Contains, InAreas
      <3>4. \A x : T(x) <=> x = <<"tables", p, i>>
        BY <2>6, <3>1, <3>2, Zenon
      <3>5. Holders(f) = {<<"tables", p, i>>}
        BY <1>2, <2>5, <3>3, <3>4, Zenon
      <3> QED BY <2>5, <3>5, Zenon
    <2>8. CASE Contains(kernel_stack[p], f)
      <3>1. PICK i \in 1..Len(kernel_stack[p]) : kernel_stack[p][i] = f
        BY <2>8, Zenon DEF Contains
      <3>2. \A k \in 1..Len(kernel_stack[p]) : kernel_stack[p][k] = f => k = i
        BY <2>4, <3>1, InjectiveSeq, Zenon
      <3>3. \A x : ~T(x) /\ ~D(x)
        BY <2>4, <2>6, <2>8, Zenon DEF Contains, InAreas
      <3>4. \A x : K(x) <=> x = <<"stack", p, i>>
        BY <2>6, <3>1, <3>2, Zenon
      <3>5. Holders(f) = {<<"stack", p, i>>}
        BY <1>2, <2>5, <3>3, <3>4, Zenon
      <3> QED BY <2>5, <3>5, Zenon
    <2>9. CASE InAreas(areas[p], f)
      <3>1. PICK j \in 1..Len(areas[p]), v \in VPN : areas[p][j].data_frames[v] = f
        BY <2>9, Zenon DEF InAreas
      <3>2. f # None
        BY MemoryAssumption DEF Frame
      <3>3. \A k \in 1..Len(areas[p]), w \in VPN :
              areas[p][k].data_frames[w] = f => k = j /\ w = v
        BY <2>3, <3>1, <3>2, SMTT(30) DEF Apart, AreasOk
      <3>4. \A x : ~T(x) /\ ~K(x)
        BY <2>4, <2>6, <2>9, Zenon DEF Contains
      <3>5. \A x : D(x) <=> x = <<"data", p, j, v>>
        BY <2>6, <3>1, <3>3
      <3>6. Holders(f) = {<<"data", p, j, v>>}
        BY <1>2, <2>5, <3>4, <3>5, Zenon
      <3> QED BY <2>5, <3>6, Zenon
    <2> QED BY <2>1, <2>7, <2>8, <2>9, Zenon DEF Owned
  <1> QED BY <1>6, <1>7, <1>8, Zenon

\* Frames are neither lost nor shared, and dealloc never panics, whatever
\* processes do with fork, exec, brk, exit, sys_mmap and sys_munmap.
THEOREM FramesAlwaysConserved == MmapSpec => []FramesConserved
PROOF
  <1>1. Init => FrameInv
    BY FrameInit, Zenon
  <1>2. FrameInv /\ [MmapNext]_vars => FrameInv'
    <2> SUFFICES ASSUME FrameInv, [MmapNext]_vars
                 PROVE  FrameInv'
      BY Zenon
    <2>1. CASE UNCHANGED vars
      <3>1. /\ UNCHANGED <<current, recycled, status, tables, kernel_stack, areas>>
            /\ halted' # "dealloc"
        BY <2>1, Zenon DEF FrameInv, vars, allocVars, spaceVars
      <3> QED BY <3>1, FrameStutter, Zenon
    <2>2. ASSUME NEW p \in Proc, NEW start, NEW n, sys_mmap(p, start, n)
          PROVE  FrameInv'
      <3>1. halted = "no"
        BY <2>2, Zenon DEF sys_mmap, Running
      <3>2. CASE Supply = <<>>
        <4>1. /\ UNCHANGED <<current, recycled, status, tables, kernel_stack, areas>>
              /\ halted' # "dealloc"
          BY <2>2, <3>2, Zenon DEF sys_mmap, Panic, allocVars, spaceVars
        <4> QED BY <4>1, FrameStutter, Zenon
      <3>3. CASE Supply # <<>>
        <4>1. /\ alloc_dealloc(1, <<Supply[1]>>)
              /\ UNCHANGED <<status, tables, kernel_stack, areas>> /\ halted' # "dealloc"
          BY <2>2, <3>1, <3>3, Zenon DEF sys_mmap, LoopFrames
        <4> QED BY <3>3, <4>1, LoopStep, Zenon
      <3> QED BY <3>2, <3>3, Zenon
    <2>3. ASSUME NEW p \in Proc, NEW start, NEW n, sys_munmap(p, start, n)
          PROVE  FrameInv'
      <3>1. /\ UNCHANGED <<current, recycled, status, tables, kernel_stack, areas>>
            /\ halted' # "dealloc"
        BY <2>3, Zenon DEF FrameInv, sys_munmap, allocVars
      <3> QED BY <3>1, FrameStutter, Zenon
    <2>4. ASSUME NEW p \in Proc, NEW c \in Proc, fork_areas(p, c)
          PROVE  FrameInv'
      <3>1. CASE fork(p, c)
        BY <3>1, FrameSteps, Zenon
      <3>2. CASE ~fork(p, c)
        <4>1. /\ UNCHANGED <<current, recycled, status, tables, kernel_stack, areas>>
              /\ halted' # "dealloc"
          BY <2>4, <3>2, Zenon DEF fork_areas, Panic, allocVars, spaceVars
        <4> QED BY <4>1, FrameStutter, Zenon
      <3> QED BY <3>1, <3>2, Zenon
    <2>5. CASE Stopped
      BY <2>1, <2>5, Zenon DEF Stopped
    <2>6. ASSUME NEW p \in Proc,
                 \/ \E c \in Proc, n \in Programs : spawn(p, c, n)
                 \/ \E n \in Programs : exec(p, n)
                 \/ \E a \in 1..((Top - 1) * PAGE_SIZE) : sys_brk(p, a)
                 \/ exit(p) \/ reap(p)
          PROVE  FrameInv'
      BY <2>6, FrameSteps, Zenon
    <2> QED BY <2>1, <2>2, <2>3, <2>4, <2>5, <2>6, Zenon DEF MmapNext
  <1>3. FrameInv => FramesConserved
    BY Conserved, Zenon
  <1> QED BY <1>1, <1>2, <1>3, PTL DEF MmapSpec

-----------------------------------------------------------------------------
(* Page tables and areas.                                                  *)

PageType ==
  /\ mem \in [Frame -> Val]
  /\ ptes \in [Proc -> [VPN -> Frame \union {None}]]
  /\ spaces \in 0..MaxSpaces
  /\ halted \in {"no", "frame_alloc", "dealloc", "VPNRange", "map"}

BrkType == heap_bottom \in [Proc -> Nat] /\ program_brk \in [Proc -> Nat]

\* A process that runs maps exactly the pages of its areas.
Mapped ==
  \A p \in Proc : status[p] = "run" => Disjoint(areas[p]) /\ ptes[p] = PageMap(areas[p])

\* The inductive invariant for frames and page tables, without sys_mmap.
PageInv == FrameInv /\ PageType /\ Mapped

\* The page table that maps areas rs has an entry, of its own frame, for each
\* of their pages.
LEMMA PageMapProperties ==
  ASSUME NEW rs, AreasOk(rs)
  PROVE  /\ PageMap(rs) \in [VPN -> Frame \union {None}]
         /\ \A v \in VPN : PageMap(rs)[v] # None <=> AreaOf(rs, v) # {}
         /\ \A v \in VPN : PageMap(rs)[v] # None => InAreas(rs, PageMap(rs)[v])
         /\ \A v, w \in VPN : PageMap(rs)[v] = PageMap(rs)[w] /\ PageMap(rs)[v] # None => v = w
PROOF
  <1>1. /\ rs \in Seq(MapArea)
        /\ \A j \in 1..Len(rs), v \in VPN : rs[j].data_frames[v] # None <=> v \in AreaPages(rs[j])
        /\ \A j, k \in 1..Len(rs), v, w \in VPN :
             rs[j].data_frames[v] = rs[k].data_frames[w] /\ rs[j].data_frames[v] # None
               => j = k /\ v = w
    BY Zenon DEF AreasOk
  <1>2. \A j \in 1..Len(rs), v \in VPN : rs[j].data_frames[v] \in Frame \union {None}
    <2>1. \A j \in 1..Len(rs) : rs[j] \in MapArea
      BY <1>1, SeqElement, Zenon
    <2> QED BY <2>1, Zenon DEF MapArea
  <1> DEFINE J(v) == CHOOSE j \in AreaOf(rs, v) : TRUE
  <1>3. ASSUME NEW v \in VPN
        PROVE  PageMap(rs)[v] = IF AreaOf(rs, v) = {} THEN None ELSE rs[J(v)].data_frames[v]
    BY Zenon DEF PageMap
  <1>4. ASSUME NEW v \in VPN, AreaOf(rs, v) # {}
        PROVE  J(v) \in 1..Len(rs) /\ v \in AreaPages(rs[J(v)])
    <2>1. J(v) \in AreaOf(rs, v)
      BY <1>4, Zenon
    <2> HIDE DEF J
    <2> QED BY <2>1, Zenon DEF AreaOf
  <1> HIDE DEF J
  <1>5. \A v \in VPN : AreaOf(rs, v) # {} =>
          /\ PageMap(rs)[v] = rs[J(v)].data_frames[v] /\ J(v) \in 1..Len(rs)
          /\ PageMap(rs)[v] # None /\ PageMap(rs)[v] \in Frame
    BY <1>1, <1>2, <1>3, <1>4
  <1>6. \A v \in VPN : AreaOf(rs, v) = {} => PageMap(rs)[v] = None
    BY <1>3, Zenon
  <1>7. PageMap(rs) \in [VPN -> Frame \union {None}]
    <2>1. PageMap(rs) = [v \in VPN |-> PageMap(rs)[v]]
      BY DEF PageMap
    <2>2. \A v \in VPN : PageMap(rs)[v] \in Frame \union {None}
      BY <1>5, <1>6, Zenon
    <2> QED BY <2>1, <2>2, Zenon
  <1>8. \A v \in VPN : PageMap(rs)[v] # None => InAreas(rs, PageMap(rs)[v])
    BY <1>5, <1>6, Zenon DEF InAreas
  <1>9. \A v, w \in VPN : PageMap(rs)[v] = PageMap(rs)[w] /\ PageMap(rs)[v] # None => v = w
    BY <1>1, <1>5, <1>6
  <1> QED BY <1>5, <1>6, <1>7, <1>8, <1>9, Zenon

\* What a process maps, it owns: no two processes map the same frame, and no
\* frame that is free is mapped.
LEMMA MappedOwned ==
  ASSUME PageInv, NEW p \in Proc, status[p] = "run"
  PROVE  /\ \A v \in VPN : ptes[p][v] # None => ptes[p][v] \in Frame /\ Owned(p, ptes[p][v])
         /\ \A v, w \in VPN : ptes[p][v] = ptes[p][w] /\ ptes[p][v] # None => v = w
         /\ \A v \in VPN : ptes[p][v] # None <=> AreaOf(areas[p], v) # {}
PROOF
  <1>1. AreasOk(areas[p]) /\ ptes[p] = PageMap(areas[p])
    BY Zenon DEF PageInv, Mapped, FrameInv, Apart
  <1>2. /\ \A v \in VPN : ptes[p][v] \in Frame \union {None}
        /\ \A v \in VPN : ptes[p][v] # None <=> AreaOf(areas[p], v) # {}
        /\ \A v \in VPN : ptes[p][v] # None => InAreas(areas[p], ptes[p][v])
        /\ \A v, w \in VPN : ptes[p][v] = ptes[p][w] /\ ptes[p][v] # None => v = w
    BY <1>1, PageMapProperties
  <1> QED BY <1>2, Zenon DEF Owned

\* A process whose entries and mapped frames do not change sees what it saw.
LEMMA SpaceStays ==
  ASSUME PageInv, NEW q \in Proc, status'[q] = status[q], ptes'[q] = ptes[q],
         status[q] = "run" =>
           \A v \in VPN : ptes[q][v] # None => mem'[ptes[q][v]] = mem[ptes[q][v]]
  PROVE  Space'[q] = Space[q]
  BY DEF Space

\* The steps that leave page tables and memory alone.
LEMMA PageStutter ==
  ASSUME PageInv, UNCHANGED <<current, recycled, mem, status, ptes, tables, kernel_stack, areas, spaces>>,
         halted' \in {"no", "frame_alloc", "VPNRange", "map"}
  PROVE  PageInv' /\ Space' = Space
PROOF
  <1>1. FrameInv'
    BY FrameStutter, Zenon DEF PageInv
  <1>2. PageType'
    BY Zenon DEF PageInv, PageType
  <1>3. Mapped'
    BY Zenon DEF PageInv, Mapped
  <1> QED BY <1>1, <1>2, <1>3, Zenon DEF PageInv, Space

\* p sees the given content on the pages of the areas rs, and no other process
\* sees a change.
Filled(p, rs, content) ==
  /\ \A q \in Proc \ {p} : Space'[q] = Space[q]
  /\ Space'[p] = [v \in VPN |-> IF AreaOf(rs, v) = {} THEN None ELSE content[v]]

\* NewSpace keeps the invariant and, unless it panics, fills the pages of rs.
LEMMA NewSpacePages ==
  ASSUME PageInv, NEW p \in Proc,
         NEW rs, Ranges(rs), Len(rs) = 4, rs[1].start < rs[1].end,
         NEW content \in [VPN -> Val], NEW n \in Nat,
         NEW back \in Seq(Frame), IsInjective(back),
         \A f \in Frame : Contains(back, f) <=> Contains(tables[p], f) \/ InAreas(areas[p], f),
         n # 0 => kernel_stack[p] = <<>>,
         halted = "no",
         NewSpace(p, rs, content, n, back)
  PROVE  PageInv' /\ (Space' = Space \/ Filled(p, rs, content))
PROOF
  <1> DEFINE k == FramesNeeded(rs)
             s == SubSeq(Supply, 1, k + n)
             new == NewAreas(rs, s)
             pm == PageMap(new)
  <1>0. k \in Nat
    <2>1. Pages(rs) \in Seq(Nat \X Nat)
      BY PagesProperties, Zenon
    <2> QED BY <2>1, SeqLen DEF FramesNeeded
  <1>1. FrameInv /\ PageType /\ Mapped
    BY Zenon DEF PageInv
  <1>2. ~DeallocPanics(back)
    <2>1. \A f \in Frame : Contains(back, f) => Owned(p, f)
      BY Zenon DEF Owned
    <2> QED BY <1>1, <2>1, NoDeallocPanic, Zenon
  <1>3. CASE Panic("map") \/ Panic("frame_alloc")
    <2>1. /\ UNCHANGED <<current, recycled, mem, status, ptes, tables, kernel_stack, areas, spaces>>
          /\ halted' \in {"no", "frame_alloc", "VPNRange", "map"}
      BY <1>3, Zenon DEF Panic, allocVars, spaceVars
    <2> QED BY <2>1, PageStutter, Zenon
  <1>4. CASE ~(Panic("map") \/ Panic("frame_alloc"))
    <2>1. /\ spaces < MaxSpaces /\ Disjoint(rs)
          /\ k + n <= Len(Supply)
          /\ mem' = Cleared(s, pm, content)
          /\ status' = [status EXCEPT ![p] = "run"]
          /\ ptes' = [ptes EXCEPT ![p] = pm]
          /\ areas' = [areas EXCEPT ![p] = new]
          /\ spaces' = spaces + 1
          /\ UNCHANGED halted
      <3>1. Len(Supply) \in Nat
        BY <1>1, SupplyElements, Zenon DEF FrameInv
      <3> HIDE DEF k, s, new, pm
      <3>2. /\ spaces < MaxSpaces /\ Disjoint(rs)
            /\ ~(k + n > Len(Supply))
            /\ mem' = Cleared(s, pm, content)
            /\ status' = [status EXCEPT ![p] = "run"]
            /\ ptes' = [ptes EXCEPT ![p] = pm]
            /\ areas' = [areas EXCEPT ![p] = new]
            /\ spaces' = spaces + 1
            /\ UNCHANGED halted
        BY <1>2, <1>4, Zenon DEF NewSpace, k, s, new, pm
      <3> QED BY <1>0, <3>1, <3>2, SMTT(30)
    <2>2. FrameInv'
      BY <1>1, NewSpaceStep, Zenon
    <2>3. Needs(rs, k, n) /\ s = SubSeq(Supply, 1, k + n)
      BY <1>0, Zenon DEF Needs
    <2> HIDE DEF k, s
    <2>4. (\A f : Contains(s, f) => Free(f)) /\ Divided(s, rs, k, n)
      BY <1>1, <2>1, <2>3, NewFrames, Zenon
    <2>5. /\ AreasOk(new) /\ Len(new) = 4
          /\ \A f \in Frame : InAreas(new, f) => Contains(s, f)
          /\ \A j \in 1..4 : new[j].start = rs[j].start /\ new[j].end = rs[j].end
      BY <2>4, Zenon DEF Divided, Apart
    <2> HIDE DEF new
    <2>6. /\ pm \in [VPN -> Frame \union {None}]
          /\ \A v \in VPN : pm[v] # None <=> AreaOf(new, v) # {}
          /\ \A v \in VPN : pm[v] # None => InAreas(new, pm[v])
          /\ \A v, w \in VPN : pm[v] = pm[w] /\ pm[v] # None => v = w
      BY <2>5, PageMapProperties, Zenon
    <2>7. pm = PageMap(new)
      BY Zenon
    <2> HIDE DEF pm
    <2>8. \A j \in 1..4 : AreaPages(new[j]) = AreaPages(rs[j])
      BY <2>5, Zenon DEF AreaPages
    <2>9. \A v \in VPN : AreaOf(new, v) = AreaOf(rs, v)
      <3>1. Len(new) = 4 /\ Len(rs) = 4
        BY <2>3, <2>5, Zenon DEF Needs
      <3> TAKE v \in VPN
      <3>2. {i \in 1..4 : v \in AreaPages(new[i])} = {i \in 1..4 : v \in AreaPages(rs[i])}
        BY <2>8, Zenon
      <3> QED BY <3>1, <3>2, Zenon DEF AreaOf
    <2>10. Disjoint(new)
      BY <2>1, <2>5, <2>8, Zenon DEF Disjoint
    <2>11. \A f \in Frame : mem'[f] = IF \E v \in VPN : pm[v] = f
                                      THEN content[CHOOSE v \in VPN : pm[v] = f]
                                      ELSE IF Contains(s, f) THEN 0 ELSE mem[f]
      BY <2>1, Zenon DEF Cleared
    <2>12. ASSUME NEW v \in VPN, pm[v] # None
           PROVE  pm[v] \in Frame /\ mem'[pm[v]] = content[v]
      <3>1. pm[v] \in Frame
        BY <2>6, <2>12, Zenon
      <3>2. (CHOOSE w \in VPN : pm[w] = pm[v]) = v
        BY <2>6, <2>12, Zenon
      <3> QED BY <2>11, <3>1, <3>2, Zenon
    <2>13. \A f \in Frame : ~Free(f) => mem'[f] = mem[f]
      <3>1. ASSUME NEW f \in Frame, ~Free(f), NEW v \in VPN, pm[v] = f
            PROVE  FALSE
        <4>1. f # None
          BY MemoryAssumption, SMTT(30) DEF Frame
        <4> QED BY <2>4, <2>5, <2>6, <3>1, <4>1, Zenon
      <3> QED BY <2>4, <2>11, <3>1, Zenon
    <2>14. PageType'
      <3>1. mem' = [f \in Frame |-> mem'[f]]
        BY <2>1, Zenon DEF Cleared
      <3>2. \A f \in Frame : mem'[f] \in Val
        <4>1. ASSUME NEW f \in Frame, NEW v \in VPN, pm[v] = f
              PROVE  mem'[f] \in Val
          <5>1. f # None
            BY MemoryAssumption DEF Frame
          <5> QED BY <2>12, <4>1, <5>1, Zenon
        <4>2. 0 \in Val /\ \A f \in Frame : mem[f] \in Val
          BY <1>1, MemoryAssumption, Zenon DEF PageType
        <4> QED BY <2>11, <4>1, <4>2, Zenon
      <3>3. mem' \in [Frame -> Val]
        BY <3>1, <3>2, Zenon
      <3>4. ptes' \in [Proc -> [VPN -> Frame \union {None}]]
        BY <1>1, <2>1, <2>6, Zenon DEF PageType
      <3>5. spaces' \in 0..MaxSpaces
        BY <1>1, <2>1, MemoryAssumption, SMTT(30) DEF PageType
      <3> QED BY <1>1, <2>1, <3>3, <3>4, <3>5, Zenon DEF PageType
    <2>15. /\ ptes'[p] = pm /\ areas'[p] = new /\ status'[p] = "run"
           /\ \A q \in Proc \ {p} : /\ ptes'[q] = ptes[q] /\ areas'[q] = areas[q]
                                    /\ status'[q] = status[q]
      BY <1>1, <2>1, Zenon DEF FrameInv, HoldersType, PageType
    <2>16. Mapped'
      <3>1. ASSUME NEW q \in Proc, status'[q] = "run"
            PROVE  Disjoint(areas'[q]) /\ ptes'[q] = PageMap(areas'[q])
        <4>1. CASE q = p
          BY <2>7, <2>10, <2>15, <4>1, Zenon
        <4>2. CASE q # p
          BY <1>1, <2>15, <3>1, <4>2, Zenon DEF Mapped
        <4> QED BY <4>1, <4>2, Zenon
      <3> QED BY <3>1, Zenon DEF Mapped
    <2>17. ASSUME NEW q \in Proc \ {p}
           PROVE  Space'[q] = Space[q]
      <3>1. ASSUME status[q] = "run", NEW v \in VPN, ptes[q][v] # None
            PROVE  mem'[ptes[q][v]] = mem[ptes[q][v]]
        <4>1. ptes[q][v] \in Frame /\ Owned(q, ptes[q][v])
          BY <3>1, MappedOwned, Zenon
        <4>2. ~Free(ptes[q][v])
          BY <1>1, <4>1, Zenon DEF FrameInv, Ownership
        <4> QED BY <2>13, <4>1, <4>2, Zenon
      <3> QED BY <2>15, <3>1, SpaceStays, Zenon
    <2>18. Space'[p] = [v \in VPN |-> IF AreaOf(rs, v) = {} THEN None ELSE content[v]]
      <3>1. Space'[p] = [v \in VPN |-> IF pm[v] # None THEN mem'[pm[v]] ELSE None]
        BY <2>15, Zenon DEF Space
      <3>2. \A v \in VPN : (IF pm[v] # None THEN mem'[pm[v]] ELSE None)
                           = IF AreaOf(rs, v) = {} THEN None ELSE content[v]
        BY <2>6, <2>9, <2>12, Zenon
      <3> QED BY <3>1, <3>2, Zenon
    <2> QED BY <2>2, <2>14, <2>16, <2>17, <2>18, Zenon DEF PageInv, Filled
  <1> QED BY <1>3, <1>4, Zenon

\* The page table and the areas after append_to.
LEMMA GrownMap ==
  ASSUME NEW rs, NEW rn, NEW j, NEW old, NEW e, NEW s, Grows(rs, rn, j, old, e, s),
         Disjoint(rs), \A v \in old..(e - 1) : PageMap(rs)[v] = None
  PROVE  /\ Disjoint(rn) /\ old..(e - 1) \subseteq VPN
         /\ PageMap(rn) = [v \in VPN |-> IF v \in old..(e - 1) THEN s[v - old + 1] ELSE PageMap(rs)[v]]
PROOF
  <1> DEFINE new == old..(e - 1)
  <1>1. /\ AreasOk(rs) /\ AreasOk(rn) /\ Len(rs) = 4 /\ Len(rn) = 4 /\ j \in 1..4
        /\ \A v \in VPN : rn[j].data_frames[v] =
             IF v \in new THEN s[v - old + 1] ELSE rs[j].data_frames[v]
        /\ \A i \in 1..4 : i # j => rn[i] = rs[i]
    <2>1. AreasOk(rn)
      BY GrownAreas, Zenon
    <2> QED BY <2>1, Zenon DEF Grows
  <1>2. /\ old \in Nat /\ e \in Nat /\ e <= Top + 1 /\ old <= e /\ rs[j].end = old
        /\ rn[j].end = e /\ rn[j].start = rs[j].start /\ Top \in Nat
    BY MemoryAssumption, Zenon DEF Grows
  <1>3. new \subseteq VPN
    BY <1>2 DEF VPN
  <1>4. AreaPages(rn[j]) = AreaPages(rs[j]) \union new
    <2> DEFINE a == rs[j].start
    <2>1. a \in 0..Top /\ a <= old
      BY <1>1, <1>2, Zenon DEF VPN, AreasOk, Ranges
    <2>2. AreaPages(rn[j]) = a..(e - 1) /\ AreaPages(rs[j]) = a..(old - 1)
      BY <1>2, Zenon DEF AreaPages
    <2> HIDE DEF a
    <2> QED BY <1>2, <2>1, <2>2
  <1>5. \A i \in 1..4 : i # j => AreaPages(rn[i]) = AreaPages(rs[i])
    BY <1>1, Zenon
  <1>6. \A v \in new : AreaOf(rs, v) = {}
    BY <1>1, <1>3, PageMapProperties, Zenon
  <1> HIDE DEF new
  <1>7. \A v \in VPN : AreaOf(rn, v) = IF v \in new THEN {j} ELSE AreaOf(rs, v)
    <2>1. ASSUME NEW v \in VPN, v \in new
          PROVE  AreaOf(rn, v) = {j}
      <3>1. \A i \in 1..4 : v \notin AreaPages(rs[i])
        BY <1>1, <1>6, <2>1, Zenon DEF AreaOf
      <3> QED BY <1>1, <1>4, <1>5, <2>1, <3>1, Zenon DEF AreaOf
    <2>2. ASSUME NEW v \in VPN, v \notin new
          PROVE  AreaOf(rn, v) = AreaOf(rs, v)
      <3>1. \A i \in 1..4 : v \in AreaPages(rn[i]) <=> v \in AreaPages(rs[i])
        BY <1>4, <1>5, <2>2, Zenon
      <3> QED BY <1>1, <3>1, Zenon DEF AreaOf
    <2> QED BY <2>1, <2>2, Zenon
  <1>8. Disjoint(rn)
    <2>1. \A i \in 1..4 : i # j => AreaPages(rs[i]) \intersect new = {}
      BY <1>1, <1>6, Zenon DEF AreaOf
    <2>2. \A i, l \in 1..4 : i # l => AreaPages(rs[i]) \intersect AreaPages(rs[l]) = {}
      BY <1>1, Zenon DEF Disjoint
    <2>3. \A i, l \in 1..4 : i # l => AreaPages(rn[i]) \intersect AreaPages(rn[l]) = {}
      BY <1>4, <1>5, <2>1, <2>2, Zenon
    <2> QED BY <1>1, <2>3, Zenon DEF Disjoint
  <1>9. ASSUME NEW v \in VPN
        PROVE  PageMap(rn)[v] = IF v \in new THEN s[v - old + 1] ELSE PageMap(rs)[v]
    <2>1. PageMap(rn)[v] = IF AreaOf(rn, v) = {} THEN None
                           ELSE rn[CHOOSE i \in AreaOf(rn, v) : TRUE].data_frames[v]
      BY Zenon DEF PageMap
    <2>2. PageMap(rs)[v] = IF AreaOf(rs, v) = {} THEN None
                           ELSE rs[CHOOSE i \in AreaOf(rs, v) : TRUE].data_frames[v]
      BY Zenon DEF PageMap
    <2>3. CASE v \in new
      <3>1. (CHOOSE i \in {j} : TRUE) = j /\ {j} # {}
        BY Zenon
      <3> QED BY <1>1, <1>7, <2>1, <2>3, <3>1, Zenon
    <2>4. CASE v \notin new /\ AreaOf(rs, v) = {}
      BY <1>7, <2>1, <2>2, <2>4, Zenon
    <2>5. CASE v \notin new /\ AreaOf(rs, v) # {}
      <3> DEFINE i == CHOOSE i \in AreaOf(rs, v) : TRUE
      <3>1. i \in AreaOf(rs, v)
        BY <2>5, Zenon
      <3>2. i \in 1..4
        BY <1>1, <3>1, Zenon DEF AreaOf
      <3>3. PageMap(rn)[v] = rn[i].data_frames[v] /\ PageMap(rs)[v] = rs[i].data_frames[v]
        BY <1>7, <2>1, <2>2, <2>5, Zenon
      <3> HIDE DEF i
      <3>4. rn[i].data_frames[v] = rs[i].data_frames[v]
        BY <1>1, <2>5, <3>2, Zenon
      <3> QED BY <2>5, <3>3, <3>4, Zenon
    <2> QED BY <2>3, <2>4, <2>5, Zenon
  <1>10. PageMap(rn) = [v \in VPN |-> PageMap(rn)[v]]
    BY DEF PageMap
  <1>11. PageMap(rn) = [v \in VPN |-> IF v \in new THEN s[v - old + 1] ELSE PageMap(rs)[v]]
    BY <1>9, <1>10, Zenon
  <1> QED BY <1>3, <1>8, <1>11, Zenon DEF new

\* append_to keeps the invariant; p sees zeros on its new pages and no other
\* process sees a change.
LEMMA AppendPages ==
  ASSUME PageInv, NEW p \in Proc, Running(p), NEW j \in 1..Len(areas[p]),
         NEW e \in Nat, e <= Top + 1, append_to(p, j, e)
  PROVE  /\ PageInv'
         /\ \/ Space' = Space
            \/ /\ \A q \in Proc \ {p} : Space'[q] = Space[q]
               /\ \A v \in VPN : \/ Space'[p][v] = Space[p][v]
                                 \/ Space[p][v] = None /\ Space'[p][v] = 0
PROOF
  <1> DEFINE rs == areas[p]
             rn == areas'[p]
             old == rs[j].end
             n == e - old
             s == SubSeq(Supply, 1, n)
             new == old..(e - 1)
             pm == [v \in VPN |-> IF v \in new THEN s[v - old + 1] ELSE None]
             zero == [v \in VPN |-> 0]
  <1>1. FrameInv /\ PageType /\ Mapped /\ status[p] = "run" /\ halted = "no"
    BY Zenon DEF PageInv, Running
  <1>2. FrameInv' /\ (AppendPanics \/ Appended(p, j, e))
    BY <1>1, AppendStep, Zenon
  <1>3. CASE AppendPanics
    <2>1. /\ UNCHANGED <<current, recycled, mem, status, ptes, tables, kernel_stack, areas, spaces>>
          /\ halted' \in {"no", "frame_alloc", "VPNRange", "map"}
      BY <1>3, Zenon DEF AppendPanics, Panic, allocVars, spaceVars
    <2> QED BY <2>1, PageStutter, Zenon
  <1>4. CASE ~AppendPanics
    <2>1. Grows(rs, rn, j, old, e, s) /\ \A f : Contains(s, f) => Free(f)
      BY <1>2, <1>4, Zenon DEF Appended
    <2>2. /\ \A v \in new : ptes[p][v] = None
          /\ mem' = Cleared(s, pm, zero)
          /\ ptes' = [ptes EXCEPT ![p] = [v \in VPN |-> IF v \in new THEN pm[v] ELSE ptes[p][v]]]
          /\ UNCHANGED <<status, spaces, halted>>
          /\ \A q \in Proc \ {p} : areas'[q] = areas[q]
      <3>1. areas \in [Proc -> Seq(MapArea)]
        BY <1>1, Zenon DEF FrameInv, HoldersType
      <3>2. \E g : areas' = [areas EXCEPT ![p][j] = g]
        BY <1>4, Zenon DEF AppendPanics, append_to
      <3>3. \A q \in Proc \ {p} : areas'[q] = areas[q]
        BY <3>1, <3>2, Zenon
      <3> QED BY <1>4, <3>3, Zenon DEF AppendPanics, append_to
    <2>3. Disjoint(rs) /\ ptes[p] = PageMap(rs)
      BY <1>1, Zenon DEF Mapped
    <2>4. \A v \in old..(e - 1) : PageMap(rs)[v] = None
      BY <2>2, <2>3, Zenon
    <2> HIDE DEF rs, rn, old, s, n
    <2>5. /\ Disjoint(rn) /\ new \subseteq VPN
          /\ PageMap(rn) = [v \in VPN |-> IF v \in new THEN s[v - old + 1] ELSE PageMap(rs)[v]]
      BY <2>1, <2>3, <2>4, GrownMap, SMTT(30)
    <2>6. /\ \A v \in VPN : pm[v] = IF v \in new THEN s[v - old + 1] ELSE None
          /\ \A v \in VPN : zero[v] = 0
      BY Zenon
    <2>7. \A v \in new : s[v - old + 1] \in Frame /\ Contains(s, s[v - old + 1])
      <3>1. /\ s \in Seq(Frame) /\ Len(s) = e - old /\ old \in Nat /\ old <= e
        BY <2>1, Zenon DEF Grows
      <3>2. \A v \in new : v - old + 1 \in 1..Len(s)
        BY <3>1
      <3> QED BY <3>1, <3>2, SeqElement, Zenon DEF Contains
    <2> HIDE DEF new, pm, zero
    <2>8. ptes' = [ptes EXCEPT ![p] = PageMap(rn)]
      <3>1. [v \in VPN |-> IF v \in new THEN pm[v] ELSE ptes[p][v]] = PageMap(rn)
        BY <2>3, <2>5, <2>6, Zenon
      <3> QED BY <2>2, <3>1, Zenon
    <2>9. /\ ptes'[p] = PageMap(rn) /\ \A q \in Proc \ {p} : ptes'[q] = ptes[q]
      BY <1>1, <2>8, Zenon DEF PageType
    <2>10. Mapped'
      <3>1. ASSUME NEW q \in Proc, status'[q] = "run"
            PROVE  Disjoint(areas'[q]) /\ ptes'[q] = PageMap(areas'[q])
        <4>1. CASE q = p
          BY <2>5, <2>9, <4>1, Zenon DEF rn
        <4>2. CASE q # p
          BY <1>1, <2>2, <2>9, <3>1, <4>2, Zenon DEF Mapped
        <4> QED BY <4>1, <4>2, Zenon
      <3> QED BY <3>1, Zenon DEF Mapped
    <2>11. \A f \in Frame : mem'[f] = IF \E v \in VPN : pm[v] = f
                                      THEN zero[CHOOSE v \in VPN : pm[v] = f]
                                      ELSE IF Contains(s, f) THEN 0 ELSE mem[f]
      BY <2>2, Zenon DEF Cleared
    <2>12. \A f \in Frame : /\ ~Free(f) => mem'[f] = mem[f]
                            /\ (\E v \in VPN : pm[v] = f) => mem'[f] = 0
                            /\ mem'[f] \in {0, mem[f]}
      <3>1. ASSUME NEW f \in Frame, NEW v \in VPN, pm[v] = f
            PROVE  Free(f) /\ mem'[f] = 0
        <4>1. f # None
          BY MemoryAssumption DEF Frame
        <4>2. v \in new /\ f = s[v - old + 1]
          BY <2>6, <3>1, <4>1, Zenon
        <4>3. (CHOOSE w \in VPN : pm[w] = f) \in VPN
          BY <3>1, Zenon
        <4>4. Free(f)
          BY <2>1, <2>7, <4>2, Zenon
        <4>5. mem'[f] = zero[CHOOSE w \in VPN : pm[w] = f]
          BY <2>11, <3>1, Zenon
        <4> QED BY <2>6, <4>3, <4>4, <4>5, Zenon
      <3> QED BY <2>1, <2>11, <3>1, Zenon
    <2>13. PageType'
      <3>1. mem' = [f \in Frame |-> mem'[f]]
        BY <2>2, Zenon DEF Cleared
      <3>2. \A f \in Frame : mem'[f] \in Val
        BY <1>1, <2>12, MemoryAssumption, Zenon DEF PageType
      <3>3. mem' \in [Frame -> Val]
        BY <3>1, <3>2, Zenon
      <3>4. PageMap(rn) \in [VPN -> Frame \union {None}]
        <4>1. AreasOk(rn)
          BY <2>1, GrownAreas, Zenon
        <4> QED BY <4>1, PageMapProperties, Zenon
      <3>5. ptes' \in [Proc -> [VPN -> Frame \union {None}]]
        BY <1>1, <2>8, <3>4, Zenon DEF PageType
      <3> QED BY <1>1, <2>2, <3>3, <3>5, Zenon DEF PageType
    <2>14. \A q \in Proc : status[q] = "run" =>
             \A v \in VPN : ptes[q][v] # None => mem'[ptes[q][v]] = mem[ptes[q][v]]
      <3>1. ASSUME NEW q \in Proc, status[q] = "run", NEW v \in VPN, ptes[q][v] # None
            PROVE  mem'[ptes[q][v]] = mem[ptes[q][v]]
        <4>1. ptes[q][v] \in Frame /\ Owned(q, ptes[q][v])
          BY <3>1, MappedOwned, Zenon
        <4>2. ~Free(ptes[q][v])
          BY <1>1, <4>1, Zenon DEF FrameInv, Ownership
        <4> QED BY <2>12, <4>1, <4>2, Zenon
      <3> QED BY <3>1, Zenon
    <2>15. \A q \in Proc \ {p} : Space'[q] = Space[q]
      BY <2>2, <2>9, <2>14, SpaceStays, Zenon
    <2>16. ASSUME NEW v \in VPN
           PROVE  \/ Space'[p][v] = Space[p][v]
                  \/ Space[p][v] = None /\ Space'[p][v] = 0
      <3>1. /\ Space'[p][v] = IF ptes'[p][v] # None THEN mem'[ptes'[p][v]] ELSE None
            /\ Space[p][v] = IF ptes[p][v] # None THEN mem[ptes[p][v]] ELSE None
        <4>1. status[p] = "run" /\ status'[p] = "run"
          BY <1>1, <2>2, Zenon
        <4> QED BY <4>1, Zenon DEF Space
      <3>2. CASE v \in new
        <4>1. ptes[p][v] = None
          BY <2>2, <3>2, Zenon
        <4>2. ptes'[p][v] = pm[v] /\ pm[v] \in Frame
          BY <2>5, <2>6, <2>7, <2>9, <3>2, Zenon
        <4>3. pm[v] # None
          BY <4>2, MemoryAssumption DEF Frame
        <4>4. mem'[pm[v]] = 0
          BY <2>12, <4>2, Zenon
        <4> QED BY <3>1, <4>1, <4>2, <4>3, <4>4, Zenon
      <3>3. CASE v \notin new
        <4>1. ptes'[p][v] = ptes[p][v]
          BY <2>3, <2>5, <2>9, <3>3, Zenon
        <4> QED BY <1>1, <2>14, <3>1, <4>1, Zenon
      <3> QED BY <3>2, <3>3, Zenon
    <2> QED BY <1>2, <2>10, <2>13, <2>15, <2>16, Zenon DEF PageInv
  <1> QED BY <1>3, <1>4, Zenon

\* A store changes one page of one process.
LEMMA WritePages ==
  ASSUME PageInv, NEW p \in Proc, NEW v \in VPN, NEW x \in Val, Write(p, v, x)
  PROVE  PageInv' /\ Space[p][v] # None /\ Space' = [Space EXCEPT ![p][v] = x]
PROOF
  <1>1. /\ halted = "no" /\ status[p] = "run" /\ ptes[p][v] # None
        /\ mem' = [mem EXCEPT ![ptes[p][v]] = x]
        /\ UNCHANGED <<current, recycled, status, ptes, tables, kernel_stack, areas, spaces, halted>>
    BY Zenon DEF Write, Running, allocVars, spaceVars
  <1>2. FrameInv /\ PageType /\ Mapped
    BY Zenon DEF PageInv
  <1>3. FrameInv'
    BY <1>1, <1>2, FrameStutter, Zenon
  <1>4. PageType'
    BY <1>1, <1>2, Zenon DEF PageType
  <1>5. Mapped'
    BY <1>1, <1>2, Zenon DEF Mapped
  <1>6. ptes[p][v] \in Frame /\ Owned(p, ptes[p][v])
    BY <1>1, MappedOwned, Zenon
  <1>7. \A f \in Frame : mem'[f] = IF f = ptes[p][v] THEN x ELSE mem[f]
    BY <1>1, <1>2, <1>6, Zenon DEF PageType
  <1>8. ASSUME NEW q \in Proc, status[q] = "run", NEW w \in VPN, ptes[q][w] # None
        PROVE  mem'[ptes[q][w]] = IF q = p /\ w = v THEN x ELSE mem[ptes[q][w]]
    <2>1. ptes[q][w] \in Frame /\ Owned(q, ptes[q][w])
      BY <1>8, MappedOwned, Zenon
    <2>2. ptes[q][w] = ptes[p][v] => q = p
      BY <1>2, <1>6, <2>1, Zenon DEF FrameInv, Ownership
    <2>3. ptes[p][w] = ptes[p][v] => w = v
      BY <1>1, MappedOwned, Zenon
    <2> QED BY <1>7, <2>1, <2>2, <2>3, Zenon
  <1>9. ASSUME NEW q \in Proc, NEW w \in VPN
        PROVE  Space'[q][w] = IF q = p /\ w = v THEN x ELSE Space[q][w]
    <2>1. /\ Space[q][w] = IF status[q] = "run" /\ ptes[q][w] # None THEN mem[ptes[q][w]] ELSE None
          /\ Space'[q][w] = IF status[q] = "run" /\ ptes[q][w] # None THEN mem'[ptes[q][w]] ELSE None
      BY <1>1 DEF Space
    <2> QED BY <1>1, <1>8, <2>1, Zenon
  <1>10. Space[p][v] \in Val
    BY <1>1, <1>2, <1>6, Zenon DEF Space, PageType
  <1>11. Space' = [Space EXCEPT ![p][v] = x]
    <2>1. /\ Space = [q \in Proc |-> [w \in VPN |-> Space[q][w]]]
          /\ Space' = [q \in Proc |-> [w \in VPN |-> Space'[q][w]]]
      BY Zenon DEF Space
    <2> DEFINE S == Space
               T == Space'
    <2> HIDE DEF S, T
    <2>2. /\ S = [q \in Proc |-> [w \in VPN |-> S[q][w]]]
          /\ T = [q \in Proc |-> [w \in VPN |-> T[q][w]]]
          /\ \A q \in Proc, w \in VPN : T[q][w] = IF q = p /\ w = v THEN x ELSE S[q][w]
      BY <1>9, <2>1, Zenon DEF S, T
    <2>3. T = [S EXCEPT ![p] = [S[p] EXCEPT ![v] = x]]
      BY <2>2
    <2> QED BY <2>3, Zenon DEF S, T
  <1>12. Space[p][v] # None
    BY <1>10, MemoryAssumption, Zenon
  <1> QED BY <1>3, <1>4, <1>5, <1>11, <1>12, Zenon DEF PageInv

\* A process that exits loses its pages; the others see no change.
LEMMA ExitPages ==
  ASSUME PageInv, NEW p \in Proc, exit(p)
  PROVE  /\ PageInv' /\ \A q \in Proc \ {p} : Space'[q] = Space[q]
         /\ Space'[p] = [v \in VPN |-> None]
PROOF
  <1>1. FrameInv /\ PageType /\ Mapped
    BY Zenon DEF PageInv
  <1>2. FrameInv'
    BY <1>1, ExitStep, Zenon
  <1>3. /\ status' = [status EXCEPT ![p] = "zombie"]
        /\ areas' = [areas EXCEPT ![p] = <<>>]
        /\ UNCHANGED <<mem, ptes, spaces, halted>>
    <2>1. halted' # "dealloc"
      BY <1>2, Zenon DEF FrameInv
    <2> QED BY <2>1, Zenon DEF exit, Panic
  <1>4. /\ status'[p] = "zombie"
        /\ \A q \in Proc \ {p} : status'[q] = status[q] /\ areas'[q] = areas[q]
    BY <1>1, <1>3, Zenon DEF FrameInv, HoldersType
  <1>5. PageType'
    BY <1>1, <1>3, Zenon DEF PageType
  <1>6. Mapped'
    <2>1. ASSUME NEW q \in Proc, status'[q] = "run"
          PROVE  Disjoint(areas'[q]) /\ ptes'[q] = PageMap(areas'[q])
      BY <1>1, <1>3, <1>4, <2>1, Zenon DEF Mapped
    <2> QED BY <2>1, Zenon DEF Mapped
  <1>7. \A q \in Proc \ {p} : Space'[q] = Space[q]
    BY <1>3, <1>4, SpaceStays, Zenon
  <1>8. Space'[p] = [v \in VPN |-> None]
    BY <1>4, Zenon DEF Space
  <1> QED BY <1>2, <1>5, <1>6, <1>7, <1>8, Zenon DEF PageInv

\* The drop of a TCB changes nothing that a process sees.
LEMMA ReapPages ==
  ASSUME PageInv, NEW p \in Proc, reap(p)
  PROVE  PageInv' /\ Space' = Space
PROOF
  <1>1. FrameInv /\ PageType /\ Mapped /\ status[p] = "zombie"
    BY Zenon DEF PageInv, reap
  <1>2. FrameInv'
    BY <1>1, ReapStep, Zenon
  <1>3. /\ status' = [status EXCEPT ![p] = "absent"]
        /\ ptes' = [ptes EXCEPT ![p] = NoPages]
        /\ UNCHANGED <<mem, areas, spaces, halted>>
    <2>1. halted' # "dealloc"
      BY <1>2, Zenon DEF FrameInv
    <2> QED BY <2>1, Zenon DEF reap, Panic
  <1>4. /\ status'[p] = "absent"
        /\ \A q \in Proc \ {p} : status'[q] = status[q] /\ ptes'[q] = ptes[q]
    BY <1>1, <1>3, Zenon DEF FrameInv, HoldersType, PageType
  <1>5. PageType'
    <2>1. NoPages \in [VPN -> Frame \union {None}]
      BY Zenon DEF NoPages
    <2> QED BY <1>1, <1>3, <2>1, Zenon DEF PageType
  <1>6. Mapped'
    <2>1. ASSUME NEW q \in Proc, status'[q] = "run"
          PROVE  Disjoint(areas'[q]) /\ ptes'[q] = PageMap(areas'[q])
      BY <1>1, <1>3, <1>4, <2>1, Zenon DEF Mapped
    <2> QED BY <2>1, Zenon DEF Mapped
  <1>7. \A q \in Proc : Space'[q] = Space[q]
    <2>1. \A q \in Proc \ {p} : Space'[q] = Space[q]
      BY <1>3, <1>4, SpaceStays, Zenon
    <2>2. Space'[p] = Space[p]
      BY <1>1, <1>4, Zenon DEF Space
    <2> QED BY <2>1, <2>2, Zenon
  <1>8. Space' = Space
    <2>1. Space = [q \in Proc |-> Space[q]] /\ Space' = [q \in Proc |-> Space'[q]]
      BY Zenon DEF Space
    <2> QED BY <1>7, <2>1, Zenon
  <1> QED BY <1>2, <1>5, <1>6, <1>8, Zenon DEF PageInv

-----------------------------------------------------------------------------
(* The theorems about address spaces.                                      *)

\* A step of the kernel keeps the invariant and is a step of PrivateMemory.
LEMMA PageSteps ==
  ASSUME PageInv, [Next]_vars
  PROVE  PageInv' /\ [Memory!PrivateNext]_Space
PROOF
  <1>0. KstackPages \in Nat /\ 0 \in Nat /\ FrameInv /\ PageType /\ Mapped
    BY MemoryAssumption, Zenon DEF PageInv
  <1>1. ASSUME NEW p \in Proc, NEW v \in Stores, NEW x \in Val, Write(p, v, x)
        PROVE  PageInv' /\ Memory!PrivateNext
    <2>1. v \in VPN
      BY MemoryAssumption DEF VPN
    <2>2. PageInv' /\ Memory!Store(p, v, x)
      BY <1>1, <2>1, WritePages, Zenon DEF Memory!Store
    <2> QED BY <2>1, <2>2, Zenon DEF Memory!PrivateNext
  <1>2. ASSUME NEW p \in Proc, NEW c \in Proc, fork(p, c)
        PROVE  PageInv' /\ (Memory!PrivateNext \/ Space' = Space)
    <2>1. /\ Ranges(areas[p]) /\ Len(areas[p]) = 4 /\ areas[p][1].start < areas[p][1].end
          /\ status[p] = "run" /\ status[c] = "absent" /\ halted = "no"
      BY <1>0, <1>2, Zenon DEF fork, Running, FrameInv, Stage, Apart, AreasOk
    <2> DEFINE content == [v \in VPN |-> IF ptes[p][v] = None THEN 0 ELSE mem[ptes[p][v]]]
    <2>2. NewSpace(c, areas[p], content, KstackPages, <<>>)
      BY <1>2, Zenon DEF fork
    <2>3. content \in [VPN -> Val]
      BY <1>0, MemoryAssumption, Zenon DEF PageType
    <2>4. \A v \in VPN : /\ ptes[p][v] # None <=> AreaOf(areas[p], v) # {}
                         /\ ptes[p][v] # None => content[v] = mem[ptes[p][v]]
      BY <2>1, MappedOwned, Zenon
    <2> HIDE DEF content
    <2>5. PageInv' /\ (Space' = Space \/ Filled(c, areas[p], content))
      BY <1>0, <2>1, <2>2, <2>3, AbsentHolds, NewSpacePages, Zenon
    <2>6. ASSUME Filled(c, areas[p], content)
          PROVE  Memory!Copy(p, c)
      <3>1. Space[c] = [v \in VPN |-> None]
        BY <2>1, Zenon DEF Space
      <3>2. Space[p] = [v \in VPN |-> IF ptes[p][v] # None THEN mem[ptes[p][v]] ELSE None]
        BY <2>1, Zenon DEF Space
      <3>3. Space'[c] = Space[p]
        BY <2>4, <2>6, <3>2, Zenon DEF Filled
      <3>4. Space = [q \in Proc |-> Space[q]] /\ Space' = [q \in Proc |-> Space'[q]]
        BY Zenon DEF Space
      <3>5. Space' = [Space EXCEPT ![c] = Space[p]]
        BY <2>6, <3>3, <3>4, Zenon DEF Filled
      <3> QED BY <3>1, <3>5, Zenon DEF Memory!Copy, Memory!Empty
    <2> QED BY <2>5, <2>6, Zenon DEF Memory!PrivateNext
  <1>3. ASSUME NEW n \in Programs
        PROVE  /\ ElfContent(n) \in [VPN -> Val]
               /\ [v \in VPN |-> IF AreaOf(ElfAreas(n), v) = {} THEN None ELSE ElfContent(n)[v]]
                    \in ElfImages
    BY MemoryAssumption, Zenon DEF ElfContent, ElfImages
  <1>4. ASSUME NEW p \in Proc, NEW c \in Proc, NEW n \in Programs, spawn(p, c, n)
        PROVE  PageInv' /\ (Memory!PrivateNext \/ Space' = Space)
    <2>1. /\ status[c] = "absent" /\ halted = "no"
          /\ NewSpace(c, ElfAreas(n), ElfContent(n), KstackPages, <<>>)
      BY <1>4, Zenon DEF spawn, Running
    <2>2. PageInv' /\ (Space' = Space \/ Filled(c, ElfAreas(n), ElfContent(n)))
      BY <1>0, <1>3, <2>1, ElfRanges, AbsentHolds, NewSpacePages, Zenon
    <2>3. Filled(c, ElfAreas(n), ElfContent(n)) => Memory!Load(c)
      BY <1>3, Zenon DEF Filled, Memory!Load, Memory!Only
    <2> QED BY <2>2, <2>3, Zenon DEF Memory!PrivateNext
  <1>5. ASSUME NEW p \in Proc, NEW n \in Programs, exec(p, n)
        PROVE  PageInv' /\ (Memory!PrivateNext \/ Space' = Space)
    <2>1. halted = "no" /\ NewSpace(p, ElfAreas(n), ElfContent(n), 0, SpaceFrames(p))
      BY <1>5, Zenon DEF exec, Running
    <2>2. /\ SpaceFrames(p) \in Seq(Frame) /\ IsInjective(SpaceFrames(p))
          /\ \A f \in Frame : Contains(SpaceFrames(p), f) <=>
                                Contains(tables[p], f) \/ InAreas(areas[p], f)
      BY <1>0, FramesBack, Zenon
    <2>3. PageInv' /\ (Space' = Space \/ Filled(p, ElfAreas(n), ElfContent(n)))
      BY <1>0, <1>3, <2>1, <2>2, ElfRanges, NewSpacePages, Zenon
    <2>4. Filled(p, ElfAreas(n), ElfContent(n)) => Memory!Load(p)
      BY <1>3, Zenon DEF Filled, Memory!Load, Memory!Only
    <2> QED BY <2>3, <2>4, Zenon DEF Memory!PrivateNext
  <1>6. ASSUME NEW p \in Proc, NEW a \in 1..((Top - 1) * PAGE_SIZE), sys_brk(p, a)
        PROVE  PageInv' /\ (Memory!PrivateNext \/ Space' = Space)
    <2>1. CASE a - program_brk[p] > PAGE_SIZE
      <3>1. PICK j \in 1..Len(areas[p]) : append_to(p, j, Ceil(a))
        BY <1>6, <2>1, Zenon DEF sys_brk
      <3> DEFINE e == Ceil(a)
      <3>2. e \in Nat /\ e < Top /\ Top \in Nat
        BY CeilBound, MemoryAssumption, Zenon
      <3> HIDE DEF e
      <3>3. e \in Nat /\ e <= Top + 1
        BY <3>2
      <3>4. Running(p) /\ append_to(p, j, e)
        BY <1>6, <3>1, Zenon DEF sys_brk, e
      <3>5. /\ PageInv'
            /\ \/ Space' = Space
               \/ /\ \A q \in Proc \ {p} : Space'[q] = Space[q]
                  /\ \A v \in VPN : \/ Space'[p][v] = Space[p][v]
                                    \/ Space[p][v] = None /\ Space'[p][v] = 0
        BY <3>3, <3>4, AppendPages, Zenon
      <3> QED BY <3>5, Zenon DEF Memory!PrivateNext, Memory!Grow, Memory!Only
    <2>2. CASE ~(a - program_brk[p] > PAGE_SIZE)
      <3>1. /\ UNCHANGED <<current, recycled, mem, status, ptes, tables, kernel_stack, areas, spaces>>
            /\ halted' \in {"no", "frame_alloc", "VPNRange", "map"}
        BY <1>6, <2>2, Zenon DEF sys_brk, allocVars, spaceVars, Running
      <3> QED BY <3>1, PageStutter, Zenon
    <2> QED BY <2>1, <2>2, Zenon
  <1>7. ASSUME NEW p \in Proc, exit(p)
        PROVE  PageInv' /\ Memory!PrivateNext
    BY <1>7, ExitPages, Zenon DEF Memory!PrivateNext, Memory!Load, Memory!Only, Memory!Empty
  <1>8. ASSUME NEW p \in Proc, reap(p)
        PROVE  PageInv' /\ Space' = Space
    BY <1>8, ReapPages, Zenon
  <1>9. CASE Stopped \/ UNCHANGED vars
    <2>1. /\ UNCHANGED <<current, recycled, mem, status, ptes, tables, kernel_stack, areas, spaces>>
          /\ halted' \in {"no", "frame_alloc", "VPNRange", "map"}
      BY <1>0, <1>9, Zenon DEF Stopped, vars, allocVars, spaceVars, FrameInv, PageType
    <2> QED BY <2>1, PageStutter, Zenon
  <1> QED BY <1>1, <1>2, <1>4, <1>5, <1>6, <1>7, <1>8, <1>9, Zenon DEF Next

\* The first process: its pages are mapped and hold its program.
LEMMA PageInit ==
  ASSUME Init
  PROVE  PageInv /\ Memory!PrivateInit
PROOF
  <1>1. PICK n \in Programs :
          LET rs == ElfAreas(n)
              k == FramesNeeded(rs)
              s == [i \in 1..(k + KstackPages) |-> i - 1]
              new == NewAreas(rs, s)
              pm == PageMap(new)
              Only(x, y) == [p \in Proc |-> IF p = First THEN x ELSE y]
          IN /\ mem = [f \in Frame |-> IF \E v \in 0..(n - 1) : pm[v] = f THEN 1 ELSE 0]
             /\ status = Only("run", "absent")
             /\ ptes = Only(pm, NoPages)
             /\ areas = Only(new, <<>>)
             /\ spaces = 0
             /\ halted = "no"
    BY Zenon DEF Init
  <1> DEFINE rs == ElfAreas(n)
             k == FramesNeeded(rs)
             s == [i \in 1..(k + KstackPages) |-> i - 1]
             new == NewAreas(rs, s)
             pm == PageMap(new)
  <1>2. /\ mem = [f \in Frame |-> IF \E v \in 0..(n - 1) : pm[v] = f THEN 1 ELSE 0]
        /\ status = [p \in Proc |-> IF p = First THEN "run" ELSE "absent"]
        /\ ptes = [p \in Proc |-> IF p = First THEN pm ELSE NoPages]
        /\ areas = [p \in Proc |-> IF p = First THEN new ELSE <<>>]
        /\ spaces = 0 /\ halted = "no"
    BY <1>1, Zenon
  <1>3. FrameInv
    BY FrameInit, Zenon
  <1>4. /\ First \in Proc /\ Top \in Nat /\ MaxSpaces \in Nat /\ n \in Nat \ {0}
        /\ StackPages \in Nat /\ n + StackPages + 2 < Top /\ {0, 1} \subseteq Val
    BY MemoryAssumption, Zenon
  <1>5. /\ ptes[First] = pm /\ areas[First] = new /\ status[First] = "run"
        /\ \A q \in Proc \ {First} : ptes[q] = NoPages /\ status[q] = "absent"
    BY <1>2, <1>4, Zenon
  <1>6. /\ Len(new) = 4 /\ Len(rs) = 4
        /\ \A j \in 1..4 : new[j].start = rs[j].start /\ new[j].end = rs[j].end
    <2>1. Len(rs) = 4
      BY ElfRanges, Zenon
    <2> HIDE DEF rs, s
    <2> QED BY <2>1 DEF NewAreas
  <1>7. AreasOk(new)
    BY <1>3, <1>4, <1>5, Zenon DEF FrameInv, Apart
  <1>8. /\ rs[1].start = 0 /\ rs[1].end = n
        /\ rs[2].start = n + 1 /\ rs[2].end = n + 1 + StackPages
        /\ rs[3].start = n + 1 + StackPages /\ rs[3].end = (n + 1 + StackPages) + 1
        /\ rs[4].start = Top /\ rs[4].end = Top + 1
    BY Zenon DEF ElfAreas, user_sp
  <1> HIDE DEF new
  <1>9. /\ pm \in [VPN -> Frame \union {None}]
        /\ \A v \in VPN : pm[v] # None <=> AreaOf(new, v) # {}
        /\ \A v, w \in VPN : pm[v] = pm[w] /\ pm[v] # None => v = w
    BY <1>7, PageMapProperties, Zenon
  <1>10. pm = PageMap(new)
    BY Zenon
  <1> HIDE DEF rs, k, s, pm
  <1>11. \A j \in 1..4 : AreaPages(new[j]) = AreaPages(rs[j])
    BY <1>6, Zenon DEF AreaPages
  <1>12. \A v \in VPN : AreaOf(new, v) = AreaOf(rs, v)
    BY <1>6, <1>11 DEF AreaOf
  <1>13. Disjoint(new)
    <2>1. /\ AreaPages(rs[1]) = 0..(n - 1) /\ AreaPages(rs[2]) = (n + 1)..(n + StackPages)
          /\ AreaPages(rs[3]) = (n + 1 + StackPages)..(n + 1 + StackPages) /\ AreaPages(rs[4]) = Top..Top
      BY <1>4, <1>8 DEF AreaPages
    <2>2. ASSUME NEW i \in 1..4, NEW x \in AreaPages(rs[i])
          PROVE  i = IF x < n THEN 1 ELSE IF x < n + 1 + StackPages THEN 2
                     ELSE IF x < Top THEN 3 ELSE 4
      <3>1. CASE i = 1
        BY <1>4, <2>1, <2>2, <3>1
      <3>2. CASE i = 2
        BY <1>4, <2>1, <2>2, <3>2
      <3>3. CASE i = 3
        BY <1>4, <2>1, <2>2, <3>3
      <3>4. CASE i = 4
        BY <1>4, <2>1, <2>2, <3>4
      <3> QED BY <3>1, <3>2, <3>3, <3>4
    <2> QED BY <1>6, <1>11, <2>2, Zenon DEF Disjoint
  <1>14. PageType
    <2>1. mem \in [Frame -> Val]
      BY <1>2, <1>4, Zenon
    <2>2. NoPages \in [VPN -> Frame \union {None}]
      BY Zenon DEF NoPages
    <2> QED BY <1>2, <1>4, <1>9, <2>1, <2>2 DEF PageType
  <1>15. Mapped
    BY <1>5, <1>10, <1>13, Zenon DEF Mapped
  <1>16. \A v \in VPN : v < n => AreaOf(rs, v) # {}
    <2>1. ASSUME NEW v \in VPN, v < n
          PROVE  1 \in AreaOf(rs, v)
      BY <1>4, <1>6, <1>8, <2>1 DEF AreaOf, AreaPages, VPN
    <2> QED BY <2>1, Zenon
  <1>17. ASSUME NEW v \in VPN, pm[v] # None
         PROVE  mem[pm[v]] = IF v < n THEN 1 ELSE 0
    <2>1. pm[v] \in Frame
      BY <1>9, <1>17, Zenon
    <2>2. (\E w \in 0..(n - 1) : pm[w] = pm[v]) <=> v < n
      <3>1. ASSUME NEW w \in 0..(n - 1), pm[w] = pm[v]
            PROVE  v < n
        <4>1. w \in VPN
          BY <1>4 DEF VPN
        <4>2. w = v
          BY <1>9, <1>17, <3>1, <4>1, Zenon
        <4> QED BY <1>4, <4>2
      <3>2. ASSUME v < n
            PROVE  v \in 0..(n - 1)
        BY <1>4, <3>2 DEF VPN
      <3> QED BY <3>1, <3>2, Zenon
    <2> QED BY <1>2, <2>1, <2>2, Zenon
  <1>18. Space[First] \in ElfImages
    <2>1. Space[First] = [v \in VPN |-> IF pm[v] # None THEN mem[pm[v]] ELSE None]
      BY <1>4, <1>5, Zenon DEF Space
    <2>2. ASSUME NEW v \in VPN
          PROVE  (IF pm[v] # None THEN mem[pm[v]] ELSE None)
                 = IF AreaOf(ElfAreas(n), v) = {} THEN None ELSE ElfContent(n)[v]
      BY <1>9, <1>12, <1>17, Zenon DEF ElfContent, rs
    <2>3. Space[First] = [v \in VPN |-> IF AreaOf(ElfAreas(n), v) = {} THEN None ELSE ElfContent(n)[v]]
      BY <2>1, <2>2, Zenon
    <2> QED BY <2>3, Zenon DEF ElfImages
  <1>19. \A q \in Proc \ {First} : Space[q] = [v \in VPN |-> None]
    BY <1>5, Zenon DEF Space
  <1> QED BY <1>3, <1>4, <1>14, <1>15, <1>18, <1>19, Zenon DEF PageInv, Memory!PrivateInit, Memory!Empty

\* The bounds of the heap stay numbers.
LEMMA BrkStep ==
  ASSUME BrkType, [Next]_vars
  PROVE  BrkType'
PROOF
  <1>1. 0 \in Nat /\ \A a \in 1..((Top - 1) * PAGE_SIZE) : a \in Nat
    OBVIOUS
  <1>2. ASSUME NEW p \in Proc, NEW c \in Proc,
               heap_bottom' = [heap_bottom EXCEPT ![c] = heap_bottom[p]],
               program_brk' = [program_brk EXCEPT ![c] = program_brk[p]]
        PROVE  BrkType'
    BY <1>2, Zenon DEF BrkType
  <1>3. ASSUME NEW p \in Proc, NEW a \in Nat, NEW h \in Nat,
               heap_bottom' = [heap_bottom EXCEPT ![p] = h] \/ UNCHANGED heap_bottom,
               program_brk' = [program_brk EXCEPT ![p] = a]
        PROVE  BrkType'
    BY <1>3, Zenon DEF BrkType
  <1>4. UNCHANGED brkVars => BrkType'
    BY Zenon DEF BrkType, brkVars
  <1>5. ASSUME NEW p \in Proc, NEW a \in 1..((Top - 1) * PAGE_SIZE), sys_brk(p, a)
        PROVE  BrkType'
    BY <1>1, <1>3, <1>5, Zenon DEF sys_brk
  <1>6. ASSUME NEW p \in Proc, reap(p)
        PROVE  BrkType'
    BY <1>1, <1>3, <1>6, Zenon DEF reap
  <1> QED BY <1>2, <1>4, <1>5, <1>6, Zenon DEF Next, Write, fork, spawn, exec, exit, Stopped, vars

\* The heap bounds of the first process.
LEMMA BrkInit ==
  ASSUME Init
  PROVE  BrkType
PROOF
  <1>1. PICK n \in Programs :
          /\ heap_bottom = [p \in Proc |-> IF p = First THEN user_sp(n) * PAGE_SIZE ELSE 0]
          /\ program_brk = [p \in Proc |-> IF p = First THEN (user_sp(n) + 1) * PAGE_SIZE ELSE 0]
    BY Zenon DEF Init
  <1>2. user_sp(n) * PAGE_SIZE \in Nat /\ (user_sp(n) + 1) * PAGE_SIZE \in Nat
    <2>1. user_sp(n) \in Nat /\ user_sp(n) + 1 \in Nat /\ PAGE_SIZE \in Nat
      BY MemoryAssumption DEF user_sp
    <2>2. \A u, w \in Nat : u * w \in Nat
      OBVIOUS
    <2> QED BY <2>1, <2>2, Zenon
  <1> QED BY <1>1, <1>2, Zenon DEF BrkType

\* The allocator, the areas that hold frames and the page tables agree in every
\* state: no frame is lost or held twice, dealloc never panics, and a process
\* that runs maps exactly the pages of its areas, to frames that they hold.
THEOREM MemoryAlwaysSound == Spec => []MemorySound
PROOF
  <1>1. Init => PageInv /\ BrkType
    BY PageInit, BrkInit, Zenon
  <1>2. PageInv /\ BrkType /\ [Next]_vars => (PageInv /\ BrkType)'
    BY PageSteps, BrkStep, Zenon
  <1>3. PageInv /\ BrkType => MemorySound
    <2>1. SUFFICES ASSUME PageInv, BrkType
                   PROVE  MemorySound
      BY Zenon
    <2>2. FramesConserved
      BY <2>1, Conserved, Zenon DEF PageInv
    <2>3. TypeOK
      BY <2>1, Zenon DEF PageInv, FrameInv, AllocInv, AllocType, HoldersType, PageType, BrkType, TypeOK
    <2>4. MappedFramesHeld
      BY <2>1, Zenon DEF PageInv, FrameInv, Apart, AreasOk, Mapped, MappedFramesHeld
    <2> QED BY <2>2, <2>3, <2>4, Zenon DEF MemorySound
  <1> QED BY <1>1, <1>2, <1>3, PTL DEF Spec

\* The frames and page tables implement memory that is private to each process
\* (PrivateMemory): fork copies, brk adds zeros, exec and spawn load a program,
\* and nothing that a process does changes a page of another.
THEOREM FramesImplementPrivateMemory == Spec => PrivateSpec
PROOF
  <1>1. Init => PageInv /\ Memory!PrivateInit
    BY PageInit, Zenon
  <1>2. PageInv /\ [Next]_vars => PageInv' /\ [Memory!PrivateNext]_Space
    BY PageSteps, Zenon
  <1> QED BY <1>1, <1>2, PTL DEF Spec, PrivateSpec, Memory!PrivateSpec
=============================================================================
