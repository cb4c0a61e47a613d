--------------------------- MODULE SequenceLemmas ---------------------------
(***************************************************************************)
(* Facts about the sequence operators that the models are built from.  The *)
(* elementary ones are restated here, for tlapm carries every definition   *)
(* and theorem of the extended modules through every obligation.           *)
(***************************************************************************)
EXTENDS Lists, TLAPS

\* A sequence is a function on 1..Len whose values are its elements.
LEMMA SeqLen ==
  ASSUME NEW S, NEW s \in Seq(S)
  PROVE  Len(s) \in Nat /\ DOMAIN s = 1..Len(s) /\ s \in [1..Len(s) -> S]
  OBVIOUS

\* What is at an index of a sequence has the type of its elements.
LEMMA SeqElement ==
  ASSUME NEW S, NEW s \in Seq(S), NEW i \in 1..Len(s)
  PROVE  s[i] \in S
  OBVIOUS

\* Only the empty sequence has length 0.
LEMMA SeqEmpty ==
  ASSUME NEW S
  PROVE  /\ <<>> \in Seq(S) /\ Len(<<>>) = 0
         /\ \A s \in Seq(S) : s = <<>> <=> Len(s) = 0
  OBVIOUS

\* What Append does.
LEMMA SeqAppend ==
  ASSUME NEW S, NEW s \in Seq(S), NEW e \in S
  PROVE  /\ Append(s, e) \in Seq(S) /\ Len(Append(s, e)) = Len(s) + 1
         /\ \A i \in 1..Len(s) : Append(s, e)[i] = s[i]
         /\ Append(s, e)[Len(s) + 1] = e
  OBVIOUS

\* What concatenation does.
LEMMA SeqConcat ==
  ASSUME NEW S, NEW s \in Seq(S), NEW t \in Seq(S)
  PROVE  /\ s \o t \in Seq(S) /\ Len(s \o t) = Len(s) + Len(t)
         /\ \A i \in 1..(Len(s) + Len(t)) :
              (s \o t)[i] = IF i <= Len(s) THEN s[i] ELSE t[i - Len(s)]
  OBVIOUS

\* The empty sequence adds nothing, and Append is concatenation.
LEMMA SeqConcatShort ==
  ASSUME NEW S, NEW s \in Seq(S), NEW e \in S
  PROVE  s \o <<>> = s /\ <<>> \o s = s /\ Append(s, e) = s \o <<e>>
  OBVIOUS

\* What EXCEPT does to a sequence.
Put(s, i, e) == [s EXCEPT ![i] = e]

\* Put changes the one element and nothing else.
LEMMA SeqPut ==
  ASSUME NEW S, NEW s \in Seq(S), NEW i \in 1..Len(s), NEW e \in S
  PROVE  /\ Put(s, i, e) \in Seq(S) /\ Len(Put(s, i, e)) = Len(s)
         /\ Put(s, i, e)[i] = e
         /\ \A j \in 1..Len(s) : j # i => Put(s, i, e)[j] = s[j]
  BY DEF Put

\* What SubSeq does to anything with values at m..n.
LEMMA SeqSubSeq ==
  ASSUME NEW S, NEW s, NEW m \in Int, NEW n \in Int, \A i \in m..n : s[i] \in S
  PROVE  /\ SubSeq(s, m, n) \in Seq(S)
         /\ Len(SubSeq(s, m, n)) = IF m <= n THEN n - m + 1 ELSE 0
         /\ \A i \in 1..(n - m + 1) : SubSeq(s, m, n)[i] = s[m + i - 1]
  OBVIOUS

\* A range of indices without members cuts out nothing.
LEMMA SeqSubSeqEmpty ==
  ASSUME NEW s, NEW m \in Int, NEW n \in Int, n < m
  PROVE  SubSeq(s, m, n) = <<>>
  OBVIOUS

\* What RemoveAt does to a sequence: the queue after fetch, the children after
\* waitpid.
LEMMA RemoveAtProperties ==
  ASSUME NEW S, NEW s \in Seq(S), NEW i \in 1..Len(s)
  PROVE  /\ RemoveAt(s, i) \in Seq(S)
         /\ Len(RemoveAt(s, i)) = Len(s) - 1
         /\ \A j \in 1..(Len(s) - 1) :
              RemoveAt(s, i)[j] = IF j < i THEN s[j] ELSE s[j + 1]
PROOF
  <1> DEFINE l == SubSeq(s, 1, i - 1)
             r == SubSeq(s, i + 1, Len(s))
  <1>1. /\ l \in Seq(S) /\ Len(l) = i - 1
        /\ \A j \in 1..(i - 1) : l[j] = s[j]
    BY SeqSubSeq, SMT
  <1>2. /\ r \in Seq(S) /\ Len(r) = Len(s) - i
        /\ \A j \in 1..(Len(s) - i) : r[j] = s[i + j]
    BY SeqSubSeq, SMT
  <1>3. /\ l \o r \in Seq(S) /\ Len(l \o r) = Len(l) + Len(r)
        /\ \A j \in 1..(Len(l) + Len(r)) :
             (l \o r)[j] = IF j <= Len(l) THEN l[j] ELSE r[j - Len(l)]
    BY <1>1, <1>2, SeqConcat
  <1>4. RemoveAt(s, i) = l \o r
    BY DEF RemoveAt
  <1> HIDE DEF l, r
  <1>5. Len(s) \in Nat
    BY SeqLen
  <1>6. Len(l) + Len(r) = Len(s) - 1
    BY <1>1, <1>2, <1>5
  <1>7. ASSUME NEW j \in 1..(Len(s) - 1)
        PROVE  (l \o r)[j] = IF j < i THEN s[j] ELSE s[j + 1]
    <2>1. CASE j < i
      BY <1>1, <1>3, <1>5, <1>6, <2>1
    <2>2. CASE ~(j < i)
      <3>1. (l \o r)[j] = r[j - (i - 1)]
        BY <1>1, <1>3, <1>5, <1>6, <2>2
      <3>2. j - (i - 1) \in 1..(Len(s) - i) /\ i + (j - (i - 1)) = j + 1
        BY <1>5, <2>2
      <3> QED BY <1>2, <2>2, <3>1, <3>2
    <2> QED BY <2>1, <2>2
  <1> QED BY <1>3, <1>4, <1>6, <1>7

\* What Front and Last return: the recycle stack after alloc.
LEMMA FrontProperties ==
  ASSUME NEW S, NEW s \in Seq(S), s # <<>>
  PROVE  /\ Front(s) \in Seq(S)
         /\ Len(Front(s)) = Len(s) - 1
         /\ \A j \in 1..(Len(s) - 1) : Front(s)[j] = s[j]
         /\ Last(s) = s[Len(s)]
         /\ Len(s) \in 1..Len(s)
         /\ Last(s) \in S
PROOF
  <1>1. Len(s) \in Nat \ {0}
    BY SeqEmpty
  <1>2. \A j \in 1..Len(s) : s[j] \in S
    BY SeqElement
  <1>3. ASSUME NEW n \in Nat, n = Len(s) - 1
        PROVE  /\ SubSeq(s, 1, n) \in Seq(S)
               /\ Len(SubSeq(s, 1, n)) = n
               /\ \A j \in 1..n : SubSeq(s, 1, n)[j] = s[j]
    <2>1. \A j \in 1..n : s[j] \in S
      BY <1>1, <1>2, <1>3
    <2> QED BY <2>1, SeqSubSeq, SMT
  <1>4. Len(s) - 1 \in Nat /\ Len(s) \in 1..Len(s)
    BY <1>1
  <1>5. /\ Front(s) \in Seq(S)
        /\ Len(Front(s)) = Len(s) - 1
        /\ \A j \in 1..(Len(s) - 1) : Front(s)[j] = s[j]
    BY <1>3, <1>4, Zenon DEF Front
  <1> QED BY <1>2, <1>4, <1>5 DEF Last

-----------------------------------------------------------------------------
(* Members and repetitions.                                                *)

\* No element of a sequence is repeated, in terms of its indices.
LEMMA InjectiveSeq ==
  ASSUME NEW S, NEW s \in Seq(S)
  PROVE  IsInjective(s) <=> \A i, j \in 1..Len(s) : s[i] = s[j] => i = j
  BY SeqLen DEF IsInjective

\* What a sequence contains has the type of its elements.
LEMMA ContainsTyped ==
  ASSUME NEW S, NEW s \in Seq(S), NEW x, Contains(s, x)
  PROVE  x \in S
  BY SeqElement DEF Contains

\* Contains is membership in the set of the elements.
LEMMA ToSetContains ==
  ASSUME NEW S, NEW s \in Seq(S)
  PROVE  \A x : x \in ToSet(s) <=> Contains(s, x)
  BY SeqLen DEF ToSet, Contains

\* Members after Append: add_task on the ready queue, a new child.
LEMMA AppendMembers ==
  ASSUME NEW S, NEW s \in Seq(S), NEW e \in S
  PROVE  /\ \A x : Contains(Append(s, e), x) <=> Contains(s, x) \/ x = e
         /\ IsInjective(s) /\ ~Contains(s, e) => IsInjective(Append(s, e))
PROOF
  <1>1. /\ Append(s, e) \in Seq(S)
        /\ Len(Append(s, e)) = Len(s) + 1
        /\ \A i \in 1..Len(s) : Append(s, e)[i] = s[i]
        /\ Append(s, e)[Len(s) + 1] = e
        /\ Len(s) \in Nat
    BY SeqAppend, SeqLen
  <1>2. \A x : Contains(Append(s, e), x) <=> Contains(s, x) \/ x = e
    <2> TAKE x
    <2>1. ASSUME Contains(Append(s, e), x) PROVE Contains(s, x) \/ x = e
      <3>1. PICK i \in 1..(Len(s) + 1) : Append(s, e)[i] = x
        BY <1>1, <2>1 DEF Contains
      <3>2. CASE i = Len(s) + 1
        BY <1>1, <3>1, <3>2
      <3>3. CASE i \in 1..Len(s)
        BY <1>1, <3>1, <3>3 DEF Contains
      <3> QED BY <1>1, <3>2, <3>3
    <2>2. ASSUME Contains(s, x) PROVE Contains(Append(s, e), x)
      <3>1. PICK i \in 1..Len(s) : s[i] = x
        BY <2>2 DEF Contains
      <3>2. i \in 1..Len(Append(s, e)) /\ Append(s, e)[i] = x
        BY <1>1, <3>1
      <3> QED BY <3>2 DEF Contains
    <2>3. ASSUME x = e PROVE Contains(Append(s, e), x)
      <3>1. Len(s) + 1 \in 1..Len(Append(s, e))
        BY <1>1
      <3> QED BY <1>1, <2>3, <3>1 DEF Contains
    <2> QED BY <2>1, <2>2, <2>3
  <1>3. ASSUME IsInjective(s), ~Contains(s, e) PROVE IsInjective(Append(s, e))
    <2>1. ASSUME NEW i \in 1..(Len(s) + 1), NEW j \in 1..(Len(s) + 1),
                 Append(s, e)[i] = Append(s, e)[j]
          PROVE  i = j
      <3>1. CASE i \in 1..Len(s) /\ j \in 1..Len(s)
        BY <1>1, <1>3, <2>1, <3>1, InjectiveSeq
      <3>2. CASE i = Len(s) + 1 /\ j \in 1..Len(s)
        BY <1>1, <1>3, <2>1, <3>2 DEF Contains
      <3>3. CASE i \in 1..Len(s) /\ j = Len(s) + 1
        BY <1>1, <1>3, <2>1, <3>3 DEF Contains
      <3> QED BY <1>1, <3>1, <3>2, <3>3
    <2> QED BY <1>1, <2>1, InjectiveSeq
  <1> QED BY <1>2, <1>3

\* Members after RemoveAt: the queue after fetch, the children after waitpid.
LEMMA RemoveAtMembers ==
  ASSUME NEW S, NEW s \in Seq(S), NEW i \in 1..Len(s), IsInjective(s)
  PROVE  /\ \A x : Contains(RemoveAt(s, i), x) <=> Contains(s, x) /\ x # s[i]
         /\ IsInjective(RemoveAt(s, i))
PROOF
  <1> DEFINE r == RemoveAt(s, i)
             From(j) == IF j < i THEN j ELSE j + 1
  <1>1. /\ r \in Seq(S)
        /\ Len(r) = Len(s) - 1
        /\ \A j \in 1..(Len(s) - 1) : r[j] = s[From(j)]
        /\ Len(s) \in Nat
    BY RemoveAtProperties, SeqLen
  <1>2. \A j, k \in 1..Len(s) : s[j] = s[k] => j = k
    BY InjectiveSeq
  <1> HIDE DEF r
  <1>3. \A x : Contains(r, x) <=> Contains(s, x) /\ x # s[i]
    <2> TAKE x
    <2>1. ASSUME Contains(r, x) PROVE Contains(s, x) /\ x # s[i]
      <3>1. PICK j \in 1..(Len(s) - 1) : r[j] = x
        BY <1>1, <2>1 DEF Contains
      <3>2. From(j) \in 1..Len(s) /\ From(j) # i /\ s[From(j)] = x
        BY <1>1, <3>1
      <3> QED BY <1>2, <3>2 DEF Contains
    <2>2. ASSUME Contains(s, x), x # s[i] PROVE Contains(r, x)
      <3>1. PICK k \in 1..Len(s) : s[k] = x
        BY <2>2 DEF Contains
      <3>2. CASE k < i
        <4>1. k \in 1..(Len(s) - 1) /\ From(k) = k
          BY <1>1, <3>2
        <4> QED BY <1>1, <3>1, <4>1 DEF Contains
      <3>3. CASE k > i
        <4>1. k - 1 \in 1..(Len(s) - 1) /\ From(k - 1) = k
          BY <1>1, <3>3
        <4> QED BY <1>1, <3>1, <4>1 DEF Contains
      <3> QED BY <2>2, <3>1, <3>2, <3>3
    <2> QED BY <2>1, <2>2
  <1>4. IsInjective(r)
    <2>1. ASSUME NEW j \in 1..(Len(s) - 1), NEW k \in 1..(Len(s) - 1), r[j] = r[k]
          PROVE  j = k
      <3>1. From(j) \in 1..Len(s) /\ From(k) \in 1..Len(s) /\ s[From(j)] = s[From(k)]
        BY <1>1, <2>1
      <3>2. From(j) = From(k)
        BY <1>2, <3>1
      <3> QED BY <3>2
    <2> QED BY <1>1, <2>1, InjectiveSeq
  <1> QED BY <1>3, <1>4 DEF r

\* Members after Front: the recycle stack after alloc.
LEMMA FrontMembers ==
  ASSUME NEW S, NEW s \in Seq(S), s # <<>>, IsInjective(s)
  PROVE  /\ \A x : Contains(Front(s), x) <=> Contains(s, x) /\ x # Last(s)
         /\ IsInjective(Front(s))
         /\ Contains(s, Last(s))
PROOF
  <1>1. /\ Front(s) \in Seq(S)
        /\ Len(Front(s)) = Len(s) - 1
        /\ \A j \in 1..(Len(s) - 1) : Front(s)[j] = s[j]
        /\ Last(s) = s[Len(s)]
        /\ Len(s) \in 1..Len(s)
        /\ Len(s) \in Nat
    BY FrontProperties, SeqLen
  <1>2. \A j, k \in 1..Len(s) : s[j] = s[k] => j = k
    BY InjectiveSeq
  <1>3. \A x : Contains(Front(s), x) <=> Contains(s, x) /\ x # Last(s)
    BY <1>1, <1>2 DEF Contains
  <1>4. IsInjective(Front(s))
    BY <1>1, <1>2, InjectiveSeq
  <1>5. Contains(s, Last(s))
    BY <1>1 DEF Contains
  <1> QED BY <1>3, <1>4, <1>5

\* Members of a concatenation: the children that exit hands to INITPROC.
LEMMA ConcatMembers ==
  ASSUME NEW S, NEW s \in Seq(S), NEW t \in Seq(S)
  PROVE  /\ \A x : Contains(s \o t, x) <=> Contains(s, x) \/ Contains(t, x)
         /\ IsInjective(s) /\ IsInjective(t)
              /\ (\A x : ~(Contains(s, x) /\ Contains(t, x)))
            => IsInjective(s \o t)
PROOF
  <1>1. /\ s \o t \in Seq(S)
        /\ Len(s \o t) = Len(s) + Len(t)
        /\ Len(s) \in Nat /\ Len(t) \in Nat
        /\ \A i \in 1..(Len(s) + Len(t)) :
             (s \o t)[i] = IF i <= Len(s) THEN s[i] ELSE t[i - Len(s)]
    BY SeqConcat, SeqLen
  <1>2. \A x : Contains(s \o t, x) <=> Contains(s, x) \/ Contains(t, x)
    <2> TAKE x
    <2>1. ASSUME Contains(s \o t, x) PROVE Contains(s, x) \/ Contains(t, x)
      <3>1. PICK i \in 1..(Len(s) + Len(t)) : (s \o t)[i] = x
        BY <1>1, <2>1 DEF Contains
      <3>2. CASE i <= Len(s)
        BY <1>1, <3>1, <3>2 DEF Contains
      <3>3. CASE ~(i <= Len(s))
        <4>1. i - Len(s) \in 1..Len(t)
          BY <1>1, <3>3
        <4> QED BY <1>1, <3>1, <3>3, <4>1 DEF Contains
      <3> QED BY <3>2, <3>3
    <2>2. ASSUME Contains(s, x) PROVE Contains(s \o t, x)
      <3>1. PICK i \in 1..Len(s) : s[i] = x
        BY <2>2 DEF Contains
      <3>2. i \in 1..Len(s \o t) /\ (s \o t)[i] = x
        BY <1>1, <3>1
      <3> QED BY <3>2 DEF Contains
    <2>3. ASSUME Contains(t, x) PROVE Contains(s \o t, x)
      <3>1. PICK i \in 1..Len(t) : t[i] = x
        BY <2>3 DEF Contains
      <3>2. i + Len(s) \in 1..Len(s \o t) /\ (s \o t)[i + Len(s)] = x
        BY <1>1, <3>1
      <3> QED BY <3>2 DEF Contains
    <2> QED BY <2>1, <2>2, <2>3
  <1>3. ASSUME IsInjective(s), IsInjective(t),
               \A x : ~(Contains(s, x) /\ Contains(t, x))
        PROVE  IsInjective(s \o t)
    <2>1. ASSUME NEW i \in 1..(Len(s) + Len(t)), NEW j \in 1..(Len(s) + Len(t)),
                 (s \o t)[i] = (s \o t)[j]
          PROVE  i = j
      <3>1. ASSUME NEW k \in 1..Len(s), NEW l \in 1..Len(t) PROVE s[k] # t[l]
        BY <1>3 DEF Contains
      <3>2. CASE i <= Len(s) /\ j <= Len(s)
        BY <1>1, <1>3, <2>1, <3>2, InjectiveSeq
      <3>3. CASE i <= Len(s) /\ ~(j <= Len(s))
        BY <1>1, <2>1, <3>1, <3>3
      <3>4. CASE ~(i <= Len(s)) /\ j <= Len(s)
        BY <1>1, <2>1, <3>1, <3>4
      <3>5. CASE ~(i <= Len(s)) /\ ~(j <= Len(s))
        <4>1. i - Len(s) \in 1..Len(t) /\ j - Len(s) \in 1..Len(t)
          BY <1>1, <3>5
        <4>2. t[i - Len(s)] = t[j - Len(s)]
          BY <1>1, <2>1, <3>5
        <4>3. i - Len(s) = j - Len(s)
          BY <1>3, <4>1, <4>2, InjectiveSeq
        <4> QED BY <1>1, <4>3
      <3> QED BY <3>2, <3>3, <3>4, <3>5
    <2> QED BY <1>1, <2>1, InjectiveSeq
  <1> QED BY <1>2, <1>3

\* A concatenation keeps its first part in place.
LEMMA ConcatPrefix ==
  ASSUME NEW S, NEW s \in Seq(S), NEW t \in Seq(S), NEW i \in 1..Len(s)
  PROVE  i \in 1..Len(s \o t) /\ (s \o t)[i] = s[i]
PROOF
  <1>1. Len(s) \in Nat /\ Len(t) \in Nat
    BY SeqLen
  <1>2. i \in 1..(Len(s) + Len(t)) /\ i <= Len(s)
    BY <1>1
  <1> QED BY <1>2, SeqConcat

\* FlattenSeq is defined by recursion; for four sequences, the areas of an
\* address space, it is their concatenation.
LEMMA FlattenFour ==
  ASSUME NEW ss, Len(ss) = 4
  PROVE  FlattenSeq(ss) = ((ss[1] \o ss[2]) \o ss[3]) \o ss[4]
PROOF
  <1> DEFINE Body(f) == [i \in 1..4 |-> IF i = 1 THEN ss[i] ELSE f[i - 1] \o ss[i]]
             flat == CHOOSE f : f = Body(f)
             g == [i \in 1..4 |-> IF i = 1 THEN ss[1]
                                  ELSE IF i = 2 THEN ss[1] \o ss[2]
                                  ELSE IF i = 3 THEN (ss[1] \o ss[2]) \o ss[3]
                                  ELSE ((ss[1] \o ss[2]) \o ss[3]) \o ss[4]]
  <1>1. g = Body(g)
    <2>1. ASSUME NEW i \in 1..4
          PROVE  g[i] = Body(g)[i]
      <3>1. CASE i = 1
        BY <3>1
      <3>2. CASE i = 2
        BY <3>2
      <3>3. CASE i = 3
        BY <3>3
      <3>4. CASE i = 4
        BY <3>4
      <3> QED BY <3>1, <3>2, <3>3, <3>4
    <2> QED BY <2>1
  <1>2. flat = Body(flat)
    BY <1>1
  <1>3. FlattenSeq(ss) = flat[4]
    BY DEF FlattenSeq
  <1> HIDE DEF flat
  <1>4. \A i \in 1..4 : flat[i] = IF i = 1 THEN ss[i] ELSE flat[i - 1] \o ss[i]
    BY <1>2
  <1> HIDE DEF Body, g
  <1>5. /\ flat[1] = ss[1] /\ flat[2] = flat[1] \o ss[2]
        /\ flat[3] = flat[2] \o ss[3] /\ flat[4] = flat[3] \o ss[4]
    <2>1. /\ 1 \in 1..4 /\ 2 \in 1..4 /\ 3 \in 1..4 /\ 4 \in 1..4
          /\ 2 - 1 = 1 /\ 3 - 1 = 2 /\ 4 - 1 = 3 /\ 2 # 1 /\ 3 # 1 /\ 4 # 1
      OBVIOUS
    <2> QED BY <1>4, <2>1, Zenon
  <1> QED BY <1>3, <1>5
=============================================================================
