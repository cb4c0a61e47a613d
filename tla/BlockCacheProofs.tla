--------------------------- MODULE BlockCacheProofs ---------------------------
(***************************************************************************)
(* The block caches for every number of blocks and every size of the       *)
(* queues: a guarded entry stays and the panic of get_block_cache is out   *)
(* of reach, readers see what was last written, and the caches implement   *)
(* BlockStore.                                                             *)
(***************************************************************************)
EXTENDS BlockCache, SequenceLemmas, FiniteSetTheorems, TLAPS

EntryOf(q, b) == q[Index(q, b)]

\* No block is in a queue twice: get_block_cache looks for it first.
Distinct(q) == \A i, j \in 1..Len(q) : q[i].id = q[j].id => i = j

Queue(q) == q \in Seq(Entry) /\ Len(q) <= BLOCK_CACHE_SIZE /\ Distinct(q)

\* What makes CachesSound inductive: with no block twice in the queue, a full
\* queue has an entry besides the one that is held.
CachesIInv ==
  /\ TypeOK /\ GuardedStays
  /\ Queue(info) /\ Queue(data)
  /\ pinned # None => use[pinned] = "dir" /\ Clearing = {}

\* A block that is used through the queue q and never through the queue other.
Latest(q, other, b) ==
  /\ last[b] # None /\ ~Cached(other, b)
  /\ last[b] = Lookup(q, b)
  /\ Cached(q, b) /\ ~EntryOf(q, b).modified => device[b] = EntryOf(q, b).val

\* alloc_cluster has cleared no more blocks so far than the data queue holds.
Fits == Cardinality(Clearing) <= BLOCK_CACHE_SIZE

\* The zeros of a cleared block are in the data queue, or on the disk with no
\* entry left to cover them.
Zeroed(b) ==
  \/ Cached(data, b) /\ EntryOf(data, b).val = 0 /\ EntryOf(data, b).modified
  \/ ~Cached(data, b) /\ ~Cached(info, b) /\ device[b] = 0

\* A freed block may be left in the queue of its last use.
Unused(b) == last[b] = None /\ ~(Cached(data, b) /\ Cached(info, b))

BlockInv(b) ==
  /\ ByInfo(b) => Latest(info, data, b)
  /\ b \in Data =>
       /\ use[b] = "file" => Latest(data, info, b)
       /\ use[b] = "free" => Unused(b)
       /\ use[b] = "cleared" => last[b] = None /\ (Fits => Zeroed(b))

\* The zeros of a block that the info queue holds as well were appended to the
\* data queue by clear_cluster, and only clear_cluster has appended since.
ZerosAtEnd ==
  \A i, j \in 1..Len(data) :
    data[i].id \in Clearing /\ Cached(info, data[i].id) /\ i < j
      => data[j].id \in Clearing

\* What makes ReadsLatest inductive.
StoreIInv ==
  /\ CachesIInv
  /\ \A b \in Block : BlockInv(b)
  /\ ZerosAtEnd
  /\ IsFiniteSet(Clearing)

-----------------------------------------------------------------------------
(* The operators of BlockCacheManager.                                     *)

\* CHOOSE in Index finds an entry of a cached block.
LEMMA IndexOf ==
  ASSUME NEW q, NEW b, Cached(q, b)
  PROVE  Index(q, b) \in 1..Len(q) /\ EntryOf(q, b).id = b
PROOF
  BY Zenon DEF Cached, Index, EntryOf

\* In a queue without duplicates it finds the only one.
LEMMA IndexUnique ==
  ASSUME NEW q, Distinct(q), NEW i \in 1..Len(q)
  PROVE  Cached(q, q[i].id) /\ Index(q, q[i].id) = i /\ EntryOf(q, q[i].id) = q[i]
PROOF
  <1>1. Cached(q, q[i].id)
    BY Zenon DEF Cached
  <1>2. /\ Index(q, q[i].id) \in 1..Len(q)
        /\ q[Index(q, q[i].id)].id = q[i].id
    BY <1>1, IndexOf, Zenon DEF EntryOf
  <1> QED BY <1>1, <1>2, Zenon DEF Distinct, EntryOf

\* The entry of a block in a queue is an Entry for that block.
LEMMA EntryOfType ==
  ASSUME NEW q \in Seq(Entry), NEW b, Cached(q, b)
  PROVE  /\ EntryOf(q, b) \in Entry /\ EntryOf(q, b).id = b
         /\ EntryOf(q, b).val \in Val /\ EntryOf(q, b).modified \in BOOLEAN
PROOF
  <1>1. Index(q, b) \in 1..Len(q) /\ EntryOf(q, b).id = b
    BY IndexOf, Zenon
  <1>2. EntryOf(q, b) \in Entry
    BY <1>1, SeqElement, Zenon DEF EntryOf
  <1> QED BY <1>1, <1>2, Zenon DEF Entry

\* Modify changes the entry of b and no other, and keeps the order.
LEMMA ModifyEffect ==
  ASSUME NEW q, Queue(q), NEW b \in Block, Cached(q, b), NEW v \in Val
  PROVE  /\ Queue(Modify(q, b, v)) /\ Len(Modify(q, b, v)) = Len(q)
         /\ \A i \in 1..Len(q) : Modify(q, b, v)[i].id = q[i].id
         /\ \A c : Cached(Modify(q, b, v), c) <=> Cached(q, c)
         /\ EntryOf(Modify(q, b, v), b) = [id |-> b, val |-> v, modified |-> TRUE]
         /\ \A c : Cached(q, c) /\ c # b => EntryOf(Modify(q, b, v), c) = EntryOf(q, c)
PROOF
  <1> DEFINE n == Index(q, b)
             m == Modify(q, b, v)
             e == [id |-> b, val |-> v, modified |-> TRUE]
  <1>1. n \in 1..Len(q) /\ q[n] \in Entry /\ q[n].id = b
    BY EntryOfType, IndexOf, Zenon DEF EntryOf, Queue
  <1>3. m = [q EXCEPT ![n] = e]
    BY Zenon DEF Modify
  <1>4. e \in Entry
    BY Zenon DEF Entry
  <1>5. /\ m \in Seq(Entry) /\ Len(m) = Len(q)
        /\ \A i \in 1..Len(q) : m[i] = IF i = n THEN e ELSE q[i]
    BY <1>1, <1>3, <1>4 DEF Queue
  <1> HIDE DEF m, n
  <1>6. \A i \in 1..Len(q) : m[i].id = q[i].id
    BY <1>1, <1>5
  <1>7. Distinct(m) /\ Queue(m)
    BY <1>5, <1>6, Zenon DEF Distinct, Queue
  <1>8. \A c : Cached(m, c) <=> Cached(q, c)
    BY <1>5, <1>6, Zenon DEF Cached
  <1>9. EntryOf(m, b) = e
    BY <1>1, <1>5, <1>6, <1>7, IndexUnique
  <1>10. ASSUME NEW c, Cached(q, c), c # b
         PROVE  EntryOf(m, c) = EntryOf(q, c)
    <2>1. Index(q, c) \in 1..Len(q) /\ q[Index(q, c)].id = c
      BY <1>10, IndexOf, Zenon DEF EntryOf
    <2>2. m[Index(q, c)] = q[Index(q, c)] /\ m[Index(q, c)].id = c
      BY <1>1, <1>5, <1>10, <2>1, Zenon
    <2> QED BY <1>5, <1>7, <2>1, <2>2, IndexUnique, ZenonT(30) DEF EntryOf
  <1> QED BY <1>5, <1>6, <1>7, <1>8, <1>9, <1>10, Zenon DEF m

\* With at most one entry held, a full queue has an entry to evict, its first
\* or its second: the panic of get_block_cache is out of reach.
LEMMA EvictedEntry ==
  ASSUME NEW q, Queue(q), NEW held, \A x, y \in held : x = y,
         NEW b, ~Cached(q, b), Full(q)
  PROVE  /\ ~RunsOut(q, held, b)
         /\ \E e \in 1..Len(q) : /\ Evicted(q, held, b) = {e}
                                 /\ q[e].id \notin held
                                 /\ held = {} => e = 1
PROOF
  <1>1. Len(q) \in Nat /\ Len(q) >= 2
    BY CacheAssumption DEF Full, Queue
  <1>2. q[1].id # q[2].id
    BY <1>1 DEF Queue, Distinct
  <1>3. CASE q[1].id \notin held
    <2>1. 1 \in Unheld(q, held) /\ \A j \in Unheld(q, held) : 1 <= j
      BY <1>1, <1>3 DEF Unheld
    <2>2. Evicted(q, held, b) = {1}
      BY <1>1, <2>1 DEF Evicted, Unheld
    <2> QED BY <1>1, <1>3, <2>1, <2>2 DEF RunsOut
  <1>4. CASE q[1].id \in held
    <2>1. q[2].id \notin held
      BY <1>2, <1>4, Zenon
    <2>2. 2 \in Unheld(q, held) /\ \A j \in Unheld(q, held) : 2 <= j
      BY <1>1, <1>4, <2>1 DEF Unheld
    <2>3. Evicted(q, held, b) = {2}
      BY <1>1, <2>2 DEF Evicted, Unheld
    <2> QED BY <1>1, <1>4, <2>1, <2>2, <2>3 DEF RunsOut
  <1> QED BY <1>3, <1>4, Zenon

\* Where get_block_cache puts and finds the entries of a queue without b: it
\* shifts those behind the evicted one, of index e, and appends a new one.  With
\* room in the queue e is the index after its last.
Shifted(q, held, b, e) ==
  LET g == Get(q, held, b)
      n == IF e <= Len(q) THEN Len(q) ELSE Len(q) + 1
  IN /\ e <= Len(q) => /\ Evicted(q, held, b) = {e} /\ Full(q)
                       /\ q[e].id \notin held /\ (held = {} => e = 1)
     /\ e = Len(q) + 1 => Evicted(q, held, b) = {} /\ ~Full(q)
     /\ g \in Seq(Entry) /\ Len(g) = n
     /\ \A i \in 1..(n - 1) : g[i] = IF i < e THEN q[i] ELSE q[i + 1]
     /\ g[n] = [id |-> b, val |-> device[b], modified |-> FALSE]

\* get_block_cache shifts the entries so.
LEMMA GetOrder ==
  ASSUME NEW q, Queue(q), NEW held, \A x, y \in held : x = y,
         NEW b \in Block, ~Cached(q, b), device \in [Block -> Val]
  PROVE  \E e \in 1..(Len(q) + 1) : Shifted(q, held, b, e)
PROOF
  <1> DEFINE new == [id |-> b, val |-> device[b], modified |-> FALSE]
             g == Get(q, held, b)
  <1>0. q \in Seq(Entry) /\ Len(q) \in Nat
    BY DEF Queue
  <1>1. new \in Entry
    BY Zenon DEF Entry
  <1>2. CASE Full(q)
    <2>1. PICK e \in 1..Len(q) : /\ Evicted(q, held, b) = {e}
                                 /\ q[e].id \notin held /\ (held = {} => e = 1)
      BY <1>2, EvictedEntry, Zenon
    <2>2. g = Append(RemoveAt(q, e), new)
      BY <2>1, Zenon DEF Get
    <2>3. /\ RemoveAt(q, e) \in Seq(Entry) /\ Len(RemoveAt(q, e)) = Len(q) - 1
          /\ \A j \in 1..(Len(q) - 1) :
               RemoveAt(q, e)[j] = IF j < e THEN q[j] ELSE q[j + 1]
      BY <1>0, RemoveAtProperties, Zenon
    <2> HIDE DEF g, new
    <2>4. /\ g \in Seq(Entry) /\ Len(g) = Len(q)
          /\ \A i \in 1..(Len(q) - 1) : g[i] = RemoveAt(q, e)[i]
          /\ g[Len(q)] = new
      BY <1>0, <1>1, <2>2, <2>3, SeqAppend
    <2>5. e \in 1..(Len(q) + 1) /\ e <= Len(q) /\ e # Len(q) + 1
      BY <1>0
    <2> QED BY <1>2, <2>1, <2>3, <2>4, <2>5, Zenon DEF g, new, Shifted
  <1>3. CASE ~Full(q)
    <2>1. Evicted(q, held, b) = {}
      BY <1>3, Zenon DEF Evicted
    <2>2. g = Append(q, new)
      BY <2>1, Zenon DEF Get
    <2> HIDE DEF g, new
    <2>3. /\ g \in Seq(Entry) /\ Len(g) = Len(q) + 1
          /\ \A i \in 1..Len(q) : g[i] = q[i]
          /\ g[Len(q) + 1] = new
      BY <1>0, <1>1, <2>2, SeqAppend
    <2>4. /\ Len(q) + 1 \in 1..(Len(q) + 1) /\ ~(Len(q) + 1 <= Len(q))
          /\ (Len(q) + 1) - 1 = Len(q) /\ \A i \in 1..Len(q) : i < Len(q) + 1
      BY <1>0
    <2> QED BY <1>3, <2>1, <2>3, <2>4, Zenon DEF g, new, Shifted
  <1> QED BY <1>2, <1>3, Zenon

\* What an access to b does to the entry of another block c, and to the disk.
Others(q, g, held, D, c) ==
  \/ Cached(q, c) /\ Cached(g, c) /\ EntryOf(g, c) = EntryOf(q, c) /\ D[c] = device[c]
  \/ /\ Cached(q, c) /\ ~Cached(g, c) /\ c \notin held
     /\ D[c] = IF EntryOf(q, c).modified THEN EntryOf(q, c).val ELSE device[c]
  \/ ~Cached(q, c) /\ ~Cached(g, c) /\ D[c] = device[c]

\* get_block_cache keeps a queue a queue, has b in it afterwards, and drops at
\* most one entry, which it writes to the disk.
LEMMA GetEffect ==
  ASSUME NEW q, Queue(q), NEW held, \A x, y \in held : x = y,
         NEW b \in Block, device \in [Block -> Val]
  PROVE  LET g == Get(q, held, b)
             D == Sync(q, Evicted(q, held, b))
         IN /\ ~RunsOut(q, held, b)
            /\ Queue(g) /\ Cached(g, b)
            /\ EntryOf(g, b) = IF Cached(q, b) THEN EntryOf(q, b)
                               ELSE [id |-> b, val |-> device[b], modified |-> FALSE]
            /\ D \in [Block -> Val] /\ D[b] = device[b]
            /\ \A c \in Block : c # b => Others(q, g, held, D, c)
PROOF
  <1> DEFINE new == [id |-> b, val |-> device[b], modified |-> FALSE]
             g == Get(q, held, b)
             E == Evicted(q, held, b)
             D == Sync(q, E)
  <1>0. q \in Seq(Entry) /\ Len(q) \in Nat /\ Distinct(q)
    BY DEF Queue
  <1>1. CASE Cached(q, b)
    <2>1. g = q /\ E = {} /\ ~RunsOut(q, held, b)
      BY <1>1, Zenon DEF Get, Evicted, RunsOut
    <2>2. D = [c \in Block |-> device[c]]
      BY <2>1, Zenon DEF Sync
    <2>3. \A c \in Block : Others(q, g, held, D, c)
      BY <2>1, <2>2, Zenon DEF Others
    <2> QED BY <1>1, <2>1, <2>2, <2>3, Zenon
  <1>2. CASE ~Cached(q, b)
    <2>1. PICK e \in 1..(Len(q) + 1) : Shifted(q, held, b, e)
      BY <1>2, GetOrder, Zenon
    <2> DEFINE n == IF e <= Len(q) THEN Len(q) ELSE Len(q) + 1
    <2>2. /\ n \in Nat /\ n >= 1 /\ e \in 1..n
          /\ (e = Len(q) + 1 => n = Len(q) + 1) /\ (e <= Len(q) => n = Len(q))
      BY <1>0, <2>1
    <2>3. /\ g \in Seq(Entry) /\ Len(g) = n /\ g[n] = new
          /\ \A i \in 1..(n - 1) : g[i] = IF i < e THEN q[i] ELSE q[i + 1]
          /\ e <= Len(q) => E = {e} /\ Full(q) /\ q[e].id \notin held
          /\ e = Len(q) + 1 => E = {} /\ ~Full(q)
      BY <2>1, Zenon DEF Shifted
    <2>4. ~RunsOut(q, held, b)
      BY <1>2, EvictedEntry, Zenon DEF RunsOut
    <2> HIDE DEF g, n, E, D
    <2>5. \A i \in 1..Len(q) : q[i].id # b
      BY <1>2, Zenon DEF Cached
    <2>6. \A i \in 1..(n - 1) : (IF i < e THEN i ELSE i + 1) \in 1..Len(q)
      BY <1>0, <2>2
    <2>7. Distinct(g)
      <3>1. SUFFICES ASSUME NEW i \in 1..n, NEW j \in 1..n, g[i].id = g[j].id, i # j
                     PROVE  FALSE
        BY <2>3, Zenon DEF Distinct
      <3>2. CASE i < n /\ j < n
        <4> DEFINE k == IF i < e THEN i ELSE i + 1
                   l == IF j < e THEN j ELSE j + 1
        <4>1. i \in 1..(n - 1) /\ j \in 1..(n - 1)
          BY <2>2, <3>2
        <4>2. k \in 1..Len(q) /\ l \in 1..Len(q) /\ g[i] = q[k] /\ g[j] = q[l]
          BY <2>3, <2>6, <4>1, Zenon
        <4>3. k # l
          BY <2>2, <3>1, <4>1
        <4> HIDE DEF k, l
        <4> QED BY <1>0, <3>1, <4>2, <4>3, Zenon DEF Distinct
      <3>3. CASE i = n \/ j = n
        <4>1. g[n].id = b
          BY <2>3
        <4>2. \A k \in 1..(n - 1) : g[k].id # b
          BY <2>3, <2>5, <2>6, Zenon
        <4>3. (i = n /\ j \in 1..(n - 1)) \/ (j = n /\ i \in 1..(n - 1))
          BY <2>2, <3>1, <3>3
        <4> QED BY <3>1, <4>1, <4>2, <4>3, Zenon
      <3> QED BY <2>2, <3>2, <3>3
    <2>8. Queue(g)
      <3>1. n <= BLOCK_CACHE_SIZE
        BY <1>0, <2>2, <2>3, CacheAssumption DEF Full, Queue
      <3> QED BY <2>3, <2>7, <3>1, Zenon DEF Queue
    <2>9. Cached(g, b) /\ EntryOf(g, b) = new
      BY <2>2, <2>3, <2>7, IndexUnique
    <2>10. ASSUME NEW c \in Block
           PROVE  D[c] = IF e <= Len(q) /\ q[e].id = c /\ q[e].modified
                         THEN q[e].val ELSE device[c]
      <3>1. CASE e <= Len(q)
        <4>1. E = {e} /\ e \in 1..Len(q)
          BY <1>0, <2>3, <3>1
        <4>2. Cached(q, q[e].id) /\ EntryOf(q, q[e].id) = q[e]
          BY <1>0, <4>1, IndexUnique, Zenon
        <4>3. Lookup(q, q[e].id) = q[e].val
          BY <4>2, Zenon DEF Lookup, EntryOf
        <4> QED BY <3>1, <4>1, <4>3, Zenon DEF D, Sync
      <3>2. CASE ~(e <= Len(q))
        <4>1. E = {}
          BY <1>0, <2>3, <3>2
        <4> QED BY <3>2, <4>1, Zenon DEF D, Sync
      <3> QED BY <3>1, <3>2, Zenon
    <2>11. D[b] = device[b]
      BY <1>0, <2>5, <2>10
    <2>12. D \in [Block -> Val]
      <3>1. ASSUME NEW c \in Block PROVE D[c] \in Val
        <4>1. e <= Len(q) => q[e] \in Entry
          BY <1>0, SeqElement
        <4> QED BY <2>10, <4>1, Zenon DEF Entry
      <3> QED BY <3>1, Zenon DEF D, Sync
    <2>13. ASSUME NEW c \in Block, c # b
           PROVE  Others(q, g, held, D, c)
      <3>1. CASE Cached(q, c)
        <4> DEFINE i == Index(q, c)
        <4>1. i \in 1..Len(q) /\ q[i].id = c /\ EntryOf(q, c) = q[i]
          BY <3>1, IndexOf, Zenon DEF EntryOf
        <4> HIDE DEF i
        <4>2. CASE i = e
          <5>1. ~Cached(g, c)
            <6>1. SUFFICES ASSUME NEW j \in 1..n, g[j].id = c PROVE FALSE
              BY <2>3, Zenon DEF Cached
            <6>2. j # n
              BY <2>3, <2>13, <6>1
            <6>3. g[j] = q[IF j < e THEN j ELSE j + 1]
              BY <2>2, <2>3, <6>2
            <6> QED BY <1>0, <2>2, <2>6, <4>1, <4>2, <6>1, <6>2, <6>3 DEF Distinct
          <5>2. e <= Len(q) /\ c \notin held
            BY <1>0, <2>3, <4>1, <4>2
          <5>3. D[c] = IF EntryOf(q, c).modified THEN EntryOf(q, c).val ELSE device[c]
            BY <2>10, <4>1, <4>2, <5>2, Zenon
          <5> QED BY <3>1, <5>1, <5>2, <5>3, Zenon DEF Others
        <4>3. CASE i # e
          <5> DEFINE j == IF i < e THEN i ELSE i - 1
          <5>1. j \in 1..(n - 1) /\ g[j] = q[i]
            <6>1. CASE i < e
              <7>1. i \in 1..(n - 1)
                BY <1>0, <2>2, <4>1, <6>1
              <7> QED BY <2>3, <6>1, <7>1, Zenon
            <6>2. CASE ~(i < e)
              <7>1. i - 1 \in 1..(n - 1) /\ ~(i - 1 < e) /\ (i - 1) + 1 = i
                BY <1>0, <2>2, <4>1, <4>3, <6>2
              <7> QED BY <2>3, <6>2, <7>1, Zenon
            <6> QED BY <6>1, <6>2, Zenon
          <5>2. Cached(g, c) /\ EntryOf(g, c) = EntryOf(q, c)
            BY <2>2, <2>3, <2>7, <4>1, <5>1, IndexUnique
          <5>3. ~(e <= Len(q) /\ q[e].id = c)
            BY <1>0, <4>1, <4>3 DEF Distinct
          <5> QED BY <2>10, <3>1, <5>2, <5>3, Zenon DEF Others
        <4> QED BY <4>2, <4>3, Zenon
      <3>2. CASE ~Cached(q, c)
        <4>1. ~Cached(g, c)
          BY <2>2, <2>3, <2>6, <2>13, <3>2 DEF Cached
        <4>2. ~(e <= Len(q) /\ q[e].id = c)
          BY <1>0, <3>2 DEF Cached
        <4> QED BY <2>10, <3>2, <4>1, <4>2, Zenon DEF Others
      <3> QED BY <3>1, <3>2, Zenon
    <2> QED BY <1>2, <2>4, <2>8, <2>9, <2>11, <2>12, <2>13, Zenon DEF g, D, E
  <1> QED BY <1>1, <1>2, Zenon

\* An access to b, reading it or writing v, leads from the queue q to the queue
\* g and to the disk D.
Accessed(q, g, held, D, b, v) ==
  /\ Queue(g) /\ D \in [Block -> Val]
  /\ Cached(g, b) /\ D[b] = device[b]
  /\ EntryOf(g, b).val = IF v = None THEN Lookup(q, b) ELSE v
  /\ EntryOf(g, b).modified
       <=> (v # None \/ (Cached(q, b) /\ EntryOf(q, b).modified))
  /\ \A c \in Block : c # b => Others(q, g, held, D, c)

\* Get and Store together are such an access.
LEMMA StoreEffect ==
  ASSUME NEW q, Queue(q), NEW held, \A x, y \in held : x = y,
         NEW b \in Block, NEW v \in Val \union {None}, device \in [Block -> Val]
  PROVE  /\ ~RunsOut(q, held, b)
         /\ Accessed(q, Store(Get(q, held, b), b, v), held,
                     Sync(q, Evicted(q, held, b)), b, v)
PROOF
  <1> DEFINE g == Get(q, held, b)
             D == Sync(q, Evicted(q, held, b))
             s == Store(g, b, v)
             new == [id |-> b, val |-> device[b], modified |-> FALSE]
  <1>1. /\ ~RunsOut(q, held, b)
        /\ Queue(g) /\ Cached(g, b)
        /\ EntryOf(g, b) = IF Cached(q, b) THEN EntryOf(q, b) ELSE new
        /\ D \in [Block -> Val] /\ D[b] = device[b]
        /\ \A c \in Block : c # b => Others(q, g, held, D, c)
    BY GetEffect, Zenon
  <1>2. Cached(q, b) => EntryOf(q, b).modified \in BOOLEAN
    BY EntryOfType, Zenon DEF Queue
  <1> HIDE DEF g, D
  <1>3. CASE v = None
    <2>1. s = g
      BY <1>3, Zenon DEF Store
    <2>2. /\ EntryOf(g, b).val = Lookup(q, b)
          /\ EntryOf(g, b).modified <=> (Cached(q, b) /\ EntryOf(q, b).modified)
      <3>1. CASE Cached(q, b)
        BY <1>1, <3>1, Zenon DEF Lookup, EntryOf
      <3>2. CASE ~Cached(q, b)
        <4>1. EntryOf(g, b) = new /\ Lookup(q, b) = device[b]
          BY <1>1, <3>2, Zenon DEF Lookup
        <4>2. EntryOf(g, b).val = device[b] /\ EntryOf(g, b).modified = FALSE
          BY <4>1
        <4> QED BY <3>2, <4>1, <4>2, Zenon
      <3> QED BY <3>1, <3>2, Zenon
    <2> QED BY <1>1, <1>3, <2>1, <2>2, Zenon DEF Accessed, D, g
  <1>4. CASE v # None
    <2>1. s = Modify(g, b, v) /\ v \in Val
      BY <1>4, Zenon DEF Store
    <2> HIDE DEF s
    <2>2. /\ Queue(s) /\ \A c : Cached(s, c) <=> Cached(g, c)
          /\ EntryOf(s, b) = [id |-> b, val |-> v, modified |-> TRUE]
          /\ \A c : Cached(g, c) /\ c # b => EntryOf(s, c) = EntryOf(g, c)
      BY <1>1, <2>1, ModifyEffect
    <2>3. ASSUME NEW c \in Block, c # b
          PROVE  Others(q, s, held, D, c)
      <3>1. Others(q, g, held, D, c)
        BY <1>1, <2>3, Zenon
      <3> QED BY <2>2, <2>3, <3>1, Zenon DEF Others
    <2>4. EntryOf(s, b).val = v /\ EntryOf(s, b).modified = TRUE
      BY <2>2
    <2>5. Cached(s, b)
      BY <1>1, <2>2, Zenon
    <2>6. Accessed(q, s, held, D, b, v)
      BY <1>1, <1>4, <2>2, <2>3, <2>4, <2>5, Zenon DEF Accessed
    <2> QED BY <1>1, <2>6, Zenon DEF D, g, s
  <1> QED BY <1>3, <1>4, Zenon

-----------------------------------------------------------------------------
(* A guarded entry stays, and the queues never run out.                    *)

\* The two managers from a state of the invariant.
LEMMA InfoAccessed ==
  ASSUME CachesIInv, NEW b \in Block, NEW v \in Val \union {None}, get_info_cache(b, v)
  PROVE  /\ ~RunsOut(info, {pinned}, b)
         /\ Accessed(info, info', {pinned}, device', b, v)
         /\ UNCHANGED <<data, halted>>
PROOF
  <1>1. Queue(info) /\ device \in [Block -> Val]
    BY Zenon DEF CachesIInv, TypeOK
  <1>2. \A x, y \in {pinned} : x = y
    BY Zenon
  <1>3. /\ ~RunsOut(info, {pinned}, b)
        /\ Accessed(info, Store(Get(info, {pinned}, b), b, v), {pinned},
                    Sync(info, Evicted(info, {pinned}, b)), b, v)
    BY <1>1, <1>2, StoreEffect, Zenon
  <1> QED BY <1>3, Zenon DEF get_info_cache

\* The same for the data cache, whose entries nobody holds between calls.
LEMMA DataAccessed ==
  ASSUME CachesIInv, NEW b \in Block, NEW v \in Val \union {None}, get_block_cache(b, v)
  PROVE  /\ ~RunsOut(data, {}, b)
         /\ Accessed(data, data', {}, device', b, v)
         /\ UNCHANGED <<info, halted>>
PROOF
  <1>1. Queue(data) /\ device \in [Block -> Val]
    BY Zenon DEF CachesIInv, TypeOK
  <1>3. /\ ~RunsOut(data, {}, b)
        /\ Accessed(data, Store(Get(data, {}, b), b, v), {},
                    Sync(data, Evicted(data, {}, b)), b, v)
    BY <1>1, StoreEffect, Zenon
  <1> QED BY <1>3, Zenon DEF get_block_cache

\* An access to the info cache keeps the entry that is held.
LEMMA HeldStays ==
  ASSUME NEW q, NEW g, NEW D, NEW b \in Block, NEW v, NEW p \in Block,
         Cached(q, p), Accessed(q, g, {p}, D, b, v)
  PROVE  Cached(g, p)
PROOF
  BY Zenon DEF Accessed, Others

\* An access to the info cache with the same pinned block keeps the invariant.
LEMMA InfoKeepsCaches ==
  ASSUME CachesIInv, NEW b \in Block, NEW v \in Val \union {None}, get_info_cache(b, v)
  PROVE  /\ device' \in [Block -> Val] /\ Queue(info') /\ Queue(data') /\ Cached(info', b)
         /\ UNCHANGED halted /\ (pinned # None => Cached(info', pinned))
PROOF
  <1>1. /\ Accessed(info, info', {pinned}, device', b, v)
        /\ UNCHANGED <<data, halted>>
    BY InfoAccessed, Zenon
  <1>2. pinned # None => Cached(info', pinned)
    <2>1. SUFFICES ASSUME pinned # None PROVE Cached(info', pinned)
      BY Zenon
    <2>2. pinned \in Block /\ Cached(info, pinned)
      BY <2>1, Zenon DEF CachesIInv, TypeOK, GuardedStays, Block
    <2> QED BY <1>1, <2>2, HeldStays, Zenon
  <1> QED BY <1>1, <1>2, Zenon DEF Accessed, CachesIInv, GuardedStays

\* The invariant holds initially.
LEMMA CachesInit ==
  ASSUME Init
  PROVE  CachesIInv
PROOF
  <1>1. TypeOK
    <2>1. device \in [Block -> Val] /\ last \in [Block -> Val \union {None}]
      BY CacheAssumption, Zenon DEF Init
    <2>2. <<>> \in Seq(Entry) /\ Len(<<>>) <= BLOCK_CACHE_SIZE
      BY CacheAssumption
    <2>3. use \in [Data -> {"free", "cleared", "file", "dir"}]
      BY Zenon DEF Init
    <2> QED BY <2>1, <2>2, <2>3, Zenon DEF Init, TypeOK
  <1>2. Queue(<<>>)
    BY CacheAssumption DEF Queue, Distinct
  <1> QED BY <1>1, <1>2, Zenon DEF Init, CachesIInv, GuardedStays

\* The value that a writer leaves keeps the type of last.
LEMMA WrittenType ==
  ASSUME TypeOK, NEW b \in Block, NEW v \in Val \union {None}, Written(b, v)
  PROVE  last' \in [Block -> Val \union {None}]
PROOF
  BY Zenon DEF Written, TypeOK

\* Every step keeps the invariant.
LEMMA CachesStep ==
  ASSUME CachesIInv, [Next]_vars
  PROVE  CachesIInv'
PROOF
  <1> USE DEF TypeOK
  <1>0. Queue(<<>>)
    BY CacheAssumption DEF Queue, Distinct
  <1>1. TypeOK /\ GuardedStays /\ Queue(info) /\ Queue(data)
    BY Zenon DEF CachesIInv
  <1>2. ASSUME NEW b \in Block, NEW v \in Val \union {None}, InfoAccess(b, v)
        PROVE  CachesIInv'
    <2>1. /\ device' \in [Block -> Val] /\ Queue(info') /\ Queue(data')
          /\ UNCHANGED halted /\ (pinned # None => Cached(info', pinned))
      BY <1>2, InfoKeepsCaches, Zenon DEF InfoAccess
    <2>2. last' \in [Block -> Val \union {None}] /\ UNCHANGED <<pinned, use>>
      BY <1>1, <1>2, WrittenType, Zenon DEF InfoAccess
    <2>3. TypeOK'
      BY <1>1, <2>1, <2>2, Zenon DEF Queue, GuardedStays
    <2>4. GuardedStays'
      BY <1>1, <2>1, <2>2, Zenon DEF GuardedStays, Cached
    <2> QED BY <2>1, <2>2, <2>3, <2>4, Zenon DEF CachesIInv, Queue, Distinct, Clearing
  <1>3. ASSUME NEW b \in Data, NEW v \in Val \union {None}, FileAccess(b, v)
        PROVE  CachesIInv'
    <2>1. b \in Block
      BY Zenon DEF Block
    <2>2. /\ Accessed(data, data', {}, device', b, v)
          /\ UNCHANGED <<info, halted>>
      BY <1>3, <2>1, DataAccessed, Zenon DEF FileAccess
    <2>3. last' \in [Block -> Val \union {None}] /\ UNCHANGED <<pinned, use>>
      BY <1>1, <1>3, <2>1, WrittenType, Zenon DEF FileAccess
    <2>4. device' \in [Block -> Val] /\ Queue(info') /\ Queue(data')
      BY <1>1, <2>2, Zenon DEF Accessed
    <2> QED BY <1>1, <2>2, <2>3, <2>4, Zenon DEF CachesIInv, GuardedStays, Queue, Clearing
  <1>4. ASSUME NEW b \in Data, Pin(b)
        PROVE  CachesIInv'
    <2>1. b \in Block /\ pinned = None
      BY <1>4, Zenon DEF Block, Pin
    <2>2. Lookup(info, b) \in Val
      <3>1. Cached(info, b) => EntryOf(info, b).val \in Val
        BY <1>1, EntryOfType, Zenon
      <3> QED BY <1>1, <2>1, <3>1, Zenon DEF Lookup, EntryOf
    <2>3. PICK v \in Val \union {None} : get_info_cache(b, v)
      BY <1>4, <2>2, Zenon DEF Pin
    <2>4. /\ device' \in [Block -> Val] /\ Queue(info') /\ Queue(data')
          /\ Cached(info', b) /\ UNCHANGED halted
      BY <2>1, <2>3, InfoKeepsCaches, Zenon
    <2>5. ~RunsOut(info, {pinned}, b)
      BY <2>1, <2>3, InfoAccessed, Zenon
    <2>6. pinned' = b /\ Clearing = {} /\ use[b] = "dir" /\ UNCHANGED <<use, last>>
      BY <1>4, <2>5, Zenon DEF Pin
    <2>7. TypeOK'
      BY <1>1, <2>4, <2>6, Zenon DEF Queue, GuardedStays
    <2>8. GuardedStays'
      BY <1>1, <2>4, <2>6, Zenon DEF GuardedStays, Cached
    <2> QED BY <2>4, <2>6, <2>7, <2>8, Zenon DEF CachesIInv, Queue, Distinct, Clearing
  <1>5. ASSUME NEW b \in Data, clear_cluster(b)
        PROVE  CachesIInv'
    <2>1. b \in Block /\ 0 \in Val
      BY CacheAssumption, Zenon DEF Block
    <2>2. /\ Accessed(data, data', {}, device', b, 0) /\ ~RunsOut(data, {}, b)
          /\ UNCHANGED <<info, halted>>
      BY <1>5, <2>1, DataAccessed, Zenon DEF clear_cluster
    <2>3. /\ use' = [use EXCEPT ![b] = "cleared"] /\ pinned = None
          /\ UNCHANGED <<pinned, last>>
      BY <1>5, <2>2, Zenon DEF clear_cluster
    <2>4. device' \in [Block -> Val] /\ Queue(info') /\ Queue(data')
      BY <1>1, <2>2, Zenon DEF Accessed
    <2> QED BY <1>1, <2>2, <2>3, <2>4, Zenon DEF CachesIInv, GuardedStays, Queue
  <1>6. ASSUME NEW b \in Data, dealloc_cluster(b)
        PROVE  CachesIInv'
    BY <1>1, <1>6, Zenon DEF dealloc_cluster, CachesIInv, GuardedStays
  <1>7. CASE Unpin
    BY <1>1, <1>7, Zenon DEF Unpin, CachesIInv, GuardedStays
  <1>8. ASSUME NEW kind \in {"file", "dir"}, cache_write_back(kind)
        PROVE  CachesIInv'
    <2>1. \A b \in Block : Lookup(info, b) \in Val /\ Lookup(data, b) \in Val
      <3>1. SUFFICES ASSUME NEW b \in Block
                     PROVE  Lookup(info, b) \in Val /\ Lookup(data, b) \in Val
        BY Zenon
      <3>2. /\ Cached(info, b) => EntryOf(info, b).val \in Val
            /\ Cached(data, b) => EntryOf(data, b).val \in Val
        BY <1>1, EntryOfType, Zenon
      <3> QED BY <1>1, <3>2, Zenon DEF Lookup, EntryOf
    <2>2. Sync(info, 1..Len(info)) \in [Block -> Val]
      BY <1>1, <2>1, Zenon DEF Sync
    <2>3. device' \in [Block -> Val] /\ info' = <<>> /\ data' = <<>>
      BY <1>8, <2>1, <2>2, Zenon DEF cache_write_back, write_to_dev, WrittenBack
    <2>4. use' \in [Data -> {"free", "cleared", "file", "dir"}]
      BY <1>1, <1>8, Zenon DEF cache_write_back
    <2>5. last' \in [Block -> Val \union {None}]
      <3>1. last' = [b \in Block |-> IF b \in Clearing THEN device'[b] ELSE last[b]]
        BY <1>8, Zenon DEF cache_write_back
      <3>2. last \in [Block -> Val \union {None}]
        BY <1>1, Zenon
      <3> QED BY <2>3, <3>1, <3>2, Zenon
    <2>6. pinned' = None /\ UNCHANGED halted
      BY <1>8, Zenon DEF cache_write_back
    <2> QED BY <1>0, <1>1, <2>3, <2>4, <2>5, <2>6, Zenon DEF CachesIInv, GuardedStays, Queue
  <1>9. CASE UNCHANGED vars
    BY <1>1, <1>9, Zenon DEF vars, CachesIInv, GuardedStays, Queue, Distinct, Cached, Clearing
  <1> QED BY <1>2, <1>3, <1>4, <1>5, <1>6, <1>7, <1>8, <1>9, Zenon DEF Next

\* The queues stay within their size and hold each block once, the entry that
\* read_short_dirent or modify_short_dirent works on is not evicted while its
\* guard lives, and get_block_cache never panics with "Run out of BlockCache!".
THEOREM GuardedEntriesStay == Spec => []CachesSound
PROOF
  <1>1. Init => CachesIInv
    BY CachesInit, Zenon
  <1>2. CachesIInv /\ [Next]_vars => CachesIInv'
    BY CachesStep, Zenon
  <1>3. CachesIInv => CachesSound
    BY Zenon DEF CachesIInv, CachesSound
  <1> QED BY <1>1, <1>2, <1>3, PTL DEF Spec

-----------------------------------------------------------------------------
(* Readers see what was last written.                                      *)

\* An access through the info cache keeps the invariant of the other blocks.
LEMMA InfoOthers ==
  ASSUME NEW b \in Block, NEW v, NEW held, Accessed(info, info', held, device', b, v),
         data' = data, use' = use,
         NEW c \in Block, c # b, last'[c] = last[c], BlockInv(c)
  PROVE  BlockInv(c)'
PROOF
  <1>1. Others(info, info', held, device', c)
    BY Zenon DEF Accessed
  <1>2. /\ Lookup(info, c) = IF Cached(info, c) THEN EntryOf(info, c).val ELSE device[c]
        /\ Lookup(info, c)' = IF Cached(info', c) THEN EntryOf(info', c).val ELSE device'[c]
        /\ Lookup(data, c) = IF Cached(data, c) THEN EntryOf(data, c).val ELSE device[c]
        /\ Lookup(data, c)' = IF Cached(data', c) THEN EntryOf(data', c).val ELSE device'[c]
    BY Zenon DEF Lookup, EntryOf
  <1>3. ByInfo(c) <=> ByInfo(c)'
    BY Zenon DEF ByInfo
  <1>4. CASE ByInfo(c)
    <2>1. Latest(info, data, c)
      BY <1>4, Zenon DEF BlockInv
    <2>2. Latest(info, data, c)'
      BY <1>1, <1>2, <2>1, Zenon DEF Latest, Others
    <2> QED BY <1>3, <1>4, <2>2, CacheAssumption, Zenon DEF BlockInv, ByInfo
  <1>5. CASE c \in Data /\ use[c] = "file"
    <2>1. Latest(data, info, c)
      BY <1>5, Zenon DEF BlockInv
    <2>2. Latest(data, info, c)'
      BY <1>1, <1>2, <2>1, Zenon DEF Latest, Others
    <2> QED BY <1>5, <2>2, CacheAssumption, Zenon DEF BlockInv, ByInfo
  <1>6. CASE c \in Data /\ use[c] = "free"
    <2>1. Unused(c)'
      BY <1>1, <1>6, Zenon DEF BlockInv, Unused, Others
    <2> QED BY <1>6, <2>1, CacheAssumption, Zenon DEF BlockInv, ByInfo
  <1>7. CASE c \in Data /\ use[c] = "cleared"
    <2>1. last[c] = None /\ (Fits => Zeroed(c))
      BY <1>7, Zenon DEF BlockInv
    <2>2. Zeroed(c) => Zeroed(c)'
      BY <1>1, Zenon DEF Zeroed, Others
    <2>3. Fits' => Fits
      BY Zenon DEF Fits, Clearing
    <2> QED BY <1>7, <2>1, <2>2, <2>3, CacheAssumption, Zenon DEF BlockInv, ByInfo
  <1> QED BY <1>3, <1>4, <1>5, <1>6, <1>7, Zenon DEF BlockInv

\* So does one through the data cache, if it evicts no zeros that cover an
\* entry of the info cache.
LEMMA DataOthers ==
  ASSUME NEW b \in Block, NEW v, NEW held, Accessed(data, data', held, device', b, v),
         info' = info,
         NEW c \in Block, c # b, last'[c] = last[c], BlockInv(c),
         c \in Data => use'[c] = use[c],
         Fits' => Fits /\ (c \in Clearing /\ Cached(info, c) => Cached(data', c))
  PROVE  BlockInv(c)'
PROOF
  <1>1. Others(data, data', held, device', c)
    BY Zenon DEF Accessed
  <1>2. /\ Lookup(info, c) = IF Cached(info, c) THEN EntryOf(info, c).val ELSE device[c]
        /\ Lookup(info, c)' = IF Cached(info', c) THEN EntryOf(info', c).val ELSE device'[c]
        /\ Lookup(data, c) = IF Cached(data, c) THEN EntryOf(data, c).val ELSE device[c]
        /\ Lookup(data, c)' = IF Cached(data', c) THEN EntryOf(data', c).val ELSE device'[c]
    BY Zenon DEF Lookup, EntryOf
  <1>3. ByInfo(c) <=> ByInfo(c)'
    BY Zenon DEF ByInfo
  <1>4. CASE ByInfo(c)
    <2>1. Latest(info, data, c)
      BY <1>4, Zenon DEF BlockInv
    <2>2. Latest(info, data, c)'
      BY <1>1, <1>2, <2>1, Zenon DEF Latest, Others
    <2> QED BY <1>3, <1>4, <2>2, CacheAssumption, Zenon DEF BlockInv, ByInfo
  <1>5. CASE c \in Data /\ use[c] = "file"
    <2>1. Latest(data, info, c)
      BY <1>5, Zenon DEF BlockInv
    <2>2. Latest(data, info, c)'
      BY <1>1, <1>2, <2>1, Zenon DEF Latest, Others
    <2> QED BY <1>5, <2>2, CacheAssumption, Zenon DEF BlockInv, ByInfo
  <1>6. CASE c \in Data /\ use[c] = "free"
    <2>1. Unused(c)'
      BY <1>1, <1>6, Zenon DEF BlockInv, Unused, Others
    <2> QED BY <1>6, <2>1, CacheAssumption, Zenon DEF BlockInv, ByInfo
  <1>7. CASE c \in Data /\ use[c] = "cleared"
    <2>1. last[c] = None /\ (Fits => Zeroed(c)) /\ c \in Clearing
      BY <1>7, Zenon DEF BlockInv, Clearing
    <2>2. Fits' => Zeroed(c)'
      BY <1>1, <2>1, Zenon DEF Zeroed, Others
    <2> QED BY <1>7, <2>1, <2>2, CacheAssumption, Zenon DEF BlockInv, ByInfo
  <1> QED BY <1>3, <1>4, <1>5, <1>6, <1>7, Zenon DEF BlockInv

\* The block that is accessed through the info cache holds what was written.
LEMMA InfoUsed ==
  ASSUME NEW b \in Block, NEW v \in Val \union {None}, NEW held,
         Accessed(info, info', held, device', b, v), data' = data,
         Latest(info, data, b), last'[b] = IF v = None THEN last[b] ELSE v
  PROVE  Latest(info, data, b)'
PROOF
  <1>1. /\ Lookup(info, b) = IF Cached(info, b) THEN EntryOf(info, b).val ELSE device[b]
        /\ Lookup(info, b)' = IF Cached(info', b) THEN EntryOf(info', b).val ELSE device'[b]
    BY Zenon DEF Lookup, EntryOf
  <1>2. last'[b] # None /\ last'[b] = EntryOf(info', b).val
    BY CacheAssumption, Zenon DEF Latest, Accessed
  <1>3. ~EntryOf(info', b).modified => device'[b] = EntryOf(info', b).val
    BY <1>1, Zenon DEF Latest, Accessed
  <1> QED BY <1>1, <1>2, <1>3, Zenon DEF Latest, Accessed

\* So does a block that is accessed through the data cache.
LEMMA DataUsed ==
  ASSUME NEW b \in Block, NEW v \in Val \union {None}, NEW held,
         Accessed(data, data', held, device', b, v), info' = info,
         Latest(data, info, b), last'[b] = IF v = None THEN last[b] ELSE v
  PROVE  Latest(data, info, b)'
PROOF
  <1>1. /\ Lookup(data, b) = IF Cached(data, b) THEN EntryOf(data, b).val ELSE device[b]
        /\ Lookup(data, b)' = IF Cached(data', b) THEN EntryOf(data', b).val ELSE device'[b]
    BY Zenon DEF Lookup, EntryOf
  <1>2. last'[b] # None /\ last'[b] = EntryOf(data', b).val
    BY CacheAssumption, Zenon DEF Latest, Accessed
  <1>3. ~EntryOf(data', b).modified => device'[b] = EntryOf(data', b).val
    BY <1>1, Zenon DEF Latest, Accessed
  <1> QED BY <1>1, <1>2, <1>3, Zenon DEF Latest, Accessed

\* get_info_cache on a block in use, with the blocks in use unchanged.
LEMMA InfoKeepsStore ==
  ASSUME StoreIInv, NEW b \in Block, NEW v \in Val \union {None}, ByInfo(b),
         get_info_cache(b, v), use' = use,
         last' = IF v = None THEN last ELSE [last EXCEPT ![b] = v]
  PROVE  (\A c \in Block : BlockInv(c)') /\ ZerosAtEnd' /\ IsFiniteSet(Clearing)'
PROOF
  <1>1. Accessed(info, info', {pinned}, device', b, v) /\ data' = data
    BY InfoAccessed, Zenon DEF StoreIInv
  <1>2. last \in [Block -> Val \union {None}]
    BY Zenon DEF StoreIInv, CachesIInv, TypeOK
  <1>3. BlockInv(b)'
    <2>1. Latest(info, data, b)
      BY Zenon DEF StoreIInv, BlockInv
    <2>2. last'[b] = IF v = None THEN last[b] ELSE v
      BY <1>2, Zenon
    <2>3. Latest(info, data, b)'
      BY <1>1, <2>1, <2>2, InfoUsed, Zenon
    <2> QED BY <2>3, CacheAssumption, Zenon DEF BlockInv, ByInfo
  <1>4. ASSUME NEW c \in Block, c # b
        PROVE  BlockInv(c)'
    <2>1. last'[c] = last[c]
      BY <1>2, <1>4, Zenon
    <2>2. BlockInv(c)
      BY Zenon DEF StoreIInv
    <2> QED BY <1>1, <1>4, <2>1, <2>2, InfoOthers, Zenon
  <1>5. Clearing' = Clearing /\ b \notin Clearing
    BY CacheAssumption, Zenon DEF Clearing, ByInfo
  <1>6. ZerosAtEnd'
    <2>1. SUFFICES ASSUME NEW i \in 1..Len(data), NEW j \in 1..Len(data),
                          data[i].id \in Clearing, Cached(info', data[i].id), i < j
                   PROVE  data[j].id \in Clearing
      BY <1>1, <1>5, Zenon DEF ZerosAtEnd
    <2>2. data[i].id \in Block /\ data[i].id # b
      BY <1>5, <2>1, Zenon DEF Clearing, Block
    <2>3. Cached(info, data[i].id)
      BY <1>1, <2>1, <2>2, Zenon DEF Accessed, Others
    <2> QED BY <2>1, <2>3, Zenon DEF StoreIInv, ZerosAtEnd
  <1> QED BY <1>3, <1>4, <1>5, <1>6, Zenon DEF StoreIInv

\* The zeros that cover an entry of the info cache are not what clear_cluster
\* evicts: it would evict the first entry of a full queue, and all others would
\* be blocks of the same alloc_cluster, which then has cleared too many.
LEMMA ZerosStay ==
  ASSUME StoreIInv, Cardinality(Clearing) < BLOCK_CACHE_SIZE, Full(data),
         data[1].id \in Clearing, Cached(info, data[1].id)
  PROVE  FALSE
PROOF
  <1> DEFINE f == [i \in 1..BLOCK_CACHE_SIZE |-> data[i].id]
  <1>1. Len(data) = BLOCK_CACHE_SIZE /\ BLOCK_CACHE_SIZE \in Nat /\ BLOCK_CACHE_SIZE >= 2
    BY CacheAssumption DEF Full
  <1>2. \A i \in 1..BLOCK_CACHE_SIZE : data[i].id \in Clearing
    BY <1>1 DEF StoreIInv, ZerosAtEnd
  <1>3. Distinct(data)
    BY Zenon DEF StoreIInv, CachesIInv, Queue
  <1>4. f \in Injection(1..BLOCK_CACHE_SIZE, Clearing)
    <2>1. f \in [1..BLOCK_CACHE_SIZE -> Clearing]
      BY <1>2, Zenon
    <2>2. \A i, j \in 1..BLOCK_CACHE_SIZE : f[i] = f[j] => i = j
      BY <1>1, <1>3, Zenon DEF Distinct
    <2> QED BY <2>1, <2>2, Zenon DEF Injection, IsInjective
  <1>5. IsFiniteSet(Clearing)
    BY Zenon DEF StoreIInv
  <1> HIDE DEF f
  <1>6. Cardinality(1..BLOCK_CACHE_SIZE) <= Cardinality(Clearing)
    BY <1>4, <1>5, FS_Injection, Zenon
  <1>7. Cardinality(1..BLOCK_CACHE_SIZE) = BLOCK_CACHE_SIZE
    BY <1>1, FS_Interval
  <1>8. Cardinality(Clearing) \in Nat
    BY <1>5, FS_CardinalityType, Zenon
  <1> QED BY <1>1, <1>6, <1>7, <1>8

\* How clear_cluster arranges the data queue: the queue keeps its order, or the
\* block is appended to it behind a first entry that may be gone.
LEMMA ClearOrder ==
  ASSUME StoreIInv, NEW b \in Data, clear_cluster(b)
  PROVE  \/ /\ Cached(data, b) /\ Len(data') = Len(data)
            /\ \A i \in 1..Len(data) : data'[i].id = data[i].id
         \/ /\ ~Cached(data, b)
            /\ \E k \in {0, 1} :
                 /\ k = 1 => Full(data)
                 /\ Len(data') = Len(data) + 1 - k
                 /\ \A i \in 1..(Len(data) - k) : data'[i].id = data[i + k].id
                 /\ data'[Len(data')].id = b
PROOF
  <1>0. /\ CachesIInv /\ Queue(data) /\ Len(data) \in Nat
        /\ device \in [Block -> Val] /\ b \in Block /\ 0 \in Val /\ 0 # None
    BY CacheAssumption DEF StoreIInv, CachesIInv, Queue, TypeOK, Block
  <1>1. ~RunsOut(data, {}, b)
    BY <1>0, DataAccessed, Zenon DEF clear_cluster
  <1>2. data' = Modify(Get(data, {}, b), b, 0)
    BY <1>0, <1>1, Zenon DEF clear_cluster, get_block_cache, Store
  <1>3. Queue(Get(data, {}, b)) /\ Cached(Get(data, {}, b), b)
    BY <1>0, GetEffect, Zenon
  <1>4. /\ Len(data') = Len(Get(data, {}, b))
        /\ \A i \in 1..Len(data') : data'[i].id = Get(data, {}, b)[i].id
    BY <1>0, <1>2, <1>3, ModifyEffect, Zenon
  <1>5. CASE Cached(data, b)
    BY <1>4, <1>5, Zenon DEF Get
  <1>6. CASE ~Cached(data, b)
    <2>1. PICK e \in 1..(Len(data) + 1) : Shifted(data, {}, b, e)
      BY <1>0, <1>6, GetOrder, Zenon
    <2>2. CASE e <= Len(data)
      <3>1. /\ e = 1 /\ Full(data) /\ Len(Get(data, {}, b)) = Len(data)
            /\ \A i \in 1..(Len(data) - 1) :
                 Get(data, {}, b)[i] = IF i < e THEN data[i] ELSE data[i + 1]
            /\ Get(data, {}, b)[Len(data)].id = b
        BY <2>1, <2>2 DEF Shifted
      <3>2. \A i \in 1..(Len(data) - 1) : data'[i].id = data[i + 1].id
        BY <1>0, <1>4, <3>1
      <3>3. data'[Len(data')].id = b
        BY <1>0, <1>4, <2>2, <3>1
      <3>4. Len(data') = Len(data) + 1 - 1
        BY <1>0, <1>4, <3>1
      <3> QED BY <1>6, <3>1, <3>2, <3>3, <3>4, Zenon
    <2>3. CASE ~(e <= Len(data))
      <3>1. /\ e = Len(data) + 1 /\ Len(Get(data, {}, b)) = Len(data) + 1
            /\ \A i \in 1..((Len(data) + 1) - 1) :
                 Get(data, {}, b)[i] = IF i < e THEN data[i] ELSE data[i + 1]
            /\ Get(data, {}, b)[Len(data) + 1].id = b
        BY <1>0, <2>1, <2>3 DEF Shifted
      <3>2. \A i \in 1..(Len(data) - 0) : data'[i].id = data[i + 0].id
        BY <1>0, <1>4, <3>1
      <3>3. data'[Len(data')].id = b
        BY <1>0, <1>4, <3>1, Zenon
      <3>4. Len(data') = Len(data) + 1 - 0
        BY <1>0, <1>4, <3>1
      <3> QED BY <1>6, <3>2, <3>3, <3>4
    <2> QED BY <2>2, <2>3, Zenon
  <1> QED BY <1>5, <1>6, Zenon

\* clear_cluster keeps the invariant.
LEMMA ClearKeepsStore ==
  ASSUME StoreIInv, NEW b \in Data, clear_cluster(b)
  PROVE  (\A c \in Block : BlockInv(c)') /\ ZerosAtEnd' /\ IsFiniteSet(Clearing)'
PROOF
  <1>0. /\ CachesIInv /\ b \in Block /\ 0 \in Val /\ 0 # None /\ Len(data) \in Nat
        /\ use \in [Data -> {"free", "cleared", "file", "dir"}]
    BY CacheAssumption DEF StoreIInv, CachesIInv, Queue, TypeOK, Block
  <1>1. /\ Accessed(data, data', {}, device', b, 0) /\ ~RunsOut(data, {}, b)
        /\ info' = info
    BY <1>0, DataAccessed, Zenon DEF clear_cluster
  <1>2. /\ use' = [use EXCEPT ![b] = "cleared"] /\ last' = last
        /\ use[b] = "free"
    BY <1>1, Zenon DEF clear_cluster
  <1>3. Clearing' = Clearing \union {b} /\ b \notin Clearing
    BY <1>0, <1>2, Zenon DEF Clearing
  <1>4. /\ IsFiniteSet(Clearing) /\ IsFiniteSet(Clearing)'
        /\ Cardinality(Clearing') = Cardinality(Clearing) + 1
    BY <1>3, FS_AddElement, Zenon DEF StoreIInv
  <1>9. Fits' => Fits /\ Cardinality(Clearing) < BLOCK_CACHE_SIZE
    <2>1. Cardinality(Clearing) \in Nat /\ BLOCK_CACHE_SIZE \in Nat
      BY <1>4, FS_CardinalityType, CacheAssumption, Zenon
    <2> QED BY <1>4, <2>1 DEF Fits
  <1>5. Unused(b)
    BY <1>0, <1>2, Zenon DEF StoreIInv, BlockInv
  <1>6. BlockInv(b)'
    <2>1. Zeroed(b)' /\ last'[b] = None
      BY <1>0, <1>1, <1>2, <1>5, Zenon DEF Zeroed, Unused, Accessed
    <2> QED BY <1>0, <1>2, <2>1, CacheAssumption, Zenon DEF BlockInv, ByInfo
  <1>7. CASE /\ Cached(data, b) /\ Len(data') = Len(data)
             /\ \A i \in 1..Len(data) : data'[i].id = data[i].id
    <2>1. ~Cached(info, b)
      BY <1>5, <1>7, Zenon DEF Unused
    <2>2. ZerosAtEnd'
      BY <1>1, <1>3, <1>7, <2>1, Zenon DEF StoreIInv, ZerosAtEnd
    <2>3. ASSUME NEW c \in Block, c # b
          PROVE  BlockInv(c)'
      <3>1. Cached(data, c) => Cached(data', c)
        BY <1>7, Zenon DEF Cached
      <3>3. BlockInv(c)
        BY Zenon DEF StoreIInv
      <3>2. Fits' => Fits /\ (c \in Clearing /\ Cached(info, c) => Cached(data', c))
        BY <1>9, <3>1, <3>3, Zenon DEF BlockInv, Zeroed, Clearing
      <3> QED BY <1>0, <1>1, <1>2, <2>3, <3>2, <3>3, DataOthers, Zenon
    <2> QED BY <1>4, <1>6, <2>2, <2>3, Zenon
  <1>8. CASE ~Cached(data, b)
    <2>1. PICK k \in {0, 1} :
             /\ k = 1 => Full(data)
             /\ Len(data') = Len(data) + 1 - k
             /\ \A i \in 1..(Len(data) - k) : data'[i].id = data[i + k].id
             /\ data'[Len(data')].id = b
      BY <1>8, ClearOrder, Zenon
    <2>2. ZerosAtEnd'
      <3>1. SUFFICES ASSUME NEW i \in 1..Len(data'), NEW j \in 1..Len(data'),
                            data'[i].id \in Clearing \union {b},
                            Cached(info, data'[i].id), i < j
                     PROVE  data'[j].id \in Clearing \union {b}
        BY <1>1, <1>3, Zenon DEF ZerosAtEnd
      <3>2. CASE j = Len(data')
        BY <2>1, <3>2, Zenon
      <3>3. CASE j # Len(data')
        <4>1. /\ i + k \in 1..Len(data) /\ j + k \in 1..Len(data) /\ i + k < j + k
              /\ i \in 1..(Len(data) - k) /\ j \in 1..(Len(data) - k)
          BY <1>0, <2>1, <3>1, <3>3
        <4>2. data'[i].id = data[i + k].id /\ data'[j].id = data[j + k].id
          BY <2>1, <4>1, Zenon
        <4>3. data'[i].id # b
          BY <1>8, <4>1, <4>2, Zenon DEF Cached
        <4> QED BY <3>1, <4>1, <4>2, <4>3, Zenon DEF StoreIInv, ZerosAtEnd
      <3> QED BY <3>2, <3>3, Zenon
    <2>3. ASSUME NEW c \in Block, c # b
          PROVE  BlockInv(c)'
      <3>1. BlockInv(c)
        BY Zenon DEF StoreIInv
      <3>2. ASSUME Fits', c \in Clearing, Cached(info, c), ~Cached(data', c)
            PROVE  FALSE
        <4>1. Cached(data, c)
          BY <1>9, <3>1, <3>2, Zenon DEF BlockInv, Zeroed, Clearing
        <4>2. PICK i \in 1..Len(data) : data[i].id = c
          BY <4>1, Zenon DEF Cached
        <4>3. ~(i - k \in 1..(Len(data) - k))
          <5>1. SUFFICES ASSUME i - k \in 1..(Len(data) - k) PROVE FALSE
            BY Zenon
          <5>2. data'[i - k].id = c /\ i - k \in 1..Len(data')
            BY <1>0, <2>1, <4>2, <5>1
          <5> QED BY <3>2, <5>2, Zenon DEF Cached
        <4>4. k = 1 /\ i = 1
          BY <1>0, <4>3
        <4> QED BY <1>9, <2>1, <3>2, <4>2, <4>4, ZerosStay, Zenon
      <3> QED BY <1>0, <1>1, <1>2, <1>9, <2>3, <3>1, <3>2, DataOthers, Zenon
    <2> QED BY <1>4, <1>6, <2>2, <2>3, Zenon
  <1> QED BY <1>7, <1>8, ClearOrder, Zenon

\* What write_to_dev leaves on the disk: the entry of the data cache if it is
\* modified, else the modified entry of the info cache.
Dirty(q, b) == Cached(q, b) /\ EntryOf(q, b).modified

\* write_to_dev writes exactly the modified entries.
LEMMA WriteBackEffect ==
  ASSUME CachesIInv, write_to_dev, NEW b \in Block
  PROVE  device'[b] = IF Dirty(data, b) THEN EntryOf(data, b).val
                      ELSE IF Dirty(info, b) THEN EntryOf(info, b).val ELSE device[b]
PROOF
  <1>1. Distinct(info) /\ Distinct(data)
    BY Zenon DEF CachesIInv, Queue
  <1>2. ASSUME NEW q, Distinct(q)
        PROVE  (\E i \in 1..Len(q) : q[i].id = b /\ q[i].modified) <=> Dirty(q, b)
    <2>1. Cached(q, b) => Index(q, b) \in 1..Len(q) /\ q[Index(q, b)].id = b
      BY IndexOf, Zenon DEF EntryOf
    <2>2. \A i \in 1..Len(q) : q[i].id = b => Cached(q, b) /\ EntryOf(q, b) = q[i]
      BY <1>2, IndexUnique, Zenon
    <2> QED BY <2>1, <2>2, Zenon DEF Dirty, EntryOf
  <1>3. \A q : Dirty(q, b) => Lookup(q, b) = EntryOf(q, b).val
    BY Zenon DEF Dirty, Lookup, EntryOf
  <1>4. Sync(info, 1..Len(info))[b]
          = IF Dirty(info, b) THEN EntryOf(info, b).val ELSE device[b]
    BY <1>1, <1>2, <1>3, Zenon DEF Sync
  <1>5. device'[b] = IF \E i \in 1..Len(data) : data[i].id = b /\ data[i].modified
                     THEN Lookup(data, b) ELSE Sync(info, 1..Len(info))[b]
    BY Zenon DEF write_to_dev, WrittenBack
  <1> QED BY <1>1, <1>2, <1>3, <1>4, <1>5, Zenon

\* cache_write_back brings every block in use to the disk.
LEMMA WriteBackKeepsStore ==
  ASSUME StoreIInv, NEW kind \in {"file", "dir"}, cache_write_back(kind)
  PROVE  /\ \A b \in Block : BlockInv(b)'
         /\ ZerosAtEnd' /\ IsFiniteSet(Clearing)'
         /\ Fits => \A b \in Clearing : device'[b] = 0
PROOF
  <1>0. /\ CachesIInv /\ use \in [Data -> {"free", "cleared", "file", "dir"}]
        /\ write_to_dev /\ info' = <<>> /\ data' = <<>>
    BY Zenon DEF StoreIInv, CachesIInv, TypeOK, cache_write_back, write_to_dev
  <1>1. /\ use' = [b \in Data |-> IF use[b] = "cleared" THEN kind ELSE use[b]]
        /\ last' = [b \in Block |-> IF b \in Clearing THEN device'[b] ELSE last[b]]
    BY Zenon DEF cache_write_back
  <1>2. Clearing' = {}
    BY <1>0, <1>1, Zenon DEF Clearing
  <1>3. \A b : ~Cached(info', b) /\ ~Cached(data', b)
    BY <1>0 DEF Cached
  <1>4. ASSUME NEW b \in Block
        PROVE  BlockInv(b)' /\ (Fits /\ b \in Clearing => device'[b] = 0)
    <2>1. device'[b] = IF Dirty(data, b) THEN EntryOf(data, b).val
                       ELSE IF Dirty(info, b) THEN EntryOf(info, b).val ELSE device[b]
      BY <1>0, WriteBackEffect, Zenon
    <2>2. BlockInv(b)
      BY Zenon DEF StoreIInv
    <2>3. /\ Lookup(info, b) = IF Cached(info, b) THEN EntryOf(info, b).val ELSE device[b]
          /\ Lookup(data, b) = IF Cached(data, b) THEN EntryOf(data, b).val ELSE device[b]
          /\ Lookup(info, b)' = device'[b] /\ Lookup(data, b)' = device'[b]
      BY <1>3, Zenon DEF Lookup, EntryOf
    <2>4. CASE b \in Clearing
      <3>1. (Fits => Zeroed(b)) /\ b \in Data /\ use[b] = "cleared"
        BY <2>2, <2>4, Zenon DEF BlockInv, Clearing
      <3>2. Fits => device'[b] = 0
        BY <2>1, <3>1, Zenon DEF Zeroed, Dirty
      <3>3. device'[b] \in Val
        <4>1. device[b] \in Val /\ info \in Seq(Entry) /\ data \in Seq(Entry)
          BY <1>0, Zenon DEF CachesIInv, TypeOK, Queue
        <4>2. \A q \in Seq(Entry) : Dirty(q, b) => EntryOf(q, b).val \in Val
          BY EntryOfType, Zenon DEF Dirty
        <4> QED BY <2>1, <4>1, <4>2, Zenon
      <3>4. last'[b] = device'[b] /\ last'[b] # None
        BY <1>1, <2>4, <3>3, CacheAssumption, Zenon
      <3>5. Latest(info, data, b)' /\ Latest(data, info, b)'
        BY <1>3, <2>3, <3>4, Zenon DEF Latest
      <3> QED BY <1>1, <3>1, <3>2, <3>5, CacheAssumption, Zenon DEF BlockInv, ByInfo
    <2>5. CASE b \notin Clearing
      <3>1. /\ last'[b] = last[b] /\ (b \in Data => use'[b] = use[b] /\ use[b] # "cleared")
            /\ ByInfo(b) <=> ByInfo(b)'
        BY <1>0, <1>1, <2>5, Zenon DEF Clearing, ByInfo
      <3>2. CASE ByInfo(b)
        <4>1. Latest(info, data, b)
          BY <2>2, <3>2, Zenon DEF BlockInv
        <4>2. Latest(info, data, b)'
          BY <1>3, <2>1, <2>3, <3>1, <4>1, Zenon DEF Latest, Dirty
        <4> QED BY <2>5, <3>1, <3>2, <4>2, CacheAssumption, Zenon DEF BlockInv, ByInfo
      <3>3. CASE b \in Data /\ use[b] = "file"
        <4>1. Latest(data, info, b)
          BY <2>2, <3>3, Zenon DEF BlockInv
        <4>2. Latest(data, info, b)'
          BY <1>3, <2>1, <2>3, <3>1, <4>1, Zenon DEF Latest, Dirty
        <4> QED BY <2>5, <3>1, <3>3, <4>2, CacheAssumption, Zenon DEF BlockInv, ByInfo
      <3>4. CASE ~ByInfo(b) /\ ~(b \in Data /\ use[b] = "file")
        <4>1. b \in Data /\ use[b] = "free"
          BY <1>0, <2>5, <3>4, Zenon DEF ByInfo, Clearing, Block
        <4>2. Unused(b)'
          BY <1>3, <2>2, <3>1, <4>1, Zenon DEF BlockInv, Unused
        <4> QED BY <2>5, <3>1, <4>1, <4>2, CacheAssumption, Zenon DEF BlockInv, ByInfo
      <3> QED BY <3>2, <3>3, <3>4, Zenon
    <2> QED BY <2>4, <2>5, Zenon
  <1>5. ZerosAtEnd'
    BY <1>2, Zenon DEF ZerosAtEnd
  <1>6. IsFiniteSet(Clearing)'
    BY <1>2, FS_EmptySet, Zenon
  <1> QED BY <1>4, <1>5, <1>6, Zenon DEF Clearing, Block

\* The invariant holds initially: nothing is cached and the disk holds zeros.
LEMMA StoreInvInit ==
  ASSUME Init
  PROVE  StoreIInv
PROOF
  <1>1. \A b : ~Cached(info, b) /\ ~Cached(data, b)
    BY DEF Init, Cached
  <1>2. Clearing = {} /\ IsFiniteSet(Clearing)
    BY FS_EmptySet, Zenon DEF Init, Clearing
  <1>3. ASSUME NEW b \in Block
        PROVE  BlockInv(b)
    <2>1. Lookup(info, b) = 0 /\ Lookup(data, b) = 0
      BY <1>1, Zenon DEF Init, Lookup
    <2>2. last[b] = IF b \in Data /\ use[b] = "free" THEN None ELSE 0
      BY Zenon DEF Init
    <2>3. b \in Data => use[b] \in {"free", "file", "dir"}
      BY Zenon DEF Init
    <2> QED BY <1>1, <2>1, <2>2, <2>3, CacheAssumption, Zenon
            DEF BlockInv, ByInfo, Latest, Unused
  <1>4. ZerosAtEnd
    BY <1>2, Zenon DEF ZerosAtEnd
  <1> QED BY <1>2, <1>3, <1>4, CachesInit, Zenon DEF StoreIInv

\* Every step keeps the invariant.
LEMMA StoreInvStep ==
  ASSUME StoreIInv, [Next]_vars
  PROVE  StoreIInv'
PROOF
  <1>0. CachesIInv' /\ TypeOK /\ CachesIInv
    BY CachesStep, Zenon DEF StoreIInv, CachesIInv
  <1> SUFFICES (\A c \in Block : BlockInv(c)') /\ ZerosAtEnd' /\ IsFiniteSet(Clearing)'
    BY <1>0, Zenon DEF StoreIInv
  <1>1. ASSUME NEW b \in Block, NEW v \in Val \union {None}, InfoAccess(b, v)
        PROVE  (\A c \in Block : BlockInv(c)') /\ ZerosAtEnd' /\ IsFiniteSet(Clearing)'
    BY <1>1, InfoKeepsStore, Zenon DEF InfoAccess, Written
  <1>2. ASSUME NEW b \in Data, NEW v \in Val \union {None}, FileAccess(b, v)
        PROVE  (\A c \in Block : BlockInv(c)') /\ ZerosAtEnd' /\ IsFiniteSet(Clearing)'
    <2>1. /\ b \in Block /\ Clearing = {} /\ use[b] = "file" /\ use' = use
          /\ last \in [Block -> Val \union {None}]
      BY <1>0, <1>2, Zenon DEF FileAccess, Block, TypeOK
    <2>2. Accessed(data, data', {}, device', b, v) /\ info' = info
      BY <1>0, <1>2, <2>1, DataAccessed, Zenon DEF FileAccess
    <2>3. last' = IF v = None THEN last ELSE [last EXCEPT ![b] = v]
      BY <1>2, Zenon DEF FileAccess, Written
    <2>4. ASSUME NEW c \in Block
          PROVE  BlockInv(c)'
      <3>1. BlockInv(c)
        BY Zenon DEF StoreIInv
      <3>2. CASE c = b
        <4>1. last'[b] = IF v = None THEN last[b] ELSE v
          BY <2>1, <2>3, Zenon
        <4>2. Latest(data, info, b)
          BY <2>1, <3>1, <3>2, Zenon DEF BlockInv
        <4>3. Latest(data, info, b)'
          BY <2>1, <2>2, <4>1, <4>2, DataUsed, Zenon
        <4> QED BY <2>1, <3>2, <4>3, CacheAssumption, Zenon DEF BlockInv, ByInfo
      <3>3. CASE c # b
        <4>1. last'[c] = last[c] /\ c \notin Clearing
          BY <2>1, <2>3, <3>3, Zenon
        <4>2. Clearing' = Clearing
          BY <2>1, Zenon DEF Clearing
        <4> QED BY <2>1, <2>2, <3>1, <3>3, <4>1, <4>2, DataOthers, Zenon DEF Fits
      <3> QED BY <3>2, <3>3, Zenon
    <2>5. Clearing' = {}
      BY <2>1, Zenon DEF Clearing
    <2>6. ZerosAtEnd'
      BY <2>5, Zenon DEF ZerosAtEnd
    <2> QED BY <2>4, <2>5, <2>6, FS_EmptySet, Zenon
  <1>3. ASSUME NEW b \in Data, Pin(b)
        PROVE  (\A c \in Block : BlockInv(c)') /\ ZerosAtEnd' /\ IsFiniteSet(Clearing)'
    <2>1. /\ b \in Block /\ ByInfo(b) /\ use' = use /\ last' = last
          /\ last \in [Block -> Val \union {None}]
      BY <1>0, <1>3, Zenon DEF Pin, ByInfo, Block, TypeOK
    <2>2. last[b] = Lookup(info, b) /\ last[b] # None
      BY <2>1, Zenon DEF StoreIInv, BlockInv, Latest
    <2>3. PICK v \in Val \union {None} : get_info_cache(b, v) /\ v \in {None, last[b]}
      BY <1>3, <2>1, <2>2, Zenon DEF Pin
    <2>4. last' = IF v = None THEN last ELSE [last EXCEPT ![b] = v]
      BY <2>1, <2>3, Zenon
    <2> QED BY <2>1, <2>3, <2>4, InfoKeepsStore, Zenon
  <1>4. ASSUME NEW b \in Data, clear_cluster(b)
        PROVE  (\A c \in Block : BlockInv(c)') /\ ZerosAtEnd' /\ IsFiniteSet(Clearing)'
    BY <1>4, ClearKeepsStore, Zenon
  <1>5. ASSUME NEW b \in Data, dealloc_cluster(b)
        PROVE  (\A c \in Block : BlockInv(c)') /\ ZerosAtEnd' /\ IsFiniteSet(Clearing)'
    <2>1. /\ b \in Block /\ Clearing = {} /\ use[b] \in {"file", "dir"}
          /\ use' = [use EXCEPT ![b] = "free"] /\ last' = [last EXCEPT ![b] = None]
          /\ UNCHANGED <<device, info, data>>
          /\ last \in [Block -> Val \union {None}]
          /\ use \in [Data -> {"free", "cleared", "file", "dir"}]
      BY <1>0, <1>5, Zenon DEF dealloc_cluster, Block, TypeOK
    <2>2. ASSUME NEW c \in Block
          PROVE  BlockInv(c)'
      <3>1. BlockInv(c)
        BY Zenon DEF StoreIInv
      <3>2. CASE c = b
        <4>1. Unused(b)'
          BY <2>1, <3>1, <3>2, Zenon DEF BlockInv, ByInfo, Latest, Unused
        <4> QED BY <2>1, <3>2, <4>1, CacheAssumption, Zenon DEF BlockInv, ByInfo
      <3>3. CASE c # b
        <4>1. last'[c] = last[c] /\ (c \in Data => use'[c] = use[c])
          BY <2>1, <3>3, Zenon
        <4>2. Lookup(info, c)' = Lookup(info, c) /\ Lookup(data, c)' = Lookup(data, c)
          BY <2>1, Zenon DEF Lookup
        <4>3. c \in Data => use[c] # "cleared"
          BY <2>1, Zenon DEF Clearing
        <4> QED BY <2>1, <3>1, <4>1, <4>2, <4>3, Zenon DEF BlockInv, ByInfo, Latest, Unused
      <3> QED BY <3>2, <3>3, Zenon
    <2>3. Clearing' = {}
      BY <2>1, Zenon DEF Clearing
    <2>4. ZerosAtEnd'
      BY <2>3, Zenon DEF ZerosAtEnd
    <2> QED BY <2>2, <2>3, <2>4, FS_EmptySet, Zenon
  <1>6. CASE UNCHANGED <<device, info, data, use, last>>
    <2>1. \A c \in Block : BlockInv(c)'
      BY <1>6, Zenon DEF StoreIInv, BlockInv, ByInfo, Latest, Unused, Zeroed, Lookup, Fits, Clearing
    <2>2. Clearing' = Clearing
      BY <1>6, Zenon DEF Clearing
    <2>3. ZerosAtEnd'
      BY <1>6, <2>2, Zenon DEF StoreIInv, ZerosAtEnd
    <2> QED BY <2>1, <2>2, <2>3, Zenon DEF StoreIInv
  <1>7. ASSUME NEW kind \in {"file", "dir"}, cache_write_back(kind)
        PROVE  (\A c \in Block : BlockInv(c)') /\ ZerosAtEnd' /\ IsFiniteSet(Clearing)'
    BY <1>7, WriteBackKeepsStore, Zenon
  <1> QED BY <1>1, <1>2, <1>3, <1>4, <1>5, <1>6, <1>7, Zenon DEF Next, Unpin, vars

\* Whoever uses a block reads what was last written to it, whatever the queues
\* have evicted and whichever cache the block was used through before.
THEOREM ReadersSeeLatest == Spec => []ReadsLatest
PROOF
  <1>1. Init => StoreIInv
    BY StoreInvInit, Zenon
  <1>2. StoreIInv /\ [Next]_vars => StoreIInv'
    BY StoreInvStep, Zenon
  <1>3. StoreIInv => ReadsLatest
    <2>1. SUFFICES ASSUME StoreIInv, NEW b \in Block, last[b] # None
                   PROVE  last[b] = Lookup(IF ByInfo(b) THEN info ELSE data, b)
      BY Zenon DEF ReadsLatest
    <2>2. BlockInv(b) /\ use \in [Data -> {"free", "cleared", "file", "dir"}]
      BY <2>1, Zenon DEF StoreIInv, CachesIInv, TypeOK
    <2>3. CASE ByInfo(b)
      BY <2>2, <2>3, Zenon DEF BlockInv, Latest
    <2>4. CASE ~ByInfo(b)
      <3>1. b \in Data /\ use[b] = "file"
        BY <2>1, <2>2, <2>4, Zenon DEF BlockInv, ByInfo, Unused, Block
      <3> QED BY <2>2, <2>4, <3>1, Zenon DEF BlockInv, Latest
    <2> QED BY <2>3, <2>4, Zenon
  <1> QED BY <1>1, <1>2, <1>3, PTL DEF Spec

-----------------------------------------------------------------------------
(* The caches implement BlockStore.                                        *)

\* An access only brings the disk forward, to what a block in use holds.
LEMMA AccessSaves ==
  ASSUME StoreIInv, NEW b \in Block, NEW v, NEW held, NEW q \in {info, data},
         NEW g, Accessed(q, g, held, device', b, v)
  PROVE  StoreModule!Save
PROOF
  <1>1. SUFFICES ASSUME NEW c \in Block, last[c] # None
                 PROVE  device'[c] \in {device[c], last[c]}
    BY Zenon DEF StoreModule!Save
  <1>2. BlockInv(c) /\ use \in [Data -> {"free", "cleared", "file", "dir"}]
    BY Zenon DEF StoreIInv, CachesIInv, TypeOK
  <1>3. Latest(info, data, c) \/ Latest(data, info, c)
    BY <1>1, <1>2, Zenon DEF BlockInv, ByInfo, Unused, Block
  <1>4. \/ device'[c] = device[c]
        \/ Cached(q, c) /\ device'[c] = EntryOf(q, c).val
    BY Zenon DEF Accessed, Others
  <1>5. Cached(q, c) => EntryOf(q, c).val = last[c]
    BY <1>3, Zenon DEF Latest, Lookup, EntryOf
  <1> QED BY <1>4, <1>5, Zenon

\* A block in use holds a value, and only such a block is written.
LEMMA WrittenPut ==
  ASSUME StoreIInv, NEW b \in Block, NEW v \in Val \union {None}, Written(b, v),
         last[b] # None
  PROVE  (\E c \in Block, w \in Val : StoreModule!Put(c, w)) \/ last' = last
PROOF
  BY Zenon DEF Written, StoreModule!Put

\* Every step of the caches is a step of BlockStore or leaves it unchanged.
LEMMA StoreRefines ==
  ASSUME StoreIInv, [Next]_vars
  PROVE  [StoreModule!StoreNext]_(StoreModule!vars)
PROOF
  <1>0. CachesIInv /\ TypeOK /\ last \in [Block -> Val \union {None}]
    BY Zenon DEF StoreIInv, CachesIInv, TypeOK
  <1>1. ASSUME NEW b \in Block, NEW v \in Val \union {None}, InfoAccess(b, v)
        PROVE  StoreModule!StoreNext
    <2>1. Accessed(info, info', {pinned}, device', b, v)
      BY <1>0, <1>1, InfoAccessed, Zenon DEF InfoAccess
    <2>2. StoreModule!Save
      BY <2>1, AccessSaves, Zenon
    <2>3. last[b] # None
      BY <1>1, Zenon DEF InfoAccess, StoreIInv, BlockInv, Latest
    <2> QED BY <1>1, <2>2, <2>3, WrittenPut, Zenon DEF InfoAccess, StoreModule!StoreNext
  <1>2. ASSUME NEW b \in Data, NEW v \in Val \union {None}, FileAccess(b, v)
        PROVE  StoreModule!StoreNext
    <2>0. b \in Block
      BY Zenon DEF Block
    <2>1. Accessed(data, data', {}, device', b, v)
      BY <1>0, <1>2, <2>0, DataAccessed, Zenon DEF FileAccess
    <2>2. StoreModule!Save
      BY <2>0, <2>1, AccessSaves, Zenon
    <2>3. last[b] # None
      BY <1>2, <2>0, Zenon DEF FileAccess, StoreIInv, BlockInv, Latest
    <2> QED BY <1>2, <2>0, <2>2, <2>3, WrittenPut, Zenon DEF FileAccess, StoreModule!StoreNext
  <1>3. ASSUME NEW b \in Data, Pin(b)
        PROVE  StoreModule!StoreNext
    <2>0. b \in Block /\ ByInfo(b) /\ last' = last
      BY <1>3, Zenon DEF Block, Pin, ByInfo
    <2>1. last[b] = Lookup(info, b)
      BY <2>0, Zenon DEF StoreIInv, BlockInv, Latest
    <2>2. PICK v \in Val \union {None} : get_info_cache(b, v)
      BY <1>0, <1>3, <2>0, <2>1, Zenon DEF Pin
    <2>3. StoreModule!Save
      BY <1>0, <2>0, <2>2, InfoAccessed, AccessSaves, Zenon
    <2> QED BY <2>0, <2>3, Zenon DEF StoreModule!StoreNext
  <1>4. ASSUME NEW b \in Data, clear_cluster(b)
        PROVE  StoreModule!StoreNext
    <2>0. b \in Block /\ 0 \in Val
      BY CacheAssumption, Zenon DEF Block
    <2>1. Accessed(data, data', {}, device', b, 0)
      BY <1>0, <1>4, <2>0, DataAccessed, Zenon DEF clear_cluster
    <2>2. StoreModule!Save
      BY <2>0, <2>1, AccessSaves, Zenon
    <2> QED BY <1>4, <2>2, Zenon DEF clear_cluster, StoreModule!StoreNext
  <1>5. ASSUME NEW b \in Data, dealloc_cluster(b)
        PROVE  StoreModule!StoreNext
    <2>1. StoreModule!Save
      BY <1>5, Zenon DEF dealloc_cluster, StoreModule!Save
    <2>2. b \in Block /\ last[b] # None
      BY <1>5, Zenon DEF dealloc_cluster, Block, StoreIInv, BlockInv, ByInfo, Latest
    <2>3. StoreModule!Free(b)
      BY <1>5, <2>2, Zenon DEF dealloc_cluster, StoreModule!Free
    <2> QED BY <2>1, <2>2, <2>3, Zenon DEF StoreModule!StoreNext
  <1>6. ASSUME NEW kind \in {"file", "dir"}, cache_write_back(kind)
        PROVE  StoreModule!StoreNext
    <2>1. StoreModule!Save
      <3>1. SUFFICES ASSUME NEW c \in Block, last[c] # None
                     PROVE  device'[c] \in {device[c], last[c]}
        BY Zenon DEF StoreModule!Save
      <3>2. device'[c] = IF Dirty(data, c) THEN EntryOf(data, c).val
                         ELSE IF Dirty(info, c) THEN EntryOf(info, c).val ELSE device[c]
        BY <1>0, <1>6, WriteBackEffect, Zenon DEF cache_write_back
      <3>3. BlockInv(c) /\ use \in [Data -> {"free", "cleared", "file", "dir"}]
        BY <1>0, Zenon DEF StoreIInv, TypeOK
      <3>4. Latest(info, data, c) \/ Latest(data, info, c)
        BY <3>1, <3>3, Zenon DEF BlockInv, ByInfo, Unused, Block
      <3> QED BY <3>2, <3>4, Zenon DEF Latest, Lookup, EntryOf, Dirty
    <2>2. \A b \in Clearing : last[b] = None /\ b \in Block
      BY <1>6, Zenon DEF StoreIInv, BlockInv, Clearing, Block
    <2>3. last' = [b \in Block |-> IF b \in Clearing THEN device'[b] ELSE last[b]]
      BY <1>6, Zenon DEF cache_write_back
    <2>4. Clearing \in Fitting => \A b \in Clearing : device'[b] = 0
      BY <1>6, WriteBackKeepsStore, Zenon DEF Fits, Fitting
    <2>5. StoreModule!Allocate(Clearing) /\ Clearing \in SUBSET Block
      BY <2>2, <2>3, <2>4, Zenon DEF StoreModule!Allocate
    <2> QED BY <2>1, <2>5, Zenon DEF StoreModule!StoreNext
  <1>7. CASE Unpin \/ UNCHANGED vars
    BY <1>7, Zenon DEF Unpin, vars, StoreModule!vars
  <1> QED BY <1>1, <1>2, <1>3, <1>4, <1>5, <1>6, <1>7, Zenon DEF Next

\* What a power loss leaves: the disk behind the two caches is that of
\* BlockStore, which hands out zeros as long as an allocation is no larger than
\* the data queue.
THEOREM CachesImplementStore == Spec => StoreSpec
PROOF
  <1>1. Init => StoreIInv
    BY StoreInvInit, Zenon
  <1>2. StoreIInv /\ [Next]_vars => StoreIInv'
    BY StoreInvStep, Zenon
  <1>3. StoreIInv /\ [Next]_vars => [StoreModule!StoreNext]_(StoreModule!vars)
    BY StoreRefines, Zenon
  <1>4. StoreIInv => StoreModule!StoreInit
    BY Zenon DEF StoreIInv, CachesIInv, TypeOK, StoreModule!StoreInit
  <1> QED BY <1>1, <1>2, <1>3, <1>4, PTL DEF Spec, StoreSpec, StoreModule!StoreSpec
=============================================================================
