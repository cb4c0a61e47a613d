------------------------------ MODULE FdProofs ------------------------------
(***************************************************************************)
(* The descriptor tables, for any number of tasks, files and places: they  *)
(* implement maps that give out the lowest free number.                    *)
(***************************************************************************)
EXTENDS FdTable, FiniteSetTheorems, TLAPS

Place == (1..MaxFiles) \union {Std, None}

\* A table that a call may leave when n files have been opened.
Table(t, n) == /\ t \in Seq(Place) /\ Len(t) <= MaxFds
               /\ \A i \in 1..Len(t) : t[i] \in 1..MaxFiles => t[i] <= n

\* The invariant of the tables: their files have been opened, and a task that
\* has exited has no descriptors.
FdInv ==
  /\ files \in 0..MaxFiles /\ live \subseteq Task
  /\ DOMAIN fd_table = Task /\ fd_table = [p \in Task |-> fd_table[p]]
  /\ \A p \in Task : Table(fd_table[p], files)
  /\ \A p \in Task \ live : fd_table[p] = <<>>

-----------------------------------------------------------------------------
(* Least elements *)

\* A set of numbers that is not empty has a least element.
LEMMA Least == ASSUME NEW T, T \subseteq Nat, T # {} PROVE \E x \in T : \A y \in T : x <= y
<1>1. PICK x \in T : \A y \in T : ~(<<y, x>> \in OpToRel(<, Nat))
  BY NatLessThanWellFounded, WFMin, Zenon
<1>2. ASSUME NEW y \in T PROVE x <= y
  <2>1. ~(y < x)
    BY <1>1, Zenon DEF OpToRel
  <2> QED BY <2>1
<1> QED BY <1>2, Zenon

\* First finds it.
LEMMA FirstIs ==
  ASSUME NEW S, S \subseteq Nat, NEW m \in S, \A y \in S : m <= y
  PROVE  First(S) = m
<1>1. \A x \in S : (\A y \in S : x <= y) => x = m
  OBVIOUS
<1> QED BY <1>1, Zenon DEF First

-----------------------------------------------------------------------------
(* Tables and maps *)

\* alloc_fd finds the first hole, or the place after the last.
LEMMA AllocFd ==
  ASSUME NEW t \in Seq(Place)
  PROVE  /\ alloc_fd(t) \in 1..(Len(t) + 1)
         /\ \A i \in 1..Len(t) : i < alloc_fd(t) => t[i] # None
         /\ alloc_fd(t) <= Len(t) => t[alloc_fd(t)] = None
<1>0. Len(t) \in Nat /\ Holes(t) \subseteq Nat
  BY DEF Holes
<1>1. CASE Holes(t) = {}
  BY <1>0, <1>1 DEF alloc_fd, Holes
<1>2. CASE Holes(t) # {}
  <2>1. PICK m \in Holes(t) : \A y \in Holes(t) : m <= y
    BY <1>0, <1>2, Least, Zenon
  <2>2. alloc_fd(t) = m
    BY <1>0, <1>2, <2>1, FirstIs, Zenon DEF alloc_fd
  <2> QED BY <1>0, <2>1, <2>2 DEF Holes
<1> QED BY <1>1, <1>2, Zenon

\* u is t with f in place a, filled up with holes as far as that.
Puts(t, u, a, f) ==
  /\ u \in Seq(Place) /\ a \in 1..Len(u) /\ Len(t) <= Len(u)
  /\ u[a] = f
  /\ \A i \in 1..Len(u) : i # a => u[i] = IF i <= Len(t) THEN t[i] ELSE None

\* Filled puts the file in the place that alloc_fd finds.
LEMMA FilledPuts ==
  ASSUME NEW t \in Seq(Place), NEW f \in Place
  PROVE  Puts(t, Filled(t, f), alloc_fd(t), f) /\ Len(Filled(t, f)) <= Len(t) + 1
<1> DEFINE a == alloc_fd(t)
<1>1. a \in 1..(Len(t) + 1) /\ Len(t) \in Nat
  BY AllocFd
<1> HIDE DEF a
<1>2. CASE a > Len(t)
  <2>1. Filled(t, f) = Append(t, f) /\ a = Len(t) + 1
    BY <1>1, <1>2 DEF Filled, a
  <2> QED BY <1>1, <2>1 DEF Puts, a
<1>3. CASE ~(a > Len(t))
  <2>1. Filled(t, f) = [t EXCEPT ![a] = f] /\ a \in 1..Len(t)
    BY <1>1, <1>3 DEF Filled, a
  <2> QED BY <1>1, <2>1 DEF Puts, a
<1> QED BY <1>2, <1>3, Zenon

\* What is put in a place of the table is assigned in the map.
LEMMA PutsAssigns ==
  ASSUME NEW t \in Seq(Place), NEW u, NEW a, NEW f \in Place \ {None}, Puts(t, u, a, f)
  PROVE  OpenFds(u) = Maps!Assign(OpenFds(t), a - 1, f)
<1> DEFINE D(s) == {i - 1 : i \in (1..Len(s)) \ Holes(s)}
<1>0. Len(t) \in Nat /\ Len(u) \in Nat /\ a \in 1..Len(u) /\ Len(t) <= Len(u) /\ f # None
  BY DEF Puts
<1>1. OpenFds(t) = [d \in D(t) |-> t[d + 1]] /\ OpenFds(u) = [d \in D(u) |-> u[d + 1]]
  BY Zenon DEF OpenFds
<1>2. \A d : d \in D(t) <=> d \in Int /\ d + 1 \in 1..Len(t) /\ t[d + 1] # None
  BY <1>0 DEF Holes
<1>3. \A d : d \in D(u) <=> d \in Int /\ d + 1 \in 1..Len(u) /\ u[d + 1] # None
  BY <1>0 DEF Holes
<1> HIDE DEF D
<1>4. D(u) = D(t) \union {a - 1}
  BY <1>0, <1>2, <1>3 DEF Puts
<1>5. \A d \in D(u) : u[d + 1] = IF d = a - 1 THEN f ELSE t[d + 1]
  BY <1>0, <1>2, <1>3, <1>4 DEF Puts
<1>6. Maps!Assign(OpenFds(t), a - 1, f)
        = [d \in D(t) \union {a - 1} |-> IF d = a - 1 THEN f ELSE [e \in D(t) |-> t[e + 1]][d]]
  BY <1>1, Zenon DEF Maps!Assign
<1>7. \A d \in D(u) : d # a - 1 => [e \in D(t) |-> t[e + 1]][d] = t[d + 1]
  BY <1>4, Zenon
<1> QED BY <1>1, <1>4, <1>5, <1>6, <1>7, Zenon

\* The place that alloc_fd finds is the lowest number that is not in the map.
LEMMA AllocLowest ==
  ASSUME NEW t \in Seq(Place), Len(t) <= MaxFds + 1
  PROVE  Maps!Lowest(OpenFds(t)) = alloc_fd(t) - 1
<1> DEFINE a == alloc_fd(t)
          S == (0..(MaxFds + 1)) \ DOMAIN OpenFds(t)
<1>1. /\ a \in 1..(Len(t) + 1) /\ Len(t) \in Nat
      /\ \A i \in 1..Len(t) : i < a => t[i] # None
      /\ a <= Len(t) => t[a] = None
  BY AllocFd
<1> HIDE DEF a
<1>2. \A d : d \in DOMAIN OpenFds(t) <=> d \in Int /\ d + 1 \in 1..Len(t) /\ t[d + 1] # None
  BY <1>1 DEF OpenFds, Holes
<1>3. a - 1 \in S
  BY <1>1, <1>2, FdAssumption
<1>4. \A d \in S : a - 1 <= d
  BY <1>1, <1>2, FdAssumption
<1>5. S \subseteq Nat
  BY FdAssumption
<1> HIDE DEF S
<1>6. First(S) = a - 1
  BY <1>3, <1>4, <1>5, FirstIs, Zenon
<1> QED BY <1>6, Zenon DEF Maps!Lowest, First, S, a

\* A new file has the lowest number that is free.
LEMMA FilledWith ==
  ASSUME NEW t \in Seq(Place), Len(t) <= MaxFds + 1, NEW f \in Place \ {None}
  PROVE  OpenFds(Filled(t, f)) = Maps!With(OpenFds(t), f)
BY FilledPuts, PutsAssigns, AllocLowest DEF Maps!With

-----------------------------------------------------------------------------
(* The tables that the calls make *)

\* With a file that has been opened in one place, a table is still one.
LEMMA PutsTable ==
  ASSUME NEW n \in Nat, NEW t, Table(t, n), NEW u, NEW a, NEW f, Puts(t, u, a, f),
         NEW k \in Nat, n <= k, f \in 1..MaxFiles => f <= k, Len(u) <= MaxFds
  PROVE  Table(u, k)
<1>1. u \in Seq(Place) /\ Len(u) \in Nat /\ Len(t) \in Nat
  BY DEF Puts, Table
<1>2. ASSUME NEW i \in 1..Len(u), u[i] \in 1..MaxFiles PROVE u[i] <= k
  <2>1. CASE i = a
    BY <1>2, <2>1, Zenon DEF Puts
  <2>2. CASE i # a /\ i <= Len(t)
    <3>1. u[i] = t[i] /\ i \in 1..Len(t)
      BY <1>1, <2>2 DEF Puts
    <3>2. t[i] <= n
      BY <1>2, <3>1, Zenon DEF Table
    <3> QED BY <1>2, <3>1, <3>2
  <2>3. CASE i # a /\ ~(i <= Len(t))
    <3>1. u[i] = None
      BY <1>1, <2>3, Zenon DEF Puts
    <3> QED BY <1>2, <3>1, FdAssumption, Zenon
  <2> QED BY <2>1, <2>2, <2>3, Zenon
<1> QED BY <1>1, <1>2, Zenon DEF Table

\* dup3 puts the file in the place it is asked for.
Dup3(t, fd, newfd) ==
  LET grown == t \o [i \in 1..(newfd - Len(t)) |-> None]
  IN [grown EXCEPT ![newfd] = t[fd]]

LEMMA Dup3Puts ==
  ASSUME NEW t \in Seq(Place), NEW fd \in 1..Len(t), NEW newfd \in Nat \ {0}
  PROVE  Puts(t, Dup3(t, fd, newfd), newfd, t[fd])
<1> DEFINE n == newfd - Len(t)
          hs == [i \in 1..n |-> None]
          grown == t \o hs
<1>0. Len(t) \in Nat /\ t[fd] \in Place
  OBVIOUS
<1>1. CASE n <= 0
  <2>1. hs = <<>>
    BY <1>0, <1>1
  <2>2. grown = t
    <3>1. grown = t \o <<>>
      BY Zenon, <2>1
    <3>2. t \o <<>> = t
      BY Z3
    <3> QED BY Zenon, <3>1, <3>2
  <2>3. Dup3(t, fd, newfd) = [t EXCEPT ![newfd] = t[fd]]
    BY <2>2, Zenon DEF Dup3
  <2>4. newfd \in 1..Len(t)
    BY <1>0, <1>1
  <2> QED BY <1>0, <2>3, <2>4 DEF Puts
<1>2. CASE n > 0
  <2>1. hs \in Seq(Place) /\ Len(hs) = n
    BY <1>0, <1>2 DEF Place
  <2>2. /\ grown \in Seq(Place) /\ Len(grown) = newfd
        /\ \A i \in 1..newfd : grown[i] = IF i <= Len(t) THEN t[i] ELSE None
    BY <1>0, <1>2, <2>1
  <2>3. Dup3(t, fd, newfd) = [grown EXCEPT ![newfd] = t[fd]]
    BY Zenon DEF Dup3
  <2> DEFINE u == Dup3(t, fd, newfd)
  <2> HIDE DEF grown, n, hs
  <2>4. u \in Seq(Place) /\ Len(u) = newfd
    BY <1>0, <2>2, <2>3
  <2>5. \A i \in 1..newfd : u[i] = IF i = newfd THEN t[fd] ELSE grown[i]
    BY <1>0, <2>2, <2>3
  <2>6. Len(t) <= newfd
    BY <1>0, <1>2 DEF n
  <2> HIDE DEF u
  <2> QED BY <1>0, <2>2, <2>4, <2>5, <2>6 DEF Puts, u
<1> QED BY <1>0, <1>1, <1>2

\* close takes one number out of the map.
LEMMA CloseRemoves ==
  ASSUME NEW n \in Nat, NEW t, Table(t, n), NEW fd \in 1..Len(t), t[fd] # None
  PROVE  /\ Table([t EXCEPT ![fd] = None], n)
         /\ OpenFds([t EXCEPT ![fd] = None])
              = [e \in DOMAIN OpenFds(t) \ {fd - 1} |-> OpenFds(t)[e]]
         /\ fd - 1 \in DOMAIN OpenFds(t)
<1> DEFINE u == [t EXCEPT ![fd] = None]
          D(s) == {i - 1 : i \in (1..Len(s)) \ Holes(s)}
<1>0. /\ t \in Seq(Place) /\ Len(t) \in Nat /\ u \in Seq(Place) /\ Len(u) = Len(t)
      /\ \A i \in 1..Len(t) : u[i] = IF i = fd THEN None ELSE t[i]
  BY DEF Table, Place
<1>1. OpenFds(t) = [d \in D(t) |-> t[d + 1]] /\ OpenFds(u) = [d \in D(u) |-> u[d + 1]]
  BY Zenon DEF OpenFds
<1>2. \A d : d \in D(t) <=> d \in Int /\ d + 1 \in 1..Len(t) /\ t[d + 1] # None
  BY <1>0 DEF Holes
<1>3. \A d : d \in D(u) <=> d \in Int /\ d + 1 \in 1..Len(u) /\ u[d + 1] # None
  BY <1>0 DEF Holes
<1>4. Table(u, n)
  BY <1>0, FdAssumption, Zenon DEF Table
<1> HIDE DEF D, u
<1>5. D(u) = D(t) \ {fd - 1} /\ fd - 1 \in D(t)
  BY <1>0, <1>2, <1>3
<1>6. \A d \in D(u) : u[d + 1] = t[d + 1]
  BY <1>0, <1>3, <1>5, Zenon
<1>7. DOMAIN OpenFds(t) = D(t) /\ \A d \in D(t) : OpenFds(t)[d] = t[d + 1]
  BY Zenon, <1>1
<1>8. OpenFds(u) = [e \in DOMAIN OpenFds(t) \ {fd - 1} |-> OpenFds(t)[e]]
  BY ZenonT(30), <1>1, <1>5, <1>6, <1>7
<1> QED BY Zenon, <1>4, <1>5, <1>7, <1>8 DEF u

\* The maps of a new table and of none.
LEMMA NewMaps ==
  /\ Table(<<>>, 0) /\ OpenFds(<<>>) = Maps!Nobody
  /\ NewTable \in Seq(Place) /\ Len(NewTable) = NStd
  /\ \A i \in 1..NStd : NewTable[i] = Std
  /\ OpenFds(NewTable) = Maps!StdFds
<1>1. Table(<<>>, 0)
  BY FdAssumption DEF Table
<1>2. OpenFds(<<>>) = Maps!Nobody
  <2>1. {i - 1 : i \in (1..Len(<<>>)) \ Holes(<<>>)} = {}
    OBVIOUS
  <2> QED BY <2>1, Zenon DEF OpenFds, Maps!Nobody
<1>3. /\ NewTable \in Seq(Place) /\ Len(NewTable) = NStd
      /\ \A i \in 1..NStd : NewTable[i] = Std
  BY FdAssumption DEF NewTable, Place
<1>4. OpenFds(NewTable) = Maps!StdFds
  <2> DEFINE D == {i - 1 : i \in (1..Len(NewTable)) \ Holes(NewTable)}
  <2>1. Holes(NewTable) = {}
    BY <1>3, FdAssumption, Zenon DEF Holes
  <2>2. D = 0..(NStd - 1)
    <3>1. D = {i - 1 : i \in 1..NStd}
      BY Zenon, <1>3, <2>1
    <3>2. \A d \in 0..(NStd - 1) : d + 1 \in 1..NStd /\ d = (d + 1) - 1
      BY FdAssumption
    <3>3. \A i \in 1..NStd : i - 1 \in 0..(NStd - 1)
      BY FdAssumption
    <3> QED BY Zenon, <3>1, <3>2, <3>3
  <2>3. \A d \in 0..(NStd - 1) : NewTable[d + 1] = Std
    BY <1>3, FdAssumption
  <2>4. OpenFds(NewTable) = [d \in D |-> NewTable[d + 1]]
    BY Zenon DEF OpenFds
  <2> HIDE DEF D
  <2> QED BY <2>2, <2>3, <2>4, Zenon DEF Maps!StdFds
<1> QED BY <1>1, <1>2, <1>3, <1>4, Zenon

\* A new table is one.
LEMMA NewTableIs == ASSUME NEW n \in Nat PROVE Table(NewTable, n)
BY NewMaps, FdAssumption DEF Table

-----------------------------------------------------------------------------
(* The calls *)

MapsNow == [p \in Task |-> OpenFds(fd_table[p])]

\* A file that has not been opened is in no map.
LEMMA NewUnused ==
  ASSUME FdInv, NEW f \in 1..MaxFiles, f > files
  PROVE  f \in Maps!Unused(MapsNow)
<1>1. ASSUME NEW q \in Task, NEW d \in DOMAIN MapsNow[q] PROVE MapsNow[q][d] # f
  <2> DEFINE t == fd_table[q]
  <2>1. Table(t, files) /\ files \in Nat
    BY FdAssumption DEF FdInv
  <2>2. MapsNow[q] = OpenFds(t)
    BY Zenon DEF MapsNow
  <2> HIDE DEF t
  <2>3. d + 1 \in 1..Len(t) /\ MapsNow[q][d] = t[d + 1]
    BY <2>1, <2>2 DEF OpenFds, Table
  <2>4. t[d + 1] \in 1..MaxFiles => t[d + 1] <= files
    BY <2>1, <2>3, Zenon DEF Table
  <2>5. t[d + 1] # f
    BY <2>1, <2>4
  <2> QED BY <2>3, <2>5, Zenon
<1> QED BY Zenon, <1>1 DEF Maps!Unused

\* What a call may do to the map of p when it leaves p the table u.
Moves(p, u) ==
  LET t == OpenFds(fd_table[p]) IN
    \/ OpenFds(u) \in Maps!Closed(t) \union Maps!Dupped(t) \union Maps!Dup3ed(t)
                        \union {Maps!Nobody}
    \/ OpenFds(u) \in Maps!Opened(t, Maps!Unused(MapsNow))
                        \union Maps!PipeMade(t, Maps!Unused(MapsNow))
    \/ t = Maps!Nobody /\ OpenFds(u) \in Maps!Inherited(MapsNow)

\* A call of one task: it leaves p the table u and the other tables alone.
Calls(p, u) ==
  /\ p \in Task /\ fd_table' = [fd_table EXCEPT ![p] = u]
  /\ files' \in 0..MaxFiles /\ files <= files' /\ Table(u, files')
  /\ live' \subseteq Task /\ live \subseteq live' \union {p}
  /\ p \notin live' => u = <<>>
  /\ Moves(p, u)

LEMMA OpenatCalls ==
  ASSUME FdInv, NEW p \in live, sys_openat(p)
  PROVE  Calls(p, Filled(fd_table[p], files + 1))
<1> DEFINE t == fd_table[p]
          u == Filled(t, files + 1)
<1>1. /\ p \in Task /\ files \in Nat /\ files + 1 \in 1..MaxFiles /\ files' = files + 1
      /\ Table(t, files) /\ Len(u) <= MaxFds /\ fd_table' = [fd_table EXCEPT ![p] = u]
      /\ live' = live /\ live \subseteq Task
  BY FdAssumption DEF FdInv, sys_openat, Set
<1>2. files + 1 \in Place \ {None} /\ t \in Seq(Place) /\ Len(t) <= MaxFds + 1
  BY <1>1, FdAssumption DEF Place, Table
<1>3. Puts(t, u, alloc_fd(t), files + 1)
  BY <1>2, FilledPuts, Zenon
<1>4. OpenFds(u) = Maps!With(OpenFds(t), files + 1)
  BY <1>2, FilledWith, Zenon
<1> HIDE DEF t, u
<1>5. Table(u, files')
  <2>1. files <= files' /\ files' \in Nat
    BY <1>1
  <2> QED BY <1>1, <1>3, <2>1, PutsTable
<1>6. files + 1 \in Maps!Unused(MapsNow)
  BY <1>1, NewUnused
<1>7. OpenFds(u) \in Maps!Opened(OpenFds(t), Maps!Unused(MapsNow))
  BY Zenon, <1>4, <1>6 DEF Maps!Opened
<1>8. Moves(p, u)
  BY Zenon, <1>7 DEF Moves, t
<1>9. files' \in 0..MaxFiles /\ files <= files'
  BY <1>1
<1> QED BY Zenon, <1>1, <1>5, <1>8, <1>9 DEF Calls, t, u

LEMMA Pipe2Calls ==
  ASSUME FdInv, NEW p \in live, sys_pipe2(p)
  PROVE  Calls(p, Filled(Filled(fd_table[p], files + 1), files + 2))
<1> DEFINE t == fd_table[p]
          v == Filled(t, files + 1)
          u == Filled(v, files + 2)
<1>1. /\ p \in Task /\ files \in Nat /\ files + 1 \in 1..MaxFiles /\ files + 2 \in 1..MaxFiles
      /\ files' = files + 2
      /\ Table(t, files) /\ Len(u) <= MaxFds /\ fd_table' = [fd_table EXCEPT ![p] = u]
      /\ live' = live /\ live \subseteq Task
  BY FdAssumption DEF FdInv, sys_pipe2, Set
<1>2. /\ files + 1 \in Place \ {None} /\ files + 2 \in Place \ {None}
      /\ t \in Seq(Place) /\ Len(t) <= MaxFds
  BY <1>1, FdAssumption, Zenon DEF Place, Table
<1>3. Puts(t, v, alloc_fd(t), files + 1)
  BY <1>2, FilledPuts, Zenon
<1>4. OpenFds(v) = Maps!With(OpenFds(t), files + 1)
  <2>1. Len(t) <= MaxFds + 1
    BY <1>2, FdAssumption
  <2> QED BY <1>2, <2>1, FilledWith, Zenon
<1> HIDE DEF t, v
<1>5. v \in Seq(Place)
  BY <1>3, Zenon DEF Puts
<1>6. Puts(v, u, alloc_fd(v), files + 2)
  BY <1>2, <1>5, FilledPuts, Zenon
<1> HIDE DEF u
<1>7. Len(v) <= MaxFds
  BY <1>1, <1>5, <1>6, FdAssumption DEF Puts
<1>8. OpenFds(u) = Maps!With(OpenFds(v), files + 2)
  <2>1. Len(v) <= MaxFds + 1
    BY <1>5, <1>7, FdAssumption
  <2> QED BY <1>2, <1>5, <2>1, FilledWith, Zenon DEF u
<1>9. Table(v, files + 1)
  <2>1. files <= files + 1 /\ files + 1 \in Nat
    BY <1>1
  <2> QED BY <1>1, <1>3, <1>7, <2>1, PutsTable
<1>10. Table(u, files')
  <2>1. files + 1 <= files' /\ files' \in Nat /\ files + 1 \in Nat /\ files + 2 <= files'
    BY <1>1
  <2> QED BY <1>1, <1>6, <1>9, <2>1, PutsTable, Zenon
<1>11. files + 1 \in Maps!Unused(MapsNow) /\ files + 2 \in Maps!Unused(MapsNow)
  BY <1>1, NewUnused
<1>12. OpenFds(u) \in Maps!PipeMade(OpenFds(t), Maps!Unused(MapsNow))
  <2> DEFINE e == <<files + 1, files + 2>>
            N == Maps!Unused(MapsNow)
  <2> HIDE DEF N
  <2>1. e \in N \X N /\ e[1] # e[2] /\ e[1] = files + 1 /\ e[2] = files + 2
    BY <1>1, <1>11 DEF N
  <2> HIDE DEF e
  <2>2. e \in {x \in N \X N : x[1] # x[2]}
    BY Zenon, <2>1
  <2>3. OpenFds(u) = Maps!With(Maps!With(OpenFds(t), e[1]), e[2])
    BY Zenon, <1>4, <1>8, <2>1
  <2> QED BY Zenon, <2>2, <2>3 DEF Maps!PipeMade, N
<1>13. Moves(p, u)
  BY Zenon, <1>12 DEF Moves, t
<1>14. files' \in 0..MaxFiles /\ files <= files'
  BY <1>1
<1> QED BY Zenon, <1>1, <1>10, <1>13, <1>14 DEF Calls, t, u, v

LEMMA CloseCalls ==
  ASSUME FdInv, NEW p \in live, NEW fd \in 1..MaxFds, sys_close(p, fd)
  PROVE  Calls(p, [fd_table[p] EXCEPT ![fd] = None])
<1> DEFINE t == fd_table[p]
          u == [t EXCEPT ![fd] = None]
<1>1. /\ p \in Task /\ files \in Nat /\ files' = files /\ files \in 0..MaxFiles
      /\ Table(t, files) /\ fd \in 1..Len(t) /\ t[fd] # None
      /\ fd_table' = [fd_table EXCEPT ![p] = u] /\ live' = live /\ live \subseteq Task
  BY FdAssumption DEF FdInv, sys_close, Set, Open
<1>2. /\ Table(u, files) /\ fd - 1 \in DOMAIN OpenFds(t)
      /\ OpenFds(u) = [e \in DOMAIN OpenFds(t) \ {fd - 1} |-> OpenFds(t)[e]]
  BY <1>1, CloseRemoves, Zenon
<1> HIDE DEF t, u
<1>3. OpenFds(u) \in Maps!Closed(OpenFds(t))
  BY Zenon, <1>2 DEF Maps!Closed
<1>4. Moves(p, u)
  BY Zenon, <1>3 DEF Moves, t
<1>5. files <= files'
  BY <1>1
<1> QED BY Zenon, <1>1, <1>2, <1>4, <1>5 DEF Calls, t, u

\* The file of an open descriptor is in the map.
LEMMA OpenIn ==
  ASSUME NEW t \in Seq(Place), NEW fd \in 1..Len(t), t[fd] # None
  PROVE  fd - 1 \in DOMAIN OpenFds(t) /\ OpenFds(t)[fd - 1] = t[fd] /\ t[fd] \in Place \ {None}
BY DEF OpenFds, Holes

LEMMA DupCalls ==
  ASSUME FdInv, NEW p \in live, NEW fd \in 1..MaxFds, sys_dup(p, fd)
  PROVE  Calls(p, Filled(fd_table[p], fd_table[p][fd]))
<1> DEFINE t == fd_table[p]
          u == Filled(t, t[fd])
<1>1. /\ p \in Task /\ files \in Nat /\ files' = files /\ files \in 0..MaxFiles
      /\ Table(t, files) /\ fd \in 1..Len(t) /\ t[fd] # None /\ Len(u) <= MaxFds
      /\ fd_table' = [fd_table EXCEPT ![p] = u] /\ live' = live /\ live \subseteq Task
  BY FdAssumption DEF FdInv, sys_dup, Set, Open
<1>2. t \in Seq(Place) /\ Len(t) <= MaxFds + 1 /\ (t[fd] \in 1..MaxFiles => t[fd] <= files)
  BY <1>1, FdAssumption DEF Table
<1>3. fd - 1 \in DOMAIN OpenFds(t) /\ OpenFds(t)[fd - 1] = t[fd] /\ t[fd] \in Place \ {None}
  BY <1>1, <1>2, OpenIn, Zenon
<1>4. Puts(t, u, alloc_fd(t), t[fd])
  BY <1>2, <1>3, FilledPuts, Zenon
<1>5. OpenFds(u) = Maps!With(OpenFds(t), t[fd])
  BY <1>2, <1>3, FilledWith, Zenon
<1> HIDE DEF t, u
<1>6. files <= files
  BY <1>1
<1>7. Table(u, files)
  BY <1>1, <1>2, <1>4, <1>6, PutsTable, Zenon
<1>8. OpenFds(u) \in Maps!Dupped(OpenFds(t))
  BY Zenon, <1>3, <1>5 DEF Maps!Dupped
<1>9. Moves(p, u)
  BY Zenon, <1>8 DEF Moves, t
<1> QED BY Zenon, <1>1, <1>6, <1>7, <1>9 DEF Calls, t, u

LEMMA Dup3Calls ==
  ASSUME FdInv, NEW p \in live, NEW fd \in 1..MaxFds, NEW newfd \in 1..MaxFds,
         sys_dup3(p, fd, newfd)
  PROVE  Calls(p, Dup3(fd_table[p], fd, newfd))
<1> DEFINE t == fd_table[p]
          u == Dup3(t, fd, newfd)
<1>1. /\ p \in Task /\ files \in Nat /\ files' = files /\ files \in 0..MaxFiles
      /\ Table(t, files) /\ fd \in 1..Len(t) /\ t[fd] # None /\ Len(u) <= MaxFds
      /\ fd_table' = [fd_table EXCEPT ![p] = u] /\ live' = live /\ live \subseteq Task
  <2>1. Set(p, u)
    BY Zenon DEF sys_dup3, Dup3
  <2>2. Open(p, fd) /\ UNCHANGED <<live, files>>
    BY Zenon DEF sys_dup3
  <2> HIDE DEF u
  <2> QED BY <2>1, <2>2, FdAssumption DEF FdInv, Set, Open
<1>2. t \in Seq(Place) /\ (t[fd] \in 1..MaxFiles => t[fd] <= files)
  BY <1>1, FdAssumption, Zenon DEF Table
<1>3. fd - 1 \in DOMAIN OpenFds(t) /\ OpenFds(t)[fd - 1] = t[fd] /\ t[fd] \in Place \ {None}
  BY <1>1, <1>2, OpenIn, Zenon
<1>4. Puts(t, u, newfd, t[fd])
  <2>1. newfd \in Nat \ {0}
    BY FdAssumption
  <2> QED BY <1>1, <1>2, <2>1, Dup3Puts, Zenon
<1> HIDE DEF t, u
<1>5. OpenFds(u) = Maps!Assign(OpenFds(t), newfd - 1, t[fd])
  BY <1>2, <1>3, <1>4, PutsAssigns, Zenon
<1>6. files <= files /\ newfd - 1 \in 0..(MaxFds + 1)
  BY <1>1, FdAssumption
<1>7. Table(u, files)
  BY <1>1, <1>2, <1>4, <1>6, PutsTable, Zenon
<1>8. OpenFds(u) \in Maps!Dup3ed(OpenFds(t))
  BY SMT, <1>3, <1>5, <1>6 DEF Maps!Dup3ed
<1>9. Moves(p, u)
  BY Zenon, <1>8 DEF Moves, t
<1> QED BY Zenon, <1>1, <1>6, <1>7, <1>9 DEF Calls, t, u

LEMMA ForkCalls ==
  ASSUME FdInv, NEW p \in live, NEW c \in Task, fork(p, c)
  PROVE  Calls(c, fd_table[p])
<1>1. /\ p \in Task /\ files \in Nat /\ files' = files /\ files \in 0..MaxFiles
      /\ Table(fd_table[p], files) /\ fd_table[c] = <<>>
      /\ fd_table' = [fd_table EXCEPT ![c] = fd_table[p]]
      /\ live' = live \union {c} /\ live \subseteq Task
  BY FdAssumption DEF FdInv, fork, Set
<1>2. OpenFds(fd_table[c]) = Maps!Nobody
  BY Zenon, <1>1, NewMaps
<1>3. OpenFds(fd_table[p]) \in Maps!Inherited(MapsNow)
  BY Zenon, <1>1 DEF Maps!Inherited, MapsNow
<1>4. Moves(c, fd_table[p])
  BY Zenon, <1>2, <1>3 DEF Moves
<1>5. files <= files
  BY <1>1
<1> QED BY <1>1, <1>4, <1>5, Zenon DEF Calls

LEMMA SpawnCalls ==
  ASSUME FdInv, NEW c \in Task, spawn(c)
  PROVE  Calls(c, NewTable)
<1>1. /\ files \in Nat /\ files' = files /\ files \in 0..MaxFiles
      /\ fd_table[c] = <<>> /\ fd_table' = [fd_table EXCEPT ![c] = NewTable]
      /\ live' = live \union {c} /\ live \subseteq Task
  BY FdAssumption DEF FdInv, spawn, Set
<1>2. OpenFds(fd_table[c]) = Maps!Nobody
  BY Zenon, <1>1, NewMaps
<1>3. OpenFds(NewTable) \in Maps!Inherited(MapsNow)
  BY Zenon, NewMaps DEF Maps!Inherited
<1>4. Moves(c, NewTable)
  BY Zenon, <1>2, <1>3 DEF Moves
<1>5. files <= files /\ Table(NewTable, files)
  BY <1>1, NewTableIs
<1> QED BY <1>1, <1>4, <1>5, Zenon DEF Calls

LEMMA ExitCalls ==
  ASSUME FdInv, NEW p \in live, exit(p)
  PROVE  Calls(p, <<>>)
<1>1. /\ p \in Task /\ files \in Nat /\ files' = files /\ files \in 0..MaxFiles
      /\ fd_table' = [fd_table EXCEPT ![p] = <<>>]
      /\ live' = live \ {p} /\ live \subseteq Task
  BY FdAssumption DEF FdInv, exit, Set
<1>2. Moves(p, <<>>)
  BY Zenon, NewMaps DEF Moves
<1>3. files <= files /\ Table(<<>>, files)
  BY <1>1, FdAssumption DEF Table
<1> QED BY <1>1, <1>2, <1>3, Zenon DEF Calls

\* Every step is a call.
LEMMA EveryCall == FdInv /\ FdNext => \E p, u : Calls(p, u)
<1> SUFFICES ASSUME FdInv, FdNext PROVE \E p, u : Calls(p, u)
  BY Zenon
<1>1. PICK p \in live :
        \/ sys_openat(p) \/ sys_pipe2(p) \/ exit(p)
        \/ \E fd \in 1..MaxFds : \/ sys_close(p, fd) \/ sys_dup(p, fd)
                                 \/ \E newfd \in 1..MaxFds : sys_dup3(p, fd, newfd)
        \/ \E c \in Task : fork(p, c) \/ spawn(c)
  BY Zenon DEF FdNext
<1>2. CASE sys_openat(p)
  BY Zenon, <1>2, OpenatCalls
<1>3. CASE sys_pipe2(p)
  BY Zenon, <1>3, Pipe2Calls
<1>4. CASE exit(p)
  BY Zenon, <1>4, ExitCalls
<1>5. ASSUME NEW fd \in 1..MaxFds,
             \/ sys_close(p, fd) \/ sys_dup(p, fd)
             \/ \E newfd \in 1..MaxFds : sys_dup3(p, fd, newfd)
      PROVE  \E q, u : Calls(q, u)
  BY Zenon, <1>5, CloseCalls, DupCalls, Dup3Calls
<1>6. ASSUME NEW c \in Task, fork(p, c) \/ spawn(c) PROVE \E q, u : Calls(q, u)
  BY Zenon, <1>6, ForkCalls, SpawnCalls
<1> QED BY Zenon, <1>1, <1>2, <1>3, <1>4, <1>5, <1>6

-----------------------------------------------------------------------------
(* The tables implement the maps *)

LEMMA FdInvInit == FdInit => FdInv
<1> SUFFICES ASSUME FdInit PROVE FdInv
  BY Zenon
<1>1. PICK p \in Task : /\ fd_table = [q \in Task |-> IF q = p THEN NewTable ELSE <<>>]
                        /\ live = {p} /\ files = 0
  BY Zenon DEF FdInit
<1>2. Table(NewTable, 0) /\ Table(<<>>, 0)
  BY NewMaps, NewTableIs, Zenon
<1> QED BY <1>1, <1>2, FdAssumption DEF FdInv

LEMMA FdInvStep == FdInv /\ [FdNext]_fdVars => FdInv'
<1>1. ASSUME FdInv, UNCHANGED fdVars PROVE FdInv'
  BY <1>1, Zenon DEF FdInv, fdVars, Table
<1>2. ASSUME FdInv, NEW p, NEW u, Calls(p, u) PROVE FdInv'
  <2>1. ASSUME NEW q \in Task PROVE Table(fd_table'[q], files')
    <3>1. CASE q = p
      BY <1>2, <3>1, Zenon DEF FdInv, Calls
    <3>2. CASE q # p
      <4>1. fd_table'[q] = fd_table[q] /\ Table(fd_table[q], files)
        BY <1>2, <3>2, Zenon DEF FdInv, Calls
      <4>2. files \in Nat /\ files' \in Nat /\ files <= files'
        BY <1>2, FdAssumption DEF FdInv, Calls
      <4> QED BY <4>1, <4>2, FdAssumption DEF Table
    <3> QED BY <3>1, <3>2, Zenon
  <2>2. ASSUME NEW q \in Task \ live' PROVE fd_table'[q] = <<>>
    BY <1>2, Zenon DEF FdInv, Calls
  <2>3. DOMAIN fd_table' = Task /\ fd_table' = [q \in Task |-> fd_table'[q]]
    BY <1>2, Zenon DEF FdInv, Calls
  <2>4. files' \in 0..MaxFiles /\ live' \subseteq Task
    BY <1>2, Zenon DEF Calls
  <2>5. \A q \in Task : Table(fd_table[q], files)'
    BY Zenon, <2>1 DEF Table
  <2> QED BY Zenon, <2>2, <2>3, <2>4, <2>5 DEF FdInv
<1> QED BY Zenon, <1>1, <1>2, EveryCall

\* A call is a step of the maps.
LEMMA CallsChange == ASSUME FdInv, NEW p, NEW u, Calls(p, u) PROVE Maps!DescriptorsNext
<1>1. MapsNow' = [q \in Task |-> OpenFds(fd_table'[q])]
  BY Zenon DEF MapsNow, OpenFds, Holes
<1>2. \A q \in Task : fd_table'[q] = IF q = p THEN u ELSE fd_table[q]
  BY Zenon DEF FdInv, Calls
<1>3. p \in Task /\ MapsNow'[p] = OpenFds(u) /\ MapsNow[p] = OpenFds(fd_table[p])
  BY Zenon, <1>1, <1>2 DEF MapsNow, Calls
<1>4. \A q \in Task \ {p} : MapsNow'[q] = MapsNow[q]
  BY Zenon, <1>1, <1>2 DEF MapsNow
<1>5. Moves(p, u)
  BY Zenon DEF Calls
<1>6. Maps!Changes(MapsNow, MapsNow')
  BY Zenon, <1>3, <1>4, <1>5 DEF Maps!Changes, Moves
<1> QED BY Zenon, <1>6 DEF Maps!DescriptorsNext, MapsNow

LEMMA FdAlways == FdSpec => []FdInv
BY FdInvInit, FdInvStep, PTL DEF FdSpec

\* The tables with their holes implement the maps: whatever the tasks, the
\* files and the lengths, alloc_fd gives out the lowest number that is free,
\* dup3 replaces what its number named, close frees one, fork copies the map,
\* and no call touches the map of another task.
THEOREM TablesImplementMaps == FdSpec => DescriptorsSpec
<1>1. FdInit => Maps!DescriptorsInit
  <2> SUFFICES ASSUME FdInit PROVE Maps!DescriptorsInit
    BY Zenon
  <2>1. PICK p \in Task : fd_table = [q \in Task |-> IF q = p THEN NewTable ELSE <<>>]
    BY Zenon DEF FdInit
  <2>2. \A q \in Task : OpenFds(fd_table[q]) = IF q = p THEN Maps!StdFds ELSE Maps!Nobody
    BY Zenon, <2>1, NewMaps
  <2> QED BY Zenon, <2>2 DEF Maps!DescriptorsInit
<1>2. FdInv /\ [FdNext]_fdVars => [Maps!DescriptorsNext]_MapsNow
  <2>1. ASSUME UNCHANGED fdVars PROVE UNCHANGED MapsNow
    BY Zenon, <2>1 DEF fdVars, MapsNow, OpenFds, Holes
  <2> QED BY Zenon, <2>1, EveryCall, CallsChange
<1>3. FdInv /\ [FdNext]_fdVars
        => [Maps!DescriptorsNext]_[p \in Task |-> OpenFds(fd_table[p])]
  BY <1>2, Zenon DEF MapsNow
<1> QED BY <1>1, <1>3, FdAlways, PTL DEF FdSpec, DescriptorsSpec, Maps!DescriptorsSpec

-----------------------------------------------------------------------------
(* The ends of a pipe in the tables *)

\* A table without an end of the pipe.
NoEnd(t) == \A i \in 1..Len(t) : t[i] # pipe[1] /\ t[i] # pipe[2]

\* Only the task that made the pipe and those forked from it have its ends.
EndInv ==
  /\ kin \subseteq live
  /\ pipe # <<>> => /\ pipe[1] \in 1..files /\ pipe[2] \in 1..files /\ pipe[1] # pipe[2]
                    /\ \A q \in Task \ kin : NoEnd(fd_table[q])

Count(t, f) == Cardinality({i \in 1..Len(t) : t[i] = f})

LEMMA CountType ==
  ASSUME NEW t, Len(t) \in Nat, NEW f
  PROVE  /\ IsFiniteSet({i \in 1..Len(t) : t[i] = f})
         /\ Count(t, f) \in 0..Len(t)
         /\ (Count(t, f) = 0 <=> \A i \in 1..Len(t) : t[i] # f)
<1> DEFINE S == {i \in 1..Len(t) : t[i] = f}
<1>1. IsFiniteSet(1..Len(t)) /\ Cardinality(1..Len(t)) = Len(t)
  <2>0. 1 \in Int /\ Len(t) \in Int
    OBVIOUS
  <2>1. /\ IsFiniteSet(1..Len(t))
        /\ Cardinality(1..Len(t)) = IF 1 > Len(t) THEN 0 ELSE Len(t) - 1 + 1
    BY Zenon, <2>0, FS_Interval
  <2> DEFINE c == Cardinality(1..Len(t))
  <2> HIDE DEF c
  <2>2. c = Len(t)
    BY <2>1 DEF c
  <2> QED BY Zenon, <2>1, <2>2 DEF c
<1>2. IsFiniteSet(S) /\ Cardinality(S) <= Len(t)
  BY <1>1, FS_Subset, Zenon
<1>3. Cardinality(S) \in Nat /\ (Cardinality(S) = 0 <=> S = {})
  BY <1>2, FS_CardinalityType, FS_EmptySet, Zenon
<1>4. S = {} <=> \A i \in 1..Len(t) : t[i] # f
  BY Zenon
<1> HIDE DEF S
<1> QED BY <1>2, <1>3, <1>4 DEF Count, S

\* Putting f in place a changes the count of f and of what the place held.
Held(t, a) == IF a <= Len(t) THEN t[a] ELSE None
One(b) == IF b THEN 1 ELSE 0

LEMMA CountPuts ==
  ASSUME NEW t \in Seq(Place), NEW u, NEW a, NEW f, Puts(t, u, a, f), NEW x, x # None
  PROVE  /\ Count(u, x) + One(Held(t, a) = x) = Count(t, x) + One(f = x)
         /\ Count(u, x) \in Nat /\ Count(t, x) \in Nat
         /\ Held(t, a) = x => Count(t, x) > 0
<1> DEFINE S == {i \in 1..Len(t) : t[i] = x}
          T == {i \in 1..Len(u) : u[i] = x}
          R == S \ {a}
<1>0. /\ Len(t) \in Nat /\ Len(u) \in Nat /\ a \in 1..Len(u) /\ Len(t) <= Len(u) /\ u[a] = f
      /\ \A i \in 1..Len(u) : i # a => u[i] = IF i <= Len(t) THEN t[i] ELSE None
  BY DEF Puts
<1>1. R = T \ {a}
  BY <1>0
<1>2. (a \in S <=> Held(t, a) = x) /\ (a \in T <=> f = x)
  BY <1>0 DEF Held
<1>3. IsFiniteSet(S) /\ Count(t, x) \in Nat /\ Count(u, x) \in Nat
  <2>1. /\ IsFiniteSet({i \in 1..Len(t) : t[i] = x})
        /\ Count(t, x) \in 0..Len(t) /\ Count(u, x) \in 0..Len(u)
    BY Zenon, <1>0, CountType
  <2> DEFINE c == Count(t, x)
            d == Count(u, x)
  <2> HIDE DEF c, d
  <2>2. c \in Nat /\ d \in Nat
    BY <1>0, <2>1 DEF c, d
  <2> QED BY Zenon, <2>1, <2>2 DEF c, d
<1>4. Count(t, x) = Cardinality(S) /\ Count(u, x) = Cardinality(T)
  BY Zenon DEF Count
<1> HIDE DEF S, T
<1>5. IsFiniteSet(R) /\ a \notin R
  BY <1>3, FS_Subset, Zenon
<1>6. Cardinality(R \union {a}) = Cardinality(R) + 1 /\ Cardinality(R) \in Nat
  BY <1>5, FS_AddElement, FS_CardinalityType, Zenon
<1>7. S = (IF a \in S THEN R \union {a} ELSE R) /\ T = (IF a \in T THEN R \union {a} ELSE R)
  BY <1>1, Zenon
<1> HIDE DEF R
<1>8. /\ Cardinality(S) = Cardinality(R) + One(a \in S)
      /\ Cardinality(T) = Cardinality(R) + One(a \in T)
  <2> DEFINE c == Cardinality(R)
  <2> HIDE DEF c
  <2>0. c \in Nat /\ c + 0 = c
    BY <1>6 DEF c
  <2>1. Cardinality(S) = IF a \in S THEN c + 1 ELSE c + 0
    BY Zenon, <1>6, <1>7, <2>0 DEF c
  <2>2. Cardinality(T) = IF a \in T THEN c + 1 ELSE c + 0
    BY Zenon, <1>6, <1>7, <2>0 DEF c
  <2> QED BY Zenon, <2>1, <2>2 DEF One, c
<1>9. One(a \in S) = One(Held(t, a) = x) /\ One(a \in T) = One(f = x)
  BY <1>2, Zenon DEF One
<1>10. One(a \in S) \in {0, 1} /\ One(a \in T) \in {0, 1} /\ (a \in S => One(a \in S) = 1)
  BY Zenon DEF One
<1>11. Held(t, a) = x => Count(t, x) > 0
  BY <1>2, <1>4, <1>6, <1>8, <1>10
<1>12. Count(u, x) + One(a \in S) = Count(t, x) + One(a \in T)
  BY <1>4, <1>6, <1>8, <1>10
<1> QED BY <1>3, <1>9, <1>11, <1>12, Zenon

\* The counts that module Pipe sees, when one table changes.
LEMMA EndsChange ==
  ASSUME FdInv, NEW p \in Task, NEW u, fd_table' = [fd_table EXCEPT ![p] = u], pipe' = pipe
  PROVE  /\ Ends(pipe[1])' = [Ends(pipe[1]) EXCEPT ![p] = Count(u, pipe[1])]
         /\ Ends(pipe[2])' = [Ends(pipe[2]) EXCEPT ![p] = Count(u, pipe[2])]
         /\ \A x : Ends(x)[p] = Count(fd_table[p], x)
<1>1. \A q \in Task : fd_table'[q] = IF q = p THEN u ELSE fd_table[q]
  BY Zenon DEF FdInv
<1>2. \A x : Ends(x) = [q \in Task |-> Count(fd_table[q], x)]
  BY Zenon DEF Ends, Count
<1>3. /\ Ends(pipe[1])' = [q \in Task |-> Count(fd_table'[q], pipe[1])]
      /\ Ends(pipe[2])' = [q \in Task |-> Count(fd_table'[q], pipe[2])]
  BY SMT DEF Ends, Count
<1>4. ASSUME NEW x
      PROVE  [q \in Task |-> Count(fd_table'[q], x)]
               = [[q \in Task |-> Count(fd_table[q], x)] EXCEPT ![p] = Count(u, x)]
  <2> DEFINE g == [q \in Task |-> Count(fd_table[q], x)]
            c == Count(u, x)
  <2>1. ASSUME NEW q \in Task
        PROVE  Count(fd_table'[q], x) = IF q = p THEN c ELSE g[q]
    <3>1. CASE q = p
      <4>1. fd_table'[q] = u
        BY SMT, <1>1, <3>1
      <4>2. Count(fd_table'[q], x) = c
        BY <4>1, Zenon
      <4> QED BY Zenon, <3>1, <4>2
    <3>2. CASE q # p
      <4>1. fd_table'[q] = fd_table[q]
        BY SMT, <1>1, <3>2
      <4>2. Count(fd_table'[q], x) = g[q]
        BY <4>1
      <4> QED BY Zenon, <3>2, <4>2
    <3> QED BY Zenon, <3>1, <3>2
  <2>2. g = [q \in Task |-> g[q]]
    BY Zenon
  <2> HIDE DEF g, c
  <2>3. [g EXCEPT ![p] = c] = [q \in Task |-> IF q = p THEN c ELSE g[q]]
    BY SMT, <2>2
  <2>4. [q \in Task |-> Count(fd_table'[q], x)] = [q \in Task |-> IF q = p THEN c ELSE g[q]]
    BY Zenon, <2>1
  <2> QED BY Zenon, <2>3, <2>4 DEF g, c
<1> QED BY Zenon, <1>2, <1>3, <1>4

\* A call that changes the counts of one process as FdStep does.
LEMMA FdStepView ==
  ASSUME FdInv, NEW p \in kin, p \in Task, NEW u, fd_table' = [fd_table EXCEPT ![p] = u],
         pipe' = pipe, kin' = kin,
         Count(u, pipe[1]) \in 0..MaxFds, Count(u, pipe[2]) \in 0..MaxFds
  PROVE  View!FdStep(p, Count(u, pipe[1]), Count(u, pipe[2]))
<1>1. View!InUser(p)
  BY Zenon DEF View!InUser
<1>2. UNCHANGED <<View!ringVars, [q \in Task |-> IF q \in kin THEN "user" ELSE "absent"],
                  [q \in Task |-> 0], 0, None, None, FALSE>>
  BY Zenon DEF View!ringVars
<1> QED BY Zenon, <1>1, <1>2, EndsChange DEF View!FdStep

\* One whose process is not of the pipe, or that leaves the counts as they were.
LEMMA SameView ==
  ASSUME FdInv, NEW p \in Task, NEW u, fd_table' = [fd_table EXCEPT ![p] = u],
         pipe' = pipe, kin' = kin,
         Count(u, pipe[1]) = Count(fd_table[p], pipe[1]),
         Count(u, pipe[2]) = Count(fd_table[p], pipe[2])
  PROVE  UNCHANGED View!vars
<1>1. \A x : Ends(x) = [q \in Task |-> Count(fd_table[q], x)]
  BY Zenon DEF Ends, Count
<1>2. Ends(pipe[1])' = Ends(pipe[1]) /\ Ends(pipe[2])' = Ends(pipe[2])
  <2>1. ASSUME NEW x, Count(u, x) = Count(fd_table[p], x)
        PROVE  [Ends(x) EXCEPT ![p] = Count(u, x)] = Ends(x)
    BY Zenon, <1>1, <2>1
  <2> QED BY Zenon, <2>1, EndsChange
<1>3. UNCHANGED <<View!ringVars, [q \in Task |-> IF q \in kin THEN "user" ELSE "absent"],
                  [q \in Task |-> 0], 0, None, None, FALSE>>
  BY Zenon DEF View!ringVars
<1> QED BY Zenon, <1>2, <1>3 DEF View!vars, View!fdVars

\* A table of a task that has the pipe, or not, has counts within the bound.
LEMMA CountBound ==
  ASSUME NEW t \in Seq(Place), Len(t) <= MaxFds, NEW x
  PROVE  Count(t, x) \in 0..MaxFds /\ Count(t, x) \in Nat
<1> DEFINE c == Count(t, x)
<1>1. Len(t) \in Nat
  OBVIOUS
<1>2. c \in 0..Len(t)
  BY Zenon, <1>1, CountType
<1> HIDE DEF c
<1>3. c \in 0..MaxFds /\ c \in Nat
  BY <1>1, <1>2, FdAssumption
<1> QED BY Zenon, <1>3 DEF c

\* openat, close, dup and dup3 put one file in one place: to the ends of the
\* pipe that is a close, a dup, a dup3 or nothing.
LEMMA PutsView ==
  ASSUME FdInv, EndInv, pipe # <<>>, NEW p \in live, NEW u, NEW a, NEW f,
         Puts(fd_table[p], u, a, f), Len(u) <= MaxFds,
         fd_table' = [fd_table EXCEPT ![p] = u], pipe' = pipe, kin' = kin,
         f \in {pipe[1], pipe[2]} => Count(fd_table[p], f) > 0
  PROVE  View!Next \/ UNCHANGED View!vars
<1> DEFINE t == fd_table[p]
          x == pipe[1]
          y == pipe[2]
          o == Held(t, a)
<1>1. p \in Task /\ t \in Seq(Place) /\ Len(t) <= MaxFds /\ u \in Seq(Place)
  BY Zenon DEF FdInv, Table, Puts
<1>2. x # y /\ x # None /\ y # None
  BY FdAssumption DEF EndInv, FdInv
<1> HIDE DEF x, y, t, o
<1>3. /\ Count(u, x) + One(o = x) = Count(t, x) + One(f = x)
      /\ Count(u, y) + One(o = y) = Count(t, y) + One(f = y)
      /\ o = x => Count(t, x) > 0
      /\ o = y => Count(t, y) > 0
  <2>1. Puts(t, u, a, f)
    BY Zenon DEF t
  <2>2. ASSUME NEW z, z # None
        PROVE  /\ Count(u, z) + One(o = z) = Count(t, z) + One(f = z)
               /\ o = z => Count(t, z) > 0
    BY <1>1, <2>1, <2>2, CountPuts DEF o
  <2> QED BY Zenon, <1>2, <2>2
<1>4. /\ Count(u, x) \in 0..MaxFds /\ Count(u, y) \in 0..MaxFds
      /\ Count(u, x) \in Nat /\ Count(u, y) \in Nat /\ Count(t, x) \in Nat /\ Count(t, y) \in Nat
  BY Zenon, <1>1, CountBound
<1>5. CASE (o = x <=> f = x) /\ (o = y <=> f = y)
  <2>1. One(o = x) = One(f = x) /\ One(o = y) = One(f = y) /\ One(f = x) \in Nat /\ One(f = y) \in Nat
    BY <1>5, Zenon DEF One
  <2>2. Count(u, x) = Count(t, x) /\ Count(u, y) = Count(t, y)
    BY <1>3, <1>4, <2>1
  <2> QED BY Zenon, <1>1, <2>2, SameView DEF x, y, t
<1>6. CASE ~((o = x <=> f = x) /\ (o = y <=> f = y))
  <2>1. p \in kin
    <3>1. SUFFICES ASSUME p \notin kin PROVE FALSE
      BY Zenon
    <3>2. NoEnd(t)
      BY Zenon, <1>1, <3>1 DEF EndInv, t
    <3>3. Len(t) \in Nat
      BY <1>1
    <3>4. Count(t, x) = 0 /\ Count(t, y) = 0
      BY Zenon, <3>2, <3>3, CountType DEF NoEnd, x, y
    <3>5. ~(0 > 0)
      OBVIOUS
    <3>6. o # x /\ o # y
      BY Zenon, <1>3, <3>4, <3>5
    <3>7. f # x /\ f # y
      BY Zenon, <3>4, <3>5 DEF t, x, y
    <3> QED BY Zenon, <1>6, <3>6, <3>7
  <2>2. View!FdStep(p, Count(u, x), Count(u, y))
    BY Zenon, <1>1, <1>4, <2>1, FdStepView DEF x, y
  <2>3. Ends(x)[p] = Count(t, x) /\ Ends(y)[p] = Count(t, y)
    BY Zenon, <1>1, EndsChange DEF t
  <2>4. (f = x => Count(t, x) > 0) /\ (f = y => Count(t, y) > 0)
    BY Zenon DEF t, x, y
  <2>5. \/ Count(t, x) > 0 /\ Count(u, x) = Count(t, x) - 1 /\ Count(u, y) = Count(t, y)
        \/ Count(t, y) > 0 /\ Count(u, x) = Count(t, x) /\ Count(u, y) = Count(t, y) - 1
        \/ Count(t, x) > 0 /\ Count(u, x) = Count(t, x) + 1 /\ Count(u, y) = Count(t, y)
        \/ Count(t, y) > 0 /\ Count(u, x) = Count(t, x) /\ Count(u, y) = Count(t, y) + 1
        \/ /\ Count(t, x) > 0 /\ Count(t, y) > 0
           /\ \/ Count(u, x) = Count(t, x) + 1 /\ Count(u, y) = Count(t, y) - 1
              \/ Count(u, x) = Count(t, x) - 1 /\ Count(u, y) = Count(t, y) + 1
    BY <1>2, <1>3, <1>4, <1>6, <2>4 DEF One
  <2>6. View!sys_close(p) \/ View!sys_dup(p) \/ View!sys_dup3(p)
    BY Zenon, <2>2, <2>3, <2>5 DEF View!sys_close, View!sys_dup, View!sys_dup3, x, y
  <2>7. View!UserStep(p)
    BY Zenon, <2>6 DEF View!UserStep
  <2> QED BY Zenon, <1>1, <2>7 DEF View!Next
<1> QED BY Zenon, <1>5, <1>6

\* A table that a file is put in has no end of the pipe when neither the table
\* nor the file was one.
LEMMA PutsNoEnd ==
  ASSUME NEW t \in Seq(Place), NEW u, NEW a, NEW f, Puts(t, u, a, f), NoEnd(t),
         f # pipe[1], f # pipe[2], None # pipe[1], None # pipe[2]
  PROVE  NoEnd(u)
<1> SUFFICES ASSUME NEW i \in 1..Len(u) PROVE u[i] # pipe[1] /\ u[i] # pipe[2]
  BY Zenon DEF NoEnd
<1>1. Len(t) \in Nat /\ Len(u) \in Nat
  BY DEF Puts
<1>2. u[i] = f \/ u[i] = None \/ (i \in 1..Len(t) /\ u[i] = t[i])
  BY <1>1 DEF Puts
<1> QED BY Zenon, <1>2 DEF NoEnd

\* A call that puts one file in one place, none that was only in other tables.
LEMMA PutsEndInv ==
  ASSUME FdInv, EndInv, NEW p \in live, NEW u, NEW a, NEW f, Puts(fd_table[p], u, a, f),
         fd_table' = [fd_table EXCEPT ![p] = u],
         pipe' = pipe, kin' = kin, live' = live, files' \in Nat, files <= files',
         pipe # <<>> /\ f \in {pipe[1], pipe[2]} => Count(fd_table[p], f) > 0
  PROVE  EndInv'
<1>1. kin' \subseteq live'
  BY Zenon DEF EndInv
<1>2. ASSUME pipe # <<>>
      PROVE  /\ pipe[1] \in 1..files' /\ pipe[2] \in 1..files' /\ pipe[1] # pipe[2]
             /\ \A q \in Task \ kin : NoEnd(fd_table'[q])
  <2>1. /\ pipe[1] \in 1..files' /\ pipe[2] \in 1..files' /\ pipe[1] # pipe[2]
        /\ None # pipe[1] /\ None # pipe[2]
    BY <1>2, FdAssumption DEF EndInv, FdInv
  <2>2. ASSUME NEW q \in Task \ kin PROVE NoEnd(fd_table'[q])
    <3>0. NoEnd(fd_table[q])
      BY Zenon, <1>2 DEF EndInv
    <3>1. CASE q = p
      <4>1. fd_table'[q] = u /\ fd_table[p] \in Seq(Place) /\ Len(fd_table[p]) \in Nat
        BY <3>1 DEF FdInv, Table
      <4>2. f # pipe[1] /\ f # pipe[2]
        <5>1. Count(fd_table[p], pipe[1]) = 0 /\ Count(fd_table[p], pipe[2]) = 0
          BY Zenon, <3>0, <3>1, <4>1, CountType DEF NoEnd
        <5>2. ~(0 > 0)
          OBVIOUS
        <5> QED BY Zenon, <1>2, <5>1, <5>2
      <4> QED BY Zenon, <2>1, <3>0, <3>1, <4>1, <4>2, PutsNoEnd
    <3>2. CASE q # p
      <4>1. fd_table'[q] = fd_table[q]
        BY <3>2, Zenon DEF FdInv
      <4> QED BY Zenon, <3>0, <4>1
    <3> QED BY Zenon, <3>1, <3>2
  <2> QED BY Zenon, <2>1, <2>2
<1> QED BY <1>1, <1>2 DEF EndInv, NoEnd

\* A file of an open descriptor is counted.
LEMMA OpenCounts ==
  ASSUME NEW t \in Seq(Place), NEW fd \in 1..Len(t)
  PROVE  Count(t, t[fd]) > 0
<1> DEFINE c == Count(t, t[fd])
<1>1. Len(t) \in Nat
  OBVIOUS
<1>2. c \in 0..Len(t) /\ c # 0
  BY Zenon, <1>1, CountType
<1> HIDE DEF c
<1> QED BY <1>1, <1>2 DEF c

\* A call on the ends: it keeps EndInv and is a step of Pipe or none.
AsInPipe == EndInv' /\ (pipe # <<>> => View!Next \/ UNCHANGED View!vars)

LEMMA PutsAsInPipe ==
  ASSUME FdInv, EndInv, NEW p \in live, NEW u, NEW a, NEW f, Puts(fd_table[p], u, a, f),
         Len(u) <= MaxFds, fd_table' = [fd_table EXCEPT ![p] = u],
         pipe' = pipe, kin' = kin, live' = live, files' \in Nat, files <= files',
         pipe # <<>> /\ f \in {pipe[1], pipe[2]} => Count(fd_table[p], f) > 0
  PROVE  AsInPipe
BY Zenon, PutsEndInv, PutsView DEF AsInPipe

LEMMA OpenatEnds ==
  ASSUME FdInv, EndInv, NEW p \in live, sys_openat(p) PROVE AsInPipe
<1> DEFINE t == fd_table[p]
          u == Filled(t, files + 1)
<1>1. /\ p \in Task /\ files \in Nat /\ files + 1 \in 1..MaxFiles /\ files' = files + 1
      /\ Table(t, files) /\ Len(u) <= MaxFds /\ fd_table' = [fd_table EXCEPT ![p] = u]
      /\ live' = live /\ pipe' = pipe /\ kin' = kin
  BY FdAssumption DEF FdInv, sys_openat, Set
<1>2. t \in Seq(Place) /\ files + 1 \in Place
  BY <1>1, Zenon DEF Table, Place
<1>3. Puts(t, u, alloc_fd(t), files + 1)
  BY Zenon, <1>2, FilledPuts
<1>4. pipe # <<>> => files + 1 \notin {pipe[1], pipe[2]}
  BY <1>1 DEF EndInv
<1>5. files' \in Nat /\ files <= files'
  BY <1>1
<1> HIDE DEF t, u
<1> QED BY Zenon, <1>1, <1>3, <1>4, <1>5, PutsAsInPipe DEF t

LEMMA CloseEnds ==
  ASSUME FdInv, EndInv, NEW p \in live, NEW fd \in 1..MaxFds, sys_close(p, fd) PROVE AsInPipe
<1> DEFINE t == fd_table[p]
          u == [t EXCEPT ![fd] = None]
<1>1. /\ p \in Task /\ files \in Nat /\ files' = files /\ Table(t, files)
      /\ fd \in 1..Len(t) /\ Len(u) <= MaxFds /\ fd_table' = [fd_table EXCEPT ![p] = u]
      /\ live' = live /\ pipe' = pipe /\ kin' = kin
  BY FdAssumption DEF FdInv, sys_close, Set, Open
<1>2. Puts(t, u, fd, None)
  BY <1>1 DEF Puts, Table, Place
<1>3. pipe # <<>> => None \notin {pipe[1], pipe[2]}
  BY FdAssumption DEF EndInv, FdInv
<1>4. files' \in Nat /\ files <= files'
  BY <1>1
<1> HIDE DEF t, u
<1> QED BY Zenon, <1>1, <1>2, <1>3, <1>4, PutsAsInPipe DEF t

LEMMA DupEnds ==
  ASSUME FdInv, EndInv, NEW p \in live, NEW fd \in 1..MaxFds, sys_dup(p, fd) PROVE AsInPipe
<1> DEFINE t == fd_table[p]
          u == Filled(t, t[fd])
<1>1. /\ p \in Task /\ files \in Nat /\ files' = files /\ Table(t, files)
      /\ fd \in 1..Len(t) /\ Len(u) <= MaxFds /\ fd_table' = [fd_table EXCEPT ![p] = u]
      /\ live' = live /\ pipe' = pipe /\ kin' = kin
  BY FdAssumption DEF FdInv, sys_dup, Set, Open
<1>2. t \in Seq(Place) /\ t[fd] \in Place
  BY <1>1 DEF Table
<1>3. Puts(t, u, alloc_fd(t), t[fd])
  BY Zenon, <1>2, FilledPuts
<1>4. Count(t, t[fd]) > 0
  BY Zenon, <1>1, <1>2, OpenCounts
<1>5. files' \in Nat /\ files <= files'
  BY <1>1
<1> HIDE DEF t, u
<1> QED BY Zenon, <1>1, <1>3, <1>4, <1>5, PutsAsInPipe DEF t

LEMMA Dup3Ends ==
  ASSUME FdInv, EndInv, NEW p \in live, NEW fd \in 1..MaxFds, NEW newfd \in 1..MaxFds,
         sys_dup3(p, fd, newfd)
  PROVE  AsInPipe
<1> DEFINE t == fd_table[p]
          u == Dup3(t, fd, newfd)
<1>1. /\ p \in Task /\ files \in Nat /\ files' = files /\ Table(t, files)
      /\ fd \in 1..Len(t) /\ Len(u) <= MaxFds /\ fd_table' = [fd_table EXCEPT ![p] = u]
      /\ live' = live /\ pipe' = pipe /\ kin' = kin
  <2>1. Set(p, u)
    BY Zenon DEF sys_dup3, Dup3
  <2>2. Open(p, fd) /\ UNCHANGED <<live, files, pipe, kin>>
    BY Zenon DEF sys_dup3
  <2> HIDE DEF u
  <2> QED BY <2>1, <2>2, FdAssumption DEF FdInv, Set, Open
<1>2. t \in Seq(Place) /\ newfd \in Nat \ {0}
  BY <1>1, FdAssumption DEF Table
<1>3. Puts(t, u, newfd, t[fd])
  BY Zenon, <1>1, <1>2, Dup3Puts
<1>4. Count(t, t[fd]) > 0
  BY Zenon, <1>1, <1>2, OpenCounts
<1>5. files' \in Nat /\ files <= files'
  BY <1>1
<1> HIDE DEF t, u
<1> QED BY Zenon, <1>1, <1>3, <1>4, <1>5, PutsAsInPipe DEF t

LEMMA NoEndCounts ==
  ASSUME NEW t \in Seq(Place), NoEnd(t)
  PROVE  Count(t, pipe[1]) = 0 /\ Count(t, pipe[2]) = 0
<1>1. Len(t) \in Nat
  OBVIOUS
<1> QED BY Zenon, <1>1, CountType DEF NoEnd

\* The second pipe and those after it are other files; the first one is in no
\* table but that of its creator.
LEMMA Pipe2Ends ==
  ASSUME FdInv, EndInv, NEW p \in live, sys_pipe2(p) PROVE AsInPipe
<1> DEFINE t == fd_table[p]
          f == files + 1
          g == files + 2
          v == Filled(t, f)
          u == Filled(v, g)
<1>1. /\ p \in Task /\ files \in Nat /\ f \in 1..MaxFiles /\ g \in 1..MaxFiles /\ files' = files + 2
      /\ Table(t, files) /\ Len(u) <= MaxFds /\ fd_table' = [fd_table EXCEPT ![p] = u]
      /\ live' = live /\ f # None /\ g # None
  BY FdAssumption DEF FdInv, sys_pipe2, Set
<1>2. t \in Seq(Place) /\ f \in Place /\ g \in Place
  BY <1>1, Zenon DEF Table, Place
<1>3. Puts(t, v, alloc_fd(t), f)
  BY Zenon, <1>2, FilledPuts
<1> HIDE DEF v
<1>4. v \in Seq(Place)
  BY Zenon, <1>3 DEF Puts
<1>5. Puts(v, u, alloc_fd(v), g)
  BY Zenon, <1>2, <1>4, FilledPuts
<1> HIDE DEF u
<1>6. CASE pipe = <<>>
  <2>1. pipe' = <<f, g>> /\ kin' = {p}
    BY Zenon, <1>6 DEF sys_pipe2
  <2>2. ASSUME NEW q \in Task \ {p}, NEW i \in 1..Len(fd_table'[q])
        PROVE  fd_table'[q][i] # f /\ fd_table'[q][i] # g
    <3>1. fd_table'[q] = fd_table[q] /\ Table(fd_table[q], files)
      BY <1>1, Zenon DEF FdInv
    <3> DEFINE w == fd_table[q][i]
    <3>2. w \in 1..MaxFiles => w <= files
      BY Zenon, <3>1 DEF Table
    <3> HIDE DEF w
    <3>3. w # f /\ w # g
      BY <1>1, <3>2
    <3> QED BY Zenon, <3>1, <3>3 DEF w
  <2>3. pipe'[1] = f /\ pipe'[2] = g
    BY <2>1, Zenon
  <2>4. f \in 1..files' /\ g \in 1..files' /\ f # g
    BY <1>1
  <2>5. \A q \in Task \ kin' : NoEnd(fd_table[q])'
    BY Zenon, <2>1, <2>2, <2>3 DEF NoEnd
  <2>6. kin' \subseteq live'
    BY Zenon, <1>1, <2>1
  <2> QED BY Zenon, <1>6, <2>3, <2>4, <2>5, <2>6 DEF AsInPipe, EndInv
<1>7. CASE pipe # <<>>
  <2>1. pipe' = pipe /\ kin' = kin
    BY Zenon, <1>7 DEF sys_pipe2
  <2>2. /\ pipe[1] \in 1..files /\ pipe[2] \in 1..files /\ pipe[1] # pipe[2]
        /\ \A q \in Task \ kin : NoEnd(fd_table[q])
    BY Zenon, <1>7 DEF EndInv
  <2>3. /\ f # pipe[1] /\ f # pipe[2] /\ g # pipe[1] /\ g # pipe[2]
        /\ pipe[1] \in 1..files' /\ pipe[2] \in 1..files'
    BY <1>1, <2>2
  <2>4. None # pipe[1] /\ None # pipe[2]
    BY <2>2, FdAssumption DEF FdInv
  <2>5. ASSUME NEW q \in Task \ kin PROVE NoEnd(fd_table'[q])
    <3>1. CASE q = p
      <4> HIDE DEF f, g
      <4>1. NoEnd(v)
        BY Zenon, <1>2, <1>3, <2>2, <2>3, <2>4, <3>1, PutsNoEnd
      <4>2. NoEnd(u)
        BY Zenon, <1>4, <1>5, <2>3, <2>4, <4>1, PutsNoEnd
      <4>3. fd_table'[q] = u
        BY <1>1, <3>1, Zenon DEF FdInv
      <4> QED BY Zenon, <4>2, <4>3
    <3>2. CASE q # p
      <4>1. fd_table'[q] = fd_table[q]
        BY <1>1, <3>2, Zenon DEF FdInv
      <4> QED BY Zenon, <2>2, <4>1
    <3> QED BY Zenon, <3>1, <3>2
  <2>6. ASSUME NEW x, x # None, x # f, x # g PROVE Count(u, x) = Count(t, x)
    <3> HIDE DEF f, g, t
    <3>1. /\ Count(v, x) + One(Held(t, alloc_fd(t)) = x) = Count(t, x) + One(f = x)
          /\ Count(v, x) \in Nat /\ Count(t, x) \in Nat
      BY SMT, <1>2, <1>3, <2>6, CountPuts
    <3>2. /\ Count(u, x) + One(Held(v, alloc_fd(v)) = x) = Count(v, x) + One(g = x)
          /\ Count(u, x) \in Nat
      BY SMT, <1>4, <1>5, <2>6, CountPuts
    <3>3. Held(t, alloc_fd(t)) # x /\ Held(v, alloc_fd(v)) # x
      BY <1>2, <1>4, <2>6, AllocFd, Zenon DEF Held
    <3>4. /\ One(Held(t, alloc_fd(t)) = x) = 0 /\ One(Held(v, alloc_fd(v)) = x) = 0
          /\ One(f = x) = 0 /\ One(g = x) = 0
      BY Zenon, <2>6, <3>3 DEF One
    <3> QED BY <3>1, <3>2, <3>4
  <2>7. Count(u, pipe[1]) = Count(t, pipe[1]) /\ Count(u, pipe[2]) = Count(t, pipe[2])
    BY Zenon, <2>3, <2>4, <2>6
  <2>8. UNCHANGED View!vars
    BY Zenon, <1>1, <2>1, <2>7, SameView
  <2>9. kin' \subseteq live'
    BY Zenon, <1>1, <2>1 DEF EndInv
  <2>10. EndInv'
    BY <2>1, <2>2, <2>3, <2>5, <2>9, Zenon DEF EndInv, NoEnd
  <2> QED BY Zenon, <2>8, <2>10 DEF AsInPipe
<1> QED BY Zenon, <1>6, <1>7

\* EndInv after a step that leaves the pipe alone.
LEMMA EndInvKept ==
  ASSUME EndInv, pipe' = pipe, files' = files, kin' \subseteq live',
         pipe # <<>> => \A q \in Task \ kin' : NoEnd(fd_table'[q])
  PROVE  EndInv'
BY DEF EndInv, NoEnd

LEMMA ForkEnds ==
  ASSUME FdInv, EndInv, NEW p \in live, NEW c \in Task, fork(p, c) PROVE AsInPipe
<1> DEFINE u == fd_table[p]
<1>1. /\ p \in Task /\ u \in Seq(Place) /\ fd_table[c] \in Seq(Place)
      /\ fd_table' = [fd_table EXCEPT ![c] = u]
      /\ live' = live \union {c} /\ pipe' = pipe /\ files' = files
      /\ kin' = IF p \in kin THEN kin \union {c} ELSE kin
      /\ c \notin live /\ c \notin kin
  BY Zenon DEF FdInv, Table, EndInv, fork, Set
<1> HIDE DEF u
<1>2. kin' \subseteq live'
  BY Zenon, <1>1 DEF EndInv
<1>3. ASSUME pipe # <<>>, NEW q \in Task \ kin' PROVE NoEnd(fd_table'[q])
  <2>1. \A r \in Task \ kin : NoEnd(fd_table[r])
    BY Zenon, <1>3 DEF EndInv
  <2>2. q \notin kin /\ (q = c => p \notin kin)
    BY Zenon, <1>1, <1>3
  <2>3. CASE q = c
    <3>1. fd_table'[q] = fd_table[p]
      BY <1>1, <2>3, Zenon DEF FdInv, u
    <3> QED BY Zenon, <1>1, <2>1, <2>2, <2>3, <3>1
  <2>4. CASE q # c
    <3>1. fd_table'[q] = fd_table[q]
      BY <1>1, <2>4, Zenon DEF FdInv
    <3> QED BY Zenon, <2>1, <2>2, <3>1
  <2> QED BY Zenon, <2>3, <2>4
<1>4. EndInv'
  BY Zenon, <1>1, <1>2, <1>3, EndInvKept
<1>5. ASSUME pipe # <<>>, p \in kin PROVE View!Next
  <2>1. View!InUser(p)
    BY Zenon, <1>1, <1>5 DEF View!InUser
  <2> DEFINE op == [q \in Task |-> IF q \in kin THEN "user" ELSE "absent"]
  <2>2. op[c] = "absent"
    BY Zenon, <1>1
  <2>3. op' = [op EXCEPT ![c] = "user"]
    BY <1>1, <1>5, Zenon
  <2>4. /\ Ends(pipe[1])' = [Ends(pipe[1]) EXCEPT ![c] = Ends(pipe[1])[p]]
        /\ Ends(pipe[2])' = [Ends(pipe[2]) EXCEPT ![c] = Ends(pipe[2])[p]]
    <3>1. \A x : Ends(x)[p] = Count(u, x)
      BY Zenon, <1>1 DEF Ends, Count, u
    <3>2. /\ Ends(pipe[1])' = [Ends(pipe[1]) EXCEPT ![c] = Count(u, pipe[1])]
          /\ Ends(pipe[2])' = [Ends(pipe[2]) EXCEPT ![c] = Count(u, pipe[2])]
      BY Zenon, <1>1, EndsChange
    <3> QED BY SMT, <3>1, <3>2
  <2>5. UNCHANGED <<View!ringVars, [q \in Task |-> 0], 0, None, None, FALSE>>
    BY Zenon DEF View!ringVars
  <2>6. View!fork(p, c)
    BY Zenon, <2>1, <2>2, <2>3, <2>4, <2>5 DEF View!fork
  <2>7. View!UserStep(p)
    BY Zenon, <2>6 DEF View!UserStep
  <2> QED BY Zenon, <1>1, <2>7 DEF View!Next
<1>6. ASSUME pipe # <<>>, p \notin kin PROVE UNCHANGED View!vars
  <2>1. NoEnd(u) /\ NoEnd(fd_table[c])
    BY Zenon, <1>1, <1>6 DEF EndInv, u
  <2>2. /\ Count(u, pipe[1]) = 0 /\ Count(u, pipe[2]) = 0
        /\ Count(fd_table[c], pipe[1]) = 0 /\ Count(fd_table[c], pipe[2]) = 0
    BY Zenon, <1>1, <2>1, NoEndCounts
  <2>3. kin' = kin
    BY Zenon, <1>1, <1>6
  <2> QED BY Zenon, <1>1, <2>2, <2>3, SameView
<1> QED BY Zenon, <1>4, <1>5, <1>6 DEF AsInPipe

LEMMA SpawnEnds ==
  ASSUME FdInv, EndInv, NEW c \in Task, spawn(c) PROVE AsInPipe
<1>1. /\ fd_table[c] \in Seq(Place) /\ fd_table' = [fd_table EXCEPT ![c] = NewTable]
      /\ live' = live \union {c} /\ pipe' = pipe /\ files' = files /\ kin' = kin
      /\ c \notin kin
  BY Zenon DEF FdInv, Table, EndInv, spawn, Set
<1>2. kin' \subseteq live'
  BY Zenon, <1>1 DEF EndInv
<1>3. ASSUME pipe # <<>> PROVE NoEnd(NewTable)
  <2>1. Std # pipe[1] /\ Std # pipe[2]
    BY <1>3, FdAssumption DEF EndInv, FdInv
  <2> QED BY Zenon, <2>1, NewMaps DEF NoEnd
<1>4. ASSUME pipe # <<>>, NEW q \in Task \ kin' PROVE NoEnd(fd_table'[q])
  <2>1. fd_table'[q] = NewTable \/ fd_table'[q] = fd_table[q]
    BY <1>1, Zenon DEF FdInv
  <2> QED BY Zenon, <1>1, <1>3, <1>4, <2>1 DEF EndInv
<1>5. EndInv'
  BY Zenon, <1>1, <1>2, <1>4, EndInvKept
<1>6. ASSUME pipe # <<>> PROVE UNCHANGED View!vars
  <2>1. NoEnd(NewTable) /\ NoEnd(fd_table[c])
    BY Zenon, <1>1, <1>3, <1>6 DEF EndInv
  <2>2. /\ Count(NewTable, pipe[1]) = 0 /\ Count(NewTable, pipe[2]) = 0
        /\ Count(fd_table[c], pipe[1]) = 0 /\ Count(fd_table[c], pipe[2]) = 0
    BY Zenon, <1>1, <2>1, NewMaps, NoEndCounts
  <2> QED BY Zenon, <1>1, <2>2, SameView
<1> QED BY Zenon, <1>5, <1>6 DEF AsInPipe

LEMMA ExitEnds ==
  ASSUME FdInv, EndInv, NEW p \in live, exit(p) PROVE AsInPipe
<1>1. /\ p \in Task /\ fd_table[p] \in Seq(Place) /\ fd_table' = [fd_table EXCEPT ![p] = <<>>]
      /\ live' = live \ {p} /\ pipe' = pipe /\ files' = files /\ kin' = kin \ {p}
  BY Zenon DEF FdInv, Table, EndInv, exit, Set
<1>2. kin' \subseteq live'
  BY Zenon, <1>1 DEF EndInv
<1>3. NoEnd(<<>>) /\ <<>> \in Seq(Place)
  BY DEF NoEnd
<1>4. Count(<<>>, pipe[1]) = 0 /\ Count(<<>>, pipe[2]) = 0
  BY Zenon, <1>3, NoEndCounts
<1>5. ASSUME pipe # <<>>, NEW q \in Task \ kin' PROVE NoEnd(fd_table'[q])
  <2>1. \/ fd_table'[q] = <<>>
        \/ fd_table'[q] = fd_table[q] /\ q \notin kin
    BY <1>1, Zenon DEF FdInv
  <2> QED BY Zenon, <1>3, <1>5, <2>1 DEF EndInv
<1>6. EndInv'
  BY Zenon, <1>1, <1>2, <1>5, EndInvKept
<1>7. ASSUME pipe # <<>>, p \in kin PROVE View!Next
  <2>1. View!InUser(p)
    BY Zenon, <1>1, <1>7 DEF View!InUser
  <2> DEFINE op == [q \in Task |-> IF q \in kin THEN "user" ELSE "absent"]
  <2>2. op' = [op EXCEPT ![p] = "absent"]
    BY <1>1, <1>7, Zenon
  <2>3. /\ Ends(pipe[1])' = [Ends(pipe[1]) EXCEPT ![p] = 0]
        /\ Ends(pipe[2])' = [Ends(pipe[2]) EXCEPT ![p] = 0]
    <3>1. /\ Ends(pipe[1])' = [Ends(pipe[1]) EXCEPT ![p] = Count(<<>>, pipe[1])]
          /\ Ends(pipe[2])' = [Ends(pipe[2]) EXCEPT ![p] = Count(<<>>, pipe[2])]
      BY Zenon, <1>1, EndsChange
    <3> QED BY SMT, <1>4, <3>1
  <2>4. UNCHANGED <<View!ringVars, [q \in Task |-> 0], 0, None, None, FALSE>>
    BY Zenon DEF View!ringVars
  <2>5. View!exit(p)
    BY Zenon, <2>1, <2>2, <2>3, <2>4 DEF View!exit
  <2>6. View!UserStep(p)
    BY Zenon, <2>5 DEF View!UserStep
  <2> QED BY Zenon, <1>1, <2>6 DEF View!Next
<1>8. ASSUME pipe # <<>>, p \notin kin PROVE UNCHANGED View!vars
  <2>1. NoEnd(fd_table[p])
    BY Zenon, <1>1, <1>8 DEF EndInv
  <2>2. Count(fd_table[p], pipe[1]) = 0 /\ Count(fd_table[p], pipe[2]) = 0
    BY Zenon, <1>1, <2>1, NoEndCounts
  <2>3. kin' = kin
    BY Zenon, <1>1, <1>8
  <2> QED BY Zenon, <1>1, <1>4, <2>2, <2>3, SameView
<1> QED BY Zenon, <1>6, <1>7, <1>8 DEF AsInPipe

LEMMA EveryEnd == FdInv /\ EndInv /\ FdNext => AsInPipe
<1> SUFFICES ASSUME FdInv, EndInv, FdNext PROVE AsInPipe
  BY Zenon
<1>1. PICK p \in live :
        \/ sys_openat(p) \/ sys_pipe2(p) \/ exit(p)
        \/ \E fd \in 1..MaxFds : \/ sys_close(p, fd) \/ sys_dup(p, fd)
                                 \/ \E newfd \in 1..MaxFds : sys_dup3(p, fd, newfd)
        \/ \E c \in Task : fork(p, c) \/ spawn(c)
  BY Zenon DEF FdNext
<1>2. CASE sys_openat(p) \/ sys_pipe2(p) \/ exit(p)
  BY Zenon, <1>2, OpenatEnds, Pipe2Ends, ExitEnds
<1>3. ASSUME NEW fd \in 1..MaxFds,
             \/ sys_close(p, fd) \/ sys_dup(p, fd)
             \/ \E newfd \in 1..MaxFds : sys_dup3(p, fd, newfd)
      PROVE  AsInPipe
  BY Zenon, <1>3, CloseEnds, DupEnds, Dup3Ends
<1>4. ASSUME NEW c \in Task, fork(p, c) \/ spawn(c) PROVE AsInPipe
  BY Zenon, <1>4, ForkEnds, SpawnEnds
<1> QED BY Zenon, <1>1, <1>2, <1>3, <1>4

\* Whatever the calls do to the tables, to the ends of a pipe it is one of the
\* steps of module Pipe or no step: the counts of descriptors that Pipe keeps
\* in place of the tables leave nothing out.
THEOREM EndsAreAsInPipe == FdSpec => EndsAsInPipe
<1>1. FdInit => EndInv
  BY Zenon DEF FdInit, EndInv
<1>2. FdInv /\ EndInv /\ [FdNext]_fdVars => EndInv'
  <2>1. EndInv /\ UNCHANGED fdVars => EndInv'
    BY Zenon DEF EndInv, fdVars, NoEnd
  <2> QED BY Zenon, <2>1, EveryEnd DEF AsInPipe
<1>3. FdInv /\ EndInv /\ [FdNext]_fdVars
        => [pipe # <<>> => View!Next \/ UNCHANGED View!vars]_fdVars
  BY Zenon, EveryEnd DEF AsInPipe
<1> QED BY <1>1, <1>2, <1>3, FdAlways, PTL DEF FdSpec, EndsAsInPipe
=============================================================================
