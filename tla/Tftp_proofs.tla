------------------------------ MODULE Tftp_proofs ------------------------------
(***************************************************************************)
(* Theorems about module Tftp, for every disk, every set of clients and a  *)
(* network that loses, repeats and delays as it likes: what the server     *)
(* holds, what it prints, where in a file it is, and what it sends.  The   *)
(* operators of Fat are recursive functions; what they compute is proved   *)
(* by induction over the naturals, which comes first.                      *)
(***************************************************************************)
EXTENDS Tftp, SequenceTheorems, FiniteSetTheorems, WellFoundedInduction, TLAPS

-----------------------------------------------------------------------------
(* Induction and recursion over the naturals.                              *)

\* The least of a set of numbers: the first counterexample of a proof by induction,
\* and what the scan of a table finds.
LEMMA NatMin ==
  ASSUME NEW S \in SUBSET Nat, S # {}
  PROVE  \E n \in S : \A m \in S : n <= m
<1> DEFINE R == {ss \in Nat \X Nat : ss[1] < ss[2]}
<1>1. IsWellFoundedOn(R, Nat)
  BY NatLessThanWellFounded DEF OpToRel
<1> HIDE DEF R
<1>2. PICK x \in S : \A y \in S : ~(<<y, x>> \in R)
  BY <1>1, WFMin
<1>3. \A y \in S : ~(y < x) /\ y \in Nat /\ x \in Nat
  BY <1>2 DEF R
<1>4. QED
  BY <1>3

\* Induction, for the set of the numbers that have a property.
LEMMA Induction ==
  ASSUME NEW S \in SUBSET Nat, 0 \in S, \A n \in S : n + 1 \in S
  PROVE  S = Nat
<1> DEFINE bad == Nat \ S
<1> SUFFICES ASSUME bad # {} PROVE FALSE
  OBVIOUS
<1>1. PICK n \in bad : \A m \in bad : n <= m
  <2> HIDE DEF bad
  <2>1. bad \in SUBSET Nat
    BY DEF bad
  <2>2. QED
    BY <2>1, NatMin
<1>2. n # 0 /\ n - 1 \in Nat /\ n - 1 \in S
  BY <1>1
<1>3. n - 1 + 1 = n
  BY <1>1
<1>4. QED
  BY <1>1, <1>2, <1>3

\* A function that is given by its first value and by the step from each value to the
\* next exists, and has its values where the steps stay.
LEMMA Recursion ==
  ASSUME NEW S, NEW a \in S, NEW step \in [Nat -> [S -> S]]
  PROVE  \E g \in [Nat -> S] :
           g = [n \in Nat |-> IF n = 0 THEN a ELSE step[n][g[n - 1]]]
<1> DEFINE Starts(k, h) == /\ h \in [0 .. k -> S] /\ h[0] = a
                           /\ \A i \in 1 .. k : h[i] = step[i][h[i - 1]]
<1>0. \A i \in Nat, s \in S : step[i][s] \in S
  OBVIOUS
<1>1. \A k \in Nat : \E h : Starts(k, h)
  <2> DEFINE bad == {k \in Nat : ~\E h : Starts(k, h)}
  <2> SUFFICES ASSUME bad # {} PROVE FALSE
    OBVIOUS
  <2>0. bad \in SUBSET Nat
    OBVIOUS
  <2> HIDE DEF bad
  <2>1. PICK k \in bad : \A m \in bad : k <= m
    BY <2>0, NatMin
  <2>2. CASE k = 0
    <3> DEFINE h == [i \in 0 .. 0 |-> a]
    <3>1. Starts(0, h)
      OBVIOUS
    <3>2. 0 \notin bad
      BY <3>1 DEF bad
    <3>3. QED
      BY <2>1, <2>2, <3>2
  <2>3. CASE k # 0
    <3>1. k \in Nat /\ k - 1 \in Nat /\ k - 1 \notin bad
      BY <2>0, <2>1, <2>3
    <3> USE DEF bad
    <3> HIDE DEF Starts
    <3>2. PICK f : Starts(k - 1, f)
      BY <3>1
    <3> USE DEF Starts
    <3> DEFINE h == [i \in 0 .. k |-> IF i = k THEN step[k][f[k - 1]] ELSE f[i]]
    <3>3. f[k - 1] \in S /\ step[k][f[k - 1]] \in S
      BY <1>0, <3>1, <3>2
    <3>4. h \in [0 .. k -> S]
      BY <3>1, <3>2, <3>3
    <3>5. \A i \in 1 .. k : h[i] = step[i][h[i - 1]]
      <4> TAKE i \in 1 .. k
      <4>1. i - 1 \in 0 .. k /\ i - 1 # k /\ h[i - 1] = f[i - 1]
        BY <3>1
      <4>2. CASE i = k
        BY <3>1, <4>1, <4>2
      <4>3. CASE i # k
        BY <3>1, <3>2, <4>1, <4>3
      <4>4. QED
        BY <4>2, <4>3
    <3>6. h[0] = a
      BY <2>3, <3>1, <3>2
    <3>7. QED
      BY <2>1, <3>4, <3>5, <3>6
  <2>4. QED
    BY <2>2, <2>3
<1>2. ASSUME NEW k \in Nat, NEW m \in Nat, k <= m, NEW f, NEW h, Starts(k, f), Starts(m, h),
             NEW i \in 0 .. k
      PROVE  f[i] = h[i]
  <2> DEFINE bad == {j \in 0 .. k : f[j] # h[j]}
  <2> SUFFICES ASSUME bad # {} PROVE FALSE
    OBVIOUS
  <2>1. bad \in SUBSET Nat
    OBVIOUS
  <2> HIDE DEF bad
  <2>2. PICK j \in bad : \A l \in bad : j <= l
    BY <2>1, NatMin
  <2> USE DEF bad
  <2>3. j # 0
    BY <1>2, <2>2
  <2>4. j - 1 \in 0 .. k /\ j - 1 \notin bad /\ j \in 1 .. k /\ j \in 1 .. m
    BY <1>2, <2>2, <2>3
  <2>5. f[j] = step[j][f[j - 1]] /\ h[j] = step[j][h[j - 1]]
    BY <1>2, <2>4
  <2>6. QED
    BY <2>2, <2>4, <2>5
<1> DEFINE pick(k) == CHOOSE h : Starts(k, h)
<1>3. \A k \in Nat : Starts(k, pick(k))
  <2> HIDE DEF Starts
  <2> QED BY <1>1
<1> DEFINE g == [n \in Nat |-> pick(n)[n]]
<1> HIDE DEF pick
<1>4. ASSUME NEW n \in Nat
      PROVE  /\ g[n] \in S
             /\ g[n] = IF n = 0 THEN a ELSE step[n][g[n - 1]]
  <2>1. g[n] = pick(n)[n] /\ Starts(n, pick(n))
    BY <1>3
  <2>2. g[n] \in S
    BY <2>1
  <2>3. CASE n = 0
    BY <2>1, <2>2, <2>3
  <2>4. CASE n # 0
    <3>1. n - 1 \in Nat /\ n - 1 <= n /\ n \in 1 .. n /\ n - 1 \in 0 .. n - 1
      BY <2>4
    <3>2. Starts(n - 1, pick(n - 1))
      BY <1>3, <3>1
    <3>3. pick(n - 1)[n - 1] = pick(n)[n - 1]
      <4> HIDE DEF Starts
      <4> QED BY <1>2, <2>1, <3>1, <3>2
    <3>4. g[n - 1] = pick(n - 1)[n - 1]
      BY <3>1
    <3>5. pick(n)[n] = step[n][pick(n)[n - 1]]
      BY <2>1, <3>1
    <3>6. QED
      BY <2>1, <2>2, <2>4, <3>3, <3>4, <3>5
  <2>5. QED
    BY <2>3, <2>4
<1> HIDE DEF g
<1>5. g \in [Nat -> S] /\ g = [n \in Nat |-> IF n = 0 THEN a ELSE step[n][g[n - 1]]]
  <2>1. g = [n \in Nat |-> g[n]]
    BY DEF g
  <2>2. QED
    BY <1>4, <2>1
<1>6. QED
  BY <1>5

-----------------------------------------------------------------------------
(* The file system: directories, paths and open files.                     *)

\* What a lookup can find.
OnDisk ==
  {Root[i] : i \in DOMAIN Root}
  \union {Directories[ci[1]][ci[2]] : ci \in Clusters \X (1 .. DirSize)}
  \union {NoEntry, RootEntry}

\* What is on the disk has a cluster and a size (FatAssumption).
LEMMA OnDiskType ==
  ASSUME NEW entry \in OnDisk
  PROVE  entry.first \in Nat /\ entry.size \in Nat
<1>1. ASSUME NEW i \in DOMAIN Root, entry = Root[i]
      PROVE  entry.first \in Nat /\ entry.size \in Nat
  BY <1>1, FatAssumption
<1>2. ASSUME NEW c \in Clusters, NEW i \in 1 .. DirSize, entry = Directories[c][i]
      PROVE  entry.first \in Nat /\ entry.size \in Nat
  BY <1>2, FatAssumption
<1>3. NoEntry.first \in Nat /\ NoEntry.size \in Nat /\ RootEntry.first \in Nat /\ RootEntry.size \in Nat
  BY DEF NoEntry, RootEntry
<1>4. QED
  BY <1>1, <1>2, <1>3 DEF OnDisk

\* The next cluster is a number, and never that of the root directory.
LEMMA NextClusterType ==
  ASSUME NEW c
  PROVE  NextCluster(c) \in Nat /\ NextCluster(c) # 0
<1>1. CASE c \in Clusters
  <2>1. FatTable[c] \in Clusters \union Markers
    BY <1>1, FatAssumption
  <2>2. ClusterCount \in Nat \ {0}
    BY FatAssumption
  <2>3. QED
    BY <1>1, <2>1, <2>2
    DEF NextCluster, Clusters, Markers, ClusterFree, ClusterReserved, ClusterBad, ClusterLast,
        ClusterEnd
<1>2. CASE c \notin Clusters
  BY <1>2 DEF NextCluster
<1>3. QED
  BY <1>1, <1>2

\* An entry is read from a place that is on the disk (fat.c:534).
LEMMA EntryAtOnDisk ==
  ASSUME NEW c \in Nat, NEW i \in Nat, c = 0 => i < Len(Root)
  PROVE  EntryAt(c, i) \in OnDisk
<1>1. CASE c = 0
  <2>1. i + 1 \in DOMAIN Root
    BY <1>1, FatAssumption
  <2>2. QED
    BY <1>1, <2>1 DEF EntryAt, OnDisk
<1>2. CASE c # 0
  <2> DEFINE d == c + i \div DirSize
             j == (i % DirSize) + 1
  <2>1. j \in 1 .. DirSize
    BY FatAssumption
  <2>2. EntryAt(c, i) = IF d \in Clusters THEN Directories[d][j] ELSE NoEntry
    BY <1>2 DEF EntryAt
  <2>3. d \in Clusters => Directories[d][j] \in OnDisk
    <3> HIDE DEF d, j
    <3>1. SUFFICES ASSUME d \in Clusters PROVE Directories[d][j] \in OnDisk
      OBVIOUS
    <3>2. <<d, j>> \in Clusters \X (1 .. DirSize)
      BY <2>1, <3>1
    <3>3. QED
      BY <3>2 DEF OnDisk
  <2>4. NoEntry \in OnDisk
    BY DEF OnDisk
  <2> HIDE DEF d, j
  <2>5. QED
    BY <2>2, <2>3, <2>4
<1>3. QED
  BY <1>1, <1>2

\* The two recursions of Listing, by name.
Places(first) ==
  LET place[n \in Nat] ==
        IF n = 0 THEN [cluster |-> first, index |-> 0] ELSE Turn(place[n - 1])
  IN  place

Listed(first) ==
  LET place[n \in Nat] ==
        IF n = 0 THEN [cluster |-> first, index |-> 0] ELSE Turn(place[n - 1])
      list[n \in Nat] ==
        IF n = 0 THEN <<>>
        ELSE IF place[n].cluster = 1 THEN list[n - 1]
        ELSE LET entry == EntryAt(place[n].cluster, place[n - 1].index)
             IN  IF Shown(entry) THEN Append(list[n - 1], entry) ELSE list[n - 1]
  IN  list

\* The places that fat_read_dir goes through are numbers, each found from the one
\* before.
LEMMA PlacesStep ==
  ASSUME NEW first \in Nat
  PROVE  /\ Places(first) \in [Nat -> [cluster : Nat, index : Nat]]
         /\ Places(first)[0] = [cluster |-> first, index |-> 0]
         /\ \A n \in Nat \ {0} : Places(first)[n] = Turn(Places(first)[n - 1])
<1> DEFINE S == [cluster : Nat, index : Nat]
           a == [cluster |-> first, index |-> 0]
           step == [n \in Nat |-> [p \in S |-> Turn(p)]]
           Is(g) == g = [n \in Nat |-> IF n = 0 THEN a ELSE Turn(g[n - 1])]
<1>1. \A p \in S : Turn(p) \in S
  BY NextClusterType DEF Turn
<1>2. a \in S /\ step \in [Nat -> [S -> S]]
  BY <1>1
<1> HIDE DEF S
<1>3. PICK g \in [Nat -> S] : g = [n \in Nat |-> IF n = 0 THEN a ELSE step[n][g[n - 1]]]
  <2> HIDE DEF a, step
  <2> QED BY <1>2, Recursion
<1>4. Is(g)
  <2>1. \A n \in Nat : g[n] = IF n = 0 THEN a ELSE Turn(g[n - 1])
    <3> HIDE DEF a
    <3>1. ASSUME NEW n \in Nat, n # 0 PROVE g[n - 1] \in S
      BY <1>3, <3>1
    <3> QED BY <1>3, <3>1
  <2> HIDE DEF a
  <2>2. QED
    BY <1>3, <2>1
<1>5. Places(first) = CHOOSE h : Is(h)
  BY DEF Places
<1>6. Is(Places(first))
  <2> HIDE DEF Is
  <2> QED BY <1>4, <1>5
<1> DEFINE P == Places(first)
<1> HIDE DEF P
<1>7. P = [n \in Nat |-> IF n = 0 THEN a ELSE Turn(P[n - 1])]
  BY <1>6 DEF P
<1>8. P[0] = a /\ \A n \in Nat \ {0} : P[n] = Turn(P[n - 1])
  <2> HIDE DEF a
  <2> QED BY <1>7
<1>9. P \in [Nat -> S]
  <2> DEFINE good == {n \in Nat : P[n] \in S}
  <2>1. 0 \in good
    BY <1>2, <1>8
  <2>2. ASSUME NEW n \in good PROVE n + 1 \in good
    <3>1. P[n + 1] = Turn(P[n])
      BY <1>8
    <3>2. QED
      BY <1>1, <3>1
  <2>3. good = Nat
    <3> HIDE DEF good
    <3>1. good \in SUBSET Nat
      BY DEF good
    <3>2. QED
      BY <2>1, <2>2, <3>1, Induction
  <2>4. QED
    BY <1>7, <2>3
<1>10. QED
  BY <1>8, <1>9 DEF P, S

\* An entry of the root directory is read only inside it (fat.c:519).
LEMMA PlacesInRoot ==
  ASSUME NEW first \in Nat, NEW n \in Nat \ {0}
  PROVE  Places(first)[n].cluster = 0 => Places(first)[n - 1].index < Len(Root)
<1> DEFINE place == Places(first)[n - 1]
<1>1. place \in [cluster : Nat, index : Nat] /\ Places(first)[n] = Turn(place)
  <2>1. n - 1 \in Nat
    OBVIOUS
  <2>2. Places(first) \in [Nat -> [cluster : Nat, index : Nat]] /\ Places(first)[n] = Turn(place)
    BY PlacesStep
  <2>3. QED
    BY <2>1, <2>2
<1> HIDE DEF place
<1>2. ASSUME Turn(place).cluster = 0
      PROVE  place.index < Len(Root)
  <2>1. CASE place.cluster = 0
    BY <1>1, <1>2, <2>1, NextClusterType, FatAssumption DEF Turn
  <2>2. CASE place.cluster # 0
    BY <1>1, <1>2, <2>2, NextClusterType DEF Turn
  <2>3. QED
    BY <2>1, <2>2
<1>3. QED
  BY <1>1, <1>2 DEF place

\* What fat_read_dir has listed after some turns is on the disk.
LEMMA ListedStep ==
  ASSUME NEW first \in Nat
  PROVE  Listed(first) \in [Nat -> Seq(OnDisk)]
<1> DEFINE S == Seq(OnDisk)
           P == Places(first)
           entry(n) == EntryAt(P[n].cluster, P[n - 1].index)
           next(n, x) == IF P[n].cluster = 1 THEN x
                         ELSE IF Shown(entry(n)) THEN Append(x, entry(n)) ELSE x
           step == [n \in Nat |-> [x \in S |-> IF n = 0 THEN x ELSE next(n, x)]]
           Is(g) == g = [n \in Nat |-> IF n = 0 THEN <<>> ELSE next(n, g[n - 1])]
<1>1. \A n \in Nat \ {0}, x \in S : next(n, x) \in S
  <2> TAKE n \in Nat \ {0}, x \in S
  <2>1. P[n] \in [cluster : Nat, index : Nat] /\ P[n - 1] \in [cluster : Nat, index : Nat]
    <3>1. P \in [Nat -> [cluster : Nat, index : Nat]]
      BY PlacesStep
    <3>2. n \in Nat /\ n - 1 \in Nat
      OBVIOUS
    <3> HIDE DEF P
    <3>3. QED
      BY <3>1, <3>2
  <2>2. entry(n) \in OnDisk
    BY <2>1, PlacesInRoot, EntryAtOnDisk
  <2> HIDE DEF entry, P
  <2>3. Append(x, entry(n)) \in S
    BY <2>2
  <2>4. QED
    BY <2>3
<1>2. <<>> \in S /\ step \in [Nat -> [S -> S]]
  <2> HIDE DEF next
  <2> QED BY <1>1
<1> HIDE DEF S, next
<1>3. PICK g \in [Nat -> S] : g = [n \in Nat |-> IF n = 0 THEN <<>> ELSE step[n][g[n - 1]]]
  <2> HIDE DEF step
  <2> QED BY <1>2, Recursion
<1>4. Is(g)
  <2>1. \A n \in Nat : g[n] = IF n = 0 THEN <<>> ELSE next(n, g[n - 1])
    <3>1. ASSUME NEW n \in Nat, n # 0 PROVE g[n - 1] \in S
      BY <1>3, <3>1
    <3> QED BY <1>3, <3>1
  <2>2. QED
    BY <1>3, <2>1
<1>5. Listed(first) = CHOOSE h : Is(h)
  BY DEF Listed, Places, next
<1>6. Is(Listed(first))
  <2> HIDE DEF Is
  <2> QED BY <1>4, <1>5
<1> DEFINE L == Listed(first)
<1> HIDE DEF L
<1>7. L = [n \in Nat |-> IF n = 0 THEN <<>> ELSE next(n, L[n - 1])]
  BY <1>6 DEF L
<1>8. L[0] = <<>> /\ \A n \in Nat : L[n + 1] = next(n + 1, L[n])
  <2>1. ASSUME NEW n \in Nat PROVE L[n + 1] = next(n + 1, L[n])
    <3>1. n + 1 \in Nat /\ n + 1 # 0 /\ n + 1 - 1 = n
      OBVIOUS
    <3>2. QED
      BY <1>7, <3>1
  <2>2. QED
    BY <1>7, <2>1
<1>9. L \in [Nat -> S]
  <2> DEFINE good == {n \in Nat : L[n] \in S}
  <2>1. 0 \in good
    BY <1>2, <1>8
  <2>2. ASSUME NEW n \in good PROVE n + 1 \in good
    BY <1>1, <1>8, <2>2
  <2>3. good = Nat
    <3> HIDE DEF good
    <3>1. good \in SUBSET Nat
      BY DEF good
    <3>2. QED
      BY <2>1, <2>2, <3>1, Induction
  <2>4. QED
    BY <1>7, <2>3
<1>10. QED
  BY <1>9 DEF L, S

\* Whatever directory is searched for whatever name, what is found is on the disk.
LEMMA FindOnDisk ==
  ASSUME NEW entry \in OnDisk, NEW name
  PROVE  Find(entry, name) \in OnDisk
<1> DEFINE list == Listing(entry.first)
           named == {i \in DOMAIN list : list[i].name = name}
<1>1. entry.first \in Nat
  BY OnDiskType
<1>2. list = Listed(entry.first)[Len(Root) + (DirSize + 1) * ClusterCount]
  BY Zenon DEF Listing, Listed
<1>3. Len(Root) + (DirSize + 1) * ClusterCount \in Nat
  BY FatAssumption
<1>4. list \in Seq(OnDisk)
  BY <1>1, <1>2, <1>3, ListedStep
<1> HIDE DEF list
<1>5. named # {} => list[Lowest(named)] \in OnDisk
  <2>1. SUFFICES ASSUME named # {} PROVE list[Lowest(named)] \in OnDisk
    OBVIOUS
  <2>2. named \in SUBSET Nat
    BY <1>4
  <2>3. \E i \in named : \A k \in named : i <= k
    <3> HIDE DEF named
    <3> QED BY <2>1, <2>2, NatMin
  <2>4. Lowest(named) \in named
    <3> HIDE DEF named
    <3> QED BY <2>3 DEF Lowest
  <2>5. QED
    BY <1>4, <2>4
<1>6. NoEntry \in OnDisk
  BY DEF OnDisk
<1>7. Find(entry, name) = IF entry.kind \notin {"dir", "volume"} \/ named = {} THEN NoEntry
                          ELSE list[Lowest(named)]
  BY Zenon DEF Find, list
<1> HIDE DEF named
<1>8. QED
  BY <1>5, <1>6, <1>7

Walk(path) ==
  LET at[n \in Nat] == IF n = 0 THEN RootEntry ELSE Find(at[n - 1], path[n])
  IN  at

\* So is what each part of a path leads to.
LEMMA WalkOnDisk ==
  ASSUME NEW path
  PROVE  \A n \in Nat : Walk(path)[n] \in OnDisk
<1> DEFINE S == OnDisk
           next(n, x) == Find(x, path[n])
           a == RootEntry
           step == [n \in Nat |-> [x \in S |-> next(n, x)]]
           Is(g) == g = [n \in Nat |-> IF n = 0 THEN a ELSE next(n, g[n - 1])]
<1>1. \A n \in Nat, x \in S : next(n, x) \in S
  BY FindOnDisk
<1>2. a \in S /\ step \in [Nat -> [S -> S]]
  <2>1. a \in S
    BY DEF OnDisk
  <2> HIDE DEF next, a
  <2> QED BY <1>1, <2>1
<1> HIDE DEF S, next
<1>3. PICK g \in [Nat -> S] : g = [n \in Nat |-> IF n = 0 THEN a ELSE step[n][g[n - 1]]]
  <2> HIDE DEF step, a, Is
  <2> QED BY <1>2, Recursion
<1>4. Is(g)
  <2>1. \A n \in Nat : g[n] = IF n = 0 THEN a ELSE next(n, g[n - 1])
    <3>1. ASSUME NEW n \in Nat, n # 0 PROVE g[n - 1] \in S
      BY <1>3, <3>1
    <3> QED BY <1>3, <3>1
  <2>2. QED
    BY <1>3, <2>1
<1>5. Walk(path) = CHOOSE h : Is(h)
  BY DEF Walk, next, a
<1>6. Is(Walk(path))
  <2> HIDE DEF Is
  <2> QED BY <1>4, <1>5
<1> DEFINE W == Walk(path)
<1> HIDE DEF W
<1>7. W = [n \in Nat |-> IF n = 0 THEN a ELSE next(n, W[n - 1])]
  BY <1>6 DEF W
<1>8. W[0] = a /\ \A n \in Nat : W[n + 1] = next(n + 1, W[n])
  <2>1. ASSUME NEW n \in Nat PROVE W[n + 1] = next(n + 1, W[n])
    <3>1. n + 1 \in Nat /\ n + 1 # 0 /\ n + 1 - 1 = n
      OBVIOUS
    <3>2. QED
      BY <1>7, <3>1
  <2>2. QED
    BY <1>7, <2>1
<1>9. \A n \in Nat : W[n] \in S
  <2> DEFINE good == {n \in Nat : W[n] \in S}
  <2>1. 0 \in good
    BY <1>2, <1>8
  <2>2. ASSUME NEW n \in good PROVE n + 1 \in good
    <3>1. W[n + 1] = next(n + 1, W[n]) /\ W[n] \in S /\ n + 1 \in Nat
      BY <1>8
    <3>2. QED
      BY <1>1, <3>1
  <2>3. good = Nat
    <3> HIDE DEF good
    <3>1. good \in SUBSET Nat
      BY DEF good
    <3>2. QED
      BY <2>1, <2>2, <3>1, Induction
  <2>4. QED
    BY <2>3
<1>10. QED
  BY <1>9 DEF S, W

\* A lookup ends on the disk too (fat.c:635).
LEMMA LookupOnDisk ==
  ASSUME NEW path, Len(path) \in Nat
  PROVE  Lookup(path) \in OnDisk
<1>1. Lookup(path) = Walk(path)[Len(path)]
  BY Zenon DEF Lookup, Walk
<1>2. QED
  BY <1>1, WalkOnDisk

\* An entry of fat_files.
FileType == [fs : BOOLEAN, first : Nat, size : Nat, current : Nat, offset : Nat,
             clusterOffset : 0 .. ClusterSize, fileCluster : Nat]

\* What a read or a seek never changes: which file it is.
SameFile(f, g) == f.fs = g.fs /\ f.first = g.first /\ f.size = g.size

\* What fat_fread has done after some units.
ReadType == [file : FileType, data : Seq(Nat \X Nat), failed : BOOLEAN]

\* One unit of a read keeps the form of the file, and which file it is.
LEMMA ReadOneType ==
  ASSUME NEW r \in ReadType
  PROVE  /\ ReadOne(r) \in ReadType
         /\ SameFile(ReadOne(r).file, r.file)
         /\ ReadOne(r).file.offset <= r.file.offset + 1
<1> DEFINE ended == r.file.clusterOffset >= ClusterSize
           file == IF ended
                   THEN [r.file EXCEPT !.clusterOffset = 0, !.fileCluster = @ + 1,
                                       !.current = NextCluster(@)]
                   ELSE r.file
<1>0. r.data \in Seq(Nat \X Nat)
  BY DEF ReadType
<1>1. ClusterSize \in Nat \ {0} /\ r.file \in FileType
  BY FatAssumption DEF ReadType
<1>2. /\ file \in FileType /\ file.clusterOffset < ClusterSize
      /\ SameFile(file, r.file) /\ file.offset = r.file.offset
  <2> DEFINE f == r.file
  <2>1. f \in FileType /\ NextCluster(f.current) \in Nat
    BY <1>1, NextClusterType
  <2>2. CASE ended
    <3>1. file = [f EXCEPT !.clusterOffset = 0, !.fileCluster = f.fileCluster + 1,
                           !.current = NextCluster(f.current)]
      BY <2>2
    <3> HIDE DEF f, file
    <3>2. file \in FileType /\ file.clusterOffset = 0
      <4>1. 0 \in 0 .. ClusterSize /\ f.fileCluster + 1 \in Nat
        BY <1>1, <2>1 DEF FileType
      <4>2. file = [fs |-> f.fs, first |-> f.first, size |-> f.size,
                    current |-> NextCluster(f.current), offset |-> f.offset,
                    clusterOffset |-> 0, fileCluster |-> f.fileCluster + 1]
        BY <2>1, <3>1 DEF FileType
      <4>3. QED
        BY <2>1, <4>1, <4>2 DEF FileType
    <3>3. SameFile(file, f) /\ file.offset = f.offset
      BY <2>1, <3>1 DEF FileType, SameFile
    <3>4. QED
      BY <1>1, <3>2, <3>3 DEF f
  <2>3. CASE ~ended
    BY <1>1, <2>3 DEF FileType, SameFile
  <2>4. QED
    BY <2>2, <2>3
<1> HIDE DEF file
<1>3. CASE r.failed
  <2>1. ReadOne(r) = r
    BY <1>3 DEF ReadOne
  <2>2. r.file.offset \in Nat
    BY <1>1 DEF FileType
  <2>3. QED
    BY <2>1, <2>2 DEF SameFile
<1>4. CASE ~r.failed /\ ended /\ file.current < 2
  <2>1. ReadOne(r) = [file |-> file, data |-> <<>>, failed |-> TRUE]
    BY <1>4 DEF ReadOne, file
  <2>2. ReadOne(r) \in ReadType
    BY <1>2, <2>1 DEF ReadType
  <2>3. file.offset \in Nat
    BY <1>2 DEF FileType
  <2>4. QED
    BY <1>2, <2>1, <2>2, <2>3
<1>5. CASE ~r.failed /\ ~(ended /\ file.current < 2)
  <2> DEFINE next == [file EXCEPT !.clusterOffset = @ + 1, !.offset = @ + 1]
             unit == <<file.current, file.clusterOffset>>
  <2>1. ReadOne(r) = [file |-> next, data |-> Append(r.data, unit), failed |-> FALSE]
    BY <1>5 DEF ReadOne, file
  <2>2. next \in FileType /\ SameFile(next, file) /\ next.offset = file.offset + 1
    <3>1. next = [file EXCEPT !.clusterOffset = file.clusterOffset + 1,
                              !.offset = file.offset + 1]
      OBVIOUS
    <3> HIDE DEF next
    <3>2. file.clusterOffset \in Nat /\ file.clusterOffset + 1 \in 0 .. ClusterSize
      BY <1>1, <1>2 DEF FileType
    <3>3. next = [fs |-> file.fs, first |-> file.first, size |-> file.size,
                  current |-> file.current, offset |-> file.offset + 1,
                  clusterOffset |-> file.clusterOffset + 1, fileCluster |-> file.fileCluster]
      BY <1>2, <3>1 DEF FileType
    <3>4. QED
      BY <1>2, <3>2, <3>3 DEF FileType, SameFile
  <2>3. unit \in Nat \X Nat
    BY <1>2 DEF FileType
  <2> HIDE DEF next, unit
  <2>4. Append(r.data, unit) \in Seq(Nat \X Nat)
    BY <1>0, <2>3
  <2>5. ReadOne(r) \in ReadType
    BY <2>1, <2>2, <2>4 DEF ReadType
  <2>6. SameFile(next, r.file) /\ next.offset <= r.file.offset + 1
    BY <1>1, <1>2, <2>2 DEF SameFile, FileType
  <2>7. QED
    BY <2>1, <2>5, <2>6
<1>6. QED
  BY <1>3, <1>4, <1>5

\* The recursion of FileRead, by name.
Reading(file) ==
  LET read[n \in Nat] ==
        IF n = 0 THEN [file |-> file, data |-> <<>>, failed |-> FALSE]
        ELSE ReadOne(read[n - 1])
  IN  read

\* The recursion of FileRead has a solution: its values, and each step between
\* them.
LEMMA ReadingStep ==
  ASSUME NEW file \in FileType
  PROVE  /\ Reading(file)[0] = [file |-> file, data |-> <<>>, failed |-> FALSE]
         /\ \A n \in Nat : /\ Reading(file)[n] \in ReadType
                           /\ Reading(file)[n + 1] = ReadOne(Reading(file)[n])
<1> DEFINE S == ReadType
           a == [file |-> file, data |-> <<>>, failed |-> FALSE]
           step == [n \in Nat |-> [r \in S |-> ReadOne(r)]]
           Is(g) == g = [n \in Nat |-> IF n = 0 THEN a ELSE ReadOne(g[n - 1])]
<1>1. \A r \in S : ReadOne(r) \in S
  BY ReadOneType
<1>2. a \in S /\ step \in [Nat -> [S -> S]]
  <2>1. a \in S
    BY DEF ReadType
  <2> HIDE DEF S, a
  <2>2. QED
    BY <1>1, <2>1
<1> HIDE DEF S, a
<1>3. PICK g \in [Nat -> S] : g = [n \in Nat |-> IF n = 0 THEN a ELSE step[n][g[n - 1]]]
  <2> HIDE DEF step
  <2> QED BY <1>2, Recursion, SMTT(30)
<1>4. Is(g)
  <2>1. \A n \in Nat : g[n] = IF n = 0 THEN a ELSE ReadOne(g[n - 1])
    <3>1. ASSUME NEW n \in Nat, n # 0 PROVE g[n - 1] \in S
      BY <1>3, <3>1
    <3> QED BY <1>3, <3>1
  <2>2. QED
    BY <1>3, <2>1
<1>5. Reading(file) = CHOOSE h : Is(h)
  BY DEF Reading, a
<1>6. Is(Reading(file))
  <2> HIDE DEF Is
  <2> QED BY <1>4, <1>5
<1> DEFINE R == Reading(file)
<1> HIDE DEF R
<1>7. R = [n \in Nat |-> IF n = 0 THEN a ELSE ReadOne(R[n - 1])]
  BY <1>6 DEF R
<1>8. R[0] = a /\ \A n \in Nat : R[n + 1] = ReadOne(R[n])
  <2>1. ASSUME NEW n \in Nat PROVE R[n + 1] = ReadOne(R[n])
    <3>1. n + 1 \in Nat /\ n + 1 # 0 /\ n + 1 - 1 = n
      OBVIOUS
    <3>2. QED
      BY <1>7, <3>1
  <2>2. QED
    BY <1>7, <2>1
<1>9. \A n \in Nat : R[n] \in S
  <2> DEFINE good == {n \in Nat : R[n] \in S}
  <2>1. 0 \in good
    BY <1>2, <1>8
  <2>2. ASSUME NEW n \in good PROVE n + 1 \in good
    BY <1>1, <1>8, <2>2
  <2>3. good = Nat
    <3> HIDE DEF good
    <3>1. good \in SUBSET Nat
      BY DEF good
    <3>2. QED
      BY <2>1, <2>2, <3>1, Induction
  <2>4. QED
    BY <2>3
<1>10. QED
  BY <1>8, <1>9 DEF R, S, a

\* Units are counted one by one.
LEMMA ReadingKeeps ==
  ASSUME NEW file \in FileType, NEW n \in Nat
  PROVE  /\ SameFile(Reading(file)[n].file, file)
         /\ Reading(file)[n].file.offset <= file.offset + n
<1> DEFINE R == Reading(file)
           good == {k \in Nat : /\ SameFile(R[k].file, file)
                                /\ R[k].file.offset <= file.offset + k}
<1>1. 0 \in good
  <2>0. R[0] = [file |-> file, data |-> <<>>, failed |-> FALSE]
    BY ReadingStep, Zenon
  <2>1. R[0].file = file
    BY <2>0
  <2>2. QED
    BY <2>1 DEF SameFile, FileType
<1>2. ASSUME NEW k \in good PROVE k + 1 \in good
  <2>0. k \in Nat /\ k + 1 \in Nat
    OBVIOUS
  <2>1. R[k] \in ReadType /\ R[k + 1] \in ReadType /\ R[k + 1] = ReadOne(R[k])
    BY <2>0, ReadingStep, Zenon
  <2> HIDE DEF R
  <2>2. SameFile(R[k + 1].file, R[k].file) /\ R[k + 1].file.offset <= R[k].file.offset + 1
    BY <2>1, ReadOneType
  <2>3. R[k].file.offset \in Nat /\ R[k + 1].file.offset \in Nat /\ file.offset \in Nat
    BY <2>1 DEF ReadType, FileType
  <2>4. R[k + 1].file.offset <= file.offset + (k + 1)
    BY <2>2, <2>3
  <2>5. QED
    BY <2>2, <2>4 DEF SameFile
<1>3. good = Nat
  <2> HIDE DEF good
  <2>1. good \in SUBSET Nat
    BY DEF good
  <2>2. QED
    BY <1>1, <1>2, <2>1, Induction
<1>4. QED
  BY <1>3

\* fat_fread leaves the file it read from, and does not go behind its end.
LEMMA FileReadType ==
  ASSUME NEW file \in FileType, NEW size \in Nat
  PROVE  /\ FileRead(file, size).file \in FileType
         /\ SameFile(FileRead(file, size).file, file)
         /\ FileRead(file, size).file.offset <= file.size
         /\ FileRead(file, size).data \in Seq(Nat \X Nat)
<1>0. file.offset \in Nat /\ file.size \in Nat
  BY DEF FileType
<1>1. CASE file.offset >= file.size
  <2>1. FileRead(file, size) = [file |-> [file EXCEPT !.offset = file.size], data |-> <<>>,
                                failed |-> FALSE]
    BY <1>1 DEF FileRead
  <2>2. QED
    BY <1>0, <2>1 DEF FileType, SameFile
<1>2. CASE ~(file.offset >= file.size)
  <2> DEFINE left == file.size - file.offset
             n == IF size < left THEN size ELSE left
  <2>1. left \in Nat \ {0} /\ left # 0 /\ n \in Nat /\ n <= left
    BY <1>0, <1>2
  <2>2. FileRead(file, size) = Reading(file)[n]
    <3> HIDE DEF left
    <3>1. left # 0
      BY <2>1
    <3>2. left = IF file.offset >= file.size THEN 0 ELSE file.size - file.offset
      BY <1>2 DEF left
    <3>3. QED
      BY <3>1, <3>2, Zenon DEF FileRead, Reading
  <2>3. Reading(file)[n] \in ReadType
    BY <2>1, ReadingStep
  <2>4. /\ SameFile(Reading(file)[n].file, file)
        /\ Reading(file)[n].file.offset <= file.offset + n
    BY <2>1, ReadingKeeps
  <2> HIDE DEF n
  <2>5. Reading(file)[n].file.offset <= file.size
    <3>1. Reading(file)[n].file.offset \in Nat
      BY <2>3 DEF ReadType, FileType
    <3>2. QED
      BY <1>0, <2>1, <2>4, <3>1
  <2>6. QED
    BY <2>2, <2>3, <2>4, <2>5 DEF ReadType
<1>3. QED
  BY <1>1, <1>2

\* The clusters from one on, as a seek walks along them.
Steps(c) ==
  LET walk[k \in Nat] == IF k = 0 THEN c ELSE NextCluster(walk[k - 1])
  IN  walk

\* The recursion of FileSeek has one, too.
LEMMA StepsStep ==
  ASSUME NEW c \in Nat
  PROVE  /\ Steps(c)[0] = c
         /\ \A k \in Nat : /\ Steps(c)[k] \in Nat
                           /\ Steps(c)[k + 1] = NextCluster(Steps(c)[k])
<1> DEFINE S == Nat
           a == c
           step == [n \in Nat |-> [x \in S |-> NextCluster(x)]]
           Is(g) == g = [k \in Nat |-> IF k = 0 THEN a ELSE NextCluster(g[k - 1])]
<1>1. \A x \in Nat : NextCluster(x) \in Nat
  BY NextClusterType
<1>2. a \in S /\ step \in [Nat -> [S -> S]]
  BY <1>1
<1>3. PICK g \in [Nat -> S] : g = [n \in Nat |-> IF n = 0 THEN a ELSE step[n][g[n - 1]]]
  <2> HIDE DEF S, a, step
  <2> QED BY <1>2, Recursion
<1>4. Is(g)
  <2>1. \A n \in Nat : g[n] = IF n = 0 THEN c ELSE NextCluster(g[n - 1])
    <3>1. ASSUME NEW n \in Nat, n # 0 PROVE g[n - 1] \in Nat
      BY <1>3, <3>1
    <3> QED BY <1>3, <3>1
  <2>2. QED
    BY <1>3, <2>1
<1>5. Steps(c) = CHOOSE h : Is(h)
  BY DEF Steps
<1>6. Is(Steps(c))
  <2> HIDE DEF Is
  <2> QED BY <1>4, <1>5
<1> DEFINE W == Steps(c)
<1> HIDE DEF W
<1>7. W = [k \in Nat |-> IF k = 0 THEN c ELSE NextCluster(W[k - 1])]
  BY <1>6 DEF W
<1>8. W[0] = c /\ \A n \in Nat : W[n + 1] = NextCluster(W[n])
  <2>1. ASSUME NEW n \in Nat PROVE W[n + 1] = NextCluster(W[n])
    <3>1. n + 1 \in Nat /\ n + 1 # 0 /\ n + 1 - 1 = n
      OBVIOUS
    <3>2. QED
      BY <1>7, <3>1
  <2>2. QED
    BY <1>7, <2>1
<1>9. \A n \in Nat : W[n] \in Nat
  <2> DEFINE good == {n \in Nat : W[n] \in Nat}
  <2>1. 0 \in good
    BY <1>8
  <2>2. ASSUME NEW n \in good PROVE n + 1 \in good
    BY <1>1, <1>8, <2>2
  <2>3. good = Nat
    <3> HIDE DEF good
    <3>1. good \in SUBSET Nat
      BY DEF good
    <3>2. QED
      BY <2>1, <2>2, <3>1, Induction
  <2>4. QED
    BY <2>3
<1>10. QED
  BY <1>8, <1>9 DEF W

\* fat_fseek leaves the file it walks in, wherever the walk ends.
LEMMA FileSeekType ==
  ASSUME NEW file \in FileType, NEW offset \in Nat
  PROVE  FileSeek(file, offset) \in FileType /\ SameFile(FileSeek(file, offset), file)
<1> DEFINE n == offset \div ClusterSize
           onwards == n >= file.fileCluster
           steps == IF onwards THEN n - file.fileCluster ELSE n
           c == IF onwards THEN file.current ELSE file.first
           counted == [file EXCEPT !.fileCluster = file.fileCluster + steps]
           o == offset % ClusterSize
           w == Steps(c)[steps]
           moved == [counted EXCEPT !.current = w, !.offset = offset, !.clusterOffset = o]
<1>1. ClusterSize \in Nat \ {0}
  BY FatAssumption
<1>2. n \in Nat /\ o \in 0 .. ClusterSize
  BY <1>1
<1>3. steps \in Nat /\ c \in Nat /\ file.fileCluster + steps \in Nat
  <2> HIDE DEF n
  <2> QED BY <1>2 DEF FileType
<1>4. w \in Nat
  BY <1>3, StepsStep
<1>5. FileSeek(file, offset) = IF w < 2 THEN counted ELSE moved
  BY Zenon DEF FileSeek, Steps
<1> HIDE DEF n, onwards, steps, c, o, w
<1>6. counted = [fs |-> file.fs, first |-> file.first, size |-> file.size,
                 current |-> file.current, offset |-> file.offset,
                 clusterOffset |-> file.clusterOffset, fileCluster |-> file.fileCluster + steps]
  BY DEF FileType
<1> HIDE DEF counted
<1>7. counted \in FileType /\ SameFile(counted, file)
  BY <1>3, <1>6 DEF FileType, SameFile
<1>a. moved = [counted EXCEPT !.current = w, !.offset = offset, !.clusterOffset = o]
  OBVIOUS
<1> HIDE DEF moved
<1>8. moved = [fs |-> file.fs, first |-> file.first, size |-> file.size,
               current |-> w, offset |-> offset, clusterOffset |-> o,
               fileCluster |-> file.fileCluster + steps]
  BY <1>2, <1>3, <1>4, <1>6, <1>7, <1>a DEF FileType
<1>9. moved \in FileType /\ SameFile(moved, file)
  BY <1>2, <1>3, <1>4, <1>8 DEF FileType, SameFile
<1>10. QED
  BY <1>5, <1>7, <1>9

\* fat_files, and the entries of it that are in use.
FileTable == [Handles -> FileType]
Open(fs) == {f \in Handles : fs[f].fs}
Inside(fs, f) == fs[f].offset <= fs[f].size

\* fat_fopen takes a free entry, or none (fat.c:330).
LEMMA FileForFree ==
  ASSUME NEW fs, NEW path, FileFor(fs, path) # NoFile
  PROVE  FileFor(fs, path) \in Handles /\ FileFor(fs, path) \notin Open(fs)
<1>1. FileFor(fs, path) = Lowest(FreeHandles(fs)) /\ FreeHandles(fs) # {}
  BY DEF FileFor
<1>2. FreeHandles(fs) \in SUBSET Nat
  BY FatAssumption DEF FreeHandles, Handles
<1>3. \E f \in FreeHandles(fs) : \A g \in FreeHandles(fs) : f <= g
  BY <1>1, <1>2, NatMin
<1>4. Lowest(FreeHandles(fs)) \in FreeHandles(fs)
  BY <1>3 DEF Lowest
<1>5. QED
  BY <1>1, <1>4 DEF FreeHandles, Open

\* Opening a file takes one entry of fat_files, at the beginning of the file.
LEMMA FileOpenType ==
  ASSUME NEW fs \in FileTable, NEW path, Len(path) \in Nat, FileFor(fs, path) # NoFile
  PROVE  /\ FileOpen(fs, path) \in FileTable
         /\ Open(FileOpen(fs, path)) = Open(fs) \union {FileFor(fs, path)}
         /\ \A f \in Handles : Inside(fs, f) => Inside(FileOpen(fs, path), f)
         /\ FileOpen(fs, path)[FileFor(fs, path)] =
              [fs |-> TRUE, first |-> Lookup(path).first, size |-> Lookup(path).size,
               current |-> Lookup(path).first, offset |-> 0, clusterOffset |-> 0,
               fileCluster |-> 0]
<1> DEFINE h == FileFor(fs, path)
           first == Lookup(path).first
           size == Lookup(path).size
           new == [ClosedFile EXCEPT !.fs = TRUE, !.first = first, !.size = size,
                                     !.current = first]
<1>1. first \in Nat /\ size \in Nat
  BY LookupOnDisk, OnDiskType
<1>2. FileOpen(fs, path) = [fs EXCEPT ![h] = new] /\ h \in Handles
  BY FileForFree DEF FileOpen
<1> HIDE DEF h, first, size
<1>9. ClosedFile \in FileType
  BY FatAssumption DEF FileType, ClosedFile
<1>3. new = [fs |-> TRUE, first |-> first, size |-> size, current |-> first,
             offset |-> 0, clusterOffset |-> 0, fileCluster |-> 0]
  <2>1. /\ ClosedFile.offset = 0 /\ ClosedFile.clusterOffset = 0
        /\ ClosedFile.fileCluster = 0
    BY DEF ClosedFile
  <2>2. new = [ClosedFile EXCEPT !.fs = TRUE, !.first = first, !.size = size,
                                 !.current = first]
    OBVIOUS
  <2> HIDE DEF new
  <2>3. QED
    BY <1>1, <1>9, <2>1, <2>2 DEF FileType
<1> HIDE DEF new
<1>4. new \in FileType /\ new.fs /\ new.offset <= new.size
  BY <1>1, <1>3, FatAssumption DEF FileType
<1>5. FileOpen(fs, path) \in FileTable
  BY <1>2, <1>4 DEF FileTable
<1>6. Open(FileOpen(fs, path)) = Open(fs) \union {h}
  BY <1>2, <1>4 DEF FileTable, Open
<1>7. \A f \in Handles : Inside(fs, f) => Inside(FileOpen(fs, path), f)
  BY <1>2, <1>4 DEF FileTable, Inside
<1>8. FileOpen(fs, path)[h] = new
  BY <1>2 DEF FileTable
<1>10. QED
  BY <1>3, <1>5, <1>6, <1>7, <1>8 DEF h, first, size

\* Closing gives one back, whatever handle fat_fclose is given.
LEMMA FileCloseType ==
  ASSUME NEW fs \in FileTable, NEW h
  PROVE  /\ FileClose(fs, h) \in FileTable
         /\ Open(FileClose(fs, h)) = Open(fs) \ {h}
         /\ \A f \in Handles : f = h \/ Inside(fs, f) => Inside(FileClose(fs, h), f)
<1>1. ClosedFile \in FileType /\ ~ClosedFile.fs /\ ClosedFile.offset <= ClosedFile.size
  BY FatAssumption DEF FileType, ClosedFile
<1>2. CASE h \in Handles
  <2>1. FileClose(fs, h) = [fs EXCEPT ![h] = ClosedFile]
    BY <1>2 DEF FileClose
  <2>2. QED
    BY <1>1, <1>2, <2>1 DEF FileTable, Open, Inside
<1>3. CASE h \notin Handles
  BY <1>3 DEF FileClose, Open
<1>4. QED
  BY <1>2, <1>3

\* What a read or a seek leaves in the table.
LEMMA FileUpdateType ==
  ASSUME NEW fs \in FileTable, NEW h \in Handles, NEW file \in FileType, SameFile(file, fs[h])
  PROVE  /\ [fs EXCEPT ![h] = file] \in FileTable
         /\ Open([fs EXCEPT ![h] = file]) = Open(fs)
BY DEF FileTable, Open, SameFile

-----------------------------------------------------------------------------
(* The server.                                                             *)

ServerType == [socket : UdpSockets, file : Handles \union {NoFile}, state : TftpStates,
               mode : {"none", "octet", "mail"}, lastBlock : Nat]

SocketTable ==
  [UdpSockets -> [callback : {NoCallback, "tftpd"}, portLocal : {0, TFTP_UDP_PORT},
                  portRemote : Ports \union {0}, ipRemote : {Client, ZeroIp}]]

\* One socket of the table has the port of the service, and it is the server's.
OwnSocket(t, u) == \A s \in UdpSockets : u[s].portLocal = TFTP_UDP_PORT => s = t.socket

\* What is printed comes in order, and from one client.
InOrder(pr) ==
  \A i, j \in DOMAIN pr : i < j => pr[i][1] = pr[j][1] /\ pr[i][2] < pr[j][2]

\* While it receives, that client is the one the socket is bound to, and nothing
\* above the last block has been printed.
WriterBound(t, u, pr) ==
  t.state = "receiving" =>
    /\ u[t.socket].portRemote \in Ports
    /\ \A i \in DOMAIN pr : pr[i][1] = u[t.socket].portRemote /\ pr[i][2] <= t.lastBlock

\* The state of the server, of its socket, of the files and of what is printed.
ServerOK(t, u, fs, pr) ==
  /\ t \in ServerType
  /\ u \in SocketTable /\ OwnSocket(t, u)
  /\ fs \in FileTable /\ \A f \in Handles : Inside(fs, f)
  /\ Open(fs) = IF t.state = "sending" THEN {t.file} ELSE {}
  /\ pr \in Seq(Ports \X Nat) /\ InOrder(pr) /\ WriterBound(t, u, pr)

\* The messages: requests for files, and acknowledgments, come from readers.
ToServerOK(M) ==
  \A m \in M : /\ m.from \in Ports /\ m.block \in Nat
               /\ m.type \in {"RRQ", "WRQ", "DATA", "ACK", "ERROR"}
               /\ m.type \in {"RRQ", "ACK"} => m.from \in DOMAIN Readers

ToClientOK(M) ==
  \A m \in M : m.to \in Ports /\ m.block \in Nat /\ m.type \in {"DATA", "ACK", "ERROR"}

\* The inductive invariant.
IInv ==
  /\ ServerOK(tftpd, sockets, files, printed)
  /\ ToServerOK(toServer) /\ ToClientOK(toClient)
  /\ got \in [Ports -> Nat]
  /\ disorder \subseteq DOMAIN Readers /\ done \subseteq DOMAIN Readers

\* What the invariant is for.
LEMMA InvariantImplies ==
  ASSUME IInv
  PROVE  TypeOK /\ OneWriterInOrder /\ FileHeld
<1>1. TypeOK
  <2>1. \A f \in Handles : /\ files[f].fs \in BOOLEAN /\ files[f].offset \in 0 .. files[f].size
                           /\ files[f].clusterOffset \in 0 .. ClusterSize
    BY DEF IInv, ServerOK, FileTable, FileType, Inside
  <2>2. QED
    BY <2>1 DEF IInv, ServerOK, ServerType, SocketTable, ToServerOK, ToClientOK, TypeOK
<1>2. OneWriterInOrder
  BY DEF IInv, ServerOK, InOrder, OneWriterInOrder
<1>3. FileHeld
  BY DEF IInv, ServerOK, Open, FileHeld
<1>4. QED
  BY <1>1, <1>2, <1>3

PortsAreNumbers == Ports \in SUBSET (Nat \ {0})

\* No client has the port 0 of a socket that is not bound.
LEMMA PortsType == PortsAreNumbers
BY TftpAssumption DEF Ports, PortsAreNumbers

\* tftpd_init leaves the server listening, its socket alone with port 69.
LEMMA InitOK ==
  ASSUME Init
  PROVE  IInv
<1> DEFINE s == Lowest(FreeSockets(NoSockets))
<1>1. NoSockets \in SocketTable /\ \A r \in UdpSockets : NoSockets[r].portLocal = 0 /\ ~Used(NoSockets, r)
  BY DEF NoSockets, EmptySocket, SocketTable, Used
<1>2. FreeSockets(NoSockets) = UdpSockets /\ IsFreePort(NoSockets, TFTP_UDP_PORT)
  BY <1>1 DEF FreeSockets, IsFreePort
<1>3. UdpSockets \in SUBSET Nat /\ UdpSockets # {}
  <2>1. 0 \in UdpSockets
    BY UdpAssumption DEF UdpSockets
  <2>2. QED
    BY <2>1, UdpAssumption DEF UdpSockets
<1>4. s \in UdpSockets
  <2>1. \E r \in UdpSockets : \A q \in UdpSockets : r <= q
    BY <1>3, NatMin
  <2>2. QED
    BY <1>2, <2>1 DEF Lowest
<1> DEFINE e == [EmptySocket EXCEPT !.callback = "tftpd", !.portLocal = IF TFTP_UDP_PORT = PortAny THEN FreeLocalPort(NoSockets)
                                                     ELSE TFTP_UDP_PORT]
<1>5. /\ SocketFor(NoSockets, TFTP_UDP_PORT) = s
      /\ s # NoSocket
  <2>1. SocketFor(NoSockets, TFTP_UDP_PORT) = s
    BY <1>2, <1>3 DEF SocketFor
  <2>2. QED
    BY <1>3, <1>4, <2>1 DEF NoSocket
<1> HIDE DEF s
<1>6. SocketAlloc(NoSockets, TFTP_UDP_PORT, "tftpd") = [NoSockets EXCEPT ![s] = e]
  BY <1>5, Zenon DEF SocketAlloc
<1>7. e = [callback |-> "tftpd", portLocal |-> TFTP_UDP_PORT, portRemote |-> 0, ipRemote |-> ZeroIp]
  <2> DEFINE p == IF TFTP_UDP_PORT = PortAny THEN FreeLocalPort(NoSockets) ELSE TFTP_UDP_PORT
  <2>1. p = TFTP_UDP_PORT
    BY DEF TFTP_UDP_PORT, PortAny
  <2>2. e = [EmptySocket EXCEPT !.callback = "tftpd", !.portLocal = p]
    OBVIOUS
  <2> HIDE DEF e, p
  <2>3. QED
    BY <2>1, <2>2 DEF EmptySocket
<1> HIDE DEF e
<1>8. sockets \in SocketTable /\ \A r \in UdpSockets : sockets[r].portLocal = TFTP_UDP_PORT => r = s
  <2>1. sockets = [NoSockets EXCEPT ![s] = e]
    BY <1>6 DEF Init
  <2>2. e \in [callback : {NoCallback, "tftpd"}, portLocal : {0, TFTP_UDP_PORT},
               portRemote : Ports \union {0}, ipRemote : {Client, ZeroIp}]
    BY <1>7
  <2>3. sockets \in SocketTable
    BY <1>1, <2>1, <2>2 DEF SocketTable
  <2>4. ASSUME NEW r \in UdpSockets, r # s PROVE sockets[r].portLocal # TFTP_UDP_PORT
    <3>1. sockets[r] = NoSockets[r]
      BY <2>1, <2>4 DEF NoSockets
    <3>2. QED
      BY <1>1, <3>1 DEF TFTP_UDP_PORT
  <2>5. QED
    BY <2>3, <2>4
<1>9. tftpd = [socket |-> s, file |-> NoFile, state |-> "listening", mode |-> "none", lastBlock |-> 0]
  BY <1>5 DEF Init
<1>10. /\ files \in FileTable /\ Open(files) = {} /\ \A f \in Handles : Inside(files, f)
  BY FatAssumption DEF Init, NoFiles, ClosedFile, FileTable, FileType, Open, Inside
<1>11. ServerOK(tftpd, sockets, files, printed)
  <2>1. tftpd \in ServerType /\ tftpd.state # "sending" /\ tftpd.state # "receiving" /\ tftpd.socket = s
    BY <1>4, <1>9 DEF ServerType, TftpStates
  <2>2. OwnSocket(tftpd, sockets)
    BY <1>8, <2>1 DEF OwnSocket
  <2>3. printed = <<>>
    BY DEF Init
  <2>4. printed \in Seq(Ports \X Nat) /\ InOrder(printed)
    BY <2>3 DEF InOrder
  <2>5. WriterBound(tftpd, sockets, printed)
    BY <2>1 DEF WriterBound
  <2>6. QED
    BY <1>8, <1>10, <2>1, <2>2, <2>4, <2>5 DEF ServerOK
<1>12. ToServerOK(toServer)
  BY DEF Init, Request, Ports, ToServerOK
<1>13. ToClientOK(toClient) /\ got \in [Ports -> Nat] /\ disorder = {} /\ done = {}
  BY DEF Init, ToClientOK
<1>14. QED
  BY <1>11, <1>12, <1>13 DEF IInv

\* A socket that is bound keeps its port and its owner.
LEMMA BindRemoteIs ==
  ASSUME NEW u \in SocketTable, NEW s \in UdpSockets, NEW p, NEW ip
  PROVE  BindRemote(u, s, p, ip) =
           [u EXCEPT ![s] = [callback |-> u[s].callback, portLocal |-> u[s].portLocal,
                             portRemote |-> p, ipRemote |-> ip]]
<1> DEFINE bound == BindRemote(u, s, p, ip)
           e == [callback |-> u[s].callback, portLocal |-> u[s].portLocal,
                 portRemote |-> p, ipRemote |-> ip]
<1>1. bound = [u EXCEPT ![s] = [u[s] EXCEPT !.portRemote = p, !.ipRemote = ip]]
  BY DEF BindRemote, SocketTable
<1>2. [u[s] EXCEPT !.portRemote = p, !.ipRemote = ip] = e
  <2> DEFINE o == u[s]
             n == [o EXCEPT !.portRemote = p, !.ipRemote = ip]
  <2>1. o \in [callback : {NoCallback, "tftpd"}, portLocal : {0, TFTP_UDP_PORT},
               portRemote : Ports \union {0}, ipRemote : {Client, ZeroIp}]
    BY DEF SocketTable
  <2>2. n = [o EXCEPT !.portRemote = p, !.ipRemote = ip]
    OBVIOUS
  <2> HIDE DEF o, n
  <2>3. n = [callback |-> o.callback, portLocal |-> o.portLocal, portRemote |-> p, ipRemote |-> ip]
    BY <2>1, <2>2
  <2>4. QED
    BY <2>3 DEF o, n
<1>3. QED
  BY <1>1, <1>2

\* The table of sockets after a message from a client was given to the server.
Arrived(u, p) ==
  /\ u \in SocketTable /\ OwnSocket(tftpd, u)
  /\ p \in Ports /\ u[tftpd.socket].portRemote = p
  /\ sockets[tftpd.socket].portRemote \in {0, p}
  /\ WriterBound(tftpd, u, printed)

\* The receiver can only be the socket of the server, and while the server
\* receives, that socket lets through what its writer sends (udp.c:228).
LEMMA Arrival ==
  ASSUME IInv, NEW m \in toServer, Receivers(sockets, Client, m.from, TFTP_UDP_PORT) # {}
  PROVE  Arrived(Delivered(sockets, Lowest(Receivers(sockets, Client, m.from, TFTP_UDP_PORT)),
                           Client, m.from), m.from)
<1> DEFINE to == Receivers(sockets, Client, m.from, TFTP_UDP_PORT)
           s == tftpd.socket
           u == Delivered(sockets, s, Client, m.from)
<1>1. /\ s \in UdpSockets /\ sockets \in SocketTable /\ OwnSocket(tftpd, sockets)
      /\ WriterBound(tftpd, sockets, printed) /\ m.from \in Ports
  BY DEF IInv, ServerOK, ServerType, ToServerOK
<1>2. \A r \in to : r = s
  BY <1>1 DEF Receivers, OwnSocket
<1>3. s \in to /\ UdpSockets \in SUBSET Nat
  BY <1>2, UdpAssumption DEF UdpSockets
<1>4. sockets[s].portRemote \in {0, m.from}
  BY <1>3 DEF Receivers
<1>5. Lowest(to) = s
  <2>1. \A k \in to : s <= k
    <3>1. s \in Nat
      BY <1>1, <1>3
    <3>2. QED
      BY <1>2, <3>1
  <2>2. Lowest(to) \in to
    BY <1>3, <2>1 DEF Lowest
  <2>3. QED
    BY <1>2, <2>2
<1> HIDE DEF to
<1>6. u = BindRemote(sockets, s, m.from, Client)
  BY DEF Delivered
<1> HIDE DEF u, s
<1> DEFINE e == [callback |-> sockets[s].callback, portLocal |-> sockets[s].portLocal,
                 portRemote |-> m.from, ipRemote |-> Client]
<1>7. u = [sockets EXCEPT ![s] = e]
  BY <1>1, <1>6, BindRemoteIs
<1>8. e \in [callback : {NoCallback, "tftpd"}, portLocal : {0, TFTP_UDP_PORT},
             portRemote : Ports \union {0}, ipRemote : {Client, ZeroIp}]
  BY <1>1 DEF SocketTable
<1>9. u \in SocketTable /\ u[s].portRemote = m.from
  BY <1>1, <1>7, <1>8 DEF SocketTable
<1>10. OwnSocket(tftpd, u)
  BY <1>1, <1>7 DEF OwnSocket, SocketTable
<1>11. WriterBound(tftpd, u, printed)
  <2>1. ASSUME tftpd.state = "receiving"
        PROVE  sockets[s].portRemote = m.from
    <3>1. sockets[s].portRemote \in Ports
      BY <1>1, <2>1 DEF WriterBound, s
    <3>2. sockets[s].portRemote # 0
      BY <3>1, PortsType DEF PortsAreNumbers
    <3>3. QED
      BY <1>4, <3>2
  <2>2. QED
    BY <1>1, <1>9, <2>1 DEF WriterBound, s
<1>12. QED
  BY <1>1, <1>4, <1>5, <1>9, <1>10, <1>11 DEF Arrived, u, s, to

\* A message the server sends goes to the client it is bound to.
LEMMA SendOK ==
  ASSUME ToClientOK(toClient), NEW u, u[tftpd.socket].portRemote \in Ports,
         NEW type \in {"DATA", "ACK", "ERROR"}, NEW block \in Nat, NEW data,
         Send(u, type, block, data)
  PROVE  ToClientOK(toClient')
<1> DEFINE reply == [type |-> type, to |-> u[tftpd.socket].portRemote,
                     block |-> block, data |-> data]
<1>1. toClient' = toClient \union {reply} \/ toClient' = toClient
  BY Zenon DEF Send, Sent
<1>2. reply.to \in Ports /\ reply.block \in Nat /\ reply.type \in {"DATA", "ACK", "ERROR"}
  OBVIOUS
<1> HIDE DEF reply
<1>3. QED
  BY <1>1, <1>2 DEF ToClientOK

\* Every way out of a transfer ends in a state like the first (tftp.c:191).
LEMMA ResetOK ==
  ASSUME NEW t \in ServerType, NEW u \in SocketTable, OwnSocket(t, u),
         NEW fs \in FileTable, Open(fs) \subseteq {t.file},
         \A f \in Handles : f = t.file \/ Inside(fs, f),
         NEW pr \in Seq(Ports \X Nat), InOrder(pr)
  PROVE  ServerOK(Reset(t, u, fs).tftpd, Reset(t, u, fs).sockets, Reset(t, u, fs).files, pr)
<1> DEFINE r == Reset(t, u, fs)
<1>1. /\ r.tftpd = [t EXCEPT !.state = "listening", !.mode = "none", !.lastBlock = 0]
      /\ r.files = FileClose(fs, t.file)
      /\ r.sockets = UnbindRemote(u, t.socket)
  BY DEF Reset
<1> HIDE DEF r
<1>2. r.tftpd = [socket |-> t.socket, file |-> t.file, state |-> "listening", mode |-> "none",
                 lastBlock |-> 0]
  BY <1>1 DEF ServerType
<1>3. /\ r.tftpd \in ServerType /\ r.tftpd.socket = t.socket
      /\ r.tftpd.state # "sending" /\ r.tftpd.state # "receiving"
  BY <1>2 DEF ServerType, TftpStates
<1>4. /\ r.files \in FileTable /\ Open(r.files) = {}
      /\ \A f \in Handles : Inside(r.files, f)
  BY <1>1, FileCloseType
<1>5. r.sockets \in SocketTable /\ OwnSocket(r.tftpd, r.sockets)
  <2> DEFINE s == t.socket
             e == [callback |-> u[s].callback, portLocal |-> u[s].portLocal,
                   portRemote |-> 0, ipRemote |-> ZeroIp]
  <2>1. s \in UdpSockets
    BY DEF ServerType
  <2>2. r.sockets = BindRemote(u, s, 0, ZeroIp)
    BY <1>1 DEF UnbindRemote
  <2> HIDE DEF s
  <2>3. r.sockets = [u EXCEPT ![s] = e]
    BY <2>1, <2>2, BindRemoteIs
  <2>4. e \in [callback : {NoCallback, "tftpd"}, portLocal : {0, TFTP_UDP_PORT},
               portRemote : Ports \union {0}, ipRemote : {Client, ZeroIp}]
    BY <2>1 DEF SocketTable
  <2>5. r.sockets \in SocketTable
    BY <2>1, <2>3, <2>4 DEF SocketTable
  <2>6. \A q \in UdpSockets : r.sockets[q].portLocal = u[q].portLocal
    BY <2>1, <2>3 DEF SocketTable
  <2>7. QED
    BY <1>3, <2>5, <2>6 DEF OwnSocket
<1>6. WriterBound(r.tftpd, r.sockets, pr)
  BY <1>3 DEF WriterBound
<1>7. QED
  BY <1>3, <1>4, <1>5, <1>6 DEF ServerOK, r

\* A block is read from the open file, and sent; if there is none, and the caller
\* says so, the transfer is over (tftp.c:347).
LEMMA SendBlockOK ==
  ASSUME ToClientOK(toClient),
         NEW t \in ServerType, t.state = "sending", t.socket = tftpd.socket,
         NEW u \in SocketTable, OwnSocket(t, u), u[tftpd.socket].portRemote \in Ports,
         NEW fs \in FileTable, t.file \in Handles, Open(fs) = {t.file},
         \A f \in Handles : f = t.file \/ Inside(fs, f),
         NEW pr \in Seq(Ports \X Nat), InOrder(pr),
         NEW ended, SendBlock(t, u, fs, ended)
  PROVE  ServerOK(tftpd', sockets', files', pr) /\ ToClientOK(toClient')
<1> DEFINE read == FileRead(fs[t.file], BlockSize)
           after == [fs EXCEPT ![t.file] = read.file]
           going == [tftpd |-> t, files |-> after, sockets |-> u]
<1>1. fs[t.file] \in FileType /\ BlockSize \in Nat
  BY TftpAssumption DEF FileTable
<1>2. /\ read.file \in FileType /\ SameFile(read.file, fs[t.file])
      /\ read.file.offset <= read.file.size
  BY <1>1, FileReadType DEF SameFile
<1>3. \/ Becomes(going) /\ (UNCHANGED toClient \/ Send(u, "DATA", t.lastBlock, read.data))
      \/ Becomes(Reset(t, u, after)) /\ UNCHANGED toClient
  BY Zenon DEF SendBlock
<1> HIDE DEF read
<1>4. after \in FileTable /\ Open(after) = {t.file}
  BY <1>2, FileUpdateType
<1>5. \A f \in Handles : Inside(after, f)
  BY <1>2 DEF Inside, FileTable
<1> HIDE DEF after
<1>6. ASSUME Becomes(going), UNCHANGED toClient \/ Send(u, "DATA", t.lastBlock, read.data)
      PROVE  ServerOK(tftpd', sockets', files', pr) /\ ToClientOK(toClient')
  <2>1. tftpd' = t /\ files' = after /\ sockets' = u
    BY <1>6 DEF Becomes
  <2>2. WriterBound(t, u, pr)
    BY DEF WriterBound
  <2>3. ServerOK(t, u, after, pr)
    BY <1>4, <1>5, <2>2 DEF ServerOK
  <2>4. ToClientOK(toClient')
    <3>1. t.lastBlock \in Nat
      BY DEF ServerType
    <3>2. CASE UNCHANGED toClient
      BY <3>2
    <3>3. CASE Send(u, "DATA", t.lastBlock, read.data)
      BY <3>1, <3>3, SendOK
    <3>4. QED
      BY <1>6, <3>2, <3>3
  <2>5. QED
    BY <2>1, <2>3, <2>4
<1>7. ASSUME Becomes(Reset(t, u, after)), UNCHANGED toClient
      PROVE  ServerOK(tftpd', sockets', files', pr) /\ ToClientOK(toClient')
  <2>1. /\ tftpd' = Reset(t, u, after).tftpd /\ files' = Reset(t, u, after).files
        /\ sockets' = Reset(t, u, after).sockets
    BY <1>7 DEF Becomes
  <2>2. ServerOK(Reset(t, u, after).tftpd, Reset(t, u, after).sockets, Reset(t, u, after).files, pr)
    BY <1>4, <1>5, ResetOK
  <2>3. QED
    BY <1>7, <2>1, <2>2
<1>8. QED
  BY <1>3, <1>6, <1>7

\* What each handler keeps: the step of the server, and what it sends.
Kept ==
  /\ ServerOK(tftpd', sockets', files', printed') /\ ToClientOK(toClient')
  /\ disorder' \subseteq DOMAIN Readers

\* A request for a file that there is opens it and sends its first block
\* (tftp.c:267).
LEMMA RrqFoundOK ==
  ASSUME IInv, NEW m \in toServer, NEW u, Arrived(u, m.from), RrqFound(m, u)
  PROVE  Kept
<1> DEFINE path == Readers[m.from]
           f == FileFor(files, path)
           t == [tftpd EXCEPT !.mode = "octet", !.file = f, !.state = "sending", !.lastBlock = 1]
           fs == FileOpen(files, path)
<1>1. /\ m.type = "RRQ" /\ tftpd.state = "listening" /\ f # NoFile
      /\ SendBlock(t, u, fs, "stay") /\ UNCHANGED <<printed, disorder>>
  BY DEF RrqFound
<1>2. Len(path) \in Nat
  BY <1>1, TftpAssumption DEF IInv, ToServerOK
<1> HIDE DEF path
<1>3. /\ tftpd \in ServerType /\ files \in FileTable /\ Open(files) = {}
      /\ \A h \in Handles : Inside(files, h)
  BY <1>1 DEF IInv, ServerOK
<1>4. f \in Handles
  BY <1>1, FileForFree
<1>5. /\ fs \in FileTable /\ Open(fs) = {f}
      /\ \A h \in Handles : Inside(fs, h)
  <2>1. FileFor(files, path) # NoFile
    BY <1>1
  <2>2. /\ fs \in FileTable /\ Open(fs) = Open(files) \union {f}
        /\ \A h \in Handles : Inside(files, h) => Inside(fs, h)
    BY <1>2, <1>3, <2>1, FileOpenType
  <2> HIDE DEF f, fs
  <2>3. QED
    BY <1>3, <2>2
<1> HIDE DEF f, fs
<1>6. t \in ServerType /\ t.state = "sending" /\ t.file = f /\ t.socket = tftpd.socket
  <2>1. t = [tftpd EXCEPT !.mode = "octet", !.file = f, !.state = "sending", !.lastBlock = 1]
    OBVIOUS
  <2> HIDE DEF t
  <2>2. t = [socket |-> tftpd.socket, file |-> f, state |-> "sending", mode |-> "octet",
             lastBlock |-> 1]
    BY <1>3, <2>1 DEF ServerType
  <2>3. QED
    BY <1>3, <1>4, <2>2 DEF ServerType, TftpStates
<1> HIDE DEF t
<1>7. /\ u \in SocketTable /\ OwnSocket(t, u) /\ u[tftpd.socket].portRemote \in Ports
  BY <1>6 DEF Arrived, OwnSocket
<1>8. printed \in Seq(Ports \X Nat) /\ InOrder(printed) /\ ToClientOK(toClient)
  BY DEF IInv, ServerOK
<1>9. ServerOK(tftpd', sockets', files', printed) /\ ToClientOK(toClient')
  BY <1>1, <1>4, <1>5, <1>6, <1>7, <1>8, SendBlockOK
<1>10. QED
  BY <1>1, <1>9 DEF Kept, IInv

\* A request for another is refused, and the server listens on.
LEMMA RrqNotFoundOK ==
  ASSUME IInv, NEW m \in toServer, NEW u, Arrived(u, m.from), RrqNotFound(m, u)
  PROVE  Kept
<1> DEFINE t == [tftpd EXCEPT !.mode = "octet", !.file = NoFile]
<1>1. /\ tftpd.state = "listening" /\ tftpd' = t /\ sockets' = u
      /\ Send(u, "ERROR", 0, <<>>) /\ UNCHANGED <<files, printed, disorder>>
  BY DEF RrqNotFound
<1>2. tftpd \in ServerType
  BY DEF IInv, ServerOK
<1>a. t = [tftpd EXCEPT !.mode = "octet", !.file = NoFile]
  OBVIOUS
<1> HIDE DEF t
<1>3. t = [socket |-> tftpd.socket, file |-> NoFile, state |-> tftpd.state, mode |-> "octet",
           lastBlock |-> tftpd.lastBlock]
  BY <1>2, <1>a DEF ServerType
<1>4. t \in ServerType /\ t.state = "listening" /\ t.socket = tftpd.socket
  BY <1>1, <1>2, <1>3 DEF ServerType
<1>5. ToClientOK(toClient')
  BY <1>1, SendOK DEF Arrived, IInv
<1>6. ServerOK(t, u, files, printed)
  BY <1>1, <1>4 DEF IInv, ServerOK, Arrived, OwnSocket, WriterBound
<1>7. QED
  BY <1>1, <1>5, <1>6 DEF Kept, IInv

\* A request of a writer binds the socket to it, and clears what is printed.
LEMMA WrqOK ==
  ASSUME IInv, NEW m \in toServer, NEW u, Arrived(u, m.from), Wrq(m, u)
  PROVE  Kept
<1>0. PICK left \in SendResults(u), mode \in {"octet", "mail"} :
        /\ Sent(u, "ACK", 0, <<>>, left)
        /\ tftpd' = [tftpd EXCEPT !.mode = mode, !.state = IF left THEN "receiving" ELSE @]
  BY DEF Wrq
<1> DEFINE state == IF left THEN "receiving" ELSE tftpd.state
           t == [tftpd EXCEPT !.mode = mode, !.state = state]
<1>1. /\ tftpd.state = "listening" /\ tftpd' = t /\ sockets' = u
      /\ Send(u, "ACK", 0, <<>>) /\ printed' = <<>> /\ UNCHANGED <<files, disorder>>
  BY <1>0 DEF Wrq, Send
<1>2. tftpd \in ServerType /\ state \in {"listening", "receiving"}
  BY <1>1 DEF IInv, ServerOK
<1>a. t = [tftpd EXCEPT !.mode = mode, !.state = state]
  OBVIOUS
<1> HIDE DEF t, state
<1>3. t = [socket |-> tftpd.socket, file |-> tftpd.file, state |-> state, mode |-> mode,
           lastBlock |-> tftpd.lastBlock]
  BY <1>2, <1>a DEF ServerType
<1>4. t \in ServerType /\ t.state # "sending" /\ t.socket = tftpd.socket
  BY <1>2, <1>3 DEF ServerType, TftpStates
<1>5. ToClientOK(toClient')
  BY <1>1, SendOK DEF Arrived, IInv
<1>6. <<>> \in Seq(Ports \X Nat) /\ InOrder(<<>>)
  BY DEF InOrder
<1>7. WriterBound(t, u, <<>>)
  BY <1>4 DEF WriterBound, Arrived
<1>8. ServerOK(t, u, files, <<>>)
  BY <1>1, <1>4, <1>6, <1>7 DEF IInv, ServerOK, Arrived, OwnSocket
<1>9. QED
  BY <1>1, <1>5, <1>8 DEF Kept, IInv

\* The two ends of a transfer that leave what is printed as it is.
LEMMA GivenUpOK ==
  ASSUME IInv, NEW m \in toServer, NEW u, Arrived(u, m.from),
         Becomes(Reset(tftpd, u, files)), UNCHANGED <<toClient, printed, disorder>>
  PROVE  Kept
<1>1. /\ tftpd \in ServerType /\ files \in FileTable /\ \A f \in Handles : Inside(files, f)
      /\ Open(files) \subseteq {tftpd.file}
      /\ printed \in Seq(Ports \X Nat) /\ InOrder(printed)
  BY DEF IInv, ServerOK
<1>2. u \in SocketTable /\ OwnSocket(tftpd, u)
  BY DEF Arrived
<1> DEFINE r == Reset(tftpd, u, files)
<1>3. ServerOK(r.tftpd, r.sockets, r.files, printed)
  BY <1>1, <1>2, ResetOK
<1>4. tftpd' = r.tftpd /\ files' = r.files /\ sockets' = r.sockets
  BY DEF Becomes
<1> HIDE DEF r
<1>5. QED
  BY <1>3, <1>4 DEF Kept, IInv

\* One more block is printed: from the same writer, and with a higher number.
LEMMA PrintOK ==
  ASSUME IInv, NEW m \in toServer, NEW u, Arrived(u, m.from), DataTaken(m)
  PROVE  LET pr == Append(printed, <<m.from, m.block>>)
         IN  /\ pr \in Seq(Ports \X Nat) /\ InOrder(pr)
             /\ \A i \in DOMAIN pr : pr[i][1] = m.from /\ pr[i][2] <= m.block
<1> DEFINE b == <<m.from, m.block>>
           pr == Append(printed, b)
<1>1. printed \in Seq(Ports \X Nat) /\ InOrder(printed) /\ m.block \in Nat /\ m.from \in Ports
  BY DEF IInv, ServerOK, ToServerOK
<1>2. /\ m.block > tftpd.lastBlock /\ tftpd.lastBlock \in Nat
      /\ \A i \in DOMAIN printed : printed[i][1] = m.from /\ printed[i][2] <= tftpd.lastBlock
  BY DEF DataTaken, Arrived, WriterBound, IInv, ServerOK, ServerType
<1>3. \A i \in DOMAIN printed : printed[i][2] \in Nat /\ printed[i][2] < m.block
  <2> TAKE i \in DOMAIN printed
  <2>1. printed[i] \in Ports \X Nat
    BY <1>1
  <2>2. printed[i][2] \in Nat
    BY <2>1
  <2>3. QED
    BY <1>1, <1>2, <2>2
<1>4. b \in Ports \X Nat /\ b[1] = m.from /\ b[2] = m.block
  BY <1>1
<1> HIDE DEF b
<1>5. /\ pr \in Seq(Ports \X Nat) /\ Len(pr) = Len(printed) + 1 /\ Len(printed) \in Nat
      /\ \A i \in 1 .. Len(printed) : pr[i] = printed[i]
      /\ pr[Len(printed) + 1] = b
  BY <1>1, <1>4
<1>6. DOMAIN printed = 1 .. Len(printed) /\ DOMAIN pr = 1 .. Len(printed) + 1
  BY <1>1, <1>5
<1> HIDE DEF pr
<1>7. \A i \in DOMAIN pr : i \in DOMAIN printed \/ i = Len(printed) + 1
  BY <1>5, <1>6
<1>8. \A i \in DOMAIN pr : pr[i][1] = m.from /\ pr[i][2] <= m.block
  <2> TAKE i \in DOMAIN pr
  <2>1. CASE i \in DOMAIN printed
    BY <1>1, <1>2, <1>3, <1>5, <1>6, <2>1
  <2>2. CASE i = Len(printed) + 1
    BY <1>1, <1>4, <1>5, <2>2
  <2>3. QED
    BY <1>7, <2>1, <2>2
<1>9. InOrder(pr)
  <2> SUFFICES ASSUME NEW i \in DOMAIN pr, NEW j \in DOMAIN pr, i < j
               PROVE  pr[i][2] < pr[j][2]
    BY <1>8 DEF InOrder
  <2>1. i \in DOMAIN printed
    BY <1>5, <1>6
  <2>2. CASE j \in DOMAIN printed
    BY <1>1, <1>5, <1>6, <2>1, <2>2 DEF InOrder
  <2>3. CASE j = Len(printed) + 1
    BY <1>3, <1>4, <1>5, <1>6, <2>1, <2>3
  <2>4. QED
    BY <1>7, <2>2, <2>3
<1>10. QED
  BY <1>5, <1>8, <1>9 DEF pr, b

\* A block that is taken comes from the writer, with a number above the last
\* (tftp.c:409).
LEMMA DataOK ==
  ASSUME IInv, NEW m \in toServer, NEW u, Arrived(u, m.from), Data(m, u)
  PROVE  Kept
<1> DEFINE pr == Append(printed, <<m.from, m.block>>)
           t == [tftpd EXCEPT !.lastBlock = m.block]
<1>1. /\ DataTaken(m) /\ Send(u, "ACK", m.block, <<>>) /\ printed' = pr /\ UNCHANGED disorder
      /\ \/ Becomes(Reset(tftpd, u, files))
         \/ tftpd' = t /\ sockets' = u /\ UNCHANGED files
  BY DEF Data, Send
<1>2. /\ pr \in Seq(Ports \X Nat) /\ InOrder(pr)
      /\ \A i \in DOMAIN pr : pr[i][1] = m.from /\ pr[i][2] <= m.block
  BY <1>1, PrintOK
<1> HIDE DEF pr
<1>3. /\ tftpd \in ServerType /\ files \in FileTable /\ \A f \in Handles : Inside(files, f)
      /\ Open(files) = {} /\ m.block \in Nat /\ tftpd.state = "receiving"
  BY <1>1 DEF DataTaken, IInv, ServerOK, ToServerOK
<1>4. u \in SocketTable /\ OwnSocket(tftpd, u) /\ m.from \in Ports /\ u[tftpd.socket].portRemote = m.from
  BY DEF Arrived
<1>5. ToClientOK(toClient')
  BY <1>1, <1>3, <1>4, SendOK DEF IInv
<1>6. CASE Becomes(Reset(tftpd, u, files))
  <2> DEFINE r == Reset(tftpd, u, files)
  <2>1. ServerOK(r.tftpd, r.sockets, r.files, pr)
    BY <1>2, <1>3, <1>4, ResetOK
  <2>2. tftpd' = r.tftpd /\ files' = r.files /\ sockets' = r.sockets
    BY <1>6 DEF Becomes
  <2> HIDE DEF r
  <2>3. QED
    BY <1>1, <1>5, <2>1, <2>2 DEF Kept, IInv
<1>7. CASE tftpd' = t /\ sockets' = u /\ UNCHANGED files
  <2>1. t = [socket |-> tftpd.socket, file |-> tftpd.file, state |-> "receiving",
             mode |-> tftpd.mode, lastBlock |-> m.block]
    BY <1>3 DEF ServerType
  <2> HIDE DEF t
  <2>2. t \in ServerType /\ t.state = "receiving" /\ t.socket = tftpd.socket /\ t.lastBlock = m.block
    BY <1>3, <2>1 DEF ServerType, TftpStates
  <2>3. WriterBound(t, u, pr)
    BY <1>2, <1>4, <2>2 DEF WriterBound
  <2>4. ServerOK(t, u, files, pr)
    BY <1>2, <1>3, <1>4, <2>2, <2>3 DEF ServerOK, OwnSocket
  <2>5. QED
    BY <1>1, <1>5, <1>7, <2>4 DEF Kept, IInv
<1>8. QED
  BY <1>1, <1>6, <1>7

\* An acknowledgment moves the place in the open file, and leaves it open or ends
\* the transfer.
LEMMA AckOK ==
  ASSUME IInv, NEW m \in toServer, NEW u, Arrived(u, m.from), Ack(m, u)
  PROVE  Kept
<1> DEFINE offset == (m.block * BlockSize) % WordModulus
           t == [tftpd EXCEPT !.lastBlock = m.block + 1]
           file == FileSeek(files[t.file], offset)
           fs == [files EXCEPT ![t.file] = file]
<1>1. /\ m.type = "ACK" /\ tftpd.state = "sending" /\ SendBlock(t, u, fs, "reset")
      /\ disorder' = IF InTurn(m) THEN disorder ELSE disorder \union {m.from}
      /\ UNCHANGED printed
  BY DEF Ack
<1>2. /\ tftpd \in ServerType /\ files \in FileTable /\ Open(files) = {tftpd.file}
      /\ \A h \in Handles : Inside(files, h)
      /\ m.block \in Nat /\ m.from \in DOMAIN Readers
  BY <1>1 DEF IInv, ServerOK, ToServerOK
<1>3. offset \in Nat
  <2>1. m.block * BlockSize \in Nat
    BY <1>2, TftpAssumption
  <2>2. QED
    BY <2>1, TftpAssumption
<1> HIDE DEF offset
<1>4. t \in ServerType /\ t.state = "sending" /\ t.file = tftpd.file /\ t.socket = tftpd.socket
  <2>1. t = [socket |-> tftpd.socket, file |-> tftpd.file, state |-> "sending",
             mode |-> tftpd.mode, lastBlock |-> m.block + 1]
    BY <1>1, <1>2 DEF ServerType
  <2> HIDE DEF t
  <2>2. m.block + 1 \in Nat
    BY <1>2
  <2>3. QED
    BY <1>2, <2>1, <2>2 DEF ServerType, TftpStates
<1> HIDE DEF t
<1>5. t.file \in Handles /\ files[t.file] \in FileType
  BY <1>2, <1>4 DEF Open, FileTable
<1>6. file \in FileType /\ SameFile(file, files[t.file])
  BY <1>3, <1>5, FileSeekType
<1> HIDE DEF file
<1>7. fs \in FileTable /\ Open(fs) = {t.file}
  BY <1>2, <1>4, <1>5, <1>6, FileUpdateType
<1>8. \A f \in Handles : f = t.file \/ Inside(fs, f)
  BY <1>2 DEF Inside, FileTable
<1> HIDE DEF fs
<1>9. /\ u \in SocketTable /\ OwnSocket(t, u) /\ u[tftpd.socket].portRemote \in Ports
  BY <1>4 DEF Arrived, OwnSocket
<1>10. printed \in Seq(Ports \X Nat) /\ InOrder(printed) /\ ToClientOK(toClient)
  BY DEF IInv, ServerOK
<1>11. ServerOK(tftpd', sockets', files', printed) /\ ToClientOK(toClient')
  BY <1>1, <1>4, <1>5, <1>7, <1>8, <1>9, <1>10, SendBlockOK
<1>12. QED
  BY <1>1, <1>2, <1>11 DEF Kept, IInv

\* A message that is ignored binds the socket and changes nothing else.
LEMMA IgnoredOK ==
  ASSUME IInv, NEW m \in toServer, NEW u, Arrived(u, m.from), Ignored(m, u)
  PROVE  Kept
BY DEF Ignored, Kept, IInv, ServerOK, Arrived

\* The step of a client.
LEMMA DeliverOK ==
  ASSUME IInv, Deliver
  PROVE  IInv'
<1>1. PICK m \in toClient : /\ ReaderGets(m) \/ WriterGets(m)
                            /\ toClient' \subseteq toClient
  BY DEF Deliver
<1>2. /\ UNCHANGED <<tftpd, sockets, files, printed, disorder>>
  BY DEF Deliver
<1>3. ToClientOK(toClient')
  BY <1>1 DEF IInv, ToClientOK
<1>4. m.to \in Ports /\ m.block \in Nat /\ m.block + 1 \in Nat
  BY DEF IInv, ToClientOK
<1>5. CASE ReaderGets(m)
  <2>1. /\ m.to \in DOMAIN Readers
        /\ toServer' = toServer \union {Answer(m.to, "ACK", m.block)}
    BY <1>5 DEF ReaderGets
  <2>2. ToServerOK(toServer')
    BY <1>4, <2>1 DEF IInv, ToServerOK, Answer
  <2>3. got' \in [Ports -> Nat] /\ done' \subseteq DOMAIN Readers
    BY <1>4, <1>5 DEF IInv, ReaderGets
  <2>4. QED
    BY <1>2, <1>3, <2>2, <2>3 DEF IInv
<1>6. CASE WriterGets(m)
  <2>1. /\ toServer' = toServer \union {Answer(m.to, "DATA", m.block + 1)}
        /\ got' = [got EXCEPT ![m.to] = m.block + 1] /\ UNCHANGED done
    BY <1>6 DEF WriterGets
  <2>2. ToServerOK(toServer')
    BY <1>4, <2>1 DEF IInv, ToServerOK, Answer
  <2>3. got' \in [Ports -> Nat] /\ done' \subseteq DOMAIN Readers
    BY <1>4, <2>1 DEF IInv
  <2>4. QED
    BY <1>2, <1>3, <2>2, <2>3 DEF IInv
<1>7. QED
  BY <1>1, <1>5, <1>6

\* Each message the server gets keeps the invariant.
LEMMA ReceiveOK ==
  ASSUME IInv, Receive
  PROVE  IInv'
<1>1. PICK m \in toServer :
        LET to == Receivers(sockets, Client, m.from, TFTP_UDP_PORT)
        IN  /\ to # {}
            /\ tftpd_callback(m, Delivered(sockets, Lowest(to), Client, m.from))
            /\ toServer' = IF Duplicates THEN toServer ELSE toServer \ {m}
            /\ UNCHANGED <<got, done>>
  BY DEF Receive
<1> DEFINE to == Receivers(sockets, Client, m.from, TFTP_UDP_PORT)
           u == Delivered(sockets, Lowest(to), Client, m.from)
<1>2. Arrived(u, m.from)
  BY <1>1, Arrival
<1>3. tftpd_callback(m, u)
  BY <1>1
<1>4. toServer' \subseteq toServer /\ UNCHANGED <<got, done>>
  BY <1>1
<1> HIDE DEF u
<1>5. Kept
  <2>1. CASE RrqFound(m, u)
    BY <1>2, <2>1, RrqFoundOK
  <2>2. CASE RrqNotFound(m, u)
    BY <1>2, <2>2, RrqNotFoundOK
  <2>3. CASE Wrq(m, u)
    BY <1>2, <2>3, WrqOK
  <2>4. CASE Data(m, u)
    BY <1>2, <2>4, DataOK
  <2>5. CASE DataRefused(m, u)
    BY <1>2, <2>5, GivenUpOK DEF DataRefused
  <2>6. CASE Ack(m, u)
    BY <1>2, <2>6, AckOK
  <2>7. CASE Error(m, u)
    BY <1>2, <2>7, GivenUpOK DEF Error
  <2>8. CASE Ignored(m, u)
    BY <1>2, <2>8, IgnoredOK
  <2>9. QED
    BY <1>3, <2>1, <2>2, <2>3, <2>4, <2>5, <2>6, <2>7, <2>8 DEF tftpd_callback
<1>6. ToServerOK(toServer')
  BY <1>4 DEF IInv, ToServerOK
<1>7. QED
  BY <1>4, <1>5, <1>6 DEF Kept, IInv

\* So does a writer that gives up.
LEMMA GiveUpOK ==
  ASSUME IInv, NEW p \in Ports, GiveUp(p)
  PROVE  IInv'
<1>1. /\ toServer' = toServer \union {Answer(p, "ERROR", 0)}
      /\ UNCHANGED <<tftpd, sockets, files, toClient, got, done, printed, disorder>>
  BY DEF GiveUp
<1>2. ToServerOK(toServer')
  BY <1>1 DEF IInv, ToServerOK, Answer
<1>3. QED
  BY <1>1, <1>2 DEF IInv

\* The inductive invariant holds in every state.
LEMMA Inductive == Spec => []IInv
<1>1. Init => IInv
  BY InitOK
<1>2. IInv /\ [Next]_vars => IInv'
  <2> SUFFICES ASSUME IInv, [Next]_vars PROVE IInv'
    OBVIOUS
  <2>1. CASE Receive
    BY <2>1, ReceiveOK
  <2>2. CASE Deliver
    BY <2>2, DeliverOK
  <2>3. ASSUME NEW p \in Ports, GiveUp(p) PROVE IInv'
    BY <2>3, GiveUpOK
  <2>4. CASE UNCHANGED vars
    BY <2>4 DEF vars, IInv
  <2>5. QED
    BY <2>1, <2>2, <2>3, <2>4 DEF Next
<1>3. QED
  BY <1>1, <1>2, PTL DEF Spec

\* The server, its socket, the files and the messages keep their form, whatever
\* arrives and however often (tftp.c:180-450).
THEOREM TypeCorrect == Spec => []TypeOK
<1>1. IInv => TypeOK
  BY InvariantImplies
<1>2. QED
  BY <1>1, Inductive, PTL

\* The blocks of a writer are printed in order, each once, and all of one writer,
\* whatever is repeated and delayed: the socket is bound to it (udp.c:249), and a
\* number must be above the last (tftp.c:409).
THEOREM WriterInOrder == Spec => []OneWriterInOrder
<1>1. IInv => OneWriterInOrder
  BY InvariantImplies
<1>2. QED
  BY <1>1, Inductive, PTL

\* One file is open while the server sends, and none otherwise, whichever of the ways
\* out of a transfer it takes (tftpd_reset, tftp.c:191).
THEOREM OneFileHeld == Spec => []FileHeld
<1>1. IInv => FileHeld
  BY InvariantImplies
<1>2. QED
  BY <1>1, Inductive, PTL

-----------------------------------------------------------------------------
(* The chain of a file, and places in it.                                  *)

\* The recursion of Chain, by name.
Chained(first) ==
  LET chain[n \in Nat] ==
        IF n = 0 THEN <<first>>
        ELSE LET c == chain[n - 1]
             IN  IF FatTable[c[Len(c)]] \in Clusters THEN Append(c, FatTable[c[Len(c)]])
                 ELSE c
  IN  chain

\* One link more, if there is one.
Linked(c) == IF FatTable[c[Len(c)]] \in Clusters THEN Append(c, FatTable[c[Len(c)]]) ELSE c

\* The recursion of Chain has a solution: sequences of numbers, each one link
\* longer or the same.
LEMMA ChainedStep ==
  ASSUME NEW first \in Nat
  PROVE  /\ Chained(first)[0] = <<first>>
         /\ \A n \in Nat : /\ Chained(first)[n] \in Seq(Nat)
                           /\ Chained(first)[n + 1] = Linked(Chained(first)[n])
<1> DEFINE S == Seq(Nat)
           a == <<first>>
           step == [n \in Nat |-> [x \in S |-> Linked(x)]]
           Is(g) == g = [n \in Nat |-> IF n = 0 THEN a ELSE Linked(g[n - 1])]
<1>1. \A x \in S : Linked(x) \in S
  <2> TAKE x \in S
  <2> DEFINE c == FatTable[x[Len(x)]]
  <2>1. c \in Clusters => c \in Nat
    BY FatAssumption DEF Clusters
  <2>2. Linked(x) = IF c \in Clusters THEN Append(x, c) ELSE x
    BY DEF Linked
  <2> HIDE DEF c
  <2>3. QED
    BY <2>1, <2>2
<1>2. a \in S /\ step \in [Nat -> [S -> S]]
  <2>1. a \in S
    OBVIOUS
  <2> HIDE DEF S, a
  <2>2. QED
    BY <1>1, <2>1
<1> HIDE DEF S, a
<1>3. PICK g \in [Nat -> S] : g = [n \in Nat |-> IF n = 0 THEN a ELSE step[n][g[n - 1]]]
  <2> HIDE DEF step
  <2> QED BY <1>2, Recursion
<1>4. Is(g)
  <2>1. \A n \in Nat : g[n] = IF n = 0 THEN a ELSE Linked(g[n - 1])
    <3>1. ASSUME NEW n \in Nat, n # 0 PROVE g[n - 1] \in S
      BY <1>3, <3>1
    <3> QED BY <1>3, <3>1
  <2>2. QED
    BY <1>3, <2>1
<1>5. Chained(first) = CHOOSE h : Is(h)
  BY DEF Chained, Linked, a
<1>6. Is(Chained(first))
  <2> HIDE DEF Is
  <2> QED BY <1>4, <1>5
<1> DEFINE R == Chained(first)
<1> HIDE DEF R
<1>7. R = [n \in Nat |-> IF n = 0 THEN a ELSE Linked(R[n - 1])]
  BY <1>6 DEF R
<1>8. R[0] = a /\ \A n \in Nat : R[n + 1] = Linked(R[n])
  <2>1. ASSUME NEW n \in Nat PROVE R[n + 1] = Linked(R[n])
    <3>1. n + 1 \in Nat /\ n + 1 # 0 /\ n + 1 - 1 = n
      OBVIOUS
    <3>2. QED
      BY <1>7, <3>1
  <2>2. QED
    BY <1>7, <2>1
<1>9. \A n \in Nat : R[n] \in S
  <2> DEFINE good == {n \in Nat : R[n] \in S}
  <2>1. 0 \in good
    BY <1>2, <1>8
  <2>2. ASSUME NEW n \in good PROVE n + 1 \in good
    BY <1>1, <1>8, <2>2
  <2>3. good = Nat
    <3> HIDE DEF good
    <3>1. good \in SUBSET Nat
      BY DEF good
    <3>2. QED
      BY <2>1, <2>2, <3>1, Induction
  <2>4. QED
    BY <2>3
<1>10. QED
  BY <1>8, <1>9 DEF R, S, a

\* A chain begins with the first cluster, and goes on as a seek walks.
LEMMA ChainSteps ==
  ASSUME NEW first \in Nat
  PROVE  /\ Chain(first) \in Seq(Nat) /\ Len(Chain(first)) >= 1 /\ Chain(first)[1] = first
         /\ first \in Clusters =>
              \A i \in 1 .. Len(Chain(first)) : /\ Chain(first)[i] \in Clusters
                                                /\ Chain(first)[i] = Steps(first)[i - 1]
<1> DEFINE R == Chained(first)
           W == Steps(first)
           Begins(c) == Len(c) >= 1 /\ c[1] = first
           Walked(c) == \A i \in 1 .. Len(c) : c[i] \in Clusters /\ c[i] = W[i - 1]
           Fits(c) == c \in Seq(Nat) /\ Begins(c) /\ (first \in Clusters => Walked(c))
<1>1. /\ W[0] = first
      /\ \A k \in Nat : W[k + 1] = NextCluster(W[k])
  BY StepsStep
<1>2. R[0] = <<first>> /\ \A n \in Nat : R[n + 1] = Linked(R[n])
  BY ChainedStep
<1> HIDE DEF R, W
<1>3. Fits(<<first>>)
  BY <1>1
<1>4. ASSUME NEW c, Fits(c)
      PROVE  Fits(Linked(c))
  <2> DEFINE last == c[Len(c)]
             next == FatTable[last]
             d == Append(c, next)
  <2>1. CASE next \notin Clusters
    <3>1. Linked(c) = c
      BY <2>1 DEF Linked
    <3>2. QED
      BY <1>4, <3>1
  <2>2. CASE next \in Clusters
    <3>1. Linked(c) = d
      BY <2>2 DEF Linked
    <3>2. next \in Nat
      BY <2>2, FatAssumption DEF Clusters
    <3> HIDE DEF next
    <3>3. /\ d \in Seq(Nat) /\ Len(d) = Len(c) + 1 /\ d[Len(c) + 1] = next
          /\ \A i \in 1 .. Len(c) : d[i] = c[i]
      BY <1>4, <3>2
    <3> HIDE DEF d
    <3>4. Len(c) \in Nat /\ Len(c) >= 1
      BY <1>4
    <3>5. Begins(d)
      BY <1>4, <3>3, <3>4
    <3>6. ASSUME first \in Clusters PROVE Walked(d)
      <4>1. last \in Clusters /\ last = W[Len(c) - 1]
        BY <1>4, <3>4, <3>6
      <4>2. NextCluster(last) = next
        BY <2>2, <4>1, FatAssumption
        DEF NextCluster, Clusters, ClusterFree, ClusterReserved, ClusterBad, ClusterLast, next
      <4> HIDE DEF last
      <4>3. W[Len(c)] = next
        <5>1. Len(c) - 1 \in Nat /\ Len(c) - 1 + 1 = Len(c)
          BY <3>4
        <5>2. QED
          BY <1>1, <4>1, <4>2, <5>1
      <4>4. ASSUME NEW i \in 1 .. Len(d) PROVE d[i] \in Clusters /\ d[i] = W[i - 1]
        <5>1. CASE i \in 1 .. Len(c)
          BY <1>4, <3>3, <3>6, <5>1
        <5>2. CASE i = Len(c) + 1
          BY <2>2, <3>3, <3>4, <4>3, <5>2
        <5>3. QED
          BY <3>3, <3>4, <5>1, <5>2
      <4>5. QED
        BY <4>4
    <3>7. QED
      BY <3>1, <3>3, <3>5, <3>6
  <2>3. QED
    BY <2>1, <2>2
<1> HIDE DEF Fits
<1>5. \A n \in Nat : Fits(R[n])
  <2> DEFINE good == {n \in Nat : Fits(R[n])}
  <2>1. 0 \in good
    BY <1>2, <1>3
  <2>2. ASSUME NEW n \in good PROVE n + 1 \in good
    BY <1>2, <1>4
  <2>3. good = Nat
    <3> HIDE DEF good
    <3>1. good \in SUBSET Nat
      BY DEF good
    <3>2. QED
      BY <2>1, <2>2, <3>1, Induction
  <2>4. QED
    BY <2>3
<1>6. Chain(first) = R[ClusterCount]
  BY Zenon DEF Chain, Chained, R
<1>7. Fits(Chain(first))
  BY <1>5, <1>6, FatAssumption
<1>8. QED
  BY <1>7 DEF Fits, W

\* Two walks, one behind the other.
LEMMA StepsAdd ==
  ASSUME NEW c \in Nat, NEW k \in Nat, NEW l \in Nat
  PROVE  Steps(Steps(c)[k])[l] = Steps(c)[k + l]
<1> DEFINE good == {n \in Nat : Steps(Steps(c)[k])[n] = Steps(c)[k + n]}
<1>1. Steps(c)[k] \in Nat
  BY StepsStep
<1>2. 0 \in good
  BY <1>1, StepsStep
<1>3. ASSUME NEW n \in good PROVE n + 1 \in good
  <2>1. Steps(Steps(c)[k])[n + 1] = NextCluster(Steps(Steps(c)[k])[n])
    BY <1>1, StepsStep
  <2>2. k + n \in Nat /\ k + (n + 1) = (k + n) + 1
    OBVIOUS
  <2>3. Steps(c)[(k + n) + 1] = NextCluster(Steps(c)[k + n])
    BY <2>2, StepsStep
  <2>4. QED
    BY <2>1, <2>2, <2>3
<1>4. good = Nat
  <2> HIDE DEF good
  <2>1. good \in SUBSET Nat
    BY DEF good
  <2>2. QED
    BY <1>2, <1>3, <2>1, Induction
<1>5. QED
  BY <1>4

\* A place inside a file that is covered is a cluster of its chain.
LEMMA CoveredCluster ==
  ASSUME NEW first \in Nat, NEW size \in Nat, Covered(first, size),
         NEW k \in Nat, k * ClusterSize < size
  PROVE  /\ k + 1 \in DOMAIN Chain(first) /\ Chain(first)[k + 1] = Steps(first)[k]
         /\ Steps(first)[k] \in Clusters /\ Steps(first)[k] >= 2
<1> DEFINE n == Len(Chain(first))
<1>1. ClusterSize \in Nat \ {0} /\ Chain(first) \in Seq(Nat) /\ n \in Nat
  BY ChainSteps, FatAssumption
<1>2. k * ClusterSize \in Nat
  BY <1>1
<1>3. first \in Clusters /\ size <= n * ClusterSize
  BY <1>2 DEF Covered
<1> HIDE DEF n
<1>4. k < n
  <2>1. k * ClusterSize < n * ClusterSize
    BY <1>1, <1>2, <1>3
  <2>2. n <= k => n * ClusterSize <= k * ClusterSize
    BY <1>1
  <2>3. QED
    BY <1>1, <1>2, <2>1, <2>2
<1>5. k + 1 \in 1 .. n /\ k + 1 - 1 = k
  BY <1>1, <1>4
<1>6. Chain(first)[k + 1] \in Clusters /\ Chain(first)[k + 1] = Steps(first)[k]
  BY <1>3, <1>5, ChainSteps DEF n
<1>7. QED
  BY <1>1, <1>5, <1>6 DEF n, Clusters

\* The cluster at hand is the k-th of the file, from 0, and not ahead of what the
\* file counts, nor of its offset: an old acknowledgment makes it fall behind.
AtPlace(file, k) ==
  /\ file.current = Steps(file.first)[k]
  /\ k <= file.fileCluster
  /\ k * ClusterSize + file.clusterOffset <= file.offset

Reachable(file) == \E k \in Nat : AtPlace(file, k)

\* The place is inside the file.
Placed(file) == \E k \in Nat : AtPlace(file, k) /\ (k = 0 \/ k * ClusterSize < file.size)

\* What fat_fseek does, in three cases.
LEMMA SeekCases ==
  ASSUME NEW file \in FileType, NEW offset \in Nat
  PROVE  LET n == offset \div ClusterSize
             steps == IF n >= file.fileCluster THEN n - file.fileCluster ELSE n
             c == IF n >= file.fileCluster THEN file.current ELSE file.first
             sought == FileSeek(file, offset)
         IN  /\ n \in Nat /\ steps \in Nat /\ sought.fileCluster = file.fileCluster + steps
             /\ n * ClusterSize + (offset % ClusterSize) = offset
             /\ IF Steps(c)[steps] < 2
                THEN /\ sought.current = file.current /\ sought.offset = file.offset
                     /\ sought.clusterOffset = file.clusterOffset
                ELSE /\ sought.current = Steps(c)[steps] /\ sought.offset = offset
                     /\ sought.clusterOffset = offset % ClusterSize
<1> DEFINE n == offset \div ClusterSize
           onwards == n >= file.fileCluster
           steps == IF onwards THEN n - file.fileCluster ELSE n
           c == IF onwards THEN file.current ELSE file.first
           counted == [file EXCEPT !.fileCluster = file.fileCluster + steps]
           o == offset % ClusterSize
           w == Steps(c)[steps]
           moved == [counted EXCEPT !.current = w, !.offset = offset, !.clusterOffset = o]
<1>1. ClusterSize \in Nat \ {0}
  BY FatAssumption
<1>2. n \in Nat /\ o \in 0 .. ClusterSize /\ n * ClusterSize + o = offset
  BY <1>1
<1>3. steps \in Nat /\ c \in Nat /\ file.fileCluster + steps \in Nat
  <2> HIDE DEF n
  <2> QED BY <1>2 DEF FileType
<1>4. w \in Nat
  BY <1>3, StepsStep
<1>5. FileSeek(file, offset) = IF w < 2 THEN counted ELSE moved
  BY Zenon DEF FileSeek, Steps
<1>6. counted = [file EXCEPT !.fileCluster = file.fileCluster + steps]
  OBVIOUS
<1>7. moved = [counted EXCEPT !.current = w, !.offset = offset, !.clusterOffset = o]
  OBVIOUS
<1> HIDE DEF n, onwards, steps, c, o, w, counted, moved
<1>8. counted = [fs |-> file.fs, first |-> file.first, size |-> file.size,
                 current |-> file.current, offset |-> file.offset,
                 clusterOffset |-> file.clusterOffset, fileCluster |-> file.fileCluster + steps]
  BY <1>3, <1>6 DEF FileType
<1>9. counted \in FileType
  BY <1>3, <1>8 DEF FileType
<1>10. moved = [fs |-> file.fs, first |-> file.first, size |-> file.size,
                current |-> w, offset |-> offset, clusterOffset |-> o,
                fileCluster |-> file.fileCluster + steps]
  BY <1>2, <1>3, <1>4, <1>7, <1>8, <1>9 DEF FileType
<1> DEFINE sought == FileSeek(file, offset)
<1> HIDE DEF sought
<1>11. sought = IF w < 2 THEN counted ELSE moved
  BY <1>5 DEF sought
<1>12. /\ sought.fileCluster = file.fileCluster + steps
       /\ IF w < 2
          THEN /\ sought.current = file.current /\ sought.offset = file.offset
               /\ sought.clusterOffset = file.clusterOffset
          ELSE /\ sought.current = w /\ sought.offset = offset
               /\ sought.clusterOffset = o
  <2>1. CASE w < 2
    BY <1>8, <1>11, <2>1
  <2>2. CASE ~(w < 2)
    BY <1>10, <1>11, <2>2
  <2>3. QED
    BY <2>1, <2>2
<1>13. QED
  BY <1>2, <1>3, <1>12, Zenon DEF sought, n, onwards, steps, c, o, w

\* A seek stays in the chain, onwards or from the start, even after one that failed.
LEMMA SeekReachable ==
  ASSUME NEW file \in FileType, NEW offset \in Nat, Reachable(file)
  PROVE  Reachable(FileSeek(file, offset))
<1> DEFINE n == offset \div ClusterSize
           steps == IF n >= file.fileCluster THEN n - file.fileCluster ELSE n
           c == IF n >= file.fileCluster THEN file.current ELSE file.first
           o == offset % ClusterSize
           sought == FileSeek(file, offset)
<1>1. /\ n \in Nat /\ steps \in Nat /\ sought.fileCluster = file.fileCluster + steps
      /\ n * ClusterSize + o = offset
      /\ IF Steps(c)[steps] < 2
         THEN /\ sought.current = file.current /\ sought.offset = file.offset
              /\ sought.clusterOffset = file.clusterOffset
         ELSE /\ sought.current = Steps(c)[steps] /\ sought.offset = offset
              /\ sought.clusterOffset = o
  BY SeekCases
<1>2. PICK k \in Nat : AtPlace(file, k)
  BY DEF Reachable
<1>3. /\ file.first \in Nat /\ file.fileCluster \in Nat /\ file.offset \in Nat
      /\ file.clusterOffset \in Nat /\ sought.first = file.first /\ ClusterSize \in Nat
  BY FileSeekType, FatAssumption DEF FileType, SameFile
<1>4. o \in Nat
  BY FatAssumption
<1> HIDE DEF n, o, sought
<1>5. CASE Steps(c)[steps] < 2
  <2>1. AtPlace(sought, k)
    BY <1>1, <1>2, <1>3, <1>5 DEF AtPlace
  <2>2. QED
    BY <2>1 DEF Reachable, sought
<1>6. CASE ~(Steps(c)[steps] < 2) /\ n >= file.fileCluster
  <2>1. c = Steps(file.first)[k] /\ steps = n - file.fileCluster
    BY <1>2, <1>6 DEF AtPlace
  <2>2. Steps(c)[steps] = Steps(file.first)[k + steps]
    <3> HIDE DEF c, steps
    <3>1. file.first \in Nat /\ steps \in Nat
      BY <1>1, <1>3
    <3>2. Steps(Steps(file.first)[k])[steps] = Steps(file.first)[k + steps]
      BY <3>1, StepsAdd, Zenon
    <3>3. QED
      BY <2>1, <3>2
  <2>3. k + steps \in Nat /\ k + steps <= n /\ k + steps <= sought.fileCluster
    BY <1>1, <1>2, <1>3, <1>6, <2>1 DEF AtPlace
  <2>4. (k + steps) * ClusterSize + o <= n * ClusterSize + o
    <3> DEFINE l == k + steps
    <3>1. l \in Nat /\ l <= n
      BY <2>3
    <3> HIDE DEF l
    <3>2. l * ClusterSize <= n * ClusterSize /\ l * ClusterSize \in Nat /\ n * ClusterSize \in Nat
      BY <1>1, <1>3, <3>1
    <3>3. QED
      BY <1>4, <3>2 DEF l
  <2>5. AtPlace(sought, k + steps)
    BY <1>1, <1>3, <1>6, <2>2, <2>3, <2>4 DEF AtPlace
  <2>6. QED
    BY <2>3, <2>5 DEF Reachable, sought
<1>7. CASE ~(Steps(c)[steps] < 2) /\ ~(n >= file.fileCluster)
  <2>1. c = file.first /\ steps = n
    BY <1>7
  <2>2. n <= sought.fileCluster /\ n * ClusterSize + o <= offset
    <3>1. n * ClusterSize + o \in Nat
      BY <1>1, <1>3, <1>4
    <3>2. QED
      BY <1>1, <1>3, <2>1, <3>1
  <2>3. AtPlace(sought, n)
    BY <1>1, <1>3, <1>7, <2>1, <2>2 DEF AtPlace
  <2>4. QED
    BY <1>1, <2>3 DEF Reachable, sought
<1>8. QED
  BY <1>5, <1>6, <1>7

\* A unit of a file is read where the file has one, across the end of a cluster too.
LEMMA ReadOnePlace ==
  ASSUME NEW r \in ReadType, ~r.failed, Reachable(r.file), r.file.offset < r.file.size,
         Covered(r.file.first, r.file.size)
  PROVE  LET next == ReadOne(r)
         IN  /\ ~next.failed /\ Len(next.data) = Len(r.data) + 1
             /\ next.file.offset = r.file.offset + 1
             /\ \E k \in Nat : AtPlace(next.file, k) /\ k * ClusterSize < next.file.size
<1> DEFINE f == r.file
           ended == f.clusterOffset >= ClusterSize
           file == IF ended
                   THEN [f EXCEPT !.clusterOffset = 0, !.fileCluster = f.fileCluster + 1,
                                  !.current = NextCluster(f.current)]
                   ELSE f
<1>0. r.data \in Seq(Nat \X Nat)
  BY DEF ReadType
<1>1. ClusterSize \in Nat \ {0} /\ f \in FileType
  BY FatAssumption DEF ReadType
<1>2. PICK k \in Nat : AtPlace(f, k)
  BY DEF Reachable
<1>3. /\ f.first \in Nat /\ f.size \in Nat /\ f.offset \in Nat /\ f.clusterOffset \in 0 .. ClusterSize
      /\ f.fileCluster \in Nat /\ f.current \in Nat /\ NextCluster(f.current) \in Nat
  BY <1>1, NextClusterType DEF FileType
<1>4. f.offset < f.size /\ Covered(f.first, f.size)
  OBVIOUS
<1>5. file = IF ended
             THEN [f EXCEPT !.clusterOffset = 0, !.fileCluster = f.fileCluster + 1,
                            !.current = NextCluster(f.current)]
             ELSE f
  OBVIOUS
<1> HIDE DEF f, file
<1>6. \E l \in Nat : /\ AtPlace(file, l) /\ l * ClusterSize < f.size
                     /\ file \in FileType /\ file.clusterOffset < ClusterSize
                     /\ SameFile(file, f) /\ file.offset = f.offset
                     /\ l * ClusterSize + file.clusterOffset <= f.offset
  <2>1. k * ClusterSize \in Nat /\ k * ClusterSize + f.clusterOffset <= f.offset
    BY <1>1, <1>2 DEF AtPlace
  <2>2. CASE ended
    <3>1. file = [fs |-> f.fs, first |-> f.first, size |-> f.size,
                  current |-> NextCluster(f.current), offset |-> f.offset,
                  clusterOffset |-> 0, fileCluster |-> f.fileCluster + 1]
      BY <1>1, <1>3, <1>5, <2>2 DEF FileType
    <3>2. file \in FileType /\ SameFile(file, f)
      <4>1. 0 \in 0 .. ClusterSize /\ f.fileCluster + 1 \in Nat
        BY <1>1, <1>3
      <4>2. QED
        BY <1>1, <1>3, <3>1, <4>1 DEF FileType, SameFile
    <3>3. (k + 1) * ClusterSize = k * ClusterSize + ClusterSize
      BY <1>1
    <3>4. f.clusterOffset = ClusterSize
      BY <1>1, <1>3, <2>2
    <3>5. (k + 1) * ClusterSize <= f.offset /\ (k + 1) * ClusterSize < f.size
      BY <1>1, <1>3, <1>4, <2>1, <3>3, <3>4
    <3>6. NextCluster(f.current) = Steps(f.first)[k + 1]
      BY <1>2, <1>3, StepsStep DEF AtPlace
    <3>7. AtPlace(file, k + 1)
      <4>1. k + 1 <= f.fileCluster + 1
        BY <1>2, <1>3 DEF AtPlace
      <4>2. (k + 1) * ClusterSize + 0 <= f.offset
        BY <1>1, <3>5
      <4>3. QED
        BY <3>1, <3>6, <4>1, <4>2 DEF AtPlace
    <3>8. QED
      BY <1>1, <3>1, <3>2, <3>5, <3>7 DEF AtPlace
  <2>3. CASE ~ended
    <3>1. file = f /\ f.clusterOffset < ClusterSize
      BY <1>1, <1>3, <1>5, <2>3
    <3>2. k * ClusterSize < f.size
      BY <1>3, <1>4, <2>1
    <3>3. QED
      BY <1>1, <1>2, <2>1, <3>1, <3>2 DEF SameFile
  <2>4. QED
    BY <2>2, <2>3
<1>7. PICK l \in Nat : /\ AtPlace(file, l) /\ l * ClusterSize < f.size
                       /\ file \in FileType /\ file.clusterOffset < ClusterSize
                       /\ SameFile(file, f) /\ file.offset = f.offset
                       /\ l * ClusterSize + file.clusterOffset <= f.offset
  BY <1>6
<1>8. ~(file.current < 2)
  <2>1. Steps(f.first)[l] >= 2 /\ Steps(f.first)[l] \in Nat
    BY <1>3, <1>4, <1>7, CoveredCluster, StepsStep
  <2>2. QED
    BY <1>7, <2>1 DEF AtPlace, SameFile
<1> DEFINE next == [file EXCEPT !.clusterOffset = @ + 1, !.offset = @ + 1]
           unit == <<file.current, file.clusterOffset>>
<1>9. ReadOne(r) = [file |-> next, data |-> Append(r.data, unit), failed |-> FALSE]
  BY <1>8 DEF ReadOne, file, f
<1>10. next = [fs |-> file.fs, first |-> file.first, size |-> file.size,
               current |-> file.current, offset |-> file.offset + 1,
               clusterOffset |-> file.clusterOffset + 1, fileCluster |-> file.fileCluster]
  <2>1. next = [file EXCEPT !.clusterOffset = file.clusterOffset + 1, !.offset = file.offset + 1]
    OBVIOUS
  <2> HIDE DEF next
  <2>2. QED
    BY <1>7, <2>1 DEF FileType
<1>11. unit \in Nat \X Nat
  BY <1>7 DEF FileType
<1> HIDE DEF next, unit
<1>12. Len(Append(r.data, unit)) = Len(r.data) + 1
  BY <1>0, <1>11
<1>13. AtPlace(next, l) /\ l * ClusterSize < next.size /\ next.offset = f.offset + 1
  <2>1. file.clusterOffset \in Nat /\ file.offset \in Nat /\ l * ClusterSize \in Nat
    BY <1>1, <1>7 DEF FileType
  <2>2. l * ClusterSize + (file.clusterOffset + 1) <= file.offset + 1
    BY <1>7, <2>1
  <2>3. QED
    BY <1>7, <1>10, <2>2 DEF AtPlace, SameFile
<1>14. QED
  BY <1>9, <1>12, <1>13 DEF f

\* Whatever is read of a file up to its end is read without a failure.
LEMMA ReadingPlace ==
  ASSUME NEW file \in FileType, Reachable(file), Covered(file.first, file.size),
         NEW n \in Nat, file.offset + n <= file.size
  PROVE  LET r == Reading(file)[n]
         IN  /\ ~r.failed /\ Len(r.data) = n /\ r.file.offset = file.offset + n
             /\ Reachable(r.file) /\ (n > 0 => Placed(r.file))
<1> DEFINE R == Reading(file)
           Good(j) == /\ ~R[j].failed /\ Len(R[j].data) = j /\ R[j].file.offset = file.offset + j
                      /\ Reachable(R[j].file) /\ (j > 0 => Placed(R[j].file))
           good == {j \in Nat : j <= n => Good(j)}
<1>1. /\ R[0] = [file |-> file, data |-> <<>>, failed |-> FALSE]
      /\ \A j \in Nat : R[j] \in ReadType /\ R[j + 1] = ReadOne(R[j])
  BY ReadingStep
<1>2. file.offset \in Nat /\ file.size \in Nat
  BY DEF FileType
<1>3. \A j \in Nat : SameFile(R[j].file, file)
  BY ReadingKeeps
<1> HIDE DEF R
<1>4. 0 \in good
  <2>1. R[0].file = file /\ R[0].data = <<>> /\ R[0].failed = FALSE
    BY <1>1
  <2>2. Len(R[0].data) = 0 /\ R[0].file.offset = file.offset + 0
    BY <1>2, <2>1
  <2>3. Good(0)
    BY <2>1, <2>2
  <2>4. QED
    BY <2>3
<1>5. ASSUME NEW j \in good PROVE j + 1 \in good
  <2> SUFFICES ASSUME j + 1 <= n PROVE Good(j + 1)
    OBVIOUS
  <2>1. j \in Nat /\ Good(j)
    OBVIOUS
  <2>2. R[j] \in ReadType /\ ~R[j].failed /\ Reachable(R[j].file)
    BY <1>1, <2>1
  <2>3. R[j].file.offset < R[j].file.size /\ Covered(R[j].file.first, R[j].file.size)
    BY <1>2, <1>3, <2>1 DEF SameFile
  <2>4. R[j + 1] = ReadOne(R[j])
    BY <1>1
  <2> HIDE DEF good
  <2>5. /\ ~R[j + 1].failed /\ Len(R[j + 1].data) = Len(R[j].data) + 1
        /\ R[j + 1].file.offset = R[j].file.offset + 1
        /\ \E k \in Nat : AtPlace(R[j + 1].file, k) /\ k * ClusterSize < R[j + 1].file.size
    BY <2>2, <2>3, <2>4, ReadOnePlace
  <2>6. Placed(R[j + 1].file) /\ Reachable(R[j + 1].file)
    BY <2>5 DEF Placed, Reachable
  <2>7. Len(R[j + 1].data) = j + 1 /\ R[j + 1].file.offset = file.offset + (j + 1)
    BY <1>2, <2>1, <2>5
  <2>8. QED
    BY <2>5, <2>6, <2>7
<1>6. good = Nat
  <2> HIDE DEF good
  <2>1. good \in SUBSET Nat
    BY DEF good
  <2>2. QED
    BY <1>4, <1>5, <2>1, Induction
<1>7. Good(n)
  BY <1>6
<1>8. QED
  BY <1>7 DEF R

\* A read that hands out data leaves the file inside; so does one of a file that was.
LEMMA FileReadPlace ==
  ASSUME NEW file \in FileType, Reachable(file), Covered(file.first, file.size),
         NEW size \in Nat \ {0}
  PROVE  LET r == FileRead(file, size)
         IN  /\ Len(r.data) # 0 => Placed(r.file)
             /\ Placed(file) /\ file.offset <= file.size => Placed(r.file)
<1> DEFINE r == FileRead(file, size)
<1>0. file.offset \in Nat /\ file.size \in Nat
  BY DEF FileType
<1>1. CASE file.offset >= file.size
  <2> DEFINE f == [file EXCEPT !.offset = file.size]
  <2>1. r = [file |-> f, data |-> <<>>, failed |-> FALSE]
    BY <1>1 DEF FileRead
  <2>2. f = [file EXCEPT !.offset = file.size]
    OBVIOUS
  <2> HIDE DEF f, r
  <2>3. Len(r.data) = 0 /\ r.file = f
    BY <2>1
  <2>4. f = [fs |-> file.fs, first |-> file.first, size |-> file.size,
             current |-> file.current, offset |-> file.size,
             clusterOffset |-> file.clusterOffset, fileCluster |-> file.fileCluster]
    BY <1>0, <2>2 DEF FileType
  <2>5. file.offset <= file.size => file.offset = file.size
    BY <1>0, <1>1
  <2>6. ASSUME Placed(file), file.offset <= file.size
        PROVE  Placed(f)
    BY <2>4, <2>5, <2>6 DEF Placed, AtPlace
  <2>7. QED
    BY <2>3, <2>6 DEF r
<1>2. CASE ~(file.offset >= file.size)
  <2> DEFINE left == file.size - file.offset
             n == IF size < left THEN size ELSE left
  <2>1. left \in Nat \ {0} /\ left # 0 /\ n \in Nat /\ n > 0 /\ file.offset + n <= file.size
    BY <1>0, <1>2
  <2>2. r = Reading(file)[n]
    <3> HIDE DEF left
    <3>1. left # 0
      BY <2>1
    <3>2. left = IF file.offset >= file.size THEN 0 ELSE file.size - file.offset
      BY <1>2 DEF left
    <3>3. QED
      BY <3>1, <3>2, Zenon DEF FileRead, Reading
  <2> HIDE DEF n, r
  <2>3. Placed(r.file)
    BY <2>1, <2>2, ReadingPlace
  <2>4. QED
    BY <2>3 DEF r
<1>3. QED
  BY <1>1, <1>2

-----------------------------------------------------------------------------
(* The open file and the reader it is for.                                 *)

\* While it sends, the server is bound to the reader that asked, the open file is the
\* one that reader asked for, and its place is inside it.
InPlace(t, u, fs) ==
  t.state = "sending" =>
    /\ u[t.socket].portRemote \in DOMAIN Readers
    /\ LET entry == Lookup(Readers[u[t.socket].portRemote])
       IN  fs[t.file].first = entry.first /\ fs[t.file].size = entry.size
    /\ Placed(fs[t.file])

\* A reset ends the sending, and SendBlock keeps the place.
LEMMA SendBlockInPlace ==
  ASSUME ChainsCover,
         NEW t \in ServerType, NEW u, NEW fs \in FileTable, t.file \in Handles,
         u[t.socket].portRemote \in DOMAIN Readers,
         fs[t.file].first = Lookup(Readers[u[t.socket].portRemote]).first,
         fs[t.file].size = Lookup(Readers[u[t.socket].portRemote]).size,
         Reachable(fs[t.file]),
         NEW ended, ended = "reset" \/ (Placed(fs[t.file]) /\ Inside(fs, t.file)),
         SendBlock(t, u, fs, ended)
  PROVE  InPlace(tftpd', sockets', files')
<1> DEFINE file == fs[t.file]
           read == FileRead(file, BlockSize)
           after == [fs EXCEPT ![t.file] = read.file]
           going == [tftpd |-> t, files |-> after, sockets |-> u]
<1>1. file \in FileType /\ BlockSize \in Nat \ {0}
  BY TftpAssumption DEF FileTable
<1>2. Covered(file.first, file.size)
  BY DEF ChainsCover
<1>3. SameFile(read.file, file)
  BY <1>1, FileReadType
<1>4. /\ Len(read.data) # 0 => Placed(read.file)
      /\ Placed(file) /\ file.offset <= file.size => Placed(read.file)
  BY <1>1, <1>2, FileReadPlace
<1>5. \/ Becomes(going) /\ Len(read.data) # 0
      \/ Becomes(going) /\ ended # "reset"
      \/ Becomes(Reset(t, u, after))
  BY Zenon DEF SendBlock
<1> HIDE DEF read
<1>6. after[t.file] = read.file
  BY DEF FileTable
<1> HIDE DEF after
<1>7. ASSUME Becomes(going), Placed(read.file)
      PROVE  InPlace(tftpd', sockets', files')
  <2>1. tftpd' = t /\ files' = after /\ sockets' = u
    BY <1>7 DEF Becomes
  <2>2. after[t.file].first = file.first /\ after[t.file].size = file.size /\ Placed(after[t.file])
    BY <1>3, <1>6, <1>7 DEF SameFile
  <2>3. InPlace(t, u, after)
    BY <2>2 DEF InPlace
  <2>4. QED
    BY <2>1, <2>3
<1>8. ASSUME Becomes(Reset(t, u, after))
      PROVE  InPlace(tftpd', sockets', files')
  <2>1. tftpd' = [t EXCEPT !.state = "listening", !.mode = "none", !.lastBlock = 0]
    BY <1>8 DEF Becomes, Reset
  <2>2. tftpd'.state = "listening"
    BY <2>1 DEF ServerType
  <2>3. QED
    BY <2>2 DEF InPlace
<1>9. QED
  BY <1>4, <1>5, <1>7, <1>8 DEF Inside

\* The other handlers do not begin to send.
LEMMA NotSending ==
  ASSUME IInv, NEW m, NEW u,
         \/ RrqNotFound(m, u) \/ Wrq(m, u) \/ Data(m, u) \/ DataRefused(m, u) \/ Error(m, u)
  PROVE  tftpd'.state # "sending"
<1>1. tftpd \in ServerType
  BY DEF IInv, ServerOK
<1>2. ASSUME Becomes(Reset(tftpd, u, files)) PROVE tftpd'.state # "sending"
  <2>1. tftpd' = [tftpd EXCEPT !.state = "listening", !.mode = "none", !.lastBlock = 0]
    BY <1>2 DEF Becomes, Reset
  <2>2. tftpd'.state = "listening"
    BY <1>1, <2>1 DEF ServerType
  <2>3. QED
    BY <2>2
<1>3. CASE RrqNotFound(m, u)
  <2>1. tftpd.state = "listening" /\ tftpd' = [tftpd EXCEPT !.mode = "octet", !.file = NoFile]
    BY <1>3 DEF RrqNotFound
  <2>2. QED
    BY <1>1, <2>1 DEF ServerType
<1>4. CASE Wrq(m, u)
  <2>1. PICK left \in SendResults(u), mode \in {"octet", "mail"} :
          /\ tftpd.state = "listening"
          /\ tftpd' = [tftpd EXCEPT !.mode = mode, !.state = IF left THEN "receiving" ELSE @]
    BY <1>4 DEF Wrq
  <2>2. tftpd'.state = IF left THEN "receiving" ELSE tftpd.state
    BY <1>1, <2>1 DEF ServerType
  <2>3. QED
    BY <2>1, <2>2
<1>5. CASE Data(m, u)
  <2>1. /\ tftpd.state = "receiving"
        /\ Becomes(Reset(tftpd, u, files)) \/ tftpd' = [tftpd EXCEPT !.lastBlock = m.block]
    BY <1>5 DEF Data, DataTaken
  <2>2. ASSUME tftpd' = [tftpd EXCEPT !.lastBlock = m.block] PROVE tftpd'.state # "sending"
    BY <1>1, <2>1, <2>2 DEF ServerType
  <2>3. QED
    BY <1>2, <2>1, <2>2
<1>6. CASE DataRefused(m, u) \/ Error(m, u)
  BY <1>2, <1>6 DEF DataRefused, Error
<1>7. QED
  BY <1>3, <1>4, <1>5, <1>6

\* What is needed of a request for a file that there is.
LEMMA Opened ==
  ASSUME IInv, NEW m \in toServer, NEW u, Arrived(u, m.from), RrqFound(m, u)
  PROVE  LET path == Readers[m.from]
             f == FileFor(files, path)
             t == [tftpd EXCEPT !.mode = "octet", !.file = f, !.state = "sending",
                                !.lastBlock = 1]
             fs == FileOpen(files, path)
         IN  /\ m.from \in DOMAIN Readers /\ u[t.socket].portRemote = m.from
             /\ f \in Handles /\ t \in ServerType /\ t.file = f /\ t.lastBlock = 1
             /\ t.state = "sending" /\ t.socket = tftpd.socket
             /\ fs \in FileTable /\ Lookup(path) # NoEntry
             /\ fs[f] = [fs |-> TRUE, first |-> Lookup(path).first, size |-> Lookup(path).size,
                         current |-> Lookup(path).first, offset |-> 0, clusterOffset |-> 0,
                         fileCluster |-> 0]
             /\ SendBlock(t, u, fs, "stay") /\ disorder' = disorder
<1> DEFINE path == Readers[m.from]
           f == FileFor(files, path)
           t == [tftpd EXCEPT !.mode = "octet", !.file = f, !.state = "sending", !.lastBlock = 1]
           fs == FileOpen(files, path)
<1>1. /\ m.type = "RRQ" /\ f # NoFile /\ SendBlock(t, u, fs, "stay") /\ disorder' = disorder
  BY DEF RrqFound
<1>2. /\ tftpd \in ServerType /\ files \in FileTable /\ m.from \in DOMAIN Readers
      /\ u[tftpd.socket].portRemote = m.from
  BY <1>1 DEF IInv, ServerOK, ToServerOK, Arrived
<1>3. Len(path) \in Nat
  BY <1>2, TftpAssumption
<1>4. Lookup(path) # NoEntry
  BY <1>1 DEF FileFor
<1> HIDE DEF path
<1>5. f \in Handles
  BY <1>1, FileForFree
<1>6. /\ fs \in FileTable
      /\ fs[f] = [fs |-> TRUE, first |-> Lookup(path).first, size |-> Lookup(path).size,
                  current |-> Lookup(path).first, offset |-> 0, clusterOffset |-> 0,
                  fileCluster |-> 0]
  BY <1>1, <1>2, <1>3, FileOpenType
<1>7. t = [tftpd EXCEPT !.mode = "octet", !.file = f, !.state = "sending", !.lastBlock = 1]
  OBVIOUS
<1> HIDE DEF f, t, fs
<1>8. t = [socket |-> tftpd.socket, file |-> f, state |-> "sending", mode |-> "octet",
           lastBlock |-> 1]
  BY <1>2, <1>7 DEF ServerType
<1>9. t \in ServerType /\ t.file = f /\ t.lastBlock = 1 /\ t.state = "sending" /\ t.socket = tftpd.socket
  BY <1>2, <1>5, <1>8 DEF ServerType, TftpStates
<1>10. QED
  BY <1>1, <1>2, <1>4, <1>5, <1>6, <1>9, Zenon DEF path, f, t, fs

\* And of an acknowledgment: the reader bound is the one that sends it.
LEMMA Acknowledged ==
  ASSUME IInv, InPlace(tftpd, sockets, files),
         NEW m \in toServer, NEW u, Arrived(u, m.from), Ack(m, u)
  PROVE  LET offset == (m.block * BlockSize) % WordModulus
             t == [tftpd EXCEPT !.lastBlock = m.block + 1]
             file == FileSeek(files[t.file], offset)
             fs == [files EXCEPT ![t.file] = file]
         IN  /\ offset \in Nat /\ m.block \in Nat /\ m.from \in DOMAIN Readers
             /\ sockets[tftpd.socket].portRemote = m.from /\ u[t.socket].portRemote = m.from
             /\ tftpd.state = "sending" /\ t.state = "sending"
             /\ t.file = tftpd.file /\ t.socket = tftpd.socket /\ t.lastBlock = m.block + 1
             /\ tftpd.lastBlock \in Nat
             /\ t \in ServerType /\ t.file \in Handles /\ files[t.file] \in FileType
             /\ fs \in FileTable /\ fs[t.file] = file
             /\ SendBlock(t, u, fs, "reset")
             /\ disorder' = IF InTurn(m) THEN disorder ELSE disorder \union {m.from}
<1> DEFINE offset == (m.block * BlockSize) % WordModulus
           t == [tftpd EXCEPT !.lastBlock = m.block + 1]
           file == FileSeek(files[t.file], offset)
           fs == [files EXCEPT ![t.file] = file]
<1>1. /\ m.type = "ACK" /\ tftpd.state = "sending" /\ SendBlock(t, u, fs, "reset")
      /\ disorder' = IF InTurn(m) THEN disorder ELSE disorder \union {m.from}
  BY DEF Ack
<1>2. /\ tftpd \in ServerType /\ files \in FileTable /\ Open(files) = {tftpd.file}
      /\ m.block \in Nat /\ m.from \in DOMAIN Readers
      /\ u[tftpd.socket].portRemote = m.from
  BY <1>1 DEF IInv, ServerOK, ToServerOK, Arrived
<1>3. offset \in Nat
  <2>1. m.block * BlockSize \in Nat
    BY <1>2, TftpAssumption
  <2>2. QED
    BY <2>1, TftpAssumption
<1> HIDE DEF offset
<1>4. sockets[tftpd.socket].portRemote = m.from
  <2>1. sockets[tftpd.socket].portRemote \in DOMAIN Readers
    BY <1>1 DEF InPlace
  <2>2. sockets[tftpd.socket].portRemote # 0
    BY <2>1, PortsType DEF PortsAreNumbers, Ports
  <2>3. QED
    BY <2>2 DEF Arrived
<1>5. t = [socket |-> tftpd.socket, file |-> tftpd.file, state |-> "sending",
           mode |-> tftpd.mode, lastBlock |-> m.block + 1]
  BY <1>1, <1>2 DEF ServerType
<1> HIDE DEF t
<1>6. /\ t.state = "sending" /\ t.file = tftpd.file /\ t.socket = tftpd.socket
      /\ t.lastBlock = m.block + 1 /\ t \in ServerType /\ tftpd.lastBlock \in Nat
  <2>1. m.block + 1 \in Nat
    BY <1>2
  <2>2. QED
    BY <1>2, <1>5, <2>1 DEF ServerType, TftpStates
<1>7. t.file \in Handles /\ files[t.file] \in FileType
  BY <1>2, <1>6 DEF Open, FileTable
<1>8. file \in FileType /\ SameFile(file, files[t.file])
  BY <1>3, <1>7, FileSeekType
<1> HIDE DEF file
<1>9. fs \in FileTable /\ fs[t.file] = file
  BY <1>2, <1>7, <1>8, FileUpdateType DEF FileTable
<1> HIDE DEF fs
<1>10. QED
  BY <1>1, <1>2, <1>3, <1>4, <1>6, <1>7, <1>9, Zenon DEF offset, t, file, fs

\* A message the state ignores comes, while the server sends, from the reader bound.
LEMMA IgnoredBound ==
  ASSUME IInv, InPlace(tftpd, sockets, files),
         NEW m \in toServer, NEW u, Arrived(u, m.from), Ignored(m, u)
  PROVE  /\ tftpd' = tftpd /\ files' = files /\ toClient' = toClient /\ disorder' = disorder
         /\ tftpd.state = "sending" =>
              sockets'[tftpd.socket].portRemote = sockets[tftpd.socket].portRemote
<1>1. sockets' = u /\ UNCHANGED <<tftpd, files, toClient, disorder>>
  BY DEF Ignored
<1>2. ASSUME tftpd.state = "sending"
      PROVE  u[tftpd.socket].portRemote = sockets[tftpd.socket].portRemote
  <2>1. sockets[tftpd.socket].portRemote \in DOMAIN Readers
    BY <1>2 DEF InPlace
  <2>2. sockets[tftpd.socket].portRemote # 0
    BY <2>1, PortsType DEF PortsAreNumbers, Ports
  <2>3. QED
    BY <2>2 DEF Arrived
<1>3. QED
  BY <1>1, <1>2

\* Each message the server gets keeps the open file the one its reader asked for,
\* and its place inside.
LEMMA ReceiveInPlace ==
  ASSUME ChainsCover, IInv, InPlace(tftpd, sockets, files),
         NEW m \in toServer, NEW u, Arrived(u, m.from), tftpd_callback(m, u)
  PROVE  InPlace(tftpd', sockets', files')
<1>1. CASE RrqFound(m, u)
  <2> DEFINE path == Readers[m.from]
             f == FileFor(files, path)
             t == [tftpd EXCEPT !.mode = "octet", !.file = f, !.state = "sending",
                                !.lastBlock = 1]
             fs == FileOpen(files, path)
  <2>1. /\ m.from \in DOMAIN Readers /\ u[t.socket].portRemote = m.from
        /\ f \in Handles /\ t \in ServerType /\ t.file = f
        /\ fs \in FileTable
        /\ fs[f] = [fs |-> TRUE, first |-> Lookup(path).first, size |-> Lookup(path).size,
                    current |-> Lookup(path).first, offset |-> 0, clusterOffset |-> 0,
                    fileCluster |-> 0]
        /\ SendBlock(t, u, fs, "stay")
    BY <1>1, Opened
  <2> HIDE DEF t, f, fs
  <2>2. fs[f] \in FileType
    BY <2>1 DEF FileTable
  <2>3. AtPlace(fs[f], 0) /\ Inside(fs, f)
    <3>1. fs[f].first \in Nat /\ fs[f].size \in Nat
      BY <2>2 DEF FileType
    <3>2. Steps(fs[f].first)[0] = fs[f].first
      BY <3>1, StepsStep
    <3>3. 0 * ClusterSize + 0 <= 0
      BY FatAssumption
    <3>4. QED
      BY <2>1, <3>1, <3>2, <3>3 DEF AtPlace, Inside
  <2>4. Reachable(fs[f]) /\ Placed(fs[f])
    BY <2>3 DEF Reachable, Placed
  <2>5. fs[f].first = Lookup(path).first /\ fs[f].size = Lookup(path).size
    BY <2>1
  <2>6. QED
    BY <2>1, <2>3, <2>4, <2>5, SendBlockInPlace
<1>2. CASE Ack(m, u)
  <2> DEFINE offset == (m.block * BlockSize) % WordModulus
             t == [tftpd EXCEPT !.lastBlock = m.block + 1]
             file == FileSeek(files[t.file], offset)
             fs == [files EXCEPT ![t.file] = file]
  <2>1. /\ offset \in Nat /\ m.from \in DOMAIN Readers
        /\ sockets[tftpd.socket].portRemote = m.from /\ u[t.socket].portRemote = m.from
        /\ tftpd.state = "sending" /\ t.file = tftpd.file
        /\ t \in ServerType /\ t.file \in Handles /\ files[t.file] \in FileType
        /\ fs \in FileTable /\ fs[t.file] = file /\ SendBlock(t, u, fs, "reset")
    BY <1>2, Acknowledged
  <2> HIDE DEF offset, t
  <2>2. SameFile(file, files[t.file])
    BY <2>1, FileSeekType
  <2>3. /\ files[t.file].first = Lookup(Readers[m.from]).first
        /\ files[t.file].size = Lookup(Readers[m.from]).size
        /\ Placed(files[t.file])
    BY <2>1 DEF InPlace
  <2>4. Reachable(files[t.file])
    BY <2>3 DEF Placed, Reachable
  <2>5. Reachable(file)
    BY <2>1, <2>4, SeekReachable
  <2> HIDE DEF file, fs
  <2>6. QED
    BY <2>1, <2>2, <2>3, <2>5, SendBlockInPlace DEF SameFile
<1>3. CASE Ignored(m, u)
  BY <1>3, IgnoredBound DEF InPlace
<1>4. CASE RrqNotFound(m, u) \/ Wrq(m, u) \/ Data(m, u) \/ DataRefused(m, u) \/ Error(m, u)
  BY <1>4, NotSending DEF InPlace
<1>5. QED
  BY <1>1, <1>2, <1>3, <1>4 DEF tftpd_callback

\* The message of a step of the server, with the table of sockets it is handled in.
LEMMA Received ==
  ASSUME IInv, Receive
  PROVE  \E m \in toServer : \E u : Arrived(u, m.from) /\ tftpd_callback(m, u)
<1>1. PICK m \in toServer :
        LET to == Receivers(sockets, Client, m.from, TFTP_UDP_PORT)
        IN  /\ to # {}
            /\ tftpd_callback(m, Delivered(sockets, Lowest(to), Client, m.from))
  BY DEF Receive
<1> DEFINE u == Delivered(sockets, Lowest(Receivers(sockets, Client, m.from, TFTP_UDP_PORT)),
                          Client, m.from)
<1>2. Arrived(u, m.from)
  BY <1>1, Arrival
<1>3. QED
  BY <1>1, <1>2

\* So that holds in every state, if the chains cover the files.
LEMMA InductiveInPlace ==
  ASSUME ChainsCover PROVE Spec => [](IInv /\ InPlace(tftpd, sockets, files))
<1> DEFINE J == IInv /\ InPlace(tftpd, sockets, files)
<1>1. Init => J
  <2> SUFFICES ASSUME Init PROVE J
    OBVIOUS
  <2>1. tftpd.state = "listening"
    BY DEF Init
  <2>2. QED
    BY <2>1, InitOK DEF InPlace
<1>2. J /\ [Next]_vars => J'
  <2> SUFFICES ASSUME J, [Next]_vars PROVE J'
    OBVIOUS
  <2>1. IInv'
    <3>1. CASE Receive
      BY <3>1, ReceiveOK
    <3>2. CASE Deliver
      BY <3>2, DeliverOK
    <3>3. ASSUME NEW p \in Ports, GiveUp(p) PROVE IInv'
      BY <3>3, GiveUpOK
    <3>4. CASE UNCHANGED vars
      BY <3>4 DEF vars, IInv
    <3>5. QED
      BY <3>1, <3>2, <3>3, <3>4 DEF Next
  <2>2. CASE Receive
    <3>1. PICK m \in toServer : \E u : Arrived(u, m.from) /\ tftpd_callback(m, u)
      BY <2>2, Received
    <3>2. PICK u : Arrived(u, m.from) /\ tftpd_callback(m, u)
      BY <3>1
    <3>3. QED
      BY <2>1, <3>2, ReceiveInPlace
  <2>3. CASE UNCHANGED <<tftpd, sockets, files>>
    BY <2>1, <2>3 DEF InPlace
  <2>4. QED
    BY <2>2, <2>3 DEF Next, Deliver, GiveUp, vars
<1>3. QED
  BY <1>1, <1>2, PTL DEF Spec

\* The cluster at hand belongs to the file, wherever the acknowledgments have sent it.
THEOREM ChainKept == ASSUME ChainsCover PROVE Spec => []InChain
<1>1. IInv /\ InPlace(tftpd, sockets, files) => InChain
  <2> SUFFICES ASSUME IInv, InPlace(tftpd, sockets, files), NEW f \in Handles, files[f].fs
               PROVE  \E i \in DOMAIN Chain(files[f].first) :
                        files[f].current = Chain(files[f].first)[i]
    BY DEF InChain
  <2>1. tftpd.state = "sending" /\ f = tftpd.file
    BY DEF IInv, ServerOK, Open
  <2>2. /\ files[f] \in FileType /\ Placed(files[f])
        /\ \E p \in DOMAIN Readers : /\ files[f].first = Lookup(Readers[p]).first
                                     /\ files[f].size = Lookup(Readers[p]).size
    BY <2>1 DEF IInv, ServerOK, InPlace, FileTable
  <2>3. Covered(files[f].first, files[f].size)
    BY <2>2 DEF ChainsCover
  <2>4. files[f].first \in Nat /\ files[f].size \in Nat
    BY <2>2 DEF FileType
  <2>5. PICK k \in Nat : /\ files[f].current = Steps(files[f].first)[k]
                         /\ k = 0 \/ k * ClusterSize < files[f].size
    BY <2>2 DEF Placed, AtPlace
  <2>6. CASE k = 0
    <3> DEFINE c == Chain(files[f].first)
    <3>1. c \in Seq(Nat) /\ Len(c) >= 1 /\ c[1] = files[f].first
      BY <2>4, ChainSteps
    <3>2. files[f].current = files[f].first
      BY <2>4, <2>5, <2>6, StepsStep
    <3> HIDE DEF c
    <3>3. 1 \in DOMAIN c /\ files[f].current = c[1]
      BY <3>1, <3>2
    <3>4. QED
      BY <3>3 DEF c
  <2>7. CASE k * ClusterSize < files[f].size
    BY <2>3, <2>4, <2>5, <2>7, CoveredCluster
  <2>8. QED
    BY <2>5, <2>6, <2>7
<1>2. QED
  BY <1>1, InductiveInPlace, PTL

-----------------------------------------------------------------------------
(* Blocks, as long as acknowledgments come in turn.                        *)

\* What is read inside one cluster.
LEMMA ReadingWithin ==
  ASSUME NEW file \in FileType, NEW n \in Nat, file.clusterOffset + n <= ClusterSize
  PROVE  LET r == Reading(file)[n]
         IN  /\ r.data \in Seq(Nat \X Nat) /\ Len(r.data) = n
             /\ \A i \in 1 .. n : r.data[i] = <<file.current, file.clusterOffset + (i - 1)>>
             /\ r.file.current = file.current /\ r.file.fileCluster = file.fileCluster
             /\ r.file.offset = file.offset + n
<1> DEFINE R == Reading(file)
           o == file.clusterOffset
           Good(j) ==
             /\ ~R[j].failed /\ Len(R[j].data) = j
             /\ \A i \in 1 .. j : R[j].data[i] = <<file.current, o + (i - 1)>>
             /\ R[j].file.current = file.current /\ R[j].file.fileCluster = file.fileCluster
             /\ R[j].file.offset = file.offset + j /\ R[j].file.clusterOffset = o + j
           good == {j \in Nat : j <= n => Good(j)}
<1>1. /\ R[0] = [file |-> file, data |-> <<>>, failed |-> FALSE]
      /\ \A j \in Nat : R[j] \in ReadType /\ R[j + 1] = ReadOne(R[j])
  BY ReadingStep
<1>2. /\ file.offset \in Nat /\ o \in Nat /\ ClusterSize \in Nat /\ o + n <= ClusterSize
      /\ file.current \in Nat
  BY FatAssumption DEF FileType
<1> HIDE DEF R, o
<1>3. 0 \in good
  <2>1. R[0].file = file /\ R[0].data = <<>> /\ R[0].failed = FALSE
    BY <1>1
  <2>2. Len(R[0].data) = 0 /\ R[0].file.offset = file.offset + 0 /\ R[0].file.clusterOffset = o + 0
    BY <1>2, <2>1 DEF o
  <2>3. Good(0)
    BY <2>1, <2>2
  <2>4. QED
    BY <2>3
<1>4. ASSUME NEW j \in good PROVE j + 1 \in good
  <2> SUFFICES ASSUME j + 1 <= n PROVE Good(j + 1)
    OBVIOUS
  <2>1. j \in Nat /\ Good(j)
    OBVIOUS
  <2> HIDE DEF good
  <2> DEFINE r == R[j]
             f == r.file
             next == [f EXCEPT !.clusterOffset = @ + 1, !.offset = @ + 1]
             unit == <<f.current, f.clusterOffset>>
  <2>2. r \in ReadType /\ R[j + 1] = ReadOne(r)
    BY <1>1, <2>1
  <2>3. ~(f.clusterOffset >= ClusterSize) /\ ~r.failed
    BY <1>2, <2>1
  <2> HIDE DEF r
  <2>4. R[j + 1] = [file |-> next, data |-> Append(r.data, unit), failed |-> FALSE]
    BY <2>2, <2>3 DEF ReadOne
  <2>5. f \in FileType /\ r.data \in Seq(Nat \X Nat)
    BY <2>2 DEF ReadType
  <2>6. next = [f EXCEPT !.clusterOffset = f.clusterOffset + 1, !.offset = f.offset + 1]
    OBVIOUS
  <2> HIDE DEF f, next, unit
  <2>7. next = [fs |-> f.fs, first |-> f.first, size |-> f.size, current |-> f.current,
                offset |-> f.offset + 1, clusterOffset |-> f.clusterOffset + 1,
                fileCluster |-> f.fileCluster]
    BY <2>5, <2>6 DEF FileType
  <2>8. unit \in Nat \X Nat
    BY <2>5 DEF FileType, unit
  <2>9. /\ f.current = file.current /\ f.fileCluster = file.fileCluster
        /\ f.offset = file.offset + j /\ f.clusterOffset = o + j
        /\ Len(r.data) = j
        /\ \A i \in 1 .. j : r.data[i] = <<file.current, o + (i - 1)>>
    BY <2>1 DEF f, r
  <2> DEFINE d == Append(r.data, unit)
  <2>10. /\ Len(d) = j + 1 /\ d[j + 1] = unit
         /\ \A i \in 1 .. j : d[i] = r.data[i]
    BY <2>5, <2>8, <2>9
  <2> HIDE DEF d
  <2>11. unit = <<file.current, o + ((j + 1) - 1)>>
    <3>1. (j + 1) - 1 = j
      BY <2>1
    <3>2. QED
      BY <2>9, <3>1 DEF unit
  <2>12. \A i \in 1 .. j + 1 : d[i] = <<file.current, o + (i - 1)>>
    <3> TAKE i \in 1 .. j + 1
    <3>1. CASE i = j + 1
      BY <2>10, <2>11, <3>1
    <3>2. CASE i \in 1 .. j
      BY <2>9, <2>10, <3>2
    <3>3. QED
      BY <2>1, <3>1, <3>2
  <2>13. R[j + 1].data = d /\ R[j + 1].file = next /\ R[j + 1].failed = FALSE
    BY <2>4 DEF d
  <2>14. /\ next.current = file.current /\ next.fileCluster = file.fileCluster
         /\ next.offset = file.offset + (j + 1) /\ next.clusterOffset = o + (j + 1)
    <3>1. /\ next.current = f.current /\ next.fileCluster = f.fileCluster
          /\ next.offset = f.offset + 1 /\ next.clusterOffset = f.clusterOffset + 1
      BY <2>7
    <3>2. /\ (file.offset + j) + 1 = file.offset + (j + 1)
          /\ (o + j) + 1 = o + (j + 1)
      <4>1. j \in Nat
        BY <2>1
      <4>2. QED
        BY <1>2, <4>1
    <3>3. QED
      BY <2>9, <3>1, <3>2
  <2> HIDE DEF next
  <2>15. ~R[j + 1].failed /\ Len(R[j + 1].data) = j + 1
    BY <2>10, <2>13
  <2>16. \A i \in 1 .. j + 1 : R[j + 1].data[i] = <<file.current, o + (i - 1)>>
    BY <2>12, <2>13
  <2>17. /\ R[j + 1].file.current = file.current /\ R[j + 1].file.fileCluster = file.fileCluster
         /\ R[j + 1].file.offset = file.offset + (j + 1)
         /\ R[j + 1].file.clusterOffset = o + (j + 1)
    BY <2>13, <2>14
  <2>18. QED
    BY <2>15, <2>16, <2>17
<1>5. good = Nat
  <2> HIDE DEF good
  <2>1. good \in SUBSET Nat
    BY DEF good
  <2>2. QED
    BY <1>3, <1>4, <2>1, Induction
<1>6. Good(n) /\ R[n] \in ReadType
  <2>1. n \in good
    BY <1>5
  <2>2. Good(n)
    BY <2>1
  <2>3. QED
    BY <1>1, <2>2
<1>7. R[n].data \in Seq(Nat \X Nat)
  BY <1>6 DEF ReadType
<1>8. QED
  BY <1>6, <1>7 DEF R, o

\* Where the blocks of a file begin: in one cluster each.
BlockAt(b) == b * BlockSize
ClusterOf(b) == BlockAt(b) \div ClusterSize
WithinCluster(b) == BlockAt(b) % ClusterSize

\* Each block lies in one cluster, and the next one not before it.
LEMMA BlockInCluster ==
  ASSUME BlocksFit, NEW b \in Nat
  PROVE  /\ BlockAt(b) \in Nat /\ ClusterOf(b) \in Nat /\ WithinCluster(b) \in Nat
         /\ ClusterOf(b) * ClusterSize + WithinCluster(b) = BlockAt(b)
         /\ WithinCluster(b) + BlockSize <= ClusterSize
         /\ ClusterOf(b) <= ClusterOf(b + 1)
         /\ BlockAt(b + 1) = BlockAt(b) + BlockSize
<1> DEFINE T == BlockAt(b)
           n == T \div ClusterSize
           o == T % ClusterSize
           q == ClusterSize \div BlockSize
<1>1. /\ ClusterSize \in Nat \ {0} /\ BlockSize \in Nat \ {0} /\ ClusterSize % BlockSize = 0
  BY FatAssumption, TftpAssumption DEF BlocksFit
<1>2. T \in Nat /\ BlockAt(b + 1) = T + BlockSize
  BY <1>1 DEF BlockAt
<1>3. q \in Nat /\ ClusterSize = q * BlockSize
  BY <1>1
<1> HIDE DEF T
<1>4. n \in Nat /\ o \in Nat /\ n * ClusterSize + o = T /\ o < ClusterSize
  BY <1>1, <1>2
<1>5. n <= (T + BlockSize) \div ClusterSize
  <2> DEFINE k == (T + BlockSize) \div ClusterSize
             p == (T + BlockSize) % ClusterSize
  <2>1. k \in Nat /\ p \in Nat /\ p < ClusterSize /\ k * ClusterSize + p = T + BlockSize
    BY <1>1, <1>2
  <2> HIDE DEF k, p
  <2> HIDE DEF n, o
  <2>2. ASSUME k < n PROVE FALSE
    <3>1. k + 1 <= n /\ k + 1 \in Nat
      BY <1>4, <2>1, <2>2
    <3>2. (k + 1) * ClusterSize <= n * ClusterSize
      BY <1>1, <1>4, <3>1
    <3>3. (k + 1) * ClusterSize = k * ClusterSize + ClusterSize
      BY <1>1, <2>1
    <3>4. k * ClusterSize \in Nat /\ n * ClusterSize \in Nat
      BY <1>1, <1>4, <2>1
    <3>5. QED
      BY <1>1, <1>2, <1>4, <2>1, <3>2, <3>3, <3>4
  <2>3. QED
    BY <1>4, <2>1, <2>2 DEF k
<1> HIDE DEF n, o, q
<1>6. o + BlockSize <= ClusterSize
  <2> DEFINE r == b - n * q
  <2>1. r \in Int /\ n * q \in Int
    BY <1>3, <1>4
  <2>2. o = r * BlockSize
    <3>1. n * ClusterSize = (n * q) * BlockSize
      BY <1>1, <1>3, <1>4
    <3>2. T = b * BlockSize
      BY DEF T, BlockAt
    <3>3. (b - n * q) * BlockSize = b * BlockSize - (n * q) * BlockSize
      BY <1>1, <2>1
    <3>4. b * BlockSize \in Nat /\ (n * q) * BlockSize \in Int
      BY <1>1, <2>1
    <3>5. QED
      BY <1>1, <1>4, <3>1, <3>2, <3>3, <3>4
  <2> HIDE DEF r
  <2>3. r < q
    <3>1. r * BlockSize < q * BlockSize
      BY <1>3, <1>4, <2>2
    <3>2. q <= r => q * BlockSize <= r * BlockSize
      BY <1>1, <1>3, <2>1
    <3>3. r * BlockSize \in Int /\ q * BlockSize \in Int
      BY <1>1, <1>3, <2>1
    <3>4. QED
      BY <1>3, <2>1, <3>1, <3>2, <3>3
  <2>4. (r + 1) * BlockSize <= q * BlockSize
    BY <1>1, <1>3, <2>1, <2>3
  <2>5. (r + 1) * BlockSize = r * BlockSize + BlockSize
    BY <1>1, <2>1
  <2>6. QED
    BY <1>3, <2>2, <2>4, <2>5
<1>7. QED
  BY <1>2, <1>4, <1>5, <1>6 DEF ClusterOf, WithinCluster, n, o, T

\* A quotient is known by what it leaves.
LEMMA Quotient ==
  ASSUME NEW q \in Nat, NEW r \in Nat, r < ClusterSize
  PROVE  (q * ClusterSize + r) \div ClusterSize = q /\ (q * ClusterSize + r) % ClusterSize = r
<1> DEFINE x == q * ClusterSize + r
           k == x \div ClusterSize
           p == x % ClusterSize
<1>1. ClusterSize \in Nat \ {0} /\ q * ClusterSize \in Nat
  BY FatAssumption
<1>2. x \in Nat
  BY <1>1
<1> HIDE DEF x
<1>3. k \in Nat /\ p \in Nat /\ p < ClusterSize /\ k * ClusterSize + p = x
  BY <1>1, <1>2
<1> HIDE DEF k, p
<1>4. ASSUME NEW i \in Nat, NEW j \in Nat, NEW y \in Nat, NEW z \in Nat,
             y < ClusterSize, i * ClusterSize + y = j * ClusterSize + z
      PROVE  j <= i
  <2>1. ASSUME i < j PROVE FALSE
    <3>1. i + 1 \in Nat /\ i + 1 <= j
      BY <2>1
    <3>2. (i + 1) * ClusterSize <= j * ClusterSize
      BY <1>1, <3>1
    <3>3. (i + 1) * ClusterSize = i * ClusterSize + ClusterSize
      BY <1>1
    <3>4. i * ClusterSize \in Nat /\ j * ClusterSize \in Nat
      BY <1>1
    <3>5. QED
      BY <1>1, <1>4, <3>2, <3>3, <3>4
  <2>2. QED
    BY <2>1
<1>5. k * ClusterSize + p = q * ClusterSize + r
  BY <1>3 DEF x
<1>6. k = q
  <2>1. q <= k
    BY <1>3, <1>4, <1>5
  <2>2. k <= q
    BY <1>3, <1>4, <1>5
  <2>3. QED
    BY <1>3, <2>1, <2>2
<1>7. p = r
  BY <1>1, <1>3, <1>5, <1>6
<1>8. QED
  BY <1>6, <1>7 DEF k, p, x

\* The file stands where block b of its data begins, from 0: what has been counted
\* and what has been walked agree.
AtBlock(file, b) ==
  /\ b \in Nat /\ BlockAt(b) < file.size
  /\ file.current = Steps(file.first)[ClusterOf(b)]
  /\ file.fileCluster = ClusterOf(b)
  /\ file.offset = BlockAt(b) /\ file.clusterOffset = WithinCluster(b)

\* Where the data up to the next block, or to the end of the file, ends.
BlockEnd(b, size) == IF BlockAt(b) + BlockSize < size THEN BlockAt(b) + BlockSize ELSE size

\* The file stands behind block b, and still in its cluster.
BehindBlock(file, b) ==
  /\ b \in Nat /\ BlockAt(b) < file.size
  /\ file.current = Steps(file.first)[ClusterOf(b)]
  /\ file.fileCluster = ClusterOf(b)
  /\ file.offset = BlockEnd(b, file.size)

\* A block that is not empty begins in a cluster of the chain.
LEMMA BlockCovered ==
  ASSUME BlocksFit, NEW first \in Nat, NEW size \in Nat, Covered(first, size),
         NEW b \in Nat, BlockAt(b) < size
  PROVE  /\ Chain(first)[ClusterOf(b) + 1] = Steps(first)[ClusterOf(b)]
         /\ Steps(first)[ClusterOf(b)] >= 2
<1> DEFINE n == ClusterOf(b)
<1>1. /\ n \in Nat /\ WithinCluster(b) \in Nat /\ BlockAt(b) \in Nat /\ ClusterSize \in Nat
      /\ n * ClusterSize + WithinCluster(b) = BlockAt(b)
  BY BlockInCluster, FatAssumption
<1> HIDE DEF n
<1>2. n * ClusterSize \in Nat
  BY <1>1
<1>3. n * ClusterSize < size
  BY <1>1, <1>2
<1>4. QED
  BY <1>1, <1>3, CoveredCluster DEF n

\* The acknowledgment of the block that was sent, or of the one before it, takes the
\* file to the beginning of the next, or of the same again, or to its end.
LEMMA SeekBlock ==
  ASSUME BlocksFit, NEW file \in FileType, Covered(file.first, file.size),
         NEW b \in Nat, BehindBlock(file, b), NEW a \in {b, b + 1}
  PROVE  \/ AtBlock(FileSeek(file, BlockAt(a)), a)
         \/ FileSeek(file, BlockAt(a)).offset >= file.size
<1> DEFINE offset == BlockAt(a)
           n == offset \div ClusterSize
           steps == IF n >= file.fileCluster THEN n - file.fileCluster ELSE n
           c == IF n >= file.fileCluster THEN file.current ELSE file.first
           o == offset % ClusterSize
           sought == FileSeek(file, offset)
<1>1. /\ a \in Nat /\ offset \in Nat /\ ClusterOf(b) \in Nat
      /\ n = ClusterOf(a) /\ o = WithinCluster(a) /\ n \in Nat
      /\ BlockAt(b + 1) = BlockAt(b) + BlockSize
  BY BlockInCluster DEF ClusterOf, WithinCluster
<1>2. ClusterOf(b) <= n
  <2>1. ClusterOf(b) <= ClusterOf(b + 1)
    BY BlockInCluster
  <2>2. QED
    BY <1>1, <2>1
<1>3. /\ steps \in Nat /\ sought.fileCluster = file.fileCluster + steps
      /\ IF Steps(c)[steps] < 2
         THEN sought.offset = file.offset
         ELSE /\ sought.current = Steps(c)[steps] /\ sought.offset = offset
              /\ sought.clusterOffset = o
  BY <1>1, SeekCases
<1>4. sought.first = file.first /\ sought.size = file.size
  BY <1>1, FileSeekType DEF SameFile
<1>5. file.first \in Nat /\ file.size \in Nat
  BY DEF FileType
<1>6. /\ file.current = Steps(file.first)[ClusterOf(b)] /\ file.fileCluster = ClusterOf(b)
      /\ file.offset = BlockEnd(b, file.size) /\ BlockAt(b) < file.size
  BY DEF BehindBlock
<1>7. c = Steps(file.first)[ClusterOf(b)] /\ steps = n - ClusterOf(b)
  BY <1>2, <1>6
<1> HIDE DEF c, steps, sought
<1>8. Steps(c)[steps] = Steps(file.first)[n]
  <2>1. Steps(Steps(file.first)[ClusterOf(b)])[steps] = Steps(file.first)[ClusterOf(b) + steps]
    <3>1. file.first \in Nat /\ ClusterOf(b) \in Nat /\ steps \in Nat
      BY <1>1, <1>3, <1>5
    <3>2. QED
      BY <3>1, StepsAdd, Zenon
  <2>2. ClusterOf(b) + steps = n
    <3> HIDE DEF n
    <3> QED BY <1>1, <1>3, <1>7
  <2>3. QED
    BY <1>7, <2>1, <2>2
<1> HIDE DEF n, o, offset
<1>9. CASE BlockAt(a) < file.size
  <2>1. ~(Steps(c)[steps] < 2)
    <3>1. Steps(file.first)[ClusterOf(a)] >= 2
      BY <1>1, <1>5, <1>9, BlockCovered
    <3>2. Steps(file.first)[ClusterOf(a)] \in Nat
      BY <1>1, <1>5, StepsStep
    <3>3. QED
      BY <1>1, <1>8, <3>1, <3>2
  <2>2. sought.fileCluster = n
    BY <1>1, <1>3, <1>6, <1>7
  <2>3. sought.current = Steps(file.first)[n] /\ sought.offset = offset /\ sought.clusterOffset = o
    BY <1>3, <1>8, <2>1
  <2>4. AtBlock(sought, a)
    BY <1>1, <1>4, <1>9, <2>2, <2>3 DEF AtBlock, offset
  <2>5. QED
    BY <2>4 DEF sought, offset
<1>10. CASE ~(BlockAt(a) < file.size)
  <2>1. BlockAt(a) >= file.size /\ BlockAt(b) \in Nat /\ BlockSize \in Nat
    <3>1. BlockAt(a) \in Nat /\ BlockAt(b) \in Nat
      BY <1>1, BlockInCluster
    <3>2. QED
      BY <1>5, <1>10, <3>1, TftpAssumption
  <2>2. a = b + 1
    BY <1>6, <1>10
  <2>3. file.offset = file.size
    BY <1>1, <1>5, <1>6, <2>1, <2>2 DEF BlockEnd
  <2>4. sought.offset >= file.size
    <3>1. sought.offset = file.offset \/ sought.offset = offset
      BY <1>3
    <3>2. QED
      BY <1>5, <2>1, <2>3, <3>1 DEF offset
  <2>5. QED
    BY <2>4 DEF sought, offset
<1>11. QED
  BY <1>9, <1>10

\* What is read from there is the block, up to the end of the file.
LEMMA ReadBlock ==
  ASSUME BlocksFit, NEW file \in FileType, Covered(file.first, file.size),
         NEW b \in Nat, AtBlock(file, b)
  PROVE  LET r == FileRead(file, BlockSize)
         IN  /\ r.data = Contents(file.first, BlockAt(b), BlockEnd(b, file.size))
             /\ BehindBlock(r.file, b)
<1> DEFINE T == BlockAt(b)
           k == ClusterOf(b)
           w == WithinCluster(b)
           left == file.size - file.offset
           n == IF BlockSize < left THEN BlockSize ELSE left
           r == FileRead(file, BlockSize)
<1>1. /\ T \in Nat /\ k \in Nat /\ w \in Nat /\ k * ClusterSize + w = T
      /\ w + BlockSize <= ClusterSize
  BY BlockInCluster
<1>2. /\ file.offset = T /\ file.clusterOffset = w /\ file.fileCluster = k
      /\ file.current = Steps(file.first)[k] /\ T < file.size
  BY DEF AtBlock
<1>3. /\ file.size \in Nat /\ file.first \in Nat /\ BlockSize \in Nat \ {0}
      /\ ClusterSize \in Nat \ {0}
  BY TftpAssumption, FatAssumption DEF FileType
<1> HIDE DEF T, k, w
<1>4. left \in Nat /\ left # 0 /\ left = file.size - T
  BY <1>1, <1>2, <1>3
<1>5. /\ n \in Nat /\ n <= BlockSize /\ n <= left
  BY <1>3, <1>4
<1>6. T + n = BlockEnd(b, file.size)
  BY <1>1, <1>3, <1>4 DEF BlockEnd, T
<1>7. r = Reading(file)[n]
  <2>1. left = IF file.offset >= file.size THEN 0 ELSE file.size - file.offset
    BY <1>1, <1>2, <1>3
  <2> HIDE DEF left
  <2>2. left # 0
    BY <1>4
  <2>3. QED
    BY <2>1, <2>2, Zenon DEF FileRead, Reading
<1> HIDE DEF left, n
<1>8. file.clusterOffset + n <= ClusterSize
  BY <1>1, <1>2, <1>3, <1>5
<1>9. /\ r.data \in Seq(Nat \X Nat) /\ Len(r.data) = n
      /\ \A i \in 1 .. n : r.data[i] = <<file.current, file.clusterOffset + (i - 1)>>
      /\ r.file.current = file.current /\ r.file.fileCluster = file.fileCluster
      /\ r.file.offset = file.offset + n
  BY <1>5, <1>7, <1>8, ReadingWithin
<1>10. SameFile(r.file, file)
  BY <1>3, FileReadType
<1> HIDE DEF r
<1>11. BehindBlock(r.file, b)
  BY <1>2, <1>6, <1>9, <1>10 DEF BehindBlock, SameFile, T, k
<1>12. r.data = Contents(file.first, T, T + n)
  <2> DEFINE unit(i) == <<Chain(file.first)[(T + i - 1) \div ClusterSize + 1],
                          (T + i - 1) % ClusterSize>>
  <2>1. Chain(file.first)[k + 1] = file.current
    BY <1>2, <1>3, BlockCovered DEF T, k
  <2>2. ASSUME NEW i \in 1 .. n PROVE r.data[i] = unit(i)
    <3> DEFINE j == w + (i - 1)
    <3>1. j \in Nat /\ j < ClusterSize
      BY <1>1, <1>3, <1>5
    <3>2. T + i - 1 = k * ClusterSize + j
      <4>1. k * ClusterSize \in Nat
        BY <1>1, <1>3
      <4>2. QED
        BY <1>1, <4>1
    <3>3. r.data[i] = <<file.current, j>>
      BY <1>2, <1>9
    <3> HIDE DEF j
    <3>4. (T + i - 1) \div ClusterSize = k /\ (T + i - 1) % ClusterSize = j
      BY <1>1, <3>1, <3>2, Quotient
    <3>5. QED
      BY <2>1, <3>3, <3>4
  <2>3. (T + n) - T = n
    BY <1>1, <1>5
  <2>4. Contents(file.first, T, T + n) = [i \in 1 .. n |-> unit(i)]
    <3>1. Contents(file.first, T, T + n) = [i \in 1 .. (T + n) - T |-> unit(i)]
      BY DEF Contents
    <3> HIDE DEF unit
    <3>2. QED
      BY <2>3, <3>1
  <2> HIDE DEF unit
  <2>5. r.data = [i \in 1 .. n |-> r.data[i]]
    <3> DEFINE d == r.data
    <3>1. d \in Seq(Nat \X Nat) /\ Len(d) = n
      BY <1>9
    <3> HIDE DEF d
    <3>2. d = [i \in 1 .. n |-> d[i]]
      BY <3>1
    <3>3. QED
      BY <3>2 DEF d
  <2>6. QED
    BY <2>2, <2>4, <2>5
<1>13. QED
  BY <1>6, <1>11, <1>12 DEF r, T

\* At its end, or behind it, a file gives nothing.
LEMMA ReadNothing ==
  ASSUME NEW file \in FileType, file.offset >= file.size
  PROVE  FileRead(file, BlockSize).data = <<>>
<1> DEFINE f == [file EXCEPT !.offset = file.size]
<1>1. FileRead(file, BlockSize) = [file |-> f, data |-> <<>>, failed |-> FALSE]
  BY DEF FileRead
<1>2. QED
  BY <1>1

\* While the server sends to a reader whose acknowledgments came in turn, the file
\* was found, and stands behind the block sent last, unless it is empty.
Orderly(t, u, fs, D) ==
  t.state = "sending" /\ u[t.socket].portRemote \notin D =>
    /\ Lookup(Readers[u[t.socket].portRemote]) # NoEntry
    /\ fs[t.file].size = 0 \/ BehindBlock(fs[t.file], t.lastBlock - 1)

Blocks(M, D) == \A m \in M : m.to \notin D => IsBlockOfFile(m)

\* The packet that carries the next block, if there is one.
LEMMA SendBlockOrderly ==
  ASSUME ChainsCover, LookupFinds, BlocksFit,
         NEW t \in ServerType, t.socket = tftpd.socket, NEW u,
         NEW fs \in FileTable, t.file \in Handles,
         NEW p \in DOMAIN Readers, u[t.socket].portRemote = p,
         Lookup(Readers[p]) # NoEntry,
         fs[t.file].first = Lookup(Readers[p]).first,
         fs[t.file].size = Lookup(Readers[p]).size,
         NEW b \in Nat, t.lastBlock = b + 1,
         AtBlock(fs[t.file], b) \/ fs[t.file].offset >= fs[t.file].size,
         NEW ended, ended = "reset" \/ fs[t.file].offset = 0,
         SendBlock(t, u, fs, ended),
         NEW D, Blocks(toClient, D)
  PROVE  Orderly(tftpd', sockets', files', D) /\ Blocks(toClient', D)
<1> DEFINE file == fs[t.file]
           read == FileRead(file, BlockSize)
           after == [fs EXCEPT ![t.file] = read.file]
           going == [tftpd |-> t, files |-> after, sockets |-> u]
<1>1. file \in FileType /\ BlockSize \in Nat \ {0}
  BY TftpAssumption DEF FileTable
<1>2. Covered(file.first, file.size)
  BY DEF ChainsCover
<1>3. SameFile(read.file, file)
  BY <1>1, FileReadType
<1>4. CASE AtBlock(file, b)
  <2>1. /\ read.data = Contents(file.first, BlockAt(b), BlockEnd(b, file.size))
        /\ BehindBlock(read.file, b)
    BY <1>1, <1>2, <1>4, ReadBlock
  <2>2. read.data = Block(p, b + 1)
    <3>1. Files[Readers[p]].first = file.first /\ Files[Readers[p]].size = file.size
      BY DEF LookupFinds
    <3>2. ((b + 1) - 1) * BlockSize = BlockAt(b)
      BY DEF BlockAt
    <3>3. QED
      BY <2>1, <3>1, <3>2, Zenon DEF Block, BlockEnd
  <2> DEFINE reply == [type |-> "DATA", to |-> p, block |-> b + 1, data |-> read.data]
  <2>3. \/ Becomes(going) /\ (toClient' = toClient \/ toClient' = toClient \union {reply})
        \/ Becomes(Reset(t, u, after)) /\ UNCHANGED toClient
    BY Zenon DEF SendBlock, Send, Sent
  <2> HIDE DEF read
  <2>4. after[t.file] = read.file
    BY DEF FileTable
  <2> HIDE DEF after
  <2>5. IsBlockOfFile(reply)
    BY <2>2 DEF IsBlockOfFile
  <2> HIDE DEF reply
  <2>6. Blocks(toClient', D)
    BY <2>3, <2>5 DEF Blocks
  <2>7. ASSUME Becomes(going) PROVE Orderly(tftpd', sockets', files', D)
    <3>1. tftpd' = t /\ files' = after /\ sockets' = u
      BY <2>7 DEF Becomes
    <3>2. t.lastBlock - 1 = b
      OBVIOUS
    <3>3. Orderly(t, u, after, D)
      BY <2>1, <2>4, <3>2 DEF Orderly
    <3>4. QED
      BY <3>1, <3>3
  <2>8. ASSUME Becomes(Reset(t, u, after)) PROVE Orderly(tftpd', sockets', files', D)
    <3>1. tftpd' = [t EXCEPT !.state = "listening", !.mode = "none", !.lastBlock = 0]
      BY <2>8 DEF Becomes, Reset
    <3>2. tftpd'.state = "listening"
      BY <3>1 DEF ServerType
    <3>3. QED
      BY <3>2 DEF Orderly
  <2>9. QED
    BY <2>3, <2>6, <2>7, <2>8
<1>5. CASE file.offset >= file.size
  <2>1. Len(read.data) = 0
    BY <1>1, <1>5, ReadNothing
  <2>2. /\ UNCHANGED toClient
        /\ \/ Becomes(going) /\ ended # "reset"
           \/ Becomes(Reset(t, u, after))
    BY <2>1, Zenon DEF SendBlock
  <2> HIDE DEF read
  <2>3. after[t.file] = read.file
    BY DEF FileTable
  <2> HIDE DEF after
  <2>4. ASSUME Becomes(going), ended # "reset" PROVE Orderly(tftpd', sockets', files', D)
    <3>1. tftpd' = t /\ files' = after /\ sockets' = u
      BY <2>4 DEF Becomes
    <3>2. read.file.size = 0
      BY <1>1, <1>3, <1>5, <2>4 DEF SameFile, FileType
    <3>3. Orderly(t, u, after, D)
      BY <2>3, <3>2 DEF Orderly
    <3>4. QED
      BY <3>1, <3>3
  <2>5. ASSUME Becomes(Reset(t, u, after)) PROVE Orderly(tftpd', sockets', files', D)
    <3>1. tftpd' = [t EXCEPT !.state = "listening", !.mode = "none", !.lastBlock = 0]
      BY <2>5 DEF Becomes, Reset
    <3>2. tftpd'.state = "listening"
      BY <3>1 DEF ServerType
    <3>3. QED
      BY <3>2 DEF Orderly
  <2>6. QED
    BY <2>2, <2>4, <2>5
<1>6. QED
  BY <1>4, <1>5

\* To a reader that is out of turn anything may be sent.
LEMMA SendBlockDisorder ==
  ASSUME NEW t \in ServerType, t.socket = tftpd.socket, NEW u, NEW fs, NEW ended,
         SendBlock(t, u, fs, ended), NEW D, u[t.socket].portRemote \in D,
         Blocks(toClient, D)
  PROVE  Orderly(tftpd', sockets', files', D) /\ Blocks(toClient', D)
<1> DEFINE read == FileRead(fs[t.file], BlockSize)
           after == [fs EXCEPT ![t.file] = read.file]
           going == [tftpd |-> t, files |-> after, sockets |-> u]
           reply == [type |-> "DATA", to |-> u[t.socket].portRemote, block |-> t.lastBlock,
                     data |-> read.data]
<1>1. \/ Becomes(going) /\ (toClient' = toClient \/ toClient' = toClient \union {reply})
      \/ Becomes(Reset(t, u, after)) /\ UNCHANGED toClient
  BY Zenon DEF SendBlock, Send, Sent
<1>2. reply.to \in D
  OBVIOUS
<1> HIDE DEF read, after, reply
<1>3. Blocks(toClient', D)
  BY <1>1, <1>2 DEF Blocks
<1>4. ASSUME Becomes(going) PROVE Orderly(tftpd', sockets', files', D)
  BY <1>4 DEF Becomes, Orderly
<1>5. ASSUME Becomes(Reset(t, u, after)) PROVE Orderly(tftpd', sockets', files', D)
  <2>1. tftpd' = [t EXCEPT !.state = "listening", !.mode = "none", !.lastBlock = 0]
    BY <1>5 DEF Becomes, Reset
  <2>2. tftpd'.state = "listening"
    BY <2>1 DEF ServerType
  <2>3. QED
    BY <2>2 DEF Orderly
<1>6. QED
  BY <1>1, <1>3, <1>4, <1>5

\* The other handlers send no data.
LEMMA NoData ==
  ASSUME NEW m, NEW u, Blocks(toClient, disorder),
         \/ RrqNotFound(m, u) \/ Wrq(m, u) \/ Data(m, u) \/ DataRefused(m, u) \/ Error(m, u)
  PROVE  Blocks(toClient', disorder) /\ disorder' = disorder
<1>1. ASSUME NEW type \in {"ACK", "ERROR"}, NEW block, Send(u, type, block, <<>>)
      PROVE  Blocks(toClient', disorder)
  <2> DEFINE reply == [type |-> type, to |-> u[tftpd.socket].portRemote, block |-> block,
                       data |-> <<>>]
  <2>1. toClient' = toClient \/ toClient' = toClient \union {reply}
    BY <1>1, Zenon DEF Send, Sent
  <2>2. reply.type # "DATA"
    OBVIOUS
  <2> HIDE DEF reply
  <2>3. QED
    BY <2>1, <2>2 DEF Blocks, IsBlockOfFile
<1>2. CASE RrqNotFound(m, u)
  BY <1>1, <1>2 DEF RrqNotFound
<1>3. CASE Wrq(m, u)
  BY <1>1, <1>3 DEF Wrq, Send
<1>4. CASE Data(m, u)
  BY <1>1, <1>4 DEF Data, Send
<1>5. CASE DataRefused(m, u) \/ Error(m, u)
  BY <1>5 DEF DataRefused, Error
<1>6. QED
  BY <1>2, <1>3, <1>4, <1>5

\* The offset behind an acknowledged block of a file is not cut off at 2^16.
LEMMA OffsetFits ==
  ASSUME BlocksFit, NEW p \in DOMAIN Readers, NEW b \in Nat,
         Lookup(Readers[p]).size \in Nat,
         BlockAt(b) < Lookup(Readers[p]).size, NEW a \in {b, b + 1}
  PROVE  (a * BlockSize) % WordModulus = BlockAt(a)
<1> DEFINE size == Lookup(Readers[p]).size
<1>1. size + BlockSize <= WordModulus
  BY DEF BlocksFit
<1>2. WordModulus \in Nat \ {0} /\ BlockSize \in Nat \ {0}
  BY TftpAssumption
<1>3. BlockAt(a) \in Nat /\ BlockAt(b) \in Nat /\ BlockAt(b + 1) = BlockAt(b) + BlockSize
  BY BlockInCluster
<1>4. BlockAt(a) = a * BlockSize
  BY DEF BlockAt
<1> HIDE DEF size
<1>5. BlockAt(a) < WordModulus
  <2>1. BlockAt(a) <= BlockAt(b) + BlockSize
    BY <1>2, <1>3
  <2>2. BlockAt(b) < size /\ size \in Nat
    BY DEF size
  <2>3. QED
    BY <1>1, <1>2, <1>3, <2>1, <2>2
<1>6. \A x \in Nat : x < WordModulus => x % WordModulus = x
  BY <1>2
<1>7. QED
  BY <1>3, <1>4, <1>5, <1>6

\* Each message the server gets keeps the file behind the last block, and what is
\* sent right.
LEMMA ReceiveOrderly ==
  ASSUME ChainsCover, LookupFinds, BlocksFit, IInv, InPlace(tftpd, sockets, files),
         Orderly(tftpd, sockets, files, disorder), Blocks(toClient, disorder),
         NEW m \in toServer, NEW u, Arrived(u, m.from), tftpd_callback(m, u)
  PROVE  Orderly(tftpd', sockets', files', disorder') /\ Blocks(toClient', disorder')
<1>1. CASE RrqFound(m, u)
  <2> DEFINE path == Readers[m.from]
             f == FileFor(files, path)
             t == [tftpd EXCEPT !.mode = "octet", !.file = f, !.state = "sending",
                                !.lastBlock = 1]
             fs == FileOpen(files, path)
  <2>1. /\ m.from \in DOMAIN Readers /\ u[t.socket].portRemote = m.from
        /\ f \in Handles /\ t \in ServerType /\ t.file = f /\ t.lastBlock = 1
        /\ t.socket = tftpd.socket
        /\ fs \in FileTable /\ Lookup(path) # NoEntry
        /\ fs[f] = [fs |-> TRUE, first |-> Lookup(path).first, size |-> Lookup(path).size,
                    current |-> Lookup(path).first, offset |-> 0, clusterOffset |-> 0,
                    fileCluster |-> 0]
        /\ SendBlock(t, u, fs, "stay") /\ disorder' = disorder
    BY <1>1, Opened
  <2> HIDE DEF t, f, fs
  <2>2. /\ fs[f].first = Lookup(path).first /\ fs[f].size = Lookup(path).size
        /\ fs[f].current = fs[f].first /\ fs[f].offset = 0 /\ fs[f].clusterOffset = 0
        /\ fs[f].fileCluster = 0
    BY <2>1
  <2>3. fs[f].first \in Nat /\ fs[f].size \in Nat
    BY <2>1 DEF FileTable, FileType
  <2>4. BlockAt(0) = 0 /\ ClusterOf(0) = 0 /\ WithinCluster(0) = 0
    BY FatAssumption, TftpAssumption DEF BlockAt, ClusterOf, WithinCluster
  <2>5. Steps(fs[f].first)[0] = fs[f].first
    BY <2>3, StepsStep
  <2>6. AtBlock(fs[f], 0) \/ fs[f].offset >= fs[f].size
    <3>1. CASE fs[f].size = 0
      BY <2>2, <3>1
    <3>2. CASE 0 < fs[f].size
      BY <2>2, <2>4, <2>5, <3>2 DEF AtBlock
    <3>3. QED
      BY <2>3, <3>1, <3>2
  <2>7. t.lastBlock = 0 + 1 /\ 0 \in Nat
    BY <2>1
  <2> HIDE DEF path
  <2>8. Orderly(tftpd', sockets', files', disorder) /\ Blocks(toClient', disorder)
    BY <2>1, <2>2, <2>6, <2>7, SendBlockOrderly DEF path
  <2>9. QED
    BY <2>1, <2>8
<1>2. CASE Ack(m, u)
  <2> DEFINE offset == (m.block * BlockSize) % WordModulus
             t == [tftpd EXCEPT !.lastBlock = m.block + 1]
             before == files[t.file]
             file == FileSeek(before, offset)
             fs == [files EXCEPT ![t.file] = file]
             p == m.from
  <2>1. /\ offset \in Nat /\ m.block \in Nat /\ p \in DOMAIN Readers
        /\ sockets[tftpd.socket].portRemote = p /\ u[t.socket].portRemote = p
        /\ tftpd.state = "sending"
        /\ t.file = tftpd.file /\ t.socket = tftpd.socket /\ t.lastBlock = m.block + 1
        /\ tftpd.lastBlock \in Nat
        /\ t \in ServerType /\ t.file \in Handles /\ before \in FileType
        /\ fs \in FileTable /\ fs[t.file] = file
        /\ SendBlock(t, u, fs, "reset")
        /\ disorder' = IF InTurn(m) THEN disorder ELSE disorder \union {p}
    BY <1>2, Acknowledged
  <2> HIDE DEF t
  <2>2. before.first = Lookup(Readers[p]).first /\ before.size = Lookup(Readers[p]).size
    BY <2>1 DEF InPlace
  <2>3. /\ p \notin disorder => Lookup(Readers[p]) # NoEntry
        /\ p \notin disorder => before.size = 0 \/ BehindBlock(before, tftpd.lastBlock - 1)
    BY <2>1 DEF Orderly
  <2> HIDE DEF before
  <2>4. SameFile(file, before) /\ file \in FileType
    BY <2>1, FileSeekType
  <2> HIDE DEF file, fs
  <2>5. disorder \subseteq disorder' /\ Blocks(toClient, disorder')
    BY <2>1 DEF Blocks
  <2>6. CASE p \in disorder'
    <3> DEFINE D == disorder'
    <3>1. u[t.socket].portRemote \in D /\ Blocks(toClient, D)
      BY <2>1, <2>5, <2>6
    <3> HIDE DEF D
    <3>2. Orderly(tftpd', sockets', files', D) /\ Blocks(toClient', D)
      BY <2>1, <3>1, SendBlockDisorder
    <3>3. QED
      BY <3>2 DEF D
  <2>7. CASE p \notin disorder'
    <3>1. InTurn(m) /\ disorder' = disorder /\ p \notin disorder
      BY <2>1, <2>7
    <3>2. file.first = Lookup(Readers[p]).first /\ file.size = Lookup(Readers[p]).size
      BY <2>2, <2>4 DEF SameFile
    <3>3. AtBlock(file, m.block) \/ file.offset >= file.size
      <4>1. CASE before.size = 0
        BY <2>4, <4>1 DEF SameFile, FileType
      <4>2. CASE BehindBlock(before, tftpd.lastBlock - 1)
        <5> DEFINE b == tftpd.lastBlock - 1
                   a == m.block
        <5>1. b \in Nat /\ a \in {b, b + 1} /\ BlockAt(b) < before.size
          BY <2>1, <3>1, <4>2 DEF BehindBlock, InTurn
        <5> HIDE DEF b
        <5>2. offset = BlockAt(a)
          <6>1. Lookup(Readers[p]).size \in Nat
            BY <2>1, <2>2 DEF FileType
          <6>2. QED
            BY <2>1, <2>2, <5>1, <6>1, OffsetFits
        <5>3. Covered(before.first, before.size)
          BY <2>1, <2>2 DEF ChainsCover
        <5> HIDE DEF offset, a
        <5>4. \/ AtBlock(FileSeek(before, BlockAt(a)), a)
              \/ FileSeek(before, BlockAt(a)).offset >= before.size
          BY <2>1, <4>2, <5>1, <5>3, SeekBlock DEF b
        <5>5. file = FileSeek(before, BlockAt(a))
          BY <5>2 DEF file
        <5>6. file.size = before.size
          BY <2>4 DEF SameFile
        <5>7. QED
          BY <5>4, <5>5, <5>6 DEF a
      <4>3. QED
        BY <2>3, <3>1, <4>1, <4>2
    <3>4. Lookup(Readers[p]) # NoEntry
      BY <2>3, <3>1
    <3> HIDE DEF p, offset
    <3>5. Orderly(tftpd', sockets', files', disorder) /\ Blocks(toClient', disorder)
      BY <2>1, <3>2, <3>3, <3>4, SendBlockOrderly
    <3>6. QED
      BY <3>1, <3>5
  <2>8. QED
    BY <2>6, <2>7
<1>3. CASE Ignored(m, u)
  <2>1. /\ tftpd' = tftpd /\ files' = files /\ toClient' = toClient /\ disorder' = disorder
        /\ tftpd.state = "sending" =>
             sockets'[tftpd.socket].portRemote = sockets[tftpd.socket].portRemote
    BY <1>3, IgnoredBound
  <2>2. QED
    BY <2>1 DEF Orderly
<1>4. CASE RrqNotFound(m, u) \/ Wrq(m, u) \/ Data(m, u) \/ DataRefused(m, u) \/ Error(m, u)
  <2>1. tftpd'.state # "sending"
    BY <1>4, NotSending
  <2>2. Blocks(toClient', disorder) /\ disorder' = disorder
    BY <1>4, NoData
  <2>3. QED
    BY <2>1, <2>2 DEF Orderly
<1>5. QED
  BY <1>1, <1>2, <1>3, <1>4 DEF tftpd_callback

\* As long as acknowledgments come in turn, once or more often, every data packet
\* holds the block of the file its number says (tftp.c:251 seeks, tftp.c:354 reads),
\* of every file its chain covers, its directory entry describes, and an unsigned int
\* of 16 bits can count.
THEOREM BlocksInTurn ==
  ASSUME ChainsCover, LookupFinds, BlocksFit PROVE Spec => []OrderlyBlocks
<1> DEFINE In == IInv /\ InPlace(tftpd, sockets, files)
           J == Orderly(tftpd, sockets, files, disorder) /\ Blocks(toClient, disorder)
<1>1. Init => J
  <2> SUFFICES ASSUME Init PROVE J
    OBVIOUS
  <2>1. tftpd.state = "listening" /\ toClient = {}
    BY DEF Init
  <2>2. QED
    BY <2>1 DEF Orderly, Blocks
<1>2. In /\ J /\ [Next]_vars => J'
  <2> SUFFICES ASSUME In, J, [Next]_vars PROVE J'
    OBVIOUS
  <2>1. CASE Receive
    <3>1. PICK m \in toServer : \E u : Arrived(u, m.from) /\ tftpd_callback(m, u)
      BY <2>1, Received
    <3>2. PICK u : Arrived(u, m.from) /\ tftpd_callback(m, u)
      BY <3>1
    <3>3. QED
      BY <3>2, ReceiveOrderly
  <2>2. CASE Deliver
    <3>1. UNCHANGED <<tftpd, sockets, files, disorder>> /\ toClient' \subseteq toClient
      BY <2>2 DEF Deliver
    <3>2. QED
      BY <3>1 DEF Orderly, Blocks
  <2>3. CASE UNCHANGED <<tftpd, sockets, files, toClient, disorder>>
    BY <2>3 DEF Orderly, Blocks
  <2>4. QED
    BY <2>1, <2>2, <2>3 DEF Next, GiveUp, vars
<1>3. Spec => []In
  BY InductiveInPlace
<1>4. J => OrderlyBlocks
  BY DEF Blocks, OrderlyBlocks
<1>5. QED
  BY <1>1, <1>2, <1>3, <1>4, PTL DEF Spec
=============================================================================
