----------------------------- MODULE DiskProofs ------------------------------
(***************************************************************************)
(* The volume of Fat16 stays sound through calls, failed accesses and      *)
(* power failures, and the commands of DiskCommands use it as it asks to   *)
(* be used.  VolumeInv is inductive; the rest follows from it.             *)
(***************************************************************************)
EXTENDS DiskCommands, FiniteSetTheorems, SequenceTheorems, TLAPS

-----------------------------------------------------------------------------
(* Numbers *)

Smaller == {p \in Nat \X Nat : p[1] < p[2]}

\* A set of natural numbers that is not empty has a least element.
LEMMA LeastNumber ==
  ASSUME NEW T \in SUBSET Nat, T # {}
  PROVE  \E m \in T : \A k \in T : m <= k
<1>1. IsWellFoundedOn(Smaller, Nat)
  <2>1. Smaller = OpToRel(<, Nat)
    BY DEF Smaller, OpToRel
  <2> QED
    BY <2>1, NatLessThanWellFounded
<1>2. PICK x \in T : \A y \in T : ~ (<<y, x>> \in Smaller)
  BY <1>1, WFMin
<1>3. ASSUME NEW y \in T PROVE x <= y
  <2>1. x \in Nat /\ y \in Nat
    OBVIOUS
  <2>2. y < x => <<y, x>> \in Smaller
    BY <2>1 DEF Smaller
  <2> QED
    BY <1>2, <2>1, <2>2
<1> QED
  BY <1>3

\* Induction, on a set.
LEMMA NumberInduction ==
  ASSUME NEW S, 0 \in S, \A n \in Nat : n \in S => n + 1 \in S
  PROVE  Nat \subseteq S
<1> SUFFICES ASSUME Nat \ S # {} PROVE FALSE
  OBVIOUS
<1>1. PICK m \in Nat \ S : \A k \in Nat \ S : m <= k
  BY LeastNumber
<1>2. m - 1 \in Nat /\ m - 1 \notin Nat \ S
  BY <1>1
<1> QED
  BY <1>1, <1>2

\* A number is a multiple and a rest in one way only.
LEMMA Division ==
  ASSUME NEW b \in Nat \ {0}, NEW q \in Nat, NEW r \in 0 .. (b - 1)
  PROVE  /\ q * b + r \in Nat
         /\ (q * b + r) \div b = q /\ (q * b + r) % b = r
<1> DEFINE a == q * b + r
           d == a \div b
           e == a % b
<1>1. q * b \in Nat /\ a \in Nat
  OBVIOUS
<1>2. d \in Nat /\ e \in 0 .. (b - 1) /\ a = b * d + e
  BY <1>1
<1>3. a = b * q + r
  OBVIOUS
<1> HIDE DEF a, d, e
<1>4. ASSUME NEW x \in Nat, NEW y \in Nat, NEW u \in 0 .. (b - 1), NEW v \in 0 .. (b - 1),
             a = b * x + u, a = b * y + v
      PROVE  x <= y
  <2> SUFFICES ASSUME x > y PROVE FALSE
    OBVIOUS
  <2>1. PICK k \in Nat : x = y + 1 + k
    BY x - y - 1 \in Nat, x = y + 1 + (x - y - 1)
  <2>2. b * x = b * y + b + b * k /\ b * k \in Nat /\ b * y \in Nat
    BY <2>1
  <2> QED
    BY <1>4, <2>2
<1>5. d <= q /\ q <= d
  BY <1>2, <1>3, <1>4
<1>6. d = q
  BY <1>2, <1>5
<1>7. e = r
  BY <1>2, <1>3, <1>6
<1> QED
  BY <1>1, <1>6, <1>7 DEF a, d, e

\* And every number is one.
LEMMA DivisionExists ==
  ASSUME NEW b \in Nat \ {0}, NEW a \in Nat
  PROVE  \E q \in Nat, r \in 0 .. (b - 1) :
           a = q * b + r /\ a \div b = q /\ a % b = r
<1> DEFINE d == a \div b
           e == a % b
<1>1. d \in Nat /\ e \in Nat /\ e < b /\ a = b * d + e
  OBVIOUS
<1>2. a \div b = d /\ a % b = e
  OBVIOUS
<1> HIDE DEF d, e
<1>3. a = d * b + e /\ e \in 0 .. (b - 1)
  BY <1>1
<1> QED
  BY <1>1, <1>2, <1>3

-----------------------------------------------------------------------------
(* Walks along the links of a FAT *)

\* Where a walk goes from x.
Onward(table, x) ==
  IF x >= EOC_MIN THEN EOC ELSE IF x \in Entries THEN table[x] ELSE EOC

\* A walk is what its recursive definition says.
LEMMA WalkDef ==
  ASSUME NEW table, NEW first, NEW n \in Nat
  PROVE  Walk(table, first, n) =
           [i \in 1 .. n |-> IF i = 1 THEN first ELSE Onward(table, Walk(table, first, n)[i - 1])]
<1> DEFINE F(k, w) == [i \in 1 .. k |-> IF i = 1 THEN first ELSE Onward(table, w[i - 1])]
           K == {k \in Nat : \E w : w = F(k, w)}
<1>1. 0 \in K
  <2>1. <<>> = F(0, <<>>)
    OBVIOUS
  <2> QED
    BY <2>1
<1>2. ASSUME NEW k \in Nat, k \in K PROVE k + 1 \in K
  <2>1. PICK w : w = F(k, w)
    BY <1>2
  <2> DEFINE v == [i \in 1 .. (k + 1) |-> IF i \in 1 .. k THEN w[i]
                                          ELSE IF i = 1 THEN first ELSE Onward(table, w[k])]
  <2>2. ASSUME NEW i \in 1 .. (k + 1)
        PROVE  v[i] = IF i = 1 THEN first ELSE Onward(table, v[i - 1])
    <3>1. CASE i \in 1 .. k
      <4>1. v[i] = IF i = 1 THEN first ELSE Onward(table, w[i - 1])
        BY <2>1, <3>1
      <4>2. i # 1 => v[i - 1] = w[i - 1]
        BY <3>1
      <4> QED
        BY <4>1, <4>2
    <3>2. CASE i = k + 1
      <4>1. i # 1 => k \in 1 .. k /\ v[i - 1] = w[k] /\ v[i] = Onward(table, w[k])
        BY <3>2
      <4> QED
        BY <3>2, <4>1
    <3> QED
      BY <3>1, <3>2
  <2>3. v = F(k + 1, v)
    BY <2>2
  <2> HIDE DEF v, F
  <2> QED
    BY <2>3
<1>3. n \in K
  <2> HIDE DEF K
  <2> QED
    BY <1>1, <1>2, NumberInduction
<1>4. Walk(table, first, n) = CHOOSE w : w = F(n, w)
  BY DEF Walk, Onward
<1>5. Walk(table, first, n) = F(n, Walk(table, first, n))
  <2> HIDE DEF F
  <2> QED
    BY <1>3, <1>4
<1> QED
  BY <1>5

\* Its elements, one by one.
LEMMA WalkSteps ==
  ASSUME NEW table, NEW first, NEW n \in Nat
  PROVE  /\ DOMAIN Walk(table, first, n) = 1 .. n
         /\ n > 0 => Walk(table, first, n)[1] = first
         /\ \A i \in 2 .. n :
              Walk(table, first, n)[i] = Onward(table, Walk(table, first, n)[i - 1])
<1> DEFINE w == Walk(table, first, n)
<1>1. w = [i \in 1 .. n |-> IF i = 1 THEN first ELSE Onward(table, w[i - 1])]
  BY WalkDef
<1> HIDE DEF w
<1>2. /\ DOMAIN w = 1 .. n /\ (n > 0 => w[1] = first)
      /\ \A i \in 2 .. n : w[i] = Onward(table, w[i - 1])
  BY <1>1
<1> QED
  BY <1>2 DEF w

\* Two tables have the same links along a walk of n clusters.
SameLinks(table, other, first, n) ==
  \A i \in 1 .. (n - 1) : Onward(table, Walk(table, first, n)[i])
                            = Onward(other, Walk(table, first, n)[i])

\* A table that has the same links along a walk has the same walk, and one step
\* more or less makes no difference to what is before it.
LEMMA SameWalk ==
  ASSUME NEW table, NEW other, NEW first, NEW n \in Nat, NEW m \in Nat, n <= m,
         SameLinks(table, other, first, n)
  PROVE  \A i \in 1 .. n : Walk(other, first, m)[i] = Walk(table, first, n)[i]
<1> DEFINE w == Walk(table, first, n)
           v == Walk(other, first, m)
           K == {k \in Nat : k \in 1 .. n => v[k] = w[k]}
<1>1. /\ n > 0 => w[1] = first
      /\ \A i \in 2 .. n : w[i] = Onward(table, w[i - 1])
      /\ m > 0 => v[1] = first
      /\ \A i \in 2 .. m : v[i] = Onward(other, v[i - 1])
  BY WalkSteps
<1>2. \A i \in 1 .. (n - 1) : Onward(table, w[i]) = Onward(other, w[i])
  BY DEF SameLinks
<1> HIDE DEF w, v
<1>3. 0 \in K
  OBVIOUS
<1>4. ASSUME NEW k \in Nat, k \in K PROVE k + 1 \in K
  <2> SUFFICES ASSUME k + 1 \in 1 .. n PROVE v[k + 1] = w[k + 1]
    OBVIOUS
  <2>1. CASE k = 0
    BY <1>1, <2>1
  <2>2. CASE k > 0
    <3>1. k \in 1 .. (n - 1) /\ k + 1 \in 2 .. n /\ k + 1 \in 2 .. m /\ (k + 1) - 1 = k
      BY <2>2
    <3>2. v[k] = w[k]
      BY <1>4, <3>1
    <3>3. w[k + 1] = Onward(table, w[k]) /\ v[k + 1] = Onward(other, v[k])
      BY <1>1, <3>1
    <3> QED
      BY <1>2, <3>1, <3>2, <3>3
  <2> QED
    BY <2>1, <2>2
<1>5. Nat \subseteq K
  <2> HIDE DEF K
  <2> QED
    BY <1>3, <1>4, NumberInduction
<1>6. \A i \in 1 .. n : v[i] = w[i]
  BY <1>5
<1> QED
  BY <1>6 DEF w, v

-----------------------------------------------------------------------------
(* The constants and the parts of a state *)

LEMMA Constants ==
  /\ FAT_ENTRIES \in Nat /\ FAT_ENTRIES >= 3 /\ Entries \subseteq 0 .. EOC
  /\ EOC_MIN \in Nat /\ EOC \in Nat /\ EOC_MIN <= EOC /\ EOC # FREE_CLUSTER
  /\ CLUSTERS \in Nat /\ InVolume \subseteq Clusters /\ Clusters \subseteq Entries
  /\ Clusters \subseteq Nat /\ Entries \subseteq Nat
  /\ SECTORS_PER_CLUSTER \in Nat \ {0} /\ ROOT_SECTORS \in Nat \ {0}
  /\ SLOTS \in Nat \ {0} /\ SLOTS >= 2
  /\ 0 \notin Clusters /\ 0 \notin InVolume /\ ROOT \notin InVolume
  /\ \A c \in InVolume : c < EOC_MIN
<1>1. /\ FAT_ENTRIES \in Nat /\ CLUSTERS \in Nat /\ EOC_MIN \in Nat /\ EOC \in Nat
      /\ CLUSTERS + 1 < EOC_MIN /\ EOC_MIN <= EOC /\ FAT_ENTRIES <= EOC + 1
      /\ CLUSTERS > 0 /\ CLUSTERS + 2 <= FAT_ENTRIES
      /\ SECTORS_PER_CLUSTER \in Nat \ {0} /\ ROOT_SECTORS \in Nat \ {0}
      /\ SLOTS \in Nat \ {0} /\ SLOTS >= 2
  <2>1. /\ FAT_ENTRIES \in Nat /\ EOC_MIN \in Nat /\ EOC \in Nat
        /\ CLUSTERS \in 1..(FAT_ENTRIES - 2)
        /\ CLUSTERS + 1 < EOC_MIN /\ EOC_MIN <= EOC /\ FAT_ENTRIES <= EOC + 1
        /\ SECTORS_PER_CLUSTER \in Nat \ {0} /\ ROOT_SECTORS \in Nat \ {0}
        /\ SLOTS \in Nat /\ SLOTS >= 2
    BY Zenon, Fat16Assumption
  <2> QED
    BY <2>1
<1>2. FAT_ENTRIES >= 3
  BY <1>1
<1>3. InVolume \subseteq Clusters
  BY <1>1 DEF InVolume, Clusters
<1>4. Clusters \subseteq Entries /\ Entries \subseteq Nat /\ Entries \subseteq 0 .. EOC
  BY <1>1 DEF Clusters, Entries
<1>5. 0 \notin Clusters /\ EOC # FREE_CLUSTER /\ \A c \in InVolume : c < EOC_MIN
  BY <1>1 DEF Clusters, InVolume, FREE_CLUSTER
<1>6. ROOT = 0
  BY DEF ROOT
<1> QED
  BY <1>1, <1>2, <1>3, <1>4, <1>5, <1>6

\* What links are set to are entries of a FAT.
LEMMA LinkValues == FREE_CLUSTER \in 0 .. EOC /\ Clusters \cup {EOC} \subseteq 0 .. EOC
<1>1. EOC \in Nat /\ Clusters \subseteq 0 .. EOC
  BY Constants
<1> QED
  BY <1>1 DEF FREE_CLUSTER

\* How many clusters a size takes is a number.
LEMMA ClustersForType ==
  ASSUME NEW size \in Nat
  PROVE  ClustersFor(size) \in Nat
<1>1. SECTORS_PER_CLUSTER \in Nat \ {0} /\ size + SECTORS_PER_CLUSTER - 1 \in Nat
  BY Constants
<1> QED
  BY <1>1 DEF ClustersFor

LEMMA LengthType ==
  ASSUME NEW e \in Items
  PROVE  LengthOf(e) \in Nat
<1>1. e.size \in Nat
  BY DEF Items
<1> QED
  BY <1>1, ClustersForType DEF LengthOf

\* The types of what is on the disk.
LEMMA DiskTypes ==
  ASSUME TypeOK
  PROVE  /\ \A i \in 1 .. ROOT_SECTORS, k \in 1 .. SLOTS : root[i][k] \in Items
         /\ \A d \in InVolume, s \in 1 .. SECTORS_PER_CLUSTER, k \in 1 .. SLOTS :
              data[d][s][k] \in Items
         /\ DOMAIN root = 1 .. ROOT_SECTORS
         /\ \A d \in InVolume : DOMAIN data[d] = 1 .. SECTORS_PER_CLUSTER
<1>1. /\ root \in [1 .. ROOT_SECTORS -> [1 .. SLOTS -> Items]]
      /\ data \in [InVolume -> [1 .. SECTORS_PER_CLUSTER -> [1 .. SLOTS -> Items]]]
  BY DEF TypeOK, Sector
<1>2. \A i \in 1 .. ROOT_SECTORS : root[i] \in [1 .. SLOTS -> Items]
  BY <1>1
<1>3. \A d \in InVolume : data[d] \in [1 .. SECTORS_PER_CLUSTER -> [1 .. SLOTS -> Items]]
  BY <1>1
<1>4. \A d \in InVolume, s \in 1 .. SECTORS_PER_CLUSTER : data[d][s] \in [1 .. SLOTS -> Items]
  BY <1>3
<1> QED
  BY <1>1, <1>2, <1>3, <1>4, ZenonT(30)

\* The sectors of the root and of a directory.
LEMMA SectorsOf ==
  /\ DirSectors(ROOT) = root
  /\ \A d \in InVolume : DirSectors(d) = data[d]
  BY Constants DEF DirSectors

\* What Shown means.
LEMMA ShownDef ==
  ASSUME NEW p
  PROVE  p \in Shown <=>
           \E d, i, k :
             /\ p = <<d, i, k>> /\ k \in 1 .. SLOTS
             /\ \/ d = ROOT /\ i \in 1 .. ROOT_SECTORS /\ root[i][k].kind # "free"
                \/ /\ d \in SubDirs /\ i \in 1 .. SECTORS_PER_CLUSTER
                   /\ data[d][i][k].kind = "file"
<1>1. \A i, k : At(<<ROOT, i, k>>) = root[i][k]
  BY SectorsOf DEF At
<1>2. \A d \in SubDirs : \A i, k : At(<<d, i, k>>) = data[d][i][k]
  BY SectorsOf DEF At, SubDirs
<1>3. ASSUME p \in Shown
      PROVE  \E d, i, k :
             /\ p = <<d, i, k>> /\ k \in 1 .. SLOTS
             /\ \/ d = ROOT /\ i \in 1 .. ROOT_SECTORS /\ root[i][k].kind # "free"
                \/ /\ d \in SubDirs /\ i \in 1 .. SECTORS_PER_CLUSTER
                   /\ data[d][i][k].kind = "file"
  <2>1. CASE p \in {ROOT} \X (1 .. ROOT_SECTORS) \X (1 .. SLOTS) /\ At(p).kind # "free"
    <3>1. PICK i \in 1 .. ROOT_SECTORS, k \in 1 .. SLOTS : p = <<ROOT, i, k>>
      BY <2>1
    <3> QED
      BY <1>1, <2>1, <3>1
  <2>2. CASE p \in SubDirs \X (1 .. SECTORS_PER_CLUSTER) \X (1 .. SLOTS) /\ At(p).kind = "file"
    <3>1. PICK d \in SubDirs, i \in 1 .. SECTORS_PER_CLUSTER, k \in 1 .. SLOTS : p = <<d, i, k>>
      BY <2>2
    <3> QED
      BY <1>2, <2>2, <3>1
  <2> QED
    BY <1>3, <2>1, <2>2 DEF Shown
<1>4. ASSUME NEW d, NEW i, NEW k, p = <<d, i, k>>, k \in 1 .. SLOTS,
             \/ d = ROOT /\ i \in 1 .. ROOT_SECTORS /\ root[i][k].kind # "free"
             \/ d \in SubDirs /\ i \in 1 .. SECTORS_PER_CLUSTER /\ data[d][i][k].kind = "file"
      PROVE  p \in Shown
  BY <1>1, <1>2, <1>4 DEF Shown
<1> QED
  BY <1>3, <1>4

\* The entry of a place, and its type.
LEMMA ShownFacts ==
  ASSUME TypeOK, NEW p \in Shown
  PROVE  /\ At(p) \in Items /\ LengthOf(At(p)) \in Nat
         /\ p = <<p[1], p[2], p[3]>> /\ p[3] \in 1 .. SLOTS
         /\ \/ p[1] = ROOT /\ p[2] \in 1 .. ROOT_SECTORS /\ At(p) = root[p[2]][p[3]]
                           /\ At(p).kind # "free"
            \/ p[1] \in SubDirs /\ p[2] \in 1 .. SECTORS_PER_CLUSTER
                 /\ At(p) = data[p[1]][p[2]][p[3]] /\ At(p).kind = "file"
<1>1. PICK d, i, k :
        /\ p = <<d, i, k>> /\ k \in 1 .. SLOTS
        /\ \/ d = ROOT /\ i \in 1 .. ROOT_SECTORS /\ root[i][k].kind # "free"
           \/ d \in SubDirs /\ i \in 1 .. SECTORS_PER_CLUSTER /\ data[d][i][k].kind = "file"
  BY ShownDef
<1>2. p[1] = d /\ p[2] = i /\ p[3] = k
  BY <1>1
<1>3. d = ROOT => At(p) = root[i][k]
  BY <1>2, SectorsOf DEF At
<1>4. d \in SubDirs => At(p) = data[d][i][k] /\ d \in InVolume
  BY <1>2, SectorsOf DEF At, SubDirs
<1>5. At(p) \in Items
  BY <1>1, <1>3, <1>4, DiskTypes
<1>6. LengthOf(At(p)) \in Nat
  BY <1>5, LengthType
<1> QED
  BY <1>1, <1>2, <1>3, <1>4, <1>5, <1>6

-----------------------------------------------------------------------------
(* Chains *)

\* Two pairs of FATs that agree along a chain have the same chain.
LEMMA ChainSame ==
  ASSUME NEW t, NEW u, NEW first, NEW n \in Nat,
         \A c \in Along(t, first, n) : u[1][c] = t[1][c] /\ u[2][c] = t[2][c]
  PROVE  /\ Walk(u[1], first, n) = Walk(t[1], first, n)
         /\ Along(u, first, n) = Along(t, first, n)
         /\ ChainOK(t, first, n) => ChainOK(u, first, n)
<1> DEFINE w == Walk(t[1], first, n)
           v == Walk(u[1], first, n)
<1>1. \A i \in 1 .. n : u[1][w[i]] = t[1][w[i]] /\ u[2][w[i]] = t[2][w[i]]
  BY DEF Along
<1>2. \A i \in 1 .. (n - 1) : Onward(t[1], w[i]) = Onward(u[1], w[i])
  <2> TAKE i \in 1 .. (n - 1)
  <2>1. i \in 1 .. n
    OBVIOUS
  <2> HIDE DEF w
  <2> QED
    BY <1>1, <2>1 DEF Onward
<1>3. \A i \in 1 .. n : v[i] = w[i]
  <2>1. PICK table, other : table = t[1] /\ other = u[1]
    OBVIOUS
  <2>2. SameLinks(table, other, first, n) /\ n <= n
    BY <1>2, <2>1 DEF SameLinks
  <2>3. \A i \in 1 .. n : Walk(other, first, n)[i] = Walk(table, first, n)[i]
    BY <2>2, SameWalk
  <2> QED
    BY <2>1, <2>3
<1>4. /\ w = [i \in 1 .. n |-> IF i = 1 THEN first ELSE Onward(t[1], w[i - 1])]
      /\ v = [i \in 1 .. n |-> IF i = 1 THEN first ELSE Onward(u[1], v[i - 1])]
  BY WalkDef, SMTT(30)
<1>5. v = w
  <2> HIDE DEF v, w
  <2> QED
    BY <1>3, <1>4
<1>6. Along(u, first, n) = Along(t, first, n)
  BY <1>5 DEF Along
<1>7. ASSUME ChainOK(t, first, n) PROVE ChainOK(u, first, n)
  <2>1. /\ \A i \in 1 .. n : w[i] \in Clusters /\ t[1][w[i]] # FREE_CLUSTER
                             /\ t[2][w[i]] = t[1][w[i]]
        /\ \A i, j \in 1 .. n : w[i] = w[j] => i = j
        /\ n > 0 => t[1][w[n]] = EOC
    BY <1>7 DEF ChainOK
  <2> HIDE DEF w
  <2>2. /\ \A i \in 1 .. n : w[i] \in Clusters /\ u[1][w[i]] # FREE_CLUSTER
                             /\ u[2][w[i]] = u[1][w[i]]
        /\ \A i, j \in 1 .. n : w[i] = w[j] => i = j
        /\ n > 0 => u[1][w[n]] = EOC
    BY <1>1, <2>1
  <2> QED
    BY <1>5, <2>2 DEF ChainOK
<1> QED
  BY <1>5, <1>6, <1>7

\* An entry holds what is along its chain; a directory holds one cluster.
LEMMA HeldIs ==
  ASSUME NEW e
  PROVE  /\ Held(e) = Along(fat, e.cluster, LengthOf(e))
         /\ e.kind = "dir" => Held(e) = {e.cluster}
<1>1. Held(e) = Along(fat, e.cluster, LengthOf(e))
  BY DEF Held, Along, Chain
<1>2. ASSUME e.kind = "dir" PROVE Held(e) = {e.cluster}
  <2>1. LengthOf(e) = 1
    BY <1>2 DEF LengthOf
  <2>2. Walk(fat[1], e.cluster, 1)[1] = e.cluster
    BY WalkSteps
  <2> QED
    BY <1>1, <2>1, <2>2 DEF Along
<1> QED
  BY <1>1, <1>2

\* The same of the next state.
LEMMA HeldIsNext ==
  ASSUME NEW e
  PROVE  /\ Held(e)' = Along(fat', e.cluster, LengthOf(e))
         /\ e.kind = "dir" => Held(e)' = {e.cluster}
<1>1. Held(e)' = Along(fat', e.cluster, LengthOf(e))
  BY DEF Held, Along, Chain
<1>2. ASSUME e.kind = "dir" PROVE Held(e)' = {e.cluster}
  <2>1. LengthOf(e) = 1
    BY <1>2 DEF LengthOf
  <2>2. Walk(fat'[1], e.cluster, 1)[1] = e.cluster
    BY WalkSteps
  <2> QED
    BY <1>1, <2>1, <2>2 DEF Along
<1> QED
  BY <1>1, <1>2

\* Every directory is the cluster of an entry of the root.
LEMMA SubDirHeld ==
  ASSUME NEW d \in SubDirs
  PROVE  \E p \in Shown : p[1] = ROOT /\ At(p).kind = "dir" /\ At(p).cluster = d /\ Held(At(p)) = {d}
<1>1. PICK i \in 1 .. ROOT_SECTORS, k \in 1 .. SLOTS :
        root[i][k].kind = "dir" /\ root[i][k].cluster = d
  BY DEF SubDirs
<1> DEFINE p == <<ROOT, i, k>>
<1>2. p \in Shown
  BY <1>1, ShownDef
<1>3. At(p) = root[i][k] /\ p[1] = ROOT
  BY SectorsOf DEF At
<1>4. Held(root[i][k]) = {d}
  BY <1>1, HeldIs
<1> QED
  BY <1>1, <1>2, <1>3, <1>4

-----------------------------------------------------------------------------
(* Steps that do not touch an entry *)

\* A volume stays sound when its root, and the links and contents of the
\* clusters its entries hold, stay what they are.
LEMMA SoundKept ==
  ASSUME TypeOK, Sound, root' = root, created' = created,
         \A p \in Shown : \A c \in Held(At(p)) :
           /\ fat'[1][c] = fat[1][c] /\ fat'[2][c] = fat[2][c]
           /\ c \in InVolume => data'[c] = data[c]
  PROVE  /\ Sound'
         /\ Shown' = Shown /\ SubDirs' = SubDirs
         /\ \A p \in Shown : At(p)' = At(p) /\ Held(At(p))' = Held(At(p))
<1>1. SubDirs' = SubDirs
  BY DEF SubDirs
<1>2. ASSUME NEW d \in SubDirs PROVE data'[d] = data[d]
  <2>1. d \in InVolume
    BY DEF SubDirs
  <2>2. PICK p \in Shown : Held(At(p)) = {d}
    BY SubDirHeld
  <2> QED
    BY <2>1, <2>2
<1>3. ASSUME NEW d \in {ROOT} \cup SubDirs PROVE DirSectors(d)' = DirSectors(d)
  BY <1>2, Constants DEF DirSectors
<1>4. /\ \A p \in {ROOT} \X (1 .. ROOT_SECTORS) \X (1 .. SLOTS) : At(p)' = At(p)
      /\ \A p \in SubDirs \X (1 .. SECTORS_PER_CLUSTER) \X (1 .. SLOTS) : At(p)' = At(p)
  BY <1>3 DEF At
<1>5. Shown' = Shown
  BY <1>1, <1>4 DEF Shown
<1>6. \A p \in Shown : At(p)' = At(p)
  BY <1>4 DEF Shown
<1>7. ASSUME NEW p \in Shown
      PROVE  /\ Chain(At(p).cluster, LengthOf(At(p)))' = Chain(At(p).cluster, LengthOf(At(p)))
             /\ Held(At(p))' = Held(At(p))
             /\ ChainOK(fat', At(p).cluster, LengthOf(At(p)))
  <2> DEFINE e == At(p)
             n == LengthOf(e)
  <2>1. n \in Nat /\ ChainOK(fat, e.cluster, n) /\ Held(e) = Along(fat, e.cluster, n)
    BY ShownFacts, HeldIs DEF Sound, EntryOK
  <2>2. \A c \in Along(fat, e.cluster, n) : fat'[1][c] = fat[1][c] /\ fat'[2][c] = fat[2][c]
    BY <2>1
  <2>3. At(p)' = e
    BY <1>6
  <2> HIDE DEF e, n
  <2>4. /\ Walk(fat'[1], e.cluster, n) = Walk(fat[1], e.cluster, n)
        /\ Along(fat', e.cluster, n) = Along(fat, e.cluster, n)
        /\ ChainOK(fat', e.cluster, n)
    BY <2>1, <2>2, ChainSame
  <2>5. Held(At(p))' = Along(fat', e.cluster, n)
    BY <2>3 DEF Held, Along, Chain, n
  <2> QED
    BY <2>1, <2>3, <2>4, <2>5 DEF Chain, e, n
<1>8. ASSUME NEW p \in Shown PROVE EntryOK(At(p))'
  <2>1. PICK e : e = At(p) /\ e = At(p)'
    BY <1>6
  <2> DEFINE n == LengthOf(e)
             w == Walk(fat[1], e.cluster, n)
  <2>2. EntryOK(e) /\ n \in Nat
    BY <2>1, ShownFacts DEF Sound
  <2>3. /\ Walk(fat'[1], e.cluster, n) = w
        /\ ChainOK(fat', e.cluster, n) /\ Held(e)' = Held(e)
    BY <1>7, <2>1 DEF Chain
  <2>4. ASSUME e.kind = "file"
        PROVE  Stored(data', w, n, SECTORS_PER_CLUSTER, e.name)
    <3>1. Stored(data, w, n, SECTORS_PER_CLUSTER, e.name)
      BY <2>2, <2>4 DEF EntryOK, Chain
    <3>2. \A j \in 1 .. n : w[j] \in Held(e)
      BY DEF Held, Chain
    <3>3. \A j \in 1 .. n : w[j] \in InVolume => data'[w[j]] = data[w[j]]
      BY <2>1, <3>2
    <3> HIDE DEF n, w
    <3> QED
      BY <3>1, <3>3 DEF Stored
  <2>5. EntryOK(e)'
    BY <2>2, <2>3, <2>4 DEF EntryOK, Chain
  <2> QED
    BY <2>1, <2>5
<1>9. \A p \in Shown' : EntryOK(At(p))'
  BY <1>5, <1>8
<1>10. (\A p, q \in Shown : p # q => Held(At(p)) \cap Held(At(q)) = {})'
  BY <1>5, <1>7 DEF Sound
<1>11. (\A d \in {ROOT} \cup SubDirs : Packed(DirSectors(d)))'
  BY <1>1, <1>3 DEF Sound
<1>12. (\A d \in SubDirs, s \in 1 .. SECTORS_PER_CLUSTER, k \in 1 .. SLOTS :
          data[d][s][k].kind \in {"free", "file"} \/ data[d][s][k].name \in {".", ".."})'
  BY <1>1, <1>2 DEF Sound
<1>13. (\A m \in created :
          /\ m.dir \in {ROOT} \cup SubDirs /\ m.entry.kind # "free"
          /\ \E i \in DOMAIN DirSectors(m.dir), k \in 1 .. SLOTS :
               DirSectors(m.dir)[i][k] = m.entry)'
  BY <1>1, <1>3 DEF Sound
<1>14. Sound'
  BY <1>9, <1>10, <1>11, <1>12, <1>13 DEF Sound
<1> QED
  BY <1>1, <1>5, <1>6, <1>7, <1>14

-----------------------------------------------------------------------------
(* Calls that return, and formatting *)

LEMMA IdleType ==
  ASSUME NEW r \in 0 .. 1
  PROVE  /\ Idle(r) \in Call /\ Idle(r).pc = "idle" /\ Idle(r).links = <<>>
         /\ \A f \in {0} \cup Clusters :
              LET c == [Idle(r) EXCEPT !.first = f]
              IN  c \in Call /\ c.pc = "idle" /\ c.links = <<>> /\ c.first = f /\ c.result = r
<1>1. <<>> \in Seq(Link)
  OBVIOUS
<1> QED
  BY <1>1 DEF Idle, Call, ROOT

\* The fields of a call.
LEMMA CallFields ==
  ASSUME NEW c \in Call
  PROVE  /\ c.s \in Nat /\ c.remaining \in Nat /\ c.links \in Seq(Link)
         /\ c.cluster \in {0} \cup Clusters /\ c.first \in {0} \cup Clusters
         /\ c.dir \in {ROOT} \cup InVolume
  BY DEF Call

\* The directories stay when the root does.
LEMMA SameDirs ==
  ASSUME root' = root
  PROVE  SubDirs' = SubDirs
  BY DEF SubDirs

\* A call returns, for whatever reason: what it wrote stays as it is.
LEMMA ReturnInv ==
  ASSUME VolumeInv, call' \in Call, call'.pc = "idle", call'.links = <<>>,
         UNCHANGED <<fat, root, data, history>>, boot' \in BOOLEAN, mounted' \in BOOLEAN
  PROVE  VolumeInv'
<1>1. UNCHANGED <<fat, root, data, formatted, created, fat_failures, formats>>
  BY DEF history
<1>2. TypeOK'
  BY <1>1 DEF VolumeInv, TypeOK
<1>3. CallOK'
  BY <1>1 DEF CallOK, Formatting, Making
<1>4. ASSUME formatted' PROVE Clean'
  <2>1. Clean /\ SubDirs' = SubDirs
    BY <1>1, <1>4, SameDirs DEF VolumeInv
  <2> QED
    BY <1>1, <2>1 DEF Clean
<1>5. ASSUME Intact' PROVE Sound' /\ Flight'
  <2>1. Sound /\ TypeOK
    BY <1>1, <1>5 DEF VolumeInv, Intact
  <2>2. Sound'
    BY <1>1, <2>1, SoundKept
  <2> QED
    BY <2>2 DEF Flight, Making
<1> QED
  BY <1>2, <1>3, <1>4, <1>5 DEF VolumeInv

LEMMA GiveUpInv == VolumeInv /\ GiveUp => VolumeInv'
<1> SUFFICES ASSUME VolumeInv, GiveUp PROVE VolumeInv'
  OBVIOUS
<1>1. call' \in Call /\ call'.pc = "idle" /\ call'.links = <<>>
  BY IdleType DEF GiveUp
<1>2. UNCHANGED <<fat, root, data, history, boot, mounted>>
  BY DEF GiveUp, disk
<1> QED
  BY <1>1, <1>2, ReturnInv DEF VolumeInv, TypeOK

LEMMA PowerFailureInv == VolumeInv /\ PowerFailure => VolumeInv'
<1> SUFFICES ASSUME VolumeInv, PowerFailure PROVE VolumeInv'
  OBVIOUS
<1>1. call' \in Call /\ call'.pc = "idle" /\ call'.links = <<>>
  BY IdleType DEF PowerFailure
<1>2. UNCHANGED <<fat, root, data, history, boot>> /\ mounted' = FALSE
  BY DEF PowerFailure, disk
<1> QED
  BY <1>1, <1>2, ReturnInv DEF VolumeInv, TypeOK

LEMMA MountInv == VolumeInv /\ (Mount \/ MountFails) => VolumeInv'
<1> SUFFICES ASSUME VolumeInv, Mount PROVE VolumeInv'
  BY GiveUpInv DEF MountFails
<1>1. call' \in Call /\ call'.pc = "idle" /\ call'.links = <<>>
  BY IdleType DEF Mount
<1>2. UNCHANGED <<fat, root, data, history, boot>> /\ mounted' = TRUE
  BY DEF Mount, disk
<1> QED
  BY <1>1, <1>2, ReturnInv DEF VolumeInv, TypeOK

\* The fields of a call that begins.
LEMMA BeginFields ==
  ASSUME NEW pc, NEW next, NEW kind, NEW name, NEW dir, NEW size,
         Begin(pc, next, kind, name, dir, size)
  PROVE  /\ call.pc = "idle" /\ call'.pc = pc /\ call'.then = next /\ call'.kind = kind
         /\ call'.name = name /\ call'.dir = dir /\ call'.remaining = size
         /\ call'.cluster = 0 /\ call'.first = 0 /\ call'.s = 1 /\ call'.links = <<>>
         /\ call'.result = 0
         /\ call' = [pc |-> pc, result |-> 0, kind |-> kind, name |-> name, dir |-> dir,
                     cluster |-> 0, first |-> 0, s |-> 1, remaining |-> size,
                     links |-> <<>>, then |-> next]
  BY DEF Begin, InCall, Idle

LEMMA BeginRecord ==
  ASSUME NEW pc \in {"format_boot", "alloc", "entry"}, NEW next \in {"none", "mkdir", "data"},
         NEW kind \in {"none", "dir", "file"}, NEW name \in Dirs \cup Files \cup {"none"},
         NEW dir \in {ROOT} \cup InVolume, NEW size \in Nat
  PROVE  [pc |-> pc, result |-> 0, kind |-> kind, name |-> name, dir |-> dir,
          cluster |-> 0, first |-> 0, s |-> 1, remaining |-> size,
          links |-> <<>>, then |-> next] \in Call
<1>1. <<>> \in Seq(Link)
  OBVIOUS
<1> QED
  BY <1>1 DEF Call

LEMMA BeginType ==
  ASSUME NEW pc \in {"format_boot", "alloc", "entry"}, NEW next \in {"none", "mkdir", "data"},
         NEW kind \in {"none", "dir", "file"}, NEW name \in Dirs \cup Files \cup {"none"},
         NEW dir \in {ROOT} \cup InVolume, NEW size \in Nat,
         Begin(pc, next, kind, name, dir, size)
  PROVE  call' \in Call
<1> DEFINE c == [pc |-> pc, result |-> 0, kind |-> kind, name |-> name, dir |-> dir,
                 cluster |-> 0, first |-> 0, s |-> 1, remaining |-> size,
                 links |-> <<>>, then |-> next]
<1>1. c \in Call
  BY BeginRecord, ZenonT(30)
<1>2. call' = c
  BY BeginFields
<1> QED
  BY <1>1, <1>2

LEMMA StartFormatInv == VolumeInv /\ StartFormat => VolumeInv'
<1> SUFFICES ASSUME VolumeInv, StartFormat PROVE VolumeInv'
  OBVIOUS
<1>1. CASE CLUSTERS \notin MIN_CLUSTERS .. MAX_CLUSTERS
  BY <1>1, GiveUpInv DEF StartFormat
<1>2. CASE CLUSTERS \in MIN_CLUSTERS .. MAX_CLUSTERS
  <2>1. /\ Begin("format_boot", "none", "none", "none", ROOT, 0)
        /\ formatted' = FALSE /\ created' = {} /\ fat_failures' = 0
        /\ UNCHANGED <<boot, fat, root, data, mounted, formats>>
    BY <1>2 DEF StartFormat, disk
  <2>2. /\ call'.pc = "format_boot" /\ call'.links = <<>>
    BY <2>1, BeginFields
  <2>3. call' \in Call
    BY <2>1, BeginType
  <2>4. TypeOK'
    BY <2>1, <2>3 DEF VolumeInv, TypeOK
  <2>5. CallOK'
    BY <2>1, <2>2 DEF CallOK, Formatting, Making
  <2> QED
    BY <2>1, <2>4, <2>5 DEF VolumeInv, Intact
<1> QED
  BY <1>1, <1>2

\* A step of a format that is not its last.
LEMMA FormattingInv ==
  ASSUME VolumeInv, Formatting, TypeOK', Formatting', call'.links = <<>>,
         UNCHANGED history,
         call'.pc = "format_root" => /\ call'.s \in 1 .. ROOT_SECTORS
                                     /\ \A i \in 1 .. (call'.s - 1) : root'[i] = ZeroSector
  PROVE  VolumeInv'
<1>1. UNCHANGED <<formatted, created, fat_failures, formats>>
  BY DEF history
<1>2. ~formatted /\ created = {} /\ fat_failures = 0
  BY DEF VolumeInv, CallOK
<1>3. CallOK'
  BY <1>1, <1>2 DEF CallOK, Formatting, Making
<1> QED
  BY <1>1, <1>2, <1>3 DEF VolumeInv, Intact

LEMMA FormatBootInv == VolumeInv /\ FormatBoot => VolumeInv'
<1> SUFFICES ASSUME VolumeInv, FormatBoot PROVE VolumeInv'
  OBVIOUS
<1>1. /\ call \in Call /\ call.pc = "format_boot" /\ boot' = TRUE
      /\ call' = [call EXCEPT !.pc = "format_fat", !.s = 0]
      /\ UNCHANGED <<fat, root, data, mounted, history>>
  BY DEF FormatBoot, VolumeInv, TypeOK
<1>2. call' \in Call /\ call'.pc = "format_fat" /\ call'.links = call.links
  BY <1>1 DEF Call
<1>3. call.links = <<>>
  BY <1>1 DEF VolumeInv, CallOK
<1>4. TypeOK'
  BY <1>1, <1>2 DEF VolumeInv, TypeOK, history
<1> QED
  BY <1>1, <1>2, <1>3, <1>4, FormattingInv DEF Formatting

LEMMA FormatFatInv == VolumeInv /\ FormatFat => VolumeInv'
<1> SUFFICES ASSUME VolumeInv, FormatFat PROVE VolumeInv'
  OBVIOUS
<1>1. /\ call \in Call /\ call.pc = "format_fat"
      /\ UNCHANGED <<boot, root, data, mounted, history>>
      /\ call' = IF call.s + 1 < 2 * FatSectors
                 THEN [call EXCEPT !.s = @ + 1]
                 ELSE [call EXCEPT !.pc = "format_root", !.s = 1]
  BY DEF FormatFat, VolumeInv, TypeOK
<1>2. /\ call' \in Call /\ call'.links = call.links
      /\ call'.pc = "format_fat" \/ (call'.pc = "format_root" /\ call'.s = 1)
  <2>1. PICK s \in Nat : s = call.s
    BY <1>1, CallFields
  <2>2. s + 1 \in Nat /\ [call EXCEPT !.s = @ + 1] = [call EXCEPT !.s = s + 1]
    BY <2>1
  <2> QED
    BY <1>1, <2>2 DEF Call
<1>3. call.links = <<>>
  BY <1>1 DEF VolumeInv, CallOK
<1>4. fat' \in [Copies -> [Entries -> 0 .. EOC]]
  <2> DEFINE copy == 1 + (call.s \div FatSectors)
             sector == call.s % FatSectors
             t == [c \in Entries |-> IF c \div FAT_SECTOR = sector THEN FreshEntry(c)
                                     ELSE fat[copy][c]]
  <2>1. fat' = [fat EXCEPT ![copy] = t]
    BY DEF FormatFat
  <2>2. \A c \in Entries : FreshEntry(c) \in 0 .. EOC
    BY Constants DEF FreshEntry, FREE_CLUSTER
  <2>3. fat \in [Copies -> [Entries -> 0 .. EOC]]
    BY DEF VolumeInv, TypeOK
  <2>4. copy \in Copies => t \in [Entries -> 0 .. EOC]
    BY <2>2, <2>3
  <2> HIDE DEF copy, t
  <2> QED
    BY <2>1, <2>3, <2>4
<1>5. TypeOK'
  BY <1>1, <1>2, <1>4 DEF VolumeInv, TypeOK, history
<1>6. call'.pc = "format_root" => /\ call'.s \in 1 .. ROOT_SECTORS
                                  /\ \A i \in 1 .. (call'.s - 1) : root'[i] = ZeroSector
  BY <1>2, Constants
<1> QED
  BY <1>1, <1>2, <1>3, <1>5, <1>6, FormattingInv DEF Formatting

\* An empty sector.
LEMMA ZeroSectorType ==
  /\ ZeroSector \in Sector /\ Unstale(ZeroSector)
  /\ \A k \in 1 .. SLOTS : ZeroSector[k] = FreeSlot
  /\ FreeSlot.kind = "free" /\ FreeSlot.name = "none" /\ FreeSlot \in Items
<1>1. FreeSlot \in Items /\ FreeSlot.kind = "free" /\ FreeSlot.name = "none"
  BY DEF FreeSlot, Item, Items, Names
<1> QED
  BY <1>1 DEF ZeroSector, Filled, Sector, Unstale

\* An empty root, the end of a format: no entry, no directory.
LEMMA EmptyRoot ==
  ASSUME TypeOK', \A i \in 1 .. ROOT_SECTORS : root'[i] = ZeroSector, created' = {},
         call'.pc = "idle", formatted'
  PROVE  Clean' /\ Sound'
<1>1. \A i \in 1 .. ROOT_SECTORS, k \in 1 .. SLOTS :
        root'[i][k].kind = "free" /\ root'[i][k].name # "stale"
  BY ZeroSectorType DEF Unstale
<1>2. SubDirs' = {}
  BY <1>1 DEF SubDirs
<1>3. (DirSectors(ROOT) = root)' /\ DOMAIN root' = 1 .. ROOT_SECTORS
  BY DEF DirSectors, TypeOK
<1>4. Shown' = {}
  <2>1. \A i, k : At(<<ROOT, i, k>>)' = root'[i][k]
    BY DEF At, DirSectors
  <2>2. \A p \in {ROOT} \X (1 .. ROOT_SECTORS) \X (1 .. SLOTS) : At(p)'.kind = "free"
    BY <1>1, <2>1
  <2> QED
    BY <1>2, <2>2 DEF Shown
<1>5. Clean'
  BY <1>1, <1>2 DEF Clean, Unstale
<1>6. Packed(root')
  BY <1>1, <1>3 DEF Packed
<1>7. Sound'
  BY <1>2, <1>3, <1>4, <1>6 DEF Sound
<1> QED
  BY <1>5, <1>7

LEMMA FormatRootInv == VolumeInv /\ FormatRoot => VolumeInv'
<1> SUFFICES ASSUME VolumeInv, FormatRoot PROVE VolumeInv'
  OBVIOUS
<1>1. /\ call \in Call /\ call.pc = "format_root" /\ root' = [root EXCEPT ![call.s] = ZeroSector]
      /\ UNCHANGED <<boot, fat, data, mounted, created, fat_failures>>
  BY DEF FormatRoot, VolumeInv, TypeOK
<1>2. /\ call.links = <<>> /\ ~formatted /\ created = {} /\ fat_failures = 0
      /\ call.s \in 1 .. ROOT_SECTORS
      /\ \A i \in 1 .. (call.s - 1) : root[i] = ZeroSector
  BY <1>1 DEF VolumeInv, CallOK, Formatting
<1>3. root \in [1 .. ROOT_SECTORS -> Sector] /\ root' \in [1 .. ROOT_SECTORS -> Sector]
  BY <1>1, ZeroSectorType DEF VolumeInv, TypeOK
<1>4. \A i \in 1 .. call.s : root'[i] = ZeroSector
  BY <1>1, <1>2, <1>3, Constants
<1>5. CASE call.s < ROOT_SECTORS
  <2>1. call' = [call EXCEPT !.s = @ + 1] /\ UNCHANGED <<formatted, formats>>
    BY <1>5 DEF FormatRoot
  <2>2. /\ call' \in Call /\ call'.pc = "format_root" /\ call'.links = <<>>
        /\ call'.s = call.s + 1
    <3>1. PICK s \in Nat : s = call.s
      BY <1>1, CallFields
    <3>2. s + 1 \in Nat /\ call' = [call EXCEPT !.s = s + 1]
      BY <2>1, <3>1
    <3> QED
      BY <1>1, <1>2, <3>1, <3>2 DEF Call
  <2>3. TypeOK'
    BY <1>1, <1>3, <2>1, <2>2 DEF VolumeInv, TypeOK
  <2>4. /\ call'.s \in 1 .. ROOT_SECTORS
        /\ \A i \in 1 .. (call'.s - 1) : root'[i] = ZeroSector
    BY <1>2, <1>4, <1>5, <2>2, Constants
  <2> QED
    BY <1>1, <2>1, <2>2, <2>3, <2>4, FormattingInv DEF Formatting, history
<1>6. CASE ~(call.s < ROOT_SECTORS)
  <2>1. call' = Idle(1) /\ formatted' = TRUE /\ formats' = formats + 1
    BY <1>6 DEF FormatRoot
  <2>2. call' \in Call /\ call'.pc = "idle" /\ call'.links = <<>>
    BY <2>1, IdleType
  <2>3. TypeOK'
    BY <1>1, <1>3, <2>1, <2>2 DEF VolumeInv, TypeOK
  <2>4. \A i \in 1 .. ROOT_SECTORS : root'[i] = ZeroSector
    BY <1>2, <1>4, <1>6, Constants
  <2>5. Clean' /\ Sound'
    BY <1>1, <1>2, <2>1, <2>2, <2>3, <2>4, EmptyRoot
  <2>6. CallOK' /\ Flight'
    BY <2>2 DEF CallOK, Formatting, Making, Flight
  <2> QED
    BY <2>3, <2>5, <2>6 DEF VolumeInv
<1> QED
  BY <1>5, <1>6

-----------------------------------------------------------------------------
(* Calls that begin *)

\* No clusters yet.
LEMMA OwnNothing ==
  ASSUME call'.first = 0, call'.cluster = 0, call'.links = <<>>
  PROVE  Own(0)'
<1>1. \A t, first : ChainOK(t, first, 0) /\ Along(t, first, 0) = {}
  BY DEF ChainOK, Along
<1>2. DOMAIN call'.links = {}
  OBVIOUS
<1> QED
  BY <1>1, <1>2 DEF Own

\* A step of the call that writes nothing to the disk.
LEMMA SameDiskInv ==
  ASSUME VolumeInv, call' \in Call, CallOK', UNCHANGED <<boot, fat, root, data, mounted, history>>,
         call'.pc # "mkdir", ~(call'.pc = "entry" /\ call'.kind = "dir"),
         Intact /\ Sound' /\ Shown' = Shown /\ SubDirs' = SubDirs => Flight'
  PROVE  VolumeInv'
<1>1. UNCHANGED <<formatted, created, fat_failures, formats>>
  BY DEF history
<1>2. TypeOK'
  BY <1>1 DEF VolumeInv, TypeOK
<1>3. ASSUME formatted' PROVE Clean'
  <2>1. Clean /\ SubDirs' = SubDirs
    BY <1>1, <1>3, SameDirs DEF VolumeInv
  <2> QED
    BY <2>1 DEF Clean
<1>4. ASSUME Intact' PROVE Sound' /\ Flight'
  <2>1. Sound /\ TypeOK /\ Intact
    BY <1>1, <1>4 DEF VolumeInv, Intact
  <2>2. Sound' /\ Shown' = Shown /\ SubDirs' = SubDirs
    BY <1>1, <2>1, SoundKept
  <2> QED
    BY <2>1, <2>2
<1> QED
  BY <1>2, <1>3, <1>4 DEF VolumeInv

LEMMA StartMkdirInv ==
  ASSUME VolumeInv, formatted, NEW name \in Dirs, StartMkdir(name)
  PROVE  VolumeInv'
<1>1. /\ Begin("alloc", "mkdir", "dir", name, ROOT, 0)
      /\ UNCHANGED <<boot, fat, root, data, mounted, history>>
  BY DEF StartMkdir, disk
<1>2. /\ call'.pc = "alloc" /\ call'.then = "mkdir" /\ call'.kind = "dir"
      /\ call'.name = name /\ call'.dir = ROOT
      /\ call'.cluster = 0 /\ call'.first = 0 /\ call'.links = <<>>
  BY <1>1, BeginFields
<1>3. call' \in Call
  BY <1>1, BeginType
<1>4. CallOK'
  BY <1>1, <1>2 DEF CallOK, Formatting, Making, history
<1>5. Flight'
  <2>1. Own(0)'
    BY <1>2, OwnNothing
  <2>2. DirFlight(0)'
    BY <1>2 DEF DirFlight
  <2> QED
    BY <2>1, <2>2 DEF Flight
<1> QED
  BY <1>1, <1>2, <1>3, <1>4, <1>5, SameDiskInv

LEMMA NoClusters == ClustersFor(0) = 0
<1>1. PICK b \in Nat \ {0} : b = SECTORS_PER_CLUSTER
  BY Constants
<1>2. (0 * b + (b - 1)) \div b = 0
  BY Division
<1> QED
  BY <1>1, <1>2 DEF ClustersFor

LEMMA StartCreateInv ==
  ASSUME VolumeInv, formatted, NEW dir \in {ROOT} \cup SubDirs, NEW name \in Files,
         StartCreate(dir, name)
  PROVE  VolumeInv'
<1> DEFINE pc == IF SizeOf[name] > 0 THEN "alloc" ELSE "entry"
<1>1. /\ Begin(pc, "data", "file", name, dir, SizeOf[name])
      /\ UNCHANGED <<boot, fat, root, data, mounted, history>>
  BY DEF StartCreate, disk
<1>2. /\ call'.pc = pc /\ call'.then = "data" /\ call'.kind = "file"
      /\ call'.name = name /\ call'.dir = dir /\ call'.remaining = SizeOf[name]
      /\ call'.cluster = 0 /\ call'.first = 0 /\ call'.links = <<>>
  BY <1>1, BeginFields
<1>3. SizeOf[name] \in Nat /\ dir \in {ROOT} \cup InVolume
  BY Fat16Assumption DEF SubDirs
<1>4. pc \in {"alloc", "entry"} /\ pc # "mkdir"
  OBVIOUS
<1>5. call' \in Call
  <2> HIDE DEF pc
  <2> QED
    BY <1>1, <1>3, <1>4, BeginType
<1>6. CallOK'
  <2> HIDE DEF pc
  <2> QED
    BY <1>1, <1>2, <1>3, <1>4 DEF CallOK, Formatting, Making, history
<1>7. ASSUME SubDirs' = SubDirs PROVE Flight'
  <2>1. Own(0)'
    BY <1>2, OwnNothing
  <2>2. FileFlight(0)'
    <3>1. \A d, w, x : Stored(d, w, 0, x, name)
      BY DEF Stored
    <3>2. CASE SizeOf[name] > 0
      <4>1. call'.pc = "alloc" /\ SizeOf[name] = SizeOf[name] + 0 * SECTORS_PER_CLUSTER
        BY <1>2, <1>3, <3>2, Constants
      <4> QED
        BY <1>2, <1>7, <3>1, <3>2, <4>1 DEF FileFlight
    <3>3. CASE ~(SizeOf[name] > 0)
      <4>1. call'.pc = "entry" /\ ClustersFor(SizeOf[name]) = 0
        BY <1>2, <1>3, <3>3, NoClusters
      <4> QED
        BY <1>2, <1>7, <3>1, <4>1 DEF FileFlight
    <3> QED
      BY <3>2, <3>3
  <2> QED
    BY <2>1, <2>2 DEF Flight
<1> QED
  BY <1>1, <1>2, <1>4, <1>5, <1>6, <1>7, SameDiskInv

-----------------------------------------------------------------------------
(* Links to be written *)

\* Links that go to different entries.
Distinct(links) ==
  \A i, j \in DOMAIN links :
    links[i].copy = links[j].copy /\ links[i].cluster = links[j].cluster => i = j

\* What Finished makes of an entry.
LEMMA FinishedAt ==
  ASSUME NEW t, NEW links \in Seq(Link), Distinct(links)
  PROVE  /\ \A i \in DOMAIN links :
              Finished(t, links)[links[i].copy][links[i].cluster] = links[i].value
         /\ \A copy \in Copies, c \in Entries :
              (\A i \in DOMAIN links : ~(links[i].copy = copy /\ links[i].cluster = c))
                => Finished(t, links)[copy][c] = t[copy][c]
<1> DEFINE Todo(copy, c) == {i \in DOMAIN links : links[i].copy = copy /\ links[i].cluster = c}
<1>1. \A i \in DOMAIN links : links[i] \in Link
  OBVIOUS
<1>2. \A i \in DOMAIN links : links[i].copy \in Copies /\ links[i].cluster \in Entries
  BY <1>1, Constants DEF Link
<1>3. \A copy \in Copies, c \in Entries :
        Finished(t, links)[copy][c] =
          IF Todo(copy, c) = {} THEN t[copy][c] ELSE links[CHOOSE i \in Todo(copy, c) : TRUE].value
  BY DEF Finished
<1>4. ASSUME NEW i \in DOMAIN links
      PROVE  Finished(t, links)[links[i].copy][links[i].cluster] = links[i].value
  <2> DEFINE T == Todo(links[i].copy, links[i].cluster)
  <2>1. i \in T
    OBVIOUS
  <2>2. \A j \in T : j = i
    BY DEF Distinct
  <2>3. (CHOOSE j \in T : TRUE) \in T
    BY <2>1
  <2>4. (CHOOSE j \in T : TRUE) = i
    BY <2>2, <2>3
  <2> QED
    BY <1>2, <1>3, <2>1, <2>4
<1>5. ASSUME NEW copy \in Copies, NEW c \in Entries,
             \A i \in DOMAIN links : ~(links[i].copy = copy /\ links[i].cluster = c)
      PROVE  Finished(t, links)[copy][c] = t[copy][c]
  <2>1. Todo(copy, c) = {}
    BY <1>5
  <2> QED
    BY <1>3, <2>1
<1> QED
  BY <1>4, <1>5

FatType == [Copies -> [Entries -> 0 .. EOC]]

\* Two FATs with the same entries.
LEMMA SameFats ==
  ASSUME NEW t, NEW links, NEW u, NEW more,
         \A copy \in Copies, c \in Entries :
           Finished(t, links)[copy][c] = Finished(u, more)[copy][c]
  PROVE  Finished(t, links) = Finished(u, more)
<1> DEFINE F(copy, c) == LET todo == {i \in DOMAIN links : links[i].copy = copy /\ links[i].cluster = c}
                         IN  IF todo = {} THEN t[copy][c] ELSE links[CHOOSE i \in todo : TRUE].value
           G(copy, c) == LET todo == {i \in DOMAIN more : more[i].copy = copy /\ more[i].cluster = c}
                         IN  IF todo = {} THEN u[copy][c] ELSE more[CHOOSE i \in todo : TRUE].value
<1>1. /\ Finished(t, links) = [copy \in Copies |-> [c \in Entries |-> F(copy, c)]]
      /\ Finished(u, more) = [copy \in Copies |-> [c \in Entries |-> G(copy, c)]]
  BY DEF Finished
<1> HIDE DEF F, G
<1>2. \A copy \in Copies, c \in Entries : F(copy, c) = G(copy, c)
  BY <1>1
<1>3. \A copy \in Copies : [c \in Entries |-> F(copy, c)] = [c \in Entries |-> G(copy, c)]
  BY <1>2
<1> QED
  BY <1>1, <1>3

\* Nothing to be written.
LEMMA FinishedNone ==
  ASSUME NEW t \in FatType
  PROVE  Finished(t, <<>>) = t
<1>1. \A copy, c : {i \in DOMAIN <<>> : <<>>[i].copy = copy /\ <<>>[i].cluster = c} = {}
  OBVIOUS
<1>2. Finished(t, <<>>) = [copy \in Copies |-> [c \in Entries |-> t[copy][c]]]
  BY <1>1 DEF Finished
<1>3. \A copy \in Copies : [c \in Entries |-> t[copy][c]] = t[copy]
  BY DEF FatType
<1>4. t = [copy \in Copies |-> t[copy]]
  BY DEF FatType
<1> QED
  BY <1>2, <1>3, <1>4

\* The first of the links is written.
LEMMA FinishedStep ==
  ASSUME NEW t \in FatType, NEW links \in Seq(Link), links # <<>>, Distinct(links), NEW u,
         u[Head(links).copy][Head(links).cluster] = Head(links).value,
         \A copy \in Copies, c \in Entries :
           ~(copy = Head(links).copy /\ c = Head(links).cluster) => u[copy][c] = t[copy][c]
  PROVE  /\ Finished(u, Tail(links)) = Finished(t, links)
         /\ Distinct(Tail(links)) /\ Tail(links) \in Seq(Link)
         /\ \A i \in DOMAIN Tail(links) : i + 1 \in DOMAIN links /\ Tail(links)[i] = links[i + 1]
<1> DEFINE l == Head(links)
           rest == Tail(links)
<1>1. /\ Len(links) \in Nat \ {0} /\ DOMAIN links = 1 .. Len(links) /\ l = links[1]
      /\ rest \in Seq(Link) /\ Len(rest) = Len(links) - 1 /\ DOMAIN rest = 1 .. (Len(links) - 1)
      /\ \A i \in 1 .. (Len(links) - 1) : rest[i] = links[i + 1]
  OBVIOUS
<1>2. l \in Link /\ 1 \in DOMAIN links
  BY <1>1
<1>3. l.copy \in Copies /\ l.cluster \in Entries
  BY <1>2, Constants DEF Link
<1> HIDE DEF l, rest
<1>4. /\ u[l.copy][l.cluster] = l.value
      /\ \A copy \in Copies, c \in Entries :
           ~(copy = l.copy /\ c = l.cluster) => u[copy][c] = t[copy][c]
  BY DEF l
<1>5. \A i \in DOMAIN rest : i + 1 \in DOMAIN links /\ rest[i] = links[i + 1]
  BY <1>1
<1>6. Distinct(rest)
  <2> SUFFICES ASSUME NEW i \in DOMAIN rest, NEW j \in DOMAIN rest,
                      rest[i].copy = rest[j].copy, rest[i].cluster = rest[j].cluster
               PROVE  i = j
    BY DEF Distinct
  <2>1. i + 1 = j + 1
    BY <1>5 DEF Distinct
  <2> QED
    BY <1>1, <2>1
<1>7. /\ \A i \in DOMAIN rest :
           Finished(u, rest)[rest[i].copy][rest[i].cluster] = rest[i].value
      /\ \A copy \in Copies, c \in Entries :
           (\A i \in DOMAIN rest : ~(rest[i].copy = copy /\ rest[i].cluster = c))
             => Finished(u, rest)[copy][c] = u[copy][c]
  <2>1. rest \in Seq(Link)
    BY <1>1
  <2> QED
    BY <1>6, <2>1, FinishedAt
<1>8. ASSUME NEW copy \in Copies, NEW c \in Entries
      PROVE  Finished(u, rest)[copy][c] = Finished(t, links)[copy][c]
  <2>1. CASE copy = l.copy /\ c = l.cluster
    <3>1. Finished(t, links)[copy][c] = l.value
      BY <1>1, <1>2, <2>1, FinishedAt
    <3>2. \A i \in DOMAIN rest : ~(rest[i].copy = copy /\ rest[i].cluster = c)
      <4> SUFFICES ASSUME NEW i \in DOMAIN rest, rest[i].copy = copy, rest[i].cluster = c
                   PROVE  FALSE
        OBVIOUS
      <4>1. i + 1 \in DOMAIN links /\ i + 1 = 1
        BY <1>1, <1>2, <1>5, <2>1 DEF Distinct
      <4> QED
        BY <1>1, <4>1
    <3>3. Finished(u, rest)[copy][c] = u[copy][c]
      BY <1>7, <3>2
    <3> QED
      BY <1>4, <2>1, <3>1, <3>3
  <2>2. CASE ~(copy = l.copy /\ c = l.cluster) /\
             \E i \in DOMAIN links : links[i].copy = copy /\ links[i].cluster = c
    <3>1. PICK i \in DOMAIN links : links[i].copy = copy /\ links[i].cluster = c
      BY <2>2
    <3>2. i # 1 /\ i - 1 \in DOMAIN rest /\ rest[i - 1] = links[i]
      BY <1>1, <2>2, <3>1
    <3>3. Finished(t, links)[copy][c] = links[i].value
      BY <3>1, FinishedAt
    <3>4. Finished(u, rest)[copy][c] = links[i].value
      BY <1>7, <3>1, <3>2
    <3> QED
      BY <3>3, <3>4
  <2>3. CASE ~(copy = l.copy /\ c = l.cluster) /\
             \A i \in DOMAIN links : ~(links[i].copy = copy /\ links[i].cluster = c)
    <3>1. \A i \in DOMAIN rest : ~(rest[i].copy = copy /\ rest[i].cluster = c)
      BY <1>5, <2>3
    <3>2. Finished(u, rest)[copy][c] = u[copy][c]
      BY <1>7, <3>1
    <3>3. Finished(t, links)[copy][c] = t[copy][c]
      BY <2>3, FinishedAt
    <3> QED
      BY <1>4, <2>3, <3>2, <3>3
  <2> QED
    BY <2>1, <2>2, <2>3
<1>9. Finished(u, rest) = Finished(t, links)
  <2>1. \A copy \in Copies, c \in Entries :
          Finished(u, rest)[copy][c] = Finished(t, links)[copy][c]
    BY <1>8
  <2> QED
    BY <2>1, SameFats
<1> QED
  BY <1>1, <1>5, <1>6, <1>9 DEF rest

\* The links of fat_write_entry, and of a new cluster, one by one.
LEMMA LinksAre ==
  ASSUME NEW c, NEW value
  PROVE  Links(c, value) = <<[copy |-> 1, cluster |-> c, value |-> value],
                             [copy |-> 2, cluster |-> c, value |-> value]>>
<1>1. Links(c, value) = [copy \in 1 .. 2 |-> [copy |-> copy, cluster |-> c, value |-> value]]
  BY DEF Links, Copies
<1> QED
  BY <1>1

LEMMA LinksOK ==
  ASSUME NEW c \in Clusters, NEW value \in Clusters \cup {EOC}
  PROVE  /\ Links(c, value) \in Seq(Link) /\ Len(Links(c, value)) = 2
         /\ Distinct(Links(c, value)) /\ Links(c, value) # <<>>
         /\ DOMAIN Links(c, value) = 1 .. 2
         /\ \A i \in 1 .. 2 : /\ Links(c, value)[i].copy = i /\ Links(c, value)[i].cluster = c
                              /\ Links(c, value)[i].value = value
<1> DEFINE a == [copy |-> 1, cluster |-> c, value |-> value]
           b == [copy |-> 2, cluster |-> c, value |-> value]
           L == Links(c, value)
<1>1. a \in Link /\ b \in Link
  BY DEF Link, Copies
<1>2. a.copy = 1 /\ a.cluster = c /\ a.value = value /\ b.copy = 2 /\ b.cluster = c /\ b.value = value
  OBVIOUS
<1>3. L = <<a, b>>
  BY LinksAre
<1> HIDE DEF a, b, L
<1>4. /\ L \in Seq(Link) /\ Len(L) = 2 /\ L # <<>> /\ DOMAIN L = 1 .. 2
      /\ L[1] = a /\ L[2] = b
  BY <1>1, <1>3
<1>5. \A i \in 1 .. 2 : L[i].copy = i /\ L[i].cluster = c /\ L[i].value = value
  BY <1>2, <1>4
<1>6. Distinct(L)
  BY <1>4, <1>5 DEF Distinct
<1> QED
  BY <1>4, <1>5, <1>6 DEF L

LEMMA FourDistinct ==
  ASSUME NEW L, DOMAIN L = 1 .. 4, NEW c, NEW old, c # old,
         L[1].copy = 1, L[1].cluster = c, L[2].copy = 2, L[2].cluster = c,
         L[3].copy = 1, L[3].cluster = old, L[4].copy = 2, L[4].cluster = old
  PROVE  Distinct(L)
<1>1. \A i \in DOMAIN L : i \in {1, 2, 3, 4}
  OBVIOUS
<1> QED
  BY <1>1 DEF Distinct

LEMMA MoreLinks ==
  ASSUME NEW c \in Clusters, NEW old \in Clusters, c # old
  PROVE  LET L == Links(c, EOC) \o Links(old, c)
         IN  /\ L \in Seq(Link) /\ L # <<>> /\ Distinct(L) /\ DOMAIN L = 1 .. 4
             /\ \A i \in 1 .. 2 : L[i].copy = i /\ L[i].cluster = c /\ L[i].value = EOC
             /\ \A i \in 3 .. 4 : L[i].copy = i - 2 /\ L[i].cluster = old /\ L[i].value = c
<1> DEFINE A == Links(c, EOC)
           B == Links(old, c)
           L == A \o B
<1>1. /\ A \in Seq(Link) /\ Len(A) = 2 /\ B \in Seq(Link) /\ Len(B) = 2
      /\ \A i \in 1 .. 2 : A[i].copy = i /\ A[i].cluster = c /\ A[i].value = EOC
      /\ \A i \in 1 .. 2 : B[i].copy = i /\ B[i].cluster = old /\ B[i].value = c
  BY LinksOK
<1> HIDE DEF A, B
<1>2. /\ L \in Seq(Link) /\ Len(L) = Len(A) + Len(B)
      /\ \A i \in 1 .. Len(A) + Len(B) : L[i] = IF i <= Len(A) THEN A[i] ELSE B[i - Len(A)]
  BY <1>1, ConcatProperties, ZenonT(30)
<1> HIDE DEF L
<1>3. /\ Len(L) = 4 /\ DOMAIN L = 1 .. 4 /\ L # <<>>
      /\ L[1] = A[1] /\ L[2] = A[2] /\ L[3] = B[1] /\ L[4] = B[2]
  BY <1>1, <1>2
<1>4. /\ L[1].copy = 1 /\ L[1].cluster = c /\ L[2].copy = 2 /\ L[2].cluster = c
      /\ L[3].copy = 1 /\ L[3].cluster = old /\ L[4].copy = 2 /\ L[4].cluster = old
      /\ L[1].value = EOC /\ L[2].value = EOC /\ L[3].value = c /\ L[4].value = c
  BY <1>1, <1>3
<1>5. Distinct(L)
  BY <1>3, <1>4, FourDistinct
<1>6. /\ \A i \in 1 .. 2 : i \in {1, 2}
      /\ \A i \in 3 .. 4 : i \in {3, 4}
  OBVIOUS
<1>7. /\ \A i \in 1 .. 2 : L[i].copy = i /\ L[i].cluster = c /\ L[i].value = EOC
      /\ \A i \in 3 .. 4 : L[i].copy = i - 2 /\ L[i].cluster = old /\ L[i].value = c
  BY <1>4, <1>6
<1> QED
  BY <1>2, <1>3, <1>5, <1>7 DEF L, A, B

-----------------------------------------------------------------------------
(* Chains that grow *)

LEMMA ChainOne ==
  ASSUME NEW u, NEW c \in Clusters, u[1][c] = EOC, u[2][c] = EOC
  PROVE  ChainOK(u, c, 1) /\ Along(u, c, 1) = {c} /\ Walk(u[1], c, 1)[1] = c
<1>1. Walk(u[1], c, 1)[1] = c
  BY WalkSteps
<1>2. 1 .. 1 = {1} /\ EOC # FREE_CLUSTER
  BY Constants DEF FREE_CLUSTER
<1> QED
  BY <1>1, <1>2 DEF ChainOK, Along

LEMMA LongerWalk ==
  ASSUME NEW table, NEW other, NEW first, NEW n \in Nat,
         \A i \in 1 .. (n - 1) : Onward(table, Walk(table, first, n)[i])
                                   = Onward(other, Walk(table, first, n)[i])
  PROVE  \A i \in 1 .. n : Walk(other, first, n + 1)[i] = Walk(table, first, n)[i]
<1>1. PICK m \in Nat : m = n + 1 /\ n <= m
  OBVIOUS
<1>3. SameLinks(table, other, first, n)
  BY DEF SameLinks
<1>2. \A i \in 1 .. n : Walk(other, first, m)[i] = Walk(table, first, n)[i]
  BY <1>1, <1>3, SameWalk
<1> QED
  BY <1>1, <1>2

\* A free cluster c is put at the end of a chain.
LEMMA ChainGrown ==
  ASSUME NEW t, NEW u, NEW first, NEW n \in Nat \ {0}, NEW c \in Clusters, NEW old,
         ChainOK(t, first, n), old = Walk(t[1], first, n)[n], old \in InVolume,
         t[1][c] = FREE_CLUSTER,
         \A copy \in Copies : u[copy][c] = EOC /\ u[copy][old] = c,
         \A copy \in Copies : \A x \in Clusters : x # c /\ x # old => u[copy][x] = t[copy][x]
  PROVE  /\ ChainOK(u, first, n + 1)
         /\ Along(u, first, n + 1) = Along(t, first, n) \cup {c}
         /\ \A i \in 1 .. n : Walk(u[1], first, n + 1)[i] = Walk(t[1], first, n)[i]
         /\ Walk(u[1], first, n + 1)[n + 1] = c
         /\ c \notin Along(t, first, n) /\ old \in Along(t, first, n)
<1> DEFINE w == Walk(t[1], first, n)
           v == Walk(u[1], first, n + 1)
<1>1. /\ \A i \in 1 .. n : w[i] \in Clusters /\ t[1][w[i]] # FREE_CLUSTER /\ t[2][w[i]] = t[1][w[i]]
      /\ \A i, j \in 1 .. n : w[i] = w[j] => i = j
      /\ old = w[n]
  BY DEF ChainOK
<1>2. \A i \in 2 .. (n + 1) : v[i] = Onward(u[1], v[i - 1])
  BY WalkSteps
<1>3. Along(t, first, n) = {w[i] : i \in 1 .. n} /\ Along(u, first, n + 1) = {v[i] : i \in 1 .. (n + 1)}
  BY DEF Along
<1>4. 1 \in Copies /\ 2 \in Copies
  BY DEF Copies
<1>5. \A i \in 1 .. (n - 1) : Onward(t[1], w[i]) = Onward(u[1], w[i])
  <2> TAKE i \in 1 .. (n - 1)
  <2>1. i \in 1 .. n /\ n \in 1 .. n /\ i # n
    OBVIOUS
  <2> HIDE DEF w
  <2>2. w[i] \in Clusters /\ w[i] # old /\ w[i] # c
    BY <1>1, <2>1
  <2>3. u[1][w[i]] = t[1][w[i]]
    BY <1>4, <2>2
  <2> QED
    BY <2>3 DEF Onward
<1>6. \A i \in 1 .. n : v[i] = w[i]
  BY <1>5, LongerWalk
<1> HIDE DEF w, v
<1>7. n \in 1 .. n /\ n + 1 \in 2 .. (n + 1) /\ (n + 1) - 1 = n
      /\ \A i \in 1 .. (n + 1) : i = n + 1 \/ i \in 1 .. n
  OBVIOUS
<1>8. v[n + 1] = c
  <2>1. v[n + 1] = Onward(u[1], old)
    BY <1>1, <1>2, <1>6, <1>7
  <2>2. old \in Entries /\ old < EOC_MIN /\ old \in Nat /\ EOC_MIN \in Nat
    BY Constants
  <2>3. ~(old >= EOC_MIN)
    BY <2>2
  <2> QED
    BY <1>4, <2>1, <2>2, <2>3 DEF Onward
<1>9. c # old /\ c \notin {w[i] : i \in 1 .. n} /\ old \in {w[i] : i \in 1 .. n}
  BY <1>1, <1>7
<1>10. {v[i] : i \in 1 .. (n + 1)} = {w[i] : i \in 1 .. n} \cup {c}
  BY <1>6, <1>7, <1>8
<1>11. ASSUME NEW i \in 1 .. (n + 1)
       PROVE  v[i] \in Clusters /\ u[1][v[i]] # FREE_CLUSTER /\ u[2][v[i]] = u[1][v[i]]
  <2>1. CASE i = n + 1
    BY <1>4, <1>8, <2>1, Constants
  <2>2. CASE i = n
    <3>1. c # FREE_CLUSTER
      BY Constants DEF FREE_CLUSTER
    <3>2. v[i] = old /\ old \in Clusters
      BY <1>1, <1>6, <1>7, <2>2
    <3> QED
      BY <1>4, <3>1, <3>2
  <2>3. CASE i \in 1 .. n /\ i # n
    <3>1. v[i] = w[i] /\ w[i] # old /\ w[i] # c /\ w[i] \in Clusters
      BY <1>1, <1>6, <1>7, <1>9, <2>3
    <3>2. u[1][w[i]] = t[1][w[i]] /\ u[2][w[i]] = t[2][w[i]]
      BY <1>4, <3>1
    <3> QED
      BY <1>1, <2>3, <3>1, <3>2
  <2> QED
    BY <1>7, <2>1, <2>2, <2>3
<1>12. ASSUME NEW i \in 1 .. (n + 1), NEW j \in 1 .. (n + 1), v[i] = v[j] PROVE i = j
  <2>1. i \in 1 .. n => v[i] = w[i] /\ w[i] # c
    BY <1>6, <1>9
  <2>2. j \in 1 .. n => v[j] = w[j] /\ w[j] # c
    BY <1>6, <1>9
  <2> QED
    BY <1>1, <1>7, <1>8, <1>12, <2>1, <2>2
<1>13. u[1][v[n + 1]] = EOC
  BY <1>4, <1>8
<1>14. ChainOK(u, first, n + 1)
  BY <1>11, <1>12, <1>13 DEF ChainOK, v
<1>15. Along(u, first, n + 1) = Along(t, first, n) \cup {c}
  BY <1>3, <1>10
<1>16. c \notin Along(t, first, n) /\ old \in Along(t, first, n)
  BY <1>3, <1>9
<1> QED
  BY <1>6, <1>8, <1>14, <1>15, <1>16 DEF v, w

\* The FATs that AllocLinks leads to, from FATs t with cluster c free.
LEMMA AllocGoal ==
  ASSUME NEW t \in FatType, NEW c \in Clusters
  PROVE  /\ LET u == Finished(t, Links(c, EOC))
            IN  \A copy \in Copies : u[copy][c] = EOC
         /\ \A old \in Clusters \ {c} :
              LET u == Finished(t, Links(c, EOC) \o Links(old, c))
              IN  /\ \A copy \in Copies : u[copy][c] = EOC /\ u[copy][old] = c
                  /\ \A copy \in Copies : \A x \in Clusters :
                       x # c /\ x # old => u[copy][x] = t[copy][x]
<1>1. ASSUME NEW copy \in Copies PROVE Finished(t, Links(c, EOC))[copy][c] = EOC
  <2> DEFINE L == Links(c, EOC)
  <2>1. /\ L \in Seq(Link) /\ Distinct(L) /\ DOMAIN L = 1 .. 2
        /\ \A i \in 1 .. 2 : L[i].copy = i /\ L[i].cluster = c /\ L[i].value = EOC
    BY LinksOK
  <2>2. copy \in 1 .. 2
    BY DEF Copies
  <2> HIDE DEF L
  <2>3. Finished(t, L)[L[copy].copy][L[copy].cluster] = L[copy].value
    BY <2>1, <2>2, FinishedAt
  <2> QED
    BY <2>1, <2>2, <2>3 DEF L
<1>2. ASSUME NEW old \in Clusters \ {c}, NEW copy \in Copies
      PROVE  LET u == Finished(t, Links(c, EOC) \o Links(old, c))
             IN  /\ u[copy][c] = EOC /\ u[copy][old] = c
                 /\ \A x \in Clusters : x # c /\ x # old => u[copy][x] = t[copy][x]
  <2> DEFINE L == Links(c, EOC) \o Links(old, c)
  <2>1. /\ L \in Seq(Link) /\ Distinct(L) /\ DOMAIN L = 1 .. 4
        /\ \A i \in 1 .. 2 : L[i].copy = i /\ L[i].cluster = c /\ L[i].value = EOC
        /\ \A i \in 3 .. 4 : L[i].copy = i - 2 /\ L[i].cluster = old /\ L[i].value = c
    <3>1. old \in Clusters /\ c # old
      OBVIOUS
    <3> QED
      BY <3>1, MoreLinks, SMTT(30)
  <2>2. /\ copy \in 1 .. 2 /\ copy + 2 \in 3 .. 4 /\ (copy + 2) - 2 = copy
        /\ copy \in 1 .. 4 /\ copy + 2 \in 1 .. 4
        /\ \A i \in 1 .. 4 : i \in 1 .. 2 \/ i \in 3 .. 4
    BY DEF Copies
  <2> HIDE DEF L
  <2>3. /\ \A i \in DOMAIN L : Finished(t, L)[L[i].copy][L[i].cluster] = L[i].value
        /\ \A x \in Entries :
             (\A i \in DOMAIN L : ~(L[i].copy = copy /\ L[i].cluster = x))
               => Finished(t, L)[copy][x] = t[copy][x]
    BY <2>1, FinishedAt
  <2>4. Finished(t, L)[copy][c] = EOC
    BY <2>1, <2>2, <2>3
  <2>5. Finished(t, L)[copy][old] = c
    BY <2>1, <2>2, <2>3
  <2>6. ASSUME NEW x \in Clusters, x # c, x # old PROVE Finished(t, L)[copy][x] = t[copy][x]
    <3>1. x \in Entries
      BY Constants
    <3>2. \A i \in DOMAIN L : L[i].cluster = c \/ L[i].cluster = old
      BY <2>1, <2>2
    <3> QED
      BY <2>3, <2>6, <3>1, <3>2
  <2> QED
    BY <2>4, <2>5, <2>6 DEF L
<1> QED
  BY <1>1, <1>2

-----------------------------------------------------------------------------
(* A cluster is allocated *)

\* What an entry holds is allocated.
LEMMA HeldAllocated ==
  ASSUME TypeOK, Sound, NEW p \in Shown, NEW c \in Held(At(p))
  PROVE  c \in InVolume /\ fat[1][c] # FREE_CLUSTER /\ fat[2][c] = fat[1][c]
<1>1. PICK e : e = At(p)
  OBVIOUS
<1>2. /\ ChainOK(fat, e.cluster, LengthOf(e)) /\ Held(e) \subseteq InVolume
      /\ Held(e) = Along(fat, e.cluster, LengthOf(e))
  BY <1>1, HeldIs DEF Sound, EntryOK
<1>3. PICK i \in 1 .. LengthOf(e) : c = Walk(fat[1], e.cluster, LengthOf(e))[i]
  BY <1>1, <1>2 DEF Along
<1> QED
  BY <1>1, <1>2, <1>3 DEF ChainOK

LEMMA AllocLinksType ==
  ASSUME call \in Call, NEW c \in Clusters
  PROVE  /\ AllocLinks(c) \in Seq(Link) /\ AllocLinks(c) # <<>>
         /\ call.cluster = 0 => AllocLinks(c) = Links(c, EOC)
         /\ call.cluster # 0 => AllocLinks(c) = Links(c, EOC) \o Links(call.cluster, c)
<1>1. call.cluster \in {0} \cup Clusters
  BY CallFields
<1> DEFINE A == Links(c, EOC)
           B == Links(call.cluster, c)
<1>2. A \in Seq(Link) /\ Len(A) = 2 /\ A # <<>>
  BY LinksOK
<1>3. call.cluster # 0 => B \in Seq(Link) /\ Len(B) = 2
  BY <1>1, LinksOK
<1>4. AllocLinks(c) = A \o (IF call.cluster = 0 THEN <<>> ELSE B)
  BY DEF AllocLinks
<1> HIDE DEF A, B
<1>5. CASE call.cluster = 0
  <2>1. A \o <<>> = A
    BY <1>2
  <2> QED
    BY <1>2, <1>4, <1>5, <2>1 DEF A
<1>6. CASE call.cluster # 0
  <2>1. A \in Seq(Link) /\ B \in Seq(Link)
    BY <1>2, <1>3, <1>6
  <2>2. A \o B \in Seq(Link) /\ Len(A \o B) = Len(A) + Len(B)
    BY <2>1, ConcatProperties
  <2>3. A \o B # <<>>
    BY <1>2, <1>3, <1>6, <2>2
  <2> QED
    BY <1>4, <1>6, <2>2, <2>3 DEF A, B
<1> QED
  BY <1>5, <1>6

\* The chain of the call, one free cluster longer.
LEMMA AllocOwn ==
  ASSUME TypeOK, Sound, call.links = <<>>, NEW n \in Nat, Own(n),
         n > 0 => call.cluster \in InVolume,
         NEW c \in Clusters, fat[1][c] = FREE_CLUSTER
  PROVE  LET L == AllocLinks(c)
             u == Finished(fat, L)
             first == IF call.first = 0 THEN c ELSE call.first
         IN  /\ Distinct(L) /\ first \in Clusters
             /\ ChainOK(u, first, n + 1)
             /\ \A i \in 1 .. n : Walk(u[1], first, n + 1)[i] = Walk(fat[1], call.first, n)[i]
             /\ Walk(u[1], first, n + 1)[n + 1] = c
             /\ \A i \in DOMAIN L : L[i].cluster \in Along(u, first, n + 1)
             /\ \A p \in Shown : Along(u, first, n + 1) \cap Held(At(p)) = {}
<1> DEFINE L == AllocLinks(c)
           u == Finished(fat, L)
           first == IF call.first = 0 THEN c ELSE call.first
<1>1. fat \in FatType /\ call \in Call
  BY DEF TypeOK, FatType
<1>2. Goal = fat
  BY <1>1, FinishedNone DEF Goal
<1>3. /\ ChainOK(fat, call.first, n)
      /\ n = 0 => call.first = 0 /\ call.cluster = 0
      /\ n > 0 => call.cluster = Walk(fat[1], call.first, n)[n]
      /\ \A p \in Shown : Along(fat, call.first, n) \cap Held(At(p)) = {}
  BY <1>2 DEF Own
<1>4. \A p \in Shown : c \notin Held(At(p))
  BY HeldAllocated
<1>5. CASE n = 0
  <2>1. L = Links(c, EOC) /\ first = c
    BY <1>1, <1>3, <1>5, AllocLinksType
  <2>2. /\ Distinct(L) /\ DOMAIN L = 1 .. 2 /\ \A i \in 1 .. 2 : L[i].cluster = c
    BY <2>1, LinksOK
  <2>3. u[1][c] = EOC /\ u[2][c] = EOC
    BY <1>1, <2>1, AllocGoal DEF Copies
  <2>4. ChainOK(u, c, 1) /\ Along(u, c, 1) = {c} /\ Walk(u[1], c, 1)[1] = c
    <3> HIDE DEF u
    <3> QED
      BY <2>3, ChainOne
  <2>5. n + 1 = 1 /\ 1 .. n = {}
    BY <1>5
  <2>6. \A p \in Shown : {c} \cap Held(At(p)) = {}
    BY <1>4
  <2> HIDE DEF L, u, first
  <2>7. /\ Distinct(L) /\ first \in Clusters
        /\ ChainOK(u, first, n + 1)
        /\ \A i \in 1 .. n : Walk(u[1], first, n + 1)[i] = Walk(fat[1], call.first, n)[i]
        /\ Walk(u[1], first, n + 1)[n + 1] = c
        /\ \A i \in DOMAIN L : L[i].cluster \in Along(u, first, n + 1)
        /\ \A p \in Shown : Along(u, first, n + 1) \cap Held(At(p)) = {}
    BY <2>1, <2>2, <2>4, <2>5, <2>6
  <2> QED
    BY <2>7 DEF L, u, first
<1>6. CASE n > 0
  <2> DEFINE old == Walk(fat[1], call.first, n)[n]
  <2>1. old \in Clusters /\ fat[1][old] # FREE_CLUSTER /\ old = call.cluster /\ old # c
    BY <1>3, <1>6 DEF ChainOK
  <2>13. old \in InVolume
    BY <1>6, <2>1
  <2>2. call.first = Walk(fat[1], call.first, n)[1]
    BY <1>6, WalkSteps
  <2>3. call.first \in Clusters
    <3>1. 1 \in 1 .. n
      BY <1>6
    <3> QED
      BY <1>3, <2>2, <3>1 DEF ChainOK
  <2>4. L = Links(c, EOC) \o Links(old, c) /\ first = call.first
    BY <1>1, <2>1, <2>3, AllocLinksType, Constants
  <2>5. /\ Distinct(L) /\ DOMAIN L = 1 .. 4
        /\ \A i \in 1 .. 2 : L[i].cluster = c
        /\ \A i \in 3 .. 4 : L[i].cluster = old
    <3> HIDE DEF L, old
    <3>1. LET M == Links(c, EOC) \o Links(old, c)
          IN  /\ M \in Seq(Link) /\ M # <<>> /\ Distinct(M) /\ DOMAIN M = 1 .. 4
              /\ \A i \in 1 .. 2 : M[i].copy = i /\ M[i].cluster = c /\ M[i].value = EOC
              /\ \A i \in 3 .. 4 : M[i].copy = i - 2 /\ M[i].cluster = old /\ M[i].value = c
      BY <2>1, MoreLinks
    <3> QED
      BY <2>4, <3>1
  <2>6. /\ \A copy \in Copies : u[copy][c] = EOC /\ u[copy][old] = c
        /\ \A copy \in Copies : \A x \in Clusters : x # c /\ x # old => u[copy][x] = fat[copy][x]
    BY <1>1, <2>1, <2>4, AllocGoal
  <2>7. n \in Nat \ {0}
    BY <1>6
  <2>8. /\ ChainOK(u, call.first, n + 1)
        /\ Along(u, call.first, n + 1) = Along(fat, call.first, n) \cup {c}
        /\ \A i \in 1 .. n : Walk(u[1], call.first, n + 1)[i] = Walk(fat[1], call.first, n)[i]
        /\ Walk(u[1], call.first, n + 1)[n + 1] = c
        /\ old \in Along(fat, call.first, n)
    <3> HIDE DEF u
    <3> QED
      BY <1>3, <2>1, <2>6, <2>7, <2>13, ChainGrown, SMTT(30)
  <2>9. \A p \in Shown : (Along(fat, call.first, n) \cup {c}) \cap Held(At(p)) = {}
    BY <1>3, <1>4
  <2>10. \A i \in 1 .. 4 : i \in 1 .. 2 \/ i \in 3 .. 4
    OBVIOUS
  <2> HIDE DEF L, u, first, old
  <2>11. \A i \in DOMAIN L : L[i].cluster \in Along(fat, call.first, n) \cup {c}
    BY <2>5, <2>8, <2>10
  <2>12. /\ Distinct(L) /\ first \in Clusters
         /\ ChainOK(u, first, n + 1)
         /\ \A i \in 1 .. n : Walk(u[1], first, n + 1)[i] = Walk(fat[1], call.first, n)[i]
         /\ Walk(u[1], first, n + 1)[n + 1] = c
         /\ \A i \in DOMAIN L : L[i].cluster \in Along(u, first, n + 1)
         /\ \A p \in Shown : Along(u, first, n + 1) \cap Held(At(p)) = {}
    BY <2>3, <2>4, <2>5, <2>8, <2>9, <2>11
  <2> QED
    BY <2>12 DEF L, u, first
<1> QED
  BY <1>5, <1>6

\* One cluster more to be written, nothing of it yet.
LEMMA StoredMore ==
  ASSUME NEW d, NEW w, NEW v, NEW n \in Nat, NEW name,
         Stored(d, w, n, SECTORS_PER_CLUSTER, name), \A i \in 1 .. n : v[i] = w[i]
  PROVE  Stored(d, v, n + 1, 0, name)
<1> SUFFICES ASSUME NEW j \in 1 .. (n + 1), NEW k \in 1 .. SECTORS_PER_CLUSTER,
                    j < n + 1 \/ k <= 0
             PROVE  /\ v[j] \in InVolume
                    /\ (j - 1) * SECTORS_PER_CLUSTER + k <= SizeOf[name] =>
                         d[v[j]][k] = Filled(Bytes(name, (j - 1) * SECTORS_PER_CLUSTER + k))
  BY DEF Stored
<1>1. j \in 1 .. n /\ k <= SECTORS_PER_CLUSTER
  BY Constants
<1>2. v[j] = w[j]
  BY <1>1
<1> QED
  BY <1>1, <1>2 DEF Stored

LEMMA AllocClusterInv == VolumeInv /\ AllocCluster => VolumeInv'
<1> SUFFICES ASSUME VolumeInv, AllocCluster PROVE VolumeInv'
  OBVIOUS
<1>1. PICK c \in Allocatable :
        /\ call' = [call EXCEPT !.pc = "fat", !.links = AllocLinks(c), !.cluster = c,
                                !.first = IF @ = 0 THEN c ELSE @, !.s = 1]
        /\ fat_failures' = fat_failures + (IF c \in FirstFree THEN 0 ELSE 1)
  BY DEF AllocCluster
<1>2. call.pc = "alloc" /\ UNCHANGED <<boot, fat, root, data, mounted, formatted, created, formats>>
  BY DEF AllocCluster, disk
<1>3. c \in Clusters /\ (c \in FirstFree => fat[1][c] = FREE_CLUSTER)
  BY DEF Allocatable, FirstFree, FreeClusters, Clusters
<1>4. TypeOK /\ call \in Call /\ CallOK
  BY DEF VolumeInv, TypeOK
<1>5. call.links = <<>> /\ Making /\ formatted
  BY <1>2, <1>4 DEF CallOK, Making
<1> DEFINE L == AllocLinks(c)
           first == IF call.first = 0 THEN c ELSE call.first
<1>6. L \in Seq(Link) /\ L # <<>>
  BY <1>3, <1>4, AllocLinksType
<1>7. first \in {0} \cup Clusters
  BY <1>3, <1>4, CallFields
<1>8. call' = [call EXCEPT !.pc = "fat", !.links = L, !.cluster = c, !.first = first, !.s = 1]
  BY <1>1
<1> HIDE DEF L, first
<1>9. /\ call'.pc = "fat" /\ call'.links = L /\ call'.cluster = c /\ call'.first = first
      /\ call'.s = 1 /\ call'.kind = call.kind /\ call'.name = call.name /\ call'.dir = call.dir
      /\ call'.then = call.then /\ call'.remaining = call.remaining
  BY <1>4, <1>8 DEF Call
<1>10. call' \in Call
  BY <1>3, <1>4, <1>6, <1>7, <1>8 DEF Call
<1>11. fat_failures' \in Nat
  BY <1>1, <1>4 DEF TypeOK
<1>12. TypeOK'
  BY <1>2, <1>4, <1>10, <1>11 DEF TypeOK
<1>13. CallOK'
  <2>1. /\ call.kind = "dir" => call.first = 0
        /\ \/ call.kind = "dir" /\ call.name \in Dirs /\ call.then = "mkdir"
           \/ /\ call.kind = "file" /\ call.name \in Files /\ call.then = "data"
              /\ call.remaining <= SizeOf[call.name]
    BY <1>2, <1>4, <1>5 DEF CallOK
  <2>2. call'.kind = "dir" => call'.first = c
    BY <1>9, <2>1 DEF first
  <2>3. c # 0 /\ 1 \in 1 .. SECTORS_PER_CLUSTER
    BY <1>3, Constants
  <2> QED
    BY <1>2, <1>5, <1>6, <1>9, <2>1, <2>2, <2>3 DEF CallOK, Making, Formatting
<1>14. Clean'
  <2>1. Clean /\ SubDirs' = SubDirs
    BY <1>2, <1>5, SameDirs DEF VolumeInv
  <2> QED
    BY <1>2, <1>9, <2>1 DEF Clean
<1>15. ASSUME Intact' PROVE Sound' /\ Flight'
  <2>1. fat_failures = 0 /\ c \in FirstFree
    BY <1>1, <1>4, <1>15 DEF TypeOK, Intact
  <2>2. Sound /\ Flight
    BY <1>5, <2>1 DEF VolumeInv, Intact
  <2>3. /\ Sound' /\ Shown' = Shown /\ SubDirs' = SubDirs
        /\ \A p \in Shown : At(p)' = At(p) /\ Held(At(p))' = Held(At(p))
    BY <1>2, <1>4, <2>2, SoundKept
  <2>4. PICK n \in Nat : Own(n) /\ (DirFlight(n) \/ FileFlight(n))
    BY <1>5, <2>2 DEF Flight
  <2>5. Goal = fat
    <3>1. fat \in FatType
      BY <1>4 DEF TypeOK, FatType
    <3> QED
      BY <1>5, <3>1, FinishedNone DEF Goal
  \* Another cluster is allocated only behind one that has been written.
  <2>11. n > 0 => call.cluster \in InVolume
    <3> SUFFICES ASSUME n > 0 PROVE call.cluster \in InVolume
      OBVIOUS
    <3>1. FileFlight(n)
      BY <1>2, <2>4 DEF DirFlight
    <3>2. Stored(data, Walk(fat[1], call.first, n), n, SECTORS_PER_CLUSTER, call.name)
      BY <1>2, <2>5, <3>1 DEF FileFlight
    <3>3. call.cluster = Walk(fat[1], call.first, n)[n]
      BY <2>4, <2>5 DEF Own
    <3>4. n \in 1 .. n /\ SECTORS_PER_CLUSTER \in 1 .. SECTORS_PER_CLUSTER
          /\ SECTORS_PER_CLUSTER <= SECTORS_PER_CLUSTER
      BY Constants
    <3> QED
      BY <3>2, <3>3, <3>4 DEF Stored
  <2> DEFINE u == Finished(fat, L)
  <2>6. /\ Distinct(L) /\ first \in Clusters
        /\ ChainOK(u, first, n + 1)
        /\ \A i \in 1 .. n : Walk(u[1], first, n + 1)[i] = Walk(fat[1], call.first, n)[i]
        /\ Walk(u[1], first, n + 1)[n + 1] = c
        /\ \A i \in DOMAIN L : L[i].cluster \in Along(u, first, n + 1)
        /\ \A p \in Shown : Along(u, first, n + 1) \cap Held(At(p)) = {}
    BY <1>3, <1>4, <1>5, <2>1, <2>2, <2>4, <2>11, AllocOwn DEF L, first
  <2>7. Goal' = u
    BY <1>2, <1>9 DEF Goal
  <2> HIDE DEF u
  <2>8. Own(n + 1)'
    <3>1. n + 1 # 0 /\ n + 1 > 0
      OBVIOUS
    <3>2. \A p \in Shown' : Along(u, first, n + 1) \cap Held(At(p))' = {}
      BY <2>3, <2>6
    <3> QED
      BY <1>9, <2>6, <2>7, <3>1, <3>2 DEF Own, Distinct
  <2>9. CASE DirFlight(n)
    <3>1. n + 1 = 1
      BY <1>2, <2>9 DEF DirFlight
    <3>2. DirFlight(n + 1)'
      BY <1>9, <2>9, <3>1 DEF DirFlight
    <3> QED
      BY <2>3, <2>8, <3>2 DEF Flight
  <2>10. CASE FileFlight(n)
    <3>1. /\ call.kind = "file" /\ call.dir \in {ROOT} \cup SubDirs /\ call.then = "data"
          /\ call.remaining > 0 /\ SizeOf[call.name] = call.remaining + n * SECTORS_PER_CLUSTER
          /\ Stored(data, Walk(fat[1], call.first, n), n, SECTORS_PER_CLUSTER, call.name)
      BY <1>2, <1>4, <1>5, <2>5, <2>10 DEF FileFlight, CallOK
    <3>2. Stored(data, Walk(u[1], first, n + 1), n + 1, 0, call.name)
      BY <2>6, <3>1, StoredMore
    <3>3. n + 1 > 0 /\ (n + 1) - 1 = n
      OBVIOUS
    <3>4. FileFlight(n + 1)'
      BY <1>2, <1>9, <2>3, <2>7, <3>1, <3>2, <3>3 DEF FileFlight
    <3> QED
      BY <2>3, <2>8, <3>4 DEF Flight
  <2> QED
    BY <2>4, <2>9, <2>10
<1> QED
  BY <1>5, <1>12, <1>13, <1>14, <1>15 DEF VolumeInv

-----------------------------------------------------------------------------
(* An entry of the FAT is written *)

\* What every such step leaves in order, the access having worked or not.
LEMMA FatStepBase ==
  ASSUME VolumeInv, NEW new_fat \in FatType, NEW failures \in Nat, FatStep(new_fat, failures)
  PROVE  /\ TypeOK' /\ CallOK' /\ formatted /\ Clean'
         /\ call.links # <<>> /\ call'.links = Tail(call.links)
         /\ call'.pc = (IF Len(call.links) = 1 THEN call.then ELSE "fat")
         /\ call'.cluster = call.cluster /\ call'.first = call.first /\ call'.s = call.s
         /\ call'.kind = call.kind /\ call'.name = call.name /\ call'.dir = call.dir
         /\ call'.then = call.then /\ call'.remaining = call.remaining
<1> DEFINE rest == Tail(call.links)
           pc == IF Len(call.links) = 1 THEN call.then ELSE "fat"
<1>1. /\ call.pc = "fat" /\ fat' = new_fat /\ fat_failures' = fat_failures + failures
      /\ call' = [call EXCEPT !.links = Tail(@), !.pc = IF Len(call.links) = 1 THEN call.then ELSE @]
      /\ UNCHANGED <<boot, root, data, mounted, formatted, created, formats>>
  BY DEF FatStep
<1>2. TypeOK /\ CallOK /\ call \in Call
  BY DEF VolumeInv, TypeOK
<1>3. call' = [call EXCEPT !.links = rest, !.pc = pc]
  BY <1>1, <1>2
<1>4. call.links \in Seq(Link) /\ call.links # <<>> /\ Making
  BY <1>1, <1>2, CallFields DEF CallOK, Making
<1>5. /\ formatted
      /\ \/ call.kind = "dir" /\ call.name \in Dirs /\ call.then = "mkdir"
         \/ /\ call.kind = "file" /\ call.name \in Files /\ call.then \in {"data", "entry"}
            /\ call.remaining <= SizeOf[call.name]
      /\ call.kind = "dir" => call.first = call.cluster
      /\ call.cluster # 0 /\ call.s \in 1 .. SECTORS_PER_CLUSTER
      /\ call.then # "entry" => call.s = 1
  BY <1>1, <1>2, <1>4 DEF CallOK
<1>6. rest \in Seq(Link) /\ (rest # <<>> <=> Len(call.links) # 1)
  <2>1. rest \in Seq(Link) /\ Len(rest) = Len(call.links) - 1 /\ Len(call.links) \in Nat
    BY <1>4
  <2>2. rest = <<>> <=> Len(rest) = 0
    <3> HIDE DEF rest
    <3> QED
      BY <2>1, EmptySeq
  <2> QED
    BY <2>1, <2>2
<1>7. /\ pc \in {"fat", "mkdir", "data", "entry"} /\ (pc = "fat" <=> Len(call.links) # 1)
      /\ pc # "fat" => pc = call.then
  BY <1>5
<1> HIDE DEF rest, pc
<1>8. /\ call'.links = rest /\ call'.pc = pc /\ call'.cluster = call.cluster
      /\ call'.first = call.first /\ call'.s = call.s
      /\ call'.kind = call.kind /\ call'.name = call.name /\ call'.dir = call.dir
      /\ call'.then = call.then /\ call'.remaining = call.remaining
  BY <1>2, <1>3 DEF Call
<1>9. call' \in Call
  BY <1>2, <1>3, <1>6, <1>7 DEF Call
<1>10. fat_failures' \in Nat
  BY <1>1, <1>2 DEF TypeOK
<1>11. TypeOK'
  BY <1>1, <1>2, <1>9, <1>10 DEF TypeOK, FatType
<1>12. CallOK'
  BY <1>1, <1>5, <1>6, <1>7, <1>8 DEF CallOK, Making, Formatting
<1>13. Clean'
  <2>1. Clean /\ SubDirs' = SubDirs
    BY <1>1, <1>5, SameDirs DEF VolumeInv
  <2>2. call'.pc = "mkdir" => 1 .. (call'.s - 1) = {}
    BY <1>5, <1>7, <1>8
  <2>3. ~(call'.pc = "entry" /\ call'.kind = "dir")
    BY <1>5, <1>7, <1>8
  <2> QED
    BY <1>1, <2>1, <2>2, <2>3 DEF Clean
<1> QED
  BY <1>4, <1>5, <1>8, <1>11, <1>12, <1>13 DEF rest, pc

LEMMA FatWriteInv == VolumeInv /\ FatWrite => VolumeInv'
<1> SUFFICES ASSUME VolumeInv, FatWrite PROVE VolumeInv'
  OBVIOUS
<1> DEFINE new == [fat EXCEPT ![link.copy][link.cluster] = link.value]
<1>1. FatStep(new, 0)
  BY DEF FatWrite
<1>2. call.pc = "fat" /\ fat' = new /\ fat_failures' = fat_failures + 0
      /\ UNCHANGED <<boot, root, data, mounted, formatted, created, formats>>
  BY <1>1 DEF FatStep
<1>3. TypeOK /\ CallOK /\ call \in Call /\ fat \in FatType
  BY DEF VolumeInv, TypeOK, FatType
<1>4. call.links \in Seq(Link) /\ call.links # <<>>
  BY <1>2, <1>3, CallFields DEF CallOK
<1>5. link \in Link /\ link = call.links[1] /\ 1 \in DOMAIN call.links
  BY <1>4 DEF link
<1>6. /\ link.copy \in Copies /\ link.cluster \in Clusters /\ link.cluster \in Entries
      /\ link.value \in 0 .. EOC
  BY <1>5, Constants, LinkValues DEF Link
<1>7. /\ new \in FatType /\ new[link.copy][link.cluster] = link.value
      /\ \A k \in Copies, x \in Entries :
           ~(k = link.copy /\ x = link.cluster) => new[k][x] = fat[k][x]
  <2>1. PICK copy \in Copies, c \in Entries, value \in 0 .. EOC :
          copy = link.copy /\ c = link.cluster /\ value = link.value
    BY <1>6
  <2> DEFINE row == [fat[copy] EXCEPT ![c] = value]
  <2>2. fat[copy] \in [Entries -> 0 .. EOC]
    BY <1>3 DEF FatType
  <2>3. /\ row \in [Entries -> 0 .. EOC] /\ row[c] = value
        /\ \A x \in Entries : x # c => row[x] = fat[copy][x]
    BY <2>2
  <2>4. new = [fat EXCEPT ![copy] = row]
    BY <2>1
  <2> HIDE DEF row, new
  <2>5. new \in FatType /\ new[copy] = row /\ \A k \in Copies : k # copy => new[k] = fat[k]
    BY <1>3, <2>3, <2>4 DEF FatType
  <2> QED
    BY <2>1, <2>3, <2>5
<1> HIDE DEF new
<1>8. /\ TypeOK' /\ CallOK' /\ formatted /\ Clean' /\ call'.links = Tail(call.links)
      /\ call'.pc = (IF Len(call.links) = 1 THEN call.then ELSE "fat")
      /\ call'.cluster = call.cluster /\ call'.first = call.first /\ call'.s = call.s
      /\ call'.kind = call.kind /\ call'.name = call.name /\ call'.dir = call.dir
      /\ call'.then = call.then /\ call'.remaining = call.remaining
  BY <1>1, <1>7, FatStepBase
<1>9. ASSUME Intact' PROVE Sound' /\ Flight'
  <2>1. Sound /\ Flight
    BY <1>2, <1>3, <1>9 DEF VolumeInv, Intact, TypeOK
  <2>2. PICK n \in Nat : Own(n) /\ (DirFlight(n) \/ FileFlight(n))
    BY <1>2, <2>1 DEF Flight, Making
  <2>3. Distinct(call.links)
    BY <2>2 DEF Own, Distinct
  <2> DEFINE rest == Tail(call.links)
  <2>4. /\ Finished(new, rest) = Finished(fat, call.links) /\ Distinct(rest)
        /\ \A i \in DOMAIN rest : i + 1 \in DOMAIN call.links /\ rest[i] = call.links[i + 1]
    BY <1>3, <1>4, <1>7, <2>3, FinishedStep DEF link
  <2> HIDE DEF rest
  <2>5. call'.links = rest
    BY <1>8 DEF rest
  <2>6. Goal' = Goal
    BY <1>2, <2>4, <2>5 DEF Goal
  <2>7. link.cluster \in Along(Goal, call.first, n)
    BY <1>5, <2>2 DEF Own
  <2>8. ASSUME NEW p \in Shown, NEW c \in Held(At(p))
        PROVE  fat'[1][c] = fat[1][c] /\ fat'[2][c] = fat[2][c]
    <3>1. c # link.cluster
      BY <2>2, <2>7 DEF Own
    <3>2. c \in Entries
      BY <1>3, <2>1, HeldAllocated, Constants
    <3> QED
      BY <1>2, <1>7, <3>1, <3>2 DEF Copies
  <2>9. /\ Sound' /\ Shown' = Shown /\ SubDirs' = SubDirs
        /\ \A p \in Shown : At(p)' = At(p) /\ Held(At(p))' = Held(At(p))
    BY <1>2, <1>3, <2>1, <2>8, SoundKept
  <2>10. Own(n)'
    <3>1. /\ ChainOK(Goal, call.first, n)
          /\ n = 0 => call.first = 0 /\ call.cluster = 0
          /\ n > 0 => call.cluster = Walk(Goal[1], call.first, n)[n]
          /\ \A p \in Shown : Along(Goal, call.first, n) \cap Held(At(p)) = {}
          /\ \A i \in DOMAIN call.links : call.links[i].cluster \in Along(Goal, call.first, n)
      BY <2>2 DEF Own
    <3>2. \A i \in DOMAIN rest : rest[i].cluster \in Along(Goal, call.first, n)
      BY <2>4, <3>1
    <3>3. \A p \in Shown' : Along(Goal, call.first, n) \cap Held(At(p))' = {}
      BY <2>9, <3>1
    <3> QED
      BY <1>8, <2>4, <2>5, <2>6, <3>1, <3>2, <3>3 DEF Own, Distinct
  <2>11. /\ call.then # "entry" => call.s = 1
         /\ call.kind = "dir" => call.then = "mkdir"
         /\ call.kind = "file" => call.then \in {"data", "entry"}
    BY <1>2, <1>3 DEF CallOK, Making
  <2>12. CASE DirFlight(n)
    <3>1. call.kind = "dir" /\ call.dir = ROOT /\ n = 1
      BY <1>2, <2>12 DEF DirFlight
    <3>2. call'.pc \in {"fat", "mkdir"} /\ call'.s = 1
      BY <1>8, <2>11, <3>1
    <3>3. DirMade(call.s - 1)'
      BY <3>2 DEF DirMade
    <3>4. DirFlight(n)'
      BY <1>8, <3>1, <3>2, <3>3 DEF DirFlight
    <3> QED
      BY <2>9, <2>10, <3>4 DEF Flight
  <2>13. CASE FileFlight(n)
    <3> DEFINE w == Walk(Goal[1], call.first, n)
    <3>1. /\ call.kind = "file" /\ call.dir \in {ROOT} \cup SubDirs
          /\ \/ /\ call.then = "data" /\ n > 0
                /\ call.remaining > 0
                /\ SizeOf[call.name] = call.remaining + (n - 1) * SECTORS_PER_CLUSTER
                /\ Stored(data, w, n, 0, call.name)
             \/ /\ call.then = "entry" /\ n = ClustersFor(SizeOf[call.name])
                /\ Stored(data, w, n, SECTORS_PER_CLUSTER, call.name)
      BY <1>2, <2>13 DEF FileFlight
    <3>2. /\ Walk(Goal[1], call.first, n)' = w /\ data' = data
      BY <1>2, <1>8, <2>6
    <3> HIDE DEF w
    <3>3. CASE call.then = "data"
      <4>1. call'.pc \in {"fat", "data"} /\ call'.s - 1 = 0
        BY <1>8, <2>11, <3>3
      <4>2. /\ n > 0 /\ call.remaining > 0 /\ Stored(data, w, n, 0, call.name)
            /\ SizeOf[call.name] = call.remaining + (n - 1) * SECTORS_PER_CLUSTER
        BY <3>1, <3>3
      <4> QED
        BY <1>8, <2>9, <2>10, <3>1, <3>2, <3>3, <4>1, <4>2 DEF FileFlight, Flight
    <3>4. CASE call.then = "entry"
      <4>1. call'.pc = "entry" \/ (call'.pc = "fat" /\ call'.then = "entry")
        BY <1>8, <3>4
      <4>2. /\ n = ClustersFor(SizeOf[call.name])
            /\ Stored(data, w, n, SECTORS_PER_CLUSTER, call.name)
        BY <3>1, <3>4
      <4> QED
        BY <1>8, <2>9, <2>10, <3>1, <3>2, <4>1, <4>2 DEF FileFlight, Flight
    <3> QED
      BY <3>1, <3>3, <3>4
  <2> QED
    BY <2>2, <2>9, <2>12, <2>13
<1> QED
  BY <1>2, <1>8, <1>9 DEF VolumeInv

\* After a failed access the volume is not intact.
LEMMA FatFailureInv ==
  ASSUME VolumeInv, NEW new_fat \in FatType, FatStep(new_fat, 1)
  PROVE  VolumeInv'
<1>1. TypeOK' /\ CallOK' /\ Clean'
  BY FatStepBase
<1>2. fat_failures' = fat_failures + 1 /\ fat_failures \in Nat
  BY DEF FatStep, VolumeInv, TypeOK
<1>3. ~Intact'
  BY <1>2 DEF Intact
<1> QED
  BY <1>1, <1>3 DEF VolumeInv

LEMMA FatWriteLostInv == VolumeInv /\ FatWriteLost => VolumeInv'
<1> SUFFICES ASSUME VolumeInv, FatWriteLost PROVE VolumeInv'
  OBVIOUS
<1>1. fat \in FatType /\ FatStep(fat, 1)
  BY DEF VolumeInv, TypeOK, FatType, FatWriteLost
<1> QED
  BY <1>1, FatFailureInv

LEMMA FatWriteGarbageInv == VolumeInv /\ FatWriteGarbage => VolumeInv'
<1> SUFFICES ASSUME VolumeInv, FatWriteGarbage PROVE VolumeInv'
  OBVIOUS
<1> DEFINE others == {c \in Entries \ {link.cluster} :
                        c \div FAT_SECTOR = link.cluster \div FAT_SECTOR}
           row(junk) == [c \in Entries |-> CASE c = link.cluster -> link.value
                                             [] c \in others -> junk[c]
                                             [] OTHER -> fat[link.copy][c]]
<1>1. call.pc = "fat" /\ \E junk \in [others -> Junk] :
        FatStep([fat EXCEPT ![link.copy] = row(junk)], 1)
  BY DEF FatWriteGarbage
<1>2. PICK junk \in [others -> Junk] :
        FatStep([fat EXCEPT ![link.copy] = row(junk)], 1)
  BY <1>1
<1>3. CallOK /\ call \in Call /\ fat \in FatType
  BY DEF VolumeInv, TypeOK, FatType
<1>4. call.links \in Seq(Link) /\ call.links # <<>>
  BY <1>1, <1>3, CallFields DEF CallOK
<1>5. link \in Link
  BY <1>4 DEF link
<1>6. link.copy \in Copies /\ link.value \in 0 .. EOC
  BY <1>5, LinkValues DEF Link
<1>7. Junk \subseteq 0 .. EOC
  BY Fat16Assumption
<1>8. row(junk) \in [Entries -> 0 .. EOC]
  <2>1. fat[link.copy] \in [Entries -> 0 .. EOC]
    BY <1>3, <1>6 DEF FatType
  <2>2. \A c \in others : junk[c] \in 0 .. EOC
    BY <1>7
  <2> HIDE DEF others
  <2> QED
    BY <1>6, <2>1, <2>2
<1> HIDE DEF row
<1>9. [fat EXCEPT ![link.copy] = row(junk)] \in FatType
  BY <1>3, <1>8 DEF FatType
<1> QED
  BY <1>2, <1>9, FatFailureInv

-----------------------------------------------------------------------------
(* A sector of a cluster is written *)

\* A size that ends in the n-th cluster takes n clusters.
LEMMA ClustersForIs ==
  ASSUME NEW n \in Nat \ {0}, NEW r \in 1 .. SECTORS_PER_CLUSTER
  PROVE  ClustersFor(r + (n - 1) * SECTORS_PER_CLUSTER) = n
<1>1. PICK b \in Nat \ {0} : b = SECTORS_PER_CLUSTER
  BY Constants
<1>2. r - 1 \in 0 .. (b - 1) /\ n \in Nat
  BY <1>1
<1>3. (n * b + (r - 1)) \div b = n
  BY <1>2, Division
<1>4. r + (n - 1) * b + b - 1 = n * b + (r - 1)
  BY <1>1
<1> QED
  BY <1>1, <1>3, <1>4 DEF ClustersFor

\* The clusters after the step.
LEMMA WrittenData ==
  ASSUME TypeOK, call.cluster \in InVolume, call.s \in 1 .. SECTORS_PER_CLUSTER,
         NEW sector \in Sector, data' = [data EXCEPT ![call.cluster][call.s] = sector]
  PROVE  /\ data' \in [InVolume -> [1 .. SECTORS_PER_CLUSTER -> Sector]]
         /\ data'[call.cluster][call.s] = sector
         /\ \A k \in 1 .. SECTORS_PER_CLUSTER :
              k # call.s => data'[call.cluster][k] = data[call.cluster][k]
         /\ \A c \in InVolume : c # call.cluster => data'[c] = data[c]
<1>1. PICK x \in InVolume, s \in 1 .. SECTORS_PER_CLUSTER : x = call.cluster /\ s = call.s
  OBVIOUS
<1> DEFINE row == [data[x] EXCEPT ![s] = sector]
<1>2. data \in [InVolume -> [1 .. SECTORS_PER_CLUSTER -> Sector]]
  BY DEF TypeOK
<1>3. data[x] \in [1 .. SECTORS_PER_CLUSTER -> Sector]
  BY <1>2
<1>4. /\ row \in [1 .. SECTORS_PER_CLUSTER -> Sector] /\ row[s] = sector
      /\ \A k \in 1 .. SECTORS_PER_CLUSTER : k # s => row[k] = data[x][k]
  BY <1>3
<1>5. data' = [data EXCEPT ![x] = row]
  BY <1>1
<1> HIDE DEF row
<1>6. /\ data' \in [InVolume -> [1 .. SECTORS_PER_CLUSTER -> Sector]]
      /\ data'[x] = row /\ \A c \in InVolume : c # x => data'[c] = data[c]
  BY <1>2, <1>4, <1>5
<1> QED
  BY <1>1, <1>4, <1>6

\* Directories stay clean when the sector holds nothing old, even one that the
\* call should not have been given.
LEMMA CleanSector ==
  ASSUME TypeOK, Clean, call.cluster \in InVolume, call.s \in 1 .. SECTORS_PER_CLUSTER,
         NEW sector \in Sector, Unstale(sector), root' = root,
         data' = [data EXCEPT ![call.cluster][call.s] = sector],
         call'.pc = "mkdir" => /\ call'.cluster = call.cluster
                               /\ \A s \in 1 .. (call'.s - 1) : Unstale(data'[call.cluster][s]),
         call'.pc = "entry" /\ call'.kind = "dir" =>
           /\ call'.cluster = call.cluster
           /\ \A s \in 1 .. SECTORS_PER_CLUSTER : Unstale(data'[call.cluster][s])
  PROVE  Clean'
<1>1. SubDirs' = SubDirs /\ SubDirs \subseteq InVolume
  BY SameDirs DEF SubDirs
<1>2. /\ data'[call.cluster][call.s] = sector
      /\ \A k \in 1 .. SECTORS_PER_CLUSTER :
           k # call.s => data'[call.cluster][k] = data[call.cluster][k]
      /\ \A c \in InVolume : c # call.cluster => data'[c] = data[c]
  BY WrittenData
<1>3. \A d \in SubDirs : \A s \in 1 .. SECTORS_PER_CLUSTER : Unstale(data[d][s])
  BY DEF Clean
<1>4. \A d \in SubDirs : \A s \in 1 .. SECTORS_PER_CLUSTER : Unstale(data'[d][s])
  BY <1>1, <1>2, <1>3
<1> QED
  BY <1>1, <1>4 DEF Clean

\* The call keeps its clusters.
LEMMA OwnKept ==
  ASSUME NEW n, Own(n), Goal' = Goal, call'.first = call.first, call'.cluster = call.cluster,
         Shown' = Shown, \A p \in Shown : Held(At(p))' = Held(At(p)),
         \A i \in DOMAIN call'.links : call'.links[i].cluster \in Along(Goal, call.first, n),
         Distinct(call'.links)
  PROVE  Own(n)'
<1>1. /\ ChainOK(Goal, call.first, n)
      /\ n = 0 => call.first = 0 /\ call.cluster = 0
      /\ n > 0 => call.cluster = Walk(Goal[1], call.first, n)[n]
      /\ \A p \in Shown : Along(Goal, call.first, n) \cap Held(At(p)) = {}
  BY DEF Own
<1>2. \A p \in Shown' : Along(Goal, call.first, n) \cap Held(At(p))' = {}
  BY <1>1
<1> QED
  BY <1>1, <1>2 DEF Own, Distinct

\* A write to a cluster of the call touches no entry.
LEMMA OwnSector ==
  ASSUME TypeOK, Sound, NEW n \in Nat \ {0}, Own(n), root' = root, created' = created, fat' = fat,
         \A c \in InVolume : c # call.cluster => data'[c] = data[c]
  PROVE  /\ call.cluster \in Along(Goal, call.first, n)
         /\ Sound' /\ Shown' = Shown /\ SubDirs' = SubDirs
         /\ \A p \in Shown : At(p)' = At(p) /\ Held(At(p))' = Held(At(p))
<1>1. call.cluster \in Along(Goal, call.first, n)
  <2>1. n > 0 /\ n \in 1 .. n
    OBVIOUS
  <2> QED
    BY <2>1 DEF Own, Along
<1>2. \A p \in Shown : \A c \in Held(At(p)) : c # call.cluster
  BY <1>1 DEF Own
<1>3. \A p \in Shown : \A c \in Held(At(p)) :
        /\ fat'[1][c] = fat[1][c] /\ fat'[2][c] = fat[2][c]
        /\ c \in InVolume => data'[c] = data[c]
  BY <1>2
<1> QED
  BY <1>1, <1>3, SoundKept

LEMMA NewDirSectorType ==
  ASSUME call \in Call, NEW s
  PROVE  NewDirSector(s) \in Sector /\ Unstale(NewDirSector(s))
<1>1. call.cluster \in Nat
  <2>1. PICK c \in {0} \cup Clusters : c = call.cluster
    BY CallFields
  <2>2. c \in Nat
    BY Constants
  <2> QED
    BY <2>1, <2>2
<1> DEFINE a == DirEntry(".", call.cluster)
           b == DirEntry("..", ROOT)
<1>2. a \in Items /\ b \in Items /\ a.name # "stale" /\ b.name # "stale"
  BY <1>1 DEF DirEntry, Item, Items, Names, ROOT
<1>3. NewDirSector(s) = IF s = 1 THEN [ZeroSector EXCEPT ![1] = a, ![2] = b] ELSE ZeroSector
  BY DEF NewDirSector
<1> HIDE DEF a, b
<1>4. ZeroSector \in [1 .. SLOTS -> Items] /\ \A k \in 1 .. SLOTS : ZeroSector[k].name # "stale"
  BY ZeroSectorType DEF Sector, Unstale
<1>5. [ZeroSector EXCEPT ![1] = a, ![2] = b] \in [1 .. SLOTS -> Items]
  BY <1>2, <1>4
<1>6. \A k \in 1 .. SLOTS : [ZeroSector EXCEPT ![1] = a, ![2] = b][k] \in {a, b, ZeroSector[k]}
  BY <1>4
<1>7. \A k \in 1 .. SLOTS : [ZeroSector EXCEPT ![1] = a, ![2] = b][k].name # "stale"
  BY <1>2, <1>4, <1>6
<1> QED
  BY <1>3, <1>4, <1>5, <1>7 DEF Sector, Unstale

LEMMA WriteDirInv == VolumeInv /\ WriteDir => VolumeInv'
<1> SUFFICES ASSUME VolumeInv, WriteDir PROVE VolumeInv'
  OBVIOUS
<1> DEFINE sector == NewDirSector(call.s)
<1>1. /\ call.pc = "mkdir" /\ call.cluster \in InVolume
      /\ data' = [data EXCEPT ![call.cluster][call.s] = sector]
      /\ call' = IF call.s < SECTORS_PER_CLUSTER THEN [call EXCEPT !.s = @ + 1]
                 ELSE [call EXCEPT !.pc = "entry"]
      /\ UNCHANGED <<boot, fat, root, mounted, formatted, created, fat_failures, formats>>
  BY DEF WriteDir, WriteSector, history
<1>2. TypeOK /\ CallOK /\ call \in Call
  BY DEF VolumeInv, TypeOK
<1>3. /\ Making /\ formatted /\ call.links = <<>> /\ call.kind = "dir" /\ call.name \in Dirs
      /\ call.then = "mkdir" /\ call.first = call.cluster /\ call.cluster # 0
      /\ call.s \in 1 .. SECTORS_PER_CLUSTER
  BY <1>1, <1>2 DEF CallOK, Making
<1>4. sector \in Sector /\ Unstale(sector)
  BY <1>2, NewDirSectorType
<1>5. \A s : NewDirSector(s)' = IF s = 1 THEN [ZeroSector EXCEPT ![1] = DirEntry(".", call'.cluster),
                                                           ![2] = DirEntry("..", ROOT)]
                                ELSE ZeroSector
  BY DEF NewDirSector
<1>6. \A s : NewDirSector(s) = IF s = 1 THEN [ZeroSector EXCEPT ![1] = DirEntry(".", call.cluster),
                                                           ![2] = DirEntry("..", ROOT)]
                               ELSE ZeroSector
  BY DEF NewDirSector
<1> HIDE DEF sector
<1>7. PICK x \in Nat : x = call.s
  BY <1>2, CallFields
<1>8. /\ call' \in Call
      /\ call'.links = call.links /\ call'.kind = call.kind /\ call'.name = call.name
      /\ call'.then = call.then /\ call'.first = call.first /\ call'.cluster = call.cluster
      /\ call'.dir = call.dir
      /\ \/ call'.pc = "mkdir" /\ call'.s = x + 1 /\ x < SECTORS_PER_CLUSTER
         \/ call'.pc = "entry" /\ x = SECTORS_PER_CLUSTER
  <2>1. CASE call.s < SECTORS_PER_CLUSTER
    <3>1. x + 1 \in Nat /\ call' = [call EXCEPT !.s = x + 1]
      BY <1>1, <1>7, <2>1
    <3> QED
      BY <1>1, <1>2, <1>7, <2>1, <3>1 DEF Call
  <2>2. CASE ~(call.s < SECTORS_PER_CLUSTER)
    <3>1. call' = [call EXCEPT !.pc = "entry"] /\ x = SECTORS_PER_CLUSTER
      BY <1>1, <1>3, <1>7, <2>2, Constants
    <3> QED
      BY <1>1, <1>2, <3>1 DEF Call
  <2> QED
    BY <2>1, <2>2
<1>9. /\ data' \in [InVolume -> [1 .. SECTORS_PER_CLUSTER -> Sector]]
      /\ data'[call.cluster][x] = sector
      /\ \A s \in 1 .. SECTORS_PER_CLUSTER : s # x => data'[call.cluster][s] = data[call.cluster][s]
      /\ \A c \in InVolume : c # call.cluster => data'[c] = data[c]
  BY <1>1, <1>2, <1>3, <1>4, <1>7, WrittenData
<1>10. \A s \in 1 .. x : s \in 1 .. SECTORS_PER_CLUSTER /\ (s = x \/ (s # x /\ s \in 1 .. (x - 1)))
  BY <1>3, <1>7, Constants
<1>11. TypeOK'
  BY <1>1, <1>2, <1>8, <1>9 DEF TypeOK
<1>12. CallOK'
  <2>1. call'.pc = "mkdir" => call'.s \in 1 .. SECTORS_PER_CLUSTER
    BY <1>8, Constants
  <2> QED
    BY <1>1, <1>3, <1>8, <2>1 DEF CallOK, Making, Formatting
<1>13. Clean'
  <2>1. Clean /\ \A s \in 1 .. (x - 1) : Unstale(data[call.cluster][s])
    BY <1>1, <1>3, <1>7 DEF VolumeInv, Clean
  <2>2. \A s \in 1 .. x : Unstale(data'[call.cluster][s])
    BY <1>4, <1>9, <1>10, <2>1
  <2>3. call'.pc = "mkdir" => call'.s - 1 = x
    BY <1>8
  <2> QED
    BY <1>1, <1>2, <1>3, <1>4, <1>8, <2>1, <2>2, <2>3, CleanSector
<1>14. ASSUME Intact' PROVE Sound' /\ Flight'
  <2>1. Sound /\ Flight
    BY <1>1, <1>14 DEF VolumeInv, Intact
  <2>2. PICK n \in Nat : Own(n) /\ DirFlight(n)
    BY <1>3, <2>1 DEF Flight, FileFlight
  <2>3. n = 1 /\ call.dir = ROOT /\ DirMade(x - 1)
    BY <1>1, <1>7, <2>2 DEF DirFlight
  <2>4. /\ Sound' /\ Shown' = Shown
        /\ \A p \in Shown : At(p)' = At(p) /\ Held(At(p))' = Held(At(p))
    BY <1>1, <1>2, <1>9, <2>1, <2>2, <2>3, OwnSector
  <2>5. Goal' = Goal
    BY <1>1, <1>8 DEF Goal
  <2>6. DOMAIN call'.links = {}
    BY <1>3, <1>8
  <2>7. Own(n)'
    BY <1>8, <2>2, <2>4, <2>5, <2>6, OwnKept DEF Distinct
  <2>8. ASSUME NEW s \in 1 .. x PROVE data'[call.cluster][s] = NewDirSector(s)'
    <3>1. NewDirSector(s)' = NewDirSector(s)
      BY <1>5, <1>6, <1>8
    <3>2. s = x => data'[call.cluster][s] = NewDirSector(s)
      BY <1>7, <1>9 DEF sector
    <3>3. s # x => data[call.cluster][s] = NewDirSector(s)
      BY <1>10, <2>3 DEF DirMade
    <3> QED
      BY <1>9, <1>10, <3>1, <3>2, <3>3
  <2>9. /\ call'.pc = "mkdir" => DirMade(call.s - 1)'
        /\ call'.pc = "entry" => DirMade(SECTORS_PER_CLUSTER)'
    <3>1. call'.pc = "mkdir" => call'.s - 1 = x
      BY <1>8
    <3> QED
      BY <1>1, <1>8, <2>8, <3>1 DEF DirMade
  <2>10. DirFlight(n)'
    BY <1>3, <1>8, <2>3, <2>9 DEF DirFlight
  <2> QED
    BY <2>4, <2>7, <2>10 DEF Flight
<1> QED
  BY <1>11, <1>12, <1>13, <1>14 DEF VolumeInv

\* Links that say what the FATs say already.
LEMMA FinishedSame ==
  ASSUME NEW t \in FatType, NEW links \in Seq(Link), Distinct(links),
         \A i \in DOMAIN links : t[links[i].copy][links[i].cluster] = links[i].value
  PROVE  Finished(t, links) = t
<1>1. <<>> \in Seq(Link) /\ DOMAIN <<>> = {}
  OBVIOUS
<1>2. ASSUME NEW copy \in Copies, NEW c \in Entries
      PROVE  Finished(t, links)[copy][c] = t[copy][c]
  <2>1. CASE \E i \in DOMAIN links : links[i].copy = copy /\ links[i].cluster = c
    <3>1. PICK i \in DOMAIN links : links[i].copy = copy /\ links[i].cluster = c
      BY <2>1
    <3>2. Finished(t, links)[links[i].copy][links[i].cluster] = links[i].value
      BY FinishedAt
    <3> QED
      BY <3>1, <3>2
  <2>2. CASE \A i \in DOMAIN links : ~(links[i].copy = copy /\ links[i].cluster = c)
    BY <2>2, FinishedAt
  <2> QED
    BY <2>1, <2>2
<1>3. Finished(t, <<>>) = t
  BY FinishedNone
<1>4. \A copy \in Copies, c \in Entries :
        Finished(t, links)[copy][c] = Finished(t, <<>>)[copy][c]
  BY <1>2, <1>3
<1>5. Finished(t, links) = Finished(t, <<>>)
  BY <1>4, SameFats
<1> QED
  BY <1>3, <1>5

\* Sector x of the last cluster gets its part of the file.
LEMMA StoredSector ==
  ASSUME NEW d, NEW e, NEW w, NEW n \in Nat \ {0}, NEW x \in 1 .. SECTORS_PER_CLUSTER, NEW name,
         Stored(d, w, n, x - 1, name), \A i, j \in 1 .. n : w[i] = w[j] => i = j,
         w[n] \in InVolume,
         \A c \in InVolume : c # w[n] => e[c] = d[c],
         \A k \in 1 .. SECTORS_PER_CLUSTER : k # x => e[w[n]][k] = d[w[n]][k],
         (n - 1) * SECTORS_PER_CLUSTER + x <= SizeOf[name] =>
           e[w[n]][x] = Filled(Bytes(name, (n - 1) * SECTORS_PER_CLUSTER + x))
  PROVE  Stored(e, w, n, x, name)
<1> SUFFICES ASSUME NEW j \in 1 .. n, NEW k \in 1 .. SECTORS_PER_CLUSTER, j < n \/ k <= x
             PROVE  /\ w[j] \in InVolume
                    /\ (j - 1) * SECTORS_PER_CLUSTER + k <= SizeOf[name] =>
                         e[w[j]][k] = Filled(Bytes(name, (j - 1) * SECTORS_PER_CLUSTER + k))
  BY DEF Stored
<1>1. n \in 1 .. n
  OBVIOUS
<1>2. CASE j < n
  <2>1. w[j] # w[n]
    BY <1>1, <1>2
  <2>2. /\ w[j] \in InVolume
        /\ (j - 1) * SECTORS_PER_CLUSTER + k <= SizeOf[name] =>
             d[w[j]][k] = Filled(Bytes(name, (j - 1) * SECTORS_PER_CLUSTER + k))
    BY <1>2 DEF Stored
  <2>3. e[w[j]] = d[w[j]]
    BY <2>1, <2>2
  <2> QED
    BY <2>2, <2>3
<1>3. CASE j = n /\ k # x
  <2>1. k <= x - 1
    BY <1>3, Constants
  <2>2. /\ w[j] \in InVolume
        /\ (j - 1) * SECTORS_PER_CLUSTER + k <= SizeOf[name] =>
             d[w[j]][k] = Filled(Bytes(name, (j - 1) * SECTORS_PER_CLUSTER + k))
    BY <2>1 DEF Stored
  <2>3. e[w[j]][k] = d[w[j]][k]
    BY <1>3
  <2> QED
    BY <2>2, <2>3
<1>4. CASE j = n /\ k = x
  BY <1>4
<1> QED
  BY <1>2, <1>3, <1>4

\* The sector that write_file_data writes.
LEMMA DataSectorType ==
  ASSUME NEW name \in Files, NEW i \in Nat
  PROVE  /\ Filled(Bytes(name, i)) \in Sector /\ Unstale(Filled(Bytes(name, i)))
         /\ ZeroSector \in Sector /\ Unstale(ZeroSector)
<1>1. name \in Names /\ name # "stale"
  BY Fat16Assumption DEF Names
<1>2. Bytes(name, i) \in Items /\ Bytes(name, i).name = name
  BY <1>1 DEF Bytes, Item, Items
<1>3. Filled(Bytes(name, i)) \in Sector
  BY <1>2 DEF Filled, Sector
<1>4. Unstale(Filled(Bytes(name, i)))
  BY <1>1, <1>2 DEF Filled, Unstale
<1> QED
  BY <1>3, <1>4, ZeroSectorType

\* Where write_file_data goes on from: the next sector, the end mark, or
\* another cluster.
LEMMA DataNext ==
  ASSUME VolumeInv, WriteData
  PROVE  LET left == call.remaining - ChunkOf(call.remaining)
         IN  /\ call' \in Call
             /\ call'.kind = call.kind /\ call'.name = call.name /\ call'.dir = call.dir
             /\ call'.first = call.first /\ call'.cluster = call.cluster
             /\ \/ /\ call.s < SECTORS_PER_CLUSTER
                   /\ call'.pc = "data" /\ call'.s = call.s + 1 /\ call'.then = call.then
                   /\ call'.remaining = call.remaining /\ call'.links = call.links
                \/ /\ call.s = SECTORS_PER_CLUSTER /\ left = 0
                   /\ call'.pc = "fat" /\ call'.s = call.s /\ call'.then = "entry"
                   /\ call'.remaining = 0 /\ call'.links = Links(call.cluster, EOC)
                \/ /\ call.s = SECTORS_PER_CLUSTER /\ left # 0 /\ left \in Nat
                   /\ call'.pc = "alloc" /\ call'.s = call.s /\ call'.then = call.then
                   /\ call'.remaining = left /\ call'.links = call.links
<1> DEFINE left == call.remaining - ChunkOf(call.remaining)
<1>1. /\ call.pc = "data" /\ call.cluster \in InVolume
      /\ call' = IF call.s < SECTORS_PER_CLUSTER THEN [call EXCEPT !.s = @ + 1]
                 ELSE IF left = 0
                 THEN [call EXCEPT !.pc = "fat", !.remaining = 0, !.then = "entry",
                                   !.links = Links(call.cluster, EOC)]
                 ELSE [call EXCEPT !.pc = "alloc", !.remaining = left]
  BY DEF WriteData, WriteSector
<1>2. call \in Call /\ CallOK
  BY DEF VolumeInv, TypeOK
<1>3. call.s \in 1 .. SECTORS_PER_CLUSTER
  BY <1>1, <1>2 DEF CallOK
<1>4. left \in Nat
  <2>1. PICK r \in Nat : r = call.remaining
    BY <1>2, CallFields
  <2>2. r - ChunkOf(r) \in Nat
    BY Constants DEF ChunkOf
  <2> QED
    BY <2>1, <2>2
<1> HIDE DEF left
<1>5. PICK s \in Nat : s = call.s
  BY <1>2, CallFields
<1>6. CASE call.s < SECTORS_PER_CLUSTER
  <2>1. s + 1 \in Nat /\ call' = [call EXCEPT !.s = s + 1]
    BY <1>1, <1>5, <1>6
  <2> QED
    BY <1>1, <1>2, <1>5, <1>6, <2>1 DEF Call
<1>7. CASE ~(call.s < SECTORS_PER_CLUSTER) /\ left = 0
  <2>1. call' = [call EXCEPT !.pc = "fat", !.remaining = 0, !.then = "entry",
                             !.links = Links(call.cluster, EOC)]
    BY <1>1, <1>7
  <2>2. Links(call.cluster, EOC) \in Seq(Link)
    BY <1>1, LinksOK, Constants
  <2>3. call.s = SECTORS_PER_CLUSTER
    BY <1>3, <1>7, Constants
  <2> QED
    BY <1>2, <1>7, <2>1, <2>2, <2>3 DEF Call, left
<1>8. CASE ~(call.s < SECTORS_PER_CLUSTER) /\ left # 0
  <2>1. call' = [call EXCEPT !.pc = "alloc", !.remaining = left]
    BY <1>1, <1>8
  <2>2. call.s = SECTORS_PER_CLUSTER
    BY <1>3, <1>8, Constants
  <2> QED
    BY <1>2, <1>4, <1>8, <2>1, <2>2 DEF Call, left
<1> QED
  BY <1>6, <1>7, <1>8

LEMMA WriteDataInv == VolumeInv /\ WriteData => VolumeInv'
<1> SUFFICES ASSUME VolumeInv, WriteData PROVE VolumeInv'
  OBVIOUS
<1>1. TypeOK /\ CallOK /\ call \in Call
  BY DEF VolumeInv, TypeOK
<1>2. PICK r \in Nat, s \in Nat : r = call.remaining /\ s = call.s
  BY <1>1, CallFields
<1> DEFINE size == SizeOf[call.name]
           left == r - ChunkOf(r)
           sector == IF s <= r THEN Filled(Bytes(call.name, (size - r) + s)) ELSE ZeroSector
<1>3. /\ call.pc = "data" /\ call.cluster \in InVolume
      /\ data' = [data EXCEPT ![call.cluster][call.s] = sector]
      /\ UNCHANGED <<boot, fat, root, mounted, formatted, created, fat_failures, formats>>
  BY <1>2 DEF WriteData, WriteSector, history
<1>4. /\ formatted /\ call.links = <<>> /\ call.kind = "file" /\ call.name \in Files
      /\ call.then = "data" /\ r <= size /\ s \in 1 .. SECTORS_PER_CLUSTER /\ call.cluster # 0
  BY <1>1, <1>2, <1>3 DEF CallOK, Making
<1>5. size \in Nat
  BY <1>4, Fat16Assumption
<1> HIDE DEF size
<1>6. sector \in Sector /\ Unstale(sector)
  <2>1. (size - r) + s \in Nat
    BY <1>4, <1>5
  <2> QED
    BY <1>4, <2>1, DataSectorType
<1>7. /\ data' \in [InVolume -> [1 .. SECTORS_PER_CLUSTER -> Sector]]
      /\ data'[call.cluster][s] = sector
      /\ \A k \in 1 .. SECTORS_PER_CLUSTER : k # s => data'[call.cluster][k] = data[call.cluster][k]
      /\ \A c \in InVolume : c # call.cluster => data'[c] = data[c]
  <2> HIDE DEF sector
  <2> QED
    BY <1>1, <1>2, <1>3, <1>4, <1>6, WrittenData
<1>8. /\ call' \in Call
      /\ call'.kind = call.kind /\ call'.name = call.name /\ call'.dir = call.dir
      /\ call'.first = call.first /\ call'.cluster = call.cluster
      /\ \/ /\ s < SECTORS_PER_CLUSTER
            /\ call'.pc = "data" /\ call'.s = s + 1 /\ call'.then = "data"
            /\ call'.remaining = r /\ call'.links = <<>>
         \/ /\ s = SECTORS_PER_CLUSTER /\ left = 0
            /\ call'.pc = "fat" /\ call'.s = s /\ call'.then = "entry"
            /\ call'.remaining = 0 /\ call'.links = Links(call.cluster, EOC)
         \/ /\ s = SECTORS_PER_CLUSTER /\ left # 0 /\ left \in Nat
            /\ call'.pc = "alloc" /\ call'.s = s /\ call'.then = "data"
            /\ call'.remaining = left /\ call'.links = <<>>
  BY <1>2, <1>4, DataNext
<1>9. call.cluster \in Clusters /\ Links(call.cluster, EOC) # <<>>
  BY <1>3, Constants, LinksOK
<1>10. left <= r /\ left \in Nat /\ (r > 0 => left < r)
       /\ (left = 0 => r <= SECTORS_PER_CLUSTER) /\ (left # 0 => r = left + SECTORS_PER_CLUSTER)
  BY Constants DEF ChunkOf
<1> HIDE DEF sector, left
<1>11. TypeOK'
  BY <1>1, <1>3, <1>7, <1>8 DEF TypeOK
<1>12. CallOK'
  <2>1. /\ call'.s \in 1 .. SECTORS_PER_CLUSTER
        /\ call'.remaining <= size
    BY <1>4, <1>5, <1>8, <1>10, Constants
  <2>2. call'.remaining <= SizeOf[call'.name]
    BY <1>8, <2>1 DEF size
  <2> QED
    BY <1>3, <1>4, <1>8, <1>9, <2>1, <2>2 DEF CallOK, Making, Formatting
<1>13. Clean'
  <2>1. Clean
    BY <1>4 DEF VolumeInv
  <2>2. call'.pc # "mkdir" /\ call'.pc # "entry"
    BY <1>8
  <2> QED
    BY <1>1, <1>2, <1>3, <1>4, <1>6, <2>1, <2>2, CleanSector
<1>14. ASSUME Intact' PROVE Sound' /\ Flight'
  <2>1. Sound /\ Flight
    BY <1>3, <1>14 DEF VolumeInv, Intact
  <2>2. PICK n \in Nat : Own(n) /\ FileFlight(n)
    BY <1>3, <1>4, <2>1 DEF Flight, DirFlight, Making
  <2>3. fat \in FatType /\ Goal = fat
    <3>1. fat \in FatType
      BY <1>1 DEF TypeOK, FatType
    <3> QED
      BY <1>4, <3>1, FinishedNone DEF Goal
  <2> DEFINE w == Walk(fat[1], call.first, n)
  <2>4. /\ call.dir \in {ROOT} \cup SubDirs /\ n > 0 /\ r > 0
        /\ size = r + (n - 1) * SECTORS_PER_CLUSTER
        /\ Stored(data, w, n, s - 1, call.name)
    BY <1>2, <1>3, <2>2, <2>3 DEF FileFlight, size
  <2>5. n \in Nat \ {0} /\ n \in 1 .. n
    BY <2>4
  <2>6. /\ call.cluster \in Along(fat, call.first, n)
        /\ Sound' /\ Shown' = Shown /\ SubDirs' = SubDirs
        /\ \A p \in Shown : At(p)' = At(p) /\ Held(At(p))' = Held(At(p))
    BY <1>1, <1>3, <1>7, <2>1, <2>2, <2>3, <2>5, OwnSector
  <2>7. /\ ChainOK(fat, call.first, n) /\ call.cluster = w[n]
        /\ \A i, j \in 1 .. n : w[i] = w[j] => i = j
        /\ fat[1][w[n]] = EOC /\ fat[2][w[n]] = EOC
    BY <2>2, <2>3, <2>4, <2>5 DEF Own, ChainOK
  <2> HIDE DEF w
  <2>8. PICK m \in Nat : m = (n - 1) * SECTORS_PER_CLUSTER
    BY <2>5, Constants
  <2>9. Stored(data', w, n, s, call.name)
    <3>1. m + s <= SizeOf[call.name] => data'[w[n]][s] = Filled(Bytes(call.name, m + s))
      <4> SUFFICES ASSUME m + s <= SizeOf[call.name]
                   PROVE  data'[w[n]][s] = Filled(Bytes(call.name, m + s))
        OBVIOUS
      <4>1. s <= r /\ (size - r) + s = m + s
        BY <2>4, <2>8, <1>5 DEF size
      <4> QED
        BY <1>7, <2>7, <4>1 DEF sector
    <3>2. PICK new, old, name : new = data' /\ old = data /\ name = call.name
      OBVIOUS
    <3>3. (n - 1) * SECTORS_PER_CLUSTER + s <= SizeOf[name] =>
            new[w[n]][s] = Filled(Bytes(name, (n - 1) * SECTORS_PER_CLUSTER + s))
      BY <2>8, <3>1, <3>2
    <3>4. /\ w[n] \in InVolume
          /\ \A c \in InVolume : c # w[n] => new[c] = old[c]
          /\ \A k \in 1 .. SECTORS_PER_CLUSTER : k # s => new[w[n]][k] = old[w[n]][k]
      BY <1>3, <1>7, <2>7, <3>2
    <3>5. /\ Stored(old, w, n, s - 1, name) /\ s \in 1 .. SECTORS_PER_CLUSTER
          /\ \A i, j \in 1 .. n : w[i] = w[j] => i = j
      BY <1>4, <2>4, <2>7, <3>2
    <3>6. Stored(new, w, n, s, name)
      BY <2>5, <3>3, <3>4, <3>5, StoredSector
    <3> QED
      BY <3>2, <3>6
  <2>10. Goal' = fat
    <3>1. CASE call'.links = <<>>
      BY <1>3, <2>3, <3>1, FinishedNone DEF Goal
    <3>2. CASE call'.links = Links(call.cluster, EOC)
      <4> DEFINE L == Links(call.cluster, EOC)
      <4>1. /\ L \in Seq(Link) /\ Distinct(L) /\ DOMAIN L = 1 .. 2
            /\ \A i \in 1 .. 2 : L[i].copy = i /\ L[i].cluster = call.cluster /\ L[i].value = EOC
        BY <1>9, LinksOK
      <4> HIDE DEF L
      <4>2. \A i \in 1 .. 2 : fat[i][call.cluster] = EOC
        BY <2>7
      <4>3. \A i \in DOMAIN L : fat[L[i].copy][L[i].cluster] = L[i].value
        BY <4>1, <4>2
      <4>4. Finished(fat, L) = fat
        BY <2>3, <4>1, <4>3, FinishedSame
      <4> QED
        BY <1>3, <3>2, <4>4 DEF Goal, L
    <3> QED
      BY <1>8, <3>1, <3>2
  <2>11. Own(n)'
    <3>1. CASE call'.links = <<>>
      <4>1. DOMAIN call'.links = {}
        BY <3>1
      <4> QED
        BY <1>8, <2>2, <2>3, <2>6, <2>10, <4>1, OwnKept DEF Distinct
    <3>2. CASE call'.links = Links(call.cluster, EOC)
      <4>1. /\ Distinct(call'.links)
            /\ \A i \in DOMAIN call'.links : call'.links[i].cluster = call.cluster
        BY <1>9, <3>2, LinksOK
      <4> QED
        BY <1>8, <2>2, <2>3, <2>6, <2>10, <4>1, OwnKept
    <3> QED
      BY <1>8, <3>1, <3>2
  <2>12. Walk(Goal[1], call.first, n)' = w
    BY <1>8, <2>10 DEF w
  <2>13. call'.kind = "file" /\ call'.dir \in {ROOT} \cup SubDirs'
    BY <1>4, <1>8, <2>4, <2>6
  <2>14. FileFlight(n)'
    <3>1. CASE s < SECTORS_PER_CLUSTER
      <4>1. call'.pc = "data" /\ call'.s - 1 = s /\ call'.then = "data" /\ call'.remaining = r
        BY <1>8, <3>1
      <4> QED
        BY <1>4, <1>8, <2>4, <2>6, <2>9, <2>12, <4>1 DEF FileFlight, size
    <3>2. CASE s = SECTORS_PER_CLUSTER /\ left = 0
      <4>1. call'.pc = "fat" /\ call'.then = "entry"
        BY <1>8, <3>2
      <4>2. r \in 1 .. SECTORS_PER_CLUSTER
        BY <1>10, <2>4, <3>2, Constants
      <4>3. n = ClustersFor(size)
        BY <2>4, <2>5, <4>2, ClustersForIs
      <4>4. /\ n = ClustersFor(SizeOf[call'.name])
            /\ Stored(data', Walk(Goal[1], call.first, n)', n, SECTORS_PER_CLUSTER, call'.name)
        BY <1>8, <2>9, <2>12, <3>2, <4>3 DEF size
      <4> QED
        BY <2>13, <4>1, <4>4 DEF FileFlight
    <3>3. CASE s = SECTORS_PER_CLUSTER /\ left # 0
      <4>1. call'.pc = "alloc" /\ call'.remaining = left
        BY <1>8, <3>3
      <4>2. left > 0 /\ size = left + n * SECTORS_PER_CLUSTER
        <5>1. n * SECTORS_PER_CLUSTER = m + SECTORS_PER_CLUSTER
          BY <2>5, <2>8, Constants
        <5> QED
          BY <1>10, <2>4, <2>8, <3>3, <5>1, Constants
      <4>3. /\ call'.remaining > 0
            /\ SizeOf[call'.name] = call'.remaining + n * SECTORS_PER_CLUSTER
            /\ Stored(data', Walk(Goal[1], call.first, n)', n, SECTORS_PER_CLUSTER, call'.name)
        BY <1>8, <2>9, <2>12, <3>3, <4>1, <4>2 DEF size
      <4> QED
        BY <2>13, <4>1, <4>3 DEF FileFlight
    <3> QED
      BY <1>8, <3>1, <3>2, <3>3
  <2> QED
    BY <2>6, <2>11, <2>14 DEF Flight
<1> QED
  BY <1>11, <1>12, <1>13, <1>14 DEF VolumeInv

-----------------------------------------------------------------------------
(* A directory entry is written *)

\* The first free slot of a packed directory is used.
LEMMA PackedFilled ==
  ASSUME NEW old, NEW new, DOMAIN old \subseteq Nat, DOMAIN new = DOMAIN old, Packed(old),
         NEW i \in DOMAIN old, NEW k \in 1 .. SLOTS, new[i][k].kind # "free",
         \A j \in DOMAIN old, l \in 1 .. SLOTS :
           old[j][l].kind = "free" => i < j \/ (i = j /\ k <= l),
         \A j \in DOMAIN old, l \in 1 .. SLOTS : ~(j = i /\ l = k) => new[j][l] = old[j][l]
  PROVE  Packed(new)
<1> SUFFICES ASSUME NEW a \in DOMAIN old, NEW b \in DOMAIN old, NEW x \in 1 .. SLOTS,
                    NEW y \in 1 .. SLOTS, a < b \/ (a = b /\ x < y), new[a][x].kind = "free"
             PROVE  new[b][y].kind = "free"
  BY DEF Packed
<1>1. ~(a = i /\ x = k)
  OBVIOUS
<1>2. old[a][x].kind = "free"
  BY <1>1
<1>3. old[b][y].kind = "free"
  BY <1>2 DEF Packed
<1>4. i < a \/ (i = a /\ k <= x)
  BY <1>2
<1>5. ~(b = i /\ y = k)
  BY <1>4, Constants
<1> QED
  BY <1>3, <1>5

\* The entry of the call.
LEMMA NewEntryType ==
  ASSUME TypeOK, CallOK, call.pc = "entry"
  PROVE  /\ NewEntry \in Items /\ NewEntry.name = call.name /\ NewEntry.name # "stale"
         /\ NewEntry.kind = call.kind /\ NewEntry.kind \in {"dir", "file"}
         /\ NewEntry.cluster = call.first
         /\ NewEntry.kind = "dir" => NewEntry.cluster \in InVolume
         /\ NewEntry.kind = "file" => call.name \in Files /\ NewEntry.size = SizeOf[call.name]
<1>1. /\ call \in Call /\ Making
  BY DEF TypeOK, Making
<1>2. /\ \/ call.kind = "dir" /\ call.name \in Dirs
         \/ call.kind = "file" /\ call.name \in Files
      /\ call.kind = "dir" => call.first = call.cluster /\ call.cluster \in InVolume
  BY <1>1 DEF CallOK
<1>3. call.name \in Names /\ call.name # "stale"
  BY <1>2, Fat16Assumption DEF Names
<1>4. call.first \in Nat
  <2>1. PICK f \in {0} \cup Clusters : f = call.first
    BY <1>1, CallFields
  <2>2. f \in Nat
    BY Constants
  <2> QED
    BY <2>1, <2>2
<1>5. CASE call.kind = "dir"
  <2>1. NewEntry = [kind |-> "dir", name |-> call.name, cluster |-> call.first, size |-> 0]
    BY <1>5 DEF NewEntry, DirEntry, Item
  <2>2. NewEntry \in Items
    BY <1>3, <1>4, <2>1 DEF Items
  <2> QED
    BY <1>2, <1>3, <1>5, <2>1, <2>2
<1>6. CASE call.kind = "file"
  <2>1. NewEntry = [kind |-> "file", name |-> call.name, cluster |-> call.first,
                    size |-> SizeOf[call.name]]
    BY <1>6 DEF NewEntry, FileEntry, Item
  <2>2. SizeOf[call.name] \in Nat /\ call.name \in Files
    BY <1>2, <1>6, Fat16Assumption
  <2>3. NewEntry \in Items
    BY <1>3, <1>4, <2>1, <2>2 DEF Items
  <2> QED
    BY <1>3, <1>6, <2>1, <2>2, <2>3
<1> QED
  BY <1>2, <1>5, <1>6

\* The entry e of the call goes to slot k of sector i of the directory dir.
Placed(dir, i, k, e) ==
  /\ dir \in {ROOT} \cup InVolume /\ i \in Nat /\ k \in 1 .. SLOTS
  /\ dir = call.dir /\ e = NewEntry
  /\ i \in DOMAIN DirSectors(dir) /\ DirSectors(dir)[i][k].kind = "free"
  /\ \A j \in DOMAIN DirSectors(dir), l \in 1 .. SLOTS :
       DirSectors(dir)[j][l].kind = "free" => i < j \/ (i = j /\ k <= l)
  /\ DOMAIN DirSectors(dir)' = DOMAIN DirSectors(dir)
  /\ DirSectors(dir)'[i][k] = e
  /\ \A j \in DOMAIN DirSectors(dir), l \in 1 .. SLOTS :
       ~(j = i /\ l = k) => DirSectors(dir)'[j][l] = DirSectors(dir)[j][l]
  /\ dir # ROOT => root' = root
  /\ \A d \in InVolume : d # dir => data'[d] = data[d]

LEMMA EntryWritten ==
  ASSUME TypeOK, CallOK, WriteEntry
  PROVE  /\ \E dir, i, k, e : Placed(dir, i, k, e)
         /\ root' \in [1 .. ROOT_SECTORS -> Sector]
         /\ data' \in [InVolume -> [1 .. SECTORS_PER_CLUSTER -> Sector]]
<1>1. call.pc = "entry" /\ call \in Call
  BY DEF WriteEntry, TypeOK
<1>2. PICK dir \in {ROOT} \cup InVolume : dir = call.dir
  BY <1>1, CallFields
<1>3. PICK e \in Items : e = NewEntry
  BY <1>1, NewEntryType
<1> DEFINE old == DirSectors(dir)
<1>4. PICK slot \in FirstFreeSlot(dir) :
        IF dir = ROOT
        THEN root' = [root EXCEPT ![slot[1]] = [old[slot[1]] EXCEPT ![slot[2]] = e]] /\ UNCHANGED data
        ELSE data' = [data EXCEPT ![dir][slot[1]] = [old[slot[1]] EXCEPT ![slot[2]] = e]]
             /\ UNCHANGED root
  BY <1>2, <1>3 DEF WriteEntry
<1>5. slot \in (DOMAIN old) \X (1 .. SLOTS) /\ old[slot[1]][slot[2]].kind = "free"
  BY DEF FirstFreeSlot, FreeSlots
<1>6. \A q \in FreeSlots(dir) : slot[1] < q[1] \/ (slot[1] = q[1] /\ slot[2] <= q[2])
  BY DEF FirstFreeSlot
<1>7. PICK i \in DOMAIN old, k \in 1 .. SLOTS : slot = <<i, k>>
  BY <1>5
<1>8. slot[1] = i /\ slot[2] = k
  BY <1>7
<1>9. ASSUME NEW j \in DOMAIN old, NEW l \in 1 .. SLOTS, old[j][l].kind = "free"
      PROVE  i < j \/ (i = j /\ k <= l)
  <2>1. <<j, l>> \in FreeSlots(dir)
    BY <1>9 DEF FreeSlots
  <2> QED
    BY <1>6, <1>8, <2>1
<1>10. /\ root \in [1 .. ROOT_SECTORS -> Sector]
       /\ data \in [InVolume -> [1 .. SECTORS_PER_CLUSTER -> Sector]]
  BY DEF TypeOK
<1>11. CASE dir = ROOT
  <2>1. old = root /\ DirSectors(dir)' = root' /\ DOMAIN root = 1 .. ROOT_SECTORS
    BY <1>10, <1>11 DEF DirSectors
  <2>2. root' = [root EXCEPT ![i] = [root[i] EXCEPT ![k] = e]] /\ data' = data
    BY <1>4, <1>8, <1>11, <2>1
  <2>3. /\ root' \in [1 .. ROOT_SECTORS -> Sector] /\ root'[i][k] = e
        /\ \A j \in 1 .. ROOT_SECTORS, l \in 1 .. SLOTS :
             ~(j = i /\ l = k) => root'[j][l] = root[j][l]
    <3> DEFINE row == [root[i] EXCEPT ![k] = e]
    <3>1. i \in 1 .. ROOT_SECTORS /\ root[i] \in [1 .. SLOTS -> Items]
      BY <1>10, <2>1 DEF Sector
    <3>2. row \in Sector /\ row[k] = e /\ \A l \in 1 .. SLOTS : l # k => row[l] = root[i][l]
      BY <3>1 DEF Sector
    <3>3. root' = [root EXCEPT ![i] = row]
      BY <2>2
    <3> HIDE DEF row
    <3>4. /\ root' \in [1 .. ROOT_SECTORS -> Sector] /\ root'[i] = row
          /\ \A j \in 1 .. ROOT_SECTORS : j # i => root'[j] = root[j]
      BY <1>10, <3>1, <3>2, <3>3
    <3> QED
      BY <3>2, <3>4
  <2>4. i \in Nat /\ DOMAIN root' = 1 .. ROOT_SECTORS
    BY <2>1, <2>3, Constants
  <2>5. /\ i \in DOMAIN DirSectors(dir) /\ DirSectors(dir)[i][k].kind = "free"
        /\ DOMAIN DirSectors(dir)' = DOMAIN DirSectors(dir)
        /\ DirSectors(dir)'[i][k] = NewEntry
        /\ \A j \in DOMAIN DirSectors(dir), l \in 1 .. SLOTS :
             ~(j = i /\ l = k) => DirSectors(dir)'[j][l] = DirSectors(dir)[j][l]
    BY <1>3, <1>5, <1>8, <2>1, <2>3, <2>4
  <2>6. \A j \in DOMAIN DirSectors(dir), l \in 1 .. SLOTS :
          DirSectors(dir)[j][l].kind = "free" => i < j \/ (i = j /\ k <= l)
    BY <1>9
  <2> HIDE DEF old
  <2>7. Placed(dir, i, k, e)
    BY <1>2, <1>3, <1>11, <2>2, <2>4, <2>5, <2>6 DEF Placed
  <2> QED
    BY <1>10, <2>2, <2>3, <2>7
<1>12. CASE dir # ROOT
  <2>1. dir \in InVolume
    BY <1>12
  <2>2. old = data[dir] /\ DirSectors(dir)' = data'[dir] /\ DOMAIN data[dir] = 1 .. SECTORS_PER_CLUSTER
        /\ data[dir] \in [1 .. SECTORS_PER_CLUSTER -> Sector]
    BY <1>10, <1>12, <2>1 DEF DirSectors
  <2> DEFINE new == [data[dir] EXCEPT ![i] = [data[dir][i] EXCEPT ![k] = e]]
  <2>3. data' = [data EXCEPT ![dir] = new] /\ root' = root
    BY <1>4, <1>8, <1>12, <2>2
  <2>4. /\ new \in [1 .. SECTORS_PER_CLUSTER -> Sector] /\ new[i][k] = e
        /\ \A j \in 1 .. SECTORS_PER_CLUSTER, l \in 1 .. SLOTS :
             ~(j = i /\ l = k) => new[j][l] = data[dir][j][l]
    <3> DEFINE row == [data[dir][i] EXCEPT ![k] = e]
    <3>1. i \in 1 .. SECTORS_PER_CLUSTER /\ data[dir][i] \in [1 .. SLOTS -> Items]
      BY <2>2 DEF Sector
    <3>2. row \in Sector /\ row[k] = e /\ \A l \in 1 .. SLOTS : l # k => row[l] = data[dir][i][l]
      BY <3>1 DEF Sector
    <3> HIDE DEF row
    <3>3. /\ new \in [1 .. SECTORS_PER_CLUSTER -> Sector] /\ new[i] = row
          /\ \A j \in 1 .. SECTORS_PER_CLUSTER : j # i => new[j] = data[dir][j]
      BY <2>2, <3>1, <3>2 DEF row
    <3> HIDE DEF new
    <3> QED
      BY <3>2, <3>3
  <2> HIDE DEF new
  <2>5. /\ data' \in [InVolume -> [1 .. SECTORS_PER_CLUSTER -> Sector]] /\ data'[dir] = new
        /\ \A d \in InVolume : d # dir => data'[d] = data[d]
    BY <1>10, <2>1, <2>3, <2>4
  <2>6. i \in Nat /\ DOMAIN new = 1 .. SECTORS_PER_CLUSTER
    BY <2>2, <2>4, Constants
  <2>7. /\ i \in DOMAIN DirSectors(dir) /\ DirSectors(dir)[i][k].kind = "free"
        /\ DOMAIN DirSectors(dir)' = DOMAIN DirSectors(dir)
        /\ DirSectors(dir)'[i][k] = NewEntry
        /\ \A j \in DOMAIN DirSectors(dir), l \in 1 .. SLOTS :
             ~(j = i /\ l = k) => DirSectors(dir)'[j][l] = DirSectors(dir)[j][l]
    BY <1>3, <1>5, <1>8, <2>2, <2>4, <2>5, <2>6
  <2>8. root' \in [1 .. ROOT_SECTORS -> Sector] /\ i \in Nat /\ dir = call.dir
    BY <1>2, <1>10, <2>3, <2>6
  <2> HIDE DEF old
  <2>9. \A j \in DOMAIN DirSectors(dir), l \in 1 .. SLOTS :
          DirSectors(dir)[j][l].kind = "free" => i < j \/ (i = j /\ k <= l)
    BY <1>9 DEF old
  <2>10. Placed(dir, i, k, e)
    BY <1>3, <2>3, <2>5, <2>7, <2>8, <2>9 DEF Placed
  <2> QED
    BY <2>5, <2>8, <2>10
<1> QED
  BY <1>11, <1>12

\* Slot by slot, nothing else changes.
LEMMA SlotChange ==
  ASSUME TypeOK, NEW dir, NEW i, NEW k, NEW e, Placed(dir, i, k, e)
  PROVE  /\ \A j \in 1 .. ROOT_SECTORS, l \in 1 .. SLOTS :
              \/ root'[j][l] = root[j][l]
              \/ dir = ROOT /\ j = i /\ l = k /\ root[j][l].kind = "free" /\ root'[j][l] = e
         /\ \A d \in InVolume, j \in 1 .. SECTORS_PER_CLUSTER, l \in 1 .. SLOTS :
              \/ data'[d][j][l] = data[d][j][l]
              \/ d = dir /\ j = i /\ l = k /\ data[d][j][l].kind = "free" /\ data'[d][j][l] = e
         /\ dir = ROOT => i \in 1 .. ROOT_SECTORS /\ root[i][k].kind = "free" /\ root'[i][k] = e
         /\ dir # ROOT => /\ dir \in InVolume /\ i \in 1 .. SECTORS_PER_CLUSTER
                          /\ data[dir][i][k].kind = "free" /\ data'[dir][i][k] = e
<1>1. /\ DOMAIN root = 1 .. ROOT_SECTORS
      /\ \A d \in InVolume : DOMAIN data[d] = 1 .. SECTORS_PER_CLUSTER
  BY DiskTypes
<1>2. /\ dir \in {ROOT} \cup InVolume /\ i \in Nat /\ k \in 1 .. SLOTS
      /\ i \in DOMAIN DirSectors(dir) /\ DirSectors(dir)[i][k].kind = "free"
      /\ DirSectors(dir)'[i][k] = e
      /\ \A j \in DOMAIN DirSectors(dir), l \in 1 .. SLOTS :
           ~(j = i /\ l = k) => DirSectors(dir)'[j][l] = DirSectors(dir)[j][l]
      /\ dir # ROOT => root' = root
      /\ \A d \in InVolume : d # dir => data'[d] = data[d]
  BY DEF Placed
<1>3. CASE dir = ROOT
  <2>1. DirSectors(dir) = root /\ DirSectors(dir)' = root' /\ dir \notin InVolume
    BY <1>3, Constants DEF DirSectors
  <2> QED
    BY <1>1, <1>2, <1>3, <2>1
<1>4. CASE dir # ROOT
  <2>1. DirSectors(dir) = data[dir] /\ DirSectors(dir)' = data'[dir] /\ dir \in InVolume
    BY <1>2, <1>4 DEF DirSectors
  <2>2. root' = root
    BY <1>2, <1>4
  <2>3. /\ i \in 1 .. SECTORS_PER_CLUSTER /\ data[dir][i][k].kind = "free" /\ data'[dir][i][k] = e
        /\ \A j \in 1 .. SECTORS_PER_CLUSTER, l \in 1 .. SLOTS :
             ~(j = i /\ l = k) => data'[dir][j][l] = data[dir][j][l]
    BY <1>1, <1>2, <2>1
  <2>4. \A d \in InVolume, j \in 1 .. SECTORS_PER_CLUSTER, l \in 1 .. SLOTS :
          \/ data'[d][j][l] = data[d][j][l]
          \/ d = dir /\ j = i /\ l = k /\ data[d][j][l].kind = "free" /\ data'[d][j][l] = e
    <3> TAKE d \in InVolume, j \in 1 .. SECTORS_PER_CLUSTER, l \in 1 .. SLOTS
    <3>1. d # dir => data'[d] = data[d]
      BY <1>2
    <3> QED
      BY <2>3, <3>1
  <2> QED
    BY <1>4, <2>1, <2>2, <2>3, <2>4
<1> QED
  BY <1>3, <1>4

\* The directories after it: a new one is added to the root's.
LEMMA PlacedDirs ==
  ASSUME TypeOK, NEW dir, NEW i, NEW k, NEW e, Placed(dir, i, k, e),
         e.kind = "dir" => e.cluster \in InVolume
  PROVE  /\ SubDirs \subseteq SubDirs'
         /\ \A d \in SubDirs' : d \in SubDirs \/ (dir = ROOT /\ e.kind = "dir" /\ d = e.cluster)
         /\ SubDirs' \subseteq InVolume
<1>1. /\ \A j \in 1 .. ROOT_SECTORS, l \in 1 .. SLOTS :
           \/ root'[j][l] = root[j][l]
           \/ dir = ROOT /\ j = i /\ l = k /\ root[j][l].kind = "free" /\ root'[j][l] = e
  BY SlotChange
<1>2. ASSUME NEW d \in SubDirs PROVE d \in SubDirs'
  <2>1. PICK j \in 1 .. ROOT_SECTORS, l \in 1 .. SLOTS :
          root[j][l].kind = "dir" /\ root[j][l].cluster = d
    BY DEF SubDirs
  <2>2. root'[j][l] = root[j][l] /\ d \in InVolume
    BY <1>1, <2>1 DEF SubDirs
  <2> QED
    BY <2>1, <2>2 DEF SubDirs
<1>3. ASSUME NEW d \in SubDirs'
      PROVE  d \in SubDirs \/ (dir = ROOT /\ e.kind = "dir" /\ d = e.cluster)
  <2>1. PICK j \in 1 .. ROOT_SECTORS, l \in 1 .. SLOTS :
          root'[j][l].kind = "dir" /\ root'[j][l].cluster = d
    BY DEF SubDirs
  <2>2. d \in InVolume
    BY DEF SubDirs
  <2>3. CASE root'[j][l] = root[j][l]
    BY <2>1, <2>2, <2>3 DEF SubDirs
  <2>4. CASE dir = ROOT /\ root'[j][l] = e
    BY <2>1, <2>4
  <2> QED
    BY <1>1, <2>3, <2>4
<1>4. SubDirs' \subseteq InVolume
  BY DEF SubDirs
<1> QED
  BY <1>2, <1>3, <1>4

\* Types, the call and the absence of old entries after the step.
LEMMA WriteEntryBase ==
  ASSUME VolumeInv, WriteEntry
  PROVE  /\ TypeOK' /\ CallOK' /\ Clean' /\ formatted /\ ~Making'
         /\ \E dir, i, k, e : Placed(dir, i, k, e)
<1>1. /\ call.pc = "entry" /\ call' = [Idle(1) EXCEPT !.first = call.first]
      /\ UNCHANGED <<boot, fat, mounted, formatted, fat_failures, formats>>
  BY DEF WriteEntry
<1>2. TypeOK /\ CallOK /\ call \in Call
  BY DEF VolumeInv, TypeOK
<1>3. call' \in Call /\ call'.pc = "idle" /\ call'.links = <<>>
  <2>1. PICK f \in {0} \cup Clusters : f = call.first
    BY <1>2, CallFields
  <2>2. 1 \in 0 .. 1
    OBVIOUS
  <2> QED
    BY <1>1, <2>1, <2>2, IdleType
<1>4. PICK dir, i, k, e :
        /\ Placed(dir, i, k, e)
        /\ root' \in [1 .. ROOT_SECTORS -> Sector]
        /\ data' \in [InVolume -> [1 .. SECTORS_PER_CLUSTER -> Sector]]
  BY <1>2, EntryWritten
<1>5. TypeOK'
  BY <1>1, <1>2, <1>3, <1>4 DEF TypeOK
<1>6. CallOK' /\ ~Making'
  BY <1>3 DEF CallOK, Making, Formatting
<1>7. formatted /\ Clean /\ (call.kind = "dir" => call.first = call.cluster)
  BY <1>1, <1>2 DEF VolumeInv, CallOK, Making
<1>8. /\ e \in Items /\ e.name # "stale" /\ e.kind = call.kind /\ e.kind \in {"dir", "file"}
      /\ e.cluster = call.first /\ (e.kind = "dir" => e.cluster \in InVolume)
  BY <1>1, <1>2, <1>4, NewEntryType DEF Placed
<1>9. Clean'
  <2>1. ASSUME NEW j \in 1 .. ROOT_SECTORS, NEW l \in 1 .. SLOTS
        PROVE  /\ root'[j][l].name # "stale" /\ root'[j][l].kind \in {"free", "dir", "file"}
               /\ root'[j][l].kind = "dir" => root'[j][l].cluster \in InVolume
    <3>1. root'[j][l] = root[j][l] \/ root'[j][l] = e
      BY <1>2, <1>4, SlotChange
    <3>2. /\ root[j][l].name # "stale" /\ root[j][l].kind \in {"free", "dir", "file"}
          /\ root[j][l].kind = "dir" => root[j][l].cluster \in InVolume
      BY <1>7 DEF Clean, Unstale
    <3> QED
      BY <1>8, <3>1, <3>2
  <2>2. ASSUME NEW d \in SubDirs', NEW s \in 1 .. SECTORS_PER_CLUSTER, NEW l \in 1 .. SLOTS
        PROVE  data'[d][s][l].name # "stale"
    <3>1. d \in InVolume /\ (d \in SubDirs \/ (dir = ROOT /\ e.kind = "dir" /\ d = e.cluster))
      BY <1>2, <1>4, <1>8, PlacedDirs
    <3>2. data'[d][s][l] = data[d][s][l] \/ data'[d][s][l] = e
      BY <1>2, <1>4, <3>1, SlotChange
    <3>3. data[d][s][l].name # "stale"
      <4>1. CASE d \in SubDirs
        BY <1>7, <4>1 DEF Clean, Unstale
      <4>2. CASE e.kind = "dir" /\ d = e.cluster
        BY <1>1, <1>7, <1>8, <4>2 DEF Clean, Unstale
      <4> QED
        BY <3>1, <4>1, <4>2
    <3> QED
      BY <1>8, <3>2, <3>3
  <2> QED
    BY <1>3, <2>1, <2>2 DEF Clean, Unstale
<1> QED
  BY <1>4, <1>5, <1>6, <1>7, <1>9

\* What Shown means in the next state.
LEMMA ShownNext ==
  ASSUME NEW p
  PROVE  /\ p \in Shown' <=>
              \E d, i, k :
                /\ p = <<d, i, k>> /\ k \in 1 .. SLOTS
                /\ \/ d = ROOT /\ i \in 1 .. ROOT_SECTORS /\ root'[i][k].kind # "free"
                   \/ /\ d \in SubDirs' /\ i \in 1 .. SECTORS_PER_CLUSTER
                      /\ data'[d][i][k].kind = "file"
         /\ \A i, k : At(<<ROOT, i, k>>)' = root'[i][k]
         /\ \A d \in InVolume : \A i, k : At(<<d, i, k>>)' = data'[d][i][k]
<1>1. \A i, k : At(<<ROOT, i, k>>)' = root'[i][k]
  BY DEF At, DirSectors
<1>2. \A d \in InVolume : \A i, k : At(<<d, i, k>>)' = data'[d][i][k]
  BY Constants DEF At, DirSectors
<1>3. SubDirs' \subseteq InVolume
  BY DEF SubDirs
<1>4. ASSUME p \in Shown'
      PROVE  \E d, i, k :
             /\ p = <<d, i, k>> /\ k \in 1 .. SLOTS
             /\ \/ d = ROOT /\ i \in 1 .. ROOT_SECTORS /\ root'[i][k].kind # "free"
                \/ /\ d \in SubDirs' /\ i \in 1 .. SECTORS_PER_CLUSTER
                   /\ data'[d][i][k].kind = "file"
  <2>1. CASE p \in {ROOT} \X (1 .. ROOT_SECTORS) \X (1 .. SLOTS) /\ At(p)'.kind # "free"
    <3>1. PICK i \in 1 .. ROOT_SECTORS, k \in 1 .. SLOTS : p = <<ROOT, i, k>>
      BY <2>1
    <3> QED
      BY <1>1, <2>1, <3>1
  <2>2. CASE p \in SubDirs' \X (1 .. SECTORS_PER_CLUSTER) \X (1 .. SLOTS) /\ At(p)'.kind = "file"
    <3>1. PICK d \in SubDirs', i \in 1 .. SECTORS_PER_CLUSTER, k \in 1 .. SLOTS : p = <<d, i, k>>
      BY <2>2
    <3> QED
      BY <1>2, <1>3, <2>2, <3>1
  <2> QED
    BY <1>4, <2>1, <2>2 DEF Shown
<1>5. ASSUME NEW d, NEW i, NEW k, p = <<d, i, k>>, k \in 1 .. SLOTS,
             \/ d = ROOT /\ i \in 1 .. ROOT_SECTORS /\ root'[i][k].kind # "free"
             \/ d \in SubDirs' /\ i \in 1 .. SECTORS_PER_CLUSTER /\ data'[d][i][k].kind = "file"
      PROVE  p \in Shown'
  BY <1>1, <1>2, <1>3, <1>5 DEF Shown
<1> QED
  BY <1>1, <1>2, <1>4, <1>5

\* The entries after the step are the old ones and the new one.
LEMMA PlacedShown ==
  ASSUME TypeOK, NEW dir, NEW i, NEW k, NEW e, Placed(dir, i, k, e),
         dir \in {ROOT} \cup SubDirs, e.kind \in {"dir", "file"},
         e.kind = "dir" =>
           /\ dir = ROOT /\ e.cluster \in InVolume
           /\ \A s \in 1 .. SECTORS_PER_CLUSTER, l \in 1 .. SLOTS : data[e.cluster][s][l].kind # "file"
  PROVE  /\ Shown' = Shown \cup {<<dir, i, k>>} /\ <<dir, i, k>> \notin Shown
         /\ At(<<dir, i, k>>)' = e
         /\ \A p \in Shown : At(p)' = At(p)
<1> DEFINE q == <<dir, i, k>>
<1>1. /\ \A j \in 1 .. ROOT_SECTORS, l \in 1 .. SLOTS :
           \/ root'[j][l] = root[j][l]
           \/ dir = ROOT /\ j = i /\ l = k /\ root[j][l].kind = "free" /\ root'[j][l] = e
      /\ \A d \in InVolume, j \in 1 .. SECTORS_PER_CLUSTER, l \in 1 .. SLOTS :
           \/ data'[d][j][l] = data[d][j][l]
           \/ d = dir /\ j = i /\ l = k /\ data[d][j][l].kind = "free" /\ data'[d][j][l] = e
      /\ dir = ROOT => i \in 1 .. ROOT_SECTORS /\ root[i][k].kind = "free" /\ root'[i][k] = e
      /\ dir # ROOT => /\ dir \in InVolume /\ i \in 1 .. SECTORS_PER_CLUSTER
                       /\ data[dir][i][k].kind = "free" /\ data'[dir][i][k] = e
  BY SlotChange
<1>2. /\ SubDirs \subseteq SubDirs' /\ SubDirs \subseteq InVolume
      /\ \A d \in SubDirs' : d \in SubDirs \/ (dir = ROOT /\ e.kind = "dir" /\ d = e.cluster)
      /\ SubDirs' \subseteq InVolume /\ ROOT \notin InVolume /\ k \in 1 .. SLOTS
  BY PlacedDirs, Constants DEF SubDirs, Placed
<1>3. /\ \A j, l : At(<<ROOT, j, l>>)' = root'[j][l]
      /\ \A d \in InVolume : \A j, l : At(<<d, j, l>>)' = data'[d][j][l]
  BY ShownNext
<1>4. At(q)' = e
  BY <1>1, <1>3
<1>5. ASSUME NEW p \in Shown PROVE p \in Shown' /\ p # q /\ At(p)' = At(p)
  <2>1. PICK d, j, l :
          /\ p = <<d, j, l>> /\ l \in 1 .. SLOTS
          /\ \/ d = ROOT /\ j \in 1 .. ROOT_SECTORS /\ root[j][l].kind # "free"
             \/ d \in SubDirs /\ j \in 1 .. SECTORS_PER_CLUSTER /\ data[d][j][l].kind = "file"
    BY ShownDef
  <2>2. CASE d = ROOT /\ j \in 1 .. ROOT_SECTORS /\ root[j][l].kind # "free"
    <3>1. root'[j][l] = root[j][l] /\ ~(dir = ROOT /\ i = j /\ k = l)
      BY <1>1, <2>1, <2>2
    <3>2. At(p) = root[j][l] /\ At(p)' = root'[j][l]
      BY <1>3, <2>1, <2>2, SectorsOf DEF At
    <3>3. p # q
      BY <2>1, <2>2, <3>1
    <3>4. p \in Shown'
      BY <2>1, <2>2, <3>1, ShownNext
    <3> QED
      BY <3>1, <3>2, <3>3, <3>4
  <2>3. CASE d \in SubDirs /\ j \in 1 .. SECTORS_PER_CLUSTER /\ data[d][j][l].kind = "file"
    <3>1. data'[d][j][l] = data[d][j][l] /\ ~(dir = d /\ i = j /\ k = l)
      BY <1>1, <1>2, <2>1, <2>3
    <3>2. At(p) = data[d][j][l] /\ At(p)' = data'[d][j][l]
      BY <1>2, <1>3, <2>1, <2>3, SectorsOf DEF At
    <3>3. p # q
      BY <2>1, <2>3, <3>1
    <3>4. p \in Shown'
      BY <1>2, <2>1, <2>3, <3>1, ShownNext
    <3> QED
      BY <3>1, <3>2, <3>3, <3>4
  <2> QED
    BY <2>1, <2>2, <2>3
<1>6. q \in Shown'
  <2>1. CASE dir = ROOT
    <3>1. i \in 1 .. ROOT_SECTORS /\ root'[i][k].kind # "free"
      BY <1>1, <2>1
    <3> QED
      BY <1>2, <2>1, <3>1, ShownNext
  <2>2. CASE dir # ROOT
    <3>1. dir \in SubDirs' /\ i \in 1 .. SECTORS_PER_CLUSTER /\ data'[dir][i][k].kind = "file"
      BY <1>1, <1>2, <2>2
    <3> QED
      BY <1>2, <3>1, ShownNext
  <2> QED
    BY <2>1, <2>2
<1>7. ASSUME NEW p \in Shown' PROVE p = q \/ p \in Shown
  <2>1. PICK d, j, l :
          /\ p = <<d, j, l>> /\ l \in 1 .. SLOTS
          /\ \/ d = ROOT /\ j \in 1 .. ROOT_SECTORS /\ root'[j][l].kind # "free"
             \/ d \in SubDirs' /\ j \in 1 .. SECTORS_PER_CLUSTER /\ data'[d][j][l].kind = "file"
    BY ShownNext
  <2>2. CASE d = ROOT /\ j \in 1 .. ROOT_SECTORS /\ root'[j][l].kind # "free"
    <3>1. root[j][l].kind # "free" \/ (dir = d /\ i = j /\ k = l)
      BY <1>1, <2>1, <2>2
    <3> QED
      BY <2>1, <2>2, <3>1, ShownDef
  <2>3. CASE d \in SubDirs' /\ j \in 1 .. SECTORS_PER_CLUSTER /\ data'[d][j][l].kind = "file"
    <3>1. d \in InVolume /\ (data'[d][j][l] = data[d][j][l] \/ (dir = d /\ i = j /\ k = l))
      BY <1>1, <1>2, <2>1, <2>3
    <3>2. CASE dir = d /\ i = j /\ k = l
      BY <2>1, <3>2
    <3>3. CASE data'[d][j][l] = data[d][j][l]
      <4>1. d \in SubDirs
        BY <1>2, <2>1, <2>3, <3>3
      <4> QED
        BY <2>1, <2>3, <3>3, <4>1, ShownDef
    <3> QED
      BY <3>1, <3>2, <3>3
  <2> QED
    BY <2>1, <2>2, <2>3
<1>8. Shown' = Shown \cup {q} /\ q \notin Shown
  BY <1>5, <1>6, <1>7
<1> QED
  BY <1>4, <1>5, <1>8

\* A new directory: "." and "..", and free slots behind them.
LEMMA NewDirFacts ==
  ASSUME NEW s \in Nat, NEW l \in 1 .. SLOTS
  PROVE  /\ NewDirSector(s)[l].kind \in {"dir", "free"}
         /\ NewDirSector(s)[l].kind = "free" <=> ~(s = 1 /\ l <= 2)
         /\ NewDirSector(s)[l].kind = "free" \/ NewDirSector(s)[l].name \in {".", ".."}
<1> DEFINE a == DirEntry(".", call.cluster)
           b == DirEntry("..", ROOT)
<1>1. a.kind = "dir" /\ b.kind = "dir" /\ a.name = "." /\ b.name = ".."
  BY DEF DirEntry, Item
<1>2. NewDirSector(s) = IF s = 1 THEN [ZeroSector EXCEPT ![1] = a, ![2] = b] ELSE ZeroSector
  BY DEF NewDirSector
<1> HIDE DEF a, b
<1>3. /\ ZeroSector \in [1 .. SLOTS -> Items] /\ ZeroSector[l].kind = "free"
  BY ZeroSectorType DEF Sector
<1>4. [ZeroSector EXCEPT ![1] = a, ![2] = b][l] = IF l = 1 THEN a ELSE IF l = 2 THEN b ELSE ZeroSector[l]
  BY <1>3
<1>5. l <= 2 <=> l \in {1, 2}
  BY Constants
<1> QED
  BY <1>1, <1>2, <1>3, <1>4, <1>5

\* What the entry of a call leads to is complete before the entry is written.
LEMMA EntryReady ==
  ASSUME VolumeInv, Intact, call.pc = "entry", NEW e, e = NewEntry
  PROVE  /\ ChainOK(fat, e.cluster, LengthOf(e)) /\ LengthOf(e) \in Nat
         /\ Held(e) \subseteq InVolume
         /\ \A p \in Shown : Held(e) \cap Held(At(p)) = {}
         /\ call.dir \in {ROOT} \cup SubDirs /\ e.kind \in {"dir", "file"}
         /\ e.kind = "file" =>
              /\ e.name \in Files /\ e.size = SizeOf[e.name]
              /\ Stored(data, Walk(fat[1], e.cluster, LengthOf(e)), LengthOf(e),
                        SECTORS_PER_CLUSTER, e.name)
         /\ e.kind = "dir" =>
              /\ call.dir = ROOT /\ e.cluster \in InVolume
              /\ \A s \in 1 .. SECTORS_PER_CLUSTER : data[e.cluster][s] = NewDirSector(s)
<1>1. TypeOK /\ CallOK /\ Flight /\ fat \in FatType /\ Making
  BY DEF VolumeInv, TypeOK, FatType, Making
<1>2. call.links = <<>> /\ (call.kind = "dir" => call.first = call.cluster)
  BY <1>1 DEF CallOK
<1>3. PICK n \in Nat : Own(n) /\ (DirFlight(n) \/ FileFlight(n))
  BY <1>1 DEF Flight
<1>4. Goal = fat
  BY <1>1, <1>2, FinishedNone DEF Goal
<1>5. /\ e \in Items /\ e.name = call.name /\ e.kind = call.kind /\ e.kind \in {"dir", "file"}
      /\ e.cluster = call.first /\ (e.kind = "dir" => e.cluster \in InVolume)
      /\ e.kind = "file" => call.name \in Files /\ e.size = SizeOf[call.name]
  BY <1>1, NewEntryType
<1>6. LengthOf(e) = n
  <2>1. CASE DirFlight(n)
    BY <1>5, <2>1 DEF DirFlight, LengthOf
  <2>2. CASE FileFlight(n)
    BY <1>5, <2>2 DEF FileFlight, LengthOf
  <2> QED
    BY <1>3, <2>1, <2>2
<1>7. /\ ChainOK(fat, e.cluster, n) /\ Held(e) = Along(fat, e.cluster, n)
      /\ \A p \in Shown : Held(e) \cap Held(At(p)) = {}
  BY <1>3, <1>4, <1>5, <1>6, HeldIs DEF Own
<1>8. ASSUME e.kind = "file"
      PROVE  /\ Stored(data, Walk(fat[1], e.cluster, n), n, SECTORS_PER_CLUSTER, e.name)
             /\ call.dir \in {ROOT} \cup SubDirs /\ Held(e) \subseteq InVolume
  <2>1. FileFlight(n)
    BY <1>3, <1>5, <1>8 DEF DirFlight
  <2>2. /\ Stored(data, Walk(fat[1], e.cluster, n), n, SECTORS_PER_CLUSTER, e.name)
        /\ call.dir \in {ROOT} \cup SubDirs
    BY <1>4, <1>5, <2>1 DEF FileFlight
  <2>3. 1 \in 1 .. SECTORS_PER_CLUSTER /\ 1 <= SECTORS_PER_CLUSTER
    BY Constants
  <2>4. \A j \in 1 .. n : Walk(fat[1], e.cluster, n)[j] \in InVolume
    BY <2>2, <2>3 DEF Stored
  <2> QED
    BY <1>7, <2>2, <2>4 DEF Along
<1>9. ASSUME e.kind = "dir"
      PROVE  /\ call.dir = ROOT /\ Held(e) \subseteq InVolume
             /\ \A s \in 1 .. SECTORS_PER_CLUSTER : data[e.cluster][s] = NewDirSector(s)
  <2>1. DirFlight(n)
    BY <1>3, <1>5, <1>9 DEF FileFlight
  <2>2. call.dir = ROOT /\ DirMade(SECTORS_PER_CLUSTER)
    BY <2>1 DEF DirFlight
  <2>3. Held(e) = {e.cluster}
    BY <1>9, HeldIs
  <2> QED
    BY <1>2, <1>5, <1>9, <2>2, <2>3 DEF DirMade
<1> QED
  BY <1>5, <1>6, <1>7, <1>8, <1>9

LEMMA WriteEntrySound ==
  ASSUME VolumeInv, WriteEntry, Intact
  PROVE  Sound'
<1>1. /\ call.pc = "entry" /\ fat' = fat
      /\ created' = created \cup {[dir |-> call.dir, entry |-> NewEntry]}
  BY DEF WriteEntry
<1>2. TypeOK /\ Sound /\ CallOK
  BY DEF VolumeInv
<1>3. PICK dir, i, k, e : Placed(dir, i, k, e)
  BY WriteEntryBase
<1>4. dir = call.dir /\ e = NewEntry /\ i \in Nat /\ k \in 1 .. SLOTS
  BY <1>3 DEF Placed
<1> DEFINE q == <<dir, i, k>>
           n == LengthOf(e)
<1>5. /\ ChainOK(fat, e.cluster, n) /\ n \in Nat
      /\ Held(e) \subseteq InVolume
      /\ \A p \in Shown : Held(e) \cap Held(At(p)) = {}
      /\ dir \in {ROOT} \cup SubDirs /\ e.kind \in {"dir", "file"}
      /\ e.kind = "file" =>
           /\ e.name \in Files /\ e.size = SizeOf[e.name]
           /\ Stored(data, Walk(fat[1], e.cluster, n), n, SECTORS_PER_CLUSTER, e.name)
      /\ e.kind = "dir" =>
           /\ dir = ROOT /\ e.cluster \in InVolume
           /\ \A s \in 1 .. SECTORS_PER_CLUSTER : data[e.cluster][s] = NewDirSector(s)
  BY <1>1, <1>4, EntryReady
<1>6. e.kind = "dir" => \A s \in 1 .. SECTORS_PER_CLUSTER, l \in 1 .. SLOTS :
        /\ data[e.cluster][s][l].kind # "file"
        /\ data[e.cluster][s][l].kind = "free" <=> ~(s = 1 /\ l <= 2)
        /\ data[e.cluster][s][l].kind = "free" \/ data[e.cluster][s][l].name \in {".", ".."}
  <2>1. \A s \in 1 .. SECTORS_PER_CLUSTER : s \in Nat
    OBVIOUS
  <2> QED
    BY <1>5, <2>1, NewDirFacts
<1>7. /\ Shown' = Shown \cup {q} /\ q \notin Shown /\ At(q)' = e
      /\ \A p \in Shown : At(p)' = At(p)
  BY <1>2, <1>3, <1>5, <1>6, PlacedShown
<1>8. /\ SubDirs \subseteq SubDirs' /\ SubDirs \subseteq InVolume
      /\ \A d \in SubDirs' : d \in SubDirs \/ (dir = ROOT /\ e.kind = "dir" /\ d = e.cluster)
      /\ SubDirs' \subseteq InVolume /\ ROOT \notin InVolume
  BY <1>2, <1>3, <1>5, PlacedDirs, Constants DEF SubDirs
<1>9. /\ dir # ROOT => root' = root
      /\ \A d \in InVolume : d # dir => data'[d] = data[d]
  BY <1>3 DEF Placed
<1>10. \A x : Held(x)' = Held(x)
  BY <1>1, HeldIs, HeldIsNext
\* A file is not in the cluster of the directory.
<1>11. ASSUME NEW p \in Shown, At(p).kind = "file" PROVE dir \notin Held(At(p)) \cap InVolume
  <2>1. CASE dir = ROOT
    BY <1>8, <2>1
  <2>2. CASE dir \in SubDirs
    <3>1. PICK r \in Shown : At(r).kind = "dir" /\ Held(At(r)) = {dir}
      BY <2>2, SubDirHeld
    <3>2. p # r
      BY <1>11, <3>1
    <3> QED
      BY <1>2, <3>1, <3>2 DEF Sound
  <2> QED
    BY <1>5, <2>1, <2>2
<1>12. dir \notin Held(e) \cap InVolume
  <2>1. CASE dir = ROOT
    BY <1>8, <2>1
  <2>2. CASE dir \in SubDirs
    <3>1. PICK r \in Shown : Held(At(r)) = {dir}
      BY <2>2, SubDirHeld
    <3> QED
      BY <1>5, <3>1
  <2> QED
    BY <1>5, <2>1, <2>2
\* An entry whose clusters are not written to stays as good as it was.
<1>13. ASSUME NEW x, ChainOK(fat, x.cluster, LengthOf(x)), Held(x) \subseteq InVolume,
              x.kind = "file" =>
                /\ x.name \in Files /\ x.size = SizeOf[x.name] /\ dir \notin Held(x) \cap InVolume
                /\ Stored(data, Walk(fat[1], x.cluster, LengthOf(x)), LengthOf(x),
                          SECTORS_PER_CLUSTER, x.name)
       PROVE  EntryOK(x)'
  <2> DEFINE m == LengthOf(x)
             w == Walk(fat[1], x.cluster, m)
  <2>1. \A j \in 1 .. m : w[j] \in Held(x)
    BY DEF Held, Chain
  <2>2. ASSUME x.kind = "file" PROVE Stored(data', w, m, SECTORS_PER_CLUSTER, x.name)
    <3>1. \A j \in 1 .. m : data'[w[j]] = data[w[j]]
      BY <1>9, <1>13, <2>1, <2>2
    <3>2. Stored(data, w, m, SECTORS_PER_CLUSTER, x.name)
      BY <1>13, <2>2
    <3> HIDE DEF m, w
    <3> QED
      BY <3>1, <3>2 DEF Stored
  <2> QED
    BY <1>1, <1>10, <1>13, <2>2 DEF EntryOK, Chain
<1>14. \A p \in Shown' : EntryOK(At(p))'
  <2>1. ASSUME NEW p \in Shown PROVE EntryOK(At(p))'
    <3>1. PICK x : x = At(p) /\ x = At(p)'
      BY <1>7
    <3>2. EntryOK(x)
      BY <1>2, <3>1 DEF Sound
    <3>3. EntryOK(x)'
      BY <1>11, <1>13, <3>1, <3>2 DEF EntryOK, Chain
    <3> QED
      BY <3>1, <3>3
  <2>2. EntryOK(At(q))'
    <3>1. EntryOK(e)'
      BY <1>5, <1>12, <1>13
    <3> QED
      BY <1>7, <3>1
  <2> QED
    BY <1>7, <2>1, <2>2
<1>15. ASSUME NEW p \in Shown', NEW r \in Shown', p # r PROVE Held(At(p))' \cap Held(At(r))' = {}
  <2>1. PICK x, y : x = At(p)' /\ y = At(r)'
    OBVIOUS
  <2>2. Held(At(p))' = Held(x) /\ Held(At(r))' = Held(y)
    BY <1>10, <2>1
  <2>3. CASE p \in Shown /\ r \in Shown
    <3>1. x = At(p) /\ y = At(r)
      BY <1>7, <2>1, <2>3
    <3> QED
      BY <1>2, <1>15, <2>2, <2>3, <3>1 DEF Sound
  <2>4. CASE p = q /\ r \in Shown
    <3>1. x = e /\ y = At(r)
      BY <1>7, <2>1, <2>4
    <3> QED
      BY <1>5, <2>2, <2>4, <3>1
  <2>5. CASE p \in Shown /\ r = q
    <3>1. x = At(p) /\ y = e
      BY <1>7, <2>1, <2>5
    <3> QED
      BY <1>5, <2>2, <2>5, <3>1
  <2> QED
    BY <1>7, <1>15, <2>3, <2>4, <2>5
<1>16. ASSUME NEW d \in {ROOT} \cup SubDirs' PROVE Packed(DirSectors(d)')
  <2>1. CASE d = dir
    <3> DEFINE old == DirSectors(dir)
               new == DirSectors(dir)'
    <3>1. /\ DOMAIN new = DOMAIN old /\ i \in DOMAIN old /\ k \in 1 .. SLOTS
          /\ new[i][k].kind # "free"
          /\ \A j \in DOMAIN old, l \in 1 .. SLOTS :
               old[j][l].kind = "free" => i < j \/ (i = j /\ k <= l)
          /\ \A j \in DOMAIN old, l \in 1 .. SLOTS : ~(j = i /\ l = k) => new[j][l] = old[j][l]
      BY <1>3, <1>5 DEF Placed
    <3>2. Packed(old)
      BY <1>2, <1>5 DEF Sound
    <3>3. DOMAIN old \subseteq Nat
      <4>1. dir = ROOT => DOMAIN old = 1 .. ROOT_SECTORS
        BY <1>2, DiskTypes, SectorsOf
      <4>2. dir \in SubDirs => DOMAIN old = 1 .. SECTORS_PER_CLUSTER
        BY <1>2, <1>8, DiskTypes, SectorsOf
      <4> HIDE DEF old
      <4>3. 1 .. ROOT_SECTORS \subseteq Nat /\ 1 .. SECTORS_PER_CLUSTER \subseteq Nat
        BY Constants
      <4> QED
        BY <1>5, <4>1, <4>2, <4>3
    <3> HIDE DEF old, new
    <3>4. Packed(new)
      BY <3>1, <3>2, <3>3, PackedFilled
    <3> QED
      BY <2>1, <3>4 DEF new
  <2>2. CASE d # dir /\ d \in {ROOT} \cup SubDirs
    <3>1. DirSectors(d)' = DirSectors(d)
      BY <1>5, <1>8, <1>9, <2>2 DEF DirSectors
    <3> QED
      BY <1>2, <2>2, <3>1 DEF Sound
  <2>3. CASE dir = ROOT /\ e.kind = "dir" /\ d = e.cluster
    <3>1. DirSectors(d)' = data[d] /\ DOMAIN data[d] = 1 .. SECTORS_PER_CLUSTER
      BY <1>2, <1>5, <1>8, <1>9, <2>3, DiskTypes DEF DirSectors
    <3>2. \A s \in 1 .. SECTORS_PER_CLUSTER, l \in 1 .. SLOTS :
            data[d][s][l].kind = "free" <=> ~(s = 1 /\ l <= 2)
      BY <1>6, <2>3
    <3> QED
      BY <3>1, <3>2, Constants DEF Packed
  <2> QED
    BY <1>5, <1>8, <2>1, <2>2, <2>3
<1>17. ASSUME NEW d \in SubDirs', NEW s \in 1 .. SECTORS_PER_CLUSTER, NEW l \in 1 .. SLOTS
       PROVE  data'[d][s][l].kind \in {"free", "file"} \/ data'[d][s][l].name \in {".", ".."}
  <2>1. data'[d][s][l] = data[d][s][l] \/ (d = dir /\ data'[d][s][l] = e)
    BY <1>2, <1>3, <1>8, SlotChange
  <2>2. d = dir => e.kind = "file"
    BY <1>5, <1>8
  <2>3. data[d][s][l].kind \in {"free", "file"} \/ data[d][s][l].name \in {".", ".."}
    <3>1. CASE d \in SubDirs
      BY <1>2, <3>1 DEF Sound
    <3>2. CASE e.kind = "dir" /\ d = e.cluster
      BY <1>6, <3>2
    <3> QED
      BY <1>8, <3>1, <3>2
  <2> QED
    BY <2>1, <2>2, <2>3
<1>18. ASSUME NEW m \in created'
       PROVE  /\ m.dir \in {ROOT} \cup SubDirs' /\ m.entry.kind # "free"
              /\ \E j \in DOMAIN DirSectors(m.dir)', l \in 1 .. SLOTS :
                   DirSectors(m.dir)'[j][l] = m.entry
  <2>1. CASE m \in created
    <3>1. PICK d : d = m.dir
      OBVIOUS
    <3>2. /\ d \in {ROOT} \cup SubDirs /\ m.entry.kind # "free"
          /\ \E j \in DOMAIN DirSectors(d), l \in 1 .. SLOTS : DirSectors(d)[j][l] = m.entry
      BY <1>2, <2>1, <3>1 DEF Sound
    <3>3. PICK j \in DOMAIN DirSectors(d), l \in 1 .. SLOTS : DirSectors(d)[j][l] = m.entry
      BY <3>2
    <3>4. CASE d = dir
      <4>1. j \in DOMAIN DirSectors(d)' /\ DirSectors(d)'[j][l] = m.entry
        BY <1>3, <3>2, <3>3, <3>4 DEF Placed
      <4> QED
        BY <1>8, <3>1, <3>2, <4>1
    <3>5. CASE d # dir
      <4>1. DirSectors(d)' = DirSectors(d)
        BY <1>5, <1>8, <1>9, <3>2, <3>5 DEF DirSectors
      <4> QED
        BY <1>8, <3>1, <3>2, <3>3, <4>1
    <3> QED
      BY <3>4, <3>5
  <2>2. CASE m = [dir |-> dir, entry |-> e]
    <3>1. m.dir = dir /\ m.entry = e
      BY <2>2
    <3>2. i \in DOMAIN DirSectors(dir)' /\ DirSectors(dir)'[i][k] = e
      BY <1>3 DEF Placed
    <3> QED
      BY <1>4, <1>5, <1>8, <3>1, <3>2
  <2> QED
    BY <1>1, <1>4, <2>1, <2>2
<1> QED
  BY <1>14, <1>15, <1>16, <1>17, <1>18 DEF Sound

LEMMA WriteEntryInv == VolumeInv /\ WriteEntry => VolumeInv'
<1> SUFFICES ASSUME VolumeInv, WriteEntry PROVE VolumeInv'
  OBVIOUS
<1>1. TypeOK' /\ CallOK' /\ Clean' /\ ~Making'
  BY WriteEntryBase
<1>2. Intact' => Intact
  BY DEF WriteEntry, Intact
<1>3. Intact' => Sound' /\ Flight'
  BY <1>1, <1>2, WriteEntrySound DEF Flight
<1> QED
  BY <1>1, <1>3 DEF VolumeInv

-----------------------------------------------------------------------------
(* Listings *)

\* The sectors of a directory as a sequence.
LEMMA SectorSeq ==
  ASSUME NEW T, NEW n \in Nat, NEW f \in [1 .. n -> T]
  PROVE  f \in Seq(T) /\ Len(f) = n
<1>1. f \in Seq(T)
  BY SeqDef
<1>2. DOMAIN f = 1 .. Len(f) /\ Len(f) \in Nat /\ DOMAIN f = 1 .. n
  BY <1>1, LenProperties
<1>3. Len(f) <= n /\ n <= Len(f)
  <2>1. n > 0 => n \in 1 .. Len(f)
    BY <1>2
  <2>2. Len(f) > 0 => Len(f) \in 1 .. n
    BY <1>2
  <2> QED
    BY <1>2, <2>1, <2>2
<1> QED
  BY <1>1, <1>2, <1>3

LEMMA MinIn ==
  ASSUME NEW T \in SUBSET Nat, T # {}
  PROVE  Min(T) \in T /\ \A y \in T : Min(T) <= y
  BY LeastNumber DEF Min

\* Slot k of sector i is slot number Index(i, k) of the directory.
Index(i, k) == (i - 1) * SLOTS + k

LEMMA IndexRange ==
  ASSUME NEW n \in Nat, NEW i \in 1 .. n, NEW k \in 1 .. SLOTS
  PROVE  /\ Index(i, k) \in 1 .. (n * SLOTS)
         /\ (Index(i, k) - 1) \div SLOTS = i - 1 /\ (Index(i, k) - 1) % SLOTS = k - 1
<1>1. PICK b \in Nat \ {0} : b = SLOTS
  BY Constants
<1>2. i - 1 \in Nat /\ k - 1 \in 0 .. (b - 1)
  BY <1>1
<1>3. /\ (i - 1) * b + (k - 1) \in Nat
      /\ ((i - 1) * b + (k - 1)) \div b = i - 1 /\ ((i - 1) * b + (k - 1)) % b = k - 1
  BY <1>2, Division
<1>4. Index(i, k) - 1 = (i - 1) * b + (k - 1) /\ Index(i, k) = (i - 1) * b + k
  BY <1>1, <1>2 DEF Index
<1>5. PICK c \in Nat : n = i + c
  BY n - i \in Nat, n = i + (n - i)
<1>6. n * b = (i - 1) * b + b + c * b /\ c * b \in Nat /\ (i - 1) * b \in Nat
  BY <1>2, <1>5
<1>7. k <= b /\ k >= 1 /\ k \in Nat /\ n * b \in Nat
  BY <1>1
<1>8. (i - 1) * b + k <= n * b
  BY <1>6, <1>7
<1>9. (i - 1) * b + k \in 1 .. (n * b)
  BY <1>6, <1>7, <1>8
<1> QED
  BY <1>1, <1>3, <1>4, <1>9

\* And every slot number is one.
LEMMA IndexExists ==
  ASSUME NEW n \in Nat, NEW j \in 1 .. (n * SLOTS)
  PROVE  \E i \in 1 .. n, k \in 1 .. SLOTS :
           j = Index(i, k) /\ 1 + ((j - 1) \div SLOTS) = i /\ 1 + ((j - 1) % SLOTS) = k
<1>1. PICK b \in Nat \ {0} : b = SLOTS
  BY Constants
<1>2. j - 1 \in Nat /\ n * b \in Nat /\ j <= n * b
  BY <1>1
<1>3. PICK q \in Nat, r \in 0 .. (b - 1) :
        j - 1 = q * b + r /\ (j - 1) \div b = q /\ (j - 1) % b = r
  BY <1>2, DivisionExists
<1>4. q < n
  <2> SUFFICES ASSUME q >= n PROVE FALSE
    OBVIOUS
  <2>1. PICK c \in Nat : q = n + c
    BY q - n \in Nat, q = n + (q - n)
  <2>2. q * b = n * b + c * b /\ c * b \in Nat
    BY <2>1
  <2> QED
    BY <1>2, <1>3, <2>2
<1>5. q + 1 \in 1 .. n /\ r + 1 \in 1 .. b /\ (q + 1) - 1 = q
  BY <1>4
<1>6. j = ((q + 1) - 1) * b + (r + 1)
  <2>1. q * b \in Nat
    OBVIOUS
  <2> QED
    BY <1>2, <1>3, <1>5, <2>1
<1>7. 1 + ((j - 1) \div b) = q + 1 /\ 1 + ((j - 1) % b) = r + 1
  BY <1>3
<1>8. j = Index(q + 1, r + 1)
  BY <1>1, <1>6 DEF Index
<1> QED
  BY <1>1, <1>5, <1>7, <1>8

\* Slot numbers follow the order of sectors and slots.
LEMMA IndexOrder ==
  ASSUME NEW i \in Nat \ {0}, NEW a \in Nat \ {0}, NEW k \in 1 .. SLOTS, NEW l \in 1 .. SLOTS,
         Index(i, k) < Index(a, l)
  PROVE  i < a \/ (i = a /\ k < l)
<1>1. PICK b \in Nat \ {0} : b = SLOTS
  BY Constants
<1>2. (i - 1) * b + k < (a - 1) * b + l /\ (i - 1) * b \in Nat /\ (a - 1) * b \in Nat
  <2>1. i - 1 \in Nat /\ a - 1 \in Nat
    OBVIOUS
  <2> QED
    BY <1>1, <2>1 DEF Index
<1>3. CASE i > a
  <2>1. PICK c \in Nat : i = a + 1 + c
    BY <1>3, i - a - 1 \in Nat, i = a + 1 + (i - a - 1)
  <2>2. (i - 1) * b = (a - 1) * b + b + c * b /\ c * b \in Nat
    BY <2>1
  <2> QED
    BY <1>1, <1>2, <2>2
<1>4. CASE i = a
  BY <1>1, <1>2, <1>4
<1> QED
  BY <1>3, <1>4

\* The slots of a directory, by number.
LEMMA SlotsAre ==
  ASSUME NEW n \in Nat, NEW sectors \in [1 .. n -> Sector]
  PROVE  /\ Slots(sectors) \in Seq(Items) /\ Len(Slots(sectors)) = n * SLOTS
         /\ \A i \in 1 .. n, k \in 1 .. SLOTS : Slots(sectors)[Index(i, k)] = sectors[i][k]
<1>1. Len(sectors) = n
  BY SectorSeq
<1> DEFINE At_(j) == sectors[1 + ((j - 1) \div SLOTS)][1 + ((j - 1) % SLOTS)]
<1>2. Slots(sectors) = [j \in 1 .. (n * SLOTS) |-> At_(j)]
  BY <1>1 DEF Slots
<1>3. \A i \in 1 .. n, k \in 1 .. SLOTS : sectors[i][k] \in Items
  BY DEF Sector
<1>4. ASSUME NEW j \in 1 .. (n * SLOTS) PROVE At_(j) \in Items
  <2>1. PICK i \in 1 .. n, k \in 1 .. SLOTS :
          1 + ((j - 1) \div SLOTS) = i /\ 1 + ((j - 1) % SLOTS) = k
    BY IndexExists
  <2> QED
    BY <1>3, <2>1
<1>5. ASSUME NEW i \in 1 .. n, NEW k \in 1 .. SLOTS
      PROVE  Index(i, k) \in 1 .. (n * SLOTS) /\ At_(Index(i, k)) = sectors[i][k]
  <2>1. /\ Index(i, k) \in 1 .. (n * SLOTS)
        /\ (Index(i, k) - 1) \div SLOTS = i - 1 /\ (Index(i, k) - 1) % SLOTS = k - 1
    BY IndexRange
  <2>2. 1 + (i - 1) = i /\ 1 + (k - 1) = k
    BY Constants
  <2> QED
    BY <2>1, <2>2
<1>6. n * SLOTS \in Nat
  BY Constants
<1> HIDE DEF At_
<1>7. Slots(sectors) \in [1 .. (n * SLOTS) -> Items]
  BY <1>2, <1>4
<1>8. Slots(sectors) \in Seq(Items) /\ Len(Slots(sectors)) = n * SLOTS
  BY <1>6, <1>7, SectorSeq
<1>9. \A i \in 1 .. n, k \in 1 .. SLOTS : Slots(sectors)[Index(i, k)] = sectors[i][k]
  BY <1>2, <1>5
<1> QED
  BY <1>8, <1>9

\* What a listing shows: the slots before the first free one.
LEMMA ListedAre ==
  ASSUME NEW dir, NEW n \in Nat, DirSectors(dir) \in [1 .. n -> Sector]
  PROVE  /\ Listed(dir) \in Seq(Items)
         /\ \A j \in DOMAIN Listed(dir) : \E i \in 1 .. n, k \in 1 .. SLOTS :
              /\ j = Index(i, k) /\ Listed(dir)[j] = DirSectors(dir)[i][k]
              /\ DirSectors(dir)[i][k].kind # "free"
         /\ Packed(DirSectors(dir)) =>
              \A i \in 1 .. n, k \in 1 .. SLOTS : DirSectors(dir)[i][k].kind # "free" =>
                Index(i, k) \in DOMAIN Listed(dir) /\ Listed(dir)[Index(i, k)] = DirSectors(dir)[i][k]
<1> DEFINE S == DirSectors(dir)
           slots == Slots(S)
           I == {j \in 1 .. Len(slots) : slots[j].kind = "free"}
           end == IF I # {} THEN Min(I) ELSE 0
           L == Listed(dir)
<1>1. L = IF end = 0 THEN slots ELSE SubSeq(slots, 1, end - 1)
  BY DEF Listed, SelectInSeq
<1>2. /\ slots \in Seq(Items) /\ Len(slots) = n * SLOTS /\ Len(slots) \in Nat
      /\ \A i \in 1 .. n, k \in 1 .. SLOTS : slots[Index(i, k)] = S[i][k]
      /\ DOMAIN slots = 1 .. Len(slots)
  BY SlotsAre
<1>3. \A j \in 1 .. Len(slots) : \E i \in 1 .. n, k \in 1 .. SLOTS : j = Index(i, k)
  BY <1>2, IndexExists
<1>4. DOMAIN S = 1 .. n
  OBVIOUS
<1> HIDE DEF S, slots, L
<1>5. PICK m \in Nat :
        /\ DOMAIN L = 1 .. m /\ m <= Len(slots) /\ L \in Seq(Items)
        /\ \A j \in 1 .. m : L[j] = slots[j] /\ slots[j].kind # "free"
        /\ m < Len(slots) => slots[m + 1].kind = "free"
  <2>1. CASE I = {}
    <3>1. L = slots /\ \A j \in 1 .. Len(slots) : slots[j].kind # "free"
      BY <1>1, <2>1
    <3> QED
      BY <1>2, <3>1
  <2>2. CASE I # {}
    <3>1. Min(I) \in I /\ \A y \in I : Min(I) <= y
      <4>1. I \in SUBSET Nat
        OBVIOUS
      <4> HIDE DEF I
      <4> QED
        BY <2>2, <4>1, MinIn
    <3>2. PICK z \in 1 .. Len(slots) : z = end /\ slots[z].kind = "free" /\ \A y \in I : z <= y
      BY <2>2, <3>1
    <3>3. z # 0 /\ z - 1 \in Nat /\ z - 1 \in Int /\ 1 \in Int
      BY <1>2, <3>2
    <3> DEFINE M == SubSeq(slots, 1, z - 1)
    <3>4. L = M
      BY <1>1, <3>2, <3>3
    <3>5. \A j \in 1 .. (z - 1) : slots[j] \in Items
      BY <1>2, <3>2
    <3>6. /\ M \in Seq(Items) /\ Len(M) = (IF 1 <= z - 1 THEN (z - 1) - 1 + 1 ELSE 0)
          /\ \A j \in 1 .. (z - 1) - 1 + 1 : M[j] = slots[1 + j - 1]
      BY <3>3, <3>5, SubSeqProperties, SMTT(30)
    <3> HIDE DEF M
    <3>7. DOMAIN M = 1 .. (z - 1) /\ \A j \in 1 .. (z - 1) : M[j] = slots[j]
      <4>1. Len(M) = z - 1
        BY <3>3, <3>6
      <4>2. DOMAIN M = 1 .. Len(M)
        BY <3>6
      <4>3. (z - 1) - 1 + 1 = z - 1 /\ \A j \in 1 .. (z - 1) : 1 + j - 1 = j
        BY <3>3
      <4> QED
        BY <3>6, <4>1, <4>2, <4>3
    <3>8. \A j \in 1 .. (z - 1) : slots[j].kind # "free"
      <4> SUFFICES ASSUME NEW j \in 1 .. (z - 1), slots[j].kind = "free" PROVE FALSE
        OBVIOUS
      <4>1. j \in I
        BY <1>2, <3>2
      <4> HIDE DEF I
      <4>2. z <= j
        BY <3>2, <4>1
      <4> QED
        BY <3>3, <4>2
    <3>9. z - 1 <= Len(slots) /\ (z - 1) + 1 = z
      BY <1>2, <3>2
    <3> QED
      BY <3>2, <3>3, <3>4, <3>6, <3>7, <3>8, <3>9
  <2> QED
    BY <2>1, <2>2
<1> HIDE DEF I, end
<1>6. ASSUME NEW j \in 1 .. m
      PROVE  \E i \in 1 .. n, k \in 1 .. SLOTS :
               j = Index(i, k) /\ L[j] = S[i][k] /\ S[i][k].kind # "free"
  <2>1. j \in 1 .. Len(slots)
    BY <1>2, <1>5
  <2>2. PICK i \in 1 .. n, k \in 1 .. SLOTS : j = Index(i, k)
    BY <1>3, <2>1
  <2> QED
    BY <1>2, <1>5, <2>2
<1>7. ASSUME Packed(S), NEW i \in 1 .. n, NEW k \in 1 .. SLOTS, S[i][k].kind # "free"
      PROVE  Index(i, k) \in 1 .. m /\ L[Index(i, k)] = S[i][k]
  <2>1. Index(i, k) \in 1 .. Len(slots) /\ slots[Index(i, k)].kind # "free"
    BY <1>2, <1>7, IndexRange
  <2>2. ~(Index(i, k) > m)
    <3> SUFFICES ASSUME Index(i, k) > m PROVE FALSE
      OBVIOUS
    <3>1. m + 1 \in 1 .. Len(slots) /\ slots[m + 1].kind = "free" /\ m + 1 < Index(i, k)
      <4>1. m + 1 <= Index(i, k) /\ m + 1 <= Len(slots) /\ m + 1 >= 1
        BY <1>2, <2>1
      <4>2. slots[m + 1].kind = "free"
        BY <1>2, <1>5, <4>1
      <4>3. m + 1 # Index(i, k)
        BY <2>1, <4>2
      <4> QED
        BY <1>2, <2>1, <4>1, <4>2, <4>3
    <3>2. PICK a \in 1 .. n, b \in 1 .. SLOTS : m + 1 = Index(a, b)
      BY <1>3, <3>1
    <3>3. S[a][b].kind = "free"
      BY <1>2, <3>1, <3>2
    <3>4. a \in Nat \ {0} /\ i \in Nat \ {0} /\ Index(a, b) < Index(i, k)
      BY <3>1, <3>2
    <3>5. a < i \/ (a = i /\ b < k)
      BY <3>4, IndexOrder
    <3>6. S[i][k].kind = "free"
      BY <1>4, <1>7, <3>3, <3>5 DEF Packed
    <3> QED
      BY <1>7, <3>6
  <2>3. Index(i, k) \in 1 .. m
    BY <1>2, <2>1, <2>2
  <2> QED
    BY <1>2, <1>5, <2>3
<1> QED
  BY <1>5, <1>6, <1>7 DEF S, L

\* What a search finds is listed under the name, and what is listed is found.
LEMMA FindAre ==
  ASSUME NEW dir, NEW name, Listed(dir) \in Seq(Items)
  PROVE  /\ \A x \in Find(dir, name) :
              \E j \in DOMAIN Listed(dir) : x = Listed(dir)[j] /\ x.name = name
         /\ (\E j \in DOMAIN Listed(dir) : Listed(dir)[j].name = name) => Find(dir, name) # {}
<1> DEFINE L == Listed(dir)
           I == {j \in 1 .. Len(L) : L[j].name = name}
           i == IF I # {} THEN Min(I) ELSE 0
<1>1. Find(dir, name) = IF i = 0 THEN {} ELSE {L[i]}
  BY DEF Find, SelectInSeq
<1> HIDE DEF L
<1>2. Len(L) \in Nat /\ DOMAIN L = 1 .. Len(L)
  BY DEF L
<1>3. I # {} => i \in I
  <2>1. I \in SUBSET Nat
    OBVIOUS
  <2>2. I # {} => Min(I) \in I
    <3> HIDE DEF I
    <3> QED
      BY <2>1, MinIn
  <2> QED
    BY <2>2
<1>4. I # {} => i # 0
  BY <1>2, <1>3
<1>5. \A x \in Find(dir, name) : \E j \in DOMAIN L : x = L[j] /\ x.name = name
  BY <1>1, <1>2, <1>3
<1>6. (\E j \in DOMAIN L : L[j].name = name) => Find(dir, name) # {}
  <2> SUFFICES ASSUME NEW j \in DOMAIN L, L[j].name = name PROVE Find(dir, name) # {}
    OBVIOUS
  <2>1. j \in I
    BY <1>2
  <2> QED
    BY <1>1, <1>4, <2>1
<1> QED
  BY <1>5, <1>6 DEF L

\* The sectors of the directories.
LEMMA DirTypes ==
  ASSUME TypeOK
  PROVE  /\ DirSectors(ROOT) \in [1 .. ROOT_SECTORS -> Sector]
         /\ \A d \in InVolume : DirSectors(d) \in [1 .. SECTORS_PER_CLUSTER -> Sector]
  BY SectorsOf DEF TypeOK

\* A directory that is found in the root is one.
LEMMA FoundDir ==
  ASSUME TypeOK, Clean, NEW name, NEW x \in Find(ROOT, name), x.kind = "dir"
  PROVE  x.cluster \in SubDirs
<1>1. ROOT_SECTORS \in Nat /\ DirSectors(ROOT) = root
  BY Constants, SectorsOf
<1>2. /\ Listed(ROOT) \in Seq(Items)
      /\ \A j \in DOMAIN Listed(ROOT) : \E i \in 1 .. ROOT_SECTORS, k \in 1 .. SLOTS :
           Listed(ROOT)[j] = DirSectors(ROOT)[i][k]
  BY <1>1, DirTypes, ListedAre
<1>3. PICK j \in DOMAIN Listed(ROOT) : x = Listed(ROOT)[j]
  BY <1>2, FindAre
<1>4. PICK i \in 1 .. ROOT_SECTORS, k \in 1 .. SLOTS : x = root[i][k]
  BY <1>1, <1>2, <1>3
<1>5. x.cluster \in InVolume
  BY <1>4 DEF Clean
<1> QED
  BY <1>4, <1>5 DEF SubDirs

-----------------------------------------------------------------------------
(* Every step *)

LEMMA StepInv == VolumeInv /\ Step => VolumeInv'
<1> SUFFICES ASSUME VolumeInv, Step PROVE VolumeInv'
  OBVIOUS
<1>1. FormatFails \/ AllocNone \/ WriteFails \/ WriteEntryFails => GiveUp
  BY DEF FormatFails, AllocNone, WriteFails, WriteEntryFails
<1> QED
  BY <1>1, GiveUpInv, FormatBootInv, FormatFatInv, FormatRootInv, AllocClusterInv, FatWriteInv,
     FatWriteLostInv, FatWriteGarbageInv, WriteDataInv, WriteDirInv, WriteEntryInv
     DEF Step, Format

\* A drive with something else on it.
LEMMA VolumeInit == Init => VolumeInv
<1> SUFFICES ASSUME Init PROVE VolumeInv
  OBVIOUS
<1>1. call \in Call /\ call.pc = "idle" /\ call.links = <<>>
  <2>1. 0 \in 0 .. 1
    OBVIOUS
  <2> QED
    BY <2>1, IdleType DEF Init
<1>2. StaleSector \in Sector
  <2>1. Item("file", "stale", 2, 1) \in Items
    BY DEF Item, Items, Names
  <2> QED
    BY <2>1 DEF StaleSector, Filled, Sector
<1>3. TypeOK
  BY <1>1, <1>2, LinkValues DEF Init, TypeOK
<1>4. CallOK
  BY <1>1 DEF CallOK, Formatting, Making
<1> QED
  BY <1>3, <1>4 DEF Init, VolumeInv, Intact

LEMMA UnchangedInv == VolumeInv /\ UNCHANGED vars => VolumeInv'
<1> SUFFICES ASSUME VolumeInv, UNCHANGED vars PROVE VolumeInv'
  OBVIOUS
<1>1. UNCHANGED <<boot, fat, root, data, mounted, call, history, formatted, created, fat_failures, formats>>
  BY DEF vars, disk, history
<1>2. TypeOK /\ TypeOK' /\ CallOK' /\ SubDirs' = SubDirs
  BY <1>1 DEF VolumeInv, TypeOK, CallOK, Formatting, Making, SubDirs
<1>3. Clean => Clean'
  BY <1>1, <1>2 DEF Clean
<1>4. ASSUME Sound, Flight PROVE Sound' /\ Flight'
  <2>1. /\ Sound' /\ Shown' = Shown
        /\ \A p \in Shown : At(p)' = At(p) /\ Held(At(p))' = Held(At(p))
    BY <1>1, <1>2, <1>4, SoundKept
  <2>2. ASSUME Making' PROVE Flight'
    <3>1. Making
      BY <1>1, <2>2 DEF Making
    <3>2. PICK n \in Nat : Own(n) /\ (DirFlight(n) \/ FileFlight(n))
      BY <1>4, <3>1 DEF Flight
    <3>3. Goal' = Goal
      BY <1>1 DEF Goal
    <3>4. Own(n)'
      BY <1>1, <2>1, <3>2, <3>3, OwnKept DEF Own, Distinct
    <3>5. DirFlight(n) => DirFlight(n)'
      BY <1>1 DEF DirFlight, DirMade, NewDirSector
    <3>6. FileFlight(n) => FileFlight(n)'
      BY <1>1, <1>2, <3>3 DEF FileFlight
    <3> QED
      BY <3>2, <3>4, <3>5, <3>6 DEF Flight
  <2> QED
    BY <2>1, <2>2 DEF Flight
<1> QED
  BY <1>1, <1>2, <1>3, <1>4 DEF VolumeInv, Intact

LEMMA ClientInv == VolumeInv /\ (ClientMkdir \/ ClientCreate) => VolumeInv'
<1>1. ASSUME VolumeInv, ClientMkdir PROVE VolumeInv'
  BY <1>1, StartMkdirInv DEF ClientMkdir
<1>2. ASSUME VolumeInv, ClientCreate PROVE VolumeInv'
  <2>1. PICK dir \in DirClusters, f \in Files : formatted /\ StartCreate(dir, f)
    BY <1>2 DEF ClientCreate
  <2>2. TypeOK /\ Clean
    BY <1>2, <2>1 DEF VolumeInv
  <2>3. dir \in {ROOT} \cup SubDirs
    <3>1. CASE dir = ROOT
      BY <3>1
    <3>2. CASE dir # ROOT
      <4>1. PICK x \in UNION {Find(ROOT, d) : d \in Dirs} : x.kind = "dir" /\ dir = x.cluster
        BY <3>2 DEF DirClusters
      <4>2. PICK d \in Dirs : x \in Find(ROOT, d)
        BY <4>1
      <4> QED
        BY <2>2, <4>1, <4>2, FoundDir
    <3> QED
      BY <3>1, <3>2
  <2> QED
    BY <1>2, <2>1, <2>3, StartCreateInv
<1> QED
  BY <1>1, <1>2

\* VolumeInv is inductive: it holds after every step of a client that makes
\* directories and files in any order, of the calls sector by sector, with any
\* access failing and power failing at any point (fat16.c as a whole).
THEOREM VolumeInvariant == Spec => []VolumeInv
<1>1. VolumeInv /\ [Next]_vars => VolumeInv'
  <2>1. NotMounted => GiveUp
    BY DEF NotMounted
  <2> QED
    BY <2>1, GiveUpInv, UnchangedInv, StartFormatInv, MountInv, ClientInv, StepInv, PowerFailureInv
    DEF Next
<1> QED
  BY <1>1, VolumeInit, PTL DEF Spec

-----------------------------------------------------------------------------
(* What the invariant says of directories and files *)

\* A place is a used slot of the root or of one of its directories.
LEMMA PlaceFacts ==
  ASSUME TypeOK, Clean, NEW p \in Places
  PROVE  \E d \in {ROOT} \cup SubDirs, i \in Nat, k \in 1 .. SLOTS :
           /\ p = <<d, Index(i, k)>> /\ i \in DOMAIN DirSectors(d)
           /\ EntryAt(p) = DirSectors(d)[i][k] /\ EntryAt(p).kind # "free"
           /\ EntryAt(p).name \notin {".", ".."}
<1> DEFINE in(dir) == {<<dir, i>> : i \in DOMAIN Listed(dir)}
           dirs == {e.cluster : e \in {Listed(ROOT)[i] : i \in
                      {j \in DOMAIN Listed(ROOT) : Listed(ROOT)[j].kind = "dir"}}}
<1>1. p \in in(ROOT) \cup UNION {in(d) : d \in dirs \cap InVolume}
  BY DEF Places
<1>2. EntryAt(p).name \notin {".", ".."}
  BY DEF Places, EntryAt
<1>3. /\ ROOT_SECTORS \in Nat /\ SECTORS_PER_CLUSTER \in Nat
      /\ DirSectors(ROOT) = root
  BY Constants, SectorsOf
<1>4. \A j \in DOMAIN Listed(ROOT) : \E i \in 1 .. ROOT_SECTORS, k \in 1 .. SLOTS :
        /\ j = Index(i, k) /\ Listed(ROOT)[j] = DirSectors(ROOT)[i][k]
        /\ DirSectors(ROOT)[i][k].kind # "free"
  BY <1>3, DirTypes, ListedAre
<1>5. ASSUME NEW d \in dirs, d \in InVolume PROVE d \in SubDirs
  <2>1. PICK j \in DOMAIN Listed(ROOT) : Listed(ROOT)[j].kind = "dir" /\ d = Listed(ROOT)[j].cluster
    OBVIOUS
  <2>2. PICK i \in 1 .. ROOT_SECTORS, k \in 1 .. SLOTS : Listed(ROOT)[j] = root[i][k]
    BY <1>3, <1>4, <2>1
  <2> QED
    BY <1>5, <2>1, <2>2 DEF SubDirs
<1>6. PICK d \in {ROOT} \cup SubDirs : \E j \in DOMAIN Listed(d) : p = <<d, j>>
  <2>1. CASE p \in in(ROOT)
    BY <2>1
  <2>2. CASE p \in UNION {in(d) : d \in dirs \cap InVolume}
    <3>1. PICK d \in dirs \cap InVolume : p \in in(d)
      BY <2>2
    <3>2. d \in SubDirs
      BY <1>5
    <3> QED
      BY <3>1, <3>2
  <2> QED
    BY <1>1, <2>1, <2>2
<1>7. PICK j \in DOMAIN Listed(d) : p = <<d, j>> /\ EntryAt(p) = Listed(d)[j]
  BY <1>6 DEF EntryAt
<1>8. PICK n \in Nat : DirSectors(d) \in [1 .. n -> Sector]
  BY <1>3, <1>6, DirTypes DEF SubDirs
<1>9. PICK i \in 1 .. n, k \in 1 .. SLOTS :
        /\ j = Index(i, k) /\ Listed(d)[j] = DirSectors(d)[i][k]
        /\ DirSectors(d)[i][k].kind # "free"
  <2> HIDE DEF in, dirs
  <2>1. \A l \in DOMAIN Listed(d) : \E i \in 1 .. n, k \in 1 .. SLOTS :
          /\ l = Index(i, k) /\ Listed(d)[l] = DirSectors(d)[i][k]
          /\ DirSectors(d)[i][k].kind # "free"
    BY <1>8, ListedAre, SMTT(30)
  <2> QED
    BY <1>7, <2>1
<1>10. i \in Nat /\ i \in DOMAIN DirSectors(d)
  BY <1>8, <1>9
<1> HIDE DEF in, dirs
<1> QED
  BY <1>2, <1>6, <1>7, <1>9, <1>10

\* On a sound volume it is one of the entries that are shown, and places differ
\* as these do.
LEMMA PlaceShown ==
  ASSUME TypeOK, Clean, Sound, NEW p \in Places
  PROVE  \E q \in Shown : EntryAt(p) = At(q) /\ p = <<q[1], Index(q[2], q[3])>>
<1>1. PICK d \in {ROOT} \cup SubDirs, i \in Nat, k \in 1 .. SLOTS :
           /\ p = <<d, Index(i, k)>> /\ i \in DOMAIN DirSectors(d)
           /\ EntryAt(p) = DirSectors(d)[i][k] /\ EntryAt(p).kind # "free"
           /\ EntryAt(p).name \notin {".", ".."}
  BY PlaceFacts
<1> DEFINE q == <<d, i, k>>
<1>2. q[1] = d /\ q[2] = i /\ q[3] = k /\ At(q) = DirSectors(d)[i][k]
  BY DEF At
<1>3. q \in Shown
  <2>1. CASE d = ROOT
    <3>1. DirSectors(d) = root /\ i \in 1 .. ROOT_SECTORS
      BY <1>1, <2>1, SectorsOf, DiskTypes
    <3> QED
      BY <1>1, <2>1, <3>1, ShownDef
  <2>2. CASE d \in SubDirs
    <3>1. d \in InVolume /\ DirSectors(d) = data[d] /\ i \in 1 .. SECTORS_PER_CLUSTER
      <4>1. d \in InVolume
        BY <2>2 DEF SubDirs
      <4> QED
        BY <1>1, <4>1, SectorsOf, DiskTypes
    <3>2. data[d][i][k].kind \in {"free", "file"} \/ data[d][i][k].name \in {".", ".."}
      BY <2>2, <3>1 DEF Sound
    <3>3. data[d][i][k].kind = "file"
      BY <1>1, <3>1, <3>2
    <3> QED
      BY <2>2, <3>1, <3>3, ShownDef
  <2> QED
    BY <2>1, <2>2
<1> HIDE DEF q
<1> QED
  BY <1>1, <1>2, <1>3

\* No entry from before the format is listed anywhere.
LEMMA GoneOfInv == VolumeInv => OldFilesGone
<1> SUFFICES ASSUME VolumeInv, formatted, NEW p \in Places
             PROVE  EntryAt(p).name # "stale"
  BY DEF OldFilesGone
<1>1. TypeOK /\ Clean
  BY DEF VolumeInv
<1>2. PICK d \in {ROOT} \cup SubDirs, i \in Nat, k \in 1 .. SLOTS :
        i \in DOMAIN DirSectors(d) /\ EntryAt(p) = DirSectors(d)[i][k]
  BY <1>1, PlaceFacts
<1>3. CASE d = ROOT
  <2>1. DirSectors(d) = root /\ i \in 1 .. ROOT_SECTORS
    BY <1>1, <1>2, <1>3, SectorsOf, DiskTypes
  <2> QED
    BY <1>1, <1>2, <2>1 DEF Clean, Unstale
<1>4. CASE d \in SubDirs
  <2>1. d \in InVolume
    BY <1>4 DEF SubDirs
  <2>2. DirSectors(d) = data[d] /\ i \in 1 .. SECTORS_PER_CLUSTER
    BY <1>1, <1>2, <2>1, SectorsOf, DiskTypes
  <2> QED
    BY <1>1, <1>2, <1>4, <2>2 DEF Clean, Unstale
<1> QED
  BY <1>3, <1>4

\* The clusters of a visible entry are the same in both FATs.
LEMMA SyncOfInv == VolumeInv => FatsInSync
<1> SUFFICES ASSUME VolumeInv, Intact, NEW p \in Places, NEW c \in Held(EntryAt(p))
             PROVE  fat[1][c] = fat[2][c]
  BY DEF FatsInSync
<1>1. TypeOK /\ Clean /\ Sound
  BY DEF VolumeInv, Intact
<1>2. PICK q \in Shown : EntryAt(p) = At(q)
  BY <1>1, PlaceShown
<1>3. c \in Held(At(q))
  BY <1>2
<1> QED
  BY <1>1, <1>3, HeldAllocated

\* The clusters of a size: one more for each SECTORS_PER_CLUSTER sectors begun.
LEMMA ClustersBegun ==
  ASSUME NEW size \in Nat, size > 0
  PROVE  \E q \in Nat, r \in 0 .. (SECTORS_PER_CLUSTER - 1) :
           size = q * SECTORS_PER_CLUSTER + r + 1 /\ ClustersFor(size) = q + 1
<1>1. PICK b \in Nat \ {0} : b = SECTORS_PER_CLUSTER
  BY Constants
<1>2. size - 1 \in Nat
  OBVIOUS
<1>3. PICK q \in Nat, r \in 0 .. (b - 1) : size - 1 = q * b + r
  BY <1>2, DivisionExists
<1>4. /\ q + 1 \in Nat \ {0} /\ r + 1 \in 1 .. b /\ (q + 1) - 1 = q
      /\ q * b \in Nat /\ size = q * b + r + 1
  BY <1>3
<1>5. ClustersFor((r + 1) + ((q + 1) - 1) * SECTORS_PER_CLUSTER) = q + 1
  <2>1. r + 1 \in 1 .. SECTORS_PER_CLUSTER
    BY <1>1, <1>4
  <2> QED
    BY <1>4, <2>1, ClustersForIs
<1>6. (r + 1) + ((q + 1) - 1) * SECTORS_PER_CLUSTER = size
  BY <1>1, <1>4
<1> QED
  BY <1>1, <1>3, <1>4, <1>5, <1>6

\* A chain of n clusters has n of them.
LEMMA ChainCount ==
  ASSUME NEW t, NEW first, NEW n \in Nat, ChainOK(t, first, n)
  PROVE  Cardinality(Along(t, first, n)) = n
<1> DEFINE w == Walk(t[1], first, n)
<1>1. w = [i \in 1 .. n |-> w[i]]
  BY WalkDef
<1>2. \A i, j \in 1 .. n : w[i] = w[j] => i = j
  BY DEF ChainOK
<1>3. Along(t, first, n) = {w[i] : i \in 1 .. n}
  BY DEF Along
<1> HIDE DEF w
<1>4. w \in Bijection(1 .. n, Along(t, first, n))
  <2>1. w \in [1 .. n -> Along(t, first, n)] /\ DOMAIN w = 1 .. n
    BY <1>1, <1>3
  <2> QED
    BY <1>2, <1>3, <2>1 DEF Bijection, Injection, Surjection, IsInjective
<1>5. IsFiniteSet(1 .. n) /\ Cardinality(1 .. n) = n
  <2>1. Cardinality(1 .. n) = IF 1 > n THEN 0 ELSE n - 1 + 1
    BY FS_Interval
  <2> QED
    BY <2>1, FS_Interval
<1>6. ExistsBijection(1 .. n, Along(t, first, n))
  BY <1>4 DEF ExistsBijection
<1> QED
  BY <1>5, <1>6, FS_Bijection

\* The chains of the entries are sound.
LEMMA ChainsOfInv == VolumeInv => ChainsSound
<1> SUFFICES ASSUME VolumeInv, Intact PROVE ChainsSound
  BY DEF ChainsSound
<1>1. TypeOK /\ Clean /\ Sound
  BY DEF VolumeInv, Intact
<1>2. ASSUME NEW p \in Places
      PROVE  /\ Held(EntryAt(p)) \subseteq InVolume
             /\ \A c \in Held(EntryAt(p)) : fat[1][c] # FREE_CLUSTER
             /\ EntryAt(p).kind = "file" =>
                  /\ Cardinality(Held(EntryAt(p))) = ClustersFor(EntryAt(p).size)
                  /\ EntryAt(p).size > 0 => \E c \in Held(EntryAt(p)) : fat[1][c] = EOC
  <2>1. PICK q \in Shown : EntryAt(p) = At(q)
    BY <1>1, PlaceShown
  <2>2. PICK e : e = At(q)
    OBVIOUS
  <2>3. e \in Items /\ e.size \in Nat
    BY <1>1, <2>2, ShownFacts DEF Items
  <2>4. Held(e) \subseteq InVolume /\ \A c \in Held(e) : fat[1][c] # FREE_CLUSTER
    BY <1>1, <2>2, HeldAllocated
  <2>5. ASSUME e.kind = "file"
        PROVE  /\ Cardinality(Held(e)) = ClustersFor(e.size)
               /\ e.size > 0 => \E c \in Held(e) : fat[1][c] = EOC
    <3>1. PICK n \in Nat : n = ClustersFor(e.size)
      BY <2>3, ClustersForType
    <3>2. LengthOf(e) = n
      BY <2>5, <3>1 DEF LengthOf
    <3>3. ChainOK(fat, e.cluster, n) /\ Held(e) = Along(fat, e.cluster, n)
      BY <1>1, <2>2, <3>2, HeldIs DEF Sound, EntryOK
    <3>4. Cardinality(Held(e)) = n
      BY <3>3, ChainCount
    <3>5. ASSUME e.size > 0 PROVE \E c \in Held(e) : fat[1][c] = EOC
      <4>1. n > 0
        BY <2>3, <3>1, <3>5, ClustersBegun
      <4>2. n \in 1 .. n
        BY <4>1
      <4>3. fat[1][Walk(fat[1], e.cluster, n)[n]] = EOC
        BY <3>3, <4>1 DEF ChainOK
      <4> QED
        BY <3>3, <4>2, <4>3 DEF Along
    <3> QED
      BY <3>1, <3>4, <3>5
  <2> QED
    BY <2>1, <2>2, <2>4, <2>5
<1>3. ASSUME NEW p \in Places, NEW q \in Places, p # q
      PROVE  Held(EntryAt(p)) \cap Held(EntryAt(q)) = {}
  <2>1. PICK a \in Shown : EntryAt(p) = At(a) /\ p = <<a[1], Index(a[2], a[3])>>
    BY <1>1, PlaceShown
  <2>2. PICK b \in Shown : EntryAt(q) = At(b) /\ q = <<b[1], Index(b[2], b[3])>>
    BY <1>1, PlaceShown
  <2>3. a # b
    BY <1>3, <2>1, <2>2
  <2> QED
    BY <1>1, <2>1, <2>2, <2>3 DEF Sound
<1> QED
  BY <1>2, <1>3 DEF ChainsSound

\* A file whose chain holds its contents is read back as it was written.
LEMMA ReadBack ==
  ASSUME NEW e \in Items, e.kind = "file", EntryOK(e)
  PROVE  ReadFile(e.cluster, e.size) = Contents(e.name)
<1>1. PICK b \in Nat \ {0} : b = SECTORS_PER_CLUSTER
  BY Constants
<1>2. PICK size \in Nat : size = e.size
  BY DEF Items
<1>3. PICK n \in Nat : n = ClustersFor(size)
  BY ClustersForType
<1>4. LengthOf(e) = n /\ SizeOf[e.name] = size
  BY <1>2, <1>3 DEF LengthOf, EntryOK
<1> DEFINE w == Chain(e.cluster, n)
           f(i) == IF w[1 + ((i - 1) \div b)] \in InVolume
                   THEN data[w[1 + ((i - 1) \div b)]][1 + ((i - 1) % b)] ELSE StaleSector
           g(i) == Filled(Bytes(e.name, i))
<1>5. Stored(data, w, n, b, e.name)
  BY <1>1, <1>4 DEF EntryOK
<1>6. ReadFile(e.cluster, size) = [i \in 1 .. size |-> f(i)]
  BY <1>1, <1>3 DEF ReadFile
<1>7. Contents(e.name) = [i \in 1 .. size |-> g(i)]
  BY <1>4 DEF Contents
<1> HIDE DEF w
<1>8. ASSUME NEW i \in 1 .. size PROVE f(i) = g(i)
  <2>1. i - 1 \in Nat /\ size > 0
    OBVIOUS
  <2>2. PICK q \in Nat, r \in 0 .. (b - 1) :
          i - 1 = q * b + r /\ (i - 1) \div b = q /\ (i - 1) % b = r
    BY <2>1, DivisionExists
  <2>3. PICK v \in Nat, u \in 0 .. (b - 1) : size = v * b + u + 1 /\ n = v + 1
    BY <1>1, <1>3, <2>1, ClustersBegun
  <2>4. q <= v
    <3> SUFFICES ASSUME q > v PROVE FALSE
      OBVIOUS
    <3>1. PICK x \in Nat : q = v + 1 + x
      BY q - v - 1 \in Nat, q = v + 1 + (q - v - 1)
    <3>2. q * b = v * b + b + x * b /\ x * b \in Nat /\ v * b \in Nat
      BY <3>1
    <3> QED
      BY <2>2, <2>3, <3>2
  <2>5. 1 + q \in 1 .. n /\ 1 + r \in 1 .. b /\ 1 + r <= b /\ (1 + q) - 1 = q
    BY <2>3, <2>4
  <2>6. q * b + (1 + r) = i
    <3>1. q * b \in Nat
      OBVIOUS
    <3> QED
      BY <2>1, <2>2, <3>1
  <2>7. /\ w[1 + q] \in InVolume
        /\ q * b + (1 + r) <= SizeOf[e.name] =>
             data[w[1 + q]][1 + r] = Filled(Bytes(e.name, q * b + (1 + r)))
    BY <1>1, <1>5, <2>5 DEF Stored
  <2>8. data[w[1 + q]][1 + r] = Filled(Bytes(e.name, i))
    BY <1>4, <2>6, <2>7
  <2> QED
    BY <2>2, <2>7, <2>8
<1> HIDE DEF f, g
<1> QED
  BY <1>2, <1>6, <1>7, <1>8

\* What a search of a directory finds on a sound volume, when it is a file, reads
\* back as written.
LEMMA FoundReads ==
  ASSUME TypeOK, Clean, Sound, NEW dir \in {ROOT} \cup SubDirs, NEW name,
         NEW e \in Find(dir, name), e.kind = "file"
  PROVE  e \in Items /\ e.name = name /\ ReadFile(e.cluster, e.size) = Contents(e.name)
<1>1. PICK n \in Nat : DirSectors(dir) \in [1 .. n -> Sector]
  BY Constants, DirTypes DEF SubDirs
<1>2. /\ Listed(dir) \in Seq(Items)
      /\ \A j \in DOMAIN Listed(dir) : \E i \in 1 .. n, k \in 1 .. SLOTS :
           Listed(dir)[j] = DirSectors(dir)[i][k]
  BY <1>1, ListedAre
<1>3. PICK j \in DOMAIN Listed(dir) : e = Listed(dir)[j] /\ e.name = name
  BY <1>2, FindAre
<1>4. PICK i \in 1 .. n, k \in 1 .. SLOTS : e = DirSectors(dir)[i][k]
  BY <1>2, <1>3
<1> DEFINE p == <<dir, i, k>>
<1>5. i \in DOMAIN DirSectors(dir)
  BY <1>1, <1>4
<1>6. p \in Shown
  <2>1. CASE dir = ROOT
    <3>1. DirSectors(dir) = root /\ i \in 1 .. ROOT_SECTORS
      BY <1>5, <2>1, SectorsOf, DiskTypes
    <3> QED
      BY <1>4, <2>1, <3>1, ShownDef
  <2>2. CASE dir \in SubDirs
    <3>1. dir \in InVolume
      BY <2>2 DEF SubDirs
    <3>2. DirSectors(dir) = data[dir] /\ i \in 1 .. SECTORS_PER_CLUSTER
      BY <1>5, <3>1, SectorsOf, DiskTypes
    <3> QED
      BY <1>4, <2>2, <3>2, ShownDef
  <2> QED
    BY <2>1, <2>2
<1>7. At(p) = e
  BY <1>4 DEF At
<1> HIDE DEF p
<1>8. e \in Items /\ EntryOK(e)
  BY <1>6, <1>7, ShownFacts DEF Sound
<1>9. ReadFile(e.cluster, e.size) = Contents(e.name)
  BY <1>8, ReadBack
<1> QED
  BY <1>3, <1>8, <1>9

\* What was made is found, and read back.
LEMMA MadeOfInv == VolumeInv => MadeForGood
<1> SUFFICES ASSUME VolumeInv, Intact, NEW m \in created
             PROVE  /\ Find(m.dir, m.entry.name) # {}
                    /\ \A e \in Find(m.dir, m.entry.name) :
                         e.kind = "file" => ReadFile(e.cluster, e.size) = Contents(e.name)
  BY DEF MadeForGood
<1>1. TypeOK /\ Clean /\ Sound
  BY DEF VolumeInv, Intact
<1>5. PICK entry : entry = m.entry
  OBVIOUS
<1>2. PICK dir \in {ROOT} \cup SubDirs :
        /\ dir = m.dir /\ entry = m.entry /\ entry.kind # "free"
        /\ \E i \in DOMAIN DirSectors(dir), k \in 1 .. SLOTS : DirSectors(dir)[i][k] = entry
  BY <1>1, <1>5 DEF Sound
<1>3. Find(dir, entry.name) # {}
  <2>1. PICK n \in Nat : DirSectors(dir) \in [1 .. n -> Sector]
    BY <1>1, Constants, DirTypes DEF SubDirs
  <2>2. PICK i \in 1 .. n, k \in 1 .. SLOTS : DirSectors(dir)[i][k] = entry
    BY <1>2, <2>1
  <2>3. Packed(DirSectors(dir))
    BY <1>1 DEF Sound
  <2>4. /\ Listed(dir) \in Seq(Items)
        /\ Index(i, k) \in DOMAIN Listed(dir) /\ Listed(dir)[Index(i, k)] = entry
    BY <1>2, <2>1, <2>2, <2>3, ListedAre
  <2> QED
    BY <2>4, FindAre
<1>4. \A e \in Find(dir, entry.name) :
        e.kind = "file" => ReadFile(e.cluster, e.size) = Contents(e.name)
  BY <1>1, FoundReads
<1> QED
  BY <1>2, <1>3, <1>4

\* The partition, the call in progress and its locals keep their types: the
\* FATs hold links to entries of the FAT or end marks, and a call names clusters
\* that exist (the static buffers and locals of fat16.c).
THEOREM FatTypes == Spec => []TypeOK
<1>1. VolumeInv => TypeOK
  BY DEF VolumeInv
<1> QED
  BY <1>1, VolumeInvariant, PTL

\* For volumes, directories and files of any size: whatever call was cut short,
\* the entries of an intact volume lead to allocated clusters of their own, as
\* many as their sizes need, and the last is marked as the end.
THEOREM FatChainsSound == Spec => []ChainsSound
  BY ChainsOfInv, VolumeInvariant, PTL

\* What a call that returned 1 made is found ever after and reads back as it was
\* written (fat16_find_*, fat16_read_file).
THEOREM FatMadeForGood == Spec => []MadeForGood
  BY MadeOfInv, VolumeInvariant, PTL

\* Nothing from before the format is listed in the root or in a new directory,
\* whatever access fails (fat16_format, fat16_mkdir_root).
THEOREM FatOldFilesGone == Spec => []OldFilesGone
  BY GoneOfInv, VolumeInvariant, PTL

\* The two copies of the FAT agree about every cluster a visible entry holds
\* (fat_write_entry), a failure of power between the two writes included.
THEOREM FatFatsInSync == Spec => []FatsInSync
  BY SyncOfInv, VolumeInvariant, PTL

-----------------------------------------------------------------------------
(* The tree that install makes *)

\* Counting its directories.
LEMMA CountType ==
  ASSUME NEW k \in Nat
  PROVE  IsFiniteSet(MadeDirs(k)) /\ DirCount(k) \in Nat
<1>1. IsFiniteSet(1 .. k)
  BY FS_Interval
<1>2. MadeDirs(k) \subseteq 1 .. k
  BY DEF MadeDirs
<1>3. IsFiniteSet(MadeDirs(k))
  BY <1>1, <1>2, FS_Subset
<1> QED
  BY <1>3, FS_CardinalityType DEF DirCount

LEMMA Counting ==
  ASSUME NEW k \in Nat
  PROVE  /\ MadeDirs(0) = {} /\ DirCount(0) = 0
         /\ IsDir(k + 1) => /\ MadeDirs(k + 1) = MadeDirs(k) \cup {k + 1}
                            /\ DirCount(k + 1) = DirCount(k) + 1
         /\ ~IsDir(k + 1) => MadeDirs(k + 1) = MadeDirs(k) /\ DirCount(k + 1) = DirCount(k)
         /\ \A m \in MadeDirs(k) : m \in 1 .. k /\ DirCount(m) \in 1 .. DirCount(k)
<1>1. MadeDirs(0) = {}
  BY DEF MadeDirs
<1>2. DirCount(0) = 0
  BY <1>1, FS_EmptySet DEF DirCount
<1>3. 1 .. (k + 1) = (1 .. k) \cup {k + 1} /\ k + 1 \notin 1 .. k
  OBVIOUS
<1>4. ASSUME IsDir(k + 1)
      PROVE  MadeDirs(k + 1) = MadeDirs(k) \cup {k + 1} /\ DirCount(k + 1) = DirCount(k) + 1
  <2>1. MadeDirs(k + 1) = MadeDirs(k) \cup {k + 1} /\ k + 1 \notin MadeDirs(k)
    BY <1>3, <1>4 DEF MadeDirs
  <2> QED
    BY <2>1, CountType, FS_AddElement DEF DirCount
<1>5. ASSUME ~IsDir(k + 1) PROVE MadeDirs(k + 1) = MadeDirs(k)
  BY <1>3, <1>5 DEF MadeDirs
<1>6. ASSUME NEW m \in MadeDirs(k) PROVE m \in 1 .. k /\ DirCount(m) \in 1 .. DirCount(k)
  <2>1. m \in 1 .. k /\ m \in MadeDirs(m) /\ MadeDirs(m) \subseteq MadeDirs(k)
    BY DEF MadeDirs
  <2>2. DirCount(m) <= DirCount(k) /\ DirCount(m) \in Nat /\ DirCount(k) \in Nat
    BY <2>1, CountType, FS_Subset DEF DirCount
  <2>3. DirCount(m) # 0
    <3>1. IsFiniteSet(MadeDirs(m)) /\ MadeDirs(m) # {}
      BY <2>1, CountType
    <3> QED
      BY <3>1, FS_EmptySet DEF DirCount
  <2> QED
    BY <2>1, <2>2, <2>3
<1> QED
  BY <1>1, <1>2, <1>4, <1>5, <1>6 DEF DirCount

\* The slots of the root by number, and by sector and slot.
LEMMA RootSlots ==
  ASSUME NEW sectors \in [1 .. ROOT_SECTORS -> Sector]
  PROVE  /\ Len(Slots(sectors)) = ROOT_SECTORS * SLOTS /\ Len(Slots(sectors)) \in Nat
         /\ \A i \in 1 .. ROOT_SECTORS, k \in 1 .. SLOTS :
              Index(i, k) \in 1 .. Len(Slots(sectors)) /\ Slots(sectors)[Index(i, k)] = sectors[i][k]
         /\ \A j \in 1 .. Len(Slots(sectors)) : \E i \in 1 .. ROOT_SECTORS, k \in 1 .. SLOTS :
              j = Index(i, k) /\ Slots(sectors)[j] = sectors[i][k]
<1>1. ROOT_SECTORS \in Nat
  BY Constants
<1>2. /\ Slots(sectors) \in Seq(Items) /\ Len(Slots(sectors)) = ROOT_SECTORS * SLOTS
      /\ \A i \in 1 .. ROOT_SECTORS, k \in 1 .. SLOTS : Slots(sectors)[Index(i, k)] = sectors[i][k]
  BY <1>1, SlotsAre
<1>3. \A i \in 1 .. ROOT_SECTORS, k \in 1 .. SLOTS : Index(i, k) \in 1 .. (ROOT_SECTORS * SLOTS)
  BY <1>1, IndexRange
<1>4. \A j \in 1 .. (ROOT_SECTORS * SLOTS) : \E i \in 1 .. ROOT_SECTORS, k \in 1 .. SLOTS : j = Index(i, k)
  BY <1>1, IndexExists
<1>5. Len(Slots(sectors)) \in Nat
  BY <1>2
<1>6. ASSUME NEW j \in 1 .. Len(Slots(sectors))
      PROVE  \E i \in 1 .. ROOT_SECTORS, k \in 1 .. SLOTS :
               j = Index(i, k) /\ Slots(sectors)[j] = sectors[i][k]
  <2>1. PICK i \in 1 .. ROOT_SECTORS, k \in 1 .. SLOTS : j = Index(i, k)
    BY <1>2, <1>4
  <2> QED
    BY <1>2, <2>1
<1>7. \A i \in 1 .. ROOT_SECTORS, k \in 1 .. SLOTS : Index(i, k) \in 1 .. Len(Slots(sectors))
  BY <1>2, <1>3
<1> QED
  BY <1>2, <1>5, <1>6, <1>7

\* The entries of the directories made are directories of the volume.
LEMMA MadeAreDirs ==
  ASSUME TypeOK, Clean, NEW k \in Nat, TreeMade(k), NEW j \in 1 .. DirCount(k)
  PROVE  \E i \in 1 .. ROOT_SECTORS, l \in 1 .. SLOTS :
           /\ j = Index(i, l) /\ Slots(root)[j] = root[i][l]
           /\ root[i][l].kind = "dir" /\ root[i][l].cluster \in SubDirs
<1>1. root \in [1 .. ROOT_SECTORS -> Sector]
  BY DEF TypeOK
<1>2. DirCount(k) \in Nat /\ DirCount(k) <= Len(Slots(root)) /\ Len(Slots(root)) \in Nat
  BY <1>1, CountType, RootSlots DEF TreeMade
<1>3. j \in 1 .. Len(Slots(root)) /\ j <= DirCount(k)
  BY <1>2
<1>4. Slots(root)[j].kind = "dir"
  BY <1>3 DEF TreeMade
<1>5. PICK i \in 1 .. ROOT_SECTORS, l \in 1 .. SLOTS : j = Index(i, l) /\ Slots(root)[j] = root[i][l]
  BY <1>1, <1>3, RootSlots
<1>6. root[i][l].cluster \in InVolume
  BY <1>4, <1>5 DEF Clean
<1> QED
  BY <1>4, <1>5, <1>6 DEF SubDirs

\* A step that leaves the root and its directories alone leaves the tree alone.
LEMMA TreeKept ==
  ASSUME TypeOK, Clean, NEW k \in Nat, TreeMade(k), root' = root, formatted' = formatted,
         fat_failures' = 0 => fat_failures = 0 /\ \A d \in SubDirs : data'[d] = data[d]
  PROVE  TreeMade(k)'
<1>1. Slots(root)' = Slots(root)
  OBVIOUS
<1>2. ASSUME fat_failures' = 0, NEW j \in 1 .. DirCount(k)
      PROVE  FilesOf(Slots(root)[j].name, Slots(root)[j].cluster)'
  <2>1. FilesOf(Slots(root)[j].name, Slots(root)[j].cluster)
    BY <1>2 DEF TreeMade
  <2>2. Slots(root)[j].cluster \in SubDirs
    BY MadeAreDirs
  <2>3. data'[Slots(root)[j].cluster] = data[Slots(root)[j].cluster]
    BY <1>2, <2>2
  <2> QED
    BY <2>1, <2>3 DEF FilesOf
<1> QED
  BY <1>1, <1>2 DEF TreeMade

-----------------------------------------------------------------------------
(* Steps of a call, as install sees them *)

LEMMA StepInCall == Step => InCall
  BY DEF Step, Format, FormatBoot, FormatFat, FormatRoot, FormatFails, AllocCluster, AllocNone,
         FatWrite, FatWriteLost, FatWriteGarbage, FatStep, WriteData, WriteDir, WriteFails,
         WriteEntry, WriteEntryFails, InCall

LEMMA IdleIs ==
  ASSUME NEW r
  PROVE  /\ Idle(r).pc = "idle" /\ Idle(r).result = r
  BY DEF Idle

\* A sector of the call's own cluster is not a sector of a directory.
LEMMA OwnNoDir ==
  ASSUME VolumeInv, Intact, call.pc \in {"data", "mkdir"}, NEW d \in SubDirs
  PROVE  d # call.cluster
<1>1. CallOK /\ Flight /\ Making
  BY DEF VolumeInv, Making
<1>2. PICK n \in Nat : Own(n)
  BY <1>1 DEF Flight
<1>3. n # 0
  BY <1>1, <1>2 DEF Own, CallOK
<1>4. n \in 1 .. n /\ n > 0
  BY <1>3
<1>5. call.cluster \in Along(Goal, call.first, n)
  BY <1>2, <1>4 DEF Own, Along
<1>6. PICK p \in Shown : Held(At(p)) = {d}
  BY SubDirHeld
<1>7. Along(Goal, call.first, n) \cap Held(At(p)) = {}
  BY <1>2 DEF Own
<1> QED
  BY <1>5, <1>6, <1>7

\* A call that makes something goes on, leaving the root and its directories
\* alone, until it gives up or writes its entry.
LEMMA MakingStep ==
  ASSUME VolumeInv, Making, Step
  PROVE  \/ GiveUp
         \/ WriteEntry
         \/ /\ Making' /\ call'.kind = call.kind /\ call'.name = call.name /\ call'.dir = call.dir
            /\ root' = root /\ formatted' = formatted
            /\ fat_failures' = 0 => fat_failures = 0 /\ \A d \in SubDirs : data'[d] = data[d]
<1>1. TypeOK /\ CallOK /\ call \in Call /\ fat_failures \in Nat /\ formatted
  BY DEF VolumeInv, TypeOK, CallOK
<1>2. ~FormatBoot /\ ~FormatFat /\ ~FormatRoot
  BY DEF Making, FormatBoot, FormatFat, FormatRoot
<1>3. FormatFails \/ AllocNone \/ WriteFails \/ WriteEntryFails => GiveUp
  BY DEF FormatFails, AllocNone, WriteFails, WriteEntryFails
<1>4. CASE AllocCluster
  <2>1. PICK c \in Allocatable :
          /\ call' = [call EXCEPT !.pc = "fat", !.links = AllocLinks(c), !.cluster = c,
                                  !.first = IF @ = 0 THEN c ELSE @, !.s = 1]
          /\ fat_failures' = fat_failures + (IF c \in FirstFree THEN 0 ELSE 1)
    BY <1>4 DEF AllocCluster
  <2>2. UNCHANGED <<root, data, formatted>>
    BY <1>4 DEF AllocCluster, disk
  <2>3. /\ call'.pc = "fat" /\ call'.kind = call.kind /\ call'.name = call.name
        /\ call'.dir = call.dir
    BY <1>1, <2>1 DEF Call
  <2>4. fat_failures' = 0 => fat_failures = 0
    BY <1>1, <2>1
  <2> QED
    BY <2>2, <2>3, <2>4 DEF Making
<1>5. CASE FatWrite \/ FatWriteLost \/ FatWriteGarbage
  <2>1. PICK failures \in {0, 1} : \E new : FatStep(new, failures)
    BY <1>5 DEF FatWrite, FatWriteLost, FatWriteGarbage
  <2>2. /\ call.pc = "fat" /\ fat_failures' = fat_failures + failures
        /\ call' = [call EXCEPT !.links = Tail(@), !.pc = IF Len(call.links) = 1 THEN call.then ELSE @]
        /\ UNCHANGED <<root, data, formatted>>
    BY <2>1 DEF FatStep
  <2>3. call.then \in {"mkdir", "data", "entry"}
    BY <1>1 DEF CallOK
  <2>4. /\ call'.pc \in {"fat", "mkdir", "data", "entry"} /\ call'.kind = call.kind
        /\ call'.name = call.name /\ call'.dir = call.dir
    BY <1>1, <2>2, <2>3 DEF Call
  <2>5. fat_failures' = 0 => fat_failures = 0
    BY <1>1, <2>2
  <2> QED
    BY <2>2, <2>4, <2>5 DEF Making
<1>6. CASE WriteData \/ WriteDir
  <2>1. PICK sector :
          /\ call.pc \in {"data", "mkdir"} /\ call.cluster \in InVolume
          /\ data' = [data EXCEPT ![call.cluster][call.s] = sector]
          /\ UNCHANGED <<root, formatted, fat_failures>>
    BY <1>6 DEF WriteData, WriteDir, WriteSector, history
  <2>2. /\ call'.pc \in {"data", "mkdir", "fat", "alloc", "entry"} /\ call'.kind = call.kind
        /\ call'.name = call.name /\ call'.dir = call.dir
    <3>1. CASE WriteData
      BY <3>1, DataNext
    <3>2. CASE WriteDir
      <4>1. /\ call.pc = "mkdir"
            /\ call' = IF call.s < SECTORS_PER_CLUSTER THEN [call EXCEPT !.s = @ + 1]
                       ELSE [call EXCEPT !.pc = "entry"]
        BY <3>2 DEF WriteDir, WriteSector
      <4> QED
        BY <1>1, <4>1 DEF Call
    <3> QED
      BY <1>6, <3>1, <3>2
  <2>3. \A c \in InVolume : c # call.cluster => data'[c] = data[c]
    BY <1>1, <2>1 DEF TypeOK
  <2>4. ASSUME fat_failures' = 0, NEW d \in SubDirs PROVE data'[d] = data[d]
    <3>1. Intact /\ d \in InVolume
      BY <1>1, <2>1, <2>4 DEF Intact, SubDirs
    <3> QED
      BY <2>1, <2>3, <3>1, OwnNoDir
  <2> QED
    BY <2>1, <2>2, <2>4 DEF Making
<1> QED
  BY <1>2, <1>3, <1>4, <1>5, <1>6 DEF Step, Format

\* A format goes on until it gives up, or leaves an empty root behind.
LEMMA FormattingStep ==
  ASSUME VolumeInv, Formatting, Step
  PROVE  GiveUp \/ Formatting' \/ (call' = Idle(1) /\ TreeMade(0)')
<1>1. TypeOK /\ CallOK /\ call \in Call
  BY DEF VolumeInv, TypeOK
<1>2. /\ ~AllocCluster /\ ~AllocNone /\ ~FatWrite /\ ~FatWriteLost /\ ~FatWriteGarbage
      /\ ~WriteData /\ ~WriteDir /\ ~WriteFails /\ ~WriteEntry /\ ~WriteEntryFails
  BY DEF Formatting, AllocCluster, AllocNone, FatWrite, FatWriteLost, FatWriteGarbage, FatStep,
         WriteData, WriteDir, WriteFails, WriteEntry, WriteEntryFails
<1>3. FormatFails => GiveUp
  BY DEF FormatFails
<1>4. CASE FormatBoot
  BY <1>1, <1>4 DEF FormatBoot, Formatting, Call
<1>5. CASE FormatFat
  BY <1>1, <1>5 DEF FormatFat, Formatting, Call
<1>6. CASE FormatRoot /\ call.s < ROOT_SECTORS
  BY <1>1, <1>6 DEF FormatRoot, Formatting, Call
<1>7. CASE FormatRoot /\ ~(call.s < ROOT_SECTORS)
  <2>1. /\ call.pc = "format_root" /\ root' = [root EXCEPT ![call.s] = ZeroSector]
        /\ call' = Idle(1) /\ formatted' = TRUE
    BY <1>7 DEF FormatRoot
  <2>2. call.s \in 1 .. ROOT_SECTORS /\ \A i \in 1 .. (call.s - 1) : root[i] = ZeroSector
    BY <1>1, <2>1 DEF CallOK
  <2>3. root \in [1 .. ROOT_SECTORS -> Sector] /\ root' \in [1 .. ROOT_SECTORS -> Sector]
    BY <1>1, <2>1, ZeroSectorType DEF TypeOK
  <2>4. \A i \in 1 .. ROOT_SECTORS : root'[i] = ZeroSector
    BY <1>7, <2>1, <2>2, <2>3, Constants
  <2>5. \A i \in 1 .. ROOT_SECTORS, k \in 1 .. SLOTS : root'[i][k].kind = "free"
    BY <2>4, ZeroSectorType
  <2>6. PICK new \in [1 .. ROOT_SECTORS -> Sector] : new = root'
    BY <2>3
  <2>7. Len(Slots(new)) \in Nat /\ \A j \in 1 .. Len(Slots(new)) : Slots(new)[j].kind = "free"
    <3>1. Len(Slots(new)) \in Nat
      BY RootSlots
    <3>2. ASSUME NEW j \in 1 .. Len(Slots(new)) PROVE Slots(new)[j].kind = "free"
      <4>1. PICK i \in 1 .. ROOT_SECTORS, k \in 1 .. SLOTS : Slots(new)[j] = new[i][k]
        BY RootSlots, ZenonT(30)
      <4> QED
        BY <2>5, <2>6, <4>1
    <3> QED
      BY <3>1, <3>2
  <2>8. MadeDirs(0) = {} /\ DirCount(0) = 0
    BY Counting
  <2>9. TreeMade(0)'
    <3>1. \A j \in 1 .. Len(Slots(new)) : ~(j <= 0)
      BY <2>7
    <3>2. Slots(root)' = Slots(new)
      BY <2>6
    <3>3. formatted'
      BY <2>1
    <3>4. /\ DirCount(0) <= Len(Slots(root)')
          /\ \A j \in 1 .. Len(Slots(root)') :
               Slots(root)'[j].kind = IF j <= DirCount(0) THEN "dir" ELSE "free"
      BY <2>7, <2>8, <3>1, <3>2
    <3>5. 1 .. DirCount(0) = {}
      BY <2>8
    <3> QED
      BY <2>8, <3>3, <3>4, <3>5 DEF TreeMade
  <2> QED
    BY <2>1, <2>9
<1> QED
  BY <1>2, <1>3, <1>4, <1>5, <1>6, <1>7 DEF Step, Format

LEMMA TreeSeq ==
  /\ Len(Tree) \in Nat /\ DOMAIN Tree = 1 .. Len(Tree)
  /\ \A n \in DOMAIN Tree : /\ Tree[n].dir \in Dirs /\ Tree[n].dir \in TreeDirs
                            /\ IsDir(n) \/ Tree[n].file \in Files
<1>1. Tree \in Seq([dir : Dirs, file : Files \cup {"none"}])
  BY DiskAssumption
<1>2. Len(Tree) \in Nat /\ DOMAIN Tree = 1 .. Len(Tree)
  BY <1>1
<1>3. \A n \in DOMAIN Tree : Tree[n] \in [dir : Dirs, file : Files \cup {"none"}]
  <2>1. PICK R : R = [dir : Dirs, file : Files \cup {"none"}]
    OBVIOUS
  <2>2. \A n \in DOMAIN Tree : Tree[n] \in R
    BY <1>1, <1>2, <2>1, ElementOfSeq
  <2> QED
    BY <2>1, <2>2
<1> QED
  BY <1>2, <1>3 DEF TreeDirs, IsDir

\* A new directory of the root goes behind those that are there.
LEMMA NextSlot ==
  ASSUME TypeOK, NEW k \in Nat, TreeMade(k), NEW i, NEW l, NEW e, Placed(ROOT, i, l, e)
  PROVE  /\ i \in 1 .. ROOT_SECTORS /\ l \in 1 .. SLOTS /\ Index(i, l) = DirCount(k) + 1
<1> DEFINE S == Slots(root)
           c == DirCount(k)
<1>1. /\ i \in DOMAIN DirSectors(ROOT) /\ l \in 1 .. SLOTS /\ DirSectors(ROOT)[i][l].kind = "free"
      /\ \A a \in DOMAIN DirSectors(ROOT), b \in 1 .. SLOTS :
           DirSectors(ROOT)[a][b].kind = "free" => i < a \/ (i = a /\ l <= b)
  BY DEF Placed
<1>2. DirSectors(ROOT) = root /\ DOMAIN root = 1 .. ROOT_SECTORS
      /\ root \in [1 .. ROOT_SECTORS -> Sector]
  BY SectorsOf, DiskTypes DEF TypeOK
<1>3. i \in 1 .. ROOT_SECTORS /\ l \in 1 .. SLOTS /\ root[i][l].kind = "free"
  BY <1>1, <1>2
<1>4. /\ Len(S) \in Nat /\ c \in Nat
      /\ Index(i, l) \in 1 .. Len(S) /\ S[Index(i, l)] = root[i][l]
      /\ \A j \in 1 .. Len(S) : S[j].kind = IF j <= c THEN "dir" ELSE "free"
  BY <1>2, <1>3, CountType, RootSlots DEF TreeMade
<1> HIDE DEF S, c
<1>5. Index(i, l) > c
  BY <1>3, <1>4
<1>6. c + 1 \in 1 .. Len(S) /\ S[c + 1].kind = "free"
  BY <1>4, <1>5
<1>7. PICK a \in 1 .. ROOT_SECTORS, b \in 1 .. SLOTS : c + 1 = Index(a, b) /\ S[c + 1] = root[a][b]
  BY <1>2, <1>6, RootSlots DEF S
<1>8. i < a \/ (i = a /\ l <= b)
  BY <1>1, <1>2, <1>6, <1>7
<1>9. ~(Index(a, b) < Index(i, l))
  <2> SUFFICES ASSUME Index(a, b) < Index(i, l) PROVE FALSE
    OBVIOUS
  <2>1. a \in Nat \ {0} /\ i \in Nat \ {0}
    BY <1>3, Constants
  <2>2. a < i \/ (a = i /\ b < l)
    BY <1>3, <2>1, IndexOrder
  <2> QED
    BY <1>3, <1>8, <2>1, <2>2, Constants
<1> QED
  BY <1>3, <1>4, <1>5, <1>7, <1>9 DEF c

\* mkdir makes the next directory of the tree.
LEMMA DirMadeNext ==
  ASSUME VolumeInv, WriteEntry, root' \in [1 .. ROOT_SECTORS -> Sector],
         NEW n \in DOMAIN Tree, IsDir(n), TreeMade(n - 1),
         call.kind = "dir", call.name = Tree[n].dir, call.dir = ROOT
  PROVE  TreeMade(n)' /\ DirAt(Tree[n].dir, call.first)'
<1>1. TypeOK /\ CallOK /\ call.pc = "entry" /\ UNCHANGED <<formatted, fat_failures>>
  BY DEF VolumeInv, WriteEntry
<1>2. PICK dir, i, k, e : Placed(dir, i, k, e)
  BY <1>1, EntryWritten
<1>3. dir = ROOT /\ e = NewEntry
  BY <1>2 DEF Placed
<1>4. e.kind = "dir" /\ e.name = Tree[n].dir /\ e.cluster = call.first
  BY <1>1, <1>3, NewEntryType
<1>5. PICK p \in Nat : p = n - 1 /\ n = p + 1
  BY TreeSeq
<1> DEFINE c == DirCount(p)
           S == Slots(root)
<1>6. TreeMade(p) /\ c \in Nat
  BY <1>5, CountType
<1>7. MadeDirs(n) = MadeDirs(p) \cup {n} /\ DirCount(n) = c + 1
  BY <1>5, Counting
<1>8. i \in 1 .. ROOT_SECTORS /\ k \in 1 .. SLOTS /\ Index(i, k) = c + 1
  BY <1>1, <1>2, <1>3, <1>6, NextSlot
<1>9. /\ \A j \in 1 .. ROOT_SECTORS, l \in 1 .. SLOTS :
           root'[j][l] = root[j][l] \/ (j = i /\ l = k)
      /\ root'[i][k] = e
  BY <1>1, <1>2, <1>3, SlotChange
<1>10. \A d \in InVolume : data'[d] = data[d]
  <2>1. \A d \in InVolume : d # ROOT
    BY Constants
  <2> QED
    BY <1>2, <1>3, <2>1 DEF Placed
<1>11. PICK new \in [1 .. ROOT_SECTORS -> Sector] : new = root'
  OBVIOUS
<1> DEFINE T == Slots(new)
<1>12. Len(S) \in Nat /\ Len(T) = Len(S)
  BY <1>1, RootSlots DEF TypeOK
<1>13. c + 1 \in 1 .. Len(S) /\ T[c + 1] = e
  <2>1. Index(i, k) \in 1 .. Len(T) /\ T[Index(i, k)] = new[i][k]
    BY <1>8, RootSlots
  <2> QED
    BY <1>8, <1>9, <1>11, <1>12, <2>1
<1>14. ASSUME NEW j \in 1 .. Len(S), j # c + 1 PROVE T[j] = S[j]
  <2>1. PICK a \in 1 .. ROOT_SECTORS, b \in 1 .. SLOTS : j = Index(a, b) /\ S[j] = root[a][b]
    BY <1>1, RootSlots DEF TypeOK
  <2>2. T[Index(a, b)] = new[a][b]
    BY RootSlots
  <2>3. ~(a = i /\ b = k)
    BY <1>8, <1>14, <2>1
  <2> QED
    BY <1>9, <1>11, <2>1, <2>2, <2>3
<1>15. Slots(root)' = T
  BY <1>11
<1>16. /\ c <= Len(S) /\ \A j \in 1 .. Len(S) : S[j].kind = IF j <= c THEN "dir" ELSE "free"
       /\ \A m \in MadeDirs(p) : S[DirCount(m)].name = Tree[m].dir /\ DirCount(m) \in 1 .. c
       /\ formatted
       /\ fat_failures = 0 => \A j \in 1 .. c : FilesOf(S[j].name, S[j].cluster)
  BY <1>6, Counting DEF TreeMade
<1>17. ASSUME NEW j \in 1 .. c, fat_failures = 0 PROVE FilesOf(T[j].name, T[j].cluster)'
  <2>1. Clean
    BY <1>16 DEF VolumeInv
  <2>2. S[j].cluster \in InVolume
    BY <1>1, <1>6, <2>1, MadeAreDirs DEF SubDirs
  <2>3. T[j] = S[j]
    <3>1. j \in 1 .. Len(S) /\ j # c + 1
      BY <1>6, <1>12, <1>16
    <3> QED
      BY <1>14, <3>1
  <2>4. FilesOf(S[j].name, S[j].cluster)
    BY <1>16, <1>17
  <2>5. data'[S[j].cluster] = data[S[j].cluster]
    BY <1>10, <2>2
  <2> HIDE DEF S, T
  <2> QED
    BY <2>3, <2>4, <2>5 DEF FilesOf
<1>18. ASSUME fat_failures = 0 PROVE FilesOf(e.name, e.cluster)'
  <2>1. Intact
    BY <1>16, <1>18 DEF Intact
  <2>2. /\ e.cluster \in InVolume
        /\ \A s \in 1 .. SECTORS_PER_CLUSTER : data[e.cluster][s] = NewDirSector(s)
    BY <1>1, <1>3, <1>4, <2>1, EntryReady
  <2>3. \A s \in 1 .. SECTORS_PER_CLUSTER, l \in 1 .. SLOTS :
          LET x == data'[e.cluster][s][l] IN x.kind = "free" \/ x.name \in {".", ".."}
    <3>1. ASSUME NEW s \in 1 .. SECTORS_PER_CLUSTER, NEW l \in 1 .. SLOTS
          PROVE  LET x == data'[e.cluster][s][l] IN x.kind = "free" \/ x.name \in {".", ".."}
      <4>1. s \in Nat
        BY Constants
      <4>2. NewDirSector(s)[l].kind = "free" \/ NewDirSector(s)[l].name \in {".", ".."}
        BY <4>1, NewDirFacts
      <4> QED
        BY <1>10, <2>2, <4>2
    <3> QED
      BY <3>1
  <2> QED
    BY <2>3 DEF FilesOf
<1> HIDE DEF S, T, c
<1>19. \A j \in 1 .. Len(T) : T[j].kind = IF j <= c + 1 THEN "dir" ELSE "free"
  <2> TAKE j \in 1 .. Len(T)
  <2>1. CASE j = c + 1
    BY <1>4, <1>6, <1>13, <2>1
  <2>2. CASE j # c + 1
    BY <1>6, <1>12, <1>14, <1>16, <2>2
  <2> QED
    BY <2>1, <2>2
<1>20. \A m \in MadeDirs(n) : T[DirCount(m)].name = Tree[m].dir
  <2> TAKE m \in MadeDirs(n)
  <2>1. CASE m = n
    BY <1>4, <1>7, <1>13, <2>1
  <2>2. CASE m \in MadeDirs(p)
    <3>1. DirCount(m) \in 1 .. Len(S) /\ DirCount(m) # c + 1
      BY <1>6, <1>12, <1>16, <2>2
    <3> QED
      BY <1>14, <1>16, <2>2, <3>1
  <2> QED
    BY <1>7, <2>1, <2>2
<1>21. ASSUME fat_failures' = 0, NEW j \in 1 .. (c + 1) PROVE FilesOf(T[j].name, T[j].cluster)'
  <2>1. CASE j = c + 1
    BY <1>1, <1>13, <1>18, <1>21, <2>1
  <2>2. CASE j # c + 1
    <3>1. j \in 1 .. c
      BY <1>6, <2>2
    <3> QED
      BY <1>1, <1>17, <1>21, <3>1
  <2> QED
    BY <2>1, <2>2
<1>22. TreeMade(n)'
  <2>1. formatted' /\ c + 1 <= Len(T)
    BY <1>1, <1>6, <1>12, <1>13, <1>16
  <2> QED
    BY <1>7, <1>15, <1>19, <1>20, <1>21, <2>1 DEF TreeMade
<1>23. DirAt(Tree[n].dir, call.first)'
  <2>1. root'[i][k].kind = "dir" /\ root'[i][k].name = Tree[n].dir /\ root'[i][k].cluster = call.first
    BY <1>4, <1>9
  <2>2. PICK f, name : f = call.first /\ name = Tree[n].dir
    OBVIOUS
  <2>3. DirAt(name, f)'
    BY <1>8, <2>1, <2>2 DEF DirAt
  <2>4. call'.first = f
    BY <2>2 DEF WriteEntry, Idle
  <2> QED
    BY <2>2, <2>3, <2>4
<1> QED
  BY <1>22, <1>23

\* On a sound volume two directories of the root do not share a cluster.
LEMMA DirsApart ==
  ASSUME Sound, NEW i \in 1 .. ROOT_SECTORS, NEW k \in 1 .. SLOTS,
         NEW a \in 1 .. ROOT_SECTORS, NEW b \in 1 .. SLOTS,
         root[i][k].kind = "dir", root[a][b].kind = "dir", root[i][k].cluster = root[a][b].cluster
  PROVE  i = a /\ k = b
<1> DEFINE p == <<ROOT, i, k>>
           q == <<ROOT, a, b>>
<1>1. p \in Shown /\ q \in Shown
  BY ShownDef
<1>2. At(p) = root[i][k] /\ At(q) = root[a][b]
  BY SectorsOf DEF At
<1>3. Held(root[i][k]) = {root[i][k].cluster} /\ Held(root[a][b]) = {root[a][b].cluster}
  BY HeldIs
<1>4. p = q
  <2> SUFFICES ASSUME p # q PROVE FALSE
    OBVIOUS
  <2>1. Held(At(p)) \cap Held(At(q)) = {}
    <3> HIDE DEF p, q
    <3> QED
      BY <1>1 DEF Sound
  <2> QED
    BY <1>2, <1>3, <2>1
<1> QED
  BY <1>4

\* A directory of that name is one of the volume's.
LEMMA DirAtIn ==
  ASSUME Clean, NEW name, NEW cluster, DirAt(name, cluster)
  PROVE  cluster \in SubDirs
<1>1. PICK i \in 1 .. ROOT_SECTORS, k \in 1 .. SLOTS :
        root[i][k].kind = "dir" /\ root[i][k].cluster = cluster
  BY DEF DirAt
<1>2. cluster \in InVolume
  BY <1>1 DEF Clean
<1> QED
  BY <1>1, <1>2 DEF SubDirs

\* A placeholder goes to its own directory.
LEMMA FileMadeNext ==
  ASSUME VolumeInv, WriteEntry, NEW n \in DOMAIN Tree, ~IsDir(n), TreeMade(n - 1),
         call.name = Tree[n].file, DirAt(Tree[n].dir, call.dir)
  PROVE  TreeMade(n)' /\ TreeMade(n - 1)' /\ root' = root
<1>1. TypeOK /\ CallOK /\ call.pc = "entry" /\ UNCHANGED <<formatted, fat_failures>>
  BY DEF VolumeInv, WriteEntry
<1>2. PICK dir, i, k, e : Placed(dir, i, k, e)
  BY <1>1, EntryWritten
<1>3. dir = call.dir /\ e = NewEntry
  BY <1>2 DEF Placed
<1>4. e.name = Tree[n].file
  BY <1>1, <1>3, NewEntryType
<1>5. PICK p \in Nat : p = n - 1 /\ n = p + 1
  BY TreeSeq
<1>6. TreeMade(p) /\ formatted /\ Clean
  BY <1>5 DEF TreeMade, VolumeInv
<1>7. PICK name : name = Tree[n].dir
  OBVIOUS
<1>8. DirAt(name, dir)
  BY <1>3, <1>7
<1>9. dir \in SubDirs
  BY <1>6, <1>8, DirAtIn
<1>10. dir # ROOT /\ root' = root
  BY <1>2, <1>9, Constants DEF SubDirs, Placed
<1>11. \A d \in InVolume, j \in 1 .. SECTORS_PER_CLUSTER, l \in 1 .. SLOTS :
         data'[d][j][l] = data[d][j][l] \/ (d = dir /\ data'[d][j][l] = e)
  BY <1>1, <1>2, SlotChange
<1> DEFINE S == Slots(root)
<1>12. ASSUME fat_failures = 0, NEW j \in 1 .. DirCount(p) PROVE FilesOf(S[j].name, S[j].cluster)'
  <2>1. Sound
    BY <1>6, <1>12 DEF VolumeInv, Intact
  <2>2. PICK a \in 1 .. ROOT_SECTORS, b \in 1 .. SLOTS :
          S[j] = root[a][b] /\ root[a][b].kind = "dir" /\ root[a][b].cluster \in SubDirs
    BY <1>1, <1>6, MadeAreDirs
  <2>3. PICK x, c : x = S[j].name /\ c = S[j].cluster
    OBVIOUS
  <2>4. c \in InVolume
    BY <2>2, <2>3 DEF SubDirs
  <2>5. FilesOf(x, c)
    BY <1>6, <1>12, <2>3 DEF TreeMade
  <2>6. c = dir => x = name
    <3> SUFFICES ASSUME c = dir PROVE x = name
      OBVIOUS
    <3>1. PICK u \in 1 .. ROOT_SECTORS, v \in 1 .. SLOTS :
            root[u][v].kind = "dir" /\ root[u][v].name = name /\ root[u][v].cluster = dir
      BY <1>8 DEF DirAt
    <3>2. root[a][b].cluster = root[u][v].cluster
      BY <2>2, <2>3, <3>1
    <3>3. a = u /\ b = v
      BY <2>1, <2>2, <3>1, <3>2, DirsApart
    <3> QED
      BY <2>2, <2>3, <3>1, <3>3
  <2>7. ASSUME NEW s \in 1 .. SECTORS_PER_CLUSTER, NEW l \in 1 .. SLOTS
        PROVE  \/ data'[c][s][l].kind = "free" \/ data'[c][s][l].name \in {".", ".."}
               \/ \E m \in DOMAIN Tree : Tree[m].dir = x /\ Tree[m].file = data'[c][s][l].name
    <3>1. CASE data'[c][s][l] = data[c][s][l]
      BY <2>5, <3>1 DEF FilesOf
    <3>2. CASE c = dir /\ data'[c][s][l] = e
      BY <1>4, <1>7, <2>6, <3>2
    <3> QED
      BY <1>11, <2>4, <3>1, <3>2
  <2>8. FilesOf(x, c)'
    BY <2>7 DEF FilesOf
  <2>9. S' = S
    BY <1>10
  <2> HIDE DEF S
  <2> QED
    BY <2>3, <2>8, <2>9
<1>13. TreeMade(p)'
  <2>1. Slots(root)' = S
    BY <1>10
  <2>2. \A j \in 1 .. DirCount(p) : fat_failures' = 0 => FilesOf(S[j].name, S[j].cluster)'
    BY <1>1, <1>12
  <2> QED
    BY <1>1, <1>6, <2>1, <2>2 DEF TreeMade
<1>14. MadeDirs(n) = MadeDirs(p) /\ DirCount(n) = DirCount(p)
  BY <1>5, Counting
<1>15. TreeMade(n)'
  BY <1>13, <1>14 DEF TreeMade
<1> QED
  BY <1>5, <1>10, <1>13, <1>15

-----------------------------------------------------------------------------
(* The steps of install *)

LEMMA StepNumbers ==
  /\ Len(Tree) \in Nat /\ DOMAIN Tree = 1 .. Len(Tree)
  /\ MKPART = 1 /\ MKFS = 2 /\ MOUNT = 3 /\ \A n \in Nat : TreeStep(n) = 3 + n
  /\ \A n \in DOMAIN Tree : n \in Nat /\ n > 0 /\ n <= Len(Tree)
  /\ TreeStep(Len(Tree)) = 3 + Len(Tree) /\ TreeStep(Len(Tree) + 1) = 4 + Len(Tree)
<1>1. /\ Len(Tree) \in Nat /\ DOMAIN Tree = 1 .. Len(Tree)
      /\ MKPART = 1 /\ MKFS = 2 /\ MOUNT = 3 /\ \A n \in Nat : TreeStep(n) = 3 + n
  BY TreeSeq DEF MKPART, MKFS, MOUNT, TreeStep
<1>2. \A n \in DOMAIN Tree : n \in Nat /\ n > 0 /\ n <= Len(Tree)
  <2>1. PICK L \in Nat : L = Len(Tree)
    BY <1>1
  <2>2. \A n \in 1 .. L : n \in Nat /\ n > 0 /\ n <= L
    OBVIOUS
  <2> QED
    BY <1>1, <2>1, <2>2
<1>3. TreeStep(Len(Tree)) = 3 + Len(Tree) /\ TreeStep(Len(Tree) + 1) = 4 + Len(Tree)
  <2>1. Len(Tree) + 1 \in Nat /\ 3 + (Len(Tree) + 1) = 4 + Len(Tree)
    BY <1>1
  <2> QED
    BY <1>1, <2>1
<1> QED
  BY <1>1, <1>2, <1>3

\* What the invariant says of install's own variables.
LEMMA StepFacts ==
  ASSUME DiskInv
  PROVE  /\ VolumeInv /\ step \in Nat /\ waiting \in BOOLEAN
         /\ cluster_of \in [TreeDirs -> {0} \cup Clusters]
         /\ waiting => step # 0 /\ step # 1 /\ step # TreeStep(Len(Tree) + 1)
         /\ step # 0 /\ ~waiting => ~InCall
         /\ step = TreeStep(Len(Tree) + 1) => TreeMade(Len(Tree)) /\ step # 0 /\ ~InCall
         /\ installed => step = 0 /\ ~InCall /\ TreeMade(Len(Tree))
<1>1. /\ step \in 0 .. (4 + Len(Tree)) /\ waiting \in BOOLEAN
      /\ waiting => step \in 2 .. (3 + Len(Tree))
  BY StepNumbers DEF DiskInv
<1>6. PICK L \in Nat : L = Len(Tree)
  BY StepNumbers
<1>2. step \in Nat /\ (step # 0 <=> step > 0) /\ 4 + Len(Tree) # 0
  BY <1>1, <1>6
<1>3. waiting => step # 0 /\ step # 1 /\ step # 4 + Len(Tree)
  BY <1>1, <1>6
<1>4. /\ step > 0 /\ ~waiting => ~InCall
      /\ step = TreeStep(Len(Tree) + 1) => TreeMade(Len(Tree))
      /\ installed => step = 0 /\ ~InCall /\ TreeMade(Len(Tree))
      /\ VolumeInv /\ cluster_of \in [TreeDirs -> {0} \cup Clusters]
  BY DEF DiskInv
<1>5. TreeStep(Len(Tree) + 1) = 4 + Len(Tree)
  BY StepNumbers
<1> QED
  BY <1>1, <1>2, <1>3, <1>4, <1>5

\* Between commands, and at the first steps of install.
LEMMA DiskInvOutside ==
  ASSUME VolumeInv', step' \in {0, MKPART, MKFS}, waiting' = FALSE,
         cluster_of' \in [TreeDirs -> {0} \cup Clusters],
         step' # 0 => ~InCall',
         installed' => step' = 0 /\ ~InCall' /\ TreeMade(Len(Tree))'
  PROVE  DiskInv'
<1>1. PICK L \in Nat : L = Len(Tree)
  BY StepNumbers
<1>2. TreeStep(Len(Tree) + 1) = 4 + L /\ step' \in {0, 1, 2} /\ MOUNT = 3
  BY <1>1, StepNumbers
<1>3. /\ step' \in 0 .. TreeStep(Len(Tree) + 1) /\ step' # MOUNT
      /\ step' # TreeStep(Len(Tree) + 1) /\ (step' > 0 => step' # 0)
  BY <1>2
<1>4. \A n \in DOMAIN Tree : step' # TreeStep(n)
  <2>1. \A n \in DOMAIN Tree : TreeStep(n) = 3 + n /\ n \in Nat
    BY StepNumbers
  <2> QED
    BY <1>2, <2>1
<1> QED
  BY <1>3, <1>4 DEF DiskInv

\* Nothing happens to the volume.
LEMMA SameVolume ==
  ASSUME VolumeInv, UNCHANGED vars
  PROVE  /\ VolumeInv' /\ (InCall' <=> InCall) /\ (Formatting' <=> Formatting) /\ (Making' <=> Making)
         /\ call' = call
         /\ \A k \in Nat : TreeMade(k) => TreeMade(k)'
         /\ \A name, c : DirAt(name, c) => DirAt(name, c)'
<1>1. UNCHANGED <<root, data, call, formatted, fat_failures>>
  BY DEF vars, disk, history
<1>2. ASSUME NEW k \in Nat, TreeMade(k) PROVE TreeMade(k)'
  BY <1>1, <1>2, SMTT(30) DEF TreeMade, FilesOf
<1>3. ASSUME NEW name, NEW c, DirAt(name, c) PROVE DirAt(name, c)'
  BY <1>1, <1>3 DEF DirAt
<1> QED
  BY <1>1, <1>2, <1>3, UnchangedInv DEF InCall, Formatting, Making

\* A call of the volume returns, and leaves the tree as it is.
LEMMA SameRoot ==
  ASSUME VolumeInv, UNCHANGED <<root, data, formatted, fat_failures>>
  PROVE  /\ \A k \in Nat : TreeMade(k) => TreeMade(k)'
         /\ \A name, c : DirAt(name, c) => DirAt(name, c)'
<1>1. ASSUME NEW k \in Nat, TreeMade(k) PROVE TreeMade(k)'
  BY <1>1, SMTT(30) DEF TreeMade, FilesOf
<1>2. ASSUME NEW name, NEW c, DirAt(name, c) PROVE DirAt(name, c)'
  BY <1>2 DEF DirAt
<1> QED
  BY <1>1, <1>2

LEMMA GiveUpIs ==
  ASSUME GiveUp
  PROVE  UNCHANGED <<root, data, formatted, fat_failures>> /\ ~InCall' /\ call'.result = 0
  BY IdleIs DEF GiveUp, disk, history, InCall

LEMMA MountIs ==
  ASSUME Mount \/ MountFails
  PROVE  UNCHANGED <<root, data, formatted, fat_failures>> /\ ~InCall'
<1>1. CASE Mount
  BY <1>1, IdleIs DEF Mount, disk, history, InCall
<1>2. CASE MountFails
  BY <1>2, GiveUpIs DEF MountFails
<1> QED
  BY <1>1, <1>2

\* The commands and the steps of install that do not call the volume.
LEMMA CommandsInv ==
  ASSUME DiskInv, Mkpart \/ Install \/ InstallMkpart \/ InstallMkpartFails \/ InstallComplete
  PROVE  DiskInv'
<1>1. VolumeInv /\ UNCHANGED vars
  BY DEF DiskInv, Mkpart, Install, InstallMkpart, InstallMkpartFails, InstallComplete
<1>2. /\ VolumeInv' /\ (InCall' <=> InCall)
      /\ \A k \in Nat : TreeMade(k) => TreeMade(k)'
  BY <1>1, SameVolume
<1>3. Len(Tree) \in Nat /\ 0 \in {0} \cup Clusters
  BY TreeSeq
<1>4. /\ step # 0 /\ ~waiting => ~InCall
      /\ waiting => step # 0 /\ step # MKPART /\ step # TreeStep(Len(Tree) + 1)
      /\ cluster_of \in [TreeDirs -> {0} \cup Clusters] /\ waiting \in BOOLEAN
      /\ installed => step = 0 /\ ~InCall /\ TreeMade(Len(Tree))
      /\ step = TreeStep(Len(Tree) + 1) => TreeMade(Len(Tree)) /\ ~InCall
  BY StepFacts, StepNumbers
<1>5. CASE Mkpart
  BY <1>2, <1>3, <1>4, <1>5, DiskInvOutside DEF Mkpart, AtPrompt
<1>6. CASE Install
  <2>1. [d \in TreeDirs |-> 0] \in [TreeDirs -> {0} \cup Clusters]
    BY <1>3
  <2>2. /\ step' = MKPART /\ waiting' = FALSE /\ cluster_of' \in [TreeDirs -> {0} \cup Clusters]
        /\ ~InCall /\ installed' = FALSE
    BY <1>4, <1>6, <2>1 DEF Install, AtPrompt
  <2> QED
    BY <1>2, <2>2, DiskInvOutside
<1>7. CASE InstallMkpart
  <2>1. /\ step' = MKFS /\ waiting' = FALSE /\ cluster_of' = cluster_of /\ ~InCall /\ ~installed'
    BY <1>4, <1>7, StepNumbers DEF InstallMkpart
  <2> QED
    BY <1>2, <1>4, <2>1, DiskInvOutside
<1>8. CASE InstallMkpartFails
  <2>1. /\ step' = 0 /\ waiting' = FALSE /\ cluster_of' = cluster_of /\ ~installed'
    BY <1>4, <1>8, StepNumbers DEF InstallMkpartFails
  <2> QED
    BY <1>2, <1>4, <2>1, DiskInvOutside
<1>9. CASE InstallComplete
  <2>1. step' = 0 /\ waiting' = FALSE /\ cluster_of' = cluster_of /\ ~InCall /\ TreeMade(Len(Tree))
    BY <1>4, <1>9 DEF InstallComplete
  <2> QED
    BY <1>2, <1>3, <1>4, <2>1, DiskInvOutside
<1> QED
  BY <1>5, <1>6, <1>7, <1>8, <1>9

\* mkfs and the reading commands, and power failing.
LEMMA PromptInv ==
  ASSUME DiskInv, Mkfs \/ Reading \/ Reboot
  PROVE  DiskInv'
<1>1. /\ VolumeInv /\ cluster_of \in [TreeDirs -> {0} \cup Clusters] /\ Len(Tree) \in Nat
      /\ waiting \in BOOLEAN /\ (step = 0 => ~waiting)
      /\ installed => step = 0 /\ ~InCall /\ TreeMade(Len(Tree))
  BY StepFacts, StepNumbers
<1>2. CASE Mkfs
  <2>1. VolumeInv' /\ step' = 0 /\ waiting' = FALSE /\ cluster_of' = cluster_of /\ installed' = FALSE
    BY <1>1, <1>2, StartFormatInv DEF Mkfs, AtPrompt
  <2> QED
    BY <1>1, <2>1, DiskInvOutside
<1>3. CASE Reading
  <2>1. /\ Mount \/ MountFails
        /\ step' = 0 /\ waiting' = FALSE /\ cluster_of' = cluster_of /\ installed' = installed
    BY <1>1, <1>3 DEF Reading, AtPrompt, commands
  <2>2. VolumeInv' /\ UNCHANGED <<root, data, formatted, fat_failures>> /\ ~InCall'
    BY <1>1, <2>1, MountInv, MountIs
  <2>3. installed' => TreeMade(Len(Tree))'
    BY <1>1, <2>1, <2>2, SameRoot
  <2> QED
    BY <1>1, <2>1, <2>2, <2>3, DiskInvOutside
<1>4. CASE Reboot
  <2>1. /\ PowerFailure
        /\ step' = 0 /\ waiting' = FALSE /\ cluster_of' = cluster_of /\ installed' = installed
    BY <1>4 DEF Reboot
  <2>2. VolumeInv' /\ UNCHANGED <<root, data, formatted, fat_failures>> /\ ~InCall'
    BY <1>1, <2>1, PowerFailureInv, IdleIs DEF PowerFailure, disk, history, InCall
  <2>3. installed' => TreeMade(Len(Tree))'
    BY <1>1, <2>1, <2>2, SameRoot
  <2> QED
    BY <1>1, <2>1, <2>2, <2>3, DiskInvOutside
<1> QED
  BY <1>2, <1>3, <1>4

\* Within install.
LEMMA DiskInvInside ==
  ASSUME VolumeInv', waiting' \in BOOLEAN, cluster_of' \in [TreeDirs -> {0} \cup Clusters],
         ~waiting' => ~InCall', ~installed',
         \/ /\ step' = MKFS /\ waiting'
            /\ Formatting' \/ (~InCall' /\ (call'.result = 1 => TreeMade(0)'))
         \/ step' = MOUNT /\ TreeMade(0)' /\ ~InCall'
         \/ \E n \in DOMAIN Tree : step' = TreeStep(n) /\ AtTree(n)'
         \/ step' = TreeStep(Len(Tree) + 1) /\ ~waiting' /\ TreeMade(Len(Tree))'
  PROVE  DiskInv'
<1>1. PICK L \in Nat : L = Len(Tree)
  BY StepNumbers
<1>2. /\ MKFS = 2 /\ MOUNT = 3 /\ TreeStep(Len(Tree)) = 3 + L /\ TreeStep(Len(Tree) + 1) = 4 + L
  BY <1>1, StepNumbers
<1>3. \A n \in DOMAIN Tree : TreeStep(n) = 3 + n /\ n \in Nat /\ n > 0 /\ n <= L
  BY <1>1, StepNumbers
<1>4. PICK s : s = step'
  OBVIOUS
<1>5. ASSUME step' = MKFS, waiting',
             Formatting' \/ (~InCall' /\ (call'.result = 1 => TreeMade(0)'))
      PROVE  DiskInv'
  <2>1. s \in 0 .. (4 + L) /\ s \in 2 .. (3 + L) /\ s # 3 /\ s # 4 + L
    BY <1>2, <1>4, <1>5
  <2>2. \A n \in DOMAIN Tree : s # TreeStep(n)
    BY <1>2, <1>3, <1>4, <1>5
  <2> QED
    BY <1>2, <1>4, <1>5, <2>1, <2>2 DEF DiskInv
<1>6. ASSUME step' = MOUNT, TreeMade(0)', ~InCall' PROVE DiskInv'
  <2>1. s \in 0 .. (4 + L) /\ s \in 2 .. (3 + L) /\ s # 2 /\ s # 4 + L
    BY <1>2, <1>4, <1>6
  <2>2. \A n \in DOMAIN Tree : s # TreeStep(n)
    BY <1>2, <1>3, <1>4, <1>6
  <2> QED
    BY <1>2, <1>4, <1>6, <2>1, <2>2 DEF DiskInv
<1>7. ASSUME NEW n \in DOMAIN Tree, step' = TreeStep(n), AtTree(n)' PROVE DiskInv'
  <2>1. n \in Nat /\ n > 0 /\ n <= L /\ s = 3 + n
    BY <1>3, <1>4, <1>7
  <2>2. s \in 0 .. (4 + L) /\ s \in 2 .. (3 + L) /\ s # 2 /\ s # 3 /\ s # 4 + L
    BY <2>1
  <2>3. \A m \in DOMAIN Tree : s = TreeStep(m) => m = n
    BY <1>3, <2>1
  <2> QED
    BY <1>2, <1>4, <1>7, <2>2, <2>3 DEF DiskInv
<1>8. ASSUME step' = TreeStep(Len(Tree) + 1), ~waiting', TreeMade(Len(Tree))' PROVE DiskInv'
  <2>1. s \in 0 .. (4 + L) /\ s # 2 /\ s # 3
    BY <1>2, <1>4, <1>8
  <2>2. \A n \in DOMAIN Tree : s # TreeStep(n)
    BY <1>2, <1>3, <1>4, <1>8
  <2> QED
    BY <1>2, <1>4, <1>8, <2>1, <2>2 DEF DiskInv
<1> QED
  BY <1>5, <1>6, <1>7, <1>8

\* Where install is.
LEMMA StepCases ==
  ASSUME DiskInv
  PROVE  \/ step \in {0, MKPART}
         \/ step = MKFS
         \/ step = MOUNT
         \/ \E n \in DOMAIN Tree : step = TreeStep(n)
         \/ step = TreeStep(Len(Tree) + 1)
<1>1. PICK L \in Nat : L = Len(Tree) /\ DOMAIN Tree = 1 .. L
  BY StepNumbers
<1>2. /\ MKPART = 1 /\ MKFS = 2 /\ MOUNT = 3 /\ TreeStep(Len(Tree) + 1) = 4 + L
      /\ \A n \in Nat : TreeStep(n) = 3 + n
  BY <1>1, StepNumbers
<1>3. step \in 0 .. (4 + L)
  BY <1>1, <1>2 DEF DiskInv
<1>4. CASE step \in 4 .. (3 + L)
  <2>1. step - 3 \in 1 .. L /\ step = 3 + (step - 3)
    BY <1>4
  <2> QED
    BY <1>1, <1>2, <2>1
<1> QED
  BY <1>2, <1>3, <1>4

\* The clusters of the directories made so far stay theirs.
LEMMA DirAtKept ==
  ASSUME VolumeInv, Step, Making, NEW name, NEW cluster, DirAt(name, cluster)
  PROVE  DirAt(name, cluster)'
<1>1. PICK i \in 1 .. ROOT_SECTORS, k \in 1 .. SLOTS :
        root[i][k].kind = "dir" /\ root[i][k].name = name /\ root[i][k].cluster = cluster
  BY DEF DirAt
<1>2. root'[i][k] = root[i][k]
  <2>1. CASE WriteEntry
    <3>1. TypeOK /\ CallOK
      BY DEF VolumeInv
    <3>2. PICK dir, j, l, e : Placed(dir, j, l, e)
      BY <2>1, <3>1, EntryWritten
    <3> QED
      BY <1>1, <3>1, <3>2, SlotChange
  <2>2. CASE root' = root
    BY <2>2
  <2> QED
    BY <2>1, <2>2, MakingStep, GiveUpIs
<1> QED
  BY <1>1, <1>2 DEF DirAt

\* A step of a call that install waits for, at entry n of the tree.
LEMMA AtTreeStep ==
  ASSUME VolumeInv, Step, VolumeInv', UNCHANGED commands, waiting,
         NEW n \in DOMAIN Tree, AtTree(n)
  PROVE  AtTree(n)'
<1>1. InCall /\ waiting' /\ cluster_of' = cluster_of
  BY StepInCall DEF commands
<1>2. /\ \A m \in MadeDirs(n - 1) : DirAt(Tree[m].dir, cluster_of[Tree[m].dir])
      /\ Making /\ TreeMade(n - 1)
      /\ IF IsDir(n)
         THEN call.kind = "dir" /\ call.name = Tree[n].dir /\ call.dir = ROOT
         ELSE call.kind = "file" /\ call.name = Tree[n].file /\ call.dir = cluster_of[Tree[n].dir]
  BY <1>1 DEF AtTree
<1>3. PICK p \in Nat : p = n - 1
  BY StepNumbers
<1>4. TypeOK /\ Clean /\ TypeOK'
  BY <1>2 DEF VolumeInv, TreeMade
<1>5. \A m \in MadeDirs(n - 1) : DirAt(Tree[m].dir, cluster_of[Tree[m].dir])'
  <2> TAKE m \in MadeDirs(n - 1)
  <2>1. PICK name, c : name = Tree[m].dir /\ c = cluster_of[Tree[m].dir]
    OBVIOUS
  <2>2. DirAt(name, c)
    BY <1>2, <2>1
  <2>3. DirAt(name, c)'
    BY <1>2, <2>2, DirAtKept
  <2> QED
    BY <1>1, <2>1, <2>3
<1>6. CASE GiveUp
  <2>1. ~InCall' /\ call'.result = 0 /\ UNCHANGED <<root, data, formatted, fat_failures>>
    BY <1>6, GiveUpIs
  <2>2. TreeMade(n - 1)'
    BY <1>2, <1>3, <2>1, SameRoot
  <2> QED
    BY <1>5, <2>1, <2>2 DEF AtTree
<1>7. CASE WriteEntry
  <2>1. ~InCall' /\ call'.result = 1
    BY <1>7 DEF WriteEntry, Idle, InCall
  <2>2. CASE IsDir(n)
    <3>1. root' \in [1 .. ROOT_SECTORS -> Sector]
      BY <1>4 DEF TypeOK
    <3>2. TreeMade(n)' /\ DirAt(Tree[n].dir, call.first)'
      BY <1>2, <1>7, <2>2, <3>1, DirMadeNext
    <3> QED
      BY <1>1, <1>5, <2>1, <3>2 DEF AtTree
  <2>3. CASE ~IsDir(n)
    <3>1. PICK m \in 1 .. (n - 1) : IsDir(m) /\ Tree[m].dir = Tree[n].dir
      BY <2>3, DiskAssumption
    <3>2. DirAt(Tree[n].dir, call.dir)
      BY <1>2, <2>3, <3>1 DEF MadeDirs
    <3>3. TreeMade(n)'
      BY <1>2, <1>7, <2>3, <3>2, FileMadeNext
    <3> QED
      BY <1>1, <1>5, <2>1, <2>3, <3>3 DEF AtTree
  <2> QED
    BY <2>2, <2>3
<1>8. CASE /\ Making' /\ call'.kind = call.kind /\ call'.name = call.name /\ call'.dir = call.dir
           /\ root' = root /\ formatted' = formatted
           /\ fat_failures' = 0 => fat_failures = 0 /\ \A d \in SubDirs : data'[d] = data[d]
  <2>1. TreeMade(n - 1)'
    BY <1>2, <1>3, <1>4, <1>8, TreeKept
  <2>2. InCall'
    BY <1>8 DEF Making, InCall
  <2> QED
    BY <1>1, <1>2, <1>5, <1>8, <2>1, <2>2 DEF AtTree
<1> QED
  BY <1>2, <1>6, <1>7, <1>8, MakingStep

\* A step of the call in progress.
LEMMA WorkingInv ==
  ASSUME DiskInv, Working
  PROVE  DiskInv'
<1>1. /\ Step /\ UNCHANGED commands /\ UNCHANGED <<step, waiting, cluster_of, installed>> /\ InCall
  BY StepInCall DEF Working, commands
<1>2. /\ VolumeInv /\ waiting \in BOOLEAN /\ cluster_of \in [TreeDirs -> {0} \cup Clusters]
      /\ step # 0 => waiting
      /\ waiting => step # 0 /\ step # MKPART /\ step # TreeStep(Len(Tree) + 1)
      /\ ~installed
  BY <1>1, StepFacts, StepNumbers
<1>3. VolumeInv'
  BY <1>1, <1>2, StepInv
<1>4. CASE step = 0
  BY <1>1, <1>2, <1>3, <1>4, DiskInvOutside
<1>5. CASE step # 0
  <2>1. waiting /\ waiting' /\ ~installed'
    BY <1>1, <1>2, <1>5
  <2>2. CASE step = MKFS
    <3>1. Formatting
      BY <1>1, <2>1, <2>2 DEF DiskInv
    <3>2. GiveUp \/ Formatting' \/ (call' = Idle(1) /\ TreeMade(0)')
      BY <1>1, <1>2, <3>1, FormattingStep
    <3>3. Formatting' \/ (~InCall' /\ (call'.result = 1 => TreeMade(0)'))
      BY <3>2, GiveUpIs, IdleIs DEF InCall
    <3> QED
      BY <1>1, <1>2, <1>3, <2>1, <2>2, <3>3, DiskInvInside
  <2>3. CASE step = MOUNT
    BY <1>1, <2>3 DEF DiskInv
  <2>4. CASE \E n \in DOMAIN Tree : step = TreeStep(n)
    <3>1. PICK n \in DOMAIN Tree : step = TreeStep(n)
      BY <2>4
    <3>2. AtTree(n)
      BY <3>1 DEF DiskInv
    <3>3. AtTree(n)'
      BY <1>1, <1>2, <1>3, <2>1, <3>2, AtTreeStep
    <3> QED
      BY <1>1, <1>2, <1>3, <2>1, <3>1, <3>3, DiskInvInside
  <2> QED
    BY <1>2, <1>5, <2>1, <2>2, <2>3, <2>4, StepCases
<1> QED
  BY <1>4, <1>5

\* install begins a call.
LEMMA InstallCallInv ==
  ASSUME DiskInv, InstallCall
  PROVE  DiskInv'
<1>1. ~waiting /\ ~InCall /\ waiting' /\ UNCHANGED <<step, cluster_of, installed>>
  BY DEF InstallCall
<1>2. /\ VolumeInv /\ cluster_of \in [TreeDirs -> {0} \cup Clusters]
      /\ installed => step = 0
  BY StepFacts
<1>3. waiting' \in BOOLEAN /\ cluster_of' \in [TreeDirs -> {0} \cup Clusters]
  BY <1>1, <1>2 DEF InstallCall
<1>4. CASE step = MKFS /\ StartFormat
  <2>1. VolumeInv' /\ ~installed'
    BY <1>1, <1>2, <1>4, StartFormatInv, StepNumbers
  <2>2. Formatting' \/ (~InCall' /\ call'.result = 0)
    <3>1. CASE CLUSTERS \in MIN_CLUSTERS .. MAX_CLUSTERS
      <4>1. Begin("format_boot", "none", "none", "none", ROOT, 0)
        BY <1>4, <3>1 DEF StartFormat
      <4>2. call'.pc = "format_boot"
        BY <4>1, BeginFields
      <4> QED
        BY <4>2 DEF Formatting
    <3>2. CASE CLUSTERS \notin MIN_CLUSTERS .. MAX_CLUSTERS
      BY <1>4, <3>2, GiveUpIs DEF StartFormat
    <3> QED
      BY <3>1, <3>2
  <2>3. Formatting' \/ (~InCall' /\ (call'.result = 1 => TreeMade(0)'))
    BY <2>2
  <2> QED
    BY <1>1, <1>3, <1>4, <2>1, <2>3, DiskInvInside
<1>5. CASE step = MOUNT /\ (Mount \/ MountFails)
  <2>1. VolumeInv' /\ ~installed'
    BY <1>1, <1>2, <1>5, MountInv, StepNumbers
  <2>2. UNCHANGED <<root, data, formatted, fat_failures>> /\ ~InCall'
    BY <1>5, MountIs
  <2>3. TreeMade(0)'
    <3>1. TreeMade(0)
      BY <1>5 DEF DiskInv
    <3> QED
      BY <1>2, <2>2, <3>1, SameRoot
  <2> QED
    BY <1>1, <1>3, <1>5, <2>1, <2>2, <2>3, DiskInvInside
<1>6. ASSUME NEW n \in DOMAIN Tree, step = TreeStep(n),
             IF IsDir(n) THEN StartMkdir(Tree[n].dir)
             ELSE StartCreate(cluster_of[Tree[n].dir], Tree[n].file)
      PROVE  DiskInv'
  <2>1. /\ \A m \in MadeDirs(n - 1) : DirAt(Tree[m].dir, cluster_of[Tree[m].dir])
        /\ TreeMade(n - 1)
    BY <1>1, <1>6 DEF DiskInv, AtTree
  <2>2. formatted /\ Clean
    BY <1>2, <2>1 DEF TreeMade, VolumeInv
  <2>3. ~installed' /\ n - 1 \in Nat
    <3>1. n \in Nat /\ n > 0 /\ step = 3 + n
      BY <1>6, StepNumbers
    <3> QED
      BY <1>1, <1>2, <3>1
  <2>4. UNCHANGED <<root, data, formatted, fat_failures>>
    BY <1>6 DEF StartMkdir, StartCreate, disk, history
  <2>5. TreeMade(n - 1)'
    BY <1>2, <2>1, <2>3, <2>4, SameRoot
  <2>6. \A m \in MadeDirs(n - 1) : DirAt(Tree[m].dir, cluster_of[Tree[m].dir])'
    <3> TAKE m \in MadeDirs(n - 1)
    <3>1. PICK name, c : name = Tree[m].dir /\ c = cluster_of[Tree[m].dir]
      OBVIOUS
    <3>2. DirAt(name, c)'
      BY <1>2, <2>1, <2>4, <3>1, SameRoot
    <3> QED
      BY <1>1, <3>1, <3>2
  <2>7. CASE IsDir(n)
    <3>1. StartMkdir(Tree[n].dir) /\ Tree[n].dir \in Dirs
      BY <1>6, <2>7, TreeSeq
    <3>2. VolumeInv'
      BY <1>2, <2>2, <3>1, StartMkdirInv
    <3>3. PICK name : name = Tree[n].dir /\ Begin("alloc", "mkdir", "dir", name, ROOT, 0)
      BY <3>1 DEF StartMkdir
    <3>4. /\ call'.pc = "alloc" /\ call'.kind = "dir" /\ call'.name = name /\ call'.dir = ROOT
      BY <3>3, BeginFields
    <3>5. AtTree(n)'
      BY <2>5, <2>6, <2>7, <3>3, <3>4 DEF AtTree, InCall, Making
    <3> QED
      BY <1>1, <1>3, <1>6, <2>3, <3>2, <3>5, DiskInvInside
  <2>8. CASE ~IsDir(n)
    <3>1. PICK name, dir : name = Tree[n].file /\ dir = cluster_of[Tree[n].dir]
      OBVIOUS
    <3>2. StartCreate(dir, name) /\ name \in Files
      BY <1>6, <2>8, <3>1, TreeSeq
    <3>3. PICK m \in 1 .. (n - 1) : IsDir(m) /\ Tree[m].dir = Tree[n].dir
      BY <2>8, DiskAssumption
    <3>4. DirAt(Tree[n].dir, dir)
      BY <2>1, <3>1, <3>3 DEF MadeDirs
    <3>5. dir \in SubDirs
      BY <2>2, <3>4, DirAtIn
    <3>6. VolumeInv'
      BY <1>2, <2>2, <3>2, <3>5, StartCreateInv
    <3>7. PICK pc \in {"alloc", "entry"} : Begin(pc, "data", "file", name, dir, SizeOf[name])
      BY <3>2 DEF StartCreate
    <3>8. /\ call'.pc = pc /\ call'.kind = "file" /\ call'.name = name /\ call'.dir = dir
      BY <3>7, BeginFields
    <3>9. Making' /\ InCall'
      BY <3>8 DEF Making, InCall
    <3>10. AtTree(n)'
      BY <1>1, <2>5, <2>6, <2>8, <3>1, <3>8, <3>9 DEF AtTree
    <3> QED
      BY <1>1, <1>3, <1>6, <2>3, <3>6, <3>10, DiskInvInside
  <2> QED
    BY <2>7, <2>8
<1> QED
  BY <1>4, <1>5, <1>6 DEF InstallCall

\* install goes on with entry n + 1 of the tree, or is through.
LEMMA NextEntry ==
  ASSUME VolumeInv', NEW n \in 0 .. Len(Tree), step' = TreeStep(n + 1), waiting' = FALSE,
         cluster_of' \in [TreeDirs -> {0} \cup Clusters], ~InCall', ~installed', TreeMade(n)',
         \A m \in MadeDirs(n) : DirAt(Tree[m].dir, cluster_of[Tree[m].dir])'
  PROVE  DiskInv'
<1>1. Len(Tree) \in Nat /\ DOMAIN Tree = 1 .. Len(Tree)
  BY StepNumbers
<1>2. CASE n = Len(Tree)
  BY <1>2, DiskInvInside
<1>3. CASE n # Len(Tree)
  <2>1. n + 1 \in DOMAIN Tree /\ (n + 1) - 1 = n
    <3>1. PICK L \in Nat : L = Len(Tree)
      BY <1>1
    <3>2. n \in 0 .. L /\ n # L
      BY <1>3, <3>1
    <3>3. n + 1 \in 1 .. L /\ (n + 1) - 1 = n
      BY <3>2
    <3> QED
      BY <1>1, <3>1, <3>3
  <2>2. AtTree(n + 1)'
    BY <2>1 DEF AtTree
  <2> QED
    BY <2>1, <2>2, DiskInvInside
<1> QED
  BY <1>2, <1>3

\* install looks at what a call returned.
LEMMA InstallReturnInv ==
  ASSUME DiskInv, InstallReturn
  PROVE  DiskInv'
<1>1. /\ waiting /\ ~InCall /\ waiting' = FALSE /\ UNCHANGED vars /\ installed' = installed
      /\ step' = IF call.result = 0 /\ MustSucceed(step) THEN 0 ELSE step + 1
      /\ cluster_of' =
           IF step > MOUNT /\ call.result = 1 /\ IsDir(step - MOUNT)
           THEN [cluster_of EXCEPT ![Tree[step - MOUNT].dir] = call.first] ELSE cluster_of
  BY DEF InstallReturn
<1>2. /\ VolumeInv /\ step \in Nat /\ cluster_of \in [TreeDirs -> {0} \cup Clusters]
      /\ step # 0 /\ step # MKPART /\ step # TreeStep(Len(Tree) + 1) /\ ~installed
  BY <1>1, StepFacts, StepNumbers
<1>3. /\ VolumeInv' /\ ~InCall' /\ call' = call
      /\ \A k \in Nat : TreeMade(k) => TreeMade(k)'
      /\ \A name, c : DirAt(name, c) => DirAt(name, c)'
  BY <1>1, <1>2, SameVolume
<1>4. call.result \in 0 .. 1 /\ call.first \in {0} \cup Clusters
  BY <1>2 DEF VolumeInv, TypeOK, Call
<1>5. Len(Tree) \in Nat /\ MKFS = 2 /\ MOUNT = 3 /\ TreeStep(0 + 1) = 4
  BY StepNumbers
<1>6. ASSUME step' = 0, cluster_of' \in [TreeDirs -> {0} \cup Clusters] PROVE DiskInv'
  BY <1>1, <1>2, <1>3, <1>6, DiskInvOutside
<1>7. CASE step = MKFS
  <2>1. cluster_of' = cluster_of /\ MustSucceed(step)
    BY <1>1, <1>5, <1>7 DEF MustSucceed
  <2>2. CASE call.result = 0
    BY <1>1, <1>2, <1>6, <2>1, <2>2
  <2>3. CASE call.result = 1
    <3>1. step' = MOUNT
      BY <1>1, <1>5, <1>7, <2>3
    <3>2. TreeMade(0)
      <4>1. ~Formatting
        BY <1>1 DEF InCall, Formatting
      <4> QED
        BY <1>1, <1>7, <2>3, <4>1 DEF DiskInv
    <3> QED
      BY <1>1, <1>2, <1>3, <2>1, <3>1, <3>2, DiskInvInside
  <2> QED
    BY <1>4, <2>2, <2>3
<1>8. CASE step = MOUNT
  <2>1. cluster_of' = cluster_of /\ MustSucceed(step)
    BY <1>1, <1>5, <1>8 DEF MustSucceed
  <2>2. CASE call.result = 0
    BY <1>1, <1>2, <1>6, <2>1, <2>2
  <2>3. CASE call.result = 1
    <3>1. step' = TreeStep(0 + 1) /\ 0 \in 0 .. Len(Tree)
      BY <1>1, <1>5, <1>8, <2>3
    <3>2. TreeMade(0)'
      BY <1>3, <1>8 DEF DiskInv
    <3>3. MadeDirs(0) = {}
      BY Counting
    <3> QED
      BY <1>1, <1>2, <1>3, <2>1, <3>1, <3>2, <3>3, NextEntry
  <2> QED
    BY <1>4, <2>2, <2>3
<1>9. ASSUME NEW n \in DOMAIN Tree, step = TreeStep(n) PROVE DiskInv'
  <2>1. /\ n \in Nat /\ n > 0 /\ n <= Len(Tree) /\ step = 3 + n
        /\ TreeStep(n + 1) = 3 + (n + 1) /\ Tree[n].dir \in TreeDirs
    <3>1. n \in Nat /\ n > 0 /\ n <= Len(Tree) /\ step = 3 + n
      BY <1>9, StepNumbers
    <3>2. n + 1 \in Nat
      BY <3>1
    <3> QED
      BY <3>1, <3>2, StepNumbers, TreeSeq
  <2>2. step > MOUNT /\ step - MOUNT = n /\ n \in 0 .. Len(Tree) /\ step + 1 = TreeStep(n + 1)
    BY <1>5, <2>1
  <2>3. PICK p \in Nat : p = n - 1 /\ n = p + 1
    BY <2>1
  <2>4. /\ \A m \in MadeDirs(p) : DirAt(Tree[m].dir, cluster_of[Tree[m].dir])
        /\ IF call.result = 1 THEN TreeMade(n) /\ (IsDir(n) => DirAt(Tree[n].dir, call.first))
           ELSE TreeMade(p)
    BY <1>1, <1>9, <2>3 DEF DiskInv, AtTree
  <2>5. cluster_of' = IF call.result = 1 /\ IsDir(n)
                      THEN [cluster_of EXCEPT ![Tree[n].dir] = call.first] ELSE cluster_of
    BY <1>1, <2>2
  <2>6. cluster_of' \in [TreeDirs -> {0} \cup Clusters]
    BY <1>2, <1>4, <2>5
  <2>7. CASE call.result = 0 /\ IsDir(n)
    <3>1. step' = 0
      BY <1>1, <2>2, <2>7 DEF MustSucceed
    <3> QED
      BY <1>6, <2>6, <3>1
  <2>8. CASE ~(call.result = 0 /\ IsDir(n))
    <3>1. step' = TreeStep(n + 1)
      <4>1. MustSucceed(step) => IsDir(n)
        BY <1>2, <2>2, <1>5 DEF MustSucceed
      <4> QED
        BY <1>1, <2>2, <2>8, <4>1
    <3>2. TreeMade(n)
      <4>1. CASE call.result = 1
        BY <2>4, <4>1
      <4>2. CASE call.result # 1
        <5>1. MadeDirs(n) = MadeDirs(p) /\ DirCount(n) = DirCount(p)
          BY <1>4, <2>3, <2>8, <4>2, Counting
        <5>2. TreeMade(p)
          BY <2>4, <4>2
        <5> QED
          BY <5>1, <5>2 DEF TreeMade
      <4> QED
        BY <4>1, <4>2
    <3>3. ASSUME NEW m \in MadeDirs(n) PROVE DirAt(Tree[m].dir, cluster_of'[Tree[m].dir])
      <4>1. CASE IsDir(n) /\ Tree[m].dir = Tree[n].dir
        <5>1. call.result = 1
          BY <1>4, <2>8, <4>1
        <5>2. cluster_of'[Tree[n].dir] = call.first
          BY <1>2, <2>1, <2>5, <4>1, <5>1
        <5> QED
          BY <2>4, <4>1, <5>1, <5>2
      <4>2. CASE ~(IsDir(n) /\ Tree[m].dir = Tree[n].dir)
        <5>1. m \in MadeDirs(p)
          <6>1. IsDir(n) => MadeDirs(n) = MadeDirs(p) \cup {n}
            BY <2>3, Counting
          <6>2. ~IsDir(n) => MadeDirs(n) = MadeDirs(p)
            BY <2>3, Counting
          <6> QED
            BY <4>2, <6>1, <6>2
        <5>2. m \in DOMAIN Tree
          <6>1. m \in 1 .. n
            BY <2>1, Counting
          <6> QED
            BY <2>1, <6>1, StepNumbers
        <5>3. Tree[m].dir \in TreeDirs
          BY <5>2, TreeSeq
        <5>4. cluster_of'[Tree[m].dir] = cluster_of[Tree[m].dir]
          BY <1>2, <2>5, <4>2, <5>3
        <5> QED
          BY <2>4, <5>1, <5>4
      <4> QED
        BY <4>1, <4>2
    <3>4. ASSUME NEW m \in MadeDirs(n) PROVE DirAt(Tree[m].dir, cluster_of[Tree[m].dir])'
      <4>1. PICK name, c : name = Tree[m].dir /\ c = cluster_of'[Tree[m].dir]
        OBVIOUS
      <4>2. DirAt(name, c)
        BY <3>3, <4>1
      <4>3. DirAt(name, c)'
        BY <1>3, <4>2
      <4> QED
        BY <4>1, <4>3
    <3>5. TreeMade(n)'
      BY <1>3, <2>1, <3>2
    <3> QED
      BY <1>1, <1>2, <1>3, <2>2, <2>6, <3>1, <3>4, <3>5, NextEntry
  <2> QED
    BY <2>7, <2>8
<1> QED
  BY <1>2, <1>7, <1>8, <1>9, StepCases

-----------------------------------------------------------------------------
(* What install leaves behind *)

LEMMA DiskInitInv == DiskInit => DiskInv
<1> SUFFICES ASSUME DiskInit PROVE DiskInv
  OBVIOUS
<1>1. VolumeInv /\ ~InCall
  BY VolumeInit, IdleIs DEF DiskInit, Init, InCall
<1>2. PICK L \in Nat : L = Len(Tree)
  BY StepNumbers
<1>3. step = 0 /\ waiting = FALSE /\ installed = FALSE /\ cluster_of = [d \in TreeDirs |-> 0]
  BY DEF DiskInit
<1>4. cluster_of \in [TreeDirs -> {0} \cup Clusters]
  BY <1>3
<1>5. /\ step \in 0 .. TreeStep(Len(Tree) + 1) /\ step # MKFS /\ step # MOUNT
      /\ step # TreeStep(Len(Tree) + 1) /\ ~(step > 0)
  <2>1. TreeStep(Len(Tree) + 1) = 4 + L /\ MKFS = 2 /\ MOUNT = 3
    BY <1>2, StepNumbers
  <2>2. PICK last : last = TreeStep(Len(Tree) + 1)
    OBVIOUS
  <2>3. last = 4 + L
    BY <2>1, <2>2
  <2>4. 0 \in 0 .. last /\ 0 # last /\ ~(0 > 0)
    BY <1>2, <2>3
  <2> QED
    BY <1>3, <2>1, <2>2, <2>4
<1>6. \A n \in DOMAIN Tree : step # TreeStep(n)
  <2>1. \A n \in DOMAIN Tree : TreeStep(n) = 3 + n /\ n \in Nat
    BY StepNumbers
  <2> QED
    BY <1>3, <2>1
<1> QED
  BY <1>1, <1>3, <1>4, <1>5, <1>6 DEF DiskInv

\* DiskInv is inductive: the commands use the volume as its calls ask to be
\* used, and the tree that install makes grows entry by entry through failed
\* accesses and power failures (do_mkpart, do_mkfs, command_install).
THEOREM DiskInvariant == DiskSpec => []DiskInv
<1>1. DiskInv /\ [DiskNext]_allvars => DiskInv'
  <2> SUFFICES ASSUME DiskInv, [DiskNext]_allvars PROVE DiskInv'
    OBVIOUS
  <2>1. CASE UNCHANGED allvars
    <3>1. UNCHANGED vars /\ UNCHANGED <<step, waiting, cluster_of, installed>>
      BY <2>1 DEF allvars, commands
    <3>2. /\ VolumeInv' /\ (InCall' <=> InCall) /\ (Formatting' <=> Formatting)
          /\ (Making' <=> Making) /\ call' = call
          /\ \A k \in Nat : TreeMade(k) => TreeMade(k)'
          /\ \A name, c : DirAt(name, c) => DirAt(name, c)'
      BY <3>1, SameVolume DEF DiskInv
    <3>3. ASSUME NEW n \in DOMAIN Tree, AtTree(n) PROVE AtTree(n)'
      <4>1. n \in Nat /\ n - 1 \in Nat
        <5>1. n \in Nat /\ n > 0
          BY StepNumbers
        <5> QED
          BY <5>1
      <4>2. ASSUME NEW m \in MadeDirs(n - 1)
            PROVE  DirAt(Tree[m].dir, cluster_of[Tree[m].dir])'
        <5>1. PICK name, c : name = Tree[m].dir /\ c = cluster_of[Tree[m].dir]
          OBVIOUS
        <5>2. DirAt(name, c)'
          BY <3>2, <3>3, <5>1 DEF AtTree
        <5> QED
          BY <3>1, <5>1, <5>2
      <4>3. DirAt(Tree[n].dir, call.first) => DirAt(Tree[n].dir, call.first)'
        <5>1. PICK name, c : name = Tree[n].dir /\ c = call.first
          OBVIOUS
        <5>2. DirAt(name, c) => DirAt(name, c)'
          BY <3>2
        <5> QED
          BY <3>2, <5>1, <5>2
      <4>4. (TreeMade(n) => TreeMade(n)') /\ (TreeMade(n - 1) => TreeMade(n - 1)')
        BY <3>2, <4>1
      <4> QED
        BY <3>1, <3>2, <3>3, <4>2, <4>3, <4>4 DEF AtTree
    <3>4. /\ TreeMade(0) => TreeMade(0)'
          /\ TreeMade(Len(Tree)) => TreeMade(Len(Tree))'
      BY <3>2, StepNumbers
    <3> QED
      BY <3>1, <3>2, <3>3, <3>4 DEF DiskInv
  <2> QED
    BY <2>1, CommandsInv, PromptInv, WorkingInv, InstallCallInv, InstallReturnInv DEF DiskNext
<1> QED
  BY <1>1, DiskInitInv, PTL DEF DiskSpec

\* The listing of a root that holds nothing but the directories made.
LEMMA MadeListed ==
  ASSUME TypeOK, NEW k \in Nat, TreeMade(k)
  PROVE  /\ Len(Listed(ROOT)) = DirCount(k) /\ DOMAIN Listed(ROOT) = 1 .. DirCount(k)
         /\ \A j \in 1 .. DirCount(k) : Listed(ROOT)[j] = Slots(root)[j]
<1>1. PICK S : S = Slots(root)
  OBVIOUS
<1>2. PICK c \in Nat : c = DirCount(k)
  BY CountType
<1>3. root \in [1 .. ROOT_SECTORS -> Sector] /\ ROOT_SECTORS \in Nat
  BY Constants DEF TypeOK
<1>4. S \in Seq(Items) /\ Len(S) \in Nat
  BY <1>1, <1>3, SlotsAre, RootSlots
<1>5. c <= Len(S) /\ \A j \in 1 .. Len(S) : S[j].kind = IF j <= c THEN "dir" ELSE "free"
  BY <1>1, <1>2 DEF TreeMade
<1> DEFINE I == {j \in 1 .. Len(S) : S[j].kind = "free"}
           end == IF I # {} THEN Min(I) ELSE 0
<1>6. Listed(ROOT) = IF end = 0 THEN S ELSE SubSeq(S, 1, end - 1)
  BY <1>1, SectorsOf DEF Listed, SelectInSeq
<1>7. \A j \in 1 .. Len(S) : j \in I <=> j > c
  BY <1>2, <1>4, <1>5
<1>8. I \in SUBSET Nat
  BY <1>4
<1>9. CASE c = Len(S)
  <2>1. I = {}
    BY <1>4, <1>7, <1>9
  <2>2. end = 0
    BY <2>1
  <2>3. Listed(ROOT) = S
    BY <1>6, <2>2
  <2>4. DOMAIN S = 1 .. Len(S)
    BY <1>4
  <2> QED
    BY <1>1, <1>2, <1>9, <2>3, <2>4
<1>10. CASE c # Len(S)
  <2>1. c + 1 \in 1 .. Len(S) /\ c + 1 \in I
    BY <1>4, <1>5, <1>7, <1>10
  <2>2. Min(I) \in I /\ Min(I) <= c + 1
    <3> HIDE DEF I
    <3> QED
      BY <1>8, <2>1, MinIn
  <2>3. Min(I) = c + 1
    <3>1. PICK m : m = Min(I)
      OBVIOUS
    <3>2. m \in 1 .. Len(S) /\ m > c /\ m <= c + 1
      BY <1>7, <2>2, <3>1
    <3> QED
      BY <1>4, <3>1, <3>2
  <2>4. end = c + 1
    BY <2>1, <2>3
  <2> HIDE DEF I, end
  <2>5. Listed(ROOT) = SubSeq(S, 1, c)
    BY <1>6, <2>4
  <2>6. /\ SubSeq(S, 1, c) \in Seq(Items) /\ Len(SubSeq(S, 1, c)) = c
        /\ DOMAIN SubSeq(S, 1, c) = 1 .. c
        /\ \A j \in 1 .. c : SubSeq(S, 1, c)[j] = S[j]
    BY <1>4, <1>5
  <2> QED
    BY <1>1, <1>2, <2>5, <2>6
<1> QED
  BY <1>9, <1>10

LEMMA RootOfInv == DiskInv => InstalledRoot
<1> SUFFICES ASSUME DiskInv, installed PROVE InstalledRoot
  BY DEF InstalledRoot
<1>1. Len(Tree) \in Nat /\ TypeOK /\ TreeMade(Len(Tree))
  BY StepNumbers DEF DiskInv, VolumeInv
<1>2. PICK L \in Nat : L = Len(Tree) /\ TreeMade(L)
  BY <1>1
<1>3. /\ Len(Listed(ROOT)) = DirCount(L)
      /\ \A j \in 1 .. DirCount(L) : Listed(ROOT)[j] = Slots(root)[j]
  BY <1>1, <1>2, MadeListed
<1>4. ASSUME NEW n \in MadeDirs(L)
      PROVE  /\ Listed(ROOT)[DirCount(n)].kind = "dir"
             /\ Listed(ROOT)[DirCount(n)].name = Tree[n].dir
  <2>1. PICK j \in 1 .. DirCount(L) : j = DirCount(n)
    BY Counting
  <2>2. Slots(root)[j].name = Tree[n].dir
    BY <1>2, <2>1 DEF TreeMade
  <2>3. Slots(root)[j].kind = "dir"
    <3>1. root \in [1 .. ROOT_SECTORS -> Sector]
      BY <1>1 DEF TypeOK
    <3>2. DirCount(L) \in Nat /\ Len(Slots(root)) \in Nat /\ DirCount(L) <= Len(Slots(root))
      BY <1>2, <3>1, CountType, RootSlots DEF TreeMade
    <3>3. j \in 1 .. Len(Slots(root)) /\ j <= DirCount(L)
      BY <3>2
    <3> QED
      BY <1>2, <3>3 DEF TreeMade
  <2> QED
    BY <1>3, <2>1, <2>2, <2>3
<1> QED
  BY <1>2, <1>3, <1>4 DEF InstalledRoot

LEMMA TreeOfInv == DiskInv => InstalledTree
<1> SUFFICES ASSUME DiskInv, installed, fat_failures = 0 PROVE InstalledTree
  BY DEF InstalledTree
<1>1. PICK L \in Nat : L = Len(Tree) /\ TreeMade(L)
  BY StepNumbers DEF DiskInv
<1>2. TypeOK /\ Clean /\ Sound
  BY <1>1 DEF DiskInv, VolumeInv, TreeMade, Intact
<1>3. /\ DOMAIN Listed(ROOT) = 1 .. DirCount(L)
      /\ \A j \in 1 .. DirCount(L) : Listed(ROOT)[j] = Slots(root)[j]
  BY <1>1, <1>2, MadeListed
<1>4. Listed(ROOT) \in Seq(Items)
  <2>1. ROOT_SECTORS \in Nat
    BY Constants
  <2> QED
    BY <1>2, <2>1, DirTypes, ListedAre
<1>5. ASSUME NEW name, NEW x \in Find(ROOT, name), x.kind = "dir"
      PROVE  x.cluster \in SubDirs /\ FilesOf(name, x.cluster)
  <2>1. PICK j \in DOMAIN Listed(ROOT) : x = Listed(ROOT)[j] /\ x.name = name
    BY <1>4, FindAre
  <2>2. j \in 1 .. DirCount(L) /\ x = Slots(root)[j]
    BY <1>3, <2>1
  <2>3. FilesOf(Slots(root)[j].name, Slots(root)[j].cluster)
    BY <1>1, <2>2 DEF TreeMade
  <2> QED
    BY <1>2, <1>5, <2>1, <2>2, <2>3, FoundDir
<1>6. ASSUME NEW c \in SubDirs
      PROVE  /\ Listed(c) \in Seq(Items)
             /\ \A j \in DOMAIN Listed(c) : \E s \in 1 .. SECTORS_PER_CLUSTER, l \in 1 .. SLOTS :
                  Listed(c)[j] = data[c][s][l] /\ data[c][s][l].kind # "free"
  <2>1. c \in InVolume /\ DirSectors(c) = data[c]
    BY SectorsOf DEF SubDirs
  <2>2. SECTORS_PER_CLUSTER \in Nat /\ DirSectors(c) \in [1 .. SECTORS_PER_CLUSTER -> Sector]
    BY <1>2, <2>1, Constants, DirTypes
  <2>3. /\ Listed(c) \in Seq(Items)
        /\ \A j \in DOMAIN Listed(c) : \E s \in 1 .. SECTORS_PER_CLUSTER, l \in 1 .. SLOTS :
             Listed(c)[j] = DirSectors(c)[s][l] /\ DirSectors(c)[s][l].kind # "free"
    BY <2>2, ListedAre
  <2> QED
    BY <2>1, <2>3
<1>7. ASSUME NEW d \in TreeDirs, NEW listing \in LsDisk(d), NEW k \in DOMAIN listing
      PROVE  \/ listing[k].name \in {".", ".."}
             \/ \E n \in DOMAIN Tree : Tree[n].dir = d /\ Tree[n].file = listing[k].name
  <2>1. PICK x \in Find(ROOT, d) : x.kind = "dir" /\ listing = Listed(x.cluster)
    BY DEF LsDisk
  <2>2. PICK c : c = x.cluster
    OBVIOUS
  <2>3. c \in SubDirs /\ FilesOf(d, c)
    BY <1>5, <2>1, <2>2
  <2>4. PICK s \in 1 .. SECTORS_PER_CLUSTER, l \in 1 .. SLOTS :
          listing[k] = data[c][s][l] /\ data[c][s][l].kind # "free"
    BY <1>6, <2>1, <2>2, <2>3
  <2> QED
    BY <2>3, <2>4 DEF FilesOf
<1>8. ASSUME NEW n \in DOMAIN Tree, ~IsDir(n), NEW e \in FindPath(Tree[n].dir, Tree[n].file)
      PROVE  ReadFile(e.cluster, e.size) = Contents(Tree[n].file)
  <2>1. PICK x \in Find(ROOT, Tree[n].dir) : x.kind = "dir" /\ e \in Find(x.cluster, Tree[n].file)
    BY DEF FindPath
  <2>2. PICK c, file : c = x.cluster /\ file = Tree[n].file
    OBVIOUS
  <2>3. c \in SubDirs
    BY <1>5, <2>1, <2>2
  <2>4. PICK j \in DOMAIN Listed(c) : e = Listed(c)[j] /\ e.name = file
    BY <1>6, <2>1, <2>2, <2>3, FindAre
  <2>5. PICK s \in 1 .. SECTORS_PER_CLUSTER, l \in 1 .. SLOTS :
          e = data[c][s][l] /\ data[c][s][l].kind # "free"
    BY <1>6, <2>3, <2>4
  <2>6. file \notin {".", ".."}
    BY <1>8, <2>2, TreeSeq, DiskAssumption
  <2>7. e.kind = "file"
    BY <1>2, <2>3, <2>4, <2>5, <2>6 DEF Sound
  <2>8. ReadFile(e.cluster, e.size) = Contents(file)
    <3>1. e \in Find(c, file)
      BY <2>1, <2>2
    <3> QED
      BY <1>2, <2>3, <2>7, <3>1, <2>4, FoundReads
  <2> QED
    BY <2>2, <2>8
<1> QED
  BY <1>7, <1>8 DEF InstalledTree

\* Once install says that it is complete, and until the next command that
\* formats, the root lists the directories of the tree in order and nothing
\* else, for every tree and whatever access fails (command_install).
THEOREM InstallLists == DiskSpec => []InstalledRoot
  BY RootOfInv, DiskInvariant, PTL

\* The directories it made then list no file but their own, and a placeholder
\* that is found has its contents, unless an access to the FAT failed
\* (command_install, fat16_create_file_in_dir).
THEOREM InstallFiles == DiskSpec => []InstalledTree
  BY TreeOfInv, DiskInvariant, PTL

-----------------------------------------------------------------------------
(* The entries of the root stay *)

\* What an entry of the root is after a step of a formatted volume.
RootStays ==
  formatted /\ formatted' =>
    \A i \in 1 .. ROOT_SECTORS, k \in 1 .. SLOTS :
      root[i][k].kind # "free" => root'[i][k] = root[i][k]

LEMMA RootStep == VolumeInv /\ Step => RootStays
<1> SUFFICES ASSUME VolumeInv, Step, formatted,
                    NEW i \in 1 .. ROOT_SECTORS, NEW k \in 1 .. SLOTS, root[i][k].kind # "free"
             PROVE  root'[i][k] = root[i][k]
  BY DEF RootStays
<1>1. TypeOK /\ CallOK /\ call \in Call
  BY DEF VolumeInv, TypeOK
<1>2. Making
  BY <1>1, StepInCall DEF CallOK, Call, InCall, Making, Formatting
<1>3. CASE WriteEntry
  <2>1. PICK dir, j, l, e : Placed(dir, j, l, e)
    BY <1>1, <1>3, EntryWritten
  <2> QED
    BY <1>1, <2>1, SlotChange
<1> QED
  BY <1>2, <1>3, MakingStep, GiveUpIs

\* Calls that begin, mounts and power failures do not write the root.
LEMMA RootQuiet ==
  ASSUME \/ StartFormat \/ Mount \/ MountFails \/ NotMounted \/ PowerFailure \/ UNCHANGED vars
         \/ (\E name : StartMkdir(name)) \/ (\E dir, name : StartCreate(dir, name))
  PROVE  RootStays
<1>1. root' = root
  BY DEF StartFormat, Mount, MountFails, NotMounted, PowerFailure, StartMkdir, StartCreate,
         GiveUp, vars, disk
<1> QED
  BY <1>1 DEF RootStays

\* An entry of the root directory stays where it is until the next format, for
\* any client of the volume (write_entry_in_root takes a free slot).
THEOREM RootEntriesStay == Spec => RootKept
<1>1. VolumeInv /\ [Next]_vars => [RootStays]_vars
  BY RootStep, RootQuiet DEF Next, ClientMkdir, ClientCreate
<1>2. [][RootStays]_vars => RootKept
  BY DEF RootKept, RootStays
<1> QED
  BY <1>1, <1>2, VolumeInvariant, PTL DEF Spec

\* The same for the commands of the shell.
THEOREM CommandsKeepRoot == DiskSpec => RootKept
<1>1. DiskInv /\ [DiskNext]_allvars => [RootStays]_vars
  <2> SUFFICES ASSUME DiskInv, [DiskNext]_allvars PROVE RootStays
    OBVIOUS
  <2>1. VolumeInv
    BY DEF DiskInv
  <2>2. \/ Step \/ StartFormat \/ Mount \/ MountFails \/ PowerFailure \/ UNCHANGED vars
        \/ (\E name : StartMkdir(name)) \/ (\E dir, name : StartCreate(dir, name))
    BY DEF DiskNext, Mkpart, Mkfs, Reading, Install, InstallMkpart, InstallMkpartFails, InstallCall,
           InstallReturn, InstallComplete, Working, Reboot, allvars
  <2> QED
    BY <2>1, <2>2, RootStep, RootQuiet
<1>2. [][RootStays]_vars => RootKept
  BY DEF RootKept, RootStays
<1> QED
  BY <1>1, <1>2, DiskInvariant, PTL DEF DiskSpec

=============================================================================
