-------------------------- MODULE InterpreterProofs --------------------------
(***************************************************************************)
(* A session at the prompt, for every set of lines and of names, every     *)
(* size of a directory and of the heap: the path printed at the prompt     *)
(* leads to the directory the user is in, and the commands that nested     *)
(* loops run are what was typed.                                           *)
(*                                                                         *)
(* What a recursive definition computes (the path, its names followed one  *)
(* by one, the words taken off a line) is proved by induction on the set   *)
(* of the numbers for which it holds.                                      *)
(***************************************************************************)
EXTENDS Interpreter, SequenceTheorems, WellFoundedInduction, TLAPS

-----------------------------------------------------------------------------
(* Induction over the natural numbers, on sets *)

LEMMA LeastNat ==
  ASSUME NEW T \in SUBSET Nat, T # {}
  PROVE  \E m \in T : \A k \in T : m <= k
<1> DEFINE LessThan == {p \in Nat \X Nat : p[1] < p[2]}
<1>1. LessThan = OpToRel(<, Nat)
  BY DEF OpToRel
<1>2. IsWellFoundedOn(LessThan, Nat)
  BY <1>1, NatLessThanWellFounded
<1>3. PICK x \in T : \A y \in T : ~ (<<y, x>> \in LessThan)
  BY <1>2, WFMin
<1>4. ASSUME NEW y \in T PROVE x <= y
  <2>1. x \in Nat /\ y \in Nat
    OBVIOUS
  <2>2. y < x => <<y, x>> \in LessThan
    BY <2>1
  <2> QED
    BY <1>3, <2>1, <2>2
<1> QED
  BY <1>4

LEMMA SetInduction ==
  ASSUME NEW S, 0 \in S, \A n \in Nat : n \in S => n + 1 \in S
  PROVE  Nat \subseteq S
<1> SUFFICES ASSUME Nat \ S # {} PROVE FALSE
  OBVIOUS
<1>1. PICK m \in Nat \ S : \A k \in Nat \ S : m <= k
  BY LeastNat
<1>2. m - 1 \in Nat /\ m - 1 \notin Nat \ S
  BY <1>1
<1> QED
  BY <1>1, <1>2

-----------------------------------------------------------------------------
(* Words of a line *)

-----------------------------------------------------------------------------
(* The session: the interpreter, the loops and the in-RAM file system *)

\* The first of some places.
LEMMA MinIs ==
  ASSUME NEW I \in SUBSET Nat, I # {}
  PROVE  Min(I) \in I /\ \A j \in I : Min(I) <= j
<1>1. PICK m \in I : \A k \in I : m <= k
  BY LeastNat
<1> QED
  BY <1>1 DEF Min

\* An argument is shorter than the line it is in.
LEMMA ArgIs ==
  ASSUME NEW line \in Seq(STRING)
  PROVE  /\ CommandOf(line) \in Seq(STRING) /\ ArgOf(line) \in Seq(STRING)
         /\ ArgOf(line) # <<>> => Len(ArgOf(line)) < Len(line)
<1> DEFINE I == {i \in 1 .. Len(line) : line[i] = SP}
           c == IF I # {} THEN Min(I) ELSE 0
           rest == SubSeq(line, Len(CommandOf(line)) + 1, Len(line))
           J == {i \in 1 .. Len(rest) : rest[i] # SP}
           a == IF J # {} THEN Min(J) ELSE 0
<1>1. CommandOf(line) = IF c = 0 THEN line ELSE SubSeq(line, 1, c - 1)
  BY DEF CommandOf, SelectInSeq
<1>2. ArgOf(line) = IF a = 0 THEN <<>> ELSE SubSeq(rest, a, Len(rest))
  BY DEF ArgOf, SelectInSeq
<1>3. c \in 0 .. Len(line) /\ (c # 0 => line[c] = SP) /\ (I # {} => c # 0)
  <2>1. I \in SUBSET Nat
    OBVIOUS
  <2>2. I # {} => Min(I) \in I
    BY <2>1, MinIs
  <2> QED
    BY <2>2
<1> HIDE DEF c
<1>4. CommandOf(line) \in Seq(STRING) /\ Len(CommandOf(line)) \in 0 .. Len(line)
  <2>1. c # 0 => /\ SubSeq(line, 1, c - 1) \in Seq(STRING)
                 /\ Len(SubSeq(line, 1, c - 1)) = c - 1
    BY <1>3
  <2>2. CASE c = 0
    BY <1>1, <2>2
  <2>3. CASE c # 0
    <3>1. CommandOf(line) = SubSeq(line, 1, c - 1)
      BY <1>1, <2>3
    <3>2. c - 1 \in 0 .. Len(line)
      BY <1>3, <2>3
    <3> QED
      BY <2>1, <2>3, <3>1, <3>2
  <2> QED
    BY <2>2, <2>3
<1>5. rest \in Seq(STRING) /\ Len(rest) = Len(line) - Len(CommandOf(line))
  BY <1>4
<1>6. a \in 0 .. Len(rest) /\ (a # 0 => rest[a] # SP)
  <2> HIDE DEF rest
  <2>1. J \in SUBSET Nat
    BY <1>5
  <2>2. J # {} => Min(J) \in J
    BY <2>1, MinIs
  <2> QED
    BY <2>2, <1>5
<1>7. Len(CommandOf(line)) = 0 => a # 1
  <2> SUFFICES ASSUME Len(CommandOf(line)) = 0, a = 1 PROVE FALSE
    OBVIOUS
  <2>1. rest[1] = line[1] /\ Len(line) > 0
    BY <1>4, <1>5, <1>6
  <2>2. c # 0 => Len(SubSeq(line, 1, c - 1)) = c - 1
    BY <1>3
  <2>3. c = 1
    BY <1>1, <1>3, <2>1, <2>2
  <2>4. line[1] = SP
    BY <1>3, <2>3
  <2>5. rest[1] # SP
    <3> HIDE DEF rest, a
    <3> QED
      BY <1>6
  <2> QED
    BY <2>1, <2>4, <2>5
<1> HIDE DEF rest, a
<1>8. a # 0 => /\ SubSeq(rest, a, Len(rest)) \in Seq(STRING)
               /\ Len(SubSeq(rest, a, Len(rest))) = Len(rest) - a + 1
  BY <1>5, <1>6
<1>9. ArgOf(line) \in Seq(STRING)
  <2>1. <<>> \in Seq(STRING)
    OBVIOUS
  <2> QED
    BY <1>2, <1>8, <2>1
<1>10. a # 0 => Len(rest) - a + 1 < Len(line)
  BY <1>4, <1>5, <1>6, <1>7
<1> QED
  BY <1>2, <1>4, <1>8, <1>9, <1>10

\* Words are taken off a line one by one.
LEMMA RestIs ==
  ASSUME NEW line \in Seq(STRING)
  PROVE  /\ Rest(line, 0) = line
         /\ \A i \in 1 .. Len(line) : Rest(line, i) = ArgOf(Rest(line, i - 1))
<1> DEFINE F(k, r) == [i \in 0 .. k |-> IF i = 0 THEN line ELSE ArgOf(r[i - 1])]
           K == {k \in Nat : \E r : r = F(k, r)}
<1>1. 0 \in K
  <2> DEFINE r == [i \in 0 .. 0 |-> line]
  <2>1. r = F(0, r)
    OBVIOUS
  <2> QED
    BY <2>1
<1>2. ASSUME NEW k \in Nat, k \in K PROVE k + 1 \in K
  <2>1. PICK r : r = F(k, r)
    BY <1>2
  <2> DEFINE s == [i \in 0 .. (k + 1) |-> IF i = k + 1 THEN ArgOf(r[k]) ELSE r[i]]
  <2>2. ASSUME NEW i \in 0 .. (k + 1)
        PROVE  s[i] = IF i = 0 THEN line ELSE ArgOf(s[i - 1])
    <3>1. CASE i = k + 1
      <4>1. s[i] = ArgOf(r[k]) /\ s[i - 1] = r[k] /\ i # 0
        BY <3>1
      <4> QED
        BY <3>1, <4>1
    <3>2. CASE i \in 0 .. k
      <4>1. s[i] = r[i] /\ (i # 0 => s[i - 1] = r[i - 1])
        BY <3>2
      <4>2. r[i] = IF i = 0 THEN line ELSE ArgOf(r[i - 1])
        BY <2>1, <3>2
      <4> QED
        BY <4>1, <4>2
    <3> QED
      BY <3>1, <3>2
  <2>3. s = F(k + 1, s)
    BY <2>2
  <2> HIDE DEF s, F
  <2> QED
    BY <2>3
<1>3. Len(line) \in K
  <2> HIDE DEF K
  <2> QED
    BY <1>1, <1>2, SetInduction
<1> DEFINE rest == CHOOSE r : r = F(Len(line), r)
<1>4. \A n : Rest(line, n) = rest[n]
  BY DEF Rest
<1>5. rest = F(Len(line), rest)
  BY <1>3
<1> HIDE DEF rest
<1>6. PICK n \in Nat : n = Len(line)
  OBVIOUS
<1>7. /\ 0 \in 0 .. n
      /\ \A i \in 1 .. n : i \in 0 .. n /\ i # 0
  BY <1>6
<1>8. \A i \in 0 .. n : rest[i] = IF i = 0 THEN line ELSE ArgOf(rest[i - 1])
  BY <1>5, <1>6
<1> QED
  BY <1>4, <1>6, <1>7, <1>8

-----------------------------------------------------------------------------
(* Children and growing trees *)

-----------------------------------------------------------------------------
(* Trees *)

\* The child at place i is the first of that name.
IsFirst(tree, parent, name, i) ==
  /\ i \in DOMAIN tree[parent].children
  /\ tree[tree[parent].children[i]].name = name
  /\ \A j \in 1 .. (i - 1) : tree[tree[parent].children[j]].name # name

\* It is the one vfs_find_child returns.
LEMMA FindChildIs ==
  ASSUME NEW tree, NEW parent, NEW name, tree[parent].children \in Seq(Nat)
  PROVE  /\ FindChild(tree, parent, name) # NULL =>
              \E i \in Nat : /\ IsFirst(tree, parent, name, i)
                             /\ FindChild(tree, parent, name) = tree[parent].children[i]
         /\ \A i \in Nat : IsFirst(tree, parent, name, i) =>
              FindChild(tree, parent, name) = tree[parent].children[i]
<1> DEFINE children == tree[parent].children
           I == {i \in 1 .. Len(children) : tree[children[i]].name = name}
           f == IF I # {} THEN Min(I) ELSE 0
<1>1. FindChild(tree, parent, name) = IF f = 0 THEN NULL ELSE children[f]
  BY DEF FindChild, SelectInSeq
<1>2. I \in SUBSET Nat /\ Len(children) \in Nat /\ DOMAIN children = 1 .. Len(children)
  OBVIOUS
<1>3. I # {} => Min(I) \in I /\ \A j \in I : Min(I) <= j
  BY <1>2, MinIs
<1>4. f # 0 => f \in Nat /\ IsFirst(tree, parent, name, f)
  <2> SUFFICES ASSUME f # 0 PROVE f \in Nat /\ IsFirst(tree, parent, name, f)
    OBVIOUS
  <2>1. f \in I /\ \A j \in I : f <= j
    BY <1>3
  <2> HIDE DEF f
  <2>2. f \in 1 .. Len(children) /\ tree[children[f]].name = name
    BY <2>1
  <2>3. ASSUME NEW j \in 1 .. (f - 1) PROVE tree[children[j]].name # name
    <3>1. j \in 1 .. Len(children) /\ ~(f <= j)
      BY <1>2, <2>2
    <3> QED
      BY <2>1, <3>1
  <2> QED
    BY <1>2, <2>2, <2>3 DEF IsFirst
<1>5. ASSUME NEW i \in Nat, IsFirst(tree, parent, name, i) PROVE f = i /\ i # 0
  <2>1. i \in I /\ i # 0
    BY <1>2, <1>5 DEF IsFirst
  <2>2. I # {} /\ f = Min(I) /\ f \in I /\ f <= i
    BY <1>3, <2>1
  <2> HIDE DEF f
  <2>3. f \in 1 .. Len(children) /\ tree[children[f]].name = name
    BY <2>2
  <2> HIDE DEF children, I
  <2>4. f \in Nat /\ f > 0
    BY <1>2, <2>3
  <2>5. f \in 1 .. (i - 1) => FALSE
    BY <1>5, <2>3 DEF IsFirst, children
  <2> QED
    BY <2>1, <2>2, <2>4, <2>5
<1> HIDE DEF f
<1> QED
  BY <1>1, <1>4, <1>5

\* A tree that has grown: nodes stay what they are, children come behind.
Grown(old, new) ==
  /\ Len(old) <= Len(new)
  /\ \A n \in DOMAIN old :
       /\ new[n].name = old[n].name /\ new[n].parent = old[n].parent
       /\ \A i \in DOMAIN old[n].children :
            i \in DOMAIN new[n].children /\ new[n].children[i] = old[n].children[i]

LEMMA TreeTypes ==
  ASSUME NEW tree, TreeOK(tree)
  PROVE  /\ Len(tree) \in Nat /\ DOMAIN tree = 1 .. Len(tree) /\ ROOT \in DOMAIN tree
         /\ \A n \in DOMAIN tree : n \in Nat /\ n # NULL /\ tree[n] \in Nodes
         /\ \A n \in DOMAIN tree : /\ tree[n].children \in Seq(Nat) /\ tree[n].parent \in Nat
                                   /\ Len(tree[n].children) \in Nat
                                   /\ DOMAIN tree[n].children = 1 .. Len(tree[n].children)
         /\ \A n \in DOMAIN tree \ {ROOT} : tree[n].parent \in DOMAIN tree
<1>1. tree \in Seq(Nodes) /\ Len(tree) \in Nat /\ Len(tree) > 0 /\ DOMAIN tree = 1 .. Len(tree)
  BY DEF TreeOK
<1>2. ROOT \in DOMAIN tree
  BY <1>1 DEF ROOT
<1>3. \A n \in DOMAIN tree : n \in Nat /\ n # NULL /\ tree[n] \in Nodes
  BY <1>1 DEF NULL
<1>4. \A n \in DOMAIN tree : tree[n].children \in Seq(Nat) /\ tree[n].parent \in Nat
  BY <1>3 DEF Nodes
<1>5. ASSUME NEW n \in DOMAIN tree \ {ROOT} PROVE tree[n].parent \in DOMAIN tree
  <2>1. tree[n].parent \in 0 .. (n - 1) /\ tree[n].parent # NULL
    BY DEF TreeOK
  <2>2. n \in 1 .. Len(tree)
    BY <1>1
  <2> QED
    BY <1>1, <2>1, <2>2 DEF NULL
<1> QED
  BY <1>1, <1>2, <1>3, <1>4, <1>5

LEMMA GrownReached ==
  ASSUME NEW old, NEW new, TreeOK(old), TreeOK(new), Grown(old, new),
         NEW among \in SUBSET DOMAIN old, Reached(old, among)
  PROVE  among \in SUBSET DOMAIN new /\ Reached(new, among)
<1>1. DOMAIN old \subseteq DOMAIN new
  BY TreeTypes DEF Grown
<1>2. ASSUME NEW n \in among \ {ROOT}
      PROVE  new[n].parent \in among /\ FindChild(new, new[n].parent, new[n].name) = n
  <2>1. PICK p, name : p = old[n].parent /\ name = old[n].name
    OBVIOUS
  <2>2. p \in among /\ FindChild(old, p, name) = n /\ p \in DOMAIN old /\ n # NULL
    BY <2>1, TreeTypes DEF Reached
  <2>3. new[n].parent = p /\ new[n].name = name
    BY <2>1 DEF Grown
  <2>4. old[p].children \in Seq(Nat) /\ new[p].children \in Seq(Nat)
    BY <1>1, <2>2, TreeTypes
  <2>5. PICK i \in Nat : IsFirst(old, p, name, i) /\ n = old[p].children[i]
    BY <2>2, <2>4, FindChildIs
  <2>6. \A j \in 1 .. i : /\ j \in DOMAIN old[p].children
                          /\ new[p].children[j] = old[p].children[j]
                          /\ new[new[p].children[j]].name = old[old[p].children[j]].name
    <3> TAKE j \in 1 .. i
    <3>1. DOMAIN old[p].children = 1 .. Len(old[p].children) /\ Len(old[p].children) \in Nat
      BY <2>4
    <3>2. i \in DOMAIN old[p].children
      BY <2>5 DEF IsFirst
    <3>3. j \in DOMAIN old[p].children
      BY <3>1, <3>2
    <3>4. old[p].children[j] \in DOMAIN old
      BY <2>2, <3>3 DEF TreeOK
    <3> QED
      BY <2>2, <3>3, <3>4 DEF Grown
  <2>7. i \in 1 .. i /\ \A j \in 1 .. (i - 1) : j \in 1 .. i
    BY <2>4, <2>5 DEF IsFirst
  <2>8. i \in DOMAIN new[p].children
    BY <2>2, <2>6, <2>7 DEF Grown
  <2>9. IsFirst(new, p, name, i)
    BY <2>5, <2>6, <2>7, <2>8 DEF IsFirst
  <2>10. FindChild(new, p, name) = n
    BY <2>4, <2>5, <2>6, <2>7, <2>9, FindChildIs
  <2> QED
    BY <2>2, <2>3, <2>10
<1> QED
  BY <1>1, <1>2 DEF Reached

-----------------------------------------------------------------------------
(* vfs_alloc_node, vfs_mkdir and vfs_create_file *)

\* What vfs_alloc_node returns, where there is room for a node.
LEMMA Allocated ==
  ASSUME NEW tree, TreeOK(tree), Len(tree) # ROOM, NEW parent \in DOMAIN tree,
         NEW name \in Names, NEW type \in {"dir", "file"},
         NEW made, made = AllocNode(tree, name, type, parent)
  PROVE  /\ made.node = Len(tree) + 1 /\ made.node \in DOMAIN made.tree
         /\ TreeOK(made.tree) /\ Grown(tree, made.tree)
<1> DEFINE id == Len(tree) + 1
           room == parent # NULL /\ HasRoom(tree[parent])
           linked == IF room THEN [tree EXCEPT ![parent].children = Append(@, id)] ELSE tree
           node == Node(name, type, parent)
           new == Append(linked, node)
<1>1. made = [tree |-> new, node |-> id]
  BY DEF AllocNode
<1>2. /\ tree \in Seq(Nodes) /\ Len(tree) \in Nat /\ DOMAIN tree = 1 .. Len(tree)
      /\ id \in Nat /\ id <= ROOM /\ ROOT \in DOMAIN tree /\ parent \in Nat /\ parent # NULL
  <2>1. ROOM \in Nat
    BY VfsAssumption
  <2> QED
    BY <2>1, TreeTypes DEF TreeOK
<1>3. node \in Nodes /\ node.parent = parent /\ node.children = <<>>
  <2>1. <<>> \in Seq(Nat)
    OBVIOUS
  <2> QED
    BY <1>2, <2>1 DEF Node, Nodes, Texts
<1>4. /\ linked \in Seq(Nodes) /\ Len(linked) = Len(tree)
      /\ \A n \in DOMAIN tree :
           /\ linked[n].name = tree[n].name /\ linked[n].type = tree[n].type
           /\ linked[n].parent = tree[n].parent
           /\ linked[n].children = IF room /\ n = parent THEN Append(tree[n].children, id)
                                   ELSE tree[n].children
  <2> HIDE DEF id
  <2>1. tree[parent] \in Nodes /\ Append(tree[parent].children, id) \in Seq(Nat)
    <3>1. tree[parent] \in Nodes /\ tree[parent].children \in Seq(Nat)
      BY TreeTypes
    <3> QED
      BY <1>2, <3>1
  <2>2. [tree[parent] EXCEPT !.children = Append(@, id)] \in Nodes
    BY <2>1 DEF Nodes
  <2>3. CASE room
    <3>1. linked = [tree EXCEPT ![parent] = [tree[parent] EXCEPT !.children = Append(@, id)]]
      BY <2>3
    <3> HIDE DEF linked, room, id
    <3>2. linked \in Seq(Nodes) /\ Len(linked) = Len(tree)
      BY <1>2, <2>2, <3>1
    <3>3. linked[parent] = [tree[parent] EXCEPT !.children = Append(@, id)]
      BY <1>2, <3>1
    <3>4. ASSUME NEW n \in DOMAIN tree, n # parent PROVE linked[n] = tree[n]
      BY <1>2, <3>1, <3>4
    <3> QED
      BY <2>1, <2>3, <3>2, <3>3, <3>4 DEF Nodes
  <2>4. CASE ~room
    <3>1. linked = tree
      BY <2>4
    <3> QED
      BY <1>2, <2>4, <3>1
  <2> QED
    BY <2>3, <2>4
<1> HIDE DEF linked, node
<1>5. /\ new \in Seq(Nodes) /\ Len(new) = id /\ DOMAIN new = 1 .. id
      /\ new[id] = node /\ \A n \in DOMAIN tree : new[n] = linked[n]
  <2>1. Len(linked) = Len(tree) /\ linked \in Seq(Nodes)
    BY <1>4
  <2>2. /\ new \in Seq(Nodes) /\ Len(new) = Len(linked) + 1 /\ new[Len(linked) + 1] = node
        /\ \A n \in 1 .. Len(linked) : new[n] = linked[n]
    BY <1>3, <2>1, AppendProperties
  <2> HIDE DEF new
  <2>3. DOMAIN new = 1 .. Len(new)
    BY <2>2
  <2> QED
    BY <1>2, <2>1, <2>2, <2>3
<1> HIDE DEF new
<1>6. \A n \in DOMAIN tree :
        /\ new[n].name = tree[n].name /\ new[n].type = tree[n].type
        /\ new[n].parent = tree[n].parent
        /\ new[n].children = IF room /\ n = parent THEN Append(tree[n].children, id)
                             ELSE tree[n].children
  BY <1>4, <1>5
<1>7. ASSUME NEW n \in DOMAIN tree, NEW i \in DOMAIN new[n].children
      PROVE  IF i \in DOMAIN tree[n].children
             THEN new[n].children[i] = tree[n].children[i]
             ELSE n = parent /\ new[n].children[i] = id
  <2>1. tree[n].children \in Seq(Nat) /\ DOMAIN tree[n].children = 1 .. Len(tree[n].children)
    BY TreeTypes
  <2>2. CASE room /\ n = parent
    <3>1. new[n].children = Append(tree[n].children, id)
      BY <1>6, <2>2
    <3> HIDE DEF id, room
    <3> QED
      BY <1>2, <1>7, <2>1, <2>2, <3>1
  <2>3. CASE ~(room /\ n = parent)
    <3>1. new[n].children = tree[n].children
      BY <1>6, <2>3
    <3> QED
      BY <1>7, <3>1
  <2> QED
    BY <2>2, <2>3
<1>8. ASSUME NEW n \in DOMAIN tree
      PROVE  /\ Len(new[n].children) <= VFS_MAX_CHILDREN
             /\ \A i \in DOMAIN tree[n].children :
                  i \in DOMAIN new[n].children /\ new[n].children[i] = tree[n].children[i]
  <2>1. tree[n].children \in Seq(Nat) /\ Len(tree[n].children) <= VFS_MAX_CHILDREN
    BY TreeTypes DEF TreeOK
  <2>2. VFS_MAX_CHILDREN \in Nat
    BY VfsAssumption
  <2>3. CASE room /\ n = parent
    <3>1. new[n].children = Append(tree[n].children, id)
      BY <1>6, <2>3
    <3>2. Len(tree[n].children) < VFS_MAX_CHILDREN
      BY <2>3 DEF HasRoom
    <3>3. Len(tree[n].children) \in Nat
      BY <2>1
    <3> QED
      BY SMTT(30), <1>2, <2>1, <2>2, <3>1, <3>2, <3>3
  <2>4. CASE ~(room /\ n = parent)
    <3>1. new[n].children = tree[n].children
      BY <1>6, <2>4
    <3> QED
      BY <2>1, <3>1
  <2> QED
    BY <2>3, <2>4
<1> HIDE DEF room
<1>9. ASSUME NEW n \in DOMAIN new
      PROVE  /\ new[n].parent \in 0 .. (n - 1)
             /\ new[n].parent = NULL <=> n = ROOT
             /\ Len(new[n].children) <= VFS_MAX_CHILDREN
             /\ \A i \in DOMAIN new[n].children :
                  /\ new[n].children[i] \in DOMAIN new
                  /\ new[new[n].children[i]].parent = n
  <2>1. CASE n = id
    <3>1. new[n].parent = parent /\ new[n].children = <<>>
      BY <1>3, <1>5, <2>1
    <3>2. parent \in 0 .. (id - 1) /\ id # ROOT
      BY <1>2
    <3>3. VFS_MAX_CHILDREN \in Nat /\ Len(<<>>) = 0 /\ DOMAIN <<>> = {}
      BY VfsAssumption
    <3> QED
      BY <1>2, <2>1, <3>1, <3>2, <3>3
  <2>2. CASE n # id
    <3>1. n \in DOMAIN tree
      BY <1>2, <1>5, <2>2
    <3>2. new[n].parent \in 0 .. (n - 1) /\ (new[n].parent = NULL <=> n = ROOT)
      BY <1>6, <3>1 DEF TreeOK
    <3>3. ASSUME NEW i \in DOMAIN new[n].children
          PROVE  /\ new[n].children[i] \in DOMAIN new
                 /\ new[new[n].children[i]].parent = n
      <4>1. CASE i \in DOMAIN tree[n].children
        <5>1. PICK c : c = tree[n].children[i]
          OBVIOUS
        <5>2. c \in DOMAIN tree /\ tree[c].parent = n
          BY <3>1, <4>1, <5>1 DEF TreeOK
        <5>3. new[n].children[i] = c
          BY <1>7, <3>1, <4>1, <5>1
        <5>4. c \in DOMAIN new
          BY <1>2, <1>5, <5>2
        <5> QED
          BY <1>6, <5>2, <5>3, <5>4
      <4>2. CASE i \notin DOMAIN tree[n].children
        <5>1. n = parent /\ new[n].children[i] = id
          BY <1>7, <3>1, <4>2
        <5>2. id \in DOMAIN new /\ new[id].parent = parent
          BY <1>2, <1>3, <1>5
        <5> QED
          BY <5>1, <5>2
      <4> QED
        BY <4>1, <4>2
    <3> QED
      BY <1>8, <3>1, <3>2, <3>3
  <2> QED
    BY <2>1, <2>2
<1>10. TreeOK(new)
  <2>1. new[ROOT].type = "dir"
    BY <1>2, <1>6 DEF TreeOK
  <2>2. Len(new) \in 1 .. ROOM
    <3>1. ROOM \in Nat
      BY VfsAssumption
    <3> HIDE DEF id
    <3>2. id \in 1 .. ROOM
      <4>1. id >= 1
        BY <1>2 DEF id
      <4>2. id \in Nat /\ id <= ROOM
        BY <1>2
      <4> QED
        BY <3>1, <4>1, <4>2
    <3> QED
      BY <1>5, <3>2
  <2> QED
    BY <1>5, <1>9, <2>1, <2>2 DEF TreeOK
<1>11. Grown(tree, new)
  BY <1>2, <1>5, <1>6, <1>8 DEF Grown
<1>12. made.tree = new /\ made.node = id /\ id \in DOMAIN new
  BY <1>1, <1>2, <1>5
<1> QED
  BY <1>10, <1>11, <1>12

\* The contents of a file make no difference to the tree.
LEMMA ContentKeepsTree ==
  ASSUME NEW tree, TreeOK(tree), NEW n \in DOMAIN tree, NEW content \in Texts,
         NEW new, new = [tree EXCEPT ![n].content = content]
  PROVE  TreeOK(new) /\ Grown(tree, new) /\ Len(new) = Len(tree)
<1>1. tree \in Seq(Nodes) /\ tree[n] \in Nodes /\ DOMAIN tree = 1 .. Len(tree) /\ Len(tree) \in Nat
  BY TreeTypes DEF TreeOK
<1>2. PICK node : node = [tree[n] EXCEPT !.content = content]
  OBVIOUS
<1>3. /\ node \in Nodes /\ node.name = tree[n].name /\ node.type = tree[n].type
      /\ node.parent = tree[n].parent /\ node.children = tree[n].children
  BY <1>1, <1>2 DEF Nodes
<1>4. new = [tree EXCEPT ![n] = node]
  BY <1>2
<1>5. /\ new \in Seq(Nodes) /\ Len(new) = Len(tree) /\ DOMAIN new = DOMAIN tree
      /\ new[n] = node /\ \A k \in DOMAIN tree : k # n => new[k] = tree[k]
  BY <1>1, <1>3, <1>4
<1>6. \A k \in DOMAIN tree : /\ new[k].name = tree[k].name /\ new[k].type = tree[k].type
                             /\ new[k].parent = tree[k].parent
                             /\ new[k].children = tree[k].children
  BY <1>3, <1>5
<1>7. Grown(tree, new)
  BY <1>1, <1>5, <1>6 DEF Grown
<1>8. ROOT \in DOMAIN tree
  BY TreeTypes
<1>9. new[ROOT].type = "dir" /\ Len(new) \in 1 .. ROOM
  BY <1>5, <1>6, <1>8 DEF TreeOK
<1>10. ASSUME NEW k \in DOMAIN new
       PROVE  /\ new[k].parent \in 0 .. (k - 1)
              /\ new[k].parent = NULL <=> k = ROOT
              /\ Len(new[k].children) <= VFS_MAX_CHILDREN
              /\ \A i \in DOMAIN new[k].children :
                   /\ new[k].children[i] \in DOMAIN new
                   /\ new[new[k].children[i]].parent = k
  BY <1>5, <1>6 DEF TreeOK
<1> QED
  BY <1>5, <1>7, <1>9, <1>10 DEF TreeOK

\* vfs_mkdir and vfs_create_file keep the tree, whether there is room or not.
LEMMA MadeKeepsTree ==
  ASSUME NEW tree, TreeOK(tree), NEW parent, parent \in DOMAIN tree \/ Len(tree) = ROOM,
         NEW name \in Names, NEW content \in Texts,
         NEW made, made \in {Mkdir(tree, parent, name), CreateFile(tree, parent, name, content)}
  PROVE  /\ TreeOK(made.tree) /\ Grown(tree, made.tree)
         /\ made.node \in DOMAIN made.tree \/ (made.node = NULL /\ Len(made.tree) = ROOM)
<1>1. NameCopy[name] \in Names
  BY VfsAssumption
<1>2. PICK type \in {"dir", "file"} :
        made = LET new == AllocNode(tree, NameCopy[name], type, parent)
               IN  IF type = "dir" \/ new.node = NULL THEN new
                   ELSE [new EXCEPT !.tree[new.node].content = content]
  BY DEF Mkdir, CreateFile
<1>3. PICK new : new = AllocNode(tree, NameCopy[name], type, parent)
  OBVIOUS
<1>4. CASE Len(tree) = ROOM
  <2>1. new = [tree |-> tree, node |-> NULL]
    BY <1>3, <1>4 DEF AllocNode
  <2>2. made = new
    BY <1>2, <1>3, <2>1
  <2>3. Grown(tree, tree)
    BY TreeTypes DEF Grown
  <2> QED
    BY <1>4, <2>1, <2>2, <2>3
<1>5. CASE Len(tree) # ROOM
  <2>1. /\ new.node = Len(tree) + 1 /\ new.node \in DOMAIN new.tree
        /\ TreeOK(new.tree) /\ Grown(tree, new.tree)
    BY <1>1, <1>3, <1>5, Allocated
  <2>2. new = [tree |-> new.tree, node |-> new.node]
    BY <1>3, <1>5 DEF AllocNode
  <2>3. CASE made = new
    BY <2>1, <2>3
  <2>4. CASE made # new
    <3>1. PICK t, n, u : t = new.tree /\ n = new.node /\ u = [t EXCEPT ![n].content = content]
      OBVIOUS
    <3>2. made.tree = u /\ made.node = n
      BY <1>2, <1>3, <2>2, <2>4, <3>1
    <3>3. TreeOK(u) /\ Grown(t, u) /\ Len(u) = Len(t)
      BY <2>1, <3>1, ContentKeepsTree
    <3>4. n \in DOMAIN u
      BY <2>1, <3>1
    <3>5. Grown(tree, u)
      <4>1. Grown(tree, t)
        BY <2>1, <3>1
      <4>2. Len(tree) \in Nat /\ Len(t) \in Nat /\ DOMAIN tree \subseteq DOMAIN t
        BY <2>1, <3>1, <4>1, TreeTypes DEF Grown
      <4> QED
        BY <3>3, <4>1, <4>2 DEF Grown
    <3> QED
      BY <3>2, <3>3, <3>4, <3>5
  <2> QED
    BY <2>3, <2>4
<1> QED
  BY <1>4, <1>5

-----------------------------------------------------------------------------
(* vfs_init, and the path of a node *)

\* The tree of vfs_init, as much of it as the heap has room for.
LEMMA BootTreeOK == TreeOK(BootTree)
<1> DEFINE root   == AllocNode(<<>>, "/", "dir", NULL)
           kernel == Mkdir(root.tree, root.node, "kernel")
           shell  == Mkdir(kernel.tree, root.node, "shell")
           readme == CreateFile(shell.tree, kernel.node, "README", "kernel space")
           last   == CreateFile(readme.tree, shell.node, "README", "shell space")
<1>1. BootTree = last.tree
  BY DEF BootTree
<1>2. ROOM \in Nat /\ ROOM # 0 /\ VFS_MAX_CHILDREN \in Nat /\ {"kernel", "shell", "README"} \subseteq Names
  BY VfsAssumption
<1>3. root = [tree |-> <<Node("/", "dir", NULL)>>, node |-> 1]
  <2>1. Len(<<>>) = 0 /\ Append(<<>>, Node("/", "dir", NULL)) = <<Node("/", "dir", NULL)>>
    OBVIOUS
  <2> QED
    BY <1>2, <2>1 DEF AllocNode
<1>4. TreeOK(root.tree) /\ root.node \in DOMAIN root.tree
  <2>1. PICK node : node = Node("/", "dir", NULL)
    OBVIOUS
  <2>2. PICK tree : tree = <<node>> /\ tree = root.tree
    BY <1>3, <2>1
  <2>3. node \in Nodes /\ node.parent = 0 /\ node.type = "dir" /\ node.children = <<>>
    <3>1. <<>> \in Seq(Nat)
      OBVIOUS
    <3> QED
      BY <2>1, <3>1 DEF Node, Nodes, NULL, Texts
  <2>4. tree \in Seq(Nodes) /\ Len(tree) = 1 /\ DOMAIN tree = {1} /\ tree[1] = node
    BY <2>2, <2>3
  <2>5. Len(<<>>) = 0 /\ DOMAIN <<>> = {}
    OBVIOUS
  <2>6. 1 \in 1 .. ROOM /\ 0 \in 0 .. (1 - 1)
    BY <1>2
  <2>7. TreeOK(tree)
    BY <1>2, <2>3, <2>4, <2>5, <2>6 DEF TreeOK, ROOT, NULL
  <2> QED
    BY <1>3, <2>2, <2>4, <2>7
<1> HIDE DEF root
<1>5. /\ TreeOK(kernel.tree) /\ Grown(root.tree, kernel.tree)
      /\ kernel.node \in DOMAIN kernel.tree \/ (kernel.node = NULL /\ Len(kernel.tree) = ROOM)
  BY <1>2, <1>4, MadeKeepsTree DEF Texts
<1> HIDE DEF kernel
<1>6. root.node \in DOMAIN kernel.tree
  BY <1>4, <1>5, TreeTypes DEF Grown
<1>7. /\ TreeOK(shell.tree) /\ Grown(kernel.tree, shell.tree)
      /\ shell.node \in DOMAIN shell.tree \/ (shell.node = NULL /\ Len(shell.tree) = ROOM)
  BY <1>2, <1>5, <1>6, MadeKeepsTree DEF Texts
<1> HIDE DEF shell
<1>8. ASSUME NEW old, NEW new, NEW node, TreeOK(old), TreeOK(new), Grown(old, new),
             node \in DOMAIN old \/ Len(old) = ROOM
      PROVE  node \in DOMAIN new \/ Len(new) = ROOM
  <2>1. /\ Len(old) \in Nat /\ DOMAIN old = 1 .. Len(old) /\ Len(new) \in Nat
        /\ DOMAIN new = 1 .. Len(new) /\ Len(old) <= Len(new) /\ Len(new) <= ROOM
    <3>1. Len(new) \in 1 .. ROOM /\ Len(old) <= Len(new)
      BY <1>8 DEF TreeOK, Grown
    <3> QED
      BY <1>2, <1>8, <3>1, TreeTypes
  <2>2. CASE node \in DOMAIN old
    BY <2>1, <2>2
  <2>3. CASE Len(old) = ROOM
    <3>1. PICK a \in Nat, b \in Nat : a = Len(old) /\ b = Len(new)
      BY <2>1
    <3>2. a = ROOM /\ a <= b /\ b <= ROOM
      BY <2>1, <2>3, <3>1
    <3>3. b = ROOM
      BY <1>2, <3>2
    <3> QED
      BY <3>1, <3>3
  <2> QED
    BY <1>8, <2>2, <2>3
<1>9. kernel.node \in DOMAIN shell.tree \/ Len(shell.tree) = ROOM
  BY <1>5, <1>7, <1>8
<1>10. TreeOK(readme.tree) /\ Grown(shell.tree, readme.tree)
  BY <1>2, <1>7, <1>9, MadeKeepsTree DEF Texts
<1> HIDE DEF readme
<1>11. shell.node \in DOMAIN readme.tree \/ Len(readme.tree) = ROOM
  BY <1>7, <1>8, <1>10
<1>12. TreeOK(last.tree)
  BY <1>2, <1>10, <1>11, MadeKeepsTree DEF Texts
<1> QED
  BY <1>1, <1>12

-----------------------------------------------------------------------------
(* The path *)

\* The names on the way down, as print_path_recursive prints them.
LEMMA PathIs ==
  ASSUME NEW tree, TreeOK(tree), NEW n \in DOMAIN tree
  PROVE  Path(tree, n) = IF n = ROOT THEN <<>>
                         ELSE Append(Path(tree, tree[n].parent), tree[n].name)
<1> DEFINE Step(k, p) == IF tree[k].parent = NULL THEN <<>>
                         ELSE Append(p[tree[k].parent], tree[k].name)
           F(m, p) == [k \in 1 .. m |-> Step(k, p)]
           K == {m \in Nat : m <= Len(tree) => \E p : p = F(m, p)}
<1>1. Len(tree) \in Nat /\ DOMAIN tree = 1 .. Len(tree)
  BY TreeTypes
<1>2. 0 \in K
  <2>1. <<>> = F(0, <<>>)
    OBVIOUS
  <2> QED
    BY <2>1
<1>3. ASSUME NEW m \in Nat, m \in K PROVE m + 1 \in K
  <2> SUFFICES ASSUME m + 1 <= Len(tree) PROVE \E p : p = F(m + 1, p)
    OBVIOUS
  <2>1. PICK p : p = F(m, p)
    BY <1>1, <1>3
  <2> DEFINE q == [k \in 1 .. (m + 1) |-> IF k = m + 1 THEN Step(k, p) ELSE p[k]]
  <2>2. ASSUME NEW k \in 1 .. (m + 1) PROVE q[k] = Step(k, q)
    <3>1. k \in DOMAIN tree
      BY <1>1
    <3>2. tree[k].parent # NULL => tree[k].parent \in 1 .. m
      <4>1. tree[k].parent \in 0 .. (k - 1)
        BY <3>1 DEF TreeOK
      <4>2. k \in Nat /\ k <= m + 1
        OBVIOUS
      <4> QED
        BY <4>1, <4>2 DEF NULL
    <3>3. tree[k].parent # NULL => q[tree[k].parent] = p[tree[k].parent]
      BY <3>2
    <3>4. Step(k, q) = Step(k, p)
      BY <3>3
    <3>5. k # m + 1 => p[k] = Step(k, p)
      <4> SUFFICES ASSUME k # m + 1 PROVE p[k] = Step(k, p)
        OBVIOUS
      <4>1. k \in 1 .. m
        OBVIOUS
      <4> HIDE DEF Step
      <4> QED
        BY <2>1, <4>1
    <3> HIDE DEF Step
    <3> QED
      BY <3>4, <3>5
  <2> HIDE DEF Step
  <2>3. q = F(m + 1, q)
    BY <2>2
  <2> HIDE DEF q, F
  <2> QED
    BY <2>3
<1>4. \E p : p = F(Len(tree), p)
  <2>1. Nat \subseteq K
    <3> HIDE DEF K
    <3> QED
      BY <1>2, <1>3, SetInduction
  <2>2. Len(tree) \in K /\ Len(tree) <= Len(tree)
    <3> HIDE DEF K
    <3> QED
      BY <1>1, <2>1
  <2> HIDE DEF F
  <2> QED
    BY <2>2
<1> DEFINE path == CHOOSE p : p = F(Len(tree), p)
<1>5. path = F(Len(tree), path)
  BY <1>4
<1>6. \A k : Path(tree, k) = path[k]
  BY <1>1 DEF Path
<1>7. path[n] = Step(n, path)
  <2> HIDE DEF path, Step
  <2> QED
    BY <1>1, <1>5
<1>8. tree[n].parent = NULL <=> n = ROOT
  BY DEF TreeOK
<1> HIDE DEF path
<1> QED
  BY <1>6, <1>7, <1>8

-----------------------------------------------------------------------------
(* Following a path *)

\* One name of a path.
Down(tree, node, name) == IF node = NULL THEN NULL ELSE FindChild(tree, node, name)

\* Following a path name by name.
LEMMA FollowIs ==
  ASSUME NEW tree, NEW path, NEW n \in Nat, DOMAIN path = 1 .. n, NEW g, g[0] = ROOT,
         \A i \in 1 .. n : g[i] = Down(tree, g[i - 1], path[i])
  PROVE  Follow(tree, path) = g[n]
<1> DEFINE Step(T, f) == IF T = {} THEN ROOT ELSE Down(tree, f[T \ {Max(T)}], path[Max(T)])
           F(m, f) == [T \in SUBSET (1 .. m) |-> Step(T, f)]
           K == {m \in Nat : \E f : f = F(m, f)}
           iter == CHOOSE f : f = F(n, f)
<1>1. Follow(tree, path) = iter[1 .. n]
  BY DEF Follow, FoldLeft, MapThenFoldSet, Down
<1>2. \A m \in Nat : \A T \in SUBSET (1 .. (m + 1)) : m + 1 \in T => Max(T) = m + 1
  <2> SUFFICES ASSUME NEW m \in Nat, NEW T \in SUBSET (1 .. (m + 1)), m + 1 \in T
               PROVE  Max(T) = m + 1
    OBVIOUS
  <2>1. \A y \in T : y \in Int /\ m + 1 >= y
    OBVIOUS
  <2>2. \A x \in T : (\A y \in T : x >= y) => x = m + 1
    BY <2>1
  <2> QED
    BY <2>1, <2>2 DEF Max
<1>3. 0 \in K
  <2> DEFINE f == [T \in SUBSET (1 .. 0) |-> ROOT]
  <2>1. \A T \in SUBSET (1 .. 0) : T = {}
    OBVIOUS
  <2>2. f = F(0, f)
    BY <2>1
  <2> QED
    BY <2>2
<1>4. ASSUME NEW m \in Nat, m \in K PROVE m + 1 \in K
  <2>1. PICK f : f = F(m, f)
    BY <1>4
  <2> DEFINE h == [T \in SUBSET (1 .. (m + 1)) |->
                     IF m + 1 \in T THEN Down(tree, f[T \ {m + 1}], path[m + 1]) ELSE f[T]]
  <2>2. ASSUME NEW T \in SUBSET (1 .. (m + 1)) PROVE h[T] = Step(T, h)
    <3>1. CASE m + 1 \in T
      <4>1. Max(T) = m + 1 /\ T # {}
        BY <1>2, <3>1
      <4>2. T \ {m + 1} \in SUBSET (1 .. (m + 1)) /\ m + 1 \notin T \ {m + 1}
        OBVIOUS
      <4>3. h[T \ {m + 1}] = f[T \ {m + 1}]
        BY <4>2
      <4>4. h[T] = Down(tree, f[T \ {m + 1}], path[m + 1])
        BY <3>1
      <4> HIDE DEF h
      <4> QED
        BY <4>1, <4>3, <4>4
    <3>2. CASE m + 1 \notin T
      <4>1. T \in SUBSET (1 .. m)
        BY <3>2
      <4>2. h[T] = f[T]
        BY <3>2
      <4>3. f[T] = Step(T, f)
        <5> HIDE DEF Step
        <5> QED
          BY <2>1, <4>1
      <4>4. T # {} => h[T \ {Max(T)}] = f[T \ {Max(T)}]
        <5>1. T \ {Max(T)} \in SUBSET (1 .. (m + 1)) /\ m + 1 \notin T \ {Max(T)}
          BY <3>2
        <5> QED
          BY <5>1
      <4> HIDE DEF h
      <4> QED
        BY <4>2, <4>3, <4>4
    <3> QED
      BY <3>1, <3>2
  <2> HIDE DEF Step
  <2>3. h = F(m + 1, h)
    BY <2>2
  <2> HIDE DEF h, F
  <2> QED
    BY <2>3
<1>5. iter = F(n, iter)
  <2>1. n \in K
    <3> HIDE DEF K
    <3> QED
      BY <1>3, <1>4, SetInduction
  <2> HIDE DEF F
  <2> QED
    BY <2>1
<1> HIDE DEF iter
<1>6. \A T \in SUBSET (1 .. n) : iter[T] = Step(T, iter)
  <2> HIDE DEF Step
  <2> QED
    BY <1>5
<1> DEFINE I == {m \in Nat : m <= n => iter[1 .. m] = g[m]}
<1>7. 0 \in I
  <2>1. 1 .. 0 = {} /\ {} \in SUBSET (1 .. n)
    OBVIOUS
  <2>2. iter[{}] = ROOT
    BY <1>6, <2>1
  <2> QED
    BY <2>1, <2>2
<1>8. ASSUME NEW m \in Nat, m \in I PROVE m + 1 \in I
  <2> SUFFICES ASSUME m + 1 <= n PROVE iter[1 .. (m + 1)] = g[m + 1]
    OBVIOUS
  <2>1. PICK T : T = 1 .. (m + 1)
    OBVIOUS
  <2>2. T \in SUBSET (1 .. n) /\ T # {} /\ m + 1 \in T /\ T \in SUBSET (1 .. (m + 1))
    <3>1. m + 1 \in 1 .. (m + 1) /\ 1 .. (m + 1) \subseteq 1 .. n
      OBVIOUS
    <3> QED
      BY <2>1, <3>1
  <2>3. Max(T) = m + 1
    BY <1>2, <2>2
  <2>4. T \ {m + 1} = 1 .. m
    BY <2>1
  <2>5. iter[T] = Down(tree, iter[1 .. m], path[m + 1])
    BY <1>6, <2>2, <2>3, <2>4
  <2>6. iter[1 .. m] = g[m]
    BY <1>8
  <2>7. m + 1 \in 1 .. n /\ (m + 1) - 1 = m
    OBVIOUS
  <2>8. g[m + 1] = Down(tree, g[m], path[m + 1])
    BY <2>7
  <2> QED
    BY <2>1, <2>5, <2>6, <2>8
<1>9. n \in I
  <2> HIDE DEF I
  <2> QED
    BY <1>7, <1>8, SetInduction
<1>10. n <= n
  OBVIOUS
<1> QED
  BY <1>1, <1>9, <1>10

\* The path of a node that can be reached leads to it, name by name.
Leads(tree, node, n, g) ==
  /\ Path(tree, node) \in Seq(Names \cup {"/"}) /\ Len(Path(tree, node)) = n
  /\ g[0] = ROOT /\ g[n] = node
  /\ \A i \in 1 .. n : g[i] = Down(tree, g[i - 1], Path(tree, node)[i])

LEMMA ReachedLeads ==
  ASSUME NEW tree, TreeOK(tree), NEW among \in SUBSET DOMAIN tree, Reached(tree, among)
  PROVE  \A node \in among : \E n \in Nat : \E g : Leads(tree, node, n, g)
<1> DEFINE K == {m \in Nat : \A node \in among :
                   node <= m => \E n \in Nat : \E g : Leads(tree, node, n, g)}
<1>1. \A node \in among : node \in Nat /\ node > 0 /\ node \in DOMAIN tree
  BY TreeTypes DEF NULL
<1>2. 0 \in K
  BY <1>1
<1>3. ASSUME NEW m \in Nat, m \in K PROVE m + 1 \in K
  <2> SUFFICES ASSUME NEW node \in among, node <= m + 1
               PROVE  \E n \in Nat : \E g : Leads(tree, node, n, g)
    OBVIOUS
  <2>1. CASE node = ROOT
    <3>1. Path(tree, node) = <<>>
      BY <1>1, <2>1, PathIs
    <3> DEFINE g == [i \in {0} |-> ROOT]
    <3>2. Leads(tree, node, 0, g)
      BY <2>1, <3>1 DEF Leads
    <3> QED
      BY <3>2
  <2>2. CASE node # ROOT
    <3>1. PICK p, name : p = tree[node].parent /\ name = tree[node].name
      OBVIOUS
    <3>2. p \in among /\ FindChild(tree, p, name) = node
      BY <2>2, <3>1 DEF Reached
    <3>3. p <= m /\ p # NULL
      <4>1. p \in 0 .. (node - 1)
        BY <1>1, <3>1 DEF TreeOK
      <4> QED
        BY <1>1, <3>2, <4>1 DEF NULL
    <3>4. PICK n \in Nat : \E g : Leads(tree, p, n, g)
      BY <1>3, <3>2, <3>3
    <3>5. PICK g : Leads(tree, p, n, g)
      BY <3>4
    <3>6. PICK up, path : up = Path(tree, p) /\ path = Path(tree, node)
      OBVIOUS
    <3>7. path = Append(up, name)
      BY <1>1, <2>2, <3>1, <3>6, PathIs
    <3>8. name \in Names \cup {"/"}
      BY <1>1, <3>1, TreeTypes DEF Nodes
    <3>9. up \in Seq(Names \cup {"/"}) /\ Len(up) = n
      BY <3>5, <3>6 DEF Leads
    <3>10. /\ path \in Seq(Names \cup {"/"}) /\ Len(path) = n + 1
           /\ path[n + 1] = name /\ \A i \in 1 .. n : path[i] = up[i]
      BY <3>7, <3>8, <3>9
    <3> DEFINE h == [i \in 0 .. (n + 1) |-> IF i = n + 1 THEN node ELSE g[i]]
    <3>11. ASSUME NEW i \in 1 .. (n + 1) PROVE h[i] = Down(tree, h[i - 1], path[i])
      <4>1. CASE i = n + 1
        <5>1. h[i] = node /\ h[i - 1] = g[n] /\ path[i] = name
          BY <3>10, <4>1
        <5>2. g[n] = p
          BY <3>5 DEF Leads
        <5>3. Down(tree, p, name) = node
          BY <3>2, <3>3 DEF Down
        <5> HIDE DEF h
        <5> QED
          BY <5>1, <5>2, <5>3
      <4>2. CASE i \in 1 .. n
        <5>1. h[i] = g[i] /\ h[i - 1] = g[i - 1] /\ path[i] = up[i]
          BY <3>10, <4>2
        <5>2. g[i] = Down(tree, g[i - 1], up[i])
          BY <3>5, <3>6, <4>2 DEF Leads
        <5> HIDE DEF h
        <5> QED
          BY <5>1, <5>2
      <4> QED
        BY <4>1, <4>2
    <3>12. h[0] = ROOT /\ h[n + 1] = node
      BY <3>5 DEF Leads
    <3> HIDE DEF h
    <3>13. Leads(tree, node, n + 1, h) /\ n + 1 \in Nat
      BY <3>6, <3>10, <3>11, <3>12 DEF Leads
    <3> QED
      BY <3>13
  <2> QED
    BY <2>1, <2>2
<1>4. Nat \subseteq K
  <2> HIDE DEF K
  <2> QED
    BY <1>2, <1>3, SetInduction
<1> TAKE node \in among
<1>5. node \in K /\ node <= node
  <2> HIDE DEF K
  <2> QED
    BY <1>1, <1>4
<1> QED
  BY <1>5

LEMMA PathHome ==
  ASSUME TreeOK(nodes), NEW among \in SUBSET DOMAIN nodes, vfs_cwd \in among, Reached(nodes, among)
  PROVE  PathLeadsHome
<1>1. PICK n \in Nat : \E g : Leads(nodes, vfs_cwd, n, g)
  BY ReachedLeads
<1>2. PICK g : Leads(nodes, vfs_cwd, n, g)
  BY <1>1
<1>3. PICK path : path = Path(nodes, vfs_cwd)
  OBVIOUS
<1>4. /\ DOMAIN path = 1 .. n /\ g[0] = ROOT /\ g[n] = vfs_cwd
      /\ \A i \in 1 .. n : g[i] = Down(nodes, g[i - 1], path[i])
  BY <1>2, <1>3 DEF Leads
<1>5. Follow(nodes, path) = g[n]
  BY <1>4, FollowIs
<1> QED
  BY <1>3, <1>4, <1>5 DEF PathLeadsHome

-----------------------------------------------------------------------------
(* The current directory and the loops *)

-----------------------------------------------------------------------------
(* The steps of a session *)

\* One is where the path of names leads.
Home(tree, node) ==
  \E among \in SUBSET DOMAIN tree : node \in among /\ Reached(tree, among)

LEMMA RootHome == ASSUME NEW tree, TreeOK(tree) PROVE Home(tree, ROOT)
<1>1. {ROOT} \in SUBSET DOMAIN tree /\ Reached(tree, {ROOT})
  BY TreeTypes DEF Reached
<1> QED
  BY <1>1 DEF Home

LEMMA ParentHome ==
  ASSUME NEW tree, TreeOK(tree), NEW node, Home(tree, node), tree[node].parent # NULL
  PROVE  Home(tree, tree[node].parent)
<1>1. PICK among \in SUBSET DOMAIN tree : node \in among /\ Reached(tree, among)
  BY DEF Home
<1>2. node \in DOMAIN tree /\ node # ROOT
  BY <1>1 DEF TreeOK
<1>3. tree[node].parent \in among
  BY <1>1, <1>2 DEF Reached
<1> QED
  BY <1>1, <1>3 DEF Home

LEMMA ChildHome ==
  ASSUME NEW tree, TreeOK(tree), NEW node, Home(tree, node), NEW name,
         NEW child, child = FindChild(tree, node, name), child # NULL
  PROVE  Home(tree, child)
<1>1. PICK among \in SUBSET DOMAIN tree : node \in among /\ Reached(tree, among)
  BY DEF Home
<1>2. node \in DOMAIN tree /\ tree[node].children \in Seq(Nat)
  BY <1>1, TreeTypes
<1>3. PICK i \in Nat : IsFirst(tree, node, name, i) /\ child = tree[node].children[i]
  BY <1>2, FindChildIs
<1>4. child \in DOMAIN tree /\ tree[child].parent = node /\ tree[child].name = name
  BY <1>2, <1>3 DEF IsFirst, TreeOK
<1>5. Reached(tree, among \cup {child})
  BY <1>1, <1>4 DEF Reached
<1>6. among \cup {child} \in SUBSET DOMAIN tree
  BY <1>1, <1>4
<1> QED
  BY <1>5, <1>6 DEF Home

\* cd goes where a path leads, and no other command moves.
LEMMA SimpleHome ==
  ASSUME TreeOK(nodes), Home(nodes, vfs_cwd), NEW command, NEW arg, Simple(command, arg)
  PROVE  Home(nodes, vfs_cwd')
<1>1. vfs_cwd' = vfs_cwd \/ (IsDir(nodes, CdTarget(arg)) /\ vfs_cwd' = CdTarget(arg))
  <2>1. Cd(arg) \/ vfs_cwd' = vfs_cwd
    BY DEF Simple, Ls, Pwd, Cat, Shows
  <2> QED
    BY <2>1 DEF Cd, Shows
<1>2. CASE vfs_cwd' = vfs_cwd
  BY <1>2
<1>3. CASE vfs_cwd' = CdTarget(arg) /\ CdTarget(arg) # NULL
  <2>1. CdTarget(arg) \in {ROOT, Parent(vfs_cwd), Child(arg)}
    BY DEF CdTarget
  <2>2. Home(nodes, ROOT) /\ Home(nodes, Parent(vfs_cwd))
    BY RootHome, ParentHome DEF Parent
  <2>3. CASE CdTarget(arg) = Child(arg)
    <3>1. Child(arg) = FindChild(nodes, vfs_cwd, arg[1])
      BY <1>3, <2>3 DEF Child
    <3> QED
      BY <1>3, <2>3, <3>1, ChildHome
  <2> QED
    BY <1>3, <2>1, <2>2, <2>3
<1> QED
  BY <1>1, <1>2, <1>3 DEF IsDir

\* The loops around a command have their words of the line.
LoopType == [saved : Seq(STRING), working : Seq(STRING)]

Around(line, stack) ==
  /\ stack \in Seq(LoopType)
  /\ \A i \in DOMAIN stack :
       /\ stack[i].saved = Rest(line, i) /\ stack[i].saved # <<>>
       /\ i + Len(stack[i].saved) <= Len(line)

\* A call of interpret_command with what is left of a line below its loops.
LEMMA InterpretKeeps ==
  ASSUME TreeOK(nodes), Home(nodes, vfs_cwd),
         NEW whole \in Seq(STRING), NEW line \in Seq(STRING),
         NEW stack, Around(whole, stack), Around(whole, loops),
         Len(stack) + Len(line) <= Len(whole), line = Rest(whole, Len(stack)),
         Interpret(line, stack)
  PROVE  /\ Home(nodes, vfs_cwd') /\ Around(whole, loops')
         /\ pc' \in {"prompt", "drain", "poll", "halted"}
         /\ pc' = "prompt" => loops' = <<>>
         /\ pc' \in {"drain", "poll"} => loops' # <<>>
         /\ ran' = [line |-> line, depth |-> Len(stack)]
<1> DEFINE command == CommandOf(line)
           arg == ArgOf(line)
<1>1. ran' = [line |-> line, depth |-> Len(stack)]
  BY DEF Interpret
<1>2. \/ Halt
      \/ arg # <<>> /\ Loop(stack, arg)
      \/ Simple(command, arg) /\ pc' = Back(stack) /\ loops' = stack
  BY DEF Interpret
<1>3. CASE Halt
  BY <1>1, <1>3 DEF Halt
<1>4. CASE arg # <<>> /\ Loop(stack, arg)
  <2>1. arg \in Seq(STRING) /\ Len(arg) < Len(line)
    BY <1>4, ArgIs
  <2> HIDE DEF arg
  <2>2. PICK k \in Nat : k = Len(stack) /\ stack \in Seq(LoopType)
    BY DEF Around
  <2>3. PICK loop : loop = [saved |-> arg, working |-> arg]
    OBVIOUS
  <2>4. loop \in LoopType /\ loop.saved = arg
    BY <2>1, <2>3 DEF LoopType
  <2>5. PICK new : new = Append(stack, loop)
    OBVIOUS
  <2>6. /\ new \in Seq(LoopType) /\ Len(new) = k + 1 /\ new[k + 1] = loop
        /\ \A i \in 1 .. k : new[i] = stack[i] /\ i \in DOMAIN stack
        /\ DOMAIN new = 1 .. (k + 1) /\ new # <<>>
    BY <2>2, <2>4, <2>5
  <2>7. PICK a \in Nat, l \in Nat, w \in Nat : a = Len(arg) /\ l = Len(line) /\ w = Len(whole)
    BY <2>1
  <2>8. a < l /\ k + l <= w
    BY <2>1, <2>2, <2>7
  <2>9. k + 1 \in 1 .. w /\ (k + 1) + a <= w /\ (k + 1) - 1 = k
    BY <2>8
  <2>10. Rest(whole, k + 1) = arg
    <3>1. Rest(whole, k + 1) = ArgOf(Rest(whole, (k + 1) - 1))
      BY <2>7, <2>9, RestIs
    <3> QED
      BY <2>2, <2>9, <3>1 DEF arg
  <2>11. ASSUME NEW i \in DOMAIN new
         PROVE  /\ new[i].saved = Rest(whole, i) /\ new[i].saved # <<>>
                /\ i + Len(new[i].saved) <= Len(whole)
    <3>1. CASE i = k + 1
      <4>1. new[i].saved = arg
        BY <2>4, <2>6, <3>1
      <4> QED
        BY <1>4, <2>7, <2>9, <2>10, <3>1, <4>1
    <3>2. CASE i \in 1 .. k
      <4>1. new[i] = stack[i] /\ i \in DOMAIN stack
        BY <2>6, <3>2
      <4> QED
        BY <4>1 DEF Around
    <3> QED
      BY <2>6, <3>1, <3>2
  <2>12. Around(whole, new)
    BY <2>6, <2>11 DEF Around
  <2>13. pc' = "drain" /\ loops' = new /\ vfs_cwd' = vfs_cwd
    BY <1>4, <2>3, <2>5 DEF Loop
  <2> QED
    BY <1>1, <2>6, <2>12, <2>13
<1>5. CASE Simple(command, arg) /\ pc' = Back(stack) /\ loops' = stack
  <2>1. Home(nodes, vfs_cwd')
    BY <1>5, SimpleHome
  <2> HIDE DEF command, arg
  <2>2. /\ pc' \in {"prompt", "poll"} /\ (pc' = "prompt" => stack = <<>>)
        /\ pc' = "poll" => stack # <<>>
    BY <1>5 DEF Back
  <2> QED
    BY <1>1, <1>5, <2>1, <2>2
<1> HIDE DEF command, arg
<1> QED
  BY <1>2, <1>3, <1>4, <1>5

-----------------------------------------------------------------------------
(* SessionInv is inductive *)

\* SessionInv, in the terms of the lemmas above.
Facts ==
  /\ TreeOK(nodes) /\ Home(nodes, vfs_cwd) /\ keys \in 0 .. KEYS
  /\ pc \in {"prompt", "drain", "poll", "halted"}
  /\ pc = "prompt" => loops = <<>>
  /\ pc \in {"drain", "poll"} => loops # <<>>
  /\ entered \in Seq(STRING) /\ Around(entered, loops)
  /\ ran.depth \in 0 .. Len(entered) /\ ran.line = Rest(entered, ran.depth)

LEMMA SessionFacts == SessionInv <=> Facts
<1>1. TreeOK(nodes) /\ Home(nodes, vfs_cwd) =>
        /\ vfs_cwd \in DOMAIN nodes
        /\ \A n \in DOMAIN nodes : /\ nodes[n].parent \in 0 .. (n - 1)
                                   /\ Len(nodes[n].children) <= VFS_MAX_CHILDREN
  BY DEF TreeOK, Home
<1>2. LoopsOK <=> Around(entered, loops)
  BY DEF LoopsOK, Around, LoopType
<1>3. (\E among \in SUBSET DOMAIN nodes : vfs_cwd \in among /\ Reached(nodes, among))
        <=> Home(nodes, vfs_cwd)
  BY DEF Home
<1> QED
  BY <1>1, <1>2, <1>3 DEF SessionInv, Facts, TypeOK, RunsAsEntered

LEMMA SessionStart == Init => SessionInv
<1> SUFFICES ASSUME Init PROVE SessionInv
  OBVIOUS
<1>1. TreeOK(nodes) /\ vfs_cwd = ROOT
  BY BootTreeOK DEF Init
<1>2. Home(nodes, vfs_cwd)
  BY <1>1, RootHome
<1>3. <<>> \in Seq(STRING) /\ <<>> \in Seq(LoopType) /\ DOMAIN <<>> = {} /\ Len(<<>>) = 0
  OBVIOUS
<1>4. Around(entered, loops) /\ entered \in Seq(STRING)
  BY <1>3 DEF Init, Around
<1>5. ran.line = Rest(entered, ran.depth)
  <2>1. Rest(<<>>, 0) = <<>>
    BY <1>3, RestIs
  <2> QED
    BY <2>1 DEF Init
<1>6. keys \in 0 .. KEYS /\ ran.depth \in 0 .. Len(entered)
  BY <1>3, InterpreterAssumption DEF Init
<1> QED
  BY <1>1, <1>2, <1>4, <1>5, <1>6, SessionFacts DEF Init, Facts

\* What a step that interprets a line leaves.
LEMMA SessionAfter ==
  ASSUME SessionInv, NEW whole \in Seq(STRING), entered' = whole, nodes' = nodes, keys' = keys,
         NEW line \in Seq(STRING), NEW stack, Around(whole, stack), Around(whole, loops),
         Len(stack) + Len(line) <= Len(whole), line = Rest(whole, Len(stack)),
         Interpret(line, stack)
  PROVE  SessionInv'
<1>1. TreeOK(nodes) /\ Home(nodes, vfs_cwd) /\ keys \in 0 .. KEYS
  BY SessionFacts DEF Facts
<1>2. /\ Home(nodes, vfs_cwd') /\ Around(whole, loops')
      /\ pc' \in {"prompt", "drain", "poll", "halted"}
      /\ pc' = "prompt" => loops' = <<>>
      /\ pc' \in {"drain", "poll"} => loops' # <<>>
      /\ ran' = [line |-> line, depth |-> Len(stack)]
  BY <1>1, InterpretKeeps
<1>3. Len(stack) \in 0 .. Len(whole)
  <2>1. Len(stack) \in Nat /\ Len(line) \in Nat /\ Len(whole) \in Nat
    BY DEF Around
  <2> QED
    BY <2>1
<1>4. ran'.depth \in 0 .. Len(entered') /\ ran'.line = Rest(entered', ran'.depth)
  BY <1>2, <1>3
<1>5. TreeOK(nodes)' /\ Home(nodes, vfs_cwd)' /\ Around(entered, loops)'
  <2>1. TreeOK(nodes') /\ Home(nodes', vfs_cwd') /\ Around(entered', loops')
    BY <1>1, <1>2
  <2> QED
    BY <2>1
<1>6. /\ TreeOK(nodes)' /\ Home(nodes, vfs_cwd)' /\ keys' \in 0 .. KEYS
      /\ pc' \in {"prompt", "drain", "poll", "halted"}
      /\ pc' = "prompt" => loops' = <<>>
      /\ pc' \in {"drain", "poll"} => loops' # <<>>
      /\ entered' \in Seq(STRING) /\ Around(entered, loops)'
      /\ ran'.depth \in 0 .. Len(entered') /\ (ran.line = Rest(entered, ran.depth))'
  BY <1>1, <1>2, <1>4, <1>5
<1>7. Facts'
  BY <1>6 DEF Facts
<1> QED
  BY <1>7, SessionFacts, PTL

LEMMA EnterSession ==
  ASSUME SessionInv, NEW line \in Lines, Enter(line)
  PROVE  SessionInv'
<1>1. line \in Seq(STRING)
  BY InterpreterAssumption
<1>2. loops = <<>> /\ Interpret(line, <<>>) /\ entered' = line /\ nodes' = nodes /\ keys' = keys
  BY SessionFacts DEF Enter, Facts
<1>3. Around(line, <<>>)
  <2>1. <<>> \in Seq(LoopType) /\ DOMAIN <<>> = {}
    OBVIOUS
  <2> QED
    BY <2>1 DEF Around
<1>4. Len(<<>>) + Len(line) <= Len(line) /\ line = Rest(line, Len(<<>>))
  <2>1. Len(<<>>) = 0 /\ Len(line) \in Nat
    BY <1>1
  <2> QED
    BY <1>1, <2>1, RestIs
<1> QED
  BY <1>1, <1>2, <1>3, <1>4, SessionAfter

LEMMA IterateSession == SessionInv /\ Iterate => SessionInv'
<1> SUFFICES ASSUME SessionInv, Iterate PROVE SessionInv'
  OBVIOUS
<1>1. /\ entered \in Seq(STRING) /\ Around(entered, loops) /\ loops # <<>>
      /\ loops \in Seq(LoopType)
  BY SessionFacts DEF Iterate, Around, Facts
<1>2. PICK n \in Nat : n = Len(loops) /\ n \in DOMAIN loops /\ n > 0
  BY <1>1
<1>3. PICK line : line = loops[n].saved
  OBVIOUS
<1>4. line \in Seq(STRING) /\ line = Rest(entered, n) /\ n + Len(line) <= Len(entered)
  <2>1. loops[n] \in LoopType
    BY <1>1, <1>2
  <2>2. loops[n].saved \in Seq(STRING)
    BY <2>1 DEF LoopType
  <2>3. loops[n].saved = Rest(entered, n) /\ n + Len(loops[n].saved) <= Len(entered)
    BY <1>1, <1>2 DEF Around
  <2> QED
    BY <1>3, <2>2, <2>3
<1>5. PICK stack : stack = [loops EXCEPT ![Len(loops)].working = CommandOf(line)]
  OBVIOUS
<1>6. /\ Interpret(line, stack) /\ entered' = entered /\ nodes' = nodes /\ keys' = keys
  BY <1>2, <1>3, <1>5 DEF Iterate, WorkingCopy, Last
<1>7. /\ stack \in Seq(LoopType) /\ Len(stack) = n /\ DOMAIN stack = DOMAIN loops
      /\ \A i \in DOMAIN loops : stack[i].saved = loops[i].saved
  <2>1. PICK loop : loop = [loops[n] EXCEPT !.working = CommandOf(line)]
    OBVIOUS
  <2>2. CommandOf(line) \in Seq(STRING) /\ loops[n] \in LoopType
    BY <1>1, <1>2, <1>4, ArgIs
  <2>3. loop \in LoopType /\ loop.saved = loops[n].saved
    BY <2>1, <2>2 DEF LoopType
  <2>4. stack = [loops EXCEPT ![n] = loop]
    BY <1>2, <1>5, <2>1
  <2> QED
    BY <1>1, <1>2, <2>3, <2>4
<1>8. Around(entered, stack)
  BY <1>1, <1>7 DEF Around
<1> QED
  BY <1>1, <1>4, <1>6, <1>7, <1>8, SessionAfter

\* Steps that only read keys, and the end of a loop.
LEMMA KeySession ==
  ASSUME SessionInv, TypeAhead \/ Drain \/ StopLoop \/ Press
  PROVE  SessionInv'
<1>1. KEYS \in Nat /\ keys \in 0 .. KEYS
  BY SessionFacts, InterpreterAssumption DEF Facts
<1>2. keys' \in 0 .. KEYS
  BY <1>1 DEF TypeAhead, Drain, StopLoop, Press
<1>3. nodes' = nodes /\ vfs_cwd' = vfs_cwd /\ entered' = entered /\ ran' = ran
  BY DEF TypeAhead, Drain, StopLoop, Press
<1>4. /\ entered \in Seq(STRING) /\ Around(entered, loops) /\ loops \in Seq(LoopType)
      /\ pc \in {"prompt", "drain", "poll", "halted"}
      /\ pc = "prompt" => loops = <<>>
      /\ pc \in {"drain", "poll"} => loops # <<>>
  BY SessionFacts DEF Around, Facts
<1>5. /\ Around(entered, loops') /\ pc' \in {"prompt", "drain", "poll", "halted"}
      /\ pc' = "prompt" => loops' = <<>>
      /\ pc' \in {"drain", "poll"} => loops' # <<>>
  <2>1. CASE TypeAhead \/ Press
    BY <1>4, <2>1 DEF TypeAhead, Press
  <2>2. CASE Drain
    BY <1>4, <2>2 DEF Drain
  <2>3. CASE StopLoop
    <3>1. loops # <<>> /\ loops' = Front(loops) /\ pc' = Back(loops')
      BY <1>4, <2>3 DEF StopLoop
    <3>2. PICK n \in Nat : n = Len(loops) /\ n > 0 /\ DOMAIN loops = 1 .. n
      BY <1>4, <3>1
    <3>3. PICK front : front = SubSeq(loops, 1, n - 1)
      OBVIOUS
    <3>4. /\ front \in Seq(LoopType) /\ DOMAIN front = 1 .. (n - 1)
          /\ \A i \in 1 .. (n - 1) : front[i] = loops[i] /\ i \in DOMAIN loops
      BY <1>4, <3>2, <3>3
    <3>5. Around(entered, front)
      BY <1>4, <3>4 DEF Around
    <3>6. loops' = front
      BY <3>1, <3>2, <3>3 DEF Front
    <3> QED
      BY <3>1, <3>5, <3>6 DEF Back
  <2> QED
    BY <2>1, <2>2, <2>3
<1>6. /\ TreeOK(nodes)' /\ Home(nodes, vfs_cwd)' /\ Around(entered, loops)'
      /\ ran'.depth \in 0 .. Len(entered') /\ (ran.line = Rest(entered, ran.depth))'
  <2>1. /\ TreeOK(nodes) /\ Home(nodes, vfs_cwd)
        /\ ran.depth \in 0 .. Len(entered) /\ ran.line = Rest(entered, ran.depth)
    BY SessionFacts DEF Facts
  <2>2. TreeOK(nodes') /\ Home(nodes', vfs_cwd') /\ Around(entered', loops')
    BY <1>3, <1>5, <2>1
  <2> QED
    BY <1>3, <2>1, <2>2
<1>7. /\ TreeOK(nodes)' /\ Home(nodes, vfs_cwd)' /\ keys' \in 0 .. KEYS
      /\ pc' \in {"prompt", "drain", "poll", "halted"}
      /\ pc' = "prompt" => loops' = <<>>
      /\ pc' \in {"drain", "poll"} => loops' # <<>>
      /\ entered' \in Seq(STRING) /\ Around(entered, loops)'
      /\ ran'.depth \in 0 .. Len(entered') /\ (ran.line = Rest(entered, ran.depth))'
  BY <1>2, <1>3, <1>4, <1>5, <1>6
<1>8. Facts'
  BY <1>7 DEF Facts
<1> QED
  BY <1>8, SessionFacts, PTL

\* Files and directories come to the tree.
LEMMA AddedSession ==
  ASSUME SessionInv, NEW parent \in DOMAIN nodes, NEW name \in NewNames,
         VfsMkdir(parent, name) \/ VfsCreateFile(parent, name)
  PROVE  SessionInv'
<1>1. TreeOK(nodes) /\ Home(nodes, vfs_cwd)
  BY SessionFacts DEF Facts
<1>2. PICK made : /\ made \in {Mkdir(nodes, parent, name), CreateFile(nodes, parent, name, "text")}
                  /\ Added(made)
  BY DEF VfsMkdir, VfsCreateFile
<1>3. name \in Names /\ "text" \in Texts
  BY InterpreterAssumption DEF Texts
<1>4. PICK tree, new : tree = nodes /\ new = made.tree
  OBVIOUS
<1>5. TreeOK(new) /\ Grown(tree, new)
  BY <1>1, <1>2, <1>3, <1>4, MadeKeepsTree
<1>6. nodes' = new /\ UNCHANGED <<vfs_cwd, pc, loops, keys, stale, printed, entered, ran>>
  BY <1>2, <1>4 DEF Added
<1>7. PICK among \in SUBSET DOMAIN tree : vfs_cwd \in among /\ Reached(tree, among)
  BY <1>1, <1>4 DEF Home
<1>8. among \in SUBSET DOMAIN new /\ Reached(new, among)
  BY <1>1, <1>4, <1>5, <1>7, GrownReached
<1>9. Home(new, vfs_cwd)
  BY <1>7, <1>8 DEF Home
<1>10. TreeOK(nodes)' /\ Home(nodes, vfs_cwd)' /\ Around(entered, loops)'
  <2>1. TreeOK(nodes') /\ Home(nodes', vfs_cwd') /\ Around(entered', loops')
    BY <1>5, <1>6, <1>9, SessionFacts DEF Facts
  <2> QED
    BY <2>1
<1>11. /\ TreeOK(nodes)' /\ Home(nodes, vfs_cwd)' /\ keys' \in 0 .. KEYS
       /\ pc' \in {"prompt", "drain", "poll", "halted"}
       /\ pc' = "prompt" => loops' = <<>>
       /\ pc' \in {"drain", "poll"} => loops' # <<>>
       /\ entered' \in Seq(STRING) /\ Around(entered, loops)'
       /\ ran'.depth \in 0 .. Len(entered') /\ (ran.line = Rest(entered, ran.depth))'
  <2>1. /\ keys \in 0 .. KEYS
        /\ pc \in {"prompt", "drain", "poll", "halted"}
        /\ pc = "prompt" => loops = <<>>
        /\ pc \in {"drain", "poll"} => loops # <<>>
        /\ entered \in Seq(STRING)
        /\ ran.depth \in 0 .. Len(entered) /\ ran.line = Rest(entered, ran.depth)
    BY SessionFacts DEF Facts
  <2> QED
    BY <1>6, <1>10, <2>1
<1>12. Facts'
  BY <1>11 DEF Facts
<1> QED
  BY <1>12, SessionFacts, PTL

LEMMA SessionNext == SessionInv /\ [Next]_vars => SessionInv'
<1> SUFFICES ASSUME SessionInv, [Next]_vars PROVE SessionInv'
  OBVIOUS
<1>1. CASE UNCHANGED vars
  BY <1>1 DEF vars, SessionInv, TypeOK, LoopsOK, RunsAsEntered
<1>2. CASE Next
  BY <1>2, EnterSession, IterateSession, KeySession, AddedSession DEF Next, Shell
<1> QED
  BY <1>1, <1>2

\* Throughout a session (interpreter.c, command_loop of shell.c, vfs.c): the tree
\* is sound, names lead from the root to vfs_cwd, and every loop under way has its
\* own words of the line.
THEOREM SessionInvariant == Spec => []SessionInv
  BY SessionStart, SessionNext, PTL DEF Spec

\* vfs_cwd is a node, parents are older than their children, no directory has more
\* than VFS_MAX_CHILDREN (vfs_alloc_node's bound), the prompt waits with no loop under
\* way and a loop that reads keys is one.
THEOREM SessionTypeOK == Spec => []TypeOK
<1>1. SessionInv => TypeOK
  BY DEF SessionInv
<1> QED
  BY <1>1, SessionInvariant, PTL

\* The path of pwd and of the prompt, followed with cd from the root name by name,
\* leads to vfs_cwd, whatever directories cd was given, whatever vfs_mkdir and
\* vfs_create_file added, and also when the heap was full.
THEOREM SessionPathLeadsHome == Spec => []PathLeadsHome
<1>1. SessionInv => PathLeadsHome
  BY PathHome DEF SessionInv
<1> QED
  BY <1>1, SessionInvariant, PTL

\* The command that interpret_command runs at any depth of nested loops is the line
\* entered without the loops' own words: the copies that the string functions
\* destroy are not the ones that are run again.
THEOREM SessionRunsAsEntered == Spec => []RunsAsEntered
<1>1. SessionInv => RunsAsEntered
  BY DEF SessionInv
<1> QED
  BY <1>1, SessionInvariant, PTL

\* A line that is interpreted starts a loop, which counts the keys there are, or
\* leaves them alone.
LEMMA InterpretStale ==
  ASSUME NEW line, NEW stack, Interpret(line, stack)
  PROVE  \/ pc' = "drain" /\ stale' = keys
         \/ pc' # "drain" /\ stale' = stale
<1>1. \/ Halt
      \/ Loop(stack, ArgOf(line))
      \/ pc' = Back(stack) /\ stale' = stale
  BY DEF Interpret
<1> QED
  BY <1>1 DEF Halt, Loop, Back

\* Every step keeps count of the keys from before the call.
LEMMA StaleStep == TypeOK /\ StaleOK /\ [Next]_vars => StaleOK'
<1> SUFFICES ASSUME TypeOK, StaleOK, [Next]_vars PROVE StaleOK'
  OBVIOUS
<1>1. /\ keys \in Nat /\ stale \in Nat /\ stale <= keys /\ (pc # "drain" => stale = 0)
      /\ 0 \in 0 .. keys /\ keys \in 0 .. keys
  BY InterpreterAssumption DEF TypeOK, StaleOK
<1>2. ASSUME pc # "drain", keys' = keys,
             \/ pc' = "drain" /\ stale' = keys
             \/ pc' # "drain" /\ stale' = stale
      PROVE  StaleOK'
  BY <1>1, <1>2 DEF StaleOK
<1>3. CASE \E line \in Lines : Enter(line)
  BY <1>2, <1>3, InterpretStale DEF Enter
<1>4. CASE Iterate
  BY <1>2, <1>4, InterpretStale DEF Iterate
<1>5. CASE Drain
  BY <1>1, <1>5 DEF Drain, Older, StaleOK
<1>6. CASE TypeAhead
  BY <1>1, <1>6 DEF TypeAhead, StaleOK
<1>7. CASE StopLoop
  BY <1>1, <1>7 DEF StopLoop, StaleOK
<1>8. CASE Press
  BY <1>1, <1>8 DEF Press, StaleOK
<1>9. CASE UNCHANGED <<pc, keys, stale>>
  BY <1>1, <1>9 DEF StaleOK
<1> QED
  BY <1>3, <1>4, <1>5, <1>6, <1>7, <1>8, <1>9
  DEF Next, Shell, VfsMkdir, VfsCreateFile, Added, vars

\* Where command_loop looks for a key, at whatever depth, none is left from before
\* it was called (shell.c:245-247).
THEOREM SessionFreshKeysStop == Spec => []FreshKeysStop
<1>1. Init => StaleOK
  BY DEF Init, StaleOK
<1>2. StaleOK => FreshKeysStop
  BY DEF StaleOK, FreshKeysStop
<1> QED
  BY <1>1, <1>2, StaleStep, SessionTypeOK, PTL DEF Spec

=============================================================================
