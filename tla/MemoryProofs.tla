---------------------------- MODULE MemoryProofs -----------------------------
(***************************************************************************)
(* Proofs about Heap and Programs, for every machine: any memory map, any  *)
(* page, header and alignment size, any set of requests and any file.      *)
(*                                                                         *)
(* The three list surgeries of heap.c (append an extent, split a block,    *)
(* merge two blocks) are proved to keep the list address-ordered, each in  *)
(* a lemma of its own about an arbitrary header memory h; the invariance   *)
(* proofs then only put the lemmas together.  The commands of Programs     *)
(* give back what they take, stay in what they took and start a program    *)
(* only when its segments are in memory: the heap's part of that is what   *)
(* is proved here of kmalloc and kfree.                                    *)
(***************************************************************************)
EXTENDS Programs, FiniteSetTheorems, TLAPS

-----------------------------------------------------------------------------
(* Induction over the natural numbers, on sets *)

LessThan == {p \in Nat \X Nat : p[1] < p[2]}

LEMMA LeastNat ==
  ASSUME NEW T \in SUBSET Nat, T # {}
  PROVE  \E m \in T : \A k \in T : m <= k
<1>1. LessThan = OpToRel(<, Nat)
  BY DEF LessThan, OpToRel
<1>2. IsWellFoundedOn(LessThan, Nat)
  BY <1>1, NatLessThanWellFounded
<1>3. PICK x \in T : \A y \in T : ~ (<<y, x>> \in LessThan)
  BY <1>2, WFMin
<1>4. ASSUME NEW y \in T PROVE x <= y
  <2>1. x \in Nat /\ y \in Nat
    OBVIOUS
  <2>2. y < x => <<y, x>> \in LessThan
    BY <2>1 DEF LessThan
  <2> QED
    BY <1>3, <2>1, <2>2
<1> QED
  BY <1>4

LEMMA SetInduction ==
  ASSUME NEW S, 0 \in S, \A n \in Nat : n \in S => n + 1 \in S
  PROVE  Nat \subseteq S
<1> SUFFICES ASSUME Nat \ S # {} PROVE FALSE
  OBVIOUS
<1>1. PICK m \in Nat \ S : \A k \in Nat \ S : m <= k
  BY LeastNat
<1>2. m - 1 \in Nat /\ m - 1 \notin Nat \ S
  BY <1>1
<1> QED
  BY <1>1, <1>2

\* What n steps lead to, one after the other, exists.
LEMMA Iteration ==
  ASSUME NEW S, NEW base \in S, NEW n \in Nat, NEW step \in [1 .. n -> [S -> S]]
  PROVE  \E f \in [0 .. n -> S] :
           f[0] = base /\ \A i \in 1 .. n : f[i] = step[i][f[i - 1]]
<1> DEFINE Path(k, f) == f[0] = base /\ \A i \in 1 .. k : f[i] = step[i][f[i - 1]]
<1> DEFINE K == {k \in Nat : k <= n => \E f \in [0 .. k -> S] : Path(k, f)}
<1>1. 0 \in K
  <2>1. [i \in 0 .. 0 |-> base] \in [0 .. 0 -> S] /\ Path(0, [i \in 0 .. 0 |-> base])
    OBVIOUS
  <2> QED
    BY <2>1
<1>2. ASSUME NEW k \in Nat, k \in K PROVE k + 1 \in K
  <2> SUFFICES ASSUME k + 1 <= n PROVE \E f \in [0 .. k + 1 -> S] : Path(k + 1, f)
    OBVIOUS
  <2>1. PICK f \in [0 .. k -> S] : Path(k, f)
    BY <1>2
  <2> DEFINE g == [i \in 0 .. k + 1 |-> IF i = k + 1 THEN step[k + 1][f[k]] ELSE f[i]]
  <2>2. step[k + 1] \in [S -> S] /\ f[k] \in S
    BY <1>2
  <2>3. g \in [0 .. k + 1 -> S]
    BY <2>2
  <2>4. ASSUME NEW i \in 1 .. k + 1 PROVE g[i] = step[i][g[i - 1]]
    <3>1. CASE i = k + 1
      <4>1. g[i] = step[k + 1][f[k]] /\ g[i - 1] = f[k]
        BY <3>1
      <4> QED
        BY <3>1, <4>1
    <3>2. CASE i \in 1 .. k
      <4>1. g[i] = f[i] /\ g[i - 1] = f[i - 1]
        BY <3>2
      <4> QED
        BY <2>1, <3>2, <4>1
    <3> QED
      BY <3>1, <3>2
  <2>5. Path(k + 1, g)
    BY <2>1, <2>4
  <2> QED
    BY <2>3, <2>5
<1>3. Nat \subseteq K
  <2> HIDE DEF K
  <2> QED
    BY <1>1, <1>2, SetInduction
<1> QED
  BY <1>3

-----------------------------------------------------------------------------
(* Headers and the list of blocks *)

\* Header memory of the right type.
HeadersOK(h) ==
  /\ DOMAIN h \subseteq Nat \ {Null}
  /\ h \in [DOMAIN h -> Header]

\* The invariant AddressOrdered, of any header memory.
ListOK(h, head) ==
  /\ Disjoint(h)
  /\ NextFollows(h)
  /\ PrevPrecedes(h)
  /\ HeadFirst(h, head)

\* The fields of a header have their types.
LEMMA FieldTypes ==
  ASSUME NEW h, HeadersOK(h), NEW a \in DOMAIN h
  PROVE  /\ a \in Nat /\ a # 0
         /\ h[a] \in Header
         /\ h[a].size \in Nat
         /\ h[a].free \in BOOLEAN
         /\ h[a].next \in Nat
         /\ h[a].prev \in Nat
  BY DEF HeadersOK, Header, Null

\* heap_extend: appending an extent that lies above every block, behind the
\* tail of the list, keeps the list in address order.
LEMMA AppendedOK ==
  ASSUME NEW h, NEW head, HeadersOK(h), ListOK(h, head),
         NEW b \in Nat \ {Null}, NEW size \in Nat,
         \A a \in DOMAIN h : End(h, a) <= b,
         NEW tail \in DOMAIN h \cup {Null},
         IF tail = Null THEN head = Null ELSE h[tail].next = Null
  PROVE  /\ HeadersOK(Appended(h, b, size, tail))
         /\ ListOK(Appended(h, b, size, tail), IF tail = Null THEN b ELSE head)
<1> DEFINE g == Appended(h, b, size, tail)
           D == DOMAIN h
<1>0. HDR \in Nat \ {0}
  BY HeapAssumption
<1>1. DOMAIN g = D \cup {b}
  BY DEF Appended
<1>2. \A a \in D : /\ a \in Nat /\ a # 0 /\ h[a] \in Header /\ h[a].size \in Nat
                   /\ h[a].free \in BOOLEAN /\ h[a].next \in Nat /\ h[a].prev \in Nat
  BY FieldTypes
<1>3. \A a \in D : a < b
  BY <1>0, <1>2 DEF End
<1>4. g[b] = [size |-> size, free |-> TRUE, next |-> Null, prev |-> tail]
  BY DEF Appended
<1>5. \A a \in D \ {tail} : g[a] = h[a]
  BY <1>2, <1>3 DEF Appended
<1>6. ASSUME tail # Null
      PROVE  /\ g[tail] \in Header
             /\ g[tail].size = h[tail].size /\ g[tail].next = b
             /\ g[tail].prev = h[tail].prev
  <2>1. g[tail] = [h[tail] EXCEPT !.next = b]
    BY <1>2, <1>3, <1>6 DEF Appended
  <2> QED
    BY <2>1, <1>2, <1>6 DEF Header
<1>7. HeadersOK(g)
  <2>1. b \in Nat \ {0} /\ tail \in Nat
    BY <1>2 DEF Null
  <2>2. g[b] \in Header
    BY <1>4, <2>1 DEF Header, Null
  <2>3. \A a \in D : g[a] \in Header
    BY <1>2, <1>5, <1>6 DEF Null
  <2>4. g \in [DOMAIN g -> Header]
    BY <1>1, <2>2, <2>3 DEF Appended
  <2> QED
    BY <1>1, <1>2, <2>1, <2>4 DEF HeadersOK, Null
<1>8. \A a \in D : g[a].size = h[a].size /\ g[a].prev = h[a].prev
  BY <1>2, <1>5, <1>6 DEF Null
<1>9. Disjoint(g)
  BY <1>0, <1>1, <1>2, <1>3, <1>8 DEF Disjoint, ListOK, End
<1>10. tail # Null => \A a \in D : a <= tail
  BY <1>2 DEF ListOK, NextFollows
<1>11. NextFollows(g)
  <2>1. g[b].next = Null /\ \A a \in DOMAIN g : a <= b
    BY <1>1, <1>3, <1>2, <1>4 DEF Null
  <2>2. ASSUME tail # Null
        PROVE  /\ g[tail].next = b /\ tail < b
               /\ \A a \in DOMAIN g : tail < a => b <= a
    BY <2>2, <1>1, <1>2, <1>3, <1>6, <1>10 
  <2>3. ASSUME NEW a \in D, a # tail
        PROVE  /\ g[a].next = h[a].next /\ h[a].next # Null
               /\ h[a].next \in D /\ a < h[a].next
               /\ \A c \in DOMAIN g : a < c => h[a].next <= c
    <3>1. tail # Null
      BY DEF ListOK, HeadFirst
    <3>2. a < tail
      BY <1>10, <1>2, <2>3, <3>1
    <3>3. h[a].next # Null
      BY <1>2, <2>3, <3>1, <3>2 DEF ListOK, NextFollows
    <3>4. h[a].next \in D /\ a < h[a].next /\ \A c \in D : a < c => h[a].next <= c
      BY <2>3, <3>3 DEF ListOK, NextFollows
    <3> QED
      BY <1>1, <1>2, <1>3, <1>5, <2>3, <3>3, <3>4
  <2> QED
    BY <1>1, <1>2, <2>1, <2>2, <2>3 DEF NextFollows, Null
<1>12. PrevPrecedes(g)
  <2>1. tail = Null => D = {}
    BY DEF ListOK, HeadFirst
  <2>2. ASSUME NEW a \in D
        PROVE  IF g[a].prev = Null THEN \A c \in DOMAIN g : a <= c
               ELSE /\ g[a].prev \in DOMAIN g /\ g[a].prev < a
                    /\ \A c \in DOMAIN g : c < a => c <= g[a].prev
    BY <2>2, <1>1, <1>2, <1>3, <1>8 DEF ListOK, PrevPrecedes
  <2>3. IF g[b].prev = Null THEN \A c \in DOMAIN g : b <= c
        ELSE /\ g[b].prev \in DOMAIN g /\ g[b].prev < b
             /\ \A c \in DOMAIN g : c < b => c <= g[b].prev
    BY <1>1, <1>2, <1>3, <1>4, <1>10, <2>1 DEF Null
  <2> QED
    BY <1>1, <2>2, <2>3 DEF PrevPrecedes
<1>13. HeadFirst(g, IF tail = Null THEN b ELSE head)
  BY <1>1, <1>2, <1>3 DEF ListOK, HeadFirst, Null
<1> QED
  BY <1>7, <1>9, <1>11, <1>12, <1>13 DEF ListOK

\* Marking a block used or free touches no link and no size.
LEMMA SameShape ==
  ASSUME NEW h, NEW g, NEW head, ListOK(h, head), DOMAIN g = DOMAIN h,
         \A a \in DOMAIN h : /\ g[a].size = h[a].size
                             /\ g[a].next = h[a].next
                             /\ g[a].prev = h[a].prev
  PROVE  ListOK(g, head)
<1>1. Disjoint(g)
  BY DEF ListOK, Disjoint, End
<1>2. NextFollows(g)
  BY DEF ListOK, NextFollows
<1>3. PrevPrecedes(g)
  BY DEF ListOK, PrevPrecedes
<1>4. HeadFirst(g, head)
  BY DEF ListOK, HeadFirst
<1> QED
  BY <1>1, <1>2, <1>3, <1>4 DEF ListOK

\* Marking a block free or used leaves the list as it is.
LEMMA Marked ==
  ASSUME NEW h, HeadersOK(h), NEW head, ListOK(h, head),
         NEW a \in DOMAIN h, NEW f \in BOOLEAN
  PROVE  LET g == [h EXCEPT ![a].free = f]
         IN  /\ HeadersOK(g) /\ ListOK(g, head)
             /\ DOMAIN g = DOMAIN h
             /\ g[a].free = f
             /\ \A x \in DOMAIN h : /\ g[x].size = h[x].size
                                    /\ g[x].next = h[x].next
                                    /\ g[x].prev = h[x].prev
             /\ \A x \in DOMAIN h \ {a} : g[x] = h[x]
<1> DEFINE g == [h EXCEPT ![a].free = f]
<1>1. DOMAIN g = DOMAIN h
  OBVIOUS
<1>2. h[a] \in Header
  BY FieldTypes
<1>3. g[a] = [h[a] EXCEPT !.free = f]
  BY DEF HeadersOK
<1>4. /\ g[a] \in Header
      /\ g[a].size = h[a].size /\ g[a].next = h[a].next
      /\ g[a].prev = h[a].prev /\ g[a].free = f
  BY <1>2, <1>3 DEF Header
<1>5. \A x \in DOMAIN h \ {a} : g[x] = h[x]
  OBVIOUS
<1>6. \A x \in DOMAIN h : /\ g[x].size = h[x].size
                          /\ g[x].next = h[x].next
                          /\ g[x].prev = h[x].prev
  BY <1>4, <1>5
<1>7. HeadersOK(g)
  BY <1>1, <1>4, <1>5 DEF HeadersOK
<1>8. ListOK(g, head)
  BY <1>1, <1>6, SameShape
<1> QED
  BY <1>1, <1>4, <1>5, <1>6, <1>7, <1>8

\* g is h with the block a cut at rem: the new header lies inside the old
\* block, and the two parts together are the old block.
SplitShape(h, g, a, size, rem) ==
  /\ rem \in Nat \ {0} /\ a < rem /\ rem \notin DOMAIN h
  /\ DOMAIN g = DOMAIN h \cup {rem}
  /\ g[rem] \in Header /\ g[rem].free
  /\ g[rem].next = h[a].next /\ g[rem].prev = a
  /\ g[rem].size \in Nat /\ End(g, rem) = End(h, a)
  /\ g[a] \in Header /\ ~g[a].free /\ g[a].size = size
  /\ g[a].next = rem /\ g[a].prev = h[a].prev /\ End(g, a) = rem
  /\ \A x \in DOMAIN h \ {a} :
       /\ g[x] \in Header
       /\ g[x].size = h[x].size /\ g[x].free = h[x].free
       /\ g[x].next = h[x].next /\ End(g, x) = End(h, x)
       /\ g[x].prev = IF x = h[a].next THEN rem ELSE h[x].prev

\* The fields of every header after kmalloc's split.
LEMMA SplitFields ==
  ASSUME NEW h, NEW head, HeadersOK(h), ListOK(h, head),
         NEW a \in DOMAIN h, NEW size \in Nat, Splits(h, a, size)
  PROVE  SplitShape(h, Placed(h, a, size), a, size, a + HDR + size)
<1> DEFINE g == Placed(h, a, size)
           rem == a + HDR + size
           D == DOMAIN h
<1>0. HDR \in Nat \ {0} /\ MIN_SPLIT_SIZE \in Nat
  BY HeapAssumption
<1>1. \A x \in D : /\ x \in Nat /\ x # 0 /\ h[x] \in Header /\ h[x].size \in Nat
                   /\ h[x].free \in BOOLEAN /\ h[x].next \in Nat /\ h[x].prev \in Nat
  BY FieldTypes
<1>2. rem \in Nat \ {0} /\ a < rem /\ rem < End(h, a)
  BY <1>0, <1>1 DEF Splits, End
<1>3. rem \notin D
  <2>1. \A x \in D : a < x => End(h, a) <= x
    BY DEF ListOK, Disjoint
  <2>2. End(h, a) \in Nat
    BY <1>0, <1>1 DEF End
  <2> QED
    BY <1>1, <1>2, <2>1, <2>2
<1>4. h[a].size - size - HDR \in Nat
  BY <1>0, <1>1 DEF Splits
<1>5. g = [x \in D \cup {rem} |->
              IF x = rem
              THEN [size |-> h[a].size - size - HDR, free |-> TRUE,
                    next |-> h[a].next, prev |-> a]
              ELSE IF x = a
              THEN [size |-> size, free |-> FALSE, next |-> rem, prev |-> h[a].prev]
              ELSE IF x = h[a].next THEN [h[x] EXCEPT !.prev = rem]
              ELSE h[x]]
  BY DEF Placed
<1> HIDE DEF g
<1>6. DOMAIN g = D \cup {rem}
  BY <1>5
<1>7. g[rem] = [size |-> h[a].size - size - HDR, free |-> TRUE,
                next |-> h[a].next, prev |-> a]
  BY <1>5
<1>8. g[a] = [size |-> size, free |-> FALSE, next |-> rem, prev |-> h[a].prev]
  BY <1>5, <1>2, <1>1, <1>3
<1>9. /\ g[rem] \in Header /\ g[rem].free
      /\ g[rem].next = h[a].next /\ g[rem].prev = a
      /\ g[rem].size \in Nat /\ g[rem].size = h[a].size - size - HDR
  BY <1>1, <1>4, <1>7 DEF Header
<1>10. End(g, rem) = End(h, a)
  BY <1>0, <1>1, <1>9 DEF End
<1>11. /\ g[a] \in Header /\ ~g[a].free /\ g[a].size = size
       /\ g[a].next = rem /\ g[a].prev = h[a].prev
  BY <1>1, <1>2, <1>8 DEF Header
<1>12. End(g, a) = rem
  BY <1>11 DEF End
<1>13. ASSUME NEW x \in D \ {a}
       PROVE  /\ g[x] \in Header
              /\ g[x].size = h[x].size /\ g[x].free = h[x].free
              /\ g[x].next = h[x].next
              /\ g[x].prev = IF x = h[a].next THEN rem ELSE h[x].prev
  <2>1. CASE x = h[a].next
    <3>1. g[x] = [h[x] EXCEPT !.prev = rem]
      BY <1>3, <1>5, <2>1
    <3> QED
      BY <1>1, <1>2, <2>1, <3>1 DEF Header
  <2>2. CASE x # h[a].next
    <3>1. g[x] = h[x]
      BY <1>3, <1>5, <2>2
    <3> QED
      BY <1>1, <2>2, <3>1
  <2> QED
    BY <2>1, <2>2
<1>14. \A x \in D \ {a} : End(g, x) = End(h, x)
  BY <1>13 DEF End
<1> QED
  BY <1>2, <1>3, <1>6, <1>9, <1>10, <1>11, <1>12, <1>13, <1>14 DEF g, SplitShape

\* kmalloc: splitting a block keeps the list in address order.
LEMMA SplitOK ==
  ASSUME NEW h, NEW head, HeadersOK(h), ListOK(h, head),
         NEW a \in DOMAIN h, NEW size \in Nat, Splits(h, a, size)
  PROVE  HeadersOK(Placed(h, a, size)) /\ ListOK(Placed(h, a, size), head)
<1> DEFINE g == Placed(h, a, size)
           rem == a + HDR + size
           D == DOMAIN h
<1>0. SplitShape(h, g, a, size, rem)
  BY SplitFields
<1>1. /\ rem \in Nat \ {0} /\ a < rem /\ rem \notin D
      /\ DOMAIN g = D \cup {rem}
      /\ g[rem] \in Header /\ g[rem].next = h[a].next /\ g[rem].prev = a
      /\ g[rem].size \in Nat /\ End(g, rem) = End(h, a)
      /\ g[a] \in Header /\ g[a].next = rem /\ g[a].prev = h[a].prev
      /\ End(g, a) = rem
      /\ \A x \in D \ {a} : /\ g[x] \in Header
                            /\ g[x].next = h[x].next /\ End(g, x) = End(h, x)
                            /\ g[x].prev = IF x = h[a].next THEN rem ELSE h[x].prev
  BY <1>0 DEF SplitShape
<1>2. \A x \in D : /\ x \in Nat /\ x # 0 /\ h[x].size \in Nat
                   /\ h[x].next \in Nat /\ h[x].prev \in Nat
                   /\ End(h, x) \in Nat /\ x < End(h, x)
  BY FieldTypes, HeapAssumption DEF End
<1>3. g \in [DOMAIN g -> Header]
  <2>1. \A x \in DOMAIN g : g[x] \in Header
    BY <1>1
  <2>2. g = [x \in DOMAIN g |-> g[x]]
    BY DEF Placed
  <2> QED
    BY <2>1, <2>2
<1> HIDE DEF g, rem, D
<1>4. HeadersOK(g)
  BY <1>1, <1>2, <1>3 DEF HeadersOK, Null
<1>5. /\ \A x, y \in D : x < y => End(h, x) <= y
      /\ a \in D
  BY DEF ListOK, Disjoint, D
<1>6. rem < End(h, a)
  BY <1>1, <1>2, <1>5, HeapAssumption DEF End
<1>7. \A x \in D : (x < a => x < rem) /\ (a < x => rem < x)
  BY <1>1, <1>2, <1>5, <1>6
<1>8. Disjoint(g)
  <2>1. \A x, y \in D \cup {rem} : x < y => End(g, x) <= y
    BY <1>1, <1>2, <1>5, <1>6, <1>7
  <2> QED
    BY <1>1, <2>1 DEF Disjoint
<1>9. NextFollows(g)
  <2>0. \A x \in D : IF h[x].next = Null THEN \A y \in D : y <= x
                     ELSE /\ h[x].next \in D /\ x < h[x].next
                          /\ \A y \in D : x < y => h[x].next <= y
    BY DEF ListOK, NextFollows, D
  <2>1. IF g[rem].next = Null THEN \A y \in D \cup {rem} : y <= rem
        ELSE /\ g[rem].next \in D \cup {rem} /\ rem < g[rem].next
             /\ \A y \in D \cup {rem} : rem < y => g[rem].next <= y
    BY <1>1, <1>2, <1>5, <1>7, <2>0
  <2>2. /\ g[a].next = rem /\ rem # Null /\ a < rem
        /\ \A y \in D \cup {rem} : a < y => rem <= y
    BY <1>1, <1>2, <1>5, <1>7 DEF Null
  <2>3. ASSUME NEW x \in D, x # a
        PROVE  IF g[x].next = Null THEN \A y \in D \cup {rem} : y <= x
               ELSE /\ g[x].next \in D \cup {rem} /\ x < g[x].next
                    /\ \A y \in D \cup {rem} : x < y => g[x].next <= y
    BY <1>1, <1>2, <1>5, <1>7, <2>0, <2>3
  <2> QED
    BY <1>1, <2>1, <2>2, <2>3 DEF NextFollows
<1>10. PrevPrecedes(g)
  <2>0. \A x \in D : IF h[x].prev = Null THEN \A y \in D : x <= y
                     ELSE /\ h[x].prev \in D /\ h[x].prev < x
                          /\ \A y \in D : y < x => y <= h[x].prev
    BY DEF ListOK, PrevPrecedes, D
  <2>1. h[a].next # Null =>
          h[a].next \in D /\ a < h[a].next /\ \A y \in D : a < y => h[a].next <= y
    BY DEF ListOK, NextFollows, D
  <2>2. h[a].next = Null => \A y \in D : y <= a
    BY DEF ListOK, NextFollows, D
  <2>3. /\ g[rem].prev = a /\ a \in DOMAIN g /\ a < rem /\ a # Null
        /\ \A y \in D \cup {rem} : y < rem => y <= a
    BY <1>1, <1>2, <1>5, <1>7 DEF Null
  <2>4. IF g[a].prev = Null THEN \A y \in D \cup {rem} : a <= y
        ELSE /\ g[a].prev \in D \cup {rem} /\ g[a].prev < a
             /\ \A y \in D \cup {rem} : y < a => y <= g[a].prev
    BY <1>1, <1>2, <1>5, <1>7, <2>0
  <2>5. ASSUME NEW x \in D, x # a, x = h[a].next
        PROVE  /\ g[x].prev = rem /\ rem # Null /\ rem < x
               /\ \A y \in D \cup {rem} : y < x => y <= rem
    <3>1. x # Null
      BY <1>2, <2>5 DEF Null
    <3> QED
      BY <1>1, <1>2, <1>5, <1>7, <2>1, <2>5, <3>1 DEF Null
  <2>6. ASSUME NEW x \in D, x # a, x # h[a].next
        PROVE  IF g[x].prev = Null THEN \A y \in D \cup {rem} : x <= y
               ELSE /\ g[x].prev \in D \cup {rem} /\ g[x].prev < x
                    /\ \A y \in D \cup {rem} : y < x => y <= g[x].prev
    <3>1. g[x].prev = h[x].prev
      BY <1>1, <2>6
    <3>2. CASE x < a
      BY <1>1, <1>2, <1>5, <1>7, <2>0, <2>6, <3>1, <3>2
    <3>3. CASE a < x
      <4>1. h[a].next \in D /\ a < h[a].next /\ h[a].next < x
        BY <1>2, <1>5, <2>1, <2>2, <2>6, <3>3
      <4> QED
        BY <1>1, <1>2, <1>5, <1>7, <2>0, <2>6, <3>1, <3>3, <4>1
    <3> QED
      BY <1>2, <1>5, <2>6, <3>2, <3>3
  <2> QED
    BY <1>1, <2>3, <2>4, <2>5, <2>6 DEF PrevPrecedes
<1>11. HeadFirst(g, head)
  BY <1>1, <1>2, <1>5, <1>7 DEF ListOK, HeadFirst, D
<1> QED
  BY <1>4, <1>8, <1>9, <1>10, <1>11 DEF ListOK, g

\* g is h with the block higher absorbed by lower.
MergeShape(h, g, lower, higher) ==
  /\ lower < higher
  /\ DOMAIN g = DOMAIN h \ {higher}
  /\ g[lower] \in Header /\ g[lower].free = h[lower].free
  /\ g[lower].next = h[higher].next /\ g[lower].prev = h[lower].prev
  /\ End(g, lower) = End(h, higher)
  /\ \A x \in DOMAIN h \ {lower, higher} :
       /\ g[x] \in Header
       /\ g[x].size = h[x].size /\ g[x].free = h[x].free
       /\ g[x].next = h[x].next /\ End(g, x) = End(h, x)
       /\ g[x].prev = IF x = h[higher].next THEN lower ELSE h[x].prev

\* The fields of every header after try_merge absorbed a block.
LEMMA MergeFields ==
  ASSUME NEW h, HeadersOK(h), NEW lower \in DOMAIN h, NEW higher \in DOMAIN h,
         End(h, lower) = higher
  PROVE  MergeShape(h, Merged(h, lower, higher), lower, higher)
<1> DEFINE g == Merged(h, lower, higher)
           D == DOMAIN h
<1>0. HDR \in Nat \ {0}
  BY HeapAssumption
<1>1. \A x \in D : /\ x \in Nat /\ x # 0 /\ h[x] \in Header /\ h[x].size \in Nat
                   /\ h[x].free \in BOOLEAN /\ h[x].next \in Nat /\ h[x].prev \in Nat
  BY FieldTypes
<1>2. lower < higher
  BY <1>0, <1>1 DEF End
<1>3. g = [a \in D \ {higher} |->
             IF a = lower
             THEN [h[a] EXCEPT !.size = h[lower].size + HDR + h[higher].size,
                               !.next = h[higher].next]
             ELSE IF a = h[higher].next THEN [h[a] EXCEPT !.prev = lower]
             ELSE h[a]]
  BY DEF Merged
<1> HIDE DEF g
<1>4. DOMAIN g = D \ {higher}
  BY <1>3
<1>5. g[lower] = [h[lower] EXCEPT !.size = h[lower].size + HDR + h[higher].size,
                                  !.next = h[higher].next]
  <2>1. lower \in D \ {higher}
    BY <1>1, <1>2
  <2> QED
    BY <1>3, <2>1
<1>6. h[lower].size + HDR + h[higher].size \in Nat
  BY <1>0, <1>1
<1>7. /\ g[lower] \in Header /\ g[lower].free = h[lower].free
      /\ g[lower].size = h[lower].size + HDR + h[higher].size
      /\ g[lower].next = h[higher].next /\ g[lower].prev = h[lower].prev
  BY <1>1, <1>5, <1>6 DEF Header
<1>8. End(g, lower) = End(h, higher)
  BY <1>0, <1>1, <1>7 DEF End
<1>9. ASSUME NEW x \in D \ {lower, higher}
      PROVE  /\ g[x] \in Header
             /\ g[x].size = h[x].size /\ g[x].free = h[x].free
             /\ g[x].next = h[x].next
             /\ g[x].prev = IF x = h[higher].next THEN lower ELSE h[x].prev
  <2>1. CASE x = h[higher].next
    <3>1. g[x] = [h[x] EXCEPT !.prev = lower]
      BY <1>3, <2>1
    <3> QED
      BY <1>1, <2>1, <3>1 DEF Header
  <2>2. CASE x # h[higher].next
    <3>1. g[x] = h[x]
      BY <1>3, <2>2
    <3> QED
      BY <1>1, <2>2, <3>1
  <2> QED
    BY <2>1, <2>2
<1>10. \A x \in D \ {lower, higher} : End(g, x) = End(h, x)
  BY <1>9 DEF End
<1> QED
  BY <1>2, <1>4, <1>7, <1>8, <1>9, <1>10 DEF g, MergeShape

\* try_merge: absorbing the adjacent block keeps the list in address order.
LEMMA MergeOK ==
  ASSUME NEW h, NEW head, HeadersOK(h), ListOK(h, head),
         NEW lower \in DOMAIN h, NEW higher \in DOMAIN h,
         End(h, lower) = higher
  PROVE  /\ HeadersOK(Merged(h, lower, higher))
         /\ ListOK(Merged(h, lower, higher), head)
<1> DEFINE g == Merged(h, lower, higher)
           D == DOMAIN h
<1>0. MergeShape(h, g, lower, higher)
  BY MergeFields
<1>1. /\ lower < higher
      /\ DOMAIN g = D \ {higher}
      /\ g[lower] \in Header
      /\ g[lower].next = h[higher].next /\ g[lower].prev = h[lower].prev
      /\ End(g, lower) = End(h, higher)
      /\ \A x \in D \ {lower, higher} :
           /\ g[x] \in Header
           /\ g[x].next = h[x].next /\ End(g, x) = End(h, x)
           /\ g[x].prev = IF x = h[higher].next THEN lower ELSE h[x].prev
  BY <1>0 DEF MergeShape
<1>2. \A x \in D : /\ x \in Nat /\ x # 0
                   /\ h[x].next \in Nat /\ h[x].prev \in Nat
                   /\ End(h, x) \in Nat /\ x < End(h, x)
  BY FieldTypes, HeapAssumption DEF End
<1>3. g \in [DOMAIN g -> Header]
  <2>1. \A x \in DOMAIN g : g[x] \in Header
    BY <1>1
  <2>2. g = [x \in DOMAIN g |-> g[x]]
    BY DEF Merged
  <2> QED
    BY <2>1, <2>2
<1> HIDE DEF g, D
<1>4. HeadersOK(g)
  BY <1>1, <1>2, <1>3 DEF HeadersOK, Null
<1>5. /\ \A x, y \in D : x < y => End(h, x) <= y
      /\ lower \in D /\ higher \in D
  BY DEF ListOK, Disjoint, D
<1>6. \A x \in D : (lower < x => higher <= x) /\ (x < higher => x <= lower)
  BY <1>1, <1>2, <1>5
<1>7. Disjoint(g)
  <2>1. \A x, y \in D \ {higher} : x < y => End(g, x) <= y
    BY <1>1, <1>2, <1>5, <1>6
  <2> QED
    BY <1>1, <2>1 DEF Disjoint
<1>8. \A x \in D : IF h[x].next = Null THEN \A y \in D : y <= x
                   ELSE /\ h[x].next \in D /\ x < h[x].next
                        /\ \A y \in D : x < y => h[x].next <= y
  BY DEF ListOK, NextFollows, D
<1>9. NextFollows(g)
  <2>1. IF g[lower].next = Null THEN \A y \in D \ {higher} : y <= lower
        ELSE /\ g[lower].next \in D \ {higher} /\ lower < g[lower].next
             /\ \A y \in D \ {higher} : lower < y => g[lower].next <= y
    BY <1>1, <1>2, <1>5, <1>6, <1>8
  <2>2. ASSUME NEW x \in D \ {lower, higher}
        PROVE  IF g[x].next = Null THEN \A y \in D \ {higher} : y <= x
               ELSE /\ g[x].next \in D \ {higher} /\ x < g[x].next
                    /\ \A y \in D \ {higher} : x < y => g[x].next <= y
    <3>1. h[x].next # higher
      BY <1>1, <1>2, <1>5, <1>6, <1>8, <2>2
    <3> QED
      BY <1>1, <1>2, <1>5, <1>6, <1>8, <2>2, <3>1
  <2> QED
    BY <1>1, <2>1, <2>2 DEF NextFollows
<1>10. PrevPrecedes(g)
  <2>0. \A x \in D : IF h[x].prev = Null THEN \A y \in D : x <= y
                     ELSE /\ h[x].prev \in D /\ h[x].prev < x
                          /\ \A y \in D : y < x => y <= h[x].prev
    BY DEF ListOK, PrevPrecedes, D
  <2>1. IF g[lower].prev = Null THEN \A y \in D \ {higher} : lower <= y
        ELSE /\ g[lower].prev \in D \ {higher} /\ g[lower].prev < lower
             /\ \A y \in D \ {higher} : y < lower => y <= g[lower].prev
    BY <1>1, <1>2, <1>5, <1>6, <2>0
  <2>2. ASSUME NEW x \in D \ {lower, higher}, x = h[higher].next
        PROVE  /\ g[x].prev = lower /\ lower # Null /\ lower < x
               /\ \A y \in D \ {higher} : y < x => y <= lower
    <3>1. x # Null
      BY <1>2, <2>2 DEF Null
    <3> QED
      BY <1>1, <1>2, <1>5, <1>6, <1>8, <2>2, <3>1 DEF Null
  <2>3. ASSUME NEW x \in D \ {lower, higher}, x # h[higher].next
        PROVE  IF g[x].prev = Null THEN \A y \in D \ {higher} : x <= y
               ELSE /\ g[x].prev \in D \ {higher} /\ g[x].prev < x
                    /\ \A y \in D \ {higher} : y < x => y <= g[x].prev
    <3>1. g[x].prev = h[x].prev
      BY <1>1, <2>3
    <3>2. h[x].prev # higher
      <4>1. CASE x < higher
        BY <1>2, <1>5, <2>0, <2>3, <4>1 DEF Null
      <4>2. CASE higher < x
        <5>1. h[higher].next \in D /\ higher < h[higher].next /\ h[higher].next < x
          <6>1. h[higher].next # Null
            BY <1>2, <1>5, <1>8, <2>3, <4>2
          <6>2. /\ h[higher].next \in D /\ higher < h[higher].next
                /\ h[higher].next <= x
            BY <1>5, <1>8, <2>3, <4>2, <6>1
          <6> QED
            BY <1>2, <2>3, <6>2
        <5> QED
          BY <1>2, <1>5, <2>0, <2>3, <4>2, <5>1 DEF Null
      <4> QED
        BY <1>2, <1>5, <2>3, <4>1, <4>2
    <3> QED
      BY <1>1, <1>2, <1>5, <1>6, <2>0, <2>3, <3>1, <3>2
  <2> QED
    BY <1>1, <1>2, <1>5, <2>1, <2>2, <2>3 DEF PrevPrecedes
<1>11. HeadFirst(g, head)
  BY <1>1, <1>2, <1>5, <1>6 DEF ListOK, HeadFirst, D
<1> QED
  BY <1>4, <1>7, <1>9, <1>10, <1>11 DEF ListOK, g

-----------------------------------------------------------------------------
(* What kmalloc and kfree do to the blocks in use *)

Used(h) == {a \in DOMAIN h : ~h[a].free}

\* g holds the same memory as h: every block starts at or above a block of
\* h, and no block reaches beyond the blocks of h.
Within(h, g) ==
  \A x \in DOMAIN g : /\ \E y \in DOMAIN h : y <= x
                      /\ \E y \in DOMAIN h : End(g, x) <= End(h, y)

\* kmalloc takes one free block into use and disturbs no other.
LEMMA PlacedOK ==
  ASSUME NEW h, NEW head, HeadersOK(h), ListOK(h, head),
         NEW a \in DOMAIN h, NEW size \in Nat, h[a].free, size <= h[a].size
  PROVE  LET g == Placed(h, a, size)
         IN  /\ HeadersOK(g) /\ ListOK(g, head)
             /\ Used(g) = Used(h) \cup {a}
             /\ \A x \in Used(h) : g[x].size = h[x].size
             /\ a \in DOMAIN g /\ g[a].size \in Nat /\ size <= g[a].size
             /\ Within(h, g)
<1> DEFINE g == Placed(h, a, size)
           rem == a + HDR + size
<1>1. \A x \in DOMAIN h : /\ x \in Nat /\ h[x].size \in Nat /\ h[x].free \in BOOLEAN
                          /\ End(h, x) \in Nat
  BY FieldTypes, HeapAssumption DEF End
<1>2. CASE Splits(h, a, size)
  <2>1. SplitShape(h, g, a, size, rem)
    BY <1>2, SplitFields
  <2>2. HeadersOK(g) /\ ListOK(g, head)
    BY <1>2, SplitOK
  <2> HIDE DEF g, rem
  <2>3. /\ rem \in Nat /\ a < rem
        /\ rem \notin DOMAIN h /\ DOMAIN g = DOMAIN h \cup {rem}
        /\ g[rem].free /\ ~g[a].free /\ g[a].size = size
        /\ End(g, a) = rem /\ End(g, rem) = End(h, a) /\ g[rem].size \in Nat
        /\ \A x \in DOMAIN h \ {a} : /\ g[x].size = h[x].size
                                     /\ g[x].free = h[x].free
                                     /\ End(g, x) = End(h, x)
    BY <2>1 DEF SplitShape
  <2>4. Used(g) = Used(h) \cup {a}
    BY <2>3 DEF Used
  <2>5. \A x \in Used(h) : g[x].size = h[x].size
    BY <2>3 DEF Used
  <2>6. rem <= End(h, a)
    BY <1>1, <2>3, HeapAssumption DEF End
  <2>7. Within(h, g)
    BY <1>1, <2>3, <2>6 DEF Within
  <2> QED
    BY <2>2, <2>3, <2>4, <2>5, <2>7 DEF g
<1>3. CASE ~Splits(h, a, size)
  <2> DEFINE m == [h EXCEPT ![a].free = FALSE]
  <2>1. /\ HeadersOK(m) /\ ListOK(m, head)
        /\ DOMAIN m = DOMAIN h
        /\ m[a].free = FALSE
        /\ \A x \in DOMAIN h : m[x].size = h[x].size
        /\ \A x \in DOMAIN h \ {a} : m[x] = h[x]
    BY Marked
  <2> HIDE DEF m
  <2>2. /\ HeadersOK(g) /\ ListOK(g, head)
        /\ DOMAIN g = DOMAIN h
        /\ g[a].free = FALSE
        /\ \A x \in DOMAIN h : g[x].size = h[x].size
        /\ \A x \in DOMAIN h \ {a} : g[x] = h[x]
    <3>1. g = m
      BY <1>3 DEF Placed, m
    <3> QED
      BY <2>1, <3>1
  <2> HIDE DEF g
  <2>3. Used(g) = Used(h) \cup {a}
    BY <2>2 DEF Used
  <2>4. \A x \in DOMAIN h : End(g, x) = End(h, x)
    BY <2>2 DEF End
  <2>5. Within(h, g)
    BY <1>1, <2>2, <2>4 DEF Within
  <2> QED
    <3>1. \A x \in Used(h) : g[x].size = h[x].size
      BY <2>2 DEF Used
    <3>2. a \in DOMAIN g /\ g[a].size \in Nat /\ size <= g[a].size
      BY <1>1, <2>2
    <3> QED
      BY <2>2, <2>3, <2>5, <3>1, <3>2 DEF g
<1> QED
  BY <1>2, <1>3

\* g is h after some free blocks were merged.
Coarser(h, g) ==
  /\ DOMAIN g \subseteq DOMAIN h
  /\ Used(g) = Used(h)
  /\ \A x \in Used(h) : g[x].size = h[x].size
  /\ \A x \in DOMAIN g : \E y \in DOMAIN h : End(g, x) = End(h, y)

\* try_merge of two free blocks.
LEMMA MergeCoarser ==
  ASSUME NEW h, HeadersOK(h), NEW lower \in DOMAIN h, NEW higher \in DOMAIN h,
         End(h, lower) = higher, h[lower].free, h[higher].free
  PROVE  /\ Coarser(h, Merged(h, lower, higher))
         /\ lower \in DOMAIN Merged(h, lower, higher)
         /\ Merged(h, lower, higher)[lower].free
<1> DEFINE g == Merged(h, lower, higher)
<1>1. MergeShape(h, g, lower, higher)
  BY MergeFields
<1>2. lower \in Nat /\ higher \in Nat
  BY FieldTypes
<1> HIDE DEF g
<1>3. /\ lower # higher
      /\ DOMAIN g = DOMAIN h \ {higher}
      /\ g[lower].free /\ End(g, lower) = End(h, higher)
      /\ \A x \in DOMAIN h \ {lower, higher} :
           /\ g[x].size = h[x].size /\ g[x].free = h[x].free
           /\ End(g, x) = End(h, x)
  BY <1>1, <1>2 DEF MergeShape
<1>4. Used(g) = Used(h)
  BY <1>3 DEF Used
<1>5. \A x \in Used(h) : g[x].size = h[x].size
  BY <1>3 DEF Used
<1>6. \A x \in DOMAIN g : \E y \in DOMAIN h : End(g, x) = End(h, y)
  BY <1>3
<1> QED
  BY <1>3, <1>4, <1>5, <1>6 DEF Coarser, g

\* try_merge with the next neighbor keeps the list in address order.
LEMMA TryMergeNextOK ==
  ASSUME NEW h, NEW head, HeadersOK(h), ListOK(h, head),
         NEW a \in DOMAIN h, h[a].free
  PROVE  LET g == TryMerge(h, a, h[a].next, TRUE)
         IN  /\ HeadersOK(g) /\ ListOK(g, head) /\ Coarser(h, g)
             /\ a \in DOMAIN g /\ g[a].free
<1> DEFINE g == TryMerge(h, a, h[a].next, TRUE)
<1>1. CASE Mergeable(h, h[a].next) /\ End(h, a) = h[a].next
  <2>1. h[a].next \in DOMAIN h /\ h[h[a].next].free
    BY <1>1 DEF Mergeable, ListOK, NextFollows
  <2>2. g = Merged(h, a, h[a].next)
    BY <1>1 DEF TryMerge
  <2>3. HeadersOK(g) /\ ListOK(g, head)
    BY <1>1, <2>1, <2>2, MergeOK
  <2>4. Coarser(h, g) /\ a \in DOMAIN g /\ g[a].free
    BY <1>1, <2>1, <2>2, MergeCoarser
  <2> QED
    BY <2>3, <2>4
<1>2. CASE ~(Mergeable(h, h[a].next) /\ End(h, a) = h[a].next)
  <2>1. g = h
    BY <1>2 DEF TryMerge
  <2> QED
    BY <2>1 DEF Coarser
<1> QED
  BY <1>1, <1>2

\* try_merge with the previous neighbor keeps the list in address order.
LEMMA TryMergePrevOK ==
  ASSUME NEW h, NEW head, HeadersOK(h), ListOK(h, head),
         NEW a \in DOMAIN h, h[a].free
  PROVE  LET g == TryMerge(h, a, h[a].prev, FALSE)
         IN  HeadersOK(g) /\ ListOK(g, head) /\ Coarser(h, g)
<1> DEFINE g == TryMerge(h, a, h[a].prev, FALSE)
<1>1. CASE Mergeable(h, h[a].prev) /\ End(h, h[a].prev) = a
  <2>1. h[a].prev \in DOMAIN h /\ h[h[a].prev].free
    BY <1>1 DEF Mergeable, ListOK, PrevPrecedes
  <2>2. g = Merged(h, h[a].prev, a)
    BY <1>1 DEF TryMerge
  <2>3. HeadersOK(g) /\ ListOK(g, head)
    BY <1>1, <2>1, <2>2, MergeOK
  <2>4. Coarser(h, g)
    BY <1>1, <2>1, <2>2, MergeCoarser
  <2> QED
    BY <2>3, <2>4
<1>2. CASE ~(Mergeable(h, h[a].prev) /\ End(h, h[a].prev) = a)
  <2>1. g = h
    BY <1>2 DEF TryMerge
  <2> QED
    BY <2>1 DEF Coarser
<1> QED
  BY <1>1, <1>2

\* kfree takes one block out of use and disturbs no other block in use.
LEMMA FreedOK ==
  ASSUME NEW h, NEW head, HeadersOK(h), ListOK(h, head),
         NEW a \in DOMAIN h
  PROVE  LET g == Freed(h, a)
         IN  /\ HeadersOK(g) /\ ListOK(g, head)
             /\ DOMAIN g \subseteq DOMAIN h
             /\ Used(g) = Used(h) \ {a}
             /\ \A x \in Used(g) : g[x].size = h[x].size
             /\ \A x \in DOMAIN g : \E y \in DOMAIN h : End(g, x) = End(h, y)
<1> DEFINE h1 == [h EXCEPT ![a].free = TRUE]
           h2 == TryMerge(h1, a, h1[a].next, TRUE)
           h3 == TryMerge(h2, a, h2[a].prev, FALSE)
<1>1. /\ HeadersOK(h1) /\ ListOK(h1, head)
      /\ DOMAIN h1 = DOMAIN h /\ h1[a].free = TRUE
      /\ \A x \in DOMAIN h : h1[x].size = h[x].size
      /\ \A x \in DOMAIN h \ {a} : h1[x] = h[x]
  BY Marked
<1>2. Used(h1) = Used(h) \ {a} /\ \A x \in DOMAIN h : End(h1, x) = End(h, x)
  BY <1>1 DEF Used, End
<1> HIDE DEF h1
<1>3. /\ HeadersOK(h2) /\ ListOK(h2, head) /\ Coarser(h1, h2)
      /\ a \in DOMAIN h2 /\ h2[a].free
  BY <1>1, TryMergeNextOK
<1> HIDE DEF h2
<1>4. HeadersOK(h3) /\ ListOK(h3, head) /\ Coarser(h2, h3)
  BY <1>3, TryMergePrevOK
<1> HIDE DEF h3
<1>5. /\ DOMAIN h3 \subseteq DOMAIN h
      /\ Used(h3) = Used(h) \ {a}
      /\ \A x \in Used(h3) : h3[x].size = h[x].size
  BY <1>1, <1>2, <1>3, <1>4 DEF Coarser, Used
<1>6. \A x \in DOMAIN h3 : \E y \in DOMAIN h : End(h3, x) = End(h, y)
  BY <1>1, <1>2, <1>3, <1>4 DEF Coarser
<1>7. h3 = Freed(h, a)
  BY DEF h1, h2, h3, Freed
<1> QED
  BY <1>4, <1>5, <1>6, <1>7

-----------------------------------------------------------------------------
(* Pages and sizes *)

LEMMA RequestsAreSizes == Requests \subseteq Sizes
  BY HeapAssumption DEF Sizes

\* align_up never shrinks a request that it does not wrap.
LEMMA AlignUpOK ==
  ASSUME NEW req \in Sizes
  PROVE  /\ req \in Nat /\ AlignUp(req) \in Nat
         /\ req <= WORD - ALIGNMENT => req <= AlignUp(req)
<1>1. req \in Nat /\ WORD \in Nat \ {0} /\ ALIGNMENT \in Nat \ {0}
  BY HeapAssumption DEF Sizes
<1> DEFINE m == (req + ALIGNMENT - 1) % WORD
<1>2. m \in Nat /\ (req <= WORD - ALIGNMENT => m = req + ALIGNMENT - 1)
  BY <1>1
<1> HIDE DEF m
<1>3. (m \div ALIGNMENT) * ALIGNMENT \in Nat
  BY <1>1, <1>2
<1>4. m < (m \div ALIGNMENT + 1) * ALIGNMENT
  BY <1>1, <1>2
<1>5. m - ALIGNMENT < (m \div ALIGNMENT) * ALIGNMENT
  BY <1>1, <1>2, <1>4
<1>6. AlignUp(req) = (m \div ALIGNMENT) * ALIGNMENT
  BY DEF AlignUp, m
<1> QED
  BY <1>1, <1>2, <1>3, <1>5, <1>6

\* An extent of got pages ends where its last page ends.
LEMMA PageArithmetic ==
  ASSUME NEW first \in Nat, NEW got \in Nat \ {0}
  PROVE  /\ first * PAGE_SIZE \in Nat
         /\ ExtentSize(got) \in Nat
         /\ first * PAGE_SIZE + HDR + ExtentSize(got) = (first + got) * PAGE_SIZE
         /\ \A f \in Nat : first + got <= f =>
              (first + got) * PAGE_SIZE <= f * PAGE_SIZE
<1>1. PAGE_SIZE \in Nat \ {0} /\ HDR \in Nat /\ HDR < PAGE_SIZE
  BY PageAssumption, HeapAssumption
<1>2. first * PAGE_SIZE \in Nat /\ got * PAGE_SIZE \in Nat
  BY <1>1
<1>3. PAGE_SIZE <= got * PAGE_SIZE
  BY <1>1
<1>4. first * PAGE_SIZE + got * PAGE_SIZE = (first + got) * PAGE_SIZE
  BY <1>1
<1>5. \A f \in Nat : first + got <= f => (first + got) * PAGE_SIZE <= f * PAGE_SIZE
  BY <1>1
<1> QED
  BY <1>1, <1>2, <1>3, <1>4, <1>5 DEF ExtentSize

\* A page outside KernelPages starts above the kernel image.
LEMMA PageAboveKernel ==
  ASSUME NEW p \in Pages \ KernelPages
  PROVE  p * PAGE_SIZE > KERNEL_END
<1>1. PAGE_SIZE \in Nat \ {0} /\ KERNEL_END \in Nat /\ p \in Nat
  BY PageAssumption DEF Pages
<1>2. p >= KERNEL_END \div PAGE_SIZE + 1
  BY <1>1 DEF KernelPages
<1>3. KERNEL_END < (KERNEL_END \div PAGE_SIZE + 1) * PAGE_SIZE
  BY <1>1
<1>4. (KERNEL_END \div PAGE_SIZE + 1) * PAGE_SIZE <= p * PAGE_SIZE
  BY <1>1, <1>2
<1> QED
  BY <1>1, <1>3, <1>4

\* heap_extend takes the lowest free pages, in a row, and gives back the
\* stray page: what stays free lies above the run.
LEMMA TakePagesOK ==
  ASSUME TypeOK, NEW pages, NEW first \in Pages, NEW got \in 1 .. MAX_PAGES,
         TakePages(pages, first, got)
  PROVE  /\ bitmap' = bitmap \cup Run(first, got)
         /\ Run(first, got) \subseteq FreePages
         /\ \A f \in Pages \ bitmap' : first + got <= f
         /\ free_pages_count' = free_pages_count - got
         /\ mmap' = mmap
<1>0. MAX_PAGES \in Nat /\ got \in Nat \ {0} /\ first \in Nat /\ free_pages_count \in Int
  BY PageAssumption DEF Pages, TypeOK
<1>1. \A i \in 1 .. got - 1 : PmmAllocPage(bitmap \cup Run(first, i), first + i)
  BY DEF TakePages, Contiguous
<1>2. PmmAllocPage(bitmap, first)
  BY DEF TakePages, Contiguous
<1>3. bitmap' = bitmap \cup Run(first, got) /\ free_pages_count' = free_pages_count - got
  <2> DEFINE taken == bitmap \cup Run(first, got)
             Back(page) == PmmFreePage([bits |-> taken \cup {page},
                                        count |-> free_pages_count - (got + 1)], page)
  <2>1. ASSUME NEW page \in Pages \ taken
        PROVE  Back(page).bits = taken /\ Back(page).count = free_pages_count - got
    <3>1. Back(page) = [bits |-> (taken \cup {page}) \ {page},
                        count |-> free_pages_count - (got + 1) + 1]
      BY <2>1 DEF PmmFreePage, Cleared
    <3>2. free_pages_count - (got + 1) + 1 = free_pages_count - got
      BY <1>0
    <3> QED
      BY <2>1, <3>1, <3>2
  <2>2. \/ bitmap' = taken /\ free_pages_count' = free_pages_count - got
        \/ \E page \in Pages \ taken : bitmap' = Back(page).bits /\ free_pages_count' = Back(page).count
    BY DEF TakePages, Stray, PmmAllocPage
  <2> QED
    BY <2>1, <2>2
<1>4. ASSUME NEW p \in Run(first, got)
      PROVE  p \in FreePages
  <2>1. p \in Nat /\ first <= p /\ p <= first + got - 1
    BY <1>0 DEF Run
  <2>2. CASE p = first
    BY <1>2, <2>2 DEF PmmAllocPage, FreePages
  <2>3. CASE p # first
    <3>1. p - first \in 1 .. got - 1 /\ first + (p - first) = p
      BY <1>0, <2>1, <2>3
    <3> QED
      BY <1>1, <3>1 DEF PmmAllocPage, FreePages
  <2> QED
    BY <2>2, <2>3
<1>5. ASSUME NEW f \in Pages \ bitmap'
      PROVE  first + got <= f
  <2>1. f \in Nat /\ f \notin bitmap /\ f \notin Run(first, got)
    BY <1>3 DEF Pages
  <2>2. f < first \/ first + got <= f
    BY <1>0, <2>1 DEF Run
  <2>3. first <= f
    BY <1>2, <2>1 DEF PmmAllocPage
  <2> QED
    BY <1>0, <2>1, <2>2, <2>3
<1>6. mmap' = mmap
  BY DEF TakePages
<1> QED
  BY <1>3, <1>4, <1>5, <1>6

-----------------------------------------------------------------------------
(* The inductive invariant *)

\* g is h with the free extent b; the blocks in use are those from before.
AppendShape(h, g, b, size) ==
  /\ DOMAIN g = DOMAIN h \cup {b}
  /\ g[b].free /\ g[b].size = size
  /\ \A x \in DOMAIN h : /\ g[x].size = h[x].size
                         /\ g[x].free = h[x].free
                         /\ End(g, x) = End(h, x)
  /\ Used(g) = Used(h)

\* heap_extend changes no block that is in use.
LEMMA AppendedUsed ==
  ASSUME NEW h, HeadersOK(h), NEW b, b \notin DOMAIN h, NEW size, NEW tail
  PROVE  AppendShape(h, Appended(h, b, size, tail), b, size)
<1> DEFINE g == Appended(h, b, size, tail)
<1>1. DOMAIN g = DOMAIN h \cup {b}
  BY DEF Appended
<1>2. g[b].free /\ g[b].size = size
  BY DEF Appended
<1>3. ASSUME NEW x \in DOMAIN h
      PROVE  g[x].size = h[x].size /\ g[x].free = h[x].free
  <2>1. h[x] \in Header
    BY FieldTypes
  <2>2. g[x] = IF x = tail THEN [h[x] EXCEPT !.next = b] ELSE h[x]
    BY DEF Appended
  <2> HIDE DEF g
  <2> QED
    BY <2>1, <2>2 DEF Header
<1> HIDE DEF g
<1>4. \A x \in DOMAIN h : End(g, x) = End(h, x)
  BY <1>3 DEF End
<1>5. Used(g) = Used(h)
  BY <1>1, <1>2, <1>3 DEF Used
<1> QED
  BY <1>1, <1>2, <1>3, <1>4, <1>5 DEF g, AppendShape

\* What holds of the heap between growing it and granting the block.
Consistent(h, head, pages) ==
  /\ HeadersOK(h)
  /\ ListOK(h, head)
  /\ \A x \in DOMAIN h : x > KERNEL_END
  /\ \A f \in Pages \ pages, x \in DOMAIN h : End(h, x) <= f * PAGE_SIZE

\* The invariant, restated of the headers, the list and the bitmap.
LEMMA InvConsistent ==
  ASSUME HeapInv
  PROVE  Consistent(hdr, heap_head, bitmap)
<1>1. HeadersOK(hdr)
  BY DEF HeapInv, TypeOK, HeadersOK, Blocks
<1>2. ListOK(hdr, heap_head)
  BY DEF HeapInv, AddressOrdered, ListOK
<1>3. \A x \in DOMAIN hdr : x > KERNEL_END
  BY DEF HeapInv, AboveKernel, Blocks
<1>4. \A f \in Pages \ bitmap, x \in DOMAIN hdr : End(hdr, x) <= f * PAGE_SIZE
  BY DEF HeapInv, FreePagesAbove, FreePages, Blocks
<1> QED
  BY <1>1, <1>2, <1>3, <1>4 DEF Consistent

\* heap_extend, from a consistent heap h (empty in heap_init).
LEMMA ExtendOK ==
  ASSUME TypeOK, KernelPages \subseteq bitmap,
         NEW h, NEW head, Consistent(h, head, bitmap),
         NEW pages, NEW first \in Pages, NEW got \in 1 .. MAX_PAGES,
         TakePages(pages, first, got),
         NEW tail \in DOMAIN h \cup {Null},
         IF tail = Null THEN head = Null ELSE h[tail].next = Null
  PROVE  LET b == first * PAGE_SIZE
             g == Appended(h, b, ExtentSize(got), tail)
         IN  /\ Consistent(g, IF tail = Null THEN b ELSE head, bitmap')
             /\ b \in DOMAIN g /\ g[b].free /\ g[b].size = ExtentSize(got)
             /\ Used(g) = Used(h)
             /\ \A x \in Used(h) : g[x].size = h[x].size
             /\ ExtentSize(got) \in Nat /\ b \in Nat
             /\ bitmap' \subseteq Pages /\ KernelPages \subseteq bitmap'
             /\ free_pages_count' \in Int
<1> DEFINE b == first * PAGE_SIZE
           size == ExtentSize(got)
           g == Appended(h, b, size, tail)
<1>1. /\ bitmap' = bitmap \cup Run(first, got)
      /\ Run(first, got) \subseteq FreePages
      /\ \A f \in Pages \ bitmap' : first + got <= f
      /\ free_pages_count' = free_pages_count - got
  BY TakePagesOK
<1>2. first \in Nat /\ got \in Nat \ {0}
  BY PageAssumption DEF Pages
<1>3. /\ b \in Nat /\ size \in Nat /\ b + HDR + size = (first + got) * PAGE_SIZE
      /\ \A f \in Nat : first + got <= f => (first + got) * PAGE_SIZE <= f * PAGE_SIZE
  BY <1>2, PageArithmetic
<1>4. first \in Pages \ bitmap
  <2>1. first \in Run(first, got)
    BY <1>2 DEF Run
  <2> QED
    BY <1>1, <2>1 DEF FreePages
<1>5. b > KERNEL_END
  BY <1>4, PageAboveKernel
<1>6. \A x \in DOMAIN h : End(h, x) <= b
  BY <1>4 DEF Consistent
<1>7. HDR \in Nat \ {0} /\ KERNEL_END \in Nat
  BY HeapAssumption, PageAssumption
<1>8. b \in Nat \ {Null}
  BY <1>3, <1>5, <1>7 DEF Null
<1>9. HeadersOK(h) /\ ListOK(h, head)
  BY DEF Consistent
<1>10. b \notin DOMAIN h
  <2>1. \A x \in DOMAIN h : x \in Nat /\ h[x].size \in Nat
    BY <1>9, FieldTypes
  <2>2. \A x \in DOMAIN h : x < End(h, x)
    BY <1>7, <2>1 DEF End
  <2>3. \A x \in DOMAIN h : End(h, x) \in Nat
    BY <1>7, <2>1 DEF End
  <2> QED
    BY <1>3, <1>6, <2>1, <2>2, <2>3
<1> HIDE DEF b, size
<1>11. HeadersOK(g) /\ ListOK(g, IF tail = Null THEN b ELSE head)
  BY <1>3, <1>6, <1>8, <1>9, AppendedOK
<1>12. /\ DOMAIN g = DOMAIN h \cup {b} /\ g[b].free /\ g[b].size = size
       /\ \A x \in DOMAIN h : g[x].size = h[x].size /\ End(g, x) = End(h, x)
       /\ Used(g) = Used(h)
  <2>1. AppendShape(h, g, b, size)
    BY <1>9, <1>10, AppendedUsed
  <2> HIDE DEF g
  <2> QED
    BY <2>1 DEF AppendShape
<1> HIDE DEF g
<1>13. \A x \in DOMAIN g : x > KERNEL_END
  BY <1>5, <1>12 DEF Consistent
<1>14. ASSUME NEW f \in Pages \ bitmap', NEW x \in DOMAIN g
       PROVE  End(g, x) <= f * PAGE_SIZE
  <2>1. f \in Pages \ bitmap /\ f \in Nat
    BY <1>1 DEF Pages
  <2>2. CASE x = b
    <3>1. End(g, x) = (first + got) * PAGE_SIZE
      BY <1>3, <1>12, <2>2 DEF End
    <3> QED
      BY <1>1, <1>3, <2>1, <3>1
  <2>3. CASE x # b
    BY <1>12, <2>1, <2>3 DEF Consistent
  <2> QED
    BY <2>2, <2>3
<1>15. Consistent(g, IF tail = Null THEN b ELSE head, bitmap')
  BY <1>11, <1>13, <1>14 DEF Consistent
<1>16. /\ bitmap' \subseteq Pages /\ KernelPages \subseteq bitmap'
       /\ free_pages_count' \in Int
  BY <1>1, <1>2 DEF TypeOK, FreePages
<1>17. \A x \in Used(h) : g[x].size = h[x].size
  BY <1>12 DEF Used
<1> QED
  BY <1>3, <1>12, <1>15, <1>16, <1>17 DEF b, size, g

\* Granting a block of the heap h, which has the blocks in use of hdr.
LEMMA GrantedOK ==
  ASSUME HeapInv, NEW h, NEW head, NEW pages, Consistent(h, head, pages),
         Used(h) = Used(hdr), \A x \in Used(hdr) : h[x].size = hdr[x].size,
         NEW a \in DOMAIN h, h[a].free,
         NEW req \in Sizes, AlignUp(req) <= h[a].size,
         NEW free0 \in Int, Granted(h, free0, a, req)
  PROVE  /\ Consistent(hdr', head, pages)
         /\ used_bytes' \in 0 .. WORD - 1 /\ free_bytes' \in 0 .. WORD - 1
         /\ DOMAIN live' \subseteq Nat /\ live' \in [DOMAIN live' -> Sizes]
         /\ LiveIsUsed' /\ GrantsFit'
         /\ \A p \in DOMAIN live : Survives(p)
<1> DEFINE size == AlignUp(req)
           g == Placed(h, a, size)
<1>0. /\ HDR \in Nat \ {0} /\ WORD \in Nat \ {0} /\ KERNEL_END \in Nat
      /\ PAGE_SIZE \in Nat
  BY HeapAssumption, PageAssumption
<1>1. size \in Nat /\ req \in Nat /\ (req <= WORD - ALIGNMENT => req <= size)
  BY AlignUpOK
<1>2. HeadersOK(h) /\ ListOK(h, head)
  BY DEF Consistent
<1> HIDE DEF size
<1>3. /\ HeadersOK(g) /\ ListOK(g, head)
      /\ Used(g) = Used(h) \cup {a}
      /\ \A x \in Used(h) : g[x].size = h[x].size
      /\ a \in DOMAIN g /\ g[a].size \in Nat /\ size <= g[a].size
      /\ Within(h, g)
  BY <1>1, <1>2, PlacedOK DEF size
<1>4. /\ hdr' = g
      /\ free_bytes' = (free0 - g[a].size) % WORD
      /\ used_bytes' = (used_bytes + g[a].size) % WORD
      /\ live' = [p \in DOMAIN live \cup {a + HDR} |->
                    IF p = a + HDR THEN req ELSE live[p]]
  BY DEF Granted, size
<1> HIDE DEF g
<1>5. Consistent(g, head, pages)
  <2>1. \A x \in DOMAIN h : x \in Nat /\ End(h, x) \in Nat
    BY <1>0, <1>2, FieldTypes DEF End
  <2>2. \A x \in DOMAIN g : x \in Nat /\ End(g, x) \in Nat
    BY <1>0, <1>3, FieldTypes DEF End
  <2>3. \A x \in DOMAIN g : x > KERNEL_END
    BY <1>0, <1>3, <2>1, <2>2 DEF Within, Consistent
  <2>4. ASSUME NEW f \in Pages \ pages, NEW x \in DOMAIN g
        PROVE  End(g, x) <= f * PAGE_SIZE
    <3>1. PICK y \in DOMAIN h : End(g, x) <= End(h, y)
      BY <1>3 DEF Within
    <3>2. End(h, y) <= f * PAGE_SIZE
      BY DEF Consistent
    <3>3. f * PAGE_SIZE \in Nat
      BY <1>0, PageAssumption DEF Pages
    <3> QED
      BY <2>1, <2>2, <3>1, <3>2, <3>3
  <2> QED
    BY <1>3, <2>3, <2>4 DEF Consistent
<1>6. used_bytes' \in 0 .. WORD - 1 /\ free_bytes' \in 0 .. WORD - 1
  <2>1. used_bytes + g[a].size \in Int /\ free0 - g[a].size \in Int
    BY <1>3, <1>0 DEF HeapInv, TypeOK
  <2> QED
    BY <1>0, <1>4, <2>1
<1>7. a \in Nat /\ a + HDR \in Nat
  BY <1>0, <1>2, FieldTypes
<1>8. DOMAIN live' = DOMAIN live \cup {a + HDR}
  BY <1>4
<1>9. DOMAIN live' \subseteq Nat /\ live' \in [DOMAIN live' -> Sizes]
  BY <1>4, <1>7 DEF HeapInv, TypeOK
<1>10. DOMAIN live = {x + HDR : x \in Used(hdr)}
  BY DEF HeapInv, LiveIsUsed, Used, Blocks
<1>11. LiveIsUsed'
  <2>1. Used(hdr)' = Used(hdr) \cup {a}
    BY <1>3, <1>4 DEF Used
  <2>2. DOMAIN live' = {x + HDR : x \in Used(hdr)'}
    BY <1>8, <1>10, <2>1
  <2> QED
    BY <2>2 DEF LiveIsUsed, Used, Blocks
<1>12. a \notin Used(hdr) /\ \A x \in Used(hdr) : x \in Nat
  <2>1. \A x \in DOMAIN hdr : x \in Nat
    BY DEF HeapInv, TypeOK, Blocks
  <2> QED
    BY <2>1 DEF Used
<1>13. ASSUME NEW p \in DOMAIN live
       PROVE  /\ p - HDR \in Used(hdr) /\ p # a + HDR
              /\ live'[p] = live[p] /\ p - HDR \in DOMAIN g
              /\ g[p - HDR].size = hdr[p - HDR].size
  <2>1. PICK x \in Used(hdr) : p = x + HDR
    BY <1>10
  <2>2. x = p - HDR /\ p # a + HDR
    BY <1>0, <1>7, <1>12, <2>1
  <2>3. x \in Used(g)
    BY <1>3
  <2> QED
    BY <1>3, <1>4, <2>2, <2>3 DEF Used
<1>14. GrantsFit'
  <2>1. ASSUME NEW p \in DOMAIN live', live'[p] <= WORD - ALIGNMENT
        PROVE  live'[p] <= g[p - HDR].size
    <3>1. CASE p = a + HDR
      <4>1. live'[p] = req /\ p - HDR = a
        BY <1>0, <1>4, <1>7, <3>1
      <4>2. ALIGNMENT \in Nat
        BY HeapAssumption
      <4> QED
        BY <1>0, <1>1, <1>3, <2>1, <4>1, <4>2
    <3>2. CASE p # a + HDR
      <4>1. p \in DOMAIN live
        BY <1>8, <3>2
      <4>2. live[p] <= WORD - ALIGNMENT => live[p] <= hdr[p - HDR].size
        BY <4>1 DEF HeapInv, GrantsFit
      <4> QED
        BY <1>13, <2>1, <4>1, <4>2
    <3> QED
      BY <3>1, <3>2
  <2> QED
    BY <1>4, <2>1 DEF GrantsFit
<1>15. \A p \in DOMAIN live : Survives(p)
  BY <1>4, <1>8, <1>13 DEF Survives
<1> QED
  BY <1>4, <1>5, <1>6, <1>9, <1>11, <1>14, <1>15

\* The conjuncts of HeapInv that Consistent stands for, after a step.
LEMMA ConsistentInv ==
  ASSUME Consistent(hdr', heap_head', bitmap'), heap_head' \in Nat
  PROVE  /\ (Blocks \subseteq Nat \ {Null})' /\ (hdr \in [Blocks -> Header])'
         /\ AddressOrdered' /\ FreePagesAbove' /\ (\A a \in Blocks : a > KERNEL_END)'
<1>1. (Blocks \subseteq Nat \ {Null})' /\ (hdr \in [Blocks -> Header])'
  BY DEF Consistent, HeadersOK, Blocks
<1>2. AddressOrdered'
  BY DEF Consistent, ListOK, AddressOrdered
<1>3. FreePagesAbove'
  BY DEF Consistent, FreePagesAbove, FreePages, Blocks
<1>4. (\A a \in Blocks : a > KERNEL_END)'
  BY DEF Consistent, Blocks
<1> QED
  BY <1>1, <1>2, <1>3, <1>4

\* kfree of a pointer a client holds.
LEMMA KfreeOK ==
  ASSUME HeapInv, NEW ptr \in DOMAIN live, Kfree(ptr)
  PROVE  HeapInv' /\ \A p \in DOMAIN live : Survives(p)
<1> DEFINE a == ptr - HDR
           g == Freed(hdr, a)
<1>0. HDR \in Nat \ {0} /\ WORD \in Nat \ {0}
  BY HeapAssumption, PageAssumption
<1>1. Consistent(hdr, heap_head, bitmap)
  BY InvConsistent
<1>2. DOMAIN live = {x + HDR : x \in Used(hdr)}
  BY DEF HeapInv, LiveIsUsed, Used, Blocks
<1>3. \A x \in DOMAIN hdr : x \in Nat /\ hdr[x].size \in Nat
  BY <1>1, FieldTypes DEF Consistent
<1>4. a \in Used(hdr) /\ ptr = a + HDR
  BY <1>0, <1>2, <1>3 DEF Used
<1>5. a \in DOMAIN hdr
  BY <1>4 DEF Used
<1>6. HeadersOK(hdr) /\ ListOK(hdr, heap_head)
  BY <1>1 DEF Consistent
<1>7. /\ HeadersOK(g) /\ ListOK(g, heap_head)
      /\ DOMAIN g \subseteq DOMAIN hdr
      /\ Used(g) = Used(hdr) \ {a}
      /\ \A x \in Used(g) : g[x].size = hdr[x].size
      /\ \A x \in DOMAIN g : \E y \in DOMAIN hdr : End(g, x) = End(hdr, y)
  BY <1>5, <1>6, FreedOK
<1>8. /\ hdr' = g
      /\ used_bytes' = (used_bytes - hdr[a].size) % WORD
      /\ free_bytes' = (free_bytes + hdr[a].size) % WORD
      /\ live' = [p \in DOMAIN live \ {ptr} |-> live[p]]
      /\ heap_head' = heap_head /\ bitmap' = bitmap /\ up' = up /\ up
      /\ free_pages_count' = free_pages_count
  BY DEF Kfree, pmmVars
<1> HIDE DEF g, a
<1>9. Consistent(hdr', heap_head', bitmap')
  <2>1. \A x \in DOMAIN g : x > KERNEL_END
    BY <1>1, <1>7 DEF Consistent
  <2>2. \A f \in Pages \ bitmap, x \in DOMAIN g : End(g, x) <= f * PAGE_SIZE
    BY <1>1, <1>7 DEF Consistent
  <2> QED
    BY <1>7, <1>8, <2>1, <2>2 DEF Consistent
<1>10. DOMAIN live' = DOMAIN live \ {ptr}
  BY <1>8
<1>11. TypeOK'
  <2>1. used_bytes' \in 0 .. WORD - 1 /\ free_bytes' \in 0 .. WORD - 1
    <3>1. used_bytes - hdr[a].size \in Int /\ free_bytes + hdr[a].size \in Int
      BY <1>0, <1>3, <1>5 DEF HeapInv, TypeOK
    <3> QED
      BY <1>0, <1>8, <3>1
  <2>2. (DOMAIN live \subseteq Nat)' /\ (live \in [DOMAIN live -> Sizes])'
    BY <1>8, <1>10 DEF HeapInv, TypeOK
  <2>3. heap_head' \in Nat
    BY <1>8 DEF HeapInv, TypeOK
  <2>4. (Blocks \subseteq Nat \ {Null})' /\ (hdr \in [Blocks -> Header])'
    BY <1>9, <2>3, ConsistentInv
  <2>5. /\ bitmap' \subseteq Pages /\ free_pages_count' \in Int /\ up' \in BOOLEAN
    BY <1>8 DEF HeapInv, TypeOK
  <2> QED
    BY <2>1, <2>2, <2>3, <2>4, <2>5 DEF TypeOK
<1>12. AddressOrdered' /\ FreePagesAbove' /\ (\A b \in Blocks : b > KERNEL_END)'
  BY <1>9, <1>11, ConsistentInv DEF TypeOK
<1>13. ASSUME NEW p \in DOMAIN live, p # ptr
       PROVE  /\ p - HDR \in Used(g) /\ live'[p] = live[p]
              /\ g[p - HDR].size = hdr[p - HDR].size
  <2>1. PICK x \in Used(hdr) : p = x + HDR
    BY <1>2
  <2>2. x = p - HDR /\ x # a
    BY <1>0, <1>3, <1>4, <1>5, <1>13, <2>1 DEF Used
  <2> QED
    BY <1>7, <1>8, <1>13, <2>2
<1>14. LiveIsUsed'
  <2>1. DOMAIN live' = {x + HDR : x \in Used(g)}
    <3>1. \A x \in Used(hdr) : x \in Nat
      BY <1>3 DEF Used
    <3>2. \A x \in Used(hdr) : x + HDR = ptr <=> x = a
      BY <1>0, <1>4, <3>1
    <3> QED
      BY <1>2, <1>7, <1>10, <3>2
  <2> QED
    BY <1>8, <2>1 DEF LiveIsUsed, Used, Blocks
<1>15. GrantsFit'
  BY <1>8, <1>10, <1>13 DEF HeapInv, GrantsFit
<1>16. AboveKernel' /\ BeforeInit'
  BY <1>8, <1>12 DEF HeapInv, AboveKernel, BeforeInit
<1>17. \A p \in DOMAIN live : Survives(p)
  BY <1>8, <1>10, <1>13 DEF Survives, Used
<1> QED
  BY <1>11, <1>12, <1>14, <1>15, <1>16, <1>17 DEF HeapInv

\* What a step that grants a block establishes, whatever it did to the pages.
LEMMA GrantStep ==
  ASSUME HeapInv, NEW h, Consistent(h, heap_head', bitmap'),
         Used(h) = Used(hdr), \A x \in Used(hdr) : h[x].size = hdr[x].size,
         NEW a \in DOMAIN h, h[a].free,
         NEW req \in Sizes, AlignUp(req) <= h[a].size,
         NEW free0 \in Int, Granted(h, free0, a, req),
         heap_head' \in Nat, bitmap' \subseteq Pages, KernelPages \subseteq bitmap',
         free_pages_count' \in Int, up, up' = up
  PROVE  HeapInv' /\ \A p \in DOMAIN live : Survives(p)
<1>1. /\ Consistent(hdr', heap_head', bitmap')
      /\ used_bytes' \in 0 .. WORD - 1 /\ free_bytes' \in 0 .. WORD - 1
      /\ DOMAIN live' \subseteq Nat /\ live' \in [DOMAIN live' -> Sizes]
      /\ LiveIsUsed' /\ GrantsFit'
      /\ \A p \in DOMAIN live : Survives(p)
  BY GrantedOK
<1>2. /\ (Blocks \subseteq Nat \ {Null})' /\ (hdr \in [Blocks -> Header])'
      /\ AddressOrdered' /\ FreePagesAbove' /\ (\A b \in Blocks : b > KERNEL_END)'
  BY <1>1, ConsistentInv
<1>3. TypeOK'
  BY <1>1, <1>2 DEF TypeOK
<1>4. AboveKernel' /\ BeforeInit'
  BY <1>2 DEF AboveKernel, BeforeInit
<1> QED
  BY <1>1, <1>2, <1>3, <1>4 DEF HeapInv

\* The list walk of heap_extend ends at a block without a successor.
LEMMA TailOK ==
  ASSUME NEW tail \in Blocks \cup {Null}, IsTail(tail)
  PROVE  IF tail = Null THEN heap_head = Null ELSE hdr[tail].next = Null
  BY DEF IsTail

\* Growing the heap for kmalloc.
LEMMA GrowStep ==
  ASSUME HeapInv, NEW pages, NEW first \in Pages, NEW got \in 1 .. MAX_PAGES,
         NEW tail \in Blocks \cup {Null}, Grown(pages, first, got, tail)
  PROVE  LET b == first * PAGE_SIZE
             g == Appended(hdr, b, ExtentSize(got), tail)
         IN  /\ Consistent(g, heap_head', bitmap')
             /\ b \in DOMAIN g /\ g[b].free /\ g[b].size = ExtentSize(got)
             /\ Used(g) = Used(hdr)
             /\ \A x \in Used(hdr) : g[x].size = hdr[x].size
             /\ ExtentSize(got) \in Nat /\ heap_head' \in Nat
             /\ bitmap' \subseteq Pages /\ KernelPages \subseteq bitmap'
             /\ free_pages_count' \in Int
<1>1. /\ TakePages(pages, first, got) /\ IsTail(tail)
      /\ heap_head' = IF tail = Null THEN first * PAGE_SIZE ELSE heap_head
  BY DEF Grown
<1>2. Consistent(hdr, heap_head, bitmap)
  BY InvConsistent
<1>3. /\ TypeOK /\ KernelPages \subseteq bitmap /\ heap_head \in Nat
      /\ tail \in DOMAIN hdr \cup {Null}
  BY DEF HeapInv, AboveKernel, TypeOK, Blocks
<1>4. IF tail = Null THEN heap_head = Null ELSE hdr[tail].next = Null
  BY <1>1, TailOK
<1> DEFINE b == first * PAGE_SIZE
           g == Appended(hdr, b, ExtentSize(got), tail)
<1>5. /\ Consistent(g, IF tail = Null THEN b ELSE heap_head, bitmap')
      /\ b \in DOMAIN g /\ g[b].free /\ g[b].size = ExtentSize(got)
      /\ Used(g) = Used(hdr)
      /\ \A x \in Used(hdr) : g[x].size = hdr[x].size
      /\ ExtentSize(got) \in Nat /\ b \in Nat
      /\ bitmap' \subseteq Pages /\ KernelPages \subseteq bitmap'
      /\ free_pages_count' \in Int
  BY <1>1, <1>2, <1>3, <1>4, ExtendOK
<1> HIDE DEF b, g
<1>6. heap_head' = (IF tail = Null THEN b ELSE heap_head) /\ heap_head' \in Nat
  BY <1>1, <1>3, <1>5 DEF b
<1> QED
  BY <1>5, <1>6 DEF b, g

\* A heap without blocks is consistent with any bitmap.
LEMMA EmptyHeap ==
  ASSUME NEW pages
  PROVE  LET e == [a \in {} |-> 0]
         IN  Consistent(e, Null, pages) /\ Used(e) = {} /\ DOMAIN e = {}
<1> DEFINE e == [a \in {} |-> 0]
<1>1. DOMAIN e = {} /\ e \in [DOMAIN e -> Header]
  OBVIOUS
<1> HIDE DEF e
<1>2. HeadersOK(e)
  BY <1>1 DEF HeadersOK
<1>3. ListOK(e, Null)
  BY <1>1 DEF ListOK, Disjoint, NextFollows, PrevPrecedes, HeadFirst
<1>4. Consistent(e, Null, pages)
  BY <1>1, <1>2, <1>3 DEF Consistent
<1>5. Used(e) = {}
  BY <1>1 DEF Used
<1> QED
  BY <1>1, <1>4, <1>5 DEF e

-----------------------------------------------------------------------------
(* pmm_init: what its loops leave *)

\* The sets of pages are finite.
LEMMA BootPages ==
  IsFiniteSet(Pages) /\ \A S \in SUBSET Pages : IsFiniteSet(S) /\ Cardinality(S) \in Nat
<1>1. IsFiniteSet(Pages)
  BY PageAssumption, FS_Interval DEF Pages
<1> QED
  BY <1>1, FS_Subset, FS_CardinalityType

\* The counter is the number of clear bits.
Exact(s) == s \in PageMap /\ s.count = Cardinality(Pages \ s.bits)

LEMMA ClearedExact ==
  ASSUME NEW s \in PageMap, NEW p \in Pages
  PROVE  /\ Cleared(s, p) \in PageMap /\ Cleared(s, p).bits = s.bits \ {p}
         /\ Exact(s) => Exact(Cleared(s, p))
<1> DEFINE c == Cleared(s, p)
<1>1. s.bits \in SUBSET Pages /\ s.count \in Int
  BY DEF PageMap
<1>2. CASE p \notin s.bits
  <2>1. c = s /\ s.bits = s.bits \ {p}
    BY <1>2 DEF Cleared
  <2> QED
    BY <2>1
<1>3. CASE p \in s.bits
  <2>1. c = [bits |-> s.bits \ {p}, count |-> s.count + 1]
    BY <1>3 DEF Cleared
  <2>2. c \in PageMap /\ c.bits = s.bits \ {p} /\ c.count = s.count + 1
    BY <1>1, <2>1 DEF PageMap
  <2>3. Pages \ (s.bits \ {p}) = (Pages \ s.bits) \cup {p} /\ p \notin Pages \ s.bits
    BY <1>3
  <2>4. IsFiniteSet(Pages \ s.bits)
    BY BootPages
  <2>5. Cardinality((Pages \ s.bits) \cup {p}) = Cardinality(Pages \ s.bits) + 1
    BY <2>3, <2>4, FS_AddElement
  <2> QED
    BY <2>2, <2>3, <2>5 DEF Exact
<1> QED
  BY <1>2, <1>3

LEMMA ReservedExact ==
  ASSUME NEW s \in PageMap, NEW p \in Pages
  PROVE  /\ Reserved(s, p) \in PageMap /\ Reserved(s, p).bits = s.bits \cup {p}
         /\ Exact(s) => Exact(Reserved(s, p))
<1> DEFINE c == Reserved(s, p)
<1>1. s.bits \in SUBSET Pages /\ s.count \in Int
  BY DEF PageMap
<1>2. CASE p \in s.bits
  <2>1. c = s /\ s.bits = s.bits \cup {p}
    BY <1>2 DEF Reserved
  <2> QED
    BY <2>1
<1>3. CASE p \notin s.bits
  <2>1. c = [bits |-> s.bits \cup {p}, count |-> s.count - 1]
    BY <1>3 DEF Reserved
  <2>2. c \in PageMap /\ c.bits = s.bits \cup {p} /\ c.count = s.count - 1
    BY <1>1, <2>1 DEF PageMap
  <2>3. Pages \ (s.bits \cup {p}) = (Pages \ s.bits) \ {p} /\ p \in Pages \ s.bits
    BY <1>3
  <2>4. IsFiniteSet(Pages \ s.bits)
    BY BootPages
  <2>5. Cardinality((Pages \ s.bits) \ {p}) = Cardinality(Pages \ s.bits) - 1
    BY <2>3, <2>4, FS_RemoveElement
  <2> QED
    BY <2>2, <2>3, <2>5 DEF Exact
<1> QED
  BY <1>2, <1>3

\* One entry: its pages are released, and only those not yet free are counted.
LEMMA EntryReadExact ==
  ASSUME NEW s \in PageMap, NEW e
  PROVE  /\ EntryRead(s, e) \in PageMap /\ EntryRead(s, e).bits = s.bits \ Released(e)
         /\ Exact(s) => Exact(EntryRead(s, e))
<1> DEFINE n == MAX_PAGES
           Turn(i, t) == IF i - 1 \in Released(e) THEN Cleared(t, i - 1) ELSE t
           step == [i \in 1 .. n |-> [t \in PageMap |-> Turn(i, t)]]
           F(f) == [i \in 0 .. n |-> IF i = 0 THEN s
                                      ELSE IF i - 1 \in Released(e) THEN Cleared(f[i - 1], i - 1)
                                      ELSE f[i - 1]]
<1>1. n \in Nat /\ \A i \in 1 .. n : i - 1 \in Pages
  BY PageAssumption DEF Pages
<1>2. ASSUME NEW i \in 1 .. n, NEW t \in PageMap
      PROVE  /\ Turn(i, t) \in PageMap
             /\ Turn(i, t).bits = t.bits \ {p \in Released(e) : p = i - 1}
             /\ Exact(t) => Exact(Turn(i, t))
  <2>1. i - 1 \in Pages
    BY <1>1
  <2>2. CASE i - 1 \in Released(e)
    <3>1. Turn(i, t) = Cleared(t, i - 1) /\ {p \in Released(e) : p = i - 1} = {i - 1}
      BY <2>2
    <3> QED
      BY <2>1, <3>1, ClearedExact
  <2>3. CASE i - 1 \notin Released(e)
    <3>1. Turn(i, t) = t /\ {p \in Released(e) : p = i - 1} = {}
      BY <2>3
    <3> QED
      BY <3>1
  <2> QED
    BY <2>2, <2>3
<1>3. step \in [1 .. n -> [PageMap -> PageMap]]
  BY <1>2
<1>4. PICK f \in [0 .. n -> PageMap] : f[0] = s /\ \A i \in 1 .. n : f[i] = step[i][f[i - 1]]
  <2> HIDE DEF step, n
  <2>1. ASSUME NEW m \in Nat, NEW st \in [1 .. m -> [PageMap -> PageMap]]
        PROVE  \E f \in [0 .. m -> PageMap] :
                 f[0] = s /\ \A i \in 1 .. m : f[i] = st[i][f[i - 1]]
    BY Iteration, SMTT(30)
  <2> QED
    BY <1>1, <1>3, <2>1
<1>5. \A i \in 1 .. n : f[i] = Turn(i, f[i - 1])
  <2> TAKE i \in 1 .. n
  <2>1. i - 1 \in 0 .. n
    BY <1>1
  <2>2. f[i - 1] \in PageMap
    BY <2>1
  <2> QED
    BY <1>4, <2>2
<1>6. f = F(f)
  BY <1>4, <1>5
<1> DEFINE r == CHOOSE after : after = F(after)
<1>7. r = F(r)
  BY <1>6
<1>8. EntryRead(s, e) = r[n]
  BY DEF EntryRead
<1> HIDE DEF r
<1>9. r[0] = s /\ \A i \in 1 .. n : r[i] = Turn(i, r[i - 1])
  <2>1. 0 \in 0 .. n /\ \A i \in 1 .. n : i \in 0 .. n /\ i # 0
    BY <1>1
  <2>2. \A i \in 0 .. n : r[i] = IF i = 0 THEN s ELSE Turn(i, r[i - 1])
    BY <1>7
  <2> HIDE DEF Turn
  <2> QED
    BY <2>1, <2>2
<1> HIDE DEF Turn
<1> DEFINE Good(k) == /\ r[k] \in PageMap
                      /\ r[k].bits = s.bits \ {p \in Released(e) : p < k}
                      /\ Exact(s) => Exact(r[k])
           K == {k \in Nat : k <= n => Good(k)}
<1>10. Released(e) \subseteq Pages /\ \A p \in Pages : p \in Nat /\ p < n
  BY <1>1, PageAssumption DEF Released, Pages
<1>11. 0 \in K
  <2>1. {p \in Released(e) : p < 0} = {}
    BY <1>10
  <2> QED
    BY <1>9, <2>1
<1>12. ASSUME NEW k \in Nat, k \in K PROVE k + 1 \in K
  <2> SUFFICES ASSUME k + 1 <= n PROVE Good(k + 1)
    OBVIOUS
  <2>1. k + 1 \in 1 .. n /\ (k + 1) - 1 = k /\ Good(k)
    BY <1>1, <1>12
  <2>2. r[k + 1] = Turn(k + 1, r[k])
    BY <1>9, <2>1
  <2>3. {p \in Released(e) : p < k + 1}
          = {p \in Released(e) : p < k} \cup {p \in Released(e) : p = k}
    BY <1>10
  <2>4. /\ Turn(k + 1, r[k]) \in PageMap
        /\ Turn(k + 1, r[k]).bits = r[k].bits \ {p \in Released(e) : p = k}
        /\ Exact(r[k]) => Exact(Turn(k + 1, r[k]))
    BY <1>2, <2>1
  <2>5. r[k].bits \ {p \in Released(e) : p = k} = s.bits \ {p \in Released(e) : p < k + 1}
    BY <2>1, <2>3
  <2> QED
    BY <2>1, <2>2, <2>4, <2>5
<1>13. Good(n)
  <2>1. Nat \subseteq K
    <3> HIDE DEF K
    <3> QED
      BY <1>11, <1>12, SetInduction
  <2> QED
    BY <1>1, <2>1
<1>14. {p \in Released(e) : p < n} = Released(e)
  BY <1>10
<1> QED
  BY <1>8, <1>13, <1>14

\* The kernel's pages, reserved again.
LEMMA KernelReservedExact ==
  ASSUME NEW s \in PageMap
  PROVE  /\ KernelReserved(s) \in PageMap /\ KernelReserved(s).bits = s.bits \cup KernelPages
         /\ Exact(s) => Exact(KernelReserved(s))
<1> DEFINE n == MAX_PAGES
           Turn(i, t) == IF i - 1 \in KernelPages THEN Reserved(t, i - 1) ELSE t
           step == [i \in 1 .. n |-> [t \in PageMap |-> Turn(i, t)]]
           F(f) == [i \in 0 .. n |-> IF i = 0 THEN s
                                      ELSE IF i - 1 \in KernelPages THEN Reserved(f[i - 1], i - 1)
                                      ELSE f[i - 1]]
<1>1. n \in Nat /\ \A i \in 1 .. n : i - 1 \in Pages
  BY PageAssumption DEF Pages
<1>2. ASSUME NEW i \in 1 .. n, NEW t \in PageMap
      PROVE  /\ Turn(i, t) \in PageMap
             /\ Turn(i, t).bits = t.bits \cup {p \in KernelPages : p = i - 1}
             /\ Exact(t) => Exact(Turn(i, t))
  <2>1. i - 1 \in Pages
    BY <1>1
  <2>2. CASE i - 1 \in KernelPages
    <3>1. Turn(i, t) = Reserved(t, i - 1) /\ {p \in KernelPages : p = i - 1} = {i - 1}
      BY <2>2
    <3> QED
      BY <2>1, <3>1, ReservedExact
  <2>3. CASE i - 1 \notin KernelPages
    <3>1. Turn(i, t) = t /\ {p \in KernelPages : p = i - 1} = {}
      BY <2>3
    <3> QED
      BY <3>1
  <2> QED
    BY <2>2, <2>3
<1>3. step \in [1 .. n -> [PageMap -> PageMap]]
  BY <1>2
<1>4. PICK f \in [0 .. n -> PageMap] : f[0] = s /\ \A i \in 1 .. n : f[i] = step[i][f[i - 1]]
  <2> HIDE DEF step, n
  <2>1. ASSUME NEW m \in Nat, NEW st \in [1 .. m -> [PageMap -> PageMap]]
        PROVE  \E f \in [0 .. m -> PageMap] :
                 f[0] = s /\ \A i \in 1 .. m : f[i] = st[i][f[i - 1]]
    BY Iteration, SMTT(30)
  <2> QED
    BY <1>1, <1>3, <2>1
<1>5. \A i \in 1 .. n : f[i] = Turn(i, f[i - 1])
  <2> TAKE i \in 1 .. n
  <2>1. i - 1 \in 0 .. n
    BY <1>1
  <2>2. f[i - 1] \in PageMap
    BY <2>1
  <2> QED
    BY <1>4, <2>2
<1>6. f = F(f)
  BY <1>4, <1>5
<1> DEFINE r == CHOOSE after : after = F(after)
<1>7. r = F(r)
  BY <1>6
<1>8. KernelReserved(s) = r[n]
  BY DEF KernelReserved
<1> HIDE DEF r
<1>9. r[0] = s /\ \A i \in 1 .. n : r[i] = Turn(i, r[i - 1])
  <2>1. 0 \in 0 .. n /\ \A i \in 1 .. n : i \in 0 .. n /\ i # 0
    BY <1>1
  <2>2. \A i \in 0 .. n : r[i] = IF i = 0 THEN s ELSE Turn(i, r[i - 1])
    BY <1>7
  <2> HIDE DEF Turn
  <2> QED
    BY <2>1, <2>2
<1> HIDE DEF Turn
<1> DEFINE Good(k) == /\ r[k] \in PageMap
                      /\ r[k].bits = s.bits \cup {p \in KernelPages : p < k}
                      /\ Exact(s) => Exact(r[k])
           K == {k \in Nat : k <= n => Good(k)}
<1>10. KernelPages \subseteq Pages /\ \A p \in Pages : p \in Nat /\ p < n
  BY <1>1, PageAssumption DEF KernelPages, Pages
<1>11. 0 \in K
  <2>1. {p \in KernelPages : p < 0} = {}
    BY <1>10
  <2> QED
    BY <1>9, <2>1
<1>12. ASSUME NEW k \in Nat, k \in K PROVE k + 1 \in K
  <2> SUFFICES ASSUME k + 1 <= n PROVE Good(k + 1)
    OBVIOUS
  <2>1. k + 1 \in 1 .. n /\ (k + 1) - 1 = k /\ Good(k)
    BY <1>1, <1>12
  <2>2. r[k + 1] = Turn(k + 1, r[k])
    BY <1>9, <2>1
  <2>3. {p \in KernelPages : p < k + 1}
          = {p \in KernelPages : p < k} \cup {p \in KernelPages : p = k}
    BY <1>10
  <2>4. /\ Turn(k + 1, r[k]) \in PageMap
        /\ Turn(k + 1, r[k]).bits = r[k].bits \cup {p \in KernelPages : p = k}
        /\ Exact(r[k]) => Exact(Turn(k + 1, r[k]))
    BY <1>2, <2>1
  <2>5. r[k].bits \cup {p \in KernelPages : p = k} = s.bits \cup {p \in KernelPages : p < k + 1}
    BY <2>1, <2>3
  <2> QED
    BY <2>1, <2>2, <2>4, <2>5
<1>13. Good(n)
  <2>1. Nat \subseteq K
    <3> HIDE DEF K
    <3> QED
      BY <1>11, <1>12, SetInduction
  <2> QED
    BY <1>1, <2>1
<1>14. {p \in KernelPages : p < n} = KernelPages
  BY <1>10
<1> QED
  BY <1>8, <1>13, <1>14

\* The whole map, from everything reserved.
LEMMA MapReadExact ==
  ASSUME NEW m \in Seq(MapEntry)
  PROVE  /\ Exact(MapRead(m))
         /\ MapRead(m).bits = Pages \ UNION {Released(m[i]) : i \in DOMAIN m}
<1> DEFINE n == Len(m)
           start == [bits |-> Pages, count |-> 0]
           step == [i \in 1 .. n |-> [t \in PageMap |-> EntryRead(t, m[i])]]
           F(f) == [i \in 0 .. n |-> IF i = 0 THEN start ELSE EntryRead(f[i - 1], m[i])]
<1>1. n \in Nat /\ DOMAIN m = 1 .. n
  OBVIOUS
<1>2. start \in PageMap /\ start.bits = Pages /\ Exact(start)
  <2>1. Pages \ Pages = {} /\ Cardinality({}) = 0
    BY FS_EmptySet
  <2>2. start.bits = Pages /\ start.count = 0 /\ start \in PageMap
    BY DEF PageMap
  <2> HIDE DEF start
  <2> QED
    BY <2>1, <2>2 DEF Exact
<1>3. step \in [1 .. n -> [PageMap -> PageMap]]
  BY EntryReadExact
<1>4. PICK f \in [0 .. n -> PageMap] :
        f[0] = start /\ \A i \in 1 .. n : f[i] = step[i][f[i - 1]]
  <2> HIDE DEF step, n, start
  <2>1. ASSUME NEW k \in Nat, NEW base \in PageMap, NEW st \in [1 .. k -> [PageMap -> PageMap]]
        PROVE  \E f \in [0 .. k -> PageMap] :
                 f[0] = base /\ \A i \in 1 .. k : f[i] = st[i][f[i - 1]]
    BY Iteration, SMTT(30)
  <2> QED
    BY <1>1, <1>2, <1>3, <2>1
<1>5. \A i \in 1 .. n : f[i] = EntryRead(f[i - 1], m[i])
  <2> TAKE i \in 1 .. n
  <2>1. i - 1 \in 0 .. n
    BY <1>1
  <2>2. f[i - 1] \in PageMap
    BY <2>1
  <2> QED
    BY <1>4, <2>2
<1>6. f = F(f)
  BY <1>4, <1>5
<1> DEFINE r == CHOOSE after : after = F(after)
<1>7. r = F(r)
  BY <1>6
<1>8. MapRead(m) = r[n]
  BY DEF MapRead
<1> HIDE DEF r
<1>9. r[0] = start /\ \A i \in 1 .. n : r[i] = EntryRead(r[i - 1], m[i])
  <2> HIDE DEF start, n
  <2>1. 0 \in 0 .. n /\ \A i \in 1 .. n : i \in 0 .. n /\ i # 0
    BY <1>1
  <2>2. \A i \in 0 .. n : r[i] = IF i = 0 THEN start ELSE EntryRead(r[i - 1], m[i])
    BY <1>7
  <2> QED
    BY <2>1, <2>2
<1> DEFINE Good(k) == Exact(r[k]) /\ r[k].bits = Pages \ UNION {Released(m[i]) : i \in 1 .. k}
           K == {k \in Nat : k <= n => Good(k)}
<1>10. 0 \in K
  <2>1. UNION {Released(m[i]) : i \in 1 .. 0} = {}
    OBVIOUS
  <2> HIDE DEF start
  <2>2. Good(0)
    BY <1>2, <1>9, <2>1
  <2> QED
    BY <2>2
<1>11. ASSUME NEW k \in Nat, k \in K PROVE k + 1 \in K
  <2> SUFFICES ASSUME k + 1 <= n PROVE Good(k + 1)
    OBVIOUS
  <2>1. k + 1 \in 1 .. n /\ (k + 1) - 1 = k /\ Good(k)
    BY <1>1, <1>11
  <2>2. r[k + 1] = EntryRead(r[k], m[k + 1])
    BY <1>9, <2>1
  <2>3. r[k] \in PageMap
    BY <2>1 DEF Exact
  <2>4. Exact(r[k + 1]) /\ r[k + 1].bits = r[k].bits \ Released(m[k + 1])
    BY <2>1, <2>2, <2>3, EntryReadExact
  <2>5. UNION {Released(m[i]) : i \in 1 .. k + 1}
          = (UNION {Released(m[i]) : i \in 1 .. k}) \cup Released(m[k + 1])
    <3>1. 1 .. k + 1 = 1 .. k \cup {k + 1}
      OBVIOUS
    <3> QED
      BY <3>1
  <2> QED
    BY <2>1, <2>4, <2>5
<1>12. Nat \subseteq K
  <2> HIDE DEF K
  <2> QED
    BY <1>10, <1>11, SetInduction
<1> QED
  BY <1>1, <1>8, <1>12

\* The loops of pmm_init leave the bitmap the map asks for, and its count.
LEMMA PmmInitOK ==
  ASSUME PmmInit
  PROVE  /\ mmap \in MemoryMaps /\ bitmap = BootBitmap(mmap)
         /\ free_pages_count = Cardinality(Pages \ bitmap)
<1> DEFINE s == MapRead(mmap)
           t == KernelReserved(s)
<1>1. mmap \in MemoryMaps /\ bitmap = t.bits /\ free_pages_count = t.count
  BY DEF PmmInit
<1>2. mmap \in Seq(MapEntry)
  BY <1>1, MapAssumption
<1>3. Exact(s) /\ s.bits = Pages \ UNION {Released(mmap[i]) : i \in DOMAIN mmap}
  BY <1>2, MapReadExact
<1> HIDE DEF s
<1>4. Exact(t) /\ t.bits = s.bits \cup KernelPages
  BY <1>3, KernelReservedExact DEF Exact
<1> HIDE DEF t
<1> QED
  BY <1>1, <1>3, <1>4 DEF Exact, BootBitmap

\* The state pmm_init leaves satisfies the invariant.
LEMMA InitOK ==
  ASSUME Init
  PROVE  HeapInv
<1>1. /\ bitmap = BootBitmap(mmap) /\ heap_head = Null /\ hdr = [a \in {} |-> 0]
      /\ used_bytes = 0 /\ free_bytes = 0 /\ up = FALSE /\ live = [p \in {} |-> 0]
      /\ free_pages_count = Cardinality(Pages \ bitmap)
  BY PmmInitOK DEF Init
<1>2. bitmap \subseteq Pages /\ KernelPages \subseteq bitmap
  BY <1>1 DEF BootBitmap, KernelPages
<1>3. free_pages_count \in Int
  BY <1>1, BootPages
<1>4. Blocks = {} /\ hdr \in [Blocks -> Header] /\ DOMAIN live = {}
      /\ live \in [DOMAIN live -> Sizes]
  BY <1>1 DEF Blocks
<1>5. 0 \in 0 .. WORD - 1
  BY HeapAssumption, PageAssumption
<1>6. TypeOK
  BY <1>1, <1>2, <1>3, <1>4, <1>5 DEF TypeOK, Null
<1>7. AddressOrdered
  BY <1>1, <1>4 DEF AddressOrdered, Disjoint, NextFollows, PrevPrecedes, HeadFirst, Blocks
<1>8. FreePagesAbove /\ LiveIsUsed /\ GrantsFit /\ AboveKernel /\ BeforeInit
  BY <1>1, <1>2, <1>4 DEF FreePagesAbove, LiveIsUsed, GrantsFit, AboveKernel, BeforeInit
<1> QED
  BY <1>6, <1>7, <1>8 DEF HeapInv

\* heap_init establishes the list on its first extent.
LEMMA HeapInitOK ==
  ASSUME HeapInv, HeapInit
  PROVE  HeapInv' /\ \A p \in DOMAIN live : Survives(p)
<1> DEFINE e == [a \in {} |-> 0]
<1>1. PICK first \in Pages, got \in 1 .. MAX_PAGES :
        /\ TakePages(HEAP_INITIAL_PAGES, first, got)
        /\ heap_head' = first * PAGE_SIZE
        /\ hdr' = Appended(e, first * PAGE_SIZE, ExtentSize(got), Null)
        /\ free_bytes' = ExtentSize(got)
  BY DEF HeapInit
<1>2. up' = TRUE /\ used_bytes' = 0 /\ live' = live /\ DOMAIN live = {}
  BY DEF HeapInit, HeapInv, BeforeInit
<1>3. Consistent(e, Null, bitmap) /\ Used(e) = {} /\ DOMAIN e = {}
  BY EmptyHeap
<1> HIDE DEF e
<1>4. TypeOK /\ KernelPages \subseteq bitmap
  BY DEF HeapInv, AboveKernel
<1> DEFINE b == first * PAGE_SIZE
           g == Appended(e, b, ExtentSize(got), Null)
<1>5. /\ Consistent(g, IF Null = Null THEN b ELSE Null, bitmap')
      /\ Used(g) = Used(e)
      /\ ExtentSize(got) \in Nat /\ b \in Nat
      /\ bitmap' \subseteq Pages /\ KernelPages \subseteq bitmap'
      /\ free_pages_count' \in Int
  <2>1. PICK tail \in DOMAIN e \cup {Null} : tail = Null
    OBVIOUS
  <2>2. IF tail = Null THEN Null = Null ELSE e[tail].next = Null
    BY <2>1
  <2>3. LET h == Appended(e, b, ExtentSize(got), tail)
        IN  /\ Consistent(h, IF tail = Null THEN b ELSE Null, bitmap')
            /\ Used(h) = Used(e)
            /\ ExtentSize(got) \in Nat /\ b \in Nat
            /\ bitmap' \subseteq Pages /\ KernelPages \subseteq bitmap'
            /\ free_pages_count' \in Int
    BY <1>1, <1>3, <1>4, <2>2, ExtendOK
  <2> HIDE DEF g
  <2> QED
    BY <2>1, <2>3 DEF g
<1> HIDE DEF b, g
<1>6. hdr' = g /\ heap_head' = b
  BY <1>1 DEF b, g
<1>7. Consistent(hdr', heap_head', bitmap')
  BY <1>5, <1>6
<1>8. /\ (Blocks \subseteq Nat \ {Null})' /\ (hdr \in [Blocks -> Header])'
      /\ AddressOrdered' /\ FreePagesAbove' /\ (\A a \in Blocks : a > KERNEL_END)'
  BY <1>5, <1>6, <1>7, ConsistentInv
<1>9. free_bytes' \in 0 .. WORD - 1
  <2>1. got * PAGE_SIZE <= MAX_PAGES * PAGE_SIZE
    BY PageAssumption
  <2>2. HDR \in Nat /\ MIN_SPLIT_SIZE \in Nat /\ WORD \in Nat
        /\ MAX_PAGES * PAGE_SIZE + HDR + MIN_SPLIT_SIZE < WORD
    BY HeapAssumption
  <2>3. got * PAGE_SIZE \in Nat /\ MAX_PAGES * PAGE_SIZE \in Nat
    BY PageAssumption
  <2> QED
    BY <1>1, <1>5, <2>1, <2>2, <2>3 DEF ExtentSize
<1>10. TypeOK'
  <2>1. used_bytes' \in 0 .. WORD - 1
    BY <1>2, <1>9, HeapAssumption
  <2>2. (DOMAIN live \subseteq Nat)' /\ (live \in [DOMAIN live -> Sizes])'
    BY <1>2 DEF HeapInv, TypeOK
  <2> QED
    BY <1>2, <1>5, <1>6, <1>8, <1>9, <2>1, <2>2 DEF TypeOK
<1>11. LiveIsUsed'
  BY <1>2, <1>3, <1>5, <1>6 DEF LiveIsUsed, Used, Blocks
<1>12. GrantsFit' /\ AboveKernel' /\ BeforeInit'
  BY <1>2, <1>5, <1>8 DEF GrantsFit, AboveKernel, BeforeInit
<1> QED
  BY <1>2, <1>8, <1>10, <1>11, <1>12 DEF HeapInv

\* kmalloc from a free block keeps the invariant.
LEMMA KmallocFitOK ==
  ASSUME HeapInv, NEW req \in Sizes, KmallocFit(req)
  PROVE  HeapInv' /\ \A p \in DOMAIN live : Survives(p)
<1>1. PICK a \in Blocks : FirstFit(a, AlignUp(req)) /\ Granted(hdr, free_bytes, a, req)
  BY DEF KmallocFit
<1>2. a \in DOMAIN hdr /\ hdr[a].free /\ AlignUp(req) <= hdr[a].size
  <2>1. hdr[a].size \in Nat /\ AlignUp(req) \in Nat
    <3>1. HeadersOK(hdr) /\ a \in DOMAIN hdr
      BY InvConsistent DEF Consistent, Blocks
    <3> QED
      BY <3>1, FieldTypes, AlignUpOK
  <2> QED
    BY <1>1, <2>1 DEF FirstFit, Fits, Blocks
<1>3. /\ heap_head' = heap_head /\ bitmap' = bitmap /\ up /\ up' = up
      /\ free_pages_count' = free_pages_count
  BY DEF KmallocFit, pmmVars
<1>4. /\ heap_head \in Nat /\ bitmap \subseteq Pages /\ KernelPages \subseteq bitmap
      /\ free_pages_count \in Int /\ free_bytes \in Int
  BY HeapAssumption DEF HeapInv, TypeOK, AboveKernel
<1>5. Consistent(hdr, heap_head', bitmap')
  BY <1>3, InvConsistent
<1> QED
  BY <1>1, <1>2, <1>3, <1>4, <1>5, GrantStep

\* kmalloc from a new extent keeps the invariant.
LEMMA KmallocGrowOK ==
  ASSUME HeapInv, NEW req \in Sizes, KmallocGrow(req)
  PROVE  HeapInv' /\ \A p \in DOMAIN live : Survives(p)
<1>1. PICK first \in Pages, got \in 1 .. MAX_PAGES, tail \in Blocks \cup {Null} :
        /\ Grown(NeedPages(AlignUp(req)), first, got, tail)
        /\ ExtentSize(got) >= AlignUp(req)
        /\ Granted(Appended(hdr, first * PAGE_SIZE, ExtentSize(got), tail),
                   free_bytes + ExtentSize(got), first * PAGE_SIZE, req)
  BY DEF KmallocGrow
<1> DEFINE b == first * PAGE_SIZE
           g == Appended(hdr, b, ExtentSize(got), tail)
<1>2. /\ Consistent(g, heap_head', bitmap')
      /\ b \in DOMAIN g /\ g[b].free /\ g[b].size = ExtentSize(got)
      /\ Used(g) = Used(hdr)
      /\ \A x \in Used(hdr) : g[x].size = hdr[x].size
      /\ ExtentSize(got) \in Nat /\ heap_head' \in Nat
      /\ bitmap' \subseteq Pages /\ KernelPages \subseteq bitmap'
      /\ free_pages_count' \in Int
  BY <1>1, GrowStep
<1>3. Granted(g, free_bytes + ExtentSize(got), b, req)
  BY <1>1
<1> HIDE DEF b, g
<1>4. free_bytes + ExtentSize(got) \in Int
  BY <1>2, HeapAssumption DEF HeapInv, TypeOK
<1>5. up /\ up' = up
  BY <1>1 DEF KmallocGrow, Grown
<1>6. AlignUp(req) <= g[b].size
  BY <1>1, <1>2, AlignUpOK
<1> QED
  BY <1>2, <1>3, <1>4, <1>5, <1>6, GrantStep

\* kmalloc that fails after growing the heap keeps the invariant.
LEMMA KmallocTooShortOK ==
  ASSUME HeapInv, NEW req \in Sizes, KmallocTooShort(req)
  PROVE  HeapInv' /\ \A p \in DOMAIN live : Survives(p)
<1>1. PICK first \in Pages, got \in 1 .. MAX_PAGES, tail \in Blocks \cup {Null} :
        /\ Grown(NeedPages(AlignUp(req)), first, got, tail)
        /\ hdr' = Appended(hdr, first * PAGE_SIZE, ExtentSize(got), tail)
        /\ free_bytes' = (free_bytes + ExtentSize(got)) % WORD
        /\ used_bytes' = used_bytes /\ live' = live
  BY DEF KmallocTooShort
<1>2. /\ Consistent(hdr', heap_head', bitmap')
      /\ Used(hdr') = Used(hdr)
      /\ \A x \in Used(hdr) : hdr'[x].size = hdr[x].size
      /\ ExtentSize(got) \in Nat /\ heap_head' \in Nat
      /\ bitmap' \subseteq Pages /\ KernelPages \subseteq bitmap'
      /\ free_pages_count' \in Int
  BY <1>1, GrowStep
<1>3. /\ (Blocks \subseteq Nat \ {Null})' /\ (hdr \in [Blocks -> Header])'
      /\ AddressOrdered' /\ FreePagesAbove' /\ (\A a \in Blocks : a > KERNEL_END)'
  BY <1>2, ConsistentInv
<1>4. up /\ up' = up
  BY <1>1 DEF KmallocTooShort, Grown
<1>5. TypeOK'
  <2>1. free_bytes' \in 0 .. WORD - 1
    <3>1. free_bytes + ExtentSize(got) \in Int
      BY <1>2, HeapAssumption DEF HeapInv, TypeOK
    <3> QED
      BY <1>1, <3>1, HeapAssumption, PageAssumption
  <2>2. used_bytes' \in 0 .. WORD - 1 /\ up' \in BOOLEAN
    BY <1>1, <1>4 DEF HeapInv, TypeOK
  <2>3. (DOMAIN live \subseteq Nat)' /\ (live \in [DOMAIN live -> Sizes])'
    BY <1>1 DEF HeapInv, TypeOK
  <2> QED
    BY <1>2, <1>3, <2>1, <2>2, <2>3 DEF TypeOK
<1>6. DOMAIN live = {x + HDR : x \in Used(hdr)}
  BY DEF HeapInv, LiveIsUsed, Used, Blocks
<1>7. LiveIsUsed'
  BY <1>1, <1>2, <1>6 DEF LiveIsUsed, Used, Blocks
<1>8. ASSUME NEW p \in DOMAIN live
      PROVE  p - HDR \in Used(hdr)
  <2>1. PICK x \in Used(hdr) : p = x + HDR
    BY <1>6
  <2>2. x \in Nat
    BY DEF Used, HeapInv, TypeOK, Blocks
  <2> QED
    BY <2>1, <2>2, HeapAssumption
<1>9. GrantsFit'
  BY <1>1, <1>2, <1>8 DEF HeapInv, GrantsFit
<1>10. AboveKernel' /\ BeforeInit'
  BY <1>2, <1>3, <1>4 DEF AboveKernel, BeforeInit
<1>11. \A p \in DOMAIN live : Survives(p)
  BY <1>1, <1>2, <1>8 DEF Survives, Used
<1> QED
  BY <1>3, <1>5, <1>7, <1>9, <1>10, <1>11 DEF HeapInv

\* A step that changes nothing keeps the invariant.
LEMMA StutterOK ==
  ASSUME HeapInv, UNCHANGED vars
  PROVE  HeapInv'
  BY DEF HeapInv, TypeOK, AddressOrdered, Disjoint, NextFollows, PrevPrecedes,
         HeadFirst, End, FreePagesAbove, FreePages, LiveIsUsed, GrantsFit,
         AboveKernel, BeforeInit, Blocks, vars, pmmVars, heapVars

\* heap_init without memory keeps the invariant.
LEMMA HeapInitNoMemoryOK ==
  ASSUME HeapInv, HeapInitNoMemory
  PROVE  HeapInv' /\ \A p \in DOMAIN live : Survives(p)
<1>1. /\ hdr' = hdr /\ live' = live /\ bitmap' = bitmap
      /\ free_pages_count' = free_pages_count /\ heap_head' = Null /\ up' = TRUE
      /\ used_bytes' = 0 /\ free_bytes' = 0
      /\ DOMAIN live = {} /\ heap_head = Null
  BY DEF HeapInitNoMemory, pmmVars, HeapInv, BeforeInit
<1>2. TypeOK'
  <2>1. 0 \in 0 .. WORD - 1
    BY HeapAssumption, PageAssumption
  <2> QED
    BY <1>1, <2>1 DEF HeapInv, TypeOK, Blocks, Null
<1>3. AddressOrdered' /\ FreePagesAbove'
  BY <1>1 DEF HeapInv, AddressOrdered, Disjoint, NextFollows, PrevPrecedes,
              HeadFirst, End, FreePagesAbove, FreePages, Blocks
<1>4. LiveIsUsed' /\ GrantsFit' /\ AboveKernel' /\ BeforeInit'
  BY <1>1 DEF HeapInv, LiveIsUsed, GrantsFit, AboveKernel, BeforeInit, Blocks
<1> QED
  BY <1>1, <1>2, <1>3, <1>4 DEF HeapInv

\* Every step keeps the invariant, and what clients hold.
LEMMA StepOK ==
  ASSUME HeapInv, [Next]_vars
  PROVE  HeapInv' /\ (UNCHANGED vars \/ \A p \in DOMAIN live : Survives(p))
<1>1. CASE HeapInit
  BY <1>1, HeapInitOK
<1>2. CASE HeapInitNoMemory
  BY <1>2, HeapInitNoMemoryOK
<1>3. ASSUME NEW req \in Sizes, KmallocFit(req)
      PROVE  HeapInv' /\ \A p \in DOMAIN live : Survives(p)
  BY <1>3, KmallocFitOK
<1>4. ASSUME NEW req \in Sizes, KmallocGrow(req)
      PROVE  HeapInv' /\ \A p \in DOMAIN live : Survives(p)
  BY <1>4, KmallocGrowOK
<1>5. ASSUME NEW req \in Sizes, KmallocTooShort(req)
      PROVE  HeapInv' /\ \A p \in DOMAIN live : Survives(p)
  BY <1>5, KmallocTooShortOK
<1>6. ASSUME NEW req \in Sizes, KmallocNoMemory(req)
      PROVE  HeapInv' /\ UNCHANGED vars
  BY <1>6, StutterOK DEF KmallocNoMemory
<1>7. ASSUME NEW ptr \in DOMAIN live, Kfree(ptr)
      PROVE  HeapInv' /\ \A p \in DOMAIN live : Survives(p)
  BY <1>7, KfreeOK
<1>8. CASE UNCHANGED vars
  BY <1>8, StutterOK
<1> QED
  BY <1>1, <1>2, <1>3, <1>4, <1>5, <1>6, <1>7, <1>8, RequestsAreSizes DEF Next

\* HeapInv holds in every reachable state: from heap_init on, kmalloc and
\* kfree keep the list of blocks typed, in address order and below the free
\* pages, and every grant as large as its request.
THEOREM HeapInvariant == Spec => []HeapInv
<1>1. Init => HeapInv
  BY InitOK
<1>2. HeapInv /\ [Next]_vars => HeapInv'
  BY StepOK
<1> QED
  BY <1>1, <1>2, PTL DEF Spec

\* The list order is the address order (heap.c:139-141), on every machine.
THEOREM HeapAddressOrdered == Spec => []AddressOrdered
<1>1. HeapInv => AddressOrdered
  BY DEF HeapInv
<1> QED
  BY <1>1, HeapInvariant, PTL

\* heap_extend always appends above the heap (heap.c:62-65).
THEOREM HeapFreePagesAbove == Spec => []FreePagesAbove
<1>1. HeapInv => FreePagesAbove
  BY DEF HeapInv
<1> QED
  BY <1>1, HeapInvariant, PTL

\* The memory kmalloc handed out never overlaps, nor reaches the kernel, but for
\* what was asked for with a size that align_up wraps.
THEOREM HeapGrantsDisjoint == Spec => []GrantsDisjoint
<1>1. ASSUME HeapInv
      PROVE  GrantsDisjoint
  <2>0. HDR \in Nat /\ WORD \in Nat /\ ALIGNMENT \in Nat /\ KERNEL_END \in Nat
    BY HeapAssumption, PageAssumption
  <2>1. \A x \in Blocks : x \in Nat /\ hdr[x].size \in Nat
    <3>1. HeadersOK(hdr)
      BY <1>1, InvConsistent DEF Consistent
    <3> QED
      BY <3>1, FieldTypes DEF Blocks
  <2>2. \A p \in DOMAIN live : p - HDR \in Blocks /\ p \in Nat /\ live[p] \in Nat
    <3>1. \A p \in DOMAIN live : \E x \in Blocks : p = x + HDR
      BY <1>1 DEF HeapInv, LiveIsUsed
    <3>2. \A p \in DOMAIN live : live[p] \in Sizes
      BY <1>1 DEF HeapInv, TypeOK
    <3>3. \A r \in Sizes : r \in Nat
      BY HeapAssumption DEF Sizes
    <3>4. \A x \in Blocks : (x + HDR) - HDR = x /\ x + HDR \in Nat
      BY <2>0, <2>1
    <3> QED
      BY <3>1, <3>2, <3>3, <3>4
  <2>3. ASSUME NEW p \in DOMAIN live, live[p] <= WORD - ALIGNMENT,
               NEW q \in DOMAIN live, p < q
        PROVE  p + live[p] <= q - HDR
    <3>1. live[p] <= hdr[p - HDR].size
      BY <1>1, <2>3 DEF HeapInv, GrantsFit
    <3>2. p - HDR < q - HDR
      BY <2>0, <2>2, <2>3
    <3>3. End(hdr, p - HDR) <= q - HDR
      BY <1>1, <2>2, <3>2 DEF HeapInv, AddressOrdered, Disjoint, Blocks
    <3>4. End(hdr, p - HDR) = p + hdr[p - HDR].size
      BY <2>0, <2>1, <2>2 DEF End
    <3> QED
      BY <2>0, <2>1, <2>2, <3>1, <3>3, <3>4
  <2>4. \A p \in DOMAIN live : p - HDR > KERNEL_END
    BY <1>1, <2>2 DEF HeapInv, AboveKernel
  <2> QED
    BY <2>3, <2>4 DEF GrantsDisjoint
<1> QED
  BY <1>1, HeapInvariant, PTL

\* No kmalloc or kfree disturbs an allocation it is not about.
THEOREM HeapLiveUntouched == Spec => LiveUntouched
<1>1. HeapInv /\ [Next]_vars => [\A p \in DOMAIN live : Survives(p)]_vars
  BY StepOK
<1> QED
  BY <1>1, HeapInvariant, PTL DEF Spec, LiveUntouched

\* free_pages_count is the number of clear bits, at boot and after every
\* heap_extend, the stray page it gives back included.
THEOREM PmmFreeCountExact == Spec => []FreeCountExact
<1>1. Init => FreeCountExact
  BY PmmInitOK DEF Init, FreeCountExact, FreePages
<1>2. ASSUME HeapInv, FreeCountExact, NEW pages, NEW first \in Pages,
             NEW got \in 1 .. MAX_PAGES, TakePages(pages, first, got)
      PROVE  FreeCountExact'
  <2>1. /\ bitmap' = bitmap \cup Run(first, got)
        /\ Run(first, got) \subseteq FreePages
        /\ free_pages_count' = free_pages_count - got
    BY <1>2, TakePagesOK DEF HeapInv
  <2>2. first \in Nat /\ got \in Nat \ {0}
    BY PageAssumption DEF Pages
  <2>3. FreePages = FreePages' \cup Run(first, got) /\ FreePages' \cap Run(first, got) = {}
    BY <2>1 DEF FreePages
  <2>4. /\ IsFiniteSet(FreePages') /\ Cardinality(FreePages') \in Nat
        /\ IsFiniteSet(Run(first, got)) /\ FreePages' \in SUBSET Pages
    <3>1. FreePages' \in SUBSET Pages /\ Run(first, got) \in SUBSET Pages
      BY <2>1 DEF FreePages
    <3> QED
      BY <3>1, BootPages
  <2>5. Cardinality(Run(first, got)) = got
    <3>1. Cardinality(first .. first + got - 1) = first + got - 1 - first + 1
      BY <2>2, FS_Interval
    <3> QED
      BY <2>2, <3>1 DEF Run
  <2>6. Cardinality({}) = 0
    BY FS_EmptySet
  <2>7. Cardinality(FreePages) = Cardinality(FreePages') + got
    <3>1. Cardinality(FreePages' \cup Run(first, got)) =
            Cardinality(FreePages') + Cardinality(Run(first, got))
              - Cardinality(FreePages' \cap Run(first, got))
      BY <2>4, FS_Union
    <3>2. Cardinality(FreePages' \cap Run(first, got)) = 0
      BY <2>3, <2>6
    <3>3. Cardinality(FreePages) = Cardinality(FreePages' \cup Run(first, got))
      BY <2>3
    <3> QED
      BY <2>2, <2>4, <2>5, <3>1, <3>2, <3>3
  <2> QED
    BY <1>2, <2>1, <2>2, <2>4, <2>7 DEF FreeCountExact
<1>3. ASSUME FreeCountExact, UNCHANGED <<bitmap, free_pages_count>>
      PROVE  FreeCountExact'
  BY <1>3 DEF FreeCountExact, FreePages
<1>4. HeapInv /\ FreeCountExact /\ [Next]_vars => FreeCountExact'
  <2> SUFFICES ASSUME HeapInv, FreeCountExact, [Next]_vars
               PROVE  FreeCountExact'
    OBVIOUS
  <2>1. CASE HeapInit
    BY <2>1, <1>2 DEF HeapInit
  <2>2. CASE HeapInitNoMemory
    BY <2>2, <1>3 DEF HeapInitNoMemory, pmmVars
  <2>3. ASSUME NEW req \in Sizes, KmallocFit(req) PROVE FreeCountExact'
    BY <2>3, <1>3 DEF KmallocFit, pmmVars
  <2>4. ASSUME NEW req \in Sizes, KmallocGrow(req) PROVE FreeCountExact'
    BY <2>4, <1>2 DEF KmallocGrow, Grown
  <2>5. ASSUME NEW req \in Sizes, KmallocTooShort(req) PROVE FreeCountExact'
    BY <2>5, <1>2 DEF KmallocTooShort, Grown
  <2>6. ASSUME NEW req \in Sizes, KmallocNoMemory(req) PROVE FreeCountExact'
    BY <2>6, <1>3 DEF KmallocNoMemory, vars, pmmVars
  <2>7. ASSUME NEW ptr \in DOMAIN live, Kfree(ptr) PROVE FreeCountExact'
    BY <2>7, <1>3 DEF Kfree, pmmVars
  <2>8. CASE UNCHANGED vars
    BY <2>8, <1>3 DEF vars, pmmVars
  <2> QED
    BY <2>1, <2>2, <2>3, <2>4, <2>5, <2>6, <2>7, <2>8, RequestsAreSizes DEF Next
<1> QED
  BY <1>1, <1>4, HeapInvariant, PTL DEF Spec

-----------------------------------------------------------------------------
(* Free neighbors and the pages of the blocks *)

\* Blocks x and y of h are free neighbors that touch inside a page.
Unjoined(h, x, y) ==
  h[x].free /\ h[y].free /\ End(h, x) = y /\ y % PAGE_SIZE # 0

\* Coalesced, of any header memory.
Joined(h) == \A x, y \in DOMAIN h : ~Unjoined(h, x, y)

\* Byte x is one of block a of h.
ByteOf(h, a, x) == a <= x /\ x < End(h, a)

\* The bytes of g's blocks are bytes of h's.
Inside(h, g) ==
  \A a \in DOMAIN g : \A x \in Nat :
    ByteOf(g, a, x) => \E b \in DOMAIN h : ByteOf(h, b, x)

\* heap_extend: the new block starts at a page boundary, and nothing follows it.
LEMMA AppendedJoined ==
  ASSUME NEW h, HeadersOK(h), NEW b \in Nat, \A x \in DOMAIN h : End(h, x) <= b,
         NEW size \in Nat, NEW g, AppendShape(h, g, b, size), b % PAGE_SIZE = 0,
         Joined(h)
  PROVE  Joined(g)
<1>0. HDR \in Nat \ {0}
  BY HeapAssumption
<1>1. \A x \in DOMAIN h : x \in Nat /\ h[x].size \in Nat /\ End(h, x) \in Nat
  BY <1>0, FieldTypes DEF End
<1>2. \A x \in DOMAIN h : x < b
  BY <1>0, <1>1 DEF End
<1>3. /\ DOMAIN g = DOMAIN h \cup {b} /\ g[b].size = size
      /\ \A x \in DOMAIN h : g[x].free = h[x].free /\ End(g, x) = End(h, x)
  BY DEF AppendShape
<1>4. End(g, b) > b
  BY <1>0, <1>3 DEF End
<1>5. ASSUME NEW x \in DOMAIN g, NEW y \in DOMAIN g PROVE ~Unjoined(g, x, y)
  <2>1. CASE y = b
    BY <2>1 DEF Unjoined
  <2>2. CASE y # b /\ x # b
    BY <1>3, <2>2 DEF Unjoined, Joined
  <2>3. CASE y # b /\ x = b
    <3>1. y \in Nat /\ y < b /\ End(g, x) > b /\ End(g, x) \in Int
      BY <1>0, <1>2, <1>1, <1>3, <1>4, <2>3 DEF End
    <3> QED
      BY <3>1 DEF Unjoined
  <2> QED
    BY <2>1, <2>2, <2>3
<1> QED
  BY <1>5 DEF Joined

\* kmalloc: the rest of a split lies behind a block in use, and ends where the
\* block ended.
LEMMA PlacedJoined ==
  ASSUME NEW h, NEW head, HeadersOK(h), ListOK(h, head),
         NEW a \in DOMAIN h, NEW size \in Nat, h[a].free, size <= h[a].size, Joined(h)
  PROVE  Joined(Placed(h, a, size))
<1> DEFINE g == Placed(h, a, size)
           rem == a + HDR + size
<1>1. \A x \in DOMAIN h : /\ x \in Nat /\ h[x].size \in Nat /\ h[x].free \in BOOLEAN
                          /\ End(h, x) \in Nat
  BY FieldTypes, HeapAssumption DEF End
<1>2. CASE Splits(h, a, size)
  <2>1. SplitShape(h, g, a, size, rem)
    BY <1>2, SplitFields
  <2> HIDE DEF g, rem
  <2>2. /\ rem \in Nat /\ a < rem
        /\ rem \notin DOMAIN h /\ DOMAIN g = DOMAIN h \cup {rem}
        /\ g[rem].free /\ ~g[a].free
        /\ End(g, a) = rem /\ End(g, rem) = End(h, a)
        /\ \A x \in DOMAIN h \ {a} : g[x].free = h[x].free /\ End(g, x) = End(h, x)
    BY <2>1 DEF SplitShape
  <2>3. ASSUME NEW x \in DOMAIN h \ {a} PROVE End(h, x) # rem
    <3>1. x < a => End(h, x) <= a
      BY DEF ListOK, Disjoint
    <3>2. a < x => End(h, a) <= x
      BY DEF ListOK, Disjoint
    <3>3. End(h, x) > x /\ rem <= End(h, a)
      <4>1. HDR \in Nat \ {0} /\ MIN_SPLIT_SIZE \in Nat
        BY HeapAssumption
      <4> QED
        BY <1>1, <1>2, <4>1 DEF End, Splits, rem
    <3> QED
      BY <1>1, <2>2, <3>1, <3>2, <3>3
  <2>4. ASSUME NEW x \in DOMAIN g, NEW y \in DOMAIN g PROVE ~Unjoined(g, x, y)
    <3>1. CASE x = a \/ y = a
      BY <2>2, <3>1 DEF Unjoined
    <3>2. CASE x # a /\ y # a /\ x # rem /\ y # rem
      BY <2>2, <3>2 DEF Unjoined, Joined
    <3>3. CASE x # a /\ x # rem /\ y = rem
      BY <2>2, <2>3, <3>3 DEF Unjoined
    <3>4. CASE x = rem /\ y # a /\ y # rem
      BY <2>2, <3>4 DEF Unjoined, Joined
    <3>5. CASE x = rem /\ y = rem
      <4>1. End(g, rem) # rem
        <5>1. g[rem].size \in Nat
          BY <2>1 DEF SplitShape
        <5> QED
          BY <2>2, <5>1, HeapAssumption DEF End
      <4> QED
        BY <3>5, <4>1 DEF Unjoined
    <3> QED
      BY <3>1, <3>2, <3>3, <3>4, <3>5
  <2> QED
    BY <2>4 DEF Joined, g
<1>3. CASE ~Splits(h, a, size)
  <2> DEFINE m == [h EXCEPT ![a].free = FALSE]
  <2>1. /\ DOMAIN m = DOMAIN h /\ m[a].free = FALSE
        /\ \A x \in DOMAIN h : m[x].size = h[x].size
        /\ \A x \in DOMAIN h \ {a} : m[x] = h[x]
    BY Marked
  <2> HIDE DEF m
  <2>2. Joined(m)
    BY <2>1 DEF Joined, Unjoined, End
  <2> QED
    BY <1>3, <2>2 DEF Placed, m
<1> QED
  BY <1>2, <1>3

\* kfree marks block a free and merges it on both sides, so no pair is left.
LEMMA FreedJoined ==
  ASSUME NEW h, NEW head, HeadersOK(h), ListOK(h, head), NEW a \in DOMAIN h, Joined(h)
  PROVE  Joined(Freed(h, a))
<1> DEFINE h1 == [h EXCEPT ![a].free = TRUE]
           h2 == TryMerge(h1, a, h1[a].next, TRUE)
           h3 == TryMerge(h2, a, h2[a].prev, FALSE)
<1>0. HDR \in Nat \ {0}
  BY HeapAssumption
<1>1. /\ HeadersOK(h1) /\ ListOK(h1, head)
      /\ DOMAIN h1 = DOMAIN h /\ h1[a].free = TRUE
      /\ \A x \in DOMAIN h : h1[x].size = h[x].size
      /\ \A x \in DOMAIN h \ {a} : h1[x] = h[x]
  BY Marked
<1>2. \A x, y \in DOMAIN h1 \ {a} : ~Unjoined(h1, x, y)
  BY <1>1 DEF Joined, Unjoined, End
<1> HIDE DEF h1
<1>3. /\ HeadersOK(h2) /\ ListOK(h2, head) /\ a \in DOMAIN h2 /\ h2[a].free
  BY <1>1, TryMergeNextOK
<1>4. \A x \in DOMAIN h2, y \in DOMAIN h2 \ {a} : ~Unjoined(h2, x, y)
  <2> DEFINE n == h1[a].next
  <2>1. CASE Mergeable(h1, n) /\ End(h1, a) = n
    <3>1. n \in DOMAIN h1 /\ h1[n].free
      BY <1>1, <2>1 DEF Mergeable, ListOK, NextFollows
    <3>2. h2 = Merged(h1, a, n)
      BY <2>1 DEF TryMerge
    <3>3. MergeShape(h1, h2, a, n)
      BY <1>1, <2>1, <3>1, <3>2, MergeFields
    <3> HIDE DEF h2, n
    <3>4. /\ DOMAIN h2 = DOMAIN h1 \ {n} /\ End(h2, a) = End(h1, n)
          /\ \A x \in DOMAIN h1 \ {a, n} : h2[x].free = h1[x].free /\ End(h2, x) = End(h1, x)
      BY <3>3 DEF MergeShape
    <3>5. n # a
      BY <1>1, <3>1, <3>3, FieldTypes DEF MergeShape
    <3> QED
      BY <1>2, <3>1, <3>4, <3>5 DEF Unjoined
  <2>2. CASE ~(Mergeable(h1, n) /\ End(h1, a) = n)
    <3>1. h2 = h1
      BY <2>2 DEF TryMerge
    <3>2. ASSUME NEW y \in DOMAIN h1 \ {a}, h1[y].free, End(h1, a) = y PROVE FALSE
      <4>1. a \in Nat /\ y \in Nat /\ h1[a].size \in Nat /\ a < y
        BY <1>0, <1>1, <3>2, FieldTypes DEF End
      <4>2. n # Null /\ n \in DOMAIN h1 /\ a < n /\ n <= y
        BY <1>1, <4>1 DEF ListOK, NextFollows
      <4>3. n \in Nat /\ End(h1, a) <= n
        BY <1>1, <4>2, FieldTypes DEF ListOK, Disjoint
      <4>4. n = y
        BY <3>2, <4>1, <4>2, <4>3
      <4> QED
        BY <2>2, <3>2, <4>2, <4>4 DEF Mergeable
    <3> QED
      BY <1>2, <3>1, <3>2 DEF Unjoined
  <2> QED
    BY <2>1, <2>2
<1> HIDE DEF h2
<1>5. Joined(h3)
  <2> DEFINE p == h2[a].prev
  <2>1. CASE Mergeable(h2, p) /\ End(h2, p) = a
    <3>1. p \in DOMAIN h2 /\ h2[p].free
      BY <1>3, <2>1 DEF Mergeable, ListOK, PrevPrecedes
    <3>2. h3 = Merged(h2, p, a)
      BY <2>1 DEF TryMerge
    <3>3. MergeShape(h2, h3, p, a)
      BY <1>3, <2>1, <3>1, <3>2, MergeFields
    <3> HIDE DEF h3, p
    <3>4. /\ DOMAIN h3 = DOMAIN h2 \ {a} /\ End(h3, p) = End(h2, a)
          /\ h3[p].free = h2[p].free
          /\ \A x \in DOMAIN h2 \ {p, a} : h3[x].free = h2[x].free /\ End(h3, x) = End(h2, x)
      BY <3>3 DEF MergeShape
    <3> QED
      BY <1>3, <1>4, <3>1, <3>4 DEF Unjoined, Joined
  <2>2. CASE ~(Mergeable(h2, p) /\ End(h2, p) = a)
    <3>1. h3 = h2
      BY <2>2 DEF TryMerge
    <3>2. ASSUME NEW x \in DOMAIN h2, h2[x].free, End(h2, x) = a PROVE FALSE
      <4>1. a \in Nat /\ x \in Nat /\ h2[x].size \in Nat /\ x < a
        BY <1>0, <1>3, <3>2, FieldTypes DEF End
      <4>2. p # Null /\ p \in DOMAIN h2 /\ p < a /\ x <= p
        BY <1>3, <4>1 DEF ListOK, PrevPrecedes
      <4>3. p \in Nat /\ (x < p => End(h2, x) <= p)
        BY <1>3, <4>2, FieldTypes DEF ListOK, Disjoint
      <4>4. p = x
        BY <3>2, <4>1, <4>2, <4>3
      <4> QED
        BY <2>2, <3>2, <4>2, <4>4 DEF Mergeable
    <3> QED
      BY <1>4, <3>1, <3>2 DEF Unjoined, Joined
  <2> QED
    BY <2>1, <2>2
<1>6. h3 = Freed(h, a)
  BY DEF h1, h2, h3, Freed
<1> QED
  BY <1>5, <1>6
\* kmalloc's split makes two blocks of the bytes of one.
LEMMA PlacedInside ==
  ASSUME NEW h, NEW head, HeadersOK(h), ListOK(h, head),
         NEW a \in DOMAIN h, NEW size \in Nat, h[a].free, size <= h[a].size
  PROVE  Inside(h, Placed(h, a, size))
<1> DEFINE g == Placed(h, a, size)
           rem == a + HDR + size
<1>1. \A x \in DOMAIN h : x \in Nat /\ h[x].size \in Nat /\ End(h, x) \in Nat
  BY FieldTypes, HeapAssumption DEF End
<1>2. CASE Splits(h, a, size)
  <2>1. SplitShape(h, g, a, size, rem)
    BY <1>2, SplitFields
  <2>2. rem <= End(h, a)
    <3>1. HDR \in Nat /\ MIN_SPLIT_SIZE \in Nat
      BY HeapAssumption
    <3> QED
      BY <1>1, <1>2, <3>1 DEF End, Splits
  <2> HIDE DEF g, rem
  <2>3. /\ rem \in Nat /\ a < rem /\ DOMAIN g = DOMAIN h \cup {rem}
        /\ End(g, a) = rem /\ End(g, rem) = End(h, a)
        /\ \A x \in DOMAIN h \ {a} : End(g, x) = End(h, x)
    BY <2>1 DEF SplitShape
  <2>4. ASSUME NEW c \in DOMAIN g, NEW x \in Nat, ByteOf(g, c, x)
        PROVE  \E b \in DOMAIN h : ByteOf(h, b, x)
    <3>1. CASE c \in {a, rem}
      <4>1. ByteOf(h, a, x)
        BY <1>1, <2>2, <2>3, <2>4, <3>1 DEF ByteOf
      <4> QED
        BY <4>1
    <3>2. CASE c \notin {a, rem}
      BY <2>3, <2>4, <3>2 DEF ByteOf
    <3> QED
      BY <3>1, <3>2
  <2> QED
    BY <2>4 DEF Inside, g
<1>3. CASE ~Splits(h, a, size)
  <2> DEFINE m == [h EXCEPT ![a].free = FALSE]
  <2>1. DOMAIN m = DOMAIN h /\ \A x \in DOMAIN h : m[x].size = h[x].size
    BY Marked
  <2> HIDE DEF m
  <2>2. Inside(h, m)
    BY <2>1 DEF Inside, ByteOf, End
  <2> QED
    BY <1>3, <2>2 DEF Placed, m
<1> QED
  BY <1>2, <1>3

\* A merge makes one block of the bytes of two.
LEMMA MergedInside ==
  ASSUME NEW h, HeadersOK(h), NEW lower \in DOMAIN h, NEW higher \in DOMAIN h,
         End(h, lower) = higher
  PROVE  Inside(h, Merged(h, lower, higher))
<1> DEFINE g == Merged(h, lower, higher)
<1>1. MergeShape(h, g, lower, higher)
  BY MergeFields
<1>2. \A x \in DOMAIN h : x \in Nat /\ End(h, x) \in Nat
  BY FieldTypes, HeapAssumption DEF End
<1> HIDE DEF g
<1>3. /\ DOMAIN g = DOMAIN h \ {higher} /\ End(g, lower) = End(h, higher)
      /\ \A x \in DOMAIN h \ {lower, higher} : End(g, x) = End(h, x)
  BY <1>1 DEF MergeShape
<1>4. ASSUME NEW c \in DOMAIN g, NEW x \in Nat, ByteOf(g, c, x)
      PROVE  \E b \in DOMAIN h : ByteOf(h, b, x)
  <2>1. CASE c = lower
    <3>1. ByteOf(h, lower, x) \/ ByteOf(h, higher, x)
      BY <1>2, <1>3, <1>4, <2>1 DEF ByteOf
    <3> QED
      BY <3>1
  <2>2. CASE c # lower
    BY <1>3, <1>4, <2>2 DEF ByteOf
  <2> QED
    BY <2>1, <2>2
<1> QED
  BY <1>4 DEF Inside, g

\* kfree makes blocks of the bytes there are.
LEMMA FreedInside ==
  ASSUME NEW h, NEW head, HeadersOK(h), ListOK(h, head), NEW a \in DOMAIN h
  PROVE  Inside(h, Freed(h, a))
<1> DEFINE h1 == [h EXCEPT ![a].free = TRUE]
           h2 == TryMerge(h1, a, h1[a].next, TRUE)
           h3 == TryMerge(h2, a, h2[a].prev, FALSE)
<1>1. /\ HeadersOK(h1) /\ ListOK(h1, head)
      /\ DOMAIN h1 = DOMAIN h /\ h1[a].free = TRUE
      /\ \A x \in DOMAIN h : h1[x].size = h[x].size
  BY Marked
<1>2. Inside(h, h1)
  BY <1>1 DEF Inside, ByteOf, End
<1> HIDE DEF h1
<1>3. HeadersOK(h2) /\ ListOK(h2, head) /\ a \in DOMAIN h2
  BY <1>1, TryMergeNextOK
<1>4. Inside(h1, h2)
  <2>1. CASE Mergeable(h1, h1[a].next) /\ End(h1, a) = h1[a].next
    <3>1. h1[a].next \in DOMAIN h1
      BY <1>1, <2>1 DEF Mergeable, ListOK, NextFollows
    <3>2. h2 = Merged(h1, a, h1[a].next)
      BY <2>1 DEF TryMerge
    <3> QED
      BY <1>1, <2>1, <3>1, <3>2, MergedInside
  <2>2. CASE ~(Mergeable(h1, h1[a].next) /\ End(h1, a) = h1[a].next)
    BY <2>2 DEF TryMerge, Inside
  <2> QED
    BY <2>1, <2>2
<1> HIDE DEF h2
<1>5. Inside(h2, h3)
  <2>1. CASE Mergeable(h2, h2[a].prev) /\ End(h2, h2[a].prev) = a
    <3>1. h2[a].prev \in DOMAIN h2
      BY <1>3, <2>1 DEF Mergeable, ListOK, PrevPrecedes
    <3>2. h3 = Merged(h2, h2[a].prev, a)
      BY <2>1 DEF TryMerge
    <3> QED
      BY <1>3, <2>1, <3>1, <3>2, MergedInside
  <2>2. CASE ~(Mergeable(h2, h2[a].prev) /\ End(h2, h2[a].prev) = a)
    BY <2>2 DEF TryMerge, Inside
  <2> QED
    BY <2>1, <2>2
<1> HIDE DEF h3
<1>6. Inside(h, h3)
  BY <1>2, <1>4, <1>5 DEF Inside
<1>7. h3 = Freed(h, a)
  BY DEF h1, h2, h3, Freed
<1> QED
  BY <1>6, <1>7

-----------------------------------------------------------------------------
(* Sums over finite sets *)

\* The element a fold takes from s next.
Pick(s) == CHOOSE x \in s : TRUE

\* f is the fold that sums w over the subsets of S.
SumFold(w, S, f) ==
  f = [s \in SUBSET S |-> IF s = {} THEN 0 ELSE w[Pick(s)] + f[s \ {Pick(s)}]]

\* SumFunctionOnSet is such a fold.
LEMMA SumIsFold ==
  ASSUME NEW w, NEW S, \E f : SumFold(w, S, f)
  PROVE  \E f : SumFold(w, S, f) /\ SumFunctionOnSet(w, S) = f[S]
<1> DEFINE r == CHOOSE f : SumFold(w, S, f)
<1>1. SumFold(w, S, r)
  OBVIOUS
<1>2. SumFunctionOnSet(w, S) = r[S]
  BY DEF SumFunctionOnSet, FoldFunctionOnSet, MapThenFoldSet, SumFold, Pick
<1> HIDE DEF r
<1> QED
  BY <1>1, <1>2

\* Taking an element out of a finite set makes it smaller.
LEMMA OneLess ==
  ASSUME NEW T, IsFiniteSet(T), NEW x \in T
  PROVE  /\ IsFiniteSet(T \ {x}) /\ Cardinality(T) \in Nat
         /\ Cardinality(T \ {x}) \in Nat
         /\ Cardinality(T \ {x}) = Cardinality(T) - 1
  BY FS_RemoveElement, FS_CardinalityType

\* Induction over the subsets of a finite set.
LEMMA SubsetInduction ==
  ASSUME NEW S, IsFiniteSet(S), NEW K, {} \in K,
         \A T \in SUBSET S : (T # {} /\ \A x \in T : T \ {x} \in K) => T \in K
  PROVE  SUBSET S \subseteq K
<1> DEFINE N == {n \in Nat : \A T \in SUBSET S : Cardinality(T) = n => T \in K}
<1>1. \A T \in SUBSET S : IsFiniteSet(T) /\ Cardinality(T) \in Nat
  BY FS_Subset, FS_CardinalityType
<1>2. 0 \in N
  <2>1. \A T \in SUBSET S : Cardinality(T) = 0 => T = {}
    BY <1>1, FS_EmptySet
  <2> QED
    BY <2>1
<1>3. ASSUME NEW n \in Nat, n \in N PROVE n + 1 \in N
  <2> SUFFICES ASSUME NEW T \in SUBSET S, Cardinality(T) = n + 1 PROVE T \in K
    OBVIOUS
  <2>1. T # {}
    <3>1. Cardinality({}) = 0
      BY FS_EmptySet
    <3>2. n + 1 # 0
      OBVIOUS
    <3> QED
      BY <3>1, <3>2
  <2>2. \A x \in T : T \ {x} \in SUBSET S /\ Cardinality(T \ {x}) = n
    BY <1>1, OneLess
  <2> QED
    BY <1>3, <2>1, <2>2
<1> HIDE DEF N
<1>4. Nat \subseteq N
  BY <1>2, <1>3, SetInduction
<1> QED
  BY <1>1, <1>4 DEF N

\* The fold is defined on every finite set.
LEMMA SumFoldExists ==
  ASSUME NEW w, NEW S, IsFiniteSet(S)
  PROVE  \E f : SumFold(w, S, f)
<1> DEFINE Upto(n) == {s \in SUBSET S : Cardinality(s) <= n}
           F(n, f) == [s \in Upto(n) |-> IF s = {} THEN 0 ELSE w[Pick(s)] + f[s \ {Pick(s)}]]
           N == {n \in Nat : \E f : f = F(n, f)}
<1>1. \A T \in SUBSET S : IsFiniteSet(T) /\ Cardinality(T) \in Nat
  BY FS_Subset, FS_CardinalityType
<1>2. \A T \in SUBSET S : T # {} => /\ Pick(T) \in T /\ T \ {Pick(T)} \in SUBSET S
                                    /\ Cardinality(T \ {Pick(T)}) = Cardinality(T) - 1
  <2> TAKE T \in SUBSET S
  <2> HAVE T # {}
  <2>1. Pick(T) \in T
    BY DEF Pick
  <2> QED
    BY <1>1, <2>1, OneLess
<1>3. 0 \in N
  <2> DEFINE f == [s \in Upto(0) |-> 0]
  <2>1. \A s \in Upto(0) : s = {}
    BY <1>1, FS_EmptySet
  <2>2. f = F(0, f)
    BY <2>1
  <2> QED
    BY <2>2
<1>4. ASSUME NEW n \in Nat, n \in N PROVE n + 1 \in N
  <2>1. PICK f : f = F(n, f)
    BY <1>4
  <2> DEFINE g == [s \in Upto(n + 1) |-> IF s = {} THEN 0 ELSE w[Pick(s)] + f[s \ {Pick(s)}]]
  <2>2. ASSUME NEW s \in Upto(n + 1), s # {} PROVE g[s \ {Pick(s)}] = f[s \ {Pick(s)}]
    <3> DEFINE t == s \ {Pick(s)}
    <3>1. t \in SUBSET S /\ Cardinality(t) = Cardinality(s) - 1 /\ Cardinality(s) \in Nat
          /\ Cardinality(s) <= n + 1
      BY <1>1, <1>2, <2>2
    <3>2. t \in Upto(n) /\ t \in Upto(n + 1)
      BY <3>1
    <3> HIDE DEF t
    <3>3. f[t] = IF t = {} THEN 0 ELSE w[Pick(t)] + f[t \ {Pick(t)}]
      BY <2>1, <3>2
    <3>4. g[t] = IF t = {} THEN 0 ELSE w[Pick(t)] + f[t \ {Pick(t)}]
      BY <3>2
    <3> QED
      BY <3>3, <3>4 DEF t
  <2>3. g = F(n + 1, g)
    BY <2>2
  <2>4. \E e : e = F(n + 1, e)
    <3> HIDE DEF g
    <3> QED
      BY <2>3
  <2> HIDE DEF F
  <2> QED
    BY <2>4
<1>5. Nat \subseteq N
  <2> HIDE DEF N
  <2> QED
    BY <1>3, <1>4, SetInduction
<1>6. PICK n \in Nat : n = Cardinality(S)
  BY FS_CardinalityType
<1>7. \A s \in SUBSET S : Cardinality(s) <= n
  BY <1>6, FS_Subset
<1>8. Upto(n) = SUBSET S
  BY <1>7
<1>9. PICK f : f = F(n, f)
  BY <1>5
<1> QED
  BY <1>8, <1>9 DEF SumFold

\* Folds over two sets agree where both are defined, and are integers there.
LEMMA SumFoldsAgree ==
  ASSUME NEW w, NEW S, IsFiniteSet(S), \A x \in S : w[x] \in Int,
         NEW T \in SUBSET S, NEW f, SumFold(w, S, f), NEW g, SumFold(w, T, g)
  PROVE  \A s \in SUBSET T : f[s] = g[s] /\ g[s] \in Int
<1> DEFINE K == {s \in SUBSET T : f[s] = g[s] /\ g[s] \in Int}
<1>1. \A s \in SUBSET T : /\ f[s] = IF s = {} THEN 0 ELSE w[Pick(s)] + f[s \ {Pick(s)}]
                          /\ g[s] = IF s = {} THEN 0 ELSE w[Pick(s)] + g[s \ {Pick(s)}]
  <2> TAKE s \in SUBSET T
  <2>1. s \in SUBSET S
    OBVIOUS
  <2> QED
    BY <2>1 DEF SumFold
<1>2. {} \in K
  BY <1>1
<1>3. ASSUME NEW s \in SUBSET T, s # {}, \A x \in s : s \ {x} \in K PROVE s \in K
  <2>1. Pick(s) \in s
    BY <1>3 DEF Pick
  <2>2. PICK c \in Int : c = f[s \ {Pick(s)}] /\ c = g[s \ {Pick(s)}]
    BY <1>3, <2>1
  <2>3. PICK d \in Int : d = w[Pick(s)]
    BY <2>1
  <2>4. f[s] = d + c /\ g[s] = d + c
    BY <1>1, <1>3, <2>2, <2>3
  <2> QED
    BY <2>4
<1>4. IsFiniteSet(T)
  BY FS_Subset
<1> HIDE DEF K
<1>5. SUBSET T \subseteq K
  BY <1>2, <1>3, <1>4, SubsetInduction
<1> QED
  BY <1>5 DEF K

\* The sum of a finite set, one element at a time, whichever is taken first.
LEMMA SumStep ==
  ASSUME NEW w, NEW S, IsFiniteSet(S), \A x \in S : w[x] \in Int
  PROVE  /\ SumFunctionOnSet(w, S) \in Int
         /\ S = {} => SumFunctionOnSet(w, S) = 0
         /\ \A x \in S : SumFunctionOnSet(w, S) = w[x] + SumFunctionOnSet(w, S \ {x})
<1>1. PICK f : SumFold(w, S, f) /\ SumFunctionOnSet(w, S) = f[S]
  BY SumFoldExists, SumIsFold
<1>2. \A T \in SUBSET S : SumFunctionOnSet(w, T) = f[T] /\ f[T] \in Int
  <2> TAKE T \in SUBSET S
  <2>1. IsFiniteSet(T)
    BY FS_Subset
  <2>2. PICK g : SumFold(w, T, g) /\ SumFunctionOnSet(w, T) = g[T]
    BY <2>1, SumFoldExists, SumIsFold
  <2>3. \A s \in SUBSET T : f[s] = g[s] /\ g[s] \in Int
    BY <1>1, <2>2, SumFoldsAgree
  <2> QED
    BY <2>2, <2>3
<1> DEFINE K == {s \in SUBSET S : \A x \in s : f[s] = w[x] + f[s \ {x}]}
<1>3. \A s \in SUBSET S : f[s] = IF s = {} THEN 0 ELSE w[Pick(s)] + f[s \ {Pick(s)}]
  BY <1>1 DEF SumFold
<1>4. ASSUME NEW s \in SUBSET S, s # {}, \A x \in s : s \ {x} \in K PROVE s \in K
  <2> DEFINE y == Pick(s)
  <2>1. y \in s /\ f[s] = w[y] + f[s \ {y}]
    BY <1>3, <1>4 DEF Pick
  <2> HIDE DEF y
  <2>2. ASSUME NEW x \in s PROVE f[s] = w[x] + f[s \ {x}]
    <3>1. CASE x = y
      BY <2>1, <3>1
    <3>2. CASE x # y
      <4>1. f[s \ {y}] = w[x] + f[(s \ {y}) \ {x}]
        BY <1>4, <2>1, <3>2
      <4>2. f[s \ {x}] = w[y] + f[(s \ {x}) \ {y}]
        BY <1>4, <2>1, <3>2
      <4>3. (s \ {y}) \ {x} = (s \ {x}) \ {y} /\ (s \ {x}) \ {y} \in SUBSET S
        OBVIOUS
      <4>4. PICK d \in Int, e \in Int : d = w[x] /\ e = w[y]
        BY <2>1
      <4>5. PICK c \in Int : c = f[(s \ {x}) \ {y}]
        BY <1>2, <4>3
      <4>6. f[s] = e + (d + c) /\ f[s \ {x}] = e + c
        BY <2>1, <4>1, <4>2, <4>3, <4>4, <4>5
      <4> QED
        BY <4>4, <4>6
    <3> QED
      BY <3>1, <3>2
  <2> QED
    BY <2>2
<1>5. {} \in K
  OBVIOUS
<1> HIDE DEF K
<1>6. SUBSET S \subseteq K
  BY <1>4, <1>5, SubsetInduction
<1>7. \A x \in S : f[S] = w[x] + f[S \ {x}]
  BY <1>6 DEF K
<1> QED
  BY <1>1, <1>2, <1>3, <1>7

\* The sum depends on the values that are added, and on nothing else.
LEMMA SumSame ==
  ASSUME NEW w, NEW v, NEW S, IsFiniteSet(S), \A x \in S : w[x] = v[x] /\ v[x] \in Int
  PROVE  SumFunctionOnSet(w, S) = SumFunctionOnSet(v, S)
<1> DEFINE K == {s \in SUBSET S : SumFunctionOnSet(w, s) = SumFunctionOnSet(v, s)}
<1>1. \A s \in SUBSET S : /\ IsFiniteSet(s)
                          /\ \A x \in s : w[x] \in Int /\ v[x] \in Int
  BY FS_Subset
<1>2. {} \in K
  <2>1. SumFunctionOnSet(w, {}) = 0 /\ SumFunctionOnSet(v, {}) = 0
    BY <1>1, SumStep
  <2> QED
    BY <2>1
<1>3. ASSUME NEW s \in SUBSET S, s # {}, \A x \in s : s \ {x} \in K PROVE s \in K
  <2>1. PICK x : x \in s
    BY <1>3
  <2>2. /\ SumFunctionOnSet(w, s) = w[x] + SumFunctionOnSet(w, s \ {x})
        /\ SumFunctionOnSet(v, s) = v[x] + SumFunctionOnSet(v, s \ {x})
    BY <1>1, <2>1, SumStep
  <2> QED
    BY <1>3, <2>1, <2>2
<1> HIDE DEF K
<1>4. SUBSET S \subseteq K
  BY <1>2, <1>3, SubsetInduction
<1> QED
  BY <1>4 DEF K

\* Adding less of fewer elements makes no larger sum.
LEMMA SumBound ==
  ASSUME NEW w, NEW v, NEW S, IsFiniteSet(S), NEW T \in SUBSET S,
         \A x \in S : w[x] \in Nat /\ v[x] \in Nat /\ w[x] <= v[x]
  PROVE  SumFunctionOnSet(w, T) <= SumFunctionOnSet(v, S)
<1> DEFINE K == {s \in SUBSET S : /\ SumFunctionOnSet(w, s \cap T) <= SumFunctionOnSet(v, s)
                                  /\ SumFunctionOnSet(v, s) >= 0}
<1>1. \A s \in SUBSET S : /\ IsFiniteSet(s)
                          /\ \A x \in s : w[x] \in Int /\ v[x] \in Int
  BY FS_Subset
<1>2. {} \in K
  <2>1. SumFunctionOnSet(w, {}) = 0 /\ SumFunctionOnSet(v, {}) = 0
    BY <1>1, SumStep
  <2>2. {} \cap T = {}
    OBVIOUS
  <2> QED
    BY <2>1, <2>2
<1>3. ASSUME NEW s \in SUBSET S, s # {}, \A x \in s : s \ {x} \in K PROVE s \in K
  <2>1. PICK x : x \in s
    BY <1>3
  <2>2. SumFunctionOnSet(v, s) = v[x] + SumFunctionOnSet(v, s \ {x})
    BY <1>1, <2>1, SumStep
  <2>3. x \in T => SumFunctionOnSet(w, s \cap T) = w[x] + SumFunctionOnSet(w, (s \ {x}) \cap T)
    <3>1. s \cap T \in SUBSET S /\ (s \cap T) \ {x} = (s \ {x}) \cap T
      OBVIOUS
    <3>2. x \in T => SumFunctionOnSet(w, s \cap T) = w[x] + SumFunctionOnSet(w, (s \cap T) \ {x})
      BY <1>1, <2>1, <3>1, SumStep
    <3> QED
      BY <3>1, <3>2
  <2>4. x \notin T => s \cap T = (s \ {x}) \cap T
    OBVIOUS
  <2>5. PICK c \in Int, d \in Int : /\ c = SumFunctionOnSet(v, s \ {x})
                                    /\ d = SumFunctionOnSet(w, (s \ {x}) \cap T)
    <3>1. s \ {x} \in SUBSET S /\ (s \ {x}) \cap T \in SUBSET S
      OBVIOUS
    <3> QED
      BY <1>1, <3>1, SumStep
  <2>6. d <= c /\ c >= 0
    BY <1>3, <2>1, <2>5
  <2>7. PICK m \in Nat, n \in Nat : m = w[x] /\ n = v[x] /\ m <= n
    BY <2>1
  <2>8. SumFunctionOnSet(v, s) = n + c /\ SumFunctionOnSet(w, s \cap T) \in {m + d, d}
    BY <2>2, <2>3, <2>4, <2>5, <2>7
  <2>9. n + c >= 0 /\ m + d <= n + c /\ d <= n + c
    BY <2>6, <2>7
  <2> QED
    BY <2>8, <2>9
<1>4. SUBSET S \subseteq K
  <2> HIDE DEF K
  <2> QED
    BY <1>2, <1>3, SubsetInduction
<1>5. S \cap T = T
  OBVIOUS
<1> QED
  BY <1>4, <1>5

-----------------------------------------------------------------------------
(* The books *)

\* What the blocks of h hold, with their headers.
Extent(h) == [a \in DOMAIN h |-> HDR + h[a].size]

\* What the blocks in use hold.
Size(h) == [a \in DOMAIN h |-> h[a].size]

Total(h) == SumFunctionOnSet(Extent(h), DOMAIN h)

InUse(h) == SumFunctionOnSet(Size(h), Used(h))

\* Cutting a block in two, or joining the two again, moves no byte in or out.
LEMMA CutTotal ==
  ASSUME NEW h, HeadersOK(h), NEW g, HeadersOK(g), IsFiniteSet(DOMAIN g),
         NEW r, r \notin DOMAIN h, DOMAIN g = DOMAIN h \cup {r}, NEW a \in DOMAIN h,
         h[a].size = g[a].size + HDR + g[r].size,
         \A x \in DOMAIN h \ {a} : g[x].size = h[x].size
  PROVE  Total(g) = Total(h)
<1>0. HDR \in Nat
  BY HeapAssumption
<1>1. /\ \A x \in DOMAIN h : h[x].size \in Nat /\ Extent(h)[x] = HDR + h[x].size
      /\ \A x \in DOMAIN g : g[x].size \in Nat /\ Extent(g)[x] = HDR + g[x].size
  BY FieldTypes DEF Extent
<1>2. /\ \A x \in DOMAIN h : Extent(h)[x] \in Int
      /\ \A x \in DOMAIN g : Extent(g)[x] \in Int
  BY <1>0, <1>1
<1> DEFINE D == DOMAIN h
<1>3. IsFiniteSet(D) /\ IsFiniteSet(D \ {a})
  BY FS_Subset
<1>4. DOMAIN g \ {r} = D
  OBVIOUS
<1>5. Total(g) = Extent(g)[r] + SumFunctionOnSet(Extent(g), D)
  BY <1>2, <1>4, SumStep DEF Total
<1>6. SumFunctionOnSet(Extent(g), D) = Extent(g)[a] + SumFunctionOnSet(Extent(g), D \ {a})
  BY <1>2, <1>3, SumStep
<1>7. Total(h) = Extent(h)[a] + SumFunctionOnSet(Extent(h), D \ {a})
  BY <1>2, <1>3, SumStep DEF Total
<1>8. SumFunctionOnSet(Extent(g), D \ {a}) = SumFunctionOnSet(Extent(h), D \ {a})
  <2>1. \A x \in D \ {a} : Extent(g)[x] = Extent(h)[x] /\ Extent(h)[x] \in Int
    BY <1>1, <1>2
  <2> QED
    BY <1>3, <2>1, SumSame
<1>9. PICK c \in Int : c = SumFunctionOnSet(Extent(h), D \ {a})
  BY <1>2, <1>3, SumStep
<1>10. PICK m \in Nat, n \in Nat : m = g[a].size /\ n = g[r].size
  BY <1>1
<1>11. /\ Extent(g)[r] = HDR + n /\ Extent(g)[a] = HDR + m
       /\ Extent(h)[a] = HDR + (m + HDR + n)
  BY <1>1, <1>10
<1>12. Total(g) = (HDR + n) + ((HDR + m) + c) /\ Total(h) = (HDR + (m + HDR + n)) + c
  BY <1>5, <1>6, <1>7, <1>8, <1>9, <1>11
<1> QED
  BY <1>0, <1>10, <1>12

\* The sums of headers with the same blocks and the same sizes.
LEMMA SameTotal ==
  ASSUME NEW h, HeadersOK(h), NEW g, IsFiniteSet(DOMAIN h), DOMAIN g = DOMAIN h,
         \A x \in DOMAIN h : g[x].size = h[x].size
  PROVE  Total(g) = Total(h)
<1>1. \A x \in DOMAIN h : Extent(g)[x] = Extent(h)[x] /\ Extent(h)[x] \in Int
  BY FieldTypes, HeapAssumption DEF Extent
<1> QED
  BY <1>1, SumSame DEF Total

\* kmalloc moves no byte into or out of the heap.
LEMMA PlacedTotal ==
  ASSUME NEW h, NEW head, HeadersOK(h), ListOK(h, head), IsFiniteSet(DOMAIN h),
         NEW a \in DOMAIN h, NEW size \in Nat, h[a].free, size <= h[a].size
  PROVE  /\ Total(Placed(h, a, size)) = Total(h)
         /\ IsFiniteSet(DOMAIN Placed(h, a, size))
<1> DEFINE g == Placed(h, a, size)
           rem == a + HDR + size
<1>1. HDR \in Nat /\ a \in Nat /\ h[a].size \in Nat
  BY HeapAssumption, FieldTypes
<1>2. CASE Splits(h, a, size)
  <2>1. SplitShape(h, g, a, size, rem) /\ HeadersOK(g)
    BY <1>2, SplitFields, SplitOK
  <2> HIDE DEF g, rem
  <2>2. /\ rem \in Nat /\ rem \notin DOMAIN h /\ DOMAIN g = DOMAIN h \cup {rem}
        /\ g[a].size = size /\ g[rem].size \in Nat /\ End(g, rem) = End(h, a)
        /\ \A x \in DOMAIN h \ {a} : g[x].size = h[x].size
    BY <2>1 DEF SplitShape
  <2>3. h[a].size = g[a].size + HDR + g[rem].size
    <3>1. rem + HDR + g[rem].size = a + HDR + h[a].size
      BY <2>2 DEF End
    <3>2. PICK m \in Nat, n \in Nat : m = g[rem].size /\ n = h[a].size
      BY <1>1, <2>2
    <3>3. rem = a + HDR + size
      BY DEF rem
    <3>4. ASSUME NEW s \in Nat, NEW c \in Nat, (s + HDR + size) + HDR + m = s + HDR + c
          PROVE  c = size + HDR + m
      BY <1>1, <3>4
    <3>5. (a + HDR + size) + HDR + m = a + HDR + n
      BY <3>1, <3>2, <3>3
    <3>6. n = size + HDR + m
      BY <1>1, <3>4, <3>5
    <3> QED
      BY <2>2, <3>2, <3>6
  <2>4. IsFiniteSet(DOMAIN g)
    BY <2>2, FS_AddElement
  <2>5. Total(g) = Total(h)
    BY <2>1, <2>2, <2>3, <2>4, CutTotal
  <2> QED
    BY <2>4, <2>5 DEF g
<1>3. CASE ~Splits(h, a, size)
  <2> DEFINE m == [h EXCEPT ![a].free = FALSE]
  <2>1. DOMAIN m = DOMAIN h /\ \A x \in DOMAIN h : m[x].size = h[x].size
    BY Marked
  <2> HIDE DEF m
  <2>2. Total(m) = Total(h) /\ IsFiniteSet(DOMAIN m)
    BY <2>1, SameTotal
  <2> QED
    BY <1>3, <2>2 DEF Placed, m
<1> QED
  BY <1>2, <1>3

\* A merge moves no byte into or out of the heap.
LEMMA MergedTotal ==
  ASSUME NEW h, NEW head, HeadersOK(h), ListOK(h, head), IsFiniteSet(DOMAIN h),
         NEW lower \in DOMAIN h, NEW higher \in DOMAIN h, End(h, lower) = higher
  PROVE  /\ Total(Merged(h, lower, higher)) = Total(h)
         /\ IsFiniteSet(DOMAIN Merged(h, lower, higher))
<1> DEFINE g == Merged(h, lower, higher)
<1>1. MergeShape(h, g, lower, higher) /\ HeadersOK(g)
  BY MergeFields, MergeOK
<1>2. HDR \in Nat /\ lower \in Nat /\ higher \in Nat /\ h[lower].size \in Nat
      /\ h[higher].size \in Nat
  BY HeapAssumption, FieldTypes
<1> HIDE DEF g
<1>3. /\ lower # higher /\ DOMAIN g = DOMAIN h \ {higher} /\ g[lower] \in Header
      /\ End(g, lower) = End(h, higher)
      /\ \A x \in DOMAIN h \ {lower, higher} : g[x].size = h[x].size
  BY <1>1, <1>2 DEF MergeShape
<1>4. g[lower].size = h[lower].size + HDR + h[higher].size
  <2>1. g[lower].size \in Nat
    BY <1>3 DEF Header
  <2>2. lower + HDR + g[lower].size = higher + HDR + h[higher].size
        /\ lower + HDR + h[lower].size = higher
    BY <1>3 DEF End
  <2>3. PICK l \in Nat, m \in Nat, n \in Nat : l = g[lower].size /\ m = h[lower].size
                                                /\ n = h[higher].size
    BY <1>2, <2>1
  <2>4. lower + HDR + l = higher + HDR + n /\ lower + HDR + m = higher
    BY <2>2, <2>3
  <2>5. l = m + HDR + n
    BY <1>2, <2>4
  <2> QED
    BY <2>3, <2>5
<1>5. IsFiniteSet(DOMAIN g)
  BY <1>3, FS_Subset
<1>6. /\ higher \notin DOMAIN g /\ DOMAIN h = DOMAIN g \cup {higher} /\ lower \in DOMAIN g
      /\ \A x \in DOMAIN g \ {lower} : h[x].size = g[x].size
  BY <1>3
<1>7. Total(h) = Total(g)
  BY <1>1, <1>4, <1>6, CutTotal
<1> QED
  BY <1>5, <1>7 DEF g

\* kfree moves no byte into or out of the heap.
LEMMA FreedTotal ==
  ASSUME NEW h, NEW head, HeadersOK(h), ListOK(h, head), IsFiniteSet(DOMAIN h),
         NEW a \in DOMAIN h
  PROVE  Total(Freed(h, a)) = Total(h) /\ IsFiniteSet(DOMAIN Freed(h, a))
<1> DEFINE h1 == [h EXCEPT ![a].free = TRUE]
           h2 == TryMerge(h1, a, h1[a].next, TRUE)
           h3 == TryMerge(h2, a, h2[a].prev, FALSE)
<1>1. /\ HeadersOK(h1) /\ ListOK(h1, head)
      /\ DOMAIN h1 = DOMAIN h /\ h1[a].free = TRUE
      /\ \A x \in DOMAIN h : h1[x].size = h[x].size
  BY Marked
<1> HIDE DEF h1
<1>2. Total(h1) = Total(h) /\ IsFiniteSet(DOMAIN h1)
  BY <1>1, SameTotal
<1>3. HeadersOK(h2) /\ ListOK(h2, head) /\ a \in DOMAIN h2
  BY <1>1, TryMergeNextOK
<1>4. Total(h2) = Total(h1) /\ IsFiniteSet(DOMAIN h2)
  <2>1. CASE Mergeable(h1, h1[a].next) /\ End(h1, a) = h1[a].next
    <3>1. h1[a].next \in DOMAIN h1
      BY <1>1, <2>1 DEF Mergeable, ListOK, NextFollows
    <3>2. h2 = Merged(h1, a, h1[a].next)
      BY <2>1 DEF TryMerge
    <3>3. /\ Total(Merged(h1, a, h1[a].next)) = Total(h1)
          /\ IsFiniteSet(DOMAIN Merged(h1, a, h1[a].next))
      BY <1>1, <1>2, <2>1, <3>1, MergedTotal
    <3> QED
      BY <3>2, <3>3
  <2>2. CASE ~(Mergeable(h1, h1[a].next) /\ End(h1, a) = h1[a].next)
    BY <1>2, <2>2 DEF TryMerge
  <2> QED
    BY <2>1, <2>2
<1> HIDE DEF h2
<1>5. Total(h3) = Total(h2) /\ IsFiniteSet(DOMAIN h3)
  <2>1. CASE Mergeable(h2, h2[a].prev) /\ End(h2, h2[a].prev) = a
    <3>1. h2[a].prev \in DOMAIN h2
      BY <1>3, <2>1 DEF Mergeable, ListOK, PrevPrecedes
    <3>2. h3 = Merged(h2, h2[a].prev, a)
      BY <2>1 DEF TryMerge
    <3> QED
      BY <1>3, <1>4, <2>1, <3>1, <3>2, MergedTotal
  <2>2. CASE ~(Mergeable(h2, h2[a].prev) /\ End(h2, h2[a].prev) = a)
    BY <1>4, <2>2 DEF TryMerge
  <2> QED
    BY <2>1, <2>2
<1> HIDE DEF h3
<1>6. h3 = Freed(h, a)
  BY DEF h1, h2, h3, Freed
<1> QED
  BY <1>2, <1>4, <1>5, <1>6

\* An extent adds its header and its size.
LEMMA AppendedTotal ==
  ASSUME NEW h, HeadersOK(h), IsFiniteSet(DOMAIN h), NEW b, b \notin DOMAIN h,
         NEW size \in Nat, NEW g, AppendShape(h, g, b, size)
  PROVE  Total(g) = Total(h) + HDR + size /\ Total(h) \in Int /\ IsFiniteSet(DOMAIN g)
<1>0. HDR \in Nat
  BY HeapAssumption
<1>1. /\ DOMAIN g = DOMAIN h \cup {b} /\ g[b].size = size
      /\ \A x \in DOMAIN h : g[x].size = h[x].size
  BY DEF AppendShape
<1>2. /\ \A x \in DOMAIN h : Extent(h)[x] \in Int /\ Extent(g)[x] = Extent(h)[x]
      /\ Extent(g)[b] = HDR + size
  BY <1>0, <1>1, FieldTypes DEF Extent
<1>3. IsFiniteSet(DOMAIN g) /\ DOMAIN g \ {b} = DOMAIN h
      /\ \A x \in DOMAIN g : Extent(g)[x] \in Int
  <2>1. HDR + size \in Int
    BY <1>0
  <2>2. IsFiniteSet(DOMAIN g)
    BY <1>1, FS_AddElement
  <2> QED
    BY <1>1, <1>2, <2>1, <2>2
<1>4. Total(g) = (HDR + size) + SumFunctionOnSet(Extent(g), DOMAIN h)
  BY <1>1, <1>2, <1>3, SumStep DEF Total
<1>5. SumFunctionOnSet(Extent(g), DOMAIN h) = Total(h)
  BY <1>2, SumSame DEF Total
<1>6. Total(h) \in Int
  BY <1>2, SumStep DEF Total
<1> QED
  BY <1>0, <1>3, <1>4, <1>5, <1>6

\* What is in use stays when no block changes hands.
LEMMA InUseSame ==
  ASSUME NEW h, HeadersOK(h), IsFiniteSet(DOMAIN h), NEW g, Used(g) = Used(h),
         \A x \in Used(h) : g[x].size = h[x].size
  PROVE  InUse(g) = InUse(h)
<1>1. Used(h) \subseteq DOMAIN h /\ Used(h) \subseteq DOMAIN g
  BY DEF Used
<1>2. \A x \in Used(h) : Size(g)[x] = Size(h)[x] /\ Size(h)[x] \in Int
  BY <1>1, FieldTypes DEF Size
<1>3. IsFiniteSet(Used(h))
  BY <1>1, FS_Subset
<1> QED
  BY <1>2, <1>3, SumSame DEF InUse

\* One more block in use adds its size.
LEMMA InUseMore ==
  ASSUME NEW h, HeadersOK(h), NEW g, HeadersOK(g), IsFiniteSet(DOMAIN g),
         NEW a, a \notin Used(h), Used(g) = Used(h) \cup {a},
         \A x \in Used(h) : g[x].size = h[x].size
  PROVE  InUse(g) = InUse(h) + g[a].size /\ InUse(h) \in Int
<1>1. Used(h) \subseteq DOMAIN h /\ Used(g) \subseteq DOMAIN g /\ a \in DOMAIN g
  BY DEF Used
<1>2. /\ \A x \in Used(h) : Size(g)[x] = Size(h)[x] /\ Size(h)[x] \in Int
      /\ \A x \in Used(g) : Size(g)[x] \in Int
      /\ Size(g)[a] = g[a].size /\ g[a].size \in Int
  BY <1>1, FieldTypes DEF Size
<1>3. IsFiniteSet(Used(g)) /\ IsFiniteSet(Used(h)) /\ Used(g) \ {a} = Used(h)
  BY <1>1, FS_Subset
<1>4. InUse(g) = g[a].size + SumFunctionOnSet(Size(g), Used(h))
  BY <1>2, <1>3, SumStep DEF InUse
<1>5. SumFunctionOnSet(Size(g), Used(h)) = InUse(h)
  BY <1>2, <1>3, SumSame DEF InUse
<1>6. InUse(h) \in Int
  BY <1>2, <1>3, SumStep DEF InUse
<1> QED
  BY <1>2, <1>4, <1>5, <1>6

\* What is in use is part of what the blocks hold.
LEMMA InUseBound ==
  ASSUME NEW h, HeadersOK(h), IsFiniteSet(DOMAIN h)
  PROVE  InUse(h) \in Nat /\ InUse(h) <= Total(h) /\ Total(h) \in Nat
<1>0. HDR \in Nat
  BY HeapAssumption
<1>1. \A x \in DOMAIN h : h[x].size \in Nat
  BY FieldTypes
<1>2. \A x \in DOMAIN h : Size(h)[x] \in Nat /\ Extent(h)[x] \in Nat /\ Size(h)[x] <= Extent(h)[x]
  BY <1>0, <1>1 DEF Size, Extent
<1>3. Used(h) \in SUBSET DOMAIN h /\ IsFiniteSet(Used(h))
  BY FS_Subset DEF Used
<1>4. InUse(h) <= Total(h)
  BY <1>2, <1>3, SumBound DEF InUse, Total
<1>5. InUse(h) \in Int /\ Total(h) \in Int
  <2>1. \A x \in DOMAIN h : Size(h)[x] \in Int /\ Extent(h)[x] \in Int
    BY <1>2
  <2> QED
    BY <1>3, <2>1, SumStep DEF InUse, Total
<1>6. 0 <= InUse(h)
  <2>1. SumFunctionOnSet(Size(h), {}) = 0
    BY FS_EmptySet, SumStep
  <2>2. \A x \in Used(h) : Size(h)[x] \in Nat /\ Size(h)[x] <= Size(h)[x]
    BY <1>2, <1>3
  <2>3. SumFunctionOnSet(Size(h), {}) <= SumFunctionOnSet(Size(h), Used(h))
    <3>1. {} \in SUBSET Used(h)
      OBVIOUS
    <3> QED
      BY <1>3, <2>2, <3>1, SumBound
  <2> QED
    BY <2>1, <2>3 DEF InUse
<1> QED
  BY <1>4, <1>5, <1>6

\* HeapBooks, of any header memory h on the pages P with u bytes in use.
Books(h, P, u) ==
  /\ IsFiniteSet(DOMAIN h)
  /\ Joined(h)
  /\ \A a \in DOMAIN h : \A x \in Nat : ByteOf(h, a, x) => x \div PAGE_SIZE \in P
  /\ Total(h) = PAGE_SIZE * Cardinality(P)
  /\ InUse(h) = u

\* All the blocks together are smaller than a word counts.
LEMMA BelowWord ==
  ASSUME NEW P \in SUBSET Pages
  PROVE  /\ PAGE_SIZE * Cardinality(P) \in Nat /\ PAGE_SIZE * Cardinality(P) < WORD
         /\ IsFiniteSet(P)
<1>1. IsFiniteSet(Pages) /\ Cardinality(Pages) = MAX_PAGES
  BY PageAssumption, FS_Interval DEF Pages
<1>2. IsFiniteSet(P) /\ Cardinality(P) \in Nat /\ Cardinality(P) <= MAX_PAGES
  BY <1>1, FS_Subset, FS_CardinalityType
<1>3. PICK c \in Nat : c = Cardinality(P) /\ c <= MAX_PAGES
  BY <1>2
<1>4. PAGE_SIZE \in Nat /\ MAX_PAGES \in Nat
  BY PageAssumption
<1>5. PAGE_SIZE * c \in Nat /\ PAGE_SIZE * c <= MAX_PAGES * PAGE_SIZE /\ MAX_PAGES * PAGE_SIZE \in Nat
  BY <1>3, <1>4
<1>6. PICK m \in Nat : m = MAX_PAGES * PAGE_SIZE
  BY <1>5
<1>7. m < WORD /\ WORD \in Nat
  <2>1. m + HDR + MIN_SPLIT_SIZE < WORD /\ HDR \in Nat /\ MIN_SPLIT_SIZE \in Nat /\ WORD \in Nat
    BY <1>6, HeapAssumption
  <2> QED
    BY <2>1
<1> QED
  BY <1>2, <1>3, <1>5, <1>6, <1>7

\* kmalloc counts exactly what it grants.
LEMMA PlacedBooks ==
  ASSUME NEW h, NEW head, HeadersOK(h), ListOK(h, head), NEW P \in SUBSET Pages, NEW u,
         Books(h, P, u), NEW a \in DOMAIN h, NEW size \in Nat, h[a].free, size <= h[a].size
  PROVE  LET g == Placed(h, a, size)
         IN  Books(g, P, (u + g[a].size) % WORD)
<1> DEFINE g == Placed(h, a, size)
<1>1. /\ HeadersOK(g) /\ Used(g) = Used(h) \cup {a} /\ a \notin Used(h)
      /\ \A x \in Used(h) : g[x].size = h[x].size
      /\ g[a].size \in Nat
  BY PlacedOK DEF Used
<1>2. Total(g) = PAGE_SIZE * Cardinality(P) /\ IsFiniteSet(DOMAIN g)
  BY PlacedTotal DEF Books
<1>3. Joined(g) /\ Inside(h, g)
  BY PlacedJoined, PlacedInside DEF Books
<1> HIDE DEF g
<1>4. InUse(g) = u + g[a].size
  BY <1>1, <1>2, InUseMore DEF Books
<1>5. InUse(g) \in Nat /\ InUse(g) < WORD /\ WORD \in Nat
  <2>1. /\ InUse(g) \in Nat /\ InUse(g) <= Total(g) /\ Total(g) \in Nat
    BY <1>1, <1>2, InUseBound
  <2>2. Total(g) < WORD /\ WORD \in Nat
    BY <1>2, BelowWord, HeapAssumption
  <2> QED
    BY <2>1, <2>2
<1>6. (u + g[a].size) % WORD = InUse(g)
  <2>1. \A n \in Nat : n < WORD => n % WORD = n
    BY <1>5
  <2> QED
    BY <1>4, <1>5, <2>1
<1>7. \A c \in DOMAIN g : \A x \in Nat : ByteOf(g, c, x) => x \div PAGE_SIZE \in P
  BY <1>3 DEF Inside, Books
<1> QED
  BY <1>2, <1>3, <1>6, <1>7 DEF Books, g

\* kfree takes exactly what was granted off the count.
LEMMA FreedBooks ==
  ASSUME NEW h, NEW head, HeadersOK(h), ListOK(h, head), NEW P \in SUBSET Pages, NEW u,
         Books(h, P, u), NEW a \in DOMAIN h, ~h[a].free
  PROVE  Books(Freed(h, a), P, (u - h[a].size) % WORD)
<1> DEFINE g == Freed(h, a)
<1>1. /\ HeadersOK(g) /\ Used(g) = Used(h) \ {a}
      /\ \A x \in Used(g) : g[x].size = h[x].size
  BY FreedOK
<1>2. Total(g) = PAGE_SIZE * Cardinality(P) /\ IsFiniteSet(DOMAIN g)
  BY FreedTotal DEF Books
<1>3. Joined(g) /\ Inside(h, g)
  BY FreedJoined, FreedInside DEF Books
<1> HIDE DEF g
<1>4. /\ a \notin Used(g) /\ Used(h) = Used(g) \cup {a} /\ IsFiniteSet(DOMAIN h)
      /\ \A x \in Used(g) : h[x].size = g[x].size
  BY <1>1 DEF Used, Books
<1>5. u = InUse(g) + h[a].size /\ InUse(g) \in Int /\ h[a].size \in Nat
  <2>1. InUse(h) = InUse(g) + h[a].size /\ InUse(g) \in Int
    BY <1>1, <1>4, InUseMore
  <2> QED
    BY <2>1, FieldTypes DEF Books
<1>6. InUse(g) \in Nat /\ InUse(g) < WORD /\ WORD \in Nat
  <2>1. /\ InUse(g) \in Nat /\ InUse(g) <= Total(g) /\ Total(g) \in Nat
    BY <1>1, <1>2, InUseBound
  <2>2. Total(g) < WORD /\ WORD \in Nat
    BY <1>2, BelowWord, HeapAssumption
  <2> QED
    BY <2>1, <2>2
<1>7. (u - h[a].size) % WORD = InUse(g)
  <2>1. \A n \in Nat : n < WORD => n % WORD = n
    BY <1>6
  <2>2. u - h[a].size = InUse(g)
    BY <1>5
  <2> QED
    BY <1>6, <2>1, <2>2
<1>8. \A c \in DOMAIN g : \A x \in Nat : ByteOf(g, c, x) => x \div PAGE_SIZE \in P
  BY <1>3 DEF Inside, Books
<1> QED
  BY <1>2, <1>3, <1>7, <1>8 DEF Books, g

\* A byte of a run of pages is in one of them.
LEMMA RunBytes ==
  ASSUME NEW first \in Nat, NEW got \in Nat, NEW x \in Nat,
         first * PAGE_SIZE <= x, x < (first + got) * PAGE_SIZE
  PROVE  x \div PAGE_SIZE \in Run(first, got)
<1>1. PAGE_SIZE \in Nat \ {0}
  BY PageAssumption
<1>2. PICK q \in Nat : q = x \div PAGE_SIZE /\ q * PAGE_SIZE <= x /\ x < (q + 1) * PAGE_SIZE
  BY <1>1
<1>3. first <= q
  <2> SUFFICES ASSUME q + 1 <= first PROVE FALSE
    OBVIOUS
  <2>1. (q + 1) * PAGE_SIZE <= first * PAGE_SIZE
    BY <1>1
  <2> QED
    BY <1>1, <1>2, <2>1
<1>4. q < first + got
  <2> SUFFICES ASSUME first + got <= q PROVE FALSE
    OBVIOUS
  <2>1. (first + got) * PAGE_SIZE <= q * PAGE_SIZE
    BY <1>1
  <2> QED
    BY <1>1, <1>2, <2>1
<1> QED
  BY <1>2, <1>3, <1>4 DEF Run

\* heap_extend enters in the books exactly the pages it keeps.
LEMMA ExtendBooks ==
  ASSUME HeapInv, HeapBooks, Books(hdr, HeapPages, used_bytes),
         NEW pages, NEW first \in Pages, NEW got \in 1 .. MAX_PAGES,
         TakePages(pages, first, got), NEW tail
  PROVE  LET g == Appended(hdr, first * PAGE_SIZE, ExtentSize(got), tail)
         IN  /\ Books(g, HeapPages', used_bytes)
             /\ HeapPages' \in SUBSET Pages
             /\ mmap' \in MemoryMaps /\ BootBitmap(mmap') \subseteq bitmap'
<1> DEFINE b == first * PAGE_SIZE
           size == ExtentSize(got)
           g == Appended(hdr, b, size, tail)
<1>1. /\ bitmap' = bitmap \cup Run(first, got)
      /\ Run(first, got) \subseteq FreePages
      /\ mmap' = mmap
  BY TakePagesOK DEF HeapInv
<1>2. first \in Nat /\ got \in Nat \ {0} /\ HDR \in Nat \ {0} /\ PAGE_SIZE \in Nat \ {0}
  BY PageAssumption, HeapAssumption DEF Pages
<1>3. b \in Nat /\ size \in Nat /\ b + HDR + size = (first + got) * PAGE_SIZE
  BY <1>2, PageArithmetic
<1>4. b % PAGE_SIZE = 0
  BY <1>2
<1>5. size + HDR = got * PAGE_SIZE
  <2>1. got * PAGE_SIZE \in Nat
    BY <1>2
  <2> QED
    BY <1>2, <2>1 DEF ExtentSize
<1>6. HeadersOK(hdr) /\ \A x \in DOMAIN hdr : End(hdr, x) <= b
  <2>1. first \in FreePages
    <3>1. first \in Run(first, got)
      BY <1>2 DEF Run
    <3> QED
      BY <1>1, <3>1
  <2> QED
    BY <2>1, InvConsistent DEF Consistent, HeapInv, FreePagesAbove, Blocks
<1> HIDE DEF b, size
<1>7. b \notin DOMAIN hdr
  <2>1. \A x \in DOMAIN hdr : x \in Nat /\ hdr[x].size \in Nat /\ End(hdr, x) \in Nat
    BY <1>2, <1>6, FieldTypes DEF End
  <2>2. \A x \in DOMAIN hdr : x < End(hdr, x)
    BY <1>2, <2>1 DEF End
  <2> QED
    BY <1>3, <1>6, <2>1, <2>2
<1>8. AppendShape(hdr, g, b, size)
  BY <1>6, <1>7, AppendedUsed
<1> HIDE DEF g
<1>9. /\ HeapPages' = HeapPages \cup Run(first, got) /\ HeapPages \cap Run(first, got) = {}
      /\ HeapPages \in SUBSET Pages /\ HeapPages' \in SUBSET Pages
      /\ Run(first, got) \in SUBSET Pages
  BY <1>1 DEF HeapBooks, HeapPages, FreePages, HeapInv, TypeOK
<1>10. PAGE_SIZE * Cardinality(HeapPages') = PAGE_SIZE * Cardinality(HeapPages) + got * PAGE_SIZE
  <2>1. IsFiniteSet(HeapPages) /\ IsFiniteSet(Run(first, got))
    BY <1>9, BelowWord
  <2>2. Cardinality(Run(first, got)) = got
    <3>1. Cardinality(first .. first + got - 1) = first + got - 1 - first + 1
      BY <1>2, FS_Interval
    <3> QED
      BY <1>2, <3>1 DEF Run
  <2>3. Cardinality(HeapPages \cap Run(first, got)) = 0
    BY <1>9, FS_EmptySet
  <2>4. PICK c \in Nat : c = Cardinality(HeapPages)
    BY <2>1, FS_CardinalityType
  <2>5. Cardinality(HeapPages') = c + got
    <3>1. Cardinality(HeapPages \cup Run(first, got)) =
            Cardinality(HeapPages) + Cardinality(Run(first, got))
              - Cardinality(HeapPages \cap Run(first, got))
      BY <2>1, FS_Union
    <3>2. Cardinality(HeapPages \cup Run(first, got)) = c + got - 0
      BY <2>2, <2>3, <2>4, <3>1
    <3> QED
      BY <1>2, <1>9, <3>2
  <2>6. PAGE_SIZE * (c + got) = PAGE_SIZE * c + got * PAGE_SIZE
    BY <1>2
  <2> QED
    BY <2>4, <2>5, <2>6
<1>11. Total(g) = PAGE_SIZE * Cardinality(HeapPages') /\ IsFiniteSet(DOMAIN g)
  <2>1. /\ Total(g) = Total(hdr) + HDR + size /\ Total(hdr) \in Int /\ IsFiniteSet(DOMAIN g)
    BY <1>3, <1>6, <1>7, <1>8, AppendedTotal DEF Books
  <2>2. Total(hdr) = PAGE_SIZE * Cardinality(HeapPages)
    BY DEF Books
  <2>3. PICK t \in Int, n \in Nat : t = Total(hdr) /\ n = got * PAGE_SIZE
    BY <1>2, <2>1
  <2>4. t + HDR + size = t + n
    BY <1>2, <1>3, <1>5, <2>3
  <2> QED
    BY <1>10, <2>1, <2>2, <2>3, <2>4
<1>12. Joined(g)
  BY <1>3, <1>4, <1>6, <1>8, AppendedJoined DEF Books
<1>13. InUse(g) = used_bytes
  <2>1. Used(g) = Used(hdr) /\ \A x \in Used(hdr) : g[x].size = hdr[x].size
    BY <1>8 DEF AppendShape, Used
  <2> QED
    BY <1>6, <2>1, InUseSame DEF Books
<1>14. ASSUME NEW c \in DOMAIN g, NEW x \in Nat, ByteOf(g, c, x)
       PROVE  x \div PAGE_SIZE \in HeapPages'
  <2>1. CASE c = b
    <3>1. b <= x /\ x < b + HDR + size
      BY <1>8, <1>14, <2>1 DEF ByteOf, AppendShape, End
    <3>2. x \div PAGE_SIZE \in Run(first, got)
      BY <1>2, <1>3, <3>1, RunBytes DEF b
    <3> QED
      BY <1>9, <3>2
  <2>2. CASE c # b
    <3>1. c \in DOMAIN hdr /\ ByteOf(hdr, c, x)
      BY <1>8, <1>14, <2>2 DEF AppendShape, ByteOf
    <3> QED
      BY <1>9, <3>1 DEF Books
  <2> QED
    BY <2>1, <2>2
<1>15. Books(g, HeapPages', used_bytes)
  BY <1>11, <1>12, <1>13, <1>14 DEF Books
<1>16. mmap' \in MemoryMaps /\ BootBitmap(mmap') \subseteq bitmap'
  BY <1>1 DEF HeapBooks
<1> QED
  BY <1>9, <1>15, <1>16 DEF g, b, size

\* HeapBooks, restated of the headers and the pages.
LEMMA BooksBefore ==
  ASSUME HeapInv, HeapBooks
  PROVE  Books(hdr, HeapPages, used_bytes)
<1>1. Joined(hdr)
  BY DEF HeapBooks, Coalesced, Joined, Unjoined, Blocks
<1>2. \A a \in DOMAIN hdr : a \in Nat /\ End(hdr, a) \in Nat
  <2>1. HeadersOK(hdr)
    BY InvConsistent DEF Consistent
  <2> QED
    BY <2>1, FieldTypes, HeapAssumption DEF End
<1>3. \A a \in DOMAIN hdr : \A x \in Nat :
        ByteOf(hdr, a, x) => x \div PAGE_SIZE \in HeapPages
  <2>1. \A a \in DOMAIN hdr : \A x \in Nat : ByteOf(hdr, a, x) => x \in a .. End(hdr, a) - 1
    BY <1>2 DEF ByteOf
  <2> QED
    BY <2>1 DEF HeapBooks, OnHeapPages, Blocks
<1>4. Total(hdr) = PAGE_SIZE * Cardinality(HeapPages)
  BY DEF HeapBooks, NoPageLeak, Total, Extent, Blocks
<1>5. InUse(hdr) = used_bytes
  BY DEF HeapBooks, UsedExact, InUse, Size, Used, Blocks
<1> QED
  BY <1>1, <1>3, <1>4, <1>5 DEF HeapBooks, Books, Blocks

\* The conjuncts of HeapBooks that Books stands for, after a step.
LEMMA BooksAfter ==
  ASSUME HeapInv', Books(hdr', HeapPages', used_bytes'),
         mmap' \in MemoryMaps, BootBitmap(mmap') \subseteq bitmap'
  PROVE  HeapBooks'
<1>1. Coalesced'
  BY DEF Books, Coalesced, Joined, Unjoined, Blocks
<1>2. \A a \in DOMAIN hdr' : a \in Nat /\ End(hdr', a) \in Nat
  <2>1. HeadersOK(hdr')
    BY DEF HeapInv, TypeOK, HeadersOK, Blocks
  <2> QED
    BY <2>1, FieldTypes, HeapAssumption DEF End
<1>3. OnHeapPages'
  <2>1. \A a \in DOMAIN hdr' : \A x \in a .. End(hdr', a) - 1 : x \in Nat /\ ByteOf(hdr', a, x)
    BY <1>2 DEF ByteOf
  <2> QED
    BY <2>1 DEF Books, OnHeapPages, Blocks
<1>4. NoPageLeak'
  BY DEF Books, NoPageLeak, Total, Extent, Blocks
<1>5. UsedExact'
  BY DEF Books, UsedExact, InUse, Size, Used, Blocks
<1> QED
  BY <1>1, <1>3, <1>4, <1>5 DEF HeapBooks, Books, Blocks

\* A step that grants a block, whatever it did to the pages, keeps the books.
LEMMA GrantBooks ==
  ASSUME HeapInv', NEW h, NEW head, HeadersOK(h), ListOK(h, head),
         HeapPages' \in SUBSET Pages, Books(h, HeapPages', used_bytes),
         mmap' \in MemoryMaps, BootBitmap(mmap') \subseteq bitmap',
         NEW a \in DOMAIN h, h[a].free, NEW req \in Sizes, AlignUp(req) <= h[a].size,
         NEW free0, Granted(h, free0, a, req)
  PROVE  HeapBooks'
<1> DEFINE size == AlignUp(req)
           g == Placed(h, a, size)
<1>1. size \in Nat
  BY AlignUpOK
<1>2. hdr' = g /\ used_bytes' = (used_bytes + g[a].size) % WORD
  BY DEF Granted
<1> HIDE DEF size
<1>3. size <= h[a].size
  BY DEF size
<1>4. Books(g, HeapPages', (used_bytes + g[a].size) % WORD)
  BY <1>1, <1>3, PlacedBooks
<1> HIDE DEF g
<1>5. Books(hdr', HeapPages', used_bytes')
  BY <1>2, <1>4
<1> QED
  BY <1>5, BooksAfter

\* What every step finds.
LEMMA BooksFacts ==
  ASSUME HeapInv, HeapBooks
  PROVE  /\ Books(hdr, HeapPages, used_bytes) /\ HeapPages \in SUBSET Pages
         /\ HeadersOK(hdr) /\ ListOK(hdr, heap_head)
  BY BooksBefore, InvConsistent DEF Consistent, HeapPages, HeapInv, TypeOK

\* Every step keeps the books.
LEMMA BooksStep ==
  ASSUME HeapInv, HeapInv', HeapBooks, [Next]_vars
  PROVE  HeapBooks'
<1>0. /\ Books(hdr, HeapPages, used_bytes) /\ HeapPages \in SUBSET Pages
      /\ HeadersOK(hdr) /\ ListOK(hdr, heap_head)
  BY BooksFacts
<1>1. ASSUME UNCHANGED <<mmap, bitmap>> PROVE HeapPages' = HeapPages /\ mmap' \in MemoryMaps
                                              /\ BootBitmap(mmap') \subseteq bitmap'
  BY <1>1 DEF HeapPages, HeapBooks
<1>2. CASE HeapInit
  <2>1. PICK first \in Pages, got \in 1 .. MAX_PAGES :
          /\ TakePages(HEAP_INITIAL_PAGES, first, got)
          /\ hdr' = Appended([a \in {} |-> 0], first * PAGE_SIZE, ExtentSize(got), Null)
    BY <1>2 DEF HeapInit
  <2>2. DOMAIN hdr = {} /\ hdr \in [{} -> Header]
    BY <1>2 DEF HeapInit, HeapInv, BeforeInit, Blocks, TypeOK
  <2>3. hdr = [a \in {} |-> 0]
    BY <2>2
  <2>4. used_bytes = 0 /\ used_bytes' = 0
    <3>1. Used(hdr) = {}
      BY <2>2 DEF Used
    <3>2. SumFunctionOnSet(Size(hdr), {}) = 0
      BY FS_EmptySet, SumStep
    <3> QED
      BY <1>0, <1>2, <3>1, <3>2 DEF Books, InUse, HeapInit
  <2>5. hdr' = Appended(hdr, first * PAGE_SIZE, ExtentSize(got), Null)
    BY <2>1, <2>3
  <2>6. /\ Books(hdr', HeapPages', used_bytes)
        /\ mmap' \in MemoryMaps /\ BootBitmap(mmap') \subseteq bitmap'
    BY <1>0, <2>1, <2>5, ExtendBooks
  <2> QED
    BY <2>4, <2>6, BooksAfter
<1>3. CASE HeapInitNoMemory
  <2>1. hdr' = hdr /\ UNCHANGED <<mmap, bitmap>> /\ used_bytes' = 0 /\ DOMAIN hdr = {}
    BY <1>3 DEF HeapInitNoMemory, pmmVars, HeapInv, BeforeInit, Blocks
  <2>2. used_bytes = 0
    <3>1. Used(hdr) = {}
      BY <2>1 DEF Used
    <3>2. SumFunctionOnSet(Size(hdr), {}) = 0
      BY FS_EmptySet, SumStep
    <3> QED
      BY <1>0, <3>1, <3>2 DEF Books, InUse
  <2> QED
    BY <1>0, <1>1, <2>1, <2>2, BooksAfter
<1>4. ASSUME NEW req \in Sizes, KmallocFit(req) PROVE HeapBooks'
  <2>1. PICK a \in Blocks : FirstFit(a, AlignUp(req)) /\ Granted(hdr, free_bytes, a, req)
    BY <1>4 DEF KmallocFit
  <2>2. a \in DOMAIN hdr /\ hdr[a].free /\ AlignUp(req) <= hdr[a].size
    <3>1. hdr[a].size \in Nat /\ AlignUp(req) \in Nat /\ a \in DOMAIN hdr
      BY <1>0, FieldTypes, AlignUpOK DEF Blocks
    <3> QED
      BY <2>1, <3>1 DEF FirstFit, Fits
  <2>3. UNCHANGED <<mmap, bitmap>>
    BY <1>4 DEF KmallocFit, pmmVars
  <2> QED
    BY <1>0, <1>1, <2>1, <2>2, <2>3, GrantBooks
<1>5. ASSUME NEW req \in Sizes, KmallocGrow(req) PROVE HeapBooks'
  <2>1. PICK first \in Pages, got \in 1 .. MAX_PAGES, tail \in Blocks \cup {Null} :
          /\ Grown(NeedPages(AlignUp(req)), first, got, tail)
          /\ ExtentSize(got) >= AlignUp(req)
          /\ Granted(Appended(hdr, first * PAGE_SIZE, ExtentSize(got), tail),
                     free_bytes + ExtentSize(got), first * PAGE_SIZE, req)
    BY <1>5 DEF KmallocGrow
  <2> DEFINE b == first * PAGE_SIZE
             g == Appended(hdr, b, ExtentSize(got), tail)
  <2>2. /\ Consistent(g, heap_head', bitmap')
        /\ b \in DOMAIN g /\ g[b].free /\ g[b].size = ExtentSize(got)
        /\ ExtentSize(got) \in Nat
    BY <2>1, GrowStep
  <2>3. /\ Books(g, HeapPages', used_bytes) /\ HeapPages' \in SUBSET Pages
        /\ mmap' \in MemoryMaps /\ BootBitmap(mmap') \subseteq bitmap'
    <3>1. TakePages(NeedPages(AlignUp(req)), first, got)
      BY <2>1 DEF Grown
    <3> QED
      BY <1>0, <3>1, ExtendBooks
  <2>4. Granted(g, free_bytes + ExtentSize(got), b, req)
    BY <2>1
  <2> HIDE DEF b, g
  <2>5. HeadersOK(g) /\ ListOK(g, heap_head') /\ AlignUp(req) <= g[b].size
    BY <2>1, <2>2, AlignUpOK DEF Consistent
  <2> QED
    BY <2>2, <2>3, <2>4, <2>5, GrantBooks
<1>6. ASSUME NEW req \in Sizes, KmallocTooShort(req) PROVE HeapBooks'
  <2>1. PICK first \in Pages, got \in 1 .. MAX_PAGES, tail \in Blocks \cup {Null} :
          /\ TakePages(NeedPages(AlignUp(req)), first, got)
          /\ hdr' = Appended(hdr, first * PAGE_SIZE, ExtentSize(got), tail)
          /\ used_bytes' = used_bytes
    BY <1>6 DEF KmallocTooShort, Grown
  <2>2. /\ Books(hdr', HeapPages', used_bytes)
        /\ mmap' \in MemoryMaps /\ BootBitmap(mmap') \subseteq bitmap'
    BY <1>0, <2>1, ExtendBooks
  <2> QED
    BY <2>1, <2>2, BooksAfter
<1>7. ASSUME UNCHANGED vars PROVE HeapBooks'
  <2>1. hdr' = hdr /\ used_bytes' = used_bytes /\ UNCHANGED <<mmap, bitmap>>
    BY <1>7 DEF vars, pmmVars, heapVars
  <2> QED
    BY <1>0, <1>1, <2>1, BooksAfter
<1>8. ASSUME NEW ptr \in DOMAIN live, Kfree(ptr) PROVE HeapBooks'
  <2> DEFINE a == ptr - HDR
  <2>1. a \in DOMAIN hdr /\ ~hdr[a].free
    <3>1. PICK x \in Blocks : ptr = x + HDR /\ ~hdr[x].free
      BY DEF HeapInv, LiveIsUsed
    <3>2. x \in Nat /\ HDR \in Nat
      BY HeapAssumption DEF HeapInv, TypeOK
    <3>3. a = x
      BY <3>1, <3>2
    <3> QED
      BY <3>1, <3>3 DEF Blocks
  <2>2. /\ hdr' = Freed(hdr, a) /\ used_bytes' = (used_bytes - hdr[a].size) % WORD
        /\ UNCHANGED <<mmap, bitmap>>
    BY <1>8 DEF Kfree, pmmVars
  <2> HIDE DEF a
  <2>3. Books(hdr', HeapPages, used_bytes')
    BY <1>0, <2>1, <2>2, FreedBooks
  <2> QED
    BY <1>1, <2>2, <2>3, BooksAfter
<1>9. ASSUME NEW req \in Sizes, KmallocNoMemory(req) PROVE HeapBooks'
  BY <1>7, <1>9 DEF KmallocNoMemory
<1> QED
  BY <1>2, <1>3, <1>4, <1>5, <1>6, <1>7, <1>8, <1>9, RequestsAreSizes DEF Next

\* The books are right when the machine has booted.
LEMMA BooksInit ==
  ASSUME Init
  PROVE  HeapBooks
<1>1. /\ bitmap = BootBitmap(mmap) /\ hdr = [a \in {} |-> 0] /\ used_bytes = 0
      /\ mmap \in MemoryMaps
  BY PmmInitOK DEF Init
<1>2. Blocks = {} /\ IsFiniteSet(Blocks) /\ HeapPages = {}
  BY <1>1, FS_EmptySet DEF Blocks, HeapPages
<1>3. \A w : SumFunctionOnSet(w, {}) = 0
  BY FS_EmptySet, SumStep
<1>4. NoPageLeak
  <2>1. Cardinality({}) = 0 /\ PAGE_SIZE * 0 = 0
    BY FS_EmptySet, PageAssumption
  <2> QED
    BY <1>2, <1>3, <2>1 DEF NoPageLeak
<1>5. UsedExact
  <2>1. {a \in Blocks : ~hdr[a].free} = {}
    BY <1>2
  <2> QED
    BY <1>1, <1>3, <2>1 DEF UsedExact
<1> QED
  BY <1>1, <1>2, <1>4, <1>5 DEF HeapBooks, OnHeapPages, Coalesced

\* In every reachable state the pages taken are the blocks, byte for byte, and
\* the count of the bytes in use has not wrapped.
THEOREM HeapBooksInvariant == Spec => []HeapBooks
<1>1. Init => HeapBooks
  BY BooksInit
<1>2. HeapInv /\ HeapInv' /\ HeapBooks /\ [Next]_vars => HeapBooks'
  BY BooksStep
<1> QED
  BY <1>1, <1>2, HeapInvariant, PTL DEF Spec

\* used_bytes is what the blocks handed out hold (heap.c), on every machine.
THEOREM HeapUsedExact == Spec => []UsedExact
<1>1. HeapBooks => UsedExact
  BY DEF HeapBooks
<1> QED
  BY <1>1, HeapBooksInvariant, PTL

\* No page is lost: the pages heap_extend keeps are the blocks.
THEOREM HeapNoPageLeak == Spec => []NoPageLeak
<1>1. HeapBooks => NoPageLeak
  BY DEF HeapBooks
<1> QED
  BY <1>1, HeapBooksInvariant, PTL

\* Free neighbors that touch meet at a page boundary.
THEOREM HeapCoalesced == Spec => []Coalesced
<1>1. HeapBooks => Coalesced
  BY DEF HeapBooks
<1> QED
  BY <1>1, HeapBooksInvariant, PTL

\* A byte of a page pmm_init released is usable RAM, or one of the exceptions.
LEMMA ReleasedUsable ==
  ASSUME mmap \in MemoryMaps, NEW x \in Nat, x \div PAGE_SIZE \in Pages \ BootBitmap(mmap)
  PROVE  UsableByte(x) \/ InFront(x) \/ Truncated(x)
<1>1. PAGE_SIZE \in Nat \ {0} /\ MAX_PAGES \in Nat \ {0} /\ WORD \in Nat \ {0}
  BY PageAssumption
<1>2. PICK p \in Nat : p = x \div PAGE_SIZE /\ p * PAGE_SIZE <= x /\ x < (p + 1) * PAGE_SIZE
  BY <1>1
<1>3. PICK i \in DOMAIN mmap : p \in Released(mmap[i])
  BY <1>2 DEF BootBitmap
<1>4. mmap[i] \in MapEntry
  BY <1>3, MapAssumption
<1> DEFINE e == mmap[i]
<1>5. e.base_addr \in Nat /\ e.length \in Nat
  BY <1>4 DEF MapEntry
<1> HIDE DEF e
<1>6. PICK base \in Nat, top \in Nat : base = e.base_addr /\ top = e.base_addr + e.length
  BY <1>5
<1>7. PICK limit \in Nat : limit = MAX_PAGES * PAGE_SIZE
  BY <1>1
<1>8. PICK cut \in Nat : cut = top % (WORD * WORD) /\ cut <= top
  <2>1. WORD * WORD \in Nat \ {0}
    BY <1>1
  <2>2. ASSUME NEW w \in Nat \ {0} PROVE top % w \in Nat /\ top % w <= top
    OBVIOUS
  <2> QED
    BY <2>1, <2>2
<1>9. PICK last \in Nat : last = Smaller(cut, limit) /\ last <= cut
  BY DEF Smaller
<1>10. e.type = 1 /\ FirstPage(e) <= p /\ p < last \div PAGE_SIZE
  BY <1>3, <1>6, <1>7, <1>8, <1>9 DEF Released, e
<1>11. x < top
  <2>1. PICK q \in Nat : q = last \div PAGE_SIZE /\ q * PAGE_SIZE <= last
    BY <1>1
  <2>2. (p + 1) * PAGE_SIZE <= q * PAGE_SIZE
    <3>1. p + 1 <= q
      BY <1>10, <2>1
    <3> QED
      BY <1>1, <3>1
  <2> QED
    BY <1>1, <1>2, <1>8, <1>9, <2>1, <2>2
<1>12. PICK q \in Nat : q = base \div PAGE_SIZE /\ base < (q + 1) * PAGE_SIZE
  BY <1>1
<1>13. CASE base <= x
  BY <1>5, <1>6, <1>10, <1>11, <1>13 DEF UsableByte, e
<1>14. CASE WORD <= q
  BY <1>1, <1>2, <1>6, <1>10, <1>12, <1>14 DEF Truncated, e
<1>15. CASE x < base /\ q < WORD
  <2>1. FirstPage(e) = q
    <3>1. \A k \in Nat : k < WORD => k % WORD = k
      BY <1>1
    <3> QED
      BY <1>6, <1>12, <1>15, <3>1 DEF FirstPage
  <2>2. q >= p
    <3> SUFFICES ASSUME q + 1 <= p PROVE FALSE
      BY <1>12
    <3>1. (q + 1) * PAGE_SIZE <= p * PAGE_SIZE
      BY <1>1
    <3> QED
      BY <1>1, <1>2, <1>12, <1>15, <3>1
  <2>3. q = p
    BY <1>10, <2>1, <2>2
  <2> QED
    BY <1>2, <1>6, <1>10, <1>12, <1>15, <2>3 DEF InFront, e
<1> QED
  BY <1>1, <1>12, <1>13, <1>14, <1>15

\* The heap lies in the RAM the memory map reports (pmm.c:32), whatever the map,
\* but for what pmm_init releases in front of a region that starts inside a page
\* and for a region whose first page number does not fit 32 bits.
THEOREM HeapInUsableRam == Spec => []BlocksInUsableRam
<1>1. ASSUME HeapInv, HeapBooks PROVE BlocksInUsableRam
  <2> SUFFICES ASSUME NEW a \in Blocks, NEW x \in a .. End(hdr, a) - 1
               PROVE  UsableByte(x) \/ InFront(x) \/ Truncated(x)
    BY DEF BlocksInUsableRam
  <2>1. x \in Nat
    <3>1. a \in Nat /\ hdr[a].size \in Nat
      BY <1>1, InvConsistent, FieldTypes DEF Consistent, Blocks
    <3>2. End(hdr, a) \in Nat
      BY <3>1, HeapAssumption DEF End
    <3> QED
      BY <3>1, <3>2
  <2>2. x \div PAGE_SIZE \in Pages \ BootBitmap(mmap)
    BY <1>1 DEF HeapBooks, OnHeapPages, HeapPages, HeapInv, TypeOK
  <2> QED
    BY <1>1, <2>1, <2>2, ReleasedUsable DEF HeapBooks
<1> QED
  BY <1>1, HeapInvariant, HeapBooksInvariant, PTL

-----------------------------------------------------------------------------
(* kmalloc and kfree as the commands see them *)

\* What a command knows when kmalloc returns: either nothing is allocated, or a
\* new pointer is, for the size asked for, and the others are still there.
Answered(req) ==
  \/ Returned = Null /\ live' = live
  \/ /\ Returned # Null /\ Returned \in Nat /\ Returned \notin DOMAIN live
     /\ DOMAIN live' = DOMAIN live \cup {Returned}
     /\ live'[Returned] = req
     /\ \A p \in DOMAIN live : live'[p] = live[p]

LEMMA GrantAnswers ==
  ASSUME HeapInv, NEW h, NEW free0, NEW a \in Nat, a \notin Used(hdr), NEW req,
         Granted(h, free0, a, req)
  PROVE  Answered(req)
<1>1. live' = [p \in DOMAIN live \cup {a + HDR} |-> IF p = a + HDR THEN req ELSE live[p]]
  BY DEF Granted
<1>2. HDR \in Nat /\ HDR > 0
  BY HeapAssumption
<1>3. \A b \in Blocks : b \in Nat
  BY DEF HeapInv, TypeOK
<1>4. a + HDR \notin DOMAIN live
  BY <1>2, <1>3 DEF HeapInv, LiveIsUsed, Used, Blocks
<1>5. DOMAIN live' = DOMAIN live \cup {a + HDR} /\ DOMAIN live' # DOMAIN live
  BY <1>1, <1>4
<1>6. Returned = a + HDR
  BY <1>4, <1>5 DEF Returned
<1>7. a + HDR \in Nat /\ a + HDR # Null
  BY <1>2 DEF Null
<1>8. live'[a + HDR] = req /\ \A p \in DOMAIN live : live'[p] = live[p]
  BY <1>1, <1>4
<1> QED
  BY <1>4, <1>5, <1>6, <1>7, <1>8 DEF Answered

\* Every outcome of kmalloc.
LEMMA KmallocAnswers ==
  ASSUME HeapInv, NEW req \in Sizes, Kmalloc(req)
  PROVE  HeapInv' /\ Answered(req) /\ up' = up
<1>1. CASE KmallocFit(req)
  <2>1. PICK a \in Blocks : FirstFit(a, AlignUp(req)) /\ Granted(hdr, free_bytes, a, req)
    BY <1>1 DEF KmallocFit
  <2>2. a \in Nat /\ a \notin Used(hdr)
    BY <2>1 DEF FirstFit, Fits, Used, HeapInv, TypeOK
  <2>3. Answered(req)
    BY <2>1, <2>2, GrantAnswers
  <2> QED
    BY <1>1, <2>3, KmallocFitOK DEF KmallocFit
<1>2. CASE KmallocGrow(req)
  <2>1. PICK first \in Pages, got \in 1 .. MAX_PAGES, tail \in Blocks \cup {Null} :
          /\ Grown(NeedPages(AlignUp(req)), first, got, tail)
          /\ Granted(Appended(hdr, first * PAGE_SIZE, ExtentSize(got), tail),
                     free_bytes + ExtentSize(got), first * PAGE_SIZE, req)
    BY <1>2 DEF KmallocGrow
  <2> DEFINE b == first * PAGE_SIZE
             g == Appended(hdr, b, ExtentSize(got), tail)
  <2>2. b \in DOMAIN g /\ g[b].free /\ Used(g) = Used(hdr)
    BY <2>1, GrowStep
  <2>3. b \in Nat /\ Granted(g, free_bytes + ExtentSize(got), b, req)
    BY <2>1, PageAssumption DEF Pages
  <2> HIDE DEF b, g
  <2>4. b \notin Used(hdr)
    BY <2>2 DEF Used
  <2>5. Answered(req)
    BY <2>3, <2>4, GrantAnswers
  <2> QED
    BY <1>2, <2>1, <2>5, KmallocGrowOK DEF KmallocGrow, Grown
<1>3. CASE KmallocTooShort(req)
  <2>1. live' = live /\ up' = up
    BY <1>3 DEF KmallocTooShort, Grown
  <2> QED
    BY <1>3, <2>1, KmallocTooShortOK DEF Answered, Returned
<1>4. CASE KmallocNoMemory(req)
  <2>1. live' = live /\ up' = up /\ UNCHANGED vars
    BY <1>4 DEF KmallocNoMemory, vars, heapVars
  <2> QED
    BY <2>1, StutterOK DEF Answered, Returned
<1>5. req # 0
  BY DEF Sizes
<1> QED
  BY <1>1, <1>2, <1>3, <1>4, <1>5 DEF Kmalloc

\* kmalloc of nothing returns NULL.
LEMMA KmallocNothing ==
  ASSUME HeapInv, Kmalloc(0)
  PROVE  HeapInv' /\ Returned = Null /\ live' = live /\ up' = up /\ hdr' = hdr
<1>1. UNCHANGED vars
  BY DEF Kmalloc
<1>2. live' = live /\ up' = up /\ hdr' = hdr
  BY <1>1 DEF vars, heapVars
<1> QED
  BY <1>1, <1>2, StutterOK DEF Returned

\* kfree takes its pointer from the clients, and no other.
LEMMA KfreeTakes ==
  ASSUME HeapInv, NEW ptr \in DOMAIN live, Kfree(ptr)
  PROVE  HeapInv' /\ DOMAIN live' = DOMAIN live \ {ptr} /\ up
  BY KfreeOK DEF Kfree

-----------------------------------------------------------------------------
(* The invariant *)

Jobs == [pc : {"read", "show", "load", "run", "free", "wild"}, command : {"catdisk", "runelf"},
         file : Images, ptr : Nat, written : Nat]

\* A job in progress is not the prompt.
LEMMA JobsArePrograms ==
  ASSUME NEW j \in Jobs
  PROVE  j # Prompt
  BY DEF Jobs, Prompt

\* The sizes the commands ask for; catdisk may ask for nothing at all.
LEMMA SizesFit ==
  ASSUME NEW file \in Images, file.size > 0, NEW command \in {"catdisk", "runelf"}
  PROVE  /\ file.size \in Nat /\ file.size < WORD /\ file.stored \in Nat
         /\ BufferSize(command, file) \in Nat
         /\ BufferSize(command, file) = 0 \/ BufferSize(command, file) \in Sizes
         /\ BufferSize(command, file) # 0 => file.size <= BufferSize(command, file)
         /\ command = "catdisk" /\ BufferSize(command, file) # 0 =>
              BufferSize(command, file) = file.size + 1
<1>1. file.size \in 1 .. WORD - 1 /\ file.stored \in Nat /\ WORD \in Nat
  BY ProgramsAssumption, HeapAssumption
<1>2. CASE command = "catdisk"
  <2>1. BufferSize(command, file) = (file.size + 1) % WORD
    BY <1>2 DEF BufferSize
  <2>2. CASE file.size + 1 = WORD
    <3>1. (file.size + 1) % WORD = 0
      BY <1>1, <2>2
    <3> QED
      BY <1>1, <2>1, <3>1
  <2>3. CASE file.size + 1 < WORD
    <3>1. (file.size + 1) % WORD = file.size + 1
      BY <1>1, <2>3
    <3> QED
      BY <1>1, <2>1, <2>3, <3>1 DEF Sizes
  <2> QED
    BY <1>1, <2>2, <2>3
<1>3. CASE command = "runelf"
  <2>1. BufferSize(command, file) = file.size
    BY <1>3 DEF BufferSize
  <2> QED
    BY <1>1, <1>3, <2>1 DEF Sizes
<1> QED
  BY <1>2, <1>3

LEMMA ProgramsInitInv == ProgramsInit => ProgramsInv
<1> SUFFICES ASSUME ProgramsInit PROVE ProgramsInv
  OBVIOUS
<1>1. HeapInv
  BY InitOK DEF ProgramsInit
<1>2. DOMAIN live = {}
  BY DEF ProgramsInit, Init
<1> QED
  BY <1>1, <1>2 DEF ProgramsInit, ProgramsInv, JobOK, MemoryOK, Prompt

\* heap_init runs before there is a job.
LEMMA BootInv == ProgramsInv /\ Boot => ProgramsInv'
<1> SUFFICES ASSUME ProgramsInv, Boot PROVE ProgramsInv'
  OBVIOUS
<1>1. HeapInv' /\ ~up /\ live' = live /\ UNCHANGED programVars
  BY HeapInitOK, HeapInitNoMemoryOK DEF Boot, HeapInit, HeapInitNoMemory, ProgramsInv
<1>2. job = Prompt
  BY <1>1 DEF ProgramsInv, JobOK
<1> QED
  BY <1>1, <1>2 DEF ProgramsInv, JobOK, MemoryOK, programVars

\* What is kept is kept without a job.
LEMMA KeepInv ==
  ASSUME ProgramsInv, job = Prompt, job' = job, memory' = memory, NEW size \in Sizes,
         Kmalloc(size), kept' = kept \cup ({Returned} \ {Null})
  PROVE  ProgramsInv'
<1>1. HeapInv' /\ Answered(size)
  BY KmallocAnswers DEF ProgramsInv
<1>2. DOMAIN live' = kept'
  BY <1>1 DEF Answered, ProgramsInv
<1> QED
  BY <1>1, <1>2 DEF ProgramsInv, JobOK, MemoryOK

LEMMA RequestRamInv == ProgramsInv /\ RequestRam => ProgramsInv'
<1> SUFFICES ASSUME ProgramsInv, RequestRam PROVE ProgramsInv'
  OBVIOUS
<1> QED
  BY KeepInv, ProgramsAssumption DEF RequestRam, AtPrompt

\* vfs_init runs before there is a job.
LEMMA VfsAllocNodeInv == ProgramsInv /\ VfsAllocNode => ProgramsInv'
<1> SUFFICES ASSUME ProgramsInv, VfsAllocNode PROVE ProgramsInv'
  OBVIOUS
<1>1. job = Prompt
  BY ProgramsAssumption DEF ProgramsInv, JobOK, VfsAllocNode
<1> QED
  BY <1>1, KeepInv, ProgramsAssumption DEF VfsAllocNode

LEMMA StopInv == ProgramsInv /\ Stop => ProgramsInv'
<1> SUFFICES ASSUME ProgramsInv, Stop PROVE ProgramsInv'
  OBVIOUS
<1>1. UNCHANGED vars /\ UNCHANGED <<job, memory, kept, nodes, live, hdr, up>>
  BY DEF Stop, vars, heapVars
<1>2. HeapInv'
  BY <1>1, StutterOK DEF ProgramsInv
<1> QED
  BY <1>1, <1>2 DEF ProgramsInv, JobOK, MemoryOK

LEMMA OpenInv ==
  ASSUME ProgramsInv, NEW file \in Images, NEW command \in {"catdisk", "runelf"},
         Open(command, file)
  PROVE  ProgramsInv'
<1> DEFINE size == BufferSize(command, file)
<1>1. /\ job = Prompt /\ file.size > 0 /\ memory' = memory /\ kept' = kept /\ memory = Untouched
      /\ up /\ nodes' = nodes /\ nodes = VFS_BOOT_NODES /\ Kmalloc(size)
  BY DEF Open, AtPrompt, ProgramsInv, MemoryOK, Prompt
<1>2. /\ file.size \in Nat /\ (size = 0 \/ size \in Sizes) /\ size \in Nat
  BY <1>1, SizesFit
<1>3. HeapInv
  BY DEF ProgramsInv
<1> HIDE DEF size
<1>4. HeapInv' /\ Answered(size) /\ up' = up
  <2>1. CASE size = 0
    <3>1. Kmalloc(0)
      BY <1>1, <2>1
    <3> QED
      BY <1>3, <3>1, KmallocNothing DEF Answered
  <2>2. CASE size \in Sizes
    BY <1>1, <1>3, <2>2, KmallocAnswers
  <2> QED
    BY <1>2, <2>1, <2>2
<1>5. CASE Returned = Null
  <2>1. job' = Prompt /\ live' = live
    BY <1>4, <1>5 DEF Open, Answered
  <2> QED
    BY <1>1, <1>4, <2>1 DEF ProgramsInv, JobOK, MemoryOK, Prompt
<1>6. CASE Returned # Null
  <2>1. job' = [pc |-> "read", command |-> command, file |-> file, ptr |-> Returned, written |-> 0]
    BY <1>6 DEF Open
  <2>2. /\ Returned \in Nat /\ Returned \notin DOMAIN live
        /\ DOMAIN live' = DOMAIN live \cup {Returned} /\ live'[Returned] = size
    BY <1>4, <1>6 DEF Answered
  <2>3. job' \in Jobs /\ job' # Prompt
    BY <2>1, <2>2, JobsArePrograms DEF Jobs
  <2>4. /\ job'.pc = "read" /\ job'.command = command /\ job'.file = file
        /\ job'.ptr = Returned /\ job'.written = 0
    BY <2>1
  <2>5. DOMAIN live = kept
    BY <1>1 DEF ProgramsInv
  <2>6. 0 <= hdr'[Returned - HDR].size
    <3>1. PICK b \in Blocks' : Returned = b + HDR
      BY <1>4, <2>2 DEF HeapInv, LiveIsUsed
    <3>2. b \in Nat /\ hdr'[b].size \in Nat
      BY <1>4, <3>1 DEF HeapInv, TypeOK, Header, Blocks
    <3>3. Returned - HDR = b
      BY <3>1, <3>2, HeapAssumption
    <3> QED
      BY <3>2, <3>3
  <2>7. JobOK'
    BY <1>1, <1>2, <1>4, <2>2, <2>3, <2>4, <2>5, <2>6 DEF JobOK, Jobs, size
  <2>8. MemoryOK'
    BY <1>1, <2>4 DEF MemoryOK
  <2> QED
    BY <1>1, <1>4, <2>2, <2>3, <2>4, <2>5, <2>7, <2>8 DEF ProgramsInv
<1> QED
  BY <1>5, <1>6

\* What a step knows of the job it continues: the block has the room asked for,
\* unless align_up wrapped.
LEMMA JobFacts ==
  ASSUME ProgramsInv, job.pc \in {"read", "show", "load", "run", "free", "wild"}
  PROVE  /\ job # Prompt /\ job \in Jobs
         /\ job.file \in Images /\ job.file.size \in Nat /\ job.file.stored \in Nat
         /\ job.written \in Nat /\ job.ptr \in Nat
         /\ job.ptr \in DOMAIN live \ kept
         /\ live[job.ptr] = BufferSize(job.command, job.file) /\ live[job.ptr] \in Nat
         /\ job.file.size <= live[job.ptr]
         /\ job.command = "catdisk" => live[job.ptr] = job.file.size + 1
         /\ Room \in Nat
         /\ live[job.ptr] > Room => Wraps(live[job.ptr])
<1>1. job # Prompt
  BY DEF Prompt
<1>2. /\ job \in Jobs /\ job.ptr \in DOMAIN live \ kept /\ job.file.size > 0
      /\ live[job.ptr] = BufferSize(job.command, job.file)
  BY <1>1 DEF ProgramsInv, JobOK, Jobs
<1>3. /\ job.file \in Images /\ job.command \in {"catdisk", "runelf"} /\ job.written \in Nat
      /\ job.ptr \in Nat
  BY <1>2 DEF Jobs
<1>4. live[job.ptr] \in Sizes
  BY <1>2 DEF ProgramsInv, HeapInv, TypeOK
<1>5. live[job.ptr] \in Nat /\ live[job.ptr] # 0
  BY <1>4, HeapAssumption DEF Sizes
<1>6. Room \in Nat
  <2>1. PICK a \in Blocks : job.ptr = a + HDR
    BY <1>2 DEF ProgramsInv, HeapInv, LiveIsUsed
  <2>2. a \in Nat /\ hdr[a].size \in Nat
    BY <2>1 DEF ProgramsInv, HeapInv, TypeOK, Header
  <2>3. job.ptr - HDR = a
    BY <2>1, <2>2, HeapAssumption
  <2> QED
    BY <2>2, <2>3 DEF Room
<1>7. live[job.ptr] > Room => Wraps(live[job.ptr])
  <2>1. live[job.ptr] <= WORD - ALIGNMENT => live[job.ptr] <= Room
    BY <1>2 DEF ProgramsInv, HeapInv, GrantsFit, Room
  <2> QED
    BY <1>5, <1>6, <2>1, HeapAssumption DEF Wraps
<1> QED
  BY <1>1, <1>2, <1>3, <1>5, <1>6, <1>7, SizesFit

\* A step of a command that leaves the heap alone.
LEMMA JobStep ==
  ASSUME ProgramsInv, job # Prompt, UNCHANGED <<vars, kept, nodes, halted>>,
         NEW pc \in {"read", "show", "load", "run", "free", "wild"}, NEW written \in Nat,
         NEW file \in Images, file.size = job.file.size,
         job' = [job EXCEPT !.pc = pc, !.file = file, !.written = written],
         pc = "show" => job.command = "catdisk",
         pc # "wild" => written <= Room,
         pc = "wild" => Wraps(live[job.ptr]),
         pc \in {"read", "load"} => memory' = Untouched,
         pc = "run" => Load(file, Untouched).ok /\ memory' = Load(file, Untouched).mem
  PROVE  ProgramsInv'
<1>1. job \in Jobs
  BY DEF ProgramsInv, JobOK, Jobs
<1>2. job' \in Jobs /\ job' # Prompt
  <2>1. job' \in Jobs
    BY <1>1 DEF Jobs
  <2> QED
    BY <2>1, JobsArePrograms
<1>3. /\ job'.pc = pc /\ job'.command = job.command /\ job'.file = file
      /\ job'.ptr = job.ptr /\ job'.written = written
  BY <1>1 DEF Jobs
<1>4. UNCHANGED <<vars, kept, nodes, live, hdr, up>>
  BY DEF vars, heapVars
<1>5. HeapInv'
  BY <1>4, StutterOK DEF ProgramsInv
<1>6. BufferSize(job.command, file) = BufferSize(job.command, job.file)
  BY DEF BufferSize
<1>7. JobOK'
  BY <1>2, <1>3, <1>4, <1>6 DEF ProgramsInv, JobOK, Jobs, Room
<1>8. MemoryOK'
  BY <1>3 DEF MemoryOK
<1>9. DOMAIN live' = kept' \cup {job'.ptr}
  BY <1>3, <1>4 DEF ProgramsInv
<1> QED
  BY <1>2, <1>5, <1>7, <1>8, <1>9 DEF ProgramsInv

\* The command is over, and its buffer given back.
LEMMA GivenBack ==
  ASSUME ProgramsInv, job.pc \in {"read", "show", "load", "run", "free"}, Kfree(job.ptr), Done
  PROVE  ProgramsInv'
<1>1. job # Prompt /\ job.ptr \in DOMAIN live \ kept
  BY JobFacts
<1>2. HeapInv' /\ DOMAIN live' = DOMAIN live \ {job.ptr}
  BY <1>1, KfreeTakes DEF ProgramsInv
<1>3. job' = Prompt /\ memory' = Untouched /\ kept' = kept
  BY DEF Done
<1>4. DOMAIN live' = kept'
  BY <1>1, <1>2, <1>3 DEF ProgramsInv
<1> QED
  BY <1>2, <1>3, <1>4 DEF ProgramsInv, JobOK, MemoryOK, Prompt

\* The file is read no further than its size, and no further than its chain.
LEMMA ReadLengthIs ==
  ASSUME ProgramsInv, job.pc = "read"
  PROVE  ReadLength(job.file) \in Nat /\ ReadLength(job.file) <= job.file.size
  BY JobFacts DEF ReadLength, Smaller

LEMMA ReadInv == ProgramsInv /\ Read => ProgramsInv'
<1> SUFFICES ASSUME ProgramsInv, Read PROVE ProgramsInv'
  OBVIOUS
<1> DEFINE pc == IF job.command = "catdisk" THEN "show" ELSE "load"
<1>1. job # Prompt /\ job.file \in Images /\ ReadLength(job.file) \in Nat
  BY JobFacts, ReadLengthIs DEF Read
<1>2. PICK seen \in Found(job.file) :
        job' = [job EXCEPT !.pc = pc, !.file = seen, !.written = ReadLength(job.file)]
  BY DEF Read
<1>3. seen \in Images /\ seen.size = job.file.size
  BY <1>1 DEF Found
<1>4. UNCHANGED <<vars, kept, nodes, halted>> /\ memory' = Untouched
      /\ ReadLength(job.file) <= Room
  BY DEF Read, ProgramsInv, MemoryOK
<1>5. pc \in {"read", "show", "load", "run", "free", "wild"} /\ pc \notin {"free", "run", "wild"}
      /\ (pc = "show" => job.command = "catdisk")
  OBVIOUS
<1> HIDE DEF pc
<1> QED
  BY <1>1, <1>2, <1>3, <1>4, <1>5, JobStep

LEMMA ReadOverrunsInv == ProgramsInv /\ ReadOverruns => ProgramsInv'
<1> SUFFICES ASSUME ProgramsInv, ReadOverruns PROVE ProgramsInv'
  OBVIOUS
<1> DEFINE n == ReadLength(job.file)
<1>1. /\ job # Prompt /\ job \in Jobs /\ job.file \in Images /\ n \in Nat /\ n <= job.file.size
      /\ job.file.size <= live[job.ptr] /\ live[job.ptr] \in Nat /\ job.file.size \in Nat
      /\ Room \in Nat /\ (live[job.ptr] > Room => Wraps(live[job.ptr]))
  BY JobFacts, ReadLengthIs DEF ReadOverruns
<1>2. /\ n > Room /\ job' = [job EXCEPT !.pc = "wild", !.written = n]
      /\ UNCHANGED <<vars, kept, nodes, halted>>
  BY DEF ReadOverruns
<1> HIDE DEF n
<1>3. Wraps(live[job.ptr])
  BY <1>1, <1>2
<1>4. job' = [job EXCEPT !.pc = "wild", !.file = job.file, !.written = n]
  BY <1>1, <1>2 DEF Jobs
<1> QED
  BY <1>1, <1>2, <1>3, <1>4, JobStep

LEMMA ShowInv == ProgramsInv /\ (Show \/ ShowOverruns) => ProgramsInv'
<1> SUFFICES ASSUME ProgramsInv, Show \/ ShowOverruns PROVE ProgramsInv'
  OBVIOUS
<1> DEFINE n == job.file.size + 1
<1>1. job.pc = "show"
  BY DEF Show, ShowOverruns
<1>2. /\ job # Prompt /\ job \in Jobs /\ job.file \in Images /\ n \in Nat /\ job.file.size \in Nat
      /\ job.command = "catdisk" => live[job.ptr] = job.file.size + 1
      /\ Room \in Nat /\ (live[job.ptr] > Room => Wraps(live[job.ptr]))
  BY <1>1, JobFacts
<1>3. job.command = "catdisk"
  BY <1>1, <1>2 DEF ProgramsInv, JobOK
<1>4. ASSUME NEW pc, job' = [job EXCEPT !.pc = pc, !.written = n]
      PROVE  job' = [job EXCEPT !.pc = pc, !.file = job.file, !.written = n]
  BY <1>2, <1>4 DEF Jobs
<1>5. CASE Show
  <2>1. /\ job' = [job EXCEPT !.pc = "free", !.written = n] /\ n <= Room
        /\ UNCHANGED <<vars, kept, nodes, halted>>
    BY <1>2, <1>5 DEF Show
  <2>2. job' = [job EXCEPT !.pc = "free", !.file = job.file, !.written = n]
    BY <1>4, <2>1
  <2> HIDE DEF n
  <2> QED
    BY <1>2, <2>1, <2>2, JobStep
<1>6. CASE ShowOverruns
  <2>1. /\ job' = [job EXCEPT !.pc = "wild", !.written = n] /\ n > Room
        /\ UNCHANGED <<vars, kept, nodes, halted>>
    BY <1>2, <1>6 DEF ShowOverruns
  <2>2. job' = [job EXCEPT !.pc = "wild", !.file = job.file, !.written = n]
    BY <1>4, <2>1
  <2>3. Wraps(live[job.ptr])
    BY <1>2, <1>3, <2>1
  <2> HIDE DEF n
  <2> QED
    BY <1>2, <2>1, <2>2, <2>3, JobStep
<1> QED
  BY <1>5, <1>6

LEMMA LoadElfInv == ProgramsInv /\ LoadElf => ProgramsInv'
<1> SUFFICES ASSUME ProgramsInv, LoadElf PROVE ProgramsInv'
  OBVIOUS
<1>1. job # Prompt /\ job \in Jobs /\ job.written \in Nat /\ job.file \in Images
  BY JobFacts DEF LoadElf
<1>2. memory = Untouched /\ job.written <= Room
  BY <1>1 DEF LoadElf, ProgramsInv, JobOK, MemoryOK, Room
<1>3. job' = [job EXCEPT !.pc = "run", !.file = job.file, !.written = job.written]
      /\ UNCHANGED <<vars, kept, nodes, halted>>
  BY <1>1 DEF LoadElf, Jobs
<1>4. Load(job.file, Untouched).ok /\ memory' = Load(job.file, Untouched).mem
  BY <1>2 DEF LoadElf
<1> QED
  BY <1>1, <1>2, <1>3, <1>4, JobStep

LEMMA RunElfInv == ProgramsInv /\ RunElf => ProgramsInv'
<1> SUFFICES ASSUME ProgramsInv, RunElf PROVE ProgramsInv'
  OBVIOUS
<1>1. job # Prompt /\ job \in Jobs /\ job.written \in Nat /\ job.file \in Images
  BY JobFacts DEF RunElf
<1>2. job.written <= Room
  BY <1>1 DEF RunElf, ProgramsInv, JobOK, Room
<1>3. job' = [job EXCEPT !.pc = "free", !.file = job.file, !.written = job.written]
      /\ UNCHANGED <<vars, kept, nodes, halted>>
  BY <1>1 DEF RunElf, Jobs
<1> QED
  BY <1>1, <1>2, <1>3, JobStep

LEMMA ProgramsNextInv == ProgramsInv /\ [ProgramsNext]_allvars => ProgramsInv'
<1> SUFFICES ASSUME ProgramsInv, [ProgramsNext]_allvars PROVE ProgramsInv'
  OBVIOUS
<1>1. CASE UNCHANGED allvars
  <2>1. UNCHANGED vars /\ UNCHANGED <<job, memory, kept, nodes, live, hdr, up>>
    BY <1>1 DEF allvars, programVars, vars, heapVars
  <2>2. HeapInv'
    BY <2>1, StutterOK DEF ProgramsInv
  <2> QED
    BY <2>1, <2>2 DEF ProgramsInv, JobOK, MemoryOK
<1>2. CASE SysPanic \/ SysTestDivzero
  BY <1>2, StopInv DEF SysPanic, SysTestDivzero
<1>3. CASE \E file \in Images : CommandCatdisk(file) \/ CommandRunelf(file)
  BY <1>3, OpenInv DEF CommandCatdisk, CommandRunelf
<1>4. CASE ReadFails \/ LoadElfFails \/ Free
  BY <1>4, GivenBack DEF ReadFails, LoadElfFails, Free
<1> QED
  BY <1>1, <1>2, <1>3, <1>4, BootInv, VfsAllocNodeInv, RequestRamInv, ReadInv, ReadOverrunsInv,
     ShowInv, LoadElfInv, RunElfInv
  DEF ProgramsNext

\* The heap's invariant, what is allocated and what a command has yet to write.
THEOREM ProgramsInvariant == ProgramsSpec => []ProgramsInv
  BY ProgramsInitInv, ProgramsNextInv, PTL DEF ProgramsSpec

\* Every way out of catdisk and runelf gives the buffer back: at the prompt
\* nothing is allocated but what sys_request_ram and the VFS keep.
THEOREM ProgramsNothingLeaks == ProgramsSpec => []NothingLeaks
<1>1. ProgramsInv => NothingLeaks
  BY DEF ProgramsInv, NothingLeaks
<1> QED
  BY <1>1, ProgramsInvariant, PTL

\* What a command writes to its buffer stays in the block kmalloc gave it, but
\* for files whose size, as the directory entry has it, align_up wraps.
THEOREM ProgramsWritesInBuffer == ProgramsSpec => []WritesInBuffer
<1>1. ASSUME ProgramsInv PROVE WritesInBuffer
  <2> SUFFICES ASSUME job # Prompt
               PROVE  /\ job.ptr \in DOMAIN live
                      /\ job.ptr + job.written > End(hdr, job.ptr - HDR) =>
                           job.pc = "wild" /\ Wraps(BufferSize(job.command, job.file))
    BY DEF WritesInBuffer
  <2>1. job \in Jobs
    BY <1>1 DEF ProgramsInv, JobOK, Jobs
  <2>2. job.pc \in {"read", "show", "load", "run", "free", "wild"}
    BY <2>1 DEF Jobs
  <2>3. /\ job.ptr \in DOMAIN live \ kept /\ job.written \in Nat /\ Room \in Nat /\ job.ptr \in Nat
        /\ live[job.ptr] = BufferSize(job.command, job.file)
    BY <1>1, <2>2, JobFacts
  <2>4. job.pc = "wild" => Wraps(BufferSize(job.command, job.file))
    BY <1>1, <2>3 DEF ProgramsInv, JobOK
  <2>5. job.pc # "wild" => job.written <= Room
    BY <1>1 DEF ProgramsInv, JobOK, Room
  <2>6. End(hdr, job.ptr - HDR) = job.ptr + Room
    BY <2>3, HeapAssumption DEF End, Room
  <2> QED
    BY <2>3, <2>4, <2>5, <2>6
<1> QED
  BY <1>1, ProgramsInvariant, PTL

-----------------------------------------------------------------------------
(* The loader *)

ImageType == [size : Nat, stored : Nat, good : BOOLEAN, phoff : Nat, phentsize : Nat,
              segments : Seq(Phdr)]

LEMMA IntoNat ==
  ASSUME NEW ph \in Phdr, NEW a \in Addresses
  PROVE  Into(ph, a) \in Nat
<1>1. ph.vaddr \in Nat /\ a \in Int /\ SPAN \in Nat /\ SPAN > 0
  BY ProgramsAssumption, HeapAssumption DEF Phdr
<1> QED
  BY <1>1 DEF Into

\* What the loop over the program headers carries along.
LoadStates == [ok : BOOLEAN, mem : [Addresses -> Int]]

LEMMA LoadSegmentType ==
  ASSUME NEW image \in ImageType, NEW s \in LoadStates, NEW ph \in Phdr
  PROVE  LoadSegment(image, s, ph) \in LoadStates
<1>1. image.size \in Nat /\ s.mem \in [Addresses -> Int] /\ s.ok \in BOOLEAN
  BY DEF ImageType, LoadStates
<1>2. ph.offset \in Nat /\ ph.vaddr \in Nat /\ ph.filesz \in Nat
  BY DEF Phdr
<1>3. \A k \in Int : Byte(image, k) \in Int
  BY <1>1 DEF Byte, Beyond
<1>4. \A a \in Addresses : ph.offset + Into(ph, a) \in Int
  BY <1>2, IntoNat
<1>5. Copied(image, ph, s.mem) \in [Addresses -> Int]
  BY <1>1, <1>3, <1>4 DEF Copied
<1> QED
  BY <1>1, <1>5 DEF LoadSegment, LoadStates

\* elf32_load looks at one program header after the other.
LEMMA LoadSteps ==
  ASSUME NEW image \in ImageType, HeaderFits(image)
  PROVE  \E f : /\ f[0] = [ok |-> TRUE, mem |-> Untouched]
                /\ Load(image, Untouched) = f[Len(image.segments)]
                /\ \A i \in 1 .. Len(image.segments) :
                     f[i] = LoadSegment(image, f[i - 1], image.segments[i])
                /\ \A i \in 0 .. Len(image.segments) : f[i] \in LoadStates
<1> DEFINE n == Len(image.segments)
<1> DEFINE start == [ok |-> TRUE, mem |-> Untouched]
<1> DEFINE step == [i \in 1 .. n |-> [s \in LoadStates |-> LoadSegment(image, s, image.segments[i])]]
<1> DEFINE F(f) == [i \in 0 .. n |-> IF i = 0 THEN start
                                     ELSE LoadSegment(image, f[i - 1], image.segments[i])]
<1>1. n \in Nat /\ \A i \in 1 .. n : image.segments[i] \in Phdr
  BY DEF ImageType
<1>2. start \in LoadStates
  BY DEF LoadStates, Untouched, Before
<1>3. \A i \in 1 .. n, s \in LoadStates : LoadSegment(image, s, image.segments[i]) \in LoadStates
  BY <1>1, LoadSegmentType
<1>4. step \in [1 .. n -> [LoadStates -> LoadStates]]
  BY <1>3
<1>5. PICK f \in [0 .. n -> LoadStates] :
        f[0] = start /\ \A i \in 1 .. n : f[i] = step[i][f[i - 1]]
  <2> HIDE DEF step, n, start
  <2>1. ASSUME NEW m \in Nat, NEW base \in LoadStates,
               NEW st \in [1 .. m -> [LoadStates -> LoadStates]]
        PROVE  \E f \in [0 .. m -> LoadStates] :
                 f[0] = base /\ \A i \in 1 .. m : f[i] = st[i][f[i - 1]]
    BY Iteration, SMTT(30)
  <2> QED
    BY <1>1, <1>2, <1>4, <2>1
<1>6. \A i \in 1 .. n : f[i] = LoadSegment(image, f[i - 1], image.segments[i])
  <2> TAKE i \in 1 .. n
  <2>1. i - 1 \in 0 .. n
    BY <1>1
  <2>2. f[i - 1] \in LoadStates
    BY <2>1
  <2> QED
    BY <1>5, <2>2
<1>7. f = F(f)
  BY <1>5, <1>6
<1> DEFINE r == CHOOSE after : after = F(after)
<1>8. r = F(r)
  BY <1>7
<1>9. Load(image, Untouched) = r[n]
  BY DEF Load
<1> HIDE DEF r
<1>10. r[0] = start /\ \A i \in 1 .. n : r[i] = LoadSegment(image, r[i - 1], image.segments[i])
  <2> HIDE DEF start, n
  <2>1. 0 \in 0 .. n /\ \A i \in 1 .. n : i \in 0 .. n /\ i # 0
    BY <1>1
  <2>2. \A i \in 0 .. n : r[i] = IF i = 0 THEN start
                                  ELSE LoadSegment(image, r[i - 1], image.segments[i])
    BY <1>8
  <2> QED
    BY <2>1, <2>2
<1> DEFINE K == {k \in Nat : k <= n => r[k] \in LoadStates}
<1>11. Nat \subseteq K
  <2>1. 0 \in K
    BY <1>2, <1>10
  <2>2. ASSUME NEW k \in Nat, k \in K PROVE k + 1 \in K
    <3> SUFFICES ASSUME k + 1 <= n PROVE r[k + 1] \in LoadStates
      OBVIOUS
    <3>1. k + 1 \in 1 .. n /\ (k + 1) - 1 = k /\ r[k] \in LoadStates
      BY <1>1, <2>2
    <3> QED
      BY <1>3, <1>10, <3>1
  <2> HIDE DEF K
  <2> QED
    BY <2>1, <2>2, SetInduction
<1> QED
  BY <1>1, <1>9, <1>10, <1>11

\* What segment ph has for address a.
Contents(ph, a) == IF Into(ph, a) >= ph.filesz THEN 0 ELSE ph.offset + Into(ph, a) + 1

\* Address a holds v after n segments: what the last of them there has, if any.
Holds(image, n, a, v) ==
  \/ (\A j \in 1 .. n : ~Covers(image.segments[j], a)) /\ v = Before
  \/ \E i \in 1 .. n :
       /\ Covers(image.segments[i], a)
       /\ \A j \in i + 1 .. n : ~Covers(image.segments[j], a)
       /\ SegmentFits(image, image.segments[i])
       /\ v = Contents(image.segments[i], a)

\* A segment that is copied covers what was there, and no more.
LEMMA SegmentHolds ==
  ASSUME NEW image \in ImageType, NEW n \in Nat, n + 1 <= Len(image.segments),
         NEW s \in LoadStates, NEW t, t = LoadSegment(image, s, image.segments[n + 1]),
         t.ok, s.ok => \A a \in Addresses : Holds(image, n, a, s.mem[a])
  PROVE  \A a \in Addresses : Holds(image, n + 1, a, t.mem[a])
<1> DEFINE ph == image.segments[n + 1]
<1>1. ph \in Phdr
  BY DEF ImageType
<1>2. /\ ph.offset \in Nat /\ ph.vaddr \in Nat /\ ph.filesz \in Nat /\ ph.memsz \in Nat
      /\ image.size \in Nat /\ s.mem \in [Addresses -> Int]
  BY <1>1 DEF Phdr, ImageType, LoadStates
<1> HIDE DEF ph
<1>3. t = LoadSegment(image, s, ph)
  BY DEF ph
<1> TAKE a \in Addresses
<1>4. Into(ph, a) \in Nat
  BY <1>1, IntoNat DEF ph
<1>5. s.ok /\ Holds(image, n, a, s.mem[a])
  BY <1>3 DEF LoadSegment
<1>6. ASSUME ~Covers(ph, a), t.mem[a] = s.mem[a] PROVE Holds(image, n + 1, a, t.mem[a])
  <2>1. CASE (\A j \in 1 .. n : ~Covers(image.segments[j], a)) /\ s.mem[a] = Before
    <3>1. \A j \in 1 .. n + 1 : j \in 1 .. n \/ j = n + 1
      OBVIOUS
    <3> QED
      BY <1>6, <2>1, <3>1 DEF Holds, ph
  <2>2. CASE \E i \in 1 .. n :
               /\ Covers(image.segments[i], a)
               /\ \A j \in i + 1 .. n : ~Covers(image.segments[j], a)
               /\ SegmentFits(image, image.segments[i])
               /\ s.mem[a] = Contents(image.segments[i], a)
    <3>1. PICK i \in 1 .. n :
               /\ Covers(image.segments[i], a)
               /\ \A j \in i + 1 .. n : ~Covers(image.segments[j], a)
               /\ SegmentFits(image, image.segments[i])
               /\ s.mem[a] = Contents(image.segments[i], a)
      BY <2>2
    <3>2. i \in 1 .. n + 1 /\ \A j \in i + 1 .. n + 1 : j \in i + 1 .. n \/ j = n + 1
      OBVIOUS
    <3>3. \A j \in i + 1 .. n + 1 : ~Covers(image.segments[j], a)
      BY <1>6, <3>1, <3>2 DEF ph
    <3> QED
      BY <1>6, <3>1, <3>2, <3>3 DEF Holds
  <2> QED
    BY <1>5, <2>1, <2>2 DEF Holds
<1>7. CASE ph.type # PT_LOAD
  <2>1. t = s /\ ~Covers(ph, a)
    BY <1>3, <1>7 DEF LoadSegment, Covers
  <2> QED
    BY <1>6, <2>1
<1>8. CASE ph.type = PT_LOAD
  <2>1. SegmentFits(image, ph) /\ t = [ok |-> TRUE, mem |-> Copied(image, ph, s.mem)]
    <3>1. CASE SegmentFits(image, ph)
      BY <1>3, <1>5, <1>8, <3>1 DEF LoadSegment
    <3>2. CASE ~SegmentFits(image, ph)
      <4>1. t = [ok |-> FALSE, mem |-> s.mem]
        BY <1>3, <1>5, <1>8, <3>2 DEF LoadSegment
      <4> QED
        BY <4>1
    <3> QED
      BY <3>1, <3>2
  <2>2. t.mem[a] = IF ~Covers(ph, a) THEN s.mem[a]
                   ELSE IF Into(ph, a) < ph.filesz THEN Byte(image, ph.offset + Into(ph, a))
                   ELSE 0
    BY <1>2, <2>1 DEF Copied
  <2>3. CASE ~Covers(ph, a)
    BY <1>6, <2>2, <2>3
  <2>4. CASE Covers(ph, a)
    <3>2. t.mem[a] = Contents(ph, a)
      <4>1. CASE Into(ph, a) < ph.filesz
        <5>1. ph.offset + Into(ph, a) < image.size
          BY <1>2, <1>4, <2>1, <4>1 DEF SegmentFits
        <5> QED
          BY <1>2, <1>4, <2>2, <2>4, <4>1, <5>1 DEF Byte, Contents
      <4>2. CASE ~(Into(ph, a) < ph.filesz)
        BY <1>2, <1>4, <2>2, <2>4, <4>2 DEF Contents
      <4> QED
        BY <4>1, <4>2
    <3>3. n + 1 \in 1 .. n + 1 /\ (n + 1) + 1 .. n + 1 = {}
      OBVIOUS
    <3> QED
      BY <2>1, <2>4, <3>2, <3>3 DEF Holds, ph
  <2> QED
    BY <2>3, <2>4
<1> QED
  BY <1>7, <1>8

\* After a load that succeeds every address holds what the program expects.
LEMMA LoadHolds ==
  ASSUME NEW image \in ImageType, Load(image, Untouched).ok
  PROVE  \A a \in Addresses :
           Holds(image, Len(image.segments), a, Load(image, Untouched).mem[a])
<1> DEFINE n == Len(image.segments)
<1>1. HeaderFits(image)
  BY DEF Load
<1>2. PICK f : /\ f[0] = [ok |-> TRUE, mem |-> Untouched]
               /\ Load(image, Untouched) = f[n]
               /\ \A i \in 1 .. n : f[i] = LoadSegment(image, f[i - 1], image.segments[i])
               /\ \A i \in 0 .. n : f[i] \in LoadStates
  BY <1>1, LoadSteps
<1>3. n \in Nat
  BY DEF ImageType
<1> DEFINE K == {k \in Nat : k <= n /\ f[k].ok => \A a \in Addresses : Holds(image, k, a, f[k].mem[a])}
<1>4. Nat \subseteq K
  <2>1. 0 \in K
    BY <1>2 DEF Holds, Untouched
  <2>2. ASSUME NEW k \in Nat, k \in K PROVE k + 1 \in K
    <3> SUFFICES ASSUME k + 1 <= n, f[k + 1].ok
                 PROVE  \A a \in Addresses : Holds(image, k + 1, a, f[k + 1].mem[a])
      OBVIOUS
    <3>1. k + 1 \in 1 .. n /\ (k + 1) - 1 = k /\ k <= n /\ k \in 0 .. n
      BY <1>3
    <3>2. /\ f[k + 1] = LoadSegment(image, f[k], image.segments[k + 1]) /\ f[k] \in LoadStates
          /\ f[k].ok => \A a \in Addresses : Holds(image, k, a, f[k].mem[a])
      BY <1>2, <2>2, <3>1
    <3> QED
      BY <3>2, SegmentHolds
  <2> HIDE DEF K
  <2> QED
    BY <2>1, <2>2, SetInduction
<1> QED
  BY <1>2, <1>3, <1>4

\* The last segment at an address is the one the program expects there.
LEMMA HoldsExpected ==
  ASSUME NEW image \in ImageType, NEW a \in Addresses, NEW v,
         Holds(image, Len(image.segments), a, v)
  PROVE  v = Expected(image, a, Before) /\ v \in {Before} \cup 0 .. image.size
<1> DEFINE n == Len(image.segments)
<1> DEFINE I == {i \in 1 .. n : Covers(image.segments[i], a)}
<1>1. Expected(image, a, Before) =
        LET i == IF I # {} THEN Max(I) ELSE 0
        IN  IF i = 0 THEN Before
            ELSE LET ph == image.segments[i]
                     k == Into(ph, a)
                 IN  IF k >= ph.filesz THEN 0 ELSE ph.offset + k + 1
  BY DEF Expected, SelectLastInSeq
<1>2. n \in Nat
  BY DEF ImageType
<1>3. CASE (\A j \in 1 .. n : ~Covers(image.segments[j], a)) /\ v = Before
  <2>1. I = {}
    BY <1>3
  <2> QED
    BY <1>1, <1>3, <2>1
<1>4. CASE \E i \in 1 .. n :
             /\ Covers(image.segments[i], a)
             /\ \A j \in i + 1 .. n : ~Covers(image.segments[j], a)
             /\ SegmentFits(image, image.segments[i])
             /\ v = Contents(image.segments[i], a)
  <2>1. PICK i \in 1 .. n :
             /\ Covers(image.segments[i], a)
             /\ \A j \in i + 1 .. n : ~Covers(image.segments[j], a)
             /\ SegmentFits(image, image.segments[i])
             /\ v = Contents(image.segments[i], a)
    BY <1>4
  <2>2. i \in I /\ \A j \in I : j <= i
    BY <1>2, <2>1
  <2>3. Max(I) = i
    <3>1. \A x \in I : (\A y \in I : x >= y) => x = i
      BY <1>2, <2>2
    <3>2. i \in I /\ \A y \in I : i >= y
      BY <1>2, <2>2
    <3> HIDE DEF I
    <3> QED
      BY <3>1, <3>2 DEF Max
  <2>4. Expected(image, a, Before) = Contents(image.segments[i], a)
    <3>1. I # {} /\ i # 0
      BY <2>2
    <3> HIDE DEF I
    <3> QED
      BY <1>1, <2>3, <3>1 DEF Contents
  <2>5. /\ image.segments[i] \in Phdr /\ image.size \in Nat
    BY <2>1 DEF ImageType
  <2>6. Contents(image.segments[i], a) \in 0 .. image.size
    <3> DEFINE ph == image.segments[i]
    <3>1. ph.offset \in Nat /\ ph.vaddr \in Nat /\ ph.filesz \in Nat /\ ph.memsz \in Nat
      BY <2>5 DEF Phdr
    <3>2. SegmentFits(image, ph) /\ Covers(ph, a)
      BY <2>1
    <3> HIDE DEF ph
    <3>3. Contents(ph, a) \in 0 .. image.size
      <4>1. PICK k \in Nat : k = Into(ph, a)
        BY <2>5, IntoNat DEF ph
      <4>2. k >= 0
        OBVIOUS
      <4>3. k < ph.filesz => ph.offset + k + 1 \in 0 .. image.size
        <5>1. ph.offset <= image.size /\ ph.filesz <= image.size - ph.offset
          BY <3>2 DEF SegmentFits
        <5>2. ASSUME NEW o \in Nat, NEW f \in Nat, NEW z \in Nat, o <= z, f <= z - o, k < f
              PROVE  o + k + 1 \in 0 .. z
          BY <4>2, <5>2
        <5> QED
          BY <2>5, <3>1, <5>1, <5>2
      <4>4. Contents(ph, a) = IF k >= ph.filesz THEN 0 ELSE ph.offset + k + 1
        BY <4>1 DEF Contents
      <4> QED
        BY <2>5, <3>1, <4>1, <4>3, <4>4
    <3> QED
      BY <3>3 DEF ph
  <2> QED
    BY <2>1, <2>4, <2>6
<1> QED
  BY <1>3, <1>4 DEF Holds

\* A program that is started finds its segments in memory, the later ones over
\* the earlier ones, and nothing that is not in its image.
THEOREM ProgramsLoadedRight == ProgramsSpec => []LoadedRight
<1>1. ASSUME ProgramsInv PROVE LoadedRight
  <2> SUFFICES ASSUME job.pc = "run", NEW a \in Addresses
               PROVE  /\ memory[a] = Expected(job.file, a, Before)
                      /\ memory[a] \in {Before} \cup 0 .. job.file.size
    BY DEF LoadedRight
  <2>1. job.file \in ImageType
    BY <1>1, JobFacts, ProgramsAssumption DEF ImageType
  <2>2. Load(job.file, Untouched).ok /\ memory = Load(job.file, Untouched).mem
    BY <1>1 DEF ProgramsInv, MemoryOK
  <2>3. Holds(job.file, Len(job.file.segments), a, memory[a])
    BY <2>1, <2>2, LoadHolds
  <2> QED
    BY <2>1, <2>3, HoldsExpected
<1> QED
  BY <1>1, ProgramsInvariant, PTL

==============================================================================
