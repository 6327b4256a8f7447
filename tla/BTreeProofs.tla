---------------------------- MODULE BTreeProofs ----------------------------
(***************************************************************************)
(* What the threads that build the tree keep, for any number of threads,   *)
(* any inserts and any page size: the shape of the tree, the order of its  *)
(* leaves, who writes them, and where postings arrive.                     *)
(***************************************************************************)
EXTENDS BTree, SequenceTheorems, FiniteSetTheorems, WellFoundedInduction, TLAPS

(* A child of a page of level l.                                           *)
Below(c, l) == c \in Pages /\ page[c].level + 1 = l

Leaf(p) == page[p].level = 0

Child   == Nat \cup (Backend \X Nat)
Ent     == [k : Nat, c : Child]
PageRec == [level : Nat, left : Nat, ents : Seq(Ent), sib : Nat]
Thread  == [pc : {"idle", "down", "locked", "right", "cut", "grow", "post"},
            done : Nat, level : Nat, k : Nat, c : Child, at : Nat, new : Nat,
            split : Nat, cnt : Nat]

Types ==
  /\ page \in Seq(PageRec)
  /\ lock \in Seq(Backend \cup {Nobody}) /\ Len(lock) = Len(page)
  /\ root \in Pages /\ 1 \in Pages
  /\ th \in [Backend -> Thread]

(* The levels of the tree, and pages that are never empty but for the      *)
(* first one, which is nobody's sibling.                                   *)
PageShape(p) ==
  /\ Leaf(p) <=> page[p].left = Null
  /\ p = 1 => Leaf(p)
  /\ p # 1 => Count(p) > 0
  /\ page[p].sib # Null => /\ page[p].sib \in Pages \ {1}
                           /\ page[page[p].sib].level = page[p].level
  /\ ~Leaf(p) => /\ Below(page[p].left, page[p].level)
                 /\ \A i \in 1 .. Count(p) : Below(page[p].ents[i].c, page[p].level)

Holds(b) == th[b].pc \in {"locked", "cut", "grow"}
Splits(b) == th[b].pc \in {"cut", "grow"}

(* A thread that writes holds the lock of a page of its level.             *)
ThreadShape(b) ==
  /\ th[b].at \in Pages
  /\ th[b].pc = "down" => th[b].level <= page[th[b].at].level
  /\ Holds(b) \/ th[b].pc = "right" => th[b].level = page[th[b].at].level
  /\ th[b].pc = "right" => page[th[b].at].sib # Null
  /\ Holds(b) => lock[th[b].at] = b
  /\ th[b].level > 0 /\ th[b].pc # "idle" => Below(th[b].c, th[b].level)
  /\ Splits(b) => /\ th[b].new \in Pages \ {1, th[b].at}
                  /\ page[th[b].at].sib = th[b].new
                  /\ page[th[b].new].level = page[th[b].at].level
  /\ th[b].pc = "cut" => Count(th[b].at) >= 3

Shape ==
  /\ Types
  /\ \A p \in Pages : PageShape(p)
  /\ \A b \in Backend : ThreadShape(b)

(* Leaves are sorted, and not above their sibling once they are cut.       *)
Sorted(ents) == \A i, j \in 1 .. Len(ents) : i <= j => ents[i].k <= ents[j].k

NotAbove(p, q) == \A i \in 1 .. Count(p) : page[p].ents[i].k <= FirstKey(q)

BeingCut(p) == \E b \in Backend : th[b].pc = "cut" /\ th[b].at = p

LeafOrder(p) ==
  Leaf(p) =>
    /\ Sorted(page[p].ents)
    /\ page[p].sib # Null /\ ~BeingCut(p) => NotAbove(p, page[p].sib)

(* A new leaf begins with the split key, and the key to be inserted in one *)
(* of the halves does not belong beyond them.                              *)
CutAt(b) ==
  th[b].pc = "cut" /\ Leaf(th[b].at) =>
    /\ th[b].split = FirstKey(th[b].new)
    /\ th[b].split = page[th[b].at].ents[Count(th[b].at) \div 2 + 1].k
    /\ page[th[b].new].sib # Null => th[b].k <= FirstKey(page[th[b].new].sib)

RightAt(b) ==
  th[b].pc = "right" /\ Leaf(th[b].at) => th[b].k > FirstKey(page[th[b].at].sib)

LeafInv ==
  /\ \A p \in Pages : LeafOrder(p)
  /\ \A b \in Backend : CutAt(b) /\ RightAt(b)

(* lo: a key below which a descent from the page might end too far right.  *)
(* Postings may bring smaller keys than that into an inner page, and       *)
(* descents for those do no harm there, either.                            *)
Enters(lo, k, p) == k >= lo[p] \/ (~Leaf(p) /\ k >= FirstKey(p))

PageLow(lo, p) ==
  /\ Leaf(p) => lo[p] = IF p = 1 THEN 0 ELSE FirstKey(p)
  /\ ~Leaf(p) => /\ lo[p] = lo[page[p].left]
                 /\ \A i \in 1 .. Count(p) : lo[page[p].ents[i].c] <= page[p].ents[i].k

ThreadLow(lo, b) ==
  /\ th[b].level > 0 /\ th[b].pc # "idle" => lo[th[b].c] <= th[b].k
  /\ Splits(b) => lo[th[b].new] <= th[b].split
  /\ th[b].pc \in {"down", "locked", "right", "cut"}
       /\ (Leaf(th[b].at) \/ th[b].level < page[th[b].at].level)
     => Enters(lo, th[b].k, th[b].at)

LowKeys(lo) ==
  /\ lo \in [Pages -> Nat] /\ lo[root] = 0
  /\ \A p \in Pages : PageLow(lo, p)
  /\ \A b \in Backend : ThreadLow(lo, b)

(* The leaf a thread has linked and not filled is known to nobody else but *)
(* threads that read the old page's sibling pointer: those go further.     *)
Past(o, n) == page[n].sib # Null /\ th[o].k > FirstKey(page[n].sib)

Unknown(n, p) ==
  /\ root # n
  /\ \A q \in Pages : /\ page[q].sib = n => q = p
                      /\ ~Leaf(q) => /\ page[q].left # n
                                     /\ \A i \in 1 .. Count(q) : page[q].ents[i].c # n

KeepsOff(o, n, p) ==
  /\ th[o].level > 0 /\ th[o].pc # "idle" => th[o].c # n
  /\ Splits(o) => th[o].new # n
  /\ th[o].at = n => th[o].pc \in {"down", "locked", "right"} /\ Past(o, n)
  /\ th[o].at = p /\ th[o].pc = "right" => Past(o, n)

Alone(b) ==
  th[b].pc = "cut" /\ Leaf(th[b].at) =>
    /\ Unknown(th[b].new, th[b].at)
    /\ \A o \in Backend \ {b} : KeepsOff(o, th[b].new, th[b].at)

AloneInv == \A b \in Backend : Alone(b)

(* The root's level is the highest one, and has one page more only while   *)
(* the root is being split.                                                *)
SplitsRoot(b) == Splits(b) /\ th[b].at = root

HeightInv ==
  /\ \A p \in Pages : page[p].level <= page[root].level
  /\ \A p \in Pages : p # root /\ page[p].level = page[root].level =>
       \E b \in Backend : SplitsRoot(b) /\ th[b].new = p
  /\ page[root].sib # Null => \E b \in Backend : SplitsRoot(b)
  /\ \A b \in Backend : SplitsRoot(b) =>
       /\ page[th[b].new].sib = Null
       /\ \A o \in Backend : th[o].at = th[b].new =>
            th[o].pc = "down" /\ th[o].level < page[root].level
  /\ \A o \in Backend :
       /\ th[o].pc = "right" => th[o].at # root
       /\ th[o].pc = "post" => th[o].level <= page[root].level

-----------------------------------------------------------------------------
(* insert_key.                                                             *)

LEMMA GreatestExists ==
  ASSUME NEW n \in Nat, NEW S, S \subseteq 0 .. n, S # {}
  PROVE  \E x \in S : \A y \in S : y <= x
<1> DEFINE T == {i \in 0 .. n : n - i \in S}
<1>1. T \subseteq Nat /\ T # {}
  <2>1. PICK x \in S : TRUE
    OBVIOUS
  <2>2. n - x \in 0 .. n /\ n - (n - x) = x
    OBVIOUS
  <2>3. n - x \in T
    BY <2>2
  <2>4. T # {}
    BY <2>3
  <2>5. QED
    BY <2>4
<1>2. PICK t \in T : \A u \in T : ~ (<<u, t>> \in OpToRel(<, Nat))
  BY <1>1, NatLessThanWellFounded, WFMin
<1>3. \A u \in T : ~ (u < t)
  BY <1>1, <1>2 DEF OpToRel
<1>4. \A y \in S : y <= n - t
  <2> TAKE y \in S
  <2>1. n - y \in 0 .. n /\ n - (n - y) = y /\ y \in 0 .. n
    OBVIOUS
  <2>2. n - y \in T
    BY <2>1
  <2>3. QED
    BY <1>3, <2>1, <2>2
<1>5. QED
  BY <1>4

(* The place of the new entry.                                             *)
Place(ents, e, n) ==
  /\ n \in 0 .. Len(ents)
  /\ n > 0 => ents[n].k <= e.k
  /\ \A j \in n + 1 .. Len(ents) : ents[j].k > e.k

LEMMA InsertedAt ==
  ASSUME NEW ents \in Seq(Ent), NEW e \in Ent
  PROVE  \E n : /\ Place(ents, e, n)
                /\ Inserted(ents, e) =
                     [i \in 1 .. Len(ents) + 1 |->
                        IF i <= n THEN ents[i] ELSE IF i = n + 1 THEN e ELSE ents[i - 1]]
<1> DEFINE S == {i \in 0 .. Len(ents) : i > 0 => ents[i].k <= e.k}
<1>1. Len(ents) \in Nat /\ S \subseteq 0 .. Len(ents) /\ 0 \in S
  BY LenProperties
<1>2. PICK x \in S : \A y \in S : y <= x
  BY <1>1, GreatestExists
<1>3. e.k \in Nat /\ \A j \in 1 .. Len(ents) : ents[j] \in Ent /\ ents[j].k \in Nat
  <2>1. \A j \in 1 .. Len(ents) : ents[j] \in Ent
    BY ElementOfSeq
  <2>2. QED
    BY <2>1 DEF Ent
<1>4. \A j \in x + 1 .. Len(ents) : ents[j].k > e.k
  <2> SUFFICES ASSUME NEW j \in x + 1 .. Len(ents), ~ (ents[j].k > e.k) PROVE FALSE
    OBVIOUS
  <2>1. j \in 1 .. Len(ents) /\ j > x
    BY <1>1
  <2>2. j \in S
    BY <1>3, <2>1
  <2>3. QED
    BY <1>1, <1>2, <2>1, <2>2
<1>5. Place(ents, e, x)
  BY <1>1, <1>2, <1>4 DEF Place
<1> DEFINE P(i) == /\ i > 0 => ents[i].k <= e.k
                   /\ \A j \in i + 1 .. Len(ents) : ents[j].k > e.k
           n == CHOOSE i \in 0 .. Len(ents) : P(i)
<1>6. \E i \in 0 .. Len(ents) : P(i)
  BY <1>5 DEF Place
<1>7. n \in 0 .. Len(ents) /\ P(n)
  BY <1>6
<1>8. Place(ents, e, n)
  BY <1>7 DEF Place
<1>9. QED
  BY <1>8 DEF Inserted

LEMMA InsertedFacts ==
  ASSUME NEW ents \in Seq(Ent), NEW e \in Ent
  PROVE  /\ Inserted(ents, e) \in Seq(Ent)
         /\ Len(Inserted(ents, e)) = Len(ents) + 1
         /\ \A i \in 1 .. Len(ents) + 1 :
              \/ Inserted(ents, e)[i] = e
              \/ \E j \in 1 .. Len(ents) : Inserted(ents, e)[i] = ents[j]
         /\ Len(ents) > 0 =>
              /\ Inserted(ents, e)[1].k <= ents[1].k
              /\ e.k >= ents[1].k => Inserted(ents, e)[1].k = ents[1].k
         /\ Sorted(ents) => Sorted(Inserted(ents, e))
<1> DEFINE new == Inserted(ents, e)
<1>1. PICK n : /\ Place(ents, e, n)
               /\ new = [i \in 1 .. Len(ents) + 1 |->
                     IF i <= n THEN ents[i] ELSE IF i = n + 1 THEN e ELSE ents[i - 1]]
  BY InsertedAt
<1>2. /\ Len(ents) \in Nat /\ n \in 0 .. Len(ents) /\ e.k \in Nat
      /\ \A j \in 1 .. Len(ents) : ents[j] \in Ent /\ ents[j].k \in Nat
  <2>1. \A j \in 1 .. Len(ents) : ents[j] \in Ent
    BY ElementOfSeq
  <2>2. QED
    BY <1>1, <2>1, LenProperties DEF Place, Ent
<1>3. \A i \in 1 .. Len(ents) + 1 :
        new[i] = IF i <= n THEN ents[i] ELSE IF i = n + 1 THEN e ELSE ents[i - 1]
  BY <1>1
<1>4. \A i \in 1 .. Len(ents) + 1 :
        new[i] = e \/ \E j \in 1 .. Len(ents) : new[i] = ents[j]
  <2> TAKE i \in 1 .. Len(ents) + 1
  <2>1. CASE i <= n
    BY <1>2, <1>3, <2>1
  <2>2. CASE i = n + 1
    BY <1>2, <1>3, <2>2
  <2>3. CASE i > n + 1
    <3>1. i - 1 \in 1 .. Len(ents) /\ ~ (i <= n) /\ i # n + 1
      BY <1>2, <2>3
    <3>2. QED
      BY <1>3, <3>1
  <2>4. QED
    BY <1>2, <2>1, <2>2, <2>3
<1>5. /\ new \in Seq(Ent) /\ Len(new) = Len(ents) + 1
  <2>1. \A i \in 1 .. Len(ents) + 1 : new[i] \in Ent
    BY <1>2, <1>4
  <2>2. new \in [1 .. Len(ents) + 1 -> Ent]
    BY <1>1, <2>1
  <2>3. QED
    BY <1>2, <2>2, LenProperties, SeqDef
<1>6. Len(ents) > 0 => /\ new[1].k <= ents[1].k
                       /\ e.k >= ents[1].k => new[1].k = ents[1].k
  <2> HAVE Len(ents) > 0
  <2>1. CASE n = 0
    <3>1. ents[1].k > e.k
      BY <1>1, <1>2, <2>1 DEF Place
    <3>2. new[1] = e
      BY <1>2, <1>3, <2>1
    <3>3. QED
      BY <1>2, <3>1, <3>2
  <2>2. CASE n > 0
    BY <1>2, <1>3, <2>2
  <2>3. QED
    BY <1>2, <2>1, <2>2
<1>7. Sorted(ents) => Sorted(new)
  <2> SUFFICES ASSUME Sorted(ents), NEW i \in 1 .. Len(ents) + 1,
                      NEW j \in 1 .. Len(ents) + 1, i <= j
               PROVE  new[i].k <= new[j].k
    BY <1>5 DEF Sorted
  <2>1. \A x, y \in 1 .. Len(ents) : x <= y => ents[x].k <= ents[y].k
    BY DEF Sorted
  <2>2. \A x \in 1 .. n : ents[x].k <= e.k
    BY SMTT(30), <1>1, <1>2, <2>1 DEF Place
  <2>3. \A x \in n + 1 .. Len(ents) : e.k <= ents[x].k
    BY <1>1, <1>2 DEF Place
  <2>4. CASE j <= n
    BY <1>2, <1>3, <2>1, <2>4
  <2>5. CASE j = n + 1
    BY <1>2, <1>3, <2>2, <2>5
  <2>6. CASE j > n + 1
    <3>1. j - 1 \in n + 1 .. Len(ents) /\ new[j] = ents[j - 1]
      BY <1>2, <1>3, <2>6
    <3>2. CASE i <= n
      <4>1. new[i] = ents[i] /\ i <= j - 1 /\ i \in 1 .. Len(ents)
        BY <1>2, <1>3, <2>6, <3>2
      <4>2. QED
        BY <1>2, <2>1, <3>1, <4>1
    <3>3. CASE i = n + 1
      <4>1. new[i] = e
        BY <1>2, <1>3, <3>3
      <4>2. QED
        BY <2>3, <3>1, <4>1
    <3>4. CASE i > n + 1
      <4>1. new[i] = ents[i - 1] /\ i - 1 <= j - 1 /\ i - 1 \in 1 .. Len(ents)
        BY <1>2, <1>3, <3>4
      <4>2. QED
        BY <1>2, <2>1, <3>1, <4>1
    <3>5. QED
      BY <1>2, <3>2, <3>3, <3>4
  <2>7. QED
    BY <1>2, <2>4, <2>5, <2>6
<1>8. QED
  BY <1>4, <1>5, <1>6, <1>7

(* Whatever the count, no child is lost that was not there before, and     *)
(* none comes in but the new one; the true count does what it should.      *)
LEMMA InsertedAtCountFacts ==
  ASSUME NEW ents \in Seq(Ent), NEW n \in Nat, NEW e \in Ent
  PROVE  /\ InsertedAtCount(ents, n, e) \in Seq(Ent)
         /\ Len(InsertedAtCount(ents, n, e)) >= Len(ents)
         /\ Len(InsertedAtCount(ents, n, e)) > 0
         /\ \A i \in 1 .. Len(InsertedAtCount(ents, n, e)) :
              \/ InsertedAtCount(ents, n, e)[i].c = e.c
              \/ \E j \in 1 .. Len(ents) : InsertedAtCount(ents, n, e)[i].c = ents[j].c
         /\ n = Len(ents) => InsertedAtCount(ents, n, e) = Inserted(ents, e)
<1> DEFINE old == Len(ents)
           m == IF n < old THEN n ELSE old
           low == SubSeq(ents, 1, m)
           front == Inserted(low, e)
<1>1. /\ old \in Nat /\ m \in 0 .. old /\ DOMAIN ents = 1 .. old
      /\ \A j \in 1 .. old : ents[j] \in Ent /\ ents[j].k \in Nat /\ ents[j].c \in Child
  <2>1. \A j \in 1 .. old : ents[j] \in Ent
    BY ElementOfSeq
  <2>2. QED
    BY <2>1, LenProperties DEF Ent
<1>2. /\ low \in Seq(Ent) /\ Len(low) = m
      /\ \A j \in 1 .. m : low[j] = ents[j]
  BY <1>1, SubSeqProperties
<1>3. /\ front \in Seq(Ent) /\ Len(front) = m + 1
      /\ \A i \in 1 .. m + 1 :
           front[i] \in Ent /\ (front[i] = e \/ \E j \in 1 .. m : front[i] = low[j])
  <2> HIDE DEF low, m
  <2>1. /\ front \in Seq(Ent) /\ Len(front) = m + 1
        /\ \A i \in 1 .. m + 1 : front[i] = e \/ \E j \in 1 .. m : front[i] = low[j]
    BY <1>2, InsertedFacts
  <2>2. \A i \in 1 .. m + 1 : front[i] \in Ent
    BY <2>1, ElementOfSeq
  <2>3. QED
    BY <2>1, <2>2
<1>4. \A i \in 1 .. m + 1 :
        front[i].c = e.c \/ \E j \in 1 .. old : front[i].c = ents[j].c
  BY <1>1, <1>2, <1>3
<1> HIDE DEF front
<1>5. CASE n >= old
  <2>0. ~ (n < old)
    BY <1>1, <1>5
  <2>1. InsertedAtCount(ents, n, e) = front
    BY <1>5, <2>0, Zenon DEF InsertedAtCount, front
  <2>2. m = old /\ low = ents
    <3>1. m = old
      BY <2>0, Zenon
    <3>2. QED
      BY <1>1, <1>2, <3>1, SeqEqual
  <2>3. n = old => front = Inserted(ents, e)
    BY <2>2 DEF front
  <2> HIDE DEF m, low
  <2>4. QED
    <3>1. Len(front) = old + 1
      BY <1>3, <2>2
    <3>2. /\ Len(front) >= old /\ Len(front) > 0
      BY <1>1, <3>1
    <3>3. \A i \in 1 .. Len(front) :
            front[i].c = e.c \/ \E j \in 1 .. old : front[i].c = ents[j].c
      BY <1>4, <2>2, <3>1
    <3>4. QED
      BY <1>3, <2>1, <2>3, <3>2, <3>3
<1>6. CASE n < old
  <2> DEFINE size == IF n + 1 < old THEN old ELSE old + 1
             at(i) == IF i <= n + 1 THEN front[i]
                      ELSE IF i > n + 2 THEN ents[i]
                      ELSE [k |-> IF n + 1 < old THEN ents[i].k ELSE 0, c |-> ents[n + 1].c]
             new == [i \in 1 .. size |-> at(i)]
  <2>1. m = n
    BY <1>6
  <2>2. InsertedAtCount(ents, n, e) = new
    BY <1>1, <1>6 DEF InsertedAtCount, front
  <2>3. size \in Nat /\ size >= old /\ size > 0
    BY <1>1, <1>6
  <2>4. ASSUME NEW i \in 1 .. size
        PROVE  at(i) \in Ent /\ (at(i).c = e.c \/ \E j \in 1 .. old : at(i).c = ents[j].c)
    <3>1. CASE i <= n + 1
      <4>1. at(i) = front[i] /\ i \in 1 .. m + 1
        BY <2>1, <2>3, <3>1
      <4> HIDE DEF at, m
      <4>2. QED
        BY <1>3, <1>4, <4>1
    <3>2. CASE i > n + 2
      <4>1. at(i) = ents[i] /\ i \in 1 .. old
        BY <1>1, <1>6, <3>2
      <4> HIDE DEF at
      <4>2. QED
        BY <1>1, <4>1
    <3>3. CASE i = n + 2
      <4>1. /\ at(i).k = IF n + 1 < old THEN ents[i].k ELSE 0
            /\ at(i) = [k |-> at(i).k, c |-> ents[n + 1].c]
        BY <3>3
      <4>2. n + 1 < old => i \in 1 .. old
        BY <1>1, <3>3
      <4>3. at(i).k \in Nat /\ n + 1 \in 1 .. old
        BY <1>1, <1>6, <4>1, <4>2
      <4> HIDE DEF at
      <4>4. QED
        BY <1>1, <4>1, <4>3 DEF Ent
    <3>4. QED
      BY <1>1, <2>3, <3>1, <3>2, <3>3
  <2>5. new \in Seq(Ent) /\ Len(new) = size /\ \A i \in 1 .. size : new[i] = at(i)
    <3> HIDE DEF at, size
    <3>1. new \in [1 .. size -> Ent]
      BY <2>4
    <3>2. QED
      BY <2>3, <3>1, LenProperties, SeqDef
  <2> HIDE DEF new, at, size
  <2>6. n # old
    BY <1>1, <1>6
  <2>7. \A i \in 1 .. Len(new) :
          new[i].c = e.c \/ \E j \in 1 .. old : new[i].c = ents[j].c
    BY <2>4, <2>5
  <2>8. QED
    BY <2>2, <2>3, <2>5, <2>6, <2>7
<1>7. n >= old \/ n < old
  BY <1>1
<1>8. QED
  BY <1>5, <1>6, <1>7

-----------------------------------------------------------------------------
(* Types, and what each action does to the pages.                          *)

LEMMA PageTypes ==
  ASSUME Types
  PROVE  /\ Len(page) \in Nat /\ Pages = 1 .. Len(page) /\ DOMAIN lock = Pages
         /\ root \in Nat
         /\ \A p \in Pages :
              /\ page[p] \in PageRec /\ page[p].level \in Nat /\ page[p].left \in Nat
              /\ page[p].sib \in Nat /\ page[p].ents \in Seq(Ent) /\ Count(p) \in Nat
              /\ \A i \in 1 .. Count(p) : /\ page[p].ents[i] \in Ent
                                          /\ page[p].ents[i].k \in Nat
              /\ lock[p] \in Backend \cup {Nobody}
<1>1. /\ Len(page) \in Nat /\ Pages = 1 .. Len(page) /\ DOMAIN lock = Pages
  BY LenProperties DEF Types, Pages
<1>2. root \in Nat
  BY <1>1 DEF Types
<1>3. ASSUME NEW p \in Pages
      PROVE  /\ page[p] \in PageRec /\ page[p].level \in Nat /\ page[p].left \in Nat
             /\ page[p].sib \in Nat /\ page[p].ents \in Seq(Ent) /\ Count(p) \in Nat
             /\ \A i \in 1 .. Count(p) : /\ page[p].ents[i] \in Ent
                                         /\ page[p].ents[i].k \in Nat
             /\ lock[p] \in Backend \cup {Nobody}
  <2>1. page[p] \in PageRec
    BY <1>1, <1>3, ElementOfSeq DEF Types
  <2>2. /\ page[p].level \in Nat /\ page[p].left \in Nat
        /\ page[p].sib \in Nat /\ page[p].ents \in Seq(Ent)
    BY <2>1 DEF PageRec
  <2>3. /\ Count(p) \in Nat
        /\ \A i \in 1 .. Count(p) : page[p].ents[i] \in Ent
    BY <2>2, LenProperties, ElementOfSeq DEF Count
  <2>4. \A i \in 1 .. Count(p) : page[p].ents[i].k \in Nat
    BY <2>3 DEF Ent
  <2>5. lock[p] \in Backend \cup {Nobody}
    BY <1>1, <1>3, ElementOfSeq DEF Types
  <2>6. QED
    BY <2>1, <2>2, <2>3, <2>4, <2>5
<1>4. QED
  BY <1>1, <1>2, <1>3

LEMMA ThreadTypes ==
  ASSUME Types, NEW b \in Backend
  PROVE  /\ th[b] \in Thread /\ DOMAIN th = Backend
         /\ th[b].level \in Nat /\ th[b].k \in Nat /\ th[b].c \in Child
         /\ th[b].at \in Nat /\ th[b].new \in Nat /\ th[b].split \in Nat
         /\ th[b].done \in Nat /\ th[b].cnt \in Nat
         /\ th[b].pc \in {"idle", "down", "locked", "right", "cut", "grow", "post"}
<1>1. th[b] \in Thread /\ DOMAIN th = Backend
  BY DEF Types
<1>2. QED
  BY <1>1 DEF Thread

(* Other threads' records do not change.                                   *)
OnlyMoves(b) == \A o \in Backend \ {b} : th'[o] = th[o]

LEMMA EntryType ==
  ASSUME Types, NEW b \in Backend
  PROVE  Entry(b) \in Ent /\ Entry(b).k = th[b].k /\ Entry(b).c = th[b].c
BY ThreadTypes DEF Entry, Ent

(* Sequences of pages.                                                     *)
LEMMA Rewritten ==
  ASSUME NEW S, NEW s \in Seq(S), NEW i \in 1 .. Len(s), NEW x \in S
  PROVE  /\ [s EXCEPT ![i] = x] \in Seq(S)
         /\ Len([s EXCEPT ![i] = x]) = Len(s)
         /\ DOMAIN [s EXCEPT ![i] = x] = DOMAIN s
         /\ \A j \in 1 .. Len(s) :
              [s EXCEPT ![i] = x][j] = IF j = i THEN x ELSE s[j]
BY ExceptSeq

LEMMA Extended ==
  ASSUME NEW S, NEW s \in Seq(S), NEW x \in S
  PROVE  /\ Append(s, x) \in Seq(S)
         /\ Len(Append(s, x)) = Len(s) + 1
         /\ DOMAIN Append(s, x) = 1 .. Len(s) + 1
         /\ \A j \in 1 .. Len(s) : Append(s, x)[j] = s[j]
         /\ Append(s, x)[Len(s) + 1] = x
<1>1. Append(s, x) \in Seq(S) /\ Len(Append(s, x)) = Len(s) + 1
  BY AppendProperties
<1>2. QED
  BY <1>1, AppendProperties, LenProperties

(* Once a race was lost, it stays so.                                      *)
RacedType == raced \in BOOLEAN

LEMMA RacedInit == Init => RacedType /\ ~raced
BY DEF Init, RacedType

LEMMA RacedStep ==
  ASSUME RacedType, [Next]_vars
  PROVE  RacedType' /\ (raced => raced')
<1>1. ASSUME NEW b \in Backend, Step(b) PROVE RacedType' /\ (raced => raced')
  <2>1. CASE Begin(b) \/ Down(b) \/ Acquire(b) \/ LetGo(b) \/ MoveRight(b) \/ Post(b)
    BY <2>1 DEF RacedType, Begin, Down, Acquire, LetGo, MoveRight, Post
  <2>2. CASE StoreFast(b) \/ SplitPage(b) \/ GrowRoot(b) \/ PostSplit(b)
    BY <2>2 DEF RacedType, StoreFast, SplitPage, GrowRoot, PostSplit
  <2>3. CASE MisreadEntry(b)
    BY <2>3 DEF RacedType, MisreadEntry
  <2>4. CASE MisreadSibling(b)
    <3>1. \/ raced' = (raced \/ ~OnSibling(th[b].at, th[b].k))
          \/ raced' = raced
      BY <2>4 DEF MisreadSibling
    <3>2. QED
      BY <3>1, Zenon DEF RacedType
  <2>5. CASE CutPage(b)
    BY <2>5 DEF RacedType, CutPage
  <2>6. QED
    BY <1>1, <2>1, <2>2, <2>3, <2>4, <2>5 DEF Step
<1>2. ASSUME UNCHANGED vars PROVE RacedType' /\ (raced => raced')
  BY <1>2 DEF vars, RacedType
<1>3. QED
  BY <1>1, <1>2 DEF Next

(* Where linear_search leads.                                              *)
LEMMA ChildFacts ==
  ASSUME Shape, NEW p \in Pages, ~Leaf(p), NEW k \in Nat
  PROVE  /\ Below(ChildFor(p, k), page[p].level)
         /\ \/ ChildFor(p, k) = page[p].left /\ ~ (FirstKey(p) <= k)
            \/ \E i \in 1 .. Count(p) :
                 ChildFor(p, k) = page[p].ents[i].c /\ page[p].ents[i].k <= k
<1> DEFINE ents == page[p].ents
           low == {i \in 1 .. Count(p) : ents[i].k <= k}
<1>1. Types /\ PageShape(p) /\ Count(p) \in Nat
  BY PageTypes DEF Shape
<1>2. CASE low = {}
  <2>1. ChildFor(p, k) = page[p].left
    BY <1>2 DEF ChildFor
  <2>2. Count(p) > 0 /\ 1 \in 1 .. Count(p)
    BY <1>1 DEF PageShape
  <2>3. ~ (FirstKey(p) <= k)
    BY <1>2, <2>2 DEF FirstKey
  <2>4. QED
    BY <1>1, <2>1, <2>3 DEF PageShape, Below
<1>3. CASE low # {}
  <2>1. low \subseteq 0 .. Count(p)
    BY <1>1
  <2>2. PICK x \in low : \A y \in low : y <= x
    BY <1>1, <1>3, <2>1, GreatestExists
  <2> DEFINE i == CHOOSE j \in low : \A y \in low : y <= j
  <2>3. i \in low
    BY <2>2
  <2>4. ChildFor(p, k) = ents[i].c
    BY <1>3 DEF ChildFor
  <2> HIDE DEF i
  <2>5. QED
    BY <1>1, <2>3, <2>4 DEF PageShape, Below
<1>4. QED
  BY <1>2, <1>3

(* A step of a search, of whatever kind, goes to the sibling or to a page  *)
(* one level below, and unless it is astray its key is not below that      *)
(* page's: it is one of an entry that is there or is being put there.      *)
Descends(b) == Down(b) \/ MisreadEntry(b) \/ MisreadSibling(b)

Leads(p, q) ==
  \/ q = page[p].sib /\ q \in Pages \ {1} /\ page[q].level = page[p].level
  \/ Below(q, page[p].level)

Found(p, k, q) ==
  \/ q = page[p].sib /\ q # Null /\ FirstKey(q) <= k
  \/ q = page[p].left /\ ~ (FirstKey(p) <= k)
  \/ \E i \in 1 .. Count(p) : q = page[p].ents[i].c /\ page[p].ents[i].k <= k
  \/ \E o \in Backend : Fills(o, p) /\ q = th[o].c /\ th[o].k <= k

LEMMA SearchFacts ==
  ASSUME Shape, NEW p \in Pages, ~Leaf(p), NEW k \in Nat
  PROVE  /\ Leads(p, ChildFor(p, k)) /\ Found(p, k, ChildFor(p, k))
         /\ page[p].sib # Null => Leads(p, page[p].sib)
         /\ OnSibling(p, k) => Found(p, k, page[p].sib)
<1>1. PageShape(p)
  BY DEF Shape
<1>2. QED
  BY <1>1, ChildFacts DEF Leads, Found, OnSibling, PageShape

(* What a thread puts into a page above the leaves is a page of the level  *)
(* below.                                                                  *)
LEMMA FillsBelow ==
  ASSUME Shape, NEW o \in Backend, NEW p \in Pages, ~Leaf(p), Fills(o, p)
  PROVE  /\ th[o].level > 0 /\ th[o].pc # "idle"
         /\ Below(th[o].c, page[p].level)
<1>1. Types /\ ThreadShape(o) /\ th[o].at \in Pages
  BY DEF Shape, ThreadShape
<1>2. th[o].pc # "idle" /\ page[p].level = page[th[o].at].level /\ Holds(o)
  BY <1>1 DEF Fills, ThreadShape, Holds, Splits
<1>3. page[p].level = th[o].level /\ th[o].level > 0
  <2>1. page[p].level \in Nat /\ page[p].level # 0
    BY <1>1, PageTypes DEF Leaf
  <2>2. th[o].level = page[th[o].at].level
    BY <1>1, <1>2 DEF ThreadShape
  <2>3. QED
    BY <1>2, <2>1, <2>2
<1>4. QED
  BY <1>1, <1>2, <1>3 DEF ThreadShape

(* The actions that leave the pages alone.                                 *)
SamePages == page' = page /\ root' = root

LEMMA MoveTypes ==
  ASSUME Types, NEW b \in Backend, NEW x \in Thread,
         th' = [th EXCEPT ![b] = x], SamePages,
         \/ lock' = lock
         \/ \E y \in Backend \cup {Nobody} : \E p \in Pages : lock' = [lock EXCEPT ![p] = y]
  PROVE  Types' /\ Pages' = Pages /\ th'[b] = x /\ OnlyMoves(b)
<1>1. /\ Pages' = Pages /\ th' \in [Backend -> Thread] /\ th'[b] = x /\ OnlyMoves(b)
  BY DEF Types, SamePages, Pages, OnlyMoves
<1>2. lock' \in Seq(Backend \cup {Nobody}) /\ Len(lock') = Len(lock)
  <2>1. CASE lock' = lock
    BY <2>1 DEF Types
  <2>2. CASE \E y \in Backend \cup {Nobody} : \E p \in Pages : lock' = [lock EXCEPT ![p] = y]
    <3>1. PICK y \in Backend \cup {Nobody}, p \in Pages : lock' = [lock EXCEPT ![p] = y]
      BY <2>2
    <3>2. p \in 1 .. Len(lock) /\ lock \in Seq(Backend \cup {Nobody})
      BY PageTypes DEF Types
    <3>3. QED
      BY <3>1, <3>2, Rewritten
  <2>3. QED
    BY <2>1, <2>2
<1>3. QED
  BY <1>1, <1>2 DEF Types, SamePages, Pages

LEMMA BeginEffect ==
  ASSUME Types, NEW b \in Backend, Begin(b)
  PROVE  /\ Types' /\ Pages' = Pages /\ SamePages /\ OnlyMoves(b) /\ lock' = lock
         /\ th'[b].pc = "down" /\ th'[b].level = 0 /\ th'[b].at = root
         /\ th'[b].k \in Nat
<1> DEFINE x == [th[b] EXCEPT !.pc = "down", !.level = 0, !.at = root, !.new = Null,
                              !.k = Work[b][th[b].done + 1], !.c = <<b, th[b].done + 1>>]
<1>1. th' = [th EXCEPT ![b] = x]
  BY ThreadTypes DEF Begin
<1>2. Work[b][th[b].done + 1] \in Nat
  <2>1. Work[b] \in Seq(Nat) /\ th[b].done + 1 \in 1 .. Len(Work[b])
    BY ThreadTypes, LenProperties, BTreeAssumption DEF Begin
  <2>2. QED
    BY <2>1, ElementOfSeq
<1>3. <<b, th[b].done + 1>> \in Child /\ Null \in Nat /\ root \in Nat
  BY ThreadTypes, PageTypes DEF Child, Null
<1>4. x \in Thread
  BY <1>2, <1>3, ThreadTypes DEF Thread
<1>5. SamePages /\ lock' = lock
  BY DEF Begin, SamePages
<1>6. /\ x.pc = "down" /\ x.level = 0 /\ x.at = root /\ x.k \in Nat
  BY <1>2, ThreadTypes DEF Thread
<1> HIDE DEF x
<1>7. QED
  BY <1>1, <1>4, <1>5, <1>6, MoveTypes

LEMMA DescentLeads ==
  ASSUME Shape, NEW b \in Backend, Descends(b), NEW p, p = th[b].at, NEW k, k = th[b].k
  PROVE  /\ p \in Pages /\ ~Leaf(p) /\ th[b].level < page[p].level
         /\ \E q : /\ th' = [th EXCEPT ![b].at = q]
                   /\ Leads(p, q)
                   /\ ~raced' => Found(p, k, q)
<1>1. Types /\ p \in Pages /\ PageShape(p) /\ k \in Nat /\ th[b].level \in Nat
  BY ThreadTypes DEF Shape, ThreadShape
<1>2. th[b].level < page[p].level /\ page[p].level \in Nat
  BY <1>1, PageTypes DEF Descends, Down, MisreadEntry, MisreadSibling
<1>3. ~Leaf(p)
  BY <1>1, <1>2 DEF Leaf
<1>4. CASE Down(b)
  <2>1. th' = [th EXCEPT ![b].at = LinearSearch(p, k)]
    BY <1>4 DEF Down
  <2>2. CASE OnSibling(p, k)
    <3>1. LinearSearch(p, k) = page[p].sib /\ page[p].sib # Null
      BY <2>2 DEF LinearSearch, OnSibling
    <3>2. QED
      BY <1>1, <1>2, <1>3, <2>1, <2>2, <3>1, SearchFacts
  <2>3. CASE ~OnSibling(p, k)
    <3>1. LinearSearch(p, k) = ChildFor(p, k)
      BY <2>3 DEF LinearSearch
    <3>2. QED
      BY <1>1, <1>2, <1>3, <2>1, <3>1, SearchFacts
  <2>4. QED
    BY <2>2, <2>3
<1>5. CASE MisreadEntry(b)
  <2>1. PICK q \in {page[p].left} \cup {e.c : e \in Shown(p)} :
          /\ th' = [th EXCEPT ![b].at = q]
          /\ raced' = (raced \/ \A e \in Shown(p) : e.c = q => k < e.k)
    BY <1>5 DEF MisreadEntry
  <2>2. ASSUME NEW e \in Shown(p)
        PROVE  \/ \E i \in 1 .. Count(p) : e = page[p].ents[i]
               \/ \E o \in Backend : Fills(o, p) /\ e.c = th[o].c /\ e.k = th[o].k
    BY <2>2 DEF Shown, Entry
  <2>3. ASSUME NEW e \in Shown(p) PROVE Below(e.c, page[p].level) /\ e.k \in Nat
    <3>1. CASE \E i \in 1 .. Count(p) : e = page[p].ents[i]
      BY <1>1, <1>3, <3>1, PageTypes DEF PageShape
    <3>2. CASE \E o \in Backend : Fills(o, p) /\ e.c = th[o].c /\ e.k = th[o].k
      BY <1>1, <1>3, <3>2, FillsBelow, ThreadTypes
    <3>3. QED
      BY <2>2, <3>1, <3>2
  <2>4. Leads(p, q)
    BY <1>1, <1>3, <2>1, <2>3 DEF Leads, PageShape
  <2>5. ~raced' => Found(p, k, q)
    <3> HAVE ~raced'
    <3>1. PICK e \in Shown(p) : e.c = q /\ ~ (k < e.k)
      BY <2>1
    <3>2. e.k <= k
      BY <1>1, <2>3, <3>1
    <3>3. QED
      BY <2>2, <3>1, <3>2 DEF Found
  <2>6. QED
    BY <1>1, <1>2, <1>3, <2>1, <2>4, <2>5
<1>6. CASE MisreadSibling(b)
  <2>1. page[p].sib # Null
    BY <1>6 DEF MisreadSibling, Unsettled
  <2>2. \/ th' = [th EXCEPT ![b].at = page[p].sib] /\ raced' = (raced \/ ~OnSibling(p, k))
        \/ th' = [th EXCEPT ![b].at = ChildFor(p, k)]
    BY <1>6 DEF MisreadSibling
  <2>3. QED
    BY <1>1, <1>2, <1>3, <2>1, <2>2, SearchFacts
<1>7. QED
  BY <1>4, <1>5, <1>6 DEF Descends

LEMMA DownEffect ==
  ASSUME Shape, NEW b \in Backend, Descends(b)
  PROVE  /\ Types' /\ Pages' = Pages /\ SamePages /\ OnlyMoves(b) /\ lock' = lock
         /\ th[b].pc = "down" /\ th[b].level < page[th[b].at].level
         /\ th[b].at \in Pages /\ ~Leaf(th[b].at)
         /\ th'[b] = [th[b] EXCEPT !.at = th'[b].at]
         /\ Leads(th[b].at, th'[b].at)
         /\ ~raced' => Found(th[b].at, th[b].k, th'[b].at)
<1>1. /\ th[b].at \in Pages /\ ~Leaf(th[b].at) /\ th[b].level < page[th[b].at].level
      /\ \E q : /\ th' = [th EXCEPT ![b].at = q]
                /\ Leads(th[b].at, q)
                /\ ~raced' => Found(th[b].at, th[b].k, q)
  BY DescentLeads
<1>2. PICK q : /\ th' = [th EXCEPT ![b].at = q]
               /\ Leads(th[b].at, q)
               /\ ~raced' => Found(th[b].at, th[b].k, q)
  BY <1>1
<1> DEFINE x == [th[b] EXCEPT !.at = q]
<1>3. Types /\ q \in Nat
  BY <1>2, PageTypes DEF Leads, Below, Shape
<1>4. x \in Thread /\ x.at = q
  BY <1>3, ThreadTypes DEF Thread
<1>5. th' = [th EXCEPT ![b] = x]
  BY <1>2, <1>3, ThreadTypes
<1>6. SamePages /\ lock' = lock /\ th[b].pc = "down"
  BY DEF Descends, Down, MisreadEntry, MisreadSibling, SamePages
<1> HIDE DEF x
<1>7. Types' /\ Pages' = Pages /\ th'[b] = x /\ OnlyMoves(b)
  BY <1>3, <1>4, <1>5, <1>6, MoveTypes
<1>8. th'[b].at = q /\ th'[b] = [th[b] EXCEPT !.at = th'[b].at]
  BY <1>4, <1>7 DEF x
<1>9. QED
  BY <1>1, <1>2, <1>6, <1>7, <1>8

LEMMA AcquireEffect ==
  ASSUME Shape, NEW b \in Backend, Acquire(b)
  PROVE  /\ Types' /\ Pages' = Pages /\ SamePages /\ OnlyMoves(b)
         /\ th[b].pc = "down" /\ page[th[b].at].level <= th[b].level
         /\ lock[th[b].at] = Nobody /\ lock' = [lock EXCEPT ![th[b].at] = b]
         /\ th'[b] = [th[b] EXCEPT !.pc = "locked"]
<1> DEFINE x == [th[b] EXCEPT !.pc = "locked"]
<1>1. Types /\ th[b].at \in Pages
  BY DEF Shape, ThreadShape
<1>2. x \in Thread
  BY <1>1, ThreadTypes DEF Thread
<1>3. /\ th' = [th EXCEPT ![b] = x] /\ lock' = [lock EXCEPT ![th[b].at] = b]
      /\ SamePages
  BY <1>1, ThreadTypes DEF Acquire, Goto, SamePages
<1> HIDE DEF x
<1>4. Types' /\ Pages' = Pages /\ th'[b] = x /\ OnlyMoves(b)
  BY <1>1, <1>2, <1>3, MoveTypes
<1>5. QED
  BY <1>3, <1>4 DEF x, Acquire

LEMMA LetGoEffect ==
  ASSUME Shape, NEW b \in Backend, LetGo(b)
  PROVE  /\ Types' /\ Pages' = Pages /\ SamePages /\ OnlyMoves(b)
         /\ th[b].pc = "locked" /\ MayGo(b)
         /\ lock' = [lock EXCEPT ![th[b].at] = Nobody]
         /\ th'[b] = [th[b] EXCEPT !.pc = "right"]
<1> DEFINE x == [th[b] EXCEPT !.pc = "right"]
<1>1. Types /\ th[b].at \in Pages
  BY DEF Shape, ThreadShape
<1>2. x \in Thread
  BY <1>1, ThreadTypes DEF Thread
<1>3. /\ th' = [th EXCEPT ![b] = x] /\ lock' = [lock EXCEPT ![th[b].at] = Nobody]
      /\ SamePages
  BY <1>1, ThreadTypes DEF LetGo, Unlock, Goto, SamePages
<1> HIDE DEF x
<1>4. Types' /\ Pages' = Pages /\ th'[b] = x /\ OnlyMoves(b)
  BY <1>1, <1>2, <1>3, MoveTypes
<1>5. QED
  BY <1>3, <1>4 DEF x, LetGo

LEMMA MoveRightEffect ==
  ASSUME Shape, NEW b \in Backend, MoveRight(b)
  PROVE  /\ Types' /\ Pages' = Pages /\ SamePages /\ OnlyMoves(b) /\ lock' = lock
         /\ th[b].pc = "right"
         /\ th'[b] = [th[b] EXCEPT !.at = page[th[b].at].sib, !.pc = "down"]
<1> DEFINE x == [th[b] EXCEPT !.at = page[th[b].at].sib, !.pc = "down"]
<1>1. Types /\ th[b].at \in Pages
  BY DEF Shape, ThreadShape
<1>2. x \in Thread
  BY <1>1, ThreadTypes, PageTypes DEF Thread
<1>3. /\ th' = [th EXCEPT ![b] = x] /\ lock' = lock /\ SamePages
  BY <1>1, ThreadTypes DEF MoveRight, SamePages
<1> HIDE DEF x
<1>4. Types' /\ Pages' = Pages /\ th'[b] = x /\ OnlyMoves(b)
  BY <1>1, <1>2, <1>3, MoveTypes
<1>5. QED
  BY <1>3, <1>4 DEF x, MoveRight

LEMMA PostSplitEffect ==
  ASSUME Shape, NEW b \in Backend, PostSplit(b)
  PROVE  /\ Types' /\ Pages' = Pages /\ SamePages /\ OnlyMoves(b)
         /\ th[b].pc = "grow" /\ root # th[b].at
         /\ lock' = [lock EXCEPT ![th[b].at] = Nobody]
         /\ th'[b] = [th[b] EXCEPT !.pc = "post", !.k = th[b].split, !.c = th[b].new,
                                   !.level = page[th[b].at].level + 1]
<1> DEFINE x == [th[b] EXCEPT !.pc = "post", !.k = th[b].split, !.c = th[b].new,
                              !.level = page[th[b].at].level + 1]
<1>1. Types /\ th[b].at \in Pages
  BY DEF Shape, ThreadShape
<1>2. x \in Thread
  <2>1. th[b].new \in Child /\ page[th[b].at].level + 1 \in Nat
    BY <1>1, ThreadTypes, PageTypes DEF Child
  <2>2. QED
    BY <1>1, <2>1, ThreadTypes DEF Thread
<1>3. /\ th' = [th EXCEPT ![b] = x] /\ lock' = [lock EXCEPT ![th[b].at] = Nobody]
      /\ SamePages
  BY <1>1, ThreadTypes DEF PostSplit, Unlock, SamePages
<1> HIDE DEF x
<1>4. Types' /\ Pages' = Pages /\ th'[b] = x /\ OnlyMoves(b)
  BY <1>1, <1>2, <1>3, MoveTypes
<1>5. QED
  BY <1>3, <1>4 DEF x, PostSplit

LEMMA FinishedType ==
  ASSUME Types, NEW b \in Backend
  PROVE  Finished(b) \in Thread /\ Finished(b).pc = "idle" /\ Finished(b).at = th[b].at
<1>1. th[b] \in Thread /\ th[b].done + 1 \in Nat
  BY ThreadTypes
<1>2. Finished(b) = [th[b] EXCEPT !.pc = "idle", !.done = th[b].done + 1]
  BY DEF Finished
<1>3. QED
  BY <1>1, <1>2 DEF Thread

LEMMA PostEffect ==
  ASSUME Shape, NEW b \in Backend, Post(b)
  PROVE  /\ Types' /\ Pages' = Pages /\ SamePages /\ OnlyMoves(b) /\ lock' = lock
         /\ th[b].pc = "post"
         /\ \/ th'[b] = Finished(b)
            \/ /\ th[b].level <= page[root].level
               /\ th'[b] = [th[b] EXCEPT !.pc = "down", !.at = root]
<1> DEFINE x == IF th[b].level > page[root].level THEN Finished(b)
                ELSE [th[b] EXCEPT !.pc = "down", !.at = root]
<1>1. Types /\ th[b].at \in Pages /\ root \in Pages
  BY DEF Shape, ThreadShape, Types
<1>2. x \in Thread
  <2>1. [th[b] EXCEPT !.pc = "down", !.at = root] \in Thread
    BY <1>1, ThreadTypes, PageTypes DEF Thread
  <2>2. QED
    BY <1>1, <2>1, FinishedType
<1>3. th' = [th EXCEPT ![b] = x] /\ lock' = lock /\ SamePages
  BY <1>1, ThreadTypes DEF Post, SamePages
<1>4. \/ x = Finished(b)
      \/ /\ th[b].level <= page[root].level
         /\ x = [th[b] EXCEPT !.pc = "down", !.at = root]
  BY <1>1, ThreadTypes, PageTypes
<1> HIDE DEF x
<1>5. Types' /\ Pages' = Pages /\ th'[b] = x /\ OnlyMoves(b)
  BY <1>1, <1>2, <1>3, MoveTypes
<1>6. QED
  BY <1>3, <1>4, <1>5 DEF Post

(* The actions that write pages.  Only the lock of the thread's own page   *)
(* changes hands.                                                          *)
SameTree(q) ==
  /\ page'[q].level = page[q].level /\ page'[q].left = page[q].left

LEMMA EntsType ==
  ASSUME NEW r \in PageRec, NEW es \in Seq(Ent)
  PROVE  /\ [r EXCEPT !.ents = es] \in PageRec
         /\ [r EXCEPT !.ents = es].ents = es
         /\ [r EXCEPT !.ents = es].level = r.level
         /\ [r EXCEPT !.ents = es].left = r.left
         /\ [r EXCEPT !.ents = es].sib = r.sib
BY DEF PageRec

LEMMA StoreEffect ==
  ASSUME Shape, NEW b \in Backend, StoreFast(b)
  PROVE  /\ Types' /\ Pages' = Pages /\ root' = root /\ OnlyMoves(b)
         /\ th[b].pc = "locked" /\ MayStay(b) /\ th[b].at \in Pages
         /\ lock' = [lock EXCEPT ![th[b].at] = Nobody]
         /\ th'[b] = Finished(b)
         /\ \A q \in Pages :
              /\ SameTree(q) /\ page'[q].sib = page[q].sib
              /\ page'[q].ents = IF q = th[b].at
                                 THEN Inserted(page[q].ents, Entry(b)) ELSE page[q].ents
<1> DEFINE p == th[b].at
           es == Inserted(page[p].ents, Entry(b))
           r == [page[p] EXCEPT !.ents = es]
<1>1. Types /\ p \in Pages /\ p \in 1 .. Len(page) /\ page \in Seq(PageRec)
  BY PageTypes DEF Shape, ThreadShape, Types
<1>2. /\ page' = [page EXCEPT ![p] = r] /\ lock' = [lock EXCEPT ![p] = Nobody]
      /\ th' = [th EXCEPT ![b] = Finished(b)] /\ root' = root
      /\ th[b].pc = "locked" /\ MayStay(b)
  BY DEF StoreFast, Unlock
<1>3. es \in Seq(Ent)
  BY <1>1, PageTypes, EntryType, InsertedFacts
<1>4. r \in PageRec /\ r.ents = es /\ r.level = page[p].level
      /\ r.left = page[p].left /\ r.sib = page[p].sib
  BY <1>1, <1>3, PageTypes, EntsType
<1> HIDE DEF r, es
<1>5. /\ page' \in Seq(PageRec) /\ Len(page') = Len(page) /\ Pages' = Pages
      /\ \A q \in Pages : page'[q] = IF q = p THEN r ELSE page[q]
  BY <1>1, <1>2, <1>4, Rewritten, PageTypes DEF Pages
<1>6. lock' \in Seq(Backend \cup {Nobody}) /\ Len(lock') = Len(lock)
  <2>1. p \in 1 .. Len(lock) /\ lock \in Seq(Backend \cup {Nobody})
    BY <1>1 DEF Types
  <2>2. QED
    BY <1>2, <2>1, Rewritten
<1>7. th' \in [Backend -> Thread] /\ th'[b] = Finished(b) /\ OnlyMoves(b)
  BY <1>1, <1>2, FinishedType DEF Types, OnlyMoves
<1>8. Types'
  BY <1>1, <1>2, <1>5, <1>6, <1>7 DEF Types
<1>9. \A q \in Pages :
        /\ SameTree(q) /\ page'[q].sib = page[q].sib
        /\ page'[q].ents = IF q = p THEN es ELSE page[q].ents
  BY <1>4, <1>5 DEF SameTree
<1>10. QED
  BY <1>1, <1>2, <1>5, <1>7, <1>8, <1>9 DEF es

(* The page that a split appends.                                          *)
Half(p, n) ==
  LET m == Count(p) \div 2
      d == IF Leaf(p) THEN m ELSE m + 1
  IN  /\ page'[n].level = page[p].level /\ page'[n].sib = page[p].sib
      /\ Leaf(p) => page'[n].left = Null
      /\ ~Leaf(p) => page'[n].left = page[p].ents[m + 1].c
      /\ Len(page'[n].ents) = Count(p) - d
      /\ \A i \in 1 .. Count(p) - d : page'[n].ents[i] = page[p].ents[i + d]

LEMMA SplitEffect ==
  ASSUME Shape, NEW b \in Backend, SplitPage(b)
  PROVE  LET p == th[b].at
             n == Len(page) + 1 IN
         /\ Types' /\ Pages' = Pages \cup {n} /\ n \notin Pages /\ n # 1
         /\ root' = root /\ OnlyMoves(b)
         /\ th[b].pc = "locked" /\ MayStay(b) /\ p \in Pages
         /\ Count(p) >= 3 /\ Count(p) \div 2 \in 1 .. Count(p) - 2
         /\ lock' = Append(lock, Nobody)
         /\ th'[b] = [th[b] EXCEPT !.pc = "cut", !.new = n,
                                   !.split = page[p].ents[Count(p) \div 2 + 1].k,
                                   !.cnt = Len(page'[n].ents)]
         /\ \A q \in Pages :
              /\ SameTree(q) /\ page'[q].ents = page[q].ents
              /\ page'[q].sib = IF q = p THEN n ELSE page[q].sib
         /\ Half(p, n)
<1> DEFINE p == th[b].at
           n == Len(page) + 1
           m == Count(p) \div 2
           mid == page[p].ents[m + 1]
           d == IF Leaf(p) THEN m ELSE m + 1
           up == SubSeq(page[p].ents, d + 1, Count(p))
           r == [page[p] EXCEPT !.sib = n]
           h == [level |-> page[p].level, ents |-> up, sib |-> page[p].sib,
                 left |-> IF Leaf(p) THEN Null ELSE mid.c]
           x == [th[b] EXCEPT !.pc = "cut", !.new = n, !.split = mid.k, !.cnt = Len(up)]
<1>1. Types /\ p \in Pages /\ p \in 1 .. Len(page) /\ page \in Seq(PageRec)
      /\ PageShape(p) /\ ThreadShape(b)
  BY PageTypes DEF Shape, ThreadShape, Types
<1>2. Leaf(p) <=> page[p].left = Null
  BY <1>1 DEF PageShape
<1>3. /\ page' = Append([page EXCEPT ![p] = r], h) /\ lock' = Append(lock, Nobody)
      /\ th' = [th EXCEPT ![b] = x] /\ root' = root
      /\ th[b].pc = "locked" /\ MayStay(b) /\ Count(p) >= Card - 1
  <2>1. Leaf(p) => page' = Append([page EXCEPT ![p] = r], h)
    BY <1>2 DEF SplitPage
  <2>2. ~Leaf(p) => page' = Append([page EXCEPT ![p] = r], h)
    <3> HAVE ~Leaf(p)
    <3>1. page[p].left # Null
      BY <1>2
    <3>2. d + 1 = m + 2
      BY <1>1, PageTypes
    <3>3. QED
      BY <3>1, <3>2 DEF SplitPage
  <2>3. th' = [th EXCEPT ![b] = x]
    <3>1. Leaf(p) => up = SubSeq(page[p].ents, m + 1, Count(p))
      OBVIOUS
    <3>2. ~Leaf(p) => up = SubSeq(page[p].ents, m + 2, Count(p))
      <4>1. m + 1 + 1 = m + 2
        BY <1>1, PageTypes
      <4>2. QED
        BY <4>1
    <3> HIDE DEF up
    <3>3. up = SubSeq(page[p].ents, IF page[p].left = Null THEN m + 1 ELSE m + 2, Count(p))
      BY <1>2, <3>1, <3>2
    <3>4. QED
      BY <3>3 DEF SplitPage
  <2>4. QED
    BY <2>1, <2>2, <2>3 DEF SplitPage
<1>4. /\ Count(p) \in Nat /\ Count(p) >= 3 /\ m \in 1 .. Count(p) - 2
      /\ m + 1 \in 1 .. Count(p) /\ d \in m .. m + 1 /\ d \in Nat
  <2>1. Count(p) \in Nat
    BY <1>1, PageTypes
  <2>2. Count(p) >= 3
    BY <1>3, <2>1, BTreeAssumption
  <2>3. m \in 1 .. Count(p) - 2
    BY <2>1, <2>2
  <2>4. QED
    BY <2>1, <2>2, <2>3
<1>5. mid \in Ent /\ mid.k \in Nat /\ mid.c \in Child
  BY <1>1, <1>4, PageTypes DEF Ent
<1>6. /\ up \in Seq(Ent) /\ Len(up) = Count(p) - d
      /\ \A i \in 1 .. Count(p) - d : up[i] = page[p].ents[i + d]
  <2>1. d + 1 \in Int /\ Count(p) \in Int /\ d + 1 <= Count(p)
    BY <1>4
  <2>2. \A i \in d + 1 .. Count(p) : page[p].ents[i] \in Ent
    <3>1. \A i \in d + 1 .. Count(p) : i \in 1 .. Count(p)
      BY <1>4
    <3>2. QED
      BY <1>1, <3>1, PageTypes
  <2>3. /\ up \in Seq(Ent) /\ Len(up) = Count(p) - (d + 1) + 1
        /\ \A i \in 1 .. Count(p) - (d + 1) + 1 : up[i] = page[p].ents[d + 1 + i - 1]
    BY <2>1, <2>2, SubSeqProperties
  <2>4. Count(p) - (d + 1) + 1 = Count(p) - d
    BY <1>4
  <2>5. \A i \in 1 .. Count(p) - d : d + 1 + i - 1 = i + d
    BY <1>4
  <2>6. QED
    BY <2>3, <2>4, <2>5
<1>7. n \in Nat /\ n \notin Pages /\ n # 1 /\ Len(page) \in Nat
  BY <1>1, PageTypes
<1>8. r \in PageRec /\ r.ents = page[p].ents /\ r.level = page[p].level
      /\ r.left = page[p].left /\ r.sib = n
  BY <1>1, <1>7, PageTypes DEF PageRec
<1>9. h \in PageRec
  <2>1. (IF Leaf(p) THEN Null ELSE mid.c) \in Nat
    <3>1. ~Leaf(p) => mid.c \in Pages
      BY <1>1, <1>4 DEF PageShape, Below
    <3>2. QED
      BY SMTT(30), <1>1, <3>1, PageTypes DEF Null
  <2>2. QED
    BY <1>1, <1>6, <2>1, PageTypes DEF PageRec
<1>10. x \in Thread
  <2>1. Len(up) \in Nat
    BY <1>4, <1>6
  <2>2. QED
    BY <1>1, <1>5, <1>7, <2>1, ThreadTypes DEF Thread
<1>11. /\ h.level = page[p].level /\ h.sib = page[p].sib /\ h.ents = up
       /\ h.left = IF Leaf(p) THEN Null ELSE mid.c
  OBVIOUS
<1> HIDE DEF r, h, x, up
<1> DEFINE s == [page EXCEPT ![p] = r]
<1>12. /\ s \in Seq(PageRec) /\ Len(s) = Len(page)
       /\ \A q \in 1 .. Len(page) : s[q] = IF q = p THEN r ELSE page[q]
  BY <1>1, <1>8, Rewritten
<1> HIDE DEF s
<1>13. /\ page' \in Seq(PageRec) /\ Len(page') = n /\ DOMAIN page' = 1 .. n
       /\ page'[n] = h
       /\ \A q \in 1 .. Len(page) : page'[q] = IF q = p THEN r ELSE page[q]
  <2>1. page' = Append(s, h)
    BY <1>3 DEF s
  <2>2. QED
    BY <1>9, <1>12, <2>1, Extended
<1>14. Pages' = Pages \cup {n}
  BY <1>1, <1>7, <1>13, PageTypes DEF Pages
<1>15. lock' \in Seq(Backend \cup {Nobody}) /\ Len(lock') = n
  BY <1>1, <1>3, Extended DEF Types
<1>16. th' \in [Backend -> Thread] /\ th'[b] = x /\ OnlyMoves(b)
  BY <1>1, <1>3, <1>10 DEF Types, OnlyMoves
<1>17. Types'
  BY <1>1, <1>3, <1>13, <1>14, <1>15, <1>16 DEF Types
<1>18. \A q \in Pages :
         /\ SameTree(q) /\ page'[q].ents = page[q].ents
         /\ page'[q].sib = IF q = p THEN n ELSE page[q].sib
  BY <1>1, <1>8, <1>13, PageTypes DEF SameTree
<1>19. Half(p, n)
  BY <1>6, <1>11, <1>13 DEF Half
<1>20. Len(up) = Len(page'[n].ents)
  BY <1>11, <1>13
<1>21. QED
  BY <1>1, <1>3, <1>4, <1>7, <1>14, <1>16, <1>17, <1>18, <1>19, <1>20 DEF x

LowHalf(p) == SubSeq(page[p].ents, 1, Count(p) \div 2)

LEMMA LowFacts ==
  ASSUME Types, NEW p \in Pages, Count(p) >= 3
  PROVE  LET m == Count(p) \div 2 IN
         /\ m \in 1 .. Count(p) - 2 /\ LowHalf(p) \in Seq(Ent) /\ Len(LowHalf(p)) = m
         /\ \A i \in 1 .. m : LowHalf(p)[i] = page[p].ents[i]
<1> DEFINE m == Count(p) \div 2
<1>1. Count(p) \in Nat
  BY PageTypes
<1>2. m \in 1 .. Count(p) - 2 /\ m \in Int /\ 1 <= m /\ m - 1 + 1 = m
  BY <1>1
<1>3. \A i \in 1 .. m : i \in 1 .. Count(p) /\ 1 + i - 1 = i
  BY <1>1, <1>2
<1>4. \A i \in 1 .. m : page[p].ents[i] \in Ent
  BY <1>3, PageTypes
<1> HIDE DEF m
<1>5. /\ SubSeq(page[p].ents, 1, m) \in Seq(Ent)
      /\ Len(SubSeq(page[p].ents, 1, m)) = m - 1 + 1
      /\ \A i \in 1 .. m - 1 + 1 : SubSeq(page[p].ents, 1, m)[i] = page[p].ents[1 + i - 1]
  BY <1>2, <1>4, SubSeqProperties
<1>6. QED
  BY <1>2, <1>3, <1>5 DEF m, LowHalf

LEMMA CutChanges ==
  ASSUME Shape, NEW b \in Backend, CutPage(b)
  PROVE  LET p == th[b].at
             n == th[b].new IN
         /\ Types' /\ Pages' = Pages /\ root' = root /\ OnlyMoves(b) /\ lock' = lock
         /\ th[b].pc = "cut" /\ p \in Pages /\ n \in Pages /\ n # p /\ Count(p) >= 3
         /\ th'[b] = [th[b] EXCEPT !.pc = "grow"]
         /\ \A q \in Pages : SameTree(q) /\ page'[q].sib = page[q].sib
         /\ \A q \in Pages \ {p, n} : page'[q].ents = page[q].ents
         /\ \/ /\ th[b].k < th[b].split
               /\ page'[p].ents = Inserted(LowHalf(p), Entry(b))
               /\ page'[n].ents = page[n].ents
            \/ /\ ~ (th[b].k < th[b].split)
               /\ page'[p].ents = LowHalf(p)
               /\ page'[n].ents = InsertedAtCount(page[n].ents, th[b].cnt, Entry(b))
               /\ ~raced' => ~SecondWriter(b)
<1> DEFINE p == th[b].at
           n == th[b].new
           x == [th[b] EXCEPT !.pc = "grow"]
           e == Entry(b)
           lp == [page[p] EXCEPT !.ents = LowHalf(p)]
           ip == [page[p] EXCEPT !.ents = Inserted(LowHalf(p), e)]
           jn == [page[n] EXCEPT !.ents = InsertedAtCount(page[n].ents, th[b].cnt, e)]
<1>1. /\ Types /\ p \in Pages /\ page \in Seq(PageRec) /\ th[b].pc = "cut"
      /\ n \in Pages /\ n # p /\ Count(p) >= 3
      /\ p \in 1 .. Len(page) /\ n \in 1 .. Len(page) /\ e \in Ent
  BY PageTypes, EntryType DEF Shape, ThreadShape, Types, Splits, CutPage
<1>2. /\ th' = [th EXCEPT ![b] = x] /\ lock' = lock /\ root' = root
      /\ page' = IF th[b].k < th[b].split THEN [page EXCEPT ![p] = ip]
                 ELSE [[page EXCEPT ![p] = lp] EXCEPT ![n] = jn]
  <2>1. th' = [th EXCEPT ![b] = x] /\ lock' = lock /\ root' = root
    BY DEF CutPage, Goto
  <2>2. CASE th[b].k < th[b].split
    BY <2>1, <2>2 DEF CutPage, LowHalf
  <2>3. CASE ~ (th[b].k < th[b].split)
    <3>1. page' = [page EXCEPT ![p].ents = LowHalf(p), ![n].ents = InsertedAtCount(@, th[b].cnt, e)]
      BY <2>3 DEF CutPage, LowHalf
    <3>2. [page EXCEPT ![p] = lp][n] = page[n]
      BY <1>1, Rewritten
    <3>3. QED
      BY <2>1, <2>3, <3>1, <3>2
  <2>4. QED
    BY <2>1, <2>2, <2>3
<1>3. /\ LowHalf(p) \in Seq(Ent) /\ Inserted(LowHalf(p), e) \in Seq(Ent)
      /\ InsertedAtCount(page[n].ents, th[b].cnt, e) \in Seq(Ent)
  <2>1. th[b].cnt \in Nat
    BY <1>1, ThreadTypes
  <2>2. LowHalf(p) \in Seq(Ent) /\ page[n].ents \in Seq(Ent)
    BY <1>1, LowFacts, PageTypes
  <2>3. QED
    BY <1>1, <2>1, <2>2, InsertedFacts, InsertedAtCountFacts
<1>4. /\ lp \in PageRec /\ lp.ents = LowHalf(p) /\ lp.level = page[p].level
      /\ lp.left = page[p].left /\ lp.sib = page[p].sib
  BY SMTT(30), <1>1, <1>3, EntsType, PageTypes
<1>5. /\ ip \in PageRec /\ ip.ents = Inserted(LowHalf(p), e) /\ ip.level = page[p].level
      /\ ip.left = page[p].left /\ ip.sib = page[p].sib
  BY SMTT(30), <1>1, <1>3, EntsType, PageTypes
<1>6. /\ jn \in PageRec /\ jn.ents = InsertedAtCount(page[n].ents, th[b].cnt, e)
      /\ jn.level = page[n].level /\ jn.left = page[n].left /\ jn.sib = page[n].sib
  BY <1>1, <1>3, EntsType, PageTypes
<1>7. x \in Thread
  BY <1>1, ThreadTypes DEF Thread
<1> HIDE DEF lp, ip, jn, x, e
<1>8. /\ page' \in Seq(PageRec) /\ Len(page') = Len(page)
      /\ \A q \in 1 .. Len(page) :
           page'[q] = IF th[b].k < th[b].split THEN IF q = p THEN ip ELSE page[q]
                      ELSE IF q = n THEN jn ELSE IF q = p THEN lp ELSE page[q]
  <2>1. CASE th[b].k < th[b].split
    BY <1>1, <1>2, <1>5, <2>1, Rewritten
  <2>2. CASE ~ (th[b].k < th[b].split)
    <3> DEFINE s == [page EXCEPT ![p] = lp]
    <3>1. /\ s \in Seq(PageRec) /\ Len(s) = Len(page)
          /\ \A q \in 1 .. Len(page) : s[q] = IF q = p THEN lp ELSE page[q]
      BY <1>1, <1>4, Rewritten
    <3>2. page' = [s EXCEPT ![n] = jn]
      BY <1>2, <2>2
    <3> HIDE DEF s
    <3>3. /\ page' \in Seq(PageRec) /\ Len(page') = Len(s)
          /\ \A q \in 1 .. Len(s) : page'[q] = IF q = n THEN jn ELSE s[q]
      BY <1>1, <1>6, <3>1, <3>2, Rewritten
    <3>4. QED
      BY <2>2, <3>1, <3>3
  <2>3. QED
    BY <2>1, <2>2
<1>9. Pages' = Pages
  BY <1>1, <1>8, PageTypes, LenProperties DEF Pages
<1>10. th' \in [Backend -> Thread] /\ th'[b] = x /\ OnlyMoves(b)
  BY <1>1, <1>2, <1>7 DEF Types, OnlyMoves
<1>11. Types'
  BY <1>1, <1>2, <1>8, <1>9, <1>10 DEF Types
<1>12. Pages = 1 .. Len(page)
  BY <1>1, PageTypes
<1>13. /\ \A q \in Pages : SameTree(q) /\ page'[q].sib = page[q].sib
       /\ \A q \in Pages \ {p, n} : page'[q].ents = page[q].ents
  BY <1>4, <1>5, <1>6, <1>8, <1>12 DEF SameTree
<1>14. \/ /\ th[b].k < th[b].split
          /\ page'[p].ents = Inserted(LowHalf(p), Entry(b))
          /\ page'[n].ents = page[n].ents
       \/ /\ ~ (th[b].k < th[b].split)
          /\ page'[p].ents = LowHalf(p)
          /\ page'[n].ents = InsertedAtCount(page[n].ents, th[b].cnt, Entry(b))
          /\ ~raced' => ~SecondWriter(b)
  <2>1. ~ (th[b].k < th[b].split) => (~raced' => ~SecondWriter(b))
    BY DEF CutPage
  <2>2. QED
    BY <1>1, <1>4, <1>5, <1>6, <1>8, <2>1 DEF e
<1>15. QED
  BY <1>1, <1>2, <1>9, <1>10, <1>11, <1>13, <1>14 DEF x

LEMMA CutEffect ==
  ASSUME Shape, NEW b \in Backend, CutPage(b), ~raced'
  PROVE  LET p == th[b].at
             n == th[b].new IN
         /\ Types' /\ Pages' = Pages /\ root' = root /\ OnlyMoves(b) /\ lock' = lock
         /\ th[b].pc = "cut" /\ p \in Pages /\ n \in Pages /\ n # p /\ Count(p) >= 3
         /\ th'[b] = [th[b] EXCEPT !.pc = "grow"]
         /\ \A q \in Pages : SameTree(q) /\ page'[q].sib = page[q].sib
         /\ \A q \in Pages \ {p, n} : page'[q].ents = page[q].ents
         /\ \/ /\ th[b].k < th[b].split
               /\ page'[p].ents = Inserted(LowHalf(p), Entry(b))
               /\ page'[n].ents = page[n].ents
            \/ /\ ~ (th[b].k < th[b].split)
               /\ page'[p].ents = LowHalf(p)
               /\ page'[n].ents = Inserted(page[n].ents, Entry(b))
               /\ \A o \in Backend : ~ (th[o].pc = "cut" /\ th[o].at = n)
<1>1. Types /\ th[b].new \in Pages
  BY CutChanges DEF Shape
<1>2. ~SecondWriter(b) =>
        /\ InsertedAtCount(page[th[b].new].ents, th[b].cnt, Entry(b))
             = Inserted(page[th[b].new].ents, Entry(b))
        /\ \A o \in Backend : ~ (th[o].pc = "cut" /\ th[o].at = th[b].new)
  <2> HAVE ~SecondWriter(b)
  <2>1. page[th[b].new].ents \in Seq(Ent) /\ th[b].cnt \in Nat /\ Entry(b) \in Ent
    BY <1>1, PageTypes, ThreadTypes, EntryType
  <2>2. th[b].cnt = Len(page[th[b].new].ents)
    BY DEF SecondWriter, Count
  <2>3. QED
    BY <2>1, <2>2, InsertedAtCountFacts DEF SecondWriter
<1>3. QED
  BY <1>2, CutChanges

LEMMA GrowEffect ==
  ASSUME Shape, NEW b \in Backend, GrowRoot(b)
  PROVE  LET p == th[b].at
             n == Len(page) + 1 IN
         /\ Types' /\ Pages' = Pages \cup {n} /\ n \notin Pages /\ n # 1
         /\ root = p /\ root' = n /\ OnlyMoves(b)
         /\ th[b].pc = "grow" /\ p \in Pages
         /\ lock' = Append([lock EXCEPT ![p] = Nobody], Nobody)
         /\ th'[b] = Finished(b)
         /\ \A q \in Pages : page'[q] = page[q]
         /\ page'[n].level = page[p].level + 1 /\ page'[n].left = p
         /\ page'[n].sib = Null /\ Len(page'[n].ents) = 1
         /\ page'[n].ents[1].k = th[b].split /\ page'[n].ents[1].c = th[b].new
<1> DEFINE p == th[b].at
           n == Len(page) + 1
           e == [k |-> th[b].split, c |-> th[b].new]
           r == [level |-> page[p].level + 1, left |-> p, sib |-> Null, ents |-> << e >>]
<1>1. /\ Types /\ p \in Pages /\ page \in Seq(PageRec) /\ n \in Nat /\ n \notin Pages
      /\ n # 1 /\ Len(page) \in Nat
  BY PageTypes DEF Shape, ThreadShape, Types
<1>2. /\ page' = Append(page, r) /\ root' = n /\ root = p /\ th[b].pc = "grow"
      /\ lock' = Append([lock EXCEPT ![p] = Nobody], Nobody)
      /\ th' = [th EXCEPT ![b] = Finished(b)]
  BY DEF GrowRoot
<1>3. e \in Ent /\ e.k = th[b].split /\ e.c = th[b].new
  BY <1>1, ThreadTypes DEF Ent, Child
<1>4. /\ << e >> \in Seq(Ent) /\ Len(<< e >>) = 1 /\ << e >>[1] = e
  BY <1>3
<1>5. r \in PageRec
  <2>1. page[p].level + 1 \in Nat /\ p \in Nat /\ Null \in Nat
    BY <1>1, PageTypes, ThreadTypes DEF Null
  <2>2. QED
    BY <1>4, <2>1 DEF PageRec
<1>6. /\ r.level = page[p].level + 1 /\ r.left = p /\ r.sib = Null /\ Len(r.ents) = 1
      /\ r.ents[1].k = th[b].split /\ r.ents[1].c = th[b].new
  BY <1>3, <1>4
<1> HIDE DEF r, e
<1>7. /\ page' \in Seq(PageRec) /\ Len(page') = n /\ DOMAIN page' = 1 .. n
      /\ \A q \in 1 .. Len(page) : page'[q] = page[q]
      /\ page'[n] = r
  BY <1>1, <1>2, <1>5, Extended
<1>8. Pages' = Pages \cup {n} /\ \A q \in Pages : page'[q] = page[q]
  BY <1>1, <1>7, PageTypes DEF Pages
<1>9. lock' \in Seq(Backend \cup {Nobody}) /\ Len(lock') = n
  <2>1. p \in 1 .. Len(lock) /\ lock \in Seq(Backend \cup {Nobody}) /\ Len(lock) = Len(page)
    BY <1>1, PageTypes DEF Types
  <2>2. /\ [lock EXCEPT ![p] = Nobody] \in Seq(Backend \cup {Nobody})
        /\ Len([lock EXCEPT ![p] = Nobody]) = Len(lock)
    BY <2>1, Rewritten
  <2>3. QED
    BY <1>2, <2>1, <2>2, Extended
<1>10. th' \in [Backend -> Thread] /\ th'[b] = Finished(b) /\ OnlyMoves(b)
  BY <1>1, <1>2, FinishedType DEF Types, OnlyMoves
<1>11. Types'
  BY <1>1, <1>2, <1>7, <1>8, <1>9, <1>10 DEF Types
<1>12. QED
  BY <1>1, <1>2, <1>6, <1>7, <1>8, <1>10, <1>11

-----------------------------------------------------------------------------
(* The shape of the tree.                                                  *)

(* Pages stay, with their levels.                                          *)
LevelsKept ==
  \A q \in Pages : q \in Pages' /\ page'[q].level = page[q].level

LEMMA OtherShape ==
  ASSUME Shape, LevelsKept, NEW o \in Backend, th'[o] = th[o],
         \A q \in Pages : page[q].sib # Null => page'[q].sib # Null,
         \A q \in Pages : lock[q] = o =>
           /\ lock'[q] = o /\ page'[q].sib = page[q].sib
           /\ \/ Len(page'[q].ents) = Len(page[q].ents)
              \/ Len(page'[q].ents) \in Nat /\ Len(page'[q].ents) >= Len(page[q].ents)
  PROVE  ThreadShape(o)'
<1>1. ThreadShape(o) /\ th[o].at \in Pages /\ Types
  BY DEF Shape, ThreadShape
<1>2. Holds(o) => lock[th[o].at] = o
  BY <1>1 DEF ThreadShape
<1>3. th[o].pc = "cut" => Len(page'[th[o].at].ents) >= 3
  <2> HAVE th[o].pc = "cut"
  <2>1. Holds(o) /\ Count(th[o].at) >= 3 /\ Count(th[o].at) \in Nat
    BY <1>1, PageTypes DEF ThreadShape, Holds
  <2>2. QED
    BY <1>1, <1>2, <2>1 DEF Count
<1>4. th[o].level > 0 /\ th[o].pc # "idle" => Below(th[o].c, th[o].level)'
  BY <1>1 DEF ThreadShape, Below, LevelsKept
<1>5. Splits(o) => /\ th[o].new \in Pages' \ {1, th[o].at}
                   /\ page'[th[o].at].sib = th[o].new
                   /\ page'[th[o].new].level = page'[th[o].at].level
  BY <1>1, <1>2 DEF ThreadShape, Splits, Holds, LevelsKept
<1>6. /\ th[o].at \in Pages' /\ page'[th[o].at].level = page[th[o].at].level
      /\ page[th[o].at].sib # Null => page'[th[o].at].sib # Null
      /\ Holds(o) => lock'[th[o].at] = o
  BY <1>1, <1>2 DEF LevelsKept
<1>7. QED
  BY <1>1, <1>3, <1>4, <1>5, <1>6 DEF ThreadShape, Holds, Splits, Below, Count

LEMMA PageKept ==
  ASSUME Shape, LevelsKept, NEW q \in Pages,
         page'[q].left = page[q].left,
         \/ page'[q].sib = page[q].sib
         \/ /\ page'[q].sib \in Pages' \ {1}
            /\ page'[page'[q].sib].level = page[q].level,
         q # 1 => Len(page'[q].ents) > 0,
         ~Leaf(q) => \A i \in 1 .. Len(page'[q].ents) :
           \/ \E j \in 1 .. Count(q) : page'[q].ents[i].c = page[q].ents[j].c
           \/ Below(page'[q].ents[i].c, page[q].level)
  PROVE  PageShape(q)'
<1>1. PageShape(q)
  BY DEF Shape
<1>2. page'[q].level = page[q].level /\ q \in Pages'
  BY DEF LevelsKept
<1>3. page'[q].sib # Null => /\ page'[q].sib \in Pages' \ {1}
                             /\ page'[page'[q].sib].level = page'[q].level
  BY <1>1, <1>2 DEF PageShape, LevelsKept
<1>4. ~Leaf(q) =>
        /\ page'[q].left \in Pages' /\ page'[page'[q].left].level + 1 = page'[q].level
        /\ \A i \in 1 .. Len(page'[q].ents) :
             /\ page'[q].ents[i].c \in Pages'
             /\ page'[page'[q].ents[i].c].level + 1 = page'[q].level
  <2> HAVE ~Leaf(q)
  <2>1. /\ Below(page[q].left, page[q].level)
        /\ \A j \in 1 .. Count(q) : Below(page[q].ents[j].c, page[q].level)
    BY <1>1 DEF PageShape
  <2>2. \A i \in 1 .. Len(page'[q].ents) : Below(page'[q].ents[i].c, page[q].level)
    BY <2>1
  <2>3. QED
    BY <1>2, <2>1, <2>2 DEF Below, LevelsKept
<1>5. /\ (page'[q].level = 0) <=> page'[q].left = Null
      /\ q = 1 => page'[q].level = 0
  BY <1>1, <1>2 DEF PageShape, Leaf
<1>6. QED
  BY <1>2, <1>3, <1>4, <1>5 DEF PageShape, Leaf, Below, Count

(* No other thread loses its lock.                                         *)
LocksKept(b) ==
  \A q \in Pages, o \in Backend \ {b} : lock[q] = o => lock'[q] = o

LEMMA LocksStay ==
  ASSUME Types, NEW b \in Backend, NEW p \in Pages, lock[p] \in {b, Nobody},
         NEW y, lock' = [lock EXCEPT ![p] = y]
  PROVE  LocksKept(b) /\ lock'[p] = y
<1>1. Nobody \notin Backend /\ DOMAIN lock = Pages
  BY PageTypes, BTreeAssumption DEF Nobody
<1>2. QED
  BY <1>1 DEF LocksKept

LEMMA ShapeMove ==
  ASSUME Shape, SamePages, Types', Pages' = Pages, NEW b \in Backend, OnlyMoves(b),
         LocksKept(b), ThreadShape(b)'
  PROVE  Shape'
<1>1. LevelsKept /\ \A q \in Pages : page'[q] = page[q]
  BY DEF LevelsKept, SamePages
<1>2. \A q \in Pages' : PageShape(q)'
  BY <1>1 DEF Shape, SamePages, PageShape, Leaf, Below, Count, Pages
<1>3. \A o \in Backend \ {b} : ThreadShape(o)'
  BY <1>1, OtherShape DEF OnlyMoves, LocksKept
<1>4. QED
  BY <1>2, <1>3 DEF Shape

LEMMA ShapeBegin ==
  ASSUME Shape, NEW b \in Backend, Begin(b)
  PROVE  Shape'
<1>1. /\ Types' /\ Pages' = Pages /\ SamePages /\ OnlyMoves(b) /\ lock' = lock
      /\ th'[b].pc = "down" /\ th'[b].level = 0 /\ th'[b].at = root
  BY BeginEffect DEF Shape
<1>2. root \in Pages /\ page'[root].level >= 0
  BY <1>1, PageTypes DEF Shape, Types, SamePages
<1>3. ThreadShape(b)'
  BY <1>1, <1>2 DEF ThreadShape, Holds, Splits
<1>4. QED
  BY <1>1, <1>3, ShapeMove DEF LocksKept

LEMMA ShapeDown ==
  ASSUME Shape, NEW b \in Backend, Descends(b)
  PROVE  Shape'
<1> DEFINE q == th'[b].at
<1>1. /\ Types' /\ Pages' = Pages /\ SamePages /\ OnlyMoves(b) /\ lock' = lock
      /\ th[b].pc = "down" /\ th[b].level < page[th[b].at].level
      /\ th[b].at \in Pages /\ ~Leaf(th[b].at)
      /\ th'[b] = [th[b] EXCEPT !.at = q] /\ Leads(th[b].at, q)
  BY DownEffect
<1>2. Types /\ ThreadShape(b) /\ th[b].k \in Nat /\ th[b].level \in Nat
      /\ page[th[b].at].level \in Nat
  BY <1>1, ThreadTypes, PageTypes DEF Shape
<1>3. q \in Pages /\ page[q].level >= page[th[b].at].level - 1
  <2>1. /\ q \in Pages
        /\ page[q].level = page[th[b].at].level \/ page[q].level + 1 = page[th[b].at].level
    BY <1>1, <1>2 DEF Leads, Below
  <2>2. page[q].level \in Nat
    BY <1>2, <2>1, PageTypes
  <2> HIDE DEF q
  <2>3. QED
    BY <1>2, <2>1, <2>2
<1> HIDE DEF q
<1>4. /\ th'[b].pc = "down" /\ th'[b].at = q /\ th'[b].level = th[b].level
      /\ th'[b].c = th[b].c
  BY <1>1, <1>2, ThreadTypes DEF Thread
<1>5. th[b].level <= page[q].level
  BY SMTT(30), <1>1, <1>2, <1>3, PageTypes
<1>6. ThreadShape(b)'
  BY <1>1, <1>2, <1>3, <1>4, <1>5 DEF ThreadShape, Holds, Splits, SamePages, Below
<1>7. QED
  BY <1>1, <1>6, ShapeMove DEF LocksKept

LEMMA ShapeAcquire ==
  ASSUME Shape, NEW b \in Backend, Acquire(b)
  PROVE  Shape'
<1>1. /\ Types' /\ Pages' = Pages /\ SamePages /\ OnlyMoves(b)
      /\ th[b].pc = "down" /\ page[th[b].at].level <= th[b].level
      /\ lock[th[b].at] = Nobody /\ lock' = [lock EXCEPT ![th[b].at] = b]
      /\ th'[b] = [th[b] EXCEPT !.pc = "locked"]
  BY AcquireEffect
<1>2. /\ Types /\ ThreadShape(b) /\ th[b].at \in Pages
      /\ th[b].level \in Nat /\ page[th[b].at].level \in Nat
  BY ThreadTypes, PageTypes DEF Shape, ThreadShape
<1>3. /\ th'[b].pc = "locked" /\ th'[b].at = th[b].at /\ th'[b].level = th[b].level
      /\ th'[b].c = th[b].c
  BY <1>1, <1>2, ThreadTypes DEF Thread
<1>4. LocksKept(b) /\ lock'[th[b].at] = b
  BY <1>1, <1>2, LocksStay
<1>5. ThreadShape(b)'
  BY <1>1, <1>2, <1>3, <1>4 DEF ThreadShape, Holds, Splits, SamePages, Below
<1>6. QED
  BY <1>1, <1>4, <1>5, ShapeMove

LEMMA ShapeLetGo ==
  ASSUME Shape, NEW b \in Backend, LetGo(b)
  PROVE  Shape'
<1>1. /\ Types' /\ Pages' = Pages /\ SamePages /\ OnlyMoves(b)
      /\ th[b].pc = "locked" /\ MayGo(b)
      /\ lock' = [lock EXCEPT ![th[b].at] = Nobody]
      /\ th'[b] = [th[b] EXCEPT !.pc = "right"]
  BY LetGoEffect
<1>2. /\ Types /\ ThreadShape(b) /\ th[b].at \in Pages /\ lock[th[b].at] = b
      /\ page[th[b].at].sib # Null
  BY <1>1 DEF Shape, ThreadShape, Holds, MayGo, Beyond, Unsettled
<1>3. /\ th'[b].pc = "right" /\ th'[b].at = th[b].at /\ th'[b].level = th[b].level
      /\ th'[b].c = th[b].c
  BY <1>1, <1>2, ThreadTypes DEF Thread
<1>4. LocksKept(b)
  BY <1>1, <1>2, LocksStay
<1>5. ThreadShape(b)'
  BY <1>1, <1>2, <1>3 DEF ThreadShape, Holds, Splits, SamePages, Below
<1>6. QED
  BY <1>1, <1>4, <1>5, ShapeMove

LEMMA ShapeMoveRight ==
  ASSUME Shape, NEW b \in Backend, MoveRight(b)
  PROVE  Shape'
<1> DEFINE q == page[th[b].at].sib
<1>1. /\ Types' /\ Pages' = Pages /\ SamePages /\ OnlyMoves(b) /\ lock' = lock
      /\ th[b].pc = "right"
      /\ th'[b] = [th[b] EXCEPT !.at = q, !.pc = "down"]
  BY MoveRightEffect
<1>2. /\ Types /\ ThreadShape(b) /\ th[b].at \in Pages /\ q # Null
      /\ PageShape(th[b].at) /\ th[b].level \in Nat
  BY <1>1, ThreadTypes DEF Shape, ThreadShape
<1>3. q \in Pages /\ page[q].level = page[th[b].at].level
  BY <1>2 DEF PageShape
<1> HIDE DEF q
<1>4. /\ th'[b].pc = "down" /\ th'[b].at = q /\ th'[b].level = th[b].level
      /\ th'[b].c = th[b].c
  BY <1>1, <1>2, ThreadTypes DEF Thread
<1>5. th[b].level <= page[q].level
  BY <1>1, <1>2, <1>3 DEF ThreadShape
<1>6. ThreadShape(b)'
  BY <1>1, <1>2, <1>3, <1>4, <1>5 DEF ThreadShape, Holds, Splits, SamePages, Below
<1>7. QED
  BY <1>1, <1>6, ShapeMove DEF LocksKept

LEMMA ShapePostSplit ==
  ASSUME Shape, NEW b \in Backend, PostSplit(b)
  PROVE  Shape'
<1>1. /\ Types' /\ Pages' = Pages /\ SamePages /\ OnlyMoves(b)
      /\ th[b].pc = "grow" /\ root # th[b].at
      /\ lock' = [lock EXCEPT ![th[b].at] = Nobody]
      /\ th'[b] = [th[b] EXCEPT !.pc = "post", !.k = th[b].split, !.c = th[b].new,
                                !.level = page[th[b].at].level + 1]
  BY PostSplitEffect
<1>2. /\ Types /\ ThreadShape(b) /\ th[b].at \in Pages /\ lock[th[b].at] = b
      /\ th[b].new \in Pages /\ page[th[b].new].level = page[th[b].at].level
  BY <1>1 DEF Shape, ThreadShape, Holds, Splits
<1>3. /\ th'[b].pc = "post" /\ th'[b].at = th[b].at /\ th'[b].c = th[b].new
      /\ th'[b].level = page[th[b].at].level + 1
  BY <1>1, <1>2, ThreadTypes DEF Thread
<1>4. LocksKept(b)
  BY <1>1, <1>2, LocksStay
<1>5. ThreadShape(b)'
  BY <1>1, <1>2, <1>3 DEF ThreadShape, Holds, Splits, SamePages, Below
<1>6. QED
  BY <1>1, <1>4, <1>5, ShapeMove

LEMMA ShapePost ==
  ASSUME Shape, NEW b \in Backend, Post(b)
  PROVE  Shape'
<1>1. /\ Types' /\ Pages' = Pages /\ SamePages /\ OnlyMoves(b) /\ lock' = lock
      /\ th[b].pc = "post"
      /\ \/ th'[b] = Finished(b)
         \/ /\ th[b].level <= page[root].level
            /\ th'[b] = [th[b] EXCEPT !.pc = "down", !.at = root]
  BY PostEffect
<1>2. Types /\ ThreadShape(b) /\ th[b].at \in Pages /\ root \in Pages
  BY DEF Shape, ThreadShape, Types
<1>3. ThreadShape(b)'
  <2>1. CASE th'[b] = Finished(b)
    <3>1. th'[b].pc = "idle" /\ th'[b].at = th[b].at
      BY <1>2, <2>1, FinishedType
    <3>2. QED
      BY <1>1, <1>2, <3>1 DEF ThreadShape, Holds, Splits
  <2>2. CASE /\ th[b].level <= page[root].level
             /\ th'[b] = [th[b] EXCEPT !.pc = "down", !.at = root]
    <3>1. /\ th'[b].pc = "down" /\ th'[b].at = root /\ th'[b].level = th[b].level
          /\ th'[b].c = th[b].c
      BY <1>2, <2>2, ThreadTypes DEF Thread
    <3>2. QED
      BY <1>1, <1>2, <2>2, <3>1 DEF ThreadShape, Holds, Splits, SamePages, Below
  <2>3. QED
    BY <1>1, <2>1, <2>2
<1>4. QED
  BY <1>1, <1>3, ShapeMove DEF LocksKept

LEMMA ShapeStore ==
  ASSUME Shape, NEW b \in Backend, StoreFast(b)
  PROVE  Shape'
<1> DEFINE p == th[b].at
<1>1. /\ Types' /\ Pages' = Pages /\ root' = root /\ OnlyMoves(b)
      /\ th[b].pc = "locked" /\ p \in Pages
      /\ lock' = [lock EXCEPT ![p] = Nobody]
      /\ th'[b] = Finished(b)
      /\ \A q \in Pages :
           /\ SameTree(q) /\ page'[q].sib = page[q].sib
           /\ page'[q].ents = IF q = p THEN Inserted(page[q].ents, Entry(b))
                              ELSE page[q].ents
  BY StoreEffect
<1>2. /\ Types /\ ThreadShape(b) /\ lock[p] = b /\ th[b].level = page[p].level
      /\ Entry(b) \in Ent /\ Entry(b).c = th[b].c /\ th[b].level \in Nat
      /\ page[p].ents \in Seq(Ent) /\ Count(p) \in Nat
  BY <1>1, EntryType, ThreadTypes, PageTypes DEF Shape, ThreadShape, Holds
<1>3. LocksKept(b)
  BY <1>1, <1>2, LocksStay
<1>4. LevelsKept
  BY <1>1 DEF LevelsKept, SameTree
<1>5. /\ Len(page'[p].ents) = Count(p) + 1
      /\ \A i \in 1 .. Count(p) + 1 :
           \/ page'[p].ents[i] = Entry(b)
           \/ \E j \in 1 .. Count(p) : page'[p].ents[i] = page[p].ents[j]
  <2> DEFINE es == page[p].ents
             new == Inserted(es, Entry(b))
  <2>1. page'[p].ents = new
    BY <1>1
  <2>2. es \in Seq(Ent) /\ Entry(b) \in Ent /\ Count(p) = Len(es)
    BY <1>2 DEF Count
  <2>3. /\ Len(new) = Len(es) + 1
        /\ \A i \in 1 .. Len(es) + 1 :
             new[i] = Entry(b) \/ \E j \in 1 .. Len(es) : new[i] = es[j]
    BY <2>2, InsertedFacts
  <2>4. QED
    BY <2>1, <2>2, <2>3
<1>6. \A q \in Pages' : PageShape(q)'
  <2> SUFFICES ASSUME NEW q \in Pages PROVE PageShape(q)'
    BY <1>1
  <2>1. page'[q].left = page[q].left /\ page'[q].sib = page[q].sib /\ PageShape(q)
    BY <1>1 DEF SameTree, Shape
  <2>2. CASE q = p
    <3>1. Len(page'[q].ents) > 0
      BY <1>2, <1>5, <2>2
    <3>2. ~Leaf(q) => Below(th[b].c, page[q].level)
      BY <1>1, <1>2, <2>2 DEF ThreadShape, Leaf
    <3>3. ~Leaf(q) => \A i \in 1 .. Len(page'[q].ents) :
            \/ \E j \in 1 .. Count(q) : page'[q].ents[i].c = page[q].ents[j].c
            \/ Below(page'[q].ents[i].c, page[q].level)
      BY <1>2, <1>5, <2>2, <3>2
    <3>4. QED
      BY <1>4, <2>1, <3>1, <3>3, PageKept
  <2>3. CASE q # p
    <3>1. page'[q].ents = page[q].ents
      BY <1>1, <2>3
    <3>2. QED
      BY <1>4, <2>1, <3>1, PageKept DEF PageShape, Count
  <2>4. QED
    BY <2>2, <2>3
<1>7. \A o \in Backend \ {b} : ThreadShape(o)'
  <2> TAKE o \in Backend \ {b}
  <2>1. \A q \in Pages : lock[q] = o =>
          /\ lock'[q] = o /\ page'[q].sib = page[q].sib
          /\ Len(page'[q].ents) = Len(page[q].ents)
    BY <1>1, <1>2, <1>3 DEF LocksKept
  <2>2. \A q \in Pages : page[q].sib # Null => page'[q].sib # Null
    BY <1>1
  <2>3. QED
    BY <1>1, <1>4, <2>1, <2>2, OtherShape DEF OnlyMoves
<1>8. ThreadShape(b)'
  <2>1. th'[b].pc = "idle" /\ th'[b].at = p
    BY <1>1, <1>2, FinishedType
  <2>2. QED
    BY <1>1, <2>1 DEF ThreadShape, Holds, Splits
<1>9. QED
  BY <1>1, <1>6, <1>7, <1>8 DEF Shape

LEMMA ShapeSplit ==
  ASSUME Shape, NEW b \in Backend, SplitPage(b)
  PROVE  Shape'
<1> DEFINE p == th[b].at
           n == Len(page) + 1
           m == Count(p) \div 2
           d == IF Leaf(p) THEN m ELSE m + 1
<1>1. /\ Types' /\ Pages' = Pages \cup {n} /\ n \notin Pages /\ n # 1
      /\ root' = root /\ OnlyMoves(b)
      /\ th[b].pc = "locked" /\ p \in Pages
      /\ Count(p) >= 3 /\ m \in 1 .. Count(p) - 2
      /\ lock' = Append(lock, Nobody)
      /\ th'[b] = [th[b] EXCEPT !.pc = "cut", !.new = n, !.split = page[p].ents[m + 1].k,
                                !.cnt = Len(page'[n].ents)]
      /\ \A q \in Pages :
           /\ SameTree(q) /\ page'[q].ents = page[q].ents
           /\ page'[q].sib = IF q = p THEN n ELSE page[q].sib
      /\ Half(p, n)
  BY SplitEffect
<1>2. /\ Types /\ ThreadShape(b) /\ lock[p] = b /\ th[b].level = page[p].level
      /\ th[b].level \in Nat /\ Count(p) \in Nat /\ PageShape(p) /\ page[p].level \in Nat
  BY <1>1, ThreadTypes, PageTypes DEF Shape, ThreadShape, Holds
<1>3. \A q \in Pages : lock'[q] = lock[q]
  BY SMTT(30), <1>1, <1>2, Extended, PageTypes DEF Types
<1>4. LevelsKept
  BY <1>1 DEF LevelsKept, SameTree
<1>5. /\ page'[n].level = page[p].level /\ page'[n].sib = page[p].sib
      /\ Leaf(p) => page'[n].left = Null
      /\ ~Leaf(p) => page'[n].left = page[p].ents[m + 1].c
      /\ Len(page'[n].ents) = Count(p) - d
      /\ \A i \in 1 .. Count(p) - d : page'[n].ents[i] = page[p].ents[i + d]
  BY <1>1 DEF Half
<1>6. d \in 1 .. Count(p) - 1 /\ m + 1 \in 1 .. Count(p)
  BY <1>1, <1>2
<1>a. /\ p = th[b].at /\ n \in Pages' /\ n \notin Pages /\ n # Null
      /\ \A q \in Pages : q \in Pages'
  BY <1>1, <1>2, PageTypes DEF Null
<1>b. \A c, l : Below(c, l) => c \in Pages' /\ page'[c].level + 1 = l
  BY <1>4 DEF Below, LevelsKept
<1>c. Null \notin Pages
  BY <1>2, PageTypes DEF Null
<1> HIDE DEF p, n, m, d
<1>7. \A q \in Pages : PageShape(q)'
  <2> TAKE q \in Pages
  <2>1. page'[q].left = page[q].left /\ page'[q].ents = page[q].ents /\ PageShape(q)
    BY <1>1 DEF SameTree, Shape
  <2>2. \/ page'[q].sib = page[q].sib
        \/ page'[q].sib \in Pages' \ {1} /\ page'[page'[q].sib].level = page[q].level
    BY <1>1, <1>5
  <2>3. QED
    BY <1>4, <2>1, <2>2, PageKept DEF PageShape, Count
<1>8. \A x \in Pages' \ Pages : PageShape(x)'
  <2> TAKE x \in Pages' \ Pages
  <2>0. x = n
    BY <1>1
  <2>1. \A i \in 1 .. Count(p) - d : i + d \in 1 .. Count(p)
    BY <1>2, <1>6
  <2>2. Len(page'[n].ents) > 0
    BY <1>2, <1>5, <1>6
  <2>3. page'[n].sib # Null => /\ page'[n].sib \in Pages' \ {1}
                               /\ page'[page'[n].sib].level = page'[n].level
    BY <1>1, <1>2, <1>4, <1>5 DEF PageShape, LevelsKept
  <2>4. CASE Leaf(p)
    <3>1. page'[n].level = 0 /\ page'[n].left = Null
      BY <1>5, <2>4 DEF Leaf
    <3>2. QED
      BY <1>1, <2>0, <2>2, <2>3, <2>4, <3>1 DEF PageShape, Leaf, Count
  <2>5. CASE ~Leaf(p)
    <3>1. /\ Below(page[p].ents[m + 1].c, page[p].level)
          /\ \A i \in 1 .. Count(p) - d : Below(page[p].ents[i + d].c, page[p].level)
      BY <1>2, <1>6, <2>1, <2>5 DEF PageShape
    <3>2. page'[n].left \in Pages' /\ page'[page'[n].left].level + 1 = page'[n].level
      <4>1. page'[n].left = page[p].ents[m + 1].c /\ page'[n].level = page[p].level
        BY <1>5, <2>5
      <4>2. QED
        BY <1>b, <3>1, <4>1
    <3>3. \A i \in 1 .. Len(page'[n].ents) :
            /\ page'[n].ents[i].c \in Pages'
            /\ page'[page'[n].ents[i].c].level + 1 = page'[n].level
      <4> SUFFICES ASSUME NEW i \in 1 .. Count(p) - d
                   PROVE  /\ page'[n].ents[i].c \in Pages'
                          /\ page'[page'[n].ents[i].c].level + 1 = page'[n].level
        BY <1>5
      <4>1. page'[n].ents[i] = page[p].ents[i + d] /\ page'[n].level = page[p].level
        BY <1>5
      <4>2. Below(page[p].ents[i + d].c, page[p].level)
        BY <3>1
      <4>3. QED
        BY <1>b, <4>1, <4>2
    <3>4. page'[n].left # Null /\ page'[n].level # 0
      <4>1. page'[n].left \in Pages
        BY <1>5, <2>5, <3>1 DEF Below
      <4>2. QED
        BY <1>5, <1>c, <2>5, <4>1 DEF Leaf
    <3>5. QED
      BY <1>1, <2>0, <2>2, <2>3, <3>2, <3>3, <3>4 DEF PageShape, Leaf, Below, Count, Null
  <2>6. QED
    BY <2>4, <2>5
<1>9. \A o \in Backend \ {b} : ThreadShape(o)'
  <2> TAKE o \in Backend \ {b}
  <2>1. \A q \in Pages : lock[q] = o =>
          /\ lock'[q] = o /\ page'[q].sib = page[q].sib
          /\ Len(page'[q].ents) = Len(page[q].ents)
    BY <1>1, <1>2, <1>3
  <2>2. \A q \in Pages : page[q].sib # Null => page'[q].sib # Null
    BY <1>1, <1>a
  <2>3. QED
    BY <1>1, <1>4, <2>1, <2>2, OtherShape DEF OnlyMoves
<1>10. ThreadShape(b)'
  <2>1. /\ th'[b].pc = "cut" /\ th'[b].at = p /\ th'[b].level = th[b].level
        /\ th'[b].c = th[b].c /\ th'[b].new = n
    BY <1>1, <1>2, <1>a, ThreadTypes DEF Thread
  <2>2. /\ p \in Pages' /\ page'[p].level = page[p].level /\ lock'[p] = b
        /\ page'[p].sib = n /\ n \in Pages' \ {1, p} /\ Len(page'[p].ents) >= 3
    BY <1>1, <1>2, <1>3, <1>4 DEF LevelsKept, Count
  <2>3. th[b].level > 0 => /\ th[b].c \in Pages'
                           /\ page'[th[b].c].level + 1 = th[b].level
    BY <1>1, <1>2, <1>4 DEF ThreadShape, Below, LevelsKept
  <2>4. QED
    BY <1>2, <1>5, <1>a, <2>1, <2>2, <2>3 DEF ThreadShape, Holds, Splits, Below, Count
<1>11. \A q \in Pages' : PageShape(q)'
  BY <1>1, <1>7, <1>8
<1>12. \A o \in Backend : ThreadShape(o)'
  BY <1>9, <1>10
<1>13. QED
  BY <1>1, <1>11, <1>12 DEF Shape

LEMMA ShapeCut ==
  ASSUME Shape, NEW b \in Backend, CutPage(b)
  PROVE  Shape'
<1> DEFINE p == th[b].at
           n == th[b].new
           low == LowHalf(p)
           e == Entry(b)
           FromBelow(q, es) ==
             /\ Len(es) > 0
             /\ ~Leaf(q) => \A i \in 1 .. Len(es) :
                  \/ \E j \in 1 .. Count(q) : es[i].c = page[q].ents[j].c
                  \/ Below(es[i].c, page[q].level)
<1>1. /\ Types' /\ Pages' = Pages /\ root' = root /\ OnlyMoves(b) /\ lock' = lock
      /\ th[b].pc = "cut" /\ p \in Pages /\ n \in Pages /\ n # p /\ Count(p) >= 3
      /\ th'[b] = [th[b] EXCEPT !.pc = "grow"]
      /\ \A q \in Pages : SameTree(q) /\ page'[q].sib = page[q].sib
      /\ \A q \in Pages \ {p, n} : page'[q].ents = page[q].ents
      /\ \/ /\ page'[p].ents = Inserted(low, e)
            /\ page'[n].ents = page[n].ents
         \/ /\ page'[p].ents = low
            /\ page'[n].ents = InsertedAtCount(page[n].ents, th[b].cnt, e)
  BY CutChanges
<1>2. /\ Types /\ ThreadShape(b) /\ lock[p] = b /\ th[b].level = page[p].level
      /\ n # 1 /\ page[p].sib = n /\ page[n].level = page[p].level /\ PageShape(n)
  BY <1>1 DEF Shape, ThreadShape, Holds, Splits
<1>3. /\ e \in Ent /\ e.c = th[b].c /\ page[n].ents \in Seq(Ent) /\ Count(p) \in Nat
      /\ Count(n) \in Nat /\ Count(n) > 0 /\ th[b].level \in Nat
      /\ th[b].cnt \in Nat
  BY <1>1, <1>2, EntryType, PageTypes, ThreadTypes DEF PageShape
<1>4. LevelsKept
  BY <1>1 DEF LevelsKept, SameTree
<1>5. ~Leaf(p) => Below(e.c, page[p].level)
  BY <1>1, <1>2, <1>3 DEF ThreadShape, Leaf
<1>6. \E m \in 1 .. Count(p) - 2 : /\ Len(low) = m /\ low \in Seq(Ent)
                                   /\ \A i \in 1 .. m : low[i] = page[p].ents[i]
  BY <1>1, <1>2, LowFacts
<1>7. PICK m \in 1 .. Count(p) - 2 : /\ Len(low) = m /\ low \in Seq(Ent)
                                     /\ \A i \in 1 .. m : low[i] = page[p].ents[i]
  BY <1>6
<1> HIDE DEF low, e
<1>8. FromBelow(p, low) /\ FromBelow(p, Inserted(low, e))
  <2> DEFINE new == Inserted(low, e)
  <2>1. /\ Len(new) = m + 1
        /\ \A i \in 1 .. m + 1 : new[i] = e \/ \E j \in 1 .. m : new[i] = low[j]
    BY <1>3, <1>7, InsertedFacts
  <2> HIDE DEF new
  <2>2. \A i \in 1 .. m : i \in 1 .. Count(p) /\ low[i].c = page[p].ents[i].c
    BY <1>3, <1>7
  <2>3. FromBelow(p, low)
    BY <1>7, <2>2
  <2>4. FromBelow(p, new)
    <3>1. \A i \in 1 .. m + 1 :
            new[i] = e \/ \E j \in 1 .. Count(p) : new[i].c = page[p].ents[j].c
      BY <2>1, <2>2
    <3>2. Len(new) > 0 /\ 1 .. Len(new) = 1 .. m + 1
      BY <2>1
    <3>3. QED
      BY <1>5, <3>1, <3>2
  <2>5. QED
    BY <2>3, <2>4 DEF new
<1>9. FromBelow(n, page[n].ents) /\ FromBelow(n, InsertedAtCount(page[n].ents, th[b].cnt, e))
  <2> DEFINE es == page[n].ents
             new == InsertedAtCount(es, th[b].cnt, e)
  <2>0. es \in Seq(Ent) /\ e \in Ent /\ Len(es) \in Nat /\ Len(es) > 0 /\ Count(n) = Len(es)
    BY <1>3 DEF Count
  <2>1. /\ Len(new) > 0
        /\ \A i \in 1 .. Len(new) :
             new[i].c = e.c \/ \E j \in 1 .. Len(es) : new[i].c = es[j].c
    BY <1>3, <2>0, InsertedAtCountFacts
  <2> HIDE DEF new
  <2>2. FromBelow(n, es)
    BY <2>0
  <2>3. ~Leaf(n) => Below(e.c, page[n].level)
    BY <1>2, <1>5 DEF Leaf
  <2>4. FromBelow(n, new)
    <3>1. ~Leaf(n) => \A i \in 1 .. Len(new) :
            \/ \E j \in 1 .. Count(n) : new[i].c = page[n].ents[j].c
            \/ Below(new[i].c, page[n].level)
      BY <2>0, <2>1, <2>3
    <3> HIDE DEF es
    <3>2. QED
      BY <2>1, <3>1
  <2>5. QED
    BY <2>2, <2>4 DEF new
<1> HIDE DEF FromBelow
<1>10. FromBelow(p, page'[p].ents) /\ FromBelow(n, page'[n].ents)
  BY <1>1, <1>8, <1>9
<1> USE DEF FromBelow
<1>11. \A q \in Pages' : PageShape(q)'
  <2> SUFFICES ASSUME NEW q \in Pages PROVE PageShape(q)'
    BY <1>1
  <2>1. page'[q].left = page[q].left /\ page'[q].sib = page[q].sib /\ PageShape(q)
    BY <1>1 DEF SameTree, Shape
  <2>2. q # 1 => Len(page'[q].ents) > 0
    BY <1>1, <1>10, <2>1 DEF PageShape, Count
  <2>3. ~Leaf(q) => \A i \in 1 .. Len(page'[q].ents) :
          \/ \E j \in 1 .. Count(q) : page'[q].ents[i].c = page[q].ents[j].c
          \/ Below(page'[q].ents[i].c, page[q].level)
    <3>1. CASE q = p \/ q = n
      BY <1>10, <3>1
    <3>2. CASE q # p /\ q # n
      BY <1>1, <3>2 DEF Count
    <3>3. QED
      BY <3>1, <3>2
  <2>4. QED
    BY <1>4, <2>1, <2>2, <2>3, PageKept
<1>12. Len(page'[n].ents) \in Nat /\ Len(page'[n].ents) >= Count(n)
  <2> DEFINE new == InsertedAtCount(page[n].ents, th[b].cnt, e)
  <2>1. new \in Seq(Ent) /\ Len(new) >= Count(n)
    BY <1>3, InsertedAtCountFacts DEF Count
  <2>2. Len(new) \in Nat
    BY <2>1, LenProperties
  <2> HIDE DEF new
  <2>3. page'[n].ents = page[n].ents \/ page'[n].ents = new
    BY <1>1 DEF new
  <2>4. QED
    BY <1>3, <2>1, <2>2, <2>3 DEF Count
<1>13. \A o \in Backend \ {b} : ThreadShape(o)'
  <2> TAKE o \in Backend \ {b}
  <2>1. ASSUME NEW q \in Pages, lock[q] = o
        PROVE  /\ lock'[q] = o /\ page'[q].sib = page[q].sib
               /\ \/ Len(page'[q].ents) = Len(page[q].ents)
                  \/ Len(page'[q].ents) \in Nat /\ Len(page'[q].ents) >= Len(page[q].ents)
    BY <1>1, <1>2, <1>12, <2>1 DEF Count
  <2>2. \A q \in Pages : page[q].sib # Null => page'[q].sib # Null
    BY <1>1
  <2>3. QED
    BY <1>1, <1>4, <2>1, <2>2, OtherShape DEF OnlyMoves
<1>14. ThreadShape(b)'
  <2>1. /\ th'[b].pc = "grow" /\ th'[b].at = p /\ th'[b].level = th[b].level
        /\ th'[b].c = th[b].c /\ th'[b].new = n
    BY <1>1, <1>2, ThreadTypes DEF Thread
  <2>2. th[b].level > 0 => /\ th[b].c \in Pages'
                           /\ page'[th[b].c].level + 1 = th[b].level
    BY <1>1, <1>2, <1>4 DEF ThreadShape, Below, LevelsKept
  <2>3. /\ page'[p].level = page[p].level /\ page'[n].level = page[p].level
        /\ page'[p].sib = n /\ lock'[p] = b
    BY <1>1, <1>2, <1>4 DEF LevelsKept
  <2>4. QED
    BY <1>1, <1>2, <2>1, <2>2, <2>3 DEF ThreadShape, Holds, Splits, Below
<1>15. QED
  BY <1>1, <1>11, <1>13, <1>14 DEF Shape

LEMMA ShapeGrow ==
  ASSUME Shape, NEW b \in Backend, GrowRoot(b)
  PROVE  Shape'
<1> DEFINE p == th[b].at
           n == Len(page) + 1
<1>1. /\ Types' /\ Pages' = Pages \cup {n} /\ n \notin Pages /\ n # 1
      /\ root = p /\ root' = n /\ OnlyMoves(b)
      /\ th[b].pc = "grow" /\ p \in Pages
      /\ lock' = Append([lock EXCEPT ![p] = Nobody], Nobody)
      /\ th'[b] = Finished(b)
      /\ \A q \in Pages : page'[q] = page[q]
      /\ page'[n].level = page[p].level + 1 /\ page'[n].left = p
      /\ page'[n].sib = Null /\ Len(page'[n].ents) = 1
      /\ page'[n].ents[1].c = th[b].new
  BY GrowEffect
<1>2. /\ Types /\ ThreadShape(b) /\ lock[p] = b
      /\ th[b].new \in Pages /\ page[th[b].new].level = page[p].level
      /\ page[p].level \in Nat /\ p # Null
  BY <1>1, PageTypes DEF Shape, ThreadShape, Holds, Splits, Null
<1>3. \A q \in Pages : lock'[q] = IF q = p THEN Nobody ELSE lock[q]
  <2>1. p \in 1 .. Len(lock) /\ lock \in Seq(Backend \cup {Nobody}) /\ Pages = 1 .. Len(lock)
    BY <1>1, <1>2, PageTypes DEF Types
  <2>2. /\ [lock EXCEPT ![p] = Nobody] \in Seq(Backend \cup {Nobody})
        /\ Len([lock EXCEPT ![p] = Nobody]) = Len(lock)
        /\ \A q \in 1 .. Len(lock) : [lock EXCEPT ![p] = Nobody][q] =
                                       IF q = p THEN Nobody ELSE lock[q]
    BY <2>1, Rewritten
  <2>3. QED
    BY <1>1, <2>1, <2>2, Extended
<1>4. LevelsKept
  BY <1>1 DEF LevelsKept
<1>5. p = th[b].at /\ \A q \in Pages : q \in Pages'
  BY <1>1
<1> HIDE DEF p, n
<1>6. \A q \in Pages : PageShape(q)'
  <2> TAKE q \in Pages
  <2>1. page'[q] = page[q] /\ PageShape(q)
    BY <1>1 DEF Shape
  <2>2. QED
    BY <1>4, <2>1, PageKept DEF PageShape, Count
<1>7. \A x \in Pages' \ Pages : PageShape(x)'
  <2> TAKE x \in Pages' \ Pages
  <2>1. /\ x = n /\ page'[p].level = page[p].level
        /\ page'[th[b].new].level = page[p].level /\ p \in Pages' /\ th[b].new \in Pages'
    BY <1>1, <1>2, <1>5
  <2>2. /\ page'[x].level = page[p].level + 1 /\ page'[x].left = p
        /\ page'[x].sib = Null /\ Len(page'[x].ents) = 1
        /\ \A i \in 1 .. 1 : page'[x].ents[i].c = th[b].new
    BY <1>1, <2>1
  <2>3. page'[x].level # 0 /\ x # 1
    BY <1>1, <1>2, <2>1, <2>2
  <2>4. QED
    BY <1>2, <2>1, <2>2, <2>3 DEF PageShape, Leaf, Below, Count
<1>8. \A o \in Backend \ {b} : ThreadShape(o)'
  <2> TAKE o \in Backend \ {b}
  <2>1. \A q \in Pages : lock[q] = o =>
          /\ lock'[q] = o /\ page'[q].sib = page[q].sib
          /\ Len(page'[q].ents) = Len(page[q].ents)
    BY <1>1, <1>2, <1>3
  <2>2. \A q \in Pages : page[q].sib # Null => page'[q].sib # Null
    BY <1>1
  <2>3. QED
    BY <1>1, <1>4, <2>1, <2>2, OtherShape DEF OnlyMoves
<1>9. ThreadShape(b)'
  <2>1. th'[b].pc = "idle" /\ th'[b].at = p
    BY <1>1, <1>2, <1>5, FinishedType
  <2>2. QED
    BY <1>1, <1>5, <2>1 DEF ThreadShape, Holds, Splits
<1>10. \A q \in Pages' : PageShape(q)'
  BY <1>1, <1>6, <1>7
<1>11. QED
  BY <1>1, <1>8, <1>9, <1>10 DEF Shape

LEMMA ShapeInit ==
  ASSUME Init
  PROVE  Shape
<1> DEFINE r == [level |-> 0, left |-> Null, ents |-> << >>, sib |-> Null]
<1>1. page = << r >> /\ r \in PageRec /\ lock = << Nobody >>
  BY DEF Init, PageRec, Null
<1>2. page \in Seq(PageRec) /\ Pages = {1} /\ Len(page) = 1 /\ page[1] = r
  BY <1>1 DEF Pages
<1>3. lock \in Seq(Backend \cup {Nobody}) /\ Len(lock) = 1
  BY <1>1
<1>4. th \in [Backend -> Thread] /\ root = 1
  BY DEF Init, Thread, Child, Null
<1>5. Types
  BY <1>2, <1>3, <1>4 DEF Types
<1>6. \A q \in Pages : PageShape(q)
  BY <1>2 DEF PageShape, Leaf, Count, Below, Null
<1>7. \A b \in Backend : th[b].pc = "idle" /\ th[b].at = 1
  BY DEF Init
<1>8. \A b \in Backend : ThreadShape(b)
  BY <1>2, <1>7 DEF ThreadShape, Holds, Splits
<1>9. QED
  BY <1>5, <1>6, <1>8 DEF Shape

LEMMA ShapeStep ==
  ASSUME Shape, [Next]_vars
  PROVE  Shape'
<1>1. ASSUME NEW b \in Backend, Step(b) PROVE Shape'
  BY <1>1, ShapeBegin, ShapeDown, ShapeAcquire, ShapeLetGo, ShapeMoveRight, ShapeStore,
     ShapeSplit, ShapeCut, ShapeGrow, ShapePostSplit, ShapePost DEF Step, Descends
<1>2. ASSUME UNCHANGED vars PROVE Shape'
  BY <1>2 DEF vars, Shape, Types, Pages, PageShape, ThreadShape, Leaf, Below, Count,
              Holds, Splits
<1>3. QED
  BY <1>1, <1>2 DEF Next

-----------------------------------------------------------------------------
(* The height of the tree.                                                 *)

LEMMA RootSplitter ==
  ASSUME Shape, NEW o \in Backend, SplitsRoot(o)
  PROVE  /\ lock[root] = o /\ th[o].at = root /\ page[root].sib = th[o].new
         /\ th[o].new \in Pages \ {root}
         /\ page[th[o].new].level = page[root].level
BY DEF Shape, ThreadShape, SplitsRoot, Splits, Holds

(* A thread that is not on its way down is not in the root's new sibling.  *)
LEMMA NotBesideRoot ==
  ASSUME Shape, HeightInv, NEW b \in Backend, th[b].at # root,
         \/ th[b].pc # "down"
         \/ th[b].level >= page[root].level
  PROVE  /\ \A o \in Backend : SplitsRoot(o) => th[b].at # th[o].new
         /\ page[th[b].at].level < page[root].level
<1>1. /\ th[b].at \in Pages /\ root \in Pages /\ th[b].level \in Nat
      /\ page[th[b].at].level \in Nat /\ page[root].level \in Nat
  BY PageTypes, ThreadTypes DEF Shape, Types, ThreadShape
<1>2. \A o \in Backend : SplitsRoot(o) => th[b].at # th[o].new
  BY <1>1 DEF HeightInv
<1>3. page[th[b].at].level <= page[root].level
  BY <1>1 DEF HeightInv
<1>4. page[th[b].at].level # page[root].level
  BY <1>1, <1>2 DEF HeightInv
<1>5. QED
  BY <1>1, <1>2, <1>3, <1>4

LEMMA HeightFrame ==
  ASSUME Shape, HeightInv, NEW b \in Backend, OnlyMoves(b),
         Pages' = Pages, root' = root,
         \A q \in Pages : page'[q].level = page[q].level /\ page'[q].sib = page[q].sib,
         SplitsRoot(b)' <=> SplitsRoot(b), SplitsRoot(b) => th'[b].new = th[b].new,
         \A o \in Backend : SplitsRoot(o) /\ th'[b].at = th[o].new =>
           th'[b].pc = "down" /\ th'[b].level < page[root].level,
         th'[b].pc = "right" => th'[b].at # root,
         th'[b].pc = "post" => th'[b].level <= page[root].level
  PROVE  HeightInv'
<1>1. root \in Pages /\ page'[root].level = page[root].level /\ page'[root].sib = page[root].sib
  BY DEF Shape, Types
<1>2. \A o \in Backend : /\ SplitsRoot(o)' <=> SplitsRoot(o)
                         /\ SplitsRoot(o) => th'[o].new = th[o].new
  BY DEF OnlyMoves, SplitsRoot, Splits
<1>3. \A p \in Pages' : page'[p].level <= page'[root'].level
  BY <1>1 DEF HeightInv
<1>4. \A p \in Pages' : p # root' /\ page'[p].level = page'[root'].level =>
        \E o \in Backend : SplitsRoot(o)' /\ th'[o].new = p
  BY <1>1, <1>2 DEF HeightInv
<1>5. page'[root'].sib # Null => \E o \in Backend : SplitsRoot(o)'
  BY <1>1, <1>2 DEF HeightInv
<1>6. \A o \in Backend : SplitsRoot(o)' =>
        /\ page'[th'[o].new].sib = Null
        /\ \A c \in Backend : th'[c].at = th'[o].new =>
             th'[c].pc = "down" /\ th'[c].level < page'[root'].level
  <2> TAKE o \in Backend
  <2> HAVE SplitsRoot(o)'
  <2>1. SplitsRoot(o) /\ th'[o].new = th[o].new /\ th[o].new \in Pages
    BY <1>2, RootSplitter
  <2>2. page'[th'[o].new].sib = Null
    BY <2>1 DEF HeightInv
  <2>3. ASSUME NEW c \in Backend, th'[c].at = th'[o].new
        PROVE  th'[c].pc = "down" /\ th'[c].level < page'[root'].level
    <3>1. CASE c = b
      BY <1>1, <2>1, <2>3, <3>1
    <3>2. CASE c # b
      BY <1>1, <2>1, <2>3, <3>2 DEF HeightInv, OnlyMoves
    <3>3. QED
      BY <3>1, <3>2
  <2>4. QED
    BY <2>2, <2>3
<1>7. \A o \in Backend : /\ th'[o].pc = "right" => th'[o].at # root'
                         /\ th'[o].pc = "post" => th'[o].level <= page'[root'].level
  <2> TAKE o \in Backend
  <2>1. CASE o = b
    BY <1>1, <2>1
  <2>2. CASE o # b
    BY <1>1, <2>2 DEF HeightInv, OnlyMoves
  <2>3. QED
    BY <2>1, <2>2
<1>8. QED
  BY <1>3, <1>4, <1>5, <1>6, <1>7 DEF HeightInv

(* Steps that read the tree only.                                          *)
LEMMA HeightMove ==
  ASSUME Shape, HeightInv, NEW b \in Backend,
         Begin(b) \/ Descends(b) \/ Acquire(b) \/ LetGo(b) \/ MoveRight(b) \/ PostSplit(b)
           \/ Post(b)
  PROVE  HeightInv'
<1>0. /\ Types /\ ThreadShape(b) /\ th[b].at \in Pages /\ root \in Pages
      /\ page[th[b].at].level \in Nat /\ page[root].level \in Nat /\ th[b].level \in Nat
      /\ page[th[b].at].level <= page[root].level
  BY PageTypes, ThreadTypes DEF Shape, Types, ThreadShape, HeightInv
<1> DEFINE Fine ==
             /\ \A o \in Backend : SplitsRoot(o) /\ th'[b].at = th[o].new =>
                  th'[b].pc = "down" /\ th'[b].level < page[root].level
             /\ th'[b].pc = "right" => th'[b].at # root
             /\ th'[b].pc = "post" => th'[b].level <= page[root].level
           Quiet == /\ Pages' = Pages /\ SamePages /\ OnlyMoves(b)
                    /\ ~SplitsRoot(b) /\ ~Splits(b)'
<1>1. ASSUME Quiet, Fine PROVE HeightInv'
  <2>1. ~SplitsRoot(b)'
    BY <1>1 DEF SplitsRoot
  <2>2. QED
    BY <1>1, <2>1, HeightFrame DEF SamePages
<1>2. ASSUME Begin(b) PROVE Quiet /\ Fine
  <2>1. /\ Pages' = Pages /\ SamePages /\ OnlyMoves(b) /\ th[b].pc = "idle"
        /\ th'[b].pc = "down" /\ th'[b].at = root
    BY <1>0, <1>2, BeginEffect DEF Begin
  <2>2. QED
    BY <2>1, RootSplitter DEF SplitsRoot, Splits
<1>3. ASSUME Descends(b) PROVE Quiet /\ Fine
  <2> DEFINE q == th'[b].at
  <2>1. /\ Pages' = Pages /\ SamePages /\ OnlyMoves(b)
        /\ th[b].pc = "down" /\ th[b].level < page[th[b].at].level
        /\ th'[b] = [th[b] EXCEPT !.at = q]
    BY <1>3, DownEffect
  <2> HIDE DEF q
  <2>2. th'[b].pc = "down" /\ th'[b].level = th[b].level
    BY <1>0, <2>1, ThreadTypes DEF Thread
  <2>3. th[b].level < page[root].level
    BY <1>0, <2>1
  <2>4. QED
    BY <2>1, <2>2, <2>3 DEF SplitsRoot, Splits
<1>4. ASSUME Acquire(b) PROVE Quiet /\ Fine
  <2>1. /\ Pages' = Pages /\ SamePages /\ OnlyMoves(b)
        /\ th[b].pc = "down" /\ page[th[b].at].level <= th[b].level
        /\ th'[b] = [th[b] EXCEPT !.pc = "locked"]
    BY <1>4, AcquireEffect
  <2>2. th'[b].pc = "locked" /\ th'[b].at = th[b].at
    BY <1>0, <2>1, ThreadTypes DEF Thread
  <2>3. ASSUME NEW o \in Backend, SplitsRoot(o), th[b].at = th[o].new PROVE FALSE
    <3>1. page[th[b].at].level = page[root].level /\ th[b].level < page[root].level
      BY <2>3, RootSplitter DEF HeightInv
    <3>2. QED
      BY <1>0, <2>1, <3>1
  <2>4. QED
    BY <2>1, <2>2, <2>3 DEF SplitsRoot, Splits
<1>5. ASSUME LetGo(b) PROVE Quiet /\ Fine
  <2>1. /\ Pages' = Pages /\ SamePages /\ OnlyMoves(b)
        /\ th[b].pc = "locked" /\ MayGo(b)
        /\ th'[b] = [th[b] EXCEPT !.pc = "right"]
    BY <1>5, LetGoEffect
  <2>2. th'[b].pc = "right" /\ th'[b].at = th[b].at
    BY <1>0, <2>1, ThreadTypes DEF Thread
  <2>3. th[b].at # root
    <3> SUFFICES ASSUME th[b].at = root PROVE FALSE
      OBVIOUS
    <3>1. page[root].sib # Null /\ lock[root] = b
      BY <1>0, <2>1 DEF MayGo, Beyond, Unsettled, ThreadShape, Holds
    <3>2. PICK o \in Backend : SplitsRoot(o)
      BY <3>1 DEF HeightInv
    <3>3. o = b
      BY <3>1, <3>2, RootSplitter
    <3>4. QED
      BY <2>1, <3>2, <3>3 DEF SplitsRoot, Splits
  <2>4. \A o \in Backend : SplitsRoot(o) => th[b].at # th[o].new
    BY <2>1, <2>3, NotBesideRoot
  <2>5. QED
    BY <2>1, <2>2, <2>3, <2>4 DEF SplitsRoot, Splits
<1>6. ASSUME MoveRight(b) PROVE Quiet /\ Fine
  <2> DEFINE q == page[th[b].at].sib
  <2>1. /\ Pages' = Pages /\ SamePages /\ OnlyMoves(b) /\ th[b].pc = "right"
        /\ th'[b] = [th[b] EXCEPT !.at = q, !.pc = "down"]
    BY <1>6, MoveRightEffect
  <2>2. q # Null /\ PageShape(th[b].at)
    BY <1>0, <2>1 DEF ThreadShape, Shape
  <2>3. page[q].level = page[th[b].at].level
    BY <2>2 DEF PageShape
  <2> HIDE DEF q
  <2>4. th'[b].pc = "down" /\ th'[b].at = q
    BY <1>0, <2>1, ThreadTypes DEF Thread
  <2>5. page[th[b].at].level < page[root].level
    BY <2>1, NotBesideRoot DEF HeightInv
  <2>6. ASSUME NEW o \in Backend, SplitsRoot(o), q = th[o].new PROVE FALSE
    <3>1. page[q].level = page[root].level
      BY <2>6, RootSplitter
    <3>2. QED
      BY <1>0, <2>3, <2>5, <3>1
  <2>7. QED
    BY <2>1, <2>4, <2>6 DEF SplitsRoot, Splits
<1>7. ASSUME PostSplit(b) PROVE Quiet /\ Fine
  <2>1. /\ Pages' = Pages /\ SamePages /\ OnlyMoves(b)
        /\ th[b].pc = "grow" /\ root # th[b].at
        /\ th'[b] = [th[b] EXCEPT !.pc = "post", !.k = th[b].split, !.c = th[b].new,
                                  !.level = page[th[b].at].level + 1]
    BY <1>7, PostSplitEffect
  <2>2. /\ th'[b].pc = "post" /\ th'[b].at = th[b].at
        /\ th'[b].level = page[th[b].at].level + 1
    BY <1>0, <2>1, ThreadTypes DEF Thread
  <2>3. /\ \A o \in Backend : SplitsRoot(o) => th[b].at # th[o].new
        /\ page[th[b].at].level < page[root].level
    BY <2>1, NotBesideRoot
  <2>4. th'[b].level <= page[root].level
    BY <1>0, <2>2, <2>3
  <2>5. QED
    BY <2>1, <2>2, <2>3, <2>4 DEF SplitsRoot, Splits
<1>8. ASSUME Post(b) PROVE Quiet /\ Fine
  <2>1. /\ Pages' = Pages /\ SamePages /\ OnlyMoves(b) /\ th[b].pc = "post"
        /\ \/ th'[b] = Finished(b)
           \/ th'[b] = [th[b] EXCEPT !.pc = "down", !.at = root]
    BY <1>8, PostEffect
  <2>2. \/ th'[b].pc = "idle" /\ th'[b].at = th[b].at
        \/ th'[b].pc = "down" /\ th'[b].at = root
    <3>1. CASE th'[b] = Finished(b)
      BY <1>0, <3>1, FinishedType
    <3>2. CASE th'[b] = [th[b] EXCEPT !.pc = "down", !.at = root]
      BY <1>0, <3>2, ThreadTypes DEF Thread
    <3>3. QED
      BY <2>1, <3>1, <3>2
  <2>3. \A o \in Backend : SplitsRoot(o) => th[b].at # th[o].new
    BY <2>1 DEF HeightInv
  <2>4. QED
    BY <2>1, <2>2, <2>3, RootSplitter DEF SplitsRoot, Splits
<1> HIDE DEF Quiet, Fine
<1>9. QED
  BY <1>1, <1>2, <1>3, <1>4, <1>5, <1>6, <1>7, <1>8

LEMMA HeightStore ==
  ASSUME Shape, HeightInv, NEW b \in Backend, StoreFast(b) \/ CutPage(b)
  PROVE  HeightInv'
<1>1. CASE StoreFast(b)
  <2>1. /\ Types /\ Pages' = Pages /\ root' = root /\ OnlyMoves(b)
        /\ th[b].pc = "locked" /\ th'[b] = Finished(b)
        /\ \A q \in Pages : SameTree(q) /\ page'[q].sib = page[q].sib
    BY <1>1, StoreEffect DEF Shape
  <2>2. th'[b].pc = "idle" /\ th'[b].at = th[b].at
    BY <2>1, FinishedType
  <2>3. \A o \in Backend : SplitsRoot(o) => th[b].at # th[o].new
    BY <2>1 DEF HeightInv
  <2>4. ~SplitsRoot(b) /\ ~SplitsRoot(b)'
    BY <2>1, <2>2 DEF SplitsRoot, Splits
  <2>5. QED
    BY <2>1, <2>2, <2>3, <2>4, HeightFrame DEF SameTree
<1>2. CASE CutPage(b)
  <2>1. /\ Types /\ Pages' = Pages /\ root' = root /\ OnlyMoves(b)
        /\ th[b].pc = "cut" /\ th'[b] = [th[b] EXCEPT !.pc = "grow"]
        /\ \A q \in Pages : SameTree(q) /\ page'[q].sib = page[q].sib
    BY <1>2, CutChanges DEF Shape
  <2>2. th'[b].pc = "grow" /\ th'[b].at = th[b].at /\ th'[b].new = th[b].new
    BY <2>1, ThreadTypes DEF Thread
  <2>3. \A o \in Backend : SplitsRoot(o) => th[b].at # th[o].new
    BY <2>1 DEF HeightInv
  <2>4. SplitsRoot(b)' <=> SplitsRoot(b)
    BY <2>1, <2>2 DEF SplitsRoot, Splits
  <2>5. QED
    BY <2>1, <2>2, <2>3, <2>4, HeightFrame DEF SameTree
<1>3. QED
  BY <1>1, <1>2

LEMMA HeightSplit ==
  ASSUME Shape, HeightInv, NEW b \in Backend, SplitPage(b)
  PROVE  HeightInv'
<1> DEFINE p == th[b].at
           n == Len(page) + 1
<1>1. /\ Pages' = Pages \cup {n} /\ n \notin Pages /\ root' = root /\ OnlyMoves(b)
      /\ th[b].pc = "locked" /\ p \in Pages
      /\ th'[b] = [th[b] EXCEPT !.pc = "cut", !.new = n,
                                !.split = page[p].ents[Count(p) \div 2 + 1].k,
                                !.cnt = Len(page'[n].ents)]
      /\ \A q \in Pages : /\ SameTree(q)
                          /\ page'[q].sib = IF q = p THEN n ELSE page[q].sib
      /\ page'[n].level = page[p].level /\ page'[n].sib = page[p].sib
  BY SplitEffect DEF Half
<1>2. /\ th[b].at = p /\ Types /\ root \in Pages /\ lock[p] = b /\ th[b].level = page[p].level
      /\ page[p].level \in Nat /\ page[root].level \in Nat
      /\ \A q \in Pages : page'[q].level = page[q].level
  BY <1>1, PageTypes DEF Shape, Types, ThreadShape, Holds, SameTree
<1> HIDE DEF p, n
<1>3. th'[b].pc = "cut" /\ th'[b].at = p /\ th'[b].new = n
  BY <1>1, <1>2, ThreadTypes DEF Thread
<1>4. ~SplitsRoot(b) /\ (SplitsRoot(b)' <=> p = root)
  BY <1>1, <1>3 DEF SplitsRoot, Splits
<1>5. \A o \in Backend \ {b} : (SplitsRoot(o)' <=> SplitsRoot(o)) /\ th'[o] = th[o]
  BY <1>1 DEF OnlyMoves, SplitsRoot, Splits
<1>6. \A o \in Backend : SplitsRoot(o) => o # b /\ p # root /\ p # th[o].new
  BY <1>1, <1>2, <1>4, RootSplitter DEF HeightInv
<1>7. p # root => page[p].level < page[root].level
  BY <1>1, <1>2, NotBesideRoot
<1>8. p = root => page[root].sib = Null
  BY <1>6 DEF HeightInv
<1>9. \A q \in Pages' : page'[q].level <= page'[root'].level
  BY <1>1, <1>2 DEF HeightInv
<1>10. \A q \in Pages' : q # root' /\ page'[q].level = page'[root'].level =>
         \E o \in Backend : SplitsRoot(o)' /\ th'[o].new = q
  <2> TAKE q \in Pages'
  <2> HAVE q # root' /\ page'[q].level = page'[root'].level
  <2>1. CASE q \in Pages
    <3>1. PICK o \in Backend : SplitsRoot(o) /\ th[o].new = q
      BY <1>1, <1>2, <2>1 DEF HeightInv
    <3>2. QED
      BY <1>5, <1>6, <3>1
  <2>2. CASE q = n
    <3>1. p = root
      BY <1>1, <1>2, <1>7, <2>2
    <3>2. QED
      BY <1>3, <1>4, <2>2, <3>1
  <2>3. QED
    BY <1>1, <2>1, <2>2
<1>11. page'[root'].sib # Null => \E o \in Backend : SplitsRoot(o)'
  <2>1. CASE p = root
    BY <1>4, <2>1
  <2>2. CASE p # root
    BY <1>1, <1>2, <1>5, <1>6, <2>2 DEF HeightInv
  <2>3. QED
    BY <2>1, <2>2
<1>12. \A o \in Backend : SplitsRoot(o)' =>
         /\ page'[th'[o].new].sib = Null
         /\ \A c \in Backend : th'[c].at = th'[o].new =>
              th'[c].pc = "down" /\ th'[c].level < page'[root'].level
  <2> TAKE o \in Backend
  <2> HAVE SplitsRoot(o)'
  <2>1. CASE o = b
    <3>1. page'[th'[o].new].sib = Null
      BY <1>1, <1>3, <1>4, <1>8, <2>1
    <3>2. \A c \in Backend : th'[c].at # n
      <4> TAKE c \in Backend
      <4>1. th[c].at \in Pages
        BY DEF Shape, ThreadShape
      <4>2. th'[c].at = th[c].at
        BY <1>2, <1>3, <1>5
      <4>3. QED
        BY <1>1, <4>1, <4>2
    <3>3. QED
      BY <1>3, <2>1, <3>1, <3>2
  <2>2. CASE o # b
    <3>1. SplitsRoot(o) /\ th'[o].new = th[o].new /\ th[o].new \in Pages /\ th[o].new # p
      BY <1>5, <1>6, <2>2, RootSplitter
    <3>2. page'[th'[o].new].sib = Null
      BY <1>1, <3>1 DEF HeightInv
    <3>3. \A c \in Backend : th'[c].at = th'[o].new =>
            th'[c].pc = "down" /\ th'[c].level < page'[root'].level
      <4> TAKE c \in Backend
      <4>1. CASE c = b
        BY <1>3, <3>1, <4>1
      <4>2. CASE c # b
        <5>1. th'[c] = th[c]
          BY <1>5, <4>2
        <5>2. QED
          BY <1>1, <1>2, <3>1, <5>1 DEF HeightInv
      <4>3. QED
        BY <4>1, <4>2
    <3>4. QED
      BY <3>2, <3>3
  <2>3. QED
    BY <2>1, <2>2
<1>13. \A o \in Backend : /\ th'[o].pc = "right" => th'[o].at # root'
                          /\ th'[o].pc = "post" => th'[o].level <= page'[root'].level
  <2> TAKE o \in Backend
  <2>1. CASE o = b
    BY <1>3, <2>1
  <2>2. CASE o # b
    <3>1. th'[o] = th[o]
      BY <1>5, <2>2
    <3>2. QED
      BY <1>1, <1>2, <3>1 DEF HeightInv
  <2>3. QED
    BY <2>1, <2>2
<1>14. QED
  BY <1>9, <1>10, <1>11, <1>12, <1>13 DEF HeightInv

LEMMA HeightGrow ==
  ASSUME Shape, HeightInv, NEW b \in Backend, GrowRoot(b)
  PROVE  HeightInv'
<1> DEFINE n == Len(page) + 1
<1>1. /\ Types /\ Pages' = Pages \cup {n} /\ n \notin Pages /\ root' = n /\ OnlyMoves(b)
      /\ th'[b] = Finished(b) /\ root = th[b].at /\ root \in Pages
      /\ \A q \in Pages : page'[q] = page[q]
      /\ page'[n].level = page[root].level + 1 /\ page'[n].sib = Null
  BY GrowEffect DEF Shape
<1> HIDE DEF n
<1>2. th'[b].pc = "idle" /\ th'[b].at = root
  BY <1>1, FinishedType
<1>3. \A q \in Pages : page[q].level \in Nat /\ page[q].level <= page[root].level
  BY <1>1, PageTypes DEF HeightInv
<1>4. \A o \in Backend : th'[o].at \in Pages
  BY <1>1, <1>2 DEF OnlyMoves, Shape, ThreadShape
<1>5. \A o \in Backend : ~SplitsRoot(o)'
  BY <1>1, <1>4 DEF SplitsRoot
<1>6. \A q \in Pages' : page'[q].level <= page'[root'].level
  BY <1>1, <1>3
<1>7. \A q \in Pages' : ~ (q # root' /\ page'[q].level = page'[root'].level)
  BY <1>1, <1>3
<1>8. \A o \in Backend : /\ th'[o].pc = "right" => th'[o].at # root'
                         /\ th'[o].pc = "post" => th'[o].level <= page'[root'].level
  <2> TAKE o \in Backend
  <2>1. th'[o].pc = "post" => th[o].level \in Nat /\ th[o].level <= page[root].level
    BY <1>1, <1>2, ThreadTypes DEF OnlyMoves, HeightInv
  <2>2. th'[o].pc = "post" => th'[o] = th[o]
    BY <1>1, <1>2 DEF OnlyMoves
  <2>3. QED
    BY <1>1, <1>3, <1>4, <2>1, <2>2
<1>9. QED
  BY <1>1, <1>5, <1>6, <1>7, <1>8 DEF HeightInv

LEMMA HeightInit ==
  ASSUME Init
  PROVE  HeightInv
<1>1. /\ Pages = {1} /\ root = 1 /\ page[1].level = 0 /\ page[1].sib = Null
      /\ \A b \in Backend : th[b].pc = "idle"
  BY DEF Init, Pages
<1>2. QED
  BY <1>1 DEF HeightInv, SplitsRoot, Splits

LEMMA HeightStep ==
  ASSUME Shape, HeightInv, [Next]_vars
  PROVE  HeightInv'
<1>1. ASSUME NEW b \in Backend, Step(b) PROVE HeightInv'
  BY <1>1, HeightMove, HeightStore, HeightSplit, HeightGrow DEF Step, Descends
<1>2. ASSUME UNCHANGED vars PROVE HeightInv'
  BY <1>2 DEF vars, HeightInv, Pages, SplitsRoot, Splits
<1>3. QED
  BY <1>1, <1>2 DEF Next

(* btree_insert_internal never meets a tree without the level it is to     *)
(* store into: the root is replaced before the lock of the page it was     *)
(* split from is released, so a posting is always for a level that is      *)
(* there.                                                                  *)
THEOREM PostingsFindTheirLevel == Spec => []PostFindsLevel
<1>1. Init => Shape /\ HeightInv
  BY ShapeInit, HeightInit
<1>2. Shape /\ HeightInv /\ [Next]_vars => (Shape /\ HeightInv)'
  BY ShapeStep, HeightStep
<1>3. HeightInv => PostFindsLevel
  BY DEF HeightInv, PostFindsLevel
<1>4. QED
  BY <1>1, <1>2, <1>3, PTL DEF Spec

-----------------------------------------------------------------------------
(* The order of the leaves and the pages only their writer knows.          *)

KeyInv(lo) == LeafInv /\ LowKeys(lo) /\ AloneInv

CutsLeaf(b) == th[b].pc = "cut" /\ Leaf(th[b].at)

LEMMA SiblingFacts ==
  ASSUME Shape, NEW q \in Pages, page[q].sib # Null
  PROVE  /\ page[q].sib \in Pages \ {1}
         /\ page[page[q].sib].level = page[q].level
         /\ Count(page[q].sib) > 0 /\ FirstKey(page[q].sib) \in Nat
<1> DEFINE s == page[q].sib
<1>1. PageShape(q) /\ Types
  BY DEF Shape
<1>2. s \in Pages \ {1} /\ page[s].level = page[q].level
  BY <1>1 DEF PageShape
<1>3. PageShape(s)
  BY <1>2 DEF Shape
<1>4. Count(s) > 0
  BY <1>2, <1>3 DEF PageShape
<1> HIDE DEF s
<1>5. Count(s) \in Nat /\ \A i \in 1 .. Count(s) : page[s].ents[i].k \in Nat
  BY <1>1, <1>2, PageTypes
<1>6. 1 \in 1 .. Count(s)
  BY <1>4, <1>5
<1>7. FirstKey(s) \in Nat
  BY <1>5, <1>6 DEF FirstKey
<1>8. QED
  BY <1>2, <1>4, <1>7 DEF s

(* The pages a thread that cuts a leaf has in hand.                        *)
LEMMA CutFacts ==
  ASSUME Shape, AloneInv, NEW y \in Backend, CutsLeaf(y)
  PROVE  LET p == th[y].at
             n == th[y].new IN
         /\ p \in Pages /\ n \in Pages \ {1, p} /\ lock[p] = y
         /\ page[p].sib = n /\ Leaf(n) /\ Leaf(p)
         /\ Unknown(n, p) /\ \A o \in Backend \ {y} : KeepsOff(o, n, p)
<1>1. ThreadShape(y) /\ Alone(y)
  BY DEF Shape, AloneInv
<1>2. QED
  BY <1>1 DEF CutsLeaf, ThreadShape, Alone, Holds, Splits, Leaf

(* The first key of a leaf is nowhere written over: who writes the leaf    *)
(* brings a key that is not below it.                                      *)
LEMMA LeafSettled ==
  ASSUME Shape, NEW lo, KeyInv(lo), NEW p \in Pages, Leaf(p)
  PROVE  ~Unsettled(p)
<1> DEFINE s == page[p].sib
<1> SUFFICES ASSUME s # Null, NEW o \in Backend, Fills(o, s), th[o].k < FirstKey(s)
             PROVE  FALSE
  BY DEF Unsettled
<1>1. /\ s \in Pages \ {1} /\ Leaf(s) /\ FirstKey(s) \in Nat
  BY SiblingFacts DEF Leaf
<1>2. /\ Types /\ ThreadShape(o) /\ ThreadLow(lo, o) /\ CutAt(o) /\ PageLow(lo, s)
      /\ th[o].k \in Nat
  BY <1>1, ThreadTypes DEF Shape, KeyInv, LowKeys, LeafInv
<1> HIDE DEF s
<1>3. lo[s] = FirstKey(s)
  BY <1>1, <1>2 DEF PageLow
<1>4. ~ (th[o].k < FirstKey(s)) \/ ~ (th[o].at = s /\ th[o].pc \in {"locked", "cut"})
  <2> SUFFICES ASSUME th[o].at = s, th[o].pc \in {"locked", "cut"}
               PROVE  ~ (th[o].k < FirstKey(s))
    OBVIOUS
  <2>1. Enters(lo, th[o].k, s)
    BY <1>1, <1>2 DEF ThreadLow
  <2>2. QED
    BY <1>1, <1>2, <1>3, <2>1 DEF Enters
<1>5. th[o].pc = "cut" /\ ~ (th[o].k < th[o].split) /\ th[o].new = s
  BY <1>4 DEF Fills
<1>6. Leaf(th[o].at)
  BY <1>1, <1>2, <1>5 DEF ThreadShape, Splits, Leaf
<1>7. th[o].split = FirstKey(s)
  BY <1>2, <1>5, <1>6 DEF CutAt
<1>8. QED
  BY <1>5, <1>7

(* So on a leaf the look at the sibling is right.                          *)
LEMMA LeafStays ==
  ASSUME Shape, NEW lo, KeyInv(lo), NEW b \in Backend, Leaf(th[b].at)
  PROVE  (MayStay(b) => ~Beyond(b)) /\ (MayGo(b) => Beyond(b))
<1>1. th[b].at \in Pages
  BY DEF Shape, ThreadShape
<1>2. QED
  BY <1>1, LeafSettled DEF MayStay, MayGo

(* No other thread writes, or is about to write, one of these pages.       *)
LEMMA OffCut ==
  ASSUME Shape, NEW lo, KeyInv(lo), NEW y \in Backend, CutsLeaf(y),
         NEW o \in Backend \ {y}, Holds(o), th[o].pc = "locked" => MayStay(o)
  PROVE  th[o].at # th[y].at /\ th[o].at # th[y].new
<1> DEFINE p == th[y].at
           n == th[y].new
<1>1. lock[p] = y /\ KeepsOff(o, n, p) /\ Leaf(n)
  BY CutFacts DEF KeyInv
<1>2. lock[th[o].at] = o
  BY DEF Shape, ThreadShape
<1>3. ASSUME th[o].at = n PROVE FALSE
  <2>1. th[o].pc = "locked" /\ Past(o, n)
    BY <1>1, <1>3 DEF KeepsOff, Holds
  <2>2. Beyond(o)
    BY <1>3, <2>1 DEF Past, Beyond
  <2>3. QED
    BY <1>1, <1>3, <2>1, <2>2, LeafStays
<1>4. QED
  BY <1>1, <1>2, <1>3

LEMMA KeyMove ==
  ASSUME Shape, NEW lo, KeyInv(lo), SamePages, Pages' = Pages, NEW b \in Backend,
         OnlyMoves(b), th[b].pc # "cut", th'[b].pc # "cut",
         RightAt(b)', ThreadLow(lo, b)',
         \A y \in Backend \ {b} : CutsLeaf(y) => KeepsOff(b, th[y].new, th[y].at)'
  PROVE  KeyInv(lo)'
<1>1. page' = page /\ root' = root /\ \A o \in Backend \ {b} : th'[o] = th[o]
  BY DEF SamePages, OnlyMoves
<1>2. \A p : BeingCut(p)' <=> BeingCut(p)
  BY <1>1 DEF BeingCut
<1>3. \A p \in Pages' : LeafOrder(p)'
  <2> SUFFICES ASSUME NEW p \in Pages PROVE LeafOrder(p)'
    OBVIOUS
  <2>1. LeafOrder(p)
    BY DEF KeyInv, LeafInv
  <2>2. QED
    BY <1>1, <1>2, <2>1 DEF LeafOrder, Leaf, Count, FirstKey, NotAbove
<1>4. \A o \in Backend : CutAt(o)' /\ RightAt(o)'
  <2> TAKE o \in Backend
  <2>1. CASE o = b
    BY <2>1 DEF CutAt
  <2>2. CASE o # b
    <3>1. CutAt(o) /\ RightAt(o) /\ th'[o] = th[o]
      BY <1>1, <2>2 DEF KeyInv, LeafInv
    <3>2. QED
      BY <1>1, <3>1 DEF CutAt, RightAt, Leaf, FirstKey, Count
  <2>3. QED
    BY <2>1, <2>2
<1>5. LowKeys(lo)'
  <2>1. LowKeys(lo)
    BY DEF KeyInv
  <2>2. \A p \in Pages : PageLow(lo, p)'
    BY <1>1, <2>1 DEF LowKeys, PageLow, Leaf, FirstKey, Count
  <2>3. \A o \in Backend \ {b} : ThreadLow(lo, o)'
    BY <1>1, <2>1 DEF LowKeys, ThreadLow, Leaf, FirstKey, Splits, Enters
  <2>4. QED
    BY <1>1, <2>1, <2>2, <2>3 DEF LowKeys
<1>6. AloneInv'
  <2> SUFFICES ASSUME NEW y \in Backend, CutsLeaf(y)'
               PROVE  /\ Unknown(th[y].new, th[y].at)'
                      /\ \A o \in Backend \ {y} : KeepsOff(o, th[y].new, th[y].at)'
    BY DEF AloneInv, Alone, CutsLeaf
  <2>1. y # b /\ th'[y] = th[y] /\ CutsLeaf(y)
    BY <1>1 DEF CutsLeaf, Leaf
  <2>2. /\ Unknown(th[y].new, th[y].at)
        /\ \A o \in Backend \ {y} : KeepsOff(o, th[y].new, th[y].at)
    BY <2>1, CutFacts DEF KeyInv
  <2>3. Unknown(th[y].new, th[y].at)'
    BY <1>1, <2>1, <2>2 DEF Unknown, Leaf, Count
  <2>4. ASSUME NEW o \in Backend \ {y} PROVE KeepsOff(o, th[y].new, th[y].at)'
    <3>1. CASE o = b
      BY <2>1, <3>1
    <3>2. CASE o # b
      <4>1. th'[o] = th[o] /\ KeepsOff(o, th[y].new, th[y].at)
        BY <1>1, <2>2, <3>2
      <4>2. QED
        BY <1>1, <2>1, <4>1 DEF KeepsOff, Splits, Past, FirstKey
    <3>3. QED
      BY <3>1, <3>2
  <2>5. QED
    BY <2>3, <2>4
<1>7. QED
  BY <1>3, <1>4, <1>5, <1>6 DEF KeyInv, LeafInv

(* What a step of one thread must not do to a leaf another one cuts.       *)
LEMMA StillOff ==
  ASSUME Shape, NEW lo, KeyInv(lo), SamePages, NEW b \in Backend, OnlyMoves(b),
         NEW y \in Backend \ {b}, CutsLeaf(y), ~Splits(b)',
         th'[b].level > 0 /\ th'[b].pc # "idle" => th'[b].c # th[y].new,
         th'[b].at = th[y].new => /\ th'[b].pc \in {"down", "locked", "right"}
                                  /\ Past(b, th[y].new) /\ th'[b].k = th[b].k,
         th'[b].at = th[y].at => th'[b].pc # "right"
  PROVE  KeepsOff(b, th[y].new, th[y].at)'
<1>1. page' = page /\ th'[y] = th[y]
  BY DEF SamePages, OnlyMoves
<1>2. QED
  BY <1>1 DEF KeepsOff, Past, FirstKey

LEMMA KeyBegin ==
  ASSUME Shape, NEW lo, KeyInv(lo), NEW b \in Backend, Begin(b)
  PROVE  KeyInv(lo)'
<1>1. /\ Types /\ Pages' = Pages /\ SamePages /\ OnlyMoves(b) /\ th[b].pc = "idle"
      /\ th'[b].pc = "down" /\ th'[b].at = root /\ th'[b].level = 0 /\ th'[b].k \in Nat
  BY BeginEffect DEF Shape, Begin
<1>2. ThreadLow(lo, b)'
  <2>1. lo[root] = 0
    BY DEF KeyInv, LowKeys
  <2>2. QED
    BY <1>1, <2>1 DEF ThreadLow, Splits, Enters, SamePages
<1>3. ASSUME NEW y \in Backend \ {b}, CutsLeaf(y)
      PROVE  KeepsOff(b, th[y].new, th[y].at)'
  <2>1. root # th[y].new
    BY <1>3, CutFacts DEF KeyInv, Unknown
  <2>2. QED
    BY <1>1, <1>3, <2>1, StillOff DEF Splits
<1>4. QED
  BY <1>1, <1>2, <1>3, KeyMove DEF RightAt

LEMMA EntersNext ==
  ASSUME Shape, NEW lo, LowKeys(lo), NEW p \in Pages, ~Leaf(p), NEW k \in Nat,
         Enters(lo, k, p), NEW q, Leads(p, q), Found(p, k, q)
  PROVE  Enters(lo, k, q)
<1>2. Types /\ PageLow(lo, p) /\ PageShape(p)
  BY DEF Shape, LowKeys
<1>3. q \in Pages
  BY DEF Leads, Below
<1>4. lo[p] \in Nat /\ lo[q] \in Nat /\ FirstKey(p) \in Nat
  <2>1. p # 1 /\ Count(p) > 0 /\ Count(p) \in Nat
    BY <1>2, PageTypes DEF PageShape
  <2>2. 1 \in 1 .. Count(p)
    BY <2>1
  <2>3. FirstKey(p) \in Nat
    BY <1>2, <2>2, PageTypes DEF FirstKey
  <2>4. QED
    BY <1>3, <2>3 DEF LowKeys
<1>5. CASE q = page[p].sib /\ q # Null /\ FirstKey(q) <= k
  <2>1. FirstKey(q) \in Nat /\ ~Leaf(q)
    BY <1>5, SiblingFacts DEF Leaf
  <2>2. QED
    BY <1>5, <2>1 DEF Enters
<1>6. CASE q = page[p].left /\ ~ (FirstKey(p) <= k)
  <2>1. lo[p] = lo[q]
    BY <1>2, <1>6 DEF PageLow
  <2>2. QED
    BY <1>4, <1>6, <2>1 DEF Enters
<1>7. CASE \E i \in 1 .. Count(p) : q = page[p].ents[i].c /\ page[p].ents[i].k <= k
  <2>1. PICK i \in 1 .. Count(p) : q = page[p].ents[i].c /\ page[p].ents[i].k <= k
    BY <1>7
  <2>2. lo[q] <= page[p].ents[i].k /\ page[p].ents[i].k \in Nat
    BY <1>2, <2>1, PageTypes DEF PageLow
  <2>3. QED
    BY <1>4, <2>1, <2>2 DEF Enters
<1>8. CASE \E o \in Backend : Fills(o, p) /\ q = th[o].c /\ th[o].k <= k
  <2>1. PICK o \in Backend : Fills(o, p) /\ q = th[o].c /\ th[o].k <= k
    BY <1>8
  <2>2. th[o].level > 0 /\ th[o].pc # "idle"
    BY <2>1, FillsBelow
  <2>3. ThreadLow(lo, o) /\ th[o].k \in Nat
    BY <1>2, ThreadTypes DEF LowKeys
  <2>4. lo[q] <= th[o].k
    BY <2>1, <2>2, <2>3 DEF ThreadLow
  <2>5. QED
    BY <1>4, <2>1, <2>3, <2>4 DEF Enters
<1>9. QED
  BY <1>5, <1>6, <1>7, <1>8 DEF Found

LEMMA KeyDown ==
  ASSUME Shape, NEW lo, KeyInv(lo), NEW b \in Backend, Descends(b), ~raced'
  PROVE  KeyInv(lo)'
<1> DEFINE p == th[b].at
           k == th[b].k
           q == th'[b].at
<1>1. /\ Pages' = Pages /\ SamePages /\ OnlyMoves(b)
      /\ th[b].pc = "down" /\ th[b].level < page[p].level /\ p \in Pages /\ ~Leaf(p)
      /\ th'[b] = [th[b] EXCEPT !.at = q] /\ Leads(p, q) /\ Found(p, k, q)
  BY DownEffect
<1>2. /\ Types /\ k \in Nat /\ LowKeys(lo) /\ ThreadLow(lo, b) /\ PageLow(lo, p)
      /\ PageShape(p) /\ p = th[b].at /\ k = th[b].k
  BY <1>1, ThreadTypes DEF Shape, KeyInv, LowKeys
<1>5. Enters(lo, k, q)
  <2>1. Enters(lo, k, p)
    BY <1>1, <1>2 DEF ThreadLow
  <2>2. QED
    BY <1>1, <1>2, <2>1, EntersNext
<1> HIDE DEF p, k, q
<1>4. /\ th'[b].pc = "down" /\ th'[b].level = th[b].level /\ th'[b].c = th[b].c
      /\ th'[b].k = k /\ th'[b].at = q
  BY <1>1, <1>2, ThreadTypes DEF Thread
<1>8. ThreadLow(lo, b)'
  BY <1>1, <1>2, <1>4, <1>5 DEF ThreadLow, Splits, Enters, SamePages, Leaf, FirstKey
<1>9. ASSUME NEW y \in Backend \ {b}, CutsLeaf(y)
      PROVE  KeepsOff(b, th[y].new, th[y].at)'
  <2> DEFINE n == th[y].new
  <2>1. Unknown(n, th[y].at) /\ KeepsOff(b, n, th[y].at) /\ Leaf(th[y].at)
    BY <1>9, CutFacts DEF KeyInv
  <2>2. p # th[y].at
    BY <1>1, <2>1
  <2>3. q # n
    <3>1. ASSUME NEW o \in Backend, Fills(o, p), q = th[o].c PROVE q # n
      <4>1. th[o].level > 0 /\ th[o].pc # "idle"
        BY <1>1, <3>1, FillsBelow
      <4>2. o # y
        BY <1>1, <1>9, <3>1, CutFacts DEF KeyInv, CutsLeaf, Fills
      <4>3. KeepsOff(o, n, th[y].at)
        BY <1>9, <4>2, CutFacts DEF KeyInv
      <4>4. QED
        BY <3>1, <4>1, <4>3 DEF KeepsOff
    <3>2. QED
      BY <1>1, <2>1, <2>2, <3>1 DEF Unknown, Found
  <2>4. QED
    BY <1>1, <1>4, <1>9, <2>1, <2>3, StillOff DEF Splits, KeepsOff
<1>10. QED
  BY <1>1, <1>4, <1>8, <1>9, KeyMove DEF RightAt

LEMMA KeyAcquire ==
  ASSUME Shape, NEW lo, KeyInv(lo), NEW b \in Backend, Acquire(b)
  PROVE  KeyInv(lo)'
<1>1. /\ Types /\ Pages' = Pages /\ SamePages /\ OnlyMoves(b)
      /\ th[b].pc = "down" /\ th'[b] = [th[b] EXCEPT !.pc = "locked"]
  BY AcquireEffect DEF Shape
<1>2. /\ th'[b].pc = "locked" /\ th'[b].at = th[b].at /\ th'[b].level = th[b].level
      /\ th'[b].c = th[b].c /\ th'[b].k = th[b].k
  BY <1>1, ThreadTypes DEF Thread
<1>3. ThreadLow(lo, b)
  BY DEF KeyInv, LowKeys
<1>4. ThreadLow(lo, b)'
  BY <1>1, <1>2, <1>3 DEF ThreadLow, Splits, Enters, SamePages, Leaf, FirstKey
<1>5. ASSUME NEW y \in Backend \ {b}, CutsLeaf(y)
      PROVE  KeepsOff(b, th[y].new, th[y].at)'
  <2>1. KeepsOff(b, th[y].new, th[y].at)
    BY <1>5, CutFacts DEF KeyInv
  <2>2. QED
    BY <1>1, <1>2, <1>5, <2>1, StillOff DEF Splits, KeepsOff
<1>6. QED
  BY <1>1, <1>2, <1>4, <1>5, KeyMove DEF RightAt

LEMMA KeyLetGo ==
  ASSUME Shape, NEW lo, KeyInv(lo), NEW b \in Backend, LetGo(b)
  PROVE  KeyInv(lo)'
<1>1. /\ Types /\ Pages' = Pages /\ SamePages /\ OnlyMoves(b)
      /\ th[b].pc = "locked" /\ MayGo(b) /\ th'[b] = [th[b] EXCEPT !.pc = "right"]
  BY LetGoEffect DEF Shape
<1>2. /\ th'[b].pc = "right" /\ th'[b].at = th[b].at /\ th'[b].level = th[b].level
      /\ th'[b].c = th[b].c /\ th'[b].k = th[b].k
  BY <1>1, ThreadTypes DEF Thread
<1>3. ThreadLow(lo, b) /\ lock[th[b].at] = b
  BY <1>1 DEF KeyInv, LowKeys, Shape, ThreadShape, Holds
<1>4. ThreadLow(lo, b)'
  BY <1>1, <1>2, <1>3 DEF ThreadLow, Splits, Enters, SamePages, Leaf, FirstKey
<1>5. ASSUME NEW y \in Backend \ {b}, CutsLeaf(y)
      PROVE  KeepsOff(b, th[y].new, th[y].at)'
  <2>1. KeepsOff(b, th[y].new, th[y].at) /\ th[b].at # th[y].at
    BY <1>3, <1>5, CutFacts DEF KeyInv
  <2>2. QED
    BY <1>1, <1>2, <1>5, <2>1, StillOff DEF Splits, KeepsOff
<1>6. RightAt(b)'
  <2>1. Leaf(th[b].at) => Beyond(b)
    BY <1>1, LeafStays
  <2>2. QED
    BY <1>1, <1>2, <2>1 DEF RightAt, Beyond, SamePages, Leaf, FirstKey
<1>7. QED
  BY <1>1, <1>2, <1>4, <1>5, <1>6, KeyMove

LEMMA KeyMoveRight ==
  ASSUME Shape, NEW lo, KeyInv(lo), NEW b \in Backend, MoveRight(b)
  PROVE  KeyInv(lo)'
<1> DEFINE p == th[b].at
           q == page[p].sib
<1>1. /\ Types /\ Pages' = Pages /\ SamePages /\ OnlyMoves(b)
      /\ th[b].pc = "right" /\ th'[b] = [th[b] EXCEPT !.at = q, !.pc = "down"]
  BY MoveRightEffect DEF Shape
<1>2. /\ p = th[b].at /\ q = page[p].sib /\ p \in Pages /\ q # Null
      /\ th[b].level = page[p].level /\ ThreadLow(lo, b) /\ RightAt(b) /\ LowKeys(lo)
      /\ page[p].level \in Nat /\ th[b].k \in Nat
  BY <1>1, PageTypes, ThreadTypes
     DEF Shape, ThreadShape, KeyInv, LeafInv, LowKeys
<1> HIDE DEF p, q
<1>3. /\ th'[b].pc = "down" /\ th'[b].at = q /\ th'[b].level = th[b].level
      /\ th'[b].c = th[b].c /\ th'[b].k = th[b].k
  BY <1>1, ThreadTypes DEF Thread
<1>4. q \in Pages \ {1} /\ page[q].level = page[p].level /\ FirstKey(q) \in Nat
  BY <1>2, SiblingFacts
<1>5. Leaf(q) => Enters(lo, th[b].k, q)
  <2> HAVE Leaf(q)
  <2>1. lo[q] = FirstKey(q)
    BY <1>2, <1>4 DEF LowKeys, PageLow
  <2>2. th[b].k > FirstKey(q)
    BY <1>1, <1>2, <1>4 DEF RightAt, Leaf
  <2>3. QED
    BY <1>2, <1>4, <2>1, <2>2 DEF Enters
<1>6. ThreadLow(lo, b)'
  <2>1. ~ (th[b].level < page[q].level)
    BY <1>2, <1>4
  <2>2. QED
    BY <1>1, <1>2, <1>3, <1>5, <2>1
       DEF ThreadLow, Splits, Enters, SamePages, Leaf, FirstKey
<1>7. ASSUME NEW y \in Backend \ {b}, CutsLeaf(y)
      PROVE  KeepsOff(b, th[y].new, th[y].at)'
  <2>1. KeepsOff(b, th[y].new, th[y].at) /\ Unknown(th[y].new, th[y].at)
    BY <1>7, CutFacts DEF KeyInv
  <2>2. q = th[y].new => Past(b, th[y].new)
    BY <1>1, <1>2, <2>1 DEF Unknown, KeepsOff
  <2>3. QED
    BY <1>1, <1>3, <1>7, <2>1, <2>2, StillOff DEF Splits, KeepsOff
<1>8. QED
  BY <1>1, <1>3, <1>6, <1>7, KeyMove DEF RightAt

LEMMA KeyPostSplit ==
  ASSUME Shape, NEW lo, KeyInv(lo), NEW b \in Backend, PostSplit(b)
  PROVE  KeyInv(lo)'
<1>1. /\ Types /\ Pages' = Pages /\ SamePages /\ OnlyMoves(b)
      /\ th[b].pc = "grow"
      /\ th'[b] = [th[b] EXCEPT !.pc = "post", !.k = th[b].split, !.c = th[b].new,
                                !.level = page[th[b].at].level + 1]
  BY PostSplitEffect DEF Shape
<1>2. /\ th'[b].pc = "post" /\ th'[b].at = th[b].at /\ th'[b].c = th[b].new
      /\ th'[b].k = th[b].split
  BY <1>1, ThreadTypes DEF Thread
<1>3. ThreadLow(lo, b)
  BY DEF KeyInv, LowKeys
<1>4. ThreadLow(lo, b)'
  BY <1>1, <1>2, <1>3 DEF ThreadLow, Splits
<1>5. ASSUME NEW y \in Backend \ {b}, CutsLeaf(y)
      PROVE  KeepsOff(b, th[y].new, th[y].at)'
  <2>1. KeepsOff(b, th[y].new, th[y].at)
    BY <1>5, CutFacts DEF KeyInv
  <2>2. th[b].at # th[y].new /\ th[b].new # th[y].new
    BY <1>1, <2>1 DEF KeepsOff, Splits
  <2>3. QED
    BY <1>1, <1>2, <1>5, <2>2, StillOff DEF Splits
<1>6. QED
  BY <1>1, <1>2, <1>4, <1>5, KeyMove DEF RightAt

LEMMA KeyPost ==
  ASSUME Shape, NEW lo, KeyInv(lo), NEW b \in Backend, Post(b)
  PROVE  KeyInv(lo)'
<1>1. /\ Types /\ Pages' = Pages /\ SamePages /\ OnlyMoves(b) /\ th[b].pc = "post"
      /\ \/ th'[b] = Finished(b)
         \/ th'[b] = [th[b] EXCEPT !.pc = "down", !.at = root]
  BY PostEffect DEF Shape
<1>2. \/ th'[b].pc = "idle" /\ th'[b].at = th[b].at
      \/ /\ th'[b].pc = "down" /\ th'[b].at = root /\ th'[b].level = th[b].level
         /\ th'[b].c = th[b].c /\ th'[b].k = th[b].k
  <2>1. CASE th'[b] = Finished(b)
    BY <1>1, <2>1, FinishedType
  <2>2. CASE th'[b] = [th[b] EXCEPT !.pc = "down", !.at = root]
    BY <1>1, <2>2, ThreadTypes DEF Thread
  <2>3. QED
    BY <1>1, <2>1, <2>2
<1>3. ThreadLow(lo, b) /\ lo[root] = 0 /\ th[b].k \in Nat
  BY <1>1, ThreadTypes DEF KeyInv, LowKeys
<1>4. ThreadLow(lo, b)'
  BY <1>1, <1>2, <1>3 DEF ThreadLow, Splits, Enters, SamePages
<1>5. ASSUME NEW y \in Backend \ {b}, CutsLeaf(y)
      PROVE  KeepsOff(b, th[y].new, th[y].at)'
  <2>1. KeepsOff(b, th[y].new, th[y].at) /\ root # th[y].new
    BY <1>5, CutFacts DEF KeyInv, Unknown
  <2>2. th[b].at # th[y].new
    BY <1>1, <2>1 DEF KeepsOff
  <2>3. QED
    BY <1>1, <1>2, <1>5, <2>1, <2>2, StillOff DEF Splits, KeepsOff
<1>6. QED
  BY <1>1, <1>2, <1>4, <1>5, KeyMove DEF RightAt

(* Steps that put an entry into a page, or cut it, but link none.          *)
LEMMA KeyFrame ==
  ASSUME Shape, NEW lo, KeyInv(lo), NEW b \in Backend, OnlyMoves(b),
         Pages' = Pages, root' = root,
         \A q \in Pages : SameTree(q) /\ page'[q].sib = page[q].sib,
         \A q \in Pages : Leaf(q) /\ q # 1 => page'[q].ents[1].k = page[q].ents[1].k,
         \A q \in Pages : ~Leaf(q) => \A k \in Nat : k >= page[q].ents[1].k =>
                                                       k >= page'[q].ents[1].k,
         \A q \in Pages : ~Leaf(q) => \A i \in 1 .. Len(page'[q].ents) :
           \/ \E j \in 1 .. Count(q) : page'[q].ents[i] = page[q].ents[j]
           \/ page'[q].ents[i] = Entry(b) /\ th[b].level > 0,
         \A y \in Backend \ {b} : CutsLeaf(y) =>
           page'[th[y].at].ents = page[th[y].at].ents,
         \A q \in Pages : LeafOrder(q)',
         Holds(b), th[b].pc = "locked" => MayStay(b), th'[b].at = th[b].at,
         \/ th'[b].pc = "idle"
         \/ /\ th[b].pc = "cut" /\ th'[b] = [th[b] EXCEPT !.pc = "grow"]
  PROVE  KeyInv(lo)'
<1>1. /\ \A o \in Backend \ {b} : th'[o] = th[o]
      /\ \A q \in Pages : Leaf(q)' <=> Leaf(q)
      /\ Types /\ LowKeys(lo) /\ ThreadLow(lo, b) /\ Entry(b).k = th[b].k
      /\ Entry(b).c = th[b].c
  BY EntryType DEF OnlyMoves, SameTree, Leaf, Shape, KeyInv, LowKeys
<1>2. \/ th'[b].pc = "idle"
      \/ /\ th'[b].pc = "grow" /\ th[b].pc = "cut" /\ th'[b].new = th[b].new
         /\ th'[b].level = th[b].level /\ th'[b].c = th[b].c /\ th'[b].k = th[b].k
         /\ th'[b].split = th[b].split
  BY <1>1, ThreadTypes DEF Thread
<1>3. \A q \in Pages : page[q].sib # Null /\ Leaf(q) =>
        page'[page[q].sib].ents[1].k = page[page[q].sib].ents[1].k
  BY SiblingFacts DEF Leaf
<1>4. \A o \in Backend : CutAt(o)' /\ RightAt(o)'
  <2> TAKE o \in Backend
  <2>1. CASE o = b
    BY <1>2, <2>1 DEF CutAt, RightAt
  <2>2. CASE o # b
    <3>1. CutAt(o) /\ RightAt(o) /\ th'[o] = th[o] /\ th[o].at \in Pages
      BY <1>1, <2>2 DEF KeyInv, LeafInv, Shape, ThreadShape
    <3>2. RightAt(o)'
      <4> SUFFICES ASSUME th[o].pc = "right", Leaf(th[o].at)
                   PROVE  th[o].k > page'[page'[th[o].at].sib].ents[1].k
        BY <1>1, <3>1 DEF RightAt, FirstKey
      <4>1. page[th[o].at].sib # Null
        BY DEF Shape, ThreadShape
      <4>2. th[o].k > page[page[th[o].at].sib].ents[1].k
        BY <3>1 DEF RightAt, FirstKey
      <4>3. QED
        BY <1>3, <3>1, <4>1, <4>2
    <3>3. CutAt(o)'
      <4> SUFFICES ASSUME CutsLeaf(o) PROVE CutAt(o)'
        BY <1>1, <3>1 DEF CutAt, CutsLeaf
      <4> DEFINE p == th[o].at
                 n == th[o].new
      <4>1. p \in Pages /\ n \in Pages \ {1} /\ Leaf(n) /\ Leaf(p)
        BY CutFacts DEF KeyInv
      <4>2. /\ th[o].split = page[n].ents[1].k
            /\ th[o].split = page[p].ents[Count(p) \div 2 + 1].k
            /\ page[n].sib # Null => th[o].k <= page[page[n].sib].ents[1].k
        BY <3>1, <4>1 DEF CutAt, CutsLeaf, FirstKey
      <4>3. /\ page'[n].ents[1].k = page[n].ents[1].k /\ page'[p].ents = page[p].ents
            /\ page'[n].sib = page[n].sib
            /\ page[n].sib # Null =>
                 page'[page[n].sib].ents[1].k = page[page[n].sib].ents[1].k
        BY <1>3, <2>2, <4>1
      <4>4. /\ th'[o].split = page'[n].ents[1].k
            /\ th'[o].split = page'[p].ents[Len(page'[p].ents) \div 2 + 1].k
            /\ page'[n].sib # Null => th'[o].k <= page'[page'[n].sib].ents[1].k
        BY <3>1, <4>2, <4>3 DEF Count
      <4>5. th'[o].at = p /\ th'[o].new = n
        BY <3>1
      <4> HIDE DEF p, n
      <4>6. QED
        BY <4>4, <4>5 DEF CutAt, FirstKey, Count
    <3>4. QED
      BY <3>2, <3>3
  <2>3. QED
    BY <2>1, <2>2
<1>5. \A q \in Pages : PageLow(lo, q)'
  <2> TAKE q \in Pages
  <2>1. PageLow(lo, q) /\ (Leaf(q)' <=> Leaf(q)) /\ page'[q].left = page[q].left
    BY <1>1 DEF LowKeys, SameTree
  <2>2. CASE Leaf(q)
    BY <2>1, <2>2 DEF PageLow, FirstKey
  <2>3. CASE ~Leaf(q)
    <3>1. \A i \in 1 .. Len(page'[q].ents) : lo[page'[q].ents[i].c] <= page'[q].ents[i].k
      <4> TAKE i \in 1 .. Len(page'[q].ents)
      <4>1. CASE \E j \in 1 .. Count(q) : page'[q].ents[i] = page[q].ents[j]
        BY <2>1, <2>3, <4>1 DEF PageLow
      <4>2. CASE page'[q].ents[i] = Entry(b) /\ th[b].level > 0
        BY <1>1, <4>2 DEF ThreadLow, Holds
      <4>3. QED
        BY <2>3, <4>1, <4>2
    <3>2. QED
      BY <2>1, <2>3, <3>1 DEF PageLow, Count
  <2>4. QED
    BY <2>2, <2>3
<1>6. \A o \in Backend : ThreadLow(lo, o)'
  <2> TAKE o \in Backend
  <2>1. CASE o = b
    BY <1>1, <1>2, <2>1 DEF ThreadLow, Splits
  <2>2. CASE o # b
    <3>1. ThreadLow(lo, o) /\ th'[o] = th[o] /\ th[o].at \in Pages /\ th[o].k \in Nat
      BY <1>1, <2>2, ThreadTypes DEF LowKeys, Shape, ThreadShape
    <3>2. page'[th[o].at].level = page[th[o].at].level
      BY <3>1 DEF SameTree
    <3>3. Enters(lo, th[o].k, th[o].at) => Enters(lo, th[o].k, th[o].at)'
      <4> DEFINE p == th[o].at
                 k == th[o].k
      <4>1. p \in Pages /\ k \in Nat /\ th'[o].at = p /\ th'[o].k = k
        BY <3>1
      <4> HIDE DEF p, k
      <4>2. ~Leaf(p) /\ k >= page[p].ents[1].k =>
              page'[p].level # 0 /\ k >= page'[p].ents[1].k
        BY <1>1, <4>1 DEF Leaf
      <4>3. Enters(lo, k, p) => k >= lo[p] \/ (page'[p].level # 0 /\ k >= page'[p].ents[1].k)
        BY <4>2 DEF Enters, FirstKey
      <4>4. QED
        BY <4>1, <4>3 DEF Enters, FirstKey, Leaf, p, k
    <3>4. QED
      BY <1>1, <3>1, <3>2, <3>3 DEF ThreadLow, Splits, Leaf
  <2>3. QED
    BY <2>1, <2>2
<1>7. AloneInv'
  <2> SUFFICES ASSUME NEW y \in Backend, CutsLeaf(y)'
               PROVE  /\ Unknown(th[y].new, th[y].at)'
                      /\ \A o \in Backend \ {y} : KeepsOff(o, th[y].new, th[y].at)'
    BY DEF AloneInv, Alone, CutsLeaf
  <2>1. y # b /\ th'[y] = th[y] /\ CutsLeaf(y)
    BY <1>1, <1>2 DEF CutsLeaf, Shape, ThreadShape
  <2> DEFINE p == th[y].at
             n == th[y].new
  <2>2. /\ p \in Pages /\ n \in Pages \ {1, p} /\ Leaf(n)
        /\ Unknown(n, p) /\ \A o \in Backend \ {y} : KeepsOff(o, n, p)
    BY <2>1, CutFacts DEF KeyInv
  <2>3. th[b].at # p /\ th[b].at # n
    BY <2>1, OffCut
  <2>4. th'[y].new = n /\ th'[y].at = p
    BY <2>1
  <2> HIDE DEF p, n
  <2>5. Unknown(th[y].new, th[y].at)'
    <3>1. \A q \in Pages : ~Leaf(q) => \A i \in 1 .. Len(page'[q].ents) :
            page'[q].ents[i].c # n
      <4>1. th[b].level > 0 => th[b].c # n
        BY <2>1, <2>2 DEF KeepsOff, Holds
      <4>2. QED
        BY <1>1, <2>2, <4>1 DEF Unknown
    <3>2. QED
      BY <1>1, <2>2, <2>4, <3>1 DEF Unknown, Count, SameTree
  <2>6. ASSUME NEW o \in Backend \ {y} PROVE KeepsOff(o, th[y].new, th[y].at)'
    <3>1. CASE o = b
      <4>1. KeepsOff(b, n, p)
        BY <2>1, <2>2
      <4>2. QED
        BY <1>2, <2>3, <2>4, <3>1, <4>1 DEF KeepsOff, Splits, Holds
    <3>2. CASE o # b
      <4>1. th'[o] = th[o] /\ KeepsOff(o, n, p)
        BY <1>1, <2>2, <3>2
      <4>2. Past(o, n) => /\ page'[n].sib # Null
                          /\ th'[o].k > page'[page'[n].sib].ents[1].k
        BY <1>3, <2>2, <4>1 DEF Past, FirstKey
      <4>3. QED
        BY <2>4, <4>1, <4>2 DEF KeepsOff, Splits, Past, FirstKey
    <3>3. QED
      BY <3>1, <3>2
  <2>7. QED
    BY <2>5, <2>6
<1>8. LowKeys(lo)'
  BY <1>1, <1>5, <1>6 DEF LowKeys
<1>9. QED
  BY <1>4, <1>7, <1>8 DEF KeyInv, LeafInv

(* A thread that writes a leaf has no key below the leaf's first.          *)
LEMMA LeafFirst ==
  ASSUME Shape, NEW lo, KeyInv(lo), NEW b \in Backend, th[b].pc \in {"locked", "cut"},
         Leaf(th[b].at), th[b].at # 1
  PROVE  th[b].k >= FirstKey(th[b].at)
<1>1. /\ th[b].at \in Pages /\ LowKeys(lo) /\ ThreadLow(lo, b)
      /\ PageLow(lo, th[b].at)
  BY DEF Shape, ThreadShape, KeyInv, LowKeys
<1>2. lo[th[b].at] = FirstKey(th[b].at) /\ Enters(lo, th[b].k, th[b].at)
  BY <1>1 DEF PageLow, ThreadLow
<1>3. QED
  BY <1>2 DEF Enters

LEMMA LeafOrderKept ==
  ASSUME Shape, NEW q \in Pages, LeafOrder(q), SameTree(q), page'[q].sib = page[q].sib,
         page'[q].ents = page[q].ents, BeingCut(q) => BeingCut(q)',
         \A s \in Pages : Leaf(s) /\ s # 1 => page'[s].ents[1].k = page[s].ents[1].k
  PROVE  LeafOrder(q)'
<1>1. Leaf(q)' <=> Leaf(q)
  BY DEF SameTree, Leaf
<1>2. Leaf(q) /\ page[q].sib # Null =>
        page'[page[q].sib].ents[1].k = page[page[q].sib].ents[1].k
  BY SiblingFacts DEF Leaf
<1>3. QED
  BY <1>1, <1>2 DEF LeafOrder, NotAbove, FirstKey, Count

LEMMA NotCut ==
  ASSUME Shape, NEW b \in Backend, NEW p \in Pages, lock[p] = b,
         th[b].pc # "cut" \/ th[b].at # p
  PROVE  ~BeingCut(p)
BY DEF BeingCut, Shape, ThreadShape, Holds

LEMMA KeyStore ==
  ASSUME Shape, NEW lo, KeyInv(lo), NEW b \in Backend, StoreFast(b)
  PROVE  KeyInv(lo)'
<1> DEFINE p == th[b].at
           es == page[p].ents
           e == Entry(b)
           new == Inserted(es, e)
<1>1. /\ Pages' = Pages /\ root' = root /\ OnlyMoves(b)
      /\ th[b].pc = "locked" /\ MayStay(b) /\ p \in Pages
      /\ th'[b] = Finished(b)
      /\ \A q \in Pages :
           /\ SameTree(q) /\ page'[q].sib = page[q].sib
           /\ page'[q].ents = IF q = p THEN new ELSE page[q].ents
  BY StoreEffect
<1>2. /\ p = th[b].at /\ Types /\ lock[p] = b /\ Holds(b) /\ th[b].level = page[p].level
      /\ es \in Seq(Ent) /\ es = page[p].ents /\ Len(es) = Count(p) /\ Len(es) \in Nat
      /\ e \in Ent /\ e = Entry(b) /\ e.k = th[b].k /\ th[b].k \in Nat
      /\ th[b].level \in Nat
  BY <1>1, EntryType, ThreadTypes, PageTypes DEF Shape, ThreadShape, Holds, Count
<1>3. th'[b].pc = "idle" /\ th'[b].at = p
  BY <1>1, <1>2, FinishedType
<1>4. /\ Len(new) = Len(es) + 1
      /\ \A i \in 1 .. Len(es) + 1 : new[i] = e \/ \E j \in 1 .. Len(es) : new[i] = es[j]
      /\ Len(es) > 0 => /\ new[1].k <= es[1].k
                        /\ e.k >= es[1].k => new[1].k = es[1].k
      /\ Sorted(es) => Sorted(new)
  BY <1>2, InsertedFacts
<1>5. p # 1 => Len(es) > 0 /\ 1 \in 1 .. Len(es)
  BY <1>1, <1>2 DEF Shape, PageShape
<1>6. \A i \in 1 .. Len(es) : es[i].k \in Nat
  BY <1>1, <1>2, PageTypes
<1> HIDE DEF p, es, e, new
<1>7. \A q \in Pages : Leaf(q) /\ q # 1 => page'[q].ents[1].k = page[q].ents[1].k
  <2> SUFFICES ASSUME Leaf(p), p # 1 PROVE new[1].k = es[1].k
    BY <1>1, <1>2
  <2>1. e.k >= es[1].k
    BY <1>1, <1>2, LeafFirst DEF FirstKey
  <2>2. QED
    BY <1>4, <1>5, <2>1
<1>8. \A q \in Pages : ~Leaf(q) => \A k \in Nat : k >= page[q].ents[1].k =>
                                                     k >= page'[q].ents[1].k
  <2> SUFFICES ASSUME ~Leaf(p), NEW k \in Nat, k >= es[1].k PROVE k >= new[1].k
    BY <1>1, <1>2
  <2>1. p # 1 /\ Len(es) > 0
    BY <1>1, <1>5 DEF Shape, PageShape
  <2>2. new[1].k <= es[1].k /\ es[1].k \in Nat /\ new[1].k \in Nat
    BY SMTT(30), <1>2, <1>4, <1>5, <1>6, <2>1
  <2>3. QED
    BY <2>2
<1>9. \A q \in Pages : ~Leaf(q) => \A i \in 1 .. Len(page'[q].ents) :
        \/ \E j \in 1 .. Count(q) : page'[q].ents[i] = page[q].ents[j]
        \/ page'[q].ents[i] = Entry(b) /\ th[b].level > 0
  <2> TAKE q \in Pages
  <2> HAVE ~Leaf(q)
  <2>1. CASE q = p
    <3>1. th[b].level > 0
      BY <1>2, <2>1 DEF Leaf
    <3>2. page'[q].ents = new /\ Count(q) = Len(es) /\ page[q].ents = es
      BY <1>1, <1>2, <2>1
    <3>3. QED
      BY SMTT(30), <1>2, <1>4, <3>1, <3>2
  <2>2. CASE q # p
    BY <1>1, <2>2 DEF Count
  <2>3. QED
    BY <2>1, <2>2
<1>10. \A y \in Backend \ {b} : CutsLeaf(y) => page'[th[y].at].ents = page[th[y].at].ents
  <2> TAKE y \in Backend \ {b}
  <2> HAVE CutsLeaf(y)
  <2>1. th[y].at \in Pages /\ th[y].at # p
    BY <1>2, CutFacts DEF KeyInv
  <2>2. QED
    BY <1>1, <2>1
<1>11. \A q \in Pages : LeafOrder(q)'
  <2> TAKE q \in Pages
  <2>1. LeafOrder(q) /\ (Leaf(q)' <=> Leaf(q))
    BY <1>1 DEF KeyInv, LeafInv, SameTree, Leaf
  <2>2. CASE q # p
    <3>1. BeingCut(q) => BeingCut(q)'
      BY <1>1 DEF BeingCut, OnlyMoves
    <3>2. QED
      BY <1>1, <1>7, <2>1, <2>2, <3>1, LeafOrderKept
  <2>3. CASE q = p /\ Leaf(p)
    <3>1. page'[q].ents = new /\ page'[q].sib = page[p].sib /\ Sorted(new)
      BY <1>1, <1>2, <1>4, <2>1, <2>3 DEF LeafOrder
    <3>2. ASSUME page[p].sib # Null
          PROVE  \A i \in 1 .. Len(new) : new[i].k <= page'[page[p].sib].ents[1].k
      <4> DEFINE f == page[page[p].sib].ents[1].k
      <4>1. page[p].sib \in Pages \ {1} /\ Leaf(page[p].sib) /\ f \in Nat
        BY <1>1, <2>3, <3>2, SiblingFacts DEF Leaf, FirstKey
      <4>2. page'[page[p].sib].ents[1].k = f
        BY <1>7, <4>1
      <4>3. \A i \in 1 .. Len(es) : es[i].k <= f
        <5>1. ~BeingCut(p)
          BY <1>1, <1>2, NotCut
        <5>2. NotAbove(p, page[p].sib)
          BY <2>1, <2>3, <3>2, <5>1 DEF LeafOrder
        <5>3. QED
          BY <1>2, <5>2 DEF NotAbove, FirstKey
      <4>4. e.k <= f
        <5>1. ~Beyond(b)
          BY <1>1, <1>2, <2>3, LeafStays
        <5>2. QED
          BY SMTT(30), <1>1, <1>2, <3>2, <4>1, <5>1 DEF Beyond, FirstKey
      <4> HIDE DEF f
      <4>5. QED
        BY <1>4, <4>2, <4>3, <4>4
    <3>3. QED
      BY <2>3, <3>1, <3>2 DEF LeafOrder, NotAbove, Count, FirstKey
  <2>4. QED
    BY <2>1, <2>2, <2>3 DEF LeafOrder
<1>12. QED
  BY <1>1, <1>2, <1>3, <1>7, <1>8, <1>9, <1>10, <1>11, KeyFrame

LEMMA KeyCut ==
  ASSUME Shape, NEW lo, KeyInv(lo), NEW b \in Backend, CutPage(b), ~raced'
  PROVE  KeyInv(lo)'
<1> DEFINE p == th[b].at
           n == th[b].new
           ps == page[p].ents
           ns == page[n].ents
           low == LowHalf(p)
           e == Entry(b)
           m == Count(p) \div 2
<1>1. /\ Pages' = Pages /\ root' = root /\ OnlyMoves(b)
      /\ th[b].pc = "cut" /\ p \in Pages /\ n \in Pages /\ n # p /\ Count(p) >= 3
      /\ th'[b] = [th[b] EXCEPT !.pc = "grow"]
      /\ \A q \in Pages : SameTree(q) /\ page'[q].sib = page[q].sib
      /\ \A q \in Pages \ {p, n} : page'[q].ents = page[q].ents
      /\ \/ /\ th[b].k < th[b].split
            /\ page'[p].ents = Inserted(low, e)
            /\ page'[n].ents = ns
         \/ /\ ~ (th[b].k < th[b].split)
            /\ page'[p].ents = low
            /\ page'[n].ents = Inserted(ns, e)
  BY CutEffect
<1>2. /\ p = th[b].at /\ n = th[b].new /\ Types /\ lock[p] = b /\ Holds(b)
      /\ th[b].level = page[p].level /\ page[n].level = page[p].level
      /\ page[p].sib = n /\ n # 1 /\ PageShape(n)
  BY <1>1 DEF Shape, ThreadShape, Holds, Splits
<1>3. /\ ps \in Seq(Ent) /\ ps = page[p].ents /\ Count(p) = Len(ps) /\ Len(ps) \in Nat
      /\ ns \in Seq(Ent) /\ ns = page[n].ents /\ Count(n) = Len(ns) /\ Len(ns) \in Nat
      /\ Len(ns) > 0 /\ 1 \in 1 .. Len(ns)
      /\ e \in Ent /\ e = Entry(b) /\ e.k = th[b].k /\ th[b].k \in Nat
      /\ th[b].split \in Nat /\ th[b].level \in Nat
      /\ \A i \in 1 .. Len(ps) : ps[i].k \in Nat
      /\ \A i \in 1 .. Len(ns) : ns[i].k \in Nat
  <2>1. /\ ps \in Seq(Ent) /\ Count(p) = Len(ps) /\ Count(p) \in Nat
        /\ \A i \in 1 .. Count(p) : ps[i].k \in Nat
    BY <1>1, <1>2, PageTypes DEF Count
  <2>2. /\ ns \in Seq(Ent) /\ Count(n) = Len(ns) /\ Count(n) \in Nat
        /\ \A i \in 1 .. Count(n) : ns[i].k \in Nat
    BY <1>1, <1>2, PageTypes DEF Count
  <2>3. Count(n) > 0 /\ 1 \in 1 .. Count(n)
    BY <1>2, <2>2 DEF PageShape
  <2>4. /\ e \in Ent /\ e.k = th[b].k /\ th[b].k \in Nat
        /\ th[b].split \in Nat /\ th[b].level \in Nat
    BY <1>2, EntryType, ThreadTypes
  <2>5. QED
    BY <2>1, <2>2, <2>3, <2>4
<1>4. /\ m \in 1 .. Len(ps) - 2 /\ low \in Seq(Ent) /\ Len(low) = m
      /\ \A i \in 1 .. m : low[i] = ps[i]
  BY <1>1, <1>2, <1>3, LowFacts
<1>m. m = Count(p) \div 2
  OBVIOUS
<1>5. th'[b].pc = "grow" /\ th'[b].at = p
  BY <1>1, <1>2, ThreadTypes DEF Thread
<1> HIDE DEF p, n, ps, ns, low, e, m
<1>6. /\ 1 \in 1 .. m /\ 1 \in 1 .. Len(ps) /\ m + 1 \in 1 .. Len(ps) /\ m \in Nat
      /\ \A i \in 1 .. m : i \in 1 .. Len(ps) /\ i <= m + 1
  <2>1. Len(ps) \in Nat /\ m \in 1 .. Len(ps) - 2
    BY <1>3, <1>4
  <2>2. QED
    BY <2>1
<1> DEFINE lowNew == Inserted(low, e)
           nsNew == Inserted(ns, e)
<1>7. /\ Len(lowNew) = m + 1
      /\ \A i \in 1 .. m + 1 : lowNew[i] = e \/ \E j \in 1 .. m : lowNew[i] = low[j]
      /\ lowNew[1].k <= low[1].k /\ (e.k >= low[1].k => lowNew[1].k = low[1].k)
      /\ Sorted(low) => Sorted(lowNew)
  <2>1. low \in Seq(Ent) /\ e \in Ent /\ Len(low) = m /\ Len(low) > 0
    BY <1>3, <1>4, <1>6
  <2>2. QED
    BY <2>1, InsertedFacts
<1>8. /\ Len(nsNew) = Len(ns) + 1
      /\ \A i \in 1 .. Len(ns) + 1 : nsNew[i] = e \/ \E j \in 1 .. Len(ns) : nsNew[i] = ns[j]
      /\ nsNew[1].k <= ns[1].k /\ (e.k >= ns[1].k => nsNew[1].k = ns[1].k)
      /\ Sorted(ns) => Sorted(nsNew)
  BY <1>3, InsertedFacts
<1> HIDE DEF lowNew, nsNew
<1>9. \/ th[b].k < th[b].split /\ page'[p].ents = lowNew /\ page'[n].ents = ns
      \/ ~ (th[b].k < th[b].split) /\ page'[p].ents = low /\ page'[n].ents = nsNew
  BY <1>1 DEF lowNew, nsNew
<1>10. low[1].k = ps[1].k /\ ps[1].k \in Nat /\ ns[1].k \in Nat
  BY <1>3, <1>4, <1>6
(* What a cut leaf is known to be.                                         *)
<1>11. ASSUME Leaf(p)
       PROVE  /\ Leaf(n) /\ ns[1].k = th[b].split /\ ps[m + 1].k = th[b].split
              /\ p # 1 => e.k >= ps[1].k
              /\ page[n].sib # Null => e.k <= page[page[n].sib].ents[1].k
              /\ ~BeingCut(n)
  <2>1. CutsLeaf(b) /\ CutAt(b) /\ Leaf(n)
    BY <1>1, <1>2, <1>11 DEF CutsLeaf, Leaf, KeyInv, LeafInv
  <2>2. p # 1 => e.k >= ps[1].k
    BY <1>1, <1>2, <1>3, <1>11, LeafFirst DEF FirstKey
  <2>3. /\ ns[1].k = th[b].split /\ ps[m + 1].k = th[b].split
        /\ page[n].sib # Null => e.k <= page[page[n].sib].ents[1].k
    BY <1>1, <1>2, <1>3, <1>m, <1>11, <2>1 DEF CutAt, FirstKey
  <2>4. ~BeingCut(n)
    <3> SUFFICES ASSUME NEW o \in Backend, th[o].pc = "cut", th[o].at = n PROVE FALSE
      BY DEF BeingCut
    <3>1. o # b
      BY <1>1, <1>2
    <3>2. KeepsOff(o, n, p)
      BY <1>2, <2>1, <3>1, CutFacts DEF KeyInv
    <3>3. QED
      BY <3>2 DEF KeepsOff
  <2>5. QED
    BY <2>1, <2>2, <2>3, <2>4
<1>12. \A q \in Pages : Leaf(q) /\ q # 1 => page'[q].ents[1].k = page[q].ents[1].k
  <2> TAKE q \in Pages
  <2> HAVE Leaf(q) /\ q # 1
  <2>1. CASE q = p
    <3>1. e.k >= low[1].k
      BY <1>10, <1>11, <2>1
    <3>2. QED
      BY <1>3, <1>7, <1>9, <1>10, <2>1, <3>1
  <2>2. CASE q = n
    <3>1. Leaf(p)
      BY <1>2, <2>2 DEF Leaf
    <3>2. ~ (th[b].k < th[b].split) => e.k >= ns[1].k
      BY <1>3, <1>11, <3>1
    <3>3. QED
      BY <1>3, <1>8, <1>9, <2>2, <3>2
  <2>3. CASE q # p /\ q # n
    BY <1>1, <2>3
  <2>4. QED
    BY <2>1, <2>2, <2>3
<1>13. \A q \in Pages : ~Leaf(q) => \A k \in Nat : k >= page[q].ents[1].k =>
                                                      k >= page'[q].ents[1].k
  <2> TAKE q \in Pages
  <2> SUFFICES ASSUME ~Leaf(q), NEW k \in Nat, k >= page[q].ents[1].k
               PROVE  k >= page'[q].ents[1].k
    OBVIOUS
  <2>1. e.k \in Nat /\ low[1].k \in Nat
    BY <1>3, <1>10
  <2>2. lowNew[1].k \in Nat /\ nsNew[1].k \in Nat
    <3>1. lowNew[1] = e \/ \E j \in 1 .. m : lowNew[1] = low[j]
      BY <1>6, <1>7
    <3>2. nsNew[1] = e \/ \E j \in 1 .. Len(ns) : nsNew[1] = ns[j]
      BY <1>3, <1>8
    <3>3. \A j \in 1 .. m : low[j].k \in Nat
      BY <1>3, <1>4, <1>6
    <3>4. QED
      BY <1>3, <2>1, <3>1, <3>2, <3>3
  <2>3. CASE q = p
    <3>1. k >= low[1].k
      BY <1>3, <1>10, <2>3
    <3>2. k >= lowNew[1].k
      BY <1>7, <2>1, <2>2, <3>1
    <3>3. QED
      BY <1>9, <2>3, <3>1, <3>2
  <2>4. CASE q = n
    BY SMTT(30), <1>3, <1>8, <1>9, <1>10, <2>1, <2>2, <2>4
  <2>5. CASE q # p /\ q # n
    BY <1>1, <2>5
  <2>6. QED
    BY <2>3, <2>4, <2>5
<1>14. \A q \in Pages : ~Leaf(q) => \A i \in 1 .. Len(page'[q].ents) :
         \/ \E j \in 1 .. Count(q) : page'[q].ents[i] = page[q].ents[j]
         \/ page'[q].ents[i] = Entry(b) /\ th[b].level > 0
  <2> TAKE q \in Pages
  <2> HAVE ~Leaf(q)
  <2>1. q \in {p, n} => th[b].level > 0
    BY <1>2, <1>3 DEF Leaf
  <2>2. CASE q = p
    <3>1. \A i \in 1 .. m : \E j \in 1 .. Count(q) : low[i] = page[q].ents[j]
      BY <1>3, <1>4, <1>6, <2>2
    <3>2. \A i \in 1 .. m + 1 :
            lowNew[i] = e \/ \E j \in 1 .. Count(q) : lowNew[i] = page[q].ents[j]
      BY <1>7, <3>1
    <3>3. QED
      <4>1. CASE page'[p].ents = low
        BY <1>4, <2>2, <3>1, <4>1
      <4>2. CASE page'[p].ents = lowNew
        BY <1>3, <1>7, <2>1, <2>2, <3>2, <4>2
      <4>3. QED
        BY <1>9, <4>1, <4>2
  <2>3. CASE q = n
    BY <1>3, <1>8, <1>9, <2>1, <2>3
  <2>4. CASE q # p /\ q # n
    BY <1>1, <2>4 DEF Count
  <2>5. QED
    BY <2>2, <2>3, <2>4
<1>15. \A y \in Backend \ {b} : CutsLeaf(y) => page'[th[y].at].ents = page[th[y].at].ents
  <2> TAKE y \in Backend \ {b}
  <2> HAVE CutsLeaf(y)
  <2>1. th[y].at \in Pages /\ th[y].at # p /\ Leaf(th[y].at)
    BY <1>2, CutFacts DEF KeyInv
  <2>2. th[y].at # n
    <3>1. th[y].at = n => Leaf(p) /\ BeingCut(n)
      BY <1>2, <2>1 DEF BeingCut, CutsLeaf, Leaf
    <3>2. QED
      BY <1>11, <3>1
  <2>3. QED
    BY <1>1, <2>1, <2>2
<1>16. \A q \in Pages : LeafOrder(q)'
  <2> TAKE q \in Pages
  <2>1. LeafOrder(q) /\ (Leaf(q)' <=> Leaf(q)) /\ LeafOrder(p) /\ LeafOrder(n)
    BY <1>1 DEF KeyInv, LeafInv, SameTree, Leaf
  <2>2. CASE q # p /\ q # n
    <3>1. BeingCut(q) => BeingCut(q)'
      BY <1>1, <1>2, <2>2 DEF BeingCut, OnlyMoves
    <3>2. QED
      BY <1>1, <1>12, <2>1, <2>2, <3>1, LeafOrderKept
  <2>3. ASSUME q = p, Leaf(p) PROVE LeafOrder(q)'
    <3>1. Sorted(ps)
      BY <1>3, <2>1, <2>3 DEF LeafOrder
    <3>2. Sorted(low)
      BY <1>4, <1>6, <3>1 DEF Sorted
    <3>3. \A i \in 1 .. m : low[i].k <= th[b].split
      BY <1>4, <1>6, <1>11, <2>3, <3>1 DEF Sorted
    <3>4. page'[n].ents[1].k = th[b].split
      BY <1>1, <1>2, <1>3, <1>11, <1>12, <2>3
    <3>5. Sorted(page'[p].ents)
      BY <1>7, <1>9, <3>2
    <3>6. \A i \in 1 .. Len(page'[p].ents) : page'[p].ents[i].k <= th[b].split
      <4>1. th[b].k < th[b].split => \A i \in 1 .. m + 1 : lowNew[i].k <= th[b].split
        BY <1>3, <1>7, <3>3
      <4>2. QED
        BY <1>4, <1>7, <1>9, <3>3, <4>1
    <3>7. page'[q].sib = n
      BY <1>1, <1>2, <2>3
    <3>8. QED
      BY <2>3, <3>4, <3>5, <3>6, <3>7 DEF LeafOrder, NotAbove, FirstKey, Count
  <2>4. ASSUME q = n, Leaf(n) PROVE LeafOrder(q)'
    <3>1. Leaf(p)
      BY <1>2, <2>4 DEF Leaf
    <3>2. Sorted(page'[n].ents)
      BY <1>3, <1>8, <1>9, <2>1, <2>4 DEF LeafOrder
    <3>3. ASSUME page[n].sib # Null
          PROVE  \A i \in 1 .. Len(page'[n].ents) :
                   page'[n].ents[i].k <= page'[page[n].sib].ents[1].k
      <4> DEFINE f == page[page[n].sib].ents[1].k
      <4>1. page[n].sib \in Pages \ {1} /\ Leaf(page[n].sib)
        BY <1>1, <2>4, <3>3, SiblingFacts DEF Leaf
      <4>2. page'[page[n].sib].ents[1].k = f
        BY <1>12, <4>1
      <4>3. \A i \in 1 .. Len(ns) : ns[i].k <= f
        <5>1. NotAbove(n, page[n].sib)
          BY <1>11, <2>1, <2>4, <3>1, <3>3 DEF LeafOrder
        <5>2. QED
          BY <1>3, <5>1 DEF NotAbove, FirstKey
      <4>4. e.k <= f
        BY <1>11, <3>1, <3>3
      <4> HIDE DEF f
      <4>5. \A i \in 1 .. Len(nsNew) : nsNew[i].k <= f
        BY <1>8, <4>3, <4>4
      <4>6. QED
        BY <1>9, <4>2, <4>3, <4>5
    <3>4. page'[q].sib = page[n].sib
      BY <1>1, <2>4
    <3>5. QED
      BY <2>4, <3>2, <3>3, <3>4 DEF LeafOrder, NotAbove, FirstKey, Count
  <2>5. QED
    BY <2>1, <2>2, <2>3, <2>4 DEF LeafOrder
<1>17. QED
  BY <1>1, <1>2, <1>5, <1>12, <1>13, <1>14, <1>15, <1>16, KeyFrame

(* A page is appended: the keys of the others stay what they are.          *)
LEMMA LowExtended ==
  ASSUME Shape, NEW lo, LowKeys(lo), NEW b \in Backend, OnlyMoves(b),
         NEW n, Pages' = Pages \cup {n},
         \A q \in Pages : SameTree(q) /\ page'[q].ents = page[q].ents,
         NEW lo2, lo2 \in [Pages' -> Nat], \A q \in Pages : lo2[q] = lo[q],
         lo2[root'] = 0, PageLow(lo2, n)', ThreadLow(lo2, b)'
  PROVE  LowKeys(lo2)'
<1>1. \A q \in Pages : PageLow(lo2, q)'
  <2> TAKE q \in Pages
  <2>1. PageLow(lo, q) /\ PageShape(q) /\ SameTree(q) /\ page'[q].ents = page[q].ents
    BY DEF LowKeys, Shape
  <2>2. ~Leaf(q) => /\ page[q].left \in Pages
                    /\ \A i \in 1 .. Count(q) : page[q].ents[i].c \in Pages
    BY <2>1 DEF PageShape, Below
  <2>3. QED
    BY <2>1, <2>2 DEF PageLow, SameTree, Leaf, FirstKey, Count
<1>2. \A o \in Backend \ {b} : ThreadLow(lo2, o)'
  <2> TAKE o \in Backend \ {b}
  <2>1. /\ ThreadLow(lo, o) /\ th'[o] = th[o] /\ th[o].at \in Pages
        /\ th[o].level > 0 /\ th[o].pc # "idle" => th[o].c \in Pages
        /\ Splits(o) => th[o].new \in Pages
    BY DEF LowKeys, OnlyMoves, Shape, ThreadShape, Below
  <2>2. page'[th[o].at].level = page[th[o].at].level /\ page'[th[o].at].ents = page[th[o].at].ents
    BY <2>1 DEF SameTree
  <2>3. QED
    BY <2>1, <2>2 DEF ThreadLow, Splits, Leaf, Enters, FirstKey
<1>3. QED
  BY <1>1, <1>2 DEF LowKeys

LEMMA KeySplit ==
  ASSUME Shape, NEW lo, KeyInv(lo), NEW b \in Backend, SplitPage(b)
  PROVE  \E lo2 : KeyInv(lo2)'
<1> DEFINE p == th[b].at
           ps == page[p].ents
           m == Count(p) \div 2
           d == IF Leaf(p) THEN m ELSE m + 1
           Facts(n) ==
             /\ Pages' = Pages \cup {n} /\ n \notin Pages /\ n # 1
             /\ th'[b] = [th[b] EXCEPT !.pc = "cut", !.new = n, !.split = ps[m + 1].k,
                                !.cnt = Len(page'[n].ents)]
             /\ \A q \in Pages :
                  /\ SameTree(q) /\ page'[q].ents = page[q].ents
                  /\ page'[q].sib = IF q = p THEN n ELSE page[q].sib
             /\ page'[n].level = page[p].level /\ page'[n].sib = page[p].sib
             /\ Leaf(p) => page'[n].left = Null
             /\ ~Leaf(p) => page'[n].left = ps[m + 1].c
             /\ Len(page'[n].ents) = Count(p) - d
             /\ \A i \in 1 .. Count(p) - d : page'[n].ents[i] = ps[i + d]
<1>1. Facts(Len(page) + 1)
  BY SplitEffect DEF Half
<1>2. /\ root' = root /\ OnlyMoves(b) /\ th[b].pc = "locked" /\ MayStay(b) /\ p \in Pages
      /\ m \in 1 .. Count(p) - 2
  BY SplitEffect
<1>3. PICK n : Facts(n)
  BY <1>1
<1>4. /\ p = th[b].at /\ Types /\ lock[p] = b /\ Holds(b) /\ th[b].level = page[p].level
      /\ ps = page[p].ents /\ Count(p) \in Nat /\ PageShape(p)
      /\ \A i \in 1 .. Count(p) : ps[i].k \in Nat
      /\ LowKeys(lo) /\ ThreadLow(lo, b) /\ PageLow(lo, p) /\ LeafInv /\ AloneInv
  BY <1>2, PageTypes DEF Shape, ThreadShape, Holds, KeyInv, LowKeys
<1>5. /\ m + 1 \in 1 .. Count(p) /\ m \in Nat /\ 1 \in 1 .. Count(p) - d
      /\ \A i \in 1 .. Count(p) - d : i + d \in 1 .. Count(p)
      /\ m + 1 \in 1 .. Len(ps) /\ Count(p) = Len(ps) /\ d \in Nat
  <2>1. Count(p) = Len(ps) /\ Count(p) \in Nat
    BY <1>4 DEF Count
  <2>2. m \in 1 .. Count(p) - 2
    BY <1>2
  <2> HIDE DEF m
  <2>3. m \in Nat /\ m + 1 \in 1 .. Count(p)
    BY <2>1, <2>2
  <2>4. d \in Nat /\ d <= Count(p) - 1
    BY <2>1, <2>2
  <2> HIDE DEF d
  <2>5. 1 \in 1 .. Count(p) - d /\ \A i \in 1 .. Count(p) - d : i + d \in 1 .. Count(p)
    BY <2>1, <2>4
  <2>6. QED
    BY <2>1, <2>3, <2>4, <2>5
<1>6. m = Count(p) \div 2 /\ (Leaf(p) => d = m)
  OBVIOUS
<1> DEFINE mid == ps[m + 1]
<1>7. mid.k \in Nat /\ mid = ps[m + 1]
  BY <1>4, <1>5
<1> HIDE DEF p, ps, m, d, mid
<1>8. /\ \A o \in Backend \ {b} : th'[o] = th[o]
      /\ \A q \in Pages : /\ Leaf(q)' <=> Leaf(q)
                          /\ page'[q].level = page[q].level /\ page'[q].left = page[q].left
                          /\ page'[q].ents = page[q].ents
                          /\ q # p => page'[q].sib = page[q].sib
      /\ page'[p].sib = n
  BY <1>2, <1>3 DEF OnlyMoves, SameTree, Leaf
<1>9. /\ th'[b].pc = "cut" /\ th'[b].at = p /\ th'[b].new = n /\ th'[b].split = mid.k
      /\ th'[b].level = th[b].level /\ th'[b].k = th[b].k /\ th'[b].c = th[b].c
  BY <1>3, <1>4, <1>7, ThreadTypes DEF Thread
<1>10. n \in Pages' /\ n \notin Pages /\ n # p /\ (Leaf(n)' <=> Leaf(p))
  BY <1>2, <1>3 DEF Leaf
<1>11. ~BeingCut(p)
  BY <1>2, <1>4, NotCut
(* The halves of a leaf.                                                   *)
<1>12. ASSUME Leaf(p)
       PROVE  /\ page'[n].ents[1] = mid /\ Sorted(page'[n].ents) /\ Sorted(ps)
              /\ page[p].sib # Null =>
                   /\ \A i \in 1 .. Len(ps) : ps[i].k <= FirstKey(page[p].sib)
                   /\ th[b].k <= FirstKey(page[p].sib)
  <2>1. LeafOrder(p)
    BY <1>2, <1>4 DEF LeafInv
  <2>2. Sorted(ps)
    BY <1>4, <1>12, <2>1 DEF LeafOrder
  <2>3. page'[n].ents[1] = mid
    <3>1. page'[n].ents[1] = ps[1 + d]
      BY <1>3, <1>5
    <3>2. 1 + d = m + 1
      BY <1>5, <1>6, <1>12
    <3>3. QED
      BY <1>7, <3>1, <3>2
  <2>4. Sorted(page'[n].ents)
    <3> SUFFICES ASSUME NEW i \in 1 .. Count(p) - d, NEW j \in 1 .. Count(p) - d, i <= j
                 PROVE  page'[n].ents[i].k <= page'[n].ents[j].k
      BY <1>3 DEF Sorted
    <3>1. /\ i + d \in 1 .. Len(ps) /\ j + d \in 1 .. Len(ps) /\ i + d <= j + d
      BY <1>5
    <3>2. QED
      BY <1>3, <2>2, <3>1 DEF Sorted
  <2>5. ASSUME page[p].sib # Null
        PROVE  /\ \A i \in 1 .. Len(ps) : ps[i].k <= FirstKey(page[p].sib)
               /\ th[b].k <= FirstKey(page[p].sib)
    <3>1. FirstKey(page[p].sib) \in Nat /\ th[b].k \in Nat
      BY <1>2, <1>4, <2>5, SiblingFacts, ThreadTypes
    <3>2. NotAbove(p, page[p].sib)
      BY <1>11, <1>12, <2>1, <2>5 DEF LeafOrder
    <3>3. ~Beyond(b)
      BY <1>2, <1>4, <1>12, LeafStays
    <3>4. QED
      BY <1>2, <1>4, <1>5, <2>5, <3>1, <3>2, <3>3 DEF NotAbove, Beyond
  <2>6. QED
    BY <2>2, <2>3, <2>4, <2>5
<1>13. \A q \in Pages : page[q].sib # Null =>
         page'[page[q].sib].ents[1].k = page[page[q].sib].ents[1].k
  BY <1>8, SiblingFacts
<1>14. \A q \in Pages' : LeafOrder(q)'
  <2> TAKE q \in Pages'
  <2>1. CASE q \in Pages /\ q # p
    <3>1. BeingCut(q) => BeingCut(q)'
      BY <1>2, <1>8 DEF BeingCut
    <3>2. LeafOrder(q) /\ SameTree(q)
      BY <1>4, <1>8, <2>1 DEF LeafInv, SameTree
    <3>3. QED
      BY <1>8, <2>1, <3>1, <3>2, LeafOrderKept
  <2>2. CASE q = p
    <3>1. BeingCut(q)'
      BY <1>9, <2>2 DEF BeingCut
    <3>2. Leaf(q)' => Sorted(page'[q].ents)
      BY <1>2, <1>4, <1>8, <1>12, <2>2
    <3>3. QED
      BY <3>1, <3>2 DEF LeafOrder
  <2>3. CASE q = n
    <3>1. page'[n].sib = page[p].sib /\ (Leaf(q)' <=> Leaf(p))
      BY <1>3, <1>10, <2>3
    <3>2. ASSUME Leaf(p), page[p].sib # Null
          PROVE  \A i \in 1 .. Len(page'[n].ents) :
                   page'[n].ents[i].k <= page'[page[p].sib].ents[1].k
      <4>1. page'[page[p].sib].ents[1].k = FirstKey(page[p].sib)
        BY <1>2, <1>13, <3>2 DEF FirstKey
      <4>2. \A i \in 1 .. Count(p) - d : ps[i + d].k <= FirstKey(page[p].sib)
        BY <1>5, <1>12, <3>2
      <4>3. QED
        BY <1>3, <4>1, <4>2
    <3>3. QED
      BY <1>12, <2>3, <3>1, <3>2 DEF LeafOrder, NotAbove, FirstKey, Count
  <2>4. QED
    BY <1>3, <2>1, <2>2, <2>3
<1>15. \A o \in Backend : RightAt(o)'
  <2> TAKE o \in Backend
  <2>1. CASE o = b
    BY <1>9, <2>1 DEF RightAt
  <2>2. CASE o # b
    <3>1. RightAt(o) /\ th'[o] = th[o] /\ th[o].at \in Pages /\ th[o].k \in Nat
      BY <1>4, <1>8, <2>2, ThreadTypes DEF LeafInv, Shape, ThreadShape
    <3> SUFFICES ASSUME th[o].pc = "right", Leaf(th[o].at)
                 PROVE  th[o].k > page'[page'[th[o].at].sib].ents[1].k
      BY <1>8, <3>1 DEF RightAt, FirstKey
    <3>2. /\ page[th[o].at].sib # Null
          /\ th[o].k > FirstKey(page[th[o].at].sib)
      BY <3>1 DEF Shape, ThreadShape, RightAt
    <3>3. CASE th[o].at # p
      BY <1>8, <1>13, <3>1, <3>2, <3>3 DEF FirstKey
    <3>4. CASE th[o].at = p
      <4>1. mid.k <= FirstKey(page[p].sib) /\ FirstKey(page[p].sib) \in Nat
        BY <1>2, <1>5, <1>7, <1>12, <3>2, <3>4, SiblingFacts
      <4>2. page'[page'[p].sib].ents[1].k = mid.k
        BY <1>8, <1>12, <3>4
      <4>3. QED
        BY <1>7, <3>1, <3>2, <3>4, <4>1, <4>2
    <3>5. QED
      BY <3>3, <3>4
  <2>3. QED
    BY <2>1, <2>2
<1>16. \A o \in Backend : CutAt(o)'
  <2> TAKE o \in Backend
  <2>1. CASE o = b
    <3> SUFFICES ASSUME Leaf(p)
                 PROVE  /\ mid.k = page'[n].ents[1].k
                        /\ mid.k = page'[p].ents[Len(page'[p].ents) \div 2 + 1].k
                        /\ page'[n].sib # Null => th[b].k <= page'[page'[n].sib].ents[1].k
      BY <1>2, <1>8, <1>9, <2>1 DEF CutAt, FirstKey, Count
    <3>1. mid.k = page'[n].ents[1].k
      BY <1>12
    <3>2. page'[p].ents = ps /\ Len(ps) \div 2 = m
      BY <1>2, <1>4, <1>5, <1>6, <1>8
    <3>3. page'[n].sib # Null => th[b].k <= page'[page'[n].sib].ents[1].k
      BY <1>2, <1>3, <1>12, <1>13 DEF FirstKey
    <3>4. QED
      BY <1>7, <3>1, <3>2, <3>3
  <2>2. CASE o # b
    <3>1. CutAt(o) /\ th'[o] = th[o] /\ th[o].at \in Pages
      BY <1>4, <1>8, <2>2 DEF LeafInv, Shape, ThreadShape
    <3> SUFFICES ASSUME CutsLeaf(o) PROVE CutAt(o)'
      BY <1>8, <3>1 DEF CutAt, CutsLeaf
    <3> DEFINE y == th[o].at
               x == th[o].new
    <3>2. y \in Pages /\ x \in Pages \ {1} /\ x # p /\ y # p
      BY <1>2, <1>4, <2>2, CutFacts, OffCut
    <3>3. /\ th[o].split = page[x].ents[1].k
          /\ th[o].split = page[y].ents[Count(y) \div 2 + 1].k
          /\ page[x].sib # Null => th[o].k <= page[page[x].sib].ents[1].k
      BY <3>1 DEF CutAt, CutsLeaf, FirstKey
    <3>4. /\ page'[x].ents = page[x].ents /\ page'[y].ents = page[y].ents
          /\ page'[x].sib = page[x].sib
      BY <1>8, <3>2
    <3>5. /\ th'[o].split = page'[x].ents[1].k
          /\ th'[o].split = page'[y].ents[Len(page'[y].ents) \div 2 + 1].k
          /\ page'[x].sib # Null => th'[o].k <= page'[page'[x].sib].ents[1].k
      BY <1>13, <3>1, <3>2, <3>3, <3>4 DEF Count
    <3>6. th'[o].at = y /\ th'[o].new = x
      BY <3>1
    <3> HIDE DEF x, y
    <3>7. QED
      BY <3>5, <3>6 DEF CutAt, FirstKey, Count
  <2>3. QED
    BY <2>1, <2>2
<1>17. PICK lo2 : lo2 = [q \in Pages' |-> IF q # n THEN lo[q]
                                          ELSE IF Leaf(p) THEN mid.k ELSE lo[mid.c]]
  OBVIOUS
<1>18. ~Leaf(p) => mid.c \in Pages
  BY <1>4, <1>5, <1>7 DEF PageShape, Below
<1>19. lo \in [Pages -> Nat] /\ lo[root] = 0 /\ root \in Pages
  BY <1>4 DEF LowKeys, Types
<1>20. /\ lo2 \in [Pages' -> Nat] /\ \A q \in Pages : lo2[q] = lo[q]
       /\ lo2[n] = IF Leaf(p) THEN mid.k ELSE lo[mid.c]
  BY <1>3, <1>7, <1>10, <1>17, <1>18, <1>19
<1>21. PageLow(lo2, n)'
  <2>1. CASE Leaf(p)
    BY <1>3, <1>10, <1>12, <1>20, <2>1 DEF PageLow, FirstKey
  <2>2. CASE ~Leaf(p)
    <3>1. page'[n].left = mid.c /\ lo2[n] = lo2[page'[n].left]
      BY <1>3, <1>7, <1>18, <1>20, <2>2
    <3>2. \A i \in 1 .. Len(page'[n].ents) : lo2[page'[n].ents[i].c] <= page'[n].ents[i].k
      <4> SUFFICES ASSUME NEW i \in 1 .. Count(p) - d
                   PROVE  lo2[ps[i + d].c] <= ps[i + d].k
        BY <1>3
      <4>1. i + d \in 1 .. Count(p)
        BY <1>5
      <4>2. lo[ps[i + d].c] <= ps[i + d].k /\ ps[i + d].c \in Pages
        BY <1>4, <2>2, <4>1 DEF PageLow, PageShape, Below
      <4>3. QED
        BY <1>20, <4>2
    <3>3. QED
      BY <1>10, <2>2, <3>1, <3>2 DEF PageLow, Count
  <2>3. QED
    BY <2>1, <2>2
<1>22. ThreadLow(lo2, b)'
  <2>1. th[b].level > 0 => lo2[th[b].c] <= th[b].k
    <3> HAVE th[b].level > 0
    <3>1. lo[th[b].c] <= th[b].k /\ th[b].c \in Pages
      BY <1>2, <1>4 DEF ThreadLow, Shape, ThreadShape, Below
    <3>2. QED
      BY <1>20, <3>1
  <2>2. lo2[n] <= mid.k
    <3>1. ~Leaf(p) => lo[mid.c] <= mid.k
      BY <1>4, <1>5, <1>7 DEF PageLow
    <3>2. QED
      BY <1>7, <1>20, <3>1
  <2>3. (Leaf(p) \/ th[b].level < page[p].level) => Enters(lo, th[b].k, p)
    BY <1>2, <1>4 DEF ThreadLow
  <2>4. Enters(lo, th[b].k, p) =>
          th[b].k >= lo2[p] \/ (page'[p].level # 0 /\ th[b].k >= page'[p].ents[1].k)
    BY <1>2, <1>8, <1>20 DEF Enters, Leaf, FirstKey
  <2>5. QED
    BY <1>2, <1>8, <1>9, <2>1, <2>2, <2>3, <2>4 DEF ThreadLow, Splits, Enters, Leaf, FirstKey
<1>23. LowKeys(lo2)'
  <2>1. Pages' = Pages \cup {n} /\ \A q \in Pages : SameTree(q) /\ page'[q].ents = page[q].ents
    BY <1>3
  <2>2. lo2[root'] = 0 /\ OnlyMoves(b) /\ LowKeys(lo)
    BY <1>2, <1>4, <1>19, <1>20
  <2> HIDE DEF Facts
  <2>3. QED
    BY <1>20, <1>21, <1>22, <2>1, <2>2, LowExtended
<1>24. \A y \in Backend : CutsLeaf(y)' =>
         /\ Unknown(th[y].new, th[y].at)'
         /\ \A o \in Backend \ {y} : KeepsOff(o, th[y].new, th[y].at)'
  <2> TAKE y \in Backend
  <2> HAVE CutsLeaf(y)'
  <2>1. CASE y = b
    <3>1. Leaf(p)
      BY <1>2, <1>8, <1>9, <2>1 DEF CutsLeaf
    <3>2. Unknown(th[y].new, th[y].at)'
      <4>1. \A q \in Pages : /\ page[q].sib # n
                             /\ ~Leaf(q) =>
                                  /\ page[q].left # n
                                  /\ \A i \in 1 .. Count(q) : page[q].ents[i].c # n
        <5> TAKE q \in Pages
        <5>1. PageShape(q) /\ n # Null
          <6>1. n \in Pages' /\ Types'
            BY <1>10, ShapeSplit DEF Shape
          <6>2. PageShape(q)
            BY DEF Shape
          <6>3. Pages' = 1 .. Len(page')
            BY <6>1 DEF Types, Pages
          <6>4. QED
            BY <6>1, <6>2, <6>3 DEF Null
        <5>2. QED
          BY <1>10, <5>1 DEF PageShape, Below
      <4>2. page'[n].sib # n /\ page'[n].level = 0 /\ root' # n
        BY <1>2, <1>3, <1>10, <1>19, <3>1, <4>1 DEF Leaf
      <4>3. \A q \in Pages' : /\ page'[q].sib = n => q = p
                              /\ ~ (page'[q].level = 0) =>
                                   /\ page'[q].left # n
                                   /\ \A i \in 1 .. Len(page'[q].ents) : page'[q].ents[i].c # n
        <5> TAKE q \in Pages'
        <5>1. CASE q \in Pages
          BY <1>8, <4>1, <5>1 DEF Leaf, Count
        <5>2. CASE q = n
          BY <4>2, <5>2
        <5>3. QED
          BY <1>3, <5>1, <5>2
      <4>4. th'[y].new = n /\ th'[y].at = p
        BY <1>9, <2>1
      <4> HIDE DEF Facts
      <4>5. QED
        BY <4>2, <4>3, <4>4 DEF Unknown, Leaf, Count
    <3>3. ASSUME NEW o \in Backend \ {b} PROVE KeepsOff(o, th[y].new, th[y].at)'
      <4>1. /\ th'[o] = th[o] /\ th[o].at \in Pages
            /\ th[o].level > 0 /\ th[o].pc # "idle" => th[o].c \in Pages
            /\ Splits(o) => th[o].new \in Pages
            /\ th[o].pc = "right" => page[th[o].at].sib # Null
        BY <1>8 DEF Shape, ThreadShape, Below
      <4>2. ASSUME th[o].at = p, th[o].pc = "right"
            PROVE  page'[n].sib # Null /\ th[o].k > page'[page'[n].sib].ents[1].k
        <5>1. RightAt(o)
          BY <1>4 DEF LeafInv
        <5>2. QED
          BY <1>2, <1>3, <1>13, <3>1, <4>1, <4>2, <5>1 DEF RightAt, FirstKey
      <4>3. QED
        BY <1>9, <1>10, <2>1, <4>1, <4>2 DEF KeepsOff, Splits, Past, FirstKey
    <3>4. QED
      BY <2>1, <3>2, <3>3
  <2>2. CASE y # b
    <3> DEFINE s == th[y].at
               x == th[y].new
    <3>1. CutsLeaf(y) /\ th'[y] = th[y]
      BY <1>8, <2>2 DEF CutsLeaf, Shape, ThreadShape
    <3>2. /\ s \in Pages /\ x \in Pages \ {1, s} /\ Leaf(x) /\ Unknown(x, s)
          /\ \A o \in Backend \ {y} : KeepsOff(o, x, s)
          /\ p # s /\ p # x
      BY <1>2, <1>4, <2>2, <3>1, CutFacts, OffCut
    <3>3. th'[y].new = x /\ th'[y].at = s
      BY <3>1
    <3> HIDE DEF s, x
    <3>4. Unknown(th[y].new, th[y].at)'
      <4>1. page[p].sib # x /\ (~Leaf(p) => mid.c # x)
        BY <1>2, <1>4, <1>5, <1>7, <3>2 DEF Unknown
      <4>2. ~Leaf(p) => \A i \in 1 .. Len(page'[n].ents) : page'[n].ents[i].c # x
        <5> HAVE ~Leaf(p)
        <5>1. \A i \in 1 .. Count(p) : ps[i].c # x
          BY <1>2, <1>4, <3>2 DEF Unknown
        <5>2. QED
          BY SMTT(30), <1>3, <1>5, <5>1
      <4>3. \A q \in Pages : /\ page'[q].sib = x => q = s
                             /\ ~Leaf(q) =>
                                  /\ page'[q].left # x
                                  /\ \A i \in 1 .. Len(page'[q].ents) : page'[q].ents[i].c # x
        BY <1>8, <1>10, <3>2 DEF Unknown, Count
      <4>4. root' # x
        BY <1>2, <3>2 DEF Unknown
      <4>5. \A q \in Pages' : /\ page'[q].sib = x => q = s
                              /\ ~ (page'[q].level = 0) =>
                                   /\ page'[q].left # x
                                   /\ \A i \in 1 .. Len(page'[q].ents) : page'[q].ents[i].c # x
        <5> TAKE q \in Pages'
        <5>1. CASE q \in Pages
          BY <1>8, <4>3, <5>1 DEF Leaf
        <5>2. CASE q = n
          BY <1>3, <1>7, <4>1, <4>2, <5>2 DEF Leaf
        <5>3. QED
          BY <1>3, <5>1, <5>2
      <4>6. QED
        BY <3>3, <4>4, <4>5 DEF Unknown, Leaf, Count
    <3>5. ASSUME NEW o \in Backend \ {y} PROVE KeepsOff(o, th[y].new, th[y].at)'
      <4>1. KeepsOff(o, x, s)
        BY <3>2
      <4>2. CASE o = b
        <5>1. th[b].level > 0 => th[b].c # x
          BY <1>2, <4>1, <4>2 DEF KeepsOff
        <5>2. n # x
          BY <1>10, <3>2
        <5>3. QED
          BY <1>9, <3>2, <3>3, <4>2, <5>1, <5>2 DEF KeepsOff
      <4>3. CASE o # b
        <5>1. th'[o] = th[o]
          BY <1>8, <4>3
        <5>2. Past(o, x) => page'[x].sib # Null /\ th[o].k > page'[page'[x].sib].ents[1].k
          BY <1>8, <1>13, <3>2 DEF Past, FirstKey
        <5>3. QED
          BY <3>3, <4>1, <5>1, <5>2 DEF KeepsOff, Splits, Past, FirstKey
      <4>4. QED
        BY <4>2, <4>3
    <3>6. QED
      BY <3>4, <3>5
  <2>3. QED
    BY <2>1, <2>2
<1>25. AloneInv'
  BY <1>24 DEF AloneInv, Alone, CutsLeaf
<1>26. LeafInv'
  BY <1>14, <1>15, <1>16 DEF LeafInv
<1>27. QED
  BY <1>23, <1>25, <1>26 DEF KeyInv

LEMMA KeyGrow ==
  ASSUME Shape, NEW lo, KeyInv(lo), NEW b \in Backend, GrowRoot(b)
  PROVE  \E lo2 : KeyInv(lo2)'
<1> DEFINE p == th[b].at
           Facts(n) ==
             /\ Pages' = Pages \cup {n} /\ n \notin Pages /\ root' = n
             /\ \A q \in Pages : page'[q] = page[q]
             /\ page'[n].level = page[p].level + 1 /\ page'[n].left = p
             /\ page'[n].sib = Null /\ Len(page'[n].ents) = 1
             /\ page'[n].ents[1].k = th[b].split /\ page'[n].ents[1].c = th[b].new
<1>1. Facts(Len(page) + 1)
  BY GrowEffect
<1>2. /\ root = p /\ OnlyMoves(b) /\ th[b].pc = "grow" /\ p \in Pages
      /\ th'[b] = Finished(b)
  BY GrowEffect
<1>3. PICK n : Facts(n)
  BY <1>1
<1>4. /\ p = th[b].at /\ Types /\ th[b].new \in Pages /\ page[p].level \in Nat
      /\ LowKeys(lo) /\ ThreadLow(lo, b) /\ LeafInv /\ AloneInv
  BY <1>2, PageTypes DEF Shape, ThreadShape, Splits, KeyInv, LowKeys
<1> HIDE DEF p
<1>5. th'[b].pc = "idle" /\ th'[b].at = p
  BY <1>2, <1>4, FinishedType
<1>6. /\ \A o \in Backend \ {b} : th'[o] = th[o]
      /\ page'[n].level # 0 /\ n \in Pages' /\ \A q \in Pages : q \in Pages'
  BY <1>2, <1>3, <1>4 DEF OnlyMoves
<1>7. \A q \in Pages : page[q].sib # Null => page'[page[q].sib] = page[page[q].sib]
  BY <1>3, SiblingFacts
<1>8. LeafInv'
  <2>1. ASSUME NEW q \in Pages PROVE LeafOrder(q)'
    <3>1. LeafOrder(q) /\ page'[q] = page[q]
      BY <1>3, <1>4 DEF LeafInv
    <3>2. BeingCut(q) => BeingCut(q)'
      BY <1>2, <1>6 DEF BeingCut
    <3>3. QED
      BY <1>7, <3>1, <3>2 DEF LeafOrder, Leaf, NotAbove, FirstKey, Count
  <2>2. \A q \in Pages' \ Pages : LeafOrder(q)'
    BY <1>3, <1>6 DEF LeafOrder, Leaf
  <2>3. ASSUME NEW o \in Backend PROVE CutAt(o)' /\ RightAt(o)'
    <3>1. CASE o = b
      BY <1>5, <3>1 DEF CutAt, RightAt
    <3>2. CASE o # b
      <4>1. /\ CutAt(o) /\ RightAt(o) /\ th'[o] = th[o] /\ th[o].at \in Pages
            /\ th[o].pc = "cut" => th[o].new \in Pages
            /\ th[o].pc = "right" => page[th[o].at].sib # Null
        BY <1>4, <1>6, <3>2 DEF LeafInv, Shape, ThreadShape, Splits
      <4>2. /\ page'[th[o].at] = page[th[o].at]
            /\ th[o].pc = "cut" => page'[th[o].new] = page[th[o].new]
        BY <1>3, <4>1
      <4>3. QED
        BY <1>7, <4>1, <4>2 DEF CutAt, RightAt, Leaf, FirstKey, Count
    <3>3. QED
      BY <3>1, <3>2
  <2>4. QED
    BY <2>1, <2>2, <2>3 DEF LeafInv
<1>9. PICK lo2 : lo2 = [q \in Pages' |-> IF q = n THEN 0 ELSE lo[q]]
  OBVIOUS
<1>10. lo \in [Pages -> Nat] /\ lo[p] = 0
  BY <1>2, <1>4 DEF LowKeys
<1>11. /\ lo2 \in [Pages' -> Nat] /\ lo2[n] = 0 /\ \A q \in Pages : lo2[q] = lo[q]
  BY <1>3, <1>9, <1>10
<1>12. PageLow(lo2, n)'
  <2>1. lo2[page'[n].left] = 0
    BY <1>2, <1>3, <1>10, <1>11
  <2>2. lo2[page'[n].ents[1].c] <= page'[n].ents[1].k
    <3>1. lo[th[b].new] <= th[b].split
      BY <1>2, <1>4 DEF ThreadLow, Splits
    <3>2. QED
      BY <1>3, <1>4, <1>11, <3>1
  <2>3. \A i \in 1 .. Len(page'[n].ents) : i = 1
    BY <1>3
  <2>4. QED
    BY <1>6, <1>11, <2>1, <2>2, <2>3 DEF PageLow, Leaf, Count
<1>13. ThreadLow(lo2, b)'
  BY <1>5 DEF ThreadLow, Splits
<1>14. LowKeys(lo2)'
  <2>1. Pages' = Pages \cup {n} /\ \A q \in Pages : SameTree(q) /\ page'[q].ents = page[q].ents
    BY <1>3 DEF SameTree
  <2>2. lo2[root'] = 0 /\ OnlyMoves(b) /\ LowKeys(lo)
    BY <1>2, <1>3, <1>4, <1>11
  <2> HIDE DEF Facts
  <2>3. QED
    BY <1>11, <1>12, <1>13, <2>1, <2>2, LowExtended
<1>15. ASSUME NEW y \in Backend, CutsLeaf(y)'
       PROVE  /\ Unknown(th[y].new, th[y].at)'
              /\ \A o \in Backend \ {y} : KeepsOff(o, th[y].new, th[y].at)'
  <2> DEFINE s == th[y].at
             x == th[y].new
  <2>1. y # b
    BY <1>5, <1>15 DEF CutsLeaf
  <2>2. CutsLeaf(y) /\ th'[y] = th[y]
    BY <1>3, <1>6, <1>15, <2>1 DEF CutsLeaf, Leaf, Shape, ThreadShape
  <2>3. /\ s \in Pages /\ x \in Pages \ {1, s} /\ Unknown(x, s)
        /\ \A o \in Backend \ {y} : KeepsOff(o, x, s)
    BY <1>4, <2>2, CutFacts
  <2>4. th'[y].new = x /\ th'[y].at = s
    BY <2>2
  <2> HIDE DEF s, x
  <2>5. p # x /\ th[b].new # x /\ n # x
    BY <1>2, <1>3, <1>4, <2>1, <2>3 DEF KeepsOff, Splits
  <2>6. \A q \in Pages' : /\ page'[q].sib = x => q = s
                          /\ ~ (page'[q].level = 0) =>
                               /\ page'[q].left # x
                               /\ \A i \in 1 .. Len(page'[q].ents) : page'[q].ents[i].c # x
    <3> TAKE q \in Pages'
    <3>1. CASE q \in Pages
      BY <1>3, <2>3, <3>1 DEF Unknown, Leaf, Count
    <3>2. CASE q = n
      <4>1. \A i \in 1 .. Len(page'[n].ents) : i = 1
        BY <1>3
      <4>2. x # Null
        BY <1>4, <2>3, PageTypes DEF Null
      <4>3. QED
        BY <1>3, <2>5, <3>2, <4>1, <4>2
    <3>3. QED
      BY <1>3, <3>1, <3>2
  <2>7. Unknown(th[y].new, th[y].at)'
    BY <1>3, <2>4, <2>5, <2>6 DEF Unknown, Leaf, Count
  <2>8. ASSUME NEW o \in Backend \ {y} PROVE KeepsOff(o, th[y].new, th[y].at)'
    <3>1. CASE o = b
      BY <1>5, <2>4, <2>5, <3>1 DEF KeepsOff, Splits
    <3>2. CASE o # b
      <4>1. th'[o] = th[o] /\ KeepsOff(o, x, s) /\ page'[x] = page[x]
        BY <1>3, <1>6, <2>3, <3>2
      <4>2. Past(o, x) => page'[x].sib # Null /\ th[o].k > page'[page'[x].sib].ents[1].k
        BY <1>7, <2>3, <4>1 DEF Past, FirstKey
      <4>3. QED
        BY <2>4, <4>1, <4>2 DEF KeepsOff, Splits, Past, FirstKey
    <3>3. QED
      BY <3>1, <3>2
  <2>9. QED
    BY <2>7, <2>8
<1>16. AloneInv'
  BY <1>15 DEF AloneInv, Alone, CutsLeaf
<1>17. QED
  BY <1>8, <1>14, <1>16 DEF KeyInv

LEMMA KeyInit ==
  ASSUME Init
  PROVE  \E lo : KeyInv(lo)
<1>1. /\ Pages = {1} /\ root = 1 /\ page[1].level = 0 /\ page[1].sib = Null
      /\ page[1].ents = << >>
      /\ \A b \in Backend : th[b].pc = "idle"
  BY DEF Init, Pages
<1>2. PICK lo : lo = [q \in {1} |-> 0]
  OBVIOUS
<1>3. LeafInv
  BY <1>1 DEF LeafInv, LeafOrder, Leaf, Sorted, CutAt, RightAt
<1>4. LowKeys(lo)
  BY <1>1, <1>2 DEF LowKeys, PageLow, ThreadLow, Splits, Leaf
<1>5. AloneInv
  BY <1>1 DEF AloneInv, Alone
<1>6. QED
  BY <1>3, <1>4, <1>5 DEF KeyInv

LEMMA KeyStep ==
  ASSUME Shape, NEW lo, KeyInv(lo), [Next]_vars, ~raced'
  PROVE  \E lo2 : KeyInv(lo2)'
<1>1. ASSUME NEW b \in Backend, Step(b) PROVE \E lo2 : KeyInv(lo2)'
  BY <1>1, KeyBegin, KeyDown, KeyAcquire, KeyLetGo, KeyMoveRight, KeyStore, KeySplit,
     KeyCut, KeyGrow, KeyPostSplit, KeyPost DEF Step, Descends
<1>2. ASSUME UNCHANGED vars PROVE KeyInv(lo)'
  <2>1. LeafInv'
    BY <1>2 DEF vars, KeyInv, LeafInv, LeafOrder, BeingCut, CutAt, RightAt, NotAbove,
                Pages, Leaf, Count, FirstKey
  <2>2. LowKeys(lo)'
    <3>1. Pages' = Pages /\ root' = root /\ page' = page /\ th' = th
      BY <1>2 DEF vars, Pages
    <3>2. ASSUME NEW q \in Pages, PageLow(lo, q) PROVE PageLow(lo, q)'
      <4>1. Leaf(q)' <=> Leaf(q)
        BY <3>1 DEF Leaf
      <4>2. Count(q)' = Count(q) /\ FirstKey(q)' = FirstKey(q)
        BY <3>1 DEF Count, FirstKey
      <4>3. CASE Leaf(q)
        BY <3>1, <3>2, <4>1, <4>2, <4>3 DEF PageLow
      <4>4. CASE ~Leaf(q)
        BY <3>1, <3>2, <4>1, <4>2, <4>4 DEF PageLow
      <4>5. QED
        BY <4>3, <4>4
    <3>3. \A b \in Backend : ThreadLow(lo, b) => ThreadLow(lo, b)'
      BY <3>1 DEF ThreadLow, Enters, Splits, Leaf, FirstKey
    <3>4. QED
      BY <3>1, <3>2, <3>3 DEF KeyInv, LowKeys
  <2>3. AloneInv'
    BY <1>2 DEF vars, KeyInv, AloneInv, Alone, Unknown, KeepsOff, Past, Splits, Pages, Leaf,
                Count, FirstKey
  <2>4. QED
    BY <2>1, <2>2, <2>3 DEF KeyInv
<1>3. QED
  BY <1>1, <1>2 DEF Next

KeysKept == ~raced => \E lo : KeyInv(lo)

LEMMA KeyAlways ==
  Spec => [](Shape /\ RacedType /\ KeysKept)
<1> DEFINE I == Shape /\ RacedType /\ KeysKept
<1>1. Init => I
  BY ShapeInit, KeyInit, RacedInit DEF KeysKept
<1>2. I /\ [Next]_vars => I'
  <2> SUFFICES ASSUME I, [Next]_vars PROVE I'
    OBVIOUS
  <2>1. Shape' /\ RacedType' /\ (~raced' => ~raced)
    BY ShapeStep, RacedStep
  <2>2. ~raced' => \E lo2 : KeyInv(lo2)'
    <3> HAVE ~raced'
    <3>1. PICK lo : KeyInv(lo)
      BY <2>1 DEF KeysKept
    <3>2. QED
      BY <3>1, KeyStep
  <2>3. KeysKept'
    BY <2>2 DEF KeysKept
  <2>4. QED
    BY <2>1, <2>3
<1>3. QED
  BY <1>1, <1>2, PTL DEF Spec

(* Every leaf is sorted, and none of its keys is above the first key of    *)
(* its sibling but while the upper half is still in both: a scan along the *)
(* sibling pointers reads the keys in order (btree_search_range), whatever *)
(* the threads that insert and split do at the time, until a search that   *)
(* read a page in the middle of a write is led astray by it, or two        *)
(* threads fill one page.                                                  *)
LeavesSorted == ~raced => \A p \in Pages : LeafOrder(p)

THEOREM LeavesStaySorted == Spec => []LeavesSorted
<1>1. KeysKept => LeavesSorted
  BY DEF KeysKept, KeyInv, LeafInv, LeavesSorted
<1>2. QED
  BY <1>1, KeyAlways, PTL

(* A thread that has reached a leaf, by the descent or along siblings, is  *)
(* never to the right of where its key belongs (linear_search, store),     *)
(* whatever it met half written on the way, unless that led it astray: it  *)
(* took an entry, or a sibling, from which its key is further left.        *)
THEOREM DescentsStayLeft == Spec => []DescentStaysLeft
<1>1. Shape /\ KeysKept => DescentStaysLeft
  <2> SUFFICES ASSUME Shape, KeysKept, ~raced, NEW b \in Backend,
                      th[b].pc \in {"down", "locked", "right"}, page[th[b].at].level = 0,
                      th[b].at # 1
               PROVE  FirstKey(th[b].at) <= th[b].k
    BY DEF DescentStaysLeft
  <2>0. PICK lo : KeyInv(lo)
    BY DEF KeysKept
  <2>1. /\ th[b].at \in Pages /\ Types /\ LowKeys(lo) /\ ThreadLow(lo, b)
        /\ PageLow(lo, th[b].at) /\ Leaf(th[b].at)
    BY <2>0 DEF Shape, ThreadShape, KeyInv, LowKeys, Leaf
  <2>2. lo[th[b].at] = FirstKey(th[b].at) /\ Enters(lo, th[b].k, th[b].at)
    BY <2>1 DEF PageLow, ThreadLow
  <2>3. lo[th[b].at] \in Nat /\ th[b].k \in Nat
    BY <2>1, ThreadTypes DEF LowKeys
  <2>4. QED
    BY <2>1, <2>2, <2>3 DEF Enters
<1>2. QED
  BY <1>1, KeyAlways, PTL

(* While store splits a leaf it holds the lock of the old half only, and   *)
(* writes both: no other thread writes the new one.  It may be locked, by  *)
(* a thread that let go of the old half just before the split and reads    *)
(* the sibling pointer only now (btree.h:712), but that one has a key from *)
(* beyond both halves and lets go again.                                   *)
THEOREM NewLeavesHaveOneWriter == Spec => []NewLeafIsPrivate
<1>1. Shape /\ KeysKept => NewLeafIsPrivate
  <2> SUFFICES ASSUME Shape, KeysKept, ~raced, NEW b \in Backend,
                      th[b].pc = "cut", page[th[b].at].level = 0
               PROVE  SplitIsPrivate(b)
    BY DEF NewLeafIsPrivate
  <2>0. PICK lo : KeyInv(lo)
    BY DEF KeysKept
  <2>1. CutsLeaf(b) /\ AloneInv
    BY <2>0 DEF CutsLeaf, Leaf, KeyInv
  <2> SUFFICES ASSUME NEW o \in Backend \ {b}, th[o].pc = "locked",
                      th[o].at \in {th[b].at, th[b].new}
               PROVE  th[o].at = th[b].new /\ ~MayStay(o)
    BY DEF SplitIsPrivate
  <2>2. th[o].at # th[b].at
    BY <2>1, CutFacts DEF Shape, ThreadShape, Holds
  <2>3. Past(o, th[b].new) /\ Leaf(th[b].new)
    BY <2>1, <2>2, CutFacts DEF KeepsOff
  <2>4. QED
    BY <2>0, <2>2, <2>3, LeafStays DEF Past, Beyond
<1>2. QED
  BY <1>1, KeyAlways, PTL

-----------------------------------------------------------------------------
(* The types.                                                              *)

CountInv ==
  /\ \A p \in Pages : Leaf(p) => Count(p) <= Card - 1
  /\ \A b \in Backend : CutsLeaf(b) => Count(th[b].new) <= Card - 2

DoneInv ==
  \A b \in Backend : /\ th[b].done <= Len(Work[b])
                     /\ th[b].pc # "idle" => th[b].done < Len(Work[b])

HeightIs == height = page[root].level + 1

LEMMA WorkLength ==
  ASSUME NEW b \in Backend
  PROVE  Len(Work[b]) \in Nat
<1>1. Work[b] \in Seq(Nat)
  BY BTreeAssumption
<1>2. QED
  BY <1>1, LenProperties

LEMMA DoneStep ==
  ASSUME Types, DoneInv, NEW b \in Backend, Step(b)
  PROVE  DoneInv'
<1>1. th[b] \in Thread /\ th[b].done \in Nat /\ th \in [Backend -> Thread]
  BY ThreadTypes DEF Types
<1>2. /\ \/ /\ th[b].pc # "idle" /\ th'[b].pc = "idle" /\ th'[b].done = th[b].done + 1
         \/ /\ th[b].pc # "idle" \/ th[b].done < Len(Work[b])
            /\ th'[b].done = th[b].done
      /\ \A o \in Backend \ {b} : th'[o] = th[o]
  <2>1. CASE Begin(b)
    BY <1>1, <2>1 DEF Begin, Thread
  <2>2. CASE Down(b)
    BY <1>1, <2>2 DEF Down, Thread
  <2>9. CASE MisreadEntry(b) \/ MisreadSibling(b)
    <3>1. (\E q : th' = [th EXCEPT ![b].at = q]) /\ th[b].pc = "down"
      BY <2>9 DEF MisreadEntry, MisreadSibling
    <3>2. QED
      BY <1>1, <3>1 DEF Thread
  <2>3. CASE Acquire(b) \/ LetGo(b) \/ CutPage(b)
    BY <1>1, <2>3 DEF Acquire, LetGo, CutPage, Goto, Thread
  <2>4. CASE MoveRight(b)
    BY <1>1, <2>4 DEF MoveRight, Thread
  <2>5. CASE StoreFast(b) \/ GrowRoot(b)
    <3>1. th' = [th EXCEPT ![b] = Finished(b)] /\ th[b].pc # "idle"
      BY <2>5 DEF StoreFast, GrowRoot
    <3>2. Finished(b).pc = "idle" /\ Finished(b).done = th[b].done + 1
      BY <1>1 DEF Finished, Thread
    <3>3. QED
      BY <1>1, <3>1, <3>2
  <2>6. CASE SplitPage(b)
    BY <1>1, <2>6 DEF SplitPage, Thread
  <2>7. CASE PostSplit(b)
    BY <1>1, <2>7 DEF PostSplit, Thread
  <2>8. CASE Post(b)
    <3>1. /\ th[b].pc # "idle"
          /\ \/ th' = [th EXCEPT ![b] = Finished(b)]
             \/ th' = [th EXCEPT ![b] = [th[b] EXCEPT !.pc = "down", !.at = root]]
      BY <1>1, <2>8 DEF Post
    <3>2. Finished(b).pc = "idle" /\ Finished(b).done = th[b].done + 1
      BY <1>1 DEF Finished, Thread
    <3>3. [th[b] EXCEPT !.pc = "down", !.at = root].done = th[b].done
      BY <1>1 DEF Thread
    <3>4. QED
      BY <1>1, <3>1, <3>2, <3>3
  <2>10. QED
    BY <2>1, <2>2, <2>3, <2>4, <2>5, <2>6, <2>7, <2>8, <2>9 DEF Step
<1>3. ASSUME NEW o \in Backend
      PROVE  /\ th'[o].done <= Len(Work[o])
             /\ th'[o].pc # "idle" => th'[o].done < Len(Work[o])
  <2>1. CASE o = b
    BY <1>1, <1>2, <2>1, WorkLength DEF DoneInv
  <2>2. CASE o # b
    BY <1>2, <2>2 DEF DoneInv
  <2>3. QED
    BY <2>1, <2>2
<1>4. QED
  BY <1>3 DEF DoneInv

LEMMA HeightIsStep ==
  ASSUME Shape, HeightIs, NEW b \in Backend, Step(b)
  PROVE  HeightIs'
<1>1. root \in Pages /\ page[root].level \in Nat
  BY PageTypes DEF Shape, Types
<1>2. CASE Begin(b) \/ Descends(b) \/ Acquire(b) \/ LetGo(b) \/ MoveRight(b) \/ PostSplit(b)
           \/ Post(b)
  BY <1>2 DEF Begin, Descends, Down, MisreadEntry, MisreadSibling, Acquire, LetGo,
              MoveRight, PostSplit, Post, HeightIs
<1>3. CASE StoreFast(b)
  <2>1. height' = height /\ root' = root /\ page'[root].level = page[root].level
    BY <1>1, <1>3, StoreEffect DEF StoreFast, SameTree
  <2>2. QED
    BY <2>1 DEF HeightIs
<1>4. CASE CutPage(b)
  <2>1. height' = height /\ root' = root /\ page'[root].level = page[root].level
    BY <1>1, <1>4, CutChanges DEF CutPage, SameTree
  <2>2. QED
    BY <2>1 DEF HeightIs
<1>5. CASE SplitPage(b)
  <2>1. height' = height /\ root' = root /\ page'[root].level = page[root].level
    BY <1>1, <1>5, SplitEffect DEF SplitPage, SameTree
  <2>2. QED
    BY <2>1 DEF HeightIs
<1>6. CASE GrowRoot(b)
  <2>1. height' = height + 1 /\ page'[root'].level = page[root].level + 1
    BY <1>6, GrowEffect DEF GrowRoot
  <2>2. QED
    BY <1>1, <2>1 DEF HeightIs
<1>7. QED
  BY <1>2, <1>3, <1>4, <1>5, <1>6 DEF Step, Descends

LEMMA CountMove ==
  ASSUME Shape, CountInv, SamePages, Pages' = Pages, NEW b \in Backend, OnlyMoves(b),
         th'[b].pc # "cut"
  PROVE  CountInv'
<1>1. page' = page /\ \A o \in Backend \ {b} : th'[o] = th[o]
  BY DEF SamePages, OnlyMoves
<1>2. QED
  BY <1>1 DEF CountInv, CutsLeaf, Leaf, Count

LEMMA CountStep ==
  ASSUME Shape, NEW lo, KeyInv(lo), AloneInv, CountInv, NEW b \in Backend, Step(b), ~raced'
  PROVE  CountInv'
<1> DEFINE p == th[b].at
<1>0. /\ Types /\ th[b] \in Thread /\ p = th[b].at /\ Card \in Nat /\ p \in Pages
      /\ \A q \in Pages : Count(q) \in Nat
  BY ThreadTypes, PageTypes, BTreeAssumption DEF Shape, ThreadShape
<1>1. CASE Begin(b)
  <2>1. Pages' = Pages /\ SamePages /\ OnlyMoves(b) /\ th'[b].pc # "cut"
    BY <1>0, <1>1, BeginEffect
  <2>2. QED
    BY <2>1, CountMove
<1>2. CASE Descends(b)
  <2>1. Pages' = Pages /\ SamePages /\ OnlyMoves(b) /\ th'[b].pc # "cut"
    BY <1>0, <1>2, DownEffect DEF Thread
  <2>2. QED
    BY <2>1, CountMove
<1>3. CASE Acquire(b)
  <2>1. Pages' = Pages /\ SamePages /\ OnlyMoves(b) /\ th'[b].pc # "cut"
    BY <1>0, <1>3, AcquireEffect DEF Thread
  <2>2. QED
    BY <2>1, CountMove
<1>4. CASE LetGo(b)
  <2>1. Pages' = Pages /\ SamePages /\ OnlyMoves(b) /\ th'[b].pc # "cut"
    BY <1>0, <1>4, LetGoEffect DEF Thread
  <2>2. QED
    BY <2>1, CountMove
<1>5. CASE MoveRight(b)
  <2>1. Pages' = Pages /\ SamePages /\ OnlyMoves(b) /\ th'[b].pc # "cut"
    BY <1>0, <1>5, MoveRightEffect DEF Thread
  <2>2. QED
    BY <2>1, CountMove
<1>6. CASE PostSplit(b)
  <2>1. Pages' = Pages /\ SamePages /\ OnlyMoves(b) /\ th'[b].pc # "cut"
    BY <1>0, <1>6, PostSplitEffect DEF Thread
  <2>2. QED
    BY <2>1, CountMove
<1>7. CASE Post(b)
  <2>1. /\ Pages' = Pages /\ SamePages /\ OnlyMoves(b)
        /\ \/ th'[b] = Finished(b)
           \/ th'[b] = [th[b] EXCEPT !.pc = "down", !.at = root]
    BY <1>7, PostEffect
  <2>2. th'[b].pc # "cut"
    BY <1>0, <2>1, FinishedType DEF Thread
  <2>3. QED
    BY <2>1, <2>2, CountMove
<1>8. CASE StoreFast(b)
  <2>1. /\ Pages' = Pages /\ OnlyMoves(b) /\ th[b].pc = "locked" /\ MayStay(b)
        /\ th'[b].pc = "idle" /\ Count(p) < Card - 1
        /\ \A q \in Pages :
             /\ page'[q].level = page[q].level
             /\ page'[q].ents = IF q = p THEN Inserted(page[q].ents, Entry(b))
                                ELSE page[q].ents
    BY <1>0, <1>8, StoreEffect, FinishedType DEF StoreFast, SameTree
  <2>2. Len(page'[p].ents) = Count(p) + 1
    <3>1. Len(Inserted(page[p].ents, Entry(b))) = Len(page[p].ents) + 1
      BY <1>0, PageTypes, EntryType, InsertedFacts
    <3>2. QED
      BY <1>0, <2>1, <3>1 DEF Count
  <2>3. ASSUME NEW q \in Pages, Leaf(q) PROVE Len(page'[q].ents) <= Card - 1
    BY SMTT(30), <1>0, <2>1, <2>2, <2>3 DEF CountInv, Count
  <2>4. ASSUME NEW y \in Backend, CutsLeaf(y)' PROVE Len(page'[th'[y].new].ents) <= Card - 2
    <3>1. y # b /\ th'[y] = th[y] /\ CutsLeaf(y)
      BY <2>1, <2>4 DEF CutsLeaf, OnlyMoves, Leaf, Shape, ThreadShape
    <3>2. th[y].new \in Pages /\ th[y].new # p
      BY <2>1, <3>1, CutFacts, OffCut DEF Holds
    <3>3. QED
      BY <2>1, <3>1, <3>2 DEF CountInv, Count
  <2>5. QED
    BY <2>1, <2>3, <2>4 DEF CountInv, Leaf, Count
<1>9. CASE SplitPage(b)
  <2> DEFINE m == Count(p) \div 2
             Facts(n) ==
               /\ Pages' = Pages \cup {n} /\ n \notin Pages
               /\ th'[b] = [th[b] EXCEPT !.pc = "cut", !.new = n,
                                         !.split = page[p].ents[m + 1].k,
                                !.cnt = Len(page'[n].ents)]
               /\ page'[n].level = page[p].level
               /\ Leaf(p) => Len(page'[n].ents) = Count(p) - m
  <2>1. Facts(Len(page) + 1)
    BY <1>9, SplitEffect DEF Half
  <2>2. /\ OnlyMoves(b) /\ th[b].pc = "locked" /\ MayStay(b)
        /\ m \in 1 .. Count(p) - 2
        /\ \A q \in Pages : page'[q].level = page[q].level /\ page'[q].ents = page[q].ents
    BY <1>9, SplitEffect DEF SameTree
  <2>3. PICK n : Facts(n)
    BY <2>1
  <2>4. th'[b].new = n /\ th'[b].at = p
    BY <1>0, <2>3 DEF Thread
  <2>5. Leaf(p) => Len(page'[n].ents) <= Card - 2
    <3>1. Leaf(p) => Count(p) <= Card - 1
      BY <1>0 DEF CountInv
    <3> HIDE DEF m
    <3>2. QED
      BY <1>0, <2>2, <2>3, <3>1
  <2> HIDE DEF p, m
  <2>6. ASSUME NEW q \in Pages', page'[q].level = 0 PROVE Len(page'[q].ents) <= Card - 1
    <3>1. CASE q \in Pages
      BY <2>2, <2>6, <3>1 DEF CountInv, Leaf, Count
    <3>2. CASE q = n
      <4>1. Len(page'[n].ents) <= Card - 2 /\ Len(page'[n].ents) \in Int
        BY <1>0, <2>2, <2>3, <2>5, <2>6, <3>2 DEF Leaf
      <4>2. QED
        BY <1>0, <3>2, <4>1
    <3>3. QED
      BY <2>3, <3>1, <3>2
  <2>7. ASSUME NEW y \in Backend, CutsLeaf(y)' PROVE Len(page'[th'[y].new].ents) <= Card - 2
    <3>1. CASE y = b
      BY <1>0, <2>2, <2>4, <2>5, <2>7, <3>1 DEF CutsLeaf, Leaf
    <3>2. CASE y # b
      <4>1. th'[y] = th[y] /\ CutsLeaf(y)
        BY <2>2, <2>7, <3>2 DEF CutsLeaf, OnlyMoves, Leaf, Shape, ThreadShape
      <4>2. th[y].new \in Pages
        BY <4>1, CutFacts
      <4>3. QED
        BY <2>2, <4>1, <4>2 DEF CountInv, Count
    <3>3. QED
      BY <3>1, <3>2
  <2>8. QED
    BY <2>6, <2>7 DEF CountInv, Leaf, Count
<1>10. CASE CutPage(b)
  <2> DEFINE n == th[b].new
             low == LowHalf(p)
             e == Entry(b)
  <2>1. /\ Pages' = Pages /\ OnlyMoves(b) /\ th[b].pc = "cut" /\ n \in Pages /\ n # p
        /\ Count(p) >= 3 /\ th'[b] = [th[b] EXCEPT !.pc = "grow"]
        /\ \A q \in Pages : page'[q].level = page[q].level
        /\ \A q \in Pages \ {p, n} : page'[q].ents = page[q].ents
        /\ \/ /\ page'[p].ents = Inserted(low, e) /\ page'[n].ents = page[n].ents
           \/ /\ page'[p].ents = low /\ page'[n].ents = Inserted(page[n].ents, e)
    BY <1>10, CutEffect DEF SameTree
  <2>2. /\ th'[b].pc = "grow" /\ e \in Ent /\ page[n].ents \in Seq(Ent)
        /\ page[n].level = page[p].level /\ n = th[b].new
    BY <1>0, <2>1, EntryType, PageTypes DEF Thread, Shape, ThreadShape, Splits
  <2>3. Len(low) \in 1 .. Count(p) - 2 /\ low \in Seq(Ent)
    BY <1>0, <2>1, LowFacts
  <2>4. /\ Len(Inserted(low, e)) = Len(low) + 1
        /\ Len(Inserted(page[n].ents, e)) = Count(n) + 1
    BY <2>2, <2>3, InsertedFacts DEF Count
  <2> HIDE DEF low, e, n
  <2>5. ASSUME Leaf(p)
        PROVE  Len(page'[p].ents) <= Card - 1 /\ Len(page'[n].ents) <= Card - 1
    <3>1. Count(p) <= Card - 1 /\ Count(n) <= Card - 2
      BY <1>0, <2>1, <2>2, <2>5 DEF CountInv, CutsLeaf
    <3>2. Len(page'[p].ents) = Len(low) \/ Len(page'[p].ents) = Len(low) + 1
      BY <2>1, <2>4
    <3>3. Len(page'[n].ents) = Count(n) \/ Len(page'[n].ents) = Count(n) + 1
      BY <2>1, <2>4 DEF Count
    <3>4. Count(n) \in Nat /\ Count(p) \in Nat /\ Len(low) \in Nat
      BY <1>0, <2>1, <2>3
    <3>5. QED
      BY SMTT(30), <1>0, <2>3, <3>1, <3>2, <3>3, <3>4
  <2> HIDE DEF p
  <2>6. ASSUME NEW q \in Pages, Leaf(q) PROVE Len(page'[q].ents) <= Card - 1
    BY <2>1, <2>2, <2>5, <2>6 DEF CountInv, Count, Leaf
  <2>7. ASSUME NEW y \in Backend, CutsLeaf(y)' PROVE Len(page'[th'[y].new].ents) <= Card - 2
    <3>1. y # b /\ th'[y] = th[y] /\ CutsLeaf(y)
      BY ZenonT(30), <2>1, <2>2, <2>7 DEF CutsLeaf, OnlyMoves, Leaf, Shape, ThreadShape
    <3>2. th[y].new \in Pages /\ th[y].new # p /\ th[y].new # n
      BY <1>0, <2>1, <2>2, <3>1, CutFacts DEF KeepsOff, Splits
    <3>3. QED
      BY <2>1, <3>1, <3>2 DEF CountInv, Count
  <2>8. QED
    BY <2>1, <2>6, <2>7 DEF CountInv, Leaf, Count
<1>11. CASE GrowRoot(b)
  <2> DEFINE Facts(n) == /\ Pages' = Pages \cup {n}
                         /\ page'[n].level = page[p].level + 1
  <2>1. Facts(Len(page) + 1)
    BY <1>11, GrowEffect
  <2>2. PICK n : Facts(n)
    BY <2>1
  <2>3. /\ OnlyMoves(b) /\ th'[b].pc = "idle" /\ \A q \in Pages : page'[q] = page[q]
        /\ page[p].level \in Nat
    BY <1>0, <1>11, GrowEffect, FinishedType, PageTypes
  <2> HIDE DEF p
  <2>4. ASSUME NEW q \in Pages', page'[q].level = 0 PROVE Len(page'[q].ents) <= Card - 1
    BY <2>2, <2>3, <2>4 DEF CountInv, Leaf, Count
  <2>5. ASSUME NEW y \in Backend, CutsLeaf(y)' PROVE Len(page'[th'[y].new].ents) <= Card - 2
    <3>1. th'[y] = th[y] /\ CutsLeaf(y)
      BY <2>3, <2>5 DEF CutsLeaf, OnlyMoves, Leaf, Shape, ThreadShape
    <3>2. th[y].new \in Pages
      BY <3>1, CutFacts
    <3>3. QED
      BY <2>3, <3>1, <3>2 DEF CountInv, Count
  <2>6. QED
    BY <2>4, <2>5 DEF CountInv, Leaf, Count
<1>12. QED
  BY <1>1, <1>2, <1>3, <1>4, <1>5, <1>6, <1>7, <1>8, <1>9, <1>10, <1>11 DEF Step, Descends

TreeInv ==
  /\ Shape /\ RacedType /\ KeysKept
  /\ ~raced => CountInv
  /\ DoneInv /\ HeightIs

LEMMA TreeAlways == Spec => []TreeInv
<1>1. Init => TreeInv
  <2> SUFFICES ASSUME Init PROVE CountInv /\ DoneInv /\ HeightIs
    BY ShapeInit, KeyInit, RacedInit DEF TreeInv, KeysKept
  <2>1. /\ Pages = {1} /\ root = 1 /\ height = 1
        /\ page[1].level = 0 /\ page[1].ents = << >>
        /\ \A b \in Backend : th[b].pc = "idle" /\ th[b].done = 0
    BY DEF Init, Pages
  <2>2. QED
    BY <2>1, WorkLength, BTreeAssumption DEF CountInv, CutsLeaf, Count, DoneInv, HeightIs
<1>2. Shape /\ RacedType /\ KeysKept /\ (Shape /\ RacedType /\ KeysKept)'
        /\ TreeInv /\ [Next]_vars => TreeInv'
  <2> SUFFICES ASSUME TreeInv, (Shape /\ RacedType /\ KeysKept)', [Next]_vars
               PROVE  TreeInv'
    OBVIOUS
  <2>1. Types /\ (~raced' => ~raced)
    BY RacedStep DEF TreeInv, Shape
  <2>2. ASSUME NEW b \in Backend, Step(b) PROVE (DoneInv /\ HeightIs)'
    BY <2>1, <2>2, DoneStep, HeightIsStep DEF TreeInv
  <2>3. ASSUME NEW b \in Backend, Step(b), ~raced' PROVE CountInv'
    <3>1. PICK lo : KeyInv(lo)
      BY <2>1, <2>3 DEF TreeInv, KeysKept
    <3>2. AloneInv /\ CountInv /\ Shape
      BY <2>1, <2>3, <3>1 DEF TreeInv, KeyInv
    <3>3. QED
      BY <2>3, <3>1, <3>2, CountStep
  <2>4. ASSUME UNCHANGED vars PROVE (DoneInv /\ HeightIs /\ (~raced => CountInv))'
    BY <2>4 DEF TreeInv, vars, CountInv, CutsLeaf, Leaf, Pages, Count, DoneInv, HeightIs
  <2>5. QED
    BY <2>2, <2>3, <2>4 DEF TreeInv, Next
<1>3. QED
  BY <1>1, <1>2, KeyAlways, PTL DEF Spec

(* The type invariant: no leaf is filled beyond the slot that ends it,     *)
(* whoever else inserts, and the tree's own count of its levels is right.  *)
THEOREM TreeTypes == Spec => []TypeOK
<1>1. TreeInv => TypeOK
  <2> SUFFICES ASSUME Shape, RacedType, ~raced => CountInv, DoneInv, HeightIs PROVE TypeOK
    BY DEF TreeInv
  <2>1. Types
    BY DEF Shape
  <2>2. ASSUME NEW p \in Pages
        PROVE  /\ page[p].level \in Nat /\ page[p].left \in Pages \cup {Null}
               /\ page[p].sib \in Pages \cup {Null}
               /\ page[p].level = 0 /\ ~raced => Count(p) <= Card - 1
               /\ \A i \in 1 .. Count(p) : page[p].ents[i].k \in Nat
    <3>1. PageShape(p)
      BY DEF Shape
    <3>2. QED
      BY <2>1, <3>1, PageTypes DEF PageShape, Below, Leaf, CountInv
  <2>3. lock \in [Pages -> Backend \cup {Nobody}] /\ root \in Pages
    <3>1. DOMAIN lock = Pages /\ lock \in Seq(Backend \cup {Nobody})
      BY <2>1, PageTypes DEF Types
    <3>2. QED
      BY <2>1, <3>1, PageTypes DEF Types
  <2>4. ASSUME NEW b \in Backend
        PROVE  /\ th[b].pc \in {"idle", "down", "locked", "right", "cut", "grow", "post"}
               /\ th[b].done \in 0 .. Len(Work[b]) /\ th[b].at \in Pages
    BY <2>1, ThreadTypes, WorkLength DEF DoneInv, Shape, ThreadShape
  <2>5. QED
    BY <2>2, <2>3, <2>4 DEF TypeOK, HeightIs, RacedType
<1>2. QED
  BY <1>1, TreeAlways, PTL

-----------------------------------------------------------------------------
(* Pages and their parents.                                                *)

(* The children of a page, less those in the half that is about to be cut  *)
(* off: what the linked page has of it, others see.                        *)
LastKid(q) == IF BeingCut(q) THEN Count(q) \div 2 ELSE Count(q)

Under(x, q) ==
  ~Leaf(q) /\ (page[q].left = x \/ \E i \in 1 .. LastKid(q) : page[q].ents[i].c = x)

HasParent(x) == \E q \in Pages : Under(x, q)

(* Thread b has linked x and has still to put it into a parent.            *)
Brings(b, x) ==
  \/ Splits(b) /\ th[b].new = x
  \/ th[b].level > 0 /\ th[b].pc \notin {"idle", "grow"} /\ th[b].c = x

Placed(x) ==
  \/ page[x].level = page[root].level
  \/ \A q \in Pages : page[q].sib # x
  \/ HasParent(x)
  \/ \E b \in Backend : Brings(b, x)

Posted == \A x \in Pages : Placed(x)

(* new has e and everything ents has.                                      *)
Takes(ents, e, new) ==
  /\ \E i \in 1 .. Len(new) : new[i] = e
  /\ \A j \in 1 .. Len(ents) : \E i \in 1 .. Len(new) : new[i] = ents[j]

LEMMA InsertedTakes ==
  ASSUME NEW ents \in Seq(Ent), NEW e \in Ent
  PROVE  Takes(ents, e, Inserted(ents, e))
<1>0. Len(Inserted(ents, e)) = Len(ents) + 1
  BY InsertedFacts
<1>1. PICK n : /\ Place(ents, e, n)
               /\ Inserted(ents, e) =
                    [i \in 1 .. Len(ents) + 1 |->
                       IF i <= n THEN ents[i] ELSE IF i = n + 1 THEN e ELSE ents[i - 1]]
  BY InsertedAt
<1>2. n \in 0 .. Len(ents) /\ Len(ents) \in Nat
  BY <1>1 DEF Place
<1>3. n + 1 \in 1 .. Len(ents) + 1 /\ Inserted(ents, e)[n + 1] = e
  BY <1>1, <1>2
<1>4. ASSUME NEW j \in 1 .. Len(ents)
      PROVE  \E i \in 1 .. Len(ents) + 1 : Inserted(ents, e)[i] = ents[j]
  <2>1. CASE j <= n
    <3>1. j \in 1 .. Len(ents) + 1 /\ Inserted(ents, e)[j] = ents[j]
      BY <1>1, <1>2, <2>1
    <3>2. QED
      BY <3>1
  <2>2. CASE j > n
    <3>1. j + 1 \in 1 .. Len(ents) + 1 /\ Inserted(ents, e)[j + 1] = ents[j]
      BY <1>1, <1>2, <2>2
    <3>2. QED
      BY <3>1
  <2>3. QED
    BY <1>2, <2>1, <2>2
<1>5. QED
  BY <1>0, <1>2, <1>3, <1>4 DEF Takes

(* The lock holder's page is cut by nobody else.                           *)
LEMMA HeldUncut ==
  ASSUME Shape, NEW b \in Backend, Holds(b), NEW o \in Backend \ {b}
  PROVE  ~ (th[o].pc = "cut" /\ th[o].at = th[b].at)
BY DEF Shape, ThreadShape, Holds

LEMMA PostedMove ==
  ASSUME Shape, Posted, NEW b \in Backend, SamePages, Pages' = Pages, OnlyMoves(b),
         th[b].pc # "cut", th'[b].pc # "cut",
         \A x \in Pages : Brings(b, x) => Brings(b, x)'
  PROVE  Posted'
<1> SUFFICES ASSUME NEW x \in Pages PROVE Placed(x)'
  BY DEF Posted
<1>0. Placed(x) /\ page' = page /\ root' = root
  BY DEF Posted, SamePages
<1>1. \A q \in Pages : BeingCut(q)' <=> BeingCut(q)
  BY DEF BeingCut, OnlyMoves
<1>2. \A q \in Pages : Under(x, q)' <=> Under(x, q)
  BY <1>0, <1>1 DEF Under, LastKid, Leaf, Count
<1>3. HasParent(x) => HasParent(x)'
  BY <1>2 DEF HasParent
<1>4. ASSUME NEW o \in Backend, Brings(o, x) PROVE Brings(o, x)'
  BY <1>4 DEF Brings, Splits, OnlyMoves
<1>5. QED
  BY <1>0, <1>3, <1>4 DEF Placed

LEMMA PostedMoves ==
  ASSUME Shape, HeightInv, Posted, NEW b \in Backend,
         \/ Begin(b) \/ Descends(b) \/ Acquire(b) \/ LetGo(b) \/ MoveRight(b)
         \/ PostSplit(b) \/ Post(b)
  PROVE  Posted'
<1>0. Types /\ th[b] \in Thread /\ th[b].level \in Nat
  BY ThreadTypes DEF Shape
<1>1. CASE Begin(b)
  <2>1. th[b].pc = "idle" /\ \A x : ~Brings(b, x)
    BY <1>1 DEF Begin, Brings, Splits
  <2>2. QED
    BY <1>0, <1>1, <2>1, BeginEffect, PostedMove
<1>2. CASE Descends(b)
  <2>1. /\ th[b].pc = "down" /\ th'[b].pc = "down" /\ th'[b].level = th[b].level
        /\ th'[b].c = th[b].c
    BY <1>0, <1>2, DownEffect DEF Thread
  <2>2. \A x \in Pages : Brings(b, x) => Brings(b, x)'
    BY <2>1 DEF Brings, Splits
  <2>3. QED
    BY <1>2, <2>1, <2>2, DownEffect, PostedMove
<1>3. CASE Acquire(b)
  <2>1. /\ th[b].pc = "down" /\ th'[b].pc = "locked" /\ th'[b].level = th[b].level
        /\ th'[b].c = th[b].c
    BY <1>0, <1>3, AcquireEffect DEF Thread
  <2>2. \A x \in Pages : Brings(b, x) => Brings(b, x)'
    BY <2>1 DEF Brings, Splits
  <2>3. QED
    BY <1>3, <2>1, <2>2, AcquireEffect, PostedMove
<1>4. CASE LetGo(b)
  <2>1. /\ th[b].pc = "locked" /\ th'[b].pc = "right" /\ th'[b].level = th[b].level
        /\ th'[b].c = th[b].c
    BY <1>0, <1>4, LetGoEffect DEF Thread
  <2>2. \A x \in Pages : Brings(b, x) => Brings(b, x)'
    BY <2>1 DEF Brings, Splits
  <2>3. QED
    BY <1>4, <2>1, <2>2, LetGoEffect, PostedMove
<1>5. CASE MoveRight(b)
  <2>1. /\ th[b].pc = "right" /\ th'[b].pc = "down" /\ th'[b].level = th[b].level
        /\ th'[b].c = th[b].c
    BY <1>0, <1>5, MoveRightEffect DEF Thread
  <2>2. \A x \in Pages : Brings(b, x) => Brings(b, x)'
    BY <2>1 DEF Brings, Splits
  <2>3. QED
    BY <1>5, <2>1, <2>2, MoveRightEffect, PostedMove
<1>6. CASE PostSplit(b)
  <2>1. /\ th[b].pc = "grow" /\ th'[b].pc = "post" /\ th'[b].level = page[th[b].at].level + 1
        /\ th'[b].c = th[b].new
    BY <1>0, <1>6, PostSplitEffect DEF Thread
  <2>2. th[b].at \in Pages /\ page[th[b].at].level \in Nat
    BY <1>0, PageTypes DEF Shape, ThreadShape
  <2>3. \A x \in Pages : Brings(b, x) => Brings(b, x)'
    BY <2>1, <2>2 DEF Brings, Splits
  <2>4. QED
    BY <1>6, <2>1, <2>3, PostSplitEffect, PostedMove
<1>7. CASE Post(b)
  <2>1. th[b].pc = "post" /\ th[b].level <= page[root].level
    BY <1>7, PostEffect DEF HeightInv
  <2>2. page[root].level \in Nat
    BY <1>0, PageTypes DEF Types
  <2>3. th'[b] = [th[b] EXCEPT !.pc = "down", !.at = root]
    BY <1>0, <1>7, <2>1, <2>2 DEF Post, Types
  <2>4. /\ th'[b].pc = "down" /\ th'[b].level = th[b].level /\ th'[b].c = th[b].c
    BY <1>0, <2>3 DEF Thread
  <2>5. \A x \in Pages : Brings(b, x) => Brings(b, x)'
    BY <2>1, <2>4 DEF Brings, Splits
  <2>6. QED
    BY <1>7, <2>1, <2>4, <2>5, PostEffect, PostedMove
<1>8. QED
  BY <1>1, <1>2, <1>3, <1>4, <1>5, <1>6, <1>7

LEMMA PostedStore ==
  ASSUME Shape, Posted, NEW b \in Backend, StoreFast(b)
  PROVE  Posted'
<1>p. PICK p : p = th[b].at
  OBVIOUS
<1>0. /\ p = th[b].at /\ Types /\ Pages' = Pages /\ root' = root /\ OnlyMoves(b)
      /\ th[b].pc = "locked" /\ p \in Pages /\ th'[b].pc = "idle"
      /\ \A q \in Pages :
           /\ SameTree(q) /\ page'[q].sib = page[q].sib
           /\ page'[q].ents = IF q = p THEN Inserted(page[q].ents, Entry(b))
                              ELSE page[q].ents
  BY <1>p, StoreEffect, FinishedType DEF Shape
<1>1. /\ page[p].ents \in Seq(Ent) /\ Count(p) \in Nat /\ Entry(b) \in Ent
      /\ Entry(b).c = th[b].c
  BY <1>0, PageTypes, EntryType
<1>2. \A q \in Pages : BeingCut(q)' <=> BeingCut(q)
  BY <1>0 DEF BeingCut, OnlyMoves
<1>3. ~BeingCut(p)
  BY <1>0, HeldUncut DEF BeingCut, Holds
<1>4. /\ LastKid(p) = Len(page[p].ents) /\ LastKid(p)' = Len(page'[p].ents)
      /\ Takes(page[p].ents, Entry(b), page'[p].ents)
  <2>1. page'[p].ents = Inserted(page[p].ents, Entry(b))
    BY <1>0
  <2>2. QED
    BY <1>0, <1>1, <1>2, <1>3, <2>1, InsertedTakes DEF LastKid, Count
<1>5. ASSUME NEW x \in Pages, NEW q \in Pages, Under(x, q) PROVE Under(x, q)'
  <2>1. /\ ~Leaf(q) /\ page'[q].level = page[q].level /\ page'[q].left = page[q].left
        /\ ~(page'[q].level = 0)
    BY <1>0, <1>5 DEF Under, SameTree, Leaf
  <2>2. CASE q # p
    BY <1>0, <1>2, <1>5, <2>1, <2>2 DEF Under, LastKid, Leaf, Count
  <2>3. CASE q = p /\ page[q].left # x
    <3>1. PICK j \in 1 .. Len(page[p].ents) : page[p].ents[j].c = x
      BY <1>4, <1>5, <2>3 DEF Under
    <3>2. PICK i \in 1 .. LastKid(p)' : page'[p].ents[i] = page[p].ents[j]
      BY <1>4, <3>1 DEF Takes
    <3>3. QED
      BY <2>1, <2>3, <3>1, <3>2 DEF Under, Leaf
  <2>4. QED
    BY <2>1, <2>2, <2>3 DEF Under, Leaf
<1>6. ASSUME NEW x \in Pages, Brings(b, x) PROVE Under(x, p)'
  <2>1. th[b].level > 0 /\ th[b].c = x
    BY <1>0, <1>6 DEF Brings, Splits
  <2>2. th[b].level = page[p].level /\ th[b].level \in Nat
    BY <1>0, ThreadTypes DEF Shape, ThreadShape, Holds
  <2>3. ~(page'[p].level = 0)
    BY <1>0, <2>1, <2>2 DEF SameTree
  <2>4. PICK i \in 1 .. LastKid(p)' : page'[p].ents[i] = Entry(b)
    BY <1>4 DEF Takes
  <2>5. page'[p].ents[i].c = x
    BY <1>1, <2>1, <2>4
  <2>6. QED
    BY <2>3, <2>4, <2>5 DEF Under, Leaf
<1>7. SUFFICES ASSUME NEW x \in Pages PROVE Placed(x)'
  BY <1>0 DEF Posted
<1>8. Placed(x) /\ page'[x].level = page[x].level /\ page'[root].level = page[root].level
  BY <1>0 DEF Posted, SameTree, Types
<1>9. HasParent(x) => HasParent(x)'
  BY <1>0, <1>5 DEF HasParent
<1>10. Brings(b, x) => HasParent(x)'
  BY <1>0, <1>6 DEF HasParent
<1>11. \A o \in Backend \ {b} : Brings(o, x) => Brings(o, x)'
  BY <1>0 DEF Brings, Splits, OnlyMoves
<1>12. (\A q \in Pages : page[q].sib # x) => \A q \in Pages' : page'[q].sib # x
  BY <1>0
<1>13. QED
  BY <1>0, <1>8, <1>9, <1>10, <1>11, <1>12 DEF Placed

LEMMA PostedSplit ==
  ASSUME Shape, Posted, NEW b \in Backend, SplitPage(b)
  PROVE  Posted'
<1>p. PICK p, n, m : p = th[b].at /\ n = Len(page) + 1 /\ m = Count(p) \div 2
  OBVIOUS
<1>0. /\ p = th[b].at /\ n = Len(page) + 1 /\ m = Count(p) \div 2
      /\ Types /\ Pages' = Pages \cup {n} /\ n \notin Pages /\ root' = root /\ OnlyMoves(b)
      /\ th[b].pc = "locked" /\ p \in Pages /\ Count(p) >= 3 /\ m \in 1 .. Count(p) - 2
      /\ \A q \in Pages :
           /\ SameTree(q) /\ page'[q].ents = page[q].ents
           /\ page'[q].sib = IF q = p THEN n ELSE page[q].sib
      /\ Half(p, n)
  BY <1>p, SplitEffect DEF Shape
<1>1. /\ th'[b].pc = "cut" /\ th'[b].new = n /\ th'[b].at = p
      /\ th'[b].level = th[b].level /\ th'[b].c = th[b].c
  <2>1. th'[b] = [th[b] EXCEPT !.pc = "cut", !.new = n,
                               !.split = page[p].ents[Count(p) \div 2 + 1].k,
                                !.cnt = Len(page'[n].ents)]
    BY <1>p, SplitEffect
  <2>2. th[b] \in Thread
    BY <1>0, ThreadTypes
  <2>3. QED
    BY <1>0, <2>1, <2>2 DEF Thread
<1>2. Count(p) \in Nat /\ \A o \in Backend : th[o].at \in Pages
  BY <1>0, PageTypes DEF Shape, ThreadShape
<1>3. ~BeingCut(p) /\ BeingCut(p)' /\ ~BeingCut(n)'
  BY <1>0, <1>1, <1>2, HeldUncut DEF BeingCut, Holds, OnlyMoves
<1>4. \A q \in Pages \ {p} : BeingCut(q)' <=> BeingCut(q)
  BY <1>0, <1>1 DEF BeingCut, OnlyMoves
<1>5. /\ LastKid(p) = Count(p) /\ LastKid(p)' = m /\ LastKid(n)' = Len(page'[n].ents)
  BY <1>0, <1>3 DEF LastKid, Count
<1>6. ASSUME NEW x \in Pages, NEW q \in Pages, Under(x, q)
      PROVE  Under(x, q)' \/ Under(x, n)'
  <2>1. /\ ~Leaf(q) /\ page'[q].level = page[q].level /\ page'[q].left = page[q].left
        /\ ~(page'[q].level = 0)
    BY <1>0, <1>6 DEF Under, SameTree, Leaf
  <2>2. CASE q # p
    BY <1>0, <1>4, <1>6, <2>1, <2>2 DEF Under, LastKid, Leaf, Count
  <2>3. CASE q = p /\ page[q].left # x
    <3>1. PICK j \in 1 .. Count(p) : page[p].ents[j].c = x
      BY <1>5, <1>6, <2>3 DEF Under
    <3>2. /\ page'[n].left = page[p].ents[m + 1].c /\ ~(page'[n].level = 0)
          /\ LastKid(n)' = Count(p) - (m + 1)
          /\ \A i \in 1 .. Count(p) - (m + 1) : page'[n].ents[i] = page[p].ents[i + (m + 1)]
      BY <1>0, <1>5, <2>1, <2>3,
         SMTT(30) DEF Half, SameTree
    <3>3. CASE j <= m
      <4>1. j \in 1 .. LastKid(p)' /\ page'[p].ents[j].c = x
        BY <1>0, <1>5, <3>1, <3>3
      <4>2. QED
        BY <2>1, <2>3, <4>1 DEF Under, Leaf
    <3>4. CASE j = m + 1
      BY <3>1, <3>2, <3>4 DEF Under, Leaf
    <3>5. CASE j > m + 1
      <4>0. m \in Nat /\ j \in Nat /\ Count(p) \in Nat /\ j <= Count(p)
        BY <1>0, <1>2, <3>1
      <4>1. /\ j - (m + 1) \in 1 .. Count(p) - (m + 1)
            /\ (j - (m + 1)) + (m + 1) = j
        BY <4>0, <3>5
      <4>2. page'[n].ents[j - (m + 1)].c = x
        BY <3>1, <3>2, <4>1
      <4>3. QED
        BY <3>2, <4>1, <4>2 DEF Under, Leaf
    <3>6. QED
      BY <1>0, <1>2, <3>1, <3>3, <3>4, <3>5
  <2>4. QED
    BY <2>1, <2>2, <2>3 DEF Under, Leaf
<1>7. Placed(n)'
  BY <1>1 DEF Placed, Brings, Splits
<1>8. ASSUME NEW x \in Pages PROVE Placed(x)'
  <2>1. Placed(x) /\ page'[x].level = page[x].level /\ page'[root].level = page[root].level
    BY <1>0 DEF Posted, SameTree, Types
  <2>2. HasParent(x) => HasParent(x)'
    BY <1>0, <1>6 DEF HasParent
  <2>3. Brings(b, x) => Brings(b, x)'
    BY <1>0, <1>1 DEF Brings, Splits
  <2>4. \A o \in Backend \ {b} : Brings(o, x) => Brings(o, x)'
    BY <1>0 DEF Brings, Splits, OnlyMoves
  <2>5. (\A q \in Pages : page[q].sib # x) => \A q \in Pages' : page'[q].sib # x
    BY <1>0 DEF Half
  <2>6. QED
    BY <1>0, <2>1, <2>2, <2>3, <2>4, <2>5 DEF Placed
<1>9. QED
  BY <1>0, <1>7, <1>8 DEF Posted

LEMMA PostedCut ==
  ASSUME Shape, Posted, ~raced', NEW b \in Backend, CutPage(b)
  PROVE  Posted'
<1>p. PICK p, n, m : p = th[b].at /\ n = th[b].new /\ m = Count(p) \div 2
  OBVIOUS
<1>0. /\ p = th[b].at /\ n = th[b].new /\ m = Count(p) \div 2
      /\ Types /\ Pages' = Pages /\ root' = root /\ OnlyMoves(b)
      /\ th[b].pc = "cut" /\ p \in Pages /\ n \in Pages /\ n # p /\ Count(p) >= 3
      /\ \A q \in Pages : SameTree(q) /\ page'[q].sib = page[q].sib
      /\ \A q \in Pages \ {p, n} : page'[q].ents = page[q].ents
      /\ \/ /\ page'[p].ents = Inserted(LowHalf(p), Entry(b))
            /\ page'[n].ents = page[n].ents
         \/ /\ page'[p].ents = LowHalf(p)
            /\ page'[n].ents = Inserted(page[n].ents, Entry(b))
            /\ ~BeingCut(n)
  BY <1>p, CutEffect DEF Shape, BeingCut
<1>1. /\ th'[b].pc = "grow" /\ th'[b].new = n /\ th'[b].at = p
      /\ th'[b].level = th[b].level /\ th'[b].c = th[b].c
  BY <1>0, CutEffect, ThreadTypes DEF Thread
<1>2. /\ LowHalf(p) \in Seq(Ent) /\ Len(LowHalf(p)) = m /\ m \in Nat
      /\ \A i \in 1 .. m : LowHalf(p)[i] = page[p].ents[i]
      /\ Count(n) \in Nat /\ page[n].ents \in Seq(Ent)
      /\ Entry(b) \in Ent /\ Entry(b).c = th[b].c
  <2>1. /\ LowHalf(p) \in Seq(Ent) /\ Len(LowHalf(p)) = Count(p) \div 2
        /\ \A i \in 1 .. Count(p) \div 2 : LowHalf(p)[i] = page[p].ents[i]
        /\ Count(p) \in Nat
    BY <1>0, LowFacts, PageTypes
  <2>2. Count(n) \in Nat /\ page[n].ents \in Seq(Ent) /\ m \in Nat
    BY <1>p, <1>0, <2>1, PageTypes
  <2>3. QED
    BY <1>p, <1>0, <2>1, <2>2, EntryType
<1>3. BeingCut(p) /\ ~BeingCut(p)'
  BY <1>0, <1>1, HeldUncut DEF BeingCut, Holds, OnlyMoves
<1>4. \A q \in Pages \ {p} : BeingCut(q)' <=> BeingCut(q)
  BY <1>0, <1>1 DEF BeingCut, OnlyMoves
<1>5. LastKid(p) = m /\ LastKid(p)' = Len(page'[p].ents)
  BY <1>0, <1>3 DEF LastKid, Count
<1>6. \/ /\ Takes(LowHalf(p), Entry(b), page'[p].ents)
         /\ page'[n].ents = page[n].ents
      \/ /\ page'[p].ents = LowHalf(p)
         /\ Takes(page[n].ents, Entry(b), page'[n].ents)
         /\ LastKid(n) = Len(page[n].ents) /\ LastKid(n)' = Len(page'[n].ents)
  BY <1>0, <1>2, <1>4, InsertedTakes DEF LastKid, Count
<1>7. ASSUME NEW x \in Pages, NEW q \in Pages, Under(x, q) PROVE Under(x, q)'
  <2>1. /\ ~Leaf(q) /\ page'[q].level = page[q].level /\ page'[q].left = page[q].left
        /\ ~(page'[q].level = 0)
    BY <1>0, <1>7 DEF Under, SameTree, Leaf
  <2>2. CASE q # p /\ page'[q].ents = page[q].ents
    BY <1>4, <1>7, <2>1, <2>2 DEF Under, LastKid, Leaf, Count
  <2>3. CASE q = p /\ page[q].left # x
    <3>1. PICK j \in 1 .. Len(LowHalf(p)) : LowHalf(p)[j].c = x
      BY <1>2, <1>5, <1>7, <2>3 DEF Under
    <3>2. PICK i \in 1 .. Len(page'[p].ents) : page'[p].ents[i] = LowHalf(p)[j]
      BY <1>6, <3>1 DEF Takes
    <3>3. QED
      BY <1>5, <2>1, <2>3, <3>1, <3>2 DEF Under, Leaf
  <2>4. CASE q = n /\ page'[n].ents # page[n].ents /\ page[q].left # x
    <3>0. /\ Takes(page[n].ents, Entry(b), page'[n].ents)
          /\ LastKid(n) = Len(page[n].ents) /\ LastKid(n)' = Len(page'[n].ents)
      BY <1>6, <2>4
    <3>1. PICK j \in 1 .. Len(page[n].ents) : page[n].ents[j].c = x
      BY <1>7, <2>4, <3>0 DEF Under
    <3>2. PICK i \in 1 .. Len(page'[n].ents) : page'[n].ents[i] = page[n].ents[j]
      BY <3>0, <3>1 DEF Takes
    <3>3. QED
      BY <2>1, <2>4, <3>0, <3>1, <3>2 DEF Under, Leaf
  <2>5. CASE page'[q].left = x
    BY <2>1, <2>5 DEF Under, Leaf
  <2>6. q \in {p, n} \/ page'[q].ents = page[q].ents
    BY <1>0
  <2>7. QED
    BY <2>1, <2>2, <2>3, <2>4, <2>5, <2>6
<1>8. ASSUME NEW x \in Pages, Brings(b, x) PROVE Brings(b, x)' \/ HasParent(x)'
  <2>1. CASE n = x
    BY <1>1, <2>1 DEF Brings, Splits
  <2>2. CASE n # x
    <3>1. th[b].level > 0 /\ th[b].c = x
      BY <1>0, <1>8, <2>2 DEF Brings
    <3>2. /\ th[b].level = page[p].level /\ page[n].level = page[p].level
          /\ th[b].level \in Nat
      BY <1>0, ThreadTypes DEF Shape, ThreadShape, Holds, Splits
    <3>3. ~(page'[p].level = 0) /\ ~(page'[n].level = 0)
      BY <1>0, <3>1, <3>2 DEF SameTree
    <3>4. CASE \E i \in 1 .. Len(page'[p].ents) : page'[p].ents[i] = Entry(b)
      <4>1. Under(x, p)'
        BY <1>2, <1>5, <3>1, <3>3, <3>4 DEF Under, Leaf
      <4>2. QED
        BY <1>0, <4>1 DEF HasParent
    <3>5. CASE \E i \in 1 .. LastKid(n)' : page'[n].ents[i] = Entry(b)
      <4>1. Under(x, n)'
        BY <1>2, <3>1, <3>3, <3>5 DEF Under, Leaf
      <4>2. QED
        BY <1>0, <4>1 DEF HasParent
    <3>6. QED
      BY <1>6, <3>4, <3>5 DEF Takes
  <2>3. QED
    BY <2>1, <2>2
<1>9. SUFFICES ASSUME NEW x \in Pages PROVE Placed(x)'
  BY <1>0 DEF Posted
<1>10. Placed(x) /\ page'[x].level = page[x].level /\ page'[root].level = page[root].level
  BY <1>0 DEF Posted, SameTree, Types
<1>11. HasParent(x) => HasParent(x)'
  BY <1>0, <1>7 DEF HasParent
<1>12. \A o \in Backend \ {b} : Brings(o, x) => Brings(o, x)'
  BY <1>0 DEF Brings, Splits, OnlyMoves
<1>13. (\A q \in Pages : page[q].sib # x) => \A q \in Pages' : page'[q].sib # x
  BY <1>0
<1>14. QED
  BY <1>0, <1>8, <1>10, <1>11, <1>12, <1>13 DEF Placed

LEMMA PostedGrow ==
  ASSUME Shape, HeightInv, Posted, NEW b \in Backend, GrowRoot(b)
  PROVE  Posted'
<1>p. PICK p, n, c : p = th[b].at /\ n = Len(page) + 1 /\ c = th[b].new
  OBVIOUS
<1>0. /\ p = th[b].at /\ n = Len(page) + 1 /\ c = th[b].new /\ Types /\ Pages' = Pages \cup {n} /\ n \notin Pages
      /\ root = p /\ root' = n /\ OnlyMoves(b) /\ th[b].pc = "grow" /\ p \in Pages
      /\ th'[b].pc = "idle"
      /\ \A q \in Pages : page'[q] = page[q]
      /\ page'[n].level = page[p].level + 1 /\ page'[n].left = p
      /\ page'[n].sib = Null /\ Len(page'[n].ents) = 1 /\ page'[n].ents[1].c = c
  BY <1>p, GrowEffect, FinishedType DEF Shape
<1>1. page[p].level \in Nat /\ \A o \in Backend : th[o].at \in Pages
  BY <1>0, PageTypes DEF Shape, ThreadShape
<1>2. ~BeingCut(n)' /\ \A q \in Pages : BeingCut(q)' <=> BeingCut(q)
  BY <1>0, <1>1 DEF BeingCut, OnlyMoves
<1>3. HasParent(p)' /\ HasParent(c)'
  <2>1. LastKid(n)' = 1 /\ ~(page'[n].level = 0)
    BY <1>0, <1>1, <1>2 DEF LastKid, Count
  <2>2. Under(p, n)'
    BY <1>0, <2>1 DEF Under, Leaf
  <2>3. Under(c, n)'
    BY <1>0, <2>1 DEF Under, Leaf
  <2>4. QED
    BY <1>0, <2>2, <2>3 DEF HasParent
<1>4. ASSUME NEW x \in Pages, page[x].level = page[root].level PROVE HasParent(x)'
  <2>1. CASE x = root
    BY <1>0, <1>3, <2>1
  <2>2. CASE x # root
    <3>1. PICK o \in Backend : SplitsRoot(o) /\ th[o].new = x
      BY <1>4, <2>2 DEF HeightInv
    <3>2. SplitsRoot(b)
      BY <1>0 DEF SplitsRoot, Splits
    <3>3. o = b
      <4>1. lock[root] = o
        BY <3>1, RootSplitter
      <4>2. lock[root] = b
        BY <3>2, RootSplitter
      <4>3. QED
        BY <4>1, <4>2
    <3>4. QED
      BY <1>0, <1>3, <3>1, <3>3
  <2>3. QED
    BY <2>1, <2>2
<1>5. \A x, q \in Pages : Under(x, q) => Under(x, q)'
  BY <1>0, <1>2 DEF Under, LastKid, Leaf, Count
<1>6. Placed(n)'
  BY <1>0 DEF Placed
<1>7. ASSUME NEW x \in Pages PROVE Placed(x)'
  <2>1. Placed(x)
    BY DEF Posted
  <2>2. HasParent(x) => HasParent(x)'
    BY <1>0, <1>5 DEF HasParent
  <2>3. Brings(b, x) => HasParent(x)'
    BY <1>0, <1>3 DEF Brings, Splits
  <2>4. \A o \in Backend \ {b} : Brings(o, x) => Brings(o, x)'
    BY <1>0 DEF Brings, Splits, OnlyMoves
  <2>5. (\A q \in Pages : page[q].sib # x) => \A q \in Pages' : page'[q].sib # x
    <3>1. x # Null
      BY <1>0, PageTypes DEF Null
    <3>2. QED
      BY <1>0, <3>1
  <2>6. QED
    BY <1>4, <2>1, <2>2, <2>3, <2>4, <2>5 DEF Placed
<1>8. QED
  BY <1>0, <1>6, <1>7 DEF Posted

LEMMA PostedStep ==
  ASSUME Shape, HeightInv, Posted, ~raced', [Next]_vars
  PROVE  Posted'
<1>1. ASSUME NEW b \in Backend, Step(b) PROVE Posted'
  BY <1>1, PostedMoves, PostedStore, PostedSplit, PostedCut, PostedGrow
  DEF Step, Descends
<1>2. ASSUME UNCHANGED vars PROVE Posted'
  <2>1. page' = page /\ root' = root /\ th' = th /\ Pages' = Pages
    BY <1>2 DEF vars, Pages
  <2>2. \A x, q \in Pages : Under(x, q) => Under(x, q)'
    BY <2>1 DEF Under, LastKid, BeingCut, Leaf, Count
  <2>3. \A x \in Pages : HasParent(x) => HasParent(x)'
    BY <2>1, <2>2 DEF HasParent
  <2>4. \A x : \A b \in Backend : Brings(b, x) => Brings(b, x)'
    BY <2>1 DEF Brings, Splits
  <2>5. QED
    BY <2>1, <2>3, <2>4 DEF Posted, Placed
<1>3. QED
  BY <1>1, <1>2 DEF Next

(* Every page that is some page's sibling gets into its parent: it is a    *)
(* child of a page one level up, or on its way there with the thread that  *)
(* linked it, whatever splits meanwhile (store, btree_insert_internal).    *)
(* Two cases are excluded: a search was led astray, or a page was written  *)
(* or split by another thread while the one that linked it still fills it. *)
THEOREM PagesGetPosted == Spec => []PagesPosted
<1> DEFINE I == Shape /\ HeightInv /\ RacedType /\ (raced \/ Posted)
<1>1. Init => I
  <2> SUFFICES ASSUME Init PROVE Posted
    BY ShapeInit, HeightInit, RacedInit
  <2>1. Pages = {1} /\ root = 1
    BY DEF Init, Pages
  <2>2. QED
    BY <2>1 DEF Posted, Placed
<1>2. I /\ [Next]_vars => I'
  <2> SUFFICES ASSUME I, [Next]_vars PROVE I'
    OBVIOUS
  <2>1. (Shape /\ HeightInv /\ RacedType)' /\ (~raced' => ~raced)
    BY ShapeStep, HeightStep, RacedStep
  <2>2. ~raced' => Posted'
    BY <2>1, PostedStep
  <2>3. QED
    BY <2>1, <2>2
<1>3. I => PagesPosted
  <2> SUFFICES ASSUME Shape, Posted, NEW x \in Pages,
                      page[x].level # page[root].level,
                      NEW q0 \in Pages, page[q0].sib = x
               PROVE  \/ \E q \in Pages :
                           /\ page[q].level = page[x].level + 1
                           /\ \/ page[q].left = x
                              \/ \E i \in 1 .. Count(q) : page[q].ents[i].c = x
                      \/ \E b \in Backend :
                           /\ th[b].pc # "idle"
                           /\ th[b].new = x \/ (th[b].level > 0 /\ th[b].c = x)
    BY DEF PagesPosted
  <2>1. HasParent(x) \/ \E b \in Backend : Brings(b, x)
    BY DEF Posted, Placed
  <2>2. CASE HasParent(x)
    <3>1. PICK q \in Pages : Under(x, q)
      BY <2>2 DEF HasParent
    <3>2. ~Leaf(q) /\ PageShape(q) /\ Count(q) \in Nat
      BY <3>1, PageTypes DEF Under, Shape
    <3>3. 1 .. LastKid(q) \subseteq 1 .. Count(q)
      BY <3>2 DEF LastKid
    <3>4. \/ page[q].left = x
          \/ \E i \in 1 .. Count(q) : page[q].ents[i].c = x
      BY <3>1, <3>3 DEF Under
    <3>5. Below(x, page[q].level)
      BY <3>2, <3>4 DEF PageShape
    <3>6. QED
      BY <3>4, <3>5 DEF Below
  <2>3. CASE \E b \in Backend : Brings(b, x)
    BY <2>3 DEF Brings, Splits
  <2>4. QED
    BY <2>1, <2>2, <2>3
<1>4. QED
  BY <1>1, <1>2, <1>3, PTL DEF Spec

-----------------------------------------------------------------------------
(* Every stored record is in one place of one leaf.                        *)

(* Entry i of leaf p is there to stay, not in a half to be cut off.        *)
Spot(p, i) == p \in Pages /\ Leaf(p) /\ i \in 1 .. LastKid(p)

Has(p, i) == page[p].ents[i].c

SpotInv ==
  /\ \A p, i : Spot(p, i) =>
       Has(p, i) \in Stored /\ page[p].ents[i].k = KeyOf(Has(p, i))
  /\ \A p, i, q, j : Spot(p, i) /\ Spot(q, j) /\ Has(p, i) = Has(q, j) => p = q /\ i = j
  /\ \A x \in Stored : \E p, i : Spot(p, i) /\ Has(p, i) = x

(* What a thread that goes to a leaf carries.                              *)
Carries(b) ==
  th[b].pc # "idle" /\ th[b].level = 0 =>
    th[b].c = <<b, th[b].done + 1>> /\ th[b].k = Work[b][th[b].done + 1]

(* A thread that posts is above the leaves.                                *)
PostsAbove(b) == th[b].pc = "post" => th[b].level > 0

FirstFilled == page[1].sib # Null => Count(1) > 0

RecordInv ==
  /\ SpotInv
  /\ \A b \in Backend : Carries(b) /\ PostsAbove(b)
  /\ FirstFilled

StoredBy(b, i) ==
  \/ i <= th[b].done
  \/ i = th[b].done + 1 /\ th[b].pc # "idle" /\ (th[b].level > 0 \/ th[b].pc \in {"grow", "post"})

LEMMA StoredIs ==
  /\ \A x \in Stored : \E b \in Backend : \E i \in 1 .. Len(Work[b]) :
       x = <<b, i>> /\ StoredBy(b, i)
  /\ \A b \in Backend : \A i \in 1 .. Len(Work[b]) : <<b, i>> \in Stored <=> StoredBy(b, i)
<1>1. ASSUME NEW b \in Backend, NEW i \in 1 .. Len(Work[b])
      PROVE  <<b, i>> \in Stored <=> StoredBy(b, i)
  <2>1. <<b, i>> \in Record
    BY DEF Record
  <2>2. <<b, i>>[1] = b /\ <<b, i>>[2] = i
    OBVIOUS
  <2>3. QED
    BY <2>1, <2>2 DEF Stored, StoredBy
<1>2. ASSUME NEW x \in Stored
      PROVE  \E b \in Backend : \E i \in 1 .. Len(Work[b]) : x = <<b, i>> /\ StoredBy(b, i)
  <2>1. x \in Record
    BY DEF Stored
  <2>2. PICK b \in Backend : x \in {b} \X (1 .. Len(Work[b]))
    BY <2>1 DEF Record
  <2>3. PICK i \in 1 .. Len(Work[b]) : x = <<b, i>>
    BY <2>2
  <2>4. QED
    BY <1>1, <2>3
<1>3. QED
  BY <1>1, <1>2

LEMMA StoredSame ==
  ASSUME NEW b \in Backend, OnlyMoves(b),
         \A i \in 1 .. Len(Work[b]) : StoredBy(b, i)' <=> StoredBy(b, i)
  PROVE  Stored' = Stored
<1>1. \A o \in Backend : \A i \in 1 .. Len(Work[o]) : StoredBy(o, i)' <=> StoredBy(o, i)
  BY DEF OnlyMoves, StoredBy
<1>2. ASSUME NEW x \in Record PROVE x \in Stored' <=> x \in Stored
  <2>1. PICK o \in Backend : x \in {o} \X (1 .. Len(Work[o]))
    BY DEF Record
  <2>2. PICK i \in 1 .. Len(Work[o]) : x = <<o, i>>
    BY <2>1
  <2>3. x[1] = o /\ x[2] = i
    BY <2>2
  <2>4. (x \in Stored <=> StoredBy(o, i)) /\ (x \in Stored' <=> StoredBy(o, i)')
    BY <2>3 DEF Stored, StoredBy
  <2>5. QED
    BY <1>1, <2>4
<1>3. Stored \subseteq Record /\ Stored' \subseteq Record
  BY DEF Stored, Record
<1>4. QED
  BY <1>2, <1>3

(* A thread stores its record in a leaf.                                   *)
LEMMA StoredMore ==
  ASSUME Types, DoneInv, NEW b \in Backend, Carries(b), OnlyMoves(b),
         th[b].pc \in {"locked", "cut"}, th[b].level = 0,
         \/ th'[b].pc = "idle" /\ th'[b].done = th[b].done + 1
         \/ th'[b].pc = "grow" /\ th'[b].done = th[b].done
  PROVE  /\ th[b].c \notin Stored /\ Stored' = Stored \cup {th[b].c}
         /\ th[b].k = KeyOf(th[b].c)
<1> DEFINE n == th[b].done + 1
<1>1. /\ th[b].done \in Nat /\ n \in 1 .. Len(Work[b])
      /\ th[b].c = <<b, n>> /\ th[b].k = Work[b][n]
  BY ThreadTypes, WorkLength DEF DoneInv, Carries
<1>2. <<b, n>> \in Record /\ <<b, n>>[1] = b /\ <<b, n>>[2] = n
  BY <1>1 DEF Record
<1>3. ~StoredBy(b, n)
  BY <1>1 DEF StoredBy
<1>4. ASSUME NEW x \in Record PROVE x \in Stored' <=> x \in Stored \/ x = <<b, n>>
  <2>1. PICK o \in Backend : x \in {o} \X (1 .. Len(Work[o]))
    BY DEF Record
  <2>2. PICK i \in 1 .. Len(Work[o]) : x = <<o, i>>
    BY <2>1
  <2>3. x[1] = o /\ x[2] = i
    BY <2>2
  <2>4. (x \in Stored <=> StoredBy(o, i)) /\ (x \in Stored' <=> StoredBy(o, i)')
    BY <2>3 DEF Stored, StoredBy
  <2>5. CASE o # b
    <3>1. StoredBy(o, i)' <=> StoredBy(o, i)
      BY <2>5 DEF StoredBy, OnlyMoves
    <3>2. QED
      BY <2>2, <2>4, <2>5, <3>1
  <2>6. CASE o = b
    <3>1. StoredBy(b, i)' <=> StoredBy(b, i) \/ i = n
      BY <1>1 DEF StoredBy
    <3>2. QED
      BY <2>2, <2>4, <2>6, <3>1
  <2>7. QED
    BY <2>5, <2>6
<1>5. Stored \subseteq Record /\ Stored' \subseteq Record
  BY DEF Stored, Record
<1>6. <<b, n>> \notin Stored
  BY <1>2, <1>3 DEF Stored, StoredBy
<1>7. th[b].k = KeyOf(th[b].c)
  BY <1>1 DEF KeyOf
<1>8. QED
  BY <1>1, <1>2, <1>4, <1>5, <1>6, <1>7

(* Leaves as they were.                                                    *)
LEMMA SpotFrame ==
  ASSUME SpotInv, Stored' = Stored,
         \A p, i : Spot(p, i)' <=> Spot(p, i),
         \A p, i : Spot(p, i) => page'[p].ents[i] = page[p].ents[i]
  PROVE  SpotInv'
<1>1. \A p, i : Spot(p, i) => Has(p, i)' = Has(p, i)
  BY DEF Has
<1>2. QED
  BY <1>1 DEF SpotInv

(* One list of a leaf grows by a record that was in none.                  *)
LEMMA SpotInsert ==
  ASSUME SpotInv, NEW p \in Pages, Leaf(p), NEW es \in Seq(Ent), NEW e \in Ent,
         LastKid(p) = Len(es), \A i \in 1 .. Len(es) : page[p].ents[i] = es[i],
         p \in Pages', Leaf(p)', LastKid(p)' = Len(es) + 1,
         page'[p].ents = Inserted(es, e),
         \A q, i : q # p => (Spot(q, i)' <=> Spot(q, i)),
         \A q, i : q # p /\ Spot(q, i) => page'[q].ents[i] = page[q].ents[i],
         e.c \notin Stored, Stored' = Stored \cup {e.c}, e.k = KeyOf(e.c)
  PROVE  SpotInv'
<1>1. PICK n : /\ Place(es, e, n)
               /\ Inserted(es, e) =
                    [i \in 1 .. Len(es) + 1 |->
                       IF i <= n THEN es[i] ELSE IF i = n + 1 THEN e ELSE es[i - 1]]
  BY InsertedAt
<1>2. n \in 0 .. Len(es) /\ Len(es) \in Nat
  BY <1>1 DEF Place
<1>3. /\ \A i : Spot(p, i) <=> i \in 1 .. Len(es)
      /\ \A i : Spot(p, i)' <=> i \in 1 .. Len(es) + 1
  BY DEF Spot
<1> DEFINE old(i) == IF i <= n THEN i ELSE i - 1
<1>4. page'[p].ents[n + 1] = e /\ Spot(p, n + 1)'
  BY <1>1, <1>2, <1>3
<1>5. ASSUME NEW i, Spot(p, i)', i # n + 1
      PROVE  /\ i \in Nat /\ old(i) \in 1 .. Len(es) /\ Spot(p, old(i))
             /\ page'[p].ents[i] = page[p].ents[old(i)]
  <2>1. i \in 1 .. Len(es) + 1 /\ old(i) \in 1 .. Len(es)
    BY <1>2, <1>3, <1>5
  <2>2. page'[p].ents[i] = es[old(i)]
    BY <1>1, <1>2, <1>5, <2>1
  <2>3. QED
    BY <1>3, <2>1, <2>2
<1>6. ASSUME NEW i, Spot(p, i) PROVE \E j : Spot(p, j)' /\ page'[p].ents[j] = page[p].ents[i]
  <2>1. i \in 1 .. Len(es)
    BY <1>3, <1>6
  <2>2. CASE i <= n
    <3>1. Spot(p, i)' /\ page'[p].ents[i] = page[p].ents[i]
      BY <1>1, <1>2, <1>3, <2>1, <2>2
    <3>2. QED
      BY <3>1
  <2>3. CASE i > n
    <3>1. Spot(p, i + 1)' /\ page'[p].ents[i + 1] = page[p].ents[i]
      BY <1>1, <1>2, <1>3, <2>1, <2>3
    <3>2. QED
      BY <3>1
  <2>4. QED
    BY <1>2, <2>1, <2>2, <2>3
(* Every spot holds what a spot held before, or the new record.            *)
<1>7. ASSUME NEW q, NEW i, Spot(q, i)'
      PROVE  \/ q = p /\ i = n + 1 /\ page'[q].ents[i] = e
             \/ \E j : /\ Spot(q, j) /\ page'[q].ents[i] = page[q].ents[j]
                       /\ ~(q = p /\ i = n + 1)
                       /\ j = IF q = p THEN old(i) ELSE i
  BY <1>4, <1>5, <1>7
<1>8. ASSUME NEW q, NEW i, Spot(q, i)'
      PROVE  Has(q, i)' \in Stored' /\ page'[q].ents[i].k = KeyOf(Has(q, i)')
  BY <1>7, <1>8 DEF Has, SpotInv
<1>9. ASSUME NEW q, NEW i, NEW r, NEW j, Spot(q, i)', Spot(r, j)', Has(q, i)' = Has(r, j)'
      PROVE  q = r /\ i = j
  <2>1. CASE q = p /\ i = n + 1
    <3>1. Has(r, j)' = e.c
      BY <1>4, <1>9, <2>1 DEF Has
    <3>2. r = p /\ j = n + 1
      BY <1>7, <1>9, <3>1 DEF Has, SpotInv
    <3>3. QED
      BY <2>1, <3>2
  <2>2. CASE r = p /\ j = n + 1
    <3>1. Has(q, i)' = e.c
      BY <1>4, <1>9, <2>2 DEF Has
    <3>2. q = p /\ i = n + 1
      BY <1>7, <1>9, <3>1 DEF Has, SpotInv
    <3>3. QED
      BY <2>2, <3>2
  <2>3. CASE ~(q = p /\ i = n + 1) /\ ~(r = p /\ j = n + 1)
    <3>1. PICK i0 : /\ Spot(q, i0) /\ page'[q].ents[i] = page[q].ents[i0]
                    /\ i0 = IF q = p THEN old(i) ELSE i
      BY <1>7, <1>9, <2>3
    <3>2. PICK j0 : /\ Spot(r, j0) /\ page'[r].ents[j] = page[r].ents[j0]
                    /\ j0 = IF r = p THEN old(j) ELSE j
      BY <1>7, <1>9, <2>3
    <3>3. q = r /\ i0 = j0
      BY <1>9, <3>1, <3>2 DEF Has, SpotInv
    <3>4. CASE q = p
      <4>1. old(i) = old(j) /\ i \in Nat /\ j \in Nat /\ i # n + 1 /\ j # n + 1
        BY <1>5, <1>9, <2>3, <3>1, <3>2, <3>3, <3>4
      <4>2. QED
        BY <1>2, <3>3, <4>1
    <3>5. QED
      BY <3>1, <3>2, <3>3, <3>4
  <2>4. QED
    BY <2>1, <2>2, <2>3
<1>10. ASSUME NEW x \in Stored' PROVE \E q, i : Spot(q, i)' /\ Has(q, i)' = x
  <2>1. CASE x = e.c
    BY <1>4, <2>1 DEF Has
  <2>2. CASE x \in Stored
    <3>1. PICK q, i : Spot(q, i) /\ Has(q, i) = x
      BY <2>2 DEF SpotInv
    <3>2. \E j : Spot(q, j)' /\ page'[q].ents[j] = page[q].ents[i]
      BY <1>6, <3>1
    <3>3. QED
      BY <3>1, <3>2 DEF Has
  <2>3. QED
    BY <1>10, <2>1, <2>2
<1>11. QED
  BY <1>8, <1>9, <1>10 DEF SpotInv

LEMMA RecordMove ==
  ASSUME Types, RecordInv, NEW b \in Backend, SamePages, Pages' = Pages, OnlyMoves(b),
         th[b].pc # "cut", th'[b].pc # "cut", th'[b].done = th[b].done,
         StoredBy(b, th[b].done + 1)' <=> StoredBy(b, th[b].done + 1), Carries(b)', PostsAbove(b)'
  PROVE  RecordInv'
<1>1. \A q \in Pages : BeingCut(q)' <=> BeingCut(q)
  BY DEF BeingCut, OnlyMoves
<1>2. /\ \A p, i : Spot(p, i)' <=> Spot(p, i)
      /\ \A p, i : Spot(p, i) => page'[p].ents[i] = page[p].ents[i]
  BY <1>1 DEF Spot, LastKid, Leaf, Count, SamePages
<1>3. Stored' = Stored
  <2>1. \A i \in 1 .. Len(Work[b]) : StoredBy(b, i)' <=> StoredBy(b, i)
    BY ThreadTypes, WorkLength DEF StoredBy
  <2>2. QED
    BY <2>1, StoredSame
<1>4. SpotInv'
  BY <1>2, <1>3, SpotFrame DEF RecordInv
<1>5. \A o \in Backend : Carries(o)' /\ PostsAbove(o)'
  BY DEF RecordInv, Carries, PostsAbove, OnlyMoves
<1>6. FirstFilled'
  BY DEF RecordInv, FirstFilled, SamePages, Count
<1>7. QED
  BY <1>4, <1>5, <1>6 DEF RecordInv

LEMMA RecordMoves ==
  ASSUME Shape, HeightInv, RecordInv, NEW b \in Backend,
         \/ Begin(b) \/ Descends(b) \/ Acquire(b) \/ LetGo(b) \/ MoveRight(b)
         \/ PostSplit(b) \/ Post(b)
  PROVE  RecordInv'
<1>0. /\ Types /\ th[b] \in Thread /\ th[b].level \in Nat /\ th[b].done \in Nat
      /\ Carries(b) /\ th[b].at \in Pages /\ page[th[b].at].level \in Nat
      /\ page[root].level \in Nat /\ root \in Pages
  BY ThreadTypes, PageTypes DEF Shape, ThreadShape, RecordInv, Types
<1>1. CASE Begin(b)
  <2>1. /\ th[b].pc = "idle" /\ th'[b].pc = "down" /\ th'[b].level = 0
        /\ th'[b].done = th[b].done /\ th'[b].k = Work[b][th[b].done + 1]
        /\ th'[b].c = <<b, th[b].done + 1>>
    BY <1>0, <1>1 DEF Begin, Thread, Types
  <2>2. /\ StoredBy(b, th[b].done + 1)' <=> StoredBy(b, th[b].done + 1)
        /\ Carries(b)' /\ PostsAbove(b)'
    BY <1>0, <2>1 DEF StoredBy, Carries, PostsAbove
  <2>3. QED
    BY <1>0, <1>1, <2>1, <2>2, BeginEffect, RecordMove
<1>2. CASE Descends(b)
  <2>1. /\ th[b].pc = "down" /\ th'[b].pc = "down" /\ th'[b].level = th[b].level
        /\ th'[b].done = th[b].done /\ th'[b].k = th[b].k /\ th'[b].c = th[b].c
    BY <1>0, <1>2, DownEffect DEF Thread
  <2>2. /\ StoredBy(b, th[b].done + 1)' <=> StoredBy(b, th[b].done + 1)
        /\ Carries(b)' /\ PostsAbove(b)'
    BY <1>0, <2>1 DEF StoredBy, Carries, PostsAbove
  <2>3. QED
    BY <1>0, <1>2, <2>1, <2>2, DownEffect, RecordMove
<1>3. CASE Acquire(b)
  <2>1. /\ th[b].pc = "down" /\ th'[b].pc = "locked" /\ th'[b].level = th[b].level
        /\ th'[b].done = th[b].done /\ th'[b].k = th[b].k /\ th'[b].c = th[b].c
    BY <1>0, <1>3, AcquireEffect DEF Thread
  <2>2. /\ StoredBy(b, th[b].done + 1)' <=> StoredBy(b, th[b].done + 1)
        /\ Carries(b)' /\ PostsAbove(b)'
    BY <1>0, <2>1 DEF StoredBy, Carries, PostsAbove
  <2>3. QED
    BY <1>0, <1>3, <2>1, <2>2, AcquireEffect, RecordMove
<1>4. CASE LetGo(b)
  <2>1. /\ th[b].pc = "locked" /\ th'[b].pc = "right" /\ th'[b].level = th[b].level
        /\ th'[b].done = th[b].done /\ th'[b].k = th[b].k /\ th'[b].c = th[b].c
    BY <1>0, <1>4, LetGoEffect DEF Thread
  <2>2. /\ StoredBy(b, th[b].done + 1)' <=> StoredBy(b, th[b].done + 1)
        /\ Carries(b)' /\ PostsAbove(b)'
    BY <1>0, <2>1 DEF StoredBy, Carries, PostsAbove
  <2>3. QED
    BY <1>0, <1>4, <2>1, <2>2, LetGoEffect, RecordMove
<1>5. CASE MoveRight(b)
  <2>1. /\ th[b].pc = "right" /\ th'[b].pc = "down" /\ th'[b].level = th[b].level
        /\ th'[b].done = th[b].done /\ th'[b].k = th[b].k /\ th'[b].c = th[b].c
    BY <1>0, <1>5, MoveRightEffect DEF Thread
  <2>2. /\ StoredBy(b, th[b].done + 1)' <=> StoredBy(b, th[b].done + 1)
        /\ Carries(b)' /\ PostsAbove(b)'
    BY <1>0, <2>1 DEF StoredBy, Carries, PostsAbove
  <2>3. QED
    BY <1>0, <1>5, <2>1, <2>2, MoveRightEffect, RecordMove
<1>6. CASE PostSplit(b)
  <2>1. /\ th[b].pc = "grow" /\ th'[b].pc = "post" /\ th'[b].done = th[b].done
        /\ th'[b].level = page[th[b].at].level + 1
    BY <1>0, <1>6, PostSplitEffect DEF Thread
  <2>2. /\ StoredBy(b, th[b].done + 1)' <=> StoredBy(b, th[b].done + 1)
        /\ Carries(b)' /\ PostsAbove(b)'
    BY <1>0, <2>1 DEF StoredBy, Carries, PostsAbove
  <2>3. QED
    BY <1>0, <1>6, <2>1, <2>2, PostSplitEffect, RecordMove
<1>7. CASE Post(b)
  <2>1. th[b].pc = "post" /\ th[b].level <= page[root].level
    BY <1>7, PostEffect DEF HeightInv
  <2>2. th'[b] = [th[b] EXCEPT !.pc = "down", !.at = root]
    BY <1>0, <1>7, <2>1 DEF Post, Types
  <2>3. /\ th'[b].pc = "down" /\ th'[b].level = th[b].level /\ th'[b].done = th[b].done
        /\ th'[b].k = th[b].k /\ th'[b].c = th[b].c
    BY <1>0, <2>2 DEF Thread
  <2>4. th[b].level > 0
    BY <2>1 DEF RecordInv, PostsAbove
  <2>5. /\ StoredBy(b, th[b].done + 1)' <=> StoredBy(b, th[b].done + 1)
        /\ Carries(b)' /\ PostsAbove(b)'
    BY <1>0, <2>1, <2>3, <2>4 DEF StoredBy, Carries, PostsAbove
  <2>6. QED
    BY <1>0, <1>7, <2>1, <2>3, <2>5, PostEffect, RecordMove
<1>8. QED
  BY <1>1, <1>2, <1>3, <1>4, <1>5, <1>6, <1>7

LEMMA RecordStore ==
  ASSUME Shape, DoneInv, RecordInv, NEW b \in Backend, StoreFast(b)
  PROVE  RecordInv'
<1>p. PICK p : p = th[b].at
  OBVIOUS
<1>0. /\ p = th[b].at /\ Types /\ Pages' = Pages /\ root' = root /\ OnlyMoves(b)
      /\ th[b].pc = "locked" /\ p \in Pages /\ th'[b] = Finished(b)
      /\ \A q \in Pages :
           /\ SameTree(q) /\ page'[q].sib = page[q].sib
           /\ page'[q].ents = IF q = p THEN Inserted(page[q].ents, Entry(b))
                              ELSE page[q].ents
  BY <1>p, StoreEffect DEF Shape
<1>1. /\ page[p].ents \in Seq(Ent) /\ Entry(b) \in Ent /\ Len(page[p].ents) \in Nat
      /\ Entry(b).c = th[b].c /\ Entry(b).k = th[b].k
      /\ Len(Inserted(page[p].ents, Entry(b))) = Len(page[p].ents) + 1
  <2>1. /\ page[p].ents \in Seq(Ent) /\ Entry(b) \in Ent /\ Len(page[p].ents) \in Nat
        /\ Entry(b).c = th[b].c /\ Entry(b).k = th[b].k
    BY <1>0, PageTypes, EntryType DEF Count
  <2>2. Len(Inserted(page[p].ents, Entry(b))) = Len(page[p].ents) + 1
    BY <2>1, InsertedFacts
  <2>3. QED
    BY <2>1, <2>2
<1>2. /\ th'[b].pc = "idle" /\ th'[b].done = th[b].done + 1 /\ th[b].done \in Nat
      /\ th[b].level \in Nat /\ th[b].level = page[p].level
  <2>1. th[b] \in Thread /\ th[b].level = page[p].level
    BY <1>0, ThreadTypes DEF Shape, ThreadShape, Holds
  <2>2. QED
    BY <1>0, <2>1 DEF Finished, Thread
<1>3. \A q \in Pages : (BeingCut(q)' <=> BeingCut(q)) /\ (Leaf(q)' <=> Leaf(q))
  BY <1>0, <1>2 DEF BeingCut, OnlyMoves, SameTree, Leaf
<1>4. /\ \A q, i : q # p => (Spot(q, i)' <=> Spot(q, i))
      /\ \A q, i : q # p /\ Spot(q, i) => page'[q].ents[i] = page[q].ents[i]
  BY <1>0, <1>3 DEF Spot, LastKid, Count
<1>5. LastKid(p) = Len(page[p].ents) /\ LastKid(p)' = Len(page[p].ents) + 1
  <2>1. ~BeingCut(p) /\ ~BeingCut(p)'
    BY <1>0, <1>3, HeldUncut DEF BeingCut, Holds
  <2>2. Len(page'[p].ents) = Len(page[p].ents) + 1
    BY <1>0, <1>1
  <2>3. QED
    BY <2>1, <2>2 DEF LastKid, Count
<1>6. SpotInv'
  <2>1. CASE th[b].level = 0
    <3>1. /\ th[b].c \notin Stored /\ Stored' = Stored \cup {th[b].c}
          /\ th[b].k = KeyOf(th[b].c)
      BY <1>0, <1>2, <2>1, StoredMore DEF RecordInv
    <3>2. /\ Leaf(p) /\ Leaf(p)' /\ p \in Pages'
          /\ page'[p].ents = Inserted(page[p].ents, Entry(b))
      BY <1>0, <1>2, <1>3, <2>1 DEF Leaf
    <3>3. PICK es, e : es = page[p].ents /\ e = Entry(b)
      OBVIOUS
    <3>4. /\ es \in Seq(Ent) /\ e \in Ent /\ LastKid(p) = Len(es)
          /\ LastKid(p)' = Len(es) + 1 /\ page'[p].ents = Inserted(es, e)
          /\ \A i \in 1 .. Len(es) : page[p].ents[i] = es[i]
      BY <1>1, <1>5, <3>2, <3>3
    <3>5. /\ e.c \notin Stored /\ Stored' = Stored \cup {e.c} /\ e.k = KeyOf(e.c)
      BY <1>1, <3>1, <3>3
    <3>6. SpotInv /\ p \in Pages
      BY <1>0 DEF RecordInv
    <3>7. QED
      BY <1>4, <3>2, <3>4, <3>5, <3>6, SpotInsert
  <2>2. CASE th[b].level > 0
    <3>1. Stored' = Stored
      <4>1. \A i \in 1 .. Len(Work[b]) : StoredBy(b, i)' <=> StoredBy(b, i)
        BY <1>0, <1>2, <2>2, WorkLength DEF StoredBy
      <4>2. QED
        BY <1>0, <4>1, StoredSame
    <3>2. \A i : ~Spot(p, i) /\ ~Spot(p, i)'
      BY <1>0, <1>2, <1>3, <2>2 DEF Spot, Leaf
    <3>3. QED
      BY <1>4, <3>1, <3>2, SpotFrame DEF RecordInv
  <2>3. QED
    BY <1>2, <2>1, <2>2
<1>7. \A o \in Backend : Carries(o)' /\ PostsAbove(o)'
  BY <1>0, <1>2 DEF RecordInv, Carries, PostsAbove, OnlyMoves
<1>8. FirstFilled'
  <2>1. page'[1].sib = page[1].sib
    BY <1>0 DEF Types
  <2>2. \/ p = 1 /\ Len(page'[1].ents) = Len(page[p].ents) + 1
        \/ page'[1].ents = page[1].ents
    BY <1>0, <1>1 DEF Types
  <2>3. QED
    BY <1>1, <2>1, <2>2 DEF RecordInv, FirstFilled, Count
<1>9. QED
  BY <1>6, <1>7, <1>8 DEF RecordInv

LEMMA RecordSplit ==
  ASSUME Shape, DoneInv, RecordInv, NEW b \in Backend, SplitPage(b)
  PROVE  RecordInv'
<1>p. PICK p, n, m : p = th[b].at /\ n = Len(page) + 1 /\ m = Count(p) \div 2
  OBVIOUS
<1>0. /\ p = th[b].at /\ n = Len(page) + 1 /\ m = Count(p) \div 2
      /\ Types /\ Pages' = Pages \cup {n} /\ n \notin Pages /\ root' = root /\ OnlyMoves(b)
      /\ th[b].pc = "locked" /\ p \in Pages /\ Count(p) >= 3 /\ m \in 1 .. Count(p) - 2
      /\ n # 1
      /\ \A q \in Pages :
           /\ SameTree(q) /\ page'[q].ents = page[q].ents
           /\ page'[q].sib = IF q = p THEN n ELSE page[q].sib
      /\ Half(p, n)
  BY <1>p, SplitEffect DEF Shape
<1>1. /\ th'[b].pc = "cut" /\ th'[b].at = p /\ th'[b].done = th[b].done
      /\ th'[b].level = th[b].level /\ th'[b].c = th[b].c /\ th'[b].k = th[b].k
  <2>1. th'[b] = [th[b] EXCEPT !.pc = "cut", !.new = n,
                               !.split = page[p].ents[Count(p) \div 2 + 1].k,
                                !.cnt = Len(page'[n].ents)]
    BY <1>p, SplitEffect
  <2>2. th[b] \in Thread
    BY <1>0, ThreadTypes
  <2>3. QED
    BY <1>0, <2>1, <2>2 DEF Thread
<1>2. Count(p) \in Nat /\ m \in Nat /\ \A o \in Backend : th[o].at \in Pages
  BY <1>0, PageTypes DEF Shape, ThreadShape
<1>3. ~BeingCut(p) /\ BeingCut(p)' /\ ~BeingCut(n)'
  BY <1>0, <1>1, <1>2, HeldUncut DEF BeingCut, Holds, OnlyMoves
<1>4. \A q \in Pages : /\ q # p => (BeingCut(q)' <=> BeingCut(q))
                       /\ Leaf(q)' <=> Leaf(q)
  BY <1>0, <1>1 DEF BeingCut, OnlyMoves, SameTree, Leaf
<1>5. /\ LastKid(p) = Count(p) /\ LastKid(p)' = m /\ LastKid(n)' = Len(page'[n].ents)
  BY <1>0, <1>3 DEF LastKid, Count
<1>6. /\ \A q, i : q \notin {p, n} => (Spot(q, i)' <=> Spot(q, i))
      /\ \A q, i : q \notin {p, n} /\ Spot(q, i) => page'[q].ents[i] = page[q].ents[i]
  BY <1>0, <1>4 DEF Spot, LastKid, Count
<1>7. Stored' = Stored
  <2>1. \A i \in 1 .. Len(Work[b]) : StoredBy(b, i)' <=> StoredBy(b, i)
    BY <1>0, <1>1 DEF StoredBy
  <2>2. QED
    BY <1>0, <2>1, StoredSame
<1>8. SpotInv'
  <2>1. CASE ~Leaf(p)
    <3>1. \A i : /\ ~Spot(p, i) /\ ~Spot(p, i)' /\ ~Spot(n, i) /\ ~Spot(n, i)'
      BY <1>0, <1>4, <2>1 DEF Spot, Leaf, Half
    <3>2. QED
      BY <1>6, <1>7, <3>1, SpotFrame DEF RecordInv
  <2>2. CASE Leaf(p)
    <3>1. /\ Leaf(p)' /\ Leaf(n)' /\ LastKid(n)' = Count(p) - m
          /\ \A i \in 1 .. Count(p) - m : page'[n].ents[i] = page[p].ents[i + m]
      BY <1>0, <1>4, <1>5, <2>2 DEF Half, Leaf
    <3>2. /\ \A i : Spot(p, i) <=> i \in 1 .. Count(p)
          /\ \A i : Spot(p, i)' <=> i \in 1 .. m
          /\ \A i : Spot(n, i)' <=> i \in 1 .. Count(p) - m
          /\ \A i : ~Spot(n, i)
      BY <1>0, <1>5, <2>2, <3>1 DEF Spot
    <3> DEFINE oq(q) == IF q = n THEN p ELSE q
               oi(q, i) == IF q = n THEN i + m ELSE i
    <3>3. ASSUME NEW q, NEW i, Spot(q, i)'
          PROVE  /\ Spot(oq(q), oi(q, i))
                 /\ page'[q].ents[i] = page[oq(q)].ents[oi(q, i)]
                 /\ q = n => i \in Nat /\ oi(q, i) > m
                 /\ q = p => i \in Nat /\ oi(q, i) <= m
      <4>1. CASE q = n
        <5>1. i \in 1 .. Count(p) - m /\ i + m \in 1 .. Count(p) /\ i + m > m
          BY <1>2, <3>2, <3>3, <4>1
        <5>2. QED
          BY <1>0, <3>1, <3>2, <4>1, <5>1
      <4>2. CASE q = p
        <5>1. i \in 1 .. m /\ i \in 1 .. Count(p)
          BY <1>0, <1>2, <3>2, <3>3, <4>2
        <5>2. QED
          BY <1>0, <3>2, <4>2, <5>1
      <4>3. CASE q \notin {p, n}
        BY <1>6, <3>3, <4>3
      <4>4. QED
        BY <4>1, <4>2, <4>3
    <3>4. ASSUME NEW q, NEW i, Spot(q, i)
          PROVE  \E r, j : Spot(r, j)' /\ page'[r].ents[j] = page[q].ents[i]
      <4>1. CASE q = p
        <5>1. i \in 1 .. Count(p)
          BY <3>2, <3>4, <4>1
        <5>2. CASE i <= m
          BY <1>0, <1>2, <3>2, <4>1, <5>1, <5>2
        <5>3. CASE i > m
          <6>1. i - m \in 1 .. Count(p) - m /\ (i - m) + m = i
            BY <1>2, <5>1, <5>3
          <6>2. Spot(n, i - m)' /\ page'[n].ents[i - m] = page[p].ents[i]
            BY <3>1, <3>2, <6>1
          <6>3. QED
            BY <4>1, <6>2
        <5>4. QED
          BY <1>2, <5>1, <5>2, <5>3
      <4>2. CASE q # p
        BY <1>6, <3>2, <3>4, <4>2
      <4>3. QED
        BY <4>1, <4>2
    <3>5. ASSUME NEW q, NEW i, Spot(q, i)'
          PROVE  Has(q, i)' \in Stored' /\ page'[q].ents[i].k = KeyOf(Has(q, i)')
      <4>1. /\ Spot(oq(q), oi(q, i))
            /\ page'[q].ents[i] = page[oq(q)].ents[oi(q, i)]
        BY <3>3, <3>5
      <4>2. QED
        BY <1>7, <4>1 DEF RecordInv, SpotInv, Has
    <3>6. ASSUME NEW q, NEW i, NEW r, NEW j, Spot(q, i)', Spot(r, j)', Has(q, i)' = Has(r, j)'
          PROVE  q = r /\ i = j
      <4>1. oq(q) = oq(r) /\ oi(q, i) = oi(r, j)
        <5>1. /\ Spot(oq(q), oi(q, i)) /\ Spot(oq(r), oi(r, j))
              /\ page'[q].ents[i] = page[oq(q)].ents[oi(q, i)]
              /\ page'[r].ents[j] = page[oq(r)].ents[oi(r, j)]
          BY <3>3, <3>6
        <5> HIDE DEF oq, oi
        <5>2. Has(oq(q), oi(q, i)) = Has(oq(r), oi(r, j))
          BY <3>6, <5>1 DEF Has
        <5>3. QED
          BY <5>1, <5>2 DEF RecordInv, SpotInv
      <4>2. q = r
        <5>1. CASE q = n /\ r # n
          <6>1. r = p
            BY <4>1, <5>1
          <6>2. oi(q, i) > m /\ oi(r, j) <= m /\ oi(r, j) = j /\ j \in Nat
            BY <1>0, <3>3, <3>6, <5>1, <6>1
          <6>3. QED
            BY <1>2, <4>1, <6>2
        <5>2. CASE r = n /\ q # n
          <6>1. q = p
            BY <4>1, <5>2
          <6>2. oi(r, j) > m /\ oi(q, i) <= m /\ oi(q, i) = i /\ i \in Nat
            BY <1>0, <3>3, <3>6, <5>2, <6>1
          <6>3. QED
            BY <1>2, <4>1, <6>2
        <5>3. CASE (q = n /\ r = n) \/ (q # n /\ r # n)
          BY <4>1, <5>3
        <5>4. QED
          BY <5>1, <5>2, <5>3
      <4>3. CASE q = n
        <5>1. i + m = j + m /\ i \in Nat /\ j \in Nat
          BY <3>3, <3>6, <4>1, <4>2, <4>3
        <5>2. QED
          BY <1>2, <4>2, <5>1
      <4>4. CASE q # n
        BY <4>1, <4>2, <4>4
      <4>5. QED
        BY <4>3, <4>4
    <3>7. ASSUME NEW x \in Stored' PROVE \E q, i : Spot(q, i)' /\ Has(q, i)' = x
      <4>1. PICK q, i : Spot(q, i) /\ Has(q, i) = x
        BY <1>7, <3>7 DEF RecordInv, SpotInv
      <4>2. PICK r, j : Spot(r, j)' /\ page'[r].ents[j] = page[q].ents[i]
        BY <3>4, <4>1
      <4>3. Has(r, j)' = x
        BY <4>1, <4>2 DEF Has
      <4>4. QED
        BY <4>2, <4>3
    <3>8. QED
      BY <3>5, <3>6, <3>7 DEF SpotInv
  <2>3. QED
    BY <2>1, <2>2
<1>9. \A o \in Backend : Carries(o)' /\ PostsAbove(o)'
  BY <1>0, <1>1 DEF RecordInv, Carries, PostsAbove, OnlyMoves
<1>10. FirstFilled'
  BY <1>0 DEF RecordInv, FirstFilled, Count, Types
<1>11. QED
  BY <1>8, <1>9, <1>10 DEF RecordInv

LEMMA RecordCut ==
  ASSUME Shape, AloneInv, DoneInv, RecordInv, NEW b \in Backend, CutPage(b), ~raced'
  PROVE  RecordInv'
<1>p. PICK p, n, m : p = th[b].at /\ n = th[b].new /\ m = Count(p) \div 2
  OBVIOUS
<1>0. /\ p = th[b].at /\ n = th[b].new /\ m = Count(p) \div 2
      /\ Types /\ Pages' = Pages /\ root' = root /\ OnlyMoves(b)
      /\ th[b].pc = "cut" /\ p \in Pages /\ n \in Pages /\ n # p /\ Count(p) >= 3
      /\ \A q \in Pages : SameTree(q) /\ page'[q].sib = page[q].sib
      /\ \A q \in Pages \ {p, n} : page'[q].ents = page[q].ents
      /\ \/ /\ page'[p].ents = Inserted(LowHalf(p), Entry(b))
            /\ page'[n].ents = page[n].ents
         \/ /\ page'[p].ents = LowHalf(p)
            /\ page'[n].ents = Inserted(page[n].ents, Entry(b))
  BY <1>p, CutEffect DEF Shape
<1>1. /\ th'[b].pc = "grow" /\ th'[b].at = p /\ th'[b].done = th[b].done
      /\ th'[b].level = th[b].level /\ th'[b].c = th[b].c /\ th'[b].k = th[b].k
      /\ th[b].level \in Nat /\ th[b].done \in Nat
  <2>1. th'[b] = [th[b] EXCEPT !.pc = "grow"] /\ th[b] \in Thread
    BY <1>0, CutEffect, ThreadTypes
  <2>2. QED
    BY <1>0, <2>1 DEF Thread
<1>2. /\ LowHalf(p) \in Seq(Ent) /\ Len(LowHalf(p)) = m /\ m \in Nat /\ m > 0
      /\ \A i \in 1 .. m : LowHalf(p)[i] = page[p].ents[i]
      /\ page[n].ents \in Seq(Ent) /\ Len(page[n].ents) \in Nat
      /\ Entry(b) \in Ent /\ Entry(b).c = th[b].c /\ Entry(b).k = th[b].k
  <2>1. /\ LowHalf(p) \in Seq(Ent) /\ Len(LowHalf(p)) = Count(p) \div 2
        /\ Count(p) \div 2 \in 1 .. Count(p) - 2
        /\ \A i \in 1 .. Count(p) \div 2 : LowHalf(p)[i] = page[p].ents[i]
        /\ Count(p) \in Nat
    BY <1>0, LowFacts, PageTypes
  <2>2. page[n].ents \in Seq(Ent) /\ Len(page[n].ents) \in Nat
    BY <1>0, PageTypes DEF Count
  <2>3. QED
    BY <1>p, <1>0, <2>1, <2>2, EntryType
<1>3. /\ Len(Inserted(LowHalf(p), Entry(b))) = m + 1
      /\ Len(Inserted(page[n].ents, Entry(b))) = Len(page[n].ents) + 1
  BY <1>2, InsertedFacts
<1>4. /\ th[b].level = page[p].level /\ page[n].level = page[p].level /\ n # 1
      /\ page[p].level \in Nat
  BY <1>0, PageTypes DEF Shape, ThreadShape, Holds, Splits
<1>5. \A q \in Pages : Leaf(q)' <=> Leaf(q)
  BY <1>0 DEF SameTree, Leaf
<1>6. BeingCut(p) /\ ~BeingCut(p)' /\ \A q \in Pages \ {p} : BeingCut(q)' <=> BeingCut(q)
  BY <1>0, <1>1, HeldUncut DEF BeingCut, Holds, OnlyMoves
<1>7. /\ \A q, i : q \notin {p, n} => (Spot(q, i)' <=> Spot(q, i))
      /\ \A q, i : q \notin {p, n} /\ Spot(q, i) => page'[q].ents[i] = page[q].ents[i]
  BY <1>0, <1>5, <1>6 DEF Spot, LastKid, Count
<1>8. SpotInv'
  <2>1. CASE th[b].level > 0
    <3>1. Stored' = Stored
      <4>1. \A i \in 1 .. Len(Work[b]) : StoredBy(b, i)' <=> StoredBy(b, i)
        BY <1>0, <1>1, <2>1 DEF StoredBy
      <4>2. QED
        BY <1>0, <4>1, StoredSame
    <3>2. \A i : ~Spot(p, i) /\ ~Spot(p, i)' /\ ~Spot(n, i) /\ ~Spot(n, i)'
      BY <1>0, <1>4, <1>5, <2>1 DEF Spot, Leaf
    <3>3. QED
      BY <1>7, <3>1, <3>2, SpotFrame DEF RecordInv
  <2>2. CASE th[b].level = 0
    <3>1. /\ th[b].c \notin Stored /\ Stored' = Stored \cup {th[b].c}
          /\ th[b].k = KeyOf(th[b].c)
      BY <1>0, <1>1, <2>2, StoredMore DEF RecordInv
    <3>2. CutsLeaf(b) /\ Leaf(p) /\ Leaf(n) /\ Leaf(p)' /\ Leaf(n)'
      BY <1>0, <1>4, <1>5, <2>2 DEF CutsLeaf, Leaf
    <3>3. \A o \in Backend \ {b} : KeepsOff(o, n, p)
      BY <1>0, <3>2, CutFacts
    <3>4. ~BeingCut(n) /\ ~BeingCut(n)'
      BY <1>0, <1>1, <1>6, <3>3 DEF BeingCut, KeepsOff
    <3>5. /\ LastKid(p) = m /\ LastKid(n) = Len(page[n].ents)
          /\ LastKid(p)' = Len(page'[p].ents) /\ LastKid(n)' = Len(page'[n].ents)
      BY <1>0, <1>6, <3>4 DEF LastKid, Count
    <3>6. CASE /\ page'[p].ents = Inserted(LowHalf(p), Entry(b))
               /\ page'[n].ents = page[n].ents
      <4>1. /\ \A q, i : q # p => (Spot(q, i)' <=> Spot(q, i))
            /\ \A q, i : q # p /\ Spot(q, i) => page'[q].ents[i] = page[q].ents[i]
        BY <1>0, <1>7, <3>2, <3>5, <3>6 DEF Spot
      <4>2. LastKid(p) = Len(LowHalf(p)) /\ LastKid(p)' = Len(LowHalf(p)) + 1
        BY <1>2, <1>3, <3>5, <3>6
      <4>3. QED
        <5>1. PICK es, e : es = LowHalf(p) /\ e = Entry(b)
          OBVIOUS
        <5>2. /\ es \in Seq(Ent) /\ e \in Ent /\ LastKid(p) = Len(es)
              /\ LastKid(p)' = Len(es) + 1 /\ page'[p].ents = Inserted(es, e)
              /\ \A i \in 1 .. Len(es) : page[p].ents[i] = es[i]
          BY <1>2, <3>6, <4>2, <5>1
        <5>3. /\ e.c \notin Stored /\ Stored' = Stored \cup {e.c} /\ e.k = KeyOf(e.c)
          BY <1>2, <3>1, <5>1
        <5>4. SpotInv /\ p \in Pages /\ p \in Pages' /\ Leaf(p) /\ Leaf(p)'
          BY <1>0, <3>2 DEF RecordInv
        <5>5. QED
          BY <4>1, <5>2, <5>3, <5>4, SpotInsert
    <3>7. CASE /\ page'[p].ents = LowHalf(p)
               /\ page'[n].ents = Inserted(page[n].ents, Entry(b))
      <4>1. /\ \A q, i : q # n => (Spot(q, i)' <=> Spot(q, i))
            /\ \A q, i : q # n /\ Spot(q, i) => page'[q].ents[i] = page[q].ents[i]
        <5>1. \A i : Spot(p, i)' <=> Spot(p, i)
          BY <1>0, <1>2, <3>2, <3>5, <3>7 DEF Spot
        <5>2. \A i : Spot(p, i) => page'[p].ents[i] = page[p].ents[i]
          BY <1>2, <3>5, <3>7 DEF Spot
        <5>3. QED
          BY <1>7, <5>1, <5>2
      <4>2. PICK es, e : es = page[n].ents /\ e = Entry(b)
        OBVIOUS
      <4>3. /\ es \in Seq(Ent) /\ e \in Ent /\ LastKid(n) = Len(es)
            /\ LastKid(n)' = Len(es) + 1 /\ page'[n].ents = Inserted(es, e)
            /\ \A i \in 1 .. Len(es) : page[n].ents[i] = es[i]
        BY <1>2, <1>3, <3>5, <3>7, <4>2
      <4>4. /\ e.c \notin Stored /\ Stored' = Stored \cup {e.c} /\ e.k = KeyOf(e.c)
        BY <1>2, <3>1, <4>2
      <4>5. SpotInv /\ n \in Pages /\ n \in Pages' /\ Leaf(n) /\ Leaf(n)'
        BY <1>0, <3>2 DEF RecordInv
      <4>6. QED
        BY <4>1, <4>3, <4>4, <4>5, SpotInsert
    <3>8. QED
      BY <1>0, <3>6, <3>7
  <2>3. QED
    BY <1>1, <2>1, <2>2
<1>9. \A o \in Backend : Carries(o)' /\ PostsAbove(o)'
  BY <1>0, <1>1 DEF RecordInv, Carries, PostsAbove, OnlyMoves
<1>10. FirstFilled'
  <2>1. page'[1].sib = page[1].sib
    BY <1>0 DEF Types
  <2>2. \/ Len(page'[1].ents) \in {m, m + 1}
        \/ page'[1].ents = page[1].ents
    BY <1>0, <1>2, <1>3, <1>4 DEF Types
  <2>3. QED
    BY <1>2, <2>1, <2>2 DEF RecordInv, FirstFilled, Count
<1>11. QED
  BY <1>8, <1>9, <1>10 DEF RecordInv

LEMMA RecordGrow ==
  ASSUME Shape, RecordInv, NEW b \in Backend, GrowRoot(b)
  PROVE  RecordInv'
<1>p. PICK p, n : p = th[b].at /\ n = Len(page) + 1
  OBVIOUS
<1>0. /\ p = th[b].at /\ n = Len(page) + 1 /\ Types
      /\ Pages' = Pages \cup {n} /\ n \notin Pages /\ n # 1 /\ OnlyMoves(b)
      /\ th[b].pc = "grow" /\ p \in Pages /\ th'[b] = Finished(b)
      /\ \A q \in Pages : page'[q] = page[q]
      /\ page'[n].level = page[p].level + 1
  BY <1>p, GrowEffect DEF Shape
<1>1. /\ page[p].level \in Nat /\ \A o \in Backend : th[o].at \in Pages
      /\ th'[b].pc = "idle" /\ th'[b].done = th[b].done + 1 /\ th[b].done \in Nat
  <2>1. th[b] \in Thread
    BY <1>0, ThreadTypes
  <2>2. QED
    BY <1>0, <2>1, PageTypes DEF Shape, ThreadShape, Finished, Thread
<1>2. \A q \in Pages : BeingCut(q)' <=> BeingCut(q)
  BY <1>0, <1>1 DEF BeingCut, OnlyMoves
<1>3. /\ \A q, i : Spot(q, i)' <=> Spot(q, i)
      /\ \A q, i : Spot(q, i) => page'[q].ents[i] = page[q].ents[i]
  <2>1. ~Leaf(n)'
    BY <1>0, <1>1 DEF Leaf
  <2>2. \A q \in Pages : (Leaf(q)' <=> Leaf(q)) /\ LastKid(q)' = LastKid(q)
    BY <1>0, <1>2 DEF LastKid, Leaf, Count
  <2>3. \A q, i : Spot(q, i)' <=> Spot(q, i)
    BY <1>0, <2>1, <2>2 DEF Spot
  <2>4. \A q, i : Spot(q, i) => page'[q].ents[i] = page[q].ents[i]
    BY <1>0 DEF Spot
  <2>5. QED
    BY <2>3, <2>4
<1>4. Stored' = Stored
  <2>1. \A i \in 1 .. Len(Work[b]) : StoredBy(b, i)' <=> StoredBy(b, i)
    BY <1>0, <1>1, WorkLength DEF StoredBy
  <2>2. QED
    BY <1>0, <2>1, StoredSame
<1>5. SpotInv'
  BY <1>3, <1>4, SpotFrame DEF RecordInv
<1>6. \A o \in Backend : Carries(o)' /\ PostsAbove(o)'
  BY <1>0, <1>1 DEF RecordInv, Carries, PostsAbove, OnlyMoves
<1>7. FirstFilled'
  BY <1>0 DEF RecordInv, FirstFilled, Count, Types
<1>8. QED
  BY <1>5, <1>6, <1>7 DEF RecordInv

LEMMA RecordStep ==
  ASSUME Shape, HeightInv, AloneInv, DoneInv, RecordInv, ~raced', [Next]_vars
  PROVE  RecordInv'
<1>1. ASSUME NEW b \in Backend, Step(b) PROVE RecordInv'
  BY <1>1, RecordMoves, RecordStore, RecordSplit, RecordCut, RecordGrow
  DEF Step, Descends
<1>2. ASSUME UNCHANGED vars PROVE RecordInv'
  <2>1. page' = page /\ th' = th /\ Pages' = Pages /\ Stored' = Stored
    BY <1>2 DEF vars, Pages, Stored
  <2>2. \A q, i : Spot(q, i)' <=> Spot(q, i)
    BY <2>1 DEF Spot, LastKid, BeingCut, Leaf, Count
  <2>3. SpotInv'
    BY <2>1, <2>2, SpotFrame DEF RecordInv
  <2>4. QED
    BY <2>1, <2>3 DEF RecordInv, Carries, PostsAbove, FirstFilled, Count
<1>3. QED
  BY <1>1, <1>2 DEF Next

LEMMA RecordInit ==
  ASSUME Init
  PROVE  RecordInv
<1>1. /\ Pages = {1} /\ page[1].ents = << >> /\ page[1].sib = Null
      /\ \A b \in Backend : th[b].pc = "idle" /\ th[b].done = 0
  BY DEF Init, Pages
<1>2. Stored = {}
  <2>1. ASSUME NEW x \in Stored PROVE FALSE
    <3>1. PICK b \in Backend : \E i \in 1 .. Len(Work[b]) : x = <<b, i>> /\ StoredBy(b, i)
      BY StoredIs
    <3>2. PICK i \in 1 .. Len(Work[b]) : StoredBy(b, i)
      BY <3>1
    <3>3. QED
      BY <1>1, <3>2, WorkLength DEF StoredBy
  <2>2. QED
    BY <2>1
<1>3. \A p, i : ~Spot(p, i)
  <2>1. Count(1) = 0 /\ ~BeingCut(1)
    BY <1>1 DEF Count, BeingCut
  <2>2. LastKid(1) = 0
    BY <2>1 DEF LastKid
  <2>3. QED
    BY <1>1, <2>2 DEF Spot
<1>4. SpotInv
  BY <1>2, <1>3 DEF SpotInv
<1>5. QED
  BY <1>1, <1>4 DEF RecordInv, Carries, PostsAbove, FirstFilled

(* What a leaf holds, entry by entry.                                      *)
LEMMA HeldIs ==
  ASSUME Shape, NEW p \in Pages
  PROVE  /\ Len(Held(p)) = LastKid(p) /\ LastKid(p) \in 0 .. Count(p)
         /\ \A i \in 1 .. LastKid(p) : Held(p)[i] = page[p].ents[i]
         /\ BeingCut(p) => Held(p) = LowHalf(p) /\ Count(p) >= 3
<1>1. Types /\ Count(p) \in Nat
  BY PageTypes DEF Shape
<1>2. CASE BeingCut(p)
  <2>1. Count(p) >= 3
    BY <1>2 DEF BeingCut, Shape, ThreadShape
  <2>2. /\ Len(LowHalf(p)) = Count(p) \div 2 /\ Count(p) \div 2 \in 1 .. Count(p) - 2
        /\ \A i \in 1 .. Count(p) \div 2 : LowHalf(p)[i] = page[p].ents[i]
    BY <1>1, <2>1, LowFacts
  <2>3. Held(p) = LowHalf(p) /\ LastKid(p) = Count(p) \div 2
    BY <1>2 DEF Held, BeingCut, LowHalf, LastKid
  <2>4. QED
    BY <1>1, <2>1, <2>2, <2>3
<1>3. CASE ~BeingCut(p)
  <2>1. Held(p) = page[p].ents /\ LastKid(p) = Count(p)
    BY <1>3 DEF Held, BeingCut, LastKid
  <2>2. QED
    BY <1>1, <1>3, <2>1 DEF Count
<1>4. QED
  BY <1>2, <1>3

LEMMA LeavesHold ==
  ASSUME Shape, LeafInv, CountInv, RecordInv
  PROVE  LeavesHoldStored
<1>0. Types /\ Card \in Nat
  BY BTreeAssumption DEF Shape
<1>1. ASSUME NEW p \in Leaves
      PROVE  /\ p \in Pages /\ Leaf(p) /\ Count(p) \in Nat /\ Count(p) <= Card
             /\ \A i \in 1 .. Count(p) : page[p].ents[i].k \in Nat
             /\ Len(Held(p)) = LastKid(p) /\ LastKid(p) \in 0 .. Count(p)
             /\ \A i \in 1 .. LastKid(p) : Held(p)[i] = page[p].ents[i]
  <2>1. p \in Pages /\ Leaf(p)
    BY DEF Leaves, Leaf
  <2>2. QED
    BY <1>0, <2>1, HeldIs, PageTypes DEF CountInv
<1>2. \A p, i : Spot(p, i) <=> p \in Leaves /\ i \in 1 .. Len(Held(p))
  BY <1>1 DEF Spot, Leaves, Leaf
<1>3. \A p, i : Spot(p, i) => Held(p)[i] = page[p].ents[i] /\ i \in 1 .. Card
  BY <1>0, <1>1, <1>2
<1>4. ASSUME NEW x \in Stored
      PROVE  Cardinality({w \in Leaves \X (1 .. Card) :
                            w[2] <= Len(Held(w[1])) /\ Held(w[1])[w[2]].c = x}) = 1
  <2> DEFINE S == {w \in Leaves \X (1 .. Card) :
                     w[2] <= Len(Held(w[1])) /\ Held(w[1])[w[2]].c = x}
  <2>1. PICK p, i : Spot(p, i) /\ Has(p, i) = x
    BY DEF RecordInv, SpotInv
  <2>2. <<p, i>> \in S
    <3>1. p \in Leaves /\ i \in 1 .. Card /\ i <= Len(Held(p)) /\ Held(p)[i].c = x
      BY <1>1, <1>2, <1>3, <2>1 DEF Has
    <3>2. QED
      BY <3>1
  <2>3. ASSUME NEW w \in S PROVE w = <<p, i>>
    <3>1. PICK q \in Leaves, j \in 1 .. Card : w = <<q, j>>
      OBVIOUS
    <3>2. j <= Len(Held(q)) /\ Held(q)[j].c = x
      BY <3>1
    <3>3. j \in 1 .. Len(Held(q))
      BY <1>0, <1>1, <3>2
    <3>4. Spot(q, j)
      BY <1>2, <3>3
    <3>5. Has(q, j) = x
      BY <1>3, <3>2, <3>4 DEF Has
    <3>6. QED
      BY <2>1, <3>1, <3>4, <3>5 DEF RecordInv, SpotInv
  <2>4. S = {<<p, i>>}
    BY <2>2, <2>3
  <2>5. QED
    BY <2>4, FS_Singleton
<1>5. ASSUME NEW p \in Leaves, NEW i \in 1 .. Len(Held(p))
      PROVE  /\ Held(p)[i].c \in Stored /\ Held(p)[i].k = KeyOf(Held(p)[i].c)
             /\ i > 1 => Held(p)[i - 1].k <= Held(p)[i].k
  <2>1. Spot(p, i) /\ Held(p)[i] = page[p].ents[i]
    BY <1>2, <1>3
  <2>2. Held(p)[i].c \in Stored /\ Held(p)[i].k = KeyOf(Held(p)[i].c)
    BY <2>1 DEF RecordInv, SpotInv, Has
  <2>3. ASSUME i > 1 PROVE Held(p)[i - 1].k <= Held(p)[i].k
    <3>1. i - 1 \in 1 .. LastKid(p) /\ i \in 1 .. LastKid(p) /\ i - 1 <= i
      BY <1>1, <2>3
    <3>2. Sorted(page[p].ents)
      BY <1>1 DEF LeafInv, LeafOrder
    <3>3. i - 1 \in 1 .. Count(p) /\ i \in 1 .. Count(p)
      BY <1>1, <3>1
    <3>4. page[p].ents[i - 1].k <= page[p].ents[i].k
      BY <3>1, <3>2, <3>3 DEF Sorted, Count
    <3>5. QED
      BY <1>1, <3>1, <3>4
  <2>4. QED
    BY <2>2, <2>3
<1>6. ASSUME NEW p \in Leaves, page[p].sib # Null
      PROVE  Held(p)[Len(Held(p))].k <= FirstKey(page[p].sib)
  <2>1. p \in Pages /\ Leaf(p) /\ LeafOrder(p) /\ PageShape(p)
    BY <1>1 DEF LeafInv, Shape
  <2>2. CASE BeingCut(p)
    <3>1. PICK b \in Backend : th[b].pc = "cut" /\ th[b].at = p
      BY <2>2 DEF BeingCut
    <3>2. /\ page[p].sib = th[b].new /\ Count(p) >= 3 /\ LastKid(p) = Count(p) \div 2
          /\ FirstKey(th[b].new) = page[p].ents[Count(p) \div 2 + 1].k
      BY <2>1, <2>2, <3>1 DEF Shape, ThreadShape, Splits, LeafInv, CutAt, LastKid
    <3>3. PICK m : m = Count(p) \div 2
      OBVIOUS
    <3>4. m \in 1 .. Count(p) /\ m + 1 \in 1 .. Count(p) /\ m <= m + 1
      BY <1>1, <3>2, <3>3
    <3>5. page[p].ents[m].k <= page[p].ents[m + 1].k
      BY <2>1, <3>4 DEF LeafOrder, Sorted, Count
    <3>6. Held(p)[m] = page[p].ents[m] /\ Len(Held(p)) = m
      BY <1>1, <3>2, <3>3, <3>4
    <3>7. QED
      BY <3>2, <3>3, <3>5, <3>6
  <2>3. CASE ~BeingCut(p)
    <3>1. LastKid(p) = Count(p) /\ Count(p) > 0
      BY <1>1, <1>6, <2>1, <2>3 DEF LastKid, PageShape, RecordInv, FirstFilled
    <3>2. Count(p) \in 1 .. Count(p)
      BY <1>1, <3>1
    <3>3. page[p].ents[Count(p)].k <= FirstKey(page[p].sib)
      BY <1>6, <2>1, <2>3, <3>2 DEF LeafOrder, NotAbove
    <3>4. Held(p)[Count(p)] = page[p].ents[Count(p)] /\ Len(Held(p)) = Count(p)
      BY <1>1, <3>1, <3>2
    <3>5. QED
      BY <3>3, <3>4
  <2>4. QED
    BY <2>2, <2>3
<1>7. QED
  BY <1>4, <1>5, <1>6 DEF LeavesHoldStored

RecordsKept == ~raced => RecordInv

LEMMA RecordsStep ==
  ASSUME TreeInv, HeightInv, RecordsKept, [Next]_vars
  PROVE  (HeightInv /\ RecordsKept)'
<1>1. Shape /\ DoneInv /\ HeightInv'
  BY HeightStep DEF TreeInv
<1>2. ASSUME ~raced' PROVE RecordInv'
  <2>1. ~raced
    BY <1>2, RacedStep DEF TreeInv
  <2>2. AloneInv /\ RecordInv
    BY <2>1 DEF TreeInv, KeysKept, KeyInv, RecordsKept
  <2>3. QED
    BY <1>1, <1>2, <2>2, RecordStep
<1>3. QED
  BY <1>1, <1>2 DEF RecordsKept

(* The leaves are one sorted list of exactly the stored records, each of   *)
(* them once, for any number of threads, inserts and entries of a page: no *)
(* split loses or doubles the insert of another thread (store).  Until a   *)
(* search is led astray, or two threads fill one page.                     *)
THEOREM LeavesHoldAll == Spec => []LeavesHoldStored
<1>1. Init => HeightInv /\ RecordsKept
  BY ShapeInit, HeightInit, RecordInit DEF RecordsKept
<1>2. TreeInv /\ HeightInv /\ RecordsKept /\ [Next]_vars => (HeightInv /\ RecordsKept)'
  BY RecordsStep
<1>3. TreeInv /\ RecordsKept => LeavesHoldStored
  <2> SUFFICES ASSUME TreeInv, RecordsKept, ~raced PROVE LeavesHoldStored
    BY DEF LeavesHoldStored
  <2>1. Shape /\ LeafInv /\ CountInv /\ RecordInv
    BY DEF TreeInv, KeysKept, KeyInv, RecordsKept
  <2>2. QED
    BY <2>1, LeavesHold
<1>4. QED
  BY <1>1, <1>2, <1>3, TreeAlways, PTL DEF Spec

-----------------------------------------------------------------------------
(* What can be found in the leaves, apart from halves to be cut off.       *)
InLeaves == {x \in Record : \E p \in Leaves : \E i \in 1 .. Len(Held(p)) : Held(p)[i].c = x}

LEMMA InLeavesIs ==
  ASSUME Shape, RecordInv
  PROVE  InLeaves = Stored
<1>1. Stored \subseteq Record
  BY DEF Stored
<1>2. \A p, i : Spot(p, i) <=> p \in Leaves /\ i \in 1 .. Len(Held(p))
  BY HeldIs DEF Spot, Leaves, Leaf
<1>3. \A p, i : Spot(p, i) => Held(p)[i].c = Has(p, i)
  BY HeldIs DEF Spot, Has
<1>4. ASSUME NEW x \in InLeaves PROVE x \in Stored
  <2>1. PICK p \in Leaves : \E i \in 1 .. Len(Held(p)) : Held(p)[i].c = x
    BY DEF InLeaves
  <2>2. PICK i \in 1 .. Len(Held(p)) : Held(p)[i].c = x
    BY <2>1
  <2>3. Spot(p, i) /\ Has(p, i) = x
    BY <1>2, <1>3, <2>2
  <2>4. QED
    BY <2>3 DEF RecordInv, SpotInv
<1>5. ASSUME NEW x \in Stored PROVE x \in InLeaves
  <2>1. PICK p, i : Spot(p, i) /\ Has(p, i) = x
    BY DEF RecordInv, SpotInv
  <2>2. p \in Leaves /\ i \in 1 .. Len(Held(p)) /\ Held(p)[i].c = x
    BY <1>2, <1>3, <2>1
  <2>3. QED
    BY <1>1, <2>2 DEF InLeaves
<1>6. QED
  BY <1>4, <1>5

HoldStored == InLeaves = Stored

LEMMA InLeavesHold == Shape /\ RecordInv => HoldStored
  BY InLeavesIs DEF HoldStored

LEMMA InLeavesNext == Shape' /\ RecordInv' => HoldStored'
  BY InLeavesHold, PTL

(* All steps but the store into a leaf and the cut of one.                 *)
LEMMA StoredKept ==
  ASSUME Shape, HeightInv, RecordInv, NEW b \in Backend,
         \/ Begin(b) \/ Descends(b) \/ Acquire(b) \/ LetGo(b) \/ MoveRight(b)
         \/ SplitPage(b) \/ PostSplit(b) \/ Post(b) \/ GrowRoot(b)
  PROVE  Stored' = Stored
<1>0. /\ Types /\ th[b] \in Thread /\ th[b].level \in Nat /\ th[b].done \in Nat
      /\ th[b].at \in Pages /\ page[th[b].at].level \in Nat /\ PostsAbove(b)
      /\ page[root].level \in Nat /\ root \in Pages
  BY ThreadTypes, PageTypes DEF Shape, ThreadShape, RecordInv, Types
<1>1. SUFFICES OnlyMoves(b) /\ \A i \in 1 .. Len(Work[b]) : StoredBy(b, i)' <=> StoredBy(b, i)
  BY StoredSame
<1>2. CASE Begin(b)
  <2>1. /\ th[b].pc = "idle" /\ th'[b].pc = "down" /\ th'[b].level = 0
        /\ th'[b].done = th[b].done
    BY <1>0, <1>2 DEF Begin, Thread, Types
  <2>2. OnlyMoves(b)
    BY <1>0, <1>2, BeginEffect
  <2>3. QED
    BY <1>0, <2>1, <2>2 DEF StoredBy
<1>3. CASE Descends(b)
  <2>1. /\ th[b].pc = "down" /\ th'[b].pc = "down" /\ th'[b].level = th[b].level
        /\ th'[b].done = th[b].done
    BY <1>0, <1>3, DownEffect DEF Thread
  <2>2. OnlyMoves(b)
    BY <1>3, DownEffect
  <2>3. QED
    BY <1>0, <2>1, <2>2 DEF StoredBy
<1>4. CASE Acquire(b)
  <2>1. /\ th[b].pc = "down" /\ th'[b].pc = "locked" /\ th'[b].level = th[b].level
        /\ th'[b].done = th[b].done
    BY <1>0, <1>4, AcquireEffect DEF Thread
  <2>2. OnlyMoves(b)
    BY <1>4, AcquireEffect
  <2>3. QED
    BY <1>0, <2>1, <2>2 DEF StoredBy
<1>5. CASE LetGo(b)
  <2>1. /\ th[b].pc = "locked" /\ th'[b].pc = "right" /\ th'[b].level = th[b].level
        /\ th'[b].done = th[b].done
    BY <1>0, <1>5, LetGoEffect DEF Thread
  <2>2. OnlyMoves(b)
    BY <1>5, LetGoEffect
  <2>3. QED
    BY <1>0, <2>1, <2>2 DEF StoredBy
<1>6. CASE MoveRight(b)
  <2>1. /\ th[b].pc = "right" /\ th'[b].pc = "down" /\ th'[b].level = th[b].level
        /\ th'[b].done = th[b].done
    BY <1>0, <1>6, MoveRightEffect DEF Thread
  <2>2. OnlyMoves(b)
    BY <1>6, MoveRightEffect
  <2>3. QED
    BY <1>0, <2>1, <2>2 DEF StoredBy
<1>7. CASE SplitPage(b)
  <2>p. PICK p, n : p = th[b].at /\ n = Len(page) + 1
    OBVIOUS
  <2>1. /\ OnlyMoves(b) /\ th[b].pc = "locked"
        /\ th'[b] = [th[b] EXCEPT !.pc = "cut", !.new = n,
                                  !.split = page[p].ents[Count(p) \div 2 + 1].k,
                                !.cnt = Len(page'[n].ents)]
    BY <1>7, <2>p, SplitEffect
  <2>2. th'[b].pc = "cut" /\ th'[b].level = th[b].level /\ th'[b].done = th[b].done
    BY <1>0, <2>1 DEF Thread
  <2>3. QED
    BY <1>0, <2>1, <2>2 DEF StoredBy
<1>8. CASE PostSplit(b)
  <2>1. /\ th[b].pc = "grow" /\ th'[b].pc = "post" /\ th'[b].done = th[b].done
    BY <1>0, <1>8, PostSplitEffect DEF Thread
  <2>2. OnlyMoves(b)
    BY <1>8, PostSplitEffect
  <2>3. QED
    BY <1>0, <2>1, <2>2 DEF StoredBy
<1>9. CASE Post(b)
  <2>1. th[b].pc = "post" /\ th[b].level <= page[root].level
    BY <1>9, PostEffect DEF HeightInv
  <2>2. th'[b] = [th[b] EXCEPT !.pc = "down", !.at = root]
    BY <1>0, <1>9, <2>1 DEF Post, Types
  <2>3. th'[b].pc = "down" /\ th'[b].level = th[b].level /\ th'[b].done = th[b].done
    BY <1>0, <2>2 DEF Thread
  <2>4. OnlyMoves(b)
    BY <1>9, PostEffect
  <2>5. th[b].level > 0
    BY <1>0, <2>1 DEF PostsAbove
  <2>6. QED
    BY <1>0, <2>1, <2>3, <2>4, <2>5 DEF StoredBy
<1>10. CASE GrowRoot(b)
  <2>1. th[b].pc = "grow" /\ OnlyMoves(b) /\ th'[b] = Finished(b)
    BY <1>10, GrowEffect
  <2>2. th'[b].pc = "idle" /\ th'[b].done = th[b].done + 1
    BY <1>0, <2>1 DEF Finished, Thread
  <2>3. QED
    BY <1>0, <2>1, <2>2, WorkLength DEF StoredBy
<1>11. QED
  BY <1>2, <1>3, <1>4, <1>5, <1>6, <1>7, <1>8, <1>9, <1>10

(* Thread b, inside an insert, puts its next record among those in leaves, *)
(* where all its earlier ones are.                                         *)
TakesNext(b) ==
  /\ th[b].pc \in {"locked", "cut"} /\ th[b].level = 0
  /\ th[b].done < Len(Work[b])
  /\ \A i \in 1 .. Len(Work[b]) : <<b, i>> \in InLeaves <=> i <= th[b].done
  /\ InLeaves' = InLeaves \cup {<<b, th[b].done + 1>>}

(* The store into a page, and the cut of one.                              *)
LEMMA StoredNext ==
  ASSUME Shape, DoneInv, RecordInv, NEW b \in Backend, ~raced',
         StoreFast(b) \/ CutPage(b)
  PROVE  \/ Stored' = Stored
         \/ /\ th[b].pc \in {"locked", "cut"} /\ th[b].level = 0
            /\ th[b].done < Len(Work[b])
            /\ \A i \in 1 .. Len(Work[b]) : <<b, i>> \in Stored <=> i <= th[b].done
            /\ Stored' = Stored \cup {<<b, th[b].done + 1>>}
<1>0. /\ Types /\ th[b] \in Thread /\ th[b].level \in Nat /\ th[b].done \in Nat
      /\ Carries(b)
  BY ThreadTypes DEF Shape, RecordInv
<1>1. /\ OnlyMoves(b) /\ th[b].pc \in {"locked", "cut"}
      /\ \/ th'[b].pc = "idle" /\ th'[b].done = th[b].done + 1
         \/ /\ th'[b].pc = "grow" /\ th'[b].done = th[b].done
            /\ th'[b].level = th[b].level
  <2>1. CASE StoreFast(b)
    <3>1. OnlyMoves(b) /\ th[b].pc = "locked" /\ th'[b] = Finished(b)
      BY <1>0, <2>1, StoreEffect DEF Shape
    <3>2. QED
      BY <1>0, <3>1 DEF Finished, Thread
  <2>2. CASE CutPage(b)
    <3>1. OnlyMoves(b) /\ th[b].pc = "cut" /\ th'[b] = [th[b] EXCEPT !.pc = "grow"]
      BY <1>0, <2>2, CutEffect DEF Shape
    <3>2. QED
      BY <1>0, <3>1 DEF Thread
  <2>3. QED
    BY <2>1, <2>2
<1>2. CASE th[b].level = 0
  <2>1. th[b].c = <<b, th[b].done + 1>> /\ Stored' = Stored \cup {th[b].c}
    BY <1>0, <1>1, <1>2, StoredMore DEF Carries
  <2>2. \A i \in 1 .. Len(Work[b]) : <<b, i>> \in Stored <=> i <= th[b].done
    BY <1>1, <1>2, StoredIs DEF StoredBy
  <2>3. th[b].done < Len(Work[b])
    BY <1>0, <1>1 DEF DoneInv
  <2>4. QED
    BY <1>1, <1>2, <2>1, <2>2, <2>3
<1>3. CASE th[b].level > 0
  <2>1. \A i \in 1 .. Len(Work[b]) : StoredBy(b, i)' <=> StoredBy(b, i)
    BY <1>0, <1>1, <1>3, WorkLength DEF StoredBy
  <2>2. QED
    BY <1>1, <2>1, StoredSame
<1>4. QED
  BY <1>0, <1>2, <1>3

(* The leaves change by one record at a time, the next of some thread.     *)
LeavesGrow ==
  [][InLeaves' # InLeaves /\ ~raced' => \E b \in Backend : TakesNext(b)]_vars

(* To whoever reads the leaves an insert happens at one step, and a thread *)
(* inserts the records of its queue in their order: whatever is split, by  *)
(* whom and in how many steps, no step takes a record away or adds another *)
(* than the next of the thread that writes (btree.h store; threadpool.cc). *)
(* Until a search is led astray, or two threads fill one page.             *)
THEOREM LeavesTakeNext == Spec => LeavesGrow
<1>1. Init => HeightInv /\ RecordsKept
  BY ShapeInit, HeightInit, RecordInit DEF RecordsKept
<1>2. TreeInv /\ HeightInv /\ RecordsKept /\ [Next]_vars => (HeightInv /\ RecordsKept)'
  BY RecordsStep
<1>3. TreeInv /\ TreeInv' /\ HeightInv /\ RecordsKept /\ RecordsKept' /\ [Next]_vars
        => [InLeaves' # InLeaves /\ ~raced' => \E b \in Backend : TakesNext(b)]_vars
  <2> SUFFICES ASSUME TreeInv, TreeInv', HeightInv, RecordsKept, RecordsKept', Next,
                      InLeaves' # InLeaves, ~raced'
               PROVE  \E b \in Backend : TakesNext(b)
    OBVIOUS
  <2>1. Shape /\ DoneInv /\ Shape' /\ RecordInv /\ RecordInv'
    <3>1. ~raced
      BY RacedStep DEF TreeInv
    <3>2. QED
      BY <3>1 DEF TreeInv, RecordsKept
  <2>2. InLeaves = Stored /\ InLeaves' = Stored'
    BY <2>1, InLeavesIs, InLeavesNext DEF HoldStored
  <2>3. PICK b \in Backend : Step(b)
    BY DEF Next
  <2>4. CASE StoreFast(b) \/ CutPage(b)
    BY <2>1, <2>2, <2>4, StoredNext DEF TakesNext
  <2>5. CASE ~(StoreFast(b) \/ CutPage(b))
    BY <2>1, <2>2, <2>3, <2>5, StoredKept DEF Step, Descends
  <2>6. QED
    BY <2>4, <2>5
<1>4. QED
  BY <1>1, <1>2, <1>3, TreeAlways, PTL DEF Spec, LeavesGrow

-----------------------------------------------------------------------------
(* Who holds a lock.  A thread has one at most, that of the page it is at, *)
(* and while it has it, it does not ask for another.                       *)
LockInv ==
  \A q \in Pages : lock[q] # Nobody =>
    lock[q] \in Backend /\ Holds(lock[q]) /\ th[lock[q]].at = q

LEMMA LockFrame ==
  ASSUME LockInv, NEW b \in Backend, OnlyMoves(b),
         \A q \in Pages' :
           \/ lock'[q] = Nobody
           \/ lock'[q] = b /\ Holds(b)' /\ th'[b].at = q
           \/ q \in Pages /\ lock'[q] = lock[q] /\ lock[q] # b
  PROVE  LockInv'
<1> SUFFICES ASSUME NEW q \in Pages', lock'[q] # Nobody
             PROVE  lock'[q] \in Backend /\ Holds(lock[q])' /\ th'[lock'[q]].at = q
  BY DEF LockInv
<1>1. CASE lock'[q] = b /\ Holds(b)' /\ th'[b].at = q
  BY <1>1 DEF Holds
<1>2. CASE q \in Pages /\ lock'[q] = lock[q] /\ lock[q] # b
  <2>1. PICK o \in Backend : o = lock[q]
    BY <1>2 DEF LockInv
  <2>2. Holds(o) /\ th[o].at = q /\ th'[o] = th[o]
    BY <1>2, <2>1 DEF LockInv, OnlyMoves
  <2>3. QED
    BY <1>2, <2>1, <2>2 DEF Holds
<1>3. QED
  BY <1>1, <1>2

LEMMA LockMove ==
  ASSUME Shape, LockInv, NEW b \in Backend,
         Begin(b) \/ Descends(b) \/ Acquire(b) \/ MoveRight(b) \/ Post(b)
  PROVE  LockInv'
<1>1. /\ Pages' = Pages /\ OnlyMoves(b) /\ th[b].pc \in {"idle", "down", "right", "post"}
      /\ \/ lock' = lock
         \/ /\ lock' = [lock EXCEPT ![th[b].at] = b] /\ th[b].at \in Pages
            /\ th'[b].pc = "locked" /\ th'[b].at = th[b].at
  <2>1. CASE Begin(b)
    BY <2>1, BeginEffect DEF Shape, Begin
  <2>2. CASE Descends(b)
    BY <2>2, DownEffect
  <2>3. CASE Acquire(b)
    <3>1. th[b] \in Thread /\ th[b].at \in Pages
      BY ThreadTypes DEF Shape, ThreadShape
    <3>2. QED
      BY <2>3, <3>1, AcquireEffect DEF Thread
  <2>4. CASE MoveRight(b)
    BY <2>4, MoveRightEffect
  <2>5. CASE Post(b)
    BY <2>5, PostEffect
  <2>6. QED
    BY <2>1, <2>2, <2>3, <2>4, <2>5
<1>2. ~Holds(b) /\ b # Nobody /\ DOMAIN lock = Pages
  BY <1>1, PageTypes, BTreeAssumption DEF Holds, Nobody, Shape
<1>3. \A q \in Pages : lock[q] # b
  BY <1>2 DEF LockInv
<1>4. CASE lock' = lock
  BY <1>1, <1>3, <1>4, LockFrame
<1>5. CASE /\ lock' = [lock EXCEPT ![th[b].at] = b] /\ th[b].at \in Pages
           /\ th'[b].pc = "locked" /\ th'[b].at = th[b].at
  <2>1. \A q \in Pages : lock'[q] = IF q = th[b].at THEN b ELSE lock[q]
    BY <1>2, <1>5
  <2>2. Holds(b)'
    BY <1>5 DEF Holds
  <2>3. QED
    BY <1>1, <1>3, <1>5, <2>1, <2>2, LockFrame
<1>6. QED
  BY <1>1, <1>4, <1>5

(* The lock goes back where it was taken.                                  *)
LEMMA LockLetGo ==
  ASSUME Shape, LockInv, NEW b \in Backend, LetGo(b) \/ StoreFast(b) \/ PostSplit(b)
  PROVE  LockInv'
<1>1. Pages' = Pages /\ OnlyMoves(b) /\ lock' = [lock EXCEPT ![th[b].at] = Nobody]
  BY LetGoEffect, StoreEffect, PostSplitEffect
<1>2. DOMAIN lock = Pages /\ b # Nobody
  BY PageTypes, BTreeAssumption DEF Shape, Nobody
<1>3. \A q \in Pages : lock'[q] = IF q = th[b].at THEN Nobody ELSE lock[q]
  BY <1>1, <1>2
<1>4. \A q \in Pages : lock[q] = b => q = th[b].at
  BY <1>2 DEF LockInv
<1>5. QED
  BY <1>1, <1>3, <1>4, LockFrame

LEMMA LockSplit ==
  ASSUME Shape, LockInv, NEW b \in Backend, SplitPage(b) \/ CutPage(b) \/ GrowRoot(b)
  PROVE  LockInv'
<1>0. /\ DOMAIN lock = Pages /\ Pages = 1 .. Len(lock) /\ b # Nobody
      /\ lock \in Seq(Backend \cup {Nobody}) /\ th[b].at \in Pages
      /\ Len(lock) = Len(page) /\ th[b] \in Thread
  BY PageTypes, ThreadTypes, BTreeAssumption DEF Shape, Types, Nobody, ThreadShape
<1>1. \A q \in Pages : lock[q] = b => q = th[b].at
  BY <1>0 DEF LockInv
<1>2. CASE SplitPage(b)
  <2>1. /\ Pages' = Pages \cup {Len(page) + 1} /\ OnlyMoves(b)
        /\ lock' = Append(lock, Nobody)
        /\ th'[b].pc = "cut" /\ th'[b].at = th[b].at
    BY <1>0, <1>2, SplitEffect DEF Thread
  <2>2. lock'[Len(page) + 1] = Nobody /\ \A q \in Pages : lock'[q] = lock[q]
    BY <1>0, <2>1, Extended
  <2>3. Holds(b)'
    BY <2>1 DEF Holds
  <2>4. QED
    BY <1>1, <2>1, <2>2, <2>3, LockFrame
<1>3. CASE CutPage(b)
  <2>1. /\ Pages' = Pages /\ OnlyMoves(b) /\ lock' = lock
        /\ th'[b].pc = "grow" /\ th'[b].at = th[b].at
    BY <1>0, <1>3, CutChanges DEF Thread
  <2>2. Holds(b)'
    BY <2>1 DEF Holds
  <2>3. QED
    BY <1>1, <2>1, <2>2, LockFrame
<1>4. CASE GrowRoot(b)
  <2>1. /\ Pages' = Pages \cup {Len(page) + 1} /\ OnlyMoves(b)
        /\ lock' = Append([lock EXCEPT ![th[b].at] = Nobody], Nobody)
    BY <1>4, GrowEffect
  <2>2. PICK l : l = [lock EXCEPT ![th[b].at] = Nobody]
    OBVIOUS
  <2>3. /\ l \in Seq(Backend \cup {Nobody}) /\ Len(l) = Len(lock)
        /\ \A q \in Pages : l[q] = IF q = th[b].at THEN Nobody ELSE lock[q]
    BY <1>0, <2>2, Rewritten
  <2>4. lock'[Len(page) + 1] = Nobody /\ \A q \in Pages : lock'[q] = l[q]
    BY <1>0, <2>1, <2>2, <2>3, Extended
  <2>5. QED
    BY <1>1, <2>1, <2>3, <2>4, LockFrame
<1>5. QED
  BY <1>2, <1>3, <1>4

LEMMA LockStep ==
  ASSUME Shape, LockInv, [Next]_vars
  PROVE  LockInv'
<1>1. ASSUME NEW b \in Backend, Step(b) PROVE LockInv'
  BY <1>1, LockMove, LockLetGo, LockSplit DEF Step, Descends
<1>2. ASSUME UNCHANGED vars PROVE LockInv'
  BY <1>2 DEF vars, LockInv, Pages, Holds
<1>3. QED
  BY <1>1, <1>2 DEF Next

(* A thread that finds its page locked.                                    *)
Waits(b) ==
  /\ th[b].pc = "down" /\ page[th[b].at].level <= th[b].level
  /\ lock[th[b].at] # Nobody

(* Another thread holds that lock, is at this page and does not wait.      *)
HoldersGoOn ==
  \A b \in Backend : Waits(b) =>
    \E o \in Backend :
      /\ lock[th[b].at] = o /\ th[o].at = th[b].at
      /\ th[o].pc \in {"locked", "cut", "grow"}

(* No deadlock among the threads that build the tree: what a thread waits  *)
(* for is always the lock of another that is at this very page and waits   *)
(* for none, since a thread lets go of its page before it moves right or   *)
(* up (btree.h store, btree.cc btree_insert_internal).                     *)
THEOREM HoldersNeverWait == Spec => []HoldersGoOn
<1>1. Init => Shape /\ LockInv
  <2> SUFFICES ASSUME Init PROVE LockInv
    BY ShapeInit
  <2>1. Pages = {1} /\ lock[1] = Nobody
    BY DEF Init, Pages
  <2>2. QED
    BY <2>1 DEF LockInv
<1>2. Shape /\ LockInv /\ [Next]_vars => (Shape /\ LockInv)'
  BY ShapeStep, LockStep
<1>3. Shape /\ LockInv => HoldersGoOn
  BY DEF HoldersGoOn, Waits, LockInv, Holds, Shape, ThreadShape
<1>4. QED
  BY <1>1, <1>2, <1>3, PTL DEF Spec
=============================================================================
