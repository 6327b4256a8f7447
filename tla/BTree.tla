------------------------------- MODULE BTree -------------------------------
(***************************************************************************)
(* The shared B+-tree of HiKV (Hikv/obj/btree.h, btree.cc) as the backend  *)
(* threads build it: each inserts the records of its own queue, descends   *)
(* without locks, takes the lock of one page at a time, moves right along  *)
(* sibling pointers, splits full pages and posts the split key one level   *)
(* up.  What a page does inside (FastFair) is one step here, and so is a   *)
(* search in it; what a search makes of a page in the middle of such a     *)
(* step is Misread.                                                        *)
(***************************************************************************)
EXTENDS Integers, Sequences, FiniteSets

CONSTANTS
  Backend,  \* the backend threads
  Work,     \* bound: Work[b], the keys thread b has to insert, in this order
  Card      \* cardinality, the entries of a page (6)

ASSUME BTreeAssumption ==
  /\ Card \in Nat /\ Card >= 4
  /\ Work \in [Backend -> Seq(Nat)]
  /\ -1 \notin Backend

VARIABLES
  page,    \* the pages in the order of getNewPage
  lock,    \* lock[p]: the thread that holds hdr.mtx of page p, or Nobody
  root,    \* the root page
  height,  \* the tree's own count of its levels
  th,      \* th[b]: where thread b is, and its registers
  raced    \* history: a search or a split was led astray by a data race

vars == <<page, lock, root, height, th, raced>>

Null == 0
Nobody == -1
Pages == DOMAIN page

Count(p) == Len(page[p].ents)
FirstKey(p) == page[p].ents[1].k

(* The records are named by their thread and number.                       *)
Record == UNION {{b} \X (1 .. Len(Work[b])) : b \in Backend}
KeyOf(x) == Work[x[1]][x[2]]

Init ==
  /\ page = << [level |-> 0, left |-> Null, ents |-> << >>, sib |-> Null] >>
  /\ lock = << Nobody >>
  /\ root = 1
  /\ height = 1
  /\ th = [b \in Backend |-> [pc |-> "idle", done |-> 0, level |-> 0, k |-> 0,
                              c |-> Null, at |-> 1, new |-> Null, split |-> 0,
                              cnt |-> 0]]
  /\ raced = FALSE

(* The entries of a page after insert_key: behind those with an equal key. *)
Inserted(ents, e) ==
  LET n == CHOOSE i \in 0 .. Len(ents) :
             /\ i > 0 => ents[i].k <= e.k
             /\ \A j \in i + 1 .. Len(ents) : ents[j].k > e.k
  IN  [i \in 1 .. Len(ents) + 1 |->
         IF i <= n THEN ents[i] ELSE IF i = n + 1 THEN e ELSE ents[i - 1]]

(* insert_key with a count of n, whatever the page holds: what others put  *)
(* behind that is overwritten, or left there under a wrong key.            *)
InsertedAtCount(ents, n, e) ==
  LET old   == Len(ents)
      front == Inserted(SubSeq(ents, 1, IF n < old THEN n ELSE old), e)
  IN  IF n >= old THEN front
      ELSE [i \in 1 .. IF n + 1 < old THEN old ELSE old + 1 |->
              IF i <= n + 1 THEN front[i]
              ELSE IF i > n + 2 THEN ents[i]
              ELSE [k |-> IF n + 1 < old THEN ents[i].k ELSE 0, c |-> ents[n + 1].c]]

(* page::linear_search on an inner page: the child on the left of the      *)
(* first larger key ...                                                    *)
ChildForPast(p, k) ==  \* mistake: the child of the first larger key itself
  LET high == {i \in 1 .. Count(p) : page[p].ents[i].k > k}
  IN  IF high = {} THEN page[p].ents[Count(p)].c
      ELSE page[p].ents[CHOOSE i \in high : \A j \in high : i <= j].c

ChildFor(p, k) ==
  LET low == {i \in 1 .. Count(p) : page[p].ents[i].k <= k}
  IN  IF low = {} THEN page[p].left
      ELSE page[p].ents[CHOOSE i \in low : \A j \in low : j <= i].c

(* ... or the sibling when the key is not below its first key.             *)
OnSibling(p, k) == page[p].sib # Null /\ FirstKey(page[p].sib) <= k

LinearSearch(p, k) == IF OnSibling(p, k) THEN page[p].sib ELSE ChildFor(p, k)

Entry(b) == [k |-> th[b].k, c |-> th[b].c]

(* Thread o shifts the entries of page p, key and pointer word by word, or *)
(* is about to (insert_key).                                               *)
Fills(o, p) ==
  \/ th[o].pc = "locked" /\ p = th[o].at /\ Count(p) < Card - 1
  \/ th[o].pc = "cut" /\ p = IF th[o].k < th[o].split THEN th[o].at ELSE th[o].new

(* The entries that can be met in page p meanwhile.                        *)
Shown(p) ==
  {page[p].ents[i] : i \in 1 .. Count(p)} \cup
  {Entry(o) : o \in {x \in Backend : Fills(x, p)}}

(* The first key of p's sibling is being written over: a comparison with   *)
(* it, which takes no lock and several loads, may turn out either way.     *)
Unsettled(p) ==
  LET s == page[p].sib IN
  s # Null /\ \E o \in Backend : Fills(o, s) /\ th[o].k < FirstKey(s)

Goto(b, pc) == th' = [th EXCEPT ![b].pc = pc]

-----------------------------------------------------------------------------
(* btree_insert: the descent begins at the root.                           *)
Begin(b) ==
  /\ th[b].pc = "idle"
  /\ th[b].done < Len(Work[b])
  /\ th' = [th EXCEPT ![b].pc = "down", ![b].level = 0, ![b].at = root,
                      ![b].new = Null, ![b].k = Work[b][th[b].done + 1],
                      ![b].c = <<b, th[b].done + 1>>]
  /\ UNCHANGED <<page, lock, root, height, raced>>

Down(b) ==
  /\ th[b].pc = "down"
  /\ page[th[b].at].level > th[b].level
  /\ th' = [th EXCEPT ![b].at = LinearSearch(th[b].at, th[b].k)]
  /\ UNCHANGED <<page, lock, root, height, raced>>

(* linear_search while another thread shifts the page under it: a key may  *)
(* be copied half old and half new, or a pointer read that belongs to a    *)
(* later key than the one compared, and no switch_counter tells.  Any of   *)
(* the page's children may be the result.  The search is astray unless it  *)
(* took an entry, or a sibling, that its key is not below (a leftmost child*)
(* taken by mistake counts as astray: late postings may be left of it).    *)
MisreadEntry(b) ==
  LET p == th[b].at IN
  /\ th[b].pc = "down"
  /\ page[p].level > th[b].level
  /\ \E o \in Backend : Fills(o, p)
  /\ ~OnSibling(p, th[b].k) \/ Unsettled(p)
  /\ \E q \in ({page[p].left} \cup {e.c : e \in Shown(p)}) \ {ChildFor(p, th[b].k)} :
       /\ th' = [th EXCEPT ![b].at = q]
       /\ raced' = (raced \/ \A e \in Shown(p) : e.c = q => th[b].k < e.k)
  /\ UNCHANGED <<page, lock, root, height>>

MisreadSibling(b) ==
  LET p == th[b].at IN
  /\ th[b].pc = "down"
  /\ page[p].level > th[b].level
  /\ Unsettled(p)
  /\ \/ /\ th' = [th EXCEPT ![b].at = page[p].sib]
        /\ raced' = (raced \/ ~OnSibling(p, th[b].k))
     \/ /\ th' = [th EXCEPT ![b].at = ChildFor(p, th[b].k)]
        /\ raced' = raced
  /\ UNCHANGED <<page, lock, root, height>>

(* store takes the page's lock.                                            *)
Acquire(b) ==
  /\ th[b].pc = "down"
  /\ page[th[b].at].level <= th[b].level
  /\ lock[th[b].at] = Nobody
  /\ lock' = [lock EXCEPT ![th[b].at] = b]
  /\ Goto(b, "locked")
  /\ UNCHANGED <<page, root, height, raced>>

(* The key belongs to a sibling when it is above the sibling's first key,  *)
(* which is read without a lock.                                           *)
BeyondNever(b) == FALSE  \* mistake: no look at the sibling

Beyond(b) ==
  LET s == page[th[b].at].sib IN s # Null /\ th[b].k > FirstKey(s)

MayGo(b)   == Beyond(b) \/ Unsettled(th[b].at)
MayStay(b) == ~Beyond(b) \/ Unsettled(th[b].at)

Unlock(b) == lock' = [lock EXCEPT ![th[b].at] = Nobody]

LetGoLocked(b) ==  \* mistake: the lock is kept on the way right
  /\ th[b].pc = "locked" /\ MayGo(b)
  /\ Goto(b, "right")
  /\ UNCHANGED <<page, lock, root, height, raced>>

(* The lock is released, and then the sibling pointer read once more.      *)
LetGo(b) ==
  /\ th[b].pc = "locked" /\ MayGo(b)
  /\ Unlock(b)
  /\ Goto(b, "right")
  /\ UNCHANGED <<page, root, height, raced>>

MoveRight(b) ==
  /\ th[b].pc = "right"
  /\ th' = [th EXCEPT ![b].at = page[th[b].at].sib, ![b].pc = "down"]
  /\ UNCHANGED <<page, lock, root, height, raced>>

Finished(b) == [th[b] EXCEPT !.pc = "idle", !.done = @ + 1]

StoreFastFull(b) ==  \* mistake: room up to the last entry
  /\ th[b].pc = "locked" /\ MayStay(b)
  /\ Count(th[b].at) < Card
  /\ page' = [page EXCEPT ![th[b].at].ents = Inserted(@, Entry(b))]
  /\ Unlock(b)
  /\ th' = [th EXCEPT ![b] = Finished(b)]
  /\ UNCHANGED <<root, height, raced>>

StoreFast(b) ==
  /\ th[b].pc = "locked" /\ MayStay(b)
  /\ Count(th[b].at) < Card - 1
  /\ page' = [page EXCEPT ![th[b].at].ents = Inserted(@, Entry(b))]
  /\ Unlock(b)
  /\ th' = [th EXCEPT ![b] = Finished(b)]
  /\ UNCHANGED <<root, height, raced>>

(* A full page: the upper half goes to a new page, which is linked while   *)
(* the old one still holds all of it.  An inner page's middle entry        *)
(* becomes the leftmost child of the new page.                             *)
SplitPage(b) ==
  LET p == th[b].at
      m == Count(p) \div 2
      mid == page[p].ents[m + 1]
      leaf == page[p].left = Null
      up == SubSeq(page[p].ents, IF leaf THEN m + 1 ELSE m + 2, Count(p))
  IN
  /\ th[b].pc = "locked" /\ MayStay(b)
  /\ Count(p) >= Card - 1
  /\ page' = Append([page EXCEPT ![p].sib = Len(page) + 1],
                    [level |-> page[p].level, ents |-> up, sib |-> page[p].sib,
                     left |-> IF leaf THEN Null ELSE mid.c])
  /\ lock' = Append(lock, Nobody)
  /\ th' = [th EXCEPT ![b].pc = "cut", ![b].new = Len(page) + 1,
                      ![b].split = mid.k, ![b].cnt = Len(up)]
  /\ UNCHANGED <<root, height, raced>>

(* Another thread has been at the page that b has linked and still fills,  *)
(* or is splitting it.                                                     *)
SecondWriter(b) ==
  \/ Count(th[b].new) # th[b].cnt
  \/ \E o \in Backend : th[o].pc = "cut" /\ th[o].at = th[b].new

CutUnlocked(b) ==  \* mistake: the lock is released before the root is seen to
  LET p == th[b].at
      n == th[b].new
      low == SubSeq(page[p].ents, 1, Count(p) \div 2)
      below == th[b].k < th[b].split
  IN
  /\ th[b].pc = "cut"
  /\ page' = IF below THEN [page EXCEPT ![p].ents = Inserted(low, Entry(b))]
             ELSE [page EXCEPT ![p].ents = low,
                               ![n].ents = InsertedAtCount(@, th[b].cnt, Entry(b))]
  /\ raced' = (raced \/ (~below /\ SecondWriter(b)))
  /\ Unlock(b)
  /\ Goto(b, "grow")
  /\ UNCHANGED <<root, height>>

(* The old page is cut, and the key goes into one of the two halves.  Only *)
(* the old page is locked; the entries of the new one are those that were  *)
(* counted when they were put there.                                       *)
CutPage(b) ==
  LET p == th[b].at
      n == th[b].new
      low == SubSeq(page[p].ents, 1, Count(p) \div 2)
      below == th[b].k < th[b].split
  IN
  /\ th[b].pc = "cut"
  /\ page' = IF below THEN [page EXCEPT ![p].ents = Inserted(low, Entry(b))]
             ELSE [page EXCEPT ![p].ents = low,
                               ![n].ents = InsertedAtCount(@, th[b].cnt, Entry(b))]
  /\ raced' = (raced \/ (~below /\ SecondWriter(b)))
  /\ Goto(b, "grow")
  /\ UNCHANGED <<lock, root, height>>

(* The root was split: a new root over the two halves.                     *)
GrowRoot(b) ==
  LET p == th[b].at IN
  /\ th[b].pc = "grow" /\ root = p
  /\ page' = Append(page, [level |-> page[p].level + 1, left |-> p, sib |-> Null,
                           ents |-> << [k |-> th[b].split, c |-> th[b].new] >>])
  /\ root' = Len(page) + 1
  /\ height' = height + 1
  /\ lock' = Append([lock EXCEPT ![p] = Nobody], Nobody)
  /\ th' = [th EXCEPT ![b] = Finished(b)]
  /\ raced' = raced

(* ... or the split key is posted to the parent level, lock released.      *)
PostSplit(b) ==
  /\ th[b].pc = "grow" /\ root # th[b].at
  /\ Unlock(b)
  /\ th' = [th EXCEPT ![b].pc = "post", ![b].k = th[b].split,
                      ![b].c = th[b].new, ![b].level = page[th[b].at].level + 1]
  /\ UNCHANGED <<page, root, height, raced>>

PostAboveOnly(b) ==  \* mistake: >= for >, a split below the root is not posted
  /\ th[b].pc = "post"
  /\ th' = [th EXCEPT ![b] = IF th[b].level >= page[root].level THEN Finished(b)
                             ELSE [@ EXCEPT !.pc = "down", !.at = root]]
  /\ UNCHANGED <<page, lock, root, height, raced>>

(* btree_insert_internal: another descent from the root, unless the tree   *)
(* has no such level.                                                      *)
Post(b) ==
  /\ th[b].pc = "post"
  /\ th' = [th EXCEPT ![b] = IF th[b].level > page[root].level THEN Finished(b)
                             ELSE [@ EXCEPT !.pc = "down", !.at = root]]
  /\ UNCHANGED <<page, lock, root, height, raced>>

Step(b) ==
  \/ Begin(b) \/ Down(b) \/ MisreadEntry(b) \/ MisreadSibling(b)
  \/ Acquire(b) \/ LetGo(b) \/ MoveRight(b)
  \/ StoreFast(b) \/ SplitPage(b) \/ CutPage(b) \/ GrowRoot(b)
  \/ PostSplit(b) \/ Post(b)

Next == \E b \in Backend : Step(b)

Spec == Init /\ [][Next]_vars

(* A backend thread never leaves its loop.                                 *)
FairSpec == Spec /\ \A b \in Backend : WF_vars(Step(b))

-----------------------------------------------------------------------------
(* The types; the last slot of a leaf stays free for the null that ends    *)
(* its entries (insert_key), and the tree counts its levels.               *)
TypeOK ==
  /\ \A p \in Pages :
       /\ page[p].level \in Nat /\ page[p].left \in Pages \cup {Null}
       /\ page[p].sib \in Pages \cup {Null}
       /\ page[p].level = 0 /\ ~raced => Count(p) <= Card - 1
       /\ \A i \in 1 .. Count(p) : page[p].ents[i].k \in Nat
  /\ lock \in [Pages -> Backend \cup {Nobody}]
  /\ root \in Pages
  /\ height = page[root].level + 1
  /\ \A b \in Backend :
       /\ th[b].pc \in {"idle", "down", "locked", "right", "cut", "grow", "post"}
       /\ th[b].done \in 0 .. Len(Work[b]) /\ th[b].at \in Pages
  /\ raced \in BOOLEAN

(* What a page holds, less the half that is about to be cut off.           *)
Held(p) ==
  IF \E b \in Backend : th[b].pc = "cut" /\ th[b].at = p
  THEN SubSeq(page[p].ents, 1, Count(p) \div 2) ELSE page[p].ents

Leaves == {p \in Pages : page[p].level = 0}

(* The records that store has put into a leaf.                             *)
Stored ==
  {x \in Record :
     LET t == th[x[1]] IN
     \/ x[2] <= t.done
     \/ /\ x[2] = t.done + 1 /\ t.pc # "idle"
        /\ t.level > 0 \/ t.pc \in {"grow", "post"}}

(* The leaves are one sorted list of exactly the stored records, each of   *)
(* them once: no insert is lost to, or doubled by, a split of another      *)
(* thread on its way (store, btree_insert).  This and what follows is so   *)
(* until a search is led astray by a page that is being written, or two    *)
(* threads fill one page: from then on, nothing is said.                   *)
LeavesHoldStored ==
  ~raced =>
    /\ \A x \in Stored :
         Cardinality({w \in Leaves \X (1 .. Card) :
                        w[2] <= Len(Held(w[1])) /\ Held(w[1])[w[2]].c = x}) = 1
    /\ \A p \in Leaves :
         /\ \A i \in 1 .. Len(Held(p)) :
              /\ Held(p)[i].c \in Stored /\ Held(p)[i].k = KeyOf(Held(p)[i].c)
              /\ i > 1 => Held(p)[i - 1].k <= Held(p)[i].k
         /\ page[p].sib # Null => Held(p)[Len(Held(p))].k <= FirstKey(page[p].sib)

(* Only a page that is being written leads a search astray: a thread that  *)
(* was not misled arrives at, and stays on, a leaf at or left of its key,  *)
(* wherever splits overtook it and whatever order postings arrive in, and  *)
(* also if it misread an entry for one too far left.  What it is after can *)
(* still be reached along sibling pointers (linear_search, btree_insert).  *)
DescentStaysLeft ==
  ~raced =>
    \A b \in Backend :
      LET p == th[b].at IN
      th[b].pc \in {"down", "locked", "right"} /\ page[p].level = 0 =>
        p = 1 \/ FirstKey(p) <= th[b].k

(* A split writes the page it has just linked without holding its lock.    *)
(* Another thread may lock that page, when it let go of the old page just  *)
(* before and reads the sibling pointer only now.  Nothing is written      *)
(* twice if its key belongs further right.                                 *)
SplitIsPrivate(b) ==
  \A o \in Backend \ {b} :
    th[o].pc = "locked" /\ th[o].at \in {th[b].at, th[b].new} =>
      th[o].at = th[b].new /\ ~MayStay(o)

(* While store splits a leaf, no other thread writes either half.          *)
NewLeafIsPrivate ==
  ~raced =>
    \A b \in Backend :
      th[b].pc = "cut" /\ page[th[b].at].level = 0 => SplitIsPrivate(b)

(* "Lock the write lock" (btree.h:708): a page has one writer at a time,   *)
(* whatever its level.  store breaks this for inner pages: it compares a   *)
(* posted key with the first key of the sibling, not with the key the page *)
(* was split at, so a late posting lands in the old page, beyond keys that *)
(* later postings put in front of the sibling; from then on a thread       *)
(* between two siblings may arrive in a page that another is splitting.    *)
NewPageIsPrivate ==
  ~raced => \A b \in Backend : th[b].pc = "cut" => SplitIsPrivate(b)

(* "store the key into the node at the given level" (btree.cc): the level  *)
(* to which a split key is posted always exists, so btree_insert_internal  *)
(* never takes its silent return.                                          *)
PostFindsLevel ==
  \A b \in Backend : th[b].pc = "post" => th[b].level <= page[root].level

(* Every page below the root level that is not the first of its level is a *)
(* child of a page one level up, or a thread is about to make it one: no   *)
(* split is forgotten while the root grows over it.                        *)
PagesPosted ==
  ~raced =>
    \A p \in Pages :
      \/ page[p].level = page[root].level
      \/ \A q \in Pages : page[q].sib # p
      \/ \E q \in Pages :
           /\ page[q].level = page[p].level + 1
           /\ page[q].left = p \/ \E i \in 1 .. Count(q) : page[q].ents[i].c = p
      \/ \E b \in Backend :
           th[b].pc # "idle" /\ (th[b].new = p \/ (th[b].level > 0 /\ th[b].c = p))

(* The inserts end: threads that move right never hold two locks.          *)
InsertsEnd == \A b \in Backend : <>(th[b].done = Len(Work[b]))
=============================================================================
